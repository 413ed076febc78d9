------------------------------- MODULE Daemon -------------------------------
(***************************************************************************)
(* `zapcloud serve`: from its configuration to the pages it answers.  The   *)
(* daemon loads a configuration, prepares runtimes and storage, listens,    *)
(* checks the signature of every request, and may be stopped or die at any  *)
(* moment.  A client with a clock of its own reads the listing of           *)
(* Pagination through it, one signed request per page.                      *)
(*                                                                         *)
(* The function of a page and its marker are two parameters of a query      *)
(* string; a signature is the request it was computed from.  That a client  *)
(* receives a page when the daemon reads it is not a restriction: nothing   *)
(* the client does comes between.                                           *)
(***************************************************************************)
EXTENDS Pagination, Integers

CONSTANTS Configurations, \* the files and environments the daemon is started with
          Offsets,        \* how far the clock of the client may be ahead of the daemon's
          Window,         \* max_clock_skew
          Day,            \* how long a day is
          None,           \* no request, no configuration
          MaxClock,       \* bound: time stops here
          MaxFaults       \* bound: stops, failures, losses and garbled requests

ASSUME DaemonAssumption ==
  /\ Offsets \subseteq Int /\ Window \in Nat /\ Day \in Nat \ {0}
  /\ MaxClock \in Nat /\ MaxFaults \in Nat

VARIABLES
  serve,   \* where run_serve is
  config,  \* the configuration it was started with
  clock,   \* the clock of the daemon
  offset,  \* that of the client, minus that of the daemon
  request, \* the request under way, or None
  faults   \* history: what has gone wrong so far

daemonVars == <<vars, serve, config, clock, offset, request, faults>>

-----------------------------------------------------------------------------
(* Config::validate.  It trims the URL of the database: a "padded" one has  *)
(* spaces in front.                                                         *)
RegionAnything(c) == TRUE  \* variant for the mutation runs
RegionValid(c) == c.region = "valid"
OnlyKnownClients(c) == c.auth = "none" => c.listen = "loopback" \/ c.insecure
Valid(c) ==
  /\ c.listen # "malformed" /\ OnlyKnownClients(c) /\ RegionValid(c)
  /\ c.metadata \in {"sqlite", "padded"} /\ c.artifacts # "" /\ c.quota # 0
  /\ c.trust = "trusted" /\ c.executor = "process"

DaemonInit ==
  /\ Init
  /\ serve = "down" /\ config = None
  /\ clock = 0 /\ offset \in Offsets
  /\ request = None /\ faults = 0

Fault == faults < MaxFaults /\ faults' = faults + 1
Down == serve' = "down" /\ config' = None
Environment == UNCHANGED <<vars, clock, offset>>

(* run_serve.  A configuration that is refused starts nothing.              *)
Load(c) ==
  /\ serve = "down" /\ Valid(c)
  /\ serve' = "preflight" /\ config' = c
  /\ UNCHANGED <<request, faults>> /\ Environment

(* Whatever becomes of the runtimes to preinstall, the start goes on.       *)
Preflight ==
  /\ serve = "preflight" /\ serve' = "build"
  /\ UNCHANGED <<config, request, faults>> /\ Environment

(* build_app prepares directory, database and store, takes the credentials  *)
(* from the environment, and checks the region again as part of an ARN.  It *)
(* connects to the URL as it was written, which padded is no longer one of  *)
(* SQLite but a path into a directory `sqlite:`.                            *)
Configured(c) == c.metadata = "sqlite" /\ c.region = "valid"
HasCredentials(c) == c.auth = "sigv4" => c.keys
Build ==
  /\ serve = "build"
  /\ IF Configured(config) /\ HasCredentials(config)
     THEN serve' = "bind" /\ UNCHANGED config ELSE Down
  /\ UNCHANGED <<request, faults>> /\ Environment

(* TcpListener::bind on the address of the configuration.                   *)
Bind ==
  /\ serve = "bind"
  /\ IF config.listen = "malformed" THEN Down ELSE serve' = "serving" /\ UNCHANGED config
  /\ UNCHANGED <<request, faults>> /\ Environment

(* A start fails on storage or on a port in use, or the process dies: who   *)
(* was connected is cut off.                                                *)
Crash ==
  /\ serve # "down" /\ Down /\ request' = None
  /\ Fault /\ Environment

(* ctrl_c: no new connection; the process ends after the last answer.       *)
Shutdown ==
  /\ serve = "serving" /\ serve' = "draining"
  /\ Fault /\ UNCHANGED <<config, request>> /\ Environment
Exit ==
  /\ serve = "draining" /\ request = None /\ Down
  /\ UNCHANGED <<request, faults>> /\ Environment

-----------------------------------------------------------------------------
(* The query string a page is asked with, and the ways to write it: its     *)
(* parameters in any order, each with or without percent-encoding.          *)
Query(m, from) ==
  {<<"MaxItems", m>>} \cup IF from = Start THEN {} ELSE {<<"Marker", from>>}
Queries == {Query(m, from) : m \in 1..MaxItemsLimit, from \in Names \cup {Start}}
Spellings(query) ==
  {w \in [1..Cardinality(query) -> query \X BOOLEAN] : {w[i][1] : i \in DOMAIN w} = query}

Requests ==
  [at : {"sent", "accepted"}, query : Queries, wire : UNION {Spellings(q) : q \in Queries},
   since : 0..MaxClock, stamp : Int, date : Int]
ASSUME NoneAssumption == None \notin Requests \cup Configurations

(* canonical_query: decoded, encoded again and sorted, so that one text     *)
(* stands for one set of parameters.                                        *)
CanonicalRaw(wire) == {wire[i] : i \in DOMAIN wire}  \* variant: as it was written
Canonical(wire) == {wire[i][1] : i \in DOMAIN wire}
ItemsOf(query) == CHOOSE m \in 1..MaxItemsLimit : <<"MaxItems", m>> \in query
MarkerOf(query) ==
  IF \E n \in Names : <<"Marker", n>> \in query
  THEN CHOOSE n \in Names : <<"Marker", n>> \in query ELSE Start

Date(t) == t \div Day

(* The client signs with its own clock, and connects.                       *)
Send(m) ==
  /\ client = "reading" /\ request = None /\ serve = "serving" /\ ValidMaxItems(m)
  /\ \E wire \in Spellings(Query(m, marker)) :
       request' = [at |-> "sent", query |-> Query(m, marker), wire |-> wire,
                   since |-> clock, stamp |-> clock + offset, date |-> Date(clock + offset)]
  /\ UNCHANGED <<serve, config, faults>> /\ Environment

(* Some time passes, for example while the body is uploaded...              *)
Tick ==
  /\ clock < MaxClock /\ clock' = clock + 1
  /\ UNCHANGED <<vars, serve, config, offset, request, faults>>

(* ... or another query arrives than was sent.                              *)
Garble ==
  /\ request # None /\ request.at = "sent" /\ config.auth = "sigv4"
  /\ \E query \in Queries \ {request.query} :
       \E wire \in Spellings(query) : request' = [request EXCEPT !.wire = wire]
  /\ Fault /\ UNCHANGED <<serve, config>> /\ Environment

-----------------------------------------------------------------------------
(* authenticate, in mode `sigv4`: the body has been read when the clock is. *)
Distance(a, b) == IF a > b THEN a - b ELSE b - a
InWindowStrictly(r) == Distance(clock, r.stamp) < Window  \* variants for the mutation runs
ScopeIsToday(r) == r.date = Date(clock)
AnyQuery(r) == TRUE
ScopeMatches(r) == r.date = Date(r.stamp)
InWindow(r) == Distance(clock, r.stamp) <= Window
SignatureMatches(r) == Canonical(r.wire) = r.query
Verified(r) == ScopeMatches(r) /\ InWindow(r) /\ SignatureMatches(r)

Authenticate ==
  /\ request # None /\ request.at = "sent"
  /\ request' = IF config.auth = "none" \/ Verified(request)
                THEN [request EXCEPT !.at = "accepted"] ELSE None
  /\ UNCHANGED <<serve, config, faults>> /\ Environment

(* list_functions answers the query that arrived; an answer may be lost.    *)
ListFunctions ==
  /\ request # None /\ request.at = "accepted" /\ request' = None
  /\ PageFrom(ItemsOf(Canonical(request.wire)), MarkerOf(Canonical(request.wire)))
  /\ UNCHANGED <<serve, config, clock, offset, faults>>
LoseAnswer ==
  /\ request # None /\ request.at = "accepted" /\ request' = None
  /\ Fault /\ UNCHANGED <<serve, config>> /\ Environment

-----------------------------------------------------------------------------
Usable(c) == Valid(c) /\ Configured(c) /\ HasCredentials(c)
ServeStep == Preflight \/ Build \/ Bind \/ Exit
RequestStep == Authenticate \/ ListFunctions \/ \E m \in 1..MaxItemsLimit : Send(m)

DaemonNext ==
  \/ \E c \in Configurations : Load(c)
  \/ ServeStep \/ Crash \/ Shutdown
  \/ RequestStep \/ Tick \/ Garble \/ LoseAnswer
  \/ /\ \/ \E n \in Names : Create(n) \/ Delete(n)
        \/ request = None /\ Begin
     /\ UNCHANGED <<serve, config, clock, offset, request, faults>>

(* Somebody starts the daemon with a configuration that is usable, tasks    *)
(* are scheduled, and the client signs again after an error.                *)
DaemonSpec ==
  /\ DaemonInit /\ [][DaemonNext]_daemonVars
  /\ SF_daemonVars(\E c \in Configurations : Usable(c) /\ Load(c))
  /\ WF_daemonVars(ServeStep) /\ WF_daemonVars(RequestStep)

-----------------------------------------------------------------------------
(* Every variable ranges over the values the daemon and its client hold.    *)
DaemonTypeOK ==
  /\ TypeOK
  /\ serve \in {"down", "preflight", "build", "bind", "serving", "draining"}
  /\ config \in Configurations \cup {None} /\ clock \in 0..MaxClock /\ offset \in Offsets
  /\ request \in Requests \cup {None} /\ faults \in 0..MaxFaults

(* The clock of a client and the time its request takes add up: while they  *)
(* stay within five minutes the request is accepted, at midnight too, and   *)
(* however a proxy writes its query.                                        *)
RefusedOnlyLate ==
  [][(request # None /\ request' = None /\ faults' = faults /\ request.at = "sent") =>
       \/ clock - request.since + Distance(offset, 0) > Window
       \/ request.wire \notin Spellings(request.query)]_daemonVars

(* Two crates validate a region, and storage is opened long after the       *)
(* configuration was accepted: a start that gets that far ends in a daemon  *)
(* that serves, unless something fails, credentials are missing, or the URL *)
(* is one that only the validation trims...                                 *)
OnlyFaultsStopAStart ==
  [][(serve \in {"preflight", "build", "bind"} /\ serve' = "down") =>
       faults' # faults \/ ~HasCredentials(config) \/ config.metadata = "padded"]_daemonVars

(* ... although it was accepted like any other.                             *)
AcceptedStarts ==
  [][(serve \in {"preflight", "build", "bind"} /\ serve' = "down") =>
       faults' # faults \/ ~HasCredentials(config)]_daemonVars

(* Through restarts, garbled and late requests and lost answers a client    *)
(* sees what Pagination promises: no page is skipped, repeated, or asked    *)
(* for by somebody else's marker.  (Its end is ListingEnds.)                *)
ImplementsListing == Init /\ [][Next]_vars
=============================================================================
