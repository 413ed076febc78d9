---------------------------- MODULE DaemonProofs ----------------------------
(***************************************************************************)
(* For any number of functions and page sizes a listing is complete; and   *)
(* for any configurations, clocks, windows and numbers of faults a start   *)
(* only fails for a reason, no request is refused in time, and a listing   *)
(* read through the daemon is one of Pagination.                           *)
(***************************************************************************)
EXTENDS Daemon, FiniteSetTheorems, WellFoundedInduction, TLAPS

Less == OpToRel(<, Nat)

LEMMA IsLess == Less = {ss \in Nat \X Nat : ss[1] < ss[2]}
BY Zenon DEF Less, OpToRel

(* A set of names has a first one. *)
LEMMA FirstName == ASSUME NEW S \in SUBSET Nat, S # {} PROVE \E n \in S : \A k \in S : n <= k
<1>1. IsWellFoundedOn(Less, Nat)
  BY NatLessThanWellFounded, Zenon DEF Less
<1>2. \E n \in S : \A k \in S : <<k, n>> \notin Less
  BY <1>1, WFMin
<1>3. \A n, k \in Nat : n <= k \/ <<k, n>> \in Less
  BY IsLess
<1> QED
  BY <1>2, <1>3

LEMMA NamesFinite == ASSUME NEW S \in SUBSET Names PROVE IsFiniteSet(S) /\ Cardinality(S) \in Nat /\ S \in SUBSET Nat
<1>1. IsFiniteSet(Names) /\ Names \in SUBSET Nat
  BY PaginationAssumption, FS_Interval DEF Names
<1> QED
  BY <1>1, FS_Subset, FS_CardinalityType

(* What truncation keeps of a page: the first names, and at least one.      *)
LEMMA TruncatedKeepsFirst ==
  ASSUME NEW rows \in SUBSET Names, NEW max \in Nat \ {0}, rows # {}
  PROVE  /\ Truncated(rows, max) \in SUBSET rows
         /\ Truncated(rows, max) # {}
         /\ \A n \in Truncated(rows, max) : \A k \in rows : k < n => k \in Truncated(rows, max)
<1> DEFINE Below(n) == {k \in rows : k < n}
<1>0. rows \in SUBSET Nat
  BY NamesFinite
<1>1. \A n \in rows : Cardinality(Below(n)) \in Nat /\ IsFiniteSet(Below(n)) /\ n \in Nat
  BY NamesFinite
<1>2. PICK n \in rows : \A k \in rows : n <= k
  BY FirstName, NamesFinite
<1>3. Below(n) = {}
  <2>1. \A k \in rows : ~(k < n)
    BY <1>2, <1>0
  <2> QED
    BY <2>1
<1>4. n \in Truncated(rows, max)
  BY <1>3, FS_EmptySet DEF Truncated
<1>5. ASSUME NEW i \in Truncated(rows, max), NEW k \in rows, k < i PROVE k \in Truncated(rows, max)
  <2>1. i \in rows /\ Cardinality(Below(i)) < max
    BY <1>5 DEF Truncated
  <2>2. Below(k) \in SUBSET Below(i)
    <3>1. \A j \in rows : j < k => j < i
      BY <1>5, <1>0, <2>1
    <3> QED
      BY <3>1
  <2>3. Cardinality(Below(k)) <= Cardinality(Below(i))
    BY <1>1, <2>1, <2>2, FS_Subset
  <2> QED
    BY <1>1, <2>1, <2>3 DEF Truncated
<1> QED
  BY <1>4, <1>5 DEF Truncated

(* What follows the last name it keeps.                                     *)
LEMMA TruncatedLeavesMore ==
  ASSUME NEW rows \in SUBSET Names, NEW max \in Nat \ {0},
         NEW last \in Truncated(rows, max), \A k \in Truncated(rows, max) : k <= last
  PROVE  /\ Cardinality(Truncated(rows, max)) <= max
         /\ Cardinality(rows) > max => \E k \in rows : k > last
<1> DEFINE got == Truncated(rows, max)
           below == {k \in rows : k < last}
<1>1. got \in SUBSET rows /\ last \in rows /\ Cardinality(below) < max
  BY DEF Truncated
<1>2. /\ rows \in SUBSET Nat /\ IsFiniteSet(rows) /\ IsFiniteSet(got) /\ IsFiniteSet(below)
      /\ Cardinality(rows) \in Nat /\ Cardinality(got) \in Nat /\ Cardinality(below) \in Nat
  BY <1>1, NamesFinite
<1>3. Cardinality(got \ {last}) = Cardinality(got) - 1 /\ Cardinality(rows \ {last}) = Cardinality(rows) - 1
  BY <1>1, <1>2, FS_RemoveElement
<1>4. Cardinality(got) <= max
  <2>1. got \ {last} \in SUBSET below
    <3>1. \A k \in got \ {last} : k \in rows /\ k < last
      BY <1>1, <1>2
    <3> QED
      BY <3>1
  <2>2. Cardinality(got \ {last}) <= Cardinality(below)
    BY <1>2, <2>1, FS_Subset
  <2> QED
    BY <1>1, <1>2, <1>3, <2>2
<1>5. ASSUME Cardinality(rows) > max, \A k \in rows : ~(k > last) PROVE FALSE
  <2>1. rows \ {last} = below
    <3>1. \A k \in rows : k # last <=> k < last
      BY <1>1, <1>2, <1>5
    <3> QED
      BY <3>1
  <2>2. Cardinality(rows) - 1 < max /\ Cardinality(rows) \in Nat
    BY <1>1, <1>2, <1>3, <2>1
  <2> QED
    BY <1>5, <2>2
<1> QED
  BY <1>4, <1>5

(* Rows that number fewer than the limit are all there are.                 *)
LEMMA ShortMeansAll ==
  ASSUME NEW S \in SUBSET Names, NEW rows \in SUBSET S, NEW limit \in Nat,
         Cardinality(rows) = Smaller(limit, Cardinality(S)), Cardinality(rows) < limit
  PROVE  rows = S
<1>1. IsFiniteSet(S) /\ Cardinality(S) \in Nat
  BY NamesFinite
<1>2. Cardinality(rows) = Cardinality(S)
  BY <1>1 DEF Smaller
<1> QED
  BY <1>1, <1>2, FS_Subset

(* Up to the marker, everything that was there from the beginning has been  *)
(* listed, and nothing after it has.                                        *)
Types ==
  /\ functions \in SUBSET Names /\ client \in {"idle", "reading", "done"}
  /\ marker \in Names \cup {Start}
  /\ page \in SUBSET Names /\ earlier \in SUBSET Names /\ kept \in SUBSET Names
Listed ==
  /\ kept \subseteq functions
  /\ client = "reading" => \A n \in page \cup earlier : n <= marker
  /\ client = "reading" => \A n \in kept : n <= marker => n \in page \cup earlier
IInv == Types /\ Listed /\ Cardinality(page) <= PageLimit /\ NoRepeats /\ Complete

LEMMA LimitIsPositive == ASSUME NEW m, ValidMaxItems(m) PROVE Limit(m) \in Nat \ {0} /\ Extra(Limit(m)) = Limit(m) + 1
BY PaginationAssumption DEF ValidMaxItems, Limit, Smaller, Extra

LEMMA PageKeeps == ASSUME IInv, NEW m, Page(m) PROVE IInv' /\ (marker' # marker => \E n \in functions : n > marker')
<1> DEFINE max == Limit(m)
<1>1. max \in Nat \ {0} /\ Extra(max) = max + 1 /\ client = "reading"
  BY LimitIsPositive DEF Page, PageFrom
<1>2. PICK rows \in SUBSET functions :
        /\ IsFirst(rows, marker, max + 1)
        /\ Receive(IF HasMore(rows, max) THEN Truncated(rows, max) ELSE rows, HasMore(rows, max))
  BY <1>1 DEF Page, PageFrom
<1>3. /\ Types /\ Listed /\ NoRepeats /\ UNCHANGED <<functions, kept>> /\ earlier' = earlier \cup page
      /\ marker \in Nat /\ functions \in SUBSET Nat
  BY <1>2, PaginationAssumption DEF IInv, Page, PageFrom, Receive, Types, Names, Start
<1>4. /\ Candidates(marker) \in SUBSET Names /\ rows \in SUBSET Candidates(marker) /\ rows \in SUBSET Names
      /\ \A n \in functions : n > marker <=> n \in Candidates(marker)
      /\ Cardinality(rows) = Smaller(max + 1, Cardinality(Candidates(marker))) /\ Cardinality(rows) \in Nat
  BY <1>2, <1>3, NamesFinite DEF IsFirst, Candidates, AfterMarker, Types
<1>7. max <= PageLimit /\ PageLimit \in Nat
  BY <1>1, PaginationAssumption DEF Limit, Smaller, Page, PageFrom, ValidMaxItems
<1> HIDE DEF max
<1>5. CASE HasMore(rows, max)
  <2> DEFINE got == Truncated(rows, max)
  <2>1. rows # {}
    BY <1>1, <1>5, FS_EmptySet DEF HasMore
  <2>2. got \in SUBSET rows /\ got # {} /\ \A n \in got : \A k \in rows : k < n => k \in got
    BY <1>1, <1>4, <2>1, TruncatedKeepsFirst
  <2>3. page' = got /\ client' = client
    BY <1>2, <1>5, <2>2 DEF Receive
  <2>4. PICK last \in got : marker' = last /\ \A k \in got : k <= last
    BY <1>2, <1>5, <2>2 DEF Receive
  <2>5. Cardinality(got) <= max /\ \E k \in rows : k > last
    BY <1>1, <1>4, <1>5, <2>4, TruncatedLeavesMore DEF HasMore
  <2>6. Types' /\ last \in Nat /\ last > marker
    BY <1>3, <1>4, <2>2, <2>3, <2>4 DEF Types, Names
  <2>7. \A n \in page' : \A k \in earlier' : k < n
    <3>1. \A n \in page' : n > marker /\ n \in Nat
      BY <1>3, <1>4, <2>2, <2>3
    <3>2. \A k \in earlier' : k <= marker /\ k \in Nat
      BY <1>1, <1>3 DEF Listed, Types, Names
    <3> QED
      BY <1>3, <3>1, <3>2
  <2>8. \A n \in page' \cup earlier' : n <= marker'
    BY <1>1, <1>3, <1>4, <2>2, <2>3, <2>4, <2>6 DEF Listed, Types, Names
  <2>9. ASSUME NEW n \in kept, n <= last PROVE n \in page' \cup earlier'
    <3>1. CASE n <= marker
      BY <1>1, <1>3, <3>1 DEF Listed
    <3>2. CASE n > marker
      <4>0. n \in Nat /\ last \in Nat
        BY <1>3, <2>6 DEF Listed
      <4>1. n \in Candidates(marker)
        BY <1>3, <1>4, <3>2 DEF Listed
      <4>2. n = last \/ n < last
        BY <2>9, <4>0
      <4>3. n \in rows
        BY <1>2, <2>2, <4>1, <4>2 DEF IsFirst
      <4> QED
        BY <2>2, <2>3, <4>2, <4>3
    <3> QED
      BY <1>3, <3>1, <3>2 DEF Listed
  <2>10. Listed' /\ NoRepeats' /\ Complete'
    BY <1>1, <1>3, <2>3, <2>4, <2>7, <2>8, <2>9 DEF Listed, NoRepeats, Complete
  <2>11. Cardinality(page') <= PageLimit
    BY <1>1, <1>7, <1>4, <2>2, <2>3, <2>5, NamesFinite
  <2>12. \E n \in functions : n > marker'
    BY <1>4, <2>4, <2>5
  <2> QED
    BY <2>6, <2>10, <2>11, <2>12 DEF IInv
<1>6. CASE ~HasMore(rows, max)
  <2>1. page' = rows /\ client' = "done" /\ UNCHANGED marker /\ Cardinality(rows) <= max
    BY <1>2, <1>1, <1>4, <1>6 DEF Receive, HasMore
  <2>2. rows = Candidates(marker)
    BY <1>1, <1>4, <2>1, ShortMeansAll
  <2>3. Types'
    BY <1>3, <1>4, <2>1 DEF Types
  <2>4. \A n \in page' : \A k \in earlier' : k < n
    BY <1>1, <1>3, <1>4, <2>1 DEF Listed, Types, Names
  <2>5. ASSUME NEW n \in kept PROVE n \in page' \cup earlier'
    <3>1. CASE n <= marker
      BY <1>1, <1>3, <3>1 DEF Listed
    <3>2. CASE n > marker
      BY <1>3, <1>4, <2>1, <2>2, <3>2 DEF Listed
    <3> QED
      BY <1>3, <3>1, <3>2 DEF Listed
  <2> QED
    BY <1>1, <1>3, <1>4, <1>7, <2>1, <2>3, <2>4, <2>5 DEF IInv, Listed, NoRepeats, Complete
<1> QED
  BY <1>5, <1>6

LEMMA Initial == Init => IInv
<1> SUFFICES ASSUME Init PROVE IInv
  OBVIOUS
<1>1. Cardinality(page) <= PageLimit
  BY FS_EmptySet, PaginationAssumption DEF Init
<1> QED
  BY <1>1, PaginationAssumption DEF Init, IInv, Types, Listed, NoRepeats, Complete, Start

LEMMA Inductive == IInv /\ [Next]_vars => IInv'
<1> SUFFICES ASSUME IInv, [Next]_vars PROVE IInv'
  OBVIOUS
<1> USE DEF IInv, Types, Listed, NoRepeats, Complete, listing
<1>1. ASSUME NEW n \in Names, Create(n) PROVE IInv'
  BY <1>1 DEF Create
<1>2. ASSUME NEW n \in Names, Delete(n) PROVE IInv'
  BY <1>2 DEF Delete
<1>3. CASE Begin
  <2>1. Cardinality(page') <= PageLimit
    BY <1>3, FS_EmptySet, PaginationAssumption DEF Begin
  <2>2. \A n \in kept' : ~(n <= marker')
    BY <1>3, PaginationAssumption DEF Begin, Names, Start
  <2> QED
    BY <1>3, <2>1, <2>2 DEF Begin
<1>4. ASSUME NEW m \in 0..MaxItemsLimit, Page(m) PROVE IInv'
  BY <1>4, PageKeeps
<1>5. CASE UNCHANGED vars
  BY <1>5 DEF vars
<1> QED
  BY <1>1, <1>2, <1>3, <1>4, <1>5 DEF Next

(* All of it is owed to the steps, and nothing to their fairness.           *)
LEMMA Always == Init /\ [][Next]_vars => []IInv
BY Initial, Inductive, PTL

THEOREM Invariant == Spec => []IInv
BY Always, PTL DEF Spec

(* Every variable keeps its type, and no page is longer than the limit. *)
THEOREM TypeCorrect == Spec => []TypeOK
<1>1. IInv => TypeOK
  BY DEF IInv, Types, TypeOK
<1> QED
  BY <1>1, Invariant, PTL

(* No function is listed twice. *)
THEOREM ListedOnce == Spec => []NoRepeats
<1>1. IInv => NoRepeats
  BY DEF IInv
<1> QED
  BY <1>1, Invariant, PTL

(* A finished listing misses no function that was there all along. *)
THEOREM ListingIsComplete == Spec => []Complete
<1>1. IInv => Complete
  BY DEF IInv
<1> QED
  BY <1>1, Invariant, PTL

(* A marker is only given out while there is a function after it. *)
THEOREM MarkersLeadOn == Spec => MarkerLeadsOn
<1>1. ASSUME IInv, [Next]_vars, marker' # marker, marker' # Start
      PROVE  \E n \in functions : n > marker'
  <2>1. CASE \E m \in 0..MaxItemsLimit : Page(m)
    BY <1>1, <2>1, PageKeeps
  <2>2. CASE ~\E m \in 0..MaxItemsLimit : Page(m)
    BY <1>1, <2>2 DEF Next, Create, Delete, Begin, vars, listing
  <2> QED
    BY <2>1, <2>2
<1> QED
  BY <1>1, Invariant, PTL DEF Spec, MarkerLeadsOn

-----------------------------------------------------------------------------
(* A query determines its parameters, and every spelling of it the query.   *)
LEMMA ItemsOfQuery ==
  ASSUME NEW m \in 1..MaxItemsLimit, NEW from
  PROVE  ItemsOf(Query(m, from)) = m
BY DEF ItemsOf, Query

LEMMA MarkerOfQuery ==
  ASSUME NEW m, NEW from \in Names \cup {Start}
  PROVE  MarkerOf(Query(m, from)) = from
<1>1. CASE from = Start
  <2>1. \A n : <<"Marker", n>> \notin Query(m, from)
    BY <1>1 DEF Query
  <2> QED
    BY <1>1, <2>1 DEF MarkerOf
<1>2. CASE from # Start
  <2>1. from \in Names /\ \A n : <<"Marker", n>> \in Query(m, from) <=> n = from
    BY <1>2 DEF Query
  <2> QED
    BY <2>1 DEF MarkerOf
<1> QED
  BY <1>1, <1>2

LEMMA CanonicalOfSpelling ==
  ASSUME NEW query, NEW wire \in Spellings(query)
  PROVE  Canonical(wire) = query
BY DEF Spellings, Canonical

(* The configuration in force is a valid one; a request asks for the page   *)
(* after the marker of the client, and is accepted only as it was signed.   *)
ValidInForce == serve # "down" => config \in Configurations /\ Valid(config)
RequestInOrder ==
  request # None =>
    /\ client = "reading" /\ serve \in {"serving", "draining"}
    /\ \E m \in 1..MaxItemsLimit : request.query = Query(m, marker)
    /\ request.since <= clock /\ request.stamp = request.since + offset
    /\ request.date = Date(request.stamp)
    /\ request.at = "accepted" \/ config.auth = "none" => Canonical(request.wire) = request.query
DInv == DaemonTypeOK /\ ValidInForce /\ RequestInOrder

(* What the daemon answers is the page the client asked for.                *)
LEMMA AnswersPage == ASSUME DInv, ListFunctions PROVE \E m \in 1..MaxItemsLimit : Page(m)
<1>1. PICK m \in 1..MaxItemsLimit : request.query = Query(m, marker)
  BY DEF DInv, RequestInOrder, ListFunctions
<1>2. Canonical(request.wire) = Query(m, marker)
  BY <1>1 DEF DInv, RequestInOrder, ListFunctions
<1>3. marker \in Names \cup {Start}
  BY DEF DInv, DaemonTypeOK, TypeOK
<1>4. ItemsOf(Query(m, marker)) = m /\ MarkerOf(Query(m, marker)) = marker
  BY <1>3, ItemsOfQuery, MarkerOfQuery
<1> QED
  BY <1>2, <1>4 DEF ListFunctions, Page

LEMMA StepsOfListing == ASSUME DInv, [DaemonNext]_daemonVars PROVE [Next]_vars
<1>1. CASE ListFunctions
  <2>1. \A m \in 1..MaxItemsLimit : m \in 0..MaxItemsLimit
    BY PaginationAssumption
  <2> QED
    BY <1>1, <2>1, AnswersPage DEF Next
<1>2. CASE ~ListFunctions
  BY <1>2 DEF DaemonNext, daemonVars, Next, ServeStep, RequestStep, Load, Preflight, Build, Bind, Exit,
     Crash, Shutdown, Authenticate, Send, Tick, Garble, LoseAnswer, Environment
<1> QED
  BY <1>1, <1>2

LEMMA DInitial == DaemonInit => DInv
<1> SUFFICES ASSUME DaemonInit PROVE DInv
  OBVIOUS
<1>1. TypeOK
  BY Initial DEF DaemonInit, IInv, Types, TypeOK
<1> QED
  BY <1>1, DaemonAssumption DEF DaemonInit, DInv, DaemonTypeOK, ValidInForce, RequestInOrder

LEMMA DInductive == ASSUME DInv, IInv, [DaemonNext]_daemonVars PROVE DInv'
<1>1. IInv' /\ TypeOK'
  <2>1. IInv'
    BY StepsOfListing, Inductive
  <2> QED
    BY <2>1 DEF IInv, Types, TypeOK
<1> USE DEF DInv, DaemonTypeOK, ValidInForce, RequestInOrder, Environment, Down, Fault
<1>2. ASSUME NEW c \in Configurations, Load(c) PROVE DInv'
  BY <1>1, <1>2 DEF Load, vars
<1>3. CASE Preflight \/ Shutdown
  BY <1>1, <1>3, DaemonAssumption DEF Preflight, Shutdown, vars
<1>4. CASE Build \/ Bind
  BY <1>1, <1>4 DEF Build, Bind, vars
<1>5. CASE Crash \/ Exit
  BY <1>1, <1>5, DaemonAssumption DEF Crash, Exit, vars
<1>6. ASSUME NEW m \in 1..MaxItemsLimit, Send(m) PROVE DInv'
  <2>1. PICK wire \in Spellings(Query(m, marker)) :
          request' = [at |-> "sent", query |-> Query(m, marker), wire |-> wire,
                      since |-> clock, stamp |-> clock + offset, date |-> Date(clock + offset)]
    BY <1>6 DEF Send
  <2>2. Query(m, marker) \in Queries
    BY DEF Queries, TypeOK
  <2>3. clock \in Int /\ offset \in Int /\ clock + offset \in Int /\ Date(clock + offset) \in Int
    BY DaemonAssumption DEF Date
  <2>4. request' \in Requests
    BY <2>1, <2>2, <2>3 DEF Requests
  <2>5. Canonical(wire) = Query(m, marker)
    BY CanonicalOfSpelling
  <2>6. RequestInOrder'
    BY <1>6, <2>1, <2>3, <2>5 DEF Send, vars
  <2> QED
    BY <1>1, <1>6, <2>4, <2>6 DEF Send, vars
<1>7. CASE Tick
  <2>1. clock' \in 0..MaxClock /\ clock' = clock + 1
    BY <1>7, DaemonAssumption DEF Tick
  <2>2. request # None => request.since \in Int /\ request.since <= clock'
    BY <2>1, DaemonAssumption DEF Requests
  <2>3. RequestInOrder'
    BY <1>7, <2>2 DEF Tick, vars
  <2> QED
    BY <1>1, <1>7, <2>1, <2>3 DEF Tick, vars
<1>8. CASE Garble
  <2>1. PICK query \in Queries : \E wire \in Spellings(query) : request' = [request EXCEPT !.wire = wire]
    BY <1>8 DEF Garble
  <2>2. request \in Requests /\ request.at = "sent" /\ config.auth = "sigv4"
    BY <1>8 DEF Garble
  <2>3. request' \in Requests
    BY <2>1, <2>2 DEF Requests
  <2>4. RequestInOrder'
    BY <1>8, <2>1, <2>2 DEF Garble, Requests, vars
  <2> QED
    BY <1>1, <1>8, <2>3, <2>4, DaemonAssumption DEF Garble, vars
<1>9. CASE Authenticate
  <2>1. request \in Requests /\ request.at = "sent"
    BY <1>9 DEF Authenticate
  <2>2. request' # None => request' = [request EXCEPT !.at = "accepted"] /\ request' \in Requests
    BY <1>9, <2>1 DEF Authenticate, Requests
  <2>3. request' # None => Canonical(request.wire) = request.query
    BY <1>9, <2>1 DEF Authenticate, Verified, SignatureMatches
  <2>4. RequestInOrder'
    BY <1>9, <2>1, <2>2, <2>3 DEF Authenticate, Requests, vars
  <2> QED
    BY <1>1, <1>9, <2>2, <2>4 DEF Authenticate, vars
<1>10. CASE ListFunctions \/ LoseAnswer
  BY <1>1, <1>10, DaemonAssumption DEF ListFunctions, LoseAnswer, vars
<1>11. CASE /\ (\E n \in Names : Create(n) \/ Delete(n)) \/ (request = None /\ Begin)
            /\ UNCHANGED <<serve, config, clock, offset, request, faults>>
  BY <1>1, <1>11 DEF Create, Delete, listing
<1>12. CASE UNCHANGED daemonVars
  BY <1>1, <1>12 DEF daemonVars, vars
<1> QED
  BY <1>2, <1>3, <1>4, <1>5, <1>6, <1>7, <1>8, <1>9, <1>10, <1>11, <1>12
  DEF DaemonNext, ServeStep, RequestStep

(* The invariant of the listing survives whatever the daemon adds to it.    *)
THEOREM DaemonInvariant == DaemonSpec => [](DInv /\ IInv)
<1>1. DaemonInit => DInv /\ IInv
  BY DInitial, Initial DEF DaemonInit
<1>2. DInv /\ IInv /\ [DaemonNext]_daemonVars => (DInv /\ IInv)'
  BY DInductive, StepsOfListing, Inductive
<1> QED
  BY <1>1, <1>2, PTL DEF DaemonSpec

(* Every variable keeps its type. *)
THEOREM DaemonTypeCorrect == DaemonSpec => []DaemonTypeOK
BY DaemonInvariant, PTL DEF DInv

(* A listing read through the daemon is a listing of Pagination.            *)
THEOREM DaemonListings == DaemonSpec => ImplementsListing
<1>1. DaemonInit => Init
  BY DEF DaemonInit
<1>2. DInv /\ [DaemonNext]_daemonVars => [Next]_vars
  BY StepsOfListing
<1> QED
  BY <1>1, <1>2, DaemonInvariant, PTL DEF DaemonSpec, ImplementsListing

(* No function is listed twice, through restarts and garbled requests...    *)
THEOREM DaemonListsOnce == DaemonSpec => []NoRepeats
<1>1. IInv => NoRepeats
  BY DEF IInv
<1> QED
  BY <1>1, DaemonInvariant, PTL

(* ... nor is one missed that was there all along.                          *)
THEOREM DaemonListsAll == DaemonSpec => []Complete
<1>1. IInv => Complete
  BY DEF IInv
<1> QED
  BY <1>1, DaemonInvariant, PTL

(* A request is refused only if its delay and the difference of the clocks  *)
(* exceed the window, or if another one arrived.                            *)
THEOREM RefusesOnlyLate == DaemonSpec => RefusedOnlyLate
<1>1. ASSUME DInv, [DaemonNext]_daemonVars,
             request # None, request' = None, faults' = faults, request.at = "sent"
      PROVE  \/ clock - request.since + Distance(offset, 0) > Window
             \/ request.wire \notin Spellings(request.query)
  <2>0. DaemonTypeOK /\ faults \in Int /\ request \in Requests
    BY <1>1, DaemonAssumption DEF DInv, DaemonTypeOK
  <2>1. Authenticate
    BY <1>1, <2>0 DEF DInv, RequestInOrder, DaemonNext, daemonVars, ServeStep, RequestStep, Load, Preflight, Build,
       Bind, Exit, Crash, Shutdown, ListFunctions, Send, Tick, Garble, LoseAnswer, Fault, Requests
  <2>2. ~Verified(request)
    <3>1. [request EXCEPT !.at = "accepted"] \in Requests
      BY <2>0 DEF Requests
    <3> QED
      BY <1>1, <2>1, <3>1, NoneAssumption DEF Authenticate
  <2>3. request.date = Date(request.stamp) /\ request.stamp = request.since + offset /\ request.since <= clock
    BY <1>1 DEF DInv, RequestInOrder
  <2>4. ~InWindow(request) \/ ~SignatureMatches(request)
    BY <2>2, <2>3 DEF Verified, ScopeMatches
  <2>5. CASE ~SignatureMatches(request)
    BY <2>5, CanonicalOfSpelling DEF SignatureMatches
  <2>6. CASE ~InWindow(request)
    <3>1. clock \in Int /\ request.since \in Int /\ offset \in Int /\ Window \in Int
      BY <2>0, DaemonAssumption DEF DaemonTypeOK, Requests
    <3> QED
      BY <2>3, <2>6, <3>1 DEF InWindow, Distance
  <2> QED
    BY <2>4, <2>5, <2>6
<1>2. DInv /\ [DaemonNext]_daemonVars =>
        [(request # None /\ request' = None /\ faults' = faults /\ request.at = "sent") =>
           \/ clock - request.since + Distance(offset, 0) > Window
           \/ request.wire \notin Spellings(request.query)]_daemonVars
  BY <1>1
<1> QED
  BY <1>2, DaemonInvariant, PTL DEF DaemonSpec, RefusedOnlyLate

(* A configuration that was accepted does not fail later for what it says,  *)
(* a padded URL apart.                                                      *)
THEOREM StartsSucceed == DaemonSpec => OnlyFaultsStopAStart
<1>1. ASSUME DInv, [DaemonNext]_daemonVars, serve \in {"preflight", "build", "bind"}, serve' = "down"
      PROVE  faults' # faults \/ ~HasCredentials(config) \/ config.metadata = "padded"
  <2>1. faults \in Int /\ Valid(config)
    BY <1>1, DaemonAssumption DEF DInv, DaemonTypeOK, ValidInForce
  <2>2. (Configured(config) \/ config.metadata = "padded") /\ config.listen # "malformed"
    BY <2>1 DEF Valid, Configured, RegionValid
  <2> QED
    BY <1>1, <2>1, <2>2 DEF DaemonNext, daemonVars, ServeStep, RequestStep, Load, Preflight, Build, Bind, Exit,
       Crash, Shutdown, Authenticate, ListFunctions, Send, Tick, Garble, LoseAnswer, Fault, Down
<1>2. DInv /\ [DaemonNext]_daemonVars =>
        [(serve \in {"preflight", "build", "bind"} /\ serve' = "down") =>
           faults' # faults \/ ~HasCredentials(config) \/ config.metadata = "padded"]_daemonVars
  BY <1>1
<1> QED
  BY <1>2, DaemonInvariant, PTL DEF DaemonSpec, OnlyFaultsStopAStart
=============================================================================
