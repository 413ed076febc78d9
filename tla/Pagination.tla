----------------------------- MODULE Pagination -----------------------------
(***************************************************************************)
(* ListFunctions: a client reads the functions page by page, following the *)
(* marker of each page, while other requests create and delete functions.  *)
(* The server keeps nothing between two pages.                             *)
(***************************************************************************)
EXTENDS Naturals, FiniteSets

CONSTANTS Last,          \* function names are 1..Last, in the order of the database
          PageLimit,     \* the most functions a page holds
          MaxItemsLimit  \* the most MaxItems may ask for

ASSUME PaginationAssumption ==
  Last \in Nat /\ PageLimit \in Nat \ {0} /\ MaxItemsLimit \in Nat \ {0}

Names == 1..Last
Start == 0  \* no marker: before every name

VARIABLES
  functions, \* the names of the table
  client,    \* "idle", "reading" a listing, or "done" with it
  marker,    \* the marker of the next request
  page,      \* the last page received
  earlier,   \* the pages of the same listing received before it
  kept       \* the functions that have existed since the listing began

vars == <<functions, client, marker, page, earlier, kept>>
listing == <<client, marker, page, earlier>>

Init ==
  /\ functions \in SUBSET Names
  /\ client = "idle" /\ marker = Start
  /\ page = {} /\ earlier = {} /\ kept = {}

Create(n) ==
  /\ n \notin functions
  /\ functions' = functions \cup {n}
  /\ UNCHANGED <<listing, kept>>

Delete(n) ==
  /\ n \in functions
  /\ functions' = functions \ {n}
  /\ kept' = kept \ {n}
  /\ UNCHANGED listing

Begin ==
  /\ client # "reading"
  /\ client' = "reading" /\ marker' = Start
  /\ page' = {} /\ earlier' = {} /\ kept' = functions
  /\ UNCHANGED functions

-----------------------------------------------------------------------------
ValidMaxItems(m) == m \in 1..MaxItemsLimit

Smaller(m, n) == IF m < n THEN m ELSE n
Limit(m) == Smaller(m, PageLimit)

(* Variants for the mutation runs: the function of the marker comes again, and *)
(* the marker is forgotten.                                                    *)
AnyName(n, from) == TRUE
FromMarker(n, from) == n >= from
AfterMarker(n, from) == n > from

(* SELECT ... WHERE name > marker ORDER BY name LIMIT limit *)
Candidates(from) == {n \in functions : AfterMarker(n, from)}
IsFirst(rows, from, limit) ==
  /\ rows \subseteq Candidates(from)
  /\ \A n \in rows : \A k \in Candidates(from) : k < n => k \in rows
  /\ Cardinality(rows) = Smaller(limit, Cardinality(Candidates(from)))

(* One row more than the page holds is read, to know whether there are more. *)
ThePageOnly(max) == max  \* variant for the mutation runs
Extra(max) == max + 1
HasMore(rows, max) == Cardinality(rows) > max

(* Variant for the mutation runs: the extra row is sent too. *)
AllRows(rows, max) == rows
Truncated(rows, max) == {n \in rows : Cardinality({k \in rows : k < n}) < max}

(* The marker is the last name of the page; an empty page has none. *)
Receive(got, more) ==
  /\ page' = got /\ earlier' = earlier \cup page
  /\ \/ /\ more
        /\ \E n \in got : marker' = n /\ \A k \in got : k <= n
        /\ UNCHANGED client
     \/ /\ ~more \/ got = {}
        /\ client' = "done"
        /\ UNCHANGED marker

PageFrom(m, from) ==
  /\ client = "reading" /\ ValidMaxItems(m)
  /\ \E rows \in SUBSET functions :
       /\ IsFirst(rows, from, Extra(Limit(m)))
       /\ Receive(IF HasMore(rows, Limit(m)) THEN Truncated(rows, Limit(m)) ELSE rows,
                  HasMore(rows, Limit(m)))
  /\ UNCHANGED <<functions, kept>>
Page(m) == PageFrom(m, marker)

Next ==
  \/ \E n \in Names : Create(n) \/ Delete(n)
  \/ Begin
  \/ \E m \in 0..MaxItemsLimit : Page(m)

(* A client that reads a listing goes on until it has no marker. *)
Spec == Init /\ [][Next]_vars /\ WF_vars(\E m \in 0..MaxItemsLimit : Page(m))

-----------------------------------------------------------------------------
(* Every variable ranges over the values a listing can have, and a page     *)
(* holds at most PageLimit functions whatever MaxItems asks for.            *)
TypeOK ==
  /\ functions \in SUBSET Names /\ client \in {"idle", "reading", "done"}
  /\ marker \in Names \cup {Start}
  /\ page \in SUBSET Names /\ Cardinality(page) <= PageLimit
  /\ earlier \in SUBSET Names /\ kept \in SUBSET Names

(* No function is listed twice, nor two pages out of order, whatever is     *)
(* created or deleted between them.                                         *)
NoRepeats == \A n \in page : \A k \in earlier : k < n

(* A finished listing holds every function that existed from its beginning  *)
(* to its end.                                                              *)
Complete == client = "done" => kept \subseteq page \cup earlier

(* A marker is given out only if, at that moment, there was a function      *)
(* after it: on a quiet table no listing ends in an empty page.             *)
MarkerLeadsOn == [][marker' # marker /\ marker' # Start => \E n \in functions : n > marker']_vars

(* A listing ends, however many functions are created while it is read.     *)
ListingEnds == client = "reading" ~> client = "done"
=============================================================================
