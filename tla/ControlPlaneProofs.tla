------------------------- MODULE ControlPlaneProofs -------------------------
(***************************************************************************)
(* Proofs about ControlPlane for every set of clients, names and packages  *)
(* and every value of the bounds.                                          *)
(***************************************************************************)
EXTENDS ControlPlane, FiniteSetTheorems, TLAPS

(* What a request may do to the stores, whatever revision it names and      *)
(* however many there are: Next without its bounds.                         *)
Operation ==
  \/ \E c \in Clients :
       \/ \E n \in Names, code \in Blobs, runtime \in Runtimes :
            CreatePrecheck(c, n, code, runtime)
       \/ \E n \in Names, code \in Blobs, expected \in Nat : UpdateRead(c, n, code, expected)
       \/ \E n \in Names : GetFunction(c, n)
       \/ PutExists(c) \/ PutRename(c) \/ CreateCommit(c) \/ UpdateCommit(c) \/ Reject(c)
       \/ CleanupRow(c) \/ CleanupLookup(c) \/ CleanupRemove(c)
       \/ DetailsFound(c) \/ DetailsMissing(c) \/ Abort(c)
  \/ \E n \in Names : DeleteFunction(n)

LEMMA NextIsOperation == ASSUME TypeOK, [Next]_vars PROVE [Operation]_vars
BY DEF Next, Operation, Wait, TypeOK

LEMMA TypesKept == TypeOK /\ [Operation]_vars => TypeOK'
<1> SUFFICES ASSUME TypeOK, [Operation]_vars PROVE TypeOK'
  OBVIOUS
<1> USE ControlPlaneAssumption DEF Function, Row, NoRow, NoRevision, TypeOK, db, Goto, Return, Exists, Requests, Lookups, Pcs
<1>1. ASSUME NEW c \in Clients, NEW n \in Names, NEW code \in Blobs,
             NEW runtime \in Runtimes, CreatePrecheck(c, n, code, runtime)
      PROVE TypeOK'
  BY <1>1 DEF CreatePrecheck
<1>2. ASSUME NEW c \in Clients, NEW n \in Names, NEW code \in Blobs,
             NEW expected \in Nat, UpdateRead(c, n, code, expected)
      PROVE TypeOK'
  BY <1>2 DEF UpdateRead
<1>3. ASSUME NEW c \in Clients, NEW n \in Names, GetFunction(c, n)
      PROVE TypeOK'
  BY <1>3 DEF GetFunction
<1>4. ASSUME NEW c \in Clients, PutExists(c) PROVE TypeOK'
  BY <1>4 DEF PutExists, Idle
<1>5. ASSUME NEW c \in Clients, PutRename(c) PROVE TypeOK'
  BY <1>5 DEF PutRename, Idle
<1>6. ASSUME NEW c \in Clients, CreateCommit(c) PROVE TypeOK'
  BY <1>6 DEF CreateCommit, InsertArtifact, RowOf, Idle
<1>7. ASSUME NEW c \in Clients, UpdateCommit(c) PROVE TypeOK'
  BY <1>7 DEF UpdateCommit, UpdateMatches, InsertArtifact, RowOf, Idle
<1>8. ASSUME NEW c \in Clients, Reject(c) PROVE TypeOK'
  BY <1>8 DEF Reject, Idle
<1>9. ASSUME NEW c \in Clients, CleanupRow(c) PROVE TypeOK'
  BY <1>9 DEF CleanupRow, Collectable, Idle
<1>10. ASSUME NEW c \in Clients, CleanupLookup(c) PROVE TypeOK'
  BY <1>10 DEF CleanupLookup, Idle
<1>11. ASSUME NEW c \in Clients, CleanupRemove(c) PROVE TypeOK'
  BY <1>11 DEF CleanupRemove, Idle
<1>12. ASSUME NEW c \in Clients, DetailsFound(c) \/ DetailsMissing(c) \/ Abort(c)
       PROVE TypeOK'
  BY <1>12 DEF DetailsFound, DetailsMissing, Abort
<1>13. ASSUME NEW n \in Names, DeleteFunction(n) PROVE TypeOK'
  BY <1>13 DEF DeleteFunction
<1>14. CASE UNCHANGED vars
  BY <1>14 DEF vars
<1> QED
  BY <1>1, <1>2, <1>3, <1>4, <1>5, <1>6, <1>7, <1>8, <1>9, <1>10, <1>11,
     <1>12, <1>13, <1>14 DEF Operation

(* Every variable keeps its type along every behaviour. *)
THEOREM TypeCorrect == Spec => []TypeOK
<1>1. Init => TypeOK
  BY ControlPlaneAssumption
     DEF Init, TypeOK, Idle, Function, Row, NoRow, NoRevision
<1>2. TypeOK /\ [Next]_vars => TypeOK'
  BY NextIsOperation, TypesKept
<1> QED
  BY <1>1, <1>2, PTL DEF Spec

-----------------------------------------------------------------------------
(* The inductive strengthening.  Artifact ids and revisions are fresh, so a *)
(* row id belongs to one hash and a revision to one live function; and a    *)
(* revision that a conditional update consumed is no function's any more.   *)
RowsUnique ==
  /\ \A b \in Blobs : artifacts[b] <= rows
  /\ \A a, b \in Blobs : (artifacts[a] = artifacts[b] /\ artifacts[a] # NoRow) => a = b

RevisionsUnique ==
  /\ \A n \in Names : Exists(n) => functions[n].revision \in 1..revs
  /\ \A m, n \in Names :
       (Exists(m) /\ Exists(n) /\ functions[m].revision = functions[n].revision) => m = n

ConsumedRevisionsDead ==
  \A u \in log : u.expected # NoRevision =>
    /\ u.expected <= revs
    /\ \A n \in Names : Exists(n) => functions[n].revision # u.expected

IInv ==
  /\ TypeOK
  /\ RowsUnique
  /\ ReferentialIntegrity
  /\ RevisionsUnique
  /\ ConsumedRevisionsDead
  /\ NoLostUpdate

(* Steps that touch no table preserve everything but the types. *)
LEMMA DbUnchanged ==
  ASSUME IInv, UNCHANGED db PROVE RowsUnique' /\ ReferentialIntegrity' /\ RevisionsUnique'
                                  /\ ConsumedRevisionsDead' /\ NoLostUpdate'
  BY DEF IInv, db, RowsUnique, ReferentialIntegrity, RevisionsUnique, ConsumedRevisionsDead,
         NoLostUpdate, Exists, HasRow

(* insert_artifact: the row ids stay unique, no row disappears, and the hash *)
(* that was inserted has the row RowOf names.                                *)
LEMMA InsertArtifactRow ==
  ASSUME TypeOK, RowsUnique, NEW code \in Blobs, InsertArtifact(code)
  PROVE  /\ RowsUnique'
         /\ RowOf(code) \in Row
         /\ artifacts'[code] = RowOf(code)
         /\ \A row \in Row : HasRow(row) => HasRow(row)'
         /\ \A b \in Blobs : artifacts[b] # NoRow => artifacts'[b] = artifacts[b]
  BY DEF TypeOK, RowsUnique, InsertArtifact, RowOf, HasRow, Row, NoRow

LEMMA Inductive == IInv /\ [Operation]_vars => IInv'
<1> SUFFICES ASSUME IInv, [Operation]_vars PROVE IInv'
  OBVIOUS
<1> USE ControlPlaneAssumption DEF IInv
<1>0. TypeOK'
  BY TypesKept
<1>1. ASSUME UNCHANGED db PROVE IInv'
  BY <1>0, <1>1, DbUnchanged
<1>2. ASSUME NEW c \in Clients, CreateCommit(c) PROVE IInv'
  <2> DEFINE r == req[c]
  <2>1. r \in Requests /\ InsertArtifact(r.code) /\ ~Exists(r.name)
    BY <1>2 DEF CreateCommit, TypeOK, Idle, Lookups
  <2>2. r.name \in Names /\ r.code \in Blobs
    BY <2>1 DEF Requests
  <2>3. /\ revs' = revs + 1 /\ log' = log
        /\ functions' = [functions EXCEPT ![r.name] =
             [artifact |-> RowOf(r.code), revision |-> revs + 1, runtime |-> r.runtime]]
    BY <1>2 DEF CreateCommit
  <2>4. [artifact |-> RowOf(r.code), revision |-> revs + 1, runtime |-> r.runtime] \in Function
    BY <2>1, <2>2, InsertArtifactRow DEF Function, Requests, TypeOK
  <2>5. ReferentialIntegrity'
    BY <2>1, <2>2, <2>3, <2>4, InsertArtifactRow
       DEF ReferentialIntegrity, Exists, HasRow, TypeOK, Function
  <2>6. RevisionsUnique' /\ ConsumedRevisionsDead' /\ NoLostUpdate'
    BY <2>2, <2>3, <2>4 DEF RevisionsUnique, ConsumedRevisionsDead, NoLostUpdate, Exists,
       TypeOK, Function
  <2> QED
    BY <1>0, <2>1, <2>2, <2>5, <2>6, InsertArtifactRow
<1>3. ASSUME NEW c \in Clients, UpdateCommit(c) PROVE IInv'
  <2> DEFINE r == req[c]
  <2> DEFINE f == functions[r.name]
  <2>1. r \in Requests /\ InsertArtifact(r.code) /\ UpdateMatches(r)
    BY <1>3 DEF UpdateCommit, TypeOK, Idle, Lookups
  <2>2. r.name \in Names /\ r.code \in Blobs /\ r.expected \in Nat
    BY <2>1 DEF Requests
  <2>3. f \in Function /\ Exists(r.name) /\ r.expected \in {NoRevision, f.revision}
    BY <2>1, <2>2 DEF UpdateMatches, Exists, TypeOK
  <2>4. /\ revs' = revs + 1
        /\ log' = log \cup {[expected |-> r.expected, revision |-> revs + 1]}
        /\ functions' = [functions EXCEPT ![r.name] =
             [artifact |-> RowOf(r.code), revision |-> revs + 1, runtime |-> f.runtime]]
    BY <1>3, <2>2, <2>3 DEF UpdateCommit, TypeOK, Function
  <2>5. [artifact |-> RowOf(r.code), revision |-> revs + 1, runtime |-> f.runtime] \in Function
    BY <2>1, <2>2, <2>3, InsertArtifactRow DEF Function, TypeOK
  <2>6. ReferentialIntegrity'
    BY <2>1, <2>2, <2>4, <2>5, InsertArtifactRow
       DEF ReferentialIntegrity, Exists, HasRow, TypeOK, Function
  <2>7. RevisionsUnique'
    BY <2>2, <2>4, <2>5 DEF RevisionsUnique, Exists, TypeOK, Function
  <2>8. ConsumedRevisionsDead'
    <3> SUFFICES ASSUME NEW u \in log', u.expected # NoRevision
                 PROVE  /\ u.expected <= revs'
                        /\ \A n \in Names : Exists(n)' => functions'[n].revision # u.expected
      BY DEF ConsumedRevisionsDead
    <3>1. CASE u \in log
      BY <3>1, <2>2, <2>4, <2>5 DEF ConsumedRevisionsDead, Exists, TypeOK
    <3>2. CASE u = [expected |-> r.expected, revision |-> revs + 1]
      BY <3>2, <2>2, <2>3, <2>4, <2>5 DEF RevisionsUnique, Exists, TypeOK
    <3> QED
      BY <3>1, <3>2, <2>4
  <2>9. NoLostUpdate'
    BY <2>2, <2>3, <2>4 DEF NoLostUpdate, ConsumedRevisionsDead, TypeOK
  <2> QED
    BY <1>0, <2>1, <2>2, <2>6, <2>7, <2>8, <2>9, InsertArtifactRow
<1>4. ASSUME NEW c \in Clients, CleanupRow(c) PROVE IInv'
  BY <1>0, <1>4 DEF CleanupRow, Collectable, Referenced, RowsUnique, ReferentialIntegrity, HasRow,
     RevisionsUnique, ConsumedRevisionsDead, NoLostUpdate, Exists, TypeOK, Function, Row, NoRow
<1>5. ASSUME NEW n \in Names, DeleteFunction(n) PROVE IInv'
  BY <1>0, <1>5 DEF DeleteFunction, RowsUnique, ReferentialIntegrity, HasRow,
     RevisionsUnique, ConsumedRevisionsDead, NoLostUpdate, Exists, TypeOK
<1> QED
  BY <1>1, <1>2, <1>3, <1>4, <1>5
     DEF Operation, CreatePrecheck, UpdateRead, GetFunction, PutExists, PutRename, Reject,
         CleanupLookup, CleanupRemove, DetailsFound, DetailsMissing, Abort, vars, db

LEMMA Initially == Init => IInv
BY ControlPlaneAssumption
   DEF Init, IInv, TypeOK, RowsUnique, ReferentialIntegrity, RevisionsUnique,
       ConsumedRevisionsDead, NoLostUpdate, Exists, Idle, NoRow

LEMMA Invariant == Spec => []IInv
<1>1. IInv /\ [Next]_vars => IInv'
  BY NextIsOperation, Inductive DEF IInv
<1> QED
  BY <1>1, Initially, PTL DEF Spec

(* A function's artifact row is never collected under it, whatever the      *)
(* interleaving of commits, rejections, cleanups and aborts.                *)
THEOREM ReferencesHold == Spec => []ReferentialIntegrity
BY Invariant, PTL DEF IInv

(* One revision is never consumed by two accepted updates. *)
THEOREM OptimisticConcurrency == Spec => []NoLostUpdate
BY Invariant, PTL DEF IInv
-----------------------------------------------------------------------------
(* A create in flight passed validation: its package fits the runtime it asks *)
(* for (an update is validated against a row that may change later).          *)
CreatesValid ==
  \A c \in Clients : (req[c] \in Requests /\ req[c].op = "create")
                       => ValidCode(req[c].code, req[c].runtime)

LEMMA CreatesKeptValid == TypeOK /\ CreatesValid /\ [Operation]_vars => CreatesValid'
<1> SUFFICES ASSUME TypeOK, CreatesValid, [Operation]_vars PROVE CreatesValid'
  OBVIOUS
<1> USE DEF CreatesValid, TypeOK, Requests, Lookups, Pcs, Goto, Return, Idle
<1>1. ASSUME NEW c \in Clients, NEW n \in Names, NEW code \in Blobs,
             NEW runtime \in Runtimes, CreatePrecheck(c, n, code, runtime)
      PROVE CreatesValid'
  BY <1>1 DEF CreatePrecheck
<1>2. ASSUME NEW c \in Clients, NEW n \in Names, NEW code \in Blobs,
             NEW expected \in Nat, UpdateRead(c, n, code, expected)
      PROVE CreatesValid'
  BY <1>2 DEF UpdateRead
<1>3. ASSUME NEW c \in Clients, NEW n \in Names, GetFunction(c, n)
      PROVE CreatesValid'
  BY <1>3 DEF GetFunction
<1>4. ASSUME NEW c \in Clients, PutExists(c) PROVE CreatesValid'
  BY <1>4 DEF PutExists
<1>5. ASSUME NEW c \in Clients, PutRename(c) PROVE CreatesValid'
  BY <1>5 DEF PutRename
<1>6. ASSUME NEW c \in Clients, CreateCommit(c) PROVE CreatesValid'
  BY <1>6 DEF CreateCommit
<1>7. ASSUME NEW c \in Clients, UpdateCommit(c) PROVE CreatesValid'
  BY <1>7 DEF UpdateCommit
<1>8. ASSUME NEW c \in Clients, Reject(c) PROVE CreatesValid'
  BY <1>8 DEF Reject
<1>9. ASSUME NEW c \in Clients, CleanupRow(c) PROVE CreatesValid'
  BY <1>9 DEF CleanupRow
<1>10. ASSUME NEW c \in Clients, CleanupLookup(c) PROVE CreatesValid'
  BY <1>10 DEF CleanupLookup
<1>11. ASSUME NEW c \in Clients,
              CleanupRemove(c) \/ DetailsFound(c) \/ DetailsMissing(c) \/ Abort(c)
       PROVE CreatesValid'
  BY <1>11 DEF CleanupRemove, DetailsFound, DetailsMissing, Abort
<1>12. ASSUME UNCHANGED req PROVE CreatesValid'
  BY <1>12
<1> QED
  BY <1>1, <1>2, <1>3, <1>4, <1>5, <1>6, <1>7, <1>8, <1>9, <1>10, <1>11, <1>12
     DEF Operation, DeleteFunction, vars

LEMMA CreatesStayValid == Spec => []CreatesValid
<1>1. Init => CreatesValid
  BY DEF Init, CreatesValid, Requests, Idle
<1>2. TypeOK /\ CreatesValid /\ [Next]_vars => CreatesValid'
  BY NextIsOperation, CreatesKeptValid
<1> QED
  BY <1>1, <1>2, TypeCorrect, PTL DEF Spec

(* Through its artifact row a function has exactly one package. *)
LEMMA DeployedCodeIs ==
  IInv => \A m \in Names : Exists(m) =>
            /\ DeployedCode(m) \in Blobs
            /\ \A b \in Blobs : artifacts[b] = functions[m].artifact => DeployedCode(m) = b
  BY DEF IInv, TypeOK, RowsUnique, ReferentialIntegrity, HasRow, Exists, DeployedCode,
         Function, Row

LEMMA DeployedCodeIsNext ==
  IInv' => (\A m \in Names : Exists(m) =>
              /\ DeployedCode(m) \in Blobs
              /\ \A b \in Blobs : artifacts[b] = functions[m].artifact => DeployedCode(m) = b)'
  BY DeployedCodeIs, PTL

(* A step that leaves the functions alone, and keeps the row of each of     *)
(* them, is a stuttering step of the store.                                 *)
LEMMA DeployedUnchanged ==
  ASSUME IInv, IInv', functions' = functions,
         \A n \in Names, b \in Blobs :
           (Exists(n) /\ artifacts[b] = functions[n].artifact) => artifacts'[b] = artifacts[b]
  PROVE  Deployed' = Deployed
<1>2. ASSUME NEW n \in Names, Exists(n) PROVE DeployedCode(n)' = DeployedCode(n)
  <2>1. PICK b \in Blobs : artifacts[b] = functions[n].artifact
    BY <1>2 DEF IInv, ReferentialIntegrity, HasRow
  <2>2. DeployedCode(n) = b
    BY <1>2, <2>1, DeployedCodeIs
  <2>3. Exists(n)' /\ artifacts'[b] = functions'[n].artifact
    BY <1>2, <2>1 DEF Exists
  <2> QED
    BY DeployedCodeIsNext, <2>2, <2>3
<1> QED
  BY <1>2 DEF Deployed, Exists

(* A function whose hash has the row its new version names deploys that hash, *)
(* and no other function changes its package.                                 *)
LEMMA DeployedChange ==
  ASSUME IInv, IInv', NEW n \in Names, NEW code \in Blobs,
         functions'[n] # NoFunction, artifacts'[code] = functions'[n].artifact,
         \A m \in Names : m # n => functions'[m] = functions[m],
         \A b \in Blobs : artifacts[b] # NoRow => artifacts'[b] = artifacts[b]
  PROVE  Deployed' = [Deployed EXCEPT ![n] =
           [code |-> code, revision |-> functions'[n].revision,
            runtime |-> functions'[n].runtime]]
<1>3. DeployedCode(n)' = code
  BY DeployedCodeIsNext DEF Exists
<1>4. ASSUME NEW m \in Names, m # n
      PROVE  /\ functions'[m] = functions[m]
             /\ Exists(m) => DeployedCode(m)' = DeployedCode(m)
  <2>1. functions'[m] = functions[m]
    BY <1>4 DEF IInv, TypeOK
  <2>2. ASSUME Exists(m) PROVE DeployedCode(m)' = DeployedCode(m)
    <3>1. PICK b \in Blobs : artifacts[b] = functions[m].artifact
      BY <2>2 DEF IInv, ReferentialIntegrity, HasRow
    <3>2. artifacts[b] # NoRow
      BY <2>2, <3>1 DEF IInv, TypeOK, Exists, Function, Row
    <3>3. DeployedCode(m) = b
      BY <2>2, <3>1, DeployedCodeIs
    <3>4. Exists(m)' /\ artifacts'[b] = functions'[m].artifact
      BY <2>1, <2>2, <3>1, <3>2 DEF Exists
    <3> QED
      BY DeployedCodeIsNext, <3>3, <3>4
  <2> QED
    BY <2>1, <2>2
<1> QED
  BY <1>3, <1>4 DEF Deployed, Exists

(* Each commit is the operation of the store that the request asked for...  *)
LEMMA CreateStored ==
  ASSUME IInv, IInv', CreatesValid, NEW c \in Clients, CreateCommit(c)
  PROVE  /\ req[c].name \in Names /\ req[c].code \in Blobs /\ req[c].runtime \in Runtimes
         /\ Store!Create(req[c].name, req[c].code, req[c].runtime)
<1> DEFINE r == req[c]
           f == [artifact |-> RowOf(r.code), revision |-> revs + 1, runtime |-> r.runtime]
<1>1. r \in Requests /\ r.op = "create" /\ InsertArtifact(r.code) /\ ~Exists(r.name)
  BY DEF CreateCommit, IInv, TypeOK, Idle, Lookups
<1>2. r.name \in Names /\ r.code \in Blobs /\ r.runtime \in Runtimes
  BY <1>1 DEF Requests
<1>3. revs' = revs + 1 /\ log' = log /\ functions' = [functions EXCEPT ![r.name] = f]
  BY DEF CreateCommit
<1>4. f \in Function
  BY <1>1, <1>2, InsertArtifactRow DEF Function, IInv, TypeOK
<1>5. Deployed' = [Deployed EXCEPT ![r.name] =
        [code |-> r.code, revision |-> f.revision, runtime |-> f.runtime]]
  <2>1. /\ artifacts'[r.code] = RowOf(r.code)
        /\ \A b \in Blobs : artifacts[b] # NoRow => artifacts'[b] = artifacts[b]
    BY <1>1, <1>2, InsertArtifactRow DEF IInv
  <2>2. /\ functions'[r.name] = f /\ f # NoFunction
        /\ \A m \in Names : m # r.name => functions'[m] = functions[m]
    BY <1>2, <1>3, <1>4, ControlPlaneAssumption DEF Exists, IInv, TypeOK
  <2> QED
    BY <1>2, <2>1, <2>2, DeployedChange
<1>6. Deployed[r.name] = NoFunction
  BY <1>1, <1>2 DEF Deployed
<1>7. Store!ValidCode(r.code, r.runtime)
  BY <1>1 DEF CreatesValid, ValidCode, Store!ValidCode
<1>8. Store!Create(r.name, r.code, r.runtime)
  BY <1>3, <1>5, <1>6, <1>7 DEF Store!Create
<1> QED
  BY <1>2, <1>8

LEMMA UpdateStored ==
  ASSUME IInv, IInv', NEW c \in Clients, UpdateCommit(c)
  PROVE  /\ req[c].name \in Names /\ req[c].code \in Blobs /\ req[c].expected \in 0..revs
         /\ Store!Update(req[c].name, req[c].code, req[c].expected)
<1> DEFINE r == req[c]
           old == functions[r.name]
           f == [artifact |-> RowOf(r.code), revision |-> revs + 1, runtime |-> old.runtime]
<1>1. r \in Requests /\ InsertArtifact(r.code) /\ UpdateMatches(r)
  BY DEF UpdateCommit, IInv, TypeOK, Idle, Lookups
<1>2. r.name \in Names /\ r.code \in Blobs
  BY <1>1 DEF Requests
<1>3. old \in Function /\ Exists(r.name) /\ r.expected \in {NoRevision, old.revision}
  BY <1>1, <1>2 DEF UpdateMatches, Exists, IInv, TypeOK
<1>4. /\ revs' = revs + 1
      /\ log' = log \cup {[expected |-> r.expected, revision |-> revs + 1]}
      /\ functions' = [functions EXCEPT ![r.name] = f]
  BY <1>2, <1>3 DEF UpdateCommit, IInv, TypeOK, Function
<1>5. f \in Function
  BY <1>1, <1>2, <1>3, InsertArtifactRow DEF Function, IInv, TypeOK
<1>6. Deployed' = [Deployed EXCEPT ![r.name] =
        [code |-> r.code, revision |-> f.revision, runtime |-> f.runtime]]
  <2>1. /\ artifacts'[r.code] = RowOf(r.code)
        /\ \A b \in Blobs : artifacts[b] # NoRow => artifacts'[b] = artifacts[b]
    BY <1>1, <1>2, InsertArtifactRow DEF IInv
  <2>2. /\ functions'[r.name] = f /\ f # NoFunction
        /\ \A m \in Names : m # r.name => functions'[m] = functions[m]
    BY <1>2, <1>4, <1>5, ControlPlaneAssumption DEF Exists, IInv, TypeOK
  <2> QED
    BY <1>2, <2>1, <2>2, DeployedChange
<1>7. /\ Deployed[r.name] = [code |-> DeployedCode(r.name), revision |-> old.revision,
                            runtime |-> old.runtime]
      /\ Deployed[r.name] # NoFunction
  <2>1. DeployedCode(r.name) \in Blobs
    BY <1>2, <1>3, DeployedCodeIs
  <2>2. Deployed[r.name] = [code |-> DeployedCode(r.name), revision |-> old.revision,
                            runtime |-> old.runtime]
    BY <1>2, <1>3 DEF Deployed
  <2>3. [code |-> DeployedCode(r.name), revision |-> old.revision,
         runtime |-> old.runtime] \in Version
    BY <1>3, <2>1 DEF Version, Function
  <2> QED
    BY <2>2, <2>3, ControlPlaneAssumption
<1>8. Store!Update(r.name, r.code, r.expected)
  <2>1. r.expected \in {Store!NoRevision, Deployed[r.name].revision}
    BY <1>3, <1>7 DEF NoRevision, Store!NoRevision
  <2>2. Deployed' = [Deployed EXCEPT ![r.name] =
          [code |-> r.code, revision |-> revs', runtime |-> @.runtime]]
    BY <1>4, <1>6, <1>7
  <2> QED
    BY <1>4, <1>7, <2>1, <2>2 DEF Store!Update
<1>9. r.expected \in 0..revs
  BY <1>2, <1>3 DEF IInv, RevisionsUnique, TypeOK, NoRevision
<1> QED
  BY <1>2, <1>8, <1>9

LEMMA DeleteStored == ASSUME IInv, NEW n \in Names, DeleteFunction(n) PROVE Store!Delete(n)
<1>1. Deployed[n] # NoFunction
  <2>1. DeployedCode(n) \in Blobs /\ functions[n] \in Function
    BY DeployedCodeIs DEF DeleteFunction, Exists, IInv, TypeOK
  <2>2. [code |-> DeployedCode(n), revision |-> functions[n].revision,
         runtime |-> functions[n].runtime] \in Version
    BY <2>1 DEF Version, Function
  <2> QED
    BY <2>2, ControlPlaneAssumption DEF Deployed, DeleteFunction
<1>2. Deployed' = [Deployed EXCEPT ![n] = NoFunction]
  BY DEF Deployed, DeployedCode, DeleteFunction, Exists, IInv, TypeOK
<1>3. UNCHANGED <<revs, log>>
  BY DEF DeleteFunction
<1> QED
  BY <1>1, <1>2, <1>3 DEF Store!Delete

(* ... and nothing else changes the store.                                  *)
LEMMA NothingStored ==
  ASSUME IInv, IInv', UNCHANGED db \/ \E c \in Clients : CleanupRow(c)
  PROVE  UNCHANGED Store!storeVars
<1> USE DEF Store!storeVars
<1>1. ASSUME functions' = functions, revs' = revs, log' = log,
             \A n \in Names, b \in Blobs :
               (Exists(n) /\ artifacts[b] = functions[n].artifact)
                 => artifacts'[b] = artifacts[b]
      PROVE  UNCHANGED Store!storeVars
  BY <1>1, DeployedUnchanged
<1>2. ASSUME NEW c \in Clients, CleanupRow(c) PROVE UNCHANGED Store!storeVars
  <2>1. functions' = functions /\ revs' = revs /\ log' = log
    BY <1>2 DEF CleanupRow
  <2>2. \A n \in Names, b \in Blobs :
          (Exists(n) /\ artifacts[b] = functions[n].artifact) => artifacts'[b] = artifacts[b]
    BY <1>2 DEF CleanupRow, Collectable, Referenced, Exists, IInv, TypeOK, Function, Row, NoRow
  <2> QED
    BY <2>1, <2>2, <1>1
<1>3. ASSUME UNCHANGED db PROVE UNCHANGED Store!storeVars
  BY <1>1, <1>3 DEF db
<1> QED
  BY <1>2, <1>3

LEMMA StoreStep ==
  ASSUME IInv, IInv', CreatesValid, [Operation]_vars
  PROVE  [Store!Next]_(Store!storeVars)
BY CreateStored, UpdateStored, DeleteStored, NothingStored
   DEF Operation, CreatePrecheck, UpdateRead, GetFunction, PutExists, PutRename, Reject,
       CleanupLookup, CleanupRemove, DetailsFound, DetailsMissing, Abort, vars, db, Store!Next, Store!Runtimes, Runtimes

(* The control plane implements the atomic, versioned FunctionStore.        *)
THEOREM ImplementsStore == Spec => Refinement
<1>1. Init => Store!Init
  BY DEF Init, Store!Init, Deployed, Exists
<1>2. IInv /\ IInv' /\ CreatesValid /\ [Next]_vars => [Store!Next]_(Store!storeVars)
  BY NextIsOperation, StoreStep DEF IInv
<1> QED
  BY <1>1, <1>2, Invariant, CreatesStayValid, PTL DEF Spec, Refinement, Store!Spec
-----------------------------------------------------------------------------
(* An update in flight names a revision that was issued, and whatever       *)
(* function still has it is one its package was validated for: a revision   *)
(* never comes back, so the row is the one that was read.                   *)
UpdatesValid ==
  \A c \in Clients : (req[c] \in Requests /\ req[c].op = "update" /\ req[c].expected # NoRevision) =>
    /\ req[c].expected <= revs
    /\ (Exists(req[c].name) /\ functions[req[c].name].revision = req[c].expected) =>
         ValidCode(req[c].code, functions[req[c].name].runtime)

LEMMA UpdatesKeptValid == IInv /\ UpdatesValid /\ [Next]_vars => UpdatesValid'
<1> SUFFICES ASSUME IInv, UpdatesValid, [Next]_vars PROVE UpdatesValid'
  OBVIOUS
<1>1. ASSUME UNCHANGED <<functions, revs>>,
             \A c \in Clients : (req'[c] \in Requests /\ req'[c].op = "update"
                                  /\ req'[c].expected # NoRevision) =>
               /\ req[c] \in Requests /\ req[c].op = "update"
               /\ req'[c].name = req[c].name /\ req'[c].code = req[c].code
               /\ req'[c].expected = req[c].expected
      PROVE UpdatesValid'
  BY <1>1 DEF UpdatesValid, Exists
<1>2. ASSUME NEW c \in Clients, NEW n \in Names, NEW code \in Blobs,
             NEW expected \in 0..revs, UpdateRead(c, n, code, expected)
      PROVE UpdatesValid'
  BY <1>2 DEF UpdateRead, UpdatesValid, Exists, IInv, TypeOK, Requests, Pcs, db
<1>3. ASSUME NEW c \in Clients, CreateCommit(c) PROVE UpdatesValid'
  <2>1. req[c] \in Requests /\ req[c].name \in Names /\ ~Exists(req[c].name)
    BY <1>3 DEF CreateCommit, IInv, TypeOK, Idle, Lookups, Requests
  <2>2. /\ revs' = revs + 1 /\ revs \in Nat
        /\ \A n \in Names : n = req[c].name => functions'[n].revision = revs + 1
        /\ \A n \in Names : n # req[c].name => functions'[n] = functions[n]
        /\ \A d \in Clients : d # c => req'[d] = req[d]
        /\ req'[c] \notin Requests
    BY <1>3, <2>1 DEF CreateCommit, IInv, TypeOK, Function, Requests, Pcs
  <2> QED
    BY <2>1, <2>2 DEF UpdatesValid, Exists, IInv, TypeOK, Requests
<1>4. ASSUME NEW c \in Clients, UpdateCommit(c) PROVE UpdatesValid'
  <2>1. req[c] \in Requests /\ req[c].name \in Names
    BY <1>4 DEF UpdateCommit, IInv, TypeOK, Idle, Lookups, Requests
  <2>2. /\ revs' = revs + 1 /\ revs \in Nat
        /\ \A n \in Names : n = req[c].name => functions'[n].revision = revs + 1
        /\ \A n \in Names : n # req[c].name => functions'[n] = functions[n]
        /\ \A d \in Clients : d # c => req'[d] = req[d]
        /\ req'[c] \notin Requests
    BY <1>4, <2>1 DEF UpdateCommit, Return, IInv, TypeOK, Function, Requests, Pcs, Idle
  <2> QED
    BY <2>1, <2>2 DEF UpdatesValid, Exists, IInv, TypeOK, Requests
<1>5. ASSUME NEW n \in Names, DeleteFunction(n) PROVE UpdatesValid'
  BY <1>5 DEF DeleteFunction, UpdatesValid, Exists, IInv, TypeOK, Requests
<1>6. ASSUME NEW c \in Clients,
             PutExists(c) \/ PutRename(c) \/ Reject(c) \/ CleanupRow(c) \/ CleanupLookup(c)
      PROVE UpdatesValid'
  BY <1>1, <1>6 DEF PutExists, PutRename, Reject, CleanupRow, CleanupLookup, Goto, Return, Idle,
     IInv, TypeOK, Requests, Lookups, Pcs, db
<1>7. ASSUME NEW c \in Clients,
             CleanupRemove(c) \/ DetailsFound(c) \/ DetailsMissing(c) \/ Abort(c)
      PROVE UpdatesValid'
  BY <1>1, <1>7 DEF CleanupRemove, DetailsFound, DetailsMissing, Abort, Return, Idle, IInv, TypeOK,
     Requests, db
<1>8. ASSUME NEW c \in Clients, NEW n \in Names, NEW code \in Blobs, NEW runtime \in Runtimes,
             CreatePrecheck(c, n, code, runtime)
      PROVE UpdatesValid'
  BY <1>1, <1>8 DEF CreatePrecheck, IInv, TypeOK, db
<1>9. ASSUME NEW c \in Clients, NEW n \in Names, GetFunction(c, n) PROVE UpdatesValid'
  BY <1>1, <1>9 DEF GetFunction, IInv, TypeOK, Requests, db
<1>10. CASE UNCHANGED vars
  BY <1>1, <1>10 DEF vars
<1> QED
  BY <1>2, <1>3, <1>4, <1>5, <1>6, <1>7, <1>8, <1>9, <1>10 DEF Next, Wait

(* update_function_code reads the row, stores the package and then commits: *)
(* an update that names its revision still fits the runtime of the row it   *)
(* changes.                                                                 *)
THEOREM ConditionalUpdatesFit == Spec => ConditionalUpdateValidated
<1>1. Init => UpdatesValid
  BY DEF Init, UpdatesValid, Requests, Idle
<1>2. IInv /\ UpdatesValid /\ [Next]_vars =>
        [\A c \in Clients : (UpdateCommit(c) /\ req[c].expected # NoRevision)
           => ValidCode(req[c].code, functions[req[c].name].runtime)]_vars
  BY DEF UpdatesValid, UpdateCommit, UpdateMatches, IInv, TypeOK, Idle, Lookups
<1> QED
  BY <1>1, <1>2, UpdatesKeptValid, Invariant, PTL DEF Spec, ConditionalUpdateValidated

(* `details` finds the artifact of a function that nobody changed meanwhile. *)
THEOREM DetailsFailWhenStale == Spec => DetailsFailsOnlyWhenStale
<1>1. IInv => \A c \in Clients : DetailsMissing(c) =>
        \/ ~Exists(req[c].name)
        \/ functions[req[c].name].artifact # req[c].artifact
  BY DEF IInv, TypeOK, ReferentialIntegrity, DetailsMissing, Idle, Requests, Lookups, Pcs
<1>2. IInv /\ [Next]_vars =>
        [\A c \in Clients : DetailsMissing(c) =>
           \/ ~Exists(req[c].name)
           \/ functions[req[c].name].artifact # req[c].artifact]_vars
  BY <1>1
<1> QED
  BY <1>2, Invariant, PTL DEF Spec, DetailsFailsOnlyWhenStale
-----------------------------------------------------------------------------
(* The requests that will see to the blob of their package: they commit it, *)
(* or they clean it up.                                                     *)
SeesTo(c, b) == req[c] \in Requests /\ req[c].pc # "put" /\ req[c].pc # "rename" /\ req[c].code = b
Forgotten == {b \in blobs : artifacts[b] = NoRow /\ \A c \in Clients : ~SeesTo(c, b)}

(* Blobs that nobody sees to were each left by a request that was cut short. *)
OrphansCounted == IsFiniteSet(blobs) /\ Cardinality(Forgotten) <= faults

(* Only a request that is cut short forgets a blob, the one it was about.   *)
LEMMA ForgottenGrows ==
  ASSUME IInv, [Next]_vars
  PROVE  \/ Forgotten' \subseteq Forgotten /\ faults' = faults
         \/ (\E b : Forgotten' \subseteq Forgotten \cup {b}) /\ faults' = faults + 1
<1> USE DEF Forgotten, SeesTo, IInv, TypeOK, Requests, Lookups, Pcs, Idle, NoRow
<1>1. ASSUME UNCHANGED <<artifacts, blobs>>,
             \A c \in Clients, b \in Blobs : SeesTo(c, b) => SeesTo(c, b)'
      PROVE  Forgotten' \subseteq Forgotten
  BY <1>1
<1>2. ASSUME NEW c \in Clients, Abort(c)
      PROVE  \E b : Forgotten' \subseteq Forgotten \cup {b}
  <2>0. UNCHANGED <<artifacts, blobs>> /\ \A d \in Clients : d # c => req'[d] = req[d]
    BY <1>2 DEF Abort, Return, db
  <2>1. CASE req[c] \in Requests
    <3>1. Forgotten' \subseteq Forgotten \cup {req[c].code}
      BY <2>0, <2>1
    <3> QED
      BY <3>1
  <2>2. CASE req[c] \notin Requests
    BY <2>0, <2>2
  <2> QED
    BY <2>1, <2>2
<1>3. ASSUME NEW c \in Clients, CreateCommit(c) \/ UpdateCommit(c) PROVE Forgotten' \subseteq Forgotten
  <2>1. /\ req[c] \in Requests /\ req[c].code \in Blobs /\ InsertArtifact(req[c].code)
        /\ blobs' = blobs /\ \A d \in Clients : d # c => req'[d] = req[d]
    BY <1>3 DEF CreateCommit, UpdateCommit, Return
  <2>2. /\ artifacts'[req[c].code] # NoRow
        /\ \A b \in Blobs : b # req[c].code => artifacts'[b] = artifacts[b]
    BY <2>1 DEF InsertArtifact, RowOf
  <2> QED
    BY <2>1, <2>2
<1>4. ASSUME NEW c \in Clients, PutExists(c) PROVE Forgotten' \subseteq Forgotten
  BY <1>1, <1>4 DEF PutExists, Goto, db
<1>5. ASSUME NEW c \in Clients, PutRename(c) PROVE Forgotten' \subseteq Forgotten
  BY <1>5 DEF PutRename, Goto, db
<1>6. ASSUME NEW c \in Clients, Reject(c) PROVE Forgotten' \subseteq Forgotten
  BY <1>1, <1>6 DEF Reject, Goto, db
<1>7. ASSUME NEW c \in Clients, CleanupRow(c) PROVE Forgotten' \subseteq Forgotten
  BY <1>7 DEF CleanupRow, Collectable, Goto, db
<1>8. ASSUME NEW c \in Clients, CleanupLookup(c) PROVE Forgotten' \subseteq Forgotten
  BY <1>8 DEF CleanupLookup, Goto, Return, db
<1>9. ASSUME NEW c \in Clients, CleanupRemove(c) PROVE Forgotten' \subseteq Forgotten
  BY <1>9 DEF CleanupRemove, Return, db
<1>10. ASSUME NEW c \in Clients, DetailsFound(c) \/ DetailsMissing(c) PROVE Forgotten' \subseteq Forgotten
  BY <1>1, <1>10 DEF DetailsFound, DetailsMissing, Return, db
<1>11. ASSUME NEW c \in Clients, NEW n \in Names, GetFunction(c, n) PROVE Forgotten' \subseteq Forgotten
  BY <1>1, <1>11 DEF GetFunction, db
<1>12. ASSUME NEW c \in Clients, NEW n \in Names, NEW code \in Blobs,
              \/ \E runtime \in Runtimes : CreatePrecheck(c, n, code, runtime)
              \/ \E expected \in 0..revs : UpdateRead(c, n, code, expected)
       PROVE Forgotten' \subseteq Forgotten
  BY <1>1, <1>12 DEF CreatePrecheck, UpdateRead, db
<1>13. ASSUME UNCHANGED <<artifacts, blobs, req>> PROVE Forgotten' \subseteq Forgotten
  BY <1>13
<1>14. (\A c \in Clients : ~Abort(c)) => faults' = faults
  BY DEF Next, CreatePrecheck, UpdateRead, GetFunction, PutExists, PutRename, CreateCommit,
         UpdateCommit, Reject, CleanupRow, CleanupLookup, CleanupRemove, DetailsFound,
         DetailsMissing, DeleteFunction, Wait, vars
<1>15. \A c \in Clients : Abort(c) => faults' = faults + 1
  BY DEF Abort
<1> HIDE DEF Forgotten, SeesTo, IInv
<1> QED
  BY <1>2, <1>3, <1>4, <1>5, <1>6, <1>7, <1>8, <1>9, <1>10, <1>11, <1>12, <1>13, <1>14, <1>15
     DEF Next, DeleteFunction, Wait, vars

(* Blobs come one at a time. *)
LEMMA BlobsFinite == ASSUME IsFiniteSet(blobs), IInv, [Next]_vars PROVE IsFiniteSet(blobs')
<1>1. \E b : blobs' \subseteq blobs \cup {b}
  BY DEF Next, CreatePrecheck, UpdateRead, GetFunction, PutExists, PutRename, CreateCommit,
         UpdateCommit, Reject, CleanupRow, CleanupLookup, CleanupRemove, DetailsFound,
         DetailsMissing, DeleteFunction, Abort, Wait, vars, db
<1>2. PICK b : blobs' \subseteq blobs \cup {b}
  BY <1>1
<1>3. IsFiniteSet(blobs \cup {b})
  BY FS_AddElement
<1> QED
  BY <1>2, <1>3, FS_Subset

LEMMA OrphansStayCounted == IInv /\ OrphansCounted /\ [Next]_vars => OrphansCounted'
<1> SUFFICES ASSUME IInv, OrphansCounted, [Next]_vars PROVE OrphansCounted'
  OBVIOUS
<1>1. /\ IsFiniteSet(Forgotten) /\ Cardinality(Forgotten) \in Nat
      /\ Cardinality(Forgotten) <= faults /\ faults \in Nat
  <2>1. Forgotten \in SUBSET blobs
    BY DEF Forgotten
  <2> QED
    BY <2>1, FS_Subset, FS_CardinalityType DEF OrphansCounted, IInv, TypeOK
<1>2. IsFiniteSet(blobs')
  BY BlobsFinite DEF OrphansCounted
<1>3. ASSUME NEW S, IsFiniteSet(S), Forgotten' \subseteq S
      PROVE  Cardinality(Forgotten') <= Cardinality(S)
  BY <1>3, FS_Subset
<1>4. CASE Forgotten' \subseteq Forgotten /\ faults' = faults
  <2>1. Cardinality(Forgotten') <= Cardinality(Forgotten)
    BY <1>1, <1>3, <1>4
  <2>2. IsFiniteSet(Forgotten') /\ Cardinality(Forgotten') \in Nat
    BY <1>1, <1>4, FS_Subset, FS_CardinalityType
  <2> QED
    BY <1>1, <1>2, <1>4, <2>1, <2>2 DEF OrphansCounted
<1>5. ASSUME NEW b, Forgotten' \subseteq Forgotten \cup {b}, faults' = faults + 1
      PROVE  OrphansCounted'
  <2>1. /\ IsFiniteSet(Forgotten \cup {b})
        /\ Cardinality(Forgotten \cup {b}) \in {Cardinality(Forgotten), Cardinality(Forgotten) + 1}
    BY <1>1, FS_AddElement
  <2>2. IsFiniteSet(Forgotten') /\ Cardinality(Forgotten') \in Nat
    BY <1>5, <2>1, FS_Subset, FS_CardinalityType
  <2>3. Cardinality(Forgotten') <= Cardinality(Forgotten \cup {b})
    BY <1>3, <1>5, <2>1
  <2> QED
    BY <1>1, <1>2, <1>5, <2>1, <2>2, <2>3 DEF OrphansCounted
<1> QED
  BY <1>4, <1>5, ForgottenGrows

(* With no request in flight there are at most as many blobs without a row  *)
(* as requests were cut short: the rejected ones leave nothing behind.      *)
THEOREM OrphansBounded == Spec => []OrphanBound
<1>1. Init => OrphansCounted
  <2>1. Init => blobs = {} /\ Forgotten = {} /\ faults = 0
    BY DEF Init, Forgotten
  <2> QED
    BY <2>1, FS_EmptySet DEF OrphansCounted
<1>2. IInv /\ OrphansCounted => OrphanBound
  <2> SUFFICES ASSUME IInv, OrphansCounted, \A c \in Clients : req[c] = Idle
               PROVE  Cardinality({b \in blobs : artifacts[b] = NoRow}) <= faults
    BY DEF OrphanBound
  <2>1. Forgotten = {b \in blobs : artifacts[b] = NoRow}
    BY DEF Forgotten, SeesTo, Idle, Requests
  <2> QED
    BY <2>1 DEF OrphansCounted
<1> QED
  BY <1>1, <1>2, OrphansStayCounted, Invariant, PTL DEF Spec
=============================================================================
