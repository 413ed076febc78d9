---------------------------- MODULE ServingProofs ----------------------------
(***************************************************************************)
(* The composed daemon, for any clients, callers, functions, packages and  *)
(* bounds: a call runs the code it resolved, and the daemon implements      *)
(* LambdaService.                                                          *)
(***************************************************************************)
EXTENDS Serving, ControlPlaneProofs

(* What is proved of Invoker holds of the one in the daemon.  That Invoker  *)
(* may give up at any moment; this one gives up in Refuse only.             *)
IP == INSTANCE InvokerProofs WITH
  Admins <- Clients, MaxRevision <- LastRevision, Faulty <- TRUE,
  deployed <- [n \in Names |-> RevisionOf(n)], latest <- revs

LEMMA InvokerAssumed == IP!InvokerAssumption /\ IP!NobodyAssumption
<1>1. LastRevision \in Nat
  BY ServingAssumption, ControlPlaneAssumption, FS_CardinalityType DEF LastRevision
<1>2. I!Envs = IP!Envs
  BY DEF I!Envs, IP!Envs, I!Keys, IP!Keys, I!Revisions, IP!Revisions
<1> QED
  BY <1>1, <1>2, ServingAssumption DEF IP!InvokerAssumption, IP!NobodyAssumption

-----------------------------------------------------------------------------
(* The steps of the daemon are steps of the Invoker proved about.           *)
LEMMA SameSettle == ASSUME NEW STATE e, I!Settle(e) PROVE IP!Settle(e)
BY DEF I!Settle, IP!Settle, I!Referenced, IP!Referenced, I!Keys, IP!Keys, I!Revisions, IP!Revisions

LEMMA SameInvalidation ==
  ASSUME NEW a \in Clients, I!Sweep(a) \/ I!RemoveRoot(a) \/ I!Done(a)
  PROVE  IP!Sweep(a) \/ IP!RemoveRoot(a) \/ IP!Done(a)
BY DEF I!Sweep, I!RemoveRoot, I!Done, IP!Sweep, IP!RemoveRoot, IP!Done, I!Goto, IP!Goto, I!db, IP!db,
   I!registry, IP!registry, I!roots, IP!roots, I!Keys, IP!Keys, I!Revisions, IP!Revisions, I!Unregister, IP!Unregister

LEMMA SameRetire ==
  ASSUME NEW a \in Clients, NEW h \in Handles, I!Retire(a, h) PROVE IP!Retire(a, h)
BY SameSettle DEF I!Retire, IP!Retire, I!Goto, IP!Goto, I!db, IP!db, I!roots, IP!roots, I!Free, IP!Free

LEMMA SameCommit ==
  ASSUME NEW a \in Clients, NEW n \in Names, I!Create(a, n) \/ I!Change(a, n)
  PROVE  IP!Create(a, n) \/ IP!Change(a, n)
BY DEF I!Create, I!Change, IP!Create, IP!Change, I!Goto, IP!Goto, I!registry, IP!registry, I!roots, IP!roots

LEMMA SameLookup ==
  ASSUME NEW c \in Callers, I!LookupRead(c) \/ I!LookupWrite(c)
  PROVE  IP!LookupRead(c) \/ IP!LookupWrite(c)
BY DEF I!LookupRead, I!LookupWrite, IP!LookupRead, IP!LookupWrite, I!Found, IP!Found, I!Lookup, IP!Lookup,
   I!Goto, IP!Goto, I!db, IP!db, I!roots, IP!roots

LEMMA SameResolve == ASSUME NEW c \in Callers, NEW n \in Names, I!Resolve(c, n) PROVE IP!Resolve(c, n)
BY DEF I!Resolve, IP!Resolve, I!Goto, IP!Goto, I!db, IP!db, I!registry, IP!registry, I!roots, IP!roots

LEMMA SameUnpack ==
  /\ \A c \in Callers : I!StartUnpack(c) => IP!StartUnpack(c)
  /\ \A j \in jobs : I!FinishUnpack(j) => IP!FinishUnpack(j)
BY DEF I!StartUnpack, IP!StartUnpack, I!FinishUnpack, IP!FinishUnpack, I!Goto, IP!Goto, I!db, IP!db,
   I!registry, IP!registry

LEMMA SameSpawn == ASSUME NEW c \in Callers, I!Register(c) \/ I!Replace(c) PROVE IP!Register(c) \/ IP!Replace(c)
BY DEF I!Register, I!Replace, IP!Register, IP!Replace, I!New, IP!New, I!Goto, IP!Goto, I!db, IP!db,
   I!registry, IP!registry, I!roots, IP!roots

LEMMA SameLeave == ASSUME NEW c \in Callers, I!Leave(c) PROVE IP!Leave(c)
BY DEF I!Leave, IP!Leave, I!Goto, IP!Goto, I!db, IP!db

LEMMA SameLockEnv == ASSUME NEW c \in Callers, I!LockEnv(c) PROVE IP!LockEnv(c)
BY SameLeave, SameSettle
   DEF I!LockEnv, IP!LockEnv, I!Free, IP!Free, I!WithStatus, IP!WithStatus, I!Goto, IP!Goto, I!db, IP!db,
       I!registry, IP!registry

LEMMA SameReturn == ASSUME NEW c \in Callers, I!Return(c) PROVE IP!Return(c)
<1>1. PICK s \in {"clean", "dead"} : I!Settle(I!WithStatus(handle[c], s))
  BY DEF I!Return
<1>2. I!WithStatus(handle[c], s) = IP!WithStatus(handle[c], s)
  BY DEF I!WithStatus, IP!WithStatus
<1>3. IP!Settle(IP!WithStatus(handle[c], s))
  BY <1>1, <1>2, SameSettle
<1> QED
  BY <1>3, SameLeave DEF I!Return, IP!Return

(* A call is refused in the middle of a lookup or of a cold start: Invoker  *)
(* gives up.                                                                *)
LEMMA SameRefuse ==
  ASSUME NEW c \in Callers, Refuse(c), pc[c] \notin {"idle", "run"} PROVE IP!GiveUp(c)
<1>1. IP!Abandon(c) = env
  BY DEF IP!Abandon
<1>2. IP!Settle(IP!Abandon(c))
  BY <1>1, SameSettle DEF Refuse
<1> QED
  BY <1>2, SameLeave DEF Refuse, IP!GiveUp

(* Until it is spawned a call is in its cold start.                         *)
Booting == {"cold", "unpack", "spawn"}

LEMMA Refuses ==
  ASSUME IP!IInv, NEW c \in Callers,
         \/ FindArtifact(c) \/ VerifyBlob(c) \/ ReadBlob(c) \/ Spawn(c) \/ LockEnv(c)
         \/ \E j \in jobs : Unpacked(c, j),
         Refuse(c)
  PROVE  pc[c] \notin {"idle", "run"}
<1>1. \A j \in jobs : j.owner = c => pc[c] = "unpack"
  BY InvokerAssumed DEF IP!IInv, IP!Threads, IP!InvokerAssumption
<1> QED
  BY <1>1 DEF FindArtifact, VerifyBlob, ReadBlob, Spawn, LockEnv, Unpacked, I!StartUnpack, I!Register, I!Replace,
     I!LockEnv

(* Every step but a restart is a step of Invoker, or none.                  *)
LEMMA InvokerStep ==
  ASSUME TypeOK, IP!IInv, [ServingNext]_servingVars PROVE [IP!Next]_(IP!vars) \/ Restart
<1> USE DEF IP!Next, IP!ColdStartStep
<1>1. ASSUME UNCHANGED invokerVars, functions' = functions, revs' = revs PROVE UNCHANGED IP!vars
  BY <1>1 DEF invokerVars, IP!vars, IP!db, IP!registry, IP!roots, RevisionOf, Exists
<1>2. ASSUME NEW c \in Clients, Request(c) PROVE UNCHANGED IP!vars
  BY <1>1, <1>2 DEF Request, CreatePrecheck, UpdateRead, PutExists, PutRename, Reject, CleanupRow, CleanupLookup,
     CleanupRemove, DetailsFound, DetailsMissing, db
<1>3. ASSUME NEW c \in Clients, CommitNew(c) \/ CommitUpdate(c) PROVE IP!Next
  <2>1. req[c].name \in Names
    BY <1>3 DEF CommitNew, CommitUpdate, CreateCommit, UpdateCommit, TypeOK, Idle, Requests, Lookups
  <2> QED
    BY <1>3, <2>1, SameCommit DEF CommitNew, CommitUpdate
<1>4. ASSUME NEW c \in Clients, NEW n \in Names, CommitDelete(c, n) PROVE IP!Next
  BY <1>4, SameCommit DEF CommitDelete
<1>5. ASSUME NEW c \in Clients, Invalidate(c) PROVE IP!Next
  BY <1>5, SameInvalidation, SameRetire DEF Invalidate
<1>6. ASSUME NEW c \in Callers, CallerStep(c) PROVE [IP!Next]_(IP!vars)
  <2>1. CASE Lookup(c)
    BY <2>1, SameLookup DEF Lookup
  <2>2. ASSUME Refuse(c), \/ FindArtifact(c) \/ VerifyBlob(c) \/ ReadBlob(c) \/ Spawn(c) \/ LockEnv(c)
                          \/ \E j \in jobs : Unpacked(c, j)
        PROVE IP!Next
    BY <2>2, Refuses, SameRefuse
  <2>3. CASE FindArtifact(c) \/ VerifyBlob(c)
    <3>1. CASE UNCHANGED invokerVars
      BY <1>1, <1>6, <3>1 DEF CallerStep, vars
    <3> QED
      BY <2>2, <2>3, <3>1 DEF FindArtifact, VerifyBlob
  <2>4. CASE ReadBlob(c)
    BY <2>2, <2>4, SameUnpack DEF ReadBlob
  <2>5. ASSUME NEW j \in jobs, Unpacked(c, j) PROVE IP!Next
    BY <2>2, <2>5, SameUnpack DEF Unpacked
  <2>6. CASE Spawn(c)
    BY <2>2, <2>6, SameSpawn DEF Spawn
  <2>7. CASE LockEnv(c)
    BY <2>2, <2>7, SameLockEnv DEF LockEnv
  <2>8. CASE Respond(c)
    BY <2>8, SameReturn DEF Respond
  <2> QED
    BY <1>6, <2>1, <2>3, <2>4, <2>5, <2>6, <2>7, <2>8 DEF CallerStep
<1>7. ASSUME NEW c \in Callers, NEW n \in Names, Resolve(c, n) PROVE IP!Next
  BY <1>7, SameResolve DEF Resolve
<1>8. CASE UNCHANGED servingVars
  BY <1>1, <1>8 DEF servingVars, vars
<1> QED
  BY <1>2, <1>3, <1>4, <1>5, <1>6, <1>7, <1>8 DEF ServingNext, ClientStep, Quiet

(* Every step but a restart is one of the control plane, or none.           *)
LEMMA ControlPlaneStep ==
  ASSUME TypeOK, [ServingNext]_servingVars PROVE [Operation]_vars \/ Restart
<1>1. Expected \subseteq Nat
  <2>1. LastRevision \in Nat
    BY InvokerAssumed DEF IP!InvokerAssumption
  <2> QED
    BY <2>1 DEF Expected, TypeOK
<1>2. ASSUME NEW c \in Clients, Request(c) PROVE Operation
  BY <1>1, <1>2 DEF Request, Operation
<1> QED
  BY <1>2 DEF ServingNext, ClientStep, CommitNew, CommitUpdate, CommitDelete, Invalidate, CallerStep, Quiet, servingVars,
     Operation

-----------------------------------------------------------------------------
(* A restart keeps what the stores and the registry rely on.                *)
LEMMA RestartKeepsStores == ASSUME IInv, CreatesValid, Restart PROVE IInv' /\ CreatesValid'
<1>1. TypeOK'
  BY DEF Restart, IInv, TypeOK, Idle, db
<1>2. CreatesValid'
  BY DEF Restart, CreatesValid, Requests, Idle
<1> QED
  BY <1>1, <1>2, DbUnchanged DEF Restart, IInv

LEMMA RestartKeepsInvoker == ASSUME IP!IInv, Restart PROVE IP!IInv'
<1> USE InvokerAssumed DEF Restart, IP!InvokerAssumption, I!Keys, IP!Keys, I!Revisions, IP!Revisions, I!Tasks, IP!Tasks
<1>1. (IP!Shape)'
  BY DEF IP!IInv, IP!Shape, IP!TypeOK, IP!Booting, IP!CallerPcs, IP!AdminPcs, db, RevisionOf, Exists
<1>2. (IP!Locks)'
  BY DEF IP!Locks
<1>3. (IP!Held)'
  BY DEF IP!Held
<1>4. (IP!RegisteredIsNotRetired)'
  BY DEF IP!RegisteredIsNotRetired
<1>5. (IP!Swept)'
  BY DEF IP!Swept
<1>6. (IP!Status)'
  BY DEF IP!Status, IP!BusyIsOwned
<1>7. (IP!Threads)'
  BY DEF IP!Threads
<1> QED
  BY <1>1, <1>2, <1>3, <1>4, <1>5, <1>6, <1>7 DEF IP!IInv

(* The invariants of the two parts hold of the whole.                       *)
Parts == IInv /\ CreatesValid /\ IP!IInv

LEMMA PartsKept == Parts /\ [ServingNext]_servingVars => Parts'
<1> SUFFICES ASSUME Parts, [ServingNext]_servingVars PROVE Parts'
  OBVIOUS
<1>1. CASE Restart
  BY <1>1, RestartKeepsStores, RestartKeepsInvoker DEF Parts
<1>2. CASE ~Restart
  <2>1. [Operation]_vars /\ [IP!Next]_(IP!vars)
    BY <1>2, ControlPlaneStep, InvokerStep DEF Parts, IInv
  <2> QED
    BY <2>1, Inductive, CreatesKeptValid, InvokerAssumed, IP!Inductive DEF Parts, IInv
<1> QED
  BY <1>1, <1>2

LEMMA PartsInitially == ServingInit => Parts
<1> SUFFICES ASSUME ServingInit PROVE Parts
  OBVIOUS
<1>1. IInv
  BY Initially DEF ServingInit
<1>2. CreatesValid
  BY DEF ServingInit, Init, CreatesValid, Requests, Idle
<1>3. IP!IInv
  <2> USE InvokerAssumed DEF ServingInit, I!Init, IP!InvokerAssumption, I!Keys, IP!Keys, I!Revisions, IP!Revisions, I!Tasks, IP!Tasks
  <2>1. IP!Shape
    BY DEF IP!Shape, IP!TypeOK, IP!Booting, IP!CallerPcs, IP!AdminPcs
  <2> QED
    BY <2>1 DEF IP!IInv, IP!Locks, IP!Held, IP!RegisteredIsNotRetired, IP!Swept, IP!Status, IP!BusyIsOwned, IP!Threads
<1> QED
  BY <1>1, <1>2, <1>3 DEF Parts

-----------------------------------------------------------------------------
(* What a call knows of its function.  Row ids are never reused: the row it *)
(* resolved holds the package of its version, or nothing.                   *)
Knows(c) ==
  /\ key[c] = <<call[c].name, call[c].version.revision>>
  /\ call[c].artifact <= rows /\ call[c].version.revision <= revs
  /\ \A b \in Blobs : artifacts[b] = call[c].artifact => b = call[c].version.code
  /\ \A n \in Names : (Exists(n) /\ functions[n].revision = call[c].version.revision) =>
       functions[n].artifact = call[c].artifact
Calls ==
  /\ call \in [Callers -> Resolved \cup {Nobody}]
  /\ \A c \in Callers : (call[c] = Nobody <=> pc[c] = "idle") /\ (call[c] # Nobody => Knows(c))

(* What a cold start has found so far.                                      *)
Found(c) ==
  /\ package[c] # Nobody => pc[c] \in Booting /\ package[c] = call[c].version.code
  /\ c \in checked => package[c] # Nobody
  /\ pc[c] \in {"unpack", "spawn"} => c \in checked
Cold ==
  /\ package \in [Callers -> Blobs \cup {Nobody}] /\ checked \subseteq Callers
  /\ \A c \in Callers : Found(c)

(* The live processes are those started from a package.                     *)
Loaded ==
  /\ loaded \in [Handles -> Blobs \cup {Nobody}]
  /\ \A h \in Handles : loaded[h] # Nobody <=> IP!Alive(h)

(* A revision stands for one package, wherever it is known: in the table,   *)
(* in the calls that resolved it and in the processes started for it.       *)
Stands(rev, code) ==
  \/ \E n \in Names : Deployed[n] # NoFunction /\ Deployed[n].revision = rev /\ Deployed[n].code = code
  \/ \E c \in Callers : call[c] # Nobody /\ call[c].version.revision = rev /\ call[c].version.code = code
  \/ \E h \in Handles : loaded[h] # Nobody /\ env[h].key[2] = rev /\ loaded[h] = code
OneCode ==
  /\ \A rev, a, b : Stands(rev, a) /\ Stands(rev, b) => a = b
  /\ \A rev, a : Stands(rev, a) => rev \in Nat /\ rev <= revs

SInv == Parts /\ Calls /\ Cold /\ Loaded /\ OneCode

(* A call of SInv runs the code of the version it resolved.                 *)
LEMMA RunsIt == SInv => RunsResolvedCode
<1> SUFFICES ASSUME SInv, NEW c \in Callers, pc[c] = "run" PROVE loaded[handle[c]] = call[c].version.code
  BY DEF RunsResolvedCode
<1>1. handle[c] \in Handles /\ IP!Alive(handle[c]) /\ env[handle[c]].key = key[c]
  BY DEF SInv, Parts, IP!IInv, IP!Shape, IP!TypeOK, IP!Held, IP!Status, IP!Alive
<1>2. call[c] # Nobody /\ key[c][2] = call[c].version.revision
  BY DEF SInv, Calls, Knows
<1>3. Stands(key[c][2], loaded[handle[c]])
  BY <1>1 DEF Stands, SInv, Loaded
<1>4. Stands(key[c][2], call[c].version.code)
  BY <1>2 DEF Stands
<1> QED
  BY <1>3, <1>4 DEF SInv, OneCode

-----------------------------------------------------------------------------
(* Ids of rows and of revisions are fresh.                                  *)
LEMMA FreshIds ==
  ASSUME TypeOK, [Operation]_vars
  PROVE  /\ rows' >= rows /\ revs' >= revs
         /\ \A b \in Blobs : artifacts'[b] \in {artifacts[b], NoRow} \/ artifacts'[b] > rows
         /\ \A n \in Names : functions'[n] \in {functions[n], NoFunction} \/ functions'[n].revision > revs
<1> USE DEF TypeOK
<1>1. ASSUME NEW c \in Clients, CreateCommit(c) \/ UpdateCommit(c)
      PROVE  /\ rows' >= rows /\ revs' >= revs
             /\ \A b \in Blobs : artifacts'[b] \in {artifacts[b], NoRow} \/ artifacts'[b] > rows
             /\ \A n \in Names : functions'[n] \in {functions[n], NoFunction} \/ functions'[n].revision > revs
  <2>1. /\ InsertArtifact(req[c].code) /\ revs' = revs + 1
        /\ \E f : f.revision = revs + 1 /\ functions' = [functions EXCEPT ![req[c].name] = f]
    BY <1>1 DEF CreateCommit, UpdateCommit
  <2>2. \A n \in Names : functions'[n] = functions[n] \/ functions'[n].revision = revs + 1
    BY <2>1
  <2>3. rows' >= rows /\ \A b \in Blobs : artifacts'[b] = artifacts[b] \/ artifacts'[b] = rows + 1
    BY <2>1 DEF InsertArtifact, RowOf
  <2> QED
    BY <2>1, <2>2, <2>3
<1>2. ASSUME NEW c \in Clients, CleanupRow(c)
      PROVE  /\ rows' = rows /\ revs' = revs /\ functions' = functions
             /\ \A b \in Blobs : artifacts'[b] \in {artifacts[b], NoRow}
  BY <1>2 DEF CleanupRow
<1>3. ASSUME NEW n \in Names, DeleteFunction(n)
      PROVE  /\ rows' = rows /\ revs' = revs /\ artifacts' = artifacts
             /\ \A m \in Names : functions'[m] \in {functions[m], NoFunction}
  BY <1>3 DEF DeleteFunction
<1>4. CASE UNCHANGED <<rows, revs, artifacts, functions>>
  BY <1>4
<1> QED
  BY <1>1, <1>2, <1>3, <1>4
     DEF Operation, CreatePrecheck, UpdateRead, GetFunction, PutExists, PutRename, Reject,
         CleanupLookup, CleanupRemove, DetailsFound, DetailsMissing, Abort, vars, db

(* Each task moves by its own steps only.                                   *)
Still(c) ==
  /\ pc'[c] = pc[c] /\ key'[c] = key[c] /\ handle'[c] = handle[c] /\ call'[c] = call[c]
  /\ package'[c] = package[c] /\ (c \in checked' <=> c \in checked)

LEMMA ClientsMoveAlone ==
  ASSUME Parts, NEW a \in Clients, ClientStep(a), NEW c \in Callers
  PROVE  Still(c)
<1>1. /\ pc \in [I!Tasks -> IP!CallerPcs \cup IP!AdminPcs] /\ c \in I!Tasks /\ a # c
      /\ key \in [I!Tasks -> IP!Keys \cup Names \cup {Nobody}]
  BY ServingAssumption DEF Parts, IP!IInv, IP!Shape, IP!TypeOK, IP!Tasks, I!Tasks
<1>2. handle' = handle
  BY DEF ClientStep, Request, CommitNew, CommitUpdate, CommitDelete, Invalidate, invokerVars, I!Create, I!Change,
     I!Sweep, I!RemoveRoot, I!Done, I!Retire
<1>3. pc'[c] = pc[c]
  BY <1>1 DEF ClientStep, Request, CommitNew, CommitUpdate, CommitDelete, Invalidate, invokerVars, I!Create, I!Change,
     I!Sweep, I!RemoveRoot, I!Done, I!Retire, I!Goto
<1>4. key'[c] = key[c]
  BY <1>1 DEF ClientStep, Request, CommitNew, CommitUpdate, CommitDelete, Invalidate, invokerVars, I!Create, I!Change,
     I!Sweep, I!RemoveRoot, I!Done, I!Retire
<1> QED
  BY <1>2, <1>3, <1>4 DEF Still, ClientStep

LEMMA CallersMoveAlone ==
  ASSUME Parts, Calls, Cold, NEW c \in Callers, CallerStep(c) \/ \E n \in Names : Resolve(c, n)
  PROVE  /\ \A d \in Callers \ {c} : Still(d)
         /\ \A a \in Clients : pc'[a] = pc[a] /\ key'[a] = key[a]
         /\ swept' = swept
<1>1. /\ pc \in [I!Tasks -> IP!CallerPcs \cup IP!AdminPcs]
      /\ key \in [I!Tasks -> IP!Keys \cup Names \cup {Nobody}]
      /\ handle \in [Callers -> Handles \cup {Nobody}]
      /\ \A t \in Callers \cup Clients : t \in I!Tasks
      /\ \A a \in Clients : a # c
      /\ call \in [Callers -> Resolved \cup {Nobody}]
      /\ package \in [Callers -> Blobs \cup {Nobody}]
  BY ServingAssumption DEF Parts, IP!IInv, IP!Shape, IP!TypeOK, IP!Tasks, I!Tasks, Calls, Cold
<1>2. c # Nobody
  BY ServingAssumption
<1> DEFINE Apart ==
      /\ \A t \in I!Tasks \ {c} : pc'[t] = pc[t] /\ key'[t] = key[t]
      /\ \A d \in Callers \ {c} : handle'[d] = handle[d] /\ call'[d] = call[d] /\ package'[d] = package[d]
      /\ \A d \in Callers \ {c} : d \in checked' <=> d \in checked
      /\ swept' = swept
<1>3. ASSUME Refuse(c) PROVE Apart
  BY <1>1, <1>3 DEF Refuse, I!Leave, I!Goto
<1>4. ASSUME Lookup(c) PROVE Apart
  BY <1>1, <1>4 DEF Lookup, I!LookupRead, I!LookupWrite, I!Found, I!Goto, I!roots, coldVars
<1>5. ASSUME FindArtifact(c) PROVE Apart
  BY <1>1, <1>3, <1>5 DEF FindArtifact, invokerVars
<1>6. ASSUME VerifyBlob(c) PROVE Apart
  BY <1>1, <1>3, <1>6 DEF VerifyBlob, invokerVars
<1>7. ASSUME ReadBlob(c) PROVE Apart
  BY <1>1, <1>3, <1>7 DEF ReadBlob, I!StartUnpack, I!Goto, coldVars
<1>8. ASSUME NEW j \in jobs, Unpacked(c, j) PROVE Apart
  BY <1>1, <1>2, <1>3, <1>8 DEF Unpacked, I!FinishUnpack, coldVars
<1>9. ASSUME Spawn(c) PROVE Apart
  BY <1>1, <1>3, <1>9 DEF Spawn, I!Register, I!Replace, I!Goto, I!registry, I!roots
<1>10. ASSUME LockEnv(c) PROVE Apart
  <2>1. ASSUME I!LockEnv(c), pc'[c] # "idle" PROVE UNCHANGED <<key, handle, swept>> /\ \A t \in I!Tasks \ {c} : pc'[t] = pc[t]
    BY <1>1, <2>1 DEF I!LockEnv, I!Leave, I!Goto
  <2> QED
    BY <1>3, <1>10, <2>1 DEF LockEnv
<1>11. ASSUME Respond(c) PROVE Apart
  BY <1>1, <1>11 DEF Respond, I!Return, I!Leave, I!Goto
<1>12. ASSUME NEW n \in Names, Resolve(c, n) PROVE Apart
  BY <1>1, <1>12 DEF Resolve, I!Resolve, I!Goto, I!registry, I!roots, coldVars
<1>13. Apart
  BY <1>4, <1>5, <1>6, <1>7, <1>8, <1>9, <1>10, <1>11, <1>12 DEF CallerStep
<1> QED
  BY <1>1, <1>13 DEF Still

LEMMA CallerAt ==
  ASSUME Parts, NEW c \in Callers
  PROVE  /\ pc \in [I!Tasks -> IP!CallerPcs \cup IP!AdminPcs] /\ c \in I!Tasks /\ c # Nobody
         /\ \A j \in jobs : j.owner = c => pc[c] = "unpack"
BY ServingAssumption DEF Parts, IP!IInv, IP!Shape, IP!TypeOK, IP!Tasks, I!Tasks, IP!Threads

(* A call either goes on, or ends and forgets what it resolved.             *)
GoesOn(c) == pc[c] # "idle" /\ pc'[c] # "idle" /\ key'[c] = key[c] /\ UNCHANGED call
Ends(c) == pc[c] # "idle" /\ pc'[c] = "idle" /\ call' = [call EXCEPT ![c] = Nobody]

LEMMA CallersEndOrGoOn ==
  ASSUME Parts, NEW c \in Callers, CallerStep(c) PROVE GoesOn(c) \/ Ends(c)
<1>1. /\ pc \in [I!Tasks -> IP!CallerPcs \cup IP!AdminPcs] /\ c \in I!Tasks
      /\ \A j \in jobs : j.owner = c => pc[c] = "unpack"
      /\ IP!IInv /\ c # Nobody
  BY CallerAt DEF Parts
<1>2. ASSUME Refuse(c), \/ FindArtifact(c) \/ VerifyBlob(c) \/ ReadBlob(c) \/ Spawn(c) \/ LockEnv(c)
                        \/ \E j \in jobs : Unpacked(c, j)
      PROVE Ends(c)
  BY <1>1, <1>2, Refuses DEF Refuse, I!Leave, I!Goto, Ends
<1>3. ASSUME Lookup(c) PROVE GoesOn(c)
  BY <1>1, <1>3 DEF GoesOn, Lookup, I!LookupRead, I!LookupWrite, I!Found, I!Goto
<1>4. ASSUME FindArtifact(c) \/ VerifyBlob(c), ~Refuse(c) PROVE GoesOn(c)
  BY <1>1, <1>4 DEF GoesOn, FindArtifact, VerifyBlob, invokerVars
<1>5. ASSUME ReadBlob(c), ~Refuse(c) PROVE GoesOn(c)
  BY <1>1, <1>5 DEF GoesOn, ReadBlob, I!StartUnpack, I!Goto
<1>6. ASSUME NEW j \in jobs, Unpacked(c, j), ~Refuse(c) PROVE GoesOn(c)
  BY <1>1, <1>6 DEF GoesOn, Unpacked, I!FinishUnpack
<1>7. ASSUME Spawn(c), ~Refuse(c) PROVE GoesOn(c)
  BY <1>1, <1>7 DEF GoesOn, Spawn, I!Register, I!Replace, I!Goto
<1>8. ASSUME LockEnv(c), ~Refuse(c) PROVE GoesOn(c)
  BY <1>1, <1>8 DEF GoesOn, LockEnv, I!LockEnv, I!Leave, I!Goto
<1>9. ASSUME Respond(c) PROVE Ends(c)
  BY <1>1, <1>9 DEF Ends, Respond, I!Return, I!Leave, I!Goto
<1> QED
  BY <1>2, <1>3, <1>4, <1>5, <1>6, <1>7, <1>8, <1>9 DEF CallerStep

(* What a call knows stays true: ids of rows and of revisions are fresh.    *)
LEMMA KnowsStays ==
  ASSUME Parts, NEW c \in Callers, call[c] \in Resolved, Knows(c), [Operation]_vars,
         call'[c] = call[c], key'[c] = key[c]
  PROVE  Knows(c)'
<1>1. TypeOK /\ TypeOK'
  BY TypesKept DEF Parts, IInv
<1> USE FreshIds, <1>1 DEF Resolved, Version, Knows, TypeOK, Row, NoRow
<1>2. \A b \in Blobs : artifacts'[b] = call[c].artifact => artifacts[b] = call[c].artifact
  OBVIOUS
<1>3. \A n \in Names : (Exists(n)' /\ functions'[n].revision = call[c].version.revision) => functions'[n] = functions[n]
  BY DEF Exists
<1> QED
  BY <1>2, <1>3 DEF Exists

(* A call resolves the row and the version of a deployed function.          *)
LEMMA ResolveKnows ==
  ASSUME Parts, Calls, NEW c \in Callers, NEW n \in Names, UNCHANGED vars, Resolve(c, n)
  PROVE  call' \in [Callers -> Resolved \cup {Nobody}] /\ pc'[c] = "lookup" /\ call'[c] # Nobody /\ Knows(c)'
<1> DEFINE r == [name |-> n, artifact |-> functions[n].artifact, version |-> VersionOf(n)]
<1>1. Exists(n) /\ functions[n].revision # 0
  BY DEF Resolve, I!Resolve, RevisionOf
<1>2. functions[n] \in Function /\ artifacts \in [Blobs -> Nat]
  BY <1>1 DEF Parts, IInv, TypeOK, Exists
<1>3. DeployedCode(n) \in Blobs /\ artifacts[DeployedCode(n)] = functions[n].artifact
  BY <1>1, DeployedCodeIs DEF Parts, IInv, ReferentialIntegrity, HasRow
<1>4. r \in Resolved
  BY <1>2, <1>3 DEF Resolved, VersionOf, Version, Function
<1>5. call'[c] = r /\ call'[c] # Nobody /\ call' \in [Callers -> Resolved \cup {Nobody}]
  BY <1>4, ServingAssumption DEF Resolve, Calls
<1>6. pc'[c] = "lookup" /\ key'[c] = <<n, functions[n].revision>>
  BY <1>1 DEF Resolve, I!Resolve, I!Goto, RevisionOf, Parts, IP!IInv, IP!Shape, IP!TypeOK, IP!Tasks, I!Tasks
<1>7. functions[n].artifact <= rows /\ functions[n].revision <= revs
  BY <1>1, <1>2, <1>3 DEF Parts, IInv, RowsUnique, RevisionsUnique, TypeOK
<1>8. \A b \in Blobs : artifacts[b] = functions[n].artifact => b = DeployedCode(n)
  BY <1>2, <1>3 DEF Parts, IInv, RowsUnique, Function, Row
<1>9. \A m \in Names : (Exists(m) /\ functions[m].revision = functions[n].revision) => m = n
  BY <1>1 DEF Parts, IInv, RevisionsUnique
<1>10. UNCHANGED <<functions, artifacts, rows, revs>>
  BY DEF vars
<1> QED
  BY <1>5, <1>6, <1>7, <1>8, <1>9, <1>10 DEF Knows, Exists, VersionOf

LEMMA CallsKept == ASSUME Parts, Calls, Cold, [ServingNext]_servingVars PROVE Calls'
<1>0. /\ call \in [Callers -> Resolved \cup {Nobody}] /\ Nobody \notin Resolved
      /\ \A c \in Callers : call[c] # Nobody => call[c] \in Resolved /\ Knows(c)
  BY ServingAssumption DEF Calls
<1>1. ASSUME NEW a \in Clients, ClientStep(a) PROVE Calls'
  <2>1. \A c \in Callers : Still(c)
    BY <1>1, ClientsMoveAlone
  <2>2. call' = call /\ ~Restart
    BY <1>1, ServingAssumption DEF ClientStep, Restart, Request, CommitNew, CommitUpdate, CommitDelete, Invalidate,
       CreatePrecheck, UpdateRead, PutExists, PutRename, Reject, CleanupRow, CleanupLookup, CleanupRemove, DetailsFound,
       DetailsMissing, CreateCommit, UpdateCommit, DeleteFunction, vars, TypeOK, Parts, IInv
  <2>3. [Operation]_vars
    BY <2>2, ControlPlaneStep DEF Parts, IInv
  <2>4. \A c \in Callers : call[c] # Nobody => Knows(c)'
    BY <1>0, <2>1, <2>3, KnowsStays DEF Still
  <2> QED
    BY <1>0, <2>1, <2>2, <2>4 DEF Calls, Still
<1>2. ASSUME NEW c \in Callers, UNCHANGED vars,
             \A d \in Callers \ {c} : Still(d),
             call' \in [Callers -> Resolved \cup {Nobody}],
             (call'[c] = Nobody <=> pc'[c] = "idle") /\ (call'[c] # Nobody => Knows(c)')
      PROVE Calls'
  <2>1. \A d \in Callers \ {c} : call[d] # Nobody => Knows(d)'
    BY <1>0, <1>2, KnowsStays DEF Still
  <2> QED
    BY <1>2, <2>1 DEF Calls, Still
<1>3. ASSUME NEW c \in Callers, CallerStep(c) PROVE Calls'
  <2>1. UNCHANGED vars /\ \A d \in Callers \ {c} : Still(d)
    BY <1>3, CallersMoveAlone DEF CallerStep
  <2>2. CASE GoesOn(c)
    <3>1. call'[c] # Nobody /\ Knows(c)'
      BY <1>0, <2>1, <2>2, KnowsStays DEF GoesOn, Calls
    <3> QED
      BY <1>0, <1>2, <2>1, <2>2, <3>1 DEF GoesOn
  <2>3. CASE Ends(c)
    BY <1>0, <1>2, <2>1, <2>3 DEF Ends
  <2> QED
    BY <1>3, <2>2, <2>3, CallersEndOrGoOn
<1>4. ASSUME NEW c \in Callers, NEW n \in Names, UNCHANGED vars, Resolve(c, n) PROVE Calls'
  BY <1>2, <1>4, CallersMoveAlone, ResolveKnows
<1>5. CASE Restart
  BY <1>5 DEF Restart, Calls, I!Tasks
<1>6. CASE UNCHANGED servingVars
  BY <1>6 DEF servingVars, vars, invokerVars, Calls, Knows, Exists
<1> QED
  BY <1>1, <1>3, <1>4, <1>5, <1>6 DEF ServingNext, Quiet

LEMMA ColdKept == ASSUME Parts, Calls, Cold, [ServingNext]_servingVars PROVE Cold'
<1>0. /\ package \in [Callers -> Blobs \cup {Nobody}] /\ checked \subseteq Callers
      /\ \A c \in Callers : Found(c) /\ c # Nobody
      /\ \A c \in Callers : call[c] # Nobody => Knows(c)
      /\ \A c \in Callers : pc[c] # "idle" => call[c] # Nobody
      /\ Nobody \notin Blobs
  BY ServingAssumption DEF Cold, Calls
<1>1. ASSUME NEW a \in Clients, ClientStep(a) PROVE Cold'
  <2>1. \A c \in Callers : Still(c)
    BY <1>1, ClientsMoveAlone
  <2>2. UNCHANGED <<package, checked>>
    BY <1>1 DEF ClientStep
  <2> QED
    BY <1>0, <2>1, <2>2 DEF Cold, Found, Still
<1>2. ASSUME NEW c \in Callers, UNCHANGED vars, \A d \in Callers \ {c} : Still(d),
             package' \in [Callers -> Blobs \cup {Nobody}], checked' \subseteq Callers, Found(c)'
      PROVE Cold'
  BY <1>0, <1>2 DEF Cold, Found, Still
<1>3. ASSUME NEW c \in Callers, CallerStep(c) PROVE Cold'
  <2>0. /\ UNCHANGED vars /\ \A d \in Callers \ {c} : Still(d)
        /\ pc \in [I!Tasks -> IP!CallerPcs \cup IP!AdminPcs] /\ c \in I!Tasks
        /\ \A j \in jobs : j.owner = c => pc[c] = "unpack"
    BY <1>0, <1>3, CallersMoveAlone, CallerAt DEF CallerStep
  <2> USE <1>0, <1>2, <2>0 DEF Found, Booting
  <2>1. ASSUME Refuse(c) PROVE Cold'
    BY <2>1 DEF Refuse, I!Leave, I!Goto
  <2>2. CASE Lookup(c)
    BY <2>2 DEF Lookup, I!LookupRead, I!LookupWrite, I!Found, I!Goto, coldVars
  <2>3. CASE FindArtifact(c)
    BY <2>1, <2>3 DEF FindArtifact, invokerVars, Knows
  <2>4. CASE VerifyBlob(c)
    BY <2>1, <2>4 DEF VerifyBlob, invokerVars
  <2>5. CASE ReadBlob(c)
    BY <2>1, <2>5 DEF ReadBlob, I!StartUnpack, I!Goto, coldVars
  <2>6. ASSUME NEW j \in jobs, Unpacked(c, j) PROVE Cold'
    BY <2>1, <2>6 DEF Unpacked, I!FinishUnpack, coldVars
  <2>7. CASE Spawn(c)
    BY <2>1, <2>7 DEF Spawn, I!Register, I!Replace, I!Goto
  <2>8. CASE LockEnv(c)
    BY <2>1, <2>8 DEF LockEnv, I!LockEnv, I!Leave, I!Goto
  <2>9. CASE Respond(c)
    BY <2>9 DEF Respond, I!Return, I!Leave, I!Goto
  <2> QED
    BY <1>3, <2>2, <2>3, <2>4, <2>5, <2>6, <2>7, <2>8, <2>9 DEF CallerStep
<1>4. ASSUME NEW c \in Callers, NEW n \in Names, UNCHANGED vars, Resolve(c, n) PROVE Cold'
  <2>1. pc[c] = "idle" /\ pc'[c] = "lookup" /\ UNCHANGED coldVars
    BY <1>4, ResolveKnows DEF Resolve, I!Resolve
  <2> QED
    BY <1>0, <1>2, <1>4, <2>1, CallersMoveAlone DEF coldVars, Found, Booting
<1>5. CASE Restart
  BY <1>5 DEF Restart, Cold, Found, I!Tasks
<1>6. CASE UNCHANGED servingVars
  BY <1>6 DEF servingVars, coldVars, invokerVars, Cold, Found
<1> QED
  BY <1>1, <1>3, <1>4, <1>5, <1>6 DEF ServingNext, Quiet

(* A process that is alive has been so with the same package, or has just   *)
(* been started from the package of the version a call resolved.            *)
LEMMA LoadsOwnCode ==
  ASSUME Parts, Calls, Cold, Loaded, [ServingNext]_servingVars, NEW h \in Handles
  PROVE  IF IP!Alive(h)'
         THEN \/ IP!Alive(h) /\ loaded'[h] = loaded[h] /\ env'[h].key = env[h].key
              \/ \E c \in Callers : /\ call[c] # Nobody /\ env'[h].key = key[c]
                                    /\ loaded'[h] = call[c].version.code
         ELSE loaded'[h] = Nobody
<1> DEFINE Loads ==
      IF IP!Alive(h)'
      THEN \/ IP!Alive(h) /\ loaded'[h] = loaded[h] /\ env'[h].key = env[h].key
           \/ \E c \in Callers : /\ call[c] # Nobody /\ env'[h].key = key[c]
                                 /\ loaded'[h] = call[c].version.code
      ELSE loaded'[h] = Nobody
<1>1. ASSUME UNCHANGED <<env, loaded>> PROVE Loads
  BY <1>1 DEF Loaded, IP!Alive
<1>2. CASE Restart
  BY <1>2 DEF Restart, IP!Alive
<1>3. ASSUME ~Restart, IP!Alive(h)'
      PROVE  (IP!Alive(h) /\ env'[h].key = env[h].key) \/ \E c \in Callers : IP!Starts(c, h)
  <2>1. [IP!Next]_(IP!vars)
    BY <1>3, InvokerStep DEF Parts, IInv
  <2> QED
    BY <1>3, <2>1, InvokerAssumed, IP!ProcessesStay DEF Parts
<1>4. ASSUME ~Restart, Loading(loaded), \A c \in Callers : ~IP!Starts(c, h) PROVE Loads
  BY <1>3, <1>4 DEF Loading, IP!Alive
<1>5. ASSUME NEW a \in Clients, ClientStep(a), ~Restart PROVE Loads
  <2>1. \A c \in Callers : Still(c)
    BY <1>5, ClientsMoveAlone
  <2> QED
    BY <1>4, <1>5, <2>1 DEF ClientStep, IP!Starts, Still
<1>6. ASSUME NEW c \in Callers, CallerStep(c), ~Restart PROVE Loads
  <2>0. /\ \A d \in Callers \ {c} : Still(d)
        /\ pc \in [I!Tasks -> IP!CallerPcs \cup IP!AdminPcs] /\ c \in I!Tasks
    BY <1>6, CallersMoveAlone, CallerAt
  <2>1. ASSUME Loading(loaded), pc[c] # "spawn" \/ pc'[c] = "idle" PROVE Loads
    BY <1>4, <1>6, <2>0, <2>1 DEF IP!Starts, Still
  <2>2. ASSUME Refuse(c) PROVE Loads
    BY <2>0, <2>1, <2>2 DEF Refuse, I!Leave, I!Goto
  <2>3. CASE Spawn(c) /\ ~Refuse(c)
    <3>1. I!Register(c) \/ I!Replace(c)
      BY <2>3 DEF Spawn
    <3>2. handle'[c] \in Handles => env'[handle'[c]].key = key[c]
      <4>1. env \in [Handles -> IP!Envs \cup {Nobody}] /\ handle \in [Callers -> Handles \cup {Nobody}]
        BY DEF Parts, IP!IInv, IP!Shape, IP!TypeOK
      <4> QED
        BY <3>1, <4>1 DEF I!Register, I!Replace, I!New
    <3>3. package[c] = call[c].version.code /\ call[c] # Nobody
      BY <3>1 DEF I!Register, I!Replace, Cold, Found, Calls
    <3>4. Loading([loaded EXCEPT ![handle'[c]] = package[c]])
      BY <2>3 DEF Spawn
    <3>5. CASE handle'[c] = h
      BY <3>2, <3>3, <3>4, <3>5 DEF Loading, IP!Alive, Loaded
    <3>6. CASE handle'[c] # h
      <4>1. \A d \in Callers : ~IP!Starts(d, h)
        BY <2>0, <3>6 DEF IP!Starts, Still
      <4> QED
        BY <1>3, <1>6, <3>4, <3>6, <4>1 DEF Loading, IP!Alive, Loaded
    <3> QED
      BY <3>5, <3>6
  <2>4. CASE LockEnv(c)
    BY <2>1, <2>2, <2>4 DEF LockEnv, I!LockEnv
  <2>5. CASE Respond(c)
    BY <2>1, <2>5 DEF Respond, I!Return
  <2> QED
    BY <1>1, <1>6, <2>2, <2>3, <2>4, <2>5
       DEF CallerStep, Lookup, I!LookupRead, I!LookupWrite, FindArtifact, VerifyBlob, ReadBlob, I!StartUnpack, Unpacked,
           I!FinishUnpack, coldVars, invokerVars
<1>7. ASSUME NEW c \in Callers, NEW n \in Names, Resolve(c, n) PROVE Loads
  BY <1>1, <1>7 DEF Resolve, I!Resolve, coldVars
<1>8. ASSUME UNCHANGED servingVars PROVE Loads
  BY <1>1, <1>8 DEF servingVars, coldVars, invokerVars
<1> QED
  BY <1>2, <1>5, <1>6, <1>7, <1>8 DEF ServingNext, Quiet

LEMMA LoadedKept == ASSUME Parts, Calls, Cold, Loaded, [ServingNext]_servingVars PROVE Loaded'
<1>1. \A h \in Handles : loaded'[h] \in Blobs \cup {Nobody} /\ (loaded'[h] # Nobody <=> IP!Alive(h)')
  <2> TAKE h \in Handles
  <2>1. \A c \in Callers : call[c] # Nobody => call[c].version.code \in Blobs
    BY DEF Calls, Resolved, Version
  <2>2. Nobody \notin Blobs
    BY ServingAssumption
  <2> QED
    BY <2>1, <2>2, LoadsOwnCode DEF Loaded
<1>2. \E f : loaded' = [h \in Handles |-> f[h]]
  <2>1. loaded = [h \in Handles |-> loaded[h]]
    BY DEF Loaded
  <2>2. (\E from : Loading(from)) => \E f : loaded' = [h \in Handles |-> f[h]]
    <3> SUFFICES ASSUME NEW from, Loading(from) PROVE \E f : loaded' = [h \in Handles |-> f[h]]
      OBVIOUS
    <3> WITNESS [h \in Handles |-> IF env'[h] = Nobody \/ env'[h].status = "dead" THEN Nobody ELSE from[h]]
    <3> QED
      BY DEF Loading
  <2>3. CASE Restart
    BY <2>3 DEF Restart
  <2> QED
    BY <2>1, <2>2, <2>3
       DEF ServingNext, Quiet, ClientStep, CallerStep, Lookup, FindArtifact, VerifyBlob, ReadBlob, Unpacked, Spawn, LockEnv,
           Respond, Refuse, Resolve, coldVars, servingVars
<1> QED
  BY <1>1, <1>2 DEF Loaded

-----------------------------------------------------------------------------
(* A revision newly known was known before, or has just been issued.        *)
Issued(rev, code) ==
  rev > revs /\ \E n \in Names : Deployed'[n] # NoFunction /\ Deployed'[n].revision = rev /\ Deployed'[n].code = code

LEMMA DeployedIs ==
  IInv => \A n \in Names :
    /\ Deployed[n] # NoFunction <=> Exists(n)
    /\ Exists(n) => Deployed[n] = VersionOf(n) /\ VersionOf(n) \in Version
<1>1. ASSUME IInv, NEW n \in Names, Exists(n) PROVE VersionOf(n) \in Version
  BY <1>1, DeployedCodeIs DEF VersionOf, Version, IInv, TypeOK, Exists, Function
<1> QED
  BY <1>1, ControlPlaneAssumption DEF Deployed, VersionOf

LEMMA NewlyKnown ==
  ASSUME SInv, Parts', [ServingNext]_servingVars, ~Restart, NEW rev, NEW code, Stands(rev, code)'
  PROVE  Stands(rev, code) \/ Issued(rev, code)
<1> DEFINE InTable == \E n \in Names : Deployed[n] # NoFunction /\ Deployed[n].revision = rev /\ Deployed[n].code = code
           InCalls == \E c \in Callers : call[c] # Nobody /\ call[c].version.revision = rev /\ call[c].version.code = code
           InProcesses == \E h \in Handles : loaded[h] # Nobody /\ env[h].key[2] = rev /\ loaded[h] = code
<1>1. CASE InTable'
  <2>1. [Store!Next]_(Store!storeVars)
    BY ControlPlaneStep, StoreStep DEF SInv, Parts, IInv
  <2>2. PICK n \in Names : Deployed'[n] # NoFunction /\ Deployed'[n].revision = rev /\ Deployed'[n].code = code
    BY <1>1
  <2>3. CASE Deployed'[n] = Deployed[n]
    BY <2>2, <2>3 DEF Stands
  <2>4. CASE Deployed'[n] # Deployed[n]
    <3>1. revs \in Nat
      BY DEF SInv, Parts, IInv, TypeOK
    <3>2. Deployed'[n].revision = revs + 1
      BY <2>1, <2>2, <2>4 DEF Store!Next, Store!Create, Store!Update, Store!Delete, Store!storeVars, Deployed
    <3> QED
      BY <2>2, <3>1, <3>2 DEF Issued
  <2> QED
    BY <2>3, <2>4
<1>2. CASE InCalls'
  <2>1. PICK c \in Callers : call'[c] # Nobody /\ call'[c].version.revision = rev /\ call'[c].version.code = code
    BY <1>2
  <2>2. CASE call'[c] = call[c]
    BY <2>1, <2>2 DEF Stands
  <2>3. CASE call'[c] # call[c]
    <3>1. PICK n \in Names : Resolve(c, n)
      BY <2>1, <2>3, CallersMoveAlone, ClientsMoveAlone, CallersEndOrGoOn
         DEF SInv, Still, GoesOn, Ends, ServingNext, Quiet, servingVars, Calls
    <3>2. Exists(n) /\ call'[c].version = VersionOf(n)
      BY <3>1 DEF Resolve, I!Resolve, RevisionOf, SInv, Calls
    <3> QED
      BY <2>1, <3>2, DeployedIs DEF Stands, VersionOf, SInv, Parts
  <2> QED
    BY <2>2, <2>3
<1>3. CASE InProcesses'
  <2>1. PICK h \in Handles : loaded'[h] # Nobody /\ env'[h].key[2] = rev /\ loaded'[h] = code
    BY <1>3
  <2>2. CASE IP!Alive(h) /\ loaded'[h] = loaded[h] /\ env'[h].key = env[h].key
    BY <2>1, <2>2 DEF Stands
  <2>3. CASE \E c \in Callers : call[c] # Nobody /\ env'[h].key = key[c] /\ loaded'[h] = call[c].version.code
    BY <2>1, <2>3 DEF Stands, SInv, Calls, Knows
  <2> QED
    BY <2>1, <2>2, <2>3, LoadsOwnCode DEF SInv
<1> QED
  BY <1>1, <1>2, <1>3 DEF Stands

LEMMA OneCodeKept == ASSUME SInv, Parts', [ServingNext]_servingVars PROVE OneCode'
<1>1. CASE Restart
  <2>1. ASSUME NEW rev, NEW code, Stands(rev, code)' PROVE Stands(rev, code)
    <3>1. Deployed' = Deployed
      BY <1>1, DeployedUnchanged DEF Restart, db, SInv, Parts
    <3> QED
      BY <1>1, <2>1, <3>1 DEF Stands, Restart
  <2> QED
    BY <1>1, <2>1 DEF OneCode, SInv, Restart, db
<1>2. CASE ~Restart
  <2>1. revs' >= revs /\ revs \in Nat /\ revs' \in Nat
    BY <1>2, ControlPlaneStep, FreshIds DEF SInv, Parts, IInv, TypeOK
  <2>2. ASSUME NEW rev, NEW a, NEW b, Stands(rev, a)', Stands(rev, b)' PROVE a = b
    <3>1. CASE Issued(rev, a) /\ Issued(rev, b)
      <4>1. PICK m \in Names : Deployed'[m] # NoFunction /\ Deployed'[m].revision = rev /\ Deployed'[m].code = a
        BY <3>1 DEF Issued
      <4>2. PICK n \in Names : Deployed'[n] # NoFunction /\ Deployed'[n].revision = rev /\ Deployed'[n].code = b
        BY <3>1 DEF Issued
      <4>3. m = n
        BY <4>1, <4>2 DEF Deployed, Parts, IInv, RevisionsUnique, Exists
      <4> QED
        BY <4>1, <4>2, <4>3
    <3>2. Stands(rev, a) /\ Stands(rev, b) => a = b
      BY DEF SInv, OneCode
    <3>3. ~(Stands(rev, a) /\ Issued(rev, b)) /\ ~(Issued(rev, a) /\ Stands(rev, b))
      BY <2>1 DEF SInv, OneCode, Issued
    <3> QED
      BY <1>2, <2>2, <3>1, <3>2, <3>3, NewlyKnown
  <2>3. ASSUME NEW rev, NEW a, Stands(rev, a)' PROVE rev \in Nat /\ rev <= revs'
    <3>1. CASE Issued(rev, a)
      BY <3>1 DEF Issued, Deployed, Parts, IInv, RevisionsUnique, Exists
    <3>2. CASE Stands(rev, a)
      BY <2>1, <3>2 DEF SInv, OneCode
    <3> QED
      BY <1>2, <2>3, <3>1, <3>2, NewlyKnown
  <2> QED
    BY <2>2, <2>3 DEF OneCode
<1> QED
  BY <1>1, <1>2

-----------------------------------------------------------------------------
LEMMA SInvInitially == ServingInit => SInv
<1> SUFFICES ASSUME ServingInit PROVE SInv
  OBVIOUS
<1> USE DEF ServingInit, I!Init, I!Tasks
<1>1. Calls /\ Cold
  BY DEF Calls, Cold, Found
<1>2. Loaded
  BY DEF Loaded, IP!Alive
<1>3. \A rev, code : ~Stands(rev, code)
  BY DEF Stands, Init, Deployed, Exists
<1> QED
  BY <1>1, <1>2, <1>3, PartsInitially DEF SInv, OneCode

LEMMA SInvKept == SInv /\ [ServingNext]_servingVars => SInv'
BY PartsKept, CallsKept, ColdKept, LoadedKept, OneCodeKept DEF SInv

LEMMA SInvHolds == ServingSpec => []SInv
BY SInvInitially, SInvKept, PTL DEF ServingSpec

(* Every variable keeps its type along every behaviour of the daemon.       *)
THEOREM ServingTypeCorrect == ServingSpec => []ServingTypeOK
<1>1. ServingInit => steady \subseteq Callers
  BY DEF ServingInit
<1>2. steady \subseteq Callers /\ [ServingNext]_servingVars => (steady \subseteq Callers)'
  BY DEF ServingNext, Watch, Quiet, servingVars
<1>3. SInv /\ steady \subseteq Callers => ServingTypeOK
  BY DEF SInv, Parts, IInv, IP!IInv, IP!Shape, IP!TypeOK, I!TypeOK, IP!Envs, I!Envs, IP!Keys, I!Keys, IP!Revisions, I!Revisions,
     IP!Jobs, I!Jobs, IP!Tasks, I!Tasks, IP!CallerPcs, I!CallerPcs, IP!AdminPcs, I!AdminPcs, Cold, Loaded, ServingTypeOK
<1> QED
  BY <1>1, <1>2, <1>3, SInvHolds, PTL DEF ServingSpec

(* A call runs the code that was deployed when it resolved its function:    *)
(* however updates, deletes, cleanups, restarts and other calls come between *)
(* its lookups of the row, the artifact, the blob and the environment.       *)
THEOREM RunsItsVersion == ServingSpec => []RunsResolvedCode
BY SInvHolds, RunsIt, PTL

-----------------------------------------------------------------------------
(* What an invalidation works on are the environments of one function, the  *)
(* one whose change it applies.                                             *)
Invalidates(a) ==
  /\ pc[a] # "idle" => key[a] \in Names \cup IP!Keys
  /\ pc[a] = "sweep" => key[a] \in Names
  /\ pc[a] = "remove" => key[a] \in IP!Keys
  /\ \A h \in swept[a] : pc[a] # "idle" /\ env[h].key[1] = Changing(a)
OwnKeys == \A a \in Clients : Invalidates(a)

LEMMA KeysAreNot == /\ \A k \in IP!Keys : k \notin Names /\ k[1] \in Names
                    /\ \A n \in Names : n # Nobody
BY ServingAssumption, InvokerAssumed DEF IP!Keys, IP!Revisions, IP!InvokerAssumption

LEMMA ClientsStandAside ==
  ASSUME Parts, NEW a \in Clients, ClientStep(a), NEW b \in Clients \ {a}
  PROVE  pc'[b] = pc[b] /\ key'[b] = key[b] /\ swept'[b] = swept[b]
<1>1. /\ pc \in [I!Tasks -> IP!CallerPcs \cup IP!AdminPcs] /\ b \in I!Tasks
      /\ key \in [I!Tasks -> IP!Keys \cup Names \cup {Nobody}] /\ swept \in [Clients -> SUBSET Handles]
  BY DEF Parts, IP!IInv, IP!Shape, IP!TypeOK, IP!Tasks, I!Tasks
<1> QED
  BY <1>1 DEF ClientStep, Request, CommitNew, CommitUpdate, CommitDelete, Invalidate, invokerVars, I!Create, I!Change,
     I!Sweep, I!RemoveRoot, I!Done, I!Retire, I!Goto

LEMMA OwnKeysKept == ASSUME SInv, SInv', OwnKeys, [ServingNext]_servingVars PROVE OwnKeys'
<1>0. /\ pc \in [I!Tasks -> IP!CallerPcs \cup IP!AdminPcs] /\ \A a \in Clients : a \in I!Tasks
      /\ key \in [I!Tasks -> IP!Keys \cup Names \cup {Nobody}] /\ swept \in [Clients -> SUBSET Handles]
      /\ \A a \in Clients : \A h \in swept[a] : env[h] # Nobody
      /\ \A a \in Clients : \A h \in swept'[a] : env'[h] # Nobody
  BY DEF SInv, Parts, IP!IInv, IP!Shape, IP!TypeOK, IP!Tasks, I!Tasks, IP!Swept
<1>1. ASSUME ~Restart, NEW h \in Handles, env[h] # Nobody, env'[h] # Nobody PROVE env'[h].key = env[h].key
  <2>1. [IP!Next]_(IP!vars)
    BY <1>1, InvokerStep DEF SInv, Parts, IInv
  <2> QED
    BY <1>1, <2>1, InvokerAssumed, IP!EnvironmentsStay DEF SInv, Parts
<1>2. ASSUME ~Restart, NEW b \in Clients, pc'[b] = pc[b], key'[b] = key[b], swept'[b] = swept[b]
      PROVE  Invalidates(b)'
  BY <1>0, <1>1, <1>2 DEF OwnKeys, Invalidates, Changing
<1>3. ASSUME ~Restart, NEW a \in Clients, ClientStep(a) PROVE Invalidates(a)'
  <2>1. CASE Request(a) \/ CommitNew(a)
    BY <1>2, <1>3, <2>1 DEF Request, CommitNew, I!Create, invokerVars
  <2>2. ASSUME NEW n \in Names, I!Change(a, n) PROVE Invalidates(a)'
    BY <1>0, <2>2 DEF I!Change, I!Goto, OwnKeys, Invalidates
  <2>3. CASE I!Sweep(a)
    <3>1. pc[a] = "sweep" /\ pc'[a] = "retire" /\ key'[a] = key[a] /\ key[a] \in Names /\ env' = env
      BY <1>0, <2>3 DEF I!Sweep, I!Goto, OwnKeys, Invalidates
    <3>2. swept'[a] = {envs[k] : k \in {k \in IP!Keys : k[1] = key[a]}} \ {Nobody}
      BY <1>0, <2>3 DEF I!Sweep, I!Keys, IP!Keys, I!Revisions, IP!Revisions
    <3>3. \A h \in swept'[a] : env[h].key[1] = key[a]
      BY <3>2 DEF SInv, Parts, IP!IInv, IP!RegisteredIsNotRetired
    <3> QED
      BY <3>1, <3>3 DEF Invalidates, Changing
  <2>4. ASSUME NEW h \in Handles, I!Retire(a, h) PROVE Invalidates(a)'
    <3>1. /\ pc[a] = "retire" /\ pc'[a] = "remove" /\ key'[a] = env[h].key /\ h \in swept[a]
          /\ swept'[a] \subseteq swept[a]
      BY <1>0, <2>4 DEF I!Retire, I!Goto
    <3>2. env[h].key \in IP!Keys /\ env[h].key[1] = Changing(a)
      BY <1>0, <3>1 DEF OwnKeys, Invalidates, SInv, Parts, IP!IInv, IP!Shape, IP!TypeOK, IP!Envs
    <3>3. Changing(a)' = Changing(a)
      BY <3>1, <3>2, KeysAreNot DEF Changing
    <3> QED
      BY <1>0, <1>1, <1>3, <3>1, <3>2, <3>3 DEF OwnKeys, Invalidates
  <2>5. CASE I!RemoveRoot(a)
    <3>1. pc[a] = "remove" /\ pc'[a] = "retire" /\ key'[a] = key[a] /\ env' = env /\ swept' = swept
      BY <1>0, <2>5 DEF I!RemoveRoot, I!Goto
    <3> QED
      BY <3>1 DEF OwnKeys, Invalidates, Changing
  <2>6. CASE I!Done(a)
    BY <1>0, <2>6 DEF I!Done, I!Goto, Invalidates
  <2>7. req[a].name \in Names \/ ~CommitUpdate(a)
    BY DEF CommitUpdate, UpdateCommit, SInv, Parts, IInv, TypeOK, Idle, Requests, Lookups
  <2> QED
    BY <1>3, <2>1, <2>2, <2>3, <2>4, <2>5, <2>6, <2>7 DEF ClientStep, CommitUpdate, CommitDelete, Invalidate
<1>4. CASE Restart
  BY <1>4 DEF Restart, OwnKeys, Invalidates, I!Tasks
<1>5. ASSUME ~Restart, NEW a \in Clients, ClientStep(a) PROVE OwnKeys'
  BY <1>2, <1>3, <1>5, ClientsStandAside DEF OwnKeys, SInv
<1>6. ASSUME ~Restart, swept' = swept, \A a \in Clients : pc'[a] = pc[a] /\ key'[a] = key[a] PROVE OwnKeys'
  BY <1>2, <1>6 DEF OwnKeys
<1> QED
  BY <1>4, <1>5, <1>6, CallersMoveAlone DEF SInv, ServingNext, Quiet, servingVars, invokerVars

(* Each thread unpacks for the caller that waits for it, who notices when   *)
(* the directory is removed.                                                *)
Unpackings == \A j \in jobs : j.owner \in Callers /\ j.key = key[j.owner] /\ (j.torn => j.owner \notin steady)

LEMMA UnpackingsKept ==
  ASSUME SInv, SInv', OwnKeys, OwnKeys', Unpackings, [ServingNext]_servingVars PROVE Unpackings'
<1>0. \A j \in jobs : /\ j.owner \in Callers /\ pc[j.owner] = "unpack" /\ j.key = key[j.owner]
                      /\ call[j.owner] # Nobody /\ key[j.owner] = <<call[j.owner].name, call[j.owner].version.revision>>
  BY ServingAssumption DEF Unpackings, SInv, Parts, IP!IInv, IP!Threads, Calls, Knows
<1>1. ASSUME Watch, NEW c \in steady'
      PROVE  c \in Callers /\ (c \in steady \/ call[c] = Nobody) /\ \A a \in Clients : Changing(a)' # call'[c].name
  BY <1>1 DEF Watch, AtRest
<1>2. ASSUME Watch, NEW d \in Callers, NEW j \in jobs, j.owner = d, key'[d] = key[d]
      PROVE  j.key = key'[d] /\ (j.torn => d \notin steady')
  BY <1>0, <1>1, <1>2 DEF Unpackings
<1>3. ASSUME Watch, NEW a \in Clients, ClientStep(a) PROVE Unpackings'
  <2>1. \A c \in Callers : Still(c)
    BY <1>3, ClientsMoveAlone DEF SInv
  <2>2. CASE jobs' = jobs
    BY <1>0, <1>2, <1>3, <2>1, <2>2 DEF Unpackings, Still
  <2>3. CASE I!RemoveRoot(a)
    <3>1. pc'[a] = "retire" /\ key'[a] = key[a] /\ key[a] \in IP!Keys
      BY <2>3 DEF I!RemoveRoot, I!Goto, OwnKeys, Invalidates, SInv, Parts, IP!IInv, IP!Shape, IP!TypeOK, IP!Tasks
    <3>2. Changing(a)' = key[a][1]
      BY <3>1, KeysAreNot DEF Changing
    <3>3. ASSUME NEW j \in jobs, j.key = key[a] PROVE j.owner \notin steady'
      <4>1. j.owner \in Callers /\ key[a][1] = call[j.owner].name
        BY <1>0, <3>3
      <4> QED
        BY <1>1, <1>3, <2>1, <3>2, <4>1 DEF Still
    <3>4. jobs' = {IF j.key = key[a] THEN [key |-> j.key, owner |-> j.owner, torn |-> TRUE] ELSE j : j \in jobs}
      BY <2>3 DEF I!RemoveRoot
    <3> QED
      BY <1>0, <1>2, <1>3, <2>1, <3>3, <3>4 DEF Unpackings, Still
  <2> QED
    BY <1>3, <2>2, <2>3 DEF ClientStep, Request, CommitNew, CommitUpdate, CommitDelete, Invalidate, invokerVars, I!Create,
       I!Change, I!Sweep, I!Done, I!Retire, I!roots
<1>4. ASSUME Watch, NEW c \in Callers, CallerStep(c) PROVE Unpackings'
  <2>1. /\ \A d \in Callers \ {c} : key'[d] = key[d]
        /\ pc'[c] # "idle" => key'[c] = key[c]
    BY <1>4, CallersMoveAlone, CallersEndOrGoOn DEF SInv, Still, GoesOn, Ends
  <2>2. ASSUME jobs' \subseteq jobs, pc'[c] = "idle" => \A j \in jobs' : j.owner # c PROVE Unpackings'
    BY <1>0, <1>2, <1>4, <2>1, <2>2 DEF Unpackings
  <2>3. ASSUME Refuse(c) PROVE Unpackings'
    BY <2>2, <2>3 DEF Refuse
  <2>4. CASE ReadBlob(c) /\ ~Refuse(c)
    <3>1. jobs' = jobs \cup {[key |-> key[c], owner |-> c, torn |-> FALSE]} /\ key' = key
      BY <2>4 DEF ReadBlob, I!StartUnpack
    <3> QED
      BY <1>0, <1>2, <1>4, <3>1 DEF Unpackings
  <2>5. ASSUME NEW j \in jobs, Unpacked(c, j), ~Refuse(c) PROVE Unpackings'
    <3>1. jobs' = jobs \ {j} /\ key' = key
      BY <2>5 DEF Unpacked, I!FinishUnpack
    <3> QED
      BY <1>0, <1>2, <1>4, <3>1 DEF Unpackings
  <2>6. CASE LockEnv(c) /\ ~Refuse(c)
    BY <1>0, <2>2, <2>6 DEF LockEnv, I!LockEnv
  <2>7. CASE Respond(c)
    BY <1>0, <2>2, <2>7 DEF Respond, I!Return
  <2>8. jobs' = jobs /\ key' = key => Unpackings'
    BY <1>0, <1>2, <1>4 DEF Unpackings
  <2> QED
    BY <1>4, <2>3, <2>4, <2>5, <2>6, <2>7, <2>8
       DEF CallerStep, Lookup, I!LookupRead, I!LookupWrite, FindArtifact, VerifyBlob, Spawn, I!Register, I!Replace, I!roots,
           invokerVars
<1>5. ASSUME Watch, NEW c \in Callers, NEW n \in Names, Resolve(c, n) PROVE Unpackings'
  <2>1. jobs' = jobs /\ pc[c] = "idle" /\ \A d \in Callers \ {c} : key'[d] = key[d]
    BY <1>5, CallersMoveAlone DEF Resolve, I!Resolve, I!roots, Still, SInv
  <2> QED
    BY <1>0, <1>2, <1>5, <2>1 DEF Unpackings
<1>6. CASE Restart
  BY <1>6 DEF Restart, Unpackings
<1>7. CASE UNCHANGED servingVars
  BY <1>7 DEF servingVars, invokerVars, Unpackings
<1> QED
  BY <1>3, <1>4, <1>5, <1>6, <1>7 DEF ServingNext, Quiet

(* A call that nothing has disturbed is at rest, on an environment that is  *)
(* not retired.                                                             *)
Rests ==
  \A c \in steady :
    /\ c \in Callers /\ call[c] # Nobody /\ AtRest(c)
    /\ handle[c] # Nobody => ~env[handle[c]].retired

(* Nothing but resolving is happening.                                      *)
Calm ==
  /\ UNCHANGED <<functions, artifacts, blobs, env, jobs, full>>
  /\ \A a \in Clients : pc'[a] = pc[a] /\ key'[a] = key[a]
  /\ \A c \in Callers : (pc'[c] = "spawn" <=> pc[c] = "spawn") /\ (pc[c] = "spawn" => key'[c] = key[c])

LEMMA SpoiledStays == ASSUME Calm PROVE Spoiled' = Spoiled
<1>1. \A k : Torn(k)' <=> Torn(k)
  BY DEF Calm, Torn
<1> QED
  BY SMTT(30), <1>1 DEF Calm, Spoiled, Exists, DeployedCode

LEMMA AtRestStays == ASSUME Calm, NEW d \in Callers, call'[d] = call[d] PROVE AtRest(d)' <=> AtRest(d)
<1>1. \A a \in Clients : Changing(a)' = Changing(a)
  BY DEF Calm, Changing
<1>2. \A n \in Names : DeployedCode(n)' = DeployedCode(n) /\ VersionOf(n)' = VersionOf(n) /\ (Exists(n)' <=> Exists(n))
  BY DEF Calm, DeployedCode, VersionOf, Exists
<1>3. functions' = functions
  BY DEF Calm
<1> QED
  BY <1>1, <1>2, <1>3, SpoiledStays DEF AtRest, Exists, VersionOf, DeployedCode, Calm

LEMMA RestsKept == ASSUME SInv, SInv', OwnKeys', Rests, [ServingNext]_servingVars PROVE Rests'
<1>1. CASE UNCHANGED servingVars
  <2>1. Calm /\ UNCHANGED <<call, handle, steady>>
    BY <1>1 DEF Calm, servingVars, vars, invokerVars
  <2> QED
    BY <2>1, AtRestStays DEF Rests, Calm
<1>2. ASSUME Watch, NEW c \in steady'
      PROVE  c \in Callers /\ call'[c] # Nobody /\ (c \in steady \/ call[c] = Nobody) /\ AtRest(c)'
  BY <1>2 DEF Watch
<1>3. ASSUME Watch, NEW c \in steady', handle'[c] # Nobody PROVE ~env'[handle'[c]].retired
  <2>0. c \in Callers /\ call'[c] # Nobody
    BY <1>2, <1>3
  <2>1. ~Restart
    BY <2>0 DEF Restart
  <2>2. [IP!Next]_(IP!vars)
    BY <2>1, InvokerStep DEF SInv, Parts, IInv
  <2>3. CASE handle'[c] # handle[c]
    BY <1>3, <2>0, <2>2, <2>3, InvokerAssumed, IP!TakesLive DEF SInv, Parts
  <2>4. CASE handle'[c] = handle[c]
    <3>1. /\ handle[c] \in Handles /\ env[handle[c]] # Nobody /\ env'[handle[c]] # Nobody
          /\ env[handle[c]].key = key[c] /\ env'[handle[c]].key = key'[c] /\ pc[c] # "idle"
      BY <1>3, <2>0, <2>4 DEF SInv, Parts, IP!IInv, IP!Shape, IP!TypeOK, IP!Held
    <3>2. ~env[handle[c]].retired
      BY <1>2, <1>3, <2>0, <2>4, <3>1 DEF Rests, SInv, Calls
    <3>3. key'[c][1] = call'[c].name
      BY <2>0 DEF SInv, Calls, Knows
    <3>4. ASSUME NEW a \in Clients, IP!Retires(a, handle[c]) PROVE FALSE
      <4>1. pc'[a] = "remove" /\ key'[a] = key[c] /\ key[c] = key'[c]
        <5>1. env'[handle[c]].key = env[handle[c]].key
          BY <2>2, <3>1, InvokerAssumed, IP!EnvironmentsStay DEF SInv, Parts
        <5> QED
          BY <3>1, <3>4, <5>1 DEF IP!Retires
      <4>2. key'[a] \in IP!Keys
        BY <4>1 DEF OwnKeys, Invalidates
      <4>3. Changing(a)' = call'[c].name
        BY <3>3, <4>1, <4>2, KeysAreNot DEF Changing
      <4> QED
        BY <1>2, <1>3, <4>3 DEF AtRest
    <3> QED
      BY <2>2, <2>4, <3>1, <3>2, <3>4, InvokerAssumed, IP!EnvironmentsStay DEF SInv, Parts
  <2> QED
    BY <2>3, <2>4
<1> QED
  BY <1>1, <1>2, <1>3 DEF ServingNext, Quiet, Rests

-----------------------------------------------------------------------------
(* What a call at rest needs is where its cold start looks for it.          *)
LEMMA AtRestHas ==
  ASSUME SInv, Rests, NEW c \in steady
  PROVE  /\ HasRow(call[c].artifact)
         /\ call[c].version.code \in blobs
         /\ ~Torn(key[c])
         /\ ValidCode(call[c].version.code, call[c].version.runtime)
<1> DEFINE n == call[c].name
<1>1. c \in Callers /\ call[c] \in Resolved /\ n \in Names /\ Knows(c) /\ AtRest(c)
  BY ServingAssumption DEF Rests, SInv, Calls, Resolved
<1>2. Exists(n) /\ VersionOf(n) = call[c].version /\ functions[n].revision \notin Spoiled
      /\ ValidCode(DeployedCode(n), functions[n].runtime)
  BY <1>1 DEF AtRest
<1>3. /\ functions[n].revision = call[c].version.revision /\ DeployedCode(n) = call[c].version.code
      /\ functions[n].runtime = call[c].version.runtime
  BY <1>2 DEF VersionOf
<1>4. functions[n].artifact = call[c].artifact /\ HasRow(functions[n].artifact)
  BY <1>1, <1>2, <1>3 DEF Knows, SInv, Parts, IInv, ReferentialIntegrity
<1>5. DeployedCode(n) \in blobs /\ ~Torn(<<n, functions[n].revision>>)
  BY <1>1, <1>2 DEF Spoiled
<1>6. key[c] = <<n, functions[n].revision>>
  BY <1>1, <1>3 DEF Knows
<1> QED
  BY <1>2, <1>3, <1>4, <1>5, <1>6

(* So it is not refused.                                                    *)
LEMMA SteadyIsServed ==
  ASSUME SInv, Unpackings, Rests, NEW c \in steady, CallerStep(c), Ends(c)
  PROVE  pc[c] = "run"
<1>0. /\ c \in Callers /\ pc[c] # "idle" /\ pc'[c] = "idle"
      /\ handle[c] # Nobody => ~env[handle[c]].retired
  BY DEF Rests, Ends
<1>1. /\ pc \in [I!Tasks -> IP!CallerPcs \cup IP!AdminPcs] /\ c \in I!Tasks
      /\ \A j \in jobs : j.owner = c => pc[c] = "unpack"
  BY <1>0, CallerAt DEF SInv
<1>2. package[c] # Nobody => package[c] = call[c].version.code
  BY <1>0 DEF SInv, Cold, Found
<1>3. CASE Lookup(c)
  BY <1>0, <1>1, <1>3 DEF Lookup, I!LookupRead, I!LookupWrite, I!Found, I!Goto
<1>4. CASE FindArtifact(c)
  BY <1>0, <1>1, <1>4, AtRestHas DEF FindArtifact, invokerVars
<1>5. CASE VerifyBlob(c)
  BY <1>0, <1>1, <1>2, <1>5, AtRestHas DEF VerifyBlob, invokerVars
<1>6. CASE ReadBlob(c)
  <2>1. package[c] # Nobody
    BY <1>0, <1>6 DEF ReadBlob, SInv, Cold, Found
  <2> QED
    BY <1>0, <1>1, <1>2, <1>6, <2>1, AtRestHas DEF ReadBlob, I!StartUnpack, I!Goto
<1>7. ASSUME NEW j \in jobs, Unpacked(c, j) PROVE FALSE
  <2>1. package[c] # Nobody /\ ~j.torn
    BY <1>0, <1>1, <1>7 DEF Unpacked, SInv, Cold, Found, Unpackings
  <2> QED
    BY <1>0, <1>1, <1>2, <1>7, <2>1, AtRestHas, ServingAssumption DEF Unpacked, I!FinishUnpack
<1>8. CASE Spawn(c)
  BY <1>0, <1>1, <1>8, AtRestHas DEF Spawn, I!Register, I!Replace, I!Goto, Torn
<1>9. CASE LockEnv(c)
  BY <1>0, <1>1, <1>9 DEF LockEnv, SInv, Parts, IP!IInv, IP!Shape
<1>10. CASE Respond(c)
  BY <1>10 DEF Respond, I!Return
<1> QED
  BY <1>3, <1>4, <1>5, <1>6, <1>7, <1>8, <1>9, <1>10 DEF CallerStep

-----------------------------------------------------------------------------
(* What LambdaService sees of a call.                                       *)
AsCall(c) ==
  IF call[c] = Nobody THEN Nobody
  ELSE [name |-> call[c].name, version |-> call[c].version, steady |-> c \in steady,
        runs |-> IF pc[c] = "run" THEN loaded[handle[c]] ELSE Nobody]

LEMMA AsCallIs ==
  ASSUME SInv, NEW c \in Callers, call[c] # Nobody
  PROVE  /\ AsCall(c) # Nobody
         /\ AsCall(c) = [name |-> call[c].name, version |-> call[c].version, steady |-> c \in steady,
                         runs |-> IF pc[c] = "run" THEN call[c].version.code ELSE Nobody]
<1>1. call[c] \in Resolved /\ call[c].version.code \in Blobs
  BY DEF SInv, Calls, Resolved, Version
<1>2. AsCall(c) = [name |-> call[c].name, version |-> call[c].version, steady |-> c \in steady,
                   runs |-> IF pc[c] = "run" THEN call[c].version.code ELSE Nobody]
  BY RunsIt DEF AsCall, RunsResolvedCode
<1>3. AsCall(c) \in [name : Names, version : Version, steady : BOOLEAN, runs : Blobs \cup {Nobody}]
  BY <1>1, <1>2 DEF Resolved
<1> QED
  BY <1>2, <1>3, ServingAssumption

LEMMA AsCallIsNext ==
  SInv' => (\A c \in Callers : call[c] # Nobody =>
              AsCall(c) = [name |-> call[c].name, version |-> call[c].version, steady |-> c \in steady,
                           runs |-> IF pc[c] = "run" THEN call[c].version.code ELSE Nobody])'
<1>1. SInv => \A c \in Callers : call[c] # Nobody =>
        AsCall(c) = [name |-> call[c].name, version |-> call[c].version, steady |-> c \in steady,
                     runs |-> IF pc[c] = "run" THEN call[c].version.code ELSE Nobody]
  BY AsCallIs
<1> QED
  BY <1>1, PTL

LEMMA DeployedIsNext ==
  IInv' => (\A n \in Names :
              /\ Deployed[n] # NoFunction <=> Exists(n)
              /\ Exists(n) => Deployed[n] = VersionOf(n) /\ VersionOf(n) \in Version)'
BY DeployedIs, PTL

(* The two specifications agree on which calls are at rest...               *)
LEMMA AtRestIs ==
  ASSUME IInv', NEW c \in Callers, NEW n \in Names, NEW v \in Version,
         call'[c].name = n, call'[c].version = v, NEW r, r.name = n, r.version = v
  PROVE  AtRest(c)' <=> S!AtRest(r)
<1>1. v # NoFunction
  BY ControlPlaneAssumption
<1>2. Exists(n)' /\ VersionOf(n)' = v <=> Deployed'[n] = v
  BY <1>1, DeployedIsNext
<1>3. VersionOf(n)' = v =>
        /\ functions'[n].revision = v.revision
        /\ DeployedCode(n)' = v.code /\ functions'[n].runtime = v.runtime
  BY DEF VersionOf
<1>4. (\A a \in Clients : Changing(a)' # n) <=> (\A a \in Clients : [b \in Clients |-> Changing(b)]'[a] # n)
  OBVIOUS
<1> QED
  BY <1>1, <1>2, <1>3, <1>4 DEF AtRest, S!AtRest, ValidCode, S!ValidCode

LEMMA WatchedRecord ==
  ASSUME NEW r, NEW n, NEW v, NEW s \in BOOLEAN, NEW k, r = [name |-> n, version |-> v, steady |-> s, runs |-> k],
         r # Nobody, NEW b \in BOOLEAN, b <=> s /\ S!AtRest(r)
  PROVE  S!Watched(r) = [name |-> n, version |-> v, steady |-> b, runs |-> k]
<1>1. S!Watched(r) = [r EXCEPT !.steady = r.steady /\ S!AtRest(r)]
  BY DEF S!Watched
<1>2. (r.steady /\ S!AtRest(r)) = b
  <2>1. r.steady = s
    OBVIOUS
  <2> QED
    BY <2>1
<1>3. S!Watched(r) = [r EXCEPT !.steady = b]
  BY <1>1, <1>2
<1> QED
  BY <1>3

(* ... and so on what becomes of a call that a step does not end.           *)
LEMMA WatchedAs ==
  ASSUME SInv, SInv', Watch, NEW c \in Callers, call'[c] = call[c], call[c] # Nobody
  PROVE  S!Watched(AsCall(c)) = [name |-> call[c].name, version |-> call[c].version, steady |-> c \in steady',
                                 runs |-> IF pc[c] = "run" THEN call[c].version.code ELSE Nobody]
<1>1. /\ AsCall(c) # Nobody
      /\ AsCall(c) = [name |-> call[c].name, version |-> call[c].version, steady |-> c \in steady,
                      runs |-> IF pc[c] = "run" THEN call[c].version.code ELSE Nobody]
  BY AsCallIs
<1>2. c \in steady' <=> c \in steady /\ S!AtRest(AsCall(c))
  <2>1. /\ call[c].name \in Names /\ call[c].version \in Version
        /\ AsCall(c).name = call[c].name /\ AsCall(c).version = call[c].version
    BY <1>1 DEF SInv, Calls, Resolved
  <2>2. AtRest(c)' <=> S!AtRest(AsCall(c))
    BY <2>1, AtRestIs DEF SInv, Parts
  <2> QED
    BY <2>2 DEF Watch
<1>3. PICK s \in BOOLEAN : s = (c \in steady)
  BY (c \in steady) \in BOOLEAN, Zenon
<1>4. PICK b \in BOOLEAN : b = (c \in steady')
  BY (c \in steady') \in BOOLEAN, Zenon
<1>5. PICK k : k = IF pc[c] = "run" THEN call[c].version.code ELSE Nobody
  OBVIOUS
<1>6. AsCall(c) = [name |-> call[c].name, version |-> call[c].version, steady |-> s, runs |-> k]
  BY <1>1, <1>3, <1>5
<1>7. b <=> s /\ S!AtRest(AsCall(c))
  BY <1>2, <1>3, <1>4
<1>8. S!Watched(AsCall(c)) = [name |-> call[c].name, version |-> call[c].version, steady |-> b, runs |-> k]
  BY <1>1, <1>6, <1>7, WatchedRecord
<1> QED
  BY <1>4, <1>5, <1>8

LEMMA WatchedIs ==
  ASSUME SInv, SInv', Watch, NEW c \in Callers, call'[c] = call[c], pc'[c] = "run" <=> pc[c] = "run"
  PROVE  AsCall(c)' = S!Watched(AsCall(c))
<1>1. CASE call[c] = Nobody
  BY <1>1 DEF AsCall, S!Watched
<1>2. CASE call[c] # Nobody
  <2>1. AsCall(c)' = [name |-> call'[c].name, version |-> call'[c].version, steady |-> c \in steady',
                      runs |-> IF pc'[c] = "run" THEN call'[c].version.code ELSE Nobody]
    BY <1>2, AsCallIsNext
  <2> QED
    BY <1>2, <2>1, WatchedAs
<1> QED
  BY <1>1, <1>2

-----------------------------------------------------------------------------
(* The steps of the daemon are steps of LambdaService.                      *)
LEMMA SpoiledIssued == IInv => Spoiled \in SUBSET (1..revs)
BY DEF IInv, RevisionsUnique, Spoiled

LEMMA SpoiledIssuedNext == IInv' => (Spoiled \in SUBSET (1..revs))'
BY SpoiledIssued, PTL

LEMMA AllWatched ==
  ASSUME \A c \in Callers : AsCall(c)' = S!Watched(AsCall(c)) PROVE S!Watch
BY DEF S!Watch, AsCall

LEMMA ChangingMoves ==
  ASSUME SInv, OwnKeys, NEW a \in Clients, ClientStep(a)
  PROVE  /\ \A b \in Clients \ {a} : Changing(b)' = Changing(b)
         /\ Request(a) \/ CommitNew(a) => Changing(a)' = Changing(a)
         /\ \A n \in Names : I!Change(a, n) => Changing(a) = Nobody /\ Changing(a)' = n
         /\ I!Sweep(a) \/ I!RemoveRoot(a) \/ (\E h \in Handles : I!Retire(a, h)) => Changing(a)' = Changing(a)
         /\ I!Done(a) => Changing(a) # Nobody /\ Changing(a)' = Nobody
<1>0. /\ pc \in [I!Tasks -> IP!CallerPcs \cup IP!AdminPcs] /\ a \in I!Tasks
      /\ key \in [I!Tasks -> IP!Keys \cup Names \cup {Nobody}]
      /\ \A h \in swept[a] : h \in Handles /\ env[h] # Nobody
      /\ \A h \in Handles : env[h] # Nobody => env[h].key \in IP!Keys
  BY DEF SInv, Parts, IP!IInv, IP!Shape, IP!TypeOK, IP!Tasks, I!Tasks, IP!Swept, IP!Envs
<1>1. \A b \in Clients \ {a} : Changing(b)' = Changing(b)
  BY ClientsStandAside DEF SInv, Changing
<1>2. ASSUME Request(a) \/ CommitNew(a) PROVE Changing(a)' = Changing(a)
  BY <1>2 DEF Request, CommitNew, I!Create, invokerVars, Changing
<1>3. ASSUME NEW n \in Names, I!Change(a, n) PROVE Changing(a) = Nobody /\ Changing(a)' = n
  BY <1>0, <1>3 DEF I!Change, I!Goto, Changing
<1>4. ASSUME I!Sweep(a) \/ I!RemoveRoot(a) PROVE Changing(a)' = Changing(a)
  BY <1>0, <1>4 DEF I!Sweep, I!RemoveRoot, I!Goto, Changing
<1>5. ASSUME NEW h \in Handles, I!Retire(a, h) PROVE Changing(a)' = Changing(a)
  <2>1. pc[a] = "retire" /\ pc'[a] = "remove" /\ key'[a] = env[h].key /\ h \in swept[a]
    BY <1>0, <1>5 DEF I!Retire, I!Goto
  <2>2. env[h].key \in IP!Keys /\ env[h].key[1] = Changing(a)
    BY <1>0, <2>1 DEF OwnKeys, Invalidates
  <2> QED
    BY <2>1, <2>2, KeysAreNot DEF Changing
<1>6. ASSUME I!Done(a) PROVE Changing(a) # Nobody /\ Changing(a)' = Nobody
  BY <1>0, <1>6, KeysAreNot DEF I!Done, I!Goto, Changing, OwnKeys, Invalidates
<1> QED
  BY <1>1, <1>2, <1>3, <1>4, <1>5, <1>6

LEMMA ClientServed ==
  ASSUME SInv, SInv', OwnKeys, NEW a \in Clients, ClientStep(a), Watch PROVE S!ClientStep
<1>1. S!Watch
  <2>1. \A c \in Callers : AsCall(c)' = S!Watched(AsCall(c))
    BY ClientsMoveAlone, WatchedIs DEF SInv, Still
  <2> QED
    BY <2>1, AllWatched
<1>2. Spoiled' \in SUBSET (1..revs')
  BY SpoiledIssuedNext DEF SInv, Parts
<1>3. faults' = faults
  BY DEF ClientStep, Request, CommitNew, CommitUpdate, CommitDelete, Invalidate, CreatePrecheck, UpdateRead, PutExists,
     PutRename, Reject, CleanupRow, CleanupLookup, CleanupRemove, DetailsFound, DetailsMissing, CreateCommit, UpdateCommit,
     DeleteFunction, vars
<1>4. IInv /\ IInv' /\ CreatesValid
  BY DEF SInv, Parts
<1> DEFINE Applied == [b \in Clients |-> Changing(b)]
<1>5. ASSUME Changing(a)' = Changing(a) PROVE Applied' = Applied
  BY <1>5, ChangingMoves
<1>6. ASSUME UNCHANGED Store!storeVars, Applied' = Applied PROVE S!Work
  BY <1>6 DEF S!Work, Store!storeVars, S!storeVars
<1>7. ASSUME NEW n \in Names, I!Change(a, n) PROVE Applied[a] = Nobody /\ Applied' = [Applied EXCEPT ![a] = n]
  BY <1>7, ChangingMoves
<1>8. CASE Request(a)
  <2>1. UNCHANGED db \/ CleanupRow(a)
    BY <1>8 DEF Request, CreatePrecheck, UpdateRead, PutExists, PutRename, Reject, CleanupLookup, CleanupRemove,
       DetailsFound, DetailsMissing
  <2>2. S!Work
    BY <1>4, <1>5, <1>6, <1>8, <2>1, NothingStored, ChangingMoves
  <2> QED
    BY <1>1, <1>2, <1>3, <2>2 DEF S!ClientStep
<1>9. CASE CommitNew(a)
  <2>1. /\ req[a].name \in Names /\ req[a].code \in Blobs /\ req[a].runtime \in Runtimes
        /\ Store!Create(req[a].name, req[a].code, req[a].runtime)
    BY <1>4, <1>9, CreateStored DEF CommitNew
  <2>2. S!Create(req[a].name, req[a].code, req[a].runtime)
    BY <2>1 DEF Store!Create, S!Create, Store!ValidCode, S!ValidCode
  <2>3. S!New(req[a].name)
    BY <1>5, <1>9, <2>1, <2>2, ChangingMoves DEF S!New, S!Runtimes, Runtimes
  <2> QED
    BY <1>1, <1>2, <1>3, <2>1, <2>3 DEF S!ClientStep
<1>10. CASE CommitUpdate(a)
  <2>1. /\ req[a].name \in Names /\ req[a].code \in Blobs /\ req[a].expected \in 0..revs
        /\ Store!Update(req[a].name, req[a].code, req[a].expected)
    BY <1>4, <1>10, UpdateStored DEF CommitUpdate
  <2>2. S!Update(req[a].name, req[a].code, req[a].expected)
    BY <2>1 DEF Store!Update, S!Update, Store!NoRevision, S!NoRevision
  <2>3. S!Change(a, req[a].name)
    BY <1>7, <1>10, <2>1, <2>2 DEF S!Change, CommitUpdate
  <2> QED
    BY <1>1, <1>2, <1>3, <2>1, <2>3 DEF S!ClientStep
<1>11. ASSUME NEW n \in Names, CommitDelete(a, n) PROVE S!ClientStep
  <2>1. S!Delete(n)
    BY <1>4, <1>11, DeleteStored DEF CommitDelete, Store!Delete, S!Delete
  <2>2. S!Change(a, n)
    BY <1>7, <1>11, <2>1 DEF S!Change, CommitDelete
  <2> QED
    BY <1>1, <1>2, <1>3, <2>2 DEF S!ClientStep
<1>12. CASE Invalidate(a)
  <2>1. UNCHANGED Store!storeVars
    BY <1>4, <1>12, NothingStored DEF Invalidate, vars, db
  <2>2. CASE I!Done(a)
    <3>1. Applied[a] # Nobody /\ Applied' = [Applied EXCEPT ![a] = Nobody]
      BY <2>2, ChangingMoves
    <3>2. S!Finish(a)
      BY <2>1, <3>1 DEF S!Finish, Store!storeVars, S!storeVars
    <3> QED
      BY <1>1, <1>2, <1>3, <3>2 DEF S!ClientStep
  <2>3. CASE ~I!Done(a)
    <3>1. S!Work
      BY <1>5, <1>6, <1>12, <2>1, <2>3, ChangingMoves DEF Invalidate
    <3> QED
      BY <1>1, <1>2, <1>3, <3>1 DEF S!ClientStep
  <2> QED
    BY <2>2, <2>3
<1> QED
  BY <1>8, <1>9, <1>10, <1>11, <1>12 DEF ClientStep

LEMMA CallerServed ==
  ASSUME SInv, SInv', Unpackings, Rests, NEW c \in Callers, CallerStep(c), Watch PROVE S!ServiceNext
<1> DEFINE calls == [d \in Callers |-> AsCall(d)]
<1>1. /\ \A d \in Callers \ {c} : Still(d)
      /\ \A a \in Clients : Changing(a)' = Changing(a)
  BY CallersMoveAlone DEF SInv, Changing
<1>2. \A d \in Callers \ {c} : AsCall(d)' = S!Watched(AsCall(d))
  BY <1>1, WatchedIs DEF Still
<1>3. Spoiled' \in SUBSET (1..revs) /\ revs' = revs /\ faults' = faults
  BY SpoiledIssuedNext DEF SInv, Parts, CallerStep, vars
<1>4. UNCHANGED Store!storeVars
  BY NothingStored DEF SInv, Parts, CallerStep, vars, db
<1>5. S!Work /\ UNCHANGED S!storeVars
  BY <1>1, <1>4 DEF S!Work, Store!storeVars, S!storeVars
<1>6. call[c] # Nobody
  BY CallersEndOrGoOn DEF SInv, Calls, GoesOn, Ends
<1>7. /\ AsCall(c) # Nobody
      /\ AsCall(c) = [name |-> call[c].name, version |-> call[c].version, steady |-> c \in steady,
                      runs |-> IF pc[c] = "run" THEN call[c].version.code ELSE Nobody]
  BY <1>6, AsCallIs
<1>8. ASSUME S!Run(c) \/ S!End(c) PROVE S!ServiceNext
  BY <1>3, <1>5, <1>8 DEF S!ServiceNext, S!CallerStep, S!Work
<1>9. CASE GoesOn(c)
  <2>1. pc[c] # "run"
    BY <1>9, CallerAt DEF SInv, GoesOn, CallerStep, Lookup, I!LookupRead, I!LookupWrite, FindArtifact, VerifyBlob, ReadBlob,
       I!StartUnpack, Unpacked, Spawn, I!Register, I!Replace, LockEnv, I!LockEnv, Respond, I!Return, I!Leave, I!Goto
  <2>2. CASE pc'[c] # "run"
    <3>1. S!Watch
      BY <1>2, <1>9, <2>1, <2>2, WatchedIs, AllWatched DEF GoesOn
    <3> QED
      BY <1>3, <1>5, <3>1 DEF S!ServiceNext, S!ClientStep
  <2>3. CASE pc'[c] = "run"
    <3>1. S!Watched(AsCall(c)) = [name |-> call[c].name, version |-> call[c].version, steady |-> c \in steady',
                                  runs |-> Nobody]
      BY <1>6, <1>9, <2>1, WatchedAs DEF GoesOn
    <3>2. AsCall(c)' = [name |-> call[c].name, version |-> call[c].version, steady |-> c \in steady',
                        runs |-> call[c].version.code]
      BY <1>6, <1>9, <2>3, AsCallIsNext DEF GoesOn
    <3>3. AsCall(c)' = [S!Watched(AsCall(c)) EXCEPT !.runs = AsCall(c).version.code]
      BY <1>7, <3>1, <3>2
    <3>4. calls' = [d \in Callers |->
            IF d = c THEN [S!Watched(calls[c]) EXCEPT !.runs = calls[c].version.code] ELSE S!Watched(calls[d])]
      BY <1>2, <3>3
    <3>5. calls[c] # Nobody /\ calls[c].runs = Nobody
      BY <1>7, <2>1
    <3>6. S!Run(c)
      BY <3>4, <3>5 DEF S!Run, AsCall
    <3> QED
      BY <1>8, <3>6
  <2> QED
    BY <2>2, <2>3
<1>10. CASE Ends(c)
  <2>1. AsCall(c)' = Nobody
    BY <1>10 DEF Ends, AsCall, SInv, Calls
  <2>2. calls' = [d \in Callers |-> IF d = c THEN Nobody ELSE S!Watched(calls[d])]
    BY <1>2, <2>1
  <2>3. AsCall(c).runs # Nobody \/ ~AsCall(c).steady
    <3>1. CASE pc[c] = "run"
      <4>1. call[c].version.code # Nobody
        BY <1>6, ServingAssumption DEF SInv, Calls, Resolved, Version
      <4> QED
        BY <1>7, <3>1, <4>1
    <3>2. CASE pc[c] # "run"
      <4>1. (c \in steady) = FALSE
        BY <1>10, <3>2, SteadyIsServed
      <4>2. AsCall(c) = [name |-> call[c].name, version |-> call[c].version, steady |-> FALSE,
                         runs |-> IF pc[c] = "run" THEN call[c].version.code ELSE Nobody]
        BY <1>7, <4>1
      <4> QED
        BY <4>2
    <3> QED
      BY <3>1, <3>2
  <2>4. calls[c] # Nobody /\ (calls[c].runs # Nobody \/ ~calls[c].steady)
    BY <1>7, <2>3
  <2>5. S!End(c)
    BY <2>2, <2>4 DEF S!End, AsCall
  <2> QED
    BY <1>8, <2>5
<1> QED
  BY <1>9, <1>10, CallersEndOrGoOn DEF SInv

LEMMA ResolveServed ==
  ASSUME SInv, SInv', Rests, NEW c \in Callers, NEW n \in Names, UNCHANGED vars, Resolve(c, n), Watch
  PROVE  S!ServiceNext
<1> DEFINE calls == [d \in Callers |-> AsCall(d)]
           fresh == [name |-> n, version |-> Deployed[n], steady |-> TRUE, runs |-> Nobody]
<1>1. \A d \in Callers \ {c} : Still(d)
  BY CallersMoveAlone DEF SInv
<1>2. Exists(n) /\ call[c] = Nobody /\ pc[c] = "idle" /\ pc'[c] = "lookup" /\ call'[c] # Nobody
  BY ResolveKnows DEF Resolve, I!Resolve, RevisionOf, SInv, Calls
<1>3. call'[c].name = n /\ call'[c].version = VersionOf(n)
  BY <1>2 DEF Resolve, SInv, Calls
<1>4. Deployed[n] = VersionOf(n) /\ Deployed[n] \in Version /\ Deployed[n] # NoFunction
  BY <1>2, DeployedIs DEF SInv, Parts
<1>5. Calm
  BY <1>1, <1>2, CallersMoveAlone DEF Calm, Still, SInv, Resolve, I!Resolve, I!roots, vars
<1>6. ASSUME NEW d \in Callers \ {c} PROVE AsCall(d)' = AsCall(d)
  <2>1. CASE call[d] = Nobody
    BY <1>1, <2>1 DEF AsCall, Still
  <2>2. CASE call[d] # Nobody
    <3>1. (d \in steady') = (d \in steady)
      BY <1>1, <1>5, <2>2, AtRestStays DEF Watch, Rests, Still
    <3>2. AsCall(d)' = [name |-> call'[d].name, version |-> call'[d].version, steady |-> d \in steady',
                        runs |-> IF pc'[d] = "run" THEN call'[d].version.code ELSE Nobody]
      BY <1>1, <2>2, AsCallIsNext DEF Still
    <3>3. AsCall(d) = [name |-> call[d].name, version |-> call[d].version, steady |-> d \in steady,
                       runs |-> IF pc[d] = "run" THEN call[d].version.code ELSE Nobody]
      BY <2>2, AsCallIs
    <3> QED
      BY <1>1, <3>1, <3>2, <3>3 DEF Still
  <2> QED
    BY <2>1, <2>2
<1>7. AsCall(c)' = [name |-> n, version |-> Deployed[n], steady |-> c \in steady', runs |-> Nobody]
  <2>1. AsCall(c)' = [name |-> call'[c].name, version |-> call'[c].version, steady |-> c \in steady',
                      runs |-> IF pc'[c] = "run" THEN call'[c].version.code ELSE Nobody]
    BY <1>2, AsCallIsNext
  <2> QED
    BY <1>2, <1>3, <1>4, <2>1
<1>8. c \in steady' <=> S!AtRest(fresh)
  <2>1. AtRest(c)' <=> S!AtRest(fresh)
    BY <1>3, <1>4, AtRestIs DEF SInv, Parts
  <2> QED
    BY <1>2, <2>1 DEF Watch
<1>9. PICK b \in BOOLEAN : b = (c \in steady')
  BY (c \in steady') \in BOOLEAN, Zenon
<1>10. AsCall(c)' = [fresh EXCEPT !.steady = S!AtRest(fresh)]
  <2>1. PICK r \in BOOLEAN : r = S!AtRest(fresh)
    <3>1. S!AtRest(fresh) \in BOOLEAN
      BY DEF S!AtRest
    <3> QED
      BY <3>1, Zenon
  <2>2. b = r
    BY <1>8, <1>9, <2>1
  <2>3. AsCall(c)' = [fresh EXCEPT !.steady = b]
    BY <1>7, <1>9
  <2> QED
    BY <2>1, <2>2, <2>3
<1>11. calls' = [calls EXCEPT ![c] = [fresh EXCEPT !.steady = S!AtRest(fresh)]]
  BY <1>6, <1>10
<1>12. calls[c] = Nobody
  BY <1>2 DEF AsCall
<1>13. S!Invoke(c, n)
  BY <1>4, <1>11, <1>12 DEF S!Invoke, AsCall
<1>14. Spoiled' \in SUBSET (1..revs) /\ faults' = faults
  <2>1. revs' = revs /\ faults' = faults
    BY DEF vars
  <2> QED
    BY <2>1, SpoiledIssuedNext DEF SInv, Parts
<1>15. UNCHANGED S!storeVars /\ [a \in Clients |-> Changing(a)]' = [a \in Clients |-> Changing(a)]
  <2>1. UNCHANGED Store!storeVars
    BY NothingStored DEF SInv, Parts, vars, db
  <2> QED
    BY <1>5, <2>1 DEF Store!storeVars, S!storeVars, Calm, Changing
<1> QED
  BY <1>13, <1>14, <1>15 DEF S!ServiceNext, S!CallerStep

LEMMA RestartServed == ASSUME SInv, SInv', Restart PROVE S!ServiceNext
<1>1. UNCHANGED S!storeVars
  <2>1. UNCHANGED Store!storeVars
    BY NothingStored DEF SInv, Parts, Restart
  <2> QED
    BY <2>1 DEF Store!storeVars, S!storeVars
<1>2. /\ [a \in Clients |-> Changing(a)]' = [a \in Clients |-> Nobody]
      /\ [c \in Callers |-> AsCall(c)]' = [c \in Callers |-> Nobody]
  BY DEF Restart, Changing, AsCall, I!Tasks
<1>3. Spoiled' \in SUBSET (1..revs) /\ faults' = faults + 1
  <2>1. revs' = revs /\ faults' = faults + 1
    BY DEF Restart, db
  <2> QED
    BY <2>1, SpoiledIssuedNext DEF SInv, Parts
<1> QED
  BY <1>1, <1>2, <1>3 DEF S!ServiceNext, S!Restart, AsCall

LEMMA NothingServed == ASSUME SInv, SInv', UNCHANGED servingVars PROVE UNCHANGED S!serviceVars
<1>1. UNCHANGED S!storeVars
  <2>1. UNCHANGED Store!storeVars
    BY NothingStored DEF SInv, Parts, servingVars, vars, db
  <2> QED
    BY <2>1 DEF Store!storeVars, S!storeVars
<1>2. Calm /\ faults' = faults /\ UNCHANGED <<call, steady, pc, loaded, handle>>
  BY DEF Calm, servingVars, vars, invokerVars, coldVars
<1>3. [a \in Clients |-> Changing(a)]' = [a \in Clients |-> Changing(a)] /\ Spoiled' = Spoiled
  BY <1>2, SpoiledStays DEF Calm, Changing
<1>4. \A c \in Callers : AsCall(c)' = AsCall(c)
  BY <1>2 DEF AsCall
<1> QED
  BY <1>1, <1>2, <1>3, <1>4 DEF S!serviceVars, AsCall

(* Together with what it says of the calls, the invariant is inductive, and *)
(* the daemon implements its service.                                       *)
WInv == SInv /\ OwnKeys /\ Unpackings /\ Rests

LEMMA WInvInitially == ServingInit => WInv
<1> SUFFICES ASSUME ServingInit PROVE WInv
  OBVIOUS
<1>1. OwnKeys /\ Unpackings /\ Rests
  BY DEF ServingInit, I!Init, I!Tasks, OwnKeys, Invalidates, Unpackings, Rests
<1> QED
  BY <1>1, SInvInitially DEF WInv

LEMMA WInvKept == WInv /\ [ServingNext]_servingVars => WInv'
<1> SUFFICES ASSUME WInv, [ServingNext]_servingVars PROVE WInv'
  OBVIOUS
<1>1. SInv'
  BY SInvKept DEF WInv
<1>2. OwnKeys'
  BY <1>1, OwnKeysKept DEF WInv
<1> QED
  BY <1>1, <1>2, UnpackingsKept, RestsKept DEF WInv

LEMMA ServiceStep == WInv /\ WInv' /\ [ServingNext]_servingVars => [S!ServiceNext]_(S!serviceVars)
<1> SUFFICES ASSUME WInv, WInv', [ServingNext]_servingVars PROVE [S!ServiceNext]_(S!serviceVars)
  OBVIOUS
<1>1. ASSUME NEW a \in Clients, ClientStep(a), Watch PROVE S!ServiceNext
  BY <1>1, ClientServed DEF WInv, S!ServiceNext
<1>2. ASSUME NEW c \in Callers, CallerStep(c), Watch PROVE S!ServiceNext
  BY <1>2, CallerServed DEF WInv
<1>3. ASSUME NEW c \in Callers, NEW n \in Names, UNCHANGED vars, Resolve(c, n), Watch PROVE S!ServiceNext
  BY <1>3, ResolveServed DEF WInv
<1>4. CASE Restart
  BY <1>4, RestartServed DEF WInv
<1>5. CASE UNCHANGED servingVars
  BY <1>5, NothingServed DEF WInv
<1> QED
  BY <1>1, <1>2, <1>3, <1>4, <1>5 DEF ServingNext, Quiet

LEMMA ServiceInitially == ServingInit => S!ServiceInit
<1> SUFFICES ASSUME ServingInit PROVE S!ServiceInit
  OBVIOUS
<1> USE DEF ServingInit, Init, I!Init, I!Tasks
<1>1. S!Init
  BY DEF S!Init, Deployed, Exists
<1>2. Spoiled = {}
  BY DEF Spoiled, Exists
<1> QED
  BY <1>1, <1>2 DEF S!ServiceInit, Changing

(* The daemon implements LambdaService: every call that is answered runs    *)
(* the version of its function that was deployed at one moment after it     *)
(* began, and a call fails only if that version did not stay deployed,      *)
(* runnable and at rest, whatever the clients, the cold starts, the         *)
(* invalidations and the restarts did in between.                           *)
THEOREM DaemonImplementsService == ServingSpec => ImplementsService
<1>1. WInv /\ [ServingNext]_servingVars => WInv' /\ [S!ServiceNext]_(S!serviceVars)
  BY WInvKept, ServiceStep
<1> QED
  BY <1>1, WInvInitially, ServiceInitially, PTL DEF ServingSpec, ImplementsService, S!ServiceSpec
=============================================================================
