------------------------------ MODULE Serving ------------------------------
(***************************************************************************)
(* The daemon as its users see it: the control plane and the invoker over  *)
(* one database and one blob store.  An API handler that changes a function *)
(* is a request of ControlPlane and then an invalidation of Invoker; a call *)
(* is an invocation of Invoker whose cold start reads, in steps of its own, *)
(* the rows and the blobs that the control plane writes.  The daemon may    *)
(* stop and start at any moment.                                            *)
(*                                                                         *)
(* The bundles of the runtimes are installed (RuntimeCache).                *)
(***************************************************************************)
EXTENDS ControlPlane

CONSTANTS Callers,  \* tasks that call invoke
          Handles,  \* environments that can be alive at once
          Nobody    \* no task, no handle, no package

VARIABLES
  envs, writer, env, lock, pc, key, handle, swept, jobs, full, \* those of Invoker
  call,    \* what each caller resolved: the row and, as history, the version it stands for
  package, \* the package each cold start found in its artifact row, or Nobody
  checked, \* the callers whose cold start has verified that package
  loaded,  \* the package the live process behind each handle was started from, or Nobody
  steady   \* history: the callers nothing has disturbed since they resolved

invokerVars == <<envs, writer, env, lock, pc, key, handle, swept, jobs, full>>
coldVars == <<package, checked, loaded>>
servingVars == <<vars, invokerVars, coldVars, call, steady>>

(* A request that began under the bound of ControlPlane may commit past it. *)
LastRevision == MaxRevisions + Cardinality(Clients)
RevisionOf(n) == IF Exists(n) THEN functions[n].revision ELSE 0
I == INSTANCE Invoker WITH
  Admins <- Clients, MaxRevision <- LastRevision, Faulty <- FALSE,
  deployed <- [n \in Names |-> RevisionOf(n)], latest <- revs

Resolved == [name : Names, artifact : Row, version : Version]

ASSUME ServingAssumption ==
  /\ IsFiniteSet(Clients) /\ Callers \cap Clients = {} /\ \A n \in Names : n \notin Names \X Nat
  /\ Nobody \notin Callers \cup Clients \cup Handles \cup Names \cup Blobs
  /\ Nobody \notin I!Envs \cup Resolved
  /\ Nobody \notin [name : Names, version : Version, steady : BOOLEAN, runs : Blobs \cup {Nobody}]

ServingInit ==
  /\ Init /\ I!Init
  /\ call = [c \in Callers |-> Nobody] /\ package = [c \in Callers |-> Nobody]
  /\ checked = {} /\ steady = {}
  /\ loaded = [h \in Handles |-> Nobody]

-----------------------------------------------------------------------------
(* The name a client is applying a committed change to, or Nobody.          *)
Changing(a) ==
  IF pc[a] = "idle" THEN Nobody ELSE IF key[a] \in Names THEN key[a] ELSE key[a][1]

(* A deployed revision that cannot be relied on: its blob is gone, or an    *)
(* invalidation removed its directory under an unpacking or a process.      *)
Torn(k) ==
  /\ k \notin full
  /\ \/ \E h \in Handles : env[h] # Nobody /\ env[h].key = k /\ env[h].status # "dead"
     \/ \E c \in Callers : pc[c] = "spawn" /\ key[c] = k
     \/ \E j \in jobs : j.key = k /\ j.torn
Spoiled ==
  {functions[n].revision : n \in {m \in Names :
     Exists(m) /\ (DeployedCode(m) \notin blobs \/ Torn(<<m, functions[m].revision>>))}}

VersionOf(n) ==
  [code |-> DeployedCode(n), revision |-> functions[n].revision, runtime |-> functions[n].runtime]
AtRest(c) ==
  LET n == call[c].name IN
  /\ Exists(n) /\ VersionOf(n) = call[c].version
  /\ \A a \in Clients : Changing(a) # n
  /\ functions[n].revision \notin Spoiled
  /\ ValidCode(DeployedCode(n), functions[n].runtime)

(* History, part of every step.                                             *)
Watch ==
  steady' = {c \in Callers : /\ call'[c] # Nobody
                             /\ c \in steady \/ call[c] = Nobody
                             /\ AtRest(c)'}

(* What a process was started from goes with it.                            *)
Loading(from) ==
  loaded' = [h \in Handles |->
    IF env'[h] = Nobody \/ env'[h].status = "dead" THEN Nobody ELSE from[h]]

-----------------------------------------------------------------------------
(* The revisions an update may name: none, one that was issued, or another; *)
(* past the bound only the other, which is never issued, so that an update  *)
(* that must fail can follow the last one that did not.                     *)
Expected == (IF revs < MaxRevisions THEN 0..revs ELSE {}) \cup {LastRevision + 1}

(* create_function, update_function_code and delete_function.               *)
Request(c) ==
  /\ \/ \E n \in Names, code \in Blobs, runtime \in Runtimes :
          CreatePrecheck(c, n, code, runtime)
     \/ \E n \in Names, code \in Blobs, expected \in Expected : UpdateRead(c, n, code, expected)
     \/ PutExists(c) \/ PutRename(c) \/ Reject(c)
     \/ CleanupRow(c) \/ CleanupLookup(c) \/ CleanupRemove(c)
     \/ DetailsFound(c) \/ DetailsMissing(c)
  /\ pc[c] = "idle"
  /\ UNCHANGED invokerVars
CommitNew(c) == CreateCommit(c) /\ I!Create(c, req[c].name)
CommitUpdate(c) == UpdateCommit(c) /\ I!Change(c, req[c].name)
CommitDelete(c, n) == req[c] = Idle /\ DeleteFunction(n) /\ I!Change(c, n)

(* The handler goes on with invalidate_function. *)
Invalidate(c) ==
  /\ UNCHANGED vars
  /\ I!Sweep(c) \/ I!RemoveRoot(c) \/ I!Done(c) \/ \E h \in Handles : I!Retire(c, h)

ClientStep(c) ==
  /\ \/ Request(c) \/ CommitNew(c) \/ CommitUpdate(c) \/ Invalidate(c)
     \/ \E n \in Names : CommitDelete(c, n)
  /\ Loading(loaded)
  /\ UNCHANGED <<package, checked, call>>

-----------------------------------------------------------------------------
(* invoke returns with an error, from wherever it is.                       *)
Refuse(c) ==
  /\ I!Leave(c) /\ I!Settle(env)
  /\ jobs' = {j \in jobs : j.owner # c}
  /\ call' = [call EXCEPT ![c] = Nobody]
  /\ package' = [package EXCEPT ![c] = Nobody]
  /\ checked' = checked \ {c}
  /\ Loading(loaded)

(* get_function_by_name *)
Resolve(c, n) ==
  /\ I!Resolve(c, n)
  /\ call' = [call EXCEPT ![c] =
       [name |-> n, artifact |-> functions[n].artifact, version |-> VersionOf(n)]]
  /\ UNCHANGED coldVars

Lookup(c) == (I!LookupRead(c) \/ I!LookupWrite(c)) /\ UNCHANGED <<coldVars, call>>

(* cold_start: get_artifact_by_id of the row resolved... *)
FindArtifact(c) ==
  /\ pc[c] = "cold" /\ package[c] = Nobody
  /\ \/ /\ \E b \in Blobs : artifacts[b] = call[c].artifact /\ package' = [package EXCEPT ![c] = b]
        /\ UNCHANGED <<invokerVars, checked, loaded, call>>
     \/ ~HasRow(call[c].artifact) /\ Refuse(c)

(* ... the blob is hashed... *)
VerifyBlob(c) ==
  /\ pc[c] = "cold" /\ package[c] # Nobody /\ c \notin checked
  /\ \/ /\ package[c] \in blobs /\ checked' = checked \cup {c}
        /\ UNCHANGED <<invokerVars, package, loaded, call>>
     \/ package[c] \notin blobs /\ Refuse(c)

(* ... and read again, for a thread to unpack... *)
ReadBlob(c) ==
  /\ pc[c] = "cold" /\ c \in checked
  /\ \/ /\ package[c] \in blobs /\ I!StartUnpack(c)
        /\ UNCHANGED <<coldVars, call>>
     \/ package[c] \notin blobs /\ Refuse(c)

(* ... which fails without the bootstrap a `provided` runtime needs, and    *)
(* may fail when its directory was removed under it.                        *)
Unpacked(c, j) ==
  /\ j.owner = c
  /\ \/ /\ ValidCode(package[c], call[c].version.runtime) /\ I!FinishUnpack(j)
        /\ UNCHANGED <<coldVars, call>>
     \/ /\ ~ValidCode(package[c], call[c].version.runtime) \/ j.torn
        /\ Refuse(c)

(* The process starts from what was unpacked; it may not start when files   *)
(* are missing.                                                             *)
Spawn(c) ==
  \/ /\ I!Register(c) \/ I!Replace(c)
     /\ Loading([loaded EXCEPT ![handle'[c]] = package[c]])
     /\ package' = [package EXCEPT ![c] = Nobody]
     /\ checked' = checked \ {c}
     /\ UNCHANGED call
  \/ pc[c] = "spawn" /\ key[c] \notin full /\ Refuse(c)

(* The mutex of the environment.  A process that died since its last use is *)
(* terminated and started again; a retired environment is an error.         *)
LockEnv(c) ==
  \/ I!LockEnv(c) /\ pc'[c] # "idle" /\ Loading(loaded) /\ UNCHANGED <<package, checked, call>>
  \/ pc[c] = "lock" /\ I!Free(handle[c]) /\ env[handle[c]].retired /\ Refuse(c)

(* The function answers, or its process does not last.                      *)
Respond(c) ==
  /\ I!Return(c) /\ Loading(loaded)
  /\ call' = [call EXCEPT ![c] = Nobody]
  /\ UNCHANGED <<package, checked>>

CallerStep(c) ==
  /\ UNCHANGED vars
  /\ \/ Lookup(c) \/ FindArtifact(c) \/ VerifyBlob(c) \/ ReadBlob(c)
     \/ \E j \in jobs : Unpacked(c, j)
     \/ Spawn(c) \/ LockEnv(c) \/ Respond(c)

-----------------------------------------------------------------------------
(* The daemon stops, in whatever way, and starts again.  What it had in     *)
(* memory is gone; the database, the blobs and the unpacked packages stay.  *)
Restart ==
  /\ faults < MaxFaults /\ faults' = faults + 1
  /\ req' = [c \in Clients |-> Idle]
  /\ envs' = [k \in I!Keys |-> Nobody] /\ writer' = Nobody
  /\ env' = [h \in Handles |-> Nobody] /\ lock' = [h \in Handles |-> Nobody]
  /\ pc' = [t \in I!Tasks |-> "idle"] /\ key' = [t \in I!Tasks |-> Nobody]
  /\ handle' = [c \in Callers |-> Nobody] /\ swept' = [c \in Clients |-> {}]
  /\ jobs' = {}
  /\ call' = [c \in Callers |-> Nobody] /\ package' = [c \in Callers |-> Nobody]
  /\ checked' = {} /\ loaded' = [h \in Handles |-> Nobody]
  /\ UNCHANGED <<db, blobs, full>>

Quiet == /\ \A c \in Clients : req[c] = Idle
         /\ \A t \in I!Tasks : pc[t] = "idle"
         /\ UNCHANGED servingVars

ServingNext ==
  \/ /\ \/ \E c \in Clients : ClientStep(c)
        \/ \E c \in Callers : CallerStep(c)
        \/ \E c \in Callers, n \in Names : UNCHANGED vars /\ Resolve(c, n)
        \/ Restart
     /\ Watch
  \/ Quiet

(* Tokio schedules every task, its locks are FIFO, and calls of the         *)
(* database, of the file system and of the executor return.                 *)
ServingSpec ==
  /\ ServingInit /\ [][ServingNext]_servingVars
  /\ \A c \in Callers : SF_servingVars(CallerStep(c) /\ Watch)
  /\ \A c \in Clients : SF_servingVars(ClientStep(c) /\ (req[c] # Idle \/ pc[c] # "idle") /\ Watch)

-----------------------------------------------------------------------------
(* Every variable ranges over the values the composed daemon can hold.      *)
ServingTypeOK ==
  /\ TypeOK /\ I!TypeOK
  /\ package \in [Callers -> Blobs \cup {Nobody}] /\ loaded \in [Handles -> Blobs \cup {Nobody}]
  /\ checked \subseteq Callers /\ steady \subseteq Callers

(* The code a call runs is the code that was deployed when it resolved its  *)
(* function, although the artifact row, the blob, the directory and the     *)
(* environment were each looked up later, among updates and cleanups.       *)
RunsResolvedCode ==
  \A c \in Callers : pc[c] = "run" => loaded[handle[c]] = call[c].version.code

(* A call whose function stayed deployed, runnable and at rest does not     *)
(* fail, and every call that is answered is answered by one version of its  *)
(* function: the daemon implements LambdaService.                           *)
S == INSTANCE LambdaService WITH
  store <- Deployed,
  changing <- [a \in Clients |-> Changing(a)],
  spoiled <- Spoiled, restarts <- faults,
  calls <- [c \in Callers |->
    IF call[c] = Nobody THEN Nobody
    ELSE [name |-> call[c].name, version |-> call[c].version, steady |-> c \in steady,
          runs |-> IF pc[c] = "run" THEN loaded[handle[c]] ELSE Nobody]]
ImplementsService == S!ServiceSpec

(* Every request and every call ends, also those a restart did not meet.    *)
EveryoneReturns ==
  /\ \A c \in Clients : []<>(req[c] = Idle /\ pc[c] = "idle")
  /\ \A c \in Callers : []<>(pc[c] = "idle")
=============================================================================
