------------------------------ MODULE Invoker ------------------------------
(***************************************************************************)
(* The registry of warm environments: Invoker::invoke, cold_start and      *)
(* invalidate_function, and the Lambda API handlers that commit an update  *)
(* or a delete and then invalidate.  Each of them is a task; they meet in  *)
(* the registry (a RwLock around a map), in the mutex of each environment  *)
(* and in the task_root directory of each revision.                        *)
(*                                                                         *)
(* ProcessExecutor::invoke is one step here, from the mark needs_reset to  *)
(* its outcome; RuntimeApi opens it.  The map is read in one step, so its  *)
(* read lock is only a condition on the writer.                            *)
(***************************************************************************)
EXTENDS Naturals, FiniteSets

CONSTANTS Callers,      \* tasks that call invoke
          Admins,       \* tasks that create, update or delete and invalidate
          Names,        \* function names
          Handles,      \* the Arc<Mutex<WarmEnv>> that can be alive at once
          Nobody,       \* no task, no handle, no environment
          MaxRevision,  \* bound on the revisions ever deployed
          Faulty        \* TRUE when calls may fail or be cancelled

ASSUME InvokerAssumption ==
  /\ Callers \cap Admins = {} /\ Nobody \notin Callers \cup Admins \cup Handles
  /\ MaxRevision \in Nat /\ Faulty \in BOOLEAN

VARIABLES
  deployed, \* the database: the revision of each name, 0 when there is none
  latest,   \* the last revision id issued: ids are never reused
  envs,     \* the registry: "<name>:<revision>" to a handle
  writer,   \* the task that holds the write lock of the registry
  env,      \* the WarmEnv behind each handle
  lock,     \* the task that holds the mutex of each handle
  pc, key,  \* where each task is, and the key (or name) it works on
  handle,   \* the handle each caller has cloned
  swept,    \* the handles an invalidation took out of the registry
  jobs,     \* unpackings under way on blocking threads
  full      \* keys whose task_root holds every file of its package

registry == <<envs, writer>>
roots == <<jobs, full>>
db == <<deployed, latest>>
vars == <<db, registry, env, lock, pc, key, handle, swept, roots>>

Tasks == Callers \cup Admins
Revisions == 1..MaxRevision
Keys == Names \X Revisions
Envs == [key : Keys, status : {"clean", "busy", "dead"}, retired : BOOLEAN]

ASSUME NobodyAssumption == Nobody \notin Envs

Jobs == [key : Keys, owner : Callers \cup {Nobody}, torn : BOOLEAN]
CallerPcs == {"idle", "lookup", "write", "cold", "unpack", "spawn", "lock", "run"}
AdminPcs == {"idle", "sweep", "retire", "remove"}

Init ==
  /\ deployed = [n \in Names |-> 0] /\ latest = 0
  /\ envs = [k \in Keys |-> Nobody] /\ writer = Nobody
  /\ env = [h \in Handles |-> Nobody]
  /\ lock = [h \in Handles |-> Nobody]
  /\ pc = [t \in Tasks |-> "idle"]
  /\ key = [t \in Tasks |-> Nobody]
  /\ handle = [c \in Callers |-> Nobody]
  /\ swept = [a \in Admins |-> {}]
  /\ jobs = {} /\ full = {}

Goto(t, where) == pc' = [pc EXCEPT ![t] = where]

(* An Arc is held by the registry, by a caller and by an invalidation; the  *)
(* step that drops the last one drops the WarmEnv, which kills its process. *)
Referenced(h) ==
  \/ \E k \in Keys : envs[k] = h
  \/ \E c \in Callers : handle[c] = h
  \/ \E a \in Admins : h \in swept[a]
Settle(e) == env' = [h \in Handles |-> IF Referenced(h)' THEN e[h] ELSE Nobody]

NewOfName(k, status) ==  \* variant for the mutation runs: the revision is lost
  [key |-> k[1], status |-> status, retired |-> FALSE]
New(k, status) == [key |-> k, status |-> status, retired |-> FALSE]
WithStatus(h, s) == [env EXCEPT ![h] = [key |-> @.key, status |-> s, retired |-> @.retired]]

-----------------------------------------------------------------------------
(* invoke: get_function_by_name. *)
Resolve(c, n) ==
  /\ pc[c] = "idle" /\ deployed[n] # 0
  /\ key' = [key EXCEPT ![c] = <<n, deployed[n]>>]
  /\ Goto(c, "lookup")
  /\ UNCHANGED <<db, registry, env, lock, handle, swept, roots>>

(* The two lookups, under the read and under the write lock. *)
LookupName(k) ==  \* variant for the mutation runs: any revision will do
  LET hs == {envs[j] : j \in {i \in Keys : i[1] = k[1]}} \ {Nobody} IN
  IF hs = {} THEN Nobody ELSE CHOOSE h \in hs : TRUE
Lookup(k) == envs[k]

Found(c) ==
  /\ Lookup(key[c]) # Nobody
  /\ handle' = [handle EXCEPT ![c] = Lookup(key[c])]
  /\ Goto(c, "lock")
  /\ UNCHANGED writer
LookupRead(c) ==
  /\ pc[c] = "lookup" /\ writer = Nobody
  /\ \/ Found(c)
     \/ Lookup(key[c]) = Nobody /\ Goto(c, "write") /\ UNCHANGED <<writer, handle>>
  /\ UNCHANGED <<db, envs, env, lock, key, swept, roots>>
LookupWrite(c) ==
  /\ pc[c] = "write" /\ writer = Nobody
  /\ \/ Found(c)
     \/ Lookup(key[c]) = Nobody /\ writer' = c /\ Goto(c, "cold") /\ UNCHANGED handle
  /\ UNCHANGED <<db, envs, env, lock, key, swept, roots>>

(* cold_start: the artifact is resolved and verified and its unpacking into *)
(* work_root/<revision_id> is given to a blocking thread.                   *)
StartUnpack(c) ==
  /\ pc[c] = "cold"
  /\ jobs' = jobs \cup {[key |-> key[c], owner |-> c, torn |-> FALSE]}
  /\ Goto(c, "unpack")
  /\ UNCHANGED <<db, registry, env, lock, key, handle, swept, full>>

(* The thread ends.  The package is complete unless its directory was       *)
(* removed after it began.  A caller that is still waiting goes on.         *)
FinishUnpack(j) ==
  /\ j \in jobs /\ jobs' = jobs \ {j}
  /\ full' = IF j.torn THEN full ELSE full \cup {j.key}
  /\ pc' = IF j.owner = Nobody THEN pc ELSE [pc EXCEPT ![j.owner] = "spawn"]
  /\ UNCHANGED <<db, registry, env, lock, key, handle, swept>>

(* executor.create, at the end of a cold start.  Under the write lock the   *)
(* environment is registered; under the mutex it replaces the old one, and  *)
(* executor.invoke marks it at once.                                        *)
Register(c) ==
  /\ pc[c] = "spawn" /\ writer = c
  /\ \E h \in Handles :
       /\ env[h] = Nobody
       /\ envs' = [envs EXCEPT ![key[c]] = h]
       /\ handle' = [handle EXCEPT ![c] = h]
       /\ env' = [env EXCEPT ![h] = New(key[c], "clean")]
  /\ writer' = Nobody
  /\ Goto(c, "lock")
  /\ UNCHANGED <<db, lock, key, swept, roots>>
Replace(c) ==
  /\ pc[c] = "spawn" /\ writer # c
  /\ env' = [env EXCEPT ![handle[c]] = New(key[c], "busy")]
  /\ Goto(c, "run")
  /\ UNCHANGED <<db, registry, lock, key, handle, swept, roots>>

(* Variant for the mutation runs: the write lock outlives the call. *)
LeaveLocked(c) ==
  /\ Goto(c, "idle")
  /\ key' = [key EXCEPT ![c] = Nobody]
  /\ handle' = [handle EXCEPT ![c] = Nobody]
  /\ lock' = [h \in Handles |-> IF lock[h] = c THEN Nobody ELSE lock[h]]
  /\ UNCHANGED <<db, envs, writer, swept, full>>

(* invoke returns, by any path: its guards and its Arc are dropped. *)
Leave(c) ==
  /\ Goto(c, "idle")
  /\ key' = [key EXCEPT ![c] = Nobody]
  /\ handle' = [handle EXCEPT ![c] = Nobody]
  /\ lock' = [h \in Handles |-> IF lock[h] = c THEN Nobody ELSE lock[h]]
  /\ writer' = IF writer = c THEN Nobody ELSE writer
  /\ UNCHANGED <<db, envs, swept, full>>

(* The mutex of an environment. *)
AlwaysFree(h) == TRUE  \* variant for the mutation runs: there is no mutex
Free(h) == lock[h] = Nobody

(* Variant for the mutation runs: needs_reset is looked at before retired. *)
LockEnvResetFirst(c) ==
  LET h == handle[c] IN
  /\ pc[c] = "lock" /\ Free(h)
  /\ \/ /\ env[h].retired /\ env[h].status = "clean"
        /\ Leave(c) /\ Settle(env)
     \/ /\ lock' = [lock EXCEPT ![h] = c]
        /\ IF env[h].status = "clean"
           THEN ~env[h].retired /\ env' = WithStatus(h, "busy") /\ Goto(c, "run")
           ELSE env' = WithStatus(h, "dead") /\ Goto(c, "cold")
        /\ UNCHANGED <<db, registry, key, handle, swept, full>>
  /\ UNCHANGED jobs

(* The mutex of the environment: it may have been retired meanwhile, or     *)
(* have to be terminated and started again before it is used.               *)
LockEnv(c) ==
  LET h == handle[c] IN
  /\ pc[c] = "lock" /\ Free(h)
  /\ \/ /\ env[h].retired
        /\ Leave(c) /\ Settle(env)
     \/ /\ ~env[h].retired /\ lock' = [lock EXCEPT ![h] = c]
        /\ IF env[h].status = "clean"
           THEN env' = WithStatus(h, "busy") /\ Goto(c, "run")
           ELSE env' = WithStatus(h, "dead") /\ Goto(c, "cold")
        /\ UNCHANGED <<db, registry, key, handle, swept, full>>
  /\ UNCHANGED jobs

(* executor.invoke returns: an answer leaves the environment clean, a       *)
(* timeout or an exit leaves it terminated and marked.                      *)
Return(c) ==
  /\ pc[c] = "run"
  /\ Leave(c)
  /\ \E s \in {"clean", "dead"} : Settle(WithStatus(handle[c], s))
  /\ UNCHANGED jobs

(* InvocationGuard kills a process in use when its caller goes away. *)
AbandonOnly(c) == env  \* variant for the mutation runs: it is left running
Abandon(c) == IF pc[c] = "run" THEN WithStatus(handle[c], "dead") ELSE env

(* A step of a cold start fails, or the client goes away and the future is  *)
(* dropped; in the second case a thread that is unpacking goes on alone.    *)
GiveUp(c) ==
  /\ Faulty /\ pc[c] # "idle"
  /\ Leave(c)
  /\ Settle(Abandon(c))
  /\ \/ jobs' = {j \in jobs : j.owner # c}
     \/ jobs' = {IF j.owner = c THEN [key |-> j.key, owner |-> Nobody, torn |-> j.torn] ELSE j
                   : j \in jobs}

-----------------------------------------------------------------------------
(* The handlers of the API: the database first... *)
Create(a, n) ==
  /\ pc[a] = "idle" /\ deployed[n] = 0 /\ latest < MaxRevision
  /\ deployed' = [deployed EXCEPT ![n] = latest + 1] /\ latest' = latest + 1
  /\ UNCHANGED <<registry, env, lock, pc, key, handle, swept, roots>>
Change(a, n) ==
  /\ pc[a] = "idle" /\ deployed[n] # 0
  /\ \/ latest < MaxRevision /\ latest' = latest + 1  \* update_function_code
        /\ deployed' = [deployed EXCEPT ![n] = latest + 1]
     \/ deployed' = [deployed EXCEPT ![n] = 0] /\ UNCHANGED latest  \* delete_function
  /\ key' = [key EXCEPT ![a] = n]
  /\ Goto(a, "sweep")
  /\ UNCHANGED <<registry, env, lock, handle, swept, roots>>

(* ... then invalidate_function: every key of the name leaves the registry. *)
UnregisterNothing(ks) == envs  \* variant for the mutation runs
Unregister(ks) == [k \in Keys |-> IF k \in ks THEN Nobody ELSE envs[k]]
Sweep(a) ==
  LET mine == {k \in Keys : k[1] = key[a]} IN
  /\ pc[a] = "sweep" /\ writer = Nobody
  /\ swept' = [swept EXCEPT ![a] = {envs[k] : k \in mine} \ {Nobody}]
  /\ envs' = Unregister(mine)
  /\ Goto(a, "retire")
  /\ UNCHANGED <<db, writer, env, lock, key, handle, roots>>

(* Under its mutex each environment is retired and terminated... *)
Retire(a, h) ==
  /\ pc[a] = "retire" /\ h \in swept[a] /\ Free(h)
  /\ key' = [key EXCEPT ![a] = env[h].key]
  /\ swept' = [swept EXCEPT ![a] = @ \ {h}]
  /\ UNCHANGED <<envs, handle>>
  /\ Settle([env EXCEPT ![h] = [key |-> @.key, status |-> "dead", retired |-> TRUE]])
  /\ Goto(a, "remove")
  /\ UNCHANGED <<db, writer, lock, roots>>

(* ... and, the mutex released, its task_root is removed, under any         *)
(* unpacking that is writing to it.                                         *)
RemoveRoot(a) ==
  /\ pc[a] = "remove"
  /\ full' = full \ {key[a]}
  /\ jobs' = {IF j.key = key[a] THEN [key |-> j.key, owner |-> j.owner, torn |-> TRUE] ELSE j
                : j \in jobs}
  /\ Goto(a, "retire")
  /\ UNCHANGED <<db, registry, env, lock, key, handle, swept>>

Done(a) ==
  /\ pc[a] = "retire" /\ swept[a] = {}
  /\ key' = [key EXCEPT ![a] = Nobody]
  /\ Goto(a, "idle")
  /\ UNCHANGED <<db, registry, env, lock, handle, swept, roots>>

(* terminate or remove_dir_all fails, or the handler is dropped: what was   *)
(* committed stays, and the environments not yet retired are let go.        *)
Abort(a) ==
  /\ Faulty /\ pc[a] # "idle"
  /\ key' = [key EXCEPT ![a] = Nobody]
  /\ swept' = [swept EXCEPT ![a] = {}]
  /\ UNCHANGED <<envs, handle>>
  /\ Settle(env)
  /\ Goto(a, "idle")
  /\ UNCHANGED <<db, writer, lock, roots>>

-----------------------------------------------------------------------------
ColdStartStep(c) ==
  \/ StartUnpack(c) \/ Register(c) \/ Replace(c)
  \/ \E j \in jobs : j.owner = c /\ FinishUnpack(j)
Wait == (\A t \in Tasks : pc[t] = "idle") /\ UNCHANGED vars

Next ==
  \/ \E c \in Callers :
       \/ \E n \in Names : Resolve(c, n)
       \/ LookupRead(c) \/ LookupWrite(c) \/ ColdStartStep(c) \/ LockEnv(c)
       \/ Return(c) \/ GiveUp(c)
  \/ \E j \in jobs : j.owner = Nobody /\ FinishUnpack(j)
  \/ \E a \in Admins :
       \/ \E n \in Names : Create(a, n) \/ Change(a, n)
       \/ \E h \in Handles : Retire(a, h)
       \/ Sweep(a) \/ RemoveRoot(a) \/ Done(a) \/ Abort(a)
  \/ Wait

(* Tokio schedules every task and its locks are FIFO; ProcessExecutor::invoke *)
(* returns (InvokeReturns of RuntimeApi) and so do file and database calls.   *)
CallerStep(c) ==
  LookupRead(c) \/ LookupWrite(c) \/ ColdStartStep(c) \/ LockEnv(c) \/ Return(c)
AdminStep(a) ==
  Sweep(a) \/ RemoveRoot(a) \/ Done(a) \/ \E h \in Handles : Retire(a, h)
Fairness ==
  /\ \A c \in Callers : SF_vars(CallerStep(c))
  /\ \A a \in Admins : SF_vars(AdminStep(a))

Spec == Init /\ [][Next]_vars /\ Fairness

-----------------------------------------------------------------------------
(* Every variable ranges over the values the invoker can hold. *)
TypeOK ==
  /\ deployed \in [Names -> 0..MaxRevision] /\ latest \in 0..MaxRevision
  /\ envs \in [Keys -> Handles \cup {Nobody}]
  /\ writer \in Callers \cup {Nobody}
  /\ env \in [Handles -> Envs \cup {Nobody}]
  /\ lock \in [Handles -> Callers \cup {Nobody}]
  /\ pc \in [Tasks -> CallerPcs \cup AdminPcs]
  /\ key \in [Tasks -> Keys \cup Names \cup {Nobody}]
  /\ handle \in [Callers -> Handles \cup {Nobody}]
  /\ swept \in [Admins -> SUBSET Handles]
  /\ jobs \in SUBSET Jobs
  /\ full \in SUBSET Keys

(* An environment in use has one caller, and no invalidation terminates it  *)
(* or lets go of it under that caller...                                    *)
RunningAlone ==
  \A c \in Callers : pc[c] = "run" =>
    /\ env[handle[c]] # Nobody
    /\ env[handle[c]].status = "busy" /\ ~env[handle[c]].retired
    /\ \A d \in Callers \ {c} : pc[d] = "run" => handle[d] # handle[c]

(* ... and no process is in use without one: an answer, a timeout, an exit  *)
(* and a cancellation all leave the environment clean or dead.              *)
BusyIsOwned ==
  \A h \in Handles : env[h] # Nobody /\ env[h].status = "busy" =>
    \E c \in Callers : pc[c] = "run" /\ handle[c] = h

(* "Its own lock, to keep one invocation per process": callers in the       *)
(* middle of an invocation and processes in use pair off, whoever fails, is *)
(* cancelled or invalidates meanwhile.                                      *)
OneInvocationPerProcess == RunningAlone /\ BusyIsOwned

(* "An UpdateFunctionCode creates a new environment": an invocation runs    *)
(* the revision it resolved, so one that begins after an update committed   *)
(* never runs older code, whatever invalidations were lost.                 *)
RunsResolvedRevision ==
  \A c \in Callers : pc[c] = "run" => env[handle[c]].key = key[c]

(* A retired environment never comes back into service: the replacement of  *)
(* a process that needs a reset must not clear the mark.                    *)
RetiredForever ==
  [][\A h \in Handles : env[h] # Nobody /\ env[h].retired =>
       env'[h] = Nobody \/ (env'[h].retired /\ env'[h].status = "dead")]_vars

(* An environment leaves the registry before it is retired: no lookup finds *)
(* one that an invalidation has terminated.                                 *)
RegisteredIsNotRetired ==
  \A k \in Keys : envs[k] # Nobody =>
    env[envs[k]] # Nobody /\ env[envs[k]].key = k /\ ~env[envs[k]].retired

(* Every invocation and every invalidation ends: the mutex of an            *)
(* environment is never waited for under the lock of the registry.          *)
TasksEnd == \A t \in Callers \cup Admins : (pc[t] # "idle") ~> (pc[t] = "idle")

(* "It stays alive while the environment exists": the task_root of a live   *)
(* environment holds its package.                                           *)
TaskRootStaysAlive ==
  \A h \in Handles : env[h] # Nobody /\ env[h].status # "dead" => env[h].key \in full

(* "The write lock avoids two cold starts for the same revision": never are *)
(* two callers in the cold start of one key.                                *)
OneColdStartPerRevision ==
  \A c, d \in Callers : (c # d /\ {pc[c], pc[d]} \subseteq {"unpack", "spawn"}) => key[c] # key[d]

(* "Every environment of a function is retired after an update or delete":  *)
(* when all calls have returned, the registry only has deployed revisions.  *)
OnlyDeployedStayWarm ==
  (\A t \in Tasks : pc[t] = "idle") =>
    \A k \in Keys : envs[k] # Nobody => deployed[k[1]] = k[2]
=============================================================================
