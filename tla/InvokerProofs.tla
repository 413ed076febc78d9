--------------------------- MODULE InvokerProofs ---------------------------
(***************************************************************************)
(* Safety of Invoker for any tasks, names, handles and revisions.          *)
(***************************************************************************)
EXTENDS Invoker, TLAPS

(* Callers are at caller steps and administrators at theirs; a caller works *)
(* on a key, and holds a handle from the moment it found or made one.       *)
Booting == {"cold", "unpack", "spawn"}
Shape ==
  /\ TypeOK
  /\ \A a \in Admins : pc[a] \in AdminPcs
  /\ \A c \in Callers :
       /\ pc[c] \in CallerPcs
       /\ pc[c] # "idle" => key[c] \in Keys
       /\ pc[c] \in {"idle", "lookup", "write"} => handle[c] = Nobody
       /\ pc[c] \in {"lock", "run"} => handle[c] # Nobody
       /\ pc[c] \in Booting => (handle[c] = Nobody <=> writer = c)

(* A mutex is held by the caller that runs or restarts its environment, the *)
(* write lock by one that boots a new one.                                  *)
Locks ==
  /\ \A c \in Callers : writer = c => pc[c] \in Booting
  /\ \A c \in Callers : (pc[c] \in Booting \cup {"run"} /\ handle[c] # Nobody) => lock[handle[c]] = c
  /\ \A h \in Handles, c \in Callers :
       lock[h] = c => handle[c] = h /\ pc[c] \in Booting \cup {"run"}

(* The environments that callers hold: alive, and of the key they resolved. *)
Held ==
  /\ \A c \in Callers : handle[c] # Nobody =>
       env[handle[c]] # Nobody /\ env[handle[c]].key = key[c]
  /\ \A h \in Handles : env[h] # Nobody /\ lock[h] # Nobody => ~env[h].retired

(* The environments an invalidation has taken out of the registry are its   *)
(* own, and not retired yet.                                                *)
Swept ==
  \A a \in Admins : \A h \in swept[a] :
    /\ env[h] # Nobody /\ ~env[h].retired
    /\ \A k \in Keys : envs[k] # h
    /\ \A b \in Admins \ {a} : h \notin swept[b]

(* An environment is busy exactly while its caller runs on it. *)
Status ==
  /\ \A c \in Callers : pc[c] = "run" => env[handle[c]].status = "busy"
  /\ BusyIsOwned
  /\ \A h \in Handles : env[h] # Nobody /\ env[h].retired => env[h].status = "dead"

(* A caller in "unpack" waits for one thread. *)
Threads ==
  /\ \A j \in jobs : j.owner # Nobody => pc[j.owner] = "unpack"
  /\ \A i, j \in jobs : i.owner = j.owner /\ i.owner # Nobody => i = j

IInv == Shape /\ Locks /\ Held /\ RegisteredIsNotRetired /\ Swept /\ Status /\ Threads

(* What the two constructors of an environment return. *)
LEMMA NewIs ==
  ASSUME NEW k \in Keys, NEW s \in {"clean", "busy", "dead"}
  PROVE  /\ New(k, s) \in Envs /\ New(k, s) # Nobody
         /\ New(k, s).key = k /\ New(k, s).status = s /\ New(k, s).retired = FALSE
<1>1. New(k, s) \in Envs
  BY DEF New, Envs
<1> QED
  BY <1>1, NobodyAssumption DEF New

LEMMA WithStatusIs ==
  ASSUME Shape, NEW h \in Handles, env[h] # Nobody, NEW s \in {"clean", "busy", "dead"}
  PROVE  /\ WithStatus(h, s) \in [Handles -> Envs \cup {Nobody}]
         /\ \A g \in Handles \ {h} : WithStatus(h, s)[g] = env[g]
         /\ WithStatus(h, s)[h] # Nobody
         /\ WithStatus(h, s)[h].key = env[h].key
         /\ WithStatus(h, s)[h].status = s
         /\ WithStatus(h, s)[h].retired = env[h].retired
BY NobodyAssumption DEF WithStatus, Envs, Shape, TypeOK

(* Of what a step leaves in the handles, dropping the last reference to one *)
(* is the only thing that takes an environment away.                        *)
LEMMA SettleIs ==
  ASSUME NEW STATE e, e \in [Handles -> Envs \cup {Nobody}], Settle(e)
  PROVE  /\ env' \in [Handles -> Envs \cup {Nobody}]
         /\ \A h \in Handles : env'[h] = e[h] \/ env'[h] = Nobody
         /\ \A h \in Handles : Referenced(h)' => env'[h] = e[h]
BY DEF Settle

LEMMA Inductive == IInv /\ [Next]_vars => IInv'
<1> SUFFICES ASSUME IInv, [Next]_vars PROVE IInv'
  OBVIOUS
<1> USE InvokerAssumption, NobodyAssumption DEF Tasks, Booting, CallerPcs, AdminPcs, Revisions, Keys, registry, roots, db
<1>1. ASSUME NEW c \in Callers, NEW n \in Names, Resolve(c, n) PROVE IInv'
  <2> USE <1>1 DEF Resolve, Goto, Envs, Jobs
  <2>1. Shape'
    BY DEF IInv, Shape, TypeOK, Threads
  <2>2. Locks'
    BY DEF IInv, Shape, TypeOK, Locks, Threads
  <2>3. Held'
    BY DEF IInv, Shape, TypeOK, Locks, Held, RegisteredIsNotRetired, Swept, Threads
  <2>4. RegisteredIsNotRetired'
    BY DEF IInv, Shape, TypeOK, Locks, Held, RegisteredIsNotRetired, Swept, Threads
  <2>5. Swept'
    BY DEF IInv, Shape, TypeOK, Locks, Held, RegisteredIsNotRetired, Swept, Threads
  <2>6. Status'
    BY DEF IInv, Shape, TypeOK, Locks, Held, Status, BusyIsOwned, Threads
  <2>7. Threads'
    BY DEF IInv, Shape, TypeOK, Threads
  <2> QED
    BY <2>1, <2>2, <2>3, <2>4, <2>5, <2>6, <2>7 DEF IInv
<1>2. ASSUME NEW c \in Callers, LookupRead(c) PROVE IInv'
  <2> USE <1>2 DEF LookupRead, Found, Lookup, Goto, Envs, Jobs
  <2>1. Shape'
    BY SMTT(30) DEF IInv, Shape, TypeOK, Threads
  <2>2. Locks'
    BY DEF IInv, Shape, TypeOK, Locks, Threads
  <2>3. Held'
    BY DEF IInv, Shape, TypeOK, Locks, Held, RegisteredIsNotRetired, Swept, Threads
  <2>4. RegisteredIsNotRetired'
    BY DEF IInv, Shape, TypeOK, Locks, Held, RegisteredIsNotRetired, Swept, Threads
  <2>5. Swept'
    BY DEF IInv, Shape, TypeOK, Locks, Held, RegisteredIsNotRetired, Swept, Threads
  <2>6. Status'
    BY DEF IInv, Shape, TypeOK, Locks, Held, Status, BusyIsOwned, Threads
  <2>7. Threads'
    BY DEF IInv, Shape, TypeOK, Threads
  <2> QED
    BY <2>1, <2>2, <2>3, <2>4, <2>5, <2>6, <2>7 DEF IInv
<1>3. ASSUME NEW c \in Callers, LookupWrite(c) PROVE IInv'
  <2> USE <1>3 DEF LookupWrite, Found, Lookup, Goto, Envs, Jobs
  <2>1. Shape'
    BY SMTT(30) DEF IInv, Shape, TypeOK, Threads
  <2>2. Locks'
    BY DEF IInv, Shape, TypeOK, Locks, Threads
  <2>3. Held'
    BY DEF IInv, Shape, TypeOK, Locks, Held, RegisteredIsNotRetired, Swept, Threads
  <2>4. RegisteredIsNotRetired'
    BY DEF IInv, Shape, TypeOK, Locks, Held, RegisteredIsNotRetired, Swept, Threads
  <2>5. Swept'
    BY DEF IInv, Shape, TypeOK, Locks, Held, RegisteredIsNotRetired, Swept, Threads
  <2>6. Status'
    BY DEF IInv, Shape, TypeOK, Locks, Held, Status, BusyIsOwned, Threads
  <2>7. Threads'
    BY DEF IInv, Shape, TypeOK, Threads
  <2> QED
    BY <2>1, <2>2, <2>3, <2>4, <2>5, <2>6, <2>7 DEF IInv
<1>4. ASSUME NEW c \in Callers, StartUnpack(c) PROVE IInv'
  <2> USE <1>4 DEF StartUnpack, Goto
  <2>0. [key |-> key[c], owner |-> c, torn |-> FALSE] \in Jobs
    BY DEF IInv, Shape, TypeOK, Jobs
  <2>1. Shape'
    BY <2>0 DEF IInv, Shape, TypeOK, Threads
  <2>2. Locks'
    BY <2>0 DEF IInv, Shape, TypeOK, Locks, Threads
  <2>3. Held'
    BY <2>0 DEF IInv, Shape, TypeOK, Locks, Held, RegisteredIsNotRetired, Swept, Threads
  <2>4. RegisteredIsNotRetired'
    BY <2>0 DEF IInv, Shape, TypeOK, Locks, Held, RegisteredIsNotRetired, Swept, Threads
  <2>5. Swept'
    BY <2>0 DEF IInv, Shape, TypeOK, Locks, Held, RegisteredIsNotRetired, Swept, Threads
  <2>6. Status'
    BY <2>0 DEF IInv, Shape, TypeOK, Locks, Held, Status, BusyIsOwned, Threads
  <2>7. Threads'
    <3>1. \A j \in jobs : j.owner # c
      BY DEF IInv, Threads
    <3>2. \A j \in jobs' : j \in jobs \/ (j.owner = c /\ j = [key |-> key[c], owner |-> c, torn |-> FALSE])
      OBVIOUS
    <3>3. pc' = [pc EXCEPT ![c] = "unpack"] /\ pc[c] = "cold"
      OBVIOUS
    <3>4. \A j \in jobs : j.owner # Nobody => pc[j.owner] = "unpack" /\ j.owner \in Tasks
      BY DEF IInv, Threads, Shape, TypeOK, Jobs
    <3>5. \A i, j \in jobs : i.owner = j.owner /\ i.owner # Nobody => i = j
      BY DEF IInv, Threads
    <3>6. pc \in [Tasks -> CallerPcs \cup AdminPcs] /\ c \in Tasks
      BY DEF IInv, Shape, TypeOK
    <3>7. \A j \in jobs' : j.owner # Nobody => pc'[j.owner] = "unpack"
      BY ONLY <3>1, <3>2, <3>3, <3>4, <3>6
    <3>8. \A i, j \in jobs' : i.owner = j.owner /\ i.owner # Nobody => i = j
      BY ONLY <3>1, <3>2, <3>5
    <3> QED
      BY ONLY <3>7, <3>8 DEF Threads
  <2> QED
    BY <2>1, <2>2, <2>3, <2>4, <2>5, <2>6, <2>7 DEF IInv
<1>5. ASSUME NEW j \in jobs, FinishUnpack(j) PROVE IInv'
  <2> USE <1>5 DEF FinishUnpack, Envs, Jobs
  <2>1. Shape'
    BY DEF IInv, Shape, TypeOK, Threads
  <2>2. Locks'
    BY DEF IInv, Shape, TypeOK, Locks, Threads
  <2>3. Held'
    BY DEF IInv, Shape, TypeOK, Locks, Held, RegisteredIsNotRetired, Swept, Threads
  <2>4. RegisteredIsNotRetired'
    BY DEF IInv, Shape, TypeOK, Locks, Held, RegisteredIsNotRetired, Swept, Threads
  <2>5. Swept'
    BY DEF IInv, Shape, TypeOK, Locks, Held, RegisteredIsNotRetired, Swept, Threads
  <2>6. Status'
    BY DEF IInv, Shape, TypeOK, Locks, Held, Status, BusyIsOwned, Threads
  <2>7. Threads'
    BY DEF IInv, Shape, TypeOK, Threads
  <2> QED
    BY <2>1, <2>2, <2>3, <2>4, <2>5, <2>6, <2>7 DEF IInv
<1>6. ASSUME NEW c \in Callers, Register(c) PROVE IInv'
  <2> USE <1>6 DEF Register, Goto
  <2>0. PICK h \in Handles :
           /\ env[h] = Nobody
           /\ envs' = [envs EXCEPT ![key[c]] = h] /\ handle' = [handle EXCEPT ![c] = h]
           /\ env' = [env EXCEPT ![h] = New(key[c], "clean")]
    OBVIOUS
  <2>a. key[c] \in Keys /\ handle[c] = Nobody
    BY DEF IInv, Shape
  <2>n. /\ New(key[c], "clean") \in Envs /\ New(key[c], "clean") # Nobody
        /\ New(key[c], "clean").key = key[c] /\ New(key[c], "clean").status = "clean"
        /\ New(key[c], "clean").retired = FALSE
    BY ONLY <2>a, NewIs
  <2>b. /\ env'[h] \in Envs /\ env'[h] # Nobody /\ env'[h].key = key[c]
        /\ env'[h].status = "clean" /\ env'[h].retired = FALSE
        /\ \A g \in Handles \ {h} : env'[g] = env[g]
        /\ env' \in [Handles -> Envs \cup {Nobody}]
    BY ONLY <2>0, <2>n, IInv DEF IInv, Shape, TypeOK
  <2>1. Shape'
    BY <2>0, <2>a, <2>b DEF IInv, Shape, TypeOK, Threads
  <2>2. Locks'
    BY <2>0, <2>a, <2>b DEF IInv, Shape, TypeOK, Locks, Threads
  <2>3. Held'
    BY <2>0, <2>a, <2>b DEF IInv, Shape, TypeOK, Locks, Held, RegisteredIsNotRetired, Swept, Threads
  <2>4. RegisteredIsNotRetired'
    BY <2>0, <2>a, <2>b DEF IInv, Shape, TypeOK, Locks, Held, RegisteredIsNotRetired, Swept, Threads
  <2>5. Swept'
    BY <2>0, <2>a, <2>b DEF IInv, Shape, TypeOK, Locks, Held, RegisteredIsNotRetired, Swept, Threads
  <2>6. Status'
    BY <2>0, <2>a, <2>b DEF IInv, Shape, TypeOK, Locks, Held, Status, BusyIsOwned, Threads
  <2>7. Threads'
    BY <2>0, <2>a, <2>b DEF IInv, Shape, TypeOK, Threads
  <2> QED
    BY <2>1, <2>2, <2>3, <2>4, <2>5, <2>6, <2>7 DEF IInv
<1>7. ASSUME NEW c \in Callers, Replace(c) PROVE IInv'
  <2> USE <1>7 DEF Replace, Goto
  <2>0. /\ key[c] \in Keys /\ handle[c] \in Handles /\ lock[handle[c]] = c
        /\ env[handle[c]] # Nobody /\ env[handle[c]].key = key[c] /\ ~env[handle[c]].retired
    BY DEF IInv, Shape, TypeOK, Locks, Held
  <2>n. /\ New(key[c], "busy") \in Envs /\ New(key[c], "busy") # Nobody
        /\ New(key[c], "busy").key = key[c] /\ New(key[c], "busy").status = "busy"
        /\ New(key[c], "busy").retired = FALSE
    BY ONLY <2>0, NewIs
  <2>a. /\ env'[handle[c]] # Nobody /\ env'[handle[c]].key = key[c]
        /\ env'[handle[c]].status = "busy" /\ env'[handle[c]].retired = FALSE
        /\ \A g \in Handles \ {handle[c]} : env'[g] = env[g]
        /\ env' \in [Handles -> Envs \cup {Nobody}]
    BY ONLY <2>0, <2>n, <1>7, IInv DEF Replace, IInv, Shape, TypeOK
  <2>1. Shape'
    BY <2>0, <2>a DEF IInv, Shape, TypeOK, Threads
  <2>2. Locks'
    BY <2>0, <2>a DEF IInv, Shape, TypeOK, Locks, Threads
  <2>3. Held'
    BY <2>0, <2>a DEF IInv, Shape, TypeOK, Locks, Held, RegisteredIsNotRetired, Swept, Threads
  <2>4. RegisteredIsNotRetired'
    BY <2>0, <2>a DEF IInv, Shape, TypeOK, Locks, Held, RegisteredIsNotRetired, Swept, Threads
  <2>5. Swept'
    BY <2>0, <2>a DEF IInv, Shape, TypeOK, Locks, Held, RegisteredIsNotRetired, Swept, Threads
  <2>6. Status'
    BY <2>0, <2>a DEF IInv, Shape, TypeOK, Locks, Held, Status, BusyIsOwned, Threads
  <2>7. Threads'
    BY <2>0, <2>a DEF IInv, Shape, TypeOK, Threads
  <2> QED
    BY <2>1, <2>2, <2>3, <2>4, <2>5, <2>6, <2>7 DEF IInv
<1>8. ASSUME NEW c \in Callers, LockEnv(c) PROVE IInv'
  <2>0. /\ pc[c] = "lock" /\ lock[handle[c]] = Nobody /\ handle[c] \in Handles /\ jobs' = jobs
        /\ env[handle[c]] # Nobody /\ env[handle[c]].key = key[c] /\ key[c] \in Keys
    BY <1>8 DEF LockEnv, Free, IInv, Shape, TypeOK, Held
  <2>a. CASE env[handle[c]].retired
    <3>1. /\ Leave(c) /\ Settle(env)
      BY <1>8, <2>a DEF LockEnv
    <3>2. /\ env' \in [Handles -> Envs \cup {Nobody}]
          /\ \A h \in Handles : env'[h] = env[h] \/ env'[h] = Nobody
          /\ \A h \in Handles : Referenced(h)' => env'[h] = env[h]
      BY <3>1, SettleIs DEF IInv, Shape, TypeOK
    <3> USE <2>0, <3>1, <3>2 DEF Leave, Goto, Referenced
    <3>3. Shape'
      BY DEF IInv, Shape, TypeOK, Threads
    <3>4. Locks'
      BY DEF IInv, Shape, TypeOK, Locks, Threads
    <3>5. Held'
      BY DEF IInv, Shape, TypeOK, Locks, Held, RegisteredIsNotRetired, Swept, Threads
    <3>6. RegisteredIsNotRetired'
      BY DEF IInv, Shape, TypeOK, Locks, Held, RegisteredIsNotRetired, Swept, Threads
    <3>7. Swept'
      BY DEF IInv, Shape, TypeOK, Locks, Held, RegisteredIsNotRetired, Swept, Threads
    <3>8. Status'
      <4>1. \A d \in Callers : pc'[d] = "run" => env'[handle'[d]].status = "busy"
        BY DEF IInv, Shape, TypeOK, Locks, Held, Status, BusyIsOwned, Threads
      <4>2. BusyIsOwned'
        BY DEF IInv, Shape, TypeOK, Locks, Held, Status, BusyIsOwned, Threads
      <4>3. \A g \in Handles : env'[g] # Nobody /\ env'[g].retired => env'[g].status = "dead"
        BY DEF IInv, Shape, TypeOK, Locks, Held, Status, BusyIsOwned, Threads
      <4> QED
        BY <4>1, <4>2, <4>3 DEF Status
    <3>9. Threads'
      BY DEF IInv, Shape, TypeOK, Threads
    <3> QED
      BY <3>3, <3>4, <3>5, <3>6, <3>7, <3>8, <3>9 DEF IInv
  <2>b. CASE ~env[handle[c]].retired
    <3>1. /\ lock' = [lock EXCEPT ![handle[c]] = c]
          /\ \/ env' = WithStatus(handle[c], "busy") /\ Goto(c, "run")
             \/ env' = WithStatus(handle[c], "dead") /\ Goto(c, "cold")
          /\ UNCHANGED <<db, registry, key, handle, swept, full, jobs>>
      BY <1>8, <2>b DEF LockEnv
    <3>2. PICK s \in {"busy", "dead"} :
             env' = WithStatus(handle[c], s) /\ pc' = [pc EXCEPT ![c] = IF s = "busy" THEN "run" ELSE "cold"]
      BY <3>1 DEF Goto
    <3>x. /\ env' \in [Handles -> Envs \cup {Nobody}]
          /\ \A g \in Handles \ {handle[c]} : env'[g] = env[g]
          /\ env'[handle[c]] # Nobody /\ env'[handle[c]].key = env[handle[c]].key
          /\ env'[handle[c]].status = s /\ env'[handle[c]].retired = env[handle[c]].retired
      BY <2>0, <3>2, WithStatusIs DEF IInv
    <3> USE <2>0, <2>b, <3>1, <3>2, <3>x
    <3>3. Shape'
      <4>1. TypeOK'
        BY DEF IInv, Shape, TypeOK
      <4>2. \A a \in Admins : pc'[a] \in AdminPcs
        BY DEF IInv, Shape, TypeOK
      <4>3. (\A d \in Callers :
               /\ pc[d] \in CallerPcs
               /\ pc[d] # "idle" => key[d] \in Keys
               /\ pc[d] \in {"idle", "lookup", "write"} => handle[d] = Nobody
               /\ pc[d] \in {"lock", "run"} => handle[d] # Nobody
               /\ pc[d] \in Booting => (handle[d] = Nobody <=> writer = d))'
        BY DEF IInv, Shape, TypeOK, Locks
      <4> QED
        BY <4>1, <4>2, <4>3 DEF Shape
    <3>4. Locks'
      BY DEF IInv, Shape, TypeOK, Locks, Threads
    <3>5. Held'
      BY SMTT(30) DEF IInv, Shape, TypeOK, Locks, Held, RegisteredIsNotRetired, Swept, Threads
    <3>6. RegisteredIsNotRetired'
      BY DEF IInv, Shape, TypeOK, Locks, Held, RegisteredIsNotRetired, Swept, Threads
    <3>7. Swept'
      BY DEF IInv, Shape, TypeOK, Locks, Held, RegisteredIsNotRetired, Swept, Threads
    <3>8. Status'
      BY DEF IInv, Shape, TypeOK, Locks, Held, Status, BusyIsOwned, Threads
    <3>9. Threads'
      BY DEF IInv, Shape, TypeOK, Threads
    <3> QED
      BY <3>3, <3>4, <3>5, <3>6, <3>7, <3>8, <3>9 DEF IInv
  <2> QED
    BY <2>a, <2>b
<1>9. ASSUME NEW c \in Callers, Return(c) PROVE IInv'
  <2>0. /\ pc[c] = "run" /\ handle[c] \in Handles /\ lock[handle[c]] = c
        /\ env[handle[c]] # Nobody /\ env[handle[c]].key = key[c] /\ jobs' = jobs
    BY <1>9 DEF Return, IInv, Shape, TypeOK, Held, Locks
  <2>a. PICK s \in {"clean", "dead"} : Settle(WithStatus(handle[c], s))
    BY <1>9 DEF Return
  <2>b. Leave(c)
    BY <1>9 DEF Return
  <2>c. /\ WithStatus(handle[c], s) \in [Handles -> Envs \cup {Nobody}]
        /\ \A g \in Handles \ {handle[c]} : WithStatus(handle[c], s)[g] = env[g]
        /\ WithStatus(handle[c], s)[handle[c]] # Nobody /\ WithStatus(handle[c], s)[handle[c]].key = env[handle[c]].key
        /\ WithStatus(handle[c], s)[handle[c]].status = s /\ WithStatus(handle[c], s)[handle[c]].retired = env[handle[c]].retired
    BY <2>0, WithStatusIs DEF IInv
  <2>d. /\ env' \in [Handles -> Envs \cup {Nobody}]
        /\ \A h \in Handles : env'[h] = WithStatus(handle[c], s)[h] \/ env'[h] = Nobody
        /\ \A h \in Handles : Referenced(h)' => env'[h] = WithStatus(handle[c], s)[h]
    BY <2>a, <2>c, SettleIs
  <2> USE <2>0, <2>b, <2>c, <2>d DEF Leave, Goto, Referenced
  <2>1. Shape'
    BY DEF IInv, Shape, TypeOK, Threads
  <2>2. Locks'
    BY DEF IInv, Shape, TypeOK, Locks, Threads
  <2>3. Held'
    BY SMTT(30) DEF IInv, Shape, TypeOK, Locks, Held, RegisteredIsNotRetired, Swept, Threads
  <2>4. RegisteredIsNotRetired'
    BY DEF IInv, Shape, TypeOK, Locks, Held, RegisteredIsNotRetired, Swept, Threads
  <2>5. Swept'
    BY DEF IInv, Shape, TypeOK, Locks, Held, RegisteredIsNotRetired, Swept, Threads
  <2>6. Status'
    <3>1. \A d \in Callers : pc'[d] = "run" => env'[handle'[d]].status = "busy"
      BY DEF IInv, Shape, TypeOK, Locks, Held, Status, BusyIsOwned, Threads
    <3>2. BusyIsOwned'
      BY SMTT(30) DEF IInv, Shape, TypeOK, Locks, Held, Status, BusyIsOwned, Threads
    <3>3. \A g \in Handles : env'[g] # Nobody /\ env'[g].retired => env'[g].status = "dead"
      BY DEF IInv, Shape, TypeOK, Locks, Held, Status, BusyIsOwned, Threads
    <3> QED
      BY <3>1, <3>2, <3>3 DEF Status
  <2>7. Threads'
    BY DEF IInv, Shape, TypeOK, Threads
  <2> QED
    BY <2>1, <2>2, <2>3, <2>4, <2>5, <2>6, <2>7 DEF IInv
<1>10. ASSUME NEW c \in Callers, GiveUp(c) PROVE IInv'
  <2>0. Leave(c) /\ Settle(Abandon(c)) /\ pc[c] # "idle"
    BY <1>10 DEF GiveUp
  <2>a. pc[c] = "run" => handle[c] \in Handles /\ lock[handle[c]] = c /\ env[handle[c]] # Nobody
    BY DEF IInv, Shape, TypeOK, Held, Locks
  <2>b. /\ Abandon(c) \in [Handles -> Envs \cup {Nobody}]
        /\ \A g \in Handles : (env[g] = Nobody <=> Abandon(c)[g] = Nobody)
        /\ \A g \in Handles : env[g] # Nobody =>
             Abandon(c)[g].key = env[g].key /\ Abandon(c)[g].retired = env[g].retired
        /\ \A g \in Handles : (pc[c] = "run" /\ g = handle[c]) => Abandon(c)[g].status = "dead"
        /\ \A g \in Handles : ~(pc[c] = "run" /\ g = handle[c]) => Abandon(c)[g] = env[g]
    <3>1. CASE pc[c] = "run"
      BY <2>a, <3>1, WithStatusIs DEF Abandon, IInv
    <3>2. CASE pc[c] # "run"
      BY <3>2 DEF Abandon, IInv, Shape, TypeOK
    <3> QED
      BY <3>1, <3>2
  <2>c. /\ env' \in [Handles -> Envs \cup {Nobody}]
        /\ \A h \in Handles : env'[h] = Abandon(c)[h] \/ env'[h] = Nobody
        /\ \A h \in Handles : Referenced(h)' => env'[h] = Abandon(c)[h]
    BY <2>0, <2>b, SettleIs
  <2>d. /\ jobs' \subseteq Jobs
        /\ \A i \in jobs' : i.owner # Nobody => i \in jobs /\ i.owner # c
    BY <1>10 DEF GiveUp, IInv, Shape, TypeOK, Jobs
  <2> USE <2>0, <2>a, <2>b, <2>c, <2>d DEF Leave, Goto, Referenced
  <2>1. Shape'
    BY DEF IInv, Shape, TypeOK, Threads
  <2>2. Locks'
    BY DEF IInv, Shape, TypeOK, Locks, Threads
  <2>3. Held'
    BY DEF IInv, Shape, TypeOK, Locks, Held, RegisteredIsNotRetired, Swept, Threads
  <2>4. RegisteredIsNotRetired'
    BY DEF IInv, Shape, TypeOK, Locks, Held, RegisteredIsNotRetired, Swept, Threads
  <2>5. Swept'
    BY DEF IInv, Shape, TypeOK, Locks, Held, RegisteredIsNotRetired, Swept, Threads
  <2>6. Status'
    <3>1. pc'[c] = "idle" /\ \A d \in Callers \ {c} : pc'[d] = pc[d] /\ handle'[d] = handle[d]
      BY DEF IInv, Shape, TypeOK, Tasks
    <3>2. ASSUME NEW d \in Callers, pc'[d] = "run" PROVE env'[handle'[d]].status = "busy"
      <4>1. d # c /\ pc[d] = "run" /\ handle'[d] = handle[d] /\ env[handle[d]].status = "busy"
        BY <3>1, <3>2 DEF IInv, Status
      <4>2. handle[d] \in Handles /\ lock[handle[d]] = d
        BY <4>1 DEF IInv, Shape, TypeOK, Held, Locks
      <4>3. ~(pc[c] = "run" /\ handle[d] = handle[c])
        BY <4>1, <4>2
      <4>4. Referenced(handle[d])'
        BY <3>1, <4>1, <4>2
      <4> QED
        BY <4>1, <4>2, <4>3, <4>4
    <3>3. BusyIsOwned'
      <4> SUFFICES ASSUME NEW h \in Handles, env'[h] # Nobody, env'[h].status = "busy"
                   PROVE  \E d \in Callers : pc'[d] = "run" /\ handle'[d] = h
        BY DEF BusyIsOwned
      <4>1. ~(pc[c] = "run" /\ h = handle[c]) /\ env[h] = env'[h]
        OBVIOUS
      <4>2. PICK d \in Callers : pc[d] = "run" /\ handle[d] = h
        BY <4>1 DEF IInv, Status, BusyIsOwned
      <4> QED
        BY <3>1, <4>1, <4>2
    <3>4. ASSUME NEW g \in Handles, env'[g] # Nobody, env'[g].retired PROVE env'[g].status = "dead"
      BY <3>4 DEF IInv, Status
    <3> QED
      BY <3>2, <3>3, <3>4 DEF Status
  <2>7. Threads'
    BY DEF IInv, Shape, TypeOK, Threads
  <2> QED
    BY <2>1, <2>2, <2>3, <2>4, <2>5, <2>6, <2>7 DEF IInv
<1>11. ASSUME NEW a \in Admins, NEW n \in Names, Create(a, n) PROVE IInv'
  <2> USE <1>11 DEF Create, Envs, Jobs
  <2>1. Shape'
    BY DEF IInv, Shape, TypeOK, Threads
  <2>2. Locks'
    BY DEF IInv, Shape, TypeOK, Locks, Threads
  <2>3. Held'
    BY DEF IInv, Shape, TypeOK, Locks, Held, RegisteredIsNotRetired, Swept, Threads
  <2>4. RegisteredIsNotRetired'
    BY DEF IInv, Shape, TypeOK, Locks, Held, RegisteredIsNotRetired, Swept, Threads
  <2>5. Swept'
    BY DEF IInv, Shape, TypeOK, Locks, Held, RegisteredIsNotRetired, Swept, Threads
  <2>6. Status'
    BY DEF IInv, Shape, TypeOK, Locks, Held, Status, BusyIsOwned, Threads
  <2>7. Threads'
    BY DEF IInv, Shape, TypeOK, Threads
  <2> QED
    BY <2>1, <2>2, <2>3, <2>4, <2>5, <2>6, <2>7 DEF IInv
<1>12. ASSUME NEW a \in Admins, NEW n \in Names, Change(a, n) PROVE IInv'
  <2> USE <1>12 DEF Change, Goto, Envs, Jobs
  <2>1. Shape'
    BY DEF IInv, Shape, TypeOK, Threads
  <2>2. Locks'
    BY DEF IInv, Shape, TypeOK, Locks, Threads
  <2>3. Held'
    BY DEF IInv, Shape, TypeOK, Locks, Held, RegisteredIsNotRetired, Swept, Threads
  <2>4. RegisteredIsNotRetired'
    BY DEF IInv, Shape, TypeOK, Locks, Held, RegisteredIsNotRetired, Swept, Threads
  <2>5. Swept'
    BY DEF IInv, Shape, TypeOK, Locks, Held, RegisteredIsNotRetired, Swept, Threads
  <2>6. Status'
    BY DEF IInv, Shape, TypeOK, Locks, Held, Status, BusyIsOwned, Threads
  <2>7. Threads'
    BY DEF IInv, Shape, TypeOK, Threads
  <2> QED
    BY <2>1, <2>2, <2>3, <2>4, <2>5, <2>6, <2>7 DEF IInv
<1>13. ASSUME NEW a \in Admins, Sweep(a) PROVE IInv'
  <2> USE <1>13 DEF Sweep, Unregister, Goto, Envs, Jobs
  <2>1. Shape'
    BY DEF IInv, Shape, TypeOK, Threads
  <2>2. Locks'
    BY DEF IInv, Shape, TypeOK, Locks, Threads
  <2>3. Held'
    BY DEF IInv, Shape, TypeOK, Locks, Held, RegisteredIsNotRetired, Swept, Threads
  <2>4. RegisteredIsNotRetired'
    BY DEF IInv, Shape, TypeOK, Locks, Held, RegisteredIsNotRetired, Swept, Threads
  <2>5. Swept'
    BY DEF IInv, Shape, TypeOK, Locks, Held, RegisteredIsNotRetired, Swept, Threads
  <2>6. Status'
    BY DEF IInv, Shape, TypeOK, Locks, Held, Status, BusyIsOwned, Threads
  <2>7. Threads'
    BY DEF IInv, Shape, TypeOK, Threads
  <2> QED
    BY <2>1, <2>2, <2>3, <2>4, <2>5, <2>6, <2>7 DEF IInv
<1>14. ASSUME NEW a \in Admins, NEW h \in Handles, Retire(a, h) PROVE IInv'
  <2> DEFINE e == [env EXCEPT ![h] = [key |-> @.key, status |-> "dead", retired |-> TRUE]]
  <2>0. /\ pc[a] = "retire" /\ h \in swept[a] /\ lock[h] = Nobody /\ Settle(e)
        /\ key' = [key EXCEPT ![a] = env[h].key] /\ swept' = [swept EXCEPT ![a] = @ \ {h}]
        /\ pc' = [pc EXCEPT ![a] = "remove"]
        /\ UNCHANGED <<envs, handle, db, writer, lock, roots>>
    BY <1>14 DEF Retire, Free, Goto
  <2>a. env[h] \in Envs /\ env[h] # Nobody /\ env[h].key \in Keys
    BY <2>0 DEF IInv, Swept, Shape, TypeOK, Envs
  <2>b. /\ e \in [Handles -> Envs \cup {Nobody}]
        /\ \A g \in Handles \ {h} : e[g] = env[g]
        /\ e[h] # Nobody /\ e[h].key = env[h].key /\ e[h].status = "dead" /\ e[h].retired = TRUE
    <3>1. [key |-> env[h].key, status |-> "dead", retired |-> TRUE] \in Envs
      BY <2>a DEF Envs
    <3>2. [key |-> env[h].key, status |-> "dead", retired |-> TRUE] # Nobody
      BY ONLY <3>1, NobodyAssumption
    <3>3. env \in [Handles -> Envs \cup {Nobody}]
      BY DEF IInv, Shape, TypeOK
    <3> QED
      BY ONLY <3>1, <3>2, <3>3
  <2> HIDE DEF e
  <2>c. /\ env' \in [Handles -> Envs \cup {Nobody}]
        /\ \A g \in Handles : env'[g] = e[g] \/ env'[g] = Nobody
        /\ \A g \in Handles : Referenced(g)' => env'[g] = e[g]
    BY <2>0, <2>b, SettleIs
  <2> USE <2>0, <2>a, <2>b, <2>c DEF Referenced
  <2>1. Shape'
    BY DEF IInv, Shape, TypeOK, Threads
  <2>2. Locks'
    BY DEF IInv, Shape, TypeOK, Locks, Threads
  <2>3. Held'
    BY DEF IInv, Shape, TypeOK, Locks, Held, RegisteredIsNotRetired, Swept, Threads
  <2>4. RegisteredIsNotRetired'
    BY DEF IInv, Shape, TypeOK, Locks, Held, RegisteredIsNotRetired, Swept, Threads
  <2>5. Swept'
    BY DEF IInv, Shape, TypeOK, Locks, Held, RegisteredIsNotRetired, Swept, Threads
  <2>6. Status'
    <3>1. \A d \in Callers : pc'[d] = "run" => env'[handle'[d]].status = "busy"
      BY DEF IInv, Shape, TypeOK, Locks, Held, Status, BusyIsOwned, Threads
    <3>2. BusyIsOwned'
      BY DEF IInv, Shape, TypeOK, Locks, Held, Status, BusyIsOwned, Threads
    <3>3. \A g \in Handles : env'[g] # Nobody /\ env'[g].retired => env'[g].status = "dead"
      BY DEF IInv, Shape, TypeOK, Locks, Held, Status, BusyIsOwned, Threads
    <3> QED
      BY <3>1, <3>2, <3>3 DEF Status
  <2>7. Threads'
    BY DEF IInv, Shape, TypeOK, Threads
  <2> QED
    BY <2>1, <2>2, <2>3, <2>4, <2>5, <2>6, <2>7 DEF IInv
<1>15. ASSUME NEW a \in Admins, RemoveRoot(a) PROVE IInv'
  <2> DEFINE Torn(j) == IF j.key = key[a] THEN [key |-> j.key, owner |-> j.owner, torn |-> TRUE] ELSE j
  <2>0. jobs' = {Torn(j) : j \in jobs} /\ pc[a] = "remove" /\ pc' = [pc EXCEPT ![a] = "retire"]
    BY <1>15 DEF RemoveRoot, Goto
  <2>a. \A j \in jobs : Torn(j) \in Jobs /\ Torn(j).owner = j.owner
    BY DEF IInv, Shape, TypeOK, Jobs
  <2>b. /\ full' \subseteq full /\ UNCHANGED <<db, registry, env, lock, key, handle, swept>>
    BY <1>15 DEF RemoveRoot
  <2> HIDE DEF Torn
  <2>c. jobs' \subseteq Jobs /\ \A i \in jobs' : \E j \in jobs : i = Torn(j) /\ i.owner = j.owner
    BY <2>0, <2>a
  <2> USE <2>0, <2>b, <2>c
  <2>1. Shape'
    BY DEF IInv, Shape, TypeOK, Threads
  <2>2. Locks'
    BY DEF IInv, Shape, TypeOK, Locks, Threads
  <2>3. Held'
    BY DEF IInv, Shape, TypeOK, Locks, Held, RegisteredIsNotRetired, Swept, Threads
  <2>4. RegisteredIsNotRetired'
    BY DEF IInv, Shape, TypeOK, Locks, Held, RegisteredIsNotRetired, Swept, Threads
  <2>5. Swept'
    BY DEF IInv, Shape, TypeOK, Locks, Held, RegisteredIsNotRetired, Swept, Threads
  <2>6. Status'
    BY DEF IInv, Shape, TypeOK, Locks, Held, Status, BusyIsOwned, Threads
  <2>7. Threads'
    BY DEF IInv, Shape, TypeOK, Threads, Jobs
  <2> QED
    BY <2>1, <2>2, <2>3, <2>4, <2>5, <2>6, <2>7 DEF IInv
<1>16. ASSUME NEW a \in Admins, Done(a) PROVE IInv'
  <2> USE <1>16 DEF Done, Goto, Envs, Jobs
  <2>1. Shape'
    BY DEF IInv, Shape, TypeOK, Threads
  <2>2. Locks'
    BY DEF IInv, Shape, TypeOK, Locks, Threads
  <2>3. Held'
    BY DEF IInv, Shape, TypeOK, Locks, Held, RegisteredIsNotRetired, Swept, Threads
  <2>4. RegisteredIsNotRetired'
    BY DEF IInv, Shape, TypeOK, Locks, Held, RegisteredIsNotRetired, Swept, Threads
  <2>5. Swept'
    BY DEF IInv, Shape, TypeOK, Locks, Held, RegisteredIsNotRetired, Swept, Threads
  <2>6. Status'
    BY DEF IInv, Shape, TypeOK, Locks, Held, Status, BusyIsOwned, Threads
  <2>7. Threads'
    BY DEF IInv, Shape, TypeOK, Threads
  <2> QED
    BY <2>1, <2>2, <2>3, <2>4, <2>5, <2>6, <2>7 DEF IInv
<1>17. ASSUME NEW a \in Admins, Abort(a) PROVE IInv'
  <2> USE <1>17 DEF Abort, Settle, Referenced, Goto, Envs, Jobs
  <2>1. Shape'
    BY DEF IInv, Shape, TypeOK, Threads
  <2>2. Locks'
    BY DEF IInv, Shape, TypeOK, Locks, Threads
  <2>3. Held'
    BY DEF IInv, Shape, TypeOK, Locks, Held, RegisteredIsNotRetired, Swept, Threads
  <2>4. RegisteredIsNotRetired'
    BY DEF IInv, Shape, TypeOK, Locks, Held, RegisteredIsNotRetired, Swept, Threads
  <2>5. Swept'
    BY DEF IInv, Shape, TypeOK, Locks, Held, RegisteredIsNotRetired, Swept, Threads
  <2>6. Status'
    BY DEF IInv, Shape, TypeOK, Locks, Held, Status, BusyIsOwned, Threads
  <2>7. Threads'
    BY DEF IInv, Shape, TypeOK, Threads
  <2> QED
    BY <2>1, <2>2, <2>3, <2>4, <2>5, <2>6, <2>7 DEF IInv
<1>18. ASSUME UNCHANGED vars PROVE IInv'
  BY <1>18 DEF vars, IInv, Shape, TypeOK, Locks, Held, RegisteredIsNotRetired, Swept, Status, BusyIsOwned, Threads, Referenced
<1> QED
  BY <1>1, <1>2, <1>3, <1>4, <1>5, <1>6, <1>7, <1>8, <1>9, <1>10, <1>11, <1>12, <1>13, <1>14, <1>15, <1>16, <1>17, <1>18
     DEF Next, ColdStartStep, Wait

LEMMA Invariant == Spec => []IInv
<1>1. Init => IInv
  <2> SUFFICES ASSUME Init PROVE IInv
    OBVIOUS
  <2> USE InvokerAssumption, NobodyAssumption DEF Init, Tasks
  <2>1. Shape
    BY DEF Shape, TypeOK, CallerPcs, AdminPcs, Booting
  <2>2. Locks /\ Held /\ RegisteredIsNotRetired /\ Swept /\ Status /\ Threads
    BY DEF Locks, Held, RegisteredIsNotRetired, Swept, Status, BusyIsOwned, Threads, Booting
  <2> QED
    BY <2>1, <2>2 DEF IInv
<1> QED
  BY <1>1, Inductive, PTL DEF Spec

(* Every variable keeps its type along every behaviour. *)
THEOREM TypeCorrect == Spec => []TypeOK
BY Invariant, PTL DEF IInv, Shape

(* Callers in the middle of an invocation and processes in use pair off: no *)
(* process serves two, is terminated under its caller, or is in use without *)
(* one.                                                                     *)
THEOREM Exclusive == Spec => []OneInvocationPerProcess
<1>1. IInv => RunningAlone
  <2> SUFFICES ASSUME IInv, NEW c \in Callers, pc[c] = "run"
               PROVE  /\ env[handle[c]] # Nobody
                      /\ env[handle[c]].status = "busy" /\ ~env[handle[c]].retired
                      /\ \A d \in Callers \ {c} : pc[d] = "run" => handle[d] # handle[c]
    BY DEF RunningAlone
  <2>1. handle[c] \in Handles /\ lock[handle[c]] = c
    BY DEF IInv, Shape, TypeOK, Locks
  <2>2. \A d \in Callers : pc[d] = "run" => lock[handle[d]] = d
    BY DEF IInv, Shape, Locks
  <2>3. env[handle[c]] # Nobody /\ ~env[handle[c]].retired /\ env[handle[c]].status = "busy"
    BY <2>1, InvokerAssumption DEF IInv, Held, Status
  <2> QED
    BY <2>1, <2>2, <2>3
<1>2. IInv => BusyIsOwned
  BY DEF IInv, Status
<1> QED
  BY <1>1, <1>2, Invariant, PTL DEF OneInvocationPerProcess

(* An invocation runs the revision it resolved. *)
THEOREM RunsWhatItResolved == Spec => []RunsResolvedRevision
<1>1. IInv => RunsResolvedRevision
  BY DEF IInv, Shape, Held, RunsResolvedRevision
<1> QED
  BY <1>1, Invariant, PTL

(* A lookup never finds a retired environment. *)
THEOREM RegistryHoldsLive == Spec => []RegisteredIsNotRetired
BY Invariant, PTL DEF IInv

LEMMA RetiredStep ==
  ASSUME IInv, Next, NEW g \in Handles, env[g] # Nobody, env[g].retired
  PROVE  env'[g] = Nobody \/ (env'[g].retired /\ env'[g].status = "dead")
<1> USE InvokerAssumption
<1>0. env[g].status = "dead" /\ env \in [Handles -> Envs \cup {Nobody}] /\ lock[g] = Nobody
  BY DEF IInv, Status, Shape, TypeOK, Held
<1>1. CASE env' = env
  BY <1>0, <1>1
<1>2. ASSUME NEW c \in Callers, Register(c) PROVE env'[g] = env[g]
  BY <1>0, <1>2 DEF Register
<1>3. ASSUME NEW c \in Callers, Replace(c) PROVE env'[g] = env[g]
  <2>1. g # handle[c]
    BY <1>0, <1>3 DEF Replace, IInv, Shape, TypeOK, Locks, Booting
  <2> QED
    BY <1>0, <1>3, <2>1 DEF Replace
<1>4. ASSUME NEW c \in Callers, LockEnv(c) PROVE env'[g] = env[g] \/ env'[g] = Nobody
  <2>1. CASE env[handle[c]].retired
    BY <1>0, <1>4, <2>1, SettleIs DEF LockEnv
  <2>2. CASE ~env[handle[c]].retired
    <3>1. PICK s \in {"busy", "dead"} : env' = WithStatus(handle[c], s)
      BY <1>4, <2>2 DEF LockEnv
    <3> QED
      BY <1>0, <2>2, <3>1 DEF WithStatus
  <2> QED
    BY <2>1, <2>2
<1>5. ASSUME NEW c \in Callers, Return(c) PROVE env'[g] = env[g] \/ env'[g] = Nobody
  <2>1. PICK s \in {"clean", "dead"} : Settle(WithStatus(handle[c], s))
    BY <1>5 DEF Return
  <2>2. WithStatus(handle[c], s)[g] = env[g]
    BY <1>0, <1>5 DEF WithStatus, Return, IInv, Shape, TypeOK, Locks, Booting
  <2> QED
    BY <2>1, <2>2 DEF Settle
<1>6. ASSUME NEW c \in Callers, GiveUp(c) PROVE env'[g] = env[g] \/ env'[g] = Nobody
  <2>1. Settle(Abandon(c))
    BY <1>6 DEF GiveUp
  <2>2. Abandon(c)[g] = env[g]
    BY <1>0 DEF Abandon, WithStatus, IInv, Shape, TypeOK, Locks, Booting
  <2> QED
    BY <2>1, <2>2 DEF Settle
<1>7. ASSUME NEW a \in Admins, NEW h \in Handles, Retire(a, h)
      PROVE  env'[g] = Nobody \/ (env'[g].retired /\ env'[g].status = "dead")
  BY <1>0, <1>7 DEF Retire, Settle
<1>8. ASSUME NEW a \in Admins, Abort(a) PROVE env'[g] = env[g] \/ env'[g] = Nobody
  BY <1>8 DEF Abort, Settle
<1>9. CASE /\ \A c \in Callers : ~Register(c) /\ ~Replace(c) /\ ~LockEnv(c) /\ ~Return(c) /\ ~GiveUp(c)
           /\ \A a \in Admins : ~Abort(a) /\ \A h \in Handles : ~Retire(a, h)
  BY <1>1, <1>9 DEF Next, ColdStartStep, Resolve, LookupRead, LookupWrite, StartUnpack, FinishUnpack,
       Create, Change, Sweep, RemoveRoot, Done, Wait, vars
<1> QED
  BY <1>0, <1>2, <1>3, <1>4, <1>5, <1>6, <1>7, <1>8, <1>9

(* Retirement is final. *)
THEOREM RetirementIsFinal == Spec => RetiredForever
<1>1. IInv /\ [Next]_vars =>
        [\A h \in Handles : env[h] # Nobody /\ env[h].retired =>
           env'[h] = Nobody \/ (env'[h].retired /\ env'[h].status = "dead")]_vars
  BY RetiredStep
<1> QED
  BY <1>1, Invariant, PTL DEF Spec, RetiredForever

-----------------------------------------------------------------------------
(* A process serves the handle and the key it was started for: what is      *)
(* alive was alive before, or a cold start has just ended.                  *)
Alive(h) == env[h] # Nobody /\ env[h].status # "dead"
Starts(c, h) == pc[c] = "spawn" /\ pc'[c] \in {"lock", "run"} /\ handle'[c] = h /\ env'[h].key = key[c]

LEMMA ProcessesStay ==
  ASSUME IInv, [Next]_vars, NEW g \in Handles, Alive(g)'
  PROVE  (Alive(g) /\ env'[g].key = env[g].key) \/ \E c \in Callers : Starts(c, g)
<1> USE InvokerAssumption DEF Alive
<1>0. /\ env \in [Handles -> Envs \cup {Nobody}]
      /\ \A c \in Callers : pc' = [pc EXCEPT ![c] = "lock"] => pc'[c] = "lock"
      /\ \A c \in Callers : pc' = [pc EXCEPT ![c] = "run"] => pc'[c] = "run"
      /\ \A c \in Callers : handle' = [handle EXCEPT ![c] = g] => handle'[c] = g
  BY DEF IInv, Shape, TypeOK, Tasks
<1>1. CASE env'[g] = env[g]
  BY <1>1
<1>2. ASSUME NEW c \in Callers, Register(c), env'[g] # env[g] PROVE Starts(c, g)
  <2>1. /\ env' = [env EXCEPT ![g] = New(key[c], "clean")] /\ handle'[c] = g
        /\ pc[c] = "spawn" /\ pc'[c] = "lock" /\ key[c] \in Keys
    BY <1>0, <1>2 DEF Register, Goto, IInv, Shape
  <2>2. env'[g].key = key[c]
    BY <1>0, <2>1, NewIs
  <2> QED
    BY <2>1, <2>2 DEF Starts
<1>3. ASSUME NEW c \in Callers, Replace(c), env'[g] # env[g] PROVE Starts(c, g)
  <2>1. /\ g = handle[c] /\ env'[g] = New(key[c], "busy") /\ handle' = handle
        /\ pc[c] = "spawn" /\ pc'[c] = "run" /\ key[c] \in Keys
    BY <1>0, <1>3 DEF Replace, Goto, IInv, Shape
  <2>2. env'[g].key = key[c]
    BY ZenonT(30), <2>1, NewIs
  <2> QED
    BY <2>1, <2>2 DEF Starts
<1>4. ASSUME NEW c \in Callers, LockEnv(c), env'[g] # env[g] PROVE Alive(g) /\ env'[g].key = env[g].key
  <2>0. handle[c] \in Handles /\ env[handle[c]] # Nobody
    BY <1>4 DEF LockEnv, IInv, Shape, TypeOK, Held
  <2>1. CASE env[handle[c]].retired
    BY <1>0, <1>4, <2>1, SettleIs DEF LockEnv
  <2>2. CASE ~env[handle[c]].retired
    <3>1. PICK s \in {"busy", "dead"} :
            env' = WithStatus(handle[c], s) /\ (s = "busy" => env[handle[c]].status = "clean")
      BY <1>4, <2>2 DEF LockEnv
    <3>2. g = handle[c]
      BY <1>4, <2>0, <3>1, WithStatusIs DEF IInv
    <3> QED
      BY <2>0, <3>1, <3>2, WithStatusIs DEF IInv
  <2> QED
    BY <2>1, <2>2
<1>5. ASSUME NEW c \in Callers, NEW s \in {"clean", "dead"}, pc[c] = "run", Settle(WithStatus(handle[c], s)),
             env'[g] # env[g]
      PROVE  Alive(g) /\ env'[g].key = env[g].key
  <2>1. handle[c] \in Handles /\ env[handle[c]] # Nobody /\ env[handle[c]].status = "busy"
    BY <1>5 DEF IInv, Shape, TypeOK, Held, Status
  <2>2. env'[g] = WithStatus(handle[c], s)[g] \/ env'[g] = Nobody
    BY <1>5 DEF Settle
  <2>3. g = handle[c]
    BY <1>5, <2>1, <2>2, WithStatusIs DEF IInv
  <2> QED
    BY <2>1, <2>2, <2>3, WithStatusIs DEF IInv
<1>6. ASSUME NEW c \in Callers, GiveUp(c), env'[g] # env[g] PROVE Alive(g) /\ env'[g].key = env[g].key
  <2>1. CASE pc[c] = "run"
    BY <1>5, <1>6, <2>1 DEF GiveUp, Abandon
  <2>2. CASE pc[c] # "run"
    BY <1>6, <2>2 DEF GiveUp, Abandon, Settle
  <2> QED
    BY <2>1, <2>2
<1>7. ASSUME NEW a \in Admins, NEW h \in Handles, Retire(a, h), env'[g] # env[g] PROVE FALSE
  BY <1>0, <1>7 DEF Retire, Settle
<1>8. ASSUME NEW a \in Admins, Abort(a), env'[g] # env[g] PROVE FALSE
  BY <1>8 DEF Abort, Settle
<1>9. CASE /\ \A c \in Callers : ~Register(c) /\ ~Replace(c) /\ ~LockEnv(c) /\ ~Return(c) /\ ~GiveUp(c)
           /\ \A a \in Admins : ~Abort(a) /\ \A h \in Handles : ~Retire(a, h)
  <2>1. env' = env
    BY <1>9 DEF Next, ColdStartStep, Resolve, LookupRead, LookupWrite, StartUnpack, FinishUnpack,
       Create, Change, Sweep, RemoveRoot, Done, Wait, vars
  <2> QED
    BY <2>1
<1> QED
  BY <1>1, <1>2, <1>3, <1>4, <1>5, <1>6, <1>7, <1>8, <1>9 DEF Return

(* An environment keeps its key, and only an invalidation of that key       *)
(* retires it.                                                              *)
Retires(a, h) == pc'[a] = "remove" /\ key'[a] = env[h].key

LEMMA EnvironmentsStay ==
  ASSUME IInv, [Next]_vars, NEW g \in Handles, env'[g] # Nobody
  PROVE  IF env[g] = Nobody THEN ~env'[g].retired
         ELSE /\ env'[g].key = env[g].key
              /\ env'[g].retired => env[g].retired \/ \E a \in Admins : Retires(a, g)
<1> DEFINE Stays == env[g] # Nobody /\ env'[g].key = env[g].key /\ env'[g].retired = env[g].retired
<1>0. /\ env \in [Handles -> Envs \cup {Nobody}] /\ key \in [Tasks -> Keys \cup Names \cup {Nobody}]
      /\ \A a \in Admins : pc' = [pc EXCEPT ![a] = "remove"] => pc'[a] = "remove"
  BY DEF IInv, Shape, TypeOK, Tasks
<1>1. ASSUME env'[g] = env[g] PROVE Stays
  BY <1>1
<1>2. ASSUME NEW c \in Callers, NEW s \in {"clean", "busy", "dead"}, NEW STATE e, e = WithStatus(handle[c], s),
             handle[c] # Nobody, env'[g] = e[g]
      PROVE  Stays
  <2>1. handle[c] \in Handles /\ env[handle[c]] # Nobody
    BY <1>2 DEF IInv, Shape, TypeOK, Held
  <2> QED
    BY <1>1, <1>2, <2>1, WithStatusIs DEF IInv
<1>3. ASSUME NEW c \in Callers, Register(c), env'[g] # env[g] PROVE env[g] = Nobody /\ ~env'[g].retired
  <2>1. env[g] = Nobody /\ env' = [env EXCEPT ![g] = New(key[c], "clean")] /\ key[c] \in Keys
    BY <1>0, <1>3 DEF Register, IInv, Shape
  <2> QED
    BY <1>0, <2>1, NewIs DEF New
<1>4. ASSUME NEW c \in Callers, Replace(c), env'[g] # env[g]
      PROVE  env[g] # Nobody /\ env'[g].key = env[g].key /\ ~env'[g].retired
  <2>1. g = handle[c] /\ env'[g] = New(key[c], "busy") /\ key[c] \in Keys
    BY <1>0, <1>4 DEF Replace, IInv, Shape
  <2>2. env[g] # Nobody /\ env[g].key = key[c]
    BY <2>1, InvokerAssumption DEF IInv, Held
  <2> QED
    BY <2>1, <2>2, NewIs DEF New
<1>5. ASSUME NEW c \in Callers, LockEnv(c) PROVE Stays
  <2>1. CASE env[handle[c]].retired
    BY <1>1, <1>5, <2>1 DEF LockEnv, Settle
  <2>2. CASE ~env[handle[c]].retired
    BY <1>2, <1>5, <2>2 DEF LockEnv, IInv, Shape
  <2> QED
    BY <2>1, <2>2
<1>6. ASSUME NEW c \in Callers, Return(c) PROVE Stays
  <2>1. PICK s \in {"clean", "dead"} : Settle(WithStatus(handle[c], s))
    BY <1>6 DEF Return
  <2>2. env'[g] = WithStatus(handle[c], s)[g] /\ handle[c] # Nobody
    BY <1>6, <2>1 DEF Settle, Return, IInv, Shape
  <2> QED
    BY <1>2, <2>2
<1>7. ASSUME NEW c \in Callers, GiveUp(c) PROVE Stays
  <2>1. env'[g] = Abandon(c)[g]
    BY <1>7 DEF GiveUp, Settle
  <2>2. CASE pc[c] = "run"
    BY <1>2, <2>1, <2>2 DEF Abandon, IInv, Shape
  <2>3. CASE pc[c] # "run"
    BY <1>1, <2>1, <2>3 DEF Abandon
  <2> QED
    BY <2>2, <2>3
<1>8. ASSUME NEW a \in Admins, NEW h \in Handles, Retire(a, h)
      PROVE  env[g] # Nobody /\ env'[g].key = env[g].key /\ (env'[g].retired => env[g].retired \/ Retires(a, g))
  <2>1. env[h] # Nobody /\ pc'[a] = "remove" /\ key'[a] = env[h].key
    BY <1>0, <1>8 DEF Retire, Goto, IInv, Swept, Tasks
  <2>2. env'[g] = IF g = h THEN [key |-> env[h].key, status |-> "dead", retired |-> TRUE] ELSE env[g]
    BY <1>0, <1>8 DEF Retire, Settle
  <2> QED
    BY <2>1, <2>2 DEF Retires
<1>9. ASSUME NEW a \in Admins, Abort(a) PROVE Stays
  BY <1>1, <1>9 DEF Abort, Settle
<1>10. CASE /\ \A c \in Callers : ~Register(c) /\ ~Replace(c) /\ ~LockEnv(c) /\ ~Return(c) /\ ~GiveUp(c)
            /\ \A a \in Admins : ~Abort(a) /\ \A h \in Handles : ~Retire(a, h)
  <2>1. env' = env
    BY <1>10 DEF Next, ColdStartStep, Resolve, LookupRead, LookupWrite, StartUnpack, FinishUnpack,
       Create, Change, Sweep, RemoveRoot, Done, Wait, vars
  <2> QED
    BY <1>1, <2>1
<1> QED
  BY <1>1, <1>3, <1>4, <1>5, <1>6, <1>7, <1>8, <1>9, <1>10

(* The environment a caller comes to hold is not retired.                   *)
LEMMA TakesLive ==
  ASSUME IInv, [Next]_vars, NEW c \in Callers, handle'[c] \notin {handle[c], Nobody}
  PROVE  ~env'[handle'[c]].retired
<1> USE InvokerAssumption
<1>0. handle \in [Callers -> Handles \cup {Nobody}] /\ env \in [Handles -> Envs \cup {Nobody}]
  BY DEF IInv, Shape, TypeOK
<1>1. ASSUME NEW d \in Callers, handle' = [handle EXCEPT ![d] = Nobody] PROVE FALSE
  BY <1>0, <1>1
<1>2. ASSUME NEW d \in Callers, LookupRead(d) \/ LookupWrite(d) PROVE ~env'[handle'[c]].retired
  <2>1. env' = env /\ Found(d) /\ d = c /\ key[c] \in Keys
    BY <1>0, <1>2 DEF LookupRead, LookupWrite, Found, IInv, Shape
  <2>2. handle'[c] = envs[key[c]] /\ envs[key[c]] # Nobody
    BY <1>0, <2>1 DEF Found, Lookup
  <2> QED
    BY <2>1, <2>2 DEF IInv, RegisteredIsNotRetired
<1>3. ASSUME NEW d \in Callers, Register(d) PROVE ~env'[handle'[c]].retired
  <2>1. PICK h \in Handles : handle' = [handle EXCEPT ![d] = h] /\ env' = [env EXCEPT ![h] = New(key[d], "clean")]
    BY <1>3 DEF Register
  <2>2. d = c /\ handle'[c] = h /\ env'[h] = New(key[d], "clean") /\ key[d] \in Keys
    BY <1>0, <1>3, <2>1 DEF Register, IInv, Shape
  <2> QED
    BY <2>2, NewIs DEF New
<1>4. CASE handle' # handle /\ \A d \in Callers : ~LookupRead(d) /\ ~LookupWrite(d) /\ ~Register(d)
  BY <1>1, <1>4 DEF Next, ColdStartStep, Resolve, StartUnpack, Replace, FinishUnpack, LockEnv, Leave, Return, GiveUp,
     Create, Change, Sweep, Retire, RemoveRoot, Done, Abort, Wait, vars
<1> QED
  BY <1>2, <1>3, <1>4
=============================================================================
