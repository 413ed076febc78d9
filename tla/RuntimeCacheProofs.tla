------------------------- MODULE RuntimeCacheProofs -------------------------
(***************************************************************************)
(* Safety of RuntimeCache for any bundles, pins, processes and quota.      *)
(***************************************************************************)
EXTENDS RuntimeCache, FiniteSetTheorems, TLAPS

(* What each task works on, from the step that chose it.                    *)
Working == {"lock"} \cup InstallPcs
Shape ==
  /\ TypeOK
  /\ \A w \in Workers :
       /\ pc[w] \in WorkerPcs
       /\ pc[w] \in Working => family[w] \in Families /\ pin[w] \in Pins
       /\ pc[w] \in {"download", "keep", "activate"} \/ Removing(w) => gen[w] \in Gens
       /\ Removing(w) => left[w] # 0
  /\ \A r \in Resolvers :
       /\ pc[r] \in ResolverPcs
       /\ pc[r] # "idle" => family[r] \in Families
       /\ pc[r] \in {"lease", "wait", "check", "live"} => gen[r] \in Gens \cup {Legacy}

(* A .lock is held by the installer or the collector at work under it, and  *)
(* by nobody while a resolver shares it.                                    *)
Locks ==
  /\ \A w \in Workers : pc[w] \in InstallPcs => owner[family[w]] = w
  /\ \A f \in Families : owner[f] # Nobody =>
       \/ pc[owner[f]] \in InstallPcs /\ family[owner[f]] = f
       \/ Collecting(owner[f])
  /\ \A r \in guards : pc[r] \in {"read", "lease", "wait", "check"} /\ owner[family[r]] = Nobody

(* Generations that were started, and what they hold.                       *)
Disk ==
  \A g \in Gens :
    /\ place[g] = "none" <=> g > born
    /\ g <= born => origin[g] \in Families \X Pins
    /\ place[g] = "gen" => bundle[g] # "none"
    /\ bundle[g] = "damaged" => g \in Rot

(* The generation an installer is about to keep or to activate.             *)
Installing ==
  /\ \A w \in Workers : pc[w] \in {"download", "keep", "activate"} =>
       origin[gen[w]] = <<family[w], pin[w]>>
  /\ \A w \in Workers : pc[w] \in {"keep", "activate"} => bundle[gen[w]] \in {"whole", "damaged"}
  /\ \A w \in Workers : pc[w] = "activate" => place[gen[w]] = "gen"
  /\ \A w \in Workers : pc[w] \in {"download", "keep"} => Matches(family[w], pin[w]) = {}

(* No staging survives the cleaning of its bundle.                          *)
Staging ==
  /\ StagingIsOwned
  /\ \A w \in Workers : pc[w] = "choose" =>
       \A g \in Gens : ~(place[g] = "tmp" /\ origin[g][1] = family[w])

(* Candidates are cold generations of bundles the collector has locked.     *)
Collected(w, g) == owner[origin[g][1]] = w /\ link[origin[g][1]] # g
Collecteds ==
  \A w \in Workers :
    /\ \A g \in cands[w] : Collecting(w) /\ place[g] = "gen" /\ Collected(w, g)
    /\ Removing(w) => place[gen[w]] = "deleting" /\ Collected(w, gen[w])

IInv ==
  /\ Shape /\ Locks /\ Disk /\ Installing /\ Staging /\ Collecteds
  /\ OneGenerationPerPin /\ ActiveIsComplete

(* What installers rely on is theirs: a step of somebody else that leaves    *)
(* the disk alone does not disturb it.                                      *)
LEMMA InstallersKeep ==
  ASSUME Installing, UNCHANGED <<place, bundle, origin, pin>>,
         \A w \in Workers : pc'[w] = pc[w] /\ family'[w] = family[w] /\ gen'[w] = gen[w]
  PROVE  Installing'
<1>1. ASSUME NEW w \in Workers PROVE Matches(family[w], pin[w])' = Matches(family[w], pin[w])
  BY DEF Matches, Kept, Whole
<1>2. \A w \in Workers : pc'[w] \in {"download", "keep"} => Matches(family[w], pin[w])' = {}
  BY <1>1 DEF Installing
<1>3. /\ \A w \in Workers : pc'[w] \in {"download", "keep", "activate"} => origin'[gen'[w]] = <<family'[w], pin'[w]>>
      /\ \A w \in Workers : pc'[w] \in {"keep", "activate"} => bundle'[gen'[w]] \in {"whole", "damaged"}
      /\ \A w \in Workers : pc'[w] = "activate" => place'[gen'[w]] = "gen"
  BY DEF Installing
<1> QED
  BY <1>2, <1>3 DEF Installing

(* A resolver writes no more than its own state, its locks and leases: what  *)
(* the workers rely on stays.                                               *)
LEMMA ResolversKeep ==
  ASSUME IInv, Shape', Locks', UNCHANGED <<link, owner, place, bundle, origin, born, pin, collector>>,
         \A w \in Workers : pc'[w] = pc[w] /\ family'[w] = family[w] /\ gen'[w] = gen[w]
  PROVE  IInv'
<1>1. Disk'
  BY DEF IInv, Disk
<1>2. Installing'
  BY InstallersKeep DEF IInv
<1>3. Staging'
  BY DEF IInv, Staging, StagingIsOwned
<1>4. Collecteds'
  BY DEF IInv, Collecteds, Collected, Collecting, Removing, collector
<1>5. OneGenerationPerPin' /\ ActiveIsComplete'
  BY DEF IInv, OneGenerationPerPin, ActiveIsComplete, Kept
<1> QED
  BY <1>1, <1>2, <1>3, <1>4, <1>5 DEF IInv

(* What any step of one resolver may change.                                *)
Moves(r) ==
  /\ TypeOK' /\ UNCHANGED <<link, managed, owner, place, bundle, origin, born, pin, collector>>
  /\ \A t \in Tasks \ {r} : pc'[t] = pc[t] /\ family'[t] = family[t] /\ gen'[t] = gen[t]
  /\ pc'[r] \in ResolverPcs
  /\ pc'[r] # "idle" => family'[r] \in Families
  /\ pc'[r] \in {"lease", "wait", "check", "live"} => gen'[r] \in Gens \cup {Legacy}
  /\ \A q \in Resolvers \ {r} :
       (q \in guards' <=> q \in guards) /\ (q \in bare' <=> q \in bare) /\ (q \in lost' <=> q \in lost)
  /\ r \in guards' => pc'[r] \in {"read", "lease", "wait", "check"} /\ owner[family'[r]] = Nobody

LEMMA MovesKeep == ASSUME IInv, NEW r \in Resolvers, Moves(r) PROVE IInv'
<1>1. /\ \A w \in Workers : w \in Tasks \ {r}
      /\ \A q \in Resolvers : q # r => q \in Tasks \ {r}
  BY RuntimeCacheAssumption DEF Tasks
<1>2. \A w \in Workers : pc'[w] = pc[w] /\ family'[w] = family[w] /\ gen'[w] = gen[w]
  BY <1>1 DEF Moves
<1>3. Shape'
  BY <1>1, <1>2 DEF Moves, IInv, Shape, Removing, Working, InstallPcs, collector
<1>4. Locks'
  <2>0. guards' \in SUBSET Resolvers
    BY DEF Moves, TypeOK
  <2>1. \A q \in guards' : q # r => q \in Resolvers /\ q \in guards
    BY <2>0 DEF Moves
  <2>3. \A q \in guards' : pc'[q] \in {"read", "lease", "wait", "check"} /\ owner'[family'[q]] = Nobody
    BY <1>1, <2>1 DEF Moves, IInv, Locks
  <2>2. \A f \in Families : owner[f] # Nobody => owner[f] \in Workers
    BY DEF IInv, Shape, TypeOK
  <2> QED
    BY <1>2, <2>2, <2>3 DEF Moves, IInv, Locks, Collecting, Removing
<1> QED
  BY <1>2, <1>3, <1>4, ResolversKeep DEF Moves

(* A step of one resolver in the shape the actions give it.                 *)
LEMMA StepMoves ==
  ASSUME TypeOK, NEW r \in Resolvers, NEW where \in ResolverPcs, NEW f, NEW g,
         pc' = [pc EXCEPT ![r] = where], family' = [family EXCEPT ![r] = f], gen' = [gen EXCEPT ![r] = g],
         f \in Families \/ (f = Nobody /\ where = "idle"),
         g \in Gens \cup {Legacy} \/ (g = Nobody /\ where \notin {"lease", "wait", "check", "live"}),
         guards' \in {guards, guards \cup {r}, guards \ {r}}, bare' \in {bare, bare \cup {r}, bare \ {r}},
         lost' \in {lost, lost \ {r}},
         r \in guards' => where \in {"read", "lease", "wait", "check"} /\ owner[f] = Nobody,
         leases' \in SUBSET Gens, newer' \in [Gens -> SUBSET Gens], verified' \in SUBSET Gens,
         UNCHANGED <<link, managed, owner, place, bundle, origin, born, pin, collector>>
  PROVE  Moves(r)
<1> USE RuntimeCacheAssumption DEF Tasks, collector
<1>1. /\ pc' \in [Tasks -> WorkerPcs \cup ResolverPcs] /\ family' \in [Tasks -> Families \cup {Nobody}]
      /\ gen' \in [Tasks -> Gens \cup {Nobody, Legacy}]
  BY DEF TypeOK
<1>2. guards' \in SUBSET Resolvers /\ bare' \in SUBSET Resolvers /\ lost' \in SUBSET Resolvers
  BY DEF TypeOK
<1>3. TypeOK'
  BY <1>1, <1>2 DEF TypeOK
<1>4. pc'[r] = where /\ family'[r] = f /\ gen'[r] = g
  BY DEF TypeOK
<1>5. \A t \in Tasks \ {r} : pc'[t] = pc[t] /\ family'[t] = family[t] /\ gen'[t] = gen[t]
  BY DEF TypeOK
<1>6. \A q \in Resolvers \ {r} :
        (q \in guards' <=> q \in guards) /\ (q \in bare' <=> q \in bare) /\ (q \in lost' <=> q \in lost)
  OBVIOUS
<1>7. /\ pc'[r] \in ResolverPcs /\ (pc'[r] # "idle" => family'[r] \in Families)
      /\ pc'[r] \in {"lease", "wait", "check", "live"} => gen'[r] \in Gens \cup {Legacy}
      /\ r \in guards' => pc'[r] \in {"read", "lease", "wait", "check"} /\ owner[family'[r]] = Nobody
  BY <1>4
<1> QED
  BY <1>3, <1>5, <1>6, <1>7, Zenon DEF Moves

LEMMA ResolverMoves == ASSUME IInv, NEW r \in Resolvers, Resolve(r) PROVE Moves(r)
<1>1. /\ TypeOK /\ (pc[r] # "idle" => family[r] \in Families)
      /\ (pc[r] \in {"lease", "wait", "check", "live"} => gen[r] \in Gens \cup {Legacy})
      /\ (r \in guards => pc[r] \in {"read", "lease", "wait", "check"} /\ owner[family[r]] = Nobody)
  BY DEF IInv, Shape, Locks
<1>2. /\ family = [family EXCEPT ![r] = family[r]] /\ gen = [gen EXCEPT ![r] = gen[r]]
      /\ leases \in SUBSET Gens /\ newer \in [Gens -> SUBSET Gens] /\ verified \in SUBSET Gens
      /\ gen[r] \in Gens \cup {Nobody, Legacy}
  BY <1>1 DEF TypeOK, Tasks
<1> USE DEF readers, collector, locks, disk, Goto, ResolverPcs
<1>3. ASSUME NEW f \in Families, ResolveOpen(r, f) PROVE Moves(r)
  <2>1. pc[r] = "idle" /\ r \notin guards
    BY <1>1, <1>3 DEF ResolveOpen
  <2>2. CASE f \in managed
    BY <1>1, <1>2, <1>3, <2>1, <2>2, StepMoves DEF ResolveOpen
  <2>3. CASE f \notin managed
    BY <1>1, <1>2, <1>3, <2>1, <2>3, StepMoves DEF ResolveOpen
  <2> QED
    BY <2>2, <2>3
<1>4. CASE ResolveLock(r)
  BY <1>1, <1>2, <1>4, StepMoves DEF ResolveLock
<1>5. ASSUME Settle(r), UNCHANGED <<link, managed, owner, disk, pin, collector, verified>> PROVE Moves(r)
  <2>1. r \notin guards'
    BY <1>5 DEF Settle
  <2> QED
    BY <1>1, <1>2, <1>5, <2>1, StepMoves DEF Settle
<1>6. CASE ReadLink(r)
  <2>1. CASE link[family[r]] = Nobody
    BY <1>5, <1>6, <2>1 DEF ReadLink
  <2>2. CASE link[family[r]] # Nobody
    <3>1. link[family[r]] \in Gens \cup {Legacy}
      BY <1>1, <1>6, <2>2 DEF ReadLink, TypeOK
    <3> QED
      BY <1>1, <1>2, <1>6, <2>2, <3>1, StepMoves DEF ReadLink
  <2> QED
    BY <2>1, <2>2
<1>7. CASE TakeLease(r)
  <2>1. /\ pc[r] = "lease" /\ UNCHANGED <<link, managed, owner, place, bundle, origin, born, pin, collector, verified>>
        /\ \/ /\ pc' = [pc EXCEPT ![r] = "check"] \/ pc' = [pc EXCEPT ![r] = "wait"]
              /\ UNCHANGED <<leases, newer, family, gen, readers>>
           \/ /\ gen[r] # Legacy /\ Touch({gen[r]} \ leases) /\ leases' = leases \cup {gen[r]}
              /\ pc' = [pc EXCEPT ![r] = "check"] /\ UNCHANGED <<family, gen, readers>>
           \/ Settle(r) /\ UNCHANGED <<leases, newer>>
    BY <1>7 DEF TakeLease
  <2>2. CASE /\ pc' = [pc EXCEPT ![r] = "check"] \/ pc' = [pc EXCEPT ![r] = "wait"]
             /\ UNCHANGED <<leases, newer, family, gen, readers>>
    <3>1. /\ UNCHANGED <<link, managed, owner, place, bundle, origin, born, pin, collector, verified>>
          /\ UNCHANGED <<leases, newer, family, gen, guards, bare, lost>>
      BY <2>1, <2>2
    <3>2. CASE pc' = [pc EXCEPT ![r] = "check"]
      BY <1>1, <1>2, <2>1, <3>1, <3>2, StepMoves
    <3>3. CASE pc' = [pc EXCEPT ![r] = "wait"]
      BY <1>1, <1>2, <2>1, <3>1, <3>3, StepMoves
    <3> QED
      BY <2>2, <3>2, <3>3
  <2>3. CASE /\ gen[r] # Legacy /\ Touch({gen[r]} \ leases) /\ leases' = leases \cup {gen[r]}
             /\ pc' = [pc EXCEPT ![r] = "check"] /\ UNCHANGED <<family, gen, readers>>
    <3>1. leases' \in SUBSET Gens /\ newer' \in [Gens -> SUBSET Gens]
      BY <1>1, <1>2, <2>1, <2>3 DEF Touch
    <3> QED
      BY <1>1, <1>2, <2>1, <2>3, <3>1, StepMoves
  <2>4. CASE Settle(r) /\ UNCHANGED <<leases, newer>>
    BY <1>5, <2>1, <2>4
  <2> QED
    BY <2>1, <2>2, <2>3, <2>4
<1>8. CASE WaitLease(r)
  BY <1>1, <1>2, <1>8, StepMoves DEF WaitLease
<1>9. CASE Serve(r)
  <2>1. verified' \in SUBSET Gens
    BY <1>1, <1>2, <1>9 DEF Serve, VerifyOnce
  <2>2. pc[r] = "check" /\ r \notin guards'
    BY <1>9 DEF Serve
  <2> QED
    BY <1>1, <1>2, <1>9, <2>1, <2>2, StepMoves DEF Serve
<1>10. CASE Refuse(r)
  BY <1>5, <1>10 DEF Refuse
<1>11. CASE Drop(r)
  BY <1>5, <1>11 DEF Drop
<1> QED
  BY <1>3, <1>4, <1>6, <1>7, <1>8, <1>9, <1>10, <1>11 DEF Resolve

(* Every step keeps the invariant: one case per action, one step per part.  *)
LEMMA Inductive == IInv /\ [Next]_vars => IInv'
<1> SUFFICES ASSUME IInv, [Next]_vars PROVE IInv'
  OBVIOUS
<1> USE RuntimeCacheAssumption DEF Gens, Legacy, Tasks, InstallPcs, WorkerPcs, ResolverPcs, Working,
      locks, readers, disk, collector, Whole, Removing, Collecting
<1>1. ASSUME NEW w \in Workers, NEW f \in Families, NEW p \in Pins, EnsureOpen(w, f, p) PROVE IInv'
  <2> USE <1>1 DEF EnsureOpen, Goto
  <2>1. Shape'
    BY DEF IInv, Shape, TypeOK
  <2>2. Locks'
    BY DEF IInv, Shape, TypeOK, Locks
  <2>3. Disk'
    BY DEF IInv, Shape, TypeOK, Disk, Installing, Staging, StagingIsOwned, Collecteds
  <2>4. Installing'
    BY DEF IInv, Shape, TypeOK, Locks, Disk, Installing, Staging, StagingIsOwned, Collecteds, Matches, Kept
  <2>5. Staging'
    BY DEF IInv, Shape, TypeOK, Locks, Disk, Installing, Staging, StagingIsOwned, Collecteds
  <2>6. Collecteds'
    BY DEF IInv, Shape, TypeOK, Locks, Disk, Installing, Staging, StagingIsOwned, Collecteds, Collected, Kept
  <2>7. OneGenerationPerPin'
    BY DEF IInv, Shape, TypeOK, Locks, Disk, Installing, Staging, StagingIsOwned, Collecteds, OneGenerationPerPin, Matches, Kept
  <2>8. ActiveIsComplete'
    BY DEF IInv, Shape, TypeOK, Locks, Disk, Installing, Staging, StagingIsOwned, Collecteds, Collected, ActiveIsComplete, Kept
  <2> QED
    BY <2>1, <2>2, <2>3, <2>4, <2>5, <2>6, <2>7, <2>8 DEF IInv
<1>2. ASSUME NEW w \in Workers, EnsureLock(w) PROVE IInv'
  <2> USE <1>2 DEF EnsureLock, Unlocked, Goto
  <2>1. Shape'
    BY DEF IInv, Shape, TypeOK
  <2>2. Locks'
    BY DEF IInv, Shape, TypeOK, Locks
  <2>3. Disk'
    BY DEF IInv, Shape, TypeOK, Disk, Installing, Staging, StagingIsOwned, Collecteds
  <2>4. Installing'
    BY DEF IInv, Shape, TypeOK, Locks, Disk, Installing, Staging, StagingIsOwned, Collecteds, Matches, Kept
  <2>5. Staging'
    BY DEF IInv, Shape, TypeOK, Locks, Disk, Installing, Staging, StagingIsOwned, Collecteds
  <2>6. Collecteds'
    BY DEF IInv, Shape, TypeOK, Locks, Disk, Installing, Staging, StagingIsOwned, Collecteds, Collected, Kept
  <2>7. OneGenerationPerPin'
    BY DEF IInv, Shape, TypeOK, Locks, Disk, Installing, Staging, StagingIsOwned, Collecteds, OneGenerationPerPin, Matches, Kept
  <2>8. ActiveIsComplete'
    BY DEF IInv, Shape, TypeOK, Locks, Disk, Installing, Staging, StagingIsOwned, Collecteds, Collected, ActiveIsComplete, Kept
  <2> QED
    BY <2>1, <2>2, <2>3, <2>4, <2>5, <2>6, <2>7, <2>8 DEF IInv
<1>3. ASSUME NEW w \in Workers, CleanStaging(w) PROVE IInv'
  <2> USE <1>3 DEF CleanStaging, Goto
  <2>1. Shape'
    BY DEF IInv, Shape, TypeOK
  <2>2. Locks'
    BY DEF IInv, Shape, TypeOK, Locks
  <2>3. Disk'
    BY DEF IInv, Shape, TypeOK, Disk, Installing, Staging, StagingIsOwned, Collecteds
  <2>4. Installing'
    BY DEF IInv, Shape, TypeOK, Locks, Disk, Installing, Staging, StagingIsOwned, Collecteds, Matches, Kept
  <2>5. Staging'
    BY DEF IInv, Shape, TypeOK, Locks, Disk, Installing, Staging, StagingIsOwned, Collecteds
  <2>6. Collecteds'
    BY DEF IInv, Shape, TypeOK, Locks, Disk, Installing, Staging, StagingIsOwned, Collecteds, Collected, Kept
  <2>7. OneGenerationPerPin'
    BY DEF IInv, Shape, TypeOK, Locks, Disk, Installing, Staging, StagingIsOwned, Collecteds, OneGenerationPerPin, Matches, Kept
  <2>8. ActiveIsComplete'
    BY DEF IInv, Shape, TypeOK, Locks, Disk, Installing, Staging, StagingIsOwned, Collecteds, Collected, ActiveIsComplete, Kept
  <2> QED
    BY <2>1, <2>2, <2>3, <2>4, <2>5, <2>6, <2>7, <2>8 DEF IInv
<1>4. ASSUME NEW w \in Workers, AlreadyPresent(w) PROVE IInv'
  <2> USE <1>4 DEF AlreadyPresent, Leave, Unlock, Goto
  <2>1. Shape'
    BY DEF IInv, Shape, TypeOK
  <2>2. Locks'
    BY DEF IInv, Shape, TypeOK, Locks
  <2>3. Disk'
    BY DEF IInv, Shape, TypeOK, Disk, Installing, Staging, StagingIsOwned, Collecteds
  <2>4. Installing'
    BY DEF IInv, Shape, TypeOK, Locks, Disk, Installing, Staging, StagingIsOwned, Collecteds, Matches, Kept
  <2>5. Staging'
    BY DEF IInv, Shape, TypeOK, Locks, Disk, Installing, Staging, StagingIsOwned, Collecteds
  <2>6. Collecteds'
    BY DEF IInv, Shape, TypeOK, Locks, Disk, Installing, Staging, StagingIsOwned, Collecteds, Collected, Kept
  <2>7. OneGenerationPerPin'
    BY DEF IInv, Shape, TypeOK, Locks, Disk, Installing, Staging, StagingIsOwned, Collecteds, OneGenerationPerPin, Matches, Kept
  <2>8. ActiveIsComplete'
    BY DEF IInv, Shape, TypeOK, Locks, Disk, Installing, Staging, StagingIsOwned, Collecteds, Collected, ActiveIsComplete, Kept
  <2> QED
    BY <2>1, <2>2, <2>3, <2>4, <2>5, <2>6, <2>7, <2>8 DEF IInv
<1>5. ASSUME NEW w \in Workers, Reuse(w) PROVE IInv'
  <2> USE <1>5 DEF Reuse, Goto
  <2>1. Shape'
    BY DEF IInv, Shape, TypeOK, Matches, Kept
  <2>2. Locks'
    BY DEF IInv, Shape, TypeOK, Locks
  <2>3. Disk'
    BY DEF IInv, Shape, TypeOK, Disk, Installing, Staging, StagingIsOwned, Collecteds
  <2>4. Installing'
    BY DEF IInv, Shape, TypeOK, Locks, Disk, Installing, Staging, StagingIsOwned, Collecteds, Matches, Kept
  <2>5. Staging'
    BY DEF IInv, Shape, TypeOK, Locks, Disk, Installing, Staging, StagingIsOwned, Collecteds
  <2>6. Collecteds'
    BY DEF IInv, Shape, TypeOK, Locks, Disk, Installing, Staging, StagingIsOwned, Collecteds, Collected, Kept
  <2>7. OneGenerationPerPin'
    BY DEF IInv, Shape, TypeOK, Locks, Disk, Installing, Staging, StagingIsOwned, Collecteds, OneGenerationPerPin, Matches, Kept
  <2>8. ActiveIsComplete'
    BY DEF IInv, Shape, TypeOK, Locks, Disk, Installing, Staging, StagingIsOwned, Collecteds, Collected, ActiveIsComplete, Kept
  <2> QED
    BY <2>1, <2>2, <2>3, <2>4, <2>5, <2>6, <2>7, <2>8 DEF IInv
<1>6. ASSUME NEW w \in Workers, Stage(w) PROVE IInv'
  <2> USE <1>6 DEF Stage, Goto, Receipt
  <2>1. Shape'
    BY DEF IInv, Shape, TypeOK
  <2>2. Locks'
    BY DEF IInv, Shape, TypeOK, Locks
  <2>3. Disk'
    BY DEF IInv, Shape, TypeOK, Disk, Installing, Staging, StagingIsOwned, Collecteds
  <2>4. Installing'
    BY DEF IInv, Shape, TypeOK, Locks, Disk, Installing, Staging, StagingIsOwned, Collecteds, Matches, Kept
  <2>5. Staging'
    BY DEF IInv, Shape, TypeOK, Locks, Disk, Installing, Staging, StagingIsOwned, Collecteds
  <2>6. Collecteds'
    BY DEF IInv, Shape, TypeOK, Locks, Disk, Installing, Staging, StagingIsOwned, Collecteds, Collected, Kept
  <2>7. OneGenerationPerPin'
    BY DEF IInv, Shape, TypeOK, Locks, Disk, Installing, Staging, StagingIsOwned, Collecteds, OneGenerationPerPin, Matches, Kept
  <2>8. ActiveIsComplete'
    BY DEF IInv, Shape, TypeOK, Locks, Disk, Installing, Staging, StagingIsOwned, Collecteds, Collected, ActiveIsComplete, Kept
  <2> QED
    BY <2>1, <2>2, <2>3, <2>4, <2>5, <2>6, <2>7, <2>8 DEF IInv
<1>7. ASSUME NEW w \in Workers, Download(w) PROVE IInv'
  <2> USE <1>7 DEF Download, Goto, Pull, Touch
  <2>1. Shape'
    BY DEF IInv, Shape, TypeOK
  <2>2. Locks'
    BY DEF IInv, Shape, TypeOK, Locks
  <2>3. Disk'
    BY DEF IInv, Shape, TypeOK, Disk, Installing, Staging, StagingIsOwned, Collecteds
  <2>4. Installing'
    BY DEF IInv, Shape, TypeOK, Locks, Disk, Installing, Staging, StagingIsOwned, Collecteds, Matches, Kept
  <2>5. Staging'
    BY DEF IInv, Shape, TypeOK, Locks, Disk, Installing, Staging, StagingIsOwned, Collecteds
  <2>6. Collecteds'
    BY DEF IInv, Shape, TypeOK, Locks, Disk, Installing, Staging, StagingIsOwned, Collecteds, Collected, Kept
  <2>7. OneGenerationPerPin'
    BY DEF IInv, Shape, TypeOK, Locks, Disk, Installing, Staging, StagingIsOwned, Collecteds, OneGenerationPerPin, Matches, Kept
  <2>8. ActiveIsComplete'
    BY DEF IInv, Shape, TypeOK, Locks, Disk, Installing, Staging, StagingIsOwned, Collecteds, Collected, ActiveIsComplete, Kept
  <2> QED
    BY <2>1, <2>2, <2>3, <2>4, <2>5, <2>6, <2>7, <2>8 DEF IInv
<1>8. ASSUME NEW w \in Workers, Keep(w) PROVE IInv'
  <2> USE <1>8 DEF Keep, Goto
  <2>1. Shape'
    BY DEF IInv, Shape, TypeOK
  <2>2. Locks'
    BY DEF IInv, Shape, TypeOK, Locks
  <2>3. Disk'
    BY DEF IInv, Shape, TypeOK, Disk, Installing, Staging, StagingIsOwned, Collecteds
  <2>4. Installing'
    BY DEF IInv, Shape, TypeOK, Locks, Disk, Installing, Staging, StagingIsOwned, Collecteds, Matches, Kept
  <2>5. Staging'
    BY DEF IInv, Shape, TypeOK, Locks, Disk, Installing, Staging, StagingIsOwned, Collecteds
  <2>6. Collecteds'
    BY DEF IInv, Shape, TypeOK, Locks, Disk, Installing, Staging, StagingIsOwned, Collecteds, Collected, Kept
  <2>7. OneGenerationPerPin'
    <3>1. \A g \in Gens : place'[g] = "gen" => g = gen[w] \/ place[g] = "gen"
      BY DEF IInv, Shape, TypeOK
    <3>2. origin[gen[w]] = <<family[w], pin[w]>> /\ Matches(family[w], pin[w]) = {}
      BY DEF IInv, Shape, Installing
    <3>3. \A g \in Gens : place[g] = "gen" /\ origin[g] = <<family[w], pin[w]>> => bundle[g] # "whole"
      BY <3>2 DEF Matches, Kept
    <3>4. UNCHANGED <<bundle, origin>> /\ OneGenerationPerPin
      BY DEF IInv
    <3> HIDE DEF Keep, Goto
    <3> QED
      BY <3>1, <3>2, <3>3, <3>4 DEF OneGenerationPerPin
  <2>8. ActiveIsComplete'
    BY DEF IInv, Shape, TypeOK, Locks, Disk, Installing, Staging, StagingIsOwned, Collecteds, Collected, ActiveIsComplete, Kept
  <2> QED
    BY <2>1, <2>2, <2>3, <2>4, <2>5, <2>6, <2>7, <2>8 DEF IInv
<1>9. ASSUME NEW w \in Workers, Activate(w) PROVE IInv'
  <2> USE <1>9 DEF Activate, Leave, Unlock, Goto
  <2>1. Shape'
    BY DEF IInv, Shape, TypeOK
  <2>2. Locks'
    BY DEF IInv, Shape, TypeOK, Locks
  <2>3. Disk'
    BY DEF IInv, Shape, TypeOK, Disk, Installing, Staging, StagingIsOwned, Collecteds
  <2>4. Installing'
    BY DEF IInv, Shape, TypeOK, Locks, Disk, Installing, Staging, StagingIsOwned, Collecteds, Matches, Kept
  <2>5. Staging'
    BY DEF IInv, Shape, TypeOK, Locks, Disk, Installing, Staging, StagingIsOwned, Collecteds
  <2>6. Collecteds'
    BY DEF IInv, Shape, TypeOK, Locks, Disk, Installing, Staging, StagingIsOwned, Collecteds, Collected, Kept
  <2>7. OneGenerationPerPin'
    BY DEF IInv, Shape, TypeOK, Locks, Disk, Installing, Staging, StagingIsOwned, Collecteds, OneGenerationPerPin, Matches, Kept
  <2>8. ActiveIsComplete'
    BY DEF IInv, Shape, TypeOK, Locks, Disk, Installing, Staging, StagingIsOwned, Collecteds, Collected, ActiveIsComplete, Kept
  <2> QED
    BY <2>1, <2>2, <2>3, <2>4, <2>5, <2>6, <2>7, <2>8 DEF IInv
<1>10. ASSUME NEW w \in Workers, Fail(w) PROVE IInv'
  <2> USE <1>10 DEF Fail, Leave, Unlock, Goto
  <2>1. Shape'
    BY DEF IInv, Shape, TypeOK
  <2>2. Locks'
    BY DEF IInv, Shape, TypeOK, Locks
  <2>3. Disk'
    BY DEF IInv, Shape, TypeOK, Disk, Installing, Staging, StagingIsOwned, Collecteds
  <2>4. Installing'
    BY DEF IInv, Shape, TypeOK, Locks, Disk, Installing, Staging, StagingIsOwned, Collecteds, Matches, Kept
  <2>5. Staging'
    BY DEF IInv, Shape, TypeOK, Locks, Disk, Installing, Staging, StagingIsOwned, Collecteds
  <2>6. Collecteds'
    BY DEF IInv, Shape, TypeOK, Locks, Disk, Installing, Staging, StagingIsOwned, Collecteds, Collected, Kept
  <2>7. OneGenerationPerPin'
    BY DEF IInv, Shape, TypeOK, Locks, Disk, Installing, Staging, StagingIsOwned, Collecteds, OneGenerationPerPin, Matches, Kept
  <2>8. ActiveIsComplete'
    BY DEF IInv, Shape, TypeOK, Locks, Disk, Installing, Staging, StagingIsOwned, Collecteds, Collected, ActiveIsComplete, Kept
  <2> QED
    BY <2>1, <2>2, <2>3, <2>4, <2>5, <2>6, <2>7, <2>8 DEF IInv
<1>11. ASSUME NEW w \in Workers, GcStart(w) PROVE IInv'
  <2> USE <1>11 DEF GcStart, Goto
  <2>1. Shape'
    BY DEF IInv, Shape, TypeOK
  <2>2. Locks'
    BY DEF IInv, Shape, TypeOK, Locks
  <2>3. Disk'
    BY DEF IInv, Shape, TypeOK, Disk, Installing, Staging, StagingIsOwned, Collecteds
  <2>4. Installing'
    BY DEF IInv, Shape, TypeOK, Locks, Disk, Installing, Staging, StagingIsOwned, Collecteds, Matches, Kept
  <2>5. Staging'
    BY DEF IInv, Shape, TypeOK, Locks, Disk, Installing, Staging, StagingIsOwned, Collecteds
  <2>6. Collecteds'
    BY DEF IInv, Shape, TypeOK, Locks, Disk, Installing, Staging, StagingIsOwned, Collecteds, Collected, Kept
  <2>7. OneGenerationPerPin'
    BY DEF IInv, Shape, TypeOK, Locks, Disk, Installing, Staging, StagingIsOwned, Collecteds, OneGenerationPerPin, Matches, Kept
  <2>8. ActiveIsComplete'
    BY DEF IInv, Shape, TypeOK, Locks, Disk, Installing, Staging, StagingIsOwned, Collecteds, Collected, ActiveIsComplete, Kept
  <2> QED
    BY <2>1, <2>2, <2>3, <2>4, <2>5, <2>6, <2>7, <2>8 DEF IInv
<1>12. ASSUME NEW w \in Workers, NEW f \in Families, GcLockFamily(w, f) PROVE IInv'
  <2> USE <1>12 DEF GcLockFamily, Unlocked, Touch
  <2>1. Shape'
    <3>1. Kept(f) \in SUBSET Gens /\ IsFiniteSet(Gens)
      BY FS_Interval DEF Kept
    <3>2. Cardinality(Kept(f)) \in Nat
      BY <3>1, FS_Subset, FS_CardinalityType
    <3>3. cands' \in [Workers -> SUBSET Gens] /\ leases' \in SUBSET Gens
      BY <3>1 DEF IInv, Shape, TypeOK
    <3>7. left' \in [Workers -> Nat]
      <4>1. left[w] + Cardinality(Kept(f)) \in Nat
        BY <3>2 DEF IInv, Shape, TypeOK
      <4>2. left \in [Workers -> Nat] /\ left' = [left EXCEPT ![w] = left[w] + Cardinality(Kept(f))]
        BY DEF IInv, Shape, TypeOK
      <4> HIDE DEF GcLockFamily
      <4> QED
        BY <4>1, <4>2
    <3>4. newer' \in [Gens -> SUBSET Gens]
      BY <3>1 DEF IInv, Shape, TypeOK
    <3>5. pc[w] = "scan"
      OBVIOUS
    <3>6. \A v \in Workers : pc[v] = "remove" => left'[v] = left[v]
      BY <3>5 DEF IInv, Shape, TypeOK
    <3> QED
      BY <3>3, <3>4, <3>6, <3>7 DEF IInv, Shape, TypeOK
  <2>2. Locks'
    BY DEF IInv, Shape, TypeOK, Locks
  <2>3. Disk'
    BY DEF IInv, Shape, TypeOK, Disk, Installing, Staging, StagingIsOwned, Collecteds
  <2>4. Installing'
    BY DEF IInv, Shape, TypeOK, Locks, Disk, Installing, Staging, StagingIsOwned, Collecteds, Matches, Kept
  <2>5. Staging'
    BY DEF IInv, Shape, TypeOK, Locks, Disk, Installing, Staging, StagingIsOwned, Collecteds
  <2>6. Collecteds'
    BY DEF IInv, Shape, TypeOK, Locks, Disk, Installing, Staging, StagingIsOwned, Collecteds, Collected, Kept
  <2>7. OneGenerationPerPin'
    BY DEF IInv, Shape, TypeOK, Locks, Disk, Installing, Staging, StagingIsOwned, Collecteds, OneGenerationPerPin, Matches, Kept
  <2>8. ActiveIsComplete'
    BY DEF IInv, Shape, TypeOK, Locks, Disk, Installing, Staging, StagingIsOwned, Collecteds, Collected, ActiveIsComplete, Kept
  <2> QED
    BY <2>1, <2>2, <2>3, <2>4, <2>5, <2>6, <2>7, <2>8 DEF IInv
<1>13. ASSUME NEW w \in Workers, NEW g \in Gens, GcSkip(w, g) PROVE IInv'
  <2> USE <1>13 DEF GcSkip, Trying
  <2>1. Shape'
    BY DEF IInv, Shape, TypeOK
  <2>2. Locks'
    BY DEF IInv, Shape, TypeOK, Locks
  <2>3. Disk'
    BY DEF IInv, Shape, TypeOK, Disk, Installing, Staging, StagingIsOwned, Collecteds
  <2>4. Installing'
    BY DEF IInv, Shape, TypeOK, Locks, Disk, Installing, Staging, StagingIsOwned, Collecteds, Matches, Kept
  <2>5. Staging'
    BY DEF IInv, Shape, TypeOK, Locks, Disk, Installing, Staging, StagingIsOwned, Collecteds
  <2>6. Collecteds'
    BY DEF IInv, Shape, TypeOK, Locks, Disk, Installing, Staging, StagingIsOwned, Collecteds, Collected, Kept
  <2>7. OneGenerationPerPin'
    BY DEF IInv, Shape, TypeOK, Locks, Disk, Installing, Staging, StagingIsOwned, Collecteds, OneGenerationPerPin, Matches, Kept
  <2>8. ActiveIsComplete'
    BY DEF IInv, Shape, TypeOK, Locks, Disk, Installing, Staging, StagingIsOwned, Collecteds, Collected, ActiveIsComplete, Kept
  <2> QED
    BY <2>1, <2>2, <2>3, <2>4, <2>5, <2>6, <2>7, <2>8 DEF IInv
<1>14. ASSUME NEW w \in Workers, NEW g \in Gens, GcDelete(w, g) PROVE IInv'
  <2> USE <1>14 DEF GcDelete, Trying, TryLock, Leased, Goto
  <2>1. Shape'
    BY DEF IInv, Shape, TypeOK
  <2>2. Locks'
    BY DEF IInv, Shape, TypeOK, Locks
  <2>3. Disk'
    BY DEF IInv, Shape, TypeOK, Disk, Installing, Staging, StagingIsOwned, Collecteds
  <2>4. Installing'
    BY DEF IInv, Shape, TypeOK, Locks, Disk, Installing, Staging, StagingIsOwned, Collecteds, Collected, Matches, Kept
  <2>5. Staging'
    BY DEF IInv, Shape, TypeOK, Locks, Disk, Installing, Staging, StagingIsOwned, Collecteds
  <2>6. Collecteds'
    BY DEF IInv, Shape, TypeOK, Locks, Disk, Installing, Staging, StagingIsOwned, Collecteds, Collected, Kept
  <2>7. OneGenerationPerPin'
    BY DEF IInv, Shape, TypeOK, Locks, Disk, Installing, Staging, StagingIsOwned, Collecteds, OneGenerationPerPin, Matches, Kept
  <2>8. ActiveIsComplete'
    BY DEF IInv, Shape, TypeOK, Locks, Disk, Installing, Staging, StagingIsOwned, Collecteds, Collected, ActiveIsComplete, Kept
  <2> QED
    BY <2>1, <2>2, <2>3, <2>4, <2>5, <2>6, <2>7, <2>8 DEF IInv
<1>15. ASSUME NEW w \in Workers, GcDeleted(w) PROVE IInv'
  <2> USE <1>15 DEF GcDeleted, Goto
  <2>1. Shape'
    <3>1. left'[w] \in Nat /\ left' \in [Workers -> Nat]
      BY DEF IInv, Shape, TypeOK
    <3> QED
      BY <3>1 DEF IInv, Shape, TypeOK
  <2>2. Locks'
    BY DEF IInv, Shape, TypeOK, Locks
  <2>3. Disk'
    BY DEF IInv, Shape, TypeOK, Disk, Installing, Staging, StagingIsOwned, Collecteds
  <2>4. Installing'
    BY DEF IInv, Shape, TypeOK, Locks, Disk, Installing, Staging, StagingIsOwned, Collecteds, Matches, Kept
  <2>5. Staging'
    BY DEF IInv, Shape, TypeOK, Locks, Disk, Installing, Staging, StagingIsOwned, Collecteds
  <2>6. Collecteds'
    BY DEF IInv, Shape, TypeOK, Locks, Disk, Installing, Staging, StagingIsOwned, Collecteds, Collected, Kept
  <2>7. OneGenerationPerPin'
    BY DEF IInv, Shape, TypeOK, Locks, Disk, Installing, Staging, StagingIsOwned, Collecteds, OneGenerationPerPin, Matches, Kept
  <2>8. ActiveIsComplete'
    BY DEF IInv, Shape, TypeOK, Locks, Disk, Installing, Staging, StagingIsOwned, Collecteds, Collected, ActiveIsComplete, Kept
  <2> QED
    BY <2>1, <2>2, <2>3, <2>4, <2>5, <2>6, <2>7, <2>8 DEF IInv
<1>16. ASSUME NEW w \in Workers, GcEnd(w) PROVE IInv'
  <2> USE <1>16 DEF GcEnd, Leave, Unlock, Goto
  <2>1. Shape'
    BY DEF IInv, Shape, TypeOK
  <2>2. Locks'
    BY DEF IInv, Shape, TypeOK, Locks
  <2>3. Disk'
    BY DEF IInv, Shape, TypeOK, Disk, Installing, Staging, StagingIsOwned, Collecteds
  <2>4. Installing'
    BY DEF IInv, Shape, TypeOK, Locks, Disk, Installing, Staging, StagingIsOwned, Collecteds, Matches, Kept
  <2>5. Staging'
    BY DEF IInv, Shape, TypeOK, Locks, Disk, Installing, Staging, StagingIsOwned, Collecteds
  <2>6. Collecteds'
    BY DEF IInv, Shape, TypeOK, Locks, Disk, Installing, Staging, StagingIsOwned, Collecteds, Collected, Kept
  <2>7. OneGenerationPerPin'
    BY DEF IInv, Shape, TypeOK, Locks, Disk, Installing, Staging, StagingIsOwned, Collecteds, OneGenerationPerPin, Matches, Kept
  <2>8. ActiveIsComplete'
    BY DEF IInv, Shape, TypeOK, Locks, Disk, Installing, Staging, StagingIsOwned, Collecteds, Collected, ActiveIsComplete, Kept
  <2> QED
    BY <2>1, <2>2, <2>3, <2>4, <2>5, <2>6, <2>7, <2>8 DEF IInv
<1>17. ASSUME NEW w \in Workers, Die(w) PROVE IInv'
  <2> USE <1>17 DEF Die, Leave, Unlock, Goto, Touch
  <2>0. /\ pc' = [pc EXCEPT ![w] = "idle"] /\ family' = [family EXCEPT ![w] = Nobody]
        /\ gen' = [gen EXCEPT ![w] = Nobody] /\ pin' = [pin EXCEPT ![w] = Nobody]
        /\ place' \in [Gens -> {"none", "tmp", "gen", "deleting", "gone"}]
        /\ bundle' \in [Gens -> {"none", "whole", "damaged", "partial"}]
        /\ newer' \in [Gens -> SUBSET Gens] /\ leases' \in SUBSET Gens
        /\ owner' \in [Families -> Workers \cup {Nobody}]
        /\ \A g \in Gens : \/ UNCHANGED <<place[g], bundle[g]>>
                           \/ place[g] = "deleting" /\ place'[g] = "gen" /\ bundle'[g] = "partial"
    <3>1. CASE Removing(w)
      <4>1. gen[w] \in Gens /\ place[gen[w]] = "deleting"
        BY <3>1 DEF IInv, Shape, Collecteds
      <4>2. newer' \in [Gens -> SUBSET Gens]
        BY <3>1, <4>1 DEF IInv, Shape, TypeOK
      <4>3. /\ place' = [place EXCEPT ![gen[w]] = "gen"] /\ bundle' = [bundle EXCEPT ![gen[w]] = "partial"]
            /\ leases' = leases
        BY <3>1
      <4> QED
        BY <4>1, <4>2, <4>3 DEF IInv, Shape, TypeOK
    <3>2. CASE ~Removing(w)
      <4>1. UNCHANGED <<place, bundle, leases, newer>>
        BY <3>2
      <4> QED
        BY <4>1 DEF IInv, Shape, TypeOK
    <3> QED
      BY <3>1, <3>2
  <2>1. Shape'
    <3>1. TypeOK'
      BY <2>0 DEF IInv, Shape, TypeOK
    <3> HIDE DEF Die
    <3>2. /\ \A v \in Workers \ {w} : pc'[v] = pc[v] /\ family'[v] = family[v] /\ pin'[v] = pin[v]
                                        /\ gen'[v] = gen[v] /\ left'[v] = left[v]
          /\ pc'[w] = "idle"
          /\ \A r \in Resolvers : pc'[r] = pc[r] /\ family'[r] = family[r] /\ gen'[r] = gen[r]
      BY <2>0, <1>17 DEF Die, IInv, Shape, TypeOK
    <3> QED
      BY <3>1, <3>2 DEF IInv, Shape
  <2>2. Locks'
    BY <2>0 DEF IInv, Shape, TypeOK, Locks
  <2>3. Disk'
    <3>1. UNCHANGED <<origin, born>>
      OBVIOUS
    <3> HIDE DEF Die
    <3> QED
      BY <2>0, <3>1 DEF IInv, Disk
  <2>4. Installing'
    <3>1. /\ \A v \in Workers \ {w} : pc'[v] = pc[v] /\ family'[v] = family[v] /\ pin'[v] = pin[v]
                                        /\ gen'[v] = gen[v]
          /\ pc'[w] = "idle" /\ UNCHANGED origin
      BY <2>0 DEF IInv, Shape, TypeOK
    <3> HIDE DEF Die
    <3>2. \A v \in Workers \ {w} : /\ pc[v] \in {"keep", "activate"} => UNCHANGED bundle[gen[v]]
                                   /\ pc[v] = "activate" => UNCHANGED place[gen[v]]
      BY <2>0 DEF IInv, Shape, Installing, Staging, StagingIsOwned
    <3>3. \A g \in Gens : place'[g] = "gen" /\ bundle'[g] = "whole" => place[g] = "gen" /\ bundle[g] = "whole"
      BY <2>0
    <3>6. (\A v \in Workers : pc[v] \in {"download", "keep", "activate"} => origin[gen[v]] = <<family[v], pin[v]>>)'
      <4> SUFFICES ASSUME NEW v \in Workers, pc'[v] \in {"download", "keep", "activate"}
                   PROVE  origin'[gen'[v]] = <<family'[v], pin'[v]>>
        OBVIOUS
      <4>1. v # w
        BY <3>1
      <4>2. pc[v] \in {"download", "keep", "activate"} /\ family'[v] = family[v] /\ pin'[v] = pin[v] /\ gen'[v] = gen[v]
        BY <3>1, <4>1
      <4> QED
        BY <3>1, <4>2 DEF IInv, Installing
    <3>7. /\ (\A v \in Workers : pc[v] \in {"keep", "activate"} => bundle[gen[v]] \in {"whole", "damaged"})'
          /\ (\A v \in Workers : pc[v] = "activate" => place[gen[v]] = "gen")'
      BY <3>1, <3>2 DEF IInv, Installing
    <3>8. (\A v \in Workers : pc[v] \in {"download", "keep"} => Matches(family[v], pin[v]) = {})'
      <4> SUFFICES ASSUME NEW v \in Workers, pc'[v] \in {"download", "keep"}
                   PROVE  (Matches(family[v], pin[v]) = {})'
        OBVIOUS
      <4>1. v # w
        BY <3>1
      <4>2. pc[v] \in {"download", "keep"} /\ family'[v] = family[v] /\ pin'[v] = pin[v]
        BY <3>1, <4>1
      <4>3. Matches(family[v], pin[v]) = {}
        BY <4>2 DEF IInv, Installing
      <4> QED
        BY <3>1, <3>3, <4>2, <4>3 DEF Matches, Kept
    <3> QED
      BY <3>6, <3>7, <3>8 DEF Installing
  <2>5. Staging'
    <3>1. /\ \A v \in Workers \ {w} : pc'[v] = pc[v] /\ family'[v] = family[v] /\ gen'[v] = gen[v]
          /\ pc'[w] = "idle" /\ UNCHANGED origin
      BY <2>0 DEF IInv, Shape, TypeOK
    <3>2. \A g \in Gens : place'[g] = "tmp" <=> place[g] = "tmp"
      BY <2>0
    <3> HIDE DEF Die
    <3> QED
      BY <3>1, <3>2 DEF IInv, Shape, Staging, StagingIsOwned
  <2>6. Collecteds'
    BY SMTT(30), <2>0 DEF IInv, Shape, TypeOK, Locks, Disk, Installing, Staging, StagingIsOwned, Collecteds, Collected, Kept
  <2>7. OneGenerationPerPin'
    <3>1. \A g \in Gens : place'[g] = "gen" /\ bundle'[g] = "whole" => place[g] = "gen" /\ bundle[g] = "whole"
      BY <2>0
    <3>2. UNCHANGED origin /\ OneGenerationPerPin
      BY DEF IInv
    <3>3. \A g \in Gens : place'[g] = "gen" /\ bundle'[g] # "partial" => place[g] = "gen" /\ UNCHANGED bundle[g]
      BY <2>0
    <3> HIDE DEF Die
    <3> QED
      BY <3>1, <3>2 DEF OneGenerationPerPin
  <2>8. ActiveIsComplete'
    BY <2>0 DEF IInv, Shape, TypeOK, Locks, Disk, Installing, Staging, StagingIsOwned, Collecteds, Collected, ActiveIsComplete, Kept
  <2> QED
    BY <2>1, <2>2, <2>3, <2>4, <2>5, <2>6, <2>7, <2>8 DEF IInv
<1>18. ASSUME NEW w \in Workers, GcUnlink(w) PROVE IInv'
  <2> USE <1>18 DEF GcUnlink, Goto
  <2>1. Shape'
    BY DEF IInv, Shape, TypeOK
  <2>2. Locks'
    BY DEF IInv, Shape, TypeOK, Locks
  <2>3. Disk'
    BY DEF IInv, Shape, TypeOK, Disk, Installing, Staging, StagingIsOwned, Collecteds
  <2>4. Installing'
    BY DEF IInv, Shape, TypeOK, Locks, Disk, Installing, Staging, StagingIsOwned, Collecteds, Matches, Kept
  <2>5. Staging'
    BY DEF IInv, Shape, TypeOK, Locks, Disk, Installing, Staging, StagingIsOwned, Collecteds
  <2>6. Collecteds'
    BY DEF IInv, Shape, TypeOK, Locks, Disk, Installing, Staging, StagingIsOwned, Collecteds, Collected, Kept
  <2>7. OneGenerationPerPin'
    BY DEF IInv, Shape, TypeOK, Locks, Disk, Installing, Staging, StagingIsOwned, Collecteds, OneGenerationPerPin, Matches, Kept
  <2>8. ActiveIsComplete'
    BY DEF IInv, Shape, TypeOK, Locks, Disk, Installing, Staging, StagingIsOwned, Collecteds, Collected, ActiveIsComplete, Kept
  <2> QED
    BY <2>1, <2>2, <2>3, <2>4, <2>5, <2>6, <2>7, <2>8 DEF IInv
<1>19. ASSUME NEW g \in Gens, Damage(g) PROVE IInv'
  <2> USE <1>19 DEF Damage
  <2>1. Shape'
    BY DEF IInv, Shape, TypeOK
  <2>2. Locks'
    BY DEF IInv, Shape, TypeOK, Locks
  <2>3. Disk'
    BY DEF IInv, Shape, TypeOK, Disk, Installing, Staging, StagingIsOwned, Collecteds
  <2>4. Installing'
    BY DEF IInv, Shape, TypeOK, Locks, Disk, Installing, Staging, StagingIsOwned, Collecteds, Matches, Kept
  <2>5. Staging'
    BY DEF IInv, Shape, TypeOK, Locks, Disk, Installing, Staging, StagingIsOwned, Collecteds
  <2>6. Collecteds'
    BY DEF IInv, Shape, TypeOK, Locks, Disk, Installing, Staging, StagingIsOwned, Collecteds, Collected, Kept
  <2>7. OneGenerationPerPin'
    BY DEF IInv, Shape, TypeOK, Locks, Disk, Installing, Staging, StagingIsOwned, Collecteds, OneGenerationPerPin, Matches, Kept
  <2>8. ActiveIsComplete'
    BY DEF IInv, Shape, TypeOK, Locks, Disk, Installing, Staging, StagingIsOwned, Collecteds, Collected, ActiveIsComplete, Kept
  <2> QED
    BY <2>1, <2>2, <2>3, <2>4, <2>5, <2>6, <2>7, <2>8 DEF IInv
<1>20. ASSUME NEW r \in Resolvers, Resolve(r) PROVE IInv'
  BY <1>20, ResolverMoves, MovesKeep
<1>21. ASSUME Restart PROVE IInv'
  <2> USE <1>21 DEF Restart
  <2>1. Shape'
    BY DEF IInv, Shape, TypeOK
  <2>2. Locks'
    BY DEF IInv, Shape, TypeOK, Locks
  <2>3. \A w \in Workers : pc'[w] = pc[w] /\ family'[w] = family[w] /\ gen'[w] = gen[w]
    BY DEF IInv, Shape, TypeOK
  <2> QED
    BY <2>1, <2>2, <2>3, ResolversKeep
<1>22. CASE UNCHANGED vars
  BY <1>22 DEF vars, IInv, Shape, TypeOK, Locks, Disk, Installing, Staging, StagingIsOwned, Collecteds,
     Collected, OneGenerationPerPin, ActiveIsComplete, Kept, Matches
<1> QED
  BY <1>1, <1>2, <1>3, <1>4, <1>5, <1>6, <1>7, <1>8, <1>9, <1>10, <1>11, <1>12, <1>13,
     <1>14, <1>15, <1>16, <1>17, <1>18, <1>19, <1>20, <1>21, <1>22 DEF Next, Install, Collect

LEMMA Initial == Init => IInv
BY RuntimeCacheAssumption DEF Init, IInv, Shape, TypeOK, Locks, Disk, Installing, Staging, StagingIsOwned, Collecteds,
   Collected, OneGenerationPerPin, ActiveIsComplete, Kept, Matches, Whole, Removing, Collecting, Gens, Legacy, Tasks, InstallPcs,
   WorkerPcs, ResolverPcs, Working

THEOREM Invariant == Spec => []IInv
BY Initial, Inductive, PTL DEF Spec

(* Every variable keeps its type. *)
THEOREM TypeCorrect == Spec => []TypeOK
<1>1. IInv => TypeOK
  BY DEF IInv, Shape
<1> QED
  BY <1>1, Invariant, PTL

(* The public link leads to a complete generation, whoever dies and when. *)
THEOREM LinkIsUsable == Spec => []ActiveIsComplete
<1>1. IInv => ActiveIsComplete
  BY DEF IInv
<1> QED
  BY <1>1, Invariant, PTL

(* Installers keep their staging directories, and leave at most one behind. *)
THEOREM StagingHolds == Spec => []StagingIsOwned
<1>1. IInv => StagingIsOwned
  BY DEF IInv, Staging
<1> QED
  BY <1>1, Invariant, PTL

(* One pin is downloaded once, however many installers want it. *)
THEOREM DownloadsOnce == Spec => []OneGenerationPerPin
<1>1. IInv => OneGenerationPerPin
  BY DEF IInv
<1> QED
  BY <1>1, Invariant, PTL

(* A link is moved by the installer that holds the .lock of its bundle, to  *)
(* a generation of the pin it was asked for.                                *)
THEOREM LinksFollowPins == Spec => ActivatesRequestedPin
<1>1. ASSUME IInv, Next, NEW f \in Families, link'[f] # link[f]
      PROVE  \E w \in Workers : owner[f] = w /\ link'[f] \in Kept(f) /\ origin[link'[f]] = <<f, pin[w]>>
  <2>1. PICK w \in Workers : Activate(w)
    BY ZenonT(30), <1>1 DEF Next, Install, Collect, Resolve, EnsureOpen, EnsureLock, CleanStaging, AlreadyPresent,
       Reuse, Stage, Download, Keep, Fail, GcStart, GcLockFamily, GcSkip, GcDelete, GcUnlink, GcDeleted, GcEnd, Die,
       ResolveOpen, ResolveLock, ReadLink, TakeLease, WaitLease, Serve, Refuse, Drop, Restart, Damage
  <2>2. f = family[w] /\ link'[f] = gen[w]
    BY <1>1, <2>1 DEF Activate, IInv, Shape, TypeOK
  <2>3. owner[family[w]] = w /\ gen[w] \in Gens
    BY <1>1, <2>1 DEF Activate, IInv, Shape, Locks, InstallPcs
  <2>4. place[gen[w]] = "gen" /\ origin[gen[w]] = <<family[w], pin[w]>>
    BY <1>1, <2>1 DEF Activate, IInv, Installing
  <2> QED
    BY <2>2, <2>3, <2>4 DEF Kept
<1>2. IInv /\ [Next]_vars =>
  [\A f \in Families : link'[f] # link[f] =>
       \E w \in Workers : owner[f] = w /\ link'[f] \in Kept(f) /\ origin[link'[f]] = <<f, pin[w]>>]_vars
  BY <1>1
<1> QED
  BY <1>2, Invariant, PTL DEF Spec, ActivatesRequestedPin

-----------------------------------------------------------------------------
(* The generations a worker has measured: those of the bundles it has       *)
(* locked.  The one it is deleting is no longer among them.                 *)
IsMine(w, g) == place[g] = "gen" /\ owner[origin[g][1]] = w
Mine(w) == {g \in Gens : IsMine(w, g)}
MeasuredBy(w) ==
  /\ pc[w] = "scan" => left[w] = Cardinality(Mine(w))
  /\ Removing(w) => left[w] = Cardinality(Mine(w)) + 1
  /\ ~Collecting(w) => left[w] = 0
Measured == \A w \in Workers : MeasuredBy(w)

LEMMA MineFinite == ASSUME NEW w PROVE IsFiniteSet(Mine(w)) /\ Cardinality(Mine(w)) \in Nat
<1>1. IsFiniteSet(Gens) /\ Mine(w) \in SUBSET Gens
  BY FS_Interval, RuntimeCacheAssumption DEF Gens, Mine
<1> QED
  BY <1>1, FS_Subset, FS_CardinalityType

(* A step that leaves a worker at its place, its bundles and its sum alone. *)
Aside(w) ==
  /\ pc'[w] = pc[w] /\ left'[w] = left[w]
  /\ Collecting(w) => \A g \in Gens : IsMine(w, g)' <=> IsMine(w, g)

LEMMA AsideKeeps == ASSUME NEW w, Aside(w), MeasuredBy(w) PROVE MeasuredBy(w)'
<1>1. CASE Collecting(w)
  <2>1. Mine(w)' = Mine(w)
    BY <1>1 DEF Aside, Mine
  <2> QED
    BY <1>1, <2>1 DEF Aside, MeasuredBy, Collecting, Removing
<1>2. CASE ~Collecting(w)
  BY <1>2 DEF Aside, MeasuredBy, Collecting, Removing
<1> QED
  BY <1>1, <1>2

(* Nobody adds to, or takes from, the bundles that another has locked.      *)
LEMMA OthersStandAside ==
  ASSUME IInv, NEW v \in Workers, NEW w \in Workers, v # w, Install(v) \/ Collect(v) \/ Die(v)
  PROVE  Aside(w)
<1> USE DEF Aside, Collecting, Removing, IsMine, IInv, Shape, TypeOK, Locks, Disk, Tasks, locks, disk, collector, Goto, Gens
<1> USE RuntimeCacheAssumption
<1>1. ASSUME NEW f \in Families, NEW p \in Pins, EnsureOpen(v, f, p) PROVE Aside(w)
  BY <1>1 DEF EnsureOpen
<1>2. CASE EnsureLock(v)
  BY <1>2 DEF EnsureLock, Unlocked
<1>3. CASE CleanStaging(v)
  BY <1>3 DEF CleanStaging
<1>4. CASE AlreadyPresent(v)
  BY <1>4 DEF AlreadyPresent, Leave, Unlock
<1>5. CASE Reuse(v)
  BY <1>5 DEF Reuse
<1>6. CASE Stage(v)
  BY <1>6 DEF Stage
<1>7. CASE Download(v)
  BY <1>7 DEF Download, Pull, Touch
<1>8. CASE Keep(v)
  <2>1. owner[origin[gen[v]][1]] = v
    BY <1>8 DEF Keep, Installing, InstallPcs
  <2>2. place[gen[v]] = "tmp"
    BY <1>8 DEF Keep, Staging, StagingIsOwned
  <2> QED
    BY <1>8, <2>1, <2>2 DEF Keep
<1>9. CASE Activate(v)
  BY <1>9 DEF Activate, Leave, Unlock
<1>10. CASE Fail(v)
  <2>1. pc[v] \in {"download", "keep"} => place[gen[v]] = "tmp"
    BY DEF Staging, StagingIsOwned
  <2> QED
    BY <1>10, <2>1 DEF Fail, Leave, Unlock
<1>11. CASE GcStart(v)
  BY <1>11 DEF GcStart
<1>12. ASSUME NEW f \in Families, GcLockFamily(v, f) PROVE Aside(w)
  BY <1>12 DEF GcLockFamily, Unlocked
<1>13. ASSUME NEW g \in Gens, GcSkip(v, g) PROVE Aside(w)
  BY <1>13 DEF GcSkip, Trying
<1>14. ASSUME NEW g \in Gens, GcDelete(v, g) PROVE Aside(w)
  <2>1. owner[origin[g][1]] = v
    BY <1>14 DEF GcDelete, Trying, Collecteds, Collected
  <2> QED
    BY <1>14, <2>1 DEF GcDelete, Trying
<1>15. CASE GcDeleted(v)
  <2>1. place[gen[v]] = "deleting"
    BY <1>15 DEF GcDeleted, Collecteds
  <2> QED
    BY <1>15, <2>1 DEF GcDeleted
<1>17. CASE GcUnlink(v)
  BY <1>17 DEF GcUnlink
<1>16. CASE GcEnd(v)
  BY <1>16 DEF GcEnd, Leave, Unlock
<1>18. CASE Die(v)
  <2>1. Removing(v) => place[gen[v]] = "deleting" /\ owner[origin[gen[v]][1]] = v
    BY DEF Collecteds, Collected
  <2> QED
    BY <1>18, <2>1 DEF Die, Leave, Unlock
<1> QED
  BY <1>1, <1>2, <1>3, <1>4, <1>5, <1>6, <1>7, <1>8, <1>9, <1>10, <1>11, <1>12, <1>13, <1>14, <1>15, <1>16,
     <1>17, <1>18 DEF Install, Collect

(* Nor do a cold start, the daemon, or damage on disk.                      *)
LEMMA ReadersStandAside ==
  ASSUME IInv, NEW w \in Workers,
         \/ \E r \in Resolvers : Resolve(r)
         \/ Restart
         \/ \E g \in Gens : Damage(g)
         \/ UNCHANGED vars
  PROVE  Aside(w)
<1>1. UNCHANGED <<place, origin, owner, left>>
  BY DEF Resolve, ResolveOpen, ResolveLock, ReadLink, TakeLease, WaitLease, Serve, Refuse, Drop, Restart, Damage, vars, locks, disk,
         collector
<1>2. w \in Tasks /\ w \notin Resolvers /\ pc = [t \in Tasks |-> pc[t]]
  BY RuntimeCacheAssumption DEF IInv, Shape, TypeOK, Tasks
<1>3. pc'[w] = pc[w]
  <2>1. ASSUME NEW r \in Resolvers, Resolve(r) PROVE pc'[w] = pc[w]
    BY <1>2, <2>1
       DEF Resolve, ResolveOpen, ResolveLock, ReadLink, TakeLease, WaitLease, Serve, Refuse, Drop, Settle, Goto
  <2> QED
    BY <1>2, <2>1 DEF Restart, Damage, vars
<1> QED
  BY <1>1, <1>3 DEF Aside, IsMine

(* An installer measures nothing.                                           *)
LEMMA InstallerMeasures ==
  ASSUME IInv, NEW w \in Workers, MeasuredBy(w), Install(w)
  PROVE  MeasuredBy(w)'
<1>1. ~Collecting(w) /\ ~Collecting(w)'
  BY DEF Install, EnsureOpen, EnsureLock, CleanStaging, AlreadyPresent, Reuse, Stage, Download, Keep, Activate, Fail,
     Leave, Goto, InstallPcs, Collecting, Removing, IInv, Shape, TypeOK, Tasks
<1>2. left'[w] = left[w] \/ left'[w] = 0
  BY DEF Install, EnsureOpen, EnsureLock, CleanStaging, AlreadyPresent, Reuse, Stage, Download, Keep, Activate, Fail,
     Leave, IInv, Shape, TypeOK, collector
<1> QED
  BY <1>1, <1>2 DEF MeasuredBy, Collecting, Removing

(* A collector counts what it locks, and one less for what it deletes.      *)
LEMMA CollectorMeasures ==
  ASSUME IInv, NEW w \in Workers, MeasuredBy(w), Collect(w) \/ Die(w)
  PROVE  MeasuredBy(w)'
<1> USE DEF IInv, Shape, TypeOK, Tasks, Goto, Collecting, Removing, IsMine
<1>1. CASE GcStart(w)
  <2>1. \A f \in Families : owner[f] # w
    BY <1>1, RuntimeCacheAssumption DEF GcStart, Locks, InstallPcs
  <2>2. \A g \in Gens : place[g] = "gen" => origin[g][1] \in Families
    BY DEF Disk, Gens
  <2>3. \A g \in Gens : ~IsMine(w, g)'
    BY <1>1, <2>1, <2>2 DEF GcStart, locks, disk
  <2>4. Mine(w)' = {}
    BY <2>3 DEF Mine
  <2>5. pc'[w] = "scan" /\ left'[w] = 0
    BY <1>1 DEF GcStart, MeasuredBy
  <2> QED
    BY <2>4, <2>5, FS_EmptySet DEF MeasuredBy
<1>2. ASSUME NEW f \in Families, GcLockFamily(w, f) PROVE MeasuredBy(w)'
  <2>1. pc[w] = "scan" /\ pc'[w] = "scan" /\ left[w] = Cardinality(Mine(w)) /\ owner[f] = Nobody
    BY <1>2 DEF GcLockFamily, Unlocked, MeasuredBy
  <2>2. left'[w] = left[w] + Cardinality(Kept(f))
    BY <1>2 DEF GcLockFamily
  <2>3. Mine(w)' = Mine(w) \cup Kept(f)
    BY <1>2 DEF GcLockFamily, Mine, Kept, Disk, Gens
  <2>4. Mine(w) \cap Kept(f) = {}
    BY <2>1, RuntimeCacheAssumption DEF Mine, Kept
  <2>5. IsFiniteSet(Kept(f)) /\ Cardinality(Kept(f)) \in Nat
    <3>1. IsFiniteSet(Gens) /\ Kept(f) \in SUBSET Gens
      BY FS_Interval, RuntimeCacheAssumption DEF Gens, Kept
    <3> QED
      BY <3>1, FS_Subset, FS_CardinalityType
  <2>6. Cardinality(Mine(w) \cup Kept(f)) = Cardinality(Mine(w)) + Cardinality(Kept(f))
    <3> HIDE DEF IInv
    <3>1. IsFiniteSet(Mine(w)) /\ Cardinality(Mine(w)) \in Nat
      BY MineFinite
    <3>2. Cardinality(Mine(w) \cup Kept(f)) =
            Cardinality(Mine(w)) + Cardinality(Kept(f)) - Cardinality(Mine(w) \cap Kept(f))
      BY <2>5, <3>1, FS_Union
    <3>3. Cardinality(Mine(w) \cap Kept(f)) = 0
      BY <2>4, FS_EmptySet
    <3> QED
      BY <2>5, <3>1, <3>2, <3>3
  <2> QED
    BY <2>1, <2>2, <2>3, <2>6 DEF MeasuredBy
<1>3. ASSUME NEW g \in Gens, GcSkip(w, g) PROVE MeasuredBy(w)'
  <2>1. Aside(w)
    BY <1>3 DEF GcSkip, Aside, locks, disk
  <2> QED
    BY <2>1, AsideKeeps
<1>4. ASSUME NEW g \in Gens, GcDelete(w, g) PROVE MeasuredBy(w)'
  <2>1. pc[w] = "scan" /\ pc'[w] = "remove" /\ left[w] = Cardinality(Mine(w)) /\ left'[w] = left[w]
    BY <1>4 DEF GcDelete, Trying, MeasuredBy
  <2>2. g \in Mine(w)
    BY <1>4 DEF GcDelete, Trying, Collecteds, Collected, Mine
  <2>3. Mine(w)' = Mine(w) \ {g}
    BY <1>4 DEF GcDelete, Mine, locks
  <2>4. Cardinality(Mine(w) \ {g}) = Cardinality(Mine(w)) - 1
    <3> HIDE DEF IInv
    <3>1. IsFiniteSet(Mine(w))
      BY MineFinite
    <3> QED
      BY <2>2, <3>1, FS_RemoveElement
  <2> QED
    BY <2>1, <2>3, <2>4, MineFinite DEF MeasuredBy
<1>5. CASE GcDeleted(w)
  <2>1. pc[w] = "clear" /\ pc'[w] = "scan" /\ left[w] = Cardinality(Mine(w)) + 1 /\ left'[w] = left[w] - 1
    BY <1>5 DEF GcDeleted, MeasuredBy
  <2>2. place[gen[w]] = "deleting"
    BY <1>5 DEF GcDeleted, Collecteds
  <2>3. Mine(w)' = Mine(w)
    BY <1>5, <2>2 DEF GcDeleted, Mine, locks
  <2> QED
    BY <2>1, <2>3, MineFinite DEF MeasuredBy
<1>8. CASE GcUnlink(w)
  <2>1. Removing(w) /\ pc'[w] = "clear" /\ left'[w] = left[w]
    BY <1>8 DEF GcUnlink, collector
  <2>2. Mine(w)' = Mine(w)
    BY <1>8 DEF GcUnlink, Mine
  <2> QED
    BY <2>1, <2>2 DEF MeasuredBy
<1>6. CASE GcEnd(w)
  BY <1>6 DEF GcEnd, Leave, MeasuredBy
<1>7. CASE Die(w)
  BY <1>7 DEF Die, Leave, MeasuredBy
<1> QED
  BY <1>1, <1>2, <1>3, <1>4, <1>5, <1>6, <1>7, <1>8 DEF Collect

LEMMA MeasuredKept == IInv /\ Measured /\ [Next]_vars => Measured'
<1> SUFFICES ASSUME IInv, Measured, [Next]_vars, NEW w \in Workers PROVE MeasuredBy(w)'
  BY DEF Measured
<1>0. MeasuredBy(w)
  BY DEF Measured
<1>1. ASSUME NEW v \in Workers, Install(v) \/ Collect(v) \/ Die(v) PROVE MeasuredBy(w)'
  <2>1. CASE v = w
    BY <1>0, <1>1, <2>1, InstallerMeasures, CollectorMeasures
  <2>2. CASE v # w
    BY <1>0, <1>1, <2>2, OthersStandAside, AsideKeeps
  <2> QED
    BY <2>1, <2>2
<1>2. CASE (\E r \in Resolvers : Resolve(r)) \/ Restart \/ (\E g \in Gens : Damage(g)) \/ UNCHANGED vars
  BY <1>0, <1>2, ReadersStandAside, AsideKeeps
<1> QED
  BY <1>1, <1>2 DEF Next

(* What a collector has measured is, at each step, what is on disk in the   *)
(* bundles it has locked.                                                   *)
THEOREM ReportsHold == Spec => []ReportIsExact
<1>1. Init => Measured
  BY DEF Init, Measured, MeasuredBy, Collecting, Removing, Tasks
<1>2. IInv /\ Measured => ReportIsExact
  <2> SUFFICES ASSUME IInv, Measured, NEW w \in Workers, pc[w] = "scan"
               PROVE  left[w] = Cardinality(UNION {Kept(f) : f \in {e \in Families : owner[e] = w}})
    BY DEF ReportIsExact
  <2>1. \A g \in Gens : place[g] = "gen" => origin[g][1] \in Families
    BY DEF IInv, Shape, TypeOK, Disk, Gens
  <2>2. Mine(w) = UNION {Kept(f) : f \in {e \in Families : owner[e] = w}}
    BY <2>1 DEF Mine, IsMine, Kept
  <2> QED
    BY <2>2 DEF Measured, MeasuredBy
<1> QED
  BY <1>1, <1>2, Invariant, MeasuredKept, PTL DEF Spec
-----------------------------------------------------------------------------
(* Who found a .lock shares it until its generation is verified, so nobody  *)
(* can collect the generation before its .lease is taken; from then on the  *)
(* .lease is still the one collectors try.                                  *)
HoldsGuard(r) ==
  /\ pc[r] \in {"read", "lease", "check"} => r \in guards
  /\ pc[r] # "wait"
  /\ pc[r] = "lease" /\ gen[r] # Legacy => gen[r] \in Kept(family[r])
  /\ IsKept(r)
Guarded == Resolvers \ bare
Readers ==
  /\ lost \subseteq bare
  /\ \A r \in Guarded : HoldsGuard(r)

(* No worker takes a kept generation away, but a collector that deletes it. *)
LEMMA WorkersSpare ==
  ASSUME IInv, NEW w \in Workers, Install(w) \/ Collect(w) \/ Die(w)
  PROVE  /\ UNCHANGED <<guards, bare>>
         /\ \A r \in Resolvers : pc'[r] = pc[r] /\ family'[r] = family[r] /\ gen'[r] = gen[r]
         /\ \A g \in Gens : place[g] = "gen" =>
              origin'[g] = origin[g] /\ (place'[g] = "gen" \/ GcDelete(w, g))
<1> USE RuntimeCacheAssumption DEF IInv, Shape, TypeOK, Tasks, Goto, Leave, locks, readers, disk, Gens
<1>1. UNCHANGED <<guards, bare>>
  BY DEF Install, EnsureOpen, EnsureLock, CleanStaging, AlreadyPresent, Reuse, Stage, Download, Keep, Activate, Fail,
     Collect, GcStart, GcLockFamily, GcSkip, GcDelete, GcUnlink, GcDeleted, GcEnd, Die
<1>2. ASSUME NEW r \in Resolvers PROVE pc'[r] = pc[r] /\ family'[r] = family[r] /\ gen'[r] = gen[r]
  <2>1. r # w
    OBVIOUS
  <2> QED
    BY <2>1 DEF Install, EnsureOpen, EnsureLock, CleanStaging, AlreadyPresent, Reuse, Stage, Download, Keep, Activate,
       Fail, Collect, GcStart, GcLockFamily, GcSkip, GcDelete, GcUnlink, GcDeleted, GcEnd, Die
<1>3. ASSUME NEW g \in Gens, place[g] = "gen" PROVE origin'[g] = origin[g] /\ (place'[g] = "gen" \/ GcDelete(w, g))
  <2>1. CASE CleanStaging(w)
    BY <1>3, <2>1 DEF CleanStaging
  <2>2. CASE Stage(w)
    BY <1>3, <2>2 DEF Stage, Disk
  <2>3. CASE Keep(w)
    BY <1>3, <2>3 DEF Keep
  <2>4. CASE Fail(w)
    <3>1. pc[w] \in {"download", "keep"} => place[gen[w]] = "tmp"
      BY DEF Staging, StagingIsOwned
    <3> QED
      BY <1>3, <2>4, <3>1 DEF Fail
  <2>5. ASSUME NEW h \in Gens, GcDelete(w, h) PROVE origin'[g] = origin[g] /\ (place'[g] = "gen" \/ GcDelete(w, g))
    <3>1. CASE h = g
      BY <2>5, <3>1 DEF GcDelete
    <3>2. CASE h # g
      BY <1>3, <2>5, <3>2 DEF GcDelete
    <3> QED
      BY <3>1, <3>2
  <2>6. CASE GcDeleted(w)
    <3>1. place[gen[w]] = "deleting"
      BY <2>6 DEF GcDeleted, Collecteds, Removing
    <3> QED
      BY <1>3, <2>6, <3>1 DEF GcDeleted
  <2>7. CASE Die(w)
    BY <1>3, <2>7 DEF Die, Removing
  <2> QED
    BY <1>3, <2>1, <2>2, <2>3, <2>4, <2>5, <2>6, <2>7
       DEF Install, EnsureOpen, EnsureLock, AlreadyPresent, Reuse, Download, Activate,
       Collect, GcStart, GcLockFamily, GcSkip, GcUnlink, GcEnd
<1> QED
  BY <1>1, <1>2, <1>3

LEMMA WorkersKeepReaders ==
  ASSUME IInv, Readers, NEW w \in Workers, Install(w) \/ Collect(w) \/ Die(w)
  PROVE  Readers'
<1>1. ASSUME NEW r \in Guarded PROVE HoldsGuard(r)'
  <2>1. HoldsGuard(r) /\ r \in Resolvers \ lost
    BY DEF Readers, Guarded
  <2>2. ASSUME GcDelete(w, gen[r]), gen[r] \in Gens, pc[r] \in {"lease", "check", "live"} PROVE FALSE
    <3>1. owner[origin[gen[r]][1]] = w /\ ~Leased(gen[r])
      BY <2>2 DEF GcDelete, Trying, TryLock, IInv, Collecteds, Collected
    <3>2. CASE pc[r] = "lease"
      <4>1. origin[gen[r]][1] = family[r] /\ owner[family[r]] = Nobody
        BY <2>1, <2>2, <3>2, RuntimeCacheAssumption DEF HoldsGuard, Kept, Gens, Legacy, IInv, Locks
      <4> QED
        BY <3>1, <4>1, RuntimeCacheAssumption
    <3>3. CASE pc[r] # "lease"
      BY <2>1, <2>2, <3>1, <3>3 DEF Leased
    <3> QED
      BY <3>2, <3>3
  <2>3. pc[r] \in {"lease", "check", "live"} /\ gen[r] # Legacy => gen[r] \in Gens
    BY <2>1 DEF IInv, Shape
  <2> QED
    BY <2>1, <2>2, <2>3, WorkersSpare DEF HoldsGuard, IsKept, Kept
<1>2. lost' \subseteq bare
  <2>1. CASE GcUnlink(w)
    <3>1. gen[w] \in Gens /\ place[gen[w]] = "deleting"
      BY <2>1 DEF GcUnlink, IInv, Shape, Collecteds
    <3>2. gen[w] # Legacy
      BY <3>1, RuntimeCacheAssumption DEF Gens, Legacy
    <3>3. ASSUME NEW r \in Guarded, gen[r] = gen[w], pc[r] \in {"wait", "check", "live"} PROVE FALSE
      BY <3>1, <3>2, <3>3 DEF Readers, HoldsGuard, IsKept
    <3> QED
      BY <2>1, <3>3 DEF GcUnlink, Readers, Guarded
  <2>2. CASE ~GcUnlink(w)
    <3>1. lost' = lost
      BY <2>2 DEF Install, EnsureOpen, EnsureLock, CleanStaging, AlreadyPresent, Reuse, Stage, Download, Keep, Activate,
         Fail, Leave, Collect, GcStart, GcLockFamily, GcSkip, GcDelete, GcDeleted, GcEnd, Die, locks, readers
    <3> QED
      BY <3>1 DEF Readers
  <2> QED
    BY <2>1, <2>2
<1>3. bare' = bare
  BY WorkersSpare
<1> QED
  BY <1>1, <1>2, <1>3 DEF Readers, Guarded

LEMMA ResolversKeepReaders ==
  ASSUME IInv, Readers, NEW r \in Resolvers, Resolve(r)
  PROVE  Readers'
<1> USE DEF Goto, readers, disk
<1>0. Moves(r) /\ r \in Tasks /\ TypeOK
  BY ResolverMoves DEF Tasks, IInv, Shape
<1>1. ASSUME NEW q \in Guarded', q # r PROVE HoldsGuard(q)'
  <2>1. q \in Guarded /\ q \in Tasks \ {r}
    BY <1>1, <1>0 DEF Guarded, Moves, Tasks
  <2>2. HoldsGuard(q)
    BY <2>1 DEF Readers
  <2>3. /\ UNCHANGED <<place, origin>> /\ pc'[q] = pc[q] /\ family'[q] = family[q] /\ gen'[q] = gen[q]
        /\ q \in guards' <=> q \in guards
    BY <1>0, <2>1 DEF Moves, Guarded
  <2> QED
    BY <2>2, <2>3 DEF HoldsGuard, IsKept, Kept
<1>2. lost' \subseteq bare' /\ (r \in Guarded' => r \in Guarded \/ pc'[r] = "idle")
  <2>1. CASE Settle(r)
    <3>1. pc'[r] = "idle" /\ bare' = bare \ {r} /\ lost' = lost \ {r}
      BY <1>0, <2>1 DEF Settle, TypeOK
    <3> QED
      BY <3>1 DEF Readers
  <2>2. CASE ~Settle(r)
    <3>1. lost' = lost /\ (bare' = bare \/ bare' = bare \cup {r})
      BY <2>2 DEF Resolve, ResolveOpen, ResolveLock, ReadLink, TakeLease, WaitLease, Serve, Refuse,
         Drop, locks
    <3> QED
      BY <3>1 DEF Readers, Guarded
  <2> QED
    BY <2>1, <2>2
<1>3. ASSUME r \in Guarded, pc'[r] # "idle", r \in Guarded' PROVE HoldsGuard(r)'
  <2>1. HoldsGuard(r) /\ r \notin bare'
    BY <1>3 DEF Readers, Guarded
  <2>2. ~WaitLease(r) /\ ~Settle(r)
    BY <1>0, <1>3, <2>1 DEF WaitLease, HoldsGuard, Settle, TypeOK
  <2>3. ASSUME NEW f \in Families, ResolveOpen(r, f) PROVE HoldsGuard(r)'
    BY <1>0, <2>1, <2>3 DEF ResolveOpen, HoldsGuard, IsKept, TypeOK
  <2>4. CASE ResolveLock(r)
    BY <1>0, <2>4 DEF ResolveLock, HoldsGuard, IsKept, TypeOK
  <2>5. CASE ReadLink(r)
    <3>1. family[r] \in Families /\ pc[r] = "read" /\ r \in guards
      BY <1>0, <2>1, <2>5 DEF ReadLink, HoldsGuard, IInv, Shape
    <3>2. link[family[r]] # Legacy /\ link[family[r]] # Nobody => link[family[r]] \in Kept(family[r])
      BY <1>0, <3>1 DEF TypeOK, IInv, ActiveIsComplete
    <3>3. /\ link[family[r]] # Nobody /\ pc'[r] = "lease" /\ gen'[r] = link[family[r]] /\ guards' = guards
          /\ UNCHANGED <<family, place, origin>>
      BY <1>0, <2>2, <2>5 DEF ReadLink, TypeOK
    <3> QED
      BY <3>1, <3>2, <3>3 DEF HoldsGuard, IsKept, Kept
  <2>6. CASE TakeLease(r)
    <3>1. pc[r] = "lease" /\ r \in guards /\ (gen[r] # Legacy => gen[r] \in Gens /\ place[gen[r]] = "gen")
      BY <2>1, <2>6 DEF TakeLease, HoldsGuard, Kept
    <3>2. gen[r] # Legacy => ~BeingRemoved(gen[r])
      BY <3>1 DEF BeingRemoved, Removing, IInv, Collecteds
    <3>3. pc'[r] = "check" /\ gen'[r] = gen[r] /\ guards' = guards /\ place' = place
      BY <1>0, <2>2, <2>6, <3>2 DEF TakeLease, TypeOK
    <3> QED
      BY <3>1, <3>3 DEF HoldsGuard, IsKept
  <2>7. CASE Serve(r)
    BY <1>0, <2>1, <2>7 DEF Serve, HoldsGuard, IsKept, TypeOK
  <2> QED
    BY <2>2, <2>3, <2>4, <2>5, <2>6, <2>7 DEF Resolve, Refuse, Drop
<1>4. pc'[r] = "idle" => HoldsGuard(r)'
  BY DEF HoldsGuard, IsKept
<1> QED
  BY <1>1, <1>2, <1>3, <1>4 DEF Readers, Guarded

LEMMA ReadersKept == IInv /\ Readers /\ [Next]_vars => Readers'
<1> SUFFICES ASSUME IInv, Readers, [Next]_vars PROVE Readers'
  OBVIOUS
<1>1. CASE Restart
  <2>1. \A r \in Resolvers : pc'[r] = "idle"
    BY <1>1 DEF Restart, Tasks
  <2> QED
    BY <1>1, <2>1 DEF Restart, Readers, HoldsGuard, IsKept, Guarded
<1>2. CASE (\E g \in Gens : Damage(g)) \/ UNCHANGED vars
  <2>1. UNCHANGED <<guards, bare, lost, place, origin, pc, family, gen>>
    BY <1>2 DEF Damage, vars, locks, readers, disk
  <2> QED
    BY <2>1 DEF Readers, HoldsGuard, IsKept, Kept, Guarded
<1> QED
  BY <1>1, <1>2, WorkersKeepReaders, ResolversKeepReaders DEF Next

(* The generation of an environment that was resolved under a .lock is not  *)
(* deleted while the environment lives.                                     *)
THEOREM LeasesHold == Spec => []LiveIsKept
<1>1. Init => Readers
  BY DEF Init, Readers, HoldsGuard, IsKept, Guarded, Tasks
<1>2. Readers => LiveIsKept
  BY DEF Readers, HoldsGuard, LiveIsKept, Guarded
<1> QED
  BY <1>1, <1>2, Invariant, ReadersKept, PTL DEF Spec
=============================================================================
