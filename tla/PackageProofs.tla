-------------------------- MODULE PackageProofs ---------------------------
(***************************************************************************)
(* What a cold start leaves in the task_root, for any package, any number   *)
(* of threads and any crashes.                                              *)
(***************************************************************************)
EXTENDS Package, TLAPS

Files == {"torn", "whole"}
Placed(e) ==
  /\ \A p \in Dirs(e) : root[p] = "dir"
  /\ IsFile(e) => root[e.path] \in Files /\ ~e.corrupt

(* Thread t has made room for entry i; it has written it. *)
Reached(t, i) ==
  \/ pc[t] = "live"
  \/ pc[t] \in Working /\ i < pos[t]
  \/ pc[t] \in {"writing", "written"} /\ i = pos[t]
Passed(t, i) == Reached(t, i) /\ ~(pc[t] = "writing" /\ i = pos[t])

Idle ==
  zip = NoZip =>
    (\A t \in Threads : pc[t] = "idle") /\ locked = {} /\ failures = {} /\ ~started
Deployed == zip # NoZip => Accepted(zip, provided)
Opened ==
  \A t \in Threads : pc[t] \in {"writing", "written"} =>
    pos[t] <= Len(zip) /\ IsFile(At(t)) /\ (pc[t] = "writing" => root[At(t).path] = "torn")
Kinds ==
  zip # NoZip => \A i \in 1..Len(zip) :
    (started \/ \E t \in Threads : Reached(t, i)) => Placed(zip[i])
Contents ==
  (zip # NoZip /\ ~spoiled) => \A i \in 1..Len(zip), t \in Threads :
    (IsFile(zip[i]) /\ Passed(t, i) /\ root[zip[i].path] # "whole") => Writers(zip[i].path) # {}
Unlocked ==
  (zip # NoZip /\ \A i \in DOMAIN zip : ~zip[i].readOnly) =>
    locked = {} /\ \A f \in failures : f.reason # "denied"
Outcomes ==
  /\ AcceptedNeverRefused
  /\ \A f \in failures : f.again => f.reason \notin {"blocked", "unreadable"}

IInv == TypeOK /\ Idle /\ Deployed /\ Opened /\ Kinds /\ Contents /\ Unlocked /\ Outcomes

LEMMA ZipType ==
  ASSUME NEW z \in Zips
  PROVE  /\ Len(z) \in 0..MaxEntries /\ DOMAIN z = 1..Len(z)
         /\ \A i \in 1..Len(z) : z[i] \in Entry
<1>1. PICK n \in 0..MaxEntries : z \in [1..n -> Entry]
  BY DEF Zips
<1>2. n \in Nat
  BY PackageAssumption
<1>3. Len(z) = n
  BY <1>1, <1>2
<1> QED
  BY <1>1, <1>3

(* The entry a thread is at is inside the package. *)
LEMMA AtType ==
  ASSUME TypeOK, Deployed, zip # NoZip, NEW i \in 1..Len(zip)
  PROVE  zip[i] \in Entry /\ zip[i].path \in Paths /\ zip[i].dir \in BOOLEAN
         /\ Dirs(zip[i]) \in SUBSET Paths
<1>1. zip[i] \in Entry /\ DOMAIN zip = 1..Len(zip)
  BY ZipType DEF TypeOK
<1>2. zip[i].path # Outside
  BY <1>1 DEF Deployed, Accepted
<1>3. zip[i].path \in Paths /\ zip[i].dir \in BOOLEAN
  BY <1>1, <1>2 DEF Entry
<1> QED
  BY <1>1, <1>3, PackageAssumption DEF Dirs

LEMMA WorkingDeployed ==
  ASSUME TypeOK, Idle, NEW t \in Threads, pc[t] # "idle"
  PROVE  zip # NoZip /\ zip \in Zips /\ Len(zip) \in Nat /\ Len(zip) <= MaxEntries /\ pos[t] \in Nat \ {0}
<1>1. zip # NoZip /\ zip \in Zips
  BY DEF Idle, TypeOK
<1>2. Len(zip) \in 0..MaxEntries
  BY <1>1, ZipType
<1> QED
  BY <1>1, <1>2, PackageAssumption DEF TypeOK

(* What the control plane accepted, unpacking accepts. *)
LEMMA NeverRefused ==
  ASSUME IInv, NEW t \in Threads, pc[t] = "entry"
  PROVE  ~Refused(t)
<1> USE DEF IInv
<1>1. zip # NoZip /\ zip \in Zips /\ Len(zip) \in Nat /\ pos[t] \in Nat \ {0}
  BY WorkingDeployed
<1>2. DOMAIN zip = 1..Len(zip) /\ Accepted(zip, provided)
  BY <1>1, ZipType DEF Deployed
<1>3. CASE pos[t] <= Len(zip)
  <2>1. pos[t] \in DOMAIN zip /\ ~(pos[t] > Len(zip))
    BY <1>1, <1>2, <1>3
  <2> QED
    BY <1>2, <2>1 DEF Refused, Accepted, TooBig, Bomb, At
<1>4. CASE pos[t] > Len(zip) /\ provided
  <2>1. PICK i \in 1..Len(zip) : IsFile(zip[i]) /\ zip[i].path = Bootstrap
    BY <1>2, <1>4 DEF Accepted
  <2>2. Reached(t, i)
    BY <1>1, <1>4 DEF Reached, Working
  <2>3. Placed(zip[i])
    BY <1>1, <2>2 DEF Kinds
  <2> QED
    BY <1>4, <2>1, <2>3 DEF Placed, Refused, HasBootstrap, Files
<1> QED
  BY <1>1, <1>3, <1>4 DEF Refused

-----------------------------------------------------------------------------
(* Making the directories of an entry that nothing obstructs keeps every    *)
(* file and every directory.                                                *)
LEMMA DirsMade ==
  ASSUME TypeOK, NEW e, Dirs(e) \in SUBSET Paths, ~Obstructed(e)
  PROVE  /\ MakeDirs(e) \in [Paths -> {"absent", "dir", "torn", "whole"}]
         /\ \A p \in Dirs(e) : MakeDirs(e)[p] = "dir"
         /\ \A p \in Paths : root[p] # "absent" => MakeDirs(e)[p] = root[p]
<1>1. \A p \in Paths : MakeDirs(e)[p] = IF p \in Dirs(e) THEN "dir" ELSE root[p]
  BY DEF MakeDirs
<1>2. \A p \in Paths : root[p] \in {"absent", "dir", "torn", "whole"}
  BY DEF TypeOK
<1>3. \A p \in Dirs(e) : root[p] \in {"absent", "dir"}
  BY <1>2 DEF Obstructed
<1> QED
  BY <1>1, <1>2, <1>3 DEF MakeDirs

(* A directory stays a directory, and a file a file. *)
Stable ==
  \A p \in Paths :
    /\ root[p] = "dir" => root'[p] = "dir"
    /\ root[p] \in Files => root'[p] \in Files

LEMMA StaysPlaced ==
  ASSUME TypeOK, Deployed, Stable, zip # NoZip, zip' = zip, NEW i \in 1..Len(zip), Placed(zip[i])
  PROVE  Placed(zip[i])'
<1>1. zip[i].path \in Paths /\ Dirs(zip[i]) \in SUBSET Paths
  BY AtType
<1>2. \A p \in Dirs(zip[i]) : root'[p] = "dir"
  BY <1>1 DEF Placed, Stable
<1>3. IsFile(zip[i]) => root'[zip[i].path] \in Files
  BY <1>1 DEF Placed, Stable
<1> QED
  BY <1>2, <1>3 DEF Placed, Dirs, IsFile

(* What a thread at the head of an entry may do with it. *)
LEMMA AtHead ==
  ASSUME IInv, NEW t \in Threads, Ahead(t)
  PROVE  /\ zip # NoZip /\ pos[t] \in 1..Len(zip) /\ At(t) = zip[pos[t]]
         /\ At(t).path \in Paths /\ Dirs(At(t)) \in SUBSET Paths
         /\ ~Refused(t)
         /\ ~Blocked(t) => ~Obstructed(At(t)) /\ ~Misplaced(At(t))
<1>1. zip # NoZip /\ pos[t] \in Nat \ {0} /\ Len(zip) \in Nat
  <2>1. pc[t] # "idle"
    BY DEF Ahead
  <2> QED
    BY <2>1, WorkingDeployed DEF IInv
<1>2. pos[t] \in 1..Len(zip)
  BY <1>1 DEF Ahead
<1> QED
  BY <1>1, <1>2, AtType, NeverRefused DEF IInv, Ahead, At, Blocked

(* A thread that is writing is at a file it has opened. *)
LEMMA AtFile ==
  ASSUME IInv, NEW t \in Threads, pc[t] \in {"writing", "written"}
  PROVE  /\ zip # NoZip /\ pos[t] \in 1..Len(zip) /\ At(t) = zip[pos[t]]
         /\ At(t).path \in Paths /\ IsFile(At(t)) /\ At(t) \in Entry
         /\ root[At(t).path] \in Files /\ Placed(At(t))
<1>1. zip # NoZip /\ pos[t] \in Nat \ {0} /\ Len(zip) \in Nat
  BY WorkingDeployed DEF IInv
<1>2. pos[t] \in 1..Len(zip) /\ IsFile(At(t))
  BY <1>1 DEF IInv, Opened
<1>3. Reached(t, pos[t])
  BY DEF Reached
<1>4. Placed(At(t))
  BY <1>1, <1>2, <1>3 DEF IInv, Kinds, At
<1> QED
  BY <1>1, <1>2, <1>4, AtType DEF IInv, At, Placed

LEMMA StepStable == ASSUME IInv, Next PROVE Stable
<1> SUFFICES ASSUME root' # root PROVE Stable
  BY DEF Stable
<1>1. PICK t \in Threads : Bail(t) \/ Unreadable(t) \/ MakeDirectory(t) \/ Deny(t) \/ Open(t) \/ Write(t)
  BY DEF Next, Deploy, Start, SetMode, WriteFails, Finish, Cancel, Terminate, Crash
<1>2. CASE Bail(t)
  <2>1. Ahead(t) /\ ~Obstructed(At(t)) /\ root' = MakeDirs(At(t))
    BY <1>2 DEF Bail, Blocked
  <2> QED
    BY <2>1, AtHead, DirsMade DEF IInv, Stable, Files
<1>3. CASE MakeDirectory(t)
  BY <1>3, AtHead, DirsMade DEF IInv, Stable, Files, MakeDirectory
<1>4. CASE Deny(t) \/ Unreadable(t)
  BY <1>4, AtHead, DirsMade DEF IInv, Stable, Files, Deny, Openable, Unreadable
<1>5. CASE Open(t)
  <2>1. Ahead(t) /\ IsFile(At(t)) /\ ~At(t).corrupt /\ ~Blocked(t) /\ root' = [MakeDirs(At(t)) EXCEPT ![At(t).path] = "torn"]
    BY <1>5 DEF Open, Openable
  <2>2. root[At(t).path] # "dir" /\ ~Obstructed(At(t)) /\ At(t).path \in Paths
    BY <2>1, AtHead DEF Misplaced
  <2> QED
    BY <2>1, <2>2, AtHead, DirsMade DEF IInv, Stable, Files
<1>6. CASE Write(t)
  <2>1. root[At(t).path] = "torn" /\ At(t).path \in Paths /\ root \in [Paths -> {"absent", "dir", "torn", "whole"}]
    BY <1>6, AtFile DEF IInv, Opened, Write, TypeOK
  <2>2. \A p \in Paths : p = At(t).path \/ root'[p] = root[p]
    BY <1>6, <2>1 DEF Write
  <2>3. root'[At(t).path] \in Files
    BY <1>6, <2>1 DEF Write, Files
  <2> QED
    BY <2>1, <2>2, <2>3 DEF Stable, Files
<1> QED
  BY <1>1, <1>2, <1>3, <1>4, <1>5, <1>6

(* Only opening a file and finishing it change what a file is. *)
LEMMA RootKept ==
  ASSUME IInv, Next, NEW p \in Paths, root[p] \in Files
  PROVE  \/ root'[p] = root[p]
         \/ \E t \in Threads : Open(t) /\ p = At(t).path /\ root'[p] = "torn"
         \/ \E t \in Threads : Write(t) /\ Writers(p) = {t} /\ p = At(t).path /\ root'[p] = "whole"
<1> SUFFICES ASSUME root' # root PROVE root'[p] = root[p] \/ \E t \in Threads :
                      \/ Open(t) /\ p = At(t).path /\ root'[p] = "torn"
                      \/ Write(t) /\ Writers(p) = {t} /\ p = At(t).path /\ root'[p] = "whole"
  OBVIOUS
<1>1. PICK t \in Threads : Bail(t) \/ Unreadable(t) \/ MakeDirectory(t) \/ Deny(t) \/ Open(t) \/ Write(t)
  BY DEF Next, Deploy, Start, SetMode, WriteFails, Finish, Cancel, Terminate, Crash
<1>2. CASE Bail(t) \/ Unreadable(t) \/ MakeDirectory(t) \/ Deny(t)
  <2>1. Ahead(t) /\ ~Obstructed(At(t)) /\ root' = MakeDirs(At(t))
    BY <1>2, AtHead DEF Bail, Unreadable, Blocked, MakeDirectory, Deny, Openable
  <2> QED
    BY <2>1, AtHead, DirsMade DEF IInv, Files
<1>3. CASE Open(t)
  <2>1. Ahead(t) /\ ~Blocked(t) /\ root' = [MakeDirs(At(t)) EXCEPT ![At(t).path] = "torn"]
    BY <1>3 DEF Open, Openable
  <2>2. ~Obstructed(At(t)) /\ At(t).path \in Paths /\ Dirs(At(t)) \in SUBSET Paths
    BY <2>1, AtHead
  <2>3. MakeDirs(At(t))[p] = root[p] /\ MakeDirs(At(t)) \in [Paths -> {"absent", "dir", "torn", "whole"}]
    BY <2>2, DirsMade DEF IInv, Files
  <2> QED
    BY <1>3, <2>1, <2>2, <2>3
<1>4. CASE Write(t)
  <2>1. root \in [Paths -> {"absent", "dir", "torn", "whole"}]
    BY DEF IInv, TypeOK
  <2> QED
    BY <1>4, <2>1 DEF Write
<1> QED
  BY <1>1, <1>2, <1>3, <1>4

-----------------------------------------------------------------------------
LEMMA TypeStep == ASSUME IInv, Next PROVE TypeOK'
<1> USE DEF IInv, TypeOK
<1>1. Stable
  BY StepStable
<1>2. ASSUME zip' = zip, provided' = provided, NEW t \in Threads, NEW reason \in Reasons, FailWith(t, reason)
      PROVE  /\ pc' \in [Threads -> {"idle", "live"} \cup Working] /\ pos' \in [Threads -> 1..(MaxEntries + 1)]
             /\ orphans' \in SUBSET Threads /\ started' \in BOOLEAN
             /\ failures' \in SUBSET [again : BOOLEAN, reason : Reasons]
  BY <1>2 DEF FailWith
<1>3. ASSUME NEW t \in Threads, Advance(t), zip # NoZip, pos[t] \in 1..Len(zip)
      PROVE  /\ pc' \in [Threads -> {"idle", "live"} \cup Working]
             /\ pos' \in [Threads -> 1..(MaxEntries + 1)]
  <2>1. Len(zip) \in 0..MaxEntries
    BY <1>3, ZipType
  <2>2. pos[t] + 1 \in 1..(MaxEntries + 1)
    BY <1>3, <2>1, PackageAssumption
  <2> QED
    BY <1>3, <2>2 DEF Advance, Working
<1>4. CASE Deploy
  BY <1>4 DEF Deploy
<1>5. ASSUME NEW t \in Threads, Start(t) \/ Finish(t) \/ Cancel(t) \/ Terminate(t) PROVE TypeOK'
  <2>1. 1 \in 1..(MaxEntries + 1)
    BY PackageAssumption
  <2>2. CASE Start(t)
    BY <2>1, <2>2 DEF Start, Working, deployment
  <2>3. CASE Finish(t)
    BY <2>3 DEF Finish, deployment, Executable
  <2>4. CASE Cancel(t) \/ Terminate(t)
    BY <2>4 DEF Cancel, Terminate, deployment
  <2> QED
    BY <1>5, <2>2, <2>3, <2>4
<1>6. ASSUME NEW t \in Threads, Bail(t) PROVE TypeOK'
  <2>1. root' \in [Paths -> {"absent", "dir", "torn", "whole"}]
    BY <1>6, AtHead, DirsMade DEF Bail, Blocked
  <2>2. locked' \in SUBSET {p \in Paths : root'[p] \in {"torn", "whole"}}
    BY <1>1, <1>6 DEF Bail, Stable, Files
  <2>3. zip' = zip /\ provided' = provided /\ spoiled' = spoiled
    BY <1>6 DEF Bail, FailWith, deployment
  <2>4. \E reason \in Reasons : FailWith(t, reason)
    BY <1>6 DEF Bail, Reasons
  <2> QED
    BY <1>2, <2>1, <2>2, <2>3, <2>4
<1>7. ASSUME NEW t \in Threads, Deny(t) \/ Unreadable(t) PROVE TypeOK'
  <2>1. root' \in [Paths -> {"absent", "dir", "torn", "whole"}]
    BY <1>7, AtHead, DirsMade DEF Unreadable, Deny, Openable
  <2>2. locked' \in SUBSET {p \in Paths : root'[p] \in {"torn", "whole"}}
    BY <1>1, <1>7 DEF Unreadable, Deny, Stable, Files
  <2>3. zip' = zip /\ provided' = provided /\ spoiled' = spoiled
    BY <1>7 DEF Unreadable, Deny, FailWith, deployment
  <2>4. \E reason \in Reasons : FailWith(t, reason)
    BY <1>7 DEF Unreadable, Deny, Reasons
  <2> QED
    BY <1>2, <2>1, <2>2, <2>3, <2>4
<1>8. ASSUME NEW t \in Threads, WriteFails(t) PROVE TypeOK'
  BY <1>2, <1>8 DEF WriteFails, FailWith, deployment, Reasons
<1>9. ASSUME NEW t \in Threads, MakeDirectory(t) PROVE TypeOK'
  <2>1. root' \in [Paths -> {"absent", "dir", "torn", "whole"}]
    BY <1>9, AtHead, DirsMade DEF MakeDirectory
  <2>2. locked' \in SUBSET {p \in Paths : root'[p] \in {"torn", "whole"}}
    BY <1>1, <1>9 DEF MakeDirectory, Stable, Files
  <2>3. zip # NoZip /\ pos[t] \in 1..Len(zip) /\ Advance(t)
    BY <1>9, AtHead DEF MakeDirectory
  <2> QED
    BY <1>3, <1>9, <2>1, <2>2, <2>3 DEF MakeDirectory, deployment
<1>10. ASSUME NEW t \in Threads, Open(t) PROVE TypeOK'
  <2>1. root' \in [Paths -> {"absent", "dir", "torn", "whole"}]
    <3>1. Ahead(t) /\ ~Blocked(t) /\ root' = [MakeDirs(At(t)) EXCEPT ![At(t).path] = "torn"]
      BY <1>10 DEF Open, Openable
    <3>2. MakeDirs(At(t)) \in [Paths -> {"absent", "dir", "torn", "whole"}]
      BY <3>1, AtHead, DirsMade
    <3> QED
      BY <3>1, <3>2
  <2>2. locked' \in SUBSET {p \in Paths : root'[p] \in {"torn", "whole"}}
    BY <1>1, <1>10 DEF Open, Stable, Files
  <2> QED
    BY <1>10, <2>1, <2>2 DEF Open, deployment, Working
<1>11. ASSUME NEW t \in Threads, Write(t) PROVE TypeOK'
  <2>1. root' \in [Paths -> {"absent", "dir", "torn", "whole"}]
    BY <1>11 DEF Write
  <2>2. locked' \in SUBSET {p \in Paths : root'[p] \in {"torn", "whole"}}
    BY <1>1, <1>11 DEF Write, Stable, Files
  <2> QED
    BY <1>11, <2>1, <2>2 DEF Write, deployment, Working
<1>12. ASSUME NEW t \in Threads, SetMode(t) PROVE TypeOK'
  <2>1. zip # NoZip /\ pos[t] \in 1..Len(zip) /\ Advance(t) /\ At(t).path \in Paths /\ root[At(t).path] \in Files
    BY <1>12, AtFile DEF SetMode
  <2>2. locked' \in SUBSET {p \in Paths : root'[p] \in {"torn", "whole"}}
    BY <1>12, <2>1 DEF SetMode, Files
  <2> QED
    BY <1>3, <1>12, <2>1, <2>2 DEF SetMode, deployment
<1>13. CASE Crash
  BY <1>13 DEF Crash, deployment
<1> QED
  BY <1>4, <1>5, <1>6, <1>7, <1>8, <1>9, <1>10, <1>11, <1>12, <1>13 DEF Next

-----------------------------------------------------------------------------
(* Deploy aside, the package stays, and there is one. *)
LEMMA PackageStays == ASSUME IInv, Next, ~Deploy PROVE zip' = zip /\ provided' = provided /\ zip # NoZip
<1>1. zip' = zip /\ provided' = provided
  BY DEF Next, Start, Bail, Unreadable, MakeDirectory, Deny, Open, Write, SetMode, WriteFails, Finish, Cancel,
         Terminate, Crash, FailWith, deployment
<1>2. CASE \E t \in Threads : Start(t)
  BY <1>1, <1>2 DEF Start
<1>3. CASE \E t \in Threads : pc[t] # "idle"
  BY <1>1, <1>3 DEF IInv, Idle
<1> QED
  BY <1>2, <1>3 DEF Next, Start, Bail, Unreadable, MakeDirectory, Deny, Open, Write, SetMode, WriteFails, Finish,
         Cancel, Terminate, Crash, Ahead, Openable, Working

(* Deploy happens before any thread starts. *)
LEMMA Deploys == ASSUME IInv, Deploy PROVE IInv'
<1>1. TypeOK'
  BY TypeStep DEF Next
<1>2. zip = NoZip /\ zip' \in Zips /\ Accepted(zip, provided)'
  BY DEF Deploy, Accepted, TooBig, Declared, IsFile
<1>3. zip' # NoZip /\ UNCHANGED <<root, locked, pc, pos, failures, started>>
  BY <1>2, PackageAssumption DEF Deploy
<1>4. (\A t \in Threads : pc[t] = "idle") /\ locked = {} /\ failures = {} /\ ~started
  BY <1>2 DEF IInv, Idle
<1>5. \A t \in Threads : \A i : ~Reached(t, i)' /\ ~Passed(t, i)'
  BY <1>3, <1>4 DEF Reached, Passed, Working
<1>6. Idle' /\ Deployed' /\ Unlocked' /\ Outcomes'
  BY <1>2, <1>3, <1>4 DEF Idle, Deployed, Unlocked, Outcomes, AcceptedNeverRefused
<1>7. Opened' /\ Kinds' /\ Contents'
  BY <1>3, <1>4, <1>5 DEF Opened, Kinds, Contents
<1> QED
  BY <1>1, <1>6, <1>7 DEF IInv

(* A thread only reaches an entry by making it. *)
LEMMA Gains ==
  ASSUME IInv, Next, ~Deploy, NEW u \in Threads, NEW i \in 1..Len(zip), Reached(u, i)', ~Reached(u, i)
  PROVE  (MakeDirectory(u) \/ Open(u)) /\ i = pos[u]
<1>1. zip # NoZip /\ zip' = zip
  BY PackageStays
<1>2. Len(zip) \in Nat /\ \A t \in Threads : pos[t] \in Nat \ {0}
  BY <1>1, ZipType, PackageAssumption DEF IInv, TypeOK
<1>3. pc \in [Threads -> {"idle", "live"} \cup Working] /\ pos \in [Threads -> 1..(MaxEntries + 1)]
  BY DEF IInv, TypeOK
<1>4. ~Crash
  BY DEF Crash, Reached, Working
<1>5. PICK t \in Threads :
        \/ Start(t) \/ Bail(t) \/ Unreadable(t) \/ MakeDirectory(t) \/ Deny(t) \/ Open(t)
        \/ Write(t) \/ SetMode(t) \/ WriteFails(t) \/ Finish(t) \/ Cancel(t) \/ Terminate(t)
  BY <1>4 DEF Next
<1>6. u = t
  <2>1. CASE Cancel(t)
    BY <2>1 DEF Cancel, Reached
  <2>2. CASE ~Cancel(t)
    BY <1>3, <1>5, <2>2 DEF Start, Bail, Unreadable, MakeDirectory, Deny, Open, Write, SetMode, WriteFails, Finish,
       Terminate, FailWith, Advance, Reached
  <2> QED
    BY <2>1, <2>2
<1>7. ~(Bail(t) \/ Unreadable(t) \/ Deny(t) \/ WriteFails(t) \/ Terminate(t))
  BY <1>3, <1>6 DEF Bail, Unreadable, Deny, WriteFails, Terminate, FailWith, Reached, Working
<1>8. ~Cancel(t)
  BY <1>6 DEF Cancel, Reached
<1>9. ~Start(t)
  BY <1>2, <1>3, <1>6 DEF Start, Reached, Working
<1>10. ~Write(t)
  BY <1>2, <1>3, <1>6 DEF Write, Reached, Working
<1>11. ~SetMode(t)
  BY <1>2, <1>3, <1>6 DEF SetMode, Advance, Reached, Working
<1>12. ~Finish(t)
  BY <1>2, <1>3, <1>6 DEF Finish, Reached, Working
<1>13. CASE MakeDirectory(t)
  BY <1>2, <1>3, <1>6, <1>13 DEF MakeDirectory, Ahead, Advance, Reached, Working
<1>14. CASE Open(t)
  BY <1>2, <1>3, <1>6, <1>14 DEF Open, Openable, Ahead, Reached, Working
<1> QED
  BY <1>5, <1>6, <1>7, <1>8, <1>9, <1>10, <1>11, <1>12, <1>13, <1>14

LEMMA KindsStep == ASSUME IInv, Next, ~Deploy PROVE Kinds'
<1>1. zip # NoZip /\ zip' = zip
  BY PackageStays
<1>2. Stable
  BY StepStable
<1> SUFFICES ASSUME NEW i \in 1..Len(zip), started' \/ \E u \in Threads : Reached(u, i)'
             PROVE  Placed(zip[i])'
  BY <1>1 DEF Kinds
<1>3. CASE started \/ \E u \in Threads : Reached(u, i)
  BY <1>1, <1>2, <1>3, StaysPlaced DEF IInv, Kinds
<1>4. CASE started' /\ ~started
  <2>1. PICK t \in Threads : Finish(t)
    BY <1>4 DEF Next, Deploy, Start, Bail, Unreadable, MakeDirectory, Deny, Open, Write, SetMode, WriteFails, Cancel,
       Terminate, Crash, FailWith
  <2>2. Len(zip) \in Nat /\ pos[t] \in Nat
    BY <1>1, ZipType, PackageAssumption DEF IInv, TypeOK
  <2>3. Reached(t, i)
    BY <2>1, <2>2 DEF Finish, Reached, Working
  <2> QED
    BY <1>3, <2>3
<1>5. ASSUME NEW u \in Threads, Reached(u, i)', ~Reached(u, i) PROVE Placed(zip[i])'
  <2>1. (MakeDirectory(u) \/ Open(u)) /\ i = pos[u]
    BY <1>5, Gains
  <2>2. Ahead(u) /\ ~Blocked(u) /\ At(u) = zip[i]
    BY <2>1 DEF MakeDirectory, Open, Openable, At
  <2>3. ~Obstructed(zip[i]) /\ ~Misplaced(zip[i]) /\ zip[i].path \in Paths /\ Dirs(zip[i]) \in SUBSET Paths
    BY <2>2, AtHead
  <2>4. /\ MakeDirs(zip[i]) \in [Paths -> {"absent", "dir", "torn", "whole"}]
        /\ \A p \in Dirs(zip[i]) : MakeDirs(zip[i])[p] = "dir"
    BY <2>3, DirsMade DEF IInv
  <2>5. CASE MakeDirectory(u)
    <3>1. root' = MakeDirs(zip[i]) /\ ~IsFile(zip[i])
      BY <2>2, <2>5 DEF MakeDirectory, IsFile
    <3> QED
      BY <1>1, <2>4, <3>1 DEF Placed, Dirs, IsFile
  <2>6. CASE Open(u)
    <3>1. root' = [MakeDirs(zip[i]) EXCEPT ![zip[i].path] = "torn"] /\ IsFile(zip[i])
      BY <2>2, <2>6 DEF Open, Openable
    <3>2. zip[i].path \notin Dirs(zip[i])
      BY <2>3, <3>1, PackageAssumption DEF Dirs, IsFile
    <3>3. \A p \in Dirs(zip[i]) : root'[p] = "dir"
      BY <2>3, <2>4, <3>1, <3>2
    <3>4. root'[zip[i].path] \in Files
      BY <2>3, <2>4, <3>1 DEF Files
    <3>5. ~zip[i].corrupt
      BY <2>2, <2>6 DEF Open, Openable
    <3> QED
      BY <3>3, <3>4, <3>5, <1>1 DEF Placed, Dirs, IsFile
  <2> QED
    BY <2>1, <2>5, <2>6
<1> QED
  BY <1>3, <1>4, <1>5

(* Who writes, and what, only changes with the writing itself.              *)
LEMMA WritersChange ==
  ASSUME IInv, Next, ~Deploy, ~Crash, NEW p, NEW u \in Writers(p)
  PROVE  u \in Writers(p)' \/ (Write(u) /\ p = At(u).path) \/ WriteFails(u)
<1>1. zip' = zip /\ u \in Threads /\ pc[u] = "writing" /\ At(u).path = p
  BY PackageStays DEF Writers
<1>2. pc \in [Threads -> {"idle", "live"} \cup Working] /\ pos \in [Threads -> 1..(MaxEntries + 1)]
  BY DEF IInv, TypeOK
<1>3. PICK t \in Threads :
        \/ Start(t) \/ Bail(t) \/ Unreadable(t) \/ MakeDirectory(t) \/ Deny(t) \/ Open(t)
        \/ Write(t) \/ SetMode(t) \/ WriteFails(t) \/ Finish(t) \/ Cancel(t) \/ Terminate(t)
  BY DEF Next
<1>4. CASE u = t
  BY <1>1, <1>3, <1>4 DEF Start, Bail, Unreadable, MakeDirectory, Deny, Open, Openable, Ahead, SetMode, Finish,
     Terminate, Cancel, Writers, At
<1>5. CASE u # t
  <2>1. CASE Start(t) \/ Bail(t) \/ Unreadable(t) \/ Deny(t) \/ WriteFails(t)
    BY <1>1, <1>2, <1>5, <2>1 DEF Start, Bail, Unreadable, Deny, WriteFails, FailWith, Writers, At
  <2>2. CASE MakeDirectory(t) \/ SetMode(t)
    BY <1>1, <1>2, <1>5, <2>2 DEF MakeDirectory, SetMode, Advance, Writers, At
  <2>3. CASE Open(t) \/ Write(t) \/ Finish(t) \/ Cancel(t) \/ Terminate(t)
    BY <1>1, <1>2, <1>5, <2>3 DEF Open, Write, Finish, Cancel, Terminate, Writers, At
  <2> QED
    BY <1>3, <2>1, <2>2, <2>3
<1> QED
  BY <1>4, <1>5

LEMMA OpenedStep == ASSUME IInv, Next, ~Deploy PROVE Opened'
<1>1. zip # NoZip /\ zip' = zip
  BY PackageStays
<1>2. pc \in [Threads -> {"idle", "live"} \cup Working] /\ pos \in [Threads -> 1..(MaxEntries + 1)]
  BY DEF IInv, TypeOK
<1> SUFFICES ASSUME NEW u \in Threads, pc'[u] \in {"writing", "written"}
             PROVE  /\ pos'[u] <= Len(zip) /\ IsFile(zip[pos'[u]])
                    /\ pc'[u] = "writing" => root'[zip[pos'[u]].path] = "torn"
  BY <1>1 DEF Opened, At, IsFile
<1>3. ~Crash
  BY DEF Crash
<1>4. CASE Open(u)
  <2>1. Ahead(u) /\ IsFile(At(u)) /\ ~Blocked(u) /\ root' = [MakeDirs(At(u)) EXCEPT ![At(u).path] = "torn"]
    BY <1>4 DEF Open, Openable
  <2>2. pos'[u] = pos[u] /\ At(u).path \in Paths /\ pos[u] \in 1..Len(zip)
    BY <1>4, <2>1, AtHead DEF Open
  <2>3. MakeDirs(At(u)) \in [Paths -> {"absent", "dir", "torn", "whole"}]
    BY <2>1, AtHead, DirsMade DEF IInv
  <2> QED
    BY <2>1, <2>2, <2>3 DEF At, Ahead
<1>5. CASE ~Open(u)
  <2>1. pc[u] \in {"writing", "written"} /\ pos'[u] = pos[u] /\ (pc'[u] = "writing" => pc[u] = "writing" /\ ~Write(u))
    BY <1>2, <1>3, <1>5 DEF Next, Start, Bail, Unreadable, MakeDirectory, Deny, Open, Write, SetMode, WriteFails, Finish,
       Cancel, Terminate, FailWith, Advance, Working, Deploy
  <2>2. /\ pos[u] <= Len(zip) /\ IsFile(At(u)) /\ At(u).path \in Paths
        /\ pc[u] = "writing" => root[At(u).path] = "torn" /\ u \in Writers(At(u).path)
    BY <2>1, AtFile DEF IInv, Opened, Writers
  <2>3. ASSUME pc'[u] = "writing" PROVE root'[At(u).path] = "torn"
    <3>1. ASSUME NEW t \in Threads, Write(t), Writers(At(u).path) = {t} PROVE FALSE
      BY <2>1, <2>2, <2>3, <3>1
    <3> QED
      BY <2>1, <2>2, <2>3, <3>1, RootKept DEF Files
  <2> QED
    BY <2>1, <2>2, <2>3 DEF At
<1> QED
  BY <1>4, <1>5

LEMMA ContentsStep == ASSUME IInv, Next, ~Deploy PROVE Contents'
<1>1. zip # NoZip /\ zip' = zip
  BY PackageStays
<1>2. pc \in [Threads -> {"idle", "live"} \cup Working] /\ pos \in [Threads -> 1..(MaxEntries + 1)]
  BY DEF IInv, TypeOK
<1> SUFFICES ASSUME ~spoiled', NEW i \in 1..Len(zip), NEW u \in Threads, IsFile(zip[i]), Passed(u, i)',
                    root'[zip[i].path] # "whole"
             PROVE  Writers(zip[i].path)' # {}
  BY <1>1 DEF Contents, IsFile
<1>3. ~Crash /\ ~spoiled /\ \A t \in Threads : ~WriteFails(t)
  BY <1>1 DEF Next, Crash, WriteFails, Passed, Reached, Working, Deploy, Start, Bail, Unreadable, MakeDirectory, Deny, Open,
     Write, SetMode, Finish, Cancel, Terminate
<1>4. Reached(u, i) \/ (Open(u) /\ i = pos[u])
  <2>1. Reached(u, i)'
    BY DEF Passed
  <2>2. ~(MakeDirectory(u) /\ i = pos[u])
    BY DEF MakeDirectory, At, IsFile
  <2> QED
    BY <2>1, <2>2, Gains
<1>5. ~(Open(u) /\ i = pos[u])
  BY <1>2 DEF Open, Passed
<1>6. Placed(zip[i]) /\ root[zip[i].path] \in Files /\ zip[i].path \in Paths
  BY <1>1, <1>4, <1>5, AtType DEF IInv, Kinds, Placed
<1>7. root[zip[i].path] # "whole" => Writers(zip[i].path) # {}
  <2>1. CASE Passed(u, i)
    BY <1>1, <1>3, <2>1 DEF IInv, Contents
  <2>2. CASE ~Passed(u, i)
    BY <1>1, <1>4, <1>5, <2>2 DEF Passed, Writers, At
  <2> QED
    BY <2>1, <2>2
<1>8. ASSUME NEW t \in Threads, Open(t), zip[i].path = At(t).path PROVE Writers(zip[i].path)' # {}
  BY <1>1, <1>2, <1>8 DEF Open, Writers, At
<1>9. CASE root'[zip[i].path] = root[zip[i].path]
  <2>1. PICK w \in Writers(zip[i].path) : TRUE
    BY <1>7, <1>9
  <2>2. CASE Write(w) /\ zip[i].path = At(w).path
    <3>1. Writers(zip[i].path) # {w}
      BY <1>6, <1>9, <2>2 DEF Write, IInv, TypeOK
    <3>2. PICK v \in Writers(zip[i].path) : v # w
      BY <2>1, <3>1
    <3>3. ~Write(v)
      BY <1>2, <2>1, <2>2, <3>2 DEF Write, Writers
    <3>4. ~WriteFails(v)
      BY <1>3, <3>2 DEF Writers
    <3>5. v \in Writers(zip[i].path)'
      BY <1>1, <1>3, <3>2, <3>3, <3>4, WritersChange
    <3> QED
      BY <3>5
  <2>3. CASE ~(Write(w) /\ zip[i].path = At(w).path)
    <3>1. ~WriteFails(w)
      BY <1>3, <2>1 DEF Writers
    <3>2. w \in Writers(zip[i].path)'
      BY <1>1, <1>3, <2>1, <2>3, <3>1, WritersChange
    <3> QED
      BY <3>2
  <2> QED
    BY <2>2, <2>3
<1> QED
  BY <1>6, <1>8, <1>9, RootKept

(* What cold starts have failed for, and which files are read-only. *)
LEMMA OutcomesStep == ASSUME IInv, Next, ~Deploy PROVE Idle' /\ Deployed' /\ Unlocked' /\ Outcomes'
<1>1. zip # NoZip /\ zip' = zip /\ provided' = provided
  BY PackageStays
<1>2. Idle' /\ Deployed'
  BY <1>1 DEF Idle, Deployed, Accepted, TooBig, Declared, IsFile, IInv
<1>3. ASSUME NEW t \in Threads, Bail(t) PROVE ~started /\ ~Refused(t)
  <2>1. pc[t] = "entry" /\ ~Refused(t) /\ Blocked(t)
    BY <1>3, NeverRefused DEF Bail
  <2>2. Ahead(t) /\ (Obstructed(At(t)) \/ Misplaced(At(t)))
    BY <2>1 DEF Blocked
  <2>3. ASSUME started PROVE FALSE
    <3>1. Placed(At(t))
      BY <1>1, <2>2, <2>3, AtHead DEF IInv, Kinds
    <3> QED
      BY <2>2, <3>1 DEF Placed, Obstructed, Misplaced, Files
  <2> QED
    BY <2>1, <2>3
<1>4. ASSUME NEW f \in failures', f \notin failures
      PROVE  /\ f.reason # "refused" /\ (f.again => f.reason # "blocked")
             /\ (f.again => f.reason # "unreadable")
             /\ f.reason = "denied" => locked # {}
  <2>1. ASSUME NEW t \in Threads, NEW reason, FailWith(t, reason)
        PROVE  f = [again |-> started, reason |-> reason] /\ f.again = started /\ f.reason = reason
    BY <1>4, <2>1 DEF FailWith
  <2>2. ASSUME NEW t \in Threads, Bail(t) PROVE ~f.again /\ f.reason = "blocked"
    BY <1>3, <2>1, <2>2 DEF Bail
  <2>3. ASSUME NEW t \in Threads, Unreadable(t) PROVE ~f.again /\ f.reason = "unreadable"
    <3>1. ASSUME started PROVE FALSE
      <4>1. Ahead(t) /\ IsFile(At(t)) /\ At(t).corrupt
        BY <2>3 DEF Unreadable
      <4>2. Placed(At(t))
        BY <1>1, <3>1, <4>1, AtHead DEF IInv, Kinds
      <4> QED
        BY <4>1, <4>2 DEF Placed
    <3> QED
      BY <2>1, <2>3, <3>1 DEF Unreadable
  <2>4. ASSUME NEW t \in Threads, Deny(t) PROVE f.reason = "busy" \/ (f.reason = "denied" /\ locked # {})
    BY <2>1, <2>4 DEF Deny
  <2>5. ASSUME NEW t \in Threads, WriteFails(t) PROVE f.reason = "io"
    BY <2>1, <2>5 DEF WriteFails
  <2>6. \E t \in Threads : Bail(t) \/ Unreadable(t) \/ Deny(t) \/ WriteFails(t)
    BY <1>4 DEF Next, Deploy, Start, MakeDirectory, Open, Write, SetMode, Finish, Cancel, Terminate, Crash
  <2> QED
    BY <2>2, <2>4, <2>5, <2>6, <2>3
<1>5. Outcomes'
  BY <1>4 DEF IInv, Outcomes, AcceptedNeverRefused
<1>6. ASSUME \A i \in DOMAIN zip : ~zip[i].readOnly PROVE locked' = {} /\ \A f \in failures' : f.reason # "denied"
  <2>1. locked = {} /\ \A f \in failures : f.reason # "denied"
    BY <1>1, <1>6 DEF IInv, Unlocked
  <2>2. ASSUME NEW t \in Threads, SetMode(t) PROVE locked' = {}
    <3>1. pos[t] \in DOMAIN zip /\ At(t) = zip[pos[t]]
      <4>1. pos[t] \in 1..Len(zip) /\ At(t) = zip[pos[t]]
        BY <2>2, AtFile DEF SetMode
      <4> QED
        BY <1>1, <4>1, ZipType DEF IInv, TypeOK
    <3> QED
      BY <1>6, <2>1, <2>2, <3>1 DEF SetMode
  <2>3. ASSUME NEW t \in Threads, Finish(t) PROVE locked' = {}
    BY <2>1, <2>3 DEF Finish, Executable
  <2>4. locked' = {}
    BY <2>1, <2>2, <2>3 DEF Next, Deploy, Start, Bail, Unreadable, MakeDirectory, Deny, Open, Write, WriteFails, Cancel,
       Terminate, Crash, Unreadable
  <2> QED
    BY <1>4, <2>1, <2>4
<1>7. Unlocked'
  BY <1>1, <1>6 DEF Unlocked
<1> QED
  BY <1>2, <1>5, <1>7

-----------------------------------------------------------------------------
(* The invariant, and what follows from it. *)
THEOREM Inductive == Spec => []IInv
<1>1. Init => IInv
  <2> SUFFICES ASSUME Init PROVE IInv
    OBVIOUS
  <2>1. 1 \in 1..(MaxEntries + 1)
    BY PackageAssumption
  <2>2. TypeOK
    BY <2>1 DEF Init, TypeOK
  <2> QED
    BY <2>2 DEF Init, IInv, Idle, Deployed, Opened, Kinds, Contents, Unlocked, Outcomes, AcceptedNeverRefused
<1>2. IInv /\ [Next]_vars => IInv'
  <2>1. ASSUME IInv, Next PROVE IInv'
    BY <2>1, Deploys, TypeStep, OpenedStep, KindsStep, ContentsStep, OutcomesStep DEF IInv
  <2>2. ASSUME IInv, UNCHANGED vars PROVE IInv'
    <3>1. UNCHANGED <<zip, provided, root, locked, pc, pos, orphans, started, failures, spoiled>>
      BY <2>2 DEF vars, deployment
    <3>2. TypeOK' /\ Idle' /\ Deployed'
      BY <2>2, <3>1 DEF IInv, TypeOK, Idle, Deployed, Accepted, TooBig, Declared, IsFile
    <3>3. Opened' /\ Unlocked' /\ Outcomes'
      BY <2>2, <3>1 DEF IInv, Opened, At, IsFile, Unlocked, Outcomes, AcceptedNeverRefused
    <3>4. Kinds'
      BY <2>2, <3>1 DEF IInv, Kinds, Reached, Placed, Dirs, IsFile
    <3>5. Contents'
      BY <2>2, <3>1 DEF IInv, Contents, Passed, Reached, Writers, At, IsFile
    <3> QED
      BY <3>2, <3>3, <3>4, <3>5 DEF IInv
  <2> QED
    BY <2>1, <2>2
<1> QED
  BY <1>1, <1>2, PTL DEF Spec

(* Every variable keeps its type, and only files are read-only (TypeOK),    *)
(* whatever validate_deployment_zip accepted.                               *)
THEOREM TypeCorrect == Spec => []TypeOK
<1>1. IInv => TypeOK
  BY DEF IInv
<1> QED
  BY <1>1, Inductive, PTL

(* No cold start refuses what validate_deployment_zip accepted: unpack_code *)
(* and provided_bootstrap check again, and find the same.                   *)
THEOREM NothingRefused == Spec => []AcceptedNeverRefused
<1>1. IInv => AcceptedNeverRefused
  BY DEF IInv, Outcomes
<1> QED
  BY <1>1, Inductive, PTL

(* For any number of threads, cancelled or not, and any crashes: when no    *)
(* unpack_code runs, the root of a live environment has its whole package.  *)
THEOREM RootIsWhole == Spec => []QuietRootIsWhole
<1>1. IInv => QuietRootIsWhole
  <2> SUFFICES ASSUME IInv, NEW t \in Live, ~spoiled, \A u \in Threads : pc[u] \notin Working,
                      NEW i \in DOMAIN zip, IsFile(zip[i])
               PROVE  root[zip[i].path] = "whole"
    BY DEF QuietRootIsWhole
  <2>1. t \in Threads /\ pc[t] = "live"
    BY DEF Live
  <2>2. zip # NoZip /\ i \in 1..Len(zip)
    BY <2>1, ZipType DEF IInv, Idle, TypeOK
  <2>3. Passed(t, i)
    BY <2>1 DEF Passed, Reached
  <2>4. Writers(zip[i].path) = {}
    BY DEF Writers, Working
  <2> QED
    BY <2>1, <2>2, <2>3, <2>4 DEF IInv, Contents
<1> QED
  BY <1>1, Inductive, PTL

(* A package without read-only files that has been started can be started   *)
(* again, over whatever earlier cold starts left: neither what is there nor *)
(* its modes stop unpack_code.                                              *)
THEOREM RestartsWhenWritable == Spec => []WritableStartsAgain
<1>1. IInv => WritableStartsAgain
  <2> SUFFICES ASSUME IInv, zip # NoZip, \A i \in DOMAIN zip : ~zip[i].readOnly, NEW f \in failures, f.again
               PROVE  f.reason \in {"busy", "io"}
    BY DEF WritableStartsAgain, StartsAgain
  <2>1. f.reason \in Reasons
    BY DEF IInv, TypeOK
  <2>2. f.reason # "refused" /\ f.reason \notin {"blocked", "unreadable", "denied"}
    BY DEF IInv, Outcomes, AcceptedNeverRefused, Unlocked
  <2> QED
    BY <2>1, <2>2 DEF Reasons
<1> QED
  BY <1>1, Inductive, PTL
=============================================================================
