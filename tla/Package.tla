------------------------------ MODULE Package ------------------------------
(***************************************************************************)
(* A deployment package, from the control plane that accepts it to the     *)
(* task_root it is unpacked into.  validate_deployment_zip and unpack_code *)
(* walk the entries of the ZIP separately, with the same defences; every   *)
(* cold start of the revision unpacks into the same directory, over what   *)
(* earlier ones left, and the thread of a cancelled one goes on alone.     *)
(*                                                                         *)
(* The archive gives each name once, so no two files share a path.  The    *)
(* removal of a task_root is in Invoker.                                   *)
(***************************************************************************)
EXTENDS Naturals, Sequences

CONSTANTS
  Paths,       \* paths inside the package
  Bootstrap,   \* the path `bootstrap`
  Ancestors,   \* the directories each path is in
  Outside,     \* a path that escapes the package
  MaxEntries,  \* bound on the entries of a package
  MaxSize,     \* bound on the size of one entry
  Limit,       \* MAX_UNPACKED_BYTES
  Threads,     \* blocking threads that can unpack at once
  NoZip        \* nothing deployed

Entry == [path : Paths \cup {Outside}, dir : BOOLEAN, size : 0..MaxSize,
          readOnly : BOOLEAN, corrupt : BOOLEAN]
IsFile(e) == ~e.dir
Zips == UNION {[1..n -> Entry] : n \in 0..MaxEntries}
Plain(z) ==
  /\ \A i \in DOMAIN z : (z[i].dir => z[i].size = 0 /\ ~z[i].readOnly) /\ (z[i].corrupt => z[i].size > 0)
  /\ \A i, j \in DOMAIN z : (z[i].path = z[j].path /\ z[i].dir = z[j].dir) => i = j

ASSUME PackageAssumption ==
  /\ Bootstrap \in Paths /\ Outside \notin Paths /\ Ancestors \in [Paths -> SUBSET Paths]
  /\ \A p \in Paths : p \notin Ancestors[p]
  /\ MaxEntries \in Nat /\ MaxSize \in Nat /\ Limit \in Nat /\ NoZip \notin Zips

VARIABLES
  zip,      \* the package of the revision
  provided, \* its runtime takes the bootstrap from the package
  root,     \* what each path of the task_root is
  locked,   \* the files without permission to write
  pc, pos,  \* where each thread is: the entry it is at
  orphans,  \* threads nobody waits for any more
  started,  \* history: a cold start of the revision has succeeded
  failures, \* history: why cold starts failed, and whether one had succeeded
  spoiled   \* history: a write has failed half way

deployment == <<zip, provided>>
vars == <<deployment, root, locked, pc, pos, orphans, started, failures, spoiled>>

Working == {"entry", "writing", "written"}
Reasons == {"refused", "unreadable", "blocked", "denied", "busy", "io"}

Init ==
  /\ zip = NoZip /\ provided = FALSE
  /\ root = [p \in Paths |-> "absent"] /\ locked = {}
  /\ pc = [t \in Threads |-> "idle"] /\ pos = [t \in Threads |-> 1]
  /\ orphans = {} /\ started = FALSE /\ failures = {} /\ spoiled = FALSE

-----------------------------------------------------------------------------
(* The declared size of the first i entries: directories do not count. *)
Declared(z) ==
  LET total[i \in 0..Len(z)] ==
        IF i = 0 THEN 0 ELSE total[i - 1] + (IF IsFile(z[i]) THEN z[i].size ELSE 0)
  IN total

TooBigLate(total) == total > Limit + 1  \* variant for the mutation runs: off by one
TooBig(total) == total > Limit
Bomb(total) == total > Limit

(* validate_deployment_zip *)
Accepted(z, needsBootstrap) ==
  /\ \A i \in DOMAIN z : z[i].path # Outside /\ (IsFile(z[i]) => ~TooBig(Declared(z)[i]))
  /\ needsBootstrap => \E i \in DOMAIN z : IsFile(z[i]) /\ z[i].path = Bootstrap

Deploy ==
  /\ zip = NoZip
  /\ \E z \in Zips, needsBootstrap \in BOOLEAN :
       /\ Plain(z) /\ Accepted(z, needsBootstrap)
       /\ zip' = z /\ provided' = needsBootstrap
  /\ UNCHANGED <<root, locked, pc, pos, orphans, started, failures, spoiled>>

-----------------------------------------------------------------------------
(* cold_start gives the package to a blocking thread. *)
Start(t) ==
  /\ zip # NoZip /\ pc[t] = "idle"
  /\ pc' = [pc EXCEPT ![t] = "entry"] /\ pos' = [pos EXCEPT ![t] = 1]
  /\ UNCHANGED <<deployment, root, locked, orphans, started, failures, spoiled>>

(* The error leaves unpack_code: the cold start fails. *)
FailWith(t, reason) ==
  /\ pc' = [pc EXCEPT ![t] = "idle"] /\ orphans' = orphans \ {t}
  /\ failures' = failures \cup {[again |-> started, reason |-> reason]}
  /\ UNCHANGED <<deployment, pos, started>>

At(t) == zip[pos[t]]
Ahead(t) == pc[t] = "entry" /\ pos[t] <= Len(zip)
Advance(t) == pc' = [pc EXCEPT ![t] = "entry"] /\ pos' = [pos EXCEPT ![t] = @ + 1]

(* create_dir_all: of the entry itself, or of the directory a file is in. *)
Dirs(e) == Ancestors[e.path] \cup (IF e.dir THEN {e.path} ELSE {})
MakeDirs(e) == [p \in Paths |-> IF p \in Dirs(e) THEN "dir" ELSE root[p]]
NeverObstructed(e) == FALSE  \* variant for the mutation runs: the file gives way
Obstructed(e) == \E p \in Dirs(e) : root[p] \in {"torn", "whole"}

(* What the thread bails out for: a path out of the package, a package too  *)
(* big or without its bootstrap, a file where a directory has to be, or the *)
(* other way round.                                                         *)
HasBootstrap == root[Bootstrap] \in {"torn", "whole"}
Misplaced(e) == IsFile(e) /\ ~e.corrupt /\ root[e.path] = "dir"
Refused(t) ==
  IF pos[t] > Len(zip) THEN provided /\ ~HasBootstrap
  ELSE At(t).path = Outside \/ (IsFile(At(t)) /\ Bomb(Declared(zip)[pos[t]]))
Blocked(t) == Ahead(t) /\ ~Refused(t) /\ (Obstructed(At(t)) \/ Misplaced(At(t)))
Bail(t) ==
  /\ pc[t] = "entry" /\ (Refused(t) \/ Blocked(t))
  /\ FailWith(t, IF Refused(t) THEN "refused" ELSE "blocked")
  /\ root' = IF Blocked(t) /\ ~Obstructed(At(t)) THEN MakeDirs(At(t)) ELSE root
  /\ UNCHANGED <<locked, spoiled>>

(* The data of an entry is first read here, and may not be what it should.  *)
Unreadable(t) ==
  /\ Ahead(t) /\ ~Refused(t) /\ ~Blocked(t) /\ IsFile(At(t)) /\ At(t).corrupt
  /\ root' = MakeDirs(At(t))
  /\ FailWith(t, "unreadable")
  /\ UNCHANGED <<locked, spoiled>>

MakeDirectory(t) ==
  /\ Ahead(t) /\ ~Refused(t) /\ ~Blocked(t) /\ At(t).dir
  /\ root' = MakeDirs(At(t))
  /\ Advance(t)
  /\ UNCHANGED <<deployment, locked, orphans, started, failures, spoiled>>

(* fs::write opens and truncates the file, which may be denied, or refused  *)
(* while a process runs it... *)
Openable(t) ==
  Ahead(t) /\ ~Refused(t) /\ ~Blocked(t) /\ IsFile(At(t)) /\ ~At(t).corrupt
Live == {t \in Threads : pc[t] = "live"}
Running(p) == provided /\ p = Bootstrap /\ Live # {}
Deny(t) ==
  /\ Openable(t)
  /\ \/ At(t).path \in locked /\ FailWith(t, "denied")
     \/ Running(At(t).path) /\ FailWith(t, "busy")
  /\ root' = MakeDirs(At(t))
  /\ UNCHANGED <<locked, spoiled>>

(* Variant for the mutation runs: a file that is there is not written again. *)
OpenUnlessThere(t) ==
  /\ Openable(t) /\ At(t).path \notin locked
  /\ root' = [MakeDirs(At(t)) EXCEPT ![At(t).path] = IF @ = "absent" THEN "torn" ELSE @]
  /\ IF root[At(t).path] = "absent"
     THEN pc' = [pc EXCEPT ![t] = "writing"] /\ UNCHANGED pos
     ELSE Advance(t)
  /\ UNCHANGED <<deployment, locked, orphans, started, failures, spoiled>>

Open(t) ==
  /\ Openable(t) /\ At(t).path \notin locked
  /\ root' = [MakeDirs(At(t)) EXCEPT ![At(t).path] = "torn"]
  /\ pc' = [pc EXCEPT ![t] = "writing"]
  /\ UNCHANGED <<deployment, locked, pos, orphans, started, failures, spoiled>>

(* ... then writes it, which leaves it whole unless another thread has it   *)
(* open, and gives it the mode of the entry.                                *)
Writers(p) == {t \in Threads : pc[t] = "writing" /\ At(t).path = p}
Write(t) ==
  /\ pc[t] = "writing"
  /\ root' = IF Writers(At(t).path) = {t} THEN [root EXCEPT ![At(t).path] = "whole"] ELSE root
  /\ pc' = [pc EXCEPT ![t] = "written"]
  /\ UNCHANGED <<deployment, locked, pos, orphans, started, failures, spoiled>>

SetMode(t) ==
  /\ pc[t] = "written"
  /\ locked' = IF At(t).readOnly THEN locked \cup {At(t).path} ELSE locked
  /\ Advance(t)
  /\ UNCHANGED <<deployment, root, orphans, started, failures, spoiled>>

(* The disk is full, or fails. *)
WriteFails(t) ==
  /\ pc[t] = "writing"
  /\ spoiled' = TRUE
  /\ FailWith(t, "io")
  /\ UNCHANGED <<root, locked>>

(* provided_bootstrap: the file has to be there, and is made executable,    *)
(* and writable with it.                                                    *)
ReadAndExecute(files) == files \cup {Bootstrap}  \* variant for the mutation runs: mode 0555
Executable(files) == files \ {Bootstrap}
Finish(t) ==
  /\ pc[t] = "entry" /\ pos[t] > Len(zip) /\ ~Refused(t)
  /\ locked' = IF provided THEN Executable(locked) ELSE locked
  /\ started' = TRUE
  /\ pc' = [pc EXCEPT ![t] = IF t \in orphans THEN "idle" ELSE "live"]
  /\ orphans' = orphans \ {t}
  /\ UNCHANGED <<deployment, root, pos, failures, spoiled>>

-----------------------------------------------------------------------------
(* The caller goes away: the thread does not know. *)
Cancel(t) ==
  /\ pc[t] \in Working /\ t \notin orphans
  /\ orphans' = orphans \cup {t}
  /\ UNCHANGED <<deployment, root, locked, pc, pos, started, failures, spoiled>>

(* The environment is terminated, to be retired or started again. *)
Terminate(t) ==
  /\ pc[t] = "live"
  /\ pc' = [pc EXCEPT ![t] = "idle"]
  /\ UNCHANGED <<deployment, root, locked, pos, orphans, started, failures, spoiled>>

(* The daemon dies, and every thread and process with it: the files stay. *)
Crash ==
  /\ \E t \in Threads : pc[t] # "idle"
  /\ pc' = [t \in Threads |-> "idle"] /\ orphans' = {}
  /\ UNCHANGED <<deployment, root, locked, pos, started, failures, spoiled>>

Next ==
  \/ Deploy
  \/ \E t \in Threads :
       \/ Start(t) \/ Bail(t) \/ Unreadable(t) \/ MakeDirectory(t) \/ Deny(t) \/ Open(t)
       \/ Write(t) \/ SetMode(t) \/ WriteFails(t) \/ Finish(t)
       \/ Cancel(t) \/ Terminate(t)
  \/ Crash

Spec == Init /\ [][Next]_vars

-----------------------------------------------------------------------------
(* Every variable ranges over the values a deployment can hold, and only    *)
(* files are read-only.                                                     *)
TypeOK ==
  /\ zip \in Zips \cup {NoZip} /\ provided \in BOOLEAN
  /\ root \in [Paths -> {"absent", "dir", "torn", "whole"}]
  /\ locked \in SUBSET {p \in Paths : root[p] \in {"torn", "whole"}}
  /\ pc \in [Threads -> {"idle", "live"} \cup Working]
  /\ pos \in [Threads -> 1..(MaxEntries + 1)]
  /\ orphans \in SUBSET Threads
  /\ started \in BOOLEAN
  /\ failures \in SUBSET [again : BOOLEAN, reason : Reasons]
  /\ spoiled \in BOOLEAN

(* The two walks over the ZIP agree: what the control plane accepted, no    *)
(* cold start refuses for its size, its paths or a missing bootstrap.       *)
AcceptedNeverRefused == \A f \in failures : f.reason # "refused"

(* Whatever was interrupted, cancelled or killed before, once nobody is     *)
(* unpacking the root of a live environment holds its whole package.        *)
QuietRootIsWhole ==
  (Live # {} /\ ~spoiled /\ \A t \in Threads : pc[t] \notin Working) =>
    \A i \in DOMAIN zip : IsFile(zip[i]) => root[zip[i].path] = "whole"

(* A revision that has been started can be started again, over whatever is  *)
(* in its task_root; only the disk or a process that is running it can stop *)
(* the cold start.                                                          *)
StartsAgain == \A f \in failures : f.again => f.reason \in {"busy", "io"}

(* The same, of packages with no read-only file.                            *)
WritableStartsAgain == (zip # NoZip /\ \A i \in DOMAIN zip : ~zip[i].readOnly) => StartsAgain
=============================================================================
