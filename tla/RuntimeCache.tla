---------------------------- MODULE RuntimeCache ----------------------------
(***************************************************************************)
(* The cache of runtime bundles: ensure installs the generation a pin      *)
(* names and points the public link at it, gc deletes cold generations     *)
(* over a quota, resolve fixes a generation for each environment.  They    *)
(* run in different processes (the daemon, `zapcloud runtimes install` and *)
(* `gc`) that may die at any step, and share only files: a .lock per       *)
(* bundle, exclusive to installers and collectors and shared by resolvers, *)
(* a .lease per generation, shared by environments, and a .gc.lock.        *)
(*                                                                         *)
(* The quota counts generations instead of bytes.  A directory that read_dir *)
(* meets while it is being created is not scanned.                         *)
(***************************************************************************)
EXTENDS Naturals, FiniteSets

CONSTANTS Families,  \* bundles of the host: nodejs22-linux-arm64, ...
          Pins,      \* entries of index.json
          Workers,   \* processes that install or collect
          Resolvers, \* cold starts of the daemon, and the environments they start
          MaxGen,    \* bound on the downloads ever started
          MaxKept,   \* max_cache_bytes, in generations
          Rot,       \* generations whose bytes may be damaged on disk
          Nobody     \* no process, no bundle, no pin, no link

Gens == 1..MaxGen
Tasks == Workers \cup Resolvers
Legacy == 0          \* a bundle directory of the old layout, out of .versions

ASSUME RuntimeCacheAssumption ==
  /\ Workers \cap Resolvers = {} /\ MaxGen \in Nat /\ MaxKept \in Nat /\ Rot \subseteq Gens
  /\ Nobody \notin Families \cup Pins \cup Workers \cup 0..MaxGen

VARIABLES
  link,     \* the public link of each bundle
  managed,  \* bundles with a directory and a .lock under .versions
  owner,    \* the exclusive holder of each .lock
  guards,   \* resolvers that hold the .lock of their bundle, shared
  bare,     \* resolvers that found no .lock, and go on without a guard
  lost,     \* resolvers that opened a .lease that was unlinked since
  place,    \* where each generation is
  bundle,   \* what its bundle directory holds
  origin,   \* its bundle and pin: the directory name and pin.json
  born,     \* the last generation started: suffixes are unique
  leases,   \* generations with a .lease file
  newer,    \* of each generation directory, those modified after it
  pc, family, gen, \* of each task: where it is and what it works on
  pin,      \* of each worker: the pin it installs
  due,      \* collectors: bundles still to lock and scan
  cands,    \* collectors: candidates not tried yet
  left,     \* collectors: after_bytes
  verified  \* VERIFIED, the daemon's memo of verified paths

readers == <<guards, bare, lost>>
locks == <<managed, owner, readers>>
disk == <<place, bundle, origin, born, leases, newer>>
collector == <<due, cands, left>>
vars == <<link, locks, disk, pc, family, gen, pin, collector, verified>>

InstallPcs == {"clean", "choose", "download", "keep", "activate"}
WorkerPcs == {"idle", "lock", "scan", "remove", "clear"} \cup InstallPcs
ResolverPcs == {"idle", "lock", "read", "lease", "wait", "check", "live"}

Init ==
  /\ link \in [Families -> {Nobody, Legacy}]
  /\ managed = {} /\ owner = [f \in Families |-> Nobody] /\ guards = {}
  /\ bare = {} /\ lost = {}
  /\ place = [g \in Gens |-> "none"] /\ bundle = [g \in Gens |-> "none"]
  /\ origin = [g \in Gens |-> Nobody]
  /\ born = 0 /\ leases = {} /\ newer = [g \in Gens |-> {}]
  /\ pc = [t \in Tasks |-> "idle"] /\ family = [t \in Tasks |-> Nobody]
  /\ gen = [t \in Tasks |-> Nobody]
  /\ pin = [w \in Workers |-> Nobody]
  /\ due = [w \in Workers |-> {}] /\ cands = [w \in Workers |-> {}]
  /\ left = [w \in Workers |-> 0]
  /\ verified = {}

Goto(t, where) == pc' = [pc EXCEPT ![t] = where]
Kept(f) == {g \in Gens : place[g] = "gen" /\ origin[g][1] = f}
Whole(g) == bundle[g] = "whole"  \* manifest::verify and the pin
Leased(g) == \E r \in Resolvers \ lost : gen[r] = g /\ pc[r] \in {"check", "live"}
NeverLocked(f) == TRUE  \* variant for the mutation runs: there is no .lock
Unlocked(f) == owner[f] = Nobody /\ \A r \in guards : family[r] # f

(* A directory that gains or loses an entry is modified now. *)
Touch(gs) ==
  newer' = [g \in Gens |-> IF g \in gs \/ g > born THEN {} ELSE newer[g] \cup gs]

(* A worker returns, by any path, or dies: its locks are released. *)
Unlock(w) == owner' = [f \in Families |-> IF owner[f] = w THEN Nobody ELSE owner[f]]
Leave(w) ==
  /\ Goto(w, "idle") /\ Unlock(w)
  /\ family' = [family EXCEPT ![w] = Nobody] /\ gen' = [gen EXCEPT ![w] = Nobody]
  /\ pin' = [pin EXCEPT ![w] = Nobody]
  /\ due' = [due EXCEPT ![w] = {}] /\ cands' = [cands EXCEPT ![w] = {}]
  /\ left' = [left EXCEPT ![w] = 0]
  /\ UNCHANGED <<managed, readers>>

-----------------------------------------------------------------------------
(* ensure_target, up to the wait for the .lock of the bundle. *)
EnsureOpen(w, f, p) ==
  /\ pc[w] = "idle"
  /\ managed' = managed \cup {f}
  /\ family' = [family EXCEPT ![w] = f] /\ pin' = [pin EXCEPT ![w] = p]
  /\ Goto(w, "lock")
  /\ UNCHANGED <<link, owner, readers, disk, gen, collector, verified>>

EnsureLock(w) ==
  /\ pc[w] = "lock" /\ Unlocked(family[w])
  /\ owner' = [owner EXCEPT ![family[w]] = w]
  /\ Goto(w, "clean")
  /\ UNCHANGED <<link, managed, readers, disk, family, gen, pin, collector, verified>>

(* Variant for the mutation runs: staging is not cleaned. *)
CleanNothing(w) ==
  /\ pc[w] = "clean"
  /\ Goto(w, "choose")
  /\ UNCHANGED <<link, locks, disk, family, gen, pin, collector, verified>>

(* What an installer that died left behind. *)
CleanStaging(w) ==
  /\ pc[w] = "clean"
  /\ place' = [g \in Gens |-> IF place[g] = "tmp" /\ origin[g][1] = family[w]
                              THEN "gone" ELSE place[g]]
  /\ Goto(w, "choose")
  /\ UNCHANGED <<link, locks, bundle, origin, born, leases, newer, family, gen, pin,
                 collector, verified>>

MatchesReceipt(f, p) ==  \* variant for the mutation runs: the receipt is trusted
  {g \in Kept(f) : origin[g][2] = p}
MatchesAnyPin(f, p) ==  \* variant for the mutation runs: any sound bundle will do
  {g \in Kept(f) : Whole(g)}

(* generation_matches: the receipt is the whole pin and the bundle verifies. *)
Matches(f, p) == {g \in Kept(f) : origin[g][2] = p /\ Whole(g)}

AlreadyPresent(w) ==
  /\ pc[w] = "choose" /\ link[family[w]] \in Matches(family[w], pin[w])
  /\ Leave(w)
  /\ UNCHANGED <<link, disk, verified>>

(* Rollback, repair, or recovery of a generation that was never activated. *)
Reuse(w) ==
  /\ pc[w] = "choose" /\ link[family[w]] \notin Matches(family[w], pin[w])
  /\ \E g \in Matches(family[w], pin[w]) : gen' = [gen EXCEPT ![w] = g]
  /\ Goto(w, "activate")
  /\ UNCHANGED <<link, locks, disk, family, pin, collector, verified>>

NoReceipt(w) == <<family[w], Nobody>>  \* variant for the mutation runs: it lacks the pin
Receipt(w) == <<family[w], pin[w]>>

(* Nothing matches: an offline installer fails (Fail), another one downloads *)
(* to a staging directory.                                                  *)
Stage(w) ==
  /\ pc[w] = "choose" /\ Matches(family[w], pin[w]) = {} /\ born < MaxGen
  /\ born' = born + 1
  /\ place' = [place EXCEPT ![born + 1] = "tmp"]
  /\ origin' = [origin EXCEPT ![born + 1] = Receipt(w)]
  /\ gen' = [gen EXCEPT ![w] = born + 1]
  /\ Goto(w, "download")
  /\ UNCHANGED <<link, locks, bundle, leases, newer, family, pin, collector, verified>>

(* The bundle is pulled, verified against its pin, and given a receipt. *)
Pull(g) == bundle' = [bundle EXCEPT ![g] = "whole"] /\ Touch({g})
Download(w) ==
  /\ pc[w] = "download" /\ Pull(gen[w])
  /\ Goto(w, "keep")
  /\ UNCHANGED <<link, locks, place, origin, born, leases, family, gen, pin, collector, verified>>

Keep(w) ==
  /\ pc[w] = "keep"
  /\ place' = [place EXCEPT ![gen[w]] = "gen"]
  /\ Goto(w, "activate")
  /\ UNCHANGED <<link, locks, bundle, origin, born, leases, newer, family, gen, pin,
                 collector, verified>>

(* One rename, or one exchange with a directory of the old layout. *)
Activate(w) ==
  /\ pc[w] = "activate"
  /\ link' = [link EXCEPT ![family[w]] = gen[w]]
  /\ Leave(w)
  /\ UNCHANGED <<disk, verified>>

(* Any step of an installer fails, or its future is dropped: RemoveStaging. *)
Fail(w) ==
  /\ pc[w] \in {"lock"} \cup InstallPcs
  /\ place' = IF pc[w] \in {"download", "keep"} THEN [place EXCEPT ![gen[w]] = "gone"] ELSE place
  /\ Leave(w)
  /\ UNCHANGED <<link, bundle, origin, born, leases, newer, verified>>

-----------------------------------------------------------------------------
(* gc: the global lock, then the .lock of every bundle, kept to the end.    *)
Removing(w) == pc[w] \in {"remove", "clear"}
Collecting(w) == pc[w] = "scan" \/ Removing(w)
GcStart(w) ==
  /\ pc[w] = "idle" /\ managed # {} /\ \A v \in Workers : ~Collecting(v)
  /\ due' = [due EXCEPT ![w] = managed]
  /\ Goto(w, "scan")
  /\ UNCHANGED <<link, locks, disk, family, gen, pin, cands, left, verified>>

(* The scan opens, and so creates, the .lease of every generation before it *)
(* reads the modification time of the directory; the active one is spared.  *)
GcLockFamily(w, f) ==
  /\ pc[w] = "scan" /\ f \in due[w] /\ Unlocked(f)
  /\ owner' = [owner EXCEPT ![f] = w]
  /\ due' = [due EXCEPT ![w] = @ \ {f}]
  /\ Touch(Kept(f) \ leases) /\ leases' = leases \cup Kept(f)
  /\ cands' = [cands EXCEPT ![w] = @ \cup (Kept(f) \ {link[f]})]
  /\ left' = [left EXCEPT ![w] = @ + Cardinality(Kept(f))]
  /\ UNCHANGED <<link, managed, readers, place, bundle, origin, born, pc, family, gen, pin, verified>>

(* Cold candidates, the oldest first, until the quota is met; one that an   *)
(* environment has leased is skipped.                                       *)
TryAnyway(g) == TRUE  \* variant for the mutation runs: the lease is not looked at
TryLock(g) == ~Leased(g)
Trying(w, g) ==
  /\ pc[w] = "scan" /\ due[w] = {} /\ left[w] > MaxKept
  /\ g \in cands[w] /\ \A h \in cands[w] : g \notin newer[h]
  /\ cands' = [cands EXCEPT ![w] = @ \ {g}]
GcSkip(w, g) ==
  /\ Trying(w, g) /\ ~TryLock(g)
  /\ UNCHANGED <<link, locks, disk, pc, family, gen, pin, due, left, verified>>
GcDelete(w, g) ==
  /\ Trying(w, g) /\ TryLock(g)
  /\ place' = [place EXCEPT ![g] = "deleting"]
  /\ gen' = [gen EXCEPT ![w] = g]
  /\ Goto(w, "remove")
  /\ UNCHANGED <<link, locks, bundle, origin, born, leases, newer, family, pin, due, left,
                 verified>>

(* remove_dir_all, in the order of the directory: the .lease the collector  *)
(* has locked is unlinked at some moment, and so may be a new one, with     *)
(* whoever had opened it.                                                   *)
GcUnlink(w) ==
  /\ Removing(w) /\ gen[w] \in leases
  /\ leases' = leases \ {gen[w]}
  /\ lost' = lost \cup {r \in Resolvers : gen[r] = gen[w] /\ pc[r] \in {"wait", "check", "live"}}
  /\ Goto(w, "clear")
  /\ UNCHANGED <<link, managed, owner, guards, bare, place, bundle, origin, born, newer, family, gen,
                 pin, collector, verified>>

(* The directory is empty.  One in which a new .lease was left cannot be    *)
(* removed, and the collector fails (Die).                                  *)
GcDeleted(w) ==
  /\ pc[w] = "clear" /\ gen[w] \notin leases
  /\ place' = [place EXCEPT ![gen[w]] = "gone"]
  /\ left' = [left EXCEPT ![w] = @ - 1]
  /\ gen' = [gen EXCEPT ![w] = Nobody]
  /\ Goto(w, "scan")
  /\ UNCHANGED <<link, locks, bundle, origin, born, leases, newer, family, pin, due, cands, verified>>
GcEnd(w) ==
  /\ pc[w] = "scan" /\ due[w] = {} /\ (cands[w] = {} \/ left[w] <= MaxKept)
  /\ Leave(w)
  /\ UNCHANGED <<link, disk, verified>>

(* A process dies, or a collector fails: its files stay as they are.  What  *)
(* was being deleted is left in pieces.                                     *)
Die(w) ==
  /\ pc[w] # "idle"
  /\ IF Removing(w)
     THEN /\ place' = [place EXCEPT ![gen[w]] = "gen"]
          /\ bundle' = [bundle EXCEPT ![gen[w]] = "partial"]
          /\ Touch({gen[w]})
     ELSE UNCHANGED <<place, bundle, newer>>
  /\ Leave(w)
  /\ UNCHANGED <<link, origin, born, leases, verified>>

-----------------------------------------------------------------------------
(* resolve_bundle.  Without a .lock the layout is the old one: no guard.    *)
Settle(r) ==
  /\ Goto(r, "idle")
  /\ family' = [family EXCEPT ![r] = Nobody] /\ gen' = [gen EXCEPT ![r] = Nobody]
  /\ guards' = guards \ {r} /\ bare' = bare \ {r} /\ lost' = lost \ {r}

ResolveOpen(r, f) ==
  /\ pc[r] = "idle"
  /\ family' = [family EXCEPT ![r] = f]
  /\ IF f \in managed THEN Goto(r, "lock") /\ bare' = bare
                       ELSE Goto(r, "read") /\ bare' = bare \cup {r}
  /\ UNCHANGED <<link, managed, owner, guards, lost, disk, gen, pin, collector, verified>>

ResolveLock(r) ==
  /\ pc[r] = "lock" /\ owner[family[r]] = Nobody
  /\ guards' = guards \cup {r}
  /\ Goto(r, "read")
  /\ UNCHANGED <<link, managed, owner, bare, lost, disk, family, gen, pin, collector, verified>>

ReadLink(r) ==
  /\ pc[r] = "read"
  /\ \/ link[family[r]] = Nobody /\ Settle(r)
     \/ /\ link[family[r]] # Nobody
        /\ gen' = [gen EXCEPT ![r] = link[family[r]]]
        /\ Goto(r, "lease") /\ UNCHANGED <<family, readers>>
  /\ UNCHANGED <<link, managed, owner, disk, pin, collector, verified>>

(* The shared .lease of the generation; a bundle of the old layout has none. *)
(* A collector that deletes the generation holds the file until it returns; *)
(* once it has unlinked it, whoever has no guard makes a new one.           *)
BeingRemoved(g) == \E w \in Workers : pc[w] = "remove" /\ gen[w] = g
TakeLease(r) ==
  LET g == gen[r] IN
  /\ pc[r] = "lease"
  /\ \/ /\ g = Legacy
        /\ Goto(r, "check") /\ UNCHANGED <<leases, newer, family, gen, readers>>
     \/ /\ g # Legacy /\ place[g] \in {"gen", "deleting"} /\ ~BeingRemoved(g)
        /\ Touch({g} \ leases) /\ leases' = leases \cup {g}
        /\ Goto(r, "check") /\ UNCHANGED <<family, gen, readers>>
     \/ /\ g # Legacy /\ BeingRemoved(g)
        /\ Goto(r, "wait") /\ UNCHANGED <<leases, newer, family, gen, readers>>
     \/ /\ g # Legacy /\ place[g] # "gen"
        /\ Settle(r) /\ UNCHANGED <<leases, newer>>
  /\ UNCHANGED <<link, managed, owner, place, bundle, origin, born, pin, collector, verified>>

(* The collector let the .lease go, unlinked or not. *)
WaitLease(r) ==
  /\ pc[r] = "wait" /\ place[gen[r]] # "deleting"
  /\ Goto(r, "check")
  /\ UNCHANGED <<link, locks, disk, family, gen, pin, collector, verified>>

(* The layout is checked and verify_once verifies the bundle, unless it did *)
(* before; damage, or a deletion, may or may not be seen in the layout.     *)
VerifyOnce(g) ==
  /\ g \notin verified \cup {Legacy} => Whole(g)
  /\ verified' = IF g = Legacy THEN verified ELSE verified \cup {g}
Serve(r) ==
  /\ pc[r] = "check"
  /\ VerifyOnce(gen[r]) /\ (gen[r] # Legacy => place[gen[r]] # "gone")
  /\ guards' = guards \ {r}
  /\ Goto(r, "live")
  /\ UNCHANGED <<link, managed, owner, bare, lost, disk, family, gen, pin, collector>>
Refuse(r) ==
  /\ pc[r] = "check"
  /\ gen[r] # Legacy => ~Whole(gen[r]) \/ place[gen[r]] # "gen"
  /\ Settle(r)
  /\ UNCHANGED <<link, managed, owner, disk, pin, collector, verified>>

(* The environment is dropped, and its lease with it. *)
Drop(r) ==
  /\ pc[r] = "live" /\ Settle(r)
  /\ UNCHANGED <<link, managed, owner, disk, pin, collector, verified>>

(* The daemon dies, and its environments and its memo with it. *)
Restart ==
  /\ \E r \in Resolvers : pc[r] # "idle"
  /\ pc' = [t \in Tasks |-> IF t \in Resolvers THEN "idle" ELSE pc[t]]
  /\ family' = [t \in Tasks |-> IF t \in Resolvers THEN Nobody ELSE family[t]]
  /\ gen' = [t \in Tasks |-> IF t \in Resolvers THEN Nobody ELSE gen[t]]
  /\ guards' = {} /\ bare' = {} /\ lost' = {} /\ verified' = {}
  /\ UNCHANGED <<link, managed, owner, disk, pin, collector>>

(* Bytes of a generation change on disk. *)
Damage(g) ==
  /\ g \in Rot /\ place[g] \in {"tmp", "gen"} /\ bundle[g] = "whole"
  /\ bundle' = [bundle EXCEPT ![g] = "damaged"]
  /\ UNCHANGED <<link, locks, place, origin, born, leases, newer, pc, family, gen, pin,
                 collector, verified>>

-----------------------------------------------------------------------------
Install(w) ==
  \/ \E f \in Families, p \in Pins : EnsureOpen(w, f, p)
  \/ EnsureLock(w) \/ CleanStaging(w) \/ AlreadyPresent(w) \/ Reuse(w) \/ Stage(w)
  \/ Download(w) \/ Keep(w) \/ Activate(w) \/ Fail(w)
Collect(w) ==
  \/ GcStart(w) \/ GcUnlink(w) \/ GcDeleted(w) \/ GcEnd(w)
  \/ \E f \in Families : GcLockFamily(w, f)
  \/ \E g \in Gens : GcSkip(w, g) \/ GcDelete(w, g)
Resolve(r) ==
  \/ \E f \in Families : ResolveOpen(r, f)
  \/ ResolveLock(r) \/ ReadLink(r) \/ TakeLease(r) \/ WaitLease(r) \/ Serve(r) \/ Refuse(r) \/ Drop(r)

Next ==
  \/ \E w \in Workers : Install(w) \/ Collect(w) \/ Die(w)
  \/ \E r \in Resolvers : Resolve(r)
  \/ Restart
  \/ \E g \in Gens : Damage(g)

Spec == Init /\ [][Next]_vars

-----------------------------------------------------------------------------
(* Every variable ranges over the values the cache can hold. *)
TypeOK ==
  /\ link \in [Families -> Gens \cup {Nobody, Legacy}]
  /\ managed \in SUBSET Families /\ owner \in [Families -> Workers \cup {Nobody}]
  /\ guards \in SUBSET Resolvers /\ bare \in SUBSET Resolvers /\ lost \in SUBSET Resolvers
  /\ place \in [Gens -> {"none", "tmp", "gen", "deleting", "gone"}]
  /\ bundle \in [Gens -> {"none", "whole", "damaged", "partial"}]
  /\ origin \in [Gens -> (Families \X Pins) \cup {Nobody}]
  /\ born \in 0..MaxGen /\ leases \in SUBSET Gens /\ newer \in [Gens -> SUBSET Gens]
  /\ pc \in [Tasks -> WorkerPcs \cup ResolverPcs]
  /\ family \in [Tasks -> Families \cup {Nobody}]
  /\ gen \in [Tasks -> Gens \cup {Nobody, Legacy}]
  /\ pin \in [Workers -> Pins \cup {Nobody}]
  /\ due \in [Workers -> SUBSET Families] /\ cands \in [Workers -> SUBSET Gens]
  /\ left \in [Workers -> Nat]
  /\ verified \in SUBSET Gens

(* "GC cannot delete this generation" (resolve.rs:32): no generation is      *)
(* deleted while an environment, or a cold start that has fixed it, uses it, *)
(* if there was a .lock to fix it under.  The .lease alone keeps it then,    *)
(* for the .lock is released before the environment starts.                  *)
IsKept(r) == (pc[r] \in {"check", "live"} /\ gen[r] # Legacy) => place[gen[r]] = "gen"
LiveIsKept == \A r \in Resolvers \ bare : IsKept(r)

(* The same for whoever found no .lock, because the bundle was about to be   *)
(* installed for the first time.  It does not hold.                          *)
EveryLiveIsKept == \A r \in Resolvers : IsKept(r)

(* Whatever dies and whenever, the public link leads to a generation of its *)
(* own bundle that was downloaded to the end and that no collector touches; *)
(* only damage on disk can make it unusable.                                *)
ActiveIsComplete ==
  \A f \in Families : link[f] \in Gens =>
    /\ link[f] \in Kept(f)
    /\ bundle[link[f]] = "whole" \/ (bundle[link[f]] = "damaged" /\ link[f] \in Rot)

(* An installer never loses its staging directory to the cleaning of        *)
(* another, and what installers that died leave behind does not pile up.    *)
StagingIsOwned ==
  /\ \A w \in Workers : pc[w] \in {"download", "keep"} => place[gen[w]] = "tmp"
  /\ \A g, h \in Gens : (place[g] = "tmp" /\ place[h] = "tmp" /\ origin[g][1] = origin[h][1]) => g = h

(* "Concurrent installs of one pin download once": there are never two      *)
(* generations of one pin, unless the first was spoiled.                    *)
OneGenerationPerPin ==
  \A g, h \in Gens : (g # h /\ place[g] = "gen" /\ place[h] = "gen" /\ origin[g] = origin[h]) =>
    "whole" # bundle[g] \/ "whole" # bundle[h]

(* The sizes a collector measured stay right while it deletes: nobody adds  *)
(* or removes a generation of a bundle it has locked.                       *)
ReportIsExact ==
  \A w \in Workers : pc[w] = "scan" =>
    left[w] = Cardinality(UNION {Kept(f) : f \in {e \in Families : owner[e] = w}})

(* "A failed download, check or activation keeps the previous destination": *)
(* the link only moves to a generation of the pin its installer asked for.  *)
ActivatesRequestedPin ==
  [][\A f \in Families : link'[f] # link[f] =>
       \E w \in Workers : owner[f] = w /\ link'[f] \in Kept(f) /\ origin[link'[f]] = <<f, pin[w]>>]_vars

(* "If its integrity does not verify, the cold start fails": what the memo  *)
(* spares from verification is whole.                                       *)
ServesOnlyVerified ==
  \A r \in Resolvers : (pc[r] = "check" /\ gen[r] \in verified) => Whole(gen[r])

(* "The oldest cold generations first": no candidate is deleted before one  *)
(* that was installed earlier and is still to be tried.                     *)
OldestFirst ==
  \A w \in Workers : Removing(w) => \A h \in cands[w] : h > gen[w]
=============================================================================
