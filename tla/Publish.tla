------------------------------ MODULE Publish ------------------------------
(***************************************************************************)
(* How a runtime bundle reaches the index that installations trust:        *)
(* `xtask bundle` assembles it, `xtask publish` pushes it to an OCI        *)
(* registry and pins it in an index, the workflow runtimes.yml does both   *)
(* in one job per target, and merges the fragments of its jobs into the    *)
(* index of a pull request, which a reviewer merges.                       *)
(*                                                                         *)
(* Publishers are the jobs of the current run of the workflow, named by    *)
(* their target, and the developers who run xtask in their own checkout.   *)
(* Each has a disk of its own; the registry and its tags are shared. Runs  *)
(* of the workflow are serialised by its concurrency group. A digest is    *)
(* the content it stands for, and a hash of a tree is the tree.            *)
(***************************************************************************)
EXTENDS Naturals, FiniteSets

CONSTANTS
    Matrix,         \* the targets of the workflow's matrix
    Handmade,       \* the targets developers publish
    Earlier,        \* the targets published and pinned to begin with
    Developers,     \* those who publish from their own checkout
    Bits,           \* what a build of the native client may come out as
    MaxAttempts,    \* the attempts of the publishing step
    MaxRuns,        \* bound: runs of the workflow
    MaxByHand,      \* bound: pushes by developers
    NoManifest,     \* a directory without manifest.json
    Unpinned,       \* a target without an entry in an index
    Broken,         \* an index.json cut short while it was written
    NoBundle,       \* a tag never pushed, a digest not read
    NoRequest       \* no pull request is open

VARIABLES
    disk,       \* the bundle directory of each publisher
    job,        \* where each publisher is, its attempt and the digest it read back
    index,      \* the file that --index names, for each publisher
    registry,   \* the artifacts pushed, by content
    tag,        \* the artifact each reference leads to
    runs,       \* how many runs of the workflow began
    byHand,     \* how many pushes developers made
    base,       \* the reviewed index, as the current run checked it out
    request,    \* the index of the open pull request, with its base
    reviewed,   \* runtimes/index.json in main
    raced       \* history: references that two publishers pushed at once, one by hand

vars == <<disk, job, index, registry, tag, runs, byHand, base, request, reviewed, raced>>

Targets == {"nodejs22.x", "python3.13"} \X {"x86_64", "arm64"}
Publishers == Matrix \cup Developers

ASSUME PublishAssumption ==
    /\ Matrix \subseteq Targets
    /\ Handmade \subseteq Targets
    /\ Earlier \subseteq Targets
    /\ Matrix \cap Developers = {}
    /\ MaxAttempts \in Nat \ {0}
    /\ MaxRuns \in Nat
    /\ MaxByHand \in Nat
    /\ Bits # {}

\* (variant for the mutation runs) A tag without the runtime.
RefWithoutRuntime(t) == <<"runtime", IF t[2] = "x86_64" THEN "amd64" ELSE "arm64">>

\* The repository and the tag of a target.
oci_ref(t) == <<IF t[1] = "nodejs22.x" THEN "runtime-nodejs:22" ELSE "runtime-python:3.13",
                IF t[2] = "x86_64" THEN "amd64" ELSE "arm64">>
References == {oci_ref(t) : t \in Targets}

-----------------------------------------------------------------------------
(* Bundles. *)

\* What assemble puts into the directory.
Interpreter == {"interpreter"}
Ric == {"ric"}
Glue == {"bootstrap"}
Sbom == {"sbom"}
Parts == Interpreter \cup Ric \cup Glue \cup Sbom

\* The order in which it does: what a failed assembly leaves behind.
Unfinished == {{}, Interpreter, Interpreter \cup Ric, Interpreter \cup Ric \cup Glue, Parts}

\* Everything in the directory but manifest.json and __pycache__ (`compiled`).
Trees == [target : Targets, files : SUBSET Parts, bits : Bits]
tree_sha256(b) == [target |-> b.target, files |-> b.files, bits |-> b.bits]

Bundles == [target : Targets, files : SUBSET Parts, bits : Bits, compiled : BOOLEAN,
            manifest : Trees \cup {NoManifest}]

Directory(t, files, bits) ==
    [target |-> t, files |-> files, bits |-> bits, compiled |-> FALSE, manifest |-> NoManifest]

\* The checkout before anything was assembled in it.
Fresh(t) == Directory(t, {}, CHOOSE bits \in Bits : TRUE)

\* Node's client is compiled by npm, Python's comes in wheels fixed by hash.
Built(t) == IF t[1] = "nodejs22.x" THEN Bits ELSE {CHOOSE bits \in Bits : TRUE}

\* manifest.json comes last, over everything else.
Assembled(t, bits) ==
    LET b == Directory(t, Parts, bits) IN [b EXCEPT !.manifest = tree_sha256(b)]

\* manifest::verify.
Verified(b) == b.manifest # NoManifest /\ b.manifest = tree_sha256(b)

Entries == [tree : Trees, digest : Bundles]

Indexes == [Targets -> Entries \cup {Unpinned}]

ASSUME SpecialAssumption ==
    Unpinned \notin Entries /\ NoManifest \notin Trees /\ Broken \notin Indexes

EmptyIndex == [t \in Targets |-> Unpinned]
Pinned(i) == {t \in Targets : i[t] # Unpinned}

\* What an installation demands of the artifact an entry leads to.
Installable(t, e) ==
    /\ e.digest \in registry
    /\ Verified(e.digest)
    /\ e.digest.target = t
    /\ e.digest.manifest = e.tree
    /\ Interpreter \subseteq e.digest.files

-----------------------------------------------------------------------------
Stages == {"idle", "first", "second", "test", "check", "put", "read", "save", "done", "failed"}
Idle == [at |-> "idle", attempt |-> 1, digest |-> NoBundle]
Target(p) == disk[p].target

\* What was published before, and the index that pins it.
First(t) == Assembled(t, CHOOSE bits \in Bits : TRUE)
FirstIndex == [t \in Targets |-> IF t \in Earlier
                                 THEN [tree |-> First(t).manifest, digest |-> First(t)]
                                 ELSE Unpinned]

Init ==
    /\ disk \in [Publishers -> {Fresh(t) : t \in Targets}]
    /\ \A t \in Matrix : disk[t] = Fresh(t)
    /\ job = [p \in Publishers |-> Idle]
    /\ index = [p \in Publishers |-> IF p \in Matrix THEN EmptyIndex ELSE FirstIndex]
    /\ registry = {First(t) : t \in Earlier}
    /\ tag = [r \in References |-> IF \E t \in Earlier : oci_ref(t) = r
                                   THEN First(CHOOSE t \in Earlier : oci_ref(t) = r)
                                   ELSE NoBundle]
    /\ runs = 0
    /\ byHand = 0
    /\ base = EmptyIndex
    /\ request = NoRequest
    /\ reviewed = FirstIndex
    /\ raced = {}

Move(p, stage) == job' = [job EXCEPT ![p].at = stage]

\* (variant for the mutation runs) The fragments begin as the index of the checkout.
TriggerFromIndex ==
    /\ runs < MaxRuns
    /\ \A t \in Matrix : job[t].at = "idle"
    /\ runs' = runs + 1
    /\ base' = reviewed
    /\ job' = [p \in Publishers |-> IF p \in Matrix THEN [Idle EXCEPT !.at = "first"] ELSE job[p]]
    /\ index' = [p \in Publishers |-> IF p \in Matrix THEN reviewed ELSE index[p]]
    /\ UNCHANGED <<disk, registry, tag, byHand, request, reviewed, raced>>

\* A push to main: no other run is in progress. Each job writes its entry into
\* an empty index, and the checkout is the commit that was pushed.
Trigger ==
    /\ runs < MaxRuns
    /\ \A t \in Matrix : job[t].at = "idle"
    /\ runs' = runs + 1
    /\ base' = reviewed
    /\ job' = [p \in Publishers |-> IF p \in Matrix THEN [Idle EXCEPT !.at = "first"] ELSE job[p]]
    /\ index' = [p \in Publishers |-> IF p \in Matrix THEN EmptyIndex ELSE index[p]]
    /\ UNCHANGED <<disk, registry, tag, byHand, request, reviewed, raced>>

\* A job assembles its bundle, takes the hashes of what is meant to be
\* repeatable and removes it, to assemble it once more and compare.
AssembleOnce(t) ==
    /\ job[t].at = "first"
    /\ Move(t, "second")
    /\ UNCHANGED <<disk, index, registry, tag, runs, byHand, base, request, reviewed, raced>>

\* (bound) A developer who is to push no more leaves the directory alone.
MayPush(p) == p \in Developers => byHand < MaxByHand

\* `xtask bundle` clears the directory and fills it.
Assemble(p) ==
    /\ job[p].at = IF p \in Matrix THEN "second" ELSE "idle"
    /\ MayPush(p)
    /\ \E t \in (IF p \in Matrix THEN {p} ELSE Handmade) : \E bits \in Built(t) :
         disk' = [disk EXCEPT ![p] = Assembled(t, bits)]
    /\ Move(p, IF p \in Matrix THEN "test" ELSE "idle")
    /\ UNCHANGED <<index, registry, tag, runs, byHand, base, request, reviewed, raced>>

\* It fails, or is killed, on the way, once the directory is clear.
AssembleFails(d) ==
    /\ job[d].at = "idle"
    /\ MayPush(d)
    /\ \E t \in Handmade, files \in Unfinished :
       \E bits \in IF Ric \subseteq files THEN Built(t) ELSE {Fresh(t).bits} :
         disk' = [disk EXCEPT ![d] = Directory(t, files, bits)]
    /\ UNCHANGED <<job, index, registry, tag, runs, byHand, base, request, reviewed, raced>>

\* Or the clearing itself does, and leaves any part of what was there,
\* manifest.json with the rest or without it.
ClearingFails(d) ==
    /\ job[d].at = "idle"
    /\ MayPush(d)
    /\ Target(d) \in Handmade
    /\ \E files \in SUBSET disk[d].files, manifest \in {disk[d].manifest, NoManifest} :
         disk' = [disk EXCEPT ![d].files = files, ![d].manifest = manifest]
    /\ UNCHANGED <<job, index, registry, tag, runs, byHand, base, request, reviewed, raced>>

\* The bundles of a checkout lie there between commands, and what is in them
\* may be changed.
Alter(d) ==
    /\ job[d].at = "idle"
    /\ MayPush(d)
    /\ \E bits \in Bits : disk' = [disk EXCEPT ![d].bits = bits]
    /\ UNCHANGED <<job, index, registry, tag, runs, byHand, base, request, reviewed, raced>>

\* The end-to-end test runs functions on the bundle, and Python compiles
\* what it imports into __pycache__.
TestBundle(p) ==
    /\ job[p].at = IF p \in Matrix THEN "test" ELSE "idle"
    /\ MayPush(p)
    /\ disk' = [disk EXCEPT ![p].compiled = @ \/ Target(p)[1] = "python3.13"]
    /\ Move(p, IF p \in Matrix THEN "check" ELSE "idle")
    /\ UNCHANGED <<index, registry, tag, runs, byHand, base, request, reviewed, raced>>

\* A step of a job fails before it publishes: an assembly, the comparison or
\* the test. Its runner, and the directory, are gone.
JobFails(t) ==
    /\ job[t].at \in {"first", "second", "test"}
    /\ Move(t, "failed")
    /\ disk' = [disk EXCEPT ![t] = Fresh(t)]
    /\ UNCHANGED <<index, registry, tag, runs, byHand, base, request, reviewed, raced>>

-----------------------------------------------------------------------------
(* xtask publish. *)

\* (variant for the mutation runs) It only looks for the manifest.
CheckPresence(p) ==
    /\ job[p].at = IF p \in Matrix THEN "check" ELSE "idle"
    /\ disk[p].manifest # NoManifest
    /\ Sbom \subseteq disk[p].files
    /\ Move(p, "put")
    /\ UNCHANGED <<disk, index, registry, tag, runs, byHand, base, request, reviewed, raced>>

\* It verifies the directory and its SBOM before anything else.
Check(p) ==
    /\ job[p].at = IF p \in Matrix THEN "check" ELSE "idle"
    /\ Verified(disk[p])
    /\ Sbom \subseteq disk[p].files
    /\ Move(p, "put")
    /\ UNCHANGED <<disk, index, registry, tag, runs, byHand, base, request, reviewed, raced>>

\* Another publisher of this reference has pushed, and not read back yet.
Overlapped(p) ==
    \E q \in Publishers \ {p} : /\ job[q].at = "read"
                                /\ oci_ref(Target(q)) = oci_ref(Target(p))
                                /\ {p, q} \cap Developers # {}

\* The whole directory is packed, __pycache__ and manifest too, and pushed
\* under its tag.
Put(p) ==
    LET r == oci_ref(Target(p)) IN
    /\ job[p].at = "put"
    /\ MayPush(p)
    /\ registry' = registry \cup {disk[p]}
    /\ tag' = [tag EXCEPT ![r] = disk[p]]
    /\ raced' = raced \cup (IF Overlapped(p) THEN {r} ELSE {})
    /\ byHand' = IF p \in Developers THEN byHand + 1 ELSE byHand
    /\ Move(p, "read")
    /\ UNCHANGED <<disk, index, runs, base, request, reviewed>>

\* The digest is read back through the tag.
ReadBack(p) ==
    /\ job[p].at = "read"
    /\ job' = [job EXCEPT ![p].at = "save", ![p].digest = tag[oci_ref(Target(p))]]
    /\ UNCHANGED <<disk, index, registry, tag, runs, byHand, base, request, reviewed, raced>>

Entry(p) == [tree |-> disk[p].manifest, digest |-> job[p].digest]

\* index::load, upsert and save.
Save(p) ==
    /\ job[p].at = "save"
    /\ index[p] # Broken
    /\ index' = [index EXCEPT ![p][Target(p)] = Entry(p)]
    /\ job' = [job EXCEPT ![p] = IF p \in Matrix THEN [@ EXCEPT !.at = "done"] ELSE Idle]
    /\ UNCHANGED <<disk, registry, tag, runs, byHand, base, request, reviewed, raced>>

\* (variant for the mutation runs) The loop of the step has no end.
RetryForEver(p) ==
    job' = [job EXCEPT ![p] =
              IF p \in Developers THEN Idle
              ELSE [at |-> "check", attempt |-> job[p].attempt + 1, digest |-> NoBundle]]

\* The step of the workflow tries again, a developer is told.
Retry(p) ==
    job' = [job EXCEPT ![p] =
              IF p \in Developers THEN Idle
              ELSE IF job[p].attempt < MaxAttempts
                   THEN [at |-> "check", attempt |-> job[p].attempt + 1, digest |-> NoBundle]
                   ELSE [job[p] EXCEPT !.at = "failed"]]

\* fs::write truncates the file first: a failure there leaves no valid index.
SaveCut(p) ==
    /\ job[p].at = "save"
    /\ index[p] # Broken
    /\ index' = [index EXCEPT ![p] = Broken]
    /\ Retry(p)
    /\ UNCHANGED <<disk, registry, tag, runs, byHand, base, request, reviewed, raced>>

\* An attempt ends in an error: of the registry, before or after the push
\* took effect, or of an index that cannot be read.
PublishFails(p) ==
    /\ job[p].at \in {"put", "read", "save"}
    /\ Retry(p)
    /\ UNCHANGED <<disk, index, registry, tag, runs, byHand, base, request, reviewed, raced>>

-----------------------------------------------------------------------------
(* The index. *)

\* (variant for the mutation runs) The merge begins with an empty index.
MergeAlone(fragments, on) ==
    [t \in Targets |-> IF \E p \in Matrix : fragments[p][t] # Unpinned
                       THEN fragments[CHOOSE p \in Matrix : fragments[p][t] # Unpinned][t]
                       ELSE Unpinned]

\* The fragments of the jobs over the index of the checkout.
Merge(fragments, on) ==
    [t \in Targets |-> IF \E p \in Matrix : fragments[p][t] # Unpinned
                       THEN fragments[CHOOSE p \in Matrix : fragments[p][t] # Unpinned][t]
                       ELSE on[t]]

\* What merge-runtime-index.jq checks first.
Mergeable(fragments) ==
    /\ \A p \in Matrix : fragments[p] # Broken /\ Cardinality(Pinned(fragments[p])) = 1
    /\ \A p, q \in Matrix : p # q => Pinned(fragments[p]) \cap Pinned(fragments[q]) = {}

AllDone == \A t \in Matrix : job[t].at = "done"
\* The run is over, and its runners and fragments are gone.
EndRun ==
    /\ job' = [p \in Publishers |-> IF p \in Matrix THEN Idle ELSE job[p]]
    /\ disk' = [p \in Publishers |-> IF p \in Matrix THEN Fresh(p) ELSE disk[p]]
    /\ index' = [p \in Publishers |-> IF p \in Matrix THEN EmptyIndex ELSE index[p]]
    /\ base' = EmptyIndex

\* update-index needs every job. Its branch is always the same one: a pull
\* request left open by an earlier run is replaced.
UpdateIndex ==
    /\ AllDone
    /\ Mergeable(index)
    /\ request' = [index |-> Merge(index, base), base |-> base]
    /\ EndRun
    /\ UNCHANGED <<registry, tag, runs, byHand, reviewed, raced>>

\* A job failed, and update-index is skipped.
SkipUpdate ==
    /\ \A t \in Matrix : job[t].at \in {"done", "failed"}
    /\ ~AllDone
    /\ EndRun
    /\ UNCHANGED <<registry, tag, runs, byHand, request, reviewed, raced>>

\* A reviewer merges the pull request, which git does entry by entry, and
\* refuses where main has changed one of them since.
Review ==
    /\ request # NoRequest
    /\ LET Changed == {t \in Targets : request.index[t] # request.base[t]} IN
         /\ \A t \in Changed : reviewed[t] = request.base[t]
         /\ reviewed' = [t \in Targets |-> IF t \in Changed THEN request.index[t] ELSE reviewed[t]]
    /\ request' = NoRequest
    /\ UNCHANGED <<disk, job, index, registry, tag, runs, byHand, base, raced>>

\* A developer brings the index up to date with main.
Checkout(d) ==
    /\ job[d].at = "idle"
    /\ index' = [index EXCEPT ![d] = reviewed]
    /\ UNCHANGED <<disk, job, registry, tag, runs, byHand, base, request, reviewed, raced>>

\* An entry a developer published, or goes back to, is reviewed by hand.
ReviewByHand(d) ==
    /\ job[d].at = "idle"
    /\ index[d] # Broken
    /\ \E t \in Pinned(index[d]) : reviewed' = [reviewed EXCEPT ![t] = index[d][t]]
    /\ UNCHANGED <<disk, job, index, registry, tag, runs, byHand, base, request, raced>>

\* Nothing left to do.
Wait ==
    /\ runs = MaxRuns
    /\ \A p \in Publishers : job[p].at = "idle"
    /\ UNCHANGED vars

Publication(p) ==
    \/ Check(p) \/ Put(p) \/ ReadBack(p) \/ Save(p) \/ SaveCut(p) \/ PublishFails(p)

Next ==
    \/ \E p \in Publishers : Assemble(p) \/ TestBundle(p) \/ Publication(p)
    \/ \E t \in Matrix : AssembleOnce(t) \/ JobFails(t)
    \/ \E d \in Developers : AssembleFails(d) \/ ClearingFails(d) \/ Alter(d) \/ Checkout(d) \/ ReviewByHand(d)
    \/ Trigger \/ UpdateIndex \/ SkipUpdate \/ Review \/ Wait

Spec == Init /\ [][Next]_vars

-----------------------------------------------------------------------------
(* Properties. *)

\* Types, and never more attempts than the publishing step makes.
TypeOK ==
    /\ disk \in [Publishers -> Bundles]
    /\ job \in [Publishers -> [at : Stages, attempt : 1..MaxAttempts,
                               digest : Bundles \cup {NoBundle}]]
    /\ index \in [Publishers -> Indexes \cup {Broken}]
    /\ registry \subseteq Bundles
    /\ tag \in [References -> Bundles \cup {NoBundle}]
    /\ runs \in 0..MaxRuns
    /\ byHand \in 0..MaxByHand
    /\ base \in Indexes
    /\ request \in [index : Indexes, base : Indexes] \cup {NoRequest}
    /\ reviewed \in Indexes
    /\ raced \subseteq References

\* Whatever was pushed, on any attempt, is a complete bundle that verifies,
\* however often its assembly was cut short before (bundle.rs:341, manifest.rs:54).
PushedIsWhole == \A b \in registry : Verified(b) /\ b.files = Parts

\* Every index, published, proposed or reviewed.
EveryIndex ==
    {index[p] : p \in {q \in Publishers : index[q] # Broken}}
        \cup {base, reviewed} \cup (IF request = NoRequest THEN {} ELSE {request.index})

Sound(t, e) == e = Unpinned \/ Installable(t, e)

\* A pin leads to the very bundle whose tree it names: an installation that
\* trusts it succeeds, whatever was pushed before or after under the same
\* tag. Only a developer who pushes while another publication of that tag is
\* between its push and its reading of the digest can break it (oci.rs:124).
PinsInstallable ==
    \A i \in EveryIndex : \A t \in Targets : oci_ref(t) \notin raced => Sound(t, i[t])

\* The same without the exception, as oci.rs:124-125 claims it. With
\* developers it does not hold.
PinsAlwaysInstallable == \A i \in EveryIndex : \A t \in Targets : Sound(t, i[t])

\* When every job has succeeded, whatever their retries left behind, their
\* fragments pass the checks of merge-runtime-index.jq.
MergeNeverRefused == AllDone => Mergeable(index)

\* The reviewed pin of a target outside the matrix is never touched by the
\* workflow: it changes only to what a developer proposes.
ForeignPinsKept ==
    [][\A t \in Targets \ Matrix :
         reviewed'[t] # reviewed[t] =>
           \E d \in Developers : index[d] # Broken /\ reviewed'[t] = index[d][t]]_vars

=============================================================================
