--------------------------- MODULE PublishProofs ---------------------------
(***************************************************************************)
(* What the registry and the indexes hold, for any matrix, any developers   *)
(* and any number of runs and attempts.                                     *)
(***************************************************************************)
EXTENDS Publish, FiniteSetTheorems, TLAPS

Publishing == {"put", "read", "save"}

Disks ==
  /\ \A t \in Matrix : Target(t) = t
  /\ \A p \in Publishers : disk[p].manifest # NoManifest => disk[p].manifest.files = Parts
Stopped == \A d \in Developers : job[d].at \in {"idle"} \cup Publishing
Ready == \A p \in Publishers : job[p].at \in Publishing => Verified(disk[p])
Reading ==
  \A p \in Publishers : job[p].at = "read" =>
    /\ tag[oci_ref(Target(p))] \in registry
    /\ oci_ref(Target(p)) \notin raced => tag[oci_ref(Target(p))] = disk[p]
Saving ==
  \A p \in Publishers : job[p].at = "save" =>
    /\ job[p].digest \in registry
    /\ oci_ref(Target(p)) \notin raced => job[p].digest = disk[p]
Fragments ==
  \A t \in Matrix :
    /\ index[t] # Broken => Pinned(index[t]) \subseteq {t}
    /\ job[t].at = "done" => index[t] # Broken /\ Pinned(index[t]) = {t}
Requests ==
  request # NoRequest => \A t \in Targets \ Matrix : request.index[t] = request.base[t]

SoundIn(t, e, reg) ==
  \/ e = Unpinned
  \/ /\ e.digest \in reg
     /\ Verified(e.digest)
     /\ e.digest.target = t
     /\ e.digest.manifest = e.tree
     /\ Interpreter \subseteq e.digest.files
GoodIn(i, reg, out) == \A t \in Targets : oci_ref(t) \notin out => SoundIn(t, i[t], reg)
Pins ==
  /\ \A p \in Publishers : index[p] # Broken => GoodIn(index[p], registry, raced)
  /\ GoodIn(base, registry, raced)
  /\ GoodIn(reviewed, registry, raced)
  /\ request # NoRequest => GoodIn(request.index, registry, raced)

IInv ==
  /\ TypeOK /\ Disks /\ Stopped /\ Ready /\ PushedIsWhole
  /\ Reading /\ Saving /\ Fragments /\ Requests /\ Pins

-----------------------------------------------------------------------------
(* Targets, directories and entries. *)

LEMMA RefInjective ==
  ASSUME NEW s \in Targets, NEW t \in Targets, oci_ref(s) = oci_ref(t)
  PROVE  s = t
<1>1. /\ s[1] \in {"nodejs22.x", "python3.13"} /\ s[2] \in {"x86_64", "arm64"}
      /\ t[1] \in {"nodejs22.x", "python3.13"} /\ t[2] \in {"x86_64", "arm64"}
      /\ s = <<s[1], s[2]>> /\ t = <<t[1], t[2]>>
  BY DEF Targets
<1>2. s[1] = t[1]
  BY <1>1 DEF oci_ref
<1>3. s[2] = t[2]
  BY <1>1 DEF oci_ref
<1> QED
  BY <1>1, <1>2, <1>3

LEMMA RefType == \A t \in Targets : oci_ref(t) \in References
BY DEF References

LEMMA SomeBits == (CHOOSE bits \in Bits : TRUE) \in Bits
BY PublishAssumption

LEMMA BuiltType == \A t \in Targets : Built(t) \subseteq Bits
BY SomeBits DEF Built

LEMMA DirectoryType ==
  ASSUME NEW t \in Targets, NEW files \in SUBSET Parts, NEW bits \in Bits
  PROVE  /\ Directory(t, files, bits) \in Bundles
         /\ Directory(t, files, bits).target = t
         /\ Directory(t, files, bits).manifest = NoManifest
BY DEF Directory, Bundles

LEMMA FreshType ==
  ASSUME NEW t \in Targets
  PROVE  Fresh(t) \in Bundles /\ Fresh(t).target = t /\ Fresh(t).manifest = NoManifest
BY SomeBits, DirectoryType DEF Fresh

LEMMA AssembledType ==
  ASSUME NEW t \in Targets, NEW bits \in Bits
  PROVE  /\ Assembled(t, bits) \in Bundles
         /\ Assembled(t, bits).target = t
         /\ Assembled(t, bits).manifest.files = Parts
         /\ Assembled(t, bits).manifest \in Trees
         /\ Assembled(t, bits).files = Parts
         /\ Assembled(t, bits).manifest = tree_sha256(Assembled(t, bits))
BY DEF Assembled, Directory, tree_sha256, Bundles, Trees

(* A bundle that verifies, and whose manifest describes a whole tree, is whole. *)
LEMMA VerifiedIsWhole ==
  ASSUME NEW b \in Bundles, Verified(b), b.manifest.files = Parts
  PROVE  b.files = Parts /\ b.manifest \in Trees
BY DEF Verified, tree_sha256, Bundles

LEMMA SoundEntry ==
  ASSUME NEW b \in Bundles, Verified(b), b.files = Parts, NEW reg, b \in reg
  PROVE  SoundIn(b.target, [tree |-> b.manifest, digest |-> b], reg)
BY DEF SoundIn, Parts

(* More artifacts and more overlaps leave an index good. *)
LEMMA GoodGrows ==
  ASSUME NEW i, NEW reg, NEW reg2, NEW out, NEW out2,
         GoodIn(i, reg, out), reg \subseteq reg2, out \subseteq out2
  PROVE  GoodIn(i, reg2, out2)
BY DEF GoodIn, SoundIn

LEMMA EmptyGood ==
  ASSUME NEW reg, NEW out
  PROVE  EmptyIndex \in Indexes /\ Pinned(EmptyIndex) = {} /\ GoodIn(EmptyIndex, reg, out)
BY DEF EmptyIndex, Indexes, Pinned, GoodIn, SoundIn

LEMMA TargetType ==
  ASSUME TypeOK, NEW p \in Publishers
  PROVE  disk[p] \in Bundles /\ Target(p) \in Targets
BY DEF TypeOK, Target, Bundles

-----------------------------------------------------------------------------
(* The initial state. *)

LEMMA FirstGood ==
  ASSUME NEW reg, \A t \in Earlier : First(t) \in reg, NEW out
  PROVE  FirstIndex \in Indexes /\ GoodIn(FirstIndex, reg, out)
<1>1. ASSUME NEW t \in Earlier
      PROVE  /\ First(t) \in Bundles /\ First(t).target = t /\ First(t).files = Parts
             /\ First(t).manifest \in Trees /\ First(t).manifest = tree_sha256(First(t))
  BY SomeBits, AssembledType, PublishAssumption DEF First
<1>2. FirstIndex \in Indexes
  BY <1>1 DEF FirstIndex, Indexes, Entries
<1>3. SUFFICES ASSUME NEW t \in Targets PROVE SoundIn(t, FirstIndex[t], reg)
  BY <1>2 DEF GoodIn
<1>4. CASE t \notin Earlier
  BY <1>4 DEF FirstIndex, SoundIn
<1>5. CASE t \in Earlier
  <2>1. FirstIndex[t] = [tree |-> First(t).manifest, digest |-> First(t)]
    BY <1>5 DEF FirstIndex
  <2> QED
    BY <1>1, <1>5, <2>1, SoundEntry, SpecialAssumption DEF Verified
<1> QED
  BY <1>4, <1>5

LEMMA InitIInv == Init => IInv
<1> SUFFICES ASSUME Init PROVE IInv
  OBVIOUS
<1>0. /\ \A p \in Publishers : \E t \in Targets : disk[p] = Fresh(t)
      /\ \A t \in Matrix : disk[t] = Fresh(t) /\ t \in Publishers /\ t \in Targets
      /\ \A p \in Publishers : disk[p] \in Bundles /\ disk[p].manifest = NoManifest
  <2>1. \A p \in Publishers : \E t \in Targets : disk[p] = Fresh(t)
    BY DEF Init
  <2> QED
    BY <2>1, FreshType, PublishAssumption DEF Init, Publishers
<1>1. /\ \A t \in Earlier : First(t) \in registry /\ First(t) \in Bundles
      /\ registry \subseteq Bundles
  BY SomeBits, AssembledType, PublishAssumption DEF Init, First
<1>2. FirstIndex \in Indexes /\ GoodIn(FirstIndex, registry, raced)
  BY <1>1, FirstGood
<1>3. EmptyIndex \in Indexes /\ Pinned(EmptyIndex) = {} /\ GoodIn(EmptyIndex, registry, raced)
  BY EmptyGood
<1>4. TypeOK
  <2>1. disk \in [Publishers -> Bundles]
    BY <1>0 DEF Init
  <2>2. job \in [Publishers -> [at : Stages, attempt : 1..MaxAttempts, digest : Bundles \cup {NoBundle}]]
    BY PublishAssumption DEF Init, Idle, Stages
  <2>3. index \in [Publishers -> Indexes \cup {Broken}]
    BY <1>2, <1>3 DEF Init
  <2>4. tag \in [References -> Bundles \cup {NoBundle}]
    BY <1>1 DEF Init
  <2>5. runs \in 0..MaxRuns /\ byHand \in 0..MaxByHand /\ raced \subseteq References
    BY PublishAssumption DEF Init
  <2> QED
    BY <1>1, <1>2, <1>3, <2>1, <2>2, <2>3, <2>4, <2>5 DEF Init, TypeOK
<1>5. Disks
  BY <1>0, FreshType DEF Disks, Target
<1>6. Stopped /\ Ready /\ Reading /\ Saving
  BY DEF Init, Idle, Stopped, Ready, Reading, Saving, Publishing, Publishers
<1>7. PushedIsWhole
  BY SomeBits, AssembledType, SpecialAssumption, PublishAssumption
  DEF Init, First, PushedIsWhole, Verified
<1>8. Fragments
  BY <1>3 DEF Init, Idle, Fragments, Publishers
<1>9. Requests /\ Pins
  BY <1>2, <1>3 DEF Init, Requests, Pins
<1> QED
  BY <1>4, <1>5, <1>6, <1>7, <1>8, <1>9 DEF IInv

-----------------------------------------------------------------------------
(* A publisher that moves without touching the registry or an index. *)

(* What was pushed stays as it was, and so does every pin. *)
LEMMA PinsStay ==
  ASSUME Pins, registry \subseteq registry', raced \subseteq raced',
         UNCHANGED <<index, base, request, reviewed>>
  PROVE  Pins'
BY GoodGrows DEF Pins

LEMMA MoveType ==
  ASSUME TypeOK, NEW p \in Publishers, NEW stage \in Stages, Move(p, stage)
  PROVE  /\ job' \in [Publishers -> [at : Stages, attempt : 1..MaxAttempts,
                                     digest : Bundles \cup {NoBundle}]]
         /\ job'[p].at = stage
         /\ \A q \in Publishers : job'[q].digest = job[q].digest
         /\ \A q \in Publishers \ {p} : job'[q] = job[q]
BY DEF TypeOK, Move

(* The directory of a publisher changes while it is not publishing. *)
LEMMA DirectoryStep ==
  ASSUME IInv, NEW p \in Publishers, NEW stage \in Stages, NEW b \in Bundles,
         job[p].at \notin Publishing, stage \notin Publishing \cup {"done"},
         p \in Developers => stage = "idle",
         Move(p, stage), disk' = [disk EXCEPT ![p] = b],
         p \in Matrix => b.target = p,
         b.manifest # NoManifest => b.manifest.files = Parts,
         UNCHANGED <<index, registry, tag, runs, byHand, base, request, reviewed, raced>>
  PROVE  IInv'
<1>1. TypeOK'
  BY MoveType DEF IInv, TypeOK
<1>2. /\ disk'[p] = b
      /\ \A q \in Publishers \ {p} : disk'[q] = disk[q] /\ job'[q] = job[q]
      /\ job'[p].at = stage
  BY MoveType DEF IInv, TypeOK
<1>3. Disks'
  BY <1>2 DEF IInv, Disks, Target, Publishers
<1>4. Stopped'
  BY <1>2 DEF IInv, Stopped, Publishers
<1>5. Ready' /\ Reading' /\ Saving'
  BY <1>2 DEF IInv, Ready, Reading, Saving, Publishing, Target
<1>6. PushedIsWhole' /\ Requests' /\ Fragments'
  BY <1>2 DEF IInv, PushedIsWhole, Requests, Fragments, Publishers
<1>7. Pins'
  BY PinsStay DEF IInv
<1> QED
  BY <1>1, <1>3, <1>4, <1>5, <1>6, <1>7 DEF IInv

LEMMA AssembleStep == ASSUME IInv, NEW p \in Publishers, Assemble(p) PROVE IInv'
<1>1. PICK t \in (IF p \in Matrix THEN {p} ELSE Handmade) : \E bits \in Built(t) :
         disk' = [disk EXCEPT ![p] = Assembled(t, bits)]
  BY DEF Assemble
<1>2. t \in Targets /\ (p \in Matrix => t = p)
  BY <1>1, PublishAssumption
<1>3. PICK bits \in Bits : disk' = [disk EXCEPT ![p] = Assembled(t, bits)]
  BY <1>1, <1>2, BuiltType
<1>4. p \in Developers => p \notin Matrix
  BY PublishAssumption
<1> DEFINE b == Assembled(t, bits)
          stage == IF p \in Matrix THEN "test" ELSE "idle"
<1>5. b \in Bundles /\ b.target = t /\ b.manifest.files = Parts
  BY <1>2, AssembledType
<1>6. /\ stage \in Stages /\ stage \notin Publishing \cup {"done"}
      /\ p \in Developers => stage = "idle"
  BY <1>4 DEF Stages, Publishing
<1>7. /\ Move(p, stage) /\ disk' = [disk EXCEPT ![p] = b] /\ job[p].at \notin Publishing
      /\ UNCHANGED <<index, registry, tag, runs, byHand, base, request, reviewed, raced>>
  BY <1>3 DEF Assemble, Publishing
<1> HIDE DEF b, stage
<1> QED
  BY <1>2, <1>5, <1>6, <1>7, DirectoryStep

LEMMA AssembleFailsStep == ASSUME IInv, NEW d \in Developers, AssembleFails(d) PROVE IInv'
<1>1. PICK t \in Handmade, files \in Unfinished :
         \E bits \in (IF Ric \subseteq files THEN Built(t) ELSE {Fresh(t).bits}) :
           disk' = [disk EXCEPT ![d] = Directory(t, files, bits)]
  BY DEF AssembleFails
<1>2. t \in Targets /\ files \in SUBSET Parts /\ d \notin Matrix /\ d \in Publishers
  BY PublishAssumption DEF Unfinished, Parts, Publishers
<1>3. Fresh(t).bits \in Bits
  BY <1>2, FreshType DEF Bundles
<1>4. PICK bits \in Bits : disk' = [disk EXCEPT ![d] = Directory(t, files, bits)]
  BY <1>1, <1>2, <1>3, BuiltType
<1>5. Move(d, "idle")
  BY <1>2 DEF AssembleFails, Move, IInv, TypeOK
<1> QED
  BY ZenonT(30), <1>2, <1>4, <1>5, DirectoryType, DirectoryStep DEF AssembleFails, Publishing, Stages

(* Part of a bundle may lose files and keep its manifest: it no longer verifies. *)
LEMMA ClearingFailsStep == ASSUME IInv, NEW d \in Developers, ClearingFails(d) PROVE IInv'
<1>1. d \in Publishers /\ d \notin Matrix /\ disk[d] \in Bundles
  BY PublishAssumption DEF Publishers, IInv, TypeOK
<1>2. PICK files \in SUBSET disk[d].files, manifest \in {disk[d].manifest, NoManifest} :
         disk' = [disk EXCEPT ![d].files = files, ![d].manifest = manifest]
  BY DEF ClearingFails
<1> DEFINE b == [disk[d] EXCEPT !.files = files, !.manifest = manifest]
<1>3. b \in Bundles /\ b.manifest = manifest
  BY <1>1 DEF Bundles
<1>4. disk' = [disk EXCEPT ![d] = b]
  BY <1>1, <1>2 DEF IInv, TypeOK
<1>5. Move(d, "idle")
  BY <1>1 DEF ClearingFails, Move, IInv, TypeOK
<1>6. b.manifest # NoManifest => b.manifest.files = Parts
  BY <1>1, <1>3 DEF IInv, Disks
<1> HIDE DEF b
<1> QED
  BY <1>1, <1>3, <1>4, <1>5, <1>6, DirectoryStep DEF ClearingFails, Publishing, Stages

LEMMA AlterStep == ASSUME IInv, NEW d \in Developers, Alter(d) PROVE IInv'
<1>1. d \in Publishers /\ d \notin Matrix /\ disk[d] \in Bundles
  BY PublishAssumption DEF Publishers, IInv, TypeOK
<1>2. PICK bits \in Bits : disk' = [disk EXCEPT ![d].bits = bits]
  BY DEF Alter
<1> DEFINE b == [disk[d] EXCEPT !.bits = bits]
<1>3. b \in Bundles /\ b.manifest = disk[d].manifest
  BY <1>1 DEF Bundles
<1>4. disk' = [disk EXCEPT ![d] = b]
  BY <1>1, <1>2 DEF IInv, TypeOK
<1>5. Move(d, "idle")
  BY <1>1 DEF Alter, Move, IInv, TypeOK
<1>6. disk[d].manifest # NoManifest => disk[d].manifest.files = Parts
  BY <1>1 DEF IInv, Disks
<1> HIDE DEF b
<1> QED
  BY <1>1, <1>3, <1>4, <1>5, <1>6, DirectoryStep DEF Alter, Publishing, Stages

LEMMA TestStep == ASSUME IInv, NEW p \in Publishers, TestBundle(p) PROVE IInv'
<1>1. disk[p] \in Bundles /\ (p \in Developers => p \notin Matrix)
  BY PublishAssumption DEF IInv, TypeOK
<1> DEFINE b == [disk[p] EXCEPT !.compiled = @ \/ Target(p)[1] = "python3.13"]
<1>2. b \in Bundles /\ b.manifest = disk[p].manifest /\ b.target = disk[p].target
  BY <1>1 DEF Bundles
<1>3. disk' = [disk EXCEPT ![p] = b]
  BY DEF TestBundle, IInv, TypeOK
<1>4. /\ disk[p].manifest # NoManifest => disk[p].manifest.files = Parts
      /\ p \in Matrix => disk[p].target = p
  BY DEF IInv, Disks, Target
<1> HIDE DEF b
<1> QED
  BY <1>1, <1>2, <1>3, <1>4, DirectoryStep DEF TestBundle, Publishing, Stages

LEMMA JobFailsStep == ASSUME IInv, NEW t \in Matrix, JobFails(t) PROVE IInv'
<1>1. t \in Publishers /\ t \in Targets /\ t \notin Developers
  BY PublishAssumption DEF Publishers
<1> QED
  BY <1>1, FreshType, DirectoryStep DEF JobFails, Publishing, Stages

(* A publisher moves and nothing else changes: to a stage that asks for
   nothing, or to its push after the directory has verified. *)
LEMMA StageStep ==
  ASSUME IInv, NEW p \in Publishers, NEW stage \in Stages,
         stage \notin {"read", "save", "done"}, stage = "put" => Verified(disk[p]),
         p \in Developers => stage \in {"idle", "put"},
         job' \in [Publishers -> [at : Stages, attempt : 1..MaxAttempts,
                                 digest : Bundles \cup {NoBundle}]],
         job'[p].at = stage, \A q \in Publishers \ {p} : job'[q] = job[q],
         index' = index \/ index' = [index EXCEPT ![p] = Broken],
         UNCHANGED <<disk, registry, tag, runs, byHand, base, request, reviewed, raced>>
  PROVE  IInv'
<1>1. TypeOK'
  BY DEF IInv, TypeOK
<1>2. \A q \in Publishers : index'[q] # Broken => index'[q] = index[q] /\ index[q] # Broken
  BY DEF IInv, TypeOK
<1>3. Disks' /\ Stopped' /\ Ready' /\ Reading' /\ Saving'
  BY DEF IInv, Disks, Stopped, Ready, Reading, Saving, Publishing, Target, Publishers
<1>4. PushedIsWhole' /\ Requests'
  BY DEF IInv, PushedIsWhole, Requests
<1>5. Fragments'
  <2> SUFFICES ASSUME NEW t \in Matrix
               PROVE  /\ index'[t] # Broken => Pinned(index'[t]) \subseteq {t}
                      /\ job'[t].at = "done" => index'[t] # Broken /\ Pinned(index'[t]) = {t}
    BY DEF Fragments, Pinned
  <2>1. t \in Publishers
    BY DEF Publishers
  <2>2. job'[t].at = "done" => t # p /\ job[t].at = "done"
    BY <2>1
  <2>3. t # p => index'[t] = index[t]
    BY <2>1 DEF IInv, TypeOK
  <2> QED
    BY <1>2, <2>1, <2>2, <2>3 DEF IInv, Fragments
<1>6. Pins'
  BY <1>2 DEF IInv, Pins
<1> QED
  BY <1>1, <1>3, <1>4, <1>5, <1>6 DEF IInv

LEMMA AssembleOnceStep == ASSUME IInv, NEW t \in Matrix, AssembleOnce(t) PROVE IInv'
<1>1. t \in Publishers /\ t \notin Developers
  BY PublishAssumption DEF Publishers
<1> QED
  BY <1>1, MoveType, StageStep DEF AssembleOnce, IInv, Stages

LEMMA CheckStep == ASSUME IInv, NEW p \in Publishers, Check(p) PROVE IInv'
BY MoveType, StageStep DEF Check, IInv, Stages

LEMMA RetryType ==
  ASSUME TypeOK, NEW p \in Publishers, Retry(p)
  PROVE  /\ job' \in [Publishers -> [at : Stages, attempt : 1..MaxAttempts,
                                     digest : Bundles \cup {NoBundle}]]
         /\ job'[p].at = IF p \in Developers THEN "idle"
                         ELSE IF job[p].attempt < MaxAttempts THEN "check" ELSE "failed"
         /\ \A q \in Publishers \ {p} : job'[q] = job[q]
<1>1. /\ job[p] \in [at : Stages, attempt : 1..MaxAttempts, digest : Bundles \cup {NoBundle}]
      /\ MaxAttempts \in Nat \ {0}
  BY PublishAssumption DEF TypeOK
<1>2. job[p].attempt < MaxAttempts => job[p].attempt + 1 \in 1..MaxAttempts
  BY <1>1
<1>3. 1 \in 1..MaxAttempts
  BY <1>1
<1> QED
  BY <1>1, <1>2, <1>3 DEF TypeOK, Retry, Idle, Stages

LEMMA FailsStep ==
  ASSUME IInv, NEW p \in Publishers, SaveCut(p) \/ PublishFails(p)
  PROVE  IInv'
<1> DEFINE stage == IF p \in Developers THEN "idle"
                    ELSE IF job[p].attempt < MaxAttempts THEN "check" ELSE "failed"
<1>1. /\ stage \in Stages /\ stage \notin {"read", "save", "done", "put"}
      /\ p \in Developers => stage \in {"idle", "put"}
  BY DEF Stages
<1>2. /\ job' \in [Publishers -> [at : Stages, attempt : 1..MaxAttempts,
                                  digest : Bundles \cup {NoBundle}]]
      /\ job'[p].at = stage
      /\ \A q \in Publishers \ {p} : job'[q] = job[q]
  BY RetryType DEF IInv, SaveCut, PublishFails
<1>3. /\ index' = index \/ index' = [index EXCEPT ![p] = Broken]
      /\ UNCHANGED <<disk, registry, tag, runs, byHand, base, request, reviewed, raced>>
  BY DEF SaveCut, PublishFails
<1> HIDE DEF stage
<1> QED
  BY <1>1, <1>2, <1>3, StageStep

-----------------------------------------------------------------------------
(* Pushing, reading back and pinning. *)

(* Two publishers of one reference, one of them a developer: jobs differ in
   their targets, and so in their references. *)
LEMMA SharedByHand ==
  ASSUME IInv, NEW p \in Publishers, NEW q \in Publishers, p # q,
         oci_ref(Target(p)) = oci_ref(Target(q))
  PROVE  {p, q} \cap Developers # {}
<1>1. CASE p \in Matrix /\ q \in Matrix
  <2>1. Target(p) = p /\ Target(q) = q /\ p \in Targets /\ q \in Targets
    BY <1>1, PublishAssumption DEF IInv, Disks
  <2> QED
    BY <2>1, RefInjective
<1>2. CASE ~(p \in Matrix /\ q \in Matrix)
  BY <1>2 DEF Publishers
<1> QED
  BY <1>1, <1>2

LEMMA PutStep == ASSUME IInv, NEW p \in Publishers, Put(p) PROVE IInv'
<1> DEFINE r == oci_ref(Target(p))
<1>1. /\ job[p].at = "put" /\ registry' = registry \cup {disk[p]}
      /\ tag' = [tag EXCEPT ![r] = disk[p]]
      /\ raced' = raced \cup (IF Overlapped(p) THEN {r} ELSE {})
      /\ UNCHANGED <<disk, index, runs, base, request, reviewed>>
      /\ Move(p, "read")
  BY DEF Put
<1>2. disk[p] \in Bundles /\ Target(p) \in Targets /\ r \in References
  BY TargetType, RefType DEF IInv
<1>3. /\ job' \in [Publishers -> [at : Stages, attempt : 1..MaxAttempts,
                                  digest : Bundles \cup {NoBundle}]]
      /\ job'[p].at = "read"
      /\ \A q \in Publishers \ {p} : job'[q] = job[q]
  BY <1>1, MoveType DEF IInv, Stages
<1>4. byHand' \in 0..MaxByHand
  BY PublishAssumption DEF Put, MayPush, IInv, TypeOK
<1>5. TypeOK'
  BY <1>1, <1>2, <1>3, <1>4 DEF IInv, TypeOK
<1>6. Disks' /\ Stopped' /\ Ready' /\ Requests'
  BY <1>1, <1>3 DEF IInv, Disks, Stopped, Ready, Requests, Publishing, Target, Publishers
<1>7. Verified(disk[p]) /\ disk[p].files = Parts
  BY <1>1, <1>2, VerifiedIsWhole DEF IInv, Ready, Publishing, Disks, Verified
<1>8. PushedIsWhole'
  BY <1>1, <1>7 DEF IInv, PushedIsWhole
<1>9. \A s \in References : tag'[s] = IF s = r THEN disk[p] ELSE tag[s]
  BY <1>1, <1>2 DEF IInv, TypeOK
<1>10. Reading'
  <2> SUFFICES ASSUME NEW q \in Publishers, job'[q].at = "read"
               PROVE  /\ tag'[oci_ref(Target(q))] \in registry'
                      /\ oci_ref(Target(q)) \notin raced' => tag'[oci_ref(Target(q))] = disk[q]
    BY <1>1 DEF Reading, Target
  <2>1. oci_ref(Target(q)) \in References
    BY TargetType, RefType DEF IInv
  <2>2. CASE q = p
    BY <1>1, <1>9, <2>1, <2>2
  <2>3. CASE q # p /\ oci_ref(Target(q)) # r
    BY <1>1, <1>3, <1>9, <2>1, <2>3 DEF IInv, Reading
  <2>4. CASE q # p /\ oci_ref(Target(q)) = r
    <3>1. {p, q} \cap Developers # {}
      BY <2>4, SharedByHand
    <3>2. Overlapped(p)
      BY <1>3, <2>4, <3>1 DEF Overlapped
    <3> QED
      BY <1>1, <1>9, <2>1, <2>4, <3>2
  <2> QED
    BY <2>2, <2>3, <2>4
<1>11. Saving'
  BY <1>1, <1>3 DEF IInv, Saving, Target
<1>12. Fragments'
  BY <1>1, <1>3 DEF IInv, Fragments, Publishers
<1>13. Pins'
  BY <1>1, PinsStay DEF IInv
<1> QED
  BY <1>5, <1>6, <1>8, <1>10, <1>11, <1>12, <1>13 DEF IInv

LEMMA ReadBackStep == ASSUME IInv, NEW p \in Publishers, ReadBack(p) PROVE IInv'
<1>1. /\ job[p].at = "read"
      /\ job' = [job EXCEPT ![p].at = "save", ![p].digest = tag[oci_ref(Target(p))]]
      /\ UNCHANGED <<disk, index, registry, tag, runs, byHand, base, request, reviewed, raced>>
  BY DEF ReadBack
<1>2. /\ tag[oci_ref(Target(p))] \in registry /\ registry \subseteq Bundles
      /\ oci_ref(Target(p)) \notin raced => tag[oci_ref(Target(p))] = disk[p]
  BY <1>1 DEF IInv, Reading, TypeOK
<1>3. TypeOK'
  BY ZenonT(30), <1>1, <1>2 DEF IInv, TypeOK, Stages
<1>4. /\ job'[p].at = "save" /\ job'[p].digest = tag[oci_ref(Target(p))]
      /\ \A q \in Publishers \ {p} : job'[q] = job[q]
  BY <1>1 DEF IInv, TypeOK
<1>5. Disks' /\ Stopped' /\ Ready' /\ Requests' /\ PushedIsWhole'
  BY <1>1, <1>4 DEF IInv, Disks, Stopped, Ready, Requests, PushedIsWhole, Publishing, Target, Publishers
<1>6. Reading' /\ Saving'
  <2>1. \A q \in Publishers : Target(q)' = Target(q)
    BY <1>1 DEF Target
  <2>2. Reading'
    BY <1>1, <1>4, <2>1 DEF IInv, Reading
  <2>3. Saving'
    <3> SUFFICES ASSUME NEW q \in Publishers, job'[q].at = "save"
                 PROVE  /\ job'[q].digest \in registry
                        /\ oci_ref(Target(q)) \notin raced => job'[q].digest = disk[q]
      BY <1>1 DEF Saving, Target
    <3>1. CASE q = p
      BY <1>2, <1>4, <3>1
    <3>2. CASE q # p
      BY <1>4, <3>2 DEF IInv, Saving
    <3> QED
      BY <3>1, <3>2
  <2> QED
    BY <2>2, <2>3
<1>7. Fragments'
  BY <1>1, <1>4 DEF IInv, Fragments, Publishers
<1>8. Pins'
  BY <1>1, PinsStay DEF IInv
<1> QED
  BY <1>3, <1>5, <1>6, <1>7, <1>8 DEF IInv

LEMMA SaveStep == ASSUME IInv, NEW p \in Publishers, Save(p) PROVE IInv'
<1> DEFINE t == Target(p)
           e == Entry(p)
<1>1. /\ job[p].at = "save" /\ index[p] # Broken
      /\ index' = [index EXCEPT ![p][t] = e]
      /\ job' = [job EXCEPT ![p] = IF p \in Matrix THEN [@ EXCEPT !.at = "done"] ELSE Idle]
      /\ UNCHANGED <<disk, registry, tag, runs, byHand, base, request, reviewed, raced>>
  BY DEF Save
<1>2. disk[p] \in Bundles /\ t \in Targets /\ oci_ref(t) \in References
  BY TargetType, RefType DEF IInv
<1>3. Verified(disk[p]) /\ disk[p].files = Parts /\ disk[p].manifest \in Trees
  BY <1>1, <1>2, VerifiedIsWhole DEF IInv, Ready, Publishing, Disks, Verified
<1>4. /\ job[p].digest \in registry /\ registry \subseteq Bundles
      /\ oci_ref(t) \notin raced => job[p].digest = disk[p]
  BY <1>1 DEF IInv, Saving, TypeOK
<1>5. e \in Entries /\ e # Unpinned
  BY <1>3, <1>4, SpecialAssumption DEF Entry, Entries
<1>6. /\ index[p] \in Indexes /\ index'[p] = [index[p] EXCEPT ![t] = e]
      /\ \A q \in Publishers \ {p} : index'[q] = index[q]
  BY <1>1 DEF IInv, TypeOK
<1>7. /\ index'[p] \in Indexes /\ index'[p][t] = e
      /\ \A s \in Targets \ {t} : index'[p][s] = index[p][s]
  BY <1>2, <1>5, <1>6 DEF Indexes
<1>8. /\ job'[p].at = IF p \in Matrix THEN "done" ELSE "idle"
      /\ \A q \in Publishers \ {p} : job'[q] = job[q]
      /\ job' \in [Publishers -> [at : Stages, attempt : 1..MaxAttempts,
                                  digest : Bundles \cup {NoBundle}]]
  BY <1>1, PublishAssumption DEF IInv, TypeOK, Idle, Stages
<1>9. TypeOK'
  <2>1. index' \in [Publishers -> Indexes \cup {Broken}]
    BY <1>1, <1>6, <1>7 DEF IInv, TypeOK
  <2> QED
    BY <1>1, <1>8, <2>1 DEF IInv, TypeOK
<1>10. Disks' /\ Stopped' /\ Ready' /\ Requests' /\ PushedIsWhole'
  BY <1>1, <1>8, PublishAssumption
  DEF IInv, Disks, Stopped, Ready, Requests, PushedIsWhole, Publishing, Target, Publishers
<1>11. Reading' /\ Saving'
  BY <1>1, <1>8 DEF IInv, Reading, Saving, Target
<1>12. Fragments'
  <2> SUFFICES ASSUME NEW m \in Matrix
               PROVE  /\ index'[m] # Broken => Pinned(index'[m]) \subseteq {m}
                      /\ job'[m].at = "done" => index'[m] # Broken /\ Pinned(index'[m]) = {m}
    BY DEF Fragments, Pinned
  <2>1. m \in Publishers
    BY DEF Publishers
  <2>2. CASE m # p
    BY <1>6, <1>8, <2>1, <2>2 DEF IInv, Fragments
  <2>3. CASE m = p
    <3>1. t = m
      BY <2>3 DEF IInv, Disks
    <3>2. Pinned(index[p]) \subseteq {m}
      BY <1>1, <2>3 DEF IInv, Fragments
    <3>3. Pinned(index'[p]) = {m}
      BY <1>2, <1>5, <1>7, <3>1, <3>2 DEF Pinned
    <3>4. index'[p] # Broken
      BY <1>7, SpecialAssumption
    <3> QED
      BY <2>3, <3>3, <3>4
  <2> QED
    BY <2>2, <2>3
<1>13. Pins'
  <2>1. GoodIn(index'[p], registry, raced)
    <3>1. GoodIn(index[p], registry, raced)
      BY <1>1 DEF IInv, Pins
    <3>2. oci_ref(t) \notin raced => SoundIn(t, e, registry)
      BY <1>2, <1>3, <1>4, SoundEntry DEF Entry, Target
    <3> QED
      BY <1>7, <3>1, <3>2 DEF GoodIn
  <2> QED
    BY <1>1, <1>6, <2>1 DEF IInv, Pins
<1> QED
  BY <1>9, <1>10, <1>11, <1>12, <1>13 DEF IInv

-----------------------------------------------------------------------------
(* Runs, pull requests and reviews. *)

LEMMA TriggerStep == ASSUME IInv, Trigger PROVE IInv'
<1>1. /\ base' = reviewed /\ runs < MaxRuns /\ runs' = runs + 1
      /\ job' = [p \in Publishers |-> IF p \in Matrix THEN [Idle EXCEPT !.at = "first"] ELSE job[p]]
      /\ index' = [p \in Publishers |-> IF p \in Matrix THEN EmptyIndex ELSE index[p]]
      /\ UNCHANGED <<disk, registry, tag, byHand, request, reviewed, raced>>
  BY DEF Trigger
<1>2. /\ EmptyIndex \in Indexes /\ Pinned(EmptyIndex) = {}
      /\ GoodIn(EmptyIndex, registry, raced)
  BY EmptyGood
<1>3. /\ \A p \in Publishers : job'[p].at = IF p \in Matrix THEN "first" ELSE job[p].at
      /\ \A p \in Publishers \ Matrix : job'[p] = job[p]
  BY <1>1 DEF Idle
<1>4. TypeOK'
  <2>1. runs' \in 0..MaxRuns
    BY <1>1, PublishAssumption DEF IInv, TypeOK
  <2>2. job' \in [Publishers -> [at : Stages, attempt : 1..MaxAttempts,
                                digest : Bundles \cup {NoBundle}]]
    BY <1>1, PublishAssumption DEF IInv, TypeOK, Idle, Stages
  <2> QED
    BY <1>1, <1>2, <2>1, <2>2 DEF IInv, TypeOK
<1>5. Disks' /\ Stopped' /\ Ready' /\ Requests' /\ PushedIsWhole'
  BY <1>1, <1>3, PublishAssumption
  DEF IInv, Disks, Stopped, Ready, Requests, PushedIsWhole, Publishing, Target, Publishers
<1>6. Reading' /\ Saving'
  BY <1>1, <1>3 DEF IInv, Reading, Saving, Target
<1>7. Fragments'
  <2>1. \A t \in Matrix : index'[t] = EmptyIndex /\ job'[t].at = "first"
    BY <1>1, <1>3 DEF Publishers
  <2> QED
    BY <1>2, <2>1 DEF Fragments, Pinned
<1>8. Pins'
  BY <1>1, <1>2 DEF IInv, Pins
<1> QED
  BY <1>4, <1>5, <1>6, <1>7, <1>8 DEF IInv

(* All that is left of a run is its pull request. *)
LEMMA EndRunStep ==
  ASSUME IInv, EndRun, UNCHANGED <<registry, tag, runs, byHand, reviewed, raced>>,
         request' \in [index : Indexes, base : Indexes] \cup {NoRequest},
         Requests', request' # NoRequest => GoodIn(request'.index, registry, raced)
  PROVE  IInv'
<1>1. /\ job' = [p \in Publishers |-> IF p \in Matrix THEN Idle ELSE job[p]]
      /\ disk' = [p \in Publishers |-> IF p \in Matrix THEN Fresh(p) ELSE disk[p]]
      /\ index' = [p \in Publishers |-> IF p \in Matrix THEN EmptyIndex ELSE index[p]]
      /\ base' = EmptyIndex
  BY DEF EndRun
<1>2. /\ EmptyIndex \in Indexes /\ Pinned(EmptyIndex) = {}
      /\ GoodIn(EmptyIndex, registry, raced)
  BY EmptyGood
<1>3. /\ \A p \in Publishers : job'[p].at = IF p \in Matrix THEN "idle" ELSE job[p].at
      /\ \A p \in Publishers \ Matrix : job'[p] = job[p] /\ disk'[p] = disk[p]
      /\ \A t \in Matrix : /\ disk'[t] \in Bundles /\ disk'[t].target = t
                            /\ disk'[t].manifest = NoManifest
  BY <1>1, FreshType, PublishAssumption DEF Idle, Publishers
<1>4. TypeOK'
  <2>1. disk' \in [Publishers -> Bundles]
    BY <1>1, <1>3 DEF IInv, TypeOK
  <2>2. job' \in [Publishers -> [at : Stages, attempt : 1..MaxAttempts,
                                digest : Bundles \cup {NoBundle}]]
    BY <1>1, PublishAssumption DEF IInv, TypeOK, Idle, Stages
  <2> QED
    BY <1>1, <1>2, <2>1, <2>2 DEF IInv, TypeOK
<1>5. Disks' /\ Stopped' /\ Ready' /\ PushedIsWhole'
  BY <1>3, PublishAssumption
  DEF IInv, Disks, Stopped, Ready, PushedIsWhole, Publishing, Target, Publishers
<1>6. Reading' /\ Saving'
  BY <1>3 DEF IInv, Reading, Saving, Target
<1>7. Fragments'
  BY <1>1, <1>2, <1>3 DEF Fragments, Publishers
<1>8. Pins'
  BY <1>1, <1>2 DEF IInv, Pins
<1> QED
  BY <1>4, <1>5, <1>6, <1>7, <1>8 DEF IInv

(* A merged entry comes from the fragment of its own target, or was there. *)
LEMMA MergedEntry ==
  ASSUME IInv, AllDone, NEW t \in Targets
  PROVE  \/ t \in Matrix /\ index[t] # Broken /\ Merge(index, base)[t] = index[t][t]
         \/ t \notin Matrix /\ Merge(index, base)[t] = base[t]
<1>1. \A m \in Matrix : index[m] # Broken /\ Pinned(index[m]) = {m}
  BY DEF IInv, Fragments, AllDone
<1>2. \A m \in Matrix : index[m][t] # Unpinned <=> m = t
  BY <1>1 DEF Pinned
<1>3. CASE t \in Matrix
  <2>1. (CHOOSE p \in Matrix : index[p][t] # Unpinned) = t
    BY <1>2, <1>3
  <2> QED
    BY <1>1, <1>2, <1>3, <2>1 DEF Merge
<1>4. CASE t \notin Matrix
  BY <1>2, <1>4 DEF Merge
<1> QED
  BY <1>3, <1>4

LEMMA UpdateIndexStep == ASSUME IInv, UpdateIndex PROVE IInv'
<1> DEFINE i == Merge(index, base)
<1>1. /\ AllDone /\ EndRun /\ request' = [index |-> i, base |-> base]
      /\ UNCHANGED <<registry, tag, runs, byHand, reviewed, raced>>
  BY DEF UpdateIndex
<1>2. \A t \in Targets :
        \/ t \in Publishers /\ t \in Matrix /\ index[t] # Broken /\ i[t] = index[t][t]
        \/ t \notin Matrix /\ i[t] = base[t]
  BY <1>1, MergedEntry DEF Publishers
<1>3. /\ base \in Indexes /\ i = [t \in Targets |-> i[t]]
      /\ \A p \in Publishers : index[p] # Broken => index[p] \in Indexes
  BY DEF IInv, TypeOK, Merge
<1>4. i \in Indexes
  BY <1>2, <1>3 DEF Indexes
<1>5. GoodIn(i, registry, raced)
  BY <1>2 DEF IInv, Pins, GoodIn
<1>6. Requests'
  BY <1>1, <1>2 DEF Requests
<1> HIDE DEF i
<1> QED
  BY <1>1, <1>3, <1>4, <1>5, <1>6, EndRunStep

LEMMA SkipUpdateStep == ASSUME IInv, SkipUpdate PROVE IInv'
BY EndRunStep DEF SkipUpdate, IInv, TypeOK, Requests, Pins

(* Only the reviewed index and the open request change. *)
LEMMA ReviewedStep ==
  ASSUME IInv, reviewed' \in Indexes, GoodIn(reviewed', registry, raced),
         request' = request \/ request' = NoRequest,
         UNCHANGED <<disk, job, index, registry, tag, runs, byHand, base, raced>>
  PROVE  IInv'
<1>1. TypeOK' /\ Requests' /\ PushedIsWhole'
  BY DEF IInv, TypeOK, Requests, PushedIsWhole
<1>2. Disks' /\ Stopped' /\ Ready' /\ Reading' /\ Saving'
  BY DEF IInv, Disks, Stopped, Ready, Reading, Saving, Publishing, Target
<1>3. Fragments'
  BY DEF IInv, Fragments
<1>4. Pins'
  BY DEF IInv, Pins
<1> QED
  BY <1>1, <1>2, <1>3, <1>4 DEF IInv

LEMMA ReviewStep == ASSUME IInv, Review PROVE IInv'
<1>1. /\ request # NoRequest /\ request' = NoRequest
      /\ UNCHANGED <<disk, job, index, registry, tag, runs, byHand, base, raced>>
      /\ \A t \in Targets : reviewed'[t] \in {request.index[t], reviewed[t]}
      /\ reviewed' = [t \in Targets |-> reviewed'[t]]
  BY DEF Review
<1>2. request.index \in Indexes /\ reviewed \in Indexes
  BY <1>1 DEF IInv, TypeOK
<1>3. reviewed' \in Indexes
  BY <1>1, <1>2 DEF Indexes
<1>4. GoodIn(reviewed', registry, raced)
  BY <1>1 DEF IInv, Pins, GoodIn
<1> QED
  BY <1>1, <1>3, <1>4, ReviewedStep

LEMMA ReviewByHandStep == ASSUME IInv, NEW d \in Developers, ReviewByHand(d) PROVE IInv'
<1>1. PICK t \in Pinned(index[d]) : reviewed' = [reviewed EXCEPT ![t] = index[d][t]]
  BY DEF ReviewByHand
<1>2. /\ d \in Publishers /\ t \in Targets /\ index[d] \in Indexes /\ reviewed \in Indexes
      /\ GoodIn(index[d], registry, raced) /\ GoodIn(reviewed, registry, raced)
  BY DEF Publishers, Pinned, ReviewByHand, IInv, TypeOK, Pins
<1>3. /\ reviewed' \in Indexes
      /\ \A s \in Targets : reviewed'[s] = IF s = t THEN index[d][s] ELSE reviewed[s]
  BY <1>1, <1>2 DEF Indexes
<1>4. GoodIn(reviewed', registry, raced)
  BY <1>2, <1>3 DEF GoodIn
<1> QED
  BY <1>3, <1>4, ReviewedStep DEF ReviewByHand

LEMMA CheckoutStep == ASSUME IInv, NEW d \in Developers, Checkout(d) PROVE IInv'
<1>1. /\ d \in Publishers /\ d \notin Matrix /\ index' = [index EXCEPT ![d] = reviewed]
      /\ UNCHANGED <<disk, job, registry, tag, runs, byHand, base, request, reviewed, raced>>
  BY PublishAssumption DEF Publishers, Checkout
<1>2. /\ index'[d] = reviewed /\ \A q \in Publishers \ {d} : index'[q] = index[q]
      /\ index' \in [Publishers -> Indexes \cup {Broken}]
  BY <1>1 DEF IInv, TypeOK
<1>3. TypeOK' /\ Requests' /\ PushedIsWhole'
  BY <1>1, <1>2 DEF IInv, TypeOK, Requests, PushedIsWhole
<1>4. Disks' /\ Stopped' /\ Ready' /\ Reading' /\ Saving'
  BY <1>1 DEF IInv, Disks, Stopped, Ready, Reading, Saving, Publishing, Target
<1>5. Fragments'
  BY <1>1, <1>2 DEF IInv, Fragments, Publishers
<1>6. Pins'
  BY <1>1, <1>2 DEF IInv, Pins
<1> QED
  BY <1>3, <1>4, <1>5, <1>6 DEF IInv

LEMMA StutterStep == ASSUME IInv, UNCHANGED vars PROVE IInv'
<1>1. TypeOK' /\ Requests' /\ PushedIsWhole' /\ Fragments' /\ Pins'
  BY DEF vars, IInv, TypeOK, Requests, PushedIsWhole, Fragments, Pins
<1>2. Disks' /\ Stopped' /\ Ready' /\ Reading' /\ Saving'
  BY DEF vars, IInv, Disks, Stopped, Ready, Reading, Saving, Publishing, Target
<1> QED
  BY <1>1, <1>2 DEF IInv

THEOREM Inductive == IInv /\ [Next]_vars => IInv'
<1> SUFFICES ASSUME IInv, [Next]_vars PROVE IInv'
  OBVIOUS
<1>1. ASSUME NEW p \in Publishers, Publication(p) PROVE IInv'
  BY <1>1, CheckStep, PutStep, ReadBackStep, SaveStep, FailsStep DEF Publication
<1>2. CASE \E p \in Publishers : Assemble(p) \/ TestBundle(p) \/ Publication(p)
  BY <1>1, <1>2, AssembleStep, TestStep
<1>3. CASE \E t \in Matrix : AssembleOnce(t) \/ JobFails(t)
  BY <1>3, AssembleOnceStep, JobFailsStep
<1>4. CASE \E d \in Developers :
             AssembleFails(d) \/ ClearingFails(d) \/ Alter(d) \/ Checkout(d) \/ ReviewByHand(d)
  BY <1>4, AssembleFailsStep, ClearingFailsStep, AlterStep, CheckoutStep, ReviewByHandStep
<1>5. CASE Trigger \/ UpdateIndex \/ SkipUpdate \/ Review
  BY <1>5, TriggerStep, UpdateIndexStep, SkipUpdateStep, ReviewStep
<1>6. CASE Wait \/ UNCHANGED vars
  BY <1>6, StutterStep DEF Wait
<1> QED
  BY <1>2, <1>3, <1>4, <1>5, <1>6 DEF Next

THEOREM Invariance == Spec => []IInv
<1>1. Init => IInv
  BY InitIInv
<1>2. IInv /\ [Next]_vars => IInv'
  BY Inductive
<1> QED
  BY <1>1, <1>2, PTL DEF Spec

-----------------------------------------------------------------------------
(* The state of every publisher, the registry and the indexes have their types,
   and no step of a job goes on for more attempts than the loop of the workflow. *)
THEOREM TypeCorrect == Spec => []TypeOK
<1>1. IInv => TypeOK
  BY DEF IInv
<1> QED
  BY <1>1, Invariance, PTL

(* Only complete bundles that verify are ever pushed, by jobs or by hand. *)
THEOREM OnlyWholeIsPushed == Spec => []PushedIsWhole
<1>1. IInv => PushedIsWhole
  BY DEF IInv
<1> QED
  BY <1>1, Invariance, PTL

(* Every pin, proposed or reviewed, can be installed, unless a developer's
   publication overlapped another one of its tag. *)
THEOREM PinsHold == Spec => []PinsInstallable
<1>1. IInv => PinsInstallable
  BY DEF IInv, Pins, PinsInstallable, EveryIndex, GoodIn, SoundIn, Sound, Installable
<1> QED
  BY <1>1, Invariance, PTL

(* Retries and truncated indexes never leave a fragment the merge refuses. *)
THEOREM MergesPass == Spec => []MergeNeverRefused
<1>1. IInv => MergeNeverRefused
  <2> SUFFICES ASSUME IInv, AllDone PROVE Mergeable(index)
    BY DEF MergeNeverRefused
  <2>1. \A m \in Matrix : index[m] # Broken /\ Pinned(index[m]) = {m}
    BY DEF IInv, Fragments, AllDone
  <2>2. \A m \in Matrix : Cardinality({m}) = 1
    BY FS_Singleton
  <2> QED
    BY <2>1, <2>2 DEF Mergeable
<1> QED
  BY <1>1, Invariance, PTL

(* The workflow leaves alone the pins of targets outside its matrix. *)
THEOREM ForeignPinsStay == Spec => ForeignPinsKept
<1> DEFINE Kept ==
      \A t \in Targets \ Matrix :
        reviewed'[t] # reviewed[t] =>
          \E d \in Developers : index[d] # Broken /\ reviewed'[t] = index[d][t]
<1>1. IInv /\ [Next]_vars => [Kept]_vars
  <2> SUFFICES ASSUME IInv, Next,
                      NEW t \in Targets \ Matrix, reviewed'[t] # reviewed[t]
               PROVE  \E d \in Developers : index[d] # Broken /\ reviewed'[t] = index[d][t]
    OBVIOUS
  <2>1. ~Review
    BY DEF Review, IInv, Requests
  <2>2. PICK d \in Developers : ReviewByHand(d)
    BY <2>1 DEF Next, Assemble, TestBundle, Publication, Check, Put, ReadBack, Save, SaveCut,
                PublishFails, AssembleOnce, JobFails, AssembleFails, ClearingFails, Alter, Checkout, Trigger,
                UpdateIndex, SkipUpdate, Wait, vars
  <2>3. PICK s \in Pinned(index[d]) : reviewed' = [reviewed EXCEPT ![s] = index[d][s]]
    BY <2>2 DEF ReviewByHand
  <2>4. reviewed'[t] = index[d][t]
    BY <2>3 DEF IInv, TypeOK, Indexes
  <2> QED
    BY <2>2, <2>4 DEF ReviewByHand
<1> QED
  BY <1>1, Invariance, PTL DEF Spec, ForeignPinsKept
=============================================================================
