---------------------------- MODULE ControlPlane ----------------------------
(***************************************************************************)
(* The Lambda control plane: FunctionManager over two stores that share no *)
(* transaction, the SQLite tables `functions` and `artifacts` and the      *)
(* content-addressed blob directory.                                       *)
(*                                                                         *)
(* A request is a coroutine that yields at every await, so each action is  *)
(* what one request does between two awaits: one SQL statement, one        *)
(* transaction (SQLite serialises writers; the first statement of both     *)
(* transactions is a write) or one file-system call.  A package and its    *)
(* SHA-256 are the same thing here: an element of Blobs.  Requests that a  *)
(* validation or a first lookup refuses change nothing and are not steps.  *)
(***************************************************************************)
EXTENDS Naturals, FiniteSets

CONSTANTS
  Clients,      \* slots for concurrent requests
  Names,        \* function names
  Blobs,        \* deployment packages, identified by their hash
  Bootstrap,    \* the packages with a `bootstrap` at their root
  NoFunction,   \* a name with no row in `functions`
  MaxRevisions, \* bound: no create or update starts once this many revisions exist
  MaxFaults     \* bound: requests that are cut short

Runtimes == {"provided", "bundle"}
NoRevision == 0   \* expected_revision = None
NoRow == 0        \* no artifact row

Row == Nat \ {NoRow}
Function == [artifact : Row, revision : Nat, runtime : Runtimes]

Version == [code : Blobs, revision : Nat, runtime : Runtimes] \* what FunctionStore keeps

ASSUME ControlPlaneAssumption ==
  /\ Bootstrap \subseteq Blobs
  /\ NoFunction \notin Function \cup Version
  /\ MaxRevisions \in Nat
  /\ MaxFaults \in Nat

VARIABLES
  functions,  \* table `functions`: name -> row, or NoFunction
  artifacts,  \* table `artifacts`: hash -> id of its row, or NoRow
  rows,       \* artifact ids 1..rows have been issued (a fresh UUID each)
  revs,       \* revisions 1..revs have been issued (a fresh UUID each)
  blobs,      \* the files of <root>/sha256
  req,        \* what each request in flight is doing
  log,        \* history: the updates that were accepted
  faults      \* history: requests cut short so far

db == <<functions, artifacts, rows, revs, log>>
vars == <<functions, artifacts, rows, revs, blobs, req, log, faults>>

Idle == [pc |-> "idle"]
Pcs == {"put", "rename", "commit", "cleanup", "lookup", "remove"}
Requests == [pc : Pcs, op : {"create", "update"}, name : Names, code : Blobs,
             runtime : Runtimes, expected : Nat]
Lookups == [pc : {"details"}, name : Names, artifact : Row]

Goto(c, pc) == req' = [req EXCEPT ![c].pc = pc]
Return(c) == req' = [req EXCEPT ![c] = Idle]

Exists(n) == functions[n] # NoFunction
Referenced(row) == \E n \in Names : Exists(n) /\ functions[n].artifact = row

(* Only `provided.*` runtimes need a bootstrap inside the package. *)
ValidCode(code, runtime) == runtime = "provided" => code \in Bootstrap

Init ==
  /\ functions = [n \in Names |-> NoFunction]
  /\ artifacts = [b \in Blobs |-> NoRow]
  /\ rows = 0
  /\ revs = 0
  /\ blobs = {}
  /\ req = [c \in Clients |-> Idle]
  /\ log = {}
  /\ faults = 0

-----------------------------------------------------------------------------
(* create_function, up to the pre-check of the name. *)
CreatePrecheck(c, n, code, runtime) ==
  /\ req[c] = Idle
  /\ revs < MaxRevisions
  /\ ValidCode(code, runtime)
  /\ ~Exists(n)
  /\ req' = [req EXCEPT ![c] = [pc |-> "put", op |-> "create", name |-> n, code |-> code,
                                runtime |-> runtime, expected |-> NoRevision]]
  /\ UNCHANGED <<db, blobs, faults>>

(* Variant for the mutation runs: the package is not validated. *)
UpdateReadUnchecked(c, n, code, expected) ==
  /\ req[c] = Idle
  /\ Exists(n)
  /\ req' = [req EXCEPT ![c] = [pc |-> "put", op |-> "update", name |-> n, code |-> code,
                                runtime |-> functions[n].runtime, expected |-> expected]]
  /\ UNCHANGED <<db, blobs, faults>>

(* update_function_code, up to the read of the existing row: the package is *)
(* validated against the runtime read here and never again.                 *)
UpdateRead(c, n, code, expected) ==
  /\ req[c] = Idle
  /\ Exists(n)
  /\ ValidCode(code, functions[n].runtime)
  /\ req' = [req EXCEPT ![c] = [pc |-> "put", op |-> "update", name |-> n, code |-> code,
                                runtime |-> functions[n].runtime, expected |-> expected]]
  /\ UNCHANGED <<db, blobs, faults>>

(* ArtifactStore::put: an existing file is trusted and not written again. *)
PutExists(c) ==
  /\ req[c].pc = "put"
  /\ Goto(c, IF req[c].code \in blobs THEN "commit" ELSE "rename")
  /\ UNCHANGED <<db, blobs, faults>>

(* ... otherwise a private temporary file is renamed into place. *)
PutRename(c) ==
  /\ req[c].pc = "rename"
  /\ blobs' = blobs \cup {req[c].code}
  /\ Goto(c, "commit")
  /\ UNCHANGED <<db, faults>>

-----------------------------------------------------------------------------
(* INSERT ... ON CONFLICT(sha256) DO NOTHING, then SELECT: the id of the row *)
(* that now holds this hash.                                                 *)
RowOfOffByOne(code) == IF artifacts[code] = NoRow THEN rows ELSE artifacts[code]
RowOfOrReplace(code) == rows + 1
RowOf(code) == IF artifacts[code] = NoRow THEN rows + 1 ELSE artifacts[code]
InsertArtifact(code) ==
  /\ artifacts' = [artifacts EXCEPT ![code] = RowOf(code)]
  /\ rows' = IF RowOf(code) > rows THEN RowOf(code) ELSE rows

(* create_function_with_artifact commits; `details` follows. *)
CreateCommit(c) ==
  LET r == req[c] IN
  /\ r.pc = "commit" /\ r.op = "create"
  /\ ~Exists(r.name)
  /\ InsertArtifact(r.code)
  /\ revs' = revs + 1
  /\ functions' = [functions EXCEPT ![r.name] =
       [artifact |-> RowOf(r.code), revision |-> revs + 1, runtime |-> r.runtime]]
  /\ req' = [req EXCEPT ![c] = [pc |-> "details", name |-> r.name, artifact |-> RowOf(r.code)]]
  /\ UNCHANGED <<blobs, log, faults>>

(* UPDATE ... WHERE name = ? AND (? IS NULL OR revision_id = ?) *)
UpdateMatchesAny(r) == Exists(r.name)
UpdateMatches(r) ==
  /\ Exists(r.name)
  /\ r.expected \in {NoRevision, functions[r.name].revision}

(* update_function_code_with_artifact commits. *)
UpdateCommit(c) ==
  LET r == req[c] IN
  /\ r.pc = "commit" /\ r.op = "update"
  /\ UpdateMatches(r)
  /\ InsertArtifact(r.code)
  /\ revs' = revs + 1
  /\ functions' = [functions EXCEPT ![r.name] =
       [artifact |-> RowOf(r.code), revision |-> revs + 1, runtime |-> @.runtime]]
  /\ log' = log \cup {[expected |-> r.expected, revision |-> revs + 1]}
  /\ Return(c)
  /\ UNCHANGED <<blobs, faults>>

(* Variant for the mutation runs: no cleanup after a rejected request. *)
RejectOnly(c) ==
  LET r == req[c] IN
  /\ r.pc = "commit"
  /\ \/ r.op = "create" /\ Exists(r.name)
     \/ r.op = "update" /\ ~UpdateMatches(r)
  /\ Return(c)
  /\ UNCHANGED <<db, blobs, faults>>

(* The transaction rolls back, its artifact insert included: the name was  *)
(* taken (create), or the row is gone or at another revision (update).     *)
Reject(c) ==
  LET r == req[c] IN
  /\ r.pc = "commit"
  /\ \/ r.op = "create" /\ Exists(r.name)
     \/ r.op = "update" /\ ~UpdateMatches(r)
  /\ Goto(c, "cleanup")
  /\ UNCHANGED <<db, blobs, faults>>

-----------------------------------------------------------------------------
(* cleanup_blob_if_unreferenced, in three awaits.  First                   *)
(* delete_artifact_if_unreferenced, one atomic DELETE ... NOT EXISTS.      *)
CollectableAlways(code) == artifacts[code] # NoRow
Collectable(code) == artifacts[code] # NoRow /\ ~Referenced(artifacts[code])
CleanupRow(c) ==
  LET code == req[c].code IN
  /\ req[c].pc = "cleanup"
  /\ IF Collectable(code)
     THEN artifacts' = [artifacts EXCEPT ![code] = NoRow] /\ Goto(c, "remove")
     ELSE UNCHANGED artifacts /\ Goto(c, "lookup")
  /\ UNCHANGED <<functions, rows, revs, blobs, log, faults>>

(* No row was deleted: is there one at all (get_artifact_by_sha256)? *)
CleanupLookup(c) ==
  /\ req[c].pc = "lookup"
  /\ IF artifacts[req[c].code] = NoRow THEN Goto(c, "remove") ELSE Return(c)
  /\ UNCHANGED <<db, blobs, faults>>

(* ArtifactStore::remove *)
CleanupRemove(c) ==
  /\ req[c].pc = "remove"
  /\ blobs' = blobs \ {req[c].code}
  /\ Return(c)
  /\ UNCHANGED <<db, faults>>

-----------------------------------------------------------------------------
(* delete_function: the artifact row and the blob stay. *)
DeleteFunction(n) ==
  /\ Exists(n)
  /\ functions' = [functions EXCEPT ![n] = NoFunction]
  /\ UNCHANGED <<artifacts, rows, revs, blobs, req, log, faults>>

(* get_function reads the function row, then `details` reads its artifact. *)
GetFunction(c, n) ==
  /\ req[c] = Idle
  /\ Exists(n)
  /\ req' = [req EXCEPT ![c] = [pc |-> "details", name |-> n,
                                artifact |-> functions[n].artifact]]
  /\ UNCHANGED <<db, blobs, faults>>

HasRow(row) == \E b \in Blobs : artifacts[b] = row
DetailsFound(c) ==
  /\ req[c].pc = "details"
  /\ HasRow(req[c].artifact)
  /\ Return(c)
  /\ UNCHANGED <<db, blobs, faults>>

(* `artifact ausente`: the caller gets InvalidArtifact. *)
DetailsMissing(c) ==
  /\ req[c].pc = "details"
  /\ ~HasRow(req[c].artifact)
  /\ Return(c)
  /\ UNCHANGED <<db, blobs, faults>>

(* A request ends early: a database or file error leaves through `?` (or is *)
(* ignored, in the cleanup), the connection closes and the future is        *)
(* dropped, or the process stops.  An open transaction rolls back; nothing  *)
(* else is undone.                                                          *)
Abort(c) ==
  /\ req[c] # Idle
  /\ faults < MaxFaults
  /\ faults' = faults + 1
  /\ Return(c)
  /\ UNCHANGED <<db, blobs>>

(* With no request in flight the server waits for one: TLC's deadlock check *)
(* looks for requests that cannot go on.                                     *)
Wait == (\A c \in Clients : req[c] = Idle) /\ UNCHANGED vars

Next ==
  \/ \E c \in Clients :
       \/ \E n \in Names, code \in Blobs, runtime \in Runtimes :
            CreatePrecheck(c, n, code, runtime)
       \/ /\ revs < MaxRevisions
          /\ \E n \in Names, code \in Blobs, expected \in 0..revs :
               UpdateRead(c, n, code, expected)
       \/ \E n \in Names : GetFunction(c, n)
       \/ PutExists(c)
       \/ PutRename(c)
       \/ CreateCommit(c)
       \/ UpdateCommit(c)
       \/ Reject(c)
       \/ CleanupRow(c)
       \/ CleanupLookup(c)
       \/ CleanupRemove(c)
       \/ DetailsFound(c)
       \/ DetailsMissing(c)
       \/ Abort(c)
  \/ \E n \in Names : DeleteFunction(n)
  \/ Wait

Spec == Init /\ [][Next]_vars

-----------------------------------------------------------------------------
(* Every variable ranges over the rows, files and requests the program has. *)
TypeOK ==
  /\ functions \in [Names -> Function \cup {NoFunction}]
  /\ artifacts \in [Blobs -> Nat]
  /\ rows \in Nat
  /\ revs \in Nat
  /\ blobs \in SUBSET Blobs
  /\ req \in [Clients -> {Idle} \cup Requests \cup Lookups]
  /\ log \in SUBSET [expected : Nat, revision : Nat]
  /\ faults \in Nat

(* No function is ever left pointing at an artifact row that a failed       *)
(* request of somebody else has collected: delete_artifact_if_unreferenced  *)
(* runs outside the transaction that inserted or reused the row.            *)
ReferentialIntegrity == \A n \in Names : Exists(n) => HasRow(functions[n].artifact)

(* Optimistic concurrency: of all the updates that named one revision, at   *)
(* most one is ever accepted, also when the function was deleted and        *)
(* created again in between.                                                *)
NoLostUpdate ==
  \A u, v \in log : (u.expected = v.expected /\ u.expected # NoRevision) => u = v

(* update_function_code validates the package against a row it read before  *)
(* two awaits.  An update that names its revision is still validated        *)
(* against the runtime of the row it changes.                               *)
ConditionalUpdateValidated ==
  [][\A c \in Clients :
       (UpdateCommit(c) /\ req[c].expected # NoRevision)
         => ValidCode(req[c].code, functions[req[c].name].runtime)]_vars

(* The cleanup of rejected requests leaves no blob without a row: once no   *)
(* request is in flight there are at most as many orphans as requests were  *)
(* cut short.                                                               *)
OrphanBound ==
  (\A c \in Clients : req[c] = Idle)
    => Cardinality({b \in blobs : artifacts[b] = NoRow}) <= faults

(* `artifact ausente` is never an answer about the current version of a     *)
(* function: it only happens when the function was updated or deleted       *)
(* between the two reads of the request.                                    *)
DetailsFailsOnlyWhenStale ==
  [][\A c \in Clients :
       DetailsMissing(c) => \/ ~Exists(req[c].name)
                            \/ functions[req[c].name].artifact # req[c].artifact]_vars

(* remove() of the artifact store: "the caller must check before that there *)
(* is no persisted reference".  A request about to remove a blob finds no   *)
(* function that uses it.                                                   *)
RemoveOnlyUnreferenced ==
  \A c \in Clients : req[c].pc = "remove" =>
    ~Referenced(artifacts[req[c].code])

(* Every function has the blob of its artifact in the store, so that it can *)
(* be started.                                                              *)
BlobPresent ==
  \A n \in Names : Exists(n) =>
    \E b \in blobs : artifacts[b] = functions[n].artifact

(* Every deployed package satisfies the contract of its runtime.            *)
DeployedCode(n) == CHOOSE b \in Blobs : artifacts[b] = functions[n].artifact
DeployedCodeValid ==
  \A n \in Names : Exists(n) => ValidCode(DeployedCode(n), functions[n].runtime)

(* The control plane implements the atomic store of FunctionStore: the      *)
(* package of a function, seen through its artifact row, changes only when  *)
(* a create, an update or a delete of that function commits.                *)
Deployed ==
  [n \in Names |->
     IF Exists(n)
     THEN [code |-> DeployedCode(n), revision |-> functions[n].revision,
           runtime |-> functions[n].runtime]
     ELSE NoFunction]
Store == INSTANCE FunctionStore WITH store <- Deployed
Refinement == Store!Spec
=============================================================================
