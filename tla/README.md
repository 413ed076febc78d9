# ZapCloud: specifications, model checking and proofs

ZapCloud is a local re-implementation of AWS Lambda: a daemon that stores functions in SQLite and a
content-addressed blob store, starts their bootstrap processes, and serves them the Lambda Runtime API. The
runtimes it starts them with are bundles, built and published by a tool of the repository (`xtask`) and its
CI, and installed from a pinned index. This directory holds TLA+ models of its concurrent parts, the TLC
configurations that check them, and TLAPS proofs of their main safety properties for every value of the
constants.

Paths below are relative to `src/`; `functions/` stands for `zapcloud-functions/`.

## 1. Inventory

| component | state it keeps | operations | what is hard |
|---|---|---|---|
| function-manager (`functions/function-manager`) | none of its own; one task per request | create, update, delete, get, list, cleanup of a rejected request's blob | every request is a chain of awaits on the database and the store; requests on one name or one package interleave; a request may be cut at any await |
| zc-persistence (`shared/zc-persistence`) | tables `functions`, `artifacts` | one transaction per operation | referential integrity, optimistic concurrency on `revision_id` |
| zc-artifact-store (`shared/zc-artifact-store`) | a file per SHA-256 | put (dedup, temp + rename), remove, read, verify | not transactional with the database |
| executor-sandbox (`functions/executor-sandbox`) | a channel of events, a map of pending invocations, a process and its mark `needs_reset` | invoke, `/next`, `/response`, `/error`, expiry, terminate | late and repeated responses, deadlines, cancellation at every await, exit of the process, all in one `select!` |
| invocation (`functions/invocation`) | the registry of warm environments (`RwLock<HashMap>`), a mutex per environment, a directory per revision | invoke, cold start, invalidate | two levels of locks, environments retired while others wait for them, directories shared by environments of one revision |
| runtime cache (`functions/runtime`) | generations of bundles on disk, a public link per bundle, file locks, a memo of verified paths | ensure, resolve, gc | several processes, crashes between two renames, generations deleted while others use them |
| api-lambda (`functions/api-lambda`) | none | authentication, HTTP framing, pagination, commit-then-invalidate | an update that commits and then fails to invalidate; pages over a changing table, through restarts and lost answers |
| zc-aws-protocol (`shared/zc-aws-protocol`) | none | SigV4 verification, ARNs, error codes | a window of time between two clocks; a signature over one of many spellings of a query |
| runtime distribution (`functions/runtime/src/{index,oci}.rs`) | `index.json`, a registry | pull, push, read and write the index | a pull may fail or be dropped at any byte; a push is read back through a mutable tag; the index is overwritten in place |
| zc-config | none | load, validate | what is accepted here is used later by other crates, with rules of their own |
| zc-telemetry | a counter | count | nothing |
| bins/zapcloud | where the start of `serve` is | `serve`, `runtimes install`, `runtimes gc`, health | a start of several phases, a shutdown that drains, restarts under traffic |
| xtask (`xtask/src/{bundle,publish}.rs`) | the directory of a bundle, an index | assemble, verify, publish | an assembly cut short; retries of a half-done publication |
| CI (`.github/workflows/runtimes.yml`, `.github/scripts/merge-runtime-index.jq`) | fragments of the index, a pull request | one job per target, retries, merge of the fragments | jobs that publish concurrently with each other and with developers; a merge over an index that moves on |
| executor-core | none | none | a placeholder crate |

How they interact: the API handlers call the function manager, which writes blobs and then commits
rows; an update or a delete that committed then calls `Invoker::invalidate_function`. An invocation
reads the function row, finds or starts the environment of its revision (which resolves a runtime
bundle from the cache and unpacks the blob), and hands the event to the executor of that
environment, whose Runtime API the bootstrap process polls. Bundles come from the registry: the jobs
of the workflow assemble, push and pin them, a reviewer merges the pins, and the cache installs
what the index names.

What makes each part correct (the hazards it is exposed to are the `hazards` of `PROJECT.json`, one by
one at their lines):

- control plane: a function never loses its artifact row or its blob; of the updates that name one
  revision at most one is accepted; what is deployed satisfies its runtime; a rejected request
  leaves nothing behind; together, an atomic store of functions;
- executor: an answer reaches only the caller of its event; no process works for a caller who has
  gone; a reused environment carries nothing over; every invocation returns;
- invoker: one invocation per process, of the revision it resolved; what was retired stays retired;
  neither a call nor an invalidation waits for ever;
- runtime cache: what an environment uses is never deleted, if it was resolved under a `.lock`; the public link always leads to a
  generation that was installed completely; a failed installation changes nothing;
- unpacking: what the control plane accepts is never refused later, and the directory a bootstrap runs in
  holds its whole package, whatever earlier cold starts left there;
- publication: only whole bundles are pushed, every pin leads to the bundle it names, and the
  workflow leaves the pins of other targets alone;
- listing: complete, without repetition, and finite, over a changing table, through restarts of the daemon
  and faults of the network;
- daemon: an accepted configuration ends in a daemon that serves; a request that is signed and in time is
  accepted;
- all together, to those who invoke functions: a call runs one version, the one it resolved, and it fails only
  if that version did not stay deployed, whole and at rest.

## 2. Modules

| module | models | checked by |
|---|---|---|
| `FunctionStore` | what the control plane promises: an atomic store of functions | property `Refinement` of `ControlPlane` |
| `ControlPlane` | function-manager, the transactions of zc-persistence, `put` and `remove` of the store | `MCControlPlane.cfg`, `MCRemoveReferenced.cfg` |
| `RuntimeApi` | executor-sandbox: one environment and its process | `MCRuntimeApi.cfg`, `MCLostResponse.cfg` |
| `Invoker` | the registry of environments, cold starts, commit-then-invalidate of the API | `MCInvoker.cfg`, `MCTaskRoot.cfg`, `MCZombie.cfg` |
| `LambdaService` | what the API promises to those who invoke functions; `EXTENDS FunctionStore` | property `ImplementsService` of `Serving` |
| `Serving` | the composition of `ControlPlane` and `Invoker`, with the reads of a cold start and restarts | `MCServing.cfg` |
| `RuntimeCache` | install, resolve and gc of runtime bundles, in several processes that may die | `MCRuntimeCache.cfg` |
| `Pagination` | `ListFunctions` page by page over a changing table | through `Daemon` |
| `Daemon` | the configuration, the start and the end of `serve`, SigV4; `EXTENDS Pagination` | `MCDaemon.cfg` |
| `Package` | validation of a package and its unpacking into the directory of a revision, by threads that fail and overlap | `MCPackage.cfg` |
| `Publish` | `xtask bundle`, `xtask publish`, the workflow that runs them and the merge of its index | `MCPublish.cfg` |
| `*Proofs` | theorems about the module they extend | tlapm |
| `MC*` | the values and the symmetry of the runs | |

Names follow the source: an action is called after the function, the query or the branch it stands
for, and `map` in `PROJECT.json` gives its lines. Operators marked as variants for the mutation
runs are used by no specification: each is the code with a plausible bug, and each property was
checked to fail with at least one of them.

### ControlPlane and FunctionStore

`functions`, `artifacts` are the two tables, `blobs` the files of the store, `req` the requests in
flight. One action is what a request does between two awaits: one statement, one transaction
(SQLite serialises writers and both transactions begin with a write) or one call to the file
system.

| action | code |
|---|---|
| `CreatePrecheck`, `UpdateRead` | validation and first lookup of `create_function`, `update_function_code` |
| `PutExists`, `PutRename` | `ArtifactStore::put`: the existence test, then the rename of a private temporary file |
| `CreateCommit`, `UpdateCommit`, `Reject` | the transaction, committed or rolled back |
| `CleanupRow`, `CleanupLookup`, `CleanupRemove` | `cleanup_blob_if_unreferenced`, await by await |
| `DeleteFunction`, `GetFunction`, `DetailsFound`, `DetailsMissing` | `delete_function`, `get_function`, `details` |
| `Abort` | an error that leaves through `?`, a dropped future, a crash |

A package is its SHA-256; two packages are enough, one with a bootstrap and one without. Artifact
ids and revisions are fresh UUIDs in the code, counters here. The refinement mapping `Deployed`
reads a function through its artifact row, so `FunctionStore` sees the package and not the id.

### RuntimeApi

`queue` is the mpsc channel, `pending` the table of delivered events, `reply` the oneshot with the
answer, `started` the oneshot with the deadline, `proc` the bootstrap, `seen` and `posts` what it has
received and sent. `invoke` borrows its environment mutably, so `cur` is the one invocation. Each
turn of its biased `select!` is two steps (`PollStart` or `PollReply`, then `PollTimerAndExit`),
because the HTTP handlers run on other threads between them. `next_invocation` is `NextReceive` and
`NextDeliver`, split where it awaits the lock of `pending`; `complete_invocation` is one step under
that lock. `Cancel` is `InvocationGuard`. The bootstrap (`CallNext`, `Post`, `Exit`, `CloseNext`)
does as it pleases: it polls, stays silent, answers late, twice or for an old event, or exits.

### Invoker

`envs` is the registry and `writer` the holder of its write lock; the read lock covers a single
step. `env` and `lock` are the `WarmEnv` and the mutex behind each `Arc`, alive as long as the
registry, a caller (`handle`) or an invalidation (`swept`) holds it. `Resolve`, `LookupRead`,
`LookupWrite`, `LockEnv` and `Return` are `invoke`; `StartUnpack`, `FinishUnpack` and `Register` or
`Replace` are `cold_start`, under the write lock or under the mutex; the unpacking is a blocking
thread (`jobs`) that survives its caller. `Change`, `Sweep`, `Retire`, `RemoveRoot`, `Done` are the
handlers of the API that commit and then invalidate. `GiveUp` and `Abort` are failures and dropped
futures. `ProcessExecutor::invoke` is one step: `RuntimeApi` opens it, and proves what is assumed of
it here, that it returns with the environment clean or dead.

### Serving and LambdaService

`Serving` extends `ControlPlane` and instantiates `Invoker`, with the clients of the first as the
administrators of the second: `deployed` is the revision column of the table, and `Change` happens in the
transaction of `UpdateCommit` or `DeleteFunction`. What `Invoker` does in one step, `StartUnpack`, is taken
apart into the reads of `cold_start`, among which the control plane writes: `FindArtifact`
(`get_artifact_by_id`), `VerifyBlob`, `ReadBlob`. `Unpacked`, `Spawn`, `LockEnv` and `Respond` are those of
`Invoker` with what a package adds: one without the bootstrap its runtime needs is refused, and a directory
that an invalidation removed may fail an unpacking or a start. `Refuse` is every `?` on the way. `loaded` is
the package a process was started from. `Restart` is the daemon stopped or killed and started: tables, blobs
and directories stay, the rest is gone. Random failures of `Invoker` are off (`Faulty <- FALSE`), so that
the calls that fail are those the code lets fail.

`LambdaService` is the promise. A call resolves the version deployed at one moment (`Invoke`), runs its code
(`Run`), and ends (`End`); it may end without having run only when it was disturbed: when at some step
since, its version was not the deployed one, a change of its function was still being applied, or the
version was `spoiled` or cannot run. The mapping reads `store` through the artifact rows, `changing` from
the `pc` of the handlers, and `spoiled` from the disk: a deployed revision whose blob is gone or whose
directory was removed under an unpacking or a process. Those two are the defects of `remove_referenced` and
`task_root_removed`, so the refinement says that they are the only ways to fail an undisturbed call.
`steady` is a history of who was disturbed, and changes nothing.

### Daemon

`serve` says where `run_serve` is: `Load` (read and validate), `Preflight`, `Build` (`build_app`), `Bind`,
then serving, draining after ctrl-c (`Shutdown`, `Exit`), or down after a `Crash`. A configuration is a
record of the fields that are validated, each with the values its rule tells apart: `listen` is a loopback,
a public or a malformed address, `metadata` an URL of SQLite, one with spaces in front (`padded`), or
another, `keys` whether the credentials are in the environment.

A request carries the query it was signed with, the text of the query it arrives with (`wire`: a sequence of
parameters, each encoded or not), the time stamp of the client and the date of its scope. A signature is
what it was computed from, so that `SignatureMatches` compares parameters; `Canonical` is `canonical_query`,
which decodes, encodes and sorts. `Authenticate` reads the clock after the body has arrived, as
`authenticate` does, so a `Tick` between `Send` and it is the time of the upload. `ListFunctions` answers
what arrived, by `PageFrom` of `Pagination`. `Garble` makes another query arrive, and only in mode `sigv4`:
without signatures nothing protects a request, and nothing is claimed. `LoseAnswer` and `Crash` lose a page
that the daemon has read; the client asks again with the marker it has.

Abstractions: a client receives the page in the step in which the daemon reads the table, since nothing the
client does comes between; the names and the limits of other headers, the access key and the region of the
scope are fixed; one client, one request at a time.

### RuntimeCache

`place`, `bundle`, `origin` describe each generation on disk, `link` the public link of each bundle,
`owner`, `guards` its `.lock` (exclusive, shared), `leases` the `.lease` files. `bare` are the resolvers that found no
`.lock` and go on without a guard, `lost` those whose open `.lease` has been unlinked, so that they hold a file no
collector tries any more. `EnsureOpen` to
`Activate` are `ensure_target`, `GcStart` to `GcEnd` are `gc`, `ResolveOpen` to `Drop` are
`resolve_bundle` and the life of the environment that holds the lease. `remove_dir_all` takes several steps: from
`GcDelete`, when the collector has locked the `.lease`, to `GcUnlink`, when that file goes, whoever opens it waits
(`WaitLease`); from then to `GcDeleted` whoever has no guard makes and locks a new one (`TakeLease`), which `GcUnlink`
may find too, or which may make the removal fail (`Die`). Parts of the directory go all along, so `Serve` and `Refuse`
are both possible. `Fail` is an installer that
returns an error, `Die` a process killed at any step, `Restart` the daemon, `Damage` bytes that change on
disk. The commands `runtimes install` and `runtimes gc` and the preflight of `serve` are `Workers`;
cold starts and the readiness check are `Resolvers`.

Abstractions: the quota counts generations instead of bytes; the directory of a bundle and its
`.lock` appear in one step, and so do the opening and the locking of a `.lease` nobody has locked; a cancelled
`ensure` that waits for its lock is `Fail`; a bundle of the old layout is `Legacy`, its bytes are not
modelled (the documentation asks to stop every daemon for that migration); generations carry the order of
modification of their directories (`newer`) instead of times.

### Pagination

Names are numbers in the order of the database. `Page` is a whole request: the bound on `MaxItems`,
the query for one row more than the page, the truncation and the marker. `Create` and `Delete` are
other clients; `kept` remembers who was there all along.

### Package

One revision: its `zip` is a sequence of entries, each with a path, a size, a kind, whether its mode
is read-only and whether its data is corrupt. `Accepted` is `validate_deployment_zip`, which reads the headers
only; `Deploy` is whatever it lets through. Then threads unpack: `Start` is `cold_start`; `MakeDirectory`, `Open`,
`Write` and `SetMode` are the statements of one turn of the loop of `unpack_code`, `Finish` is `provided_bootstrap`;
`Bail`, `Unreadable`, `Deny` and `WriteFails` are its early returns; `Cancel`, `Terminate` and `Crash` are a dropped
future, the end of the environment and of the daemon. `pc` and `pos` say where a thread is, `root` what each
path of the directory is (`torn` is a file being written), `locked` which files are read-only, `orphans` which
threads nobody waits for any more, `failures` why cold starts failed and whether one had succeeded before.

Abstractions: no two files of a package share a path, since the archive gives each name once; directories
are never read-only, since `set_mode` is only applied to files; a bootstrap that runs may be refused for
writing (`ETXTBSY`, `busy`) or not; `unpack_code` writes every entry as a file or a directory, so there
are no symbolic links. The removal of a directory by an invalidation is in `Invoker`.

### Publish

A publisher is a job of the current run of the workflow, named after its target, or a developer in
a checkout. Each has a `disk` of its own and an `index` that `--index` names; `registry` and `tag` are shared.
A digest is the artifact it stands for and a `tree_sha256` the tree, so equality of contents is equality of hashes.

| action | code |
|---|---|
| `Assemble`, `AssembleFails`, `AssembleOnce` | `assemble`, whole, cut short after any part, and the first of the two builds of a job |
| `ClearingFails` | the `remove_dir_all` it begins with, cut short: any part of the bundle before is left, with its `manifest.json` or without |
| `Check`, `Put`, `ReadBack`, `Save` | `publish::run`: the checks, the push, its digest read back through the tag, `load`, `upsert` and `save` |
| `SaveCut`, `PublishFails` | `fs::write` that truncated and failed; an error of the registry, before or after the push took effect |
| `Retry` | the loop of the publishing step; a developer is only told |
| `Trigger`, `UpdateIndex`, `SkipUpdate` | a run of the workflow begins, merges its fragments (`Merge`, `Mergeable` are the jq script) or gives up |
| `Review`, `ReviewByHand`, `Checkout` | people: a pull request merged, an entry reviewed by hand, a checkout brought up to date |

Abstractions: the disk is private, so an assembly is one step, and nobody changes a directory while
`xtask publish` reads it; all publishers share one registry; the comparison of two
builds has no other effect than that the second is published; only Node's native client may come out
different from build to build, since Python's comes in wheels fixed by hash; a developer has the directory of one
target at a time, and leaves it alone once the pushes of the run are used up (`MayPush`); git merges the index
entry by entry; reruns of failed jobs are left out.

## 3. Runs

| run | instance | states | shows |
|---|---|---|---|
| `control_plane` | 2 clients, 2 names, 2 packages, 2 revisions, 1 fault | 42 078 | the safety of the two tables, the bound on orphan blobs, the refinement of `FunctionStore` |
| `runtime_api` | 2 invocations | 61 228 | isolation of invocations, clean reuse, and that every invocation returns |
| `invoker` | 2 callers, 1 administrator, 1 name, 2 revisions, 3 environments, failures | 267 000 | exclusive use, right revision, final retirement |
| `serving` | 1 client, 1 caller, 1 name, 2 packages, 2 revisions, 2 environments, 1 restart | 315 788 | the refinement of `LambdaService`, the code a call runs, and that every call and request ends |
| `runtime_cache` | 1 bundle, 2 pins, 2 workers, 2 resolvers, 2 generations, one of which may rot, quota 1 | 627 263 | what is active and what is in use stays, under deaths and damage |
| `package` | packages of 2 entries over 3 paths, 2 threads | 589 371 | accepted packages are never refused, quiet directories are whole |
| `publish` | 2 jobs, 1 developer, 4 targets, 2 outcomes of a build, 2 attempts, 1 run, 1 push by hand | 322 494 | only whole bundles are pushed, pins lead where they say, fragments merge |
| `daemon` | 12 configurations, 3 names, pages of 1, `MaxItems` up to 2, clocks one unit apart, a window of one, a day of two, 1 fault | 165 108 | listings are complete, without repetition, and end; what is in time is accepted; what is accepted serves |

Why these bounds. The races of the control plane take two requests, one package both share and a second name
for the other reference; two revisions let a delete and a create come between the steps of an update. In the
executor, what one invocation leaves behind is seen by the next: two are enough. In the invoker three
environments are one in the registry, one retired and still waited for, and one that replaces it. In the
composition one client and one caller are enough for every order of the reads of a cold start and the writes
of a change, two revisions for a replaced one, and two environments for the old and the new; what two
callers do to one another is in `invoker`. Updates that name a revision nobody issued go on past the bound: the
cleanup of such an update collects the row and the blob of a replaced version between the reads of a cold
start, which is how `cold_start` comes to find neither. In the cache a generation has to be active, a second one cold or
being installed, and a collector, an installer and a resolver meet at each; pins are two so that upgrades
and rollbacks happen. Two entries of a package are a directory and what is in it, or a file in the way of
one, and two threads are a cold start and the one that a cancelled caller left behind. The developer
publishes a target of the matrix, so that its tag has two publishers, or one that is pinned and in no job, so that
its reviewed pin changes before, during and after a run and the pull request of the run rests on a stale one; two
attempts are a failure and its retry. Three names make listings of three pages, with names
created and deleted before, at and after the marker. A window of one, clocks one apart and one unit of delay
put requests on both sides of the edge of the window, and a day of two on both sides of midnight. Of the
configurations, two serve, two are accepted and cannot start (no credentials, a padded URL), and eight have
one mistake each.

Larger instances checked by hand, with no error: `RuntimeApi` with 3 requests (safety only, 588 960
states); `Invoker` with 2 names (914 931) or 2 administrators (1 558 965); `RuntimeCache` with two bundles, one worker and one resolver
(561 003) and with three generations and one resolver (2 103 774); `Serving` with two
callers: without a restart, its invariants and the refinement (3 300 503), with one, its invariants (8 499 612).

### Runs that end in a counterexample

Each checks one sentence of the repository that the code does not keep. The statements are quoted
in `findings`.

| run | what the trace shows |
|---|---|
| `remove_referenced` | an update is rejected and finds its package without a row; a create of that package commits; the update removes the blob |
| `lost_response` | the bootstrap answers and exits between the two halves of one turn of `select!`: it got 202, the caller gets an exit |
| `task_root_removed` | an invalidation retires an environment, another caller starts the same revision again, and the invalidation removes the directory it runs from |
| `stale_environment` | a caller that resolved the old revision registers it after the update has invalidated: it stays warm |

### Checked by hand

`QueueBound`, `NeverDropped` (`RuntimeApi`), `MarkerLeadsOn` (`Pagination`) and the `TypeOK` of every module
hold with the constants of their runs, and are proved below. `TasksEnd` (`Invoker`) holds with two callers,
one administrator, one name, one revision, two environments and `Faulty` (4 121 states): the locks by
themselves, with random failures; `EveryoneReturns` of `Serving` is the same for the whole of a request.

More definitions state what a text of the repository says, or what one would like to hold, and are in no run. TLC
finds each violated, or not, with a cfg of these constants:

| definition | constants | outcome |
|---|---|---|
| `BlobPresent` (`ControlPlane`) | those of `MCControlPlane.cfg` | violated: the consequence of `remove_referenced`; with one client it holds (`MaxRevisions = 3`, 9 629 states) |
| `DeployedCodeValid` (`ControlPlane`) | the same, `MaxFaults = 0` | violated: an update without `RevisionId` validates its package for a function that is deleted and created again as `provided.al2023` before it commits; with one client it holds |
| `OneColdStartPerRevision` (`Invoker`) | those of `MCTaskRoot.cfg` | violated: the write lock does not cover a restart under the mutex |
| `AcceptedStarts` (`Daemon`) | those of `MCDaemon.cfg` | violated: `zc-config/src/lib.rs:201` trims the URL of the database before it validates it, and `main.rs:219` connects to the untrimmed one, which is a path for SQLite |
| `ServesOnlyVerified` (`RuntimeCache`) | 1 pin, 1 worker, 2 resolvers, `MaxGen = 1`, `Rot = {1}` | violated: verified paths are remembered for ever, as `resolve.rs` itself says |
| `EveryLiveIsKept` (`RuntimeCache`) | those of `MCRuntimeCache.cfg` | violated against `resolve.rs:32` ("GC no puede borrar esta generación"): a resolver begins before the first `.lock` of its bundle (`resolve.rs:112`), reads the link to the first generation, and a second one replaces it; a collector locks the `.lease` and unlinks it, and the resolver makes another in a directory that is being removed (`ResolveOpen`, ..., `ReadLink`, `Activate`, `GcLockFamily`, `GcDelete`, `GcUnlink`, `TakeLease`) |
| `OldestFirst` (`RuntimeCache`) | 3 pins, 1 worker, 1 resolver, `MaxGen = 3`, `MaxKept = 2`, `Rot = {}` | violated against `gc.rs:23`: the scan creates a `.lease` in every generation, so that directories look modified just now and a newer one is collected first |
| `StartsAgain` (`Package`) | those of `MCPackage.cfg` | violated: a package with a read-only file starts once, and the next unpacking into the same directory is denied (`Deploy`, `Start`, `Open`, `Write`, `SetMode`, `Finish`, `Start`, `Deny`) |
| `PinsAlwaysInstallable` (`Publish`) | those of `MCPublish.cfg` | violated against `oci.rs:124-125`: two publishers of one tag push, and the first reads back the digest of the second |

### Fairness

- `RuntimeApi`: weak fairness of the invocation's own steps and of the clocks. Tokio polls a task that has
  been woken and timers fire; nothing is assumed of the bootstrap.
- `Invoker`: strong fairness of each task's own steps. Tokio's `RwLock` and `Mutex` are FIFO queues, so a
  task that waits for one is not overtaken for ever, and the scheduler polls what is ready. That a run ends
  is fair to assume: it is `InvokeReturns` of `RuntimeApi`.
- `Serving`: strong fairness of each caller and of each client that has begun a request, for the same
  reasons; nobody has to begin a request, and nobody restarts the daemon.
- `Daemon`: weak fairness of the steps of a start and of a request, which tokio polls, and of the client,
  which signs again after an error and follows the markers; strong fairness of a start with a configuration
  that is usable: somebody who starts the daemon with another one corrects it in the end. Its clock and the
  network owe nothing. The clocks of the run are within the window of one another: a client whose clock is
  not will not get in.
- `Pagination`, by itself: weak fairness of the client, which follows the markers; the server has no say.
- `ControlPlane`, `RuntimeCache`, `Package` and `Publish` have none and no liveness property: `flock`
  promises no order among those who wait, nothing in the code bounds a download, and people merge when they
  like.

`CHECK_DEADLOCK` is on everywhere; `Wait` is the quiet system that waits for a request.

## 4. Proofs

Everything below is proved by tlapm for every value of the constants, from the named assumptions of
the modules: the special values (`NoFunction`, `NoRequest`, `Nobody`) are outside the sets they complement,
disjoint sets of tasks, bounds that are natural numbers.
`PaginationAssumption` also asks for a page of at least one function, which the code's constants are, and
`ServingAssumption` for finitely many clients, and for a name that is no pair of a name and a revision, since
`Invoker` keeps both in `key`. The MC modules EXTEND the modules that state these assumptions, so TLC evaluates
them on the constants of every run.

**ControlPlane.** `TypeCorrect`; then an inductive invariant: artifact ids are unique and issued
(`RowsUnique`), revisions too (`RevisionsUnique`), and a revision an accepted update consumed is at
most the last one and current nowhere (`ConsumedRevisionsDead`). The last is what makes optimistic concurrency work: a
`RevisionId` that was accepted once can never match again, also after a delete and a create.
From it `ReferencesHold`, `OptimisticConcurrency`. `ImplementsStore` is the refinement: every step
is a step of `FunctionStore` or changes nothing it sees (`CreateStored`, `UpdateStored`, `DeleteStored`,
`NothingStored`); the one delicate point is that collecting an artifact row moves no `Deployed` function, because the
row it deletes is referenced by none. The lemmas are about `Operation`, which is `Next` without its bounds, so
that `Serving` can use them too.
`ConditionalUpdatesFit` needs one part more, `UpdatesValid`: an update in flight that names a revision was validated for
whatever function still has it; that a revision never comes back makes the row it commits to the row it read.
`DetailsFailWhenStale` is an action property of the same invariant. `OrphansBounded` counts: `Forgotten` is
the set of blobs without a row that no request in flight will commit or clean up, `OrphansCounted` says that it is
never larger than the number of requests cut short, and `ForgottenGrows` that only cutting one short adds
to it, one blob at most. When nobody is in flight every orphan is forgotten.

**RuntimeApi.** `Inductive` proves five parts together: types; `EventPlaces`, that the event of an
invocation the process has not received is in the channel, in a handler or delivered, and in one place only;
`Answers`, that a reply or an accepted response belongs to the event that is or was in flight; `Fresh`, that
an event not yet invoked is nowhere; `Marks`, that an environment without a running invocation is either
clean or marked for reset with its process gone. `OwnAnswers`, `CleanReuse`, `HandlersHaveCallers`,
`NothingQueuesOrDrops` follow.

**Invoker.** The invariant says what each task holds at each point (`Threads`), that a lock is held
by the task that says so and by no other (`Locks`), that what is held is alive (`Held`), that what an
invalidation took out is no longer registered (`Swept`), and which states of an environment go with
which (`Status`). `Exclusive`, `RunsWhatItResolved`, `RegistryHoldsLive` are read off it;
`RetirementIsFinal` is an action property from the same invariant.

**RuntimeCache.** The invariant has one part per file lock and phase: `Locks` (exclusive and shared holders
exclude each other), `Disk` (generations, staging and links are where their owner says),
`Installing`, `Staging`, `Collecteds` (what a collector is deleting is active nowhere, and of a bundle it has locked).
With it go the safety properties themselves, `ActiveIsComplete` and `OneGenerationPerPin`, which are needed to prove one
another. A resolver disturbs none of it (`ResolverMoves`, `MovesKeep`).
`LeasesHold` is a second layer, `Readers`: who found a `.lock` shares it from the reading of the link to the end of the
verification, and has a generation that is kept as long as its lease is wanted. The interesting step is `GcDelete`: it
holds the `.lock` of the bundle, so nobody who shares one is between reading a link and taking a lease, and `TryLock`
rules out those who already hold one, whose `.lease` was never unlinked (`lost` are only resolvers in `bare`). Those in
`bare` are the exception: `EveryLiveIsKept`, of the table above, does not hold.
`LinksFollowPins` is an action property: only who holds the `.lock` of a bundle moves its link, and only to a
generation of the pin it was asked for. `ReportsHold` needs `Measured`: while a collector deletes, what it has measured
is the number of generations in the bundles it has locked, and one more while it is deleting one. Every other
step is shown to stand aside: it neither adds nor removes a generation of a bundle somebody else has locked.

**Serving.** `ServingProofs` EXTENDS `ControlPlaneProofs` and instantiates `InvokerProofs` (`IP`), so that the two
invariants are used and not proved again. `InvokerStep` and `ControlPlaneStep` say that every step of the daemon other
than `Restart` is a step of each part or leaves it alone: a call that is refused is an `Invoker` that gives up, hence `IP`
has `Faulty <- TRUE`, which allows a superset of the steps of `Serving`. `Restart`, which is a step of neither, is shown to
keep both invariants (`Parts`). On top of them,
`Calls` says what a call knows: its revision and artifact were issued, the artifact row with that id, if there is one, is
that of its package, and a function that still has its revision still has its artifact. `Cold` says what its
cold start has found so far, `Loaded` which processes were started from a package, and `OneCode` that one
revision stands for one package wherever it is known: in the table, in the calls that resolved it, in the
processes started for it. `RunsItsVersion` is read off it: a call runs in an environment of its own revision, so in its
own package. `Restart` and a caller that finds a process that someone else started are the cases a test would hardly reach.

`DaemonImplementsService` needs three parts more, about undisturbed calls: `OwnKeys` (an invalidation works on
environments of the function it changes), `Unpackings` (a thread unpacks for a caller that waits for it, and where
the directory was removed, that caller is disturbed) and `Rests` (a call in `steady` is at rest and not in a retired
environment). The steps map one kind at a time. `ClientServed`: commits are steps of `FunctionStore` by the lemmas of
`ControlPlaneProofs`, and to apply a change is a step that only the calls of its function notice. `CallerServed`:
a call runs once, in its own version, or ends; `SteadyIsServed` is the heart, that no undisturbed call is
refused by any `?` of its cold start or finds its environment retired. `ResolveServed`: a call begins with the
version that is deployed at that moment. `RestartServed`: who was waiting is told nothing, and what was deployed stays deployed.

**Pagination** (in `DaemonProofs`). A page is the first `limit` names after the marker: `TruncatedKeepsFirst`,
`TruncatedLeavesMore` and `ShortMeansAll` say so of the row that is read in excess. `FirstName` (a set of numbers
has a least element) comes from the well-foundedness of `<`. The invariant is that everything kept
up to the marker has been listed.

**Daemon.** Every step of the daemon is a step of `Pagination` or leaves a listing alone (`StepsOfListing`),
so the invariant of `Pagination` carries over (`DaemonListings`, `DaemonListsOnce`, `DaemonListsAll`). That
needs an invariant about the request under way (`RequestInOrder`): one that was accepted asks for the page
of the client's own marker, because a query has one set of parameters (`ItemsOfQuery`, `MarkerOfQuery`) and
every spelling of it is read as that set (`CanonicalOfSpelling`). `RefusesOnlyLate` is arithmetic on the two
clocks, for every window and every length of a day. `StartsSucceed` says that the rules of
`Config::validate` imply those of `build_app`.

**Package.** `Kinds` says that every entry some thread has reached, or any entry once the revision has been
started, is in its place: directories are directories, files are files. Nothing ever changes the kind of a
path that is there, so an unpacking over an older one never finds the wrong kind in its way. `Deployed`
carries `Accepted` along, from which `NothingRefused` follows, since both walks add up the same sizes.
`Contents` says that a file a thread has passed is whole or is being written by somebody, unless a write
failed half way; when nobody unpacks, and a live environment has passed everything, every file is whole,
which is `RootIsWhole`. `Unlocked` says that without read-only entries nothing becomes read-only, and gives
`RestartsWhenWritable`.

**Publish.** A manifest describes a whole tree wherever there is one, also over a tree that has lost a part (`Disks`), so a
directory that verifies is whole: that is why `Check` is enough for `OnlyWholeIsPushed`. `Ready`, `Reading` and `Saving` follow a publication from its checks to its entry: what
was verified is what is pushed, and between push and pin the tag leads to that very bundle, unless it is in `raced`.
That needs that different targets have different references (`RefInjective`). `Pins` is `PinsInstallable`, index by
index; `Fragments` (a job's index holds its own target and nothing else) gives `MergesPass`, and `Requests` (a
pull request differs from its base only in the matrix) `ForeignPinsStay`.

Every safety and action property of the passing runs, and both refinements to a specification of a
component (`Refinement`, `ImplementsService`), are theorems. Only model-checked: the liveness properties
(`InvokeReturns`, `EveryoneReturns`, `ListingEnds`), since the prover knows neither fairness nor ENABLED, and the bounds of
the runs themselves. What the theorems take from the models without proof is what any model takes: that an action is
what the code does between two awaits, as `map` says, and the definitions marked external.

## 5. What is not modelled

- The parsers: headers of SigV4, ARNs and qualified names, bodies, TOML. They are functions of one input,
  tested with known answers, and what they refuse changes nothing. The HMAC is a record of what it covers.
- zc-telemetry: a relaxed counter that is printed and never read, and the set-up of the log. executor-core
  has no code.
- The liveness and metrics endpoints and the `spike` command. (The readiness check is a `Resolver` of
  `RuntimeCache`.)
- The temporary files, the fsyncs and the health probe of the artifact store; power failures.
- Runs of the workflow on pull requests (they compare, and publish nothing), reruns of failed jobs,
  `ci.yml`.
- Host processes, signals and memory limits: `terminate` always succeeds in `RuntimeApi`, and may fail in
  `Invoker` (`Abort`).

## 6. Plan

1. (done) `ControlPlane` over `FunctionStore`, `RuntimeApi`, `Invoker`, `RuntimeCache`, `Pagination`,
   `Package`, `Publish`: runs, inductive invariants and theorems.
2. (done) The composition `Serving` over `LambdaService`: an invocation whose row or blob goes between its reads, and
   restarts. `Daemon`: configuration, start, SigV4, listings through restarts and a faulty network.
3. (done) The composition proved: `RunsResolvedCode` and the refinement `ImplementsService` of `Serving`;
   `ConditionalUpdateValidated`, `DetailsFailsOnlyWhenStale`, `ActivatesRequestedPin`, and the two that count,
   `OrphanBound` and `ReportIsExact`. With this all properties of the runs but the liveness ones are theorems.
4. Left for a model, if the code grows there: an abstract cache (a map from bundles to generations and the set in
   use) that `RuntimeCache` implements; the temporary files of the artifact store.
