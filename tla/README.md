# A TLA+ model of the S4 gateway

S4 (the Maskura gateway) is an S3-compatible gateway: clients speak S3 to it, it
transforms objects on the way through (redaction plugins, record formats) and
stores them at an S3 provider, either the customer's own bucket or storage that
the service manages and replicates. This directory holds TLA+ models of the
parts of it in which the order of events matters, the TLC configurations that
check them on small instances, and theorems about them with proofs checked by
TLAPS. `PROJECT.json` lists components, runs, mutants, the map from definitions
to source lines, findings, hazards and theorems.

Paths below are relative to `crates/gateway/src` unless they say otherwise.

## Inventory

| Component | State | Operations | What is hard |
|---|---|---|---|
| Operation journal (`transaction/mod.rs`, `transaction/journal.rs`) | one row per write: state, upload id, lease, mutation window, first absence observation, committed version | insert, set_open, set_expected, transition, record launch, confirm absence, claim | several writers; some updates are read-then-write; the claim is not checked by `transition` |
| Direct S3 sink (`transaction/s3.rs`) | buffer, upload id, parts, local copy of the state | write, verify, complete, abort, drop | provider calls that time out and take effect later, retries, redundant versions |
| Reconciler (`transaction/mod.rs`, `server.rs`) | claim on a row | request-bound pass, periodic pass, settlement | runs beside a live sink and beside other reconcilers |
| Workspace routing lease (`workspace_storage.rs`, `server.rs`) | holder token, expiry, settlement | assert, heartbeat, recover, release | takeover of a paused holder, crash before settlement |
| Streaming request path (`server.rs`, `pipeline.rs`, `object.rs`) | sink, reservation, plugin state | begin, stream, complete, abort | client disconnects at any await |
| Multipart staging (`multipart_staging.rs`) | upload rows, part rows, staged artifacts, quotas, completion lease, artifact outbox | create, replace/begin/commit part, acquire/renew/complete, abort, reap, cleanup | completion against abort and expiry, artifact referenced and queued for deletion, quota leaks |
| Managed object authority (`managed.rs`) | object versions, placements, tombstones, repair queue | publish, advance, tombstone, claim/renew/complete/fail repair | lost updates, repair of a superseded version, lease tokens |
| Logical operations and usage (`managed.rs`) | logical operation rows, workspace usage | insert, reserve, record usage, commit, prove abort | usage counted twice or leaked over retries |
| Namespace purge and physical intents (`managed.rs`, `service_storage.rs`) | namespace state, physical write intents | begin, commit, abort, block, purge, finalize | a late physical write after the purge |
| Managed sink and repair worker (`service_storage.rs`) | primary and replica sinks | write, complete, repair | partial replica failure |
| Spool and read spool (`transaction/spool.rs`, `read_spool.rs`) | quota counters, encrypted files | reserve, append, finish, drop | quota leak on failure |
| Plugin registry and Wasm runtime (`plugin_registry.rs`, `crates/wasm-runtime`) | registry snapshot, worker slots | register, invoke, deadline | invocation against replacement, slot leak |
| Record formats (`record.rs`, `format.rs`, `binary_*.rs`, `avro.rs`) | decoder buffers | push, finish | result must not depend on chunk boundaries |
| Key store (`store.rs`, `key_cipher.rs`) | key map, file snapshot | create, rotate, revoke, persist | snapshot order against memory |
| Signature, integrity, policy, headers, errors | none | pure functions | byte-level parsing |
| Control API, `s4ctl`, `s4-mcp` | none of their own | thin clients | - |

Components talk through the database (journal, staging, authority and routing
tables), through the provider (whose effects may come late), through the control
plane (reservations by operation id) and, within a process, through the abort
signal channel from a dropped sink to its reconciler, the spool's byte quota, the
plugin cache and the executor's memory budget.

## Plan

Done, in this order: the journaled direct write (`DirectWrite` over
`OperationJournal`, refined from `AtomicWrite`); staged multipart uploads
(`StagedParts`, `StagedCompletion`); managed storage (`ManagedWrites`,
`ManagedRepair`, `ManagedPurge`, refined from `ManagedContract`); the request path
(`RequestGate`, `ReadPath`, `MutationPath`, composed in `FrontDoor`), credentials,
routing, listings, completion billing, plugins and the executor; the two
algorithms over a stream (`RecordDecoder`, `BodyVerifier`) and the typed pump.

Proved: typing and the abort proof of the direct write, agreement of answers, and
that it implements `AtomicWrite`; the safety invariants of the staged uploads and
their counters; the ledger, the purges, the uploads, the usage and the order of the
authority rows of managed storage; credentials, routing, completion billing,
requests, the plugin cache, the fuel of a pipeline and the memory of its sessions, as
parts of the composed gateway.

Left:

1. The step part of the refinement of managed storage.
2. Composition of two writers of one key (discovery by key may abort a rival's
   upload), and of the managed sink over `DirectWrite` itself in place of
   `AtomicWrite`'s outcome.

## Modules

| Module | Contents |
|---|---|
| `OperationJournal` | the row and what each journal statement does to it, as operators on rows |
| `DirectWrite` | sink, reconcilers, routing lease, provider and clock; properties |
| `AtomicWrite` | abstract specification: an outcome and whether the object exists |
| `DirectWriteInvariant` | the inductive invariant |
| `DirectWriteProofs` | theorems and proofs |
| `MCDirectWrite` | the instance for TLC |
| `StagedParts` | upload rows, part attempts, quotas, staged objects, cleaners |
| `StagedCompletion` | EXTENDS `StagedParts` with completion workers, lease and destination; properties |
| `StagedCompletionInvariant` | the inductive invariant |
| `StagedCompletionProofs` | proofs about the steps of the one and of the other; theorems |
| `MCStagedCompletion` | the instance for TLC |
| `ManagedRecords` | rows of the object authority and what the repository computes from them |
| `ManagedWrites` | namespace, logical operations, usage, authority, intents and ledger; a managed PUT or DELETE |
| `ManagedRepair` | EXTENDS it with repair workers, the placement reconciler and read repairs |
| `ManagedPurge` | EXTENDS that with the namespace purge and multipart registrations; properties |
| `ManagedContract` | abstract specification: the repository behind one lock |
| `MCManaged` | placements for TLC, and the refinement mapping |
| `ManagedProofs` | theorems about `ManagedPurge`, and so about the two below it |
| `PlacementProofs` | EXTENDS it with the theorem about ready copies |
| `RequestGate` | authorization, reservation, and what becomes of it |
| `ReadPath` | GET and HEAD, transformed reads (direct, spooled, Avro), spool quota and cleaner |
| `MutationPath` | PUT, DELETE, multipart calls and LIST: which outcome does what to the reservation |
| `FrontDoor` | composes the three; crashes; properties of requests |
| `CompletionBilling` | retries of a multipart completion that share a reservation |
| `BackendRouting` | configuration, admission, switch and recovery of a workspace's backend |
| `KeyStore`, `Authentication` | credential repositories; requests that authenticate against them |
| `Listing`, `ListCursors` | pages over three backends; the managed list's cursors |
| `PluginRegistry` | catalog, compile cache, snapshots |
| `PipelineRun` | one object through its plugins: limits and fuel |
| `WasmExecutor` | admission, queue, workers and streaming sessions |
| `BinaryPump` | one Avro object: plan, reduce, replace, restore |
| `RecordDecoder` | the record splitter over frames |
| `BodyVerifier` | the verifier of a request's body over frames |
| `Totals` | lemmas about sums over finite sets of rows |
| `ExecutionProofs` | theorems about `PluginRegistry`, `PipelineRun`, `WasmExecutor` |
| `RequestProofs` | theorems about `Authentication`, `BackendRouting`, `CompletionBilling`, `FrontDoor` |
| `MCGateway`, `MCProgress` | instances for TLC of everything from `RequestGate` on; the theorems of the parts, as theorems of `MCGateway` |

### DirectWrite and the code

The actors are the request's sink (`DirectS3Sink` inside `WorkspaceLeasedSink`),
the reconciler spawned with the request (it acts only on the sink's abort
signal) and any number of periodic reconcilers
(`reconcile_workspace_streaming_operation`). `work[a]` is the call stack of an
actor: its program counter and the locals that survive an await. Each action
covers the code between two accesses to shared state, so a read-then-update in
the journal is two actions (`SinkLaunch`/`SinkRecordLaunch`,
`ConfirmRead`/`ConfirmWrite`, `ClaimRead`/`ClaimWrite`), and a provider call is
two or three: the call (`Send`), its effect (`Land`) and the reply.

* `row` is the journal row. Instants are kept as ticks left, so the state space
  is finite; `history` is `version_history_complete`.
* `route` is the routing lease: who holds the current token, ticks left and the
  settled outcome. `recover` hands it to one periodic reconciler; sink and
  request reconciler share the request's token, as in the code.
* `flights` are sent provider calls. A call takes effect at most once, within
  `FlightTime` ticks of being sent, whether its caller still waits or not, or
  never. Timeout, 5xx, throttling and lost reply are `AmbiguousReply`; a 4xx is
  `SinkRejected`.
* `versions` are the object versions carrying this operation's id; `full` says
  whether they carry digest and size (a completed upload gets them only by the
  metadata rewrite). `upload` is the operation's multipart upload.
* `Fail` is any failing statement, observation or evidence insert; `SinkDrop` is
  the client's disconnect or the death of the process.

Abstractions: part bodies and digests (a part only moves the window), the
evidence log (never read), the `stale_before` filter of claims (a claim is
possible at once, which allows more than the code), several journal rows (rows
do not interact except through discovery by key, see the hazards), pagination.
The metadata rewrite of a completed upload (`transaction/s3.rs:168-325`: create,
`upload_part_copy` for each part, complete, or one copy) is one call, `Rewrite`: only
its last call creates a version, and an upload it leaves behind is not followed.
`SinkVerify` is `set_expected` together with the fence's assertion, between which no
provider call is made. The sink of the deployment-wide backend without a routing lease
(`server.rs:3221`, `4946`) writes through the same journal without the fence and is not
modelled by itself.
A transition that takes effect but is reported as failed is modelled for
OPEN, COMPLETING and COMMITTED, where the code goes on; elsewhere the report
only ends the pass, as `Fail` does in the next state.

### Timing assumptions

`DirectWriteAssumption` keeps what the constants of the code guarantee:
`Stall + FlightTime < Window` (60 s provider timeout inside the 75 s ambiguity
window) and `Window < RouteLease` (75 s inside 120 s). `Urgent` states two
things the code relies on and does not enforce: a launch is recorded and sent
within `Stall` of computing its window, and the absence observation's row is
read in the tick in which `observed_at_ms` was taken. With `Pauses = FALSE` the
heartbeat of a running holder is on time.

### StagedParts, StagedCompletion and the code

A client multipart upload is staged: each part is encrypted, copied to a staging
store and recorded, and only CompleteMultipartUpload transforms the parts and
writes the destination. The state is the tables (`upload`, `attempt`, `quota`),
the staging store (`artifact`) and what is in progress: `request` and `maker`
are the UploadPart and CreateMultipartUpload handlers, `worker` the completion
handlers. A key names one UploadPart request, its attempt row and its object,
because the code makes a fresh artifact key per attempt.

* A transaction of `PostgresMultipartRepository` is one action: it locks the
  upload row and the rows it changes, and a deadlock fails it. What the code does in two statements is two
  actions: the count and the insertion of `create`, the selection and the update
  of `reap_expired`, the count and the deletion of `retire_terminal_uploads`,
  renewal and check of the lease.
* `doomed` and `deleted` are the keys some cleaner (part replacement, abort,
  completion, expiry, sweep) has listed, and those whose object it has deleted
  and whose row it has not. A cleaner that dies is `CleanupFails`.
* The orphan scan reads the keys of all rows (`ReadKnown`, `server.rs:5355`), then lists
  the store (`ListOrphans`, `5360`), and deletes what it found one by one; rows and
  objects come and go in between, and it may fail anywhere (`ScanFails`). `scan` is what
  it carries from the read to the listing, `orphans` what it has still to delete. What
  the grace gives: an object that was not in the store at the read cannot be older than
  the grace at the listing (`fresh`), because the instant it is compared with is taken
  when the rows have arrived.
* Instants are flags that only time raises: `expired`, `buried`
  (`tombstone_until_ms`), `old` and `aged` (the five minutes of
  `RECONCILIATION_GRACE`), and the lease, which lapses. A request may outlast the
  grace.
* A worker renews, checks and then acts (`fence` is no, renewed, yes), and may be
  paused anywhere in between. `dest` is the destination operation as
  `AtomicWrite` presents it: settled once, as committed or aborted, with an
  ambiguous commit settled later by reconciliation (`ResolveDest`). Its id is
  derived from upload and request, so there is one per upload.

Abstractions: part numbers, digests and sizes are small sets; a request is its
selection of parts and digests; attempt numbers, audit rows, encryption and the
local temporary files are left out; the in-memory repository is for tests;
`replace_part` has no caller outside tests. A completion to the managed or the
in-memory backend, which have no operation journal row, is not covered.

### Managed storage and the code

The state is the tables of `PostgresManagedRepository` (`ns`, `ops`, `usage`,
`auth`, `repairs`, `intents`, `ledger`, `purges`, `activity`), the providers
(`prov`), the journal rows of physical writes (`child`) and what is in progress:
`put` are requests, `worker` repair workers, `survey` the placement reconciler or
a read that enqueues repairs, `driver` whoever advances a purge, `creator` the
handlers that create multipart uploads. A generation is named by the operation
that writes it.

* A repository method is one transaction that locks the rows it decides on, and
  one action. Two are not: `claim_repairs` selects its candidates outside the
  transaction that leases them (`SelectCandidate`, `ClaimRepair`), and
  `finalize_purge_if_ready` locks the purge row alone and reads the rest query by
  query, each of which sees what was committed by then: `ReadIntents`, `ReadTargets`,
  the four counts (`FinalizeCounts`, `driver.counted` says which; `FinalizeBlocked` when
  one finds something), and after the last `FinalizeComplete` with the deletes.
* A request that gives up its child moves the journal row to ABORTING (`AbortChild`),
  calls the provider and closes the row (`AbortAtProvider`, which may fail and then
  leaves the row ABORTING with its intent), and withdraws the intent
  (`WithdrawIntent`). A copy has an intent (`BeginCopy`) before it has a journal row
  (`BeginCopyJournal`); in between its worker may stop (`BeginCopyFails`).
* A child write is `AtomicWrite`'s outcome: it ends COMMITTED with its versions at
  the provider or PROVEN_ABORTED with none; `ReconcileChild` is the journal's
  reconciler.
* Leases are flags that time lowers (`ExpireIntent`, `ExpireRepairLease`); what a
  holder does after that is up to the checks of the code. Faults (crashes, failed
  and ambiguous calls, lost leases) are counted and bounded.

`ManagedContract` is `InMemoryManagedRepository`, one action per method.
`MCManaged` maps the tables to it by forgetting leases, attempts and purge marks. A
worker completes a repair with the row it was given at its claim, and the claim gives it
the row as it was selected (`managed.rs:4548`): the contract lets a client present any
row, as both repositories do, and refuses or accepts it by the authority. In
`managed_repair`, which checks the refinement, two workers claim, lose their leases to
each other and complete with rows that are out of date; the methods of purges and of
multipart registrations are not called there.

### Requests and the code

A request of `FrontDoor` is the future of its handler; its phase names the await
it is at, and the client may go away there (`MaxCancels`), the control plane or
the backend may fail (`MaxFaults`), the process may die (`MaxCrashes`).
`reservation[r]` is what the control plane knows: held, recorded or released.
`object` is the version of the stored object, which others overwrite. A
transformed read has a worker (`stream`) and, when a component is not
prefix-safe, a `spool` file against a shared quota; settlement is retried
`SettlementAttempts` times while the end of the body is withheld.

A spool reserves its space (`ReserveSpool`, `read_spool.rs:57`) and then waits twice for
the file system before the value exists whose drop returns the reservation (`78`); the
creation is `CreateSpool`. A request that is dropped in between has taken space that
nothing gives back while the process runs: it is `Stranded`, and the quota's properties
say so. A reservation is thus returned on every path but that one.

`Authentication` gives every repository call of a request a step, because the
credential may be deleted or its envelope rewrapped in between; the snapshot file
is replaced by a rename, and memory is rolled back when that fails.
`BackendRouting` separates resolution, admission, provider call and recovery. A call is
sent under the fence (`fenced`, `transaction/s3.rs:89-110`) and lands later, whatever has
become of the write, its lease and the configuration (`calls`, `CallLands`); a call may
also never land.
`CompletionBilling` has the requests that retry one completion over a journaled
write. `WasmExecutor` has the three parties of a session: the request, the
blocking thread that waits for admission and result, and the worker thread with
the guest. A filter has the blocking bindings of WASI's clocks and polls
(`crates/wasm-runtime/src/lib.rs:885`, `896`): while it waits in one (`HostPoll`) it burns
no fuel and meets no epoch, and the wait need not end (`PollReturns` is not fair). `PluginRegistry` separates lookup, compilation and insertion; the loop of
`evict_unreferenced_engines` is `EvictUnreferenced`, a recursive function of its rounds
with at most one round for each entry, each of which is `EvictOne`. Entries whose
engine is gone are not in the order, so the loop's test for them is left out.

`RecordDecoder` and `BodyVerifier` consume their input in frames cut anywhere,
and compare with a definition on the whole text (`RecordsOf`, the payload the
client signed). Hashes and signatures are terms that only the client can make.
`BinaryPump` runs every schema, value, target list and claim set of the instance
through plan, reduction, replacement and restore.

## Runs

| Run | Shows |
|---|---|
| `exact_write` | abort is a proof of absence, answers agree, the invariant of the proofs; exact version recovery, two attempts, late deletes, pauses, `Stall = 1` |
| `plain_write` | no version recovery, occupied key, provider that rejects a second abort: the committed version survives, refinement of `AtomicWrite` |
| `settled_write` | exact recovery, an injected failure, deletes not late, holders not paused: every operation ends terminal with a settled route, and the committed version survives the deletes that sink and reconcilers make of what each calls redundant |
| `staged_replace` | two requests for one part or for two, a quota that does not fit both at their largest, cleaners with old lists, a scan between its read of the rows and its listing: limits hold, counters equal the sums over the rows, acknowledged parts stay unless their request outlasted the grace |
| `staged_takeover` | two workers, three acquisitions: results are the object's, the object is what the stored request names, abandoned uploads are not written |
| `staged_retire` | liveness: terminal uploads are deleted with what they staged, orphans removed |
| `managed_repair` | two workers, a placement that moves, one fault: ready copies are there, versions are ledgered or intended, placements go forward, repairs and intents drain, every transaction is a call of the repository behind one lock |
| `managed_purge` | two requests, an upload creation, a purge, one fault, no repair workers: quota rows are exact and cover the objects, a completed purge has erased the namespace, an upload a client knows of stays usable |
| `gateway` | twelve parts side by side, with the properties listed in `MCGateway` |
| `progress` | liveness of executor sessions and of requests |
| `swept_parts`, `cursor_successor` | the findings below |

`MCGateway` and `MCProgress` check parts that share no state in memory: an
initial state picks a part and only that part moves, so a run is the union of the
parts' state spaces and not their product. The instances take turns at the
variables `v1` to `v12`. Each property names its part. The modules' type invariants
(`KeyTypeOK`, `GateTypeOK`, `ReadTypeOK`, `ManagedTypeOK`) hold in the same instances. `Symmetry` permutes the two
readers of the part `readers`; nothing else mentions them.

Bounds of the direct writes: one tick each for `FlightTime`, `Separation` and
`JournalLease`, a window of two or three and a routing lease of three or four: the
smallest values in which a call can outlive its caller, a claim can expire under a
running reconciler, and a route can be taken over before or after a window ends.
Two attempts (the code makes three) give an ambiguous attempt followed by a
different one; three versions are the most that two attempts and a rewrite
create. The clock never stops, so deadlock is checked in every run of `DirectWrite`.

For the staged uploads one upload id and two requests are enough for a part to be
replaced while cleaners still hold lists of the time before, and for the second
reservation to meet the limit of two; sizes 0, 1 and 2 make the committed size differ
from the reservation, and two parts keep a replacement apart from a neighbour. The
steps of the orphan scan make a third request too much for one run (1.8 million
states with two). `MaxToken` bounds acquisitions: three give two takeovers. The
theorems cover any number of uploads, tenants, parts and workers. An instance
ends when its upload id is deleted, so these runs do not check deadlock.

Managed storage: one key and two backends. `managed_repair` writes one object with
a replica and then moves its primary to the other backend without one, so that
copy, move and cleanup of the same generation meet; two workers and one fault make
one take over from the other. `managed_purge` has two operations, because the
second may be admitted before the fence or after it. The bounds of the contract
(`MaxCas`, `MaxToken`, `MaxEpochs`) are above what `managed_repair` reaches. Epochs and CAS
versions are bounded by the operations. Requests end, so deadlock is not checked.

Gateway: one request takes every operation with two faults, a cancellation and a
crash; two readers meet at a quota that fits one spool. The cache fits two of
three components. Fuel, sizes and limits are set so that each limit is reached by
some run and not by another. Texts are all those of up to 4 or 5 letters over the
alphabets that decide something, with a record limit of 3. Chunkings have up to
two chunks, and frames of 1, 5 or all tokens; an arrival may lose, repeat or change a run.
Six keys with common prefixes, delimiters of no, one and two characters and pages of 0,
1 and 2 cover a delimiter that collapses across a page's end. Two retries and three
completions share one reservation. Two clients replay one cursor in
`cursor_successor`.

Fairness (`settled_write`): the clock runs, a request ends
(server timeouts drop its sink), the periodic pass runs again and again, running
holders renew, and the provider does not lose every call a reconciler waits for
(strong fairness of landing). No fairness is assumed of the sink's progress, of
its calls or of failures. `settled_write` also assumes that the bucket expires
incomplete uploads; `UnknownUploadCleanedUp` below shows that without it nothing does.

Fairness (`staged_retire`): time passes, the
60 s worker comes back to every upload and key, a request ends, a copy lands or
is lost. Deletions are strongly fair: a cleaner that tries again and again
succeeds in the end. Nothing is assumed of the client or of a completion worker.

Fairness (`managed_repair`): the loops of a live gateway poll (repairs every
interval, expired intents), a request that is not dead goes on, leases of those
who are gone run out. All of it is weak; faults are bounded and not fair.

Fairness (`progress`): runtime tasks, blocking threads, workers, the deadline
timer and the watchdog are scheduled (weak). A guest's own step is strongly fair: a
guest whose host calls return ends its call, since each turn of it burns fuel and, once
it is stopped, the epoch's callback meets it between two polls. That a host call returns
is not assumed, so `MemoryComesBack` has two outcomes: the memory comes back again and
again, or that session's guest waits in the host from some moment on. `docs/security.md`
(204-207, 478-480) promises deadlines and cancellation tokens that interrupt active guest
calls; for a guest in a blocking poll nothing does. A request may leave its session open
for ever; a client may go away at any await. That a client reads the body it is
sent or goes away is assumed: the handlers leave it to the HTTP server.

### Findings

`swept_parts`: the sweep also lists the current parts of an upload that is
COMPLETING and deletes them before the completion has read them.

`cursor_successor`: `managed.rs:1003` says that concurrent uses of a cursor converge on
one successor row. In the database the successor is inserted and then linked by an
update of `predecessor_cursor_id` (`managed.rs:3882`), and the trigger
`managed_cursor_payload_immutable` (migration 20260901000003, line 239) refuses every
update of that column, so a cursor of the database repository never gets a successor.

### Further counterexamples

More properties are stated in the modules and refuted by TLC; they are not among
the regular runs. Those with a configuration of their own:

* `LateDelete.cfg`, `CommittedVersionSurvives`: sink and reconciler may keep
  different versions, and a delete that times out may remove the one the other
  actor committed. With `Exact` and `Pauses` a resumed sink may do the same without
  any late call, because its journal transition is not fenced by the routing lease.
* `LateUpload.cfg`, `AbortLeavesNoUpload`: a timed-out create-multipart takes
  effect after the abort has listed the uploads; PROVEN_ABORTED then leaves an
  open upload (`docs/security.md:355`: the destination upload is cleaned up).
  With `CompleteHistoryIsComplete` in its place: the enumeration behind
  `version_history_complete` is a reading of one moment; a late PUT of an earlier
  attempt adds a version.
* `SlowUpload.cfg`, `CurrentPartStored`: a part whose request outlasts the grace
  may be deleted after the client was told that it is stored: the sweep listed its
  pending row before `commit_part` made it current. `AcknowledgedPartKept` exempts
  such parts and no others.
* `StaleAbort.cfg`, `StaleWorkerNeverAborts`: fencing and `sink.abort()` are two
  steps (`server.rs:4708`); a paused worker aborts after another one took over.
* `CopyOutlivesPurge.cfg`, `PurgeErases`: a repair worker opens its source, the
  purge erases the namespace and completes, and the worker then begins its
  physical write, which takes the epoch that is current by then: a copy of an
  erased generation exists after a purge that reports completion. `managed_purge`
  has no workers; with them the property needs the write to be bound to the epoch
  of the repair row.

Under the constants of a regular run, changed as said:

* `SettledWrite.cfg` with `UploadsExpire = FALSE`, `UnknownUploadCleanedUp`:
  COMMIT_UNKNOWN with an open upload is never resolved unless the bucket expires
  the upload.
* `StagedRetire.cfg`, `ExpiredUploadsReaped`: an upload left COMPLETING is never
  reaped, cannot be aborted, and if its destination was proven aborted no retry
  completes it.
* `ManagedPurge.cfg` with `Drivers = {d1, d2}`, `MaxDrives = 3` and no uploads,
  `CompleteIsFinal`: two requests drive one purge; the slower one reports its target
  as blocked after the other has completed the purge, and the row goes back to
  BLOCKED.
* `ManagedRepair.cfg` with `SPECIFICATION ManagedSpec`, `Placements <- Return` and
  `MaxFaults = 0`, `ReadyCopiesPresent`: a placement that returns to a backend while
  the cleanup of the old copy there is past its check: the cleanup lists the new
  copy with the old one and deletes both. The property as it is checked and proved
  leaves out the backends for which `OneWay` does not hold; to see the loss, take that
  conjunct away.
* `ManagedPurge.cfg` with `Drivers = {d1, d2}` and `Uploads = {}`, `OpenHoldsSlot`: two
  requests drive one purge; one completes it, the other then reports its target as
  blocked, and the finalizer it runs next counts no open operations just before a
  request of the new epoch opens one. Completing the purge a second time empties the
  usage row's slot under that operation. `UsageExact` still holds.
* `ManagedRepair.cfg` with `SPECIFICATION ManagedSpec`, `Placements <- Move`,
  `Workers = {w1}`, `Headroom = 4`, `MaxVersions = 2`, `MaxRouting = 2`,
  `MaxDeletes = 1` and `MaxFaults = 0`, `ReadableAtPrimary`: the move of a placement
  leaves the pin of the exact version that the old primary had; a read has to fall
  back to the other location.

A repair claimed by two workers: the claim returns the row as it was selected before
(`managed.rs:4548`); if the row was finished and revived for a newer CAS version in
between, the worker compares the authority with the old one, finds it superseded, and
marks the revived repair done without applying it. No property is refuted by this: the
replica stays PENDING in the authority until a reader or the placement reconciler
enqueues its repair again.

Under the constants of `Gateway.cfg`, each in place of its `INVARIANTS`
(`ManagedCommitFenced` as a `PROPERTY`):

* `NeverServedChanged` (`docs/security.md:242`): the Avro form does not compare what
  it collects with what the preflight saw (`server.rs:6991`).
* `CancelledDirectReleased` (`docs/security.md:253`): a direct read dropped after it
  has opened the object and before its first byte leaves the reservation held.
* `StaticFetchHits` (`plugin_registry.rs:289`): a component removed between the
  resolution of a request and the building of its snapshot is missed.
* `SplitIndependent` (`docs/adr/0005`, line 16): a record exactly as long as the limit is
  accepted or refused depending on where the frame ends.
* `ListedOnce` without its hypothesis `~Shortened`: of a delimiter longer than one
  character the memory store keeps the first character in the common prefix
  (`server.rs:9936`), so that a key may be covered twice, out of order or not at all.
* `CommittedNotReleased` (`control.rs:473`): a retry that fails releases the
  reservation it shares with a retry whose object is committed.
* `ManagedCommitFenced` (`backend.rs:184`): a managed write is not bound to the routing
  it was resolved under; it publishes while a switch is under way.

Hazards that the list leaves to this section: a create-multipart that lands late
(`transaction/s3.rs:1182`, `LateUpload.cfg`), NoSuchUpload answered to the abort of
a recorded upload (`s3.rs:700`), versions created after the enumeration
(`s3.rs:1290`), discovery by key (`s3.rs:724`, plan), uploads left COMPLETING
(`multipart_staging.rs:1607`, `ExpiredUploadsReaped`), the count of open uploads in a
statement of its own (`multipart_staging.rs:777`), the sweep's look at the oldest
1024 attempts (`multipart_staging.rs:1223`) and the 204 that an abort of a
COMPLETING upload answers (`server.rs:8713`).

## Theorems

### Direct writes

For all values of the constants that satisfy the two named assumptions (any
number of periodic reconcilers, attempts, versions and failures):

* `Typing`: `Spec => []TypeOK`.
* `Invariance`: `Spec => []IInv`.
* `AbortIsProof`: `Spec => []AbortedMeansAbsent`.
* `EarlyRowsHaveNoVersion`: `Spec => []NoCommitBeforeCompleting`.
* `AnswersAgreement`: `Spec => []AnswersAgree`.
* `CommitsSurvive`: `Spec => []CommittedVersionSurvives`, and
* `WritesAreAtomic`: `Spec => ImplementsAtomicWrite`, the refinement of `AtomicWrite`,
  both if `Exact => ~LateDeletes /\ ~Pauses`: on a plain backend always, with exact
  version recovery as long as no delete takes effect after its caller gave up and no
  actor outlasts its routing lease. `LateDelete.cfg` shows that the first condition
  is needed, the same constants with `Pauses` and no late deletes the second.

`AbortedMeansAbsent` is not inductive: a version might appear after the row was
closed. The invariant is built around `Quiet` (no call under way, and none the
sink may still send, can create a first version) and `Dead` (quiet, and no
version exists). `Dead` is stable, and `DeadInv` says that whoever is about to
abort, or has, has established it. There are three ways to it: the row never
left the early states (`EarlyInv`); the first attempt was rejected and the sink
knows of everything it sent (`FirstAttemptInv`, `AwaitsInv`); or absence was
observed twice. The last needs the clock: `WindowInv` bounds every PUT by the
row's window, so the first stored observation implies `Quiet`, also when it
overwrote a launch recorded between its two statements, because a launch needs
the route (`HoldersInv`); the second observation, by an actor that still held the route
when it listed the uploads (`ConfirmInv`), then sees that nothing is there
(`AbsenceInv`). `UploadInv` covers completions, which end with their upload.
Proofs have one lemma per conjunct and one step per action.

`AnswersAgree` is inductive together with typing: a transition never starts from
a terminal row, and outcome and settlement are copied from the row.

`CommittedVersionSurvives` needs to know what a cleanup may delete. On a plain
backend (`PlainInv`) that is at most the version its own completion made and its own
copy replaced; such a version lacks the metadata, and whatever is about to be
committed has it, so the set of full versions only grows. With exact recovery
(`ExactInv`) a cleanup deletes every version but its own, and two cleanups would
delete each other's: an actor inside one holds the route, whose lease cannot lapse
under it; the holders are never at work together (`HoldersInv`); and once the row is
COMMITTED no holder can reach a cleanup any more, because recovering the route needs
a row that is not terminal. `StepKinds` splits the steps into those that move the
provider's versions (`Land`) and those that move the row, and `AtomicStep` maps each
to a step of `AtomicWrite` or to none. TLC checked `PlainInv` with the constants of
`PlainWrite.cfg` and `ExactInv` with those of `LateDelete.cfg` without late deletes.

### Staged uploads

For all values that satisfy `StagedPartsAssumption` and
`StagedCompletionAssumption` (any uploads, tenants, parts, digests, requests and
workers, requests that outlast the grace among them, any limits with the tenant's within the account's):

* `Invariance`: `Spec => []IInv`, and from it
* `TypeCorrect`: `Spec => []TypeOK`.
* `QuotasRespected`: `Spec => []WithinLimits`.
* `ResultsAreObjects`: `Spec => []ResultIsObject`.
* `ObjectsMatchRequests`: `Spec => []ObjectMatchesRequest`.
* `AbandonedUploadsUnwritten`: `Spec => []AbandonedNotWritten`.
* `AcknowledgedPartsKept`: `Spec => []AcknowledgedPartKept`.
* `CountersAddUp`: `Spec => []AccountingExact`.
* `NeverUnderflows`: no row is stuck behind the check that `release_artifact` and
  `commit_part` make before they subtract from the counters.

`ResultIsObject` and `ObjectMatchesRequest` are not inductive: nothing in them
says where the parts that a worker is about to commit came from.
`WorkersHoldParts` does: a worker past acquisition holds exactly one committed
attempt of each part its request names, and its request is the one in the row.
That holds at acquisition because a part has one current attempt
(`RequestsOwnRows`) and because a lapsed lease is taken over only by an identical
request; it stays true because a committed attempt never changes its upload, part
or digest again, even when its row is deleted (`RowsKept`), and because no step
takes an acquired upload back (`UploadsKept`). `DestFollowsLease` carries the same
fact to the destination, which stays when its worker is gone; a worker that
records does so only for a committed destination, so it does not matter who wrote
it. The first half of `StagedCompletionProofs` shows that the steps of `StagedParts` preserve their own
conjuncts and grant the completion `Keeps`; the second half shows that a step of the completion leaves each worker and each upload as it was or fitting.

`AcknowledgedPartKept` rests on `KeptInv`, which speaks of the cleaners' lists: a
current part of an open upload whose row has not outlived the grace is stored and on no
list (`CurrentSafe`); neither is such a pending part whose request is under way
(`PendingSafe`); a key is listed only after its row existed (`RowsMade`); an object
that the scan has found never gets a row again (`OrphansDead`), and what it may still
find when it lists the store had no row when the rows were read and either has none for
good or arrived after that, and is then too young (`ScanSafe`: here the grace is needed); a completion lists only parts of
its own upload (`AllOwn`), and a part that was replaced has a stored successor
(`StoredReplaced`).

`AccountingExact` is about sums over the attempt rows, which `Totals` defines as
`SumFunctionOnSet` and bounds: a step that changes one row changes one summand
(`SumChange`), so it suffices that every transaction moves the counters by what it
moves in its row. That needs the rest of the invariant: only the transition of a row
out of a live state returns its bytes, a request that commits finds the row it
reserved, and an upload row is deleted only without live attempts (`EndedAreEmpty`,
which goes with `AccountingExact` into `BooksInv`).

### Managed storage

For all values that satisfy `ManagedAssumption`, `RepairAssumption` and
`PurgeAssumption` (any operations, keys, backends, workers, purges, drivers and
uploads, any placements and any number of faults):

* `UploadsStayOpen`: `ManagedSpec => []OpenUploadKept`.
* `VersionsCovered`: `ManagedSpec => []LedgerCovers`.
* `VersionsOfEpoch`: `ManagedSpec => []VersionsInEpoch`: what a request wrote and a
  provider still holds is of the namespace's present epoch.
* `PurgesErase`: `PurgeErases` in every state in which requests wrote all the
  versions there are.
* `RowsGoForward`: `ManagedSpec => PlacementForward`, an action property.
* `UsageAddsUp`: `ManagedSpec => []UsageExact`.
* `QuotaHolds`: `ManagedSpec => []QuotaCovers`.
* `ReadyCopiesKept`: `ManagedSpec => []ReadyCopiesPresent`.

The assumptions say that limits are numbers, that there are finitely many operations
and keys, that a placement is a primary backend and perhaps a replica, and that `Nil`
is none of the other values. The placements are arbitrary. `ReadyCopiesPresent` is about
the backends that are `OneWay(b)` in them: no placement uses such a backend again that
one before it gave up, and none makes a replica of what was its primary. Where other
backends come and go at the same time it says what it says. The first half of `OneWay`
cannot go, as `Return` under the counterexamples shows; the second is sufficient for the
proof, and TLC has found no violation without it (`Swap`, 6 million states, search not
finished). The invariants build on each other.

`EpochInvariant`: a purge that was started is the one under way, of the namespace's
epoch, or of an earlier epoch, whatever its row says by then.
`UploadInvariant` adds that a registration is of the epoch its creator knows until the
creation is over, and that an upload a client knows of is of the present epoch.

`GenInvariant`: what the authority shows, and what a repair copies, was committed, and
a request that has not inserted its logical row has none. A physical write of a worker
is named by the repair row and the lease token, so the names have to be fresh: the
token of every worker that has claimed a row is `Spent` (the row's token has reached
it, or the row is gone and its generation with it), and two workers that have not
begun their copies of one row hold different tokens (`TokensSpent`).

`CoverInvariant` proves `LedgerCovers`. `Accounted` (a version is in the ledger, or its
intent is pending and its journal row knows of it) is not inductive by itself. A row
leaves the ledger when a deletion was recorded, so whoever is about to record one must
have removed the version from the provider, and none of that write can come back
(`VictimsGone`); it cannot because the write is `Over`: begun, without an intent, and
never begun again (`KnownBegun`, by the tokens above). An intent is settled from the
journal row, so a writer at work has one (`JournalsKept`). The finalization of a purge
forgets the journal rows up to its epoch, so a finalizer has found no intent of those
epochs and none is added any more (`IntentEpochs`, `NoOldIntents`).

`PurgeInvariant` adds that every intent and every ledger row is of the namespace's
epoch and, during a purge, one of its targets (`RowsInEpoch`), that the writes of
requests are of the epoch they were admitted in (`WritesInEpoch`), and that the ledger
is empty when the purge under way is finalized (`SettledEmpty`): the epoch moves on
only then. A request is bound to the epoch it was admitted in; a repair worker's write
takes the epoch of the moment, which is why `PurgesErase` has its condition.
`CopyOutlivesPurge.cfg` refutes the property without it.

`ForwardInvariant` proves `PlacementForward`: every version that an operation, a
repair row, a worker or a survey carries is one that the gateway was started with
(`PlacementKnown`), and a row is replaced under a CAS on the one that was read, or by
a worker whose placement version is compared with the row's. One lemma per action
says what it may do to a row (`Forward`).

`UsageInvariant` proves the two properties of the usage row. The slot is free or held by
an operation that is open, completing or unknown, whose reservation is the reserved
bytes (`UsageRow`); that every such operation holds it is not true (`OpenHoldsSlot`
above); every row has released at most what it committed (`RowBytes`), so the
total of the difference over the operations (`ChargedBytes`) moves with one row at each
commit, proof of abort and release. `QuotaCovers` compares the sizes of the
current rows with the visible bytes. A commit adds its size and takes away the prior
size its request read, so the proof needs that this is the size of the row it replaces:
the CAS version says so, and a direct tombstone, which releases nothing, can only make
the visible bytes too large.

`PlacedInvariant` says where copies are. A repair row, the copy of it that a worker holds
and what a survey is about to enqueue were computed from the authority row as it is, or
from one with a smaller CAS version (`Bound`, `SurveyBound`); only in the first case can
completing it move the row. A row is at locations of placements so far (`RowPlaced`); a
cleanup that may run (`Cleared`) is for a location the row has left and no placement to
come has, or for its primary (`ClearedOK`); one that waits for the cutover waits for a
version without a replica there (`WaitOK`). By `OneWay` a leg comes to no location whose
cleanup may run (`LegKeepsCleared`), and what a cutover releases is right (`ReleasedOK`).

`CopiesInvariant` adds what providers hold. A ledger row whose version is gone is for a
location that may be cleaned and that no row reads (`LostDeleted`); an intent's journal
row counts versions that are there (`CountedHeld`), so what enters the ledger is held; a
worker that deletes has looked at the authority, and no row has come to that location
since (`CleanersRight`: the check of `execute_repair` stays true although it is made
long before the deletes); a purge deletes only what is of an epoch that is over
(`TargetsOld`, `Unmarked`); and what is called READY is in the ledger (`ReadyLedgered`).

### Requests

For all values that satisfy the named assumptions of the modules, taken together as
`PartsAssumption` (finite sets of requests and sessions; actors, credentials
and component digests that are not mistaken for program points; budgets that are
numbers):

* `RevokedRefusedAlways`, `SettledAsServedAlways`, `LeftOnlyWithCauseAlways`,
  `ServedAsPreflightedAlways`, `ChargedForCommittedAlways`, `WrittenWhereAdmittedAlways`, `CacheKeepsCatalogAlways`, `FuelExactAlways`,
  `MemoryAccountedAlways`: `Spec => []P`, of the gateway that `MCGateway` composes,
  for the `P` that the run `gateway` checks; each from
* `PartsKeptAlways`: the parts' inductive invariants hold of the gateway.
* `RevocationFinal`, `WritesStayWhereAdmitted`, `CompletionsCharged`,
  `BooksAgreeWithService`, `CatalogKept`, `FuelAccounted` and `MemoryHeld` are the same
  facts about each part's own specification; `FinishedGuestsRest` (`FinishedOnce`) and
  `ClosedSessionsGone` (`NoGuestOutlivesSession`) come with the last two.

`MCGateway` instances the proof modules, so the lemmas about a part's steps are lemmas
about the gateway's.

Credentials (`AuthInvariant`): the snapshot on disk is the map, or differs from it by
the one entry that the mutation in flight replaced (`SnapshotBehind`), so that a
failed write, a crash and a reload restore the same map; a revoked credential is in
neither (`RevokedGone`); a late request has got no further than its lookup.

Routing (`RoutingInvariant`): a write changes one store, the one its request was
resolved to, and a recovery acts on the version in the row (`OneRoute`); a lease that is
held pins the active version, unless a switch was forced (`LeasePins`). A call is sent
by whoever holds the lease, so both carry over to the calls that have not landed: those
of an unsettled write are on their way to the active version.

Completions (`BillingInvariant`): whoever adopts, settles or records has seen the write
committed, and whoever commits has persisted the evidence (`KnownCommitted`). A retry
that took the lease over may meet the write in any state, and the write never leaves
COMMITTED.

Requests (`DoorInvariant`): the state of a request, its reservation, its body and its
spool are changed by its own steps, crashes apart, so the invariant is a predicate of
one request (`RequestOK`: what the books say at each point, what was disclosed, what
is left to be settled when the body ends) and the quota's count over all of them
(`QuotaExact`, by the cardinality theorems), which includes what cancelled requests
have stranded.

Plugins (`CacheInvariant`): a cache is good when its order lists each cached component
once and its weight is the sum of theirs; touching, inserting and evicting keep it good.
The eviction is a recursive function, so its existence and what it computes are shown by
induction over the rounds: after n rounds the cache is `Trimmed` (fits, or holds pinned
components only) or n entries are gone, and there are no more rounds than entries.
A catalog entry is safe because an import inserts its engine, its catalog row and the
eviction in one locked section.

Fuel (`FuelInvariant`): while the guests start, those behind the session's position have
burnt nothing; later, those not yet finished are running and every guest is accounted
(`Progress`); the one that is called may burn at most what is left (`CallBudget`), so the
sum over the guests and `fuelConsumed` move together.

Memory (`ExecutorInvariant`): a permit is with the task in its slot, or with the guest
that a worker started from it, or nowhere; a queued task belongs to a caller that waits,
drains or has returned, and a worker runs one session. Each step adds or removes at most
one session of `Holding`.

### Only model-checked

* Liveness, which TLAPS cannot do under fairness, and the refinement of
  `ManagedContract`.
* Functions of an input read piece by piece: `RecordsAsWhole`, `AcceptedAsSent`,
  `ConvertedAsPlanned`, `ListedOnce`. `RecordDecoder` and `ListCursors` iterate with
  recursive functions; no module declares a RECURSIVE operator.

An induction over data that a proof needs is stated without the library's induction
theorems: the set of counterexamples among the numbers is empty because it has no least
element (`Totals` does so for sums, `ExecutionProofs` for the rounds of the eviction and
for `Retained`). That reaches sums and loops over rows; it does not make the four
properties of streamed inputs above any shorter, whose reference definitions recur over
the input in another way than the code does.

`TypeOK` and `NoCommitBeforeCompleting` of the direct write and `TypeOK` and `IInv` of
the staged uploads are proved and no longer among the runs.

## Not modelled

See `components` in `PROJECT.json` for what each part leaves out. Out for good,
because nothing in it depends on an order of events: cryptography, canonical
requests and presigned URLs, header and range parsing, XML and error bodies, the
Avro container and its codecs, policy manifests, configuration types, the command
line tools and the SDKs. The hosted implementations of the control plane and of
the workspace storage repository are not in the repository: they appear as the
contracts of their traits. Tests and the in-memory variants they use are not
modelled, except the repository that serves as the contract of managed storage.
