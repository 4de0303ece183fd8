# A TLA+ model of agent-continuity

`agent_continuity` runs coding models against local workspaces and keeps what
they learned.  Its core is a *memory store*: an append-only event log per
session, a disposable SQLite projection of it, and content-addressed payloads
that are kept, archived, evicted and brought back.  Everything else (run
memory, maintenance, compaction, the production worker) either writes events
to that store or consumes what it returns.  Beside it stand the production worker,
which lets a model edit a staged copy and promotes the result, and two scheduled
programs with state of their own, the research radar and the Codex catalog
maintenance.

This directory holds TLA+ modules translated from the code, TLC configurations
that check them on small instances, and TLAPS proofs for any instance.  Line
numbers refer to `src/src/agent_continuity/memory_store.py` unless another file
is named.

    tlc -workers 2 -config MCMemoryLog.cfg MCMemoryLog
    tlapm MemoryLogProofs.tla          # likewise every other ...Proofs module

## 1. The system

### Components, their state and their operations

| component | state it keeps | operations that change it | hard behaviours | what makes it correct |
|---|---|---|---|---|
| **Event log and index** (`memory_store.py`) | one JSONL segment per (host, session); `event_index` rows; one kernel lock file per root | `append`, `replay`, `replay(rebuild=True)`, the constructor | several processes; a process dies between write, fsync and projection; torn lines; power loss; readers without the lock | chains never break or fork; an acknowledged record is never lost; readers see only logged events; the next open can apply what is missing |
| **Projection** (`memory_store.py`) | `memory_item`, `task_state`, `task_terminal` rows | the reducers (`_apply_*`), driven by `append` or by `_projection_order` | replay applies events in an order of its own | rebuilding gives the rows that appending gave; no task forks or ends twice |
| **Blob retention** (`memory_store.py`, `retention.py`) | hot blobs, archives, tombstones, staged bytes, `blob_catalog` | `append` with a blob, `plan_retention`, `run_gc`, `rehydrate_blob`, recovery and reconciliation in the constructor | five kinds of file and one row changed one after the other; failure between any two; a plan applied later than it was made | what the log refers to is readable or has a receipt; protected payloads stay; every reopening succeeds |
| **Scheduled maintenance** (`memory_maintenance.py`) | run lock, evidence files | one bounded run: plan, probe, apply, write evidence | the store changes between plan and apply; limits, deadlines, failures and kills in the middle of a collection | only eligible payloads go; the evidence tells what was executed; pressure is relieved |
| **Run memory** (`run_memory.py`, with `local_edit.py` and `bin/coding-task.ps1`, which drive it) | events of one run, found again by type and phase | `ensure_started`, `record_model_intent`, the records of `local-edit`, `failure_report`, `finalize` with its recovery | three processes per invocation; a stop between any two find-then-append steps; a run resumed with another summary | the model is asked at most once; a run ends once; the episode tells what its evidence tells |
| **Production worker** (`production_worker.py`) | staged workspace, backup, promotion report, repair counters, backend state | live run, `RepairController`, promotion with rollback, finalization, cleanup | promotion fails or the worker dies half way; users edit the source; every write may fail | what is promoted was verified; originals are recoverable; report and journal are true |
| **Production memory** (`production_memory.py`) | (uses the store) | the events of a worker run, its episode and recovery | an append raises and is durable all the same | a task ends once, and says completed only of a result that is in place |
| **Routing** (`routing.py`, `production_routing.py`) | none | decision from manifest, probes and request | none; a large decision table | only eligible models; the recorded reason is the real one |
| **Compaction** (`compaction.py`) | task states chained by hash | accept or reject a proposed state | stale base state | required facts survive; states do not fork |
| **Working set** (`working_set.py`) | none | greedy packing under a token budget | boundary arithmetic | never over budget; mandatory items always in |
| **Research radar** (`research_radar.py`) | immutable records, ledger of a paper version, plans, sync state, page cache, two locks | intake, plan, apply, lifecycle, daily sync and weekly recheck | crash between immutable writes; pages that shift between days; late listings; retries | every prefix loads and can be continued; nothing is skipped; attempts are never forgotten; windows end |
| **Catalog maintenance** (`ops/codex_catalog_maintenance.py`) | attempt ledger, instance lock | select, re-check, record, run external command, verify | kill or timeout after which the command still takes effect; Codex and its user at work on the same threads | one attempt on a thread, on record first; active threads are spared; finished ones are reached |
| **Harness adapters** (`adapters/`) | one child process, its tools and its event stream; audit and counters of the runner | start, stream, deadline, cleanup, verdict | child, pipe, audit and repair control run side by side; deadline against late output; descendants | the verdict is that of the last verification; the run ends |
| **Checkpoint** (`checkpoint.py`) | checkpoint files | publish, validate | two publishers | written once |
| **Tunnel** (`tunnel.py`) | control socket, lock file | reuse, forward, start | a stale socket | at most one master |
| **Launcher, endpoint, CLI** | none of their own | one-shot commands | - | - |
| **Swift verifier** (`bin/`, `mac/`) | request and result files | one request over SSH | - | the result belongs to the request |
| **Installers** (`windows/`, `mac/`) | operating-system configuration | install, switch | - | - |
| **Evaluations** (`evals/`) | fixtures | - | - | - |

### How they interact

    cli, memory_maintenance, run_memory, production_memory
                     |  method calls on a MemoryStore of their own process
                     v
       append / replay / plan_retention / run_gc / rehydrate_blob / search
                     |  one kernel lock per root (bounded wait, :350)
                     v
       events/<host>/<session>.jsonl      the truth
       blobs/, archive/, retention/       payloads, receipts, staged bytes
       SQLite (WAL, synchronous=FULL)     the projection; search() and get()
                                          read it without the lock

Processes share nothing but those files.  A constructor takes the lock three
times: `_recover_incomplete_retention_artifacts_locked` (:537), `replay`, `reconcile_retention`.  Every
other operation takes it once.  `run_memory` and `production_memory` read,
decide and append in separate calls, so their decisions are not covered by the
lock.  The production worker runs a harness adapter as a child process and reads its
events from a pipe; its journal is a client of the store like the others.  The radar
and the catalog maintenance keep files of their own and share none with the store.
`compaction` proposes the states that `append` then checks by revision and
hash.  `working_set` and `routing` are pure.

## 2. The modules

| module | what it is |
|---|---|
| `EventHistory` | abstract: what a root promises its callers, with neither locks nor failures |
| `MemoryLog` | the durable write path, step by step, for several processes with crashes, torn lines and power loss; `ImplementsHistory` is its refinement of `EventHistory` |
| `MemoryLogProofs` | the inductive invariant of `MemoryLog`, its safety properties, the refinement |
| `MemoryProjection` | reducers, rehearsal, the order of a replay; one action per operation under the lock |
| `BlobRetention` | the life of one payload over files, log and catalog, each durable step an action |
| `BlobRetentionProofs` | the row of the catalog in closed form, the inductive invariant of `BlobRetention`, its safety properties |
| `RunMemory` | one coding run: the processes of an invocation, their steps over the run's session, interruption and resumption |
| `RunMemoryProofs` | at-most-once dispatch, at-most-once recording and the truth of the record, for any number of invocations |
| `MemoryMaintenance` | scheduled and inspecting maintenance runs over several payloads which others change meanwhile |
| `HarnessRun` | one harness run: the child with its guards and tools, the event pipe, the runner's loop, audit, repair control, deadline and verdict |
| `ProductionRun` | extends `HarnessRun` to the whole worker: backend, journal, promotion, rollback, finalization, cleanup, user edits, death |
| `RadarCatalog` | the radar's records of paper versions: intakes, plans, applications, ledger, claims, locks, crashes between writes |
| `RadarSync` | the radar's synchronisation over days: windows, pages, cache, recheck, artifact queue, state file |
| `CatalogMaintenance` | archiving of finished Codex threads by overlapping, killed and failing runs |
| `MemoryProofs` | the rows of the projection in closed form, the inductive invariants of `MemoryProjection` and of `MemoryMaintenance`, their safety properties |
| `CatalogMaintenanceProofs`, `RadarSyncProofs`, `RadarCatalogProofs` | an inductive invariant of each of these modules, and every safety property its run checks |
| `ProductionRunProofs` | the inductive invariant of harness and worker together, and the worker's safety properties |
| `MC...` | instances for TLC, one for each of the modules above that has a run |

The first three detailed modules look at one store from three sides.  `MemoryLog` has
the concurrency and treats an event as its place in the chain and its *claim*,
the unique key its insertion needs.  `MemoryProjection` opens the event and,
because every operation of it is inside the lock that `MemoryLog` models, takes
an operation as one action, with failure between "durable" and "projected".
`BlobRetention` follows the files of one payload through operations that are
not atomic with respect to failure.  `RunMemory` is a client of that store and
relies on what the others establish: an append is durable when it returns
(`AcknowledgedKept`, but for orphaned segments), the next constructor projects what a failed append left
behind (`Replayable`), and the reducer refuses a second end of a task
(`MemoryProjection!Accepts`).  `MemoryMaintenance` sits above `BlobRetention`: it takes
the collection of one payload, which `BlobRetention` follows file by file, as one step
that may fail before or after its event is durable.  `ProductionRun` extends
`HarnessRun`, so that one specification has the interleavings of child, pipe, runner,
worker and user.  `RadarCatalog` has the files of single papers and `RadarSync` the
cadence over many; they meet in "a paper is in the catalog".

### MemoryLog

| in the model | in the code |
|---|---|
| `log[s]`, `torn[s]` | complete lines of a segment file; whether an unterminated line follows |
| `synced[s]` | lines that have passed `os.fsync` |
| `indexed` | rows of `event_index` together with what their reducers inserted (one transaction) |
| `lock`, `open`, `pc`, `op` | `_exclusive_store_lock`, constructors that returned, the step a call has reached, the record it is writing |
| `PrepareAppend`, `RefuseAppend` | everything of `append()` before the write: chain check, tail check (:750), event-id check, reducer rehearsal in a savepoint |
| `files`, `entered` | segment files that exist; those whose directory entry has been synced |
| `WriteLine` / `TearLine`, `SyncLine`, `SyncDirectory`, `SyncFails`, `Project` / `ProjectFails` | write, fsync of the file, fsync of the directories by the append that created the file and by no other (:804, :819), projection |
| `ReplayMissing`, `ReplayFails` | `_verify_locked` and the incremental replay, one transaction |
| `ClearProjection`, `RebuildProjection`, `RebuildFails` | `replay(rebuild=True)`: two transactions |
| `LockTimeout`, `Crash`, `PowerLoss` | bounded wait; death of a process (the kernel frees the lock); loss of what was not synced: lines, or a whole file that no synced directory names |

A record hash is represented by the claim of the record it names, which is
enough because a claim occurs once in a segment (`ClaimInv` of the proofs).
A claim stands for whatever a reducer or the index accepts once: an event id, a
memory id, a (task, revision), the end of a task.  `acked` and `orphaned` are history
variables: `orphaned` has the segments whose creating append ended before it had synced
the directories, and `acked` the acknowledged records of all the others.

### MemoryProjection

An event is its number in the log, its segment and the fields its reducer reads.
`Accepts`/`Apply` are the reducers.  `ProjectionOrder` is the order that
`_projection_order` gives the events of a replay, as a relation: `Rank` are the classes,
`Chains` what the visit of each commit passes through (the commit, what it supersedes,
what that supersedes, ...), `VisitedFrom` the visit that appends a commit, `Major` and
`Minor` the sort keys inside a class.  `Orderable` are its two refusals.  `ApplyAll` is
the transaction of a replay, the last event of the order applied to the result of the
others.  `Touches` and `Asked` are assumptions on the callers (section 3).  The names
that every other module calls `Init`, `Next`, `Spec` carry the word `Projection` here, so
that `MemoryProofs` can extend this module together with `MemoryMaintenance`.

### BlobRetention

`events`/`projected`/`cat` are log, index and catalog row; `hot`, `archives`,
`tombs`, `stages` are files; `plan` is a `RetentionPlan` a caller holds; `pc` and
`prior` are the progress of `run_gc` or `rehydrate_blob`; `opener` is how far a
constructor has come; `failed` says that a writer failed since the last
successful opening.  `Abandon` ends an operation before its next step, whether by
an exception or by the death of the process.

`Apply` holds the reducers: `Refreshed` with `Deadline` is `_refresh_blob_deadline`,
`Acted` the row `_apply_blob_retention` writes.  `Rank` and `Precedes` are the order of
`_projection_order` and `_order_retention_events` for the events of one payload, where
the links of receipts and the times of decisions order the life cycle as its numbers do;
`Replayed` applies in that order what is missing, the last event of the order (`LastOf`)
to the result of the others.

### RunMemory

| in the model | in the code |
|---|---|
| `log` | the events of the session (`RunMemoryRecorder._events`), each with what its writer knew (`says`) |
| `proc`, `at` | the process that `coding-task.ps1` is running and the step it has come to; `switch`, `review` and `restore` are what the script does between its processes |
| `Steps` | the appends of `ensure_started`, of `local-edit` and of `finalize`, in their order, with `post` and `work` for the request, the edits and the test |
| `FindEvent`, `AppendEvent` | one find-then-append step: `_find_event`, and `_append` when nothing was found (`Due`) |
| `Refused` | "model dispatch is not safe to repeat"; the store's refusal of a second terminal event |
| `FailureReport`, `EditFails` | what a failed `local-edit` leaves for the script: the report of a fresh recorder, its own report with `memory_failure`, or nothing |
| `facts` | the defaults of the finalization, then what the script learns; `Restore` settles its status |
| `InvokeTask`, `InvokeFinalize`, `Die` | an operator runs the task again, or finalizes again with the same input; everything dies at any step |

One invocation runs at a time, because one writer owns a session
(`src/docs/MEMORY_ARCHITECTURE_DECISION.md:117`).  A step that fails may have left
its event: the store raises after a durable append that it could not project
(`Remains`).  `posted`, `answered` and `passed` are history variables.

### MemoryMaintenance

| in the model | in the code (`memory_maintenance.py`, `run_gc`) |
|---|---|
| `availability`, `free` | `blob_catalog`; the payloads that are unpinned and expired |
| `runLock`, `job` | `maintenance/.run.lock`; a run's step, its plan, what it has applied |
| `Plan`, `Probe`, `Gate` | the plan under the store lock, the pressure without it, the comparison "retention plan is stale" under it again |
| `Collect`, `Stop`, `Late` | the loop of `run_gc` with its item, byte and wall limits |
| `Fail`, `Die`, `Report` | an exception anywhere in the `try` (also after an event is durable), a kill, the evidence file |
| `Refer`, `Pin`, `CollectByHand`, `Rehydrate`, `FillDisk` | what others do to store and volume, when no collection holds the store lock |

`Consistent` is what `load_maintenance_evidence` demands of a report.  The steps that
hold the store lock only for a moment are one action; the collection holds it from
`Gate` on (`StoreFree`).  `appended` is a history variable.

### HarnessRun and ProductionRun

| in the model | in the code |
|---|---|
| child: `ChildTurn`, `ChildCall`, `ChildEdit`, `ChildTest`, `ChildShell`, `ChildEnd` | the plugin's guards and tools (`scoped_plugin.mjs`), the shells of the harness; for `qwen` its own stream |
| `Write` and the bounded pipe | stdout of the child; a full pipe blocks it |
| `TakeStart`, `TakeEnd`, `Timeout`, `StreamEnds`, `Close` | the loop of `run_harness_process` and the checks after it, with `AuditRejects` (`event_bridge.py`) or `AccumulatorRejects` (`events.py`) |
| `RepairForbidden`, `RepairAfterCall`, `RepairAfterResult` | `RepairController` |
| `Effect`, `After` | what a command does to the stage it runs in: write it, in or out of scope, leave a descendant.  The command of the test tool and the shell do so; the Swift sender only reads |
| `Close`, `Verify` | the audit of the scope, and after it the independent verifier of a DeepSeek run, which may write the stage, leave a descendant or raise (`runner.py:594`, `:617`) |
| `Stop`, `Raise`, `Leave`, `PipesClose` | how the loop is left (`runner.py:160`, `:579`-`592`): a tree in its Job is ended; without a Job the child is; a Job the child is not in is terminated with success and kills nobody, the wait for the child may raise, and closing the pipes waits for whoever has them open |
| `Background`, `BackgroundEnds`, `PipesLetGo` | a process left behind writes the stage, ends, or lets the pipe go: a descendant of the child, the child itself, a descendant of the verifier |
| `BackupOne`, `BackupManifest`, `ReplaceOne`, `Compare`, `RollbackOne` | `_apply`, one path at a time |
| `Journal...`, `CommitEpisode`, `JournalRecover` | the appends of `production_memory.py`; each may raise, and be durable in spite of it |
| `HarnessOver` | the worker takes its manifest of the stage: what the harness kept is not looked at again |
| `UserEdit`, `Crash` | a user edits the repository, which during the harness matters only if that passes; the worker dies, which during the harness leaves what a death before the response does |

Contents are old, new, the user's, absent, or the backup's manifest: enough to tell
which copy is where.  The stage of a running harness is four facts: `changed`; `outside`,
written out of scope before the audit; `verified`, as the last passing authoritative
command left it; and `late`, written by the independent verifier or by a process that
it left behind, which no audit follows.  The last three are for `PromotedIsVerified`, and
`outside` for the audit too.

### RadarCatalog and RadarSync

`RadarCatalog` has the immutable files of ONE paper version in the order of
`_WRITE_PRIORITY`, each written by exclusive link, the plan and its application, the
ledger of lifecycle events, the authority of an intake, and crashes between any two
writes.  arXiv answers with other bytes each time (`Answer`), perhaps with other
metadata, and each response of a live intake has an observation and a receipt of its
own; a reader that looks for authority takes `ReceiptBound` receipts and refuses more
(`Overfull`, 100 in the code), and nothing bounds those that are written.  `RadarSync`
counts in UTC days: `Discover` fetches the frontier page and a page of the history window
(or serves it from the day's cache), `Resolve` asks for exact identifiers and artifacts, `WriteArtifacts` and `SaveState` write, the state file last;
`Fail` ends a run before any step.  `Refuse` is an error that the next run meets
again: a paper whose metadata was amended in place, or with a receipt too many (`Bar`),
or with more than `ObservationBound` observations of the artifacts its metadata `Links`
to (`Crowded`).  `Submit`, `List`, `Tick`, `Reconfigure` are the world.
`owed`, `duty`, `checked`, `unchecked` are history variables.

### CatalogMaintenance

`place`, `updated` and `tail` are what the program reads of Codex: row, time, last
record.  `Begin`, `Recheck`, `Record`, `Archive`, `Waited`, `Verify` are the steps of
`run_maintenance`; `Die` is a kill or an error, after which the command that was started
goes on (`commands`).  `Command`, `Write`, `Index`, `Manage` are Codex and its user.
`invoked` and `resumed` are history variables.

## 3. Runs

| run | instance | verdict |
|---|---|---|
| `memory_log` | 2 processes, 2 segments, <= 2 records each, 3 claims private to a segment, power loss that may take a new file | all hold |
| `memory_projection` | 2 sessions, 3 memories, 1 task, <= 4 events | all hold |
| `memory_projection_disputed` | as above, disputed memories may be superseded | `RebuildMatches` violated |
| `blob_retention` | 1 payload, 2 tasks, 3 classes, <= 5 events, clock 1..3 | all hold |
| `blob_archive_expiry` | bulk, one task; GC also runs when an archive has expired | `ReceiptsHaveArchives` violated |
| `run_memory` | 4 invocations of one run, resumed in both ways | all hold |
| `run_memory_resumed` | 2 invocations of the whole task | `EvidenceAgrees` violated |
| `memory_maintenance` | 3 payloads of 5 bytes in all, 2 items or 2 bytes a run, a scheduled and an inspecting run, <= 3 changes by others, <= 2 failures | all hold |
| `production` | 3 harnesses, 2 paths, <= 4 tool calls, 2 edits, 2 tests, 1 repair, any ownership of the child, <= 2 failures, 1 user edit | all hold |
| `radar_catalog` | 1 paper version, 2 entries and 2 responses for it, of which 1 receipt is read, 2 operators, 1 death, 1 correction in place | all hold |
| `radar_sync` | <= 3 papers, the first with 2 artifacts, 2 observations read, pages of one, windows of 2 days, 3 days, a late listing, a failure, a barred paper, 2 configurations | all hold |
| `catalog_maintenance` | 2 threads, 2 processes, one thread a run, 3 days, <= 2 failures, <= 2 uses | all hold |

### What the passing runs show

- **`memory_log`**: under every interleaving of two processes, with death at every
  step, every segment is one chain (`ChainsIntact`); the index has no hole below an
  indexed record (`NoGapInIndex`), which is what makes the last-record check of
  :750 sufficient; acknowledged records are within the synced lines of a file that the
  synced directory names, unless the append that created the file ended before it had
  synced the directory (`AcknowledgedKept`); readers see only logged events while anyone has the store
  open (`ReadersSeeOnlyLogged`); the missing records never conflict
  (`Replayable`); the store refines `EventHistory` (`ImplementsHistory`); every
  call returns (`CallsReturn`).
- **`memory_projection`**: the rows after any mixture of appends, failed
  projections, replays and rebuilds are those of a rebuild (`RebuildMatches`),
  replay is always possible, and the log read in order of append is a legal history
  (`ReplaySucceeds`).
- **`blob_retention`**: after a failure at any durable step the next open succeeds
  (`NextOpenSucceeds`): the receipts that recovery keeps are one chain with their
  archives, the payload or its receipt or its staged bytes are there, and replay accepts
  every durable event.  A rebuild gives the same row, and files and catalog agree while
  nothing has failed (`CatalogMatches`).  No step makes a protected payload unreadable
  (`ProtectedKept`).
- **`run_memory`**: wherever an invocation stops, and however the run is resumed, the
  model is asked once, and not before the intent to ask is durable
  (`DispatchedOnce`); no response, completion or closed model call is recorded that
  did not happen, and a finalization that returns has left the whole record
  (`NothingFabricated`); no event is recorded twice and the run ends in one way
  (`RecordedOnce`).
- **`memory_maintenance`**: a report that is not one of failure passes the loader and
  names every payload its run collected and no other (`EvidenceTruthful`); a run
  collects only what is eligible when it does, though it decided earlier
  (`CollectsEligible`); pressure does not last while there is something to collect
  (`PressureRelieved`).
- **`production`**: what the worker begins to promote is what the last authoritative
  command, which passed, left of the stage: the agent and its processes wrote nothing
  after it and nothing out of scope.  That command is the independent verifier in a
  DeepSeek run, and what it or a process it left behind writes is promoted unaudited;
  in a Swift run it is the last test (`PromotedIsVerified`, not for `qwen`).  At every moment of a
  promotion, also a failed or dead one, the displaced files are in the backup
  (`Recoverable`), and a rollback without errors restores the repository
  (`FailedPromotionRestores`); journal and report say what is so (`OutcomeTruthful`);
  the worker reports in the end, unless the runner waits for a pipe that a process in no
  Job of its own holds open (`RunEnds`).
- **`radar_catalog`**: whatever intakes and operators do at once, and after a crash
  between any two writes, the ledger is one chain whose verification has its receipt and
  observation; it loads unless there are more receipts than the reader takes
  (`LedgerLoads`).  An intake that is repeated reaches its end, unless the entry was
  amended (`IntakeConverges`).
- **`radar_sync`**: no paper of a completed window or recheck is skipped
  (`NothingSkipped`); attempts at an artifact are never forgotten
  (`RetriesNeverReset`); every window that was begun ends, as long as no paper has
  become one that every run refuses (`CycleEnds`).
- **`catalog_maintenance`**: the archive command is started at most once on a thread,
  and only with the attempt on record (`OnceAndOnRecord`); it finds no active thread
  (`SparesActive`); a thread that stays finished is attempted (`FinishedAttempted`).

### What the violation runs show

Each violation is a behaviour of the code that contradicts a statement of the
repository.  The assumption that excludes it from the passing run is a constant.

1. `memory_projection_disputed` (`SupersedeDisputed`).  Replay applies every commit
   before every status event.  "disputed, then superseded" ends superseded live
   and disputed after a rebuild.  The module docstring (:3) promises that every row
   can be recreated.
2. `blob_archive_expiry` (`ArchiveExpires`).  Evicting an archived payload removes the
   archive and keeps the receipt that names it.  Recovery requires the archive of
   every receipt whose event is canonical, so the next constructor raises, after a
   collection in which nothing failed.
   `src/docs/MEMORY_ARCHITECTURE_DECISION.md:80` prescribes this life cycle.
3. `run_memory_resumed` (`Resumes`).  `finalize()` cites the test and verifier events
   it finds and takes the outcome it writes from its caller.  In the counterexample the
   first invocation records its test and dies, and the second one, whose backend switch
   fails, runs no test: its episode cites the recorded test and says that there was none
   (`run_memory.py:293`, `:691`).  A second invocation that reaches `local-edit` does the
   same, because it may not ask the model again and has no test to report.  The run sets
   `ReportsLost` to FALSE, so that this is about resumption; with TRUE one invocation is
   enough: `local-edit` records its test and is killed before it prints its report, and
   `coding-task.ps1` finalizes with its defaults (`:484`).  The module says of
   its error class that it is for a run that "cannot truthfully advance its durable
   memory".  The same refusal means that a verified run that stops between
   `task/completed` and its episode never gets one from a resumed task: the resumed
   task asks for `task/failed`.  Finalizing again with the first summary completes it.

### What else the models show when an assumption is dropped

These have no run in the project; giving the constant the other value in the cfg named
(or, where it says so, the change described) shows each.

- `ClaimsOf` shared (`MCMemoryLog`): the unprojected-tail check of `append()` looks at the
  caller's own segment.  An event of another session with the same key is accepted
  while the first is durable and not projected; afterwards no replay can apply both
  (`Replayable`).  The comment at :824 promises automatic repair on the next open.
- `LiveAfterFailure` (`MCBlobRetention`): a process that stays open after another failed
  chains its receipt to an orphan which the next constructor removes, or unlinks the
  only copy of a payload by a stale catalog.
- `ReuseAfterGC` (`MCBlobRetention`): a new event that refers to an archived payload
  writes it hot again while the row stays archived (`CatalogMatches`).
- `ManifestPath = p1` (`MCProductionRun`): the backup's own `manifest.json` replaces the
  backup of a root file of that name (`Recoverable`; `production_worker.py:474`).
- `swift` in `TornWriters` (`MCProductionRun`): an edit that fails after it truncated the
  file leaves the plugin's last test standing, and a Swift run is not verified again: the
  stage is promoted as no test has seen it (`PromotedIsVerified`).
- `Acknowledge` without its exception for `orphaned` (`MCMemoryLog`): the append that
  creates a segment dies, or the sync of a directory fails, after the fsync of the file;
  the next one finds the file, syncs no directory and returns; power is lost, and the
  file with the acknowledged record (`AcknowledgedKept`; :804, :819).  The comment at :823
  says that the record is durable there.
- `~tree.late` as the third conjunct of `PromotedIsVerified` (`MCProductionRun`): the
  independent verifier writes the stage after the audit of the scope, or leaves a process
  that does, and the worker promotes every difference (`runner.py:594`, `:617`;
  `production_worker.py:762`).  A Swift run has no such verifier; if its test, which sends
  the package to the Mac, left a process that writes the stage, it would happen there too.
- `RunEnds` without its last disjunct (`MCProductionRun`): a child that could not be
  assigned to its Job hangs, the deadline terminates the empty Job and returns, the waits
  raise, and `process.stdout.close()` waits for the child (`runner.py:163`, `:581`-`592`).
  A descendant of the verifier outside its Job does the same when `run_argv` times out.
- `LedgerLoads` without `Overfull` (`MCRadarCatalog`): one more response than the reader
  takes receipts, without any failure or death, and the ledger does not load
  (`research_radar.py:2043`); no operator can decide on that version any more.
- `CycleEnds` without `Spoiled` (`MCRadarSync`): a window with a paper whose metadata was
  amended in place (`research_radar.py:1139`), that has a receipt too many, or whose dead
  links were checked too often (`:3356`; two links of 101 attempts each are enough), fails
  on the same page for ever.  Each of the causes suffices.
- A report of failure after some payloads were collected has no execution, and a run
  that is killed has no report (`memory_maintenance.py:675`): `EvidenceTruthful` is about
  the other reports only.
- A payload larger than `max_bytes` at the head of a plan stops every run before its
  first action (`MaintenanceAssumption` excludes it).
- The currentness telemetry of the radar counts the backlog of the one window that the
  run advanced: when the history window completes before the time that a truncated
  frontier page covers, it records no backlog, age 0 and "current" while a listed paper is
  unprocessed (`research_radar.py:4192`), although `src/docs/RESEARCH_RADAR_V1.md:90` calls
  that age conservative.  The telemetry is not part of `RadarSync`.
- Within one UTC day, a stale page from the cache and a fresh one with another total
  restart a window again and again; `CycleEnds` holds because days end.
- `IntakeConverges` without `Conflicted` (`MCRadarCatalog`): metadata amended upstream
  for a version that is on disk conflicts with the immutable record in every later intake.
- A thread may be resumed between the second look at it and the archive command
  (`resumed` in `SparesActive`).

### Assumptions on the environment

| constant | the value in the passing run means | why a run makes the assumption |
|---|---|---|
| `ClaimsOf` private | writers of different sessions insert different keys | one session per task, fresh ids; what happens without it is described below the findings |
| `SharedKeys` | a session does not touch the keys of another's unprojected event | the same case, seen from the reducers |
| `SupersedeDisputed` | callers do not supersede a disputed memory | finding 1 |
| `ArchiveExpires` | nobody collects after an archive's deadline | finding 2 |
| `ReuseAfterGC` | a collected payload is not referenced by new events | such a reference is refused when evicted, accepted when archived |
| `LiveAfterFailure` | after a failed write the store is reopened before anyone goes on | see above |
| `ManifestPath` none | no changed path of the repository is a root `manifest.json` | see above |
| `TornWriters` | the harness whose edit tool may raise half way through a write | only there does the worker's check of the stage see it |
| `Size` at most `MaxBytes` | no payload is larger than a maintenance run may collect | head-of-line blocking, see above |
| `MaxScan` | the oldest rows that are looked at include every thread | with more ineligible old rows than `MAX_CANDIDATES_SCANNED` later ones are not reached |

`Resumes` is no assumption: it holds the ways a run is resumed, both of them in
`run_memory`, and only the repeated task in `run_memory_resumed`, where one is enough.
Nor is `ReportsLost`: `run_memory` lets `local-edit` end without a report, and
`run_memory_resumed` does not, so that its counterexample is one of resumption.

### Bounds, and why they are enough

- Two processes: the lock admits one at a time, so every hand-over of the lock, and
  every view one process can have of another's unfinished work, needs only two.
- Two segments of two records: a hole, a fork, a torn tail behind a good line, an
  event of one segment between two of another, and a second record in a file whose
  directory entry was not synced all fit.  The proofs cover any
  number of each.
- Three memories and four events: a commit that supersedes upwards or downwards in
  the sort order, a chain of two supersessions, and a status event on any of them;
  together with an unprojected event in the other session.
- Five events about a payload, clock up to 3, retention of 1: reference, end, evict,
  rehydrate, evict again.  TTLs of one tick separate before, at and after a deadline.
- Four invocations of a run: an interrupted one, a resumed task and a repeated
  finalization in either order, each interrupted again, and one that returns.  An
  event is found whichever invocation wrote it, so longer histories add nothing to
  the log; the proofs cover any number.
- Three payloads of which one alone fills the byte limit and two fill the item limit: a
  run that stops for each reason, and a next one that goes on; three changes by others
  fit between a plan and its application, and after it.
- Two paths, one of them new: a promotion that fails before, between and after
  replacements, and a rollback that fails at either.  Four tool calls with two edits and
  two tests: an edit after a test, a failed test with its repair, an identical failure.
- Pages of one paper and windows of two days over three days: a page that shifts, a
  window that restarts, one that spans a night, a truncated frontier.  Two artifacts of one
  paper with an attempt and a retry each against a bound of two observations: a paper
  becomes crowded while it is in the queue.
- Two responses against a bound of one receipt: a version that becomes overfull before or
  after its verification, with a death between receipt and event.
- Two threads and two processes with a limit of one: an overlap, a kill while a command
  runs, a failed attempt in front of a thread that is next.
- Every cap is a constant named `Max...` in its module, used as a guard or as the range
  of a number.  Deadlock is checked in every
  run of the store: a store never stops, because a constructor may always be called.
  It is not checked in the other runs: a run that has been invoked `MaxInvocations`
  times, a worker that has reported, and schedules whose bounded world has come to its
  end all rest.

### Fairness

`FairSpec` of `MemoryLog` asks weak fairness of `Proceed(p)`, the steps a process
takes by itself once it is inside a call: the operating system keeps scheduling a
running process.  Nothing is asked of calls, crashes or power loss.  Waiting for the
lock is bounded (`lock_timeout`), and the kernel frees the lock of a dead holder, so
`CallsReturn` needs no fairness between waiting processes.

`MemoryMaintenance` and `CatalogMaintenance` ask that the scheduler starts their run
again and again and that a started run goes on; for maintenance strong fairness of the
start, since another run may hold the lock whenever it comes, for a bounded time each.
`CatalogMaintenance` also asks that a command ends (it has a time limit) and that days
pass.  `RadarSync` asks that the daily task runs and goes on, and strong fairness of
`Tick`: no number of runs makes a day endless.  Failures are bounded in each of them, and
unfair.  `ProductionRun` asks weak fairness of the worker's own steps (`Worker`) and, while it
waits for the harness, of the runner's (`Parent`) and of its look at the deadline
(`Timeout`), for the loop does both in turn.  Nothing is asked of the child, of processes
that were left behind, of users or of death: a child that hangs is ended by the deadline,
and a pipe that is held open need not be let go (`PipesLetGo`).

## 4. Proofs

### The event log

`MemoryLogProofs` is about `MemoryLog` with any `Procs`, `Segments`, `Claims`,
`ClaimsOf` and `MaxLen`, from `MemoryLogAssumption` only (a free lock is not a
process, the null hash is not a claim, "no record" is not a record).

The safety properties are not inductive: `append()` decides from the last line and
the index what it may write, and writes, syncs and projects later.  `Inv` adds

- `LockInv`, `OpenInv`: exactly the holder is inside the lock, and has the store open;
- `SegmentInv`, `ClaimInv`: each line in place, chained, of its segment's claims, and
  each claim once in a segment;
- `PrefixInv`: the index holds a prefix of each segment;
- `FileInv`: a file whose directory entry is not synced is orphaned, or the append that
  creates it is under way;
- `SyncInv`, `AckInv`: acknowledged records are at their own number among the synced lines,
  in files whose entry is synced;
- `ViewInv`: rows beyond the log only while no store is open (after power loss);
- `CheckedInv`, `WrittenInv`: between two steps of an append the facts it checked
  still hold, because only the holder of the lock changes them.

`ClaimInv` needs `PrefixInv` (the tail is indexed, hence every line is, hence the
index check sees every claim), and `PrefixInv` needs `CheckedInv`.  One lemma per
action shows that it preserves `Inv`; actions that leave files and index alone
share `QuietFiles` and `ReturnQuietly`.

| theorem | says |
|---|---|
| `Invariance` | `Spec => []Inv` |
| `TypeCorrect`, `ChainsStayIntact`, `IndexHasNoGap`, `AcknowledgedRecordsKept`, `ReadersAreSound` | the invariants of the run `memory_log`, for any instance |
| `PrivateClaimsReplay` | `Replayable`, when segments do not share claims (`ClaimsOf` private, above) |
| `LogImplementsHistory` | `MemoryLog` refines `EventHistory` |

### The projection

The first part of `MemoryProofs` is about `MemoryProjection` with any segments, memories,
tasks and number of events, from its assumptions and from `Undisputed`: sessions do not
touch the keys of an event that awaits its replay, and nobody supersedes a disputed
memory.  Both are the values of the run `memory_projection`.  Without the second,
`RebuildMatches` is false (finding 1); without the first, two durable events can create
one memory, and no replay applies both.

The rows are computed in two ways: event by event, as they are appended, and by a replay
of whatever is missing in an order of its own, by class, then by visit, revision or time.
`Row(log, P)` says in closed form what the rows are when the events `P` are projected:
the last event about a memory decides its status, the last that closes its interval the
end of it, the last state of a task its revision and head.  The invariant
`ProjectionInv` is

- `History`: in the order of the appends every event was acceptable to the rows of all
  the events before it, with or without a row, and a commit superseded an active memory;
- `Revisions`: the revisions of a task grow with the log;
- `Apart`: what has no row yet is newer than what has one and shares a row with it;
- the rows are `Row(log, projected)`.

`AppendEvent` checks against the rows there are, and `History` speaks of all the events
before: `Apart` with `AskedApart` closes that gap, and is where `SharedKeys` enters.

- `Conflicts`: if two events change the same row, they are two commits of which the later
  supersedes the earlier, or a commit and a later status, or two statuses in the order of
  time, or two states in the order of their revisions.  That a memory is created once and, once superseded,
  is not superseded again makes the list complete (`Created`, `SupersededOnce`).
- `ProjectionOrders`: the order of the code is a strict total order of the events and
  keeps the order of the appends where two of them change the same row.  `ChainIs` and
  `ChainOrder` say that a visit passes through what is superseded before what supersedes
  it, `CommitsAre` that there is neither a duplicate nor a cycle.
- `ReplayGivesRow`: every such order succeeds and gives `Row(log, DOMAIN log)`, by
  induction over the sets that are closed downwards under the order (`Least` and
  `Recursion`, as in `BlobRetentionProofs`).  `StepRow` is one event; that the event is
  acceptable follows from `History` and `SameAccepts`, because the rows it looks at have
  the same events in either order.

| theorem | says, under `Undisputed` |
|---|---|
| `ProjectionInvariance`, `ProjectionTypeCorrect` | the invariant and the types |
| `RebuildGivesTheSame` | `RebuildMatches` |
| `EveryReplaySucceeds` | `ReplaySucceeds`: the next open can apply whatever was accepted, and the log is legal in the order of the appends |

### A payload and its catalog row

`BlobRetentionProofs` is about `BlobRetention` with any tasks, classes, times to live,
clock and number of events, from its assumptions and from `Deployed`: nobody collects
past an archive's deadline, a collected payload is not referenced again, and a failed
store is reopened before it is used.  All three are the values of the run
`blob_retention`, and without each of them a property is false: the run
`blob_archive_expiry` and "What else the models show" (section 3) say how.

The difficulty is that the catalog row is computed in two ways, event by event as they
are appended and by a replay that starts anywhere and sorts what is missing.  `Row(P)`
says in closed form what the row is when the events `P` are projected: nothing without a
reference, what the last action made of it while no rehydration followed, else hot with
the deadline of `P`.

- `StepRow`: a reducer turns `Row(P)` into `Row(P \cup {e})`, if `P` has everything that
  `e` depends on.
- `ReplayGivesRow`: hence a replay on top of any initial part of the log succeeds and
  gives `Row(events)`, by induction over the sets that are closed under the order of the
  replay.  `Least` (a set of naturals has a least member) serves as the induction, and
  `Recursion` shows that the recursive function of `Replayed` exists and satisfies its
  equation.

The parts of `IInv` beside the types say what holds at each step of each operation:

- `Logged`: numbers without gap or repetition, and at most the last event without a row.
- `History`: what the log can look like.  Tasks end once; references come before the life
  cycle; between two actions there is a rehydration, and it answers the first of them,
  an eviction.
- `Receipted`: receipts are linked in the order of their decisions; every action has one;
  one without an action is the newest, of a payload that is still hot.
- `Disk`: where the bytes are, which archives there are, and what a staged copy belongs to.
- `Working`, `Opening`: what the operation that holds the lock has left on disk so far,
  and what a constructor has already repaired.
- the row is `Row(projected)`.

`History` is what makes the two orders agree, and it needs `Disk` and `Working`: that an
action is logged only of a hot payload rests on the plan being recomputed under the lock.
That recovery may delete receipts and archives needs `Receipted`: only the newest
receipt can lack its action, so the chain of the others is whole (`OneChain`).

| theorem | says, under `Deployed` |
|---|---|
| `Invariance`, `TypeCorrect` | the invariant and the types |
| `StoreOpensAgain` | `NextOpenSucceeds`, wherever an operation was abandoned |
| `CatalogIsRight` | `CatalogMatches`: a rebuild gives the same row, and the files are what it says |
| `ProtectedStaysReadable` | `ProtectedKept`, an action property |

### One coding run

`RunMemoryProofs` is about `RunMemory` with any number of invocations and either way
to resume, from `RunMemoryAssumption` only.  Beside the types its inductive
invariant has two parts:

- `DispatchInv`: a request that was sent has its intent in the log; when `local-edit`
  has come to the step that sends it (the fourth), the intent is in the log and
  nothing has been sent yet.  `record_model_intent` refuses when it finds an intent, so
  the process at that step is the one that wrote it.
- `OnceInv`: one event of each kind, and not both ends.  An append is preceded by a
  search in the same step's guard (`Due`), and a second end is `Refused`.

`AppendKeepsInv` is about a log that grows by the event of the current step,
`RemainsKeepInv` about what a failed step leaves, and `SameLog` covers every action
that leaves the log alone.

That the record is true needs more: a finalization writes what it was told, several
steps after the text was read or the test was run, and maybe in another invocation.
`Truth` ties the two ends together.  `LogInv` says of each event what must have happened
for it to say what it says; `FactsInv` says the same of the facts `coding-task` holds;
`EditInv` and `FinalInv` say which facts and which events a process has when it has come
to a step; `Complete` says what a finalization that returned has left.

| theorem | says |
|---|---|
| `RunInvariance`, `RecordInvariance` | `Spec => []Inv` and `Spec => []IInv`, `IInv` being `Inv` and `Truth` |
| `TypeCorrect` | `TypeOK`, with the bounds that depend on the other facts |
| `AskedOnce` | `DispatchedOnce`, for any number of invocations |
| `NothingRepeated` | `RecordedOnce`, for any number of invocations |
| `RecordIsTruthful` | `NothingFabricated`, for any number of invocations |

### The production worker

`ProductionRunProofs` is about `ProductionRun`, and so about `HarnessRun` inside it, with
any finite set of paths, any routes, budgets, pipe and signatures, any number of faults
and of edits by others.  The verdict of a run, the copy of a file and the words of a
report are made at one step and relied on many steps later, so `IInv` is `TypeOK` with a
part for each of these, which says what the worker knows at each of its steps:

- `HarnessInv`, until the harness is over.  `CountInv` and `PipeInv` are what the counters
  and the events in the pipe need for their types.  `LoopInv` says that the child reports no
  more when the loop is over, so that nothing writes the stage after that but an unowned
  process of the child's, and the verifier or a descendant of it, which `late` tells
  apart (`LateInv`); `VerdictInv` follows the checks after the loop: no error and an owned
  tree mean that nothing is outside the scope and that the verification is of the stage
  as it is.  `SwiftInv` is the same for a run that has no verification of its own: the
  plugin refuses the shell and lets the agent end only after a test that no edit
  followed.
- `SourceInv`: the repository is untouched until a file is replaced; then every changed
  file is in the backup, as it was; `todo` and `applied` name changed files only.
- `RollbackInv`: with nobody else at work, a file that is not what it was is among those
  replaced, and during a rollback among those still to bring back.
- `ReportInv`, `StatusInv`: what the report says of promotion, backend and verdict, and
  at which steps it can say so.  `StatusInv` carries the verdict of the harness to the
  promotion.
- `JournalInv`: the terminal event is the last but for the recovery, there is one, and
  the journal is stuck only after a failed append.

`SourceInv` is inductive for any name of a backup's manifest, because it speaks of the
paths other than `ManifestPath`; `VerdictInv` and `SwiftInv` for any harness with torn
writes, because the second excludes them.  The two hypotheses below stand only where a
property needs them, and each is a case in which TLC shows the property fail.

| theorem | says | provided |
|---|---|---|
| `Invariance` | `Spec => []IInv` | |
| `TypeCorrect` | `TypeOK` | |
| `OnlyVerifiedIsPromoted` | `PromotedIsVerified`: the last authoritative command passed, what the agent and its processes wrote was there before, in scope, and only the verifier and what it left may have written since | no write of the Swift plugin is torn (a torn write changes the stage after its test, and a Swift run has no later verification) |
| `AlwaysRecoverable` | `Recoverable` | no file of the repository has the name of the backup's manifest |
| `FailureRestores` | `FailedPromotionRestores` | the same |
| `ReportIsTruthful` | `OutcomeTruthful` | |

The proof has a lemma for every action of the child, the runner and the worker.
`LoopLeft`, `LoopStops`, `Stopped`, `Raised`, `LoopGoesOn`, `AfterLoop` cover what the
actions of the runner share, `OverHarness` what the worker keeps of them;
`QuietStep`, `EarlyStep`, `PromotionStep` and `ClosingStep` those of the worker.

### The scheduled maintenance of the store

The second part of `MemoryProofs`: any payloads, limits and runs of `MemoryMaintenance`.
A run decides when it plans and collects later.  `RunInv` says for each step what the run
has planned, collected and counted; `LockInv` and `FreeInv` that one run is at work;
`LeftInv` that what is left of an accepted plan is still eligible while the collection
goes on, because it holds the store lock.

| theorem | says |
|---|---|
| `Invariance`, `TypeCorrect` | the invariant and the types |
| `EvidenceIsTruthful` | `EvidenceTruthful`: loader and report agree, and the report names what was collected |
| `OnlyEligibleCollected` | `CollectsEligible`, an action property |

### The catalog maintenance

`CatalogMaintenanceProofs`: any threads, runs and limits.  A run writes the ledger from a
copy it read when it began.  `KnownInv`: the copy is the file, as long as the run holds
the lock; `PendingInv`: what it has selected was never attempted; `AtInv`: how far it is
with its thread; `CommandInv`: a command in progress was recorded; `QuietInv`: the thread
found quiet at the second look is quiet, or was written to since.

| theorem | says |
|---|---|
| `Invariance`, `TypeCorrect` | the invariant and the types |
| `ArchivedOnceAndOnRecord` | `OnceAndOnRecord` |
| `ActiveThreadsSpared` | `SparesActive` |

### The radar

`RadarSyncProofs`: any papers, windows, budgets and days.  A window's cursor counts
papers of a listing that goes on changing, and the pages that were counted came from
different days or from the cache.  `CycleOK` says that the cursor is right for *some*
listing that was seen since the window was begun: the window of that listing has as
many papers as the total, and those before the cursor are in the catalog (`Covers`).
`Chained` makes that enough: listings only grow, so of two of them one contains the
other, and equal totals mean equal windows.  `CacheInv` says the same of each cached
page.  `Follows` ties a window to the one before it, `RecheckRun` and `DutyInv` the
cursor of the recheck to what was requested, `QueueInv` the queue of a run to that of the
state it will replace.  That counts decide equality rests on lemmas about finite
sets of numbers (`RankFalls`, `PageBounded`, `SmallestOf`, `Greatest`).

| theorem | says |
|---|---|
| `Invariance`, `TypeCorrect` | the invariant; the types, and that every state a run leaves is one the next run loads |
| `NothingIsSkipped` | `NothingSkipped` |
| `RetriesAreKept` | `RetriesNeverReset`, an action property |

`RadarCatalogProofs`: any entries, operators, responses and crashes.  Whether the ledger is
consistent depends on other files.  `IntakeInv` says that what the events of an intake rest on
is on disk or still among its writes; the write of least rank then puts it on disk before
any event.  `Numbered` says that the events are 1, 2, ... without a gap, which the locks
and the comparison with the last event keep.

| theorem | says |
|---|---|
| `Invariance`, `TypeCorrect` | the invariant and the types |
| `LedgerAlwaysConsistent` | `LedgerLoads`: after every crash the ledger is consistent, and loads up to the bound of receipts |

### How the invariants were found

Each `Inv` or `IInv` was checked by TLC, as an invariant of the run of its module, before
it was proved; that of `ProductionRun` also with a file of the manifest's name and with
torn writes of both harnesses.  The modules were written so that they can be reasoned
about: a job's selection, its plan, and the orders and replays of `MemoryProjection` and
`BlobRetention` are sets, relations, records and functions instead of sequences that are
sorted and folded; choices between overlapping
conditions are `IF`, because a `CASE` over overlapping guards has no single value.

### What is only model-checked

Liveness (`CallsReturn`, `RunEnds`, `PressureRelieved`, `CycleEnds`, `IntakeConverges`,
`FinishedAttempted`) is out of the prover's reach.  Every invariant and every action
property of a passing run is stated by a theorem, some under hypotheses that are the
values of that run and that are named with the theorem.  The general facts about sorting
and folding need induction with an operator as parameter, which the installed provers
cannot instantiate; the two replays are proved by inductions of their own over finite
sets of events.

## 5. Not modelled

- **MemoryProjection**: the evidence table and the two full-text indexes, written by
  the same reducers as `memory_item`; exact scopes; commits whose initial status is
  not active; an `occurred_at` supplied by the caller; the order of timestamps as
  text (`_utc_text`, :275, prints no fraction when there are no microseconds).
- **BlobRetention**: exact scopes; the pins other than an active task and a production
  claim (they enter `_blob_pin_reasons` the same way); two retention classes of one
  digest; equal times of two decisions; a plan held while another is
  applied; power loss.  The archive file is named by month in the code and by plan
  here, which differs only when one payload is archived twice in a month.
- **RunMemory**: two invocations of one run at the same time; a `local-edit` that
  outlives the script that started it; the contents of task states, of the episode
  and of its evidence beyond outcome and verdict; the validation of the inputs.
- **MemoryMaintenance**: the parts of a report that state no outcome; the eviction of
  archived payloads (finding 2); a new reference to a collected payload; the `now` and
  `scopes` arguments, which no scheduled run gives.
- **MemoryLog**: the sync of directories where the code has none to do (Windows, :429);
  a directory entry that reaches the disk by itself, or by the creating append of another
  segment of the host: both only make losses rarer.
- **HarnessRun, ProductionRun**: two tool calls open at a time; the Pi adapter; the death
  of the worker while the harness runs (it leaves what an earlier one does); a process
  left behind that writes the stage after the worker's manifest of it
  (`production_worker.py:762`): before the copy of a file its writes are promoted like the
  earlier ones that `late` tells of, after it `Compare` finds them; the process groups of
  POSIX; two workers on one
  repository; the routing decision; for `qwen` whether the last shell command was the
  verification it is taken for (`PromotedIsVerified` excludes that harness).  A dead
  worker leaves its backend running and a half-promoted repository: nothing in the code
  takes either up again, which is why `Recoverable` asks for the backup only.
- **RadarCatalog, RadarSync**: parsing and triage of feeds; versions of a paper in
  `RadarSync` (a new one would end a conflict of metadata); the limits of the queue, of the
  catalog's records and of a ledger's numbers (1000, 10,000, 9999); discovery observations; dry runs; migration of old state files;
  runs at the same instant; the second by which a window overlaps the one before it.
- **CatalogMaintenance**: the probe, the self-check and the dry run, which write reports
  only; the contents of reports and logs.
- The other components of section 1, for the reasons given in `PROJECT.json`: routing,
  compaction and working-set packing are pure decisions on texts and tables;
  checkpoint, tunnel, launcher and installers are single calls to the operating system;
  evaluations define no behaviour.

## 6. Plan

What would be proved next: that the two parts of a record that `MemoryProjection` and
`BlobRetention` treat apart, its rows and its payload, are replayed independently; the
numbering and claims of `MemoryLog` as the reading of `Accepts` that its private claims
stand for.

What would be modelled next: equal and textual timestamps in `BlobRetention`; payloads
of two classes; the publication of a checkpoint.
