# Verification of the Illumio Monitoring Dashboard

TLA+ modules for the dashboard (`src/main.go`, `src/tampering_events.go`) and its traffic
extractor (`src/internal/extractor`), the TLC runs that check them on small instances, and the
theorems TLAPS proves about them. `PROJECT.json` maps every definition to the lines it models
and every property to a faulty variant of the code that violates it.

## 1. Inventory

| Component | State it keeps | Operations | Interacts with | Hard behaviour | What makes it correct |
|---|---|---|---|---|---|
| Service-exclusion protocol (`main.go` 1459-1876, 2210-2850, 5371-5410) | configuration, recorded filter fingerprints, pending marks, reconcile marker, request queue | PUT settings, file reload, change detection, invalidate, full reconcile, queue worker, startup check | everything below | four kinds of goroutine interleave; a lock protects only the commits; crashes between saves | traffic counted under superseded exclusions is neither shown nor used; what is hidden comes back |
| Collection cycle (6117-6427, 9198-9478) | rolling buckets, baselines, the running view | freeze targets, query each, commit, previous-day reconcile, publish | configuration, catalog, rate controller, history | results of slow queries arrive after the settings changed | only current results are committed |
| Flow deduplication (6494-6746) | `blocked_flow_seen` (sqlite or memory) | record samples, expire, reset per target or all | cycle | overlapping windows, restart, lost transaction | a flow counts once per window |
| Blocked history days (7905-8527, 12723-12926) | `blockedDaily`, the five-minute captures, hosts | add delta, overwrite previous day, overwrite any day, prune, save | cycle, reconcile | day boundary, delta against overwrite | a finished day holds the authoritative count |
| Service catalog (8895-9047) | cache with expiry, flights in progress | load, invalidate, resolve | PUT, cycle, reconcile | shared flights, invalidation during a flight | no result older than an invalidation is cached |
| API rate controller (657-874) | tokens, current RPM, back-off, cycle deadline | wait for a turn, note a 429, recover, defer tiers | every PCE call | many callers, nested back-off | never above target, always recovers |
| Tampering monitoring (2851-3044, 4508-4536, 6479-7121, 12245-13092) | last event time of each workload, verified samples, daily counts, marker | collect, expire, sample, count days, reconcile days, migrate | cycle, alerts | gaps and partial reads, day boundary, two writers of one file | no false zero, no workload lost or counted twice |
| Tampering event reader (`tampering_events.go`) | ranges to read, events retained | asynchronous collection, job polling, splitting, retries | rate controller | truncated answers, retries, one deadline for all | an answer called complete is complete |
| Alerts (3330-3786, 5128-5370, 12528-12722) | active alerts, history of transitions | evaluate, trigger, recover, save, send | cycle, settings, webhook | missing data, restart, settings changing meanwhile | alerts move on evidence and are announced once |
| VEN / workload / policy metrics (5459-5800, 6429-6459) | counters | query per cycle | cycle | - | - |
| Persistence (11255-12960) | JSON and sqlite files | save, load, migrate | all of the above | crash between two saves | what is on disk is consistent enough to restart from |
| Extraction automation (`automation.go`) | templates, history of runs, the queue channel, `automation.json` | save, queue, cancel, schedule, execute, recover | extraction run, delivery | scheduler, recovery, worker and handlers interleave; waits without a lock; crashes, failed saves, trimming | each run executes alone, at most once, and is not forgotten |
| Extraction delivery (`automation_delivery.go`; retention in `automation.go`) | destinations, results of deliveries, files in the output folder and at receivers | save and delete destinations, deliver with attempts, retain | automation, receivers | lost answers, copies that break off, names taken | what is recorded as delivered is there; artifacts of the latest runs stay, others go |
| Extraction run (`main.go`, `extraction_recovery.go`) | `state` (shared by pages and worker), chunks, completed and missing windows, the CSV and its manifest | fetch, retry, split, cancel, write | PCE client | truncation, failure, timeout, cancellation | every moment is covered once or reported missing |
| PCE traffic client (`illumio/client.go`) | cooldown, asynchronous queries | create, poll, download, delete | extraction run | 429 shared between workers | nobody waits for ever, no query is left at the PCE |
| Datasets, executive report, pages, exports | files, none | read, write | - | - | - |

The locks: `configUpdateMu` serialises settings changes against the commits of cycles and
reconciles, `configMutex`, `rollingMu`, `historyMu`, `venHistoryMu` and `reconcileMu` protect
single maps, `trafficServiceReconcileMu` the request queue, and `fullReconcileInProgress` admits
one full reconcile. A file reload, like a settings change, takes `configUpdateMu`
(`main.go:11223`); a query, a catalog read and the writing of a file after its content was copied
hold none of these locks.

## 2. Plan

Written and checked, in the order of their weight:

1. `TrafficServiceReconcile` - the service-exclusion protocol with the cycle, the full
   reconcile, the queue worker, startup and crashes: it decides what numbers operators see, and
   all goroutines meet there. With `TrafficServiceReconcile_proofs`.
2. `ExtractionAutomation` - templates, run queue, scheduler, worker, extraction state, restart;
   `RunLifecycle` - the abstract specification it implements. With `ExtractionAutomation_proofs`.
3. `BlockedAccounting` - the numbers themselves, where module 1 only asks under which filter they
   were counted: deduplication, rolling buckets, the 24-hour figure, the accounting of days.
4. `TamperingMonitoring` - what a cycle makes of the events it read; `TamperingReader` - how it
   reads them, with the rate limiter every PCE call shares. `TamperingMonitoring` takes a read as
   complete or failed; `TamperingReader!AnswerComplete` is what it relies on. With
   `TamperingReader_proofs`.
5. `AnomalyAlerts` - what the series of modules 3 and 4 make of alerts. With
   `AnomalyAlerts_proofs`.
6. `ExtractionChunks` - the extraction that module 2 takes as complete, partial or failed.
7. `ReportDelivery` - the delivery and retention that module 2 takes as one step. With
   `ReportDelivery_proofs`.

Each module has an `MC` module with its instances; a configuration only gives constants their
values.

Modules 3, 4 and 6 have their proofs in `BlockedAccounting_proofs`, `TamperingMonitoring_proofs`
and `ExtractionChunks_proofs`. Still open: the flights of the service catalog (module 1 reads the
cache in one step), deferral of query tiers under cycle pressure, and proofs of the properties
listed as model-checked only below.

The suite is kept to a dozen runs, so that all of it can be repeated after a change. Where one
instance answers two questions they are one run, and properties that fail together are one
conjunction. Earlier runs that only showed a disagreement are described below as bounds to give
an existing configuration.

Bounds are one or two of each thing that may interfere, because every hazard listed in
`PROJECT.json` needs one actor and at most two disturbances to show. Most modules bound the
disturbances together as well (`MaxTrouble`, `mode.most`): all pairs and many triples of them are
explored, never all of them at once. A `mode`, chosen in `Init`, says which kinds of disturbance
a behaviour may meet, so that a run covers several small mixes instead of one large one.

## 3. TrafficServiceReconcile

### State and actions

| Module | Code |
|---|---|
| `global`, `own` | `config.TrafficServiceExclusions`, `config.TrafficTargets` |
| `definition` (external), `catalog` | the PCE's service objects, `trafficServiceCatalog` |
| `rollingCache` | `ServiceFilterFingerprints`, `ServiceHistoryPending`, `BaselineBlocked`, buckets, initialised or not |
| `flowSeen`, `blockedDaily`, `reconcileDone`, `marker` | `blocked_flow_seen`, `blockedDaily`, `reconcileDoneByT`, `CompletedByTarget` |
| `savedRolling`, `savedDaily` | the files written by `saveRollingState`, `saveBlockedHistory` |
| `put` | the PUT handler between `saveConfigLocked` and the end of the invalidation; it holds `configUpdateMu` |
| `cycle`, `full`, `queue`/`worker`/`drained` | the goroutines: collection cycle, full reconcile, queue worker |

A count is the set of filter fingerprints that contributed to it: the properties ask under
which exclusions traffic was counted, never how much there was. A fingerprint is the effective
selectors with the version of the service objects they resolved to (`ver`), or `Unresolved`.

| Actions | Code |
|---|---|
| `PutTargets`, `PutInvalidate`, `PutPurge` | `handleConfigTargets`: up to the saved file, then the two halves of the invalidation |
| `ReloadConfig` | `reloadConfigIfFileChanged` |
| `DefinitionChange`, `CatalogExpire` | the PCE, the cache's expiry |
| `CycleFreeze`, `CycleDetect`, `CyclePurge`, `CycleCommit`, `CyclePublish` | `getIllumioStats`, `trafficTargetsWithRollingServiceFilterChanges`, `updateRollingAndBuildView`, `accumulateBlockedHistoryFromCycle`, `runCollectionCycle` |
| `StartQuery` ... `PurgeQuery` | `collectBlockedTargetPaced`, one target |
| `PreviousWrite` ... `PreviousMark` | `reconcilePreviousDayBlockedHistory`, one target |
| `FullPrepare` ... `FullFinish` | `startFullBlockedHistoryReconcileAsync`, `clearTrafficServiceHistoryPending` and the two passes it runs |
| `WorkerDrain`, `WorkerStart` | the worker of `requestTrafficServiceHistoryReconcile` |
| `Boot`, `Restart` | `maybeStartStartupBlockedHistoryReconcile`; a crash and the loading of what was saved |

Steps are cut where the code releases a lock, waits for the PCE or the disk, or hands over to
another goroutine.

`invalidateTrafficServiceFilterTargets` has four callers (PUT handler, cycle, rejected query,
reconcile) and is two steps in each: it changes the cache under `rollingMu` (`Invalidate`,
`main.go:2687-2703`), and only after the lock was released deletes the target's rows and saves
(`Purge`, `main.go:2705-2747`). Between the two other goroutines see the new cache with the old
flow table, and a crash loses the change of the cache. `Purging` is the set of targets
between the two. The end of a reconcile is cut the same way: `FullMark` clears what is pending in
memory, `FullShown` saves it. `SaveRolling` writes whatever is in memory by then - another
goroutine's half-done reset too - and may fail, which the code only logs (`main.go:12518-12524`).

Abstractions: the day does not change; hours, ports, hosts and retention are left out;
different selector sets are assumed to resolve to different filters; a change of the service
objects affects every named service; the days and targets of one reconcile pass are taken in
any order (the code sorts them); the query and the locked write of one reconcile job are one
step, since nothing is read between them that the write does not check again; a rejected PUT is
not a step, as it changes nothing; the sqlite deduplication backend (the default) is assumed,
so that `flowSeen` outlives a restart. The rows are deleted and the rolling state is saved in one
step: a crash between them leaves what a failed save leaves. Two failures are left out: deleting
the rows (`main.go:2738`; the flow table would keep superseded traffic) and `saveBlockedHistory`
(after it a saved marker could certify days that a restart does not load).

### Runs

| Run | Instance | Shows |
|---|---|---|
| `restart` | a named selector; a PUT with a crash, with a failed save of the rolling state, or with a failed query; a failed save, or a failed query or catalog read, with a crash; a redefinition with a crash or with the cache's expiry | `CertifiedHistoryCurrent`, `NeverUnfiltered`, `RollingCurrent` |
| `two_targets` | two removable targets, symmetric, one global selector, one PUT (`SpecAllFiltered`: both are configured if they start under exclusions) | `TypeOK`, `HistoryCurrent` |
| `liveness` | an upgraded installation with host metrics; one PUT and one manual reconcile, or one file edit, or one redefinition of a named service; fair | `RebuildsEnd`; `NothingForgotten`: `HiddenServed` and `RequestServed` |

Each run is exhaustive (0.5 to 2 million states, under four minutes). The bounds are what TLC
can finish: one change of the settings against one of everything that can interfere with it, and
two targets where something is batched, queued or removed. `Mixes` names the kinds that are met in
one behaviour, so that one run covers several small mixes; `expiry`, the one without a number, is
of use only where the next retrieval may fail or find other objects. `MaxSaves` is the number of
failed saves of the rolling state. After a failed save `CertifiedHistoryCurrent` looks at what is
on disk, so that a crash would add only what happens after it. Larger mixes - a PUT, a failed save
and a crash, a redefinition next to a PUT or to a failed query - are left to the theorems, which
bound nothing. The initial states are a new installation (`FALSE` in `Upgraded`), one upgraded from
a release without exclusions, whose data was never filtered (`TRUE`), or both. Deadlock is checked: the ticker can always
start another cycle.

Fairness (`FairSpec`): weak fairness of each goroutine's own steps (the settings handler's
tail, cycles, the full reconcile, the worker, startup). The Go scheduler runs every goroutine
that can run, HTTP calls have timeouts, and the ticker keeps starting cycles. Nothing is
assumed of the operator, the PCE's definitions, the cache's expiry or crashes. `RebuildsEnd`
is checked without faults only: after a failed query the code leaves history hidden until the
next restart or manual reconcile, by design of `startFullBlockedHistoryReconcileAsync`.

### What does not hold

Each of these is found with an existing cfg given other bounds and that property alone:

* `HistoryCurrent` in `two_targets.cfg` with one target (`Removable <- OneTarget` too) and `MaxPuts = 2` - a reconcile already
  running when exclusions change clears the pending mark of that change if its own filter equals
  the new one, although a day written under the filter in between was not part of it
  (`README.md:399` of the repository).
* `NothingForgotten` in `two_targets.cfg` - one superseded target fails the reconcile of the
  others, which nobody requests again (`RELEASE_NOTES.md:135`).
* `RollingCurrent` in `restart.cfg` with `Mixes <- AnyMix`, `MaxReloads = 2`, the other bounds 0 and
  `GlobalChoices <- AnyExclusions` - exclusions captured with a request are joined with global exclusions read
  later; after two edits of `config.json` within one reconcile, stale rolling data passes for
  current (`main.go:2411`; `README.md:398`).
* `RollingAsResolved` in `liveness.cfg` under `Spec` with `Mixes <- AnyMix`, `MaxDefinition = 1` and
  the other bounds 0 - currency is judged by selectors,
  not by what they resolved to, so that a service redefined between two catalog reads enters a
  baseline under its old definition (`main.go:5397`; `RELEASE_NOTES.md:141`).
* `RollingCurrent` in `restart.cfg` with `Mixes <- AnyMix`, `Named <- NoneOf`, `MaxPuts = 2`,
  `MaxCrashes = 1`, `MaxDefinition = 0` and `MaxFaults = 0` - `FullMatch` records a filter prepared before a PUT without asking
  whether it is current (`main.go:2413`), a cycle in progress counts under the newer one, and a second PUT back is on
  disk, but its reset is not made, when the process stops. Without a crash the same happens
  (`MaxPuts = 3`, `MaxCrashes = 0`, `Targets <- TwoTargets`, `Removable <- TwoTargets`) when the
  target is removed and added again without exclusions, for which no reset is due.
* `RollingCurrent` in `restart.cfg` with `Mixes <- AnyMix`, `Named <- NoneOf`, `MaxCrashes = 2`,
  `MaxDefinition = 0`, `MaxFaults = 0` and `MaxSaves = 0` - a PUT is on disk when the process
  stops. After the restart a cycle resets the target in memory, and before it has deleted the rows
  the reconcile of the startup completes and saves that state (`main.go:2703`, `2780`). If the
  process stops once more, the flow table holds traffic of the old exclusions under the new filter.
* `HistoryCurrent` in `restart.cfg` with `Mixes <- AnyMix`, `Named <- NoneOf`, `MaxDefinition = 0`
  and `MaxFaults = 0` - the reconcile at startup writes a day before any cycle recorded a filter, a
  PUT removes the exclusions, and the process stops before the reset: the first cycle sees data
  without a filter and a target without exclusions, and hides nothing. An edit of `config.json`
  in place of the PUT needs no crash.
* `CertifiedHistoryCurrent` in `restart.cfg` with `Mixes <- AnyMix`, `Named <- NoneOf`,
  `Upgraded = {TRUE}`, `MaxDefinition = 0` and `MaxFaults = 0` - an upgraded installation with exclusions rebuilds days at
  startup, a PUT removes the exclusions, and the process stops before the reset: no filter is
  recorded, and the marker of the old release, which knows no exclusions, certifies those days. A
  second PUT does it to a new installation (`MaxPuts = 2` in place of `Upgraded`).

These are why `HistoryCurrent` is a passing property only of a run with one PUT and no crash,
`RollingCurrent` only of runs without file edits and, where the process may stop, with one PUT and
one crash,
`CertifiedHistoryCurrent` only of new installations with one PUT, and `NothingForgotten` only of
runs with one target. The theorems below carry the same conditions.

### Theorems (`TrafficServiceReconcile_proofs`)

For any targets, selectors, exclusions and bounds, from `ConstantsAssumption` alone (named
selectors and choices are selectors, today and yesterday are two of the days, `None` is none of
the values it marks the absence of):

* `Served`: `RequestServed`, half of `NothingForgotten`, inductive as it stands: only `WorkerDrain` lets the worker exit,
  and it has emptied the queue.
* `Typed`: `TypeOK`. It is not inductive: a result or a job belongs to a target for which a
  filter was prepared, which the type of `cycle` and `full` does not say. `TypeInv` adds
  `StepsPrepared` and `JobsPrepared`.
* `AttributionHolds`: `AttributionInv` (no count holds data of a filter nobody recorded), relative
  to `TypeInv`. Data is added only for targets a
  cycle prepared; their filter is recorded when the cycle looks for changes (`SeenRecorded`) and
  every later step replaces recorded filters by others, except the first cycle's commit, which
  replaces the counts too, and a restart, after which no cycle is in progress.
* `Resolved`: `NeverUnfiltered`, strengthened to what is on disk (`ResolvedInv`).

The other four have a condition in their statement, on how much of the bounds was spent so far
(`Unedited`: no hand edit of `config.json`; `Undisturbed`: nor a restart); without any
one of the conditions TLC finds the property violated, in most cases by a behaviour listed above. Everything the condition does not name - faults, redefinitions,
manual reconciles, expiries, the size of every set - is unrestricted.

* `Rolling`: `RollingCurrent` while `Undisturbed` and with `Removable = {}` (see above for targets
  that are removed and added again). Any number of PUTs. `RollingInv` lets a target whose settings were
  saved wait for its reset (`Awaiting`), and knows that of data without a recorded filter the flow
  table holds no more than the buckets, which is what the next cycle looks at. What it says of the
  flow table it says of targets not in `Purging`; `PurgeInv` makes sure that a target leaves
  `Purging` only in the step that deletes its rows (`PurgingLeft`, `PurgedEmpty`).
* `History`: `HistoryCurrent` while `Undisturbed` and after at most one PUT. Two invariants:
  `FreshInv` - until the first PUT everything captured from the configuration (the frozen cycle, the
  reconcile, the queue worker's targets, late filters) agrees with it; `HistoryInv` - a target's
  days are hidden, or under the exclusions in force, or left by an older release and not yet met by
  a cycle (`Leftover`), and a reconcile without a failure has only its remaining jobs still to
  replace (`FullOf`), so that one which completes may show what it rebuilt.
* `CertifiedHolds`: `CertifiedHistoryCurrent` while `Unedited`, after at most one PUT, on a new
  installation - with any number of crashes and failed saves of the rolling state. `CertifiedInv` drops what is hidden from the argument:
  a marker for the exclusions in force implies current days, in memory and on disk (`MarkedOf`).
  `RebuiltOf` extends `FullOf` to the disk: a day that was rewritten is saved, or will be when the
  pass ends; a day that memory does not have is not on disk either (`SavedStored`), or a reconcile
  that lists the days of memory would certify what a restart loads. `MarkersInv`: before the PUT
  only the exclusions in force have markers.
* `Remembered`: `NothingForgotten` until a query fails, with one target (`Alone`) or settings
  nobody changes. `HiddenInv` follows a request from who hid the history and is about to ask
  (`Asking`), through the queue and the worker's hands (`Waiting`), into a reconcile that will show the target: it has it, has not failed, and
  holds the filter it is hidden under (`Underway`) - `FullMatch` makes that so, and every later
  reset asks again.

Model-checked only: the two liveness properties, which need fairness and are outside the prover's
reach.

## 4. ExtractionAutomation

### State and actions

| Module | Code |
|---|---|
| `data`, `disk` | `AutomationManager.data` (templates and runs) under `manager.mu`, `automation.json` |
| `queue`, `waiting` | the channel `manager.queue`, the goroutines `queueRun` leaves waiting for room in it |
| `recovery` | `recoverQueuedRuns`, which holds up the start of the program |
| `scheduler` | `processSchedules` between saving the schedules and queueing their runs |
| `worker` | where `executeRun` is, for which run, and what it is about to send |
| `extraction` | `state.CancelFunc`: who extracts, and how far; its context |
| `result` | `FileName`, `IsPartial`/`FailedChunks`/`RunError` (one flag), `IsCancelled` of `state` |
| `canceller` | `cancelQueuedRun` between `manager.mu` and `state.Mu` |
| `output` | the CSV an extraction wrote: the truth `result` is compared with |
| `sent` (external) | what receivers got |

| Actions | Code |
|---|---|
| `SaveTemplate`, `DeleteTemplate`, `StartRun`, `CancelQueued`, `CancelRunning`, `CancelSignal` | the handlers of the automation page and the `AutomationManager` methods they call |
| `CancelExtraction`, `StartExtraction`, `LoadDataset` | `handleCancel`, `handleStart`, `handleDatasetLoad` and `handleImportCSV`, which use the same `state` |
| `FallDue`, `ScanSchedules`, `QueueDue` | the clock, `processSchedules` |
| `WaitingSend`, `ScanQueued`, `SendRecovered`, `RecoveryDone` | sends to the channel, `recoverQueuedRuns` |
| `TakeRun` ... `MarkRunning` | `executeRun` up to `runExtraction`, cut at its waits and locks |
| `ExtractAbort`, `ExtractFetched`, `ExtractWritten` | `runExtraction`: ended before a query, all chunks done, CSV written or not |
| `FinishCancelled` ... `FinishCompleted` | the five ways `executeRun` ends a run |
| `Deliver`, `RecordDelivery` | `deliverToTemplateDestinations`: sent first, recorded afterwards |
| `Restart` | a crash at any moment and `load` |

`RunLifecycle` is what the history promises of a run: it waits, runs alone and at most once,
and keeps its outcome until, at most one per new run, it is dropped. The refinement maps a run
to its status, to `dropped` if its id was used and the history has it no more, and else to
`new`.

Abstractions: run ids are numbers, so that the newest run is the greatest (the code draws random
ids and prepends); a template id is not reused while anything refers to it (random ids); a
schedule is off, later or due, and a cron expression that never fires is left out; a template is
the three settings that decide whether it overlaps, runs late and reports failures; what follows
the end of a run is `ReportDelivery`'s; what `executeRun` reads of
`state`, its verdict and the save of it are one step, although the code generates the executive
reports in between; a save fails before or after the file was replaced (`LateFaults`), and a
failing `load` is not a step, as the program then does not start; template names are distinct.
An extraction's context is cancelled only by an operator: `NewHandler` is given
`context.Background()`, and nothing stops the worker in order.

### Runs

| Run | Instance | Shows |
|---|---|---|
| `run_fault` | two runs, a channel of one; one due time, edit, run of the page, cancellation, loaded dataset, failed save (early or late) and crash, any three of them together | `QueuedInHand`, `ReportedOnce` |
| `run_liveness` | three runs, a history of two, a channel of one, both kinds of template; one due time, cancellation of a running run and crash, two of them together, fair | `TypeOK`, `RunListTrue`, `ReportsTrue`, `ImplementsLifecycle`, `QueueEnds` |

Each run is exhaustive (1.2 and 0.3 million states, under three minutes). Three runs and a channel of
one make sends and recovery wait; a history smaller than the runs makes it drop one the worker or
the channel still holds; one crash separates what was saved from what was sent. Deadlock is not
checked: once the bounds on due times, edits and crashes are used up, the worker rightly waits for
ever.

`RunListTrue` is `NoOverlap` (at most one run of a template that skips overlaps), `RunningIsExecuted`
(what is listed as running is being executed) and `QueuedOnDisk`; `ReportsTrue` is `MessagedOnce` and
`ReportsComplete`; `QueueEnds` is `RunsEnd` and `RecoveryEnds`.

Some are checked under conditions the code imposes. `NoOverlap` is checked without
edits: a template may be changed to skip overlaps while two of its runs are queued. `MessagedOnce`
and `QueuedOnDisk` are checked without failed saves, whose errors the worker ignores: then
`ReportedOnce` is what remains with one fault. `ReportsComplete` is checked without datasets and
extractions of the page, which can replace the result the worker is about to read.

Fairness (`FairSpec`): weak fairness of the worker, the extraction, the scheduler, recovery, the
canceller and every waiting send. They are goroutines the Go scheduler runs when they can, every
query of an extraction has a timeout (`maxChunkQueryTime`) and its context a deadline
(`maxExtractionTime`). That an extraction ends is an assumption here and a property of
`ExtractionChunks` (`RunEnds`). Nothing is assumed of operators, the clock or crashes.

### What does not hold

Each is found by `run_fault.cfg` with the property as its only one (`PROPERTY`, or
`INVARIANT` for `PartialNotReported`) and these bounds (others 0, `MaxTrouble` their sum, `MaxRuns = 2` unless given):

* `CancelledNotStarted`, with `MaxManual = 1`, `MaxCancels = 1`, `CancelFrom = {"queued"}`,
  `QueueSize = 2` - the worker reads that a run is queued, waits for another
  extraction to end, and executes the run although it was cancelled meanwhile
  (`automation.go:903`, against `automation.go:724` and `automation_http.go:319`).
* `PartialNotReported`, with `MaxLoads = 1`, `MaxRuns = 1` - a dataset loaded while a partial CSV is
  written makes the run complete, delivers it and makes it a baseline (`automation.go:937`;
  `README.md:146`).
* `DueSurvivesRestart`, with `MaxDue = 1`, `MaxCrashes = 1` - the schedule is advanced and saved
  before the due run is queued; a crash in between loses the run (`automation.go:862`;
  `automation.html:248`: "Queued and scheduled runs survive restarts").
* `CancelStopsOwn`, with `MaxManual = 1`, `MaxCancels = 1` - cancelling a run that is just ending
  stops the extraction of the page that began after it (`automation.go:713`).

They are why `ImplementsLifecycle` is proved without cancellations of queued runs, and why
`ReportsComplete` is checked without loaded datasets.

### Theorems (`ExtractionAutomation_proofs`)

For any templates, runs and bounds, from `AutomationAssumption` (policies have their type, the
history keeps at least one run, bounds and the channel's capacity are naturals, `None`, `Manual`
and `Dataset` are neither ids nor each other) and `NoneAssumption` (nor is `None` a run):

* `Typed`: `TypeOK`, split into parts so that each step proves only those it can disturb. The
  capacity of the channel rests on every send looking for room.
* `Executed`: `RunningIsExecuted`, part of `RunListTrue`. The worker marks its run only after it has read that nothing
  else extracts, ends it in the step that leaves `run`, and a restart ends what was running.
* `NoRunForgotten`: `QueuedInHand`, with every fault and crash. A run becomes queued only together
  with a send; a run taken from the channel is the worker's until its status changes; a restart,
  which empties the channel, starts recovery over.
* `LifecycleImplemented`: `ImplementsLifecycle`, assuming `MaxFaults = 0` and that no queued run
  is cancelled (`"queued" \notin CancelFrom`). The inductive invariant is `LifecycleInv`: types, `RunningIsExecuted`, the disk
  and memory hold the same history (`SavedRuns`, or a restart would undo steps), the history
  holds used ids and the newest only (`Recent`, or trimming could drop two), and the worker's run
  has the status its stage implies or was dropped (`WorkerHas`). Every step then is a step of
  `RunLifecycle` or changes no status (`Step`).

* `RunList`: `RunListTrue`, as long as also nobody edits a template. Added to `LifecycleInv` is
  `ListInv`: what is in the file is what is in memory, and two jobs of a template that skips
  overlaps are one (`Single`). `queueRun` keeps it because the new run belongs to the one template
  it was not refused for (`QueueOwners`), and every other step keeps the templates of runs and the
  policies of templates (`StoreSteps`).
* `DeliveredOnce`: `ReportedOnce`, as long as at most one save failed. The inductive invariant
  `OnceInv` holds of what counts when no save may fail, all messages, and when one may, the reports
  (`OnceOf`): a run something was sent of is over in the history, not queued in the file, and not
  in the worker's hands. Beside it: ids are not used again (`Numbered`), file and history differ
  only by a failed save (`Synced`), the worker's run is not queued once it is marked (`Marked`)
  nor anywhere once it is dropped (`Gone`). Each step keeps it because of how a store can change
  (`Follows`, `Stored`): of all runs but the worker's the status stays or is over. Two failed
  saves, of "running" and of the outcome, make a restart report the run twice.
* `Reported`: `ReportsTrue`, with no failed save and without extractions of the page or datasets
  (`Alone`). `OnceInv` gives `MessagedOnce`; `ReportInv` follows a result from the extraction to
  the message: the extraction in progress is that of the worker's run (`Own`), a result that
  calls itself complete is the full output of that run (`Fetched`), so is what is being sent and
  was sent (`Reporting`, `Backed`), and a run called completed in memory or in the file names its
  own result (`Honest`). Pages and datasets share the extraction state (`PartialNotReported`
  above is what then happens), so the condition cannot be dropped.

Model-checked only: `QueueEnds`, liveness, which is outside the prover's reach.

## 5. BlockedAccounting

Where module 3 asks under which exclusions traffic was counted, this one asks how much. One
target; time is a number of refresh intervals.

| Module | Code |
|---|---|
| `detected` (external) | what the PCE answers: the flows blocked in each interval |
| `rolling` | `rollingCache.LastCycle`, `BaselineBlocked`, `Buckets` |
| `seen`, `tracked` | `blocked_flow_seen` (sqlite), or `BlockedFlowLastSeen` (memory), which a restart empties |
| `hosts5m`, `days` | `blocked_hosts_5m`; `blockedDaily`, `blockedDaily5mCaptured`, `blockedHostsDaily` |
| `disk` | their saved copies |
| `cycle`, `job` | `getIllumioStats`, `runCollectionCycle`; `startFullBlockedHistoryReconcileAsync` |
| `doneDay`, `reseed` | `reconcileDoneByT`, `startupHostReseedPending` |

| Actions | Code |
|---|---|
| `StartCycle`, `QueryFails`, `QueryCountOnly`, `QueryDetailed`, `DedupeFails` | the window since the last cycle or, after a gap, of 24 hours; its answer, with flows or, under API pressure, as a number; the transaction of the deduplication, which may be lost |
| `Account`, `SaveCycle` | `updateRollingAndBuildView`, `accumulateBlockedHistoryFromCycle` and its three saves |
| `ReconcilePrevious`, `SavePrevious`, `Publish` | `reconcilePreviousDayBlockedHistory`, `saveRollingState` |
| `StartJob` ... `SaveToday` | the two passes of the full reconcile |
| `Restart` | a crash at any moment, and the loading of what was saved |

`acct` checks `FiguresRight` (`Shown24h`: the 24-hour number is at most, and with complete answers
exactly, the distinct flows of the last 24 hours; `TodaySoFar`: the same since midnight), `CountedOnce` (no
detection is captured on two days or twice, no connection of a host is added twice) and
`SettledStands` (a day reconciled after its end keeps the PCE's number). Instance: one flow, as
no step relates two; a day of three intervals and two days, so that midnight, expiry, pruning and
a gap longer than `MaxGap` all happen; two of a failed query or save, a count-only answer, a full
reconcile and a crash; four modes of backend and disturbances. Two minutes. The clock stops at
its bound, hence no deadlock check.

Two neighbours of these properties do not hold and are stated in the module, not checked:
`ReconciledTotals` (a full reconcile begun before midnight overwrites the day that has ended
meanwhile, after the previous-day reconcile, with the part of it that had passed:
`main.go:8151`), which is why `SettledStands` leaves such days out; and `HostDaysOnce` (a restart
asks for the last window again and the daily host table adds it again, where the flows are
deduplicated).

### Theorems (`BlockedAccounting_proofs`)

For any flows, window, gap, days kept, modes and troubles, from `FlowsAssumption`,
`TimeAssumption`, `ModeAssumption` and `NoneAssumption`; the bounds on the clock and on troubles are
any numbers:

* `Typed`: `TypeOK`; `Figures`: `FiguresRight`; `Stands`: `SettledStands`; `CountsOnce`:
  `CountedOnce`.
* `Right`: the inductive invariant `AccountingInv` behind the first three. Its parts are stated at
  `Bound`, the time the cycle in progress works at and not the clock's, which may have moved on.
  `SeenOK` says what is known of flows: real detections only, and the latest of every flow an
  answer that is still counted (`applied`) had; `DaysOK` is stated of the tables in memory and, in
  `DiskOK`, of the saved ones with the settled days saved with them, or a crash between the two
  saves would break it. A cycle that is not a baseline asks for what follows the last one
  only, and the first cycle, which forgets the flows it has just learnt, is one (`CycleOK`).
* `CountsOnce` needs two more invariants, and the argument is one of paying. `CaptureInv`: every
  capture, with those the cycle is about to add (`Pending`), is paid for by a detection of its own
  that will never be new again (`Paid`): its flow is known to have been seen since, or it is so old
  that no window asks for it, or older than `Floor`, the end of a baseline still to come or of the
  last one. Restarts may read an older last cycle, so `Floor` is the baseline's end where hosts are
  not collected, and the present where the restart orders a baseline; that a saved baseline is the
  one in memory (`BaselineInv`) is what makes the first true. `HostsInv`: the rows of the host table
  from any time on hold no more connections than there are detections in the windows those rows
  were asked for, because these windows do not overlap (`RowsAnswered`), and a restart with hosts
  clears the rows before asking again.
* What a sum of captures can become is settled by `TotalGrows` and `TotalPlus`, of the cells such a
  sum counts; that an answer adds no more than it detected by an injection into the detections
  (`HitsPay`).

## 6. TamperingMonitoring and TamperingReader

`TamperingMonitoring` is what a cycle makes of the events it read.

| Module | Code |
|---|---|
| `events` (external) | tampering events at the PCE |
| `rolling` | `rollingCache`: last event time of each workload, baseline of an older release, samples, the flags of the migrations |
| `days`, `disk` | `venDaily` (`TamperingMax`, `TamperingComplete`), saved copies, completion marker |
| `cycle`, `job` | the goroutines: the cycle with the copy of history it is about to write, and `startTamperingHistoryReconcileAsync` with its copy |

| Actions | Code |
|---|---|
| `StartCycle`, `ReadAll`, `ReadFails` | the window asked for (`collectionWindow`, `Backfill`), the answer complete or part of the events |
| `Account`, `Prune` | `updateTamperingLastSeenLocked` and `rollingTamperingViewLocked` in `updateRollingAndBuildView`, `updateVENDailyHistory`, `pruneVENHistory`, the migrations, the list shown, the five-minute sample, the daily count |
| `CycleCopies`, `CycleWrites`, `Publish` | `saveVENHistory` copies under the lock and writes after it; `saveRollingState` |
| `StartJob` ... `Mark` | the reconcile day by day, its save, the marker |
| `Restart` | a crash, loading, and the days startup has reconciled again |

`tampering` checks `FiguresExact`, that is `RollingExact` (after a complete read the list is exactly the workloads of the
last 24 hours with their latest event, otherwise nothing listed is false; a sample counts exactly
its five minutes) and `DaysExact` (no day counts a workload twice or another day's, reconciled days
keep the PCE's count), and `EvidenceKept` (a failed read removes nobody). Instance: two workloads
(symmetric) and a name wrongly recorded by an older release, two events, two days, two of fault,
reconcile and crash, six modes. Two minutes.

`tampering_marked` shows a disagreement: `saveVENHistory` copies the history under a lock and
writes it after releasing it (`main.go:12986`), so a cycle can write a copy made before the
reconcile over what the reconcile saved; the day's marker is then saved, and after a restart the
old count is loaded and skipped, although `README.md:708` describes marked days as done. It needs
no fault and no crash to be on disk.

Abstractions: a local day has 24 hours, so the first hour of a 25-hour day, whose events the list
drops after 24 hours (`main.go:6991`) while the day's count still asks for them
(`main.go:4508`), is outside the model; the policy collector, a third writer of the VEN
history (`updatePolicyDailyHistory`, `main.go:4771`), is left out: it changes other fields of the
day, but saves the whole history by the same copy and write as the cycle.

### Theorems (`TamperingMonitoring_proofs`)

For any workloads, names left by older releases, window, interval, modes and troubles, from
`NamesAssumption`, `TimeAssumption`, `ModeAssumption` and `NoneAssumption` (the mark of an unknown
sample is neither a number nor a truth value):

* `Figures`: `FiguresExact`; `Evidence`: `EvidenceKept`, an action property; `Typed`: `TypeOK`.
* `Right`: their inductive invariant `FiguresInv`. `RollingOK` is stated of the rolling state in
  memory and of the saved one: each sample is exact; each time is a real event once an exact list
  replaced what older releases left; and, unless a full read is owed (`pending`), every workload's
  latest event is there - the last part is why a partial read must leave `pending` set, and why it
  may not be lost in a crash. `HistoryOK` is stated of the days in memory, of those saved and of the two
  copies being written, each with the days reconciled in it. `ReadOK` says what a read promises:
  events of the window only and, if complete, all of the stretch since the last cycle, which a
  cycle that was late makes longer than an interval. `ShownOK` ties the number last shown to the
  day it was counted in, since a day takes the list's number and not a new count.

Model-checked only: `MarkedDaysCounted`, which does not hold.

### TamperingReader

`TamperingReader` is how the events are read, and the limiter all PCE calls share.

| Module | Code |
|---|---|
| `limit`, `used` | `apiRateLimiter`, `cycleUsed` |
| `call` | callers of `apiCallRawWithClient`: waiting for a turn, sent |
| `reader`, `got` | `tamperingEventReader`: what it asks next, ranges still to read; events retained |
| `ideal` | history: a bucket that refills at the highest rate, the longest back-off told |

| Actions | Code |
|---|---|
| `Begin`, `WaitTurn`, `Limited`, `Returned`, `Configure` | another caller; a 429 (`noteRateLimit`); `applyConfig` |
| `ReaderTurn`, `Resume`, `ReaderLimited`, `Unavailable`, `RequestFails` | `waitTamperingTurn`, `do` and its attempts |
| `Accepted`, `PreferIgnored`, `JobPending`, `JobDone`, `JobFails`, `LinkUnsafe`, `ResultRead` | the asynchronous collection and its fall-back |
| `Visit`, `RangeRead` | `syncRange`: a full answer is split at its middle, or around the one instant it is full of |

`reader` checks `AnswerComplete` (what is called complete is), `OnlyCrowdedMissing` (when all is
answered, only an instant with more events than one answer holds is incomplete), `RequestsPaced`
and, fair, `ReaderEnds`. Instance: seven instants with up to five events and answers of at most
two, so that ranges are split to the end; one other caller; seven modes, quick ones with three
failures of any kind within a deadline that comes at any moment, paced ones where the bucket runs
dry and a 429 is met. Under two minutes. Fairness: time passes and the reader's goroutine runs,
each of its requests having a context with a deadline. The other callers are not fair: they may
stop for ever.

Abstractions: the PCE answers exactly (external); a response is taken apart in one step;
`fetchTamperingEventsBySlices`, which only tests call, is left out; the tokens are numbers of
equal parts of a request; `used` counts from the start, while `beginCycle` restarts the code's
counter (`main.go:709`), which only the log reads.

### Theorems (`TamperingReader_proofs`)

For any window, limits, rates, callers, events and failures, from `SizesAssumption` and
`ModesAssumption`:

* `Typed`: `TypeOK`; `Paced`: `RequestsPaced`; `Complete`: `AnswerComplete`; `Thorough`:
  `OnlyCrowdedMissing`.
* The inductive invariant `TypeInv` has two independent halves. `PaceInv` bounds the limiter and
  relates it to `ideal`: the last back-off told is the one in force, and the ideal bucket holds at
  least what the limiter's would after refilling at the highest rate since it last did, up to the
  burst. A turn is granted only with tokens, so the ideal bucket has them too, although the rate
  changed in between.
* `ReadInv` says of the reader that what it retained was read, and, of each phase, what makes its
  answer complete: while ranges are read, the reader has failed or every event is retained or lies
  in a range still to be read (`Covered`), and a range that may be skipped at the deadline is
  guarded by one before it that sets the failure (`Guarded`): this is the non-obvious part, as the
  range after a crowded instant is skipped silently.

* `TidyInv` is the other direction, what must not be missing: as long as every request was answered
  and the deadline has not passed, every event is retained, lies in a range still to be asked for,
  or is of an instant that one answer cannot show, and only such an instant makes the answer a
  partial one. The condition is about the past, so the proof first shows that a step which leaves
  it true found it true (`Calm`, `StillTime`). The heart is `CrowdedHeavy`: an answer that reaches
  the limit for a range of one instant is proof of a crowded one, and any longer range is split so
  that both halves together still cover it.

Model-checked only: `ReaderEnds`.

## 7. AnomalyAlerts

| Module | Code |
|---|---|
| `series`, `daily` | the metric's samples in `rollingCache.Buckets`, its daily history |
| `alerts`, `history`, `disk` | `alertState`, `anomalyHistory`, what is saved of them |
| `enabled` | alerts enabled per target |
| `cycle` | `runCollectionCycle` between collecting and sending |
| `readings`, `moves`, `sent` | history variables: what the PCE said, changes saved, webhooks sent |

`Collect` adds a sample or, when the query failed, does not (or adds what rows there were: VEN
health); `Evaluate` and `Process` are the decisions against a moving average or the daily baseline
and `processWebhookAlerts`, which hold back what no evidence supports; `SaveState`, `SaveHistory`
and `Send` are its tail in order; `Settings` waits for the lock they hold; `Restart` loads.

`alerts` checks `AlertsTold` (`SentOnce`: a webhook only for a saved change, at most once;
`HistoryTells`: until the process stops, also when a save fails, transitions of a key alternate and
the last kept is its state; the history is a set ordered by time, as pruning sorts it) and `MovedOnEvidence` (an alert fires
only on values read and recovers only in a cycle that read the metric). Ten modes of one key with
samples up to two or two keys with samples up to one, each kind of metric and baseline against
pairs of failed reads, failed saves, crashes and settings changes; six intervals, so that the
window of two samples fills, slides and expires. A minute.

`FailedReadResolvesNothing` does not hold and is not checked: VEN warnings and errors count the
rows a failed query left, which the comment at `main.go:3363` excludes only for stopped VENs and
tampering. Alerts of daily maxima are covered as a basis of comparison, the building of the days
is `BlockedAccounting`'s and `TamperingMonitoring`'s.

### Theorems (`AnomalyAlerts_proofs`)

For any metrics, modes, thresholds, windows and numbers of troubles, from `ValuesAssumption` and
`ModeAssumption`:

* `Typed`: `TypeOK`, which needs that the latest time and the maximum of a finite set exist (`Least`,
  `MaxOf`) and what each phase of the cycle holds.
* `Announcements`: `AlertsTold`. Two invariants. `SendsInv`: as long as no save failed, the saved alert state lags only
  between `Process` and `SaveState` (`Held`), and a webhook is owed only for a change that is saved
  (`Owed`), so that a crash may lose webhooks and never repeats one. `TellsInv`: until a restart, the events tell the
  alerts as they were before the change still to be appended (`Told`, `Shown`). Pruning preserves it
  because the events of a key bear increasing times (`Stamped`), so that it takes the oldest only.
* `OnEvidence`: `MovedOnEvidence`. `AgreeInv`: the samples of targets, stopped VENs and tampering in
  the last 24 hours are the values the PCE gave, and so are those saved, which a restart brings
  back. `KnowsInv`: what `Evaluate` found anomalous still stands when `Process` uses it, as the samples
  do not change in between while settings may. Lemma `Exceeding` turns the percentages of the code
  into a comparison with the mean.

All three leave the numbers free: no bound of the configuration is used. `FailedReadResolvesNothing`
(above) is not among them, because it does not hold.

## 8. ExtractionChunks

| Module | Code |
|---|---|
| `work` | a worker of `runExtraction`: its chunk, the windows still to visit, attempt, query |
| `processed`, `completed`, `counted`, `missing`, `whole` | the counters under `resultMu` |
| `cooldown` | `CooldownUntil`, shared by the workers |
| `queries`, `strays` | asynchronous queries at the PCE; those nobody can delete |
| `file`, `disk` | the tail of `runExtraction`; CSV and coverage files |

| Actions | Code |
|---|---|
| `Take`, `Leave`, `Visit`, `Finish` | a worker's loop, `fetchExtractionChunk`, recursion as a list of ends |
| `Look`, `WaitOver`, `CooldownOver` | `waitForCooldown`, checked before a request |
| `Created` ... `Abort` and `Fails` | `FetchDayOfTraffic`: create, poll, download, delete, and how each fails |
| `Assess`, `CreateFile`, `WriteFile`, `WriteManifest` | completeness, name, CSV, manifest |
| `EndContext` | cancellation and the deadline |

`chunks` checks `EachMomentOnce`, `FileTells`, `QueriesDeleted`, `OnlyFutile` and, fair, `RunEnds`.
Instance: two workers (the third adds no new pairing), seven moments in chunks of three - the
last shorter -, windows split once, three failures of any kind, five modes of where the rows are
and which files exist. A minute and a half. Fairness: each worker runs, a query ends or is given
up after `maxChunkQueryTime`, a cooldown passes.

Abstractions: rows are numbers per moment; a crash is `ExtractionAutomation`'s - it leaves an
unfinished CSV under its final name, which nothing removes. A name that is taken is not written
(`O_EXCL`): a second name is tried, which is taken too or not. Two
failures are left out: of removing an unfinished CSV at the end of the run (`main.go:3473`, its
error is dropped, so the file would stay as after a crash), and a reply to a query's creation that
cannot be decoded (`client.go:644`), where the attempt fails at once and leaves the query at the
PCE as a lost reply does.

### Theorems (`ExtractionChunks_proofs`)

For any range, interval, limits, workers, attempts, modes and troubles, from `SizesAssumption`,
`WorkersAssumption` and `ModesAssumption`:

* `Typed`: `TypeOK`; `EachMoment`: `EachMomentOnce`; `Told`: `FileTells`; `Deleted`:
  `QueriesDeleted`; `Futility`: `OnlyFutile`.
* `Once`: the inductive invariant `OnceInv`. `ChunksInv` says who holds a chunk: one worker at most,
  none once it is processed, all below `next`; the ends still to visit grow. Each moment then is in
  exactly one of four places (`OnlyIn`): counted, in a window reported missing, in a gap of the worker that
  holds its chunk, or still to come. `EachMomentOnce` counts them; the invariant must say which one
  it is, because a worker that commits, splits or gives up moves moments from one place to another
  while others do the same.
* `FilesInv`: what was aggregated is what completed windows cover, a file is unfinished until it
  is written, and its name says `_PARTIAL` exactly if something is missing.
  `QueriesInv`: only a worker that polls or downloads has a query, and no two the same.
* `FutileInv`: a window at depth n is not longer than the interval halved n times, for which the
  recursive function `PowerOfTwo` is first shown to satisfy its equation; each attempt after the
  first cost a trouble, so that with fewer troubles than attempts no window is given up for them.
  Induction is done by least counterexamples (`Least`, `Induction`), since the library's theorem
  takes an operator.

Model-checked only: `RunEnds`, liveness under fairness.

## 9. ReportDelivery

What becomes of the runs of one template once they are extracted: files, deliveries, retention.

| Module | Code |
|---|---|
| `mode` | the template: its destinations, the reports it wants, whether its file-name pattern names the run or time, what it tells; which troubles are met |
| `enabled`, `runs` | `Destinations[..].Enabled`, the template's `AutomationRun`s with `ArtifactPath`, `AdditionalArtifactPaths`, `DeliveryResults` |
| `folder` | `SavePath`: which run wrote each file |
| `worker` | the tail of `executeRun`: destinations still to serve, artifact, attempt, results so far |
| `received`, `files` (external) | messages at webhooks, Slack, Teams, e-mail; files in shared folders and at SFTP servers |

| Actions | Code |
|---|---|
| `NoArtifact`, `PartialArtifact`, `FullArtifact` | the name asked for is taken or nothing was extracted; the CSV, its `_PARTIAL` name, the name with a time when that is taken, the coverage file |
| `WriteReports` | `generateScheduledExecutiveArtifacts`, and the run saved as completed or failed |
| `Decide` | `shouldDeliverRun` |
| `SendMessage`, `CannotSend`, `OpenCopy`, `Copy` | one attempt of `deliverMessageWithRetries`: a message served, acknowledged or not; a file created exclusively, then written, removed or left |
| `Record` | the results of all destinations, recorded together |
| `Retain` | `applyRetention` |
| `EditDestination`, `TakeCsv`, `Restart` | the destinations page; a CSV moved by the operator; a crash |

`delivery` checks `ReceiversTold` (`ResultsTell`: what is recorded as delivered is at its destination
then and ever after, and every destination enabled at the start has a result, whichever failed
before; `SentInOrder`: no message comes twice unless an answer was lost, and none before the
artifacts listed before it; `WholeFiles`: a file under its final name is whole, being written, or
left by a crash or a broken connection), `RetentionExact` (`RecentKept`: the files of the latest
runs are there and are their own, if each run has a name of its own; `OthersRemoved`: all others are
gone once retention went through, also those it could not remove the time before) and, fair,
`DeliveryEnds`. Instance: four runs of six templates with two destinations, the latest one run
kept, two attempts, three troubles, one of each kind. Half a minute. Fairness: the worker runs, and
each attempt has a deadline (`deliveryTimeout`). The runs are used up, hence no deadlock check.

What does not hold: `RecentKept` for a template whose pattern names neither run nor time.
Retention removes the paths listed for old runs. A partial run writes `X_PARTIAL.csv`, the next finds
that name taken and adds a time, retention then removes the first, and the third run takes the
free name again: retention, which still lists the first run, deletes the third one's file right after
it was delivered (`automation.go:1202`, against `automation.html:150`: "Keep Recent Run
Artifacts"). To see it, give `Modes` the one template `Template(<<>>, {}, FALSE, {"partial"}, {})` and
check `RecentKept` with `mode.unique` ignored. A delivery that a crash prevented is never made, and
an SFTP connection that breaks leaves a part of the file under the final name, which makes all
later attempts fail as "already exists": the properties leave both to the conditions they name.

Abstractions: an attempt is served as a whole or not (Slack's three requests are one); two
destinations do not share a folder; the history is longer than the runs, so that none is dropped
before its files; a `threshold` may or may not be met, a manual run of a template that does not
deliver those is like one that missed it.

### Theorems (`ReportDelivery_proofs`)

For any templates, destinations, reports, attempts, runs and troubles, from `SizesAssumption`,
`ModesAssumption` and `NoneAssumption` (the mark of "no artifact" is no file):

* `Truthful`: `ReceiversTold`; `Typed`: `TypeOK`.
* The inductive invariant `DeliveryInv` adds to it what the worker relies on. `InHand`: the artifacts
  of the run being delivered are, if they are still in the folder, its own, and differ from each
  other, so that a position in the list is an artifact. `Serving`: the destinations asked are
  divided into those that have a result, which is true, and those still to serve, of which one has
  the artifacts before the one in hand. `Unsent`: the others have nothing of this run, and that one
  nothing after that artifact and its copies only by lost answers - without it "once" and "in order"
  would not survive a retry. `Copying`: a file being written is not whole, so that removing it, or
  leaving it broken, takes nothing from a recorded delivery.
* One lemma for each way an attempt ends (`TriedAgain`, `NextOne`, `DestinationDone`) serves all
  kinds of destination; `HasStays` says that what a destination has of a run it keeps as long as
  messages and whole files stay.

* `Retained`: `RetentionExact`, by `DeliveryInv` and an invariant of its own, `KeepInv`. `Owned`:
  every file is of a run that lists it or of the run whose reports are being made, unless the
  process stopped between the two - the file of such a run is removed by nobody, which is why
  `OthersRemoved` excludes crashes. `OwnNames` and `Present`: with a name for each run, no file is of
  two runs, and those of the latest runs are there; without it a later run overwrites an earlier
  one's coverage or is refused, and nothing of this holds. `SweptLast`: nothing follows retention
  but the next run, which undoes it. That a run retention keeps was also kept when there were fewer
  makes a new run harmless to `Present`.

Model-checked only: `DeliveryEnds`.

## 10. Not modelled

* The flights of the service catalog: `TrafficServiceReconcile` reads the cache in one step.
* Deferral of query tiers under cycle pressure: which metrics a cycle collects; it is a read of
  one counter, and skipped metrics behave like failed queries in the modules above.
* VEN, workload and policy queries: stateless; what is kept of them is in `AnomalyAlerts`.
* Formats of deliveries and webhooks, credentials and address checks: input/output without
  interacting state.
* File formats and the migration from JSON to sqlite; what a save contains and what a load
  restores is part of each module.
* Pages, exports, diagnostics, datasets, the executive report: read-only or plain file storage.
