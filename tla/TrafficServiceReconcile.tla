---------------------- MODULE TrafficServiceReconcile ----------------------
(***************************************************************************)
(* The service-exclusion protocol of the monitoring dashboard (main.go).   *)
(*                                                                         *)
(* Every blocked-traffic target is queried under an effective filter: the  *)
(* global service exclusions joined with the target's own.  When that      *)
(* filter changes, the rolling state collected under the old one is        *)
(* discarded, the retained daily history is hidden (ServiceHistoryPending) *)
(* and a full reconcile rebuilds it.  Four kinds of goroutine take part:   *)
(* HTTP handlers that change the configuration, the collection cycle, the  *)
(* full-history reconcile, and the worker that serves reconcile requests   *)
(* made while one is running.  They share rollingCache, the daily history  *)
(* and the configuration; configUpdateMu serialises only the commits.      *)
(*                                                                         *)
(* A traffic count is abstracted to the set of filter fingerprints that    *)
(* contributed to it.  "today" is fixed: the day boundary is not crossed.  *)
(***************************************************************************)
EXTENDS Integers, FiniteSets

CONSTANTS
  Targets,        \* configurable traffic targets
  Selectors,      \* service selectors an operator can exclude
  Named,          \* those of them that name a PCE service object
  GlobalChoices, OwnChoices,  \* the exclusion sets an operator picks from
  Days, Yesterday, Today,  \* the day keys of the retained history
  Removable,      \* targets that a settings change may drop
  HostMetrics,    \* configuredBlockedHostMetricsEnabled
  Upgraded,       \* may the installation come from an older release: BOOLEANs
  None,           \* model value: "no such entry"
  MaxDefinition,  \* bound: changes of the PCE service objects
  MaxPuts,        \* bound: PUT /api/config/targets
  MaxReloads,     \* bound: edits of config.json on disk
  MaxManual,      \* bound: POST /api/reconcile/blocked-history
  MaxFaults,      \* bound: failed PCE queries and catalog retrievals
  MaxSaves,       \* bound: failed writes of the rolling state
  MaxCrashes,     \* bound: process restarts
  Mixes           \* bound: which of these kinds are met in one behaviour

(* A fingerprint: the effective selectors and the version of the service   *)
(* objects they were resolved with; Unresolved hashes the selectors only.  *)
Unresolved == 0 - 1
NoCatalog == 0 - 1
Fingerprint ==
  [sel : SUBSET Selectors, ver : {Unresolved} \cup (0 .. MaxDefinition)]

ASSUME ConstantsAssumption ==
  /\ Named \subseteq Selectors
  /\ GlobalChoices \subseteq SUBSET Selectors
  /\ OwnChoices \subseteq SUBSET Selectors
  /\ Removable \subseteq Targets
  /\ Today \in Days /\ Yesterday \in Days /\ Today # Yesterday
  /\ HostMetrics \in BOOLEAN /\ Upgraded \subseteq BOOLEAN
  /\ \A fp \in Fingerprint : fp # None
  /\ \A S \in SUBSET Selectors, fp \in Fingerprint :
       S # None /\ [own |-> S, fp |-> fp] # None
  /\ {MaxDefinition, MaxPuts, MaxReloads, MaxManual, MaxFaults, MaxSaves,
    MaxCrashes} \subseteq Nat

VARIABLES
  global,        \* config.TrafficServiceExclusions
  own,           \* config.TrafficTargets: target -> its exclusions, or None
  definition,    \* version of the service objects on the PCE (external)
  catalog,       \* cached catalog version, or NoCatalog
  process,       \* "down" | "reseed" (startupHostReseedPending) | "running"
  rollingCache,  \* fingerprints: ServiceFilterFingerprints; pending:
                 \* ServiceHistoryPending; counts: filters behind the baseline
                 \* and the buckets; baselined: keys of BaselineBlocked
  flowSeen,      \* filters behind the blocked_flow_seen table (sqlite)
  blockedDaily,  \* filters behind blockedDaily[day][target]
  savedRolling,  \* rollingCache as last written by saveRollingState
  savedDaily,    \* blockedDaily as last written by saveBlockedHistory
  reconcileDone, \* reconcileDoneByT
  marker,        \* CompletedByTarget of the persisted reconcile marker
  put,           \* settings handler between saving and invalidating
  cycle,         \* collection cycle
  full,          \* full reconcile goroutine, stage "idle" = not in progress
  queue,         \* keys of trafficServiceReconcilePending
  worker,        \* queue worker: "off" | "poll" | "start"
  drained,       \* configured targets the worker took from the queue
  spent          \* how much of each bound has been used

configVars == <<global, own>>
pceVars == <<definition, catalog>>
filterVars == <<rollingCache, savedRolling, flowSeen, reconcileDone>>
dataVars == <<filterVars, blockedDaily, savedDaily, marker>>
queueVars == <<queue, worker, drained>>
requestVars == <<full, queueVars>>
vars == <<configVars, pceVars, process, dataVars, put, cycle, requestVars, spent>>

-----------------------------------------------------------------------------
(* Partial maps are functions on Targets with None for a missing key.      *)
NoTargets == [t \in Targets |-> None]
Members(f) == {t \in Targets : f[t] # None}
Override(f, g) == [t \in Targets |-> IF g[t] # None THEN g[t] ELSE f[t]]
Only(S, f) == [t \in Targets |-> IF t \in S THEN f[t] ELSE None]

Effective(g, o) == g \cup o
Configured == Members(own)
Selected(t) == Effective(global, own[t])

(* Faulty: any configured filter passes for the one a result was made with.*)
SelectorsIgnored(t, fp) == own[t] # None

(* trafficTargetServiceFilterCurrent: currency compares selectors only.    *)
FilterCurrent(t, fp) == own[t] # None /\ Selected(t) = fp.sel

NeedsCatalog(S) == S \cap Named # {}
CatalogVersion == IF catalog = NoCatalog THEN definition ELSE catalog

(* prepareTrafficTargetServiceExclusions: direct selectors need no catalog *)
(* and resolve to the same filters whatever the PCE defines.               *)
Resolve(S, ok) ==
  [sel |-> S, ver |-> IF ~NeedsCatalog(S) THEN 0
                      ELSE IF ok THEN CatalogVersion ELSE Unresolved]
Prepare(g, o, ok) ==
  [t \in Targets |-> IF o[t] = None THEN None ELSE Resolve(Effective(g, o[t]), ok)]
Prepared(fps) == {t \in Members(fps) : fps[t].ver # Unresolved}
AsksCatalog(fps) == \E t \in Members(fps) : NeedsCatalog(fps[t].sel)

Met == {what \in DOMAIN spent : spent[what] > 0} \cup
       (IF definition > 0 THEN {"definition"} ELSE {})
Considered(what) == \E mix \in Mixes : Met \cup {what} \subseteq mix
Spend(what) == Considered(what) /\ spent' = [spent EXCEPT ![what] = @ + 1]
Fault == spent.faults < MaxFaults /\ Spend("faults")

(* The catalog is read through its cache; a retrieval that fails is a      *)
(* fault and is not cached.                                                *)
ReadCatalog(fps, ok) ==
  IF ~AsksCatalog(fps) THEN ok /\ UNCHANGED <<catalog, spent>>
  ELSE IF ok THEN catalog' = CatalogVersion /\ UNCHANGED spent
  ELSE catalog = NoCatalog /\ UNCHANGED catalog /\ Fault

(* saveRollingState writes what is in memory by then; a failure is only    *)
(* logged, and the older state stays on disk.  saveBlockedHistory.         *)
SaveRolling ==
  \/ savedRolling' = rollingCache /\ UNCHANGED spent
  \/ /\ UNCHANGED savedRolling
     /\ spent.saves < MaxSaves /\ Spend("saves")
SaveDailyIf(changed) == savedDaily' = IF changed THEN blockedDaily' ELSE savedDaily

(* Faulty: data of the superseded filter survives the reset.               *)
NothingCleared(S, f) == f

(* invalidateTrafficServiceFilterTargets, for the targets that resolved,   *)
(* first in memory and under rollingMu; recorded is the fingerprint map it *)
(* finds.                                                                  *)
Without(S, f) == [t \in Targets |-> IF t \in S THEN {} ELSE f[t]]
InvalidateFrom(recorded, fps) ==
  LET reset == Prepared(fps)
  IN  rollingCache' = [rollingCache EXCEPT
        !.fingerprints = Override(recorded, Only(reset, fps)),
        !.pending = Override(@, Only(reset, fps)),
        !.counts = Without(reset, @),
        !.baselined = @ \ reset]
Invalidate(fps) == InvalidateFrom(rollingCache.fingerprints, fps)

(* The rest of it, after rollingMu was released: the rows of these targets *)
(* are deleted and the rolling state is saved.                             *)
Purge(S) ==
  /\ flowSeen' = Without(S, flowSeen)
  /\ reconcileDone' = reconcileDone \ S
  /\ SaveRolling

(* Faulty: a request made while a reconcile runs is dropped.               *)
RequestDropped(o) ==
  /\ IF Members(o) # {} /\ full.stage = "idle"
     THEN full' = [full EXCEPT !.stage = "prepare", !.own = o]
     ELSE UNCHANGED full
  /\ UNCHANGED queueVars

(* requestTrafficServiceHistoryReconcile: start a reconcile, or leave the  *)
(* request to the queue worker and make sure one is running.               *)
Start(o) == full' = [full EXCEPT !.stage = "prepare", !.own = o]
Enqueue(S) ==
  /\ queue' = queue \cup S
  /\ worker' = IF worker = "off" /\ S # {} THEN "poll" ELSE worker
  /\ UNCHANGED drained
Request(o) ==
  IF Members(o) # {} /\ full.stage = "idle"
  THEN Start(o) /\ UNCHANGED queueVars
  ELSE Enqueue(Members(o)) /\ UNCHANGED full

(* configUpdateMu is free: no settings handler, rejected query or reconcile*)
(* that completes holds it.                                                *)
UpdateUnlocked ==
  /\ put.stage = "idle" /\ full.stage # "shown"
  /\ \A t \in Targets : cycle.step[t] # "rejected"
NoPut == [stage |-> "idle", affected |-> NoTargets]

-----------------------------------------------------------------------------
(* Settings and environment                                                *)

NewConfig(g, o) ==
  /\ \A t \in Configured \ Removable : o[t] # None
  /\ Members(o) # {}
  /\ <<g, o>> # <<global, own>>
  /\ global' = g /\ own' = o

(* trafficTargetsWithChangedServiceExclusions                              *)
Affected(g, o) ==
  {t \in Members(o) :
     IF own[t] = None THEN Effective(g, o[t]) # {}
     ELSE Effective(g, o[t]) # Selected(t)}

(* PUT /api/config/targets up to saveConfigLocked; the lock stays held.    *)
(* The catalog is retrieved afresh; if that fails the request is rejected  *)
(* and nothing has changed.                                                *)
PutTargets(g, o) ==
  LET fps == [t \in Targets |-> IF t \notin Affected(g, o) THEN None
                ELSE [sel |-> Effective(g, o[t]),
                      ver |-> IF NeedsCatalog(Effective(g, o[t]))
                              THEN definition ELSE 0]]
  IN  /\ spent.puts < MaxPuts /\ process # "down" /\ UpdateUnlocked
      /\ NewConfig(g, o) /\ Spend("puts")
      /\ catalog' = IF Affected(g, o) = {} THEN catalog
                    ELSE IF AsksCatalog(fps) THEN definition ELSE NoCatalog
      /\ put' = IF Affected(g, o) = {} THEN put
                ELSE [stage |-> "saved", affected |-> fps]
      /\ UNCHANGED <<definition, process, dataVars, cycle, requestVars>>

(* The rest of the handler: reset the affected targets in memory, then     *)
(* delete their rows, save, and ask for a rebuild; the lock is still held. *)
PutInvalidate ==
  /\ put.stage = "saved"
  /\ Invalidate(put.affected)
  /\ put' = [put EXCEPT !.stage = "hidden"]
  /\ UNCHANGED <<configVars, pceVars, process, savedRolling, flowSeen,
                 reconcileDone, blockedDaily, savedDaily, marker, cycle,
                 requestVars, spent>>

PutPurge ==
  /\ put.stage = "hidden"
  /\ Purge(Members(put.affected))
  /\ Request(Only(Members(put.affected), own))
  /\ put' = NoPut
  /\ UNCHANGED <<configVars, pceVars, process, rollingCache, blockedDaily,
                 savedDaily, marker, cycle>>

(* reloadConfigIfFileChanged replaces the configuration and nothing else;  *)
(* a file edited while the process is down is loaded when it starts.       *)
ReloadConfig(g, o) ==
  /\ spent.reloads < MaxReloads /\ UpdateUnlocked
  /\ NewConfig(g, o) /\ Spend("reloads")
  /\ catalog' = NoCatalog
  /\ UNCHANGED <<definition, process, dataVars, put, cycle, requestVars>>

(* The ports of the named PCE service objects are edited.                  *)
DefinitionChange ==
  /\ definition < MaxDefinition /\ Considered("definition")
  /\ definition' = definition + 1
  /\ UNCHANGED <<configVars, catalog, process, dataVars, put, cycle,
                 requestVars, spent>>

(* The cached catalog is too old. It makes a difference only where the next*)
(* retrieval may fail or find other objects.                               *)
CatalogExpire ==
  /\ catalog # NoCatalog /\ Considered("expiry")
  /\ catalog' = NoCatalog
  /\ UNCHANGED <<configVars, definition, process, dataVars, put, cycle,
                 requestVars, spent>>

(* handleReconcileBlockedHistory: all targets, refused while one runs.     *)
ManualReconcile ==
  /\ process # "down" /\ full.stage = "idle"
  /\ spent.manual < MaxManual /\ Spend("manual")
  /\ Start(NoTargets)
  /\ UNCHANGED <<configVars, pceVars, process, dataVars, put, cycle, queueVars>>

-----------------------------------------------------------------------------
(* Collection cycle                                                        *)

NoCycle ==
  [stage |-> "idle", own |-> NoTargets, targets |-> NoTargets, base |-> "no",
   step |-> [t \in Targets |-> "none"], late |-> NoTargets]

(* collectionWindow, then the frozen copy of the configured targets, which *)
(* is prepared against the catalog.  The first cycle queries a baseline of *)
(* everything; the first one after a start does so to reseed host detail.  *)
CycleFreeze(ok) ==
  LET fps == Prepare(global, own, ok)
  IN  /\ process # "down" /\ cycle.stage = "idle"
      /\ ReadCatalog(fps, ok)
      /\ cycle' = [NoCycle EXCEPT !.stage = "frozen", !.own = own, !.targets = fps,
                     !.base = IF ~rollingCache.initialized THEN "first"
                              ELSE IF process = "reseed" THEN "reseed" ELSE "no"]
      /\ process' = "running"
      /\ UNCHANGED <<configVars, definition, dataVars, put, requestVars>>

(* trafficTargetsWithRollingServiceFilterChanges                           *)
HasStoredData(t) ==
  rollingCache.counts[t] # {} \/ \E d \in Days : blockedDaily[t][d] # {}
FilterChanged(t) ==
  IF rollingCache.fingerprints[t] # None
  THEN rollingCache.fingerprints[t] # cycle.targets[t]
  ELSE cycle.targets[t].sel # {} /\ HasStoredData(t)
ChangedTargets == {t \in Prepared(cycle.targets) : FilterChanged(t)}

SeenFilters == Only(Prepared(cycle.targets), cycle.targets)
Recorded == Override(rollingCache.fingerprints, SeenFilters)

(* Record the filters seen for the first time, reset the changed targets   *)
(* and request their rebuild.  configUpdateMu is not taken.                *)
CycleDetect ==
  /\ cycle.stage = "frozen"
  /\ InvalidateFrom(Recorded, Only(ChangedTargets, cycle.targets))
  /\ cycle' = [cycle EXCEPT
                 !.stage = IF ChangedTargets = {} THEN "collect" ELSE "reset",
                 !.own = Only(ChangedTargets, @),
                 !.step = [t \in Targets |->
                             IF cycle.targets[t] # None THEN "todo" ELSE "none"]]
  /\ UNCHANGED <<configVars, pceVars, process, savedRolling, flowSeen,
                 reconcileDone, blockedDaily, savedDaily, marker, put,
                 requestVars, spent>>

(* The rest of it for the changed targets, still without the lock.         *)
CyclePurge ==
  /\ cycle.stage = "reset"
  /\ Purge(Members(cycle.own))
  /\ Request(cycle.own)
  /\ cycle' = [cycle EXCEPT !.stage = "collect", !.own = NoTargets]
  /\ UNCHANGED <<configVars, pceVars, process, rollingCache, blockedDaily,
                 savedDaily, marker, put>>

Step(t, from, to) ==
  /\ cycle.step[t] \in from
  /\ cycle' = [cycle EXCEPT !.step[t] = to]

(* Faulty: a target whose exclusions did not resolve is queried anyway.    *)
StartQueryUnresolved(t) ==
  LET based == cycle.base = "no" /\ t \in rollingCache.baselined
  IN  /\ cycle.stage = "collect"
      /\ Step(t, {"todo"}, IF based THEN "delta" ELSE "base")
      /\ UNCHANGED <<configVars, pceVars, process, dataVars, put, requestVars,
                     spent>>

(* collectBlockedTargetPaced: a target without a baseline is queried for   *)
(* 24 hours, any other for the interval since the last cycle.  One whose   *)
(* exclusions did not resolve is never queried.                            *)
StartQuery(t) ==
  LET based == cycle.base = "no" /\ t \in rollingCache.baselined
  IN  /\ cycle.stage = "collect"
      /\ Step(t, {"todo"}, IF cycle.targets[t].ver = Unresolved THEN "failed"
                           ELSE IF based THEN "delta" ELSE "base")
      /\ UNCHANGED <<configVars, pceVars, process, dataVars, put, requestVars,
                     spent>>

QueryFails(t) ==
  /\ cycle.stage = "collect"
  /\ Step(t, {"base", "delta"}, "failed")
  /\ Fault
  /\ UNCHANGED <<configVars, pceVars, process, dataVars, put, requestVars>>

Held(step) == IF step = "base" THEN "baseHeld" ELSE "deltaHeld"

(* commitIfServiceFilterCurrent: under configUpdateMu the flow samples are *)
(* recorded, or the target is reset to the filter that replaced its own,   *)
(* and the lock is held until that is done.                                *)
CommitQuery(t) ==
  /\ cycle.stage = "collect"
  /\ Step(t, {"base", "delta"}, Held(cycle.step[t]))
  /\ UpdateUnlocked /\ FilterCurrent(t, cycle.targets[t])
  /\ flowSeen' = [flowSeen EXCEPT ![t] =
       (IF cycle.step[t] = "base" THEN {} ELSE @) \cup {cycle.targets[t]}]
  /\ UNCHANGED <<configVars, pceVars, process, rollingCache, savedRolling,
                 reconcileDone, blockedDaily, savedDaily, marker, put,
                 requestVars, spent>>

Replaced(t, now, stage) ==
  IF t \in Prepared(now)
  THEN [cycle EXCEPT !.step[t] = stage, !.late[t] = [own |-> own[t], fp |-> now[t]]]
  ELSE [cycle EXCEPT !.step[t] = "failed"]

RejectQuery(t, ok) ==
  LET now == Only({t}, Prepare(global, own, ok))
  IN  /\ cycle.stage = "collect" /\ cycle.step[t] \in {"base", "delta"}
      /\ UpdateUnlocked /\ ~FilterCurrent(t, cycle.targets[t])
      /\ ReadCatalog(now, ok)
      /\ Invalidate(now)
      /\ cycle' = Replaced(t, now, "rejected")
      /\ UNCHANGED <<configVars, definition, process, savedRolling, flowSeen,
                     reconcileDone, blockedDaily, savedDaily, marker, put,
                     requestVars>>

(* Under deadline pressure only the count is read; nothing is recorded and *)
(* no lock is taken.                                                       *)
CountQuery(t) ==
  /\ cycle.stage = "collect"
  /\ Step(t, {"base", "delta"}, Held(cycle.step[t]))
  /\ UNCHANGED <<configVars, pceVars, process, dataVars, put, requestVars, spent>>

(* The closing checkServiceFilterCurrent holds no lock: the filter it      *)
(* finds and prepares is applied in a later step.                          *)
AcceptResult(t) ==
  /\ cycle.stage = "collect"
  /\ Step(t, {"baseHeld", "deltaHeld"},
          IF cycle.step[t] = "baseHeld" THEN "baseDone" ELSE "deltaDone")
  /\ FilterCurrent(t, cycle.targets[t])
  /\ UNCHANGED <<configVars, pceVars, process, dataVars, put, requestVars, spent>>

(* Faulty: a target that was removed is superseded like any other.         *)
RejectResultRemoved(t, ok) ==
  LET now == Only({t}, Prepare(global, own, ok))
  IN  /\ cycle.stage = "collect"
      /\ cycle.step[t] \in {"baseHeld", "deltaHeld"}
      /\ ~FilterCurrent(t, cycle.targets[t])
      /\ ReadCatalog(now, ok)
      /\ cycle' = [cycle EXCEPT !.step[t] = "superseded",
                     !.late[t] = [own |-> own[t], fp |-> now[t]]]
      /\ UNCHANGED <<configVars, definition, process, dataVars, put, requestVars>>

RejectResult(t, ok) ==
  LET now == Only({t}, Prepare(global, own, ok))
  IN  /\ cycle.stage = "collect"
      /\ cycle.step[t] \in {"baseHeld", "deltaHeld"}
      /\ ~FilterCurrent(t, cycle.targets[t])
      /\ ReadCatalog(now, ok)
      /\ cycle' = Replaced(t, now, "superseded")
      /\ UNCHANGED <<configVars, definition, process, dataVars, put, requestVars>>

(* The filter found is applied, without a lock, as the reset of any target:*)
(* in memory, then on disk with the request for a rebuild, which also ends *)
(* what RejectQuery began.                                                 *)
Supersede(t) ==
  /\ Step(t, {"superseded"}, "hidden")
  /\ Invalidate([u \in Targets |-> IF u = t THEN cycle.late[t].fp ELSE None])
  /\ UNCHANGED <<configVars, pceVars, process, savedRolling, flowSeen,
                 reconcileDone, blockedDaily, savedDaily, marker, put,
                 requestVars, spent>>

PurgeQuery(t) ==
  /\ cycle.step[t] \in {"rejected", "hidden"}
  /\ Purge({t})
  /\ Request([u \in Targets |-> IF u = t THEN cycle.late[t].own ELSE None])
  /\ cycle' = [cycle EXCEPT !.step[t] = "failed", !.late[t] = None]
  /\ UNCHANGED <<configVars, pceVars, process, rollingCache, blockedDaily,
                 savedDaily, marker, put>>

Collected ==
  \A t \in Targets : cycle.step[t] \in {"none", "baseDone", "deltaDone", "failed"}
Kept(how) ==
  {t \in Members(cycle.targets) :
     cycle.step[t] = how /\ FilterCurrent(t, cycle.targets[t])}
Adding(f, S) ==
  [t \in Targets |-> IF t \in S THEN f[t] \cup {cycle.targets[t]} ELSE f[t]]

(* updateRollingAndBuildView: the first cycle replaces the rolling state,  *)
(* keeping what is pending, and empties the flow table of its targets.     *)
UpdateRolling ==
  IF cycle.base = "first"
  THEN /\ rollingCache' = [rollingCache EXCEPT
            !.fingerprints = cycle.targets,
            !.counts = Adding([t \in Targets |-> {}], Kept("baseDone")),
            !.baselined = Kept("baseDone"),
            !.initialized = TRUE]
       /\ flowSeen' = Without(Members(cycle.targets), flowSeen)
  ELSE /\ rollingCache' = [rollingCache EXCEPT
            !.counts = Adding(@, Kept("baseDone") \cup Kept("deltaDone")),
            !.baselined = @ \cup Kept("baseDone")]
       /\ UNCHANGED flowSeen

(* accumulateBlockedHistoryFromCycle, for the deltas that counted something *)
AccumulateHistory(counted) ==
  /\ blockedDaily' = [t \in Targets |->
       IF t \notin counted THEN blockedDaily[t]
       ELSE [blockedDaily[t] EXCEPT ![Today] = @ \cup {cycle.targets[t]}]]
  /\ SaveDailyIf(counted # {})

(* discardSupersededBlockedCycleResults and the commit of what is left, in *)
(* one critical section; then the previous-day reconcile lists its targets.*)
CycleCommit ==
  /\ cycle.stage = "collect" /\ Collected /\ UpdateUnlocked
  /\ UpdateRolling
  /\ \E counted \in SUBSET Kept("deltaDone") : AccumulateHistory(counted)
  /\ cycle' = [cycle EXCEPT !.stage = "previous",
                 !.step = [t \in Targets |->
                   IF cycle.targets[t] # None /\ t \notin reconcileDone
                   THEN "todo" ELSE "none"]]
  /\ UNCHANGED <<configVars, pceVars, process, savedRolling, reconcileDone,
                 marker, put, requestVars, spent>>

(* reconcilePreviousDayBlockedHistory, one target: query, then overwrite   *)
(* yesterday under configUpdateMu unless the filter was superseded.  The   *)
(* targets are taken one after the other.                                  *)
NoneWritten == \A t \in Targets : cycle.step[t] # "written"
PreviousWrite(t) ==
  /\ cycle.stage = "previous" /\ NoneWritten /\ UpdateUnlocked
  /\ Step(t, {"todo"}, "written")
  /\ cycle.targets[t].ver # Unresolved
  /\ FilterCurrent(t, cycle.targets[t])
  /\ blockedDaily' = [blockedDaily EXCEPT ![t][Yesterday] = {cycle.targets[t]}]
  /\ UNCHANGED <<configVars, pceVars, process, filterVars, savedDaily, marker,
                 put, requestVars, spent>>

PreviousRejected(t) ==
  /\ cycle.stage = "previous" /\ NoneWritten /\ UpdateUnlocked
  /\ Step(t, {"todo"}, "none")
  /\ cycle.targets[t].ver # Unresolved
  /\ ~FilterCurrent(t, cycle.targets[t])
  /\ Request(Only({t}, own))
  /\ UNCHANGED <<configVars, pceVars, process, dataVars, put, spent>>

PreviousFails(t) ==
  /\ cycle.stage = "previous" /\ NoneWritten
  /\ Step(t, {"todo"}, "none")
  /\ IF cycle.targets[t].ver = Unresolved THEN UNCHANGED spent ELSE Fault
  /\ UNCHANGED <<configVars, pceVars, process, dataVars, put, requestVars>>

(* reconcileDoneByT is set after configUpdateMu has been released.         *)
PreviousMark(t) ==
  /\ cycle.stage = "previous"
  /\ Step(t, {"written"}, "done")
  /\ reconcileDone' = reconcileDone \cup {t}
  /\ UNCHANGED <<configVars, pceVars, process, rollingCache, savedRolling,
                 flowSeen, blockedDaily, savedDaily, marker, put, requestVars,
                 spent>>

(* The end of runCollectionCycle: the history, if the previous day was     *)
(* written, and then the rolling state are saved.                          *)
CyclePublish ==
  /\ cycle.stage = "previous" /\ UpdateUnlocked
  /\ \A t \in Targets : cycle.step[t] \in {"none", "done"}
  /\ cycle' = NoCycle
  /\ UNCHANGED <<configVars, pceVars, process, rollingCache, flowSeen,
                 reconcileDone, blockedDaily, marker, put, requestVars>>
  /\ SaveDailyIf(\E t \in Targets : cycle.step[t] = "done")
  /\ SaveRolling

-----------------------------------------------------------------------------
(* Full reconcile goroutine (startFullBlockedHistoryReconcileAsync)        *)

NoFull ==
  [stage |-> "idle", own |-> NoTargets, targets |-> NoTargets, reset |-> {},
   jobs |-> {}, failed |-> FALSE, wrote |-> FALSE]

(* A target it was handed keeps its own exclusions; the global ones are    *)
(* read now.  Handed nothing, it takes every configured target.            *)
FullPrepare(ok) ==
  LET chosen == IF Members(full.own) = {} THEN own ELSE full.own
      fps == Prepare(global, chosen, ok)
  IN  /\ full.stage = "prepare"
      /\ ReadCatalog(fps, ok)
      /\ full' = [NoFull EXCEPT !.stage = "match", !.targets = fps]
      /\ UNCHANGED <<configVars, definition, process, dataVars, put, cycle,
                     queueVars>>

(* Faulty: what is pending keeps the fingerprint it was hidden under.      *)
NoneElsewhere == {}

(* trafficServiceHistoryPendingFingerprintChanges                          *)
PendingElsewhere ==
  {t \in Prepared(full.targets) :
     /\ rollingCache.pending[t] # None
     /\ rollingCache.pending[t] # full.targets[t]}

StoredDays == {d \in Days \ {Today} : \E t \in Targets : blockedDaily[t][d] # {}}

(* Re-key what is pending under another filter, then list the stored days. *)
ListDays ==
  full' = [full EXCEPT !.stage = "past", !.reset = {},
             !.jobs = StoredDays \X Members(full.targets)]
FullMatch ==
  /\ full.stage = "match"
  /\ Invalidate(Only(PendingElsewhere, full.targets))
  /\ IF PendingElsewhere = {} THEN ListDays
     ELSE full' = [full EXCEPT !.stage = "reset", !.reset = PendingElsewhere]
  /\ UNCHANGED <<configVars, pceVars, process, savedRolling, flowSeen,
                 reconcileDone, blockedDaily, savedDaily, marker, put, cycle,
                 queueVars, spent>>

FullPurge ==
  /\ full.stage = "reset"
  /\ Purge(full.reset)
  /\ ListDays
  /\ UNCHANGED <<configVars, pceVars, process, rollingCache, blockedDaily,
                 savedDaily, marker, put, cycle, queueVars>>

(* One (day, target) query of reconcileAllStoredBlockedHistory or          *)
(* reconcileCurrentDayBlockedHistory: ensureTrafficTargetServiceFilter-    *)
(* Current, then overwrite the day, under configUpdateMu.                  *)
FullDay(d, t) ==
  /\ full.stage \in {"past", "today"} /\ <<d, t>> \in full.jobs
  /\ full.targets[t].ver # Unresolved
  /\ UpdateUnlocked
  /\ FilterCurrent(t, full.targets[t])
  /\ blockedDaily' = [blockedDaily EXCEPT ![t][d] = {full.targets[t]}]
  /\ full' = [full EXCEPT !.jobs = @ \ {<<d, t>>}, !.wrote = TRUE]
  /\ UNCHANGED <<configVars, pceVars, process, filterVars, savedDaily, marker,
                 put, cycle, queueVars, spent>>

FullDayRejected(d, t) ==
  /\ full.stage \in {"past", "today"} /\ <<d, t>> \in full.jobs
  /\ full.targets[t].ver # Unresolved
  /\ UpdateUnlocked
  /\ ~FilterCurrent(t, full.targets[t])
  /\ Enqueue({t} \cap Configured)
  /\ full' = [full EXCEPT !.jobs = @ \ {<<d, t>>}, !.failed = TRUE]
  /\ UNCHANGED <<configVars, pceVars, process, dataVars, put, cycle, spent>>

FullDayFails(d, t) ==
  /\ full.stage \in {"past", "today"} /\ <<d, t>> \in full.jobs
  /\ IF full.targets[t].ver = Unresolved THEN UNCHANGED spent ELSE Fault
  /\ full' = [full EXCEPT !.jobs = @ \ {<<d, t>>}, !.failed = TRUE]
  /\ UNCHANGED <<configVars, pceVars, process, dataVars, put, cycle, queueVars>>

(* Each of the two passes saves the history when it ends.                  *)
FullPassSaved ==
  /\ full.stage \in {"past", "today"} /\ full.jobs = {}
  /\ full' = IF full.stage = "today" THEN [full EXCEPT !.stage = "mark"]
             ELSE [full EXCEPT !.stage = "today", !.wrote = FALSE,
                     !.jobs = {Today} \X Members(full.targets)]
  /\ UNCHANGED <<configVars, pceVars, process, filterVars, blockedDaily, marker,
                 put, cycle, queueVars, spent>>
  /\ SaveDailyIf(full.wrote)

(* targetKeyForReconcile: the fingerprint is part of the key only when the *)
(* target has exclusions.                                                  *)
MarkerKey(t, fp) == <<t, IF fp.sel = {} THEN None ELSE fp>>

Superseded == {t \in Members(full.targets) : ~FilterCurrent(t, full.targets[t])}

(* Faulty: a failed query does not keep a reconcile from completing.       *)
CompleteDespiteFailure == Superseded = {}

(* What lets a reconcile complete, and the targets that are then shown.    *)
Complete == ~full.failed /\ Superseded = {}
Rebuilt ==
  {t \in Members(full.targets) : rollingCache.pending[t] = full.targets[t]}

(* The end of the goroutine: every target must still be current; only a    *)
(* reconcile without a single failure saves the marker of its targets and  *)
(* then clears what is pending under the filter it used, first in memory   *)
(* and then, the lock still held, on disk.                                 *)
FullMark ==
  /\ full.stage = "mark" /\ UpdateUnlocked
  /\ Complete
  /\ marker' = marker \cup
       {MarkerKey(t, full.targets[t]) : t \in Members(full.targets)}
  /\ rollingCache' = [rollingCache EXCEPT !.pending = Only(Targets \ Rebuilt, @)]
  /\ full' = [full EXCEPT !.stage = IF Rebuilt = {} THEN "finish" ELSE "shown"]
  /\ UNCHANGED <<configVars, pceVars, process, savedRolling, flowSeen,
                 reconcileDone, blockedDaily, savedDaily, put, cycle, queueVars,
                 spent>>

FullShown ==
  /\ full.stage = "shown"
  /\ SaveRolling
  /\ full' = [full EXCEPT !.stage = "finish"]
  /\ UNCHANGED <<configVars, pceVars, process, rollingCache, flowSeen,
                 reconcileDone, blockedDaily, savedDaily, marker, put, cycle,
                 queueVars>>

(* Nothing is cleared after a failure, or when the marker is not saved.    *)
FullUnmarked ==
  /\ full.stage = "mark" /\ UpdateUnlocked
  /\ IF Complete THEN Fault ELSE UNCHANGED spent
  /\ Enqueue(Superseded \cap Configured)
  /\ full' = [full EXCEPT !.stage = "finish"]
  /\ UNCHANGED <<configVars, pceVars, process, dataVars, put, cycle>>

(* finishBlockedHistoryReconcileStatus                                     *)
FullFinish ==
  /\ full.stage = "finish"
  /\ full' = NoFull
  /\ UNCHANGED <<configVars, pceVars, process, dataVars, put, cycle, queueVars,
                 spent>>

-----------------------------------------------------------------------------
(* Queue worker, startup and restart                                       *)

(* The worker waits for the running reconcile to end, empties the queue    *)
(* and maps what it held to the targets configured now; with nothing left  *)
(* it exits.                                                               *)
WorkerDrain ==
  /\ worker = "poll" /\ full.stage = "idle"
  /\ queue' = {}
  /\ drained' = Only(queue, own)
  /\ worker' = IF queue = {} THEN "off"
               ELSE IF queue \cap Configured = {} THEN "poll" ELSE "start"
  /\ UNCHANGED <<configVars, pceVars, process, dataVars, put, cycle, full, spent>>

(* It starts a reconcile of them, or queues them again if another one was  *)
(* started in the meantime.                                                *)
WorkerStart ==
  /\ worker = "start"
  /\ worker' = "poll" /\ drained' = NoTargets
  /\ IF full.stage = "idle"
     THEN Start(drained) /\ UNCHANGED queue
     ELSE queue' = queue \cup Members(drained) /\ UNCHANGED full
  /\ UNCHANGED <<configVars, pceVars, process, dataVars, put, cycle, spent>>

(* maybeStartStartupBlockedHistoryReconcile: before anything else runs,    *)
(* rebuild the targets that are pending or have no marker.  Those whose    *)
(* exclusions do not resolve are left out and not tried again.             *)
Boot(ok) ==
  LET fps == Prepare(global, own, ok)
      due == {t \in Prepared(fps) : \/ rollingCache.pending[t] # None
                                    \/ MarkerKey(t, fps[t]) \notin marker}
  IN  /\ process = "down"
      /\ process' = IF HostMetrics THEN "reseed" ELSE "running"
      /\ ReadCatalog(fps, ok)
      /\ Request(Only(due, own))
      /\ UNCHANGED <<configVars, definition, dataVars, put, cycle>>

(* The process dies and is started again: what was not saved is lost.      *)
Restart ==
  /\ process # "down"
  /\ spent.crashes < MaxCrashes /\ Spend("crashes")
  /\ process' = "down" /\ catalog' = NoCatalog /\ reconcileDone' = {}
  /\ put' = NoPut /\ cycle' = NoCycle /\ full' = NoFull
  /\ queue' = {} /\ worker' = "off" /\ drained' = NoTargets
  /\ rollingCache' = savedRolling /\ blockedDaily' = savedDaily
  /\ UNCHANGED <<configVars, definition, savedRolling, flowSeen, savedDaily,
                 marker>>

-----------------------------------------------------------------------------
(* A new installation, or one upgraded from a release without service      *)
(* exclusions: its data carries no fingerprint and was never filtered.     *)
Unfiltered == [sel |-> {}, ver |-> 0]
Init ==
  /\ global \in GlobalChoices
  /\ own \in [Targets -> {None} \cup OwnChoices]
  /\ Configured # {} /\ Targets \ Removable \subseteq Configured
  /\ definition = 0
  /\ \E upgraded \in Upgraded :
       LET kept == IF upgraded THEN Configured ELSE {}
           counts == [t \in Targets |-> IF t \in kept THEN {Unfiltered} ELSE {}]
       IN  /\ rollingCache =
                [fingerprints |-> NoTargets, pending |-> NoTargets,
                 counts |-> counts, baselined |-> kept, initialized |-> upgraded]
           /\ flowSeen = counts
           /\ blockedDaily = [t \in Targets |-> [d \in Days |-> counts[t]]]
           /\ marker = {<<t, None>> : t \in kept}
  /\ savedRolling = rollingCache /\ savedDaily = blockedDaily
  /\ process = "down" /\ catalog = NoCatalog /\ reconcileDone = {}
  /\ put = NoPut /\ cycle = NoCycle /\ full = NoFull
  /\ queue = {} /\ worker = "off" /\ drained = NoTargets
  /\ spent =
       [puts |-> 0, reloads |-> 0, manual |-> 0, faults |-> 0, saves |-> 0,
        crashes |-> 0]

Settings ==
  \E g \in GlobalChoices, o \in [Targets -> {None} \cup OwnChoices] :
    PutTargets(g, o) \/ ReloadConfig(g, o)
Environment ==
  Settings \/ DefinitionChange \/ CatalogExpire \/ ManualReconcile \/ Restart

Collect(t) ==
  \/ StartQuery(t) \/ QueryFails(t) \/ CommitQuery(t) \/ CountQuery(t)
  \/ AcceptResult(t) \/ Supersede(t) \/ PurgeQuery(t)
  \/ \E ok \in BOOLEAN : RejectQuery(t, ok) \/ RejectResult(t, ok)
Previous(t) ==
  PreviousWrite(t) \/ PreviousRejected(t) \/ PreviousFails(t) \/ PreviousMark(t)
CycleStart == \E ok \in BOOLEAN : CycleFreeze(ok)
CycleRest ==
  \/ CycleDetect \/ CyclePurge \/ CycleCommit \/ CyclePublish
  \/ \E t \in Targets : Collect(t) \/ Previous(t)
Rebuild(d, t) == FullDay(d, t) \/ FullDayRejected(d, t) \/ FullDayFails(d, t)
FullStep ==
  \/ FullMatch \/ FullPurge \/ FullPassSaved
  \/ FullMark \/ FullShown \/ FullUnmarked \/ FullFinish
  \/ \E ok \in BOOLEAN : FullPrepare(ok)
  \/ \E d \in Days, t \in Targets : Rebuild(d, t)
PutStep == PutInvalidate \/ PutPurge
WorkerStep == WorkerDrain \/ WorkerStart
Startup == \E ok \in BOOLEAN : Boot(ok)

Next ==
  \/ Environment \/ Startup \/ PutStep
  \/ CycleStart \/ CycleRest \/ FullStep \/ WorkerStep

Spec == Init /\ [][Next]_vars

(* Goroutines keep running and the ticker keeps starting cycles; nothing   *)
(* is assumed of the operator, the PCE or the process's death.             *)
Fairness ==
  /\ WF_vars(Startup) /\ WF_vars(PutStep)
  /\ WF_vars(CycleStart) /\ WF_vars(CycleRest)
  /\ WF_vars(FullStep) /\ WF_vars(WorkerStep)
FairSpec == Spec /\ Fairness

-----------------------------------------------------------------------------
(* Properties                                                              *)

Partial(S) == [Targets -> {None} \cup S]
Exclusions == Partial(SUBSET Selectors)
Filters == Partial(Fingerprint)
Counts == [Targets -> SUBSET Fingerprint]
Daily == [Targets -> [Days -> SUBSET Fingerprint]]
Cache ==
  [fingerprints : Filters, pending : Filters, counts : Counts,
   baselined : SUBSET Targets, initialized : BOOLEAN]
CycleStep ==
  {"none", "todo", "base", "delta", "baseHeld", "deltaHeld", "baseDone",
   "deltaDone", "superseded", "rejected", "hidden", "failed", "written", "done"}
Put == [stage : {"idle", "saved", "hidden"}, affected : Filters]
Cycle ==
  [stage : {"idle", "frozen", "reset", "collect", "previous"}, own : Exclusions,
   targets : Filters, base : {"first", "reseed", "no"},
   step : [Targets -> CycleStep],
   late : Partial([own : SUBSET Selectors, fp : Fingerprint])]
Full ==
  [stage : {"idle", "prepare", "match", "reset", "past", "today", "mark", "shown",
            "finish"},
   own : Exclusions, targets : Filters, reset : SUBSET Targets,
   jobs : SUBSET (Days \X Targets), failed : BOOLEAN, wrote : BOOLEAN]
Spent == [{"puts", "reloads", "manual", "faults", "saves", "crashes"} -> Nat]

(* Every variable has its type; partial maps hold None for a missing key.  *)
ConfigOK ==
  /\ global \subseteq Selectors /\ own \in Exclusions
  /\ definition \in 0 .. MaxDefinition
  /\ catalog \in {NoCatalog} \cup (0 .. MaxDefinition)
  /\ process \in {"down", "reseed", "running"}
DataOK ==
  /\ rollingCache \in Cache /\ savedRolling \in Cache
  /\ flowSeen \in Counts
  /\ blockedDaily \in Daily /\ savedDaily \in Daily
  /\ reconcileDone \subseteq Targets
  /\ marker \subseteq Targets \X ({None} \cup Fingerprint)
ControlOK ==
  /\ put \in Put /\ cycle \in Cycle /\ full \in Full
  /\ queue \subseteq Targets
  /\ worker \in {"off", "poll", "start"}
  /\ drained \in Exclusions
  /\ spent \in Spent
TypeOK == ConfigOK /\ DataOK /\ ControlOK

(* No lost request: while a reconcile request is waiting, the worker that  *)
(* serves it has not exited (requestTrafficServiceHistoryReconcile).       *)
RequestServed == queue # {} => worker # "off"

(* Rolling data always has a recorded filter, without which the next cycle *)
(* could not tell that it must be discarded; the one exception is data     *)
(* kept from a release that did not filter.                                *)
Attributed(cache) ==
  \A t \in Targets :
    cache.fingerprints[t] = None => cache.counts[t] \subseteq {Unfiltered}
RollingAttributed == Attributed(rollingCache)

(* What makes the two above inductive: the progress of a cycle and of a    *)
(* reconcile is kept only for targets they prepared, a target in progress  *)
(* has a recorded filter, and the state on disk is attributed as well.     *)
InProgress ==
  {"base", "delta", "baseHeld", "deltaHeld", "baseDone", "deltaDone"}
Replacing == {"superseded", "rejected", "hidden"}
StepsPrepared ==
  \A t \in Targets :
    /\ cycle.step[t] # "none" => cycle.targets[t] # None
    /\ cycle.step[t] \in InProgress => t \in Prepared(cycle.targets)
    /\ cycle.step[t] \in Replacing => cycle.late[t] # None
SeenRecorded ==
  cycle.stage \in {"reset", "collect"} =>
    \A t \in Prepared(cycle.targets) : rollingCache.fingerprints[t] # None
JobsPrepared == full.jobs \subseteq Days \X Members(full.targets)
AttributionInv ==
  /\ StepsPrepared /\ SeenRecorded /\ JobsPrepared
  /\ RollingAttributed /\ Attributed(savedRolling)

(* What t's data may show: the filter recorded for it is the configured    *)
(* one, so that no later cycle finds a change.                             *)
Recognised(cache, t) ==
  /\ own[t] # None
  /\ cache.fingerprints[t] # None
  /\ cache.fingerprints[t].sel = Selected(t)
UnderSelected(t, fps) == \A fp \in fps : fp.sel = Selected(t)

(* The targets reset in memory whose rows are still to be deleted.         *)
Purging ==
  {t \in Targets :
     \/ put.stage = "hidden" /\ put.affected[t] # None
     \/ cycle.stage = "reset" /\ cycle.own[t] # None
     \/ cycle.step[t] \in {"rejected", "hidden"}
     \/ t \in full.reset}

(* Traffic counted under superseded exclusions is not in a baseline, nor in*)
(* the flow table once a reset is done, that the next cycle takes for      *)
(* current.                                                                *)
RollingCurrent ==
  put.stage # "saved" =>
    \A t \in Targets : Recognised(rollingCache, t) =>
      /\ UnderSelected(t, rollingCache.counts[t])
      /\ rollingCache.initialized /\ t \notin Purging
           => UnderSelected(t, flowSeen[t])

(* Retained history that is not hidden was counted under the configured    *)
(* exclusions.                                                             *)
Shown(cache, t) == Recognised(cache, t) /\ cache.pending[t] = None
Current(t, days) == \A d \in Days : UnderSelected(t, days[d])
HistoryCurrent ==
  put.stage # "saved" =>
    \A t \in Targets : Shown(rollingCache, t) => Current(t, blockedDaily[t])

(* The same of what a restart would load, where the marker would keep the  *)
(* startup check from rebuilding it.                                       *)
Certified(t, fp) == MarkerKey(t, fp) \in marker
CertifiedHistoryCurrent ==
  \A t \in Targets :
    /\ /\ put.stage # "saved" /\ Shown(rollingCache, t)
       /\ Certified(t, rollingCache.fingerprints[t])
       => Current(t, blockedDaily[t])
    /\ /\ Shown(savedRolling, t)
       /\ Certified(t, savedRolling.fingerprints[t])
       => Current(t, savedDaily[t])

(* While its service names cannot be resolved a target is not counted at   *)
(* all, rather than counted without its exclusions.                        *)
NeverUnfiltered ==
  \A t \in Targets :
    \A fp \in rollingCache.counts[t] \cup flowSeen[t]
              \cup UNION {blockedDaily[t][d] : d \in Days} : fp.ver # Unresolved

(* A rebuild of t is waiting, starting or under way.                       *)
BeingRebuilt(t) ==
  \/ t \in queue \/ drained[t] # None \/ t \in Purging
  \/ full.stage = "prepare" /\ (full.own[t] # None \/ Members(full.own) = {})
  \/ full.targets[t] # None
(* Unless a query failed, history is hidden only while it is being rebuilt.*)
HiddenServed ==
  (process # "down" /\ spent.faults = 0) =>
    \A t \in Configured : rollingCache.pending[t] # None => BeingRebuilt(t)

(* No request for a rebuild is lost, neither by who asks nor by the queue. *)
NothingForgotten == HiddenServed /\ RequestServed

(* A baseline holds no traffic counted under an older definition of its    *)
(* named services than the one it is recorded with.                        *)
RollingAsResolved ==
  \A t \in Targets : rollingCache.fingerprints[t] # None =>
    rollingCache.counts[t] \subseteq {rollingCache.fingerprints[t]}

(* While goroutines run and nothing fails, every rebuild asked for is made:*)
(* what is hidden is shown again, and a request that had to wait is taken  *)
(* (requestTrafficServiceHistoryReconcile, its worker, the reconcile).     *)
Unserved(t) ==
  t \in queue \/ (own[t] # None /\ rollingCache.pending[t] # None)
RebuildsEnd == \A t \in Targets : Unserved(t) ~> ~Unserved(t)
=============================================================================
