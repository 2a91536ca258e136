------------------- MODULE TrafficServiceReconcile_proofs -------------------
(***************************************************************************)
(* What TrafficServiceReconcile promises for any number of targets,        *)
(* selectors, definitions, settings changes, faults and crashes.           *)
(***************************************************************************)
EXTENDS TrafficServiceReconcile, TLAPS

-----------------------------------------------------------------------------
(* A queued reconcile request keeps its worker alive, whatever happens to  *)
(* the reconciles the worker waits for.                                    *)
THEOREM Served == Spec => []RequestServed
<1>1. Init => RequestServed
  BY DEF Init, RequestServed
<1>2. RequestServed /\ [Next]_vars => RequestServed'
  <2> SUFFICES ASSUME RequestServed, [Next]_vars PROVE RequestServed'
    OBVIOUS
  <2> USE DEF RequestServed
  <2>1. ASSUME NEW S, Enqueue(S) PROVE RequestServed'
    BY <2>1 DEF Enqueue
  <2>2. ASSUME NEW o, Request(o) PROVE RequestServed'
    BY <2>1, <2>2 DEF Request, queueVars
  <2>3. CASE Environment
    BY <2>3 DEF Environment, Settings, PutTargets, ReloadConfig,
      DefinitionChange, CatalogExpire, ManualReconcile, Restart, requestVars,
      queueVars
  <2>4. CASE Startup
    BY <2>2, <2>4 DEF Startup, Boot
  <2>5. CASE PutStep
    BY <2>2, <2>5 DEF PutStep, PutInvalidate, PutPurge, requestVars, queueVars
  <2>6. CASE CycleStart
    BY <2>6 DEF CycleStart, CycleFreeze, requestVars, queueVars
  <2>7. CASE CycleRest
    <3>1. CASE CyclePurge
      BY <2>2, <3>1 DEF CyclePurge
    <3>2. CASE CycleDetect \/ CycleCommit \/ CyclePublish
      BY <3>2 DEF CycleDetect, CycleCommit, CyclePublish, requestVars, queueVars
    <3>3. ASSUME NEW t \in Targets, Collect(t) PROVE RequestServed'
      BY <2>2, <3>3 DEF Collect, StartQuery, QueryFails, CommitQuery,
        CountQuery, AcceptResult, Supersede, PurgeQuery, RejectQuery,
        RejectResult, requestVars, queueVars
    <3>4. ASSUME NEW t \in Targets, Previous(t) PROVE RequestServed'
      BY <2>2, <3>4 DEF Previous, PreviousWrite, PreviousRejected,
        PreviousFails, PreviousMark, requestVars, queueVars
    <3> QED BY <2>7, <3>1, <3>2, <3>3, <3>4 DEF CycleRest
  <2>8. CASE FullStep
    <3>1. CASE \E ok \in BOOLEAN : FullPrepare(ok)
      BY <3>1 DEF FullPrepare, queueVars
    <3>2. ASSUME NEW d \in Days, NEW t \in Targets, Rebuild(d, t)
          PROVE  RequestServed'
      BY <2>1, <3>2 DEF Rebuild, FullDay, FullDayRejected, FullDayFails,
        queueVars
    <3>3. CASE \/ FullMatch \/ FullPurge \/ FullPassSaved
                \/ FullMark \/ FullShown \/ FullFinish
      BY <3>3 DEF FullMatch, FullPurge, FullPassSaved, FullMark, FullShown,
        FullFinish, queueVars
    <3>4. CASE FullUnmarked
      BY <2>1, <3>4 DEF FullUnmarked
    <3> QED BY <2>8, <3>1, <3>2, <3>3, <3>4 DEF FullStep
  <2>9. CASE WorkerStep
    BY <2>9 DEF WorkerStep, WorkerDrain, WorkerStart
  <2>10. CASE UNCHANGED vars
    BY <2>10 DEF vars, requestVars, queueVars
  <2> QED BY <2>3, <2>4, <2>5, <2>6, <2>7, <2>8, <2>9, <2>10 DEF Next
<1> QED BY <1>1, <1>2, PTL DEF Spec

-----------------------------------------------------------------------------
(* Restricting a partial map keeps its type and its values.                *)
LEMMA OnlyType ==
  ASSUME NEW V, NEW f \in Partial(V), NEW S
  PROVE  /\ Only(S, f) \in Partial(V)
         /\ Members(Only(S, f)) = Members(f) \cap S
         /\ \A t \in Members(Only(S, f)) : Only(S, f)[t] = f[t]
BY DEF Only, Partial, Members

(* Preparing a set of targets resolves each of them to a fingerprint.      *)
LEMMA PrepareType ==
  ASSUME ConfigOK, NEW g \in SUBSET Selectors, NEW o \in Exclusions,
         NEW ok \in BOOLEAN
  PROVE  /\ Prepare(g, o, ok) \in Filters
         /\ Members(Prepare(g, o, ok)) = Members(o)
<1>1. ASSUME NEW S \in SUBSET Selectors
      PROVE  Resolve(S, ok) \in Fingerprint /\ Resolve(S, ok) # None
  BY ConstantsAssumption, SMT DEF Resolve, Fingerprint, CatalogVersion,
    ConfigOK, Unresolved, NoCatalog
<1>2. ASSUME NEW t \in Targets, o[t] # None
      PROVE  Effective(g, o[t]) \in SUBSET Selectors
  BY <1>2 DEF Effective, Exclusions, Partial
<1> QED BY <1>1, <1>2 DEF Prepare, Filters, Exclusions, Partial, Members

(* A catalog read leaves a version of the definitions or nothing behind.   *)
LEMMA ReadCatalogType ==
  ASSUME TypeOK, NEW fps, NEW ok \in BOOLEAN, ReadCatalog(fps, ok)
  PROVE  catalog' \in {NoCatalog} \cup (0 .. MaxDefinition) /\ spent' \in Spent
BY DEF ReadCatalog, TypeOK, ConfigOK, ControlOK, CatalogVersion, NoCatalog,
  Fault, Spend, Spent

(* invalidateTrafficServiceFilterTargets keeps the types of what it resets,*)
(* first in memory, then on disk.                                          *)
LEMMA InvalidateType ==
  ASSUME DataOK, NEW recorded \in Filters, NEW fps \in Filters,
         InvalidateFrom(recorded, fps)
  PROVE  rollingCache' \in Cache
<1> DEFINE reset == Prepared(fps)
<1>1. reset \subseteq Targets
  BY DEF Prepared, Members
<1>2. /\ Override(recorded, Only(reset, fps)) \in Filters
      /\ Override(rollingCache.pending, Only(reset, fps)) \in Filters
  BY DEF Override, Only, Filters, Partial, DataOK, Cache
<1>3. Without(reset, rollingCache.counts) \in Counts
  BY DEF Without, Counts, DataOK, Cache
<1> QED BY <1>1, <1>2, <1>3 DEF InvalidateFrom, Cache, DataOK

LEMMA SaveType ==
  ASSUME TypeOK, SaveRolling PROVE savedRolling' \in Cache /\ spent' \in Spent
BY DEF SaveRolling, Spend, Spent, TypeOK, DataOK, ControlOK

LEMMA PurgeType ==
  ASSUME TypeOK, NEW S, Purge(S)
  PROVE  /\ flowSeen' \in Counts /\ reconcileDone' \subseteq Targets
         /\ savedRolling' \in Cache /\ spent' \in Spent
<1>1. flowSeen' \in Counts /\ reconcileDone' \subseteq Targets
  BY DEF Purge, Without, Counts, TypeOK, DataOK
<1> QED BY <1>1, SaveType DEF Purge

(* Queueing a request keeps the types of the queue and its worker.         *)
LEMMA EnqueueType ==
  ASSUME ControlOK, NEW S \in SUBSET Targets, Enqueue(S)
  PROVE  queue' \subseteq Targets /\ worker' \in {"off", "poll", "start"} /\ drained' \in Exclusions
BY DEF Enqueue, ControlOK

(* A request keeps them too, and never touches the jobs of a reconcile.    *)
LEMMA RequestType ==
  ASSUME ControlOK, NEW o \in Exclusions, Request(o)
  PROVE  /\ queue' \subseteq Targets /\ worker' \in {"off", "poll", "start"}
         /\ drained' \in Exclusions /\ full' \in Full
         /\ full'.jobs = full.jobs /\ full'.targets = full.targets
         /\ full'.reset = full.reset
BY EnqueueType DEF Request, Start, Full, ControlOK, queueVars, Members

(* The progress of one target is all that Step changes.                    *)
LEMMA StepType ==
  ASSUME ControlOK, NEW t \in Targets, NEW from, NEW to \in CycleStep,
         Step(t, from, to)
  PROVE  /\ cycle' \in Cycle /\ cycle'.targets = cycle.targets
         /\ cycle'.late = cycle.late
         /\ cycle'.step = [cycle.step EXCEPT ![t] = to]
BY DEF Step, Cycle, ControlOK

-----------------------------------------------------------------------------
(* Types, with the two facts that make them inductive: a cycle and a       *)
(* reconcile make progress only on targets they have a filter for.         *)
TypeInv == TypeOK /\ StepsPrepared /\ JobsPrepared

LEMMA TypeInit == Init => TypeInv
<1> SUFFICES ASSUME Init PROVE TypeInv
  OBVIOUS
<1>1. NoTargets \in Filters /\ NoTargets \in Exclusions
  BY DEF NoTargets, Filters, Exclusions, Partial
<1>2. NoCycle \in Cycle /\ NoFull \in Full /\ NoPut \in Put
  BY <1>1 DEF NoCycle, NoFull, NoPut, Cycle, Full, Put, CycleStep, NoTargets,
    Partial
<1>3. ConfigOK
  BY ConstantsAssumption DEF Init, ConfigOK, NoCatalog, Exclusions, Partial
<1>4. DataOK
  <2> PICK upgraded \in Upgraded :
        LET kept == IF upgraded THEN Configured ELSE {}
            counts == [t \in Targets |-> IF t \in kept THEN {Unfiltered} ELSE {}]
        IN  /\ rollingCache =
                 [fingerprints |-> NoTargets, pending |-> NoTargets,
                  counts |-> counts, baselined |-> kept, initialized |-> upgraded]
            /\ flowSeen = counts
            /\ blockedDaily = [t \in Targets |-> [d \in Days |-> counts[t]]]
            /\ marker = {<<t, None>> : t \in kept}
    BY DEF Init
  <2> DEFINE kept == IF upgraded THEN Configured ELSE {}
             counts == [t \in Targets |-> IF t \in kept THEN {Unfiltered} ELSE {}]
  <2>1. kept \subseteq Targets /\ Unfiltered \in Fingerprint
    BY ConstantsAssumption DEF Configured, Members, Unfiltered, Fingerprint
  <2>2. counts \in Counts
    BY <2>1 DEF Counts
  <2>3. rollingCache \in Cache
    BY <1>1, <2>1, <2>2, ConstantsAssumption DEF Cache
  <2>4. blockedDaily \in Daily
    BY <2>1 DEF Daily
  <2>5. marker \subseteq Targets \X ({None} \cup Fingerprint)
    BY <2>1
  <2> QED BY <2>2, <2>3, <2>4, <2>5 DEF Init, DataOK
<1>5. ControlOK
  BY <1>1, <1>2 DEF Init, ControlOK, Spent
<1>6. StepsPrepared /\ JobsPrepared
  BY DEF Init, StepsPrepared, JobsPrepared, NoCycle, NoFull, InProgress,
    Replacing
<1> QED BY <1>3, <1>4, <1>5, <1>6 DEF TypeOK, TypeInv

(* Progress stays confined to prepared targets.                            *)
LEMMA StepsKept ==
  ASSUME TypeInv, NEW t \in Targets, NEW from, NEW to \in CycleStep,
         Step(t, from, to), cycle.step[t] # "none", to \notin Replacing,
         to \in InProgress => t \in Prepared(cycle.targets)
  PROVE  StepsPrepared'
<1>1. /\ cycle'.targets = cycle.targets /\ cycle'.late = cycle.late
      /\ cycle'.step = [cycle.step EXCEPT ![t] = to]
      /\ cycle.step \in [Targets -> CycleStep]
  BY StepType DEF TypeInv, TypeOK, ControlOK, Cycle
<1>2. Prepared(cycle'.targets) = Prepared(cycle.targets)
  BY <1>1
<1>3. t \in Targets /\ cycle.targets[t] # None
  BY DEF TypeInv, StepsPrepared
<1> QED BY <1>1, <1>2, <1>3 DEF TypeInv, StepsPrepared, InProgress, Replacing

(* The operator, the PCE and a restart.                                    *)
LEMMA EnvironmentType == TypeInv /\ Environment => TypeInv'
<1> SUFFICES ASSUME TypeInv, Environment PROVE TypeInv'
  OBVIOUS
<1> USE DEF TypeInv, TypeOK
<1>0. ASSUME NEW what \in {"puts", "reloads", "manual", "faults", "saves", "crashes"}, Spend(what) PROVE spent' \in Spent
  BY <1>0 DEF Spend, Spent, ControlOK
<1>1. ASSUME NEW g \in GlobalChoices, NEW o \in [Targets -> {None} \cup OwnChoices],
             PutTargets(g, o)
      PROVE  TypeInv'
  <2>1. g \in SUBSET Selectors /\ o \in Exclusions
    BY ConstantsAssumption DEF Exclusions, Partial
  <2>2. ConfigOK'
    BY <1>1, <2>1 DEF PutTargets, NewConfig, ConfigOK
  <2>3. put' \in Put
    <3>1. ASSUME NEW t \in Affected(g, o)
          PROVE [sel |-> Effective(g, o[t]), ver |-> IF NeedsCatalog(Effective(g, o[t])) THEN definition ELSE 0] \in Fingerprint
      BY <2>1, ConstantsAssumption DEF Affected, Members, Effective,
        Fingerprint, ConfigOK, Exclusions, Partial
    <3> QED BY <1>1, <3>1 DEF PutTargets, Put, Filters, Partial, ControlOK
  <2> QED BY <1>0, <1>1, <2>2, <2>3 DEF PutTargets, dataVars, filterVars,
    requestVars, queueVars, DataOK, ControlOK, StepsPrepared, JobsPrepared,
    InProgress, Prepared, Members
<1>2. ASSUME NEW g \in GlobalChoices, NEW o \in [Targets -> {None} \cup OwnChoices],
             ReloadConfig(g, o)
      PROVE  TypeInv'
  BY <1>0, <1>2, ConstantsAssumption DEF ReloadConfig, NewConfig, Exclusions,
    Partial, dataVars, filterVars, requestVars, queueVars, ConfigOK, DataOK,
    ControlOK, StepsPrepared, JobsPrepared, InProgress, Prepared, Members
<1>3. CASE DefinitionChange \/ CatalogExpire
  BY <1>3, ConstantsAssumption DEF DefinitionChange, CatalogExpire, configVars,
    dataVars, filterVars, requestVars, queueVars, ConfigOK, DataOK, ControlOK,
    StepsPrepared, JobsPrepared, InProgress, Prepared, Members
<1>4. CASE ManualReconcile
  BY <1>0, <1>4 DEF ManualReconcile, Start, Full, NoTargets, Exclusions,
    Partial, configVars, pceVars, dataVars, filterVars, queueVars, ConfigOK,
    DataOK, ControlOK, StepsPrepared, JobsPrepared, InProgress, Prepared,
    Members
<1>5. CASE Restart
  BY <1>0, <1>5 DEF Restart, NoTargets, Exclusions, Partial, Filters,
    configVars, NoPut, NoCycle, NoFull, Put, Cycle, Full, CycleStep, ConfigOK,
    DataOK, ControlOK, StepsPrepared, JobsPrepared, InProgress, Replacing, Prepared,
    Members
<1> QED BY <1>1, <1>2, <1>3, <1>4, <1>5 DEF Environment, Settings

(* One target of a collection cycle.                                       *)
LEMMA CollectType ==
  ASSUME TypeInv, NEW t \in Targets, Collect(t) PROVE TypeInv'
<1> USE DEF TypeInv, TypeOK
<1>0. cycle.step \in [Targets -> CycleStep] /\ cycle.targets \in Filters
  BY DEF ControlOK, Cycle
<1>1. CASE StartQuery(t)
  <2> DEFINE to == IF cycle.targets[t].ver = Unresolved THEN "failed"
                   ELSE IF cycle.base = "no" /\ t \in rollingCache.baselined
                   THEN "delta" ELSE "base"
  <2>1. Step(t, {"todo"}, to)
    BY <1>1 DEF StartQuery
  <2>2. to \in CycleStep /\ to \notin Replacing /\ cycle.step[t] # "none"
    BY <2>1 DEF Step, CycleStep, Replacing
  <2>3. to \in InProgress => t \in Prepared(cycle.targets)
    BY <2>2 DEF InProgress, Prepared, Members, StepsPrepared
  <2>4. cycle' \in Cycle /\ StepsPrepared'
    BY <2>1, <2>2, <2>3, StepType, StepsKept
  <2> QED BY <1>1, <2>4 DEF StartQuery, configVars, pceVars, dataVars,
    filterVars, requestVars, queueVars, ConfigOK, DataOK, ControlOK,
    JobsPrepared
<1>2. ASSUME NEW from, NEW to \in CycleStep, Step(t, from, to), to \notin Replacing,
             from \subseteq InProgress, UNCHANGED requestVars, spent' \in Spent,
             ConfigOK', DataOK', put' \in Put
      PROVE TypeInv'
  <2>1. cycle.step[t] \in InProgress
    BY <1>2 DEF Step
  <2>2. cycle.step[t] # "none" /\ t \in Prepared(cycle.targets)
    BY <2>1 DEF StepsPrepared, InProgress
  <2>3. cycle' \in Cycle /\ StepsPrepared'
    BY <1>2, <2>2, StepType, StepsKept
  <2> QED BY <1>2, <2>3 DEF requestVars, queueVars, ControlOK, JobsPrepared
<1>3. CASE QueryFails(t)
  <2>1. spent' \in Spent
    BY <1>3 DEF QueryFails, Fault, Spend, Spent, ControlOK
  <2> QED BY <1>2, <1>3, <2>1 DEF QueryFails, InProgress, Replacing, CycleStep, configVars,
    pceVars, dataVars, filterVars, ConfigOK, DataOK, ControlOK
<1>4. CASE CommitQuery(t)
  <2>1. cycle.targets[t] \in Fingerprint
    <3>1. cycle.step[t] \in InProgress
      BY <1>4 DEF CommitQuery, Step, InProgress
    <3> QED BY <3>1, <1>0 DEF StepsPrepared, InProgress, Prepared, Members,
      Filters, Partial
  <2>2. flowSeen' \in Counts
    BY <1>4, <2>1 DEF CommitQuery, Counts, DataOK
  <2>3. Held(cycle.step[t]) \in CycleStep \ Replacing
    BY DEF Held, CycleStep, Replacing
  <2>4. Step(t, {"base", "delta"}, Held(cycle.step[t])) /\ {"base", "delta"} \subseteq InProgress
    BY <1>4 DEF CommitQuery, InProgress
  <2>5. ConfigOK' /\ DataOK' /\ put' \in Put /\ spent' \in Spent /\ UNCHANGED requestVars
    BY <1>4, <2>2 DEF CommitQuery, configVars, pceVars, ConfigOK, DataOK,
      ControlOK
  <2> QED BY <1>2, <2>3, <2>4, <2>5
<1>5. CASE CountQuery(t)
  <2>3. Held(cycle.step[t]) \in CycleStep \ Replacing
    BY DEF Held, CycleStep, Replacing
  <2>4. Step(t, {"base", "delta"}, Held(cycle.step[t])) /\ {"base", "delta"} \subseteq InProgress
    BY <1>5 DEF CountQuery, InProgress
  <2>5. ConfigOK' /\ DataOK' /\ put' \in Put /\ spent' \in Spent /\ UNCHANGED requestVars
    BY <1>5 DEF CountQuery, configVars, pceVars, dataVars, filterVars, ConfigOK,
      DataOK, ControlOK
  <2> QED BY <1>2, <2>3, <2>4, <2>5
<1>6. CASE AcceptResult(t)
  <2>4. {"baseHeld", "deltaHeld"} \subseteq InProgress /\ {"baseDone", "deltaDone"} \subseteq CycleStep \ Replacing
    BY DEF InProgress, CycleStep, Replacing
  <2>5. ConfigOK' /\ DataOK' /\ put' \in Put /\ spent' \in Spent /\ UNCHANGED requestVars
    BY <1>6 DEF AcceptResult, configVars, pceVars, dataVars, filterVars,
      ConfigOK, DataOK, ControlOK
  <2> QED BY <1>2, <1>6, <2>4, <2>5 DEF AcceptResult
<1>7. CASE Supersede(t)
  <2> DEFINE fps == [u \in Targets |-> IF u = t THEN cycle.late[t].fp ELSE None]
  <2>1. cycle.late[t] \in [own : SUBSET Selectors, fp : Fingerprint]
    BY <1>7 DEF Supersede, Step, StepsPrepared, Replacing, ControlOK, Cycle, Partial
  <2>2. fps \in Filters
    BY <2>1 DEF Filters, Partial
  <2>3. rollingCache' \in Cache
    <3>1. rollingCache.fingerprints \in Filters
      BY DEF DataOK, Cache
    <3> QED BY <1>7, <2>2, <3>1, InvalidateType DEF Supersede, Invalidate
  <2>4. Step(t, {"superseded"}, "hidden") /\ cycle.late[t] # None
    BY <1>7, <2>1 DEF Supersede, StepsPrepared, Step, Replacing
  <2>5. /\ cycle' \in Cycle /\ cycle'.targets = cycle.targets
        /\ cycle'.late = cycle.late
        /\ cycle'.step = [cycle.step EXCEPT ![t] = "hidden"]
    BY <2>4, StepType DEF CycleStep
  <2>6. cycle.targets[t] # None
    BY <2>4 DEF Step, StepsPrepared
  <2>7. StepsPrepared'
    BY <1>0, <2>4, <2>5, <2>6 DEF StepsPrepared, InProgress, Prepared, Members
  <2> QED BY <1>7, <2>3, <2>5, <2>7 DEF Supersede, configVars, pceVars,
    requestVars, queueVars, ConfigOK, DataOK, ControlOK, JobsPrepared
<1>8. CASE PurgeQuery(t)
  <2> DEFINE o == [u \in Targets |-> IF u = t THEN cycle.late[t].own ELSE None]
  <2>1. cycle.late[t] \in [own : SUBSET Selectors, fp : Fingerprint]
    BY <1>8 DEF PurgeQuery, StepsPrepared, Replacing, ControlOK, Cycle, Partial
  <2>2. o \in Exclusions
    BY <2>1 DEF Exclusions, Partial
  <2>3. /\ flowSeen' \in Counts /\ reconcileDone' \subseteq Targets
        /\ savedRolling' \in Cache /\ spent' \in Spent
    BY <1>8, PurgeType DEF PurgeQuery
  <2>4. /\ queue' \subseteq Targets /\ worker' \in {"off", "poll", "start"}
        /\ drained' \in Exclusions /\ full' \in Full
        /\ full'.jobs = full.jobs /\ full'.targets = full.targets
    BY <1>8, <2>2, RequestType DEF PurgeQuery
  <2>5. cycle' \in Cycle
    BY <1>8 DEF PurgeQuery, Cycle, ControlOK, CycleStep, Partial
  <2>6. StepsPrepared'
    <3>1. /\ cycle'.targets = cycle.targets
          /\ cycle'.step[t] = "failed"
          /\ \A u \in Targets \ {t} : /\ cycle'.step[u] = cycle.step[u]
                                    /\ cycle'.late[u] = cycle.late[u]
      BY <1>8 DEF PurgeQuery, ControlOK, Cycle, Partial
    <3>2. cycle.targets[t] # None
      BY <1>8 DEF PurgeQuery, StepsPrepared
    <3>3. Prepared(cycle'.targets) = Prepared(cycle.targets)
      BY <3>1
    <3> QED BY <1>0, <3>1, <3>2, <3>3 DEF StepsPrepared, InProgress, Replacing
  <2> QED BY <1>8, <2>3, <2>4, <2>5, <2>6 DEF PurgeQuery, configVars, pceVars,
    ConfigOK, DataOK, ControlOK, JobsPrepared
<1> DEFINE now(ok) == Only({t}, Prepare(global, own, ok))
<1>9. ASSUME NEW ok \in BOOLEAN
      PROVE  /\ now(ok) \in Filters
             /\ \A u \in Members(now(ok)) : u = t /\ own[u] # None /\ now(ok)[u] = Prepare(global, own, ok)[u]
  <2>1. /\ Prepare(global, own, ok) \in Partial(Fingerprint)
        /\ Members(Prepare(global, own, ok)) = Members(own)
    BY PrepareType DEF ConfigOK, Filters
  <2>2. now(ok) \in Partial(Fingerprint)
    BY <2>1, OnlyType
  <2>3. /\ Members(now(ok)) = Members(own) \cap {t}
        /\ \A u \in Members(now(ok)) : now(ok)[u] = Prepare(global, own, ok)[u]
    BY <2>1, OnlyType
  <2> HIDE DEF now
  <2> QED BY <2>2, <2>3 DEF Filters, Members
<1>10. ASSUME NEW ok \in BOOLEAN, NEW stage \in {"superseded", "rejected"},
              cycle.step[t] \in InProgress, cycle' = Replaced(t, now(ok), stage)
       PROVE  cycle' \in Cycle /\ StepsPrepared'
  <2>1. cycle.targets[t] # None /\ cycle.step[t] # "none"
    BY <1>10 DEF StepsPrepared, InProgress
  <2>2. CASE t \in Prepared(now(ok))
    <3>1. own[t] \in SUBSET Selectors /\ now(ok)[t] \in Fingerprint
      BY <1>9, <2>2 DEF Prepared, Members, ConfigOK, Exclusions, Filters,
        Partial
    <3> DEFINE entry == [own |-> own[t], fp |-> now(ok)[t]]
    <3>2. entry \in [own : SUBSET Selectors, fp : Fingerprint] /\ entry # None
      BY <3>1, ConstantsAssumption DEF Filters
    <3>3. cycle' = [cycle EXCEPT !.step[t] = stage, !.late[t] = entry]
      BY <1>10, <2>2 DEF Replaced
    <3> HIDE DEF entry
    <3>4. cycle' \in Cycle
      BY <3>2, <3>3 DEF Cycle, ControlOK, CycleStep, Partial
    <3> QED BY <1>0, <2>1, <3>2, <3>3, <3>4 DEF StepsPrepared, ControlOK, Cycle,
      Partial, InProgress, Replacing, Prepared, Members
  <2>3. CASE t \notin Prepared(now(ok))
    <3>1. cycle' = [cycle EXCEPT !.step[t] = "failed"]
      BY <1>10, <2>3 DEF Replaced
    <3>2. Step(t, InProgress, "failed")
      BY <1>10, <3>1 DEF Step
    <3> QED BY <2>1, <3>2, StepType, StepsKept DEF CycleStep, InProgress, Replacing
  <2> QED BY <2>2, <2>3
<1>11. ASSUME NEW ok \in BOOLEAN, RejectQuery(t, ok) PROVE TypeInv'
  <2>1. rollingCache' \in Cache
    <3>1. rollingCache.fingerprints \in Filters
      BY DEF DataOK, Cache
    <3> QED BY <1>11, <1>9, <3>1, InvalidateType DEF RejectQuery, Invalidate
  <2>2. catalog' \in {NoCatalog} \cup (0 .. MaxDefinition) /\ spent' \in Spent
    BY <1>11, ReadCatalogType DEF RejectQuery
  <2>3. cycle.step[t] \in InProgress
    BY <1>11 DEF RejectQuery, InProgress
  <2>4. cycle' \in Cycle /\ StepsPrepared'
    BY <1>10, <1>11, <2>3 DEF RejectQuery
  <2> QED BY <1>11, <2>1, <2>2, <2>4 DEF RejectQuery, configVars, requestVars,
    queueVars, ConfigOK, DataOK, ControlOK, JobsPrepared
<1>12. ASSUME NEW ok \in BOOLEAN, RejectResult(t, ok) PROVE TypeInv'
  <2>1. catalog' \in {NoCatalog} \cup (0 .. MaxDefinition) /\ spent' \in Spent
    BY <1>12, ReadCatalogType DEF RejectResult
  <2>2. cycle.step[t] \in InProgress
    BY <1>12 DEF RejectResult, InProgress
  <2>3. cycle' \in Cycle /\ StepsPrepared'
    BY <1>10, <1>12, <2>2 DEF RejectResult
  <2> QED BY <1>12, <2>1, <2>3 DEF RejectResult, configVars, dataVars,
    filterVars, requestVars, queueVars, ConfigOK, DataOK, ControlOK,
    JobsPrepared
<1> QED BY <1>1, <1>3, <1>4, <1>5, <1>6, <1>7, <1>8, <1>11, <1>12 DEF Collect

(* One target of the previous-day reconcile.                               *)
LEMMA PreviousType ==
  ASSUME TypeInv, NEW t \in Targets, Previous(t) PROVE TypeInv'
<1> USE DEF TypeInv, TypeOK
<1>1. ASSUME NEW from, NEW to \in {"written", "none", "done"}, Step(t, from, to),
             "none" \notin from
      PROVE  cycle' \in Cycle /\ StepsPrepared' /\ cycle.targets[t] \in Fingerprint
  <2>1. cycle.step[t] # "none" /\ to \in CycleStep \ (InProgress \cup Replacing)
    BY <1>1 DEF Step, CycleStep, InProgress, Replacing
  <2>2. cycle' \in Cycle /\ StepsPrepared'
    BY <1>1, <2>1, StepType, StepsKept
  <2> QED BY <2>1, <2>2 DEF StepsPrepared, ControlOK, Cycle, Filters, Partial
<1>2. CASE PreviousWrite(t)
  <2>1. cycle' \in Cycle /\ StepsPrepared' /\ cycle.targets[t] \in Fingerprint
    BY <1>1, <1>2 DEF PreviousWrite
  <2>2. blockedDaily' \in Daily
    BY <1>2, <2>1 DEF PreviousWrite, DataOK, Daily
  <2> QED BY <1>2, <2>1, <2>2 DEF PreviousWrite, configVars, pceVars,
    filterVars, requestVars, queueVars, ConfigOK, DataOK, ControlOK,
    JobsPrepared
<1>3. CASE PreviousRejected(t)
  <2>1. cycle' \in Cycle /\ StepsPrepared'
    BY <1>1, <1>3 DEF PreviousRejected
  <2>2. /\ queue' \subseteq Targets /\ worker' \in {"off", "poll", "start"}
        /\ drained' \in Exclusions /\ full' \in Full
        /\ full'.jobs = full.jobs /\ full'.targets = full.targets
    BY <1>3, OnlyType, RequestType DEF PreviousRejected, ConfigOK, Exclusions
  <2> QED BY <1>3, <2>1, <2>2 DEF PreviousRejected, configVars, pceVars,
    dataVars, filterVars, ConfigOK, DataOK, ControlOK, JobsPrepared
<1>4. CASE PreviousFails(t)
  <2>1. cycle' \in Cycle /\ StepsPrepared'
    BY <1>1, <1>4 DEF PreviousFails
  <2>2. spent' \in Spent
    BY <1>4 DEF PreviousFails, Fault, Spend, Spent, ControlOK
  <2> QED BY <1>4, <2>1, <2>2 DEF PreviousFails, configVars, pceVars, dataVars,
    filterVars, requestVars, queueVars, ConfigOK, DataOK, ControlOK,
    JobsPrepared
<1>5. CASE PreviousMark(t)
  <2>1. cycle' \in Cycle /\ StepsPrepared'
    BY <1>1, <1>5 DEF PreviousMark
  <2> QED BY <1>5, <2>1 DEF PreviousMark, configVars, pceVars, requestVars,
    queueVars, ConfigOK, DataOK, ControlOK, JobsPrepared
<1> QED BY <1>2, <1>3, <1>4, <1>5 DEF Previous

(* A cycle that ends leaves no progress behind.                            *)
LEMMA NoProgress ==
  ASSUME cycle' = NoCycle PROVE StepsPrepared'
BY DEF NoCycle, StepsPrepared, InProgress, Replacing

(* The collection cycle.                                                   *)
LEMMA CycleType == TypeInv /\ (CycleStart \/ CycleRest) => TypeInv'
<1> SUFFICES ASSUME TypeInv, CycleStart \/ CycleRest PROVE TypeInv'
  OBVIOUS
<1> USE DEF TypeInv, TypeOK
<1>1. ASSUME NEW ok \in BOOLEAN, CycleFreeze(ok) PROVE TypeInv'
  <2>1. Prepare(global, own, ok) \in Filters
    BY PrepareType DEF ConfigOK
  <2>2. cycle' \in Cycle /\ StepsPrepared'
    BY <1>1, <2>1 DEF CycleFreeze, NoCycle, Cycle, CycleStep, NoTargets,
      Partial, ConfigOK, StepsPrepared, InProgress, Replacing
  <2>3. catalog' \in {NoCatalog} \cup (0 .. MaxDefinition) /\ spent' \in Spent
    BY <1>1, ReadCatalogType DEF CycleFreeze
  <2> QED BY <1>1, <2>2, <2>3 DEF CycleFreeze, configVars, dataVars, filterVars,
    requestVars, queueVars, ConfigOK, DataOK, ControlOK, JobsPrepared
<1>2. CASE CycleDetect
  <2>1. /\ SeenFilters \in Filters /\ Recorded \in Filters
        /\ Only(ChangedTargets, cycle.targets) \in Filters
        /\ Only(ChangedTargets, cycle.own) \in Exclusions
    BY DEF SeenFilters, Recorded, Override, Only, Filters, Exclusions, Partial,
      DataOK, Cache, ControlOK, Cycle
  <2>2. rollingCache' \in Cache
    BY <1>2, <2>1, InvalidateType DEF CycleDetect
  <2>3. cycle' \in Cycle /\ StepsPrepared'
    BY <1>2, <2>1 DEF CycleDetect, Cycle, ControlOK, CycleStep, StepsPrepared,
      InProgress, Replacing
  <2> QED BY <1>2, <2>2, <2>3 DEF CycleDetect, configVars, pceVars, requestVars,
    queueVars, ConfigOK, DataOK, ControlOK, JobsPrepared
<1>3. CASE CyclePurge
  <2>1. /\ flowSeen' \in Counts /\ reconcileDone' \subseteq Targets
        /\ savedRolling' \in Cache /\ spent' \in Spent
    BY <1>3, PurgeType DEF CyclePurge
  <2>2. /\ queue' \subseteq Targets /\ worker' \in {"off", "poll", "start"}
        /\ drained' \in Exclusions /\ full' \in Full
        /\ full'.jobs = full.jobs /\ full'.targets = full.targets
    BY <1>3, RequestType DEF CyclePurge, ControlOK, Cycle
  <2>3. cycle' \in Cycle /\ StepsPrepared'
    BY <1>3 DEF CyclePurge, Cycle, ControlOK, NoTargets, Exclusions, Partial,
      StepsPrepared, Prepared, Members
  <2> QED BY <1>3, <2>1, <2>2, <2>3 DEF CyclePurge, configVars, pceVars,
    ConfigOK, DataOK, ControlOK, JobsPrepared
<1>4. CASE CycleCommit
  <2>1. ASSUME NEW how PROVE Kept(how) \subseteq Targets /\ \A t \in Kept(how) : cycle.targets[t] \in Fingerprint
    BY DEF Kept, Members, ControlOK, Cycle, Filters, Partial
  <2>2. ASSUME NEW f \in Counts, NEW S, \A t \in S : cycle.targets[t] \in Fingerprint
        PROVE  Adding(f, S) \in Counts
    BY <2>2 DEF Adding, Counts
  <2>3. rollingCache' \in Cache /\ flowSeen' \in Counts
    <3>1. CASE cycle.base = "first"
      <4>1. [t \in Targets |-> {}] \in Counts
        BY DEF Counts
      <4>2. Adding([t \in Targets |-> {}], Kept("baseDone")) \in Counts
        BY <2>1, <2>2, <4>1
      <4>3. Without(Members(cycle.targets), flowSeen) \in Counts
        BY DEF Without, Counts, DataOK
      <4>4. /\ rollingCache' = [rollingCache EXCEPT
                 !.fingerprints = cycle.targets,
                 !.counts = Adding([t \in Targets |-> {}], Kept("baseDone")),
                 !.baselined = Kept("baseDone"), !.initialized = TRUE]
            /\ flowSeen' = Without(Members(cycle.targets), flowSeen)
        BY <1>4, <3>1 DEF CycleCommit, UpdateRolling
      <4>5. cycle.targets \in Filters /\ rollingCache \in Cache
        BY DEF ControlOK, Cycle, DataOK
      <4>6. rollingCache' \in Cache
        BY <2>1, <4>2, <4>4, <4>5 DEF Cache
      <4> QED BY <4>3, <4>4, <4>6
    <3>2. CASE cycle.base # "first"
      <4>1. Adding(rollingCache.counts, Kept("baseDone") \cup Kept("deltaDone")) \in Counts
        BY <2>1, <2>2 DEF DataOK, Cache
      <4>2. /\ rollingCache' = [rollingCache EXCEPT
                 !.counts = Adding(@, Kept("baseDone") \cup Kept("deltaDone")),
                 !.baselined = @ \cup Kept("baseDone")]
            /\ UNCHANGED flowSeen
        BY <1>4, <3>2 DEF CycleCommit, UpdateRolling
      <4>3. rollingCache' \in Cache
        BY <2>1, <4>1, <4>2 DEF Cache, DataOK
      <4> QED BY <4>2, <4>3 DEF DataOK
    <3> QED BY <3>1, <3>2
  <2>4. blockedDaily' \in Daily /\ savedDaily' \in Daily
    <3> PICK counted \in SUBSET Kept("deltaDone") : AccumulateHistory(counted)
      BY <1>4 DEF CycleCommit
    <3>1. blockedDaily' \in Daily
      BY <2>1, ConstantsAssumption DEF AccumulateHistory, Daily, DataOK
    <3> QED BY <3>1 DEF AccumulateHistory, SaveDailyIf, DataOK
  <2>5. cycle' \in Cycle /\ StepsPrepared'
    <3>1. cycle' \in Cycle
      BY <1>4 DEF CycleCommit, Cycle, ControlOK, CycleStep
    <3>2. /\ cycle'.targets = cycle.targets
          /\ cycle'.step = [t \in Targets |-> IF cycle.targets[t] # None /\ t \notin reconcileDone
                                              THEN "todo" ELSE "none"]
      BY <1>4 DEF CycleCommit, Cycle, ControlOK
    <3> QED BY <3>1, <3>2 DEF StepsPrepared, InProgress, Replacing
  <2> QED BY <1>4, <2>3, <2>4, <2>5 DEF CycleCommit, configVars, pceVars,
    requestVars, queueVars, ConfigOK, DataOK, ControlOK, JobsPrepared
<1>5. CASE CyclePublish
  <2>1. cycle' \in Cycle /\ StepsPrepared'
    BY <1>5, NoProgress DEF CyclePublish, NoCycle, Cycle, CycleStep, NoTargets,
      Exclusions, Filters, Partial
  <2>2. savedRolling' \in Cache /\ spent' \in Spent
    BY <1>5, SaveType DEF CyclePublish
  <2> QED BY <1>5, <2>1, <2>2 DEF CyclePublish, SaveDailyIf, configVars, pceVars,
    requestVars, queueVars, ConfigOK, DataOK, ControlOK, JobsPrepared
<1> QED BY <1>1, <1>2, <1>3, <1>4, <1>5, CollectType, PreviousType
  DEF CycleStart, CycleRest

(* The full reconcile.                                                     *)
LEMMA FullType == TypeInv /\ FullStep => TypeInv'
<1> SUFFICES ASSUME TypeInv, FullStep PROVE TypeInv'
  OBVIOUS
<1> USE DEF TypeInv, TypeOK
<1>0. ASSUME NEW d \in Days, NEW t \in Targets, <<d, t>> \in full.jobs
      PROVE  full.targets[t] \in Fingerprint
  BY <1>0 DEF JobsPrepared, Members, ControlOK, Full, Filters, Partial
<1>1. ASSUME NEW ok \in BOOLEAN, FullPrepare(ok) PROVE TypeInv'
  <2>1. Prepare(global, IF Members(full.own) = {} THEN own ELSE full.own, ok) \in Filters
    BY PrepareType DEF ConfigOK, ControlOK, Full
  <2>2. full' \in Full /\ JobsPrepared'
    BY <1>1, <2>1 DEF FullPrepare, NoFull, Full, NoTargets, Exclusions, Filters,
      Partial, JobsPrepared
  <2>3. catalog' \in {NoCatalog} \cup (0 .. MaxDefinition) /\ spent' \in Spent
    BY <1>1, ReadCatalogType DEF FullPrepare
  <2> QED BY <1>1, <2>2, <2>3 DEF FullPrepare, configVars, dataVars, filterVars,
    queueVars, ConfigOK, DataOK, ControlOK, StepsPrepared
<1>2. ASSUME ListDays PROVE full' \in Full /\ JobsPrepared'
  BY <1>2 DEF ListDays, Full, ControlOK, JobsPrepared, StoredDays, Members
<1>3. CASE FullMatch
  <2>1. /\ rollingCache.fingerprints \in Filters /\ full.targets \in Filters
        /\ Only(PendingElsewhere, full.targets) \in Filters
        /\ PendingElsewhere \subseteq Targets
    BY OnlyType DEF DataOK, Cache, ControlOK, Full, Filters, PendingElsewhere,
      Prepared, Members
  <2>2. rollingCache' \in Cache
    BY <1>3, <2>1, InvalidateType DEF FullMatch, Invalidate
  <2>3. full' \in Full /\ JobsPrepared'
    <3>1. CASE PendingElsewhere = {}
      BY <1>3, <1>2, <3>1 DEF FullMatch
    <3>2. CASE PendingElsewhere # {}
      BY <1>3, <2>1, <3>2 DEF FullMatch, Full, ControlOK, JobsPrepared
    <3> QED BY <3>1, <3>2
  <2> QED BY <1>3, <2>2, <2>3 DEF FullMatch, configVars, pceVars, queueVars,
    ConfigOK, DataOK, ControlOK, StepsPrepared
<1>4. CASE FullPurge
  <2>1. /\ flowSeen' \in Counts /\ reconcileDone' \subseteq Targets
        /\ savedRolling' \in Cache /\ spent' \in Spent
    BY <1>4, PurgeType DEF FullPurge
  <2> QED BY <1>4, <1>2, <2>1 DEF FullPurge, configVars, pceVars, queueVars,
    ConfigOK, DataOK, ControlOK, StepsPrepared
<1>5. ASSUME NEW d \in Days, NEW t \in Targets, Rebuild(d, t) PROVE TypeInv'
  <2>1. CASE FullDay(d, t)
    <3>1. full.targets[t] \in Fingerprint
      BY <1>0, <2>1 DEF FullDay
    <3>2. blockedDaily' \in Daily
      BY <2>1, <3>1 DEF FullDay, DataOK, Daily
    <3>3. full' \in Full /\ JobsPrepared'
      BY <2>1 DEF FullDay, Full, ControlOK, JobsPrepared
    <3> QED BY <2>1, <3>2, <3>3 DEF FullDay, configVars, pceVars, filterVars,
      queueVars, ConfigOK, DataOK, ControlOK, StepsPrepared
  <2>2. CASE FullDayRejected(d, t)
    <3>1. queue' \subseteq Targets /\ worker' \in {"off", "poll", "start"} /\ drained' \in Exclusions
      BY <2>2, EnqueueType DEF FullDayRejected
    <3>2. full' \in Full /\ JobsPrepared'
      BY <2>2 DEF FullDayRejected, Full, ControlOK, JobsPrepared
    <3> QED BY <2>2, <3>1, <3>2 DEF FullDayRejected, configVars, pceVars,
      dataVars, filterVars, ConfigOK, DataOK, ControlOK, StepsPrepared
  <2>3. CASE FullDayFails(d, t)
    <3>1. spent' \in Spent
      BY <2>3 DEF FullDayFails, Fault, Spend, Spent, ControlOK
    <3>2. full' \in Full /\ JobsPrepared'
      BY <2>3 DEF FullDayFails, Full, ControlOK, JobsPrepared
    <3> QED BY <2>3, <3>1, <3>2 DEF FullDayFails, configVars, pceVars, dataVars,
      filterVars, queueVars, ConfigOK, DataOK, ControlOK, StepsPrepared
  <2> QED BY <1>5, <2>1, <2>2, <2>3 DEF Rebuild
<1>6. CASE FullPassSaved
  <2>1. full' \in Full /\ JobsPrepared'
    BY <1>6, ConstantsAssumption DEF FullPassSaved, Full, ControlOK,
      JobsPrepared, Members
  <2> QED BY <1>6, <2>1 DEF FullPassSaved, SaveDailyIf, configVars, pceVars,
    filterVars, queueVars, ConfigOK, DataOK, ControlOK, StepsPrepared
<1>7. CASE FullMark
  <2>1. ASSUME NEW t \in Members(full.targets)
        PROVE  MarkerKey(t, full.targets[t]) \in Targets \X ({None} \cup Fingerprint)
    BY DEF MarkerKey, Members, ControlOK, Full, Filters, Partial
  <2>2. rollingCache' \in Cache
    <3>1. Only(Targets \ Rebuilt, rollingCache.pending) \in Filters
      BY OnlyType DEF DataOK, Cache, Filters
    <3> QED BY <1>7, <3>1 DEF FullMark, Cache, DataOK
  <2>3. full' \in Full /\ JobsPrepared'
    BY <1>7 DEF FullMark, Full, ControlOK, JobsPrepared
  <2> QED BY <1>7, <2>1, <2>2, <2>3 DEF FullMark, configVars, pceVars, queueVars, ConfigOK, DataOK, ControlOK, StepsPrepared
<1>8. CASE FullShown
  <2>1. savedRolling' \in Cache /\ spent' \in Spent
    BY <1>8, SaveType DEF FullShown
  <2>2. full' \in Full /\ JobsPrepared'
    BY <1>8 DEF FullShown, Full, ControlOK, JobsPrepared
  <2> QED BY <1>8, <2>1, <2>2 DEF FullShown, configVars, pceVars, queueVars,
    ConfigOK, DataOK, ControlOK, StepsPrepared
<1>9. CASE FullUnmarked
  <2>1. queue' \subseteq Targets /\ worker' \in {"off", "poll", "start"} /\ drained' \in Exclusions
    BY <1>9, EnqueueType DEF FullUnmarked, Configured, Members
  <2>2. spent' \in Spent
    BY <1>9 DEF FullUnmarked, Fault, Spend, Spent, ControlOK
  <2>3. full' \in Full /\ JobsPrepared'
    BY <1>9 DEF FullUnmarked, Full, ControlOK, JobsPrepared
  <2> QED BY <1>9, <2>1, <2>2, <2>3 DEF FullUnmarked, configVars, pceVars,
    dataVars, filterVars, ConfigOK, DataOK, ControlOK, StepsPrepared
<1>10. CASE FullFinish
  BY <1>10 DEF FullFinish, NoFull, Full, NoTargets, Exclusions, Filters, Partial,
    JobsPrepared, configVars, pceVars, dataVars, filterVars, queueVars,
    ConfigOK, DataOK, ControlOK, StepsPrepared
<1> QED BY <1>1, <1>3, <1>4, <1>5, <1>6, <1>7, <1>8, <1>9, <1>10 DEF FullStep

(* Every step of the system.                                               *)
LEMMA TypeStep == TypeInv /\ [Next]_vars => TypeInv'
<1> SUFFICES ASSUME TypeInv, [Next]_vars PROVE TypeInv'
  OBVIOUS
<1> USE DEF TypeInv, TypeOK
<1>1. CASE Startup
  <2> PICK ok \in BOOLEAN : Boot(ok)
    BY <1>1 DEF Startup
  <2>1. catalog' \in {NoCatalog} \cup (0 .. MaxDefinition) /\ spent' \in Spent
    BY ReadCatalogType DEF Boot
  <2>2. ASSUME NEW S PROVE Only(S, own) \in Exclusions
    BY OnlyType DEF ConfigOK, Exclusions
  <2>3. /\ queue' \subseteq Targets /\ worker' \in {"off", "poll", "start"}
        /\ drained' \in Exclusions /\ full' \in Full
        /\ full'.jobs = full.jobs /\ full'.targets = full.targets
    BY <2>2, RequestType DEF Boot
  <2> QED BY <2>1, <2>3 DEF Boot, configVars, dataVars, filterVars, ConfigOK,
    DataOK, ControlOK, StepsPrepared, JobsPrepared
<1>2. CASE PutInvalidate
  <2>1. rollingCache.fingerprints \in Filters /\ put.affected \in Filters
    BY DEF DataOK, Cache, ControlOK, Put
  <2>2. rollingCache' \in Cache
    BY <1>2, <2>1, InvalidateType DEF PutInvalidate, Invalidate
  <2> QED BY <1>2, <2>2 DEF PutInvalidate, Put, configVars, pceVars,
    requestVars, queueVars, ConfigOK, DataOK, ControlOK, StepsPrepared,
    JobsPrepared
<1>5. CASE PutPurge
  <2>1. /\ flowSeen' \in Counts /\ reconcileDone' \subseteq Targets
        /\ savedRolling' \in Cache /\ spent' \in Spent
    BY <1>5, PurgeType DEF PutPurge
  <2>2. /\ queue' \subseteq Targets /\ worker' \in {"off", "poll", "start"}
        /\ drained' \in Exclusions /\ full' \in Full
        /\ full'.jobs = full.jobs /\ full'.targets = full.targets
    BY <1>5, OnlyType, RequestType DEF PutPurge, ConfigOK, Exclusions
  <2> QED BY <1>5, <2>1, <2>2 DEF PutPurge, NoPut, Put, NoTargets, Filters,
    Partial, configVars, pceVars, ConfigOK, DataOK, ControlOK, StepsPrepared,
    JobsPrepared
<1>3. CASE WorkerStep
  <2>1. CASE WorkerDrain
    <3>1. Only(queue, own) \in Exclusions
      BY OnlyType DEF ConfigOK, Exclusions
    <3> QED BY <2>1, <3>1 DEF WorkerDrain, configVars, pceVars, dataVars,
      filterVars, ConfigOK, DataOK, ControlOK, StepsPrepared, JobsPrepared
  <2>2. CASE WorkerStart
    <3>1. full' \in Full /\ JobsPrepared'
      BY <2>2 DEF WorkerStart, Start, Full, ControlOK, JobsPrepared
    <3>2. queue' \subseteq Targets /\ worker' = "poll" /\ drained' \in Exclusions
      BY <2>2 DEF WorkerStart, Members, NoTargets, Exclusions, Partial,
        ControlOK
    <3> QED BY <2>2, <3>1, <3>2 DEF WorkerStart, configVars, pceVars, dataVars,
      filterVars, ConfigOK, DataOK, ControlOK, StepsPrepared
  <2> QED BY <1>3, <2>1, <2>2 DEF WorkerStep
<1>4. CASE UNCHANGED vars
  BY <1>4 DEF vars, configVars, pceVars, dataVars, filterVars, requestVars,
    queueVars, ConfigOK, DataOK, ControlOK, StepsPrepared, JobsPrepared
<1> QED BY <1>1, <1>2, <1>3, <1>4, <1>5, EnvironmentType, CycleType, FullType
  DEF Next, PutStep

(* Every variable keeps its type.                                          *)
THEOREM Typed == Spec => []TypeOK
<1>1. TypeInv => TypeOK
  BY DEF TypeInv
<1> QED BY <1>1, TypeInit, TypeStep, PTL DEF Spec

-----------------------------------------------------------------------------
(* What a save leaves on disk is what was there or what is in memory.      *)
LEMMA SavedWhole ==
  ASSUME SaveRolling PROVE savedRolling' \in {savedRolling, rollingCache}
BY DEF SaveRolling

(* An invalidation forgets no recorded filter and adds no data.            *)
LEMMA InvalidateAttributed ==
  ASSUME TypeInv, AttributionInv, NEW recorded \in Filters, NEW fps \in Filters,
         \A t \in Targets : rollingCache.fingerprints[t] # None => recorded[t] # None,
         InvalidateFrom(recorded, fps)
  PROVE  /\ RollingAttributed'
         /\ \A t \in Targets : recorded[t] # None => rollingCache'.fingerprints[t] # None
<1> DEFINE reset == Prepared(fps)
           recorded2 == Override(recorded, Only(reset, fps))
<1>1. /\ rollingCache'.fingerprints = recorded2
      /\ rollingCache'.counts = Without(reset, rollingCache.counts)
  BY DEF InvalidateFrom, TypeInv, TypeOK, DataOK, Cache
<1>2. \A t \in Targets : recorded[t] # None => recorded2[t] # None
  BY DEF Override, Only
<1>3. \A t \in Targets : Without(reset, rollingCache.counts)[t] \subseteq rollingCache.counts[t]
  BY DEF Without
<1> HIDE DEF recorded2, reset
<1>4. RollingAttributed'
  BY <1>1, <1>2, <1>3 DEF AttributionInv, RollingAttributed, Attributed
<1> QED BY <1>1, <1>2, <1>4

(* The same for the handlers that start from the recorded fingerprints.    *)
LEMMA InvalidateRecorded ==
  ASSUME TypeInv, AttributionInv, NEW fps \in Filters, Invalidate(fps),
         UNCHANGED savedRolling,
         cycle'.targets = cycle.targets, cycle'.stage = cycle.stage
  PROVE  RollingAttributed' /\ Attributed(savedRolling)' /\ SeenRecorded'
<1>1. rollingCache.fingerprints \in Filters
  BY DEF TypeInv, TypeOK, DataOK, Cache
<1>2. /\ RollingAttributed'
      /\ \A t \in Targets : rollingCache.fingerprints[t] # None
                              => rollingCache'.fingerprints[t] # None
  BY <1>1, InvalidateAttributed DEF Invalidate
<1>3. Attributed(savedRolling)'
  BY DEF AttributionInv, Attributed
<1> QED BY <1>2, <1>3 DEF SeenRecorded, AttributionInv, Prepared, Members

LEMMA AttributionInit == Init => AttributionInv
<1> SUFFICES ASSUME Init PROVE AttributionInv
  OBVIOUS
<1>1. RollingAttributed /\ Attributed(savedRolling)
  BY DEF Init, RollingAttributed, Attributed
<1>2. SeenRecorded
  BY DEF Init, SeenRecorded, NoCycle
<1> QED BY <1>1, <1>2, TypeInit DEF AttributionInv, TypeInv

(* A filter, once recorded for a target, is only ever replaced by another  *)
(* one, except by the first cycle, which replaces the counts as well.      *)
LEMMA AttributionStep ==
  TypeInv /\ TypeInv' /\ AttributionInv /\ [Next]_vars => AttributionInv'
<1> SUFFICES ASSUME TypeInv, TypeInv', AttributionInv, [Next]_vars
             PROVE  RollingAttributed' /\ Attributed(savedRolling)' /\ SeenRecorded'
  BY DEF AttributionInv, TypeInv
<1> USE DEF TypeInv, TypeOK
<1>0. ASSUME UNCHANGED rollingCache, savedRolling' \in {savedRolling, rollingCache},
             cycle'.targets = cycle.targets,
             \/ cycle'.stage = cycle.stage
             \/ cycle.stage = "reset" /\ cycle'.stage = "collect"
      PROVE  RollingAttributed' /\ Attributed(savedRolling)' /\ SeenRecorded'
  BY <1>0 DEF AttributionInv, RollingAttributed, Attributed, SeenRecorded,
    Prepared, Members
<1>1. CASE Environment
  <2>1. CASE Restart
    BY <2>1 DEF Restart, NoCycle, AttributionInv, RollingAttributed, Attributed,
      SeenRecorded
  <2>2. CASE Settings \/ DefinitionChange \/ CatalogExpire \/ ManualReconcile
    BY <1>0, <2>2 DEF Settings, PutTargets, ReloadConfig, DefinitionChange,
      CatalogExpire, ManualReconcile, dataVars, filterVars
  <2> QED BY <1>1, <2>1, <2>2 DEF Environment
<1>2. CASE Startup
  BY <1>0, <1>2 DEF Startup, Boot, dataVars, filterVars
<1>3. CASE PutStep
  <2>1. CASE PutInvalidate
    BY <2>1, InvalidateRecorded DEF PutInvalidate, ControlOK, Put
  <2>2. CASE PutPurge
    BY <1>0, <2>2, SavedWhole DEF PutPurge, Purge
  <2> QED BY <1>3, <2>1, <2>2 DEF PutStep
<1>4. CASE CycleStart
  BY <1>4 DEF CycleStart, CycleFreeze, dataVars, filterVars, NoCycle,
    SeenRecorded, ControlOK, AttributionInv, RollingAttributed, Attributed
<1>5. CASE CycleDetect
  <2>1. /\ Recorded \in Filters /\ Only(ChangedTargets, cycle.targets) \in Filters
    BY DEF SeenFilters, Recorded, Override, Only, Filters, Partial, DataOK,
      Cache, ControlOK, Cycle
  <2>2. \A t \in Targets : \/ rollingCache.fingerprints[t] # None
                           \/ t \in Prepared(cycle.targets)
                           => Recorded[t] # None
    BY DEF Recorded, Override, SeenFilters, Only, Prepared, Members
  <2>3. /\ RollingAttributed'
        /\ \A t \in Targets : Recorded[t] # None => rollingCache'.fingerprints[t] # None
    BY <1>5, <2>1, <2>2, InvalidateAttributed DEF CycleDetect
  <2>4. cycle'.targets = cycle.targets
    BY <1>5 DEF CycleDetect, ControlOK, Cycle
  <2>5. Attributed(savedRolling)'
    BY <1>5 DEF CycleDetect, AttributionInv, Attributed
  <2> QED BY <2>2, <2>3, <2>4, <2>5 DEF SeenRecorded, Prepared, Members
<1>13. CASE CyclePurge
  <2>1. cycle'.targets = cycle.targets /\ cycle.stage = "reset" /\ cycle'.stage = "collect"
    BY <1>13 DEF CyclePurge, ControlOK, Cycle
  <2> QED BY <1>0, <1>13, <2>1, SavedWhole DEF CyclePurge, Purge
<1>6. ASSUME NEW t \in Targets, Collect(t)
      PROVE  RollingAttributed' /\ Attributed(savedRolling)' /\ SeenRecorded'
  <2>1. cycle'.targets = cycle.targets /\ cycle'.stage = cycle.stage
    BY <1>6 DEF Collect, StartQuery, QueryFails, CommitQuery, CountQuery,
      AcceptResult, Supersede, PurgeQuery, RejectQuery, RejectResult, Replaced,
      Step, ControlOK, Cycle
  <2>2. CASE Supersede(t)
    <3> DEFINE fps == [u \in Targets |-> IF u = t THEN cycle.late[t].fp ELSE None]
    <3>1. fps \in Filters
      BY <2>2 DEF Supersede, Step, StepsPrepared, Replacing, ControlOK, Cycle,
        Partial, Filters
    <3> HIDE DEF fps
    <3>2. Invalidate(fps) /\ UNCHANGED savedRolling
      BY <2>2 DEF Supersede, fps
    <3> QED BY <2>1, <3>1, <3>2, InvalidateRecorded
  <2>3. ASSUME NEW ok \in BOOLEAN, RejectQuery(t, ok)
        PROVE  RollingAttributed' /\ Attributed(savedRolling)' /\ SeenRecorded'
    <3>1. Prepare(global, own, ok) \in Filters
      BY PrepareType DEF ConfigOK
    <3>2. Only({t}, Prepare(global, own, ok)) \in Filters
      BY <3>1, OnlyType DEF Filters
    <3> QED BY <2>1, <2>3, <3>2, InvalidateRecorded DEF RejectQuery
  <2>4. CASE \/ StartQuery(t) \/ QueryFails(t) \/ CommitQuery(t) \/ CountQuery(t)
             \/ AcceptResult(t) \/ \E ok \in BOOLEAN : RejectResult(t, ok)
    BY <1>0, <2>1, <2>4 DEF StartQuery, QueryFails, CommitQuery, CountQuery,
      AcceptResult, RejectResult, dataVars, filterVars
  <2>5. CASE PurgeQuery(t)
    BY <1>0, <2>1, <2>5, SavedWhole DEF PurgeQuery, Purge
  <2> QED BY <1>6, <2>2, <2>3, <2>4, <2>5 DEF Collect
<1>7. CASE CycleCommit
  <2>1. SeenRecorded'
    BY <1>7 DEF CycleCommit, SeenRecorded, ControlOK, Cycle
  <2>2. ASSUME NEW how \in {"baseDone", "deltaDone"}, NEW t \in Kept(how)
        PROVE  cycle.targets[t] # None /\ rollingCache.fingerprints[t] # None
    <3>1. t \in Prepared(cycle.targets)
      BY <2>2 DEF Kept, Members, AttributionInv, StepsPrepared, InProgress
    <3> QED BY <1>7, <3>1 DEF CycleCommit, AttributionInv, SeenRecorded,
      Prepared, Members
  <2>3. CASE cycle.base = "first"
    <3>1. /\ rollingCache'.fingerprints = cycle.targets
          /\ rollingCache'.counts = Adding([t \in Targets |-> {}], Kept("baseDone"))
      BY <1>7, <2>3 DEF CycleCommit, UpdateRolling, DataOK, Cache
    <3> QED BY <1>7, <2>1, <2>2, <3>1 DEF Adding, RollingAttributed, Attributed,
      AttributionInv, CycleCommit
  <2>4. CASE cycle.base # "first"
    <3>1. /\ rollingCache'.fingerprints = rollingCache.fingerprints
          /\ rollingCache'.counts =
               Adding(rollingCache.counts, Kept("baseDone") \cup Kept("deltaDone"))
      BY <1>7, <2>4 DEF CycleCommit, UpdateRolling, DataOK, Cache
    <3> QED BY <1>7, <2>1, <2>2, <3>1 DEF Adding, RollingAttributed, Attributed,
      AttributionInv, CycleCommit
  <2> QED BY <2>3, <2>4
<1>8. CASE CyclePublish
  BY <1>8, SavedWhole DEF CyclePublish, NoCycle, SeenRecorded, AttributionInv,
    RollingAttributed, Attributed
<1>9. ASSUME NEW t \in Targets, Previous(t)
      PROVE  RollingAttributed' /\ Attributed(savedRolling)' /\ SeenRecorded'
  BY <1>0, <1>9 DEF Previous, PreviousWrite, PreviousRejected, PreviousFails,
    PreviousMark, Step, dataVars, filterVars, ControlOK, Cycle
<1>10. CASE FullStep
  <2>1. CASE FullMatch
    <3>1. Only(PendingElsewhere, full.targets) \in Filters
      BY OnlyType DEF ControlOK, Full, Filters
    <3> QED BY <2>1, <3>1, InvalidateRecorded DEF FullMatch
  <2>2. CASE FullMark
    <3>1. /\ rollingCache'.fingerprints = rollingCache.fingerprints
          /\ rollingCache'.counts = rollingCache.counts
      BY <2>2 DEF FullMark, DataOK, Cache
    <3> QED BY <2>2, <3>1 DEF FullMark, AttributionInv, RollingAttributed,
      Attributed, SeenRecorded, Prepared, Members
  <2>3. CASE \/ FullPassSaved \/ FullUnmarked \/ FullFinish
             \/ \E ok \in BOOLEAN : FullPrepare(ok)
             \/ \E d \in Days, t \in Targets : Rebuild(d, t)
    BY <1>0, <2>3 DEF FullPassSaved, FullUnmarked, FullFinish, FullPrepare,
      Rebuild, FullDay, FullDayRejected, FullDayFails, dataVars, filterVars
  <2>4. CASE FullPurge \/ FullShown
    BY <1>0, <2>4, SavedWhole DEF FullPurge, FullShown, Purge
  <2> QED BY <1>10, <2>1, <2>2, <2>3, <2>4 DEF FullStep
<1>11. CASE WorkerStep
  BY <1>0, <1>11 DEF WorkerStep, WorkerDrain, WorkerStart, dataVars, filterVars
<1>12. CASE UNCHANGED vars
  BY <1>0, <1>12 DEF vars, dataVars, filterVars
<1> QED BY <1>1, <1>2, <1>3, <1>4, <1>5, <1>6, <1>7, <1>8, <1>9, <1>10, <1>11,
  <1>12, <1>13 DEF Next, CycleRest

(* Rolling data in memory and on disk always names the filter it was       *)
(* counted under: a superseded target is never left with data that the     *)
(* next cycle cannot tell from data without exclusions.                    *)
THEOREM AttributionHolds == Spec => []AttributionInv
BY TypeInit, TypeStep, AttributionInit, AttributionStep, PTL DEF Spec

-----------------------------------------------------------------------------
(* NeverUnfiltered, of what is in memory and what is on disk.              *)
ResolvedCounts(f) == \A t \in Targets : \A fp \in f[t] : fp.ver # Unresolved
ResolvedDays(f) ==
  \A t \in Targets, d \in Days : \A fp \in f[t][d] : fp.ver # Unresolved
ResolvedInv ==
  /\ ResolvedCounts(rollingCache.counts) /\ ResolvedCounts(savedRolling.counts)
  /\ ResolvedCounts(flowSeen)
  /\ ResolvedDays(blockedDaily) /\ ResolvedDays(savedDaily)

LEMMA ResolvedInit == Init => ResolvedInv
<1> SUFFICES ASSUME Init PROVE ResolvedInv
  OBVIOUS
<1> PICK upgraded \in Upgraded :
      LET kept == IF upgraded THEN Configured ELSE {}
          counts == [t \in Targets |-> IF t \in kept THEN {Unfiltered} ELSE {}]
      IN  /\ rollingCache.counts = counts
          /\ flowSeen = counts
          /\ blockedDaily = [t \in Targets |-> [d \in Days |-> counts[t]]]
  BY DEF Init
<1> QED BY DEF Init, ResolvedInv, ResolvedCounts, ResolvedDays, Unfiltered,
  Unresolved

(* An invalidation only removes traffic.                                   *)
LEMMA InvalidateResolved ==
  ASSUME TypeInv, ResolvedInv, NEW recorded, NEW fps, InvalidateFrom(recorded, fps)
  PROVE  ResolvedCounts(rollingCache'.counts)
<1> DEFINE reset == Prepared(fps)
<1>1. rollingCache'.counts = Without(reset, rollingCache.counts)
  BY DEF InvalidateFrom, TypeInv, TypeOK, DataOK, Cache
<1> QED BY <1>1 DEF Without, ResolvedInv, ResolvedCounts

LEMMA PurgeResolved ==
  ASSUME ResolvedInv, NEW S, Purge(S)
  PROVE  ResolvedCounts(savedRolling'.counts) /\ ResolvedCounts(flowSeen')
<1>1. ResolvedCounts(flowSeen')
  BY DEF Purge, Without, ResolvedInv, ResolvedCounts
<1> QED BY <1>1, SavedWhole DEF Purge, ResolvedInv

(* A query is made only for targets whose exclusions resolved.             *)
LEMMA ResolvedStep == TypeInv /\ ResolvedInv /\ [Next]_vars => ResolvedInv'
<1> SUFFICES ASSUME TypeInv, ResolvedInv, [Next]_vars PROVE ResolvedInv'
  OBVIOUS
<1> USE DEF TypeInv, TypeOK
<1>0. ASSUME UNCHANGED <<rollingCache, savedRolling, flowSeen, blockedDaily, savedDaily>>
      PROVE  ResolvedInv'
  BY <1>0 DEF ResolvedInv
<1>1. ASSUME NEW recorded, NEW fps, InvalidateFrom(recorded, fps),
             UNCHANGED <<savedRolling, flowSeen, blockedDaily, savedDaily>>
      PROVE  ResolvedInv'
  BY <1>1, InvalidateResolved DEF ResolvedInv
<1>14. ASSUME NEW S, Purge(S), UNCHANGED <<rollingCache, blockedDaily, savedDaily>>
       PROVE  ResolvedInv'
  BY <1>14, PurgeResolved DEF ResolvedInv
<1>2. CASE Environment
  <2>1. CASE Restart
    BY <2>1 DEF Restart, ResolvedInv
  <2>2. CASE Settings \/ DefinitionChange \/ CatalogExpire \/ ManualReconcile
    BY <1>0, <2>2 DEF Settings, PutTargets, ReloadConfig, DefinitionChange,
      CatalogExpire, ManualReconcile, dataVars, filterVars
  <2> QED BY <1>2, <2>1, <2>2 DEF Environment
<1>3. CASE Startup
  BY <1>0, <1>3 DEF Startup, Boot, dataVars, filterVars
<1>4. CASE PutStep
  BY <1>1, <1>4, <1>14 DEF PutStep, PutInvalidate, PutPurge, Invalidate
<1>5. CASE CycleStart
  BY <1>0, <1>5 DEF CycleStart, CycleFreeze, dataVars, filterVars
<1>6. CASE CycleDetect \/ CyclePurge
  BY <1>1, <1>6, <1>14 DEF CycleDetect, CyclePurge
<1>7. ASSUME NEW t \in Targets, Collect(t) PROVE ResolvedInv'
  <2>1. CASE Supersede(t)
    BY <1>1, <2>1 DEF Supersede, Invalidate
  <2>5. CASE PurgeQuery(t)
    BY <1>14, <2>5 DEF PurgeQuery
  <2>2. ASSUME NEW ok \in BOOLEAN, RejectQuery(t, ok) PROVE ResolvedInv'
    BY <1>1, <2>2 DEF RejectQuery, Invalidate
  <2>3. CASE CommitQuery(t)
    <3>1. t \in Prepared(cycle.targets)
      BY <2>3 DEF CommitQuery, Step, StepsPrepared, InProgress
    <3> QED BY <2>3, <3>1 DEF CommitQuery, Prepared, ResolvedInv,
      ResolvedCounts, DataOK, Counts
  <2>4. CASE \/ StartQuery(t) \/ QueryFails(t) \/ CountQuery(t)
             \/ AcceptResult(t) \/ \E ok \in BOOLEAN : RejectResult(t, ok)
    BY <1>0, <2>4 DEF StartQuery, QueryFails, CountQuery, AcceptResult,
      RejectResult, dataVars, filterVars
  <2> QED BY <1>7, <2>1, <2>2, <2>3, <2>4, <2>5 DEF Collect
<1>8. CASE CycleCommit
  <2>1. ASSUME NEW how \in {"baseDone", "deltaDone"}, NEW t \in Kept(how)
        PROVE  cycle.targets[t].ver # Unresolved
    BY <2>1 DEF Kept, StepsPrepared, InProgress, Prepared, Members
  <2>2. ASSUME NEW f, ResolvedCounts(f),
               NEW S \in SUBSET (Kept("baseDone") \cup Kept("deltaDone"))
        PROVE  ResolvedCounts(Adding(f, S))
    BY <2>1, <2>2 DEF ResolvedCounts, Adding
  <2>3. ResolvedCounts(rollingCache'.counts) /\ ResolvedCounts(flowSeen')
    <3>1. CASE cycle.base = "first"
      <4>1. /\ rollingCache'.counts = Adding([t \in Targets |-> {}], Kept("baseDone"))
            /\ flowSeen' = Without(Members(cycle.targets), flowSeen)
        BY <1>8, <3>1 DEF CycleCommit, UpdateRolling, DataOK, Cache
      <4>2. ResolvedCounts([t \in Targets |-> {}])
        BY DEF ResolvedCounts
      <4>3. ResolvedCounts(flowSeen')
        BY <4>1 DEF Without, ResolvedInv, ResolvedCounts
      <4> QED BY <2>2, <4>1, <4>2, <4>3
    <3>2. CASE cycle.base # "first"
      <4>1. /\ rollingCache'.counts =
                 Adding(rollingCache.counts, Kept("baseDone") \cup Kept("deltaDone"))
            /\ flowSeen' = flowSeen
        BY <1>8, <3>2 DEF CycleCommit, UpdateRolling, DataOK, Cache
      <4> QED BY <2>2, <4>1 DEF ResolvedInv
    <3> QED BY <3>1, <3>2
  <2>4. ResolvedDays(blockedDaily') /\ ResolvedDays(savedDaily')
    <3> PICK counted \in SUBSET Kept("deltaDone") : AccumulateHistory(counted)
      BY <1>8 DEF CycleCommit
    <3>1. ResolvedDays(blockedDaily')
      BY <2>1 DEF AccumulateHistory, ResolvedDays, ResolvedInv, DataOK, Daily
    <3> QED BY <3>1 DEF AccumulateHistory, SaveDailyIf, ResolvedInv
  <2> QED BY <1>8, <2>3, <2>4 DEF CycleCommit, ResolvedInv
<1>9. CASE CyclePublish
  BY <1>9, SavedWhole DEF CyclePublish, SaveDailyIf, ResolvedInv
<1>10. ASSUME NEW t \in Targets, Previous(t) PROVE ResolvedInv'
  <2>1. CASE PreviousWrite(t)
    BY <2>1 DEF PreviousWrite, filterVars, ResolvedInv, ResolvedDays, DataOK,
      Daily
  <2>2. CASE PreviousRejected(t) \/ PreviousFails(t) \/ PreviousMark(t)
    BY <1>0, <2>2 DEF PreviousRejected, PreviousFails, PreviousMark, dataVars,
      filterVars
  <2> QED BY <1>10, <2>1, <2>2 DEF Previous
<1>11. CASE FullStep
  <2>1. CASE FullMatch
    BY <1>1, <2>1 DEF FullMatch, Invalidate
  <2>6. CASE FullPurge
    BY <1>14, <2>6 DEF FullPurge
  <2>7. CASE FullShown
    BY <2>7, SavedWhole DEF FullShown, ResolvedInv
  <2>2. ASSUME NEW d \in Days, NEW t \in Targets, FullDay(d, t) PROVE ResolvedInv'
    BY <2>2 DEF FullDay, filterVars, ResolvedInv, ResolvedDays, DataOK, Daily
  <2>3. CASE FullMark
    <3>1. rollingCache'.counts = rollingCache.counts
      BY <2>3 DEF FullMark, DataOK, Cache
    <3> QED BY <2>3, <3>1 DEF FullMark, ResolvedInv
  <2>4. CASE FullPassSaved
    BY <2>4 DEF FullPassSaved, SaveDailyIf, filterVars, ResolvedInv
  <2>5. CASE \/ FullUnmarked \/ FullFinish \/ \E ok \in BOOLEAN : FullPrepare(ok)
             \/ \E d \in Days, t \in Targets : FullDayRejected(d, t) \/ FullDayFails(d, t)
    BY <1>0, <2>5 DEF FullUnmarked, FullFinish, FullPrepare, FullDayRejected,
      FullDayFails, dataVars, filterVars
  <2> QED BY <1>11, <2>1, <2>2, <2>3, <2>4, <2>5, <2>6, <2>7 DEF FullStep, Rebuild
<1>12. CASE WorkerStep
  BY <1>0, <1>12 DEF WorkerStep, WorkerDrain, WorkerStart, dataVars, filterVars
<1>13. CASE UNCHANGED vars
  BY <1>0, <1>13 DEF vars, dataVars, filterVars
<1> QED BY <1>2, <1>3, <1>4, <1>5, <1>6, <1>7, <1>8, <1>9, <1>10, <1>11, <1>12,
  <1>13 DEF Next, CycleRest

(* Traffic of a target whose service names could not be resolved is never  *)
(* counted: not in the rolling state, the flow table or the history.       *)
THEOREM Resolved == Spec => []NeverUnfiltered
<1>1. ResolvedInv => NeverUnfiltered
  BY DEF ResolvedInv, ResolvedCounts, ResolvedDays, NeverUnfiltered
<1> QED BY <1>1, TypeInit, TypeStep, ResolvedInit, ResolvedStep, PTL DEF Spec

-----------------------------------------------------------------------------
(* A target reset in memory stays known to whoever reset it until its rows *)
(* are deleted: queries are answered while a cycle collects only, and a    *)
(* cycle resets targets it holds the exclusions of.                        *)
PurgeInv ==
  /\ \A t \in Targets : cycle.step[t] \in Replacing => cycle.stage = "collect"
  /\ cycle.stage = "frozen" => Members(cycle.own) = Members(cycle.targets)
  /\ full.reset # {} => full.stage = "reset"

LEMMA PurgeInit == Init => PurgeInv
BY DEF Init, PurgeInv, NoCycle, NoFull, Replacing

(* A request starts a reconcile only when none is under way.               *)
LEMMA RequestStarts ==
  ASSUME ControlOK, NEW o, Request(o)
  PROVE  /\ full'.reset = full.reset /\ full'.targets = full.targets
         /\ full'.stage = full.stage \/ full.stage = "idle"
BY DEF Request, Start, ControlOK, Full

LEMMA PurgeStep == TypeInv /\ PurgeInv /\ [Next]_vars => PurgeInv'
<1> SUFFICES ASSUME TypeInv, PurgeInv, [Next]_vars PROVE PurgeInv'
  OBVIOUS
<1> USE DEF TypeInv, TypeOK
<1> DEFINE FullKept == /\ full'.reset = full.reset
                       /\ full'.stage = full.stage \/ full.stage = "idle"
<1>1. ASSUME cycle' = cycle, FullKept PROVE PurgeInv'
  BY <1>1 DEF PurgeInv
<1>2. ASSUME NEW o, Request(o) PROVE FullKept
  BY <1>2, RequestStarts
<1>3. ASSUME UNCHANGED full PROVE FullKept
  BY <1>3
<1> HIDE DEF FullKept
<1>4. CASE Environment
  <2>1. CASE Restart
    BY <2>1 DEF Restart, PurgeInv, NoCycle, NoFull, Replacing
  <2>2. CASE ManualReconcile
    BY <1>1, <2>2 DEF ManualReconcile, Start, ControlOK, Full, FullKept
  <2>3. CASE Settings \/ DefinitionChange \/ CatalogExpire
    BY <1>1, <1>3, <2>3 DEF Settings, PutTargets, ReloadConfig,
      DefinitionChange, CatalogExpire, requestVars
  <2> QED BY <1>4, <2>1, <2>2, <2>3 DEF Environment
<1>5. CASE Startup
  BY <1>1, <1>2, <1>5 DEF Startup, Boot
<1>6. CASE PutStep
  BY <1>1, <1>2, <1>3, <1>6 DEF PutStep, PutInvalidate, PutPurge, requestVars
<1>7. ASSUME cycle'.stage \notin {"frozen", "collect"},
             \A t \in Targets : cycle'.step[t] \notin Replacing, FullKept
      PROVE  PurgeInv'
  BY <1>7 DEF PurgeInv, FullKept
<1>8. ASSUME NEW ok \in BOOLEAN, CycleFreeze(ok) PROVE PurgeInv'
  <2>1. /\ cycle'.own = own /\ cycle'.targets = Prepare(global, own, ok)
        /\ \A t \in Targets : cycle'.step[t] = "none"
    BY <1>8 DEF CycleFreeze, NoCycle
  <2>2. Members(Prepare(global, own, ok)) = Members(own)
    BY PrepareType DEF ConfigOK
  <2>3. Members(cycle.own)' = Members(cycle.targets)'
    BY <2>1, <2>2 DEF Members
  <2> QED BY <1>8, <2>1, <2>3 DEF CycleFreeze, requestVars, PurgeInv, Replacing
<1>9. CASE CycleDetect
  <2>1. /\ cycle'.stage \in {"collect", "reset"} /\ UNCHANGED full
        /\ \A t \in Targets : cycle'.step[t] \in {"todo", "none"}
    BY <1>9 DEF CycleDetect, ControlOK, Cycle, requestVars
  <2> QED BY <2>1 DEF PurgeInv, Replacing
<1>10. CASE CyclePurge
  <2>1. /\ cycle'.stage = "collect" /\ cycle'.step = cycle.step
    BY <1>10 DEF CyclePurge, ControlOK, Cycle
  <2>2. FullKept
    BY <1>2, <1>10 DEF CyclePurge
  <2> QED BY <2>1, <2>2 DEF PurgeInv, FullKept
<1>11. CASE CycleCommit
  <2>1. /\ cycle'.stage = "previous" /\ UNCHANGED full
        /\ \A t \in Targets : cycle'.step[t] \in {"todo", "none"}
    BY <1>11 DEF CycleCommit, ControlOK, Cycle, requestVars
  <2> QED BY <1>3, <1>7, <2>1 DEF Replacing
<1>12. CASE CyclePublish
  BY <1>3, <1>7, <1>12 DEF CyclePublish, NoCycle, Replacing, requestVars
<1>13. ASSUME NEW t \in Targets, Collect(t) PROVE PurgeInv'
  <2>1. cycle.stage = "collect"
    BY <1>13 DEF Collect, StartQuery, QueryFails, CommitQuery, CountQuery,
      AcceptResult, Supersede, PurgeQuery, RejectQuery, RejectResult, Step,
      PurgeInv, Replacing
  <2>2. cycle'.stage = "collect"
    BY <1>13, <2>1 DEF Collect, StartQuery, QueryFails, CommitQuery, CountQuery,
      AcceptResult, Supersede, PurgeQuery, RejectQuery, RejectResult, Replaced,
      Step, ControlOK, Cycle
  <2>3. FullKept
    BY <1>2, <1>3, <1>13 DEF Collect, StartQuery, QueryFails, CommitQuery,
      CountQuery, AcceptResult, Supersede, PurgeQuery, RejectQuery,
      RejectResult, requestVars
  <2> QED BY <2>2, <2>3 DEF PurgeInv, FullKept
<1>14. ASSUME NEW t \in Targets, Previous(t) PROVE PurgeInv'
  <2>1. /\ cycle.stage = "previous" /\ cycle'.stage = "previous"
        /\ \A u \in Targets : cycle'.step[u] \in {cycle.step[u], "written", "none", "done"}
    BY <1>14 DEF Previous, PreviousWrite, PreviousRejected, PreviousFails,
      PreviousMark, Step, ControlOK, Cycle
  <2>2. FullKept
    BY <1>2, <1>3, <1>14 DEF Previous, PreviousWrite, PreviousRejected,
      PreviousFails, PreviousMark, requestVars
  <2> QED BY <1>7, <2>1, <2>2 DEF PurgeInv, Replacing
<1>15. ASSUME UNCHANGED cycle, full'.reset = {} PROVE PurgeInv'
  BY <1>15 DEF PurgeInv
<1>16. CASE FullStep
  <2>1. CASE \/ FullPassSaved \/ FullMark \/ FullShown \/ FullUnmarked
             \/ \E d \in Days, t \in Targets : Rebuild(d, t)
    <3>1. full.stage # "reset" /\ full'.reset = full.reset
      BY <2>1 DEF FullPassSaved, FullMark, FullShown, FullUnmarked, Rebuild,
        FullDay, FullDayRejected, FullDayFails, ControlOK, Full
    <3> QED BY <1>15, <2>1, <3>1 DEF PurgeInv, FullPassSaved, FullMark,
      FullShown, FullUnmarked, Rebuild, FullDay, FullDayRejected, FullDayFails
  <2>2. CASE FullFinish \/ \E ok \in BOOLEAN : FullPrepare(ok)
    <3>1. CASE FullFinish
      BY <1>15, <3>1 DEF FullFinish, NoFull
    <3>2. ASSUME NEW ok \in BOOLEAN, FullPrepare(ok) PROVE PurgeInv'
      <4>1. full'.reset = {} /\ UNCHANGED cycle
        BY <3>2 DEF FullPrepare, NoFull
      <4> QED BY <1>15, <4>1
    <3> QED BY <2>2, <3>1, <3>2
  <2>3. ASSUME ListDays PROVE full'.reset = {}
    BY <2>3 DEF ListDays, ControlOK, Full
  <2>4. CASE FullPurge
    BY <1>15, <2>3, <2>4 DEF FullPurge
  <2>5. CASE FullMatch
    <3>1. CASE PendingElsewhere = {}
      BY <1>15, <2>3, <2>5, <3>1 DEF FullMatch
    <3>2. CASE PendingElsewhere # {}
      BY <2>5, <3>2 DEF FullMatch, PurgeInv, ControlOK, Full
    <3> QED BY <3>1, <3>2
  <2> QED BY <1>16, <2>1, <2>2, <2>4, <2>5 DEF FullStep
<1>17. CASE WorkerStep
  BY <1>1, <1>3, <1>17 DEF WorkerStep, WorkerDrain, WorkerStart, Start,
    ControlOK, Full, FullKept
<1>18. CASE UNCHANGED vars
  BY <1>1, <1>3, <1>18 DEF vars, requestVars
<1> QED BY <1>4, <1>5, <1>6, <1>8, <1>9, <1>10, <1>11, <1>12, <1>13, <1>14,
  <1>16, <1>17, <1>18 DEF Next, CycleStart, CycleRest

(* Nobody forgets a target it has reset before its rows are deleted.       *)
LEMMA PurgingHeld ==
  ASSUME TypeInv, PurgeInv, [Next]_vars, ~Restart, NEW t \in Targets
  PROVE  /\ put.stage = "hidden" /\ ~PutPurge => put' = put
         /\ cycle.stage = "reset" /\ ~CyclePurge => cycle' = cycle
         /\ cycle.step[t] \in {"rejected", "hidden"} /\ ~PurgeQuery(t) =>
              cycle'.step[t] = cycle.step[t]
         /\ full.reset # {} /\ ~FullPurge => full'.reset = full.reset
<1> USE DEF TypeInv, TypeOK
<1>1. t \in Targets
  OBVIOUS
<1>2. ASSUME put.stage = "hidden", ~PutPurge PROVE put' = put
  <2>1. CASE Environment \/ Startup \/ PutStep
    BY <1>2, <2>1 DEF Environment, Settings, PutTargets, ReloadConfig,
      DefinitionChange, CatalogExpire, ManualReconcile, UpdateUnlocked, Startup,
      Boot, PutStep, PutInvalidate
  <2>2. CASE CycleStart \/ CycleRest
    BY <2>2 DEF CycleStart, CycleFreeze, CycleRest, CycleDetect, CyclePurge,
      CycleCommit, CyclePublish, Collect, StartQuery, QueryFails, CommitQuery,
      CountQuery, AcceptResult, Supersede, PurgeQuery, RejectQuery,
      RejectResult, Previous, PreviousWrite, PreviousRejected, PreviousFails,
      PreviousMark
  <2>3. CASE FullStep \/ WorkerStep \/ UNCHANGED vars
    BY <2>3 DEF FullStep, FullMatch, FullPurge, FullPassSaved, FullMark,
      FullShown, FullUnmarked, FullFinish, FullPrepare, Rebuild, FullDay,
      FullDayRejected, FullDayFails, WorkerStep, WorkerDrain, WorkerStart, vars
  <2> QED BY <2>1, <2>2, <2>3 DEF Next
<1>3. \/ cycle' = cycle \/ CycleStart \/ CycleRest
  BY DEF Next, Environment, Settings, PutTargets, ReloadConfig, DefinitionChange,
    CatalogExpire, ManualReconcile, Startup, Boot, PutStep, PutInvalidate,
    PutPurge, FullStep, FullMatch, FullPurge, FullPassSaved, FullMark,
    FullShown, FullUnmarked, FullFinish, FullPrepare, Rebuild, FullDay,
    FullDayRejected, FullDayFails, WorkerStep, WorkerDrain, WorkerStart, vars
<1>4. ASSUME cycle.stage = "reset", ~CyclePurge PROVE cycle' = cycle
  <2>1. ~CycleStart /\ ~CycleDetect /\ ~CycleCommit /\ ~CyclePublish
    BY <1>4 DEF CycleStart, CycleFreeze, CycleDetect, CycleCommit, CyclePublish
  <2>2. \A u \in Targets : ~Previous(u)
    BY <1>4 DEF Previous, PreviousWrite, PreviousRejected, PreviousFails,
      PreviousMark
  <2>3. \A u \in Targets : ~Collect(u)
    BY <1>4 DEF Collect, StartQuery, QueryFails, CommitQuery, CountQuery,
      AcceptResult, Supersede, PurgeQuery, RejectQuery, RejectResult, Step,
      PurgeInv, Replacing
  <2> QED BY <1>3, <1>4, <2>1, <2>2, <2>3 DEF CycleRest
<1>5. ASSUME cycle.step[t] \in {"rejected", "hidden"}, ~PurgeQuery(t)
      PROVE  cycle'.step[t] = cycle.step[t]
  <2>1. cycle.stage = "collect"
    BY <1>1, <1>5 DEF PurgeInv, Replacing
  <2>2. /\ ~CycleStart /\ ~CycleDetect /\ ~CyclePurge /\ ~CycleCommit /\ ~CyclePublish
        /\ \A u \in Targets : ~Previous(u)
    BY <1>1, <1>5, <2>1 DEF CycleStart, CycleFreeze, CycleDetect, CyclePurge,
      CycleCommit, CyclePublish, Collected, Previous, PreviousWrite,
      PreviousRejected, PreviousFails, PreviousMark
  <2>3. ASSUME NEW u \in Targets, Collect(u) PROVE cycle'.step[t] = cycle.step[t]
    <3>1. CASE u = t
      BY <1>5, <2>3, <3>1 DEF Collect, StartQuery, QueryFails, CommitQuery,
        CountQuery, AcceptResult, Supersede, RejectQuery, RejectResult, Step
    <3>2. CASE u # t
      <4>1. ASSUME NEW now, NEW stage, cycle' = Replaced(u, now, stage)
            PROVE  cycle'.step[t] = cycle.step[t]
        BY <1>1, <3>2, <4>1 DEF Replaced, ControlOK, Cycle
      <4>2. CASE PurgeQuery(u)
        BY <1>1, <3>2, <4>2 DEF PurgeQuery, ControlOK, Cycle
      <4>3. CASE \/ StartQuery(u) \/ QueryFails(u) \/ CommitQuery(u)
                 \/ CountQuery(u) \/ AcceptResult(u) \/ Supersede(u)
        BY <1>1, <3>2, <4>3 DEF StartQuery, QueryFails, CommitQuery, CountQuery,
          AcceptResult, Supersede, Step, ControlOK, Cycle
      <4>4. ASSUME NEW ok \in BOOLEAN, RejectQuery(u, ok) \/ RejectResult(u, ok)
            PROVE  cycle'.step[t] = cycle.step[t]
        BY <4>1, <4>4 DEF RejectQuery, RejectResult
      <4> QED BY <2>3, <4>2, <4>3, <4>4 DEF Collect
    <3> QED BY <3>1, <3>2
  <2> QED BY <1>3, <2>2, <2>3 DEF CycleRest
<1>6. ASSUME full.reset # {}, ~FullPurge PROVE full'.reset = full.reset
  <2>1. full.stage = "reset"
    BY <1>6 DEF PurgeInv
  <2>2. ~FullStep
    BY <1>6, <2>1 DEF FullStep, FullMatch, FullPassSaved, FullMark, FullShown,
      FullUnmarked, FullFinish, FullPrepare, Rebuild, FullDay, FullDayRejected,
      FullDayFails
  <2>3. CASE Environment \/ Startup \/ PutStep
    BY <2>1, <2>3, RequestStarts DEF Environment, Settings, PutTargets,
      ReloadConfig, DefinitionChange, CatalogExpire, ManualReconcile, Startup,
      Boot, PutStep, PutInvalidate, PutPurge, requestVars
  <2>4. CASE CycleStart \/ CycleRest
    BY <2>4, RequestStarts DEF CycleStart, CycleFreeze, CycleRest, CycleDetect,
      CyclePurge, CycleCommit, CyclePublish, Collect, StartQuery, QueryFails,
      CommitQuery, CountQuery, AcceptResult, Supersede, PurgeQuery, RejectQuery,
      RejectResult, Previous, PreviousWrite, PreviousRejected, PreviousFails,
      PreviousMark, requestVars
  <2>5. CASE WorkerStep \/ UNCHANGED vars
    BY <2>1, <2>5 DEF WorkerStep, WorkerDrain, WorkerStart, requestVars, vars
  <2> QED BY <2>2, <2>3, <2>4, <2>5 DEF Next
<1> QED BY <1>2, <1>4, <1>5, <1>6

LEMMA PurgingLeft ==
  ASSUME TypeInv, PurgeInv, [Next]_vars, ~Restart, NEW t \in Purging, t \notin Purging'
  PROVE  \/ PutPurge /\ put.affected[t] # None
         \/ CyclePurge /\ cycle.own[t] # None
         \/ PurgeQuery(t)
         \/ FullPurge /\ t \in full.reset
BY PurgingHeld DEF Purging

(* The rows are deleted in the very step after which it is forgotten.      *)
Emptied == \A t \in Purging \ Purging' : flowSeen'[t] = {}

LEMMA PurgedEmpty ==
  ASSUME TypeInv, PurgeInv, [Next]_vars, ~Restart PROVE Emptied
<1> SUFFICES ASSUME NEW t \in Purging, t \notin Purging' PROVE flowSeen'[t] = {}
  BY DEF Emptied
<1>1. t \in Targets
  BY DEF Purging
<1>2. ASSUME NEW S, Purge(S), t \in S PROVE flowSeen'[t] = {}
  BY <1>1, <1>2 DEF Purge, Without
<1> QED BY <1>1, <1>2, PurgingLeft DEF PutPurge, CyclePurge, PurgeQuery, FullPurge,
  Members

-----------------------------------------------------------------------------
(* What was spent of the bounds only grows.                                *)
SpentMore ==
  \/ spent' = spent
  \/ \E what \in {"puts", "reloads", "manual", "faults", "saves", "crashes"} :
       spent' = [spent EXCEPT ![what] = @ + 1]

LEMMA SpentGrows == [Next]_vars => SpentMore
<1> SUFFICES ASSUME [Next]_vars PROVE SpentMore
  OBVIOUS
<1> USE DEF SpentMore
<1>1. ASSUME Fault PROVE SpentMore
  BY <1>1 DEF Fault, Spend
<1>2. ASSUME NEW fps, NEW ok, ReadCatalog(fps, ok) PROVE SpentMore
  BY <1>1, <1>2 DEF ReadCatalog
<1>12. ASSUME SaveRolling PROVE SpentMore
  BY <1>12 DEF SaveRolling, Spend
<1>3. CASE Environment
  BY <1>3 DEF Environment, Settings, PutTargets, ReloadConfig, DefinitionChange, CatalogExpire,
    ManualReconcile, Restart, Spend
<1>4. CASE Startup
  BY <1>2, <1>4 DEF Startup, Boot
<1>5. CASE PutStep
  BY <1>5, <1>12 DEF PutStep, PutInvalidate, PutPurge, Purge
<1>6. CASE CycleStart
  BY <1>2, <1>6 DEF CycleStart, CycleFreeze
<1>7. ASSUME NEW t \in Targets, Collect(t) PROVE SpentMore
  <2>1. ASSUME NEW ok \in BOOLEAN, RejectQuery(t, ok) \/ RejectResult(t, ok) PROVE SpentMore
    BY <1>2, <2>1 DEF RejectQuery, RejectResult
  <2> QED BY <1>1, <1>7, <1>12, <2>1 DEF Collect, StartQuery, QueryFails, CommitQuery,
        CountQuery, AcceptResult, Supersede, PurgeQuery, Purge
<1>8. ASSUME NEW t \in Targets, Previous(t) PROVE SpentMore
  BY <1>1, <1>8 DEF Previous, PreviousWrite, PreviousRejected, PreviousFails, PreviousMark
<1>9. CASE CycleDetect \/ CyclePurge \/ CycleCommit \/ CyclePublish
  BY <1>9, <1>12 DEF CycleDetect, CyclePurge, Purge, CycleCommit, CyclePublish
<1>10. CASE FullStep
  <2>1. ASSUME NEW ok \in BOOLEAN, FullPrepare(ok) PROVE SpentMore
    BY <1>2, <2>1 DEF FullPrepare
  <2>2. ASSUME NEW d \in Days, NEW t \in Targets, Rebuild(d, t) PROVE SpentMore
    BY <1>1, <2>2 DEF Rebuild, FullDay, FullDayRejected, FullDayFails
  <2> QED BY <1>1, <1>10, <1>12, <2>1, <2>2 DEF FullStep, FullMatch, FullPurge, Purge,
        FullPassSaved, FullMark, FullShown, FullUnmarked, FullFinish
<1>11. CASE WorkerStep
  BY <1>11 DEF WorkerStep, WorkerDrain, WorkerStart
<1> QED BY <1>3, <1>4, <1>5, <1>6, <1>7, <1>8, <1>9, <1>10, <1>11 DEF Next, CycleRest, vars

(* config.json was not edited on disk.                                     *)
Unedited == spent.reloads = 0

LEMMA UneditedBefore ==
  ASSUME TypeInv, [Next]_vars, Unedited'
  PROVE  /\ Unedited
         /\ spent.puts \in Nat /\ spent'.puts \in Nat /\ spent.puts <= spent'.puts
         /\ ~\E g \in GlobalChoices, o \in [Targets -> {None} \cup OwnChoices] : ReloadConfig(g, o)
<1>1. spent \in Spent
  BY DEF TypeInv, TypeOK, ControlOK
<1>2. Unedited /\ spent.puts \in Nat /\ spent'.puts \in Nat /\ spent.puts <= spent'.puts
  BY <1>1, SpentGrows DEF SpentMore, Unedited, Spent
<1>3. ~\E g \in GlobalChoices, o \in [Targets -> {None} \cup OwnChoices] : ReloadConfig(g, o)
  BY <1>1 DEF ReloadConfig, Spend, Unedited, Spent
<1> QED BY <1>2, <1>3

(* Nor, besides, has the process restarted.                                *)
Undisturbed == spent.reloads = 0 /\ spent.crashes = 0

LEMMA DisturbedBefore ==
  ASSUME TypeInv, [Next]_vars, Undisturbed'
  PROVE  /\ Undisturbed /\ ~Restart
         /\ spent.puts \in Nat /\ spent'.puts \in Nat /\ spent.puts <= spent'.puts
         /\ ~\E g \in GlobalChoices, o \in [Targets -> {None} \cup OwnChoices] : ReloadConfig(g, o)
<1>1. spent \in Spent
  BY DEF TypeInv, TypeOK, ControlOK
<1>2. Undisturbed /\ spent.puts \in Nat /\ spent'.puts \in Nat /\ spent.puts <= spent'.puts
  BY <1>1, SpentGrows DEF SpentMore, Undisturbed, Spent
<1>3. ~Restart
  BY <1>1 DEF Restart, Spend, Undisturbed, Spent
<1>4. ~\E g \in GlobalChoices, o \in [Targets -> {None} \cup OwnChoices] : ReloadConfig(g, o)
  BY <1>1 DEF ReloadConfig, Spend, Undisturbed, Spent
<1> QED BY <1>2, <1>3, <1>4

-----------------------------------------------------------------------------
(* What invalidateTrafficServiceFilterTargets does to each target in memory*)
LEMMA InvalidateEach ==
  ASSUME TypeInv, NEW recorded \in Filters, NEW fps \in Filters, InvalidateFrom(recorded, fps),
         NEW t \in Targets
  PROVE  /\ rollingCache'.initialized = rollingCache.initialized
         /\ t \in Prepared(fps) =>
              /\ rollingCache'.fingerprints[t] = fps[t] /\ rollingCache'.pending[t] = fps[t]
              /\ rollingCache'.counts[t] = {}
              /\ fps[t] # None
         /\ t \notin Prepared(fps) =>
              /\ rollingCache'.fingerprints[t] = recorded[t]
              /\ rollingCache'.pending[t] = rollingCache.pending[t]
              /\ rollingCache'.counts[t] = rollingCache.counts[t]
<1> DEFINE reset == Prepared(fps)
<1>1. /\ rollingCache'.fingerprints = Override(recorded, Only(reset, fps))
      /\ rollingCache'.pending = Override(rollingCache.pending, Only(reset, fps))
      /\ rollingCache'.counts = Without(reset, rollingCache.counts)
      /\ rollingCache'.initialized = rollingCache.initialized
  BY DEF InvalidateFrom, TypeInv, TypeOK, DataOK, Cache
<1>2. t \in reset => fps[t] # None
  BY DEF Prepared, Members
<1> HIDE DEF reset
<1> QED BY <1>1, <1>2 DEF Override, Only, Without, reset

-----------------------------------------------------------------------------
(* RollingCurrent.  A target whose settings were saved waits for its reset;*)
(* of data without a recorded filter the flow table holds no more than the *)
(* buckets.                                                                *)
Awaiting(t) == put.stage = "saved" /\ put.affected[t] # None
RollingOf(t) ==
  /\ ~Awaiting(t) /\ Recognised(rollingCache, t) =>
       /\ UnderSelected(t, rollingCache.counts[t])
       /\ rollingCache.initialized /\ t \notin Purging => UnderSelected(t, flowSeen[t])
  /\ rollingCache.fingerprints[t] = None /\ rollingCache.initialized =>
       flowSeen[t] \subseteq rollingCache.counts[t]
PutResolved == \A t \in Targets : put.affected[t] # None => put.affected[t].ver # Unresolved
RollingInv ==
  /\ \A t \in Targets : own[t] # None
  /\ PutResolved
  /\ cycle.stage # "idle" => Members(cycle.targets) = Targets
  /\ \A t \in Targets : RollingOf(t)
SteadyRolling == Undisturbed /\ Removable = {} => RollingInv

LEMMA RollingInit == Init => SteadyRolling
<1> SUFFICES ASSUME Init, Removable = {} PROVE RollingInv
  BY DEF SteadyRolling
<1>1. \A t \in Targets : own[t] # None
  BY DEF Init, Configured, Members
<1>2. put = NoPut /\ cycle = NoCycle /\ rollingCache.fingerprints = NoTargets
  BY DEF Init
<1>3. flowSeen = rollingCache.counts
  BY DEF Init
<1> QED BY <1>1, <1>2, <1>3 DEF RollingInv, PutResolved, RollingOf, Recognised, NoPut, NoCycle, NoTargets

(* A step that resets targets, and leaves the others as they were.         *)
LEMMA RollingReset ==
  ASSUME TypeInv, RollingInv, NEW fps \in Filters, Invalidate(fps),
         UNCHANGED <<configVars, flowSeen>>, Emptied, Prepared(fps) \subseteq Purging',
         \A t \in Targets : Awaiting(t) => Awaiting(t)' \/ t \in Prepared(fps),
         NEW t \in Targets
  PROVE  RollingOf(t)'
<1>1. rollingCache.fingerprints \in Filters
  BY DEF TypeInv, TypeOK, DataOK, Cache
<1>2. Selected(t)' = Selected(t) /\ own' = own
  BY DEF configVars, Selected
<1>3. CASE t \in Prepared(fps)
  <2>1. rollingCache'.counts[t] = {} /\ rollingCache'.fingerprints[t] # None
    BY <1>1, <1>3, InvalidateEach DEF Invalidate
  <2> QED BY <1>3, <2>1 DEF RollingOf, UnderSelected
<1>4. CASE t \notin Prepared(fps)
  <2>1. /\ rollingCache'.initialized = rollingCache.initialized
        /\ rollingCache'.fingerprints[t] = rollingCache.fingerprints[t]
        /\ rollingCache'.counts[t] = rollingCache.counts[t]
    BY <1>1, <1>4, InvalidateEach DEF Invalidate
  <2>2. ~Awaiting(t)' => ~Awaiting(t)
    BY <1>4
  <2>3. t \notin Purging' => t \notin Purging \/ flowSeen[t] = {}
    BY DEF Emptied
  <2> QED BY <1>2, <2>1, <2>2, <2>3 DEF RollingInv, RollingOf, Recognised, UnderSelected
<1> QED BY <1>3, <1>4

(* A step that deletes rows, or has nothing to do with traffic.            *)
LEMMA RollingSame ==
  ASSUME TypeInv, RollingInv, UNCHANGED configVars, Emptied,
         rollingCache'.fingerprints = rollingCache.fingerprints,
         rollingCache'.counts = rollingCache.counts,
         rollingCache'.initialized = rollingCache.initialized,
         \A t \in Targets : flowSeen'[t] \in {flowSeen[t], {}},
         \A t \in Targets : Awaiting(t) => Awaiting(t)',
         NEW t \in Targets
  PROVE  RollingOf(t)'
<1>1. Selected(t)' = Selected(t) /\ own' = own
  BY DEF configVars, Selected
<1>2. t \notin Purging' => t \notin Purging \/ flowSeen'[t] = {}
  BY DEF Emptied
<1>3. flowSeen'[t] \subseteq flowSeen[t]
  OBVIOUS
<1> QED BY <1>1, <1>2, <1>3 DEF RollingInv, RollingOf, Recognised, UnderSelected

LEMMA RollingQuiet ==
  ASSUME TypeInv, RollingInv, UNCHANGED configVars, Emptied,
         rollingCache'.fingerprints = rollingCache.fingerprints,
         rollingCache'.counts = rollingCache.counts,
         rollingCache'.initialized = rollingCache.initialized,
         \A t \in Targets : flowSeen'[t] \in {flowSeen[t], {}},
         put' = put \/ (put' = NoPut /\ put.stage # "saved"),
         cycle'.stage = "idle" \/ (cycle.stage # "idle" /\ cycle'.targets = cycle.targets)
  PROVE  RollingInv'
<1>1. \A t \in Targets : Awaiting(t) => Awaiting(t)'
  BY DEF Awaiting
<1>2. \A t \in Targets : RollingOf(t)'
  BY <1>1, RollingSame
<1>3. PutResolved'
  BY DEF RollingInv, PutResolved, NoPut, NoTargets
<1> QED BY <1>2, <1>3 DEF configVars, RollingInv, Members

(* A cycle counts only under the filter in force, where one is recorded.   *)
LEMMA RollingCollect ==
  ASSUME TypeInv, AttributionInv, RollingInv, Emptied, NEW t \in Targets, CommitQuery(t)
  PROVE  RollingInv'
<1>1. /\ UNCHANGED <<configVars, rollingCache, put>>
      /\ cycle'.stage = cycle.stage /\ cycle'.targets = cycle.targets
  BY DEF CommitQuery, Step, TypeInv, TypeOK, ControlOK, Cycle
<1>2. /\ cycle.targets[t] # None /\ cycle.targets[t].sel = Selected(t)
      /\ rollingCache.fingerprints[t] # None
  BY DEF CommitQuery, FilterCurrent, Step, TypeInv, StepsPrepared, InProgress, Prepared, Members,
    AttributionInv, SeenRecorded
<1>3. flowSeen'[t] \subseteq flowSeen[t] \cup {cycle.targets[t]}
  BY DEF CommitQuery, TypeInv, TypeOK, DataOK, Counts
<1>4. \A u \in Targets : u # t => flowSeen'[u] = flowSeen[u]
  BY DEF CommitQuery, TypeInv, TypeOK, DataOK, Counts
<1>5. \A u \in Targets : Selected(u)' = Selected(u) /\ own'[u] = own[u] /\ Awaiting(u)' = Awaiting(u)
  BY <1>1 DEF configVars, Selected, Awaiting
<1>6. \A u \in Targets : RollingOf(u)'
  <2> TAKE u \in Targets
  <2>0. u \notin Purging' => u \notin Purging \/ flowSeen'[u] = {}
    BY DEF Emptied
  <2>1. CASE u = t
    BY <1>1, <1>2, <1>3, <1>5, <2>0, <2>1 DEF RollingInv, RollingOf, Recognised, UnderSelected
  <2>2. CASE u # t
    BY <1>1, <1>4, <1>5, <2>0, <2>2 DEF RollingInv, RollingOf, Recognised, UnderSelected
  <2> QED BY <2>1, <2>2
<1> QED BY <1>1, <1>5, <1>6 DEF RollingInv, PutResolved, Members

LEMMA RollingCommit ==
  ASSUME TypeInv, AttributionInv, RollingInv, Emptied, CycleCommit
  PROVE  RollingInv'
<1>1. /\ UNCHANGED <<configVars, put>> /\ cycle.stage = "collect"
      /\ cycle'.stage = "previous" /\ cycle'.targets = cycle.targets
  BY DEF CycleCommit, TypeInv, TypeOK, ControlOK, Cycle
<1>2. \A u \in Targets : Selected(u)' = Selected(u) /\ own'[u] = own[u] /\ Awaiting(u)' = Awaiting(u)
  BY <1>1 DEF configVars, Selected, Awaiting
<1>3. ASSUME NEW how, NEW u \in Kept(how) PROVE cycle.targets[u].sel = Selected(u)
  BY <1>3 DEF Kept, FilterCurrent
<1>4. ASSUME NEW f, NEW S \in SUBSET (Kept("baseDone") \cup Kept("deltaDone")), NEW u \in Targets,
             UnderSelected(u, f[u])
      PROVE  UnderSelected(u, Adding(f, S)[u])
  BY <1>3, <1>4 DEF Adding, UnderSelected
<1>5. ASSUME NEW u \in Targets PROVE RollingOf(u)'
  <2>1. CASE cycle.base = "first"
    <3>1. /\ rollingCache'.fingerprints = cycle.targets /\ rollingCache'.initialized
          /\ rollingCache'.counts = Adding([v \in Targets |-> {}], Kept("baseDone"))
          /\ flowSeen' = Without(Members(cycle.targets), flowSeen)
      BY <2>1 DEF CycleCommit, UpdateRolling, TypeInv, TypeOK, DataOK, Cache
    <3>2. u \in Members(cycle.targets)
      BY <1>1 DEF RollingInv
    <3>3. flowSeen'[u] = {} /\ rollingCache'.fingerprints[u] # None
      BY <3>1, <3>2 DEF Without, Members
    <3>4. UnderSelected(u, [v \in Targets |-> {}][u])
      BY DEF UnderSelected
    <3>5. UnderSelected(u, rollingCache'.counts[u])
      BY <1>4, <3>1, <3>4
    <3> QED BY <1>2, <3>3, <3>5 DEF RollingOf, UnderSelected
  <2>2. CASE cycle.base # "first"
    <3>1. /\ rollingCache'.fingerprints = rollingCache.fingerprints
          /\ rollingCache'.initialized = rollingCache.initialized
          /\ rollingCache'.counts =
               Adding(rollingCache.counts, Kept("baseDone") \cup Kept("deltaDone"))
          /\ flowSeen' = flowSeen
      BY <2>2 DEF CycleCommit, UpdateRolling, TypeInv, TypeOK, DataOK, Cache
    <3>2. rollingCache.counts[u] \subseteq rollingCache'.counts[u]
      BY <3>1 DEF Adding
    <3>3. UnderSelected(u, rollingCache.counts[u]) => UnderSelected(u, rollingCache'.counts[u])
      BY <1>4, <3>1
    <3>4. UnderSelected(u, rollingCache'.counts[u]) => UnderSelected(u, rollingCache.counts[u])
      BY <3>2 DEF UnderSelected
    <3>5. RollingOf(u)
      BY DEF RollingInv
    <3>6. u \notin Purging' => u \notin Purging \/ flowSeen'[u] = {}
      BY DEF Emptied
    <3> QED BY <1>2, <3>1, <3>2, <3>3, <3>5, <3>6 DEF RollingOf, Recognised, UnderSelected
  <2> QED BY <2>1, <2>2
<1> QED BY <1>1, <1>2, <1>5 DEF RollingInv, PutResolved, Members

(* A cycle that records a filter for the first time finds no data, or data *)
(* of no exclusions under no exclusions; any other change is a reset.      *)
LEMMA RollingDetect ==
  ASSUME TypeInv, AttributionInv, PurgeInv, RollingInv, Emptied, CycleDetect
  PROVE  RollingInv'
<1> DEFINE fps == Only(ChangedTargets, cycle.targets)
<1>1. Recorded \in Filters /\ fps \in Filters
  BY DEF SeenFilters, Recorded, Override, Only, Filters, Partial, TypeInv, TypeOK, DataOK, Cache,
    ControlOK, Cycle
<1>2. InvalidateFrom(Recorded, fps)
  BY DEF CycleDetect
<1>3. /\ UNCHANGED <<configVars, put>> /\ cycle.stage = "frozen"
      /\ cycle'.targets = cycle.targets /\ UNCHANGED flowSeen
      /\ cycle'.stage = IF ChangedTargets = {} THEN "collect" ELSE "reset"
      /\ cycle'.own = Only(ChangedTargets, cycle.own)
  BY DEF CycleDetect, TypeInv, TypeOK, ControlOK, Cycle
<1>4. \A u \in Targets : Selected(u)' = Selected(u) /\ own'[u] = own[u] /\ Awaiting(u)' = Awaiting(u)
  BY <1>3 DEF configVars, Selected, Awaiting
<1>5. Prepared(fps) = ChangedTargets
  BY DEF Prepared, Only, Members, ChangedTargets
<1> HIDE DEF fps
<1>6. ASSUME NEW u \in Targets PROVE RollingOf(u)'
  <2>1. CASE u \in ChangedTargets
    <3>1. rollingCache'.counts[u] = {} /\ rollingCache'.fingerprints[u] # None
      BY <1>1, <1>2, <1>5, <2>1, InvalidateEach
    <3>2. u \in Members(cycle.own)
      BY <1>3, <2>1 DEF PurgeInv, ChangedTargets, Prepared
    <3>3. u \in Purging'
      BY <1>3, <2>1, <3>2 DEF Purging, Only, Members
    <3> QED BY <3>1, <3>3 DEF RollingOf, UnderSelected
  <2>2. CASE u \notin ChangedTargets
    <3>1. /\ rollingCache'.initialized = rollingCache.initialized
          /\ rollingCache'.fingerprints[u] = Recorded[u]
          /\ rollingCache'.counts[u] = rollingCache.counts[u] /\ flowSeen'[u] = flowSeen[u]
      BY <1>1, <1>2, <1>3, <1>5, <2>2, InvalidateEach
    <3>2. RollingOf(u)
      BY DEF RollingInv
    <3>5. u \notin Purging' => u \notin Purging \/ flowSeen'[u] = {}
      BY DEF Emptied
    <3>3. CASE u \in Prepared(cycle.targets) /\ rollingCache.fingerprints[u] = None
      <4>1. cycle.targets[u] # None /\ Recorded[u] = cycle.targets[u]
        BY <3>3 DEF Recorded, Override, SeenFilters, Only, Prepared, Members
      <4>2. cycle.targets[u].sel = {} \/ rollingCache.counts[u] = {}
        BY <2>2, <3>3 DEF ChangedTargets, FilterChanged, HasStoredData
      <4>3. rollingCache.counts[u] \subseteq {Unfiltered}
        BY <3>3 DEF AttributionInv, RollingAttributed, Attributed
      <4>4. \A fp \in rollingCache.counts[u] : fp.sel = cycle.targets[u].sel
        <5>1. Unfiltered.sel = {}
          BY DEF Unfiltered
        <5>2. \A fp \in rollingCache.counts[u] : fp = Unfiltered
          BY <4>3
        <5> QED BY <4>2, <5>1, <5>2
      <4>5. rollingCache.initialized => flowSeen[u] \subseteq rollingCache.counts[u]
        BY <3>2, <3>3 DEF RollingOf
      <4> QED BY <1>4, <3>1, <4>1, <4>4, <4>5 DEF RollingOf, Recognised, UnderSelected
    <3>4. CASE ~(u \in Prepared(cycle.targets) /\ rollingCache.fingerprints[u] = None)
      <4>1. Recorded[u] = rollingCache.fingerprints[u]
        BY <2>2, <3>4 DEF Recorded, Override, SeenFilters, Only, ChangedTargets, FilterChanged
      <4> QED BY <1>4, <3>1, <3>2, <3>5, <4>1 DEF RollingOf, Recognised, UnderSelected
    <3> QED BY <3>3, <3>4
  <2> QED BY <2>1, <2>2
<1> QED BY <1>3, <1>4, <1>6 DEF RollingInv, PutResolved, Members

(* New settings leave a target's exclusions alone or have it wait for its  *)
(* reset to a filter that resolved.                                        *)
LEMMA PutEffect ==
  ASSUME TypeInv, PutResolved, NEW g \in GlobalChoices,
         NEW o \in [Targets -> {None} \cup OwnChoices], PutTargets(g, o)
  PROVE  /\ UNCHANGED <<rollingCache, flowSeen, blockedDaily, cycle, full>>
         /\ own' = o /\ global' = g /\ put.stage = "idle" /\ PutResolved'
         /\ \A t \in Affected(g, o) : Awaiting(t)'
         /\ \A t \in Targets : own[t] # None /\ o[t] # None /\ t \notin Affected(g, o) =>
              Selected(t)' = Selected(t)
<1> DEFINE fps == [t \in Targets |-> IF t \notin Affected(g, o) THEN None
                     ELSE [sel |-> Effective(g, o[t]),
                           ver |-> IF NeedsCatalog(Effective(g, o[t]))
                                   THEN definition ELSE 0]]
<1>1. /\ UNCHANGED <<rollingCache, flowSeen, blockedDaily, cycle, full>> /\ own' = o /\ global' = g
      /\ put.stage = "idle"
      /\ put' = IF Affected(g, o) = {} THEN put ELSE [stage |-> "saved", affected |-> fps]
  BY DEF PutTargets, NewConfig, UpdateUnlocked, dataVars, filterVars, requestVars
<1>2. \A t \in Affected(g, o) : t \in Targets /\ fps[t].ver # Unresolved /\ fps[t] # None
  <2>1. definition # Unresolved /\ definition \in 0 .. MaxDefinition
    BY DEF TypeInv, TypeOK, ConfigOK, Unresolved
  <2> SUFFICES ASSUME NEW t \in Affected(g, o)
               PROVE  t \in Targets /\ fps[t].ver # Unresolved /\ fps[t] # None
    OBVIOUS
  <2>2. t \in Targets /\ Effective(g, o[t]) \in SUBSET Selectors
    BY ConstantsAssumption DEF Affected, Members, Effective
  <2>3. fps[t] \in Fingerprint
    BY <2>1, <2>2, ConstantsAssumption DEF Fingerprint
  <2>4. fps[t].ver # Unresolved
    BY <2>1, <2>2 DEF Unresolved
  <2> QED BY <2>2, <2>3, <2>4, ConstantsAssumption
<1> HIDE DEF fps
<1>3. \A t \in Targets : own[t] # None /\ o[t] # None /\ t \notin Affected(g, o) =>
        Selected(t)' = Selected(t)
  BY <1>1 DEF Affected, Members, Selected
<1>4. PutResolved'
  BY <1>1, <1>2 DEF PutResolved, fps
<1>5. \A t \in Affected(g, o) : Awaiting(t)'
  BY <1>1, <1>2 DEF Awaiting
<1> QED BY <1>1, <1>3, <1>4, <1>5

LEMMA RollingPut ==
  ASSUME TypeInv, RollingInv, Emptied, Removable = {}, NEW g \in GlobalChoices,
         NEW o \in [Targets -> {None} \cup OwnChoices], PutTargets(g, o)
  PROVE  RollingInv'
<1>1. /\ UNCHANGED <<rollingCache, flowSeen, cycle>> /\ own' = o /\ PutResolved'
      /\ \A t \in Affected(g, o) : Awaiting(t)'
      /\ \A t \in Targets : own[t] # None /\ o[t] # None /\ t \notin Affected(g, o) =>
           Selected(t)' = Selected(t)
  BY PutEffect DEF RollingInv
<1>2. \A t \in Targets : own[t] # None /\ o[t] # None
  BY DEF PutTargets, NewConfig, RollingInv, Configured, Members
<1>3. \A t \in Targets : ~Awaiting(t)
  BY DEF PutTargets, UpdateUnlocked, Awaiting
<1>4. ASSUME NEW t \in Targets PROVE RollingOf(t)'
  <2>1. t \notin Purging' => t \notin Purging \/ flowSeen'[t] = {}
    BY DEF Emptied
  <2> QED BY <1>1, <1>2, <1>3, <2>1 DEF RollingInv, RollingOf, Recognised, UnderSelected
<1> QED BY <1>1, <1>2, <1>4 DEF RollingInv, Members

LEMMA RollingStep ==
  TypeInv /\ AttributionInv /\ PurgeInv /\ SteadyRolling /\ [Next]_vars => SteadyRolling'
<1> SUFFICES ASSUME TypeInv, AttributionInv, PurgeInv, RollingInv, [Next]_vars, Undisturbed',
                    Removable = {}
             PROVE  RollingInv'
  BY DisturbedBefore DEF SteadyRolling
<1> USE DEF TypeInv, TypeOK
<1>0. Emptied
  BY DisturbedBefore, PurgedEmpty
<1>1. ASSUME UNCHANGED <<configVars, put, rollingCache>>,
             \A t \in Targets : flowSeen'[t] \in {flowSeen[t], {}},
             cycle'.stage = "idle" \/ (cycle.stage # "idle" /\ cycle'.targets = cycle.targets)
      PROVE  RollingInv'
  BY <1>0, <1>1, RollingQuiet
<1>2. ASSUME cycle' = cycle
      PROVE  cycle'.stage = "idle" \/ (cycle.stage # "idle" /\ cycle'.targets = cycle.targets)
  BY <1>2
<1>3. ASSUME NEW S, Purge(S) PROVE \A t \in Targets : flowSeen'[t] \in {flowSeen[t], {}}
  BY <1>3 DEF Purge, Without
<1>4. ASSUME NEW fps \in Filters, Invalidate(fps), UNCHANGED <<configVars, flowSeen>>,
             Prepared(fps) \subseteq Purging',
             \A u \in Targets : Awaiting(u) => Awaiting(u)' \/ u \in Prepared(fps),
             put'.affected = put.affected, cycle'.targets = cycle.targets,
             cycle'.stage = cycle.stage
      PROVE  RollingInv'
  <2>1. \A u \in Targets : RollingOf(u)'
    BY <1>0, <1>4, RollingReset
  <2> QED BY <1>4, <2>1 DEF configVars, RollingInv, PutResolved, Members
<1>5. \A u \in Targets : put' = put => Awaiting(u)' = Awaiting(u)
  BY DEF Awaiting
<1>6. CASE Environment
  <2>1. CASE Settings
    <3>1. PICK g \in GlobalChoices, o \in [Targets -> {None} \cup OwnChoices] : PutTargets(g, o)
      BY <2>1, DisturbedBefore DEF Settings
    <3> QED BY <1>0, <3>1, RollingPut
  <2>2. CASE DefinitionChange \/ CatalogExpire \/ ManualReconcile
    BY <1>1, <1>2, <2>2 DEF DefinitionChange, CatalogExpire, ManualReconcile, dataVars, filterVars
  <2> QED BY <1>6, <2>1, <2>2, DisturbedBefore DEF Environment
<1>7. CASE Startup
  BY <1>1, <1>2, <1>7 DEF Startup, Boot, dataVars, filterVars
<1>8. CASE PutStep
  <2>1. CASE PutInvalidate
    <3>1. /\ put.affected \in Filters /\ Invalidate(put.affected)
          /\ put'.affected = put.affected /\ put'.stage = "hidden"
          /\ UNCHANGED <<configVars, flowSeen, cycle>>
      BY <2>1 DEF PutInvalidate, ControlOK, Put
    <3>2. \A u \in Targets : Awaiting(u) => u \in Prepared(put.affected)
      BY DEF Awaiting, RollingInv, PutResolved, Prepared, Members
    <3>3. Prepared(put.affected) \subseteq Purging'
      BY <3>1 DEF Prepared, Members, Purging
    <3> QED BY <1>4, <3>1, <3>2, <3>3
  <2>2. CASE PutPurge
    <3>1. \A t \in Targets : flowSeen'[t] \in {flowSeen[t], {}}
      BY <1>3, <2>2 DEF PutPurge
    <3> QED BY <1>0, <2>2, <3>1, RollingQuiet DEF PutPurge, NoPut
  <2> QED BY <1>8, <2>1, <2>2 DEF PutStep
<1>9. CASE CycleStart
  <2> PICK ok \in BOOLEAN : CycleFreeze(ok)
    BY <1>9 DEF CycleStart
  <2>1. UNCHANGED <<configVars, put, rollingCache, flowSeen>>
    BY DEF CycleFreeze, dataVars, filterVars
  <2>2. cycle'.targets = Prepare(global, own, ok)
    BY DEF CycleFreeze, NoCycle
  <2>3. Members(cycle.targets)' = Targets
    <3>1. Members(own) = Targets
      BY DEF RollingInv, Members
    <3>2. Members(cycle.targets)' = Members(Prepare(global, own, ok))
      BY <2>2 DEF Members
    <3> QED BY <3>1, <3>2, PrepareType DEF ConfigOK
  <2>4. \A u \in Targets : RollingOf(u)'
    BY <1>0, <1>5, <2>1, RollingSame
  <2> QED BY <2>1, <2>3, <2>4 DEF configVars, RollingInv, PutResolved
<1>10. CASE CycleDetect
  BY <1>0, <1>10, RollingDetect
<1>11. CASE CyclePurge
  <2>1. cycle.stage = "reset" /\ cycle'.targets = cycle.targets
    BY <1>11 DEF CyclePurge, ControlOK, Cycle
  <2> QED BY <1>1, <1>3, <1>11, <2>1 DEF CyclePurge
<1>12. ASSUME NEW t \in Targets, Collect(t) PROVE RollingInv'
  <2>1. cycle'.targets = cycle.targets /\ cycle'.stage = cycle.stage /\ cycle.stage = "collect"
    BY <1>12 DEF Collect, StartQuery, QueryFails, CommitQuery, CountQuery,
      AcceptResult, Supersede, PurgeQuery, RejectQuery, RejectResult, Replaced, Step,
      PurgeInv, Replacing, ControlOK, Cycle
  <2>2. CASE Supersede(t)
    <3> DEFINE fps == [u \in Targets |-> IF u = t THEN cycle.late[t].fp ELSE None]
    <3>1. fps \in Filters
      BY <2>2 DEF Supersede, Step, StepsPrepared, Replacing, ControlOK, Cycle,
        Partial, Filters
    <3>2. Prepared(fps) \subseteq {t}
      BY DEF Prepared, Members
    <3>3. t \in Purging'
      BY <2>2 DEF Supersede, Step, Purging, ControlOK, Cycle
    <3> HIDE DEF fps
    <3>4. Invalidate(fps) /\ UNCHANGED <<configVars, put, flowSeen>>
      BY <2>2 DEF Supersede, fps
    <3> QED BY <1>4, <1>5, <2>1, <3>1, <3>2, <3>3, <3>4
  <2>3. ASSUME NEW ok \in BOOLEAN, RejectQuery(t, ok) PROVE RollingInv'
    <3> DEFINE fps == Only({t}, Prepare(global, own, ok))
    <3>1. Prepare(global, own, ok) \in Filters
      BY PrepareType DEF ConfigOK
    <3>2. fps \in Filters
      BY <3>1, OnlyType DEF Filters
    <3>3. Prepared(fps) \subseteq {t}
      BY DEF Prepared, Members, Only
    <3>4. Invalidate(fps) /\ UNCHANGED <<configVars, put, flowSeen>>
      BY <2>3 DEF RejectQuery
    <3>5. cycle' = Replaced(t, fps, "rejected")
      BY <2>3 DEF RejectQuery
    <3> HIDE DEF fps
    <3>6. t \in Prepared(fps) => t \in Purging'
      BY <3>5 DEF Replaced, Purging, ControlOK, Cycle
    <3> QED BY <1>4, <1>5, <2>1, <3>2, <3>3, <3>4, <3>6
  <2>4. CASE CommitQuery(t)
    BY <1>0, <2>4, RollingCollect
  <2>5. CASE \/ StartQuery(t) \/ QueryFails(t) \/ CountQuery(t)
             \/ AcceptResult(t) \/ \E ok \in BOOLEAN : RejectResult(t, ok)
    BY <1>1, <2>1, <2>5 DEF StartQuery, QueryFails, CountQuery, AcceptResult, RejectResult,
      dataVars, filterVars
  <2>6. CASE PurgeQuery(t)
    BY <1>1, <1>3, <2>1, <2>6 DEF PurgeQuery
  <2> QED BY <1>12, <2>2, <2>3, <2>4, <2>5, <2>6 DEF Collect
<1>13. CASE CycleCommit
  BY <1>0, <1>13, RollingCommit
<1>14. CASE CyclePublish
  BY <1>1, <1>14 DEF CyclePublish, NoCycle
<1>15. ASSUME NEW t \in Targets, Previous(t) PROVE RollingInv'
  BY <1>1, <1>15 DEF Previous, PreviousWrite, PreviousRejected, PreviousFails,
    PreviousMark, Step, dataVars, filterVars, ControlOK, Cycle
<1>16. CASE FullStep
  <2>1. CASE FullMatch
    <3>1. Only(PendingElsewhere, full.targets) \in Filters
      BY OnlyType DEF ControlOK, Full, Filters
    <3>2. /\ UNCHANGED <<configVars, put, flowSeen, cycle>>
          /\ Invalidate(Only(PendingElsewhere, full.targets))
      BY <2>1 DEF FullMatch
    <3>3. Prepared(Only(PendingElsewhere, full.targets)) \subseteq PendingElsewhere
      BY DEF Prepared, Members, Only
    <3>4. PendingElsewhere \subseteq Purging'
      BY <2>1 DEF FullMatch, Purging, PendingElsewhere, Prepared, Members, ControlOK, Full
    <3> QED BY <1>4, <1>5, <3>1, <3>2, <3>3, <3>4
  <2>2. CASE FullMark
    <3>1. /\ rollingCache'.fingerprints = rollingCache.fingerprints
          /\ rollingCache'.counts = rollingCache.counts
          /\ rollingCache'.initialized = rollingCache.initialized
          /\ UNCHANGED <<configVars, put, cycle, flowSeen>>
      BY <2>2 DEF FullMark, DataOK, Cache
    <3> QED BY <1>0, <1>2, <3>1, RollingQuiet
  <2>3. CASE \/ FullPassSaved \/ FullShown \/ FullUnmarked \/ FullFinish
             \/ \E ok \in BOOLEAN : FullPrepare(ok)
             \/ \E d \in Days, t \in Targets : Rebuild(d, t)
    BY <1>1, <1>2, <2>3 DEF FullPassSaved, FullShown, FullUnmarked, FullFinish, FullPrepare,
      Rebuild, FullDay, FullDayRejected, FullDayFails, dataVars, filterVars
  <2>4. CASE FullPurge
    BY <1>1, <1>2, <1>3, <2>4 DEF FullPurge
  <2> QED BY <1>16, <2>1, <2>2, <2>3, <2>4 DEF FullStep
<1>17. CASE WorkerStep
  BY <1>1, <1>2, <1>17 DEF WorkerStep, WorkerDrain, WorkerStart, dataVars, filterVars
<1>18. CASE UNCHANGED vars
  BY <1>1, <1>2, <1>18 DEF vars, dataVars, filterVars
<1> QED BY <1>6, <1>7, <1>8, <1>9, <1>10, <1>11, <1>12, <1>13, <1>14, <1>15, <1>16, <1>17,
      <1>18 DEF Next, CycleRest

(* Where targets are not removed, no number of settings changes, failed    *)
(* queries, redefinitions and reconciles lets traffic of superseded        *)
(* exclusions pass for current, until config.json is edited on disk or the *)
(* process restarts: property RollingCurrent.                              *)
THEOREM Rolling == Spec => [](Undisturbed /\ Removable = {} => RollingCurrent)
<1>1. SteadyRolling => (Undisturbed /\ Removable = {} => RollingCurrent)
  <2> SUFFICES ASSUME RollingInv PROVE RollingCurrent
    BY DEF SteadyRolling
  <2> QED BY DEF RollingInv, RollingOf, RollingCurrent, Awaiting
<1> QED BY <1>1, TypeInit, TypeStep, AttributionInit, AttributionStep, PurgeInit, PurgeStep,
      RollingInit, RollingStep, PTL DEF Spec

-----------------------------------------------------------------------------
(* HistoryCurrent.  Until the first settings change everything captured    *)
(* from the configuration agrees with it, and only configured targets have *)
(* history.                                                                *)
Follows(o) == \A t \in Targets : o[t] # None => o[t] = own[t]
ByOwn(fps) == \A t \in Targets : fps[t] # None => own[t] # None /\ fps[t].sel = Selected(t)
LateOf(late) == \A t \in Targets : late[t] # None => late[t].own = own[t]
DaysOfOwn(days) == \A t \in Targets : own[t] = None => \A d \in Days : days[t][d] = {}
Fresh ==
  /\ put.stage = "idle"
  /\ Follows(cycle.own) /\ LateOf(cycle.late) /\ ByOwn(cycle.targets)
  /\ Follows(full.own) /\ ByOwn(full.targets) /\ Follows(drained)
  /\ DaysOfOwn(blockedDaily) /\ DaysOfOwn(savedDaily)
FreshInv == Unedited /\ spent.puts = 0 => Fresh

LEMMA FreshInit == Init => FreshInv
<1> SUFFICES ASSUME Init PROVE Fresh
  BY DEF FreshInv
<1>1. put = NoPut /\ cycle = NoCycle /\ full = NoFull /\ drained = NoTargets
  BY DEF Init
<1>2. DaysOfOwn(blockedDaily) /\ DaysOfOwn(savedDaily)
  <2> PICK upgraded \in Upgraded :
        LET kept == IF upgraded THEN Configured ELSE {}
            counts == [t \in Targets |-> IF t \in kept THEN {Unfiltered} ELSE {}]
        IN  blockedDaily = [t \in Targets |-> [d \in Days |-> counts[t]]]
    BY DEF Init
  <2>0. savedDaily = blockedDaily
    BY DEF Init
  <2> DEFINE kept == IF upgraded THEN Configured ELSE {}
  <2>1. \A t \in Targets : own[t] = None => t \notin kept
    BY DEF Configured, Members
  <2> QED BY <2>0, <2>1 DEF DaysOfOwn
<1> QED BY <1>1, <1>2 DEF Fresh, NoPut, NoCycle, NoFull, NoTargets, Follows, LateOf, ByOwn

(* A request hands over what it was given, and nothing else.               *)
LEMMA RequestFollows ==
  ASSUME TypeInv, Follows(full.own), NEW o, Follows(o), Request(o)
  PROVE  Follows(full'.own) /\ full'.targets = full.targets /\ drained' = drained
<1>1. CASE Members(o) # {} /\ full.stage = "idle"
  BY <1>1 DEF Request, Start, queueVars, TypeInv, TypeOK, ControlOK, Full
<1>2. CASE ~(Members(o) # {} /\ full.stage = "idle")
  BY <1>2 DEF Request, Enqueue
<1> QED BY <1>1, <1>2

LEMMA PreparedByOwn ==
  ASSUME NEW o, Follows(o), NEW ok
  PROVE  ByOwn(Prepare(global, o, ok))
BY DEF Follows, ByOwn, Prepare, Resolve, Effective, Selected

(* The configuration changes by settings only.                             *)
LEMMA ConfigKept ==
  ASSUME [Next]_vars, ~Settings
  PROVE  UNCHANGED configVars
<1>1. ASSUME NEW t \in Targets, Collect(t) PROVE UNCHANGED configVars
  BY <1>1 DEF Collect, StartQuery, QueryFails, CommitQuery, CountQuery, AcceptResult, Supersede,
    PurgeQuery, RejectQuery, RejectResult
<1>2. ASSUME NEW t \in Targets, Previous(t) PROVE UNCHANGED configVars
  BY <1>2 DEF Previous, PreviousWrite, PreviousRejected, PreviousFails, PreviousMark
<1>3. CASE CycleStart \/ CycleRest
  BY <1>1, <1>2, <1>3 DEF CycleStart, CycleRest, CycleFreeze, CycleDetect, CyclePurge, CycleCommit,
    CyclePublish
<1>4. CASE FullStep
  BY <1>4 DEF FullStep, FullMatch, FullPurge, FullPassSaved, FullMark, FullShown, FullUnmarked,
    FullFinish, FullPrepare, Rebuild, FullDay, FullDayRejected, FullDayFails
<1>5. CASE Environment \/ Startup \/ PutStep \/ WorkerStep \/ UNCHANGED vars
  BY <1>5 DEF Environment, DefinitionChange, CatalogExpire, ManualReconcile, Restart, Startup, Boot,
    PutStep, PutInvalidate, PutPurge, WorkerStep, WorkerDrain, WorkerStart, vars
<1> QED BY <1>3, <1>4, <1>5 DEF Next

(* What is saved of the daily history is all of it.                        *)
LEMMA SavedOf ==
  ASSUME [Next]_vars
  PROVE  savedDaily' = savedDaily \/ savedDaily' = blockedDaily'
<1>1. ASSUME NEW t \in Targets, Collect(t) PROVE UNCHANGED savedDaily
  BY <1>1 DEF Collect, StartQuery, QueryFails, CommitQuery, CountQuery, AcceptResult, Supersede,
    PurgeQuery, RejectQuery, RejectResult, dataVars
<1>2. ASSUME NEW t \in Targets, Previous(t) PROVE UNCHANGED savedDaily
  BY <1>2 DEF Previous, PreviousWrite, PreviousRejected, PreviousFails, PreviousMark, dataVars
<1>3. CASE CycleStart \/ CycleRest
  BY <1>1, <1>2, <1>3 DEF CycleStart, CycleRest, CycleFreeze, CycleDetect, CyclePurge, CycleCommit,
    CyclePublish, AccumulateHistory, SaveDailyIf, dataVars
<1>4. CASE FullStep
  BY <1>4 DEF FullStep, FullMatch, FullPurge, FullPassSaved, FullMark, FullShown, FullUnmarked,
    FullFinish, FullPrepare, Rebuild, FullDay, FullDayRejected, FullDayFails, SaveDailyIf, dataVars
<1>5. CASE Environment \/ Startup \/ PutStep \/ WorkerStep \/ UNCHANGED vars
  BY <1>5 DEF Environment, Settings, PutTargets, ReloadConfig, DefinitionChange, CatalogExpire,
    ManualReconcile, Restart, Startup, Boot, PutStep, PutInvalidate, PutPurge, WorkerStep, WorkerDrain,
    WorkerStart, vars, dataVars
<1> QED BY <1>3, <1>4, <1>5 DEF Next

LEMMA FreshStep == TypeInv /\ FreshInv /\ [Next]_vars => FreshInv'
<1> SUFFICES ASSUME TypeInv, Fresh, [Next]_vars, Unedited', spent'.puts = 0 PROVE Fresh'
  <2>1. Unedited' /\ spent'.puts = 0 /\ TypeInv /\ [Next]_vars => Unedited /\ spent.puts = 0
    BY UneditedBefore
  <2> QED BY <2>1 DEF FreshInv
<1> USE DEF TypeInv, TypeOK
<1>1. ~Settings
  <2>1. \A g \in GlobalChoices, o \in [Targets -> {None} \cup OwnChoices] : ~PutTargets(g, o)
    BY DEF PutTargets, Spend, ControlOK, Spent
  <2> QED BY <2>1, UneditedBefore DEF Settings
<1>2. UNCHANGED configVars
  BY <1>1, ConfigKept
<1>3. ASSUME put'.stage = "idle", Follows(cycle'.own), LateOf(cycle'.late), ByOwn(cycle'.targets),
             Follows(full'.own), ByOwn(full'.targets), Follows(drained'), DaysOfOwn(blockedDaily')
      PROVE  Fresh'
  <2>1. DaysOfOwn(savedDaily')
    BY <1>2, <1>3, SavedOf DEF configVars, Fresh, DaysOfOwn
  <2> QED BY <1>2, <1>3, <2>1 DEF configVars, Fresh, Follows, LateOf, ByOwn, DaysOfOwn, Selected
<1>4. ASSUME UNCHANGED <<put, full, drained, blockedDaily>>, Follows(cycle'.own),
             LateOf(cycle'.late), ByOwn(cycle'.targets)
      PROVE  Fresh'
  BY <1>3, <1>4 DEF Fresh
<1>5. ASSUME UNCHANGED <<put, blockedDaily>>, cycle'.own = cycle.own \/ cycle'.own = NoTargets,
             cycle'.targets = cycle.targets, \A t \in Targets : cycle'.late[t] # None => cycle'.late[t] = cycle.late[t],
             NEW o, Request(o), Follows(o)
      PROVE  Fresh'
  <2>1. Follows(full'.own) /\ full'.targets = full.targets /\ drained' = drained
    BY <1>5, RequestFollows DEF Fresh
  <2>2. Follows(cycle'.own) /\ LateOf(cycle'.late)
    BY <1>5 DEF Fresh, Follows, NoTargets, LateOf
  <2> QED BY <1>3, <1>5, <2>1, <2>2 DEF Fresh
<1>6. \A S : Follows(Only(S, own)) /\ Follows(Only(S, cycle.own))
  BY DEF Follows, Only, Fresh
<1>7. ASSUME UNCHANGED <<put, drained, blockedDaily, cycle>>, Follows(full'.own),
             ByOwn(full'.targets)
      PROVE  Fresh'
  BY <1>3, <1>7 DEF Fresh
<1>8. Follows(NoTargets) /\ ByOwn(NoTargets) /\ LateOf(NoTargets) /\ Follows(own)
  BY DEF NoTargets, Follows, ByOwn, LateOf
<1>9. CASE Environment
  <2>1. CASE DefinitionChange \/ CatalogExpire
    BY <1>4, <2>1 DEF DefinitionChange, CatalogExpire, dataVars, requestVars, queueVars, Fresh
  <2>2. CASE ManualReconcile
    BY <1>7, <1>8, <2>2 DEF ManualReconcile, Start, dataVars, queueVars, ControlOK, Full, Fresh
  <2>3. CASE Restart
    BY <1>3, <1>8, <2>3 DEF Restart, NoPut, NoCycle, NoFull, Fresh
  <2> QED BY <1>1, <1>9, <2>1, <2>2, <2>3 DEF Environment
<1>10. CASE Startup
  BY <1>5, <1>6, <1>10 DEF Startup, Boot, dataVars
<1>11. CASE PutStep
  BY <1>11 DEF PutStep, PutInvalidate, PutPurge, Fresh
<1>12. CASE CycleStart
  <2> PICK ok \in BOOLEAN : CycleFreeze(ok)
    BY <1>12 DEF CycleStart
  <2>1. /\ UNCHANGED <<put, full, drained, blockedDaily>>
        /\ cycle'.own = own /\ cycle'.targets = Prepare(global, own, ok)
        /\ cycle'.late = NoTargets
    BY DEF CycleFreeze, dataVars, requestVars, queueVars, NoCycle
  <2> QED BY <1>4, <1>8, <2>1, PreparedByOwn
<1>13. CASE CycleDetect
  <2>1. /\ UNCHANGED <<put, full, drained, blockedDaily>>
        /\ cycle'.own = Only(ChangedTargets, cycle.own)
        /\ cycle'.targets = cycle.targets /\ cycle'.late = cycle.late
    BY <1>13 DEF CycleDetect, requestVars, queueVars, ControlOK, Cycle
  <2> QED BY <1>4, <1>6, <2>1 DEF Fresh
<1>21. CASE CyclePurge
  <2>1. /\ UNCHANGED <<put, blockedDaily>> /\ cycle'.own = NoTargets
        /\ cycle'.targets = cycle.targets /\ cycle'.late = cycle.late
        /\ Request(cycle.own)
    BY <1>21 DEF CyclePurge, ControlOK, Cycle
  <2> QED BY <1>5, <2>1 DEF Fresh
<1>14. ASSUME NEW t \in Targets, Collect(t) PROVE Fresh'
  <2>1. CASE PurgeQuery(t)
    <3> DEFINE o == [u \in Targets |-> IF u = t THEN cycle.late[t].own ELSE None]
    <3>1. cycle.late[t] # None
      BY <2>1 DEF PurgeQuery, StepsPrepared, Replacing
    <3>2. Follows(o)
      BY <3>1 DEF Follows, Fresh, LateOf
    <3>3. /\ UNCHANGED <<put, blockedDaily>> /\ cycle'.own = cycle.own
          /\ cycle'.targets = cycle.targets
          /\ \A u \in Targets : cycle'.late[u] # None => cycle'.late[u] = cycle.late[u]
          /\ Request(o)
      BY <2>1 DEF PurgeQuery, ControlOK, Cycle, Partial
    <3> HIDE DEF o
    <3> QED BY <1>5, <3>2, <3>3
  <2>2. ASSUME NEW now, NEW stage, cycle' = Replaced(t, now, stage),
               UNCHANGED <<put, full, drained, blockedDaily>>
        PROVE  Fresh'
    <3>1. /\ cycle'.own = cycle.own /\ cycle'.targets = cycle.targets
          /\ \A u \in Targets : cycle'.late[u] # None =>
               cycle'.late[u] = cycle.late[u] \/ cycle'.late[u].own = own[u]
      BY <2>2 DEF Replaced, ControlOK, Cycle, Partial
    <3> QED BY <1>4, <2>2, <3>1 DEF Fresh, LateOf
  <2>3. ASSUME NEW ok \in BOOLEAN, RejectQuery(t, ok) \/ RejectResult(t, ok) PROVE Fresh'
    BY <2>2, <2>3 DEF RejectQuery, RejectResult, dataVars, requestVars, queueVars
  <2>4. CASE \/ StartQuery(t) \/ QueryFails(t) \/ CommitQuery(t) \/ CountQuery(t)
             \/ AcceptResult(t) \/ Supersede(t)
    <3>1. /\ UNCHANGED <<put, full, drained, blockedDaily>> /\ cycle'.own = cycle.own
          /\ cycle'.targets = cycle.targets /\ cycle'.late = cycle.late
      BY <2>4 DEF StartQuery, QueryFails, CommitQuery, CountQuery, AcceptResult, Supersede, Step,
        dataVars, requestVars, queueVars, ControlOK, Cycle
    <3> QED BY <1>4, <3>1 DEF Fresh
  <2> QED BY <1>14, <2>1, <2>2, <2>3, <2>4 DEF Collect
<1>15. CASE CycleCommit
  <2>1. /\ UNCHANGED <<put, full, drained>> /\ cycle'.own = cycle.own
        /\ cycle'.targets = cycle.targets /\ cycle'.late = cycle.late
    BY <1>15 DEF CycleCommit, requestVars, queueVars, ControlOK, Cycle
  <2>2. PICK counted \in SUBSET Kept("deltaDone") : AccumulateHistory(counted)
    BY <1>15 DEF CycleCommit
  <2>3. \A t \in counted : own[t] # None
    BY DEF Kept, FilterCurrent
  <2>4. DaysOfOwn(blockedDaily')
    BY <2>2, <2>3 DEF AccumulateHistory, DaysOfOwn, Fresh
  <2> QED BY <1>3, <2>1, <2>4 DEF Fresh
<1>16. CASE CyclePublish
  BY <1>4, <1>8, <1>16 DEF CyclePublish, NoCycle, requestVars, queueVars
<1>17. ASSUME NEW t \in Targets, Previous(t) PROVE Fresh'
  <2>1. cycle'.own = cycle.own /\ cycle'.targets = cycle.targets /\ cycle'.late = cycle.late
    BY <1>17 DEF Previous, PreviousWrite, PreviousRejected, PreviousFails, PreviousMark, Step,
      ControlOK, Cycle
  <2>2. CASE PreviousWrite(t)
    <3>1. DaysOfOwn(blockedDaily')
      BY <2>2 DEF PreviousWrite, FilterCurrent, DaysOfOwn, Fresh, DataOK, Daily
    <3> QED BY <1>3, <2>1, <2>2, <3>1 DEF PreviousWrite, requestVars, queueVars, Fresh
  <2>3. CASE PreviousRejected(t)
    BY <1>5, <1>6, <2>1, <2>3 DEF PreviousRejected, dataVars
  <2>4. CASE PreviousFails(t) \/ PreviousMark(t)
    BY <1>4, <2>1, <2>4 DEF PreviousFails, PreviousMark, dataVars, requestVars, queueVars, Fresh
  <2> QED BY <1>17, <2>2, <2>3, <2>4 DEF Previous
<1>18. CASE FullStep
  <2>1. ASSUME NEW ok \in BOOLEAN, FullPrepare(ok) PROVE Fresh'
    <3> DEFINE chosen == IF Members(full.own) = {} THEN own ELSE full.own
    <3>1. Follows(chosen)
      BY <1>8 DEF Fresh
    <3>2. /\ full'.own = NoTargets /\ full'.targets = Prepare(global, chosen, ok)
          /\ UNCHANGED <<put, drained, blockedDaily, cycle>>
      BY <2>1 DEF FullPrepare, NoFull, dataVars, queueVars
    <3> HIDE DEF chosen
    <3> QED BY <1>7, <1>8, <3>1, <3>2, PreparedByOwn
  <2>2. ASSUME NEW d \in Days, NEW t \in Targets, Rebuild(d, t) PROVE Fresh'
    <3>1. full'.own = full.own /\ full'.targets = full.targets /\ UNCHANGED <<put, drained, cycle>>
      BY <2>2 DEF Rebuild, FullDay, FullDayRejected, FullDayFails, Enqueue, queueVars, ControlOK, Full
    <3>2. CASE FullDay(d, t)
      <4>1. DaysOfOwn(blockedDaily')
        BY <3>2 DEF FullDay, FilterCurrent, DaysOfOwn, Fresh, DataOK, Daily
      <4> QED BY <1>3, <3>1, <4>1 DEF Fresh
    <3>3. CASE FullDayRejected(d, t) \/ FullDayFails(d, t)
      BY <1>7, <3>1, <3>3 DEF FullDayRejected, FullDayFails, dataVars, Fresh
    <3> QED BY <2>2, <3>2, <3>3 DEF Rebuild
  <2>3. CASE FullMatch \/ FullPurge \/ FullPassSaved \/ FullMark \/ FullShown \/ FullUnmarked
    <3>1. /\ full'.own = full.own /\ full'.targets = full.targets
          /\ UNCHANGED <<put, drained, blockedDaily, cycle>>
      BY <2>3 DEF FullMatch, FullPurge, ListDays, FullPassSaved, FullMark, FullShown, FullUnmarked,
        Enqueue, queueVars, dataVars, ControlOK, Full
    <3> QED BY <1>7, <3>1 DEF Fresh
  <2>4. CASE FullFinish
    BY <1>7, <1>8, <2>4 DEF FullFinish, NoFull, dataVars, queueVars
  <2> QED BY <1>18, <2>1, <2>2, <2>3, <2>4 DEF FullStep
<1>19. CASE WorkerStep
  <2>1. CASE WorkerDrain
    BY <1>3, <1>6, <2>1 DEF WorkerDrain, dataVars, Fresh
  <2>2. CASE WorkerStart
    <3>1. Follows(full'.own) /\ full'.targets = full.targets /\ drained' = NoTargets
      BY <2>2 DEF WorkerStart, Start, ControlOK, Full, Fresh
    <3> QED BY <1>3, <1>8, <2>2, <3>1 DEF WorkerStart, dataVars, Fresh
  <2> QED BY <1>19, <2>1, <2>2 DEF WorkerStep
<1>20. CASE UNCHANGED vars
  BY <1>4, <1>20 DEF vars, dataVars, requestVars, queueVars, Fresh
<1> QED BY <1>9, <1>10, <1>11, <1>12, <1>13, <1>14, <1>15, <1>16, <1>17, <1>18, <1>19, <1>20,
      <1>21 DEF Next, CycleRest

(* A target's history is hidden, or counted under the exclusions in force, *)
(* or left by a release that had none and not yet met by a cycle.          *)
Leftover(t) ==
  /\ rollingCache.initialized /\ rollingCache.fingerprints[t] = None
  /\ \A d \in Days : \A fp \in blockedDaily[t][d] : fp.sel \in {{}, Selected(t)}
ShownOf(t) ==
  own[t] # None /\ ~Awaiting(t) /\ rollingCache.pending[t] = None =>
    Current(t, blockedDaily[t]) \/ Leftover(t)
CycleOf(t) ==
  /\ rollingCache.fingerprints[t] = None /\ own[t] # None /\ ~Awaiting(t)
  /\ cycle.targets[t] # None
  => cycle.targets[t].sel = Selected(t)

(* A reconcile without a failure under the exclusions in force has only    *)
(* the days still to be written under others.                              *)
Rebuilding == {"past", "today", "mark"}
FullOf(t) ==
  /\ full.stage \in Rebuilding /\ ~full.failed
  /\ full.targets[t] # None /\ own[t] # None /\ full.targets[t].sel = Selected(t)
  => \A d \in Days : \/ UnderSelected(t, blockedDaily[t][d])
                     \/ <<d, t>> \in full.jobs
                     \/ full.stage = "past" /\ d = Today
HistoryInv ==
  /\ PutResolved
  /\ cycle.stage \in {"frozen", "reset", "collect"} /\ cycle.base = "first" => ~rollingCache.initialized
  /\ full.stage = "mark" => full.jobs = {}
  /\ \A t \in Targets : ShownOf(t) /\ CycleOf(t) /\ FullOf(t)
SteadyHistory == Undisturbed /\ spent.puts <= 1 => HistoryInv

LEMMA HistoryInit == Init => SteadyHistory
<1> SUFFICES ASSUME Init PROVE HistoryInv
  BY DEF SteadyHistory
<1>1. /\ put = NoPut /\ cycle = NoCycle /\ full = NoFull
      /\ rollingCache.fingerprints = NoTargets
  BY DEF Init
<1>2. \A t \in Targets : ShownOf(t)
  <2> PICK upgraded \in Upgraded :
        LET kept == IF upgraded THEN Configured ELSE {}
            counts == [t \in Targets |-> IF t \in kept THEN {Unfiltered} ELSE {}]
        IN  /\ blockedDaily = [t \in Targets |-> [d \in Days |-> counts[t]]]
            /\ rollingCache.initialized = upgraded
    BY DEF Init
  <2>1. CASE upgraded
    <3>1. \A t \in Targets, d \in Days : blockedDaily[t][d] \subseteq {Unfiltered}
      OBVIOUS
    <3>2. Unfiltered.sel = {}
      BY DEF Unfiltered
    <3>3. rollingCache.initialized
      BY <2>1
    <3> QED BY <1>1, <3>1, <3>2, <3>3 DEF ShownOf, Leftover, NoTargets
  <2>2. CASE ~upgraded
    <3>1. \A t \in Targets, d \in Days : blockedDaily[t][d] = {}
      BY <2>2
    <3> QED BY <3>1 DEF ShownOf, Current, UnderSelected
  <2> QED BY <2>1, <2>2
<1> QED BY <1>1, <1>2 DEF HistoryInv, PutResolved, CycleOf, FullOf, Rebuilding, NoPut, NoCycle,
      NoFull, NoTargets

(* What is written is counted under the exclusions in force.               *)
Grows ==
  \A t \in Targets, d \in Days : \A fp \in blockedDaily'[t][d] :
    fp \in blockedDaily[t][d] \/ fp.sel = Selected(t)
HistorySame ==
  /\ rollingCache'.fingerprints = rollingCache.fingerprints
  /\ rollingCache'.pending = rollingCache.pending
  /\ rollingCache'.initialized = rollingCache.initialized

LEMMA ShownKept ==
  ASSUME UNCHANGED configVars, Grows, NEW t \in Targets, ShownOf(t), ~Awaiting(t)' => ~Awaiting(t),
         rollingCache'.fingerprints[t] = rollingCache.fingerprints[t],
         rollingCache'.pending[t] = rollingCache.pending[t],
         rollingCache'.initialized = rollingCache.initialized
  PROVE  ShownOf(t)'
<1>1. Selected(t)' = Selected(t) /\ own' = own
  BY DEF configVars, Selected
<1>2. Current(t, blockedDaily[t]) => Current(t, blockedDaily[t])'
  BY <1>1 DEF Current, UnderSelected, Grows
<1>3. Leftover(t) => Leftover(t)'
  BY <1>1 DEF Leftover, Grows
<1> QED BY <1>1, <1>2, <1>3 DEF ShownOf

LEMMA FullKept ==
  ASSUME UNCHANGED configVars, Grows, NEW t \in Targets, FullOf(t),
         full' = full \/ full'.stage \notin Rebuilding
  PROVE  FullOf(t)'
<1>1. Selected(t)' = Selected(t) /\ own' = own
  BY DEF configVars, Selected
<1>2. \A d \in Days : UnderSelected(t, blockedDaily[t][d]) => UnderSelected(t, blockedDaily[t][d])'
  BY <1>1 DEF UnderSelected, Grows
<1> QED BY <1>1, <1>2 DEF FullOf

LEMMA CycleKept ==
  ASSUME UNCHANGED configVars, NEW t \in Targets, CycleOf(t), ~Awaiting(t)' => ~Awaiting(t),
         rollingCache'.fingerprints[t] = rollingCache.fingerprints[t],
         cycle'.targets = cycle.targets
  PROVE  CycleOf(t)'
BY DEF configVars, CycleOf, Selected

(* A reset hides the history, or leaves it.                                *)
LEMMA HistoryReset ==
  ASSUME TypeInv, HistoryInv, NEW fps \in Filters, Invalidate(fps),
         UNCHANGED <<configVars, blockedDaily>>, cycle'.targets = cycle.targets,
         NEW t \in Targets, ~Awaiting(t)' => ~Awaiting(t) \/ t \in Prepared(fps)
  PROVE  ShownOf(t)' /\ CycleOf(t)' /\ rollingCache'.initialized = rollingCache.initialized
<1>1. rollingCache.fingerprints \in Filters
  BY DEF TypeInv, TypeOK, DataOK, Cache
<1>2. rollingCache'.initialized = rollingCache.initialized
  BY <1>1, InvalidateEach DEF Invalidate
<1>3. CASE t \in Prepared(fps)
  <2>1. rollingCache'.fingerprints[t] # None /\ rollingCache'.pending[t] # None
    BY <1>1, <1>3, InvalidateEach DEF Invalidate
  <2> QED BY <1>2, <2>1 DEF ShownOf, CycleOf
<1>4. CASE t \notin Prepared(fps)
  <2>1. /\ rollingCache'.fingerprints[t] = rollingCache.fingerprints[t]
        /\ rollingCache'.pending[t] = rollingCache.pending[t]
    BY <1>1, <1>4, InvalidateEach DEF Invalidate
  <2>2. Grows
    BY DEF Grows
  <2>3. ShownOf(t) /\ CycleOf(t)
    BY DEF HistoryInv
  <2> QED BY <1>2, <1>4, <2>1, <2>2, <2>3, ShownKept, CycleKept
<1> QED BY <1>3, <1>4

LEMMA RequestFull ==
  ASSUME TypeInv, NEW o, Request(o)
  PROVE  full' = full \/ full'.stage = "prepare"
BY DEF Request, Start, TypeInv, TypeOK, ControlOK, Full

LEMMA HistoryPut ==
  ASSUME TypeInv, Fresh, HistoryInv, NEW g \in GlobalChoices,
         NEW o \in [Targets -> {None} \cup OwnChoices], PutTargets(g, o)
  PROVE  HistoryInv'
<1>1. /\ UNCHANGED <<rollingCache, blockedDaily, cycle, full>>
      /\ own' = o /\ PutResolved'
      /\ \A t \in Affected(g, o) : Awaiting(t)'
      /\ \A t \in Targets : own[t] # None /\ o[t] # None /\ t \notin Affected(g, o) =>
           Selected(t)' = Selected(t)
  BY PutEffect DEF HistoryInv
<1>2. \A t \in Targets : ~Awaiting(t)
  BY DEF PutTargets, UpdateUnlocked, Awaiting
<1>3. ASSUME NEW t \in Targets, own[t] = None
      PROVE  /\ cycle.targets[t] = None /\ full.targets[t] = None
             /\ \A d \in Days : blockedDaily[t][d] = {}
  BY <1>3 DEF Fresh, ByOwn, DaysOfOwn
<1>4. ASSUME NEW t \in Targets PROVE ShownOf(t)' /\ CycleOf(t)'
  <2>1. CASE own[t] = None
    BY <1>1, <1>3, <2>1 DEF ShownOf, CycleOf, Current, UnderSelected
  <2>2. CASE own[t] # None
    <3> SUFFICES ASSUME o[t] # None, t \notin Affected(g, o)
                 PROVE  ShownOf(t)' /\ CycleOf(t)'
      BY <1>1 DEF ShownOf, CycleOf
    <3>1. Selected(t)' = Selected(t)
      BY <1>1, <2>2
    <3>2. ShownOf(t) /\ CycleOf(t) /\ ~Awaiting(t)
      BY <1>2 DEF HistoryInv
    <3>3. Current(t, blockedDaily[t]) => Current(t, blockedDaily[t])'
      BY <1>1, <3>1 DEF Current, UnderSelected
    <3>4. Leftover(t) => Leftover(t)'
      BY <1>1, <3>1 DEF Leftover
    <3>5. ShownOf(t)'
      BY <1>1, <2>2, <3>2, <3>3, <3>4 DEF ShownOf
    <3> QED BY <1>1, <2>2, <3>1, <3>2, <3>5 DEF CycleOf
  <2> QED BY <2>1, <2>2
<1>5. ASSUME NEW t \in Targets PROVE FullOf(t)'
  <2> SUFFICES ASSUME full.targets[t] # None, full.targets[t].sel = Selected(t)' PROVE FullOf(t)'
    BY <1>1 DEF FullOf
  <2>1. own[t] # None /\ Selected(t)' = Selected(t)
    BY <1>3 DEF Fresh, ByOwn
  <2>2. FullOf(t)
    BY DEF HistoryInv
  <2>3. \A d \in Days : UnderSelected(t, blockedDaily[t][d]) => UnderSelected(t, blockedDaily[t][d])'
    BY <1>1, <2>1 DEF UnderSelected
  <2> QED BY <1>1, <2>1, <2>2, <2>3 DEF FullOf
<1> QED BY <1>1, <1>4, <1>5 DEF HistoryInv

(* A cycle that records a filter for the first time hides what may have    *)
(* been counted under another.                                             *)
LEMMA HistoryDetect ==
  ASSUME TypeInv, HistoryInv, CycleDetect
  PROVE  HistoryInv'
<1> DEFINE fps == Only(ChangedTargets, cycle.targets)
<1>1. Recorded \in Filters /\ fps \in Filters
  BY DEF SeenFilters, Recorded, Override, Only, Filters, Partial, TypeInv, TypeOK, DataOK, Cache,
    ControlOK, Cycle
<1>2. InvalidateFrom(Recorded, fps)
  BY DEF CycleDetect
<1>3. /\ UNCHANGED <<configVars, put, blockedDaily>> /\ cycle.stage = "frozen"
      /\ cycle'.stage \in {"reset", "collect"} /\ cycle'.targets = cycle.targets
      /\ cycle'.base = cycle.base /\ UNCHANGED full
  BY DEF CycleDetect, requestVars, TypeInv, TypeOK, ControlOK, Cycle
<1>4. \A t \in Targets : Selected(t)' = Selected(t) /\ own'[t] = own[t] /\ Awaiting(t)' = Awaiting(t)
  BY <1>3 DEF configVars, Selected, Awaiting
<1>5. Prepared(fps) = ChangedTargets
  BY DEF Prepared, Only, Members, ChangedTargets
<1>6. Grows
  BY <1>3 DEF Grows
<1>8. \A t \in Targets : FullOf(t)'
  BY <1>3, <1>6, FullKept DEF HistoryInv
<1> HIDE DEF fps
<1>9. ASSUME NEW t \in Targets PROVE ShownOf(t)' /\ CycleOf(t)'
  <2>1. CASE t \in ChangedTargets
    <3>1. rollingCache'.fingerprints[t] # None /\ rollingCache'.pending[t] # None
      BY <1>1, <1>2, <1>5, <2>1, InvalidateEach
    <3> QED BY <3>1 DEF ShownOf, CycleOf
  <2>2. CASE t \notin ChangedTargets
    <3>1. /\ rollingCache'.initialized = rollingCache.initialized
          /\ rollingCache'.fingerprints[t] = Recorded[t]
          /\ rollingCache'.pending[t] = rollingCache.pending[t]
      BY <1>1, <1>2, <1>5, <2>2, InvalidateEach
    <3>2. ShownOf(t) /\ CycleOf(t)
      BY DEF HistoryInv
    <3>3. CASE t \in Prepared(cycle.targets) /\ rollingCache.fingerprints[t] = None
      <4>1. cycle.targets[t] # None /\ Recorded[t] = cycle.targets[t]
        BY <3>3 DEF Recorded, Override, SeenFilters, Only, Prepared, Members
      <4>2. cycle.targets[t].sel = {} \/ \A d \in Days : blockedDaily[t][d] = {}
        BY <2>2, <3>3 DEF ChangedTargets, FilterChanged, HasStoredData
      <4>3. ASSUME own[t] # None, ~Awaiting(t), Leftover(t) PROVE Current(t, blockedDaily[t])
        <5>1. cycle.targets[t].sel = Selected(t)
          BY <3>2, <3>3, <4>1, <4>3 DEF CycleOf
        <5> QED BY <4>2, <4>3, <5>1 DEF Leftover, Current, UnderSelected
      <4>4. Current(t, blockedDaily[t]) => Current(t, blockedDaily[t])'
        BY <1>3, <1>4 DEF Current, UnderSelected
      <4>5. ShownOf(t)'
        BY <1>3, <1>4, <3>1, <3>2, <4>3, <4>4 DEF ShownOf
      <4> QED BY <3>1, <4>1, <4>5 DEF CycleOf
    <3>4. CASE ~(t \in Prepared(cycle.targets) /\ rollingCache.fingerprints[t] = None)
      <4>1. Recorded[t] = rollingCache.fingerprints[t]
        BY <2>2, <3>4 DEF Recorded, Override, SeenFilters, Only, ChangedTargets, FilterChanged
      <4> QED BY <1>3, <1>4, <1>6, <3>1, <3>2, <4>1, ShownKept, CycleKept
    <3> QED BY <3>3, <3>4
  <2> QED BY <2>1, <2>2
<1>10. rollingCache'.initialized = rollingCache.initialized
  BY <1>2 DEF InvalidateFrom, TypeInv, TypeOK, DataOK, Cache
<1>11. PutResolved' /\ (full'.stage = "mark" => full'.jobs = {})
  BY <1>3 DEF HistoryInv, PutResolved
<1> QED BY <1>3, <1>8, <1>9, <1>10, <1>11 DEF HistoryInv

LEMMA HistoryCommit ==
  ASSUME TypeInv, HistoryInv, CycleCommit
  PROVE  HistoryInv'
<1>1. /\ UNCHANGED <<configVars, put, full>> /\ cycle.stage = "collect"
      /\ cycle'.stage = "previous" /\ cycle'.targets = cycle.targets
  BY DEF CycleCommit, requestVars, TypeInv, TypeOK, ControlOK, Cycle
<1>2. \A t \in Targets : Awaiting(t)' = Awaiting(t)
  BY <1>1 DEF Awaiting
<1>3. Grows
  <2> PICK counted \in SUBSET Kept("deltaDone") : AccumulateHistory(counted)
    BY DEF CycleCommit
  <2>1. \A t \in counted : cycle.targets[t].sel = Selected(t)
    BY DEF Kept, FilterCurrent
  <2> QED BY <2>1 DEF AccumulateHistory, Grows, TypeInv, TypeOK, DataOK, Daily
<1>4. \A t \in Targets : FullOf(t)'
  BY <1>1, <1>3, FullKept DEF HistoryInv
<1>5. ASSUME NEW t \in Targets PROVE ShownOf(t)' /\ CycleOf(t)'
  <2>1. ShownOf(t) /\ CycleOf(t)
    BY DEF HistoryInv
  <2>2. CASE cycle.base = "first"
    <3>1. /\ rollingCache'.fingerprints = cycle.targets
          /\ rollingCache'.pending = rollingCache.pending
      BY <2>2 DEF CycleCommit, UpdateRolling, TypeInv, TypeOK, DataOK, Cache
    <3>2. ~Leftover(t)
      BY <1>1, <2>2 DEF HistoryInv, Leftover
    <3>3. Current(t, blockedDaily[t]) => Current(t, blockedDaily[t])'
      BY <1>1, <1>3 DEF configVars, Current, UnderSelected, Selected, Grows
    <3>4. ShownOf(t)'
      BY <1>1, <1>2, <2>1, <3>1, <3>2, <3>3 DEF configVars, ShownOf
    <3> QED BY <1>1, <3>1, <3>4 DEF CycleOf
  <2>3. CASE cycle.base # "first"
    <3>1. /\ rollingCache'.fingerprints = rollingCache.fingerprints
          /\ rollingCache'.pending = rollingCache.pending
          /\ rollingCache'.initialized = rollingCache.initialized
      BY <2>3 DEF CycleCommit, UpdateRolling, TypeInv, TypeOK, DataOK, Cache
    <3> QED BY <1>1, <1>2, <1>3, <2>1, <3>1, ShownKept, CycleKept
  <2> QED BY <2>2, <2>3
<1> QED BY <1>1, <1>4, <1>5 DEF HistoryInv, PutResolved

(* The rebuild of one day removes what was left of other exclusions there. *)
LEMMA HistoryDay ==
  ASSUME TypeInv, HistoryInv, NEW d \in Days, NEW t \in Targets, FullDay(d, t)
  PROVE  HistoryInv'
<1>1. /\ UNCHANGED <<configVars, put, rollingCache, cycle>>
      /\ full.targets[t].sel = Selected(t)
      /\ blockedDaily' = [blockedDaily EXCEPT ![t][d] = {full.targets[t]}]
      /\ full'.stage = full.stage /\ full'.failed = full.failed /\ full'.targets = full.targets
      /\ full'.jobs = full.jobs \ {<<d, t>>} /\ full.stage \in {"past", "today"}
  BY DEF FullDay, FilterCurrent, filterVars, TypeInv, TypeOK, ControlOK, Full
<1>2. Grows
  BY <1>1 DEF Grows, TypeInv, TypeOK, DataOK, Daily
<1>3. \A u \in Targets : Awaiting(u)' = Awaiting(u) /\ Selected(u)' = Selected(u)
  BY <1>1 DEF Awaiting, configVars, Selected
<1>4. UnderSelected(t, blockedDaily[t][d])'
  BY <1>1, <1>3 DEF UnderSelected, TypeInv, TypeOK, DataOK, Daily
<1>5. ASSUME NEW u \in Targets PROVE FullOf(u)'
  <2>1. \A c \in Days : UnderSelected(u, blockedDaily[u][c]) => UnderSelected(u, blockedDaily[u][c])'
    BY <1>2, <1>3 DEF UnderSelected, Grows
  <2>2. FullOf(u)
    BY DEF HistoryInv
  <2>3. SUFFICES ASSUME full.stage \in Rebuilding, ~full.failed, full.targets[u] # None,
                        own[u] # None, full.targets[u].sel = Selected(u), NEW c \in Days
                 PROVE  \/ UnderSelected(u, blockedDaily[u][c])'
                        \/ <<c, u>> \in full'.jobs
                        \/ full.stage = "past" /\ c = Today
    BY <1>1, <1>3 DEF FullOf, configVars
  <2>4. \/ UnderSelected(u, blockedDaily[u][c])
        \/ <<c, u>> \in full.jobs
        \/ full.stage = "past" /\ c = Today
    BY <2>2, <2>3 DEF FullOf
  <2>5. CASE <<c, u>> = <<d, t>>
    BY <1>4, <2>5
  <2>6. CASE <<c, u>> # <<d, t>>
    BY <1>1, <2>1, <2>4, <2>6
  <2> QED BY <2>5, <2>6
<1>6. \A u \in Targets : ShownOf(u)' /\ CycleOf(u)'
  BY <1>1, <1>2, <1>3, ShownKept, CycleKept DEF HistoryInv
<1> QED BY <1>1, <1>5, <1>6 DEF HistoryInv, PutResolved

(* What a reconcile is yet to write covers all that is stored.             *)
LEMMA HistoryListed ==
  ASSUME TypeInv, HistoryInv, UNCHANGED <<configVars, blockedDaily>>, ListDays, NEW t \in Targets
  PROVE  FullOf(t)' /\ full'.stage = "past"
<1>1. /\ full'.stage = "past" /\ full'.jobs = StoredDays \X Members(full.targets)
      /\ full'.targets = full.targets
  BY DEF ListDays, TypeInv, TypeOK, ControlOK, Full
<1>2. ASSUME full.targets[t] # None, NEW d \in Days, d # Today
      PROVE  UnderSelected(t, blockedDaily[t][d])' \/ <<d, t>> \in full'.jobs
  <2>1. CASE blockedDaily[t][d] = {}
    BY <2>1 DEF UnderSelected
  <2>2. CASE blockedDaily[t][d] # {}
    BY <1>1, <1>2, <2>2 DEF StoredDays, Members
  <2> QED BY <2>1, <2>2
<1> QED BY <1>1, <1>2 DEF FullOf

(* A reconcile that completes shows only what it rebuilt throughout.       *)
LEMMA HistoryMark ==
  ASSUME TypeInv, HistoryInv, FullMark
  PROVE  HistoryInv'
<1>1. /\ UNCHANGED <<configVars, put, blockedDaily, cycle>>
      /\ rollingCache'.fingerprints = rollingCache.fingerprints
      /\ rollingCache'.initialized = rollingCache.initialized
      /\ rollingCache'.pending = Only(Targets \ Rebuilt, rollingCache.pending)
      /\ full'.stage \in {"shown", "finish"} /\ full.stage = "mark" /\ Complete
  BY DEF FullMark, TypeInv, TypeOK, DataOK, Cache, ControlOK, Full
<1>2. Grows
  BY <1>1 DEF Grows
<1>3. \A t \in Targets : Awaiting(t)' = Awaiting(t) /\ Selected(t)' = Selected(t)
  BY <1>1 DEF Awaiting, configVars, Selected
<1>4. ASSUME NEW t \in Targets PROVE ShownOf(t)' /\ CycleOf(t)' /\ FullOf(t)'
  <2>1. ShownOf(t) /\ CycleOf(t) /\ FullOf(t) /\ full.jobs = {}
    BY <1>1 DEF HistoryInv
  <2>2. CASE t \in Rebuilt
    <3>1. full.targets[t] # None /\ FilterCurrent(t, full.targets[t]) /\ ~full.failed
      BY <1>1, <2>2 DEF Rebuilt, Complete, Superseded, Members
    <3>2. Current(t, blockedDaily[t])
      BY <1>1, <2>1, <3>1 DEF FullOf, Rebuilding, FilterCurrent, Current
    <3>3. Current(t, blockedDaily[t])'
      BY <1>1, <1>3, <3>2 DEF Current, UnderSelected
    <3> QED BY <1>1, <1>3, <2>1, <3>3, CycleKept DEF ShownOf, FullOf, Rebuilding
  <2>3. CASE t \notin Rebuilt
    <3>1. rollingCache'.pending[t] = rollingCache.pending[t]
      BY <1>1, <2>3 DEF Only
    <3> QED BY <1>1, <1>2, <1>3, <2>1, <3>1, ShownKept, CycleKept DEF FullOf, Rebuilding
  <2> QED BY <2>2, <2>3
<1> QED BY <1>1, <1>4 DEF HistoryInv, PutResolved

LEMMA HistoryStep ==
  TypeInv /\ FreshInv /\ SteadyHistory /\ [Next]_vars => SteadyHistory'
<1> SUFFICES ASSUME TypeInv, FreshInv, HistoryInv, [Next]_vars, Undisturbed', spent'.puts <= 1
             PROVE  HistoryInv'
  <2>1. ASSUME Undisturbed', spent'.puts <= 1, TypeInv, [Next]_vars
        PROVE  Undisturbed /\ spent.puts <= 1
    <3>1. /\ Undisturbed /\ spent.puts \in Nat /\ spent'.puts \in Nat
          /\ spent.puts <= spent'.puts
      BY <2>1, DisturbedBefore
    <3> QED BY <2>1, <3>1
  <2> QED BY <2>1 DEF SteadyHistory
<1> USE DEF TypeInv, TypeOK
<1>1. ASSUME UNCHANGED <<configVars, blockedDaily>>, HistorySame,
             put' = put \/ (put' = NoPut /\ put.stage # "saved"),
             cycle'.targets = cycle.targets, cycle'.base = cycle.base,
             cycle'.stage = cycle.stage \/ (cycle.stage = "reset" /\ cycle'.stage = "collect"),
             full' = full \/ full'.stage \notin Rebuilding
      PROVE  HistoryInv'
  <2>1. Grows
    BY <1>1 DEF Grows
  <2>2. \A t \in Targets : Awaiting(t) => Awaiting(t)'
    BY <1>1 DEF Awaiting
  <2>3. \A t \in Targets : ShownOf(t)' /\ CycleOf(t)' /\ FullOf(t)'
    BY <1>1, <2>1, <2>2, ShownKept, CycleKept, FullKept DEF HistoryInv, HistorySame
  <2>4. PutResolved'
    BY <1>1 DEF HistoryInv, PutResolved, NoPut, NoTargets
  <2> QED BY <1>1, <2>3, <2>4 DEF HistoryInv, HistorySame, Rebuilding
<1>2. ASSUME UNCHANGED <<configVars, put, full>>, HistorySame, Grows, cycle'.targets = cycle.targets,
             cycle'.stage = cycle.stage, cycle'.base = cycle.base
      PROVE  HistoryInv'
  <2>1. \A t \in Targets : Awaiting(t)' = Awaiting(t)
    BY <1>2 DEF Awaiting
  <2>2. \A t \in Targets : ShownOf(t)' /\ CycleOf(t)' /\ FullOf(t)'
    BY <1>2, <2>1, ShownKept, CycleKept, FullKept DEF HistoryInv, HistorySame
  <2> QED BY <1>2, <2>2 DEF HistoryInv, PutResolved, HistorySame
<1>3. ASSUME NEW fps \in Filters, Invalidate(fps), UNCHANGED <<configVars, blockedDaily>>,
             \A u \in Targets : Awaiting(u) => Awaiting(u)' \/ u \in Prepared(fps),
             put'.affected = put.affected, full' = full \/ full'.stage \notin Rebuilding,
             cycle'.targets = cycle.targets, cycle'.stage = cycle.stage, cycle'.base = cycle.base
      PROVE  HistoryInv'
  <2>1. Grows
    BY <1>3 DEF Grows
  <2>2. \A u \in Targets : ShownOf(u)' /\ CycleOf(u)'
    BY <1>3, HistoryReset
  <2>3. \A u \in Targets : FullOf(u)'
    BY <1>3, <2>1, FullKept DEF HistoryInv
  <2>4. PutResolved'
    BY <1>3 DEF HistoryInv, PutResolved
  <2>5. rollingCache'.initialized = rollingCache.initialized
    BY <1>3 DEF Invalidate, InvalidateFrom, DataOK, Cache
  <2> QED BY <1>3, <2>2, <2>3, <2>4, <2>5 DEF HistoryInv, Rebuilding
<1>4. \A u \in Targets : put' = put => Awaiting(u)' = Awaiting(u)
  BY DEF Awaiting
<1>5. rollingCache' = rollingCache => HistorySame
  BY DEF HistorySame
<1>6. blockedDaily' = blockedDaily => Grows
  BY DEF Grows
<1>7. CASE Environment
  <2>1. CASE Settings
    <3> PICK g \in GlobalChoices, o \in [Targets -> {None} \cup OwnChoices] : PutTargets(g, o)
      BY <2>1, DisturbedBefore DEF Settings
    <3>1. Undisturbed /\ spent.puts = 0
      BY DisturbedBefore DEF PutTargets, Spend, ControlOK, Spent
    <3> QED BY <3>1, HistoryPut DEF FreshInv, Undisturbed, Unedited
  <2>2. CASE DefinitionChange \/ CatalogExpire
    BY <1>1, <1>5, <2>2 DEF DefinitionChange, CatalogExpire, dataVars, filterVars, requestVars
  <2>3. CASE ManualReconcile
    <3>1. full'.stage = "prepare"
      BY <2>3 DEF ManualReconcile, Start, ControlOK, Full
    <3> QED BY <1>1, <1>5, <2>3, <3>1 DEF ManualReconcile, dataVars, filterVars, Rebuilding
  <2> QED BY <1>7, <2>1, <2>2, <2>3, DisturbedBefore DEF Environment
<1>8. CASE Startup
  <2>1. full' = full \/ full'.stage = "prepare"
    BY <1>8, RequestFull DEF Startup, Boot
  <2> QED BY <1>1, <1>5, <1>8, <2>1 DEF Startup, Boot, dataVars, filterVars, Rebuilding
<1>9. CASE PutStep
  <2>1. CASE PutInvalidate
    <3>1. /\ put.affected \in Filters /\ Invalidate(put.affected)
          /\ put'.affected = put.affected
          /\ UNCHANGED <<configVars, cycle, blockedDaily, full>>
      BY <2>1 DEF PutInvalidate, requestVars, ControlOK, Put
    <3>2. \A u \in Targets : Awaiting(u) => u \in Prepared(put.affected)
      BY DEF Awaiting, HistoryInv, PutResolved, Prepared, Members
    <3> QED BY <1>3, <3>1, <3>2
  <2>2. CASE PutPurge
    <3>1. full' = full \/ full'.stage = "prepare"
      BY <2>2, RequestFull DEF PutPurge
    <3> QED BY <1>1, <1>5, <2>2, <3>1 DEF PutPurge, Rebuilding
  <2> QED BY <1>9, <2>1, <2>2 DEF PutStep
<1>10. CASE CycleStart
  <2> PICK ok \in BOOLEAN : CycleFreeze(ok)
    BY <1>10 DEF CycleStart
  <2>1. UNCHANGED <<configVars, put, rollingCache, blockedDaily, full>>
    BY DEF CycleFreeze, dataVars, filterVars, requestVars
  <2>2. /\ cycle'.targets = Prepare(global, own, ok)
        /\ cycle'.base = "first" => ~rollingCache.initialized
    BY DEF CycleFreeze, NoCycle
  <2>3. \A t \in Targets : Awaiting(t)' = Awaiting(t)
    BY <2>1 DEF Awaiting
  <2>4. ASSUME NEW t \in Targets PROVE CycleOf(t)'
    <3>1. own[t] # None => cycle'.targets[t].sel = Selected(t)
      BY <2>2 DEF Prepare, Resolve, Selected
    <3> QED BY <2>1, <3>1 DEF CycleOf, configVars, Selected
  <2>5. \A t \in Targets : ShownOf(t)' /\ FullOf(t)'
    BY <1>6, <2>1, <2>3, ShownKept, FullKept DEF HistoryInv
  <2> QED BY <2>1, <2>2, <2>4, <2>5 DEF HistoryInv, PutResolved
<1>11. CASE CycleDetect
  BY <1>11, HistoryDetect
<1>19. CASE CyclePurge
  <2>1. /\ cycle'.targets = cycle.targets /\ cycle'.base = cycle.base
        /\ cycle.stage = "reset" /\ cycle'.stage = "collect"
    BY <1>19 DEF CyclePurge, ControlOK, Cycle
  <2>2. full' = full \/ full'.stage = "prepare"
    BY <1>19, RequestFull DEF CyclePurge
  <2> QED BY <1>1, <1>5, <1>19, <2>1, <2>2 DEF CyclePurge, Rebuilding
<1>12. ASSUME NEW t \in Targets, Collect(t) PROVE HistoryInv'
  <2>1. /\ cycle'.targets = cycle.targets /\ cycle'.stage = cycle.stage /\ cycle'.base = cycle.base
    BY <1>12 DEF Collect, StartQuery, QueryFails, CommitQuery, CountQuery,
      AcceptResult, Supersede, PurgeQuery, RejectQuery, RejectResult, Replaced,
      Step, ControlOK, Cycle
  <2>2. CASE Supersede(t)
    <3> DEFINE fps == [u \in Targets |-> IF u = t THEN cycle.late[t].fp ELSE None]
    <3>1. fps \in Filters
      BY <2>2 DEF Supersede, Step, StepsPrepared, Replacing, ControlOK, Cycle, Partial, Filters
    <3> HIDE DEF fps
    <3>2. Invalidate(fps) /\ UNCHANGED <<configVars, put, blockedDaily, full>>
      BY <2>2 DEF Supersede, requestVars, fps
    <3> QED BY <1>3, <1>4, <2>1, <3>1, <3>2
  <2>3. ASSUME NEW ok \in BOOLEAN, RejectQuery(t, ok) PROVE HistoryInv'
    <3> DEFINE fps == Only({t}, Prepare(global, own, ok))
    <3>1. Prepare(global, own, ok) \in Filters
      BY PrepareType DEF ConfigOK
    <3>2. fps \in Filters
      BY <3>1, OnlyType DEF Filters
    <3>3. Invalidate(fps) /\ UNCHANGED <<configVars, put, blockedDaily, full>>
      BY <2>3 DEF RejectQuery, requestVars
    <3> HIDE DEF fps
    <3> QED BY <1>3, <1>4, <2>1, <3>2, <3>3
  <2>4. CASE \/ StartQuery(t) \/ QueryFails(t) \/ CommitQuery(t) \/ CountQuery(t)
             \/ AcceptResult(t) \/ \E ok \in BOOLEAN : RejectResult(t, ok)
    <3>1. UNCHANGED <<configVars, put, full, rollingCache, blockedDaily>>
      BY <2>4 DEF StartQuery, QueryFails, CommitQuery, CountQuery, AcceptResult, RejectResult,
        dataVars, filterVars, requestVars
    <3> QED BY <1>2, <1>5, <1>6, <2>1, <3>1
  <2>5. CASE PurgeQuery(t)
    <3>1. full' = full \/ full'.stage = "prepare"
      BY <2>5, RequestFull DEF PurgeQuery
    <3> QED BY <1>1, <1>5, <2>1, <2>5, <3>1 DEF PurgeQuery, Rebuilding
  <2> QED BY <1>12, <2>2, <2>3, <2>4, <2>5 DEF Collect
<1>13. CASE CycleCommit
  BY <1>13, HistoryCommit
<1>14. CASE CyclePublish
  <2>1. /\ UNCHANGED <<configVars, put, rollingCache, blockedDaily, full>>
        /\ cycle'.stage = "idle" /\ cycle'.targets = NoTargets
    BY <1>14 DEF CyclePublish, NoCycle, requestVars
  <2>2. \A t \in Targets : Awaiting(t)' = Awaiting(t)
    BY <2>1 DEF Awaiting
  <2>3. \A t \in Targets : ShownOf(t)' /\ FullOf(t)'
    BY <1>6, <2>1, <2>2, ShownKept, FullKept DEF HistoryInv
  <2>4. \A t \in Targets : CycleOf(t)'
    BY <2>1 DEF CycleOf, NoTargets
  <2> QED BY <2>1, <2>3, <2>4 DEF HistoryInv, PutResolved
<1>15. ASSUME NEW t \in Targets, Previous(t) PROVE HistoryInv'
  <2>1. /\ cycle'.targets = cycle.targets /\ cycle'.stage = cycle.stage /\ cycle'.base = cycle.base
    BY <1>15 DEF Previous, PreviousWrite, PreviousRejected, PreviousFails, PreviousMark, Step,
      ControlOK, Cycle
  <2>2. CASE PreviousWrite(t)
    <3>1. UNCHANGED <<configVars, put, full, rollingCache>>
      BY <2>2 DEF PreviousWrite, filterVars, requestVars
    <3>2. Grows
      BY <2>2 DEF PreviousWrite, FilterCurrent, Grows, DataOK, Daily
    <3> QED BY <1>2, <1>5, <2>1, <3>1, <3>2
  <2>3. CASE PreviousRejected(t)
    <3>1. UNCHANGED <<configVars, put, rollingCache, blockedDaily>>
      BY <2>3 DEF PreviousRejected, dataVars, filterVars
    <3>2. full' = full \/ full'.stage = "prepare"
      BY <2>3, RequestFull DEF PreviousRejected
    <3>3. \A u \in Targets : ShownOf(u)' /\ CycleOf(u)' /\ FullOf(u)'
      BY <1>4, <1>6, <2>1, <3>1, <3>2, ShownKept, CycleKept, FullKept DEF HistoryInv, Rebuilding
    <3> QED BY <2>1, <3>1, <3>2, <3>3 DEF HistoryInv, PutResolved
  <2>4. CASE PreviousFails(t) \/ PreviousMark(t)
    <3>1. UNCHANGED <<configVars, put, full, rollingCache, blockedDaily>>
      BY <2>4 DEF PreviousFails, PreviousMark, dataVars, filterVars, requestVars
    <3> QED BY <1>2, <1>5, <1>6, <2>1, <3>1
  <2> QED BY <1>15, <2>2, <2>3, <2>4 DEF Previous
<1>16. CASE FullStep
  <2>1. CASE FullMatch
    <3>1. Only(PendingElsewhere, full.targets) \in Filters
      BY OnlyType DEF ControlOK, Full, Filters
    <3>2. /\ UNCHANGED <<configVars, put, cycle, blockedDaily>>
          /\ Invalidate(Only(PendingElsewhere, full.targets))
      BY <2>1 DEF FullMatch
    <3>3. CASE PendingElsewhere = {}
      <4>1. \A t \in Targets : ShownOf(t)' /\ CycleOf(t)'
        BY <1>4, <3>1, <3>2, HistoryReset
      <4>2. full'.stage = "past" /\ \A t \in Targets : FullOf(t)'
        BY <2>1, <3>2, <3>3, HistoryListed DEF FullMatch, ListDays, ControlOK, Full
      <4>3. rollingCache'.initialized = rollingCache.initialized
        BY <3>2 DEF Invalidate, InvalidateFrom, DataOK, Cache
      <4> QED BY <3>2, <4>1, <4>2, <4>3 DEF HistoryInv, PutResolved
    <3>4. CASE PendingElsewhere # {}
      <4>1. full'.stage \notin Rebuilding
        BY <2>1, <3>4 DEF FullMatch, Rebuilding, ControlOK, Full
      <4> QED BY <1>3, <1>4, <3>1, <3>2, <4>1
    <3> QED BY <3>3, <3>4
  <2>6. CASE FullPurge
    <3>1. UNCHANGED <<configVars, put, cycle, blockedDaily, rollingCache>> /\ ListDays
      BY <2>6 DEF FullPurge
    <3>2. full'.stage = "past" /\ \A t \in Targets : FullOf(t)'
      BY <3>1, HistoryListed DEF ListDays, ControlOK, Full
    <3>3. \A u \in Targets : ShownOf(u)' /\ CycleOf(u)'
      BY <1>4, <1>6, <3>1, ShownKept, CycleKept DEF HistoryInv
    <3> QED BY <3>1, <3>2, <3>3 DEF HistoryInv, PutResolved
  <2>2. ASSUME NEW d \in Days, NEW t \in Targets, Rebuild(d, t) PROVE HistoryInv'
    <3>1. CASE FullDay(d, t)
      BY <3>1, HistoryDay
    <3>2. CASE FullDayRejected(d, t) \/ FullDayFails(d, t)
      <4>1. /\ UNCHANGED <<configVars, put, rollingCache, blockedDaily, cycle>>
            /\ full'.failed /\ full'.stage # "mark"
        BY <3>2 DEF FullDayRejected, FullDayFails, dataVars, filterVars, ControlOK, Full
      <4>2. \A u \in Targets : ShownOf(u)' /\ CycleOf(u)'
        BY <1>4, <1>6, <4>1, ShownKept, CycleKept DEF HistoryInv
      <4>3. \A u \in Targets : FullOf(u)'
        BY <4>1 DEF FullOf
      <4> QED BY <4>1, <4>2, <4>3 DEF HistoryInv, PutResolved
    <3> QED BY <2>2, <3>1, <3>2 DEF Rebuild
  <2>3. CASE FullPassSaved
    <3>1. /\ UNCHANGED <<configVars, put, rollingCache, blockedDaily, cycle>>
          /\ full.jobs = {} /\ full'.failed = full.failed /\ full'.targets = full.targets
          /\ \/ full.stage = "today" /\ full'.stage = "mark" /\ full'.jobs = {}
             \/ /\ full.stage = "past" /\ full'.stage = "today"
                /\ full'.jobs = {Today} \X Members(full.targets)
      BY <2>3 DEF FullPassSaved, filterVars, ControlOK, Full
    <3>2. \A u \in Targets : ShownOf(u)' /\ CycleOf(u)'
      BY <1>4, <1>6, <3>1, ShownKept, CycleKept DEF HistoryInv
    <3>3. ASSUME NEW u \in Targets PROVE FullOf(u)'
      <4> SUFFICES ASSUME ~full.failed, full.targets[u] # None, own[u] # None,
                          full.targets[u].sel = Selected(u), NEW d \in Days
                   PROVE  UnderSelected(u, blockedDaily[u][d])' \/ <<d, u>> \in full'.jobs
        BY <3>1 DEF FullOf, configVars, Selected
      <4>1. UnderSelected(u, blockedDaily[u][d]) \/ (full.stage = "past" /\ d = Today)
        <5>1. FullOf(u)
          BY DEF HistoryInv
        <5>2. full.stage \in Rebuilding
          BY <3>1 DEF Rebuilding
        <5>3. <<d, u>> \notin full.jobs
          BY <3>1
        <5> QED BY <5>1, <5>2, <5>3 DEF FullOf
      <4>2. UnderSelected(u, blockedDaily[u][d]) => UnderSelected(u, blockedDaily[u][d])'
        BY <3>1 DEF UnderSelected, configVars, Selected
      <4>3. full.stage = "past" /\ d = Today => <<d, u>> \in full'.jobs
        BY <3>1 DEF Members
      <4> QED BY <4>1, <4>2, <4>3
    <3> QED BY <3>1, <3>2, <3>3 DEF HistoryInv, PutResolved
  <2>4. CASE FullMark
    BY <2>4, HistoryMark
  <2>5. CASE FullShown \/ FullUnmarked \/ FullFinish \/ \E ok \in BOOLEAN : FullPrepare(ok)
    <3>1. UNCHANGED <<configVars, put, blockedDaily, cycle, rollingCache>>
      BY <2>5 DEF FullShown, FullUnmarked, FullFinish, FullPrepare, dataVars, filterVars
    <3>2. full'.stage \in {"finish", "idle", "match"}
      <4>1. CASE FullShown \/ FullUnmarked
        BY <4>1 DEF FullShown, FullUnmarked, ControlOK, Full
      <4>2. CASE FullFinish
        BY <4>2 DEF FullFinish, NoFull
      <4>3. ASSUME NEW ok \in BOOLEAN, FullPrepare(ok) PROVE full'.stage = "match"
        BY <4>3 DEF FullPrepare, NoFull
      <4> QED BY <2>5, <4>1, <4>2, <4>3
    <3> QED BY <1>1, <1>5, <3>1, <3>2 DEF Rebuilding
  <2> QED BY <1>16, <2>1, <2>2, <2>3, <2>4, <2>5, <2>6 DEF FullStep
<1>17. CASE WorkerStep
  <2>1. full' = full \/ full'.stage \notin Rebuilding
    BY <1>17 DEF WorkerStep, WorkerDrain, WorkerStart, Start, ControlOK, Full, Rebuilding
  <2> QED BY <1>1, <1>5, <1>17, <2>1 DEF WorkerStep, WorkerDrain, WorkerStart, dataVars, filterVars
<1>18. CASE UNCHANGED vars
  BY <1>1, <1>5, <1>18 DEF vars, dataVars, filterVars, requestVars
<1> QED BY <1>7, <1>8, <1>9, <1>10, <1>11, <1>12, <1>13, <1>14, <1>15, <1>16, <1>17, <1>18,
      <1>19 DEF Next, CycleRest

(* After one change of the settings, until config.json is edited on disk or*)
(* the process restarts, no failed query, redefinition, manual reconcile   *)
(* or removed target lets history counted under superseded exclusions be   *)
(* shown: property HistoryCurrent.                                         *)
THEOREM History == Spec => [](Undisturbed /\ spent.puts <= 1 => HistoryCurrent)
<1>1. SteadyHistory => (Undisturbed /\ spent.puts <= 1 => HistoryCurrent)
  <2> SUFFICES ASSUME HistoryInv PROVE HistoryCurrent
    BY DEF SteadyHistory
  <2> QED BY DEF HistoryInv, ShownOf, Leftover, HistoryCurrent, Awaiting, Shown,
        Recognised
<1> QED BY <1>1, TypeInit, TypeStep, FreshInit, FreshStep, HistoryInit, HistoryStep, PTL DEF Spec

-----------------------------------------------------------------------------
(* CertifiedHistoryCurrent.  A target with a marker for the exclusions in  *)
(* force has no history of others, in memory or on disk.                   *)
MarkedFor(t) == \E fp \in Fingerprint : fp.sel = Selected(t) /\ MarkerKey(t, fp) \in marker
MarkedOf(t) ==
  own[t] # None /\ MarkedFor(t) => Current(t, blockedDaily[t]) /\ Current(t, savedDaily[t])

(* What a reconcile wrote is on disk, or will be when its pass ends.       *)
Secured(d, t) ==
  UnderSelected(t, savedDaily[t][d]) \/ (full.wrote /\ full.stage # "mark")
RebuiltOf(t) ==
  /\ full.stage \in Rebuilding /\ ~full.failed
  /\ full.targets[t] # None /\ own[t] # None /\ full.targets[t].sel = Selected(t)
  => \A d \in Days : \/ UnderSelected(t, blockedDaily[t][d]) /\ Secured(d, t)
                     \/ <<d, t>> \in full.jobs
                     \/ full.stage = "past" /\ d = Today
SavedStored ==
  \A t \in Targets, d \in Days : blockedDaily[t][d] = {} => savedDaily[t][d] = {}
CertifiedInv ==
  /\ SavedStored
  /\ full.stage = "mark" => full.jobs = {}
  /\ \A t \in Targets : MarkedOf(t) /\ RebuiltOf(t)
SteadyCertified == Unedited /\ spent.puts <= 1 => CertifiedInv

(* Until the first settings change only the exclusions in force have a     *)
(* marker.                                                                 *)
MarkersOfOwn ==
  \A t \in Targets, fp \in Fingerprint :
    MarkerKey(t, fp) \in marker => own[t] # None /\ fp.sel = Selected(t)
MarkersInv == Unedited /\ spent.puts = 0 => MarkersOfOwn

LEMMA CertifiedInit ==
  ASSUME TRUE \notin Upgraded, Init
  PROVE  SteadyCertified /\ MarkersInv
<1>1. /\ \A t \in Targets, d \in Days : blockedDaily[t][d] = {}
      /\ savedDaily = blockedDaily /\ marker = {} /\ full = NoFull
  <2> PICK upgraded \in Upgraded :
        LET kept == IF upgraded THEN Configured ELSE {}
            counts == [t \in Targets |-> IF t \in kept THEN {Unfiltered} ELSE {}]
        IN  /\ blockedDaily = [t \in Targets |-> [d \in Days |-> counts[t]]]
            /\ marker = {<<t, None>> : t \in kept}
    BY DEF Init
  <2>1. upgraded = FALSE
    BY ConstantsAssumption
  <2> QED BY <2>1 DEF Init
<1>2. \A t \in Targets : MarkedOf(t) /\ RebuiltOf(t)
  BY <1>1 DEF MarkedOf, MarkedFor, RebuiltOf, NoFull, Rebuilding
<1> QED BY <1>1, <1>2 DEF SteadyCertified, CertifiedInv, SavedStored, MarkersInv, MarkersOfOwn,
      NoFull

(* The key of a marker tells the target and its exclusions.                *)
LEMMA MarkerTells ==
  ASSUME NEW t \in Targets, NEW u \in Targets, NEW fp \in Fingerprint, NEW gp \in Fingerprint,
         MarkerKey(t, fp) = MarkerKey(u, gp)
  PROVE  t = u /\ fp.sel = gp.sel
<1>1. fp # None /\ gp # None
  BY ConstantsAssumption
<1> QED BY <1>1 DEF MarkerKey

(* Only a reconcile that completes adds markers.                           *)
LEMMA MarkerAdded == [Next]_vars => marker' = marker \/ FullMark
<1> SUFFICES ASSUME [Next]_vars, ~FullMark PROVE marker' = marker
  OBVIOUS
<1>1. ASSUME NEW t \in Targets, Collect(t) PROVE marker' = marker
  BY <1>1 DEF Collect, StartQuery, QueryFails, CommitQuery, CountQuery, AcceptResult, Supersede,
    PurgeQuery, RejectQuery, RejectResult, dataVars
<1>2. ASSUME NEW t \in Targets, Previous(t) PROVE marker' = marker
  BY <1>2 DEF Previous, PreviousWrite, PreviousRejected, PreviousFails, PreviousMark, dataVars
<1>3. CASE CycleStart \/ CycleRest
  BY <1>1, <1>2, <1>3 DEF CycleStart, CycleRest, CycleFreeze, CycleDetect, CyclePurge, CycleCommit,
    CyclePublish, dataVars
<1>4. CASE FullStep
  BY <1>4 DEF FullStep, FullMatch, FullPurge, FullPassSaved, FullShown, FullUnmarked, FullFinish,
    FullPrepare, Rebuild, FullDay, FullDayRejected, FullDayFails, dataVars
<1>5. CASE Environment \/ Startup \/ PutStep \/ WorkerStep \/ UNCHANGED vars
  BY <1>5 DEF Environment, Settings, PutTargets, ReloadConfig, DefinitionChange, CatalogExpire,
    ManualReconcile, Restart, Startup, Boot, PutStep, PutInvalidate, PutPurge, WorkerStep, WorkerDrain,
    WorkerStart, vars, dataVars
<1> QED BY <1>3, <1>4, <1>5 DEF Next

LEMMA MarkersStep == TypeInv /\ FreshInv /\ MarkersInv /\ [Next]_vars => MarkersInv'
<1> SUFFICES ASSUME TypeInv, Fresh, MarkersOfOwn, [Next]_vars, Unedited', spent'.puts = 0
             PROVE  MarkersOfOwn'
  <2>1. Unedited' /\ spent'.puts = 0 /\ TypeInv /\ [Next]_vars => Unedited /\ spent.puts = 0
    BY UneditedBefore
  <2> QED BY <2>1 DEF FreshInv, MarkersInv
<1>1. ~Settings
  <2>1. \A g \in GlobalChoices, o \in [Targets -> {None} \cup OwnChoices] : ~PutTargets(g, o)
    BY DEF PutTargets, Spend, TypeInv, TypeOK, ControlOK, Spent
  <2> QED BY <2>1, UneditedBefore DEF Settings
<1>2. own' = own /\ \A t \in Targets : Selected(t)' = Selected(t)
  BY <1>1, ConfigKept DEF configVars, Selected
<1>3. CASE marker' = marker
  BY <1>2, <1>3 DEF MarkersOfOwn, MarkerKey
<1>4. CASE FullMark
  <2>1. marker' = marker \cup {MarkerKey(t, full.targets[t]) : t \in Members(full.targets)}
    BY <1>4 DEF FullMark
  <2> SUFFICES ASSUME NEW t \in Targets, NEW fp \in Fingerprint, MarkerKey(t, fp) \in marker'
               PROVE  own[t] # None /\ fp.sel = Selected(t)
    BY <1>2 DEF MarkersOfOwn, MarkerKey
  <2>2. CASE MarkerKey(t, fp) \in marker
    BY <2>2 DEF MarkersOfOwn
  <2>3. CASE MarkerKey(t, fp) \notin marker
    <3> PICK u \in Members(full.targets) : MarkerKey(t, fp) = MarkerKey(u, full.targets[u])
      BY <2>1, <2>3
    <3>1. u \in Targets /\ full.targets[u] # None
      BY DEF Members
    <3>2. full.targets[u] \in Fingerprint
      BY <3>1 DEF TypeInv, TypeOK, ControlOK, Full, Filters, Partial
    <3>3. t = u /\ fp.sel = full.targets[u].sel
      BY <3>1, <3>2, MarkerTells
    <3> QED BY <3>1, <3>3 DEF Fresh, ByOwn
  <2> QED BY <2>2, <2>3
<1> QED BY <1>3, <1>4, MarkerAdded

(* Every day written is counted under the exclusions in force, and no day  *)
(* is emptied.                                                             *)
Filled == \A t \in Targets, d \in Days : blockedDaily'[t][d] = {} => blockedDaily[t][d] = {}

LEMMA DaysGrow == TypeInv /\ [Next]_vars => Restart \/ (Grows /\ Filled)
<1> SUFFICES ASSUME TypeInv, [Next]_vars, ~Restart PROVE Grows /\ Filled
  OBVIOUS
<1>1. blockedDaily' = blockedDaily => Grows /\ Filled
  BY DEF Grows, Filled
<1>2. ASSUME NEW t \in Targets, Collect(t) PROVE blockedDaily' = blockedDaily
  BY <1>2 DEF Collect, StartQuery, QueryFails, CommitQuery, CountQuery, AcceptResult, Supersede,
    PurgeQuery, RejectQuery, RejectResult, dataVars
<1>3. ASSUME NEW t \in Targets, Previous(t) PROVE Grows /\ Filled
  <2>1. CASE PreviousWrite(t)
    BY <2>1 DEF PreviousWrite, FilterCurrent, Grows, Filled, TypeInv, TypeOK, DataOK, Daily
  <2>2. CASE PreviousRejected(t) \/ PreviousFails(t) \/ PreviousMark(t)
    BY <1>1, <2>2 DEF PreviousRejected, PreviousFails, PreviousMark, dataVars
  <2> QED BY <1>3, <2>1, <2>2 DEF Previous
<1>4. CASE CycleCommit
  <2> PICK counted \in SUBSET Kept("deltaDone") : AccumulateHistory(counted)
    BY <1>4 DEF CycleCommit
  <2>1. \A t \in counted : cycle.targets[t].sel = Selected(t)
    BY DEF Kept, FilterCurrent
  <2> QED BY <2>1 DEF AccumulateHistory, Grows, Filled, TypeInv, TypeOK, DataOK, Daily
<1>5. CASE CycleStart \/ CycleRest
  BY <1>1, <1>2, <1>3, <1>4, <1>5 DEF CycleStart, CycleRest, CycleFreeze, CycleDetect, CyclePurge,
    CyclePublish, dataVars
<1>6. CASE FullStep
  <2>1. ASSUME NEW d \in Days, NEW t \in Targets, FullDay(d, t) PROVE Grows /\ Filled
    BY <2>1 DEF FullDay, FilterCurrent, Grows, Filled, TypeInv, TypeOK, DataOK, Daily
  <2> QED BY <1>1, <1>6, <2>1 DEF FullStep, FullMatch, FullPurge, FullPassSaved, FullMark,
        FullShown, FullUnmarked, FullFinish, FullPrepare, Rebuild, FullDayRejected, FullDayFails, dataVars
<1>7. CASE Environment \/ Startup \/ PutStep \/ WorkerStep \/ UNCHANGED vars
  BY <1>1, <1>7 DEF Environment, Settings, PutTargets, ReloadConfig, DefinitionChange, CatalogExpire,
    ManualReconcile, Startup, Boot, PutStep, PutInvalidate, PutPurge, WorkerStep, WorkerDrain,
    WorkerStart, vars, dataVars
<1> QED BY <1>5, <1>6, <1>7 DEF Next

(* A rebuild advances by its own steps only.                               *)
LEMMA RebuildAdvances ==
  TypeInv /\ [Next]_vars =>
    \/ full' = full \/ full'.stage \notin Rebuilding
    \/ ListDays /\ UNCHANGED <<blockedDaily, savedDaily>>
    \/ FullPassSaved
    \/ \E d \in Days, t \in Targets : Rebuild(d, t)
<1> SUFFICES ASSUME TypeInv, [Next]_vars, ~(ListDays /\ UNCHANGED <<blockedDaily, savedDaily>>),
                    ~FullPassSaved, ~\E d \in Days, t \in Targets : Rebuild(d, t)
             PROVE  full' = full \/ full'.stage \notin Rebuilding
  OBVIOUS
<1>1. ASSUME NEW o, Request(o) PROVE full' = full \/ full'.stage \notin Rebuilding
  BY <1>1, RequestFull DEF Rebuilding
<1>2. ASSUME NEW t \in Targets, Collect(t) PROVE full' = full \/ full'.stage \notin Rebuilding
  BY <1>1, <1>2 DEF Collect, StartQuery, QueryFails, CommitQuery, CountQuery, AcceptResult,
    Supersede, PurgeQuery, RejectQuery, RejectResult, requestVars
<1>3. ASSUME NEW t \in Targets, Previous(t) PROVE full' = full \/ full'.stage \notin Rebuilding
  BY <1>1, <1>3 DEF Previous, PreviousWrite, PreviousRejected, PreviousFails, PreviousMark,
    requestVars
<1>4. CASE CycleStart \/ CycleRest
  BY <1>1, <1>2, <1>3, <1>4 DEF CycleStart, CycleRest, CycleFreeze, CycleDetect, CyclePurge,
    CycleCommit, CyclePublish, requestVars
<1>5. CASE FullStep
  <2>1. CASE FullMark \/ FullShown \/ FullUnmarked
    BY <2>1 DEF FullMark, FullShown, FullUnmarked, Rebuilding, TypeInv, TypeOK, ControlOK, Full
  <2>2. CASE FullFinish
    BY <2>2 DEF FullFinish, NoFull, Rebuilding
  <2>3. ASSUME NEW ok \in BOOLEAN, FullPrepare(ok) PROVE full'.stage \notin Rebuilding
    BY <2>3 DEF FullPrepare, NoFull, Rebuilding
  <2>4. CASE FullMatch
    BY <2>4 DEF FullMatch, Rebuilding, TypeInv, TypeOK, ControlOK, Full
  <2>5. CASE FullPurge
    BY <2>5 DEF FullPurge
  <2> QED BY <1>5, <2>1, <2>2, <2>3, <2>4, <2>5 DEF FullStep
<1>6. CASE Environment
  <2>1. CASE ManualReconcile
    BY <2>1 DEF ManualReconcile, Start, Rebuilding, TypeInv, TypeOK, ControlOK, Full
  <2>2. CASE Restart
    BY <2>2 DEF Restart, NoFull, Rebuilding
  <2> QED BY <1>6, <2>1, <2>2 DEF Environment, Settings, PutTargets, ReloadConfig, DefinitionChange,
        CatalogExpire, requestVars
<1>7. CASE Startup \/ PutStep
  BY <1>1, <1>7 DEF Startup, Boot, PutStep, PutInvalidate, PutPurge, requestVars
<1>8. CASE WorkerStep
  BY <1>8 DEF WorkerStep, WorkerDrain, WorkerStart, Start, Rebuilding, TypeInv, TypeOK, ControlOK,
    Full
<1> QED BY <1>4, <1>5, <1>6, <1>7, <1>8 DEF Next, vars, requestVars

LEMMA MarkedKept ==
  ASSUME UNCHANGED configVars, Grows, savedDaily' = savedDaily \/ savedDaily' = blockedDaily',
         NEW t \in Targets, MarkedOf(t), MarkedFor(t)' => MarkedFor(t)
  PROVE  MarkedOf(t)'
<1>1. Selected(t)' = Selected(t) /\ own' = own
  BY DEF configVars, Selected
<1>2. Current(t, blockedDaily[t]) => Current(t, blockedDaily[t])'
  BY <1>1 DEF Current, UnderSelected, Grows
<1>3. Current(t, blockedDaily[t])' /\ Current(t, savedDaily[t]) => Current(t, savedDaily[t])'
  BY <1>1 DEF Current, UnderSelected
<1> QED BY <1>1, <1>2, <1>3 DEF MarkedOf

LEMMA RebuiltKept ==
  ASSUME UNCHANGED configVars, Grows, savedDaily' = savedDaily \/ savedDaily' = blockedDaily',
         NEW t \in Targets, RebuiltOf(t), full' = full \/ full'.stage \notin Rebuilding
  PROVE  RebuiltOf(t)'
<1>1. Selected(t)' = Selected(t) /\ own' = own
  BY DEF configVars, Selected
<1>2. ASSUME NEW d \in Days, UnderSelected(t, blockedDaily[t][d]), Secured(d, t), full' = full
      PROVE  UnderSelected(t, blockedDaily[t][d])' /\ Secured(d, t)'
  BY <1>1, <1>2 DEF UnderSelected, Grows, Secured
<1> QED BY <1>1, <1>2 DEF RebuiltOf

(* What the new exclusions have a marker for they have in common with the  *)
(* old ones.                                                               *)
LEMMA CertifiedPut ==
  ASSUME Fresh, MarkersOfOwn, CertifiedInv, NEW g \in GlobalChoices,
         NEW o \in [Targets -> {None} \cup OwnChoices], PutTargets(g, o)
  PROVE  CertifiedInv'
<1>1. UNCHANGED <<blockedDaily, savedDaily, marker, full>>
  BY DEF PutTargets, dataVars, requestVars
<1>2. ASSUME NEW t \in Targets PROVE MarkedOf(t)'
  <2> SUFFICES ASSUME MarkedFor(t)' PROVE (Current(t, blockedDaily[t]) /\ Current(t, savedDaily[t]))'
    BY DEF MarkedOf
  <2> PICK fp \in Fingerprint : fp.sel = Selected(t)' /\ MarkerKey(t, fp) \in marker
    BY <1>1 DEF MarkedFor, MarkerKey
  <2>1. own[t] # None /\ fp.sel = Selected(t)
    BY DEF MarkersOfOwn
  <2>2. Current(t, blockedDaily[t]) /\ Current(t, savedDaily[t])
    BY <2>1 DEF MarkedFor, CertifiedInv, MarkedOf
  <2>3. Selected(t)' = Selected(t)
    BY <2>1
  <2> QED BY <1>1, <2>2, <2>3 DEF Current, UnderSelected
<1>3. ASSUME NEW t \in Targets PROVE RebuiltOf(t)'
  <2> SUFFICES ASSUME full.targets[t] # None, full.targets[t].sel = Selected(t)' PROVE RebuiltOf(t)'
    BY <1>1 DEF RebuiltOf
  <2>1. own[t] # None /\ Selected(t)' = Selected(t)
    BY DEF Fresh, ByOwn
  <2>2. RebuiltOf(t)
    BY DEF CertifiedInv
  <2>3. \A d \in Days : UnderSelected(t, blockedDaily[t][d]) /\ Secured(d, t) =>
                        UnderSelected(t, blockedDaily[t][d])' /\ Secured(d, t)'
    BY <1>1, <2>1 DEF UnderSelected, Secured
  <2> QED BY <1>1, <2>1, <2>2, <2>3 DEF RebuiltOf
<1> QED BY <1>1, <1>2, <1>3 DEF CertifiedInv, SavedStored

(* One day is written, or fails.                                           *)
LEMMA RebuiltDay ==
  ASSUME TypeInv, NEW d \in Days, NEW t \in Targets, Rebuild(d, t), Grows, NEW u \in Targets,
         RebuiltOf(u)
  PROVE  RebuiltOf(u)'
<1>1. CASE FullDayRejected(d, t) \/ FullDayFails(d, t)
  BY <1>1 DEF FullDayRejected, FullDayFails, RebuiltOf, TypeInv, TypeOK, ControlOK, Full
<1>2. CASE FullDay(d, t)
  <2>1. /\ UNCHANGED <<configVars, savedDaily>>
        /\ full.targets[t].sel = Selected(t)
        /\ blockedDaily' = [blockedDaily EXCEPT ![t][d] = {full.targets[t]}]
        /\ full'.stage = full.stage /\ full'.failed = full.failed /\ full'.targets = full.targets
        /\ full'.jobs = full.jobs \ {<<d, t>>} /\ full.stage \in {"past", "today"} /\ full'.wrote
    BY <1>2 DEF FullDay, FilterCurrent, TypeInv, TypeOK, ControlOK, Full
  <2>2. Selected(t)' = Selected(t) /\ Selected(u)' = Selected(u) /\ own' = own
    BY <2>1 DEF configVars, Selected
  <2>3. SUFFICES ASSUME full.stage \in Rebuilding, ~full.failed, full.targets[u] # None,
                        own[u] # None, full.targets[u].sel = Selected(u), NEW c \in Days
                 PROVE  \/ UnderSelected(u, blockedDaily[u][c])' /\ Secured(c, u)'
                        \/ <<c, u>> \in full'.jobs
                        \/ full.stage = "past" /\ c = Today
    BY <2>1, <2>2 DEF RebuiltOf
  <2>4. Secured(c, u)'
    BY <2>1 DEF Secured
  <2>5. CASE <<c, u>> = <<d, t>>
    <3>1. UnderSelected(t, blockedDaily[t][d])'
      BY <2>1, <2>2 DEF UnderSelected, TypeInv, TypeOK, DataOK, Daily
    <3> QED BY <2>4, <2>5, <3>1
  <2>6. CASE <<c, u>> # <<d, t>>
    <3>1. UnderSelected(u, blockedDaily[u][c]) => UnderSelected(u, blockedDaily[u][c])'
      BY <2>2 DEF UnderSelected, Grows
    <3> QED BY <2>1, <2>3, <2>4, <2>6, <3>1 DEF RebuiltOf
  <2> QED BY <2>5, <2>6
<1> QED BY <1>1, <1>2 DEF Rebuild

(* A pass ends by saving what it wrote.                                    *)
LEMMA RebuiltPass ==
  ASSUME TypeInv, FullPassSaved, NEW u \in Targets, RebuiltOf(u)
  PROVE  RebuiltOf(u)'
<1>1. /\ UNCHANGED <<configVars, blockedDaily>> /\ full.jobs = {}
      /\ full'.failed = full.failed /\ full'.targets = full.targets
      /\ savedDaily' = IF full.wrote THEN blockedDaily ELSE savedDaily
      /\ \/ full.stage = "today" /\ full'.stage = "mark"
         \/ /\ full.stage = "past" /\ full'.stage = "today"
            /\ full'.jobs = {Today} \X Members(full.targets)
  BY DEF FullPassSaved, SaveDailyIf, TypeInv, TypeOK, ControlOK, Full
<1>2. Selected(u)' = Selected(u) /\ own' = own
  BY <1>1 DEF configVars, Selected
<1> SUFFICES ASSUME ~full.failed, full.targets[u] # None, own[u] # None,
                    full.targets[u].sel = Selected(u), NEW d \in Days
             PROVE  \/ UnderSelected(u, blockedDaily[u][d])' /\ Secured(d, u)'
                    \/ <<d, u>> \in full'.jobs
  BY <1>1, <1>2 DEF RebuiltOf
<1>3. \/ UnderSelected(u, blockedDaily[u][d]) /\ Secured(d, u)
      \/ full.stage = "past" /\ d = Today
  BY <1>1 DEF RebuiltOf, Rebuilding
<1>4. CASE full.stage = "past" /\ d = Today
  BY <1>1, <1>4 DEF Members
<1>5. CASE UnderSelected(u, blockedDaily[u][d]) /\ Secured(d, u)
  <2>1. UnderSelected(u, blockedDaily[u][d])'
    BY <1>1, <1>2, <1>5 DEF UnderSelected
  <2>2. UnderSelected(u, savedDaily[u][d])'
    BY <1>1, <1>2, <1>5 DEF UnderSelected, Secured
  <2> QED BY <2>1, <2>2 DEF Secured
<1> QED BY <1>3, <1>4, <1>5

LEMMA CertifiedStep ==
  TypeInv /\ FreshInv /\ MarkersInv /\ SteadyCertified /\ [Next]_vars => SteadyCertified'
<1> SUFFICES ASSUME TypeInv, FreshInv, MarkersInv, CertifiedInv, [Next]_vars, Unedited',
                    spent'.puts <= 1
             PROVE  CertifiedInv'
  <2>1. ASSUME Unedited', spent'.puts <= 1, TypeInv, [Next]_vars
        PROVE  Unedited /\ spent.puts <= 1
    <3>1. /\ Unedited /\ spent.puts \in Nat /\ spent'.puts \in Nat
          /\ spent.puts <= spent'.puts
      BY <2>1, UneditedBefore
    <3> QED BY <2>1, <3>1
  <2> QED BY <2>1 DEF SteadyCertified
<1>1. CASE Settings
  <2> PICK g \in GlobalChoices, o \in [Targets -> {None} \cup OwnChoices] : PutTargets(g, o)
    BY <1>1, UneditedBefore DEF Settings
  <2>1. Unedited /\ spent.puts = 0
    BY UneditedBefore DEF PutTargets, Spend, TypeInv, TypeOK, ControlOK, Spent
  <2> QED BY <2>1, CertifiedPut DEF FreshInv, MarkersInv
<1>2. CASE Restart
  <2>1. /\ UNCHANGED <<configVars, marker, savedDaily>> /\ blockedDaily' = savedDaily
        /\ full' = NoFull
    BY <1>2 DEF Restart
  <2>2. ASSUME NEW t \in Targets PROVE MarkedOf(t)' /\ RebuiltOf(t)'
    <3>1. MarkedOf(t)
      BY DEF CertifiedInv
    <3>2. own' = own /\ Selected(t)' = Selected(t)
      BY <2>1 DEF configVars, Selected
    <3>3. MarkedFor(t)' = MarkedFor(t)
      BY <2>1, <3>2 DEF MarkedFor, MarkerKey
    <3>4. Current(t, savedDaily[t]) => (Current(t, blockedDaily[t]) /\ Current(t, savedDaily[t]))'
      BY <2>1, <3>2 DEF Current, UnderSelected
    <3> QED BY <2>1, <3>1, <3>2, <3>3, <3>4 DEF MarkedOf, RebuiltOf, NoFull, Rebuilding
  <2> QED BY <2>1, <2>2 DEF CertifiedInv, SavedStored, NoFull
<1>3. ASSUME ~Settings, ~Restart PROVE CertifiedInv'
  <2>1. UNCHANGED configVars /\ Grows /\ Filled
    BY <1>3, ConfigKept, DaysGrow
  <2>2. savedDaily' = savedDaily \/ savedDaily' = blockedDaily'
    BY SavedOf
  <2>3. SavedStored'
    BY <2>1, <2>2 DEF CertifiedInv, SavedStored, Filled
  <2>4. ASSUME NEW t \in Targets PROVE MarkedOf(t)'
    <3>0. Selected(t)' = Selected(t) /\ own' = own
      BY <2>1 DEF configVars, Selected
    <3>1. CASE MarkedFor(t)' => MarkedFor(t)
      BY <2>1, <2>2, <3>1, MarkedKept DEF CertifiedInv
    <3>2. CASE FullMark /\ MarkedFor(t)' /\ ~MarkedFor(t)
      <4> PICK fp \in Fingerprint : fp.sel = Selected(t)' /\ MarkerKey(t, fp)' \in marker'
        BY <3>2 DEF MarkedFor
      <4>1. MarkerKey(t, fp) \in marker' /\ MarkerKey(t, fp) \notin marker
        BY <3>0, <3>2 DEF MarkedFor, MarkerKey
      <4> PICK u \in Members(full.targets) : MarkerKey(t, fp) = MarkerKey(u, full.targets[u])
        BY <3>2, <4>1 DEF FullMark
      <4>2. t = u /\ full.targets[t] # None
        BY DEF Members, MarkerKey
      <4>3. /\ own[t] # None /\ Selected(t) = full.targets[t].sel
            /\ ~full.failed /\ full.stage = "mark" /\ full.jobs = {}
            /\ UNCHANGED <<blockedDaily, savedDaily>>
        BY <3>2, <4>2 DEF FullMark, Complete, Superseded, FilterCurrent, Members, CertifiedInv
      <4>4. \A d \in Days : UnderSelected(t, blockedDaily[t][d]) /\ UnderSelected(t, savedDaily[t][d])
        BY <4>2, <4>3 DEF CertifiedInv, RebuiltOf, Rebuilding, Secured
      <4> QED BY <3>0, <4>3, <4>4 DEF MarkedOf, Current, UnderSelected
    <3>3. CASE marker' = marker
      BY <3>0, <3>1, <3>3 DEF MarkedFor, MarkerKey
    <3> QED BY <3>1, <3>2, <3>3, MarkerAdded
  <2>5. ASSUME full' = full \/ full'.stage \notin Rebuilding PROVE CertifiedInv'
    <3>1. \A t \in Targets : RebuiltOf(t)'
      BY <2>1, <2>2, <2>5, RebuiltKept DEF CertifiedInv
    <3> QED BY <2>3, <2>4, <2>5, <3>1 DEF CertifiedInv, Rebuilding
  <2>6. CASE ListDays /\ UNCHANGED <<blockedDaily, savedDaily>>
    <3>1. /\ full'.stage = "past" /\ full'.jobs = StoredDays \X Members(full.targets)
          /\ full'.targets = full.targets /\ UNCHANGED <<blockedDaily, savedDaily>>
      BY <2>6 DEF ListDays, TypeInv, TypeOK, ControlOK, Full
    <3>2. ASSUME NEW t \in Targets, full.targets[t] # None, NEW d \in Days, d # Today
          PROVE  \/ (UnderSelected(t, blockedDaily[t][d]) /\ Secured(d, t))'
                 \/ <<d, t>> \in full'.jobs
      <4>1. CASE blockedDaily[t][d] = {}
        BY <3>1, <4>1 DEF UnderSelected, Secured, CertifiedInv, SavedStored
      <4>2. CASE blockedDaily[t][d] # {}
        BY <3>1, <3>2, <4>2 DEF StoredDays, Members
      <4> QED BY <4>1, <4>2
    <3>3. \A t \in Targets : RebuiltOf(t)'
      BY <3>1, <3>2 DEF RebuiltOf
    <3> QED BY <2>3, <2>4, <3>1, <3>3 DEF CertifiedInv
  <2>7. CASE FullPassSaved
    <3>1. full'.stage = "mark" => full'.jobs = {}
      BY <2>7 DEF FullPassSaved, TypeInv, TypeOK, ControlOK, Full
    <3> QED BY <2>3, <2>4, <2>7, <3>1, RebuiltPass DEF CertifiedInv
  <2>8. ASSUME NEW d \in Days, NEW t \in Targets, Rebuild(d, t) PROVE CertifiedInv'
    <3>1. full'.stage # "mark"
      BY <2>8 DEF Rebuild, FullDay, FullDayRejected, FullDayFails, TypeInv, TypeOK, ControlOK, Full
    <3> QED BY <2>1, <2>3, <2>4, <2>8, <3>1, RebuiltDay DEF CertifiedInv
  <2> QED BY <2>5, <2>6, <2>7, <2>8, RebuildAdvances
<1> QED BY <1>1, <1>2, <1>3

(* On a new installation, after one change of the settings, whatever       *)
(* crashes, failed queries and redefinitions happen and whatever they cut  *)
(* off, no marker certifies history counted under superseded exclusions:   *)
(* property CertifiedHistoryCurrent.                                       *)
THEOREM CertifiedHolds ==
  TRUE \notin Upgraded /\ Spec => [](Unedited /\ spent.puts <= 1 => CertifiedHistoryCurrent)
<1>1. TypeInv /\ SteadyCertified => (Unedited /\ spent.puts <= 1 => CertifiedHistoryCurrent)
  <2> SUFFICES ASSUME TypeInv, CertifiedInv PROVE CertifiedHistoryCurrent
    BY DEF SteadyCertified
  <2>1. ASSUME NEW cache \in Cache, NEW t \in Targets, Shown(cache, t),
               Certified(t, cache.fingerprints[t])
        PROVE  Current(t, blockedDaily[t]) /\ Current(t, savedDaily[t])
    <3>1. cache.fingerprints[t] \in Fingerprint /\ own[t] # None
          /\ cache.fingerprints[t].sel = Selected(t)
      BY <2>1 DEF Shown, Recognised, Cache, Filters, Partial
    <3>2. MarkedFor(t)
      BY <2>1, <3>1 DEF MarkedFor, Certified
    <3> QED BY <3>1, <3>2 DEF CertifiedInv, MarkedOf
  <2>2. rollingCache \in Cache /\ savedRolling \in Cache
    BY DEF TypeInv, TypeOK, DataOK
  <2> QED BY <2>1, <2>2 DEF CertifiedHistoryCurrent
<1>2. TRUE \notin Upgraded /\ Init => SteadyCertified /\ MarkersInv
  BY CertifiedInit
<1> QED BY <1>1, <1>2, TypeInit, TypeStep, FreshInit, FreshStep, MarkersStep, CertifiedStep, PTL
      DEF Spec

-----------------------------------------------------------------------------
(* NothingForgotten.  With one target, or settings nobody changes, no      *)
(* reconcile is failed by the change of another target.                    *)
Alone == \A t, u \in Targets : t = u
Untroubled == spent.faults = 0 /\ (Alone \/ (Unedited /\ spent.puts = 0))

(* Whoever reset t is about to ask, a request for t waits, or it was taken  *)
(* by a reconcile that will show it.                                       *)
Asking(t) ==
  \/ put.stage = "hidden" /\ put.affected[t] # None
  \/ cycle.stage = "reset" /\ cycle.own[t] # None
  \/ cycle.step[t] \in {"rejected", "hidden"}
Waiting(t) == t \in queue \/ drained[t] # None
Underway(t) ==
  \/ full.stage = "prepare" /\ (full.own[t] # None \/ Members(full.own) = {})
  \/ full.stage = "match" /\ full.targets[t] # None
  \/ /\ full.stage \in {"reset"} \cup Rebuilding /\ ~full.failed
     /\ full.targets[t] # None /\ rollingCache.pending[t] = full.targets[t]
Attended(t) == Asking(t) \/ Waiting(t) \/ Underway(t)
HiddenOf(t) ==
  process # "down" /\ own[t] # None /\ rollingCache.pending[t] # None => Attended(t)
HeldToStart == worker # "start" => drained = NoTargets
FullResolved ==
  /\ \A t \in Targets : full.targets[t] # None => full.targets[t].ver # Unresolved
  /\ full.stage = "match" => ~full.failed
HiddenInv ==
  /\ HeldToStart /\ FullResolved
  /\ Alone => \A t \in Targets : own[t] # None
  /\ \A t \in Targets : HiddenOf(t)
SteadyHidden == Untroubled => HiddenInv

LEMMA HiddenInit == Init => SteadyHidden
<1> SUFFICES ASSUME Init PROVE HiddenInv
  BY DEF SteadyHidden
<1>1. /\ full = NoFull /\ drained = NoTargets
      /\ rollingCache.pending = NoTargets
  BY DEF Init
<1>2. Alone => \A t \in Targets : own[t] # None
  BY DEF Init, Alone, Configured, Members
<1>3. HeldToStart /\ FullResolved /\ \A t \in Targets : HiddenOf(t)
  BY <1>1 DEF HeldToStart, FullResolved, HiddenOf, NoFull, NoTargets
<1> QED BY <1>2, <1>3 DEF HiddenInv

(* What needs no catalog, or one that is retrieved, resolves.              *)
LEMMA Resolves ==
  ASSUME TypeInv, NEW o, NEW ok \in BOOLEAN, NEW fps, fps = Prepare(global, o, ok),
         ReadCatalog(fps, ok), spent'.faults = 0,
         NEW t \in Targets, fps[t] # None
  PROVE  fps[t].ver # Unresolved
<1>1. fps[t] = Resolve(Effective(global, o[t]), ok)
  BY DEF Prepare
<1>2. ~Fault
  BY DEF Fault, Spend, TypeInv, TypeOK, ControlOK, Spent
<1>3. ~NeedsCatalog(Effective(global, o[t])) \/ ok
  <2>1. CASE ok
    BY <2>1
  <2>2. CASE ~ok
    <3>1. ~AsksCatalog(fps)
      BY <1>2, <2>2 DEF ReadCatalog
    <3>2. fps[t].sel = Effective(global, o[t])
      BY <1>1 DEF Resolve
    <3> QED BY <3>1, <3>2 DEF AsksCatalog, Members
  <2> QED BY <2>1, <2>2
<1>4. CatalogVersion \in 0 .. MaxDefinition
  BY DEF CatalogVersion, TypeInv, TypeOK, ConfigOK
<1> QED BY <1>1, <1>3, <1>4 DEF Resolve, Unresolved

(* Asking for a rebuild of t, and for one of any others.                   *)
LEMMA RequestAttends ==
  ASSUME TypeInv, NEW o, Request(o), NEW t \in Targets
  PROVE  /\ o[t] # None => Attended(t)'
         /\ Underway(t) /\ rollingCache'.pending[t] = rollingCache.pending[t] => Underway(t)'
         /\ Waiting(t) => Waiting(t)'
<1>1. CASE Members(o) # {} /\ full.stage = "idle"
  <2>1. /\ full'.stage = "prepare" /\ full'.own = o /\ UNCHANGED <<queue, drained>>
    BY <1>1 DEF Request, Start, queueVars, TypeInv, TypeOK, ControlOK, Full
  <2> QED BY <1>1, <2>1 DEF Attended, Waiting, Underway, Rebuilding
<1>2. CASE ~(Members(o) # {} /\ full.stage = "idle")
  <2>1. full' = full /\ drained' = drained /\ queue' = queue \cup Members(o)
    BY <1>2 DEF Request, Enqueue
  <2>2. o[t] # None => t \in queue'
    BY <2>1 DEF Members
  <2> QED BY <2>1, <2>2 DEF Attended, Waiting, Underway, Members
<1> QED BY <1>1, <1>2

(* Whoever is about to ask for a target does so before it forgets it.      *)
LEMMA AskingAttended ==
  ASSUME TypeInv, PurgeInv, [Next]_vars, ~Restart, NEW t \in Targets, own'[t] # None,
         own' = own \/ put.stage # "hidden", Asking(t)
  PROVE  Attended(t)'
<1>1. CASE Asking(t)'
  BY <1>1 DEF Attended
<1>2. CASE PutPurge /\ put.affected[t] # None
  <2>1. own' = own /\ Request(Only(Members(put.affected), own))
    BY <1>2 DEF PutPurge, configVars
  <2>2. Only(Members(put.affected), own)[t] # None
    BY <1>2, <2>1 DEF Only, Members
  <2> QED BY <2>1, <2>2, RequestAttends
<1>3. CASE CyclePurge /\ cycle.own[t] # None
  BY <1>3, RequestAttends DEF CyclePurge
<1>4. CASE PurgeQuery(t)
  <2> PICK o : o = [u \in Targets |-> IF u = t THEN cycle.late[t].own ELSE None]
    OBVIOUS
  <2>1. cycle.late[t] \in [own : SUBSET Selectors, fp : Fingerprint]
    BY <1>4 DEF PurgeQuery, TypeInv, TypeOK, StepsPrepared, Replacing, ControlOK, Cycle, Partial
  <2>2. o[t] # None
    BY <2>1, ConstantsAssumption
  <2> QED BY <1>4, <2>2, RequestAttends DEF PurgeQuery
<1> QED BY <1>1, <1>2, <1>3, <1>4, PurgingHeld DEF Asking

(* The worker, while it does not start anything, holds nothing.            *)
LEMMA RequestHolds ==
  ASSUME HeldToStart, NEW o, Request(o)
  PROVE  HeldToStart'
BY DEF Request, Enqueue, queueVars, HeldToStart

(* A step that changes neither what is pending nor the reconcile.          *)
LEMMA HiddenKept ==
  ASSUME NEW t \in Targets, HiddenOf(t), own' = own, process' # "down" => process # "down",
         rollingCache'.pending[t] # None => rollingCache'.pending[t] = rollingCache.pending[t],
         full' = full, Waiting(t) => Waiting(t)',
         own'[t] # None /\ Asking(t) => Attended(t)'
  PROVE  HiddenOf(t)'
BY DEF HiddenOf, Attended, Underway

(* Whoever resets t in memory has yet to ask for its rebuild.              *)
LEMMA HiddenReset ==
  ASSUME TypeInv, NEW t \in Targets, HiddenOf(t), own' = own, process' = process,
         NEW recorded \in Filters, NEW fps \in Filters, InvalidateFrom(recorded, fps),
         UNCHANGED <<full, queue, drained>>, t \in Prepared(fps) => Asking(t)',
         own'[t] # None /\ Asking(t) => Attended(t)'
  PROVE  HiddenOf(t)'
<1>1. CASE t \in Prepared(fps)
  BY <1>1 DEF HiddenOf, Attended
<1>2. CASE t \notin Prepared(fps)
  <2>1. rollingCache'.pending[t] = rollingCache.pending[t]
    BY <1>2, InvalidateEach
  <2> QED BY <2>1, HiddenKept DEF Waiting
<1> QED BY <1>1, <1>2

LEMMA FullKeepsResolved ==
  ASSUME FullResolved, full'.targets = full.targets \/ full'.targets = NoTargets,
         full'.stage = "match" => full'.failed = full.failed /\ full.stage = "match"
  PROVE  FullResolved'
BY DEF FullResolved, NoTargets

(* A reconcile takes what it was handed, re-keys what is pending and, unless*)
(* a target it has was superseded, shows it again.                         *)
LEMMA HiddenFull ==
  ASSUME TypeInv, FreshInv, HiddenInv, Untroubled, spent'.faults = 0, FullStep
  PROVE  FullResolved' /\ UNCHANGED <<configVars, process, drained>>
         /\ (worker' = worker \/ (worker' = "poll" /\ worker = "off"))
         /\ \A t \in Targets : HiddenOf(t)'
<1> USE DEF TypeInv, TypeOK
<1>1. ~Fault
  BY DEF Fault, Spend, ControlOK, Spent
<1>2. ASSUME ~Alone
      PROVE  \A t \in Members(full.targets) : FilterCurrent(t, full.targets[t])
  BY <1>2 DEF Untroubled, FreshInv, Fresh, ByOwn, FilterCurrent, Members
<1>3. ASSUME Alone PROVE Configured = Targets
  BY <1>3 DEF HiddenInv, Configured, Members
<1>15. UNCHANGED <<configVars, process, put, cycle, drained>>
  BY DEF FullStep, FullMatch, FullPurge, FullPassSaved, FullMark, FullShown, FullUnmarked,
    FullFinish, FullPrepare, Rebuild, FullDay, FullDayRejected, FullDayFails, Enqueue, configVars,
    queueVars
<1>4. ASSUME UNCHANGED <<own, process, drained>>, queue \subseteq queue', NEW t \in Targets,
             HiddenOf(t),
             rollingCache'.pending[t] # None =>
               rollingCache.pending[t] # None /\ (Underway(t) => Attended(t)')
      PROVE  HiddenOf(t)'
  BY <1>4, <1>15 DEF HiddenOf, Attended, Asking, Waiting
<1>5. \A t \in Targets : HiddenOf(t)
  BY DEF HiddenInv
<1>6. ASSUME NEW ok \in BOOLEAN, FullPrepare(ok)
      PROVE  FullResolved' /\ \A t \in Targets : HiddenOf(t)'
  <2> DEFINE chosen == IF Members(full.own) = {} THEN own ELSE full.own
  <2> PICK o : o = chosen
    OBVIOUS
  <2> PICK fps : fps = Prepare(global, o, ok)
    OBVIOUS
  <2>1. /\ full.stage = "prepare" /\ ReadCatalog(fps, ok)
        /\ full'.stage = "match" /\ full'.targets = fps /\ ~full'.failed
        /\ UNCHANGED <<own, process, drained, queue, rollingCache>>
    BY <1>6 DEF FullPrepare, NoFull, configVars, dataVars, filterVars, queueVars
  <2>2. FullResolved'
    BY <2>1, Resolves DEF FullResolved
  <2>3. ASSUME NEW t \in Targets, own[t] # None, Underway(t) PROVE Underway(t)'
    <3>1. o[t] # None
      BY <2>1, <2>3 DEF Underway, Rebuilding
    <3>2. o \in Exclusions /\ global \in SUBSET Selectors
      BY DEF ConfigOK, ControlOK, Full
    <3>3. Members(Prepare(global, o, ok)) = Members(o)
      BY <3>2, PrepareType
    <3>4. fps[t] # None
      BY <3>1, <3>3 DEF Members
    <3> QED BY <2>1, <3>4 DEF Underway
  <2>4. \A t \in Targets : HiddenOf(t)'
    BY <1>5, <1>15, <2>1, <2>3 DEF HiddenOf, Attended, Asking, Waiting
  <2> QED BY <2>2, <2>4
<1>7. ASSUME FullMatch PROVE FullResolved' /\ \A t \in Targets : HiddenOf(t)'
  <2>1. Only(PendingElsewhere, full.targets) \in Filters
    BY OnlyType DEF ControlOK, Full, Filters
  <2>2. /\ Invalidate(Only(PendingElsewhere, full.targets)) /\ full.stage = "match"
        /\ full'.stage \in {"past", "reset"} /\ full'.targets = full.targets
        /\ full'.failed = full.failed /\ UNCHANGED <<own, process, queue, drained>>
    BY <1>7 DEF FullMatch, ListDays, configVars, queueVars, ControlOK, Full
  <2>3. rollingCache.fingerprints \in Filters
    BY DEF DataOK, Cache
  <2>4. Prepared(Only(PendingElsewhere, full.targets)) = PendingElsewhere
    BY DEF Prepared, Only, Members, PendingElsewhere
  <2>5. ASSUME NEW t \in Targets PROVE HiddenOf(t)'
    <3>1. CASE t \in PendingElsewhere
      <4>1. rollingCache'.pending[t] = full.targets[t]
        <5>1. rollingCache'.pending[t] = Only(PendingElsewhere, full.targets)[t]
          BY <2>1, <2>2, <2>3, <2>4, <3>1, InvalidateEach DEF Invalidate
        <5> QED BY <3>1, <5>1 DEF Only
      <4>2. rollingCache.pending[t] # None /\ full.targets[t] # None
        BY <3>1 DEF PendingElsewhere, Prepared, Members
      <4>3. ~full'.failed
        BY <2>2 DEF HiddenInv, FullResolved
      <4> QED BY <1>4, <1>5, <2>2, <4>1, <4>2, <4>3 DEF Attended, Underway, Rebuilding
    <3>2. CASE t \notin PendingElsewhere
      <4>1. rollingCache'.pending[t] = rollingCache.pending[t]
        BY <2>1, <2>2, <2>3, <2>4, <3>2, InvalidateEach DEF Invalidate
      <4>2. ASSUME Underway(t), rollingCache.pending[t] # None
            PROVE  full.targets[t] # None /\ rollingCache.pending[t] = full.targets[t]
        <5>1. full.targets[t] # None
          BY <2>2, <4>2 DEF Underway, Rebuilding
        <5>2. t \in Prepared(full.targets)
          BY <5>1 DEF Prepared, Members, HiddenInv, FullResolved
        <5> QED BY <3>2, <4>2, <5>1, <5>2 DEF PendingElsewhere
      <4>3. ~full'.failed
        BY <2>2 DEF HiddenInv, FullResolved
      <4> QED BY <1>4, <1>5, <2>2, <4>1, <4>2, <4>3 DEF Attended, Underway, Rebuilding
    <3> QED BY <3>1, <3>2
  <2>6. FullResolved'
    BY <2>2, FullKeepsResolved DEF HiddenInv
  <2> QED BY <2>5, <2>6
<1>8. ASSUME NEW d \in Days, NEW u \in Targets, FullDay(d, u)
      PROVE  FullResolved' /\ \A t \in Targets : HiddenOf(t)'
  <2>1. /\ full'.stage = full.stage /\ full'.targets = full.targets /\ full'.failed = full.failed
        /\ full'.own = full.own /\ full.stage # "match"
        /\ UNCHANGED <<own, process, queue, drained, rollingCache>>
    BY <1>8 DEF FullDay, configVars, filterVars, queueVars, ControlOK, Full
  <2>2. FullResolved'
    BY <2>1, FullKeepsResolved DEF HiddenInv
  <2> QED BY <1>4, <1>5, <2>1, <2>2 DEF Attended, Underway
<1>9. ASSUME NEW d \in Days, NEW u \in Targets, FullDayRejected(d, u)
      PROVE  FullResolved' /\ \A t \in Targets : HiddenOf(t)'
  <2>1. u \in Members(full.targets)
    BY <1>9 DEF FullDayRejected, JobsPrepared
  <2>2. Alone
    BY <1>2, <1>9, <2>1 DEF FullDayRejected
  <2>3. /\ full'.stage = full.stage /\ full'.targets = full.targets /\ full.stage # "match"
        /\ UNCHANGED <<own, process, drained, rollingCache>>
        /\ queue' = queue \cup ({u} \cap Configured)
    BY <1>9 DEF FullDayRejected, Enqueue, configVars, dataVars, filterVars, ControlOK, Full
  <2>4. \A t \in Targets : t \in queue'
    BY <1>3, <2>2, <2>3 DEF Alone
  <2>5. FullResolved'
    BY <2>3, FullKeepsResolved DEF HiddenInv
  <2> QED BY <2>4, <2>5 DEF HiddenOf, Attended, Waiting
<1>10. ASSUME NEW d \in Days, NEW u \in Targets, FullDayFails(d, u) PROVE FALSE
  <2>1. full.targets[u] # None
    BY <1>10 DEF FullDayFails, JobsPrepared, Members
  <2> QED BY <1>1, <1>10, <2>1 DEF FullDayFails, HiddenInv, FullResolved
<1>11. ASSUME FullPassSaved PROVE FullResolved' /\ \A t \in Targets : HiddenOf(t)'
  <2>1. /\ full.stage \in Rebuilding /\ full'.stage \in Rebuilding
        /\ full'.targets = full.targets /\ full'.failed = full.failed
        /\ UNCHANGED <<own, process, queue, drained, rollingCache>>
    BY <1>11 DEF FullPassSaved, configVars, filterVars, queueVars, ControlOK, Full, Rebuilding
  <2>2. FullResolved'
    BY <2>1, FullKeepsResolved DEF HiddenInv, Rebuilding
  <2> QED BY <1>4, <1>5, <2>1, <2>2 DEF Attended, Underway, Rebuilding
<1>12. ASSUME FullMark PROVE FullResolved' /\ \A t \in Targets : HiddenOf(t)'
  <2>1. /\ full.stage = "mark" /\ full'.stage \in {"shown", "finish"}
        /\ full'.targets = full.targets
        /\ rollingCache'.pending = Only(Targets \ Rebuilt, rollingCache.pending)
        /\ UNCHANGED <<own, process, queue, drained>>
    BY <1>12 DEF FullMark, configVars, queueVars, DataOK, Cache, ControlOK, Full
  <2>2. FullResolved'
    BY <2>1, FullKeepsResolved DEF HiddenInv
  <2>3. ASSUME NEW t \in Targets, rollingCache'.pending[t] # None
        PROVE  rollingCache.pending[t] # None /\ ~Underway(t)
    BY <2>1, <2>3 DEF Only, Underway, Rebuilding, Rebuilt, Members
  <2> QED BY <1>4, <1>5, <2>1, <2>2, <2>3
<1>13. ASSUME FullUnmarked PROVE FullResolved' /\ \A t \in Targets : HiddenOf(t)'
  <2>1. ~Complete /\ full.stage = "mark"
    BY <1>1, <1>13 DEF FullUnmarked
  <2>2. /\ full'.stage = "finish" /\ full'.targets = full.targets
        /\ queue' = queue \cup (Superseded \cap Configured)
        /\ UNCHANGED <<own, process, drained, rollingCache>>
    BY <1>13 DEF FullUnmarked, Enqueue, configVars, dataVars, filterVars, ControlOK, Full
  <2>3. ASSUME NEW t \in Targets, Underway(t) PROVE t \in queue'
    <3>1. Superseded # {}
      BY <2>1, <2>3 DEF Underway, Complete, Rebuilding
    <3>2. Alone
      BY <1>2, <3>1 DEF Superseded
    <3>3. t \in Superseded
      BY <3>1, <3>2 DEF Superseded, Members, Alone
    <3> QED BY <1>3, <2>2, <3>2, <3>3
  <2>4. FullResolved'
    BY <2>2, FullKeepsResolved DEF HiddenInv
  <2> QED BY <1>4, <1>5, <2>2, <2>3, <2>4 DEF Attended, Waiting
<1>14. ASSUME FullFinish PROVE FullResolved' /\ \A t \in Targets : HiddenOf(t)'
  <2>1. /\ full.stage = "finish" /\ full'.targets = NoTargets /\ full'.stage = "idle"
        /\ UNCHANGED <<own, process, queue, drained, rollingCache>>
    BY <1>14 DEF FullFinish, NoFull, configVars, dataVars, filterVars, queueVars
  <2>2. FullResolved'
    BY <2>1, FullKeepsResolved DEF HiddenInv
  <2>3. \A t \in Targets : ~Underway(t)
    BY <2>1 DEF Underway, Rebuilding
  <2> QED BY <1>4, <1>5, <2>1, <2>2, <2>3
<1>17. ASSUME FullPurge PROVE FullResolved' /\ \A t \in Targets : HiddenOf(t)'
  <2>1. /\ full.stage = "reset" /\ full'.stage = "past" /\ full'.targets = full.targets
        /\ full'.failed = full.failed /\ UNCHANGED <<own, process, queue, drained, rollingCache>>
    BY <1>17 DEF FullPurge, ListDays, configVars, queueVars, ControlOK, Full
  <2>2. FullResolved'
    BY <2>1, FullKeepsResolved DEF HiddenInv
  <2> QED BY <1>4, <1>5, <2>1, <2>2 DEF Attended, Underway, Rebuilding
<1>18. ASSUME FullShown PROVE FullResolved' /\ \A t \in Targets : HiddenOf(t)'
  <2>1. /\ full.stage = "shown" /\ full'.stage = "finish" /\ full'.targets = full.targets
        /\ UNCHANGED <<own, process, queue, drained, rollingCache>>
    BY <1>18 DEF FullShown, configVars, queueVars, ControlOK, Full
  <2>2. FullResolved'
    BY <2>1, FullKeepsResolved DEF HiddenInv
  <2> QED BY <1>4, <1>5, <2>1, <2>2 DEF Underway, Rebuilding
<1>16. worker' = worker \/ (worker' = "poll" /\ worker = "off")
  BY DEF FullStep, FullMatch, FullPurge, FullPassSaved, FullMark, FullShown, FullUnmarked,
    FullFinish, FullPrepare, Rebuild, FullDay, FullDayRejected, FullDayFails, Enqueue, queueVars
<1> QED BY <1>6, <1>7, <1>8, <1>9, <1>10, <1>11, <1>12, <1>13, <1>14, <1>15, <1>16, <1>17, <1>18
      DEF FullStep, Rebuild

LEMMA HiddenStep ==
  TypeInv /\ PurgeInv /\ FreshInv /\ SteadyHidden /\ [Next]_vars => SteadyHidden'
<1> SUFFICES ASSUME TypeInv, PurgeInv, FreshInv, HiddenInv, [Next]_vars, Untroubled,
                    Untroubled'
             PROVE  HiddenInv'
  <2>1. ASSUME TypeInv, [Next]_vars, Untroubled' PROVE Untroubled
    <3>1. spent.faults = 0
      BY <2>1, SpentGrows DEF SpentMore, Untroubled, TypeInv, TypeOK, ControlOK, Spent
    <3>2. ASSUME Unedited', spent'.puts = 0 PROVE Unedited /\ spent.puts = 0
      BY <2>1, <3>2, UneditedBefore
    <3> QED BY <2>1, <3>1, <3>2 DEF Untroubled, Alone
  <2> QED BY <2>1 DEF SteadyHidden
<1> USE DEF TypeInv, TypeOK
<1>1. spent'.faults = 0 /\ \A t \in Targets : HiddenOf(t)
  BY DEF Untroubled, HiddenInv
<1>2. rollingCache.fingerprints \in Filters
  BY DEF DataOK, Cache
<1>3. Alone' = Alone
  BY DEF Alone
<1>4. ASSUME own' = own, HeldToStart', FullResolved', \A t \in Targets : HiddenOf(t)'
      PROVE  HiddenInv'
  BY <1>3, <1>4 DEF HiddenInv
<1>6. ASSUME ~Restart, own' = own, NEW t \in Targets, own'[t] # None, Asking(t)
      PROVE  Attended(t)'
  BY <1>6, AskingAttended
<1>5. ASSUME ~Restart, UNCHANGED <<own, full, drained, worker>>, queue \subseteq queue',
             process' # "down" => process # "down", rollingCache'.pending = rollingCache.pending
      PROVE  HiddenInv'
  <2>1. HeldToStart' /\ FullResolved'
    BY <1>5 DEF HiddenInv, HeldToStart, FullResolved
  <2>2. \A t \in Targets : HiddenOf(t)'
    BY <1>1, <1>5, <1>6, HiddenKept DEF Waiting
  <2> QED BY <1>4, <1>5, <2>1, <2>2
<1>7. ASSUME ~Restart, UNCHANGED <<own, process, full, queue, worker, drained>>,
             NEW recorded \in Filters, NEW fps \in Filters, InvalidateFrom(recorded, fps),
             \A t \in Prepared(fps) : Asking(t)'
      PROVE  HiddenInv'
  <2>1. HeldToStart' /\ FullResolved'
    BY <1>7 DEF HiddenInv, HeldToStart, FullResolved
  <2>2. \A t \in Targets : HiddenOf(t)'
    BY <1>1, <1>6, <1>7, HiddenReset
  <2> QED BY <1>4, <1>7, <2>1, <2>2
<1>20. ASSUME ~Restart, NEW o, Request(o), UNCHANGED <<own, process, rollingCache>>
       PROVE  HiddenInv'
  <2>1. HeldToStart'
    BY <1>20, RequestHolds DEF HiddenInv
  <2>2. full'.targets = full.targets /\ (full'.stage = "match" => full' = full)
    BY <1>20 DEF Request, Start, ControlOK, Full
  <2>3. FullResolved'
    BY <2>2, FullKeepsResolved DEF HiddenInv
  <2>4. \A t \in Targets : HiddenOf(t)'
    BY <1>1, <1>6, <1>20, RequestAttends DEF HiddenOf, Attended
  <2> QED BY <1>4, <1>20, <2>1, <2>3, <2>4
<1>8. CASE Environment
  <2>1. CASE Settings
    <3> PICK g \in GlobalChoices, o \in [Targets -> {None} \cup OwnChoices] :
          PutTargets(g, o) \/ ReloadConfig(g, o)
      BY <2>1 DEF Settings
    <3>1. Alone
      <4>1. ~(Unedited' /\ spent'.puts = 0)
        BY DEF PutTargets, ReloadConfig, Spend, Unedited, ControlOK, Spent
      <4> QED BY <1>3, <4>1 DEF Untroubled
    <3>2. /\ UNCHANGED <<process, rollingCache, cycle, full, queue, worker, drained>>
          /\ own' = o /\ Members(o) # {} /\ put.stage = "idle"
      BY DEF PutTargets, ReloadConfig, NewConfig, UpdateUnlocked, dataVars, filterVars,
        requestVars, queueVars
    <3>3. \A t \in Targets : own'[t] # None /\ own[t] # None
      BY <3>1, <3>2 DEF Alone, Members, HiddenInv
    <3>4. Members(full.own)' = Members(full.own)
      BY <3>2 DEF Members
    <3>5. \A t \in Targets : HiddenOf(t)'
      BY <1>1, <3>2, <3>3, <3>4 DEF HiddenOf, Attended, Asking, Waiting, Underway
    <3>6. HeldToStart' /\ FullResolved'
      BY <3>2 DEF HiddenInv, HeldToStart, FullResolved
    <3> QED BY <3>3, <3>5, <3>6 DEF HiddenInv
  <2>2. CASE DefinitionChange \/ CatalogExpire
    BY <1>5, <2>2 DEF DefinitionChange, CatalogExpire, Restart, configVars, dataVars, filterVars,
      requestVars, queueVars
  <2>3. CASE ManualReconcile
    <3>1. /\ full'.stage = "prepare" /\ full'.own = NoTargets /\ full'.targets = full.targets
          /\ UNCHANGED <<own, process, drained, worker>>
      BY <2>3 DEF ManualReconcile, Start, configVars, queueVars, ControlOK, Full
    <3>2. \A t \in Targets : HiddenOf(t)'
      BY <3>1 DEF HiddenOf, Attended, Underway, Members, NoTargets
    <3>3. HeldToStart' /\ FullResolved'
      BY <3>1 DEF HiddenInv, HeldToStart, FullResolved
    <3> QED BY <1>4, <3>1, <3>2, <3>3
  <2>4. CASE Restart
    <3>1. /\ process' = "down" /\ full' = NoFull /\ drained' = NoTargets /\ own' = own
      BY <2>4 DEF Restart, configVars
    <3>2. HeldToStart' /\ FullResolved' /\ \A t \in Targets : HiddenOf(t)'
      BY <3>1 DEF HeldToStart, FullResolved, HiddenOf, NoFull, NoTargets
    <3> QED BY <1>4, <3>1, <3>2
  <2> QED BY <1>8, <2>1, <2>2, <2>3, <2>4 DEF Environment
<1>9. CASE Startup
  <2> PICK ok \in BOOLEAN : Boot(ok)
    BY <1>9 DEF Startup
  <2> PICK fps : fps = Prepare(global, own, ok)
    OBVIOUS
  <2> DEFINE due == {t \in Prepared(fps) : \/ rollingCache.pending[t] # None
                                           \/ MarkerKey(t, fps[t]) \notin marker}
  <2>1. /\ UNCHANGED <<own, rollingCache>> /\ ReadCatalog(fps, ok)
        /\ Request(Only(due, own))
    BY DEF Boot, configVars, dataVars, filterVars
  <2>2. ASSUME NEW t \in Targets, own[t] # None, rollingCache.pending[t] # None
        PROVE  Attended(t)'
    <3>1. fps[t] # None
      <4>1. own \in Exclusions /\ global \in SUBSET Selectors
        BY DEF ConfigOK
      <4> QED BY <2>2, <4>1, PrepareType DEF Members
    <3>2. fps[t].ver # Unresolved
      BY <1>1, <2>1, <3>1, Resolves
    <3>3. t \in due
      BY <2>2, <3>1, <3>2 DEF Prepared, Members
    <3>4. Only(due, own)[t] # None
      BY <2>2, <3>3 DEF Only
    <3> HIDE DEF due
    <3> QED BY <2>1, <3>4, RequestAttends
  <2>3. \A t \in Targets : HiddenOf(t)'
    BY <2>1, <2>2 DEF HiddenOf
  <2> HIDE DEF due
  <2>4. HeldToStart'
    BY <2>1, RequestHolds DEF HiddenInv
  <2>5. full'.targets = full.targets /\ (full'.stage = "match" => full' = full)
    BY <2>1 DEF Request, Start, ControlOK, Full
  <2>6. FullResolved'
    BY <2>5, FullKeepsResolved DEF HiddenInv
  <2> QED BY <1>4, <2>1, <2>3, <2>4, <2>6
<1>10. CASE PutStep
  <2>1. CASE PutInvalidate
    <3>1. /\ put.affected \in Filters /\ Invalidate(put.affected) /\ ~Restart
          /\ put'.stage = "hidden" /\ put'.affected = put.affected
          /\ UNCHANGED <<own, process, full, queue, worker, drained>>
      BY <2>1 DEF PutInvalidate, Restart, NoPut, configVars, requestVars, queueVars, ControlOK, Put
    <3>2. \A t \in Prepared(put.affected) : Asking(t)'
      BY <3>1 DEF Prepared, Members, Asking
    <3> QED BY <1>2, <1>7, <3>1, <3>2 DEF Invalidate
  <2>2. CASE PutPurge
    <3> PICK o : o = Only(Members(put.affected), own)
      OBVIOUS
    <3>1. /\ Request(o) /\ UNCHANGED <<own, process, rollingCache>> /\ ~Restart
      BY <2>2 DEF PutPurge, Restart, configVars
    <3> QED BY <1>20, <3>1
  <2> QED BY <1>10, <2>1, <2>2 DEF PutStep
<1>11. CASE CycleStart
  <2> PICK ok \in BOOLEAN : CycleFreeze(ok)
    BY <1>11 DEF CycleStart
  <2>1. /\ UNCHANGED <<own, full, drained, worker, queue, rollingCache>> /\ process # "down"
        /\ ~Restart
    BY DEF CycleFreeze, Restart, configVars, dataVars, filterVars, requestVars, queueVars
  <2> QED BY <1>5, <2>1
<1>12. CASE CycleDetect
  <2> DEFINE fps == Only(ChangedTargets, cycle.targets)
  <2>1. Recorded \in Filters /\ fps \in Filters
    BY DEF SeenFilters, Recorded, Override, Only, Filters, Partial, DataOK, Cache, ControlOK, Cycle
  <2>2. /\ InvalidateFrom(Recorded, fps) /\ cycle.stage = "frozen" /\ ~Restart
        /\ cycle'.stage = (IF ChangedTargets = {} THEN "collect" ELSE "reset")
        /\ cycle'.own = Only(ChangedTargets, cycle.own)
        /\ UNCHANGED <<own, process, full, queue, worker, drained>>
    BY <1>12 DEF CycleDetect, Restart, NoCycle, configVars, requestVars, queueVars, ControlOK, Cycle
  <2>3. ASSUME NEW t \in Prepared(fps) PROVE Asking(t)'
    <3>1. t \in Targets /\ t \in ChangedTargets /\ cycle.targets[t] # None
      BY DEF Prepared, Only, Members
    <3>2. cycle.own[t] # None
      BY <2>2, <3>1 DEF PurgeInv, Members
    <3> QED BY <2>2, <3>1, <3>2 DEF Asking, Only
  <2> HIDE DEF fps
  <2> QED BY <1>7, <2>1, <2>2, <2>3
<1>22. CASE CyclePurge
  <2>1. Request(cycle.own) /\ UNCHANGED <<own, process, rollingCache>> /\ ~Restart
    BY <1>22 DEF CyclePurge, Restart, configVars
  <2> QED BY <1>20, <2>1
<1>13. ASSUME NEW t \in Targets, Collect(t) PROVE HiddenInv'
  <2>1. process' = process /\ own' = own
    BY <1>13 DEF Collect, StartQuery, QueryFails, CommitQuery, CountQuery, AcceptResult,
      Supersede, PurgeQuery, RejectQuery, RejectResult, configVars
  <2>2. ~Restart
    BY <2>1 DEF Restart
  <2>3. CASE Supersede(t)
    <3> DEFINE fps == [u \in Targets |-> IF u = t THEN cycle.late[t].fp ELSE None]
    <3>1. cycle.late[t] \in [own : SUBSET Selectors, fp : Fingerprint]
      BY <2>3 DEF Supersede, Step, StepsPrepared, Replacing, ControlOK, Cycle, Partial
    <3>2. fps \in Filters
      BY <3>1 DEF Partial, Filters
    <3>3. cycle'.step[t] = "hidden"
      BY <2>3 DEF Supersede, Step, ControlOK, Cycle
    <3>4. \A u \in Prepared(fps) : Asking(u)'
      BY <3>3 DEF Prepared, Members, Asking
    <3> HIDE DEF fps
    <3>5. Invalidate(fps) /\ UNCHANGED <<full, queue, worker, drained>>
      BY <2>3 DEF Supersede, fps, requestVars, queueVars
    <3> QED BY <1>2, <1>7, <2>1, <2>2, <3>2, <3>4, <3>5 DEF Invalidate
  <2>4. ASSUME NEW ok \in BOOLEAN, RejectQuery(t, ok) PROVE HiddenInv'
    <3> PICK prepared : prepared = Prepare(global, own, ok)
      OBVIOUS
    <3> DEFINE fps == Only({t}, prepared)
    <3>1. own \in Exclusions /\ global \in SUBSET Selectors
      BY DEF ConfigOK
    <3>2. prepared \in Filters
      BY <3>1, PrepareType
    <3>3. fps \in Filters
      BY <3>2, OnlyType DEF Filters
    <3>4. \A u \in Prepared(fps) : u = t
      BY DEF Prepared, Members, Only
    <3> HIDE DEF fps
    <3>5. Invalidate(fps) /\ cycle' = Replaced(t, fps, "rejected")
          /\ UNCHANGED <<full, queue, worker, drained>>
      BY <2>4 DEF RejectQuery, fps, requestVars, queueVars
    <3>6. t \in Prepared(fps) => cycle'.step[t] = "rejected"
      BY <3>5 DEF Replaced, ControlOK, Cycle
    <3>7. \A u \in Prepared(fps) : Asking(u)'
      BY <3>4, <3>6 DEF Asking
    <3> QED BY <1>2, <1>7, <2>1, <2>2, <3>3, <3>5, <3>7 DEF Invalidate
  <2>5. CASE \/ StartQuery(t) \/ QueryFails(t) \/ CommitQuery(t) \/ CountQuery(t)
             \/ AcceptResult(t) \/ \E ok \in BOOLEAN : RejectResult(t, ok)
    <3>1. UNCHANGED <<full, drained, worker, queue, rollingCache>>
      BY <2>5 DEF StartQuery, QueryFails, CommitQuery, CountQuery, AcceptResult, RejectResult,
        configVars, dataVars, filterVars, requestVars, queueVars
    <3> QED BY <1>5, <2>1, <2>2, <3>1
  <2>6. CASE PurgeQuery(t)
    <3> PICK o : Request(o)
      BY <2>6 DEF PurgeQuery
    <3>1. rollingCache' = rollingCache
      BY <2>6 DEF PurgeQuery
    <3> QED BY <1>20, <2>1, <2>2, <3>1
  <2> QED BY <1>13, <2>3, <2>4, <2>5, <2>6 DEF Collect
<1>14. CASE CycleCommit \/ CyclePublish
  <2>1. /\ UNCHANGED <<own, process, full, drained, worker, queue>>
        /\ rollingCache'.pending = rollingCache.pending
    BY <1>14 DEF CycleCommit, CyclePublish, UpdateRolling, configVars, requestVars, queueVars,
      DataOK, Cache
  <2> QED BY <1>5, <2>1 DEF Restart
<1>15. ASSUME NEW t \in Targets, Previous(t) PROVE HiddenInv'
  <2>1. CASE PreviousRejected(t)
    <3> PICK o : Request(o)
      BY <2>1 DEF PreviousRejected
    <3>1. UNCHANGED <<own, process, rollingCache>>
      BY <2>1 DEF PreviousRejected, configVars, dataVars, filterVars
    <3> QED BY <1>20, <3>1 DEF Restart
  <2>2. CASE PreviousWrite(t) \/ PreviousFails(t) \/ PreviousMark(t)
    <3>1. UNCHANGED <<own, process, full, drained, worker, queue, rollingCache>>
      BY <2>2 DEF PreviousWrite, PreviousFails, PreviousMark, configVars, dataVars, filterVars,
        requestVars, queueVars
    <3> QED BY <1>5, <3>1 DEF Restart
  <2> QED BY <1>15, <2>1, <2>2 DEF Previous
<1>16. CASE FullStep
  <2>1. /\ FullResolved' /\ UNCHANGED <<own, drained>>
        /\ (worker' = worker \/ (worker' = "poll" /\ worker = "off"))
        /\ \A t \in Targets : HiddenOf(t)'
    BY <1>1, <1>16, HiddenFull DEF configVars
  <2>2. HeldToStart'
    BY <2>1 DEF HiddenInv, HeldToStart
  <2> QED BY <1>4, <2>1, <2>2
<1>17. CASE WorkerDrain
  <2>1. /\ UNCHANGED <<own, process, rollingCache, put, cycle, full>>
        /\ worker = "poll" /\ full.stage = "idle" /\ drained' = Only(queue, own)
        /\ worker' = IF queue = {} THEN "off"
                     ELSE IF queue \cap Configured = {} THEN "poll" ELSE "start"
    BY <1>17 DEF WorkerDrain, configVars, dataVars, filterVars
  <2>2. HeldToStart'
    BY <2>1 DEF HeldToStart, Only, NoTargets, Configured, Members
  <2>3. ASSUME NEW t \in Targets, own[t] # None, Waiting(t) \/ Underway(t) PROVE Waiting(t)'
    <3>1. drained = NoTargets
      BY <2>1 DEF HiddenInv, HeldToStart
    <3>2. t \in queue
      BY <2>1, <2>3, <3>1 DEF Waiting, Underway, Rebuilding, NoTargets
    <3> QED BY <2>1, <2>3, <3>2 DEF Waiting, Only
  <2>4. \A t \in Targets : HiddenOf(t)'
    BY <1>1, <2>1, <2>3 DEF HiddenOf, Attended, Asking
  <2>5. FullResolved'
    BY <2>1 DEF HiddenInv, FullResolved
  <2> QED BY <1>4, <2>1, <2>2, <2>4, <2>5
<1>18. CASE WorkerStart
  <2>1. /\ UNCHANGED <<own, process, rollingCache, put, cycle>> /\ drained' = NoTargets
        /\ full'.targets = full.targets
        /\ \/ /\ full.stage = "idle" /\ full'.stage = "prepare" /\ full'.own = drained
              /\ queue' = queue
           \/ full' = full /\ queue' = queue \cup Members(drained)
    BY <1>18 DEF WorkerStart, Start, configVars, dataVars, filterVars, ControlOK, Full
  <2>2. HeldToStart' /\ FullResolved'
    BY <2>1 DEF HiddenInv, HeldToStart, FullResolved
  <2>3. ASSUME NEW t \in Targets, Waiting(t) \/ Underway(t) PROVE Waiting(t)' \/ Underway(t)'
    <3>1. CASE full.stage = "idle" /\ full'.stage = "prepare" /\ full'.own = drained /\ queue' = queue
      BY <2>3, <3>1 DEF Waiting, Underway, Rebuilding
    <3>2. CASE full' = full /\ queue' = queue \cup Members(drained)
      <4>1. Underway(t) => Underway(t)'
        BY <2>1, <3>2 DEF Underway, Members
      <4> QED BY <2>3, <3>2, <4>1 DEF Waiting, Members
    <3> QED BY <2>1, <3>1, <3>2
  <2>4. \A t \in Targets : HiddenOf(t)'
    BY <1>1, <2>1, <2>3 DEF HiddenOf, Attended, Asking
  <2> QED BY <1>4, <2>1, <2>2, <2>4
<1>19. CASE UNCHANGED vars
  BY <1>5, <1>19 DEF Restart, vars, configVars, dataVars, filterVars, requestVars, queueVars
<1> QED BY <1>8, <1>9, <1>10, <1>11, <1>12, <1>13, <1>14, <1>15, <1>16, <1>17, <1>18, <1>19,
      <1>22 DEF Next, CycleRest, WorkerStep

(* As long as no query fails, history of the only target - or of any, if   *)
(* the settings stay as they are - is hidden only while a rebuild of it    *)
(* waits or runs, across definition changes, crashes, and requests made at *)
(* the same time: property NothingForgotten.                               *)
THEOREM Remembered == Spec => [](Untroubled => NothingForgotten)
<1>1. SteadyHidden /\ RequestServed => (Untroubled => NothingForgotten)
  <2> SUFFICES ASSUME HiddenInv, RequestServed PROVE NothingForgotten
    BY DEF SteadyHidden
  <2> QED BY DEF HiddenInv, HiddenOf, Attended, Asking, Waiting, Underway, Rebuilding,
        NothingForgotten, HiddenServed, BeingRebuilt, Purging, Configured, Members
<1> QED BY <1>1, Served, TypeInit, TypeStep, PurgeInit, PurgeStep, FreshInit, FreshStep, HiddenInit,
      HiddenStep, PTL DEF Spec
=============================================================================
