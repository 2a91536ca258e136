------------------------- MODULE BlockedAccounting -------------------------
(***************************************************************************)
(* How blocked flows become numbers (src/main.go): the collection windows, *)
(* the deduplication of flow samples, the rolling buckets and the 24-hour  *)
(* view, the accumulation into days, the reconciles that replace a day by  *)
(* what the PCE answers for it, and what of all this survives a restart.   *)
(* One target: LastCycle is shared, but each cycle moves it whether or not *)
(* the target's query succeeded.  Time is a number of refresh intervals;   *)
(* the flows blocked in the interval ending at t are detected "at t".      *)
(* Database and PCE are external: a query answers exactly for its window.  *)
(***************************************************************************)
EXTENDS Integers, FiniteSets

CONSTANTS
  Flows,        \* flow signatures
  None,
  Window,       \* 24 hours, and the length of a local day
  MaxGap,       \* 30 minutes: an older LastCycle is not caught up from
  Modes,        \* the configurations to consider, see mode
  KeepDays,     \* HistoryDays
  MaxTime,      \* bound: the clock
  MaxEach,      \* bound: troubles of each kind
  MaxTrouble    \* bound: all of them together

ASSUME FlowsAssumption == IsFiniteSet(Flows)
ASSUME TimeAssumption ==
  /\ {Window, MaxGap, KeepDays, MaxTime} \subseteq Nat \ {0}
  /\ {MaxEach, MaxTrouble} \subseteq Nat
  /\ MaxGap < Window /\ Window < MaxTime

(* A failed query or save, a query the rate controller reduces, a full     *)
(* reconcile, a restart.                                                   *)
Troubles == {"faults", "pressure", "jobs", "crashes"}
ASSUME ModeAssumption ==
  Modes \subseteq [backend : {"sqlite", "memory"}, hosts : BOOLEAN, may : SUBSET Troubles]
ASSUME NoneAssumption == None \notin Int

VARIABLES
  mode,      \* BlockedRollingDedupeBackend, BlockedHostMetricsEnabled; which
             \* troubles the behaviour may meet
  now,
  detected,  \* the flows blocked in the interval ending at each time (PCE)
  rolling,   \* rollingCache: Initialized, LastCycle, BaselineBlocked, Buckets
  seen,      \* blocked_flow_seen or BlockedFlowLastSeen of the target
  tracked,   \* BlockedFlowLastSeen has the target (memory backend)
  hosts5m,   \* blocked_hosts_5m: connections by row time
  days,      \* blockedDaily, blockedDaily5mCaptured, blockedHostsDaily
  disk,      \* their saved copies, and rolling's
  reseed,    \* startupHostReseedPending
  doneDay,   \* the day reconcileDoneByT says is done, for the target
  cycle,     \* getIllumioStats in progress: the blocked-traffic part
  job,       \* startFullBlockedHistoryReconcileAsync in progress
  view,      \* the 24-hour number last computed
  applied,   \* history: times whose detections are in seen
  settled,   \* history: days whose reconcile was saved after they ended
  late,      \* history: days a full reconcile wrote after they ended
  spent      \* the troubles met, of each kind

env == <<mode, now, detected>>
store == <<rolling, seen, tracked, hosts5m, days>>
ghosts == <<applied, settled, late>>
vars == <<env, store, disk, reseed, doneDay, cycle, job, view, ghosts, spent>>

-----------------------------------------------------------------------------
Backend == mode.backend
HostMetrics == mode.hosts

Times == Window .. MaxTime
DayOf(t) == t \div Window      \* localDayStart
DaySet == 0 .. DayOf(MaxTime)
DayStart(d) == d * Window
DayTimes(d) == DayStart(d) + 1 .. DayStart(d + 1)

Most(S) == CHOOSE x \in S : \A y \in S : y <= x

(* The detections of a flow in a set of times, and the number of flows     *)
(* that have one: the count of an answer of the PCE.                       *)
Hits(f, ts) == {t \in ts \cap DOMAIN detected : f \in detected[t]}
Answer(ts) == {f \in Flows : Hits(f, ts) # {}}
Count(ts) == Cardinality(Answer(ts))

(* The sum of a function to numbers.                                       *)
Total(fn) == Cardinality(UNION {{k} \X (1 .. fn[k]) : k \in DOMAIN fn})

Extend(fn, k, v) == [x \in DOMAIN fn \cup {k} |-> IF x = k THEN v ELSE fn[x]]
Entry(fn, k) == IF k \in DOMAIN fn /\ fn[k] # None THEN fn[k] ELSE 0
Plus(fn, k, n) == Extend(fn, k, Entry(fn, k) + n)
Drop(fn, S) == [x \in DOMAIN fn \ S |-> fn[x]]

Meet(what) ==
  /\ what \in mode.may /\ spent[what] < MaxEach /\ Total(spent) < MaxTrouble
  /\ spent' = [spent EXCEPT ![what] = @ + 1]
Fault == Meet("faults")

-----------------------------------------------------------------------------
(* Deduplication *)

(* latestBlockedFlowSamplesBySignature, of an answer for the times ts.     *)
Sample(f, ts) == [last |-> Most(Hits(f, ts)), connections |-> Cardinality(Hits(f, ts))]

(* pruneBlockedFlowSeen: flows not detected in the last 24 hours go.       *)
Kept(known, at) == {f \in DOMAIN known : known[f].last > at - Window}

(* Faulty: a later detection without more connections is ignored.          *)
SupersedesByCount(sample, previous) == sample.connections > previous.connections

Supersedes(sample, previous) ==
  \/ sample.last > previous.last
  \/ sample.last = previous.last /\ sample.connections > previous.connections

(* applyBlockedFlowSamplesLocked and its SQLite form: what is known after  *)
(* an answer, the flows new in it, and the connections it adds to hosts.   *)
Known(known, ts, at) ==
  [f \in Kept(known, at) \cup Answer(ts) |->
     IF f \in Answer(ts) /\ (f \in Kept(known, at) => Supersedes(Sample(f, ts), known[f]))
     THEN Sample(f, ts) ELSE known[f]]

(* Faulty: a flow is new in every answer that has it.                      *)
NewAgain(known, ts, at) == Answer(ts)

NewFlows(known, ts, at) == Answer(ts) \ Kept(known, at)
Added(known, ts, at) ==
  LET before(f) == IF f \in Kept(known, at) THEN known[f].connections ELSE 0
      growth(f) == IF f \in NewFlows(known, ts, at) \/ Supersedes(Sample(f, ts), known[f])
                   THEN Sample(f, ts).connections - before(f) ELSE 0
  IN  Total([f \in Answer(ts) |-> growth(f)])

-----------------------------------------------------------------------------
(* Windows and view *)

(* blockedDeltaWindowStart: catch up from the last cycle unless it is too  *)
(* long ago.                                                               *)
DeltaStart == IF now - rolling.last > MaxGap THEN now - 1 ELSE rolling.last

Recent(fn, at) == Drop(fn, {t \in DOMAIN fn : t <= at - Window})

WarmingUp(state, at) == state.baseline # None /\ at - Window < state.baseline.at

(* What updateRollingAndBuildView shows for the target: while warming up   *)
(* the baseline and what came since, then the distinct flows known.        *)
Shown(state, known, has, at) ==
  IF WarmingUp(state, at)
  THEN state.baseline.count
       + Total(Drop(state.buckets, {t \in DOMAIN state.buckets : t <= state.baseline.at}))
  ELSE IF Backend = "sqlite" \/ has THEN Cardinality(Kept(known, at))
  ELSE Total(state.buckets)

(* pruneBlockedHistory, which saves at once what it changes.               *)
Expired(at) == {d \in DaySet : d < DayOf(at) - KeepDays}
Pruned(all, at) == [k \in DOMAIN all |-> Drop(all[k], Expired(at))]
SavedDays(all) == [k \in DOMAIN all |-> Drop(all[k], {d \in DOMAIN all[k] : all[k][d] = None})]
SavePruned(all, at) ==
  IF all = Pruned(all, at) THEN disk ELSE [disk EXCEPT !.days = SavedDays(Pruned(all, at))]

(* Saves log their failure and go on.                                      *)
Persist(new) ==
  \/ disk' = new /\ UNCHANGED spent
  \/ UNCHANGED disk /\ Fault

-----------------------------------------------------------------------------
Idle == [pc |-> "idle"]
Empty == [x \in {} |-> 0]
NoRolling == [initialized |-> FALSE, last |-> 0, baseline |-> None, buckets |-> Empty]
NoDays == [daily |-> Empty, captured |-> Empty, hosts |-> Empty]

Init ==
  /\ mode \in Modes
  /\ now = Window
  /\ detected = [t \in 1 .. MaxTime |-> {}]
  /\ rolling = NoRolling /\ days = NoDays
  /\ seen = Empty /\ tracked = FALSE /\ hosts5m = Empty
  /\ disk = [rolling |-> NoRolling, days |-> NoDays, settled |-> {}]
  /\ reseed = HostMetrics
  /\ doneDay = None
  /\ cycle = Idle /\ job = Idle /\ view = None
  /\ applied = {} /\ settled = {} /\ late = {}
  /\ spent = [what \in Troubles |-> 0]

(* An interval passes, with the flows blocked in it.  A cycle reads the    *)
(* clock when it starts only: what time passes after its query is left to  *)
(* pass when it has ended.                                                 *)
Tick ==
  /\ now < MaxTime /\ cycle.pc \in {"idle", "query"}
  /\ now' = now + 1
  /\ \E flows \in SUBSET Flows : detected' = [detected EXCEPT ![now + 1] = flows]
  /\ UNCHANGED <<mode, store, disk, reseed, doneDay, cycle, job, view, ghosts, spent>>

(* A baseline replaces the 24-hour hosts.                                  *)
ClearedHosts(when) == IF when THEN Empty ELSE hosts5m

(* The cycle reads the clock, its window and the startup reseed.           *)
StartCycle ==
  /\ cycle.pc = "idle" /\ rolling.last < now
  /\ LET fresh == reseed \/ rolling.baseline = None \/ ~rolling.initialized IN
     cycle' = [pc |-> "query", at |-> now, full |-> ~rolling.initialized, fresh |-> fresh,
               from |-> IF fresh THEN now - Window ELSE DeltaStart]
  /\ reseed' = FALSE
  /\ hosts5m' = ClearedHosts(reseed)
  /\ UNCHANGED <<env, rolling, seen, tracked, days, disk, doneDay, job, view, ghosts, spent>>

Asked == cycle.from + 1 .. cycle.at
Answered(ok, count, add) ==
  cycle' = [pc |-> "account", at |-> cycle.at, full |-> cycle.full, fresh |-> cycle.fresh,
            ok |-> ok, count |-> count, add |-> add]
ClearHosts == hosts5m' = ClearedHosts(cycle.fresh /\ HostMetrics)
ClearSeen == IF cycle.fresh /\ Backend = "sqlite" THEN Empty ELSE seen
ClearApplied == IF cycle.fresh /\ Backend = "sqlite" THEN {} ELSE applied

Raw(ts) == Total([f \in Answer(ts) |-> Cardinality(Hits(f, ts))])

(* collectBlockedTargetPaced: the PCE does not answer.                     *)
QueryFails ==
  /\ cycle.pc = "query" /\ Fault
  /\ Answered(FALSE, 0, 0)
  /\ UNCHANGED <<env, store, disk, reseed, doneDay, job, view, ghosts>>

(* Under pressure only the count is asked for, and nothing deduplicated.   *)
QueryCountOnly ==
  /\ cycle.pc = "query"
  /\ Meet("pressure")
  /\ ClearHosts
  /\ Answered(TRUE, Count(Asked), 0)
  /\ UNCHANGED <<env, rolling, seen, tracked, days, disk, reseed, doneDay, job, view, ghosts>>

(* The samples are deduplicated and what is new committed at once.  Hosts  *)
(* may be deferred under pressure; a baseline without any takes the raw    *)
(* counts.                                                                 *)
QueryDetailed ==
  /\ cycle.pc = "query"
  /\ LET add == Added(ClearSeen, Asked, cycle.at)
         hosts == IF cycle.fresh /\ add = 0 THEN Raw(Asked) ELSE add
         count == IF cycle.fresh THEN Count(Asked)
                  ELSE Cardinality(NewFlows(ClearSeen, Asked, cycle.at))
     IN  \/ Answered(TRUE, count, IF HostMetrics THEN hosts ELSE 0) /\ UNCHANGED spent
         \/ /\ HostMetrics /\ Meet("pressure")
            /\ Answered(TRUE, count, 0)
  /\ ClearHosts
  /\ seen' = Known(ClearSeen, Asked, cycle.at) /\ tracked' = TRUE
  /\ applied' = ClearApplied \cup Asked
  /\ UNCHANGED <<env, rolling, days, disk, reseed, doneDay, job, view, settled, late>>

(* The transaction fails: the query counts as answered, with nothing new.  *)
DedupeFails ==
  /\ cycle.pc = "query" /\ Backend = "sqlite" /\ Fault
  /\ ClearHosts
  /\ IF cycle.fresh THEN Answered(TRUE, Count(Asked), IF HostMetrics THEN Raw(Asked) ELSE 0)
     ELSE Answered(TRUE, 0, 0)
  /\ seen' = ClearSeen /\ applied' = ClearApplied
  /\ UNCHANGED <<env, rolling, tracked, days, disk, reseed, doneDay, job, view, settled, late>>

(* updateRollingAndBuildView and accumulateBlockedHistoryFromCycle, under  *)
(* configUpdateMu.  The very first cycle forgets the flows it just learnt; *)
(* a baseline is not part of a bucket or of the day, its hosts are.        *)
Account ==
  /\ cycle.pc = "account"
  /\ LET at == cycle.at
         day == DayOf(at)
         counted == cycle.ok /\ ~cycle.fresh
         count == IF counted THEN cycle.count ELSE 0
         old == IF cycle.full THEN NoRolling ELSE rolling
         state ==
           [initialized |-> TRUE, last |-> at,
            baseline |-> IF cycle.ok /\ cycle.fresh THEN [count |-> cycle.count, at |-> at]
                         ELSE old.baseline,
            buckets |-> Recent(Extend(old.buckets, at, count), at)]
         known == IF cycle.full THEN Empty ELSE seen
         has == tracked /\ ~cycle.full
         Add(fn, n) == IF counted \/ n > 0
                       THEN IF n > 0 THEN Plus(fn, day, n)
                            ELSE Extend(fn, day, IF day \in DOMAIN fn THEN fn[day] ELSE None)
                       ELSE fn
         added == [daily |-> Add(days.daily, count), captured |-> Add(days.captured, count),
                   hosts |-> IF cycle.add > 0 THEN Plus(days.hosts, day, cycle.add) ELSE days.hosts]
     IN  /\ rolling' = state
         /\ seen' = IF WarmingUp(state, at) THEN known
                    ELSE [f \in Kept(known, at) |-> known[f]]
         /\ tracked' = has
         /\ applied' = IF cycle.full THEN {} ELSE applied
         /\ view' = [at |-> at, warm |-> WarmingUp(state, at),
                     n |-> Shown(state, known, has, at),
                     whole |-> at - Window + 1 .. at \subseteq applied']
         /\ days' = Pruned(added, at)
         /\ disk' = SavePruned(added, at)
         /\ hosts5m' = IF cycle.add = 0 THEN hosts5m
                       ELSE Drop(Extend(hosts5m, at, cycle.add),
                                 {t \in DOMAIN hosts5m : t < at - Window})
         /\ cycle' = [pc |-> IF count > 0 THEN "daily" ELSE IF cycle.add > 0 THEN "hosts"
                             ELSE "previous", at |-> at, add |-> cycle.add]
  /\ UNCHANGED <<env, reseed, doneDay, job, settled, late, spent>>

SaveDays(kind) ==
  [disk EXCEPT !.days[kind] = SavedDays(days)[kind],
               !.settled = IF kind = "daily" THEN settled ELSE @]

(* The three saves that follow, each of its own value.                     *)
SaveCycle ==
  /\ cycle.pc \in {"daily", "captured", "hosts"}
  /\ Persist(SaveDays(cycle.pc))
  /\ cycle' = [cycle EXCEPT !.pc =
                 CASE @ = "daily" -> "captured"
                   [] @ = "captured" /\ cycle.add > 0 -> "hosts"
                   [] OTHER -> "previous"]
  /\ UNCHANGED <<env, store, reseed, doneDay, job, view, ghosts>>

(* Faulty: a day too early; the day that has just begun.                   *)
TwoDaysBefore(at) == DayOf(at) - 2
SameDay(at) == DayOf(at)

PreviousDay(at) == DayOf(at) - 1

(* reconcilePreviousDayBlockedHistory: once a day per process, the PCE is  *)
(* asked for the whole previous day.                                       *)
ReconcilePrevious ==
  /\ cycle.pc = "previous"
  /\ LET day == PreviousDay(cycle.at) IN
     \/ /\ doneDay = day
        /\ cycle' = [cycle EXCEPT !.pc = "publish"]
        /\ UNCHANGED <<days, disk, doneDay, settled, spent>>
     \/ /\ doneDay # day
        /\ doneDay' = day
        /\ settled' = settled \cup {day}
        /\ LET new == [days EXCEPT !.daily = Extend(@, day, Count(DayTimes(day)))]
           IN  days' = Pruned(new, cycle.at) /\ disk' = SavePruned(new, cycle.at)
        /\ cycle' = [cycle EXCEPT !.pc = "settle"]
        /\ UNCHANGED spent
     \/ /\ doneDay # day
        /\ doneDay' = None /\ Fault
        /\ days' = Pruned(days, cycle.at) /\ disk' = SavePruned(days, cycle.at)
        /\ cycle' = [cycle EXCEPT !.pc = "publish"]
        /\ UNCHANGED settled
  /\ UNCHANGED <<env, rolling, seen, tracked, hosts5m, reseed, job, view, applied, late>>

SavePrevious ==
  /\ cycle.pc = "settle"
  /\ Persist(SaveDays("daily"))
  /\ cycle' = [cycle EXCEPT !.pc = "publish"]
  /\ UNCHANGED <<env, store, reseed, doneDay, job, view, ghosts>>

(* runCollectionCycle ends: saveRollingState.                              *)
Publish ==
  /\ cycle.pc = "publish"
  /\ Persist([disk EXCEPT !.rolling = rolling])
  /\ cycle' = Idle
  /\ UNCHANGED <<env, store, reseed, doneDay, job, view, ghosts>>

-----------------------------------------------------------------------------
(* startFullBlockedHistoryReconcileAsync: the clock is read once, for the  *)
(* stored days and for today.                                              *)
StartJob ==
  /\ job.pc = "idle"
  /\ Meet("jobs")
  /\ job' = [pc |-> "past", at |-> now, todo |-> DOMAIN days.daily \ {DayOf(now)},
             changed |-> FALSE]
  /\ UNCHANGED <<env, store, disk, reseed, doneDay, cycle, view, ghosts>>

(* reconcileAllStoredBlockedHistory, one day; a failed query skips it.     *)
ReconcileStored ==
  /\ job.pc = "past" /\ job.todo # {}
  /\ LET day == CHOOSE d \in job.todo : \A e \in job.todo : d <= e IN
     \/ /\ days' = [days EXCEPT !.daily = Extend(@, day, Count(DayTimes(day)))]
        /\ job' = [job EXCEPT !.todo = @ \ {day}, !.changed = TRUE]
        /\ UNCHANGED spent
     \/ /\ job' = [job EXCEPT !.todo = @ \ {day}]
        /\ UNCHANGED days /\ Fault
  /\ UNCHANGED <<env, rolling, seen, tracked, hosts5m, disk, reseed, doneDay, cycle, view, ghosts>>

(* The days are pruned, which saves what it changes, and saved.            *)
JobSaves(next) ==
  /\ days' = Pruned(days, job.at)
  /\ IF job.changed
     THEN Persist([SavePruned(days, job.at) EXCEPT !.days.daily = SavedDays(days').daily,
                                                    !.settled = settled])
     ELSE disk' = SavePruned(days, job.at) /\ UNCHANGED spent
  /\ job' = next
  /\ UNCHANGED <<env, rolling, seen, tracked, hosts5m, reseed, doneDay, cycle, view, ghosts>>

SaveStored == job.pc = "past" /\ job.todo = {} /\ JobSaves([job EXCEPT !.pc = "today", !.changed = FALSE])

(* reconcileCurrentDayBlockedHistory: the day the job began in, up to then.*)
ReconcileToday ==
  /\ job.pc = "today"
  /\ LET day == DayOf(job.at) IN
     \/ /\ DayStart(day) < job.at
        /\ days' = [days EXCEPT !.daily = Extend(@, day, Count(DayStart(day) + 1 .. job.at))]
        /\ late' = late \cup ({day} \cap settled)
        /\ job' = [job EXCEPT !.pc = "saveToday", !.changed = TRUE]
        /\ UNCHANGED spent
     \/ /\ DayStart(day) < job.at /\ Fault
        /\ job' = [job EXCEPT !.pc = "saveToday"]
        /\ UNCHANGED <<days, late>>
     \/ /\ DayStart(day) = job.at
        /\ job' = Idle
        /\ UNCHANGED <<days, late, spent>>
  /\ UNCHANGED <<env, rolling, seen, tracked, hosts5m, disk, reseed, doneDay, cycle, view, applied, settled>>

SaveToday == job.pc = "saveToday" /\ JobSaves(Idle)

-----------------------------------------------------------------------------
(* The process stops; main loads what was saved and is about to collect.   *)
Restart ==
  /\ Meet("crashes")
  /\ rolling' = [disk.rolling EXCEPT !.buckets = Recent(@, now)]
  /\ days' = disk.days /\ settled' = disk.settled
  /\ IF Backend = "sqlite" THEN UNCHANGED <<seen, applied>>
     ELSE seen' = Empty /\ applied' = {}
  /\ tracked' = FALSE
  /\ reseed' = HostMetrics
  /\ doneDay' = None /\ cycle' = Idle /\ job' = Idle /\ view' = None
  /\ UNCHANGED <<env, hosts5m, disk, late>>

Next ==
  \/ Tick \/ StartCycle \/ QueryFails \/ QueryCountOnly \/ QueryDetailed \/ DedupeFails
  \/ Account \/ SaveCycle \/ ReconcilePrevious \/ SavePrevious \/ Publish
  \/ StartJob \/ ReconcileStored \/ SaveStored \/ ReconcileToday \/ SaveToday
  \/ Restart

Spec == Init /\ [][Next]_vars

-----------------------------------------------------------------------------
(* Properties *)

IsTally(fn) == DOMAIN fn \subseteq DaySet /\ \A d \in DOMAIN fn : fn[d] \in Nat \/ fn[d] = None

(* Types of the state, of each record by phase.                            *)
TypeOK ==
  /\ now \in Times /\ detected \in [1 .. MaxTime -> SUBSET Flows]
  /\ rolling.initialized \in BOOLEAN /\ rolling.last \in 0 .. MaxTime
  /\ DOMAIN rolling.buckets \subseteq Times
  /\ DOMAIN seen \subseteq Flows /\ DOMAIN hosts5m \subseteq Times
  /\ \A kind \in {"daily", "captured", "hosts"} :
       IsTally(days[kind]) /\ IsTally(disk.days[kind])
  /\ doneDay \in DaySet \cup {None}
  /\ applied \subseteq Int /\ settled \subseteq DaySet /\ late \subseteq DaySet
  /\ cycle.pc \in {"idle", "query", "account", "daily", "captured", "hosts", "previous",
                   "settle", "publish"}
  /\ job.pc \in {"idle", "past", "today", "saveToday"}

Detections(ts) == {e \in Flows \X (ts \cap DOMAIN detected) : e[1] \in detected[e[2]]}

(* Once warm, the 24-hour number never exceeds the distinct flows of the   *)
(* last 24 hours, and is exactly that if every answer for them was         *)
(* deduplicated: whatever was asked twice, re-read after a crash, expired. *)
(* (Without any flows the memory backend adds the buckets up instead.)     *)
Shown24h ==
  view # None /\ ~view.warm /\ Backend = "sqlite" =>
    LET flows == Count(view.at - Window + 1 .. view.at)
    IN  view.n <= flows /\ (view.whole => view.n = flows)

(* blockedTodaySoFarCount: today's live number is of today's flows alone,  *)
(* all of them if all were asked for since midnight.                       *)
TodaySoFar ==
  LET start == DayStart(DayOf(now))
      shown == Cardinality({f \in DOMAIN seen : start < seen[f].last /\ seen[f].last <= now})
  IN  /\ shown <= Count(start + 1 .. now)
      /\ start + 1 .. now \subseteq applied => shown = Count(start + 1 .. now)

(* The two live figures are right whenever they can be read: across lost   *)
(* answers, expiry, crashes and midnight.                                  *)
FiguresRight == Shown24h /\ TodaySoFar

(* No detection is captured twice, on one day or on two, although windows  *)
(* are asked for again after a crash: the sqlite backend remembers across  *)
(* restarts.  Count-only answers cannot tell.                              *)
CapturedOnce ==
  spent.pressure = 0 /\ (Backend = "sqlite" \/ spent.crashes = 0) =>
    Total([d \in DOMAIN days.captured |-> Entry(days.captured, d)])
      <= Cardinality(Detections(1 .. now))

(* The 24-hour aggregate of hosts adds no connection twice: its rows cover *)
(* at most the 48 hours before now, the oldest being a baseline.           *)
HostAggregateOnce ==
  Total(Drop(hosts5m, {t \in DOMAIN hosts5m : t < now - Window}))
    <= Cardinality(Detections(now - 2 * Window .. now))

(* Whatever is asked for twice is added up once.                           *)
CountedOnce == CapturedOnce /\ HostAggregateOnce

(* A day the previous-day reconcile replaced stays what the PCE answers    *)
(* for the whole day, unless a full reconcile overwrites it afterwards     *)
(* with what the day was when that reconcile began.                        *)
SettledStands ==
  \A d \in (settled \ late) \cap DOMAIN days.daily :
    days.daily[d] = Count(DayTimes(d))

(* The same without the exception.                                         *)
ReconciledTotals ==
  \A d \in settled \cap DOMAIN days.daily : days.daily[d] = Count(DayTimes(d))

(* Over all days, hosts were given each blocked connection once.           *)
HostDaysOnce ==
  Total([d \in DOMAIN days.hosts |-> Entry(days.hosts, d)])
    <= Cardinality(Detections(1 .. now))
=============================================================================
