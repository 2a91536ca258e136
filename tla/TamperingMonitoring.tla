------------------------ MODULE TamperingMonitoring ------------------------
(***************************************************************************)
(* Which workloads were tampered with (src/main.go): the window a cycle    *)
(* asks the PCE's events for, the last event time kept for each workload,  *)
(* the rolling 24-hour list, the five-minute samples, the daily counts and *)
(* their reconciliation under per-day completion markers, the migration of *)
(* state older releases left, and what of all this survives a restart.     *)
(* How events are read is TamperingReader's subject: here a read is        *)
(* complete and exact, or fails and returns some of the events.  The       *)
(* database is external.  Events of the time unit ending at t are "at" t.  *)
(***************************************************************************)
EXTENDS Integers, FiniteSets, FiniteSetsExt, Functions

CONSTANTS
  Workloads,
  Stale,        \* names an older release attributed events to, wrongly
  None,
  Window,       \* 24 hours, and the length of a local day
  Interval,     \* five minutes
  MaxGap,       \* 30 minutes: an older LastCycle is not caught up from
  KeepDays,     \* HistoryDays
  Modes,        \* what to consider, see mode
  MaxTime,      \* bound: the clock
  MaxEvents,    \* bound: tampering events
  MaxEach,      \* bound: troubles of each kind
  MaxTrouble    \* bound: all of them together

Names == Workloads \cup Stale

ASSUME NamesAssumption == IsFiniteSet(Names) /\ Workloads \cap Stale = {}
ASSUME TimeAssumption ==
  /\ {Window, Interval, MaxGap, KeepDays, MaxTime} \subseteq Nat \ {0}
  /\ {MaxEvents, MaxEach, MaxTrouble} \subseteq Nat
  /\ Interval <= MaxGap /\ MaxGap < Window /\ Window < MaxTime
ASSUME NoneAssumption == None \notin Int \cup BOOLEAN

(* Nothing, names without times, times of wrong names; a failed read or    *)
(* save, a reconcile asked for, a restart.                                 *)
Origins == {"fresh", "untimed", "unfiltered"}
Troubles == {"faults", "jobs", "crashes"}
ASSUME ModeAssumption ==
  Modes \subseteq [left : Origins, days : BOOLEAN, may : SUBSET Troubles]

VARIABLES
  mode,       \* what an older release left, with daily history or not; the
              \* troubles to meet
  now,
  events,     \* PCE: the workloads tampered with in the unit ending at each time
  rolling,    \* rollingCache: Initialized, LastCycle, Tampering*, Buckets
  days,       \* venDaily: TamperingMax and TamperingComplete of each day
  disk,       \* their saved copies, and the reconcile marker
  cycle,      \* getIllumioStats and runCollectionCycle in progress
  job,        \* startTamperingHistoryReconcileAsync in progress
  shown,      \* stats.Tampering of the last cycle
  exact,      \* history: days given the PCE's count of the whole day
  overrun,    \* history: days a cycle wrote after they had ended
  spent       \* the troubles met, of each kind

env == <<mode, now, events>>
vars == <<env, rolling, days, disk, cycle, job, shown, exact, overrun, spent>>

-----------------------------------------------------------------------------
Times == Window .. MaxTime
DayOf(t) == t \div Window      \* localDayStart
DaySet == 0 .. DayOf(MaxTime)
DayTimes(d) == d * Window + 1 .. (d + 1) * Window

(* When a workload was tampered with in a set of times, and which were.    *)
Hits(w, ts) == {t \in ts \cap DOMAIN events : w \in events[t]}
Affected(ts) == {w \in Workloads : Hits(w, ts) # {}}

NoEvents == [x \in {} |-> 0]
Extend(fn, k, v) == [x \in DOMAIN fn \cup {k} |-> IF x = k THEN v ELSE fn[x]]

Total(fn) == Cardinality(UNION {{k} \X (1 .. fn[k]) : k \in DOMAIN fn})
Meet(what) ==
  /\ what \in mode.may
  /\ spent[what] < MaxEach /\ Total(spent) < MaxTrouble
  /\ spent' = [spent EXCEPT ![what] = @ + 1]

-----------------------------------------------------------------------------
(* Collection window and last event times *)

(* collectionWindow: since the last cycle unless that is too long ago.     *)
CycleStart(at) ==
  IF rolling.last < at /\ at - rolling.last <= MaxGap THEN rolling.last ELSE at - Interval

Backfill(at) ==
  \/ ~rolling.initialized \/ ~rolling.ready \/ rolling.pending \/ ~rolling.current
  \/ at - rolling.last > MaxGap

(* tamperingCollectionWindow *)
WindowStart(at) ==
  IF Backfill(at) THEN at - Window ELSE Min({CycleStart(at), at - Interval})

(* summarizeTamperingEvents, of the events read: pairs of workload, time.  *)
Summary(read) ==
  [w \in {e[1] : e \in read} |-> Max({e[2] : e \in {x \in read : x[1] = w}})]

(* tamperingNamesSince *)
Since(seen, from, to) == {n \in DOMAIN seen : from < seen[n] /\ seen[n] <= to}

(* Faulty: a read of the whole window replaces what is known, even partial.*)
MigratingPartial(state, read) == read.full /\ ~state.current

Migrating(state, read) == read.complete /\ read.full /\ ~state.current

(* Faulty: a failed read is not made up for.                               *)
PendingForgotten(state, read) == IF read.complete /\ read.full THEN FALSE ELSE state.pending

PendingAfter(state, read) ==
  IF ~read.complete THEN TRUE ELSE IF read.full THEN FALSE ELSE state.pending

(* updateTamperingLastSeenLocked; times are merged before they expire.     *)
Merged(state, read) ==
  LET old == IF Migrating(state, read) THEN NoEvents ELSE state.seen
  IN  [n \in DOMAIN old \cup DOMAIN read.seen |->
         IF n \notin DOMAIN old THEN read.seen[n]
         ELSE IF n \notin DOMAIN read.seen THEN old[n] ELSE Max({old[n], read.seen[n]})]

Updated(state, read, at) ==
  LET done == read.complete /\ read.full
      ready == state.ready \/ done
      merged == Merged(state, read)
  IN  [state EXCEPT
        !.seen = IF ready THEN Restrict(merged, Since(merged, at - Window, at)) ELSE merged,
        !.ready = ready,
        !.pending = PendingAfter(state, read),
        !.current = @ \/ done]

Recent(buckets, at) == {b \in buckets : at - Window < b.end}

(* rollingTamperingViewLocked: names with a time in the window, and before *)
(* the first full read those older samples name without one.               *)
Untimed(state, at) ==
  IF state.ready THEN {}
  ELSE ((UNION {b.names : b \in {x \in state.buckets : at - Window < x.end /\ x.end <= at}})
        \cup (IF at - Window < state.captured THEN state.baseline ELSE {}))
       \ DOMAIN state.seen
Listed(state, at) == Since(state.seen, at - Window, at) \cup Untimed(state, at)

(* Faulty: the cycle is taken for the one due next.                        *)
BeganAhead(state, read, at) ==
  [state EXCEPT !.initialized = TRUE, !.last = at + Interval]

(* updateRollingAndBuildView: a first cycle begins anew but for the times; *)
(* every cycle adds a sample of the five minutes before it began.          *)
Began(state, read, at) ==
  IF state.initialized THEN [state EXCEPT !.last = at]
  ELSE [state EXCEPT !.initialized = TRUE, !.last = at, !.captured = at, !.pending = FALSE,
                     !.buckets = {},
                     !.baseline = IF read.complete THEN DOMAIN read.seen ELSE {}]
NewSample(read, at) ==
  [end |-> at, complete |-> read.complete,
   names |-> IF read.complete THEN Since(read.seen, at - Interval, at) ELSE {}]
Rolled(state, read, at) ==
  LET added == [Began(state, read, at) EXCEPT !.buckets = @ \cup {NewSample(read, at)}]
      new == Updated(added, read, at)
  IN  [new EXCEPT !.buckets = Recent(@, at)]

-----------------------------------------------------------------------------
Idle == [pc |-> "idle"]
NoRolling ==
  [initialized |-> FALSE, last |-> 0, captured |-> 0, baseline |-> {}, seen |-> NoEvents,
   ready |-> FALSE, pending |-> FALSE, current |-> FALSE, buckets |-> {}]

(* What older releases left; whether their counts are complete is unknown. *)
LeftRolling ==
  LET left == [NoRolling EXCEPT !.initialized = TRUE, !.last = Window - 1, !.captured = Window - 2] IN
  CASE mode.left = "fresh" -> NoRolling
    [] mode.left = "untimed" ->
         [left EXCEPT !.baseline = Names,
                      !.buckets = {[end |-> Window - 1, complete |-> None, names |-> Names]}]
    [] mode.left = "unfiltered" ->
         [left EXCEPT !.ready = TRUE, !.seen = [n \in Names |-> Window - 1]]
LeftDays ==
  IF mode.days THEN [d \in {0} |-> [max |-> Cardinality(Names), complete |-> None]] ELSE NoEvents

(* tamperingHistoryDayKeysForReconcile *)
PriorDays(all) == DOMAIN all \ {DayOf(now)}

Requested(todo) == [pc |-> "day", todo |-> todo, asked |-> todo, updated |-> FALSE, failed |-> FALSE]

(* maybeStartStartupTamperingHistoryReconcile *)
StartupJob(all, marker) ==
  IF PriorDays(all) \subseteq marker THEN Idle ELSE Requested(PriorDays(all) \ marker)

EventSets(ts) == {e \in [ts -> SUBSET Workloads] : \A t \in ts : Cardinality(e[t]) <= 1}
EventCount(e) == Cardinality({t \in DOMAIN e : e[t] # {}})

Init ==
  /\ mode \in Modes
  /\ now = Window
  /\ events \in {e \in EventSets(1 .. MaxTime) :
                   EventCount(e) < MaxEvents /\ \A t \in Window + 1 .. MaxTime : e[t] = {}}
  /\ rolling = LeftRolling /\ days = LeftDays
  /\ disk = [rolling |-> rolling, days |-> days, marker |-> {}, exact |-> {}]
  /\ cycle = Idle
  /\ job = StartupJob(days, {})
  /\ shown = None
  /\ exact = {} /\ overrun = {}
  /\ spent = [what \in Troubles |-> 0]

(* Time passes, while the PCE is asked too.  A cycle does not read the     *)
(* clock after its query: what passes then is left to pass when it ended.  *)
Tick ==
  /\ now < MaxTime /\ cycle.pc \in {"idle", "query"}
  /\ now' = now + 1
  /\ events' \in {events} \cup
       (IF EventCount(events) < MaxEvents
        THEN {[events EXCEPT ![now + 1] = {w}] : w \in Workloads} ELSE {})
  /\ UNCHANGED <<mode, rolling, days, disk, cycle, job, shown, exact, overrun, spent>>

(* runCollectionCycle, by the ticker or a manual refresh.                  *)
StartCycle ==
  /\ cycle.pc = "idle" /\ rolling.last < now
  /\ cycle' = [pc |-> "query", at |-> now, from |-> WindowStart(now), full |-> Backfill(now)]
  /\ UNCHANGED <<env, rolling, days, disk, job, shown, exact, overrun, spent>>

(* getTamperingWindowDetails: all events of the window, or, failing, some. *)
Asked == {e \in Workloads \X (cycle.from + 1 .. cycle.at) : e[1] \in events[e[2]]}
Read(complete, found) ==
  cycle' = [pc |-> "account", at |-> cycle.at,
            read |-> [complete |-> complete, full |-> cycle.full, seen |-> Summary(found)]]

ReadAll ==
  /\ cycle.pc = "query"
  /\ Read(TRUE, Asked)
  /\ UNCHANGED <<env, rolling, days, disk, job, shown, exact, overrun, spent>>

ReadFails ==
  /\ cycle.pc = "query" /\ Meet("faults")
  /\ \E found \in SUBSET Asked : Read(FALSE, found)
  /\ UNCHANGED <<env, rolling, days, disk, job, shown, exact, overrun>>

(* tamperingTodaySoFarUniqueCount *)
Today(state, at) == Cardinality(Since(state.seen, DayOf(at) * Window, at))

DayEntry(d) == IF d \in DOMAIN days THEN days[d] ELSE [max |-> 0, complete |-> None]

(* updateRollingAndBuildView and updateVENDailyHistory.  Each saves the    *)
(* daily history only if it changed, which other metrics may have done.    *)
Account ==
  /\ cycle.pc = "account"
  /\ LET at == cycle.at
         read == cycle.read
         new == Rolled(rolling, read, at)
         entry == [max |-> IF read.complete THEN Today(new, at) ELSE DayEntry(DayOf(at)).max,
                   complete |-> read.complete]
     IN  /\ rolling' = new
         /\ shown' = [at |-> at, complete |-> read.complete, names |-> Listed(new, at),
                      seen |-> Restrict(new.seen, Since(new.seen, at - Window, at))]
         /\ days' = Extend(days, DayOf(at), entry)
         /\ exact' = exact \ {DayOf(at)}
         /\ overrun' = IF DayOf(at) < DayOf(now) THEN overrun \cup {DayOf(at)} ELSE overrun
         /\ \E pc \in IF days' = days THEN {"save", "prune"} ELSE {"save"} :
              cycle' = [pc |-> pc, at |-> at, next |-> "prune"]
  /\ UNCHANGED <<env, disk, job, spent>>

(* pruneVENHistory *)
Prune ==
  /\ cycle.pc = "prune"
  /\ LET keep == {d \in DOMAIN days : d >= DayOf(cycle.at) - KeepDays} IN
     /\ days' = Restrict(days, keep)
     /\ exact' = exact \cap keep
     /\ cycle' = [pc |-> IF keep = DOMAIN days THEN "publish" ELSE "save", at |-> cycle.at,
                  next |-> "publish"]
  /\ UNCHANGED <<env, rolling, disk, job, shown, overrun, spent>>

(* saveVENHistory: copied under venHistoryMu, written without; a failure   *)
(* is logged only.                                                         *)
Copied == [days |-> days, exact |-> exact]
Written(copy) ==
  \/ disk' = [disk EXCEPT !.days = copy.days, !.exact = copy.exact] /\ UNCHANGED spent
  \/ UNCHANGED disk /\ Meet("faults")

CycleCopies ==
  /\ cycle.pc = "save"
  /\ cycle' = [pc |-> "write", at |-> cycle.at, next |-> cycle.next, copy |-> Copied]
  /\ UNCHANGED <<env, rolling, days, disk, job, shown, exact, overrun, spent>>

CycleWrites ==
  /\ cycle.pc = "write"
  /\ Written(cycle.copy)
  /\ cycle' = [pc |-> cycle.next, at |-> cycle.at]
  /\ UNCHANGED <<env, rolling, days, job, shown, exact, overrun>>

(* runCollectionCycle ends: saveRollingState.                              *)
Publish ==
  /\ cycle.pc = "publish"
  /\ \/ disk' = [disk EXCEPT !.rolling = rolling] /\ UNCHANGED spent
     \/ UNCHANGED disk /\ Meet("faults")
  /\ cycle' = Idle
  /\ UNCHANGED <<env, rolling, days, job, shown, exact, overrun>>

-----------------------------------------------------------------------------
(* Reconciling the days that have ended *)

(* handleReconcileTamperingHistory: all stored days, marked or not.        *)
StartJob ==
  /\ job.pc = "idle" /\ Meet("jobs")
  /\ PriorDays(days) # {}
  /\ job' = Requested(PriorDays(days))
  /\ UNCHANGED <<env, rolling, days, disk, cycle, shown, exact, overrun>>

NextDay == CHOOSE d \in job.todo : \A e \in job.todo : d <= e

(* reconcileStoredTamperingHistory, one day after the other.               *)
ReconcileDay ==
  /\ job.pc = "day" /\ job.todo # {}
  /\ days' = Extend(days, NextDay, [max |-> Cardinality(Affected(DayTimes(NextDay))), complete |-> TRUE])
  /\ exact' = exact \cup {NextDay} /\ overrun' = overrun \ {NextDay}
  /\ job' = [job EXCEPT !.todo = @ \ {NextDay}, !.updated = TRUE]
  /\ UNCHANGED <<env, rolling, disk, cycle, shown, spent>>

ReconcileFails ==
  /\ job.pc = "day" /\ job.todo # {} /\ Meet("faults")
  /\ job' = [job EXCEPT !.todo = @ \ {NextDay}, !.failed = TRUE]
  /\ UNCHANGED <<env, rolling, days, disk, cycle, shown, exact, overrun>>

JobCopies ==
  /\ job.pc = "day" /\ job.todo = {}
  /\ job' = IF job.updated
            THEN [pc |-> "write", copy |-> Copied, asked |-> job.asked, failed |-> job.failed]
            ELSE Idle
  /\ UNCHANGED <<env, rolling, days, disk, cycle, shown, exact, overrun, spent>>

JobWrites ==
  /\ job.pc = "write"
  /\ Written(job.copy)
  /\ job' = IF job.failed THEN Idle ELSE [pc |-> "mark", asked |-> job.asked]
  /\ UNCHANGED <<env, rolling, days, cycle, shown, exact, overrun>>

(* MarkDaysComplete, saveTamperingHistoryReconcileMarker                   *)
Mark ==
  /\ job.pc = "mark"
  /\ \/ disk' = [disk EXCEPT !.marker = @ \cup job.asked] /\ UNCHANGED spent
     \/ UNCHANGED disk /\ Meet("faults")
  /\ job' = Idle
  /\ UNCHANGED <<env, rolling, days, cycle, shown, exact, overrun>>

-----------------------------------------------------------------------------
(* The process stops; main loads what was saved.                           *)
Restart ==
  /\ Meet("crashes")
  /\ rolling' = [disk.rolling EXCEPT !.buckets = Recent(@, now)]
  /\ days' = disk.days /\ exact' = disk.exact
  /\ job' = StartupJob(disk.days, disk.marker)
  /\ cycle' = Idle /\ shown' = None
  /\ UNCHANGED <<env, disk, overrun>>

Next ==
  \/ Tick \/ StartCycle \/ ReadAll \/ ReadFails \/ Account \/ Prune
  \/ CycleCopies \/ CycleWrites \/ Publish
  \/ StartJob \/ ReconcileDay \/ ReconcileFails \/ JobCopies \/ JobWrites \/ Mark
  \/ Restart

Spec == Init /\ [][Next]_vars

-----------------------------------------------------------------------------
(* Properties *)

IsHistory(fn) ==
  DOMAIN fn \subseteq DaySet
  /\ \A d \in DOMAIN fn : fn[d].max \in Nat /\ fn[d].complete \in BOOLEAN \cup {None}

(* Types of the state, of each record by phase.                            *)
TypeOK ==
  /\ now \in Times /\ events \in [1 .. MaxTime -> SUBSET Workloads]
  /\ \A state \in {rolling, disk.rolling} :
       /\ {state.initialized, state.ready, state.pending, state.current} \subseteq BOOLEAN
       /\ {state.last, state.captured} \subseteq 0 .. MaxTime
       /\ state.baseline \subseteq Names /\ DOMAIN state.seen \subseteq Names
       /\ \A n \in DOMAIN state.seen : state.seen[n] \in 0 .. MaxTime
       /\ \A b \in state.buckets : b.end \in 0 .. MaxTime /\ b.names \subseteq Names
  /\ IsHistory(days) /\ IsHistory(disk.days)
  /\ exact \subseteq DOMAIN days /\ disk.marker \subseteq DaySet
  /\ cycle.pc \in {"idle", "query", "account", "save", "write", "prune", "publish"}
  /\ job.pc \in {"idle", "day", "write", "mark"}

(* After a complete read the rolling list is exactly the workloads with an *)
(* event in the last 24 hours, each with its latest event's time, whatever *)
(* failed before, was lost in a restart, or an older release had recorded; *)
(* after any other, once migrated, what is listed did happen.              *)
ListExact ==
  shown # None /\ (shown.complete \/ rolling.current) =>
    LET ts == shown.at - Window + 1 .. shown.at IN
    /\ shown.complete => shown.names = Affected(ts)
    /\ shown.names = DOMAIN shown.seen
    /\ \A n \in shown.names :
         shown.seen[n] \in Hits(n, ts) /\ (shown.complete => shown.seen[n] = Max(Hits(n, ts)))

(* Every sample charted counts the distinct workloads of the five minutes  *)
(* before its cycle began, not of a backfill or of an early refresh.       *)
SamplesExact ==
  \A b \in rolling.buckets :
    b.complete = TRUE => b.names = Affected(b.end - Interval + 1 .. b.end)

(* What the PCE was asked is shown, whatever happened in between.          *)
RollingExact == ListExact /\ SamplesExact

(* No day charted as complete counts a workload twice or another day's;    *)
(* the day of the last cycle counts all up to that cycle.                  *)
DaysSound ==
  /\ \A d \in DOMAIN days :
       days[d].complete = TRUE => days[d].max <= Cardinality(Affected(DayTimes(d)))
  /\ shown # None /\ shown.complete /\ DayOf(shown.at) \notin exact /\ cycle.pc # "account"
     /\ DayOf(shown.at) \in DOMAIN days =>
       days[DayOf(shown.at)] =
         [max |-> Cardinality(Affected(DayOf(shown.at) * Window + 1 .. shown.at)), complete |-> TRUE]

(* A reconciled day keeps the PCE's count of the whole day unless a cycle  *)
(* that began in it was still collecting when it was reconciled.           *)
ReconciledStands ==
  /\ \A d \in exact :
       days[d] = [max |-> Cardinality(Affected(DayTimes(d))), complete |-> TRUE]
  /\ \A d \in disk.marker \cap DOMAIN days :
       spent.faults = 0 /\ spent.crashes = 0 => d \in exact \cup overrun

(* The stored days are right, also where cycle and reconcile overlap.      *)
DaysExact == DaysSound /\ ReconciledStands

(* So every number charted is of the workloads the PCE reported.           *)
FiguresExact == RollingExact /\ DaysExact

(* When all is done, each day a startup will skip is stored with the PCE's *)
(* count of it.  Not so: the cycle may have copied the history before the  *)
(* job replaced the day, and written its copy after the job's.             *)
MarkedDaysCounted ==
  cycle.pc = "idle" /\ job.pc = "idle" => \A d \in disk.marker \cap DOMAIN disk.days :
    disk.days[d] = [max |-> Cardinality(Affected(DayTimes(d))), complete |-> TRUE]

(* A failed or partial read removes no workload from the list that its     *)
(* recorded time, or an older sample without one, keeps there.             *)
EvidenceKept ==
  [][cycle.pc = "account" /\ cycle'.pc \in {"save", "prune"} /\ ~cycle.read.complete =>
       Listed(rolling, cycle.at) \subseteq shown'.names]_vars
=============================================================================
