--------------------------- MODULE AnomalyAlerts ---------------------------
(***************************************************************************)
(* When an alert fires and recovers (src/main.go): the samples each cycle  *)
(* adds to a metric's series, or does not, the evaluation against a moving *)
(* average or a daily baseline, processWebhookAlerts, the persisted alert  *)
(* state and anomaly history, and the webhooks sent once both are saved.   *)
(* The database and the webhook receiver are external.  Time is a number   *)
(* of five-minute intervals.                                               *)
(***************************************************************************)
EXTENDS Integers, FiniteSets, FiniteSetsExt, Functions

CONSTANTS
  Metrics,      \* metrics and targets that can be alerted on
  MaxValue,     \* no sample is greater
  Points,       \* MA window, in samples
  Pct,          \* anomaly threshold
  Floor,        \* BlockedAlertMinLatest
  BaselineDays, \* days of the daily baseline
  MinCoverage,  \* least share of them that must be there, in percent
  Horizon,      \* 24 hours
  Day,          \* length of a local day
  KeepTime,     \* HistoryDays
  Modes,        \* what to consider, see mode
  MaxTime,      \* bound: the clock
  MaxEach,      \* bound: troubles of each kind
  MaxTrouble    \* bound: all of them together

(* Blocked targets, VEN warnings or errors, stopped VENs, tampering.       *)
Kinds == {"blocked", "health", "stopped", "tampering"}
Sources == {"5m", "daily"}
(* A failed query or save, a restart, a settings change.                   *)
Troubles == {"unread", "saves", "crashes", "settings"}

ASSUME ValuesAssumption ==
  /\ IsFiniteSet(Metrics)
  /\ {MaxValue, Points, Pct, BaselineDays, Horizon, Day, KeepTime, MaxTime} \subseteq Nat \ {0}
  /\ {Floor, MinCoverage, MaxEach, MaxTrouble} \subseteq Nat /\ Points < Horizon
ASSUME ModeAssumption ==
  \A m \in Modes : /\ DOMAIN m.kind \subseteq Metrics /\ \A k \in DOMAIN m.kind : m.kind[k] \in Kinds
                   /\ m.most \in 1 .. MaxValue /\ m.source \in Sources /\ m.may \subseteq Troubles

VARIABLES
  mode,      \* the keys and what they count, up to how many, the baseline
             \* used, the troubles to meet
  now,
  last,      \* time of the last cycle
  series,    \* each key's samples in rollingCache.Buckets, by their time
  daily,     \* each key's daily history: maximum, and whether it is known
  enabled,   \* the targets whose alerts are enabled
  alerts,    \* alertState: the keys whose alert is active
  history,   \* anomalyHistory: its events, ordered by their times
  disk,      \* series, alert state and anomaly history saved
  cycle,     \* runCollectionCycle in progress
  readings,  \* history: the values the PCE gave, by time
  moves,     \* history: how often each key's alert changed on disk
  sent,      \* history: how many webhooks were sent for each key
  spent      \* the troubles met, of each kind

store == <<series, daily, alerts, history>>
ghosts == <<readings, moves, sent>>
vars == <<mode, now, last, store, enabled, disk, cycle, ghosts, spent>>

-----------------------------------------------------------------------------
Keys == DOMAIN mode.kind
Kind(k) == mode.kind[k]
Values == 0 .. mode.most
Of(kinds) == {k \in Keys : Kind(k) \in kinds}

Extend(fn, k, v) == [x \in DOMAIN fn \cup {k} |-> IF x = k THEN v ELSE fn[x]]
Nothing == [x \in {} |-> 0]
Within(fn) == Restrict(fn, {t \in DOMAIN fn : now - Horizon < t})

Sum(fn) == Cardinality(UNION {{x} \X (1 .. fn[x]) : x \in DOMAIN fn})
Meet(what) ==
  /\ what \in mode.may /\ spent[what] < MaxEach /\ Sum(spent) < MaxTrouble
  /\ spent' = [spent EXCEPT ![what] = @ + 1]

-----------------------------------------------------------------------------
(* Evaluation *)

(* The n latest times, or all of them.                                     *)
Newest(ts, n) == {t \in ts : Cardinality({u \in ts : u > t}) < n}
Latest(fn) == IF DOMAIN fn = {} THEN 0 ELSE fn[Max(DOMAIN fn)]

Exceeds(latest, sum, n) == latest * n * 100 > sum * (100 + Pct)

(* What is compared with: the samples before the latest one, or the days.  *)
Complete(k) == {d \in DOMAIN daily[k] : daily[k][d].known}
Basis(k) ==
  IF mode.source = "5m"
  THEN LET fn == Within(series[k]) IN
       Restrict(fn, IF DOMAIN fn = {} THEN {} ELSE Newest(DOMAIN fn \ {Max(DOMAIN fn)}, Points))
  ELSE [d \in Newest(Complete(k), BaselineDays) |-> daily[k][d].max]

(* anomalyFromSeries wants Points samples before the latest; the daily     *)
(* baseline wants its coverage.                                            *)
Established(k) ==
  LET n == Cardinality(DOMAIN Basis(k)) IN
  IF mode.source = "5m" THEN n = Points ELSE n > 0 /\ n * 100 >= MinCoverage * BaselineDays

(* blockedAnomalyFromConfig, of every key.                                 *)
Anomalous(k) ==
  LET basis == Basis(k)
      sum == Sum(basis)
  IN  /\ Established(k) /\ sum > 0
      /\ Exceeds(Latest(Within(series[k])), sum, Cardinality(DOMAIN basis))

(* countAnomalyFromConfig, of stopped VENs and tampering: when there is a  *)
(* baseline, and any value above one that rounds to zero.                  *)
Ready(k) == DOMAIN Within(series[k]) # {} /\ Established(k)
CountAnomalous(k) ==
  LET basis == Basis(k) IN
  \/ Anomalous(k)
  \/ /\ Ready(k) /\ Latest(Within(series[k])) > 0
     /\ Sum(basis) * 200 < Cardinality(DOMAIN basis)

(* applyBlockedAlertPolicy: disabled, below the floor, or at the floor     *)
(* after a quiet window.                                                   *)
BlockedAnomalous(k) ==
  LET latest == Latest(Within(series[k]))
      basis == Basis(k)
  IN  /\ k \in enabled
      /\ latest >= Floor
      /\ \/ Anomalous(k)
         \/ mode.source = "5m" /\ Floor > 0 /\ Established(k) /\ Sum(basis) = 0

-----------------------------------------------------------------------------
(* Collection *)

Idle(boot) == [pc |-> "idle", boot |-> boot]

Init ==
  /\ mode \in Modes
  /\ now = 1 /\ last = 0
  /\ series = [k \in Keys |-> Nothing] /\ daily = [k \in Keys |-> Nothing]
  /\ enabled = Keys /\ alerts = {} /\ history = {}
  /\ disk = [series |-> series, alerts |-> {}, history |-> {}]
  /\ cycle = Idle(TRUE)
  /\ readings = [k \in Keys |-> Nothing]
  /\ moves = [k \in Keys |-> 0] /\ sent = [k \in Keys |-> 0]
  /\ spent = [what \in Troubles |-> 0]

Tick ==
  /\ now < MaxTime /\ cycle.pc = "idle"
  /\ now' = now + 1
  /\ UNCHANGED <<mode, last, store, enabled, disk, cycle, ghosts, spent>>

(* Faulty: a failed count is a sample of zero.                             *)
SampledAll(read, quiet) == Keys \ quiet

(* The keys with a sample this cycle: VEN warnings and errors count what a *)
(* failed query returned, the others only what a successful one did; a     *)
(* target's baseline query is no sample.                                   *)
Sampled(read, quiet) == (read \cup Of({"health"})) \ quiet

DayOf(t) == t \div Day
DayMax(k) == IF DayOf(now) \in DOMAIN daily[k] THEN daily[k][DayOf(now)].max ELSE 0

(* Faulty: a day's value is the sum of its samples.                        *)
DayTotal(k, v) == DayMax(k) + v

DayTop(k, v) == Max({DayMax(k), v})

(* updateVENDailyHistory: the day's maximum; of tampering the distinct     *)
(* workloads so far, unknown since a failed read.  (The days of targets    *)
(* are BlockedAccounting's subject.)                                       *)
DailyAfter(k, read, v) ==
  LET add(entries) == {Extend(daily[k], DayOf(now), e) : e \in entries} IN
  CASE mode.source = "5m" -> {daily[k]}
    [] Kind(k) = "tampering" ->
         add(IF k \in read THEN {[max |-> n, known |-> TRUE] : n \in DayTop(k, v) .. mode.most}
             ELSE {[max |-> DayMax(k), known |-> FALSE]})
    [] Kind(k) = "stopped" /\ k \notin read -> {daily[k]}
    [] OTHER -> add({[max |-> DayTop(k, v), known |-> TRUE]})

(* getIllumioStats.  The targets are evaluated at its end, the metrics     *)
(* later by processWebhookAlerts.                                          *)
Collect ==
  /\ cycle.pc = "idle" /\ last < now
  /\ last' = now
  /\ \E read \in SUBSET Keys, quiet \in SUBSET Of({"blocked"}), value \in [Keys -> Values] :
       /\ IF read = Keys THEN UNCHANGED spent ELSE Meet("unread")
       /\ quiet = {} \/ cycle.boot
       /\ \A k \in Keys \ (read \cup Of({"health"})) : value[k] = 0
       /\ series' = [k \in Keys |->
                       IF k \in Sampled(read, quiet) THEN Extend(Within(series[k]), now, value[k])
                       ELSE Within(series[k])]
       /\ daily' \in
            {fn \in [Keys -> UNION {DailyAfter(k, read, value[k]) : k \in Keys}] :
               \A k \in Keys : fn[k] \in DailyAfter(k, read, value[k])}
       /\ readings' = [k \in Keys |->
                         IF k \in read \ quiet THEN Extend(Within(readings[k]), now, value[k])
                         ELSE Within(readings[k])]
       /\ cycle' = [pc |-> "evaluate", read |-> read]
  /\ UNCHANGED <<mode, now, enabled, alerts, history, disk, moves, sent>>

Evaluate ==
  /\ cycle.pc = "evaluate"
  /\ cycle' = [pc |-> "publish", read |-> cycle.read,
               anomalous |-> {k \in Of({"blocked"}) : BlockedAnomalous(k)}]
  /\ UNCHANGED <<mode, now, last, store, enabled, disk, ghosts, spent>>

(* saveRollingState *)
Publish ==
  /\ cycle.pc = "publish"
  /\ disk' = [disk EXCEPT !.series = series]
  /\ cycle' = [cycle EXCEPT !.pc = "process"]
  /\ UNCHANGED <<mode, now, last, store, enabled, ghosts, spent>>

-----------------------------------------------------------------------------
(* processWebhookAlerts *)

(* The keys whose state is known: of a target, read and not filtered anew  *)
(* meanwhile; VEN warnings and errors always.                              *)
Known(current) ==
  (IF current THEN cycle.read \cap Of({"blocked"}) ELSE {})
  \cup Of({"health"})
  \cup {k \in cycle.read \cap Of({"stopped", "tampering"}) : Ready(k)}

Firing ==
  (cycle.anomalous
   \cup {k \in Of({"health"}) : Anomalous(k)}
   \cup {k \in Of({"stopped", "tampering"}) : CountAnomalous(k)})

(* Faulty: an alert still firing is a change too.                          *)
ChangedOrFiring(after) == after \cup (alerts \ after)

Changed(after) == (alerts \ after) \cup (after \ alerts)

(* The changes are determined and the state updated under configUpdateMu.  *)
Process ==
  /\ cycle.pc = "process"
  /\ \E current \in BOOLEAN :
       /\ IF current THEN UNCHANGED spent ELSE Meet("settings") /\ Of({"blocked"}) # {}
       /\ LET known == Known(current)
              after == (alerts \ known) \cup (Firing \cap known)
              changed == Changed(after)
          IN  /\ alerts' = after
              /\ cycle' = IF changed = {} THEN Idle(FALSE) ELSE [pc |-> "save", changed |-> changed]
  /\ UNCHANGED <<mode, now, last, series, daily, history, enabled, disk, ghosts>>

StateSaved == [disk EXCEPT !.alerts = alerts]

(* saveAlertState: a failure is logged.                                    *)
SaveState ==
  /\ cycle.pc = "save"
  /\ \/ /\ disk' = StateSaved
        /\ moves' = [k \in Keys |-> moves[k] +
                       IF (k \in disk.alerts) = (k \in disk'.alerts) THEN 0 ELSE 1]
        /\ UNCHANGED spent
     \/ UNCHANGED <<disk, moves>> /\ Meet("saves")
  /\ cycle' = [cycle EXCEPT !.pc = "append"]
  /\ UNCHANGED <<mode, now, last, store, enabled, readings, sent>>

(* pruneAnomalyHistoryLocked, which also sorts the events by their times,  *)
(* those of one cycle in no particular order.                              *)
Pruned(events) == {e \in events : now - KeepTime <= e.at}

(* One event of each changed key.                                          *)
Events(changed) == {[key |-> k, active |-> (k \in alerts), at |-> now] : k \in changed}

(* Webhooks go out for targets and stopped VENs.                           *)
Announced(keys) == keys \cap Of({"blocked", "stopped"})

(* appendAnomalyHistoryEvents, still under configUpdateMu.                 *)
SaveHistory ==
  /\ cycle.pc = "append"
  /\ history' = Pruned(history \cup Events(cycle.changed))
  /\ \/ disk' = [disk EXCEPT !.history = history'] /\ UNCHANGED spent
     \/ UNCHANGED disk /\ Meet("saves")
  /\ cycle' = [pc |-> "send", todo |-> Announced(cycle.changed)]
  /\ UNCHANGED <<mode, now, last, series, daily, alerts, enabled, ghosts>>

(* A webhook that fails is logged and not sent again.                      *)
Send ==
  /\ cycle.pc = "send"
  /\ \/ /\ cycle.todo = {}
        /\ cycle' = Idle(FALSE) /\ UNCHANGED sent
     \/ \E k \in cycle.todo :
          /\ cycle' = [cycle EXCEPT !.todo = @ \ {k}]
          /\ sent' = [sent EXCEPT ![k] = @ + 1]
  /\ UNCHANGED <<mode, now, last, store, enabled, disk, readings, moves, spent>>

-----------------------------------------------------------------------------
(* The settings of a target change, which waits for configUpdateMu.        *)
Settings ==
  /\ cycle.pc \notin {"save", "append"} /\ Meet("settings")
  /\ \E k \in Of({"blocked"}) :
       enabled' = (enabled \ {k}) \cup ({k} \ enabled)
  /\ UNCHANGED <<mode, now, last, store, disk, cycle, ghosts>>

(* The process stops; main loads what was saved and prunes the history.    *)
Restart ==
  /\ Meet("crashes")
  /\ series' = [k \in Keys |-> Within(disk.series[k])]
  /\ alerts' = disk.alerts
  /\ history' = Pruned(disk.history)
  /\ disk' = [disk EXCEPT !.history = history']
  /\ cycle' = Idle(TRUE)
  /\ readings' = [k \in Keys |-> Restrict(readings[k], DOMAIN readings[k] \cap DOMAIN series'[k])]
  /\ UNCHANGED <<mode, now, last, daily, enabled, moves, sent>>

Next ==
  \/ Tick \/ Collect \/ Evaluate \/ Publish \/ Process \/ SaveState \/ SaveHistory \/ Send
  \/ Settings \/ Restart

Spec == Init /\ [][Next]_vars

-----------------------------------------------------------------------------
(* Properties *)

(* Types of the state, of each record by phase.                            *)
TypeOK ==
  /\ mode \in Modes /\ now \in 1 .. MaxTime /\ last \in 0 .. now
  /\ \A k \in Keys :
       /\ \A fn \in {series[k], disk.series[k], readings[k]} :
            DOMAIN fn \subseteq 1 .. now /\ \A t \in DOMAIN fn : fn[t] \in 0 .. MaxValue
       /\ \A d \in DOMAIN daily[k] : daily[k][d] \in [max : 0 .. MaxValue, known : BOOLEAN]
  /\ enabled \subseteq Keys /\ alerts \subseteq Keys /\ disk.alerts \subseteq Keys
  /\ history \cup disk.history \subseteq [key : Keys, active : BOOLEAN, at : 1 .. now]
  /\ cycle.pc \in {"idle", "evaluate", "publish", "process", "save", "append", "send"}
  /\ {moves, sent} \subseteq [Keys -> Nat]

(* No webhook goes out twice, or for a change that was not saved, however  *)
(* the process stops: a change is announced at most once, after it is on   *)
(* disk.                                                                   *)
SentOnce == spent.saves = 0 => \A k \in Keys : sent[k] <= moves[k]

EventsOf(k) == {e \in history : e.key = k}

(* Until the process stops, the history of a key tells its alert: events   *)
(* alternate, and the last one kept is the state it is in.                 *)
HistoryTells ==
  spent.crashes = 0 /\ cycle.pc \in {"idle", "send"} =>
    \A k \in Keys : \A e \in EventsOf(k) :
      LET later == {f \in EventsOf(k) : f.at > e.at} IN
      /\ \A f \in EventsOf(k) : f.at = e.at => f = e
      /\ later = {} => e.active = (k \in alerts)
      /\ \A f \in later :
           (\A g \in later : f.at <= g.at) => f.active # e.active

(* What is told of an alert, by webhook and by the history, is so.         *)
AlertsTold == SentOnce /\ HistoryTells

Guarded == Of({"blocked", "stopped", "tampering"})
Moved(k) == cycle.pc = "process" /\ cycle'.pc \in {"save"} /\ ((k \in alerts) # (k \in alerts'))

(* Among the values the PCE gave in the last 24 hours, the latest exceeds  *)
(* the mean of those before it.                                            *)
Raised(k) ==
  LET fn == Within(readings[k])
      before == Newest(DOMAIN fn \ {Max(DOMAIN fn)}, Points)
  IN  DOMAIN fn # {} /\ Cardinality(before) = Points
      /\ Latest(fn) * Points > Sum(Restrict(fn, before))

ResolvedBy(k) ==
  k \in cycle.read /\ (Kind(k) # "blocked" => now \in DOMAIN readings[k] /\ Established(k))

(* An alert fires only on values read: never because a failed query left a *)
(* hole in what the latest is compared with.  It recovers only in a cycle  *)
(* that read the metric, and those of stopped VENs and tampering only      *)
(* against a baseline.                                                     *)
MovedOnEvidence ==
  [][\A k \in Guarded : Moved(k) =>
       IF k \in alerts THEN ResolvedBy(k) ELSE mode.source = "5m" => Raised(k)]_vars

(* The same of every key.  Not so: VEN warnings and errors count a failed  *)
(* query's rows as all there are.                                          *)
FailedReadResolvesNothing ==
  [][\A k \in Keys : Moved(k) /\ k \in alerts => k \in cycle.read]_vars
=============================================================================
