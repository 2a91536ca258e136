------------------------ MODULE AnomalyAlerts_proofs ------------------------
(***************************************************************************)
(* What AnomalyAlerts promises for any metrics and targets, samples,       *)
(* thresholds, windows and troubles.                                       *)
(***************************************************************************)
EXTENDS AnomalyAlerts, FiniteSetTheorems, WellFoundedInduction, TLAPS

-----------------------------------------------------------------------------
(* Lemmas on data *)

LEMMA Sizes ==
  /\ MaxValue \in Nat \ {0} /\ Points \in Nat \ {0} /\ Pct \in Nat \ {0} /\ Floor \in Nat
  /\ Horizon \in Nat \ {0} /\ Day \in Nat \ {0} /\ KeepTime \in Nat \ {0}
  /\ MaxTime \in Nat \ {0}
BY ValuesAssumption

LEMMA Least ==
  ASSUME NEW S \in SUBSET Nat, S # {}
  PROVE  \E m \in S : \A n \in S : m <= n
<1>1. IsWellFoundedOn(OpToRel(<, Nat), Nat)
  BY NatLessThanWellFounded
<1>2. PICK m \in S : \A n \in S : ~(<<n, m>> \in OpToRel(<, Nat))
  BY <1>1, WFMin
<1>3. \A n \in S : ~(n < m)
  BY <1>2 DEF OpToRel
<1>4. m \in Nat /\ \A n \in S : n \in Nat
  OBVIOUS
<1> HIDE DEF OpToRel
<1> QED BY <1>3, <1>4

(* The latest of a nonempty set of times.                                  *)
LEMMA MaxOf ==
  ASSUME NEW m \in Nat, NEW S \in SUBSET (0 .. m), S # {}
  PROVE  Max(S) \in S /\ \A x \in S : x <= Max(S)
<1> DEFINE above == {y \in Nat : \A x \in S : x <= y}
<1>1. m \in above
  OBVIOUS
<1>2. PICK y \in above : \A z \in above : y <= z
  BY <1>1, Least
<1>3. y \in S
  <2> SUFFICES ASSUME y \notin S PROVE FALSE
    OBVIOUS
  <2>1. \A x \in S : x \in Nat /\ x < y
    BY <1>2
  <2>2. PICK x \in S : x \in Nat /\ x < y
    BY <2>1
  <2>3. y - 1 \in above /\ ~(y <= y - 1)
    BY <1>2, <2>1, <2>2
  <2> QED BY <1>2, <2>3
<1>4. \E x \in S : \A z \in S : x >= z
  BY <1>2, <1>3
<1>5. \A x, z \in S : x >= z => z <= x
  OBVIOUS
<1> QED BY <1>4, <1>5 DEF Max

(* Samples up to a time.                                                   *)
Samples(values, n) == UNION {[d -> values] : d \in SUBSET (1 .. n)}

LEMMA SampleOf ==
  ASSUME NEW values, NEW n, NEW fn \in Samples(values, n)
  PROVE  /\ fn = [t \in DOMAIN fn |-> fn[t]]
         /\ DOMAIN fn \subseteq 1 .. n /\ \A t \in DOMAIN fn : fn[t] \in values
BY DEF Samples

LEMMA SampleIs ==
  ASSUME NEW values, NEW n, NEW d \in SUBSET (1 .. n), NEW fn \in [d -> values]
  PROVE  fn \in Samples(values, n)
BY DEF Samples

LEMMA RestrictType ==
  ASSUME NEW values, NEW n, NEW fn \in Samples(values, n), NEW d \in SUBSET (DOMAIN fn)
  PROVE  Restrict(fn, d) \in Samples(values, n)
<1>1. d \in SUBSET (1 .. n) /\ Restrict(fn, d) \in [d -> values]
  BY SampleOf DEF Restrict
<1> QED BY <1>1, SampleIs

LEMMA WithinType ==
  ASSUME NEW values, NEW n, NEW fn \in Samples(values, n)
  PROVE  Within(fn) \in Samples(values, n)
BY RestrictType DEF Within

LEMMA LongerType ==
  ASSUME NEW values, NEW n \in Nat, NEW m \in Nat, n <= m, NEW fn \in Samples(values, n)
  PROVE  fn \in Samples(values, m)
<1>1. DOMAIN fn \in SUBSET (1 .. m) /\ fn \in [DOMAIN fn -> values]
  BY SampleOf
<1> QED BY <1>1, SampleIs

LEMMA ExtendType ==
  ASSUME NEW values, NEW n \in Nat, NEW m \in Nat \ {0}, n <= m,
         NEW fn \in Samples(values, n), NEW v \in values
  PROVE  Extend(fn, m, v) \in Samples(values, m)
<1>1. DOMAIN fn \cup {m} \in SUBSET (1 .. m)
  BY SampleOf
<1>2. Extend(fn, m, v) \in [DOMAIN fn \cup {m} -> values]
  BY SampleOf DEF Extend
<1> QED BY <1>1, <1>2, SampleIs

LEMMA NothingType == \A values, n : Nothing \in Samples(values, n)
<1> SUFFICES ASSUME NEW values, NEW n PROVE Nothing \in Samples(values, n)
  OBVIOUS
<1>1. {} \in SUBSET (1 .. n) /\ Nothing \in [{} -> values]
  BY DEF Nothing
<1> QED BY <1>1, SampleIs

(* The latest sample and the sum of samples are natural numbers.           *)
LEMMA LatestType ==
  ASSUME NEW values \in SUBSET Nat, NEW n \in Nat, NEW fn \in Samples(values, n)
  PROVE  Latest(fn) \in Nat
<1>1. CASE DOMAIN fn = {}
  BY <1>1 DEF Latest
<1>2. CASE DOMAIN fn # {}
  <2>1. DOMAIN fn \in SUBSET (0 .. n)
    BY SampleOf
  <2>2. Max(DOMAIN fn) \in DOMAIN fn
    BY <1>2, <2>1, MaxOf
  <2> QED BY <1>2, <2>2, SampleOf DEF Latest
<1> QED BY <1>1, <1>2

LEMMA SumType ==
  ASSUME NEW max \in Nat, NEW n \in Nat, NEW fn \in Samples(0 .. max, n)
  PROVE  Sum(fn) \in Nat
<1> DEFINE pairs == UNION {{x} \X (1 .. fn[x]) : x \in DOMAIN fn}
<1>1. pairs \subseteq (1 .. n) \X (1 .. max)
  <2>1. \A x \in DOMAIN fn : x \in 1 .. n /\ 1 .. fn[x] \subseteq 1 .. max
    BY SampleOf
  <2> QED BY <2>1
<1>2. IsFiniteSet((1 .. n) \X (1 .. max))
  <2>1. IsFiniteSet(1 .. n) /\ IsFiniteSet(1 .. max)
    BY FS_Interval
  <2> QED BY <2>1, FS_Product
<1>3. IsFiniteSet(pairs) /\ Cardinality(pairs) \in Nat
  BY <1>1, <1>2, FS_Subset, FS_CardinalityType
<1> QED BY <1>3 DEF Sum

-----------------------------------------------------------------------------
(* TypeOK by the variables that change together.                           *)
ClockOK == now \in 1 .. MaxTime /\ last \in 0 .. now
SeriesOK ==
  /\ series \in [Keys -> Samples(Values, last)]
  /\ readings \in [Keys -> Samples(Values, last)]
  /\ disk.series \in [Keys -> Samples(Values, last)]
Dailies(values) == UNION {[d -> [max : values, known : BOOLEAN]] : d \in SUBSET Nat}
DailyOK == daily \in [Keys -> Dailies(Values)]
AlertsOK == enabled \subseteq Keys /\ alerts \subseteq Keys /\ disk.alerts \subseteq Keys

(* The events of a cycle are stamped with its time, and no other's.        *)
Earlier == {"evaluate", "publish", "process", "save", "append"}
Stamped(events) ==
  /\ events \subseteq [key : Keys, active : BOOLEAN, at : 1 .. last]
  /\ cycle.pc \in Earlier => \A e \in events : e.at < last
HistoryOK == Stamped(history) /\ Stamped(disk.history)
DiskOK == disk = [series |-> disk.series, alerts |-> disk.alerts, history |-> disk.history]

Phases ==
  [pc : {"idle"}, boot : BOOLEAN]
  \cup [pc : {"evaluate"}, read : SUBSET Keys]
  \cup [pc : {"publish", "process"}, read : SUBSET Keys, anomalous : SUBSET Keys]
  \cup [pc : {"save", "append"}, changed : SUBSET Keys]
  \cup [pc : {"send"}, todo : SUBSET Keys]
CycleOK == cycle \in Phases /\ (cycle.pc # "idle" => last = now)
CountsOK ==
  /\ moves \in [Keys -> Nat] /\ sent \in [Keys -> Nat]
  /\ mode \in Modes /\ spent \in [Troubles -> Nat]

Parts ==
  ClockOK /\ SeriesOK /\ DailyOK /\ AlertsOK /\ HistoryOK /\ DiskOK /\ CycleOK /\ CountsOK

LEMMA ValuesType ==
  ASSUME CountsOK
  PROVE  mode.most \in Nat \ {0} /\ Values \subseteq 0 .. MaxValue /\ Values = 0 .. mode.most
         /\ 0 \in Values
BY Sizes, ModeAssumption DEF CountsOK, Values

LEMMA PartsType == Parts => TypeOK
<1> SUFFICES ASSUME Parts PROVE TypeOK
  OBVIOUS
<1>1. \A k \in Keys : \A fn \in {series[k], disk.series[k], readings[k]} :
        DOMAIN fn \subseteq 1 .. now /\ \A t \in DOMAIN fn : fn[t] \in 0 .. MaxValue
  <2> SUFFICES ASSUME NEW k \in Keys, NEW fn \in {series[k], disk.series[k], readings[k]}
               PROVE  DOMAIN fn \subseteq 1 .. now /\ \A t \in DOMAIN fn : fn[t] \in 0 .. MaxValue
    OBVIOUS
  <2>1. fn \in Samples(Values, last)
    BY DEF Parts, SeriesOK
  <2>2. DOMAIN fn \subseteq 1 .. last /\ \A t \in DOMAIN fn : fn[t] \in Values
    BY <2>1, SampleOf
  <2>3. 1 .. last \subseteq 1 .. now
    BY DEF Parts, ClockOK
  <2> QED BY <2>2, <2>3, ValuesType DEF Parts
<1>2. \A k \in Keys : \A d \in DOMAIN daily[k] :
        daily[k][d] \in [max : 0 .. MaxValue, known : BOOLEAN]
  <2> SUFFICES ASSUME NEW k \in Keys, NEW d \in DOMAIN daily[k]
               PROVE  daily[k][d] \in [max : 0 .. MaxValue, known : BOOLEAN]
    OBVIOUS
  <2>1. daily[k] \in Dailies(Values)
    BY DEF Parts, DailyOK
  <2>2. daily[k][d] \in [max : Values, known : BOOLEAN]
    BY <2>1 DEF Dailies
  <2> QED BY <2>2, ValuesType DEF Parts
<1>3. history \cup disk.history \subseteq [key : Keys, active : BOOLEAN, at : 1 .. now]
  <2>1. history \cup disk.history \subseteq [key : Keys, active : BOOLEAN, at : 1 .. last]
    BY DEF Parts, HistoryOK, Stamped
  <2>2. 1 .. last \subseteq 1 .. now
    BY DEF Parts, ClockOK
  <2> QED BY <2>1, <2>2
<1>4. cycle.pc \in {"idle", "evaluate", "publish", "process", "save", "append", "send"}
  BY DEF Parts, CycleOK, Phases
<1>5. mode \in Modes /\ now \in 1 .. MaxTime /\ last \in 0 .. now /\ {moves, sent} \subseteq [Keys -> Nat]
  BY DEF Parts, ClockOK, CountsOK
<1> QED BY <1>1, <1>2, <1>3, <1>4, <1>5 DEF TypeOK, Parts, AlertsOK

LEMMA InitTyped == Init => Parts
<1> SUFFICES ASSUME Init PROVE Parts
  OBVIOUS
<1> USE DEF Init
<1>1. ClockOK /\ DiskOK /\ AlertsOK /\ CountsOK
  BY Sizes DEF ClockOK, DiskOK, AlertsOK, CountsOK
<1>2. SeriesOK
  BY NothingType DEF SeriesOK
<1>3. DailyOK
  <2>1. Nothing \in [{} -> [max : Values, known : BOOLEAN]] /\ {} \in SUBSET Nat
    BY DEF Nothing
  <2>2. Nothing \in Dailies(Values)
    BY <2>1 DEF Dailies
  <2> QED BY <2>2 DEF DailyOK
<1>4. HistoryOK /\ CycleOK
  BY DEF HistoryOK, Stamped, CycleOK, Phases, Idle
<1> QED BY <1>1, <1>2, <1>3, <1>4 DEF Parts

-----------------------------------------------------------------------------
(* Every step keeps the types.                                             *)
LEMMA MeetType ==
  ASSUME CountsOK, NEW what, Meet(what)
  PROVE  /\ what \in Troubles /\ spent' \in [Troubles -> Nat]
         /\ spent'[what] = spent[what] + 1 /\ spent[what] \in Nat
         /\ \A other \in Troubles : other # what => spent'[other] = spent[other]
BY ModeAssumption DEF Meet, CountsOK

LEMMA SpentType ==
  ASSUME CountsOK, UNCHANGED spent \/ \E what : Meet(what)
  PROVE  spent' \in [Troubles -> Nat]
BY MeetType DEF CountsOK

LEMMA SameMode ==
  ASSUME mode' = mode
  PROVE  Keys' = Keys /\ Values' = Values /\ \A kinds : Of(kinds)' = Of(kinds)
BY DEF Keys, Values, Of, Kind

LEMMA SeriesKept ==
  ASSUME SeriesOK, mode' = mode, last' = last, series' = series, readings' = readings,
         disk'.series = disk.series
  PROVE  SeriesOK'
BY SameMode DEF SeriesOK

LEMMA DailyKept == ASSUME DailyOK, mode' = mode, daily' = daily PROVE DailyOK'
BY SameMode DEF DailyOK

LEMMA HistoryKept ==
  ASSUME HistoryOK, mode' = mode, last' = last, history' = history,
         disk'.history = disk.history, cycle'.pc \in Earlier => cycle.pc \in Earlier
  PROVE  HistoryOK'
BY SameMode DEF HistoryOK, Stamped

LEMMA TickTyped == Parts /\ Tick => Parts'
<1> SUFFICES ASSUME Parts, Tick PROVE Parts'
  OBVIOUS
<1> USE DEF Parts
<1>1. ClockOK'
  BY Sizes DEF Tick, ClockOK
<1>2. SeriesOK' /\ DailyOK'
  BY SeriesKept, DailyKept DEF Tick, store, ghosts
<1>3. HistoryOK'
  BY HistoryKept DEF Tick, store
<1>4. AlertsOK' /\ DiskOK' /\ CycleOK' /\ CountsOK'
  BY SameMode DEF Tick, store, ghosts, AlertsOK, DiskOK, CycleOK, CountsOK, Phases
<1> QED BY <1>1, <1>2, <1>3, <1>4

LEMMA EntryType ==
  ASSUME Parts, NEW k \in Keys, NEW v \in Values
  PROVE  /\ DayMax(k) \in Values /\ DayTop(k, v) \in Values
         /\ \A e \in [max : Values, known : BOOLEAN] :
              Extend(daily[k], DayOf(now), e) \in Dailies(Values)
<1>1. Values \subseteq Nat /\ 0 \in Values
  BY ValuesType DEF Parts
<1>2. PICK d \in SUBSET Nat : daily[k] \in [d -> [max : Values, known : BOOLEAN]]
  BY DEF Parts, DailyOK, Dailies
<1>3. DayMax(k) \in Values
  BY <1>1, <1>2 DEF DayMax
<1>4. DayTop(k, v) \in Values
  <2> PICK m \in Nat : m = DayMax(k)
    BY <1>1, <1>3
  <2>0. v \in Nat
    BY <1>1
  <2>1. DayMax(k) >= v \/ v >= DayMax(k)
    BY <2>0
  <2>2. DayMax(k) >= DayMax(k) /\ v >= v
    BY <2>0
  <2>3. \E x \in {DayMax(k), v} : \A y \in {DayMax(k), v} : x >= y
    BY <2>1, <2>2
  <2>4. DayTop(k, v) \in {DayMax(k), v}
    BY <2>3 DEF DayTop, Max
  <2> QED BY <1>3, <2>4
<1>5. DayOf(now) \in Nat
  BY Sizes DEF Parts, ClockOK, DayOf
<1>6. ASSUME NEW e \in [max : Values, known : BOOLEAN]
      PROVE  Extend(daily[k], DayOf(now), e) \in Dailies(Values)
  <2>1. d \cup {DayOf(now)} \in SUBSET Nat
    BY <1>5
  <2>2. Extend(daily[k], DayOf(now), e) \in [d \cup {DayOf(now)} -> [max : Values, known : BOOLEAN]]
    BY <1>2, <1>6 DEF Extend
  <2> QED BY <2>1, <2>2 DEF Dailies
<1> QED BY <1>3, <1>4, <1>6

LEMMA DailyAfterType ==
  ASSUME Parts, NEW k \in Keys, NEW read, NEW v \in Values
  PROVE  DailyAfter(k, read, v) \subseteq Dailies(Values)
<1> DEFINE Entry == [max : Values, known : BOOLEAN]
           add(entries) == {Extend(daily[k], DayOf(now), e) : e \in entries}
<1>1. \A entries \in SUBSET Entry : add(entries) \subseteq Dailies(Values)
  BY EntryType
<1>2. {[max |-> n, known |-> TRUE] : n \in DayTop(k, v) .. mode.most} \subseteq Entry
  <2>1. DayTop(k, v) \in Nat /\ mode.most \in Nat /\ Values = 0 .. mode.most
    BY EntryType, ValuesType DEF Parts
  <2>2. DayTop(k, v) .. mode.most \subseteq Values
    BY <2>1
  <2>3. \A n \in Values : [max |-> n, known |-> TRUE] \in Entry
    OBVIOUS
  <2> HIDE DEF Entry
  <2> QED BY <2>2, <2>3
<1>3. {[max |-> DayMax(k), known |-> FALSE]} \subseteq Entry
      /\ {[max |-> DayTop(k, v), known |-> TRUE]} \subseteq Entry
  BY EntryType
<1>4. {daily[k]} \subseteq Dailies(Values)
  BY DEF Parts, DailyOK
<1> HIDE DEF Entry
<1>5. add({[max |-> n, known |-> TRUE] : n \in DayTop(k, v) .. mode.most}) \subseteq Dailies(Values)
      /\ add({[max |-> DayMax(k), known |-> FALSE]}) \subseteq Dailies(Values)
      /\ add({[max |-> DayTop(k, v), known |-> TRUE]}) \subseteq Dailies(Values)
  BY <1>1, <1>2, <1>3
<1>6. DailyAfter(k, read, v) \in
        {{daily[k]}, add({[max |-> n, known |-> TRUE] : n \in DayTop(k, v) .. mode.most}),
         add({[max |-> DayMax(k), known |-> FALSE]}),
         add({[max |-> DayTop(k, v), known |-> TRUE]})}
  BY DEF DailyAfter
<1> QED BY <1>4, <1>5, <1>6

LEMMA CollectTyped == Parts /\ Collect => Parts'
<1> SUFFICES ASSUME Parts, Collect PROVE Parts'
  OBVIOUS
<1> USE DEF Parts
<1>0. /\ cycle.pc = "idle" /\ last < now /\ last' = now /\ now' = now /\ mode' = mode
      /\ UNCHANGED <<enabled, alerts, history, disk, moves, sent>>
  BY DEF Collect
<1> PICK read \in SUBSET Keys, quiet \in SUBSET Of({"blocked"}), value \in [Keys -> Values] :
      /\ IF read = Keys THEN UNCHANGED spent ELSE Meet("unread")
      /\ series' = [k \in Keys |->
                      IF k \in Sampled(read, quiet) THEN Extend(Within(series[k]), now, value[k])
                      ELSE Within(series[k])]
      /\ daily' \in
           {fn \in [Keys -> UNION {DailyAfter(k, read, value[k]) : k \in Keys}] :
              \A k \in Keys : fn[k] \in DailyAfter(k, read, value[k])}
      /\ readings' = [k \in Keys |->
                        IF k \in read \ quiet THEN Extend(Within(readings[k]), now, value[k])
                        ELSE Within(readings[k])]
      /\ cycle' = [pc |-> "evaluate", read |-> read]
  BY DEF Collect
<1>1. now \in Nat \ {0} /\ last \in Nat /\ last <= now
  BY Sizes DEF ClockOK
<1>2. ClockOK'
  BY <1>0, <1>1 DEF ClockOK
<1>3. \A fn \in Samples(Values, last) :
        /\ Within(fn) \in Samples(Values, now)
        /\ \A v \in Values : Extend(Within(fn), now, v) \in Samples(Values, now)
  BY <1>1, WithinType, ExtendType, LongerType
<1>4. disk.series \in [Keys -> Samples(Values, now)]
  BY <1>1, LongerType DEF SeriesOK
<1>5. SeriesOK'
  <2>1. series' \in [Keys -> Samples(Values, now)]
    BY <1>3 DEF SeriesOK
  <2>2. readings' \in [Keys -> Samples(Values, now)]
    BY <1>3 DEF SeriesOK
  <2> QED BY <1>0, <1>4, <2>1, <2>2, SameMode DEF SeriesOK
<1>6. DailyOK'
  <2>1. \A k \in Keys : daily'[k] \in Dailies(Values)
    BY DailyAfterType
  <2>2. daily' \in [Keys -> Dailies(Values)]
    BY <2>1
  <2> QED BY <1>0, <2>2, SameMode DEF DailyOK
<1>7. AlertsOK' /\ DiskOK'
  BY <1>0, SameMode DEF AlertsOK, DiskOK
<1>8. HistoryOK'
  <2>1. ASSUME NEW events, Stamped(events)
        PROVE  /\ events \subseteq [key : Keys, active : BOOLEAN, at : 1 .. now]
               /\ \A e \in events : e.at < now
    <3>1. 1 .. last \subseteq 1 .. now /\ \A t \in 1 .. last : t < now
      BY <1>0, <1>1
    <3>2. events \subseteq [key : Keys, active : BOOLEAN, at : 1 .. last]
      BY <2>1 DEF Stamped
    <3> QED BY <3>1, <3>2
  <2> QED BY <1>0, <2>1, SameMode DEF HistoryOK, Stamped
<1>9. CycleOK'
  BY <1>0, SameMode DEF CycleOK, Phases
<1>10. CountsOK'
  BY <1>0, SpentType, SameMode DEF CountsOK
<1> QED BY <1>2, <1>5, <1>6, <1>7, <1>8, <1>9, <1>10

(* Steps of the tail of a cycle, which leave time and samples alone.       *)
LEMMA TailTyped ==
  ASSUME Parts, UNCHANGED <<mode, now, last, series, daily, readings>>,
         disk'.series = disk.series \/ disk'.series = series,
         AlertsOK', HistoryOK', DiskOK', CycleOK', moves' \in [Keys -> Nat],
         sent' \in [Keys -> Nat], UNCHANGED spent \/ \E what : Meet(what)
  PROVE  Parts'
<1>1. ClockOK' /\ DailyOK'
  BY DailyKept DEF Parts, ClockOK
<1>2. SeriesOK'
  BY SameMode DEF Parts, SeriesOK
<1>3. CountsOK'
  BY SpentType, SameMode DEF Parts, CountsOK
<1> QED BY <1>1, <1>2, <1>3 DEF Parts

(* A step of the cycle's counter.                                          *)
LEMMA CycleStep ==
  ASSUME CycleOK, UNCHANGED <<mode, now, last>>, cycle.pc # "idle",
         \/ cycle' \in [pc : {"publish"}, read : SUBSET Keys, anomalous : SUBSET Keys]
         \/ cycle' \in [pc : {"process"}, read : SUBSET Keys, anomalous : SUBSET Keys]
         \/ cycle' \in [pc : {"save"}, changed : SUBSET Keys]
         \/ cycle' \in [pc : {"append"}, changed : SUBSET Keys]
         \/ cycle' \in [pc : {"send"}, todo : SUBSET Keys]
         \/ cycle' = Idle(FALSE)
  PROVE  CycleOK'
<1>1. SUBSET Keys' = SUBSET Keys
  BY SameMode
<1>2. cycle' \in Phases
  <2>1. CASE cycle' \in [pc : {"publish"}, read : SUBSET Keys, anomalous : SUBSET Keys]
    BY <2>1 DEF Phases
  <2>2. CASE cycle' \in [pc : {"process"}, read : SUBSET Keys, anomalous : SUBSET Keys]
    BY <2>2 DEF Phases
  <2>3. CASE cycle' \in [pc : {"save"}, changed : SUBSET Keys]
    BY <2>3 DEF Phases
  <2>4. CASE cycle' \in [pc : {"append"}, changed : SUBSET Keys]
    BY <2>4 DEF Phases
  <2>5. CASE cycle' \in [pc : {"send"}, todo : SUBSET Keys]
    BY <2>5 DEF Phases
  <2>6. CASE cycle' = Idle(FALSE)
    BY <2>6 DEF Phases, Idle
  <2> QED BY <2>1, <2>2, <2>3, <2>4, <2>5, <2>6
<1>3. Phases' = Phases
  BY <1>1 DEF Phases
<1> QED BY <1>2, <1>3 DEF CycleOK

(* The counter has the fields of its phase.                                *)
LEMMA PhaseOf ==
  ASSUME CycleOK
  PROVE  /\ cycle.pc = "evaluate" => cycle \in [pc : {"evaluate"}, read : SUBSET Keys]
         /\ cycle.pc \in {"publish", "process"} =>
              cycle \in [pc : {"publish", "process"}, read : SUBSET Keys, anomalous : SUBSET Keys]
         /\ cycle.pc \in {"save", "append"} =>
              cycle \in [pc : {"save", "append"}, changed : SUBSET Keys]
         /\ cycle.pc = "send" => cycle \in [pc : {"send"}, todo : SUBSET Keys]
         /\ cycle.pc # "idle" => last = now
BY DEF CycleOK, Phases

LEMMA EvaluateTyped == Parts /\ Evaluate => Parts'
<1> SUFFICES ASSUME Parts, Evaluate PROVE Parts'
  OBVIOUS
<1> USE DEF Parts
<1>1. cycle.read \in SUBSET Keys
  BY PhaseOf DEF Evaluate
<1>2. {k \in Of({"blocked"}) : BlockedAnomalous(k)} \in SUBSET Keys
  BY DEF Of
<1>3. cycle' \in [pc : {"publish"}, read : SUBSET Keys, anomalous : SUBSET Keys]
  BY <1>1, <1>2 DEF Evaluate
<1>4. CycleOK'
  BY <1>3, CycleStep DEF Evaluate
<1>5. AlertsOK' /\ DiskOK'
  BY SameMode DEF Evaluate, store, AlertsOK, DiskOK
<1>6. HistoryOK'
  BY HistoryKept DEF Evaluate, store, Earlier
<1> QED BY <1>4, <1>5, <1>6, TailTyped DEF Evaluate, store, ghosts, CountsOK

LEMMA PublishTyped == Parts /\ Publish => Parts'
<1> SUFFICES ASSUME Parts, Publish PROVE Parts'
  OBVIOUS
<1> USE DEF Parts
<1>1. cycle' \in [pc : {"process"}, read : SUBSET Keys, anomalous : SUBSET Keys]
  BY PhaseOf DEF Publish
<1>2. CycleOK'
  BY <1>1, CycleStep DEF Publish
<1>3. disk' = [series |-> series, alerts |-> disk.alerts, history |-> disk.history]
  BY DEF Publish, DiskOK
<1>4. AlertsOK' /\ DiskOK'
  BY <1>3, SameMode DEF Publish, store, AlertsOK, DiskOK
<1>5. HistoryOK'
  BY <1>3, HistoryKept DEF Publish, store, Earlier
<1> QED BY <1>2, <1>3, <1>4, <1>5, TailTyped DEF Publish, store, ghosts, CountsOK

(* What Process does to the alerts.                                        *)
Processed(known) ==
  /\ alerts' = (alerts \ known) \cup (Firing \cap known)
  /\ cycle' = IF Changed(alerts') = {} THEN Idle(FALSE)
              ELSE [pc |-> "save", changed |-> Changed(alerts')]

LEMMA ProcessTyped == Parts /\ Process => Parts'
<1> SUFFICES ASSUME Parts, Process PROVE Parts'
  OBVIOUS
<1> USE DEF Parts
<1>1. cycle.pc = "process" /\ cycle.read \in SUBSET Keys /\ cycle.anomalous \in SUBSET Keys
  BY PhaseOf DEF Process
<1>2. PICK current \in BOOLEAN : /\ UNCHANGED spent \/ Meet("settings")
                                 /\ Processed(Known(current))
  BY DEF Process, Processed
<1>3. alerts' \subseteq Keys
  BY <1>1, <1>2 DEF Processed, Firing, Of, AlertsOK
<1>4. Changed(alerts') \in SUBSET Keys
  BY <1>3 DEF Changed, AlertsOK
<1>5. cycle' = Idle(FALSE) \/ cycle' \in [pc : {"save"}, changed : SUBSET Keys]
  BY <1>2, <1>4 DEF Processed
<1>6. CycleOK'
  BY <1>1, <1>5, CycleStep DEF Process
<1>7. AlertsOK' /\ DiskOK'
  BY <1>3, SameMode DEF Process, AlertsOK, DiskOK
<1>8. HistoryOK'
  BY <1>1, HistoryKept DEF Process, Earlier
<1> QED BY <1>2, <1>6, <1>7, <1>8, TailTyped DEF Process, ghosts, CountsOK

LEMMA SaveStateTyped == Parts /\ SaveState => Parts'
<1> SUFFICES ASSUME Parts, SaveState PROVE Parts'
  OBVIOUS
<1> USE DEF Parts
<1>1. cycle' \in [pc : {"append"}, changed : SUBSET Keys]
  BY PhaseOf DEF SaveState
<1>2. CycleOK'
  BY <1>1, CycleStep DEF SaveState
<1>3. disk' \in {disk, [series |-> disk.series, alerts |-> alerts, history |-> disk.history]}
  BY DEF SaveState, StateSaved, DiskOK
<1>4. disk'.series = disk.series /\ disk'.history = disk.history
  BY <1>3
<1>5. AlertsOK' /\ DiskOK'
  BY <1>3, SameMode DEF SaveState, store, AlertsOK, DiskOK
<1>6. HistoryOK'
  BY <1>4, HistoryKept DEF SaveState, store, Earlier
<1>7. moves' \in [Keys -> Nat]
  BY DEF SaveState, CountsOK
<1> QED BY <1>2, <1>4, <1>5, <1>6, <1>7, TailTyped DEF SaveState, store, CountsOK

(* The event of a key says whether its alert is active.                    *)
LEMMA EventsType ==
  ASSUME NEW changed \in SUBSET Keys, now \in Nat \ {0}
  PROVE  /\ Events(changed) \subseteq [key : Keys, active : BOOLEAN, at : 1 .. now]
         /\ \A e \in Events(changed) :
              e.key \in changed /\ e.at = now /\ e.active = (e.key \in alerts)
<1>1. 1 <= now /\ now \in 1 .. now
  OBVIOUS
<1> SUFFICES ASSUME NEW e \in Events(changed)
             PROVE  /\ e \in [key : Keys, active : BOOLEAN, at : 1 .. now]
                    /\ e.key \in changed /\ e.at = now /\ e.active = (e.key \in alerts)
  OBVIOUS
<1> PICK k \in changed : e = [key |-> k, active |-> (k \in alerts), at |-> now]
  BY DEF Events
<1>2. CASE k \in alerts
  <2>1. e = [key |-> k, active |-> TRUE, at |-> now]
    BY <1>2
  <2> QED BY <1>1, <1>2, <2>1
<1>3. CASE k \notin alerts
  <2>0. (k \in alerts) = FALSE
    BY <1>3
  <2>1. e = [key |-> k, active |-> FALSE, at |-> now]
    BY <2>0, Zenon
  <2>2. e \in [key : Keys, active : BOOLEAN, at : 1 .. now]
        /\ e.key = k /\ e.at = now /\ e.active = FALSE
    BY <1>1, <2>1
  <2>3. (e.key \in alerts) = FALSE
    BY <1>3, <2>2
  <2> QED BY <2>2, <2>3
<1> QED BY <1>2, <1>3

LEMMA SaveHistoryTyped == Parts /\ SaveHistory => Parts'
<1> SUFFICES ASSUME Parts, SaveHistory PROVE Parts'
  OBVIOUS
<1> USE DEF Parts
<1>0. cycle.changed \in SUBSET Keys /\ last = now /\ now \in Nat \ {0}
  BY PhaseOf DEF SaveHistory, ClockOK
<1>1. cycle' \in [pc : {"send"}, todo : SUBSET Keys]
  BY <1>0 DEF SaveHistory, Announced
<1>2. CycleOK'
  BY <1>1, CycleStep DEF SaveHistory
<1>3. disk' \in {disk, [series |-> disk.series, alerts |-> disk.alerts, history |-> history']}
  BY DEF SaveHistory, DiskOK
<1>4. AlertsOK' /\ DiskOK' /\ disk'.series = disk.series
      /\ disk'.history \in {disk.history, history'}
  BY <1>3, SameMode DEF SaveHistory, AlertsOK, DiskOK
<1>5. history' \subseteq [key : Keys, active : BOOLEAN, at : 1 .. last]
  <2>1. Events(cycle.changed) \subseteq [key : Keys, active : BOOLEAN, at : 1 .. last]
    BY <1>0, EventsType
  <2>2. history \subseteq [key : Keys, active : BOOLEAN, at : 1 .. last]
    BY DEF HistoryOK, Stamped
  <2> QED BY <2>1, <2>2 DEF SaveHistory, Pruned
<1>6. HistoryOK'
  BY <1>1, <1>4, <1>5, SameMode DEF SaveHistory, HistoryOK, Stamped, Earlier
<1> QED BY <1>2, <1>4, <1>6, TailTyped DEF SaveHistory, ghosts, CountsOK

LEMMA SendTyped == Parts /\ Send => Parts'
<1> SUFFICES ASSUME Parts, Send PROVE Parts'
  OBVIOUS
<1> USE DEF Parts
<1>1. cycle' = Idle(FALSE) \/ cycle' \in [pc : {"send"}, todo : SUBSET Keys]
  BY PhaseOf DEF Send
<1>2. CycleOK'
  BY <1>1, CycleStep DEF Send
<1>3. AlertsOK' /\ DiskOK'
  BY SameMode DEF Send, store, AlertsOK, DiskOK
<1>4. HistoryOK'
  BY <1>1, HistoryKept DEF Send, store, Idle, Earlier
<1>5. sent' \in [Keys -> Nat]
  <2>1. ASSUME NEW k \in cycle.todo, sent' = [sent EXCEPT ![k] = @ + 1]
        PROVE  sent' \in [Keys -> Nat]
    <3>1. sent \in [Keys -> Nat] /\ k \in Keys
      BY PhaseOf DEF Send, CountsOK
    <3>2. sent[k] + 1 \in Nat
      BY <3>1
    <3> QED BY <2>1, <3>1, <3>2
  <2> QED BY <2>1 DEF Send, CountsOK
<1> QED BY <1>2, <1>3, <1>4, <1>5, TailTyped DEF Send, store, CountsOK

LEMMA SettingsTyped == Parts /\ Settings => Parts'
<1> SUFFICES ASSUME Parts, Settings PROVE Parts'
  OBVIOUS
<1> USE DEF Parts
<1>1. enabled' \subseteq Keys
  BY DEF Settings, Of, AlertsOK
<1>2. AlertsOK' /\ DiskOK' /\ CycleOK'
  BY <1>1, SameMode DEF Settings, store, AlertsOK, DiskOK, CycleOK, Phases
<1>3. HistoryOK'
  BY HistoryKept DEF Settings, store
<1> QED BY <1>2, <1>3, TailTyped DEF Settings, store, ghosts, CountsOK

LEMMA RestartTyped == Parts /\ Restart => Parts'
<1> SUFFICES ASSUME Parts, Restart PROVE Parts'
  OBVIOUS
<1> USE DEF Parts
<1>1. ClockOK' /\ DailyOK'
  BY DailyKept DEF Restart, ClockOK
<1>2. disk' = [series |-> disk.series, alerts |-> disk.alerts, history |-> history']
  BY DEF Restart, DiskOK
<1>3. SeriesOK'
  <2>1. series' \in [Keys -> Samples(Values, last)]
    BY WithinType DEF Restart, SeriesOK
  <2>2. readings' \in [Keys -> Samples(Values, last)]
    BY RestrictType DEF Restart, SeriesOK
  <2> QED BY <1>2, <2>1, <2>2, SameMode DEF Restart, SeriesOK
<1>4. AlertsOK' /\ DiskOK'
  BY <1>2, SameMode DEF Restart, AlertsOK, DiskOK
<1>5. HistoryOK'
  <2>1. history' \subseteq [key : Keys, active : BOOLEAN, at : 1 .. last]
    BY DEF Restart, Pruned, HistoryOK, Stamped
  <2>2. cycle'.pc \notin Earlier
    BY DEF Restart, Idle, Earlier
  <2> QED BY <1>2, <2>1, <2>2, SameMode DEF Restart, HistoryOK, Stamped
<1>6. CycleOK'
  BY DEF Restart, CycleOK, Phases, Idle
<1>7. CountsOK'
  BY SpentType, SameMode DEF Restart, CountsOK
<1> QED BY <1>1, <1>3, <1>4, <1>5, <1>6, <1>7

LEMMA NextTyped == Parts /\ [Next]_vars => Parts'
<1> SUFFICES ASSUME Parts, [Next]_vars PROVE Parts'
  OBVIOUS
<1>1. CASE UNCHANGED vars
  BY <1>1 DEF vars, store, ghosts, Parts, ClockOK, SeriesOK, DailyOK, AlertsOK, HistoryOK,
    Stamped, DiskOK, CycleOK, Phases, CountsOK, Keys, Values
<1> QED BY <1>1, TickTyped, CollectTyped, EvaluateTyped, PublishTyped, ProcessTyped,
      SaveStateTyped, SaveHistoryTyped, SendTyped, SettingsTyped, RestartTyped DEF Next

LEMMA PartsAlways == Spec => []Parts
BY InitTyped, NextTyped, PTL DEF Spec

(* Samples, days, events and counters keep their types, for any metrics    *)
(* and limits: property TypeOK.                                            *)
THEOREM Typed == Spec => []TypeOK
BY PartsAlways, PartsType, PTL

-----------------------------------------------------------------------------
(* What is sent *)

LEMMA SpentGrows ==
  Parts /\ [Next]_vars => \A what \in Troubles : spent[what] <= spent'[what]
<1> SUFFICES ASSUME Parts, [Next]_vars
             PROVE  \A what \in Troubles : spent[what] <= spent'[what]
  OBVIOUS
<1>1. CountsOK /\ spent \in [Troubles -> Nat]
  BY DEF Parts, CountsOK
<1>2. ASSUME UNCHANGED spent PROVE \A what \in Troubles : spent[what] <= spent'[what]
  BY <1>1, <1>2
<1>3. ASSUME NEW one, Meet(one) PROVE \A what \in Troubles : spent[what] <= spent'[what]
  <2> SUFFICES ASSUME NEW what \in Troubles PROVE spent[what] <= spent'[what]
    OBVIOUS
  <2>1. spent[what] \in Nat
    BY <1>1
  <2>2. spent'[what] = spent[what] \/ spent'[what] = spent[what] + 1
    BY <1>1, <1>3, MeetType
  <2> QED BY <2>1, <2>2
<1>4. UNCHANGED spent \/ \E one : Meet(one)
  <2>1. CASE Tick \/ Evaluate \/ Publish \/ Send \/ UNCHANGED vars
    BY <2>1 DEF Tick, Evaluate, Publish, Send, vars
  <2>2. CASE Collect
    <3>1. UNCHANGED spent \/ Meet("unread")
      BY <2>2 DEF Collect
    <3> QED BY <3>1
  <2>3. CASE Process
    <3>1. UNCHANGED spent \/ Meet("settings")
      BY <2>3 DEF Process
    <3> QED BY <3>1
  <2>4. CASE SaveState \/ SaveHistory
    <3>1. UNCHANGED spent \/ Meet("saves")
      BY <2>4 DEF SaveState, SaveHistory
    <3> QED BY <3>1
  <2>5. CASE Settings \/ Restart
    BY <2>5 DEF Settings, Restart
  <2> QED BY <2>1, <2>2, <2>3, <2>4, <2>5 DEF Next
<1> QED BY <1>2, <1>3, <1>4

(* A trouble that was not met after the step was not met before it.        *)
LEMMA Unmet ==
  ASSUME Parts, [Next]_vars, NEW what \in Troubles, spent'[what] = 0
  PROVE  spent[what] = 0 /\ ~Meet(what)
<1>1. spent[what] \in Nat /\ spent[what] <= spent'[what]
  BY SpentGrows DEF Parts, CountsOK
<1>2. spent[what] = 0
  BY <1>1
<1>3. ASSUME Meet(what) PROVE FALSE
  <2>1. spent'[what] = spent[what] + 1
    BY <1>3, MeetType DEF Parts
  <2> QED BY <1>2, <2>1
<1> QED BY <1>2, <1>3

(* As long as every save succeeds, the file is behind only between the     *)
(* update of the alerts and its save, by what changed; and a change is     *)
(* saved before its webhook is sent.                                       *)
Owed(k) ==
  \/ cycle.pc = "append" /\ k \in Announced(cycle.changed)
  \/ cycle.pc = "send" /\ k \in cycle.todo
Held ==
  /\ cycle.pc = "save" => cycle.changed = Changed(disk.alerts)
  /\ cycle.pc # "save" => alerts = disk.alerts
  /\ \A k \in Keys : sent[k] <= moves[k] /\ (Owed(k) => sent[k] + 1 <= moves[k])
SendsInv == spent.saves = 0 => Held

LEMMA HeldAside ==
  ASSUME Parts, Held, UNCHANGED <<mode, alerts, sent, moves>>, disk'.alerts = disk.alerts,
         \/ cycle' = cycle
         \/ cycle.pc # "save" /\ cycle'.pc \notin {"save", "append", "send"}
  PROVE  Held'
<1>1. Keys' = Keys
  BY SameMode
<1>2. \A keys : Announced(keys)' = Announced(keys)
  BY SameMode DEF Announced
<1>3. CASE cycle' = cycle
  BY <1>1, <1>2, <1>3 DEF Held, Owed, Changed
<1>4. CASE cycle.pc # "save" /\ cycle'.pc \notin {"save", "append", "send"}
  <2>1. \A k \in Keys : ~Owed(k)'
    BY <1>4 DEF Owed
  <2> QED BY <1>1, <1>4, <2>1 DEF Held
<1> QED BY <1>3, <1>4

LEMMA HeldNext ==
  ASSUME Parts, Held, spent'.saves = 0, [Next]_vars
  PROVE  Held'
<1>0. ~Meet("saves") /\ Keys' = Keys /\ Parts' /\ \A keys : Announced(keys)' = Announced(keys)
  <2>1. mode' = mode
    BY DEF Next, vars, Tick, Collect, Evaluate, Publish, Process, SaveState, SaveHistory, Send,
      Settings, Restart
  <2> QED BY <2>1, Unmet, SameMode, NextTyped DEF Troubles, Announced
<1>1. CASE Tick \/ Settings \/ UNCHANGED vars
  BY <1>1, HeldAside DEF Tick, Settings, store, ghosts, vars
<1>2. CASE Collect
  <2>1. cycle'.pc = "evaluate" /\ cycle.pc = "idle" /\ UNCHANGED <<mode, alerts, sent, moves, disk>>
    BY <1>2 DEF Collect
  <2> QED BY <2>1, HeldAside
<1>3. CASE Evaluate
  <2>1. cycle'.pc = "publish" /\ cycle.pc = "evaluate" /\ UNCHANGED <<mode, alerts, sent, moves, disk>>
    BY <1>3 DEF Evaluate, store, ghosts
  <2> QED BY <2>1, HeldAside
<1>4. CASE Publish
  <2>1. cycle'.pc = "process" /\ cycle.pc = "publish" /\ UNCHANGED <<mode, alerts, sent, moves>>
        /\ disk'.alerts = disk.alerts
    BY <1>4, PhaseOf DEF Publish, store, ghosts, Parts, DiskOK
  <2> QED BY <2>1, HeldAside
<1>5. CASE Process
  <2>1. PICK known : Processed(known)
    BY <1>5 DEF Process, Processed
  <2>2. /\ cycle.pc = "process" /\ alerts = disk.alerts
        /\ disk' = disk /\ sent' = sent /\ moves' = moves
    BY <1>5 DEF Process, Held, ghosts
  <2>3. CASE Changed(alerts') = {}
    <3>1. cycle'.pc = "idle" /\ alerts' = alerts
      BY <2>1, <2>3 DEF Processed, Idle, Changed
    <3> QED BY <1>0, <2>2, <3>1 DEF Held, Owed
  <2>4. CASE Changed(alerts') # {}
    <3>1. cycle'.pc = "save" /\ cycle'.changed = Changed(alerts')
      BY <2>1, <2>4 DEF Processed
    <3>2. Changed(alerts') = Changed(disk.alerts)'
      BY <2>2 DEF Changed
    <3> QED BY <1>0, <2>2, <3>1, <3>2 DEF Held, Owed
  <2> QED BY <2>3, <2>4
<1>6. CASE SaveState
  <2>1. disk' = StateSaved /\ UNCHANGED <<alerts, sent>>
        /\ moves' = [k \in Keys |-> moves[k] +
                       IF (k \in disk.alerts) = (k \in disk'.alerts) THEN 0 ELSE 1]
    BY <1>0, <1>6 DEF SaveState, store
  <2>2. cycle.changed = Changed(disk.alerts) /\ cycle'.changed = cycle.changed
        /\ cycle'.pc = "append"
    BY <1>6, PhaseOf DEF SaveState, Held, Parts
  <2>3. disk'.alerts = alerts
    BY <2>1 DEF StateSaved, Parts, DiskOK
  <2>4. ASSUME NEW k \in Keys
        PROVE  sent'[k] <= moves'[k] /\ (Owed(k)' => sent'[k] + 1 <= moves'[k])
    <3>1. sent[k] <= moves[k] /\ sent[k] \in Nat /\ moves[k] \in Nat
      BY DEF Held, Parts, CountsOK
    <3>2. CASE k \in cycle.changed
      <4>1. ~((k \in disk.alerts) = (k \in disk'.alerts))
        BY <2>2, <2>3, <3>2 DEF Changed
      <4>2. moves'[k] = moves[k] + 1
        BY <2>1, <4>1
      <4> QED BY <2>1, <3>1, <4>2
    <3>3. CASE k \notin cycle.changed
      <4>1. moves'[k] = moves[k] \/ moves'[k] = moves[k] + 1
        BY <2>1, <3>1
      <4>2. ~Owed(k)'
        BY <1>0, <2>2, <3>3 DEF Owed, Announced
      <4> QED BY <2>1, <3>1, <4>1, <4>2
    <3> QED BY <3>2, <3>3
  <2> QED BY <1>0, <2>1, <2>2, <2>3, <2>4 DEF Held
<1>7. CASE SaveHistory
  <2>1. /\ cycle.pc = "append" /\ cycle'.pc = "send" /\ cycle'.todo = Announced(cycle.changed)
        /\ UNCHANGED <<alerts, sent, moves>>
    BY <1>7 DEF SaveHistory, ghosts
  <2>2. disk'.alerts = disk.alerts
    BY <1>7 DEF SaveHistory, Parts, DiskOK
  <2>3. \A k \in Keys : Owed(k)' => Owed(k)
    BY <2>1 DEF Owed
  <2> QED BY <1>0, <2>1, <2>2, <2>3 DEF Held
<1>8. CASE Send
  <2>1. cycle.pc = "send" /\ UNCHANGED <<alerts, moves, disk>>
    BY <1>8 DEF Send, store
  <2>2. CASE cycle' = Idle(FALSE) /\ UNCHANGED sent
    <3>1. \A k \in Keys : ~Owed(k)'
      BY <2>2 DEF Owed, Idle
    <3> QED BY <1>0, <2>1, <2>2, <3>1 DEF Held, Idle
  <2>3. ASSUME NEW k \in cycle.todo, cycle' = [cycle EXCEPT !.todo = @ \ {k}],
               sent' = [sent EXCEPT ![k] = @ + 1]
        PROVE  Held'
    <3>1. cycle'.pc = "send" /\ cycle'.todo = cycle.todo \ {k} /\ k \in Keys
      BY <2>1, <2>3, PhaseOf DEF Parts
    <3>2. sent' = [j \in Keys |-> IF j = k THEN sent[k] + 1 ELSE sent[j]]
      BY <2>3, <3>1 DEF Parts, CountsOK
    <3>3. Owed(k) /\ ~Owed(k)'
      BY <2>1, <3>1 DEF Owed
    <3>4. \A j \in Keys : Owed(j)' => Owed(j)
      BY <2>1, <3>1 DEF Owed
    <3>5. \A j \in Keys : sent'[j] <= moves'[j] /\ (Owed(j)' => sent'[j] + 1 <= moves'[j])
      BY <2>1, <3>2, <3>3, <3>4 DEF Held
    <3> QED BY <1>0, <2>1, <3>1, <3>5 DEF Held
  <2> QED BY <1>8, <2>2, <2>3 DEF Send
<1>9. CASE Restart
  <2>1. cycle'.pc = "idle" /\ alerts' = disk.alerts /\ UNCHANGED <<sent, moves>>
    BY <1>9 DEF Restart, Idle
  <2>2. disk'.alerts = disk.alerts
    BY <1>9 DEF Restart, Parts, DiskOK
  <2> QED BY <1>0, <2>1, <2>2 DEF Held, Owed
<1> QED BY <1>1, <1>2, <1>3, <1>4, <1>5, <1>6, <1>7, <1>8, <1>9 DEF Next

LEMMA SendsAlways == Spec => []SendsInv
<1>1. Init => SendsInv
  BY DEF Init, SendsInv, Held, Owed, Idle
<1>2. Parts /\ SendsInv /\ [Next]_vars => SendsInv'
  <2> SUFFICES ASSUME Parts, SendsInv, [Next]_vars, spent'.saves = 0 PROVE Held'
    BY DEF SendsInv
  <2>1. spent.saves = 0
    BY Unmet DEF Troubles
  <2> QED BY <2>1, HeldNext DEF SendsInv
<1> QED BY <1>1, <1>2, PartsAlways, PTL DEF Spec

-----------------------------------------------------------------------------
(* What the history tells *)

(* The events of a key alternate, and the last one is as shown.            *)
After(events, e) == {f \in events : f.key = e.key /\ f.at > e.at}
Told(events, shown) ==
  \A e \in events :
    /\ \A f \in events : f.key = e.key /\ f.at = e.at => f = e
    /\ After(events, e) = {} => e.active = (e.key \in shown)
    /\ \A f \in After(events, e) :
         (\A g \in After(events, e) : f.at <= g.at) => f.active # e.active

(* The alerts the history is about: as they were before what changed, as   *)
(* long as that is not in it.                                              *)
Shown == IF cycle.pc \in {"save", "append"} THEN Changed(cycle.changed) ELSE alerts
TellsInv == spent.crashes = 0 => Told(history, Shown)

(* Pruning takes the oldest, so that what remains is told as before.       *)
LEMMA PrunedTold ==
  ASSUME now \in Nat, NEW events, \A e \in events : e.at \in Nat, NEW shown,
         Told(events, shown)
  PROVE  Told(Pruned(events), shown)
<1> SUFFICES ASSUME NEW e \in Pruned(events)
             PROVE  /\ \A f \in Pruned(events) : f.key = e.key /\ f.at = e.at => f = e
                    /\ After(Pruned(events), e) = {} => e.active = (e.key \in shown)
                    /\ \A f \in After(Pruned(events), e) :
                         (\A g \in After(Pruned(events), e) : f.at <= g.at) =>
                           f.active # e.active
  BY DEF Told
<1>1. e \in events /\ now - KeepTime <= e.at
  BY DEF Pruned
<1>2. \A f \in events : f.at > e.at => now - KeepTime <= f.at
  BY <1>1, Sizes
<1>3. After(Pruned(events), e) = After(events, e)
  BY <1>2 DEF After, Pruned
<1>4. Pruned(events) \subseteq events
  BY DEF Pruned
<1> QED BY <1>1, <1>3, <1>4 DEF Told

(* The events of what changed, after all others, bring it up to date.      *)
LEMMA AddedTold ==
  ASSUME Parts, now \in Nat \ {0}, NEW changed \in SUBSET Keys, NEW events,
         \A e \in events : e.at \in Nat /\ e.at < now /\ e.active \in BOOLEAN,
         Told(events, Changed(changed))
  PROVE  Told(events \cup Events(changed), alerts)
<1> DEFINE all == events \cup Events(changed)
<1>1. \A n \in Events(changed) :
        n.key \in changed /\ n.at = now /\ n.active = (n.key \in alerts) /\ n.active \in BOOLEAN
  BY EventsType
<1>2. \A m, n \in Events(changed) : m.key = n.key => m = n
  BY DEF Events
<1>3. \A k \in changed : \E n \in Events(changed) : n.key = k
  <2> SUFFICES ASSUME NEW k \in changed PROVE \E n \in Events(changed) : n.key = k
    OBVIOUS
  <2> DEFINE n == [key |-> k, active |-> (k \in alerts), at |-> now]
  <2>1. n \in Events(changed)
    BY DEF Events
  <2>2. n.key = k
    OBVIOUS
  <2> QED BY <2>1, <2>2
<1>4. ASSUME NEW n \in Events(changed)
      PROVE  /\ \A f \in all : f.key = n.key /\ f.at = n.at => f = n
             /\ After(all, n) = {} /\ n.active = (n.key \in alerts)
  <2>1. \A f \in events : f.at # now /\ ~(f.at > now)
    OBVIOUS
  <2>2. \A f \in Events(changed) : ~(f.at > now)
    BY <1>1
  <2> QED BY <1>1, <1>2, <2>1, <2>2 DEF After
<1>5. ASSUME NEW e \in events
      PROVE  /\ \A f \in all : f.key = e.key /\ f.at = e.at => f = e
             /\ After(all, e) = {} => e.active = (e.key \in alerts)
             /\ \A f \in After(all, e) :
                  (\A g \in After(all, e) : f.at <= g.at) => f.active # e.active
  <2>1. \A f \in Events(changed) : f.at # e.at /\ f.at > e.at
    BY <1>1, <1>5
  <2>2. \A f \in all : f.key = e.key /\ f.at = e.at => f = e
    BY <1>5, <2>1 DEF Told
  <2>3. CASE e.key \notin changed
    <3>1. After(all, e) = After(events, e)
      BY <1>1, <2>3 DEF After
    <3>2. (e.key \in Changed(changed)) = (e.key \in alerts)
      BY <2>3 DEF Changed
    <3> QED BY <1>5, <2>2, <3>1, <3>2 DEF Told
  <2>4. CASE e.key \in changed
    <3>1. PICK n \in Events(changed) : n.key = e.key
      BY <1>3, <2>4
    <3>2. After(all, e) = After(events, e) \cup {n}
      BY <1>2, <2>1, <3>1 DEF After
    <3>3. ASSUME After(events, e) = {} PROVE n.active # e.active
      <4>1. e.active = (e.key \in Changed(changed))
        BY <1>5, <3>3 DEF Told
      <4>2. (e.key \in Changed(changed)) = (e.key \notin alerts)
        BY <2>4 DEF Changed
      <4>3. n.active = (e.key \in alerts)
        BY <1>1, <3>1
      <4> QED BY <4>1, <4>2, <4>3
    <3>4. ASSUME NEW f \in After(all, e), \A g \in After(all, e) : f.at <= g.at
          PROVE  f.active # e.active
      <4>1. CASE After(events, e) = {}
        BY <3>2, <3>3, <4>1
      <4>2. CASE After(events, e) # {}
        <5>1. PICK g \in After(events, e) : TRUE
          BY <4>2
        <5>2. g \in events /\ g.at < now /\ g.at \in Nat /\ f.at <= g.at
          BY <3>2, <3>4, <5>1 DEF After
        <5>3. f # n
          BY <1>1, <5>2
        <5>4. f \in After(events, e)
          BY <3>2, <3>4, <5>3
        <5>5. \A h \in After(events, e) : f.at <= h.at
          BY <3>2, <3>4
        <5> QED BY <1>5, <5>4, <5>5 DEF Told
      <4> QED BY <4>1, <4>2
    <3>5. After(all, e) # {}
      BY <3>2
    <3> QED BY <2>2, <3>4, <3>5
  <2> QED BY <2>3, <2>4
<1> HIDE DEF all
<1>6. Told(all, alerts)
  BY <1>4, <1>5 DEF Told, all
<1> QED BY <1>6 DEF all

LEMMA TellsNext ==
  ASSUME Parts, Told(history, Shown), spent'.crashes = 0, [Next]_vars
  PROVE  Told(history, Shown)'
<1>1. /\ now \in Nat \ {0} /\ last \in Nat
      /\ \A e \in history : e.at \in Nat /\ e.active \in BOOLEAN
  BY Sizes DEF Parts, ClockOK, HistoryOK, Stamped
<1>2. ~Restart
  <2>1. "crashes" \in Troubles
    BY DEF Troubles
  <2> QED BY <2>1, Unmet DEF Restart
<1>3. ASSUME history' = history, Shown' = Shown PROVE Told(history, Shown)'
  BY <1>3 DEF Told, After
<1>4. CASE Tick \/ Settings \/ UNCHANGED vars
  BY <1>3, <1>4 DEF Tick, Settings, store, vars, Shown, Changed
<1>5. CASE Collect
  <2>1. /\ cycle.pc = "idle" /\ cycle'.pc = "evaluate"
        /\ UNCHANGED <<alerts, history>>
    BY <1>5 DEF Collect
  <2> QED BY <1>3, <2>1 DEF Shown
<1>6. CASE Evaluate \/ Publish
  <2>1. /\ cycle.pc \notin {"save", "append"} /\ cycle'.pc \notin {"save", "append"}
        /\ UNCHANGED <<alerts, history>>
    BY <1>6, PhaseOf DEF Evaluate, Publish, store, Parts
  <2> QED BY <1>3, <2>1 DEF Shown
<1>7. CASE Process
  <2>1. PICK known : Processed(known)
    BY <1>7 DEF Process, Processed
  <2>2. cycle.pc = "process" /\ history' = history
    BY <1>7 DEF Process
  <2>3. CASE Changed(alerts') = {}
    <3>1. cycle'.pc = "idle" /\ alerts' = alerts
      BY <2>1, <2>3 DEF Processed, Idle, Changed
    <3> QED BY <1>3, <2>2, <3>1 DEF Shown
  <2>4. CASE Changed(alerts') # {}
    <3>1. cycle'.pc = "save" /\ cycle'.changed = Changed(alerts')
      BY <2>1, <2>4 DEF Processed
    <3>2. Shown' = (alerts' \ Changed(alerts')) \cup (Changed(alerts') \ alerts')
      BY <3>1 DEF Shown, Changed
    <3>3. Shown' = alerts
      BY <3>2 DEF Changed
    <3> QED BY <1>3, <2>2, <3>3 DEF Shown
  <2> QED BY <2>3, <2>4
<1>8. CASE SaveState
  <2>1. cycle.pc = "save" /\ cycle'.pc = "append" /\ cycle'.changed = cycle.changed
        /\ UNCHANGED <<alerts, history>>
    BY <1>8, PhaseOf DEF SaveState, store, Parts
  <2> QED BY <1>3, <2>1 DEF Shown, Changed
<1>9. CASE SaveHistory
  <2>1. cycle.pc = "append" /\ cycle'.pc = "send" /\ alerts' = alerts
        /\ history' = Pruned(history \cup Events(cycle.changed))
    BY <1>9 DEF SaveHistory
  <2>2. cycle.changed \in SUBSET Keys /\ last = now /\ \A e \in history : e.at < now
    BY <2>1, PhaseOf DEF Parts, HistoryOK, Stamped, Earlier
  <2>3. Told(history, Changed(cycle.changed))
    BY <2>1 DEF Shown
  <2>4. Told(history \cup Events(cycle.changed), alerts)
    BY <1>1, <2>2, <2>3, AddedTold
  <2>5. \A e \in history \cup Events(cycle.changed) : e.at \in Nat
    BY <1>1, <2>2, EventsType
  <2>6. Told(Pruned(history \cup Events(cycle.changed)), alerts)
    BY <1>1, <2>4, <2>5, PrunedTold
  <2>7. Shown' = alerts
    BY <2>1 DEF Shown
  <2> QED BY <2>1, <2>6, <2>7 DEF Told, After
<1>10. CASE Send
  <2>1. /\ cycle.pc = "send" /\ cycle'.pc \in {"idle", "send"}
        /\ UNCHANGED <<alerts, history>>
    BY <1>10, PhaseOf DEF Send, store, Idle, Parts
  <2> QED BY <1>3, <2>1 DEF Shown
<1> QED BY <1>2, <1>4, <1>5, <1>6, <1>7, <1>8, <1>9, <1>10 DEF Next

LEMMA TellsAlways == Spec => []TellsInv
<1>1. Init => TellsInv
  BY DEF Init, TellsInv, Told
<1>2. Parts /\ TellsInv /\ [Next]_vars => TellsInv'
  <2> SUFFICES ASSUME Parts, TellsInv, [Next]_vars, spent'.crashes = 0
               PROVE  Told(history, Shown)'
    BY DEF TellsInv
  <2>1. spent.crashes = 0
    BY Unmet DEF Troubles
  <2> QED BY <2>1, TellsNext DEF TellsInv
<1> QED BY <1>1, <1>2, PartsAlways, PTL DEF Spec

(* Without a failed save a webhook goes out at most once for a change,     *)
(* after it was saved, however often the process stops; and until it       *)
(* stops, the events kept of a key alternate and end in the state its      *)
(* alert is in, whatever pruning took: property AlertsTold.                *)
THEOREM Announcements == Spec => []AlertsTold
<1>1. Parts /\ SendsInv /\ TellsInv => AlertsTold
  <2> SUFFICES ASSUME Parts, SendsInv, TellsInv PROVE SentOnce /\ HistoryTells
    BY DEF AlertsTold
  <2>1. SentOnce
    BY DEF SendsInv, Held, SentOnce
  <2>2. HistoryTells
    <3> SUFFICES ASSUME spent.crashes = 0, cycle.pc \in {"idle", "send"},
                        NEW k \in Keys, NEW e \in EventsOf(k),
                        NEW later, later = {f \in EventsOf(k) : f.at > e.at}
                 PROVE  /\ \A f \in EventsOf(k) : f.at = e.at => f = e
                        /\ later = {} => e.active = (k \in alerts)
                        /\ \A f \in later :
                             (\A g \in later : f.at <= g.at) => f.active # e.active
      BY DEF HistoryTells
    <3>1. Told(history, alerts)
      BY DEF TellsInv, Shown
    <3>2. e \in history /\ e.key = k /\ later = After(history, e)
      BY DEF EventsOf, After
    <3> QED BY <3>1, <3>2 DEF Told, EventsOf
  <2> QED BY <2>1, <2>2
<1> QED BY <1>1, PartsAlways, SendsAlways, TellsAlways, PTL

-----------------------------------------------------------------------------
(* What alerts move on *)

(* Of all metrics but VEN warnings and errors, the series holds, of the    *)
(* last 24 hours, the values the PCE gave and no others, and so does what  *)
(* was saved as far as it goes.                                            *)
Agree(fn, gn) ==
  \A t \in DOMAIN fn \cup DOMAIN gn : now - Horizon < t =>
    t \in DOMAIN fn /\ t \in DOMAIN gn /\ fn[t] = gn[t]
Included(fn, gn) ==
  \A t \in DOMAIN fn : now - Horizon < t => t \in DOMAIN gn /\ fn[t] = gn[t]
AgreeInv ==
  \A k \in Guarded : Agree(series[k], readings[k]) /\ Included(disk.series[k], readings[k])

(* What the cycle knows: a metric it read has a sample of this cycle, a    *)
(* target it holds anomalous exceeds what came before.                     *)
KnowsInv ==
  /\ cycle.pc \in {"evaluate", "publish", "process"} =>
       \A k \in cycle.read \cap Guarded : Kind(k) # "blocked" => now \in DOMAIN readings[k]
  /\ cycle.pc \in {"publish", "process"} /\ mode.source = "5m" =>
       \A k \in cycle.anomalous : Kind(k) = "blocked" /\ Raised(k)

LEMMA GuardedKinds ==
  /\ Guarded \subseteq Keys
  /\ \A k \in Guarded : Kind(k) # "health" /\ k \notin Of({"health"})
  /\ \A k \in Of({"blocked"}) : Kind(k) = "blocked" /\ k \in Guarded
  /\ \A k \in Guarded : Kind(k) = "blocked" => k \notin Of({"stopped", "tampering"})
  /\ \A k \in Guarded : Kind(k) # "blocked" => k \notin Of({"blocked"})
BY DEF Guarded, Of

LEMMA WithinAgree ==
  ASSUME NEW values, NEW n, NEW fn \in Samples(values, n), NEW gn \in Samples(values, n),
         Agree(fn, gn)
  PROVE  Within(fn) = Within(gn)
<1> DEFINE d == {t \in DOMAIN fn : now - Horizon < t}
           e == {t \in DOMAIN gn : now - Horizon < t}
<1>1. d = e /\ \A t \in d : fn[t] = gn[t]
  BY DEF Agree
<1> HIDE DEF d, e
<1>2. Restrict(fn, d) = Restrict(gn, e)
  BY <1>1 DEF Restrict
<1> QED BY <1>2 DEF Within, d, e

(* What the comparison with the moving average comes to.                   *)
LEMMA Exceeding ==
  ASSUME NEW latest \in Nat, NEW sum \in Nat, NEW n \in Nat \ {0},
         \/ sum > 0 /\ Exceeds(latest, sum, n)
         \/ latest > 0 /\ sum * 200 < n
         \/ latest > 0 /\ sum = 0
  PROVE  latest * n > sum
<1> PICK p \in Nat : p = latest * n
  OBVIOUS
<1>1. CASE sum > 0 /\ Exceeds(latest, sum, n)
  <2>1. Pct \in Nat
    BY Sizes
  <2> PICK q \in Nat : q = sum * Pct
    BY <2>1
  <2>2. p * 100 > sum * (100 + Pct)
    BY <1>1 DEF Exceeds
  <2>3. sum * (100 + Pct) = sum * 100 + q
    BY <2>1
  <2>4. p * 100 > sum * 100 + q
    BY <2>2, <2>3
  <2>5. p > sum
    BY <2>4
  <2> QED BY <2>5
<1>2. CASE latest > 0 /\ (sum * 200 < n \/ sum = 0)
  <2>1. \A m \in Nat : m > 0 => m * n >= n
    OBVIOUS
  <2>2. p >= n
    BY <1>2, <2>1
  <2>3. p > sum
    BY <1>2, <2>2
  <2> QED BY <2>3
<1> QED BY <1>1, <1>2

LEMMA RaisedWhen ==
  ASSUME Parts, AgreeInv, NEW k \in Guarded, mode.source = "5m", Established(k),
         \/ Anomalous(k)
         \/ /\ Latest(Within(series[k])) > 0
            /\ Sum(Basis(k)) * 200 < Cardinality(DOMAIN Basis(k)) \/ Sum(Basis(k)) = 0
  PROVE  Raised(k)
<1> DEFINE fn == Within(series[k])
           before == Newest(DOMAIN fn \ {Max(DOMAIN fn)}, Points)
           basis == Restrict(fn, before)
<1>1. series[k] \in Samples(Values, last) /\ readings[k] \in Samples(Values, last)
  BY GuardedKinds DEF Parts, SeriesOK
<1>2. fn = Within(readings[k])
  BY <1>1, WithinAgree DEF AgreeInv
<1>3. fn \in Samples(Values, last)
  BY <1>1, WithinType
<1>4. last \in Nat /\ mode.most \in Nat /\ Values = 0 .. mode.most
      /\ Points \in Nat \ {0}
  BY ValuesType, Sizes DEF Parts, ClockOK
<1>5. Cardinality(DOMAIN Basis(k)) = Points
  BY DEF Established
<1>6. DOMAIN fn # {} /\ Basis(k) = basis
  <2>1. CASE DOMAIN fn = {}
    <3>1. DOMAIN Basis(k) = {}
      BY <2>1 DEF Basis, Restrict
    <3> QED BY <1>4, <1>5, <3>1, FS_EmptySet
  <2>2. CASE DOMAIN fn # {}
    BY <2>2 DEF Basis
  <2> QED BY <2>1, <2>2
<1>7. DOMAIN basis = before
  BY DEF Restrict
<1>8. Latest(fn) \in Nat /\ Sum(basis) \in Nat
  <2>1. before \in SUBSET (DOMAIN fn)
    BY DEF Newest
  <2>2. basis \in Samples(Values, last)
    BY <1>3, <2>1, RestrictType
  <2>3. Sum(basis) \in Nat
    BY <1>4, <2>2, SumType
  <2>4. Values \in SUBSET Nat
    BY <1>4
  <2> QED BY <1>3, <1>4, <2>3, <2>4, LatestType
<1> HIDE DEF fn, before, basis
<1>9. \/ Sum(basis) > 0 /\ Exceeds(Latest(fn), Sum(basis), Points)
      \/ Latest(fn) > 0 /\ Sum(basis) * 200 < Points
      \/ Latest(fn) > 0 /\ Sum(basis) = 0
  BY <1>5, <1>6 DEF Anomalous, fn
<1>10. Latest(fn) * Points > Sum(basis)
  BY <1>4, <1>8, <1>9, Exceeding
<1>11. Cardinality(before) = Points
  BY <1>5, <1>6, <1>7
<1>12. DOMAIN fn # {} /\ Cardinality(before) = Points /\ Latest(fn) * Points > Sum(Restrict(fn, before))
  BY <1>6, <1>10, <1>11 DEF basis
<1> QED BY <1>2, <1>12 DEF Raised, before, fn

LEMMA SameGuarded ==
  ASSUME mode' = mode
  PROVE  Guarded' = Guarded /\ \A k : Kind(k)' = Kind(k)
BY SameMode DEF Guarded, Kind

LEMMA WindowMoves ==
  ASSUME NEW n \in Nat, NEW h \in Nat, NEW t \in Nat, n + 1 - h < t
  PROVE  n - h < t
OBVIOUS

LEMMA AgreeKept ==
  ASSUME Parts, AgreeInv, mode' = mode, now' \in {now, now + 1},
         UNCHANGED <<series, readings>>, disk'.series \in {disk.series, series}
  PROVE  AgreeInv'
<1>1. now \in Nat /\ Horizon \in Nat
  BY Sizes DEF Parts, ClockOK
<1>2. \A t \in Nat : now' - Horizon < t => now - Horizon < t
  <2>1. CASE now' = now
    BY <2>1
  <2>2. CASE now' = now + 1
    <3> PICK n \in Nat, h \in Nat : n = now /\ h = Horizon
      BY <1>1
    <3>1. \A t \in Nat : n + 1 - h < t => n - h < t
      BY WindowMoves
    <3>2. now' = n + 1
      BY <2>2
    <3> QED BY <3>1, <3>2
  <2> QED BY <2>1, <2>2
<1> SUFFICES ASSUME NEW k \in Guarded
             PROVE  Agree(series[k], readings[k])' /\ Included(disk.series[k], readings[k])'
  BY SameGuarded DEF AgreeInv
<1>3. /\ DOMAIN series[k] \subseteq 1 .. last /\ DOMAIN readings[k] \subseteq 1 .. last
      /\ DOMAIN disk.series[k] \subseteq 1 .. last /\ 1 .. last \subseteq Nat
  BY GuardedKinds, SampleOf DEF Parts, SeriesOK, ClockOK
<1>4. Agree(series[k], readings[k])'
  BY <1>2, <1>3 DEF AgreeInv, Agree
<1>5. Included(disk.series[k], readings[k])'
  BY <1>2, <1>3 DEF AgreeInv, Agree, Included
<1> QED BY <1>4, <1>5

LEMMA AgreeCollect == Parts /\ AgreeInv /\ Collect => AgreeInv'
<1> SUFFICES ASSUME Parts, AgreeInv, Collect PROVE AgreeInv'
  OBVIOUS
<1> PICK read \in SUBSET Keys, quiet \in SUBSET Of({"blocked"}), value \in [Keys -> Values] :
      /\ series' = [k \in Keys |->
                      IF k \in Sampled(read, quiet) THEN Extend(Within(series[k]), now, value[k])
                      ELSE Within(series[k])]
      /\ readings' = [k \in Keys |->
                        IF k \in read \ quiet THEN Extend(Within(readings[k]), now, value[k])
                        ELSE Within(readings[k])]
  BY DEF Collect
<1>1. mode' = mode /\ now' = now /\ disk' = disk /\ last < now /\ last \in Nat /\ now \in Nat
  BY Sizes DEF Collect, Parts, ClockOK
<1> SUFFICES ASSUME NEW k \in Guarded
             PROVE  Agree(series[k], readings[k])' /\ Included(disk.series[k], readings[k])'
  BY <1>1, SameGuarded DEF AgreeInv
<1>2. /\ series[k] \in Samples(Values, last) /\ readings[k] \in Samples(Values, last)
      /\ disk.series[k] \in Samples(Values, last) /\ k \in Keys
  BY GuardedKinds DEF Parts, SeriesOK
<1>3. Within(series[k]) = Within(readings[k])
  BY <1>2, WithinAgree DEF AgreeInv
<1>4. k \in Sampled(read, quiet) <=> k \in read \ quiet
  BY GuardedKinds DEF Sampled
<1>5. series'[k] = readings'[k]
  BY <1>2, <1>3, <1>4
<1>6. Agree(series[k], readings[k])'
  BY <1>5 DEF Agree
<1>7. ASSUME NEW t \in DOMAIN disk.series[k], now - Horizon < t
      PROVE  t \in DOMAIN readings'[k] /\ readings'[k][t] = disk.series[k][t]
  <2>1. t \in 1 .. last
    BY <1>2, SampleOf
  <2>2. t # now
    BY <1>1, <2>1
  <2>3. t \in DOMAIN readings[k] /\ readings[k][t] = disk.series[k][t]
    BY <1>7 DEF AgreeInv, Included
  <2>4. t \in DOMAIN Within(readings[k]) /\ Within(readings[k])[t] = disk.series[k][t]
    BY <1>7, <2>3 DEF Within, Restrict
  <2>5. readings'[k] \in {Within(readings[k]), Extend(Within(readings[k]), now, value[k])}
    BY <1>2
  <2> QED BY <2>2, <2>4, <2>5 DEF Extend
<1>8. Included(disk.series[k], readings[k])'
  BY <1>1, <1>7 DEF Included
<1> QED BY <1>6, <1>8

LEMMA AgreeRestart == Parts /\ AgreeInv /\ Restart => AgreeInv'
<1> SUFFICES ASSUME Parts, AgreeInv, Restart PROVE AgreeInv'
  OBVIOUS
<1>1. /\ mode' = mode /\ now' = now /\ disk'.series = disk.series
      /\ series' = [k \in Keys |-> Within(disk.series[k])]
      /\ readings' = [k \in Keys |-> Restrict(readings[k], DOMAIN readings[k] \cap DOMAIN series'[k])]
  BY DEF Restart, Parts, DiskOK
<1> SUFFICES ASSUME NEW k \in Guarded
             PROVE  Agree(series[k], readings[k])' /\ Included(disk.series[k], readings[k])'
  BY <1>1, SameGuarded DEF AgreeInv
<1>2. /\ series'[k] = Within(disk.series[k])
      /\ readings'[k] = Restrict(readings[k], DOMAIN readings[k] \cap DOMAIN series'[k])
  BY <1>1, GuardedKinds
<1>3. ASSUME NEW t \in DOMAIN disk.series[k], now - Horizon < t
      PROVE  /\ t \in DOMAIN series'[k] /\ t \in DOMAIN readings'[k]
             /\ series'[k][t] = disk.series[k][t] /\ readings'[k][t] = disk.series[k][t]
  <2>1. t \in DOMAIN readings[k] /\ readings[k][t] = disk.series[k][t]
    BY <1>3 DEF AgreeInv, Included
  <2>2. t \in DOMAIN series'[k] /\ series'[k][t] = disk.series[k][t]
    BY <1>2, <1>3 DEF Within, Restrict
  <2> QED BY <1>2, <2>1, <2>2 DEF Restrict
<1>4. \A t \in DOMAIN series'[k] \cup DOMAIN readings'[k] :
        t \in DOMAIN disk.series[k] /\ now - Horizon < t
  BY <1>2 DEF Within, Restrict
<1>5. Agree(series[k], readings[k])'
  BY <1>1, <1>3, <1>4 DEF Agree
<1>6. Included(disk.series[k], readings[k])'
  BY <1>1, <1>3 DEF Included
<1> QED BY <1>5, <1>6

LEMMA AgreeNext == Parts /\ AgreeInv /\ [Next]_vars => AgreeInv'
<1> SUFFICES ASSUME Parts, AgreeInv, [Next]_vars PROVE AgreeInv'
  OBVIOUS
<1>1. CASE Tick
  BY <1>1, AgreeKept DEF Tick, store, ghosts
<1>2. CASE Evaluate \/ Process \/ Send \/ Settings \/ UNCHANGED vars
  <2>1. UNCHANGED <<mode, now, series, readings, disk>>
    BY <1>2 DEF Evaluate, Process, Send, Settings, vars, store, ghosts
  <2> QED BY <2>1, AgreeKept
<1>3. CASE Publish
  <2>1. UNCHANGED <<mode, now, series, readings>> /\ disk'.series = series
    BY <1>3 DEF Publish, store, ghosts, Parts, DiskOK
  <2> QED BY <2>1, AgreeKept
<1>4. CASE SaveState \/ SaveHistory
  <2>1. UNCHANGED <<mode, now, series, readings>> /\ disk'.series = disk.series
    BY <1>4 DEF SaveState, SaveHistory, StateSaved, store, ghosts, Parts, DiskOK
  <2> QED BY <2>1, AgreeKept
<1> QED BY <1>1, <1>2, <1>3, <1>4, AgreeCollect, AgreeRestart DEF Next

-----------------------------------------------------------------------------
(* What the cycle learns stays so until it is processed.                   *)
LEMMA KnowsKept ==
  ASSUME Parts, KnowsInv, UNCHANGED <<mode, now, readings>>,
         \/ cycle' = cycle
         \/ cycle.pc = "publish" /\ cycle' = [cycle EXCEPT !.pc = "process"]
         \/ cycle'.pc \notin {"evaluate", "publish", "process"}
  PROVE  KnowsInv'
<1>1. Guarded' = Guarded /\ \A k : Kind(k)' = Kind(k) /\ Raised(k)' = Raised(k)
  BY SameGuarded DEF Raised, Within
<1>2. CASE cycle' = cycle
  BY <1>1, <1>2 DEF KnowsInv
<1>3. CASE cycle.pc = "publish" /\ cycle' = [cycle EXCEPT !.pc = "process"]
  <2>1. cycle'.pc = "process" /\ cycle'.read = cycle.read /\ cycle'.anomalous = cycle.anomalous
    BY <1>3, PhaseOf DEF Parts
  <2> QED BY <1>1, <1>3, <2>1 DEF KnowsInv
<1>4. CASE cycle'.pc \notin {"evaluate", "publish", "process"}
  BY <1>4 DEF KnowsInv
<1> QED BY <1>2, <1>3, <1>4

(* A target held anomalous has an established baseline, which it exceeds.  *)
LEMMA BlockedRaised ==
  ASSUME Parts, AgreeInv, mode.source = "5m", NEW k \in Of({"blocked"}), BlockedAnomalous(k)
  PROVE  Raised(k)
<1> DEFINE latest == Latest(Within(series[k]))
<1>1. k \in Guarded
  BY GuardedKinds
<1>2. CASE Anomalous(k)
  <2>1. Established(k)
    BY <1>2 DEF Anomalous
  <2> QED BY <1>1, <1>2, <2>1, RaisedWhen
<1>3. CASE ~Anomalous(k)
  <2>1. latest >= Floor /\ Floor > 0 /\ Established(k) /\ Sum(Basis(k)) = 0
    BY <1>3 DEF BlockedAnomalous
  <2>2. latest \in Nat
    <3>1. series[k] \in Samples(Values, last)
      BY <1>1, GuardedKinds DEF Parts, SeriesOK
    <3>2. Within(series[k]) \in Samples(Values, last) /\ last \in Nat /\ Values \in SUBSET Nat
      BY <3>1, WithinType, ValuesType DEF Parts, ClockOK
    <3> QED BY <3>2, LatestType
  <2>3. latest > 0
    BY <2>1, <2>2, Sizes
  <2> HIDE DEF latest
  <2> QED BY <1>1, <2>1, <2>3, RaisedWhen DEF latest
<1> QED BY <1>2, <1>3

LEMMA KnowsNext == Parts /\ AgreeInv /\ KnowsInv /\ [Next]_vars => KnowsInv'
<1> SUFFICES ASSUME Parts, AgreeInv, KnowsInv, [Next]_vars PROVE KnowsInv'
  OBVIOUS
<1>1. CASE Tick
  <2>1. cycle'.pc = "idle"
    BY <1>1 DEF Tick
  <2> QED BY <2>1 DEF KnowsInv
<1>2. CASE Collect
  <2>1. PICK read \in SUBSET Keys, quiet \in SUBSET Of({"blocked"}), value \in [Keys -> Values] :
          /\ readings' = [k \in Keys |->
                            IF k \in read \ quiet THEN Extend(Within(readings[k]), now, value[k])
                            ELSE Within(readings[k])]
          /\ cycle' = [pc |-> "evaluate", read |-> read]
    BY <1>2 DEF Collect
  <2>2. mode' = mode /\ now' = now
    BY <1>2 DEF Collect
  <2>3. ASSUME NEW k \in read \cap Guarded, Kind(k) # "blocked"
        PROVE  now \in DOMAIN readings'[k]
    <3>1. k \in read \ quiet /\ k \in Keys
      BY <2>3, GuardedKinds
    <3> QED BY <2>1, <3>1 DEF Extend
  <2> QED BY <2>1, <2>2, <2>3, SameGuarded DEF KnowsInv
<1>3. CASE Evaluate
  <2>1. /\ cycle.pc = "evaluate" /\ cycle'.pc = "publish" /\ cycle'.read = cycle.read
        /\ cycle'.anomalous = {k \in Of({"blocked"}) : BlockedAnomalous(k)}
        /\ UNCHANGED <<mode, now, readings>>
    BY <1>3 DEF Evaluate, ghosts
  <2>2. Guarded' = Guarded /\ \A k : Kind(k)' = Kind(k) /\ Raised(k)' = Raised(k)
    BY <2>1, SameGuarded DEF Raised, Within
  <2>3. mode.source = "5m" => \A k \in cycle'.anomalous : Kind(k) = "blocked" /\ Raised(k)
    BY <2>1, BlockedRaised, GuardedKinds
  <2> QED BY <2>1, <2>2, <2>3 DEF KnowsInv
<1>4. CASE Publish
  BY <1>4, KnowsKept DEF Publish, ghosts
<1>5. CASE Process
  <2>1. PICK known : Processed(known)
    BY <1>5 DEF Process, Processed
  <2>2. cycle'.pc \in {"idle", "save"}
    BY <2>1 DEF Processed, Idle
  <2> QED BY <2>2 DEF KnowsInv
<1>6. CASE SaveState \/ SaveHistory \/ Send \/ Restart
  <2>1. cycle'.pc \in {"append", "send", "idle"}
    BY <1>6, PhaseOf DEF SaveState, SaveHistory, Send, Restart, Idle, Parts
  <2> QED BY <2>1 DEF KnowsInv
<1>7. CASE Settings \/ UNCHANGED vars
  BY <1>7, KnowsKept DEF Settings, vars, ghosts
<1> QED BY <1>1, <1>2, <1>3, <1>4, <1>5, <1>6, <1>7 DEF Next

LEMMA EvidenceAlways == Spec => [](AgreeInv /\ KnowsInv)
<1>1. Init => AgreeInv /\ KnowsInv
  BY GuardedKinds DEF Init, AgreeInv, KnowsInv, Agree, Included, Nothing, Idle
<1> QED BY <1>1, AgreeNext, KnowsNext, PartsAlways, PTL DEF Spec

Evidence(k) ==
  Moved(k) => IF k \in alerts THEN ResolvedBy(k) ELSE mode.source = "5m" => Raised(k)

LEMMA ProcessEvidence ==
  ASSUME Parts, AgreeInv, KnowsInv, Process, NEW k \in Guarded, Moved(k)
  PROVE  IF k \in alerts THEN ResolvedBy(k) ELSE mode.source = "5m" => Raised(k)
<1>1. PICK current \in BOOLEAN : Processed(Known(current))
  BY DEF Process, Processed
<1>2. cycle.pc = "process"
  BY DEF Process
<1>3. k \in Known(current) /\ (k \notin alerts => k \in Firing)
  BY <1>1 DEF Processed, Moved
<1>4. /\ k \in cycle.read
      /\ Kind(k) # "blocked" => Ready(k) /\ k \in Of({"stopped", "tampering"})
  BY <1>3, GuardedKinds DEF Known
<1>5. CASE k \in alerts
  <2>1. Kind(k) # "blocked" => now \in DOMAIN readings[k] /\ Established(k)
    BY <1>2, <1>4 DEF KnowsInv, Ready
  <2> QED BY <1>4, <1>5, <2>1 DEF ResolvedBy
<1>6. CASE k \notin alerts /\ mode.source = "5m"
  <2>1. k \in cycle.anomalous \/ (Kind(k) # "blocked" /\ CountAnomalous(k))
    BY <1>3, <1>6, GuardedKinds DEF Firing
  <2>2. CASE k \in cycle.anomalous
    BY <1>2, <1>6, <2>2 DEF KnowsInv
  <2>3. CASE Kind(k) # "blocked" /\ CountAnomalous(k)
    <3>1. Established(k)
      BY <1>4, <2>3 DEF Ready
    <3> QED BY <1>6, <2>3, <3>1, RaisedWhen DEF CountAnomalous
  <2> QED BY <1>6, <2>1, <2>2, <2>3
<1> QED BY <1>5, <1>6

(* However queries fail, the process stops and settings change: an alert   *)
(* of a target, of stopped VENs or of tampering fires against the moving   *)
(* average only if the latest value the PCE gave exceeds the mean of those *)
(* before it, and recovers only in a cycle that read the metric: property  *)
(* MovedOnEvidence.                                                        *)
THEOREM OnEvidence == Spec => MovedOnEvidence
<1>1. ASSUME Parts, AgreeInv, KnowsInv, [Next]_vars
      PROVE  [\A k \in Guarded : Evidence(k)]_vars
  <2>1. CASE Process
    BY <1>1, <2>1, ProcessEvidence DEF Evidence
  <2>2. CASE ~Process
    <3>1. \A k : ~Moved(k)
      BY <1>1, <2>2, PhaseOf DEF Moved, Next, vars, Tick, Collect, Evaluate, Publish, SaveState,
        SaveHistory, Send, Settings, Restart, Idle, Parts
    <3> QED BY <3>1 DEF Evidence
  <2> QED BY <2>1, <2>2
<1> QED BY <1>1, PartsAlways, EvidenceAlways, PTL DEF Spec, MovedOnEvidence, Evidence
=============================================================================
