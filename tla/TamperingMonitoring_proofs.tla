--------------------- MODULE TamperingMonitoring_proofs ---------------------
(***************************************************************************)
(* What is charted of tampered workloads is what the PCE reported, for any *)
(* workloads, window, interval, older state and troubles.                  *)
(***************************************************************************)
EXTENDS TamperingMonitoring, FiniteSetTheorems, WellFoundedInduction, TLAPS

(* Types of a rolling state.                                               *)
Seens == UNION {[S -> 0 .. MaxTime] : S \in SUBSET Names}
Samples == [end : 0 .. MaxTime, complete : BOOLEAN \cup {None}, names : SUBSET Names]
Rolling ==
  [initialized : BOOLEAN, last : 0 .. MaxTime, captured : 0 .. MaxTime,
   baseline : SUBSET Names, seen : Seens, ready : BOOLEAN, pending : BOOLEAN,
   current : BOOLEAN, buckets : SUBSET Samples]

(* A rolling state, in memory or saved, is right of the events up to its   *)
(* last cycle: each sample; each time, once an exact list replaced what    *)
(* older releases left; and every workload's latest, unless a full read is *)
(* owed.                                                                   *)
Last(t) == t - Window + 1 .. t
SampleOK(b) ==
  b.end <= now /\ (b.complete = TRUE => b.names = Affected(b.end - Interval + 1 .. b.end))
SeenOK(s) ==
  s.current =>
    /\ s.initialized /\ s.ready
    /\ \A n \in DOMAIN s.seen : n \in Workloads /\ s.seen[n] \in Hits(n, Last(s.last))
Latest(seen, w, ts) == \A t \in Hits(w, ts) : w \in DOMAIN seen /\ t <= seen[w]
NothingOwed(s) ==
  s.current /\ ~s.pending => \A w \in Workloads : Latest(s.seen, w, Last(s.last))
RollingOK(s) ==
  /\ s \in Rolling /\ s.last <= now
  /\ \A b \in s.buckets : SampleOK(b)
  /\ SeenOK(s) /\ NothingOwed(s)
  /\ ~s.initialized => s = NoRolling

(* A daily history, in memory, copied or saved, and its reconciled days.   *)
DayFigures == [max : Nat, complete : BOOLEAN \cup {None}]
Past == 0 .. DayOf(now) - 1
HistoryOK(h, ex) ==
  /\ DOMAIN h \subseteq 0 .. DayOf(now) /\ h \in [DOMAIN h -> DayFigures]
  /\ \A d \in DOMAIN h :
       h[d].complete = TRUE => h[d].max <= Cardinality(Affected(DayTimes(d)))
  /\ ex \subseteq DOMAIN h
  /\ \A d \in ex :
       d \in Past /\ h[d] = [max |-> Cardinality(Affected(DayTimes(d))), complete |-> TRUE]

EnvOK ==
  /\ mode \in Modes /\ now \in Times
  /\ events \in [1 .. MaxTime -> SUBSET Workloads]
  /\ \A t \in 1 .. MaxTime : now < t => events[t] = {}
  /\ spent \in [Troubles -> Nat]
DiskOK ==
  /\ disk \in [rolling : {disk.rolling}, days : {disk.days}, marker : SUBSET Past, exact : {disk.exact}]
  /\ RollingOK(disk.rolling) /\ HistoryOK(disk.days, disk.exact)

(* A read holds events of the window only, and all of the stretch it was   *)
(* asked for if it is complete.                                            *)
Stretch(at, full) ==
  IF full THEN Last(at) ELSE Min({rolling.last, at - Interval}) + 1 .. at
ReadOK(read, at) ==
  /\ read = [complete |-> read.complete, full |-> Backfill(at), seen |-> read.seen]
  /\ read.complete \in BOOLEAN
  /\ read.seen \in Seens
  /\ \A n \in DOMAIN read.seen : n \in Workloads /\ read.seen[n] \in Hits(n, Last(at))
  /\ read.complete => \A w \in Workloads : Latest(read.seen, w, Stretch(at, read.full))
CycleOK ==
  /\ cycle.pc \in {"idle", "query", "account", "save", "write", "prune", "publish"}
  /\ cycle.pc # "idle" => cycle.at \in Window .. now
  /\ cycle.pc \in {"query", "account"} => rolling.last < cycle.at
  /\ cycle.pc = "query" => cycle.from = WindowStart(cycle.at) /\ cycle.full = Backfill(cycle.at)
  /\ cycle.pc = "account" => ReadOK(cycle.read, cycle.at)
  /\ cycle.pc \in {"save", "write"} => cycle.next \in {"prune", "publish"}
  /\ cycle.pc = "write" => HistoryOK(cycle.copy.days, cycle.copy.exact)

(* Without faults and restarts each day the job is done with is exact, or  *)
(* was written by a cycle afterwards, or pruned.                           *)
Kept(ds) == ds \cap DOMAIN days \subseteq exact \cup overrun
Quiet == spent.faults = 0 /\ spent.crashes = 0
JobOK ==
  /\ job.pc \in {"idle", "day", "write", "mark"}
  /\ job.pc = "day" =>
       job \in [pc : {"day"}, todo : SUBSET Past, asked : SUBSET Past,
                updated : BOOLEAN, failed : BOOLEAN]
  /\ job.pc \in {"write", "mark"} => job.asked \subseteq Past
  /\ job.pc = "write" => HistoryOK(job.copy.days, job.copy.exact)
  /\ Quiet =>
       /\ job.pc = "day" => ~job.failed /\ Kept(job.asked \ job.todo)
       /\ job.pc = "write" => ~job.failed
       /\ job.pc \in {"write", "mark"} => Kept(job.asked)
       /\ Kept(disk.marker)

(* What was shown last is right, and so is the day it was shown in.        *)
ShownOK ==
  shown # None =>
    /\ shown.at \in Window .. now
    /\ shown.complete => rolling.current
    /\ ListExact
    /\ shown.complete /\ DayOf(shown.at) \notin exact /\ DayOf(shown.at) \in DOMAIN days =>
         days[DayOf(shown.at)] =
           [max |-> Cardinality(Affected(DayOf(shown.at) * Window + 1 .. shown.at)), complete |-> TRUE]

FiguresInv ==
  /\ EnvOK /\ DiskOK /\ CycleOK /\ JobOK /\ ShownOK
  /\ RollingOK(rolling) /\ HistoryOK(days, exact)

-----------------------------------------------------------------------------
(* Numbers, days and sets                                                  *)

LEMMA Least ==
  ASSUME NEW S \in SUBSET Nat, S # {}
  PROVE  \E m \in S : \A n \in S : m <= n
<1>1. IsWellFoundedOn(OpToRel(<, Nat), Nat)
  BY NatLessThanWellFounded
<1>2. PICK m \in S : \A n \in S : ~(<<n, m>> \in OpToRel(<, Nat))
  BY <1>1, WFMin
<1>3. \A n \in S : ~(n < m)
  BY <1>2 DEF OpToRel
<1>4. m \in Nat /\ \A n \in S : n \in Nat
  OBVIOUS
<1> HIDE DEF OpToRel
<1> QED BY <1>3, <1>4

(* The latest of a nonempty set of times.                                  *)
LEMMA MaxOf ==
  ASSUME NEW m \in Nat, NEW S \in SUBSET (0 .. m), S # {}
  PROVE  Max(S) \in S /\ \A x \in S : x <= Max(S)
<1> DEFINE above == {y \in Nat : \A x \in S : x <= y}
<1>1. m \in above
  OBVIOUS
<1>2. PICK y \in above : \A z \in above : y <= z
  BY <1>1, Least
<1>3. y \in S
  <2> SUFFICES ASSUME y \notin S PROVE FALSE
    OBVIOUS
  <2>1. \A x \in S : x \in Nat /\ x < y
    BY <1>2
  <2>2. y # 0
    <3>1. PICK x \in S : TRUE
      OBVIOUS
    <3>2. x \in Nat /\ x < y
      BY <2>1
    <3> QED BY <3>2
  <2>3. y - 1 \in above /\ ~(y <= y - 1)
    BY <1>2, <2>1, <2>2
  <2> QED BY <1>2, <2>3
<1>4. \E x \in S : \A z \in S : x >= z
  BY <1>2, <1>3
<1>5. Max(S) \in S /\ \A z \in S : Max(S) >= z
  BY <1>4 DEF Max
<1> QED BY <1>5

LEMMA MinOf ==
  ASSUME NEW a \in Int, NEW b \in Int
  PROVE  Min({a, b}) \in {a, b} /\ Min({a, b}) <= a /\ Min({a, b}) <= b
<1>1. \E x \in {a, b} : \A y \in {a, b} : x <= y
  OBVIOUS
<1>2. Min({a, b}) \in {a, b} /\ \A y \in {a, b} : Min({a, b}) <= y
  BY <1>1 DEF Min
<1> QED BY <1>2

LEMMA Bounds ==
  /\ Window \in Nat /\ Interval \in Nat /\ MaxGap \in Nat /\ MaxTime \in Nat
  /\ 0 < Interval /\ Interval <= MaxGap /\ MaxGap < Window /\ Window < MaxTime
BY TimeAssumption

(* A time lies in its day, and later times in no earlier day.              *)
LEMMA InDay ==
  ASSUME NEW t \in Nat
  PROVE  /\ DayOf(t) \in Nat
         /\ DayOf(t) * Window <= t /\ t < (DayOf(t) + 1) * Window
BY Bounds DEF DayOf

LEMMA DayOrder ==
  ASSUME NEW t \in Nat, NEW d \in Nat
  PROVE  /\ d < DayOf(t) => (d + 1) * Window <= t
         /\ d * Window <= t => d <= DayOf(t)
         /\ d \in Nat /\ DayOf(t) \in Nat
<1>1. DayOf(t) \in Nat /\ DayOf(t) * Window <= t /\ t < (DayOf(t) + 1) * Window
  BY InDay
<1>2. \A a, b \in Nat : a <= b => a * Window <= b * Window
  BY Bounds
<1>3. d < DayOf(t) => (d + 1) * Window <= t
  <2> HAVE d < DayOf(t)
  <2>1. d + 1 \in Nat /\ d + 1 <= DayOf(t)
    BY <1>1
  <2>2. (d + 1) * Window <= DayOf(t) * Window
    BY <1>1, <1>2, <2>1
  <2>3. (d + 1) * Window \in Nat /\ DayOf(t) * Window \in Nat
    BY <1>1, Bounds
  <2> QED BY <1>1, <2>2, <2>3
<1>4. d * Window <= t => d <= DayOf(t)
  <2> SUFFICES ASSUME d * Window <= t, DayOf(t) + 1 <= d PROVE FALSE
    BY <1>1
  <2>1. (DayOf(t) + 1) * Window <= d * Window
    BY <1>1, <1>2
  <2>2. (DayOf(t) + 1) * Window \in Nat /\ d * Window \in Nat
    BY <1>1, Bounds
  <2> QED BY <1>1, <2>1, <2>2
<1> QED BY <1>1, <1>3, <1>4

LEMMA DayGrows ==
  ASSUME NEW t \in Nat, NEW u \in Nat, t <= u
  PROVE  DayOf(t) <= DayOf(u)
<1>1. DayOf(t) \in Nat /\ DayOf(t) * Window <= t
  BY InDay
<1>2. DayOf(t) * Window \in Nat
  BY <1>1, Bounds
<1>3. DayOf(t) * Window <= u
  BY <1>1, <1>2
<1> QED BY <1>1, <1>3, DayOrder

LEMMA FirstDay == DayOf(Window) = 1 /\ DayOf(Window) \in Nat
<1>1. DayOf(Window) \in Nat
  BY InDay, Bounds
<1>2. 1 <= DayOf(Window)
  <2>1. 1 * Window <= Window
    BY Bounds
  <2> QED BY <2>1, DayOrder, Bounds
<1>3. ~(1 < DayOf(Window))
  <2> SUFFICES ASSUME 1 < DayOf(Window) PROVE FALSE
    OBVIOUS
  <2>1. (1 + 1) * Window <= Window
    BY DayOrder, Bounds
  <2> QED BY <2>1, Bounds
<1> QED BY <1>1, <1>2, <1>3

(* Counts of workloads.                                                    *)
LEMMA Counted ==
  ASSUME NEW S \in SUBSET Names
  PROVE  IsFiniteSet(S) /\ Cardinality(S) \in Nat
BY NamesAssumption, FS_Subset, FS_CardinalityType

LEMMA CountGrows ==
  ASSUME NEW S \in SUBSET Names, NEW T \in SUBSET S
  PROVE  Cardinality(T) \in Nat /\ Cardinality(T) <= Cardinality(S)
BY Counted, FS_Subset

LEMMA AffectedNames == \A ts : Affected(ts) \in SUBSET Workloads /\ Affected(ts) \in SUBSET Names
BY DEF Affected, Names

-----------------------------------------------------------------------------
(* Events of the past do not change                                        *)

LEMMA MoreHits ==
  ASSUME EnvOK, NEW ts, NEW us, ts \cap 1 .. MaxTime \subseteq us
  PROVE  Affected(ts) \subseteq Affected(us)
BY DEF Affected, Hits, EnvOK

(* No workload was tampered with after now.                                *)
LEMMA NoneAhead ==
  ASSUME EnvOK, NEW w, NEW ts
  PROVE  \A t \in Hits(w, ts) : t \in ts /\ t \in 1 .. now /\ t \in 1 .. MaxTime /\ w \in events[t]
<1>1. now \in Nat /\ MaxTime \in Nat
  BY Bounds DEF EnvOK, Times
<1>2. \A t \in 1 .. MaxTime : w \in events[t] => t <= now
  BY <1>1 DEF EnvOK
<1> QED BY <1>1, <1>2 DEF Hits, EnvOK

SoFar(ts) == \A t \in ts : t \in Int /\ t <= now
Unchanging ==
  /\ now <= now'
  /\ \A w : \A ts : SoFar(ts) => Hits(w, ts)' = Hits(w, ts)
  /\ \A ts : SoFar(ts) => Affected(ts)' = Affected(ts)
  /\ \A ts : Affected(ts) \subseteq Affected(ts)'
LEMMA TickUnchanging ==
  ASSUME EnvOK, Tick
  PROVE  Unchanging /\ EnvOK' /\ now' = now + 1
<1>1. now \in Nat /\ MaxTime \in Nat /\ now < MaxTime /\ now' = now + 1 /\ now' \in Times
  BY Bounds DEF EnvOK, Times, Tick
<1>2. events \in [1 .. MaxTime -> SUBSET Workloads] /\ \A t \in 1 .. MaxTime : now < t => events[t] = {}
  BY DEF EnvOK
<1>3. \/ events' = events
      \/ \E w \in Workloads : events' = [events EXCEPT ![now + 1] = {w}]
  BY DEF Tick
<1>4. /\ events' \in [1 .. MaxTime -> SUBSET Workloads]
      /\ \A t \in 1 .. MaxTime : t # now + 1 => events'[t] = events[t]
  <2>1. CASE events' = events
    BY <2>1, <1>2
  <2>2. CASE \E w \in Workloads : events' = [events EXCEPT ![now + 1] = {w}]
    BY <2>2, <1>2
  <2> QED BY <1>3, <2>1, <2>2
<1>5. \A t \in 1 .. MaxTime : now' < t => events'[t] = {}
  BY <1>1, <1>2, <1>4
<1>6. EnvOK'
  BY <1>1, <1>4, <1>5 DEF EnvOK, Tick
<1>7. ASSUME NEW w, NEW ts, SoFar(ts) PROVE Hits(w, ts)' = Hits(w, ts)
  <2>1. DOMAIN events = 1 .. MaxTime /\ DOMAIN events' = 1 .. MaxTime
    BY <1>2, <1>4
  <2>2. \A t \in ts \cap 1 .. MaxTime : events'[t] = events[t]
    BY <1>1, <1>4, <1>7 DEF SoFar
  <2> QED BY <2>1, <2>2 DEF Hits
<1>8. ASSUME NEW ts, SoFar(ts) PROVE Affected(ts)' = Affected(ts)
  <2>1. \A w : Hits(w, ts)' = Hits(w, ts)
    BY <1>7, <1>8
  <2> QED BY <2>1 DEF Affected
<1>9. ASSUME NEW ts PROVE Affected(ts) \subseteq Affected(ts)'
  <2>1. DOMAIN events = 1 .. MaxTime /\ DOMAIN events' = 1 .. MaxTime
    BY <1>2, <1>4
  <2>2. \A t \in 1 .. MaxTime : events[t] = {} \/ events'[t] = events[t]
    BY <1>1, <1>2, <1>4
  <2>3. \A w : Hits(w, ts) \subseteq Hits(w, ts)'
    BY <2>1, <2>2 DEF Hits
  <2> QED BY <2>3 DEF Affected
<1> QED BY <1>1, <1>6, <1>7, <1>8, <1>9 DEF Unchanging

LEMMA SameUnchanging ==
  ASSUME EnvOK, UNCHANGED env
  PROVE  Unchanging
<1>1. now \in Nat
  BY Bounds DEF EnvOK, Times
<1> QED BY <1>1 DEF Unchanging, Hits, Affected, env

-----------------------------------------------------------------------------
(* What is read                                                            *)

LEMMA SummaryOf ==
  ASSUME NEW read \in SUBSET (Workloads \X (0 .. MaxTime))
  PROVE  /\ Summary(read) \in Seens
         /\ DOMAIN Summary(read) = {e[1] : e \in read}
         /\ \A w \in DOMAIN Summary(read) : <<w, Summary(read)[w]>> \in read /\ w \in Workloads
         /\ \A e \in read : e[1] \in DOMAIN Summary(read) /\ e[2] <= Summary(read)[e[1]]
<1> DEFINE D == {e[1] : e \in read}
           T(w) == {e[2] : e \in {x \in read : x[1] = w}}
<1>1. Summary(read) = [w \in D |-> Max(T(w))]
  BY DEF Summary
<1>2. ASSUME NEW w \in D
      PROVE  /\ w \in Workloads /\ Max(T(w)) \in 0 .. MaxTime /\ <<w, Max(T(w))>> \in read
             /\ \A t \in T(w) : t <= Max(T(w))
  <2>1. PICK e \in read : e[1] = w
    OBVIOUS
  <2>2. T(w) \subseteq 0 .. MaxTime /\ e[2] \in T(w) /\ w \in Workloads
    BY <2>1
  <2>3. T(w) \in SUBSET (0 .. MaxTime) /\ T(w) # {} /\ MaxTime \in Nat
    BY <2>2, Bounds
  <2>4. Max(T(w)) \in T(w) /\ \A x \in T(w) : x <= Max(T(w))
    <3> HIDE DEF T
    <3> QED BY <2>3, MaxOf
  <2>5. PICK f \in read : f[1] = w /\ f[2] = Max(T(w))
    <3>1. \A x \in T(w) : \E f \in read : f[1] = w /\ f[2] = x
      OBVIOUS
    <3> HIDE DEF T
    <3> QED BY <2>4, <3>1
  <2>6. f = <<w, Max(T(w))>>
    <3> HIDE DEF T
    <3> QED BY <2>5
  <2> HIDE DEF T
  <2> QED BY <2>2, <2>4, <2>5, <2>6
<1>3. \A e \in read : e[1] \in D /\ e[2] \in T(e[1])
  OBVIOUS
<1>4. D \in SUBSET Names
  BY <1>2 DEF Names
<1> HIDE DEF D, T
<1>5. Summary(read) \in [D -> 0 .. MaxTime]
  BY <1>1, <1>2
<1>6. Summary(read) \in Seens
  BY <1>4, <1>5 DEF Seens
<1>7. DOMAIN Summary(read) = D
  BY <1>1
<1>8. \A w \in D : <<w, Summary(read)[w]>> \in read /\ w \in Workloads
  BY <1>1, <1>2
<1>9. \A e \in read : e[1] \in D /\ e[2] <= Summary(read)[e[1]]
  BY <1>1, <1>2, <1>3
<1> QED BY <1>6, <1>7, <1>8, <1>9 DEF D

(* Where the window begins: a day before, or no later than the last cycle  *)
(* and the sample.                                                         *)
LEMMA WindowFacts ==
  ASSUME EnvOK, RollingOK(rolling), NEW at \in Window .. now, rolling.last < at
  PROVE  /\ Backfill(at) \in BOOLEAN /\ WindowStart(at) \in Nat /\ at - Window <= WindowStart(at)
         /\ WindowStart(at) + 1 .. at = Stretch(at, Backfill(at))
         /\ ~Backfill(at) => /\ rolling.initialized /\ rolling.ready /\ rolling.current /\ ~rolling.pending
                             /\ at - rolling.last < Window
                             /\ WindowStart(at) <= rolling.last /\ WindowStart(at) <= at - Interval
<1>1. at \in Nat /\ rolling.last \in Nat /\ Window \in Nat /\ Interval \in Nat /\ MaxGap \in Nat
      /\ Interval <= MaxGap /\ MaxGap < Window /\ Window <= at /\ 0 < Interval
  BY Bounds DEF EnvOK, Times, RollingOK, Rolling
<1>2. Backfill(at) \in BOOLEAN
  BY DEF Backfill, RollingOK, Rolling
<1>3. CASE Backfill(at)
  <2>1. WindowStart(at) = at - Window /\ WindowStart(at) + 1 = at - Window + 1
    BY <1>3 DEF WindowStart
  <2>2. WindowStart(at) \in Nat
    BY <1>1, <2>1
  <2> QED BY <1>1, <1>2, <1>3, <2>1, <2>2 DEF Stretch, Last
<1>4. CASE ~Backfill(at)
  <2>1. rolling.initialized /\ rolling.ready /\ rolling.current /\ ~rolling.pending
        /\ ~(at - rolling.last > MaxGap)
    BY <1>4 DEF Backfill
  <2>2. CycleStart(at) = rolling.last
    BY <1>1, <2>1 DEF CycleStart
  <2>3. WindowStart(at) = Min({rolling.last, at - Interval})
    BY <1>4, <2>2 DEF WindowStart
  <2> DEFINE m == Min({rolling.last, at - Interval})
  <2>4. m \in {rolling.last, at - Interval} /\ m <= rolling.last /\ m <= at - Interval
    <3>1. rolling.last \in Int /\ at - Interval \in Int
      BY <1>1
    <3> QED BY <3>1, MinOf
  <2>5. WindowStart(at) + 1 .. at = Stretch(at, Backfill(at))
    BY <1>4, <2>3 DEF Stretch
  <2> HIDE DEF m
  <2>6. m \in Nat /\ at - Window <= m /\ at - rolling.last < Window
    BY <1>1, <2>1, <2>4
  <2>7. WindowStart(at) = m
    BY <2>3 DEF m
  <2> QED BY <1>2, <1>4, <2>1, <2>4, <2>5, <2>6, <2>7
<1> QED BY <1>2, <1>3, <1>4

LEMMA ReadSound ==
  ASSUME EnvOK, RollingOK(rolling), CycleOK, cycle.pc = "query",
         NEW found \in SUBSET Asked, NEW complete \in BOOLEAN, complete => found = Asked
  PROVE  ReadOK([complete |-> complete, full |-> cycle.full, seen |-> Summary(found)], cycle.at)
<1> DEFINE at == cycle.at
           seen == Summary(found)
<1>1. at \in Window .. now /\ rolling.last < at /\ cycle.from = WindowStart(at) /\ cycle.full = Backfill(at)
  BY DEF CycleOK
<1>2. at \in Nat /\ now \in Nat /\ Window \in Nat /\ MaxTime \in Nat /\ at <= now /\ now <= MaxTime
      /\ at - Window \in Nat
  BY <1>1, Bounds DEF EnvOK, Times
<1>3. /\ cycle.from \in Nat /\ at - Window <= cycle.from
      /\ cycle.from + 1 .. at = Stretch(at, Backfill(at))
  BY <1>1, WindowFacts
<1>4. Asked = {e \in Workloads \X (cycle.from + 1 .. at) : e[1] \in events[e[2]]}
  BY DEF Asked
<1>5. \A e \in Asked : e[1] \in Workloads /\ e[2] \in cycle.from + 1 .. at /\ e[1] \in events[e[2]]
                       /\ e = <<e[1], e[2]>>
  BY <1>4
<1>6. \A w \in Workloads : \A t \in cycle.from + 1 .. at : w \in events[t] => <<w, t>> \in Asked
  BY <1>4
<1>7. cycle.from + 1 .. at \subseteq Last(at) /\ Last(at) \subseteq 1 .. MaxTime
  BY <1>2, <1>3 DEF Last
<1>8. found \in SUBSET (Workloads \X (0 .. MaxTime))
  <2>1. 1 .. MaxTime \subseteq 0 .. MaxTime
    BY <1>2
  <2>2. \A e \in found : e \in Workloads \X (0 .. MaxTime)
    BY <1>5, <1>7, <2>1
  <2> QED BY <2>2
<1> HIDE DEF at, seen
<1>9. /\ seen \in Seens /\ \A w \in DOMAIN seen : <<w, seen[w]>> \in found /\ w \in Workloads
      /\ \A e \in found : e[1] \in DOMAIN seen /\ e[2] <= seen[e[1]]
  BY <1>8, SummaryOf DEF seen
<1>10. \A w \in DOMAIN seen : w \in Workloads /\ seen[w] \in Hits(w, Last(at))
  <2> TAKE w \in DOMAIN seen
  <2>1. <<w, seen[w]>> \in Asked
    BY <1>9
  <2>2. seen[w] \in cycle.from + 1 .. at /\ w \in events[seen[w]]
    BY <2>1, <1>5
  <2> QED BY <1>7, <1>9, <2>2 DEF Hits, EnvOK
<1>11. ASSUME complete, NEW w \in Workloads PROVE Latest(seen, w, Stretch(at, cycle.full))
  <2> SUFFICES ASSUME NEW t \in Hits(w, Stretch(at, cycle.full)) PROVE w \in DOMAIN seen /\ t <= seen[w]
    BY DEF Latest
  <2>1. t \in cycle.from + 1 .. at /\ w \in events[t]
    BY <1>1, <1>3 DEF Hits, at
  <2>2. <<w, t>> \in found
    BY <1>6, <1>11, <2>1
  <2>3. <<w, t>>[1] = w /\ <<w, t>>[2] = t
    OBVIOUS
  <2> QED BY <1>9, <2>2, <2>3
<1> DEFINE read == [complete |-> complete, full |-> cycle.full, seen |-> seen]
<1>12. read.complete = complete /\ read.full = cycle.full /\ read.seen = seen
  OBVIOUS
<1>13. read = [complete |-> read.complete, full |-> Backfill(at), seen |-> read.seen]
  BY <1>1 DEF at
<1> HIDE DEF read
<1>14. ReadOK(read, at)
  BY <1>9, <1>10, <1>11, <1>12, <1>13 DEF ReadOK
<1> QED BY <1>14 DEF read, at, seen

-----------------------------------------------------------------------------
(* The rolling state a cycle leaves                                        *)

Done(read) == read.complete /\ read.full

LEMMA MergedFacts ==
  ASSUME NEW s, s.seen \in Seens, NEW read, read.seen \in Seens
  PROVE  /\ Merged(s, read) \in Seens
         /\ DOMAIN Merged(s, read) =
              (IF Migrating(s, read) THEN {} ELSE DOMAIN s.seen) \cup DOMAIN read.seen
         /\ \A n \in DOMAIN Merged(s, read) :
              \/ n \in DOMAIN read.seen /\ Merged(s, read)[n] = read.seen[n]
              \/ ~Migrating(s, read) /\ n \in DOMAIN s.seen /\ Merged(s, read)[n] = s.seen[n]
         /\ \A n \in DOMAIN read.seen : read.seen[n] <= Merged(s, read)[n]
         /\ ~Migrating(s, read) => \A n \in DOMAIN s.seen : s.seen[n] <= Merged(s, read)[n]
<1> DEFINE old == IF Migrating(s, read) THEN NoEvents ELSE s.seen
           m == Merged(s, read)
           D == DOMAIN old \cup DOMAIN read.seen
<1>1. MaxTime \in Nat
  BY Bounds
<1>2. PICK R \in SUBSET Names : read.seen \in [R -> 0 .. MaxTime]
  BY DEF Seens
<1>3. PICK S \in SUBSET Names : s.seen \in [S -> 0 .. MaxTime]
  BY DEF Seens
<1>4. \E O \in SUBSET Names : old \in [O -> 0 .. MaxTime] /\ O = DOMAIN old
  <2>1. CASE Migrating(s, read)
    <3>1. old \in [{} -> 0 .. MaxTime] /\ {} = DOMAIN old
      BY <2>1 DEF NoEvents
    <3>2. {} \in SUBSET Names
      OBVIOUS
    <3> HIDE DEF old
    <3> QED BY <3>1, <3>2
  <2>2. CASE ~Migrating(s, read)
    BY <2>2, <1>3
  <2> QED BY <2>1, <2>2
<1>5. DOMAIN old = IF Migrating(s, read) THEN {} ELSE DOMAIN s.seen
  BY DEF NoEvents
<1>6. ~Migrating(s, read) => old = s.seen
  OBVIOUS
<1>7. \A n \in DOMAIN old : n \in DOMAIN s.seen /\ ~Migrating(s, read) /\ old[n] = s.seen[n]
  BY <1>5, <1>6
<1>8. m = [n \in D |->
            IF n \notin DOMAIN old THEN read.seen[n]
            ELSE IF n \notin DOMAIN read.seen THEN old[n] ELSE Max({old[n], read.seen[n]})]
  BY DEF Merged
<1> HIDE DEF old, m
<1>9. /\ \A n \in DOMAIN old : old[n] \in 0 .. MaxTime /\ n \in Names
      /\ \A n \in DOMAIN read.seen : read.seen[n] \in 0 .. MaxTime /\ n \in Names
  BY <1>2, <1>4
<1>10. ASSUME NEW a \in 0 .. MaxTime, NEW b \in 0 .. MaxTime
       PROVE  Max({a, b}) \in {a, b} /\ a <= Max({a, b}) /\ b <= Max({a, b})
  <2>1. {a, b} \in SUBSET (0 .. MaxTime) /\ {a, b} # {}
    OBVIOUS
  <2> QED BY <1>1, <2>1, MaxOf
<1>11. ASSUME NEW n \in D
       PROVE  /\ \/ n \in DOMAIN read.seen /\ m[n] = read.seen[n]
                 \/ n \in DOMAIN old /\ m[n] = old[n]
              /\ n \in DOMAIN read.seen => read.seen[n] <= m[n]
              /\ n \in DOMAIN old => old[n] <= m[n]
              /\ n \in Names /\ m[n] \in 0 .. MaxTime
  <2>1. CASE n \notin DOMAIN old
    BY <1>1, <1>8, <1>9, <2>1
  <2>2. CASE n \in DOMAIN old /\ n \notin DOMAIN read.seen
    BY <1>1, <1>8, <1>9, <2>2
  <2>3. CASE n \in DOMAIN old /\ n \in DOMAIN read.seen
    <3>1. m[n] = Max({old[n], read.seen[n]})
      BY <1>8, <2>3
    <3>2. m[n] \in {old[n], read.seen[n]} /\ old[n] <= m[n] /\ read.seen[n] <= m[n]
      BY <1>9, <1>10, <2>3, <3>1
    <3> QED BY <1>9, <2>3, <3>2
  <2> QED BY <2>1, <2>2, <2>3
<1>12. m \in [D -> 0 .. MaxTime] /\ D \in SUBSET Names /\ DOMAIN m = D
  BY <1>8, <1>11
<1>13. m \in Seens
  <2> HIDE DEF D
  <2> QED BY <1>12 DEF Seens
<1>14. DOMAIN m = (IF Migrating(s, read) THEN {} ELSE DOMAIN s.seen) \cup DOMAIN read.seen
  BY <1>5, <1>12
<1>15. \A n \in DOMAIN m :
         \/ n \in DOMAIN read.seen /\ m[n] = read.seen[n]
         \/ ~Migrating(s, read) /\ n \in DOMAIN s.seen /\ m[n] = s.seen[n]
  BY <1>7, <1>11, <1>12
<1>16. \A n \in DOMAIN read.seen : read.seen[n] <= m[n]
  BY <1>11
<1>17. ~Migrating(s, read) => \A n \in DOMAIN s.seen : s.seen[n] <= m[n]
  BY <1>6, <1>11
<1> QED BY <1>13, <1>14, <1>15, <1>16, <1>17 DEF m

LEMMA BeganFacts ==
  ASSUME RollingOK(rolling), EnvOK, NEW at \in Window .. now, NEW read, ReadOK(read, at)
  PROVE  LET b == Began(rolling, read, at) IN
         /\ b \in Rolling
         /\ b.initialized /\ b.last = at /\ b.seen = rolling.seen /\ b.ready = rolling.ready
         /\ b.current = rolling.current
         /\ b.pending = (rolling.initialized /\ rolling.pending)
         /\ b.buckets = (IF rolling.initialized THEN rolling.buckets ELSE {})
         /\ rolling.initialized => b.captured = rolling.captured /\ b.baseline = rolling.baseline
<1> DEFINE base == IF read.complete THEN DOMAIN read.seen ELSE {}
           b == Began(rolling, read, at)
<1>1. rolling \in Rolling /\ at \in 0 .. MaxTime
  BY Bounds DEF RollingOK, EnvOK, Times
<1>2. base \in SUBSET Names
  <2>1. PICK R \in SUBSET Names : read.seen \in [R -> 0 .. MaxTime]
    BY DEF ReadOK, Seens
  <2> QED BY <2>1
<1>3. b = IF rolling.initialized THEN [rolling EXCEPT !.last = at]
          ELSE [rolling EXCEPT !.initialized = TRUE, !.last = at, !.captured = at, !.pending = FALSE,
                               !.buckets = {}, !.baseline = base]
  BY DEF Began
<1>4. {} \in SUBSET Samples
  OBVIOUS
<1> HIDE DEF base, b
<1>5. CASE rolling.initialized
  <2>1. b = [rolling EXCEPT !.last = at]
    BY <1>3, <1>5
  <2> QED BY <1>1, <1>5, <2>1 DEF Rolling, b
<1>6. CASE ~rolling.initialized
  <2>1. b = [rolling EXCEPT !.initialized = TRUE, !.last = at, !.captured = at, !.pending = FALSE,
                            !.buckets = {}, !.baseline = base]
    BY <1>3, <1>6
  <2> QED BY <1>1, <1>2, <1>4, <1>6, <2>1 DEF Rolling, b
<1> QED BY <1>5, <1>6

(* What the new state is made of.                                          *)
MadeOf(new, read, at) ==
  LET base == Began(rolling, read, at)
      merged == Merged(rolling, read) IN
  /\ new \in Rolling
  /\ new.initialized /\ new.last = at
  /\ new.ready = (rolling.ready \/ Done(read))
  /\ new.captured = base.captured /\ new.baseline = base.baseline
  /\ new.current = (rolling.current \/ Done(read))
  /\ new.pending = PendingAfter(base, read)
  /\ new.seen = IF new.ready THEN Restrict(merged, Since(merged, at - Window, at)) ELSE merged
  /\ new.buckets = Recent(base.buckets \cup {NewSample(read, at)}, at)
LEMMA RolledFields ==
  ASSUME RollingOK(rolling), EnvOK, NEW at \in Window .. now, NEW read, ReadOK(read, at),
         NEW new, new = Rolled(rolling, read, at)
  PROVE  MadeOf(new, read, at)
<1> DEFINE b == Began(rolling, read, at)
           merged == Merged(rolling, read)
           ready == rolling.ready \/ Done(read)
           added == [b EXCEPT !.buckets = @ \cup {NewSample(read, at)}]
           seen == IF ready THEN Restrict(merged, Since(merged, at - Window, at)) ELSE merged
           updated == [added EXCEPT !.seen = seen, !.ready = ready,
                                    !.pending = PendingAfter(added, read),
                                    !.current = @ \/ Done(read)]
<1>1. /\ b \in Rolling /\ b.initialized /\ b.last = at /\ b.seen = rolling.seen /\ b.ready = rolling.ready
      /\ b.current = rolling.current
  BY BeganFacts
<1>2. NewSample(read, at) \in Samples
  <2>1. Since(read.seen, at - Interval, at) \in SUBSET Names
    <3>1. PICK R \in SUBSET Names : read.seen \in [R -> 0 .. MaxTime]
      BY DEF ReadOK, Seens
    <3> QED BY <3>1 DEF Since
  <2>2. at \in 0 .. MaxTime /\ read.complete \in BOOLEAN
    BY Bounds DEF EnvOK, Times, ReadOK
  <2>3. {} \in SUBSET Names
    OBVIOUS
  <2> QED BY <2>1, <2>2, <2>3 DEF NewSample, Samples
<1> HIDE DEF b
<1>3. /\ added \in Rolling /\ added.seen = rolling.seen /\ added.ready = rolling.ready
      /\ added.current = rolling.current /\ added.pending = b.pending
      /\ added.buckets = b.buckets \cup {NewSample(read, at)}
      /\ added.initialized /\ added.last = at
      /\ added.captured = b.captured /\ added.baseline = b.baseline
  BY <1>1, <1>2 DEF Rolling
<1> HIDE DEF added
<1>4. PendingAfter(added, read) = PendingAfter(b, read) /\ PendingAfter(b, read) \in BOOLEAN
  BY <1>1, <1>3 DEF PendingAfter, Rolling
<1>5. Merged(added, read) = merged
  BY <1>3 DEF Merged, Migrating
<1>6. seen \in Seens
  <2>1. merged \in Seens
    BY MergedFacts DEF RollingOK, Rolling, ReadOK
  <2>2. PICK S \in SUBSET Names : merged \in [S -> 0 .. MaxTime]
    BY <2>1 DEF Seens
  <2> DEFINE K == Since(merged, at - Window, at)
  <2>3. K \in SUBSET S
    BY <2>2 DEF Since
  <2> HIDE DEF K
  <2>4. Restrict(merged, K) \in [K -> 0 .. MaxTime] /\ K \in SUBSET Names
    BY <2>2, <2>3 DEF Restrict
  <2>5. Restrict(merged, K) \in Seens
    BY <2>4 DEF Seens
  <2> QED BY <2>1, <2>5 DEF K
<1>7. Updated(added, read, at) = updated
  BY <1>3, <1>5 DEF Updated, Done
<1>8. ready \in BOOLEAN /\ Done(read) \in BOOLEAN
  BY DEF RollingOK, Rolling, Done, ReadOK
<1> HIDE DEF seen, ready
<1>9. /\ updated \in Rolling /\ updated.seen = seen /\ updated.ready = ready
      /\ updated.pending = PendingAfter(b, read)
      /\ updated.current = (rolling.current \/ Done(read))
      /\ updated.buckets = added.buckets /\ updated.initialized /\ updated.last = at
      /\ updated.captured = b.captured /\ updated.baseline = b.baseline
  BY <1>3, <1>4, <1>6, <1>8 DEF Rolling
<1>10. Rolled(rolling, read, at) = [updated EXCEPT !.buckets = Recent(@, at)]
  BY <1>7 DEF Rolled, added, b
<1> HIDE DEF updated
<1>11. Recent(updated.buckets, at) \in SUBSET Samples
  BY <1>9 DEF Recent, Rolling
<1>12. new = [updated EXCEPT !.buckets = Recent(updated.buckets, at)]
  BY <1>10
<1>13. /\ new \in Rolling /\ new.seen = seen /\ new.ready = ready
       /\ new.pending = PendingAfter(b, read)
       /\ new.current = (rolling.current \/ Done(read))
       /\ new.buckets = Recent(added.buckets, at) /\ new.initialized /\ new.last = at
       /\ new.captured = b.captured /\ new.baseline = b.baseline
  BY <1>9, <1>11, <1>12 DEF Rolling
<1> QED BY <1>3, <1>13 DEF b, seen, ready, MadeOf

(* A sample of a complete read counts its five minutes exactly.            *)
LEMMA NewSampleOK ==
  ASSUME EnvOK, RollingOK(rolling), NEW at \in Window .. now, rolling.last < at,
         NEW read, ReadOK(read, at)
  PROVE  SampleOK(NewSample(read, at))
<1> DEFINE b == NewSample(read, at)
           ts == at - Interval + 1 .. at
<1>1. b.end = at /\ b.complete = read.complete
      /\ (read.complete => b.names = Since(read.seen, at - Interval, at))
  BY DEF NewSample
<1>2. at \in Nat /\ at <= now /\ now \in Nat /\ Window \in Nat /\ Interval \in Nat /\ Interval < Window
      /\ at <= MaxTime /\ MaxTime \in Nat
  BY Bounds DEF EnvOK, Times
<1>3. ASSUME read.complete PROVE Since(read.seen, at - Interval, at) = Affected(ts)
  <2>1. ts \subseteq Stretch(at, read.full)
    <3>1. read.full = Backfill(at)
      BY DEF ReadOK
    <3>2. WindowStart(at) \in Nat /\ WindowStart(at) + 1 .. at = Stretch(at, read.full)
      BY <3>1, WindowFacts
    <3>3. CASE read.full
      BY <1>2, <3>3 DEF Stretch, Last
    <3>4. CASE ~read.full
      <4>1. WindowStart(at) <= at - Interval
        BY <3>1, <3>4, WindowFacts
      <4> QED BY <1>2, <3>2, <4>1
    <3> QED BY <3>3, <3>4
  <2>2. ASSUME NEW w \in Since(read.seen, at - Interval, at) PROVE w \in Affected(ts)
    <3>1. w \in Workloads /\ read.seen[w] \in Hits(w, Last(at)) /\ at - Interval < read.seen[w]
      BY <2>2 DEF ReadOK, Since
    <3>2. read.seen[w] \in ts
      BY <1>2, <3>1 DEF Hits, Last
    <3>3. read.seen[w] \in Hits(w, ts)
      BY <3>1, <3>2 DEF Hits
    <3> QED BY <3>1, <3>3 DEF Affected
  <2>3. ASSUME NEW w \in Affected(ts) PROVE w \in Since(read.seen, at - Interval, at)
    <3>1. PICK t \in Hits(w, ts) : w \in Workloads
      BY <2>3 DEF Affected
    <3>2. t \in Hits(w, Stretch(at, read.full)) /\ t \in ts
      BY <2>1, <3>1 DEF Hits
    <3>3. w \in DOMAIN read.seen /\ t <= read.seen[w]
      BY <1>3, <3>1, <3>2 DEF ReadOK, Latest
    <3>4. read.seen[w] \in Last(at)
      BY <3>3 DEF ReadOK, Hits
    <3>5. at - Interval < read.seen[w] /\ read.seen[w] <= at
      BY <1>2, <3>2, <3>3, <3>4 DEF Last
    <3> QED BY <3>3, <3>5 DEF Since
  <2> QED BY <2>2, <2>3
<1> HIDE DEF b
<1>4. SampleOK(b)
  BY <1>1, <1>2, <1>3 DEF SampleOK
<1> QED BY <1>4 DEF b

(* After a complete read a full one is no longer owed and the list exact.  *)
LEMMA CompleteSettles ==
  ASSUME EnvOK, RollingOK(rolling), NEW at \in Window .. now, rolling.last < at,
         NEW read, ReadOK(read, at), NEW new, new = Rolled(rolling, read, at)
  PROVE  /\ read.complete => new.current /\ ~new.pending
         /\ ~read.complete => new.pending /\ new.ready = rolling.ready
         /\ ~read.full => rolling.current
         /\ new.current => new.ready
<1> DEFINE b == Began(rolling, read, at)
<1>0. MadeOf(new, read, at)
  BY RolledFields
<1>1. /\ new.ready = (rolling.ready \/ Done(read)) /\ new.current = (rolling.current \/ Done(read))
      /\ new.pending = PendingAfter(b, read)
  BY <1>0 DEF MadeOf
<1>2. b.pending = (rolling.initialized /\ rolling.pending)
  BY BeganFacts
<1>3. read.full = Backfill(at)
  BY DEF ReadOK
<1>4. ~read.full => rolling.initialized /\ rolling.ready /\ rolling.current /\ ~rolling.pending
  BY <1>3, WindowFacts
<1>5. rolling.current => rolling.ready
  BY DEF RollingOK, SeenOK
<1>6. read.complete \in BOOLEAN /\ read.full \in BOOLEAN /\ rolling.ready \in BOOLEAN
  BY <1>3, WindowFacts DEF ReadOK, RollingOK, Rolling
<1> HIDE DEF b
<1>7. read.complete => ~PendingAfter(b, read)
  BY <1>2, <1>4 DEF PendingAfter
<1>8. ~read.complete => PendingAfter(b, read)
  BY DEF PendingAfter
<1> QED BY <1>1, <1>4, <1>5, <1>6, <1>7, <1>8 DEF Done

LEMMA RolledSound ==
  ASSUME EnvOK, RollingOK(rolling), NEW at \in Window .. now, rolling.last < at,
         NEW read, ReadOK(read, at)
  PROVE  \A new : new = Rolled(rolling, read, at) => RollingOK(new)
<1> SUFFICES ASSUME NEW new, new = Rolled(rolling, read, at) PROVE RollingOK(new)
  OBVIOUS
<1> DEFINE merged == Merged(rolling, read)
           b == Began(rolling, read, at)
<1>1. at \in Nat /\ at <= now /\ now \in Nat /\ Window \in Nat /\ 0 < Window /\ Window <= at
      /\ rolling.last \in Nat
  BY Bounds DEF EnvOK, Times, RollingOK, Rolling
<1>2. /\ new \in Rolling
      /\ new.initialized /\ new.last = at /\ new.ready = (rolling.ready \/ Done(read))
      /\ new.current = (rolling.current \/ Done(read))
      /\ new.seen = IF new.ready THEN Restrict(merged, Since(merged, at - Window, at)) ELSE merged
      /\ new.buckets = Recent(b.buckets \cup {NewSample(read, at)}, at)
  <2>1. MadeOf(new, read, at)
    BY RolledFields
  <2> QED BY <2>1 DEF MadeOf
<1>3. /\ read.complete => new.current /\ ~new.pending
      /\ ~read.complete => new.pending /\ new.ready = rolling.ready
      /\ ~read.full => rolling.current
      /\ new.current => new.ready
  BY CompleteSettles
<1>4. ASSUME NEW s \in new.buckets PROVE SampleOK(s)
  <2>1. s \in b.buckets \/ s = NewSample(read, at)
    BY <1>2 DEF Recent
  <2>2. b.buckets = (IF rolling.initialized THEN rolling.buckets ELSE {})
    BY BeganFacts
  <2>3. s \in rolling.buckets \/ s = NewSample(read, at)
    BY <2>1, <2>2
  <2> QED BY <2>3, NewSampleOK DEF RollingOK
<1>5. /\ DOMAIN merged = (IF Migrating(rolling, read) THEN {} ELSE DOMAIN rolling.seen) \cup DOMAIN read.seen
      /\ \A n \in DOMAIN merged :
           \/ n \in DOMAIN read.seen /\ merged[n] = read.seen[n]
           \/ ~Migrating(rolling, read) /\ n \in DOMAIN rolling.seen /\ merged[n] = rolling.seen[n]
      /\ \A n \in DOMAIN read.seen : read.seen[n] <= merged[n]
      /\ ~Migrating(rolling, read) => \A n \in DOMAIN rolling.seen : rolling.seen[n] <= merged[n]
  BY MergedFacts DEF RollingOK, Rolling, ReadOK
<1>6. \A n \in DOMAIN read.seen : n \in Workloads /\ read.seen[n] \in Hits(n, Last(at))
  BY DEF ReadOK
<1> HIDE DEF merged, b
<1>7. ASSUME new.current, NEW n \in DOMAIN merged
      PROVE  n \in Workloads /\ merged[n] \in Hits(n, 1 .. at)
  <2>0. Last(at) \subseteq 1 .. at /\ (rolling.last <= at => Last(rolling.last) \cap Nat \subseteq 0 .. at)
    BY <1>1 DEF Last
  <2>1. CASE n \in DOMAIN read.seen /\ merged[n] = read.seen[n]
    BY <1>6, <2>0, <2>1 DEF Hits
  <2>2. CASE ~Migrating(rolling, read) /\ n \in DOMAIN rolling.seen /\ merged[n] = rolling.seen[n]
    <3>1. rolling.current
      BY <1>2, <1>7, <2>2 DEF Migrating, Done
    <3>2. n \in Workloads /\ rolling.seen[n] \in Hits(n, Last(rolling.last))
      BY <2>2, <3>1 DEF RollingOK, SeenOK
    <3>3. rolling.seen[n] \in Last(rolling.last) /\ rolling.seen[n] \in 1 .. now /\ rolling.seen[n] \in DOMAIN events
          /\ n \in events[rolling.seen[n]]
      BY <3>2, NoneAhead DEF Hits
    <3>4. rolling.seen[n] \in 1 .. at
      BY <1>1, <3>3 DEF Last
    <3> QED BY <2>2, <3>2, <3>3, <3>4 DEF Hits
  <2> QED BY <1>5, <2>1, <2>2
<1>8. new.current => new.seen = Restrict(merged, Since(merged, at - Window, at))
  BY <1>2, <1>3
<1>9. new.current => /\ DOMAIN new.seen = Since(merged, at - Window, at)
                     /\ \A n \in DOMAIN new.seen : new.seen[n] = merged[n]
  BY <1>8 DEF Restrict
<1>10. SeenOK(new)
  <2> SUFFICES ASSUME new.current, NEW n \in DOMAIN new.seen
               PROVE  n \in Workloads /\ new.seen[n] \in Hits(n, Last(at))
    BY <1>2, <1>3 DEF SeenOK
  <2>1. n \in DOMAIN merged /\ at - Window < merged[n] /\ merged[n] <= at /\ new.seen[n] = merged[n]
    BY <1>9 DEF Since
  <2>2. n \in Workloads /\ merged[n] \in Hits(n, 1 .. at)
    BY <1>7, <2>1
  <2>3. merged[n] \in Last(at)
    BY <1>1, <2>1, <2>2 DEF Hits, Last
  <2> QED BY <2>1, <2>2, <2>3 DEF Hits
<1>11. ASSUME new.current, ~new.pending, NEW w \in Workloads, NEW t \in Hits(w, Last(at))
       PROVE  w \in DOMAIN merged /\ t <= merged[w]
  <2>1. read.complete
    BY <1>3, <1>11
  <2>2. t \in Nat /\ at - Window < t /\ t <= at
    BY <1>1, <1>11, NoneAhead DEF Last
  <2>3. CASE t \in Stretch(at, read.full)
    <3>1. t \in Hits(w, Stretch(at, read.full))
      BY <1>11, <2>3 DEF Hits
    <3>2. w \in DOMAIN read.seen /\ t <= read.seen[w]
      BY <1>11, <2>1, <3>1 DEF ReadOK, Latest
    <3>3. read.seen[w] \in Nat /\ read.seen[w] <= merged[w] /\ w \in DOMAIN merged
      BY <1>5, <1>6, <3>2, NoneAhead
    <3>4. merged[w] \in Nat
      BY <1>7, <1>11, <3>3, NoneAhead
    <3> QED BY <2>2, <3>2, <3>3, <3>4
  <2>4. CASE t \notin Stretch(at, read.full)
    <3>1. ~read.full
      BY <1>11, <2>4 DEF Stretch, Hits
    <3>2. read.full = Backfill(at)
      BY DEF ReadOK
    <3>3. /\ rolling.current /\ ~rolling.pending /\ WindowStart(at) <= rolling.last /\ WindowStart(at) \in Nat
          /\ WindowStart(at) + 1 .. at = Stretch(at, read.full)
      BY <3>1, <3>2, WindowFacts
    <3>4. t <= rolling.last /\ rolling.last - Window < t
      BY <1>1, <2>2, <2>4, <3>3
    <3>5. t \in Hits(w, Last(rolling.last))
      BY <1>1, <1>11, <2>2, <3>4 DEF Hits, Last
    <3>6. w \in DOMAIN rolling.seen /\ t <= rolling.seen[w]
      BY <1>11, <3>3, <3>5 DEF RollingOK, NothingOwed, Latest
    <3>7. ~Migrating(rolling, read)
      BY <3>3 DEF Migrating
    <3>8. rolling.seen[w] \in Nat /\ rolling.seen[w] <= merged[w] /\ w \in DOMAIN merged
      BY <1>5, <3>3, <3>6, <3>7, NoneAhead DEF RollingOK, SeenOK
    <3>9. merged[w] \in Nat
      BY <1>7, <1>11, <3>8, NoneAhead
    <3> QED BY <2>2, <3>6, <3>8, <3>9
  <2> QED BY <2>3, <2>4
<1>12. NothingOwed(new)
  <2> SUFFICES ASSUME new.current, ~new.pending, NEW w \in Workloads, NEW t \in Hits(w, Last(at))
               PROVE  w \in DOMAIN new.seen /\ t <= new.seen[w]
    BY <1>2 DEF NothingOwed, Latest
  <2>1. w \in DOMAIN merged /\ t <= merged[w]
    BY <1>11
  <2>2. t \in Nat /\ at - Window < t
    BY <1>1, NoneAhead DEF Last
  <2>3. merged[w] \in 1 .. at
    BY <1>7, <2>1 DEF Hits
  <2>4. at - Window < merged[w] /\ merged[w] <= at
    BY <1>1, <2>1, <2>2, <2>3
  <2> QED BY <1>9, <2>1, <2>4 DEF Since
<1> QED BY <1>1, <1>2, <1>4, <1>10, <1>12 DEF RollingOK

-----------------------------------------------------------------------------
(* What a step that leaves some state alone keeps of the invariant         *)

LEMMA RollingCarried ==
  ASSUME EnvOK, Unchanging, now' \in Nat
  PROVE  \A s : RollingOK(s) => RollingOK(s)'
<1> SUFFICES ASSUME NEW s, RollingOK(s) PROVE RollingOK(s)'
  OBVIOUS
<1>1. now \in Nat /\ now <= now' /\ s \in Rolling /\ s.last \in Nat /\ s.last <= now
      /\ Window \in Nat /\ Interval \in Nat
  BY Bounds DEF EnvOK, Times, Unchanging, RollingOK, Rolling
<1>2. \A b \in s.buckets : SampleOK(b)'
  <2> TAKE b \in s.buckets
  <2>1. SampleOK(b) /\ b.end \in Nat
    BY DEF RollingOK, Rolling, Samples
  <2>2. b.end <= now /\ SoFar(b.end - Interval + 1 .. b.end)
    BY <1>1, <2>1 DEF SampleOK, SoFar
  <2>3. Affected(b.end - Interval + 1 .. b.end)' = Affected(b.end - Interval + 1 .. b.end)
    BY <2>2 DEF Unchanging
  <2>4. b.end <= now'
    BY <1>1, <2>1, <2>2
  <2> QED BY <2>1, <2>3, <2>4 DEF SampleOK
<1>3. SoFar(Last(s.last))
  BY <1>1 DEF SoFar, Last
<1>4. \A w : Hits(w, Last(s.last))' = Hits(w, Last(s.last))
  BY <1>3 DEF Unchanging
<1>5. SeenOK(s)'
  BY <1>4 DEF RollingOK, SeenOK
<1>6. NothingOwed(s)'
  BY <1>4 DEF RollingOK, NothingOwed, Latest
<1>7. s.last <= now'
  BY <1>1
<1> QED BY <1>2, <1>5, <1>6, <1>7 DEF RollingOK

LEMMA PastGrows ==
  ASSUME EnvOK, now <= now', now' \in Nat
  PROVE  /\ Past \subseteq Past' /\ 0 .. DayOf(now) \subseteq 0 .. DayOf(now')
         /\ DayOf(now) \in Nat /\ DayOf(now') \in Nat /\ now \in Nat /\ DayOf(now) <= DayOf(now')
<1>1. now \in Nat
  BY Bounds DEF EnvOK, Times
<1>2. DayOf(now) \in Nat /\ DayOf(now') \in Nat /\ DayOf(now) <= DayOf(now')
  BY <1>1, InDay, DayGrows
<1>3. DayOf(now)' = DayOf(now')
  BY DEF DayOf
<1> QED BY <1>1, <1>2, <1>3 DEF Past

(* The times of a day that has ended have passed.                          *)
LEMMA PastPassed ==
  ASSUME EnvOK, NEW d \in Past
  PROVE  SoFar(DayTimes(d)) /\ d \in Nat /\ d < DayOf(now) /\ (d + 1) * Window <= now
<1>1. now \in Nat /\ DayOf(now) \in Nat
  <2>1. now \in Nat
    BY Bounds DEF EnvOK, Times
  <2> QED BY <2>1, InDay
<1>2. d \in Nat /\ d < DayOf(now)
  BY <1>1 DEF Past
<1>3. (d + 1) * Window <= now /\ (d + 1) * Window \in Nat /\ d * Window \in Nat
  BY <1>1, <1>2, DayOrder, Bounds
<1> QED BY <1>1, <1>2, <1>3 DEF SoFar, DayTimes

LEMMA HistoryCarried ==
  ASSUME EnvOK, Unchanging, now' \in Nat
  PROVE  \A h, ex : HistoryOK(h, ex) => HistoryOK(h, ex)'
<1> SUFFICES ASSUME NEW h, NEW ex, HistoryOK(h, ex) PROVE HistoryOK(h, ex)'
  OBVIOUS
<1>1. /\ Past \subseteq Past' /\ 0 .. DayOf(now) \subseteq 0 .. DayOf(now')
      /\ DayOf(now) \in Nat /\ DayOf(now') \in Nat
  BY PastGrows DEF Unchanging
<1>2. DOMAIN h \subseteq 0 .. DayOf(now') /\ h \in [DOMAIN h -> DayFigures]
  BY <1>1 DEF HistoryOK
<1>3. ASSUME NEW d \in DOMAIN h, h[d].complete = TRUE
      PROVE  h[d].max <= Cardinality(Affected(DayTimes(d)))'
  <2>1. h[d].max \in Nat /\ h[d].max <= Cardinality(Affected(DayTimes(d)))
    BY <1>3 DEF HistoryOK, DayFigures
  <2>2. Affected(DayTimes(d))' \in SUBSET Names
    BY DEF Affected, Names
  <2>3. Affected(DayTimes(d)) \in SUBSET (Affected(DayTimes(d))')
    BY DEF Unchanging
  <2> DEFINE S == Affected(DayTimes(d))'
             T == Affected(DayTimes(d))
  <2> HIDE DEF S, T
  <2>4. S \in SUBSET Names /\ T \in SUBSET S
    BY <2>2, <2>3 DEF S, T
  <2>5. Cardinality(T) \in Nat /\ Cardinality(T) <= Cardinality(S) /\ Cardinality(S) \in Nat
    BY <2>4, CountGrows, Counted
  <2>6. h[d].max <= Cardinality(T)
    BY <2>1 DEF T
  <2>7. h[d].max <= Cardinality(S)
    BY <2>1, <2>5, <2>6
  <2> QED BY <2>7 DEF S
<1>4. ASSUME NEW d \in ex
      PROVE  d \in Past' /\ h[d] = [max |-> Cardinality(Affected(DayTimes(d)))', complete |-> TRUE]
  <2>1. d \in Past /\ h[d] = [max |-> Cardinality(Affected(DayTimes(d))), complete |-> TRUE]
    BY <1>4 DEF HistoryOK
  <2>2. Affected(DayTimes(d))' = Affected(DayTimes(d))
    BY <2>1, PastPassed DEF Unchanging
  <2> QED BY <1>1, <2>1, <2>2
<1>5. ex \subseteq DOMAIN h
  BY DEF HistoryOK
<1>6. DayOf(now)' = DayOf(now')
  BY DEF DayOf
<1> QED BY <1>2, <1>3, <1>4, <1>5, <1>6 DEF HistoryOK

LEMMA SpentGrows ==
  ASSUME EnvOK, UNCHANGED <<mode, now, events>>, NEW what \in Troubles, Meet(what)
  PROVE  /\ spent' \in [Troubles -> Nat] /\ EnvOK'
         /\ \A x \in Troubles : spent'[x] = 0 => spent[x] = 0 /\ x # what
         /\ Quiet' => Quiet /\ what \notin {"faults", "crashes"}
<1>1. spent \in [Troubles -> Nat] /\ spent' = [spent EXCEPT ![what] = @ + 1]
  BY DEF EnvOK, Meet
<1>2. spent' \in [Troubles -> Nat]
  BY <1>1
<1>3. \A x \in Troubles : spent'[x] = 0 => spent[x] = 0 /\ x # what
  <2> TAKE x \in Troubles
  <2>1. spent[x] \in Nat /\ spent'[x] = IF x = what THEN spent[x] + 1 ELSE spent[x]
    BY <1>1
  <2> QED BY <2>1
<1>4. Quiet' => Quiet /\ what \notin {"faults", "crashes"}
  BY <1>3 DEF Quiet, Troubles
<1>5. EnvOK'
  BY <1>2 DEF EnvOK
<1> QED BY <1>2, <1>3, <1>4, <1>5

LEMMA EnvCarried ==
  ASSUME EnvOK, UNCHANGED env, spent' = spent \/ (\E what \in Troubles : Meet(what))
  PROVE  /\ EnvOK' /\ Unchanging /\ now' = now /\ now' \in Nat /\ Past' = Past
         /\ Quiet' => Quiet
<1>1. UNCHANGED <<mode, now, events>>
  BY DEF env
<1>2. now \in Nat
  BY Bounds DEF EnvOK, Times
<1>3. CASE spent' = spent
  BY <1>1, <1>2, <1>3, SameUnchanging DEF EnvOK, Past, DayOf, Quiet
<1>4. CASE \E what \in Troubles : Meet(what)
  BY <1>1, <1>2, <1>4, SpentGrows, SameUnchanging DEF Past, DayOf
<1> QED BY <1>3, <1>4

LEMMA MemoryKept ==
  ASSUME EnvOK, Unchanging, now' \in Nat
  PROVE  /\ RollingOK(rolling) /\ UNCHANGED rolling => RollingOK(rolling)'
         /\ HistoryOK(days, exact) /\ UNCHANGED <<days, exact>> => HistoryOK(days, exact)'
<1>1. ASSUME RollingOK(rolling), rolling' = rolling PROVE RollingOK(rolling)'
  <2>1. \A s : s = rolling => RollingOK(s)'
    BY <1>1, RollingCarried
  <2> QED BY <1>1, <2>1 DEF RollingOK, SeenOK, NothingOwed
<1>2. ASSUME HistoryOK(days, exact), UNCHANGED <<days, exact>> PROVE HistoryOK(days, exact)'
  <2>1. \A h, ex : h = days /\ ex = exact => HistoryOK(h, ex)'
    BY <1>2, HistoryCarried
  <2> QED BY <1>2, <2>1 DEF HistoryOK
<1> QED BY <1>1, <1>2

LEMMA DiskKept ==
  ASSUME EnvOK, Unchanging, now' \in Nat, DiskOK, disk' = disk
  PROVE  DiskOK'
<1>1. \A s : s = disk.rolling => RollingOK(s)'
  BY RollingCarried DEF DiskOK
<1>2. \A h, ex : h = disk.days /\ ex = disk.exact => HistoryOK(h, ex)'
  BY HistoryCarried DEF DiskOK
<1>3. RollingOK(disk.rolling)'
  BY <1>1 DEF RollingOK, SeenOK, NothingOwed
<1>4. HistoryOK(disk.days, disk.exact)'
  BY <1>2 DEF HistoryOK
<1>5. Past \subseteq Past'
  BY PastGrows DEF Unchanging
<1> QED BY <1>3, <1>4, <1>5 DEF DiskOK

LEMMA CycleKept ==
  ASSUME EnvOK, CycleOK, Unchanging, now' \in Nat, UNCHANGED <<cycle, rolling>>,
         UNCHANGED env \/ cycle.pc \in {"idle", "query"}
  PROVE  CycleOK'
<1>1. now \in Nat /\ now <= now'
  BY Bounds DEF EnvOK, Times, Unchanging
<1>2. cycle.pc # "idle" => cycle.at \in Window .. now'
  BY <1>1, Bounds DEF CycleOK
<1>3. cycle.pc = "query" => (cycle.from = WindowStart(cycle.at) /\ cycle.full = Backfill(cycle.at))'
  BY DEF CycleOK, WindowStart, Backfill, CycleStart
<1>4. cycle.pc = "account" => ReadOK(cycle.read, cycle.at)'
  <2> SUFFICES ASSUME cycle.pc = "account" PROVE ReadOK(cycle.read, cycle.at)'
    OBVIOUS
  <2>1. UNCHANGED env
    OBVIOUS
  <2>2. \A w, ts : Hits(w, ts)' = Hits(w, ts)
    BY <2>1 DEF env, Hits
  <2>3. ReadOK(cycle.read, cycle.at)
    BY DEF CycleOK
  <2> QED BY <2>2, <2>3 DEF ReadOK, Backfill, Latest, Stretch
<1>5. cycle.pc = "write" => HistoryOK(cycle.copy.days, cycle.copy.exact)'
  <2> SUFFICES ASSUME cycle.pc = "write" PROVE HistoryOK(cycle.copy.days, cycle.copy.exact)'
    OBVIOUS
  <2>1. \A h, ex : h = cycle.copy.days /\ ex = cycle.copy.exact => HistoryOK(h, ex)'
    BY HistoryCarried DEF CycleOK
  <2> QED BY <2>1 DEF HistoryOK
<1> QED BY <1>2, <1>3, <1>4, <1>5 DEF CycleOK

LEMMA JobKept ==
  ASSUME EnvOK, JobOK, Unchanging, now' \in Nat, UNCHANGED <<job, days, exact, overrun, disk.marker>>,
         Quiet' => Quiet
  PROVE  JobOK'
<1>1. Past \subseteq Past'
  BY PastGrows DEF Unchanging
<1>2. job.pc = "write" => HistoryOK(job.copy.days, job.copy.exact)'
  <2> SUFFICES ASSUME job.pc = "write" PROVE HistoryOK(job.copy.days, job.copy.exact)'
    OBVIOUS
  <2>1. \A h, ex : h = job.copy.days /\ ex = job.copy.exact => HistoryOK(h, ex)'
    BY HistoryCarried DEF JobOK
  <2> QED BY <2>1 DEF HistoryOK
<1>3. Quiet' => /\ job.pc = "day" => ~job.failed /\ Kept(job.asked \ job.todo)'
                /\ job.pc = "write" => ~job.failed
                /\ job.pc \in {"write", "mark"} => Kept(job.asked)'
                /\ Kept(disk.marker)'
  BY DEF JobOK, Kept
<1> QED BY <1>1, <1>2, <1>3 DEF JobOK

LEMMA ShownKept ==
  ASSUME EnvOK, ShownOK, Unchanging, now' \in Nat, UNCHANGED <<shown, rolling, days, exact>>
  PROVE  ShownOK'
<1> SUFFICES ASSUME shown # None PROVE ShownOK'
  BY DEF ShownOK
<1>1. now \in Nat /\ now <= now' /\ shown.at \in Window .. now /\ Window \in Nat
  BY Bounds DEF EnvOK, Times, Unchanging, ShownOK
<1>2. shown.at \in Window .. now' /\ shown.at \in Nat
  BY <1>1
<1>3. DayOf(shown.at) \in Nat
  BY <1>2, InDay
<1>4. DayOf(shown.at) * Window \in Nat
  BY <1>3, Bounds
<1> DEFINE ts == shown.at - Window + 1 .. shown.at
           us == DayOf(shown.at) * Window + 1 .. shown.at
<1>5. SoFar(ts) /\ SoFar(us)
  BY <1>1, <1>2, <1>4 DEF SoFar
<1> HIDE DEF ts, us
<1>6. ts' = ts /\ us' = us
  BY DEF ts, us, DayOf
<1>7. Affected(ts)' = Affected(ts) /\ Affected(us)' = Affected(us)
      /\ \A w : Hits(w, ts)' = Hits(w, ts)
  <2>1. \A c : c = ts \/ c = us => Affected(c)' = Affected(c) /\ \A w : Hits(w, c)' = Hits(w, c)
    BY <1>5 DEF Unchanging
  <2> QED BY <1>6, <2>1
<1>8. ListExact'
  BY <1>6, <1>7 DEF ShownOK, ListExact, ts
<1>9. (shown.complete => rolling.current)'
  BY DEF ShownOK
<1>10. shown.complete /\ DayOf(shown.at) \notin exact /\ DayOf(shown.at) \in DOMAIN days =>
         days[DayOf(shown.at)] = [max |-> Cardinality(Affected(us)), complete |-> TRUE]
  BY DEF ShownOK, us
<1> QED BY <1>2, <1>6, <1>7, <1>8, <1>9, <1>10 DEF ShownOK, us, DayOf

-----------------------------------------------------------------------------
(* Every state is right                                                    *)

LEMMA JobOfStartup ==
  ASSUME EnvOK, NEW h, NEW marker, DOMAIN h \subseteq 0 .. DayOf(now)
  PROVE  LET j == StartupJob(h, marker) IN
         /\ j.pc \in {"idle", "day"}
         /\ j.pc = "day" =>
              /\ j \in [pc : {"day"}, todo : SUBSET Past, asked : SUBSET Past,
                        updated : BOOLEAN, failed : BOOLEAN]
              /\ ~j.failed /\ j.asked = j.todo
<1>1. now \in Nat
  BY Bounds DEF EnvOK, Times
<1>2. DayOf(now) \in Nat
  BY <1>1, InDay
<1>3. PriorDays(h) \ marker \in SUBSET Past
  BY <1>2 DEF PriorDays, Past
<1> QED BY <1>3 DEF StartupJob, Requested, Idle

LEMMA Starts == Init => FiguresInv
<1> SUFFICES ASSUME Init PROVE FiguresInv
  OBVIOUS
<1>1. EnvOK
  <2>1. now = Window /\ now \in Times
    BY Bounds DEF Init, Times
  <2>2. /\ events \in [1 .. MaxTime -> SUBSET Workloads]
        /\ \A t \in Window + 1 .. MaxTime : events[t] = {}
    BY DEF Init, EventSets
  <2>3. \A t \in 1 .. MaxTime : now < t => events[t] = {}
    BY <2>1, <2>2, Bounds
  <2>4. spent \in [Troubles -> Nat]
    BY DEF Init
  <2> QED BY <2>1, <2>2, <2>3, <2>4 DEF EnvOK, Init
<1>2. now = Window /\ DayOf(now) = 1 /\ Window \in Nat /\ 1 < Window /\ Window < MaxTime /\ MaxTime \in Nat
  BY FirstDay, Bounds DEF Init
<1>3. {} \in SUBSET Names /\ Names \in SUBSET Names /\ {} \in SUBSET Samples
  OBVIOUS
<1>4. NoEvents \in Seens /\ DOMAIN NoEvents = {}
  <2>1. NoEvents \in [{} -> 0 .. MaxTime] /\ {} \in SUBSET Names
    BY DEF NoEvents
  <2>2. NoEvents \in Seens
    BY <2>1 DEF Seens
  <2> QED BY <2>2 DEF NoEvents
<1>5. NoRolling \in Rolling /\ NoRolling.current = FALSE /\ NoRolling.buckets = {} /\ NoRolling.last = 0
  BY <1>2, <1>3, <1>4 DEF NoRolling, Rolling
<1>6. mode.left \in {"fresh", "untimed", "unfiltered"}
  BY <1>1, ModeAssumption DEF EnvOK, Origins
<1>7. RollingOK(rolling)
  <2> DEFINE left == [NoRolling EXCEPT !.initialized = TRUE, !.last = Window - 1, !.captured = Window - 2]
  <2>1. /\ left \in Rolling /\ left.initialized = TRUE /\ left.current = FALSE /\ left.buckets = {}
        /\ left.last = Window - 1
    <3>1. Window - 1 \in 0 .. MaxTime /\ Window - 2 \in 0 .. MaxTime
      BY <1>2
    <3> QED BY <1>5, <3>1 DEF Rolling
  <2>2. CASE mode.left = "fresh"
    <3>1. rolling = NoRolling
      BY <2>2 DEF Init, LeftRolling
    <3> HIDE DEF left
    <3> QED BY <1>2, <1>5, <3>1 DEF RollingOK, SeenOK, NothingOwed
  <2>3. CASE mode.left = "untimed"
    <3> DEFINE b == [end |-> Window - 1, complete |-> None, names |-> Names]
    <3>1. rolling = [left EXCEPT !.baseline = Names, !.buckets = {b}]
      BY <2>3 DEF Init, LeftRolling
    <3>2. b \in Samples /\ b.end = Window - 1 /\ b.complete = None
      BY <1>2, <1>3 DEF Samples
    <3>3. None # TRUE
      BY NoneAssumption
    <3> HIDE DEF left, b
    <3>4. {b} \in SUBSET Samples
      BY <3>2
    <3>5. /\ rolling \in Rolling /\ rolling.initialized = TRUE /\ rolling.current = FALSE
          /\ rolling.last = Window - 1 /\ rolling.buckets = {b}
      BY <1>3, <2>1, <3>1, <3>4 DEF Rolling
    <3>6. SampleOK(b)
      <4>1. b.end <= now
        BY <1>2, <3>2
      <4>2. ~(b.complete = TRUE)
        BY <3>2, <3>3
      <4> QED BY <4>1, <4>2 DEF SampleOK
    <3> QED BY <1>2, <3>5, <3>6 DEF RollingOK, SeenOK, NothingOwed
  <2>4. CASE mode.left = "unfiltered"
    <3> DEFINE seen == [n \in Names |-> Window - 1]
    <3>1. rolling = [left EXCEPT !.ready = TRUE, !.seen = seen]
      BY <2>4 DEF Init, LeftRolling
    <3>2. seen \in Seens
      <4>1. seen \in [Names -> 0 .. MaxTime]
        BY <1>2
      <4> QED BY <1>3, <4>1 DEF Seens
    <3> HIDE DEF left, seen
    <3>3. /\ rolling \in Rolling /\ rolling.initialized = TRUE /\ rolling.current = FALSE
          /\ rolling.last = Window - 1 /\ rolling.buckets = {}
      BY <2>1, <3>1, <3>2 DEF Rolling
    <3> QED BY <1>2, <3>3 DEF RollingOK, SeenOK, NothingOwed
  <2> HIDE DEF left
  <2> QED BY <1>6, <2>2, <2>3, <2>4
<1>8. HistoryOK(days, exact)
  <2>1. exact = {}
    BY DEF Init
  <2>2. CASE mode.days
    <3> DEFINE e == [max |-> Cardinality(Names), complete |-> None]
    <3>1. days = [d \in {0} |-> e]
      BY <2>2 DEF Init, LeftDays
    <3>2. e \in DayFigures
      BY Counted DEF DayFigures
    <3>3. e.complete # TRUE
      BY NoneAssumption
    <3> HIDE DEF e
    <3>4. DOMAIN days = {0} /\ days \in [{0} -> DayFigures] /\ days[0] = e
      BY <3>1, <3>2
    <3>5. {0} \subseteq 0 .. DayOf(now)
      BY <1>2
    <3> QED BY <2>1, <3>3, <3>4, <3>5 DEF HistoryOK
  <2>3. CASE ~mode.days
    <3>1. days = NoEvents
      BY <2>3 DEF Init, LeftDays
    <3>2. DOMAIN days = {} /\ days \in [{} -> DayFigures]
      BY <3>1 DEF NoEvents
    <3> QED BY <2>1, <3>2 DEF HistoryOK
  <2> QED BY <2>2, <2>3
<1>9. DiskOK
  <2>1. disk = [rolling |-> rolling, days |-> days, marker |-> {}, exact |-> {}] /\ exact = {}
    BY DEF Init
  <2>2. {} \in SUBSET Past
    OBVIOUS
  <2>3. disk.rolling = rolling /\ disk.days = days /\ disk.exact = exact
    BY <2>1
  <2>4. disk \in [rolling : {disk.rolling}, days : {disk.days}, marker : SUBSET Past, exact : {disk.exact}]
    BY <2>1, <2>2
  <2> QED BY <1>7, <1>8, <2>3, <2>4 DEF DiskOK
<1>10. CycleOK
  BY DEF Init, Idle, CycleOK
<1>11. JobOK
  <2> DEFINE j == StartupJob(days, {})
  <2>1. job = j /\ disk.marker = {}
    BY DEF Init
  <2>2. /\ j.pc \in {"idle", "day"}
        /\ j.pc = "day" =>
             /\ j \in [pc : {"day"}, todo : SUBSET Past, asked : SUBSET Past,
                       updated : BOOLEAN, failed : BOOLEAN]
             /\ ~j.failed /\ j.asked = j.todo
    BY <1>1, <1>8, JobOfStartup DEF HistoryOK
  <2> HIDE DEF j
  <2> QED BY <2>1, <2>2 DEF JobOK, Kept
<1>12. ShownOK
  BY DEF Init, ShownOK
<1> QED BY <1>1, <1>7, <1>8, <1>9, <1>10, <1>11, <1>12 DEF FiguresInv

(* Time passes; a cycle starts and reads.                                  *)
LEMMA TickStep == FiguresInv /\ Tick => FiguresInv'
<1> SUFFICES ASSUME FiguresInv, Tick PROVE FiguresInv'
  OBVIOUS
<1>1. EnvOK /\ DiskOK /\ CycleOK /\ JobOK /\ ShownOK /\ RollingOK(rolling) /\ HistoryOK(days, exact)
  BY DEF FiguresInv
<1>2. Unchanging /\ EnvOK' /\ now' \in Nat
  BY <1>1, TickUnchanging, Bounds DEF EnvOK, Times
<1>3. UNCHANGED <<mode, rolling, days, disk, cycle, job, shown, exact, overrun, spent>>
      /\ cycle.pc \in {"idle", "query"}
  BY DEF Tick
<1>4. Quiet' => Quiet
  BY <1>3 DEF Quiet
<1>5. RollingOK(rolling)' /\ HistoryOK(days, exact)'
  BY <1>1, <1>2, <1>3, MemoryKept
<1>6. DiskOK' /\ CycleOK'
  BY <1>1, <1>2, <1>3, DiskKept, CycleKept
<1>7. JobOK' /\ ShownOK'
  BY <1>1, <1>2, <1>3, <1>4, JobKept, ShownKept
<1> QED BY <1>2, <1>5, <1>6, <1>7 DEF FiguresInv

(* A step of a cycle that only reads, copies or goes on.                   *)
LEMMA CycleOnly ==
  ASSUME FiguresInv, UNCHANGED <<env, rolling, days, disk, job, shown, exact, overrun>>,
         spent' = spent \/ (\E what \in Troubles : Meet(what)), CycleOK'
  PROVE  FiguresInv'
<1>1. EnvOK /\ DiskOK /\ JobOK /\ ShownOK /\ RollingOK(rolling) /\ HistoryOK(days, exact)
  BY DEF FiguresInv
<1>2. EnvOK' /\ Unchanging /\ now' \in Nat /\ (Quiet' => Quiet)
  BY <1>1, EnvCarried
<1>3. RollingOK(rolling)' /\ HistoryOK(days, exact)'
  BY <1>1, <1>2, MemoryKept
<1>4. DiskOK'
  BY <1>1, <1>2, DiskKept
<1>5. JobOK' /\ ShownOK'
  BY <1>1, <1>2, JobKept, ShownKept
<1> QED BY <1>2, <1>3, <1>4, <1>5 DEF FiguresInv

LEMMA StartCycleStep == FiguresInv /\ StartCycle => FiguresInv'
<1> SUFFICES ASSUME FiguresInv, StartCycle PROVE FiguresInv'
  OBVIOUS
<1>1. EnvOK
  BY DEF FiguresInv
<1>2. now \in Window .. now /\ rolling.last < now
  BY <1>1, Bounds DEF EnvOK, Times, StartCycle
<1>3. now' = now /\ rolling' = rolling
      /\ cycle' = [pc |-> "query", at |-> now, from |-> WindowStart(now), full |-> Backfill(now)]
  BY DEF StartCycle, env
<1>4. (cycle.from = WindowStart(cycle.at) /\ cycle.full = Backfill(cycle.at))'
  BY <1>3 DEF WindowStart, Backfill, CycleStart
<1>5. CycleOK'
  BY <1>2, <1>3, <1>4 DEF CycleOK
<1>6. UNCHANGED <<env, rolling, days, disk, job, shown, exact, overrun>> /\ spent' = spent
  BY DEF StartCycle
<1> QED BY <1>5, <1>6, CycleOnly

LEMMA ReadStep ==
  ASSUME FiguresInv, cycle.pc = "query", UNCHANGED <<env, rolling>>,
         NEW complete \in BOOLEAN, NEW found \in SUBSET Asked, complete => found = Asked,
         Read(complete, found)
  PROVE  CycleOK'
<1>1. EnvOK /\ CycleOK /\ RollingOK(rolling)
  BY DEF FiguresInv
<1> DEFINE read == [complete |-> complete, full |-> cycle.full, seen |-> Summary(found)]
<1>2. ReadOK(read, cycle.at)
  BY <1>1, ReadSound
<1>3. cycle' = [pc |-> "account", at |-> cycle.at, read |-> read]
  BY DEF Read
<1> HIDE DEF read
<1>4. \A r, at : ReadOK(r, at) => ReadOK(r, at)'
  <2>1. \A w, ts : Hits(w, ts)' = Hits(w, ts)
    BY DEF Hits, env
  <2> QED BY <2>1 DEF ReadOK, Backfill, Latest, Stretch
<1>5. cycle.at \in Window .. now /\ rolling.last < cycle.at /\ now' = now
  BY <1>1 DEF CycleOK, env
<1>6. cycle'.pc = "account" /\ cycle'.at = cycle.at /\ cycle'.read = read
  BY <1>3
<1>7. ReadOK(cycle.read, cycle.at)'
  <2>1. \A r, at : r = read /\ at = cycle.at => ReadOK(r, at)'
    BY <1>2, <1>4
  <2> QED BY <1>6, <2>1 DEF ReadOK, Backfill, Latest, Stretch
<1> QED BY <1>5, <1>6, <1>7 DEF CycleOK

LEMMA ReadsStep == FiguresInv /\ (ReadAll \/ ReadFails) => FiguresInv'
<1> SUFFICES ASSUME FiguresInv, ReadAll \/ ReadFails PROVE FiguresInv'
  OBVIOUS
<1>1. UNCHANGED <<env, rolling, days, disk, job, shown, exact, overrun>> /\ cycle.pc = "query"
  BY DEF ReadAll, ReadFails
<1>2. CASE ReadAll
  <2>1. Read(TRUE, Asked) /\ Asked \in SUBSET Asked /\ spent' = spent
    BY <1>2 DEF ReadAll
  <2> QED BY <1>1, <2>1, ReadStep, CycleOnly
<1>3. CASE ReadFails
  <2>1. PICK found \in SUBSET Asked : Read(FALSE, found)
    BY <1>3 DEF ReadFails
  <2>2. Meet("faults") /\ "faults" \in Troubles
    BY <1>3 DEF ReadFails, Troubles
  <2> QED BY <1>1, <2>1, <2>2, ReadStep, CycleOnly
<1> QED BY <1>2, <1>3

(* The history is copied and saved.                                        *)
LEMMA CopiedOK ==
  ASSUME FiguresInv, UNCHANGED env
  PROVE  \A c : c = Copied => HistoryOK(c.days, c.exact) /\ HistoryOK(c.days, c.exact)'
<1>1. EnvOK /\ Unchanging /\ now' \in Nat /\ HistoryOK(days, exact)
  <2>1. EnvOK /\ HistoryOK(days, exact)
    BY DEF FiguresInv
  <2>2. now' \in Nat
    BY <2>1, Bounds DEF EnvOK, Times, env
  <2> QED BY <2>1, <2>2, SameUnchanging
<1>2. \A h, ex : h = days /\ ex = exact => HistoryOK(h, ex)'
  BY <1>1, HistoryCarried
<1>3. \A c : c = Copied => c.days = days /\ c.exact = exact
  BY DEF Copied
<1> QED BY <1>1, <1>2, <1>3

LEMMA CycleCopiesStep == FiguresInv /\ CycleCopies => FiguresInv'
<1> SUFFICES ASSUME FiguresInv, CycleCopies PROVE FiguresInv'
  OBVIOUS
<1>1. /\ cycle.pc = "save" /\ now' = now
      /\ cycle' = [pc |-> "write", at |-> cycle.at, next |-> cycle.next, copy |-> Copied]
      /\ UNCHANGED <<env, rolling, days, disk, job, shown, exact, overrun>> /\ spent' = spent
  BY DEF CycleCopies, env
<1>2. CycleOK
  BY DEF FiguresInv
<1> DEFINE copied == Copied
<1>3. HistoryOK(copied.days, copied.exact)' /\ copied' = copied
  <2>1. \A c : c = copied => HistoryOK(c.days, c.exact)'
    BY <1>1, CopiedOK
  <2>2. copied' = copied
    BY <1>1 DEF Copied
  <2> HIDE DEF copied
  <2> QED BY <2>1, <2>2 DEF HistoryOK
<1> HIDE DEF copied
<1>4. cycle'.pc = "write" /\ cycle'.at = cycle.at /\ cycle'.next = cycle.next /\ cycle'.copy = copied
  BY <1>1 DEF copied
<1>5. HistoryOK(cycle.copy.days, cycle.copy.exact)'
  BY <1>3, <1>4 DEF HistoryOK
<1>6. CycleOK'
  BY <1>1, <1>2, <1>4, <1>5 DEF CycleOK
<1> QED BY <1>1, <1>6, CycleOnly

LEMMA DiskWritten ==
  ASSUME FiguresInv, UNCHANGED env, NEW c, HistoryOK(c.days, c.exact), Written(c)
  PROVE  /\ DiskOK' /\ UNCHANGED disk.marker
         /\ spent' = spent \/ (\E what \in Troubles : Meet(what))
         /\ EnvOK' /\ Unchanging /\ now' \in Nat /\ (Quiet' => Quiet)
<1>1. EnvOK /\ DiskOK
  BY DEF FiguresInv
<1>2. spent' = spent \/ (\E what \in Troubles : Meet(what))
  BY DEF Written, Troubles
<1>3. EnvOK' /\ Unchanging /\ now' \in Nat /\ Past' = Past /\ (Quiet' => Quiet)
  BY <1>1, <1>2, EnvCarried
<1>4. CASE disk' = disk
  BY <1>1, <1>2, <1>3, <1>4, DiskKept
<1>5. CASE disk' = [disk EXCEPT !.days = c.days, !.exact = c.exact]
  <2>1. disk \in [rolling : {disk.rolling}, days : {disk.days}, marker : SUBSET Past, exact : {disk.exact}]
    BY <1>1 DEF DiskOK
  <2>2. /\ disk' \in [rolling : {disk.rolling}, days : {c.days}, marker : SUBSET Past, exact : {c.exact}]
        /\ disk'.marker = disk.marker
    BY <1>5, <2>1
  <2>3. disk'.rolling = disk.rolling /\ disk'.days = c.days /\ disk'.exact = c.exact
    BY <2>2
  <2>4. \A s : s = disk.rolling => RollingOK(s)'
    BY <1>1, <1>3, RollingCarried DEF DiskOK
  <2>5. \A h, ex : h = c.days /\ ex = c.exact => HistoryOK(h, ex)'
    BY <1>1, <1>3, HistoryCarried
  <2>6. RollingOK(disk.rolling)'
    BY <2>3, <2>4 DEF RollingOK, SeenOK, NothingOwed
  <2>7. HistoryOK(disk.days, disk.exact)'
    BY <2>3, <2>5 DEF HistoryOK
  <2>8. disk' \in [rolling : {disk'.rolling}, days : {disk'.days}, marker : SUBSET Past', exact : {disk'.exact}]
    BY <1>3, <2>2, <2>3
  <2>9. DiskOK'
    BY <2>6, <2>7, <2>8 DEF DiskOK
  <2> QED BY <1>2, <1>3, <2>2, <2>9
<1> QED BY <1>4, <1>5 DEF Written

LEMMA CycleWritesStep == FiguresInv /\ CycleWrites => FiguresInv'
<1> SUFFICES ASSUME FiguresInv, CycleWrites PROVE FiguresInv'
  OBVIOUS
<1>1. EnvOK /\ CycleOK /\ JobOK /\ ShownOK /\ RollingOK(rolling) /\ HistoryOK(days, exact)
  BY DEF FiguresInv
<1>2. /\ cycle.pc = "write" /\ UNCHANGED <<env, rolling, days, job, shown, exact, overrun>>
      /\ Written(cycle.copy) /\ cycle' = [pc |-> cycle.next, at |-> cycle.at]
  BY DEF CycleWrites
<1>3. HistoryOK(cycle.copy.days, cycle.copy.exact)
  BY <1>1, <1>2 DEF CycleOK
<1>4. DiskOK' /\ UNCHANGED disk.marker /\ EnvOK' /\ Unchanging /\ now' \in Nat /\ (Quiet' => Quiet)
  BY <1>2, <1>3, DiskWritten
<1>5. RollingOK(rolling)' /\ HistoryOK(days, exact)' /\ JobOK' /\ ShownOK'
  BY <1>1, <1>2, <1>4, MemoryKept, JobKept, ShownKept
<1>6. cycle'.pc \in {"prune", "publish"} /\ cycle'.at \in Window .. now'
  BY <1>1, <1>2 DEF CycleOK, env
<1>7. CycleOK'
  BY <1>6 DEF CycleOK
<1> QED BY <1>4, <1>5, <1>7 DEF FiguresInv

LEMMA PublishStep == FiguresInv /\ Publish => FiguresInv'
<1> SUFFICES ASSUME FiguresInv, Publish PROVE FiguresInv'
  OBVIOUS
<1>1. EnvOK /\ DiskOK /\ JobOK /\ ShownOK /\ RollingOK(rolling) /\ HistoryOK(days, exact)
  BY DEF FiguresInv
<1>2. /\ UNCHANGED <<env, rolling, days, job, shown, exact, overrun>> /\ cycle' = Idle
      /\ \/ disk' = [disk EXCEPT !.rolling = rolling] /\ spent' = spent
         \/ disk' = disk /\ Meet("faults")
  BY DEF Publish
<1>3. EnvOK' /\ Unchanging /\ now' \in Nat /\ Past' = Past /\ (Quiet' => Quiet)
  <2>1. spent' = spent \/ (\E what \in Troubles : Meet(what))
    BY <1>2 DEF Troubles
  <2> QED BY <1>1, <1>2, <2>1, EnvCarried
<1>4. RollingOK(rolling)' /\ HistoryOK(days, exact)'
  BY <1>1, <1>2, <1>3, MemoryKept
<1>5. DiskOK' /\ UNCHANGED disk.marker
  <2>1. CASE disk' = disk
    BY <1>1, <1>3, <2>1, DiskKept
  <2>2. CASE disk' = [disk EXCEPT !.rolling = rolling]
    <3>1. disk \in [rolling : {disk.rolling}, days : {disk.days}, marker : SUBSET Past, exact : {disk.exact}]
      BY <1>1 DEF DiskOK
    <3>2. /\ disk' \in [rolling : {rolling}, days : {disk.days}, marker : SUBSET Past, exact : {disk.exact}]
          /\ disk'.marker = disk.marker
      BY <2>2, <3>1
    <3>3. disk'.rolling = rolling /\ disk'.days = disk.days /\ disk'.exact = disk.exact
      BY <3>2
    <3>4. \A s : s = rolling => RollingOK(s)'
      BY <1>1, <1>3, RollingCarried
    <3>5. \A h, ex : h = disk.days /\ ex = disk.exact => HistoryOK(h, ex)'
      BY <1>1, <1>3, HistoryCarried DEF DiskOK
    <3>6. RollingOK(disk.rolling)'
      BY <3>3, <3>4 DEF RollingOK, SeenOK, NothingOwed
    <3>7. HistoryOK(disk.days, disk.exact)'
      BY <3>3, <3>5 DEF HistoryOK
    <3>8. disk' \in [rolling : {disk'.rolling}, days : {disk'.days}, marker : SUBSET Past', exact : {disk'.exact}]
      BY <1>3, <3>2, <3>3
    <3> QED BY <3>2, <3>6, <3>7, <3>8 DEF DiskOK
  <2> QED BY <1>2, <2>1, <2>2
<1>6. JobOK' /\ ShownOK'
  BY <1>1, <1>2, <1>3, <1>5, JobKept, ShownKept
<1>7. CycleOK'
  BY <1>2 DEF CycleOK, Idle
<1> QED BY <1>3, <1>4, <1>5, <1>6, <1>7 DEF FiguresInv

(* A history and its exact days, restricted to some.                       *)
LEMMA PruneStep == FiguresInv /\ Prune => FiguresInv'
<1> SUFFICES ASSUME FiguresInv, Prune PROVE FiguresInv'
  OBVIOUS
<1>1. EnvOK /\ DiskOK /\ CycleOK /\ JobOK /\ ShownOK /\ RollingOK(rolling) /\ HistoryOK(days, exact)
  BY DEF FiguresInv
<1> DEFINE keep == {d \in DOMAIN days : d >= DayOf(cycle.at) - KeepDays}
<1>2. /\ UNCHANGED <<env, rolling, disk, job, shown, overrun>> /\ spent' = spent
      /\ days' = Restrict(days, keep) /\ exact' = exact \cap keep /\ cycle.pc = "prune"
      /\ cycle' = [pc |-> IF keep = DOMAIN days THEN "publish" ELSE "save", at |-> cycle.at,
                   next |-> "publish"]
  BY DEF Prune
<1>3. EnvOK' /\ Unchanging /\ now' = now /\ now' \in Nat /\ (Quiet' => Quiet)
  BY <1>1, <1>2, EnvCarried
<1>4. keep \subseteq DOMAIN days
  OBVIOUS
<1> HIDE DEF keep
<1>5. DOMAIN days' = keep /\ \A d \in keep : days'[d] = days[d]
  BY <1>2 DEF Restrict
<1>6. \A h, ex : h = days' /\ ex = exact' => HistoryOK(h, ex)
  <2>1. days' \in [keep -> DayFigures]
    BY <1>1, <1>2, <1>4 DEF Restrict, HistoryOK
  <2> QED BY <1>1, <1>2, <1>4, <1>5, <2>1 DEF HistoryOK
<1>7. HistoryOK(days, exact)'
  <2>1. \A h, ex : h = days' /\ ex = exact' => HistoryOK(h, ex)'
    BY <1>1, <1>3, <1>6, HistoryCarried
  <2> QED BY <2>1 DEF HistoryOK
<1>8. RollingOK(rolling)' /\ DiskOK'
  BY <1>1, <1>2, <1>3, MemoryKept, DiskKept
<1>9. CycleOK'
  <2>1. cycle'.pc \in {"publish", "save"} /\ cycle'.at \in Window .. now' /\ cycle'.next = "publish"
    BY <1>1, <1>2, <1>3 DEF CycleOK
  <2> QED BY <2>1 DEF CycleOK
<1>10. JobOK'
  <2>2. job.pc = "write" => HistoryOK(job.copy.days, job.copy.exact)'
    <3>1. job.pc = "write" => \A h, ex : h = job.copy.days /\ ex = job.copy.exact => HistoryOK(h, ex)'
      BY <1>1, <1>3, HistoryCarried DEF JobOK
    <3> QED BY <1>2, <3>1 DEF HistoryOK
  <2>3. Past' = Past
    BY <1>3 DEF Past, DayOf
  <2>4. Quiet' => /\ job.pc = "day" => ~job.failed /\ Kept(job.asked \ job.todo)'
                  /\ job.pc = "write" => ~job.failed
                  /\ job.pc \in {"write", "mark"} => Kept(job.asked)'
                  /\ Kept(disk.marker)'
    BY <1>1, <1>2, <1>3, <1>4, <1>5 DEF JobOK, Kept
  <2> QED BY <1>1, <1>2, <2>2, <2>3, <2>4 DEF JobOK
<1>11. ShownOK'
  <2> SUFFICES ASSUME shown # None PROVE ShownOK'
    BY <1>2 DEF ShownOK
  <2>1. \A w, ts : Hits(w, ts)' = Hits(w, ts) /\ Affected(ts)' = Affected(ts)
    BY <1>2 DEF env, Hits, Affected
  <2>2. ListExact'
    BY <1>1, <1>2, <2>1 DEF ShownOK, ListExact
  <2> DEFINE day == DayOf(shown.at)
             right == [max |-> Cardinality(Affected(day * Window + 1 .. shown.at)), complete |-> TRUE]
  <2>3. shown.complete /\ day \notin exact /\ day \in DOMAIN days => days[day] = right
    BY <1>1 DEF ShownOK
  <2>4. day' = day /\ right' = right
    BY <1>2, <2>1 DEF DayOf
  <2> HIDE DEF day, right
  <2>5. shown.complete /\ day \notin exact' /\ day \in DOMAIN days' => days'[day] = right
    BY <1>2, <1>4, <1>5, <2>3
  <2>6. (shown.complete /\ day \notin exact /\ day \in DOMAIN days => days[day] = right)'
    BY <1>2, <2>4, <2>5
  <2>7. (shown.at \in Window .. now /\ (shown.complete => rolling.current))'
    BY <1>1, <1>2, <1>3 DEF ShownOK
  <2> QED BY <2>2, <2>6, <2>7 DEF ShownOK, day, right
<1> QED BY <1>3, <1>7, <1>8, <1>9, <1>10, <1>11 DEF FiguresInv

(* What is seen of a stretch up to the last cycle is exactly what happened *)
(* in it, once nothing is owed.                                            *)
LEMMA SeenExact ==
  ASSUME EnvOK, NEW s, RollingOK(s), s.current, ~s.pending, NEW from \in Int, s.last - Window <= from
  PROVE  /\ Since(s.seen, from, s.last) = Affected(from + 1 .. s.last)
         /\ \A n \in DOMAIN s.seen : s.seen[n] = Max(Hits(n, Last(s.last)))
<1> DEFINE ts == from + 1 .. s.last
<1>1. s.last \in Nat /\ s.last <= now /\ now \in Nat /\ Window \in Nat /\ MaxTime \in Nat /\ now <= MaxTime
  BY Bounds DEF EnvOK, Times, RollingOK, Rolling
<1>2. \A n \in DOMAIN s.seen : n \in Workloads /\ s.seen[n] \in Hits(n, Last(s.last))
  BY DEF RollingOK, SeenOK
<1>3. \A w \in Workloads : \A t \in Hits(w, Last(s.last)) : w \in DOMAIN s.seen /\ t <= s.seen[w]
  BY DEF RollingOK, NothingOwed, Latest
<1>4. \A w : \A t \in Hits(w, Last(s.last)) : t \in 1 .. now /\ t \in 0 .. MaxTime
  <2> TAKE w
  <2> TAKE t \in Hits(w, Last(s.last))
  <2>1. t \in 1 .. now
    BY NoneAhead
  <2> QED BY <1>1, <2>1
<1>5. ASSUME NEW w \in Since(s.seen, from, s.last) PROVE w \in Affected(ts)
  <2>1. w \in Workloads /\ s.seen[w] \in Hits(w, Last(s.last)) /\ from < s.seen[w]
    BY <1>2, <1>5 DEF Since
  <2>2. s.seen[w] \in ts
    BY <1>1, <2>1 DEF Hits, Last
  <2>3. s.seen[w] \in Hits(w, ts)
    BY <2>1, <2>2 DEF Hits
  <2> QED BY <2>1, <2>3 DEF Affected
<1>6. ASSUME NEW w \in Affected(ts) PROVE w \in Since(s.seen, from, s.last)
  <2>1. PICK t \in Hits(w, ts) : w \in Workloads
    BY <1>6 DEF Affected
  <2>2. t \in ts /\ ts \subseteq Last(s.last)
    BY <1>1, <2>1 DEF Hits, Last
  <2>3. t \in Hits(w, Last(s.last))
    BY <2>1, <2>2 DEF Hits
  <2>4. w \in DOMAIN s.seen /\ t <= s.seen[w]
    BY <1>3, <2>1, <2>3
  <2>5. s.seen[w] \in Last(s.last)
    BY <1>2, <2>4 DEF Hits
  <2>6. from < s.seen[w] /\ s.seen[w] <= s.last
    BY <1>1, <2>2, <2>4, <2>5 DEF Last
  <2> QED BY <2>4, <2>6 DEF Since
<1>7. ASSUME NEW n \in DOMAIN s.seen PROVE s.seen[n] = Max(Hits(n, Last(s.last)))
  <2> DEFINE S == Hits(n, Last(s.last))
  <2>1. s.seen[n] \in S /\ S \in SUBSET (0 .. MaxTime) /\ \A t \in S : t <= s.seen[n]
    BY <1>2, <1>3, <1>4
  <2> HIDE DEF S
  <2>2. Max(S) \in S /\ \A x \in S : x <= Max(S)
    BY <1>1, <2>1, MaxOf
  <2>3. s.seen[n] <= Max(S) /\ Max(S) <= s.seen[n] /\ Max(S) \in 0 .. MaxTime /\ s.seen[n] \in 0 .. MaxTime
    BY <2>1, <2>2
  <2> QED BY <1>1, <2>3 DEF S
<1> QED BY <1>5, <1>6, <1>7

(* The day of a cycle, up to that cycle.                                   *)
LEMMA TodayExact ==
  ASSUME EnvOK, NEW s, RollingOK(s), s.current, ~s.pending, Window <= s.last
  PROVE  /\ Today(s, s.last) = Cardinality(Affected(DayOf(s.last) * Window + 1 .. s.last))
         /\ Today(s, s.last) <= Cardinality(Affected(DayTimes(DayOf(s.last))))
         /\ Today(s, s.last) \in Nat
<1> DEFINE d == DayOf(s.last)
           ts == d * Window + 1 .. s.last
<1>1. s.last \in Nat /\ Window \in Nat /\ s.last <= MaxTime /\ MaxTime \in Nat
  BY Bounds DEF RollingOK, Rolling
<1>2. d \in Nat /\ d * Window <= s.last /\ s.last < (d + 1) * Window
  BY <1>1, InDay
<1>3. d * Window \in Nat /\ (d + 1) * Window = d * Window + Window
  BY <1>1, <1>2
<1> HIDE DEF d
<1>4. s.last - Window <= d * Window
  BY <1>1, <1>2, <1>3
<1>5. Since(s.seen, d * Window, s.last) = Affected(ts)
  BY <1>3, <1>4, SeenExact
<1>6. Today(s, s.last) = Cardinality(Affected(ts))
  BY <1>5 DEF Today, d
<1>7. ts \subseteq DayTimes(d)
  BY <1>1, <1>2, <1>3 DEF DayTimes
<1>8. Affected(ts) \in SUBSET Affected(DayTimes(d))
  BY <1>7, MoreHits
<1>9. Affected(DayTimes(d)) \in SUBSET Names
  BY AffectedNames
<1>10. Cardinality(Affected(ts)) \in Nat /\ Cardinality(Affected(ts)) <= Cardinality(Affected(DayTimes(d)))
  BY <1>8, <1>9, CountGrows
<1> QED BY <1>6, <1>10 DEF d

LEMMA SeenNames ==
  ASSUME NEW s \in Rolling, NEW from, NEW to
  PROVE  Since(s.seen, from, to) \in SUBSET Names /\ Cardinality(Since(s.seen, from, to)) \in Nat
<1>1. PICK S \in SUBSET Names : s.seen \in [S -> 0 .. MaxTime]
  BY DEF Rolling, Seens
<1>2. Since(s.seen, from, to) \in SUBSET Names
  BY <1>1 DEF Since
<1> QED BY <1>2, Counted

(* What a cycle shows.                                                     *)
ShownBy(new, read, at) ==
  [at |-> at, complete |-> read.complete, names |-> Listed(new, at),
   seen |-> Restrict(new.seen, Since(new.seen, at - Window, at))]
LEMMA ShownExact ==
  ASSUME EnvOK, NEW new, RollingOK(new), NEW at \in Window .. now, new.last = at, new.current,
         NEW read, read.complete => ~new.pending, NEW sh, sh = ShownBy(new, read, at)
  PROVE  LET ts == at - Window + 1 .. at IN
         /\ sh.at = at /\ sh.complete = read.complete
         /\ sh.complete => sh.names = Affected(ts)
         /\ sh.names = DOMAIN sh.seen
         /\ \A n \in sh.names :
              sh.seen[n] \in Hits(n, ts) /\ (sh.complete => sh.seen[n] = Max(Hits(n, ts)))
<1> DEFINE ts == at - Window + 1 .. at
           K == Since(new.seen, at - Window, at)
<1>1. at \in Nat /\ Window \in Nat /\ at - Window \in Int /\ ts = Last(at)
  BY Bounds DEF EnvOK, Times, Last
<1>2. new.ready
  BY DEF RollingOK, SeenOK
<1>3. Listed(new, at) = K
  BY <1>2 DEF Listed, Untimed
<1>4. sh.at = at /\ sh.complete = read.complete /\ sh.names = K /\ sh.seen = Restrict(new.seen, K)
  BY <1>3 DEF ShownBy
<1>5. DOMAIN sh.seen = K /\ \A n \in K : sh.seen[n] = new.seen[n]
  BY <1>4 DEF Restrict
<1>6. \A n \in K : n \in DOMAIN new.seen /\ new.seen[n] \in Hits(n, ts)
  BY <1>1 DEF Since, RollingOK, SeenOK
<1>7. ASSUME read.complete
      PROVE  K = Affected(ts) /\ \A n \in DOMAIN new.seen : new.seen[n] = Max(Hits(n, ts))
  <2>1. new.last - Window <= at - Window
    BY <1>1
  <2> QED BY <1>1, <1>7, <2>1, SeenExact
<1> HIDE DEF K, ts
<1>8. /\ sh.complete => sh.names = Affected(ts)
      /\ sh.names = DOMAIN sh.seen
      /\ \A n \in sh.names :
           sh.seen[n] \in Hits(n, ts) /\ (sh.complete => sh.seen[n] = Max(Hits(n, ts)))
  BY <1>4, <1>5, <1>6, <1>7
<1> QED BY <1>4, <1>8 DEF ts

LEMMA AccountStep == FiguresInv /\ Account => FiguresInv'
<1> SUFFICES ASSUME FiguresInv, Account PROVE FiguresInv'
  OBVIOUS
<1>1. EnvOK /\ DiskOK /\ CycleOK /\ JobOK /\ ShownOK /\ RollingOK(rolling) /\ HistoryOK(days, exact)
  BY DEF FiguresInv
<1> DEFINE at == cycle.at
           read == cycle.read
           new == Rolled(rolling, read, at)
           d == DayOf(at)
           entry == [max |-> IF read.complete THEN Today(new, at) ELSE DayEntry(d).max,
                     complete |-> read.complete]
           sh == ShownBy(new, read, at)
<1>2. /\ cycle.pc = "account" /\ UNCHANGED <<env, disk, job>> /\ spent' = spent
      /\ rolling' = new /\ shown' = sh /\ days' = Extend(days, d, entry) /\ exact' = exact \ {d}
      /\ overrun' = IF d < DayOf(now) THEN overrun \cup {d} ELSE overrun
      /\ \E pc \in {"save", "prune"} : cycle' = [pc |-> pc, at |-> at, next |-> "prune"]
  BY DEF Account, ShownBy
<1>3. EnvOK' /\ Unchanging /\ now' = now /\ now' \in Nat /\ Past' = Past /\ (Quiet' => Quiet)
  BY <1>1, <1>2, EnvCarried
<1>4. /\ at \in Window .. now /\ rolling.last < at /\ ReadOK(read, at)
      /\ at \in Nat /\ now \in Nat /\ d \in Nat /\ d <= DayOf(now) /\ DayOf(now) \in Nat
  <2>1. at \in Window .. now /\ rolling.last < at /\ ReadOK(read, at)
    BY <1>1, <1>2 DEF CycleOK
  <2>2. at \in Nat /\ now \in Nat /\ at <= now
    BY <1>1, <2>1, Bounds DEF EnvOK, Times
  <2> QED BY <2>1, <2>2, InDay, DayGrows
<1> HIDE DEF at, read
<1>5. /\ RollingOK(new) /\ new \in Rolling /\ new.last = at
      /\ read.complete => new.current /\ ~new.pending
      /\ read.complete \in BOOLEAN
  <2>1. \A n : n = new => RollingOK(n)
    BY <1>1, <1>4, RolledSound
  <2>2. \A n : n = new => MadeOf(n, read, at)
    BY <1>1, <1>4, RolledFields
  <2>3. \A n : n = new => (read.complete => n.current /\ ~n.pending)
    BY <1>1, <1>4, CompleteSettles
  <2> HIDE DEF new
  <2>4. new.last = at
    BY <2>2 DEF MadeOf
  <2> QED BY <1>4, <2>1, <2>3, <2>4 DEF RollingOK, ReadOK
<1> HIDE DEF new
<1>6. entry \in DayFigures
      /\ (entry.complete = TRUE => entry.max <= Cardinality(Affected(DayTimes(d))))
      /\ (read.complete => entry = [max |-> Cardinality(Affected(d * Window + 1 .. at)), complete |-> TRUE])
  <2>1. CASE read.complete
    <3>1. /\ Today(new, at) = Cardinality(Affected(d * Window + 1 .. at))
          /\ Today(new, at) <= Cardinality(Affected(DayTimes(d))) /\ Today(new, at) \in Nat
      BY <1>1, <1>4, <1>5, <2>1, TodayExact
    <3>2. entry = [max |-> Today(new, at), complete |-> TRUE]
      BY <1>5, <2>1
    <3> HIDE DEF entry
    <3> QED BY <3>1, <3>2 DEF DayFigures
  <2>2. CASE ~read.complete
    <3>1. DayEntry(d).max \in Nat
      BY <1>1 DEF DayEntry, HistoryOK, DayFigures
    <3>2. entry = [max |-> DayEntry(d).max, complete |-> FALSE]
      BY <1>5, <2>2
    <3> HIDE DEF entry
    <3> QED BY <2>2, <3>1, <3>2 DEF DayFigures
  <2> QED BY <2>1, <2>2
<1> HIDE DEF d, entry, sh
<1>7. /\ DOMAIN days' = DOMAIN days \cup {d} /\ days'[d] = entry
      /\ \A e \in DOMAIN days : e # d => days'[e] = days[e]
  BY <1>2 DEF Extend
<1>8. \A h, ex : h = days' /\ ex = exact' => HistoryOK(h, ex)
  <2>1. DOMAIN days' \subseteq 0 .. DayOf(now)
    BY <1>1, <1>4, <1>7 DEF HistoryOK
  <2>2. days' \in [DOMAIN days' -> DayFigures]
    BY <1>1, <1>2, <1>6 DEF Extend, HistoryOK
  <2>3. ASSUME NEW e \in DOMAIN days', days'[e].complete = TRUE
        PROVE  days'[e].max <= Cardinality(Affected(DayTimes(e)))
    <3>1. CASE e = d
      BY <1>6, <1>7, <2>3, <3>1
    <3>2. CASE e # d
      BY <1>1, <1>7, <2>3, <3>2 DEF HistoryOK
    <3> QED BY <3>1, <3>2
  <2>4. exact' \subseteq DOMAIN days'
    BY <1>1, <1>2, <1>7 DEF HistoryOK
  <2>5. \A e \in exact' :
          e \in Past /\ days'[e] = [max |-> Cardinality(Affected(DayTimes(e))), complete |-> TRUE]
    BY <1>1, <1>2, <1>7 DEF HistoryOK
  <2> QED BY <2>1, <2>2, <2>3, <2>4, <2>5 DEF HistoryOK
<1>9. HistoryOK(days, exact)'
  <2>1. \A h, ex : h = days' /\ ex = exact' => HistoryOK(h, ex)'
    BY <1>1, <1>3, <1>8, HistoryCarried
  <2> QED BY <2>1 DEF HistoryOK
<1>10. RollingOK(rolling)'
  <2>1. \A s : s = rolling' => RollingOK(s)'
    BY <1>1, <1>2, <1>3, <1>5, RollingCarried
  <2> QED BY <2>1 DEF RollingOK, SeenOK, NothingOwed
<1>11. DiskOK'
  BY <1>1, <1>2, <1>3, DiskKept
<1>12. CycleOK'
  <2>1. cycle'.pc \in {"save", "prune"} /\ cycle'.at = at /\ cycle'.next = "prune"
    BY <1>2
  <2> QED BY <1>3, <1>4, <2>1 DEF CycleOK
<1>13. JobOK'
  <2>1. job.pc = "write" => HistoryOK(job.copy.days, job.copy.exact)'
    <3>1. job.pc = "write" => \A h, ex : h = job.copy.days /\ ex = job.copy.exact => HistoryOK(h, ex)'
      BY <1>1, <1>3, HistoryCarried DEF JobOK
    <3> QED BY <1>2, <3>1 DEF HistoryOK
  <2>2. ASSUME NEW ds, ds \subseteq Past, Kept(ds)
        PROVE  ds \cap DOMAIN days' \subseteq exact' \cup overrun'
    <3>1. d \in ds => d < DayOf(now)
      BY <1>4, <2>2 DEF Past
    <3> QED BY <1>2, <1>7, <2>2, <3>1 DEF Kept
  <2>3. disk.marker \subseteq Past
    BY <1>1 DEF DiskOK
  <2>4. ASSUME Quiet'
        PROVE  (/\ job.pc = "day" => ~job.failed /\ Kept(job.asked \ job.todo)
                /\ job.pc = "write" => ~job.failed
                /\ job.pc \in {"write", "mark"} => Kept(job.asked)
                /\ Kept(disk.marker))'
    <3>1. Quiet
      BY <1>3, <2>4
    <3>2. job.pc = "day" => ~job.failed /\ Kept(job.asked \ job.todo)'
      <4> SUFFICES ASSUME job.pc = "day" PROVE ~job.failed /\ Kept(job.asked \ job.todo)'
        OBVIOUS
      <4> DEFINE ds == job.asked \ job.todo
      <4>1. ~job.failed /\ Kept(ds) /\ ds \subseteq Past
        BY <1>1, <3>1 DEF JobOK
      <4> HIDE DEF ds
      <4>2. ds \cap DOMAIN days' \subseteq exact' \cup overrun'
        BY <2>2, <4>1
      <4> QED BY <1>2, <4>1, <4>2 DEF Kept, ds
    <3>3. job.pc = "write" => ~job.failed
      BY <1>1, <3>1 DEF JobOK
    <3>4. job.pc \in {"write", "mark"} => Kept(job.asked)'
      <4> SUFFICES ASSUME job.pc \in {"write", "mark"} PROVE Kept(job.asked)'
        OBVIOUS
      <4>1. Kept(job.asked) /\ job.asked \subseteq Past
        BY <1>1, <3>1 DEF JobOK
      <4>2. job.asked \cap DOMAIN days' \subseteq exact' \cup overrun'
        BY <2>2, <4>1
      <4> QED BY <1>2, <4>2 DEF Kept
    <3>5. Kept(disk.marker)'
      <4>1. Kept(disk.marker)
        BY <1>1, <3>1 DEF JobOK
      <4>2. disk.marker \cap DOMAIN days' \subseteq exact' \cup overrun'
        BY <2>2, <2>3, <4>1
      <4> QED BY <1>2, <4>2 DEF Kept
    <3> QED BY <1>2, <3>2, <3>3, <3>4, <3>5
  <2> QED BY <1>1, <1>2, <1>3, <2>1, <2>4 DEF JobOK
<1>14. ShownOK'
  <2>1. \A w, ts : Hits(w, ts)' = Hits(w, ts) /\ Affected(ts)' = Affected(ts)
    BY <1>2 DEF env, Hits, Affected
  <2>2. sh.at = at /\ sh.complete = read.complete
    BY DEF ShownBy, sh
  <2>3. (shown.at \in Window .. now /\ (shown.complete => rolling.current))'
    BY <1>2, <1>3, <1>4, <1>5, <2>2
  <2>4. ListExact'
    <3> SUFFICES ASSUME sh.complete \/ new.current
                 PROVE  (LET ts == shown.at - Window + 1 .. shown.at IN
                         /\ shown.complete => shown.names = Affected(ts)
                         /\ shown.names = DOMAIN shown.seen
                         /\ \A n \in shown.names :
                              shown.seen[n] \in Hits(n, ts) /\ (shown.complete => shown.seen[n] = Max(Hits(n, ts))))'
      BY <1>2 DEF ListExact
    <3> DEFINE ts == at - Window + 1 .. at
    <3>1. new.current
      BY <1>5, <2>2
    <3>2. /\ sh.complete => sh.names = Affected(ts)
          /\ sh.names = DOMAIN sh.seen
          /\ \A n \in sh.names :
               sh.seen[n] \in Hits(n, ts) /\ (sh.complete => sh.seen[n] = Max(Hits(n, ts)))
      BY <1>1, <1>4, <1>5, <3>1, ShownExact DEF sh
    <3>3. (shown.at - Window + 1 .. shown.at)' = ts
      BY <1>2, <2>2
    <3> HIDE DEF ts
    <3>4. \A c : c = ts => Affected(c)' = Affected(ts) /\ \A w : Hits(w, c)' = Hits(w, ts)
      BY <2>1
    <3>5. Affected(shown.at - Window + 1 .. shown.at)' = Affected(ts)
          /\ \A w : Hits(w, shown.at - Window + 1 .. shown.at)' = Hits(w, ts)
      BY <3>3, <3>4
    <3> QED BY <1>2, <3>2, <3>5
  <2>5. (shown.complete /\ DayOf(shown.at) \notin exact /\ DayOf(shown.at) \in DOMAIN days =>
           days[DayOf(shown.at)] =
             [max |-> Cardinality(Affected(DayOf(shown.at) * Window + 1 .. shown.at)), complete |-> TRUE])'
    <3>1. shown'.at = at /\ DayOf(shown.at)' = d
      BY <1>2, <2>2 DEF d, DayOf
    <3> DEFINE us == d * Window + 1 .. at
    <3>2. (DayOf(shown.at) * Window + 1 .. shown.at)' = us
      BY <3>1
    <3> HIDE DEF us
    <3>3. Affected(DayOf(shown.at) * Window + 1 .. shown.at)' = Affected(us)
      <4>1. \A c : c = us => Affected(c)' = Affected(us)
        BY <2>1
      <4> QED BY <3>2, <4>1
    <3>4. read.complete => days'[d] = [max |-> Cardinality(Affected(us)), complete |-> TRUE]
      BY <1>6, <1>7 DEF us
    <3> QED BY <1>2, <2>2, <3>1, <3>3, <3>4
  <2> QED BY <2>3, <2>4, <2>5 DEF ShownOK
<1> QED BY <1>3, <1>9, <1>10, <1>11, <1>12, <1>13, <1>14 DEF FiguresInv

(* A step of the job that leaves the history alone.                        *)
LEMMA JobOnly ==
  ASSUME FiguresInv, UNCHANGED <<env, rolling, days, cycle, shown, exact, overrun>>,
         spent' = spent \/ (\E what \in Troubles : Meet(what)), JobOK', DiskOK'
  PROVE  FiguresInv'
<1>1. EnvOK /\ CycleOK /\ ShownOK /\ RollingOK(rolling) /\ HistoryOK(days, exact)
  BY DEF FiguresInv
<1>2. EnvOK' /\ Unchanging /\ now' \in Nat
  BY <1>1, EnvCarried
<1>3. RollingOK(rolling)' /\ HistoryOK(days, exact)'
  BY <1>1, <1>2, MemoryKept
<1>4. CycleOK' /\ ShownOK'
  BY <1>1, <1>2, CycleKept, ShownKept
<1> QED BY <1>2, <1>3, <1>4 DEF FiguresInv

LEMMA DiskSame ==
  ASSUME FiguresInv, UNCHANGED <<env, disk>>,
         spent' = spent \/ (\E what \in Troubles : Meet(what))
  PROVE  DiskOK' /\ Past' = Past /\ Unchanging /\ now' \in Nat /\ (Quiet' => Quiet)
<1>1. EnvOK /\ DiskOK
  BY DEF FiguresInv
<1>2. EnvOK' /\ Unchanging /\ now' \in Nat /\ Past' = Past /\ (Quiet' => Quiet)
  BY <1>1, EnvCarried
<1> QED BY <1>1, <1>2, DiskKept

JobType == [pc : {"day"}, todo : SUBSET Past, asked : SUBSET Past, updated : BOOLEAN, failed : BOOLEAN]

LEMMA StartJobStep == FiguresInv /\ StartJob => FiguresInv'
<1> SUFFICES ASSUME FiguresInv, StartJob PROVE FiguresInv'
  OBVIOUS
<1>1. /\ UNCHANGED <<env, rolling, days, disk, cycle, shown, exact, overrun>>
      /\ Meet("jobs") /\ "jobs" \in Troubles /\ job' = Requested(PriorDays(days))
  BY DEF StartJob, Troubles
<1>2. DiskOK' /\ Past' = Past /\ (Quiet' => Quiet)
  BY <1>1, DiskSame
<1>3. PriorDays(days) \in SUBSET Past
  <2>1. EnvOK /\ HistoryOK(days, exact)
    BY DEF FiguresInv
  <2>2. now \in Nat
    BY <2>1, Bounds DEF EnvOK, Times
  <2>3. DayOf(now) \in Nat
    BY <2>2, InDay
  <2> QED BY <2>1, <2>3 DEF PriorDays, Past, HistoryOK
<1>4. /\ job' \in [pc : {"day"}, todo : SUBSET Past', asked : SUBSET Past', updated : BOOLEAN, failed : BOOLEAN]
      /\ job'.pc = "day" /\ job'.failed = FALSE /\ job'.asked \ job'.todo = {}
  BY <1>1, <1>2, <1>3 DEF Requested
<1>5. Quiet' => Kept(disk.marker)'
  <2>1. Quiet => Kept(disk.marker)
    BY DEF FiguresInv, JobOK
  <2> QED BY <1>1, <1>2, <2>1 DEF Kept
<1>6. JobOK'
  BY <1>4, <1>5 DEF JobOK, Kept
<1> QED BY <1>1, <1>2, <1>6, JobOnly

LEMMA ReconcileFailsStep == FiguresInv /\ ReconcileFails => FiguresInv'
<1> SUFFICES ASSUME FiguresInv, ReconcileFails PROVE FiguresInv'
  OBVIOUS
<1>1. /\ UNCHANGED <<env, rolling, days, disk, cycle, shown, exact, overrun>>
      /\ Meet("faults") /\ "faults" \in Troubles /\ job.pc = "day"
      /\ job' = [job EXCEPT !.todo = @ \ {NextDay}, !.failed = TRUE]
  BY DEF ReconcileFails, Troubles
<1>2. DiskOK' /\ Past' = Past
  BY <1>1, DiskSame
<1>3. ~Quiet'
  <2>1. EnvOK /\ UNCHANGED <<mode, now, events>>
    BY <1>1 DEF FiguresInv, env
  <2> QED BY <1>1, <2>1, SpentGrows
<1>4. job \in JobType
  BY <1>1 DEF FiguresInv, JobOK, JobType
<1>5. job' \in JobType
  BY <1>1, <1>4 DEF JobType
<1>6. JobType' = JobType /\ job'.pc = "day"
  BY <1>2, <1>5 DEF JobType
<1>7. JobOK'
  BY <1>3, <1>5, <1>6 DEF JobOK, JobType
<1> QED BY <1>1, <1>2, <1>7, JobOnly

LEMMA JobCopiesStep == FiguresInv /\ JobCopies => FiguresInv'
<1> SUFFICES ASSUME FiguresInv, JobCopies PROVE FiguresInv'
  OBVIOUS
<1>1. /\ UNCHANGED <<env, rolling, days, disk, cycle, shown, exact, overrun>> /\ spent' = spent
      /\ job.pc = "day" /\ job.todo = {}
      /\ job' = IF job.updated
                THEN [pc |-> "write", copy |-> Copied, asked |-> job.asked, failed |-> job.failed]
                ELSE Idle
  BY DEF JobCopies
<1>2. DiskOK' /\ Past' = Past /\ (Quiet' => Quiet)
  BY <1>1, DiskSame
<1>3. JobOK
  BY DEF FiguresInv
<1>4. job.asked \subseteq Past
  BY <1>1, <1>3 DEF JobOK
<1>5. Quiet => ~job.failed /\ Kept(job.asked) /\ Kept(disk.marker)
  <2>1. job.asked \ job.todo = job.asked
    BY <1>1
  <2> QED BY <1>1, <1>3, <2>1 DEF JobOK
<1>6. Quiet' => Kept(disk.marker)'
  BY <1>1, <1>2, <1>5 DEF Kept
<1>7. CASE job.updated
  <2>1. job'.pc = "write" /\ job'.asked = job.asked /\ job'.failed = job.failed /\ job'.copy = Copied
    BY <1>1, <1>7
  <2>2. HistoryOK(job.copy.days, job.copy.exact)'
    <3>1. \A c : c = Copied => HistoryOK(c.days, c.exact)'
      BY <1>1, CopiedOK
    <3>2. \A c : c = job'.copy => HistoryOK(c.days, c.exact)'
      BY <2>1, <3>1
    <3> QED BY <3>2 DEF HistoryOK
  <2>3. Quiet' => ~job'.failed /\ Kept(job.asked)'
    BY <1>1, <1>2, <1>5, <2>1 DEF Kept
  <2>4. JobOK'
    BY <1>2, <1>4, <1>6, <2>1, <2>2, <2>3 DEF JobOK
  <2> QED BY <1>1, <1>2, <2>4, JobOnly
<1>8. CASE ~job.updated
  <2>1. job'.pc = "idle"
    BY <1>1, <1>8 DEF Idle
  <2>2. JobOK'
    BY <1>6, <2>1 DEF JobOK
  <2> QED BY <1>1, <1>2, <2>2, JobOnly
<1> QED BY <1>7, <1>8

LEMMA JobWritesStep == FiguresInv /\ JobWrites => FiguresInv'
<1> SUFFICES ASSUME FiguresInv, JobWrites PROVE FiguresInv'
  OBVIOUS
<1>1. /\ UNCHANGED <<env, rolling, days, cycle, shown, exact, overrun>>
      /\ job.pc = "write" /\ Written(job.copy)
      /\ job' = IF job.failed THEN Idle ELSE [pc |-> "mark", asked |-> job.asked]
  BY DEF JobWrites
<1>2. JobOK /\ HistoryOK(job.copy.days, job.copy.exact)
  BY <1>1 DEF FiguresInv, JobOK
<1>3. /\ DiskOK' /\ UNCHANGED disk.marker /\ (Quiet' => Quiet)
      /\ spent' = spent \/ (\E what \in Troubles : Meet(what))
  BY <1>1, <1>2, DiskWritten
<1>4. Past' = Past
  BY <1>1 DEF Past, DayOf, env
<1>5. Quiet' => Kept(disk.marker)' /\ (job.asked \cap DOMAIN days' \subseteq exact' \cup overrun')
  BY <1>1, <1>2, <1>3 DEF JobOK, Kept
<1>6. job.asked \subseteq Past
  BY <1>1, <1>2 DEF JobOK
<1>7. JobOK'
  <2>1. CASE job.failed
    <3>1. job'.pc = "idle"
      BY <1>1, <2>1 DEF Idle
    <3> QED BY <1>5, <3>1 DEF JobOK
  <2>2. CASE ~job.failed
    <3>1. job'.pc = "mark" /\ job'.asked = job.asked
      BY <1>1, <2>2
    <3> QED BY <1>4, <1>5, <1>6, <3>1 DEF JobOK, Kept
  <2> QED BY <2>1, <2>2
<1> QED BY <1>1, <1>3, <1>7, JobOnly

LEMMA MarkStep == FiguresInv /\ Mark => FiguresInv'
<1> SUFFICES ASSUME FiguresInv, Mark PROVE FiguresInv'
  OBVIOUS
<1>1. /\ UNCHANGED <<env, rolling, days, cycle, shown, exact, overrun>> /\ job.pc = "mark" /\ job' = Idle
      /\ \/ disk' = [disk EXCEPT !.marker = @ \cup job.asked] /\ spent' = spent
         \/ disk' = disk /\ Meet("faults")
  BY DEF Mark
<1>2. spent' = spent \/ (\E what \in Troubles : Meet(what))
  BY <1>1 DEF Troubles
<1>3. EnvOK /\ DiskOK /\ JobOK
  BY DEF FiguresInv
<1>4. EnvOK' /\ Unchanging /\ now' \in Nat /\ Past' = Past /\ (Quiet' => Quiet)
  BY <1>1, <1>2, <1>3, EnvCarried
<1>5. job.asked \subseteq Past
  BY <1>1, <1>3 DEF JobOK
<1>6. DiskOK' /\ disk'.marker \subseteq disk.marker \cup job.asked
  <2>1. CASE disk' = disk
    BY <1>3, <1>4, <2>1, DiskKept
  <2>2. CASE disk' = [disk EXCEPT !.marker = @ \cup job.asked]
    <3>1. disk \in [rolling : {disk.rolling}, days : {disk.days}, marker : SUBSET Past, exact : {disk.exact}]
      BY <1>3 DEF DiskOK
    <3>2. /\ disk' \in [rolling : {disk.rolling}, days : {disk.days}, marker : SUBSET Past, exact : {disk.exact}]
          /\ disk'.marker = disk.marker \cup job.asked
      BY <1>5, <2>2, <3>1
    <3>3. disk'.rolling = disk.rolling /\ disk'.days = disk.days /\ disk'.exact = disk.exact
      BY <3>2
    <3>4. \A s : s = disk.rolling => RollingOK(s)'
      BY <1>3, <1>4, RollingCarried DEF DiskOK
    <3>5. \A h, ex : h = disk.days /\ ex = disk.exact => HistoryOK(h, ex)'
      BY <1>3, <1>4, HistoryCarried DEF DiskOK
    <3>6. RollingOK(disk.rolling)'
      BY <3>3, <3>4 DEF RollingOK, SeenOK, NothingOwed
    <3>7. HistoryOK(disk.days, disk.exact)'
      BY <3>3, <3>5 DEF HistoryOK
    <3>8. disk' \in [rolling : {disk'.rolling}, days : {disk'.days}, marker : SUBSET Past', exact : {disk'.exact}]
      BY <1>4, <3>2, <3>3
    <3> QED BY <3>2, <3>6, <3>7, <3>8 DEF DiskOK
  <2> QED BY <1>1, <2>1, <2>2
<1>7. Quiet' => Kept(disk.marker)'
  <2>1. Quiet => Kept(disk.marker) /\ Kept(job.asked)
    BY <1>1, <1>3 DEF JobOK
  <2> QED BY <1>1, <1>4, <1>6, <2>1 DEF Kept
<1>8. JobOK'
  BY <1>1, <1>7 DEF JobOK, Idle
<1> QED BY <1>1, <1>2, <1>6, <1>8, JobOnly

(* A day is replaced by the PCE's count of it.                             *)
LEMMA ReconcileDayStep == FiguresInv /\ ReconcileDay => FiguresInv'
<1> SUFFICES ASSUME FiguresInv, ReconcileDay PROVE FiguresInv'
  OBVIOUS
<1>1. EnvOK /\ DiskOK /\ CycleOK /\ JobOK /\ ShownOK /\ RollingOK(rolling) /\ HistoryOK(days, exact)
  BY DEF FiguresInv
<1> DEFINE d == NextDay
           entry == [max |-> Cardinality(Affected(DayTimes(d))), complete |-> TRUE]
<1>2. /\ job.pc = "day" /\ job.todo # {} /\ UNCHANGED <<env, rolling, disk, cycle, shown>> /\ spent' = spent
      /\ days' = Extend(days, d, entry) /\ exact' = exact \cup {d} /\ overrun' = overrun \ {d}
      /\ job' = [job EXCEPT !.todo = @ \ {d}, !.updated = TRUE]
  BY DEF ReconcileDay
<1>3. EnvOK' /\ Unchanging /\ now' = now /\ now' \in Nat /\ Past' = Past /\ (Quiet' => Quiet)
  BY <1>1, <1>2, EnvCarried
<1>4. job \in JobType
  BY <1>1, <1>2 DEF JobOK, JobType
<1>5. d \in job.todo /\ d \in Past
  <2>1. \A e \in Past : e \in Nat
    BY <1>1, PastPassed
  <2>2. job.todo \in SUBSET Nat /\ job.todo \in SUBSET Past
    BY <1>4, <2>1 DEF JobType
  <2>3. \E e \in job.todo : \A f \in job.todo : e <= f
    BY <1>2, <2>2, Least
  <2>4. d \in job.todo
    BY <2>3 DEF NextDay
  <2> QED BY <2>2, <2>4
<1>6. entry \in DayFigures /\ entry.complete = TRUE /\ entry.max = Cardinality(Affected(DayTimes(d)))
      /\ entry.max \in Nat
  <2>1. Affected(DayTimes(d)) \in SUBSET Names
    BY AffectedNames
  <2>2. Cardinality(Affected(DayTimes(d))) \in Nat
    BY <2>1, Counted
  <2> QED BY <2>2 DEF DayFigures
<1> HIDE DEF d
<1>7. entry = [max |-> Cardinality(Affected(DayTimes(d))), complete |-> TRUE]
  OBVIOUS
<1> HIDE DEF entry
<1>8. /\ DOMAIN days' = DOMAIN days \cup {d} /\ days'[d] = entry
      /\ \A e \in DOMAIN days : e # d => days'[e] = days[e]
  BY <1>2 DEF Extend
<1>9. d \in Nat /\ d < DayOf(now) /\ DayOf(now) \in Nat
  <2>1. now \in Nat
    BY <1>3
  <2> QED BY <1>1, <1>5, <2>1, PastPassed, InDay
<1>10. \A h, ex : h = days' /\ ex = exact' => HistoryOK(h, ex)
  <2>1. DOMAIN days' \subseteq 0 .. DayOf(now)
    BY <1>1, <1>8, <1>9 DEF HistoryOK
  <2>2. days' \in [DOMAIN days' -> DayFigures]
    BY <1>1, <1>2, <1>6 DEF Extend, HistoryOK
  <2>3. ASSUME NEW e \in DOMAIN days', days'[e].complete = TRUE
        PROVE  days'[e].max <= Cardinality(Affected(DayTimes(e)))
    <3>1. CASE e = d
      BY <1>6, <1>8, <3>1
    <3>2. CASE e # d
      BY <1>1, <1>8, <2>3, <3>2 DEF HistoryOK
    <3> QED BY <3>1, <3>2
  <2>4. exact' \subseteq DOMAIN days'
    BY <1>1, <1>2, <1>8 DEF HistoryOK
  <2>5. ASSUME NEW e \in exact'
        PROVE  e \in Past /\ days'[e] = [max |-> Cardinality(Affected(DayTimes(e))), complete |-> TRUE]
    <3>1. CASE e = d
      BY <1>5, <1>7, <1>8, <3>1
    <3>2. CASE e # d
      BY <1>1, <1>2, <1>8, <2>5, <3>2 DEF HistoryOK
    <3> QED BY <3>1, <3>2
  <2> QED BY <2>1, <2>2, <2>3, <2>4, <2>5 DEF HistoryOK
<1>11. HistoryOK(days, exact)'
  <2>1. \A h, ex : h = days' /\ ex = exact' => HistoryOK(h, ex)'
    BY <1>1, <1>3, <1>10, HistoryCarried
  <2> QED BY <2>1 DEF HistoryOK
<1>12. RollingOK(rolling)' /\ DiskOK' /\ CycleOK'
  BY <1>1, <1>2, <1>3, MemoryKept, DiskKept, CycleKept
<1>13. JobOK'
  <2>1. job' \in JobType /\ job'.pc = "day" /\ job'.failed = job.failed /\ job'.asked = job.asked
        /\ job'.todo = job.todo \ {d}
    BY <1>2, <1>4 DEF JobType
  <2>2. JobType' = JobType
    BY <1>3 DEF JobType
  <2>3. Quiet' => ~job'.failed /\ ((job.asked \ job'.todo) \cap DOMAIN days' \subseteq exact' \cup overrun')
    BY <1>1, <1>2, <1>3, <1>8, <2>1 DEF JobOK, Kept
  <2>4. Quiet' => disk.marker \cap DOMAIN days' \subseteq exact' \cup overrun'
    BY <1>1, <1>2, <1>3, <1>8 DEF JobOK, Kept
  <2>5. Quiet' => ~job'.failed /\ Kept(job.asked \ job.todo)' /\ Kept(disk.marker)'
    BY <1>2, <2>1, <2>3, <2>4 DEF Kept
  <2> QED BY <2>1, <2>2, <2>5 DEF JobOK, JobType
<1>14. ShownOK'
  <2> SUFFICES ASSUME shown # None PROVE ShownOK'
    BY <1>2 DEF ShownOK
  <2>1. \A w, ts : Hits(w, ts)' = Hits(w, ts) /\ Affected(ts)' = Affected(ts)
    BY <1>2 DEF env, Hits, Affected
  <2>2. ListExact'
    BY <1>1, <1>2, <2>1 DEF ShownOK, ListExact
  <2> DEFINE day == DayOf(shown.at)
             right == [max |-> Cardinality(Affected(day * Window + 1 .. shown.at)), complete |-> TRUE]
  <2>3. shown.complete /\ day \notin exact /\ day \in DOMAIN days => days[day] = right
    BY <1>1 DEF ShownOK
  <2>4. day' = day /\ right' = right
    BY <1>2, <2>1 DEF DayOf
  <2> HIDE DEF day, right
  <2>5. shown.complete /\ day \notin exact' /\ day \in DOMAIN days' => days'[day] = right
    BY <1>2, <1>8, <2>3
  <2>6. (shown.complete /\ day \notin exact /\ day \in DOMAIN days => days[day] = right)'
    BY <1>2, <2>4, <2>5
  <2>7. (shown.at \in Window .. now /\ (shown.complete => rolling.current))'
    BY <1>1, <1>2, <1>3 DEF ShownOK
  <2> QED BY <2>2, <2>6, <2>7 DEF ShownOK, day, right
<1> QED BY <1>3, <1>11, <1>12, <1>13, <1>14 DEF FiguresInv

LEMMA RestartStep == FiguresInv /\ Restart => FiguresInv'
<1> SUFFICES ASSUME FiguresInv, Restart PROVE FiguresInv'
  OBVIOUS
<1>1. EnvOK /\ DiskOK
  BY DEF FiguresInv
<1> DEFINE left == disk.rolling
           loaded == [left EXCEPT !.buckets = Recent(@, now)]
<1>2. /\ UNCHANGED <<env, disk, overrun>> /\ Meet("crashes") /\ "crashes" \in Troubles
      /\ rolling' = loaded /\ days' = disk.days /\ exact' = disk.exact
      /\ job' = StartupJob(disk.days, disk.marker) /\ cycle' = Idle /\ shown' = None
  BY DEF Restart, Troubles
<1>3. EnvOK' /\ Unchanging /\ now' = now /\ now' \in Nat /\ Past' = Past
  BY <1>1, <1>2, EnvCarried
<1>4. ~Quiet'
  <2>1. UNCHANGED <<mode, now, events>>
    BY <1>2 DEF env
  <2> QED BY <1>1, <1>2, <2>1, SpentGrows
<1>5. RollingOK(left)
  BY <1>1 DEF DiskOK
<1> HIDE DEF left
<1>6. Recent(left.buckets, now) \in SUBSET Samples /\ Recent(left.buckets, now) \subseteq left.buckets
  BY <1>5 DEF Recent, RollingOK, Rolling
<1>7. loaded = [left EXCEPT !.buckets = Recent(left.buckets, now)]
  OBVIOUS
<1>8. /\ loaded \in Rolling /\ loaded.initialized = left.initialized /\ loaded.last = left.last
      /\ loaded.seen = left.seen /\ loaded.ready = left.ready /\ loaded.pending = left.pending
      /\ loaded.current = left.current /\ loaded.buckets = Recent(left.buckets, now)
  BY <1>5, <1>6, <1>7 DEF RollingOK, Rolling
<1>9. ~left.initialized => loaded = NoRolling
  <2> SUFFICES ASSUME ~left.initialized PROVE loaded = NoRolling
    OBVIOUS
  <2>1. left = NoRolling
    BY <1>5 DEF RollingOK
  <2>2. Recent(left.buckets, now) = {}
    BY <2>1 DEF Recent, NoRolling
  <2>3. loaded = [NoRolling EXCEPT !.buckets = {}]
    BY <1>7, <2>1, <2>2
  <2>4. \A r \in Rolling : r.buckets = {} => [r EXCEPT !.buckets = {}] = r
    BY DEF Rolling
  <2>5. NoRolling.buckets = {}
    BY DEF NoRolling
  <2>6. NoRolling \in Rolling
    BY <1>5, <2>1 DEF RollingOK
  <2> QED BY <2>3, <2>4, <2>5, <2>6
<1> HIDE DEF loaded
<1>10. \A s : s = loaded => RollingOK(s)
  BY <1>5, <1>6, <1>8, <1>9 DEF RollingOK, SeenOK, NothingOwed
<1>11. RollingOK(rolling)'
  <2>1. \A s : s = rolling' => RollingOK(s)'
    BY <1>1, <1>2, <1>3, <1>10, RollingCarried
  <2> QED BY <2>1 DEF RollingOK, SeenOK, NothingOwed
<1>12. HistoryOK(days, exact)'
  <2>1. \A h, ex : h = days' /\ ex = exact' => HistoryOK(h, ex)'
    BY <1>1, <1>2, <1>3, HistoryCarried DEF DiskOK
  <2> QED BY <2>1 DEF HistoryOK
<1>13. DiskOK'
  BY <1>1, <1>2, <1>3, DiskKept
<1>14. CycleOK' /\ ShownOK'
  BY <1>2 DEF CycleOK, Idle, ShownOK
<1>15. JobOK'
  <2> DEFINE j == StartupJob(disk.days, disk.marker)
  <2>1. DOMAIN disk.days \subseteq 0 .. DayOf(now)
    BY <1>1 DEF DiskOK, HistoryOK
  <2>2. j.pc \in {"idle", "day"} /\ (j.pc = "day" => j \in JobType)
    BY <1>1, <2>1, JobOfStartup DEF JobType
  <2>3. job' = j /\ JobType' = JobType
    BY <1>2, <1>3 DEF JobType
  <2> HIDE DEF j
  <2> QED BY <1>4, <2>2, <2>3 DEF JobOK, JobType
<1> QED BY <1>3, <1>11, <1>12, <1>13, <1>14, <1>15 DEF FiguresInv

LEMMA StutterStep == FiguresInv /\ UNCHANGED vars => FiguresInv'
<1> SUFFICES ASSUME FiguresInv, UNCHANGED vars PROVE FiguresInv'
  OBVIOUS
<1>1. EnvOK /\ CycleOK
  BY DEF FiguresInv
<1>2. UNCHANGED <<env, rolling, days, disk, cycle, job, shown, exact, overrun>> /\ spent' = spent
  BY DEF vars
<1>3. Unchanging /\ now' \in Nat
  BY <1>1, <1>2, EnvCarried
<1>4. CycleOK'
  BY <1>1, <1>2, <1>3, CycleKept
<1> QED BY <1>2, <1>4, CycleOnly

(* The invariant holds of every behaviour.                                 *)
THEOREM Right == Spec => []FiguresInv
<1>1. Init => FiguresInv
  BY Starts
<1>2. FiguresInv /\ [Next]_vars => FiguresInv'
  BY TickStep, StartCycleStep, ReadsStep, AccountStep, PruneStep, CycleCopiesStep, CycleWritesStep,
     PublishStep, StartJobStep, ReconcileDayStep, ReconcileFailsStep, JobCopiesStep, JobWritesStep,
     MarkStep, RestartStep, StutterStep
     DEF Next
<1> QED BY <1>1, <1>2, PTL DEF Spec

(* The list, the samples and the days charted are exactly what the PCE     *)
(* reported: after complete reads, whatever failed, stopped or was left by *)
(* an older release before.                                                *)
THEOREM Figures == Spec => []FiguresExact
<1>1. FiguresInv => FiguresExact
  <2> SUFFICES ASSUME FiguresInv PROVE FiguresExact
    OBVIOUS
  <2>1. EnvOK /\ JobOK /\ ShownOK /\ RollingOK(rolling) /\ HistoryOK(days, exact)
    BY DEF FiguresInv
  <2>2. ListExact
    BY <2>1 DEF ShownOK, ListExact
  <2>3. SamplesExact
    BY <2>1 DEF RollingOK, SampleOK, SamplesExact
  <2>4. DaysSound
    BY <2>1 DEF DaysSound, HistoryOK, ShownOK
  <2>5. ReconciledStands
    BY <2>1 DEF ReconciledStands, HistoryOK, JobOK, Kept, Quiet
  <2> QED BY <2>2, <2>3, <2>4, <2>5 DEF FiguresExact, RollingExact, DaysExact
<1> QED BY <1>1, Right, PTL

(* Each phase, record and stored history has its type.                     *)
THEOREM Typed == Spec => []TypeOK
<1>1. FiguresInv => TypeOK
  <2> SUFFICES ASSUME FiguresInv PROVE TypeOK
    OBVIOUS
  <2>1. EnvOK /\ DiskOK /\ CycleOK /\ JobOK /\ RollingOK(rolling) /\ HistoryOK(days, exact)
        /\ RollingOK(disk.rolling) /\ HistoryOK(disk.days, disk.exact)
    BY DEF FiguresInv, DiskOK
  <2>2. ASSUME NEW s, RollingOK(s)
        PROVE  /\ {s.initialized, s.ready, s.pending, s.current} \subseteq BOOLEAN
               /\ {s.last, s.captured} \subseteq 0 .. MaxTime
               /\ s.baseline \subseteq Names /\ DOMAIN s.seen \subseteq Names
               /\ \A n \in DOMAIN s.seen : s.seen[n] \in 0 .. MaxTime
               /\ \A b \in s.buckets : b.end \in 0 .. MaxTime /\ b.names \subseteq Names
    <3>1. s \in Rolling
      BY <2>2 DEF RollingOK
    <3>2. PICK S \in SUBSET Names : s.seen \in [S -> 0 .. MaxTime]
      BY <3>1 DEF Rolling, Seens
    <3>3. \A b \in s.buckets : b.end \in 0 .. MaxTime /\ b.names \subseteq Names
      BY <3>1 DEF Rolling, Samples
    <3>4. /\ s.initialized \in BOOLEAN /\ s.ready \in BOOLEAN /\ s.pending \in BOOLEAN /\ s.current \in BOOLEAN
          /\ s.last \in 0 .. MaxTime /\ s.captured \in 0 .. MaxTime /\ s.baseline \subseteq Names
      BY <3>1 DEF Rolling
    <3> QED BY <3>2, <3>3, <3>4
  <2>3. Past \subseteq DaySet /\ 0 .. DayOf(now) \subseteq DaySet
    <3>1. now \in Nat /\ MaxTime \in Nat /\ now <= MaxTime
      BY <2>1, Bounds DEF EnvOK, Times
    <3>2. DayOf(now) <= DayOf(MaxTime) /\ DayOf(now) \in Nat /\ DayOf(MaxTime) \in Nat
      BY <3>1, DayGrows, InDay
    <3> QED BY <3>2 DEF Past, DaySet
  <2>4. \A h, ex : HistoryOK(h, ex) => IsHistory(h)
    BY <2>3 DEF HistoryOK, IsHistory, DayFigures
  <2>5. exact \subseteq DOMAIN days /\ disk.marker \subseteq DaySet
    BY <2>1, <2>3 DEF HistoryOK, DiskOK
  <2>6. now \in Times /\ events \in [1 .. MaxTime -> SUBSET Workloads]
    BY <2>1 DEF EnvOK
  <2>7. IsHistory(days) /\ IsHistory(disk.days)
    BY <2>1, <2>4
  <2> QED BY <2>1, <2>2, <2>5, <2>6, <2>7 DEF TypeOK, CycleOK, JobOK
<1> QED BY <1>1, Right, PTL

(* A failed or partial read removes no workload from the list that its     *)
(* recorded time, or an older sample without one, keeps there.             *)
THEOREM Evidence == Spec => EvidenceKept
<1> DEFINE Lost == cycle.pc = "account" /\ cycle'.pc \in {"save", "prune"} /\ ~cycle.read.complete
           Step == Lost => Listed(rolling, cycle.at) \subseteq shown'.names
<1>1. FiguresInv /\ [Next]_vars => Step
  <2> SUFFICES ASSUME FiguresInv, [Next]_vars, Lost PROVE Listed(rolling, cycle.at) \subseteq shown'.names
    OBVIOUS
  <2>1. Account
    <3>1. cycle' # cycle /\ cycle.pc = "account"
      OBVIOUS
    <3>2. ~UNCHANGED vars /\ ~Restart
      BY <3>1 DEF vars, Restart, Idle
    <3>3. ~Tick /\ ~StartCycle /\ ~ReadAll /\ ~ReadFails /\ ~Prune /\ ~CycleCopies /\ ~CycleWrites /\ ~Publish
      BY <3>1 DEF Tick, StartCycle, ReadAll, ReadFails, Prune, CycleCopies, CycleWrites, Publish
    <3>4. ~StartJob /\ ~ReconcileDay /\ ~ReconcileFails /\ ~JobCopies /\ ~JobWrites /\ ~Mark
      BY <3>1 DEF StartJob, ReconcileDay, ReconcileFails, JobCopies, JobWrites, Mark
    <3> QED BY <3>2, <3>3, <3>4 DEF Next
  <2> DEFINE at == cycle.at
             read == cycle.read
             new == Rolled(rolling, read, at)
             b == Began(rolling, read, at)
             merged == Merged(rolling, read)
  <2>2. shown'.names = Listed(new, at)
    BY <2>1 DEF Account
  <2>3. EnvOK /\ RollingOK(rolling) /\ at \in Window .. now /\ rolling.last < at /\ ReadOK(read, at)
        /\ ~read.complete
    BY DEF FiguresInv, CycleOK
  <2> HIDE DEF at, read
  <2>4. /\ new.ready = rolling.ready
        /\ new.captured = b.captured /\ new.baseline = b.baseline
        /\ new.seen = IF new.ready THEN Restrict(merged, Since(merged, at - Window, at)) ELSE merged
        /\ new.buckets = Recent(b.buckets \cup {NewSample(read, at)}, at)
    <3>1. \A n : n = new => MadeOf(n, read, at)
      BY <2>3, RolledFields
    <3>2. \A n : n = new => n.ready = rolling.ready
      BY <2>3, CompleteSettles
    <3> HIDE DEF new
    <3> QED BY <3>1, <3>2 DEF MadeOf
  <2>5. /\ b.buckets = (IF rolling.initialized THEN rolling.buckets ELSE {})
        /\ rolling.initialized => b.captured = rolling.captured /\ b.baseline = rolling.baseline
    BY <2>3, BeganFacts
  <2>6. /\ DOMAIN merged = DOMAIN rolling.seen \cup DOMAIN read.seen
        /\ \A n \in DOMAIN merged :
             \/ n \in DOMAIN read.seen /\ merged[n] = read.seen[n]
             \/ n \in DOMAIN rolling.seen /\ merged[n] = rolling.seen[n]
        /\ \A n \in DOMAIN read.seen : read.seen[n] <= merged[n]
        /\ \A n \in DOMAIN rolling.seen : rolling.seen[n] <= merged[n]
    <3>1. ~Migrating(rolling, read)
      BY <2>3 DEF Migrating
    <3>2. rolling.seen \in Seens /\ read.seen \in Seens
      BY <2>3 DEF RollingOK, Rolling, ReadOK
    <3>3. DOMAIN merged = DOMAIN rolling.seen \cup DOMAIN read.seen
      BY <3>1, <3>2, MergedFacts
    <3>4. \A n \in DOMAIN merged :
            \/ n \in DOMAIN read.seen /\ merged[n] = read.seen[n]
            \/ n \in DOMAIN rolling.seen /\ merged[n] = rolling.seen[n]
      BY <3>1, <3>2, MergedFacts
    <3> QED BY <3>1, <3>2, <3>3, <3>4, MergedFacts
  <2>7. at \in Nat /\ Window \in Nat /\ at - Window \in Nat
    BY <2>3, Bounds DEF EnvOK, Times
  <2>8. \A n \in DOMAIN read.seen :
          read.seen[n] \in Nat /\ at - Window < read.seen[n] /\ read.seen[n] <= at
    BY <2>3, <2>7, NoneAhead DEF ReadOK, Last
  <2>9. \A n \in DOMAIN rolling.seen : rolling.seen[n] \in Nat
    <3>1. PICK S \in SUBSET Names : rolling.seen \in [S -> 0 .. MaxTime]
      BY <2>3 DEF RollingOK, Rolling, Seens
    <3> QED BY <3>1
  <2> HIDE DEF new, b, merged
  <2>10. DOMAIN new.seen \subseteq DOMAIN merged
         /\ Since(merged, at - Window, at) \subseteq Since(new.seen, at - Window, at)
    BY <2>4 DEF Restrict, Since
  <2>11. ASSUME NEW n \in Since(rolling.seen, at - Window, at) PROVE n \in Since(new.seen, at - Window, at)
    <3>1. n \in DOMAIN rolling.seen /\ at - Window < rolling.seen[n] /\ rolling.seen[n] <= at
      BY <2>11 DEF Since
    <3>2. n \in DOMAIN merged /\ rolling.seen[n] <= merged[n] /\ merged[n] <= at /\ merged[n] \in Nat
      BY <2>6, <2>8, <2>9, <3>1
    <3>3. at - Window < merged[n]
      BY <2>7, <2>9, <3>1, <3>2
    <3> QED BY <2>10, <3>2, <3>3 DEF Since
  <2>12. ASSUME NEW n \in DOMAIN read.seen, n \notin DOMAIN rolling.seen
         PROVE  n \in Since(new.seen, at - Window, at)
    <3>1. n \in DOMAIN merged /\ merged[n] = read.seen[n]
      BY <2>6, <2>12
    <3> QED BY <2>8, <2>10, <2>12, <3>1 DEF Since
  <2>13. Since(new.seen, at - Window, at) \subseteq Listed(new, at) /\ Untimed(new, at) \subseteq Listed(new, at)
    BY DEF Listed
  <2>14. rolling.initialized \/ (rolling.buckets = {} /\ rolling.baseline = {})
    BY <2>3 DEF RollingOK, NoRolling
  <2>15. ASSUME NEW n \in Untimed(rolling, at) PROVE n \in Listed(new, at)
    <3>1. ~rolling.ready /\ n \notin DOMAIN rolling.seen
          /\ \/ \E s \in rolling.buckets : at - Window < s.end /\ s.end <= at /\ n \in s.names
             \/ at - Window < rolling.captured /\ n \in rolling.baseline
      BY <2>15 DEF Untimed
    <3>2. CASE n \in DOMAIN read.seen
      BY <2>12, <2>13, <3>1, <3>2
    <3>3. CASE n \notin DOMAIN read.seen
      <4>1. rolling.initialized
        BY <2>14, <3>1
      <4>2. ~new.ready /\ n \notin DOMAIN new.seen
        BY <2>4, <2>6, <2>10, <3>1, <3>3
      <4>3. rolling.buckets \subseteq b.buckets
        BY <2>5, <4>1
      <4>4. CASE \E s \in rolling.buckets : at - Window < s.end /\ s.end <= at /\ n \in s.names
        <5>1. PICK s \in rolling.buckets : at - Window < s.end /\ s.end <= at /\ n \in s.names
          BY <4>4
        <5>2. s \in new.buckets
          BY <2>4, <4>3, <5>1 DEF Recent
        <5>3. n \in UNION {c.names : c \in {x \in new.buckets : at - Window < x.end /\ x.end <= at}}
          BY <5>1, <5>2
        <5>4. n \in Untimed(new, at)
          BY <4>2, <5>3 DEF Untimed
        <5> QED BY <2>13, <5>4
      <4>5. CASE at - Window < rolling.captured /\ n \in rolling.baseline
        <5>1. at - Window < new.captured /\ n \in new.baseline
          BY <2>4, <2>5, <4>1, <4>5
        <5>2. n \in Untimed(new, at)
          BY <4>2, <5>1 DEF Untimed
        <5> QED BY <2>13, <5>2
      <4> QED BY <3>1, <4>4, <4>5
    <3> QED BY <3>2, <3>3
  <2>16. Listed(rolling, at) \subseteq Listed(new, at)
    BY <2>11, <2>13, <2>15 DEF Listed
  <2> QED BY <2>2, <2>16 DEF at
<1>2. Spec => [][FiguresInv /\ [Next]_vars]_vars
  BY Right, PTL DEF Spec
<1> QED BY <1>1, <1>2, PTL DEF EvidenceKept
=============================================================================
