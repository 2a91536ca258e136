---------------------- MODULE BlockedAccounting_proofs ----------------------
(***************************************************************************)
(* The figures made of blocked flows are right, and nothing is counted     *)
(* twice, for any flows, window, modes and troubles.                       *)
(***************************************************************************)
EXTENDS BlockedAccounting, FiniteSetTheorems, WellFoundedInduction, TLAPS

(* The time the cycle in progress works at: what it reads, prunes and      *)
(* shows is of then, although time may have passed since.                  *)
Bound == IF cycle.pc = "idle" THEN now ELSE cycle.at

(* What is known of flows by a time: detections only, and the latest of    *)
(* each flow if it is in an answer that was deduplicated.                  *)
SeenOK(known, had, at) ==
  /\ DOMAIN known \subseteq Flows
  /\ \A f \in DOMAIN known :
       /\ known[f].last \in 1 .. at /\ f \in detected[known[f].last]
       /\ known[f].connections \in Nat
  /\ had \subseteq 1 .. at
  /\ \A t \in had : at - Window < t =>
       \A f \in detected[t] : f \in DOMAIN known /\ t <= known[f].last

(* Daily tables, in memory or saved, and the days reconciled in them: these*)
(* have ended, and stand unless a full reconcile wrote over them.          *)
Tables == {"daily", "captured", "hosts"}
DaysOK(all, done, over, at) ==
  /\ DOMAIN all = Tables
  /\ \A k \in Tables : IsTally(all[k])
  /\ done \subseteq DaySet
  /\ \A d \in done : DayStart(d + 1) <= at
  /\ \A d \in (done \ over) \cap DOMAIN all["daily"] : all["daily"][d] = Count(DayTimes(d))

RollingOK(state) ==
  /\ state \in [initialized : BOOLEAN, last : 0 .. MaxTime,
                baseline : {state.baseline}, buckets : {state.buckets}]
  /\ state.last <= now
  /\ DOMAIN state.buckets \subseteq Times

EnvOK ==
  /\ mode \in Modes /\ now \in Times
  /\ detected \in [1 .. MaxTime -> SUBSET Flows]
  /\ spent \in [Troubles -> Nat]
DiskOK(saved, done, over, at) ==
  /\ saved \in [rolling : {saved.rolling}, days : {saved.days}, settled : SUBSET done]
  /\ RollingOK(saved.rolling)
  /\ DaysOK(saved.days, saved.settled, over, at)

(* A cycle asks for what follows the last one, or for the whole window.    *)
CycleOK ==
  /\ cycle.pc \in {"idle", "query", "account", "daily", "captured", "hosts", "previous",
                   "settle", "publish"}
  /\ cycle.pc # "idle" => cycle.at \in Window .. now
  /\ cycle.pc \in {"query", "account"} =>
       /\ rolling.last < cycle.at
       /\ cycle.full = ~rolling.initialized
       /\ cycle.fresh \in BOOLEAN
       /\ ~cycle.fresh => ~reseed /\ rolling.baseline # None /\ rolling.initialized
  /\ cycle.pc = "query" =>
       /\ cycle.from \in Nat /\ cycle.at - Window <= cycle.from /\ cycle.from < cycle.at
       /\ ~cycle.fresh => rolling.last <= cycle.from
  /\ cycle.pc = "account" => cycle.ok \in BOOLEAN /\ cycle.count \in Nat
  /\ cycle.pc \notin {"idle", "query"} => cycle.add \in Nat
JobOK ==
  /\ job.pc \in {"idle", "past", "today", "saveToday"}
  /\ job.pc # "idle" => job.at \in Window .. now /\ job.changed \in BOOLEAN
  /\ job.pc = "past" => job.todo \subseteq DaySet
ViewOK == view # None => view.at \in Window .. now /\ Shown24h
RestOK ==
  /\ DOMAIN hosts5m \subseteq Times
  /\ doneDay \in DaySet \cup {None}
  /\ late \subseteq DaySet
  /\ reseed \in BOOLEAN /\ (reseed => HostMetrics)

AccountingInv ==
  /\ EnvOK /\ RollingOK(rolling) /\ CycleOK /\ JobOK /\ ViewOK /\ RestOK
  /\ SeenOK(seen, applied, Bound)
  /\ DaysOK(days, settled, late, Bound) /\ DiskOK(disk, settled, late, Bound)

-----------------------------------------------------------------------------
(* Numbers and days                                                        *)

LEMMA Bounds ==
  /\ Window \in Nat /\ MaxGap \in Nat /\ KeepDays \in Nat /\ MaxTime \in Nat
  /\ 0 < MaxGap /\ MaxGap < Window /\ Window < MaxTime
BY TimeAssumption

LEMMA Least ==
  ASSUME NEW S \in SUBSET Nat, S # {}
  PROVE  \E m \in S : \A n \in S : m <= n
<1>1. IsWellFoundedOn(OpToRel(<, Nat), Nat)
  BY NatLessThanWellFounded
<1>2. PICK m \in S : \A n \in S : ~(<<n, m>> \in OpToRel(<, Nat))
  BY <1>1, WFMin
<1>3. \A n \in S : ~(n < m)
  BY <1>2 DEF OpToRel
<1>4. m \in Nat /\ \A n \in S : n \in Nat
  OBVIOUS
<1> HIDE DEF OpToRel
<1> QED BY <1>3, <1>4

(* The latest of a nonempty set of times.                                  *)
LEMMA MostOf ==
  ASSUME NEW m \in Nat, NEW S \in SUBSET (0 .. m), S # {}
  PROVE  Most(S) \in S /\ \A x \in S : x <= Most(S)
<1> DEFINE above == {y \in Nat : \A x \in S : x <= y}
<1>1. m \in above
  OBVIOUS
<1>2. PICK y \in above : \A z \in above : y <= z
  BY <1>1, Least
<1>3. y \in S
  <2> SUFFICES ASSUME y \notin S PROVE FALSE
    OBVIOUS
  <2>1. \A x \in S : x \in Nat /\ x < y
    BY <1>2
  <2>2. y # 0
    <3>1. PICK x \in S : TRUE
      OBVIOUS
    <3>2. x \in Nat /\ x < y
      BY <2>1
    <3> QED BY <3>2
  <2>3. y - 1 \in above /\ ~(y <= y - 1)
    BY <1>2, <2>1, <2>2
  <2> QED BY <1>2, <2>3
<1>4. \E x \in S : \A z \in S : z <= x
  BY <1>2, <1>3
<1> QED BY <1>4 DEF Most

(* A time lies in its day, and later times in no earlier day.              *)
LEMMA InDay ==
  ASSUME NEW t \in Nat
  PROVE  /\ DayOf(t) \in Nat
         /\ DayStart(DayOf(t)) <= t /\ t < DayStart(DayOf(t) + 1)
         /\ DayStart(DayOf(t) + 1) = DayStart(DayOf(t)) + Window
         /\ DayStart(DayOf(t)) \in Nat
BY Bounds DEF DayOf, DayStart

LEMMA DayOrder ==
  ASSUME NEW t \in Nat, NEW d \in Nat
  PROVE  /\ DayStart(d) \in Nat /\ DayStart(d + 1) \in Nat
         /\ d < DayOf(t) => DayStart(d + 1) <= t
         /\ DayStart(d) <= t => d <= DayOf(t)
<1>1. DayOf(t) \in Nat /\ DayStart(DayOf(t)) <= t /\ t < DayStart(DayOf(t) + 1)
  BY InDay
<1>2. \A a, b \in Nat : a <= b => DayStart(a) <= DayStart(b)
  BY Bounds DEF DayStart
<1>3. \A a \in Nat : DayStart(a) \in Nat
  BY Bounds DEF DayStart
<1>4. ASSUME d < DayOf(t) PROVE DayStart(d + 1) <= t
  <2>1. d + 1 \in Nat /\ d + 1 <= DayOf(t)
    BY <1>1, <1>4
  <2>2. DayStart(d + 1) <= DayStart(DayOf(t))
    BY <1>1, <1>2, <2>1
  <2>3. DayStart(d + 1) \in Nat /\ DayStart(DayOf(t)) \in Nat
    BY <1>1, <1>3, <2>1
  <2> QED BY <1>1, <2>2, <2>3
<1>5. ASSUME DayStart(d) <= t PROVE d <= DayOf(t)
  <2> SUFFICES ASSUME DayOf(t) + 1 <= d PROVE FALSE
    BY <1>1
  <2>1. DayOf(t) + 1 \in Nat
    BY <1>1
  <2>2. DayStart(DayOf(t) + 1) <= DayStart(d)
    BY <1>2, <2>1
  <2>3. DayStart(DayOf(t) + 1) \in Nat /\ DayStart(d) \in Nat
    BY <1>3, <2>1
  <2> QED BY <1>1, <1>5, <2>2, <2>3
<1> QED BY <1>3, <1>4, <1>5

LEMMA DayGrows ==
  ASSUME NEW t \in Nat, NEW u \in Nat, t <= u
  PROVE  DayOf(t) <= DayOf(u)
<1>1. DayOf(t) \in Nat /\ DayStart(DayOf(t)) <= t /\ DayStart(DayOf(t)) \in Nat
  BY InDay
<1>2. DayStart(DayOf(t)) <= u
  BY <1>1
<1> QED BY <1>1, <1>2, DayOrder

(* The days of the clock, and the day before one that has begun.           *)
LEMMA DayInSet ==
  ASSUME NEW t \in Times
  PROVE  /\ t \in Nat /\ DayOf(t) \in DaySet /\ PreviousDay(t) \in DaySet
         /\ DayStart(PreviousDay(t) + 1) <= t
<1>1. t \in Nat /\ Window <= t /\ t <= MaxTime
  BY Bounds DEF Times
<1>2. DayOf(t) \in Nat /\ DayOf(MaxTime) \in Nat /\ DayOf(t) <= DayOf(MaxTime)
  BY <1>1, Bounds, InDay, DayGrows
<1>3. 1 <= DayOf(t)
  <2>1. DayStart(1) = Window
    BY Bounds DEF DayStart
  <2> QED BY <1>1, <2>1, DayOrder
<1>4. PreviousDay(t) \in Nat /\ PreviousDay(t) < DayOf(t)
  BY <1>2, <1>3 DEF PreviousDay
<1>5. DayStart(PreviousDay(t) + 1) <= t
  BY <1>1, <1>4, DayOrder
<1>6. DayOf(t) \in DaySet
  BY <1>2 DEF DaySet
<1>7. PreviousDay(t) \in DaySet
  BY <1>2, <1>4 DEF DaySet
<1> QED BY <1>1, <1>5, <1>6, <1>7

(* Counts of flows.                                                        *)
LEMMA Counted ==
  ASSUME NEW S \in SUBSET Flows
  PROVE  IsFiniteSet(S) /\ Cardinality(S) \in Nat
BY FlowsAssumption, FS_Subset, FS_CardinalityType

LEMMA CountGrows ==
  ASSUME NEW S \in SUBSET Flows, NEW T \in SUBSET S
  PROVE  Cardinality(T) \in Nat /\ Cardinality(T) <= Cardinality(S)
BY Counted, FS_Subset

LEMMA CountType == \A ts : Answer(ts) \in SUBSET Flows /\ Count(ts) \in Nat
<1>1. \A ts : Answer(ts) \in SUBSET Flows
  BY DEF Answer
<1> QED BY <1>1, Counted DEF Count

-----------------------------------------------------------------------------
(* What was blocked does not change                                        *)

SoFar(ts) == \A t \in ts : t \in Int /\ t <= now
Unchanging ==
  /\ now \in Nat /\ now' \in Nat /\ now <= now' /\ mode' = mode
  /\ DOMAIN detected' = DOMAIN detected
  /\ \A t \in 1 .. now : detected'[t] = detected[t]
  /\ \A ts : SoFar(ts) => Count(ts)' = Count(ts)

LEMMA TickUnchanging ==
  ASSUME EnvOK, Tick
  PROVE  Unchanging /\ EnvOK' /\ now' = now + 1
<1>1. now \in Nat /\ MaxTime \in Nat /\ now < MaxTime /\ now' = now + 1 /\ now' \in Times
  BY Bounds DEF EnvOK, Times, Tick
<1>2. PICK flows \in SUBSET Flows : detected' = [detected EXCEPT ![now + 1] = flows]
  BY DEF Tick
<1>3. detected \in [1 .. MaxTime -> SUBSET Flows]
  BY DEF EnvOK
<1>4. detected' \in [1 .. MaxTime -> SUBSET Flows]
  BY <1>2, <1>3
<1>5. \A t \in 1 .. now : detected'[t] = detected[t]
  BY <1>1, <1>2, <1>3
<1>6. ASSUME NEW ts, SoFar(ts) PROVE Count(ts)' = Count(ts)
  <2>1. \A t \in ts \cap 1 .. MaxTime : detected'[t] = detected[t]
    BY <1>1, <1>2, <1>3, <1>6 DEF SoFar
  <2>2. DOMAIN detected = 1 .. MaxTime /\ DOMAIN detected' = 1 .. MaxTime
    BY <1>3, <1>4
  <2>3. \A f : Hits(f, ts)' = Hits(f, ts)
    BY <2>1, <2>2 DEF Hits
  <2>4. Answer(ts)' = Answer(ts)
    BY <2>3 DEF Answer
  <2> QED BY <2>4 DEF Count
<1>7. EnvOK'
  BY <1>1, <1>4 DEF EnvOK, Tick
<1> QED BY <1>1, <1>3, <1>4, <1>5, <1>6, <1>7 DEF Unchanging, Tick

LEMMA SameUnchanging ==
  ASSUME EnvOK, UNCHANGED env
  PROVE  Unchanging
<1>1. now \in Nat
  BY Bounds DEF EnvOK, Times
<1> QED BY <1>1 DEF Unchanging, Count, Answer, Hits, env

(* Another trouble is counted.                                             *)
LEMMA MeetEnv ==
  ASSUME EnvOK, UNCHANGED env, \/ UNCHANGED spent
                               \/ \E what \in Troubles : Meet(what)
  PROVE  EnvOK'
<1>1. spent' \in [Troubles -> Nat]
  <2>1. CASE UNCHANGED spent
    BY <2>1 DEF EnvOK
  <2>2. CASE \E what \in Troubles : Meet(what)
    <3>1. PICK what \in Troubles : spent' = [spent EXCEPT ![what] = @ + 1]
      BY <2>2 DEF Meet
    <3>2. spent \in [Troubles -> Nat]
      BY DEF EnvOK
    <3>3. spent[what] + 1 \in Nat
      BY <3>2
    <3> QED BY <3>1, <3>2, <3>3
  <2> QED BY <2>1, <2>2
<1> QED BY <1>1 DEF EnvOK, env

-----------------------------------------------------------------------------
(* What is carried over a step that leaves it alone                        *)

LEMMA BoundType ==
  ASSUME EnvOK, CycleOK
  PROVE  Bound \in Window .. now /\ Bound \in Times /\ Bound \in Nat /\ now \in Nat
BY Bounds DEF EnvOK, CycleOK, Bound, Times

LEMMA SeenCarried ==
  ASSUME EnvOK, Unchanging, NEW known, NEW had, NEW at \in Nat, NEW later \in Nat,
         at <= later, at <= now, SeenOK(known, had, at)
  PROVE  \A k, h, b : k = known /\ h = had /\ b = later => SeenOK(k, h, b)'
<1>1. \A t \in 1 .. at : t \in 1 .. now /\ t \in 1 .. later /\ detected'[t] = detected[t]
  BY DEF Unchanging
<1>2. \A f \in DOMAIN known : known[f].last \in 1 .. later /\ f \in detected'[known[f].last]
  BY <1>1 DEF SeenOK
<1>3. \A t \in had : later - Window < t =>
        \A f \in detected'[t] : f \in DOMAIN known /\ t <= known[f].last
  <2> SUFFICES ASSUME NEW t \in had, later - Window < t
               PROVE  \A f \in detected'[t] : f \in DOMAIN known /\ t <= known[f].last
    OBVIOUS
  <2>1. t \in 1 .. at /\ at - Window < t
    BY Bounds DEF SeenOK
  <2> QED BY <1>1, <2>1 DEF SeenOK
<1>4. had \subseteq 1 .. later
  BY <1>1 DEF SeenOK
<1> QED BY <1>2, <1>3, <1>4 DEF SeenOK

LEMMA EndedSoFar ==
  ASSUME EnvOK, NEW d \in DaySet, NEW at \in Nat, at <= now, DayStart(d + 1) <= at
  PROVE  SoFar(DayTimes(d))
<1>1. d \in Nat /\ DayStart(d) \in Nat /\ DayStart(d + 1) \in Nat /\ now \in Nat
  BY Bounds, DayOrder DEF DaySet, EnvOK, Times
<1> QED BY <1>1 DEF SoFar, DayTimes

LEMMA DaysCarried ==
  ASSUME EnvOK, Unchanging, NEW all, NEW done, NEW over, NEW at \in Nat, NEW more, NEW later \in Nat,
         over \subseteq more, at <= later, at <= now, DaysOK(all, done, over, at)
  PROVE  \A a, s, m, b : a = all /\ s = done /\ m = more /\ b = later => DaysOK(a, s, m, b)'
<1>1. \A d \in done : d \in Nat /\ d \in DaySet /\ DayStart(d + 1) \in Nat /\ DayStart(d + 1) <= at
  BY DayOrder, Bounds DEF DaysOK, DaySet
<1>2. \A d \in done : Count(DayTimes(d))' = Count(DayTimes(d))
  BY <1>1, EndedSoFar DEF Unchanging
<1>3. \A d \in (done \ more) \cap DOMAIN all["daily"] : all["daily"][d] = Count(DayTimes(d))'
  BY <1>2 DEF DaysOK
<1>4. \A d \in done : DayStart(d + 1) <= later
  BY <1>1
<1>5. \A k \in Tables : IsTally(all[k])
  BY DEF DaysOK
<1>6. ASSUME NEW a, NEW s, NEW m, NEW b, a = all, s = done, m = more, b = later
      PROVE  DaysOK(a, s, m, b)'
  BY <1>3, <1>4, <1>5, <1>6 DEF DaysOK
<1> QED BY <1>6

LEMMA RollingCarried ==
  ASSUME EnvOK, Unchanging, NEW state, RollingOK(state)
  PROVE  \A s : s = state => RollingOK(s)'
<1>1. state.last <= now'
  BY Bounds DEF RollingOK, Unchanging, EnvOK, Times
<1>2. ASSUME NEW s, s = state PROVE RollingOK(s)'
  BY <1>1, <1>2 DEF RollingOK
<1> QED BY <1>2

LEMMA ViewCarried ==
  ASSUME EnvOK, Unchanging, ViewOK, view' = view
  PROVE  ViewOK'
<1> SUFFICES ASSUME view # None PROVE view.at \in Window .. now' /\ Shown24h'
  BY DEF ViewOK
<1>1. view.at \in Window .. now /\ Shown24h /\ now \in Nat /\ now' \in Nat /\ now <= now'
  BY DEF ViewOK, Unchanging
<1>2. SoFar(view.at - Window + 1 .. view.at)
  BY <1>1, Bounds DEF SoFar
<1>3. Count(view.at - Window + 1 .. view.at)' = Count(view.at - Window + 1 .. view.at)
  <2>1. \A t \in view.at - Window + 1 .. view.at : t \in DOMAIN detected => detected'[t] = detected[t]
    BY <1>1, <1>2, Bounds DEF SoFar, Unchanging, EnvOK
  <2>2. \A f : Hits(f, view.at - Window + 1 .. view.at)' = Hits(f, view.at - Window + 1 .. view.at)
    BY <2>1 DEF Hits, Unchanging
  <2>3. Answer(view.at - Window + 1 .. view.at)' = Answer(view.at - Window + 1 .. view.at)
    BY <2>2 DEF Answer
  <2> QED BY <2>3 DEF Count
<1>4. Shown24h'
  BY <1>1, <1>3 DEF Shown24h, Unchanging, Backend
<1> QED BY <1>1, <1>4, Bounds

-----------------------------------------------------------------------------
(* Deduplication                                                           *)

LEMMA SampleOf ==
  ASSUME EnvOK, NEW at \in Nat, NEW ts \in SUBSET (1 .. at), NEW f \in Answer(ts)
  PROVE  /\ f \in Flows
         /\ Sample(f, ts).last \in Hits(f, ts)
         /\ Sample(f, ts).last \in ts /\ Sample(f, ts).last \in 1 .. at
         /\ f \in detected[Sample(f, ts).last]
         /\ \A t \in Hits(f, ts) : t \in Nat /\ t <= Sample(f, ts).last
         /\ IsFiniteSet(Hits(f, ts)) /\ Sample(f, ts).connections \in Nat
<1>1. f \in Flows /\ Hits(f, ts) # {} /\ Hits(f, ts) \subseteq ts
  BY DEF Answer, Hits
<1>2. Hits(f, ts) \in SUBSET (0 .. at) /\ Hits(f, ts) \in SUBSET (1 .. at)
  <2>1. 1 .. at \subseteq 0 .. at
    OBVIOUS
  <2> QED BY <1>1, <2>1
<1>3. Most(Hits(f, ts)) \in Hits(f, ts) /\ \A t \in Hits(f, ts) : t <= Most(Hits(f, ts))
  BY <1>1, <1>2, MostOf
<1>4. IsFiniteSet(Hits(f, ts)) /\ Cardinality(Hits(f, ts)) \in Nat
  <2>1. IsFiniteSet(1 .. at)
    BY FS_Interval
  <2>2. IsFiniteSet(Hits(f, ts))
    BY <1>2, <2>1, FS_Subset
  <2> QED BY <2>2, FS_CardinalityType
<1>5. /\ Sample(f, ts).last = Most(Hits(f, ts))
      /\ Sample(f, ts).connections = Cardinality(Hits(f, ts))
  BY DEF Sample
<1>6. \A t \in Hits(f, ts) : f \in detected[t]
  BY DEF Hits
<1> QED BY <1>1, <1>2, <1>3, <1>4, <1>5, <1>6

(* An answer that is deduplicated adds its times to what is known.         *)
LEMMA KnownOK ==
  ASSUME EnvOK, NEW known, NEW had, NEW at \in Nat, at <= now, NEW ts \in SUBSET (1 .. at),
         SeenOK(known, had, at)
  PROVE  SeenOK(Known(known, ts, at), had \cup ts, at)
<1> DEFINE new == Known(known, ts, at)
           takes(f) == f \in Answer(ts) /\ (f \in Kept(known, at) => Supersedes(Sample(f, ts), known[f]))
<1>1. /\ DOMAIN new = Kept(known, at) \cup Answer(ts)
      /\ \A f \in DOMAIN new : new[f] = IF takes(f) THEN Sample(f, ts) ELSE known[f]
  BY DEF Known
<1>2. /\ Kept(known, at) \subseteq DOMAIN known
      /\ DOMAIN known \subseteq Flows /\ had \subseteq 1 .. at
      /\ \A f \in DOMAIN known :
           /\ known[f].last \in 1 .. at /\ f \in detected[known[f].last]
           /\ known[f].connections \in Nat
  BY DEF Kept, SeenOK
<1>3. \A f \in Answer(ts) : /\ f \in Flows /\ Sample(f, ts).last \in 1 .. at
                            /\ f \in detected[Sample(f, ts).last]
                            /\ Sample(f, ts).connections \in Nat
                            /\ \A t \in Hits(f, ts) : t \in Nat /\ t <= Sample(f, ts).last
  BY SampleOf
<1>4. \A f \in DOMAIN new : ~takes(f) => f \in Kept(known, at)
  BY <1>1
<1>5. \A f \in Kept(known, at) : known[f].last <= new[f].last
  <2> SUFFICES ASSUME NEW f \in Kept(known, at), takes(f)
               PROVE  known[f].last <= Sample(f, ts).last
    BY <1>1, <1>2
  <2>1. Supersedes(Sample(f, ts), known[f]) /\ f \in Answer(ts)
    OBVIOUS
  <2> QED BY <2>1, <1>2, <1>3 DEF Supersedes
<1>6. \A f \in Answer(ts) : Sample(f, ts).last <= new[f].last
  <2> SUFFICES ASSUME NEW f \in Answer(ts), ~takes(f)
               PROVE  Sample(f, ts).last <= known[f].last
    BY <1>1, <1>3
  <2>1. f \in Kept(known, at) /\ ~Supersedes(Sample(f, ts), known[f])
    OBVIOUS
  <2> QED BY <2>1, <1>2, <1>3 DEF Supersedes
<1>7. \A f \in DOMAIN new : f \in Flows /\ new[f].last \in 1 .. at /\ f \in detected[new[f].last]
                            /\ new[f].connections \in Nat
  <2> SUFFICES ASSUME NEW f \in DOMAIN new
               PROVE  /\ f \in Flows /\ new[f].last \in 1 .. at /\ f \in detected[new[f].last]
                      /\ new[f].connections \in Nat
    OBVIOUS
  <2>1. CASE takes(f)
    <3>1. new[f] = Sample(f, ts) /\ f \in Answer(ts)
      BY <2>1, <1>1
    <3> HIDE DEF new
    <3> QED BY <3>1, <1>3
  <2>2. CASE ~takes(f)
    <3>1. new[f] = known[f] /\ f \in DOMAIN known
      BY <2>2, <1>1, <1>2, <1>4
    <3> HIDE DEF new
    <3> QED BY <3>1, <1>2
  <2> QED BY <2>1, <2>2
<1>8. ASSUME NEW t \in had \cup ts, at - Window < t, NEW f \in detected[t]
      PROVE  f \in DOMAIN new /\ t <= new[f].last
  <2>1. t \in 1 .. at
    BY <1>2, <1>8
  <2>2. CASE t \in ts
    <3>1. t \in DOMAIN detected
      BY <2>1, Bounds DEF EnvOK, Times
    <3>2. t \in Hits(f, ts)
      BY <2>2, <3>1, <1>8 DEF Hits
    <3>3. detected[t] \in SUBSET Flows
      BY <3>1 DEF EnvOK
    <3>4. f \in Answer(ts)
      BY <3>2, <3>3, <1>8 DEF Answer
    <3>5. t <= Sample(f, ts).last /\ Sample(f, ts).last <= new[f].last /\ f \in DOMAIN new
      BY <3>2, <3>4, <1>1, <1>3, <1>6
    <3>6. Sample(f, ts).last \in 1 .. at /\ new[f].last \in 1 .. at
      BY <3>4, <3>5, <1>3, <1>7
    <3> HIDE DEF new
    <3> QED BY <3>5, <3>6, <2>1
  <2>3. CASE t \in had
    <3>1. f \in DOMAIN known /\ t <= known[f].last /\ known[f].last \in 1 .. at
      BY <2>3, <1>8 DEF SeenOK
    <3>2. f \in Kept(known, at)
      BY <3>1, <1>8, <2>1, Bounds DEF Kept
    <3>3. known[f].last <= new[f].last /\ f \in DOMAIN new /\ new[f].last \in 1 .. at
      BY <3>2, <1>1, <1>5, <1>7
    <3> HIDE DEF new
    <3> QED BY <3>1, <3>3, <2>1
  <2> QED BY <2>2, <2>3, <1>8
<1> HIDE DEF new
<1>9. had \cup ts \subseteq 1 .. at
  BY <1>2
<1>10. SeenOK(new, had \cup ts, at)
  BY <1>7, <1>8, <1>9 DEF SeenOK
<1> QED BY <1>10 DEF new

LEMMA NothingKnown ==
  ASSUME NEW at \in Nat
  PROVE  SeenOK(Empty, {}, at)
BY DEF SeenOK, Empty

LEMMA Forgetting ==
  ASSUME NEW known, NEW had, NEW at \in Nat, SeenOK(known, had, at)
  PROVE  SeenOK([f \in Kept(known, at) |-> known[f]], had, at)
<1> DEFINE new == [f \in Kept(known, at) |-> known[f]]
<1>1. DOMAIN new = Kept(known, at) /\ \A f \in DOMAIN new : new[f] = known[f] /\ f \in DOMAIN known
  BY DEF Kept
<1>2. ASSUME NEW t \in had, at - Window < t, NEW f \in detected[t]
      PROVE  f \in DOMAIN new /\ t <= new[f].last
  <2>1. f \in DOMAIN known /\ t <= known[f].last /\ known[f].last \in 1 .. at /\ t \in 1 .. at
    BY <1>2 DEF SeenOK
  <2>2. f \in Kept(known, at)
    BY <2>1, <1>2, Bounds DEF Kept
  <2> QED BY <2>1, <2>2
<1>3. \A f \in DOMAIN new : known[f].last \in 1 .. at /\ f \in detected[known[f].last]
                            /\ known[f].connections \in Nat /\ f \in Flows
  BY <1>1 DEF SeenOK
<1> HIDE DEF new
<1>4. SeenOK(new, had, at)
  BY <1>1, <1>2, <1>3 DEF SeenOK
<1> QED BY <1>4 DEF new

(* The flows known are the flows of the window.                            *)
LEMMA KeptCount ==
  ASSUME EnvOK, NEW known, NEW had, NEW at \in Window .. MaxTime, SeenOK(known, had, at)
  PROVE  /\ Cardinality(Kept(known, at)) <= Count(at - Window + 1 .. at)
         /\ at - Window + 1 .. at \subseteq had =>
              Cardinality(Kept(known, at)) = Count(at - Window + 1 .. at)
<1> DEFINE ts == at - Window + 1 .. at
<1>1. at \in Nat /\ Window \in Nat /\ at - Window \in Nat /\ MaxTime \in Nat /\ at <= MaxTime
  BY Bounds
<1>2. DOMAIN detected = 1 .. MaxTime /\ \A t \in DOMAIN detected : detected[t] \subseteq Flows
  BY DEF EnvOK
<1>3. Kept(known, at) \subseteq Answer(ts)
  <2> SUFFICES ASSUME NEW f \in Kept(known, at) PROVE f \in Answer(ts)
    OBVIOUS
  <2>1. f \in DOMAIN known /\ known[f].last > at - Window
    BY DEF Kept
  <2>2. f \in Flows /\ known[f].last \in 1 .. at /\ f \in detected[known[f].last]
    BY <2>1 DEF SeenOK
  <2>3. known[f].last \in ts \cap DOMAIN detected
    BY <2>1, <2>2, <1>1, <1>2
  <2> HIDE DEF ts
  <2> QED BY <2>2, <2>3 DEF Answer, Hits
<1>4. ts \subseteq had => Answer(ts) \subseteq Kept(known, at)
  <2> SUFFICES ASSUME ts \subseteq had, NEW f \in Answer(ts) PROVE f \in Kept(known, at)
    OBVIOUS
  <2>1. PICK t \in ts : f \in detected[t]
    BY DEF Answer, Hits
  <2>2. t \in had /\ t \in Nat /\ at - Window < t
    BY <1>1
  <2>3. f \in DOMAIN known /\ t <= known[f].last /\ known[f].last \in 1 .. at
    BY <2>1, <2>2 DEF SeenOK
  <2> HIDE DEF ts
  <2> QED BY <2>2, <2>3, <1>1 DEF Kept
<1>5. Answer(ts) \in SUBSET Flows
  BY CountType
<1>6. Cardinality(Kept(known, at)) <= Count(ts)
  BY <1>3, <1>5, CountGrows DEF Count
<1>7. ts \subseteq had => Cardinality(Kept(known, at)) = Count(ts)
  BY <1>3, <1>4 DEF Count
<1> QED BY <1>6, <1>7

-----------------------------------------------------------------------------
(* Daily tables                                                            *)

LEMMA TallyExtended ==
  ASSUME NEW fn, IsTally(fn), NEW d \in DaySet, NEW v \in Nat \cup {None}
  PROVE  IsTally(Extend(fn, d, v))
BY DEF IsTally, Extend

LEMMA EntryType ==
  ASSUME NEW fn, IsTally(fn)
  PROVE  \A d : Entry(fn, d) \in Nat
BY DEF IsTally, Entry

LEMMA TallyPlus ==
  ASSUME NEW fn, IsTally(fn), NEW d \in DaySet, NEW n \in Nat
  PROVE  IsTally(Plus(fn, d, n))
BY EntryType, TallyExtended DEF Plus

LEMMA TallyDrop ==
  ASSUME NEW fn, IsTally(fn), NEW S
  PROVE  IsTally(Drop(fn, S))
BY DEF IsTally, Drop

(* What is pruned, or not saved, leaves the other days as they are.        *)
LEMMA DroppedOK ==
  ASSUME NEW all, NEW done, NEW over, NEW at, DaysOK(all, done, over, at),
         NEW new, DOMAIN new = Tables,
         \A k \in Tables : \E S : new[k] = Drop(all[k], S)
  PROVE  DaysOK(new, done, over, at)
<1>1. \A k \in Tables : IsTally(new[k])
  BY TallyDrop DEF DaysOK
<1>2. PICK S : new["daily"] = Drop(all["daily"], S)
  BY DEF Tables
<1>3. \A d \in DOMAIN new["daily"] : d \in DOMAIN all["daily"] /\ new["daily"][d] = all["daily"][d]
  BY <1>2 DEF Drop
<1> QED BY <1>1, <1>3 DEF DaysOK

LEMMA PrunedOK ==
  ASSUME NEW all, NEW done, NEW over, NEW at, DaysOK(all, done, over, at), NEW t
  PROVE  DaysOK(Pruned(all, t), done, over, at)
<1>1. DOMAIN Pruned(all, t) = Tables /\ \A k \in Tables : Pruned(all, t)[k] = Drop(all[k], Expired(t))
  BY DEF Pruned, DaysOK
<1> QED BY <1>1, DroppedOK

LEMMA SavedOK ==
  ASSUME NEW all, NEW done, NEW over, NEW at, DaysOK(all, done, over, at)
  PROVE  DaysOK(SavedDays(all), done, over, at)
<1>1. /\ DOMAIN SavedDays(all) = Tables
      /\ \A k \in Tables :
           SavedDays(all)[k] = Drop(all[k], {d \in DOMAIN all[k] : all[k][d] = None})
  BY DEF SavedDays, DaysOK
<1> QED BY <1>1, DroppedOK

LEMMA FewerDays ==
  ASSUME NEW all, NEW done, NEW over, NEW at, DaysOK(all, done, over, at),
         NEW less \in SUBSET done
  PROVE  DaysOK(all, less, over, at)
BY DEF DaysOK

(* A reconciled day.                                                       *)
LEMMA ReplacedOK ==
  ASSUME NEW all, NEW done, NEW over, NEW at, DaysOK(all, done, over, at),
         NEW d \in DaySet, NEW n \in Nat,
         NEW more \in SUBSET (done \cup {d}), NEW wider, over \subseteq wider,
         d \in more => DayStart(d + 1) <= at,
         d \in more \ wider => n = Count(DayTimes(d))
  PROVE  DaysOK([all EXCEPT !.daily = Extend(@, d, n)], more, wider, at)
<1> DEFINE new == [all EXCEPT !.daily = Extend(@, d, n)]
<1>1. /\ DOMAIN new = Tables
      /\ new["daily"] = Extend(all["daily"], d, n)
      /\ \A k \in Tables : k # "daily" => new[k] = all[k]
  BY DEF DaysOK, Tables
<1>2. \A k \in Tables : IsTally(new[k])
  <2>1. \A k \in Tables : IsTally(all[k])
    BY DEF DaysOK
  <2>2. "daily" \in Tables
    BY DEF Tables
  <2>3. IsTally(new["daily"])
    BY <1>1, <2>1, <2>2, TallyExtended
  <2> QED BY <1>1, <2>1, <2>3
<1>3. /\ DOMAIN new["daily"] = DOMAIN all["daily"] \cup {d}
      /\ \A e \in DOMAIN new["daily"] : new["daily"][e] = IF e = d THEN n ELSE all["daily"][e]
  BY <1>1 DEF Extend
<1>4. more \subseteq DaySet /\ \A e \in more : DayStart(e + 1) <= at
  BY DEF DaysOK
<1> HIDE DEF new
<1>5. \A e \in (more \ wider) \cap DOMAIN new["daily"] : new["daily"][e] = Count(DayTimes(e))
  BY <1>3 DEF DaysOK
<1>6. DaysOK(new, more, wider, at)
  BY <1>1, <1>2, <1>4, <1>5 DEF DaysOK
<1> QED BY <1>6 DEF new

(* What a cycle adds to the day that has begun.                            *)
LEMMA AccountedOK ==
  ASSUME NEW all, NEW done, NEW over, NEW at \in Times, DaysOK(all, done, over, at),
         NEW new, DOMAIN new = Tables, \A k \in Tables : IsTally(new[k]),
         \A d \in DOMAIN new["daily"] :
           d # DayOf(at) => d \in DOMAIN all["daily"] /\ new["daily"][d] = all["daily"][d]
  PROVE  DaysOK(new, done, over, at)
<1>1. DayOf(at) \notin done
  <2> SUFFICES ASSUME DayOf(at) \in done PROVE FALSE
    OBVIOUS
  <2>1. DayStart(DayOf(at) + 1) <= at
    BY DEF DaysOK
  <2>2. at \in Nat
    BY DayInSet
  <2>3. at < DayStart(DayOf(at) + 1) /\ DayStart(DayOf(at) + 1) \in Nat
    BY <2>2, InDay, DayOrder
  <2> QED BY <2>1, <2>2, <2>3
<1>2. \A d \in (done \ over) \cap DOMAIN new["daily"] : new["daily"][d] = Count(DayTimes(d))
  BY <1>1 DEF DaysOK
<1> QED BY <1>2 DEF DaysOK

-----------------------------------------------------------------------------
(* What is saved                                                           *)

LEMMA DiskCarried ==
  ASSUME EnvOK, Unchanging, NEW saved, NEW done, NEW over, NEW at \in Nat,
         NEW more, NEW wider, NEW later \in Nat,
         done \subseteq more, over \subseteq wider, at <= later, at <= now,
         DiskOK(saved, done, over, at)
  PROVE  \A c, s, m, b : c = saved /\ s = more /\ m = wider /\ b = later => DiskOK(c, s, m, b)'
<1>1. RollingOK(saved.rolling) /\ DaysOK(saved.days, saved.settled, over, at)
  BY DEF DiskOK
<1>2. \A s : s = saved.rolling => RollingOK(s)'
  BY <1>1, RollingCarried
<1>3. \A a, s, m, b : a = saved.days /\ s = saved.settled /\ m = wider /\ b = later => DaysOK(a, s, m, b)'
  BY <1>1, DaysCarried
<1>4. ASSUME NEW c, NEW s, NEW m, NEW b, c = saved, s = more, m = wider, b = later
      PROVE  DiskOK(c, s, m, b)'
  <2>1. RollingOK(c.rolling)' /\ DaysOK(c.days, c.settled, m, b)'
    BY <1>2, <1>3, <1>4
  <2>2. c \in [rolling : {c.rolling}, days : {c.days}, settled : SUBSET s]
    BY <1>4 DEF DiskOK
  <2> QED BY <2>1, <2>2 DEF DiskOK
<1> QED BY <1>4

LEMMA SavePrunedOK ==
  ASSUME NEW all, NEW done, NEW over, NEW at, NEW t,
         DiskOK(disk, done, over, at), DaysOK(all, done, over, at)
  PROVE  DiskOK(SavePruned(all, t), done, over, at)
<1>1. CASE all = Pruned(all, t)
  BY <1>1 DEF SavePruned
<1>2. CASE all # Pruned(all, t)
  <2> DEFINE tables == SavedDays(Pruned(all, t))
             new == [disk EXCEPT !.days = tables]
  <2>1. new.rolling = disk.rolling /\ new.days = tables /\ new.settled = disk.settled
        /\ new \in [rolling : {new.rolling}, days : {new.days}, settled : SUBSET done]
        /\ disk.settled \in SUBSET done
    BY DEF DiskOK
  <2>2. DaysOK(tables, done, over, at)
    BY PrunedOK, SavedOK
  <2> HIDE DEF tables
  <2>3. DaysOK(tables, disk.settled, over, at)
    BY <2>1, <2>2, FewerDays
  <2>4. RollingOK(new.rolling)
    BY <2>1 DEF DiskOK
  <2> HIDE DEF new
  <2>5. DiskOK(new, done, over, at)
    BY <2>1, <2>3, <2>4 DEF DiskOK
  <2>6. SavePruned(all, t) = new
    BY <1>2 DEF SavePruned, new, tables
  <2> QED BY <2>5, <2>6
<1> QED BY <1>1, <1>2

(* One table is saved; the daily one with the days reconciled in it.       *)
LEMMA TableSavedOK ==
  ASSUME NEW saved, NEW done, NEW over, NEW at,
         DiskOK(saved, done, over, at), NEW all, DaysOK(all, done, over, at), NEW kind \in Tables
  PROVE  DiskOK([saved EXCEPT !.days[kind] = all[kind],
                              !.settled = IF kind = "daily" THEN done ELSE @], done, over, at)
<1> DEFINE new == [saved EXCEPT !.days[kind] = all[kind],
                                !.settled = IF kind = "daily" THEN done ELSE @]
           tables == [saved.days EXCEPT ![kind] = all[kind]]
<1>1. saved \in [rolling : {saved.rolling}, days : {saved.days}, settled : SUBSET done]
  BY DEF DiskOK
<1>2. /\ new.rolling = saved.rolling /\ new.days = tables
      /\ new.settled = IF kind = "daily" THEN done ELSE saved.settled
      /\ DOMAIN new = DOMAIN saved
  BY <1>1
<1>3. new \in [rolling : {new.rolling}, days : {new.days}, settled : SUBSET done]
  BY <1>1
<1>4. DaysOK(tables, new.settled, over, at)
  <2>1. DOMAIN tables = Tables /\ \A k \in Tables : tables[k] = IF k = kind THEN all[k] ELSE saved.days[k]
    BY DEF DiskOK, DaysOK
  <2>2. \A k \in Tables : IsTally(tables[k])
    BY <2>1 DEF DiskOK, DaysOK
  <2>3. "daily" \in Tables
    BY DEF Tables
  <2> HIDE DEF tables, new
  <2>4. CASE kind = "daily"
    BY <2>1, <2>2, <2>3, <2>4, <1>2 DEF DaysOK
  <2>5. CASE kind # "daily"
    <3>1. tables["daily"] = saved.days["daily"] /\ new.settled = saved.settled
      BY <2>1, <2>3, <2>5, <1>2
    <3> QED BY <2>1, <2>2, <3>1 DEF DiskOK, DaysOK
  <2> QED BY <2>4, <2>5
<1> HIDE DEF new, tables
<1>5. DiskOK(new, done, over, at)
  BY <1>2, <1>3, <1>4 DEF DiskOK
<1> QED BY <1>5 DEF new

LEMMA BoundGrows ==
  ASSUME EnvOK, CycleOK, Unchanging,
         \/ cycle' = cycle
         \/ cycle'.pc = "idle"
         \/ cycle.pc = "idle" /\ cycle'.at = now
         \/ cycle.pc # "idle" /\ cycle'.at = cycle.at
  PROVE  /\ Bound \in Nat /\ Bound' \in Nat /\ Bound <= Bound' /\ Bound <= now /\ Bound' <= now'
         /\ Bound \in Times
<1>1. Bound \in Window .. now /\ Bound \in Nat /\ Bound \in Times
  BY BoundType
<1> QED BY <1>1 DEF Bound, Unchanging

LEMMA Carried ==
  ASSUME AccountingInv, Unchanging, EnvOK', Bound' \in Nat, Bound <= Bound'
  PROVE  /\ rolling' = rolling => RollingOK(rolling)'
         /\ view' = view => ViewOK'
         /\ seen' = seen /\ applied' = applied => SeenOK(seen, applied, Bound)'
         /\ days' = days /\ settled' = settled /\ late \subseteq late' => DaysOK(days, settled, late, Bound)'
         /\ disk' = disk /\ settled \subseteq settled' /\ late \subseteq late' =>
              DiskOK(disk, settled, late, Bound)'
         /\ job' = job => JobOK'
         /\ reseed' = reseed => reseed' \in BOOLEAN /\ (reseed' => HostMetrics')
<1>1. EnvOK /\ RollingOK(rolling) /\ CycleOK /\ JobOK /\ ViewOK /\ RestOK
      /\ SeenOK(seen, applied, Bound) /\ DaysOK(days, settled, late, Bound)
      /\ DiskOK(disk, settled, late, Bound)
  BY DEF AccountingInv
<1>2. Bound \in Nat /\ Bound <= now /\ now \in Nat /\ now' \in Nat /\ now <= now'
  BY <1>1, BoundType DEF Unchanging
<1>3. rolling' = rolling => RollingOK(rolling)'
  BY <1>1, RollingCarried
<1>4. view' = view => ViewOK'
  BY <1>1, ViewCarried
<1>5. seen' = seen /\ applied' = applied => SeenOK(seen, applied, Bound)'
  <2> HAVE seen' = seen /\ applied' = applied
  <2>1. \A k, h, b : k = seen /\ h = applied /\ b = Bound' => SeenOK(k, h, b)'
    BY <1>1, <1>2, SeenCarried
  <2> QED BY <2>1 DEF SeenOK
<1>6. days' = days /\ settled' = settled /\ late \subseteq late' => DaysOK(days, settled, late, Bound)'
  <2> HAVE days' = days /\ settled' = settled /\ late \subseteq late'
  <2>1. \A a, s, m, b : a = days /\ s = settled /\ m = late' /\ b = Bound' => DaysOK(a, s, m, b)'
    BY <1>1, <1>2, DaysCarried
  <2> QED BY <2>1 DEF DaysOK
<1>7. disk' = disk /\ settled \subseteq settled' /\ late \subseteq late' =>
        DiskOK(disk, settled, late, Bound)'
  <2> HAVE disk' = disk /\ settled \subseteq settled' /\ late \subseteq late'
  <2>1. \A c, s, m, b : c = disk /\ s = settled' /\ m = late' /\ b = Bound' => DiskOK(c, s, m, b)'
    BY <1>1, <1>2, DiskCarried
  <2> QED BY <2>1 DEF DiskOK
<1>8. job' = job => JobOK'
  BY <1>1, <1>2, Bounds DEF JobOK
<1>9. reseed' = reseed => reseed' \in BOOLEAN /\ (reseed' => HostMetrics')
  BY <1>1 DEF RestOK, HostMetrics, Unchanging
<1> QED BY <1>3, <1>4, <1>5, <1>6, <1>7, <1>8, <1>9

LEMMA Troubled ==
  ASSUME AccountingInv, UNCHANGED env, UNCHANGED spent \/ \E what \in Troubles : Meet(what)
  PROVE  EnvOK /\ Unchanging /\ EnvOK' /\ now' = now
BY MeetEnv, SameUnchanging DEF AccountingInv, env

-----------------------------------------------------------------------------
(* The steps                                                               *)

LEMMA InitInv ==
  ASSUME Init
  PROVE  AccountingInv
<1>1. EnvOK
  <2>1. now \in Times /\ Window \in Nat
    BY Bounds DEF Init, Times
  <2>2. detected \in [1 .. MaxTime -> SUBSET Flows] /\ spent \in [Troubles -> Nat] /\ mode \in Modes
    BY DEF Init
  <2> QED BY <2>1, <2>2 DEF EnvOK
<1>2. RollingOK(NoRolling)
  BY <1>1, Bounds DEF RollingOK, NoRolling, Empty, EnvOK, Times
<1>3. DaysOK(NoDays, {}, {}, Bound)
  BY DEF DaysOK, NoDays, Tables, IsTally, Empty
<1>4. DiskOK(disk, settled, late, Bound)
  BY <1>2, <1>3 DEF DiskOK, Init
<1>5. SeenOK(seen, applied, Bound)
  BY DEF SeenOK, Init, Empty
<1>6. CycleOK /\ JobOK /\ ViewOK
  BY DEF CycleOK, JobOK, ViewOK, Init, Idle
<1>7. RestOK
  <2>1. mode \in [backend : {"sqlite", "memory"}, hosts : BOOLEAN, may : SUBSET Troubles]
    BY ModeAssumption DEF Init
  <2> QED BY <2>1 DEF RestOK, Init, Empty, HostMetrics
<1> QED BY <1>1, <1>2, <1>3, <1>4, <1>5, <1>6, <1>7 DEF AccountingInv, Init

LEMMA TickStep ==
  ASSUME AccountingInv, Tick
  PROVE  AccountingInv'
<1>1. EnvOK /\ CycleOK /\ RestOK
  BY DEF AccountingInv
<1>2. Unchanging /\ EnvOK' /\ now' = now + 1
  BY <1>1, TickUnchanging
<1>3. Bound' \in Nat /\ Bound <= Bound'
  BY <1>1, <1>2, BoundGrows DEF Tick
<1>4. CycleOK'
  BY <1>1, <1>2, Bounds DEF CycleOK, Tick, store, EnvOK, Times
<1>5. RestOK'
  BY <1>1 DEF RestOK, Tick, store, ghosts, HostMetrics
<1> QED BY <1>2, <1>3, <1>4, <1>5, Carried DEF AccountingInv, Tick, store, ghosts

LEMMA StartCycleStep ==
  ASSUME AccountingInv, StartCycle
  PROVE  AccountingInv'
<1>1. EnvOK /\ CycleOK /\ RestOK /\ RollingOK(rolling)
  BY DEF AccountingInv
<1>2. Unchanging /\ EnvOK' /\ now' = now
  BY Troubled DEF StartCycle, env
<1> DEFINE fresh == reseed \/ rolling.baseline = None \/ ~rolling.initialized
<1>3. /\ cycle.pc = "idle" /\ rolling.last < now
      /\ cycle' = [pc |-> "query", at |-> now, full |-> ~rolling.initialized, fresh |-> fresh,
                   from |-> IF fresh THEN now - Window ELSE DeltaStart]
      /\ reseed' = FALSE /\ rolling' = rolling
      /\ hosts5m' = ClearedHosts(reseed)
  BY DEF StartCycle
<1>4. Bound' \in Nat /\ Bound <= Bound'
  BY <1>1, <1>2, <1>3, BoundGrows
<1>5. now \in Nat /\ Window <= now /\ now <= MaxTime /\ rolling.last \in Nat
  BY <1>1, Bounds DEF EnvOK, Times, RollingOK
<1>6. CycleOK'
  <2>1. cycle'.from \in Nat /\ now - Window <= cycle'.from /\ cycle'.from < now
        /\ (~fresh => rolling.last <= cycle'.from)
    BY <1>3, <1>5, Bounds DEF DeltaStart
  <2>2. fresh \in BOOLEAN
    OBVIOUS
  <2>3. ~fresh => rolling.baseline # None /\ rolling.initialized
    BY <1>1 DEF RollingOK
  <2> HIDE DEF fresh
  <2> QED BY <1>2, <1>3, <1>5, <2>1, <2>2, <2>3 DEF CycleOK
<1>7. RestOK'
  BY <1>1, <1>3 DEF RestOK, StartCycle, ghosts, ClearedHosts, Empty
<1> QED BY <1>2, <1>3, <1>4, <1>6, <1>7, Carried DEF AccountingInv, StartCycle, ghosts

-----------------------------------------------------------------------------
(* Sums                                                                    *)

Cells(fn) == UNION {{k} \X (1 .. fn[k]) : k \in DOMAIN fn}

LEMMA TotalType ==
  ASSUME NEW fn, IsFiniteSet(DOMAIN fn), \A k \in DOMAIN fn : fn[k] \in Int
  PROVE  IsFiniteSet(Cells(fn)) /\ Total(fn) \in Nat /\ Total(fn) = Cardinality(Cells(fn))
<1> DEFINE parts == {{k} \X (1 .. fn[k]) : k \in DOMAIN fn}
           part == [k \in DOMAIN fn |-> {k} \X (1 .. fn[k])]
<1>1. part \in Surjection(DOMAIN fn, parts)
  BY DEF Surjection
<1>2. IsFiniteSet(parts)
  BY <1>1, FS_Surjection
<1>3. \A T \in parts : IsFiniteSet(T)
  <2> SUFFICES ASSUME NEW k \in DOMAIN fn PROVE IsFiniteSet({k} \X (1 .. fn[k]))
    OBVIOUS
  <2>1. IsFiniteSet({k})
    BY FS_Singleton
  <2>2. IsFiniteSet(1 .. fn[k])
    BY FS_Interval
  <2> QED BY <2>1, <2>2, FS_Product
<1> HIDE DEF parts
<1>4. IsFiniteSet(UNION parts)
  BY <1>2, <1>3, FS_UNION
<1>5. Cells(fn) = UNION parts
  BY DEF parts, Cells
<1> QED BY <1>4, <1>5, FS_CardinalityType DEF Total, Cells

(* How many connections of a flow an answer adds.                          *)
Growth(known, f, ts, at) ==
  IF f \in NewFlows(known, ts, at) \/ Supersedes(Sample(f, ts), known[f])
  THEN Sample(f, ts).connections - (IF f \in Kept(known, at) THEN known[f].connections ELSE 0)
  ELSE 0

LEMMA AddedIs ==
  ASSUME NEW known, NEW ts, NEW at
  PROVE  Added(known, ts, at) = Total([f \in Answer(ts) |-> Growth(known, f, ts, at)])
BY DEF Added, Growth

LEMMA GrowthType ==
  ASSUME EnvOK, NEW known, NEW had, NEW at \in Nat, NEW ts \in SUBSET (1 .. at),
         SeenOK(known, had, at), NEW f \in Answer(ts)
  PROVE  Growth(known, f, ts, at) \in Int /\ Growth(known, f, ts, at) <= Cardinality(Hits(f, ts))
<1>1. Sample(f, ts).connections \in Nat /\ Sample(f, ts).connections = Cardinality(Hits(f, ts))
  BY SampleOf DEF Sample
<1>2. f \in Kept(known, at) => known[f].connections \in Nat
  BY DEF Kept, SeenOK
<1> QED BY <1>1, <1>2 DEF Growth

LEMMA AddedType ==
  ASSUME EnvOK, NEW known, NEW had, NEW at \in Nat, NEW ts \in SUBSET (1 .. at),
         SeenOK(known, had, at)
  PROVE  Added(known, ts, at) \in Nat /\ Raw(ts) \in Nat /\ Cardinality(NewFlows(known, ts, at)) \in Nat
<1>1. IsFiniteSet(Answer(ts)) /\ NewFlows(known, ts, at) \in SUBSET Flows
  BY CountType, Counted DEF NewFlows
<1>2. Total([f \in Answer(ts) |-> Growth(known, f, ts, at)]) \in Nat
  <2> DEFINE fn == [f \in Answer(ts) |-> Growth(known, f, ts, at)]
  <2>1. DOMAIN fn = Answer(ts) /\ \A f \in DOMAIN fn : fn[f] \in Int
    BY GrowthType
  <2> HIDE DEF fn
  <2>2. Total(fn) \in Nat
    BY <1>1, <2>1, TotalType
  <2> QED BY <2>2 DEF fn
<1>3. Raw(ts) \in Nat
  <2> DEFINE fn == [f \in Answer(ts) |-> Cardinality(Hits(f, ts))]
  <2>1. DOMAIN fn = Answer(ts) /\ \A f \in DOMAIN fn : fn[f] \in Int
    BY SampleOf DEF Sample
  <2> HIDE DEF fn
  <2>2. Total(fn) \in Nat
    BY <1>1, <2>1, TotalType
  <2> QED BY <2>2 DEF fn, Raw
<1> QED BY <1>1, <1>2, <1>3, AddedIs, Counted

-----------------------------------------------------------------------------
(* The query                                                               *)

LEMMA AskedTimes ==
  ASSUME EnvOK, CycleOK, cycle.pc = "query"
  PROVE  Asked \in SUBSET (1 .. cycle.at) /\ Bound = cycle.at /\ cycle.at \in Nat /\ cycle.at <= now
         /\ cycle.at \in Times /\ \A t \in Asked : cycle.at - Window < t
BY Bounds DEF CycleOK, Asked, Bound, EnvOK, Times

(* Whatever the PCE answers, what is handed to the accounting is a number. *)
LEMMA AnsweredStep ==
  ASSUME AccountingInv, cycle.pc = "query", EnvOK', Unchanging, now' = now,
         NEW ok \in BOOLEAN, NEW count \in Nat, NEW add \in Nat, Answered(ok, count, add),
         rolling' = rolling, reseed' = reseed
  PROVE  CycleOK' /\ Bound' = Bound /\ Bound' \in Nat /\ Bound <= Bound'
<1>1. EnvOK /\ CycleOK
  BY DEF AccountingInv
<1>2. cycle' = [pc |-> "account", at |-> cycle.at, full |-> cycle.full, fresh |-> cycle.fresh,
                ok |-> ok, count |-> count, add |-> add]
  BY DEF Answered
<1>3. CycleOK'
  BY <1>1, <1>2 DEF CycleOK
<1>4. Bound' = Bound /\ Bound \in Nat
  BY <1>1, <1>2, BoundType DEF Bound
<1> QED BY <1>3, <1>4

LEMMA HostsCleared ==
  ASSUME RestOK, ClearHosts
  PROVE  DOMAIN hosts5m' \subseteq Times
BY DEF RestOK, ClearHosts, ClearedHosts, Empty

LEMMA Cleared ==
  ASSUME AccountingInv, cycle.pc = "query"
  PROVE  SeenOK(ClearSeen, ClearApplied, cycle.at)
<1>1. SeenOK(seen, applied, cycle.at) /\ cycle.at \in Nat
  BY AskedTimes DEF AccountingInv
<1> QED BY <1>1, NothingKnown DEF ClearSeen, ClearApplied

LEMMA QueryFailsStep ==
  ASSUME AccountingInv, QueryFails
  PROVE  AccountingInv'
<1>1. EnvOK /\ Unchanging /\ EnvOK' /\ now' = now
  BY Troubled DEF QueryFails, Fault, Troubles
<1>2. CycleOK' /\ Bound' = Bound /\ Bound' \in Nat /\ Bound <= Bound'
  BY <1>1, AnsweredStep DEF QueryFails, store
<1>3. RestOK'
  BY DEF AccountingInv, RestOK, QueryFails, ghosts, env, HostMetrics, store
<1> QED BY <1>1, <1>2, <1>3, Carried DEF AccountingInv, QueryFails, ghosts, store

LEMMA QueryCountOnlyStep ==
  ASSUME AccountingInv, QueryCountOnly
  PROVE  AccountingInv'
<1>1. EnvOK /\ Unchanging /\ EnvOK' /\ now' = now
  BY Troubled DEF QueryCountOnly, Troubles
<1>2. CycleOK' /\ Bound' = Bound /\ Bound' \in Nat /\ Bound <= Bound'
  BY <1>1, AnsweredStep, CountType DEF QueryCountOnly
<1>3. RestOK'
  BY HostsCleared DEF AccountingInv, RestOK, QueryCountOnly, ghosts, env, HostMetrics
<1> QED BY <1>1, <1>2, <1>3, Carried DEF AccountingInv, QueryCountOnly, ghosts

LEMMA QueryDetailedStep ==
  ASSUME AccountingInv, QueryDetailed
  PROVE  AccountingInv'
<1>1. EnvOK /\ Unchanging /\ EnvOK' /\ now' = now
  BY Troubled DEF QueryDetailed, Troubles
<1>2. /\ EnvOK /\ CycleOK /\ cycle.pc = "query"
      /\ Asked \in SUBSET (1 .. cycle.at) /\ Bound = cycle.at /\ cycle.at \in Nat /\ cycle.at <= now
  BY AskedTimes DEF AccountingInv, QueryDetailed
<1>3. SeenOK(ClearSeen, ClearApplied, cycle.at)
  BY <1>2, Cleared
<1> DEFINE add == Added(ClearSeen, Asked, cycle.at)
           hosts == IF cycle.fresh /\ add = 0 THEN Raw(Asked) ELSE add
           count == IF cycle.fresh THEN Count(Asked)
                    ELSE Cardinality(NewFlows(ClearSeen, Asked, cycle.at))
<1>4. add \in Nat /\ hosts \in Nat /\ count \in Nat
  BY <1>2, <1>3, AddedType, CountType
<1>5. \E n \in {0, hosts} : Answered(TRUE, count, n)
  BY DEF QueryDetailed
<1> HIDE DEF hosts, count
<1>6. CycleOK' /\ Bound' = Bound /\ Bound' \in Nat /\ Bound <= Bound'
  BY <1>1, <1>2, <1>4, <1>5, AnsweredStep DEF QueryDetailed
<1>7. RestOK'
  BY HostsCleared DEF AccountingInv, RestOK, QueryDetailed, ghosts, env, HostMetrics
<1>8. SeenOK(Known(ClearSeen, Asked, cycle.at), ClearApplied \cup Asked, cycle.at)
  BY <1>2, <1>3, KnownOK
<1>9. SeenOK(seen, applied, Bound)'
  <2>1. seen' = Known(ClearSeen, Asked, cycle.at) /\ applied' = ClearApplied \cup Asked
    BY DEF QueryDetailed
  <2>2. \A k, h, b : k = Known(ClearSeen, Asked, cycle.at) /\ h = ClearApplied \cup Asked /\ b = Bound'
          => SeenOK(k, h, b)'
    BY <1>1, <1>2, <1>6, <1>8, SeenCarried
  <2> QED BY <2>1, <2>2 DEF SeenOK
<1> QED BY <1>1, <1>6, <1>7, <1>9, Carried DEF AccountingInv, QueryDetailed

LEMMA DedupeFailsStep ==
  ASSUME AccountingInv, DedupeFails
  PROVE  AccountingInv'
<1>1. EnvOK /\ Unchanging /\ EnvOK' /\ now' = now
  BY Troubled DEF DedupeFails, Fault, Troubles
<1>2. /\ EnvOK /\ CycleOK /\ cycle.pc = "query"
      /\ Asked \in SUBSET (1 .. cycle.at) /\ Bound = cycle.at /\ cycle.at \in Nat /\ cycle.at <= now
  BY AskedTimes DEF AccountingInv, DedupeFails
<1>3. SeenOK(ClearSeen, ClearApplied, cycle.at)
  BY <1>2, Cleared
<1>4. Raw(Asked) \in Nat /\ Count(Asked) \in Nat
  BY <1>2, <1>3, AddedType, CountType
<1>5. \E n \in {0, Count(Asked)}, m \in {0, Raw(Asked)} : Answered(TRUE, n, m)
  BY DEF DedupeFails
<1>6. CycleOK' /\ Bound' = Bound /\ Bound' \in Nat /\ Bound <= Bound'
  BY <1>1, <1>2, <1>4, <1>5, AnsweredStep DEF DedupeFails
<1>7. RestOK'
  BY HostsCleared DEF AccountingInv, RestOK, DedupeFails, ghosts, env, HostMetrics
<1>8. SeenOK(seen, applied, Bound)'
  <2>1. seen' = ClearSeen /\ applied' = ClearApplied
    BY DEF DedupeFails
  <2>2. \A k, h, b : k = ClearSeen /\ h = ClearApplied /\ b = Bound' => SeenOK(k, h, b)'
    BY <1>1, <1>2, <1>3, <1>6, SeenCarried
  <2> QED BY <2>1, <2>2 DEF SeenOK
<1> QED BY <1>1, <1>6, <1>7, <1>8, Carried DEF AccountingInv, DedupeFails

-----------------------------------------------------------------------------
(* The accounting                                                          *)

(* What a cycle adds to a table of its day.                                *)
AddCount(fn, day, counted, n) ==
  IF counted \/ n > 0
  THEN IF n > 0 THEN Plus(fn, day, n)
       ELSE Extend(fn, day, IF day \in DOMAIN fn THEN fn[day] ELSE None)
  ELSE fn
AddHosts(fn, day, n) == IF n > 0 THEN Plus(fn, day, n) ELSE fn

LEMMA AddCountOK ==
  ASSUME NEW fn, IsTally(fn), NEW day \in DaySet, NEW counted, NEW n \in Nat
  PROVE  /\ IsTally(AddCount(fn, day, counted, n)) /\ IsTally(AddHosts(fn, day, n))
         /\ \A d \in DOMAIN AddCount(fn, day, counted, n) :
              d # day => d \in DOMAIN fn /\ AddCount(fn, day, counted, n)[d] = fn[d]
<1>1. IsTally(Plus(fn, day, n))
  BY TallyPlus
<1>2. IsTally(Extend(fn, day, IF day \in DOMAIN fn THEN fn[day] ELSE None))
  <2>1. (IF day \in DOMAIN fn THEN fn[day] ELSE None) \in Nat \cup {None}
    BY DEF IsTally
  <2> QED BY <2>1, TallyExtended
<1>3. \A v : \A d \in DOMAIN Extend(fn, day, v) : d # day => d \in DOMAIN fn /\ Extend(fn, day, v)[d] = fn[d]
  BY DEF Extend
<1> QED BY <1>1, <1>2, <1>3 DEF AddCount, AddHosts, Plus

(* The tables and the rolling state after the accounting.                  *)
Counted1 == cycle.ok /\ ~cycle.fresh
CountOf == IF Counted1 THEN cycle.count ELSE 0
TablesAfter ==
  [daily |-> AddCount(days.daily, DayOf(cycle.at), Counted1, CountOf),
   captured |-> AddCount(days.captured, DayOf(cycle.at), Counted1, CountOf),
   hosts |-> IF cycle.add > 0 THEN Plus(days.hosts, DayOf(cycle.at), cycle.add) ELSE days.hosts]
RollingAfter ==
  LET old == IF cycle.full THEN NoRolling ELSE rolling IN
  [initialized |-> TRUE, last |-> cycle.at,
   baseline |-> IF cycle.ok /\ cycle.fresh THEN [count |-> cycle.count, at |-> cycle.at]
                ELSE old.baseline,
   buckets |-> Recent(Extend(old.buckets, cycle.at, CountOf), cycle.at)]
KnownBefore == IF cycle.full THEN Empty ELSE seen

LEMMA AccountIs ==
  ASSUME Account
  PROVE  /\ cycle.pc = "account"
         /\ rolling' = RollingAfter
         /\ seen' = IF WarmingUp(RollingAfter, cycle.at) THEN KnownBefore
                    ELSE [f \in Kept(KnownBefore, cycle.at) |-> KnownBefore[f]]
         /\ applied' = IF cycle.full THEN {} ELSE applied
         /\ view' = [at |-> cycle.at, warm |-> WarmingUp(RollingAfter, cycle.at),
                     n |-> Shown(RollingAfter, KnownBefore, tracked /\ ~cycle.full, cycle.at),
                     whole |-> cycle.at - Window + 1 .. cycle.at \subseteq applied']
         /\ days' = Pruned(TablesAfter, cycle.at)
         /\ disk' = SavePruned(TablesAfter, cycle.at)
         /\ hosts5m' = IF cycle.add = 0 THEN hosts5m
                       ELSE Drop(Extend(hosts5m, cycle.at, cycle.add),
                                 {t \in DOMAIN hosts5m : t < cycle.at - Window})
         /\ cycle' = [pc |-> IF CountOf > 0 THEN "daily" ELSE IF cycle.add > 0 THEN "hosts"
                             ELSE "previous", at |-> cycle.at, add |-> cycle.add]
         /\ UNCHANGED <<env, reseed, doneDay, job, settled, late, spent>>
BY DEF Account, RollingAfter, KnownBefore, TablesAfter, CountOf, Counted1, AddCount

LEMMA TablesAfterOK ==
  ASSUME AccountingInv, cycle.pc = "account"
  PROVE  DaysOK(TablesAfter, settled, late, cycle.at)
<1>1. /\ cycle.at \in Times /\ CountOf \in Nat /\ cycle.add \in Nat
      /\ DaysOK(days, settled, late, cycle.at)
  BY Bounds DEF AccountingInv, CycleOK, Bound, CountOf, EnvOK, Times
<1>2. DayOf(cycle.at) \in DaySet
  BY <1>1, DayInSet
<1>3. IsTally(days.daily) /\ IsTally(days.captured) /\ IsTally(days.hosts)
  BY <1>1 DEF DaysOK, Tables
<1> DEFINE daily == AddCount(days.daily, DayOf(cycle.at), Counted1, CountOf)
           captured == AddCount(days.captured, DayOf(cycle.at), Counted1, CountOf)
           hosts == IF cycle.add > 0 THEN Plus(days.hosts, DayOf(cycle.at), cycle.add) ELSE days.hosts
<1>4. IsTally(daily) /\ IsTally(captured) /\ IsTally(hosts)
  BY <1>1, <1>2, <1>3, AddCountOK, TallyPlus
<1>5. \A d \in DOMAIN daily : d # DayOf(cycle.at) => d \in DOMAIN days.daily /\ daily[d] = days.daily[d]
  BY <1>1, <1>2, <1>3, AddCountOK
<1> HIDE DEF daily, captured, hosts
<1>6. TablesAfter = [daily |-> daily, captured |-> captured, hosts |-> hosts]
  BY DEF TablesAfter, daily, captured, hosts
<1>7. DOMAIN TablesAfter = Tables /\ TablesAfter["daily"] = daily
      /\ \A k \in Tables : IsTally(TablesAfter[k])
  BY <1>4, <1>6 DEF Tables
<1> QED BY <1>1, <1>5, <1>7, AccountedOK

LEMMA RollingAfterOK ==
  ASSUME AccountingInv, cycle.pc = "account"
  PROVE  RollingOK(RollingAfter)
<1>1. cycle.at \in Times /\ cycle.at \in 0 .. MaxTime /\ cycle.at <= now
  BY Bounds DEF AccountingInv, CycleOK, EnvOK, Times
<1>2. DOMAIN rolling.buckets \subseteq Times /\ DOMAIN NoRolling.buckets \subseteq Times
  BY DEF AccountingInv, RollingOK, NoRolling, Empty
<1>3. DOMAIN RollingAfter.buckets \subseteq Times
  BY <1>1, <1>2 DEF RollingAfter, Recent, Extend, Drop
<1>4. /\ RollingAfter.initialized = TRUE /\ RollingAfter.last = cycle.at
      /\ RollingAfter \in [initialized : {TRUE}, last : {cycle.at},
                           baseline : {RollingAfter.baseline}, buckets : {RollingAfter.buckets}]
  BY DEF RollingAfter
<1> QED BY <1>1, <1>3, <1>4 DEF RollingOK

LEMMA AccountStep ==
  ASSUME AccountingInv, Account
  PROVE  AccountingInv'
<1>1. EnvOK /\ Unchanging /\ EnvOK' /\ now' = now
  BY Troubled, AccountIs DEF env
<1>2. /\ CycleOK /\ cycle.pc = "account" /\ RestOK
      /\ Bound = cycle.at /\ cycle.at \in Window .. now /\ cycle.at \in Times /\ cycle.at \in Nat
      /\ cycle.add \in Nat
  BY AccountIs, BoundType DEF AccountingInv, Bound, CycleOK
<1>3. CycleOK' /\ Bound' = Bound /\ Bound' \in Nat
  BY <1>1, <1>2, AccountIs DEF CycleOK, Bound
<1>4. RollingOK(rolling)'
  <2>1. \A s : s = RollingAfter => RollingOK(s)'
    BY <1>1, <1>2, RollingAfterOK, RollingCarried
  <2> QED BY <2>1, AccountIs DEF RollingOK
<1>5. DaysOK(TablesAfter, settled, late, cycle.at)
  BY <1>2, TablesAfterOK
<1>6. DaysOK(days, settled, late, Bound)'
  <2>1. DaysOK(Pruned(TablesAfter, cycle.at), settled, late, cycle.at)
    BY <1>5, PrunedOK
  <2>2. \A a, s, m, b : a = Pruned(TablesAfter, cycle.at) /\ s = settled /\ m = late /\ b = cycle.at
          => DaysOK(a, s, m, b)'
    BY <1>1, <1>2, <2>1, DaysCarried
  <2> QED BY <1>2, <1>3, <2>2, AccountIs DEF DaysOK
<1>7. DiskOK(disk, settled, late, Bound)'
  <2>1. DiskOK(SavePruned(TablesAfter, cycle.at), settled, late, cycle.at)
    BY <1>2, <1>5, SavePrunedOK DEF AccountingInv
  <2>2. \A c, s, m, b : c = SavePruned(TablesAfter, cycle.at) /\ s = settled /\ m = late /\ b = cycle.at
          => DiskOK(c, s, m, b)'
    BY <1>1, <1>2, <2>1, DiskCarried
  <2> QED BY <1>2, <1>3, <2>2, AccountIs DEF DiskOK
<1> DEFINE had == IF cycle.full THEN {} ELSE applied
<1>8. SeenOK(KnownBefore, had, cycle.at)
  BY <1>2, NothingKnown DEF AccountingInv, KnownBefore
<1>9. SeenOK(seen, applied, Bound)'
  <2> DEFINE new == IF WarmingUp(RollingAfter, cycle.at) THEN KnownBefore
                    ELSE [f \in Kept(KnownBefore, cycle.at) |-> KnownBefore[f]]
  <2>1. SeenOK(new, had, cycle.at)
    BY <1>2, <1>8, Forgetting
  <2>2. seen' = new /\ applied' = had
    BY AccountIs
  <2> HIDE DEF new, had
  <2>3. \A k, h, b : k = new /\ h = had /\ b = cycle.at => SeenOK(k, h, b)'
    BY <1>1, <1>2, <2>1, SeenCarried
  <2> QED BY <1>2, <1>3, <2>2, <2>3 DEF SeenOK
<1>10. ViewOK'
  <2>1. view'.at = cycle.at /\ view'.warm = WarmingUp(RollingAfter, cycle.at)
        /\ view'.n = Shown(RollingAfter, KnownBefore, tracked /\ ~cycle.full, cycle.at)
        /\ view'.whole = (cycle.at - Window + 1 .. cycle.at \subseteq had)
    BY AccountIs
  <2>2. /\ Cardinality(Kept(KnownBefore, cycle.at)) <= Count(cycle.at - Window + 1 .. cycle.at)
        /\ cycle.at - Window + 1 .. cycle.at \subseteq had =>
             Cardinality(Kept(KnownBefore, cycle.at)) = Count(cycle.at - Window + 1 .. cycle.at)
    <3>1. cycle.at \in Window .. MaxTime
      BY <1>2 DEF Times
    <3> QED BY <1>1, <1>8, <3>1, KeptCount
  <2>3. Count(view.at - Window + 1 .. view.at)' = Count(cycle.at - Window + 1 .. cycle.at)
    <3>1. detected' = detected
      BY AccountIs DEF env
    <3>2. \A f : Hits(f, view.at - Window + 1 .. view.at)' = Hits(f, cycle.at - Window + 1 .. cycle.at)
      BY <2>1, <3>1 DEF Hits
    <3>3. Answer(view.at - Window + 1 .. view.at)' = Answer(cycle.at - Window + 1 .. cycle.at)
      BY <3>2 DEF Answer
    <3> QED BY <3>3 DEF Count
  <2>4. Backend' = "sqlite" /\ ~view'.warm => view'.n = Cardinality(Kept(KnownBefore, cycle.at))
    BY <1>1, <2>1 DEF Shown, Backend, Unchanging
  <2> HIDE DEF had
  <2>5. Shown24h'
    BY <2>1, <2>2, <2>3, <2>4 DEF Shown24h
  <2> QED BY <1>1, <1>2, <2>1, <2>5 DEF ViewOK
<1>11. RestOK'
  <2>1. DOMAIN hosts5m' \subseteq Times
    BY <1>2, AccountIs DEF RestOK, Drop, Extend
  <2> QED BY <1>2, <2>1, AccountIs DEF RestOK, HostMetrics, env
<1>12. JobOK'
  BY <1>1, <1>2, <1>3, Carried, AccountIs
<1> QED BY <1>1, <1>3, <1>4, <1>6, <1>7, <1>9, <1>10, <1>11, <1>12 DEF AccountingInv

-----------------------------------------------------------------------------
(* Saves and reconciles                                                    *)

(* A table written at the time of the cycle, or not.                       *)
LEMMA SaveDaysStep ==
  ASSUME AccountingInv, NEW kind \in Tables, Persist(SaveDays(kind)),
         UNCHANGED env, UNCHANGED <<settled, late>>, Bound' \in Nat, Bound <= Bound'
  PROVE  EnvOK' /\ Unchanging /\ DiskOK(disk, settled, late, Bound)'
<1>1. EnvOK /\ Unchanging /\ EnvOK' /\ now' = now
  BY Troubled DEF Persist, Fault, Troubles
<1>2. /\ DiskOK(disk, settled, late, Bound) /\ DaysOK(days, settled, late, Bound)
      /\ CycleOK /\ Bound \in Nat /\ Bound <= now
  BY <1>1, BoundType DEF AccountingInv
<1>3. DiskOK(SaveDays(kind), settled, late, Bound)
  <2>1. DaysOK(SavedDays(days), settled, late, Bound)
    BY <1>2, SavedOK
  <2> QED BY <1>2, <2>1, TableSavedOK DEF SaveDays
<1>4. disk' \in {disk, SaveDays(kind)}
  BY DEF Persist
<1>5. DiskOK(disk', settled, late, Bound)
  BY <1>2, <1>3, <1>4
<1>6. \A new : new = disk' => DiskOK(new, settled, late, Bound)
  BY <1>5
<1>7. \A new : new = disk' =>
        \A c, s, m, b : c = new /\ s = settled /\ m = late /\ b = Bound' => DiskOK(c, s, m, b)'
  BY <1>1, <1>2, <1>6, DiskCarried
<1>8. DiskOK(disk, settled, late, Bound)'
  BY <1>7 DEF DiskOK
<1> QED BY <1>1, <1>8

LEMMA SaveCycleStep ==
  ASSUME AccountingInv, SaveCycle
  PROVE  AccountingInv'
<1>1. /\ cycle.pc \in {"daily", "captured", "hosts"} /\ cycle.pc \in Tables
      /\ cycle' = [cycle EXCEPT !.pc = CASE @ = "daily" -> "captured"
                                          [] @ = "captured" /\ cycle.add > 0 -> "hosts"
                                          [] OTHER -> "previous"]
  BY DEF SaveCycle, Tables
<1>2. /\ CycleOK /\ RestOK /\ EnvOK /\ Unchanging
      /\ cycle.at \in Window .. now /\ cycle.add \in Nat
  BY <1>1, SameUnchanging DEF AccountingInv, CycleOK, SaveCycle
<1> DEFINE next == CASE cycle.pc = "daily" -> "captured"
                     [] cycle.pc = "captured" /\ cycle.add > 0 -> "hosts"
                     [] OTHER -> "previous"
<1>3. next \in {"captured", "hosts", "previous"}
  <2>1. CASE cycle.pc = "daily"
    BY <2>1
  <2>2. CASE cycle.pc # "daily" /\ cycle.pc = "captured" /\ cycle.add > 0
    BY <2>2
  <2>3. CASE ~(cycle.pc = "daily") /\ ~(cycle.pc = "captured" /\ cycle.add > 0)
    BY <2>3
  <2> QED BY <2>1, <2>2, <2>3
<1>4. cycle'.at = cycle.at /\ cycle'.add = cycle.add /\ cycle'.pc \in {"captured", "hosts", "previous", cycle.pc}
  BY <1>1, <1>3
<1>5. cycle'.pc \in {"captured", "hosts", "previous", "daily"}
  BY <1>1, <1>4
<1>6. CycleOK' /\ Bound' = Bound /\ Bound' \in Nat /\ Bound <= Bound'
  <2>1. now' = now
    BY DEF SaveCycle, env
  <2>2. Bound \in Nat
    BY <1>2, BoundType
  <2> HIDE DEF next
  <2> QED BY <1>1, <1>2, <1>4, <1>5, <2>1, <2>2 DEF CycleOK, Bound
<1>7. EnvOK' /\ DiskOK(disk, settled, late, Bound)'
  BY <1>1, <1>6, SaveDaysStep DEF SaveCycle, ghosts
<1>8. RestOK'
  BY <1>2 DEF RestOK, SaveCycle, store, ghosts, HostMetrics, env
<1> QED BY <1>2, <1>6, <1>7, <1>8, Carried DEF AccountingInv, SaveCycle, store, ghosts

LEMMA ReconcilePreviousStep ==
  ASSUME AccountingInv, ReconcilePrevious
  PROVE  AccountingInv'
<1> DEFINE day == PreviousDay(cycle.at)
           replaced == [days EXCEPT !.daily = Extend(@, day, Count(DayTimes(day)))]
<1>1. EnvOK /\ Unchanging /\ EnvOK' /\ now' = now
  BY Troubled DEF ReconcilePrevious, Fault, Troubles
<1>2. /\ CycleOK /\ RestOK /\ cycle.pc = "previous" /\ cycle.at \in Window .. now
      /\ Bound = cycle.at /\ Bound \in Nat /\ cycle.at \in Times /\ cycle.add \in Nat
  BY BoundType DEF AccountingInv, ReconcilePrevious, CycleOK, Bound
<1>3. \E pc \in {"publish", "settle"} : cycle' = [cycle EXCEPT !.pc = pc]
  BY DEF ReconcilePrevious
<1>4. cycle'.pc \in {"publish", "settle", "previous"} /\ cycle'.at = cycle.at /\ cycle'.add = cycle.add
  BY <1>2, <1>3
<1>5. CycleOK' /\ Bound' = Bound /\ Bound' \in Nat /\ Bound <= Bound'
  BY <1>1, <1>2, <1>4 DEF CycleOK, Bound
<1>6. day \in DaySet /\ DayStart(day + 1) <= cycle.at
  BY <1>2, DayInSet
<1>7. RestOK'
  BY <1>2, <1>6 DEF RestOK, ReconcilePrevious, HostMetrics, env
<1>8. /\ DaysOK(days, settled, late, cycle.at) /\ DiskOK(disk, settled, late, cycle.at)
      /\ late' = late
  BY <1>2 DEF AccountingInv, ReconcilePrevious
<1>9. DaysOK(replaced, settled \cup {day}, late, cycle.at)
  BY <1>6, <1>8, CountType, ReplacedOK
<1>10. DiskOK(disk, settled \cup {day}, late, cycle.at)
  BY <1>8 DEF DiskOK
<1> HIDE DEF replaced, day
<1>11. \E all, done : /\ days' = all /\ settled' = done /\ settled \subseteq done
                      /\ DaysOK(all, done, late, cycle.at) /\ DiskOK(disk', done, late, cycle.at)
  <2>1. CASE days' = days /\ disk' = disk /\ settled' = settled
    BY <2>1, <1>8
  <2>2. CASE /\ settled' = settled \cup {day}
             /\ days' = Pruned(replaced, cycle.at) /\ disk' = SavePruned(replaced, cycle.at)
    <3>1. /\ DaysOK(Pruned(replaced, cycle.at), settled \cup {day}, late, cycle.at)
          /\ DiskOK(SavePruned(replaced, cycle.at), settled \cup {day}, late, cycle.at)
      BY <1>9, <1>10, PrunedOK, SavePrunedOK
    <3> QED BY <2>2, <3>1
  <2>3. CASE /\ settled' = settled
             /\ days' = Pruned(days, cycle.at) /\ disk' = SavePruned(days, cycle.at)
    <3>1. /\ DaysOK(Pruned(days, cycle.at), settled, late, cycle.at)
          /\ DiskOK(SavePruned(days, cycle.at), settled, late, cycle.at)
      BY <1>8, PrunedOK, SavePrunedOK
    <3> QED BY <2>3, <3>1
  <2> QED BY <2>1, <2>2, <2>3 DEF ReconcilePrevious, day, replaced
<1>12. PICK all, done, new :
         /\ days' = all /\ settled' = done /\ disk' = new /\ settled \subseteq done
         /\ DaysOK(all, done, late, cycle.at) /\ DiskOK(new, done, late, cycle.at)
  BY <1>11
<1>13. DaysOK(days, settled, late, Bound)'
  <2>1. \A a, s, m, b : a = all /\ s = done /\ m = late /\ b = cycle.at => DaysOK(a, s, m, b)'
    BY <1>1, <1>2, <1>12, DaysCarried
  <2> QED BY <1>2, <1>5, <1>8, <1>12, <2>1 DEF DaysOK
<1>14. DiskOK(disk, settled, late, Bound)'
  <2>1. \A c, s, m, b : c = new /\ s = done /\ m = late /\ b = cycle.at => DiskOK(c, s, m, b)'
    BY <1>1, <1>2, <1>12, DiskCarried
  <2> QED BY <1>2, <1>5, <1>8, <1>12, <2>1 DEF DiskOK
<1> QED BY <1>1, <1>5, <1>7, <1>13, <1>14, Carried DEF AccountingInv, ReconcilePrevious

LEMMA SavePreviousStep ==
  ASSUME AccountingInv, SavePrevious
  PROVE  AccountingInv'
<1>1. /\ CycleOK /\ RestOK /\ EnvOK /\ Unchanging /\ now' = now
      /\ cycle.pc = "settle" /\ cycle.at \in Window .. now /\ cycle.add \in Nat /\ Bound \in Nat
  BY SameUnchanging, BoundType DEF AccountingInv, CycleOK, SavePrevious, env
<1>2. cycle'.at = cycle.at /\ cycle'.add = cycle.add /\ cycle'.pc \in {"publish", "settle"}
  BY <1>1 DEF SavePrevious
<1>3. CycleOK' /\ Bound' = Bound /\ Bound' \in Nat /\ Bound <= Bound'
  BY <1>1, <1>2 DEF CycleOK, Bound
<1>4. EnvOK' /\ DiskOK(disk, settled, late, Bound)'
  BY <1>3, SaveDaysStep DEF SavePrevious, ghosts, Tables
<1>5. RestOK'
  BY <1>1 DEF RestOK, SavePrevious, store, ghosts, HostMetrics, env
<1> QED BY <1>1, <1>3, <1>4, <1>5, Carried DEF AccountingInv, SavePrevious, store, ghosts

LEMMA PublishStep ==
  ASSUME AccountingInv, Publish
  PROVE  AccountingInv'
<1>1. EnvOK /\ Unchanging /\ EnvOK' /\ now' = now
  BY Troubled DEF Publish, Persist, Fault, Troubles
<1>2. CycleOK /\ RestOK /\ Bound \in Nat /\ Bound <= now /\ cycle' = Idle
  BY <1>1, BoundType DEF AccountingInv, Publish
<1>3. CycleOK' /\ Bound' \in Nat /\ Bound <= Bound'
  BY <1>1, <1>2 DEF CycleOK, Bound, Idle, Unchanging
<1>4. RestOK'
  BY <1>2 DEF RestOK, Publish, store, ghosts, HostMetrics, env
<1>5. DiskOK([disk EXCEPT !.rolling = rolling], settled, late, Bound)
  <2> DEFINE new == [disk EXCEPT !.rolling = rolling]
  <2>1. DiskOK(disk, settled, late, Bound) /\ RollingOK(rolling)
    BY DEF AccountingInv
  <2>2. new.rolling = rolling /\ new.days = disk.days /\ new.settled = disk.settled
        /\ new \in [rolling : {new.rolling}, days : {new.days}, settled : SUBSET settled]
    BY <2>1 DEF DiskOK
  <2> HIDE DEF new
  <2>3. DiskOK(new, settled, late, Bound)
    BY <2>1, <2>2 DEF DiskOK
  <2> QED BY <2>3 DEF new
<1>6. DiskOK(disk, settled, late, Bound)'
  <2>1. PICK new : disk' = new /\ DiskOK(new, settled, late, Bound)
    BY <1>5 DEF Publish, Persist, AccountingInv
  <2>2. \A c, s, m, b : c = new /\ s = settled /\ m = late /\ b = Bound' => DiskOK(c, s, m, b)'
    BY <1>1, <1>2, <1>3, <2>1, DiskCarried
  <2> QED BY <2>1, <2>2 DEF DiskOK, Publish, ghosts
<1> QED BY <1>1, <1>3, <1>4, <1>6, Carried DEF AccountingInv, Publish, store, ghosts

-----------------------------------------------------------------------------
(* The full reconcile                                                      *)

LEMMA CycleSame ==
  ASSUME EnvOK, CycleOK, UNCHANGED <<cycle, rolling, reseed, now>>
  PROVE  CycleOK' /\ Bound' = Bound /\ Bound \in Nat /\ Bound' \in Nat /\ Bound <= Bound' /\ Bound <= now
<1>1. Bound \in Nat /\ Bound <= now
  BY BoundType
<1> QED BY <1>1 DEF CycleOK, Bound

LEMMA DayGiven ==
  ASSUME AccountingInv, Unchanging, UNCHANGED <<cycle, rolling, reseed, now>>,
         NEW all, NEW over, DaysOK(all, settled, over, Bound), days' = all, settled' = settled,
         late' = over
  PROVE  DaysOK(days, settled, late, Bound)'
<1>1. EnvOK /\ CycleOK
  BY DEF AccountingInv
<1>2. Bound' = Bound /\ Bound \in Nat /\ Bound <= now
  BY <1>1, CycleSame
<1>3. \A a, s, m, b : a = all /\ s = settled /\ m = over /\ b = Bound => DaysOK(a, s, m, b)'
  BY <1>1, <1>2, DaysCarried
<1> QED BY <1>2, <1>3 DEF DaysOK

LEMMA StartJobStep ==
  ASSUME AccountingInv, StartJob
  PROVE  AccountingInv'
<1>1. EnvOK /\ Unchanging /\ EnvOK' /\ now' = now
  BY Troubled DEF StartJob, Troubles
<1>2. CycleOK /\ RestOK /\ DaysOK(days, settled, late, Bound)
  BY DEF AccountingInv
<1>3. CycleOK' /\ Bound' = Bound /\ Bound' \in Nat /\ Bound <= Bound'
  BY <1>1, <1>2, CycleSame DEF StartJob, store
<1>4. JobOK'
  <2>1. DOMAIN days.daily \subseteq DaySet
    BY <1>2 DEF DaysOK, Tables, IsTally
  <2>2. now \in Window .. now
    BY <1>1, Bounds DEF EnvOK, Times
  <2> QED BY <1>1, <2>1, <2>2 DEF StartJob, JobOK
<1>5. RestOK'
  BY <1>2 DEF RestOK, StartJob, store, ghosts, HostMetrics, env
<1> QED BY <1>1, <1>3, <1>4, <1>5, Carried DEF AccountingInv, StartJob, store, ghosts

LEMMA ReconcileStoredStep ==
  ASSUME AccountingInv, ReconcileStored
  PROVE  AccountingInv'
<1>1. EnvOK /\ Unchanging /\ EnvOK' /\ now' = now
  BY Troubled DEF ReconcileStored, Fault, Troubles
<1>2. /\ CycleOK /\ RestOK /\ JobOK /\ DaysOK(days, settled, late, Bound)
      /\ job.pc = "past" /\ job.todo # {} /\ job.todo \subseteq DaySet
      /\ job.at \in Window .. now /\ job.changed \in BOOLEAN
  BY DEF AccountingInv, JobOK, ReconcileStored
<1>3. CycleOK' /\ Bound' = Bound /\ Bound' \in Nat /\ Bound <= Bound'
  BY <1>1, <1>2, CycleSame DEF ReconcileStored
<1> DEFINE day == CHOOSE d \in job.todo : \A e \in job.todo : d <= e
           replaced == [days EXCEPT !.daily = Extend(@, day, Count(DayTimes(day)))]
<1>4. day \in job.todo /\ day \in DaySet
  <2>1. job.todo \in SUBSET Nat
    BY <1>2, Bounds, InDay DEF DaySet
  <2>2. \E d \in job.todo : \A e \in job.todo : d <= e
    BY <1>2, <2>1, Least
  <2> QED BY <1>2, <2>2
<1>5. DaysOK(replaced, settled, late, Bound)
  <2>1. day \in settled => DayStart(day + 1) <= Bound
    BY <1>2 DEF DaysOK
  <2>2. settled \in SUBSET (settled \cup {day})
    OBVIOUS
  <2> HIDE DEF day
  <2> QED BY <1>2, <1>4, <2>1, <2>2, CountType, ReplacedOK
<1>6. PICK new \in {days, replaced}, changed \in BOOLEAN :
        days' = new /\ job' = [job EXCEPT !.todo = @ \ {day}, !.changed = changed]
  <2>1. CASE days' = replaced /\ job' = [job EXCEPT !.todo = @ \ {day}, !.changed = TRUE]
    BY <2>1
  <2>2. CASE days' = days /\ job' = [job EXCEPT !.todo = @ \ {day}]
    <3>1. job' = [job EXCEPT !.todo = @ \ {day}, !.changed = job.changed]
      BY <2>2
    <3> QED BY <2>2, <3>1, <1>2
  <2> QED BY <2>1, <2>2 DEF ReconcileStored
<1> HIDE DEF day, replaced
<1>7. DaysOK(days, settled, late, Bound)'
  BY <1>1, <1>2, <1>5, <1>6, DayGiven DEF ReconcileStored, ghosts
<1>8. JobOK'
  BY <1>1, <1>2, <1>6 DEF JobOK
<1>9. RestOK'
  BY <1>2 DEF RestOK, ReconcileStored, HostMetrics, env, ghosts
<1> QED BY <1>1, <1>3, <1>7, <1>8, <1>9, Carried DEF AccountingInv, ReconcileStored, ghosts

LEMMA JobSavesStep ==
  ASSUME AccountingInv, NEW next, JobSaves(next), job.pc # "idle",
         \/ next = Idle
         \/ next.pc = "today" /\ next.at = job.at /\ next.changed \in BOOLEAN
  PROVE  AccountingInv'
<1>1. EnvOK /\ Unchanging /\ EnvOK' /\ now' = now
  BY Troubled DEF JobSaves, Persist, Fault, Troubles
<1>2. /\ CycleOK /\ RestOK /\ JobOK /\ DaysOK(days, settled, late, Bound)
      /\ DiskOK(disk, settled, late, Bound) /\ job.at \in Window .. now
  BY DEF AccountingInv, JobOK
<1>3. CycleOK' /\ Bound' = Bound /\ Bound \in Nat /\ Bound <= now /\ Bound' \in Nat /\ Bound <= Bound'
  BY <1>1, <1>2, CycleSame DEF JobSaves
<1>4. DaysOK(Pruned(days, job.at), settled, late, Bound)
  BY <1>2, PrunedOK
<1>5. DaysOK(days, settled, late, Bound)'
  BY <1>1, <1>4, DayGiven DEF JobSaves, ghosts
<1>6. DiskOK(SavePruned(days, job.at), settled, late, Bound)
  BY <1>2, SavePrunedOK
<1> DEFINE written == [SavePruned(days, job.at) EXCEPT !.days.daily = SavedDays(days').daily,
                                                       !.settled = settled]
<1>7. DiskOK(written, settled, late, Bound)
  <2>1. DaysOK(SavedDays(Pruned(days, job.at)), settled, late, Bound)
    BY <1>4, SavedOK
  <2> DEFINE kept == SavePruned(days, job.at)
             all == SavedDays(Pruned(days, job.at))
             kind == "daily"
  <2>2. kind \in Tables
    BY DEF Tables
  <2>3. DiskOK([kept EXCEPT !.days[kind] = all[kind],
                            !.settled = IF kind = "daily" THEN settled ELSE @], settled, late, Bound)
    <3> HIDE DEF kept, all, kind
    <3>1. DiskOK(kept, settled, late, Bound) /\ DaysOK(all, settled, late, Bound)
      BY <1>6, <2>1 DEF kept, all
    <3> QED BY <2>2, <3>1, TableSavedOK
  <2>4. days' = Pruned(days, job.at)
    BY DEF JobSaves
  <2> QED BY <2>3, <2>4
<1>8. disk' \in {disk, written, SavePruned(days, job.at)}
  BY DEF JobSaves, Persist
<1> HIDE DEF written
<1>9. PICK new : disk' = new /\ DiskOK(new, settled, late, Bound)
  BY <1>2, <1>6, <1>7, <1>8
<1>10. DiskOK(disk, settled, late, Bound)'
  <2>1. \A c, s, m, b : c = new /\ s = settled /\ m = late /\ b = Bound' => DiskOK(c, s, m, b)'
    BY <1>1, <1>2, <1>3, <1>9, DiskCarried
  <2> QED BY <1>9, <2>1 DEF DiskOK, JobSaves, ghosts
<1>11. JobOK'
  <2>1. job' = next
    BY DEF JobSaves
  <2> QED BY <2>1, <1>1, <1>2 DEF JobOK, Idle
<1>12. RestOK'
  BY <1>2 DEF RestOK, JobSaves, HostMetrics, env, ghosts
<1> QED BY <1>1, <1>3, <1>5, <1>10, <1>11, <1>12, Carried DEF AccountingInv, JobSaves, ghosts

LEMMA SaveStoredStep ==
  ASSUME AccountingInv, SaveStored
  PROVE  AccountingInv'
<1> DEFINE next == [job EXCEPT !.pc = "today", !.changed = FALSE]
<1>1. job.pc = "past" /\ JobSaves(next)
  BY DEF SaveStored
<1>2. next.pc = "today" /\ next.at = job.at /\ next.changed \in BOOLEAN
  OBVIOUS
<1> HIDE DEF next
<1> QED BY <1>1, <1>2, JobSavesStep

LEMMA SaveTodayStep ==
  ASSUME AccountingInv, SaveToday
  PROVE  AccountingInv'
BY JobSavesStep DEF SaveToday

LEMMA ReconcileTodayStep ==
  ASSUME AccountingInv, ReconcileToday
  PROVE  AccountingInv'
<1> DEFINE day == DayOf(job.at)
           n == Count(DayStart(day) + 1 .. job.at)
           replaced == [days EXCEPT !.daily = Extend(@, day, n)]
           over == late \cup ({day} \cap settled)
<1>1. EnvOK /\ Unchanging /\ EnvOK' /\ now' = now
  BY Troubled DEF ReconcileToday, Fault, Troubles
<1>2. /\ CycleOK /\ RestOK /\ JobOK /\ DaysOK(days, settled, late, Bound)
      /\ job.pc = "today" /\ job.at \in Window .. now /\ job.changed \in BOOLEAN
  BY DEF AccountingInv, JobOK, ReconcileToday
<1>3. CycleOK' /\ Bound' = Bound /\ Bound' \in Nat /\ Bound <= Bound'
  BY <1>1, <1>2, CycleSame DEF ReconcileToday
<1>4. day \in DaySet /\ n \in Nat
  <2>1. job.at \in Times
    BY <1>1, <1>2, Bounds DEF EnvOK, Times
  <2> QED BY <2>1, DayInSet, CountType
<1>5. DaysOK(replaced, settled, over, Bound)
  <2>1. day \in settled => DayStart(day + 1) <= Bound
    BY <1>2 DEF DaysOK
  <2>2. settled \in SUBSET (settled \cup {day}) /\ late \subseteq over /\ day \notin settled \ over
    OBVIOUS
  <2> HIDE DEF day, n, over
  <2> QED BY <1>2, <1>4, <2>1, <2>2, ReplacedOK
<1>6. /\ job'.pc \in {"saveToday", "idle"}
      /\ job'.pc # "idle" => job'.at = job.at /\ job'.changed \in BOOLEAN
  <2>1. CASE job' = [job EXCEPT !.pc = "saveToday", !.changed = TRUE]
    BY <2>1
  <2>2. CASE job' = [job EXCEPT !.pc = "saveToday"]
    BY <2>2, <1>2
  <2>3. CASE job' = Idle
    BY <2>3 DEF Idle
  <2> QED BY <2>1, <2>2, <2>3 DEF ReconcileToday
<1>7. \/ days' = days /\ late' = late
      \/ days' = replaced /\ late' = over
  BY DEF ReconcileToday
<1>8. settled' = settled /\ UNCHANGED <<rolling, seen, tracked, hosts5m, disk, reseed, doneDay, cycle, view, applied>>
      /\ late \subseteq over /\ over \subseteq late \cup {day}
  BY DEF ReconcileToday
<1> HIDE DEF day, n, replaced, over
<1>9. DaysOK(days, settled, late, Bound)'
  <2>1. CASE days' = days /\ late' = late
    BY <2>1, <1>1, <1>2, <1>8, DayGiven
  <2>2. CASE days' = replaced /\ late' = over
    BY <2>2, <1>1, <1>5, <1>8, DayGiven
  <2> QED BY <2>1, <2>2, <1>7
<1>10. JobOK'
  BY <1>1, <1>2, <1>6 DEF JobOK
<1>11. RestOK'
  <2>1. late' \subseteq DaySet
    BY <1>2, <1>4, <1>7, <1>8 DEF RestOK
  <2> QED BY <2>1, <1>2, <1>8 DEF RestOK, ReconcileToday, HostMetrics, env
<1>12. late \subseteq late'
  BY <1>7, <1>8
<1> QED BY <1>1, <1>3, <1>8, <1>9, <1>10, <1>11, <1>12, Carried DEF AccountingInv

LEMMA RestartStep ==
  ASSUME AccountingInv, Restart
  PROVE  AccountingInv'
<1>1. EnvOK /\ Unchanging /\ EnvOK' /\ now' = now
  BY Troubled DEF Restart, Troubles
<1>2. /\ CycleOK /\ RestOK /\ Bound \in Nat /\ Bound <= now /\ cycle' = Idle
      /\ SeenOK(seen, applied, Bound) /\ DiskOK(disk, settled, late, Bound)
  BY <1>1, BoundType DEF AccountingInv, Restart
<1>3. CycleOK' /\ Bound' \in Nat /\ Bound <= Bound'
  BY <1>1, <1>2 DEF CycleOK, Bound, Idle, Unchanging
<1>4. RollingOK(rolling)'
  <2> DEFINE new == [disk.rolling EXCEPT !.buckets = Recent(@, now)]
  <2>1. RollingOK(disk.rolling)
    BY <1>2 DEF DiskOK
  <2>2. /\ new.initialized = disk.rolling.initialized /\ new.last = disk.rolling.last
        /\ new.baseline = disk.rolling.baseline /\ new.buckets = Recent(disk.rolling.buckets, now)
        /\ new \in [initialized : BOOLEAN, last : 0 .. MaxTime,
                    baseline : {new.baseline}, buckets : {new.buckets}]
    BY <2>1 DEF RollingOK
  <2>3. DOMAIN new.buckets \subseteq Times
    BY <2>1, <2>2 DEF RollingOK, Recent, Drop
  <2> HIDE DEF new
  <2>4. RollingOK(new)
    BY <2>1, <2>2, <2>3 DEF RollingOK
  <2>5. \A s : s = new => RollingOK(s)'
    BY <1>1, <2>4, RollingCarried
  <2>6. rolling' = new
    BY DEF Restart, new
  <2> QED BY <2>5, <2>6 DEF RollingOK
<1>5. DaysOK(days, settled, late, Bound)'
  <2>1. DaysOK(disk.days, disk.settled, late, Bound)
    BY <1>2 DEF DiskOK
  <2>2. \A a, s, m, b : a = disk.days /\ s = disk.settled /\ m = late /\ b = Bound' => DaysOK(a, s, m, b)'
    BY <1>1, <1>2, <1>3, <2>1, DaysCarried
  <2> QED BY <2>2 DEF DaysOK, Restart
<1>6. DiskOK(disk, settled, late, Bound)'
  <2>1. DiskOK(disk, disk.settled, late, Bound)
    BY <1>2 DEF DiskOK
  <2>2. \A c, s, m, b : c = disk /\ s = disk.settled /\ m = late /\ b = Bound' => DiskOK(c, s, m, b)'
    BY <1>1, <1>2, <1>3, <2>1, DiskCarried
  <2> QED BY <2>2 DEF DiskOK, Restart
<1>7. SeenOK(seen, applied, Bound)'
  <2>1. \A k, h, b : k = seen /\ h = applied /\ b = Bound' => SeenOK(k, h, b)'
    BY <1>1, <1>2, <1>3, SeenCarried
  <2>2. SeenOK(Empty, {}, Bound)
    BY <1>2, NothingKnown
  <2>3. \A k, h, b : k = Empty /\ h = {} /\ b = Bound' => SeenOK(k, h, b)'
    BY <1>1, <1>2, <1>3, <2>2, SeenCarried
  <2>4. (seen' = seen /\ applied' = applied) \/ (seen' = Empty /\ applied' = {})
    BY DEF Restart
  <2> QED BY <2>1, <2>3, <2>4 DEF SeenOK
<1>8. ViewOK' /\ JobOK'
  BY DEF Restart, ViewOK, JobOK, Idle
<1>9. RestOK'
  <2>1. mode' = mode /\ mode \in [backend : {"sqlite", "memory"}, hosts : BOOLEAN, may : SUBSET Troubles]
    BY <1>1, ModeAssumption DEF EnvOK, Unchanging
  <2> QED BY <1>2, <2>1 DEF RestOK, Restart, HostMetrics
<1> QED BY <1>1, <1>3, <1>4, <1>5, <1>6, <1>7, <1>8, <1>9 DEF AccountingInv

-----------------------------------------------------------------------------
(* Every step of the specification keeps the invariant.                    *)
LEMMA NextInv ==
  ASSUME AccountingInv, [Next]_vars
  PROVE  AccountingInv'
<1>1. CASE UNCHANGED vars
  <2>1. UNCHANGED <<env, store, disk, reseed, doneDay, cycle, job, view, ghosts, spent>>
    BY <1>1 DEF vars
  <2>2. EnvOK /\ Unchanging /\ EnvOK' /\ now' = now
    BY <2>1, Troubled
  <2>3. CycleOK' /\ Bound' \in Nat /\ Bound <= Bound'
    BY <2>1, <2>2, CycleSame DEF AccountingInv, store
  <2>4. RestOK'
    BY <2>1 DEF AccountingInv, RestOK, store, ghosts, HostMetrics, env
  <2> QED BY <2>1, <2>2, <2>3, <2>4, Carried DEF AccountingInv, store, ghosts
<1>2. CASE Next
  BY <1>2, TickStep, StartCycleStep, QueryFailsStep, QueryCountOnlyStep, QueryDetailedStep,
     DedupeFailsStep, AccountStep, SaveCycleStep, ReconcilePreviousStep, SavePreviousStep,
     PublishStep, StartJobStep, ReconcileStoredStep, SaveStoredStep, ReconcileTodayStep,
     SaveTodayStep, RestartStep DEF Next
<1> QED BY <1>1, <1>2

(* The inductive invariant of the accounting.                              *)
THEOREM Right == Spec => []AccountingInv
<1>1. Init => AccountingInv
  BY InitInv
<1>2. AccountingInv /\ [Next]_vars => AccountingInv'
  BY NextInv
<1> QED BY <1>1, <1>2, PTL DEF Spec

(* Types.                                                                  *)
THEOREM Typed == Spec => []TypeOK
<1>1. AccountingInv => TypeOK
  <2> SUFFICES ASSUME AccountingInv PROVE TypeOK
    OBVIOUS
  <2>1. now \in Times /\ detected \in [1 .. MaxTime -> SUBSET Flows]
    BY DEF AccountingInv, EnvOK
  <2>2. rolling.initialized \in BOOLEAN /\ rolling.last \in 0 .. MaxTime /\ DOMAIN rolling.buckets \subseteq Times
    BY DEF AccountingInv, RollingOK
  <2>3. /\ DOMAIN seen \subseteq Flows /\ DOMAIN hosts5m \subseteq Times
        /\ doneDay \in DaySet \cup {None} /\ late \subseteq DaySet
    BY DEF AccountingInv, SeenOK, RestOK
  <2>4. applied \subseteq Int
    <3>1. applied \subseteq 1 .. Bound
      BY DEF AccountingInv, SeenOK
    <3>2. Bound \in Nat
      BY BoundType DEF AccountingInv
    <3> QED BY <3>1, <3>2
  <2>5. \A kind \in {"daily", "captured", "hosts"} : IsTally(days[kind]) /\ IsTally(disk.days[kind])
    BY DEF AccountingInv, DaysOK, DiskOK, Tables
  <2>6. settled \subseteq DaySet
    BY DEF AccountingInv, DaysOK
  <2>7. /\ cycle.pc \in {"idle", "query", "account", "daily", "captured", "hosts", "previous",
                         "settle", "publish"}
        /\ job.pc \in {"idle", "past", "today", "saveToday"}
    BY DEF AccountingInv, CycleOK, JobOK
  <2> QED BY <2>1, <2>2, <2>3, <2>4, <2>5, <2>6, <2>7 DEF TypeOK
<1> QED BY <1>1, Right, PTL

(* blockedTodaySoFarCount counts detections of today only, and all flows   *)
(* of it that were in an answer since midnight.                            *)
LEMMA TodayRight ==
  ASSUME AccountingInv
  PROVE  TodaySoFar
<1> DEFINE start == DayStart(DayOf(now))
           shown == {f \in DOMAIN seen : start < seen[f].last /\ seen[f].last <= now}
           ts == start + 1 .. now
<1>1. /\ EnvOK /\ SeenOK(seen, applied, Bound)
      /\ Bound \in Nat /\ Bound <= now /\ now \in Nat /\ now <= MaxTime
  BY BoundType, Bounds DEF AccountingInv, EnvOK, Times
<1>2. start \in Nat /\ start <= now /\ now < start + Window
  BY <1>1, InDay
<1>3. DOMAIN detected = 1 .. MaxTime
  BY <1>1 DEF EnvOK
<1>4. shown \subseteq Answer(ts)
  <2> SUFFICES ASSUME NEW f \in shown PROVE f \in Answer(ts)
    OBVIOUS
  <2>1. f \in Flows /\ seen[f].last \in 1 .. Bound /\ f \in detected[seen[f].last]
    BY <1>1 DEF SeenOK
  <2>2. seen[f].last \in ts \cap DOMAIN detected
    BY <1>1, <1>2, <1>3, <2>1, Bounds
  <2> HIDE DEF ts
  <2> QED BY <2>1, <2>2 DEF Answer, Hits
<1>5. ts \subseteq applied => Answer(ts) \subseteq shown
  <2> SUFFICES ASSUME ts \subseteq applied, NEW f \in Answer(ts) PROVE f \in shown
    OBVIOUS
  <2>1. PICK t \in ts : f \in detected[t]
    BY DEF Answer, Hits
  <2>2. t \in applied /\ t \in Nat /\ start < t /\ Bound - Window < t
    BY <1>1, <1>2, <2>1, Bounds
  <2>3. f \in DOMAIN seen /\ t <= seen[f].last /\ seen[f].last \in 1 .. Bound
    BY <1>1, <2>1, <2>2 DEF SeenOK
  <2> QED BY <1>1, <1>2, <2>2, <2>3
<1>6. Answer(ts) \in SUBSET Flows
  BY CountType
<1> HIDE DEF ts, shown
<1>7. /\ Cardinality(shown) <= Count(ts)
      /\ ts \subseteq applied => Cardinality(shown) = Count(ts)
  BY <1>4, <1>5, <1>6, CountGrows DEF Count
<1> QED BY <1>7 DEF TodaySoFar, ts, shown

(* The 24-hour figure and today's count are of the flows blocked then, and *)
(* of all of them when all were asked for: across lost answers, expiry,    *)
(* restarts and midnight.                                                  *)
THEOREM Figures == Spec => []FiguresRight
<1>1. AccountingInv => FiguresRight
  BY TodayRight DEF AccountingInv, ViewOK, FiguresRight, Shown24h
<1> QED BY <1>1, Right, PTL

(* A reconciled day stays what the PCE answers for it, in memory and over  *)
(* restarts, unless a full reconcile writes over it.                       *)
THEOREM Stands == Spec => []SettledStands
<1>1. AccountingInv => SettledStands
  BY DEF AccountingInv, DaysOK, SettledStands
<1> QED BY <1>1, Right, PTL

-----------------------------------------------------------------------------
(* Nothing is captured twice                                               *)

(* Up to when no detection will be taken for new: by then all were asked   *)
(* for, or a baseline that is not captured will take them.                 *)
Floor ==
  IF \/ reseed \/ rolling.baseline = None
     \/ cycle.pc \in {"query", "account"} /\ cycle.fresh
  THEN Bound
  ELSE IF HostMetrics THEN rolling.last ELSE rolling.baseline.at

(* Detections that will not be taken for new: these pay for the captures,  *)
(* those about to be added included.                                       *)
Reached(f, t) ==
  t <= Floor \/ t <= Bound - Window \/ (f \in DOMAIN seen /\ t <= seen[f].last)
Paid == {e \in Detections(1 .. Bound) : Reached(e[1], e[2])}
CaptureSum(fn) == Total([d \in DOMAIN fn |-> Entry(fn, d)])
Pending == IF cycle.pc = "account" /\ cycle.ok /\ ~cycle.fresh THEN cycle.count ELSE 0
Remembered == spent["pressure"] = 0 /\ (Backend = "sqlite" \/ spent["crashes"] = 0)

BaselineOK(state) ==
  state.baseline # None => state.initialized /\ state.baseline.at \in 0 .. state.last
BaselineInv ==
  /\ BaselineOK(rolling) /\ BaselineOK(disk.rolling)
  /\ ~HostMetrics /\ disk.rolling.baseline # None => rolling.baseline = disk.rolling.baseline
  /\ ~HostMetrics /\ cycle.pc \in {"query", "account"} /\ cycle.fresh => rolling.baseline = None
CapturesPaid ==
  /\ CaptureSum(days["captured"]) + Pending <= Cardinality(Paid)
  /\ CaptureSum(disk.days["captured"]) <= Cardinality(Paid)
CaptureInv == BaselineInv /\ (Remembered => CapturesPaid)

-----------------------------------------------------------------------------
(* Sums of captures                                                        *)

LEMMA TotalGrows ==
  ASSUME NEW fn, IsFiniteSet(DOMAIN fn), \A k \in DOMAIN fn : fn[k] \in Int,
         NEW gn, IsFiniteSet(DOMAIN gn), \A k \in DOMAIN gn : gn[k] \in Int,
         \A k \in DOMAIN fn : fn[k] <= 0 \/ (k \in DOMAIN gn /\ fn[k] <= gn[k])
  PROVE  Total(fn) <= Total(gn) /\ Total(fn) \in Nat /\ Total(gn) \in Nat
<1>1. Cells(fn) \subseteq Cells(gn)
  <2> SUFFICES ASSUME NEW k \in DOMAIN fn, NEW i \in 1 .. fn[k] PROVE <<k, i>> \in Cells(gn)
    BY DEF Cells
  <2>1. k \in DOMAIN gn /\ i \in 1 .. gn[k]
    OBVIOUS
  <2> QED BY <2>1 DEF Cells
<1>2. /\ IsFiniteSet(Cells(gn)) /\ Total(gn) = Cardinality(Cells(gn)) /\ Total(gn) \in Nat
      /\ Total(fn) = Cardinality(Cells(fn)) /\ Total(fn) \in Nat
  BY TotalType
<1> QED BY <1>1, <1>2, FS_Subset

LEMMA TotalPlus ==
  ASSUME NEW fn, IsFiniteSet(DOMAIN fn), \A k \in DOMAIN fn : fn[k] \in Int,
         NEW gn, IsFiniteSet(DOMAIN gn), \A k \in DOMAIN gn : gn[k] \in Int,
         NEW d, NEW n \in Nat,
         \A k \in DOMAIN gn : k # d => fn[k] = gn[k] /\ k \in DOMAIN fn,
         d \in DOMAIN gn => gn[d] <= (IF d \in DOMAIN fn THEN fn[d] ELSE 0) + n,
         d \in DOMAIN fn => fn[d] \in Nat
  PROVE  Total(gn) <= Total(fn) + n
<1> DEFINE m == IF d \in DOMAIN fn THEN fn[d] ELSE 0
           more == {d} \X (m + 1 .. m + n)
<1>1. m \in Nat
  OBVIOUS
<1>2. IsFiniteSet(more) /\ Cardinality(more) = n
  <2>1. IsFiniteSet({d}) /\ Cardinality({d}) = 1
    BY FS_Singleton
  <2>2. IsFiniteSet(m + 1 .. m + n) /\ Cardinality(m + 1 .. m + n) = n
    <3>1. ASSUME NEW a \in Int, NEW b \in Int, a = m + 1, b = m + n
          PROVE  IsFiniteSet(a .. b) /\ Cardinality(a .. b) = n
      <4>1. IsFiniteSet(a .. b) /\ Cardinality(a .. b) = IF a > b THEN 0 ELSE b - a + 1
        BY FS_Interval
      <4> QED BY <4>1, <3>1, <1>1
    <3>2. m + 1 \in Int /\ m + n \in Int
      BY <1>1
    <3> HIDE DEF m
    <3> QED BY <3>1, <3>2
  <2>3. ASSUME NEW T, T = m + 1 .. m + n PROVE IsFiniteSet({d} \X T) /\ Cardinality({d} \X T) = 1 * n
    <3>1. IsFiniteSet(T) /\ Cardinality(T) = n
      BY <2>2, <2>3
    <3>2. IsFiniteSet({d} \X T) /\ Cardinality({d} \X T) = Cardinality({d}) * Cardinality(T)
      BY <2>1, <3>1, FS_Product
    <3> QED BY <2>1, <3>1, <3>2
  <2> QED BY <2>3
<1>3. Cells(gn) \subseteq Cells(fn) \cup more
  <2> SUFFICES ASSUME NEW k \in DOMAIN gn, NEW i \in 1 .. gn[k]
               PROVE  <<k, i>> \in Cells(fn) \/ <<k, i>> \in more
    BY DEF Cells
  <2>1. CASE k # d
    BY <2>1 DEF Cells
  <2>2. CASE k = d /\ i <= m
    <3>1. d \in DOMAIN fn /\ i \in 1 .. fn[d]
      BY <2>2
    <3> QED BY <2>2, <3>1 DEF Cells
  <2>3. CASE k = d /\ ~(i <= m)
    BY <2>3, <1>1
  <2> QED BY <2>1, <2>2, <2>3
<1>4. /\ IsFiniteSet(Cells(gn)) /\ Total(gn) = Cardinality(Cells(gn)) /\ Total(gn) \in Nat
      /\ IsFiniteSet(Cells(fn)) /\ Total(fn) = Cardinality(Cells(fn)) /\ Total(fn) \in Nat
  BY TotalType
<1> HIDE DEF more
<1>5. /\ IsFiniteSet(Cells(fn) \cup more)
      /\ Cardinality(Cells(fn) \cup more) = Total(fn) + n - Cardinality(Cells(fn) \cap more)
  BY <1>2, <1>4, FS_Union
<1>6. Cardinality(Cells(fn) \cap more) \in Nat
  BY <1>4, FS_Intersection, FS_CardinalityType
<1>7. Cardinality(Cells(gn)) <= Cardinality(Cells(fn) \cup more)
  BY <1>3, <1>5, FS_Subset
<1> QED BY <1>4, <1>5, <1>6, <1>7

LEMMA EntriesOf ==
  ASSUME NEW fn, IsTally(fn)
  PROVE  /\ IsFiniteSet(DOMAIN [d \in DOMAIN fn |-> Entry(fn, d)])
         /\ \A d \in DOMAIN fn : Entry(fn, d) \in Nat
         /\ CaptureSum(fn) \in Nat
<1>1. IsFiniteSet(DaySet)
  <2>1. DayOf(MaxTime) \in Nat
    BY Bounds, InDay
  <2> QED BY <2>1, FS_Interval DEF DaySet
<1>2. IsFiniteSet(DOMAIN fn)
  BY <1>1, FS_Subset DEF IsTally
<1> DEFINE en == [d \in DOMAIN fn |-> Entry(fn, d)]
<1>3. DOMAIN en = DOMAIN fn /\ \A d \in DOMAIN en : en[d] = Entry(fn, d) /\ Entry(fn, d) \in Nat
  BY EntryType
<1> HIDE DEF en
<1>4. Total(en) \in Nat
  BY <1>2, <1>3, TotalType
<1> QED BY <1>2, <1>3, <1>4 DEF CaptureSum, en

LEMMA FewerCaptures ==
  ASSUME NEW fn, IsTally(fn), NEW gn, IsTally(gn),
         \A d \in DOMAIN gn : gn[d] = None \/ (d \in DOMAIN fn /\ gn[d] = fn[d])
  PROVE  CaptureSum(gn) <= CaptureSum(fn)
<1> DEFINE fe == [d \in DOMAIN fn |-> Entry(fn, d)]
           ge == [d \in DOMAIN gn |-> Entry(gn, d)]
<1>1. /\ IsFiniteSet(DOMAIN fe) /\ DOMAIN fe = DOMAIN fn
      /\ \A d \in DOMAIN fe : fe[d] = Entry(fn, d) /\ fe[d] \in Nat
  BY EntriesOf
<1>2. /\ IsFiniteSet(DOMAIN ge) /\ DOMAIN ge = DOMAIN gn
      /\ \A d \in DOMAIN ge : ge[d] = Entry(gn, d) /\ ge[d] \in Nat
  BY EntriesOf
<1>3. \A d \in DOMAIN ge : ge[d] <= 0 \/ (d \in DOMAIN fe /\ ge[d] <= fe[d])
  BY <1>1, <1>2 DEF Entry
<1> HIDE DEF fe, ge
<1>4. Total(ge) <= Total(fe)
  BY <1>1, <1>2, <1>3, TotalGrows
<1> QED BY <1>4 DEF CaptureSum, fe, ge

(* A table in memory or saved holds no more than it is made from.          *)
LEMMA PrunedCaptures ==
  ASSUME NEW all, DOMAIN all = Tables, IsTally(all["captured"]), NEW t
  PROVE  /\ CaptureSum(Pruned(all, t)["captured"]) <= CaptureSum(all["captured"])
         /\ CaptureSum(SavedDays(all)["captured"]) <= CaptureSum(all["captured"])
<1>1. "captured" \in Tables
  BY DEF Tables
<1>2. \A S : CaptureSum(Drop(all["captured"], S)) <= CaptureSum(all["captured"])
  <2> SUFFICES ASSUME NEW S PROVE CaptureSum(Drop(all["captured"], S)) <= CaptureSum(all["captured"])
    OBVIOUS
  <2>1. IsTally(Drop(all["captured"], S))
    BY TallyDrop
  <2>2. \A d \in DOMAIN Drop(all["captured"], S) :
          d \in DOMAIN all["captured"] /\ Drop(all["captured"], S)[d] = all["captured"][d]
    BY DEF Drop
  <2> QED BY <2>1, <2>2, FewerCaptures
<1> QED BY <1>1, <1>2 DEF Pruned, SavedDays

LEMMA AddedCaptures ==
  ASSUME NEW fn, IsTally(fn), NEW day \in DaySet, NEW counted, NEW n \in Nat
  PROVE  CaptureSum(AddCount(fn, day, counted, n)) <= CaptureSum(fn) + n
<1> DEFINE gn == AddCount(fn, day, counted, n)
<1>1. IsTally(gn)
  BY AddCountOK
<1>2. CaptureSum(gn) \in Nat /\ CaptureSum(fn) \in Nat
  BY <1>1, EntriesOf
<1>3. CASE n > 0
  <2> DEFINE fe == [d \in DOMAIN fn |-> Entry(fn, d)]
             ge == [d \in DOMAIN gn |-> Entry(gn, d)]
  <2>1. gn = Extend(fn, day, Entry(fn, day) + n) /\ Entry(fn, day) \in Nat
    BY <1>3, EntryType DEF AddCount, Plus
  <2>2. /\ DOMAIN gn = DOMAIN fn \cup {day}
        /\ \A d \in DOMAIN gn : gn[d] = IF d = day THEN Entry(fn, day) + n ELSE fn[d]
    BY <2>1 DEF Extend
  <2> HIDE DEF gn
  <2>3. /\ IsFiniteSet(DOMAIN fe) /\ DOMAIN fe = DOMAIN fn
        /\ \A d \in DOMAIN fe : fe[d] = Entry(fn, d) /\ fe[d] \in Nat
    BY EntriesOf
  <2>4. /\ IsFiniteSet(DOMAIN ge) /\ DOMAIN ge = DOMAIN gn
        /\ \A d \in DOMAIN ge : ge[d] = Entry(gn, d) /\ ge[d] \in Nat
    BY <1>1, EntriesOf
  <2>5. \A d \in DOMAIN ge : d # day => d \in DOMAIN fe /\ fe[d] = ge[d]
    BY <2>2, <2>3, <2>4 DEF Entry
  <2>6. ge[day] <= (IF day \in DOMAIN fe THEN fe[day] ELSE 0) + n
    <3>1. day \in DOMAIN gn /\ gn[day] = Entry(fn, day) + n /\ gn[day] \in Nat
      BY <2>1, <2>2
    <3>2. ge[day] = Entry(fn, day) + n
      BY <3>1, <2>4, NoneAssumption DEF Entry
    <3>3. Entry(fn, day) = IF day \in DOMAIN fe THEN fe[day] ELSE 0
      <4>1. day \notin DOMAIN fn => Entry(fn, day) = 0
        BY DEF Entry
      <4> QED BY <4>1, <2>3
    <3> QED BY <3>2, <3>3, <2>1
  <2> HIDE DEF fe, ge
  <2>7. Total(ge) <= Total(fe) + n
    BY <2>3, <2>4, <2>5, <2>6, TotalPlus
  <2> QED BY <2>7 DEF CaptureSum, fe, ge, gn
<1>4. CASE ~(n > 0)
  <2>1. \A d \in DOMAIN gn : gn[d] = None \/ (d \in DOMAIN fn /\ gn[d] = fn[d])
    BY <1>4 DEF AddCount, Extend
  <2> HIDE DEF gn
  <2>2. CaptureSum(gn) <= CaptureSum(fn)
    BY <1>1, <2>1, FewerCaptures
  <2> QED BY <2>2, <1>2, <1>4 DEF gn
<1> QED BY <1>3, <1>4

-----------------------------------------------------------------------------
(* What pays for them                                                      *)

LEMMA FloorType ==
  ASSUME AccountingInv, BaselineOK(rolling)
  PROVE  Floor \in Nat /\ Floor <= now /\ Bound \in Nat /\ Bound <= now /\ now \in Nat /\ now <= MaxTime
<1>1. Bound \in Nat /\ Bound <= now /\ now \in Nat /\ now <= MaxTime
  BY BoundType, Bounds DEF AccountingInv, EnvOK, Times
<1>2. rolling.last \in Nat /\ rolling.last <= now
  BY Bounds DEF AccountingInv, RollingOK
<1>3. rolling.baseline # None => rolling.baseline.at \in Nat /\ rolling.baseline.at <= now
  BY <1>1, <1>2 DEF BaselineOK
<1> QED BY <1>1, <1>2, <1>3 DEF Floor

LEMMA FlowTimesFinite == IsFiniteSet(Flows \X (1 .. MaxTime))
<1>1. \A T : IsFiniteSet(T) => IsFiniteSet(Flows \X T)
  BY FlowsAssumption, FS_Product
<1>2. IsFiniteSet(1 .. MaxTime)
  BY Bounds, FS_Interval
<1> QED BY <1>1, <1>2

LEMMA DetectionsFinite ==
  ASSUME EnvOK, NEW ts
  PROVE  /\ IsFiniteSet(Detections(ts)) /\ Cardinality(Detections(ts)) \in Nat
         /\ \A S \in SUBSET Detections(ts) :
              IsFiniteSet(S) /\ Cardinality(S) \in Nat /\ Cardinality(S) <= Cardinality(Detections(ts))
<1>1. IsFiniteSet(Flows \X (1 .. MaxTime))
  BY FlowTimesFinite
<1>2. Detections(ts) \subseteq Flows \X (1 .. MaxTime)
  BY DEF Detections, EnvOK
<1>3. IsFiniteSet(Detections(ts))
  BY <1>1, <1>2, FS_Subset
<1> QED BY <1>3, FS_Subset, FS_CardinalityType

(* What is remembered of a flow still is, or no longer matters.            *)
StillReached ==
  \A f \in DOMAIN seen : \A t \in 1 .. Bound : t <= seen[f].last =>
    t <= Floor' \/ t <= Bound' - Window \/ (f \in DOMAIN seen' /\ t <= seen'[f].last)

LEMMA PaidGrows ==
  ASSUME AccountingInv, AccountingInv', Unchanging, Bound <= Bound', BaselineOK(rolling), BaselineOK(rolling)',
         Floor <= Floor', StillReached
  PROVE  /\ Paid \subseteq Paid' /\ IsFiniteSet(Paid') /\ IsFiniteSet(Paid)
         /\ Cardinality(Paid) \in Nat /\ Cardinality(Paid') \in Nat
         /\ Cardinality(Paid) <= Cardinality(Paid')
<1>1. /\ Bound \in Nat /\ Bound <= now /\ now \in Nat /\ now <= MaxTime /\ Floor \in Nat
      /\ Bound' \in Nat /\ Floor' \in Nat
  <2>1. Bound' \in Nat
    BY Bounds DEF AccountingInv, EnvOK, CycleOK, Bound, Times
  <2>2. Floor' \in Nat
    <3>1. RollingOK(rolling)'
      BY DEF AccountingInv
    <3>2. rolling'.last \in Nat /\ (rolling'.baseline # None => rolling'.baseline.at \in Nat)
      BY <3>1, Bounds DEF RollingOK, BaselineOK
    <3> QED BY <2>1, <3>2 DEF Floor
  <2> QED BY <2>1, <2>2, FloorType
<1>2. DOMAIN detected' = DOMAIN detected /\ \A t \in 1 .. now : detected'[t] = detected[t]
  BY DEF Unchanging
<1>3. Paid \subseteq Paid'
  <2> SUFFICES ASSUME NEW e \in Paid PROVE e \in Paid'
    OBVIOUS
  <2>1. /\ e \in Flows \X ((1 .. Bound) \cap DOMAIN detected) /\ e[1] \in detected[e[2]]
        /\ e[2] \in 1 .. Bound /\ Reached(e[1], e[2])
    BY DEF Paid, Detections
  <2>2. e[2] \in 1 .. Bound' /\ e[2] \in 1 .. now
    BY <1>1, <2>1
  <2>3. e \in Flows \X ((1 .. Bound') \cap DOMAIN detected') /\ e[1] \in detected'[e[2]]
    BY <1>2, <2>1, <2>2
  <2>4. e[2] <= Floor' \/ e[2] <= Bound' - Window
        \/ (e[1] \in DOMAIN seen' /\ e[2] <= seen'[e[1]].last)
    <3>1. CASE e[2] <= Floor \/ e[2] <= Bound - Window
      BY <3>1, <1>1, <2>1, Bounds
    <3>2. CASE e[1] \in DOMAIN seen /\ e[2] <= seen[e[1]].last
      BY <3>2, <2>1 DEF StillReached
    <3> QED BY <2>1, <3>1, <3>2 DEF Reached
  <2> QED BY <2>3, <2>4 DEF Paid, Detections, Reached
<1>4. IsFiniteSet(Paid) /\ Cardinality(Paid) \in Nat
  BY DetectionsFinite DEF Paid, AccountingInv
<1>5. IsFiniteSet(Paid')
  <2>1. EnvOK'
    BY DEF AccountingInv
  <2>2. detected' \in [1 .. MaxTime -> SUBSET Flows]
    BY <2>1 DEF EnvOK
  <2>3. IsFiniteSet(Flows \X (1 .. MaxTime))
    BY FlowTimesFinite
  <2>4. Paid' \subseteq Flows \X (1 .. MaxTime)
    BY <2>2 DEF Paid, Detections
  <2> QED BY <2>3, <2>4, FS_Subset
<1> QED BY <1>3, <1>4, <1>5, FS_Subset, FS_CardinalityType

(* The flows new in an answer are paid by detections not counted before.   *)
LEMMA NewFlowsPaid ==
  ASSUME AccountingInv, AccountingInv', Unchanging, Bound' = Bound, cycle.pc = "query",
         BaselineOK(rolling), BaselineOK(rolling)', Floor <= Floor', StillReached,
         Floor <= cycle.from,
         seen' = Known(seen, Asked, cycle.at)
  PROVE  Cardinality(Paid) + Cardinality(NewFlows(seen, Asked, cycle.at)) <= Cardinality(Paid')
<1> DEFINE fresh == NewFlows(seen, Asked, cycle.at)
           latest == [f \in fresh |-> <<f, Sample(f, Asked).last>>]
           more == {<<f, Sample(f, Asked).last>> : f \in fresh}
<1>1. /\ Paid \subseteq Paid' /\ IsFiniteSet(Paid') /\ IsFiniteSet(Paid)
      /\ Cardinality(Paid) \in Nat /\ Cardinality(Paid') \in Nat
  <2>1. Bound <= Bound'
    BY BoundType DEF AccountingInv
  <2> QED BY <2>1, PaidGrows
<1>2. /\ EnvOK /\ CycleOK /\ SeenOK(seen, applied, Bound)
      /\ Asked \in SUBSET (1 .. cycle.at) /\ Bound = cycle.at /\ cycle.at \in Nat /\ cycle.at <= now
      /\ cycle.from \in Nat /\ cycle.at - Window <= cycle.from
      /\ Asked = cycle.from + 1 .. cycle.at
  BY AskedTimes DEF AccountingInv, CycleOK, Asked
<1>3. now \in Nat /\ now <= MaxTime /\ Floor \in Nat
  BY FloorType
<1>4. fresh \in SUBSET Flows /\ fresh \subseteq Answer(Asked) /\ IsFiniteSet(fresh) /\ Cardinality(fresh) \in Nat
  BY CountType, Counted DEF NewFlows
<1>5. \A f \in fresh : /\ f \in Flows /\ Sample(f, Asked).last \in Asked
                       /\ Sample(f, Asked).last \in 1 .. cycle.at
                       /\ f \in detected[Sample(f, Asked).last]
  BY <1>2, <1>4, SampleOf
<1>6. IsFiniteSet(more) /\ Cardinality(more) = Cardinality(fresh)
  <2>1. latest \in Surjection(fresh, more) /\ latest \in Injection(fresh, more)
    BY DEF Surjection, Injection, IsInjective
  <2> HIDE DEF latest, more, fresh
  <2> QED BY <1>4, <2>1, FS_Surjection
<1>7. more \subseteq Paid'
  <2> SUFFICES ASSUME NEW f \in fresh PROVE <<f, Sample(f, Asked).last>> \in Paid'
    OBVIOUS
  <2> DEFINE t == Sample(f, Asked).last
  <2>1. f \in Flows /\ t \in 1 .. cycle.at /\ f \in detected[t] /\ f \in Answer(Asked)
    BY <1>4, <1>5
  <2>2. t \in DOMAIN detected /\ t \in 1 .. now
    <3>1. DOMAIN detected = 1 .. MaxTime /\ MaxTime \in Nat
      BY <1>2, Bounds DEF EnvOK
    <3> HIDE DEF t, fresh, more, latest
    <3> QED BY <1>2, <1>3, <2>1, <3>1
  <2>3. t \in DOMAIN detected' /\ f \in detected'[t] /\ t \in 1 .. Bound'
    BY <1>2, <2>1, <2>2 DEF Unchanging
  <2>4. f \in DOMAIN seen' /\ seen'[f] = Sample(f, Asked)
    BY <2>1 DEF Known, NewFlows
  <2>5. t <= seen'[f].last
    <3>1. seen'[f].last = t
      BY <2>4
    <3> HIDE DEF t
    <3> QED BY <3>1, <2>1
  <2> HIDE DEF t, fresh
  <2>6. <<f, t>> \in Paid'
    BY <2>1, <2>3, <2>4, <2>5 DEF Paid, Detections, Reached
  <2> QED BY <2>6 DEF t
<1>8. more \cap Paid = {}
  <2> SUFFICES ASSUME NEW f \in fresh, <<f, Sample(f, Asked).last>> \in Paid PROVE FALSE
    OBVIOUS
  <2> DEFINE t == Sample(f, Asked).last
  <2>1. t \in Nat /\ cycle.from < t
    BY <1>2, <1>5
  <2>2. Reached(f, t)
    BY DEF Paid
  <2>3. f \notin Kept(seen, cycle.at)
    BY DEF NewFlows
  <2>4. f \in DOMAIN seen => seen[f].last \in Nat /\ seen[f].last <= cycle.at - Window
    BY <1>2, <2>3, Bounds DEF Kept, SeenOK
  <2> HIDE DEF t, fresh
  <2> QED BY <1>2, <1>3, <2>1, <2>2, <2>4, Bounds DEF Reached
<1> HIDE DEF more, fresh
<1>9. /\ IsFiniteSet(Paid \cup more)
      /\ Cardinality(Paid \cup more) = Cardinality(Paid) + Cardinality(more)
  <2>1. Cardinality(Paid \cap more) = 0
    <3>1. Paid \cap more = {}
      BY <1>8
    <3> QED BY <3>1, FS_EmptySet
  <2>2. /\ IsFiniteSet(Paid \cup more)
        /\ Cardinality(Paid \cup more) = Cardinality(Paid) + Cardinality(more) - Cardinality(Paid \cap more)
    BY <1>1, <1>6, FS_Union
  <2>3. Cardinality(more) \in Nat
    BY <1>4, <1>6
  <2> QED BY <1>1, <2>1, <2>2, <2>3
<1>10. Cardinality(Paid \cup more) <= Cardinality(Paid')
  BY <1>1, <1>7, FS_Subset
<1> QED BY <1>6, <1>9, <1>10 DEF fresh

-----------------------------------------------------------------------------
(* Every step: time, troubles and the time the cycle works at.             *)

LEMMA SpentGrows ==
  ASSUME EnvOK, UNCHANGED spent \/ \E what \in Troubles : Meet(what)
  PROVE  \A w \in Troubles : spent[w] \in Nat /\ spent'[w] \in Nat /\ spent[w] <= spent'[w]
<1>1. spent \in [Troubles -> Nat]
  BY DEF EnvOK
<1>2. CASE UNCHANGED spent
  BY <1>1, <1>2
<1>3. CASE \E what \in Troubles : Meet(what)
  <2>1. PICK what \in Troubles : spent' = [spent EXCEPT ![what] = @ + 1]
    BY <1>3 DEF Meet
  <2> QED BY <1>1, <2>1
<1> QED BY <1>2, <1>3

LEMMA TroubleOrNot ==
  ASSUME Next
  PROVE  UNCHANGED spent \/ \E what \in Troubles : Meet(what)
<1>1. ASSUME QueryFails \/ DedupeFails \/ SaveCycle \/ ReconcilePrevious \/ SavePrevious \/ Publish
             \/ ReconcileStored \/ ReconcileToday
      PROVE  UNCHANGED spent \/ Fault
  BY <1>1 DEF QueryFails, DedupeFails, SaveCycle, ReconcilePrevious, SavePrevious, Publish,
              ReconcileStored, ReconcileToday, Persist
<1>2. ASSUME SaveStored \/ SaveToday PROVE UNCHANGED spent \/ Fault
  BY <1>2 DEF SaveStored, SaveToday, JobSaves, Persist
<1>3. ASSUME QueryCountOnly \/ QueryDetailed PROVE UNCHANGED spent \/ Meet("pressure")
  BY <1>3 DEF QueryCountOnly, QueryDetailed
<1>4. ASSUME Tick \/ StartCycle \/ Account PROVE UNCHANGED spent
  BY <1>4 DEF Tick, StartCycle, Account
<1>5. StartJob => Meet("jobs")
  BY DEF StartJob
<1>6. Restart => Meet("crashes")
  BY DEF Restart
<1>7. {"faults", "pressure", "jobs", "crashes"} \subseteq Troubles
  BY DEF Troubles
<1> QED BY <1>1, <1>2, <1>3, <1>4, <1>5, <1>6, <1>7 DEF Next, Fault

LEMMA EnvSame ==
  ASSUME Next
  PROVE  Tick \/ UNCHANGED env
BY DEF Next, StartCycle, QueryFails, QueryCountOnly, QueryDetailed, DedupeFails, Account, SaveCycle,
       ReconcilePrevious, SavePrevious, Publish, StartJob, ReconcileStored, SaveStored, JobSaves,
       ReconcileToday, SaveToday, Restart

(* Which of the two kinds of step the cycle takes, if any.                 *)
LEMMA CycleMoves ==
  ASSUME Next
  PROVE  \/ cycle' = cycle
         \/ cycle'.pc = "idle"
         \/ cycle.pc = "idle" /\ cycle'.at = now
         \/ cycle.pc # "idle" /\ cycle'.at = cycle.at
<1>1. ASSUME Tick \/ StartJob \/ ReconcileStored \/ SaveStored \/ ReconcileToday \/ SaveToday
      PROVE  cycle' = cycle
  BY <1>1 DEF Tick, StartJob, ReconcileStored, SaveStored, JobSaves, ReconcileToday, SaveToday
<1>2. ASSUME Publish \/ Restart PROVE cycle'.pc = "idle"
  BY <1>2 DEF Publish, Restart, Idle
<1>3. StartCycle => cycle.pc = "idle" /\ cycle'.at = now
  BY DEF StartCycle
<1>4. ASSUME QueryFails \/ QueryCountOnly \/ QueryDetailed \/ DedupeFails \/ Account
      PROVE  cycle.pc # "idle" /\ cycle'.at = cycle.at
  BY <1>4 DEF QueryFails, QueryCountOnly, QueryDetailed, DedupeFails, Account, Answered
<1>5. ASSUME SaveCycle \/ ReconcilePrevious \/ SavePrevious
      PROVE  cycle.pc # "idle" /\ cycle'.at = cycle.at
  <2>1. cycle.pc # "idle" /\ \E pc : cycle' = [cycle EXCEPT !.pc = pc]
    <3>1. CASE SaveCycle
      BY <3>1 DEF SaveCycle
    <3>2. CASE ReconcilePrevious
      BY <3>2 DEF ReconcilePrevious
    <3>3. CASE SavePrevious
      BY <3>3 DEF SavePrevious
    <3> QED BY <1>5, <3>1, <3>2, <3>3
  <2> QED BY <2>1
<1> QED BY <1>1, <1>2, <1>3, <1>4, <1>5 DEF Next

LEMMA StepFacts ==
  ASSUME AccountingInv, Next
  PROVE  /\ EnvOK /\ Unchanging /\ AccountingInv' /\ HostMetrics' = HostMetrics
         /\ Bound \in Nat /\ Bound' \in Nat /\ Bound <= Bound' /\ Bound <= now /\ Bound' <= now'
         /\ Remembered' => Remembered
<1>1. EnvOK /\ CycleOK
  BY DEF AccountingInv
<1>2. Unchanging
  BY <1>1, EnvSame, TickUnchanging, SameUnchanging
<1>3. AccountingInv'
  BY NextInv
<1>4. Bound \in Nat /\ Bound' \in Nat /\ Bound <= Bound' /\ Bound <= now /\ Bound' <= now'
  BY <1>1, <1>2, CycleMoves, BoundGrows
<1>5. \A w \in Troubles : spent[w] \in Nat /\ spent'[w] \in Nat /\ spent[w] <= spent'[w]
  BY <1>1, TroubleOrNot, SpentGrows
<1>6. mode' = mode
  BY <1>2 DEF Unchanging
<1>7. Remembered' => Remembered
  BY <1>5, <1>6 DEF Remembered, Backend, Troubles
<1> QED BY <1>1, <1>2, <1>3, <1>4, <1>6, <1>7 DEF HostMetrics

-----------------------------------------------------------------------------
(* The captures, step by step                                              *)

LEMMA CaptureTables ==
  ASSUME AccountingInv
  PROVE  /\ DOMAIN days = Tables /\ IsTally(days["captured"]) /\ CaptureSum(days["captured"]) \in Nat
         /\ DOMAIN disk.days = Tables /\ IsTally(disk.days["captured"])
         /\ CaptureSum(disk.days["captured"]) \in Nat
         /\ Pending \in Nat
         /\ disk \in [rolling : {disk.rolling}, days : {disk.days}, settled : {disk.settled}]
<1>1. "captured" \in Tables
  BY DEF Tables
<1>2. /\ DOMAIN days = Tables /\ IsTally(days["captured"])
      /\ DOMAIN disk.days = Tables /\ IsTally(disk.days["captured"])
      /\ disk \in [rolling : {disk.rolling}, days : {disk.days}, settled : {disk.settled}]
  BY <1>1 DEF AccountingInv, DaysOK, DiskOK
<1>3. Pending \in Nat
  BY DEF AccountingInv, CycleOK, Pending
<1> QED BY <1>2, <1>3, EntriesOf

LEMMA SavePrunedCaptures ==
  ASSUME AccountingInv, NEW all, DOMAIN all = Tables, IsTally(all["captured"]), NEW t,
         NEW new, new = SavePruned(all, t)
  PROVE  /\ new.rolling = disk.rolling
         /\ CaptureSum(new.days["captured"]) <= CaptureSum(all["captured"])
            \/ new.days["captured"] = disk.days["captured"]
<1>1. disk \in [rolling : {disk.rolling}, days : {disk.days}, settled : {disk.settled}]
  BY CaptureTables
<1>2. CASE new = disk
  BY <1>2
<1>3. CASE new = [disk EXCEPT !.days = SavedDays(Pruned(all, t))]
  <2>1. new.rolling = disk.rolling /\ new.days = SavedDays(Pruned(all, t))
    BY <1>1, <1>3
  <2>2. "captured" \in Tables
    BY DEF Tables
  <2>3. DOMAIN Pruned(all, t) = Tables /\ Pruned(all, t)["captured"] = Drop(all["captured"], Expired(t))
    BY <2>2 DEF Pruned
  <2>4. IsTally(Pruned(all, t)["captured"])
    BY <2>3, TallyDrop
  <2>5. CaptureSum(SavedDays(Pruned(all, t))["captured"]) <= CaptureSum(Pruned(all, t)["captured"])
    BY <2>3, <2>4, PrunedCaptures
  <2>6. CaptureSum(Pruned(all, t)["captured"]) <= CaptureSum(all["captured"])
    BY PrunedCaptures
  <2>7. IsTally(SavedDays(Pruned(all, t))["captured"])
    BY <2>2, <2>3, <2>4, TallyDrop DEF SavedDays
  <2>8. /\ CaptureSum(SavedDays(Pruned(all, t))["captured"]) \in Nat
        /\ CaptureSum(Pruned(all, t)["captured"]) \in Nat /\ CaptureSum(all["captured"]) \in Nat
    BY <2>4, <2>7, EntriesOf
  <2> QED BY <2>1, <2>5, <2>6, <2>8
<1> QED BY <1>2, <1>3 DEF SavePruned

(* The saves: no other capture is saved than what is in memory.            *)
DiskFollows(new) ==
  /\ new.rolling = disk.rolling \/ new.rolling = rolling
  /\ \/ new.days["captured"] = disk.days["captured"]
     \/ CaptureSum(new.days["captured"]) <= CaptureSum(days["captured"])

LEMMA SaveDaysFollows ==
  ASSUME AccountingInv, NEW kind \in Tables
  PROVE  DiskFollows(SaveDays(kind)) /\ SaveDays(kind).rolling = disk.rolling
<1> DEFINE new == SaveDays(kind)
           tables == [disk.days EXCEPT ![kind] = SavedDays(days)[kind]]
<1>1. /\ disk \in [rolling : {disk.rolling}, days : {disk.days}, settled : {disk.settled}]
      /\ DOMAIN disk.days = Tables /\ DOMAIN days = Tables /\ IsTally(days["captured"])
  BY CaptureTables
<1>2. new.rolling = disk.rolling /\ new.days = tables
  BY <1>1 DEF SaveDays
<1>3. "captured" \in Tables
  BY DEF Tables
<1>4. tables["captured"] = IF kind = "captured" THEN SavedDays(days)["captured"] ELSE disk.days["captured"]
  BY <1>1, <1>3
<1>5. CaptureSum(SavedDays(days)["captured"]) <= CaptureSum(days["captured"])
  BY <1>1, PrunedCaptures
<1> HIDE DEF new, tables
<1>6. DiskFollows(new) /\ new.rolling = disk.rolling
  BY <1>2, <1>4, <1>5 DEF DiskFollows
<1> QED BY <1>6 DEF new

LEMMA FloorSame ==
  ASSUME AccountingInv, BaselineInv, Unchanging, Bound \in Nat, Bound' \in Nat, Bound <= Bound', HostMetrics' = HostMetrics,
         rolling' = rolling, reseed' = reseed,
         (cycle.pc \in {"query", "account"} /\ cycle.fresh)
           <=> (cycle'.pc \in {"query", "account"} /\ cycle'.fresh)
  PROVE  Floor <= Floor'
<1>1. Floor \in Nat
  BY FloorType DEF BaselineInv
<1>2. CASE reseed \/ rolling.baseline = None \/ (cycle.pc \in {"query", "account"} /\ cycle.fresh)
  BY <1>2 DEF Floor
<1>3. CASE ~(reseed \/ rolling.baseline = None \/ (cycle.pc \in {"query", "account"} /\ cycle.fresh))
  BY <1>1, <1>3 DEF Floor
<1> QED BY <1>2, <1>3

(* A step that leaves the rolling state and what is known of flows alone   *)
(* and captures nothing more than was about to be.                         *)
LEMMA CaptureQuiet ==
  ASSUME AccountingInv, CaptureInv, Next,
         UNCHANGED <<rolling, reseed, seen>>,
         (cycle.pc \in {"query", "account"} /\ cycle.fresh)
           <=> (cycle'.pc \in {"query", "account"} /\ cycle'.fresh),
         Remembered' => Pending' <= Pending, DiskFollows(disk'),
         CaptureSum(days'["captured"]) <= CaptureSum(days["captured"])
  PROVE  CaptureInv'
<1>1. /\ EnvOK /\ Unchanging /\ AccountingInv' /\ HostMetrics' = HostMetrics
      /\ Bound \in Nat /\ Bound' \in Nat /\ Bound <= Bound' /\ Bound <= now /\ Bound' <= now'
      /\ Remembered' => Remembered
  BY StepFacts
<1>2. BaselineInv /\ (Remembered => CapturesPaid)
  BY DEF CaptureInv
<1>3. BaselineInv'
  BY <1>1, <1>2 DEF BaselineInv, BaselineOK, DiskFollows
<1>4. Floor <= Floor'
  BY <1>1, <1>2, FloorSame
<1>5. StillReached
  BY DEF StillReached
<1>6. /\ Cardinality(Paid) \in Nat /\ Cardinality(Paid') \in Nat
      /\ Cardinality(Paid) <= Cardinality(Paid')
  BY <1>1, <1>2, <1>3, <1>4, <1>5, PaidGrows DEF BaselineInv
<1>7. /\ CaptureSum(days["captured"]) \in Nat /\ CaptureSum(disk.days["captured"]) \in Nat /\ Pending \in Nat
  BY CaptureTables
<1>8. /\ CaptureSum(days'["captured"]) \in Nat /\ CaptureSum(disk'.days["captured"]) \in Nat
      /\ Pending' \in Nat
  <2>1. "captured" \in Tables
    BY DEF Tables
  <2>2. IsTally(days'["captured"]) /\ IsTally(disk'.days["captured"])
    BY <1>1, <2>1 DEF AccountingInv, DaysOK, DiskOK
  <2>3. Pending' \in Nat
    BY <1>1 DEF AccountingInv, CycleOK, Pending
  <2> QED BY <2>2, <2>3, EntriesOf
<1>9. ASSUME Remembered' PROVE CapturesPaid'
  <2>1. CapturesPaid
    BY <1>1, <1>2, <1>9
  <2>2. CaptureSum(days'["captured"]) + Pending' <= Cardinality(Paid')
    BY <2>1, <1>6, <1>7, <1>8, <1>9 DEF CapturesPaid
  <2>3. CaptureSum(disk'.days["captured"]) <= Cardinality(Paid')
    BY <2>1, <1>6, <1>7, <1>8 DEF CapturesPaid, DiskFollows
  <2> QED BY <2>2, <2>3 DEF CapturesPaid
<1> QED BY <1>3, <1>9 DEF CaptureInv

LEMMA SameCaptures ==
  ASSUME AccountingInv
  PROVE  /\ DiskFollows(disk) /\ CaptureSum(days["captured"]) <= CaptureSum(days["captured"])
         /\ \A new : (new.rolling = disk.rolling \/ new.rolling = rolling) /\ new.days = disk.days => DiskFollows(new)
BY CaptureTables DEF DiskFollows

(* The steps of the cycle and of the job that write tables.                *)
LEMMA ReplacedCaptures ==
  ASSUME AccountingInv, NEW d, NEW n,
         NEW all, all = [days EXCEPT !.daily = Extend(@, d, n)]
  PROVE  DOMAIN all = Tables /\ all["captured"] = days["captured"] /\ IsTally(all["captured"])
BY CaptureTables DEF Tables

LEMMA PrunedFollows ==
  ASSUME AccountingInv, NEW all, DOMAIN all = Tables, all["captured"] = days["captured"], NEW t
  PROVE  /\ DiskFollows(SavePruned(all, t))
         /\ CaptureSum(Pruned(all, t)["captured"]) <= CaptureSum(days["captured"])
<1>1. IsTally(all["captured"])
  BY CaptureTables
<1>2. CaptureSum(Pruned(all, t)["captured"]) <= CaptureSum(all["captured"])
  BY <1>1, PrunedCaptures
<1>3. \A new : new = SavePruned(all, t) => DiskFollows(new)
  BY <1>1, SavePrunedCaptures DEF DiskFollows
<1> QED BY <1>2, <1>3

LEMMA CaptureQueryFails ==
  ASSUME AccountingInv, CaptureInv, QueryFails
  PROVE  CaptureInv'
<1>1. Pending' <= Pending
  <2>1. Pending' = 0 /\ Pending \in Nat
    BY CaptureTables DEF QueryFails, Answered, Pending
  <2> QED BY <2>1
<1>2. cycle.pc = "query" /\ cycle'.pc = "account" /\ cycle'.fresh = cycle.fresh
  BY DEF QueryFails, Answered
<1> QED BY <1>1, <1>2, CaptureQuiet, SameCaptures DEF QueryFails, store, Next

LEMMA CaptureCountOnly ==
  ASSUME AccountingInv, CaptureInv, QueryCountOnly
  PROVE  CaptureInv'
<1>1. ~Remembered'
  <2>1. spent'["pressure"] = spent["pressure"] + 1 /\ spent["pressure"] \in Nat
    BY DEF QueryCountOnly, Meet, AccountingInv, EnvOK, Troubles
  <2> QED BY <2>1 DEF Remembered
<1>2. cycle.pc = "query" /\ cycle'.pc = "account" /\ cycle'.fresh = cycle.fresh
  BY DEF QueryCountOnly, Answered
<1> QED BY <1>1, <1>2, CaptureQuiet, SameCaptures DEF QueryCountOnly, Next

LEMMA CaptureSaves ==
  ASSUME AccountingInv, CaptureInv, Tick \/ SaveCycle \/ SavePrevious \/ Publish \/ StartJob
  PROVE  CaptureInv'
<1>1. UNCHANGED <<rolling, reseed, seen, days>>
  BY DEF Tick, SaveCycle, SavePrevious, Publish, StartJob, store
<1>2. /\ (cycle.pc \in {"query", "account"} /\ cycle.fresh)
           <=> (cycle'.pc \in {"query", "account"} /\ cycle'.fresh)
      /\ Pending' = Pending
  <2>1. CASE Tick \/ StartJob
    BY <2>1 DEF Tick, StartJob, Pending
  <2>2. CASE Publish
    BY <2>2 DEF Publish, Idle, Pending
  <2>3. CASE SavePrevious
    <3>1. cycle.pc = "settle" /\ cycle'.pc = "publish"
      <4>1. cycle.pc = "settle" /\ cycle' = [cycle EXCEPT !.pc = "publish"]
        BY <2>3 DEF SavePrevious
      <4> QED BY <4>1
    <3> QED BY <3>1 DEF Pending
  <2>4. CASE SaveCycle
    <3>1. cycle.pc \in {"daily", "captured", "hosts"} /\ cycle'.pc \in {"captured", "hosts", "previous"}
      <4>1. /\ cycle.pc \in {"daily", "captured", "hosts"}
            /\ cycle' = [cycle EXCEPT !.pc = CASE @ = "daily" -> "captured"
                                                [] @ = "captured" /\ cycle.add > 0 -> "hosts"
                                                [] OTHER -> "previous"]
        BY <2>4 DEF SaveCycle
      <4> QED BY <4>1
    <3> QED BY <3>1 DEF Pending
  <2> QED BY <2>1, <2>2, <2>3, <2>4
<1>3. DiskFollows(disk')
  <2>1. CASE disk' = disk
    BY <2>1, SameCaptures
  <2>2. CASE \E kind \in Tables : disk' = SaveDays(kind)
    BY <2>2, SaveDaysFollows
  <2>3. CASE disk' = [disk EXCEPT !.rolling = rolling]
    <3>1. disk'.rolling = rolling /\ disk'.days = disk.days
      BY <2>3, CaptureTables
    <3> QED BY <3>1, SameCaptures
  <2>4. disk' = disk \/ disk' = [disk EXCEPT !.rolling = rolling] \/ \E kind \in Tables : disk' = SaveDays(kind)
    BY DEF Tick, SaveCycle, SavePrevious, Publish, StartJob, Persist, Tables
  <2> QED BY <2>1, <2>2, <2>3, <2>4
<1>4. CaptureSum(days'["captured"]) <= CaptureSum(days["captured"]) /\ Pending' <= Pending
  BY <1>1, <1>2, CaptureTables
<1>5. Next
  BY DEF Next
<1> QED BY <1>1, <1>2, <1>3, <1>4, <1>5, CaptureQuiet

LEMMA CaptureReconciles ==
  ASSUME AccountingInv, CaptureInv,
         ReconcilePrevious \/ ReconcileStored \/ SaveStored \/ ReconcileToday \/ SaveToday
  PROVE  CaptureInv'
<1>1. UNCHANGED <<rolling, reseed, seen>>
  BY DEF ReconcilePrevious, ReconcileStored, SaveStored, JobSaves, ReconcileToday, SaveToday
<1>2. /\ (cycle.pc \in {"query", "account"} /\ cycle.fresh)
           <=> (cycle'.pc \in {"query", "account"} /\ cycle'.fresh)
      /\ Pending' = Pending
  <2>1. CASE ReconcilePrevious
    <3>1. cycle.pc = "previous" /\ cycle'.pc \in {"publish", "settle"}
      <4>1. cycle.pc = "previous" /\ \E pc \in {"publish", "settle"} : cycle' = [cycle EXCEPT !.pc = pc]
        BY <2>1 DEF ReconcilePrevious
      <4> QED BY <4>1
    <3> QED BY <3>1 DEF Pending
  <2>2. CASE ReconcileStored \/ SaveStored \/ ReconcileToday \/ SaveToday
    <3>1. cycle' = cycle
      BY <2>2 DEF ReconcileStored, SaveStored, JobSaves, ReconcileToday, SaveToday
    <3> QED BY <3>1 DEF Pending
  <2> QED BY <2>1, <2>2
<1>3. \A all, d, n : all = [days EXCEPT !.daily = Extend(@, d, n)] =>
        DOMAIN all = Tables /\ all["captured"] = days["captured"]
  BY ReplacedCaptures
<1>4. /\ DiskFollows(disk') /\ CaptureSum(days'["captured"]) <= CaptureSum(days["captured"])
  <2>1. CASE ReconcilePrevious
    <3>1. PICK all : /\ DOMAIN all = Tables /\ all["captured"] = days["captured"]
                     /\ \/ days' = days /\ disk' = disk
                        \/ days' = Pruned(all, cycle.at) /\ disk' = SavePruned(all, cycle.at)
      <4> DEFINE new == [days EXCEPT !.daily = Extend(@, PreviousDay(cycle.at),
                                                      Count(DayTimes(PreviousDay(cycle.at))))]
      <4>1. DOMAIN new = Tables /\ new["captured"] = days["captured"]
        BY <1>3
      <4>2. DOMAIN days = Tables
        BY CaptureTables
      <4>3. \/ (days' = days /\ disk' = disk)
            \/ (days' = Pruned(new, cycle.at) /\ disk' = SavePruned(new, cycle.at))
            \/ (days' = Pruned(days, cycle.at) /\ disk' = SavePruned(days, cycle.at))
        BY <2>1 DEF ReconcilePrevious
      <4> HIDE DEF new
      <4> QED BY <4>1, <4>2, <4>3
    <3> QED BY <3>1, PrunedFollows, SameCaptures
  <2>2. CASE ReconcileStored \/ ReconcileToday
    <3>1. disk' = disk /\ (days' = days \/ \E d, n : days' = [days EXCEPT !.daily = Extend(@, d, n)])
      BY <2>2 DEF ReconcileStored, ReconcileToday
    <3> QED BY <3>1, <1>3, SameCaptures
  <2>3. CASE SaveStored \/ SaveToday
    <3> DEFINE kept == SavePruned(days, job.at)
               written == [kept EXCEPT !.days.daily = SavedDays(days').daily, !.settled = settled]
    <3>1. days' = Pruned(days, job.at) /\ disk' \in {disk, kept, written}
      BY <2>3 DEF SaveStored, SaveToday, JobSaves, Persist
    <3>2. DiskFollows(kept) /\ CaptureSum(days'["captured"]) <= CaptureSum(days["captured"])
      BY <3>1, CaptureTables, PrunedFollows
    <3>3. /\ kept \in [rolling : {kept.rolling}, days : {kept.days}, settled : {kept.settled}]
          /\ DOMAIN kept.days = Tables
      <4>1. DiskOK(kept, settled, late, Bound)
        BY SavePrunedOK DEF AccountingInv
      <4> HIDE DEF kept
      <4> QED BY <4>1 DEF DiskOK, DaysOK
    <3> HIDE DEF kept
    <3>4. written.rolling = kept.rolling /\ written.days["captured"] = kept.days["captured"]
      BY <3>3 DEF Tables
    <3> HIDE DEF written
    <3>5. DiskFollows(written)
      BY <3>2, <3>4 DEF DiskFollows
    <3> QED BY <3>1, <3>2, <3>5, SameCaptures
  <2> QED BY <2>1, <2>2, <2>3
<1>5. Pending' <= Pending
  BY <1>2, CaptureTables
<1>6. Next
  BY DEF Next
<1> QED BY <1>1, <1>2, <1>4, <1>5, <1>6, CaptureQuiet

LEMMA PaidStep ==
  ASSUME AccountingInv, CaptureInv, Next, BaselineInv', Remembered', Floor <= Floor', StillReached
  PROVE  /\ CapturesPaid
         /\ Cardinality(Paid) \in Nat /\ Cardinality(Paid') \in Nat
         /\ Cardinality(Paid) <= Cardinality(Paid')
         /\ CaptureSum(days["captured"]) \in Nat /\ CaptureSum(disk.days["captured"]) \in Nat
         /\ Pending \in Nat /\ Pending' \in Nat
         /\ CaptureSum(days'["captured"]) \in Nat /\ CaptureSum(disk'.days["captured"]) \in Nat
<1>1. /\ EnvOK /\ Unchanging /\ AccountingInv' /\ Bound <= Bound' /\ (Remembered' => Remembered)
  BY StepFacts
<1>2. BaselineInv /\ CapturesPaid
  BY <1>1 DEF CaptureInv
<1>3. /\ Cardinality(Paid) \in Nat /\ Cardinality(Paid') \in Nat
      /\ Cardinality(Paid) <= Cardinality(Paid')
  BY <1>1, <1>2, PaidGrows DEF BaselineInv
<1>4. "captured" \in Tables
  BY DEF Tables
<1>5. IsTally(days'["captured"]) /\ IsTally(disk'.days["captured"])
  BY <1>1, <1>4 DEF AccountingInv, DaysOK, DiskOK
<1>6. Pending' \in Nat
  BY <1>1 DEF AccountingInv, CycleOK, Pending
<1> QED BY <1>2, <1>3, <1>5, <1>6, CaptureTables, EntriesOf

LEMMA CaptureStartCycle ==
  ASSUME AccountingInv, CaptureInv, StartCycle
  PROVE  CaptureInv'
<1>1. Next
  BY DEF Next
<1>2. /\ Bound \in Nat /\ Bound' \in Nat /\ Bound <= Bound' /\ HostMetrics' = HostMetrics
  BY <1>1, StepFacts
<1>3. BaselineInv /\ RestOK /\ RollingOK(rolling)
  BY DEF CaptureInv, AccountingInv
<1> DEFINE fresh == reseed \/ rolling.baseline = None \/ ~rolling.initialized
<1>4. /\ cycle.pc = "idle" /\ cycle'.pc = "query" /\ cycle'.fresh = fresh
      /\ UNCHANGED <<rolling, seen, days, disk>> /\ reseed' = FALSE
  BY DEF StartCycle
<1>5. fresh <=> reseed \/ rolling.baseline = None
  BY <1>3 DEF BaselineInv, BaselineOK
<1> HIDE DEF fresh
<1>6. BaselineInv'
  BY <1>2, <1>3, <1>4, <1>5 DEF BaselineInv, BaselineOK, RestOK
<1>7. Floor <= Floor'
  <2>1. Floor \in Nat
    BY FloorType, <1>3 DEF BaselineInv
  <2>2. CASE fresh
    BY <2>2, <1>2, <1>4, <1>5 DEF Floor
  <2>3. CASE ~fresh
    BY <2>1, <2>3, <1>2, <1>4, <1>5 DEF Floor
  <2> QED BY <2>2, <2>3
<1>8. StillReached
  BY <1>4 DEF StillReached
<1>9. ASSUME Remembered' PROVE CapturesPaid'
  <2>1. Pending' = 0 /\ Pending = 0
    BY <1>4 DEF Pending
  <2>2. CaptureSum(days'["captured"]) + Pending' <= Cardinality(Paid')
        /\ CaptureSum(disk'.days["captured"]) <= Cardinality(Paid')
    BY <1>1, <1>4, <1>6, <1>7, <1>8, <1>9, <2>1, PaidStep DEF CapturesPaid
  <2> QED BY <2>2 DEF CapturesPaid
<1> QED BY <1>6, <1>9 DEF CaptureInv

(* A baseline forgets flows, but then every detection so far is paid for.  *)
LEMMA CaptureDetailed ==
  ASSUME AccountingInv, CaptureInv, QueryDetailed \/ DedupeFails
  PROVE  CaptureInv'
<1>1. Next
  BY DEF Next
<1>2. /\ EnvOK /\ Unchanging /\ AccountingInv' /\ Bound \in Nat /\ Bound' \in Nat /\ Bound <= Bound'
      /\ Bound <= now /\ HostMetrics' = HostMetrics
  BY <1>1, StepFacts
<1>3. BaselineInv /\ CycleOK /\ SeenOK(seen, applied, Bound)
  BY DEF CaptureInv, AccountingInv
<1>4. /\ cycle.pc = "query" /\ cycle'.pc = "account" /\ cycle'.fresh = cycle.fresh /\ cycle'.at = cycle.at
      /\ cycle'.ok = TRUE
      /\ UNCHANGED <<rolling, reseed, days, disk>>
  BY DEF QueryDetailed, DedupeFails, Answered
<1>5. Bound = cycle.at /\ Bound' = Bound
  BY <1>4 DEF Bound
<1>6. BaselineInv'
  BY <1>2, <1>3, <1>4 DEF BaselineInv, BaselineOK
<1>7. Floor <= Floor' /\ (cycle.fresh => Floor' = Bound)
  <2>1. Floor <= Floor'
    BY <1>2, <1>3, <1>4, FloorSame
  <2> QED BY <2>1, <1>4, <1>5 DEF Floor
<1>8. CASE cycle.fresh
  <2>1. StillReached
    BY <1>7, <1>8 DEF StillReached
  <2>2. Pending' = 0
    BY <1>4, <1>8 DEF Pending
  <2>3. ASSUME Remembered' PROVE CapturesPaid'
    <3>1. CaptureSum(days'["captured"]) + Pending' <= Cardinality(Paid')
          /\ CaptureSum(disk'.days["captured"]) <= Cardinality(Paid')
      BY <1>1, <1>4, <1>6, <1>7, <2>1, <2>2, <2>3, PaidStep DEF CapturesPaid
    <3> QED BY <3>1 DEF CapturesPaid
  <2> QED BY <1>6, <2>3 DEF CaptureInv
<1>9. CASE ~cycle.fresh /\ DedupeFails
  <2>1. seen' = seen /\ cycle'.count = 0
    BY <1>9 DEF DedupeFails, Answered, ClearSeen
  <2>2. StillReached
    BY <2>1 DEF StillReached
  <2>3. Pending' = 0
    BY <1>4, <2>1 DEF Pending
  <2>4. ASSUME Remembered' PROVE CapturesPaid'
    <3>1. CaptureSum(days'["captured"]) + Pending' <= Cardinality(Paid')
          /\ CaptureSum(disk'.days["captured"]) <= Cardinality(Paid')
      BY <1>1, <1>4, <1>6, <1>7, <2>2, <2>3, <2>4, PaidStep DEF CapturesPaid
    <3> QED BY <3>1 DEF CapturesPaid
  <2> QED BY <1>6, <2>4 DEF CaptureInv
<1>10. CASE ~cycle.fresh /\ QueryDetailed
  <2>1. /\ seen' = Known(seen, Asked, cycle.at)
        /\ cycle'.count = Cardinality(NewFlows(seen, Asked, cycle.at))
    <3>1. ClearSeen = seen
      BY <1>10 DEF ClearSeen
    <3> QED BY <3>1, <1>10 DEF QueryDetailed, Answered
  <2>2. /\ Asked \in SUBSET (1 .. cycle.at) /\ cycle.at \in Nat
        /\ rolling.last <= cycle.from /\ ~reseed /\ rolling.baseline # None
        /\ cycle.from \in Nat
    BY <1>2, <1>3, <1>4, <1>10, AskedTimes DEF CycleOK
  <2>3. SeenOK(seen, applied, cycle.at)
    BY <1>3, <1>5
  <2>4. \A f \in DOMAIN seen : seen[f].last > cycle.at - Window =>
          f \in DOMAIN seen' /\ seen[f].last <= seen'[f].last
    <3> SUFFICES ASSUME NEW f \in DOMAIN seen, seen[f].last > cycle.at - Window
                 PROVE  f \in DOMAIN seen' /\ seen[f].last <= seen'[f].last
      OBVIOUS
    <3>1. f \in Kept(seen, cycle.at) /\ seen[f].last \in Nat
      BY <2>3 DEF Kept, SeenOK
    <3>2. f \in DOMAIN seen'
      BY <2>1, <3>1 DEF Known
    <3>3. CASE f \in Answer(Asked) /\ Supersedes(Sample(f, Asked), seen[f])
      <4>1. seen'[f] = Sample(f, Asked)
        BY <2>1, <3>1, <3>2, <3>3 DEF Known
      <4>2. Sample(f, Asked).last \in Nat
        BY <1>2, <2>2, <3>3, SampleOf
      <4> QED BY <3>1, <3>2, <3>3, <4>1, <4>2 DEF Supersedes
    <3>4. CASE ~(f \in Answer(Asked) /\ Supersedes(Sample(f, Asked), seen[f]))
      <4>1. seen'[f] = seen[f]
        BY <2>1, <3>1, <3>2, <3>4 DEF Known
      <4> QED BY <3>1, <3>2, <4>1
    <3> QED BY <3>3, <3>4
  <2>5. StillReached
    <3> SUFFICES ASSUME NEW f \in DOMAIN seen, NEW t \in 1 .. Bound, t <= seen[f].last
                 PROVE  t <= Bound' - Window \/ (f \in DOMAIN seen' /\ t <= seen'[f].last)
      BY DEF StillReached
    <3>1. seen[f].last \in Nat /\ (f \in DOMAIN seen' => seen'[f].last \in Nat)
      <4>1. SeenOK(seen, applied, Bound)'
        BY <1>2 DEF AccountingInv
      <4>2. f \in DOMAIN seen' => seen'[f].last \in 1 .. Bound'
        BY <4>1 DEF SeenOK
      <4> QED BY <1>2, <1>3, <4>2 DEF SeenOK
    <3> QED BY <1>2, <1>5, <2>4, <3>1, Bounds
  <2>6. Floor <= cycle.from
    <3>1. Floor = IF HostMetrics THEN rolling.last ELSE rolling.baseline.at
      BY <1>10, <2>2 DEF Floor
    <3>2. rolling.baseline.at \in 0 .. rolling.last /\ rolling.last \in Nat
      BY <1>3, <2>2, Bounds DEF BaselineInv, BaselineOK, AccountingInv, RollingOK
    <3> QED BY <2>2, <3>1, <3>2
  <2>7. Cardinality(Paid) + Cardinality(NewFlows(seen, Asked, cycle.at)) <= Cardinality(Paid')
    BY <1>2, <1>4, <1>5, <1>3, <1>6, <1>7, <2>1, <2>5, <2>6, NewFlowsPaid DEF BaselineInv
  <2>8. Pending' = Cardinality(NewFlows(seen, Asked, cycle.at)) /\ Pending = 0
    BY <1>4, <1>10, <2>1 DEF Pending
  <2>9. ASSUME Remembered' PROVE CapturesPaid'
    <3>1. CaptureSum(days'["captured"]) + Pending' <= Cardinality(Paid')
          /\ CaptureSum(disk'.days["captured"]) <= Cardinality(Paid')
      BY <1>1, <1>4, <1>6, <1>7, <2>5, <2>7, <2>8, <2>9, PaidStep DEF CapturesPaid
    <3> QED BY <3>1 DEF CapturesPaid
  <2> QED BY <1>6, <2>9 DEF CaptureInv
<1>11. cycle.fresh \in BOOLEAN
  BY <1>3, <1>4 DEF CycleOK
<1> QED BY <1>8, <1>9, <1>10, <1>11

LEMMA CaptureAccount ==
  ASSUME AccountingInv, CaptureInv, Account
  PROVE  CaptureInv'
<1>1. Next
  BY DEF Next
<1>2. /\ EnvOK /\ AccountingInv' /\ Bound \in Nat /\ Bound' \in Nat /\ HostMetrics' = HostMetrics
  BY <1>1, StepFacts
<1>3. BaselineInv /\ CycleOK /\ SeenOK(seen, applied, Bound) /\ RollingOK(rolling)
  BY DEF CaptureInv, AccountingInv
<1>4. /\ cycle.pc = "account" /\ cycle'.pc \in {"daily", "hosts", "previous"} /\ cycle'.at = cycle.at
      /\ rolling' = RollingAfter /\ reseed' = reseed
  BY AccountIs
<1>5. /\ Bound = cycle.at /\ Bound' = cycle.at /\ cycle.at \in Nat
      /\ rolling.last \in Nat /\ rolling.last < cycle.at
      /\ cycle.ok \in BOOLEAN /\ cycle.fresh \in BOOLEAN /\ cycle.count \in Nat
      /\ cycle.full = ~rolling.initialized
      /\ ~cycle.fresh => ~reseed /\ rolling.baseline # None /\ rolling.initialized
  BY <1>2, <1>3, <1>4, Bounds DEF Bound, CycleOK, RollingOK
<1>6. /\ rolling'.initialized = TRUE /\ rolling'.last = cycle.at
      /\ rolling'.baseline = IF cycle.ok /\ cycle.fresh THEN [count |-> cycle.count, at |-> cycle.at]
                             ELSE rolling.baseline
  <2>1. cycle.full => rolling.baseline = NoRolling.baseline
    BY <1>3, <1>5 DEF BaselineInv, BaselineOK, NoRolling
  <2> QED BY <1>4, <2>1 DEF RollingAfter
<1>8. /\ DOMAIN TablesAfter = Tables /\ IsTally(TablesAfter["captured"])
      /\ disk'.rolling = disk.rolling
      /\ \/ CaptureSum(disk'.days["captured"]) <= CaptureSum(TablesAfter["captured"])
         \/ disk'.days["captured"] = disk.days["captured"]
  <2>1. DOMAIN TablesAfter = Tables /\ IsTally(TablesAfter["captured"])
    BY <1>4, TablesAfterOK DEF DaysOK, Tables
  <2> QED BY <2>1, AccountIs, SavePrunedCaptures
<1>9. BaselineInv'
  <2>1. BaselineOK(rolling)'
    BY <1>3, <1>5, <1>6 DEF BaselineInv, BaselineOK
  <2>2. ~HostMetrics /\ disk.rolling.baseline # None => rolling'.baseline = disk.rolling.baseline
    BY <1>3, <1>4, <1>6 DEF BaselineInv
  <2> QED BY <1>2, <1>3, <1>4, <1>8, <2>1, <2>2 DEF BaselineInv, BaselineOK
<1>10. Floor <= Floor' /\ (cycle.fresh => Floor = Bound)
  <2>1. rolling.baseline # None => rolling.baseline.at \in Nat /\ rolling.baseline.at <= cycle.at
    BY <1>3, <1>5 DEF BaselineInv, BaselineOK
  <2>2. Floor' = IF reseed \/ rolling'.baseline = None THEN cycle.at
                 ELSE IF HostMetrics THEN cycle.at ELSE rolling'.baseline.at
    BY <1>2, <1>4, <1>5, <1>6 DEF Floor
  <2>3. CASE cycle.fresh
    <3>1. Floor = cycle.at
      BY <1>4, <1>5, <2>3 DEF Floor
    <3>2. ~HostMetrics => rolling.baseline = None
      BY <1>3, <1>4, <2>3 DEF BaselineInv
    <3>3. Floor' = cycle.at
      BY <1>6, <2>2, <2>3, <3>2
    <3> QED BY <1>5, <3>1, <3>3
  <2>4. CASE ~cycle.fresh
    <3>1. Floor = IF HostMetrics THEN rolling.last ELSE rolling.baseline.at
      BY <1>5, <2>4 DEF Floor
    <3> QED BY <1>5, <1>6, <2>1, <2>2, <2>4, <3>1
  <2> QED BY <1>5, <2>3, <2>4
<1>11. StillReached
  <2> SUFFICES ASSUME NEW f \in DOMAIN seen, NEW t \in 1 .. Bound, t <= seen[f].last
               PROVE  t <= Floor' \/ t <= Bound' - Window \/ (f \in DOMAIN seen' /\ t <= seen'[f].last)
    BY DEF StillReached
  <2>1. CASE cycle.fresh
    <3>1. Floor' \in Int
      <4>1. RollingOK(rolling)'
        BY <1>2 DEF AccountingInv
      <4>2. rolling'.baseline # None => rolling'.baseline.at \in 0 .. rolling'.last
        BY <1>9 DEF BaselineInv, BaselineOK
      <4> QED BY <1>2, <1>5, <1>6, <4>2 DEF Floor
    <3> QED BY <1>2, <1>10, <2>1, <3>1
  <2>2. CASE ~cycle.fresh
    <3>1. KnownBefore = seen
      BY <1>5, <2>2 DEF KnownBefore
    <3>2. CASE f \in Kept(seen, cycle.at)
      BY <3>1, <3>2, AccountIs
    <3>3. CASE f \notin Kept(seen, cycle.at)
      <4>1. seen[f].last \in Nat
        BY <1>3 DEF SeenOK
      <4> QED BY <1>5, <3>3, <4>1, Bounds DEF Kept
    <3> QED BY <3>2, <3>3
  <2> QED BY <1>5, <2>1, <2>2
<1>12. ASSUME Remembered' PROVE CapturesPaid'
  <2>1. CountOf \in Nat /\ CountOf = Pending
    BY <1>4, <1>5 DEF CountOf, Counted1, Pending
  <2>2. DayOf(cycle.at) \in DaySet
    <3>1. cycle.at \in Times
      BY <1>2, <1>4, Bounds DEF AccountingInv, CycleOK, EnvOK, Times
    <3> QED BY <3>1, DayInSet
  <2>3. CaptureSum(TablesAfter["captured"]) <= CaptureSum(days["captured"]) + CountOf
    <3>1. TablesAfter["captured"] = AddCount(days.captured, DayOf(cycle.at), Counted1, CountOf)
      BY DEF TablesAfter
    <3> QED BY <2>1, <2>2, <3>1, CaptureTables, AddedCaptures
  <2>4. CaptureSum(days'["captured"]) <= CaptureSum(TablesAfter["captured"])
    <3>1. CaptureSum(Pruned(TablesAfter, cycle.at)["captured"]) <= CaptureSum(TablesAfter["captured"])
      BY <1>8, PrunedCaptures
    <3> QED BY <3>1, AccountIs
  <2>5. Pending' = 0
    BY <1>4 DEF Pending
  <2>6. CaptureSum(TablesAfter["captured"]) \in Nat
    BY <1>8, EntriesOf
  <2>7. /\ CapturesPaid
        /\ Cardinality(Paid) \in Nat /\ Cardinality(Paid') \in Nat
        /\ Cardinality(Paid) <= Cardinality(Paid')
        /\ CaptureSum(days["captured"]) \in Nat /\ CaptureSum(disk.days["captured"]) \in Nat
        /\ CaptureSum(days'["captured"]) \in Nat /\ CaptureSum(disk'.days["captured"]) \in Nat
    BY <1>1, <1>9, <1>10, <1>11, <1>12, PaidStep
  <2>8. CaptureSum(days["captured"]) + CountOf <= Cardinality(Paid)
    BY <2>1, <2>7 DEF CapturesPaid
  <2>9. CaptureSum(days'["captured"]) + Pending' <= Cardinality(Paid')
    BY <2>1, <2>3, <2>4, <2>5, <2>6, <2>7, <2>8
  <2>10. CaptureSum(disk'.days["captured"]) <= Cardinality(Paid')
    <3>1. CASE disk'.days["captured"] = disk.days["captured"]
      BY <2>7, <3>1 DEF CapturesPaid
    <3>2. CASE CaptureSum(disk'.days["captured"]) <= CaptureSum(TablesAfter["captured"])
      BY <2>1, <2>3, <2>6, <2>7, <2>8, <3>2
    <3> QED BY <1>8, <3>1, <3>2
  <2> QED BY <2>9, <2>10 DEF CapturesPaid
<1> QED BY <1>9, <1>12 DEF CaptureInv

(* A restart reads what was saved, which was captured before.  SQLite      *)
(* remembers the flows; in memory nothing more is claimed.                 *)
LEMMA CaptureRestart ==
  ASSUME AccountingInv, CaptureInv, Restart
  PROVE  CaptureInv'
<1>1. Next
  BY DEF Next
<1>2. /\ EnvOK /\ AccountingInv' /\ Bound \in Nat /\ Bound <= now /\ HostMetrics' = HostMetrics
      /\ now' = now
  BY <1>1, StepFacts DEF Restart, env
<1>3. BaselineInv /\ CycleOK /\ RestOK /\ DiskOK(disk, settled, late, Bound)
  BY DEF CaptureInv, AccountingInv
<1>4. /\ cycle'.pc = "idle" /\ reseed' = HostMetrics /\ days' = disk.days /\ disk' = disk
      /\ rolling' = [disk.rolling EXCEPT !.buckets = Recent(@, now)]
  BY DEF Restart, Idle
<1>5. /\ rolling'.baseline = disk.rolling.baseline /\ rolling'.last = disk.rolling.last
      /\ rolling'.initialized = disk.rolling.initialized
  <2>1. disk.rolling \in [initialized : BOOLEAN, last : 0 .. MaxTime,
                          baseline : {disk.rolling.baseline}, buckets : {disk.rolling.buckets}]
    BY <1>3 DEF DiskOK, RollingOK
  <2> QED BY <1>4, <2>1
<1>6. BaselineInv'
  BY <1>2, <1>3, <1>4, <1>5 DEF BaselineInv, BaselineOK
<1>7. Floor <= Floor'
  <2>1. Bound' = now
    BY <1>2, <1>4 DEF Bound
  <2>2. Floor \in Nat /\ Floor <= now
    BY <1>3, FloorType DEF BaselineInv
  <2>3. CASE HostMetrics \/ disk.rolling.baseline = None
    <3>1. Floor' = now
      BY <1>4, <1>5, <2>1, <2>3 DEF Floor
    <3> QED BY <2>2, <3>1
  <2>4. CASE ~(HostMetrics \/ disk.rolling.baseline = None)
    <3>1. rolling.baseline = disk.rolling.baseline /\ ~reseed
      BY <1>3, <2>4 DEF BaselineInv, RestOK
    <3>2. ~(cycle.pc \in {"query", "account"} /\ cycle.fresh)
      BY <1>3, <2>4, <3>1 DEF BaselineInv
    <3>3. Floor = rolling.baseline.at /\ Floor' = rolling.baseline.at
      BY <1>2, <1>4, <1>5, <2>4, <3>1, <3>2 DEF Floor
    <3> QED BY <2>2, <3>3
  <2> QED BY <2>3, <2>4
<1>8. ASSUME Remembered' PROVE CapturesPaid'
  <2>1. Backend = "sqlite"
    <3>1. spent'["crashes"] = spent["crashes"] + 1 /\ spent["crashes"] \in Nat
      BY DEF Restart, Meet, AccountingInv, EnvOK, Troubles
    <3>2. mode' = mode
      BY DEF Restart, env
    <3> QED BY <1>8, <3>1, <3>2 DEF Remembered, Backend
  <2>2. seen' = seen
    BY <2>1 DEF Restart
  <2>3. StillReached
    BY <2>2 DEF StillReached
  <2>4. Pending' = 0
    BY <1>4 DEF Pending
  <2>5. /\ CapturesPaid
        /\ Cardinality(Paid) \in Nat /\ Cardinality(Paid') \in Nat
        /\ Cardinality(Paid) <= Cardinality(Paid')
        /\ CaptureSum(disk.days["captured"]) \in Nat
    BY <1>1, <1>6, <1>7, <1>8, <2>3, PaidStep
  <2>6. CaptureSum(disk.days["captured"]) <= Cardinality(Paid')
    BY <2>5 DEF CapturesPaid
  <2>7. days'["captured"] = disk.days["captured"] /\ disk'.days["captured"] = disk.days["captured"]
    BY <1>4
  <2>8. CaptureSum(days'["captured"]) + Pending' <= Cardinality(Paid')
        /\ CaptureSum(disk'.days["captured"]) <= Cardinality(Paid')
    BY <2>4, <2>5, <2>6, <2>7
  <2> QED BY <2>8 DEF CapturesPaid
<1> QED BY <1>6, <1>8 DEF CaptureInv

LEMMA CaptureInit ==
  ASSUME Init
  PROVE  CaptureInv
<1>1. /\ rolling = NoRolling /\ disk.rolling = NoRolling /\ cycle.pc = "idle"
      /\ days["captured"] = Empty /\ disk.days["captured"] = Empty
  BY DEF Init, Idle, NoDays
<1>2. BaselineInv
  BY <1>1 DEF BaselineInv, BaselineOK, NoRolling
<1>3. Pending = 0
  BY <1>1 DEF Pending
<1>4. CaptureSum(Empty) = 0
  <2>1. UNION {{k} \X (1 .. [d \in DOMAIN Empty |-> Entry(Empty, d)][k]) :
                 k \in DOMAIN [d \in DOMAIN Empty |-> Entry(Empty, d)]} = {}
    BY DEF Empty
  <2> QED BY <2>1, FS_EmptySet DEF CaptureSum, Total
<1>5. Cardinality(Paid) \in Nat
  <2>1. AccountingInv
    BY InitInv
  <2> QED BY <2>1, DetectionsFinite DEF Paid, AccountingInv
<1> QED BY <1>1, <1>2, <1>3, <1>4, <1>5 DEF CaptureInv, CapturesPaid

LEMMA CaptureNext ==
  ASSUME AccountingInv, CaptureInv, [Next]_vars
  PROVE  CaptureInv'
<1>1. CASE UNCHANGED vars
  <2>1. /\ UNCHANGED <<mode, detected, now, rolling, seen, days, disk, reseed, cycle, spent>>
    BY <1>1 DEF vars, env, store
  <2>2. Paid' = Paid /\ Pending' = Pending /\ (Remembered' <=> Remembered)
    BY <2>1 DEF Paid, Reached, Detections, Floor, Bound, HostMetrics, Pending, Remembered, Backend
  <2>3. BaselineInv' <=> BaselineInv
    BY <2>1 DEF BaselineInv, BaselineOK, HostMetrics
  <2>4. CapturesPaid' <=> CapturesPaid
    BY <2>1, <2>2 DEF CapturesPaid
  <2> QED BY <2>2, <2>3, <2>4 DEF CaptureInv
<1>2. CASE Next
  BY <1>2, CaptureStartCycle, CaptureQueryFails, CaptureCountOnly, CaptureDetailed,
     CaptureAccount, CaptureSaves, CaptureReconciles, CaptureRestart DEF Next
<1> QED BY <1>1, <1>2

(* The captures never exceed the detections that paid for them.            *)
LEMMA CapturedOnceHolds ==
  ASSUME AccountingInv, CaptureInv
  PROVE  CapturedOnce
<1> SUFFICES ASSUME Remembered
             PROVE  CaptureSum(days["captured"]) <= Cardinality(Detections(1 .. now))
  BY DEF CapturedOnce, Remembered, CaptureSum
<1>1. CapturesPaid
  BY DEF CaptureInv
<1>2. /\ CaptureSum(days["captured"]) \in Nat /\ Pending \in Nat
  BY CaptureTables
<1>3. Bound \in Nat /\ Bound <= now /\ now \in Nat
  BY FloorType DEF CaptureInv, BaselineInv
<1>4. Paid \subseteq Detections(1 .. now)
  <2>1. 1 .. Bound \subseteq 1 .. now
    BY <1>3
  <2> QED BY <2>1 DEF Paid, Detections
<1>5. /\ Cardinality(Detections(1 .. now)) \in Nat /\ Cardinality(Paid) \in Nat
      /\ Cardinality(Paid) <= Cardinality(Detections(1 .. now))
  BY <1>4, DetectionsFinite DEF AccountingInv
<1> QED BY <1>1, <1>2, <1>5 DEF CapturesPaid

-----------------------------------------------------------------------------
(* The 24-hour hosts: the rows from a time on, with those about to be      *)
(* added, are covered by the detections their windows asked for.  These do *)
(* not overlap: a restart clears the rows before it asks again.            *)
DetectedIn(flows, ts) == {e \in Flows \X (ts \cap DOMAIN flows) : e[1] \in flows[e[2]]}
RowsFrom(rows, s) == Total(Drop(rows, {t \in DOMAIN rows : t < s}))

RowsOK(rows, last) == \A t \in DOMAIN rows : t \in Times /\ rows[t] \in Nat /\ t <= last
RowsPaid(rows, pending, flows, top) ==
  \A s \in Int : s <= top =>
    RowsFrom(rows, s) + pending <= Cardinality(DetectedIn(flows, s - Window + 1 .. top))

HostsLast == IF reseed THEN now ELSE rolling.last
HostsTop == IF cycle.pc = "account" THEN cycle.at ELSE HostsLast
HostsPending == IF cycle.pc = "account" THEN cycle.add ELSE 0
HostsInv ==
  /\ cycle.pc \in {"query", "account"} => ~reseed
  /\ RowsOK(hosts5m, HostsLast)
  /\ ~HostMetrics => DOMAIN hosts5m = {} /\ HostsPending = 0
  /\ RowsPaid(hosts5m, HostsPending, detected, HostsTop)

AllFlows == [1 .. MaxTime -> SUBSET Flows]

LEMMA DetectedFinite ==
  ASSUME NEW flows \in AllFlows, NEW ts
  PROVE  /\ IsFiniteSet(DetectedIn(flows, ts)) /\ Cardinality(DetectedIn(flows, ts)) \in Nat
         /\ \A S \in SUBSET DetectedIn(flows, ts) :
              IsFiniteSet(S) /\ Cardinality(S) \in Nat
              /\ Cardinality(S) <= Cardinality(DetectedIn(flows, ts))
<1>1. IsFiniteSet(Flows \X (1 .. MaxTime))
  BY FlowTimesFinite
<1>2. DetectedIn(flows, ts) \subseteq Flows \X (1 .. MaxTime)
  BY DEF DetectedIn, AllFlows
<1>3. IsFiniteSet(DetectedIn(flows, ts))
  BY <1>1, <1>2, FS_Subset
<1> QED BY <1>3, FS_Subset, FS_CardinalityType

LEMMA RowsType ==
  ASSUME NEW rows, NEW last \in Int, RowsOK(rows, last), NEW s \in Int
  PROVE  /\ RowsFrom(rows, s) \in Nat
         /\ s > last => RowsFrom(rows, s) = 0
         /\ IsFiniteSet(DOMAIN rows)
         /\ \A k \in DOMAIN rows : rows[k] \in Nat
<1>1. IsFiniteSet(Times)
  BY Bounds, FS_Interval DEF Times
<1>2. IsFiniteSet(DOMAIN rows) /\ \A k \in DOMAIN rows : rows[k] \in Nat
  BY <1>1, FS_Subset DEF RowsOK
<1> DEFINE new == Drop(rows, {t \in DOMAIN rows : t < s})
<1>3. DOMAIN new \subseteq DOMAIN rows /\ \A k \in DOMAIN new : new[k] = rows[k] /\ ~(k < s)
  BY DEF Drop
<1> HIDE DEF new
<1>4. IsFiniteSet(DOMAIN new) /\ \A k \in DOMAIN new : new[k] \in Int
  BY <1>2, <1>3, FS_Subset
<1>5. Total(new) \in Nat /\ Total(new) = Cardinality(Cells(new))
  BY <1>4, TotalType
<1>6. ASSUME s > last PROVE Total(new) = 0
  <2>1. DOMAIN new = {}
    <3> SUFFICES ASSUME NEW k \in DOMAIN new PROVE FALSE
      OBVIOUS
    <3>1. k \in Times /\ k <= last /\ ~(k < s)
      BY <1>3 DEF RowsOK
    <3>2. k \in Int
      BY <3>1, Bounds DEF Times
    <3> QED BY <1>6, <3>1, <3>2
  <2>2. Cells(new) = {}
    BY <2>1 DEF Cells
  <2> QED BY <1>5, <2>2, FS_EmptySet
<1> QED BY <1>2, <1>5, <1>6 DEF RowsFrom, new

LEMMA NoRows ==
  ASSUME NEW rows, DOMAIN rows = {}, NEW last \in Int, NEW s \in Int
  PROVE  RowsOK(rows, last) /\ RowsFrom(rows, s) = 0
<1>1. RowsOK(rows, last)
  BY DEF RowsOK
<1>2. Cells(Drop(rows, {t \in DOMAIN rows : t < s})) = {}
  BY DEF Cells, Drop
<1> QED BY <1>1, <1>2, FS_EmptySet DEF RowsFrom, Total, Cells

(* Time passes, or the window is about to be asked for again.              *)
LEMMA RowsKept ==
  ASSUME NEW rows, NEW last \in Int, RowsOK(rows, last),
         NEW top \in Int, last <= top, NEW top2 \in Int, top <= top2,
         NEW flows \in AllFlows, NEW flows2 \in AllFlows,
         \A t \in 1 .. MaxTime : t <= top => flows2[t] = flows[t],
         NEW p \in Nat, NEW p2 \in Nat, p2 = 0 \/ (p2 = p /\ top2 = top),
         RowsPaid(rows, p, flows, top)
  PROVE  RowsPaid(rows, p2, flows2, top2)
<1> SUFFICES ASSUME NEW s \in Int, s <= top2
             PROVE  RowsFrom(rows, s) + p2 <= Cardinality(DetectedIn(flows2, s - Window + 1 .. top2))
  BY DEF RowsPaid
<1> DEFINE after == DetectedIn(flows2, s - Window + 1 .. top2)
<1>1. Cardinality(after) \in Nat
  BY DetectedFinite
<1>2. RowsFrom(rows, s) \in Nat /\ (s > last => RowsFrom(rows, s) = 0)
  BY RowsType
<1>3. CASE s > top
  <2>1. RowsFrom(rows, s) = 0 /\ p2 = 0
    BY <1>2, <1>3
  <2> HIDE DEF after
  <2>2. RowsFrom(rows, s) + p2 <= Cardinality(after)
    BY <1>1, <2>1
  <2> QED BY <2>2 DEF after
<1>4. CASE s <= top
  <2> DEFINE before == DetectedIn(flows, s - Window + 1 .. top)
  <2>1. RowsFrom(rows, s) + p <= Cardinality(before)
    BY <1>4 DEF RowsPaid
  <2>2. before \subseteq after
    <3> SUFFICES ASSUME NEW e \in before PROVE e \in after
      OBVIOUS
    <3>1. e \in Flows \X ((s - Window + 1 .. top) \cap DOMAIN flows) /\ e[1] \in flows[e[2]]
      BY DEF DetectedIn
    <3>2. e[2] \in s - Window + 1 .. top /\ e[2] \in 1 .. MaxTime /\ s - Window + 1 \in Int
      BY <3>1, Bounds DEF AllFlows
    <3>3. e[2] \in s - Window + 1 .. top2 /\ flows2[e[2]] = flows[e[2]]
      BY <3>2
    <3>4. e[2] \in DOMAIN flows2
      BY <3>2 DEF AllFlows
    <3> QED BY <3>1, <3>3, <3>4 DEF DetectedIn
  <2>3. Cardinality(before) \in Nat /\ Cardinality(before) <= Cardinality(after)
    BY <2>2, DetectedFinite
  <2> HIDE DEF before, after
  <2>4. RowsFrom(rows, s) + p2 <= Cardinality(after)
    BY <1>1, <1>2, <2>1, <2>3
  <2> QED BY <2>4 DEF after
<1> QED BY <1>3, <1>4

(* Numbers of connections that no flow exceeds add up to no more than the  *)
(* detections there are.                                                   *)
LEMMA HitsPay ==
  ASSUME EnvOK, NEW at \in Nat, NEW ts \in SUBSET (1 .. at),
         NEW fn, DOMAIN fn = Answer(ts),
         \A f \in Answer(ts) : fn[f] \in Int /\ fn[f] <= Cardinality(Hits(f, ts))
  PROVE  Total(fn) <= Cardinality(DetectedIn(detected, ts))
<1> DEFINE some == DetectedIn(detected, ts)
           nth == [f \in Answer(ts) |->
                     CHOOSE b : b \in Bijection(1 .. Cardinality(Hits(f, ts)), Hits(f, ts))]
           cell == [c \in Cells(fn) |-> <<c[1], nth[c[1]][c[2]]>>]
<1>1. \A f \in Answer(ts) : /\ Cardinality(Hits(f, ts)) \in Nat
                            /\ nth[f] \in Bijection(1 .. Cardinality(Hits(f, ts)), Hits(f, ts))
  <2> SUFFICES ASSUME NEW f \in Answer(ts)
               PROVE  /\ Cardinality(Hits(f, ts)) \in Nat
                      /\ nth[f] \in Bijection(1 .. Cardinality(Hits(f, ts)), Hits(f, ts))
    OBVIOUS
  <2>1. IsFiniteSet(Hits(f, ts))
    BY SampleOf
  <2>2. /\ Cardinality(Hits(f, ts)) \in Nat
        /\ \E b : b \in Bijection(1 .. Cardinality(Hits(f, ts)), Hits(f, ts))
    BY <2>1, FS_CardinalityType DEF ExistsBijection
  <2> QED BY <2>2
<1> HIDE DEF nth
<1>2. \A c \in Cells(fn) : /\ c = <<c[1], c[2]>> /\ c[1] \in Answer(ts)
                           /\ c[2] \in 1 .. Cardinality(Hits(c[1], ts))
  <2> SUFFICES ASSUME NEW f \in Answer(ts), NEW i \in 1 .. fn[f]
               PROVE  i \in 1 .. Cardinality(Hits(f, ts))
    BY DEF Cells
  <2> QED BY <1>1
<1>3. \A c \in Cells(fn) : nth[c[1]][c[2]] \in Hits(c[1], ts)
  BY <1>1, <1>2 DEF Bijection, Injection
<1>4. cell \in [Cells(fn) -> some]
  <2> SUFFICES ASSUME NEW c \in Cells(fn) PROVE <<c[1], nth[c[1]][c[2]]>> \in some
    OBVIOUS
  <2>1. c[1] \in Flows
    BY <1>2 DEF Answer
  <2> QED BY <1>3, <2>1 DEF Hits, DetectedIn
<1>5. \A c, e \in Cells(fn) : cell[c] = cell[e] => c = e
  <2> SUFFICES ASSUME NEW c \in Cells(fn), NEW e \in Cells(fn), cell[c] = cell[e] PROVE c = e
    OBVIOUS
  <2>1. c[1] = e[1] /\ nth[c[1]][c[2]] = nth[e[1]][e[2]]
    OBVIOUS
  <2>2. nth[c[1]] \in Injection(1 .. Cardinality(Hits(c[1], ts)), Hits(c[1], ts))
    BY <1>1, <1>2 DEF Bijection
  <2>3. c[2] = e[2]
    BY <1>2, <2>1, <2>2 DEF Injection, IsInjective
  <2> QED BY <1>2, <2>1, <2>3
<1>6. cell \in Injection(Cells(fn), some)
  <2>1. DOMAIN cell = Cells(fn)
    OBVIOUS
  <2> HIDE DEF cell
  <2> QED BY <1>4, <1>5, <2>1 DEF Injection, IsInjective
<1>7. detected \in AllFlows
  BY DEF EnvOK, AllFlows
<1>8. IsFiniteSet(some)
  BY <1>7, DetectedFinite
<1> HIDE DEF cell, some
<1>9. Cardinality(Cells(fn)) <= Cardinality(some)
  BY <1>6, <1>8, FS_Injection
<1> QED BY <1>9 DEF some, Total, Cells

(* The answer of a window above the rows pays for what it will add.        *)
LEMMA RowsAnswered ==
  ASSUME NEW rows, NEW last \in Int, NEW flows \in AllFlows, RowsPaid(rows, 0, flows, last),
         RowsOK(rows, last), NEW from \in Int, NEW at \in Int, at - Window <= from, from < at,
         NEW p \in Nat, p <= Cardinality(DetectedIn(flows, from + 1 .. at)), last < at,
         p = 0 \/ DOMAIN rows = {} \/ last <= from
  PROVE  RowsPaid(rows, p, flows, at)
<1> SUFFICES ASSUME NEW s \in Int, s <= at
             PROVE  RowsFrom(rows, s) + p <= Cardinality(DetectedIn(flows, s - Window + 1 .. at))
  BY DEF RowsPaid
<1> DEFINE all == DetectedIn(flows, s - Window + 1 .. at)
           new == DetectedIn(flows, from + 1 .. at)
           before == DetectedIn(flows, s - Window + 1 .. last)
<1>1. RowsFrom(rows, s) \in Nat /\ (s > last \/ DOMAIN rows = {} => RowsFrom(rows, s) = 0)
  BY RowsType, NoRows
<1>2. /\ IsFiniteSet(all) /\ Cardinality(all) \in Nat /\ IsFiniteSet(new) /\ Cardinality(new) \in Nat
      /\ IsFiniteSet(before) /\ Cardinality(before) \in Nat
  BY DetectedFinite
<1>3. new \subseteq all
  <2>1. from + 1 .. at \subseteq s - Window + 1 .. at
    BY Bounds
  <2> QED BY <2>1 DEF DetectedIn
<1>4. before \subseteq all
  <2>1. s - Window + 1 .. last \subseteq s - Window + 1 .. at
    BY Bounds
  <2> QED BY <2>1 DEF DetectedIn
<1>5. Cardinality(new) <= Cardinality(all) /\ Cardinality(before) <= Cardinality(all)
  BY <1>2, <1>3, <1>4, FS_Subset
<1>6. CASE RowsFrom(rows, s) = 0
  <2> HIDE DEF all, new
  <2>1. RowsFrom(rows, s) + p <= Cardinality(all)
    BY <1>2, <1>5, <1>6 DEF new
  <2> QED BY <2>1 DEF all
<1>7. CASE RowsFrom(rows, s) # 0
  <2>1. s <= last
    <3>1. ~(s > last)
      BY <1>1, <1>7
    <3> QED BY <3>1
  <2>2. RowsFrom(rows, s) <= Cardinality(before)
    BY <1>1, <2>1 DEF RowsPaid
  <2>3. CASE p = 0
    <3> HIDE DEF all, before
    <3>1. RowsFrom(rows, s) + p <= Cardinality(all)
      BY <1>1, <1>2, <1>5, <2>2, <2>3
    <3> QED BY <3>1 DEF all
  <2>4. CASE last <= from
    <3>1. before \cap new = {}
      <4>1. \A t \in s - Window + 1 .. last : t \notin from + 1 .. at
        BY <2>4, Bounds
      <4> QED BY <4>1 DEF DetectedIn
    <3>2. before \cup new \subseteq all
      BY <1>3, <1>4
    <3>3. Cardinality(before \cap new) = 0
      BY <3>1, FS_EmptySet
    <3> HIDE DEF all, before, new
    <3>4. Cardinality(before \cup new) <= Cardinality(all)
      BY <1>2, <3>2, FS_Subset
    <3>5. Cardinality(before \cup new) = Cardinality(before) + Cardinality(new) - Cardinality(before \cap new)
      BY <1>2, FS_Union
    <3>6. p <= Cardinality(new)
      BY DEF new
    <3>7. RowsFrom(rows, s) + p <= Cardinality(all)
      BY <1>1, <1>2, <2>2, <3>3, <3>4, <3>5, <3>6
    <3> QED BY <3>7 DEF all
  <2>5. ~(DOMAIN rows = {})
    BY <1>1, <1>7
  <2> QED BY <2>3, <2>4, <2>5
<1> QED BY <1>6, <1>7

(* The accounting adds the row of the cycle's time.                        *)
LEMMA RowsAdded ==
  ASSUME NEW rows, NEW last \in Int, RowsOK(rows, last), NEW at \in Times, last < at,
         NEW n \in Nat, NEW flows \in AllFlows, RowsPaid(rows, n, flows, at),
         NEW old, NEW new, new = Drop(Extend(rows, at, n), old)
  PROVE  RowsOK(new, at) /\ RowsPaid(new, 0, flows, at)
<1>1. at \in Int /\ at \in Nat
  BY Bounds DEF Times
<1>2. \A k \in DOMAIN rows : k \in Times /\ rows[k] \in Nat /\ k <= last /\ k \in Int /\ k < at
  BY <1>1, Bounds DEF RowsOK, Times
<1>3. \A k \in DOMAIN new : (k = at /\ new[k] = n) \/ (k # at /\ k \in DOMAIN rows /\ new[k] = rows[k])
  BY DEF Drop, Extend
<1>4. RowsOK(new, at)
  BY <1>1, <1>2, <1>3 DEF RowsOK
<1>5. RowsPaid(new, 0, flows, at)
  <2> SUFFICES ASSUME NEW s \in Int, s <= at
               PROVE  RowsFrom(new, s) + 0 <= Cardinality(DetectedIn(flows, s - Window + 1 .. at))
    BY DEF RowsPaid
  <2> DEFINE fn == Drop(rows, {t \in DOMAIN rows : t < s})
             gn == Drop(new, {t \in DOMAIN new : t < s})
  <2>1. /\ RowsFrom(rows, s) \in Nat /\ IsFiniteSet(DOMAIN rows)
        /\ RowsFrom(new, s) \in Nat /\ IsFiniteSet(DOMAIN new)
        /\ \A k \in DOMAIN new : new[k] \in Nat
    BY <1>1, <1>4, RowsType
  <2>2. /\ DOMAIN fn \subseteq DOMAIN rows /\ \A k \in DOMAIN fn : fn[k] = rows[k]
        /\ DOMAIN gn \subseteq DOMAIN new
        /\ \A k \in DOMAIN gn : gn[k] = new[k] /\ k \in DOMAIN new /\ ~(k < s)
        /\ \A k \in DOMAIN rows : ~(k < s) => k \in DOMAIN fn
    BY DEF Drop
  <2> HIDE DEF fn, gn
  <2>3. /\ IsFiniteSet(DOMAIN fn) /\ \A k \in DOMAIN fn : fn[k] \in Int
        /\ IsFiniteSet(DOMAIN gn) /\ \A k \in DOMAIN gn : gn[k] \in Int
    BY <1>2, <2>1, <2>2, FS_Subset
  <2>4. \A k \in DOMAIN gn : k # at => fn[k] = gn[k] /\ k \in DOMAIN fn
    BY <1>3, <2>2
  <2>5. at \notin DOMAIN fn /\ (at \in DOMAIN gn => gn[at] = n)
    BY <1>1, <1>2, <1>3, <2>2
  <2>6. Total(gn) <= Total(fn) + n
    BY <2>3, <2>4, <2>5, TotalPlus
  <2>7. RowsFrom(new, s) <= RowsFrom(rows, s) + n
    BY <2>6 DEF RowsFrom, fn, gn
  <2>8. Cardinality(DetectedIn(flows, s - Window + 1 .. at)) \in Nat
    BY DetectedFinite
  <2>9. RowsFrom(rows, s) + n <= Cardinality(DetectedIn(flows, s - Window + 1 .. at))
    BY DEF RowsPaid
  <2> QED BY <2>1, <2>7, <2>8, <2>9
<1> QED BY <1>4, <1>5

LEMMA NothingPaid ==
  ASSUME NEW rows, DOMAIN rows = {}, NEW last \in Int, NEW top \in Int, NEW flows \in AllFlows
  PROVE  RowsOK(rows, last) /\ RowsPaid(rows, 0, flows, top)
<1>1. RowsOK(rows, last)
  BY NoRows
<1>2. \A s \in Int : RowsFrom(rows, s) = 0
  BY NoRows
<1>3. \A s \in Int : Cardinality(DetectedIn(flows, s - Window + 1 .. top)) \in Nat
  BY DetectedFinite
<1>4. ASSUME NEW s \in Int
      PROVE  RowsFrom(rows, s) + 0 <= Cardinality(DetectedIn(flows, s - Window + 1 .. top))
  BY <1>2, <1>3
<1> QED BY <1>1, <1>4 DEF RowsPaid

(* The hosts, step by step                                                 *)
LEMMA HostTimes ==
  ASSUME AccountingInv
  PROVE  /\ HostsLast \in Int /\ HostsTop \in Int /\ HostsPending \in Nat /\ HostsTop <= now
         /\ now \in Int /\ detected \in AllFlows
         /\ rolling.last \in Int /\ rolling.last <= now /\ reseed \in BOOLEAN
         /\ ~reseed => HostsLast <= HostsTop
         /\ cycle.pc # "account" => HostsTop = HostsLast /\ HostsPending = 0
<1>1. /\ now \in Int /\ detected \in AllFlows /\ rolling.last \in Int /\ rolling.last <= now
      /\ reseed \in BOOLEAN
  BY Bounds DEF AccountingInv, EnvOK, Times, RollingOK, RestOK, AllFlows
<1>2. cycle.pc = "account" => /\ cycle.at \in Int /\ cycle.at <= now /\ cycle.add \in Nat
                              /\ rolling.last < cycle.at
  BY Bounds DEF AccountingInv, CycleOK
<1> QED BY <1>1, <1>2 DEF HostsLast, HostsTop, HostsPending

LEMMA HostsQuiet ==
  ASSUME AccountingInv, HostsInv, Next, hosts5m' = hosts5m,
         cycle'.pc \in {"query", "account"} => ~reseed',
         HostsLast <= HostsLast', HostsLast <= HostsTop, HostsTop <= HostsTop',
         HostsPending' = 0 \/ (HostsPending' = HostsPending /\ HostsTop' = HostsTop)
  PROVE  HostsInv'
<1>1. Unchanging /\ AccountingInv' /\ HostMetrics' = HostMetrics
  BY StepFacts
<1>2. /\ HostsLast \in Int /\ HostsTop \in Int /\ HostsPending \in Nat /\ HostsTop <= now
      /\ now \in Int /\ detected \in AllFlows
  BY HostTimes
<1>3. /\ HostsLast' \in Int /\ HostsTop' \in Int /\ HostsPending' \in Nat /\ detected' \in AllFlows
  <2>1. /\ now' \in Int /\ detected' \in AllFlows /\ rolling'.last \in Int
    BY <1>1, Bounds DEF AccountingInv, EnvOK, Times, RollingOK, RestOK, AllFlows
  <2>2. cycle'.pc = "account" => cycle'.at \in Int /\ cycle'.add \in Nat
    BY <1>1, Bounds DEF AccountingInv, CycleOK
  <2> QED BY <2>1, <2>2 DEF HostsLast, HostsTop, HostsPending
<1>4. RowsOK(hosts5m, HostsLast) /\ RowsPaid(hosts5m, HostsPending, detected, HostsTop)
      /\ (~HostMetrics => DOMAIN hosts5m = {} /\ HostsPending = 0)
  BY DEF HostsInv
<1>5. \A t \in 1 .. MaxTime : t <= HostsTop => detected'[t] = detected[t]
  <2>1. \A t \in 1 .. now : detected'[t] = detected[t]
    BY <1>1 DEF Unchanging
  <2> QED BY <1>2, <2>1, Bounds
<1>6. \A rows, last, top, p, flows :
        rows = hosts5m /\ last = HostsLast' /\ top = HostsTop' /\ p = HostsPending' /\ flows = detected'
          => RowsOK(rows, last) /\ RowsPaid(rows, p, flows, top)
  <2> SUFFICES ASSUME NEW last \in Int, last = HostsLast', NEW top \in Int, top = HostsTop',
                      NEW p \in Nat, p = HostsPending', NEW flows \in AllFlows, flows = detected'
               PROVE  RowsOK(hosts5m, last) /\ RowsPaid(hosts5m, p, flows, top)
    BY <1>3
  <2>1. RowsOK(hosts5m, last)
    <3> SUFFICES ASSUME NEW t \in DOMAIN hosts5m PROVE t \in Times /\ hosts5m[t] \in Nat /\ t <= last
      BY DEF RowsOK
    <3>1. t \in Times /\ hosts5m[t] \in Nat /\ t <= HostsLast
      BY <1>4 DEF RowsOK
    <3>2. t \in Int
      BY <3>1, Bounds DEF Times
    <3> QED BY <1>2, <3>1, <3>2
  <2>2. RowsPaid(hosts5m, p, flows, top)
    BY <1>2, <1>4, <1>5, RowsKept
  <2> QED BY <2>1, <2>2
<1>7. ~HostMetrics' => DOMAIN hosts5m' = {} /\ HostsPending' = 0
  BY <1>1, <1>4
<1>8. RowsOK(hosts5m', HostsLast') /\ RowsPaid(hosts5m', HostsPending', detected', HostsTop')
  BY <1>6
<1> QED BY <1>7, <1>8 DEF HostsInv, RowsOK, RowsPaid, RowsFrom, DetectedIn

LEMMA HostsSame ==
  ASSUME AccountingInv, HostsInv,
         \/ Tick \/ SaveCycle \/ ReconcilePrevious \/ SavePrevious \/ Publish
         \/ StartJob \/ ReconcileStored \/ SaveStored \/ ReconcileToday \/ SaveToday
  PROVE  HostsInv'
<1>1. Next
  BY DEF Next
<1>2. UNCHANGED <<rolling, reseed, hosts5m>>
  BY DEF Tick, SaveCycle, ReconcilePrevious, SavePrevious, Publish, StartJob, ReconcileStored,
         SaveStored, JobSaves, ReconcileToday, SaveToday, store
<1>3. /\ HostsLast \in Int /\ HostsTop \in Int /\ HostsPending \in Nat /\ now \in Int
      /\ rolling.last \in Int /\ reseed \in BOOLEAN
      /\ ~reseed => HostsLast <= HostsTop
      /\ cycle.pc # "account" => HostsTop = HostsLast /\ HostsPending = 0
  BY HostTimes
<1>4. cycle.pc \in {"query", "account"} => ~reseed
  BY DEF HostsInv
<1>5. CASE Tick
  <2>1. cycle' = cycle /\ cycle.pc \in {"idle", "query"} /\ now' = now + 1
    BY <1>5 DEF Tick
  <2>2. HostsPending' = 0 /\ HostsLast <= HostsLast' /\ HostsTop <= HostsTop'
    BY <1>2, <1>3, <2>1 DEF HostsPending, HostsLast, HostsTop
  <2> QED BY <1>1, <1>2, <1>3, <1>4, <2>1, <2>2, HostsQuiet
<1>6. CASE StartJob \/ ReconcileStored \/ SaveStored \/ ReconcileToday \/ SaveToday
  <2>1. cycle' = cycle /\ now' = now
    BY <1>6 DEF StartJob, ReconcileStored, SaveStored, JobSaves, ReconcileToday, SaveToday, env
  <2>2. HostsPending' = HostsPending /\ HostsLast' = HostsLast /\ HostsTop' = HostsTop
    BY <1>2, <2>1 DEF HostsPending, HostsLast, HostsTop
  <2>3. HostsLast <= HostsTop
    BY <1>3, <1>4
  <2> QED BY <1>1, <1>2, <1>3, <1>4, <2>1, <2>2, <2>3, HostsQuiet
<1>7. CASE SaveCycle \/ ReconcilePrevious \/ SavePrevious \/ Publish
  <2>1. now' = now
    BY <1>7 DEF SaveCycle, ReconcilePrevious, SavePrevious, Publish, env
  <2>2. cycle.pc # "account" /\ cycle'.pc \notin {"query", "account"}
    <3>1. CASE SaveCycle
      <4>1. /\ cycle.pc \in {"daily", "captured", "hosts"}
            /\ cycle' = [cycle EXCEPT !.pc = CASE @ = "daily" -> "captured"
                                                [] @ = "captured" /\ cycle.add > 0 -> "hosts"
                                                [] OTHER -> "previous"]
        BY <3>1 DEF SaveCycle
      <4> QED BY <4>1
    <3>2. CASE ReconcilePrevious
      <4>1. cycle.pc = "previous" /\ \E pc \in {"publish", "settle"} : cycle' = [cycle EXCEPT !.pc = pc]
        BY <3>2 DEF ReconcilePrevious
      <4> QED BY <4>1
    <3>3. CASE SavePrevious
      <4>1. cycle.pc = "settle" /\ cycle' = [cycle EXCEPT !.pc = "publish"]
        BY <3>3 DEF SavePrevious
      <4> QED BY <4>1
    <3>4. CASE Publish
      BY <3>4 DEF Publish, Idle
    <3> QED BY <1>7, <3>1, <3>2, <3>3, <3>4
  <2>3. HostsPending' = 0 /\ HostsLast' = HostsLast /\ HostsTop' = HostsTop
    BY <1>2, <1>3, <2>1, <2>2 DEF HostsPending, HostsLast, HostsTop
  <2> QED BY <1>1, <1>2, <1>3, <2>2, <2>3, HostsQuiet
<1> QED BY <1>5, <1>6, <1>7

(* A step after which there are no rows.                                   *)
LEMMA HostsGone ==
  ASSUME AccountingInv, Next, DOMAIN hosts5m' = {}, HostsPending' = 0,
         cycle'.pc \in {"query", "account"} => ~reseed'
  PROVE  HostsInv'
<1>1. AccountingInv'
  BY StepFacts
<1>2. /\ now' \in Int /\ detected' \in AllFlows /\ rolling'.last \in Int
      /\ (cycle'.pc = "account" => cycle'.at \in Int)
  BY <1>1, Bounds DEF AccountingInv, EnvOK, Times, RollingOK, CycleOK, AllFlows
<1>3. HostsLast' \in Int /\ HostsTop' \in Int
  BY <1>2 DEF HostsLast, HostsTop
<1>4. RowsOK(hosts5m', HostsLast') /\ RowsPaid(hosts5m', HostsPending', detected', HostsTop')
  BY <1>2, <1>3, NothingPaid
<1> QED BY <1>4 DEF HostsInv, RowsOK, RowsPaid, RowsFrom, DetectedIn

LEMMA HostsStartCycle ==
  ASSUME AccountingInv, HostsInv, StartCycle
  PROVE  HostsInv'
<1>1. Next
  BY DEF Next
<1>2. /\ cycle.pc = "idle" /\ cycle'.pc = "query" /\ reseed' = FALSE /\ rolling' = rolling
      /\ hosts5m' = ClearedHosts(reseed) /\ HostsPending' = 0
  BY DEF StartCycle, HostsPending
<1>3. CASE reseed
  BY <1>1, <1>2, <1>3, HostsGone DEF ClearedHosts, Empty
<1>4. CASE ~reseed
  <2>1. hosts5m' = hosts5m
    BY <1>2, <1>4 DEF ClearedHosts
  <2>2. HostsLast' = HostsLast /\ HostsTop' = HostsTop /\ HostsTop = HostsLast /\ HostsLast \in Int
    BY <1>2, <1>4, HostTimes DEF HostsLast, HostsTop
  <2> QED BY <1>1, <1>2, <2>1, <2>2, HostsQuiet
<1> QED BY <1>3, <1>4

(* A restart asks for the whole window again, when it has cleared the rows.*)
LEMMA HostsRestart ==
  ASSUME AccountingInv, HostsInv, Restart
  PROVE  HostsInv'
<1>1. Next
  BY DEF Next
<1>2. /\ cycle'.pc = "idle" /\ reseed' = HostMetrics /\ hosts5m' = hosts5m /\ now' = now
      /\ HostsPending' = 0
  BY DEF Restart, Idle, env, HostsPending
<1>3. CASE HostMetrics
  <2>1. HostsLast' = now /\ HostsTop' = now
    BY <1>2, <1>3 DEF HostsLast, HostsTop
  <2>2. /\ HostsLast \in Int /\ HostsTop \in Int /\ HostsTop <= now /\ now \in Int
        /\ rolling.last \in Int /\ rolling.last <= now
        /\ ~reseed => HostsLast <= HostsTop
        /\ cycle.pc # "account" => HostsTop = HostsLast
    BY HostTimes
  <2>3. HostsLast <= HostsTop /\ HostsLast <= now
    BY <2>2 DEF HostsInv
  <2> QED BY <1>1, <1>2, <2>1, <2>2, <2>3, HostsQuiet
<1>4. CASE ~HostMetrics
  <2>1. DOMAIN hosts5m' = {}
    BY <1>2, <1>4 DEF HostsInv
  <2> QED BY <1>1, <1>2, <2>1, HostsGone
<1> QED BY <1>3, <1>4

LEMMA HostsAccount ==
  ASSUME AccountingInv, HostsInv, Account
  PROVE  HostsInv'
<1>1. Next
  BY DEF Next
<1>2. AccountingInv' /\ HostMetrics' = HostMetrics
  BY <1>1, StepFacts
<1>3. /\ cycle.pc = "account" /\ cycle'.pc \in {"daily", "hosts", "previous"} /\ reseed' = reseed
      /\ rolling' = RollingAfter /\ UNCHANGED env
      /\ hosts5m' = IF cycle.add = 0 THEN hosts5m
                    ELSE Drop(Extend(hosts5m, cycle.at, cycle.add),
                              {t \in DOMAIN hosts5m : t < cycle.at - Window})
  BY AccountIs
<1>4. /\ cycle.at \in Times /\ cycle.at \in Int /\ cycle.add \in Nat /\ rolling.last \in Int
      /\ rolling.last < cycle.at /\ detected \in AllFlows
  BY <1>3, Bounds, HostTimes DEF AccountingInv, CycleOK, EnvOK, Times
<1>5. /\ ~reseed /\ HostsLast = rolling.last /\ HostsTop = cycle.at /\ HostsPending = cycle.add
      /\ RowsOK(hosts5m, rolling.last) /\ RowsPaid(hosts5m, cycle.add, detected, cycle.at)
      /\ (~HostMetrics => DOMAIN hosts5m = {} /\ cycle.add = 0)
  BY <1>3 DEF HostsInv, HostsLast, HostsTop, HostsPending
<1>6. rolling'.last = cycle.at
  BY <1>3 DEF RollingAfter
<1>7. HostsLast' = cycle.at /\ HostsTop' = cycle.at /\ HostsPending' = 0
  BY <1>3, <1>5, <1>6 DEF HostsLast, HostsTop, HostsPending
<1>8. CASE cycle.add = 0
  <2>1. hosts5m' = hosts5m
    BY <1>3, <1>8
  <2> QED BY <1>1, <1>3, <1>4, <1>5, <1>7, <2>1, HostsQuiet
<1>9. CASE cycle.add # 0
  <2>1. \A new : new = Drop(Extend(hosts5m, cycle.at, cycle.add),
                            {t \in DOMAIN hosts5m : t < cycle.at - Window})
          => RowsOK(new, cycle.at) /\ RowsPaid(new, 0, detected, cycle.at)
    BY <1>4, <1>5, RowsAdded
  <2>2. RowsOK(hosts5m', cycle.at) /\ RowsPaid(hosts5m', 0, detected, cycle.at)
    BY <1>3, <1>9, <2>1
  <2>3. detected' = detected
    BY <1>3 DEF env
  <2>4. RowsOK(hosts5m', HostsLast') /\ RowsPaid(hosts5m', HostsPending', detected', HostsTop')
    BY <1>7, <2>2, <2>3
  <2> QED BY <1>2, <1>3, <1>5, <1>9, <2>4 DEF HostsInv, RowsOK, RowsPaid, RowsFrom, DetectedIn
<1> QED BY <1>8, <1>9

LEMMA HostsAnswered ==
  ASSUME AccountingInv, HostsInv, Next, cycle.pc = "query", NEW n \in Nat,
         cycle'.pc = "account", cycle'.at = cycle.at, cycle'.add = n,
         UNCHANGED <<rolling, reseed, env>>,
         hosts5m' = hosts5m \/ DOMAIN hosts5m' = {},
         n = 0 \/ DOMAIN hosts5m' = {} \/ ~cycle.fresh,
         HostMetrics \/ n = 0,
         n <= Cardinality(DetectedIn(detected, Asked))
  PROVE  HostsInv'
<1>1. AccountingInv' /\ HostMetrics' = HostMetrics
  BY StepFacts
<1>2. CycleOK
  BY DEF AccountingInv
<1>3. /\ cycle.at \in Int /\ rolling.last \in Int /\ rolling.last < cycle.at /\ detected \in AllFlows
      /\ cycle.from \in Int /\ cycle.at - Window <= cycle.from /\ cycle.from < cycle.at
      /\ ~cycle.fresh => rolling.last <= cycle.from
  BY <1>2, Bounds, HostTimes DEF CycleOK
<1>4. /\ ~reseed /\ HostsLast = rolling.last
      /\ RowsOK(hosts5m, rolling.last) /\ RowsPaid(hosts5m, 0, detected, rolling.last)
      /\ (~HostMetrics => DOMAIN hosts5m = {})
  BY DEF HostsInv, HostsLast, HostsTop, HostsPending
<1>5. HostsLast' = rolling.last /\ HostsTop' = cycle.at /\ HostsPending' = n
  BY <1>4 DEF HostsLast, HostsTop, HostsPending
<1>6. RowsOK(hosts5m', rolling.last) /\ RowsPaid(hosts5m', 0, detected, rolling.last)
  <2>1. \A rows : DOMAIN rows = {} =>
          RowsOK(rows, rolling.last) /\ RowsPaid(rows, 0, detected, rolling.last)
    BY <1>3, NothingPaid
  <2> QED BY <1>4, <2>1
<1>7. RowsPaid(hosts5m', n, detected, cycle.at)
  <2>1. \A rows : /\ RowsOK(rows, rolling.last) /\ RowsPaid(rows, 0, detected, rolling.last)
                  /\ (n = 0 \/ DOMAIN rows = {} \/ rolling.last <= cycle.from)
                  => RowsPaid(rows, n, detected, cycle.at)
    <3> SUFFICES ASSUME NEW rows, RowsOK(rows, rolling.last), RowsPaid(rows, 0, detected, rolling.last),
                        n = 0 \/ DOMAIN rows = {} \/ rolling.last <= cycle.from
                 PROVE  RowsPaid(rows, n, detected, cycle.at)
      OBVIOUS
    <3>1. n <= Cardinality(DetectedIn(detected, cycle.from + 1 .. cycle.at))
      BY DEF Asked
    <3> QED BY <1>3, <3>1, RowsAnswered
  <2> QED BY <1>3, <1>6, <2>1
<1>8. detected' = detected
  BY DEF env
<1>9. RowsOK(hosts5m', HostsLast') /\ RowsPaid(hosts5m', HostsPending', detected', HostsTop')
  BY <1>5, <1>6, <1>7, <1>8
<1>10. ~HostMetrics' => DOMAIN hosts5m' = {} /\ HostsPending' = 0
  BY <1>1, <1>4, <1>5
<1> QED BY <1>4, <1>9, <1>10 DEF HostsInv, RowsOK, RowsPaid, RowsFrom, DetectedIn

LEMMA AnswerPays ==
  ASSUME AccountingInv, cycle.pc = "query"
  PROVE  /\ Added(ClearSeen, Asked, cycle.at) \in Nat /\ Raw(Asked) \in Nat
         /\ Added(ClearSeen, Asked, cycle.at) <= Cardinality(DetectedIn(detected, Asked))
         /\ Raw(Asked) <= Cardinality(DetectedIn(detected, Asked))
         /\ Cardinality(DetectedIn(detected, Asked)) \in Nat
<1>1. /\ EnvOK /\ Asked \in SUBSET (1 .. cycle.at) /\ cycle.at \in Nat
      /\ SeenOK(ClearSeen, ClearApplied, cycle.at)
  BY AskedTimes, Cleared DEF AccountingInv
<1>2. Added(ClearSeen, Asked, cycle.at) \in Nat /\ Raw(Asked) \in Nat
  BY <1>1, AddedType
<1>3. Added(ClearSeen, Asked, cycle.at) <= Cardinality(DetectedIn(detected, Asked))
  <2> DEFINE fn == [f \in Answer(Asked) |-> Growth(ClearSeen, f, Asked, cycle.at)]
  <2>1. DOMAIN fn = Answer(Asked)
        /\ \A f \in Answer(Asked) : fn[f] \in Int /\ fn[f] <= Cardinality(Hits(f, Asked))
    BY <1>1, GrowthType
  <2> HIDE DEF fn
  <2>2. Total(fn) <= Cardinality(DetectedIn(detected, Asked))
    BY <1>1, <2>1, HitsPay
  <2> QED BY <2>2, AddedIs DEF fn
<1>4. Raw(Asked) <= Cardinality(DetectedIn(detected, Asked))
  <2> DEFINE fn == [f \in Answer(Asked) |-> Cardinality(Hits(f, Asked))]
  <2>1. \A f \in Answer(Asked) : Cardinality(Hits(f, Asked)) \in Int
    BY <1>1, SampleOf DEF Sample
  <2>2. DOMAIN fn = Answer(Asked)
        /\ \A f \in Answer(Asked) : fn[f] \in Int /\ fn[f] <= Cardinality(Hits(f, Asked))
    BY <2>1
  <2> HIDE DEF fn
  <2>3. Total(fn) <= Cardinality(DetectedIn(detected, Asked))
    BY <1>1, <2>2, HitsPay
  <2> QED BY <2>3 DEF fn, Raw
<1>5. Cardinality(DetectedIn(detected, Asked)) \in Nat
  BY HostTimes, DetectedFinite
<1> QED BY <1>2, <1>3, <1>4, <1>5

LEMMA HostsQueries ==
  ASSUME AccountingInv, HostsInv, QueryFails \/ QueryCountOnly \/ QueryDetailed \/ DedupeFails
  PROVE  HostsInv'
<1>1. Next
  BY DEF Next
<1>2. cycle.pc = "query" /\ UNCHANGED <<rolling, reseed, env>>
  BY DEF QueryFails, QueryCountOnly, QueryDetailed, DedupeFails, store
<1>3. /\ Added(ClearSeen, Asked, cycle.at) \in Nat /\ Raw(Asked) \in Nat
      /\ Added(ClearSeen, Asked, cycle.at) <= Cardinality(DetectedIn(detected, Asked))
      /\ Raw(Asked) <= Cardinality(DetectedIn(detected, Asked))
      /\ Cardinality(DetectedIn(detected, Asked)) \in Nat
  BY <1>2, AnswerPays
<1>4. PICK n \in Nat : /\ n <= Cardinality(DetectedIn(detected, Asked))
                       /\ HostMetrics \/ n = 0
                       /\ n = 0 \/ hosts5m' = ClearedHosts(cycle.fresh /\ HostMetrics)
                       /\ hosts5m' = hosts5m \/ hosts5m' = ClearedHosts(cycle.fresh /\ HostMetrics)
                       /\ cycle'.pc = "account" /\ cycle'.at = cycle.at /\ cycle'.add = n
  <2>1. CASE QueryFails
    <3>1. hosts5m' = hosts5m /\ cycle'.pc = "account" /\ cycle'.at = cycle.at /\ cycle'.add = 0
      BY <2>1 DEF QueryFails, Answered, store
    <3> QED BY <1>3, <3>1
  <2>2. CASE QueryCountOnly
    <3>1. /\ hosts5m' = ClearedHosts(cycle.fresh /\ HostMetrics)
          /\ cycle'.pc = "account" /\ cycle'.at = cycle.at /\ cycle'.add = 0
      BY <2>2 DEF QueryCountOnly, Answered, ClearHosts
    <3> QED BY <1>3, <3>1
  <2>3. CASE QueryDetailed
    <3> DEFINE add == Added(ClearSeen, Asked, cycle.at)
               hosts == IF cycle.fresh /\ add = 0 THEN Raw(Asked) ELSE add
    <3>1. hosts \in Nat /\ hosts <= Cardinality(DetectedIn(detected, Asked))
      BY <1>3
    <3>2. /\ hosts5m' = ClearedHosts(cycle.fresh /\ HostMetrics)
          /\ cycle'.pc = "account" /\ cycle'.at = cycle.at
          /\ cycle'.add = 0 \/ (HostMetrics /\ cycle'.add = hosts)
      BY <2>3 DEF QueryDetailed, Answered, ClearHosts
    <3> HIDE DEF hosts
    <3> QED BY <1>3, <3>1, <3>2
  <2>4. CASE DedupeFails
    <3>1. /\ hosts5m' = ClearedHosts(cycle.fresh /\ HostMetrics)
          /\ cycle'.pc = "account" /\ cycle'.at = cycle.at
          /\ cycle'.add = 0 \/ (HostMetrics /\ cycle'.add = Raw(Asked))
      BY <2>4 DEF DedupeFails, Answered, ClearHosts
    <3> QED BY <1>3, <3>1
  <2> QED BY <2>1, <2>2, <2>3, <2>4
<1>5. hosts5m' = hosts5m \/ DOMAIN hosts5m' = {}
  BY <1>4 DEF ClearedHosts, Empty
<1>6. n = 0 \/ DOMAIN hosts5m' = {} \/ ~cycle.fresh
  BY <1>4 DEF ClearedHosts, Empty
<1> QED BY <1>1, <1>2, <1>4, <1>5, <1>6, HostsAnswered

LEMMA HostsInit ==
  ASSUME Init
  PROVE  HostsInv
<1>1. AccountingInv
  BY InitInv
<1>2. HostsLast \in Int /\ HostsTop \in Int /\ detected \in AllFlows
  BY <1>1, HostTimes
<1>3. cycle.pc = "idle" /\ DOMAIN hosts5m = {} /\ HostsPending = 0
  BY DEF Init, Idle, Empty, HostsPending
<1>4. RowsOK(hosts5m, HostsLast) /\ RowsPaid(hosts5m, HostsPending, detected, HostsTop)
  BY <1>2, <1>3, NothingPaid
<1> QED BY <1>3, <1>4 DEF HostsInv

LEMMA HostsNext ==
  ASSUME AccountingInv, HostsInv, [Next]_vars
  PROVE  HostsInv'
<1>1. CASE UNCHANGED vars
  <2>1. UNCHANGED <<mode, detected, now, rolling, hosts5m, reseed, cycle>>
    BY <1>1 DEF vars, env, store
  <2> QED BY <2>1 DEF HostsInv, HostsLast, HostsTop, HostsPending, RowsOK, RowsPaid, RowsFrom,
                      DetectedIn, HostMetrics
<1>2. CASE Next
  BY <1>2, HostsSame, HostsStartCycle, HostsQueries, HostsAccount, HostsRestart DEF Next
<1> QED BY <1>1, <1>2

LEMMA HostAggregateOnceHolds ==
  ASSUME AccountingInv, HostsInv
  PROVE  HostAggregateOnce
<1> DEFINE s == now - Window
           all == DetectedIn(detected, now - 2 * Window .. now)
           some == DetectedIn(detected, s - Window + 1 .. HostsTop)
<1>1. /\ HostsLast \in Int /\ HostsTop \in Int /\ HostsPending \in Nat /\ HostsTop <= now
      /\ now \in Int /\ detected \in AllFlows
      /\ ~reseed => HostsLast <= HostsTop
      /\ cycle.pc # "account" => HostsTop = HostsLast
  BY HostTimes
<1>2. HostsLast <= HostsTop
  BY <1>1 DEF HostsInv
<1>3. s \in Int
  BY <1>1, Bounds
<1>4. RowsFrom(hosts5m, s) \in Nat /\ (s > HostsLast => RowsFrom(hosts5m, s) = 0)
  BY <1>1, <1>3, RowsType DEF HostsInv
<1>5. Cardinality(all) \in Nat
  BY <1>1, DetectedFinite
<1>6. some \subseteq all
  <2>1. s - Window + 1 .. HostsTop \subseteq now - 2 * Window .. now
    BY <1>1, Bounds
  <2> QED BY <2>1 DEF DetectedIn
<1>7. Cardinality(some) \in Nat /\ Cardinality(some) <= Cardinality(all)
  BY <1>1, <1>6, DetectedFinite
<1>8. s <= HostsTop => RowsFrom(hosts5m, s) + HostsPending <= Cardinality(some)
  BY <1>3 DEF HostsInv, RowsPaid
<1> HIDE DEF s, all, some
<1>9. RowsFrom(hosts5m, s) <= Cardinality(all)
  BY <1>1, <1>2, <1>3, <1>4, <1>5, <1>7, <1>8
<1> QED BY <1>9 DEF HostAggregateOnce, RowsFrom, s, all, DetectedIn, Detections

(* Captures and the 24-hour hosts count each detection once, whatever      *)
(* windows a restart, a lost answer or a baseline asks for again.          *)
THEOREM CountsOnce == Spec => []CountedOnce
<1>1. Init => CaptureInv /\ HostsInv
  BY CaptureInit, HostsInit
<1>2. AccountingInv /\ CaptureInv /\ HostsInv /\ [Next]_vars => CaptureInv' /\ HostsInv'
  BY CaptureNext, HostsNext
<1>3. AccountingInv /\ CaptureInv /\ HostsInv => CountedOnce
  BY CapturedOnceHolds, HostAggregateOnceHolds DEF CountedOnce
<1> QED BY <1>1, <1>2, <1>3, Right, PTL DEF Spec
=============================================================================
