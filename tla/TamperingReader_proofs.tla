----------------------- MODULE TamperingReader_proofs -----------------------
(***************************************************************************)
(* What TamperingReader promises for any events, limits, rates, deadlines  *)
(* and troubles.                                                           *)
(***************************************************************************)
EXTENDS TamperingReader, FiniteSetTheorems, SequenceTheorems, TLAPS

-----------------------------------------------------------------------------
(* The limiter *)

Rates == LowRate .. HighRate
Limiters == [target : Rates, rate : Nat, tokens : Nat, refilled : Nat, recover : Nat,
             backoff : Nat]

LEMMA Sizes ==
  /\ Span \in Nat /\ Limit \in Nat \ {0} /\ MaxAttempts \in Nat \ {0} /\ Floor \in Nat \ {0}
  /\ Cost \in Nat \ {0} /\ LowRate \in Nat \ {0} /\ Span # 0
  /\ HighRate \in Nat /\ Drop \in Nat /\ Gain \in Nat /\ Settle \in Nat /\ Every \in Nat
  /\ MinWait \in Nat /\ MaxWait \in Nat /\ LowRate <= HighRate /\ MinWait <= MaxWait
  /\ Rates \subseteq Nat \ {0} /\ Delays \subseteq Nat
BY SizesAssumption DEF Rates

LEMMA ModeFacts ==
  ASSUME NEW m \in Modes
  PROVE  /\ m.burst \in Nat /\ m.burst >= Cost /\ m.calls \in Nat /\ m.deadline \in Nat
         /\ IsFiniteSet(m.events) /\ \A e \in m.events : e.at \in Instants
BY ModesAssumption

(* More time brings more, and so does a higher rate.                       *)
LEMMA Product ==
  ASSUME NEW a \in Nat, NEW b \in Nat, NEW c \in Nat, b <= c
  PROVE  a * b \in Nat /\ a * b <= a * c
<1>1. PICK d \in Nat : c = b + d
  BY c - b \in Nat
<1>2. a * c = a * b + a * d /\ a * b \in Nat /\ a * d \in Nat
  BY <1>1
<1> QED BY <1>2

LEMMA Later ==
  ASSUME NEW a \in Nat, NEW b \in Nat
  PROVE  (a + 1) * b = a * b + b /\ a * b \in Nat
OBVIOUS

(* The least rate of a target is a rate below it.                          *)
LEMMA LowestRate ==
  ASSUME NEW t \in Rates
  PROVE  Lowest(t) \in Nat \ {0} /\ Lowest(t) <= t /\ t <= HighRate
BY Sizes DEF Lowest, Least, Rates

(* The limiter is in its bounds, and what was asked for is in step with an *)
(* account that fills at the highest rate.                                 *)
PaceInv ==
  /\ mode \in Modes /\ now \in Nat /\ used \in Nat
  /\ limit \in Limiters
  /\ limit.rate \in Lowest(limit.target) .. limit.target
  /\ limit.tokens <= mode.burst /\ limit.refilled <= now /\ limit.backoff <= now + MaxWait
  /\ ideal \in [bucket : Int, held : Nat] /\ ideal.held = limit.backoff
  /\ ideal.bucket >= Least(mode.burst, limit.tokens + (now - limit.refilled) * HighRate)
  /\ call \in [Callers -> [pc : {"idle", "turn", "sent"}, attempt : 0 .. MaxAttempts, wake : Int]]

(* Refilling adds no more than the highest rate does.                      *)
LEMMA RefilledPaced ==
  ASSUME PaceInv
  PROVE  /\ Refilled \in Limiters
         /\ Refilled.target = limit.target /\ Refilled.backoff = limit.backoff
         /\ Refilled.rate \in Lowest(limit.target) .. limit.target
         /\ Refilled.tokens <= mode.burst /\ Refilled.refilled = now
         /\ ideal.bucket >= Refilled.tokens
<1> USE DEF PaceInv
<1> DEFINE recovers == limit.rate < limit.target /\ now > limit.recover
           rate == IF recovers THEN Least(limit.rate + Gain, limit.target) ELSE limit.rate
           past == now - limit.refilled
<1>1. limit.target \in Rates /\ limit.target \in Nat /\ limit.target <= HighRate
      /\ Lowest(limit.target) \in Nat /\ limit.rate \in Nat
  BY LowestRate, Sizes DEF Limiters
<1>2. rate \in Lowest(limit.target) .. limit.target /\ rate \in Nat /\ rate <= HighRate
  BY <1>1, Sizes DEF Least
<1>3. past \in Nat /\ now \in Nat /\ limit.tokens \in Nat /\ mode.burst \in Nat
  BY ModeFacts DEF Limiters
<1>4. past * rate \in Nat /\ past * rate <= past * HighRate /\ past * HighRate \in Nat
  <2> HIDE DEF rate, past
  <2> QED BY <1>2, <1>3, Sizes, Product
<1>5. CASE now = limit.refilled
  <2>1. Refilled = limit
    BY <1>5 DEF Refilled
  <2>2. past * HighRate = 0
    BY <1>5, Sizes
  <2>3. ideal.bucket >= limit.tokens
    BY <2>2, <1>3 DEF Least
  <2> QED BY <2>1, <2>3, <1>5, <1>1
<1>6. CASE now # limit.refilled
  <2> DEFINE tokens == Least(limit.tokens + past * rate, mode.burst)
  <2>1. Refilled = [limit EXCEPT !.rate = rate, !.refilled = now,
                         !.recover = IF recovers THEN now + Every ELSE @, !.tokens = tokens]
    BY <1>6 DEF Refilled
  <2>2. tokens \in Nat /\ tokens <= mode.burst
    <3> HIDE DEF rate, past
    <3> QED BY <1>3, <1>4 DEF Least
  <2>3. ideal.bucket >= tokens
    <3>1. ideal.bucket >= Least(mode.burst, limit.tokens + past * HighRate)
      OBVIOUS
    <3> HIDE DEF rate, past
    <3> QED BY <3>1, <1>3, <1>4 DEF Least
  <2>4. (IF recovers THEN now + Every ELSE limit.recover) \in Nat
    BY Sizes DEF Limiters
  <2> HIDE DEF tokens, rate, recovers
  <2> QED BY <2>1, <2>2, <2>3, <2>4, <1>1, <1>2, <1>3 DEF Limiters
<1> QED BY <1>5, <1>6

(* A turn is only taken when both the bucket and the account allow it, and *)
(* no back-off runs.                                                       *)
LEMMA GrantedPaced ==
  ASSUME PaceInv, Free, Granted, UNCHANGED <<mode, now>>,
         call' \in [Callers -> [pc : {"idle", "turn", "sent"}, attempt : 0 .. MaxAttempts,
                                wake : Int]]
  PROVE  PaceInv' /\ ideal.bucket >= Cost /\ now >= ideal.held
<1>1. /\ Refilled \in Limiters
      /\ Refilled.target = limit.target /\ Refilled.backoff = limit.backoff
      /\ Refilled.rate \in Lowest(limit.target) .. limit.target
      /\ Refilled.tokens <= mode.burst /\ Refilled.refilled = now
      /\ ideal.bucket >= Refilled.tokens
  BY RefilledPaced
<1>2. Refilled.tokens >= Cost /\ now >= limit.backoff
  BY DEF Free
<1>3. limit' = [Refilled EXCEPT !.tokens = @ - Cost]
  BY DEF Granted
<1>4. Refilled.tokens - Cost \in Nat /\ Refilled.tokens \in Nat
  BY <1>1, <1>2, Sizes DEF Limiters
<1>5. /\ limit' \in Limiters /\ limit'.target = limit.target /\ limit'.rate = Refilled.rate
      /\ limit'.tokens = Refilled.tokens - Cost /\ limit'.refilled = now
      /\ limit'.backoff = limit.backoff
  BY <1>1, <1>3, <1>4 DEF Limiters
<1>6. ideal' = [ideal EXCEPT !.bucket = @ - Cost] /\ used' = used + 1
  BY DEF Granted
<1>7. (limit'.tokens + (now' - limit'.refilled) * HighRate) = limit'.tokens
  BY <1>5, <1>4, Sizes DEF PaceInv
<1>8. ideal'.bucket >= limit'.tokens /\ ideal' \in [bucket : Int, held : Nat]
      /\ ideal'.held = limit'.backoff /\ limit'.tokens <= mode.burst /\ mode.burst \in Nat
  BY <1>1, <1>2, <1>4, <1>5, <1>6, Sizes, ModeFacts DEF PaceInv
<1>9. ideal'.bucket >= Least(mode'.burst, limit'.tokens)
  BY <1>8, <1>5 DEF Least, Limiters
<1>10. PaceInv'
  <2>1. mode' \in Modes /\ now' \in Nat /\ used' \in Nat /\ limit'.backoff <= now' + MaxWait
    BY <1>5, <1>6 DEF PaceInv
  <2>2. limit'.rate \in Lowest(limit'.target) .. limit'.target
    BY <1>1, <1>5
  <2>3. limit'.refilled <= now'
    BY <1>5 DEF PaceInv
  <2> QED BY <2>1, <2>2, <2>3, <1>5, <1>7, <1>8, <1>9 DEF PaceInv
<1> QED BY <1>10, <1>1, <1>2 , Sizes DEF PaceInv, Limiters

(* Without a turn the bucket has still been refilled.                      *)
LEMMA SleptPaced ==
  ASSUME PaceInv, limit' = Refilled, UNCHANGED <<mode, now, used, ideal>>,
         call' \in [Callers -> [pc : {"idle", "turn", "sent"}, attempt : 0 .. MaxAttempts,
                                wake : Int]]
  PROVE  PaceInv'
<1>1. /\ limit' \in Limiters
      /\ limit'.target = limit.target /\ limit'.backoff = limit.backoff
      /\ limit'.rate \in Lowest(limit.target) .. limit.target
      /\ limit'.tokens <= mode.burst /\ limit'.refilled = now
      /\ ideal.bucket >= limit'.tokens
  BY RefilledPaced
<1>2. limit'.tokens + (now' - limit'.refilled) * HighRate = limit'.tokens
  BY <1>1, Sizes DEF PaceInv, Limiters
<1>3. ideal'.bucket >= Least(mode'.burst, limit'.tokens)
  BY <1>1, ModeFacts DEF Least, Limiters, PaceInv
<1> QED BY <1>1, <1>2, <1>3 DEF PaceInv

(* The wait of a turn is a time.                                           *)
LEMMA SleepTime ==
  ASSUME PaceInv
  PROVE  SleepUntil \in Int
<1>1. Refilled.rate \in Nat \ {0} /\ Refilled.tokens \in Nat
  BY RefilledPaced, LowestRate DEF PaceInv, Limiters
<1>2. Missing \in Int
  BY <1>1, Sizes DEF Missing
<1>3. (Missing + Refilled.rate - 1) \div Refilled.rate \in Int
  <2> DEFINE a == Missing + Refilled.rate - 1
             b == Refilled.rate
  <2>1. a \in Int /\ b \in Nat /\ b > 0
    BY <1>1, <1>2
  <2> HIDE DEF a, b
  <2>2. a \div b \in Int
    BY <2>1
  <2> QED BY <2>2 DEF a, b
<1> QED BY <1>3 DEF SleepUntil, PaceInv, Limiters

(* A 429 lowers the rate, not below its least, and holds everyone.         *)
LEMMA HeldPaced ==
  ASSUME PaceInv, NEW delay \in Nat, NoteRateLimit(delay), UNCHANGED <<mode, now>>,
         call' \in [Callers -> [pc : {"idle", "turn", "sent"}, attempt : 0 .. MaxAttempts,
                                wake : Int]]
  PROVE  PaceInv'
<1> DEFINE wait == Least(Most(delay, MinWait), MaxWait)
           rate == Most(limit.rate - Drop, Lowest(limit.target))
<1>1. wait \in Nat /\ wait <= MaxWait
  BY Sizes DEF Least, Most
<1>2. rate \in Lowest(limit.target) .. limit.target /\ rate \in Nat
  <2>1. limit.target \in Rates /\ limit.target \in Nat /\ limit.rate \in Nat
        /\ limit.rate \in Lowest(limit.target) .. limit.target
    BY Sizes DEF PaceInv, Limiters
  <2>2. Lowest(limit.target) \in Nat /\ Lowest(limit.target) <= limit.target
    BY <2>1, LowestRate
  <2> QED BY <2>1, <2>2, Sizes DEF Most
<1>3. limit' = [limit EXCEPT !.rate = rate, !.backoff = Most(@, now + wait),
                             !.recover = now + wait + Settle]
      /\ ideal' = [ideal EXCEPT !.held = Most(@, now + wait)] /\ used' = used
  BY DEF NoteRateLimit
<1> HIDE DEF wait, rate
<1>4. Most(limit.backoff, now + wait) \in Nat /\ Most(limit.backoff, now + wait) <= now + MaxWait
      /\ now + wait + Settle \in Nat
  BY <1>1, Sizes DEF Most, PaceInv, Limiters
<1>5. /\ limit' \in Limiters /\ limit'.target = limit.target /\ limit'.rate = rate
      /\ limit'.tokens = limit.tokens /\ limit'.refilled = limit.refilled
      /\ limit'.backoff = Most(limit.backoff, now + wait)
  BY <1>2, <1>3, <1>4 DEF PaceInv, Limiters
<1>6. ideal' \in [bucket : Int, held : Nat] /\ ideal'.bucket = ideal.bucket
      /\ ideal'.held = limit'.backoff
  BY <1>3, <1>4, <1>5 DEF PaceInv
<1>7. limit'.rate \in Lowest(limit'.target) .. limit'.target
  BY <1>2, <1>5
<1>8. /\ mode' \in Modes /\ now' \in Nat /\ used' \in Nat
      /\ limit'.tokens <= mode'.burst /\ limit'.refilled <= now' /\ limit'.backoff <= now' + MaxWait
  BY <1>3, <1>4, <1>5 DEF PaceInv
<1>9. ideal'.bucket >= Least(mode'.burst, limit'.tokens + (now' - limit'.refilled) * HighRate)
  BY <1>5, <1>6 DEF PaceInv
<1> QED BY <1>5, <1>6, <1>7, <1>8, <1>9 DEF PaceInv

-----------------------------------------------------------------------------
(* Least and greatest of an answer's instants *)

LEMMA LeastExists ==
  ASSUME NEW S, S \subseteq Nat, S # {}
  PROVE  \E x \in S : \A y \in S : x <= y
<1>1. PICK x \in S : \A y \in S : ~(<<y, x>> \in OpToRel(<, Nat))
  BY NatLessThanWellFounded, WFMin
<1>2. \A y \in S : ~(y < x)
  BY <1>1 DEF OpToRel
<1> QED BY <1>2

LEMMA GreatestExists ==
  ASSUME NEW n \in Nat, NEW S, S \subseteq 0 .. n, S # {}
  PROVE  \E x \in S : \A y \in S : y <= x
<1> DEFINE T == {n - x : x \in S}
<1>1. T \subseteq Nat /\ T # {}
  <2>1. \A x \in S : n - x \in Nat
    OBVIOUS
  <2>2. PICK y \in S : TRUE
    OBVIOUS
  <2>3. n - y \in T
    OBVIOUS
  <2> QED BY <2>1, <2>3
<1>2. PICK t \in T : \A u \in T : t <= u
  BY <1>1, LeastExists
<1>3. PICK x \in S : t = n - x
  BY <1>2
<1>4. \A y \in S : n - x <= n - y
  BY <1>2, <1>3
<1> QED BY <1>4

LEMMA Extremes ==
  ASSUME NEW S, S \subseteq Instants, S # {}
  PROVE  /\ Min(S) \in S /\ \A y \in S : Min(S) <= y
         /\ Max(S) \in S /\ \A y \in S : y <= Max(S)
         /\ Min(S) \in Nat /\ Max(S) \in Nat
<1>1. S \subseteq 0 .. Span - 1 /\ S \subseteq Nat /\ Span - 1 \in Nat
  BY Sizes DEF Instants
<1>2. \E x \in S : \A y \in S : x <= y
  BY <1>1, LeastExists
<1>3. \E x \in S : \A y \in S : x >= y
  BY <1>1, GreatestExists
<1>4. Min(S) \in S /\ \A y \in S : Min(S) <= y
  BY <1>2 DEF Min
<1>5. Max(S) \in S /\ \A y \in S : Max(S) >= y
  BY <1>3 DEF Max
<1> QED BY <1>1, <1>4, <1>5

-----------------------------------------------------------------------------
(* Ranges to be asked for *)

Ranges == [from : Int, to : Int, late : BOOLEAN]
Covers(r, e) == r.from <= e.at /\ e.at <= r.to

(* No event is forgotten: it is retained or in a range still to be asked   *)
(* for.                                                                    *)
Covered(events, ranges, done) ==
  \A e \in events : e \in done \/ \E i \in 1 .. Len(ranges) : Covers(ranges[i], e)

(* An instant with more events than an answer holds; a range that may be   *)
(* dropped comes after one.                                                *)
Heavy(events, r) ==
  r.from = r.to /\ Cardinality({e \in events : Covers(r, e)}) >= Limit
Guarded(events, ranges) ==
  \A i \in 1 .. Len(ranges) : ranges[i].late => \E j \in 1 .. i - 1 : Heavy(events, ranges[j])

LEMMA Replaced ==
  ASSUME NEW todo \in Seq(Ranges), todo # <<>>, NEW parts \in Seq(Ranges)
  PROVE  /\ parts \o Tail(todo) \in Seq(Ranges)
         /\ Len(parts \o Tail(todo)) = Len(parts) + Len(todo) - 1
         /\ \A i \in 1 .. Len(parts) : (parts \o Tail(todo))[i] = parts[i]
         /\ \A i \in 2 .. Len(todo) : (parts \o Tail(todo))[Len(parts) + i - 1] = todo[i]
         /\ Head(todo) = todo[1] /\ Len(todo) \in Nat /\ Len(todo) >= 1 /\ Len(parts) \in Nat
<1> DEFINE rest == Tail(todo)
<1>1. /\ rest \in Seq(Ranges) /\ Len(rest) = Len(todo) - 1 /\ Len(todo) \in Nat
      /\ \A i \in 1 .. Len(rest) : rest[i] = todo[i + 1]
      /\ Head(todo) = todo[1] /\ Len(todo) >= 1
  BY HeadTailProperties, LenProperties
<1> HIDE DEF rest
<1>2. /\ parts \o rest \in Seq(Ranges) /\ Len(parts \o rest) = Len(parts) + Len(rest)
      /\ Len(parts) \in Nat
      /\ \A i \in 1 .. Len(parts) + Len(rest) :
           (parts \o rest)[i] = IF i <= Len(parts) THEN parts[i] ELSE rest[i - Len(parts)]
  BY <1>1, ConcatProperties, LenProperties
<1>3. \A i \in 2 .. Len(todo) : (parts \o rest)[Len(parts) + i - 1] = todo[i]
  <2> SUFFICES ASSUME NEW i \in 2 .. Len(todo)
               PROVE  (parts \o rest)[Len(parts) + i - 1] = todo[i]
    OBVIOUS
  <2>1. rest[i - 1] = todo[i]
    BY <1>1
  <2>2. (parts \o rest)[Len(parts) + i - 1] = rest[i - 1]
    BY <1>1, <1>2
  <2> QED BY <2>1, <2>2
<1>4. \A i \in 1 .. Len(parts) : (parts \o rest)[i] = parts[i]
  BY <1>1, <1>2
<1> QED BY <1>1, <1>2, <1>3, <1>4 DEF rest

(* Answering the first range, or dividing it, forgets no event.            *)
LEMMA StillCovered ==
  ASSUME NEW todo \in Seq(Ranges), todo # <<>>, NEW parts \in Seq(Ranges),
         NEW events, NEW done, NEW more, done \subseteq more,
         Covered(events, todo, done),
         \A e \in events : Covers(Head(todo), e) =>
           e \in more \/ \E i \in 1 .. Len(parts) : Covers(parts[i], e)
  PROVE  Covered(events, parts \o Tail(todo), more)
<1> DEFINE new == parts \o Tail(todo)
<1> SUFFICES ASSUME NEW e \in events, e \notin more
             PROVE  \E i \in 1 .. Len(new) : Covers(new[i], e)
  BY DEF Covered
<1>1. PICK i \in 1 .. Len(todo) : Covers(todo[i], e)
  BY DEF Covered
<1>2. CASE i = 1
  <2>1. PICK j \in 1 .. Len(parts) : Covers(parts[j], e)
    BY <1>1, <1>2, Replaced
  <2>2. j \in 1 .. Len(new) /\ new[j] = parts[j]
    BY Replaced
  <2> QED BY <2>1, <2>2
<1>3. CASE i # 1
  <2>1. /\ Len(parts) + i - 1 \in 1 .. Len(new)
        /\ new[Len(parts) + i - 1] = todo[i]
    BY <1>3, Replaced
  <2> QED BY <1>1, <2>1
<1> QED BY <1>2, <1>3

LEMMA StillGuarded ==
  ASSUME NEW todo \in Seq(Ranges), todo # <<>>, NEW parts \in Seq(Ranges), NEW events,
         Guarded(events, todo), ~Heavy(events, Head(todo)), Guarded(events, parts)
  PROVE  Guarded(events, parts \o Tail(todo))
<1> DEFINE new == parts \o Tail(todo)
<1> SUFFICES ASSUME NEW i \in 1 .. Len(new), new[i].late
             PROVE  \E j \in 1 .. i - 1 : Heavy(events, new[j])
  BY DEF Guarded
<1>1. CASE i <= Len(parts)
  <2>1. i \in 1 .. Len(parts) /\ new[i] = parts[i]
    BY <1>1, Replaced
  <2>2. PICK j \in 1 .. i - 1 : Heavy(events, parts[j])
    BY <2>1 DEF Guarded
  <2>3. new[j] = parts[j]
    BY <2>1, <2>2, Replaced
  <2> QED BY <2>2, <2>3
<1>2. CASE i > Len(parts)
  <2>1. PICK k \in 2 .. Len(todo) : i = Len(parts) + k - 1
    <3>1. i - Len(parts) + 1 \in 2 .. Len(todo)
      BY <1>2, Replaced
    <3> QED BY <3>1, Replaced
  <2>2. new[i] = todo[k]
    BY <2>1, Replaced
  <2>3. PICK j \in 1 .. k - 1 : Heavy(events, todo[j])
    BY <2>1, <2>2, Replaced DEF Guarded
  <2>4. j # 1 /\ j \in 2 .. Len(todo)
    BY <2>1, <2>3, Replaced
  <2>5. new[Len(parts) + j - 1] = todo[j]
    BY <2>4, Replaced
  <2>6. Len(parts) + j - 1 \in 1 .. i - 1
    BY <2>1, <2>3, <2>4, Replaced
  <2> QED BY <2>3, <2>5, <2>6
<1> QED BY <1>1, <1>2, Replaced

-----------------------------------------------------------------------------
(* What is left of a range after a full answer *)

LEMMA StretchRange ==
  ASSUME NEW from \in Int, NEW to \in Int
  PROVE  /\ Stretch(from, to) \in Ranges
         /\ Stretch(from, to).from = from /\ Stretch(from, to).to = to
         /\ ~Stretch(from, to).late
BY DEF Stretch, Ranges

LEMMA LateStretch ==
  ASSUME NEW from \in Int, NEW to \in Int
  PROVE  LET after == [Stretch(from, to) EXCEPT !.late = TRUE] IN
         after \in Ranges /\ after.from = from /\ after.to = to
<1>1. Stretch(from, to) \in Ranges
  BY StretchRange
<1> QED BY <1>1, StretchRange DEF Ranges

(* A full answer is not empty.                                             *)
LEMMA FullFacts ==
  ASSUME NEW answer, IsFiniteSet(answer), Full(answer), \A e \in answer : e.at \in Instants
  PROVE  LET ats == {e.at : e \in answer} IN
         /\ ats # {} /\ ats \subseteq Instants
         /\ Min(ats) \in Nat /\ Max(ats) \in Nat
         /\ \A e \in answer : Min(ats) <= e.at /\ e.at <= Max(ats)
<1> DEFINE ats == {e.at : e \in answer}
<1>1. answer # {}
  BY FS_EmptySet, Sizes DEF Full
<1>2. ats # {} /\ ats \subseteq Instants
  BY <1>1
<1> QED BY <1>2, Extremes

(* Halves leave no gap.                                                    *)
LEMMA Halves ==
  ASSUME NEW from \in Int, NEW to \in Int, NEW x \in Int, from <= x, x <= to,
         NEW half, half = from + (to - from) \div 2
  PROVE  /\ half \in Int
         /\ half = from => x = from \/ x = to
BY SMT

LEMMA Pair ==
  ASSUME NEW a \in Ranges, NEW b \in Ranges
  PROVE  /\ <<a, b>> \in Seq(Ranges) /\ Len(<<a, b>>) = 2
         /\ <<a>> \o <<b>> = <<a, b>>
<1>1. /\ <<a>> \in Seq(Ranges) /\ <<b>> \in Seq(Ranges) /\ <<a, b>> \in Seq(Ranges)
      /\ Len(<<a>>) = 1 /\ Len(<<b>>) = 1 /\ Len(<<a, b>>) = 2
      /\ <<a>>[1] = a /\ <<b>>[1] = b /\ <<a, b>>[1] = a /\ <<a, b>>[2] = b
  OBVIOUS
<1>2. /\ <<a>> \o <<b>> \in Seq(Ranges) /\ Len(<<a>> \o <<b>>) = 2
      /\ (<<a>> \o <<b>>)[1] = a /\ (<<a>> \o <<b>>)[2] = b
  BY <1>1, ConcatProperties
<1>3. \A i \in 1 .. 2 : (<<a>> \o <<b>>)[i] = <<a, b>>[i]
  BY <1>1, <1>2
<1> QED BY <1>1, <1>2, <1>3, SeqEqual

LEMMA Triple ==
  ASSUME NEW a \in Ranges, NEW b \in Ranges, NEW c \in Ranges
  PROVE  /\ <<a, b, c>> \in Seq(Ranges) /\ Len(<<a, b, c>>) = 3
         /\ <<a>> \o <<b>> \o <<c>> = <<a, b, c>>
<1>1. /\ <<c>> \in Seq(Ranges) /\ <<a, b, c>> \in Seq(Ranges)
      /\ Len(<<c>>) = 1 /\ Len(<<a, b, c>>) = 3
  OBVIOUS
<1>2. /\ <<a, b>> \o <<c>> \in Seq(Ranges) /\ Len(<<a, b>> \o <<c>>) = 3
      /\ (<<a, b>> \o <<c>>)[1] = a /\ (<<a, b>> \o <<c>>)[2] = b
      /\ (<<a, b>> \o <<c>>)[3] = c
  BY <1>1, Pair, ConcatProperties
<1>3. \A i \in 1 .. 3 : (<<a, b>> \o <<c>>)[i] = <<a, b, c>>[i]
  BY <1>1, <1>2
<1>4. <<a, b>> \o <<c>> = <<a, b, c>>
  BY <1>1, <1>2, <1>3, SeqEqual
<1> QED BY <1>1, <1>4, Pair

(* What two and three ranges cover, and when the last may be dropped.      *)
LEMMA PairFacts ==
  ASSUME NEW a \in Ranges, NEW b \in Ranges, NEW events
  PROVE  /\ \A e : Covers(a, e) \/ Covers(b, e) =>
              \E i \in 1 .. Len(<<a, b>>) : Covers(<<a, b>>[i], e)
         /\ ~a.late /\ (b.late => Heavy(events, a)) => Guarded(events, <<a, b>>)
<1> DEFINE s == <<a, b>>
<1>1. Len(s) = 2 /\ s[1] = a /\ s[2] = b
  BY Pair
<1> HIDE DEF s
<1>2. \A e : Covers(a, e) \/ Covers(b, e) => \E i \in 1 .. Len(s) : Covers(s[i], e)
  BY <1>1
<1>3. ASSUME ~a.late, b.late => Heavy(events, a) PROVE Guarded(events, s)
  <2> SUFFICES ASSUME NEW i \in 1 .. Len(s), s[i].late
               PROVE  \E j \in 1 .. i - 1 : Heavy(events, s[j])
    BY DEF Guarded
  <2>1. i = 2
    BY <1>1, <1>3
  <2> QED BY <1>1, <1>3, <2>1
<1> QED BY <1>2, <1>3 DEF s

LEMMA TripleFacts ==
  ASSUME NEW a \in Ranges, NEW b \in Ranges, NEW c \in Ranges, NEW events
  PROVE  /\ \A e : Covers(a, e) \/ Covers(b, e) \/ Covers(c, e) =>
              \E i \in 1 .. Len(<<a, b, c>>) : Covers(<<a, b, c>>[i], e)
         /\ ~a.late /\ ~b.late /\ Heavy(events, b) => Guarded(events, <<a, b, c>>)
<1> DEFINE s == <<a, b, c>>
<1>1. Len(s) = 3 /\ s[1] = a /\ s[2] = b /\ s[3] = c
  BY Triple
<1> HIDE DEF s
<1>2. \A e : Covers(a, e) \/ Covers(b, e) \/ Covers(c, e) =>
        \E i \in 1 .. Len(s) : Covers(s[i], e)
  BY <1>1
<1>3. ASSUME ~a.late, ~b.late, Heavy(events, b) PROVE Guarded(events, s)
  <2> SUFFICES ASSUME NEW i \in 1 .. Len(s), s[i].late
               PROVE  \E j \in 1 .. i - 1 : Heavy(events, s[j])
    BY DEF Guarded
  <2>1. i = 3
    BY <1>1, <1>3
  <2> QED BY <1>1, <1>3, <2>1
<1> QED BY <1>2, <1>3 DEF s

LEMMA PartsCover ==
  ASSUME NEW r \in Ranges, NEW events, IsFiniteSet(events),
         \A e \in events : e.at \in Instants,
         NEW answer \in SUBSET {e \in events : Covers(r, e)}, Full(answer), r.from # r.to
  PROVE  /\ Parts(r, answer) \in Seq(Ranges)
         /\ \A e \in events : Covers(r, e) =>
              \E i \in 1 .. Len(Parts(r, answer)) : Covers(Parts(r, answer)[i], e)
         /\ Guarded(events, Parts(r, answer))
<1> DEFINE ats == {e.at : e \in answer}
           first == Min(ats)
           last == Max(ats)
           middle == r.from + (r.to - r.from) \div 2
<1>1. IsFiniteSet(answer) /\ \A e \in answer : e.at \in Instants
  BY FS_Subset
<1>2. first \in Nat /\ last \in Nat /\ \A e \in answer : first <= e.at /\ e.at <= last
  BY <1>1, FullFacts
<1>3. r.from \in Int /\ r.to \in Int /\ \A e \in events : e.at \in Int
  BY Sizes DEF Ranges, Instants
<1>4. middle \in Int
  BY <1>3
<1>5. CASE first = last
  <2> DEFINE one == Stretch(first, first)
             before == Stretch(r.from, first - 1)
             after == [Stretch(last + 1, r.to) EXCEPT !.late = TRUE]
             parts == (IF r.from < first THEN <<before>> ELSE <<>>)
                      \o <<one>>
                      \o (IF last < r.to THEN <<after>> ELSE <<>>)
  <2>1. Parts(r, answer) = parts
    BY <1>5 DEF Parts
  <2>2. /\ one \in Ranges /\ one.from = first /\ one.to = first /\ ~one.late
        /\ before \in Ranges /\ before.from = r.from /\ before.to = first - 1 /\ ~before.late
        /\ after \in Ranges /\ after.from = first + 1 /\ after.to = r.to
    <3>1. first - 1 \in Int /\ last + 1 \in Int /\ first \in Int /\ last + 1 = first + 1
      BY <1>2, <1>5
    <3> HIDE DEF first, last
    <3> QED BY <1>3, <3>1, StretchRange, LateStretch
  <2>3. Heavy(events, one)
    <3>1. answer \subseteq {e \in events : Covers(one, e)}
      BY <1>2, <1>3, <1>5, <2>2 DEF Covers
    <3>2. IsFiniteSet({e \in events : Covers(one, e)})
      BY FS_Subset
    <3>3. Cardinality(answer) <= Cardinality({e \in events : Covers(one, e)})
      BY <3>1, <3>2, FS_Subset
    <3>4. Cardinality(answer) \in Nat /\ Cardinality({e \in events : Covers(one, e)}) \in Nat
      BY <1>1, <3>2, FS_CardinalityType
    <3> QED BY <2>2, <3>3, <3>4, Sizes DEF Heavy, Full
  <2>4. \A e \in events : Covers(r, e) =>
          \/ r.from < first /\ Covers(before, e)
          \/ Covers(one, e)
          \/ last < r.to /\ Covers(after, e)
    BY <1>2, <1>3, <1>5, <2>2 DEF Covers
  <2> HIDE DEF one, before, after
  <2>5. CASE r.from < first /\ last < r.to
    <3>1. parts = <<before, one, after>>
      BY <2>2, <2>5, Triple
    <3> HIDE DEF parts
    <3> QED BY <2>1, <2>2, <2>3, <2>4, <3>1, Triple, TripleFacts
  <2>6. CASE r.from < first /\ ~(last < r.to)
    <3>1. parts = <<before, one>>
      BY <2>2, <2>6, Pair, ConcatEmptySeq
    <3> HIDE DEF parts
    <3> QED BY <2>1, <2>2, <2>4, <2>6, <3>1, Pair, PairFacts
  <2>7. CASE ~(r.from < first) /\ last < r.to
    <3>1. parts = <<one, after>>
      <4>1. <<one>> \in Seq(Ranges)
        BY <2>2
      <4>2. <<>> \o <<one>> = <<one>>
        BY <4>1, ConcatEmptySeq
      <4> QED BY <2>2, <2>7, <4>2, Pair
    <3> HIDE DEF parts
    <3> QED BY <2>1, <2>2, <2>3, <2>4, <2>7, <3>1, Pair, PairFacts
  <2>8. CASE ~(r.from < first) /\ ~(last < r.to)
    <3>1. parts = <<one>>
      BY <2>8
    <3> QED BY <2>1, <2>2, <2>3, <2>4, <2>8, <3>1 DEF Guarded
  <2> QED BY <2>5, <2>6, <2>7, <2>8
<1>6. CASE first # last /\ middle = r.from
  <2> DEFINE low == Stretch(r.from, r.from)
             high == Stretch(r.to, r.to)
  <2>1. Parts(r, answer) = <<low, high>>
    BY <1>6 DEF Parts
  <2>2. /\ low \in Ranges /\ low.from = r.from /\ low.to = r.from /\ ~low.late
        /\ high \in Ranges /\ high.from = r.to /\ high.to = r.to /\ ~high.late
    BY <1>3, StretchRange
  <2>3. \A e \in events : Covers(r, e) => Covers(low, e) \/ Covers(high, e)
    BY <1>3, <1>6, <2>2, Halves DEF Covers
  <2> HIDE DEF low, high
  <2> QED BY <2>1, <2>2, <2>3 DEF Guarded
<1>7. CASE first # last /\ middle # r.from
  <2> DEFINE low == Stretch(r.from, middle)
             high == Stretch(middle, r.to)
  <2>1. Parts(r, answer) = <<low, high>>
    BY <1>7 DEF Parts
  <2>2. /\ low \in Ranges /\ low.from = r.from /\ low.to = middle /\ ~low.late
        /\ high \in Ranges /\ high.from = middle /\ high.to = r.to /\ ~high.late
    BY <1>3, <1>4, StretchRange
  <2> HIDE DEF middle
  <2>3. \A e \in events : Covers(r, e) => Covers(low, e) \/ Covers(high, e)
    BY <1>3, <1>4, <2>2 DEF Covers
  <2> HIDE DEF low, high
  <2> QED BY <2>1, <2>2, <2>3 DEF Guarded
<1> QED BY <1>5, <1>6, <1>7

-----------------------------------------------------------------------------
(* The reader *)

Busy == {"turn", "sent", "pause"}
Collections == {"collection", "job", "result"}
Readers == [asks : Collections \cup {"range", "none"}, pc : Busy \cup {"visit", "over"},
            attempt : 1 .. MaxAttempts, wake : Int, todo : Seq(Ranges), failed : BOOLEAN,
            partial : BOOLEAN]
Retained(events) == {g \in [all : SUBSET events, named : SUBSET events] : g.named \subseteq g.all}

(* The collection comes first, then the ranges.  While no request for a    *)
(* range failed, every event is retained or still to be asked for, and a   *)
(* range is only dropped after an instant that is too crowded.             *)
Progress ==
  \/ /\ reader.asks = "none" /\ reader.pc = "over"
     /\ ~reader.partial => got.named = mode.events
  \/ /\ reader.asks \in Collections /\ reader.pc \in Busy
     /\ reader.todo = <<>> /\ ~reader.failed
  \/ /\ reader.asks = "range" /\ reader.pc \in Busy \cup {"visit"}
     /\ reader.pc # "visit" => reader.todo # <<>>
     /\ \/ reader.failed
        \/ /\ Covered(mode.events, reader.todo, got.all)
           /\ Guarded(mode.events, reader.todo)
ReadInv == reader \in Readers /\ got \in Retained(mode.events) /\ Progress

LEMMA OverRead ==
  ASSUME ReadInv, mode' = mode, got' \in Retained(mode.events), NEW partial \in BOOLEAN,
         reader' = Over(partial), partial \/ got'.named = mode.events
  PROVE  ReadInv'
<1>1. /\ reader' \in Readers /\ reader'.asks = "none" /\ reader'.pc = "over"
      /\ reader'.partial = partial
  BY DEF ReadInv, Readers, Over, Busy
<1> QED BY <1>1 DEF ReadInv, Progress

LEMMA AskRead ==
  ASSUME reader \in Readers, now \in Nat, NEW what \in Collections \cup {"range"}
  PROVE  /\ Ask(what) \in Readers /\ Ask(what).asks = what /\ Ask(what).pc = "turn"
         /\ Ask(what).todo = reader.todo /\ Ask(what).failed = reader.failed
<1>1. 1 \in 1 .. MaxAttempts
  BY Sizes
<1>2. what \in Collections \cup {"range", "none"}
  OBVIOUS
<1> SUFFICES ASSUME NEW new, new = Ask(what)
             PROVE  /\ new \in Readers /\ new.asks = what /\ new.pc = "turn"
                    /\ new.todo = reader.todo /\ new.failed = reader.failed
  OBVIOUS
<1>3. new = [reader EXCEPT !.asks = what, !.pc = "turn", !.attempt = 1, !.wake = now]
  BY DEF Ask
<1>4. new.asks = what /\ new.pc = "turn" /\ new.attempt = 1 /\ new.wake = now
      /\ new.todo = reader.todo /\ new.failed = reader.failed
  BY <1>3 DEF Readers
<1>5. new \in Readers
  <2>1. new = [asks |-> what, pc |-> "turn", attempt |-> 1, wake |-> now, todo |-> reader.todo,
               failed |-> reader.failed, partial |-> reader.partial]
    BY <1>3 DEF Readers
  <2>2. /\ reader.todo \in Seq(Ranges) /\ reader.failed \in BOOLEAN
        /\ reader.partial \in BOOLEAN /\ now \in Int
    BY DEF Readers
  <2> QED BY <1>1, <1>2, <2>1, <2>2 DEF Readers, Busy
<1> QED BY <1>4, <1>5

(* The first range is the whole window.                                    *)
LEMMA FallbackRead ==
  ASSUME ReadInv, mode \in Modes, mode' = mode, reader.asks \in Collections,
         got' \in Retained(mode.events), reader' = Fallback
  PROVE  ReadInv'
<1>1. reader.todo = <<>> /\ ~reader.failed /\ reader \in Readers
  BY DEF ReadInv, Progress, Collections
<1>2. CASE Expired
  BY <1>2, OverRead DEF Fallback
<1>3. CASE ~Expired
  <2> DEFINE all == Stretch(0, Span - 1)
  <2>1. all \in Ranges /\ all.from = 0 /\ all.to = Span - 1 /\ ~all.late
    BY Sizes, StretchRange
  <2>2. reader' = [reader EXCEPT !.asks = "range", !.pc = "visit", !.todo = <<all>>]
    BY <1>3 DEF Fallback
  <2>3. \A e \in mode.events : Covers(all, e)
    BY <2>1, ModeFacts DEF Covers, Instants
  <2> HIDE DEF all
  <2>4. <<all>> \in Seq(Ranges) /\ Len(<<all>>) = 1 /\ <<all>>[1] = all
    BY <2>1
  <2>5. /\ reader' \in Readers /\ reader'.asks = "range" /\ reader'.pc = "visit"
        /\ reader'.todo = <<all>>
    BY <1>1, <2>2, <2>4 DEF Readers, Busy
  <2>6. Covered(mode.events, <<all>>, got'.all)
    BY <2>3, <2>4 DEF Covered
  <2>7. Guarded(mode.events, <<all>>)
    BY <2>1, <2>4 DEF Guarded
  <2> QED BY <2>5, <2>6, <2>7 DEF ReadInv, Progress
<1> QED BY <1>2, <1>3

(* The first range is answered, divided or given up.                       *)
LEMMA ProceedRead ==
  ASSUME ReadInv, mode' = mode, got' \in Retained(mode.events),
         reader.asks = "range", reader.todo # <<>>,
         NEW parts \in Seq(Ranges), NEW failed \in BOOLEAN, reader' = Proceed(parts, failed),
         \/ failed
         \/ reader.failed
         \/ /\ got.all \subseteq got'.all /\ Guarded(mode.events, parts)
            /\ ~Heavy(mode.events, Head(reader.todo))
            /\ \A e \in mode.events : Covers(Head(reader.todo), e) =>
                 e \in got'.all \/ \E i \in 1 .. Len(parts) : Covers(parts[i], e)
  PROVE  ReadInv'
<1>1. reader \in Readers /\ reader.todo \in Seq(Ranges)
  BY DEF ReadInv, Readers
<1>2. parts \o Tail(reader.todo) \in Seq(Ranges)
  BY <1>1, Replaced
<1>3. /\ reader' \in Readers /\ reader'.asks = "range" /\ reader'.pc = "visit"
      /\ reader'.todo = parts \o Tail(reader.todo)
      /\ reader'.failed = (reader.failed \/ failed)
  BY <1>1, <1>2 DEF Proceed, Readers, Busy
<1>4. CASE failed \/ reader.failed
  BY <1>3, <1>4 DEF ReadInv, Progress
<1>5. CASE ~failed /\ ~reader.failed
  <2>1. Covered(mode.events, reader.todo, got.all) /\ Guarded(mode.events, reader.todo)
    BY <1>5 DEF ReadInv, Progress, Collections
  <2>2. Covered(mode.events, reader'.todo, got'.all)
    BY <1>1, <1>3, <1>5, <2>1, StillCovered
  <2>3. Guarded(mode.events, reader'.todo)
    BY <1>1, <1>3, <1>5, <2>1, StillGuarded
  <2> QED BY <1>3, <2>2, <2>3 DEF ReadInv, Progress
<1> QED BY <1>4, <1>5

LEMMA FailedRead ==
  ASSUME ReadInv, mode \in Modes, mode' = mode, got' \in Retained(mode.events),
         reader.pc \in Busy, reader' = Failed
  PROVE  ReadInv'
<1>1. CASE reader.asks = "range"
  <2>1. reader' = Proceed(<<>>, TRUE)
    BY <1>1 DEF Failed
  <2>2. reader.todo # <<>>
    BY <1>1 DEF ReadInv, Progress, Collections, Busy
  <2>3. <<>> \in Seq(Ranges)
    OBVIOUS
  <2> QED BY <1>1, <2>1, <2>2, <2>3, ProceedRead
<1>2. CASE reader.asks # "range"
  <2>1. reader' = Fallback
    BY <1>2 DEF Failed
  <2>2. reader.asks \in Collections
    BY <1>2 DEF ReadInv, Progress, Busy
  <2> QED BY <2>1, <2>2, FallbackRead
<1> QED BY <1>1, <1>2

(* Waiting, and asking again.                                              *)
LEMMA WaitRead ==
  ASSUME ReadInv, mode' = mode, got' = got, reader' \in Readers,
         reader.pc \in Busy, reader'.pc \in Busy, reader'.asks = reader.asks,
         reader'.todo = reader.todo, reader'.failed = reader.failed
  PROVE  ReadInv'
BY DEF ReadInv, Progress, Collections, Busy

LEMMA CollectRead ==
  ASSUME ReadInv, mode' = mode, got' = got, reader' \in Readers,
         reader.asks \in Collections, reader'.asks \in Collections, reader'.pc \in Busy,
         reader'.todo = reader.todo, reader'.failed = reader.failed
  PROVE  ReadInv'
BY DEF ReadInv, Progress, Collections, Busy

LEMMA SameRead ==
  ASSUME ReadInv, mode' = mode, UNCHANGED reading
  PROVE  ReadInv'
BY DEF ReadInv, Progress, reading

LEMMA RetainRead ==
  ASSUME NEW all, got \in Retained(all), NEW events \in SUBSET all, NEW bare, Retain(events, bare)
  PROVE  /\ got' \in Retained(all) /\ got'.all = got.all \cup events
         /\ bare = {} /\ got.named = got.all => got'.named = got'.all
         /\ bare = {} => events \subseteq got'.named
<1>1. got' = [all |-> got.all \cup events, named |-> got.named \cup (events \ bare)]
  BY DEF Retain
<1> QED BY <1>1 DEF Retained

(* The answer to a range retains its events; a full one leaves parts to    *)
(* ask for, unless it is of one instant.                                   *)
LEMMA InCovered ==
  ASSUME NEW r
  PROVE  In(r) = {e \in mode.events : Covers(r, e)}
BY DEF In, Covers

LEMMA AnswerFacts ==
  ASSUME mode \in Modes, NEW r, NEW answer \in SUBSET In(r),
         Cardinality(answer) = Least(Cardinality(In(r)), Limit)
  PROVE  /\ IsFiniteSet(answer) /\ IsFiniteSet(In(r)) /\ answer \in SUBSET mode.events
         /\ ~Full(answer) => answer = In(r) /\ ~Heavy(mode.events, r)
<1>1. IsFiniteSet(mode.events)
  BY ModeFacts
<1>2. IsFiniteSet(In(r)) /\ In(r) \subseteq mode.events
  BY <1>1, FS_Subset DEF In
<1>3. IsFiniteSet(answer) /\ Cardinality(answer) \in Nat /\ Cardinality(In(r)) \in Nat
  BY <1>2, FS_Subset, FS_CardinalityType
<1>4. ASSUME ~Full(answer) PROVE answer = In(r) /\ ~Heavy(mode.events, r)
  <2>1. Cardinality(answer) < Limit /\ Cardinality(answer) = Cardinality(In(r))
    BY <1>3, <1>4, Sizes DEF Full, Least
  <2>2. answer = In(r)
    BY <2>1, <1>2, FS_Subset
  <2>3. Cardinality({e \in mode.events : Covers(r, e)}) < Limit
    BY <2>1, InCovered
  <2>4. ~(Cardinality({e \in mode.events : Covers(r, e)}) >= Limit)
    BY <2>1, <2>3, <1>3, InCovered, Sizes
  <2> QED BY <2>2, <2>4 DEF Heavy
<1> QED BY <1>2, <1>3, <1>4

LEMMA MeetMode ==
  ASSUME NEW what, Meet(what)
  PROVE  mode' = mode
BY DEF Meet

LEMMA RangeAnswered ==
  ASSUME ReadInv, mode \in Modes, Asked("range"), RangeRead
  PROVE  ReadInv'
<1> DEFINE r == Head(reader.todo)
<1>1. /\ reader.asks = "range" /\ reader.todo # <<>> /\ reader.pc \in Busy
      /\ reader.todo \in Seq(Ranges) /\ r \in Ranges /\ got \in Retained(mode.events)
  BY HeadTailProperties DEF ReadInv, Progress, Readers, Asked, Busy, Collections
<1> DEFINE after(answer) ==
             IF ~Full(answer) THEN Proceed(<<>>, FALSE)
             ELSE IF r.from = r.to THEN Proceed(<<>>, TRUE)
             ELSE Proceed(Parts(r, answer), FALSE)
<1>2. PICK answer \in SUBSET In(r) :
        /\ Cardinality(answer) = Least(Cardinality(In(r)), Limit)
        /\ Read(answer, after(answer))
  BY DEF RangeRead
<1>3. /\ IsFiniteSet(answer) /\ answer \in SUBSET mode.events
      /\ ~Full(answer) => answer = In(r) /\ ~Heavy(mode.events, r)
  <2> HIDE DEF r
  <2> QED BY <1>2, AnswerFacts
<1>4. /\ mode' = mode
      /\ \/ Retain(answer, {}) /\ reader' = after(answer)
         \/ (\E e \in answer : Retain(answer, {e})) /\ reader' = Failed
         \/ (\E some \in SUBSET answer : Retain(some, {})) /\ reader' = Failed
  BY <1>2, MeetMode DEF Read
<1>5. got' \in Retained(mode.events)
  BY <1>1, <1>3, <1>4, RetainRead
<1>6. CASE reader' = Failed
  BY <1>1, <1>4, <1>5, <1>6, FailedRead
<1>7. CASE Retain(answer, {}) /\ reader' = after(answer)
  <2>1. got'.all = got.all \cup answer
    BY <1>1, <1>3, <1>7, RetainRead
  <2>2. <<>> \in Seq(Ranges) /\ Guarded(mode.events, <<>>)
    BY DEF Guarded
  <2> HIDE DEF r
  <2>3. CASE ~Full(answer)
    <3>1. reader' = Proceed(<<>>, FALSE)
      BY <1>7, <2>3
    <3>2. \A e \in mode.events : Covers(r, e) => e \in got'.all
      BY <1>3, <2>1, <2>3, InCovered
    <3> QED BY <1>1, <1>3, <1>4, <1>5, <2>1, <2>2, <2>3, <3>1, <3>2, ProceedRead DEF r
  <2>4. CASE Full(answer) /\ r.from = r.to
    <3>1. reader' = Proceed(<<>>, TRUE)
      BY <1>7, <2>4
    <3> QED BY <1>1, <1>4, <1>5, <2>2, <3>1, ProceedRead
  <2>5. CASE Full(answer) /\ r.from # r.to
    <3>1. reader' = Proceed(Parts(r, answer), FALSE)
      BY <1>7, <2>5
    <3>2. /\ Parts(r, answer) \in Seq(Ranges) /\ Guarded(mode.events, Parts(r, answer))
          /\ \A e \in mode.events : Covers(r, e) =>
               \E i \in 1 .. Len(Parts(r, answer)) : Covers(Parts(r, answer)[i], e)
      BY <1>1, <1>2, <2>5, ModeFacts, InCovered, PartsCover
    <3>3. ~Heavy(mode.events, r)
      BY <2>5 DEF Heavy
    <3> QED BY <1>1, <1>4, <1>5, <2>1, <3>1, <3>2, <3>3, ProceedRead DEF r
  <2> QED BY <2>3, <2>4, <2>5
<1> QED BY <1>4, <1>6, <1>7

(* A range is visited: asked for, given up at the deadline, or the last.   *)
LEMMA Visited ==
  ASSUME ReadInv, mode \in Modes, now \in Nat, Visit
  PROVE  ReadInv'
<1>1. /\ reader.asks = "range" /\ reader.todo \in Seq(Ranges) /\ mode' = mode /\ got' = got
      /\ got \in Retained(mode.events) /\ reader \in Readers /\ reader.pc = "visit"
  BY DEF ReadInv, Progress, Readers, Busy, Visit, pce
<1>2. CASE reader.todo = <<>>
  <2>1. reader' = Over(reader.failed \/ got.named # got.all)
    BY <1>2 DEF Visit
  <2>2. ASSUME ~reader.failed, got.named = got.all PROVE got.named = mode.events
    <3>1. Covered(mode.events, reader.todo, got.all)
      BY <2>2, <1>1 DEF ReadInv, Progress, Collections
    <3>2. mode.events \subseteq got.all
      BY <1>2, <3>1 DEF Covered
    <3> QED BY <3>2, <2>2, <1>1 DEF Retained
  <2>3. (reader.failed \/ got.named # got.all) \in BOOLEAN
    BY <1>1 DEF Readers
  <2>4. (reader.failed \/ got.named # got.all) \/ got'.named = mode.events
    BY <2>2, <1>1
  <2> HIDE DEF Over
  <2> QED BY <1>1, <2>1, <2>3, <2>4, OverRead
<1>3. CASE reader.todo # <<>> /\ Expired
  <2> DEFINE late == Head(reader.todo).late
  <2>1. reader' = Proceed(<<>>, ~late)
    BY <1>3 DEF Visit
  <2>2. Head(reader.todo) = reader.todo[1] /\ 1 \in 1 .. Len(reader.todo)
    BY <1>1, <1>3, <2>1, Replaced, EmptySeq, LenProperties
  <2>3. late => reader.failed
    <3> SUFFICES ASSUME late, ~reader.failed PROVE FALSE
      BY <1>1 DEF Readers
    <3>1. Guarded(mode.events, reader.todo)
      BY <1>1 DEF ReadInv, Progress, Collections
    <3> QED BY <2>2, <3>1 DEF Guarded
  <2>4. Head(reader.todo) \in Ranges
    BY <1>1, <1>3, HeadTailProperties
  <2>5. late \in BOOLEAN
    BY <2>4 DEF Ranges
  <2>6. <<>> \in Seq(Ranges)
    OBVIOUS
  <2> HIDE DEF late
  <2>7. CASE late
    <3>1. reader.failed /\ reader' = Proceed(<<>>, FALSE)
      BY <2>1, <2>3, <2>7
    <3> QED BY <1>1, <1>3, <2>6, <3>1, ProceedRead
  <2>8. CASE ~late
    <3>1. reader' = Proceed(<<>>, TRUE)
      BY <2>1, <2>8
    <3> QED BY <1>1, <1>3, <2>6, <3>1, ProceedRead
  <2> QED BY <2>7, <2>8
<1>4. CASE reader.todo # <<>> /\ ~Expired
  <2>1. reader' = Ask("range")
    BY <1>4 DEF Visit
  <2>2. /\ reader' \in Readers /\ reader'.asks = "range" /\ reader'.pc = "turn"
        /\ reader'.todo = reader.todo /\ reader'.failed = reader.failed
    BY <1>1, <2>1, AskRead
  <2> QED BY <1>1, <1>4, <2>2 DEF ReadInv, Progress, Busy, Collections
<1> QED BY <1>2, <1>3, <1>4

-----------------------------------------------------------------------------
(* Every step *)

Times == 0 .. mode.deadline
TypeInv ==
  /\ PaceInv /\ ReadInv
  /\ now \in Times /\ calls \in 0 .. mode.calls
  /\ spent \in [Troubles -> Nat]

CallType == [Callers -> [pc : {"idle", "turn", "sent"}, attempt : 0 .. MaxAttempts, wake : Int]]

LEMMA InitTyped == Init => TypeInv
<1> SUFFICES ASSUME Init PROVE TypeInv
  OBVIOUS
<1>1. mode \in Modes /\ mode.burst \in Nat /\ mode.calls \in Nat /\ mode.deadline \in Nat
  BY ModeFacts DEF Init
<1>2. PICK t \in Rates : limit = [target |-> t, rate |-> t, tokens |-> mode.burst, refilled |-> 0,
                                  recover |-> 0, backoff |-> 0]
  BY DEF Init, Rates
<1>3. limit \in Limiters /\ limit.rate \in Lowest(limit.target) .. limit.target
  BY <1>1, <1>2, LowestRate, Sizes DEF Limiters
<1>4. limit.tokens + (now - limit.refilled) * HighRate = mode.burst
  BY <1>1, <1>2, Sizes DEF Init
<1>5. ideal = [bucket |-> mode.burst, held |-> 0] /\ now = 0 /\ used = 0 /\ calls = 0
  BY DEF Init
<1>6. ideal.bucket >= Least(mode.burst, mode.burst)
  BY <1>1, <1>5 DEF Least
<1>7. call \in CallType
  BY Sizes DEF Init, Idle, CallType
<1>8. PaceInv
  BY <1>1, <1>2, <1>3, <1>4, <1>5, <1>6, <1>7, Sizes DEF PaceInv, CallType
<1>9. reader \in Readers
  <2>1. <<>> \in Seq(Ranges) /\ 1 \in 1 .. MaxAttempts
    BY Sizes
  <2> QED BY <2>1 DEF Init, Readers, Collections, Busy
<1>10. ReadInv
  BY <1>9 DEF Init, ReadInv, Progress, Retained, Collections, Busy
<1> QED BY <1>1, <1>5, <1>8, <1>10 DEF Init, TypeInv, Times

(* Steps that leave the limiter alone.                                     *)
LEMMA PaceKept ==
  ASSUME PaceInv, UNCHANGED <<mode, now, bucket>>, call' \in CallType
  PROVE  PaceInv'
BY DEF PaceInv, bucket, CallType

LEMMA MeetSpent ==
  ASSUME spent \in [Troubles -> Nat], NEW what, Meet(what)
  PROVE  /\ spent' \in [Troubles -> Nat]
         /\ \A x \in Troubles : spent'[x] = IF x \in what THEN spent[x] + 1 ELSE spent[x]
BY DEF Meet

LEMMA TickPaced ==
  ASSUME TypeInv, Tick
  PROVE  TypeInv'
<1> USE DEF TypeInv
<1>1. /\ mode' = mode /\ limit' = limit /\ used' = used /\ UNCHANGED <<others, reading, spent>>
      /\ now' = now + 1 /\ now < mode.deadline
      /\ ideal' = [ideal EXCEPT !.bucket = Least(@ + HighRate, mode.burst)]
  BY DEF Tick, pce
<1>2. /\ mode.burst \in Nat /\ mode.deadline \in Nat /\ limit \in Limiters /\ now \in Nat
      /\ ideal \in [bucket : Int, held : Nat] /\ limit.refilled \in Nat /\ limit.tokens \in Nat
      /\ limit.backoff \in Nat
  BY ModeFacts DEF PaceInv, Limiters
<1>3. /\ ideal' \in [bucket : Int, held : Nat] /\ ideal'.held = ideal.held
      /\ ideal'.bucket = Least(ideal.bucket + HighRate, mode.burst)
  BY <1>1, <1>2, Sizes DEF Least
<1> DEFINE past == now - limit.refilled
<1>4. past \in Nat /\ now' - limit'.refilled = past + 1
  BY <1>1, <1>2 DEF PaceInv
<1>5. (past + 1) * HighRate = past * HighRate + HighRate /\ past * HighRate \in Nat
  <2> HIDE DEF past
  <2> QED BY <1>4, Sizes, Later
<1>6. ideal'.bucket >= Least(mode.burst, limit.tokens + (past + 1) * HighRate)
  <2>1. ideal.bucket >= Least(mode.burst, limit.tokens + past * HighRate)
    BY DEF PaceInv
  <2> HIDE DEF past
  <2> QED BY <1>2, <1>3, <1>5, <2>1, Sizes DEF Least
<1>7. PaceInv'
  <2>1. ideal'.bucket >= Least(mode'.burst, limit'.tokens + (now' - limit'.refilled) * HighRate)
    <3> HIDE DEF past
    <3> QED BY <1>1, <1>4, <1>6
  <2>2. limit'.refilled <= now' /\ limit'.backoff <= now' + MaxWait /\ now' \in Nat
    BY <1>1, <1>2, Sizes DEF PaceInv
  <2> QED BY <1>1, <1>3, <2>1, <2>2 DEF PaceInv, others
<1>8. ReadInv'
  BY <1>1, SameRead
<1> QED BY <1>1, <1>2, <1>7, <1>8 DEF others, Times

LEMMA ConfigurePaced ==
  ASSUME TypeInv, NEW target \in Rates, Configure(target)
  PROVE  TypeInv'
<1> USE DEF TypeInv
<1> DEFINE rate == Most(Least(limit.rate, target), Lowest(target))
<1>1. /\ mode' = mode /\ UNCHANGED <<now, used, ideal, others, reading>>
      /\ limit' = [limit EXCEPT !.target = target, !.rate = rate]
      /\ spent' \in [Troubles -> Nat]
  BY MeetMode, MeetSpent DEF Configure
<1>2. rate \in Lowest(target) .. target /\ rate \in Nat
  <2>1. limit.rate \in Nat /\ target \in Nat
    BY Sizes DEF PaceInv, Limiters
  <2>2. Lowest(target) \in Nat /\ Lowest(target) <= target
    BY LowestRate
  <2> QED BY <2>1, <2>2 DEF Most, Least
<1> HIDE DEF rate
<1>3. /\ limit' \in Limiters /\ limit'.target = target /\ limit'.rate = rate
      /\ limit'.tokens = limit.tokens /\ limit'.refilled = limit.refilled
      /\ limit'.backoff = limit.backoff
  BY <1>1, <1>2 DEF PaceInv, Limiters
<1>4. PaceInv'
  BY <1>1, <1>2, <1>3 DEF PaceInv, others
<1>5. ReadInv'
  BY <1>1, SameRead
<1> QED BY <1>1, <1>4, <1>5 DEF others, Times

PacedStep == used' # used => ideal.bucket >= Cost /\ now >= ideal.held

LEMMA CallTyped ==
  ASSUME call \in CallType, NEW c \in Callers, NEW pc \in {"idle", "turn", "sent"},
         NEW attempt \in 0 .. MaxAttempts, NEW wake \in Int
  PROVE  [call EXCEPT ![c] = [pc |-> pc, attempt |-> attempt, wake |-> wake]] \in CallType
BY DEF CallType

LEMMA CallPaced ==
  ASSUME TypeInv, NEW c \in Callers, Call(c)
  PROVE  TypeInv' /\ PacedStep
<1> USE DEF TypeInv
<1>1. /\ call \in CallType /\ call[c].pc \in {"idle", "turn", "sent"}
      /\ call[c].attempt \in 0 .. MaxAttempts /\ call[c].wake \in Int
      /\ call[c] = [pc |-> call[c].pc, attempt |-> call[c].attempt, wake |-> call[c].wake]
      /\ now \in Int /\ mode.calls \in Nat
  BY ModeFacts DEF PaceInv, CallType
<1>6. {0, 1} \subseteq 0 .. MaxAttempts /\ 0 \in Int
  BY Sizes
<1>2. CASE Begin(c)
  <2>1. /\ UNCHANGED <<mode, spent, now, bucket, reading>> /\ calls' \in 0 .. mode.calls
        /\ call' = [call EXCEPT ![c] = [pc |-> "turn", attempt |-> 1, wake |-> now]]
    BY <1>1, <1>2 DEF Begin, pce
  <2>2. call' \in CallType
    BY <1>1, <1>6, <2>1, CallTyped
  <2>3. used' = used
    BY <2>1 DEF bucket
  <2> QED BY <2>1, <2>2, <2>3, PaceKept, SameRead DEF Times, PacedStep
<1>3. CASE WaitTurn(c)
  <2>1. UNCHANGED <<mode, spent, now, calls, reading>>
    BY <1>3 DEF WaitTurn, pce
  <2>2. CASE Free
    <3>1. Granted /\ call' = [call EXCEPT ![c] = [pc |-> "sent", attempt |-> call[c].attempt,
                                                  wake |-> call[c].wake]]
      BY <1>1, <1>3, <2>2 DEF WaitTurn
    <3>2. call' \in CallType
      BY <1>1, <3>1, CallTyped
    <3>3. PaceInv' /\ PacedStep
      BY <2>1, <2>2, <3>1, <3>2, GrantedPaced DEF PacedStep, CallType
    <3> QED BY <2>1, <3>3, SameRead DEF Times
  <2>3. CASE ~Free
    <3>1. /\ limit' = Refilled /\ UNCHANGED <<used, ideal>>
          /\ call' = [call EXCEPT ![c] = [pc |-> call[c].pc, attempt |-> call[c].attempt,
                                          wake |-> SleepUntil]]
      BY <1>1, <1>3, <2>3 DEF WaitTurn
    <3>2. call' \in CallType
      BY <1>1, <3>1, SleepTime, CallTyped
    <3>3. PaceInv'
      BY <2>1, <3>1, <3>2, SleptPaced DEF CallType
    <3> QED BY <2>1, <3>1, <3>3, SameRead DEF Times, PacedStep
  <2> QED BY <2>2, <2>3
<1>4. CASE Returned(c)
  <2>1. /\ UNCHANGED <<mode, spent, now, bucket, calls, reading>>
        /\ call' = [call EXCEPT ![c] = [pc |-> "idle", attempt |-> 0, wake |-> 0]]
    BY <1>4 DEF Returned, pce, Idle
  <2>2. call' \in CallType
    BY <1>1, <1>6, <2>1, CallTyped
  <2>3. used' = used
    BY <2>1 DEF bucket
  <2> QED BY <2>1, <2>2, <2>3, PaceKept, SameRead DEF Times, PacedStep
<1>5. ASSUME NEW delay \in Delays, Limited(c, delay)
      PROVE  TypeInv' /\ PacedStep
  <2> DEFINE told == IF delay = 0 THEN 2 * call[c].attempt ELSE delay
  <2>1. /\ mode' = mode /\ UNCHANGED <<now, calls, reading>> /\ spent' \in [Troubles -> Nat]
        /\ NoteRateLimit(told)
        /\ call' = [call EXCEPT ![c] =
                      IF @.attempt = MaxAttempts THEN Idle
                      ELSE [pc |-> "turn", attempt |-> @.attempt + 1, wake |-> now]]
    BY <1>5, MeetMode, MeetSpent DEF Limited
  <2>2. told \in Nat
    BY <1>1, Sizes
  <2>3. call' \in CallType
    <3>1. CASE call[c].attempt = MaxAttempts
      <4>1. call' = [call EXCEPT ![c] = [pc |-> "idle", attempt |-> 0, wake |-> 0]]
        BY <2>1, <3>1 DEF Idle
      <4> QED BY <1>1, <1>6, <4>1, CallTyped
    <3>2. CASE call[c].attempt # MaxAttempts
      <4>1. call' = [call EXCEPT ![c] = [pc |-> "turn", attempt |-> call[c].attempt + 1,
                                         wake |-> now]]
        BY <2>1, <3>2
      <4>2. call[c].attempt + 1 \in 0 .. MaxAttempts
        BY <1>1, <3>2, Sizes
      <4> QED BY <1>1, <4>1, <4>2, CallTyped
    <3> QED BY <3>1, <3>2
  <2> HIDE DEF told
  <2>4. PaceInv'
    BY <2>1, <2>2, <2>3, HeldPaced DEF CallType
  <2>5. used' = used
    BY <2>1 DEF NoteRateLimit
  <2> QED BY <2>1, <2>4, <2>5, SameRead DEF Times, PacedStep
<1> QED BY <1>2, <1>3, <1>4, <1>5 DEF Call

LEMMA TurnPaced ==
  ASSUME TypeInv, ReaderTurn
  PROVE  TypeInv' /\ PacedStep
<1> USE DEF TypeInv
<1>1. /\ UNCHANGED <<mode, spent, now, call, calls, got>> /\ reader.pc = "turn"
      /\ mode \in Modes /\ call' \in CallType /\ got \in Retained(mode.events)
      /\ reader \in Readers /\ reader.pc \in Busy
  BY DEF ReaderTurn, pce, others, PaceInv, CallType, ReadInv, Busy
<1>2. CASE Expired /\ reader' = Failed /\ UNCHANGED bucket
  <2>1. ReadInv'
    BY <1>1, <1>2, FailedRead
  <2>2. used' = used
    BY <1>2 DEF bucket
  <2> QED BY <1>1, <1>2, <2>1, <2>2, PaceKept DEF Times, PacedStep
<1>3. CASE Free /\ Granted /\ reader' = [reader EXCEPT !.pc = "sent"]
  <2>1. reader' \in Readers /\ reader'.pc \in Busy /\ reader'.asks = reader.asks
        /\ reader'.todo = reader.todo /\ reader'.failed = reader.failed
    BY <1>1, <1>3 DEF Readers, Busy
  <2>2. ReadInv'
    BY <1>1, <2>1, WaitRead
  <2>3. PaceInv' /\ PacedStep
    BY <1>1, <1>3, GrantedPaced DEF PacedStep, CallType
  <2> QED BY <1>1, <2>2, <2>3 DEF Times
<1>4. CASE /\ limit' = Refilled /\ UNCHANGED <<used, ideal>>
           /\ reader' = [reader EXCEPT !.wake = SleepUntil]
  <2>1. reader' \in Readers /\ reader'.pc \in Busy /\ reader'.asks = reader.asks
        /\ reader'.todo = reader.todo /\ reader'.failed = reader.failed
    BY <1>1, <1>4, SleepTime DEF Readers, Busy
  <2>2. ReadInv'
    BY <1>1, <2>1, WaitRead
  <2>3. PaceInv'
    BY <1>1, <1>4, SleptPaced DEF CallType
  <2> QED BY <1>1, <1>4, <2>2, <2>3 DEF Times, PacedStep
<1> QED BY <1>2, <1>3, <1>4 DEF ReaderTurn

(* The reader's other steps, all but a 429, leave the limiter alone.       *)
LEMMA QuietTyped ==
  ASSUME TypeInv, ReadInv', mode' = mode, spent' \in [Troubles -> Nat],
         UNCHANGED <<now, bucket, others>>
  PROVE  TypeInv' /\ PacedStep
<1>1. call' \in CallType /\ calls' = calls /\ used' = used
  BY DEF TypeInv, PaceInv, CallType, others, bucket
<1> QED BY <1>1, PaceKept DEF TypeInv, Times, PacedStep

LEMMA ReadFacts ==
  ASSUME TypeInv
  PROVE  /\ reader \in Readers /\ got \in Retained(mode.events) /\ mode \in Modes /\ now \in Nat
         /\ reader.attempt \in 1 .. MaxAttempts /\ spent \in [Troubles -> Nat]
         /\ \A what \in Collections : Asked(what) =>
              reader.asks \in Collections /\ reader.pc \in Busy
BY DEF TypeInv, ReadInv, PaceInv, Readers, Asked, Busy

LEMMA RetriedRead ==
  ASSUME TypeInv, reader.pc \in Busy, NEW delay \in Nat, mode' = mode, got' = got,
         reader' = Retried(delay)
  PROVE  ReadInv'
<1>1. CASE reader.attempt = MaxAttempts
  BY <1>1, ReadFacts, FailedRead DEF Retried, TypeInv
<1>2. CASE reader.attempt # MaxAttempts
  <2>1. reader' = [reader EXCEPT !.pc = "pause", !.attempt = @ + 1, !.wake = now + delay]
    BY <1>2 DEF Retried
  <2>2. reader.attempt + 1 \in 1 .. MaxAttempts /\ now + delay \in Int
    BY <1>2, ReadFacts, Sizes
  <2>3. reader' \in Readers /\ reader'.pc \in Busy /\ reader'.asks = reader.asks
        /\ reader'.todo = reader.todo /\ reader'.failed = reader.failed
    BY <2>1, <2>2, ReadFacts DEF Readers, Busy
  <2> QED BY <2>3, WaitRead DEF TypeInv
<1> QED BY <1>1, <1>2

LEMMA TroubledPaced ==
  ASSUME TypeInv, Troubled
  PROVE  TypeInv' /\ PacedStep
<1>1. CASE RequestFails
  <2>1. /\ reader.pc \in Busy /\ mode' = mode /\ spent' \in [Troubles -> Nat]
        /\ reader' = Failed /\ UNCHANGED <<now, bucket, others, got>>
    BY <1>1, ReadFacts, MeetMode, MeetSpent DEF RequestFails, Busy, pce
  <2>2. ReadInv'
    BY <2>1, ReadFacts, FailedRead DEF TypeInv
  <2> QED BY <2>1, <2>2, QuietTyped
<1>2. ASSUME NEW delay \in Delays, Unavailable(delay)
      PROVE  TypeInv' /\ PacedStep
  <2>1. /\ reader.pc \in Busy /\ mode' = mode /\ spent' \in [Troubles -> Nat]
        /\ reader' = Retried(delay) /\ UNCHANGED <<now, bucket, others, got>>
    BY <1>2, ReadFacts, MeetMode, MeetSpent DEF Unavailable, Busy
  <2>2. ReadInv'
    BY <2>1, Sizes, RetriedRead
  <2> QED BY <2>1, <2>2, QuietTyped
<1>3. ASSUME NEW delay \in Delays, ReaderLimited(delay)
      PROVE  TypeInv' /\ PacedStep
  <2>1. /\ reader.pc \in Busy /\ mode' = mode /\ spent' \in [Troubles -> Nat]
        /\ reader' = Retried(delay) /\ NoteRateLimit(delay) /\ UNCHANGED <<now, others, got>>
    BY <1>3, ReadFacts, MeetMode, MeetSpent DEF ReaderLimited, Busy
  <2>2. ReadInv'
    BY <2>1, Sizes, RetriedRead
  <2>3. call' \in CallType /\ calls' = calls /\ used' = used
    BY <2>1 DEF TypeInv, PaceInv, CallType, others, NoteRateLimit
  <2>4. PaceInv'
    BY <2>1, <2>3, Sizes, HeldPaced DEF TypeInv, CallType
  <2> QED BY <2>1, <2>2, <2>3, <2>4 DEF TypeInv, Times, PacedStep
<1> QED BY <1>1, <1>2, <1>3 DEF Troubled

LEMMA ResumePaced ==
  ASSUME TypeInv, Resume
  PROVE  TypeInv' /\ PacedStep
<1>1. /\ reader.pc \in Busy /\ mode' = mode /\ spent' = spent
      /\ UNCHANGED <<now, bucket, others, got>>
  BY DEF Resume, Busy, pce
<1>2. CASE reader' = Failed
  <2>1. ReadInv'
    BY <1>1, <1>2, ReadFacts, FailedRead DEF TypeInv
  <2> QED BY <1>1, <2>1, ReadFacts, QuietTyped
<1>3. CASE reader' = [reader EXCEPT !.pc = "turn", !.wake = now]
  <2>1. reader' \in Readers /\ reader'.pc \in Busy /\ reader'.asks = reader.asks
        /\ reader'.todo = reader.todo /\ reader'.failed = reader.failed
    <3>1. reader \in Readers /\ now \in Int
      BY ReadFacts
    <3> QED BY <1>3, <3>1 DEF Readers, Busy
  <2>2. ReadInv'
    BY <1>1, <2>1, WaitRead DEF TypeInv
  <2> QED BY <1>1, <2>2, ReadFacts, QuietTyped
<1> QED BY <1>2, <1>3 DEF Resume

LEMMA PauseRead ==
  ASSUME TypeInv, NEW delay \in Nat, reader' = [Ask("job") EXCEPT !.pc = "pause", !.wake = now + delay]
  PROVE  /\ reader' \in Readers /\ reader'.pc \in Busy /\ reader'.asks \in Collections
         /\ reader'.todo = reader.todo /\ reader'.failed = reader.failed
<1> DEFINE job == Ask("job")
<1>1. job \in Readers /\ job.asks = "job" /\ job.todo = reader.todo /\ job.failed = reader.failed
  BY ReadFacts, AskRead DEF Collections
<1>2. now + delay \in Int
  BY ReadFacts
<1> HIDE DEF job
<1>3. reader' = [job EXCEPT !.pc = "pause", !.wake = now + delay]
  BY DEF job
<1> QED BY <1>1, <1>2, <1>3 DEF Readers, Busy, Collections

LEMMA CollectPaced ==
  ASSUME TypeInv, Collect
  PROVE  TypeInv' /\ PacedStep
<1> USE DEF TypeInv
<1>1. CASE PreferIgnored
  <2>1. /\ reader.asks \in Collections /\ reader' = Fallback /\ UNCHANGED <<now, bucket, others>>
    BY <1>1 DEF PreferIgnored, Asked, Collections
  <2>2. PICK some \in SUBSET mode.events :
          \/ Meet({"ignored"}) /\ Retain(some, {})
          \/ Meet({"ignored", "bare"}) /\ \E e \in some : Retain(some, {e})
    BY <1>1 DEF PreferIgnored
  <2>3. mode' = mode /\ spent' \in [Troubles -> Nat] /\ got' \in Retained(mode.events)
    BY <2>2, ReadFacts, MeetMode, MeetSpent, RetainRead
  <2>4. ReadInv'
    BY <2>1, <2>3, ReadFacts, FallbackRead
  <2> QED BY <2>1, <2>3, <2>4, QuietTyped
<1>2. CASE JobDone
  <2>1. /\ Asked("job") /\ reader' = Ask("result") /\ mode' = mode /\ spent' = spent
        /\ UNCHANGED <<now, bucket, others, got>>
    BY <1>2 DEF JobDone, pce
  <2>2. reader.asks \in Collections
    BY <2>1 DEF Asked, Collections
  <2>3. /\ reader' \in Readers /\ reader'.asks = "result" /\ reader'.pc = "turn"
        /\ reader'.todo = reader.todo /\ reader'.failed = reader.failed
    BY <2>1, ReadFacts, AskRead DEF Collections
  <2>4. ReadInv'
    BY <2>1, <2>2, <2>3, CollectRead DEF Collections, Busy
  <2> QED BY <2>1, <2>4, ReadFacts, QuietTyped
<1>3. CASE JobFails
  <2>1. /\ reader.asks \in Collections /\ reader' = Fallback /\ mode' = mode
        /\ spent' \in [Troubles -> Nat] /\ UNCHANGED <<now, bucket, others, got>>
    BY <1>3, ReadFacts, MeetMode, MeetSpent DEF JobFails, Asked, Collections
  <2>2. ReadInv'
    BY <2>1, ReadFacts, FallbackRead
  <2> QED BY <2>1, <2>2, QuietTyped
<1>4. CASE LinkUnsafe
  <2>1. /\ reader' = Over(TRUE) /\ mode' = mode /\ spent' \in [Troubles -> Nat]
        /\ UNCHANGED <<now, bucket, others, got>>
    BY <1>4, ReadFacts, MeetMode, MeetSpent DEF LinkUnsafe
  <2>2. ReadInv'
    BY <2>1, ReadFacts, OverRead
  <2> QED BY <2>1, <2>2, QuietTyped
<1>5. CASE ResultRead
  <2>1. /\ Asked("result") /\ UNCHANGED <<now, bucket, others>> /\ reader.pc \in Busy
        /\ Read(mode.events, Over(FALSE))
    BY <1>5 DEF ResultRead, Asked, Busy
  <2>2. /\ mode' = mode /\ spent' \in [Troubles -> Nat]
        /\ \/ Retain(mode.events, {}) /\ reader' = Over(FALSE)
           \/ (\E e \in mode.events : Retain(mode.events, {e})) /\ reader' = Failed
           \/ (\E some \in SUBSET mode.events : Retain(some, {})) /\ reader' = Failed
    BY <2>1, ReadFacts, MeetMode, MeetSpent DEF Read
  <2>3. got' \in Retained(mode.events)
    BY <2>2, ReadFacts, RetainRead
  <2>4. CASE Retain(mode.events, {}) /\ reader' = Over(FALSE)
    <3>1. mode.events \subseteq got'.named
      BY <2>4, ReadFacts, RetainRead
    <3>2. got'.named = mode.events
      BY <2>3, <3>1 DEF Retained
    <3>3. ReadInv'
      BY <2>2, <2>3, <2>4, <3>2, OverRead
    <3> QED BY <2>1, <2>2, <3>3, QuietTyped
  <2>5. CASE reader' = Failed
    <3>1. ReadInv'
      BY <2>1, <2>2, <2>3, <2>5, ReadFacts, FailedRead
    <3> QED BY <2>1, <2>2, <3>1, QuietTyped
  <2> QED BY <2>2, <2>4, <2>5
<1>6. ASSUME NEW delay \in Delays, Accepted(delay) \/ JobPending(delay)
      PROVE  TypeInv' /\ PacedStep
  <2>1. /\ reader.asks \in Collections /\ mode' = mode /\ spent' \in [Troubles -> Nat]
        /\ reader' = [Ask("job") EXCEPT !.pc = "pause", !.wake = now + delay]
        /\ UNCHANGED <<now, bucket, others, got>>
    BY <1>6, ReadFacts, MeetMode, MeetSpent DEF Accepted, JobPending, Asked, Collections, pce
  <2>2. ReadInv'
    BY <2>1, Sizes, PauseRead, CollectRead
  <2> QED BY <2>1, <2>2, QuietTyped
<1> QED BY <1>1, <1>2, <1>3, <1>4, <1>5, <1>6 DEF Collect

LEMMA NextTyped ==
  ASSUME TypeInv, [Next]_vars
  PROVE  TypeInv' /\ PacedStep
<1>1. CASE Tick
  <2>1. used' = used
    BY <1>1 DEF Tick
  <2> QED BY <1>1, <2>1, TickPaced DEF PacedStep
<1>2. ASSUME NEW target \in LowRate .. HighRate, Configure(target)
      PROVE  TypeInv' /\ PacedStep
  <2>1. used' = used
    BY <1>2 DEF Configure
  <2> QED BY <1>2, <2>1, ConfigurePaced DEF PacedStep, Rates
<1>3. CASE RangeRead
  <2>1. /\ Asked("range") /\ UNCHANGED <<now, bucket, others>>
        /\ mode' = mode /\ spent' \in [Troubles -> Nat]
    BY <1>3, ReadFacts, MeetMode, MeetSpent DEF RangeRead, Read
  <2>2. ReadInv'
    BY <1>3, <2>1, ReadFacts, RangeAnswered DEF TypeInv
  <2> QED BY <2>1, <2>2, QuietTyped
<1>4. CASE Visit
  <2>1. mode' = mode /\ spent' = spent /\ UNCHANGED <<now, bucket, others>>
    BY <1>4 DEF Visit, pce
  <2>2. ReadInv'
    BY <1>4, ReadFacts, Visited DEF TypeInv
  <2> QED BY <2>1, <2>2, ReadFacts, QuietTyped
<1>5. CASE UNCHANGED vars
  <2>1. /\ mode' = mode /\ spent' = spent /\ UNCHANGED <<now, bucket, others, reading>>
    BY <1>5 DEF vars, pce
  <2>2. ReadInv'
    BY <2>1, SameRead DEF TypeInv
  <2> QED BY <2>1, <2>2, ReadFacts, QuietTyped
<1> QED BY <1>1, <1>2, <1>3, <1>4, <1>5, CallPaced, TurnPaced, ResumePaced, CollectPaced,
           TroubledPaced DEF Next

LEMMA TypedOK ==
  ASSUME TypeInv
  PROVE  TypeOK
<1>1. /\ limit.tokens \in 0 .. mode.burst /\ limit.refilled \in 0 .. now
      /\ limit.backoff \in 0 .. now + MaxWait /\ limit.target \in LowRate .. HighRate
      /\ limit.rate \in Lowest(limit.target) .. limit.target
  BY ModeFacts, Sizes DEF TypeInv, PaceInv, Limiters, Rates
<1>2. \A c \in Callers : /\ call[c].pc \in {"idle", "turn", "sent"}
                         /\ call[c].attempt \in 0 .. MaxAttempts
  BY DEF TypeInv, PaceInv
<1>3. /\ reader.pc \in {"turn", "sent", "pause", "visit", "over"}
      /\ reader.asks \in {"collection", "job", "result", "range", "none"}
      /\ reader.attempt \in 1 .. MaxAttempts
  BY DEF TypeInv, ReadInv, Readers, Busy, Collections
<1>4. got.named \subseteq got.all /\ got.all \subseteq mode.events
  BY DEF TypeInv, ReadInv, Retained
<1> QED BY <1>1, <1>2, <1>3, <1>4 DEF TypeOK, TypeInv, PaceInv, Times

-----------------------------------------------------------------------------
(* The rate, the bucket and the back-off keep their bounds, and every      *)
(* record its type, however many callers share the limiter, fail, are held *)
(* by a 429 and see the configuration change (TypeOK).                     *)
THEOREM Typed == Spec => []TypeOK
<1>1. TypeInv /\ [Next]_vars => TypeInv'
  BY NextTyped
<1> QED BY <1>1, InitTyped, TypedOK, PTL DEF Spec

(* No caller takes a turn that the burst and the highest rate do not       *)
(* cover, or during a back-off that a 429 asked for (RequestsPaced).       *)
THEOREM Paced == Spec => RequestsPaced
<1>1. TypeInv /\ [Next]_vars => TypeInv'
  BY NextTyped
<1>2. TypeInv /\ [Next]_vars
        => [used' # used => ideal.bucket >= Cost /\ now >= ideal.held]_vars
  BY NextTyped DEF PacedStep
<1> QED BY <1>1, <1>2, InitTyped, PTL DEF Spec, RequestsPaced

(* An answer without an error has every event of the window with its       *)
(* workload, for any events, limit and deadline (AnswerComplete).          *)
THEOREM Complete == Spec => []AnswerComplete
<1>1. TypeInv /\ [Next]_vars => TypeInv'
  BY NextTyped
<1>2. TypeInv => AnswerComplete
  BY DEF TypeInv, ReadInv, Progress, AnswerComplete, Busy
<1> QED BY <1>1, <1>2, InitTyped, PTL DEF Spec

-----------------------------------------------------------------------------
(* What may be missing *)

(* The events of instants that one answer cannot show.                     *)
CrowdedIn(events) == {e \in events : Cardinality({x \in events : x.at = e.at}) >= Limit}

(* As long as requests are answered: events without their workload are     *)
(* none, an event is retained, still to be asked for or of a crowded       *)
(* instant, and only such an instant makes the answer a partial one.       *)
Tidy ==
  /\ got.named = got.all
  /\ reader.asks = "range" =>
       /\ Covered(mode.events, reader.todo, got.all \cup CrowdedIn(mode.events))
       /\ reader.failed => CrowdedIn(mode.events) # {}
  /\ reader.pc = "over" =>
       /\ mode.events \subseteq got.all \cup CrowdedIn(mode.events)
       /\ reader.partial => CrowdedIn(mode.events) # {}
TidyInv == ~Expired /\ Answered => Tidy

(* A step that leaves the time for answers is one that troubled none.      *)
LEMMA Calm ==
  ASSUME TypeInv, NEW what \in SUBSET Troubles, Meet(what), Answered'
  PROVE  /\ mode' = mode /\ Answered
         /\ what \subseteq {"ignored", "pending", "job"}
<1>1. /\ spent \in [Troubles -> Nat] /\ mode' = mode
      /\ \A x \in Troubles : spent'[x] = IF x \in what THEN spent[x] + 1 ELSE spent[x]
  BY MeetMode, MeetSpent DEF TypeInv
<1>2. ASSUME NEW x \in Troubles \ {"ignored", "pending", "job"}
      PROVE  x \notin what /\ spent[x] = 0
  <2>1. spent'[x] = 0 /\ spent[x] \in Nat
    BY <1>1 DEF Answered
  <2> QED BY <1>1, <2>1
<1> QED BY <1>1, <1>2 DEF Answered

(* Time does not run back.                                                 *)
LEMMA StillTime ==
  ASSUME TypeInv, now' = now \/ Tick, mode' = mode, ~Expired'
  PROVE  ~Expired
<1>1. now \in Nat /\ mode.deadline \in Nat
  BY ModeFacts DEF TypeInv, PaceInv
<1>2. now' = now \/ now' = now + 1
  BY DEF Tick
<1> QED BY <1>1, <1>2 DEF Expired

(* Steps of others, and steps that only wait.                              *)
LEMMA TidyKept ==
  ASSUME Tidy, mode' = mode, got' = got, reader'.asks = reader.asks, reader'.todo = reader.todo,
         reader'.failed = reader.failed, reader'.pc = reader.pc, reader'.partial = reader.partial
  PROVE  Tidy'
BY DEF Tidy

LEMMA TidyWaits ==
  ASSUME Tidy, mode' = mode, got' = got, reader'.asks = reader.asks, reader'.todo = reader.todo,
         reader'.failed = reader.failed, reader'.pc # "over"
  PROVE  Tidy'
BY DEF Tidy

LEMMA TidyRetained ==
  ASSUME TypeInv, Tidy, NEW events \in SUBSET mode.events, Retain(events, {})
  PROVE  got'.named = got'.all /\ got'.all = got.all \cup events
BY RetainRead DEF TypeInv, ReadInv, Tidy

(* Without the collection all of the window is to be asked for.            *)
LEMMA TidyFallback ==
  ASSUME TypeInv, reader.asks \in Collections, ~Expired, mode' = mode,
         got'.named = got'.all, reader' = Fallback
  PROVE  Tidy'
<1>1. reader \in Readers /\ mode \in Modes /\ ~reader.failed
  BY DEF TypeInv, ReadInv, PaceInv, Progress, Collections
<1> DEFINE all == Stretch(0, Span - 1)
<1>2. all \in Ranges /\ all.from = 0 /\ all.to = Span - 1
  BY Sizes, StretchRange
<1>3. \A e \in mode.events : Covers(all, e)
  BY <1>1, <1>2, ModeFacts DEF Covers, Instants
<1>4. reader' = [reader EXCEPT !.asks = "range", !.pc = "visit", !.todo = <<all>>]
  BY DEF Fallback
<1> HIDE DEF all
<1>5. /\ reader'.asks = "range" /\ reader'.pc = "visit" /\ reader'.todo = <<all>>
      /\ ~reader'.failed
  BY <1>1, <1>4 DEF Readers
<1>6. Len(<<all>>) = 1 /\ <<all>>[1] = all
  OBVIOUS
<1>7. Covered(mode.events, <<all>>, got'.all \cup CrowdedIn(mode.events))
  BY <1>3, <1>6 DEF Covered
<1> QED BY <1>5, <1>7 DEF Tidy

(* The answer to a request that met no trouble is retained as it is.       *)
LEMMA CalmRead ==
  ASSUME TypeInv, ~Expired, Answered', NEW events, NEW after, Read(events, after)
  PROVE  mode' = mode /\ Answered /\ Retain(events, {}) /\ reader' = after
<1>1. ASSUME NEW what \in {"bare", "cut"}, Meet({what})
      PROVE  FALSE
  <2>1. {what} \in SUBSET Troubles
    BY DEF Troubles
  <2> QED BY <1>1, <2>1, Calm
<1>2. Meet({}) /\ Retain(events, {}) /\ reader' = after
  BY <1>1 DEF Read
<1>3. {} \in SUBSET Troubles
  OBVIOUS
<1> QED BY <1>2, <1>3, Calm

LEMMA CrowdedHeavy ==
  ASSUME NEW events, \A e \in events : e.at \in Instants, NEW r \in Ranges, Heavy(events, r)
  PROVE  \A e \in events : Covers(r, e) => e \in CrowdedIn(events)
<1> SUFFICES ASSUME NEW e \in events, Covers(r, e)
             PROVE  Cardinality({x \in events : x.at = e.at}) >= Limit
  BY DEF CrowdedIn
<1>1. r.from \in Int /\ r.to \in Int /\ r.from = r.to /\ \A x \in events : x.at \in Int
  BY Sizes DEF Ranges, Heavy, Instants
<1>2. \A x \in events : Covers(r, x) <=> x.at = e.at
  BY <1>1 DEF Covers
<1>3. {x \in events : Covers(r, x)} = {x \in events : x.at = e.at}
  BY <1>2
<1> QED BY <1>3 DEF Heavy

LEMMA TidyProceed ==
  ASSUME TypeInv, Tidy, mode' = mode, reader.asks = "range", reader.todo # <<>>,
         got.all \subseteq got'.all, got'.named = got'.all,
         NEW parts \in Seq(Ranges), NEW failed \in BOOLEAN, reader' = Proceed(parts, failed),
         failed => CrowdedIn(mode.events) # {},
         \A e \in mode.events : Covers(Head(reader.todo), e) =>
           \/ e \in got'.all \cup CrowdedIn(mode.events)
           \/ \E i \in 1 .. Len(parts) : Covers(parts[i], e)
  PROVE  Tidy'
<1> DEFINE done == got.all \cup CrowdedIn(mode.events)
           more == got'.all \cup CrowdedIn(mode.events)
<1>1. reader \in Readers /\ reader.todo \in Seq(Ranges)
  BY DEF TypeInv, ReadInv, Readers
<1>2. /\ reader'.pc = "visit" /\ reader'.todo = parts \o Tail(reader.todo)
      /\ reader'.failed = (reader.failed \/ failed)
  BY <1>1 DEF Proceed, Readers
<1>3. /\ Covered(mode.events, reader.todo, done) /\ done \subseteq more
      /\ reader.failed => CrowdedIn(mode.events) # {}
  BY DEF Tidy
<1>4. \A e \in mode.events : Covers(Head(reader.todo), e) =>
        e \in more \/ \E i \in 1 .. Len(parts) : Covers(parts[i], e)
  OBVIOUS
<1> HIDE DEF done, more
<1>5. Covered(mode.events, parts \o Tail(reader.todo), more)
  BY <1>1, <1>3, <1>4, StillCovered
<1> QED BY <1>2, <1>3, <1>5 DEF Tidy, more

(* A range that was answered, with fewer events than the limit or with as  *)
(* many.                                                                   *)
LEMMA TidyAnswer ==
  ASSUME TypeInv, TidyInv, ~Expired, Answered', RangeRead
  PROVE  Tidy'
<1> DEFINE r == Head(reader.todo)
<1>1. /\ reader.asks = "range" /\ reader.todo # <<>> /\ reader.todo \in Seq(Ranges)
      /\ r \in Ranges /\ mode \in Modes
  BY HeadTailProperties
     DEF RangeRead, TypeInv, PaceInv, ReadInv, Progress, Readers, Asked, Busy, Collections
<1> DEFINE after(answer) ==
             IF ~Full(answer) THEN Proceed(<<>>, FALSE)
             ELSE IF r.from = r.to THEN Proceed(<<>>, TRUE)
             ELSE Proceed(Parts(r, answer), FALSE)
<1>2. PICK answer \in SUBSET In(r) :
        /\ Cardinality(answer) = Least(Cardinality(In(r)), Limit)
        /\ Read(answer, after(answer))
  BY DEF RangeRead
<1>3. mode' = mode /\ Tidy /\ Retain(answer, {}) /\ reader' = after(answer)
  <2> HIDE DEF after
  <2> QED BY <1>2, CalmRead DEF TidyInv
<1> HIDE DEF r
<1>4. /\ IsFiniteSet(answer) /\ IsFiniteSet(In(r)) /\ answer \in SUBSET mode.events
      /\ ~Full(answer) => answer = In(r)
  BY <1>1, <1>2, AnswerFacts
<1>5. /\ got'.named = got'.all /\ got'.all = got.all \cup answer
      /\ IsFiniteSet(mode.events) /\ \A e \in mode.events : e.at \in Instants
  BY <1>1, <1>3, <1>4, TidyRetained, ModeFacts
<1>6. <<>> \in Seq(Ranges)
  OBVIOUS
<1>7. CASE ~Full(answer)
  <2>1. reader' = Proceed(<<>>, FALSE)
    BY <1>3, <1>7
  <2>2. \A e \in mode.events : Covers(r, e) => e \in got'.all
    BY <1>4, <1>5, <1>7, InCovered
  <2> QED BY <1>1, <1>3, <1>5, <1>6, <2>1, <2>2, TidyProceed DEF r
<1>8. CASE Full(answer) /\ r.from = r.to
  <2>1. reader' = Proceed(<<>>, TRUE)
    BY <1>3, <1>8
  <2>2. Heavy(mode.events, r) /\ answer # {}
    <3>1. Cardinality(answer) <= Cardinality(In(r))
      BY <1>2, <1>4, FS_Subset
    <3>2. Cardinality(answer) \in Nat /\ Cardinality(In(r)) \in Nat
      BY <1>4, FS_CardinalityType
    <3>3. Cardinality(In(r)) >= Limit /\ Cardinality(answer) # 0
      BY <1>8, <3>1, <3>2, Sizes DEF Full
    <3>4. answer # {}
      BY <3>3, FS_EmptySet
    <3> QED BY <1>8, <3>3, <3>4, InCovered DEF Heavy
  <2>3. \A e \in mode.events : Covers(r, e) => e \in CrowdedIn(mode.events)
    BY <1>1, <1>5, <2>2, CrowdedHeavy
  <2>4. CrowdedIn(mode.events) # {}
    <3>1. PICK e \in answer : e \in In(r)
      BY <2>2
    <3> QED BY <1>4, <2>3, <3>1, InCovered
  <2> QED BY <1>1, <1>3, <1>5, <1>6, <2>1, <2>3, <2>4, TidyProceed DEF r
<1>9. CASE Full(answer) /\ r.from # r.to
  <2>1. reader' = Proceed(Parts(r, answer), FALSE)
    BY <1>3, <1>9
  <2>2. /\ Parts(r, answer) \in Seq(Ranges)
        /\ \A e \in mode.events : Covers(r, e) =>
             \E i \in 1 .. Len(Parts(r, answer)) : Covers(Parts(r, answer)[i], e)
    BY <1>1, <1>2, <1>5, <1>9, InCovered, PartsCover
  <2> QED BY <1>1, <1>3, <1>5, <2>1, <2>2, TidyProceed DEF r
<1> QED BY <1>7, <1>8, <1>9

LEMMA TidyVisit ==
  ASSUME TypeInv, Tidy, ~Expired, Visit
  PROVE  Tidy'
<1>1. /\ reader.asks = "range" /\ reader.todo \in Seq(Ranges) /\ mode' = mode /\ got' = got
      /\ reader \in Readers /\ now \in Nat
  BY DEF TypeInv, PaceInv, ReadInv, Progress, Readers, Busy, Visit, pce
<1>2. CASE reader.todo = <<>>
  <2>1. reader' = Over(reader.failed \/ got.named # got.all)
    BY <1>2 DEF Visit
  <2>2. got.named = got.all /\ (reader.failed => CrowdedIn(mode.events) # {})
        /\ Covered(mode.events, reader.todo, got.all \cup CrowdedIn(mode.events))
    BY <1>1 DEF Tidy
  <2>3. reader'.asks = "none" /\ reader'.partial = (reader.failed \/ got.named # got.all)
    BY <1>1, <2>1 DEF Over, Readers
  <2>4. mode.events \subseteq got.all \cup CrowdedIn(mode.events)
    BY <1>2, <2>2 DEF Covered
  <2> QED BY <1>1, <2>2, <2>3, <2>4 DEF Tidy
<1>3. CASE reader.todo # <<>>
  <2>1. reader' = Ask("range")
    BY <1>3 DEF Visit
  <2>2. /\ reader'.asks = "range" /\ reader'.pc = "turn"
        /\ reader'.todo = reader.todo /\ reader'.failed = reader.failed
    BY <1>1, <2>1, AskRead
  <2> QED BY <1>1, <2>2, TidyWaits
<1> QED BY <1>2, <1>3

LEMMA TidyCollect ==
  ASSUME TypeInv, TidyInv, ~Expired, Answered', Collect
  PROVE  Tidy'
<1>1. /\ reader \in Readers /\ now \in Nat /\ got \in Retained(mode.events)
  BY ReadFacts
<1>2. CASE PreferIgnored
  <2>1. reader.asks \in Collections /\ reader' = Fallback
    BY <1>2 DEF PreferIgnored, Asked, Collections
  <2>2. PICK some \in SUBSET mode.events :
          \/ Meet({"ignored"}) /\ Retain(some, {})
          \/ Meet({"ignored", "bare"}) /\ \E e \in some : Retain(some, {e})
    BY <1>2 DEF PreferIgnored
  <2>3. ~Meet({"ignored", "bare"})
    <3>1. {"ignored", "bare"} \in SUBSET Troubles
      BY DEF Troubles
    <3> QED BY <3>1, Calm
  <2>4. Meet({"ignored"}) /\ Retain(some, {})
    BY <2>2, <2>3
  <2>5. mode' = mode /\ Tidy
    <3>1. {"ignored"} \in SUBSET Troubles
      BY DEF Troubles
    <3> QED BY <2>4, <3>1, Calm DEF TidyInv
  <2>6. got'.named = got'.all
    BY <2>4, <2>5, TidyRetained
  <2> QED BY <2>1, <2>5, <2>6, TidyFallback
<1>3. CASE JobFails
  <2>1. reader.asks \in Collections /\ reader' = Fallback /\ got' = got /\ Meet({"job"})
    BY <1>3 DEF JobFails, Asked, Collections, others
  <2>2. mode' = mode /\ Tidy
    <3>1. {"job"} \in SUBSET Troubles
      BY DEF Troubles
    <3> QED BY <2>1, <3>1, Calm DEF TidyInv
  <2>3. got'.named = got'.all
    BY <2>1, <2>2 DEF Tidy
  <2> QED BY <2>1, <2>2, <2>3, TidyFallback
<1>4. CASE LinkUnsafe
  <2>1. {"unsafe"} \in SUBSET Troubles
    BY DEF Troubles
  <2> QED BY <1>4, <2>1, Calm DEF LinkUnsafe
<1>5. CASE ResultRead
  <2>1. Read(mode.events, Over(FALSE))
    BY <1>5 DEF ResultRead
  <2>2. mode' = mode /\ Tidy /\ Retain(mode.events, {}) /\ reader' = Over(FALSE)
    BY <2>1, CalmRead DEF TidyInv
  <2>3. got'.named = got'.all /\ got'.all = got.all \cup mode.events
    BY <2>2, TidyRetained
  <2>4. reader'.asks = "none" /\ reader'.partial = FALSE
    BY <1>1, <2>2 DEF Over, Readers
  <2> QED BY <2>2, <2>3, <2>4 DEF Tidy
<1>6. CASE JobDone
  <2>1. reader' = Ask("result") /\ mode' = mode /\ spent' = spent /\ got' = got
    BY <1>6 DEF JobDone, pce, others
  <2>2. reader'.asks = "result" /\ reader'.pc = "turn"
    <3>1. "result" \in Collections \cup {"range"}
      BY DEF Collections
    <3> QED BY <1>1, <2>1, <3>1, AskRead
  <2>3. Tidy
    BY <2>1 DEF TidyInv, Answered
  <2> QED BY <2>1, <2>2, <2>3 DEF Tidy
<1>7. ASSUME NEW delay \in Delays, Accepted(delay) \/ JobPending(delay)
      PROVE  Tidy'
  <2>1. /\ reader' = [Ask("job") EXCEPT !.pc = "pause", !.wake = now + delay] /\ got' = got
    BY <1>7 DEF Accepted, JobPending, others
  <2>2. mode' = mode /\ Tidy
    <3>1. CASE Accepted(delay)
      BY <3>1 DEF Accepted, pce, TidyInv, Answered
    <3>2. CASE JobPending(delay)
      <4>1. {"pending"} \in SUBSET Troubles
        BY DEF Troubles
      <4> QED BY <3>2, <4>1, Calm DEF JobPending, TidyInv
    <3> QED BY <1>7, <3>1, <3>2
  <2>3. reader'.asks \in Collections /\ reader'.pc \in Busy
    BY <2>1, Sizes, PauseRead
  <2> QED BY <2>1, <2>2, <2>3 DEF Tidy, Collections, Busy
<1> QED BY <1>2, <1>3, <1>4, <1>5, <1>6, <1>7 DEF Collect

LEMMA NoTrouble ==
  ASSUME TypeInv, ~Expired, Answered'
  PROVE  /\ ~Troubled
         /\ \A target \in LowRate .. HighRate : ~Configure(target)
         /\ \A c \in Callers : \A delay \in Delays : ~Limited(c, delay)
<1>1. ASSUME NEW x \in {"busy", "down", "failed", "configured"}, Meet({x})
      PROVE  FALSE
  <2>1. {x} \in SUBSET Troubles
    BY DEF Troubles
  <2> QED BY <1>1, <2>1, Calm
<1>2. ~Meet({"busy"}) /\ ~Meet({"down"}) /\ ~Meet({"failed"}) /\ ~Meet({"configured"})
  BY <1>1
<1> QED BY <1>2 DEF Troubled, RequestFails, ReaderLimited, Unavailable, Configure, Limited

LEMMA NextTidy ==
  ASSUME TypeInv, TidyInv, [Next]_vars
  PROVE  TidyInv'
<1> SUFFICES ASSUME ~Expired', Answered' PROVE Tidy'
  BY DEF TidyInv
<1>1. ~Expired
  <2>1. now' = now \/ Tick
    BY DEF Next, Configure, Call, Begin, WaitTurn, Returned, Limited, ReaderTurn, Resume, Collect,
           PreferIgnored, JobDone, JobFails, LinkUnsafe, ResultRead, Accepted, JobPending,
           Troubled, RequestFails, ReaderLimited, Unavailable, RangeRead, Visit, vars
  <2>2. mode' = mode
    BY MeetMode
       DEF Next, Configure, Call, Begin, WaitTurn, Returned, Limited, ReaderTurn, Resume, Collect,
           PreferIgnored, JobDone, JobFails, LinkUnsafe, ResultRead, Accepted, JobPending,
           Troubled, RequestFails, ReaderLimited, Unavailable, RangeRead, Visit, vars, Tick, pce,
           Read
  <2> QED BY <2>1, <2>2, StillTime
<1>2. ASSUME mode' = mode, spent' = spent, UNCHANGED reading
      PROVE  Tidy'
  BY <1>1, <1>2, TidyKept DEF TidyInv, Answered, reading
<1>3. CASE Tick \/ UNCHANGED vars
  BY <1>2, <1>3 DEF Tick, vars, pce
<1>4. ASSUME NEW c \in Callers, Call(c)
      PROVE  Tidy'
  <2>1. Begin(c) \/ WaitTurn(c) \/ Returned(c)
    BY <1>1, <1>4, NoTrouble DEF Call
  <2>2. mode' = mode /\ spent' = spent /\ UNCHANGED reading
    BY <2>1 DEF Begin, WaitTurn, Returned, pce
  <2> QED BY <1>2, <2>2
<1>5. CASE ReaderTurn \/ Resume
  <2>1. mode' = mode /\ spent' = spent /\ got' = got /\ reader \in Readers
    BY <1>5, ReadFacts DEF ReaderTurn, Resume, pce
  <2>2. \/ reader' = [reader EXCEPT !.pc = "sent"]
        \/ reader' = [reader EXCEPT !.wake = SleepUntil] /\ reader.pc = "turn"
        \/ reader' = [reader EXCEPT !.pc = "turn", !.wake = now]
    BY <1>1, <1>5 DEF ReaderTurn, Resume
  <2>3. /\ reader'.asks = reader.asks /\ reader'.todo = reader.todo
        /\ reader'.failed = reader.failed /\ reader'.pc # "over"
    BY <2>1, <2>2 DEF Readers
  <2> QED BY <1>1, <2>1, <2>3, TidyWaits DEF TidyInv, Answered
<1>6. CASE RangeRead
  BY <1>1, <1>6, TidyAnswer
<1>7. CASE Visit
  BY <1>1, <1>7, TidyVisit DEF Visit, pce, TidyInv, Answered
<1>8. CASE Collect
  BY <1>1, <1>8, TidyCollect
<1> QED BY <1>1, <1>3, <1>4, <1>5, <1>6, <1>7, <1>8, NoTrouble DEF Next

LEMMA InitTidy == Init => TidyInv
BY DEF Init, TidyInv, Tidy

LEMMA TidyOK ==
  ASSUME TypeInv, TidyInv
  PROVE  OnlyCrowdedMissing
<1> SUFFICES ASSUME reader.pc = "over", ~Expired, Answered
             PROVE  /\ \A e \in mode.events : e.at \in Crowded \/ e \in got.named
                    /\ reader.partial => Crowded # {}
  BY DEF OnlyCrowdedMissing
<1>1. Tidy /\ \A e \in mode.events : e.at \in Instants
  BY ModeFacts DEF TidyInv, TypeInv, PaceInv
<1>2. \A e \in CrowdedIn(mode.events) : e.at \in Crowded
  BY <1>1 DEF CrowdedIn, Crowded
<1> QED BY <1>1, <1>2 DEF Tidy

(* An answer in time, all of whose requests were answered, lacks only      *)
(* events of instants that one answer cannot show, and is only called      *)
(* partial if there are such (OnlyCrowdedMissing).                         *)
THEOREM Thorough == Spec => []OnlyCrowdedMissing
<1>1. TypeInv /\ [Next]_vars => TypeInv'
  BY NextTyped
<1>2. TypeInv /\ TidyInv /\ [Next]_vars => TidyInv'
  BY NextTidy
<1> QED BY <1>1, <1>2, InitTyped, InitTidy, TidyOK, PTL DEF Spec
=============================================================================
