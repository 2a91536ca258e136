----------------------- MODULE ExtractionChunks_proofs -----------------------
(***************************************************************************)
(* No moment of an extraction's range is lost, counted twice or wrongly    *)
(* reported missing, for any ranges, limits, workers and troubles.         *)
(***************************************************************************)
EXTENDS ExtractionChunks, FiniteSetTheorems, WellFoundedInduction, TLAPS

(* Types of a worker, the rest of TypeOK, and what a worker that fetches   *)
(* nothing looks like.                                                     *)
Busy == {"visit", "create", "poll", "download"}
Ends == Seq((0 .. Span) \X (0 .. MaxDepth))
Worker ==
  [pc : Busy \cup {"idle", "done", "gone"}, chunk : Nat, at : 0 .. Span, ends : Ends,
   gaps : SUBSET Windows, attempt : 0 .. MaxAttempts, creates : 0 .. MaxCreates, query : Nat,
   hold : {"look", "wait", "go"}, since : Nat]
Asking == {"create", "poll", "download"}
Shape(r) ==
  /\ r.pc = "idle" => r = Idle
  /\ r.pc = "gone" => r = Gone
  /\ r.pc \in Busy => r.ends # <<>>
  /\ r.pc = "done" => r.ends = <<>>
  /\ r.pc \in Busy \cup {"done"} => r.chunk \in Chunks
  /\ r.pc \in Asking => r.attempt > 0 /\ r.creates > 0
WorkersOK == work \in [Workers -> Worker] /\ \A w \in Workers : Shape(work[w])
FileOK ==
  /\ file \in [pc : {"fetch", "create", "write", "manifest", "over"},
               name : [partial : BOOLEAN, unique : BOOLEAN], partial : BOOLEAN, cancelled : BOOLEAN]
  /\ file.pc # "fetch" => \A w \in Workers : work[w].pc = "gone"
ResultsOK ==
  /\ mode \in Modes /\ ctx \in {"live", "cancelled", "expired"}
  /\ next \in Nat \ {0} /\ whole \in Nat
  /\ processed \subseteq Chunks /\ completed \subseteq Windows /\ missing \subseteq Windows
  /\ counted \in [Moments -> Nat]
  /\ cooldown \in [on : BOOLEAN, set : Nat]
  /\ spent \in [Troubles -> Nat]
QueriesOK == IsFiniteSet(queries) /\ queries \subseteq Nat \ {0}
TypeInv == WorkersOK /\ FileOK /\ ResultsOK /\ QueriesOK

-----------------------------------------------------------------------------
(* Natural numbers: a nonempty set has a least one, and a set with 0 and   *)
(* every successor of its members holds them all.                          *)

LEMMA Least ==
  ASSUME NEW S \in SUBSET Nat, S # {}
  PROVE  \E m \in S : \A n \in S : m <= n
<1>1. IsWellFoundedOn(OpToRel(<, Nat), Nat)
  BY NatLessThanWellFounded
<1>2. PICK m \in S : \A n \in S : ~(<<n, m>> \in OpToRel(<, Nat))
  BY <1>1, WFMin
<1>3. \A n \in S : ~(n < m)
  BY <1>2 DEF OpToRel
<1>4. m \in Nat /\ \A n \in S : n \in Nat
  OBVIOUS
<1> HIDE DEF OpToRel
<1> QED BY <1>3, <1>4

LEMMA Induction ==
  ASSUME NEW S \in SUBSET Nat, 0 \in S, \A n \in S : n + 1 \in S
  PROVE  S = Nat
<1> SUFFICES ASSUME Nat \ S # {} PROVE FALSE
  OBVIOUS
<1>1. PICK m \in Nat \ S : \A n \in Nat \ S : m <= n
  BY Least
<1>2. m # 0 /\ m \in Nat
  OBVIOUS
<1>3. m - 1 \in Nat /\ ~(m <= m - 1)
  BY <1>2
<1>4. m - 1 \in S /\ m - 1 + 1 = m
  BY <1>1, <1>2, <1>3
<1> QED BY <1>4

(* The powers of two are defined by their recursive equation: each prefix  *)
(* has one function, and together they are the function on Nat.            *)
Doubles(n) ==
  {g \in [0 .. n -> Nat] : g[0] = 1 /\ \A k \in 0 .. n - 1 : g[k + 1] = 2 * g[k]}
LEMMA DoublesAgree ==
  ASSUME NEW m \in Nat, NEW n \in Nat, NEW g \in Doubles(m), NEW h \in Doubles(n),
         NEW k \in Nat, k <= m, k <= n
  PROVE  g[k] = h[k]
<1> DEFINE S == {j \in Nat : j <= m /\ j <= n => g[j] = h[j]}
<1>1. 0 \in S
  BY DEF Doubles
<1>2. \A j \in S : j + 1 \in S
  <2> TAKE j \in S
  <2>1. CASE j + 1 <= m /\ j + 1 <= n
    <3>1. j \in 0 .. m - 1 /\ j \in 0 .. n - 1 /\ j <= m /\ j <= n
      BY <2>1
    <3> QED BY <3>1 DEF Doubles
  <2> QED BY <2>1
<1>3. S = Nat
  <2>1. S \subseteq Nat
    OBVIOUS
  <2> HIDE DEF S
  <2> QED BY <1>1, <1>2, <2>1, Induction
<1> QED BY <1>3

LEMMA DoublesExist ==
  ASSUME NEW n \in Nat
  PROVE  Doubles(n) # {}
<1> DEFINE S == {j \in Nat : Doubles(j) # {}}
<1>1. 0 \in S
  <2>1. [k \in 0 .. 0 |-> 1] \in Doubles(0)
    BY DEF Doubles
  <2> QED BY <2>1
<1>2. \A j \in S : j + 1 \in S
  <2> TAKE j \in S
  <2>1. PICK g \in Doubles(j) : TRUE
    OBVIOUS
  <2>2. [k \in 0 .. j + 1 |-> IF k <= j THEN g[k] ELSE 2 * g[j]] \in Doubles(j + 1)
    <3> DEFINE h == [k \in 0 .. j + 1 |-> IF k <= j THEN g[k] ELSE 2 * g[j]]
    <3>1. j \in Nat /\ g \in [0 .. j -> Nat] /\ g[0] = 1 /\ \A k \in 0 .. j - 1 : g[k + 1] = 2 * g[k]
      BY DEF Doubles
    <3>2. h \in [0 .. j + 1 -> Nat] /\ h[0] = 1
      BY <3>1
    <3>3. ASSUME NEW k \in 0 .. (j + 1) - 1 PROVE h[k + 1] = 2 * h[k]
      <4>1. CASE k = j
        BY <3>1, <4>1
      <4>2. CASE k # j
        <5>1. k \in 0 .. j - 1 /\ k \in 0 .. j + 1 /\ k + 1 \in 0 .. j + 1 /\ k <= j /\ k + 1 <= j
          BY <3>1, <4>2
        <5> QED BY <3>1, <5>1
      <4> QED BY <4>1, <4>2
    <3> HIDE DEF h
    <3>4. h \in Doubles(j + 1)
      BY <3>2, <3>3 DEF Doubles
    <3> QED BY <3>4 DEF h
  <2> QED BY <2>2
<1>3. S = Nat
  <2>1. S \subseteq Nat
    OBVIOUS
  <2> HIDE DEF S
  <2> QED BY <1>1, <1>2, <2>1, Induction
<1> QED BY <1>3

LEMMA PowersOfTwo ==
  /\ PowerOfTwo[0] = 1
  /\ \A n \in Nat : PowerOfTwo[n] \in Nat /\ PowerOfTwo[n] > 0 /\ PowerOfTwo[n + 1] = 2 * PowerOfTwo[n]
<1> DEFINE g(n) == CHOOSE h \in Doubles(n) : TRUE
           f == [n \in Nat |-> g(n)[n]]
<1>1. \A n \in Nat : g(n) \in Doubles(n)
  BY DoublesExist
<1> HIDE DEF g
<1>2. f[0] = 1
  BY <1>1 DEF Doubles
<1>3. ASSUME NEW n \in Nat PROVE f[n + 1] = 2 * f[n] /\ f[n] \in Nat
  <2>1. g(n) \in Doubles(n) /\ g(n + 1) \in Doubles(n + 1)
    BY <1>1
  <2>2. g(n + 1)[n] = g(n)[n]
    BY <2>1, DoublesAgree
  <2>3. g(n + 1)[n + 1] = 2 * g(n + 1)[n] /\ g(n)[n] \in Nat
    BY <2>1 DEF Doubles
  <2> QED BY <2>2, <2>3
<1> DEFINE Equation(h) == h = [n \in Nat |-> IF n = 0 THEN 1 ELSE 2 * h[n - 1]]
<1>4. Equation(f)
  <2>1. ASSUME NEW n \in Nat PROVE f[n] = IF n = 0 THEN 1 ELSE 2 * f[n - 1]
    <3>1. CASE n = 0
      BY <1>2, <3>1
    <3>2. CASE n # 0
      <4>1. n - 1 \in Nat /\ n - 1 + 1 = n
        BY <3>2
      <4>2. f[n - 1 + 1] = 2 * f[n - 1]
        BY <1>3, <4>1
      <4> QED BY <3>2, <4>1, <4>2
    <3> QED BY <3>1, <3>2
  <2>2. f = [n \in Nat |-> f[n]]
    OBVIOUS
  <2> HIDE DEF f
  <2> QED BY <2>1, <2>2
<1>5. PowerOfTwo = CHOOSE h : Equation(h)
  BY DEF PowerOfTwo
<1> HIDE DEF f
<1>6. Equation(PowerOfTwo)
  <2> HIDE DEF Equation
  <2> QED BY <1>4, <1>5
<1>7. PowerOfTwo[0] = 1 /\ \A n \in Nat : PowerOfTwo[n + 1] = 2 * PowerOfTwo[n]
  <2>1. \A n \in Nat : PowerOfTwo[n] = IF n = 0 THEN 1 ELSE 2 * PowerOfTwo[n - 1]
    BY <1>6
  <2> QED BY <2>1
<1> DEFINE S == {n \in Nat : PowerOfTwo[n] \in Nat /\ PowerOfTwo[n] > 0}
<1>8. S = Nat
  <2>1. S \subseteq Nat /\ 0 \in S
    BY <1>7
  <2>2. \A n \in S : n + 1 \in S
    BY <1>7
  <2> HIDE DEF S
  <2> QED BY <2>1, <2>2, Induction
<1> QED BY <1>7, <1>8

-----------------------------------------------------------------------------
(* Sizes and chunks                                                        *)

LEMMA Sizes ==
  /\ Span \in Nat /\ Span > 0 /\ Interval \in Nat /\ Interval > 0
  /\ MinLength \in Nat /\ MinLength > 0 /\ MaxAttempts \in Nat /\ MaxAttempts > 0
  /\ MaxCreates \in Nat /\ MaxCreates > 0 /\ MaxResults \in Nat /\ MaxDepth \in Nat
BY SizesAssumption

(* A chunk is a window of the range, not longer than the interval.         *)
LEMMA ChunkBounds ==
  ASSUME NEW c \in Chunks
  PROVE  /\ c \in Nat /\ c > 0
         /\ ChunkStart(c) \in 0 .. Span /\ ChunkEnd(c) \in 0 .. Span
         /\ ChunkStart(c) < ChunkEnd(c) /\ ChunkEnd(c) - ChunkStart(c) <= Interval
<1> DEFINE n == (Span + Interval - 1) \div Interval
<1>1. n \in Nat /\ n * Interval <= Span + Interval - 1
  <2>1. Span + Interval - 1 \in Nat
    BY Sizes
  <2> QED BY <2>1, Sizes
<1>2. c \in Nat /\ c > 0 /\ c <= n
  BY <1>1 DEF Chunks
<1> HIDE DEF n
<1> DEFINE skipped == (c - 1) * Interval
<1>3. skipped \in Nat
  BY <1>2, Sizes
<1>4. skipped < Span
  <2>1. (n - c) * Interval >= 0
    BY <1>1, <1>2, Sizes
  <2>2. n * Interval = (n - c) * Interval + skipped + Interval
    BY <1>1, <1>2, Sizes
  <2>3. (n - c) * Interval \in Int /\ n * Interval \in Int
    BY <1>1, <1>2, Sizes
  <2> HIDE DEF skipped
  <2> QED BY <1>1, <1>3, <2>1, <2>2, <2>3, Sizes
<1>5. ChunkEnd(c) = Span - skipped /\ ChunkStart(c) = Most(Span - skipped - Interval, 0)
  BY DEF ChunkEnd, ChunkStart
<1> HIDE DEF skipped
<1> QED BY <1>2, <1>3, <1>4, <1>5, Sizes DEF Most

(* Every moment is in exactly one chunk.                                   *)
InChunk(t, c) == ChunkStart(c) <= t /\ t < ChunkEnd(c)
LEMMA ChunkOf ==
  ASSUME NEW t \in Moments
  PROVE  \E c \in Chunks : InChunk(t, c)
<1> DEFINE m == Span - 1 - t
           c == m \div Interval + 1
<1>1. m \in Nat /\ m < Span /\ t \in Nat /\ t = Span - 1 - m
  BY Sizes DEF Moments
<1> HIDE DEF m
<1> DEFINE k == m \div Interval
<1>2. k \in Nat /\ k * Interval <= m /\ m < (k + 1) * Interval
  BY <1>1, Sizes
<1>3. c = k + 1
  OBVIOUS
<1> HIDE DEF k
<1>4. (k + 1) * Interval = k * Interval + Interval /\ k * Interval \in Nat
  BY <1>2, Sizes
<1>5. c \in Chunks
  <2> DEFINE n == (Span + Interval - 1) \div Interval
  <2>1. n \in Nat /\ Span + Interval - 1 < (n + 1) * Interval
    <3>1. Span + Interval - 1 \in Nat
      BY Sizes
    <3> QED BY <3>1, Sizes
  <2> HIDE DEF n
  <2>2. CASE n < k + 1
    <3>1. (k - n) * Interval >= 0
      BY <2>1, <2>2, <1>2, Sizes
    <3>2. k * Interval = (k - n) * Interval + n * Interval
      BY <2>1, <1>2, Sizes
    <3>3. (n + 1) * Interval = n * Interval + Interval
      BY <2>1, Sizes
    <3>4. n * Interval \in Int /\ (k - n) * Interval \in Int
      BY <2>1, <1>2, Sizes
    <3> QED BY <1>1, <1>2, <1>4, <2>1, <3>1, <3>2, <3>3, <3>4, Sizes
  <2>3. CASE n >= k + 1
    BY <2>1, <2>3, <1>2, <1>3 DEF Chunks, n
  <2> QED BY <2>1, <2>2, <2>3, <1>2
<1>6. ChunkEnd(c) = Span - k * Interval
  BY <1>2, <1>3 DEF ChunkEnd
<1>7. ChunkStart(c) = Most(Span - k * Interval - Interval, 0)
  BY <1>2, <1>3, <1>6 DEF ChunkStart
<1> QED BY <1>1, <1>2, <1>4, <1>5, <1>6, <1>7, Sizes DEF Most, InChunk

LEMMA OneChunk ==
  ASSUME NEW t \in Nat, NEW c \in Chunks, NEW d \in Chunks, InChunk(t, c), InChunk(t, d)
  PROVE  c = d
<1>1. ASSUME NEW a \in Chunks, NEW b \in Chunks, a < b, InChunk(t, a), InChunk(t, b) PROVE FALSE
  <2>1. a \in Nat /\ b \in Nat /\ a > 0 /\ b > 0
    BY ChunkBounds
  <2>2. (b - 1 - a) * Interval >= 0
    BY <2>1, <1>1, Sizes
  <2>3. (b - 1) * Interval = (b - 1 - a) * Interval + (a - 1) * Interval + Interval
    BY <2>1, Sizes
  <2>4. {(b - 1) * Interval, (b - 1 - a) * Interval, (a - 1) * Interval} \subseteq Int
    BY <2>1, Sizes
  <2>5. t < Span - (b - 1) * Interval /\ Span - (a - 1) * Interval - Interval <= t
    BY <1>1, <2>4, Sizes DEF InChunk, ChunkStart, ChunkEnd, Most
  <2> QED BY <2>2, <2>3, <2>4, <2>5, Sizes
<1>2. c \in Nat /\ d \in Nat
  BY ChunkBounds
<1> QED BY <1>1, <1>2

-----------------------------------------------------------------------------
(* Types                                                                   *)

LEMMA IdleTypes ==
  /\ Idle \in Worker /\ Gone \in Worker
  /\ Idle.pc = "idle" /\ Gone.pc = "gone" /\ Idle.chunk = 0 /\ Gone.chunk = 0
  /\ Idle.gaps = {} /\ Gone.gaps = {} /\ Idle.query = 0 /\ Gone.query = 0
<1>1. <<>> \in Ends
  BY DEF Ends
<1> QED BY <1>1, Sizes DEF Idle, Gone, Worker, Busy

LEMMA CurrentWindow ==
  ASSUME WorkersOK, NEW w \in Workers, work[w].pc \in Busy
  PROVE  /\ work[w] \in Worker /\ work[w].ends \in Ends /\ Len(work[w].ends) > 0
         /\ Head(work[w].ends) = work[w].ends[1]
         /\ work[w].ends[1] \in (0 .. Span) \X (0 .. MaxDepth)
         /\ Tail(work[w].ends) \in Ends /\ Len(Tail(work[w].ends)) = Len(work[w].ends) - 1
         /\ \A i \in 1 .. Len(Tail(work[w].ends)) : Tail(work[w].ends)[i] = work[w].ends[i + 1]
         /\ Current(w) \in Windows
         /\ Current(w).from = work[w].at /\ Current(w).to = work[w].ends[1][1]
         /\ Depth(w) = work[w].ends[1][2] /\ Depth(w) \in 0 .. MaxDepth
<1>1. work[w] \in Worker /\ work[w].ends \in Ends /\ work[w].ends # <<>> /\ work[w].at \in 0 .. Span
  BY DEF WorkersOK, Shape, Worker
<1> DEFINE ends == work[w].ends
<1>2. ends \in Seq((0 .. Span) \X (0 .. MaxDepth)) /\ ends # <<>>
  BY <1>1 DEF Ends
<1> HIDE DEF ends
<1>3. Len(ends) > 0 /\ Head(ends) = ends[1] /\ ends[1] \in (0 .. Span) \X (0 .. MaxDepth)
  BY <1>2
<1>4. /\ Tail(ends) \in Seq((0 .. Span) \X (0 .. MaxDepth)) /\ Len(Tail(ends)) = Len(ends) - 1
      /\ \A i \in 1 .. Len(Tail(ends)) : Tail(ends)[i] = ends[i + 1]
  BY <1>2
<1>5. ends[1][1] \in 0 .. Span /\ ends[1][2] \in 0 .. MaxDepth
  BY <1>3
<1>6. /\ Current(w).from = work[w].at /\ Current(w).to = ends[1][1] /\ Current(w) \in Windows
      /\ Depth(w) = ends[1][2]
  BY <1>1, <1>3, <1>5 DEF Current, Depth, Window, Windows, ends
<1> QED BY <1>1, <1>3, <1>4, <1>5, <1>6 DEF ends, Ends

(* What a worker that visits a chunk becomes.                              *)
LEMMA AdvancedRecord ==
  ASSUME WorkersOK, NEW w \in Workers, work[w].pc \in Busy, NEW gaps \in SUBSET Windows
  PROVE  LET r == Advanced(w, gaps) IN
         /\ r \in Worker /\ Shape(r)
         /\ r.pc = IF Tail(work[w].ends) = <<>> THEN "done" ELSE "visit"
         /\ r.chunk = work[w].chunk /\ r.at = Current(w).to /\ r.ends = Tail(work[w].ends)
         /\ r.gaps = work[w].gaps \cup gaps /\ r.attempt = 0 /\ r.query = 0
<1>1. work[w] \in Worker /\ Shape(work[w])
  BY DEF WorkersOK
<1>2. work[w].chunk \in Chunks /\ work[w].chunk \in Nat /\ work[w].gaps \subseteq Windows
  BY <1>1 DEF Shape, Worker
<1>3. Current(w).to \in 0 .. Span /\ Tail(work[w].ends) \in Ends
  BY CurrentWindow DEF Windows
<1> DEFINE r == Advanced(w, gaps)
           rest == Tail(work[w].ends)
<1>4. /\ r = [pc |-> IF rest = <<>> THEN "done" ELSE "visit", chunk |-> work[w].chunk,
              at |-> Current(w).to, ends |-> rest, gaps |-> work[w].gaps \cup gaps, attempt |-> 0,
              creates |-> 0, query |-> 0, hold |-> "look", since |-> 0]
  <2>1. r = [Idle EXCEPT !.pc = IF rest = <<>> THEN "done" ELSE "visit", !.chunk = work[w].chunk,
                         !.at = Current(w).to, !.ends = rest, !.gaps = work[w].gaps \cup gaps]
    BY DEF Advanced
  <2> HIDE DEF r, rest
  <2> QED BY <2>1, Zenon DEF Idle
<1> HIDE DEF r
<1>5. r \in Worker
  BY <1>2, <1>3, <1>4, Sizes DEF Worker, Busy
<1>6. Shape(r)
  BY <1>2, <1>4 DEF Shape, Busy, Asking
<1> QED BY <1>4, <1>5, <1>6 DEF r

LEMMA WithoutRecord ==
  ASSUME WorkersOK, NEW w \in Workers, work[w].pc \in Busy
  PROVE  LET r == WithoutWindow(w) IN
         /\ r \in Worker /\ Shape(r)
         /\ r.pc = IF Tail(work[w].ends) = <<>> THEN "done" ELSE "visit"
         /\ r.chunk = work[w].chunk /\ r.at = Current(w).to /\ r.ends = Tail(work[w].ends)
         /\ r.gaps = work[w].gaps \cup {Current(w)} /\ r.attempt = 0 /\ r.query = 0
<1>1. {Current(w)} \in SUBSET Windows
  BY CurrentWindow
<1> QED BY <1>1, AdvancedRecord DEF WithoutWindow

(* The same place, another request.                                        *)
SamePlace(r, w) ==
  r.chunk = work[w].chunk /\ r.at = work[w].at /\ r.ends = work[w].ends /\ r.gaps = work[w].gaps
LEMMA RetriedRecord ==
  ASSUME WorkersOK, NEW w \in Workers, work[w].pc \in Asking
  PROVE  \/ Retried(w) = WithoutWindow(w) /\ (ctx # "live" \/ work[w].attempt = MaxAttempts)
         \/ LET r == Retried(w) IN
            /\ r \in Worker /\ Shape(r) /\ SamePlace(r, w)
            /\ r.pc = "create" /\ r.query = 0 /\ r.attempt = work[w].attempt + 1
            /\ ctx = "live"
<1>1. work[w] \in Worker /\ Shape(work[w])
  BY DEF WorkersOK
<1>2. CASE ctx # "live" \/ work[w].attempt = MaxAttempts
  BY <1>2 DEF Retried
<1>3. CASE ~(ctx # "live" \/ work[w].attempt = MaxAttempts)
  <2> DEFINE r == Retried(w)
  <2>1. r = [work[w] EXCEPT !.pc = "create", !.attempt = @ + 1, !.creates = 1, !.query = 0,
                            !.hold = "look", !.since = 0]
    BY <1>3 DEF Retried
  <2> HIDE DEF r
  <2>2. work[w].attempt \in 0 .. MaxAttempts /\ work[w].attempt # MaxAttempts
    BY <1>1, <1>3 DEF Worker
  <2>a. work[w].attempt + 1 \in 0 .. MaxAttempts /\ 1 \in 0 .. MaxCreates
    BY <2>2, Sizes
  <2>3. r \in Worker /\ SamePlace(r, w) /\ r.pc = "create" /\ r.query = 0
        /\ r.attempt = work[w].attempt + 1 /\ r.creates = 1
    <3> HIDE DEF Windows, Ends
    <3>1. r \in Worker
      BY <1>1, <2>1, <2>a DEF Worker, Busy
    <3>2. SamePlace(r, w)
      BY <1>1, <2>1 DEF Worker, SamePlace
    <3>3. r.pc = "create" /\ r.query = 0 /\ r.attempt = work[w].attempt + 1 /\ r.creates = 1
      BY <1>1, <2>1 DEF Worker
    <3> QED BY <3>1, <3>2, <3>3
  <2>4. Shape(r)
    BY <1>1, <2>2, <2>3 DEF Shape, SamePlace, Busy, Asking
  <2> QED BY <1>3, <2>3, <2>4 DEF r
<1> QED BY <1>2, <1>3

LEMMA Joined ==
  ASSUME NEW S, NEW a \in Seq(S), NEW b \in Seq(S)
  PROVE  /\ a \o b \in Seq(S) /\ Len(a \o b) = Len(a) + Len(b)
         /\ \A i \in 1 .. Len(a) : (a \o b)[i] = a[i]
         /\ \A i \in Len(a) + 1 .. Len(a) + Len(b) : (a \o b)[i] = b[i - Len(a)]
OBVIOUS

(* The two halves of a window, with the window's end as the second's.      *)
LEMMA SplitRecord ==
  ASSUME WorkersOK, NEW w \in Workers, work[w].pc \in Asking, Divisible(Current(w), Depth(w))
  PROVE  LET r == Split(w)
             mid == Midpoint(Current(w))
         IN  /\ r \in Worker /\ Shape(r) /\ r.pc = "visit" /\ r.attempt = 0 /\ r.query = 0
             /\ r.chunk = work[w].chunk /\ r.at = work[w].at /\ r.gaps = work[w].gaps
             /\ Depth(w) + 1 <= MaxDepth /\ mid \in 0 .. Span
             /\ work[w].at < mid /\ mid < Current(w).to
             /\ Len(r.ends) = Len(work[w].ends) + 1
             /\ r.ends[1] = <<mid, Depth(w) + 1>> /\ r.ends[2] = <<Current(w).to, Depth(w) + 1>>
             /\ \A i \in 3 .. Len(r.ends) : r.ends[i] = work[w].ends[i - 1]
<1>1. work[w] \in Worker /\ Shape(work[w]) /\ work[w].pc \in Busy
  BY DEF WorkersOK, Asking, Busy
<1>2. work[w].chunk \in Chunks /\ work[w].chunk \in Nat /\ work[w].gaps \subseteq Windows
      /\ work[w].at \in 0 .. Span
  BY <1>1 DEF Shape, Worker
<1> DEFINE r == Split(w)
           mid == Midpoint(Current(w))
           to == Current(w).to
           depth == Depth(w) + 1
           rest == Tail(work[w].ends)
           both == <<<<mid, depth>>, <<to, depth>>>>
<1>3. Current(w).from = work[w].at /\ Current(w).from \in 0 .. Span /\ to \in 0 .. Span
      /\ Depth(w) \in 0 .. MaxDepth /\ rest \in Ends /\ Len(rest) = Len(work[w].ends) - 1
      /\ (\A i \in 1 .. Len(rest) : rest[i] = work[w].ends[i + 1]) /\ Len(work[w].ends) \in Nat
  BY <1>1, CurrentWindow DEF Windows, Ends
<1>4. Depth(w) < MaxDepth /\ mid - work[w].at >= MinLength /\ to - mid >= MinLength
  BY <1>3 DEF Divisible
<1>5. mid \in Int
  BY <1>3, Sizes DEF Midpoint
<1> HIDE DEF mid, to
<1>6. mid \in 0 .. Span /\ work[w].at < mid /\ mid < to /\ depth \in 0 .. MaxDepth /\ depth <= MaxDepth
  BY <1>2, <1>3, <1>4, <1>5, Sizes
<1> HIDE DEF depth
<1>7. both \in Ends /\ Len(both) = 2 /\ both[1] = <<mid, depth>> /\ both[2] = <<to, depth>>
  BY <1>3, <1>6 DEF Ends
<1> HIDE DEF both, rest
<1>8. both \o rest \in Ends /\ Len(both \o rest) = Len(work[w].ends) + 1
      /\ (both \o rest)[1] = <<mid, depth>> /\ (both \o rest)[2] = <<to, depth>>
      /\ \A i \in 3 .. Len(both \o rest) : (both \o rest)[i] = rest[i - 2]
  <2>1. /\ both \o rest \in Ends /\ Len(both \o rest) = 2 + Len(rest)
        /\ (\A i \in 1 .. 2 : (both \o rest)[i] = both[i])
        /\ \A i \in 3 .. 2 + Len(rest) : (both \o rest)[i] = rest[i - 2]
    <3> DEFINE pairs == (0 .. Span) \X (0 .. MaxDepth)
    <3>1. both \in Seq(pairs) /\ rest \in Seq(pairs) /\ Len(both) = 2
      BY <1>3, <1>7 DEF Ends
    <3> HIDE DEF pairs
    <3>2. /\ both \o rest \in Seq(pairs) /\ Len(both \o rest) = Len(both) + Len(rest)
          /\ \A i \in 1 .. Len(both) : (both \o rest)[i] = both[i]
          /\ \A i \in Len(both) + 1 .. Len(both) + Len(rest) :
               (both \o rest)[i] = rest[i - Len(both)]
      BY <3>1, Joined
    <3> QED BY <3>1, <3>2 DEF Ends, pairs
  <2> QED BY <1>3, <1>7, <2>1
<1>9. \A i \in 3 .. Len(both \o rest) : (both \o rest)[i] = work[w].ends[i - 1]
  <2> TAKE i \in 3 .. Len(both \o rest)
  <2>1. i - 2 \in 1 .. Len(rest) /\ (both \o rest)[i] = rest[i - 2] /\ i - 2 + 1 = i - 1
    BY <1>3, <1>8
  <2> QED BY <2>1, <1>3
<1>10. r = [Idle EXCEPT !.pc = "visit", !.chunk = work[w].chunk, !.at = work[w].at,
                        !.ends = both \o rest, !.gaps = work[w].gaps]
  BY <1>3 DEF Split, both, rest, depth, mid, to
<1> HIDE DEF r
<1>11. r = [pc |-> "visit", chunk |-> work[w].chunk, at |-> work[w].at, ends |-> both \o rest,
            gaps |-> work[w].gaps, attempt |-> 0, creates |-> 0, query |-> 0, hold |-> "look",
            since |-> 0]
  BY <1>10, Zenon DEF Idle
<1>12. both \o rest # <<>>
  BY <1>8, <1>3
<1>13. r \in Worker
  BY <1>2, <1>8, <1>11, Sizes DEF Worker, Busy
<1>14. Shape(r)
  BY <1>2, <1>11, <1>12 DEF Shape, Busy, Asking
<1>15. /\ r.pc = "visit" /\ r.attempt = 0 /\ r.query = 0 /\ r.chunk = work[w].chunk
       /\ r.at = work[w].at /\ r.gaps = work[w].gaps /\ r.ends = both \o rest
  BY <1>11
<1>16. depth = Depth(w) + 1
  BY DEF depth
<1> QED BY <1>6, <1>8, <1>9, <1>13, <1>14, <1>15, <1>16 DEF r, mid, to

-----------------------------------------------------------------------------
(* What a step does to the places of moments, to files and to attempts     *)

Spends == \E what \in SUBSET Troubles : what # {} /\ Meet(what)
Pays == UNCHANGED spent \/ \E what \in SUBSET Troubles : Meet(what)
Apart == UNCHANGED <<mode, ctx, next, results, output>>

(* Another request for the same window.                                    *)
Stays(w) ==
  /\ work[w].pc \in Busy /\ Apart
  /\ work' = [work EXCEPT ![w] = work'[w]]
  /\ work'[w] \in Worker /\ Shape(work'[w]) /\ SamePlace(work'[w], w) /\ work'[w].pc \in Busy
  /\ \/ work'[w].attempt = work[w].attempt /\ Pays
     \/ work[w].pc = "visit" /\ work'[w].attempt = 1 /\ Pays
     \/ work'[w].attempt = work[w].attempt + 1 /\ Spends
(* The window is given up.                                                 *)
GivenUp(w) ==
  /\ Pays
  /\ \/ ctx # "live"
     \/ work[w].attempt = MaxAttempts /\ Spends
     \/ Rows(Current(w)) > MaxResults /\ ~Divisible(Current(w), Depth(w))
Loses(w) ==
  /\ work[w].pc \in Busy /\ Apart /\ GivenUp(w)
  /\ work' = [work EXCEPT ![w] = WithoutWindow(w)]
Splits(w) ==
  /\ work[w].pc \in Asking /\ Apart /\ Pays
  /\ Divisible(Current(w), Depth(w)) /\ work' = [work EXCEPT ![w] = Split(w)]
Commits(w) ==
  /\ work[w].pc \in Busy /\ Commit(Current(w)) /\ Pays
  /\ work' = [work EXCEPT ![w] = Advanced(w, {})]
  /\ UNCHANGED <<mode, ctx, next, processed, missing, whole, output>>
Elsewhere ==
  /\ UNCHANGED <<mode, next, work, results, output>> /\ Pays
  /\ UNCHANGED ctx \/ (ctx = "live" /\ ctx' \in {"cancelled", "expired"})

LEMMA PayKinds ==
  /\ \A what \in SUBSET Troubles : Meet(what) => Pays
  /\ \A what \in SUBSET Troubles : Meet(what) /\ what # {} => Spends
  /\ UNCHANGED spent => Pays
  /\ Spends => Pays
BY DEF Pays, Spends

LEMMA ReturnPays ==
  ASSUME NEW w, NEW after, NEW troubles \in SUBSET Troubles, Return(w, after, troubles)
  PROVE  Pays /\ (troubles # {} => Spends) /\ work' = [work EXCEPT ![w] = after]
<1>1. PICK kept \in SUBSET {"undeleted"} :
        Meet(troubles \cup kept) /\ work' = [work EXCEPT ![w] = after]
  BY DEF Return
<1>2. troubles \cup kept \in SUBSET Troubles
  BY DEF Troubles
<1>3. troubles # {} => troubles \cup kept # {}
  OBVIOUS
<1> QED BY <1>1, <1>2, <1>3, PayKinds

LEMMA RetriedKind ==
  ASSUME WorkersOK, NEW w \in Workers, work[w].pc \in Asking, Apart,
         work' = [work EXCEPT ![w] = Retried(w)], Spends
  PROVE  Stays(w) \/ Loses(w)
<1>1. work[w].pc \in Busy /\ DOMAIN work = Workers
  BY DEF Asking, Busy, WorkersOK
<1>2. work'[w] = Retried(w)
  BY <1>1
<1>3. CASE Retried(w) = WithoutWindow(w) /\ (ctx # "live" \/ work[w].attempt = MaxAttempts)
  BY <1>1, <1>3, PayKinds DEF Loses, GivenUp
<1>4. CASE ~(Retried(w) = WithoutWindow(w) /\ (ctx # "live" \/ work[w].attempt = MaxAttempts))
  <2>1. /\ Retried(w) \in Worker /\ Shape(Retried(w)) /\ SamePlace(Retried(w), w)
        /\ Retried(w).pc = "create" /\ Retried(w).attempt = work[w].attempt + 1
    BY <1>4, RetriedRecord
  <2> QED BY <1>1, <1>2, <2>1 DEF Stays, Busy
<1> QED BY <1>3, <1>4

LEMMA InFetchAsks == \A w \in Workers : InFetch(w) <=> work[w].pc \in Asking
BY DEF InFetch, Asking

(* A step that leaves the window and the attempt as they are.              *)
LEMMA StaysKind ==
  ASSUME WorkersOK, NEW w \in Workers, work[w].pc \in Busy, Apart, Pays,
         NEW r \in Worker, Shape(r), SamePlace(r, w), r.pc \in Busy,
         r.attempt = work[w].attempt \/ (work[w].pc = "visit" /\ r.attempt = 1),
         work' = [work EXCEPT ![w] = r]
  PROVE  Stays(w)
<1>1. work'[w] = r
  BY DEF WorkersOK
<1> QED BY <1>1 DEF Stays

LEMMA FreshQuery ==
  ASSUME QueriesOK
  PROVE  NewQuery \in Nat /\ NewQuery # 0 /\ NewQuery \notin queries
<1> DEFINE n == Cardinality(queries)
<1>1. n \in Nat
  BY FS_CardinalityType DEF QueriesOK
<1> HIDE DEF n
<1>2. IsFiniteSet(1 .. n + 1) /\ Cardinality(1 .. n + 1) = n + 1
  BY <1>1, FS_Interval
<1>3. ~(1 .. n + 1 \subseteq queries)
  <2> SUFFICES ASSUME 1 .. n + 1 \subseteq queries PROVE FALSE
    OBVIOUS
  <2>1. Cardinality(1 .. n + 1) <= Cardinality(queries)
    BY FS_Subset DEF QueriesOK
  <2> QED BY <1>1, <1>2, <2>1 DEF n
<1>4. NewQuery \in 1 .. n + 1 /\ NewQuery \notin queries
  BY <1>3 DEF NewQuery, n
<1> QED BY <1>1, <1>4

(* Every request leaves the worker at its window.                          *)
LEMMA Requested ==
  ASSUME WorkersOK, NEW w \in Workers, work[w].pc \in Busy, NEW r \in Worker, SamePlace(r, w),
         r.pc \in Asking, r.attempt > 0, r.creates > 0, Apart, Pays,
         work' = [work EXCEPT ![w] = r],
         r.attempt = work[w].attempt \/ (work[w].pc = "visit" /\ r.attempt = 1)
  PROVE  Stays(w)
<1>1. Shape(work[w]) /\ r.pc \in Busy
  BY DEF WorkersOK, Asking, Busy
<1>2. Shape(r)
  BY <1>1 DEF Shape, SamePlace, Busy, Asking
<1> QED BY <1>1, <1>2, StaysKind

LEMMA Asker ==
  ASSUME WorkersOK, NEW w \in Workers
  PROVE  /\ work[w] \in Worker
         /\ work[w].pc \in Asking => /\ work[w].pc \in Busy
                                     /\ work[w].attempt > 0 /\ work[w].creates > 0
BY DEF WorkersOK, Shape, Asking, Busy

LEMMA VisitStays ==
  ASSUME TypeInv, NEW w \in Workers, Visit(w), ctx = "live"
  PROVE  Stays(w)
<1> DEFINE r == [work[w] EXCEPT !.pc = "create", !.attempt = 1, !.creates = 1]
<1>1. WorkersOK /\ work[w].pc = "visit" /\ work[w].pc \in Busy /\ work[w] \in Worker
  BY Asker DEF TypeInv, Visit, Busy
<1>2. work' = [work EXCEPT ![w] = r] /\ Apart /\ Pays
  BY PayKinds DEF Visit, Apart
<1>3. r \in Worker
  <2> HIDE DEF Ends, Windows
  <2>1. 1 \in 0 .. MaxAttempts /\ 1 \in 0 .. MaxCreates
    BY Sizes
  <2> QED BY <1>1, <2>1 DEF Worker, Busy
<1>4. SamePlace(r, w) /\ r.pc = "create" /\ r.attempt = 1 /\ r.creates = 1
  BY <1>1 DEF Worker, SamePlace
<1> HIDE DEF r
<1>5. r.pc \in Asking /\ r.attempt > 0 /\ r.creates > 0
  BY <1>4 DEF Asking
<1> QED BY <1>1, <1>2, <1>3, <1>4, <1>5, Requested, Zenon

LEMMA LookStays ==
  ASSUME TypeInv, NEW w \in Workers, Look(w) \/ WaitOver(w)
  PROVE  Stays(w)
<1>1. WorkersOK /\ work[w].pc \in Asking /\ work[w].pc \in Busy /\ work[w] \in Worker
      /\ work[w].attempt > 0 /\ work[w].creates > 0
  BY Asker, InFetchAsks DEF TypeInv, Look, WaitOver
<1>2. Apart /\ Pays
  BY PayKinds DEF Look, WaitOver, Apart
<1>3. PICK hold \in {"look", "wait", "go"}, since \in Nat :
        work' = [work EXCEPT ![w] = [work[w] EXCEPT !.hold = hold, !.since = since]]
  <2>1. cooldown.set \in Nat /\ work \in [Workers -> Worker]
    BY DEF TypeInv, ResultsOK, WorkersOK
  <2>2. CASE Look(w)
    <3> DEFINE hold == IF cooldown.on THEN "wait" ELSE "go"
               since == IF cooldown.on THEN cooldown.set ELSE 0
    <3>1. work' = [work EXCEPT ![w] = [work[w] EXCEPT !.hold = hold, !.since = since]]
      BY <2>1, <2>2 DEF Look, Worker
    <3>2. hold \in {"look", "wait", "go"} /\ since \in Nat
      BY <2>1
    <3> HIDE DEF hold, since
    <3> QED BY <3>1, <3>2
  <2>3. CASE WaitOver(w)
    <3>1. work' = [work EXCEPT ![w] = [work[w] EXCEPT !.hold = "go", !.since = 0]]
      BY <2>1, <2>3 DEF WaitOver, Worker
    <3> QED BY <3>1
  <2> QED BY <2>2, <2>3
<1> DEFINE r == [work[w] EXCEPT !.hold = hold, !.since = since]
<1> HIDE DEF Ends, Windows
<1>4. r \in Worker
  BY <1>1 DEF Worker
<1>5. SamePlace(r, w) /\ r.pc = work[w].pc /\ r.attempt = work[w].attempt
      /\ r.creates = work[w].creates
  BY <1>1 DEF Worker, SamePlace
<1> HIDE DEF r
<1>6. r.pc \in Asking /\ r.attempt > 0 /\ r.creates > 0
  BY <1>1, <1>5
<1>7. work' = [work EXCEPT ![w] = r]
  BY <1>3 DEF r
<1> QED BY <1>1, <1>2, <1>4, <1>5, <1>6, <1>7, Requested

(* A request answered, or failed while creations are left.                 *)
LEMMA AskedStays ==
  ASSUME TypeInv, NEW w \in Workers,
         \/ Created(w) \/ PollLimited(w)
         \/ Completed(w) /\ ~(Rows(Current(w)) > MaxResults)
         \/ \E how \in {"failed", "lost", "busy"} :
              CreateFails(w, how) /\ work[w].creates # MaxCreates
  PROVE  Stays(w)
<1>1. WorkersOK /\ work[w].pc \in Asking /\ work[w].pc \in Busy /\ work[w] \in Worker
      /\ work[w].attempt > 0 /\ work[w].creates > 0 /\ QueriesOK
  BY Asker DEF TypeInv, Created, PollLimited, Completed, CreateFails, Asked, Asking
<1>2. Apart /\ Pays
  <2>1. {{"failed"}, {"lost"}, {"busy"}} \subseteq SUBSET Troubles
    BY DEF Troubles
  <2> QED BY <2>1, PayKinds DEF Created, PollLimited, Completed, CreateFails, Apart
<1>3. PICK pc \in Asking, query \in Nat, creates \in 1 .. MaxCreates :
        work' = [work EXCEPT ![w] = [work[w] EXCEPT !.pc = pc, !.query = query, !.hold = "look",
                                                     !.creates = creates]]
  <2>1. NewQuery \in Nat
    BY <1>1, FreshQuery
  <2>2. /\ work[w].pc \in Asking /\ work[w].query \in Nat /\ work[w].creates \in 1 .. MaxCreates
        /\ work \in [Workers -> Worker] /\ {"create", "poll", "download"} \subseteq Asking
    <3>1. work[w].query \in Nat /\ work[w].creates \in 0 .. MaxCreates /\ work[w].creates > 0
      BY <1>1 DEF Worker
    <3> QED BY <1>1, <3>1, Sizes DEF Asking, WorkersOK
  <2> HIDE DEF NewQuery
  <2>3. CASE Created(w)
    <3>1. work' = [work EXCEPT ![w] = [work[w] EXCEPT !.pc = "poll", !.query = NewQuery,
                                       !.hold = "look", !.creates = work[w].creates]]
      BY <1>1, <2>2, <2>3 DEF Created, Worker
    <3> QED BY <2>1, <2>2, <3>1
  <2>4. CASE PollLimited(w)
    <3>1. work' = [work EXCEPT ![w] = [work[w] EXCEPT !.pc = work[w].pc, !.query = work[w].query,
                                       !.hold = "look", !.creates = work[w].creates]]
      BY <1>1, <2>2, <2>4 DEF PollLimited, Worker
    <3> QED BY <2>2, <3>1
  <2>5. CASE Completed(w) /\ ~(Rows(Current(w)) > MaxResults)
    <3>1. work' = [work EXCEPT ![w] = [work[w] EXCEPT !.pc = "download", !.query = work[w].query,
                                       !.hold = "look", !.creates = work[w].creates]]
      BY <1>1, <2>2, <2>5 DEF Completed, Worker
    <3> QED BY <2>2, <3>1
  <2>6. CASE \E how \in {"failed", "lost", "busy"} :
               CreateFails(w, how) /\ work[w].creates # MaxCreates
    <3>1. work' = [work EXCEPT ![w] = [work[w] EXCEPT !.pc = work[w].pc, !.query = work[w].query,
                                       !.hold = "look", !.creates = work[w].creates + 1]]
      <4>1. PICK how \in {"failed", "lost", "busy"} :
              CreateFails(w, how) /\ work[w].creates # MaxCreates
        BY <2>6
      <4>2. work' = [work EXCEPT ![w] = [work[w] EXCEPT !.creates = @ + 1, !.hold = "look"]]
        BY <2>2, <4>1 DEF CreateFails
      <4> HIDE DEF Ends, Windows
      <4>3. [work[w] EXCEPT !.creates = @ + 1, !.hold = "look"]
              = [work[w] EXCEPT !.pc = work[w].pc, !.query = work[w].query, !.hold = "look",
                                !.creates = work[w].creates + 1]
        BY <1>1 DEF Worker
      <4> QED BY <4>2, <4>3
    <3>2. work[w].creates + 1 \in 1 .. MaxCreates
      BY <2>2, <2>6, Sizes
    <3> QED BY <2>2, <3>1, <3>2
  <2> QED BY <2>3, <2>4, <2>5, <2>6
<1> DEFINE r == [work[w] EXCEPT !.pc = pc, !.query = query, !.hold = "look", !.creates = creates]
<1> HIDE DEF Ends, Windows
<1>4. r \in Worker
  <2>1. creates \in 0 .. MaxCreates /\ pc \in Busy
    BY Sizes DEF Asking, Busy
  <2> QED BY <1>1, <2>1 DEF Worker
<1>5. SamePlace(r, w) /\ r.pc = pc /\ r.attempt = work[w].attempt /\ r.creates = creates
  BY <1>1 DEF Worker, SamePlace
<1> HIDE DEF r
<1>6. r.pc \in Asking /\ r.attempt > 0 /\ r.creates > 0
  BY <1>1, <1>5
<1>7. work' = [work EXCEPT ![w] = r]
  BY <1>3 DEF r
<1> QED BY <1>1, <1>2, <1>4, <1>5, <1>6, <1>7, Requested

(* A request that failed, a window with too many rows, a context that      *)
(* ended, and a download.                                                  *)
LEMMA FailureKind ==
  ASSUME TypeInv, NEW w \in Workers,
         \/ Refused(w) \/ QueryFails(w) \/ Late(w)
         \/ \E how \in {"failed", "lost", "busy"} : CreateFails(w, how)
         \/ \E how \in {"failed", "busy"} : DownloadFails(w, how)
  PROVE  Stays(w) \/ Loses(w)
<1>1. WorkersOK /\ work[w].pc \in Asking
  BY InFetchAsks DEF TypeInv, Refused, QueryFails, Late, CreateFails, DownloadFails, Asked, Asking
<1>2. Apart
  BY DEF Refused, QueryFails, Late, CreateFails, DownloadFails, Apart
<1>3. CASE work' = [work EXCEPT ![w] = Retried(w)] /\ Spends
  BY <1>1, <1>2, <1>3, RetriedKind
<1>4. CASE Refused(w) \/ QueryFails(w) \/ Late(w) \/ \E how \in {"failed", "busy"} : DownloadFails(w, how)
  <2>1. PICK trouble \in {"refused", "failed", "late", "busy"} : Return(w, Retried(w), {trouble})
    BY <1>4 DEF Refused, QueryFails, Late, DownloadFails
  <2>2. {trouble} \in SUBSET Troubles /\ {trouble} # {}
    BY DEF Troubles
  <2> QED BY <2>1, <2>2, <1>3, ReturnPays
<1>5. ASSUME NEW how \in {"failed", "lost", "busy"}, CreateFails(w, how)
      PROVE  Stays(w) \/ Loses(w)
  <2>1. CASE work[w].creates = MaxCreates
    <3>1. {how} \in SUBSET Troubles /\ {how} # {}
      BY DEF Troubles
    <3>2. Spends
      BY <1>5, <3>1, PayKinds DEF CreateFails
    <3>3. work' = [work EXCEPT ![w] = Retried(w)]
      BY <1>5, <2>1 DEF CreateFails
    <3> QED BY <1>3, <3>2, <3>3
  <2>2. CASE work[w].creates # MaxCreates
    BY <1>5, <2>2, AskedStays
  <2> QED BY <2>1, <2>2
<1> QED BY <1>4, <1>5

LEMMA TruncatedKind ==
  ASSUME TypeInv, NEW w \in Workers, Completed(w), Rows(Current(w)) > MaxResults
  PROVE  Splits(w) \/ Loses(w)
<1>1. WorkersOK /\ work[w].pc \in Asking /\ work[w].pc \in Busy
  BY DEF TypeInv, Completed, Asked, Asking, Busy
<1>2. Apart /\ Return(w, Truncated(w), {})
  BY DEF Completed, Apart
<1>3. Pays /\ work' = [work EXCEPT ![w] = Truncated(w)]
  BY <1>2, ReturnPays
<1>4. CASE ctx = "live" /\ Divisible(Current(w), Depth(w))
  BY <1>1, <1>2, <1>3, <1>4 DEF Truncated, Splits
<1>5. CASE ~(ctx = "live" /\ Divisible(Current(w), Depth(w)))
  <2>1. work' = [work EXCEPT ![w] = WithoutWindow(w)]
    BY <1>3, <1>5 DEF Truncated
  <2>2. GivenUp(w)
    BY <1>3, <1>5 DEF GivenUp
  <2> QED BY <1>1, <1>2, <2>1, <2>2 DEF Loses
<1> QED BY <1>4, <1>5

LEMMA AbortKind ==
  ASSUME TypeInv, NEW w \in Workers, Abort(w) \/ (Visit(w) /\ ctx # "live")
  PROVE  Loses(w)
<1>1. work[w].pc \in Busy /\ ctx # "live"
  BY InFetchAsks DEF Abort, Visit, Busy, Asking
<1>2. Apart
  BY DEF Abort, Visit, Apart
<1>3. work' = [work EXCEPT ![w] = WithoutWindow(w)] /\ Pays
  <2>1. CASE Visit(w) /\ ctx # "live"
    BY <2>1, PayKinds DEF Visit
  <2>2. CASE Abort(w) /\ Return(w, WithoutWindow(w), {})
    BY <2>2, ReturnPays
  <2>3. CASE Abort(w) /\ ~Return(w, WithoutWindow(w), {})
    BY <2>3, PayKinds DEF Abort
  <2> QED BY <2>1, <2>2, <2>3
<1> QED BY <1>1, <1>2, <1>3 DEF Loses, GivenUp

LEMMA DownloadKind ==
  ASSUME NEW w \in Workers, Downloaded(w)
  PROVE  Commits(w)
<1>1. Pays /\ work' = [work EXCEPT ![w] = Advanced(w, {})]
  BY ReturnPays DEF Downloaded
<1> QED BY <1>1 DEF Downloaded, Commits, Asked, Busy

(* Every step is of one of these kinds.                                    *)
Kinds ==
  \/ \E w \in Workers : \/ Stays(w) \/ Loses(w) \/ Splits(w) \/ Commits(w)
                        \/ Take(w) \/ Leave(w) \/ Finish(w)
  \/ Assess \/ CreateFile \/ WriteFile \/ WriteManifest
  \/ Elsewhere
LEMMA StepKinds ==
  ASSUME TypeInv, [Next]_vars
  PROVE  Kinds
<1>1. ASSUME NEW w \in Workers, Work(w) \/ Fails(w) PROVE Kinds
  <2>1. CASE Visit(w)
    BY <2>1, VisitStays, AbortKind DEF Kinds
  <2>2. CASE Look(w) \/ WaitOver(w)
    BY <2>2, LookStays DEF Kinds
  <2>3. CASE Created(w) \/ PollLimited(w)
    BY <2>3, AskedStays DEF Kinds
  <2>4. CASE Completed(w)
    BY <2>4, AskedStays, TruncatedKind DEF Kinds
  <2>5. CASE Downloaded(w)
    BY <2>5, DownloadKind DEF Kinds
  <2>6. CASE Abort(w)
    BY <2>6, AbortKind DEF Kinds
  <2>7. CASE \/ Refused(w) \/ QueryFails(w) \/ Late(w)
             \/ \E how \in {"failed", "lost", "busy"} : CreateFails(w, how)
             \/ \E how \in {"failed", "busy"} : DownloadFails(w, how)
    BY <2>7, FailureKind DEF Kinds
  <2>8. CASE Take(w) \/ Leave(w) \/ Finish(w)
    BY <2>8 DEF Kinds
  <2> QED BY <1>1, <2>1, <2>2, <2>3, <2>4, <2>5, <2>6, <2>7, <2>8 DEF Work, Fetch, Fails
<1>2. ASSUME NEW how \in {"cancelled", "expired"}, EndContext(how) PROVE Elsewhere
  <2>1. Meet({how}) /\ {how} \in SUBSET Troubles
    BY <1>2 DEF EndContext, Troubles
  <2> QED BY <1>2, <2>1, PayKinds DEF EndContext, Elsewhere
<1>3. CASE CooldownOver
  BY <1>3, PayKinds DEF CooldownOver, Elsewhere, Kinds
<1>4. CASE Save
  BY <1>4 DEF Save, Kinds
<1>5. CASE UNCHANGED vars
  BY <1>5, PayKinds DEF vars, Elsewhere, Kinds, results, output
<1> QED BY <1>1, <1>2, <1>3, <1>4, <1>5 DEF Next, Kinds

-----------------------------------------------------------------------------
(* Types are kept                                                          *)

LEMMA InitTyped == Init => TypeInv
<1> SUFFICES ASSUME Init PROVE TypeInv
  OBVIOUS
<1>1. WorkersOK
  <2>1. Shape(Idle)
    BY IdleTypes DEF Shape, Busy, Asking
  <2>2. work = [w \in Workers |-> Idle]
    BY DEF Init
  <2> QED BY <2>1, <2>2, IdleTypes DEF WorkersOK
<1>2. FileOK
  BY DEF Init, FileOK, NoFile, Name
<1>3. ResultsOK
  BY DEF Init, ResultsOK
<1>4. QueriesOK
  BY FS_EmptySet DEF Init, QueriesOK
<1> QED BY <1>1, <1>2, <1>3, <1>4 DEF TypeInv

LEMMA PutWorker ==
  ASSUME WorkersOK, NEW w \in Workers, NEW r \in Worker, Shape(r), work' = [work EXCEPT ![w] = r]
  PROVE  WorkersOK' /\ work'[w] = r /\ \A v \in Workers \ {w} : work'[v] = work[v]
<1>1. work' \in [Workers -> Worker] /\ work'[w] = r /\ \A v \in Workers \ {w} : work'[v] = work[v]
  BY DEF WorkersOK
<1>2. \A v \in Workers : Shape(work'[v])
  BY <1>1 DEF WorkersOK
<1> QED BY <1>1, <1>2 DEF WorkersOK

(* What Take hands to a worker.                                            *)
Taken(c) ==
  [Idle EXCEPT !.pc = "visit", !.chunk = c, !.at = ChunkStart(c), !.ends = <<<<ChunkEnd(c), 0>>>>]
LEMMA TakenRecord ==
  ASSUME NEW c \in Chunks
  PROVE  LET r == Taken(c) IN
         /\ r \in Worker /\ Shape(r) /\ r.pc = "visit" /\ r.chunk = c /\ r.at = ChunkStart(c)
         /\ r.ends = <<<<ChunkEnd(c), 0>>>> /\ r.gaps = {} /\ r.query = 0 /\ r.attempt = 0
<1> DEFINE r == Taken(c)
           ends == <<<<ChunkEnd(c), 0>>>>
<1>1. r = [pc |-> "visit", chunk |-> c, at |-> ChunkStart(c), ends |-> ends, gaps |-> {},
           attempt |-> 0, creates |-> 0, query |-> 0, hold |-> "look", since |-> 0]
  <2>1. r = [Idle EXCEPT !.pc = "visit", !.chunk = c, !.at = ChunkStart(c), !.ends = ends]
    BY DEF Taken
  <2> HIDE DEF r, ends
  <2> QED BY <2>1, Zenon DEF Idle
<1>2. ends \in Ends /\ ends # <<>>
  BY ChunkBounds, Sizes DEF Ends
<1> HIDE DEF r, ends
<1>3. r \in Worker
  BY <1>1, <1>2, ChunkBounds, Sizes DEF Worker, Busy
<1>4. Shape(r)
  BY <1>1, <1>2 DEF Shape, Busy, Asking
<1> QED BY <1>1, <1>3, <1>4 DEF r, ends

LEMMA WorkersTyped ==
  ASSUME TypeInv, Kinds
  PROVE  WorkersOK'
<1>1. WorkersOK
  BY DEF TypeInv
<1>2. ASSUME NEW w \in Workers, Stays(w) PROVE WorkersOK'
  BY <1>1, <1>2, PutWorker DEF Stays
<1>3. ASSUME NEW w \in Workers, Loses(w) PROVE WorkersOK'
  BY <1>1, <1>3, PutWorker, WithoutRecord DEF Loses
<1>4. ASSUME NEW w \in Workers, Splits(w) PROVE WorkersOK'
  BY <1>1, <1>4, PutWorker, SplitRecord DEF Splits
<1>5. ASSUME NEW w \in Workers, Commits(w) PROVE WorkersOK'
  <2>1. {} \in SUBSET Windows
    OBVIOUS
  <2> QED BY <1>1, <1>5, <2>1, PutWorker, AdvancedRecord DEF Commits
<1>6. ASSUME NEW w \in Workers, Take(w) PROVE WorkersOK'
  <2>1. next \in Chunks
    BY <1>6 DEF Take
  <2>2. Shape(Gone)
    BY IdleTypes DEF Shape, Busy, Asking
  <2>3. work' = [work EXCEPT ![w] = IF ctx # "live" THEN Gone ELSE Taken(next)]
    BY <1>6 DEF Take, Taken
  <2> QED BY <1>1, <2>1, <2>2, <2>3, TakenRecord, IdleTypes, PutWorker
<1>7. ASSUME NEW w \in Workers, Leave(w) \/ Finish(w) PROVE WorkersOK'
  <2>1. Shape(Gone) /\ Shape(Idle)
    BY IdleTypes DEF Shape, Busy, Asking
  <2> QED BY <1>1, <1>7, <2>1, IdleTypes, PutWorker DEF Leave, Finish
<1>8. CASE UNCHANGED work
  BY <1>1, <1>8 DEF WorkersOK
<1> QED BY <1>2, <1>3, <1>4, <1>5, <1>6, <1>7, <1>8
        DEF Kinds, Assess, CreateFile, WriteFile, WriteManifest, Elsewhere

(* The troubles met, the cooldown and the queries.                         *)
LEMMA SpentTyped ==
  ASSUME TypeInv, Pays
  PROVE  spent' \in [Troubles -> Nat]
<1>1. spent \in [Troubles -> Nat]
  BY DEF TypeInv, ResultsOK
<1>2. ASSUME NEW what \in SUBSET Troubles, Meet(what) PROVE spent' \in [Troubles -> Nat]
  <2>1. spent' = [x \in Troubles |-> IF x \in what THEN spent[x] + 1 ELSE spent[x]]
    BY <1>2 DEF Meet
  <2>2. \A x \in Troubles : (IF x \in what THEN spent[x] + 1 ELSE spent[x]) \in Nat
    BY <1>1
  <2> HIDE DEF Troubles
  <2> QED BY <2>1, <2>2
<1> QED BY <1>1, <1>2 DEF Pays

LEMMA CooldownTyped ==
  ASSUME TypeInv, [Next]_vars
  PROVE  cooldown' \in [on : BOOLEAN, set : Nat]
<1>1. cooldown \in [on : BOOLEAN, set : Nat]
  BY DEF TypeInv, ResultsOK
<1>2. Limited \/ UNCHANGED cooldown \/ CooldownOver
  BY DEF Next, Work, Fetch, Fails, Save, vars, Take, Leave, Visit, Finish, Created, Completed,
         Downloaded, Abort, Look, WaitOver, Refused, QueryFails, PollLimited, Late, CreateFails,
         DownloadFails, EndContext, Assess, CreateFile, WriteFile, WriteManifest
<1>3. CASE Limited
  BY <1>1, <1>3 DEF Limited
<1>4. CASE CooldownOver
  BY <1>1, <1>4 DEF CooldownOver
<1> QED BY <1>1, <1>2, <1>3, <1>4

LEMMA QueriesTyped ==
  ASSUME TypeInv, [Next]_vars
  PROVE  QueriesOK'
<1>1. QueriesOK
  BY DEF TypeInv
<1>2. ASSUME NEW w \in Workers,
             queries' \in {queries, queries \cup {NewQuery}, queries \ {work[w].query}}
      PROVE  QueriesOK'
  <2>1. NewQuery \in Nat \ {0}
    BY <1>1, FreshQuery
  <2>2. IsFiniteSet(queries \cup {NewQuery})
    BY <1>1, FS_AddElement DEF QueriesOK
  <2>3. IsFiniteSet(queries \ {work[w].query})
    BY <1>1, FS_Subset DEF QueriesOK
  <2> HIDE DEF NewQuery
  <2> QED BY <1>1, <1>2, <2>1, <2>2, <2>3 DEF QueriesOK
<1>3. ASSUME NEW w \in Workers, Work(w) \/ Fails(w)
      PROVE  queries' \in {queries, queries \cup {NewQuery}, queries \ {work[w].query}}
  <2>1. ASSUME NEW after, NEW troubles, Return(w, after, troubles)
        PROVE  queries' \in {queries, queries \ {work[w].query}}
    BY <2>1 DEF Return
  <2> HIDE DEF NewQuery
  <2>2. CASE Take(w) \/ Leave(w) \/ Visit(w) \/ Finish(w) \/ Look(w) \/ WaitOver(w) \/ PollLimited(w)
    BY <2>2 DEF Take, Leave, Visit, Finish, Look, WaitOver, PollLimited, pce
  <2>3. CASE Created(w) \/ Abort(w)
    BY <2>1, <2>3 DEF Created, Abort
  <2>4. CASE Completed(w)
    BY <2>1, <2>4 DEF Completed, pce
  <2>5. CASE Downloaded(w) \/ Refused(w) \/ QueryFails(w) \/ Late(w)
    BY <2>1, <2>5 DEF Downloaded, Refused, QueryFails, Late
  <2>6. CASE \E how \in {"failed", "lost", "busy"} : CreateFails(w, how)
    BY <2>6 DEF CreateFails, pce
  <2>7. CASE \E how \in {"failed", "busy"} : DownloadFails(w, how)
    BY <2>1, <2>7 DEF DownloadFails
  <2> QED BY <1>3, <2>2, <2>3, <2>4, <2>5, <2>6, <2>7 DEF Work, Fetch, Fails
<1>4. CASE UNCHANGED queries
  BY <1>1, <1>4 DEF QueriesOK
<1>5. CASE \/ \E how \in {"cancelled", "expired"} : EndContext(how)
           \/ CooldownOver \/ Save \/ UNCHANGED vars
  <2>1. UNCHANGED queries
    BY <1>5 DEF EndContext, CooldownOver, Save, Assess, CreateFile, WriteFile, WriteManifest, vars, pce
  <2> QED BY <1>4, <2>1
<1>6. CASE \E w \in Workers : Work(w) \/ Fails(w)
  BY <1>2, <1>3, <1>6, Zenon
<1> QED BY <1>5, <1>6 DEF Next

LEMMA ResultsTyped ==
  ASSUME TypeInv, Kinds, cooldown' \in [on : BOOLEAN, set : Nat]
  PROVE  ResultsOK'
<1> DEFINE Same == UNCHANGED <<mode, ctx, next, results>> /\ Pays
           Goal == ResultsOK'
<1>1. WorkersOK /\ ResultsOK /\ FileOK
  BY DEF TypeInv
<1>2. ASSUME Pays PROVE spent' \in [Troubles -> Nat]
  BY <1>2, SpentTyped
<1> HIDE DEF Troubles, Moments, Chunks, Windows
<1>3. ASSUME Same PROVE Goal
  BY <1>1, <1>2, <1>3 DEF ResultsOK, results
<1>4. ASSUME NEW w \in Workers, Stays(w) \/ Loses(w) \/ Splits(w) PROVE Same
  <2>1. Pays
    BY <1>4, PayKinds DEF Stays, Loses, Splits, GivenUp
  <2> QED BY <1>4, <2>1 DEF Stays, Loses, Splits, Apart
<1>5. ASSUME NEW w \in Workers, Commits(w) PROVE Goal
  <2>1. Current(w) \in Windows
    BY <1>1, <1>5, CurrentWindow DEF Commits
  <2>2. counted' = [t \in Moments |-> IF t \in In(Current(w)) THEN counted[t] + 1 ELSE counted[t]]
        /\ completed' = completed \cup {Current(w)}
    BY <1>5 DEF Commits, Commit
  <2> HIDE DEF In
  <2>3. counted' \in [Moments -> Nat]
    BY <1>1, <2>2 DEF ResultsOK
  <2>4. completed' \subseteq Windows
    BY <1>1, <2>1, <2>2 DEF ResultsOK
  <2>5. UNCHANGED <<mode, ctx, next, processed, missing, whole>> /\ Pays
    BY <1>5 DEF Commits
  <2> QED BY <1>1, <1>2, <2>3, <2>4, <2>5 DEF ResultsOK
<1>6. ASSUME NEW w \in Workers, Take(w) \/ Leave(w) PROVE Goal
  <2>1. next' \in Nat \ {0} /\ UNCHANGED <<mode, ctx, results>> /\ UNCHANGED spent
    BY <1>1, <1>6 DEF Take, Leave, ResultsOK
  <2> QED BY <1>1, <2>1 DEF ResultsOK, results
<1>7. ASSUME NEW w \in Workers, Finish(w) PROVE Goal
  <2>1. work[w].chunk \in Chunks /\ work[w].gaps \subseteq Windows
    BY <1>1, <1>7 DEF Finish, WorkersOK, Shape, Worker
  <2>2. processed' \subseteq Chunks /\ missing' \subseteq Windows /\ whole' \in Nat
    BY <1>1, <1>7, <2>1 DEF Finish, ResultsOK
  <2> QED BY <1>1, <1>7, <2>2 DEF Finish, ResultsOK
<1>8. CASE Assess
  <2>1. \A c \in Chunks : Window(ChunkStart(c), ChunkEnd(c)) \in Windows
    BY ChunkBounds DEF Windows, Window
  <2>2. missing' \subseteq Windows
    BY <1>1, <1>8, <2>1 DEF Assess, ResultsOK
  <2> QED BY <1>1, <1>8, <2>2 DEF Assess, ResultsOK
<1>9. CASE CreateFile \/ WriteFile \/ WriteManifest
  <2>1. {{}, {"unwritten"}, {"manifest"}} \subseteq SUBSET Troubles
    BY DEF Troubles
  <2>2. Pays
    BY <1>9, <2>1, PayKinds DEF CreateFile, WriteFile, WriteManifest
  <2>3. UNCHANGED <<mode, ctx, next, results>>
    BY <1>9 DEF CreateFile, WriteFile, WriteManifest
  <2> QED BY <1>3, <2>2, <2>3
<1>10. CASE Elsewhere
  BY <1>1, <1>2, <1>10 DEF Elsewhere, ResultsOK, results
<1> HIDE DEF Goal, Same
<1>11. Goal
  <2>1. CASE \E w \in Workers : \/ Stays(w) \/ Loses(w) \/ Splits(w) \/ Commits(w)
                                \/ Take(w) \/ Leave(w) \/ Finish(w)
    BY <1>3, <1>4, <1>5, <1>6, <1>7, <2>1
  <2> QED BY <1>8, <1>9, <1>10, <2>1 DEF Kinds, Goal
<1> QED BY <1>11 DEF Goal

LEMMA FileTyped ==
  ASSUME TypeInv, Kinds
  PROVE  FileOK'
<1>1. FileOK /\ WorkersOK
  BY DEF TypeInv
<1>2. ASSUME NEW w \in Workers, \/ Stays(w) \/ Loses(w) \/ Splits(w) \/ Commits(w)
                                \/ Take(w) \/ Leave(w) \/ Finish(w)
      PROVE  FileOK'
  <2>1. work[w].pc # "gone" /\ UNCHANGED file
    BY <1>2 DEF Stays, Loses, Splits, Commits, Take, Leave, Finish, Busy, Asking, Apart, output
  <2> QED BY <1>1, <2>1 DEF FileOK
<1>3. CASE Assess
  BY <1>1, <1>3 DEF Assess, FileOK, NoFile, Name
<1>4. CASE CreateFile \/ WriteFile \/ WriteManifest
  <2>1. file.pc # "fetch" /\ UNCHANGED work
    BY <1>4 DEF CreateFile, WriteFile, WriteManifest
  <2>2. PICK name \in [partial : BOOLEAN, unique : BOOLEAN], cancelled \in BOOLEAN,
             pc \in {"create", "write", "manifest", "over"} :
          file' = [file EXCEPT !.pc = pc, !.name = name, !.cancelled = cancelled]
    <3>1. CASE CreateFile
      <4> DEFINE name == Name(file.partial, Name(file.partial, FALSE) \in DOMAIN disk)
      <4>1. name \in [partial : BOOLEAN, unique : BOOLEAN] /\ NoFile \in [partial : BOOLEAN, unique : BOOLEAN]
        BY <1>1 DEF FileOK, Name, NoFile
      <4>2. \/ file' = [file EXCEPT !.pc = "write", !.name = name]
            \/ file' = [file EXCEPT !.pc = "over", !.name = NoFile, !.cancelled = FALSE]
        BY <3>1 DEF CreateFile, Over
      <4> HIDE DEF name
      <4>3. [file EXCEPT !.pc = "write", !.name = name]
              = [file EXCEPT !.pc = "write", !.name = name, !.cancelled = file.cancelled]
            /\ file.cancelled \in BOOLEAN
        BY <1>1 DEF FileOK
      <4> QED BY <4>1, <4>2, <4>3
    <3>2. CASE WriteFile \/ WriteManifest
      <4>1. NoFile \in [partial : BOOLEAN, unique : BOOLEAN]
        BY DEF Name, NoFile
      <4>2. \/ file' = [file EXCEPT !.pc = "manifest"]
            \/ file' = [file EXCEPT !.pc = "over", !.name = NoFile, !.cancelled = FALSE]
            \/ file' = [file EXCEPT !.pc = "over", !.name = file.name, !.cancelled = file.cancelled]
        BY <3>2 DEF WriteFile, WriteManifest, Over
      <4>3. [file EXCEPT !.pc = "manifest"]
              = [file EXCEPT !.pc = "manifest", !.name = file.name, !.cancelled = file.cancelled]
            /\ file.cancelled \in BOOLEAN /\ file.name \in [partial : BOOLEAN, unique : BOOLEAN]
        BY <1>1 DEF FileOK
      <4> QED BY <4>1, <4>2, <4>3
    <3> QED BY <1>4, <3>1, <3>2
  <2> QED BY <1>1, <2>1, <2>2 DEF FileOK
<1>5. CASE Elsewhere
  BY <1>1, <1>5 DEF Elsewhere, FileOK, output
<1> QED BY <1>2, <1>3, <1>4, <1>5 DEF Kinds

LEMMA NextTyped ==
  ASSUME TypeInv, [Next]_vars
  PROVE  TypeInv' /\ Kinds
<1>1. Kinds
  BY StepKinds
<1> QED BY <1>1, WorkersTyped, FileTyped, CooldownTyped, ResultsTyped, QueriesTyped DEF TypeInv

-----------------------------------------------------------------------------
(* Where the workers are                                                   *)

(* A worker with a chunk goes through it from its start to its end, the    *)
(* windows still to visit follow each other, and those that failed lie     *)
(* behind it.                                                              *)
Holds(w) == work[w].pc \in Busy \cup {"done"}
Ordered(r) ==
  /\ ChunkStart(r.chunk) <= r.at
  /\ r.ends = <<>> => r.at = ChunkEnd(r.chunk)
  /\ r.ends # <<>> => r.at < r.ends[1][1] /\ r.ends[Len(r.ends)][1] = ChunkEnd(r.chunk)
  /\ \A i \in 1 .. Len(r.ends) - 1 : r.ends[i][1] < r.ends[i + 1][1]
  /\ \A g \in r.gaps : ChunkStart(r.chunk) <= g.from /\ g.from < g.to /\ g.to <= r.at
HoldersOK ==
  \A w \in Workers : Holds(w) =>
    /\ work[w].chunk < next /\ work[w].chunk \notin processed
    /\ \A v \in Workers : Holds(v) /\ work[v].chunk = work[w].chunk => v = w
ChunksInv ==
  /\ \A w \in Workers : Holds(w) => Ordered(work[w])
  /\ HoldersOK
  /\ \A c \in processed : c < next
  /\ \A x \in missing : x.from < x.to

(* The four places of a moment, of which it is in one.                     *)
MissingAt(t) == {y \in missing : t \in In(y)}
GapsAt(w, t) == {y \in work[w].gaps : t \in In(y)}
FailedAt(t) == UNION {GapsAt(w, t) : w \in Workers}
PendingAt(t) ==
  {d \in Chunks : /\ InChunk(t, d) /\ d \notin processed /\ file.pc = "fetch"
                  /\ \A w \in Workers : work[w].chunk = d => t >= work[w].at}
OnlyIn(t) ==
  \/ counted[t] = 1 /\ MissingAt(t) = {} /\ FailedAt(t) = {} /\ PendingAt(t) = {}
  \/ counted[t] = 0 /\ (\E x : MissingAt(t) = {x}) /\ FailedAt(t) = {} /\ PendingAt(t) = {}
  \/ counted[t] = 0 /\ MissingAt(t) = {} /\ (\E x : FailedAt(t) = {x}) /\ PendingAt(t) = {}
  \/ counted[t] = 0 /\ MissingAt(t) = {} /\ FailedAt(t) = {} /\ \E x : PendingAt(t) = {x}
OnceInv == TypeInv /\ ChunksInv /\ \A t \in Moments : OnlyIn(t)

LEMMA OnePlace ==
  ASSUME NEW t \in Moments, counted \in [Moments -> Nat], OnlyIn(t)
  PROVE  Cardinality(Places(t)) = 1
<1> DEFINE C == {<<"counted", n>> : n \in 1 .. counted[t]}
           M == {<<"missing", x>> : x \in MissingAt(t)}
           F == UNION {{<<"failed", x>> : x \in GapsAt(w, t)} : w \in Workers}
           P == {<<"pending", c>> : c \in PendingAt(t)}
<1>1. Places(t) = C \cup M \cup F \cup P
  <2> DEFINE Q == {d \in Chunks : /\ ChunkStart(d) <= t /\ t < ChunkEnd(d)
                                  /\ d \notin processed /\ file.pc = "fetch"
                                  /\ \A w \in Workers : work[w].chunk = d => t >= work[w].at}
  <2>1. Q = PendingAt(t)
    BY DEF PendingAt, InChunk
  <2>2. Places(t) = C \cup M \cup F \cup {<<"pending", c>> : c \in Q}
    BY Zenon DEF Places, MissingAt, GapsAt
  <2> QED BY <2>1, <2>2
<1>2. F = {<<"failed", x>> : x \in FailedAt(t)}
  BY DEF FailedAt
<1>3. counted[t] = 0 => C = {}
  OBVIOUS
<1>4. counted[t] = 1 => C = {<<"counted", 1>>}
  <2> SUFFICES ASSUME counted[t] = 1 PROVE C = {<<"counted", 1>>}
    OBVIOUS
  <2>1. 1 .. counted[t] = {1}
    OBVIOUS
  <2> QED BY <2>1
<1> HIDE DEF C, F
<1>5. \E x : C \cup M \cup F \cup P = {x}
  <2>1. CASE counted[t] = 1 /\ MissingAt(t) = {} /\ FailedAt(t) = {} /\ PendingAt(t) = {}
    BY <1>2, <1>4, <2>1
  <2>2. ASSUME counted[t] = 0 /\ MissingAt(t) # {} /\ FailedAt(t) = {} /\ PendingAt(t) = {},
               NEW x, MissingAt(t) = {x}
        PROVE  C \cup M \cup F \cup P = {<<"missing", x>>}
    BY <1>2, <1>3, <2>2
  <2>3. ASSUME counted[t] = 0 /\ MissingAt(t) = {} /\ FailedAt(t) # {} /\ PendingAt(t) = {},
               NEW x, FailedAt(t) = {x}
        PROVE  C \cup M \cup F \cup P = {<<"failed", x>>}
    BY <1>2, <1>3, <2>3
  <2>4. ASSUME counted[t] = 0 /\ MissingAt(t) = {} /\ FailedAt(t) = {} /\ PendingAt(t) # {},
               NEW x, PendingAt(t) = {x}
        PROVE  C \cup M \cup F \cup P = {<<"pending", x>>}
    BY <1>2, <1>3, <2>4
  <2> HIDE DEF M, P
  <2> QED BY <2>1, <2>2, <2>3, <2>4 DEF OnlyIn
<1> QED BY <1>1, <1>5, FS_Singleton

(* The path of a worker stays ordered.                                     *)
LEMMA SameOrdered ==
  ASSUME NEW w \in Workers, NEW r, SamePlace(r, w), Ordered(work[w])
  PROVE  Ordered(r)
BY DEF SamePlace, Ordered

LEMMA LastEnd ==
  ASSUME WorkersOK, NEW w \in Workers, work[w].pc \in Busy, Ordered(work[w])
  PROVE  /\ work[w].at < Current(w).to /\ Current(w).to <= ChunkEnd(work[w].chunk)
         /\ Current(w).from = work[w].at /\ work[w].at \in Nat /\ Current(w).to \in Nat
         /\ work[w].chunk \in Chunks /\ ChunkEnd(work[w].chunk) \in Nat
         /\ ChunkStart(work[w].chunk) \in Nat
<1> DEFINE ends == work[w].ends
           n == Len(ends)
<1>1. /\ ends \in Ends /\ n > 0 /\ Current(w).from = work[w].at /\ Current(w).to = ends[1][1]
      /\ Current(w) \in Windows
  BY CurrentWindow
<1>2. work[w].chunk \in Chunks
  BY DEF WorkersOK, Shape
<1>3. n \in Nat /\ \A i \in 1 .. n : ends[i][1] \in Int
  <2>1. n \in Nat /\ \A i \in 1 .. n : ends[i] \in (0 .. Span) \X (0 .. MaxDepth)
    BY <1>1 DEF Ends
  <2> QED BY <2>1
<1>4. ends # <<>>
  BY <1>1
<1>5. work[w].at < ends[1][1] /\ ends[n][1] = ChunkEnd(work[w].chunk)
      /\ \A i \in 1 .. n - 1 : ends[i][1] < ends[i + 1][1]
  BY <1>4 DEF Ordered
<1> HIDE DEF ends, n
<1>6. \A k \in 1 .. n : ends[1][1] <= ends[k][1]
  <2> DEFINE S == {j \in Nat : j + 1 \in 1 .. n => ends[1][1] <= ends[j + 1][1]}
  <2>1. 0 \in S
    BY <1>1, <1>3
  <2>2. \A j \in S : j + 1 \in S
    <3> TAKE j \in S
    <3>1. CASE j + 1 + 1 \in 1 .. n
      <4>1. j + 1 \in 1 .. n - 1 /\ j + 1 \in 1 .. n /\ j \in Nat
        BY <3>1, <1>3
      <4>2. ends[1][1] <= ends[j + 1][1] /\ ends[j + 1][1] < ends[j + 1 + 1][1]
        BY <4>1, <1>5
      <4> QED BY <3>1, <4>1, <4>2, <1>3, <1>1
    <3> QED BY <3>1
  <2>3. S = Nat
    <3> HIDE DEF S
    <3>1. S \subseteq Nat
      BY DEF S
    <3> QED BY <2>1, <2>2, <3>1, Induction
  <2>4. TAKE k \in 1 .. n
  <2>5. k - 1 \in Nat /\ k - 1 + 1 = k
    BY <1>3
  <2> HIDE DEF S
  <2>6. k - 1 \in S
    BY <2>3, <2>5
  <2> QED BY <2>5, <2>6 DEF S
<1>7. n \in 1 .. n
  BY <1>1, <1>3
<1>8. ends[1][1] <= ChunkEnd(work[w].chunk)
  BY <1>5, <1>6, <1>7
<1> QED BY <1>1, <1>2, <1>5, <1>8, ChunkBounds DEF Windows

LEMMA EndsLength ==
  ASSUME NEW s \in Ends
  PROVE  Len(s) \in Nat /\ (s = <<>> <=> Len(s) = 0)
BY DEF Ends

LEMMA AdvancedOrdered ==
  ASSUME WorkersOK, NEW w \in Workers, work[w].pc \in Busy, Ordered(work[w]),
         NEW gaps \in SUBSET {Current(w)}
  PROVE  Ordered(Advanced(w, gaps))
<1> DEFINE ends == work[w].ends
           rest == Tail(ends)
           r == Advanced(w, gaps)
           c == work[w].chunk
<1>1. r.chunk = c /\ r.at = Current(w).to /\ r.ends = rest /\ r.gaps = work[w].gaps \cup gaps
  <2>1. gaps \in SUBSET Windows
    BY CurrentWindow
  <2> QED BY <2>1, AdvancedRecord
<1>2. /\ work[w].at < Current(w).to /\ Current(w).to <= ChunkEnd(c) /\ Current(w).from = work[w].at
      /\ work[w].at \in Nat /\ Current(w).to \in Nat /\ ChunkEnd(c) \in Nat /\ ChunkStart(c) \in Nat
  BY LastEnd
<1>3. /\ ends \in Ends /\ Len(ends) > 0 /\ Current(w).to = ends[1][1] /\ rest \in Ends
      /\ Len(rest) = Len(ends) - 1 /\ \A i \in 1 .. Len(rest) : rest[i] = ends[i + 1]
      /\ work[w].gaps \subseteq Windows
  BY CurrentWindow DEF WorkersOK, Worker
<1>4. Len(ends) \in Nat /\ ends # <<>> /\ Len(rest) \in Nat /\ (rest = <<>> <=> Len(rest) = 0)
  <2>1. ends \in Ends /\ rest \in Ends /\ Len(ends) > 0
    BY <1>3
  <2> HIDE DEF ends, rest
  <2>2. Len(ends) # 0
    BY <2>1
  <2> QED BY <2>1, <2>2, EndsLength
<1>5. /\ ChunkStart(c) <= work[w].at
      /\ ends[1][1] = Current(w).to /\ ends[Len(ends)][1] = ChunkEnd(c)
      /\ \A i \in 1 .. Len(ends) - 1 : ends[i][1] < ends[i + 1][1]
      /\ \A g \in work[w].gaps : ChunkStart(c) <= g.from /\ g.from < g.to /\ g.to <= work[w].at
  BY <1>3, <1>4 DEF Ordered
<1> HIDE DEF ends, rest, r, c
<1>6. ChunkStart(c) <= r.at
  BY <1>1, <1>2, <1>5
<1>7. r.ends = <<>> => r.at = ChunkEnd(c)
  <2> SUFFICES ASSUME rest = <<>> PROVE r.at = ChunkEnd(c)
    BY <1>1
  <2>1. Len(ends) = 1
    BY <1>3, <1>4
  <2> QED BY <2>1, <1>1, <1>5
<1>8. r.ends # <<>> => r.at < r.ends[1][1] /\ r.ends[Len(r.ends)][1] = ChunkEnd(c)
  <2> SUFFICES ASSUME rest # <<>> PROVE r.at < rest[1][1] /\ rest[Len(rest)][1] = ChunkEnd(c)
    BY <1>1
  <2>1. 1 \in 1 .. Len(rest) /\ Len(rest) \in 1 .. Len(rest) /\ 1 \in 1 .. Len(ends) - 1
        /\ Len(rest) + 1 = Len(ends) /\ 1 + 1 = 2
    BY <1>3, <1>4
  <2>2. rest[1] = ends[2] /\ rest[Len(rest)] = ends[Len(ends)]
    BY <2>1, <1>3
  <2>3. ends[1][1] < ends[2][1]
    BY <2>1, <1>5
  <2> QED BY <1>1, <1>5, <2>2, <2>3
<1>9. \A i \in 1 .. Len(r.ends) - 1 : r.ends[i][1] < r.ends[i + 1][1]
  <2> SUFFICES ASSUME NEW i \in 1 .. Len(rest) - 1 PROVE rest[i][1] < rest[i + 1][1]
    BY <1>1
  <2>1. i \in 1 .. Len(rest) /\ i + 1 \in 1 .. Len(rest) /\ i + 1 \in 1 .. Len(ends) - 1
    BY <1>3, <1>4
  <2> QED BY <2>1, <1>3, <1>5
<1>10. \A g \in r.gaps : ChunkStart(c) <= g.from /\ g.from < g.to /\ g.to <= r.at
  <2>1. \A g \in work[w].gaps : g.to \in Nat
    BY <1>3 DEF Windows
  <2>2. ASSUME NEW g \in work[w].gaps
        PROVE  ChunkStart(c) <= g.from /\ g.from < g.to /\ g.to <= r.at
    BY <2>1, <1>1, <1>2, <1>5
  <2>3. ASSUME NEW g \in gaps
        PROVE  ChunkStart(c) <= g.from /\ g.from < g.to /\ g.to <= r.at
    <3>1. g = Current(w)
      OBVIOUS
    <3> QED BY <3>1, <1>1, <1>2, <1>5
  <2> QED BY <1>1, <2>2, <2>3
<1> QED BY <1>1, <1>6, <1>7, <1>8, <1>9, <1>10 DEF Ordered, r, c

LEMMA SplitOrdered ==
  ASSUME WorkersOK, NEW w \in Workers, work[w].pc \in Asking, Divisible(Current(w), Depth(w)),
         Ordered(work[w])
  PROVE  Ordered(Split(w))
<1> DEFINE ends == work[w].ends
           r == Split(w)
           c == work[w].chunk
           mid == Midpoint(Current(w))
<1>1. /\ r.chunk = c /\ r.at = work[w].at /\ r.gaps = work[w].gaps
      /\ mid \in 0 .. Span /\ work[w].at < mid /\ mid < Current(w).to
      /\ Len(r.ends) = Len(ends) + 1 /\ r.ends[1][1] = mid /\ r.ends[2][1] = Current(w).to
      /\ \A i \in 3 .. Len(r.ends) : r.ends[i] = ends[i - 1]
  BY SplitRecord
<1>2. work[w].pc \in Busy
  BY DEF Asking, Busy
<1>3. /\ ends \in Ends /\ Len(ends) > 0 /\ Current(w).to = ends[1][1]
  BY <1>2, CurrentWindow
<1>4. Len(ends) \in Nat /\ ends # <<>>
  BY <1>3 DEF Ends
<1>5. /\ ChunkStart(c) <= work[w].at /\ ends[Len(ends)][1] = ChunkEnd(c)
      /\ \A i \in 1 .. Len(ends) - 1 : ends[i][1] < ends[i + 1][1]
      /\ \A g \in work[w].gaps : ChunkStart(c) <= g.from /\ g.from < g.to /\ g.to <= work[w].at
  BY <1>4 DEF Ordered
<1> HIDE DEF ends, r, c, mid
<1>6. r.ends # <<>> /\ r.ends[Len(r.ends)][1] = ChunkEnd(c)
  <2>1. r.ends # <<>>
    BY <1>1, <1>3, <1>4
  <2>2. CASE Len(ends) = 1
    BY <1>1, <1>3, <1>5, <2>1, <2>2
  <2>3. CASE Len(ends) # 1
    <3> DEFINE n == Len(ends)
    <3>0. n \in Nat /\ n > 0 /\ n # 1 /\ Len(r.ends) = n + 1
      BY <1>1, <1>3, <1>4, <2>3
    <3> HIDE DEF n
    <3>1. Len(r.ends) \in 3 .. Len(r.ends) /\ Len(r.ends) - 1 = n
      BY <3>0
    <3> USE DEF n
    <3> QED BY <1>1, <1>5, <2>1, <3>1
  <2> QED BY <2>2, <2>3
<1>7. \A i \in 1 .. Len(r.ends) - 1 : r.ends[i][1] < r.ends[i + 1][1]
  <2> TAKE i \in 1 .. Len(r.ends) - 1
  <2>0. i \in 1 .. Len(ends)
    BY <1>1, <1>4
  <2>1. CASE i = 1
    BY <1>1, <2>1
  <2>2. CASE i = 2
    <3>1. 3 \in 3 .. Len(r.ends) /\ 1 \in 1 .. Len(ends) - 1 /\ 3 - 1 = 2 /\ 2 + 1 = 3 /\ 1 + 1 = 2
      BY <1>1, <1>4, <2>0, <2>2
    <3>2. r.ends[3] = ends[2] /\ ends[1][1] < ends[2][1]
      BY <1>1, <1>5, <3>1
    <3> QED BY <1>1, <1>3, <2>2, <3>1, <3>2
  <2>3. CASE i # 1 /\ i # 2
    <3>1. i \in 3 .. Len(r.ends) /\ i + 1 \in 3 .. Len(r.ends) /\ i - 1 \in 1 .. Len(ends) - 1
          /\ (i + 1) - 1 = (i - 1) + 1
      BY <1>1, <1>4, <2>0, <2>3
    <3> QED BY <1>1, <1>5, <3>1
  <2> QED BY <2>1, <2>2, <2>3
<1> QED BY <1>1, <1>5, <1>6, <1>7 DEF Ordered, r, c

LEMMA TakenOrdered ==
  ASSUME NEW c \in Chunks
  PROVE  Ordered(Taken(c))
<1> DEFINE r == Taken(c)
           ends == <<<<ChunkEnd(c), 0>>>>
<1>1. r.chunk = c /\ r.at = ChunkStart(c) /\ r.ends = ends /\ r.gaps = {}
  BY TakenRecord
<1>2. Len(ends) = 1 /\ ends # <<>> /\ ends[1][1] = ChunkEnd(c)
  OBVIOUS
<1> HIDE DEF r, ends
<1> QED BY <1>1, <1>2, ChunkBounds DEF Ordered, r

(* Steps inside a chunk, and the steps that take, finish or miss one.      *)
LEMMA Walks ==
  ASSUME TypeInv, ChunksInv, NEW w \in Workers, Holds(w), NEW r \in Worker,
         work' = [work EXCEPT ![w] = r], r.pc \in Busy \cup {"done"},
         r.chunk = work[w].chunk, Ordered(r), UNCHANGED <<next, processed, missing>>
  PROVE  ChunksInv'
<1>1. /\ work'[w] = r /\ \A v \in Workers \ {w} : work'[v] = work[v]
  BY DEF TypeInv, WorkersOK
<1>2. \A v \in Workers : (Holds(v)' <=> Holds(v)) /\ work'[v].chunk = work[v].chunk
  BY <1>1 DEF Holds
<1>3. \A v \in Workers : Holds(v)' => Ordered(work'[v])
  BY <1>1, <1>2 DEF ChunksInv
<1>4. HoldersOK'
  BY <1>2 DEF ChunksInv, HoldersOK
<1> QED BY <1>3, <1>4 DEF ChunksInv, Ordered, ChunkStart, ChunkEnd

LEMMA BusyHolds ==
  ASSUME NEW w
  PROVE  /\ work[w].pc \in Asking => work[w].pc \in Busy
         /\ work[w].pc \in Busy => Holds(w)
BY DEF Asking, Busy, Holds

LEMMA ChunksStays ==
  ASSUME TypeInv, ChunksInv, NEW w \in Workers, Stays(w) \/ Loses(w) \/ Splits(w) \/ Commits(w)
  PROVE  ChunksInv'
<1>1. WorkersOK /\ work[w].pc \in Busy /\ Holds(w) /\ Ordered(work[w])
  BY BusyHolds DEF TypeInv, ChunksInv, Stays, Loses, Splits, Commits
<1>2. UNCHANGED <<next, processed, missing>>
  BY DEF Stays, Loses, Splits, Commits, Apart, results
<1>3. CASE Stays(w)
  <2>1. work'[w].chunk = work[w].chunk /\ Ordered(work'[w])
    BY <1>1, <1>3, SameOrdered DEF Stays, SamePlace
  <2> QED BY <1>1, <1>2, <1>3, <2>1, Walks DEF Stays
<1>4. CASE Loses(w)
  <2>1. Ordered(WithoutWindow(w))
    BY <1>1, AdvancedOrdered DEF WithoutWindow
  <2>2. WithoutWindow(w).pc \in Busy \cup {"done"}
    BY <1>1, WithoutRecord DEF Busy
  <2> QED BY <1>1, <1>2, <1>4, <2>1, <2>2, Walks, WithoutRecord DEF Loses
<1>5. CASE Splits(w)
  <2>1. /\ Split(w) \in Worker /\ Split(w).chunk = work[w].chunk /\ Ordered(Split(w))
        /\ Split(w).pc \in Busy
    BY <1>1, <1>5, SplitOrdered, SplitRecord DEF Splits, Busy
  <2> QED BY <1>1, <1>2, <1>5, <2>1, Walks DEF Splits
<1>6. CASE Commits(w)
  <2>0. {} \in SUBSET Windows /\ {} \in SUBSET {Current(w)}
    OBVIOUS
  <2>1. /\ Advanced(w, {}) \in Worker /\ Advanced(w, {}).chunk = work[w].chunk
        /\ Ordered(Advanced(w, {})) /\ Advanced(w, {}).pc \in Busy \cup {"done"}
    BY <1>1, <2>0, AdvancedOrdered, AdvancedRecord DEF Busy
  <2> QED BY <1>1, <1>2, <1>6, <2>1, Walks DEF Commits
<1> QED BY <1>3, <1>4, <1>5, <1>6

LEMMA ChunksTake ==
  ASSUME TypeInv, ChunksInv, NEW w \in Workers, Take(w)
  PROVE  ChunksInv'
<1> DEFINE r == IF ctx # "live" THEN Gone ELSE Taken(next)
<1>1. /\ next \in Chunks /\ next \in Nat /\ next' = next + 1 /\ work' = [work EXCEPT ![w] = r]
      /\ UNCHANGED <<processed, missing>> /\ WorkersOK
  BY DEF TypeInv, ResultsOK, Take, Taken, results
<1>2. work'[w] = r /\ \A v \in Workers \ {w} : work'[v] = work[v]
  BY <1>1 DEF WorkersOK
<1>3. \A v \in Workers : Holds(v) => work[v].chunk \in Nat /\ work[v].chunk < next
  BY <1>1 DEF ChunksInv, HoldersOK, WorkersOK, Worker
<1>4. r.pc = "gone" \/ (r.pc = "visit" /\ r.chunk = next /\ Ordered(r))
  BY <1>1, IdleTypes, TakenRecord, TakenOrdered
<1> HIDE DEF r
<1>5. next \notin processed
  BY <1>1 DEF ChunksInv
<1>6. \A v \in Workers : Holds(v)' => Ordered(work'[v])
  BY <1>2, <1>4 DEF ChunksInv, Holds, Busy
<1>7. HoldersOK'
  <2>1. ASSUME NEW v \in Workers, Holds(v)'
        PROVE  /\ v = w => work'[v].chunk = next
               /\ v # w => Holds(v) /\ work'[v].chunk = work[v].chunk /\ work[v].chunk < next
    BY <1>2, <1>3, <1>4, <2>1 DEF Holds, Busy
  <2>2. ASSUME NEW v \in Workers, Holds(v)'
        PROVE  work'[v].chunk < next' /\ work'[v].chunk \notin processed'
    BY <1>1, <1>3, <1>5, <2>1, <2>2 DEF ChunksInv, HoldersOK
  <2>3. ASSUME NEW v \in Workers, NEW u \in Workers, Holds(v)', Holds(u)',
               work'[u].chunk = work'[v].chunk
        PROVE  u = v
    BY <1>1, <1>3, <2>1, <2>3 DEF ChunksInv, HoldersOK
  <2> QED BY <2>2, <2>3 DEF HoldersOK
<1>8. \A c \in processed' : c < next'
  <2>1. processed \subseteq Nat
    BY ChunkBounds DEF TypeInv, ResultsOK
  <2> QED BY <1>1, <2>1 DEF ChunksInv
<1> QED BY <1>1, <1>6, <1>7, <1>8 DEF ChunksInv, Ordered, ChunkStart, ChunkEnd

LEMMA ChunksFinish ==
  ASSUME TypeInv, ChunksInv, NEW w \in Workers, Finish(w)
  PROVE  ChunksInv'
<1>1. /\ work[w].pc = "done" /\ Holds(w) /\ processed' = processed \cup {work[w].chunk}
      /\ missing' = missing \cup work[w].gaps /\ next' = next
      /\ work'[w].pc = "idle" /\ \A v \in Workers \ {w} : work'[v] = work[v]
  BY IdleTypes DEF TypeInv, WorkersOK, Finish, Holds, Busy
<1>2. \A v \in Workers : Holds(v)' => Holds(v) /\ v # w /\ work'[v] = work[v]
  BY <1>1 DEF Holds, Busy
<1>3. HoldersOK'
  BY <1>1, <1>2 DEF ChunksInv, HoldersOK
<1>4. \A v \in Workers : Holds(v)' => Ordered(work'[v])
  BY <1>2 DEF ChunksInv
<1>5. \A x \in missing' : x.from < x.to
  BY <1>1 DEF ChunksInv, Ordered
<1>6. \A c \in processed' : c < next'
  BY <1>1 DEF ChunksInv, HoldersOK
<1> QED BY <1>3, <1>4, <1>5, <1>6 DEF ChunksInv, Ordered, ChunkStart, ChunkEnd

LEMMA ChunksKept ==
  ASSUME TypeInv, ChunksInv, Kinds
  PROVE  ChunksInv'
<1>1. ASSUME NEW w \in Workers, Leave(w) PROVE ChunksInv'
  <2>1. /\ work'[w].pc = "gone" /\ \A v \in Workers \ {w} : work'[v] = work[v]
        /\ UNCHANGED <<next, processed, missing>>
    BY <1>1, IdleTypes DEF TypeInv, WorkersOK, Leave, results
  <2>2. \A v \in Workers : Holds(v)' => Holds(v) /\ work'[v] = work[v]
    BY <2>1 DEF Holds, Busy
  <2> QED BY <2>1, <2>2 DEF ChunksInv, HoldersOK, Ordered, ChunkStart, ChunkEnd
<1>2. CASE UNCHANGED <<work, next, processed, missing>>
  BY <1>2 DEF ChunksInv, HoldersOK, Holds, Ordered, ChunkStart, ChunkEnd
<1>3. CASE Assess
  <2>1. \A c \in Chunks : ChunkStart(c) < ChunkEnd(c)
    BY ChunkBounds
  <2>2. \A x \in missing' : x.from < x.to
    BY <1>3, <2>1 DEF ChunksInv, Assess, Window
  <2>3. UNCHANGED <<work, next, processed>>
    BY <1>3 DEF Assess
  <2> QED BY <2>2, <2>3 DEF ChunksInv, HoldersOK, Holds, Ordered, ChunkStart, ChunkEnd
<1>4. CASE CreateFile \/ WriteFile \/ WriteManifest \/ Elsewhere
  BY <1>2, <1>4 DEF CreateFile, WriteFile, WriteManifest, Elsewhere, results
<1> QED BY <1>1, <1>3, <1>4, ChunksStays, ChunksTake, ChunksFinish DEF Kinds

-----------------------------------------------------------------------------
(* Each moment is in one place                                             *)

LEMMA Unmoved ==
  ASSUME NEW t \in Moments, OnlyIn(t), counted'[t] = counted[t], MissingAt(t)' = MissingAt(t),
         FailedAt(t)' = FailedAt(t), PendingAt(t)' = PendingAt(t)
  PROVE  OnlyIn(t)'
BY DEF OnlyIn

LEMMA PendingSame ==
  ASSUME NEW t \in Moments, UNCHANGED <<processed, file>>,
         \A v \in Workers : \A d \in Chunks : InChunk(t, d) =>
           ((work[v].chunk = d => t >= work[v].at) <=> (work'[v].chunk = d => t >= work'[v].at))
  PROVE  PendingAt(t)' = PendingAt(t)
BY DEF PendingAt, InChunk, ChunkStart, ChunkEnd

LEMMA FailedSame ==
  ASSUME NEW t \in Moments, \A v \in Workers : GapsAt(v, t)' = GapsAt(v, t)
  PROVE  FailedAt(t)' = FailedAt(t)
BY DEF FailedAt

(* A moment of the window a worker is at is pending.                       *)
LEMMA Here ==
  ASSUME TypeInv, ChunksInv, NEW w \in Workers, work[w].pc \in Busy,
         NEW t \in Moments, t \in In(Current(w)), OnlyIn(t)
  PROVE  /\ PendingAt(t) = {work[w].chunk} /\ InChunk(t, work[w].chunk)
         /\ counted[t] = 0 /\ MissingAt(t) = {} /\ FailedAt(t) = {}
<1> DEFINE c == work[w].chunk
<1>1. WorkersOK /\ Holds(w) /\ Ordered(work[w]) /\ file.pc = "fetch" /\ c \notin processed /\ t \in Nat
  BY DEF TypeInv, FileOK, ChunksInv, HoldersOK, Holds, Busy, Moments
<1>2. /\ work[w].at < Current(w).to /\ Current(w).to <= ChunkEnd(c) /\ Current(w).from = work[w].at
      /\ work[w].at \in Nat /\ Current(w).to \in Nat /\ c \in Chunks /\ ChunkEnd(c) \in Nat
      /\ ChunkStart(c) \in Nat /\ ChunkStart(c) <= work[w].at
  BY <1>1, LastEnd DEF Ordered
<1>3. work[w].at <= t /\ t < Current(w).to
  BY <1>1, <1>2 DEF In
<1>4. InChunk(t, c)
  BY <1>1, <1>2, <1>3 DEF InChunk
<1>5. \A v \in Workers : work[v].chunk = c => v = w
  <2> TAKE v \in Workers
  <2>1. ~Holds(v) => work[v].chunk = 0
    BY <1>1, IdleTypes DEF WorkersOK, Shape, Worker, Holds
  <2>2. c # 0
    BY <1>2, ChunkBounds
  <2> QED BY <1>1, <2>1, <2>2 DEF ChunksInv, HoldersOK
<1>6. PendingAt(t) = {c}
  <2>1. c \in PendingAt(t)
    BY <1>1, <1>2, <1>3, <1>4, <1>5 DEF PendingAt
  <2>2. \A d \in PendingAt(t) : d = c
    BY <1>1, <1>2, <1>4, OneChunk DEF PendingAt
  <2> QED BY <2>1, <2>2
<1>7. PendingAt(t) # {}
  BY <1>6
<1> QED BY <1>4, <1>6, <1>7 DEF OnlyIn

(* A window left behind: its moments are pending no more, and others are   *)
(* where they were.                                                        *)
LEMMA Passes ==
  ASSUME TypeInv, ChunksInv, NEW w \in Workers, work[w].pc \in Busy, NEW gaps \in SUBSET {Current(w)},
         work' = [work EXCEPT ![w] = Advanced(w, gaps)], UNCHANGED <<processed, file>>,
         NEW t \in Moments, OnlyIn(t)
  PROVE  /\ t \in In(Current(w)) => /\ PendingAt(t)' = {}
                                    /\ FailedAt(t)' = gaps
         /\ t \notin In(Current(w)) => PendingAt(t)' = PendingAt(t) /\ FailedAt(t)' = FailedAt(t)
<1> DEFINE c == work[w].chunk
           r == Advanced(w, gaps)
<1>1. gaps \in SUBSET Windows /\ WorkersOK /\ Holds(w) /\ Ordered(work[w]) /\ t \in Nat
  BY CurrentWindow DEF TypeInv, ChunksInv, Holds, Moments
<1>2. /\ work'[w] = r /\ \A v \in Workers \ {w} : work'[v] = work[v]
      /\ r.chunk = c /\ r.at = Current(w).to /\ r.gaps = work[w].gaps \cup gaps
  BY <1>1, AdvancedRecord DEF WorkersOK
<1> HIDE DEF r
<1>3. /\ Current(w).from = work[w].at /\ work[w].at \in Nat /\ Current(w).to \in Nat
      /\ work[w].at < Current(w).to /\ c \in Chunks
  BY <1>1, LastEnd
<1>4. t \in In(Current(w)) <=> work[w].at <= t /\ t < Current(w).to
  BY <1>1, <1>3 DEF In
<1>5. GapsAt(w, t)' = GapsAt(w, t) \cup {g \in gaps : t \in In(g)}
  BY <1>2 DEF GapsAt, In
<1>6. \A v \in Workers \ {w} : GapsAt(v, t)' = GapsAt(v, t)
  BY <1>2 DEF GapsAt, In
<1>7. FailedAt(t)' = FailedAt(t) \cup {g \in gaps : t \in In(g)}
  BY <1>5, <1>6 DEF FailedAt
<1>8. CASE t \in In(Current(w))
  <2>1. PendingAt(t) = {c} /\ FailedAt(t) = {} /\ InChunk(t, c)
    BY <1>8, Here
  <2>2. {g \in gaps : t \in In(g)} = gaps
    BY <1>8
  <2>3. PendingAt(t)' \subseteq PendingAt(t)
    <3> SUFFICES ASSUME NEW d \in Chunks, InChunk(t, d),
                        \A v \in Workers : work'[v].chunk = d => t >= work'[v].at
                 PROVE  \A v \in Workers : work[v].chunk = d => t >= work[v].at
      BY DEF PendingAt, InChunk, ChunkStart, ChunkEnd
    <3> TAKE v \in Workers
    <3> QED BY <1>2, <1>4, <1>8
  <2>4. c \notin PendingAt(t)'
    BY <1>1, <1>2, <1>3, <1>4, <1>8 DEF PendingAt
  <2> QED BY <1>7, <1>8, <2>1, <2>2, <2>3, <2>4
<1>9. CASE t \notin In(Current(w))
  <2>1. {g \in gaps : t \in In(g)} = {}
    BY <1>9
  <2>2. PendingAt(t)' = PendingAt(t)
    <3>1. ASSUME NEW v \in Workers, NEW d \in Chunks
          PROVE  (work[v].chunk = d => t >= work[v].at) <=> (work'[v].chunk = d => t >= work'[v].at)
      BY <1>1, <1>2, <1>3, <1>4, <1>9
    <3> QED BY <3>1, PendingSame
  <2> QED BY <1>7, <1>9, <2>1, <2>2
<1> QED BY <1>8, <1>9

LEMMA OnceLoses ==
  ASSUME TypeInv, ChunksInv, NEW w \in Workers, Loses(w), NEW t \in Moments, OnlyIn(t)
  PROVE  OnlyIn(t)'
<1>1. /\ work[w].pc \in Busy /\ {Current(w)} \in SUBSET {Current(w)}
      /\ work' = [work EXCEPT ![w] = Advanced(w, {Current(w)})]
      /\ UNCHANGED <<processed, file, counted, missing>>
  BY DEF Loses, WithoutWindow, Apart, results, output
<1>2. /\ t \in In(Current(w)) => PendingAt(t)' = {} /\ FailedAt(t)' = {Current(w)}
      /\ t \notin In(Current(w)) => PendingAt(t)' = PendingAt(t) /\ FailedAt(t)' = FailedAt(t)
  BY <1>1, Passes
<1>3. counted'[t] = counted[t] /\ MissingAt(t)' = MissingAt(t)
  BY <1>1 DEF MissingAt, In
<1>4. CASE t \in In(Current(w))
  <2>1. counted[t] = 0 /\ MissingAt(t) = {}
    BY <1>1, <1>4, Here
  <2> QED BY <1>2, <1>3, <1>4, <2>1 DEF OnlyIn
<1> QED BY <1>2, <1>3, <1>4, Unmoved

LEMMA OnceCommits ==
  ASSUME TypeInv, ChunksInv, NEW w \in Workers, Commits(w), NEW t \in Moments, OnlyIn(t)
  PROVE  OnlyIn(t)'
<1>1. /\ work[w].pc \in Busy /\ {} \in SUBSET {Current(w)}
      /\ work' = [work EXCEPT ![w] = Advanced(w, {})] /\ UNCHANGED <<processed, file, missing>>
      /\ counted' = [s \in Moments |-> IF s \in In(Current(w)) THEN counted[s] + 1 ELSE counted[s]]
  BY DEF Commits, Commit, output
<1>2. /\ t \in In(Current(w)) => PendingAt(t)' = {} /\ FailedAt(t)' = {}
      /\ t \notin In(Current(w)) => PendingAt(t)' = PendingAt(t) /\ FailedAt(t)' = FailedAt(t)
  BY <1>1, Passes
<1>3. MissingAt(t)' = MissingAt(t)
  BY <1>1 DEF MissingAt, In
<1>4. CASE t \in In(Current(w))
  <2>1. counted[t] = 0 /\ MissingAt(t) = {}
    BY <1>1, <1>4, Here
  <2>2. counted'[t] = 1
    BY <1>1, <1>4, <2>1
  <2> QED BY <1>2, <1>3, <1>4, <2>1, <2>2 DEF OnlyIn
<1>5. CASE t \notin In(Current(w))
  <2>1. counted'[t] = counted[t]
    BY <1>1, <1>5
  <2> QED BY <1>2, <1>3, <1>5, <2>1, Unmoved
<1> QED BY <1>4, <1>5

LEMMA OnceStays ==
  ASSUME TypeInv, ChunksInv, NEW w \in Workers, Stays(w) \/ Splits(w) \/ Take(w) \/ Leave(w),
         NEW t \in Moments, OnlyIn(t)
  PROVE  OnlyIn(t)'
<1>1. WorkersOK /\ UNCHANGED <<processed, file, counted, missing>> /\ DOMAIN work = Workers
  BY DEF TypeInv, WorkersOK, Stays, Splits, Take, Leave, Apart, results, output
<1>2. /\ \A v \in Workers \ {w} : work'[v] = work[v]
      /\ work'[w].gaps = work[w].gaps
      /\ \A d \in Chunks : InChunk(t, d) =>
           ((work[w].chunk = d => t >= work[w].at) <=> (work'[w].chunk = d => t >= work'[w].at))
  <2>1. CASE Stays(w)
    BY <1>1, <2>1 DEF Stays, SamePlace
  <2>2. CASE Splits(w)
    BY <1>1, <2>2, SplitRecord DEF Splits
  <2>3. CASE Take(w)
    <3>1. next \in Chunks /\ work[w] = Idle
          /\ work' = [work EXCEPT ![w] = IF ctx # "live" THEN Gone ELSE Taken(next)]
      BY <1>1, <2>3 DEF Take, Taken, WorkersOK, Shape
    <3>2. work'[w] \in {Gone, Taken(next)} /\ \A v \in Workers \ {w} : work'[v] = work[v]
      BY <1>1, <3>1
    <3>3. 0 \notin Chunks
      BY ChunkBounds
    <3>4. /\ Gone.chunk = 0 /\ Gone.gaps = {} /\ Idle.chunk = 0 /\ Idle.gaps = {}
          /\ Taken(next).chunk = next /\ Taken(next).at = ChunkStart(next) /\ Taken(next).gaps = {}
      BY <3>1, IdleTypes, TakenRecord
    <3>5. t \in Nat /\ ChunkStart(next) \in Nat
      BY <3>1, ChunkBounds DEF Moments
    <3>6. ASSUME NEW d \in Chunks, InChunk(t, d)
          PROVE  (work[w].chunk = d => t >= work[w].at) <=> (work'[w].chunk = d => t >= work'[w].at)
      <4>1. work[w].chunk # d
        BY <3>1, <3>3, <3>4
      <4>2. CASE work'[w] = Gone
        BY <3>3, <3>4, <4>1, <4>2
      <4>3. CASE work'[w] = Taken(next)
        <5>1. work'[w].chunk = d => t >= work'[w].at
          BY <3>4, <3>5, <3>6, <4>3 DEF InChunk
        <5> QED BY <4>1, <5>1
      <4> QED BY <3>2, <4>2, <4>3
    <3>7. work'[w].gaps = work[w].gaps
      BY <3>1, <3>2, <3>4
    <3> QED BY <3>2, <3>6, <3>7
  <2>4. CASE Leave(w)
    <3>1. work[w] = Idle /\ work' = [work EXCEPT ![w] = Gone] /\ 0 \notin Chunks
      BY <1>1, <2>4, ChunkBounds DEF Leave, WorkersOK, Shape
    <3> QED BY <1>1, <3>1, IdleTypes
  <2> QED BY <2>1, <2>2, <2>3, <2>4
<1>3. counted'[t] = counted[t] /\ MissingAt(t)' = MissingAt(t)
  BY <1>1 DEF MissingAt, In
<1>4. FailedAt(t)' = FailedAt(t)
  <2>1. \A v \in Workers : GapsAt(v, t)' = GapsAt(v, t)
    BY <1>2 DEF GapsAt, In
  <2> QED BY <2>1, FailedSame
<1>5. PendingAt(t)' = PendingAt(t)
  BY <1>1, <1>2, PendingSame
<1> QED BY <1>3, <1>4, <1>5, Unmoved

LEMMA OnceFinish ==
  ASSUME TypeInv, ChunksInv, NEW w \in Workers, Finish(w), NEW t \in Moments, OnlyIn(t)
  PROVE  OnlyIn(t)'
<1> DEFINE c == work[w].chunk
           mine == GapsAt(w, t)
<1>1. /\ WorkersOK /\ work[w].pc = "done" /\ Holds(w) /\ Ordered(work[w]) /\ c \in Chunks
      /\ processed' = processed \cup {c} /\ missing' = missing \cup work[w].gaps
      /\ UNCHANGED <<file, counted>> /\ t \in Nat /\ work[w].gaps \subseteq Windows
      /\ work' = [work EXCEPT ![w] = Idle] /\ work[w].at = ChunkEnd(c)
  BY DEF TypeInv, WorkersOK, Shape, Worker, ChunksInv, Ordered, Finish, Holds, Moments, output
<1>2. work'[w] = Idle /\ \A v \in Workers \ {w} : work'[v] = work[v]
  BY <1>1 DEF WorkersOK
<1>3. ChunkEnd(c) \in Nat /\ ChunkStart(c) \in Nat /\ 0 \notin Chunks
  BY <1>1, ChunkBounds
<1>4. \A d \in Chunks : InChunk(t, d) /\ d # c =>
        \A v \in Workers : (work[v].chunk = d => t >= work[v].at)
                             <=> (work'[v].chunk = d => t >= work'[v].at)
  BY <1>2, <1>3, IdleTypes
<1>5. InChunk(t, c) => c \notin PendingAt(t)
  BY <1>1, <1>3 DEF PendingAt, InChunk
<1>6. PendingAt(t)' = PendingAt(t)
  <2>1. ASSUME NEW d \in Chunks PROVE d \in PendingAt(t)' <=> d \in PendingAt(t)
    <3>1. CASE d = c
      BY <1>1, <1>5, <3>1 DEF PendingAt, InChunk, ChunkStart, ChunkEnd
    <3>2. CASE d # c
      <4>1. d \in processed' <=> d \in processed
        BY <1>1, <3>2
      <4>2. InChunk(t, d)' <=> InChunk(t, d)
        BY DEF InChunk, ChunkStart, ChunkEnd
      <4>3. d \in PendingAt(t)' <=>
              /\ InChunk(t, d)' /\ d \notin processed' /\ file'.pc = "fetch"
              /\ \A v \in Workers : work'[v].chunk = d => t >= work'[v].at
        BY DEF PendingAt
      <4>4. d \in PendingAt(t) <=>
              /\ InChunk(t, d) /\ d \notin processed /\ file.pc = "fetch"
              /\ \A v \in Workers : work[v].chunk = d => t >= work[v].at
        BY DEF PendingAt
      <4>5. file' = file
        BY <1>1
      <4> HIDE DEF InChunk, PendingAt, c
      <4> QED BY <1>4, <3>2, <4>1, <4>2, <4>3, <4>4, <4>5
    <3> QED BY <3>1, <3>2
  <2>2. PendingAt(t) \subseteq Chunks /\ PendingAt(t)' \subseteq Chunks
    BY DEF PendingAt, Chunks
  <2> QED BY <2>1, <2>2
<1>7. MissingAt(t)' = MissingAt(t) \cup mine
  BY <1>1 DEF MissingAt, GapsAt, In
<1>8. GapsAt(w, t)' = {} /\ \A v \in Workers \ {w} : GapsAt(v, t)' = GapsAt(v, t)
  BY <1>2, IdleTypes DEF GapsAt, In
<1>9. FailedAt(t)' \subseteq FailedAt(t) /\ mine \subseteq FailedAt(t)
      /\ FailedAt(t) \subseteq FailedAt(t)' \cup mine
  BY <1>8 DEF FailedAt
<1>10. mine # {} => FailedAt(t)' = {}
  <2> SUFFICES ASSUME mine # {}, FailedAt(t)' # {} PROVE FALSE
    OBVIOUS
  <2>1. PICK v \in Workers \ {w} : GapsAt(v, t) # {}
    BY <1>8 DEF FailedAt
  <2>2. PICK g \in work[w].gaps, h \in work[v].gaps : t \in In(g) /\ t \in In(h)
    BY <2>1 DEF GapsAt
  <2>3. Holds(v)
    BY <1>1, <2>1, IdleTypes DEF WorkersOK, Shape, Worker, Holds, GapsAt
  <2>4. ASSUME NEW u \in Workers, Holds(u), NEW x \in work[u].gaps, t \in In(x)
        PROVE  InChunk(t, work[u].chunk) /\ work[u].chunk \in Chunks
    <3>1. x \in Windows /\ work[u].at \in Nat /\ work[u].chunk \in Chunks /\ Ordered(work[u])
      <4>1. work[u] \in Worker /\ Shape(work[u])
        BY <1>1 DEF WorkersOK
      <4>2. work[u].at \in 0 .. Span /\ work[u].gaps \in SUBSET Windows
        BY <4>1 DEF Worker
      <4>3. work[u].chunk \in Chunks
        BY <2>4, <4>1 DEF Shape, Holds
      <4> QED BY <2>4, <4>2, <4>3, Sizes DEF ChunksInv
    <3>2. x.from \in Nat /\ x.to \in Nat /\ x.from <= t /\ t < x.to
      BY <1>1, <2>4, <3>1 DEF Windows, In
    <3>3. ChunkStart(work[u].chunk) <= x.from /\ x.to <= work[u].at
      BY <3>1 DEF Ordered
    <3>4. work[u].at <= ChunkEnd(work[u].chunk)
      <4>1. CASE work[u].pc \in Busy
        BY <1>1, <3>1, <4>1, LastEnd
      <4>2. CASE work[u].pc \notin Busy
        <5>1. work[u].ends = <<>>
          BY <1>1, <2>4, <4>2 DEF Holds, WorkersOK, Shape
        <5> QED BY <3>1, <5>1, ChunkBounds DEF Ordered
      <4> QED BY <4>1, <4>2
    <3> QED BY <1>1, <3>1, <3>2, <3>3, <3>4, ChunkBounds DEF InChunk
  <2>5. work[v].chunk = c
    BY <1>1, <2>2, <2>3, <2>4, OneChunk
  <2> QED BY <1>1, <2>1, <2>3, <2>5 DEF ChunksInv, HoldersOK
<1>11. counted'[t] = counted[t]
  BY <1>1
<1>12. CASE mine = {}
  <2> HIDE DEF mine
  <2>1. MissingAt(t)' = MissingAt(t) /\ FailedAt(t)' = FailedAt(t)
    BY <1>7, <1>9, <1>12
  <2> QED BY <1>6, <1>11, <2>1, Unmoved
<1>13. CASE mine # {}
  <2>1. FailedAt(t) = mine
    BY <1>9, <1>10, <1>13
  <2>2. counted[t] = 0 /\ MissingAt(t) = {} /\ (\E x : FailedAt(t) = {x}) /\ PendingAt(t) = {}
    BY <1>13, <2>1 DEF OnlyIn
  <2>3. \E x : MissingAt(t)' = {x}
    BY <1>7, <2>1, <2>2
  <2> QED BY <1>6, <1>10, <1>11, <1>13, <2>2, <2>3 DEF OnlyIn
<1> QED BY <1>12, <1>13

LEMMA OnceAssess ==
  ASSUME TypeInv, ChunksInv, Assess, NEW t \in Moments, OnlyIn(t)
  PROVE  OnlyIn(t)'
<1>1. /\ file.pc = "fetch" /\ \A w \in Workers : work[w].chunk = 0
      /\ file'.pc # "fetch" /\ UNCHANGED <<work, processed, counted>>
      /\ missing' = missing \cup {Window(ChunkStart(c), ChunkEnd(c)) : c \in Chunks \ processed}
  BY IdleTypes DEF Assess, TypeInv, WorkersOK, Shape
<1>2. t \in Nat /\ 0 \notin Chunks
  BY ChunkBounds DEF Moments
<1>3. \A c \in Chunks : t \in In(Window(ChunkStart(c), ChunkEnd(c))) <=> InChunk(t, c)
  BY <1>2, ChunkBounds DEF In, Window, InChunk
<1>4. PendingAt(t) = {c \in Chunks \ processed : InChunk(t, c)}
  BY <1>1, <1>2 DEF PendingAt
<1> DEFINE windows == {Window(ChunkStart(c), ChunkEnd(c)) : c \in PendingAt(t)}
<1>5. MissingAt(t)' = MissingAt(t) \cup windows
  <2>1. windows = {x \in {Window(ChunkStart(c), ChunkEnd(c)) : c \in Chunks \ processed} : t \in In(x)}
    BY <1>3, <1>4
  <2> HIDE DEF windows
  <2> QED BY <1>1, <2>1 DEF MissingAt, In
<1>6. FailedAt(t)' = FailedAt(t) /\ PendingAt(t)' = {} /\ counted'[t] = counted[t]
  BY <1>1 DEF FailedAt, GapsAt, In, PendingAt
<1>7. CASE PendingAt(t) = {}
  <2>1. MissingAt(t)' = MissingAt(t)
    BY <1>5, <1>7
  <2>2. PendingAt(t)' = PendingAt(t)
    BY <1>6, <1>7
  <2> QED BY <1>6, <2>1, <2>2, Unmoved
<1>8. CASE PendingAt(t) # {}
  <2>1. /\ counted[t] = 0 /\ MissingAt(t) = {} /\ FailedAt(t) = {}
        /\ \E c : PendingAt(t) = {c}
    BY <1>8 DEF OnlyIn
  <2>2. \E x : MissingAt(t)' = {x}
    BY <1>5, <2>1
  <2> QED BY <1>6, <2>1, <2>2 DEF OnlyIn
<1> QED BY <1>7, <1>8

LEMMA OnceKept ==
  ASSUME TypeInv, ChunksInv, Kinds, NEW t \in Moments, OnlyIn(t)
  PROVE  OnlyIn(t)'
<1>1. CASE CreateFile \/ WriteFile \/ WriteManifest
  <2>1. file.pc # "fetch" /\ file'.pc # "fetch" /\ UNCHANGED <<work, processed, counted, missing>>
    BY <1>1 DEF CreateFile, WriteFile, WriteManifest, Over, results, TypeInv, FileOK
  <2>2. PendingAt(t) = {} /\ PendingAt(t)' = {}
    BY <2>1 DEF PendingAt
  <2> QED BY <2>1, <2>2, Unmoved DEF MissingAt, FailedAt, GapsAt, In
<1>2. CASE Elsewhere
  <2>1. UNCHANGED <<work, processed, counted, missing, file>>
    BY <1>2 DEF Elsewhere, results, output
  <2> QED BY <2>1, Unmoved, PendingSame DEF MissingAt, FailedAt, GapsAt, In
<1> QED BY <1>1, <1>2, OnceLoses, OnceCommits, OnceStays, OnceFinish, OnceAssess DEF Kinds

LEMMA InitOnce == Init => OnceInv
<1> SUFFICES ASSUME Init PROVE OnceInv
  OBVIOUS
<1>1. TypeInv
  BY InitTyped
<1>2. \A w \in Workers : work[w] = Idle
  BY DEF Init
<1>3. ChunksInv
  BY <1>2, IdleTypes DEF Init, ChunksInv, HoldersOK, Holds, Busy
<1>4. ASSUME NEW t \in Moments PROVE OnlyIn(t)
  <2>1. 0 \notin Chunks /\ t \in Nat
    BY ChunkBounds DEF Moments
  <2>2. PICK c \in Chunks : InChunk(t, c)
    BY ChunkOf
  <2>3. PendingAt(t) = {d \in Chunks : InChunk(t, d)}
    BY <1>2, <2>1, IdleTypes DEF Init, PendingAt
  <2>4. PendingAt(t) = {c}
    BY <2>1, <2>2, <2>3, OneChunk
  <2>5. counted[t] = 0 /\ MissingAt(t) = {}
    BY DEF Init, MissingAt
  <2>6. FailedAt(t) = {}
    BY <1>2, IdleTypes DEF FailedAt, GapsAt
  <2> QED BY <2>4, <2>5, <2>6 DEF OnlyIn
<1> QED BY <1>1, <1>3, <1>4 DEF OnceInv

(* Every record keeps its type and every moment of the range stays in one  *)
(* place: the invariant of runExtraction's workers.                        *)
THEOREM Once == Spec => []OnceInv
<1>1. Init => OnceInv
  BY InitOnce
<1>2. OnceInv /\ [Next]_vars => OnceInv'
  BY NextTyped, ChunksKept, OnceKept, Zenon DEF OnceInv, Moments
<1> QED BY <1>1, <1>2, PTL DEF Spec

(* Whatever is split, retried, cancelled or abandoned, each moment's rows  *)
(* are aggregated once or reported missing once (runExtraction).           *)
THEOREM EachMoment == Spec => []EachMomentOnce
<1>1. OnceInv => EachMomentOnce
  BY OnePlace DEF OnceInv, EachMomentOnce, TypeInv, ResultsOK
<1> QED BY <1>1, Once, PTL

-----------------------------------------------------------------------------
(* The CSV files                                                           *)

(* What was aggregated is what the completed windows hold; the file of the *)
(* run is named for what is missing, and the others are those of earlier   *)
(* runs.                                                                   *)
Aggregated == {t \in Moments : counted[t] > 0}
CountsOK == Aggregated = UNION {In(x) : x \in completed}
DiskOK ==
  /\ \A name \in mode.old : name \in DOMAIN disk /\ disk[name].whose = "earlier"
  /\ \A name \in DOMAIN disk :
       /\ disk[name].whose = "run" => /\ file.pc \in {"manifest", "over"}
                                      /\ name = file.name /\ name.partial = file.partial
                                      /\ disk[name].moments = Aggregated
       /\ disk[name].whose = "unfinished" => file.pc = "write" /\ file.name = name
  /\ file.pc = "write" => /\ file.name \in DOMAIN disk /\ disk[file.name].whose = "unfinished"
                          /\ file.name.partial = file.partial
  /\ file.pc # "fetch" => (file.partial <=> missing # {})
FilesInv == CountsOK /\ DiskOK

LEMMA WindowMoments ==
  ASSUME NEW x \in Windows
  PROVE  In(x) \subseteq Moments
BY Sizes DEF Windows, In, Moments

LEMMA CountsKept ==
  ASSUME TypeInv, Kinds, CountsOK
  PROVE  CountsOK'
<1>1. CASE UNCHANGED <<counted, completed>>
  BY <1>1 DEF CountsOK, Aggregated, In, Moments
<1>2. ASSUME NEW w \in Workers, Commits(w) PROVE CountsOK'
  <2>1. /\ counted' = [t \in Moments |-> IF t \in In(Current(w)) THEN counted[t] + 1 ELSE counted[t]]
        /\ completed' = completed \cup {Current(w)} /\ counted \in [Moments -> Nat]
    BY <1>2 DEF Commits, Commit, TypeInv, ResultsOK
  <2>2. In(Current(w)) \subseteq Moments
    BY <1>2, WindowMoments, CurrentWindow DEF TypeInv, Commits
  <2>3. Aggregated' = Aggregated \cup In(Current(w))
    <3>1. Aggregated' = {t \in Moments : counted'[t] > 0}
      BY DEF Aggregated, Moments
    <3>2. \A t \in Moments : counted'[t] > 0 <=> counted[t] > 0 \/ t \in In(Current(w))
      BY <2>1
    <3> HIDE DEF Moments
    <3> QED BY <2>2, <3>1, <3>2 DEF Aggregated
  <2>4. (UNION {In(x) : x \in completed})' = (UNION {In(x) : x \in completed}) \cup In(Current(w))
    <3>1. (UNION {In(x) : x \in completed})' = UNION {In(x) : x \in completed'}
      BY DEF In
    <3> HIDE DEF In, Current
    <3> QED BY <2>1, <3>1
  <2> QED BY <2>3, <2>4 DEF CountsOK
<1>3. ASSUME NEW w \in Workers, \/ Stays(w) \/ Loses(w) \/ Splits(w)
                                \/ Take(w) \/ Leave(w) \/ Finish(w)
      PROVE  UNCHANGED <<counted, completed>>
  BY <1>3 DEF Stays, Loses, Splits, Take, Leave, Finish, Apart, results
<1>4. CASE Assess \/ CreateFile \/ WriteFile \/ WriteManifest \/ Elsewhere
  BY <1>1, <1>4 DEF Assess, CreateFile, WriteFile, WriteManifest, Elsewhere, results
<1> QED BY <1>1, <1>2, <1>3, <1>4 DEF Kinds

LEMMA DiskKept ==
  ASSUME TypeInv, Kinds, DiskOK
  PROVE  DiskOK'
<1> USE DEF Csv
<1>1. UNCHANGED <<file, disk, mode>> /\ file.pc = "fetch" => DiskOK'
  BY DEF DiskOK
<1>2. ASSUME NEW w \in Workers, \/ Stays(w) \/ Loses(w) \/ Splits(w) \/ Commits(w)
                                \/ Take(w) \/ Leave(w) \/ Finish(w)
      PROVE  UNCHANGED <<file, disk, mode>> /\ file.pc = "fetch"
  <2>1. work[w].pc # "gone"
    BY <1>2 DEF Stays, Loses, Splits, Commits, Take, Leave, Finish, Busy, Asking
  <2>2. file.pc = "fetch"
    BY <2>1 DEF TypeInv, FileOK
  <2> QED BY <1>2, <2>2 DEF Stays, Loses, Splits, Commits, Take, Leave, Finish, Apart, output
<1>3. CASE Assess
  <2>1. /\ file.pc = "fetch" /\ UNCHANGED <<disk, mode>>
        /\ file'.pc \in {"over", "create"} /\ (file'.partial <=> missing' # {})
    BY <1>3 DEF Assess
  <2> QED BY <2>1 DEF DiskOK
<1>4. ASSUME UNCHANGED <<mode, missing, counted>>, file.pc # "fetch", file'.pc # "fetch",
             file'.partial = file.partial
      PROVE  (file'.pc # "fetch" => (file'.partial <=> missing' # {})) /\ Aggregated' = Aggregated
  BY <1>4 DEF DiskOK, Aggregated, Moments
<1>5. CASE CreateFile
  <2> DEFINE name == Name(file.partial, Name(file.partial, FALSE) \in DOMAIN disk)
  <2>1. UNCHANGED <<mode, missing, counted>> /\ file.pc = "create" /\ name.partial = file.partial
    BY <1>5 DEF CreateFile, results, Name
  <2>2. CASE /\ name \notin DOMAIN disk /\ file' = [file EXCEPT !.pc = "write", !.name = name]
             /\ disk' = [x \in DOMAIN disk \cup {name} |->
                           IF x = name THEN Csv("unfinished", {}) ELSE disk[x]]
    <3> HIDE DEF name
    <3>1. file'.pc = "write" /\ file'.name = name /\ file'.partial = file.partial
      BY <2>2 DEF TypeInv, FileOK
    <3>2. /\ DOMAIN disk' = DOMAIN disk \cup {name} /\ disk'[name].whose = "unfinished"
          /\ \A x \in DOMAIN disk : disk'[x] = disk[x]
      BY <2>2
    <3>3. \A x \in mode'.old : x \in DOMAIN disk' /\ disk'[x].whose = "earlier"
      BY <2>1, <3>2 DEF DiskOK
    <3>4. \A x \in DOMAIN disk' : /\ disk'[x].whose # "run"
                                  /\ disk'[x].whose = "unfinished" => x = name
      BY <2>1, <3>2 DEF DiskOK
    <3> QED BY <1>4, <2>1, <3>1, <3>2, <3>3, <3>4 DEF DiskOK
  <2>3. CASE Over(NoFile, FALSE) /\ UNCHANGED disk
    <3>1. file'.pc = "over" /\ file'.partial = file.partial
      BY <2>3 DEF Over, TypeInv, FileOK
    <3> QED BY <1>4, <2>1, <2>3, <3>1 DEF DiskOK
  <2> QED BY <1>5, <2>2, <2>3 DEF CreateFile
<1>6. CASE WriteFile
  <2>1. UNCHANGED <<mode, missing, counted>> /\ file.pc = "write"
    BY <1>6 DEF WriteFile, results
  <2>2. /\ file.name \in DOMAIN disk /\ file.name.partial = file.partial
        /\ disk[file.name].whose = "unfinished"
        /\ \A x \in DOMAIN disk \ {file.name} : disk[x].whose \notin {"run", "unfinished"}
    BY <2>1 DEF DiskOK
  <2>3. CASE /\ file' = [file EXCEPT !.pc = "manifest"]
             /\ disk' = [disk EXCEPT ![file.name] = Csv("run", Aggregated)]
    <3> HIDE DEF Aggregated
    <3>1. file'.pc = "manifest" /\ file'.name = file.name /\ file'.partial = file.partial
      BY <2>3 DEF TypeInv, FileOK
    <3>2. /\ DOMAIN disk' = DOMAIN disk
          /\ disk'[file.name].whose = "run" /\ disk'[file.name].moments = Aggregated
          /\ \A x \in DOMAIN disk \ {file.name} : disk'[x] = disk[x]
      BY <2>2, <2>3
    <3>3. \A x \in mode'.old : x \in DOMAIN disk' /\ disk'[x].whose = "earlier"
      BY <2>1, <2>2, <3>2 DEF DiskOK
    <3> QED BY <1>4, <2>1, <2>2, <3>1, <3>2, <3>3 DEF DiskOK
  <2>4. CASE Over(NoFile, FALSE) /\ disk' = Restrict(disk, DOMAIN disk \ {file.name})
    <3>1. file'.pc = "over" /\ file'.partial = file.partial
      BY <2>4 DEF Over, TypeInv, FileOK
    <3>2. /\ DOMAIN disk' = DOMAIN disk \ {file.name}
          /\ \A x \in DOMAIN disk \ {file.name} : disk'[x] = disk[x]
      BY <2>4 DEF Restrict
    <3>3. \A x \in mode'.old : x \in DOMAIN disk' /\ disk'[x].whose = "earlier"
      BY <2>1, <2>2, <3>2 DEF DiskOK
    <3> QED BY <1>4, <2>1, <2>2, <3>1, <3>2, <3>3 DEF DiskOK
  <2> QED BY <1>6, <2>3, <2>4 DEF WriteFile, Aggregated
<1>7. CASE WriteManifest
  <2>1. UNCHANGED <<mode, missing, counted, disk>> /\ file.pc = "manifest"
    BY <1>7 DEF WriteManifest, results
  <2>2. file'.pc = "over" /\ file'.partial = file.partial /\ file'.name = file.name
    BY <1>7 DEF WriteManifest, Over, TypeInv, FileOK
  <2> QED BY <1>4, <2>1, <2>2 DEF DiskOK
<1>8. CASE Elsewhere
  <2>1. UNCHANGED <<mode, missing, counted, disk, file>>
    BY <1>8 DEF Elsewhere, results, output
  <2> QED BY <2>1 DEF DiskOK, Aggregated, Moments
<1> QED BY <1>1, <1>2, <1>3, <1>5, <1>6, <1>7, <1>8 DEF Kinds

(* Once every worker is gone, what is not missing was aggregated.          *)
LEMMA Covered ==
  ASSUME OnceInv, file.pc # "fetch"
  PROVE  missing # {} <=> Aggregated # Moments
<1>1. \A t \in Moments : PendingAt(t) = {} /\ FailedAt(t) = {}
  <2>1. \A w \in Workers : work[w].gaps = {}
    BY IdleTypes DEF OnceInv, TypeInv, FileOK, WorkersOK, Shape
  <2> QED BY <2>1 DEF PendingAt, FailedAt, GapsAt
<1>2. \A t \in Moments : counted[t] = 0 <=> MissingAt(t) # {}
  BY <1>1 DEF OnceInv, OnlyIn
<1>3. \A t \in Moments : counted[t] \in Nat
  BY DEF OnceInv, TypeInv, ResultsOK
<1>4. ASSUME missing # {} PROVE \E t \in Moments : MissingAt(t) # {}
  <2>1. PICK x \in missing : x \in Windows /\ x.from < x.to
    BY <1>4 DEF OnceInv, TypeInv, ResultsOK, ChunksInv
  <2>2. x.from \in In(x)
    BY <2>1 DEF In, Windows
  <2> QED BY <2>1, <2>2, WindowMoments DEF MissingAt
<1>5. ASSUME NEW t \in Moments, MissingAt(t) # {} PROVE missing # {}
  BY <1>5 DEF MissingAt
<1> QED BY <1>2, <1>3, <1>4, <1>5 DEF Aggregated

LEMMA InitFiles == Init => FilesInv
<1> SUFFICES ASSUME Init PROVE FilesInv
  OBVIOUS
<1>1. CountsOK
  BY DEF Init, CountsOK, Aggregated
<1>2. DiskOK
  BY DEF Init, DiskOK, Csv
<1> QED BY <1>1, <1>2 DEF FilesInv

(* A CSV without _PARTIAL in its name covers the whole range and one with  *)
(* it does not; it holds what was aggregated, no earlier file is touched   *)
(* and no unfinished one is left (createExclusiveRootedFile).              *)
THEOREM Told == Spec => []FileTells
<1>1. Init => FilesInv
  BY InitFiles
<1>2. OnceInv /\ FilesInv /\ [Next]_vars => FilesInv'
  BY NextTyped, CountsKept, DiskKept DEF OnceInv, FilesInv
<1>3. OnceInv /\ FilesInv => FileTells
  <2> SUFFICES ASSUME OnceInv, FilesInv PROVE FileTells
    OBVIOUS
  <2>1. ASSUME NEW name \in DOMAIN disk, disk[name].whose = "run"
        PROVE  /\ disk[name].moments = UNION {In(x) : x \in completed}
               /\ name.partial <=> disk[name].moments # Moments
    <3>1. /\ disk[name].moments = Aggregated /\ file.pc # "fetch" /\ name.partial = file.partial
          /\ (file.partial <=> missing # {})
      BY <2>1 DEF FilesInv, DiskOK
    <3> QED BY <3>1, Covered DEF FilesInv, CountsOK
  <2> QED BY <2>1 DEF FileTells, FilesInv, DiskOK
<1> QED BY <1>1, <1>2, <1>3, Once, PTL DEF Spec

-----------------------------------------------------------------------------
(* The queries at the PCE                                                  *)

(* Only a worker that polls or downloads has a query, nobody else has that *)
(* one, and it is still to be deleted.                                     *)
Alone(w) == work[w].pc \notin {"poll", "download"} => work[w].query = 0
QueriesInv ==
  /\ strays \subseteq queries /\ QueriesDeleted
  /\ \A w \in Workers : Alone(w) /\ (work[w].query # 0 => work[w].query \notin strays)
  /\ \A v, w \in Workers : work[v].query = work[w].query /\ work[w].query # 0 => v = w

OthersStay(w) == \A v \in Workers \ {w} : work'[v] = work[v]
KeepsQuery(w) ==
  OthersStay(w) /\ work'[w].query = work[w].query /\ Alone(w)' /\ UNCHANGED <<queries, strays>>
GetsQuery(w) ==
  /\ OthersStay(w) /\ work[w].query = 0 /\ work'[w].query = NewQuery /\ Alone(w)'
  /\ queries' = queries \cup {NewQuery} /\ UNCHANGED strays
LosesQuery(w) ==
  /\ OthersStay(w) /\ work[w].query = 0 /\ work'[w].query = 0
  /\ queries' = queries \cup {NewQuery} /\ strays' = strays \cup {NewQuery}
ReturnsQuery(w) ==
  /\ OthersStay(w) /\ work'[w].query = 0
  /\ \/ queries' = queries \ {work[w].query} /\ UNCHANGED strays
     \/ /\ work[w].query # 0 /\ strays' = strays \cup {work[w].query} /\ UNCHANGED queries

LEMMA HeldQueries ==
  ASSUME WorkersOK
  PROVE  {work[w].query : w \in Workers} \ {0}
           = {q \in Nat : q # 0 /\ \E w \in Workers : work[w].query = q}
<1>1. \A w \in Workers : work[w].query \in Nat
  BY DEF WorkersOK, Worker
<1> QED BY <1>1

LEMMA QueriesKept ==
  ASSUME TypeInv, TypeInv', QueriesInv, NEW w \in Workers,
         KeepsQuery(w) \/ GetsQuery(w) \/ LosesQuery(w) \/ ReturnsQuery(w)
  PROVE  QueriesInv'
<1> DEFINE Held == {q \in Nat : q # 0 /\ \E v \in Workers : work[v].query = q}
           q == work[w].query
<1>1. queries = strays \cup Held /\ strays \subseteq queries
  BY HeldQueries DEF TypeInv, QueriesInv, QueriesDeleted
<1>2. QueriesDeleted' <=> queries' = strays' \cup Held'
  <2>1. WorkersOK' /\ (WorkersOK' => {work'[v].query : v \in Workers} \ {0} = Held')
    BY DEF TypeInv, WorkersOK, Worker
  <2> QED BY <2>1 DEF QueriesDeleted
<1>3. /\ OthersStay(w) /\ NewQuery \in Nat /\ NewQuery # 0 /\ NewQuery \notin queries
      /\ \A v \in Workers : work[v].query \in Nat
  BY FreshQuery DEF TypeInv, WorkersOK, Worker, KeepsQuery, GetsQuery, LosesQuery, ReturnsQuery
<1>4. \A v \in Workers : work[v].query # 0 => work[v].query \in queries
  BY <1>1, <1>3
<1>5. Held' = {p \in Nat : p # 0 /\ \E v \in Workers : work'[v].query = p}
  OBVIOUS
<1>6. \A v \in Workers \ {w} : Alone(v)'
  BY <1>3 DEF OthersStay, Alone, QueriesInv
<1> DEFINE Rest == {p \in Nat : p # 0 /\ \E v \in Workers \ {w} : work[v].query = p}
<1>7. Held = Rest \cup ({q} \ {0}) /\ q \notin Rest
  <2>1. Held = Rest \cup ({q} \ {0})
    BY <1>3
  <2>2. q \notin Rest
    BY DEF QueriesInv
  <2> QED BY <2>1, <2>2
<1>8. Held' = Rest \cup ({work'[w].query} \ {0})
  <2>1. work'[w].query \in Nat
    BY DEF TypeInv, WorkersOK, Worker
  <2> QED BY <1>3, <1>5, <2>1 DEF OthersStay
<1> DEFINE Unique == \A v, u \in Workers : work'[v].query = work'[u].query /\ work'[u].query # 0 => v = u
<1>9. (work'[w].query = 0 \/ work'[w].query = q \/ work'[w].query = NewQuery) => Unique
  BY <1>3, <1>4 DEF OthersStay, QueriesInv
<1> HIDE DEF Held, Rest, q, NewQuery, Unique
<1>10. CASE KeepsQuery(w)
  <2>1. queries' = strays' \cup Held'
    BY <1>1, <1>7, <1>8, <1>10 DEF KeepsQuery, q
  <2>2. \A v \in Workers : work'[v].query # 0 => work'[v].query \notin strays'
    BY <1>3, <1>10 DEF KeepsQuery, OthersStay, QueriesInv
  <2>3. Unique
    BY <1>9, <1>10 DEF KeepsQuery, q
  <2> QED BY <1>1, <1>2, <1>6, <1>10, <2>1, <2>2, <2>3 DEF QueriesInv, KeepsQuery, Unique
<1>11. CASE GetsQuery(w)
  <2>1. queries' = strays' \cup Held'
    BY <1>1, <1>3, <1>7, <1>8, <1>11 DEF GetsQuery, q
  <2>2. \A v \in Workers : work'[v].query # 0 => work'[v].query \notin strays'
    BY <1>1, <1>3, <1>11 DEF GetsQuery, OthersStay, QueriesInv
  <2>3. Unique
    BY <1>9, <1>11 DEF GetsQuery
  <2> QED BY <1>1, <1>2, <1>6, <1>11, <2>1, <2>2, <2>3 DEF QueriesInv, GetsQuery, Unique
<1>12. CASE LosesQuery(w)
  <2>1. queries' = strays' \cup Held'
    BY <1>1, <1>3, <1>7, <1>8, <1>12 DEF LosesQuery, q
  <2>2. \A v \in Workers : work'[v].query # 0 => work'[v].query \notin strays'
    BY <1>3, <1>4, <1>12 DEF LosesQuery, OthersStay, QueriesInv
  <2>3. Unique /\ Alone(w)'
    BY <1>9, <1>12 DEF LosesQuery, Alone
  <2> QED BY <1>1, <1>2, <1>6, <1>12, <2>1, <2>2, <2>3 DEF QueriesInv, LosesQuery, Unique
<1>13. CASE ReturnsQuery(w)
  <2>0. q # 0 => q \notin strays
    BY DEF QueriesInv, q
  <2>1. queries' = strays' \cup Held' /\ strays' \subseteq queries'
    <3>0. 0 \notin queries
      BY DEF TypeInv, QueriesOK
    <3> QED BY <3>0, <1>1, <1>3, <1>7, <1>8, <1>13, <2>0 DEF ReturnsQuery, q
  <2>2. \A v \in Workers : work'[v].query # 0 => work'[v].query \notin strays'
    BY <1>3, <1>13 DEF ReturnsQuery, OthersStay, QueriesInv
  <2>3. Unique /\ Alone(w)'
    BY <1>9, <1>13 DEF ReturnsQuery, Alone
  <2> QED BY <1>1, <1>2, <1>6, <1>13, <2>1, <2>2, <2>3 DEF QueriesInv, ReturnsQuery, Unique
<1> QED BY <1>10, <1>11, <1>12, <1>13

LEMMA Put ==
  ASSUME WorkersOK, NEW w \in Workers, NEW r, work' = [work EXCEPT ![w] = r]
  PROVE  OthersStay(w) /\ work'[w] = r
BY DEF WorkersOK, OthersStay

(* What a worker becomes after a request that ended has no query.          *)
LEMMA NoQueryLeft ==
  ASSUME WorkersOK, NEW w \in Workers, work[w].pc \in Asking
  PROVE  /\ Retried(w).query = 0 /\ WithoutWindow(w).query = 0
         /\ Truncated(w).query = 0 /\ Advanced(w, {}).query = 0
<1>1. work[w].pc \in Busy /\ {} \in SUBSET Windows
  BY BusyHolds
<1>2. WithoutWindow(w).query = 0 /\ Advanced(w, {}).query = 0
  BY <1>1, WithoutRecord, AdvancedRecord
<1>3. Retried(w).query = 0
  BY <1>2, RetriedRecord
<1>4. Truncated(w).query = 0
  BY <1>2, SplitRecord DEF Truncated
<1> QED BY <1>2, <1>3, <1>4

LEMMA QueryReturns ==
  ASSUME WorkersOK, NEW w \in Workers, NEW r, NEW troubles, r.query = 0, Return(w, r, troubles)
  PROVE  ReturnsQuery(w)
<1>1. work' = [work EXCEPT ![w] = r]
  BY DEF Return
<1>2. OthersStay(w) /\ work'[w] = r
  BY <1>1, Put
<1> QED BY <1>2 DEF Return, ReturnsQuery

QueryStep(w) == KeepsQuery(w) \/ GetsQuery(w) \/ LosesQuery(w) \/ ReturnsQuery(w)
LEMMA QuietSteps ==
  ASSUME TypeInv, QueriesInv, NEW w \in Workers,
         \/ Take(w) \/ Leave(w) \/ Visit(w) \/ Finish(w) \/ Look(w) \/ WaitOver(w) \/ PollLimited(w)
  PROVE  QueryStep(w)
<1>1. WorkersOK /\ work[w] \in Worker /\ Alone(w)
  BY DEF TypeInv, WorkersOK, QueriesInv
<1>2. UNCHANGED <<queries, strays>>
  BY DEF Take, Leave, Visit, Finish, Look, WaitOver, PollLimited, pce
<1>3. ASSUME NEW r, work' = [work EXCEPT ![w] = r], r.query = work[w].query,
             r.query = 0 \/ r.pc = work[w].pc
      PROVE  KeepsQuery(w)
  <2>1. OthersStay(w) /\ work'[w] = r
    BY <1>1, <1>3, Put
  <2> QED BY <1>1, <1>2, <1>3, <2>1 DEF KeepsQuery, Alone
<1>4. CASE Take(w)
  <2>1. work' = [work EXCEPT ![w] = IF ctx # "live" THEN Gone ELSE Taken(next)]
        /\ next \in Chunks /\ work[w].query = 0
    BY <1>1, <1>4 DEF Take, Taken, Alone
  <2>2. (IF ctx # "live" THEN Gone ELSE Taken(next)).query = 0
    BY <2>1, IdleTypes, TakenRecord
  <2> QED BY <1>3, <2>1, <2>2 DEF QueryStep
<1>5. CASE Leave(w)
  BY <1>1, <1>3, <1>5, IdleTypes DEF Leave, Alone, QueryStep
<1>6. CASE Finish(w)
  BY <1>1, <1>3, <1>6, IdleTypes DEF Finish, Alone, QueryStep
<1>7. CASE Visit(w)
  <2>1. work[w].query = 0 /\ work[w].pc \in Busy
    BY <1>1, <1>7 DEF Visit, Alone, Busy
  <2>2. CASE ctx # "live"
    <3>1. WithoutWindow(w).query = 0 /\ work' = [work EXCEPT ![w] = WithoutWindow(w)]
      BY <1>1, <1>7, <2>1, <2>2, WithoutRecord DEF Visit
    <3> QED BY <1>3, <2>1, <3>1 DEF QueryStep
  <2>3. CASE ctx = "live"
    <3> DEFINE r == [work[w] EXCEPT !.pc = "create", !.attempt = 1, !.creates = 1]
    <3>1. r.query = 0 /\ work' = [work EXCEPT ![w] = r]
      BY <1>1, <1>7, <2>1, <2>3 DEF Visit, Worker
    <3> HIDE DEF r
    <3> QED BY <1>3, <2>1, <3>1 DEF QueryStep
  <2> QED BY <2>2, <2>3
<1>8. CASE Look(w) \/ WaitOver(w) \/ PollLimited(w)
  <2>1. work \in [Workers -> Worker]
    BY <1>1 DEF WorkersOK
  <2>2. OthersStay(w) /\ work'[w].query = work[w].query /\ work'[w].pc = work[w].pc
    <3>1. CASE Look(w)
      BY <1>1, <2>1, <3>1 DEF Look, Worker, OthersStay
    <3>2. CASE WaitOver(w)
      BY <1>1, <2>1, <3>2 DEF WaitOver, Worker, OthersStay
    <3>3. CASE PollLimited(w)
      BY <1>1, <2>1, <3>3 DEF PollLimited, Worker, OthersStay
    <3> QED BY <1>8, <3>1, <3>2, <3>3
  <2> QED BY <1>1, <1>2, <2>2 DEF KeepsQuery, Alone, QueryStep
<1> QED BY <1>4, <1>5, <1>6, <1>7, <1>8

LEMMA CreationSteps ==
  ASSUME TypeInv, QueriesInv, NEW w \in Workers,
         \/ Created(w) \/ \E how \in {"failed", "lost", "busy"} : CreateFails(w, how)
         \/ Abort(w)
  PROVE  QueryStep(w)
<1>1. WorkersOK /\ work[w] \in Worker /\ Alone(w) /\ work[w].pc \in Asking
  BY InFetchAsks DEF TypeInv, WorkersOK, QueriesInv, Created, CreateFails, Abort, Asked, Asking
<1>2. work \in [Workers -> Worker]
  BY <1>1 DEF WorkersOK
<1> HIDE DEF NewQuery
<1>3. CASE Created(w)
  <2>1. work[w].query = 0 /\ queries' = queries \cup {NewQuery} /\ UNCHANGED strays
    BY <1>1, <1>3 DEF Created, Asked, Alone
  <2>2. OthersStay(w) /\ work'[w].query = NewQuery /\ work'[w].pc = "poll"
    BY <1>1, <1>2, <1>3 DEF Created, Worker, OthersStay
  <2> QED BY <2>1, <2>2 DEF GetsQuery, Alone, QueryStep
<1>4. ASSUME NEW how \in {"failed", "lost", "busy"}, CreateFails(w, how) PROVE QueryStep(w)
  <2> DEFINE again == [work[w] EXCEPT !.creates = @ + 1, !.hold = "look"]
             r == IF work[w].creates = MaxCreates THEN Retried(w) ELSE again
  <2>1. work[w].query = 0 /\ work[w].pc = "create"
    BY <1>1, <1>4 DEF CreateFails, Asked, Alone
  <2>2. again.query = 0
    BY <1>1, <2>1 DEF Worker
  <2>3. work' = [work EXCEPT ![w] = r] /\ r.query = 0
    BY <1>1, <1>4, <2>2, NoQueryLeft DEF CreateFails
  <2> HIDE DEF r
  <2>4. OthersStay(w) /\ work'[w].query = 0
    BY <1>1, <2>3, Put
  <2>5. CASE how = "lost"
    BY <1>4, <2>1, <2>4, <2>5 DEF CreateFails, LosesQuery, QueryStep
  <2>6. CASE how # "lost"
    BY <1>4, <2>1, <2>4, <2>6 DEF CreateFails, KeepsQuery, Alone, QueryStep, pce
  <2> QED BY <2>5, <2>6
<1>5. CASE Abort(w)
  <2>1. CASE Return(w, WithoutWindow(w), {})
    BY <1>1, <2>1, NoQueryLeft, QueryReturns DEF QueryStep
  <2>2. CASE ~Return(w, WithoutWindow(w), {})
    <3>1. /\ work[w].query = 0 /\ work' = [work EXCEPT ![w] = WithoutWindow(w)]
          /\ queries' = queries \cup {NewQuery} /\ strays' = strays \cup {NewQuery}
      BY <1>1, <1>5, <2>2 DEF Abort, Asked, Alone
    <3>2. OthersStay(w) /\ work'[w].query = 0
      BY <1>1, <3>1, Put, NoQueryLeft
    <3> QED BY <3>1, <3>2 DEF LosesQuery, QueryStep
  <2> QED BY <2>1, <2>2
<1> QED BY <1>3, <1>4, <1>5

LEMMA AnswerSteps ==
  ASSUME TypeInv, QueriesInv, NEW w \in Workers,
         \/ Completed(w) \/ Downloaded(w) \/ Refused(w) \/ QueryFails(w) \/ Late(w)
         \/ \E how \in {"failed", "busy"} : DownloadFails(w, how)
  PROVE  QueryStep(w)
<1>1. WorkersOK /\ work[w] \in Worker /\ Alone(w) /\ work[w].pc \in Asking
  BY InFetchAsks
  DEF TypeInv, WorkersOK, QueriesInv, Completed, Downloaded, Refused, QueryFails, Late, DownloadFails,
      Asked, Asking
<1>2. CASE Completed(w) /\ ~(Rows(Current(w)) > MaxResults)
  <2>1. work \in [Workers -> Worker] /\ UNCHANGED <<queries, strays>>
    BY <1>1, <1>2 DEF WorkersOK, Completed, pce
  <2>2. OthersStay(w) /\ work'[w].query = work[w].query /\ work'[w].pc = "download"
    BY <1>1, <1>2, <2>1 DEF Completed, Worker, OthersStay
  <2> QED BY <2>1, <2>2 DEF KeepsQuery, Alone, QueryStep
<1>3. CASE Completed(w) /\ Rows(Current(w)) > MaxResults
  <2>1. Return(w, Truncated(w), {})
    BY <1>3 DEF Completed
  <2> QED BY <1>1, <2>1, NoQueryLeft, QueryReturns DEF QueryStep
<1>4. CASE Downloaded(w)
  <2>1. Return(w, Advanced(w, {}), {})
    BY <1>4 DEF Downloaded
  <2> QED BY <1>1, <2>1, NoQueryLeft, QueryReturns DEF QueryStep
<1>5. CASE \/ Refused(w) \/ QueryFails(w) \/ Late(w)
           \/ \E how \in {"failed", "busy"} : DownloadFails(w, how)
  <2>1. \E troubles : Return(w, Retried(w), troubles)
    BY <1>5 DEF Refused, QueryFails, Late, DownloadFails
  <2> QED BY <1>1, <2>1, NoQueryLeft, QueryReturns DEF QueryStep
<1> QED BY <1>2, <1>3, <1>4, <1>5

LEMMA QueriesNext ==
  ASSUME TypeInv, QueriesInv, [Next]_vars
  PROVE  QueriesInv'
<1>1. TypeInv'
  BY NextTyped
<1>2. ASSUME NEW w \in Workers, Work(w) \/ Fails(w) PROVE QueriesInv'
  <2>1. QueryStep(w)
    BY <1>2, QuietSteps, CreationSteps, AnswerSteps DEF Work, Fetch, Fails
  <2> QED BY <1>1, <2>1, QueriesKept DEF QueryStep
<1>3. CASE \/ \E how \in {"cancelled", "expired"} : EndContext(how)
           \/ CooldownOver \/ Save \/ UNCHANGED vars
  <2>1. UNCHANGED <<work, queries, strays>>
    BY <1>3 DEF EndContext, CooldownOver, Save, Assess, CreateFile, WriteFile, WriteManifest, vars, pce
  <2> QED BY <2>1 DEF QueriesInv, QueriesDeleted, Alone
<1> QED BY <1>2, <1>3 DEF Next

LEMMA InitQueries == Init => QueriesInv
<1> SUFFICES ASSUME Init PROVE QueriesInv
  OBVIOUS
<1>1. \A w \in Workers : work[w].query = 0
  BY IdleTypes DEF Init
<1> QED BY <1>1 DEF Init, QueriesInv, QueriesDeleted, Alone

(* The PCE is left with the queries being worked on and with those nobody  *)
(* can delete, whose creation was not acknowledged or whose DELETE failed. *)
THEOREM Deleted == Spec => []QueriesDeleted
<1>1. Init => QueriesInv
  BY InitQueries
<1>2. OnceInv /\ QueriesInv /\ [Next]_vars => QueriesInv'
  BY QueriesNext DEF OnceInv
<1>3. QueriesInv => QueriesDeleted
  BY DEF QueriesInv
<1> QED BY <1>1, <1>2, <1>3, Once, PTL DEF Spec

(* Every record keeps its type.                                            *)
THEOREM Typed == Spec => []TypeOK
<1>1. Init => QueriesInv
  BY InitQueries
<1>2. OnceInv /\ QueriesInv /\ [Next]_vars => QueriesInv'
  BY QueriesNext DEF OnceInv
<1>3. OnceInv /\ QueriesInv => TypeOK
  <2> SUFFICES ASSUME OnceInv, QueriesInv PROVE TypeOK
    OBVIOUS
  <2>1. WorkersOK /\ ResultsOK /\ strays \subseteq queries
    BY DEF OnceInv, TypeInv, QueriesInv
  <2>2. ASSUME NEW w \in Workers
        PROVE  /\ work[w].pc \in {"idle", "visit", "create", "poll", "download", "done", "gone"}
               /\ work[w].at \in 0 .. Span /\ work[w].gaps \subseteq Windows
               /\ \A i \in 1 .. Len(work[w].ends) :
                    work[w].ends[i] \in (0 .. Span) \X (0 .. MaxDepth)
               /\ work[w].attempt \in 0 .. MaxAttempts /\ work[w].creates \in 0 .. MaxCreates
    <3>1. work[w] \in Worker
      BY <2>1 DEF WorkersOK
    <3>2. work[w].ends \in Ends
      BY <3>1 DEF Worker
    <3>3. \A i \in 1 .. Len(work[w].ends) : work[w].ends[i] \in (0 .. Span) \X (0 .. MaxDepth)
      BY <3>2 DEF Ends
    <3> HIDE DEF Ends, Windows
    <3> QED BY <3>1, <3>3 DEF Worker, Busy
  <2> QED BY <2>1, <2>2 DEF TypeOK, ResultsOK
<1> QED BY <1>1, <1>2, <1>3, Once, PTL DEF Spec

-----------------------------------------------------------------------------
(* The number of troubles met                                              *)

Met(fn) == UNION {{k} \X (1 .. fn[k]) : k \in Troubles}
LEMMA MetFinite ==
  ASSUME NEW fn \in [Troubles -> Nat]
  PROVE  IsFiniteSet(Met(fn)) /\ Total(fn) = Cardinality(Met(fn)) /\ Total(fn) \in Nat
<1> DEFINE part == [k \in Troubles |-> {k} \X (1 .. fn[k])]
           parts == {{k} \X (1 .. fn[k]) : k \in Troubles}
<1>1. IsFiniteSet(Troubles)
  <2> DEFINE all == [i \in 1 .. 10 |->
                       IF i = 1 THEN "refused" ELSE IF i = 2 THEN "failed" ELSE IF i = 3 THEN "lost"
                       ELSE IF i = 4 THEN "busy" ELSE IF i = 5 THEN "late" ELSE IF i = 6 THEN "undeleted"
                       ELSE IF i = 7 THEN "unwritten" ELSE IF i = 8 THEN "manifest"
                       ELSE IF i = 9 THEN "cancelled" ELSE "expired"]
  <2>1. all \in Surjection(1 .. 10, Troubles)
    <3>1. all \in [1 .. 10 -> Troubles]
      BY DEF Troubles
    <3>2. all[1] = "refused" /\ all[2] = "failed" /\ all[3] = "lost" /\ all[4] = "busy"
          /\ all[5] = "late" /\ all[6] = "undeleted" /\ all[7] = "unwritten" /\ all[8] = "manifest"
          /\ all[9] = "cancelled" /\ all[10] = "expired"
      OBVIOUS
    <3> HIDE DEF all
    <3>3. \A x \in Troubles : \E i \in 1 .. 10 : all[i] = x
      BY <3>2 DEF Troubles
    <3> QED BY <3>1, <3>3 DEF Surjection
  <2>2. IsFiniteSet(1 .. 10)
    <3>1. \A n \in Nat : IsFiniteSet(1 .. n)
      BY FS_Interval
    <3> QED BY <3>1
  <2> HIDE DEF all
  <2> QED BY <2>1, <2>2, FS_Surjection
<1> HIDE DEF Troubles
<1>2. part \in Surjection(Troubles, parts)
  BY DEF Surjection
<1>3. IsFiniteSet(parts)
  <2> HIDE DEF part, parts
  <2> QED BY <1>1, <1>2, FS_Surjection
<1>4. \A k \in Troubles : IsFiniteSet({k} \X (1 .. fn[k]))
  <2> TAKE k \in Troubles
  <2>1. fn[k] \in Int
    OBVIOUS
  <2>2. IsFiniteSet(1 .. fn[k])
    BY <2>1, FS_Interval
  <2>3. IsFiniteSet({k})
    BY FS_Singleton
  <2> QED BY <2>2, <2>3, FS_Product
<1>5. IsFiniteSet(Met(fn))
  BY <1>3, <1>4, FS_UNION DEF Met
<1>6. Total(fn) = Cardinality(Met(fn))
  BY DEF Total, Met
<1> QED BY <1>5, <1>6, FS_CardinalityType

LEMMA TotalGrows ==
  ASSUME TypeInv
  PROVE  /\ Total(spent) \in Nat
         /\ Pays => Total(spent') \in Nat /\ Total(spent) <= Total(spent')
         /\ Spends => Total(spent') \in Nat /\ Total(spent) + 1 <= Total(spent')
<1>1. spent \in [Troubles -> Nat]
  BY DEF TypeInv, ResultsOK
<1>2. ASSUME NEW what \in SUBSET Troubles, Meet(what)
      PROVE  /\ Total(spent') \in Nat /\ Total(spent) <= Total(spent')
             /\ what # {} => Total(spent) + 1 <= Total(spent')
  <2>1. spent' = [x \in Troubles |-> IF x \in what THEN spent[x] + 1 ELSE spent[x]]
    BY <1>2 DEF Meet
  <2>2. spent' \in [Troubles -> Nat]
    BY <1>2, SpentTyped, PayKinds
  <2> HIDE DEF Troubles
  <2>3. \A k \in Troubles : spent[k] \in Nat /\ spent'[k] \in Nat /\ spent[k] <= spent'[k]
    BY <1>1, <2>1, <2>2
  <2>4. Met(spent) \subseteq Met(spent')
    <3>1. \A k \in Troubles : 1 .. spent[k] \subseteq 1 .. spent'[k]
      BY <2>3
    <3> QED BY <3>1 DEF Met
  <2>5. IsFiniteSet(Met(spent')) /\ Total(spent') = Cardinality(Met(spent')) /\ Total(spent') \in Nat
        /\ Total(spent) = Cardinality(Met(spent)) /\ Total(spent) \in Nat
    BY <1>1, <2>2, MetFinite
  <2>6. /\ Total(spent) <= Total(spent')
        /\ Total(spent) = Total(spent') => Met(spent) = Met(spent')
    BY <2>4, <2>5, FS_Subset
  <2>7. ASSUME NEW k \in what PROVE Met(spent) # Met(spent')
    <3>1. k \in Troubles /\ spent'[k] = spent[k] + 1 /\ spent[k] \in Nat
      BY <1>1, <2>1
    <3>2. <<k, spent[k] + 1>> \in Met(spent')
      BY <3>1 DEF Met
    <3>3. <<k, spent[k] + 1>> \notin Met(spent)
      <4>1. spent[k] + 1 \notin 1 .. spent[k]
        BY <3>1
      <4> QED BY <4>1 DEF Met
    <3> QED BY <3>2, <3>3
  <2> QED BY <2>5, <2>6, <2>7
<1>3. Total(spent) \in Nat
  BY <1>1, MetFinite
<1> QED BY <1>2, <1>3 DEF Pays, Spends

-----------------------------------------------------------------------------
(* Windows that are missing                                                *)

(* A window split n times is not longer than the interval divided by 2^n;  *)
(* every attempt after the first cost a trouble; and no chunk is lost      *)
(* while the context lives.                                                *)
Before(r, i) == IF i = 1 THEN r.at ELSE r.ends[i - 1][1]
Fits(length, depth) == (length - 1) * PowerOfTwo[depth] < Interval
Short(r) == \A i \in 1 .. Len(r.ends) : Fits(r.ends[i][1] - Before(r, i), r.ends[i][2])
Futile(x) ==
  /\ Rows(x) > MaxResults
  /\ x.to - x.from < 2 * MinLength \/ Fits(x.to - x.from, MaxDepth)
Quiet == Total(spent) < MaxAttempts /\ ctx = "live"
Holding(c) == \E w \in Workers : Holds(w) /\ work[w].chunk = c
FutileInv ==
  /\ \A w \in Workers : Short(work[w]) /\ work[w].attempt <= Total(spent) + 1
  /\ Quiet => /\ \A x \in missing : Futile(x)
              /\ \A w \in Workers : \A x \in work[w].gaps : Futile(x)
  /\ ctx = "live" => /\ \A w \in Workers : work[w].pc = "gone" => next \notin Chunks
                     /\ \A c \in Chunks : c < next => c \in processed \/ Holding(c)

LEMMA Scaled ==
  ASSUME NEW a \in Int, NEW b \in Int, NEW p \in Nat, a <= b
  PROVE  a * p <= b * p /\ a * p \in Int /\ b * p \in Int
<1>1. (b - a) * p >= 0 /\ b * p = (b - a) * p + a * p
  OBVIOUS
<1>2. (b - a) * p \in Int /\ a * p \in Int /\ b * p \in Int
  OBVIOUS
<1> QED BY <1>1, <1>2

(* Half a window fits one level deeper.                                    *)
LEMMA HalfFits ==
  ASSUME NEW length \in Nat, NEW half \in Nat, NEW depth \in Nat, Fits(length, depth),
         2 * (half - 1) <= length - 1
  PROVE  Fits(half, depth + 1)
<1> DEFINE p == PowerOfTwo[depth]
           q == PowerOfTwo[depth + 1]
<1>1. p \in Nat /\ q = 2 * p
  BY PowersOfTwo
<1>2. (length - 1) * p < Interval
  BY DEF Fits
<1> HIDE DEF p, q
<1>3. (2 * (half - 1)) * p <= (length - 1) * p
  <2>1. 2 * (half - 1) \in Int /\ length - 1 \in Int
    OBVIOUS
  <2> QED BY <1>1, <2>1, Scaled
<1>4. (2 * (half - 1)) * p = (half - 1) * q
  BY <1>1
<1>5. (2 * (half - 1)) * p \in Int /\ (length - 1) * p \in Int
  BY <1>1
<1>6. (half - 1) * q < Interval
  <2> DEFINE x == (2 * (half - 1)) * p
             y == (length - 1) * p
  <2>1. x \in Int /\ y \in Int /\ x <= y /\ y < Interval /\ (half - 1) * q = x
    BY <1>2, <1>3, <1>4, <1>5
  <2> HIDE DEF x, y
  <2> QED BY <2>1, Sizes
<1> QED BY <1>6 DEF Fits, q

LEMMA AdvancedShort ==
  ASSUME WorkersOK, NEW w \in Workers, work[w].pc \in Busy, Short(work[w]),
         NEW gaps \in SUBSET Windows
  PROVE  Short(Advanced(w, gaps))
<1> DEFINE ends == work[w].ends
           rest == Tail(ends)
           r == Advanced(w, gaps)
<1>1. r.at = Current(w).to /\ r.ends = rest
  BY AdvancedRecord
<1>2. /\ ends \in Ends /\ Len(ends) > 0 /\ Current(w).to = ends[1][1] /\ rest \in Ends
      /\ Len(rest) = Len(ends) - 1 /\ \A i \in 1 .. Len(rest) : rest[i] = ends[i + 1]
  BY CurrentWindow
<1>3. Len(ends) \in Nat
  BY <1>2, EndsLength
<1>4. \A i \in 1 .. Len(ends) : Fits(ends[i][1] - Before(work[w], i), ends[i][2])
  BY DEF Short
<1>5. \A i \in 1 .. Len(ends) : i # 1 => Before(work[w], i) = ends[i - 1][1]
  BY DEF Before
<1> HIDE DEF ends, rest, r
<1>6. ASSUME NEW i \in 1 .. Len(rest)
      PROVE  Fits(rest[i][1] - Before(r, i), rest[i][2])
  <2>1. i + 1 \in 1 .. Len(ends) /\ i + 1 # 1 /\ (i + 1) - 1 = i /\ rest[i] = ends[i + 1]
    BY <1>2, <1>3
  <2>2. Before(work[w], i + 1) = ends[i][1]
    BY <1>5, <2>1
  <2>3. Before(r, i) = ends[i][1]
    <3>1. CASE i = 1
      BY <1>1, <1>2, <3>1 DEF Before
    <3>2. CASE i # 1
      <4>1. i - 1 \in 1 .. Len(rest) /\ (i - 1) + 1 = i
        BY <1>2, <1>3, <3>2
      <4> QED BY <1>1, <1>2, <3>2, <4>1 DEF Before
    <3> QED BY <3>1, <3>2
  <2> QED BY <1>4, <2>1, <2>2, <2>3
<1> QED BY <1>1, <1>6 DEF Short, r

LEMMA SplitShort ==
  ASSUME WorkersOK, NEW w \in Workers, work[w].pc \in Asking, Divisible(Current(w), Depth(w)),
         Ordered(work[w]), Short(work[w])
  PROVE  Short(Split(w))
<1> DEFINE ends == work[w].ends
           r == Split(w)
           mid == Midpoint(Current(w))
           to == Current(w).to
           at == work[w].at
           depth == Depth(w)
<1>1. work[w].pc \in Busy
  BY DEF Asking, Busy
<1>2. /\ r.at = at /\ mid \in 0 .. Span /\ at < mid /\ mid < to
      /\ Len(r.ends) = Len(ends) + 1 /\ r.ends[1] = <<mid, depth + 1>> /\ r.ends[2] = <<to, depth + 1>>
      /\ \A i \in 3 .. Len(r.ends) : r.ends[i] = ends[i - 1]
  BY SplitRecord
<1>3. /\ Len(ends) > 0 /\ to = ends[1][1] /\ depth = ends[1][2] /\ depth \in 0 .. MaxDepth
      /\ ends \in Ends
  BY <1>1, CurrentWindow
<1>4. Len(ends) \in Nat
  BY <1>3, EndsLength
<1>5. at \in Nat /\ to \in Nat /\ Current(w).from = at /\ depth \in Nat
  BY <1>1, <1>3, LastEnd, Sizes
<1>6. mid = at + (to - at) \div 2
  BY <1>5 DEF Midpoint
<1>7. \A i \in 1 .. Len(ends) : Fits(ends[i][1] - Before(work[w], i), ends[i][2])
  BY DEF Short
<1>8. /\ Before(work[w], 1) = at
      /\ \A i \in 1 .. Len(ends) : i # 1 => Before(work[w], i) = ends[i - 1][1]
  BY DEF Before
<1> HIDE DEF ends, r, mid, to, at, depth
<1>9. mid \in Nat
  BY <1>2, Sizes
<1>10. Fits(to - at, depth)
  BY <1>3, <1>4, <1>7, <1>8
<1>11. Fits(mid - at, depth + 1) /\ Fits(to - mid, depth + 1)
  <2> DEFINE n == to - at
  <2>1. n \in Nat /\ mid - at = n \div 2 /\ to - mid = n - n \div 2 /\ n \div 2 \in Nat
    BY <1>2, <1>5, <1>6, <1>9
  <2>2. 2 * (n \div 2) <= n /\ n <= 2 * (n \div 2) + 1
    <3> HIDE DEF n
    <3> QED BY <2>1
  <2>3. n - n \div 2 \in Nat
    BY <1>2, <1>5, <1>9, <2>1
  <2> HIDE DEF n
  <2> DEFINE h == n \div 2
  <2>4. h \in Nat /\ n - h \in Nat /\ 2 * (h - 1) <= n - 1 /\ 2 * ((n - h) - 1) <= n - 1
    BY <2>1, <2>2, <2>3
  <2> HIDE DEF h
  <2>5. Fits(n, depth)
    BY <1>10 DEF n
  <2>6. Fits(h, depth + 1) /\ Fits(n - h, depth + 1)
    BY <1>5, <2>1, <2>4, <2>5, HalfFits
  <2> QED BY <2>1, <2>6 DEF h
<1>12. ASSUME NEW i \in 1 .. Len(r.ends)
       PROVE  Fits(r.ends[i][1] - Before(r, i), r.ends[i][2])
  <2>1. CASE i = 1
    BY <1>2, <1>11, <2>1 DEF Before
  <2>2. CASE i = 2
    BY <1>2, <1>11, <2>2 DEF Before
  <2>3. CASE i # 1 /\ i # 2
    <3>1. i \in 3 .. Len(r.ends) /\ i - 1 \in 1 .. Len(ends) /\ i - 1 # 1
      BY <1>2, <1>4, <2>3
    <3>2. r.ends[i] = ends[i - 1] /\ Before(work[w], i - 1) = ends[(i - 1) - 1][1]
      BY <1>2, <1>8, <3>1
    <3>3. Before(r, i) = ends[(i - 1) - 1][1]
      <4>1. Before(r, i) = r.ends[i - 1][1]
        BY <2>3 DEF Before
      <4>2. CASE i = 3
        BY <1>2, <1>3, <4>1, <4>2
      <4>3. CASE i # 3
        <5>1. i - 1 \in 3 .. Len(r.ends)
          BY <1>2, <1>4, <3>1, <4>3
        <5> QED BY <1>2, <4>1, <5>1
      <4> QED BY <4>2, <4>3
    <3> QED BY <1>7, <3>1, <3>2, <3>3
  <2> QED BY <2>1, <2>2, <2>3
<1> QED BY <1>12 DEF Short, r

LEMMA TakenShort ==
  ASSUME NEW c \in Chunks
  PROVE  Short(Taken(c)) /\ Short(Idle) /\ Short(Gone)
<1>1. Short(Taken(c))
  <2> DEFINE ends == <<<<ChunkEnd(c), 0>>>>
             r == Taken(c)
  <2>1. r.at = ChunkStart(c) /\ r.ends = ends
    BY TakenRecord
  <2>2. Len(ends) = 1 /\ ends[1][1] = ChunkEnd(c) /\ ends[1][2] = 0
    OBVIOUS
  <2> HIDE DEF ends, r
  <2>3. Fits(ChunkEnd(c) - ChunkStart(c), 0)
    BY ChunkBounds, PowersOfTwo, Sizes DEF Fits
  <2> QED BY <2>1, <2>2, <2>3 DEF Short, Before, r
<1>2. Short(Idle) /\ Short(Gone)
  BY DEF Short, Idle, Gone
<1> QED BY <1>1, <1>2

(* A window given up without a cause to try it again is too short or has   *)
(* been split as often as allowed.                                         *)
LEMMA LostFutile ==
  ASSUME WorkersOK, NEW w \in Workers, work[w].pc \in Busy, Ordered(work[w]), Short(work[w]),
         Rows(Current(w)) > MaxResults, ~Divisible(Current(w), Depth(w))
  PROVE  Futile(Current(w))
<1> DEFINE from == Current(w).from
           to == Current(w).to
           depth == Depth(w)
           n == to - from
<1>1. /\ from \in Nat /\ to \in Nat /\ from < to /\ from = work[w].at
      /\ to = work[w].ends[1][1] /\ depth = work[w].ends[1][2] /\ depth \in 0 .. MaxDepth
      /\ 1 \in 1 .. Len(work[w].ends)
  <2>1. Len(work[w].ends) \in Nat /\ Len(work[w].ends) > 0
    BY CurrentWindow, EndsLength
  <2> QED BY <2>1, CurrentWindow, LastEnd
<1>2. Fits(n, depth)
  BY <1>1 DEF Short, Before
<1>3. CASE depth = MaxDepth
  BY <1>2, <1>3 DEF Futile
<1>4. CASE depth # MaxDepth
  <2>1. depth < MaxDepth
    BY <1>1, <1>4, Sizes
  <2>2. ~(Midpoint(Current(w)) - from >= MinLength /\ to - Midpoint(Current(w)) >= MinLength)
    BY <2>1 DEF Divisible
  <2>3. Midpoint(Current(w)) = from + n \div 2
    BY DEF Midpoint
  <2>4. ~(n \div 2 >= MinLength /\ n - n \div 2 >= MinLength)
    BY <1>1, <2>2, <2>3, Sizes
  <2>5. n \in Nat
    BY <1>1
  <2> HIDE DEF n
  <2>6. n < 2 * MinLength
    BY <2>4, <2>5, Sizes
  <2> QED BY <2>6 DEF Futile, n
<1> QED BY <1>3, <1>4

LEMMA RowsSame ==
  ASSUME UNCHANGED mode, NEW x
  PROVE  Futile(x)' <=> Futile(x)
<1>1. Rows(x)' = Rows(x)
  BY DEF Rows, In, MapThenSumSet, MapThenFoldSet
<1> QED BY <1>1 DEF Futile, Fits

(* Every step keeps the rows and the troubles met.                         *)
LEMMA EveryStepPays ==
  ASSUME TypeInv, Kinds
  PROVE  /\ UNCHANGED mode /\ Total(spent) \in Nat /\ Total(spent') \in Nat
         /\ Total(spent) <= Total(spent') /\ (ctx # "live" => ctx' # "live")
         /\ Quiet' => Quiet
<1>1. ASSUME NEW w \in Workers, \/ Stays(w) \/ Loses(w) \/ Splits(w) \/ Commits(w)
                                \/ Take(w) \/ Leave(w) \/ Finish(w)
      PROVE  UNCHANGED <<mode, ctx>> /\ Pays
  BY <1>1, PayKinds DEF Stays, Loses, Splits, Commits, Take, Leave, Finish, Apart, GivenUp
<1>2. ASSUME Assess PROVE Pays
  BY <1>2, PayKinds DEF Assess
<1>3. ASSUME CreateFile \/ WriteFile \/ WriteManifest PROVE Pays
  <2>1. {{}, {"unwritten"}, {"manifest"}} \subseteq SUBSET Troubles
    BY DEF Troubles
  <2> QED BY <1>3, <2>1, PayKinds DEF CreateFile, WriteFile, WriteManifest
<1>4. UNCHANGED mode /\ (ctx # "live" => ctx' # "live") /\ Pays
  <2>1. CASE Assess \/ CreateFile \/ WriteFile \/ WriteManifest
    <3>1. Pays
      BY <1>2, <1>3, <2>1
    <3> QED BY <2>1, <3>1 DEF Assess, CreateFile, WriteFile, WriteManifest
  <2>2. CASE Elsewhere
    BY <2>2 DEF Elsewhere
  <2> QED BY <1>1, <2>1, <2>2 DEF Kinds
<1>5. Total(spent) \in Nat /\ Total(spent') \in Nat /\ Total(spent) <= Total(spent')
  BY <1>4, TotalGrows
<1> QED BY <1>4, <1>5, Sizes DEF Quiet

(* Windows that fail: with fewer troubles than attempts, futile ones.      *)
LEMMA LosesFutile ==
  ASSUME TypeInv, ChunksInv, FutileInv, NEW w \in Workers, Loses(w), Quiet'
  PROVE  Futile(Current(w))
<1>1. WorkersOK /\ work[w].pc \in Busy /\ Ordered(work[w]) /\ Short(work[w])
      /\ work[w].attempt <= Total(spent) + 1
  BY BusyHolds DEF TypeInv, ChunksInv, FutileInv, Loses
<1>2. ctx = "live" /\ Total(spent') < MaxAttempts
  BY DEF Quiet, Loses, Apart
<1>3. ASSUME work[w].attempt = MaxAttempts /\ Spends PROVE FALSE
  <2>1. Total(spent) \in Nat /\ Total(spent') \in Nat /\ Total(spent) + 1 <= Total(spent')
    BY <1>3, TotalGrows
  <2> QED BY <1>1, <1>2, <1>3, <2>1, Sizes
<1>4. Rows(Current(w)) > MaxResults /\ ~Divisible(Current(w), Depth(w))
  BY <1>2, <1>3 DEF Loses, GivenUp
<1> QED BY <1>1, <1>4, LostFutile

(* Whose gaps, lengths and attempts a step changes.                        *)
Moves(w) ==
  \/ Stays(w) \/ Loses(w) \/ Splits(w) \/ Commits(w) \/ Take(w) \/ Leave(w) \/ Finish(w)
Afresh(v, gaps) == Short(work'[v]) /\ work'[v].attempt = 0 /\ work'[v].gaps = gaps
LEMMA WorkerKinds ==
  ASSUME TypeInv, ChunksInv, FutileInv, Kinds, NEW v \in Workers
  PROVE  \/ work'[v] = work[v]
         \/ Stays(v) /\ SamePlace(work'[v], v) /\ Short(work'[v])
         \/ Loses(v) /\ Afresh(v, work[v].gaps \cup {Current(v)})
         \/ Afresh(v, work[v].gaps) \/ Afresh(v, {})
<1>1. WorkersOK /\ Short(work[v]) /\ DOMAIN work = Workers
  BY DEF TypeInv, FutileInv, WorkersOK
<1>2. CASE Stays(v)
  <2>1. SamePlace(work'[v], v)
    BY <1>2 DEF Stays
  <2>2. Short(work'[v])
    BY <1>1, <2>1 DEF Short, Before, SamePlace
  <2> QED BY <1>2, <2>1, <2>2
<1>3. CASE Loses(v)
  <2>1. work[v].pc \in Busy /\ {Current(v)} \in SUBSET Windows
    BY <1>1, <1>3, CurrentWindow DEF Loses
  <2>2. work'[v] = Advanced(v, {Current(v)})
    BY <1>1, <1>3 DEF Loses, WithoutWindow
  <2>3. Short(work'[v]) /\ work'[v].attempt = 0 /\ work'[v].gaps = work[v].gaps \cup {Current(v)}
    BY <1>1, <2>1, <2>2, AdvancedShort, AdvancedRecord
  <2> QED BY <1>3, <2>3 DEF Afresh
<1>4. CASE Splits(v)
  <2>1. Ordered(work[v]) /\ work'[v] = Split(v)
    BY <1>1, <1>4, BusyHolds DEF Splits, ChunksInv
  <2>2. Short(work'[v]) /\ work'[v].attempt = 0 /\ work'[v].gaps = work[v].gaps
    BY <1>1, <1>4, <2>1, SplitShort, SplitRecord DEF Splits
  <2> QED BY <2>2 DEF Afresh
<1>5. CASE Commits(v)
  <2>1. work[v].pc \in Busy /\ {} \in SUBSET Windows /\ work'[v] = Advanced(v, {})
    BY <1>1, <1>5 DEF Commits
  <2>2. work'[v].gaps = work[v].gaps /\ work'[v].attempt = 0
    <3>1. Advanced(v, {}).gaps = work[v].gaps \cup {} /\ Advanced(v, {}).attempt = 0
      BY <1>1, <2>1, AdvancedRecord
    <3> QED BY <2>1, <3>1
  <2>3. Short(work'[v])
    BY <1>1, <2>1, AdvancedShort
  <2> QED BY <2>2, <2>3 DEF Afresh
<1>6. CASE Take(v)
  <2>1. next \in Chunks /\ work' = [work EXCEPT ![v] = IF ctx # "live" THEN Gone ELSE Taken(next)]
    BY <1>6 DEF Take, Taken
  <2>2. work'[v] \in {Gone, Taken(next)}
    BY <1>1, <2>1
  <2> QED BY <2>1, <2>2, TakenShort, TakenRecord DEF Afresh, Gone, Idle
<1>7. CASE Leave(v) \/ Finish(v)
  <2>1. work'[v] \in {Gone, Idle}
    BY <1>1, <1>7 DEF Leave, Finish
  <2> QED BY <2>1 DEF Short, Afresh, Gone, Idle
<1>8. ASSUME NEW w \in Workers \ {v}, Moves(w) PROVE work'[v] = work[v]
  <2>1. \E r : work' = [work EXCEPT ![w] = r]
    BY <1>8 DEF Moves, Stays, Loses, Splits, Commits, Take, Leave, Finish
  <2> QED BY <1>1, <2>1
<1>9. CASE Assess \/ CreateFile \/ WriteFile \/ WriteManifest \/ Elsewhere
  BY <1>9 DEF Assess, CreateFile, WriteFile, WriteManifest, Elsewhere
<1> QED BY <1>2, <1>3, <1>4, <1>5, <1>6, <1>7, <1>8, <1>9 DEF Kinds, Moves

LEMMA AttemptsKept ==
  ASSUME TypeInv, ChunksInv, FutileInv, Kinds, NEW v \in Workers
  PROVE  work'[v].attempt <= Total(spent') + 1
<1> DEFINE before == work[v].attempt
           after == work'[v].attempt
           m == Total(spent)
           n == Total(spent')
<1>1. before \in Nat /\ before <= m + 1 /\ m \in Nat /\ n \in Nat /\ m <= n
  BY EveryStepPays, Sizes DEF TypeInv, FutileInv, WorkersOK, Worker
<1>2. \/ after = before \/ after = 0 \/ after = 1
      \/ after = before + 1 /\ m + 1 <= n
  BY WorkerKinds, TotalGrows DEF Stays, Afresh
<1> HIDE DEF before, after, m, n
<1>3. after <= n + 1
  BY <1>1, <1>2
<1> QED BY <1>3 DEF after, n

LEMMA GapsFutile ==
  ASSUME TypeInv, ChunksInv, FutileInv, Kinds, NEW v \in Workers
  PROVE  Short(work'[v]) /\ (Quiet' => \A x \in work'[v].gaps : Futile(x))
<1>1. Short(work[v]) /\ (Quiet' => \A x \in work[v].gaps : Futile(x))
  BY EveryStepPays DEF FutileInv
<1>2. CASE work'[v] = work[v]
  BY <1>1, <1>2, Zenon
<1>3. CASE Stays(v) /\ SamePlace(work'[v], v) /\ Short(work'[v])
  BY <1>1, <1>3, Zenon DEF SamePlace
<1>4. CASE Loses(v) /\ Afresh(v, work[v].gaps \cup {Current(v)})
  <2>1. Quiet' => Futile(Current(v))
    BY <1>4, LosesFutile
  <2> QED BY <1>1, <1>4, <2>1 DEF Afresh
<1>5. CASE Afresh(v, work[v].gaps) \/ Afresh(v, {})
  BY <1>1, <1>5, Zenon DEF Afresh
<1> QED BY <1>2, <1>3, <1>4, <1>5, WorkerKinds

LEMMA MissingFutile ==
  ASSUME TypeInv, ChunksInv, FutileInv, Kinds, Quiet'
  PROVE  \A x \in missing' : Futile(x)
<1>1. Quiet /\ (\A x \in missing : Futile(x)) /\ \A w \in Workers : \A x \in work[w].gaps : Futile(x)
  BY EveryStepPays DEF FutileInv
<1>2. CASE missing' = missing
  BY <1>1, <1>2
<1>3. ASSUME NEW w \in Workers, Finish(w) PROVE \A x \in missing' : Futile(x)
  BY <1>1, <1>3 DEF Finish
<1>4. CASE Assess
  <2>1. PICK w \in Workers : work[w].pc = "gone"
    BY <1>4, WorkersAssumption DEF Assess
  <2>2. next \notin Chunks
    BY <1>1, <2>1 DEF Quiet, FutileInv
  <2>3. \A c \in Chunks : ~Holding(c)
    BY <1>4 DEF Assess, Holding, Holds, Busy
  <2>4. \A c \in Chunks : c < next
    <3>1. (Span + Interval - 1) \div Interval \in Nat
      <4>1. Span + Interval - 1 \in Nat
        BY Sizes
      <4> QED BY <4>1, Sizes
    <3>2. next \in Nat /\ next > 0
      BY DEF TypeInv, ResultsOK
    <3> QED BY <2>2, <3>1, <3>2 DEF Chunks
  <2>5. Chunks \subseteq processed
    BY <1>1, <2>3, <2>4 DEF Quiet, FutileInv
  <2>6. missing' = missing
    BY <1>4, <2>5 DEF Assess
  <2> QED BY <1>2, <2>6
<1>5. ASSUME NEW w \in Workers, \/ Stays(w) \/ Loses(w) \/ Splits(w) \/ Commits(w)
                                \/ Take(w) \/ Leave(w)
      PROVE  missing' = missing
  BY <1>5 DEF Stays, Loses, Splits, Commits, Take, Leave, Apart, results
<1>6. CASE CreateFile \/ WriteFile \/ WriteManifest \/ Elsewhere
  BY <1>2, <1>6 DEF CreateFile, WriteFile, WriteManifest, Elsewhere, results
<1> QED BY <1>2, <1>3, <1>4, <1>5, <1>6 DEF Kinds

(* No chunk is lost while the context lives.                               *)
NothingLost ==
  ctx = "live" => /\ \A w \in Workers : work[w].pc = "gone" => next \notin Chunks
                  /\ \A c \in Chunks : c < next => c \in processed \/ Holding(c)
LEMMA LostKept ==
  ASSUME TypeInv, ChunksInv, NothingLost, Kinds
  PROVE  NothingLost'
<1>1. WorkersOK /\ WorkersOK' /\ DOMAIN work = Workers
  BY WorkersTyped DEF TypeInv, WorkersOK
<1> USE DEF NothingLost
<1>2. ASSUME UNCHANGED <<ctx, next, processed>>,
             \A v \in Workers : work'[v].pc = "gone" => work[v].pc = "gone",
             \A v \in Workers : Holds(v) => Holds(v)' /\ work'[v].chunk = work[v].chunk
      PROVE  NothingLost'
  <2>1. \A c : Holding(c) => Holding(c)'
    BY <1>2 DEF Holding
  <2> QED BY <1>2, <2>1 DEF Chunks
<1>3. ASSUME NEW w \in Workers, Stays(w) \/ Loses(w) \/ Splits(w) \/ Commits(w) PROVE NothingLost'
  <2>1. UNCHANGED <<ctx, next, processed>> /\ Holds(w)
    BY <1>3, BusyHolds DEF Stays, Loses, Splits, Commits, Apart, results
  <2>2. OthersStay(w) /\ work'[w].pc \in Busy \cup {"done"} /\ work'[w].chunk = work[w].chunk
    <3>1. CASE Stays(w)
      BY <1>1, <3>1 DEF Stays, SamePlace, OthersStay
    <3>2. CASE Loses(w)
      <4>1. OthersStay(w) /\ work'[w] = WithoutWindow(w)
        BY <1>1, <3>2, Put DEF Loses
      <4> QED BY <1>1, <3>2, <4>1, WithoutRecord DEF Loses, Busy
    <3>3. CASE Splits(w)
      <4>1. OthersStay(w) /\ work'[w] = Split(w)
        BY <1>1, <3>3, Put DEF Splits
      <4> QED BY <1>1, <3>3, <4>1, SplitRecord DEF Splits, Busy
    <3>4. CASE Commits(w)
      <4>1. OthersStay(w) /\ work'[w] = Advanced(w, {}) /\ {} \in SUBSET Windows
        BY <1>1, <3>4, Put DEF Commits
      <4> QED BY <1>1, <3>4, <4>1, AdvancedRecord DEF Commits, Busy
    <3> QED BY <1>3, <3>1, <3>2, <3>3, <3>4
  <2>3. work'[w].pc # "gone"
    BY <2>2 DEF Busy
  <2> QED BY <1>2, <2>1, <2>2, <2>3 DEF OthersStay, Holds
<1>4. ASSUME NEW w \in Workers, Take(w) PROVE NothingLost'
  <2>1. /\ next \in Chunks /\ next \in Nat /\ next' = next + 1 /\ UNCHANGED <<ctx, processed>>
        /\ work[w].pc = "idle"
        /\ work' = [work EXCEPT ![w] = IF ctx # "live" THEN Gone ELSE Taken(next)]
    BY <1>4, ChunkBounds DEF Take, Taken, results
  <2>2. OthersStay(w) /\ work'[w] = IF ctx # "live" THEN Gone ELSE Taken(next)
    BY <1>1, <2>1, Put
  <2> SUFFICES ASSUME ctx = "live"
               PROVE  /\ \A v \in Workers : work'[v].pc # "gone"
                      /\ \A c \in Chunks : c < next' => c \in processed' \/ Holding(c)'
    BY <2>1 DEF Chunks
  <2>3. work'[w].pc = "visit" /\ work'[w].chunk = next
    BY <2>1, <2>2, TakenRecord
  <2>4. \A v \in Workers : work'[v].pc # "gone"
    BY <2>1, <2>2, <2>3 DEF OthersStay
  <2>5. \A c \in Chunks : c < next' => c < next \/ c = next
    BY <2>1, ChunkBounds
  <2>6. \A c : c = next => Holding(c)'
    <3> TAKE c
    <3> QED BY <2>3 DEF Holding, Holds, Busy
  <2>7. \A c : Holding(c) => Holding(c)'
    <3>1. \A v \in Workers : Holds(v) => v # w /\ work'[v] = work[v]
      BY <2>1, <2>2 DEF Holds, Busy, OthersStay
    <3> QED BY <3>1 DEF Holding, Holds
  <2> QED BY <2>1, <2>4, <2>5, <2>6, <2>7
<1>5. ASSUME NEW w \in Workers, Leave(w) PROVE NothingLost'
  <2>1. /\ next \notin Chunks /\ work[w].pc = "idle" /\ UNCHANGED <<ctx, next, processed>>
        /\ OthersStay(w)
    BY <1>1, <1>5, Put DEF Leave, results
  <2>2. \A c : Holding(c) => Holding(c)'
    BY <2>1 DEF Holding, Holds, Busy, OthersStay
  <2> QED BY <2>1, <2>2 DEF Chunks
<1>6. ASSUME NEW w \in Workers, Finish(w) PROVE NothingLost'
  <2>1. /\ processed' = processed \cup {work[w].chunk} /\ UNCHANGED <<ctx, next>>
        /\ work'[w].pc = "idle" /\ OthersStay(w)
    BY <1>1, <1>6, Put, IdleTypes DEF Finish
  <2>2. \A c : Holding(c) => Holding(c)' \/ c \in processed'
    BY <2>1 DEF Holding, Holds, Busy, OthersStay
  <2>3. \A v \in Workers : work'[v].pc = "gone" => work[v].pc = "gone"
    BY <2>1 DEF OthersStay
  <2> QED BY <2>1, <2>2, <2>3 DEF Chunks
<1>7. CASE Assess \/ CreateFile \/ WriteFile \/ WriteManifest \/ Elsewhere
  <2>1. UNCHANGED <<work, next, processed>> /\ (ctx' = "live" => ctx = "live")
    BY <1>7 DEF Assess, CreateFile, WriteFile, WriteManifest, Elsewhere, results
  <2> QED BY <2>1 DEF Holding, Holds, Chunks
<1> QED BY <1>3, <1>4, <1>5, <1>6, <1>7 DEF Kinds

LEMMA FutileKept ==
  ASSUME OnceInv, FutileInv, [Next]_vars
  PROVE  FutileInv'
<1>1. TypeInv /\ ChunksInv /\ Kinds /\ UNCHANGED mode
  BY NextTyped, EveryStepPays DEF OnceInv
<1>2. \A w \in Workers : Short(work'[w]) /\ work'[w].attempt <= Total(spent') + 1
  <2> TAKE w \in Workers
  <2>1. Short(work'[w])
    BY <1>1, GapsFutile
  <2>2. work'[w].attempt <= Total(spent') + 1
    BY <1>1, AttemptsKept
  <2> QED BY <2>1, <2>2
<1>3. Quiet' => /\ \A x \in missing' : Futile(x)'
                /\ \A w \in Workers : \A x \in work'[w].gaps : Futile(x)'
  BY <1>1, MissingFutile, GapsFutile, RowsSame
<1>4. NothingLost'
  BY <1>1, LostKept DEF FutileInv, NothingLost
<1>5. \A w \in Workers : Short(work[w])' /\ (work[w].attempt <= Total(spent) + 1)'
  <2>1. Total(spent)' = Total(spent')
    BY DEF Total
  <2> QED BY <1>2, <2>1 DEF Short, Before, Fits
<1> HIDE DEF NothingLost
<1> QED BY <1>3, <1>4, <1>5, Zenon DEF FutileInv, NothingLost

LEMMA InitFutile == Init => FutileInv
<1> SUFFICES ASSUME Init PROVE FutileInv
  OBVIOUS
<1>1. \A w \in Workers : work[w] = Idle
  BY DEF Init
<1>2. Total(spent) \in Nat
  BY InitTyped, TotalGrows
<1>3. \A w \in Workers : Short(work[w]) /\ work[w].attempt <= Total(spent) + 1
  BY <1>1, <1>2 DEF Short, Idle
<1>4. \A c \in Chunks : ~(c < next)
  BY ChunkBounds DEF Init
<1> QED BY <1>1, <1>3, <1>4, IdleTypes DEF Init, FutileInv

(* As long as fewer requests went wrong than there are attempts and the    *)
(* run is not ended from outside, a window is reported missing only if it  *)
(* holds too many rows and cannot be divided (fetchExtractionChunk).       *)
THEOREM Futility == Spec => []OnlyFutile
<1>1. Init => FutileInv
  BY InitFutile
<1>2. OnceInv /\ FutileInv /\ [Next]_vars => FutileInv'
  BY FutileKept
<1>3. FutileInv => OnlyFutile
  BY DEF FutileInv, OnlyFutile, Quiet, Futile, Fits
<1> QED BY <1>1, <1>2, <1>3, Once, PTL DEF Spec
=============================================================================
