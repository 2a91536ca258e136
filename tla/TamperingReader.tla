--------------------------- MODULE TamperingReader ---------------------------
(***************************************************************************)
(* How the tampering events of a window are read, tampering_events.go: an  *)
(* asynchronous collection first, then synchronous requests on ever        *)
(* smaller ranges, every request paced by the limiter that all PCE calls   *)
(* share (apiRateController in main.go) and all within one deadline.       *)
(* Other callers of the PCE (apiCallRawWithClient) take turns at the       *)
(* limiter.  The PCE is external.                                          *)
(***************************************************************************)
EXTENDS Integers, Sequences, FiniteSets, FiniteSetsExt

CONSTANTS
  Callers,      \* goroutines that call the PCE otherwise
  Span,         \* instants of the window
  Limit,        \* tamperingSyncLimit
  MaxAttempts,  \* of one request, 5 in the code
  LowRate, HighRate,  \* requests per minute that can be configured, 120 to 490
  Floor,        \* minimumAPIRPMOnThrottle
  Cost,         \* what a request takes of the bucket
  Drop, Gain,   \* what a 429 takes of the rate, and a recovery gives back
  Settle, Every,      \* time to the first and to the next recovery
  MinWait, MaxWait,   \* a back-off lasts this long
  Delays,       \* what Retry-After asks for
  Modes         \* what to consider, see mode

Instants == 0 .. Span - 1
(* A 429 with its Retry-After, 502 to 504, any other failure of a request, *)
(* a body cut off, an event without its workload, Prefer ignored, a job    *)
(* not done yet or failed, a link outside the PCE, a new configuration.    *)
Troubles == {"busy", "down", "failed", "cut", "bare", "ignored", "pending", "job", "unsafe",
             "configured"}

ASSUME SizesAssumption ==
  /\ {Span, Limit, MaxAttempts, Floor, Cost, LowRate} \subseteq Nat \ {0}
  /\ {HighRate, Drop, Gain, Settle, Every, MinWait, MaxWait} \subseteq Nat
  /\ LowRate <= HighRate /\ MinWait <= MaxWait /\ Delays \subseteq Nat
ASSUME ModesAssumption ==
  \A m \in Modes : /\ IsFiniteSet(m.events) /\ \A e \in m.events : e.at \in Instants
                   /\ m.may \subseteq Troubles
                   /\ {m.calls, m.most, m.deadline} \subseteq Nat
                   /\ m.burst \in Nat /\ m.burst >= Cost

VARIABLES
  mode,    \* the events of the window at the PCE, the end of the reader's
           \* context, the limiter's burst, the troubles to meet, how many of
           \* them and how many calls of the other callers (bounds)
  now,
  limit,   \* apiRateLimiter
  used,    \* cycleUsed
  ideal,   \* history: the most that may be asked, and the last back-off told
  call,    \* each other caller
  calls,   \* calls begun by them
  reader,  \* tamperingEventReader
  got,     \* events retained, and those of them with a workload
  spent    \* the troubles met, of each kind

pce == <<mode, spent>>
bucket == <<limit, used, ideal>>
others == <<call, calls>>
reading == <<reader, got>>
vars == <<pce, now, bucket, others, reading>>

-----------------------------------------------------------------------------
Least(a, b) == IF a < b THEN a ELSE b
Most(a, b) == IF a < b THEN b ELSE a

Total(fn) == Cardinality(UNION {{k} \X (1 .. fn[k]) : k \in DOMAIN fn})
Meet(what) ==
  /\ what \subseteq mode.may /\ Total(spent) + Cardinality(what) <= mode.most
  /\ spent' = [x \in Troubles |-> IF x \in what THEN spent[x] + 1 ELSE spent[x]]
  /\ UNCHANGED mode

-----------------------------------------------------------------------------
(* The limiter *)

(* normalizeAPIMinRPM.                                                     *)
Lowest(target) == Least(Floor, target)

(* applyConfig, at the start of a cycle and when the file changed.         *)
Configure(target) ==
  /\ target # limit.target /\ Meet({"configured"})
  /\ limit' = [limit EXCEPT !.target = target,
                            !.rate = Most(Least(@, target), Lowest(target))]
  /\ UNCHANGED <<now, used, ideal, others, reading>>

(* refillLocked.                                                           *)
Refilled ==
  LET recovers == limit.rate < limit.target /\ now > limit.recover
      rate == IF recovers THEN Least(limit.rate + Gain, limit.target) ELSE limit.rate
  IN  IF now = limit.refilled THEN limit
      ELSE [limit EXCEPT !.rate = rate, !.refilled = now,
                         !.recover = IF recovers THEN now + Every ELSE @,
                         !.tokens = Least(@ + (now - limit.refilled) * rate, mode.burst)]

(* waitTurn and waitTamperingTurn refill, then take a turn or sleep.       *)
Free == now >= limit.backoff /\ Refilled.tokens >= Cost
Missing == Cost - Refilled.tokens
SleepUntil ==
  IF now < limit.backoff THEN limit.backoff
  ELSE now + (Missing + Refilled.rate - 1) \div Refilled.rate
Granted ==
  /\ limit' = [Refilled EXCEPT !.tokens = @ - Cost]
  /\ used' = used + 1
  /\ ideal' = [ideal EXCEPT !.bucket = @ - Cost]

(* Faulty: the last 429 decides.                                           *)
NoteRateLimitLast(delay) ==
  LET wait == Least(Most(delay, MinWait), MaxWait) IN
  /\ limit' = [limit EXCEPT !.rate = Most(@ - Drop, Lowest(limit.target)),
                            !.backoff = now + wait, !.recover = now + wait + Settle]
  /\ ideal' = [ideal EXCEPT !.held = Most(@, now + wait)]
  /\ UNCHANGED used

(* Faulty: the rate may fall below the least.                              *)
NoteRateLimitFree(delay) ==
  LET wait == Least(Most(delay, MinWait), MaxWait) IN
  /\ limit' = [limit EXCEPT !.rate = Most(@ - Drop, 1),
                            !.backoff = Most(@, now + wait), !.recover = now + wait + Settle]
  /\ ideal' = [ideal EXCEPT !.held = Most(@, now + wait)]
  /\ UNCHANGED used

(* noteRateLimit: 429.                                                     *)
NoteRateLimit(delay) ==
  LET wait == Least(Most(delay, MinWait), MaxWait) IN
  /\ limit' = [limit EXCEPT !.rate = Most(@ - Drop, Lowest(limit.target)),
                            !.backoff = Most(@, now + wait), !.recover = now + wait + Settle]
  /\ ideal' = [ideal EXCEPT !.held = Most(@, now + wait)]
  /\ UNCHANGED used

-----------------------------------------------------------------------------
(* apiCallRawWithClient *)

Idle == [pc |-> "idle", attempt |-> 0, wake |-> 0]

Begin(c) ==
  /\ call[c].pc = "idle" /\ calls < mode.calls
  /\ calls' = calls + 1
  /\ call' = [call EXCEPT ![c] = [pc |-> "turn", attempt |-> 1, wake |-> now]]
  /\ UNCHANGED <<pce, now, bucket, reading>>

WaitTurn(c) ==
  /\ call[c].pc = "turn" /\ now >= call[c].wake
  /\ IF Free THEN Granted /\ call' = [call EXCEPT ![c].pc = "sent"]
     ELSE /\ limit' = Refilled /\ UNCHANGED <<used, ideal>>
          /\ call' = [call EXCEPT ![c].wake = SleepUntil]
  /\ UNCHANGED <<pce, now, calls, reading>>

(* An answer or a failure; only a 429 is tried again.                      *)
Returned(c) ==
  /\ call[c].pc = "sent"
  /\ call' = [call EXCEPT ![c] = Idle]
  /\ UNCHANGED <<pce, now, bucket, calls, reading>>

Limited(c, delay) ==
  /\ call[c].pc = "sent" /\ Meet({"busy"})
  /\ NoteRateLimit(IF delay = 0 THEN 2 * call[c].attempt ELSE delay)
  /\ call' = [call EXCEPT ![c] =
       IF @.attempt = MaxAttempts THEN Idle
       ELSE [pc |-> "turn", attempt |-> @.attempt + 1, wake |-> now]]
  /\ UNCHANGED <<now, calls, reading>>

-----------------------------------------------------------------------------
(* The reader *)

(* What is being asked for: the collection, its job or result, or the      *)
(* events of the first range of todo.  A range marked late is only tried   *)
(* while there is time.                                                    *)
Stretch(from, to) == [from |-> from, to |-> to, late |-> FALSE]
In(r) == {e \in mode.events : r.from <= e.at /\ e.at <= r.to}

Expired == now >= mode.deadline
Ask(what) == [reader EXCEPT !.asks = what, !.pc = "turn", !.attempt = 1, !.wake = now]
Over(partial) == [reader EXCEPT !.asks = "none", !.pc = "over", !.partial = partial]

(* fetch: without the collection, range by range.                          *)
Fallback ==
  IF Expired THEN Over(TRUE)
  ELSE [reader EXCEPT !.asks = "range", !.pc = "visit", !.todo = <<Stretch(0, Span - 1)>>]
Proceed(ranges, failed) ==
  [reader EXCEPT !.pc = "visit", !.todo = ranges \o Tail(@), !.failed = @ \/ failed]
Failed == IF reader.asks = "range" THEN Proceed(<<>>, TRUE) ELSE Fallback

Init ==
  /\ mode \in Modes /\ spent = [what \in Troubles |-> 0] /\ now = 0
  /\ limit \in {[target |-> t, rate |-> t, tokens |-> mode.burst, refilled |-> 0, recover |-> 0,
                 backoff |-> 0] : t \in LowRate .. HighRate}
  /\ used = 0 /\ ideal = [bucket |-> mode.burst, held |-> 0]
  /\ call = [c \in Callers |-> Idle] /\ calls = 0
  /\ reader = [asks |-> "collection", pc |-> "turn", attempt |-> 1, wake |-> 0, todo |-> <<>>,
               failed |-> FALSE, partial |-> FALSE]
  /\ got = [all |-> {}, named |-> {}]

(* Faulty: a wait for a turn does not see the deadline.                    *)
ReaderTurnBlind ==
  /\ reader.pc = "turn" /\ now >= reader.wake
  /\ IF Free THEN Granted /\ reader' = [reader EXCEPT !.pc = "sent"]
     ELSE /\ limit' = Refilled /\ UNCHANGED <<used, ideal>>
          /\ reader' = [reader EXCEPT !.wake = SleepUntil]
  /\ UNCHANGED <<pce, now, others, got>>

(* open.                                                                   *)
ReaderTurn ==
  /\ reader.pc = "turn"
  /\ \/ /\ Expired /\ reader' = Failed /\ UNCHANGED bucket
     \/ /\ ~Expired /\ now >= reader.wake
        /\ IF Free THEN Granted /\ reader' = [reader EXCEPT !.pc = "sent"]
           ELSE /\ limit' = Refilled /\ UNCHANGED <<used, ideal>>
                /\ reader' = [reader EXCEPT !.wake = SleepUntil]
  /\ UNCHANGED <<pce, now, others, got>>

(* Between attempts, and before a job is looked at: as long as told.       *)
Resume ==
  /\ reader.pc = "pause"
  /\ \/ Expired /\ reader' = Failed
     \/ ~Expired /\ now >= reader.wake /\ reader' = [reader EXCEPT !.pc = "turn", !.wake = now]
  /\ UNCHANGED <<pce, now, bucket, others, got>>

Asked(what) == reader.pc = "sent" /\ reader.asks = what
Retried(delay) ==
  IF reader.attempt = MaxAttempts THEN Failed
  ELSE [reader EXCEPT !.pc = "pause", !.attempt = @ + 1, !.wake = now + delay]

ReaderLimited(delay) ==
  /\ reader.pc = "sent" /\ Meet({"busy"})
  /\ NoteRateLimit(delay)
  /\ reader' = Retried(delay)
  /\ UNCHANGED <<now, others, got>>
Unavailable(delay) ==
  /\ reader.pc = "sent" /\ Meet({"down"})
  /\ reader' = Retried(delay)
  /\ UNCHANGED <<now, bucket, others, got>>
RequestFails ==
  /\ reader.pc = "sent" /\ (IF Expired THEN UNCHANGED pce ELSE Meet({"failed"}))
  /\ reader' = Failed
  /\ UNCHANGED <<now, bucket, others, got>>

(* readEvents: each identity once, and a later workload is taken over.     *)
Retain(events, bare) ==
  got' = [all |-> got.all \cup events, named |-> got.named \cup (events \ bare)]
(* Of a response with these events: all of them, one without its workload, *)
(* or those before it was cut off; the last two are errors.                *)
Read(events, after) ==
  \/ Meet({}) /\ Retain(events, {}) /\ reader' = after
  \/ Meet({"bare"}) /\ (\E e \in events : Retain(events, {e})) /\ reader' = Failed
  \/ /\ IF Expired THEN Meet({}) ELSE Meet({"cut"})
     /\ \E some \in SUBSET events : Retain(some, {})
     /\ reader' = Failed

(* The PCE takes up the collection, or answers at once with what it likes. *)
Accepted(delay) ==
  /\ Asked("collection")
  /\ reader' = [Ask("job") EXCEPT !.pc = "pause", !.wake = now + delay]
  /\ UNCHANGED <<pce, now, bucket, others, got>>
PreferIgnored ==
  /\ Asked("collection")
  /\ \E some \in SUBSET mode.events :
       \/ Meet({"ignored"}) /\ Retain(some, {})
       \/ Meet({"ignored", "bare"}) /\ \E e \in some : Retain(some, {e})
  /\ reader' = Fallback
  /\ UNCHANGED <<now, bucket, others>>

(* readJob.                                                                *)
JobPending(delay) ==
  /\ Asked("job") /\ Meet({"pending"})
  /\ reader' = [Ask("job") EXCEPT !.pc = "pause", !.wake = now + delay]
  /\ UNCHANGED <<now, bucket, others, got>>
JobDone ==
  /\ Asked("job")
  /\ reader' = Ask("result")
  /\ UNCHANGED <<pce, now, bucket, others, got>>
JobFails ==
  /\ Asked("job") /\ Meet({"job"})
  /\ reader' = Fallback
  /\ UNCHANGED <<now, bucket, others, got>>
LinkUnsafe ==
  /\ Asked("collection") \/ Asked("job")
  /\ Meet({"unsafe"})
  /\ reader' = Over(TRUE)
  /\ UNCHANGED <<now, bucket, others, got>>
ResultRead ==
  /\ Asked("result")
  /\ Read(mode.events, Over(FALSE))
  /\ UNCHANGED <<now, bucket, others>>

(* Faulty: a range whose answer is at one instant is given up.             *)
PartsGivenUp(r, events) ==
  LET ats == {e.at : e \in events}
      middle == r.from + (r.to - r.from) \div 2
  IN  IF Cardinality(ats) = 1 THEN <<Stretch(Min(ats), Min(ats))>>
      ELSE IF middle = r.from THEN <<Stretch(r.from, r.from), Stretch(r.to, r.to)>>
      ELSE <<Stretch(r.from, middle), Stretch(middle, r.to)>>

(* Faulty: as many as the limit are taken for all.                         *)
FullOver(events) == Cardinality(events) > Limit
Full(events) == Cardinality(events) >= Limit

(* syncRange: what is left to ask for after a full answer to a range of    *)
(* several instants.                                                       *)
Parts(r, events) ==
  LET first == Min({e.at : e \in events})
      last == Max({e.at : e \in events})
      middle == r.from + (r.to - r.from) \div 2
  IN  IF first = last
      THEN (IF r.from < first THEN <<Stretch(r.from, first - 1)>> ELSE <<>>)
           \o <<Stretch(first, first)>>
           \o (IF last < r.to THEN <<[Stretch(last + 1, r.to) EXCEPT !.late = TRUE]>> ELSE <<>>)
      ELSE IF middle = r.from THEN <<Stretch(r.from, r.from), Stretch(r.to, r.to)>>
      ELSE <<Stretch(r.from, middle), Stretch(middle, r.to)>>

RangeRead ==
  /\ Asked("range")
  /\ LET r == Head(reader.todo) IN
     \E events \in SUBSET In(r) :
       /\ Cardinality(events) = Least(Cardinality(In(r)), Limit)
       /\ Read(events, IF ~Full(events) THEN Proceed(<<>>, FALSE)
                       ELSE IF r.from = r.to THEN Proceed(<<>>, TRUE)
                       ELSE Proceed(Parts(r, events), FALSE))
  /\ UNCHANGED <<now, bucket, others>>

Visit ==
  /\ reader.pc = "visit"
  /\ reader' =
       IF reader.todo = <<>> THEN Over(reader.failed \/ got.named # got.all)
       ELSE IF Expired THEN Proceed(<<>>, ~Head(reader.todo).late)
       ELSE Ask("range")
  /\ UNCHANGED <<pce, now, bucket, others, got>>

-----------------------------------------------------------------------------
Tick ==
  /\ now < mode.deadline
  /\ now' = now + 1
  /\ ideal' = [ideal EXCEPT !.bucket = Least(@ + HighRate, mode.burst)]
  /\ UNCHANGED <<pce, limit, used, others, reading>>

Call(c) ==
  \/ Begin(c) \/ WaitTurn(c) \/ Returned(c)
  \/ \E delay \in Delays : Limited(c, delay)
Collect ==
  \/ PreferIgnored \/ JobDone \/ JobFails \/ LinkUnsafe \/ ResultRead
  \/ \E delay \in Delays : Accepted(delay) \/ JobPending(delay)
Troubled ==
  \/ RequestFails
  \/ \E delay \in Delays : ReaderLimited(delay) \/ Unavailable(delay)
Next ==
  \/ Tick
  \/ \E target \in LowRate .. HighRate : Configure(target)
  \/ \E c \in Callers : Call(c)
  \/ ReaderTurn \/ Resume \/ Collect \/ Troubled \/ RangeRead \/ Visit

(* Time passes, the reader's goroutine runs, and a request on its way ends *)
(* at the latest with the context.                                         *)
Fairness ==
  /\ WF_vars(Tick)
  /\ WF_vars(ReaderTurn \/ Resume \/ Visit \/ RequestFails)
Spec == Init /\ [][Next]_vars
FairSpec == Spec /\ Fairness

-----------------------------------------------------------------------------
(* Properties *)

(* Every record has its type; the rate keeps its bounds.                   *)
TypeOK ==
  /\ mode \in Modes /\ now \in 0 .. mode.deadline /\ used \in Nat /\ calls \in 0 .. mode.calls
  /\ limit.target \in LowRate .. HighRate /\ limit.rate \in Lowest(limit.target) .. limit.target
  /\ limit.tokens \in 0 .. mode.burst /\ limit.refilled \in 0 .. now
  /\ limit.backoff \in 0 .. now + MaxWait
  /\ \A c \in Callers : /\ call[c].pc \in {"idle", "turn", "sent"}
                        /\ call[c].attempt \in 0 .. MaxAttempts
  /\ reader.pc \in {"turn", "sent", "pause", "visit", "over"}
  /\ reader.asks \in {"collection", "job", "result", "range", "none"}
  /\ reader.attempt \in 1 .. MaxAttempts
  /\ got.named \subseteq got.all /\ got.all \subseteq mode.events

(* fetch, tampering_events.go:121: an answer without an error has every    *)
(* event of the window, each with its workload, whatever was tried before  *)
(* it, however the ranges were split and whenever the deadline came.       *)
AnswerComplete ==
  reader.pc = "over" /\ ~reader.partial => got.named = mode.events

(* syncRange, tampering_events.go:257: when every request was answered in  *)
(* time, only an instant with as many events as one answer holds is        *)
(* incomplete; the rest of the window is retained.                         *)
Crowded == {t \in Instants : Cardinality({e \in mode.events : e.at = t}) >= Limit}
Answered == \A what \in Troubles \ {"ignored", "pending", "job"} : spent[what] = 0
OnlyCrowdedMissing ==
  reader.pc = "over" /\ ~Expired /\ Answered =>
    /\ \A e \in mode.events : e.at \in Crowded \/ e \in got.named
    /\ reader.partial => Crowded # {}

(* apiRateController: whoever takes a turn, the requests of any stretch of *)
(* time are at most the burst and what the highest rate allows, and none   *)
(* is made during a back-off a 429 asked for.                              *)
RequestsPaced == [][used' # used => ideal.bucket >= Cost /\ now >= ideal.held]_vars

(* fetchTamperingEventsPaged, tampering_events.go:70: the reader answers,  *)
(* however long the PCE or a back-off make it wait.                        *)
ReaderEnds == <>(reader.pc = "over")
=============================================================================
