-------------------------- MODULE ExtractionChunks --------------------------
(***************************************************************************)
(* One traffic extraction, src/internal/extractor: runExtraction cuts the  *)
(* range into chunks that workers fetch, fetchExtractionChunk retries a    *)
(* window and splits one with too many rows, FetchDayOfTraffic creates,    *)
(* polls, downloads and deletes an asynchronous query, and the CSV and its *)
(* coverage file are written with what was fetched and what is missing.    *)
(* The PCE is external.  A moment is the shortest time a window is cut at. *)
(***************************************************************************)
EXTENDS Integers, Sequences, FiniteSets, FiniteSetsExt, Functions

CONSTANTS
  Workers,      \* goroutines that fetch chunks, 3 in the code
  Span,        \* length of the requested range, in moments
  Interval,     \* chunk interval
  MaxResults,   \* more rows than this are not returned in full
  MaxDepth,     \* maxAdaptiveChunkDepth
  MinLength,    \* minAdaptiveChunkDuration
  MaxAttempts,  \* maxChunkAttempts
  MaxCreates,   \* maxCreateAttempts
  Modes,        \* what to consider, see mode
  MaxEach,      \* bound: troubles of each kind
  MaxTrouble    \* bound: all of them together

Moments == 0 .. Span - 1
(* A creation refused, a request failed, its reply lost after it was       *)
(* served, 429, an attempt out of time, a DELETE failed, a CSV or a        *)
(* coverage file not written, the run cancelled or out of time.            *)
Troubles == {"refused", "failed", "lost", "busy", "late", "undeleted", "unwritten",
             "manifest", "cancelled", "expired"}

ASSUME SizesAssumption ==
  /\ {Span, Interval, MinLength, MaxAttempts, MaxCreates} \subseteq Nat \ {0}
  /\ {MaxResults, MaxDepth, MaxEach, MaxTrouble} \subseteq Nat
ASSUME WorkersAssumption == IsFiniteSet(Workers) /\ Workers # {}
ASSUME ModesAssumption ==
  \A m \in Modes : /\ m.rows \in [Moments -> Nat] /\ m.may \subseteq Troubles
                   /\ m.old \subseteq [partial : BOOLEAN, unique : BOOLEAN]

VARIABLES
  mode,       \* the rows of each moment, the troubles to meet, and the
              \* files an earlier run left
  ctx,        \* the run's context
  next,       \* the first chunk still in the channel
  work,       \* each worker
  processed,  \* processedChunks
  completed,  \* completedWindows
  counted,    \* how often the rows of a moment were aggregated
  missing,    \* missingWindows
  whole,      \* CompletedChunks
  cooldown,   \* CooldownUntil: in force, and how often it was set
  queries,    \* asynchronous queries at the PCE
  strays,     \* history: those nobody will delete
  file,       \* what runExtraction is at, and the CSV it writes
  disk,       \* CSV files: whose they are and the moments they hold
  spent       \* the troubles met, of each kind

results == <<processed, completed, counted, missing, whole>>
output == <<file, disk>>
pce == <<queries, strays>>
vars == <<mode, ctx, next, work, results, cooldown, pce, output, spent>>

-----------------------------------------------------------------------------
Most(a, b) == IF a < b THEN b ELSE a

(* buildExtractionChunks: from the end of the range backwards.             *)
Chunks == 1 .. (Span + Interval - 1) \div Interval
ChunkEnd(c) == Span - (c - 1) * Interval
(* Faulty: the last chunk is not cut at the start of the range.            *)
ChunkStartUncut(c) == ChunkEnd(c) - Interval
ChunkStart(c) == Most(ChunkEnd(c) - Interval, 0)

Window(from, to) == [from |-> from, to |-> to]
In(window) == window.from .. window.to - 1
Rows(window) == MapThenSumSet(LAMBDA t : mode.rows[t], In(window))

Total(fn) == Cardinality(UNION {{k} \X (1 .. fn[k]) : k \in DOMAIN fn})
Meet(what) ==
  /\ what \subseteq mode.may /\ \A x \in what : spent[x] < MaxEach
  /\ Total(spent) + Cardinality(what) <= MaxTrouble
  /\ spent' = [x \in Troubles |-> IF x \in what THEN spent[x] + 1 ELSE spent[x]]

-----------------------------------------------------------------------------
(* A worker's chunk is visited from left to right: at is where it is, ends *)
(* the ends of the windows still to visit and how often each was split.    *)
(* gaps are the windows that failed; hold says whether the next request    *)
(* looked at the cooldown, since is the one it then waits for.             *)
Idle == [pc |-> "idle", chunk |-> 0, at |-> 0, ends |-> <<>>, gaps |-> {}, attempt |-> 0,
         creates |-> 0, query |-> 0, hold |-> "look", since |-> 0]
Gone == [Idle EXCEPT !.pc = "gone"]
Current(w) == Window(work[w].at, Head(work[w].ends)[1])
Depth(w) == Head(work[w].ends)[2]

(* The name asked for, with _PARTIAL, and with the time of day.            *)
Name(partial, unique) == [partial |-> partial, unique |-> unique]
NoFile == Name(FALSE, FALSE)
Csv(whose, moments) == [whose |-> whose, moments |-> moments]

Init ==
  /\ mode \in Modes
  /\ ctx = "live" /\ next = 1
  /\ work = [w \in Workers |-> Idle]
  /\ processed = {} /\ completed = {} /\ missing = {} /\ whole = 0
  /\ counted = [t \in Moments |-> 0]
  /\ cooldown = [on |-> FALSE, set |-> 0]
  /\ queries = {} /\ strays = {}
  /\ file = [pc |-> "fetch", name |-> NoFile, partial |-> FALSE, cancelled |-> FALSE]
  /\ disk = [name \in mode.old |-> Csv("earlier", {})]
  /\ spent = [what \in Troubles |-> 0]

(* handleCancel or a cancelled template run; the overall deadline.         *)
EndContext(how) ==
  /\ ctx = "live" /\ file.pc # "over" /\ Meet({how})
  /\ ctx' = how
  /\ UNCHANGED <<mode, next, work, results, cooldown, pce, output>>

(* A worker takes the next chunk, unless the context ended: then it leaves *)
(* and the chunk is lost to the others.                                    *)
Take(w) ==
  /\ work[w].pc = "idle" /\ next \in Chunks
  /\ next' = next + 1
  /\ work' = [work EXCEPT ![w] =
       IF ctx # "live" THEN Gone
       ELSE [Idle EXCEPT !.pc = "visit", !.chunk = next, !.at = ChunkStart(next),
                         !.ends = <<<<ChunkEnd(next), 0>>>>]]
  /\ UNCHANGED <<mode, ctx, results, cooldown, pce, output, spent>>

Leave(w) ==
  /\ work[w].pc = "idle" /\ next \notin Chunks
  /\ work' = [work EXCEPT ![w] = Gone]
  /\ UNCHANGED <<mode, ctx, next, results, cooldown, pce, output, spent>>

(* Faulty: a later window's failure replaces that of its sibling.          *)
AdvancedForgets(w, gaps) ==
  LET rest == Tail(work[w].ends) IN
  [Idle EXCEPT !.pc = IF rest = <<>> THEN "done" ELSE "visit", !.chunk = work[w].chunk,
               !.at = Current(w).to, !.ends = rest, !.gaps = gaps]

(* The next window, when one succeeded or failed.                          *)
Advanced(w, gaps) ==
  LET rest == Tail(work[w].ends) IN
  [Idle EXCEPT !.pc = IF rest = <<>> THEN "done" ELSE "visit", !.chunk = work[w].chunk,
               !.at = Current(w).to, !.ends = rest, !.gaps = work[w].gaps \cup gaps]
WithoutWindow(w) == Advanced(w, {Current(w)})

Visit(w) ==
  /\ work[w].pc = "visit"
  /\ work' = [work EXCEPT ![w] =
       IF ctx # "live" THEN WithoutWindow(w)
       ELSE [@ EXCEPT !.pc = "create", !.attempt = 1, !.creates = 1]]
  /\ UNCHANGED <<mode, ctx, next, results, cooldown, pce, output, spent>>

(* The chunk is through: its gaps are missing.                             *)
Finish(w) ==
  /\ work[w].pc = "done"
  /\ processed' = processed \cup {work[w].chunk}
  /\ missing' = missing \cup work[w].gaps
  /\ whole' = whole + (IF work[w].gaps = {} THEN 1 ELSE 0)
  /\ work' = [work EXCEPT ![w] = Idle]
  /\ UNCHANGED <<mode, ctx, next, completed, counted, cooldown, pce, output, spent>>

-----------------------------------------------------------------------------
(* Requests *)

InFetch(w) == work[w].pc \in {"create", "poll", "download"}

(* openResponseWithClient looks once at the cooldown every worker shares.  *)
Look(w) ==
  /\ InFetch(w) /\ work[w].hold = "look" /\ ctx = "live"
  /\ work' = [work EXCEPT ![w].hold = IF cooldown.on THEN "wait" ELSE "go",
                          ![w].since = IF cooldown.on THEN cooldown.set ELSE 0]
  /\ UNCHANGED <<mode, ctx, next, results, cooldown, pce, output, spent>>

(* Faulty: it waits for the end of the cooldown it saw only.               *)
WaitOverExact(w) ==
  /\ InFetch(w) /\ work[w].hold = "wait" /\ ctx = "live"
  /\ ~cooldown.on /\ work[w].since = cooldown.set
  /\ work' = [work EXCEPT ![w].hold = "go", ![w].since = 0]
  /\ UNCHANGED <<mode, ctx, next, results, cooldown, pce, output, spent>>

(* It waits for the end it saw, not for one set later.                     *)
WaitOver(w) ==
  /\ InFetch(w) /\ work[w].hold = "wait" /\ ctx = "live"
  /\ ~cooldown.on \/ work[w].since < cooldown.set
  /\ work' = [work EXCEPT ![w].hold = "go", ![w].since = 0]
  /\ UNCHANGED <<mode, ctx, next, results, cooldown, pce, output, spent>>

CooldownOver ==
  /\ cooldown.on
  /\ cooldown' = [cooldown EXCEPT !.on = FALSE]
  /\ UNCHANGED <<mode, ctx, next, work, results, pce, output, spent>>

(* What fetchExtractionChunk does with an error.                           *)
Retried(w) ==
  IF ctx # "live" \/ work[w].attempt = MaxAttempts THEN WithoutWindow(w)
  ELSE [work[w] EXCEPT !.pc = "create", !.attempt = @ + 1, !.creates = 1, !.query = 0,
                       !.hold = "look", !.since = 0]

Midpoint(window) == window.from + (window.to - window.from) \div 2

(* Faulty: the last level is not used.                                     *)
DivisibleLess(window, depth) ==
  /\ depth < MaxDepth - 1
  /\ Midpoint(window) - window.from >= MinLength /\ window.to - Midpoint(window) >= MinLength
Divisible(window, depth) ==
  /\ depth < MaxDepth
  /\ Midpoint(window) - window.from >= MinLength /\ window.to - Midpoint(window) >= MinLength
Split(w) ==
  LET depth == Depth(w) + 1
      window == Current(w)
  IN  [Idle EXCEPT !.pc = "visit", !.chunk = work[w].chunk, !.at = window.from,
                   !.ends = <<<<Midpoint(window), depth>>, <<window.to, depth>>>>
                            \o Tail(work[w].ends),
                   !.gaps = work[w].gaps]
Truncated(w) ==
  IF ctx = "live" /\ Divisible(Current(w), Depth(w)) THEN Split(w) ELSE WithoutWindow(w)

(* Faulty: the DELETE waits for the cooldown until its own deadline.       *)
ReturnHeld(w, after, troubles) ==
  /\ Meet(troubles)
  /\ work' = [work EXCEPT ![w] = after]
  /\ queries' = IF cooldown.on THEN queries ELSE queries \ {work[w].query}
  /\ UNCHANGED strays

(* FetchDayOfTraffic returns: its deferred DELETE goes out once, whatever  *)
(* the cooldown says.                                                      *)
Return(w, after, troubles) ==
  \E kept \in SUBSET {"undeleted"} :
    /\ Meet(troubles \cup kept)
    /\ kept = {} \/ work[w].query # 0
    /\ work' = [work EXCEPT ![w] = after]
    /\ queries' = IF kept = {} THEN queries \ {work[w].query} ELSE queries
    /\ strays' = IF kept = {} THEN strays ELSE strays \cup {work[w].query}

Limited == cooldown' = [on |-> TRUE, set |-> cooldown.set + 1]
Asked(w, pc) == work[w].pc = pc /\ work[w].hold = "go"
NewQuery == CHOOSE q \in 1 .. Cardinality(queries) + 1 : q \notin queries

Created(w) ==
  /\ Asked(w, "create")
  /\ queries' = queries \cup {NewQuery}
  /\ work' = [work EXCEPT ![w].pc = "poll", ![w].query = NewQuery, ![w].hold = "look"]
  /\ UNCHANGED <<mode, ctx, next, results, cooldown, strays, output, spent>>

Refused(w) ==
  /\ Asked(w, "create")
  /\ Return(w, Retried(w), {"refused"})
  /\ UNCHANGED <<mode, ctx, next, results, cooldown, output>>

(* Any other failure is tried again; a query whose reply was lost stays.   *)
CreateFails(w, how) ==
  /\ Asked(w, "create") /\ Meet({how})
  /\ work' = [work EXCEPT ![w] =
       IF work[w].creates = MaxCreates THEN Retried(w)
       ELSE [work[w] EXCEPT !.creates = @ + 1, !.hold = "look"]]
  /\ IF how = "lost" THEN queries' = queries \cup {NewQuery} /\ strays' = strays \cup {NewQuery}
                     ELSE UNCHANGED pce
  /\ IF how = "busy" THEN Limited ELSE UNCHANGED cooldown
  /\ UNCHANGED <<mode, ctx, next, results, output>>

(* The query completed: MatchesCount is compared with MaxResults.  A poll  *)
(* that tells nothing new is repeated.                                     *)
Completed(w) ==
  /\ Asked(w, "poll")
  /\ IF Rows(Current(w)) > MaxResults THEN Return(w, Truncated(w), {})
     ELSE /\ work' = [work EXCEPT ![w].pc = "download", ![w].hold = "look"]
          /\ UNCHANGED <<pce, spent>>
  /\ UNCHANGED <<mode, ctx, next, results, cooldown, output>>

QueryFails(w) ==
  /\ Asked(w, "poll")
  /\ Return(w, Retried(w), {"failed"})
  /\ UNCHANGED <<mode, ctx, next, results, cooldown, output>>

PollLimited(w) ==
  /\ Asked(w, "poll") /\ Meet({"busy"}) /\ Limited
  /\ work' = [work EXCEPT ![w].hold = "look"]
  /\ UNCHANGED <<mode, ctx, next, results, pce, output>>

(* The rows are kept even when the context ended meanwhile.                *)
Commit(window) ==
  /\ completed' = completed \cup {window}
  /\ counted' = [t \in Moments |-> IF t \in In(window) THEN counted[t] + 1 ELSE counted[t]]
Downloaded(w) ==
  /\ Asked(w, "download")
  /\ Commit(Current(w))
  /\ Return(w, Advanced(w, {}), {})
  /\ UNCHANGED <<mode, ctx, next, processed, missing, whole, cooldown, output>>

DownloadFails(w, how) ==
  /\ Asked(w, "download")
  /\ Return(w, Retried(w), {how})
  /\ IF how = "busy" THEN Limited ELSE UNCHANGED cooldown
  /\ UNCHANGED <<mode, ctx, next, results, output>>

(* maxChunkQueryTime passes.                                               *)
Late(w) ==
  /\ InFetch(w) /\ ctx = "live"
  /\ Return(w, Retried(w), {"late"})
  /\ UNCHANGED <<mode, ctx, next, results, cooldown, output>>

(* The run's context ends what waits or is on its way; a POST may have     *)
(* been served.                                                            *)
Abort(w) ==
  /\ InFetch(w) /\ ctx # "live"
  /\ \/ Return(w, WithoutWindow(w), {})
     \/ /\ Asked(w, "create")
        /\ queries' = queries \cup {NewQuery} /\ strays' = strays \cup {NewQuery}
        /\ work' = [work EXCEPT ![w] = WithoutWindow(w)]
        /\ UNCHANGED spent
  /\ UNCHANGED <<mode, ctx, next, results, cooldown, output>>

-----------------------------------------------------------------------------
(* The CSV *)

(* Once every worker is gone.                                              *)
Assess ==
  /\ file.pc = "fetch" /\ \A w \in Workers : work[w].pc = "gone"
  /\ missing' = missing \cup {Window(ChunkStart(c), ChunkEnd(c)) : c \in Chunks \ processed}
  /\ file' = [pc |-> IF completed = {} THEN "over" ELSE "create", name |-> NoFile,
               partial |-> missing' # {}, cancelled |-> ctx = "cancelled"]
  /\ UNCHANGED <<mode, ctx, next, work, processed, completed, counted, whole, cooldown, pce,
                 disk, spent>>

Over(name, cancelled) ==
  file' = [file EXCEPT !.pc = "over", !.name = name, !.cancelled = cancelled]

(* Faulty: the name is used although the file is there.                    *)
CreateFileOver ==
  /\ file.pc = "create"
  /\ LET name == Name(file.partial, FALSE) IN
     \/ /\ Meet({}) /\ file' = [file EXCEPT !.pc = "write", !.name = name]
        /\ disk' = [x \in DOMAIN disk \cup {name} |->
                      IF x = name THEN Csv("unfinished", {}) ELSE disk[x]]
     \/ Meet({"unwritten"}) /\ Over(NoFile, FALSE) /\ UNCHANGED disk
  /\ UNCHANGED <<mode, ctx, next, work, results, cooldown, pce>>

(* A file that is there already is never overwritten; a second name that   *)
(* is taken too is an error.                                               *)
CreateFile ==
  /\ file.pc = "create"
  /\ LET name == Name(file.partial, Name(file.partial, FALSE) \in DOMAIN disk) IN
     \/ /\ name \notin DOMAIN disk /\ Meet({})
        /\ file' = [file EXCEPT !.pc = "write", !.name = name]
        /\ disk' = [x \in DOMAIN disk \cup {name} |->
                      IF x = name THEN Csv("unfinished", {}) ELSE disk[x]]
     \/ /\ Meet(IF name \in DOMAIN disk THEN {} ELSE {"unwritten"})
        /\ Over(NoFile, FALSE) /\ UNCHANGED disk
  /\ UNCHANGED <<mode, ctx, next, work, results, cooldown, pce>>

WriteFile ==
  /\ file.pc = "write"
  /\ \/ /\ Meet({}) /\ file' = [file EXCEPT !.pc = "manifest"]
        /\ disk' = [disk EXCEPT ![file.name] = Csv("run", {t \in Moments : counted[t] > 0})]
     \/ /\ Meet({"unwritten"}) /\ Over(NoFile, FALSE)
        /\ disk' = Restrict(disk, DOMAIN disk \ {file.name})
  /\ UNCHANGED <<mode, ctx, next, work, results, cooldown, pce>>

(* The coverage file, or a warning; then the run is marked finished.       *)
WriteManifest ==
  /\ file.pc = "manifest"
  /\ Meet({}) \/ Meet({"manifest"})
  /\ Over(file.name, file.cancelled)
  /\ UNCHANGED <<mode, ctx, next, work, results, cooldown, pce, disk>>

-----------------------------------------------------------------------------
Fetch(w) ==
  \/ Created(w) \/ Completed(w) \/ Downloaded(w) \/ Abort(w)
  \/ Look(w) \/ WaitOver(w)
Work(w) == Take(w) \/ Leave(w) \/ Visit(w) \/ Finish(w) \/ Fetch(w)
Save == Assess \/ CreateFile \/ WriteFile \/ WriteManifest
Fails(w) ==
  \/ Refused(w) \/ QueryFails(w) \/ PollLimited(w) \/ Late(w)
  \/ \E how \in {"failed", "lost", "busy"} : CreateFails(w, how)
  \/ \E how \in {"failed", "busy"} : DownloadFails(w, how)

Next ==
  \/ \E w \in Workers : Work(w) \/ Fails(w)
  \/ \E how \in {"cancelled", "expired"} : EndContext(how)
  \/ CooldownOver \/ Save

(* Every goroutine runs, a query at the PCE completes, fails or is late,   *)
(* and the 60 s of a cooldown pass.                                        *)
Fairness ==
  /\ \A w \in Workers : WF_vars(Work(w))
  /\ WF_vars(CooldownOver) /\ WF_vars(Save)
Spec == Init /\ [][Next]_vars
FairSpec == Spec /\ Fairness

-----------------------------------------------------------------------------
(* Properties *)

(* Every record has its type.                                              *)
Windows == [from : 0 .. Span, to : 0 .. Span]
TypeOK ==
  /\ mode \in Modes /\ ctx \in {"live", "cancelled", "expired"}
  /\ next \in Nat \ {0} /\ whole \in Nat
  /\ processed \subseteq Chunks /\ completed \subseteq Windows /\ missing \subseteq Windows
  /\ counted \in [Moments -> Nat]
  /\ \A w \in Workers :
       /\ work[w].pc \in {"idle", "visit", "create", "poll", "download", "done", "gone"}
       /\ work[w].at \in 0 .. Span /\ work[w].gaps \subseteq Windows
       /\ \A i \in 1 .. Len(work[w].ends) : work[w].ends[i] \in (0 .. Span) \X (0 .. MaxDepth)
       /\ work[w].attempt \in 0 .. MaxAttempts /\ work[w].creates \in 0 .. MaxCreates
  /\ strays \subseteq queries

(* Where a moment of the range is: aggregated, in a window that failed, or *)
(* in a chunk not finished, where its worker has not come to it.           *)
Places(t) ==
  {<<"counted", n>> : n \in 1 .. counted[t]}
    \cup {<<"missing", x>> : x \in {y \in missing : t \in In(y)}}
    \cup (UNION {{<<"failed", x>> : x \in {y \in work[w].gaps : t \in In(y)}} : w \in Workers})
    \cup {<<"pending", c>> : c \in {d \in Chunks :
            /\ ChunkStart(d) <= t /\ t < ChunkEnd(d)
            /\ d \notin processed /\ file.pc = "fetch"
            /\ \A w \in Workers : work[w].chunk = d => t >= work[w].at}}

(* Extraction, README.md:144: whatever is split, retried, cancelled or     *)
(* abandoned, each moment's rows are aggregated once or reported missing   *)
(* once, never both and never neither.                                     *)
EachMomentOnce == \A t \in Moments : Cardinality(Places(t)) = 1

(* A CSV without _PARTIAL in its name covers the whole range and one with  *)
(* it does not; it holds what was aggregated; the files of earlier runs    *)
(* stay, and no unfinished one is left (runExtraction).                    *)
FileTells ==
  /\ \A name \in mode.old : name \in DOMAIN disk /\ disk[name].whose = "earlier"
  /\ \A name \in DOMAIN disk :
       /\ disk[name].whose = "run" =>
            /\ disk[name].moments = UNION {In(x) : x \in completed}
            /\ name.partial <=> disk[name].moments # Moments
       /\ disk[name].whose = "unfinished" => file.pc = "write" /\ file.name = name

(* The PCE holds the queries being worked on and those whose creation was  *)
(* never acknowledged or whose DELETE failed: every other one is deleted   *)
(* (FetchDayOfTraffic).                                                    *)
QueriesDeleted == queries = strays \cup ({work[w].query : w \in Workers} \ {0})

PowerOfTwo[n \in Nat] == IF n = 0 THEN 1 ELSE 2 * PowerOfTwo[n - 1]

(* Without a cancellation, a window is missing only when it holds too many *)
(* rows and cannot be divided, unless as many requests went wrong as there *)
(* are attempts (fetchExtractionChunk).                                    *)
OnlyFutile ==
  Total(spent) < MaxAttempts /\ ctx = "live" =>
    \A x \in missing :
      /\ Rows(x) > MaxResults
      /\ \/ x.to - x.from < 2 * MinLength
         \/ (x.to - x.from - 1) * PowerOfTwo[MaxDepth] < Interval

(* The run ends, whatever fails and however often the PCE limits the rate, *)
(* once every query completes, fails or is given up after                  *)
(* maxChunkQueryTime: no worker waits for ever behind another's cooldown.  *)
RunEnds == <>(file.pc = "over")
=============================================================================
