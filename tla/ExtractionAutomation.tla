------------------------ MODULE ExtractionAutomation ------------------------
(***************************************************************************)
(* The scheduled reports of the traffic extractor                          *)
(* (internal/extractor/automation.go): templates with schedules, the       *)
(* history of runs, the channel that hands runs to the one worker, and the *)
(* extraction state the worker shares with the extractor's own pages.      *)
(*                                                                         *)
(* The scheduler, the recovery of queued runs at start, the worker, the    *)
(* extraction and the HTTP handlers interleave; AutomationManager.mu       *)
(* protects the store, ExtractionState.Mu the extraction state, and nothing*)
(* protects what is read from one and used under the other.                *)
(*                                                                         *)
(* Run ids are fresh and the code prepends, so that the newest run is the  *)
(* one with the greatest id and the history needs no order of its own.     *)
(***************************************************************************)
EXTENDS Integers, FiniteSets, Sequences

CONSTANTS
  Templates,     \* template ids
  Policies,      \* settings a template can have, see Policy
  HistoryLimit,  \* maxAutomationRuns
  QueueSize,     \* capacity of the queue channel
  CancelFrom,    \* statuses operators cancel runs in: subset of Active
  LateFaults,    \* may a save fail after it replaced the file: BOOLEANs
  None,          \* model value: nothing, nobody
  Manual,        \* model value: an extraction started from the page
  Dataset,       \* model value: a loaded dataset or imported CSV set
  MaxRuns,       \* bound: runs queued
  MaxDue,        \* bound: times a schedule falls due
  MaxEdits,      \* bound: templates saved or deleted
  MaxManual,     \* bound: extractions started from the page
  MaxLoads,      \* bound: datasets loaded, CSV sets imported
  MaxCancels,    \* bound: cancellations
  MaxFaults,     \* bound: failed saves of automation.json
  MaxCrashes,    \* bound: process restarts
  MaxTrouble     \* bound: all of these together, the runs queued left out

(* skip: OverlapPolicy "skip"; runOnce: MissedRunPolicy "run_once";        *)
(* notify: AlertPolicy.DeliverOnFailure                                    *)
Policy == [skip : BOOLEAN, runOnce : BOOLEAN, notify : BOOLEAN]
Runs == 1 .. MaxRuns
Active == {"queued", "running"}

ASSUME AutomationAssumption ==
  /\ Policies \subseteq Policy /\ CancelFrom \subseteq Active
  /\ LateFaults \subseteq BOOLEAN
  /\ HistoryLimit \in Nat \ {0} /\ QueueSize \in Nat
  /\ {MaxRuns, MaxDue, MaxEdits, MaxManual, MaxLoads, MaxCancels, MaxFaults,
      MaxCrashes, MaxTrouble} \subseteq Nat
  /\ None \notin Templates
  /\ {None, Manual, Dataset} \cap Nat = {} /\ None # Manual /\ None # Dataset

VARIABLES
  data,       \* manager.data: templates and runs, None for those absent
  disk,       \* automation.json
  queue,      \* the queue channel
  waiting,    \* runs whose goroutine waits for room in the channel
  recovery,   \* recoverQueuedRuns: stage "scan" | "send" | "done", ids left
  scheduler,  \* startup: its first pass is yet to come; due: still to queue
  worker,     \* stage "idle" | "wait" | "begin" | "mark" | "run" | "send" |
              \* "record", the run, the message
  extraction, \* owner: who holds CancelFunc; stage "fetch" | "write";
              \* stopped: its context is cancelled; got: windows fetched
  result,     \* FileName, IsPartial or FailedChunks or RunError, IsCancelled
  canceller,  \* cancelQueuedRun between its two locks
  output,     \* the CSV an extraction left: "none" | "partial" | "full"
  sent,       \* messages that went out: "report" | "failure" (external)
  issued,     \* run ids used
  spent       \* how much of each bound has been used

storeVars == <<data, disk>>
handVars == <<queue, waiting>>
stateVars == <<extraction, result>>
goVars == <<recovery, scheduler, worker, canceller>>
vars == <<storeVars, handVars, goVars, stateVars, output, sent, issued, spent>>

-----------------------------------------------------------------------------
Troubles == spent.due + spent.edits + spent.manual + spent.loads + spent.cancels
              + spent.faults + spent.crashes
Spend(bounds) ==
  /\ Troubles + Cardinality(bounds) <= MaxTrouble
  /\ spent' = [b \in DOMAIN spent |->
                 IF b \in bounds THEN spent[b] + 1 ELSE spent[b]]
Fault == spent.faults < MaxFaults /\ Spend({"faults"})

(* saveLocked: writePrivateJSON can fail before replacing the file, or     *)
(* after it (the last chmod).                                              *)
SaveFails(new) ==
  /\ Fault
  /\ \E late \in LateFaults : disk' = IF late THEN new ELSE disk

(* Callers that ignore the error keep the change in memory.                *)
Persist(new) ==
  /\ data' = new
  /\ \/ disk' = new /\ UNCHANGED spent
     \/ SaveFails(new)

SetRun(r, run) == [data EXCEPT !.runs[r] = run]
SetStatus(r, status) == [data EXCEPT !.runs[r].status = status]
SetTemplate(t, template) == [data EXCEPT !.templates[t] = template]

Present(runs) == {r \in Runs : runs[r] # None}
Status(r) == IF data.runs[r] = None THEN "absent" ELSE data.runs[r].status
IsActive(r) == Status(r) \in Active

(* trimRunsLocked keeps the newest maxAutomationRuns.                      *)
Newer(runs, r) == {s \in Present(runs) : s > r}
Trim(runs) ==
  [r \in Runs |-> IF Cardinality(Newer(runs, r)) < HistoryLimit THEN runs[r]
                  ELSE None]

NewRun(t) == [template |-> t, status |-> "queued", file |-> None]

(* Faulty: a queued job is not an overlap.                                 *)
AlreadyRunning(t) ==
  \E r \in Runs : Status(r) = "running" /\ data.runs[r].template = t

AlreadyActive(t) == \E r \in Runs : IsActive(r) /\ data.runs[r].template = t

(* queueRun refuses a template that is gone or, if it skips overlaps, one  *)
(* that has a queued or running job.                                       *)
Refused(t) ==
  \/ data.templates[t] = None
  \/ data.templates[t].policy.skip /\ AlreadyActive(t)

(* Faulty: the send does not look for room; what finds none is dropped.    *)
SendAnyway(r) == queue' = Append(queue, r) /\ UNCHANGED waiting
SendOrDrop(r) ==
  /\ queue' = IF Len(queue) < QueueSize THEN Append(queue, r) ELSE queue
  /\ UNCHANGED waiting

(* A send that finds the channel full is left to a goroutine.              *)
Send(r) ==
  IF Len(queue) < QueueSize
  THEN queue' = Append(queue, r) /\ UNCHANGED waiting
  ELSE waiting' = waiting \cup {r} /\ UNCHANGED queue

(* queueRun, accepted: the run is saved, then sent; if the save fails the  *)
(* history is restored and nothing is sent.                                *)
QueueRun(t) ==
  LET r == issued + 1
      new == [data EXCEPT !.runs = Trim([@ EXCEPT ![r] = NewRun(t)])]
  IN  /\ issued < MaxRuns /\ issued' = r
      /\ \/ data' = new /\ disk' = new /\ Send(r) /\ UNCHANGED spent
         \/ SaveFails(new) /\ UNCHANGED <<data, handVars>>

WaitingSend(r) ==
  /\ r \in waiting /\ Len(queue) < QueueSize
  /\ queue' = Append(queue, r) /\ waiting' = waiting \ {r}
  /\ UNCHANGED <<storeVars, goVars, stateVars, output, sent, issued, spent>>

-----------------------------------------------------------------------------
(* HTTP handlers.  They are served once recovery is done: NewHandler       *)
(* returns only then.                                                      *)
Serving(what, max) == recovery.stage = "done" /\ spent[what] < max

(* Nothing refers to a template id that a new template gets.               *)
Fresh(t) ==
  /\ data.templates[t] = None /\ disk.templates[t] = None
  /\ t \notin scheduler.due
  /\ \A r \in Runs : \A store \in {data, disk} :
       store.runs[r] # None => store.runs[r].template # t

(* Handlers restore what they changed if it cannot be saved; such a request*)
(* is a fault, and counts against its own bound too.                       *)
Edit(new, what) ==
  \/ data' = new /\ disk' = new /\ Spend({what})
  \/ /\ spent.faults < MaxFaults
     /\ Spend({what, "faults"})
     /\ \E late \in LateFaults : disk' = IF late THEN new ELSE disk
     /\ UNCHANGED data

SaveTemplate(t, policy, enabled) ==
  /\ Serving("edits", MaxEdits)
  /\ data.templates[t] # None \/ Fresh(t)
  /\ Edit(SetTemplate(t, [policy |-> policy,
                          next |-> IF enabled THEN "later" ELSE "off"]), "edits")
  /\ UNCHANGED <<handVars, goVars, stateVars, output, sent, issued>>

DeleteTemplate(t) ==
  /\ Serving("edits", MaxEdits)
  /\ data.templates[t] # None
  /\ Edit(SetTemplate(t, None), "edits")
  /\ UNCHANGED <<handVars, goVars, stateVars, output, sent, issued>>

StartRun(t) ==
  /\ recovery.stage = "done"
  /\ ~Refused(t)
  /\ QueueRun(t)
  /\ UNCHANGED <<goVars, stateVars, output, sent>>

(* cancelQueuedRun of a queued run.                                        *)
CancelQueued(r) ==
  /\ Serving("cancels", MaxCancels)
  /\ Status(r) = "queued" /\ "queued" \in CancelFrom
  /\ Edit(SetStatus(r, "cancelled"), "cancels")
  /\ UNCHANGED <<handVars, goVars, stateVars, output, sent, issued>>

(* cancelQueuedRun of a running run: it looks up the status under one lock *)
(* and the extraction to cancel under another.                             *)
CancelRunning(r) ==
  /\ Serving("cancels", MaxCancels) /\ canceller = None
  /\ Status(r) = "running" /\ "running" \in CancelFrom
  /\ canceller' = r /\ Spend({"cancels"})
  /\ UNCHANGED <<storeVars, handVars, recovery, scheduler, worker, stateVars,
                 output, sent, issued>>

CancelSignal ==
  /\ canceller # None /\ canceller' = None
  /\ extraction' = IF extraction.owner = None THEN extraction
                   ELSE [extraction EXCEPT !.stopped = TRUE]
  /\ UNCHANGED <<storeVars, handVars, recovery, scheduler, worker, result,
                 output, sent, issued, spent>>

(* handleCancel: cancels whatever extraction is active.                    *)
CancelExtraction ==
  /\ Serving("cancels", MaxCancels)
  /\ extraction.owner # None
  /\ extraction' = [extraction EXCEPT !.stopped = TRUE]
  /\ result' = [result EXCEPT !.cancelled = TRUE]
  /\ Spend({"cancels"})
  /\ UNCHANGED <<storeVars, handVars, goVars, output, sent, issued>>

(* handleDatasetLoad, handleImportCSV                                      *)
LoadDataset(incomplete) ==
  /\ Serving("loads", MaxLoads) /\ Spend({"loads"})
  /\ result' = [file |-> Dataset, incomplete |-> incomplete, cancelled |-> FALSE]
  /\ UNCHANGED <<storeVars, handVars, goVars, extraction, output, sent, issued>>

-----------------------------------------------------------------------------
(* Extractions.  beginExtractionWithContext resets what the previous one   *)
(* left; the worker and the page use the same state.                       *)
NoResult == [file |-> None, incomplete |-> FALSE, cancelled |-> FALSE]
NoExtraction ==
  [owner |-> None, stage |-> "fetch", stopped |-> FALSE, got |-> "none",
   cancelled |-> FALSE]

BeginExtraction(owner) ==
  /\ extraction.owner = None
  /\ extraction' = [NoExtraction EXCEPT !.owner = owner]
  /\ result' = NoResult

StartExtraction ==
  /\ Serving("manual", MaxManual) /\ Spend({"manual"})
  /\ BeginExtraction(Manual)
  /\ UNCHANGED <<storeVars, handVars, goVars, output, sent, issued>>

(* runExtraction is under way: for a run, the worker is inside it.         *)
Extracting(stage) ==
  /\ extraction.owner # None /\ extraction.stage = stage
  /\ extraction.owner # Manual => worker.stage = "run"

markRunFinished(file, incomplete, cancelled) ==
  /\ extraction' = NoExtraction
  /\ result' = [file |-> file, incomplete |-> incomplete, cancelled |-> cancelled]

(* It ends before any window is queried: discovery failed, which may be    *)
(* for the cancellation, or the template does not fit what was discovered. *)
ExtractAbort ==
  /\ Extracting("fetch")
  /\ \E cancelled \in {FALSE, extraction.stopped} :
       markRunFinished(None, TRUE, cancelled)
  /\ UNCHANGED <<storeVars, handVars, goVars, output, sent, issued, spent>>

(* All chunks are done: IsPartial and FailedChunks are published, and      *)
(* whether the context was cancelled is noted, before the CSV is written.  *)
ExtractFetched(got) ==
  /\ Extracting("fetch")
  /\ IF got = "none" THEN markRunFinished(None, TRUE, extraction.stopped)
     ELSE /\ extraction' = [extraction EXCEPT !.stage = "write", !.got = got,
                                              !.cancelled = extraction.stopped]
          /\ result' = [result EXCEPT !.incomplete = (got = "partial")]
  /\ UNCHANGED <<storeVars, handVars, goVars, output, sent, issued, spent>>

(* The CSV is written, or cannot be; what IsPartial says is not set again. *)
ExtractWritten(ok) ==
  /\ Extracting("write")
  /\ IF ok
     THEN /\ markRunFinished(extraction.owner, result.incomplete,
                             extraction.cancelled)
          /\ output' = IF extraction.owner = Manual THEN output
                       ELSE [output EXCEPT ![extraction.owner] = extraction.got]
     ELSE markRunFinished(None, TRUE, FALSE) /\ UNCHANGED output
  /\ UNCHANGED <<storeVars, handVars, goVars, sent, issued, spent>>

-----------------------------------------------------------------------------
(* The worker: executeRun.                                                 *)
Idle == [stage |-> "idle", run |-> None, message |-> None]
GoIdle == worker' = Idle
GoTo(stage) == worker' = [worker EXCEPT !.stage = stage]
Message(kind) == worker' = [worker EXCEPT !.stage = "send", !.message = kind]

(* Faulty: what happens to a run is not saved.                             *)
UpdateUnsaved(new) ==
  /\ data' = IF data.runs[worker.run] = None THEN data ELSE new
  /\ UNCHANGED <<disk, spent>>

(* The worker changes and saves its run, unless the history dropped it.    *)
Update(new) ==
  IF data.runs[worker.run] = None THEN UNCHANGED <<storeVars, spent>>
  ELSE Persist(new)

(* The failure notice goes by the template as it is now.                   *)
NotifyOrIdle ==
  LET run == data.runs[worker.run]
  IN  IF run # None /\ data.templates[run.template] # None
         /\ data.templates[run.template].policy.notify
      THEN Message("failure")
      ELSE GoIdle

(* A run is received and looked up; only a queued one is executed.         *)
Receiving == worker.stage = "idle" /\ queue # <<>>
Executable(r) == Status(r) = "queued"
TakeRun ==
  /\ Receiving
  /\ queue' = Tail(queue) /\ UNCHANGED waiting
  /\ LET r == Head(queue)
     IN  IF ~Executable(r)
         THEN GoIdle /\ UNCHANGED <<storeVars, spent>>
         ELSE IF data.templates[data.runs[r].template] = None
         THEN GoIdle /\ Persist(SetStatus(r, "failed"))
         ELSE /\ worker' = [stage |-> "wait", run |-> r, message |-> None]
              /\ UNCHANGED <<storeVars, spent>>
  /\ UNCHANGED <<recovery, scheduler, canceller, stateVars, output, sent, issued>>

(* The wait for another extraction to end, polled.                         *)
WaitOver ==
  /\ worker.stage = "wait" /\ extraction.owner = None
  /\ GoTo("begin")
  /\ UNCHANGED <<storeVars, handVars, recovery, scheduler, canceller, stateVars,
                 output, sent, issued, spent>>

(* The extraction begins, with whatever the template was before the wait,  *)
Begin ==
  /\ worker.stage = "begin"
  /\ BeginExtraction(worker.run)
  /\ GoTo("mark")
  /\ UNCHANGED <<storeVars, handVars, recovery, scheduler, canceller, output,
                 sent, issued, spent>>

(* ... or cannot: credentials, output folder or file, or another extraction*)
(* that began since.                                                       *)
BeginFails ==
  /\ worker.stage = "begin"
  /\ Update(SetStatus(worker.run, "failed"))
  /\ NotifyOrIdle
  /\ UNCHANGED <<handVars, recovery, scheduler, canceller, stateVars, output,
                 sent, issued>>

MarkRunning ==
  /\ worker.stage = "mark"
  /\ Update(SetStatus(worker.run, "running"))
  /\ GoTo("run")
  /\ UNCHANGED <<handVars, recovery, scheduler, canceller, stateVars, output,
                 sent, issued>>

(* runExtraction has returned: the shared state says how it went, and the  *)
(* run, if the history still has it, ends accordingly.                     *)
Returned == worker.stage = "run" /\ extraction.owner # worker.run

Finish(status, file) ==
  Update(SetRun(worker.run, [data.runs[worker.run] EXCEPT
                               !.status = status, !.file = file]))

FinishCancelled ==
  /\ Returned
  /\ result.file = None /\ result.cancelled
  /\ Finish("cancelled", None)
  /\ GoIdle
  /\ UNCHANGED <<handVars, recovery, scheduler, canceller, stateVars, output,
                 sent, issued>>

FinishFailed ==
  /\ Returned
  /\ result.file = None /\ ~result.cancelled
  /\ Finish("failed", None)
  /\ NotifyOrIdle
  /\ UNCHANGED <<handVars, recovery, scheduler, canceller, stateVars, output,
                 sent, issued>>

FinishPartial ==
  /\ Returned
  /\ result.file # None
  /\ result.incomplete \/ result.cancelled
  /\ Finish("partial", result.file)
  /\ NotifyOrIdle
  /\ UNCHANGED <<handVars, recovery, scheduler, canceller, stateVars, output,
                 sent, issued>>

(* Faulty: whether the output is partial is not looked at.                 *)
HasFile == result.file # None

Whole == result.file # None /\ ~result.incomplete /\ ~result.cancelled

(* The executive reports of the template cannot be generated.              *)
FinishUnreported ==
  /\ Returned /\ Whole
  /\ Finish("failed", result.file)
  /\ NotifyOrIdle
  /\ UNCHANGED <<handVars, recovery, scheduler, canceller, stateVars, output,
                 sent, issued>>

(* shouldDeliverRun: the alert policy decides, from the metrics.           *)
FinishCompleted(deliver) ==
  /\ Returned /\ Whole
  /\ Finish("completed", result.file)
  /\ IF deliver THEN Message("report") ELSE GoTo("record")
  /\ UNCHANGED <<handVars, recovery, scheduler, canceller, stateVars, output,
                 sent, issued>>

(* deliverToTemplateDestinations: sent first, recorded afterwards.         *)
Deliver ==
  /\ worker.stage = "send"
  /\ sent' = [sent EXCEPT ![worker.run][worker.message] = @ + 1]
  /\ GoTo("record")
  /\ UNCHANGED <<storeVars, handVars, recovery, scheduler, canceller, stateVars,
                 output, issued, spent>>

RecordDelivery ==
  /\ worker.stage = "record"
  /\ Update(data)
  /\ GoIdle
  /\ UNCHANGED <<handVars, recovery, scheduler, canceller, stateVars, output,
                 sent, issued>>

Work ==
  \/ TakeRun \/ WaitOver \/ Begin \/ BeginFails \/ MarkRunning
  \/ FinishCancelled \/ FinishFailed \/ FinishPartial \/ FinishUnreported
  \/ \E deliver \in BOOLEAN : FinishCompleted(deliver)
  \/ Deliver \/ RecordDelivery

Extract ==
  \/ ExtractAbort
  \/ \E got \in {"none", "partial", "full"} : ExtractFetched(got)
  \/ \E ok \in BOOLEAN : ExtractWritten(ok)

-----------------------------------------------------------------------------
(* Time passes: NextRunAt of an enabled schedule is reached.               *)
FallDue(t) ==
  /\ spent.due < MaxDue /\ Spend({"due"})
  /\ data.templates[t] # None /\ data.templates[t].next = "later"
  /\ data' = [data EXCEPT !.templates[t].next = "due"]
  /\ disk' = IF disk.templates[t] # None /\ disk.templates[t].next = "later"
             THEN [disk EXCEPT !.templates[t].next = "due"] ELSE disk
  /\ UNCHANGED <<handVars, goVars, stateVars, output, sent, issued>>

Due == {t \in Templates : data.templates[t] # None /\ data.templates[t].next = "due"}
ShouldRun(t) == scheduler.startup => data.templates[t].policy.runOnce
Advanced ==
  [data EXCEPT !.templates =
     [t \in Templates |-> IF t \in Due THEN [@[t] EXCEPT !.next = "later"] ELSE @[t]]]

(* processSchedules: the schedules that are due advance and are saved      *)
(* before their runs are queued, in no particular order.                   *)
ScanSchedules ==
  /\ scheduler.due = {}
  /\ scheduler.startup \/ Due # {}
  /\ scheduler' = [startup |-> FALSE, due |-> {t \in Due : ShouldRun(t)}]
  /\ IF Due = {} THEN UNCHANGED <<storeVars, spent>> ELSE Persist(Advanced)
  /\ UNCHANGED <<handVars, recovery, worker, canceller, stateVars, output, sent,
                 issued>>

QueueDue(t) ==
  /\ t \in scheduler.due
  /\ scheduler' = [scheduler EXCEPT !.due = @ \ {t}]
  /\ IF Refused(t) THEN UNCHANGED <<storeVars, handVars, issued, spent>>
     ELSE QueueRun(t)
  /\ UNCHANGED <<recovery, worker, canceller, stateVars, output, sent>>

Schedule == ScanSchedules \/ \E t \in Templates : QueueDue(t)

-----------------------------------------------------------------------------
(* Start and recovery.  start launches the worker and the scheduler, then  *)
(* recoverQueuedRuns sends every queued run again, the oldest first, and   *)
(* waits whenever the channel is full.                                     *)
ScanQueued ==
  /\ recovery.stage = "scan"
  /\ recovery' = [stage |-> "send", ids |-> {r \in Runs : Status(r) = "queued"}]
  /\ UNCHANGED <<storeVars, handVars, scheduler, worker, canceller, stateVars,
                 output, sent, issued, spent>>

SendRecovered(r) ==
  /\ recovery.stage = "send" /\ r \in recovery.ids
  /\ \A s \in recovery.ids : r <= s
  /\ Len(queue) < QueueSize /\ queue' = Append(queue, r)
  /\ recovery' = [recovery EXCEPT !.ids = @ \ {r}]
  /\ UNCHANGED <<storeVars, waiting, scheduler, worker, canceller, stateVars,
                 output, sent, issued, spent>>

RecoveryDone ==
  /\ recovery.stage = "send" /\ recovery.ids = {}
  /\ recovery' = [recovery EXCEPT !.stage = "done"]
  /\ UNCHANGED <<storeVars, handVars, scheduler, worker, canceller, stateVars,
                 output, sent, issued, spent>>

Recover == ScanQueued \/ (\E r \in Runs : SendRecovered(r)) \/ RecoveryDone

(* Faulty: an interrupted run is queued again.                             *)
LoadedAgain(store) ==
  [store EXCEPT !.runs =
     [r \in Runs |-> IF @[r] # None /\ @[r].status = "running"
                     THEN [@[r] EXCEPT !.status = "queued"] ELSE @[r]]]

(* load: what was running when the process stopped has failed.             *)
Loaded(store) ==
  [store EXCEPT !.runs =
     [r \in Runs |-> IF @[r] # None /\ @[r].status = "running"
                     THEN [@[r] EXCEPT !.status = "failed"] ELSE @[r]]]

Launched ==
  /\ queue = <<>> /\ waiting = {}
  /\ recovery = [stage |-> "scan", ids |-> {}]
  /\ scheduler = [startup |-> TRUE, due |-> {}]
  /\ worker = Idle /\ canceller = None
  /\ extraction = NoExtraction /\ result = NoResult

(* The process stops at any moment; nothing shuts it down in order.        *)
Restart ==
  /\ spent.crashes < MaxCrashes /\ Spend({"crashes"})
  /\ data' = Loaded(disk) /\ disk' = Loaded(disk)
  /\ queue' = <<>> /\ waiting' = {}
  /\ recovery' = [stage |-> "scan", ids |-> {}]
  /\ scheduler' = [startup |-> TRUE, due |-> {}]
  /\ worker' = Idle /\ canceller' = None
  /\ extraction' = NoExtraction /\ result' = NoResult
  /\ UNCHANGED <<output, sent, issued>>

-----------------------------------------------------------------------------
Init ==
  /\ \E policy \in [Templates -> Policies] :
       data = [templates |-> [t \in Templates |->
                                [policy |-> policy[t], next |-> "later"]],
               runs |-> [r \in Runs |-> None]]
  /\ disk = data
  /\ Launched
  /\ output = [r \in Runs |-> "none"]
  /\ sent = [r \in Runs |-> [report |-> 0, failure |-> 0]]
  /\ issued = 0
  /\ spent = [due |-> 0, edits |-> 0, manual |-> 0, loads |-> 0, cancels |-> 0,
              faults |-> 0, crashes |-> 0]

Handle ==
  \/ \E t \in Templates, p \in Policies, enabled \in BOOLEAN :
       SaveTemplate(t, p, enabled)
  \/ \E t \in Templates : DeleteTemplate(t) \/ StartRun(t)
  \/ \E r \in Runs : CancelQueued(r) \/ CancelRunning(r)
  \/ CancelExtraction
  \/ StartExtraction
  \/ \E incomplete \in BOOLEAN : LoadDataset(incomplete)

Next ==
  \/ Handle \/ CancelSignal
  \/ \E r \in Runs : WaitingSend(r)
  \/ Extract \/ Work \/ Schedule \/ Recover
  \/ \E t \in Templates : FallDue(t)
  \/ Restart

Spec == Init /\ [][Next]_vars

(* The goroutines run when they can, and every extraction comes to an end: *)
(* its queries have timeouts and its context a deadline.                   *)
Fairness ==
  /\ WF_vars(Work) /\ WF_vars(Extract) /\ WF_vars(Schedule) /\ WF_vars(Recover)
  /\ WF_vars(CancelSignal)
  /\ \A r \in Runs : WF_vars(WaitingSend(r))

FairSpec == Spec /\ Fairness

-----------------------------------------------------------------------------
Statuses == {"queued", "running", "completed", "partial", "failed", "cancelled"}
File == Runs \cup {None, Manual, Dataset}
Template == [policy : Policies, next : {"off", "later", "due"}]
Run == [template : Templates, status : Statuses, file : File]
ASSUME NoneAssumption == None \notin Run
Store == [templates : [Templates -> Template \cup {None}],
          runs : [Runs -> Run \cup {None}]]
IdleWorker == {Idle}
BusyWorker == [stage : {"wait", "begin", "mark", "run", "send", "record"},
               run : Runs, message : {None, "report", "failure"}]

(* Every variable stays in the set of values the code can give it.  The    *)
(* worker is either idle or has a run, and what it sends is a report or a  *)
(* failure notice.                                                         *)
TypeOK ==
  /\ data \in Store /\ disk \in Store
  /\ queue \in Seq(Runs) /\ Len(queue) <= QueueSize
  /\ waiting \subseteq Runs
  /\ recovery \in [stage : {"scan", "send", "done"}, ids : SUBSET Runs]
  /\ scheduler \in [startup : BOOLEAN, due : SUBSET Templates]
  /\ worker \in IdleWorker \cup BusyWorker
  /\ worker.stage = "send" => worker.message \in {"report", "failure"}
  /\ extraction \in [owner : Runs \cup {None, Manual}, stage : {"fetch", "write"},
                     stopped : BOOLEAN, got : {"none", "partial", "full"},
                     cancelled : BOOLEAN]
  /\ result \in [file : File, incomplete : BOOLEAN, cancelled : BOOLEAN]
  /\ canceller \in Runs \cup {None}
  /\ output \in [Runs -> {"none", "partial", "full"}]
  /\ sent \in [Runs -> [report : Nat, failure : Nat]]
  /\ issued \in 0 .. MaxRuns
  /\ spent \in [{"due", "edits", "manual", "loads", "cancels", "faults",
                 "crashes"} -> Nat]

InQueue == {queue[i] : i \in 1 .. Len(queue)}
InHand == {r \in {worker.run} : worker.stage \in {"wait", "begin", "mark"}}
ToBeSent == IF recovery.stage = "scan" THEN Runs ELSE recovery.ids

(* No queued run is forgotten: it is in the channel, waits to enter it, is *)
(* about to be recovered, or the worker has it.                            *)
QueuedInHand ==
  \A r \in Runs :
    Status(r) = "queued" => r \in InQueue \cup waiting \cup ToBeSent \cup InHand

(* The one run shown as running is the one the worker is executing.        *)
RunningIsExecuted ==
  \A r \in Runs : Status(r) = "running" => worker.stage = "run" /\ worker.run = r

(* A run is reported at most once, and never both as a success and as a    *)
(* failure, through restarts and ids that enter the channel twice.         *)
MessagedOnce == \A r \in Runs : sent[r].report + sent[r].failure <= 1

(* A run is delivered at most once even if one save of its status failed   *)
(* before the process stopped.                                             *)
ReportedOnce == \A r \in Runs : sent[r].report <= 1

(* A queued run is on disk as queued, so that a restart does not lose it.  *)
QueuedOnDisk ==
  \A r \in Runs : Status(r) = "queued" =>
    disk.runs[r] # None /\ disk.runs[r].status = "queued"

(* What is delivered as a successful report is the complete result of that *)
(* run's own extraction.                                                   *)
ReportsComplete ==
  \A r \in Runs :
    /\ sent[r].report > 0 => output[r] = "full"
    /\ Status(r) = "completed" => data.runs[r].file = r

(* What was reported of a run is true and was reported once.               *)
ReportsTrue == MessagedOnce /\ ReportsComplete

(* A run whose extraction left a partial CSV is not delivered as a         *)
(* successful report, nor is it a baseline of later ones.                  *)
PartialNotReported ==
  \A r \in Runs : output[r] = "partial" =>
    sent[r].report = 0 /\ Status(r) # "completed"

(* A template that skips overlaps never has two queued or running jobs.    *)
NoOverlap ==
  \A t \in Templates :
    data.templates[t] # None /\ data.templates[t].policy.skip =>
      Cardinality({r \in Runs : IsActive(r) /\ data.runs[r].template = t}) <= 1

(* What the run list says is so, whenever the pages are served or the      *)
(* process stops.                                                          *)
RunListTrue == NoOverlap /\ RunningIsExecuted /\ QueuedOnDisk

(* A run that was cancelled before it started does not start.              *)
CancelledNotStarted ==
  [][\A r \in Runs : Status(r) = "cancelled" => Status(r)' # "running"]_vars

(* The history implements RunLifecycle: an id that was used and is not in  *)
(* the history was dropped from it.                                        *)
Life(r) == IF data.runs[r] # None THEN data.runs[r].status
           ELSE IF r <= issued THEN "dropped" ELSE "new"
Lifecycle == INSTANCE RunLifecycle WITH life <- [r \in Runs |-> Life(r)]
ImplementsLifecycle == Lifecycle!Spec

(* A schedule that fell due is not forgotten when the process stops.       *)
DueSurvivesRestart ==
  [][Restart => \A t \in scheduler.due :
       disk.templates[t] # None => disk.templates[t].next = "due"]_vars

(* Cancelling a running run stops no other extraction.                     *)
CancelStopsOwn ==
  [][canceller # None /\ canceller' = None /\ extraction.owner # None
     /\ extraction'.owner # None => extraction.owner = canceller]_vars

(* Every queued run is eventually over, or dropped from the history.       *)
RunsEnd == \A r \in Runs : Status(r) \in Active ~> Status(r) \notin Active

(* Recovery finishes, so that the pages are served, however many runs were *)
(* queued when the process stopped.                                        *)
RecoveryEnds == []<>(recovery.stage = "done")

(* Neither waits for the other forever: recovery may wait for a place in   *)
(* the channel, which only the worker makes.                               *)
QueueEnds == RunsEnd /\ RecoveryEnds
=============================================================================
