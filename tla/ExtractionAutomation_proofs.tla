-------------------- MODULE ExtractionAutomation_proofs --------------------
(***************************************************************************)
(* What ExtractionAutomation promises for any number of templates, runs,   *)
(* edits, cancellations, faults and crashes.                               *)
(***************************************************************************)
EXTENDS ExtractionAutomation, FiniteSetTheorems, TLAPS

-----------------------------------------------------------------------------
(* The values the store is built from.                                     *)
Histories == [Runs -> Run \cup {None}]
Counters == [{"due", "edits", "manual", "loads", "cancels", "faults",
              "crashes"} -> Nat]

(* Runs are numbered with naturals, and nothing else is called None.       *)
LEMMA RunFacts ==
  /\ Runs \subseteq Nat /\ MaxRuns \in Nat
  /\ None \notin Runs /\ Manual \notin Runs /\ Dataset \notin Runs
  /\ None \notin Templates
BY AutomationAssumption DEF Runs

LEMMA RunStored ==
  ASSUME data \in Store, NEW r \in Runs, NEW run \in Run
  PROVE  SetRun(r, run) \in Store
BY DEF SetRun, Store

LEMMA StatusStored ==
  ASSUME data \in Store, NEW r \in Runs, data.runs[r] # None,
         NEW status \in Statuses
  PROVE  SetStatus(r, status) \in Store
<1>1. data.runs[r] \in Run
  BY DEF Store
<1>2. [data.runs[r] EXCEPT !.status = status] \in Run
  BY <1>1 DEF Run
<1>3. SetStatus(r, status) = SetRun(r, [data.runs[r] EXCEPT !.status = status])
  BY DEF SetStatus, SetRun, Store
<1> QED BY <1>2, <1>3, RunStored

LEMMA TemplateStored ==
  ASSUME data \in Store, NEW t \in Templates, NEW value \in Template \cup {None}
  PROVE  SetTemplate(t, value) \in Store
BY DEF SetTemplate, Store

(* Trimming drops runs, it changes none.                                   *)
LEMMA Trimmed ==
  ASSUME NEW runs \in Histories
  PROVE  /\ Trim(runs) \in Histories
         /\ \A r \in Runs : Trim(runs)[r] \in {runs[r], None}
BY DEF Trim, Histories

LEMMA NewRunStored ==
  ASSUME data \in Store, NEW r \in Runs, NEW t \in Templates
  PROVE  [data EXCEPT !.runs = Trim([@ EXCEPT ![r] = NewRun(t)])] \in Store
<1> DEFINE runs == [data.runs EXCEPT ![r] = NewRun(t)]
<1>1. NewRun(t) \in Run
  BY DEF NewRun, Run, Statuses, File
<1>2. runs \in Histories
  BY <1>1 DEF Store, Histories
<1>3. Trim(runs) \in Histories
  BY <1>2, Trimmed
<1> HIDE DEF runs
<1>4. [data EXCEPT !.runs = Trim(runs)] \in Store
  BY <1>3 DEF Store, Histories
<1> QED BY <1>4 DEF runs

LEMMA LoadedStored ==
  ASSUME NEW store \in Store
  PROVE  Loaded(store) \in Store
<1>1. \A r \in Runs : store.runs[r] # None =>
         [store.runs[r] EXCEPT !.status = "failed"] \in Run
  BY DEF Store, Run, Statuses
<1> QED BY <1>1 DEF Loaded, Store

LEMMA AdvancedStored ==
  ASSUME data \in Store
  PROVE  Advanced \in Store
<1>1. \A t \in Due : [data.templates[t] EXCEPT !.next = "later"] \in Template
  BY DEF Due, Store, Template
<1> QED BY <1>1 DEF Advanced, Store, Due

-----------------------------------------------------------------------------
(* Spending a bound and saving keep the types.                             *)
LEMMA Spent ==
  ASSUME spent \in Counters, NEW bounds, Spend(bounds)
  PROVE  spent' \in Counters
BY DEF Spend, Counters

LEMMA Saved ==
  ASSUME data \in Store, disk \in Store, spent \in Counters,
         NEW new \in Store, Persist(new)
  PROVE  data' \in Store /\ disk' \in Store /\ spent' \in Counters
<1>1. ASSUME SaveFails(new)
      PROVE  disk' \in Store /\ spent' \in Counters
  BY <1>1, Spent DEF SaveFails, Fault, Counters
<1> QED BY <1>1 DEF Persist

LEMMA Updated ==
  ASSUME data \in Store, disk \in Store, spent \in Counters,
         worker.run \in Runs, NEW new, Update(new),
         data.runs[worker.run] # None => new \in Store
  PROVE  data' \in Store /\ disk' \in Store /\ spent' \in Counters
BY Saved DEF Update, storeVars

-----------------------------------------------------------------------------
(* TypeOK by the variables that change together.                           *)
StoreOK == data \in Store /\ disk \in Store
HandOK == queue \in Seq(Runs) /\ Len(queue) <= QueueSize /\ waiting \subseteq Runs
RecoveryOK == recovery \in [stage : {"scan", "send", "done"}, ids : SUBSET Runs]
SchedulerOK == scheduler \in [startup : BOOLEAN, due : SUBSET Templates]
WorkerOK ==
  /\ worker \in IdleWorker \cup BusyWorker
  /\ worker.stage = "send" => worker.message \in {"report", "failure"}
CancellerOK == canceller \in Runs \cup {None}
ExtractionOK ==
  extraction \in [owner : Runs \cup {None, Manual}, stage : {"fetch", "write"},
                  stopped : BOOLEAN, got : {"none", "partial", "full"},
                  cancelled : BOOLEAN]
ResultOK == result \in [file : File, incomplete : BOOLEAN, cancelled : BOOLEAN]
OutputOK == output \in [Runs -> {"none", "partial", "full"}]
SentOK == sent \in [Runs -> [report : Nat, failure : Nat]]
IssuedOK == issued \in 0 .. MaxRuns
SpentOK == spent \in Counters

Parts ==
  /\ StoreOK /\ HandOK /\ RecoveryOK /\ SchedulerOK /\ WorkerOK /\ CancellerOK
  /\ ExtractionOK /\ ResultOK /\ OutputOK /\ SentOK /\ IssuedOK /\ SpentOK

LEMMA PartsTyped == TypeOK <=> Parts
BY DEF TypeOK, Parts, StoreOK, HandOK, RecoveryOK, SchedulerOK, WorkerOK,
  CancellerOK, ExtractionOK, ResultOK, OutputOK, SentOK, IssuedOK, SpentOK,
  Counters

(* What a step leaves alone keeps its type.                                *)
LEMMA KeptTyped ==
  ASSUME Parts
  PROVE  /\ UNCHANGED storeVars => StoreOK'
         /\ UNCHANGED handVars => HandOK'
         /\ UNCHANGED recovery => RecoveryOK'
         /\ UNCHANGED scheduler => SchedulerOK'
         /\ UNCHANGED worker => WorkerOK'
         /\ UNCHANGED canceller => CancellerOK'
         /\ UNCHANGED goVars => RecoveryOK' /\ SchedulerOK' /\ WorkerOK'
                                /\ CancellerOK'
         /\ UNCHANGED extraction => ExtractionOK'
         /\ UNCHANGED result => ResultOK'
         /\ UNCHANGED stateVars => ExtractionOK' /\ ResultOK'
         /\ UNCHANGED output => OutputOK'
         /\ UNCHANGED sent => SentOK'
         /\ UNCHANGED issued => IssuedOK'
         /\ UNCHANGED spent => SpentOK'
<1> USE DEF Parts
<1>1. /\ UNCHANGED storeVars => StoreOK'
      /\ UNCHANGED handVars => HandOK'
  BY DEF StoreOK, HandOK, storeVars, handVars
<1>2. /\ UNCHANGED recovery => RecoveryOK'
      /\ UNCHANGED scheduler => SchedulerOK'
      /\ UNCHANGED worker => WorkerOK'
      /\ UNCHANGED canceller => CancellerOK'
  BY DEF RecoveryOK, SchedulerOK, WorkerOK, CancellerOK
<1>3. /\ UNCHANGED extraction => ExtractionOK'
      /\ UNCHANGED result => ResultOK'
  BY DEF ExtractionOK, ResultOK
<1>4. /\ UNCHANGED output => OutputOK'
      /\ UNCHANGED sent => SentOK'
      /\ UNCHANGED issued => IssuedOK'
      /\ UNCHANGED spent => SpentOK'
  BY DEF OutputOK, SentOK, IssuedOK, SpentOK
<1> QED BY <1>1, <1>2, <1>3, <1>4 DEF goVars, stateVars

-----------------------------------------------------------------------------
(* What the helpers of the handlers and of the worker do to the types.     *)
LEMMA SentOn ==
  ASSUME HandOK, NEW r \in Runs, Send(r)
  PROVE  HandOK'
<1>1. CASE Len(queue) < QueueSize
  <2>1. queue' = Append(queue, r) /\ waiting' = waiting
    BY <1>1 DEF Send
  <2>2. Len(queue') = Len(queue) + 1 /\ queue' \in Seq(Runs)
    BY <2>1 DEF HandOK
  <2>3. QueueSize \in Nat /\ Len(queue) \in Nat
    BY AutomationAssumption DEF HandOK
  <2> QED BY <1>1, <2>1, <2>2, <2>3 DEF HandOK
<1>2. CASE ~(Len(queue) < QueueSize)
  BY <1>2 DEF Send, HandOK
<1> QED BY <1>1, <1>2

(* What queueRun leaves, whether or not it could save.                     *)
LEMMA Queued ==
  ASSUME Parts, NEW t \in Templates, QueueRun(t)
  PROVE  StoreOK' /\ HandOK' /\ IssuedOK' /\ SpentOK'
<1> DEFINE r == issued + 1
           new == [data EXCEPT !.runs = Trim([@ EXCEPT ![r] = NewRun(t)])]
<1>1. r \in Runs /\ issued' = r /\ IssuedOK'
  BY RunFacts DEF QueueRun, Runs, Parts, IssuedOK
<1>2. new \in Store
  BY <1>1, NewRunStored DEF Parts, StoreOK
<1>3. CASE data' = new /\ disk' = new /\ Send(r) /\ UNCHANGED spent
  BY <1>1, <1>2, <1>3, SentOn DEF Parts, StoreOK, SpentOK
<1>4. CASE SaveFails(new) /\ UNCHANGED <<data, handVars>>
  <2>1. disk' \in Store /\ spent' \in Counters
    BY <1>2, <1>4, Spent DEF SaveFails, Fault, Counters, Parts, StoreOK, SpentOK
  <2> QED BY <1>1, <1>4, <2>1 DEF handVars, Parts, StoreOK, HandOK, SpentOK
<1> QED BY <1>3, <1>4 DEF QueueRun

LEMMA Edited ==
  ASSUME Parts, NEW new \in Store,
         NEW what, Edit(new, what)
  PROVE  StoreOK' /\ SpentOK'
<1>2. spent' \in Counters
  BY Spent DEF Edit, Parts, SpentOK
<1>3. data' \in {data, new} /\ disk' \in {disk, new}
  BY DEF Edit
<1> QED BY <1>2, <1>3 DEF Parts, StoreOK, SpentOK

LEMMA Spending ==
  ASSUME Parts, NEW bounds, Spend(bounds)
  PROVE  SpentOK'
BY Spent DEF Parts, SpentOK, Counters

LEMMA Busy ==
  ASSUME Parts, worker.stage # "idle"
  PROVE  worker \in BusyWorker /\ worker.run \in Runs
BY DEF Parts, WorkerOK, IdleWorker, BusyWorker, Idle

LEMMA WorkerUpdated ==
  ASSUME Parts, worker.stage # "idle", NEW new, Update(new),
         data.runs[worker.run] # None => new \in Store
  PROVE  StoreOK' /\ SpentOK'
BY Updated, Busy DEF Parts, StoreOK, SpentOK

(* The worker's next stage.                                                *)
LEMMA WorkerGoes ==
  ASSUME Parts
  PROVE  /\ GoIdle => WorkerOK'
         /\ \A stage \in {"wait", "begin", "mark", "run", "record"} :
              worker.stage # "idle" /\ GoTo(stage) => WorkerOK'
         /\ \A kind \in {"report", "failure"} :
              worker.stage # "idle" /\ Message(kind) => WorkerOK'
<1>1. GoIdle => WorkerOK'
  BY DEF GoIdle, Idle, WorkerOK, IdleWorker
<1>2. ASSUME NEW stage \in {"wait", "begin", "mark", "run", "record"},
             worker.stage # "idle", GoTo(stage)
      PROVE  WorkerOK'
  BY <1>2, Busy DEF GoTo, WorkerOK, BusyWorker
<1>3. ASSUME NEW kind \in {"report", "failure"},
             worker.stage # "idle", Message(kind)
      PROVE  WorkerOK'
  BY <1>3, Busy DEF Message, WorkerOK, BusyWorker
<1> QED BY <1>1, <1>2, <1>3

-----------------------------------------------------------------------------
(* Every variable stays in the set of values the code can give it.         *)
LEMMA InitTyped == Init => Parts
<1> SUFFICES ASSUME Init PROVE Parts
  OBVIOUS
<1>1. StoreOK
  <2>1. PICK policy \in [Templates -> Policies] :
          data = [templates |-> [t \in Templates |->
                                   [policy |-> policy[t], next |-> "later"]],
                  runs |-> [r \in Runs |-> None]]
    BY DEF Init
  <2> QED BY <2>1 DEF Init, Store, Template, StoreOK
<1>2. SpentOK
  BY DEF Init, Counters, SpentOK
<1>3. OutputOK /\ SentOK /\ IssuedOK
  BY RunFacts DEF Init, OutputOK, SentOK, IssuedOK
<1>4. HandOK
  BY AutomationAssumption DEF Init, Launched, HandOK
<1>5. RecoveryOK /\ SchedulerOK /\ WorkerOK /\ CancellerOK
  BY DEF Init, Launched, IdleWorker, Idle, RecoveryOK, SchedulerOK, WorkerOK,
    CancellerOK
<1>6. ExtractionOK /\ ResultOK
  BY DEF Init, Launched, NoExtraction, NoResult, File, ExtractionOK, ResultOK
<1> QED BY <1>1, <1>2, <1>3, <1>4, <1>5, <1>6 DEF Parts

LEMMA HandleTyped == Parts /\ Handle => Parts'
<1> SUFFICES ASSUME Parts, Handle PROVE Parts'
  OBVIOUS
<1>1. ASSUME NEW t \in Templates, NEW p \in Policies, NEW enabled \in BOOLEAN,
             SaveTemplate(t, p, enabled)
      PROVE  Parts'
  <2> DEFINE new == SetTemplate(t, [policy |-> p,
                                    next |-> IF enabled THEN "later" ELSE "off"])
  <2>1. new \in Store
    BY TemplateStored DEF Template, Parts, StoreOK
  <2>2. StoreOK' /\ SpentOK'
    BY <1>1, <2>1, Edited DEF SaveTemplate
  <2> QED BY <1>1, <2>2, KeptTyped DEF SaveTemplate, Parts
<1>2. ASSUME NEW t \in Templates, DeleteTemplate(t) PROVE Parts'
  <2>1. SetTemplate(t, None) \in Store
    BY TemplateStored DEF Parts, StoreOK
  <2>2. StoreOK' /\ SpentOK'
    BY <1>2, <2>1, Edited DEF DeleteTemplate
  <2> QED BY <1>2, <2>2, KeptTyped DEF DeleteTemplate, Parts
<1>3. ASSUME NEW t \in Templates, StartRun(t) PROVE Parts'
  BY <1>3, Queued, KeptTyped DEF StartRun, Parts
<1>4. ASSUME NEW r \in Runs, CancelQueued(r) PROVE Parts'
  <2> DEFINE new == SetStatus(r, "cancelled")
  <2>1. new \in Store
    BY <1>4, StatusStored DEF CancelQueued, Status, Statuses, Parts, StoreOK
  <2>2. StoreOK' /\ SpentOK'
    BY <1>4, <2>1, Edited DEF CancelQueued
  <2> QED BY <1>4, <2>2, KeptTyped DEF CancelQueued, Parts
<1>5. ASSUME NEW r \in Runs, CancelRunning(r) PROVE Parts'
  <2>1. SpentOK' /\ CancellerOK'
    BY <1>5, Spending DEF CancelRunning, CancellerOK
  <2> QED BY <1>5, <2>1, KeptTyped DEF CancelRunning, Parts
<1>6. CASE CancelExtraction
  <2>1. SpentOK'
    BY <1>6, Spending DEF CancelExtraction
  <2>2. ExtractionOK' /\ ResultOK'
    BY <1>6 DEF CancelExtraction, Parts, ExtractionOK, ResultOK
  <2> QED BY <1>6, <2>1, <2>2, KeptTyped DEF CancelExtraction, Parts
<1>7. CASE StartExtraction
  <2>1. SpentOK'
    BY <1>7, Spending DEF StartExtraction
  <2>2. ExtractionOK' /\ ResultOK'
    BY <1>7 DEF StartExtraction, BeginExtraction, NoExtraction, NoResult, File,
      ExtractionOK, ResultOK
  <2> QED BY <1>7, <2>1, <2>2, KeptTyped DEF StartExtraction, Parts
<1>8. ASSUME NEW incomplete \in BOOLEAN, LoadDataset(incomplete) PROVE Parts'
  <2>1. SpentOK'
    BY <1>8, Spending DEF LoadDataset
  <2>2. ResultOK'
    BY <1>8 DEF LoadDataset, File, ResultOK
  <2> QED BY <1>8, <2>1, <2>2, KeptTyped DEF LoadDataset, Parts
<1> QED BY <1>1, <1>2, <1>3, <1>4, <1>5, <1>6, <1>7, <1>8 DEF Handle

LEMMA ExtractTyped == Parts /\ Extract => Parts'
<1> SUFFICES ASSUME Parts, Extract PROVE Parts'
  OBVIOUS
<1>0. ASSUME NEW file \in File, NEW incomplete \in BOOLEAN,
             NEW cancelled \in BOOLEAN,
             markRunFinished(file, incomplete, cancelled)
      PROVE  ExtractionOK' /\ ResultOK'
  BY <1>0 DEF markRunFinished, NoExtraction, ExtractionOK, ResultOK
<1>1. extraction.stopped \in BOOLEAN /\ extraction.cancelled \in BOOLEAN
      /\ result.incomplete \in BOOLEAN /\ None \in File
  BY DEF Parts, ExtractionOK, ResultOK, File
<1>2. CASE ExtractAbort
  <2>1. ExtractionOK' /\ ResultOK'
    BY <1>0, <1>1, <1>2 DEF ExtractAbort
  <2> QED BY <1>2, <2>1, KeptTyped DEF ExtractAbort, Parts
<1>3. ASSUME NEW got \in {"none", "partial", "full"}, ExtractFetched(got)
      PROVE  Parts'
  <2>1. CASE got = "none"
    BY <1>0, <1>1, <1>3, <2>1, KeptTyped DEF ExtractFetched, Parts
  <2>2. CASE got # "none"
    <3>1. ExtractionOK' /\ ResultOK'
      BY <1>1, <1>3, <2>2 DEF ExtractFetched, Parts, ExtractionOK, ResultOK
    <3> QED BY <1>3, <3>1, KeptTyped DEF ExtractFetched, Parts
  <2> QED BY <2>1, <2>2
<1>4. ASSUME NEW ok \in BOOLEAN, ExtractWritten(ok) PROVE Parts'
  <2>0. extraction.owner \in File /\ extraction.owner # None
    BY <1>4 DEF ExtractWritten, Extracting, Parts, ExtractionOK, File
  <2>1. ExtractionOK' /\ ResultOK'
    BY <1>0, <1>1, <1>4, <2>0 DEF ExtractWritten
  <2>2. OutputOK'
    BY <1>4 DEF ExtractWritten, Parts, OutputOK, ExtractionOK
  <2> QED BY <1>4, <2>1, <2>2, KeptTyped DEF ExtractWritten, Parts
<1> QED BY <1>2, <1>3, <1>4 DEF Extract

(* The store when the worker has changed its run, or failed it.            *)
LEMMA StatusUpdated ==
  ASSUME Parts, worker.stage # "idle", NEW status \in Statuses,
         Update(SetStatus(worker.run, status))
  PROVE  StoreOK' /\ SpentOK'
BY Busy, StatusStored, WorkerUpdated DEF Parts, StoreOK

LEMMA Finished ==
  ASSUME Parts, worker.stage # "idle", NEW status \in Statuses,
         NEW file \in File, Finish(status, file)
  PROVE  StoreOK' /\ SpentOK'
<1>1. worker.run \in Runs
  BY Busy
<1>2. ASSUME data.runs[worker.run] # None
      PROVE  [data.runs[worker.run] EXCEPT !.status = status, !.file = file] \in Run
  BY <1>1, <1>2 DEF Parts, StoreOK, Store, Run
<1>3. data.runs[worker.run] # None =>
        SetRun(worker.run, [data.runs[worker.run] EXCEPT !.status = status,
                                                         !.file = file]) \in Store
  BY <1>1, <1>2, RunStored DEF Parts, StoreOK
<1> QED BY <1>3, WorkerUpdated DEF Finish

LEMMA Notified ==
  ASSUME Parts, worker.stage # "idle", NotifyOrIdle
  PROVE  WorkerOK'
BY WorkerGoes DEF NotifyOrIdle

LEMMA WorkTyped == Parts /\ Work => Parts'
<1> SUFFICES ASSUME Parts, Work PROVE Parts'
  OBVIOUS
<1>1. CASE TakeRun
  <2>1. Head(queue) \in Runs /\ HandOK'
    <3>1. queue \in Seq(Runs) /\ queue # <<>> /\ queue' = Tail(queue)
      BY <1>1 DEF TakeRun, Receiving, Parts, HandOK
    <3>2. Head(queue) \in Runs /\ Tail(queue) \in Seq(Runs)
          /\ Len(Tail(queue)) = Len(queue) - 1
      BY <3>1
    <3> QED BY <1>1, <3>1, <3>2, AutomationAssumption
          DEF TakeRun, Parts, HandOK
  <2>2. StoreOK' /\ WorkerOK' /\ SpentOK'
    <3> DEFINE r == Head(queue)
    <3>1. CASE ~Executable(r)
      BY <1>1, <3>1, WorkerGoes, KeptTyped DEF TakeRun
    <3>2. CASE Executable(r) /\ data.templates[data.runs[r].template] = None
      <4>1. SetStatus(r, "failed") \in Store
        BY <2>1, <3>2, StatusStored DEF Executable, Status, Statuses, Parts,
          StoreOK
      <4>2. GoIdle /\ Persist(SetStatus(r, "failed"))
        BY <1>1, <3>2 DEF TakeRun
      <4> QED BY <4>1, <4>2, Saved, WorkerGoes DEF Parts, StoreOK, SpentOK
    <3>3. CASE Executable(r) /\ data.templates[data.runs[r].template] # None
      <4>1. /\ worker' = [stage |-> "wait", run |-> r, message |-> None]
            /\ UNCHANGED <<storeVars, spent>>
        BY <1>1, <3>3 DEF TakeRun
      <4>2. WorkerOK'
        BY <2>1, <4>1 DEF WorkerOK, BusyWorker
      <4> QED BY <4>1, <4>2, KeptTyped
    <3> QED BY <3>1, <3>2, <3>3
  <2> QED BY <1>1, <2>1, <2>2, KeptTyped DEF TakeRun, Parts
<1>2. CASE WaitOver
  BY <1>2, WorkerGoes, KeptTyped DEF WaitOver, Parts
<1>3. CASE Begin
  <2>1. worker.run \in Runs
    BY <1>3, Busy DEF Begin
  <2>2. ExtractionOK' /\ ResultOK'
    BY <1>3, <2>1 DEF Begin, BeginExtraction, NoExtraction, NoResult, File,
      ExtractionOK, ResultOK
  <2> QED BY <1>3, <2>2, WorkerGoes, KeptTyped DEF Begin, Parts
<1>4. CASE BeginFails
  BY <1>4, StatusUpdated, Notified, KeptTyped DEF BeginFails, Statuses, Parts
<1>5. CASE MarkRunning
  BY <1>5, StatusUpdated, WorkerGoes, KeptTyped DEF MarkRunning, Statuses, Parts
<1>6. CASE FinishCancelled
  BY <1>6, Finished, WorkerGoes, KeptTyped
    DEF FinishCancelled, Returned, Statuses, File, Parts
<1>7. CASE FinishFailed
  BY <1>7, Finished, Notified, KeptTyped
    DEF FinishFailed, Returned, Statuses, File, Parts
<1>8. result.file \in File
  BY DEF Parts, ResultOK
<1>9. CASE FinishPartial
  BY <1>8, <1>9, Finished, Notified, KeptTyped
    DEF FinishPartial, Returned, Statuses, Parts
<1>10. CASE FinishUnreported
  BY <1>8, <1>10, Finished, Notified, KeptTyped
    DEF FinishUnreported, Returned, Statuses, Parts
<1>11. ASSUME NEW deliver \in BOOLEAN, FinishCompleted(deliver) PROVE Parts'
  BY <1>8, <1>11, Finished, WorkerGoes, KeptTyped
    DEF FinishCompleted, Returned, Statuses, Parts
<1>12. CASE Deliver
  <2>1. worker.run \in Runs /\ worker.message \in {"report", "failure"}
    BY <1>12, Busy DEF Deliver, Parts, WorkerOK
  <2>2. SentOK'
    BY <1>12, <2>1 DEF Deliver, Parts, SentOK
  <2> QED BY <1>12, <2>2, WorkerGoes, KeptTyped DEF Deliver, Parts
<1>13. CASE RecordDelivery
  BY <1>13, WorkerUpdated, WorkerGoes, KeptTyped
    DEF RecordDelivery, Parts, StoreOK
<1> QED BY <1>1, <1>2, <1>3, <1>4, <1>5, <1>6, <1>7, <1>9, <1>10, <1>11, <1>12,
        <1>13 DEF Work

LEMMA FallDueTyped ==
  ASSUME Parts, NEW t \in Templates, FallDue(t)
  PROVE  Parts'
<1> DEFINE due(store) == [store EXCEPT !.templates[t].next = "due"]
<1>1. ASSUME NEW store \in Store, store.templates[t] # None
      PROVE  due(store) \in Store
  <2>1. [store.templates[t] EXCEPT !.next = "due"] \in Template
    BY <1>1 DEF Store, Template
  <2> QED BY <2>1 DEF Store
<1>2. data \in Store /\ disk \in Store
  BY DEF Parts, StoreOK
<1>3. /\ data.templates[t] # None /\ data' = due(data)
      /\ disk' = IF disk.templates[t] # None /\ disk.templates[t].next = "later"
                 THEN due(disk) ELSE disk
  BY DEF FallDue
<1> HIDE DEF due
<1>4. StoreOK'
  BY <1>1, <1>2, <1>3 DEF StoreOK
<1> QED BY <1>4, Spending, KeptTyped DEF FallDue, Parts

LEMMA ScheduleTyped == Parts /\ Schedule => Parts'
<1> SUFFICES ASSUME Parts, Schedule PROVE Parts'
  OBVIOUS
<1>1. CASE ScanSchedules
  <2>1. SchedulerOK'
    BY <1>1 DEF ScanSchedules, SchedulerOK, Due
  <2>2. StoreOK' /\ SpentOK'
    <3>1. CASE Due = {}
      BY <1>1, <3>1, KeptTyped DEF ScanSchedules
    <3>2. CASE Due # {}
      BY <1>1, <3>2, AdvancedStored, Saved
        DEF ScanSchedules, Parts, StoreOK, SpentOK
    <3> QED BY <3>1, <3>2
  <2> QED BY <1>1, <2>1, <2>2, KeptTyped DEF ScanSchedules, Parts
<1>2. ASSUME NEW t \in Templates, QueueDue(t) PROVE Parts'
  <2>1. SchedulerOK'
    BY <1>2 DEF QueueDue, SchedulerOK, Parts
  <2>2. StoreOK' /\ HandOK' /\ IssuedOK' /\ SpentOK'
    BY <1>2, Queued, KeptTyped DEF QueueDue
  <2> QED BY <1>2, <2>1, <2>2, KeptTyped DEF QueueDue, Parts
<1> QED BY <1>1, <1>2 DEF Schedule

LEMMA RecoverTyped == Parts /\ Recover => Parts'
<1> SUFFICES ASSUME Parts, Recover PROVE Parts'
  OBVIOUS
<1>1. CASE ScanQueued
  <2>1. RecoveryOK'
    BY <1>1 DEF ScanQueued, RecoveryOK
  <2> QED BY <1>1, <2>1, KeptTyped DEF ScanQueued, Parts
<1>2. ASSUME NEW r \in Runs, SendRecovered(r) PROVE Parts'
  <2>1. RecoveryOK'
    BY <1>2 DEF SendRecovered, RecoveryOK, Parts
  <2>2. Send(r)
    BY <1>2 DEF SendRecovered, Send
  <2> QED BY <1>2, <2>1, <2>2, SentOn, KeptTyped DEF SendRecovered, Parts
<1>3. CASE RecoveryDone
  <2>1. RecoveryOK'
    BY <1>3 DEF RecoveryDone, RecoveryOK, Parts
  <2> QED BY <1>3, <2>1, KeptTyped DEF RecoveryDone, Parts
<1> QED BY <1>1, <1>2, <1>3 DEF Recover

LEMMA RestartTyped == Parts /\ Restart => Parts'
<1> SUFFICES ASSUME Parts, Restart PROVE Parts'
  OBVIOUS
<1>1. StoreOK'
  BY LoadedStored DEF Restart, Parts, StoreOK
<1>2. SpentOK'
  BY Spending DEF Restart
<1>3. HandOK'
  BY AutomationAssumption DEF Restart, HandOK
<1>4. RecoveryOK' /\ SchedulerOK' /\ WorkerOK' /\ CancellerOK'
  BY DEF Restart, IdleWorker, Idle, RecoveryOK, SchedulerOK, WorkerOK,
    CancellerOK
<1>5. ExtractionOK' /\ ResultOK'
  BY DEF Restart, NoExtraction, NoResult, File, ExtractionOK, ResultOK
<1> QED BY <1>1, <1>2, <1>3, <1>4, <1>5, KeptTyped DEF Restart, Parts

LEMMA NextTyped == Parts /\ [Next]_vars => Parts'
<1> SUFFICES ASSUME Parts, [Next]_vars PROVE Parts'
  OBVIOUS
<1>1. CASE CancelSignal
  <2>1. CancellerOK' /\ ExtractionOK'
    BY <1>1 DEF CancelSignal, CancellerOK, ExtractionOK, Parts
  <2> QED BY <1>1, <2>1, KeptTyped DEF CancelSignal, Parts
<1>2. ASSUME NEW r \in Runs, WaitingSend(r) PROVE Parts'
  <2>1. queue' = Append(queue, r) /\ Len(queue) < QueueSize
        /\ waiting' = waiting \ {r}
    BY <1>2 DEF WaitingSend
  <2>2. HandOK'
    BY <2>1, AutomationAssumption DEF HandOK, Parts
  <2> QED BY <1>2, <2>2, KeptTyped DEF WaitingSend, Parts
<1>3. CASE UNCHANGED vars
  BY <1>3, KeptTyped DEF vars, Parts
<1> QED BY <1>1, <1>2, <1>3, HandleTyped, ExtractTyped, WorkTyped, FallDueTyped,
        ScheduleTyped, RecoverTyped, RestartTyped DEF Next

LEMMA PartsAlways == Spec => []Parts
BY InitTyped, NextTyped, PTL DEF Spec

(* Every variable stays in the set of values the code can give it: the     *)
(* channel never holds more than its capacity, and what the worker sends   *)
(* is a report or a failure notice.                                        *)
THEOREM Typed == Spec => []TypeOK
BY PartsAlways, PartsTyped, PTL

-----------------------------------------------------------------------------
(* How the status of the runs changes.                                     *)
LEMMA StatusKept ==
  ASSUME data'.runs = data.runs
  PROVE  \A r \in Runs : Status(r)' = Status(r)
BY DEF Status

LEMMA StatusSet ==
  ASSUME Parts, NEW r \in Runs, NEW status \in Statuses, NEW file \in File,
         data.runs[r] # None,
         data' \in {SetStatus(r, status),
                    SetRun(r, [data.runs[r] EXCEPT !.status = status,
                                                   !.file = file])}
  PROVE  \A s \in Runs : Status(s)' = IF s = r THEN status ELSE Status(s)
<1>1. data \in Store /\ data.runs[r] \in Run
  BY DEF Parts, StoreOK, Store
<1> DEFINE one == [data.runs[r] EXCEPT !.status = status]
           two == [data.runs[r] EXCEPT !.status = status, !.file = file]
<1>2. one \in Run /\ one.status = status /\ two \in Run /\ two.status = status
  BY <1>1 DEF Run
<1>3. data'.runs[r] \in {one, two}
  BY <1>1 DEF SetStatus, SetRun, Store
<1> HIDE DEF one, two
<1>4. data'.runs[r] \in Run /\ data'.runs[r].status = status
  BY <1>2, <1>3
<1> USE DEF one, two
<1>5. \A s \in Runs \ {r} : data'.runs[s] = data.runs[s]
  BY <1>1 DEF SetStatus, SetRun, Store
<1> QED BY <1>4, <1>5, NoneAssumption DEF Status

(* The worker changes only the run it has, and only if it is still there.  *)
LEMMA StatusWritten ==
  ASSUME Parts, worker.stage # "idle", NEW status \in Statuses,
         \/ Update(SetStatus(worker.run, status))
         \/ \E file \in File : Finish(status, file)
  PROVE  \A r \in Runs :
           Status(r)' = IF r = worker.run /\ data.runs[r] # None THEN status
                        ELSE Status(r)
<1>1. worker.run \in Runs
  BY Busy
<1>2. CASE data.runs[worker.run] = None
  BY <1>1, <1>2 DEF Update, Finish, storeVars, Status
<1>3. CASE data.runs[worker.run] # None
  <2>1. CASE Update(SetStatus(worker.run, status))
    <3>1. data' = SetStatus(worker.run, status)
      BY <1>3, <2>1 DEF Update, Persist
    <3>2. None \in File
      BY DEF File
    <3> QED BY <1>1, <1>3, <3>1, <3>2, StatusSet
  <2>2. ASSUME NEW file \in File, Finish(status, file)
        PROVE  \A r \in Runs : Status(r)' = IF r = worker.run THEN status
                                            ELSE Status(r)
    <3>1. data' = SetRun(worker.run,
                         [data.runs[worker.run] EXCEPT !.status = status,
                                                       !.file = file])
      BY <1>3, <2>2 DEF Update, Persist, Finish
    <3> QED BY <1>1, <1>3, <3>1, StatusSet
  <2> QED BY <1>3, <2>1, <2>2
<1> QED BY <1>2, <1>3

(* Queueing adds a queued run, and may drop others.                        *)
LEMMA StatusQueued ==
  ASSUME Parts, NEW t \in Templates, QueueRun(t)
  PROVE  \A r \in Runs : Status(r)' \in {Status(r), "absent", "queued"}
<1> DEFINE r == issued + 1
           runs == [data.runs EXCEPT ![r] = NewRun(t)]
<1>1. CASE data' = data
  BY <1>1 DEF Status
<1>2. CASE data' = [data EXCEPT !.runs = Trim(runs)]
  <2>1. data.runs \in Histories /\ NewRun(t) \in Run /\ NewRun(t).status = "queued"
    BY DEF Parts, StoreOK, Store, Histories, NewRun, Run, Statuses, File
  <2>2. runs \in Histories
    BY <2>1 DEF Histories
  <2>3. data'.runs = Trim(runs)
    BY <1>2 DEF Parts, StoreOK, Store
  <2>4. \A s \in Runs : runs[s] \in {data.runs[s], NewRun(t)}
    BY <2>1 DEF Histories
  <2> HIDE DEF runs
  <2>5. \A s \in Runs : data'.runs[s] \in {data.runs[s], NewRun(t), None}
    BY <2>2, <2>3, <2>4, Trimmed
  <2> QED BY <2>1, <2>5 DEF Status
<1> QED BY <1>1, <1>2 DEF QueueRun

(* After load nothing is running.                                          *)
LEMMA NothingRunning ==
  ASSUME NEW store \in Store
  PROVE  \A r \in Runs : Loaded(store).runs[r] # None =>
                           Loaded(store).runs[r].status # "running"
BY DEF Loaded, Store, Run

-----------------------------------------------------------------------------
(* The one run shown as running is the one the worker is executing: a      *)
(* restart, a cancellation and an extraction of the page leave no other.   *)
LEMMA ExecutedNext == Parts /\ RunningIsExecuted /\ [Next]_vars => RunningIsExecuted'
<1> SUFFICES ASSUME Parts, RunningIsExecuted, [Next]_vars PROVE RunningIsExecuted'
  OBVIOUS
<1> USE DEF RunningIsExecuted
<1>0. ASSUME UNCHANGED worker,
             \A r \in Runs : Status(r)' = "running" => Status(r) = "running"
      PROVE  RunningIsExecuted'
  BY <1>0
<1>1. CASE Handle
  <2>1. ASSUME NEW t \in Templates, NEW value, NEW what,
               Edit(SetTemplate(t, value), what), UNCHANGED goVars
        PROVE  RunningIsExecuted'
    <3>1. data'.runs = data.runs
      BY <2>1 DEF Edit, SetTemplate, Parts, StoreOK, Store
    <3> QED BY <1>0, <2>1, <3>1, StatusKept DEF goVars
  <2>2. ASSUME NEW t \in Templates, NEW p \in Policies, NEW enabled \in BOOLEAN,
               SaveTemplate(t, p, enabled)
        PROVE  RunningIsExecuted'
    BY <2>1, <2>2 DEF SaveTemplate
  <2>3. ASSUME NEW t \in Templates, DeleteTemplate(t) PROVE RunningIsExecuted'
    BY <2>1, <2>3 DEF DeleteTemplate
  <2>4. ASSUME NEW t \in Templates, StartRun(t) PROVE RunningIsExecuted'
    BY <1>0, <2>4, StatusQueued DEF StartRun, goVars
  <2>5. ASSUME NEW r \in Runs, CancelQueued(r) PROVE RunningIsExecuted'
    <3>1. data.runs[r] # None /\ "cancelled" \in Statuses /\ None \in File
      BY <2>5 DEF CancelQueued, Status, Statuses, File
    <3>2. CASE data' = data
      BY <1>0, <2>5, <3>2 DEF CancelQueued, goVars, Status
    <3>3. CASE data' = SetStatus(r, "cancelled")
      BY <1>0, <2>5, <3>1, <3>3, StatusSet DEF CancelQueued, goVars
    <3> QED BY <2>5, <3>2, <3>3 DEF CancelQueued, Edit
  <2>6. ASSUME UNCHANGED <<storeVars, worker>> PROVE RunningIsExecuted'
    BY <1>0, <2>6, StatusKept DEF storeVars
  <2>7. ASSUME NEW r \in Runs, CancelRunning(r) PROVE RunningIsExecuted'
    BY <2>6, <2>7 DEF CancelRunning
  <2>8. CASE CancelExtraction \/ StartExtraction
    BY <2>6, <2>8 DEF CancelExtraction, StartExtraction, goVars
  <2>9. ASSUME NEW incomplete \in BOOLEAN, LoadDataset(incomplete)
        PROVE  RunningIsExecuted'
    BY <2>6, <2>9 DEF LoadDataset, goVars
  <2> QED BY <1>1, <2>2, <2>3, <2>4, <2>5, <2>7, <2>8, <2>9 DEF Handle
<1>2. CASE Extract
  BY <1>0, <1>2, StatusKept DEF Extract, ExtractAbort, ExtractFetched,
    ExtractWritten, storeVars, goVars
<1>3. CASE Work
  <2>1. ASSUME worker.stage # "idle", NEW status \in Statuses \ {"running"},
               \/ Update(SetStatus(worker.run, status))
               \/ \E file \in File : Finish(status, file)
        PROVE  \A r \in Runs : Status(r)' # "running"
    <3>1. \A r \in Runs :
            Status(r)' = IF r = worker.run /\ data.runs[r] # None THEN status
                         ELSE Status(r)
      BY <2>1, StatusWritten
    <3>2. \A r \in Runs : r # worker.run => Status(r) # "running"
      OBVIOUS
    <3> QED BY <2>1, <3>1, <3>2 DEF Status
  <2>2. None \in File /\ result.file \in File
    BY DEF File, Parts, ResultOK
  <2>3. CASE TakeRun
    <3>1. \A r \in Runs : Status(r) # "running"
      BY <2>3 DEF TakeRun, Receiving
    <3>2. CASE UNCHANGED storeVars
      BY <3>1, <3>2, StatusKept DEF storeVars
    <3>3. CASE /\ Executable(Head(queue))
               /\ Persist(SetStatus(Head(queue), "failed"))
      <4>1. Head(queue) \in Runs
        BY <2>3 DEF TakeRun, Receiving, Parts, HandOK
      <4>2. data.runs[Head(queue)] # None /\ "failed" \in Statuses
            /\ data' = SetStatus(Head(queue), "failed")
        BY <3>3 DEF Executable, Status, Statuses, Persist
      <4> QED BY <2>2, <3>1, <4>1, <4>2, StatusSet
    <3> QED BY <2>3, <3>2, <3>3 DEF TakeRun
  <2>4. CASE WaitOver \/ Begin
    BY <2>4, StatusKept DEF WaitOver, Begin, storeVars
  <2>5. CASE MarkRunning
    <3>1. worker'.stage = "run" /\ worker'.run = worker.run
      BY <2>5, Busy DEF MarkRunning, GoTo, BusyWorker
    <3>2. \A r \in Runs : Status(r) # "running"
      BY <2>5 DEF MarkRunning
    <3>3. \A r \in Runs : r # worker.run => Status(r)' = Status(r)
      BY <2>5, StatusWritten DEF MarkRunning, Statuses
    <3> QED BY <3>1, <3>2, <3>3
  <2>6. CASE BeginFails
    BY <2>1, <2>6 DEF BeginFails, Statuses
  <2>7. CASE FinishCancelled
    BY <2>1, <2>2, <2>7 DEF FinishCancelled, Returned, Statuses
  <2>8. CASE FinishFailed
    BY <2>1, <2>2, <2>8 DEF FinishFailed, Returned, Statuses
  <2>9. CASE FinishPartial
    BY <2>1, <2>2, <2>9 DEF FinishPartial, Returned, Statuses
  <2>10. CASE FinishUnreported
    BY <2>1, <2>2, <2>10 DEF FinishUnreported, Returned, Statuses
  <2>11. ASSUME NEW deliver \in BOOLEAN, FinishCompleted(deliver)
         PROVE  RunningIsExecuted'
    BY <2>1, <2>2, <2>11 DEF FinishCompleted, Returned, Statuses
  <2>12. CASE Deliver \/ RecordDelivery
    <3>1. \A r \in Runs : Status(r) # "running"
      BY <2>12 DEF Deliver, RecordDelivery
    <3>2. data' = data
      BY <2>12 DEF Deliver, RecordDelivery, Update, Persist, storeVars
    <3> QED BY <3>1, <3>2, StatusKept
  <2> QED BY <1>3, <2>3, <2>4, <2>5, <2>6, <2>7, <2>8, <2>9, <2>10, <2>11, <2>12
        DEF Work
<1>4. CASE Schedule
  <2>1. CASE ScanSchedules
    <3>1. data' = data \/ data' = Advanced
      BY <2>1 DEF ScanSchedules, Persist, storeVars
    <3>2. Advanced.runs = data.runs
      BY DEF Advanced, Parts, StoreOK, Store
    <3> QED BY <1>0, <2>1, <3>1, <3>2, StatusKept DEF ScanSchedules
  <2>2. ASSUME NEW t \in Templates, QueueDue(t) PROVE RunningIsExecuted'
    <3>1. UNCHANGED storeVars \/ QueueRun(t)
      BY <2>2 DEF QueueDue
    <3>2. \A r \in Runs : Status(r)' \in {Status(r), "absent", "queued"}
      BY <3>1, StatusQueued, StatusKept DEF storeVars
    <3> QED BY <1>0, <2>2, <3>2 DEF QueueDue
  <2> QED BY <1>4, <2>1, <2>2 DEF Schedule
<1>5. CASE Recover
  BY <1>0, <1>5, StatusKept DEF Recover, ScanQueued, SendRecovered, RecoveryDone,
    storeVars
<1>6. ASSUME NEW t \in Templates, FallDue(t) PROVE RunningIsExecuted'
  <2>1. data'.runs = data.runs
    BY <1>6 DEF FallDue, Parts, StoreOK, Store
  <2> QED BY <1>0, <1>6, <2>1, StatusKept DEF FallDue, goVars
<1>7. CASE Restart
  BY <1>7, NothingRunning DEF Restart, Status, Parts, StoreOK
<1>8. CASE CancelSignal \/ (\E r \in Runs : WaitingSend(r)) \/ UNCHANGED vars
  BY <1>0, <1>8, StatusKept DEF CancelSignal, WaitingSend, vars, storeVars, goVars
<1> QED BY <1>1, <1>2, <1>3, <1>4, <1>5, <1>6, <1>7, <1>8 DEF Next

(* The one run shown as running is the one the worker is executing,        *)
(* through restarts, cancellations, edits and extractions of the page.     *)
THEOREM Executed == Spec => []RunningIsExecuted
<1>1. Init => RunningIsExecuted
  BY DEF Init, RunningIsExecuted, Status
<1> QED BY <1>1, PartsAlways, ExecutedNext, PTL DEF Spec

-----------------------------------------------------------------------------
(* Where a queued run can be.                                              *)
Held == InQueue \cup waiting \cup ToBeSent \cup InHand

LEMMA Appended ==
  ASSUME Parts, NEW r \in Runs, queue' = Append(queue, r)
  PROVE  InQueue' = InQueue \cup {r}
<1>1. Len(queue') = Len(queue) + 1 /\ Len(queue) \in Nat
      /\ queue'[Len(queue) + 1] = r
      /\ \A i \in 1 .. Len(queue) : queue'[i] = queue[i]
  BY DEF Parts, HandOK
<1>2. \A i \in 1 .. Len(queue') : i \in 1 .. Len(queue) \/ i = Len(queue) + 1
  BY <1>1
<1>3. InQueue' \subseteq InQueue \cup {r}
  BY <1>1, <1>2 DEF InQueue
<1>4. InQueue \cup {r} \subseteq InQueue'
  BY <1>1 DEF InQueue
<1> QED BY <1>3, <1>4

LEMMA Popped ==
  ASSUME Parts, queue # <<>>, queue' = Tail(queue)
  PROVE  InQueue \subseteq InQueue' \cup {Head(queue)}
<1>1. Len(queue') = Len(queue) - 1 /\ Len(queue) \in Nat \ {0}
      /\ Head(queue) = queue[1]
      /\ \A i \in 1 .. Len(queue) - 1 : queue'[i] = queue[i + 1]
  BY DEF Parts, HandOK
<1>2. SUFFICES ASSUME NEW i \in 1 .. Len(queue)
               PROVE  queue[i] \in InQueue' \cup {Head(queue)}
  BY DEF InQueue
<1>3. CASE i = 1
  BY <1>1, <1>3
<1>4. CASE i # 1
  <2>1. i - 1 \in 1 .. Len(queue') /\ queue'[i - 1] = queue[i]
    BY <1>1, <1>4
  <2> QED BY <2>1 DEF InQueue
<1> QED BY <1>3, <1>4

LEMMA SentHeld ==
  ASSUME Parts, NEW r \in Runs, Send(r)
  PROVE  InQueue' \cup waiting' = InQueue \cup waiting \cup {r}
<1>1. CASE Len(queue) < QueueSize
  BY <1>1, Appended DEF Send
<1>2. CASE ~(Len(queue) < QueueSize)
  BY <1>2 DEF Send, InQueue
<1> QED BY <1>1, <1>2

LEMMA KeptHeld ==
  ASSUME UNCHANGED <<handVars, recovery, worker>>
  PROVE  Held' = Held
BY DEF Held, InQueue, ToBeSent, InHand, handVars

(* A run is sent as soon as it is queued.                                  *)
LEMMA QueuedHeld ==
  ASSUME Parts, QueuedInHand, NEW t \in Templates, QueueRun(t),
         UNCHANGED <<recovery, worker>>
  PROVE  QueuedInHand'
<1> DEFINE r == issued + 1
           runs == [data.runs EXCEPT ![r] = NewRun(t)]
<1>1. CASE UNCHANGED <<data, handVars>>
  BY <1>1, KeptHeld DEF QueuedInHand, Held, Status
<1>2. CASE data' = [data EXCEPT !.runs = Trim(runs)] /\ Send(r)
  <2>1. r \in Runs
    BY RunFacts DEF QueueRun, Runs, Parts, IssuedOK
  <2>2. data.runs \in Histories /\ NewRun(t) \in Run
    BY DEF Parts, StoreOK, Store, Histories, NewRun, Run, Statuses, File
  <2>3. runs \in Histories
    BY <2>2 DEF Histories
  <2>4. data'.runs = Trim(runs)
    BY <1>2 DEF Parts, StoreOK, Store
  <2>5. \A s \in Runs \ {r} : runs[s] = data.runs[s]
    BY <2>2 DEF Histories
  <2> HIDE DEF runs
  <2>6. \A s \in Runs \ {r} : data'.runs[s] \in {data.runs[s], None}
    BY <2>3, <2>4, <2>5, Trimmed
  <2>7. \A s \in Runs \ {r} : Status(s)' = "queued" => Status(s) = "queued"
    BY <2>6 DEF Status
  <2>8. Held' = Held \cup {r}
    BY <1>2, <2>1, SentHeld DEF Held, ToBeSent, InHand
  <2> QED BY <2>7, <2>8 DEF QueuedInHand, Held
<1> QED BY <1>1, <1>2 DEF QueueRun

(* A step of the worker that only changes its run's status: whatever it    *)
(* had in hand is no longer queued.                                        *)
LEMMA WorkHeld ==
  ASSUME Parts, QueuedInHand, UNCHANGED <<handVars, recovery>>,
         worker.stage # "idle", NEW status \in Statuses \ {"queued"},
         \/ Update(SetStatus(worker.run, status))
         \/ \E file \in File : Finish(status, file)
  PROVE  QueuedInHand'
<1>1. \A r \in Runs :
        Status(r)' = IF r = worker.run /\ data.runs[r] # None THEN status
                     ELSE Status(r)
  BY StatusWritten
<1>2. \A r \in Runs : Status(r)' = "queued" => Status(r) = "queued" /\ r # worker.run
  BY <1>1 DEF Status
<1>3. Held \subseteq Held' \cup {worker.run}
  BY DEF Held, InQueue, ToBeSent, InHand, handVars
<1> QED BY <1>2, <1>3 DEF QueuedInHand, Held

LEMMA HeldNext == Parts /\ QueuedInHand /\ [Next]_vars => QueuedInHand'
<1> SUFFICES ASSUME Parts, QueuedInHand, [Next]_vars PROVE QueuedInHand'
  OBVIOUS
<1>0. ASSUME Held \subseteq Held',
             \A r \in Runs : Status(r)' = "queued" => Status(r) = "queued"
      PROVE  QueuedInHand'
  BY <1>0 DEF QueuedInHand, Held
<1>1. CASE Handle
  <2>1. ASSUME NEW t \in Templates, NEW value, NEW what,
               Edit(SetTemplate(t, value), what), UNCHANGED <<handVars, goVars>>
        PROVE  QueuedInHand'
    <3>1. data'.runs = data.runs
      BY <2>1 DEF Edit, SetTemplate, Parts, StoreOK, Store
    <3> QED BY <1>0, <2>1, <3>1, StatusKept, KeptHeld DEF goVars
  <2>2. ASSUME NEW t \in Templates, NEW p \in Policies, NEW enabled \in BOOLEAN,
               SaveTemplate(t, p, enabled)
        PROVE  QueuedInHand'
    BY <2>1, <2>2 DEF SaveTemplate
  <2>3. ASSUME NEW t \in Templates, DeleteTemplate(t) PROVE QueuedInHand'
    BY <2>1, <2>3 DEF DeleteTemplate
  <2>4. ASSUME NEW t \in Templates, StartRun(t) PROVE QueuedInHand'
    BY <2>4, QueuedHeld DEF StartRun, goVars
  <2>5. ASSUME NEW r \in Runs, CancelQueued(r) PROVE QueuedInHand'
    <3>1. data.runs[r] # None /\ "cancelled" \in Statuses /\ None \in File
      BY <2>5 DEF CancelQueued, Status, Statuses, File
    <3>2. \A s \in Runs : Status(s)' = "queued" => Status(s) = "queued"
      <4>1. CASE data' = data
        BY <4>1 DEF Status
      <4>2. CASE data' = SetStatus(r, "cancelled")
        BY <3>1, <4>2, StatusSet
      <4> QED BY <2>5, <4>1, <4>2 DEF CancelQueued, Edit
    <3> QED BY <1>0, <2>5, <3>2, KeptHeld DEF CancelQueued, goVars
  <2>6. ASSUME UNCHANGED <<storeVars, handVars, recovery, worker>>
        PROVE  QueuedInHand'
    BY <1>0, <2>6, StatusKept, KeptHeld DEF storeVars
  <2>7. ASSUME NEW r \in Runs, CancelRunning(r) PROVE QueuedInHand'
    BY <2>6, <2>7 DEF CancelRunning
  <2>8. CASE CancelExtraction \/ StartExtraction
    BY <2>6, <2>8 DEF CancelExtraction, StartExtraction, goVars
  <2>9. ASSUME NEW incomplete \in BOOLEAN, LoadDataset(incomplete)
        PROVE  QueuedInHand'
    BY <2>6, <2>9 DEF LoadDataset, goVars
  <2> QED BY <1>1, <2>2, <2>3, <2>4, <2>5, <2>7, <2>8, <2>9 DEF Handle
<1>2. CASE Extract
  BY <1>0, <1>2, StatusKept, KeptHeld DEF Extract, ExtractAbort, ExtractFetched,
    ExtractWritten, storeVars, goVars
<1>3. CASE Work
  <2>1. None \in File /\ result.file \in File
    BY DEF File, Parts, ResultOK
  <2>2. CASE TakeRun
    <3> DEFINE r == Head(queue)
    <3>1. worker.stage = "idle" /\ queue # <<>> /\ queue' = Tail(queue)
          /\ UNCHANGED <<waiting, recovery>>
      BY <2>2 DEF TakeRun, Receiving
    <3>2. r \in Runs
      BY <3>1 DEF Parts, HandOK
    <3>3. Held \subseteq Held' \cup {r}
      BY <3>1, Popped DEF Held, ToBeSent, InHand
    <3>4. CASE UNCHANGED storeVars /\ ~Executable(r)
      <4>1. \A s \in Runs : Status(s)' = Status(s)
        BY <3>4, StatusKept DEF storeVars
      <4> QED BY <3>3, <3>4, <4>1 DEF Executable, QueuedInHand, Held
    <3>5. CASE Executable(r) /\ Persist(SetStatus(r, "failed"))
      <4>1. data.runs[r] # None /\ "failed" \in Statuses
            /\ data' = SetStatus(r, "failed")
        BY <3>5 DEF Executable, Status, Statuses, Persist
      <4>2. \A s \in Runs : Status(s)' = IF s = r THEN "failed" ELSE Status(s)
        BY <2>1, <3>2, <4>1, StatusSet
      <4> QED BY <3>2, <3>3, <4>2 DEF QueuedInHand, Held
    <3>6. CASE /\ worker' = [stage |-> "wait", run |-> r, message |-> None]
               /\ UNCHANGED storeVars
      <4>1. InHand' = {r}
        BY <3>6 DEF InHand
      <4>2. \A s \in Runs : Status(s)' = Status(s)
        BY <3>6, StatusKept DEF storeVars
      <4> QED BY <1>0, <3>3, <4>1, <4>2 DEF Held
    <3> QED BY <2>2, <3>4, <3>5, <3>6 DEF TakeRun
  <2>3. CASE WaitOver \/ Begin
    <3>1. /\ worker.stage # "idle" /\ UNCHANGED <<data, handVars, recovery>>
          /\ GoTo("begin") \/ GoTo("mark")
      BY <2>3 DEF WaitOver, Begin, storeVars
    <3>2. InHand \subseteq InHand'
      BY <3>1, Busy DEF InHand, GoTo, BusyWorker
    <3>3. Held \subseteq Held'
      BY <3>1, <3>2 DEF Held, InQueue, ToBeSent, handVars
    <3> QED BY <1>0, <3>1, <3>3, StatusKept
  <2>4. CASE BeginFails
    BY <2>4, WorkHeld DEF BeginFails, Statuses
  <2>5. CASE MarkRunning
    BY <2>5, WorkHeld DEF MarkRunning, Statuses
  <2>6. CASE FinishCancelled
    BY <2>1, <2>6, WorkHeld DEF FinishCancelled, Returned, Statuses
  <2>7. CASE FinishFailed
    BY <2>1, <2>7, WorkHeld DEF FinishFailed, Returned, Statuses
  <2>8. CASE FinishPartial
    BY <2>1, <2>8, WorkHeld DEF FinishPartial, Returned, Statuses
  <2>9. CASE FinishUnreported
    BY <2>1, <2>9, WorkHeld DEF FinishUnreported, Returned, Statuses
  <2>10. ASSUME NEW deliver \in BOOLEAN, FinishCompleted(deliver)
         PROVE  QueuedInHand'
    BY <2>1, <2>10, WorkHeld DEF FinishCompleted, Returned, Statuses
  <2>11. CASE Deliver \/ RecordDelivery
    <3>1. data' = data /\ UNCHANGED <<handVars, recovery>> /\ InHand = {}
      BY <2>11 DEF Deliver, RecordDelivery, Update, Persist, storeVars, InHand
    <3>2. Held \subseteq Held'
      BY <3>1 DEF Held, InQueue, ToBeSent, handVars
    <3> QED BY <1>0, <3>1, <3>2, StatusKept
  <2> QED BY <1>3, <2>2, <2>3, <2>4, <2>5, <2>6, <2>7, <2>8, <2>9, <2>10, <2>11
        DEF Work
<1>4. CASE Schedule
  <2>1. CASE ScanSchedules
    <3>1. data' = data \/ data' = Advanced
      BY <2>1 DEF ScanSchedules, Persist, storeVars
    <3>2. Advanced.runs = data.runs
      BY DEF Advanced, Parts, StoreOK, Store
    <3> QED BY <1>0, <2>1, <3>1, <3>2, StatusKept, KeptHeld DEF ScanSchedules
  <2>2. ASSUME NEW t \in Templates, QueueDue(t) PROVE QueuedInHand'
    <3>1. CASE UNCHANGED <<storeVars, handVars>>
      BY <1>0, <2>2, <3>1, StatusKept, KeptHeld DEF QueueDue, storeVars
    <3>2. CASE QueueRun(t)
      BY <2>2, <3>2, QueuedHeld DEF QueueDue
    <3> QED BY <2>2, <3>1, <3>2 DEF QueueDue
  <2> QED BY <1>4, <2>1, <2>2 DEF Schedule
<1>5. CASE Recover
  <2>0. \A r \in Runs : Status(r)' = Status(r)
    BY <1>5, StatusKept DEF Recover, ScanQueued, SendRecovered, RecoveryDone,
      storeVars
  <2>1. CASE ScanQueued
    <3>1. ToBeSent' = {r \in Runs : Status(r) = "queued"}
      BY <2>1 DEF ScanQueued, ToBeSent
    <3> QED BY <2>0, <3>1 DEF QueuedInHand
  <2>2. ASSUME NEW r \in Runs, SendRecovered(r) PROVE QueuedInHand'
    <3>1. InQueue' = InQueue \cup {r} /\ waiting' = waiting
      BY <2>2, Appended DEF SendRecovered
    <3>2. ToBeSent \subseteq ToBeSent' \cup {r} /\ InHand' = InHand
      BY <2>2 DEF SendRecovered, ToBeSent, InHand, Parts, RecoveryOK
    <3> QED BY <1>0, <2>0, <3>1, <3>2 DEF Held
  <2>3. CASE RecoveryDone
    <3>1. ToBeSent = {} /\ UNCHANGED <<handVars, worker>>
      BY <2>3 DEF RecoveryDone, ToBeSent
    <3>2. Held \subseteq Held'
      BY <3>1 DEF Held, InQueue, InHand, handVars
    <3> QED BY <1>0, <2>0, <3>2
  <2> QED BY <1>5, <2>1, <2>2, <2>3 DEF Recover
<1>6. ASSUME NEW t \in Templates, FallDue(t) PROVE QueuedInHand'
  <2>1. data'.runs = data.runs
    BY <1>6 DEF FallDue, Parts, StoreOK, Store
  <2> QED BY <1>0, <1>6, <2>1, StatusKept, KeptHeld DEF FallDue, goVars
<1>7. CASE Restart
  <2>1. ToBeSent' = Runs
    BY <1>7 DEF Restart, ToBeSent
  <2> QED BY <2>1 DEF QueuedInHand
<1>8. CASE CancelSignal \/ UNCHANGED vars
  BY <1>0, <1>8, StatusKept, KeptHeld DEF CancelSignal, vars, storeVars, goVars
<1>9. ASSUME NEW r \in Runs, WaitingSend(r) PROVE QueuedInHand'
  <2>1. /\ InQueue' = InQueue \cup {r} /\ waiting' = waiting \ {r}
        /\ UNCHANGED <<data, recovery, worker>>
    BY <1>9, Appended DEF WaitingSend, storeVars, goVars
  <2>2. Held \subseteq Held'
    BY <2>1 DEF Held, ToBeSent, InHand
  <2> QED BY <1>0, <2>1, <2>2, StatusKept
<1> QED BY <1>1, <1>2, <1>3, <1>4, <1>5, <1>6, <1>7, <1>8, <1>9 DEF Next

(* No queued run is forgotten, whatever saves fail and whenever the        *)
(* process stops: it is in the channel, waits to enter it, is about to be  *)
(* recovered, or the worker has it.                                        *)
THEOREM NoRunForgotten == Spec => []QueuedInHand
<1>1. Init => QueuedInHand
  BY DEF Init, QueuedInHand, Status
<1> QED BY <1>1, PartsAlways, HeldNext, PTL DEF Spec

-----------------------------------------------------------------------------
(* What was sent of a run *)

(* The status of a run in a store, and on disk.                            *)
StatusIn(store, r) == IF store.runs[r] = None THEN "absent" ELSE store.runs[r].status
DiskStatus(r) == StatusIn(disk, r)

(* The messages of a run that count if n saves may fail: all of them if    *)
(* none may, else the reports.                                             *)
Got(r, n) == IF n = 1 THEN sent[r].report ELSE sent[r].report + sent[r].failure
Sending(n) == worker.stage = "send" /\ (n = 1 => worker.message = "report")
Engaged(n) == worker.stage \in {"wait", "begin", "mark", "run"} \/ Sending(n)

(* Ids are not used again; a failed save is the only way the file differs  *)
(* from the history; the worker's run is no longer queued once it is       *)
(* marked, and one the history dropped is queued nowhere.                  *)
Numbered ==
  /\ \A r \in Runs : Status(r) # "absent" \/ DiskStatus(r) # "absent" => r <= issued
  /\ worker.stage # "idle" => worker.run <= issued
Synced == spent.faults = 0 => disk.runs = data.runs
Marked == worker.stage = "run" => Status(worker.run) # "queued"
Gone ==
  worker.stage # "idle" /\ Status(worker.run) = "absent" => DiskStatus(worker.run) # "queued"

(* A run of which something was sent is over, in the history and on disk,  *)
(* and not in the hands of the worker; so is the one of a message about to *)
(* be sent.                                                                *)
Over(r) == Status(r) \notin Active /\ DiskStatus(r) # "queued"
OnceOf(n) ==
  /\ \A r \in Runs : Got(r, n) <= 1
  /\ \A r \in Runs : Got(r, n) > 0 =>
       r <= issued /\ Over(r) /\ ~(Engaged(n) /\ worker.run = r)
  /\ Sending(n) => Over(worker.run)
OnceInv ==
  /\ Numbered /\ Synced /\ Marked /\ Gone
  /\ \A n \in {0, 1} : spent.faults <= n => OnceOf(n)

(* What a run that is reported is made of, as long as nobody uses the      *)
(* extraction state but the worker.                                        *)
Honest(store) == \A r \in Runs : StatusIn(store, r) = "completed" => store.runs[r].file = r
Own ==
  /\ extraction.owner \in {None, worker.run}
  /\ extraction.owner # None => worker.stage \in {"mark", "run"}
  /\ worker.stage = "mark" => extraction.owner = worker.run
Fetched ==
  /\ extraction.owner # None =>
       /\ result.file = None
       /\ extraction.stage = "write" =>
            extraction.got # "none" /\ result.incomplete = (extraction.got = "partial")
  /\ Returned /\ result.file # None =>
       result.file = worker.run /\ (~result.incomplete => output[worker.run] = "full")
Reporting == Sending(1) => output[worker.run] = "full"
Backed == \A r \in Runs : sent[r].report > 0 => output[r] = "full"
WholeInv == Honest(data) /\ Honest(disk) /\ Own /\ Fetched /\ Reporting /\ Backed
Alone == spent.manual = 0 /\ spent.loads = 0
ReportInv == spent.faults <= 1 /\ Alone => WholeInv

-----------------------------------------------------------------------------
(* How the stores change.  The history follows another store if the runs   *)
(* but w are as they were or over, none that is gone comes back, and only  *)
(* a new id is new.                                                        *)
Follows(new, w) ==
  \A r \in Runs :
    /\ r # w /\ r <= issued =>
         StatusIn(new, r) = Status(r) \/ StatusIn(new, r) \notin Active
    /\ r # w => new.runs[r] = data.runs[r] \/ StatusIn(new, r) # "completed"
    /\ StatusIn(new, r) # "absent" =>
         Status(r) # "absent" \/ (r = issued' /\ issued' = issued + 1)
Keeps(new) == \A r \in Runs : StatusIn(new, r) = "absent" => Status(r) = "absent"

(* It is saved, or a save failed; then nothing was dropped from it.        *)
Written(new) ==
  \/ data' = new /\ disk' = new
  \/ /\ spent'.faults = spent.faults + 1
     /\ disk' \in {disk, new}
     /\ data' = data \/ (data' = new /\ Keeps(new))
Stored(w) ==
  \/ data'.runs = data.runs /\ disk'.runs = disk.runs
  \/ \E new : Follows(new, w) /\ Written(new)

LEMMA StatusOf ==
  \A r \in Runs : Status(r) = StatusIn(data, r) /\ Status(r)' = StatusIn(data', r)
                  /\ DiskStatus(r)' = StatusIn(disk', r)
BY DEF Status, StatusIn, DiskStatus

LEMMA SameRuns ==
  ASSUME NEW one, NEW two, one.runs = two.runs
  PROVE  \A r \in Runs : StatusIn(one, r) = StatusIn(two, r)
BY DEF StatusIn

LEMMA FaultSpent ==
  ASSUME spent \in Counters, NEW bounds, Spend(bounds)
  PROVE  /\ "faults" \in bounds => spent'.faults = spent.faults + 1
         /\ spent'.faults \in Nat /\ spent'.faults >= spent.faults
         /\ spent'.manual >= spent.manual /\ spent'.loads >= spent.loads
         /\ spent'.edits >= spent.edits
BY DEF Spend, Counters

LEMMA PersistWritten ==
  ASSUME spent \in Counters, NEW new, Persist(new), Keeps(new)
  PROVE  Written(new)
<1>1. CASE SaveFails(new)
  <2>1. spent'.faults = spent.faults + 1
    BY <1>1, FaultSpent DEF SaveFails, Fault
  <2>2. disk' \in {disk, new} /\ data' = new
    BY <1>1 DEF SaveFails, Persist
  <2> QED BY <2>1, <2>2 DEF Written
<1>2. CASE disk' = new
  BY <1>2 DEF Persist, Written
<1> QED BY <1>1, <1>2 DEF Persist

LEMMA EditWritten ==
  ASSUME spent \in Counters, NEW new, NEW what, Edit(new, what)
  PROVE  Written(new)
<1>1. CASE data' = new /\ disk' = new
  BY <1>1 DEF Written
<1>2. CASE Spend({what, "faults"}) /\ disk' \in {disk, new} /\ data' = data
  BY <1>2, FaultSpent DEF Written
<1> QED BY <1>1, <1>2 DEF Edit

(* Runs that are left alone.                                               *)
LEMMA AloneFollows ==
  ASSUME NEW new, new.runs = data.runs, NEW w
  PROVE  Follows(new, w) /\ Keeps(new)
BY SameRuns, StatusOf DEF Follows, Keeps

LEMMA QueueStored ==
  ASSUME Parts, Numbered, NEW t \in Templates, QueueRun(t)
  PROVE  Stored(None)
<1> DEFINE r == issued + 1
           runs == [data.runs EXCEPT ![r] = NewRun(t)]
           new == [data EXCEPT !.runs = Trim(runs)]
<1>1. r \in Runs /\ issued' = r /\ Runs \subseteq Nat /\ issued \in Nat /\ spent \in Counters
  BY RunFacts DEF QueueRun, Runs, Parts, IssuedOK, SpentOK
<1>2. data.runs \in Histories /\ NewRun(t) \in Run /\ NewRun(t).status = "queued"
  BY DEF Parts, StoreOK, Store, Histories, NewRun, Run, Statuses, File
<1>3. runs \in Histories /\ runs[r] = NewRun(t) /\ \A s \in Runs \ {r} : runs[s] = data.runs[s]
  BY <1>1, <1>2 DEF Histories
<1>4. new.runs = Trim(runs)
  BY DEF Parts, StoreOK, Store
<1> HIDE DEF runs
<1>5. \A s \in Runs : new.runs[s] \in {runs[s], None}
  BY <1>3, <1>4, Trimmed
<1>6. Written(new)
  <2>1. CASE data' = new /\ disk' = new
    BY <2>1 DEF Written
  <2>2. CASE SaveFails(new) /\ data' = data
    BY <1>1, <2>2, FaultSpent DEF SaveFails, Fault, Written
  <2> QED BY <2>1, <2>2 DEF QueueRun, runs
<1> HIDE DEF new
<1>7. Follows(new, None)
  <2> SUFFICES ASSUME NEW s \in Runs
               PROVE  /\ s <= issued => StatusIn(new, s) = Status(s) \/ StatusIn(new, s) \notin Active
                      /\ new.runs[s] = data.runs[s] \/ StatusIn(new, s) # "completed"
                      /\ StatusIn(new, s) # "absent" =>
                           Status(s) # "absent" \/ (s = issued' /\ issued' = issued + 1)
    BY DEF Follows
  <2>1. CASE s = r
    <3>1. StatusIn(new, s) \in {"queued", "absent"} /\ ~(s <= issued)
      BY <1>1, <1>2, <1>3, <1>5, <2>1 DEF StatusIn
    <3> QED BY <1>1, <2>1, <3>1
  <2>2. CASE s # r
    <3>1. new.runs[s] \in {data.runs[s], None}
      BY <1>3, <1>5, <2>2
    <3>2. StatusIn(new, s) = Status(s) \/ StatusIn(new, s) = "absent"
      BY <3>1 DEF StatusIn, Status
    <3> QED BY <3>1, <3>2 DEF StatusIn, Active
  <2> QED BY <2>1, <2>2
<1> QED BY <1>6, <1>7 DEF Stored

(* One run has its status changed, by the worker or by an operator.        *)
LEMMA StatusFollows ==
  ASSUME Parts, NEW r \in Runs, NEW status \in Statuses, NEW file \in File,
         data.runs[r] # None,
         NEW new \in {SetStatus(r, status),
                      SetRun(r, [data.runs[r] EXCEPT !.status = status, !.file = file])}
  PROVE  /\ \A s \in Runs \ {r} : new.runs[s] = data.runs[s]
         /\ StatusIn(new, r) = status /\ Follows(new, r) /\ Keeps(new)
<1>1. data \in Store /\ data.runs[r] \in Run
  BY DEF Parts, StoreOK, Store
<1> DEFINE one == [data.runs[r] EXCEPT !.status = status]
           two == [data.runs[r] EXCEPT !.status = status, !.file = file]
<1>2. one \in Run /\ one.status = status /\ two \in Run /\ two.status = status
  BY <1>1 DEF Run
<1>3. new.runs[r] \in {one, two}
  BY <1>1 DEF SetStatus, SetRun, Store
<1> HIDE DEF one, two
<1>4. StatusIn(new, r) = status /\ status # "absent"
  BY <1>2, <1>3, NoneAssumption DEF StatusIn, Statuses
<1> USE DEF one, two
<1>5. \A s \in Runs \ {r} : new.runs[s] = data.runs[s]
  BY <1>1 DEF SetStatus, SetRun, Store
<1>6. \A s \in Runs \ {r} : StatusIn(new, s) = Status(s)
  BY <1>5 DEF StatusIn, Status
<1>7. Status(r) # "absent"
  BY <1>1, NoneAssumption DEF Status, Run, Statuses
<1> HIDE DEF one, two
<1> QED BY <1>4, <1>5, <1>6, <1>7 DEF Follows, Keeps

(* What follows for the statuses, in the history and on disk.              *)
Moves(w) ==
  /\ \A r \in Runs : r # w /\ r <= issued =>
       /\ Status(r)' = Status(r) \/ Status(r)' \notin Active
       /\ DiskStatus(r)' = "queued" => DiskStatus(r) = "queued" \/ Status(r) \in Active
  /\ \A r \in Runs : Status(r)' # "absent" \/ DiskStatus(r)' # "absent" =>
       Status(r) # "absent" \/ DiskStatus(r) # "absent" \/ r = issued'
  /\ \A r \in Runs :
       /\ r <= issued /\ Status(r)' = "absent"
       /\ Status(r) = "absent" => DiskStatus(r) # "queued"
       => DiskStatus(r)' # "queued"

LEMMA StatusMoves ==
  ASSUME Parts, Parts', NEW w, Stored(w), issued' \in {issued, issued + 1}
  PROVE  Moves(w)
<1>1. CASE data'.runs = data.runs /\ disk'.runs = disk.runs
  <2>1. \A r \in Runs : Status(r)' = Status(r) /\ DiskStatus(r)' = DiskStatus(r)
    BY <1>1, SameRuns, StatusOf DEF DiskStatus
  <2> QED BY <2>1 DEF Moves
<1>2. ASSUME NEW new, Follows(new, w), Written(new)
      PROVE  Moves(w)
  <2>1. /\ data' \in {data, new} /\ disk' \in {disk, new}
        /\ data' = new => disk' = new \/ Keeps(new)
    BY <1>2, StatusOf DEF Written, Keeps
  <2>2. \A r \in Runs : Status(r)' \in {Status(r), StatusIn(new, r)}
                        /\ DiskStatus(r)' \in {DiskStatus(r), StatusIn(new, r)}
    BY <2>1, StatusOf DEF DiskStatus
  <2>3. ASSUME NEW r \in Runs, r # w, r <= issued
        PROVE  /\ Status(r)' = Status(r) \/ Status(r)' \notin Active
               /\ DiskStatus(r)' = "queued" => DiskStatus(r) = "queued" \/ Status(r) \in Active
    BY <1>2, <2>2, <2>3 DEF Follows, Active
  <2>4. ASSUME NEW r \in Runs, Status(r)' # "absent" \/ DiskStatus(r)' # "absent"
        PROVE  Status(r) # "absent" \/ DiskStatus(r) # "absent" \/ r = issued'
    BY <1>2, <2>2, <2>4 DEF Follows
  <2>5. ASSUME NEW r \in Runs, r <= issued, Status(r)' = "absent",
               Status(r) = "absent" => DiskStatus(r) # "queued", DiskStatus(r)' = "queued"
        PROVE  FALSE
    <3>1. issued \in Nat /\ r \in Nat
      BY RunFacts DEF Parts, IssuedOK
    <3>2. CASE Status(r) = "absent"
      <4>1. StatusIn(new, r) = "queued"
        BY <2>2, <2>5, <3>2
      <4> QED BY <1>2, <2>5, <3>1, <3>2, <4>1 DEF Follows
    <3>3. CASE Status(r) # "absent"
      <4>1. data' = new /\ StatusIn(new, r) = "absent"
        BY <2>1, <2>5, <3>3, StatusOf
      <4>2. disk' = new
        BY <2>1, <3>3, <4>1 DEF Keeps
      <4> QED BY <2>5, <4>1, <4>2, StatusOf
    <3> QED BY <3>2, <3>3
  <2> QED BY <2>3, <2>4, <2>5 DEF Moves
<1> QED BY <1>1, <1>2 DEF Stored

-----------------------------------------------------------------------------
(* Bounds that were used stay used.                                        *)
Grows ==
  /\ spent'.faults >= spent.faults /\ spent'.manual >= spent.manual
  /\ spent'.loads >= spent.loads /\ spent'.edits >= spent.edits

LEMMA SpendGrows ==
  ASSUME spent \in Counters, UNCHANGED spent \/ \E bounds : Spend(bounds)
  PROVE  Grows
<1>1. CASE UNCHANGED spent
  BY <1>1 DEF Grows, Counters
<1> QED BY <1>1, FaultSpent DEF Grows

LEMMA WritingSpends ==
  /\ \A new : Persist(new) => UNCHANGED spent \/ \E bounds : Spend(bounds)
  /\ \A new : Update(new) => UNCHANGED spent \/ \E bounds : Spend(bounds)
  /\ \A new, what : Edit(new, what) => \E bounds : Spend(bounds)
  /\ \A t : QueueRun(t) => UNCHANGED spent \/ \E bounds : Spend(bounds)
BY DEF Persist, SaveFails, Fault, Update, Edit, QueueRun

LEMMA NextGrows == Parts /\ [Next]_vars => Grows
<1> SUFFICES ASSUME Parts, [Next]_vars
             PROVE  UNCHANGED spent \/ \E bounds : Spend(bounds)
  BY SpendGrows DEF Parts, SpentOK
<1>1. CASE Handle
  <2>1. ASSUME NEW t \in Templates, NEW p \in Policies, NEW enabled \in BOOLEAN,
               SaveTemplate(t, p, enabled)
        PROVE  \E bounds : Spend(bounds)
    BY <2>1, WritingSpends DEF SaveTemplate
  <2>2. ASSUME NEW t \in Templates, DeleteTemplate(t) \/ StartRun(t)
        PROVE  UNCHANGED spent \/ \E bounds : Spend(bounds)
    BY <2>2, WritingSpends DEF DeleteTemplate, StartRun
  <2>3. ASSUME NEW r \in Runs, CancelQueued(r) \/ CancelRunning(r)
        PROVE  \E bounds : Spend(bounds)
    BY <2>3, WritingSpends DEF CancelQueued, CancelRunning
  <2>4. CASE CancelExtraction \/ StartExtraction
    BY <2>4 DEF CancelExtraction, StartExtraction
  <2>5. ASSUME NEW incomplete \in BOOLEAN, LoadDataset(incomplete)
        PROVE  \E bounds : Spend(bounds)
    BY <2>5 DEF LoadDataset
  <2> QED BY <1>1, <2>1, <2>2, <2>3, <2>4, <2>5 DEF Handle
<1>2. CASE Extract
  BY <1>2 DEF Extract, ExtractAbort, ExtractFetched, ExtractWritten
<1>3. CASE Work
  <2>1. CASE TakeRun
    BY <2>1, WritingSpends DEF TakeRun
  <2>2. CASE WaitOver \/ Begin \/ Deliver
    BY <2>2 DEF WaitOver, Begin, Deliver
  <2>3. CASE BeginFails \/ MarkRunning \/ RecordDelivery
    BY <2>3, WritingSpends DEF BeginFails, MarkRunning, RecordDelivery
  <2>4. CASE FinishCancelled \/ FinishFailed \/ FinishPartial \/ FinishUnreported
    BY <2>4, WritingSpends
       DEF FinishCancelled, FinishFailed, FinishPartial, FinishUnreported, Finish
  <2>5. ASSUME NEW deliver \in BOOLEAN, FinishCompleted(deliver)
        PROVE  UNCHANGED spent \/ \E bounds : Spend(bounds)
    BY <2>5, WritingSpends DEF FinishCompleted, Finish
  <2> QED BY <1>3, <2>1, <2>2, <2>3, <2>4, <2>5 DEF Work
<1>4. CASE Schedule
  BY <1>4, WritingSpends DEF Schedule, ScanSchedules, QueueDue
<1>5. CASE Recover
  BY <1>5 DEF Recover, ScanQueued, SendRecovered, RecoveryDone
<1>6. ASSUME NEW t \in Templates, FallDue(t) PROVE \E bounds : Spend(bounds)
  BY <1>6 DEF FallDue
<1>7. CASE Restart
  BY <1>7 DEF Restart
<1>8. CASE CancelSignal \/ (\E r \in Runs : WaitingSend(r)) \/ UNCHANGED vars
  BY <1>8 DEF CancelSignal, WaitingSend, vars
<1> QED BY <1>1, <1>2, <1>3, <1>4, <1>5, <1>6, <1>7, <1>8 DEF Next

-----------------------------------------------------------------------------
(* What was sent is so once                                                *)
LEMMA SyncedKept ==
  ASSUME Parts, Synced, NEW w, Stored(w), Grows PROVE Synced'
<1>1. spent.faults \in Nat
  BY DEF Parts, SpentOK, Counters
<1> QED BY <1>1 DEF Synced, Stored, Written, Grows

LEMMA GotKept ==
  ASSUME sent' = sent PROVE \A r, n : Got(r, n)' = Got(r, n)
BY DEF Got

LEMMA GotCounts ==
  ASSUME Parts, NEW r \in Runs, NEW n PROVE Got(r, n) \in Nat
BY DEF Got, Parts, SentOK

LEMMA OnceKept ==
  ASSUME Parts, Parts', OnceInv, NEW w, Stored(w), Grows,
         issued' \in {issued, issued + 1}, sent' = sent,
         \A n \in {0, 1} : spent.faults <= n /\ w \in Runs => Got(w, n) = 0,
         worker'.stage # "idle" => worker.stage # "idle" /\ worker'.run = worker.run,
         \A n \in {0, 1} : Engaged(n)' => Engaged(n),
         Marked',
         \A n \in {0, 1} : spent'.faults <= n /\ Sending(n)' => Over(worker.run)'
  PROVE  OnceInv'
<1> USE DEF OnceInv
<1>1. /\ Runs \subseteq Nat /\ issued \in Nat /\ issued' \in Nat /\ issued' >= issued
      /\ spent.faults \in Nat /\ spent'.faults \in Nat /\ spent'.faults >= spent.faults
  BY RunFacts DEF Parts, IssuedOK, SpentOK, Counters, Grows
<1>2. Moves(w)
  BY StatusMoves
<1>3. Synced'
  BY SyncedKept
<1>4. Numbered'
  <2>1. ASSUME NEW r \in Runs, Status(r)' # "absent" \/ DiskStatus(r)' # "absent"
        PROVE  r <= issued'
    BY <1>1, <1>2, <2>1 DEF Moves, Numbered
  <2>2. ASSUME worker'.stage # "idle" PROVE worker'.run <= issued'
    <3>1. worker.run \in Runs /\ worker'.run = worker.run /\ worker.run <= issued
      BY <2>2, Busy DEF Numbered
    <3>2. \A r \in Runs : r <= issued => r <= issued'
      BY <1>1
    <3> QED BY <3>1, <3>2
  <2> QED BY <2>1, <2>2 DEF Numbered
<1>5. Gone'
  <2> SUFFICES ASSUME worker'.stage # "idle", NEW r \in Runs, r = worker'.run,
                      Status(r)' = "absent"
               PROVE  DiskStatus(r)' # "queued"
    <3>1. worker'.stage # "idle" => worker'.run \in Runs
      BY Busy
    <3> QED BY <3>1 DEF Gone
  <2>1. worker.stage # "idle" /\ worker.run = r /\ r <= issued
    BY DEF Numbered
  <2>2. Status(r) = "absent" => DiskStatus(r) # "queued"
    BY <2>1 DEF Gone
  <2> QED BY <1>2, <2>1, <2>2 DEF Moves
<1>6. ASSUME NEW n \in {0, 1}, spent'.faults <= n PROVE OnceOf(n)'
  <2>1. OnceOf(n) /\ spent.faults <= n
    BY <1>1, <1>6
  <2>2. ASSUME NEW r \in Runs, Got(r, n)' > 0
        PROVE  r <= issued' /\ Over(r)' /\ ~(Engaged(n)' /\ worker'.run = r)
    <3>1. Got(r, n) > 0 /\ r # w
      BY <2>1, <2>2, GotKept
    <3>2. r <= issued /\ Over(r) /\ ~(Engaged(n) /\ worker.run = r)
      BY <2>1, <3>1 DEF OnceOf
    <3>3. Over(r)'
      BY <1>2, <3>1, <3>2 DEF Moves, Over
    <3>4. Engaged(n)' => Engaged(n) /\ worker'.run = worker.run
      BY DEF Engaged, Sending
    <3>5. r <= issued'
      BY <1>1, <3>2
    <3> QED BY <3>2, <3>3, <3>4, <3>5
  <2>3. \A r \in Runs : Got(r, n)' <= 1
    BY <2>1, GotKept DEF OnceOf
  <2>4. Sending(n)' => Over(worker.run)'
    BY <1>6
  <2> QED BY <2>2, <2>3, <2>4 DEF OnceOf
<1> QED BY <1>3, <1>4, <1>5, <1>6

(* Steps that leave the worker alone.                                      *)
LEMMA OnceAside ==
  ASSUME Parts, Parts', OnceInv, Stored(None), Grows,
         issued' \in {issued, issued + 1}, UNCHANGED <<worker, sent>>
  PROVE  OnceInv'
<1> USE DEF OnceInv
<1>1. None \notin Runs
  BY RunFacts
<1>2. Moves(None)
  BY StatusMoves
<1>3. \A n \in {0, 1} : (Engaged(n)' <=> Engaged(n)) /\ (Sending(n)' <=> Sending(n))
  BY DEF Engaged, Sending
<1>4. ASSUME worker.stage # "idle"
      PROVE  worker.run \in Runs /\ worker.run <= issued
  BY <1>4, Busy DEF Numbered
<1>5. Marked'
  <2> SUFFICES ASSUME worker.stage = "run", NEW r \in Runs, r = worker.run
               PROVE  Status(r)' # "queued"
    BY <1>4 DEF Marked
  <2>1. Status(r) # "queued" /\ r <= issued /\ r # None
    BY <1>1, <1>4 DEF Marked
  <2> QED BY <1>2, <2>1 DEF Moves, Active
<1>6. ASSUME NEW n \in {0, 1}, spent'.faults <= n, Sending(n)'
      PROVE  Over(worker.run)'
  <2> SUFFICES ASSUME NEW r \in Runs, r = worker.run PROVE Over(r)'
    BY <1>3, <1>4, <1>6 DEF Sending
  <2>1. spent.faults <= n
    BY <1>6 DEF Grows, Parts, SpentOK, Counters
  <2>2. Over(r) /\ r <= issued /\ r # None
    BY <1>1, <1>3, <1>4, <1>6, <2>1 DEF OnceOf, Sending
  <2> QED BY <1>2, <2>2 DEF Moves, Over
<1> QED BY <1>1, <1>3, <1>5, <1>6, OnceKept

(* What the worker stores of its run.                                      *)
LEMMA WorkerStores ==
  ASSUME Parts, worker.stage # "idle", NEW w \in Runs, w = worker.run,
         NEW status \in Statuses \ {"queued"},
         \/ Update(SetStatus(worker.run, status))
         \/ \E file \in File : Finish(status, file)
  PROVE  /\ Stored(w)
         /\ Status(w)' = IF Status(w) = "absent" THEN "absent" ELSE status
         /\ DiskStatus(w)' = "queued" =>
              /\ DiskStatus(w) = "queued"
              /\ Status(w) = "absent" \/ spent'.faults = spent.faults + 1
<1>1. spent \in Counters
  BY DEF Parts, SpentOK
<1>2. CASE data.runs[w] = None
  <2>1. UNCHANGED storeVars
    BY <1>2 DEF Update, Finish
  <2>2. Status(w) = "absent" /\ Status(w)' = "absent" /\ DiskStatus(w)' = DiskStatus(w)
    BY <1>2, <2>1 DEF storeVars, Status, DiskStatus, StatusIn
  <2> QED BY <2>1, <2>2 DEF Stored, storeVars
<1>3. CASE data.runs[w] # None
  <2>1. \E new : /\ \/ new = SetStatus(w, status)
                    \/ \E file \in File :
                         new = SetRun(w, [data.runs[w] EXCEPT !.status = status, !.file = file])
                 /\ Persist(new)
    BY <1>3 DEF Update, Finish
  <2>2. PICK new : /\ \/ new = SetStatus(w, status)
                      \/ \E file \in File :
                           new = SetRun(w, [data.runs[w] EXCEPT !.status = status, !.file = file])
                   /\ Persist(new)
    BY <2>1
  <2>3. StatusIn(new, w) = status /\ Follows(new, w) /\ Keeps(new)
    <3>1. CASE new = SetStatus(w, status)
      <4>1. None \in File
        BY DEF File
      <4> QED BY <1>3, <3>1, <4>1, StatusFollows
    <3>2. ASSUME NEW file \in File,
                 new = SetRun(w, [data.runs[w] EXCEPT !.status = status, !.file = file])
          PROVE  StatusIn(new, w) = status /\ Follows(new, w) /\ Keeps(new)
      BY <1>3, <3>2, StatusFollows
    <3> QED BY <2>2, <3>1, <3>2
  <2>4. Written(new) /\ data' = new
    BY <1>1, <2>2, <2>3, PersistWritten DEF Persist
  <2>5. Status(w)' = status /\ Status(w) # "absent"
    <3>1. Status(w) # "absent"
      BY <1>3, NoneAssumption DEF Status, Parts, StoreOK, Store, Run, Statuses
    <3> QED BY <2>3, <2>4, <3>1, StatusOf
  <2>6. disk' = new \/ (disk' = disk /\ spent'.faults = spent.faults + 1)
    BY <2>4 DEF Written
  <2>7. DiskStatus(w)' \in {status, DiskStatus(w)}
        /\ (DiskStatus(w)' # status => spent'.faults = spent.faults + 1)
    BY <2>3, <2>6, StatusOf DEF DiskStatus
  <2> QED BY <2>3, <2>4, <2>5, <2>7 DEF Stored
<1> QED BY <1>2, <1>3

(* The worker fails before it extracts, marks its run, or ends it; only    *)
(* the report of a completed run has to be recorded first.                 *)
LEMMA OnceWorker ==
  ASSUME Parts, Parts', OnceInv, Grows, issued' = issued, sent' = sent,
         worker.stage \in {"begin", "mark", "run"},
         NEW status \in Statuses \ {"queued"},
         \/ Update(SetStatus(worker.run, status))
         \/ \E file \in File : Finish(status, file),
         \/ status \notin Active /\ worker'.stage \in {"idle", "send", "record"}
         \/ status = "running" /\ worker'.stage = "run",
         worker'.stage # "idle" => worker'.run = worker.run,
         worker'.stage = "send" /\ worker'.message = "report" => worker.stage = "run"
  PROVE  OnceInv'
<1> USE DEF OnceInv
<1>1. worker.stage # "idle" /\ worker.run \in Runs
  BY Busy
<1>2. PICK w \in Runs : w = worker.run
  BY <1>1
<1>3. /\ Stored(w)
      /\ Status(w)' = IF Status(w) = "absent" THEN "absent" ELSE status
      /\ DiskStatus(w)' = "queued" =>
           /\ DiskStatus(w) = "queued"
           /\ Status(w) = "absent" \/ spent'.faults = spent.faults + 1
  BY <1>1, <1>2, WorkerStores
<1>4. ASSUME NEW n \in {0, 1}, spent.faults <= n PROVE Got(w, n) = 0
  <2>1. OnceOf(n) /\ Engaged(n)
    BY <1>4 DEF Engaged
  <2>2. ~(Got(w, n) > 0)
    BY <1>2, <2>1 DEF OnceOf
  <2> QED BY <2>2, GotCounts
<1>5. \A n \in {0, 1} : Engaged(n)' => Engaged(n)
  BY DEF Engaged
<1>6. Marked'
  BY <1>2, <1>3 DEF Marked, Statuses
<1>7. ASSUME NEW n \in {0, 1}, spent'.faults <= n, Sending(n)' PROVE Over(worker.run)'
  <2>1. worker'.run = w /\ status \notin Active /\ worker'.stage = "send"
    BY <1>2, <1>7 DEF Sending
  <2>2. Status(w)' \notin Active
    BY <1>3, <2>1 DEF Active
  <2>3. DiskStatus(w)' # "queued"
    <3> SUFFICES ASSUME DiskStatus(w)' = "queued" PROVE FALSE
      OBVIOUS
    <3>1. Status(w) # "absent" /\ spent'.faults = spent.faults + 1
          /\ DiskStatus(w) = "queued"
      BY <1>1, <1>2, <1>3 DEF Gone
    <3>2. n = 1 /\ spent.faults = 0
      BY <1>7, <3>1 DEF Parts, SpentOK, Counters
    <3>3. worker.stage = "run"
      BY <1>7, <3>2 DEF Sending
    <3>4. Status(w) # "queued" /\ disk.runs = data.runs
      BY <1>2, <3>2, <3>3 DEF Marked, Synced
    <3> QED BY <3>1, <3>4, SameRuns, StatusOf DEF DiskStatus
  <2> QED BY <2>1, <2>2, <2>3 DEF Over
<1>8. issued' \in {issued, issued + 1}
  OBVIOUS
<1> QED BY <1>1, <1>3, <1>4, <1>5, <1>6, <1>7, <1>8, OnceKept

(* A run that is over follows, whoever ended it.                           *)
LEMMA EndFollows ==
  ASSUME Parts, NEW r \in Runs, data.runs[r] # None,
         NEW status \in {"failed", "cancelled"}, NEW new, new = SetStatus(r, status)
  PROVE  Follows(new, None) /\ Keeps(new)
<1>1. None \in File /\ status \in Statuses
  BY DEF File, Statuses
<1>2. /\ \A s \in Runs \ {r} : new.runs[s] = data.runs[s]
      /\ StatusIn(new, r) = status /\ Follows(new, r) /\ Keeps(new)
  BY <1>1, StatusFollows
<1>3. Status(r) # "absent" /\ None \notin Runs
  BY NoneAssumption, RunFacts DEF Status, Parts, StoreOK, Store, Run, Statuses
<1> QED BY <1>2, <1>3, StatusOf DEF Follows, Active

LEMMA OnceTaken ==
  ASSUME Parts, Parts', OnceInv, Grows, TakeRun PROVE OnceInv'
<1> USE DEF OnceInv
<1>1. /\ worker.stage = "idle" /\ issued' = issued /\ sent' = sent /\ Head(queue) \in Runs
      /\ spent \in Counters
  BY DEF TakeRun, Receiving, Parts, HandOK, SpentOK
<1>2. PICK r \in Runs : r = Head(queue)
  BY <1>1
<1>3. None \notin Runs
  BY RunFacts
<1>4. ASSUME GoIdle, Stored(None) PROVE OnceInv'
  <2>1. worker'.stage = "idle"
    BY <1>4 DEF GoIdle, Idle
  <2> QED BY <1>1, <1>3, <1>4, <2>1, OnceKept DEF Engaged, Sending, Marked
<1>5. CASE GoIdle /\ UNCHANGED storeVars
  BY <1>4, <1>5 DEF Stored, storeVars
<1>6. CASE /\ GoIdle /\ Executable(r) /\ Persist(SetStatus(r, "failed"))
  <2>1. data.runs[r] # None
    BY <1>6 DEF Executable, Status
  <2> DEFINE new == SetStatus(r, "failed")
  <2>2. Follows(new, None) /\ Keeps(new)
    BY <2>1, EndFollows
  <2> HIDE DEF new
  <2>3. Persist(new)
    BY <1>6 DEF new
  <2>4. Written(new)
    BY <1>1, <2>2, <2>3, PersistWritten
  <2> QED BY <1>4, <1>6, <2>2, <2>4 DEF Stored
<1>7. CASE /\ Executable(r) /\ UNCHANGED <<storeVars, spent>>
           /\ worker' = [stage |-> "wait", run |-> r, message |-> None]
  <2>1. Status(r) = "queued" /\ r <= issued
    BY <1>7 DEF Executable, Numbered
  <2>2. \A s \in Runs : Status(s)' = Status(s) /\ DiskStatus(s)' = DiskStatus(s)
    BY <1>7 DEF storeVars, Status, DiskStatus, StatusIn
  <2>3. worker'.stage = "wait" /\ worker'.run = r
    BY <1>7
  <2>4. Numbered'
    BY <1>1, <2>1, <2>2, <2>3 DEF Numbered
  <2>5. Synced' /\ Marked' /\ Gone'
    BY <1>7, <2>1, <2>2, <2>3 DEF Synced, Marked, Gone, storeVars
  <2>6. ASSUME NEW n \in {0, 1}, spent'.faults <= n PROVE OnceOf(n)'
    <3>1. OnceOf(n)
      BY <1>7, <2>6
    <3>2. ASSUME NEW s \in Runs, Got(s, n)' > 0
          PROVE  s <= issued' /\ Over(s)' /\ s # r
      <4>1. Got(s, n) > 0
        BY <1>1, <3>2, GotKept
      <4>2. s <= issued /\ Over(s)
        BY <3>1, <4>1 DEF OnceOf
      <4> QED BY <1>1, <2>1, <2>2, <4>2 DEF Over, Active
    <3>3. \A s \in Runs : Got(s, n)' <= 1
      BY <1>1, <3>1, GotKept DEF OnceOf
    <3>4. ~Sending(n)'
      BY <2>3 DEF Sending
    <3> QED BY <2>3, <3>2, <3>3, <3>4 DEF OnceOf
  <2> QED BY <2>4, <2>5, <2>6
<1> QED BY <1>2, <1>5, <1>6, <1>7 DEF TakeRun

(* The message goes out, of a run that is over.                            *)
LEMMA OnceSent ==
  ASSUME Parts, Parts', OnceInv, Grows, Deliver PROVE OnceInv'
<1> USE DEF OnceInv
<1>1. /\ worker.stage = "send" /\ worker \in BusyWorker /\ worker.run \in Runs
      /\ worker.message \in {"report", "failure"}
      /\ issued' = issued /\ UNCHANGED <<storeVars, spent>>
  BY Busy DEF Deliver, Parts, WorkerOK
<1>2. worker'.stage = "record" /\ worker'.run = worker.run
  BY <1>1 DEF Deliver, GoTo, BusyWorker
<1>3. PICK w \in Runs : w = worker.run
  BY <1>1
<1>4. \A s \in Runs : Status(s)' = Status(s) /\ DiskStatus(s)' = DiskStatus(s)
  BY <1>1 DEF storeVars, Status, DiskStatus, StatusIn
<1>5. Numbered' /\ Synced' /\ Marked' /\ Gone'
  BY <1>1, <1>2, <1>4 DEF Numbered, Synced, Marked, Gone, storeVars
<1>6. ASSUME NEW n \in {0, 1}, spent'.faults <= n PROVE OnceOf(n)'
  <2>1. OnceOf(n)
    BY <1>1, <1>6
  <2>2. /\ \A s \in Runs \ {w} : sent'[s] = sent[s]
        /\ sent'[w] = [sent[w] EXCEPT ![worker.message] = @ + 1]
        /\ sent[w] \in [report : Nat, failure : Nat]
    BY <1>3 DEF Deliver, Parts, SentOK
  <2>3. \A s \in Runs \ {w} : Got(s, n)' = Got(s, n)
    BY <2>2 DEF Got
  <2>4. CASE Sending(n)
    <3>1. ~(Got(w, n) > 0) /\ Over(w) /\ w <= issued
      BY <1>1, <1>3, <2>1, <2>4 DEF OnceOf, Engaged, Numbered
    <3>2. Got(w, n) = 0
      BY <3>1, GotCounts
    <3>3. Got(w, n)' = 1
      <4>1. CASE n = 1
        <5>1. worker.message = "report"
          BY <2>4, <4>1 DEF Sending
        <5>2. sent'[w].report = sent[w].report + 1
          BY <2>2, <5>1
        <5> QED BY <3>2, <4>1, <5>2 DEF Got
      <4>2. CASE n = 0
        <5>1. sent'[w].report + sent'[w].failure = sent[w].report + sent[w].failure + 1
          <6>1. CASE worker.message = "report"
            BY <2>2, <6>1
          <6>2. CASE worker.message = "failure"
            BY <2>2, <6>2
          <6> QED BY <1>1, <6>1, <6>2
        <5> QED BY <3>2, <4>2, <5>1 DEF Got
      <4> QED BY <4>1, <4>2
    <3>4. Over(w)' /\ w <= issued'
      BY <1>1, <1>4, <3>1 DEF Over
    <3>5. \A s \in Runs : Got(s, n)' > 0 => s <= issued' /\ Over(s)'
      BY <1>1, <1>4, <2>1, <2>3, <3>4 DEF OnceOf, Over
    <3>6. \A s \in Runs : Got(s, n)' <= 1
      BY <2>1, <2>3, <3>3 DEF OnceOf
    <3>7. ~Engaged(n)' /\ ~Sending(n)'
      BY <1>2 DEF Engaged, Sending
    <3> QED BY <3>5, <3>6, <3>7 DEF OnceOf
  <2>5. CASE ~Sending(n)
    <3>1. n = 1 /\ worker.message = "failure"
      BY <1>1, <2>5 DEF Sending
    <3>2. sent'[w].report = sent[w].report
      BY <2>2, <3>1
    <3>3. \A s \in Runs : Got(s, n)' = Got(s, n)
      BY <2>3, <3>1, <3>2 DEF Got
    <3>4. ~Engaged(n)' /\ ~Sending(n)'
      BY <1>2 DEF Engaged, Sending
    <3> QED BY <1>1, <1>4, <2>1, <3>3, <3>4 DEF OnceOf, Over
  <2> QED BY <2>4, <2>5
<1> QED BY <1>5, <1>6

(* After a restart nothing runs, and what was sent is over on disk.        *)
LEMMA OnceRestarted ==
  ASSUME Parts, Parts', OnceInv, Grows, Restart PROVE OnceInv'
<1> USE DEF OnceInv
<1>1. worker'.stage = "idle" /\ issued' = issued /\ sent' = sent /\ disk' = data'
      /\ data' = Loaded(disk)
  BY DEF Restart, Idle
<1>2. ASSUME NEW r \in Runs
      PROVE  /\ Status(r)' = DiskStatus(r)'
             /\ Status(r)' = IF DiskStatus(r) = "running" THEN "failed" ELSE DiskStatus(r)
  <2>1. data'.runs[r] = IF disk.runs[r] # None /\ disk.runs[r].status = "running"
                        THEN [disk.runs[r] EXCEPT !.status = "failed"] ELSE disk.runs[r]
    BY <1>1 DEF Loaded, Parts, StoreOK, Store
  <2>2. disk.runs[r] # None => disk.runs[r] \in Run
    BY DEF Parts, StoreOK, Store
  <2>3. CASE disk.runs[r] # None /\ disk.runs[r].status = "running"
    <3>1. data'.runs[r] \in Run /\ data'.runs[r].status = "failed"
      BY <2>1, <2>2, <2>3 DEF Run, Statuses
    <3> QED BY <1>1, <2>3, <3>1, NoneAssumption, StatusOf DEF StatusIn, DiskStatus
  <2>4. CASE ~(disk.runs[r] # None /\ disk.runs[r].status = "running")
    BY <1>1, <2>1, <2>4, StatusOf DEF StatusIn, DiskStatus
  <2> QED BY <2>3, <2>4
<1>3. Numbered'
  BY <1>1, <1>2 DEF Numbered
<1>4. Synced' /\ Marked' /\ Gone'
  BY <1>1 DEF Synced, Marked, Gone
<1>5. ASSUME NEW n \in {0, 1}, spent'.faults <= n PROVE OnceOf(n)'
  <2>1. spent.faults <= n
    BY <1>5 DEF Grows, Parts, SpentOK, Counters
  <2>2. OnceOf(n) /\ \A r \in Runs : Got(r, n)' = Got(r, n)
    BY <1>1, <2>1, GotKept
  <2>3. \A r \in Runs : Over(r) => Over(r)'
    <3> SUFFICES ASSUME NEW r \in Runs, Over(r) PROVE Over(r)'
      OBVIOUS
    <3> QED BY <1>2 DEF Over, Active
  <2>4. ~Engaged(n)' /\ ~Sending(n)'
    BY <1>1 DEF Engaged, Sending
  <2> QED BY <1>1, <2>2, <2>3, <2>4 DEF OnceOf
<1> QED BY <1>3, <1>4, <1>5

LEMMA MessageStage ==
  ASSUME Parts, worker.stage # "idle"
  PROVE  /\ GoIdle => worker'.stage = "idle"
         /\ \A stage : GoTo(stage) => worker'.stage = stage /\ worker'.run = worker.run
                                      /\ worker'.message = worker.message
         /\ \A kind : Message(kind) => /\ worker'.stage = "send" /\ worker'.run = worker.run
                                       /\ worker'.message = kind
         /\ NotifyOrIdle => /\ worker'.stage \in {"idle", "send"}
                            /\ worker'.stage = "send" =>
                                 worker'.run = worker.run /\ worker'.message = "failure"
<1>0. worker \in BusyWorker
  BY Busy
<1>1. GoIdle => worker'.stage = "idle"
  BY DEF GoIdle, Idle
<1>2. ASSUME NEW stage, GoTo(stage)
      PROVE  worker'.stage = stage /\ worker'.run = worker.run /\ worker'.message = worker.message
  BY <1>0, <1>2 DEF GoTo, BusyWorker
<1>3. ASSUME NEW kind, Message(kind)
      PROVE  worker'.stage = "send" /\ worker'.run = worker.run /\ worker'.message = kind
  BY <1>0, <1>3 DEF Message, BusyWorker
<1>4. NotifyOrIdle => GoIdle \/ Message("failure")
  BY DEF NotifyOrIdle
<1> QED BY <1>1, <1>2, <1>3, <1>4

LEMMA OnceWork ==
  ASSUME Parts, Parts', OnceInv, Grows, Work PROVE OnceInv'
<1> USE DEF OnceInv
<1>1. None \in File /\ result.file \in File
  BY DEF File, Parts, ResultOK
<1>2. CASE TakeRun
  BY <1>2, OnceTaken
<1>3. CASE WaitOver \/ Begin
  <2>1. /\ worker.stage \in {"wait", "begin"} /\ UNCHANGED <<storeVars, sent, issued>>
        /\ worker'.stage \in {"begin", "mark"} /\ worker'.run = worker.run
    BY <1>3, MessageStage DEF WaitOver, Begin
  <2>2. Stored(None) /\ None \notin Runs
    BY <2>1, RunFacts DEF Stored, storeVars
  <2> QED BY <2>1, <2>2, OnceKept DEF Engaged, Sending, Marked
<1>4. CASE BeginFails
  <2>1. worker.stage = "begin" /\ UNCHANGED <<sent, issued>>
        /\ Update(SetStatus(worker.run, "failed")) /\ NotifyOrIdle
    BY <1>4 DEF BeginFails
  <2>2. /\ worker'.stage \in {"idle", "send"}
        /\ worker'.stage = "send" => worker'.run = worker.run /\ worker'.message = "failure"
    BY <2>1, MessageStage
  <2>3. "failed" \in Statuses \ {"queued"} /\ "failed" \notin Active
    BY DEF Statuses, Active
  <2> QED BY <2>1, <2>2, <2>3, OnceWorker
<1>5. CASE MarkRunning
  <2>1. worker.stage = "mark" /\ UNCHANGED <<sent, issued>>
        /\ Update(SetStatus(worker.run, "running")) /\ GoTo("run")
    BY <1>5 DEF MarkRunning
  <2>2. worker'.stage = "run" /\ worker'.run = worker.run
    BY <2>1, MessageStage
  <2>3. "running" \in Statuses \ {"queued"}
    BY DEF Statuses
  <2> QED BY <2>1, <2>2, <2>3, OnceWorker
<1>6. ASSUME NEW status \in {"cancelled", "failed", "partial", "completed"}, Returned,
             NEW file \in File, Finish(status, file), UNCHANGED <<sent, issued>>,
             \/ GoIdle \/ NotifyOrIdle \/ Message("report") \/ GoTo("record")
      PROVE  OnceInv'
  <2>1. worker.stage = "run" /\ status \in Statuses \ {"queued"} /\ status \notin Active
    BY <1>6 DEF Returned, Statuses, Active
  <2>2. /\ worker'.stage \in {"idle", "send", "record"}
        /\ worker'.stage # "idle" => worker'.run = worker.run
    BY <1>6, <2>1, MessageStage
  <2> QED BY <1>6, <2>1, <2>2, OnceWorker
<1>7. CASE FinishCancelled
  BY <1>1, <1>6, <1>7 DEF FinishCancelled
<1>8. CASE FinishFailed
  BY <1>1, <1>6, <1>8 DEF FinishFailed
<1>9. CASE FinishPartial
  BY <1>1, <1>6, <1>9 DEF FinishPartial
<1>10. CASE FinishUnreported
  BY <1>1, <1>6, <1>10 DEF FinishUnreported
<1>11. ASSUME NEW deliver \in BOOLEAN, FinishCompleted(deliver) PROVE OnceInv'
  BY <1>1, <1>6, <1>11 DEF FinishCompleted
<1>12. CASE Deliver
  BY <1>12, OnceSent
<1>13. CASE RecordDelivery
  <2>1. worker.stage = "record" /\ UNCHANGED <<sent, issued>> /\ Update(data)
        /\ worker'.stage = "idle"
    BY <1>13, MessageStage DEF RecordDelivery
  <2>2. Stored(None)
    <3>1. CASE UNCHANGED storeVars
      BY <3>1 DEF Stored, storeVars
    <3>2. CASE Persist(data)
      BY <3>2, AloneFollows, PersistWritten DEF Stored, Parts, SpentOK
    <3> QED BY <2>1, <3>1, <3>2 DEF Update
  <2> QED BY <2>1, <2>2, RunFacts, OnceKept DEF Engaged, Sending, Marked
<1> QED BY <1>2, <1>3, <1>4, <1>5, <1>7, <1>8, <1>9, <1>10, <1>11, <1>12, <1>13 DEF Work

(* The steps of all others, that leave the worker alone.                   *)
Others == Handle \/ CancelSignal \/ (\E r \in Runs : WaitingSend(r)) \/ Extract
            \/ Schedule \/ Recover \/ (\E t \in Templates : FallDue(t)) \/ UNCHANGED vars

LEMMA OthersStore ==
  ASSUME Parts, Numbered, Others
  PROVE  Stored(None) /\ issued' \in {issued, issued + 1} /\ UNCHANGED <<worker, sent>>
<1>0. spent \in Counters
  BY DEF Parts, SpentOK
<1>1. ASSUME UNCHANGED storeVars PROVE Stored(None)
  BY <1>1 DEF Stored, storeVars
<1>2. ASSUME NEW t \in Templates, QueueRun(t)
      PROVE  Stored(None) /\ issued' = issued + 1
  BY <1>2, QueueStored DEF QueueRun
<1>3. ASSUME NEW new, new.runs = data.runs, (\E what : Edit(new, what)) \/ Persist(new)
      PROVE  Stored(None)
  <2>1. Follows(new, None) /\ Keeps(new)
    BY <1>3, AloneFollows
  <2>2. Written(new)
    BY <1>0, <1>3, <2>1, EditWritten, PersistWritten
  <2> QED BY <2>1, <2>2 DEF Stored
<1>4. CASE Handle
  <2>1. ASSUME NEW t \in Templates, NEW value, Edit(SetTemplate(t, value), "edits")
        PROVE  Stored(None)
    <3>1. SetTemplate(t, value).runs = data.runs
      BY DEF SetTemplate, Parts, StoreOK, Store
    <3> QED BY <1>3, <2>1, <3>1
  <2>2. ASSUME NEW t \in Templates, NEW p \in Policies, NEW enabled \in BOOLEAN,
               SaveTemplate(t, p, enabled)
        PROVE  Stored(None) /\ issued' = issued /\ UNCHANGED <<worker, sent>>
    BY <2>1, <2>2 DEF SaveTemplate, goVars
  <2>3. ASSUME NEW t \in Templates, DeleteTemplate(t)
        PROVE  Stored(None) /\ issued' = issued /\ UNCHANGED <<worker, sent>>
    BY <2>1, <2>3 DEF DeleteTemplate, goVars
  <2>4. ASSUME NEW t \in Templates, StartRun(t)
        PROVE  Stored(None) /\ issued' = issued + 1 /\ UNCHANGED <<worker, sent>>
    BY <1>2, <2>4 DEF StartRun, goVars
  <2>5. ASSUME NEW r \in Runs, CancelQueued(r)
        PROVE  Stored(None) /\ issued' = issued /\ UNCHANGED <<worker, sent>>
    <3> DEFINE new == SetStatus(r, "cancelled")
    <3>1. data.runs[r] # None
      BY <2>5 DEF CancelQueued, Status
    <3>2. Follows(new, None)
      BY <3>1, EndFollows
    <3> HIDE DEF new
    <3>3. Edit(new, "cancels")
      BY <2>5 DEF CancelQueued, new
    <3> QED BY <1>0, <2>5, <3>2, <3>3, EditWritten DEF Stored, CancelQueued, goVars
  <2>6. ASSUME NEW r \in Runs, CancelRunning(r)
        PROVE  Stored(None) /\ issued' = issued /\ UNCHANGED <<worker, sent>>
    BY <1>1, <2>6 DEF CancelRunning
  <2>7. CASE CancelExtraction \/ StartExtraction
    BY <1>1, <2>7 DEF CancelExtraction, StartExtraction, goVars
  <2>8. ASSUME NEW incomplete \in BOOLEAN, LoadDataset(incomplete)
        PROVE  Stored(None) /\ issued' = issued /\ UNCHANGED <<worker, sent>>
    BY <1>1, <2>8 DEF LoadDataset, goVars
  <2> QED BY <1>4, <2>2, <2>3, <2>4, <2>5, <2>6, <2>7, <2>8 DEF Handle
<1>5. CASE Extract
  BY <1>1, <1>5 DEF Extract, ExtractAbort, ExtractFetched, ExtractWritten, goVars
<1>6. CASE Schedule
  <2>1. CASE ScanSchedules
    <3>1. Advanced.runs = data.runs
      BY DEF Advanced, Parts, StoreOK, Store
    <3>2. UNCHANGED storeVars \/ Persist(Advanced)
      BY <2>1 DEF ScanSchedules
    <3> QED BY <1>1, <1>3, <2>1, <3>1, <3>2 DEF ScanSchedules
  <2>2. ASSUME NEW t \in Templates, QueueDue(t)
        PROVE  Stored(None) /\ issued' \in {issued, issued + 1} /\ UNCHANGED <<worker, sent>>
    BY <1>1, <1>2, <2>2 DEF QueueDue
  <2> QED BY <1>6, <2>1, <2>2 DEF Schedule
<1>7. CASE Recover
  BY <1>1, <1>7 DEF Recover, ScanQueued, SendRecovered, RecoveryDone
<1>8. ASSUME NEW t \in Templates, FallDue(t)
      PROVE  Stored(None) /\ issued' = issued /\ UNCHANGED <<worker, sent>>
  <2>1. data'.runs = data.runs /\ disk'.runs = disk.runs
    BY <1>8 DEF FallDue, Parts, StoreOK, Store
  <2> QED BY <1>8, <2>1 DEF FallDue, goVars, Stored
<1>9. CASE CancelSignal \/ (\E r \in Runs : WaitingSend(r)) \/ UNCHANGED vars
  BY <1>1, <1>9 DEF CancelSignal, WaitingSend, vars, goVars
<1> QED BY <1>4, <1>5, <1>6, <1>7, <1>8, <1>9 DEF Others

LEMMA OnceNext == Parts /\ Parts' /\ OnceInv /\ [Next]_vars => OnceInv'
<1> SUFFICES ASSUME Parts, Parts', OnceInv, [Next]_vars PROVE OnceInv'
  OBVIOUS
<1>1. Grows
  BY NextGrows
<1>2. CASE Work
  BY <1>1, <1>2, OnceWork
<1>3. CASE Restart
  BY <1>1, <1>3, OnceRestarted
<1>4. CASE Others
  <2>1. Numbered
    BY DEF OnceInv
  <2> QED BY <1>1, <1>4, <2>1, OthersStore, OnceAside
<1> QED BY <1>2, <1>3, <1>4 DEF Next, Others

LEMMA OnceInit == Init => OnceInv
<1> SUFFICES ASSUME Init PROVE OnceInv
  OBVIOUS
<1>1. worker.stage = "idle" /\ spent.faults = 0 /\ disk = data
  BY DEF Init, Launched, Idle
<1>2. \A r \in Runs : Status(r) = "absent" /\ DiskStatus(r) = "absent"
  BY <1>1 DEF Init, Status, DiskStatus, StatusIn
<1>3. \A r \in Runs : \A n \in {0, 1} : Got(r, n) = 0
  BY DEF Init, Got
<1> QED BY <1>1, <1>2, <1>3
      DEF OnceInv, Numbered, Synced, Marked, Gone, OnceOf, Engaged, Sending

LEMMA OnceAlways == Spec => []OnceInv
BY OnceInit, OnceNext, PartsAlways, PTL DEF Spec

(* A run is delivered at most once even if one save of its status failed   *)
(* before the process stopped, for any number of runs, cancellations,      *)
(* recoveries and restarts: property ReportedOnce.                         *)
THEOREM DeliveredOnce == Spec => [](spent.faults <= 1 => ReportedOnce)
<1>1. OnceInv => (spent.faults <= 1 => ReportedOnce)
  BY DEF OnceInv, OnceOf, Got, ReportedOnce
<1> QED BY <1>1, OnceAlways, PTL

-----------------------------------------------------------------------------
(* What is reported is so                                                  *)
Results == Own /\ Fetched /\ Reporting /\ Backed

LEMMA HonestKept ==
  ASSUME Honest(data), Honest(disk), NEW w, w \notin Runs, Stored(w)
  PROVE  Honest(data)' /\ Honest(disk)'
<1>1. CASE data'.runs = data.runs /\ disk'.runs = disk.runs
  BY <1>1 DEF Honest, StatusIn
<1>2. ASSUME NEW new, Follows(new, w), Written(new)
      PROVE  Honest(data)' /\ Honest(disk)'
  <2>1. Honest(new)
    BY <1>2 DEF Follows, Honest, StatusIn
  <2>2. data' \in {data, new} /\ disk' \in {disk, new}
    BY <1>2 DEF Written
  <2> QED BY <2>1, <2>2 DEF Honest, StatusIn
<1> QED BY <1>1, <1>2 DEF Stored

LEMMA HonestWorker ==
  ASSUME Parts, Honest(data), Honest(disk), worker.stage # "idle",
         NEW status \in Statuses, NEW file \in File, status = "completed" => file = worker.run,
         \/ Update(SetStatus(worker.run, status)) /\ status # "completed"
         \/ Finish(status, file)
  PROVE  Honest(data)' /\ Honest(disk)'
<1>1. PICK w \in Runs : w = worker.run
  BY Busy
<1>2. CASE UNCHANGED storeVars
  BY <1>2 DEF storeVars, Honest, StatusIn
<1>3. CASE data.runs[w] # None
  <2>1. \E new : /\ \/ new = SetStatus(w, status) /\ status # "completed"
                    \/ new = SetRun(w, [data.runs[w] EXCEPT !.status = status, !.file = file])
                 /\ Persist(new)
    BY <1>1, <1>3 DEF Update, Finish
  <2>2. PICK new : /\ \/ new = SetStatus(w, status) /\ status # "completed"
                      \/ new = SetRun(w, [data.runs[w] EXCEPT !.status = status, !.file = file])
                   /\ Persist(new)
    BY <2>1
  <2>3. /\ \A s \in Runs \ {w} : new.runs[s] = data.runs[s]
        /\ StatusIn(new, w) = status
    <3>1. CASE new = SetStatus(w, status)
      BY <1>3, <3>1, StatusFollows
    <3>2. CASE new = SetRun(w, [data.runs[w] EXCEPT !.status = status, !.file = file])
      BY <1>3, <3>2, StatusFollows
    <3> QED BY <2>2, <3>1, <3>2
  <2>4. status = "completed" => new.runs[w].file = w
    <3> SUFFICES ASSUME status = "completed" PROVE new.runs[w].file = w
      OBVIOUS
    <3> DEFINE run == [data.runs[w] EXCEPT !.status = status, !.file = file]
    <3>1. data.runs[w] \in Run /\ data \in Store
      BY <1>3 DEF Parts, StoreOK, Store
    <3>2. run.file = w
      BY <1>1, <3>1 DEF Run
    <3> HIDE DEF run
    <3>3. new = SetRun(w, run)
      BY <2>2 DEF run
    <3>4. new.runs[w] = run
      BY <3>1, <3>3 DEF SetRun, Store
    <3> QED BY <3>2, <3>4
  <2>5. Honest(new)
    BY <2>3, <2>4 DEF Honest, StatusIn
  <2>6. data' = new /\ disk' \in {disk, new}
    BY <2>2 DEF Persist, SaveFails
  <2> QED BY <2>5, <2>6 DEF Honest, StatusIn
<1> QED BY <1>1, <1>2, <1>3 DEF Update, Finish

(* Nothing but cancellations happens to the extraction.                    *)
LEMMA ResultsKept ==
  ASSUME Results, UNCHANGED <<worker, sent, output>>,
         extraction'.owner = extraction.owner, extraction'.stage = extraction.stage,
         extraction'.got = extraction.got,
         result'.file = result.file, result'.incomplete = result.incomplete
  PROVE  Results'
BY DEF Results, Own, Fetched, Reporting, Backed, Returned, Sending

(* The worker extracts for its run, and nobody else.                       *)
LEMMA OwnExtraction ==
  ASSUME Parts, Results, NEW stage, Extracting(stage)
  PROVE  /\ worker.stage = "run" /\ worker.run \in Runs /\ extraction.owner = worker.run
         /\ extraction.stage = stage /\ result.file = None
<1>1. extraction.owner = worker.run /\ worker.stage \in {"mark", "run"}
      /\ extraction.stage = stage /\ result.file = None
  BY DEF Extracting, Results, Own, Fetched
<1>2. worker.run \in Runs
  BY <1>1, Busy
<1> QED BY <1>1, <1>2, RunFacts DEF Extracting

(* No run is reported before its extraction ends.                          *)
LEMMA NotReported ==
  ASSUME Parts, OnceInv, spent.faults <= 1,
         worker.stage \in {"wait", "begin", "mark", "run"}, NEW w \in Runs, w = worker.run
  PROVE  sent[w].report = 0
<1>1. OnceOf(1) /\ Engaged(1)
  BY DEF OnceInv, Engaged
<1>2. ~(Got(w, 1) > 0)
  BY <1>1 DEF OnceOf
<1> QED BY <1>2, GotCounts DEF Got

LEMMA ResultsExtract ==
  ASSUME Parts, OnceInv, spent.faults <= 1, Results, Extract
  PROVE  Results'
<1>1. PICK w \in Runs : w = worker.run
  <2>1. \E stage : Extracting(stage)
    BY DEF Extract, ExtractAbort, ExtractFetched, ExtractWritten
  <2> QED BY <2>1, OwnExtraction
<1>2. /\ worker.stage = "run" /\ UNCHANGED <<worker, sent>> /\ extraction.owner = w
      /\ result.file = None
  BY <1>1, OwnExtraction DEF Extract, ExtractAbort, ExtractFetched, ExtractWritten, goVars
<1>3. w # None /\ None \notin Runs
  BY RunFacts
<1>4. extraction.got \in {"none", "partial", "full"} /\ output \in [Runs -> {"none", "partial", "full"}]
  BY DEF Parts, ExtractionOK, OutputOK
<1>5. ASSUME NEW incomplete, NEW cancelled, markRunFinished(None, incomplete, cancelled),
             output' = output
      PROVE  Results'
  <2>1. extraction'.owner = None /\ result'.file = None
    BY <1>5 DEF markRunFinished, NoExtraction
  <2> QED BY <1>1, <1>2, <1>5, <2>1 DEF Results, Own, Fetched, Reporting, Backed, Sending
<1>6. CASE ExtractAbort
  BY <1>5, <1>6 DEF ExtractAbort
<1>7. ASSUME NEW got \in {"none", "partial", "full"}, ExtractFetched(got) PROVE Results'
  <2>1. CASE got = "none"
    BY <1>5, <1>7, <2>1 DEF ExtractFetched
  <2>2. CASE got # "none"
    <3>1. /\ extraction'.owner = w /\ extraction'.stage = "write" /\ extraction'.got = got
          /\ result'.file = None /\ result'.incomplete = (got = "partial") /\ output' = output
      BY <1>2, <1>7, <2>2 DEF ExtractFetched, Parts, ExtractionOK, ResultOK
    <3> QED BY <1>1, <1>2, <2>2, <3>1
            DEF Results, Own, Fetched, Reporting, Backed, Returned, Sending
  <2> QED BY <2>1, <2>2
<1>8. ASSUME NEW ok \in BOOLEAN, ExtractWritten(ok) PROVE Results'
  <2>1. CASE ~ok
    BY <1>5, <1>8, <2>1 DEF ExtractWritten
  <2>2. CASE ok
    <3>1. extraction.got # "none" /\ result.incomplete = (extraction.got = "partial")
      BY <1>2, <1>3, <1>8 DEF ExtractWritten, Extracting, Results, Fetched
    <3>2. /\ extraction'.owner = None /\ result'.file = w /\ result'.incomplete = result.incomplete
          /\ output' = [output EXCEPT ![w] = extraction.got]
      BY <1>2, <1>8, <2>2, RunFacts DEF ExtractWritten, markRunFinished, NoExtraction
    <3>3. ~result'.incomplete => output'[w] = "full"
      BY <1>4, <3>1, <3>2
    <3>4. \A r \in Runs \ {w} : output'[r] = output[r]
      BY <1>4, <3>2
    <3>5. sent[w].report = 0
      BY <1>1, <1>2, NotReported
    <3>6. Backed'
      <4> SUFFICES ASSUME NEW r \in Runs, sent[r].report > 0 PROVE output'[r] = "full"
        BY <1>2 DEF Backed
      <4>1. r # w
        BY <3>5
      <4> QED BY <3>4, <4>1 DEF Results, Backed
    <3>7. Own' /\ Fetched' /\ Reporting'
      BY <1>1, <1>2, <1>3, <3>2, <3>3 DEF Own, Fetched, Reporting, Sending
    <3> QED BY <3>6, <3>7 DEF Results
  <2> QED BY <2>1, <2>2
<1> QED BY <1>6, <1>7, <1>8 DEF Extract

LEMMA ResultsWork ==
  ASSUME Parts, OnceInv, spent.faults <= 1, Results, Work
  PROVE  Results'
<1> USE DEF Results
<1>0. None \notin Runs /\ UNCHANGED output
  BY RunFacts DEF Work, TakeRun, WaitOver, Begin, BeginFails, MarkRunning, FinishCancelled,
    FinishFailed, FinishPartial, FinishUnreported, FinishCompleted, Deliver, RecordDelivery
<1>1. CASE TakeRun
  <2>1. extraction.owner = None /\ UNCHANGED <<extraction, result, sent>>
    BY <1>1 DEF TakeRun, Receiving, Own, stateVars
  <2>2. worker'.stage \in {"idle", "wait"}
    BY <1>1 DEF TakeRun, GoIdle, Idle
  <2> QED BY <1>0, <2>1, <2>2 DEF Own, Fetched, Reporting, Backed, Returned, Sending
<1>2. CASE WaitOver
  <2>1. extraction.owner = None /\ UNCHANGED <<extraction, result, sent>>
    BY <1>2 DEF WaitOver, stateVars
  <2>2. worker'.stage = "begin"
    BY <1>2, MessageStage DEF WaitOver
  <2> QED BY <1>0, <2>1, <2>2 DEF Own, Fetched, Reporting, Backed, Returned, Sending
<1>3. CASE Begin
  <2>1. /\ worker'.stage = "mark" /\ worker'.run = worker.run /\ worker.run \in Runs
        /\ UNCHANGED sent
    BY <1>3, MessageStage, Busy DEF Begin
  <2>2. extraction'.owner = worker.run /\ extraction'.stage = "fetch" /\ result'.file = None
    BY <1>3 DEF Begin, BeginExtraction, NoExtraction, NoResult
  <2> QED BY <1>0, <2>1, <2>2 DEF Own, Fetched, Reporting, Backed, Returned, Sending
<1>4. CASE BeginFails
  <2>1. extraction.owner = None /\ UNCHANGED <<extraction, result, sent>>
    BY <1>4 DEF BeginFails, Own, stateVars
  <2>2. worker'.stage \in {"idle", "send"} /\ (worker'.stage = "send" => worker'.message = "failure")
    BY <1>4, MessageStage DEF BeginFails
  <2> QED BY <1>0, <2>1, <2>2 DEF Own, Fetched, Reporting, Backed, Returned, Sending
<1>5. CASE MarkRunning
  <2>1. extraction.owner = worker.run /\ UNCHANGED <<extraction, result, sent>>
    BY <1>5 DEF MarkRunning, Own, stateVars
  <2>2. worker'.stage = "run" /\ worker'.run = worker.run
    BY <1>5, MessageStage DEF MarkRunning
  <2> QED BY <1>0, <2>1, <2>2 DEF Own, Fetched, Reporting, Backed, Returned, Sending
<1>6. ASSUME Returned, UNCHANGED <<extraction, result, sent>>,
             GoIdle \/ NotifyOrIdle \/ (Whole /\ (Message("report") \/ GoTo("record")))
      PROVE  Results'
  <2>1. worker.stage = "run" /\ extraction.owner = None
    BY <1>6 DEF Returned, Own
  <2>2. /\ worker'.stage \in {"idle", "send", "record"}
        /\ worker'.stage = "send" => worker'.run = worker.run
        /\ worker'.stage = "send" /\ worker'.message = "report" => Whole
    BY <1>6, <2>1, MessageStage
  <2>3. Whole => output[worker.run] = "full"
    BY <1>6 DEF Whole, Fetched
  <2>4. Reporting'
    BY <1>0, <2>2, <2>3 DEF Reporting, Sending
  <2>5. Own' /\ Fetched' /\ Backed'
    BY <1>0, <1>6, <2>1, <2>2 DEF Own, Fetched, Backed, Returned
  <2> QED BY <2>4, <2>5
<1>7. CASE FinishCancelled \/ FinishFailed \/ FinishPartial \/ FinishUnreported
  BY <1>6, <1>7 DEF FinishCancelled, FinishFailed, FinishPartial, FinishUnreported, stateVars
<1>8. ASSUME NEW deliver \in BOOLEAN, FinishCompleted(deliver) PROVE Results'
  BY <1>6, <1>8 DEF FinishCompleted, stateVars
<1>9. CASE Deliver
  <2>1. /\ worker.stage = "send" /\ worker.message \in {"report", "failure"}
        /\ extraction.owner = None /\ UNCHANGED <<extraction, result>>
    BY <1>9 DEF Deliver, Own, stateVars, Parts, WorkerOK
  <2>2. PICK w \in Runs : w = worker.run
    BY <2>1, Busy
  <2>3. worker'.stage = "record"
    BY <1>9, <2>1, MessageStage DEF Deliver
  <2>4. /\ \A s \in Runs \ {w} : sent'[s] = sent[s]
        /\ worker.message = "failure" => sent'[w].report = sent[w].report
    BY <1>9, <2>2 DEF Deliver, Parts, SentOK
  <2>5. worker.message = "report" => output[w] = "full"
    BY <2>1, <2>2 DEF Reporting, Sending
  <2>6. Backed'
    BY <1>0, <2>1, <2>4, <2>5 DEF Backed
  <2> QED BY <1>0, <2>1, <2>3, <2>6 DEF Own, Fetched, Reporting, Returned, Sending
<1>10. CASE RecordDelivery
  <2>1. extraction.owner = None /\ UNCHANGED <<extraction, result, sent>>
    BY <1>10 DEF RecordDelivery, Own, stateVars
  <2>2. worker'.stage = "idle"
    BY <1>10, MessageStage DEF RecordDelivery
  <2> QED BY <1>0, <2>1, <2>2 DEF Own, Fetched, Reporting, Backed, Returned, Sending
<1> QED BY <1>1, <1>2, <1>3, <1>4, <1>5, <1>7, <1>8, <1>9, <1>10 DEF Work

LEMMA ResultsOthers ==
  ASSUME Parts, OnceInv, spent.faults <= 1, Alone, Alone', Results, Others
  PROVE  Results'
<1>1. ASSUME UNCHANGED <<worker, sent, output, stateVars>> PROVE Results'
  BY <1>1, ResultsKept DEF stateVars
<1>2. CASE Handle
  <2>1. spent \in Counters
    BY DEF Parts, SpentOK
  <2>2. CASE StartExtraction \/ \E incomplete \in BOOLEAN : LoadDataset(incomplete)
    <3>1. spent'.manual = spent.manual + 1 \/ spent'.loads = spent.loads + 1
      BY <2>1, <2>2 DEF StartExtraction, LoadDataset, Spend, Counters
    <3> QED BY <2>1, <3>1 DEF Alone, Counters
  <2>3. CASE CancelExtraction
    BY <2>3, ResultsKept DEF CancelExtraction, Parts, ExtractionOK, ResultOK, goVars
  <2>4. ASSUME NEW t \in Templates,
               \/ \E p \in Policies, enabled \in BOOLEAN : SaveTemplate(t, p, enabled)
               \/ DeleteTemplate(t) \/ StartRun(t)
        PROVE  Results'
    BY <1>1, <2>4 DEF SaveTemplate, DeleteTemplate, StartRun, goVars
  <2>5. ASSUME NEW r \in Runs, CancelQueued(r) \/ CancelRunning(r) PROVE Results'
    BY <1>1, <2>5 DEF CancelQueued, CancelRunning, goVars
  <2> QED BY <1>2, <2>2, <2>3, <2>4, <2>5 DEF Handle
<1>3. CASE CancelSignal
  BY <1>3, ResultsKept DEF CancelSignal, Parts, ExtractionOK
<1>4. CASE Extract
  BY <1>4, ResultsExtract
<1>5. CASE (\E r \in Runs : WaitingSend(r)) \/ Schedule \/ Recover
             \/ (\E t \in Templates : FallDue(t)) \/ UNCHANGED vars
  <2>1. UNCHANGED <<worker, sent, output, stateVars>>
    BY <1>5 DEF WaitingSend, Schedule, ScanSchedules, QueueDue, Recover, ScanQueued,
      SendRecovered, RecoveryDone, FallDue, vars, goVars
  <2> QED BY <1>1, <2>1
<1> QED BY <1>2, <1>3, <1>4, <1>5 DEF Others

LEMMA WorkHonest ==
  ASSUME Parts, Results, Honest(data), Honest(disk), Work
  PROVE  Honest(data)' /\ Honest(disk)'
<1>1. None \in File /\ result.file \in File /\ None \notin Runs
      /\ {"failed", "running", "cancelled", "partial", "completed"} \subseteq Statuses
  BY RunFacts DEF File, Parts, ResultOK, Statuses
<1>2. CASE UNCHANGED storeVars
  BY <1>2 DEF storeVars, Honest, StatusIn
<1>3. CASE TakeRun
  <2>1. CASE Executable(Head(queue)) /\ Persist(SetStatus(Head(queue), "failed"))
    <3>1. PICK r \in Runs : r = Head(queue)
      BY <1>3 DEF TakeRun, Receiving, Parts, HandOK
    <3> DEFINE new == SetStatus(r, "failed")
    <3>2. Follows(new, None) /\ Keeps(new)
      BY <2>1, <3>1, EndFollows DEF Executable, Status
    <3> HIDE DEF new
    <3>3. Persist(new) /\ spent \in Counters
      BY <2>1, <3>1 DEF new, Parts, SpentOK
    <3>4. Stored(None)
      BY <3>2, <3>3, PersistWritten DEF Stored
    <3> QED BY <1>1, <3>4, HonestKept
  <2> QED BY <1>2, <1>3, <2>1 DEF TakeRun
<1>4. CASE WaitOver \/ Begin \/ Deliver
  BY <1>2, <1>4 DEF WaitOver, Begin, Deliver
<1>5. ASSUME NEW status \in Statuses \ {"completed"}, worker.stage # "idle",
             \/ Update(SetStatus(worker.run, status))
             \/ \E file \in File : Finish(status, file)
      PROVE  Honest(data)' /\ Honest(disk)'
  BY <1>1, <1>5, HonestWorker
<1>6. CASE BeginFails
  BY <1>1, <1>5, <1>6 DEF BeginFails
<1>7. CASE MarkRunning
  BY <1>1, <1>5, <1>7 DEF MarkRunning
<1>8. CASE FinishCancelled
  BY <1>1, <1>5, <1>8 DEF FinishCancelled, Returned
<1>9. CASE FinishFailed
  BY <1>1, <1>5, <1>9 DEF FinishFailed, Returned
<1>10. CASE FinishPartial
  BY <1>1, <1>5, <1>10 DEF FinishPartial, Returned
<1>11. CASE FinishUnreported
  BY <1>1, <1>5, <1>11 DEF FinishUnreported, Returned
<1>12. ASSUME NEW deliver \in BOOLEAN, FinishCompleted(deliver)
       PROVE  Honest(data)' /\ Honest(disk)'
  <2>1. Finish("completed", result.file) /\ worker.stage # "idle"
    BY <1>12 DEF FinishCompleted, Returned
  <2>2. result.file = worker.run
    BY <1>12 DEF FinishCompleted, Whole, Results, Fetched
  <2> QED BY <1>1, <2>1, <2>2, HonestWorker
<1>13. CASE RecordDelivery
  <2>1. Persist(data) \/ UNCHANGED storeVars
    BY <1>13 DEF RecordDelivery, Update
  <2>2. Persist(data) => data' = data /\ disk' \in {data, disk}
    BY DEF Persist, SaveFails
  <2> QED BY <1>2, <2>1, <2>2 DEF Honest, StatusIn
<1> QED BY <1>3, <1>4, <1>6, <1>7, <1>8, <1>9, <1>10, <1>11, <1>12, <1>13 DEF Work

LEMMA RestartReports ==
  ASSUME Parts, WholeInv, Restart
  PROVE  WholeInv'
<1> USE DEF WholeInv
<1>1. \A r \in Runs :
        data'.runs[r] = IF disk.runs[r] # None /\ disk.runs[r].status = "running"
                        THEN [disk.runs[r] EXCEPT !.status = "failed"] ELSE disk.runs[r]
  BY DEF Restart, Loaded, Parts, StoreOK, Store
<1>2. \A r \in Runs : disk.runs[r] # None => disk.runs[r] \in Run
  BY DEF Parts, StoreOK, Store
<1>3. ASSUME NEW r \in Runs, StatusIn(data', r) = "completed" PROVE data'.runs[r].file = r
  <2>1. CASE disk.runs[r] # None /\ disk.runs[r].status = "running"
    <3>1. data'.runs[r].status = "failed" /\ data'.runs[r] \in Run
      BY <1>1, <1>2, <2>1 DEF Run, Statuses
    <3> QED BY <1>3, <3>1 DEF StatusIn
  <2>2. CASE ~(disk.runs[r] # None /\ disk.runs[r].status = "running")
    <3>1. data'.runs[r] = disk.runs[r]
      BY <1>1, <2>2
    <3>2. StatusIn(disk, r) = "completed"
      BY <1>3, <3>1 DEF StatusIn
    <3> QED BY <3>1, <3>2 DEF Honest
  <2> QED BY <2>1, <2>2
<1>4. disk' = data' /\ worker'.stage = "idle" /\ extraction'.owner = None /\ UNCHANGED <<sent, output>>
  BY DEF Restart, Idle, NoExtraction
<1>5. Honest(data)' /\ Honest(disk)'
  BY <1>3, <1>4 DEF Honest
<1>6. Own' /\ Fetched' /\ Reporting' /\ Backed'
  BY <1>4 DEF Own, Fetched, Reporting, Backed, Returned, Sending
<1> QED BY <1>5, <1>6

LEMMA ReportNext == Parts /\ OnceInv /\ ReportInv /\ [Next]_vars => ReportInv'
<1> SUFFICES ASSUME Parts, OnceInv, ReportInv, [Next]_vars, spent'.faults <= 1, Alone'
             PROVE  WholeInv'
  BY DEF ReportInv
<1>1. spent.faults <= 1 /\ Alone
  <2>1. Grows /\ spent'.faults <= 1 /\ spent'.manual = 0 /\ spent'.loads = 0
    BY NextGrows DEF Alone
  <2>2. spent.faults \in Nat /\ spent.manual \in Nat /\ spent.loads \in Nat
        /\ spent'.faults \in Nat
    BY NextTyped DEF Parts, SpentOK, Counters
  <2> QED BY <2>1, <2>2 DEF Grows, Alone
<1>2. WholeInv /\ Results
  BY <1>1 DEF ReportInv, WholeInv, Results
<1>3. CASE Work
  BY <1>1, <1>2, <1>3, ResultsWork, WorkHonest DEF WholeInv, Results
<1>4. CASE Restart
  BY <1>2, <1>4, RestartReports
<1>5. CASE Others
  <2>1. Stored(None)
    BY <1>5, OthersStore DEF OnceInv
  <2>2. Honest(data)' /\ Honest(disk)'
    BY <1>2, <2>1, RunFacts, HonestKept DEF WholeInv
  <2> QED BY <1>1, <1>2, <1>5, <2>2, ResultsOthers DEF WholeInv, Results
<1> QED BY <1>3, <1>4, <1>5 DEF Next, Others

LEMMA ReportInit == Init => ReportInv
<1> SUFFICES ASSUME Init PROVE WholeInv
  BY DEF ReportInv
<1>1. worker.stage = "idle" /\ extraction.owner = None /\ disk = data
  BY DEF Init, Launched, Idle, NoExtraction
<1>2. \A r \in Runs : data.runs[r] = None /\ sent[r].report = 0
  BY DEF Init
<1> QED BY <1>1, <1>2
        DEF WholeInv, Honest, StatusIn, Own, Fetched, Reporting, Backed, Returned, Sending

(* As long as nothing but the worker uses the extraction state, and the    *)
(* file can be saved, a run is reported once, as a success or a failure,   *)
(* and what is reported as a success is the complete output of that run,   *)
(* for any templates, cancellations, recoveries and restarts: property     *)
(* ReportsTrue.                                                            *)
THEOREM Reported == Spec => [](spent.faults = 0 /\ Alone => ReportsTrue)
<1>1. Parts /\ OnceInv /\ ReportInv => (spent.faults = 0 /\ Alone => ReportsTrue)
  <2> SUFFICES ASSUME Parts, OnceInv, ReportInv, spent.faults = 0, Alone PROVE ReportsTrue
    OBVIOUS
  <2>1. OnceOf(0) /\ WholeInv
    BY DEF OnceInv, ReportInv
  <2>2. MessagedOnce
    BY <2>1 DEF OnceOf, Got, MessagedOnce
  <2>3. ReportsComplete
    BY <2>1, StatusOf DEF WholeInv, Honest, Backed, ReportsComplete
  <2> QED BY <2>2, <2>3 DEF ReportsTrue
<1> QED BY <1>1, ReportInit, ReportNext, OnceAlways, PartsAlways, PTL DEF Spec

-----------------------------------------------------------------------------
(* The history implements RunLifecycle, for any number of runs,            *)
(* extractions and crashes, as long as automation.json can be saved and no *)
(* queued run is cancelled: a run cancelled while the worker waits with it *)
(* is executed all the same, and a change that was not saved is forgotten  *)
(* by a restart.                                                           *)

(* What else holds then.                                                   *)
SavedRuns == disk.runs = data.runs

(* Only the newest runs are kept, and ids are not used again.              *)
Recent ==
  \A r \in Runs : data.runs[r] # None =>
    r <= issued /\ Cardinality(Newer(data.runs, r)) < HistoryLimit

(* The worker's run is in the state the worker believes, or dropped.       *)
WorkerHas ==
  /\ worker.stage # "idle" => worker.run <= issued
  /\ worker.stage \in {"wait", "begin", "mark"} =>
       Status(worker.run) \in {"queued", "absent"}
  /\ worker.stage = "run" => Status(worker.run) \in {"running", "absent"}

LifecycleInv == Parts /\ RunningIsExecuted /\ SavedRuns /\ Recent /\ WorkerHas

(* The steps of the history.                                               *)
Same == issued' = issued /\ \A r \in Runs : Status(r)' = Status(r)
Becomes(r, status) ==
  issued' = issued
  /\ \A s \in Runs : Status(s)' = IF s = r THEN status ELSE Status(s)
Started(r) ==
  /\ Status(r) = "queued" /\ \A s \in Runs : Status(s) # "running"
  /\ Becomes(r, "running")
Ended(r, outcome) ==
  /\ \/ Status(r) = "running"
     \/ Status(r) = "queued" /\ outcome \in {"failed", "cancelled"}
  /\ Becomes(r, outcome)
Outcomes == Statuses \ Active
Step ==
  \/ Same
  \/ \E r \in Runs : Started(r) \/ \E outcome \in Outcomes : Ended(r, outcome)
  \/ \E t \in Templates : ~Refused(t) /\ QueueRun(t)

-----------------------------------------------------------------------------
(* A run is absent from the history exactly when it has no status.         *)
LEMMA Absence ==
  ASSUME Parts
  PROVE  \A r \in Runs : /\ data.runs[r] = None <=> Status(r) = "absent"
                         /\ Status(r) \in Statuses \cup {"absent"}
BY NoneAssumption DEF Status, Parts, StoreOK, Store, Run, Statuses

LEMMA NewerFinite ==
  ASSUME NEW runs, NEW r \in Runs
  PROVE  /\ IsFiniteSet(Newer(runs, r))
         /\ Cardinality(Newer(runs, r)) \in Nat
<1>1. IsFiniteSet(1 .. MaxRuns)
  BY RunFacts, FS_Interval
<1>2. Newer(runs, r) \in SUBSET (1 .. MaxRuns)
  BY DEF Newer, Present, Runs
<1> QED BY <1>1, <1>2, FS_Subset, FS_CardinalityType

(* If no run comes or goes, the newest are the same.                       *)
LEMMA RecentKept ==
  ASSUME Parts, Parts', Recent, issued' = issued,
         \A r \in Runs : Status(r)' = "absent" <=> Status(r) = "absent"
  PROVE  Recent'
<1>1. \A r \in Runs : data'.runs[r] = None <=> data.runs[r] = None
  <2>1. \A r \in Runs : data'.runs[r] = None <=> Status(r)' = "absent"
    BY NoneAssumption DEF Status, Parts, StoreOK, Store, Run, Statuses
  <2> QED BY <2>1, Absence
<1>2. \A r \in Runs : Newer(data.runs, r)' = Newer(data.runs, r)
  BY <1>1 DEF Newer, Present
<1> QED BY <1>1, <1>2 DEF Recent

-----------------------------------------------------------------------------
(* What queueRun does to a history of recent runs: the new run is queued,  *)
(* and at most one older run, the oldest, is dropped for it.               *)
LEMMA TrimDropsOne ==
  ASSUME Parts, Recent, NEW r \in Runs, r = issued + 1, NEW run \in Run,
         NEW runs, runs = [data.runs EXCEPT ![r] = run]
  PROVE  /\ Trim(runs)[r] = run
         /\ \A s \in Runs \ {r} : Trim(runs)[s] \in {data.runs[s], None}
         /\ \A s, u \in Runs \ {r} :
              /\ data.runs[s] # None /\ Trim(runs)[s] = None
              /\ data.runs[u] # None /\ Trim(runs)[u] = None
              => s = u
         /\ \A s \in Runs : Trim(runs)[s] # None =>
              s <= r /\ Cardinality(Newer(Trim(runs), s)) < HistoryLimit
<1> DEFINE before(s) == Newer(data.runs, s)
           after(s) == Newer(runs, s)
<1>0. Runs \subseteq Nat /\ HistoryLimit \in Nat \ {0}
  BY RunFacts, AutomationAssumption
<1>1. data.runs \in Histories
  BY DEF Parts, StoreOK, Store, Histories
<1>2. runs[r] = run /\ \A s \in Runs \ {r} : runs[s] = data.runs[s]
  BY <1>1 DEF Histories
<1>3. run # None
  BY NoneAssumption
<1>4. \A s \in Runs : data.runs[s] # None => s < r
  BY <1>0 DEF Recent, Parts, IssuedOK
<1>5. after(r) = {}
  <2>1. ASSUME NEW s \in Runs, s > r PROVE runs[s] = None
    <3>1. s # r /\ ~(s < r)
      BY <1>0, <2>1
    <3> QED BY <1>2, <1>4, <3>1
  <2> QED BY <2>1 DEF Newer, Present
<1>6. Trim(runs)[r] = run
  BY <1>0, <1>2, <1>5, FS_EmptySet DEF Trim
<1>7. \A s \in Runs \ {r} : Trim(runs)[s] \in {data.runs[s], None}
  BY <1>2 DEF Trim
<1>8. ASSUME NEW s \in Runs \ {r}, data.runs[s] # None
      PROVE  after(s) = before(s) \cup {r} /\ r \notin before(s)
  <2>1. s < r
    BY <1>4, <1>8
  <2>2. data.runs[r] = None
    BY <1>0, <1>4
  <2> QED BY <1>0, <1>2, <1>3, <2>1, <2>2 DEF Newer, Present
<1>9. ASSUME NEW s \in Runs \ {r}, NEW u \in Runs \ {r}, s < u,
             data.runs[s] # None, Trim(runs)[s] = None,
             data.runs[u] # None, Trim(runs)[u] = None
      PROVE  FALSE
  <2>1. Cardinality(after(u)) >= HistoryLimit
    BY <1>0, <1>2, <1>9, NewerFinite DEF Trim
  <2>2. Cardinality(after(u)) = Cardinality(before(u)) + 1
    BY <1>8, <1>9, NewerFinite, FS_AddElement
  <2>3. before(u) \cup {u} \subseteq before(s) /\ u \notin before(u)
    <3>1. \A v \in Runs : v > u => v > s
      BY <1>0, <1>9
    <3>2. u > s /\ ~(u > u)
      BY <1>0, <1>9
    <3> QED BY <1>9, <3>1, <3>2 DEF Newer, Present
  <2>4. Cardinality(before(u) \cup {u}) = Cardinality(before(u)) + 1
    BY <2>3, NewerFinite, FS_AddElement
  <2>5. Cardinality(before(u) \cup {u}) <= Cardinality(before(s))
    BY <2>3, NewerFinite, FS_Subset
  <2>6. Cardinality(before(s)) < HistoryLimit
    BY <1>9 DEF Recent
  <2>7. Cardinality(before(s)) \in Nat /\ Cardinality(before(u)) \in Nat
    BY NewerFinite
  <2> HIDE DEF before, after
  <2> QED BY <1>0, <2>1, <2>2, <2>4, <2>5, <2>6, <2>7
<1>10. ASSUME NEW s \in Runs, Trim(runs)[s] # None
       PROVE  s <= r /\ Cardinality(Newer(Trim(runs), s)) < HistoryLimit
  <2>1. s <= r
    BY <1>0, <1>4, <1>7, <1>10
  <2>2. Cardinality(after(s)) < HistoryLimit
    BY <1>10 DEF Trim
  <2>3. Newer(Trim(runs), s) \subseteq after(s)
    BY DEF Trim, Newer, Present
  <2>4. Cardinality(Newer(Trim(runs), s)) <= Cardinality(after(s))
    BY <2>3, NewerFinite, FS_Subset
  <2>5. Cardinality(Newer(Trim(runs), s)) \in Nat
        /\ Cardinality(after(s)) \in Nat
    BY NewerFinite
  <2> HIDE DEF after
  <2> QED BY <1>0, <2>1, <2>2, <2>4, <2>5
<1>11. \A s, u \in Runs \ {r} :
         /\ data.runs[s] # None /\ Trim(runs)[s] = None
         /\ data.runs[u] # None /\ Trim(runs)[u] = None
         => s = u
  BY <1>0, <1>9
<1> QED BY <1>6, <1>7, <1>10, <1>11

LEMMA QueueEffect ==
  ASSUME MaxFaults = 0, Parts, Parts', SavedRuns, Recent,
         NEW t \in Templates, QueueRun(t)
  PROVE  /\ SavedRuns' /\ Recent'
         /\ \E r \in Runs :
              /\ r = issued + 1 /\ issued' = r
              /\ Status(r) = "absent" /\ Status(r)' = "queued"
              /\ \A s \in Runs \ {r} : Status(s)' \in {Status(s), "absent"}
              /\ \A s, u \in Runs \ {r} :
                   /\ Status(s) # "absent" /\ Status(s)' = "absent"
                   /\ Status(u) # "absent" /\ Status(u)' = "absent"
                   => s = u
<1>0. issued + 1 \in Runs /\ issued' = issued + 1 /\ Runs \subseteq Nat
  BY RunFacts DEF QueueRun, Runs, Parts, IssuedOK
<1> PICK r \in Runs : r = issued + 1
  BY <1>0
<1> DEFINE runs == [data.runs EXCEPT ![r] = NewRun(t)]
           new == [data EXCEPT !.runs = Trim(runs)]
<1>1. r \in Runs /\ r = issued + 1 /\ issued' = r /\ Runs \subseteq Nat
  BY <1>0
<1>2. ~Fault
  BY DEF Fault, Parts, SpentOK, Counters
<1>3. data' = new /\ disk' = new
  BY <1>2 DEF QueueRun, SaveFails
<1>4. data'.runs = Trim(runs) /\ disk'.runs = Trim(runs)
  BY <1>3 DEF Parts, StoreOK, Store
<1>5. NewRun(t) \in Run /\ NewRun(t).status = "queued"
  BY DEF NewRun, Run, Statuses, File
<1> HIDE DEF runs
<1>6. /\ Trim(runs)[r] = NewRun(t)
      /\ \A s \in Runs \ {r} : Trim(runs)[s] \in {data.runs[s], None}
      /\ \A s, u \in Runs \ {r} :
           /\ data.runs[s] # None /\ Trim(runs)[s] = None
           /\ data.runs[u] # None /\ Trim(runs)[u] = None
           => s = u
      /\ \A s \in Runs : Trim(runs)[s] # None =>
           s <= r /\ Cardinality(Newer(Trim(runs), s)) < HistoryLimit
  <2>1. runs = [data.runs EXCEPT ![r] = NewRun(t)]
    BY DEF runs
  <2> QED BY <1>1, <1>5, <2>1, TrimDropsOne
<1>7. SavedRuns'
  BY <1>4 DEF SavedRuns
<1>8. Recent'
  <2>1. \A s \in Runs : Newer(data.runs, s)' = Newer(Trim(runs), s)
    BY <1>4 DEF Newer, Present
  <2> QED BY <1>1, <1>4, <1>6, <2>1 DEF Recent
<1>9. Status(r) = "absent"
  <2>1. r = issued + 1 /\ issued \in Nat
    BY <1>1, RunFacts DEF Parts, IssuedOK
  <2>2. data.runs[r] = None
    BY <1>1, <2>1 DEF Recent
  <2> QED BY <2>2 DEF Status
<1>10. Status(r)' = "queued"
  BY <1>4, <1>5, <1>6, NoneAssumption DEF Status
<1>11. \A s \in Runs : data'.runs[s] = None <=> Status(s)' = "absent"
  BY NoneAssumption DEF Status, Parts, StoreOK, Store, Run, Statuses
<1>12. \A s \in Runs \ {r} : Status(s)' \in {Status(s), "absent"}
  BY <1>4, <1>6 DEF Status
<1>13. \A s, u \in Runs \ {r} :
         /\ Status(s) # "absent" /\ Status(s)' = "absent"
         /\ Status(u) # "absent" /\ Status(u)' = "absent"
         => s = u
  BY <1>4, <1>6, <1>11, Absence
<1> QED BY <1>1, <1>7, <1>8, <1>9, <1>10, <1>12, <1>13

-----------------------------------------------------------------------------
(* Without faults what is changed is saved.                                *)
LEMMA Faultless ==
  ASSUME MaxFaults = 0, Parts
  PROVE  /\ \A new : Persist(new) => data' = new /\ disk' = new
         /\ \A new, what : Edit(new, what) => data' = new /\ disk' = new
BY DEF Persist, SaveFails, Fault, Edit, Parts, SpentOK, Counters

LEMMA WorkerSaved ==
  ASSUME MaxFaults = 0, Parts, SavedRuns, NEW new, Update(new)
  PROVE  SavedRuns'
BY Faultless DEF Update, SavedRuns, storeVars

(* The worker idles, or only goes on after it ended its run.               *)
LEMMA WorkerReleases ==
  ASSUME Parts, WorkerHas, issued' = issued, worker.stage # "idle",
         \/ GoIdle \/ NotifyOrIdle \/ Message("report") \/ GoTo("record")
  PROVE  WorkerHas'
<1> DEFINE Released ==
             \/ worker'.stage = "idle"
             \/ worker'.stage \in {"send", "record"} /\ worker'.run = worker.run
<1>0. worker \in BusyWorker
  BY Busy
<1>1. GoIdle => Released
  BY DEF GoIdle, Idle
<1>2. \A kind : Message(kind) => Released
  BY <1>0 DEF Message, BusyWorker
<1>3. GoTo("record") => Released
  BY <1>0 DEF GoTo, BusyWorker
<1>4. NotifyOrIdle => Released
  BY <1>1, <1>2 DEF NotifyOrIdle
<1>5. Released
  BY <1>1, <1>2, <1>3, <1>4
<1>6. worker'.stage \in {"idle", "send", "record"}
      /\ (worker'.stage # "idle" => worker'.run <= issued')
  BY <1>5 DEF WorkerHas
<1> QED BY <1>6 DEF WorkerHas

(* The worker ends its run.                                                *)
LEMMA WorkerEnds ==
  ASSUME MaxFaults = 0, LifecycleInv, issued' = issued,
         NEW status \in Outcomes,
         \/ worker.stage = "run"
         \/ worker.stage = "begin" /\ status = "failed",
         \/ Update(SetStatus(worker.run, status))
         \/ \E file \in File : Finish(status, file),
         \/ GoIdle \/ NotifyOrIdle \/ Message("report") \/ GoTo("record")
  PROVE  Step /\ SavedRuns' /\ WorkerHas'
<1> USE DEF LifecycleInv
<1>1. worker.run \in Runs /\ status \in Statuses /\ worker.stage # "idle"
  BY Busy DEF Outcomes
<1>2. \A r \in Runs :
        Status(r)' = IF r = worker.run /\ data.runs[r] # None THEN status
                     ELSE Status(r)
  BY <1>1, StatusWritten
<1>3. ASSUME Status(worker.run) = "absent" PROVE Step
  <2>1. data.runs[worker.run] = None
    BY <1>1, <1>3, Absence
  <2>2. Same
    BY <1>2, <2>1 DEF Same
  <2> QED BY <2>2 DEF Step
<1>4. ASSUME Status(worker.run) # "absent" PROVE Step
  <2>1. Becomes(worker.run, status)
    BY <1>1, <1>2, <1>4, Absence DEF Becomes
  <2>2. \/ Status(worker.run) = "running"
        \/ Status(worker.run) = "queued" /\ status = "failed"
    <3>1. CASE worker.stage = "run"
      BY <1>4, <3>1 DEF WorkerHas
    <3>2. CASE worker.stage = "begin" /\ status = "failed"
      BY <1>4, <3>2 DEF WorkerHas
    <3> QED BY <3>1, <3>2
  <2>3. Ended(worker.run, status)
    BY <2>1, <2>2 DEF Ended
  <2> QED BY <1>1, <2>3 DEF Step
<1>5. SavedRuns'
  BY WorkerSaved DEF Finish
<1>6. WorkerHas'
  BY <1>1, WorkerReleases
<1> QED BY <1>3, <1>4, <1>5, <1>6

(* Steps that leave the runs and the worker alone.                         *)
LEMMA Aside ==
  ASSUME LifecycleInv, issued' = issued, UNCHANGED worker,
         data'.runs = data.runs, disk'.runs = disk.runs
  PROVE  Step /\ SavedRuns' /\ WorkerHas'
<1>1. Same
  BY StatusKept DEF Same
<1>2. worker.stage # "idle" => worker.run \in Runs
  BY Busy DEF LifecycleInv
<1>3. WorkerHas'
  BY <1>1, <1>2 DEF WorkerHas, Same, LifecycleInv
<1> QED BY <1>1, <1>3 DEF Step, SavedRuns, LifecycleInv

(* Steps that queue a run leave the worker's run alone, or drop it.        *)
LEMMA QueueingStep ==
  ASSUME MaxFaults = 0, LifecycleInv, Parts', NEW t \in Templates, ~Refused(t),
         QueueRun(t), UNCHANGED worker
  PROVE  Step /\ SavedRuns' /\ WorkerHas'
<1>1. SavedRuns'
  BY QueueEffect DEF LifecycleInv
<1>2. PICK r \in Runs :
        /\ r = issued + 1 /\ issued' = r
        /\ \A s \in Runs \ {r} : Status(s)' \in {Status(s), "absent"}
  BY QueueEffect DEF LifecycleInv
<1>3. worker.stage # "idle" => worker.run \in Runs /\ worker.run <= issued
  BY Busy DEF LifecycleInv, WorkerHas
<1>4. issued \in Nat /\ Runs \subseteq Nat
  BY RunFacts DEF LifecycleInv, Parts, IssuedOK
<1>5. worker.stage # "idle" => worker.run \in Runs \ {r} /\ worker.run <= issued'
  <2>1. ASSUME NEW s \in Runs, s <= issued PROVE s # r /\ s <= r
    BY <1>2, <1>4, <2>1
  <2> QED BY <1>2, <1>3, <2>1
<1>6. WorkerHas'
  BY <1>2, <1>5 DEF WorkerHas, LifecycleInv
<1> QED BY <1>1, <1>6 DEF Step

-----------------------------------------------------------------------------
(* Every step of the system is a step of the history, or leaves it alone.  *)
LEMMA WorkSteps ==
  ASSUME MaxFaults = 0, LifecycleInv, Work
  PROVE  Step /\ SavedRuns' /\ WorkerHas'
<1> USE DEF LifecycleInv
<1>1. None \in File /\ result.file \in File
  BY DEF File, Parts, ResultOK
<1>2. CASE TakeRun
  <2>1. queue # <<>> /\ issued' = issued
    BY <1>2 DEF TakeRun, Receiving
  <2> PICK r \in Runs : r = Head(queue)
    BY <2>1 DEF Parts, HandOK
  <2>2. r \in Runs /\ r = Head(queue)
    OBVIOUS
  <2>3. CASE GoIdle /\ UNCHANGED storeVars
    <3>1. Same /\ SavedRuns'
      BY <2>1, <2>3, StatusKept DEF Same, SavedRuns, storeVars
    <3> QED BY <2>3, <3>1 DEF Step, GoIdle, Idle, WorkerHas
  <2>4. CASE Executable(r) /\ GoIdle /\ Persist(SetStatus(r, "failed"))
    <3>1. Status(r) = "queued" /\ data.runs[r] # None /\ "failed" \in Outcomes
          /\ "failed" \in Statuses
      BY <2>4 DEF Executable, Status, Statuses, Outcomes, Active
    <3>2. data' = SetStatus(r, "failed") /\ disk' = SetStatus(r, "failed")
      BY <2>4, Faultless
    <3>3. \A s \in Runs : Status(s)' = IF s = r THEN "failed" ELSE Status(s)
      BY <1>1, <2>2, <3>1, <3>2, StatusSet
    <3>4. Ended(r, "failed")
      BY <2>1, <3>1, <3>3 DEF Ended, Becomes
    <3>5. Step
      BY <2>2, <3>1, <3>4 DEF Step
    <3> QED BY <2>4, <3>2, <3>5 DEF GoIdle, Idle, WorkerHas, SavedRuns
  <2>5. CASE /\ Executable(r) /\ UNCHANGED storeVars
             /\ worker' = [stage |-> "wait", run |-> r, message |-> None]
    <3>1. Same /\ SavedRuns'
      BY <2>1, <2>5, StatusKept DEF Same, SavedRuns, storeVars
    <3>2. Status(r) = "queued" /\ r <= issued
      BY <2>2, <2>5 DEF Executable, Status, Recent
    <3>3. Status(r)' = "queued"
      BY <2>2, <3>1, <3>2 DEF Same
    <3>4. worker'.stage = "wait" /\ worker'.run = r
      BY <2>5
    <3>5. Status(worker.run)' = "queued"
      BY <3>3, <3>4
    <3> QED BY <2>1, <3>1, <3>2, <3>4, <3>5 DEF Step, WorkerHas
  <2> QED BY <1>2, <2>3, <2>4, <2>5 DEF TakeRun
<1>3. CASE WaitOver \/ Begin
  <2>1. /\ worker.stage \in {"wait", "begin"} /\ issued' = issued
        /\ UNCHANGED storeVars /\ (GoTo("begin") \/ GoTo("mark"))
    BY <1>3 DEF WaitOver, Begin
  <2>2. worker'.stage \in {"begin", "mark"} /\ worker'.run = worker.run
    BY <2>1, Busy DEF GoTo, BusyWorker
  <2>3. Same /\ SavedRuns'
    BY <2>1, StatusKept DEF Same, SavedRuns, storeVars
  <2>4. Status(worker.run) \in {"queued", "absent"} /\ worker.run <= issued
    BY <2>1 DEF WorkerHas
  <2>5. Status(worker.run)' \in {"queued", "absent"}
    BY <2>1, <2>2, <2>4 DEF storeVars, Status
  <2> QED BY <2>1, <2>2, <2>3, <2>4, <2>5 DEF Step, WorkerHas
<1>4. CASE BeginFails
  <2>1. "failed" \in Outcomes
    BY DEF Outcomes, Statuses, Active
  <2> QED BY <1>4, <2>1, WorkerEnds DEF BeginFails
<1>5. CASE MarkRunning
  <2>1. worker.run \in Runs /\ issued' = issued /\ worker.run <= issued
    BY <1>5, Busy DEF MarkRunning, WorkerHas
  <2>2. worker'.stage = "run" /\ worker'.run = worker.run
    BY <1>5, Busy DEF MarkRunning, GoTo, BusyWorker
  <2>3. \A r \in Runs :
          Status(r)' = IF r = worker.run /\ data.runs[r] # None THEN "running"
                       ELSE Status(r)
    BY <1>5, StatusWritten DEF MarkRunning, Statuses
  <2>4. SavedRuns'
    BY <1>5, WorkerSaved DEF MarkRunning
  <2>5. Status(worker.run) \in {"queued", "absent"}
    BY <1>5 DEF MarkRunning, WorkerHas
  <2>6. Step
    <3>1. CASE Status(worker.run) = "absent"
      <4>1. data.runs[worker.run] = None
        BY <2>1, <3>1, Absence
      <4>2. Same
        BY <2>1, <2>3, <4>1 DEF Same
      <4> QED BY <4>2 DEF Step
    <3>2. CASE Status(worker.run) = "queued"
      <4>1. Becomes(worker.run, "running")
        BY <2>1, <2>3, <3>2, Absence DEF Becomes
      <4>2. \A s \in Runs : Status(s) # "running"
        BY <1>5 DEF MarkRunning, RunningIsExecuted
      <4>3. Started(worker.run)
        BY <3>2, <4>1, <4>2 DEF Started
      <4> QED BY <2>1, <4>3 DEF Step
    <3> QED BY <2>5, <3>1, <3>2
  <2>7. Status(worker.run)' \in {"running", "absent"}
    <3> PICK r \in Runs : r = worker.run
      BY <2>1
    <3>1. Status(r)' \in {"running", "absent"}
      BY <2>3, <2>5, Absence
    <3> QED BY <2>2, <3>1
  <2> QED BY <2>1, <2>2, <2>4, <2>6, <2>7 DEF WorkerHas
<1>6. {"cancelled", "failed", "partial", "completed"} \subseteq Outcomes
  BY DEF Outcomes, Statuses, Active
<1>7. CASE FinishCancelled
  BY <1>1, <1>6, <1>7, WorkerEnds DEF FinishCancelled, Returned
<1>8. CASE FinishFailed
  BY <1>1, <1>6, <1>8, WorkerEnds DEF FinishFailed, Returned
<1>9. CASE FinishPartial
  BY <1>1, <1>6, <1>9, WorkerEnds DEF FinishPartial, Returned
<1>10. CASE FinishUnreported
  BY <1>1, <1>6, <1>10, WorkerEnds DEF FinishUnreported, Returned
<1>11. ASSUME NEW deliver \in BOOLEAN, FinishCompleted(deliver)
       PROVE  Step /\ SavedRuns' /\ WorkerHas'
  BY <1>1, <1>6, <1>11, WorkerEnds DEF FinishCompleted, Returned
<1>12. CASE Deliver \/ RecordDelivery
  <2>1. data' = data /\ issued' = issued /\ worker.stage # "idle"
        /\ (GoIdle \/ GoTo("record"))
    BY <1>12 DEF Deliver, RecordDelivery, Update, Persist, storeVars
  <2>2. SavedRuns'
    BY <1>12, WorkerSaved DEF Deliver, RecordDelivery, SavedRuns, storeVars
  <2>3. Same
    BY <2>1, StatusKept DEF Same
  <2> QED BY <2>1, <2>2, <2>3, WorkerReleases DEF Step
<1> QED BY <1>2, <1>3, <1>4, <1>5, <1>7, <1>8, <1>9, <1>10, <1>11, <1>12 DEF Work

LEMMA Steps ==
  ASSUME MaxFaults = 0, "queued" \notin CancelFrom, LifecycleInv, Parts',
         [Next]_vars
  PROVE  Step /\ SavedRuns' /\ WorkerHas'
<1> USE DEF LifecycleInv
<1>1. CASE Handle
  <2>1. ASSUME NEW t \in Templates, NEW value, NEW what,
               Edit(SetTemplate(t, value), what), UNCHANGED goVars,
               issued' = issued
        PROVE  Step /\ SavedRuns' /\ WorkerHas'
    <3>1. data'.runs = data.runs /\ disk'.runs = data.runs
      BY <2>1, Faultless DEF SetTemplate, Parts, StoreOK, Store
    <3> QED BY <2>1, <3>1, Aside DEF goVars, SavedRuns
  <2>2. ASSUME NEW t \in Templates, NEW p \in Policies, NEW enabled \in BOOLEAN,
               SaveTemplate(t, p, enabled)
        PROVE  Step /\ SavedRuns' /\ WorkerHas'
    BY <2>1, <2>2 DEF SaveTemplate
  <2>3. ASSUME NEW t \in Templates, DeleteTemplate(t)
        PROVE  Step /\ SavedRuns' /\ WorkerHas'
    BY <2>1, <2>3 DEF DeleteTemplate
  <2>4. ASSUME NEW t \in Templates, StartRun(t)
        PROVE  Step /\ SavedRuns' /\ WorkerHas'
    BY <2>4, QueueingStep DEF StartRun, goVars
  <2>5. ASSUME NEW r \in Runs, CancelQueued(r) PROVE FALSE
    BY <2>5 DEF CancelQueued
  <2>6. ASSUME NEW r \in Runs, CancelRunning(r)
        PROVE  Step /\ SavedRuns' /\ WorkerHas'
    BY <2>6, Aside DEF CancelRunning, storeVars
  <2>7. CASE CancelExtraction \/ StartExtraction
    BY <2>7, Aside DEF CancelExtraction, StartExtraction, storeVars, goVars
  <2>8. ASSUME NEW incomplete \in BOOLEAN, LoadDataset(incomplete)
        PROVE  Step /\ SavedRuns' /\ WorkerHas'
    BY <2>8, Aside DEF LoadDataset, storeVars, goVars
  <2> QED BY <1>1, <2>2, <2>3, <2>4, <2>5, <2>6, <2>7, <2>8 DEF Handle
<1>2. CASE Extract
  BY <1>2, Aside DEF Extract, ExtractAbort, ExtractFetched, ExtractWritten,
    storeVars, goVars
<1>3. CASE Work
  BY <1>3, WorkSteps
<1>4. CASE Schedule
  <2>1. CASE ScanSchedules
    <3>1. Advanced.runs = data.runs
      BY DEF Advanced, Parts, StoreOK, Store
    <3>2. data'.runs = data.runs /\ disk'.runs = disk.runs
      BY <2>1, <3>1, Faultless DEF ScanSchedules, storeVars, SavedRuns
    <3> QED BY <2>1, <3>2, Aside DEF ScanSchedules
  <2>2. ASSUME NEW t \in Templates, QueueDue(t)
        PROVE  Step /\ SavedRuns' /\ WorkerHas'
    <3>1. CASE UNCHANGED <<storeVars, issued>>
      BY <2>2, <3>1, Aside DEF QueueDue, storeVars
    <3>2. CASE ~Refused(t) /\ QueueRun(t)
      BY <2>2, <3>2, QueueingStep DEF QueueDue
    <3> QED BY <2>2, <3>1, <3>2 DEF QueueDue
  <2> QED BY <1>4, <2>1, <2>2 DEF Schedule
<1>5. CASE Recover
  BY <1>5, Aside DEF Recover, ScanQueued, SendRecovered, RecoveryDone, storeVars
<1>6. ASSUME NEW t \in Templates, FallDue(t)
      PROVE  Step /\ SavedRuns' /\ WorkerHas'
  <2>1. data'.runs = data.runs /\ disk'.runs = disk.runs
    BY <1>6 DEF FallDue, Parts, StoreOK, Store
  <2> QED BY <1>6, <2>1, Aside DEF FallDue, goVars
<1>7. CASE Restart
  <2>1. SavedRuns' /\ issued' = issued /\ worker'.stage = "idle"
    BY <1>7 DEF Restart, SavedRuns, Idle
  <2>2. \A r \in Runs :
          data'.runs[r] = IF data.runs[r] # None /\ data.runs[r].status = "running"
                          THEN [data.runs[r] EXCEPT !.status = "failed"]
                          ELSE data.runs[r]
    BY <1>7 DEF Restart, Loaded, SavedRuns, Parts, StoreOK, Store
  <2>3. ASSUME NEW r \in Runs, Status(r) = "running"
        PROVE  Status(r)' = "failed"
    <3>1. data.runs[r] # None /\ data.runs[r].status = "running"
          /\ data.runs[r] \in Run
      BY <2>3 DEF Status, Parts, StoreOK, Store
    <3>2. data'.runs[r].status = "failed" /\ data'.runs[r] \in Run
      BY <2>2, <3>1 DEF Run, Statuses
    <3> QED BY <3>2, NoneAssumption DEF Status
  <2>4. ASSUME NEW r \in Runs, Status(r) # "running"
        PROVE  Status(r)' = Status(r)
    BY <2>2, <2>4 DEF Status
  <2>5. Step
    <3>1. CASE \A r \in Runs : Status(r) # "running"
      BY <2>1, <2>4, <3>1 DEF Step, Same
    <3>2. CASE \E r \in Runs : Status(r) = "running"
      <4>1. PICK r \in Runs : Status(r) = "running"
        BY <3>2
      <4>2. \A s \in Runs : s # r => Status(s) # "running"
        BY <4>1 DEF RunningIsExecuted
      <4>3. Becomes(r, "failed")
        BY <2>1, <2>3, <2>4, <4>1, <4>2 DEF Becomes
      <4>4. Ended(r, "failed") /\ "failed" \in Outcomes
        BY <4>1, <4>3 DEF Ended, Outcomes, Statuses, Active
      <4> QED BY <4>1, <4>4 DEF Step
    <3> QED BY <3>1, <3>2
  <2> QED BY <2>1, <2>5 DEF WorkerHas
<1>8. CASE CancelSignal \/ (\E r \in Runs : WaitingSend(r)) \/ UNCHANGED vars
  BY <1>8, Aside DEF CancelSignal, WaitingSend, vars, storeVars, goVars
<1> QED BY <1>1, <1>2, <1>3, <1>4, <1>5, <1>6, <1>7, <1>8 DEF Next

LEMMA LifecycleInvNext ==
  ASSUME MaxFaults = 0, "queued" \notin CancelFrom
  PROVE  LifecycleInv /\ [Next]_vars => LifecycleInv'
<1> SUFFICES ASSUME LifecycleInv, [Next]_vars PROVE LifecycleInv'
  OBVIOUS
<1>1. Parts' /\ RunningIsExecuted'
  BY NextTyped, ExecutedNext DEF LifecycleInv
<1>2. Step /\ SavedRuns' /\ WorkerHas'
  BY <1>1, Steps
<1>3. Recent'
  <2>1. ASSUME Same PROVE Recent'
    BY <1>1, <2>1, RecentKept DEF Same, LifecycleInv
  <2>2. ASSUME NEW r \in Runs, NEW status \in Statuses, Status(r) # "absent",
               Becomes(r, status)
        PROVE  Recent'
    <3>1. \A s \in Runs : Status(s)' = "absent" <=> Status(s) = "absent"
      BY <2>2 DEF Becomes, Statuses
    <3> QED BY <1>1, <2>2, <3>1, RecentKept DEF Becomes, LifecycleInv
  <2>3. ASSUME NEW r \in Runs, Started(r) PROVE Recent'
    BY <2>2, <2>3 DEF Started, Statuses
  <2>4. ASSUME NEW r \in Runs, NEW outcome \in Outcomes, Ended(r, outcome)
        PROVE  Recent'
    BY <2>2, <2>4 DEF Ended, Outcomes
  <2>5. ASSUME NEW t \in Templates, QueueRun(t) PROVE Recent'
    BY <1>1, <2>5, QueueEffect DEF LifecycleInv
  <2> QED BY <1>2, <2>1, <2>3, <2>4, <2>5 DEF Step
<1> QED BY <1>1, <1>2, <1>3 DEF LifecycleInv

LEMMA LifecycleInvInit == Init => LifecycleInv
<1> SUFFICES ASSUME Init PROVE LifecycleInv
  OBVIOUS
<1>1. \A r \in Runs : data.runs[r] = None
  BY DEF Init
<1>2. RunningIsExecuted /\ Recent
  BY <1>1 DEF RunningIsExecuted, Recent, Status
<1>3. SavedRuns /\ WorkerHas
  BY DEF Init, Launched, Idle, SavedRuns, WorkerHas
<1> QED BY <1>2, <1>3, InitTyped DEF LifecycleInv

-----------------------------------------------------------------------------
(* The life of a run follows from its status and the ids issued.           *)
LEMMA LifeOf ==
  ASSUME Parts
  PROVE  \A r \in Runs :
           Life(r) = IF Status(r) # "absent" THEN Status(r)
                     ELSE IF r <= issued THEN "dropped" ELSE "new"
BY Absence DEF Life, Status

LEMMA LifecycleStep ==
  ASSUME MaxFaults = 0, "queued" \notin CancelFrom, LifecycleInv, [Next]_vars
  PROVE  [Lifecycle!Next]_([r \in Runs |-> Life(r)])
<1> DEFINE life == [r \in Runs |-> Life(r)]
<1>1. LifecycleInv' /\ Parts /\ Parts'
  BY LifecycleInvNext DEF LifecycleInv
<1>2. Step
  BY <1>1, Steps DEF LifecycleInv
<1>3. \A r \in Runs :
        /\ Life(r) = IF Status(r) # "absent" THEN Status(r)
                     ELSE IF r <= issued THEN "dropped" ELSE "new"
        /\ Life(r)' = IF Status(r)' # "absent" THEN Status(r)'
                      ELSE IF r <= issued' THEN "dropped" ELSE "new"
  <2>1. \A r \in Runs : data'.runs[r] # None => data'.runs[r].status # "absent"
    BY <1>1 DEF Parts, StoreOK, Store, Run, Statuses
  <2> QED BY <1>1, <2>1, LifeOf DEF Life, Status
<1>4. CASE Same
  BY <1>3, <1>4 DEF Same
<1>5. ASSUME NEW r \in Runs, NEW status \in Statuses, Status(r) # "absent",
             Becomes(r, status)
      PROVE  life' = [life EXCEPT ![r] = status] /\ life[r] = Status(r)
  <2>1. Life(r)' = status /\ Life(r) = Status(r)
    BY <1>3, <1>5 DEF Becomes, Statuses
  <2>2. \A s \in Runs \ {r} : Life(s)' = Life(s)
    BY <1>3, <1>5 DEF Becomes
  <2> QED BY <2>1, <2>2
<1>6. ASSUME NEW r \in Runs, Started(r) PROVE Lifecycle!Next
  <2>1. life' = [life EXCEPT ![r] = "running"] /\ life[r] = "queued"
    BY <1>5, <1>6 DEF Started, Statuses
  <2>2. \A s \in Runs : life[s] # "running"
    BY <1>3, <1>6 DEF Started
  <2>3. Lifecycle!Start(r)
    BY <2>1, <2>2 DEF Lifecycle!Start
  <2> QED BY <2>3 DEF Lifecycle!Next
<1>7. ASSUME NEW r \in Runs, NEW outcome \in Outcomes, Ended(r, outcome)
      PROVE  Lifecycle!Next
  <2>1. outcome \in Statuses /\ outcome \in Lifecycle!Outcomes
    BY DEF Outcomes, Statuses, Active, Lifecycle!Outcomes
  <2>2. life' = [life EXCEPT ![r] = outcome] /\ life[r] = Status(r)
    BY <1>5, <1>7, <2>1 DEF Ended
  <2>3. Lifecycle!End(r, outcome)
    BY <1>7, <2>2 DEF Ended, Lifecycle!End
  <2> QED BY <2>1, <2>3 DEF Lifecycle!Next
<1>8. ASSUME NEW t \in Templates, QueueRun(t) PROVE Lifecycle!Next
  <2>1. PICK r \in Runs :
          /\ r = issued + 1 /\ issued' = r
          /\ Status(r) = "absent" /\ Status(r)' = "queued"
          /\ \A s \in Runs \ {r} : Status(s)' \in {Status(s), "absent"}
          /\ \A s, u \in Runs \ {r} :
               /\ Status(s) # "absent" /\ Status(s)' = "absent"
               /\ Status(u) # "absent" /\ Status(u)' = "absent"
               => s = u
    BY <1>1, <1>8, QueueEffect DEF LifecycleInv
  <2>2. issued \in Nat /\ Runs \subseteq Nat
    BY <1>1, RunFacts DEF Parts, IssuedOK
  <2>3. life[r] = "new" /\ life'[r] = "queued"
    BY <1>3, <2>1, <2>2
  <2>4. \A s \in Runs \ {r} : s <= issued' <=> s <= issued
    BY <2>1, <2>2
  <2>5. \A s \in Runs \ {r} : Status(s)' = Status(s) => life'[s] = life[s]
    BY <1>3, <2>4
  <2>6. CASE \A s \in Runs \ {r} : Status(s)' = Status(s)
    <3>1. life' = [life EXCEPT ![r] = "queued"]
      BY <2>3, <2>5, <2>6
    <3>2. Lifecycle!Accept(r)
      BY <2>3, <3>1 DEF Lifecycle!Accept
    <3> QED BY <3>2 DEF Lifecycle!Next
  <2>7. CASE \E s \in Runs \ {r} : Status(s)' # Status(s)
    <3>1. PICK s \in Runs \ {r} : Status(s)' = "absent" /\ Status(s) # "absent"
      BY <2>1, <2>7
    <3>2. \A u \in Runs \ {r, s} : Status(u)' = Status(u)
      BY <2>1, <3>1
    <3>3. s <= issued
      BY <1>1, <3>1, Absence DEF LifecycleInv, Recent
    <3>4. life[s] \in Lifecycle!Known
      <4>1. life[s] \in Statuses
        BY <1>1, <1>3, <3>1, Absence
      <4> QED BY <4>1 DEF Statuses, Lifecycle!Known, Lifecycle!Outcomes
    <3>5. life'[s] = "dropped"
      BY <1>3, <2>4, <3>1, <3>3
    <3>6. life' = [life EXCEPT ![r] = "queued", ![s] = "dropped"]
      BY <2>3, <2>5, <3>1, <3>2, <3>5
    <3>7. Lifecycle!Accept(r)
      BY <2>3, <3>1, <3>4, <3>6 DEF Lifecycle!Accept
    <3> QED BY <3>7 DEF Lifecycle!Next
  <2> QED BY <2>6, <2>7
<1> QED BY <1>2, <1>4, <1>6, <1>7, <1>8 DEF Step

(* As long as automation.json can be saved and no queued run is cancelled, *)
(* a run waits, runs alone and at most once, and keeps its outcome until   *)
(* the history drops it - never more than one for each run queued.         *)
THEOREM LifecycleImplemented ==
  ASSUME MaxFaults = 0, "queued" \notin CancelFrom
  PROVE  Spec => ImplementsLifecycle
<1>1. Init => Lifecycle!Init
  <2>1. \A r \in Runs : ~(r <= 0)
    BY DEF Runs
  <2> QED BY <2>1 DEF Init, Life, Lifecycle!Init
<1>2. LifecycleInv /\ [Next]_vars => [Lifecycle!Next]_([r \in Runs |-> Life(r)])
  BY LifecycleStep
<1> QED BY <1>1, <1>2, LifecycleInvInit, LifecycleInvNext, PTL
      DEF Spec, ImplementsLifecycle, Lifecycle!Spec

-----------------------------------------------------------------------------
(* The run list *)

(* A store with the templates' policies, and the runs' templates, that the *)
(* history has.                                                            *)
Owners(new) ==
  \A r \in Runs : data.runs[r] # None /\ new.runs[r] # None =>
    new.runs[r].template = data.runs[r].template
Settings(new) ==
  \A t \in Templates : new.templates[t] # None =>
    data.templates[t] # None /\ new.templates[t].policy = data.templates[t].policy

LEMMA StatusOwners ==
  ASSUME Parts, NEW r \in Runs, data.runs[r] # None, NEW status, NEW file,
         NEW new \in {SetStatus(r, status),
                      SetRun(r, [data.runs[r] EXCEPT !.status = status, !.file = file])}
  PROVE  Owners(new) /\ Settings(new)
<1>1. data \in Store /\ data.runs[r] \in Run
  BY DEF Parts, StoreOK, Store
<1> DEFINE one == [data.runs[r] EXCEPT !.status = status]
           two == [data.runs[r] EXCEPT !.status = status, !.file = file]
<1>2. one.template = data.runs[r].template /\ two.template = data.runs[r].template
  BY <1>1 DEF Run
<1>3. new.runs[r] \in {one, two} /\ new.templates = data.templates
  BY <1>1 DEF SetStatus, SetRun, Store
<1>4. \A s \in Runs \ {r} : new.runs[s] = data.runs[s]
  BY <1>1 DEF SetStatus, SetRun, Store
<1> HIDE DEF one, two
<1> QED BY <1>2, <1>3, <1>4 DEF Owners, Settings

LEMMA SameOwners ==
  ASSUME NEW new, new = data PROVE Owners(new) /\ Settings(new)
BY DEF Owners, Settings

LEMMA UpdateOwners ==
  ASSUME MaxFaults = 0, Parts, disk = data, worker.stage # "idle",
         \/ \E status : Update(SetStatus(worker.run, status))
         \/ \E status, file : Finish(status, file)
         \/ Update(data)
  PROVE  disk' = data' /\ Owners(data') /\ Settings(data')
<1>1. PICK w \in Runs : w = worker.run
  BY Busy
<1>2. CASE UNCHANGED storeVars
  BY <1>2, SameOwners DEF storeVars
<1>3. ASSUME data.runs[w] # None
      PROVE  disk' = data' /\ Owners(data') /\ Settings(data')
  <2>1. PICK new : /\ Persist(new)
                   /\ \/ \E status : new = SetStatus(w, status)
                      \/ \E status, file :
                           new = SetRun(w, [data.runs[w] EXCEPT !.status = status, !.file = file])
                      \/ new = data
    BY <1>1, <1>3 DEF Update, Finish
  <2>2. data' = new /\ disk' = new
    BY <2>1, Faultless
  <2>3. Owners(new) /\ Settings(new)
    <3>1. ASSUME NEW status, new = SetStatus(w, status) PROVE Owners(new) /\ Settings(new)
      BY <1>3, <3>1, StatusOwners
    <3>2. ASSUME NEW status, NEW file,
                 new = SetRun(w, [data.runs[w] EXCEPT !.status = status, !.file = file])
          PROVE  Owners(new) /\ Settings(new)
      BY <1>3, <3>2, StatusOwners
    <3> QED BY <2>1, <3>1, <3>2, SameOwners
  <2> QED BY <2>2, <2>3
<1> QED BY <1>1, <1>2, <1>3 DEF Update, Finish

LEMMA QueueOwners ==
  ASSUME MaxFaults = 0, Parts, Recent, NEW t \in Templates, QueueRun(t)
  PROVE  /\ disk' = data' /\ Owners(data') /\ Settings(data')
         /\ data'.runs[issued + 1] # None => data'.runs[issued + 1].template = t
<1> DEFINE r == issued + 1
           runs == [data.runs EXCEPT ![r] = NewRun(t)]
           new == [data EXCEPT !.runs = Trim(runs)]
<1>1. r \in Runs /\ ~(r <= issued)
  BY RunFacts DEF QueueRun, Runs, Parts, IssuedOK
<1>2. ~Fault
  BY DEF Fault, Parts, SpentOK, Counters
<1>3. data' = new /\ disk' = new
  BY <1>2 DEF QueueRun, SaveFails
<1>4. data'.runs = Trim(runs) /\ data'.templates = data.templates
  BY <1>3 DEF Parts, StoreOK, Store
<1>5. data.runs \in Histories /\ NewRun(t) \in Run /\ NewRun(t).template = t
  BY DEF Parts, StoreOK, Store, Histories, NewRun, Run, Statuses, File
<1>6. runs \in Histories /\ runs[r] = NewRun(t) /\ \A s \in Runs \ {r} : runs[s] = data.runs[s]
  BY <1>1, <1>5 DEF Histories
<1> HIDE DEF runs
<1>7. \A s \in Runs : data'.runs[s] \in {runs[s], None}
  BY <1>4, <1>6, Trimmed
<1>8. data.runs[r] = None
  BY <1>1 DEF Recent
<1>9. Owners(data')
  BY <1>6, <1>7, <1>8 DEF Owners
<1>10. Settings(data')
  BY <1>4 DEF Settings
<1> QED BY <1>1, <1>3, <1>5, <1>6, <1>7, <1>9, <1>10

(* Only an edit changes policies; what is in the file is in the history.   *)
LEMMA StoreSteps ==
  ASSUME MaxFaults = 0, "queued" \notin CancelFrom, LifecycleInv, disk = data, [Next]_vars
  PROVE  /\ disk' = data' /\ Owners(data')
         /\ spent'.edits = spent.edits => Settings(data')
<1> USE DEF LifecycleInv
<1>0. ASSUME UNCHANGED storeVars PROVE disk' = data' /\ Owners(data') /\ Settings(data')
  BY <1>0, SameOwners DEF storeVars
<1>1. CASE Handle
  <2>1. ASSUME NEW t \in Templates, NEW value, Edit(SetTemplate(t, value), "edits")
        PROVE  disk' = data' /\ Owners(data') /\ spent'.edits # spent.edits
    <3>1. data' = SetTemplate(t, value) /\ disk' = data'
      BY <2>1, Faultless
    <3>2. data'.runs = data.runs
      BY <3>1 DEF SetTemplate, Parts, StoreOK, Store
    <3>3. spent'.edits = spent.edits + 1 /\ spent.edits \in Nat
      BY <2>1 DEF Edit, Spend, Parts, SpentOK, Counters
    <3> QED BY <3>1, <3>2, <3>3 DEF Owners
  <2>2. ASSUME NEW t \in Templates, NEW p \in Policies, NEW enabled \in BOOLEAN,
               SaveTemplate(t, p, enabled)
        PROVE  disk' = data' /\ Owners(data') /\ spent'.edits # spent.edits
    BY <2>1, <2>2 DEF SaveTemplate
  <2>3. ASSUME NEW t \in Templates, DeleteTemplate(t)
        PROVE  disk' = data' /\ Owners(data') /\ spent'.edits # spent.edits
    BY <2>1, <2>3 DEF DeleteTemplate
  <2>4. ASSUME NEW t \in Templates, StartRun(t)
        PROVE  disk' = data' /\ Owners(data') /\ Settings(data')
    BY <2>4, QueueOwners DEF StartRun
  <2>5. ASSUME NEW r \in Runs, CancelQueued(r) PROVE FALSE
    BY <2>5 DEF CancelQueued
  <2>6. CASE (\E r \in Runs : CancelRunning(r)) \/ CancelExtraction \/ StartExtraction
    BY <1>0, <2>6 DEF CancelRunning, CancelExtraction, StartExtraction
  <2>7. ASSUME NEW incomplete \in BOOLEAN, LoadDataset(incomplete)
        PROVE  disk' = data' /\ Owners(data') /\ Settings(data')
    BY <1>0, <2>7 DEF LoadDataset
  <2> QED BY <1>1, <2>2, <2>3, <2>4, <2>5, <2>6, <2>7 DEF Handle
<1>2. CASE Work
  <2>1. CASE TakeRun
    <3>1. CASE Executable(Head(queue)) /\ Persist(SetStatus(Head(queue), "failed"))
      <4>1. PICK r \in Runs : r = Head(queue)
        BY <2>1 DEF TakeRun, Receiving, Parts, HandOK
      <4> DEFINE new == SetStatus(r, "failed")
      <4>2. Owners(new) /\ Settings(new)
        BY <3>1, <4>1, StatusOwners DEF Executable, Status
      <4> HIDE DEF new
      <4>3. Persist(new)
        BY <3>1, <4>1 DEF new
      <4> QED BY <4>2, <4>3, Faultless
    <3> QED BY <1>0, <2>1, <3>1 DEF TakeRun
  <2>2. CASE WaitOver \/ Begin \/ Deliver
    BY <1>0, <2>2 DEF WaitOver, Begin, Deliver
  <2>3. CASE BeginFails \/ MarkRunning \/ RecordDelivery
    BY <2>3, UpdateOwners DEF BeginFails, MarkRunning, RecordDelivery
  <2>4. CASE FinishCancelled \/ FinishFailed \/ FinishPartial \/ FinishUnreported
    BY <2>4, UpdateOwners DEF FinishCancelled, FinishFailed, FinishPartial, FinishUnreported, Returned
  <2>5. ASSUME NEW deliver \in BOOLEAN, FinishCompleted(deliver)
        PROVE  disk' = data' /\ Owners(data') /\ Settings(data')
    BY <2>5, UpdateOwners DEF FinishCompleted, Returned
  <2> QED BY <1>2, <2>1, <2>2, <2>3, <2>4, <2>5 DEF Work
<1>3. CASE Schedule
  <2>1. CASE ScanSchedules
    <3>1. CASE Persist(Advanced)
      <4>1. /\ Advanced.runs = data.runs
            /\ \A t \in Templates : Advanced.templates[t] =
                 IF t \in Due THEN [data.templates[t] EXCEPT !.next = "later"]
                 ELSE data.templates[t]
        BY DEF Advanced, Parts, StoreOK, Store
      <4>2. \A t \in Due : /\ data.templates[t] # None
                           /\ [data.templates[t] EXCEPT !.next = "later"].policy =
                                data.templates[t].policy
        BY DEF Due, Parts, StoreOK, Store, Template
      <4>3. data' = Advanced /\ disk' = data'
        BY <3>1, Faultless
      <4>4. Settings(data')
        BY <4>1, <4>2, <4>3 DEF Settings
      <4> QED BY <4>1, <4>3, <4>4 DEF Owners
    <3> QED BY <1>0, <2>1, <3>1 DEF ScanSchedules
  <2>2. ASSUME NEW t \in Templates, QueueDue(t)
        PROVE  disk' = data' /\ Owners(data') /\ Settings(data')
    BY <1>0, <2>2, QueueOwners DEF QueueDue
  <2> QED BY <1>3, <2>1, <2>2 DEF Schedule
<1>4. ASSUME NEW t \in Templates, FallDue(t)
      PROVE  disk' = data' /\ Owners(data') /\ Settings(data')
  <2>1. data' = [data EXCEPT !.templates[t].next = "due"] /\ disk' = data'
    BY <1>4 DEF FallDue
  <2>2. data'.runs = data.runs
    BY <2>1 DEF Parts, StoreOK, Store
  <2>3. \A s \in Templates : data'.templates[s] =
          IF s = t THEN [data.templates[t] EXCEPT !.next = "due"] ELSE data.templates[s]
    BY <2>1 DEF Parts, StoreOK, Store
  <2>4. data.templates[t] # None /\ data.templates[t] \in Template
    BY <1>4 DEF FallDue, Parts, StoreOK, Store
  <2>5. [data.templates[t] EXCEPT !.next = "due"].policy = data.templates[t].policy
    BY <2>4 DEF Template
  <2>6. Settings(data')
    BY <2>3, <2>4, <2>5 DEF Settings
  <2> QED BY <2>1, <2>2, <2>6 DEF Owners
<1>5. CASE Restart
  <2>1. data' = Loaded(disk) /\ disk' = data'
    BY <1>5 DEF Restart
  <2>2. /\ data'.templates = data.templates
        /\ \A r \in Runs : data'.runs[r] =
             IF data.runs[r] # None /\ data.runs[r].status = "running"
             THEN [data.runs[r] EXCEPT !.status = "failed"] ELSE data.runs[r]
    BY <2>1 DEF Loaded, Parts, StoreOK, Store
  <2>3. \A r \in Runs : data.runs[r] # None =>
          [data.runs[r] EXCEPT !.status = "failed"].template = data.runs[r].template
    BY DEF Parts, StoreOK, Store, Run
  <2> QED BY <2>1, <2>2, <2>3 DEF Owners, Settings
<1>6. CASE Extract \/ Recover \/ CancelSignal \/ (\E r \in Runs : WaitingSend(r)) \/ UNCHANGED vars
  BY <1>0, <1>6 DEF Extract, ExtractAbort, ExtractFetched, ExtractWritten, Recover, ScanQueued,
    SendRecovered, RecoveryDone, CancelSignal, WaitingSend, vars
<1> QED BY <1>1, <1>2, <1>3, <1>4, <1>5, <1>6 DEF Next

(* The queued or running jobs of a template that skips overlaps, as long   *)
(* as nobody edits a template: two of them are the same one.               *)
Job(t, r) == IsActive(r) /\ data.runs[r].template = t
Single ==
  \A t \in Templates : data.templates[t] # None /\ data.templates[t].policy.skip =>
    \A r, s \in Runs : Job(t, r) /\ Job(t, s) => r = s
ListInv == disk = data /\ (spent.edits = 0 => Single)

LEMMA ActivePresent == \A r \in Runs : IsActive(r) => data.runs[r] # None
BY DEF IsActive, Status, Active

(* A job after the step that was one before it had the same template.      *)
LEMMA JobKept ==
  ASSUME Owners(data'), NEW t \in Templates, NEW r \in Runs, Job(t, r)', IsActive(r)
  PROVE  Job(t, r)
<1>1. data.runs[r] # None
  BY ActivePresent
<1>2. data'.runs[r] # None /\ data'.runs[r].template = t
  BY DEF Job, IsActive, Status, Active
<1> QED BY <1>1, <1>2 DEF Job, Owners

LEMMA SingleKept ==
  ASSUME Owners(data'), Settings(data'), Single,
         \A r \in Runs : IsActive(r)' => IsActive(r)
  PROVE  Single'
<1> SUFFICES ASSUME NEW t \in Templates, data'.templates[t] # None,
                    data'.templates[t].policy.skip,
                    NEW r \in Runs, NEW s \in Runs, Job(t, r)', Job(t, s)'
             PROVE  r = s
  BY DEF Single
<1>1. IsActive(r) /\ IsActive(s)
  BY DEF Job
<1>2. Job(t, r) /\ Job(t, s)
  BY <1>1, JobKept
<1>3. data.templates[t] # None /\ data.templates[t].policy.skip
  BY DEF Settings
<1> QED BY <1>2, <1>3 DEF Single

(* The template of an accepted run had no job if it skips overlaps.        *)
LEMMA SingleQueued ==
  ASSUME MaxFaults = 0, LifecycleInv, LifecycleInv', Single,
         NEW t \in Templates, ~Refused(t), QueueRun(t)
  PROVE  Single'
<1>1. /\ Owners(data') /\ Settings(data')
      /\ data'.runs[issued + 1] # None => data'.runs[issued + 1].template = t
  BY QueueOwners DEF LifecycleInv
<1>2. PICK n \in Runs :
        /\ n = issued + 1
        /\ \A s \in Runs \ {n} : Status(s)' \in {Status(s), "absent"}
  BY QueueEffect DEF LifecycleInv
<1>3. \A r \in Runs \ {n} : IsActive(r)' => IsActive(r)
  BY <1>2 DEF IsActive, Active
<1>4. data'.runs[n] # None => data'.runs[n].template = t
  BY <1>1, <1>2
<1> SUFFICES ASSUME NEW u \in Templates, data'.templates[u] # None,
                    data'.templates[u].policy.skip,
                    NEW r \in Runs, NEW s \in Runs, Job(u, r)', Job(u, s)', r # s
             PROVE  FALSE
  BY DEF Single
<1>5. data.templates[u] # None /\ data.templates[u].policy.skip
  BY <1>1 DEF Settings
<1>6. \A v \in Runs \ {n} : Job(u, v)' => Job(u, v)
  BY <1>1, <1>3, JobKept DEF Job
<1>7. CASE r # n /\ s # n
  BY <1>5, <1>6, <1>7 DEF Single
<1>8. ASSUME NEW v \in Runs \ {n}, Job(u, v)', Job(u, n)' PROVE FALSE
  <2>1. data'.runs[n] # None /\ data'.runs[n].template = u
    BY <1>8 DEF Job, IsActive, Status, Active
  <2>2. u = t
    BY <1>4, <2>1
  <2>3. AlreadyActive(t)
    BY <1>6, <1>8, <2>2 DEF Job, AlreadyActive
  <2> QED BY <1>5, <2>2, <2>3 DEF Refused
<1> QED BY <1>7, <1>8

LEMMA ListInvNext ==
  ASSUME MaxFaults = 0, "queued" \notin CancelFrom
  PROVE  LifecycleInv /\ ListInv /\ [Next]_vars => ListInv'
<1> SUFFICES ASSUME LifecycleInv, ListInv, [Next]_vars PROVE ListInv'
  OBVIOUS
<1>1. LifecycleInv'
  BY LifecycleInvNext
<1>2. disk' = data' /\ Owners(data') /\ (spent'.edits = spent.edits => Settings(data'))
  BY StoreSteps DEF ListInv
<1> SUFFICES ASSUME spent'.edits = 0 PROVE Single'
  BY <1>2 DEF ListInv
<1>3. spent.edits = 0
  <2>1. spent.edits \in Nat /\ spent'.edits \in Nat
    BY <1>1 DEF LifecycleInv, Parts, SpentOK, Counters
  <2>2. spent.edits <= spent'.edits
    BY NextGrows DEF LifecycleInv, Grows
  <2> QED BY <2>1, <2>2
<1>4. Settings(data') /\ Single
  BY <1>2, <1>3 DEF ListInv
<1>5. Step
  BY <1>1, Steps DEF LifecycleInv
<1>6. CASE Same
  <2>1. \A r \in Runs : IsActive(r)' => IsActive(r)
    BY <1>6 DEF Same, IsActive
  <2> QED BY <1>2, <1>4, <2>1, SingleKept
<1>7. ASSUME NEW r \in Runs, Started(r) PROVE Single'
  <2>1. \A s \in Runs : IsActive(s)' => IsActive(s)
    BY <1>7 DEF Started, Becomes, IsActive, Active
  <2> QED BY <1>2, <1>4, <2>1, SingleKept
<1>8. ASSUME NEW r \in Runs, NEW outcome \in Outcomes, Ended(r, outcome)
      PROVE  Single'
  <2>1. \A s \in Runs : IsActive(s)' => IsActive(s)
    BY <1>8 DEF Ended, Becomes, IsActive, Outcomes
  <2> QED BY <1>2, <1>4, <2>1, SingleKept
<1>9. ASSUME NEW t \in Templates, ~Refused(t), QueueRun(t) PROVE Single'
  BY <1>1, <1>4, <1>9, SingleQueued
<1> QED BY <1>5, <1>6, <1>7, <1>8, <1>9 DEF Step

LEMMA ListTrue ==
  ASSUME LifecycleInv, ListInv, spent.edits = 0
  PROVE  RunListTrue
<1>1. NoOverlap
  <2> SUFFICES ASSUME NEW t \in Templates, data.templates[t] # None,
                      data.templates[t].policy.skip
               PROVE  Cardinality({r \in Runs : Job(t, r)}) <= 1
    BY DEF NoOverlap, Job
  <2> DEFINE jobs == {r \in Runs : Job(t, r)}
  <2>1. \A r, s \in jobs : r = s
    BY DEF ListInv, Single
  <2>2. CASE jobs = {}
    <3>1. Cardinality(jobs) = 0
      BY <2>2, FS_EmptySet
    <3> QED BY <3>1
  <2>3. CASE jobs # {}
    <3>1. PICK r : r \in jobs
      BY <2>3
    <3>2. jobs = {r}
      BY <2>1, <3>1
    <3>3. Cardinality(jobs) = 1
      BY <3>2, FS_Singleton
    <3> QED BY <3>3
  <2> QED BY <2>2, <2>3
<1>2. QueuedOnDisk
  BY DEF ListInv, QueuedOnDisk, Status
<1> QED BY <1>1, <1>2 DEF RunListTrue, LifecycleInv

(* As long as automation.json can be saved, no queued run is cancelled and *)
(* no template is edited, what the run list says is so: queueRun admits no *)
(* second queued or running job of a template that skips overlaps, the run *)
(* shown as running is the one executed, and a run shown as queued is in   *)
(* the file a restart reads.                                               *)
THEOREM RunList ==
  ASSUME MaxFaults = 0, "queued" \notin CancelFrom
  PROVE  Spec => [](spent.edits = 0 => RunListTrue)
<1>1. Init => ListInv
  <2> SUFFICES ASSUME Init PROVE ListInv
    OBVIOUS
  <2>1. disk = data /\ \A r \in Runs : data.runs[r] = None
    BY DEF Init
  <2>2. Single
    BY <2>1, ActivePresent DEF Single, Job
  <2> QED BY <2>1, <2>2 DEF ListInv
<1>2. LifecycleInv /\ ListInv => (spent.edits = 0 => RunListTrue)
  BY ListTrue
<1> QED BY <1>1, <1>2, LifecycleInvInit, LifecycleInvNext, ListInvNext, PTL DEF Spec
=============================================================================
