--------------------------- MODULE ReportDelivery ---------------------------
(***************************************************************************)
(* What becomes of a template's runs once they are extracted, automation*.go *)
(* of src/internal/extractor: the CSV and the reports made from it, their  *)
(* delivery to the template's destinations with attempts and results, and  *)
(* the retention of artifacts.  One template, whose runs the worker        *)
(* finishes one after the other.  The receivers are external.              *)
(***************************************************************************)
EXTENDS Integers, Sequences, FiniteSets, Functions

CONSTANTS
  Retention,    \* RetentionCount
  Attempts,     \* deliveryAttempts
  None,
  Modes,        \* what to consider, see mode
  MaxRuns,      \* bound: runs of the template
  MaxEach,      \* bound: troubles of each kind
  MaxTrouble    \* bound: all of them together

(* Destinations that are only told of a run; that get a message with each  *)
(* artifact (webhooks with files, Slack files, e-mail); folders; SFTP.     *)
Kinds == {"notice", "message", "folder", "sftp"}
Outcomes == {"none", "partial", "full"}
Reports == {"html", "pdf"}
Policies == {"always", "on_change", "threshold"}
(* A request not served; served, with its answer lost; a copy not written; *)
(* the SFTP connection broken; a report not written; a file that cannot be *)
(* removed; a CSV the operator takes out of the folder; a destination      *)
(* enabled or disabled; a crash.                                           *)
Troubles == {"refused", "lost", "unwritten", "broken", "report", "stuck", "taken", "edited",
             "crashes"}

ASSUME SizesAssumption ==
  /\ {Retention, Attempts} \subseteq Nat \ {0}
  /\ {MaxRuns, MaxEach, MaxTrouble} \subseteq Nat

Names == [of : 0 .. MaxRuns, partial : BOOLEAN, again : 0 .. MaxRuns]
FileNames == [name : Names, ext : {"csv", "json"} \cup Reports]
ASSUME NoneAssumption == None \notin Names /\ None \notin FileNames
ASSUME ModesAssumption ==
  \A m \in Modes : /\ m.kinds \in Seq(Kinds) /\ m.reports \subseteq Reports
                   /\ {m.unique, m.notify} \subseteq BOOLEAN /\ m.policy \in Policies
                   /\ m.outcomes \subseteq Outcomes /\ m.may \subseteq Troubles

VARIABLES
  mode,      \* the template: kinds of its destinations, reports wanted, a
             \* file name of its own for each run or the same, failures told,
             \* which complete ones are; what may happen
  enabled,   \* destinations enabled
  runs,      \* the template's runs in manager.data.Runs, oldest first
  folder,    \* SavePath: the run each file is of
  worker,    \* executeRun, past the wait
  received,  \* messages each destination got, and how often (external)
  files,     \* files at each folder and SFTP destination (external)
  swept,     \* history: retention has removed what it should
  spent      \* the troubles met, of each kind

vars == <<mode, enabled, runs, folder, worker, received, files, swept, spent>>

-----------------------------------------------------------------------------
Destinations == DOMAIN mode.kinds
Kind(d) == mode.kinds[d]

Extend(fn, k, v) == [x \in DOMAIN fn \cup {k} |-> IF x = k THEN v ELSE fn[x]]
Without(fn, S) == Restrict(fn, DOMAIN fn \ S)
Nothing == [x \in {} |-> 0]
Often(bag, item) == IF item \in DOMAIN bag THEN bag[item] ELSE 0

Total(fn) == Cardinality(UNION {{k} \X (1 .. fn[k]) : k \in DOMAIN fn})
Meet(what) ==
  /\ what \in mode.may /\ spent[what] < MaxEach /\ Total(spent) < MaxTrouble
  /\ spent' = [spent EXCEPT ![what] = @ + 1]

-----------------------------------------------------------------------------
(* Names: of which run the pattern makes them (of none if it names no run  *)
(* or time), with _PARTIAL, with the time of a run because it was taken.   *)
Asked(r) == [of |-> IF mode.unique THEN r ELSE 0, partial |-> FALSE, again |-> 0]
File(name, ext) == [name |-> name, ext |-> ext]

(* createExclusiveRootedFile, and the other name it is retried with.       *)
CsvName(r, partial) ==
  LET name == [Asked(r) EXCEPT !.partial = partial] IN
  IF File(name, "csv") \in DOMAIN folder THEN [name EXCEPT !.again = r] ELSE name

(* The coverage file is not replaced either; that it was not written is    *)
(* only a warning.                                                         *)
Saved(r, name) ==
  LET csv == File(name, "csv") IN
  [f \in DOMAIN folder \cup {csv, File(name, "json")} |->
     IF f \in DOMAIN folder \ {csv} THEN folder[f] ELSE r]

(* Reports the template wants, in the order they are made.                 *)
IfWanted(name, ext) == IF ext \in mode.reports THEN <<File(name, ext)>> ELSE <<>>
Wanted(name) == IfWanted(name, "html") \o IfWanted(name, "pdf")

(* A run with its artifacts; whether each destination asked got it, and    *)
(* history: which were asked, and what was sent them.                      *)
Run(status, name, extra) ==
  [status |-> status, csv |-> name, extra |-> extra, skipped |-> FALSE,
   results |-> Nothing, asked |-> {}, sent |-> <<>>]

Idle == [pc |-> "idle"]
Current == Len(runs)

-----------------------------------------------------------------------------
(* deliverToTemplateDestinations: the destinations enabled now, one after  *)
(* the other, in an order on which nothing depends.  Retention follows a   *)
(* run that has a CSV.                                                     *)
Deliver(given, retain) ==
  [pc |-> "send", todo |-> enabled, given |-> given, at |-> 1, attempt |-> 1,
   results |-> Nothing, retain |-> retain]
After(retain) == IF retain THEN [pc |-> "retain"] ELSE Idle

(* finishFailedRun, finishRunWithArtifactError.                            *)
Told(retain) == IF mode.notify THEN Deliver(<<>>, retain) ELSE After(retain)
Noted(run) == [run EXCEPT !.asked = IF mode.notify THEN enabled ELSE {}]

Init ==
  /\ mode \in Modes
  /\ enabled = Destinations
  /\ runs = <<>> /\ folder = Nothing /\ worker = Idle
  /\ received = [d \in Destinations |-> Nothing] /\ files = [d \in Destinations |-> Nothing]
  /\ swept = TRUE
  /\ spent = [what \in Troubles |-> 0]

(* The worker begins a run, which fails at once if the name it asks for    *)
(* exists, or when nothing could be extracted.                             *)
NoArtifact ==
  /\ worker.pc = "idle" /\ Current < MaxRuns
  /\ \/ File(Asked(Current + 1), "csv") \in DOMAIN folder
     \/ "none" \in mode.outcomes
  /\ runs' = Append(runs, Noted(Run("failed", None, {})))
  /\ worker' = Told(FALSE)
  /\ swept' = FALSE
  /\ UNCHANGED <<mode, enabled, folder, received, files, spent>>

PartialArtifact ==
  /\ worker.pc = "idle" /\ Current < MaxRuns /\ "partial" \in mode.outcomes
  /\ File(Asked(Current + 1), "csv") \notin DOMAIN folder
  /\ LET name == CsvName(Current + 1, TRUE) IN
     /\ folder' = Saved(Current + 1, name)
     /\ runs' = Append(runs, Noted(Run("partial", name, {File(name, "json")})))
  /\ worker' = Told(TRUE)
  /\ swept' = FALSE
  /\ UNCHANGED <<mode, enabled, received, files, spent>>

FullArtifact ==
  /\ worker.pc = "idle" /\ Current < MaxRuns /\ "full" \in mode.outcomes
  /\ File(Asked(Current + 1), "csv") \notin DOMAIN folder
  /\ LET name == CsvName(Current + 1, FALSE) IN
     /\ folder' = Saved(Current + 1, name)
     /\ worker' = [pc |-> "report", name |-> name]
  /\ runs' = Append(runs, Run("running", None, {}))
  /\ swept' = FALSE
  /\ UNCHANGED <<mode, enabled, received, files, spent>>

-----------------------------------------------------------------------------
(* generateScheduledExecutiveArtifacts replaces no file either; when it    *)
(* fails, nothing of it is left and the run is a failed one with its CSV.  *)
WriteReports ==
  /\ worker.pc = "report"
  /\ LET name == worker.name
         wanted == Wanted(name)
     IN
     \/ /\ Range(wanted) \cap DOMAIN folder = {}
        /\ folder' = [f \in DOMAIN folder \cup Range(wanted) |->
                        IF f \in Range(wanted) THEN Current ELSE folder[f]]
        /\ runs' = [runs EXCEPT ![Current] =
                      Run("completed", name, Range(wanted) \cup {File(name, "json")})]
        /\ worker' = [pc |-> "decide", given |-> <<File(name, "csv")>> \o wanted]
        /\ UNCHANGED spent
     \/ /\ \/ Range(wanted) \cap DOMAIN folder # {} /\ UNCHANGED spent
           \/ wanted # <<>> /\ Meet("report")
        /\ runs' = [runs EXCEPT ![Current] = Noted(Run("failed", name, {File(name, "json")}))]
        /\ worker' = Told(TRUE)
        /\ UNCHANGED folder
  /\ UNCHANGED <<mode, enabled, received, files, swept>>

(* calculateMetrics: the completed runs a run is compared with.            *)
Baseline == {r \in 1 .. Current - 1 : runs[r].status = "completed"}
(* shouldDeliverRun: no change since the run before, or a threshold missed;*)
(* the first run has no change to look for.                                *)
MaySkip ==
  \/ mode.policy = "on_change" /\ Baseline # {}
  \/ mode.policy = "threshold"
Decide ==
  /\ worker.pc = "decide"
  /\ \/ /\ MaySkip
        /\ runs' = [runs EXCEPT ![Current].skipped = TRUE]
        /\ worker' = After(TRUE)
     \/ /\ worker' = Deliver(worker.given, TRUE)
        /\ runs' = [runs EXCEPT ![Current].asked = enabled, ![Current].sent = worker.given]
  /\ UNCHANGED <<mode, enabled, folder, received, files, swept, spent>>

-----------------------------------------------------------------------------
(* deliverMessageArtifacts: a notice names all artifacts, other            *)
(* destinations are given one after the other, up to the first that fails. *)
To == CHOOSE d \in worker.todo : TRUE
Given == IF Kind(To) = "notice" THEN <<>> ELSE worker.given
Artifact == Given[worker.at]
Item == IF Given = <<>> THEN <<Current, None>> ELSE <<Current, Artifact>>
Missing == Given # <<>> /\ Artifact \notin DOMAIN folder

Done(ok) ==
  [worker EXCEPT !.pc = "send", !.todo = @ \ {To}, !.at = 1, !.attempt = 1,
                 !.results = Extend(@, To, ok)]
Succeeded ==
  IF worker.at < Len(Given) THEN [worker EXCEPT !.pc = "send", !.at = @ + 1, !.attempt = 1]
  ELSE Done(TRUE)

(* Faulty: the attempts are not counted.                                   *)
FailedForever == [worker EXCEPT !.pc = "send"]
(* Faulty: one attempt more.                                               *)
FailedOnceMore ==
  IF worker.attempt <= Attempts THEN [worker EXCEPT !.pc = "send", !.attempt = @ + 1]
  ELSE Done(FALSE)
(* Faulty: a failed artifact is skipped.                                   *)
FailedOnward ==
  IF worker.attempt < Attempts THEN [worker EXCEPT !.pc = "send", !.attempt = @ + 1]
  ELSE Succeeded

(* deliverMessageWithRetries: any error is tried again.                    *)
Failed ==
  IF worker.attempt < Attempts THEN [worker EXCEPT !.pc = "send", !.attempt = @ + 1]
  ELSE Done(FALSE)

Sending(kinds) == worker.pc = "send" /\ worker.todo # {} /\ Kind(To) \in kinds
Receive == received' = [received EXCEPT ![To] = Extend(@, Item, Often(@, Item) + 1)]

(* What is served may not be acknowledged: an e-mail is accepted with its  *)
(* data, and QUIT may still fail (deliverEmail).                           *)
Unacknowledged == Receive /\ worker' = Failed /\ Meet("lost")

(* deliverGenericWebhook, deliverSlackWebhook, deliverTeamsWorkflow,       *)
(* deliverSlackFile, deliverEmail.                                         *)
SendMessage ==
  /\ Sending({"notice", "message"}) /\ ~Missing
  /\ \/ Receive /\ worker' = Succeeded /\ UNCHANGED spent
     \/ Unacknowledged
     \/ worker' = Failed /\ Meet("refused") /\ UNCHANGED received
  /\ UNCHANGED <<mode, enabled, runs, folder, files, swept>>

(* No artifact to copy, none to read, the destination out of reach, or a   *)
(* file of that name there.                                                *)
CannotSend ==
  /\ \/ Sending(Kinds) /\ Missing /\ UNCHANGED spent
     \/ /\ Sending({"folder", "sftp"})
        /\ \/ Given = <<>> /\ UNCHANGED spent
           \/ Given # <<>> /\ Artifact \in DOMAIN files[To] /\ UNCHANGED spent
           \/ Given # <<>> /\ Meet("refused")
  /\ worker' = Failed
  /\ UNCHANGED <<mode, enabled, runs, folder, received, files, swept>>

(* copyArtifactNoOverwrite, deliverSFTP: O_EXCL.                           *)
OpenCopy ==
  /\ Sending({"folder", "sftp"}) /\ Given # <<>> /\ ~Missing
  /\ Artifact \notin DOMAIN files[To]
  /\ files' = [files EXCEPT ![To] = Extend(@, Artifact, [run |-> folder[Artifact], whole |-> FALSE])]
  /\ worker' = [worker EXCEPT !.pc = "copy"]
  /\ UNCHANGED <<mode, enabled, runs, folder, received, swept, spent>>

(* deliverSFTP: the connection that would remove the file is the one that  *)
(* broke, so that it stays as far as it was written, perhaps all of it.    *)
Broken ==
  /\ Kind(To) = "sftp"
  /\ \E whole \in BOOLEAN : files' = [files EXCEPT ![To][Artifact].whole = whole]
  /\ worker' = Failed /\ Meet("broken")

(* A file not written to its end is removed otherwise.                     *)
Copy ==
  /\ worker.pc = "copy"
  /\ \/ /\ files' = [files EXCEPT ![To][Artifact].whole = TRUE]
        /\ worker' = Succeeded /\ UNCHANGED spent
     \/ /\ files' = [files EXCEPT ![To] = Without(@, {Artifact})]
        /\ worker' = Failed /\ Meet("unwritten")
     \/ Broken
  /\ UNCHANGED <<mode, enabled, runs, folder, received, swept>>

(* The results of all destinations are recorded together.                  *)
Record ==
  /\ worker.pc = "send" /\ worker.todo = {}
  /\ runs' = [runs EXCEPT ![Current].results = worker.results]
  /\ worker' = After(worker.retain)
  /\ UNCHANGED <<mode, enabled, folder, received, files, swept, spent>>

-----------------------------------------------------------------------------
(* applyRetention *)

(* Runs of a CSV, and the latest of them.                                  *)
Holding == {r \in DOMAIN runs : runs[r].csv # None}
Listed(r) == {File(runs[r].csv, "csv")} \cup runs[r].extra
(* Faulty: one run fewer is kept.                                          *)
KeptFewer == {r \in Holding : Cardinality({s \in Holding : s >= r}) < Retention}
Kept == {r \in Holding : Cardinality({s \in Holding : s > r}) < Retention}

(* Every file of the other runs is removed, or stays if it cannot be.      *)
Outdated == (UNION {Listed(r) : r \in Holding \ Kept}) \cap DOMAIN folder
Retain ==
  /\ worker.pc = "retain"
  /\ \/ folder' = Without(folder, Outdated) /\ swept' = TRUE /\ UNCHANGED spent
     \/ /\ \E f \in Outdated : folder' = Without(folder, Outdated \ {f})
        /\ Meet("stuck") /\ UNCHANGED swept
  /\ worker' = Idle
  /\ UNCHANGED <<mode, enabled, runs, received, files>>

-----------------------------------------------------------------------------
(* saveDestination; deleteDestination refuses what the template names.     *)
EditDestination ==
  /\ Meet("edited")
  /\ \E d \in Destinations : enabled' = (enabled \ {d}) \cup ({d} \ enabled)
  /\ UNCHANGED <<mode, runs, folder, worker, received, files, swept>>

(* The operator moves a CSV elsewhere.                                     *)
TakeCsv ==
  /\ Meet("taken")
  /\ \E f \in DOMAIN folder : f.ext = "csv" /\ folder' = Without(folder, {f})
  /\ UNCHANGED <<mode, enabled, runs, worker, received, files, swept>>

(* The process stops; load: a run in progress has failed.                  *)
Restart ==
  /\ worker.pc # "idle" /\ Meet("crashes")
  /\ runs' = [r \in DOMAIN runs |->
                IF runs[r].status = "running" THEN [runs[r] EXCEPT !.status = "failed"] ELSE runs[r]]
  /\ worker' = Idle
  /\ UNCHANGED <<mode, enabled, folder, received, files, swept>>

Finish ==
  \/ WriteReports \/ Decide \/ SendMessage \/ CannotSend \/ OpenCopy \/ Copy \/ Record \/ Retain
Next ==
  \/ NoArtifact \/ PartialArtifact \/ FullArtifact \/ Finish
  \/ EditDestination \/ TakeCsv \/ Restart

(* The worker runs, and every attempt of a delivery has its time           *)
(* (deliveryTimeout).                                                      *)
Spec == Init /\ [][Next]_vars
FairSpec == Spec /\ WF_vars(Finish)

-----------------------------------------------------------------------------
(* Properties *)

(* Types of the state, of the worker by phase.                             *)
TypeOK ==
  /\ mode \in Modes /\ enabled \subseteq Destinations /\ swept \in BOOLEAN
  /\ Len(runs) <= MaxRuns
  /\ \A r \in DOMAIN runs :
       /\ runs[r].status \in {"running", "completed", "partial", "failed"}
       /\ runs[r].csv \in Names \cup {None} /\ runs[r].extra \subseteq FileNames
       /\ DOMAIN runs[r].results \subseteq Destinations /\ Range(runs[r].results) \subseteq BOOLEAN
  /\ DOMAIN folder \subseteq FileNames /\ Range(folder) \subseteq DOMAIN runs
  /\ \A d \in Destinations :
       /\ DOMAIN files[d] \subseteq FileNames
       /\ Range(files[d]) \subseteq [run : DOMAIN runs, whole : BOOLEAN]
       /\ DOMAIN received[d] \subseteq (DOMAIN runs) \X (FileNames \cup {None})
  /\ worker.pc \in {"idle", "report", "decide", "send", "copy", "retain"}
  /\ worker.pc \in {"send", "copy"} => worker.attempt \in 1 .. Attempts

(* What a destination has of a run: its artifacts, whole and unaltered.    *)
Holds(d, r, f) ==
  IF Kind(d) = "message" THEN <<r, f>> \in DOMAIN received[d]
  ELSE f \in DOMAIN files[d] /\ files[d][f] = [run |-> r, whole |-> TRUE]
Has(d, r) ==
  LET sent == runs[r].sent IN
  IF Kind(d) = "notice" \/ (Kind(d) = "message" /\ sent = <<>>)
  THEN <<r, None>> \in DOMAIN received[d]
  ELSE sent # <<>> /\ \A i \in DOMAIN sent : Holds(d, r, sent[i])

(* A delivery recorded as a success is at its destination, then and ever   *)
(* after, whatever later runs deliver under the same name; every           *)
(* destination enabled when it began has a result, whichever failed before *)
(* (deliverToTemplateDestinations).                                        *)
ResultsTell ==
  \A r \in DOMAIN runs :
    LET results == runs[r].results IN
    /\ \A d \in DOMAIN results : results[d] => Has(d, r)
    /\ DOMAIN results \in {{}, runs[r].asked}

(* A receiver gets no message again whose answer was not lost, and of a    *)
(* run's artifacts none before the ones listed before it.                  *)
SentInOrder ==
  \A d \in Destinations :
    /\ \A item \in DOMAIN received[d] : received[d][item] <= 1 + spent.lost
    /\ \A r \in DOMAIN runs : \A i, j \in DOMAIN runs[r].sent :
         i < j /\ <<r, runs[r].sent[j]>> \in DOMAIN received[d] =>
           <<r, runs[r].sent[i]>> \in DOMAIN received[d]

(* In a folder a file under its final name is whole unless it is being     *)
(* written, or the process stopped in between; at an SFTP server, also if  *)
(* a connection broke (copyArtifactNoOverwrite, deliverSFTP).              *)
WholeFiles ==
  \A d \in Destinations : \A f \in DOMAIN files[d] :
    \/ files[d][f].whole
    \/ spent.crashes > 0
    \/ Kind(d) = "sftp" /\ spent.broken > 0
    \/ worker.pc = "copy" /\ To = d /\ Artifact = f

(* What a receiver is told is so: what it holds and what is recorded of it.*)
ReceiversTold == ResultsTell /\ SentInOrder /\ WholeFiles

Latest == {r \in Holding : Cardinality(Holding \cap (r .. Current)) <= Retention}

(* automation.html:150: the artifacts of the latest runs are kept ...      *)
RecentKept ==
  spent.taken = 0 =>
    \A r \in Latest : \A f \in Listed(r) : f \in DOMAIN folder /\ folder[f] = r

(* ... and no others are once retention went through, whatever could not   *)
(* be removed or delivered before.                                         *)
OthersRemoved ==
  swept /\ spent.crashes = 0 => DOMAIN folder \subseteq UNION {Listed(r) : r \in Latest}

(* So it is when every run has a name of its own.                          *)
RetentionExact == (mode.unique => RecentKept) /\ OthersRemoved

(* The worker comes to its next run, whatever receivers do.                *)
DeliveryEnds == []<>(worker.pc = "idle")
=============================================================================
