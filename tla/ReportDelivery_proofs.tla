------------------------ MODULE ReportDelivery_proofs ------------------------
(***************************************************************************)
(* What is recorded of a delivery is true, and retention keeps the latest  *)
(* artifacts and no others, for any destinations, reports, runs, attempts  *)
(* and troubles.                                                           *)
(***************************************************************************)
EXTENDS ReportDelivery, FiniteSetTheorems, TLAPS

(* What makes ReceiversTold inductive.  Types, those of the worker by      *)
(* phase.                                                                  *)
Results == UNION {[D -> BOOLEAN] : D \in SUBSET Destinations}
RunType ==
  [status : {"running", "completed", "partial", "failed"}, csv : Names \cup {None},
   extra : SUBSET FileNames, skipped : BOOLEAN, results : Results,
   asked : SUBSET Destinations, sent : Seq(FileNames)]
Sender ==
  [pc : {"send", "copy"}, todo : SUBSET Destinations, given : Seq(FileNames), at : Nat \ {0},
   attempt : 1 .. Attempts, results : Results, retain : BOOLEAN]
WorkerOK ==
  \/ worker \in [pc : {"idle", "retain"}]
  \/ worker \in [pc : {"report"}, name : Names]
  \/ worker \in [pc : {"decide"}, given : Seq(FileNames)]
  \/ worker \in Sender
LocalOK ==
  /\ mode \in Modes /\ enabled \subseteq Destinations /\ swept \in BOOLEAN
  /\ runs \in Seq(RunType) /\ Len(runs) <= MaxRuns
  /\ DOMAIN folder \subseteq FileNames
  /\ \A f \in DOMAIN folder : folder[f] \in DOMAIN runs
  /\ spent \in [Troubles -> Nat]
RemoteOK ==
  /\ DOMAIN received = Destinations /\ DOMAIN files = Destinations
  /\ \A d \in Destinations :
       /\ DOMAIN files[d] \subseteq FileNames
       /\ \A f \in DOMAIN files[d] : files[d][f] \in [run : DOMAIN runs, whole : BOOLEAN]
       /\ DOMAIN received[d] \subseteq (DOMAIN runs) \X (FileNames \cup {None})
       /\ \A item \in DOMAIN received[d] : received[d][item] \in Nat
TypeInv == LocalOK /\ WorkerOK /\ RemoteOK

(* The run in hand has no results yet; its artifacts, if they are still in *)
(* the folder, are its own, and they differ.                               *)
InHand ==
  /\ worker.pc \in {"report", "decide", "send", "copy"} =>
       Current > 0 /\ DOMAIN runs[Current].results = {}
  /\ worker.pc \in {"report", "decide"} => runs[Current].sent = <<>>
  /\ worker.pc \in {"send", "copy"} => runs[Current].sent = worker.given
  /\ worker.pc = "report" =>
       (File(worker.name, "csv") \in DOMAIN folder => folder[File(worker.name, "csv")] = Current)
  /\ worker.pc \in {"decide", "send", "copy"} =>
       \A i \in DOMAIN worker.given :
         /\ worker.given[i] \in DOMAIN folder => folder[worker.given[i]] = Current
         /\ \A j \in DOMAIN worker.given : worker.given[i] = worker.given[j] => i = j

(* Of the destinations asked some have their result, one is being served:  *)
(* it has the artifacts before the one in hand.                            *)
Serving ==
  worker.pc \in {"send", "copy"} =>
    /\ DOMAIN worker.results \cap worker.todo = {}
    /\ DOMAIN worker.results \cup worker.todo = runs[Current].asked
    /\ \A d \in DOMAIN worker.results : worker.results[d] => Has(d, Current)
    /\ worker.todo # {} =>
         /\ worker.at <= IF Given = <<>> THEN 1 ELSE Len(Given)
         /\ \A i \in DOMAIN Given : i < worker.at => Holds(To, Current, Given[i])
Copying ==
  worker.pc = "copy" =>
    /\ worker.todo # {} /\ Kind(To) \in {"folder", "sftp"} /\ Given # <<>>
    /\ Artifact \in DOMAIN files[To]
    /\ files[To][Artifact] = [run |-> Current, whole |-> FALSE]

(* The others have nothing of this run, and it nothing after that artifact.*)
NothingOf(d) == \A item \in DOMAIN received[d] : item[1] # Current
Unsent ==
  /\ worker.pc \in {"report", "decide"} => \A d \in Destinations : NothingOf(d)
  /\ worker.pc \in {"send", "copy"} /\ worker.todo # {} =>
       /\ \A d \in worker.todo \ {To} : NothingOf(d)
       /\ Often(received[To], Item) <= spent.lost
       /\ \A i \in DOMAIN Given : i > worker.at => <<Current, Given[i]>> \notin DOMAIN received[To]
(* Files are no messages, and notices name no file.                        *)
ByKind ==
  \A d \in Destinations :
    /\ Kind(d) \in {"folder", "sftp"} => DOMAIN received[d] = {}
    /\ Kind(d) = "notice" => \A item \in DOMAIN received[d] : item[2] = None
DeliveryInv ==
  TypeInv /\ InHand /\ Serving /\ Copying /\ Unsent /\ ByKind /\ ReceiversTold

-----------------------------------------------------------------------------
LEMMA Sizes == Attempts \in Nat \ {0} /\ MaxRuns \in Nat
BY SizesAssumption

LEMMA KindOfDestination ==
  ASSUME LocalOK, NEW d \in Destinations
  PROVE  Kind(d) \in Kinds /\ mode.reports \subseteq Reports /\ mode.unique \in BOOLEAN
BY ModesAssumption DEF LocalOK, Destinations, Kind

LEMMA Chosen == ASSUME NEW S, S # {} PROVE (CHOOSE d \in S : TRUE) \in S
OBVIOUS

LEMMA Begun ==
  Init => DeliveryInv
<1> SUFFICES ASSUME Init PROVE DeliveryInv
  OBVIOUS
<1> USE DEF Init, Idle, Nothing
<1>1. LocalOK
  <2>1. spent \in [Troubles -> Nat]
    OBVIOUS
  <2>2. runs \in Seq(RunType) /\ Len(runs) <= MaxRuns /\ DOMAIN runs = {}
    BY Sizes
  <2> QED BY <2>1, <2>2 DEF LocalOK
<1>2. WorkerOK /\ RemoteOK /\ worker.pc = "idle"
  BY DEF WorkerOK, RemoteOK
<1>3. DOMAIN runs = {} /\ \A d \in Destinations : DOMAIN received[d] = {} /\ DOMAIN files[d] = {}
  OBVIOUS
<1>4. InHand /\ Serving /\ Copying /\ Unsent
  BY <1>2 DEF InHand, Serving, Copying, Unsent
<1>5. ByKind
  BY <1>3 DEF ByKind
<1>6. ReceiversTold
  BY <1>3 DEF ReceiversTold, ResultsTell, SentInOrder, WholeFiles
<1> QED BY <1>1, <1>2, <1>4, <1>5, <1>6 DEF DeliveryInv, TypeInv

(* What a destination has of a run it keeps, as long as messages stay and  *)
(* whole files do.                                                         *)
Stays ==
  /\ UNCHANGED mode
  /\ \A d \in Destinations :
       /\ DOMAIN received[d] \subseteq DOMAIN received'[d]
       /\ \A f \in DOMAIN files[d] :
            files[d][f].whole => f \in DOMAIN files'[d] /\ files'[d][f] = files[d][f]
LEMMA HoldsStays ==
  ASSUME Stays, NEW CONSTANT d \in Destinations, NEW CONSTANT r, NEW CONSTANT f, Holds(d, r, f)
  PROVE  Holds(d, r, f)'
BY DEF Stays, Holds, Kind, Destinations
LEMMA HasStays ==
  ASSUME Stays, NEW CONSTANT d \in Destinations, NEW CONSTANT r, Has(d, r),
         runs'[r].sent = runs[r].sent
  PROVE  Has(d, r)'
<1>1. Kind(d)' = Kind(d)
  BY DEF Stays, Kind
<1>2. CASE Kind(d) = "notice" \/ (Kind(d) = "message" /\ runs[r].sent = <<>>)
  BY <1>1, <1>2 DEF Has, Stays, Kind
<1>3. CASE ~(Kind(d) = "notice" \/ (Kind(d) = "message" /\ runs[r].sent = <<>>))
  <2> DEFINE sent == runs[r].sent
  <2>1. sent # <<>> /\ \A i \in DOMAIN sent : Holds(d, r, sent[i])
    BY <1>3 DEF Has
  <2>2. SUFFICES \A i \in DOMAIN sent : Holds(d, r, runs[r].sent[i])'
    BY <1>1, <1>3, <2>1 DEF Has
  <2>3. TAKE i \in DOMAIN sent
  <2>4. CASE Kind(d) = "message"
    BY <1>1, <2>1, <2>4 DEF Holds, Stays, Kind
  <2>5. CASE Kind(d) # "message"
    <3>1. sent[i] \in DOMAIN files[d] /\ files[d][sent[i]] = [run |-> r, whole |-> TRUE]
      BY <2>1, <2>5 DEF Holds
    <3>2. sent[i] \in DOMAIN files'[d] /\ files'[d][sent[i]] = [run |-> r, whole |-> TRUE]
      BY <3>1 DEF Stays
    <3> QED BY <1>1, <2>5, <3>2 DEF Holds
  <2> QED BY <2>4, <2>5
<1> QED BY <1>2, <1>3
LEMMA NowStays ==
  ASSUME Stays, UNCHANGED runs, NEW CONSTANT d \in Destinations, Has(d, Current)
  PROVE  Has(d, Current)'
<1>1. PICK r : r = Current
  OBVIOUS
<1>2. Has(d, r)
  BY <1>1
<1>3. Has(d, r)'
  BY <1>2, HasStays
<1>4. Current' = r
  BY <1>1 DEF Current
<1> QED BY <1>3, <1>4 DEF Has

LEMMA Met ==
  ASSUME spent \in [Troubles -> Nat], NEW what \in Troubles, Meet(what)
  PROVE  /\ spent' \in [Troubles -> Nat]
         /\ \A w \in Troubles : spent'[w] >= spent[w]
         /\ spent'[what] = spent[what] + 1
BY DEF Meet

LEMMA Phases ==
  ASSUME WorkerOK
  PROVE  /\ worker.pc \in {"idle", "report", "decide", "send", "copy", "retain"}
         /\ worker.pc \in {"send", "copy"} => worker \in Sender
         /\ worker.pc = "report" => worker.name \in Names
         /\ worker.pc = "decide" => worker.given \in Seq(FileNames)
BY DEF WorkerOK, Sender

(* A worker that serves no destination has nothing to keep.                *)
LEMMA AtRest ==
  ASSUME worker'.pc \in {"idle", "retain"}
  PROVE  InHand' /\ Serving' /\ Copying' /\ Unsent'
BY DEF InHand, Serving, Copying, Unsent

(* Recorded results stay true if no other are recorded.                    *)
LEMMA ResultsStay ==
  ASSUME Stays, ResultsTell,
         \A r \in DOMAIN runs' :
           \/ DOMAIN runs'[r].results = {}
           \/ r \in DOMAIN runs /\ runs'[r].results = runs[r].results
              /\ runs'[r].asked = runs[r].asked /\ runs'[r].sent = runs[r].sent,
         runs \in Seq(RunType)
  PROVE  ResultsTell'
<1> SUFFICES ASSUME NEW CONSTANT r \in DOMAIN runs',
                    r \in DOMAIN runs, runs'[r].results = runs[r].results,
                    runs'[r].asked = runs[r].asked, runs'[r].sent = runs[r].sent
             PROVE  /\ \A d \in DOMAIN runs[r].results : runs[r].results[d] => Has(d, r)'
                    /\ DOMAIN runs[r].results \in {{}, runs[r].asked}
  BY DEF ResultsTell
<1>1. DOMAIN runs[r].results \subseteq Destinations
  <2>1. runs[r] \in RunType
    OBVIOUS
  <2>2. runs[r].results \in Results
    BY <2>1 DEF RunType
  <2> QED BY <2>2 DEF Results
<1>2. \A d \in DOMAIN runs[r].results : runs[r].results[d] => Has(d, r)
  BY DEF ResultsTell
<1>3. ASSUME NEW CONSTANT d \in DOMAIN runs[r].results, runs[r].results[d] PROVE Has(d, r)'
  BY <1>1, <1>2, <1>3, HasStays
<1>4. DOMAIN runs[r].results \in {{}, runs[r].asked}
  BY DEF ResultsTell
<1> QED BY <1>3, <1>4

(* So does the order when nothing is received, and what was sent before.   *)
LEMMA OrderStays ==
  ASSUME SentInOrder, UNCHANGED <<mode, received>>, spent'.lost >= spent.lost,
         spent.lost \in Nat, spent'.lost \in Nat, RemoteOK,
         \A r \in DOMAIN runs' :
           \/ runs'[r].sent = <<>>
           \/ r \in DOMAIN runs /\ runs'[r].sent = runs[r].sent
           \/ \A d \in Destinations : \A item \in DOMAIN received[d] : item[1] # r
  PROVE  SentInOrder'
<1> SUFFICES ASSUME NEW CONSTANT d \in Destinations
             PROVE  /\ \A item \in DOMAIN received[d] : received[d][item] <= 1 + spent'.lost
                    /\ \A r \in DOMAIN runs' : \A i, j \in DOMAIN runs'[r].sent :
                         i < j /\ <<r, runs'[r].sent[j]>> \in DOMAIN received[d] =>
                           <<r, runs'[r].sent[i]>> \in DOMAIN received[d]
  BY DEF SentInOrder, Destinations
<1>1. \A item \in DOMAIN received[d] : received[d][item] <= 1 + spent'.lost
  BY DEF SentInOrder, RemoteOK
<1>2. ASSUME NEW CONSTANT r \in DOMAIN runs', NEW CONSTANT i \in DOMAIN runs'[r].sent,
             NEW CONSTANT j \in DOMAIN runs'[r].sent,
             i < j, <<r, runs'[r].sent[j]>> \in DOMAIN received[d]
      PROVE  <<r, runs'[r].sent[i]>> \in DOMAIN received[d]
  <2>1. CASE runs'[r].sent = <<>>
    BY <1>2, <2>1
  <2>2. CASE r \in DOMAIN runs /\ runs'[r].sent = runs[r].sent
    BY <1>2, <2>2 DEF SentInOrder
  <2>3. CASE \A item \in DOMAIN received[d] : item[1] # r
    BY <1>2, <2>3
  <2> QED BY <2>1, <2>2, <2>3
<1> QED BY <1>1, <1>2

(* And files, when none is written.                                        *)
LEMMA FilesStay ==
  ASSUME WholeFiles, UNCHANGED <<mode, files>>, worker.pc # "copy",
         spent \in [Troubles -> Nat], spent' \in [Troubles -> Nat],
         \A w \in Troubles : spent'[w] >= spent[w]
  PROVE  WholeFiles'
BY DEF WholeFiles, Troubles, Destinations, Kind

(* The destinations that are enabled are asked: none has a result, none    *)
(* has anything of the run.                                                *)
LEMMA DeliveryBegins ==
  ASSUME LocalOK, UNCHANGED <<mode, enabled, received>>, runs' \in Seq(RunType),
         NEW given \in Seq(FileNames), NEW retain \in BOOLEAN,
         worker' = Deliver(given, retain),
         Current' > 0, DOMAIN runs'[Current'].results = {},
         runs'[Current'].asked = enabled, runs'[Current'].sent = given,
         spent' \in [Troubles -> Nat],
         \A d \in Destinations : \A item \in DOMAIN received[d] : item[1] # Current',
         \A i \in DOMAIN given :
           /\ given[i] \in DOMAIN folder' => folder'[given[i]] = Current'
           /\ \A j \in DOMAIN given : given[i] = given[j] => i = j
  PROVE  WorkerOK' /\ InHand' /\ Serving' /\ Copying' /\ Unsent'
<1> DEFINE w == [pc |-> "send", todo |-> enabled, given |-> given, at |-> 1, attempt |-> 1,
                 results |-> Nothing, retain |-> retain]
<1>1. worker' = w /\ enabled \subseteq Destinations /\ DOMAIN Nothing = {} /\ Destinations' = Destinations
  BY DEF Deliver, LocalOK, Nothing, Destinations
<1>2. WorkerOK'
  <2>1. Nothing \in [{} -> BOOLEAN]
    BY DEF Nothing
  <2>2. Nothing \in Results'
    BY <2>1, <1>1 DEF Results
  <2>3. 1 \in 1 .. Attempts
    BY Sizes
  <2>4. w \in Sender'
    BY <1>1, <2>2, <2>3 DEF Sender
  <2> QED BY <1>1, <2>4 DEF WorkerOK
<1>3. InHand'
  BY <1>1 DEF InHand
<1>4. enabled # {} => To' \in enabled
  BY <1>1, Chosen DEF To
<1>5. Given' = IF Kind(To)' = "notice" THEN <<>> ELSE given
  BY <1>1 DEF Given
<1>6. Serving'
  <2>1. worker'.todo = enabled /\ worker'.results = Nothing /\ worker'.at = 1
    BY <1>1
  <2>2. 1 <= (IF Given' = <<>> THEN 1 ELSE Len(Given)') /\ Given' \in Seq(FileNames)
    BY <1>5
  <2> QED BY <1>1, <2>1, <2>2 DEF Serving
<1>7. Copying'
  BY <1>1 DEF Copying
<1>8. Unsent'
  <2> SUFFICES ASSUME enabled # {}
               PROVE  /\ \A d \in enabled : NothingOf(d)'
                      /\ Often(received'[To'], Item') <= spent'.lost
                      /\ \A i \in DOMAIN Given' : <<Current', Given'[i]>> \notin DOMAIN received'[To']
    BY <1>1 DEF Unsent
  <2>1. \A d \in Destinations : \A item \in DOMAIN received'[d] : item[1] # Current'
    OBVIOUS
  <2>2. To' \in Destinations
    BY <1>1, <1>4
  <2>3. \A d \in enabled : NothingOf(d)'
    BY <1>1, <2>1 DEF NothingOf
  <2>4. \A x : <<Current', x>> \notin DOMAIN received'[To']
    BY <2>1, <2>2
  <2>5. Item' \notin DOMAIN received'[To']
    BY <2>4 DEF Item
  <2>6. Often(received'[To'], Item') = 0 /\ spent'.lost \in Nat
    BY <2>5 DEF Often, Troubles
  <2> QED BY <2>3, <2>4, <2>6
<1> QED BY <1>2, <1>3, <1>6, <1>7, <1>8

(* What a step of the delivery leaves alone, and adds for one destination. *)
Serves ==
  /\ UNCHANGED <<mode, enabled, runs, folder>>
  /\ spent \in [Troubles -> Nat] /\ spent' \in [Troubles -> Nat]
  /\ Stays /\ RemoteOK'
  /\ \A d \in Destinations \ {To} : received'[d] = received[d]
  /\ DOMAIN received'[To] \subseteq DOMAIN received[To] \cup {Item}

LEMMA Hand ==
  ASSUME LocalOK, WorkerOK, worker.pc \in {"send", "copy"}, worker.todo # {}
  PROVE  /\ worker \in Sender /\ To \in worker.todo /\ To \in Destinations
         /\ Kind(To) \in Kinds /\ Given \in Seq(FileNames) /\ worker.at \in Nat \ {0}
         /\ worker.results \in Results /\ worker.attempt \in 1 .. Attempts
         /\ Given = <<>> \/ Given = worker.given
<1>1. worker \in Sender
  BY Phases
<1>2. To \in worker.todo
  BY Chosen DEF To
<1>3. To \in Destinations
  BY <1>1, <1>2 DEF Sender
<1> QED BY <1>1, <1>2, <1>3, KindOfDestination DEF Sender, Given

(* The next destination is served from the beginning.                      *)
LEMMA DestinationDone ==
  ASSUME LocalOK, WorkerOK, InHand, Serving, Unsent, Serves,
         worker.pc \in {"send", "copy"}, worker.todo # {},
         NEW ok \in BOOLEAN, worker' = Done(ok),
         \A d \in {To} : ok => Has(d, Current)'
  PROVE  WorkerOK' /\ InHand' /\ Serving' /\ Copying' /\ Unsent'
<1> DEFINE rest == worker.todo \ {To}
<1> DEFINE told == Extend(worker.results, To, ok)
<1>1. worker \in Sender /\ To \in worker.todo /\ To \in Destinations /\ worker.results \in Results
  BY Hand
<1>2. /\ worker'.pc = "send" /\ worker'.todo = rest /\ worker'.at = 1 /\ worker'.attempt = 1
      /\ worker'.results = told /\ worker'.given = worker.given /\ worker'.retain = worker.retain
      /\ worker' \in [pc : {"send"}, todo : {rest}, given : {worker.given}, at : {1},
                      attempt : {1}, results : {told}, retain : {worker.retain}]
  BY <1>1 DEF Done, Sender
<1>3. Destinations' = Destinations /\ Current' = Current /\ runs' = runs
  BY DEF Serves, Destinations, Current
<1>4. DOMAIN told = DOMAIN worker.results \cup {To} /\ told[To] = ok
      /\ \A d \in DOMAIN worker.results \ {To} : told[d] = worker.results[d]
  BY DEF Extend
<1>5. told \in [DOMAIN worker.results \cup {To} -> BOOLEAN] /\ DOMAIN worker.results \subseteq Destinations
  BY <1>1 DEF Results, Extend
<1>6. WorkerOK'
  <2>1. told \in Results'
    BY <1>1, <1>3, <1>5 DEF Results
  <2>2. 1 \in 1 .. Attempts
    BY Sizes
  <2>3. worker' \in Sender'
    BY <1>1, <1>2, <1>3, <2>1, <2>2 DEF Sender
  <2> QED BY <2>3 DEF WorkerOK
<1>7. InHand'
  BY <1>2, <1>3 DEF InHand, Serves
<1>8. rest # {} => To' \in rest /\ To' \in Destinations
  <2>1. rest # {} => To' \in rest
    BY <1>2, Chosen DEF To
  <2> QED BY <2>1, <1>1 DEF Sender
<1>9. Given' = <<>> \/ Given' = worker.given
  BY <1>2 DEF Given
<1>10. Serving'
  <2>1. DOMAIN told \cap rest = {} /\ DOMAIN told \cup rest = runs[Current].asked
    BY <1>1, <1>4 DEF Serving
  <2>2. ASSUME NEW CONSTANT d \in DOMAIN told, told[d] PROVE Has(d, Current)'
    <3>1. CASE d = To
      BY <1>4, <2>2, <3>1
    <3>2. CASE d # To
      <4>1. d \in DOMAIN worker.results /\ worker.results[d] /\ d \in Destinations
        BY <1>4, <1>5, <2>2, <3>2
      <4>2. Has(d, Current)
        BY <4>1 DEF Serving
      <4> QED BY <4>1, <4>2, NowStays DEF Serves
    <3> QED BY <3>1, <3>2
  <2>3. worker'.given \in Seq(FileNames)
    BY <1>1, <1>2 DEF Sender
  <2>4. worker'.at <= (IF Given' = <<>> THEN 1 ELSE Len(Given'))
    BY <1>2, <1>9, <2>3
  <2>5. \A i \in DOMAIN Given' : ~(i < worker'.at)
    BY <1>2, <1>9, <2>3
  <2> QED BY <1>2, <1>3, <2>1, <2>2, <2>4, <2>5 DEF Serving
<1>11. Copying'
  BY <1>2 DEF Copying
<1>12. Unsent'
  <2> SUFFICES ASSUME rest # {}
               PROVE  /\ \A d \in rest : NothingOf(d)'
                      /\ Often(received'[To'], Item') <= spent'.lost
                      /\ \A i \in DOMAIN Given' : <<Current, Given'[i]>> \notin DOMAIN received'[To']
    BY <1>2, <1>3 DEF Unsent
  <2>1. \A d \in rest : NothingOf(d)
    BY DEF Unsent
  <2>2. \A d \in rest : received'[d] = received[d]
    BY <1>1 DEF Serves, Sender
  <2>3. \A d \in rest : NothingOf(d)'
    BY <2>1, <2>2, <1>3 DEF NothingOf
  <2>4. \A x : <<Current, x>> \notin DOMAIN received'[To']
    BY <2>1, <2>2, <1>8 DEF NothingOf
  <2>5. Item' \notin DOMAIN received'[To']
    BY <2>4, <1>3 DEF Item
  <2>6. Often(received'[To'], Item') = 0 /\ spent'.lost \in Nat
    BY <2>5 DEF Often, Troubles, Serves
  <2> QED BY <2>3, <2>4, <2>6
<1> QED BY <1>6, <1>7, <1>10, <1>11, <1>12

(* While one destination is served, what it has remains.                   *)
LEMMA SameStays ==
  ASSUME Serves, To \in Destinations, To' = To, Given' = Given, NEW CONSTANT i,
         Holds(To, Current, Given[i])
  PROVE  Holds(To, Current, Given[i])'
<1>1. PICK d, r, f : d = To /\ r = Current /\ f = Given[i]
  OBVIOUS
<1>2. Holds(d, r, f) /\ d \in Destinations
  BY <1>1
<1>3. Holds(d, r, f)'
  BY <1>2, HoldsStays DEF Serves
<1>4. d = To' /\ r = Current' /\ f = Given'[i]
  BY <1>1 DEF Serves, Current
<1> QED BY <1>3, <1>4 DEF Holds

(* The same artifact again, of a message that may have been received.      *)
LEMMA TriedAgain ==
  ASSUME LocalOK, WorkerOK, InHand, Serving, Unsent, Serves,
         worker.pc \in {"send", "copy"}, worker.todo # {}, worker.attempt < Attempts,
         worker' = [worker EXCEPT !.pc = "send", !.attempt = @ + 1],
         Often(received'[To], Item) <= spent'.lost
  PROVE  WorkerOK' /\ InHand' /\ Serving' /\ Copying' /\ Unsent'
<1>1. worker \in Sender /\ To \in worker.todo /\ To \in Destinations /\ Given \in Seq(FileNames)
      /\ worker.at \in Nat \ {0} /\ (Given = <<>> \/ Given = worker.given)
  BY Hand
<1>2. /\ worker'.pc = "send" /\ worker'.todo = worker.todo /\ worker'.at = worker.at
      /\ worker'.results = worker.results /\ worker'.given = worker.given
      /\ worker'.retain = worker.retain /\ worker'.attempt = worker.attempt + 1
      /\ worker' \in [pc : {"send"}, todo : {worker.todo}, given : {worker.given},
                      at : {worker.at}, attempt : {worker.attempt + 1},
                      results : {worker.results}, retain : {worker.retain}]
  BY <1>1 DEF Sender
<1>3. Destinations' = Destinations /\ Current' = Current /\ runs' = runs /\ To' = To
      /\ Kind(To)' = Kind(To) /\ Given' = Given /\ Item' = Item
  BY <1>2 DEF Serves, Destinations, Current, To, Kind, Given, Item, Artifact
<1>4. WorkerOK'
  <2>1. worker.attempt + 1 \in 1 .. Attempts
    BY <1>1, Sizes DEF Sender
  <2>2. worker' \in Sender'
    BY <1>1, <1>2, <1>3, <2>1 DEF Sender, Results
  <2> QED BY <2>2 DEF WorkerOK
<1>5. InHand'
  BY <1>2, <1>3 DEF InHand, Serves
<1>6. Serving'
  <2>1. ASSUME NEW CONSTANT d \in DOMAIN worker.results, worker.results[d]
        PROVE  Has(d, Current)'
    <3>1. Has(d, Current) /\ d \in Destinations
      BY <1>1, <2>1 DEF Serving, Sender, Results
    <3> QED BY <3>1, NowStays DEF Serves
  <2>2. ASSUME NEW CONSTANT i \in DOMAIN Given, i < worker.at
        PROVE  Holds(To, Current, Given[i])'
    <3>1. Holds(To, Current, Given[i])
      BY <2>2 DEF Serving
    <3> QED BY <1>1, <1>3, <3>1, SameStays
  <2> QED BY <1>2, <1>3, <2>1, <2>2 DEF Serving
<1>7. Copying'
  BY <1>2 DEF Copying
<1>8. Unsent'
  <2>1. ASSUME NEW CONSTANT d \in worker.todo \ {To} PROVE NothingOf(d)'
    BY <1>1, <1>3, <2>1 DEF Unsent, NothingOf, Serves, Sender
  <2>2. ASSUME NEW CONSTANT i \in DOMAIN Given, i > worker.at
        PROVE  <<Current, Given[i]>> \notin DOMAIN received'[To]
    <3>1. Given[i] # Artifact
      BY <1>1, <2>2 DEF InHand, Artifact
    <3>2. <<Current, Given[i]>> # Item
      BY <3>1, <2>2, <1>1 DEF Item
    <3> QED BY <2>2, <3>2 DEF Unsent, Serves
  <2> QED BY <1>2, <1>3, <2>1, <2>2 DEF Unsent
<1> QED BY <1>4, <1>5, <1>6, <1>7, <1>8

(* The artifact after one that was received or copied.                     *)
LEMMA NextOne ==
  ASSUME LocalOK, WorkerOK, InHand, Serving, Unsent, Serves,
         worker.pc \in {"send", "copy"}, worker.todo # {}, worker.at < Len(Given),
         worker' = [worker EXCEPT !.pc = "send", !.at = @ + 1, !.attempt = 1],
         \A d \in {To} : \A f \in {Artifact} : Holds(d, Current, f)'
  PROVE  WorkerOK' /\ InHand' /\ Serving' /\ Copying' /\ Unsent'
<1>1. worker \in Sender /\ To \in worker.todo /\ To \in Destinations /\ Given \in Seq(FileNames)
      /\ worker.at \in Nat \ {0} /\ (Given = <<>> \/ Given = worker.given)
  BY Hand
<1>2. /\ worker'.pc = "send" /\ worker'.todo = worker.todo /\ worker'.at = worker.at + 1
      /\ worker'.results = worker.results /\ worker'.given = worker.given
      /\ worker'.retain = worker.retain /\ worker'.attempt = 1
      /\ worker' \in [pc : {"send"}, todo : {worker.todo}, given : {worker.given},
                      at : {worker.at + 1}, attempt : {1},
                      results : {worker.results}, retain : {worker.retain}]
  BY <1>1 DEF Sender
<1>3. Destinations' = Destinations /\ Current' = Current /\ runs' = runs /\ To' = To
      /\ Kind(To)' = Kind(To) /\ Given' = Given
  BY <1>2 DEF Serves, Destinations, Current, To, Kind, Given
<1>4. WorkerOK'
  <2>1. 1 \in 1 .. Attempts
    BY Sizes
  <2>2. worker' \in Sender'
    BY <1>1, <1>2, <1>3, <2>1 DEF Sender, Results
  <2> QED BY <2>2 DEF WorkerOK
<1>5. InHand'
  BY <1>2, <1>3 DEF InHand, Serves
<1>6. Serving'
  <2>1. ASSUME NEW CONSTANT d \in DOMAIN worker.results, worker.results[d]
        PROVE  Has(d, Current)'
    <3>1. Has(d, Current) /\ d \in Destinations
      BY <1>1, <2>1 DEF Serving, Sender, Results
    <3> QED BY <3>1, NowStays DEF Serves
  <2>2. ASSUME NEW CONSTANT i \in DOMAIN Given, i < worker.at + 1
        PROVE  Holds(To, Current, Given[i])'
    <3>1. CASE i < worker.at
      <4>1. Holds(To, Current, Given[i])
        BY <3>1, <2>2 DEF Serving
      <4> QED BY <1>1, <1>3, <4>1, SameStays
    <3>2. CASE i = worker.at
      <4>1. PICK d, f : d = To /\ f = Artifact
        OBVIOUS
      <4>2. Holds(d, Current, f)'
        BY <4>1
      <4> QED BY <4>1, <4>2, <3>2, <1>3 DEF Holds, Artifact
    <3> QED BY <3>1, <3>2, <2>2, <1>1
  <2>3. worker.at + 1 <= Len(Given) /\ Given # <<>>
    BY <1>1
  <2> QED BY <1>2, <1>3, <2>1, <2>2, <2>3 DEF Serving
<1>7. Copying'
  BY <1>2 DEF Copying
<1>8. Unsent'
  <2>1. ASSUME NEW CONSTANT d \in worker.todo \ {To} PROVE NothingOf(d)'
    BY <1>1, <1>3, <2>1 DEF Unsent, NothingOf, Serves, Sender
  <2>2. ASSUME NEW CONSTANT i \in DOMAIN Given, i > worker.at
        PROVE  <<Current, Given[i]>> \notin DOMAIN received'[To]
    <3>1. Given[i] # Artifact
      BY <1>1, <2>2 DEF InHand, Artifact
    <3>2. <<Current, Given[i]>> # Item
      BY <3>1, <2>2, <1>1 DEF Item
    <3> QED BY <2>2, <3>2 DEF Unsent, Serves
  <2>3. Often(received'[To], Item') <= spent'.lost
    <3>1. worker.at + 1 \in DOMAIN Given /\ worker.at + 1 > worker.at
      BY <1>1
    <3>2. <<Current, Given[worker.at + 1]>> \notin DOMAIN received'[To]
      <4>1. PICK i : i = worker.at + 1
        OBVIOUS
      <4> QED BY <4>1, <3>1, <2>2
    <3>3. Item' = <<Current, Given[worker.at + 1]>>
      BY <1>2, <1>3, <3>1, <1>1 DEF Item, Artifact
    <3>4. Often(received'[To], Item') = 0
      BY <3>2, <3>3 DEF Often
    <3> QED BY <3>4 DEF Serves, Troubles
  <2> QED BY <1>2, <1>3, <1>1, <2>1, <2>2, <2>3 DEF Unsent
<1> QED BY <1>4, <1>5, <1>6, <1>7, <1>8

LEMMA Succeeds ==
  ASSUME LocalOK, WorkerOK, InHand, Serving, Unsent, Serves,
         worker.pc \in {"send", "copy"}, worker.todo # {}, worker' = Succeeded,
         \A d \in {To} : IF Given = <<>> THEN Has(d, Current)'
                         ELSE Kind(d) # "notice" /\ \A f \in {Artifact} : Holds(d, Current, f)'
  PROVE  WorkerOK' /\ InHand' /\ Serving' /\ Copying' /\ Unsent'
<1>1. worker \in Sender /\ To \in worker.todo /\ To \in Destinations /\ Given \in Seq(FileNames)
      /\ worker.at \in Nat \ {0} /\ (Given = <<>> \/ Given = worker.given)
  BY Hand
<1>2. CASE worker.at < Len(Given)
  <2>1. Given # <<>>
    BY <1>1, <1>2
  <2> QED BY <1>2, <2>1, NextOne DEF Succeeded
<1>3. CASE ~(worker.at < Len(Given))
  <2>1. worker' = Done(TRUE)
    BY <1>3 DEF Succeeded
  <2>2. \A d \in {To} : Has(d, Current)'
    <3> SUFFICES ASSUME Given # <<>> PROVE \A d \in {To} : Has(d, Current)'
      OBVIOUS
    <3>1. PICK d, r : d = To /\ r = Current
      OBVIOUS
    <3>2. d \in Destinations /\ Kind(d) # "notice" /\ Kind(d)' = Kind(d) /\ Current' = r
          /\ runs'[r].sent = Given /\ worker.at = Len(Given)
      BY <1>1, <1>3, <3>1 DEF Serves, Kind, Current, InHand, Serving
    <3>3. ASSUME NEW CONSTANT i \in DOMAIN Given, NEW CONSTANT f, f = Given[i]
          PROVE  Holds(d, r, f)'
      <4>1. CASE i < worker.at
        <5>1. Holds(d, r, f)
          BY <4>1, <3>1, <3>3 DEF Serving
        <5>2. Holds(d, r, f)'
          BY <5>1, <3>2, HoldsStays DEF Serves
        <5> QED BY <5>2
      <4>2. CASE i = worker.at
        <5>1. f \in {Artifact} /\ d \in {To}
          BY <3>3, <4>2, <3>1 DEF Artifact
        <5> QED BY <5>1, <3>2 DEF Holds
      <4> QED BY <4>1, <4>2, <3>2, <3>3, <1>1
    <3>4. \A i \in DOMAIN runs'[r].sent : Holds(d, r, runs[r].sent[i])'
      BY <3>2, <3>3
    <3>5. Has(d, r)'
      BY <3>2, <3>4 DEF Has
    <3> QED BY <3>1, <3>2, <3>5 DEF Has
  <2> QED BY <2>1, <2>2, DestinationDone
<1> QED BY <1>2, <1>3

LEMMA Fails ==
  ASSUME LocalOK, WorkerOK, InHand, Serving, Unsent, Serves,
         worker.pc \in {"send", "copy"}, worker.todo # {}, worker' = Failed,
         Often(received'[To], Item) <= spent'.lost
  PROVE  WorkerOK' /\ InHand' /\ Serving' /\ Copying' /\ Unsent'
BY TriedAgain, DestinationDone DEF Failed

(* A new run has no results, and nobody has anything of it.                *)
LEMMA NewRun ==
  ASSUME DeliveryInv, worker.pc = "idle", Current < MaxRuns,
         NEW run \in RunType, run.results = Nothing, runs' = Append(runs, run),
         UNCHANGED <<mode, received, files, spent>>
  PROVE  /\ Current' = Current + 1 /\ runs' \in Seq(RunType) /\ Len(runs') <= MaxRuns
         /\ runs'[Current'] = run /\ Current' \in 0 .. MaxRuns /\ Current' \in DOMAIN runs'
         /\ DOMAIN runs \subseteq DOMAIN runs'
         /\ \A d \in Destinations : \A item \in DOMAIN received[d] : item[1] # Current'
         /\ RemoteOK' /\ ByKind' /\ ReceiversTold'
<1> USE DEF DeliveryInv, TypeInv, LocalOK
<1>1. /\ Current' = Current + 1 /\ runs' \in Seq(RunType) /\ Len(runs') <= MaxRuns
      /\ runs'[Current'] = run /\ DOMAIN runs' = DOMAIN runs \cup {Current'} /\ Current \in Nat
      /\ DOMAIN runs = 1 .. Current
      /\ \A r \in DOMAIN runs : runs'[r] = runs[r]
  BY Sizes DEF Current
<1>2. \A d \in Destinations : \A item \in DOMAIN received[d] : item[1] # Current'
  BY <1>1 DEF RemoteOK
<1>3. RemoteOK'
  BY <1>1 DEF RemoteOK, Destinations
<1>4. ByKind'
  BY DEF ByKind, Destinations, Kind
<1>5. ResultsTell'
  <2>1. Stays
    BY DEF Stays
  <2>2. DOMAIN runs'[Current'].results = {}
    BY <1>1 DEF Nothing
  <2> QED BY <1>1, <2>1, <2>2, ResultsStay DEF ReceiversTold
<1>6. SentInOrder'
  <2>1. spent.lost \in Nat
    BY DEF Troubles
  <2> QED BY <1>1, <1>2, <2>1, OrderStays DEF ReceiversTold
<1>7. WholeFiles'
  BY DEF ReceiversTold, WholeFiles, Destinations, Kind
<1> QED BY <1>1, <1>2, <1>3, <1>4, <1>5, <1>6, <1>7, Sizes DEF ReceiversTold

(* The message that a run failed.                                          *)
LEMMA TellsFailure ==
  ASSUME LocalOK, UNCHANGED <<mode, enabled, received>>, runs' \in Seq(RunType),
         NEW retain \in BOOLEAN, NEW run, worker' = Told(retain),
         Current' > 0, runs'[Current'] = Noted(run), run.results = Nothing, run.sent = <<>>,
         run \in RunType, spent' \in [Troubles -> Nat],
         \A d \in Destinations : \A item \in DOMAIN received[d] : item[1] # Current'
  PROVE  WorkerOK' /\ InHand' /\ Serving' /\ Copying' /\ Unsent'
<1>1. CASE mode.notify
  <2>1. worker' = Deliver(<<>>, retain) /\ <<>> \in Seq(FileNames)
    BY <1>1 DEF Told
  <2>2. /\ runs'[Current'].results = Nothing /\ runs'[Current'].asked = enabled
        /\ runs'[Current'].sent = <<>> /\ DOMAIN Nothing = {}
    BY <1>1 DEF Noted, RunType, Nothing
  <2>3. \A i \in DOMAIN <<>> : FALSE
    OBVIOUS
  <2> DEFINE none == <<>>
  <2>4. none \in Seq(FileNames) /\ runs'[Current'].sent = none /\ worker' = Deliver(none, retain)
        /\ \A i \in DOMAIN none : FALSE
    BY <2>1, <2>2, <2>3
  <2> HIDE DEF none
  <2> QED BY <2>2, <2>4, DeliveryBegins
<1>2. CASE ~mode.notify
  <2>1. worker' \in [pc : {"idle", "retain"}]
    BY <1>2 DEF Told, After, Idle
  <2> QED BY <2>1, AtRest DEF WorkerOK
<1> QED BY <1>1, <1>2

LEMMA SameTypes ==
  ASSUME UNCHANGED mode
  PROVE  RunType' = RunType /\ Destinations' = Destinations
<1>1. Destinations' = Destinations
  BY DEF Destinations
<1>2. Results' = Results
  BY <1>1 DEF Results
<1> QED BY <1>1, <1>2 DEF RunType

LEMMA NotedRun ==
  ASSUME LocalOK, NEW run \in RunType
  PROVE  Noted(run) \in RunType /\ Noted(run).results = run.results
BY DEF LocalOK, Noted, RunType
LEMMA MadeRun ==
  ASSUME NEW status \in {"running", "completed", "partial", "failed"},
         NEW name \in Names \cup {None}, NEW extra \in SUBSET FileNames
  PROVE  /\ Run(status, name, extra) \in RunType /\ Run(status, name, extra).results = Nothing
         /\ Run(status, name, extra).sent = <<>>
<1>1. Nothing \in [{} -> BOOLEAN] /\ {} \subseteq Destinations
  BY DEF Nothing
<1>2. Nothing \in Results
  BY <1>1 DEF Results
<1>3. <<>> \in Seq(FileNames)
  OBVIOUS
<1> QED BY <1>2, <1>3 DEF Run, RunType

LEMMA NoArtifactKeeps ==
  ASSUME DeliveryInv, NoArtifact PROVE DeliveryInv'
<1> DEFINE run == Run("failed", None, {})
<1>1. run \in RunType /\ run.results = Nothing /\ run.sent = <<>>
  BY MadeRun
<1>2. Noted(run) \in RunType /\ Noted(run).results = Nothing
  BY <1>1, NotedRun DEF DeliveryInv, TypeInv
<1>3. /\ Current' = Current + 1 /\ runs' \in Seq(RunType) /\ Len(runs') <= MaxRuns
      /\ runs'[Current'] = Noted(run) /\ Current' \in 0 .. MaxRuns /\ Current' \in DOMAIN runs'
      /\ DOMAIN runs \subseteq DOMAIN runs'
      /\ \A d \in Destinations : \A item \in DOMAIN received[d] : item[1] # Current'
      /\ RemoteOK' /\ ByKind' /\ ReceiversTold'
  BY <1>2, NewRun DEF NoArtifact
<1>4. LocalOK'
  BY <1>3, SameTypes DEF DeliveryInv, TypeInv, LocalOK, NoArtifact
<1>5. Current' > 0
  BY <1>3 DEF DeliveryInv, TypeInv, LocalOK, Current
<1>6. WorkerOK' /\ InHand' /\ Serving' /\ Copying' /\ Unsent'
  BY <1>1, <1>3, <1>5, TellsFailure DEF NoArtifact, DeliveryInv, TypeInv, LocalOK
<1> QED BY <1>3, <1>4, <1>6 DEF DeliveryInv, TypeInv

(* The CSV and its coverage file, under a name of the template.            *)
LEMMA CsvNames ==
  ASSUME NEW r \in 0 .. MaxRuns, NEW partial \in BOOLEAN
  PROVE  CsvName(r, partial) \in Names
<1>1. 0 \in 0 .. MaxRuns
  BY Sizes
<1>2. Asked(r) \in Names
  BY <1>1 DEF Asked, Names
<1> QED BY <1>2 DEF CsvName, Names
LEMMA SavedFiles ==
  ASSUME LocalOK, NEW r \in 0 .. MaxRuns, NEW name \in Names
  PROVE  /\ DOMAIN Saved(r, name) \subseteq FileNames
         /\ \A f \in DOMAIN Saved(r, name) :
              \/ Saved(r, name)[f] = r
              \/ f \in DOMAIN folder /\ Saved(r, name)[f] = folder[f]
         /\ Saved(r, name)[File(name, "csv")] = r
         /\ File(name, "json") \in FileNames
<1> DEFINE csv == File(name, "csv")
<1>1. File(name, "json") \in FileNames /\ csv \in FileNames
  BY DEF File, FileNames
<1>2. DOMAIN Saved(r, name) = DOMAIN folder \cup {csv, File(name, "json")}
  BY DEF Saved
<1>3. DOMAIN Saved(r, name) \subseteq FileNames
  BY <1>1, <1>2 DEF LocalOK
<1>4. ASSUME NEW f \in DOMAIN Saved(r, name)
      PROVE  /\ f \in DOMAIN folder /\ f # csv => Saved(r, name)[f] = folder[f]
             /\ ~(f \in DOMAIN folder /\ f # csv) => Saved(r, name)[f] = r
  BY <1>2 DEF Saved
<1>5. csv \in DOMAIN Saved(r, name)
  BY <1>2
<1>6. Saved(r, name)[csv] = r
  BY <1>4, <1>5
<1> QED BY <1>1, <1>3, <1>4, <1>6

LEMMA PartialArtifactKeeps ==
  ASSUME DeliveryInv, PartialArtifact PROVE DeliveryInv'
<1> DEFINE name == CsvName(Current + 1, TRUE)
<1> DEFINE run == Run("partial", name, {File(name, "json")})
<1>0. Current + 1 \in 0 .. MaxRuns
  BY Sizes DEF PartialArtifact, Current, DeliveryInv, TypeInv, LocalOK
<1>00. folder' = Saved(Current + 1, name)
  BY DEF PartialArtifact
<1>1. /\ name \in Names /\ File(name, "json") \in FileNames
      /\ DOMAIN folder' \subseteq FileNames
      /\ \A f \in DOMAIN folder' :
           \/ folder'[f] = Current + 1
           \/ f \in DOMAIN folder /\ folder'[f] = folder[f]
  <2>1. name \in Names
    BY <1>0, CsvNames
  <2>2. LocalOK
    BY DEF DeliveryInv, TypeInv
  <2> HIDE DEF name
  <2> QED BY <1>0, <1>00, <2>1, <2>2, SavedFiles
<1>2. run \in RunType /\ run.results = Nothing /\ run.sent = <<>>
  BY <1>1, MadeRun
<1>3. Noted(run) \in RunType /\ Noted(run).results = Nothing
  BY <1>2, NotedRun DEF DeliveryInv, TypeInv
<1>4. /\ Current' = Current + 1 /\ runs' \in Seq(RunType) /\ Len(runs') <= MaxRuns
      /\ runs'[Current'] = Noted(run) /\ Current' \in 0 .. MaxRuns /\ Current' \in DOMAIN runs'
      /\ DOMAIN runs \subseteq DOMAIN runs'
      /\ \A d \in Destinations : \A item \in DOMAIN received[d] : item[1] # Current'
      /\ RemoteOK' /\ ByKind' /\ ReceiversTold'
  BY <1>3, NewRun DEF PartialArtifact
<1>5. LocalOK'
  BY <1>1, <1>4, SameTypes DEF DeliveryInv, TypeInv, LocalOK, PartialArtifact
<1>6. Current' > 0
  BY <1>4 DEF DeliveryInv, TypeInv, LocalOK, Current
<1>7. WorkerOK' /\ InHand' /\ Serving' /\ Copying' /\ Unsent'
  BY <1>2, <1>4, <1>6, TellsFailure DEF PartialArtifact, DeliveryInv, TypeInv, LocalOK
<1> QED BY <1>4, <1>5, <1>7 DEF DeliveryInv, TypeInv

LEMMA FullArtifactKeeps ==
  ASSUME DeliveryInv, FullArtifact PROVE DeliveryInv'
<1> DEFINE name == CsvName(Current + 1, FALSE)
<1> DEFINE run == Run("running", None, {})
<1>0. Current + 1 \in 0 .. MaxRuns
  BY Sizes DEF FullArtifact, Current, DeliveryInv, TypeInv, LocalOK
<1>00. folder' = Saved(Current + 1, name)
  BY DEF FullArtifact
<1>1. /\ name \in Names /\ DOMAIN folder' \subseteq FileNames
      /\ \A f \in DOMAIN folder' :
           \/ folder'[f] = Current + 1
           \/ f \in DOMAIN folder /\ folder'[f] = folder[f]
      /\ folder'[File(name, "csv")] = Current + 1
  <2>1. name \in Names
    BY <1>0, CsvNames
  <2>2. LocalOK
    BY DEF DeliveryInv, TypeInv
  <2> HIDE DEF name
  <2> QED BY <1>0, <1>00, <2>1, <2>2, SavedFiles
<1>2. run \in RunType /\ run.results = Nothing /\ run.sent = <<>>
  BY MadeRun
<1>3. /\ Current' = Current + 1 /\ runs' \in Seq(RunType) /\ Len(runs') <= MaxRuns
      /\ runs'[Current'] = run /\ Current' \in 0 .. MaxRuns /\ Current' \in DOMAIN runs'
      /\ DOMAIN runs \subseteq DOMAIN runs'
      /\ \A d \in Destinations : \A item \in DOMAIN received[d] : item[1] # Current'
      /\ RemoteOK' /\ ByKind' /\ ReceiversTold'
  BY <1>2, NewRun DEF FullArtifact
<1>4. LocalOK'
  BY <1>1, <1>3, SameTypes DEF DeliveryInv, TypeInv, LocalOK, FullArtifact
<1>5. worker' = [pc |-> "report", name |-> name] /\ UNCHANGED <<mode, received>>
  BY DEF FullArtifact
<1>6. WorkerOK'
  BY <1>1, <1>5 DEF WorkerOK
<1>7. Current' > 0 /\ DOMAIN Nothing = {}
  BY <1>3 DEF DeliveryInv, TypeInv, LocalOK, Current, Nothing
<1>8. InHand'
  BY <1>1, <1>2, <1>3, <1>5, <1>7 DEF InHand
<1>9. Serving' /\ Copying' /\ Unsent'
  BY <1>3, <1>5, SameTypes DEF Serving, Copying, Unsent, NothingOf
<1> QED BY <1>3, <1>4, <1>6, <1>8, <1>9 DEF DeliveryInv, TypeInv

LEMMA Joined ==
  ASSUME NEW S, NEW A, NEW B, A \cap B = {}, NEW a \in Seq(S), NEW b \in Seq(S),
         \A i \in DOMAIN a : a[i] \in A, \A i \in DOMAIN b : b[i] \in B,
         \A i, j \in DOMAIN a : a[i] = a[j] => i = j,
         \A i, j \in DOMAIN b : b[i] = b[j] => i = j
  PROVE  /\ a \o b \in Seq(S)
         /\ \A i \in DOMAIN (a \o b) : (a \o b)[i] \in A \cup B
         /\ \A i, j \in DOMAIN (a \o b) : (a \o b)[i] = (a \o b)[j] => i = j
<1> DEFINE c == a \o b
<1>1. c \in Seq(S) /\ Len(c) = Len(a) + Len(b) /\ Len(a) \in Nat /\ Len(b) \in Nat
  OBVIOUS
<1>2. DOMAIN c = 1 .. Len(c) /\ DOMAIN a = 1 .. Len(a) /\ DOMAIN b = 1 .. Len(b)
  BY <1>1
<1>3. \A i \in DOMAIN a : c[i] = a[i]
  BY <1>1, <1>2
<1>4. \A i \in DOMAIN c \ DOMAIN a : i - Len(a) \in DOMAIN b /\ c[i] = b[i - Len(a)]
  BY <1>1, <1>2
<1> HIDE DEF c
<1>5. \A i \in DOMAIN c : c[i] \in A \cup B
  BY <1>3, <1>4
<1>6. ASSUME NEW i \in DOMAIN c, NEW j \in DOMAIN c, c[i] = c[j] PROVE i = j
  <2>1. CASE i \in DOMAIN a /\ j \in DOMAIN a
    BY <1>3, <1>6, <2>1
  <2>2. CASE i \notin DOMAIN a /\ j \notin DOMAIN a
    <3>1. i - Len(a) = j - Len(a)
      BY <1>4, <1>6, <2>2
    <3> QED BY <3>1, <1>1, <1>2
  <2>3. CASE i \in DOMAIN a /\ j \notin DOMAIN a
    BY <1>3, <1>4, <1>6, <2>3
  <2>4. CASE i \notin DOMAIN a /\ j \in DOMAIN a
    BY <1>3, <1>4, <1>6, <2>4
  <2> QED BY <2>1, <2>2, <2>3, <2>4
<1> QED BY <1>1, <1>5, <1>6 DEF c

LEMMA AtMostOne ==
  ASSUME NEW S, NEW x \in S, NEW s, s = <<>> \/ s = <<x>>
  PROVE  /\ s \in Seq(S) /\ \A i \in DOMAIN s : s[i] \in {x}
         /\ \A i, j \in DOMAIN s : s[i] = s[j] => i = j
<1>1. CASE s = <<>>
  BY <1>1
<1>2. CASE s = <<x>>
  <2>1. <<x>> \in Seq(S) /\ DOMAIN <<x>> = {1} /\ <<x>>[1] = x
    OBVIOUS
  <2> QED BY <1>2, <2>1
<1> QED BY <1>1, <1>2

(* The artifacts of a run are files of its own, each listed once.          *)
LEMMA WantedFiles ==
  ASSUME LocalOK, NEW name \in Names
  PROVE  /\ Wanted(name) \in Seq(FileNames) /\ Range(Wanted(name)) \subseteq FileNames
         /\ File(name, "csv") \in FileNames /\ File(name, "json") \in FileNames
         /\ File(name, "csv") \notin Range(Wanted(name))
         /\ LET given == <<File(name, "csv")>> \o Wanted(name) IN
            /\ given \in Seq(FileNames)
            /\ \A i \in DOMAIN given : given[i] \in {File(name, "csv")} \cup Range(Wanted(name))
            /\ \A i, j \in DOMAIN given : given[i] = given[j] => i = j
<1> DEFINE csv == File(name, "csv")
<1> DEFINE html == File(name, "html")
<1> DEFINE pdf == File(name, "pdf")
<1> DEFINE hs == IfWanted(name, "html")
<1> DEFINE ps == IfWanted(name, "pdf")
<1> DEFINE w == Wanted(name)
<1> DEFINE one == <<csv>>
<1>1. /\ csv \in FileNames /\ html \in FileNames /\ pdf \in FileNames
      /\ File(name, "json") \in FileNames
      /\ csv # html /\ csv # pdf /\ html # pdf
  BY DEF File, FileNames, Reports
<1> HIDE DEF html, pdf, csv
<1>2. hs = <<>> \/ hs = <<html>>
  BY DEF IfWanted, html
<1>3. ps = <<>> \/ ps = <<pdf>>
  BY DEF IfWanted, pdf
<1>4. /\ hs \in Seq(FileNames) /\ \A i \in DOMAIN hs : hs[i] \in {html}
      /\ \A i, j \in DOMAIN hs : hs[i] = hs[j] => i = j
  BY <1>1, <1>2, AtMostOne
<1>5. /\ ps \in Seq(FileNames) /\ \A i \in DOMAIN ps : ps[i] \in {pdf}
      /\ \A i, j \in DOMAIN ps : ps[i] = ps[j] => i = j
  BY <1>1, <1>3, AtMostOne
<1>6. /\ one \in Seq(FileNames) /\ \A i \in DOMAIN one : one[i] \in {csv}
      /\ \A i, j \in DOMAIN one : one[i] = one[j] => i = j
  BY <1>1
<1>7. w = hs \o ps
  BY DEF Wanted
<1> HIDE DEF hs, ps, w, one
<1>8. /\ w \in Seq(FileNames) /\ \A i \in DOMAIN w : w[i] \in {html} \cup {pdf}
      /\ \A i, j \in DOMAIN w : w[i] = w[j] => i = j
  <2> DEFINE H == {html}
  <2> DEFINE P == {pdf}
  <2>1. H \cap P = {} /\ (\A i \in DOMAIN hs : hs[i] \in H) /\ \A i \in DOMAIN ps : ps[i] \in P
    BY <1>1, <1>4, <1>5
  <2> HIDE DEF H, P
  <2>2. /\ hs \o ps \in Seq(FileNames)
        /\ \A i \in DOMAIN (hs \o ps) : (hs \o ps)[i] \in H \cup P
        /\ \A i, j \in DOMAIN (hs \o ps) : (hs \o ps)[i] = (hs \o ps)[j] => i = j
    BY <1>4, <1>5, <2>1, Joined
  <2> QED BY <1>7, <2>2 DEF H, P
<1>9. Range(w) \subseteq {html, pdf} /\ \A i \in DOMAIN w : w[i] \in Range(w)
  BY <1>8 DEF Range
<1>10. {csv} \cap Range(w) = {}
  BY <1>1, <1>9
<1>11. /\ one \o w \in Seq(FileNames)
       /\ \A i \in DOMAIN (one \o w) : (one \o w)[i] \in {csv} \cup Range(w)
       /\ \A i, j \in DOMAIN (one \o w) : (one \o w)[i] = (one \o w)[j] => i = j
  BY <1>6, <1>8, <1>9, <1>10, Joined
<1>12. Range(w) \subseteq FileNames
  BY <1>1, <1>9
<1> QED BY <1>1, <1>8, <1>10, <1>11, <1>12 DEF w, one, csv

(* The run in hand changes, without results; nobody has anything of it.    *)
LEMMA RunChanges ==
  ASSUME DeliveryInv, worker.pc \in {"report", "decide"},
         NEW run \in RunType, run.results = Nothing, runs' = [runs EXCEPT ![Current] = run],
         UNCHANGED <<mode, received, files>>, spent' \in [Troubles -> Nat],
         \A w \in Troubles : spent'[w] >= spent[w]
  PROVE  /\ Current' = Current /\ Current > 0 /\ runs' \in Seq(RunType) /\ Len(runs') <= MaxRuns
         /\ runs'[Current] = run /\ Current \in DOMAIN runs /\ DOMAIN runs' = DOMAIN runs
         /\ \A d \in Destinations : \A item \in DOMAIN received[d] : item[1] # Current
         /\ RemoteOK' /\ ByKind' /\ ReceiversTold'
<1> USE DEF DeliveryInv, TypeInv, LocalOK
<1>1. /\ Current' = Current /\ Current > 0 /\ runs' \in Seq(RunType) /\ Len(runs') <= MaxRuns
      /\ runs'[Current] = run /\ Current \in DOMAIN runs /\ DOMAIN runs' = DOMAIN runs
      /\ \A r \in DOMAIN runs \ {Current} : runs'[r] = runs[r]
  BY DEF Current, InHand
<1>2. \A d \in Destinations : \A item \in DOMAIN received[d] : item[1] # Current
  BY DEF Unsent, NothingOf
<1>3. RemoteOK'
  BY <1>1 DEF RemoteOK, Destinations
<1>4. ByKind'
  BY DEF ByKind, Destinations, Kind
<1>5. ResultsTell'
  <2>1. Stays
    BY DEF Stays
  <2>2. DOMAIN runs'[Current].results = {}
    BY <1>1 DEF Nothing
  <2> QED BY <1>1, <2>1, <2>2, ResultsStay DEF ReceiversTold
<1>6. SentInOrder'
  <2>1. spent.lost \in Nat /\ spent'.lost \in Nat /\ spent'.lost >= spent.lost
    BY DEF Troubles
  <2> QED BY <1>1, <1>2, <2>1, OrderStays DEF ReceiversTold
<1>7. WholeFiles'
  BY FilesStay DEF ReceiversTold
<1> QED BY <1>1, <1>2, <1>3, <1>4, <1>5, <1>6, <1>7 DEF ReceiversTold

LEMMA WriteReportsKeeps ==
  ASSUME DeliveryInv, WriteReports PROVE DeliveryInv'
<1> DEFINE name == worker.name
<1> DEFINE wanted == Wanted(name)
<1> DEFINE json == File(name, "json")
<1> DEFINE given == <<File(name, "csv")>> \o wanted
<1>1. name \in Names /\ LocalOK /\ worker.pc = "report" /\ UNCHANGED <<mode, enabled, received, files, swept>>
  BY Phases DEF DeliveryInv, TypeInv, WriteReports
<1>2. /\ wanted \in Seq(FileNames) /\ Range(wanted) \subseteq FileNames
      /\ json \in FileNames /\ File(name, "csv") \notin Range(wanted) /\ given \in Seq(FileNames)
      /\ \A i \in DOMAIN given : given[i] \in {File(name, "csv")} \cup Range(wanted)
      /\ \A i, j \in DOMAIN given : given[i] = given[j] => i = j
  BY <1>1, WantedFiles
<1> HIDE DEF name, wanted, given, json
<1>3. CASE /\ Range(wanted) \cap DOMAIN folder = {}
           /\ folder' = [f \in DOMAIN folder \cup Range(wanted) |->
                           IF f \in Range(wanted) THEN Current ELSE folder[f]]
           /\ runs' = [runs EXCEPT ![Current] = Run("completed", name, Range(wanted) \cup {json})]
           /\ worker' = [pc |-> "decide", given |-> given]
           /\ UNCHANGED spent
  <2> DEFINE run == Run("completed", name, Range(wanted) \cup {json})
  <2>1. run \in RunType /\ run.results = Nothing /\ run.sent = <<>>
    BY <1>1, <1>2, MadeRun
  <2>2. spent' \in [Troubles -> Nat] /\ \A w \in Troubles : spent'[w] >= spent[w]
    BY <1>1, <1>3 DEF LocalOK
  <2>3. /\ Current' = Current /\ Current > 0 /\ runs' \in Seq(RunType) /\ Len(runs') <= MaxRuns
        /\ runs'[Current] = run /\ Current \in DOMAIN runs /\ DOMAIN runs' = DOMAIN runs
        /\ \A d \in Destinations : \A item \in DOMAIN received[d] : item[1] # Current
        /\ RemoteOK' /\ ByKind' /\ ReceiversTold'
    <3> HIDE DEF run
    <3>1. runs' = [runs EXCEPT ![Current] = run]
      BY <1>3 DEF run
    <3> QED BY <1>1, <2>1, <2>2, <3>1, RunChanges
  <2>4. LocalOK'
    <3>1. DOMAIN folder' \subseteq FileNames /\ \A f \in DOMAIN folder' : folder'[f] \in DOMAIN runs'
      BY <1>1, <1>2, <1>3, <2>3 DEF LocalOK
    <3> QED BY <1>1, <2>2, <2>3, <3>1, SameTypes DEF LocalOK
  <2>5. WorkerOK'
    BY <1>2, <1>3 DEF WorkerOK
  <2>6. InHand'
    <3>1. DOMAIN Nothing = {}
      BY DEF Nothing
    <3>2. File(name, "csv") \in DOMAIN folder => folder[File(name, "csv")] = Current
      BY <1>1 DEF DeliveryInv, InHand, name
    <3>3. \A i \in DOMAIN given : given[i] \in DOMAIN folder' => folder'[given[i]] = Current
      BY <1>2, <1>3, <3>2
    <3> QED BY <1>2, <1>3, <2>1, <2>3, <3>1, <3>3 DEF InHand
  <2>7. Serving' /\ Copying' /\ Unsent'
    BY <1>1, <1>3, <2>3, SameTypes DEF Serving, Copying, Unsent, NothingOf
  <2> QED BY <2>3, <2>4, <2>5, <2>6, <2>7 DEF DeliveryInv, TypeInv
<1>4. CASE /\ UNCHANGED spent \/ Meet("report")
           /\ runs' = [runs EXCEPT ![Current] = Noted(Run("failed", name, {json}))]
           /\ worker' = Told(TRUE)
           /\ UNCHANGED folder
  <2> DEFINE run == Run("failed", name, {json})
  <2>1. run \in RunType /\ run.results = Nothing /\ run.sent = <<>>
    BY <1>1, <1>2, MadeRun
  <2>2. Noted(run) \in RunType /\ Noted(run).results = Nothing
    BY <1>1, <2>1, NotedRun
  <2>3. spent' \in [Troubles -> Nat] /\ \A w \in Troubles : spent'[w] >= spent[w]
    BY <1>1, <1>4, Met DEF LocalOK, Troubles
  <2> HIDE DEF run
  <2>4. runs' = [runs EXCEPT ![Current] = Noted(run)]
    BY <1>4 DEF run
  <2>5. /\ Current' = Current /\ Current > 0 /\ runs' \in Seq(RunType) /\ Len(runs') <= MaxRuns
        /\ runs'[Current] = Noted(run) /\ Current \in DOMAIN runs /\ DOMAIN runs' = DOMAIN runs
        /\ \A d \in Destinations : \A item \in DOMAIN received[d] : item[1] # Current
        /\ RemoteOK' /\ ByKind' /\ ReceiversTold'
    <3> DEFINE noted == Noted(run)
    <3>1. noted \in RunType /\ noted.results = Nothing /\ runs' = [runs EXCEPT ![Current] = noted]
      BY <2>2, <2>4
    <3> HIDE DEF noted
    <3>2. /\ Current' = Current /\ Current > 0 /\ runs' \in Seq(RunType) /\ Len(runs') <= MaxRuns
          /\ runs'[Current] = noted /\ Current \in DOMAIN runs /\ DOMAIN runs' = DOMAIN runs
          /\ \A d \in Destinations : \A item \in DOMAIN received[d] : item[1] # Current
          /\ RemoteOK' /\ ByKind' /\ ReceiversTold'
      BY <1>1, <2>3, <3>1, RunChanges
    <3> QED BY <3>2 DEF noted
  <2>6. LocalOK'
    BY <1>1, <1>4, <2>3, <2>5, SameTypes DEF LocalOK
  <2>7. WorkerOK' /\ InHand' /\ Serving' /\ Copying' /\ Unsent'
    BY <1>1, <1>4, <2>1, <2>3, <2>5, TellsFailure
  <2> QED BY <2>5, <2>6, <2>7 DEF DeliveryInv, TypeInv
<1> QED BY <1>3, <1>4 DEF WriteReports, name, wanted, json, given

LEMMA DecideKeeps ==
  ASSUME DeliveryInv, Decide PROVE DeliveryInv'
<1>1. /\ LocalOK /\ worker.pc = "decide" /\ worker.given \in Seq(FileNames)
      /\ UNCHANGED <<mode, enabled, folder, received, files, swept, spent>>
      /\ Current \in DOMAIN runs
  BY Phases DEF DeliveryInv, TypeInv, Decide, InHand, LocalOK, Current
<1>2. runs[Current] \in RunType /\ runs[Current].results = Nothing
  <2>1. runs[Current] \in RunType
    BY <1>1 DEF LocalOK
  <2>2. runs[Current].results \in Results /\ DOMAIN runs[Current].results = {}
    BY <1>1, <2>1 DEF RunType, DeliveryInv, InHand
  <2>3. PICK D \in SUBSET Destinations : runs[Current].results \in [D -> BOOLEAN]
    BY <2>2 DEF Results
  <2>4. runs[Current].results = [x \in {} |-> 0]
    BY <2>2, <2>3
  <2> QED BY <2>1, <2>4 DEF Nothing
<1>3. spent' \in [Troubles -> Nat] /\ \A w \in Troubles : spent'[w] >= spent[w]
  BY <1>1 DEF LocalOK
<1>4. ASSUME NEW run \in RunType, run.results = Nothing, runs' = [runs EXCEPT ![Current] = run]
      PROVE  /\ Current' = Current /\ Current > 0 /\ runs' \in Seq(RunType)
             /\ runs'[Current] = run
             /\ \A d \in Destinations : \A item \in DOMAIN received[d] : item[1] # Current
             /\ LocalOK' /\ RemoteOK' /\ ByKind' /\ ReceiversTold'
  <2>1. /\ Current' = Current /\ Current > 0 /\ runs' \in Seq(RunType) /\ Len(runs') <= MaxRuns
        /\ runs'[Current] = run /\ Current \in DOMAIN runs /\ DOMAIN runs' = DOMAIN runs
        /\ \A d \in Destinations : \A item \in DOMAIN received[d] : item[1] # Current
        /\ RemoteOK' /\ ByKind' /\ ReceiversTold'
    BY <1>1, <1>3, <1>4, RunChanges
  <2> QED BY <1>1, <1>3, <2>1, SameTypes DEF LocalOK
<1>5. CASE runs' = [runs EXCEPT ![Current].skipped = TRUE] /\ worker' = After(TRUE)
  <2> DEFINE run == [runs[Current] EXCEPT !.skipped = TRUE]
  <2>1. run \in RunType /\ run.results = Nothing
    BY <1>2 DEF RunType
  <2>2. runs' = [runs EXCEPT ![Current] = run]
    BY <1>1, <1>5 DEF LocalOK
  <2> HIDE DEF run
  <2>3. LocalOK' /\ RemoteOK' /\ ByKind' /\ ReceiversTold'
    BY <1>4, <2>1, <2>2
  <2>4. worker' \in [pc : {"idle", "retain"}]
    BY <1>5 DEF After
  <2>5. InHand' /\ Serving' /\ Copying' /\ Unsent'
    BY <2>4, AtRest
  <2> QED BY <2>3, <2>4, <2>5 DEF DeliveryInv, TypeInv, WorkerOK
<1>6. CASE /\ worker' = Deliver(worker.given, TRUE)
           /\ runs' = [runs EXCEPT ![Current].asked = enabled, ![Current].sent = worker.given]
  <2> DEFINE run == [runs[Current] EXCEPT !.asked = enabled, !.sent = worker.given]
  <2>1. /\ run \in RunType /\ run.results = Nothing
        /\ run.asked = enabled /\ run.sent = worker.given
    BY <1>1, <1>2 DEF RunType, LocalOK
  <2>2. runs' = [runs EXCEPT ![Current] = run]
    BY <1>1, <1>6 DEF LocalOK
  <2> HIDE DEF run
  <2>3. /\ Current' = Current /\ Current > 0 /\ runs' \in Seq(RunType)
        /\ runs'[Current] = run
        /\ \A d \in Destinations : \A item \in DOMAIN received[d] : item[1] # Current
        /\ LocalOK' /\ RemoteOK' /\ ByKind' /\ ReceiversTold'
    BY <1>4, <2>1, <2>2
  <2>4. \A i \in DOMAIN worker.given :
          /\ worker.given[i] \in DOMAIN folder' => folder'[worker.given[i]] = Current'
          /\ \A j \in DOMAIN worker.given : worker.given[i] = worker.given[j] => i = j
    BY <1>1, <2>3 DEF DeliveryInv, InHand
  <2>5. DOMAIN Nothing = {}
    BY DEF Nothing
  <2>6. WorkerOK' /\ InHand' /\ Serving' /\ Copying' /\ Unsent'
    <3> DEFINE given == worker.given
    <3>1. /\ given \in Seq(FileNames) /\ worker' = Deliver(given, TRUE)
          /\ Current' > 0 /\ runs'[Current'] = run /\ run.sent = given
          /\ DOMAIN run.results = {}
          /\ \A d \in Destinations : \A item \in DOMAIN received[d] : item[1] # Current'
          /\ \A i \in DOMAIN given :
               /\ given[i] \in DOMAIN folder' => folder'[given[i]] = Current'
               /\ \A j \in DOMAIN given : given[i] = given[j] => i = j
      BY <1>1, <1>6, <2>1, <2>3, <2>4, <2>5
    <3> HIDE DEF given
    <3> QED BY <1>1, <1>3, <2>1, <2>3, <3>1, DeliveryBegins
  <2> QED BY <2>3, <2>6 DEF DeliveryInv, TypeInv
<1> QED BY <1>5, <1>6 DEF Decide

LEMMA RunsServed ==
  ASSUME DeliveryInv, Serves, UNCHANGED swept
  PROVE  LocalOK' /\ ResultsTell'
<1>1. LocalOK'
  BY SameTypes DEF DeliveryInv, TypeInv, LocalOK, Serves
<1>2. ResultsTell'
  BY ResultsStay DEF DeliveryInv, TypeInv, LocalOK, Serves, ReceiversTold
<1> QED BY <1>1, <1>2

LEMMA SentItem ==
  ASSUME DeliveryInv, worker.pc \in {"send", "copy"}, worker.todo # {}
  PROVE  /\ Current \in DOMAIN runs /\ runs[Current].sent = worker.given
         /\ Given # <<>> => worker.at \in DOMAIN Given /\ Artifact \in FileNames
         /\ Item \in (DOMAIN runs) \X (FileNames \cup {None})
<1>1. Current \in DOMAIN runs /\ runs[Current].sent = worker.given
  BY DEF DeliveryInv, TypeInv, LocalOK, InHand, Current
<1>2. Given \in Seq(FileNames) /\ worker.at \in Nat \ {0}
  BY Hand DEF DeliveryInv, TypeInv
<1>3. Given # <<>> => worker.at \in DOMAIN Given /\ Artifact \in FileNames
  BY <1>2 DEF DeliveryInv, Serving, Artifact
<1> QED BY <1>1, <1>3 DEF Item

(* A message received is counted; those before it were received.           *)
LEMMA Received ==
  ASSUME DeliveryInv, worker.pc = "send", worker.todo # {}, Kind(To) \in {"notice", "message"},
         Receive, UNCHANGED <<mode, enabled, runs, folder, files, swept>>,
         spent' \in [Troubles -> Nat], \A w \in Troubles : spent'[w] >= spent[w]
  PROVE  /\ Serves /\ ByKind' /\ SentInOrder'
         /\ Item \in DOMAIN received'[To]
         /\ received'[To][Item] = Often(received[To], Item) + 1
<1> DEFINE got == received[To]
<1>1. /\ To \in Destinations /\ Given \in Seq(FileNames) /\ worker.at \in Nat \ {0}
      /\ (Given = <<>> \/ Given = worker.given) /\ LocalOK /\ RemoteOK
      /\ spent \in [Troubles -> Nat]
  BY Hand DEF DeliveryInv, TypeInv, LocalOK
<1>2. /\ Current \in DOMAIN runs /\ runs[Current].sent = worker.given
      /\ Given # <<>> => worker.at \in DOMAIN Given /\ Artifact \in FileNames
      /\ Item \in (DOMAIN runs) \X (FileNames \cup {None})
  BY SentItem
<1>3. /\ DOMAIN received = Destinations
      /\ \A d \in Destinations \ {To} : received'[d] = received[d]
      /\ DOMAIN received' = Destinations
      /\ DOMAIN received'[To] = DOMAIN got \cup {Item}
      /\ received'[To][Item] = Often(got, Item) + 1
      /\ \A item \in DOMAIN got \ {Item} : received'[To][item] = got[item]
  BY <1>1 DEF RemoteOK, Receive, Extend
<1>4. Often(got, Item) \in Nat /\ Often(got, Item) <= spent.lost
  <2>1. Often(got, Item) \in Nat
    BY <1>1 DEF RemoteOK, Often
  <2>2. Often(got, Item) <= spent.lost
    BY DEF DeliveryInv, Unsent
  <2> QED BY <2>1, <2>2
<1>5. Destinations' = Destinations /\ \A d : Kind(d)' = Kind(d)
  BY DEF Destinations, Kind
<1>6. RemoteOK'
  <2>1. ASSUME NEW CONSTANT d \in Destinations
        PROVE  /\ DOMAIN files[d] \subseteq FileNames
               /\ \A f \in DOMAIN files[d] : files[d][f] \in [run : DOMAIN runs, whole : BOOLEAN]
               /\ DOMAIN received'[d] \subseteq (DOMAIN runs) \X (FileNames \cup {None})
               /\ \A item \in DOMAIN received'[d] : received'[d][item] \in Nat
    <3>1. CASE d = To
      <4>1. /\ DOMAIN files[d] \subseteq FileNames
            /\ \A f \in DOMAIN files[d] : files[d][f] \in [run : DOMAIN runs, whole : BOOLEAN]
            /\ DOMAIN got \subseteq (DOMAIN runs) \X (FileNames \cup {None})
            /\ \A item \in DOMAIN got : got[item] \in Nat
        BY <1>1, <3>1 DEF RemoteOK
      <4>2. DOMAIN received'[d] \subseteq (DOMAIN runs) \X (FileNames \cup {None})
        BY <1>2, <1>3, <3>1, <4>1
      <4>3. \A item \in DOMAIN received'[d] : received'[d][item] \in Nat
        BY <1>3, <1>4, <3>1, <4>1
      <4> QED BY <4>1, <4>2, <4>3
    <3>2. CASE d # To
      BY <1>1, <1>3, <3>2 DEF RemoteOK
    <3> QED BY <3>1, <3>2
  <2> QED BY <1>1, <1>3, <1>5, <2>1 DEF RemoteOK
<1>7. Serves
  <2>1. Stays
    BY <1>3 DEF Stays
  <2> QED BY <1>1, <1>3, <1>6, <2>1 DEF Serves
<1>8. ByKind'
  <2>1. ASSUME NEW CONSTANT d \in Destinations
        PROVE  /\ Kind(d) \in {"folder", "sftp"} => DOMAIN received'[d] = {}
               /\ Kind(d) = "notice" => \A item \in DOMAIN received'[d] : item[2] = None
    <3>1. CASE d = To
      <4>1. Kind(To) = "notice" => Item = <<Current, None>>
        BY DEF Given, Item
      <4> QED BY <1>3, <3>1, <4>1 DEF DeliveryInv, ByKind
    <3>2. CASE d # To
      BY <1>3, <3>2 DEF DeliveryInv, ByKind
    <3> QED BY <3>1, <3>2
  <2> QED BY <1>5, <2>1 DEF ByKind
<1>9. SentInOrder'
  <2> SUFFICES ASSUME NEW CONSTANT d \in Destinations
               PROVE  /\ \A item \in DOMAIN received'[d] : received'[d][item] <= 1 + spent'.lost
                      /\ \A r \in DOMAIN runs : \A i, j \in DOMAIN runs[r].sent :
                           i < j /\ <<r, runs[r].sent[j]>> \in DOMAIN received'[d] =>
                             <<r, runs[r].sent[i]>> \in DOMAIN received'[d]
    BY <1>5 DEF SentInOrder
  <2>1. /\ \A item \in DOMAIN received[d] : received[d][item] <= 1 + spent.lost
        /\ \A item \in DOMAIN received[d] : received[d][item] \in Nat
        /\ \A r \in DOMAIN runs : \A i, j \in DOMAIN runs[r].sent :
             i < j /\ <<r, runs[r].sent[j]>> \in DOMAIN received[d] =>
               <<r, runs[r].sent[i]>> \in DOMAIN received[d]
    BY <1>1 DEF DeliveryInv, ReceiversTold, SentInOrder, RemoteOK
  <2>2. spent.lost \in Nat /\ spent'.lost \in Nat /\ spent.lost <= spent'.lost
    BY <1>1 DEF Troubles
  <2>3. CASE d # To
    BY <1>3, <2>1, <2>2, <2>3
  <2>4. CASE d = To
    <3>1. \A item \in DOMAIN received'[d] : received'[d][item] <= 1 + spent'.lost
      BY <1>3, <1>4, <2>1, <2>2, <2>4
    <3>2. ASSUME NEW CONSTANT r \in DOMAIN runs, NEW CONSTANT i \in DOMAIN runs[r].sent,
                 NEW CONSTANT j \in DOMAIN runs[r].sent,
                 i < j, <<r, runs[r].sent[j]>> \in DOMAIN received'[d]
          PROVE  <<r, runs[r].sent[i]>> \in DOMAIN received'[d]
      <4>1. CASE <<r, runs[r].sent[j]>> \in DOMAIN received[d]
        BY <1>3, <2>1, <2>4, <3>2, <4>1
      <4>2. CASE <<r, runs[r].sent[j]>> = Item
        <5>1. runs[r] \in RunType
          BY <1>1 DEF LocalOK
        <5>2. runs[r].sent[j] \in FileNames
          BY <5>1 DEF RunType
        <5>3. Given # <<>> /\ r = Current /\ runs[r].sent[j] = Artifact
          BY <4>2, <5>2, NoneAssumption DEF Item
        <5>4. Given = worker.given /\ runs[r].sent = Given /\ Kind(To) = "message"
          BY <1>1, <1>2, <5>3 DEF Given
        <5>5. j = worker.at
          BY <1>2, <5>3, <5>4 DEF DeliveryInv, InHand, Artifact
        <5>6. Holds(To, Current, Given[i])
          BY <3>2, <5>4, <5>5 DEF DeliveryInv, Serving
        <5> QED BY <1>3, <2>4, <5>3, <5>4, <5>6 DEF Holds
      <4> QED BY <1>3, <2>4, <3>2, <4>1, <4>2
    <3> QED BY <3>1, <3>2
  <2> QED BY <2>3, <2>4
<1> QED BY <1>3, <1>7, <1>8, <1>9

(* Nothing is received.                                                    *)
LEMMA NotReceived ==
  ASSUME DeliveryInv, worker.pc \in {"send", "copy"}, worker.todo # {},
         UNCHANGED <<mode, enabled, runs, folder, received, swept>>,
         spent' \in [Troubles -> Nat], \A w \in Troubles : spent'[w] >= spent[w]
  PROVE  ByKind' /\ SentInOrder' /\ Often(received'[To], Item) <= spent'.lost
<1>1. spent.lost \in Nat /\ spent'.lost \in Nat /\ spent.lost <= spent'.lost
  BY DEF DeliveryInv, TypeInv, LocalOK, Troubles
<1>2. ByKind'
  BY DEF DeliveryInv, ByKind, Destinations, Kind
<1>3. SentInOrder'
  BY <1>1, OrderStays DEF DeliveryInv, TypeInv, ReceiversTold
<1>4. Often(received[To], Item) <= spent.lost /\ Often(received[To], Item) \in Nat
  <2>1. To \in Destinations
    BY Hand DEF DeliveryInv, TypeInv
  <2> QED BY <2>1 DEF DeliveryInv, TypeInv, Unsent, RemoteOK, Often
<1> QED BY <1>1, <1>2, <1>3, <1>4

LEMMA SendMessageKeeps ==
  ASSUME DeliveryInv, SendMessage PROVE DeliveryInv'
<1>1. /\ worker.pc = "send" /\ worker.todo # {} /\ Kind(To) \in {"notice", "message"}
      /\ UNCHANGED <<mode, enabled, runs, folder, files, swept>>
      /\ LocalOK /\ WorkerOK /\ RemoteOK /\ InHand /\ Serving /\ Unsent
      /\ spent \in [Troubles -> Nat] /\ ReceiversTold
  BY DEF SendMessage, Sending, DeliveryInv, TypeInv, LocalOK
<1>2. /\ spent' \in [Troubles -> Nat] /\ \A w \in Troubles : spent'[w] >= spent[w]
  BY <1>1, Met DEF SendMessage, Unacknowledged, Troubles
<1>3. WholeFiles'
  BY <1>1, <1>2, FilesStay DEF ReceiversTold
<1>4. CASE Receive /\ (worker' = Succeeded \/ (worker' = Failed /\ Meet("lost")))
  <2>1. /\ Serves /\ ByKind' /\ SentInOrder'
        /\ Item \in DOMAIN received'[To]
        /\ received'[To][Item] = Often(received[To], Item) + 1
    BY <1>1, <1>2, <1>4, Received
  <2>2. LocalOK' /\ ResultsTell' /\ RemoteOK'
    BY <1>1, <2>1, RunsServed DEF Serves
  <2>3. CASE worker' = Succeeded
    <3>1. ASSUME NEW CONSTANT d \in {To}, Given = <<>> PROVE Has(d, Current)'
      <4>1. Kind(d)' \in {"notice", "message"} /\ (Kind(d)' = "notice" \/ runs'[Current'].sent = <<>>)
        BY <1>1, <3>1, SentItem DEF Given, Kind, Current
      <4>2. <<Current', None>> \in DOMAIN received'[d]
        BY <1>1, <2>1, <3>1 DEF Item, Current
      <4> QED BY <4>1, <4>2 DEF Has
    <3>2. ASSUME NEW CONSTANT d \in {To}, Given # <<>>
          PROVE  Kind(d) # "notice" /\ \A f \in {Artifact} : Holds(d, Current, f)'
      <4>1. Kind(d) = "message" /\ Kind(d)' = "message"
        BY <1>1, <3>2 DEF Given, Kind
      <4>2. ASSUME NEW CONSTANT f \in {Artifact} PROVE Holds(d, Current, f)'
        <5>1. <<Current', f>> \in DOMAIN received'[d]
          BY <1>1, <2>1, <3>2, <4>2 DEF Item, Current
        <5> QED BY <4>1, <5>1 DEF Holds
      <4> QED BY <4>1, <4>2
    <3>3. WorkerOK' /\ InHand' /\ Serving' /\ Copying' /\ Unsent'
      BY <1>1, <2>1, <2>3, <3>1, <3>2, Succeeds
    <3> QED BY <1>3, <2>1, <2>2, <3>3 DEF DeliveryInv, TypeInv, ReceiversTold
  <2>4. CASE worker' = Failed /\ Meet("lost")
    <3>1. spent'.lost = spent.lost + 1
      BY <1>1, <2>4, Met DEF Troubles
    <3>2. Often(received'[To], Item) <= spent'.lost
      <4>1. Often(received'[To], Item) = Often(received[To], Item) + 1
        BY <2>1 DEF Often
      <4>2. Often(received[To], Item) <= spent.lost
        BY <1>1 DEF Unsent
      <4>3. Often(received[To], Item) \in Nat /\ spent.lost \in Nat
        BY <1>1, Hand DEF Often, RemoteOK, Troubles
      <4> QED BY <3>1, <4>1, <4>2, <4>3
    <3>3. WorkerOK' /\ InHand' /\ Serving' /\ Copying' /\ Unsent'
      BY <1>1, <2>1, <2>4, <3>2, Fails
    <3> QED BY <1>3, <2>1, <2>2, <3>3 DEF DeliveryInv, TypeInv, ReceiversTold
  <2> QED BY <2>3, <2>4, <1>4
<1>5. CASE worker' = Failed /\ UNCHANGED received
  <2>1. ByKind' /\ SentInOrder' /\ Often(received'[To], Item) <= spent'.lost
    BY <1>1, <1>2, <1>5, NotReceived
  <2>2. RemoteOK' /\ Stays
    BY <1>1, <1>5 DEF RemoteOK, Stays, Destinations
  <2>3. Serves
    BY <1>1, <1>2, <1>5, <2>2 DEF Serves
  <2>4. LocalOK' /\ ResultsTell'
    BY <1>1, <2>3, RunsServed
  <2>5. WorkerOK' /\ InHand' /\ Serving' /\ Copying' /\ Unsent'
    BY <1>1, <1>5, <2>1, <2>3, Fails
  <2> QED BY <1>3, <2>1, <2>2, <2>4, <2>5 DEF DeliveryInv, TypeInv, ReceiversTold
<1> QED BY <1>4, <1>5 DEF SendMessage, Unacknowledged

LEMMA CannotSendKeeps ==
  ASSUME DeliveryInv, CannotSend PROVE DeliveryInv'
<1>1. /\ worker.pc = "send" /\ worker.todo # {} /\ worker' = Failed
      /\ UNCHANGED <<mode, enabled, runs, folder, received, files, swept>>
      /\ LocalOK /\ WorkerOK /\ RemoteOK /\ InHand /\ Serving /\ Unsent
      /\ spent \in [Troubles -> Nat] /\ ReceiversTold
  BY DEF CannotSend, Sending, DeliveryInv, TypeInv, LocalOK
<1>2. /\ spent' \in [Troubles -> Nat] /\ \A w \in Troubles : spent'[w] >= spent[w]
  BY <1>1, Met DEF CannotSend, Troubles
<1>3. WholeFiles'
  BY <1>1, <1>2, FilesStay DEF ReceiversTold
<1>4. ByKind' /\ SentInOrder' /\ Often(received'[To], Item) <= spent'.lost
  BY <1>1, <1>2, NotReceived
<1>5. RemoteOK' /\ Stays
  BY <1>1 DEF RemoteOK, Stays, Destinations
<1>6. Serves
  BY <1>1, <1>2, <1>5 DEF Serves
<1>7. LocalOK' /\ ResultsTell'
  BY <1>1, <1>6, RunsServed
<1>8. WorkerOK' /\ InHand' /\ Serving' /\ Copying' /\ Unsent'
  BY <1>1, <1>4, <1>6, Fails
<1> QED BY <1>3, <1>4, <1>5, <1>7, <1>8 DEF DeliveryInv, TypeInv, ReceiversTold

(* A file opened for writing at a destination, under a name free there.    *)
LEMMA OpenCopyKeeps ==
  ASSUME DeliveryInv, OpenCopy PROVE DeliveryInv'
<1> DEFINE file == [run |-> folder[Artifact], whole |-> FALSE]
<1>1. /\ worker.pc = "send" /\ worker.todo # {} /\ Kind(To) \in {"folder", "sftp"}
      /\ Given # <<>> /\ ~Missing /\ Artifact \notin DOMAIN files[To]
      /\ worker' = [worker EXCEPT !.pc = "copy"]
      /\ UNCHANGED <<mode, enabled, runs, folder, received, swept, spent>>
      /\ LocalOK /\ WorkerOK /\ RemoteOK /\ InHand /\ Serving /\ Unsent /\ ByKind
      /\ spent \in [Troubles -> Nat] /\ ReceiversTold
  BY DEF OpenCopy, Sending, DeliveryInv, TypeInv, LocalOK
<1>2. /\ worker \in Sender /\ To \in worker.todo /\ To \in Destinations
      /\ Given \in Seq(FileNames) /\ worker.at \in Nat \ {0} /\ Given = worker.given
  BY <1>1, Hand
<1>3. /\ worker.at \in DOMAIN Given /\ Artifact \in FileNames /\ Current \in DOMAIN runs
  BY <1>1, SentItem
<1>4. folder[Artifact] = Current /\ file = [run |-> Current, whole |-> FALSE]
  BY <1>1, <1>2, <1>3 DEF Missing, InHand, Artifact
<1>5. /\ worker'.pc = "copy" /\ worker'.todo = worker.todo /\ worker'.at = worker.at
      /\ worker'.results = worker.results /\ worker'.given = worker.given
      /\ worker' \in Sender
  BY <1>1, <1>2 DEF Sender
<1>6. Destinations' = Destinations /\ Current' = Current /\ To' = To
      /\ (\A d : Kind(d)' = Kind(d)) /\ Given' = Given /\ Item' = Item /\ Artifact' = Artifact
  BY <1>1, <1>5 DEF Destinations, Current, To, Kind, Given, Item, Artifact
<1>7. /\ DOMAIN files' = Destinations /\ \A d \in Destinations \ {To} : files'[d] = files[d]
      /\ DOMAIN files'[To] = DOMAIN files[To] \cup {Artifact} /\ files'[To][Artifact] = file
      /\ \A f \in DOMAIN files[To] : files'[To][f] = files[To][f]
  BY <1>1, <1>2 DEF OpenCopy, RemoteOK, Extend
<1> HIDE DEF file
<1>8. RemoteOK'
  <2>1. ASSUME NEW CONSTANT d \in Destinations
        PROVE  /\ DOMAIN files'[d] \subseteq FileNames
               /\ \A f \in DOMAIN files'[d] : files'[d][f] \in [run : DOMAIN runs, whole : BOOLEAN]
    <3>1. CASE d = To
      <4>1. file \in [run : DOMAIN runs, whole : BOOLEAN]
        BY <1>3, <1>4
      <4>2. /\ DOMAIN files[d] \subseteq FileNames
            /\ \A f \in DOMAIN files[d] : files[d][f] \in [run : DOMAIN runs, whole : BOOLEAN]
        BY <1>1 DEF RemoteOK
      <4> QED BY <1>3, <1>7, <3>1, <4>1, <4>2
    <3>2. CASE d # To
      BY <1>1, <1>7, <3>2 DEF RemoteOK
    <3> QED BY <3>1, <3>2
  <2> QED BY <1>1, <1>6, <1>7, <2>1 DEF RemoteOK
<1>9. Stays
  BY <1>1, <1>7 DEF Stays
<1>10. Serves
  BY <1>1, <1>8, <1>9 DEF Serves
<1>11. LocalOK' /\ ResultsTell'
  BY <1>1, <1>10, RunsServed
<1>12. ByKind' /\ SentInOrder'
  BY <1>1, NotReceived
<1>13. WholeFiles'
  <2> SUFFICES ASSUME NEW CONSTANT d \in Destinations, NEW CONSTANT f \in DOMAIN files'[d]
               PROVE  \/ files'[d][f].whole \/ spent.crashes > 0
                      \/ Kind(d) = "sftp" /\ spent.broken > 0
                      \/ To = d /\ Artifact = f
    BY <1>1, <1>5, <1>6 DEF WholeFiles
  <2>1. CASE d = To /\ f = Artifact
    BY <2>1
  <2>2. CASE ~(d = To /\ f = Artifact)
    <3>1. f \in DOMAIN files[d] /\ files'[d][f] = files[d][f]
      BY <1>7, <2>2
    <3> QED BY <1>1, <3>1 DEF ReceiversTold, WholeFiles
  <2> QED BY <2>1, <2>2
<1>14. WorkerOK'
  BY <1>5, <1>6 DEF WorkerOK, Sender, Results
<1>15. InHand'
  BY <1>1, <1>5, <1>6 DEF InHand
<1>16. Serving'
  <2>1. ASSUME NEW CONSTANT d \in DOMAIN worker.results, worker.results[d]
        PROVE  Has(d, Current)'
    <3>1. Has(d, Current) /\ d \in Destinations
      BY <1>1, <1>2, <2>1 DEF Serving, Sender, Results
    <3> QED BY <1>1, <1>9, <3>1, NowStays
  <2>2. ASSUME NEW CONSTANT i \in DOMAIN Given, i < worker.at
        PROVE  Holds(To, Current, Given[i])'
    <3>1. Holds(To, Current, Given[i])
      BY <1>1, <2>2 DEF Serving
    <3> QED BY <1>2, <1>6, <1>10, <3>1, SameStays
  <2> QED BY <1>1, <1>5, <1>6, <2>1, <2>2 DEF Serving
<1>17. Copying'
  BY <1>1, <1>4, <1>5, <1>6, <1>7 DEF Copying
<1>18. Unsent'
  BY <1>1, <1>5, <1>6 DEF Unsent, NothingOf
<1> QED BY <1>8, <1>11, <1>12, <1>13, <1>14, <1>15, <1>16, <1>17, <1>18
    DEF DeliveryInv, TypeInv, ReceiversTold

(* The file in hand is not whole: nothing relies on it.                    *)
LEMMA CopyKeeps ==
  ASSUME DeliveryInv, Copy PROVE DeliveryInv'
<1>1. /\ worker.pc = "copy" /\ worker.todo # {} /\ Kind(To) \in {"folder", "sftp"}
      /\ Given # <<>> /\ Artifact \in DOMAIN files[To]
      /\ files[To][Artifact] = [run |-> Current, whole |-> FALSE]
      /\ UNCHANGED <<mode, enabled, runs, folder, received, swept>>
      /\ LocalOK /\ WorkerOK /\ RemoteOK /\ InHand /\ Serving /\ Unsent /\ ByKind
      /\ spent \in [Troubles -> Nat] /\ ReceiversTold
  BY DEF Copy, Copying, DeliveryInv, TypeInv, LocalOK
<1>2. To \in Destinations /\ worker.at \in DOMAIN Given /\ Artifact \in FileNames
      /\ Current \in DOMAIN runs
  BY <1>1, Hand, SentItem
<1>0. ASSUME NEW whole \in BOOLEAN, files' = [files EXCEPT ![To][Artifact].whole = whole]
      PROVE  /\ DOMAIN files' = Destinations /\ \A d \in Destinations \ {To} : files'[d] = files[d]
             /\ DOMAIN files'[To] = DOMAIN files[To]
             /\ \A f \in DOMAIN files[To] \ {Artifact} : files'[To][f] = files[To][f]
             /\ files'[To][Artifact] = [run |-> Current, whole |-> whole]
  BY <1>1, <1>2, <1>0 DEF RemoteOK
<1>3. /\ Destinations' = Destinations /\ Current' = Current /\ \A d : Kind(d)' = Kind(d)
  BY <1>1 DEF Destinations, Current, Kind
<1>4. \/ /\ files' = [files EXCEPT ![To][Artifact].whole = TRUE]
         /\ worker' = Succeeded /\ UNCHANGED spent
      \/ files' = [files EXCEPT ![To] = Without(@, {Artifact})] /\ worker' = Failed
         /\ Meet("unwritten")
      \/ /\ Kind(To) = "sftp" /\ worker' = Failed /\ Meet("broken")
         /\ \E whole \in BOOLEAN : files' = [files EXCEPT ![To][Artifact].whole = whole]
  BY DEF Copy, Broken
<1>5. /\ spent' \in [Troubles -> Nat] /\ \A w \in Troubles : spent'[w] >= spent[w]
  BY <1>1, <1>4, Met DEF Troubles
<1>6. worker'.pc = "send"
  BY <1>1, <1>4, Hand DEF Sender, Succeeded, Failed, Done
<1>7. /\ DOMAIN files' = Destinations /\ \A d \in Destinations \ {To} : files'[d] = files[d]
      /\ DOMAIN files'[To] \subseteq DOMAIN files[To] /\ DOMAIN files[To] \ {Artifact} \subseteq DOMAIN files'[To]
      /\ \A f \in DOMAIN files[To] \ {Artifact} : files'[To][f] = files[To][f]
      /\ Artifact \in DOMAIN files'[To] =>
           \E whole \in BOOLEAN : files'[To][Artifact] = [run |-> Current, whole |-> whole]
  <2>2. CASE files' = [files EXCEPT ![To] = Without(@, {Artifact})]
    BY <1>1, <1>2, <2>2 DEF RemoteOK, Without, Restrict
  <2> QED BY <1>0, <1>4, <2>2
<1>8. RemoteOK'
  <2>1. ASSUME NEW CONSTANT d \in Destinations
        PROVE  /\ DOMAIN files'[d] \subseteq FileNames
               /\ \A f \in DOMAIN files'[d] : files'[d][f] \in [run : DOMAIN runs, whole : BOOLEAN]
    <3>1. /\ DOMAIN files[d] \subseteq FileNames
          /\ \A f \in DOMAIN files[d] : files[d][f] \in [run : DOMAIN runs, whole : BOOLEAN]
      BY <1>1 DEF RemoteOK
    <3>2. CASE d = To
      <4>1. ASSUME NEW f \in DOMAIN files'[d] PROVE files'[d][f] \in [run : DOMAIN runs, whole : BOOLEAN]
        <5>1. CASE f = Artifact
          BY <1>2, <1>7, <3>2, <4>1, <5>1
        <5>2. CASE f # Artifact
          BY <1>7, <3>1, <3>2, <4>1, <5>2
        <5> QED BY <5>1, <5>2
      <4> QED BY <1>7, <3>1, <3>2, <4>1
    <3>3. CASE d # To
      BY <1>7, <3>1, <3>3
    <3> QED BY <3>2, <3>3
  <2> QED BY <1>1, <1>3, <1>7, <2>1 DEF RemoteOK
<1>9. Stays
  <2>1. ASSUME NEW CONSTANT d \in Destinations, NEW CONSTANT f \in DOMAIN files[d], files[d][f].whole
        PROVE  f \in DOMAIN files'[d] /\ files'[d][f] = files[d][f]
    <3>1. d # To \/ f # Artifact
      BY <1>1, <2>1
    <3> QED BY <1>7, <2>1, <3>1
  <2> QED BY <1>1, <2>1 DEF Stays
<1>10. Serves
  BY <1>1, <1>5, <1>8, <1>9 DEF Serves
<1>11. LocalOK' /\ ResultsTell'
  BY <1>1, <1>10, RunsServed
<1>12. ByKind' /\ SentInOrder' /\ Often(received'[To], Item) <= spent'.lost
  BY <1>1, <1>5, NotReceived
<1>13. WholeFiles'
  <2> SUFFICES ASSUME NEW CONSTANT d \in Destinations, NEW CONSTANT f \in DOMAIN files'[d]
               PROVE  \/ files'[d][f].whole \/ spent'.crashes > 0
                      \/ Kind(d) = "sftp" /\ spent'.broken > 0
    BY <1>3 DEF WholeFiles
  <2>0. /\ {spent.crashes, spent.broken, spent'.crashes, spent'.broken} \subseteq Nat
        /\ spent'.crashes >= spent.crashes /\ spent'.broken >= spent.broken
    BY <1>1, <1>5 DEF Troubles
  <2>1. CASE d = To /\ f = Artifact
    <3>1. CASE files' = [files EXCEPT ![To][Artifact].whole = TRUE]
      BY <1>1, <1>2, <2>1, <3>1 DEF RemoteOK
    <3>2. CASE files' = [files EXCEPT ![To] = Without(@, {Artifact})]
      BY <1>1, <1>2, <2>1, <3>2 DEF RemoteOK, Without, Restrict
    <3>3. CASE Kind(To) = "sftp" /\ Meet("broken")
      <4>1. spent'.broken = spent.broken + 1
        BY <1>1, <3>3, Met DEF Troubles
      <4> QED BY <2>0, <2>1, <3>3, <4>1
    <3> QED BY <1>4, <3>1, <3>2, <3>3
  <2>2. CASE ~(d = To /\ f = Artifact)
    <3>1. f \in DOMAIN files[d] /\ files'[d][f] = files[d][f]
      BY <1>7, <2>2
    <3> QED BY <1>1, <2>0, <2>2, <3>1 DEF ReceiversTold, WholeFiles
  <2> QED BY <2>1, <2>2
<1>14. CASE worker' = Failed
  <2>1. WorkerOK' /\ InHand' /\ Serving' /\ Copying' /\ Unsent'
    BY <1>1, <1>10, <1>12, <1>14, Fails
  <2> QED BY <1>8, <1>11, <1>12, <1>13, <2>1 DEF DeliveryInv, TypeInv, ReceiversTold
<1>15. CASE worker' = Succeeded /\ files' = [files EXCEPT ![To][Artifact].whole = TRUE]
  <2>0. Artifact \in DOMAIN files'[To] /\ files'[To][Artifact] = [run |-> Current, whole |-> TRUE]
    BY <1>0, <1>1, <1>15
  <2>1. ASSUME NEW CONSTANT d \in {To}
        PROVE  Kind(d) # "notice" /\ \A f \in {Artifact} : Holds(d, Current, f)'
    <3>1. Kind(d) \notin {"notice", "message"} /\ Kind(d)' = Kind(d)
      BY <1>1, <1>3, <2>1
    <3>2. ASSUME NEW CONSTANT f \in {Artifact} PROVE Holds(d, Current, f)'
      <4>1. f \in DOMAIN files'[d] /\ files'[d][f] = [run |-> Current, whole |-> TRUE]
        BY <2>0, <2>1, <3>2
      <4> QED BY <1>3, <3>1, <4>1 DEF Holds
    <3> QED BY <3>1, <3>2
  <2>2. WorkerOK' /\ InHand' /\ Serving' /\ Copying' /\ Unsent'
    BY <1>1, <1>10, <1>15, <2>1, Succeeds
  <2> QED BY <1>8, <1>11, <1>12, <1>13, <2>2 DEF DeliveryInv, TypeInv, ReceiversTold
<1> QED BY <1>4, <1>14, <1>15

(* What is recorded is true, and of every destination that was asked.      *)
LEMMA RecordKeeps ==
  ASSUME DeliveryInv, Record PROVE DeliveryInv'
<1>1. /\ worker.pc = "send" /\ worker.todo = {} /\ worker \in Sender
      /\ UNCHANGED <<mode, enabled, folder, received, files, swept, spent>>
      /\ runs' = [runs EXCEPT ![Current].results = worker.results]
      /\ worker' \in [pc : {"idle", "retain"}]
      /\ LocalOK /\ RemoteOK /\ Serving /\ ByKind /\ ReceiversTold
      /\ Current \in DOMAIN runs
  BY Phases DEF Record, After, Idle, DeliveryInv, TypeInv, InHand, LocalOK, Current
<1>2. /\ Current' = Current /\ runs' \in Seq(RunType) /\ Len(runs') = Len(runs)
      /\ DOMAIN runs' = DOMAIN runs /\ \A r \in DOMAIN runs \ {Current} : runs'[r] = runs[r]
      /\ runs'[Current].results = worker.results /\ runs'[Current].asked = runs[Current].asked
      /\ runs'[Current].sent = runs[Current].sent
  <2>1. runs[Current] \in RunType /\ worker.results \in Results
    BY <1>1 DEF LocalOK, Sender
  <2> DEFINE run == [runs[Current] EXCEPT !.results = worker.results]
  <2>2. /\ run \in RunType /\ run.results = worker.results
        /\ run.asked = runs[Current].asked /\ run.sent = runs[Current].sent
    BY <2>1 DEF RunType
  <2>3. runs' = [runs EXCEPT ![Current] = run]
    BY <1>1 DEF LocalOK
  <2> HIDE DEF run
  <2> QED BY <1>1, <2>2, <2>3 DEF LocalOK, Current
<1>3. LocalOK'
  BY <1>1, <1>2, SameTypes DEF LocalOK
<1>4. RemoteOK' /\ ByKind'
  BY <1>1, <1>2 DEF RemoteOK, ByKind, Destinations, Kind
<1>5. Stays
  BY <1>1 DEF Stays
<1>6. ResultsTell'
  <2> SUFFICES ASSUME NEW CONSTANT r \in DOMAIN runs
               PROVE  /\ \A d \in DOMAIN runs'[r].results : runs'[r].results[d] => Has(d, r)'
                      /\ DOMAIN runs'[r].results \in {{}, runs'[r].asked}
    BY <1>2 DEF ResultsTell
  <2>1. runs'[r].sent = runs[r].sent /\ runs'[r].asked = runs[r].asked
    BY <1>2
  <2>2. runs'[r].results = IF r = Current THEN worker.results ELSE runs[r].results
    BY <1>2
  <2>3. CASE r = Current
    <3>1. DOMAIN worker.results \subseteq Destinations
      BY <1>1 DEF Sender, Results
    <3>2. \A d \in DOMAIN worker.results : worker.results[d] => Has(d, r)
      BY <1>1, <2>3 DEF Serving
    <3>3. ASSUME NEW CONSTANT d \in DOMAIN worker.results, worker.results[d] PROVE Has(d, r)'
      BY <1>5, <2>1, <3>1, <3>2, <3>3, HasStays
    <3>4. DOMAIN worker.results = runs[r].asked
      BY <1>1, <2>3 DEF Serving
    <3> QED BY <2>1, <2>2, <2>3, <3>3, <3>4
  <2>4. CASE r # Current
    <3>1. /\ \A d \in DOMAIN runs[r].results : runs[r].results[d] => Has(d, r)
          /\ DOMAIN runs[r].results \in {{}, runs[r].asked}
      BY <1>1 DEF ReceiversTold, ResultsTell
    <3>2. DOMAIN runs[r].results \subseteq Destinations
      <4>1. runs[r] \in RunType
        BY <1>1 DEF LocalOK
      <4>2. runs[r].results \in Results
        BY <4>1 DEF RunType
      <4> QED BY <4>2 DEF Results
    <3>3. ASSUME NEW CONSTANT d \in DOMAIN runs[r].results, runs[r].results[d] PROVE Has(d, r)'
      BY <1>5, <2>1, <3>1, <3>2, <3>3, HasStays
    <3> QED BY <2>1, <2>2, <2>4, <3>1, <3>3
  <2> QED BY <2>3, <2>4
<1>7. SentInOrder'
  <2>1. spent.lost \in Nat
    BY <1>1 DEF LocalOK, Troubles
  <2>2. \A r \in DOMAIN runs' : r \in DOMAIN runs /\ runs'[r].sent = runs[r].sent
    BY <1>2
  <2> QED BY <1>1, <2>1, <2>2, OrderStays DEF ReceiversTold
<1>8. WholeFiles'
  BY <1>1, FilesStay DEF ReceiversTold, LocalOK, Troubles
<1>9. InHand' /\ Serving' /\ Copying' /\ Unsent'
  BY <1>1, AtRest
<1> QED BY <1>1, <1>3, <1>4, <1>6, <1>7, <1>8, <1>9 DEF DeliveryInv, TypeInv, WorkerOK, ReceiversTold

(* The template's folder changes: what was delivered is elsewhere.         *)
LEMMA FolderChanges ==
  ASSUME DeliveryInv, UNCHANGED <<mode, runs, received, files>>,
         worker' = worker \/ worker' \in [pc : {"idle", "retain"}],
         enabled' \subseteq Destinations, swept' \in BOOLEAN,
         DOMAIN folder' \subseteq DOMAIN folder, \A f \in DOMAIN folder' : folder'[f] = folder[f],
         spent' \in [Troubles -> Nat], \A w \in Troubles : spent'[w] >= spent[w],
         worker.pc # "copy" \/ worker' = worker
  PROVE  DeliveryInv'
<1> USE DEF DeliveryInv, TypeInv
<1>1. Destinations' = Destinations /\ Current' = Current /\ (\A d : Kind(d)' = Kind(d))
  BY DEF Destinations, Current, Kind
<1>2. spent.lost \in Nat /\ spent'.lost \in Nat /\ spent.lost <= spent'.lost
  BY DEF LocalOK, Troubles
<1>3. LocalOK'
  BY SameTypes DEF LocalOK
<1>4. RemoteOK' /\ ByKind'
  BY <1>1 DEF RemoteOK, ByKind
<1>5. ResultsTell'
  BY ResultsStay DEF Stays, ReceiversTold, LocalOK
<1>6. SentInOrder'
  BY <1>2, OrderStays DEF ReceiversTold
<1>7. CASE worker' = worker
  <2>1. WorkerOK'
    BY <1>1, <1>7 DEF WorkerOK, Sender, Results
  <2>2. InHand'
    BY <1>1, <1>7 DEF InHand
  <2>3. To' = To /\ Given' = Given /\ Item' = Item /\ Artifact' = Artifact
    BY <1>1, <1>7 DEF To, Given, Item, Artifact
  <2>4. Serving'
    <3>1. ASSUME NEW CONSTANT d \in DOMAIN worker.results, Has(d, Current) PROVE Has(d, Current)'
      BY <1>1, <3>1 DEF Has, Holds
    <3>2. ASSUME NEW CONSTANT i \in DOMAIN Given, Holds(To, Current, Given[i])
          PROVE  Holds(To, Current, Given[i])'
      BY <1>1, <2>3, <3>2 DEF Holds
    <3> QED BY <1>1, <1>7, <2>3, <3>1, <3>2 DEF Serving
  <2>5. Copying'
    BY <1>1, <1>7, <2>3 DEF Copying
  <2>6. Unsent'
    <3>1. worker.pc \in {"send", "copy"} /\ worker.todo # {} =>
            Often(received[To], Item) <= spent.lost /\ Often(received[To], Item) \in Nat
      BY Hand DEF Unsent, RemoteOK, Often
    <3> QED BY <1>1, <1>2, <1>7, <2>3, <3>1 DEF Unsent, NothingOf
  <2>7. WholeFiles'
    <3> SUFFICES ASSUME NEW CONSTANT d \in Destinations, NEW CONSTANT f \in DOMAIN files[d]
                 PROVE  \/ files[d][f].whole \/ spent'.crashes > 0
                        \/ Kind(d) = "sftp" /\ spent'.broken > 0
                        \/ worker.pc = "copy" /\ To = d /\ Artifact = f
      BY <1>1, <1>7, <2>3 DEF WholeFiles
    <3>1. /\ {spent.crashes, spent.broken, spent'.crashes, spent'.broken} \subseteq Nat
          /\ spent'.crashes >= spent.crashes /\ spent'.broken >= spent.broken
      BY DEF LocalOK, Troubles
    <3> QED BY <3>1 DEF ReceiversTold, WholeFiles
  <2> QED BY <1>3, <1>4, <1>5, <1>6, <2>1, <2>2, <2>4, <2>5, <2>6, <2>7 DEF ReceiversTold
<1>8. CASE worker.pc # "copy" /\ worker' \in [pc : {"idle", "retain"}]
  <2>1. WholeFiles'
    BY <1>8, FilesStay DEF ReceiversTold, LocalOK
  <2>2. InHand' /\ Serving' /\ Copying' /\ Unsent'
    BY <1>8, AtRest
  <2> QED BY <1>3, <1>4, <1>5, <1>6, <1>8, <2>1, <2>2 DEF ReceiversTold, WorkerOK
<1> QED BY <1>7, <1>8

LEMMA RetainKeeps ==
  ASSUME DeliveryInv, Retain PROVE DeliveryInv'
<1>1. spent \in [Troubles -> Nat] /\ worker.pc = "retain" /\ worker' \in [pc : {"idle", "retain"}]
      /\ UNCHANGED <<mode, enabled, runs, received, files>>
      /\ enabled \subseteq Destinations /\ swept \in BOOLEAN
  BY DEF DeliveryInv, TypeInv, LocalOK, Retain, Idle
<1>2. spent' \in [Troubles -> Nat] /\ \A w \in Troubles : spent'[w] >= spent[w]
  BY <1>1, Met DEF Retain, Troubles
<1>3. swept' \in BOOLEAN /\ DOMAIN folder' \subseteq DOMAIN folder
      /\ \A f \in DOMAIN folder' : folder'[f] = folder[f]
  BY <1>1 DEF Retain, Without, Restrict
<1> QED BY <1>1, <1>2, <1>3, FolderChanges

LEMMA EditDestinationKeeps ==
  ASSUME DeliveryInv, EditDestination PROVE DeliveryInv'
<1>1. spent \in [Troubles -> Nat] /\ enabled \subseteq Destinations /\ swept \in BOOLEAN
  BY DEF DeliveryInv, TypeInv, LocalOK
<1>2. spent' \in [Troubles -> Nat] /\ \A w \in Troubles : spent'[w] >= spent[w]
  BY <1>1, Met DEF EditDestination, Troubles
<1>3. enabled' \subseteq Destinations
      /\ UNCHANGED <<mode, runs, folder, worker, received, files, swept>>
  BY <1>1 DEF EditDestination
<1> QED BY <1>1, <1>2, <1>3, FolderChanges

LEMMA TakeCsvKeeps ==
  ASSUME DeliveryInv, TakeCsv PROVE DeliveryInv'
<1>1. spent \in [Troubles -> Nat] /\ enabled \subseteq Destinations /\ swept \in BOOLEAN
  BY DEF DeliveryInv, TypeInv, LocalOK
<1>2. spent' \in [Troubles -> Nat] /\ \A w \in Troubles : spent'[w] >= spent[w]
  BY <1>1, Met DEF TakeCsv, Troubles
<1>3. UNCHANGED <<mode, enabled, runs, worker, received, files, swept>>
  BY DEF TakeCsv
<1>4. DOMAIN folder' \subseteq DOMAIN folder /\ \A f \in DOMAIN folder' : folder'[f] = folder[f]
  BY DEF TakeCsv, Without, Restrict
<1> QED BY <1>1, <1>2, <1>3, <1>4, FolderChanges

(* A crash loses no message and no whole file, only what was being written.*)
LEMMA RestartKeeps ==
  ASSUME DeliveryInv, Restart PROVE DeliveryInv'
<1>1. /\ UNCHANGED <<mode, enabled, folder, received, files, swept>>
      /\ worker' = [pc |-> "idle"] /\ Meet("crashes")
      /\ spent \in [Troubles -> Nat] /\ LocalOK /\ RemoteOK /\ ByKind /\ ReceiversTold
  BY DEF Restart, Idle, DeliveryInv, TypeInv, LocalOK
<1>2. /\ spent' \in [Troubles -> Nat] /\ \A w \in Troubles : spent'[w] >= spent[w]
      /\ spent'.crashes = spent.crashes + 1
  BY <1>1, Met DEF Troubles
<1>3. /\ DOMAIN runs' = DOMAIN runs /\ runs' \in Seq(RunType) /\ Len(runs') = Len(runs)
      /\ \A r \in DOMAIN runs : /\ runs'[r].results = runs[r].results
                                /\ runs'[r].asked = runs[r].asked
                                /\ runs'[r].sent = runs[r].sent
  <2>1. ASSUME NEW r \in DOMAIN runs
        PROVE  /\ runs'[r] \in RunType /\ runs'[r].results = runs[r].results
               /\ runs'[r].asked = runs[r].asked /\ runs'[r].sent = runs[r].sent
    <3>1. runs[r] \in RunType
      BY <1>1 DEF LocalOK
    <3>2. runs'[r] = IF runs[r].status = "running" THEN [runs[r] EXCEPT !.status = "failed"] ELSE runs[r]
      BY DEF Restart
    <3> QED BY <3>1, <3>2 DEF RunType
  <2>2. runs \in Seq(RunType) /\ Len(runs) \in Nat /\ DOMAIN runs = 1 .. Len(runs)
    BY <1>1 DEF LocalOK
  <2>3. DOMAIN runs' = 1 .. Len(runs) /\ runs' \in [1 .. Len(runs) -> RunType]
    BY <2>1, <2>2 DEF Restart
  <2>4. runs' \in Seq(RunType)
    BY <2>2, <2>3
  <2> QED BY <2>1, <2>2, <2>3, <2>4
<1>4. LocalOK'
  BY <1>1, <1>2, <1>3, SameTypes DEF LocalOK
<1>5. RemoteOK' /\ ByKind'
  BY <1>1, <1>3 DEF RemoteOK, ByKind, Destinations, Kind
<1>6. ResultsTell'
  BY <1>1, <1>3, ResultsStay DEF Stays, ReceiversTold, LocalOK
<1>7. SentInOrder'
  BY <1>1, <1>2, <1>3, OrderStays DEF ReceiversTold, Troubles
<1>8. WholeFiles'
  BY <1>1, <1>2 DEF WholeFiles, Troubles
<1>9. InHand' /\ Serving' /\ Copying' /\ Unsent'
  BY <1>1, AtRest
<1> QED BY <1>1, <1>4, <1>5, <1>6, <1>7, <1>8, <1>9 DEF DeliveryInv, TypeInv, WorkerOK, ReceiversTold

LEMMA StutterKeeps ==
  ASSUME DeliveryInv, UNCHANGED vars PROVE DeliveryInv'
<1>1. /\ UNCHANGED <<mode, runs, received, files, worker, enabled, swept, folder, spent>>
      /\ spent \in [Troubles -> Nat] /\ enabled \subseteq Destinations /\ swept \in BOOLEAN
  BY DEF vars, DeliveryInv, TypeInv, LocalOK
<1>2. \A w \in Troubles : spent'[w] >= spent[w]
  BY <1>1
<1> QED BY <1>1, <1>2, FolderChanges

LEMMA StepsKeep ==
  DeliveryInv /\ [Next]_vars => DeliveryInv'
<1> SUFFICES ASSUME DeliveryInv, [Next]_vars PROVE DeliveryInv'
  OBVIOUS
<1> QED BY NoArtifactKeeps, PartialArtifactKeeps, FullArtifactKeeps, WriteReportsKeeps,
           DecideKeeps, SendMessageKeeps, CannotSendKeeps, OpenCopyKeeps, CopyKeeps,
           RecordKeeps, RetainKeeps, EditDestinationKeeps, TakeCsvKeeps, RestartKeeps,
           StutterKeeps
    DEF Next, Finish

LEMMA Invariant ==
  Spec => []DeliveryInv
<1> QED BY Begun, StepsKeep, PTL DEF Spec

(* What is recorded of deliveries is at their destinations, messages come  *)
(* in order and once unless an answer was lost, and only a crash or a      *)
(* broken connection leaves part of a file: property ReceiversTold.        *)
THEOREM Truthful ==
  Spec => []ReceiversTold
<1>1. DeliveryInv => ReceiversTold
  BY DEF DeliveryInv
<1> QED BY <1>1, Invariant, PTL

(* Types of the state, of the worker by phase: property TypeOK.            *)
THEOREM Typed ==
  Spec => []TypeOK
<1>1. DeliveryInv => TypeOK
  <2> SUFFICES ASSUME DeliveryInv PROVE TypeOK
    OBVIOUS
  <2> USE DEF DeliveryInv, TypeInv
  <2>1. ASSUME NEW r \in DOMAIN runs
        PROVE  /\ runs[r].status \in {"running", "completed", "partial", "failed"}
               /\ runs[r].csv \in Names \cup {None} /\ runs[r].extra \subseteq FileNames
               /\ DOMAIN runs[r].results \subseteq Destinations
               /\ Range(runs[r].results) \subseteq BOOLEAN
    <3>1. runs[r] \in RunType
      BY DEF LocalOK
    <3>2. runs[r].results \in Results
      BY <3>1 DEF RunType
    <3>3. PICK D \in SUBSET Destinations : runs[r].results \in [D -> BOOLEAN]
      BY <3>2 DEF Results
    <3>4. DOMAIN runs[r].results \subseteq Destinations /\ Range(runs[r].results) \subseteq BOOLEAN
      BY <3>3 DEF Range
    <3> QED BY <3>1, <3>4 DEF RunType
  <2>2. DOMAIN folder \subseteq FileNames /\ Range(folder) \subseteq DOMAIN runs
    BY DEF LocalOK, Range
  <2>3. ASSUME NEW d \in Destinations
        PROVE  /\ DOMAIN files[d] \subseteq FileNames
               /\ Range(files[d]) \subseteq [run : DOMAIN runs, whole : BOOLEAN]
               /\ DOMAIN received[d] \subseteq (DOMAIN runs) \X (FileNames \cup {None})
    BY DEF RemoteOK, Range
  <2>4. /\ worker.pc \in {"idle", "report", "decide", "send", "copy", "retain"}
        /\ worker.pc \in {"send", "copy"} => worker.attempt \in 1 .. Attempts
    BY Phases DEF Sender
  <2> QED BY <2>1, <2>2, <2>3, <2>4 DEF TypeOK, LocalOK
<1> QED BY <1>1, Invariant, PTL

-----------------------------------------------------------------------------
(* Retention *)

(* Runs of a CSV among the first n that retention keeps.                   *)
LatestIn(H, n) == {r \in H : Cardinality(H \cap (r .. n)) <= Retention}
ListedOf(run) == {File(run.csv, "csv")} \cup run.extra

(* The files of the run whose reports are being made.                      *)
CsvFiles(name) == {File(name, "csv"), File(name, "json")}
Made == IF worker.pc = "report" THEN CsvFiles(worker.name) ELSE {}

(* What makes RetentionExact inductive: a run that has its CSV written but *)
(* is not recorded with it; every file belongs to a run, unless the        *)
(* process stopped before that was recorded; with names of their own the   *)
(* files of a run are no other's, and those of the latest are there;       *)
(* retention is the last thing done.                                       *)
Unrecorded == worker.pc = "report" => runs[Current].csv = None
Owned ==
  spent.crashes = 0 => \A f \in DOMAIN folder : f \in Made \/ \E r \in Holding : f \in Listed(r)
OwnNames ==
  mode.unique =>
    /\ \A r \in Holding : \A f \in Listed(r) : f.name.of = r
    /\ \A f \in Made : f.name.of = Current
    /\ \A f \in DOMAIN folder : f.name.of = folder[f]
Present ==
  mode.unique /\ spent.taken = 0 =>
    /\ \A r \in Latest : Listed(r) \subseteq DOMAIN folder
    /\ Made \subseteq DOMAIN folder
SweptLast == swept => worker.pc = "idle" /\ OthersRemoved
KeepInv == Unrecorded /\ Owned /\ OwnNames /\ Present /\ SweptLast

(* A run that retention keeps was kept when there were fewer.              *)
LEMMA LatestGrows ==
  ASSUME NEW n \in Nat, NEW m \in Nat, n <= m, NEW H \in SUBSET (1 .. n), NEW G \in SUBSET (1 .. m),
         H \subseteq G, NEW r \in H, r \in LatestIn(G, m)
  PROVE  r \in LatestIn(H, n)
<1> DEFINE A == H \cap (r .. n)
           B == G \cap (r .. m)
<1>1. r \in Nat /\ A \subseteq B /\ B \subseteq 1 .. m
  OBVIOUS
<1>2. IsFiniteSet(1 .. m)
  BY FS_Interval
<1>3. IsFiniteSet(B)
  BY <1>1, <1>2, FS_Subset
<1>4. IsFiniteSet(A) /\ Cardinality(A) <= Cardinality(B)
  BY <1>1, <1>3, FS_Subset
<1>5. Cardinality(A) \in Nat /\ Cardinality(B) \in Nat /\ Retention \in Nat
  BY <1>3, <1>4, FS_CardinalityType, SizesAssumption
<1>6. Cardinality(B) <= Retention
  BY DEF LatestIn
<1> HIDE DEF A, B
<1>7. Cardinality(A) <= Retention
  BY <1>4, <1>5, <1>6
<1> QED BY <1>7 DEF LatestIn, A

(* Counting later ones, and counting them with the run itself.             *)
LEMMA LatestKept ==
  ASSUME NEW n \in Nat, NEW H \in SUBSET (1 .. n)
  PROVE  {r \in H : Cardinality({s \in H : s > r}) < Retention} = LatestIn(H, n)
<1> SUFFICES ASSUME NEW r \in H
             PROVE  Cardinality({s \in H : s > r}) < Retention
                      <=> Cardinality(H \cap (r .. n)) <= Retention
  BY DEF LatestIn
<1> DEFINE A == {s \in H : s > r}
           B == H \cap (r .. n)
<1>1. B = A \cup {r} /\ r \notin A /\ A \subseteq 1 .. n
  <2>1. r \in 1 .. n /\ \A s \in H : s \in 1 .. n
    OBVIOUS
  <2>2. \A s \in H : s \in r .. n <=> s \in A \cup {r}
    BY <2>1
  <2>3. A \subseteq H /\ A \subseteq 1 .. n /\ r \notin A
    <3>1. A \subseteq H
      OBVIOUS
    <3>2. r \in Int /\ ~(r > r)
      BY <2>1
    <3>3. r \notin A
      BY <3>2
    <3> HIDE DEF A
    <3> QED BY <3>1, <3>3
  <2>4. B \subseteq A \cup {r}
    BY <2>2
  <2>5. A \cup {r} \subseteq B
    BY <2>2, <2>3
  <2> QED BY <2>3, <2>4, <2>5
<1>2. IsFiniteSet(1 .. n)
  BY FS_Interval
<1>3. IsFiniteSet(A)
  BY <1>1, <1>2, FS_Subset
<1> HIDE DEF A, B
<1>4. Cardinality(B) = Cardinality(A) + 1
  BY <1>1, <1>3, FS_AddElement
<1>5. Cardinality(A) \in Nat /\ Retention \in Nat
  BY <1>3, FS_CardinalityType, SizesAssumption
<1>6. Cardinality(A) < Retention <=> Cardinality(B) <= Retention
  BY <1>4, <1>5
<1> QED BY <1>6 DEF A, B

LEMMA Listing ==
  ASSUME LocalOK
  PROVE  /\ Current \in Nat /\ DOMAIN runs = 1 .. Current /\ Holding \in SUBSET (1 .. Current)
         /\ Latest = LatestIn(Holding, Current) /\ Kept = Latest
         /\ \A r : Listed(r) = ListedOf(runs[r])
         /\ \A r \in DOMAIN runs : runs[r] \in RunType
<1>1. Current \in Nat /\ DOMAIN runs = 1 .. Current
  BY DEF LocalOK, Current
<1>2. Holding \in SUBSET (1 .. Current)
  BY <1>1 DEF Holding
<1>3. Latest = LatestIn(Holding, Current)
  BY DEF Latest, LatestIn
<1>4. Kept = LatestIn(Holding, Current)
  <2> HIDE DEF Holding, Current
  <2> QED BY <1>1, <1>2, LatestKept DEF Kept
<1>5. \A r \in DOMAIN runs : runs[r] \in RunType
  BY DEF LocalOK
<1> QED BY <1>1, <1>2, <1>3, <1>4, <1>5 DEF Listed, ListedOf

(* With names of their own the files of the latest runs are theirs.        *)
LEMMA KeepOK ==
  ASSUME KeepInv
  PROVE  RetentionExact
<1>1. ASSUME mode.unique, spent.taken = 0, NEW r \in Latest, NEW f \in Listed(r)
      PROVE  f \in DOMAIN folder /\ folder[f] = r
  <2>1. f \in DOMAIN folder /\ r \in Holding
    BY <1>1 DEF KeepInv, Present, Latest
  <2> QED BY <1>1, <2>1 DEF KeepInv, OwnNames
<1>2. OthersRemoved
  BY DEF KeepInv, SweptLast, OthersRemoved
<1> QED BY <1>1, <1>2 DEF RetentionExact, RecentKept

(* Steps after which the runs have the artifacts they had.                 *)
LEMMA QuietKeeps ==
  ASSUME DeliveryInv, KeepInv, UNCHANGED <<mode, swept>>,
         Current' = Current, DOMAIN runs' = DOMAIN runs,
         \A r \in DOMAIN runs : runs'[r].csv = runs[r].csv /\ runs'[r].extra = runs[r].extra,
         DOMAIN folder' \subseteq DOMAIN folder, \A f \in DOMAIN folder' : folder'[f] = folder[f],
         folder' = folder \/ spent'.taken # 0,
         spent'.taken = 0 => spent.taken = 0, spent'.crashes = 0 => spent.crashes = 0,
         \/ worker' = worker
         \/ /\ worker.pc # "idle" /\ worker'.pc # "report"
            /\ worker.pc # "report" \/ spent'.crashes # 0
  PROVE  KeepInv'
<1> USE DEF KeepInv
<1>1. /\ Current \in Nat /\ DOMAIN runs = 1 .. Current
      /\ worker.pc = "report" => Current \in DOMAIN runs
  BY Listing DEF DeliveryInv, TypeInv, InHand
<1>2. /\ Holding' = Holding
      /\ \A r \in DOMAIN runs : Listed(r)' = Listed(r)
  BY DEF Holding, Listed
<1>3. Latest' = Latest
  BY <1>2 DEF Latest
<1>4. /\ worker' = worker => Made' = Made
      /\ worker' # worker => Made' = {} /\ (Made = {} \/ spent'.crashes # 0)
  BY DEF Made
<1>5. Unrecorded'
  BY <1>1 DEF Unrecorded
<1>6. Owned'
  BY <1>2, <1>4 DEF Owned, Holding
<1>7. OwnNames'
  BY <1>2, <1>4 DEF OwnNames, Holding
<1>8. Present'
  BY <1>2, <1>3, <1>4 DEF Present, Latest, Holding
<1>9. SweptLast'
  <2> SUFFICES ASSUME swept PROVE worker'.pc = "idle" /\ OthersRemoved'
    BY DEF SweptLast
  <2>1. worker.pc = "idle" /\ OthersRemoved
    BY DEF SweptLast
  <2>2. OthersRemoved'
    BY <1>2, <1>3, <2>1 DEF OthersRemoved, Latest, Holding
  <2> QED BY <2>1, <2>2
<1> QED BY <1>5, <1>6, <1>7, <1>8, <1>9

(* A run gets files of its own: when it is made, and with its reports.     *)
LEMMA RunGrows ==
  ASSUME DeliveryInv, KeepInv, LocalOK', UNCHANGED mode, ~swept',
         spent'.taken = 0 => spent.taken = 0, spent'.crashes = 0 => spent.crashes = 0,
         NEW c \in Nat, c = Current', Current <= c, c \notin Holding, c \in DOMAIN runs',
         DOMAIN runs \subseteq DOMAIN runs', \A r \in DOMAIN runs \ {c} : runs'[r] = runs[r],
         Holding \subseteq Holding', Holding' \subseteq Holding \cup {c},
         Made = {} \/ c = Current,
         NEW M, DOMAIN folder' = DOMAIN folder \cup M,
         \A f \in DOMAIN folder' :
           \/ f \in M /\ folder'[f] = c
           \/ f \in DOMAIN folder /\ folder'[f] = folder[f],
         Made' \cup (IF c \in Holding' THEN ListedOf(runs'[c]) ELSE {}) = Made \cup M,
         mode.unique => \A f \in M : f.name.of = c,
         worker'.pc = "report" => runs'[c].csv = None
  PROVE  KeepInv'
<1> USE DEF KeepInv
<1>1. /\ Current \in Nat /\ Holding \in SUBSET (1 .. Current) /\ Latest = LatestIn(Holding, Current)
      /\ \A r : Listed(r) = ListedOf(runs[r])
  BY Listing DEF DeliveryInv, TypeInv
<1>2. Holding' \in SUBSET (1 .. c)
  BY DEF LocalOK, Current, Holding
<1>3. Latest' = LatestIn(Holding', c)
  BY DEF Latest, LatestIn
<1>4. \A r : Listed(r)' = ListedOf(runs'[r])
  BY DEF Listed, ListedOf
<1>5. \A r \in Holding : Listed(r)' = Listed(r)
  BY <1>1, <1>4 DEF Holding
<1>6. \A r \in Holding : r \in Latest' => r \in Latest
  <2> DEFINE H == Holding
             G == Holding'
  <2>1. H \in SUBSET (1 .. Current) /\ G \in SUBSET (1 .. c) /\ H \subseteq G
    BY <1>1, <1>2
  <2> HIDE DEF H, G
  <2>2. \A r \in H : r \in LatestIn(G, c) => r \in LatestIn(H, Current)
    BY <1>1, <2>1, LatestGrows
  <2> QED BY <1>1, <1>3, <2>2 DEF H, G
<1>7. c \in Holding' => Listed(c)' \subseteq Made \cup M
  BY <1>4
<1>8. Unrecorded'
  BY DEF Unrecorded
<1>9. Owned'
  <2> SUFFICES ASSUME spent'.crashes = 0, NEW f \in DOMAIN folder'
               PROVE  f \in Made' \/ \E r \in Holding' : f \in Listed(r)'
    BY DEF Owned
  <2>1. f \in Made \cup M \/ \E r \in Holding : f \in Listed(r)
    BY DEF Owned
  <2>2. CASE f \in Made \cup M
    BY <1>4, <2>2
  <2>3. CASE \E r \in Holding : f \in Listed(r)
    BY <1>5, <2>3
  <2> QED BY <2>1, <2>2, <2>3
<1>10. OwnNames'
  <2> SUFFICES ASSUME mode.unique
               PROVE  /\ \A r \in Holding' : \A f \in Listed(r)' : f.name.of = r
                      /\ \A f \in Made' : f.name.of = c
                      /\ \A f \in DOMAIN folder' : f.name.of = folder'[f]
    BY DEF OwnNames
  <2>1. \A f \in Made \cup M : f.name.of = c
    BY DEF OwnNames
  <2>2. ASSUME NEW r \in Holding', NEW f \in Listed(r)' PROVE f.name.of = r
    <3>1. CASE r = c
      BY <1>7, <2>1, <2>2, <3>1
    <3>2. CASE r # c
      BY <1>5, <2>2, <3>2 DEF OwnNames
    <3> QED BY <3>1, <3>2
  <2>3. \A f \in DOMAIN folder' : f.name.of = folder'[f]
    BY <2>1 DEF OwnNames
  <2> QED BY <2>1, <2>2, <2>3
<1>11. Present'
  <2> SUFFICES ASSUME mode.unique, spent'.taken = 0
               PROVE  /\ \A r \in Latest' : Listed(r)' \subseteq DOMAIN folder'
                      /\ Made' \subseteq DOMAIN folder'
    BY DEF Present
  <2>1. Made \cup M \subseteq DOMAIN folder'
    BY DEF Present
  <2>2. ASSUME NEW r \in Latest' PROVE Listed(r)' \subseteq DOMAIN folder'
    <3>1. r \in Holding'
      BY <2>2 DEF Latest
    <3>2. CASE r = c
      BY <1>7, <2>1, <3>1, <3>2
    <3>3. CASE r # c
      <4>1. r \in Latest /\ r \in Holding
        BY <1>6, <2>2, <3>1, <3>3
      <4>2. Listed(r) \subseteq DOMAIN folder
        BY <4>1 DEF Present
      <4> QED BY <1>5, <4>1, <4>2
    <3> QED BY <3>2, <3>3
  <2> QED BY <2>1, <2>2
<1>12. SweptLast'
  BY DEF SweptLast
<1> QED BY <1>8, <1>9, <1>10, <1>11, <1>12

LEMMA NewRunKept ==
  ASSUME DeliveryInv, KeepInv, LocalOK', worker.pc = "idle", UNCHANGED <<mode, spent>>, ~swept',
         NEW run \in RunType, runs' = Append(runs, run),
         NEW M, DOMAIN folder' = DOMAIN folder \cup M,
         \A f \in DOMAIN folder' :
           \/ f \in M /\ folder'[f] = Current + 1
           \/ f \in DOMAIN folder /\ folder'[f] = folder[f],
         Made' \cup (IF run.csv # None THEN ListedOf(run) ELSE {}) = M,
         mode.unique => \A f \in M : f.name.of = Current + 1,
         worker'.pc = "report" => run.csv = None
  PROVE  KeepInv'
<1>1. /\ Current \in Nat /\ DOMAIN runs = 1 .. Current /\ Holding \in SUBSET (1 .. Current)
      /\ runs \in Seq(RunType)
  BY Listing DEF DeliveryInv, TypeInv, LocalOK
<1>2. PICK c \in Nat : c = Current + 1
  BY <1>1
<1>3. /\ Current' = c /\ DOMAIN runs' = DOMAIN runs \cup {c} /\ runs'[c] = run /\ Current < c
      /\ \A r \in DOMAIN runs : runs'[r] = runs[r]
  BY <1>1, <1>2 DEF Current
<1>4. c \notin DOMAIN runs
  BY <1>1, <1>2
<1>5. /\ Holding \subseteq Holding' /\ Holding' \subseteq Holding \cup {c}
      /\ c \in Holding' <=> run.csv # None
  BY <1>3 DEF Holding
<1>6. Made = {}
  BY DEF Made
<1>7. Made' \cup (IF c \in Holding' THEN ListedOf(runs'[c]) ELSE {}) = Made \cup M
  BY <1>3, <1>5, <1>6
<1>8. c \notin Holding /\ Current <= c
  BY <1>1, <1>2, <1>3
<1> QED BY <1>2, <1>3, <1>4, <1>5, <1>6, <1>7, <1>8, RunGrows

(* The CSV and its coverage file.                                          *)
SavedAs(new, M, r) ==
  /\ DOMAIN new = DOMAIN folder \cup M
  /\ \A f \in DOMAIN new :
       \/ f \in M /\ new[f] = r
       \/ f \in DOMAIN folder /\ new[f] = folder[f]
NamedFor(M, r) == \A f \in M : f.name.of = r

LEMMA SavedOwn ==
  ASSUME NEW r, NEW name
  PROVE  SavedAs(Saved(r, name), CsvFiles(name), r)
<1> DEFINE M == CsvFiles(name)
           new == Saved(r, name)
<1>1. new = [f \in DOMAIN folder \cup M |->
               IF f \in DOMAIN folder \ {File(name, "csv")} THEN folder[f] ELSE r]
  BY DEF Saved, CsvFiles
<1>2. File(name, "csv") \in M
  BY DEF CsvFiles
<1> HIDE DEF M, new
<1>3. ASSUME NEW f \in DOMAIN new
      PROVE  \/ f \in M /\ new[f] = r
             \/ f \in DOMAIN folder /\ new[f] = folder[f]
  <2>1. CASE f \in DOMAIN folder \ {File(name, "csv")}
    BY <1>1, <2>1
  <2>2. CASE f \notin DOMAIN folder \ {File(name, "csv")}
    <3>1. f \in M
      BY <1>1, <1>2, <2>2
    <3> QED BY <1>1, <2>2, <3>1
  <2> QED BY <2>1, <2>2
<1> QED BY <1>1, <1>3 DEF SavedAs, M, new

LEMMA CsvNamed ==
  ASSUME mode.unique, NEW r, NEW name, name = CsvName(r, TRUE) \/ name = CsvName(r, FALSE)
  PROVE  NamedFor(CsvFiles(name), r)
<1>1. name.of = r
  BY DEF CsvName, Asked
<1> QED BY <1>1 DEF NamedFor, CsvFiles, File

LEMMA ToldPhase ==
  ASSUME NEW retain, NEW given
  PROVE  /\ Told(retain).pc \in {"send", "retain", "idle"} /\ Deliver(given, retain).pc = "send"
         /\ After(retain).pc \in {"retain", "idle"}
BY DEF Told, Deliver, After, Idle

LEMMA NoArtifactKept ==
  ASSUME DeliveryInv, KeepInv, NoArtifact PROVE KeepInv'
<1> DEFINE run == Run("failed", None, {})
           noted == Noted(run)
<1>1. run \in RunType /\ run.csv = None
  BY MadeRun DEF Run
<1>2. noted \in RunType /\ noted.csv = None
  <2> HIDE DEF run
  <2> QED BY <1>1, NotedRun DEF DeliveryInv, TypeInv, Noted, RunType
<1>3. /\ LocalOK' /\ worker.pc = "idle" /\ UNCHANGED <<mode, spent, folder>> /\ ~swept'
      /\ runs' = Append(runs, noted) /\ worker' = Told(FALSE)
  BY NoArtifactKeeps DEF NoArtifact, DeliveryInv, TypeInv
<1> HIDE DEF noted
<1>4. Made' = {} /\ worker'.pc # "report"
  BY <1>3, ToldPhase DEF Made
<1>5. PICK M : M = {}
  OBVIOUS
<1>6. /\ DOMAIN folder' = DOMAIN folder \cup M
      /\ Made' \cup (IF noted.csv # None THEN ListedOf(noted) ELSE {}) = M
      /\ \A f \in DOMAIN folder' : f \in DOMAIN folder /\ folder'[f] = folder[f]
  BY <1>2, <1>3, <1>4, <1>5
<1> QED BY <1>2, <1>3, <1>4, <1>5, <1>6, NewRunKept

LEMMA PartialArtifactKept ==
  ASSUME DeliveryInv, KeepInv, PartialArtifact PROVE KeepInv'
<1>1. PICK name : name = CsvName(Current + 1, TRUE)
  OBVIOUS
<1>2. name \in Names
  <2>1. Current + 1 \in 0 .. MaxRuns
    BY Sizes DEF PartialArtifact, Current, DeliveryInv, TypeInv, LocalOK
  <2> QED BY <1>1, <2>1, CsvNames
<1> DEFINE run == Run("partial", name, {File(name, "json")})
           noted == Noted(run)
<1>3. run \in RunType /\ run.csv = name /\ run.extra = {File(name, "json")}
  <2>1. File(name, "json") \in FileNames
    BY <1>2 DEF File, FileNames
  <2> QED BY <1>2, <2>1, MadeRun DEF Run
<1>4. noted \in RunType /\ noted.csv = name /\ noted.extra = {File(name, "json")}
  <2> HIDE DEF run
  <2> QED BY <1>3, NotedRun DEF DeliveryInv, TypeInv, Noted, RunType
<1>5. /\ LocalOK /\ LocalOK' /\ worker.pc = "idle" /\ UNCHANGED <<mode, spent>> /\ ~swept'
      /\ runs' = Append(runs, noted) /\ worker' = Told(TRUE)
      /\ folder' = Saved(Current + 1, name)
  BY <1>1, PartialArtifactKeeps DEF PartialArtifact, DeliveryInv, TypeInv
<1> HIDE DEF noted, run
<1>6. PICK M : M = CsvFiles(name)
  OBVIOUS
<1>7. Made' = {} /\ worker'.pc # "report"
  BY <1>5, ToldPhase DEF Made
<1>8. Made' \cup (IF noted.csv # None THEN ListedOf(noted) ELSE {}) = M
  <2>1. noted.csv # None
    BY <1>2, <1>4, NoneAssumption
  <2> QED BY <1>4, <1>6, <1>7, <2>1 DEF ListedOf, CsvFiles
<1>9. /\ DOMAIN folder' = DOMAIN folder \cup M
      /\ \A f \in DOMAIN folder' :
           \/ f \in M /\ folder'[f] = Current + 1
           \/ f \in DOMAIN folder /\ folder'[f] = folder[f]
      /\ mode.unique => \A f \in M : f.name.of = Current + 1
  <2>1. SavedAs(folder', M, Current + 1)
    BY <1>5, <1>6, SavedOwn
  <2>2. mode.unique => NamedFor(M, Current + 1)
    BY <1>1, <1>6, CsvNamed
  <2> QED BY <2>1, <2>2 DEF SavedAs, NamedFor
<1>10. /\ LocalOK' /\ worker.pc = "idle" /\ UNCHANGED <<mode, spent>> /\ ~swept'
       /\ runs' = Append(runs, noted) /\ noted \in RunType
       /\ worker'.pc = "report" => noted.csv = None
  BY <1>4, <1>5, <1>7
<1> QED BY <1>8, <1>9, <1>10, NewRunKept

LEMMA FullArtifactKept ==
  ASSUME DeliveryInv, KeepInv, FullArtifact PROVE KeepInv'
<1>1. PICK name : name = CsvName(Current + 1, FALSE)
  OBVIOUS
<1> DEFINE run == Run("running", None, {})
<1>2. run \in RunType /\ run.csv = None
  BY MadeRun DEF Run
<1>3. /\ LocalOK /\ LocalOK' /\ worker.pc = "idle" /\ UNCHANGED <<mode, spent>> /\ ~swept'
      /\ runs' = Append(runs, run) /\ worker' = [pc |-> "report", name |-> name]
      /\ folder' = Saved(Current + 1, name)
  BY <1>1, FullArtifactKeeps DEF FullArtifact, DeliveryInv, TypeInv
<1> HIDE DEF run
<1>4. PICK M : M = CsvFiles(name)
  OBVIOUS
<1>5. Made' \cup (IF run.csv # None THEN ListedOf(run) ELSE {}) = M
  BY <1>2, <1>3, <1>4 DEF Made
<1>6. /\ DOMAIN folder' = DOMAIN folder \cup M
      /\ \A f \in DOMAIN folder' :
           \/ f \in M /\ folder'[f] = Current + 1
           \/ f \in DOMAIN folder /\ folder'[f] = folder[f]
      /\ mode.unique => \A f \in M : f.name.of = Current + 1
  <2>1. SavedAs(folder', M, Current + 1)
    BY <1>3, <1>4, SavedOwn
  <2>2. mode.unique => NamedFor(M, Current + 1)
    BY <1>1, <1>4, CsvNamed
  <2> QED BY <2>1, <2>2 DEF SavedAs, NamedFor
<1>7. /\ LocalOK' /\ worker.pc = "idle" /\ UNCHANGED <<mode, spent>> /\ ~swept'
      /\ runs' = Append(runs, run) /\ run \in RunType
      /\ worker'.pc = "report" => run.csv = None
  BY <1>2, <1>3
<1> QED BY <1>5, <1>6, <1>7, NewRunKept

(* The run in hand is recorded with its CSV, and with more files or none.  *)
LEMMA RecordedKept ==
  ASSUME DeliveryInv, KeepInv, LocalOK', worker.pc = "report", worker'.pc # "report",
         UNCHANGED <<mode, swept>>,
         spent'.taken = 0 => spent.taken = 0, spent'.crashes = 0 => spent.crashes = 0,
         NEW run \in RunType, run.csv # None, runs' = [runs EXCEPT ![Current] = run],
         NEW M, SavedAs(folder', M, Current), NamedFor(M, Current) \/ ~mode.unique,
         ListedOf(run) = CsvFiles(worker.name) \cup M
  PROVE  KeepInv'
<1>1. /\ Current \in Nat /\ DOMAIN runs = 1 .. Current /\ runs \in Seq(RunType)
      /\ Current \in DOMAIN runs
  BY Listing DEF DeliveryInv, TypeInv, LocalOK, InHand
<1>2. PICK c \in Nat : c = Current
  BY <1>1
<1>3. /\ Current' = c /\ DOMAIN runs' = DOMAIN runs /\ c \in DOMAIN runs /\ runs'[c] = run
      /\ \A r \in DOMAIN runs \ {c} : runs'[r] = runs[r]
  BY <1>1, <1>2 DEF Current
<1>4. c \notin Holding
  BY <1>2 DEF KeepInv, Unrecorded, Holding
<1>5. Holding' = Holding \cup {c}
  BY <1>3, <1>4 DEF Holding
<1>6. Made = CsvFiles(worker.name) /\ Made' = {}
  BY DEF Made
<1>7. Made' \cup (IF c \in Holding' THEN ListedOf(runs'[c]) ELSE {}) = Made \cup M
  BY <1>3, <1>5, <1>6
<1>8. ~swept'
  BY DEF KeepInv, SweptLast
<1>9. /\ DOMAIN folder' = DOMAIN folder \cup M
      /\ \A f \in DOMAIN folder' :
           \/ f \in M /\ folder'[f] = c
           \/ f \in DOMAIN folder /\ folder'[f] = folder[f]
      /\ mode.unique => \A f \in M : f.name.of = c
  BY <1>2 DEF SavedAs, NamedFor
<1>10. Current <= c
  BY <1>2
<1> QED BY <1>2, <1>3, <1>4, <1>5, <1>7, <1>8, <1>9, <1>10, RunGrows

LEMMA ReportsNamed ==
  ASSUME NEW name
  PROVE  \A f \in Range(Wanted(name)) : f.name = name
<1> DEFINE html == File(name, "html")
           pdf == File(name, "pdf")
           hs == IfWanted(name, "html")
           ps == IfWanted(name, "pdf")
           Two == {html, pdf}
<1>1. html.name = name /\ pdf.name = name /\ html \in Two /\ pdf \in Two
  BY DEF File
<1>2. (hs = <<>> \/ hs = <<html>>) /\ (ps = <<>> \/ ps = <<pdf>>)
  BY DEF IfWanted
<1>3. \A f \in Two : f.name = name
  BY <1>1
<1> HIDE DEF html, pdf, hs, ps, Two
<1>4. hs \in Seq(Two) /\ ps \in Seq(Two)
  BY <1>1, <1>2, AtMostOne
<1>5. hs \o ps \in Seq(Two)
  BY <1>4
<1>6. \A f \in Range(hs \o ps) : f \in Two
  BY <1>5 DEF Range
<1> QED BY <1>3, <1>6 DEF Wanted, hs, ps

LEMMA WriteReportsKept ==
  ASSUME DeliveryInv, KeepInv, WriteReports PROVE KeepInv'
<1>1. /\ LocalOK /\ LocalOK' /\ worker.pc = "report" /\ UNCHANGED <<mode, swept>>
      /\ spent \in [Troubles -> Nat]
  BY WriteReportsKeeps DEF WriteReports, DeliveryInv, TypeInv, LocalOK
<1> DEFINE name == worker.name
           M == Range(Wanted(name))
           json == {File(name, "json")}
<1>2. name \in Names /\ name = worker.name
  BY <1>1, Phases DEF DeliveryInv, TypeInv
<1>3. M = Range(Wanted(name))
  OBVIOUS
<1> HIDE DEF name, M
<1>4. name # None /\ M \subseteq FileNames /\ json \subseteq FileNames
      /\ (mode.unique => name.of = Current)
  <2>1. name # None
    BY <1>2, NoneAssumption
  <2>2. M \subseteq FileNames /\ json \subseteq FileNames
    BY <1>1, <1>2, <1>3, WantedFiles
  <2>3. CsvFiles(name) = Made
    BY <1>1, <1>2 DEF Made
  <2>4. mode.unique => File(name, "csv").name.of = Current
    BY <2>3 DEF KeepInv, OwnNames, CsvFiles
  <2> QED BY <2>1, <2>2, <2>4 DEF File
<1>5. CASE /\ folder' = [f \in DOMAIN folder \cup M |-> IF f \in M THEN Current ELSE folder[f]]
           /\ runs' = [runs EXCEPT ![Current] = Run("completed", name, M \cup json)]
           /\ worker' = [pc |-> "decide", given |-> <<File(name, "csv")>> \o Wanted(name)]
           /\ UNCHANGED spent
  <2> DEFINE run == Run("completed", name, M \cup json)
  <2>1. run \in RunType /\ run.csv = name /\ run.extra = M \cup json
    <3>1. M \cup json \in SUBSET FileNames
      BY <1>4
    <3> QED BY <1>2, <3>1, MadeRun DEF Run
  <2>2. runs' = [runs EXCEPT ![Current] = run]
    BY <1>5
  <2>3. ListedOf(run) = CsvFiles(name) \cup M
    BY <2>1 DEF ListedOf, CsvFiles
  <2>4. SavedAs(folder', M, Current)
    BY <1>5 DEF SavedAs
  <2>5. NamedFor(M, Current) \/ ~mode.unique
    BY <1>3, <1>4, ReportsNamed DEF NamedFor
  <2>6. worker'.pc # "report" /\ UNCHANGED spent
    BY <1>5
  <2> HIDE DEF run
  <2> QED BY <1>1, <1>2, <1>4, <2>1, <2>2, <2>3, <2>4, <2>5, <2>6, RecordedKept
<1>6. CASE /\ UNCHANGED spent \/ Meet("report")
           /\ runs' = [runs EXCEPT ![Current] = Noted(Run("failed", name, json))]
           /\ worker' = Told(TRUE) /\ UNCHANGED folder
  <2> DEFINE run == Run("failed", name, json)
             noted == Noted(run)
  <2>1. run \in RunType /\ run.csv = name /\ run.extra = json
    BY <1>2, <1>4, MadeRun DEF Run
  <2> HIDE DEF run
  <2>2. noted \in RunType /\ noted.csv = name /\ noted.extra = json
    BY <1>1, <2>1, NotedRun DEF Noted, RunType
  <2>3. runs' = [runs EXCEPT ![Current] = noted]
    BY <1>6 DEF run
  <2> HIDE DEF noted
  <2>4. PICK N : N = {}
    OBVIOUS
  <2>5. ListedOf(noted) = CsvFiles(name) \cup N
    BY <2>2, <2>4 DEF ListedOf, CsvFiles
  <2>6. SavedAs(folder', N, Current) /\ NamedFor(N, Current)
    BY <1>6, <2>4 DEF SavedAs, NamedFor
  <2>7. worker'.pc # "report"
    BY <1>6, ToldPhase
  <2>8. (spent'.taken = 0 => spent.taken = 0) /\ (spent'.crashes = 0 => spent.crashes = 0)
    <3>1. \A w \in Troubles : spent'[w] >= spent[w] /\ spent[w] \in Nat
      BY <1>1, <1>6, Met DEF Troubles
    <3> QED BY <3>1 DEF Troubles
  <2> QED BY <1>1, <1>2, <1>4, <2>2, <2>3, <2>5, <2>6, <2>7, <2>8, RecordedKept
<1>7. \/ /\ folder' = [f \in DOMAIN folder \cup M |-> IF f \in M THEN Current ELSE folder[f]]
         /\ runs' = [runs EXCEPT ![Current] = Run("completed", name, M \cup json)]
         /\ worker' = [pc |-> "decide", given |-> <<File(name, "csv")>> \o Wanted(name)]
         /\ UNCHANGED spent
      \/ /\ UNCHANGED spent \/ Meet("report")
         /\ runs' = [runs EXCEPT ![Current] = Noted(Run("failed", name, json))]
         /\ worker' = Told(TRUE) /\ UNCHANGED folder
  BY DEF WriteReports, name, M
<1> HIDE DEF json
<1> QED BY <1>5, <1>6, <1>7

LEMMA WithoutFiles ==
  ASSUME NEW S
  PROVE  /\ DOMAIN Without(folder, S) = DOMAIN folder \ S
         /\ \A f \in DOMAIN folder \ S : Without(folder, S)[f] = folder[f]
BY DEF Without, Restrict

(* Retention removes the files of no run it keeps.                         *)
LEMMA RetainKept ==
  ASSUME DeliveryInv, KeepInv, Retain PROVE KeepInv'
<1> USE DEF KeepInv
<1>1. /\ LocalOK /\ worker.pc = "retain" /\ worker' = Idle /\ UNCHANGED <<mode, runs>>
      /\ spent \in [Troubles -> Nat] /\ ~swept
  BY DEF Retain, DeliveryInv, TypeInv, LocalOK, SweptLast
<1>2. /\ \A r : Listed(r)' = Listed(r)
      /\ Holding' = Holding /\ Latest' = Latest /\ Kept = Latest
      /\ Made = {} /\ Made' = {} /\ worker'.pc = "idle"
  BY <1>1, Listing DEF Listed, Holding, Latest, Current, Made, Idle
<1>3. \A w \in Troubles : spent'[w] >= spent[w] /\ spent[w] \in Nat /\ spent'[w] \in Nat
  BY <1>1, Met DEF Retain, Troubles
<1>4. (spent'.taken = 0 => spent.taken = 0) /\ (spent'.crashes = 0 => spent.crashes = 0)
  BY <1>3 DEF Troubles
<1>5. /\ DOMAIN folder' \subseteq DOMAIN folder /\ \A f \in DOMAIN folder' : folder'[f] = folder[f]
      /\ DOMAIN folder \ DOMAIN folder' \subseteq Outdated
      /\ swept' => DOMAIN folder' \cap Outdated = {}
  <2>1. CASE folder' = Without(folder, Outdated)
    <3>1. /\ DOMAIN Without(folder, Outdated) = DOMAIN folder \ Outdated
          /\ \A f \in DOMAIN folder \ Outdated : Without(folder, Outdated)[f] = folder[f]
      BY WithoutFiles
    <3> QED BY <2>1, <3>1
  <2>2. ASSUME NEW g, folder' = Without(folder, Outdated \ {g}), ~swept'
        PROVE  /\ DOMAIN folder' \subseteq DOMAIN folder
               /\ \A f \in DOMAIN folder' : folder'[f] = folder[f]
               /\ DOMAIN folder \ DOMAIN folder' \subseteq Outdated
    <3> DEFINE rest == Outdated \ {g}
    <3> HIDE DEF rest
    <3>1. /\ DOMAIN Without(folder, rest) = DOMAIN folder \ rest
          /\ \A f \in DOMAIN folder \ rest : Without(folder, rest)[f] = folder[f]
      BY WithoutFiles
    <3>2. rest \subseteq Outdated /\ folder' = Without(folder, rest)
      BY <2>2 DEF rest
    <3> QED BY <3>1, <3>2
  <2>3. \/ folder' = Without(folder, Outdated)
        \/ ~swept' /\ \E f \in Outdated : folder' = Without(folder, Outdated \ {f})
    BY <1>1 DEF Retain
  <2> QED BY <2>1, <2>2, <2>3
<1>6. \A f : f \in Outdated <=>
        f \in DOMAIN folder /\ \E r \in Holding \ Latest : f \in Listed(r)
  BY <1>2 DEF Outdated
<1>7. Unrecorded'
  BY <1>2 DEF Unrecorded
<1>8. Owned'
  BY <1>2, <1>4, <1>5 DEF Owned
<1>9. OwnNames'
  BY <1>1, <1>2, <1>5 DEF OwnNames
<1>10. Present'
  <2> SUFFICES ASSUME mode.unique, spent'.taken = 0, NEW r \in Latest, NEW f \in Listed(r)
               PROVE  f \in DOMAIN folder'
    BY <1>1, <1>2 DEF Present
  <2>1. f \in DOMAIN folder /\ r \in Holding
    BY <1>4 DEF Present, Latest
  <2>2. f.name.of = r
    BY <2>1 DEF OwnNames
  <2>3. ASSUME NEW s \in Holding \ Latest, f \in Listed(s) PROVE FALSE
    BY <2>2, <2>3 DEF OwnNames
  <2> QED BY <1>5, <1>6, <2>1, <2>3
<1>11. SweptLast'
  <2> SUFFICES ASSUME swept', spent'.crashes = 0, NEW f \in DOMAIN folder'
               PROVE  \E r \in Latest : f \in Listed(r)
    BY <1>2 DEF SweptLast, OthersRemoved
  <2>1. \E r \in Holding : f \in Listed(r)
    BY <1>2, <1>4, <1>5 DEF Owned
  <2>2. f \in DOMAIN folder /\ f \notin Outdated
    BY <1>5
  <2> QED BY <1>6, <2>1, <2>2
<1> QED BY <1>7, <1>8, <1>9, <1>10, <1>11

(* What is sent, and how it ends.                                          *)
LEMMA SenderPhase ==
  ASSUME worker \in Sender
  PROVE  /\ Succeeded.pc \in {"send", "copy"} /\ Failed.pc \in {"send", "copy"}
         /\ [worker EXCEPT !.pc = "copy"].pc = "copy"
BY DEF Sender, Succeeded, Failed, Done

LEMMA MoreTrouble ==
  ASSUME spent \in [Troubles -> Nat],
         spent' = spent \/ \E what \in Troubles : Meet(what)
  PROVE  /\ spent'.taken = 0 => spent.taken = 0
         /\ spent'.crashes = 0 => spent.crashes = 0
<1>1. \A w \in Troubles : spent'[w] >= spent[w] /\ spent[w] \in Nat /\ spent'[w] \in Nat
  BY Met
<1> QED BY <1>1 DEF Troubles

LEMMA SendingKept ==
  ASSUME DeliveryInv, KeepInv, SendMessage \/ CannotSend \/ OpenCopy \/ Copy
  PROVE  KeepInv'
<1>1. /\ worker.pc \in {"send", "copy"} /\ UNCHANGED <<mode, runs, folder, swept>>
      /\ spent' = spent \/ \E what \in Troubles : Meet(what)
      /\ worker' \in {Succeeded, Failed, [worker EXCEPT !.pc = "copy"]}
  BY DEF SendMessage, CannotSend, OpenCopy, Copy, Broken, Unacknowledged, Sending, Troubles
<1>2. worker \in Sender /\ spent \in [Troubles -> Nat]
  BY <1>1, Phases DEF DeliveryInv, TypeInv, LocalOK
<1>3. worker'.pc # "report"
  BY <1>1, <1>2, SenderPhase
<1>4. (spent'.taken = 0 => spent.taken = 0) /\ (spent'.crashes = 0 => spent.crashes = 0)
  BY <1>1, <1>2, MoreTrouble
<1>5. Current' = Current
  BY <1>1 DEF Current
<1> QED BY <1>1, <1>3, <1>4, <1>5, QuietKeeps

LEMMA RecordKept ==
  ASSUME DeliveryInv, KeepInv, Decide \/ Record
  PROVE  KeepInv'
<1>1. /\ worker.pc \in {"decide", "send"} /\ UNCHANGED <<mode, folder, swept, spent>>
  BY DEF Decide, Record
<1>2. worker'.pc # "report"
  BY ToldPhase DEF Decide, Record
<1>3. Current \in DOMAIN runs /\ runs \in Seq(RunType) /\ runs[Current] \in RunType
  BY <1>1, Listing DEF DeliveryInv, TypeInv, LocalOK, InHand
<1>4. /\ Current' = Current /\ DOMAIN runs' = DOMAIN runs
      /\ \A r \in DOMAIN runs : runs'[r].csv = runs[r].csv /\ runs'[r].extra = runs[r].extra
  <2>1. \/ runs' = [runs EXCEPT ![Current].skipped = TRUE]
        \/ runs' = [runs EXCEPT ![Current].asked = enabled, ![Current].sent = worker.given]
        \/ runs' = [runs EXCEPT ![Current].results = worker.results]
    BY DEF Decide, Record
  <2>2. \E run : /\ runs' = [runs EXCEPT ![Current] = run]
                 /\ run.csv = runs[Current].csv /\ run.extra = runs[Current].extra
    <3> DEFINE skip == [runs[Current] EXCEPT !.skipped = TRUE]
               send == [runs[Current] EXCEPT !.asked = enabled, !.sent = worker.given]
               end  == [runs[Current] EXCEPT !.results = worker.results]
    <3>1. /\ skip.csv = runs[Current].csv /\ skip.extra = runs[Current].extra
          /\ send.csv = runs[Current].csv /\ send.extra = runs[Current].extra
          /\ end.csv = runs[Current].csv /\ end.extra = runs[Current].extra
      BY <1>3 DEF RunType
    <3>2. \/ runs' = [runs EXCEPT ![Current] = skip]
          \/ runs' = [runs EXCEPT ![Current] = send]
          \/ runs' = [runs EXCEPT ![Current] = end]
      BY <1>3, <2>1
    <3> HIDE DEF skip, send, end
    <3> QED BY <3>1, <3>2
  <2>3. PICK run : /\ runs' = [runs EXCEPT ![Current] = run]
                   /\ run.csv = runs[Current].csv /\ run.extra = runs[Current].extra
    BY <2>2
  <2>4. DOMAIN runs' = DOMAIN runs
    BY <2>3
  <2>5. Len(runs') = Len(runs)
    BY <1>3, <2>3
  <2>6. \A r \in DOMAIN runs : runs'[r].csv = runs[r].csv /\ runs'[r].extra = runs[r].extra
    BY <1>3, <2>3
  <2> QED BY <2>4, <2>5, <2>6 DEF Current
<1> QED BY <1>1, <1>2, <1>4, QuietKeeps

LEMMA OperatorKept ==
  ASSUME DeliveryInv, KeepInv, EditDestination \/ TakeCsv \/ UNCHANGED vars
  PROVE  KeepInv'
<1>1. spent \in [Troubles -> Nat]
  BY DEF DeliveryInv, TypeInv, LocalOK
<1>2. /\ UNCHANGED <<mode, swept, runs, worker>>
      /\ spent' = spent \/ \E what \in Troubles : Meet(what)
  BY DEF EditDestination, TakeCsv, vars, Troubles
<1>3. (spent'.taken = 0 => spent.taken = 0) /\ (spent'.crashes = 0 => spent.crashes = 0)
  BY <1>1, <1>2, MoreTrouble
<1>4. folder' = folder \/ spent'.taken # 0
  <2>1. TakeCsv => spent'.taken = spent.taken + 1 /\ spent.taken \in Nat
    BY <1>1, Met DEF TakeCsv, Troubles
  <2> QED BY <2>1 DEF EditDestination, vars
<1>5. DOMAIN folder' \subseteq DOMAIN folder /\ \A f \in DOMAIN folder' : folder'[f] = folder[f]
  BY DEF EditDestination, TakeCsv, Without, Restrict, vars
<1>6. Current' = Current
  BY <1>2 DEF Current
<1> QED BY <1>2, <1>3, <1>4, <1>5, <1>6, QuietKeeps

LEMMA RestartKept ==
  ASSUME DeliveryInv, KeepInv, Restart
  PROVE  KeepInv'
<1>1. /\ UNCHANGED <<mode, folder, swept>> /\ worker.pc # "idle" /\ worker'.pc # "report"
      /\ spent \in [Troubles -> Nat] /\ Meet("crashes") /\ "crashes" \in Troubles
  BY DEF Restart, Idle, DeliveryInv, TypeInv, LocalOK, Troubles
<1>2. spent'.crashes # 0
  <2>1. spent'["crashes"] = spent["crashes"] + 1 /\ spent["crashes"] \in Nat
    BY <1>1, Met
  <2> QED BY <2>1
<1>3. (spent'.taken = 0 => spent.taken = 0) /\ (spent'.crashes = 0 => spent.crashes = 0)
  BY <1>1, MoreTrouble
<1>4. LocalOK' /\ LocalOK
  BY RestartKeeps DEF DeliveryInv, TypeInv
<1>5. DOMAIN runs' = DOMAIN runs
  BY DEF Restart
<1>6. Current' = Current
  <2>1. Current \in Nat /\ DOMAIN runs = 1 .. Current
    BY <1>4, Listing
  <2>2. Current' \in Nat /\ DOMAIN runs' = 1 .. Current'
    BY <1>4 DEF LocalOK, Current
  <2> QED BY <1>5, <2>1, <2>2
<1>7. \A r \in DOMAIN runs : runs'[r].csv = runs[r].csv /\ runs'[r].extra = runs[r].extra
  <2> SUFFICES ASSUME NEW r \in DOMAIN runs
               PROVE  runs'[r].csv = runs[r].csv /\ runs'[r].extra = runs[r].extra
    OBVIOUS
  <2>1. runs[r] \in RunType
    BY <1>4, Listing
  <2>2. runs'[r] = IF runs[r].status = "running" THEN [runs[r] EXCEPT !.status = "failed"] ELSE runs[r]
    BY DEF Restart
  <2> QED BY <2>1, <2>2 DEF RunType
<1> QED BY <1>1, <1>2, <1>3, <1>5, <1>6, <1>7, QuietKeeps

LEMMA KeepBegun == Init => KeepInv
<1> SUFFICES ASSUME Init PROVE KeepInv
  OBVIOUS
<1>1. DOMAIN runs = {} /\ DOMAIN folder = {} /\ worker.pc = "idle" /\ Holding = {} /\ Made = {}
  BY DEF Init, Nothing, Idle, Holding, Made
<1>2. OthersRemoved
  BY <1>1 DEF OthersRemoved
<1> QED BY <1>1, <1>2 DEF KeepInv, Unrecorded, Owned, OwnNames, Present, SweptLast, Latest

LEMMA StepsKept ==
  ASSUME DeliveryInv, KeepInv, [Next]_vars PROVE KeepInv'
BY NoArtifactKept, PartialArtifactKept, FullArtifactKept, WriteReportsKept, RetainKept,
   SendingKept, RecordKept, OperatorKept, RestartKept
   DEF Next, Finish

(* The artifacts of as many runs as the template asks for are in the       *)
(* folder, each under the name of its run, and once retention went through *)
(* no others are, for any retention, names, reports and troubles: property *)
(* RetentionExact.                                                         *)
THEOREM Retained == Spec => []RetentionExact
<1>1. DeliveryInv /\ KeepInv /\ [Next]_vars => KeepInv'
  BY StepsKept
<1> QED BY <1>1, Invariant, KeepBegun, KeepOK, PTL DEF Spec
=============================================================================
