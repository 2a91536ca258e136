---------------------------- MODULE RunLifecycle ----------------------------
(***************************************************************************)
(* What the extractor's run history promises of a queued run, whatever the *)
(* scheduler, the worker, the extractor's pages and restarts do: it waits, *)
(* runs alone and at most once, and keeps the outcome it ended with until  *)
(* the history, which keeps the newest runs, drops it.                     *)
(***************************************************************************)
CONSTANT Runs
VARIABLE life

Outcomes == {"completed", "partial", "failed", "cancelled"}
Known == {"queued", "running"} \cup Outcomes

(* A new run is queued; the history may drop an older one for it.          *)
Accept(r) ==
  /\ life[r] = "new"
  /\ \/ life' = [life EXCEPT ![r] = "queued"]
     \/ \E s \in Runs \ {r} :
          /\ life[s] \in Known
          /\ life' = [life EXCEPT ![r] = "queued", ![s] = "dropped"]

Start(r) ==
  /\ life[r] = "queued"
  /\ \A s \in Runs : life[s] # "running"
  /\ life' = [life EXCEPT ![r] = "running"]

(* A run that never started fails or is cancelled.                         *)
End(r, outcome) ==
  /\ \/ life[r] = "running"
     \/ life[r] = "queued" /\ outcome \in {"failed", "cancelled"}
  /\ life' = [life EXCEPT ![r] = outcome]

Init == life = [r \in Runs |-> "new"]
Next ==
  \E r \in Runs : Accept(r) \/ Start(r) \/ \E outcome \in Outcomes : End(r, outcome)
Spec == Init /\ [][Next]_life
=============================================================================
