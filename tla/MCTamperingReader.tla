-------------------------- MODULE MCTamperingReader --------------------------
(***************************************************************************)
(* Instances of TamperingReader for TLC: where the events are and which    *)
(* troubles are met together.  Quick ones look at how the events are read: *)
(* no request has to wait, and the deadline comes at any moment.  In Paced *)
(* ones the bucket runs out and two more calls compete for it.             *)
(***************************************************************************)
EXTENDS TamperingReader

Event(at, id) == [at |-> at, id |-> id]
Spread == {Event(0, "a"), Event(1, "a"), Event(2, "a"), Event(4, "a"), Event(6, "a")}
Heap == {Event(1, "a"), Event(1, "b"), Event(3, "a")}

Quick(events, may) ==
  [events |-> events, may |-> may, most |-> 3, calls |-> 0, deadline |-> 1, burst |-> 80]
Paced(events, may) ==
  [events |-> events, may |-> may, most |-> 2, calls |-> 2, deadline |-> 5, burst |-> 7]

MCModes ==
  {Quick(Spread, {"pending", "job", "cut"}),
   Quick(Spread, {"ignored", "bare"}),
   Quick(Spread, {"busy", "job", "failed"}),
   Quick(Heap, {"ignored", "down", "cut"}),
   Quick(Heap, {"job", "unsafe"}),
   Paced({}, {"busy", "configured"}),
   Paced({Event(0, "a")}, {"busy", "pending"})}
=============================================================================
