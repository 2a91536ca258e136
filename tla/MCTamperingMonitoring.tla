----------------------- MODULE MCTamperingMonitoring -----------------------
(***************************************************************************)
(* Instances of TamperingMonitoring for TLC.                               *)
(***************************************************************************)
EXTENDS TamperingMonitoring, TLC

Mode(left, hist, may) == [left |-> left, days |-> hist, may |-> may]

MCModes ==
  {Mode("fresh", FALSE, {"faults", "crashes"}), Mode("fresh", FALSE, {"faults", "jobs"}),
   Mode("fresh", TRUE, {"faults"}), Mode("fresh", TRUE, {"crashes"}),
   Mode("untimed", FALSE, {"faults", "crashes"}),
   Mode("unfiltered", FALSE, {"faults", "crashes"})}

(* Nothing fails and nothing stops.                                       *)
MCQuiet == {Mode("fresh", TRUE, {})}

Symmetry == Permutations(Workloads)
=============================================================================
