------------------------ MODULE MCBlockedAccounting ------------------------
(***************************************************************************)
(* Instances of BlockedAccounting for TLC.                                 *)
(***************************************************************************)
EXTENDS BlockedAccounting

Mode(backend, hosts, may) == [backend |-> backend, hosts |-> hosts, may |-> may]

MCModes ==
  {Mode("sqlite", TRUE, {"faults", "jobs", "crashes"}),
   Mode("sqlite", TRUE, {"faults", "pressure"}),
   Mode("sqlite", FALSE, {"faults", "pressure", "crashes"}),
   Mode("memory", FALSE, {"pressure", "crashes"})}
=============================================================================
