--------------------- MODULE MCTrafficServiceReconcile ---------------------
(* Small instances of TrafficServiceReconcile.                             *)
EXTENDS TrafficServiceReconcile, TLC

CONSTANTS t1, t2, s1, yesterday, today

OneTarget == {t1}
TwoTargets == {t1, t2}
NoneOf == {}
OneSelector == {s1}
AnyExclusions == SUBSET OneSelector
NoExclusions == {{}}
DayKeys == {yesterday, today}
AnyMix ==
  {{"definition", "expiry", "puts", "reloads", "manual", "faults", "saves", "crashes"}}
Crashing ==
  {{"puts", "crashes"}, {"puts", "saves"}, {"saves", "crashes"},
   {"puts", "faults"}, {"faults", "expiry", "crashes"},
   {"definition", "expiry"}, {"definition", "crashes"}}
OneChange == {{"puts", "manual"}, {"reloads"}, {"definition", "expiry"}}
TargetSymmetry == Permutations(TwoTargets)

(* Where the targets start under exclusions, all of them are configured.    *)
InitAllFiltered == Init /\ (global = {} \/ Configured = Targets)
SpecAllFiltered == InitAllFiltered /\ [][Next]_vars
=============================================================================
