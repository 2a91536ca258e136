----------------------- MODULE MCExtractionAutomation -----------------------
(***************************************************************************)
(* Instances of ExtractionAutomation for TLC.                              *)
(***************************************************************************)
EXTENDS ExtractionAutomation, TLC

CONSTANTS t1, t2  \* model values: templates

Queueing == [skip |-> FALSE, runOnce |-> TRUE, notify |-> TRUE]
Skipping == [skip |-> TRUE, runOnce |-> FALSE, notify |-> FALSE]

MCQueueing == {Queueing}
MCBoth == {Queueing, Skipping}
=============================================================================
