------------------------- MODULE MCExtractionChunks -------------------------
(***************************************************************************)
(* Instances of ExtractionChunks for TLC: where the rows are, the files an *)
(* earlier run left, and which troubles are met together.  Crowded has too *)
(* many rows at both ends of the range, one at a chunk too short to split  *)
(* and one that is split as deep as can be.                                *)
(***************************************************************************)
EXTENDS ExtractionChunks

Even == [t \in Moments |-> 1]
Crowded == [t \in Moments |-> IF t \in {0, Span - 1} THEN MaxResults + 1 ELSE 1]

With(rows, old, may) == [rows |-> rows, old |-> old, may |-> may]
Full == Name(FALSE, FALSE)
Partial == Name(TRUE, FALSE)

MCModes ==
  {With(Even, {}, {"failed", "busy"}),
   With(Even, {Full, Partial, Name(TRUE, TRUE)}, {"refused", "late", "cancelled"}),
   With(Crowded, {}, {"busy", "expired"}),
   With(Crowded, {Partial}, {"lost", "undeleted", "cancelled"}),
   With(Crowded, {Partial, Full}, {"unwritten", "manifest", "failed"})}
=============================================================================
