------------------------- MODULE MCQualityExecution -------------------------
(***************************************************************************)
(* An instance of QualityExecution for TLC.                                *)
(***************************************************************************)
EXTENDS QualityExecution

CONSTANTS c1, c2, q1

TwoCallers == {c1, c2}
OneRequest == {q1}
=============================================================================
