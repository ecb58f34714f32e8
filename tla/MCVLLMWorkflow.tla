--------------------------- MODULE MCVLLMWorkflow ---------------------------
(***************************************************************************)
(* Instances of VLLMWorkflow for TLC.                                      *)
(***************************************************************************)
EXTENDS VLLMWorkflow, TLC

CONSTANTS d1, d2

OneDriver == {d1}
TwoDrivers == {d1, d2}
DriverSymmetry == Permutations(TwoDrivers)
=============================================================================
