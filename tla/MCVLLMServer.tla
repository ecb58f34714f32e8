----------------------------- MODULE MCVLLMServer -----------------------------
(***************************************************************************)
(* An instance of VLLMServer for TLC.                                      *)
(***************************************************************************)
EXTENDS VLLMServer, TLC

CONSTANTS p1, p2, p3, d1, d2, r1, r2

Numbers == {p1, p2, p3}
TwoDrivers == {d1, d2}
TwoRequests == {r1, r2}

\* Numbers, drivers and requests are interchangeable; no temporal property is
\* checked with it.
Symmetry == Permutations(Numbers) \cup Permutations(TwoDrivers) \cup Permutations(TwoRequests)
=============================================================================
