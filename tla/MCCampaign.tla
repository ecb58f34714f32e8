------------------------------ MODULE MCCampaign ------------------------------
(***************************************************************************)
(* An instance of Campaign for TLC: two strategies that run in the reverse *)
(* of the order in which the plan lists their candidates.                  *)
(***************************************************************************)
EXTENDS Campaign

CONSTANTS k1, k2

TwoControllers == {k1, k2}
ShapesThenMixed == <<"shape_kernel", "mixed_bit">>
ThreeCandidates == <<"mixed_bit", "mixed_bit", "shape_kernel">>

Pass == [performance |-> "ACCEPT", quality |-> TRUE]
Unpaid == [performance |-> "ACCEPT", quality |-> FALSE]
Slow == [performance |-> "REJECT", quality |-> FALSE]
Noisy == [performance |-> "INCONCLUSIVE", quality |-> FALSE]

\* Rivals for one place and a companion, and every way to fail next to a pass.
SomeFindings == { <<Pass, Pass, Pass>>, <<Pass, Unpaid, Slow>>, <<Noisy, Pass, Unpaid>> }
=============================================================================
