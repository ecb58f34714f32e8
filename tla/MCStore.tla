------------------------------- MODULE MCStore -------------------------------
(***************************************************************************)
(* Instances of ExperimentStore for TLC.  Each cast exercises one meeting  *)
(* of operations, so that their states add up and do not multiply.         *)
(***************************************************************************)
EXTENDS ExperimentStore, TLC

CONSTANTS a1, a2, a3

Three == {a1, a2, a3}

AllCasts == {
  a1 :> {"freeze"} @@ a2 :> {"freeze"} @@ a3 :> {"refreeze", "stage"},
  a1 :> {"evidence"} @@ a2 :> {"evidence", "import"} @@ a3 :> {"import"},
  a1 :> {"refresh"} @@ a2 :> {"stage"} @@ a3 :> {"load"},
  a1 :> {"refreeze", "refresh"} @@ a2 :> {"finalize"} @@ a3 :> {"refreeze"},
  a1 :> {"index"} @@ a2 :> {"refresh"} @@ a3 :> {"stage"} }
=============================================================================
