------------------------------- MODULE Refusals -------------------------------
(***************************************************************************)
(* Two values that the modules of the pure functions share: the outcome of *)
(* a function that raises an error, and the None of a value that was not   *)
(* reported.                                                               *)
(***************************************************************************)
EXTENDS Integers

CONSTANTS Refused,
          Unknown

\* They are no results: neither a verdict nor a figure.
ASSUME RefusalsAssumption ==
  /\ Refused # Unknown
  /\ \A v \in {Refused, Unknown} :
       /\ v \notin Int /\ v \notin BOOLEAN
       /\ v \notin {"MATERIAL_BENEFIT", "ACCEPT", "PROMOTE", "REJECT"}
=============================================================================
