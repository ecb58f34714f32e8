------------------------------ MODULE MCTools ------------------------------
(***************************************************************************)
(* The programs beside the workflows, each checked on its own: the first   *)
(* state chooses one, the others stay at their start.                      *)
(***************************************************************************)
EXTENDS KVCampaign, CommandRunner, QualityEvaluator, VLLMPorts, ModelSnapshot, TLC

CONSTANTS p1, p2, p3, caller

VARIABLE program

MCSpeeds == { [d \in Depths |-> 100], [d \in Depths |-> IF d = 4096 THEN 97 ELSE 105],
              [d \in Depths |-> 99] }

MCPids == {p1, p2, p3}
MCDrivers == {caller}

\* Process numbers are interchangeable; the action properties do not name them.
Symmetry == Permutations(MCPids)

ToolsInit ==
  /\ program \in {"kv", "command", "evaluator", "ports", "snapshot"}
  /\ KVInit /\ CommandInit /\ EvalInit /\ PortsInit /\ SnapInit

KV == program = "kv" /\ KVNext /\ UNCHANGED << program, cmdvars, evalvars, portvars, snapvars >>
Command == program = "command" /\ CommandNext /\ UNCHANGED << program, kvvars, evalvars, portvars, snapvars >>
Evaluator == program = "evaluator" /\ EvalNext /\ UNCHANGED << program, kvvars, cmdvars, portvars, snapvars >>
Ports == program = "ports" /\ PortsNext /\ UNCHANGED << program, kvvars, cmdvars, evalvars, snapvars >>

Snapshot == program = "snapshot" /\ SnapNext /\ UNCHANGED << program, kvvars, cmdvars, evalvars, portvars >>

ToolsNext == KV \/ Command \/ Evaluator \/ Ports \/ Snapshot

\* What a vLLM campaign measures is what its ports say it is, on the model that its
\* manifest describes.
MeasurementsAreHonest == PortsMeasureHonestly /\ SnapshotIsOfOneMoment
=============================================================================
