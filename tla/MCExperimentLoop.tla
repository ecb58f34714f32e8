-------------------------- MODULE MCExperimentLoop --------------------------
(***************************************************************************)
(* Instances of ExperimentLoop for TLC.                                    *)
(***************************************************************************)
EXTENDS ExperimentLoop

CONSTANTS d1, d2

OneDriver == {d1}
TwoDrivers == {d1, d2}
TwoExperiments == 0 .. 2
OneExperiment == 0 .. 1

\* Each task exercises one path, so that their states add up and do not multiply.
Generic ==
  [hardened |-> FALSE, raw |-> FALSE, pairs |-> FALSE, deeper |-> FALSE, experiments |-> 1]
Profiled ==
  [hardened |-> TRUE, raw |-> FALSE, pairs |-> FALSE, deeper |-> FALSE, experiments |-> 1]
Deeper ==
  [hardened |-> TRUE, raw |-> TRUE, pairs |-> FALSE, deeper |-> TRUE, experiments |-> 1]
Raw ==
  [hardened |-> TRUE, raw |-> TRUE, pairs |-> TRUE, deeper |-> FALSE, experiments |-> 2]

ProfiledTask == {Profiled}
AllTasks == {Generic, Profiled, Deeper, Raw}
=============================================================================
