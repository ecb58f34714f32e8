--------------------------- MODULE WorkflowEngine ---------------------------
(***************************************************************************)
(* The deterministic optimization state machine of workflow.py, with the   *)
(* persisted WorkflowRecord of models.py as its state.                     *)
(*                                                                         *)
(* Each action is one successful call of an engine method followed by the  *)
(* caller's save of the record it returns.  A call that raises returns no  *)
(* record, so it is no step at all: its conditions are the guards.         *)
(***************************************************************************)
EXTENDS Naturals, Sequences, FiniteSets

CONSTANTS
  MaxCompletions,  \* bound of the model: length of the completion history
  MaxReruns        \* bound of the model: number of resumed workflows

ASSUME BoundsAssumption == MaxCompletions \in Nat /\ MaxReruns \in Nat

(***************************************************************************)
(* The fifteen stages, numbered in the order of the WorkflowStage enum.    *)
(***************************************************************************)
CREATE_TASK         == 1
INSPECT_TARGET      == 2
CAPTURE_BASELINE    == 3
DECOMPOSE_E2E       == 4
BUILD_EXECUTION_MAP == 5
DISCOVER_HOTSPOTS   == 6
CLASSIFY_BOTTLENECK == 7
ANALYZE_LIMIT       == 8
GENERATE_HYPOTHESIS == 9
CREATE_EXPERIMENT   == 10
PATCH_AND_BUILD     == 11
MICROBENCH          == 12
E2E_VALIDATION      == 13
QUALITY_VALIDATION  == 14
DECIDE              == 15

WorkflowStage == 1 .. 15
Outcome == {"ACCEPT", "REJECT", "INCONCLUSIVE"}
NoStage == 0        \* rerun_from_stage is None
NoOutcome == "NONE" \* the completion is not one of DECIDE

NoDecision == [outcome |-> NoOutcome, rerun |-> NoStage]

(***************************************************************************)
(* The stages the gates name when they ask for a rerun: GateEngine, and    *)
(* the two blocked-profile decisions of the vLLM workflow.                 *)
(***************************************************************************)
RerunStages ==
  { CAPTURE_BASELINE, DISCOVER_HOTSPOTS, PATCH_AND_BUILD,
    E2E_VALIDATION, QUALITY_VALIDATION }

GateDecision ==
  [outcome : {"ACCEPT", "REJECT"}, rerun : {NoStage}]
    \cup [outcome : {"INCONCLUSIVE"}, rerun : RerunStages]

(***************************************************************************)
(* What each stage must hand over before it may close, as sets of keys.    *)
(***************************************************************************)
STAGE_REQUIREMENTS ==
  [ s \in WorkflowStage |->
      CASE s = CREATE_TASK         -> {"task"}
        [] s = INSPECT_TARGET      -> {"inspection"}
        [] s = CAPTURE_BASELINE    -> {"baseline"}
        [] s = DECOMPOSE_E2E       -> {"decomposition"}
        [] s = BUILD_EXECUTION_MAP -> {"execution_map"}
        [] s = DISCOVER_HOTSPOTS   -> {"kernel_evidence"}
        [] s = CLASSIFY_BOTTLENECK -> {"agent_decision", "bottleneck_assessment"}
        [] s = ANALYZE_LIMIT       -> {"agent_decision", "limit_estimate"}
        [] s = GENERATE_HYPOTHESIS -> {"agent_decision", "hypothesis"}
        [] s = CREATE_EXPERIMENT   -> {"agent_decision", "experiment_spec"}
        [] s = PATCH_AND_BUILD     -> {"build_result"}
        [] s = MICROBENCH          -> {"microbenchmark_result"}
        [] s = E2E_VALIDATION      -> {"e2e_result"}
        [] s = QUALITY_VALIDATION  -> {"quality_result"}
        [] s = DECIDE              -> {"gate_decision"} ]

\* Evidence a caller may hold: the whole of some stage's, or an agent decision
\* that lacks the document its stage asks for.
EvidenceOffers ==
  { STAGE_REQUIREMENTS[s] : s \in WorkflowStage } \cup { {"agent_decision"} }

DeeperProfileStages == { CLASSIFY_BOTTLENECK, ANALYZE_LIMIT, GENERATE_HYPOTHESIS }

\* Mutant: a deeper profile returns to the analysis that asked for it.
PermittedNextStages_SkipsClassification(s) ==
  { s + 1 } \cup (IF s \in DeeperProfileStages THEN { DISCOVER_HOTSPOTS } ELSE {})
            \cup (IF s = DISCOVER_HOTSPOTS THEN { ANALYZE_LIMIT } ELSE {})

\* Legal next stages of a stage other than DECIDE.
PermittedNextStages(s) ==
  { s + 1 } \cup (IF s \in DeeperProfileStages THEN { DISCOVER_HOTSPOTS } ELSE {})

-----------------------------------------------------------------------------
VARIABLES
  stage,             \* current_stage
  status,            \* ACTIVE, or the terminal status
  terminalDecision,  \* terminal_decision, NoDecision for None
  completions,       \* the closed stages, in order, with DECIDE's outcome
  experimentCount,   \* experiment_count
  rerunCount         \* rerun_count

vars == << stage, status, terminalDecision, completions,
           experimentCount, rerunCount >>

StageCompletion == [stage : WorkflowStage, outcome : Outcome \cup {NoOutcome}]

Completed(s) == [stage |-> s, outcome |-> NoOutcome]
Decided(o) == [stage |-> DECIDE, outcome |-> o]

StatusOf(outcome) ==
  [ ACCEPT       |-> "ACCEPTED",
    REJECT       |-> "REJECTED",
    INCONCLUSIVE |-> "INCONCLUSIVE" ][outcome]

Init ==
  /\ stage = CREATE_TASK
  /\ status = "ACTIVE"
  /\ terminalDecision = NoDecision
  /\ completions = << >>
  /\ experimentCount = 0
  /\ rerunCount = 0

(***************************************************************************)
(* complete_stage for a stage other than DECIDE, with the next stage the   *)
(* caller asks for (the first permitted one when it asks for none).        *)
(***************************************************************************)
CompleteStage(offer, next) ==
  /\ status = "ACTIVE"
  /\ stage # DECIDE
  /\ STAGE_REQUIREMENTS[stage] \subseteq offer
  /\ next \in PermittedNextStages(stage)
  /\ Len(completions) < MaxCompletions
  /\ completions' = Append(completions, Completed(stage))
  /\ experimentCount' =
       IF stage = CREATE_EXPERIMENT THEN experimentCount + 1 ELSE experimentCount
  /\ stage' = next
  /\ UNCHANGED << status, terminalDecision, rerunCount >>

\* Mutant: a rejected experiment is built again instead of replaced.
ApplyDecision_RebuildsRejected(decision, canContinue) ==
  IF decision.outcome = "REJECT" /\ canContinue
  THEN /\ stage' = PATCH_AND_BUILD
       /\ UNCHANGED << status, terminalDecision >>
  ELSE /\ stage' = DECIDE
       /\ status' = StatusOf(decision.outcome)
       /\ terminalDecision' = decision

(***************************************************************************)
(* _apply_decision: every verdict is terminal, except that of a rejected   *)
(* experiment whose caller still has experiments to spend.                 *)
(***************************************************************************)
ApplyDecision(decision, canContinue) ==
  IF decision.outcome = "REJECT" /\ canContinue
  THEN /\ stage' = GENERATE_HYPOTHESIS
       /\ UNCHANGED << status, terminalDecision >>
  ELSE /\ stage' = DECIDE
       /\ status' = StatusOf(decision.outcome)
       /\ terminalDecision' = decision

\* Mutant: a closed workflow can be decided again.
CompleteDecide_NoStatusGuard(offer, decision, canContinue) ==
  /\ stage = DECIDE
  /\ STAGE_REQUIREMENTS[stage] \subseteq offer
  /\ Len(completions) < MaxCompletions
  /\ completions' = Append(completions, Decided(decision.outcome))
  /\ ApplyDecision(decision, canContinue)
  /\ UNCHANGED << experimentCount, rerunCount >>

\* complete_stage at DECIDE, which needs the parsed GateDecision.
CompleteDecide(offer, decision, canContinue) ==
  /\ status = "ACTIVE"
  /\ stage = DECIDE
  /\ STAGE_REQUIREMENTS[stage] \subseteq offer
  /\ Len(completions) < MaxCompletions
  /\ completions' = Append(completions, Decided(decision.outcome))
  /\ ApplyDecision(decision, canContinue)
  /\ UNCHANGED << experimentCount, rerunCount >>

(***************************************************************************)
(* complete_performance_rejection: closes E2E_VALIDATION and DECIDE in one *)
(* call, leaving QUALITY_VALIDATION out.                                   *)
(***************************************************************************)
CompletePerformanceRejection(decision, canContinue) ==
  /\ status = "ACTIVE"
  /\ stage = E2E_VALIDATION
  /\ decision.outcome = "REJECT"
  /\ Len(completions) + 1 < MaxCompletions
  /\ completions' = Append(Append(completions, Completed(E2E_VALIDATION)),
                           Decided(decision.outcome))
  /\ ApplyDecision(decision, canContinue)
  /\ UNCHANGED << experimentCount, rerunCount >>

(***************************************************************************)
(* resume_inconclusive: a retryable verdict reopens the workflow at the    *)
(* stage its gate selected.                                                *)
(***************************************************************************)
ResumeInconclusive ==
  /\ status = "INCONCLUSIVE"
  /\ terminalDecision.rerun # NoStage
  /\ rerunCount < MaxReruns
  /\ stage' = terminalDecision.rerun
  /\ status' = "ACTIVE"
  /\ terminalDecision' = NoDecision
  /\ rerunCount' = rerunCount + 1
  /\ UNCHANGED << completions, experimentCount >>

Next ==
  \/ \E offer \in EvidenceOffers, next \in WorkflowStage : CompleteStage(offer, next)
  \/ \E offer \in EvidenceOffers, decision \in GateDecision, canContinue \in BOOLEAN :
       CompleteDecide(offer, decision, canContinue)
  \/ \E decision \in GateDecision, canContinue \in BOOLEAN :
       CompletePerformanceRejection(decision, canContinue)
  \/ ResumeInconclusive

Spec == Init /\ [][Next]_vars

-----------------------------------------------------------------------------
(***************************************************************************)
(* Properties.                                                             *)
(***************************************************************************)

\* Type invariant of the persisted record, with the rule of its validator:
\* exactly the closed records carry a decision, and the status is the one of
\* that decision.
TypeOK ==
  /\ stage \in WorkflowStage
  /\ status \in {"ACTIVE", "ACCEPTED", "REJECTED", "INCONCLUSIVE"}
  /\ terminalDecision \in GateDecision \cup {NoDecision}
  /\ completions \in Seq(StageCompletion)
  /\ experimentCount \in Nat
  /\ rerunCount \in Nat
  /\ (status = "ACTIVE") <=> (terminalDecision = NoDecision)
  /\ status # "ACTIVE" =>
       /\ stage = DECIDE
       /\ status = StatusOf(terminalDecision.outcome)

Seen(history, s) == \E i \in DOMAIN history : history[i].stage = s

\* In a history, every completion of stage s has a later completion of the
\* stage after it.  With an s that was completed at all, this says that the
\* latest evidence of s + 1 is younger than the latest evidence of s.
SupersededBySuccessor(history, s) ==
  /\ Seen(history, s)
  /\ \A i \in DOMAIN history :
       history[i].stage = s =>
         \E j \in DOMAIN history : j > i /\ history[j].stage = s + 1

\* An accepted optimization rests on one unbroken chain of evidence: whatever
\* loops, rejections and reruns came before, each stage's latest evidence is
\* older than the latest evidence of the stage after it, from the task down to
\* the decision.  In particular no stale build, benchmark or quality result of
\* an earlier experiment stands in for one of the accepted experiment.
AcceptedRestsOnFreshChain ==
  status = "ACCEPTED" =>
    \A s \in WorkflowStage \ {DECIDE} : SupersededBySuccessor(completions, s)

\* Quality evidence is skipped only for rejections: the completion just before
\* a DECIDE is QUALITY_VALIDATION, or else it is E2E_VALIDATION and the verdict
\* is REJECT ("the sole code-owned bypass of QUALITY_VALIDATION").
OnlyRejectionSkipsQuality ==
  \A i \in DOMAIN completions :
    completions[i].stage = DECIDE =>
      /\ i > 1
      /\ \/ completions[i - 1].stage = QUALITY_VALIDATION
         \/ /\ completions[i - 1].stage = E2E_VALIDATION
            /\ completions[i].outcome = "REJECT"

CompletionsOf(history, s) == { i \in DOMAIN history : history[i].stage = s }

\* No experiment is judged twice on its own account: every verdict is paid for
\* by a new experiment or by an explicit rerun of an inconclusive one.
OneVerdictPerAttempt ==
  Cardinality(CompletionsOf(completions, DECIDE)) <= experimentCount + rerunCount

\* History is never rewritten, and an accepted or rejected record is final.
HistoryIsFinal ==
  [][ /\ Len(completions) <= Len(completions')
      /\ \A i \in DOMAIN completions : completions'[i] = completions[i]
      /\ status \notin {"ACCEPTED", "REJECTED"} ]_vars

\* The record keeps its type, and each verdict in it was come by honestly: paid
\* for, and with quality evidence unless it is a rejection.
VerdictsAreHonest == TypeOK /\ OnlyRejectionSkipsQuality /\ OneVerdictPerAttempt
=============================================================================
