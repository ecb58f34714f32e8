----------------------------- MODULE GateEngine -----------------------------
(***************************************************************************)
(* The gates of gates.py: the pure function from a task, its baseline and  *)
(* a candidate result to the only authoritative experiment outcome.        *)
(*                                                                         *)
(* A document is a record of the facts the gates tell apart.  Hashes, ids  *)
(* and field values are compared only for equality, NoValue standing for   *)
(* None; metrics are natural numbers.  The gates are tried in order and    *)
(* the first that does not pass decides, so each is a record of whether it *)
(* passes and of the decision it takes when it does not.                   *)
(***************************************************************************)
EXTENDS Integers, Sequences, FiniteSets, FiniteSetsExt

CONSTANTS
  NoValue,         \* None
  Metrics,         \* the metrics the task requires an improvement of
  RequiredSamples, \* task.benchmark.sample_count
  MaxVariation     \* task.environment.max_sample_cv_percent

ASSUME GateAssumption == RequiredSamples \in Nat /\ MaxVariation \in Nat

ASSUME NoValueAssumption == NoValue \notin BOOLEAN

\* The stages the gates may send an inconclusive experiment back to.
NoStage            == 0
CAPTURE_BASELINE   == 3
PATCH_AND_BUILD    == 11
E2E_VALIDATION     == 13
QUALITY_VALIDATION == 14

Usable == {"SUCCEEDED", "REUSED"}
Succeeded(result) == result # NoValue /\ result.status = "SUCCEEDED"
Known(v) == v # NoValue
Same(b, c) == Known(b) /\ Known(c) /\ b = c

Reject(ok) == [passes |-> ok, outcome |-> "REJECT", rerun |-> NoStage]
Rerun(ok, stage) == [passes |-> ok, outcome |-> "INCONCLUSIVE", rerun |-> stage]
Accept == [outcome |-> "ACCEPT", rerun |-> NoStage]

-----------------------------------------------------------------------------
(***************************************************************************)
(* Comparability of the two environments.                                  *)
(***************************************************************************)

\* A declared change of the model's representation counts only when both
\* models are known and differ, the candidate's was derived from the
\* baseline's, and the candidate run was bound to it.
RepresentationChange(baseline, candidate) ==
  /\ candidate.declared
  /\ Known(baseline.model)
  /\ candidate.model \notin {NoValue, baseline.model}
  /\ candidate.sourceModel = baseline.model
  /\ Known(candidate.identity)
  /\ candidate.identity.model = candidate.model

\* The model field, of the environment or of a run identity.
SameModel(baseline, candidate, b, c) ==
  Same(b, c) \/ (Known(b) /\ Known(c) /\ RepresentationChange(baseline, candidate))

SameIdentity(task, baseline, candidate) ==
  /\ Known(baseline.identity)
  /\ Known(candidate.identity)
  /\ SameModel(baseline, candidate, baseline.identity.model, candidate.identity.model)
  /\ Same(baseline.identity.binary, candidate.identity.binary)
  /\ task.protocol # NoValue =>
       /\ baseline.identity.protocol = task.protocol
       /\ candidate.identity.protocol = task.protocol

Comparable(task, baseline, candidate) ==
  /\ candidate.observed
  /\ Same(baseline.fields, candidate.fields)
  /\ SameModel(baseline, candidate, baseline.model, candidate.model)
  /\ task.requireTelemetry =>
       baseline.telemetryStable /\ candidate.telemetryStable
  /\ task.requireFreshCapture =>
       /\ Known(baseline.capture) /\ Known(candidate.capture)
       /\ baseline.capture # candidate.capture
  /\ (task.requireIdentity \/ Known(baseline.identity) \/ Known(candidate.identity)) =>
       SameIdentity(task, baseline, candidate)

-----------------------------------------------------------------------------
(***************************************************************************)
(* The performance gates.                                                  *)
(***************************************************************************)

BaselineValid(baseline) == baseline.build \in Usable /\ baseline.smoke = TRUE

\* Enough samples, a positive mean and little variation.
Stable(series) ==
  /\ series.samples >= RequiredSamples
  /\ series.mean > 0
  /\ series.variation <= MaxVariation

\* Both benchmarks succeeded and hold every required metric, stable.
BenchmarksUsable(baseline, candidate) ==
  \A result \in {baseline.benchmark, candidate.benchmark} :
    /\ Succeeded(result)
    /\ \A m \in Metrics : Known(result.series[m]) /\ Stable(result.series[m])

\* Improvement of at least minimum percent, in the direction that counts.
Improved(requirement, before, after) ==
  LET gain == IF requirement.maximize THEN after - before ELSE before - after
  IN  100 * gain >= requirement.minimum * before

PerformanceMet(task, baseline, candidate) ==
  \A m \in Metrics :
    Improved(task.objective[m], baseline.benchmark.series[m].mean,
                                candidate.benchmark.series[m].mean)

\* Mutant: a failed candidate build is judged before the baseline's own.
PerformanceGates_CandidateFirst(task, baseline, candidate) ==
  LET measured == BenchmarksUsable(baseline, candidate)
  IN  << Rerun(Comparable(task, baseline, candidate), CAPTURE_BASELINE),
         Reject(candidate.build \notin {"FAILED", "TIMED_OUT"}),
         Rerun(BaselineValid(baseline), PATCH_AND_BUILD),
         Rerun(candidate.build \in Usable, PATCH_AND_BUILD),
         Rerun(Known(candidate.smoke), PATCH_AND_BUILD),
         Reject(candidate.smoke = TRUE),
         Rerun(measured, E2E_VALIDATION),
         Reject(measured /\ PerformanceMet(task, baseline, candidate)) >>

\* Mutant: a candidate without a usable binary is only benchmarked again.
PerformanceGates_LateRerun(task, baseline, candidate) ==
  LET measured == BenchmarksUsable(baseline, candidate)
  IN  << Rerun(Comparable(task, baseline, candidate), CAPTURE_BASELINE),
         Rerun(BaselineValid(baseline), PATCH_AND_BUILD),
         Reject(candidate.build \notin {"FAILED", "TIMED_OUT"}),
         Rerun(candidate.build \in Usable, E2E_VALIDATION),
         Rerun(Known(candidate.smoke), PATCH_AND_BUILD),
         Reject(candidate.smoke = TRUE),
         Rerun(measured, E2E_VALIDATION),
         Reject(measured /\ PerformanceMet(task, baseline, candidate)) >>

PerformanceGates(task, baseline, candidate) ==
  LET measured == BenchmarksUsable(baseline, candidate)
  IN  << Rerun(Comparable(task, baseline, candidate), CAPTURE_BASELINE),
         Rerun(BaselineValid(baseline), PATCH_AND_BUILD),
         Reject(candidate.build \notin {"FAILED", "TIMED_OUT"}),
         Rerun(candidate.build \in Usable, PATCH_AND_BUILD),
         Rerun(Known(candidate.smoke), PATCH_AND_BUILD),
         Reject(candidate.smoke = TRUE),
         Rerun(measured, E2E_VALIDATION),
         Reject(measured /\ PerformanceMet(task, baseline, candidate)) >>

-----------------------------------------------------------------------------
(***************************************************************************)
(* The correctness and quality gates.                                      *)
(***************************************************************************)

\* Mutant: the correctness verdict must be there, but is not read.
CorrectnessGates_VerdictUnread(task, quality) ==
  IF ~task.requireCorrectness THEN << >>
  ELSE << Rerun(Succeeded(quality), QUALITY_VALIDATION),
          Rerun(Succeeded(quality) /\ Known(quality.correct), QUALITY_VALIDATION) >>

CorrectnessGates(task, quality) ==
  IF ~task.requireCorrectness THEN << >>
  ELSE << Rerun(Succeeded(quality), QUALITY_VALIDATION),
          Rerun(Succeeded(quality) /\ Known(quality.correct), QUALITY_VALIDATION),
          Reject(Succeeded(quality) /\ quality.correct = TRUE) >>

\* A result measured on another representation cannot be reused.
ReuseMatches(quality) ==
  quality.reused => Same(quality.representation, quality.reusedRepresentation)

\* A budget of b percent, or of b percentage points for an accuracy.
PerplexityHeld(budget, before, after) == 100 * (after - before) <= budget * before
AccuracyHeld(budget, before, after) == before - after <= budget

\* One perplexity budget and one accuracy budget, either of which may be unset.
QualityGates(task, before, after) ==
  LET both == Succeeded(before) /\ Succeeded(after)
      ppl == both /\ Known(before.perplexity) /\ Known(after.perplexity)
      acc == both /\ Known(before.accuracy) /\ Known(after.accuracy)
  IN  IF ~task.requireQuality
      THEN << Rerun(task.requireCorrectness => Succeeded(after), QUALITY_VALIDATION) >>
      ELSE << Rerun(Succeeded(after), QUALITY_VALIDATION),
              Rerun(both, QUALITY_VALIDATION),
              Rerun(both /\ ReuseMatches(after), QUALITY_VALIDATION),
              Rerun(both /\ Same(before.coordinates, after.coordinates),
                    QUALITY_VALIDATION),
              Rerun(Known(task.perplexityBudget) => ppl, QUALITY_VALIDATION),
              Reject(Known(task.perplexityBudget) => ppl /\
                       PerplexityHeld(task.perplexityBudget,
                                      before.perplexity, after.perplexity)),
              Rerun(Known(task.accuracyBudget) => acc, QUALITY_VALIDATION),
              Reject(Known(task.accuracyBudget) => acc /\
                       AccuracyHeld(task.accuracyBudget,
                                    before.accuracy, after.accuracy)) >>

-----------------------------------------------------------------------------
(***************************************************************************)
(* Decisions.                                                              *)
(***************************************************************************)

\* The decision of the first gate that does not pass.
FirstFailure(gates) ==
  LET failing == { i \in DOMAIN gates : ~gates[i].passes }
  IN  IF failing = {} THEN Accept
      ELSE LET gate == gates[Min(failing)]
           IN  [outcome |-> gate.outcome, rerun |-> gate.rerun]

EvaluatePerformancePreGate(task, baseline, candidate) ==
  FirstFailure(PerformanceGates(task, baseline, candidate))

Evaluate(task, baseline, candidate) ==
  LET performance == EvaluatePerformancePreGate(task, baseline, candidate)
  IN  IF performance.outcome # "ACCEPT" THEN performance
      ELSE FirstFailure(CorrectnessGates(task, candidate.quality)
                          \o QualityGates(task, baseline.quality, candidate.quality))
=============================================================================
