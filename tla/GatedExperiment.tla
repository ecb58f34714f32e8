--------------------------- MODULE GatedExperiment --------------------------
(***************************************************************************)
(* One experiment, its verdict and its reruns: the gates decide on the     *)
(* evidence at hand, and an INCONCLUSIVE experiment is resumed from the    *)
(* stage the gates selected, which measures the evidence of that stage and *)
(* of the later ones again.                                                *)
(***************************************************************************)
EXTENDS GateEngine

CONSTANTS
  Tasks, Baselines, Candidates,  \* the documents considered
  MaxReruns                      \* bound of the model

ASSUME RerunAssumption == MaxReruns \in Nat

\* A baseline and a candidate result have all of their fields.
ASSUME BaselineAssumption ==
  \A b \in Baselines :
    { "fields", "model", "telemetryStable", "capture", "identity", "build", "smoke",
      "benchmark", "quality" } = DOMAIN b

ASSUME CandidateAssumption ==
  \A c \in Candidates :
    { "observed", "declared", "sourceModel", "fields", "model", "telemetryStable", "capture",
      "identity", "build", "smoke", "benchmark", "quality" } = DOMAIN c

VARIABLES task, baseline, candidate, decision, reruns

vars == << task, baseline, candidate, decision, reruns >>

Undecided == [outcome |-> "NONE", rerun |-> NoStage]

(***************************************************************************)
(* The evidence a resumed workflow produces again.  From CAPTURE_BASELINE  *)
(* on everything; later stages never touch the baseline's own benchmark,   *)
(* build or environment, only its quality, which is evaluated with the     *)
(* candidate's.                                                            *)
(***************************************************************************)
Regenerated(stage) ==
  CASE stage = CAPTURE_BASELINE ->
         [ baseline |-> DOMAIN baseline, candidate |-> DOMAIN candidate ]
    [] stage = PATCH_AND_BUILD ->
         [ baseline |-> {"quality"}, candidate |-> DOMAIN candidate ]
    [] stage = E2E_VALIDATION ->
         [ baseline |-> {"quality"}, candidate |-> {"benchmark", "quality"} ]
    [] stage = QUALITY_VALIDATION ->
         [ baseline |-> {"quality"}, candidate |-> {"quality"} ]

\* The documents that agree with doc on the fields a rerun keeps.
Reruns(documents, doc, changed) ==
  { d \in documents : \A f \in DOMAIN doc \ changed : d[f] = doc[f] }

\* A benchmark and a quality result with which no gate finds anything missing.
SoundBenchmark(result) ==
  Succeeded(result) /\ \A m \in Metrics : Known(result.series[m]) /\ Stable(result.series[m])

CompleteQuality(q) ==
  /\ Succeeded(q) /\ Known(q.correct) /\ Known(q.coordinates)
  /\ Known(q.perplexity) /\ Known(q.accuracy) /\ ReuseMatches(q)

\* What is measured again may succeed: for every task there is an experiment that
\* can be compared, and whatever document is considered, so are those that differ
\* from it in a build that succeeds, in a sound benchmark or in a complete quality.
ASSUME RenewalAssumption ==
  /\ \A t \in Tasks : \E b \in Baselines, c \in Candidates :
       Comparable(t, b, c) /\ BaselineValid(b) /\ SoundBenchmark(b.benchmark)
  /\ \A c \in Candidates :
       /\ \E d \in Reruns(Candidates, c, {"build", "smoke", "benchmark", "quality"}) :
            d.build \in Usable /\ d.smoke = TRUE
       /\ \E d \in Reruns(Candidates, c, {"benchmark"}) : SoundBenchmark(d.benchmark)
  /\ \E q \in { c.quality : c \in Candidates } :
       /\ CompleteQuality(q)
       /\ \A b \in Baselines : \E d \in Reruns(Baselines, b, {"quality"}) : d.quality = q
       /\ \A c \in Candidates : \E d \in Reruns(Candidates, c, {"quality"}) : d.quality = q

Init ==
  /\ task \in Tasks
  /\ baseline \in Baselines
  /\ candidate \in Candidates
  /\ decision = Undecided
  /\ reruns = 0

Decide ==
  /\ decision = Undecided
  /\ decision' = Evaluate(task, baseline, candidate)
  /\ UNCHANGED << task, baseline, candidate, reruns >>

Resume ==
  /\ decision.outcome = "INCONCLUSIVE"
  /\ reruns < MaxReruns
  /\ baseline' \in Reruns(Baselines, baseline, Regenerated(decision.rerun).baseline)
  /\ candidate' \in Reruns(Candidates, candidate, Regenerated(decision.rerun).candidate)
  /\ decision' = Undecided
  /\ reruns' = reruns + 1
  /\ UNCHANGED task

Next == Decide \/ Resume

Spec == Init /\ [][Next]_vars

-----------------------------------------------------------------------------
(***************************************************************************)
(* Properties.                                                             *)
(***************************************************************************)

\* Type invariant: a rejection and an acceptance name no stage to rerun, an
\* inconclusive decision one that a rerun can resume from.
TypeOK ==
  /\ task \in Tasks /\ baseline \in Baselines /\ candidate \in Candidates
  /\ decision \in {Undecided, Accept}
       \cup [outcome : {"REJECT"}, rerun : {NoStage}]
       \cup [outcome : {"INCONCLUSIVE"},
             rerun : {CAPTURE_BASELINE, PATCH_AND_BUILD,
                      E2E_VALIDATION, QUALITY_VALIDATION}]
  /\ reruns \in 0 .. MaxReruns

\* What an accepted candidate must show, said without the order of the gates:
\* every required metric improved on both sides' sound samples, in comparable
\* environments, and every required verdict and budget held.
SoundlyBetter ==
  /\ Comparable(task, baseline, candidate)
  /\ {baseline.build, candidate.build} \subseteq Usable
  /\ {baseline.smoke, candidate.smoke} = {TRUE}
  /\ BenchmarksUsable(baseline, candidate)
  /\ PerformanceMet(task, baseline, candidate)
  /\ (task.requireCorrectness \/ task.requireQuality) => Succeeded(candidate.quality)
  /\ task.requireCorrectness => candidate.quality.correct = TRUE
  /\ task.requireQuality =>
       /\ Succeeded(baseline.quality)
       /\ baseline.quality.coordinates = candidate.quality.coordinates
       /\ candidate.quality.reused =>
            candidate.quality.representation = candidate.quality.reusedRepresentation
       /\ task.perplexityBudget # NoValue =>
            PerplexityHeld(task.perplexityBudget,
                           baseline.quality.perplexity, candidate.quality.perplexity)
       /\ task.accuracyBudget # NoValue =>
            AccuracyHeld(task.accuracyBudget,
                         baseline.quality.accuracy, candidate.quality.accuracy)

\* Nothing is accepted unless it is soundly better: no early return of the
\* gates, and no requirement switched off, lets another one go unasked.
AcceptedIsSound == decision.outcome = "ACCEPT" => SoundlyBetter

\* A rejection blames the candidate alone: it is never taken on a run that
\* cannot be compared or against a baseline that is itself invalid ("candidate
\* build failed against a valid baseline").
RejectionBlamesCandidate ==
  decision.outcome = "REJECT" =>
    Comparable(task, baseline, candidate) /\ BaselineValid(baseline)

\* The early performance rejection is safe: once performance is decided against
\* the candidate, no quality result can turn the experiment into ACCEPT.
QualityCannotRescue ==
  decision # Undecided
    /\ EvaluatePerformancePreGate(task, baseline, candidate).outcome = "REJECT" =>
    \A other \in Candidates :
      Evaluate(task, baseline, [candidate EXCEPT !.quality = other.quality]).outcome
        = "REJECT"

\* Some rerun from the selected stage reaches a verdict.
RerunCanDecide ==
  LET changed == Regenerated(decision.rerun)
  IN  \E b \in Reruns(Baselines, baseline, changed.baseline),
         c \in Reruns(Candidates, candidate, changed.candidate) :
        Evaluate(task, b, c).outcome # "INCONCLUSIVE"

BaselineSound == BaselineValid(baseline) /\ SoundBenchmark(baseline.benchmark)

\* Against a sound baseline the gates select a stage early enough: whatever
\* evidence of the candidate is missing or unusable, the rerun measures it
\* again and can end in a verdict.
CandidateRerunCanDecide ==
  decision.outcome = "INCONCLUSIVE" /\ BaselineSound => RerunCanDecide

\* The same claim for any baseline, as resume_inconclusive makes it: it resumes
\* "a retryable INCONCLUSIVE workflow at its Gate-selected stage".
RerunIsRetryable == decision.outcome = "INCONCLUSIVE" => RerunCanDecide

\* What the gates decide can be relied on as soon as performance is decided:
\* a rejection is the candidate's fault and stays one.
RejectionIsJust == TypeOK /\ RejectionBlamesCandidate /\ QualityCannotRescue
=============================================================================
