---------------------------- MODULE TechniqueGates ----------------------------
(***************************************************************************)
(* The gates of three optimization techniques: HIP graphs on or off        *)
(* (hip_graph_ab.py), memory reuse (memory_audit.py) and the packed        *)
(* gate/up kernels (q4rdna_tuning.py).                                     *)
(*                                                                         *)
(* Percentages are integers, and a paired series of samples is its count,  *)
(* mean change, confidence interval and variation.  Unknown is a None of   *)
(* the evidence; Refused stands for a ValueError.                          *)
(***************************************************************************)
EXTENDS Integers, Sequences, FiniteSets, FiniteSetsExt, SequencesExt, Refusals

-----------------------------------------------------------------------------
(* HIP graphs                                                              *)

RequiredMetrics == {"pp512", "tg128", "tg512"}
DecodeMetrics == {"tg128", "tg512"}

\* The order of the arms in a pair, which alternates.
ArmsOf(pair) == IF pair % 2 = 0 THEN << "off", "on" >> ELSE << "on", "off" >>

\* What a command's environment says of the graph toggle; the arms share the rest.
ToggleOf(arm) == IF arm = "on" THEN "unset" ELSE "1"

\* The commands of run_hip_graph_ab until the first that fails.
ArmCommands(pairs) ==
  FlattenSeq([p \in 1 .. pairs |->
    [i \in 1 .. 2 |-> [pair |-> p - 1, arm |-> ArmsOf(p - 1)[i], toggle |-> ToggleOf(ArmsOf(p - 1)[i])]]])

\* All of some metrics gain, and the others lose no more than is allowed.
Benefits(spec, m, gaining) ==
  /\ \A n \in gaining : m[n].delta >= spec.material /\ m[n].low > 0
  /\ \A n \in RequiredMetrics \ gaining : m[n].delta >= -spec.regression

EvaluateHipGraphAB(spec, m) ==
  IF \E n \in RequiredMetrics : m[n].count > spec.maxSamples THEN Refused
  ELSE IF \E n \in RequiredMetrics : m[n].cv > spec.maxCv THEN "INCONCLUSIVE"
  ELSE IF Benefits(spec, m, DecodeMetrics) \/ Benefits(spec, m, {"pp512"}) THEN "MATERIAL_BENEFIT"
  ELSE IF \E n \in RequiredMetrics : m[n].high < -spec.regression THEN "HARMFUL"
  ELSE IF \A n \in RequiredMetrics : m[n].low >= -spec.material /\ m[n].high <= spec.material
  THEN "NO_MATERIAL_EFFECT" ELSE "INCONCLUSIVE"

-----------------------------------------------------------------------------
(* Memory reuse                                                            *)

\* The validator of MemoryTraceEvidence on the lifetimes, by their positions.
LifetimesAreConsistent(lifetimes) ==
  /\ IsInjective([i \in DOMAIN lifetimes |-> lifetimes[i].id])
  /\ \A i \in DOMAIN lifetimes :
       lifetimes[i].reusable # Unknown =>
         \E j \in DOMAIN lifetimes \ {i} :
           /\ lifetimes[j].id = lifetimes[i].reusable
           /\ \/ lifetimes[i].last < lifetimes[j].first
              \/ lifetimes[j].last < lifetimes[i].first

\* Nothing that the audit needs is missing.
TraceSuffices(e) ==
  /\ e.missing = {} /\ e.succeeded /\ e.complete /\ e.isolated
  /\ e.coverage # Unknown /\ e.coverage >= 100

Material(ns, e, minimum) == ns # Unknown /\ 100 * ns >= minimum * e.e2e

\* Of the items that are reusable, those that cost enough.
Opportunities(items, reusable, kind, e, minimum) ==
  { [kind |-> kind, at |-> i, ns |-> items[i].ns] : i \in { j \in reusable : Material(items[j].ns, e, minimum) } }

Reallocated(e) == { i \in DOMAIN e.allocations : e.allocations[i].count > 1 /\ e.allocations[i].steady = TRUE }
Recopied(e) == { i \in DOMAIN e.copies : e.copies[i].count > 0 /\ e.copies[i].steady = TRUE }
Refetched(e) == { i \in DOMAIN e.traffic : e.traffic[i].dependent = TRUE /\ e.traffic[i].sized }

\* Of two lifetimes that name each other, the one listed first speaks for the pair.
SpeaksForPair(lifetimes, i) ==
  /\ lifetimes[i].reusable # Unknown
  /\ \A j \in 1 .. i - 1 :
       { lifetimes[j].id, lifetimes[j].reusable } # { lifetimes[i].id, lifetimes[i].reusable }

Relived(e) == { i \in DOMAIN e.lifetimes : SpeaksForPair(e.lifetimes, i) }

AuditCandidates(e, minimum) ==
  Opportunities(e.allocations, Reallocated(e), 1, e, minimum) \cup Opportunities(e.copies, Recopied(e), 2, e, minimum)
    \cup Opportunities(e.traffic, Refetched(e), 3, e, minimum) \cup Opportunities(e.lifetimes, Relived(e), 4, e, minimum)

\* The candidates that come before c: larger, or as large with a smaller id.
AheadOf(candidates, c) ==
  { d \in candidates : \/ d.ns > c.ns
                       \/ d.ns = c.ns /\ (d.kind < c.kind \/ (d.kind = c.kind /\ d.at < c.at)) }

KnownNs(items) == FoldLeft(LAMBDA sum, item : IF item.ns = Unknown THEN sum ELSE sum + item.ns, 0, items)

\* A duration that is not known counts as nothing here.
ObservedNs(e) == KnownNs(e.allocations) + KnownNs(e.copies) + KnownNs(e.traffic) + KnownNs(e.lifetimes)

AuditMemoryReuse(e, minimum) ==
  LET candidates == AuditCandidates(e, minimum)
      selected   == { c \in candidates : Cardinality(AheadOf(candidates, c)) < 2 }
      unresolved == \E i \in DOMAIN e.lifetimes : SpeaksForPair(e.lifetimes, i) /\ e.lifetimes[i].ns = Unknown
      outcome    == IF ~TraceSuffices(e) THEN "INCONCLUSIVE"
                    ELSE IF selected # {} THEN "OPPORTUNITY_FOUND"
                    ELSE IF unresolved THEN "INCONCLUSIVE"
                    ELSE IF 100 * ObservedNs(e) < minimum * e.e2e THEN "NO_ACTION"
                    ELSE "INCONCLUSIVE"
  IN  [outcome |-> outcome, opportunities |-> IF outcome = "OPPORTUNITY_FOUND" THEN selected ELSE {}]

\* What the normalized profile says becomes evidence, and what it lacks is named.
MemoryTraceFromRocm(r, e2e, isolated) ==
  LET complete == r.status = "completed"
  IN  [ succeeded |-> r.exit = 0, complete |-> complete, isolated |-> isolated, e2e |-> e2e,
        coverage |-> IF complete /\ ~r.warnings THEN 100 ELSE Unknown,
        allocations |-> r.allocations, copies |-> r.copies, traffic |-> << >>, lifetimes |-> << >>,
        missing |-> { gap \in {"allocations", "copies", "bytes"} :
                        \/ gap = "allocations" /\ r.allocationCount > 0 /\ r.allocations = << >>
                        \/ gap = "copies" /\ r.copyCount > 0 /\ r.copies = << >>
                        \/ gap = "bytes" /\ ~r.copyBytes /\ r.copies # << >> } ]

\* A patch against what it was to reduce; before and after are the two arms.
EvaluateMemoryPatch(correct, before, after, regression, reduction) ==
  LET loses(metric) == 100 * (after[metric] - before[metric]) < -regression * before[metric]
  IN  IF ~correct THEN "REJECT"
      ELSE IF before.latency = Unknown \/ before.memory = Unknown THEN "INCONCLUSIVE"
      ELSE IF \/ loses("tg128") \/ loses("tg512")
              \/ after.latency >= before.latency
              \/ after.operations >= before.operations
              \/ before.memory = 0
              \/ 100 * (before.memory - after.memory) < reduction * before.memory
      THEN "REJECT" ELSE "ACCEPT"

-----------------------------------------------------------------------------
(* Packed gate/up kernels                                                  *)

PackedMatrixBytes(format, rows, columns) ==
  IF rows % format.tileRows # 0 \/ columns % format.groupWeights # 0 THEN Refused
  ELSE (rows \div format.tileRows) * (columns \div format.groupWeights) * format.tileBytes

\* Bytes that the kernel must move and the least time they take, at bytes per
\* unit of time; improvements are in percent, rounded down.
GateUpPerformanceModel(shape, format, measured, share, bandwidth) ==
  LET one == PackedMatrixBytes(format, shape.rows, shape.columns)
      minimum == shape.matrices * one + 4 * shape.columns + 4 * shape.rows
      least == minimum \div bandwidth
      floor == IF least < measured THEN least ELSE measured
      saved == share * (measured - floor)
  IN  IF one = Refused THEN Refused
      ELSE [ bytes |-> minimum, least |-> least,
             headroom |-> (100 * (measured - floor)) \div measured,
             maximumGain |-> IF saved < 100 * measured THEN (100 * saved) \div (100 * measured - saved)
                             ELSE Unknown ]

\* Two measured arms, each with its activation, variation and mean.
ScreenArms(baseline, candidate, maxCv, gain) ==
  IF ~baseline.verified \/ ~candidate.verified THEN "INCONCLUSIVE"
  ELSE IF baseline.cv > maxCv \/ candidate.cv > maxCv THEN "INCONCLUSIVE"
  ELSE IF 100 * (candidate.mean - baseline.mean) >= gain * baseline.mean THEN "PROMOTE" ELSE "REJECT"

ScreenGateUpMapping(baseline, candidate, maxCv, gain) ==
  IF baseline.waves # 8 THEN Refused ELSE ScreenArms(baseline, candidate, maxCv, gain)

ScreenGateUpPairRuntime(baseline, candidate, maxCv, gain) ==
  IF baseline.paired \/ ~candidate.paired THEN Refused ELSE ScreenArms(baseline, candidate, maxCv, gain)

ScreenGateQ3Runtime(baseline, candidate, maxCv, gain) ==
  IF baseline.q3 \/ ~candidate.q3 THEN Refused ELSE ScreenArms(baseline, candidate, maxCv, gain)

\* The microbenchmarks: an error decides before the variation is looked at.
ScreenGateUpPairLoad(result, maxCv, gain) ==
  IF result.error # 0 THEN "REJECT"
  ELSE IF result.cv > maxCv THEN "INCONCLUSIVE"
  ELSE IF result.gain >= gain THEN "PROMOTE" ELSE "REJECT"

ScreenGateQ3Microbenchmark(result, maxCv, gain) ==
  IF result.error # 0 THEN "REJECT"
  ELSE IF result.cv > maxCv THEN "INCONCLUSIVE"
  ELSE IF result.reduction > 0 /\ result.gain >= gain THEN "PROMOTE" ELSE "REJECT"

EvaluateGateUpPairFinal(evidence, policy) ==
  IF ~evidence.profiled THEN "INCONCLUSIVE"
  ELSE IF /\ evidence.correct
          /\ evidence.tg128 >= policy.tg128 /\ evidence.tg512 >= policy.tg512
          /\ evidence.candidateNs < evidence.baselineNs
          /\ 100 * evidence.extra <= policy.vram * evidence.total
  THEN "PROMOTE" ELSE "REJECT"

-----------------------------------------------------------------------------
(***************************************************************************)
(* Properties.                                                             *)
(***************************************************************************)

\* A benefit of HIP graphs is no accident of the order of the rules: no metric is
\* then significantly worse, the opposite arms would not be a benefit too, and
\* larger changes in every metric keep it.
BenefitIsReal(spec, m, gain) ==
  LET swapped == [n \in RequiredMetrics |->
                    [m[n] EXCEPT !.delta = -m[n].delta, !.low = -m[n].high, !.high = -m[n].low]]
      better  == [n \in RequiredMetrics |->
                    [m[n] EXCEPT !.delta = @ + gain, !.low = @ + gain, !.high = @ + gain]]
  IN  EvaluateHipGraphAB(spec, m) = "MATERIAL_BENEFIT" =>
        /\ \A n \in RequiredMetrics : m[n].high >= -spec.regression
        /\ EvaluateHipGraphAB(spec, swapped) # "MATERIAL_BENEFIT"
        /\ EvaluateHipGraphAB(spec, better) = "MATERIAL_BENEFIT"

\* A drift over the session favours neither arm: their commands' positions add up
\* alike, but for one pair, and no command of the ON arm inherits the toggle.
ArmsShareDrift(pairs) ==
  LET commands == ArmCommands(pairs)
      positions(arm) == MapThenSumSet(LAMBDA i : i, { i \in DOMAIN commands : commands[i].arm = arm })
  IN  /\ positions("on") - positions("off") \in {-1, 0, 1}
      /\ \A i \in DOMAIN commands : (commands[i].toggle = "unset") = (commands[i].arm = "on")

\* The audit claims no more than its evidence: what it selects are the largest
\* costs, no action means that no known cost is material, nothing is decided from
\* an incomplete trace, and learning a cost takes no opportunity away.
AuditIsBounded(e, minimum, learned) ==
  LET audit == AuditMemoryReuse(e, minimum)
      fill(items) == [i \in DOMAIN items |-> [items[i] EXCEPT !.ns = IF @ = Unknown THEN learned ELSE @]]
      informed == [e EXCEPT !.allocations = fill(@), !.copies = fill(@), !.traffic = fill(@), !.lifetimes = fill(@)]
  IN  /\ audit.outcome = "OPPORTUNITY_FOUND" =>
           /\ Cardinality(audit.opportunities) \in {1, 2}
           /\ \A c \in AuditCandidates(e, minimum) \ audit.opportunities, s \in audit.opportunities : s.ns >= c.ns
           /\ AuditMemoryReuse(informed, minimum).outcome = "OPPORTUNITY_FOUND"
      /\ audit.outcome = "NO_ACTION" =>
           /\ TraceSuffices(e)
           /\ \A items \in {e.allocations, e.copies, e.traffic, e.lifetimes} :
                \A i \in DOMAIN items : ~Material(items[i].ns, e, minimum)

\* A profile that lost or could not size memory operations never leads to a
\* decision.
LossyProfilesDecideNothing(r, e2e, minimum) ==
  ( \/ r.status # "completed" \/ r.warnings \/ r.exit # 0
    \/ (r.copies # << >> /\ ~r.copyBytes) )
    => AuditMemoryReuse(MemoryTraceFromRocm(r, e2e, TRUE), minimum).outcome = "INCONCLUSIVE"

\* An accepted memory patch stays accepted when it is better in one respect.
BetterPatchStillPasses(before, after) ==
  LET better == { [after EXCEPT !.latency = IF @ = Unknown THEN @ ELSE @ - 1],
                  [after EXCEPT !.memory = IF @ = Unknown \/ @ = 0 THEN @ ELSE @ - 1],
                  [after EXCEPT !.tg128 = @ + 1], [after EXCEPT !.tg512 = @ + 1] }
  IN  EvaluateMemoryPatch(TRUE, before, after, 1, 5) = "ACCEPT" =>
        \A b \in better : EvaluateMemoryPatch(TRUE, before, b, 1, 5) = "ACCEPT"

\* No kernel that moves its bytes at the given bandwidth makes the whole run
\* faster than the model's maximum.
MaximumIsAMaximum(shape, format, measured, share, bandwidth, achieved) ==
  LET model == GateUpPerformanceModel(shape, format, measured, share, bandwidth)
      saved == share * (measured - achieved)
  IN  (model # Refused /\ achieved >= model.least /\ achieved <= measured) =>
        \/ model.maximumGain = Unknown
        \/ (100 * saved) \div (100 * measured - saved) <= model.maximumGain

\* The screens agree on what is better: a faster candidate is never rejected where
\* a slower one is promoted, and unstable or unverified arms decide nothing.
ScreensAreFair(baseline, candidate, faster) ==
  LET screens == { ScreenGateUpMapping(baseline, candidate, 2, 1),
                   ScreenGateUpPairRuntime(baseline, candidate, 2, 1),
                   ScreenGateQ3Runtime(baseline, candidate, 2, 2) }
      again == << ScreenGateUpMapping(baseline, [candidate EXCEPT !.mean = faster], 2, 1),
                  ScreenGateUpPairRuntime(baseline, [candidate EXCEPT !.mean = faster], 2, 1),
                  ScreenGateQ3Runtime(baseline, [candidate EXCEPT !.mean = faster], 2, 2) >>
      before == << ScreenGateUpMapping(baseline, candidate, 2, 1),
                   ScreenGateUpPairRuntime(baseline, candidate, 2, 1),
                   ScreenGateQ3Runtime(baseline, candidate, 2, 2) >>
  IN  /\ \A i \in 1 .. 3 : (faster >= candidate.mean /\ before[i] = "PROMOTE") => again[i] = "PROMOTE"
      /\ (baseline.cv > 2 \/ candidate.cv > 2 \/ ~candidate.verified) => screens \cap {"PROMOTE", "REJECT"} = {}

\* Better evidence never costs a promotion: not in a microbenchmark, where a
\* changed result is never promoted and the stricter screen promotes no more than
\* the other, and not at the final gate.
PromotionIsMonotone(result, evidence, policy) ==
  LET better == { [evidence EXCEPT !.tg128 = @ + 1], [evidence EXCEPT !.candidateNs = @ - 1],
                  [evidence EXCEPT !.extra = @ - 1] }
  IN  /\ ScreenGateQ3Microbenchmark(result, 1, 2) = "PROMOTE" =>
           /\ ScreenGateUpPairLoad(result, 1, 1) = "PROMOTE"
           /\ ScreenGateQ3Microbenchmark([result EXCEPT !.gain = @ + 1, !.cv = 0], 1, 2) = "PROMOTE"
      /\ result.error # 0 => ScreenGateUpPairLoad(result, 1, 1) = "REJECT"
      /\ EvaluateGateUpPairFinal(evidence, policy) = "PROMOTE" =>
           \A b \in better : EvaluateGateUpPairFinal(b, policy) = "PROMOTE"

=============================================================================
