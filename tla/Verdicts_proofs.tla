--------------------------- MODULE Verdicts_proofs ---------------------------
(***************************************************************************)
(* Proofs about what is decided from documents.  First the gates and the   *)
(* experiment they decide, for every task, baseline and candidate and any  *)
(* number of reruns: the proofs read the lists of gates once, which of     *)
(* them pass when the first failure decides, and what an acceptance, and   *)
(* the stage that a failure is sent back to, therefore rest on.            *)
(*                                                                         *)
(* Then the laws of the pure functions that MCSamples draws inputs for:    *)
(* each is the property of its module, for every input.                    *)
(***************************************************************************)
EXTENDS GatedExperiment, KVCache, MixedPrecision, TechniqueGates, ServerEvidence, DeviceObservation,
        ProfileProvenance, FiniteSetTheorems, SequenceTheorems, TLAPS

USE DEF CAPTURE_BASELINE, PATCH_AND_BUILD, E2E_VALIDATION, QUALITY_VALIDATION, NoStage

\* The least index of a gate that fails exists.
LEMMA SmallestExists ==
  ASSUME NEW S \in SUBSET (1 .. 11), S # {}
  PROVE  Min(S) \in S /\ \A i \in 1 .. 11 : i < Min(S) => i \notin S
<1>1. \E x \in S : \A y \in S : x =< y
  <2>0. PICK n \in S : n \in 1 .. 11  OBVIOUS
  <2>1. CASE 1 \in S \/ 2 \in S \/ 3 \in S  BY <2>1
  <2>2. CASE 1 \notin S /\ 2 \notin S /\ 3 \notin S /\ (4 \in S \/ 5 \in S \/ 6 \in S \/ 7 \in S)  BY <2>2
  <2>3. CASE /\ 1 \notin S /\ 2 \notin S /\ 3 \notin S /\ 4 \notin S /\ 5 \notin S /\ 6 \notin S /\ 7 \notin S
             /\ (8 \in S \/ 9 \in S \/ 10 \in S \/ 11 \in S)
        BY <2>3
  <2> QED  BY <2>0, <2>1, <2>2, <2>3
<1>2. Min(S) \in S /\ \A y \in S : Min(S) =< y
      BY <1>1 DEF Min
<1>3. \A m \in S : (\A y \in S : m =< y) => \A i \in 1 .. 11 : i < m => i \notin S
      OBVIOUS
<1> QED  BY <1>2, <1>3

\* Either every gate passes or the decision is that of one which fails with
\* every gate before it passed.
LEMMA FirstFailureDecides ==
  ASSUME NEW n \in 0 .. 11, NEW gates, DOMAIN gates = 1 .. n
  PROVE  \/ (\A i \in 1 .. n : gates[i].passes) /\ FirstFailure(gates) = Accept
         \/ \E i \in 1 .. n :
              /\ ~gates[i].passes /\ \A j \in 1 .. n : j < i => gates[j].passes
              /\ FirstFailure(gates) = [outcome |-> gates[i].outcome, rerun |-> gates[i].rerun]
<1> DEFINE failing == { i \in 1 .. n : ~gates[i].passes }
<1>1. FirstFailure(gates) =
        IF failing = {} THEN Accept
        ELSE [outcome |-> gates[Min(failing)].outcome, rerun |-> gates[Min(failing)].rerun]
      BY DEF FirstFailure
<1>2. CASE failing = {}  BY <1>1, <1>2
<1>3. CASE failing # {}
  <2>1. failing \in SUBSET (1 .. 11)  OBVIOUS
  <2>2. Min(failing) \in failing /\ \A i \in 1 .. 11 : i < Min(failing) => i \notin failing
    <3> HIDE DEF failing
    <3> QED  BY <1>3, <2>1, SmallestExists
  <2>3. PICK i \in failing : i = Min(failing)  BY <2>2
  <2>4. i \in 1 .. n /\ ~gates[i].passes /\ \A j \in 1 .. n : j < i => gates[j].passes
    <3>1. 1 .. n \subseteq 1 .. 11  OBVIOUS
    <3> QED  BY <2>2, <2>3, <3>1
  <2>5. FirstFailure(gates) = [outcome |-> gates[i].outcome, rerun |-> gates[i].rerun]
        BY <1>1, <1>3, <2>3
  <2> QED  BY <2>4, <2>5
<1> QED  BY <1>2, <1>3

\* What a gate holds, whatever it asks.
LEMMA GateRecords ==
  ASSUME NEW ok, NEW s
  PROVE  /\ Rerun(ok, s).passes = ok /\ Rerun(ok, s).outcome = "INCONCLUSIVE"
         /\ Rerun(ok, s).rerun = s
         /\ Reject(ok).passes = ok /\ Reject(ok).outcome = "REJECT"
         /\ Reject(ok).rerun = NoStage
BY SMTT(30) DEF Rerun, Reject, NoStage

\* The runs can be compared and the baseline is not at fault.
NoOneToBlame(t, b, c) == Comparable(t, b, c) /\ BaselineValid(b)

\* What passing every performance gate means.
PerformanceHeld(t, b, c) ==
  /\ NoOneToBlame(t, b, c)
  /\ c.build \in Usable /\ c.smoke = TRUE
  /\ BenchmarksUsable(b, c) /\ PerformanceMet(t, b, c)

\* The stage to rerun is early enough: what it does not measure again has passed.
StageSuffices(t, b, c, s) ==
  /\ s \in {PATCH_AND_BUILD, E2E_VALIDATION} => Comparable(t, b, c)
  /\ s = E2E_VALIDATION => c.build \in Usable /\ c.smoke = TRUE
  /\ s = QUALITY_VALIDATION => PerformanceHeld(t, b, c)

\* No performance gate misses anything.
Measured(t, b, c) ==
  NoOneToBlame(t, b, c) /\ c.build \in Usable /\ c.smoke = TRUE /\ BenchmarksUsable(b, c)

\* The performance gates reject only past the two gates that blame the baseline,
\* ask for a stage only past those of the earlier stages, and for none when
\* everything was measured.
LEMMA PreGateDecides ==
  ASSUME NEW t, NEW b, NEW c, NEW d, d = EvaluatePerformancePreGate(t, b, c)
  PROVE  \/ d = Accept /\ PerformanceHeld(t, b, c)
         \/ d = [outcome |-> "REJECT", rerun |-> NoStage] /\ NoOneToBlame(t, b, c)
         \/ \E s \in {CAPTURE_BASELINE, PATCH_AND_BUILD, E2E_VALIDATION, QUALITY_VALIDATION} :
              /\ d = [outcome |-> "INCONCLUSIVE", rerun |-> s]
              /\ StageSuffices(t, b, c, s) /\ ~Measured(t, b, c)
<1> DEFINE gates == PerformanceGates(t, b, c)
           measured == BenchmarksUsable(b, c)
<1>1. gates = << Rerun(Comparable(t, b, c), CAPTURE_BASELINE),
                 Rerun(BaselineValid(b), PATCH_AND_BUILD),
                 Reject(c.build \notin {"FAILED", "TIMED_OUT"}),
                 Rerun(c.build \in Usable, PATCH_AND_BUILD),
                 Rerun(Known(c.smoke), PATCH_AND_BUILD),
                 Reject(c.smoke = TRUE),
                 Rerun(measured, E2E_VALIDATION),
                 Reject(measured /\ PerformanceMet(t, b, c)) >>
      BY DEF PerformanceGates, CAPTURE_BASELINE, PATCH_AND_BUILD, E2E_VALIDATION,
             CAPTURE_BASELINE, PATCH_AND_BUILD, E2E_VALIDATION
<1>2. /\ DOMAIN gates = 1 .. 8
      /\ gates[1] = Rerun(Comparable(t, b, c), CAPTURE_BASELINE)
      /\ gates[2] = Rerun(BaselineValid(b), PATCH_AND_BUILD)
      /\ gates[3] = Reject(c.build \notin {"FAILED", "TIMED_OUT"})
      /\ gates[4] = Rerun(c.build \in Usable, PATCH_AND_BUILD)
      /\ gates[5] = Rerun(Known(c.smoke), PATCH_AND_BUILD)
      /\ gates[6] = Reject(c.smoke = TRUE)
      /\ gates[7] = Rerun(measured, E2E_VALIDATION)
      /\ gates[8] = Reject(measured /\ PerformanceMet(t, b, c))
  <2> HIDE DEF gates, measured
  <2> QED  BY <1>1
<1>3. /\ gates[1].passes <=> Comparable(t, b, c)
      /\ gates[2].passes <=> BaselineValid(b)
      /\ gates[4].passes <=> c.build \in Usable
      /\ gates[5].passes <=> Known(c.smoke)
      /\ gates[6].passes <=> c.smoke = TRUE
      /\ gates[7].passes <=> measured
      /\ gates[8].passes <=> measured /\ PerformanceMet(t, b, c)
      /\ \A i \in {3, 6, 8} : gates[i].outcome = "REJECT" /\ gates[i].rerun = NoStage
      /\ \A i \in {1, 2, 4, 5, 7} : gates[i].outcome = "INCONCLUSIVE"
      /\ gates[1].rerun = CAPTURE_BASELINE /\ gates[7].rerun = E2E_VALIDATION
      /\ \A i \in {2, 4, 5} : gates[i].rerun = PATCH_AND_BUILD
  <2> DEFINE comparable == Comparable(t, b, c)
             valid == BaselineValid(b)
             notFailed == c.build \notin {"FAILED", "TIMED_OUT"}
             usable == c.build \in Usable
             known == Known(c.smoke)
             smoke == c.smoke = TRUE
             met == measured /\ PerformanceMet(t, b, c)
  <2>1. /\ gates[1] = Rerun(comparable, CAPTURE_BASELINE)
        /\ gates[2] = Rerun(valid, PATCH_AND_BUILD)
        /\ gates[3] = Reject(notFailed)
        /\ gates[4] = Rerun(usable, PATCH_AND_BUILD)
        /\ gates[5] = Rerun(known, PATCH_AND_BUILD)
        /\ gates[6] = Reject(smoke)
        /\ gates[7] = Rerun(measured, E2E_VALIDATION)
        /\ gates[8] = Reject(met)
    <3> HIDE DEF gates, measured
    <3> QED  BY <1>2
  <2> HIDE DEF gates, measured, comparable, valid, notFailed, usable, known, smoke, met
  <2>2. /\ gates[1].passes = comparable /\ gates[2].passes = valid /\ gates[4].passes = usable
        /\ gates[5].passes = known /\ gates[6].passes = smoke
        /\ gates[7].passes = measured /\ gates[8].passes = met
        BY <2>1, GateRecords
  <2>3. \A i \in {3, 6, 8} : gates[i].outcome = "REJECT" /\ gates[i].rerun = NoStage
        BY <2>1, GateRecords
  <2>4. /\ \A i \in {1, 2, 4, 5, 7} : gates[i].outcome = "INCONCLUSIVE"
        /\ gates[1].rerun = CAPTURE_BASELINE /\ gates[7].rerun = E2E_VALIDATION
        /\ \A i \in {2, 4, 5} : gates[i].rerun = PATCH_AND_BUILD
        BY <2>1, GateRecords
  <2>5. /\ gates[1].passes <=> comparable
        /\ gates[2].passes <=> valid
        /\ gates[4].passes <=> usable
        /\ gates[5].passes <=> known
        /\ gates[6].passes <=> smoke
        /\ gates[7].passes <=> measured
        /\ gates[8].passes <=> met
        BY <2>2, Zenon
  <2>6. /\ gates[1].passes <=> Comparable(t, b, c)
        /\ gates[2].passes <=> BaselineValid(b)
        /\ gates[4].passes <=> c.build \in Usable
        /\ gates[5].passes <=> Known(c.smoke)
        /\ gates[6].passes <=> c.smoke = TRUE
        /\ gates[7].passes <=> measured
        /\ gates[8].passes <=> measured /\ PerformanceMet(t, b, c)
        BY <2>5, Zenon DEF comparable, valid, usable, known, smoke, met
  <2> QED  BY <2>3, <2>4, <2>6
<1>4. d = FirstFailure(gates)  BY DEF EvaluatePerformancePreGate
<1> HIDE DEF gates, measured
<1>5. CASE (\A i \in 1 .. 8 : gates[i].passes) /\ d = Accept
  <2>1. \A i \in 1 .. 8 : gates[i].passes  BY <1>5
  <2>2. Comparable(t, b, c) /\ BaselineValid(b)  BY <1>2, <1>3, <2>1
  <2>3. c.build \in Usable /\ c.smoke = TRUE  BY <1>2, <1>3, <2>1
  <2>4. measured /\ PerformanceMet(t, b, c)  BY <1>2, <1>3, <2>1
  <2> QED  BY <1>5, <2>2, <2>3, <2>4 DEF PerformanceHeld, NoOneToBlame, measured
<1>6. CASE \E i \in 1 .. 8 :
             /\ ~gates[i].passes /\ \A j \in 1 .. 8 : j < i => gates[j].passes
             /\ d = [outcome |-> gates[i].outcome, rerun |-> gates[i].rerun]
  <2>1. PICK i \in 1 .. 8 :
             /\ ~gates[i].passes /\ \A j \in 1 .. 8 : j < i => gates[j].passes
             /\ d = [outcome |-> gates[i].outcome, rerun |-> gates[i].rerun]
        BY <1>6
  <2>2. CASE i \in {1, 2, 4, 5, 7}
    <3>1. d = [outcome |-> "INCONCLUSIVE", rerun |-> gates[i].rerun]  BY <1>3, <2>1, <2>2
    <3>2. ~Measured(t, b, c)
      <4> SUFFICES ASSUME Measured(t, b, c)  PROVE FALSE
          OBVIOUS
      <4>1. Comparable(t, b, c) /\ BaselineValid(b)  BY DEF Measured, NoOneToBlame
      <4>2. c.build \in Usable /\ c.smoke = TRUE /\ measured  BY DEF Measured, measured
      <4>3. Known(c.smoke)  BY <4>2, NoValueAssumption DEF Known
      <4>4. gates[1].passes /\ gates[2].passes /\ gates[4].passes /\ gates[5].passes /\ gates[7].passes
            BY <1>3, <4>1, <4>2, <4>3
      <4> QED  BY <2>1, <2>2, <4>4
    <3>3. StageSuffices(t, b, c, gates[i].rerun)
      <4>1. CASE i = 1
        <5>1. gates[i].rerun = CAPTURE_BASELINE  BY <1>3, <4>1
        <5> QED  BY <5>1 DEF StageSuffices
      <4>2. CASE i \in {2, 4, 5}
        <5>1. gates[i].rerun = PATCH_AND_BUILD  BY <1>3, <4>2
        <5>2. gates[1].passes  BY <2>1, <4>2
        <5> QED  BY <1>3, <5>1, <5>2 DEF StageSuffices
      <4>3. CASE i = 7
        <5>1. gates[i].rerun = E2E_VALIDATION  BY <1>3, <4>3
        <5>2. gates[1].passes /\ gates[4].passes /\ gates[6].passes  BY <2>1, <4>3
        <5> QED  BY <1>3, <5>1, <5>2 DEF StageSuffices
      <4> QED  BY <2>2, <4>1, <4>2, <4>3
    <3>4. gates[i].rerun \in {CAPTURE_BASELINE, PATCH_AND_BUILD, E2E_VALIDATION, QUALITY_VALIDATION}
          BY <1>3, <2>2
    <3> QED  BY <3>1, <3>2, <3>3, <3>4
  <2>3. CASE i \in {3, 6, 8}
    <3>1. gates[1].passes /\ gates[2].passes  BY <2>1, <2>3
    <3>2. NoOneToBlame(t, b, c)  BY <1>2, <1>3, <3>1 DEF NoOneToBlame
    <3>3. gates[i].outcome = "REJECT" /\ gates[i].rerun = NoStage  BY <1>2, <1>3, <2>3
    <3> QED  BY <2>1, <3>2, <3>3
  <2> QED  BY <2>1, <2>2, <2>3
<1> QED  BY <1>2, <1>4, <1>5, <1>6, FirstFailureDecides

\* What passing every gate on the quality results means.
CorrectnessHeld(t, c) ==
  t.requireCorrectness => Succeeded(c.quality) /\ c.quality.correct = TRUE

QualityHeld(t, b, c) ==
  /\ CorrectnessHeld(t, c)
  /\ t.requireQuality =>
       /\ Succeeded(c.quality)
       /\ Succeeded(b.quality)
       /\ b.quality.coordinates = c.quality.coordinates
       /\ c.quality.reused =>
            c.quality.representation = c.quality.reusedRepresentation
       /\ t.perplexityBudget # NoValue =>
            PerplexityHeld(t.perplexityBudget, b.quality.perplexity, c.quality.perplexity)
       /\ t.accuracyBudget # NoValue =>
            AccuracyHeld(t.accuracyBudget, b.quality.accuracy, c.quality.accuracy)

\* What a gate on the quality results may decide.
DecidesOnQuality(g) ==
  \/ g.outcome = "REJECT" /\ g.rerun = NoStage
  \/ g.outcome = "INCONCLUSIVE" /\ g.rerun = QUALITY_VALIDATION

\* The gates the task asks for, and what they hold the candidate to; a complete
\* result passes all of them but those that reject.
LEMMA CorrectnessIsAsked ==
  ASSUME NEW t, NEW c, NEW gates, gates = CorrectnessGates(t, c.quality)
  PROVE  \E n \in {0, 3} :
           /\ gates \in [1 .. n -> { gates[i] : i \in 1 .. n }]
           /\ \A i \in 1 .. n : DecidesOnQuality(gates[i])
           /\ CompleteQuality(c.quality) => \A i \in 1 .. n : gates[i].passes \/ gates[i].outcome = "REJECT"
           /\ (\A i \in 1 .. n : gates[i].passes) => CorrectnessHeld(t, c)
<1> DEFINE q == c.quality
           done == Succeeded(q)
           known == done /\ Known(q.correct)
           correct == done /\ q.correct = TRUE
<1>1. CASE ~t.requireCorrectness
  <2>1. gates = << >>  BY <1>1 DEF CorrectnessGates
  <2>2. gates \in [1 .. 0 -> { gates[i] : i \in 1 .. 0 }]  BY <2>1
  <2> QED  BY <1>1, <2>2 DEF CorrectnessHeld
<1>2. CASE t.requireCorrectness
  <2> DEFINE asked == << Rerun(done, QUALITY_VALIDATION),
                         Rerun(known, QUALITY_VALIDATION), Reject(correct) >>
  <2>0. gates = IF ~t.requireCorrectness THEN << >> ELSE asked
        BY DEF CorrectnessGates, QUALITY_VALIDATION, QUALITY_VALIDATION
  <2>1. gates = asked
    <3> HIDE DEF asked
    <3> QED  BY <1>2, <2>0
  <2> HIDE DEF done, known, correct
  <2>2. /\ gates[1] = Rerun(done, QUALITY_VALIDATION)
        /\ gates[2] = Rerun(known, QUALITY_VALIDATION)
        /\ gates[3] = Reject(correct)
        BY <2>1
  <2>3. gates \in [1 .. 3 -> { gates[i] : i \in 1 .. 3 }]
    <3>1. DOMAIN gates = 1 .. 3 /\ gates = [i \in DOMAIN gates |-> gates[i]]  BY <2>1
    <3> DEFINE members == { gates[i] : i \in 1 .. 3 }
    <3>2. \A i \in 1 .. 3 : gates[i] \in members  OBVIOUS
    <3> HIDE DEF members
    <3>3. gates \in [1 .. 3 -> members]  BY <3>1, <3>2
    <3> QED  BY <3>3 DEF members
  <2>4. gates[3].passes = correct  BY <2>2, GateRecords
  <2>5. \A i \in 1 .. 3 : DecidesOnQuality(gates[i])
        BY <2>2, GateRecords DEF DecidesOnQuality
  <2>6. gates[3].passes <=> correct  BY <2>4, Zenon
  <2>9. CompleteQuality(c.quality) => \A i \in 1 .. 3 : gates[i].passes \/ gates[i].outcome = "REJECT"
    <3>1. CompleteQuality(c.quality) => done /\ known  BY DEF CompleteQuality, done, known
    <3>2. gates[1].passes = done /\ gates[2].passes = known /\ gates[3].outcome = "REJECT"
          BY <2>2, GateRecords
    <3>3. (done => gates[1].passes) /\ (known => gates[2].passes)  BY <3>2, Zenon
    <3>4. CompleteQuality(c.quality) => gates[1].passes /\ gates[2].passes /\ gates[3].outcome = "REJECT"
          BY <3>1, <3>2, <3>3, Zenon
    <3>5. \A i \in 1 .. 3 : i = 1 \/ i = 2 \/ i = 3  OBVIOUS
    <3> QED  BY <3>4, <3>5, Zenon
  <2>7. (\A i \in 1 .. 3 : gates[i].passes) => correct
    <3>1. 3 \in 1 .. 3  OBVIOUS
    <3> QED  BY <3>1, <2>6, Zenon
  <2>8. (\A i \in 1 .. 3 : gates[i].passes) => CorrectnessHeld(t, c)
        BY <2>7, Zenon DEF CorrectnessHeld, correct, done
  <2> QED  BY <2>3, <2>5, <2>8, <2>9
<1> QED  BY <1>1, <1>2

\* What a pass of the quality gates has asked for.
LEMMA QualityIsAsked ==
  ASSUME NEW t, NEW b, NEW c, NEW gates, gates = QualityGates(t, b.quality, c.quality)
  PROVE  \E n \in {1, 8} :
           /\ gates \in [1 .. n -> { gates[i] : i \in 1 .. n }]
           /\ \A i \in 1 .. n : DecidesOnQuality(gates[i])
           /\ CorrectnessHeld(t, c) /\ (\A i \in 1 .. n : gates[i].passes) => QualityHeld(t, b, c)
           /\ CompleteQuality(c.quality) /\ b.quality = c.quality =>
                \A i \in 1 .. n : gates[i].passes \/ gates[i].outcome = "REJECT"
<1> DEFINE before == b.quality
           after == c.quality
           done == Succeeded(after)
           both == Succeeded(before) /\ Succeeded(after)
           ppl == both /\ Known(before.perplexity) /\ Known(after.perplexity)
           acc == both /\ Known(before.accuracy) /\ Known(after.accuracy)
           needed == t.requireCorrectness => done
           reuse == both /\ ReuseMatches(after)
           same == both /\ Same(before.coordinates, after.coordinates)
           pplKnown == Known(t.perplexityBudget) => ppl
           pplHeld == Known(t.perplexityBudget) => ppl /\
                        PerplexityHeld(t.perplexityBudget, before.perplexity, after.perplexity)
           accKnown == Known(t.accuracyBudget) => acc
           accHeld == Known(t.accuracyBudget) => acc /\
                        AccuracyHeld(t.accuracyBudget, before.accuracy, after.accuracy)
           brief == << Rerun(needed, QUALITY_VALIDATION) >>
           asked == << Rerun(done, QUALITY_VALIDATION), Rerun(both, QUALITY_VALIDATION),
                       Rerun(reuse, QUALITY_VALIDATION), Rerun(same, QUALITY_VALIDATION),
                       Rerun(pplKnown, QUALITY_VALIDATION), Reject(pplHeld),
                       Rerun(accKnown, QUALITY_VALIDATION), Reject(accHeld) >>
<1>0. gates = IF ~t.requireQuality THEN brief ELSE asked
      BY DEF QualityGates, QUALITY_VALIDATION, QUALITY_VALIDATION
<1>1. CASE ~t.requireQuality
  <2>1. gates = << Rerun(needed, QUALITY_VALIDATION) >>
    <3> HIDE DEF asked, brief
    <3>1. gates = brief  BY <1>0, <1>1
    <3> QED  BY <3>1 DEF brief
  <2>2. CorrectnessHeld(t, c) => QualityHeld(t, b, c)  BY <1>1 DEF CorrectnessHeld, QualityHeld
  <2>5. CompleteQuality(c.quality) => needed  BY DEF CompleteQuality, needed, done
  <2> HIDE DEF needed
  <2>3. gates \in [1 .. 1 -> { gates[i] : i \in 1 .. 1 }]
    <3>1. DOMAIN gates = 1 .. 1 /\ gates = [i \in DOMAIN gates |-> gates[i]]  BY <2>1
    <3> DEFINE members == { gates[i] : i \in 1 .. 1 }
    <3>2. \A i \in 1 .. 1 : gates[i] \in members  OBVIOUS
    <3> HIDE DEF members
    <3>3. gates \in [1 .. 1 -> members]  BY <3>1, <3>2
    <3> QED  BY <3>3 DEF members
  <2>4. \A i \in 1 .. 1 : DecidesOnQuality(gates[i])
    <3>1. gates[1] = Rerun(needed, QUALITY_VALIDATION)  BY <2>1
    <3> QED  BY <3>1, GateRecords DEF DecidesOnQuality
  <2>6. needed => \A i \in 1 .. 1 : gates[i].passes \/ gates[i].outcome = "REJECT"
    <3>1. gates[1].passes = needed  BY <2>1, GateRecords
    <3>2. gates[1].passes <=> needed  BY <3>1, ZenonT(40)
    <3> QED  BY <3>2
  <2> QED  BY <2>2, <2>3, <2>4, <2>5, <2>6
<1>2. CASE t.requireQuality
  <2>1. gates = asked
    <3> HIDE DEF asked, brief
    <3> QED  BY <1>0, <1>2
  <2>10. CompleteQuality(c.quality) /\ b.quality = c.quality => done /\ both /\ reuse /\ same /\ pplKnown /\ accKnown
    <3> SUFFICES ASSUME CompleteQuality(after), before = after
                 PROVE  done /\ both /\ reuse /\ same /\ pplKnown /\ accKnown
        OBVIOUS
    <3> HIDE DEF before, after
    <3> QED  BY Zenon DEF CompleteQuality, Same, done, both, reuse, same, pplKnown, accKnown, ppl, acc
  <2> HIDE DEF done, both, reuse, same, pplKnown, pplHeld, accKnown, accHeld
  <2>2. /\ gates[1] = Rerun(done, QUALITY_VALIDATION)
        /\ gates[2] = Rerun(both, QUALITY_VALIDATION)
        /\ gates[3] = Rerun(reuse, QUALITY_VALIDATION)
        /\ gates[4] = Rerun(same, QUALITY_VALIDATION)
        /\ gates[5] = Rerun(pplKnown, QUALITY_VALIDATION)
        /\ gates[6] = Reject(pplHeld)
        /\ gates[7] = Rerun(accKnown, QUALITY_VALIDATION)
        /\ gates[8] = Reject(accHeld)
        BY <2>1
  <2>3. gates \in [1 .. 8 -> { gates[i] : i \in 1 .. 8 }]
    <3>1. DOMAIN gates = 1 .. 8 /\ gates = [i \in DOMAIN gates |-> gates[i]]  BY <2>1
    <3> DEFINE members == { gates[i] : i \in 1 .. 8 }
    <3>2. \A i \in 1 .. 8 : gates[i] \in members  OBVIOUS
    <3> HIDE DEF members
    <3>3. gates \in [1 .. 8 -> members]  BY <3>1, <3>2
    <3> QED  BY <3>3 DEF members
  <2>4. \A i \in 1 .. 8 : DecidesOnQuality(gates[i])
        BY <2>2, GateRecords DEF DecidesOnQuality
  <2>5. /\ gates[2].passes = both /\ gates[3].passes = reuse /\ gates[4].passes = same
        /\ gates[6].passes = pplHeld /\ gates[8].passes = accHeld
        BY <2>2, GateRecords
  <2>6. /\ gates[2].passes <=> both
        /\ gates[3].passes <=> reuse
        /\ gates[4].passes <=> same
        /\ gates[6].passes <=> pplHeld
        /\ gates[8].passes <=> accHeld
        BY <2>5, Zenon
  <2>7. (\A i \in 1 .. 8 : gates[i].passes) => both /\ reuse /\ same /\ pplHeld /\ accHeld
    <3>1. 2 \in 1 .. 8 /\ 3 \in 1 .. 8 /\ 4 \in 1 .. 8 /\ 6 \in 1 .. 8 /\ 8 \in 1 .. 8  OBVIOUS
    <3> QED  BY <3>1, <2>6, Zenon
  <2>8. CorrectnessHeld(t, c) /\ both /\ reuse /\ same /\ pplHeld /\ accHeld => QualityHeld(t, b, c)
        BY DEF CorrectnessHeld, both, reuse, same, pplHeld, accHeld, QualityHeld, Known, Same,
               ReuseMatches
  <2>9. done /\ both /\ reuse /\ same /\ pplKnown /\ accKnown =>
          \A i \in 1 .. 8 : gates[i].passes \/ gates[i].outcome = "REJECT"
    <3>1. /\ gates[1].passes = done /\ gates[2].passes = both /\ gates[3].passes = reuse
          /\ gates[4].passes = same /\ gates[5].passes = pplKnown /\ gates[7].passes = accKnown
          /\ gates[6].outcome = "REJECT" /\ gates[8].outcome = "REJECT"
          BY <2>2, GateRecords
    <3>2. done /\ both /\ reuse /\ same /\ pplKnown /\ accKnown =>
            /\ gates[1].passes /\ gates[2].passes /\ gates[3].passes /\ gates[4].passes
            /\ gates[5].passes /\ gates[7].passes
          BY <3>1, Zenon
    <3>3. \A i \in 1 .. 8 : i = 1 \/ i = 2 \/ i = 3 \/ i = 4 \/ i = 5 \/ i = 6 \/ i = 7 \/ i = 8
          OBVIOUS
    <3> QED  BY <3>1, <3>2, <3>3, Zenon
  <2> QED  BY <2>3, <2>4, <2>7, <2>8, <2>9, <2>10
<1> QED  BY <1>1, <1>2

\* The elements of a concatenation are those of its two parts.
LEMMA ConcatParts ==
  ASSUME NEW m \in Nat, NEW n \in Nat, NEW S, NEW T, NEW s \in [1 .. m -> S], NEW u \in [1 .. n -> T]
  PROVE  /\ DOMAIN (s \o u) = 1 .. (m + n)
         /\ \A i \in 1 .. m : i \in 1 .. (m + n) /\ (s \o u)[i] = s[i]
         /\ \A i \in 1 .. n : m + i \in 1 .. (m + n) /\ (s \o u)[m + i] = u[i]
         /\ \A i \in 1 .. (m + n) :
              \/ \E j \in 1 .. m : (s \o u)[i] = s[j]
              \/ \E j \in 1 .. n : (s \o u)[i] = u[j]
<1> DEFINE all == S \cup T
<1>1. s \in Seq(all) /\ u \in Seq(all) /\ Len(s) = m /\ Len(u) = n
  <2>1. s \in [1 .. m -> all] /\ u \in [1 .. n -> all]  OBVIOUS
  <2> HIDE DEF all
  <2>2. s \in Seq(all) /\ u \in Seq(all)  BY <2>1
  <2> QED  BY <2>1, <2>2, LenProperties
<1> HIDE DEF all
<1>2. /\ s \o u \in Seq(all)
      /\ Len(s \o u) = Len(s) + Len(u)
      /\ \A i \in 1 .. Len(s) + Len(u) : (s \o u)[i] = IF i =< Len(s) THEN s[i] ELSE u[i - Len(s)]
  BY <1>1, ConcatProperties
<1>3. DOMAIN (s \o u) = 1 .. (m + n)  BY <1>1, <1>2, LenProperties
<1>4. \A i \in 1 .. (m + n) : (s \o u)[i] = IF i =< m THEN s[i] ELSE u[i - m]
      BY <1>1, <1>2
<1>5. \A i \in 1 .. n : m + i \in 1 .. (m + n) /\ (s \o u)[m + i] = u[i]
  <2>1. TAKE i \in 1 .. n
  <2>2. m + i \in 1 .. (m + n) /\ ~(m + i =< m) /\ (m + i) - m = i  OBVIOUS
  <2> QED  BY <1>4, <2>2
<1>6. \A i \in 1 .. m : i \in 1 .. (m + n) /\ (s \o u)[i] = s[i]
      BY <1>4
<1>7. \A i \in 1 .. (m + n) :
        \/ \E j \in 1 .. m : (s \o u)[i] = s[j]
        \/ \E j \in 1 .. n : (s \o u)[i] = u[j]
  <2>1. TAKE i \in 1 .. (m + n)
  <2>2. CASE i =< m  BY <1>4, <2>2
  <2>3. CASE ~(i =< m)
    <3>1. i - m \in 1 .. n  BY <2>3
    <3> QED  BY <1>4, <2>3, <3>1
  <2> QED  BY <2>2, <2>3
<1> QED  BY <1>3, <1>5, <1>6, <1>7

\* The gates after performance: none of them blames the comparison.
LEMMA QualityDecides ==
  ASSUME NEW t, NEW b, NEW c, NEW d,
         d = FirstFailure(CorrectnessGates(t, c.quality)
                                  \o QualityGates(t, b.quality, c.quality))
  PROVE  \/ d = Accept /\ QualityHeld(t, b, c)
         \/ d = [outcome |-> "REJECT", rerun |-> NoStage]
         \/ /\ d = [outcome |-> "INCONCLUSIVE", rerun |-> QUALITY_VALIDATION]
            /\ ~(CompleteQuality(c.quality) /\ b.quality = c.quality)
<1> DEFINE first == CorrectnessGates(t, c.quality)
           second == QualityGates(t, b.quality, c.quality)
           gates == first \o second
<1>1. PICK m \in {0, 3} :
        /\ first \in [1 .. m -> { first[i] : i \in 1 .. m }]
        /\ \A i \in 1 .. m : DecidesOnQuality(first[i])
        /\ (\A i \in 1 .. m : first[i].passes) => CorrectnessHeld(t, c)
        /\ CompleteQuality(c.quality) => \A i \in 1 .. m : first[i].passes \/ first[i].outcome = "REJECT"
      BY CorrectnessIsAsked
<1>2. PICK n \in {1, 8} :
        /\ second \in [1 .. n -> { second[i] : i \in 1 .. n }]
        /\ \A i \in 1 .. n : DecidesOnQuality(second[i])
        /\ CorrectnessHeld(t, c) /\ (\A i \in 1 .. n : second[i].passes) => QualityHeld(t, b, c)
        /\ CompleteQuality(c.quality) /\ b.quality = c.quality =>
             \A i \in 1 .. n : second[i].passes \/ second[i].outcome = "REJECT"
  <2>1. second = QualityGates(t, b.quality, c.quality)  OBVIOUS
  <2> HIDE DEF second
  <2> QED  BY <2>1, QualityIsAsked
<1>4. d = FirstFailure(gates)  OBVIOUS
<1> HIDE DEF first, second, gates
<1>3. /\ DOMAIN gates = 1 .. (m + n)
      /\ \A i \in 1 .. m : i \in 1 .. (m + n) /\ gates[i] = first[i]
      /\ \A i \in 1 .. n : m + i \in 1 .. (m + n) /\ gates[m + i] = second[i]
      /\ \A i \in 1 .. (m + n) :
           \/ \E j \in 1 .. m : gates[i] = first[j]
           \/ \E j \in 1 .. n : gates[i] = second[j]
  <2>1. m \in Nat /\ n \in Nat  OBVIOUS
  <2> DEFINE S == { first[i] : i \in 1 .. m }
             T == { second[i] : i \in 1 .. n }
  <2>2. first \in [1 .. m -> S] /\ second \in [1 .. n -> T]  BY <1>1, <1>2
  <2>3. gates = first \o second  BY DEF gates
  <2> HIDE DEF S, T
  <2> QED  BY ONLY <2>1, <2>2, <2>3, ConcatParts
<1>5. m + n \in 0 .. 11  OBVIOUS
<1>6. CASE (\A i \in 1 .. (m + n) : gates[i].passes) /\ d = Accept
  <2>1. \A i \in 1 .. m : first[i].passes  BY <1>3, <1>6
  <2>2. \A i \in 1 .. n : second[i].passes  BY <1>3, <1>6
  <2> QED  BY <1>1, <1>2, <1>6, <2>1, <2>2
<1>7. CASE \E i \in 1 .. (m + n) :
             ~gates[i].passes /\ d = [outcome |-> gates[i].outcome, rerun |-> gates[i].rerun]
  <2>1. PICK i \in 1 .. (m + n) :
             ~gates[i].passes /\ d = [outcome |-> gates[i].outcome, rerun |-> gates[i].rerun]
        BY <1>7
  <2>3. CompleteQuality(c.quality) /\ b.quality = c.quality => gates[i].outcome = "REJECT"
    <3> SUFFICES ASSUME CompleteQuality(c.quality), b.quality = c.quality
                 PROVE  gates[i].outcome = "REJECT"
        OBVIOUS
    <3>1. CASE \E j \in 1 .. m : gates[i] = first[j]  BY <1>1, <2>1, <3>1
    <3>2. CASE \E j \in 1 .. n : gates[i] = second[j]  BY <1>2, <2>1, <3>2
    <3> QED  BY <1>3, <3>1, <3>2
  <2>2. DecidesOnQuality(gates[i])
    <3>1. CASE \E j \in 1 .. m : gates[i] = first[j]  BY <1>1, <3>1
    <3>2. CASE \E j \in 1 .. n : gates[i] = second[j]  BY <1>2, <3>2
    <3> QED  BY <1>3, <3>1, <3>2
  <2> QED  BY <2>1, <2>2, <2>3 DEF DecidesOnQuality
<1> QED
  <2>1. \A k \in 0 .. 11 : DOMAIN gates = 1 .. k =>
          \/ (\A i \in 1 .. k : gates[i].passes) /\ FirstFailure(gates) = Accept
          \/ \E i \in 1 .. k :
               /\ ~gates[i].passes
               /\ FirstFailure(gates) = [outcome |-> gates[i].outcome, rerun |-> gates[i].rerun]
        BY FirstFailureDecides
  <2>2. \/ (\A i \in 1 .. (m + n) : gates[i].passes) /\ d = Accept
        \/ \E i \in 1 .. (m + n) :
             ~gates[i].passes /\ d = [outcome |-> gates[i].outcome, rerun |-> gates[i].rerun]
    <3> DEFINE k == m + n
    <3>1. k \in 0 .. 11 /\ DOMAIN gates = 1 .. k  BY <1>3, <1>5
    <3>2. \/ (\A i \in 1 .. k : gates[i].passes) /\ d = Accept
          \/ \E i \in 1 .. k :
               ~gates[i].passes /\ d = [outcome |-> gates[i].outcome, rerun |-> gates[i].rerun]
      <4> HIDE DEF k
      <4> QED  BY ONLY <1>4, <2>1, <3>1
    <3> QED  BY <3>2
  <2> QED  BY <1>6, <1>7, <2>2

\* The three ways the gates decide, and what each of them rests on.
LEMMA EvaluateDecides ==
  ASSUME NEW t, NEW b, NEW c, NEW d, d = Evaluate(t, b, c)
  PROVE  \/ d = Accept /\ PerformanceHeld(t, b, c) /\ QualityHeld(t, b, c)
         \/ d = [outcome |-> "REJECT", rerun |-> NoStage] /\ NoOneToBlame(t, b, c)
         \/ \E s \in {CAPTURE_BASELINE, PATCH_AND_BUILD, E2E_VALIDATION, QUALITY_VALIDATION} :
              /\ d = [outcome |-> "INCONCLUSIVE", rerun |-> s]
              /\ StageSuffices(t, b, c, s)
              /\ ~(Measured(t, b, c) /\ CompleteQuality(c.quality) /\ b.quality = c.quality)
<1> DEFINE early == EvaluatePerformancePreGate(t, b, c)
           late == FirstFailure(CorrectnessGates(t, c.quality)
                                        \o QualityGates(t, b.quality, c.quality))
<1>1. d = IF early.outcome # "ACCEPT" THEN early ELSE late
      BY DEF Evaluate
<1>2. \/ early = Accept /\ PerformanceHeld(t, b, c)
      \/ early = [outcome |-> "REJECT", rerun |-> NoStage] /\ NoOneToBlame(t, b, c)
      \/ \E s \in {CAPTURE_BASELINE, PATCH_AND_BUILD, E2E_VALIDATION, QUALITY_VALIDATION} :
           /\ early = [outcome |-> "INCONCLUSIVE", rerun |-> s]
           /\ StageSuffices(t, b, c, s) /\ ~Measured(t, b, c)
      BY PreGateDecides
<1>3. \/ late = Accept /\ QualityHeld(t, b, c)
      \/ late = [outcome |-> "REJECT", rerun |-> NoStage]
      \/ /\ late = [outcome |-> "INCONCLUSIVE", rerun |-> QUALITY_VALIDATION]
         /\ ~(CompleteQuality(c.quality) /\ b.quality = c.quality)
      BY QualityDecides
<1> HIDE DEF early, late
<1>4. CASE early.outcome # "ACCEPT"
  <2>1. d = early  BY <1>1, <1>4
  <2> QED  BY <1>2, <1>4, <2>1 DEF Accept
<1>5. CASE early.outcome = "ACCEPT"
  <2>1. d = late  BY <1>1, <1>5
  <2>2. PerformanceHeld(t, b, c)  BY <1>2, <1>5
  <2>3. NoOneToBlame(t, b, c)  BY <2>2 DEF PerformanceHeld
  <2>4. StageSuffices(t, b, c, QUALITY_VALIDATION)  BY <2>2 DEF StageSuffices
  <2> QED  BY <1>3, <2>1, <2>2, <2>3, <2>4
<1> QED  BY <1>4, <1>5

\* The performance gates read nothing of the quality result.
LEMMA PreGateIgnoresQuality ==
  ASSUME NEW t, NEW b, NEW c \in Candidates, NEW quality
  PROVE  EvaluatePerformancePreGate(t, b, [c EXCEPT !.quality = quality])
           = EvaluatePerformancePreGate(t, b, c)
<1> DEFINE x == [c EXCEPT !.quality = quality]
<1>1. /\ x.observed = c.observed /\ x.declared = c.declared /\ x.sourceModel = c.sourceModel
      /\ x.fields = c.fields /\ x.model = c.model /\ x.telemetryStable = c.telemetryStable
      /\ x.capture = c.capture /\ x.identity = c.identity /\ x.build = c.build
      /\ x.smoke = c.smoke /\ x.benchmark = c.benchmark
      BY CandidateAssumption
<1> HIDE DEF x
<1>2. Comparable(t, b, x) = Comparable(t, b, c)
  <2>1. RepresentationChange(b, x) = RepresentationChange(b, c)
        BY <1>1, Zenon DEF RepresentationChange
  <2>2. \A v, w : SameModel(b, x, v, w) = SameModel(b, c, v, w)
        BY <2>1, Zenon DEF SameModel
  <2>3. SameIdentity(t, b, x) = SameIdentity(t, b, c)
        BY <1>1, <2>2, Zenon DEF SameIdentity
  <2>4. SameModel(b, x, b.model, x.model) = SameModel(b, c, b.model, c.model)
        BY <1>1, <2>2, Zenon
  <2> QED  BY <1>1, <2>3, <2>4, Zenon DEF Comparable
<1>3. BenchmarksUsable(b, x) = BenchmarksUsable(b, c)
      BY <1>1, Zenon DEF BenchmarksUsable
<1>4. PerformanceMet(t, b, x) = PerformanceMet(t, b, c)
      BY <1>1, Zenon DEF PerformanceMet
<1>5. PerformanceGates(t, b, x) = PerformanceGates(t, b, c)
      BY <1>1, <1>2, <1>3, <1>4, Zenon DEF PerformanceGates
<1>6. EvaluatePerformancePreGate(t, b, x) = EvaluatePerformancePreGate(t, b, c)
      BY <1>5, Zenon DEF EvaluatePerformancePreGate
<1> QED  BY <1>6 DEF x

\* A decision is that of the gates on the documents at hand: a rerun replaces
\* them and takes the decision back.
GateInv ==
  /\ TypeOK
  /\ decision # Undecided => decision = Evaluate(task, baseline, candidate)

\* A verdict names no stage, a rerun one of four.
LEMMA DecisionIsTyped ==
  ASSUME NEW t, NEW b, NEW c, NEW d, d = Evaluate(t, b, c)
  PROVE  /\ d \in {Accept} \cup [outcome : {"REJECT"}, rerun : {NoStage}]
                 \cup [outcome : {"INCONCLUSIVE"},
                       rerun : {CAPTURE_BASELINE, PATCH_AND_BUILD, E2E_VALIDATION, QUALITY_VALIDATION}]
         /\ d # Undecided
<1>1. CASE d = Accept
      BY <1>1 DEF Accept, Undecided
<1>2. CASE d = [outcome |-> "REJECT", rerun |-> NoStage]
      BY <1>2 DEF Undecided
<1>3. CASE \E s \in {CAPTURE_BASELINE, PATCH_AND_BUILD, E2E_VALIDATION, QUALITY_VALIDATION} :
             d = [outcome |-> "INCONCLUSIVE", rerun |-> s]
      BY <1>3 DEF Undecided
<1> QED  BY <1>1, <1>2, <1>3, EvaluateDecides

\* A decision is what evaluate says of the documents there are.
LEMMA GateInvHolds ==
  Spec => []GateInv
<1>1. Init => GateInv
  <2> SUFFICES ASSUME Init  PROVE GateInv
      OBVIOUS
  <2>1. decision = Undecided /\ reruns = 0
        BY DEF Init
  <2>2. reruns \in 0 .. MaxReruns
        BY <2>1, RerunAssumption
  <2>3. TypeOK
        BY <2>1, <2>2, Zenon DEF Init, TypeOK
  <2> QED  BY <2>1, <2>3 DEF GateInv
<1>2. GateInv /\ [Next]_vars => GateInv'
  <2> SUFFICES ASSUME GateInv, [Next]_vars  PROVE GateInv'
      OBVIOUS
  <2>1. CASE Decide
    <3>1. decision' = Evaluate(task, baseline, candidate)
          BY <2>1 DEF Decide
    <3>2. UNCHANGED << task, baseline, candidate, reruns >>
          BY <2>1 DEF Decide
    <3>3. decision' = Evaluate(task', baseline', candidate')
          BY <3>1, <3>2, Zenon
    <3>4. /\ task' \in Tasks /\ baseline' \in Baselines /\ candidate' \in Candidates
          /\ reruns' \in 0 .. MaxReruns
          BY <3>2 DEF GateInv, TypeOK
    <3>5. decision' \in {Accept} \cup [outcome : {"REJECT"}, rerun : {NoStage}]
                 \cup [outcome : {"INCONCLUSIVE"},
                       rerun : {CAPTURE_BASELINE, PATCH_AND_BUILD, E2E_VALIDATION, QUALITY_VALIDATION}]
          BY <3>1, DecisionIsTyped
    <3>6. TypeOK'
          BY <3>4, <3>5 DEF TypeOK
    <3> QED  BY <3>3, <3>6 DEF GateInv
  <2>2. CASE Resume
    <3>1. /\ baseline' \in Baselines /\ candidate' \in Candidates
          /\ task' = task /\ decision' = Undecided
          /\ reruns' = reruns + 1 /\ reruns < MaxReruns
          BY <2>2 DEF Resume, Reruns
    <3> QED  BY <3>1, RerunAssumption DEF GateInv, TypeOK, Undecided
  <2>3. CASE UNCHANGED vars
    BY <2>3 DEF vars, GateInv, TypeOK
  <2> QED  BY <2>1, <2>2, <2>3 DEF Next
<1> QED  BY <1>1, <1>2, PTL DEF Spec

\* An acceptance rests on sound runs and the improvement that was asked for.
LEMMA AcceptedBySound ==
  GateInv => AcceptedIsSound
<1> SUFFICES ASSUME GateInv, decision.outcome = "ACCEPT"  PROVE SoundlyBetter
    BY DEF AcceptedIsSound
<1>1. decision = Evaluate(task, baseline, candidate)
      BY DEF GateInv, Undecided
<1>2. PerformanceHeld(task, baseline, candidate) /\ QualityHeld(task, baseline, candidate)
      BY <1>1, EvaluateDecides
<1> QED
  BY <1>2 DEF PerformanceHeld, QualityHeld, CorrectnessHeld, NoOneToBlame, BaselineValid,
              SoundlyBetter

\* A rejection rests on a candidate that could be compared.
LEMMA RejectedJustly ==
  GateInv => RejectionIsJust
<1> SUFFICES ASSUME GateInv  PROVE RejectionIsJust
    OBVIOUS
<1>1. RejectionBlamesCandidate
  <2> SUFFICES ASSUME decision.outcome = "REJECT"
               PROVE  NoOneToBlame(task, baseline, candidate)
      BY DEF RejectionBlamesCandidate, NoOneToBlame
  <2>1. decision = Evaluate(task, baseline, candidate)
        BY DEF GateInv, Undecided
  <2> QED  BY <2>1, EvaluateDecides DEF Accept
<1>2. QualityCannotRescue
  <2> SUFFICES ASSUME EvaluatePerformancePreGate(task, baseline, candidate).outcome = "REJECT",
                      NEW other \in Candidates
               PROVE  Evaluate(task, baseline,
                                     [candidate EXCEPT !.quality = other.quality]).outcome = "REJECT"
      BY DEF QualityCannotRescue
  <2>1. candidate \in Candidates  BY DEF GateInv, TypeOK
  <2> DEFINE x == [candidate EXCEPT !.quality = other.quality]
             early == EvaluatePerformancePreGate(task, baseline, x)
  <2>2. early = EvaluatePerformancePreGate(task, baseline, candidate)
        BY <2>1, PreGateIgnoresQuality
  <2>3. early.outcome # "ACCEPT"  BY <2>2
  <2>4. Evaluate(task, baseline, x) = early
        BY <2>3, Zenon DEF Evaluate
  <2> QED  BY <2>2, <2>4
<1> QED  BY <1>1, <1>2 DEF GateInv, RejectionIsJust

\* The fields that decide whether a candidate can be compared.
SameRun(c, d) ==
  /\ d.observed = c.observed /\ d.declared = c.declared /\ d.sourceModel = c.sourceModel
  /\ d.fields = c.fields /\ d.model = c.model /\ d.telemetryStable = c.telemetryStable
  /\ d.capture = c.capture /\ d.identity = c.identity

\* What is measured again of the candidate leaves it comparable, ...
LEMMA SameRunsCompare ==
  ASSUME NEW t, NEW b, NEW c, NEW d, SameRun(c, d), Comparable(t, b, c)
  PROVE  Comparable(t, b, d)
<1>1. RepresentationChange(b, d) <=> RepresentationChange(b, c)
      BY DEF SameRun, RepresentationChange
<1>2. \A v, w : SameModel(b, d, v, w) <=> SameModel(b, c, v, w)
      BY <1>1 DEF SameModel
<1>3. d.identity = c.identity /\ d.model = c.model
      BY DEF SameRun
<1>4. SameIdentity(t, b, d) <=> SameIdentity(t, b, c)
      BY <1>2, <1>3 DEF SameIdentity
<1>5. SameModel(b, d, b.model, d.model) <=> SameModel(b, c, b.model, c.model)
      BY <1>2, <1>3
<1> QED  BY <1>4, <1>5 DEF SameRun, Comparable

\* So do the fields of a baseline other than its quality.
SameBaseline(b, d) ==
  /\ d.fields = b.fields /\ d.model = b.model /\ d.telemetryStable = b.telemetryStable
  /\ d.capture = b.capture /\ d.identity = b.identity
  /\ d.build = b.build /\ d.smoke = b.smoke /\ d.benchmark = b.benchmark

\* ... and so does what is measured again of the baseline.
LEMMA SameBaselinesCompare ==
  ASSUME NEW t, NEW b, NEW d, NEW c, SameBaseline(b, d), Comparable(t, b, c)
  PROVE  Comparable(t, d, c)
<1>1. RepresentationChange(d, c) <=> RepresentationChange(b, c)
      BY DEF SameBaseline, RepresentationChange
<1>2. \A v, w : SameModel(d, c, v, w) <=> SameModel(b, c, v, w)
      BY <1>1 DEF SameModel
<1>3. d.identity = b.identity /\ d.model = b.model
      BY DEF SameBaseline
<1>4. SameIdentity(t, d, c) <=> SameIdentity(t, b, c)
      BY <1>2, <1>3 DEF SameIdentity
<1>5. SameModel(d, c, d.model, c.model) <=> SameModel(b, c, b.model, c.model)
      BY <1>2, <1>3
<1> QED  BY <1>4, <1>5 DEF SameBaseline, Comparable

\* What a rerun of a candidate keeps, by the stage that is resumed.
LEMMA RerunKeeps ==
  ASSUME NEW c \in Candidates, NEW changed, NEW d \in Reruns(Candidates, c, changed),
         changed \subseteq {"build", "smoke", "benchmark", "quality"}
  PROVE  /\ d \in Candidates /\ SameRun(c, d)
         /\ changed \subseteq {"benchmark", "quality"} => d.build = c.build /\ d.smoke = c.smoke
         /\ changed \subseteq {"quality"} => d.benchmark = c.benchmark
         /\ changed \subseteq {"benchmark"} => d.quality = c.quality
<1>1. /\ d \in Candidates
      /\ \A f \in DOMAIN c \ changed : d[f] = c[f]
      BY DEF Reruns
<1>2. DOMAIN c = { "observed", "declared", "sourceModel", "fields", "model", "telemetryStable", "capture",
                   "identity", "build", "smoke", "benchmark", "quality" }
      BY CandidateAssumption
<1>3. SameRun(c, d)  BY <1>1, <1>2 DEF SameRun
<1>4. changed \subseteq {"benchmark", "quality"} => d.build = c.build /\ d.smoke = c.smoke
      BY <1>1, <1>2
<1>5. changed \subseteq {"quality"} => d.benchmark = c.benchmark
      BY <1>1, <1>2
<1>6. changed \subseteq {"benchmark"} => d.quality = c.quality
      BY <1>1, <1>2
<1> QED  BY <1>1, <1>3, <1>4, <1>5, <1>6

\* What a rerun of the baseline leaves of it.
LEMMA BaselineRerunKeeps ==
  ASSUME NEW b \in Baselines, NEW d \in Reruns(Baselines, b, {"quality"})
  PROVE  d \in Baselines /\ SameBaseline(b, d)
<1>1. /\ d \in Baselines
      /\ \A f \in DOMAIN b \ {"quality"} : d[f] = b[f]
      BY DEF Reruns
<1>2. DOMAIN b = { "fields", "model", "telemetryStable", "capture", "identity", "build", "smoke",
                   "benchmark", "quality" }
      BY BaselineAssumption
<1> QED  BY <1>1, <1>2 DEF SameBaseline

\* Reruns of reruns.
LEMMA RerunsCompose ==
  ASSUME NEW documents, NEW c, NEW A, NEW B, NEW d \in Reruns(documents, c, A),
         NEW e \in Reruns(documents, d, B), DOMAIN d = DOMAIN c
  PROVE  e \in Reruns(documents, c, A \cup B)
BY DEF Reruns

\* With a sound baseline, a comparable candidate can be measured to the end: by
\* its quality alone when the rest was measured, by its benchmark and quality
\* when it was built, and by everything else.
LEMMA CandidateCanBeJudged ==
  ASSUME NEW t, NEW b \in Baselines, NEW c \in Candidates,
         Comparable(t, b, c), BaselineValid(b), SoundBenchmark(b.benchmark)
  PROVE  \E d \in Reruns(Baselines, b, {"quality"}) :
           /\ BenchmarksUsable(b, c) /\ c.build \in Usable /\ c.smoke = TRUE =>
                \E e \in Reruns(Candidates, c, {"quality"}) : Evaluate(t, d, e).outcome # "INCONCLUSIVE"
           /\ c.build \in Usable /\ c.smoke = TRUE =>
                \E e \in Reruns(Candidates, c, {"benchmark", "quality"}) :
                  Evaluate(t, d, e).outcome # "INCONCLUSIVE"
           /\ \E e \in Reruns(Candidates, c, {"build", "smoke", "benchmark", "quality"}) :
                Evaluate(t, d, e).outcome # "INCONCLUSIVE"
<1>1. PICK q \in { k.quality : k \in Candidates } :
        /\ CompleteQuality(q)
        /\ \A k \in Baselines : \E d \in Reruns(Baselines, k, {"quality"}) : d.quality = q
        /\ \A k \in Candidates : \E d \in Reruns(Candidates, k, {"quality"}) : d.quality = q
      BY RenewalAssumption, Zenon
<1>2. PICK d \in Reruns(Baselines, b, {"quality"}) : d.quality = q
      BY <1>1
<1>3. SameBaseline(b, d)  BY BaselineRerunKeeps
<1>4. \A k, e \in Candidates :
        /\ SameRun(c, k) /\ k.build \in Usable /\ k.smoke = TRUE /\ SoundBenchmark(k.benchmark)
        /\ e \in Reruns(Candidates, k, {"quality"}) /\ e.quality = q
        => Evaluate(t, d, e).outcome # "INCONCLUSIVE"
  <2> SUFFICES ASSUME NEW k \in Candidates, NEW e \in Candidates,
                      SameRun(c, k), k.build \in Usable, k.smoke = TRUE, SoundBenchmark(k.benchmark),
                      e \in Reruns(Candidates, k, {"quality"}), e.quality = q
               PROVE  Evaluate(t, d, e).outcome # "INCONCLUSIVE"
      OBVIOUS
  <2>1. SameRun(k, e) /\ e.build = k.build /\ e.smoke = k.smoke /\ e.benchmark = k.benchmark
        BY RerunKeeps
  <2>2. SameRun(c, e)  BY <2>1 DEF SameRun
  <2>3. Comparable(t, d, e)  BY <1>3, <2>2, SameRunsCompare, SameBaselinesCompare
  <2>4. NoOneToBlame(t, d, e)  BY <1>3, <2>3 DEF SameBaseline, NoOneToBlame, BaselineValid
  <2>5. d.benchmark = b.benchmark  BY <1>3 DEF SameBaseline
  <2>6. BenchmarksUsable(d, e)  BY <2>1, <2>5, Zenon DEF BenchmarksUsable, SoundBenchmark
  <2>7. Measured(t, d, e)  BY <2>1, <2>4, <2>6 DEF Measured
  <2>8. CompleteQuality(e.quality) /\ d.quality = e.quality  BY <1>1, <1>2
  <2> DEFINE v == Evaluate(t, d, e)
  <2>9. \/ v = Accept
        \/ v = [outcome |-> "REJECT", rerun |-> NoStage]
        BY <2>7, <2>8, EvaluateDecides
  <2> HIDE DEF v
  <2>10. v.outcome # "INCONCLUSIVE"  BY <2>9 DEF Accept
  <2> QED  BY <2>10 DEF v
<1>5. \A k \in Candidates : \E e \in Reruns(Candidates, k, {"quality"}) : e \in Candidates /\ e.quality = q
      BY <1>1 DEF Reruns
<1>6. \A k \in Candidates : DOMAIN k = DOMAIN c  BY CandidateAssumption
<1>7. BenchmarksUsable(b, c) /\ c.build \in Usable /\ c.smoke = TRUE =>
        \E e \in Reruns(Candidates, c, {"quality"}) : Evaluate(t, d, e).outcome # "INCONCLUSIVE"
  <2> SUFFICES ASSUME BenchmarksUsable(b, c), c.build \in Usable, c.smoke = TRUE
               PROVE  \E e \in Reruns(Candidates, c, {"quality"}) : Evaluate(t, d, e).outcome # "INCONCLUSIVE"
      OBVIOUS
  <2>1. SoundBenchmark(c.benchmark)  BY Zenon DEF BenchmarksUsable, SoundBenchmark
  <2>2. SameRun(c, c)  BY DEF SameRun
  <2> QED  BY <1>4, <1>5, <2>1, <2>2
<1>8. \A k \in Candidates : SameRun(c, k) /\ k.build \in Usable /\ k.smoke = TRUE =>
        \E e \in Reruns(Candidates, k, {"benchmark", "quality"}) : Evaluate(t, d, e).outcome # "INCONCLUSIVE"
  <2> SUFFICES ASSUME NEW k \in Candidates, SameRun(c, k), k.build \in Usable, k.smoke = TRUE
               PROVE  \E e \in Reruns(Candidates, k, {"benchmark", "quality"}) :
                        Evaluate(t, d, e).outcome # "INCONCLUSIVE"
      OBVIOUS
  <2>1. PICK m \in Reruns(Candidates, k, {"benchmark"}) : SoundBenchmark(m.benchmark)
        BY RenewalAssumption, Zenon
  <2>2. m \in Candidates /\ SameRun(k, m) /\ m.build = k.build /\ m.smoke = k.smoke
        BY RerunKeeps
  <2>3. SameRun(c, m)  BY <2>2 DEF SameRun
  <2>4. PICK e \in Reruns(Candidates, m, {"quality"}) : e \in Candidates /\ e.quality = q
        BY <1>5, <2>2
  <2>5. Evaluate(t, d, e).outcome # "INCONCLUSIVE"  BY <1>4, <2>1, <2>2, <2>3, <2>4
  <2>6. e \in Reruns(Candidates, k, {"benchmark"} \cup {"quality"})
        BY <1>6, <2>2, RerunsCompose
  <2>7. {"benchmark"} \cup {"quality"} = {"benchmark", "quality"}  OBVIOUS
  <2> QED  BY <2>5, <2>6, <2>7
<1>9. \E e \in Reruns(Candidates, c, {"build", "smoke", "benchmark", "quality"}) :
        Evaluate(t, d, e).outcome # "INCONCLUSIVE"
  <2> DEFINE all == {"build", "smoke", "benchmark", "quality"}
  <2>1. PICK k \in Reruns(Candidates, c, all) : k.build \in Usable /\ k.smoke = TRUE
        BY RenewalAssumption, Zenon
  <2>2. k \in Candidates /\ SameRun(c, k)  BY RerunKeeps
  <2>3. PICK e \in Reruns(Candidates, k, {"benchmark", "quality"}) : Evaluate(t, d, e).outcome # "INCONCLUSIVE"
        BY <1>8, <2>1, <2>2
  <2>4. e \in Reruns(Candidates, c, all \cup {"benchmark", "quality"})
        BY <1>6, <2>2, RerunsCompose
  <2>5. all \cup {"benchmark", "quality"} = all  OBVIOUS
  <2> QED  BY <2>3, <2>4, <2>5
<1>10. SameRun(c, c)  BY DEF SameRun
<1> QED  BY <1>2, <1>7, <1>8, <1>9, <1>10

\* An inconclusive gate sends back to a stage from which a decision can be reached.
LEMMA RerunsDecide ==
  GateInv => CandidateRerunCanDecide
<1> SUFFICES ASSUME GateInv, decision.outcome = "INCONCLUSIVE", BaselineSound  PROVE RerunCanDecide
    BY DEF CandidateRerunCanDecide
<1> DEFINE s == decision.rerun
<1>1. decision = Evaluate(task, baseline, candidate)  BY DEF GateInv, Undecided
<1>2. /\ task \in Tasks /\ baseline \in Baselines /\ candidate \in Candidates  BY DEF GateInv, TypeOK
<1>3. /\ s \in {CAPTURE_BASELINE, PATCH_AND_BUILD, E2E_VALIDATION, QUALITY_VALIDATION}
      /\ StageSuffices(task, baseline, candidate, s)
  <2>1. decision # Accept /\ decision # [outcome |-> "REJECT", rerun |-> NoStage]  BY DEF Accept
  <2>2. PICK k \in {CAPTURE_BASELINE, PATCH_AND_BUILD, E2E_VALIDATION, QUALITY_VALIDATION} :
          decision = [outcome |-> "INCONCLUSIVE", rerun |-> k] /\ StageSuffices(task, baseline, candidate, k)
        BY <1>1, <2>1, EvaluateDecides
  <2>3. s = k  BY <2>2
  <2> QED  BY <2>2, <2>3
<1>4. BaselineValid(baseline) /\ SoundBenchmark(baseline.benchmark)  BY DEF BaselineSound
<1>5. SUFFICES \E b \in Reruns(Baselines, baseline, Regenerated(s).baseline),
                  c \in Reruns(Candidates, candidate, Regenerated(s).candidate) :
                 Evaluate(task, b, c).outcome # "INCONCLUSIVE"
      BY DEF RerunCanDecide
<1> HIDE DEF s
<1>6. CASE s = CAPTURE_BASELINE
  <2>1. Regenerated(s).baseline = DOMAIN baseline /\ Regenerated(s).candidate = DOMAIN candidate
        BY <1>6 DEF Regenerated
  <2>2. PICK b \in Baselines, c \in Candidates :
          Comparable(task, b, c) /\ BaselineValid(b) /\ SoundBenchmark(b.benchmark)
        BY <1>2, RenewalAssumption, Zenon
  <2>3. PICK d \in Reruns(Baselines, b, {"quality"}),
             e \in Reruns(Candidates, c, {"build", "smoke", "benchmark", "quality"}) :
          Evaluate(task, d, e).outcome # "INCONCLUSIVE"
        BY <2>2, CandidateCanBeJudged
  <2>4. d \in Reruns(Baselines, baseline, DOMAIN baseline) /\ e \in Reruns(Candidates, candidate, DOMAIN candidate)
        BY <2>3 DEF Reruns
  <2> QED  BY <2>1, <2>3, <2>4
<1>7. CASE s = PATCH_AND_BUILD
  <2>1. Regenerated(s).baseline = {"quality"} /\ Regenerated(s).candidate = DOMAIN candidate
        BY <1>7 DEF Regenerated
  <2>2. Comparable(task, baseline, candidate)  BY <1>3, <1>7 DEF StageSuffices
  <2>3. PICK d \in Reruns(Baselines, baseline, {"quality"}),
             e \in Reruns(Candidates, candidate, {"build", "smoke", "benchmark", "quality"}) :
          Evaluate(task, d, e).outcome # "INCONCLUSIVE"
        BY <1>2, <1>4, <2>2, CandidateCanBeJudged
  <2>4. e \in Reruns(Candidates, candidate, DOMAIN candidate)
        BY <2>3 DEF Reruns
  <2> QED  BY <2>1, <2>3, <2>4
<1>10. Comparable(task, baseline, candidate) =>
        \E d \in Reruns(Baselines, baseline, {"quality"}) :
          /\ BenchmarksUsable(baseline, candidate) /\ candidate.build \in Usable /\ candidate.smoke = TRUE =>
               \E e \in Reruns(Candidates, candidate, {"quality"}) : Evaluate(task, d, e).outcome # "INCONCLUSIVE"
          /\ candidate.build \in Usable /\ candidate.smoke = TRUE =>
               \E e \in Reruns(Candidates, candidate, {"benchmark", "quality"}) :
                 Evaluate(task, d, e).outcome # "INCONCLUSIVE"
      BY <1>2, <1>4, CandidateCanBeJudged, ZenonT(40)
<1>8. CASE s = E2E_VALIDATION
  <2>1. Regenerated(s).baseline = {"quality"} /\ Regenerated(s).candidate = {"benchmark", "quality"}
        BY <1>8 DEF Regenerated
  <2>2. Comparable(task, baseline, candidate) /\ candidate.build \in Usable /\ candidate.smoke = TRUE
        BY <1>3, <1>8 DEF StageSuffices
  <2>3. \E d \in Reruns(Baselines, baseline, {"quality"}) :
          \E e \in Reruns(Candidates, candidate, {"benchmark", "quality"}) : Evaluate(task, d, e).outcome # "INCONCLUSIVE"
        BY <2>2, <1>10, Zenon
  <2> QED  BY <2>1, <2>3, Zenon
<1>9. CASE s = QUALITY_VALIDATION
  <2>1. Regenerated(s).baseline = {"quality"} /\ Regenerated(s).candidate = {"quality"}
        BY <1>9 DEF Regenerated
  <2>2. /\ Comparable(task, baseline, candidate) /\ candidate.build \in Usable /\ candidate.smoke = TRUE
        /\ BenchmarksUsable(baseline, candidate)
        BY <1>3, <1>9 DEF StageSuffices, PerformanceHeld, NoOneToBlame
  <2>3. \E d \in Reruns(Baselines, baseline, {"quality"}) :
          \E e \in Reruns(Candidates, candidate, {"quality"}) : Evaluate(task, d, e).outcome # "INCONCLUSIVE"
        BY <2>2, <1>10, Zenon
  <2> QED  BY <2>1, <2>3, Zenon
<1> QED  BY <1>3, <1>6, <1>7, <1>8, <1>9

\* AcceptedIsSound for every task, baseline and candidate: evaluate in gates.py
\* returns ACCEPT only past every gate the task asks for.
THEOREM AcceptanceIsSound ==
  Spec => []AcceptedIsSound
BY GateInvHolds, AcceptedBySound, PTL

\* RejectionIsJust for every task, baseline and candidate: REJECT is the
\* candidate's fault, and one of the performance pre-gate is final.
THEOREM RejectionStands ==
  Spec => []RejectionIsJust
<1>1. GateInv => RejectionIsJust  BY RejectedJustly
<1> QED  BY <1>1, GateInvHolds, PTL

\* CandidateRerunCanDecide for every task, baseline and candidate, as long as what
\* is measured again may succeed: the stage that gates.py selects is early enough.
THEOREM RerunsCanDecide ==
  Spec => []CandidateRerunCanDecide
BY GateInvHolds, RerunsDecide, PTL

-----------------------------------------------------------------------------
(* KV caches                                                               *)

\* FasterStillPasses of kv_cache.py's gate for all speeds: a cache that passes loses
\* nothing in depth, a faster one passes too, and of two caches at most one passes
\* against the other.
THEOREM QuantizedCachesAreFaster ==
  ASSUME NEW before \in [Depths -> Nat \ {0}], NEW after \in [Depths -> Nat \ {0}],
         NEW faster \in [Depths -> Nat \ {0}]
  PROVE  FasterStillPasses(before, after, faster)
<1>1. /\ before[4096] \in Nat \ {0} /\ before[16384] \in Nat \ {0} /\ before[28672] \in Nat \ {0}
      /\ after[4096] \in Nat \ {0} /\ after[16384] \in Nat \ {0} /\ after[28672] \in Nat \ {0}
      /\ faster[4096] \in Nat \ {0} /\ faster[16384] \in Nat \ {0} /\ faster[28672] \in Nat \ {0}
      BY DEF Depths
<1>2. \A b, c : KVGate(b, c) <=>
        /\ c[4096] * 100 >= b[4096] * 97
        /\ c[16384] * 100 >= b[16384] * 100 /\ c[28672] * 100 >= b[28672] * 100
        /\ c[16384] * 100 >= b[16384] * 105 \/ c[28672] * 100 >= b[28672] * 105
      BY DEF KVGate, AtLeast, LongDepths
<1>3. KVGate(before, after) /\ (\A d \in Depths : faster[d] >= after[d]) => KVGate(before, faster)
      BY <1>1, <1>2 DEF Depths
<1>4. KVGate(before, after) => ~KVGate(after, before)
      BY <1>1, <1>2
<1>5. KVGate(before, after) => \A d \in LongDepths : after[d] >= before[d]
      BY <1>1, <1>2 DEF LongDepths
<1> QED  BY <1>3, <1>4, <1>5 DEF FasterStillPasses

\* PlannedDepthsFit for every model and runtime with flash attention: a campaign is
\* planned exactly when its types are known and its depths fit both contexts.
THEOREM PlansFit ==
  ASSUME NEW geometry \in [context : Nat, headDim : Nat], geometry.headDim % 32 = 0,
         NEW runtime \in [context : Nat, minimumDepth : Nat, types : SUBSET Types, flashAttention : {TRUE}]
  PROVE  PlannedDepthsFit(geometry, runtime)
<1>1. geometry.context \in Nat /\ runtime.context \in Nat /\ runtime.minimumDepth \in Nat
      /\ runtime.flashAttention = TRUE
      OBVIOUS
<1>2. PlanFits(geometry, runtime) <=>
        /\ Types \subseteq runtime.types
        /\ 28672 + 128 <= geometry.context /\ 28672 + 128 <= runtime.context
        /\ runtime.minimumDepth + 1 <= geometry.context /\ runtime.minimumDepth + 1 <= runtime.context
      BY <1>1 DEF PlanFits
<1>3. (\A context \in {geometry.context, runtime.context} :
         /\ \A d \in Depths : d + 128 <= context
         /\ runtime.minimumDepth < context)
      <=> /\ 28672 + 128 <= geometry.context /\ 28672 + 128 <= runtime.context
          /\ runtime.minimumDepth + 1 <= geometry.context /\ runtime.minimumDepth + 1 <= runtime.context
      BY <1>1 DEF Depths
<1> DEFINE fits == PlanFits(geometry, runtime)
           deep == /\ 28672 + 128 <= geometry.context /\ 28672 + 128 <= runtime.context
                   /\ runtime.minimumDepth + 1 <= geometry.context /\ runtime.minimumDepth + 1 <= runtime.context
           all == \A context \in {geometry.context, runtime.context} :
                    /\ \A d \in Depths : d + 128 <= context
                    /\ runtime.minimumDepth < context
           typed == Types \subseteq runtime.types
<1>4. fits <=> all /\ typed
  <2>1. fits <=> deep /\ typed  BY <1>2
  <2>2. all <=> deep  BY <1>3
  <2> HIDE DEF fits, deep, all, typed
  <2> QED  BY <2>1, <2>2
<1> QED  BY <1>4 DEF PlannedDepthsFit

\* The bytes of a cache of e elements in b blocks, in each type.
LEMMA BytesOfElements ==
  ASSUME NEW geometry, NEW depth, NEW e \in Nat, NEW b \in Nat, e \div 32 = b,
         depth * geometry.layers * geometry.kvHeads * geometry.headDim = e
  PROVE  /\ KVCacheBytes(geometry, depth, "f16") = 2 * (e * 2)
         /\ KVCacheBytes(geometry, depth, "q8_0") = 2 * (b * 34)
         /\ KVCacheBytes(geometry, depth, "q4_0") = 2 * (b * 18)
<1>1. \A t : KVCacheBytes(geometry, depth, t) =
        2 * CASE t = "f16" -> e * 2 [] t = "q8_0" -> b * 34 [] t = "q4_0" -> b * 18
      BY Zenon DEF KVCacheBytes
<1>2. "f16" # "q8_0" /\ "f16" # "q4_0" /\ "q8_0" # "q4_0"  OBVIOUS
<1> QED  BY <1>1, <1>2, Zenon

\* CacheBytesAgree for every depth: the planned and the measured count of a cache's
\* bytes are the same, and a type with fewer bits takes fewer bytes.
THEOREM CacheBytes ==
  ASSUME NEW depth \in Nat \ {0}
  PROVE  CacheBytesAgree(depth)
<1> DEFINE e == depth * 36864
           b == depth * 1152
           bytes(t) == KVCacheBytes(QwenGeometry, depth, t)
<1>1. Types = {"f16", "q8_0", "q4_0"}  BY DEF Types, Arms
<1>2. e \in Nat /\ b \in Nat /\ e \div 32 = b /\ e = 32 * b /\ b > 0  OBVIOUS
<1>3. depth * QwenGeometry.layers * QwenGeometry.kvHeads * QwenGeometry.headDim = e
      BY DEF QwenGeometry
<1>4. depth * 36 * 8 * 128 = e  OBVIOUS
<1> HIDE DEF e, b
<1>5. bytes("f16") = 2 * (e * 2) /\ bytes("q8_0") = 2 * (b * 34) /\ bytes("q4_0") = 2 * (b * 18)
      BY <1>2, <1>3, BytesOfElements
<1>6. /\ QwenCacheBytes(depth, "f16") = e * 4
      /\ QwenCacheBytes(depth, "q8_0") = (b * 34) * 2
      /\ QwenCacheBytes(depth, "q4_0") = (b * 18) * 2
  <2>1. \A t : QwenCacheBytes(depth, t) =
                 IF t = "f16" THEN e * 4 ELSE (b * (IF t = "q8_0" THEN 34 ELSE 18)) * 2
        BY <1>2, <1>4, Zenon DEF QwenCacheBytes
  <2> QED  BY <2>1
<1> HIDE DEF bytes
<1>7. \A t \in Types : bytes(t) = QwenCacheBytes(depth, t)
      BY <1>1, <1>2, <1>5, <1>6
<1>8. bytes("q4_0") < bytes("q8_0") /\ bytes("q8_0") < bytes("f16")
      BY <1>2, <1>5
<1> QED  BY <1>7, <1>8 DEF CacheBytesAgree, bytes

-----------------------------------------------------------------------------
(* HIP graphs                                                              *)

Steady(spec, m) == \A n \in RequiredMetrics : ~(m[n].count > spec.maxSamples) /\ ~(m[n].cv > spec.maxCv)

\* When hip_graph_ab.py calls a difference a material benefit.
LEMMA GraphBenefits ==
  ASSUME NEW spec, NEW m
  PROVE  EvaluateHipGraphAB(spec, m) = "MATERIAL_BENEFIT" <=>
           Steady(spec, m) /\ (Benefits(spec, m, DecodeMetrics) \/ Benefits(spec, m, {"pp512"}))
<1> DEFINE over == \E n \in RequiredMetrics : m[n].count > spec.maxSamples
           noisy == \E n \in RequiredMetrics : m[n].cv > spec.maxCv
           gains == Benefits(spec, m, DecodeMetrics) \/ Benefits(spec, m, {"pp512"})
           harms == \E n \in RequiredMetrics : m[n].high < -spec.regression
           same == \A n \in RequiredMetrics : m[n].low >= -spec.material /\ m[n].high <= spec.material
           v == EvaluateHipGraphAB(spec, m)
<1>1. v = IF over THEN Refused ELSE IF noisy THEN "INCONCLUSIVE" ELSE IF gains THEN "MATERIAL_BENEFIT"
          ELSE IF harms THEN "HARMFUL" ELSE IF same THEN "NO_MATERIAL_EFFECT" ELSE "INCONCLUSIVE"
      BY DEF EvaluateHipGraphAB
<1>2. Steady(spec, m) <=> ~over /\ ~noisy  BY DEF Steady
<1>3. Refused # "MATERIAL_BENEFIT"  BY RefusalsAssumption
<1> HIDE DEF over, noisy, gains, harms, same, v
<1>4. v = "MATERIAL_BENEFIT" <=> ~over /\ ~noisy /\ gains  BY <1>1, <1>3
<1> QED  BY <1>2, <1>4 DEF gains, v

Metric == [count : Int, delta : Int, low : Int, high : Int, cv : Int]

\* BenefitIsReal for every measurement, when a loss that is tolerated is smaller
\* than a gain that counts, as it is by default (hip_graph_ab.py).
THEOREM GraphBenefitsAreReal ==
  ASSUME NEW spec \in [maxSamples : Nat, maxCv : Nat, material : Nat, regression : Nat],
         spec.regression < spec.material,
         NEW m \in [RequiredMetrics -> Metric], \A n \in RequiredMetrics : m[n].low =< m[n].delta /\ m[n].delta =< m[n].high,
         NEW gain \in Nat
  PROVE  BenefitIsReal(spec, m, gain)
<1> DEFINE swapped == [n \in RequiredMetrics |->
                         [m[n] EXCEPT !.delta = -m[n].delta, !.low = -m[n].high, !.high = -m[n].low]]
           better == [n \in RequiredMetrics |->
                        [m[n] EXCEPT !.delta = @ + gain, !.low = @ + gain, !.high = @ + gain]]
<1>1. /\ spec.material \in Nat /\ spec.regression \in Nat
      /\ \A n \in RequiredMetrics :
           /\ m[n] \in Metric
           /\ m[n].delta \in Int /\ m[n].low \in Int /\ m[n].high \in Int
      BY DEF Metric
<1>2. \A n \in RequiredMetrics :
        /\ swapped[n].delta = -m[n].delta /\ swapped[n].low = -m[n].high /\ swapped[n].high = -m[n].low
        /\ swapped[n].count = m[n].count /\ swapped[n].cv = m[n].cv
  <2> TAKE n \in RequiredMetrics
  <2> DEFINE r == m[n]
             x == swapped[n]
             a == -m[n].delta
             b == -m[n].high
             c == -m[n].low
  <2>1. r \in Metric  BY <1>1
  <2>2. x = [r EXCEPT !.delta = a, !.low = b, !.high = c]  BY Zenon
  <2> HIDE DEF r, x, a, b, c
  <2>3. x.delta = a /\ x.low = b /\ x.high = c /\ x.count = r.count /\ x.cv = r.cv
        BY <2>1, <2>2 DEF Metric
  <2> HIDE DEF swapped
  <2> QED  BY <2>3, ZenonT(40) DEF r, x, a, b, c
<1>3. \A n \in RequiredMetrics :
        /\ better[n].delta = m[n].delta + gain /\ better[n].low = m[n].low + gain
        /\ better[n].high = m[n].high + gain
        /\ better[n].count = m[n].count /\ better[n].cv = m[n].cv
  <2> TAKE n \in RequiredMetrics
  <2> DEFINE r == m[n]
             x == better[n]
             a == m[n].delta + gain
             b == m[n].low + gain
             c == m[n].high + gain
  <2>1. r \in Metric  BY <1>1
  <2>2. x = [r EXCEPT !.delta = a, !.low = b, !.high = c]  BY Zenon
  <2> HIDE DEF r, x, a, b, c
  <2>3. x.delta = a /\ x.low = b /\ x.high = c /\ x.count = r.count /\ x.cv = r.cv
        BY <2>1, <2>2 DEF Metric
  <2> HIDE DEF better
  <2> QED  BY <2>3, ZenonT(40) DEF r, x, a, b, c
<1> HIDE DEF swapped, better
<1>4. SUFFICES ASSUME EvaluateHipGraphAB(spec, m) = "MATERIAL_BENEFIT"
               PROVE  /\ \A n \in RequiredMetrics : m[n].high >= -spec.regression
                      /\ EvaluateHipGraphAB(spec, swapped) # "MATERIAL_BENEFIT"
                      /\ EvaluateHipGraphAB(spec, better) = "MATERIAL_BENEFIT"
      BY DEF BenefitIsReal, swapped, better
<1>5. Steady(spec, m) /\ (Benefits(spec, m, DecodeMetrics) \/ Benefits(spec, m, {"pp512"}))
      BY <1>4, GraphBenefits
<1>6. \A k : /\ Benefits(spec, k, DecodeMetrics) <=>
                   /\ k["tg128"].delta >= spec.material /\ k["tg128"].low > 0
                   /\ k["tg512"].delta >= spec.material /\ k["tg512"].low > 0
                   /\ k["pp512"].delta >= -spec.regression
             /\ Benefits(spec, k, {"pp512"}) <=>
                   /\ k["pp512"].delta >= spec.material /\ k["pp512"].low > 0
                   /\ k["tg128"].delta >= -spec.regression /\ k["tg512"].delta >= -spec.regression
      BY DEF Benefits, DecodeMetrics, RequiredMetrics
<1>7. {"pp512", "tg128", "tg512"} = RequiredMetrics  BY DEF RequiredMetrics
<1>8. \A n \in RequiredMetrics : m[n].high >= -spec.regression
      BY <1>1, <1>5, <1>6, <1>7
<1>9. ~Benefits(spec, swapped, DecodeMetrics) /\ ~Benefits(spec, swapped, {"pp512"})
      BY <1>1, <1>2, <1>5, <1>6, <1>7
<1>10. Steady(spec, better)  BY <1>3, <1>5 DEF Steady
<1>11. Benefits(spec, better, DecodeMetrics) \/ Benefits(spec, better, {"pp512"})
      BY <1>1, <1>3, <1>5, <1>6, <1>7
<1> QED  BY <1>8, <1>9, <1>10, <1>11, GraphBenefits

-----------------------------------------------------------------------------
(* Memory reuse                                                            *)

PatchArm == [latency : Nat \cup {Unknown}, memory : Nat \cup {Unknown}, operations : Nat, tg128 : Nat, tg512 : Nat]

\* What an accepted patch has shown.
PatchShown(before, after) ==
  /\ before.latency # Unknown /\ before.memory # Unknown
  /\ 100 * (after.tg128 - before.tg128) >= -before.tg128 /\ 100 * (after.tg512 - before.tg512) >= -before.tg512
  /\ after.latency < before.latency /\ after.operations < before.operations
  /\ before.memory # 0 /\ 100 * (before.memory - after.memory) >= 5 * before.memory

\* When memory_reuse.py accepts a patch, of two arms that can be compared.
LEMMA PatchesShow ==
  ASSUME NEW before \in PatchArm, NEW after, after.latency \in Int \cup {Unknown}, after.memory \in Int \cup {Unknown},
         after.operations \in Nat, after.tg128 \in Nat, after.tg512 \in Nat,
         before.latency # Unknown => after.latency # Unknown, before.memory # Unknown => after.memory # Unknown
  PROVE  EvaluateMemoryPatch(TRUE, before, after, 1, 5) = "ACCEPT" <=> PatchShown(before, after)
<1>1. /\ before.latency \in Nat \cup {Unknown} /\ before.memory \in Nat \cup {Unknown}
      /\ before.operations \in Nat /\ before.tg128 \in Nat /\ before.tg512 \in Nat
      BY DEF PatchArm
<1> DEFINE lost == before.latency = Unknown \/ before.memory = Unknown
           loses == \/ 100 * (after["tg128"] - before["tg128"]) < -1 * before["tg128"]
                    \/ 100 * (after["tg512"] - before["tg512"]) < -1 * before["tg512"]
           fails == \/ after.latency >= before.latency
                    \/ after.operations >= before.operations
                    \/ before.memory = 0
                    \/ 100 * (before.memory - after.memory) < 5 * before.memory
<1>2. EvaluateMemoryPatch(TRUE, before, after, 1, 5) =
        IF lost THEN "INCONCLUSIVE" ELSE IF loses \/ fails THEN "REJECT" ELSE "ACCEPT"
      BY DEF EvaluateMemoryPatch
<1>3. EvaluateMemoryPatch(TRUE, before, after, 1, 5) = "ACCEPT" <=> ~lost /\ ~loses /\ ~fails
  <2> HIDE DEF lost, loses, fails
  <2> QED  BY <1>2
<1>4. ~lost => (~loses /\ ~fails <=> PatchShown(before, after))
      BY <1>1 DEF PatchShown
<1>5. PatchShown(before, after) => ~lost  BY DEF PatchShown
<1> QED  BY <1>3, <1>4, <1>5

\* BetterPatchStillPasses for every pair of arms.
THEOREM BetterPatchesPass ==
  ASSUME NEW before \in PatchArm, NEW after \in PatchArm,
         (before.latency = Unknown) = (after.latency = Unknown), (before.memory = Unknown) = (after.memory = Unknown)
  PROVE  BetterPatchStillPasses(before, after)
<1> DEFINE a == [after EXCEPT !.latency = IF @ = Unknown THEN @ ELSE @ - 1]
           b == [after EXCEPT !.memory = IF @ = Unknown \/ @ = 0 THEN @ ELSE @ - 1]
           c == [after EXCEPT !.tg128 = @ + 1]
           d == [after EXCEPT !.tg512 = @ + 1]
           passes(x) == EvaluateMemoryPatch(TRUE, before, x, 1, 5) = "ACCEPT"
<1>1. /\ after.latency \in Nat \cup {Unknown} /\ after.memory \in Nat \cup {Unknown}
      /\ after.operations \in Nat /\ after.tg128 \in Nat /\ after.tg512 \in Nat
      /\ before.latency \in Nat \cup {Unknown} /\ before.memory \in Nat \cup {Unknown}
      /\ before.operations \in Nat /\ before.tg128 \in Nat /\ before.tg512 \in Nat
      BY DEF PatchArm
<1>2. /\ a.latency = (IF after.latency = Unknown THEN Unknown ELSE after.latency - 1)
      /\ a.memory = after.memory /\ a.operations = after.operations /\ a.tg128 = after.tg128 /\ a.tg512 = after.tg512
      /\ b.memory = (IF after.memory = Unknown \/ after.memory = 0 THEN after.memory ELSE after.memory - 1)
      /\ b.latency = after.latency /\ b.operations = after.operations /\ b.tg128 = after.tg128 /\ b.tg512 = after.tg512
      /\ c.tg128 = after.tg128 + 1
      /\ c.latency = after.latency /\ c.memory = after.memory /\ c.operations = after.operations /\ c.tg512 = after.tg512
      /\ d.tg512 = after.tg512 + 1
      /\ d.latency = after.latency /\ d.memory = after.memory /\ d.operations = after.operations /\ d.tg128 = after.tg128
      BY DEF PatchArm
<1> HIDE DEF a, b, c, d
<1>3. Unknown \notin Int  BY RefusalsAssumption
<1>4. { [after EXCEPT !.latency = IF @ = Unknown THEN @ ELSE @ - 1],
        [after EXCEPT !.memory = IF @ = Unknown \/ @ = 0 THEN @ ELSE @ - 1],
        [after EXCEPT !.tg128 = @ + 1], [after EXCEPT !.tg512 = @ + 1] } = {a, b, c, d}
      BY DEF a, b, c, d
<1>5. BetterPatchStillPasses(before, after) <=> (passes(after) => \A x \in {a, b, c, d} : passes(x))
      BY <1>4 DEF BetterPatchStillPasses
<1>6. ASSUME passes(after)
      PROVE  passes(a) /\ passes(b) /\ passes(c) /\ passes(d)
  <2>1. PatchShown(before, after)
    <3>1. /\ before.latency # Unknown => after.latency # Unknown
          /\ before.memory # Unknown => after.memory # Unknown
          BY Zenon
    <3>2. after.latency \in Int \cup {Unknown} /\ after.memory \in Int \cup {Unknown}
          BY <1>1
    <3> QED  BY <1>1, <1>6, <3>1, <3>2, PatchesShow
  <2>2. after.latency # Unknown /\ after.memory # Unknown  BY <2>1 DEF PatchShown
  <2>3. passes(a)
    <3>1. PatchShown(before, a)  BY <1>1, <1>2, <1>3, <2>1, <2>2 DEF PatchShown
    <3>2. a.latency \in Int /\ a.memory \in Int  BY <1>1, <1>2, <2>2
    <3> QED  BY <1>1, <1>2, <1>3, <3>1, <3>2, PatchesShow
  <2>4. passes(b)
    <3>1. PatchShown(before, b)  BY <1>1, <1>2, <1>3, <2>1, <2>2 DEF PatchShown
    <3>2. b.latency \in Int /\ b.memory \in Int  BY <1>1, <1>2, <2>2
    <3> QED  BY <1>1, <1>2, <1>3, <3>1, <3>2, PatchesShow
  <2>5. passes(c)
    <3>1. PatchShown(before, c)  BY <1>1, <1>2, <1>3, <2>1, <2>2 DEF PatchShown
    <3>2. /\ c.latency \in Int /\ c.latency # Unknown /\ c.memory \in Int /\ c.memory # Unknown
          /\ c.operations \in Nat /\ c.tg128 \in Nat /\ c.tg512 \in Nat
          BY <1>1, <1>2, <2>2
    <3> QED  BY <3>1, <3>2, PatchesShow
  <2>6. passes(d)
    <3>1. PatchShown(before, d)  BY <1>1, <1>2, <1>3, <2>1, <2>2 DEF PatchShown
    <3>2. /\ d.latency \in Int /\ d.latency # Unknown /\ d.memory \in Int /\ d.memory # Unknown
          /\ d.operations \in Nat /\ d.tg128 \in Nat /\ d.tg512 \in Nat
          BY <1>1, <1>2, <2>2
    <3> QED  BY <3>1, <3>2, PatchesShow
  <2> QED  BY <2>3, <2>4, <2>5, <2>6
<1> QED  BY <1>5, <1>6

\* LossyProfilesDecideNothing for every profile.
THEOREM LossyProfilesAreInconclusive ==
  ASSUME NEW r, NEW e2e, NEW minimum
  PROVE  LossyProfilesDecideNothing(r, e2e, minimum)
<1> DEFINE e == MemoryTraceFromRocm(r, e2e, TRUE)
<1>1. /\ e.succeeded = (r.exit = 0) /\ e.complete = (r.status = "completed")
      /\ e.coverage = (IF r.status = "completed" /\ ~r.warnings THEN 100 ELSE Unknown)
      /\ e.missing = { gap \in {"allocations", "copies", "bytes"} :
                        \/ gap = "allocations" /\ r.allocationCount > 0 /\ r.allocations = << >>
                        \/ gap = "copies" /\ r.copyCount > 0 /\ r.copies = << >>
                        \/ gap = "bytes" /\ ~r.copyBytes /\ r.copies # << >> }
      BY DEF MemoryTraceFromRocm
<1>2. ~TraceSuffices(e) => AuditMemoryReuse(e, minimum).outcome = "INCONCLUSIVE"
      BY DEF AuditMemoryReuse
<1> HIDE DEF e
<1>3. (\/ r.status # "completed" \/ r.warnings \/ r.exit # 0
       \/ (r.copies # << >> /\ ~r.copyBytes)) => ~TraceSuffices(e)
      BY <1>1 DEF TraceSuffices
<1> QED  BY <1>2, <1>3, Zenon DEF LossyProfilesDecideNothing, e

-----------------------------------------------------------------------------
(* Packed kernels                                                          *)

ScreenedArm == [waves : Nat, paired : BOOLEAN, q3 : BOOLEAN, verified : BOOLEAN, cv : Nat, mean : Nat]

\* ScreensAreFair for every pair of arms: a faster candidate is promoted where a slower
\* one was, and unstable or unverified arms decide nothing.
THEOREM ScreensAreFairForAll ==
  ASSUME NEW before \in ScreenedArm, NEW after \in ScreenedArm, NEW faster \in Nat
  PROVE  ScreensAreFair(before, after, faster)
<1> DEFINE c == [after EXCEPT !.mean = faster]
<1>1. /\ c.mean = faster /\ c.waves = after.waves /\ c.paired = after.paired /\ c.q3 = after.q3
      /\ c.verified = after.verified /\ c.cv = after.cv
      /\ after.mean \in Nat /\ before.mean \in Nat
      BY DEF ScreenedArm
<1>2. Refused # "PROMOTE" /\ Refused # "REJECT"  BY RefusalsAssumption
<1> HIDE DEF c
<1>3. ASSUME NEW gain \in {1, 2}, faster >= after.mean, ScreenArms(before, after, 2, gain) = "PROMOTE"
      PROVE  ScreenArms(before, c, 2, gain) = "PROMOTE"
      BY <1>1, <1>3 DEF ScreenArms
<1>4. faster >= after.mean =>
        /\ ScreenGateUpMapping(before, after, 2, 1) = "PROMOTE" =>
             ScreenGateUpMapping(before, c, 2, 1) = "PROMOTE"
        /\ ScreenGateUpPairRuntime(before, after, 2, 1) = "PROMOTE" =>
             ScreenGateUpPairRuntime(before, c, 2, 1) = "PROMOTE"
        /\ ScreenGateQ3Runtime(before, after, 2, 2) = "PROMOTE" =>
             ScreenGateQ3Runtime(before, c, 2, 2) = "PROMOTE"
      BY <1>1, <1>2, <1>3 DEF ScreenGateUpMapping, ScreenGateUpPairRuntime, ScreenGateQ3Runtime
<1>5. (before.cv > 2 \/ after.cv > 2 \/ ~after.verified) =>
        { ScreenGateUpMapping(before, after, 2, 1), ScreenGateUpPairRuntime(before, after, 2, 1),
          ScreenGateQ3Runtime(before, after, 2, 2) } \cap {"PROMOTE", "REJECT"} = {}
      BY <1>2 DEF ScreenGateUpMapping, ScreenGateUpPairRuntime, ScreenGateQ3Runtime, ScreenArms
<1> QED  BY <1>4, <1>5 DEF ScreensAreFair, c

\* PromotionIsMonotone for every microbenchmark and every final evidence.
THEOREM PromotionIsMonotoneForAll ==
  ASSUME NEW result \in [error : Nat, cv : Nat, gain : Int, reduction : Int],
         NEW evidence \in [ profiled : BOOLEAN, correct : BOOLEAN, tg128 : Int, tg512 : Int,
                            baselineNs : Nat, candidateNs : Nat, extra : Int, total : Nat ],
         NEW policy \in [tg128 : Int, tg512 : Int, vram : Nat]
  PROVE  PromotionIsMonotone(result, evidence, policy)
<1> DEFINE r == [result EXCEPT !.gain = @ + 1, !.cv = 0]
           e == [evidence EXCEPT !.tg128 = @ + 1]
           f == [evidence EXCEPT !.candidateNs = @ - 1]
           g == [evidence EXCEPT !.extra = @ - 1]
           promotes(x) == EvaluateGateUpPairFinal(x, policy) = "PROMOTE"
<1>1. /\ r.gain = result.gain + 1 /\ r.cv = 0 /\ r.error = result.error /\ r.reduction = result.reduction
      /\ result.gain \in Int
      OBVIOUS
<1>2. \A x : promotes(x) <=>
        /\ x.profiled /\ x.correct /\ x.tg128 >= policy.tg128 /\ x.tg512 >= policy.tg512
        /\ x.candidateNs < x.baselineNs /\ 100 * x.extra <= policy.vram * x.total
      BY DEF EvaluateGateUpPairFinal
<1>3. /\ e.tg128 = evidence.tg128 + 1 /\ f.candidateNs = evidence.candidateNs - 1 /\ g.extra = evidence.extra - 1
      /\ \A x \in {e, f, g} : /\ x.profiled = evidence.profiled /\ x.correct = evidence.correct
                              /\ x.tg512 = evidence.tg512 /\ x.baselineNs = evidence.baselineNs
                              /\ x.total = evidence.total
      /\ e.candidateNs = evidence.candidateNs /\ e.extra = evidence.extra
      /\ f.tg128 = evidence.tg128 /\ f.extra = evidence.extra
      /\ g.tg128 = evidence.tg128 /\ g.candidateNs = evidence.candidateNs
      OBVIOUS
<1>4. { [evidence EXCEPT !.tg128 = @ + 1], [evidence EXCEPT !.candidateNs = @ - 1],
        [evidence EXCEPT !.extra = @ - 1] } = {e, f, g}
      OBVIOUS
<1>5. PromotionIsMonotone(result, evidence, policy) <=>
        /\ ScreenGateQ3Microbenchmark(result, 1, 2) = "PROMOTE" =>
             /\ ScreenGateUpPairLoad(result, 1, 1) = "PROMOTE"
             /\ ScreenGateQ3Microbenchmark(r, 1, 2) = "PROMOTE"
        /\ result.error # 0 => ScreenGateUpPairLoad(result, 1, 1) = "REJECT"
        /\ promotes(evidence) => \A b \in {e, f, g} : promotes(b)
      BY DEF PromotionIsMonotone
<1> HIDE DEF r
<1>6. /\ ScreenGateQ3Microbenchmark(result, 1, 2) = "PROMOTE" =>
           /\ ScreenGateUpPairLoad(result, 1, 1) = "PROMOTE"
           /\ ScreenGateQ3Microbenchmark(r, 1, 2) = "PROMOTE"
      /\ result.error # 0 => ScreenGateUpPairLoad(result, 1, 1) = "REJECT"
      BY <1>1 DEF ScreenGateQ3Microbenchmark, ScreenGateUpPairLoad
<1> DEFINE bound == policy.vram * evidence.total
<1>7. bound \in Int /\ evidence.extra \in Int /\ evidence.tg128 \in Int /\ policy.tg128 \in Int
      /\ evidence.candidateNs \in Int /\ evidence.baselineNs \in Int
      OBVIOUS
<1>8. promotes(evidence) => promotes(e) /\ promotes(f) /\ promotes(g)
  <2> HIDE DEF e, f, g
  <2> HAVE promotes(evidence)
  <2>1. /\ evidence.profiled /\ evidence.correct /\ evidence.tg128 >= policy.tg128 /\ evidence.tg512 >= policy.tg512
        /\ evidence.candidateNs < evidence.baselineNs /\ 100 * evidence.extra <= bound
        BY <1>2
  <2>2. \A x \in {e, f, g} : policy.vram * x.total = bound  BY <1>3
  <2> HIDE DEF bound, promotes
  <2>3. \A x \in {e, f, g} :
          /\ x.profiled /\ x.correct /\ x.tg128 >= policy.tg128 /\ x.tg512 >= policy.tg512
          /\ x.candidateNs < x.baselineNs /\ 100 * x.extra <= bound
    <3>1. \A x \in {e, f, g} : /\ x.profiled <=> evidence.profiled
                              /\ x.correct <=> evidence.correct
          BY <1>3, Zenon
    <3>2. /\ e.tg512 = evidence.tg512 /\ e.baselineNs = evidence.baselineNs
          /\ f.tg512 = evidence.tg512 /\ f.baselineNs = evidence.baselineNs
          /\ g.tg512 = evidence.tg512 /\ g.baselineNs = evidence.baselineNs
          BY <1>3
    <3> DEFINE fine(x) == /\ x.profiled /\ x.correct /\ x.tg128 >= policy.tg128 /\ x.tg512 >= policy.tg512
                          /\ x.candidateNs < x.baselineNs /\ 100 * x.extra <= bound
    <3>3. fine(e)  BY <1>3, <1>7, <2>1, <3>1, <3>2
    <3>4. fine(f)  BY <1>3, <1>7, <2>1, <3>1, <3>2
    <3>5. fine(g)  BY <1>3, <1>7, <2>1, <3>1, <3>2
    <3> QED  BY <3>3, <3>4, <3>5
  <2> QED  BY <1>2, <2>2, <2>3
<1> HIDE DEF e, f, g, promotes
<1> QED  BY <1>5, <1>6, <1>8

-----------------------------------------------------------------------------
(* Mixed precision                                                         *)

\* The order of the tensors is respected by their ranks.
LEMMA RanksFollowScores ==
  ASSUME NEW eligible, IsFiniteSet(eligible), NEW scores, NEW t \in eligible, NEW u \in eligible,
         \A v \in eligible : scores[v] \in Int /\ v \in Nat, scores[t] < scores[u]
  PROVE  /\ TierRank(eligible, scores, t) \in Nat /\ TierRank(eligible, scores, u) \in Nat
         /\ TierRank(eligible, scores, t) <= TierRank(eligible, scores, u)
<1> DEFINE before(w) == { v \in eligible : scores[v] < scores[w] \/ (scores[v] = scores[w] /\ v < w) }
<1>1. before(t) \subseteq before(u)  OBVIOUS
<1>2. before(u) \subseteq eligible  OBVIOUS
<1>3. IsFiniteSet(before(u))  BY <1>2, FS_Subset
<1>4. IsFiniteSet(before(t)) /\ Cardinality(before(t)) <= Cardinality(before(u))  BY <1>1, <1>3, FS_Subset
<1>5. Cardinality(before(t)) \in Nat /\ Cardinality(before(u)) \in Nat  BY <1>3, <1>4, FS_CardinalityType
<1> QED  BY <1>4, <1>5 DEF TierRank

\* A tensor with a lower rank gets no more bits.
LEMMA TiersFollowRanks ==
  ASSUME NEW m \in Nat, NEW n \in Nat, NEW q4 \in Int, NEW q5 \in Int, m <= n,
         NEW p, NEW q,
         p = (IF m < q4 THEN "Q4_K" ELSE IF m < q4 + q5 THEN "Q5_K" ELSE "Q6_K"),
         q = (IF n < q4 THEN "Q4_K" ELSE IF n < q4 + q5 THEN "Q5_K" ELSE "Q6_K")
  PROVE  Bits[p] <= Bits[q]
<1>1. Bits["Q4_K"] = 4 /\ Bits["Q5_K"] = 5 /\ Bits["Q6_K"] = 6  BY DEF Bits
<1>2. CASE n < q4  BY <1>1, <1>2
<1>3. CASE ~(n < q4) /\ m < q4  BY <1>1, <1>3
<1>4. CASE ~(n < q4) /\ ~(m < q4)  BY <1>1, <1>4
<1> QED  BY <1>2, <1>3, <1>4

TensorEntry == [group : STRING, protected : BOOLEAN, quantizable : BOOLEAN, precision : STRING, elements : Nat, bytes : Nat]

\* A rounded share of a number is an integer.
LEMMA RoundedIsAnInteger ==
  ASSUME NEW n \in Nat, NEW percent \in Nat
  PROVE  Rounded(n, percent) \in Int
<1> DEFINE e == n * percent
<1>1. e \in Nat  OBVIOUS
<1> HIDE DEF e
<1>2. e \div 100 \in Int /\ e % 100 \in Int  BY <1>1
<1>3. Rounded(n, percent) = IF e % 100 > 50 \/ (e % 100 = 50 /\ (e \div 100) % 2 = 1) THEN e \div 100 + 1 ELSE e \div 100
      BY DEF Rounded, e
<1> QED  BY <1>2, <1>3

\* SensitiveTensorsKeepBits for every inventory, all scores and every search point:
\* a tier of mixed_precision.py takes bits from the least sensitive tensors first.
THEOREM SensitiveTensorsKeepTheirBits ==
  ASSUME NEW inventory, IsFiniteSet(DOMAIN inventory), DOMAIN inventory \subseteq Nat,
         \A t \in DOMAIN inventory : inventory[t] \in TensorEntry,
         NEW scores, \A t \in DOMAIN scores : scores[t] \in Int,
         NEW point \in [id : STRING, groups : SUBSET STRING, q4 : 0 .. 100, q5 : 0 .. 100]
  PROVE  SensitiveTensorsKeepBits(inventory, scores, point)
<1> DEFINE policy == TierPolicy(inventory, scores, point, "Q8_0")
           whole == WholeModelPolicy(inventory, scores, "Q4_K", "Q8_0")
           eligible == EligibleFor(inventory, point)
           q4 == Rounded(Cardinality(eligible), point.q4)
           q5 == Rounded(Cardinality(eligible), point.q5)
           rank(t) == TierRank(eligible, scores, t)
           tier(t) == IF rank(t) < q4 THEN "Q4_K" ELSE IF rank(t) < q4 + q5 THEN "Q5_K" ELSE "Q6_K"
<1>1. SUFFICES ASSUME policy # Refused
               PROVE  /\ \A t, u \in eligible : scores[t] < scores[u] =>
                           Bits[policy[t].precision] <= Bits[policy[u].precision]
                      /\ \A t \in DOMAIN inventory :
                           inventory[t].protected \/ ~inventory[t].quantizable => policy[t] = whole[t]
                      /\ AssignmentProblems(policy, [t \in DOMAIN inventory |->
                            [inventory[t] EXCEPT !.precision = policy[t].precision]]) = {}
      BY DEF SensitiveTensorsKeepBits
<1>2. eligible \subseteq DOMAIN inventory /\ \A t \in eligible : inventory[t].quantizable /\ ~inventory[t].protected
      BY DEF EligibleFor
<1>3. eligible \subseteq DOMAIN scores /\ \A t \in eligible : t \in DOMAIN scores
      BY <1>1 DEF TierPolicy
<1>4. /\ DOMAIN policy = DOMAIN inventory
      /\ \A t \in DOMAIN inventory :
           /\ ~inventory[t].quantizable => policy[t] = Assign(inventory[t].precision, ScoreOf(scores, t), "preserved")
           /\ inventory[t].quantizable /\ inventory[t].protected =>
                policy[t] = Assign("Q8_0", ScoreOf(scores, t), "protected")
           /\ t \in eligible => policy[t].precision = tier(t)
      BY <1>1, <1>2, <1>3 DEF TierPolicy, Assign
<1>5. IsFiniteSet(eligible) /\ Cardinality(eligible) \in Nat
      BY <1>2, FS_Subset, FS_CardinalityType
<1>6. q4 \in Int /\ q5 \in Int
  <2>1. point.q4 \in Nat /\ point.q5 \in Nat  OBVIOUS
  <2> HIDE DEF eligible
  <2> QED  BY <1>5, <2>1, RoundedIsAnInteger
<1>7. ASSUME NEW t \in eligible, NEW u \in eligible, scores[t] < scores[u]
      PROVE  Bits[policy[t].precision] <= Bits[policy[u].precision]
  <2>1. \A v \in eligible : scores[v] \in Int /\ v \in Nat  BY <1>2, <1>3
  <2> HIDE DEF eligible
  <2>2. rank(t) \in Nat /\ rank(u) \in Nat /\ rank(t) <= rank(u)
        BY <1>5, <1>7, <2>1, RanksFollowScores
  <2>3. policy[t].precision = tier(t) /\ policy[u].precision = tier(u)  BY <1>2, <1>4, <1>7
  <2> HIDE DEF rank, q4, q5, policy
  <2> QED  BY <1>6, <2>2, <2>3, TiersFollowRanks
<1>8. ASSUME NEW t \in DOMAIN inventory, inventory[t].protected \/ ~inventory[t].quantizable
      PROVE  policy[t] = whole[t]
  <2>1. whole[t] = IF ~inventory[t].quantizable THEN Assign(inventory[t].precision, ScoreOf(scores, t), "preserved")
                   ELSE Assign("Q8_0", ScoreOf(scores, t), "protected")
        BY <1>8 DEF WholeModelPolicy
  <2> HIDE DEF policy, whole
  <2> QED  BY <1>4, <1>8, <2>1
<1>9. AssignmentProblems(policy, [t \in DOMAIN inventory |->
         [inventory[t] EXCEPT !.precision = policy[t].precision]]) = {}
  <2> DEFINE packed == [t \in DOMAIN inventory |-> [inventory[t] EXCEPT !.precision = policy[t].precision]]
  <2>1. DOMAIN packed = DOMAIN policy  BY <1>4
  <2> HIDE DEF policy
  <2>2. \A t \in DOMAIN inventory : packed[t].precision = policy[t].precision  BY DEF TensorEntry
  <2> HIDE DEF packed
  <2>3. AssignmentProblems(policy, packed) = {}  BY <1>4, <2>1, <2>2 DEF AssignmentProblems
  <2> QED  BY <2>3 DEF packed
<1> QED  BY <1>7, <1>8, <1>9

-----------------------------------------------------------------------------
(* Evidence of a server                                                    *)

Hash == {Unknown} \cup ({0, 1} \X BOOLEAN)

\* What is left of evidence that is judged: all but the verdict and native.
SameFacts(e, f) ==
  /\ e.bound <=> f.bound
  /\ e.exe = f.exe /\ e.manifest = f.manifest /\ (e.environment <=> f.environment)
  /\ e.declaredHash = f.declaredHash /\ e.declared = f.declared /\ e.unsetAbsent = f.unsetAbsent
  /\ (e.inherited <=> f.inherited) /\ e.outer = f.outer

Evidence == [ verification : {"VERIFIED", "UNVERIFIED", "MISMATCH"}, bound : BOOLEAN, exe : Int \cup {Unknown},
              native : BOOLEAN \cup {Unknown}, manifest : Int \cup {Unknown}, environment : BOOLEAN,
              declaredHash : Hash, declared : BOOLEAN \cup {Unknown}, unsetAbsent : BOOLEAN \cup {Unknown},
              inherited : BOOLEAN,
              outer : [ container : BOOLEAN, image : BOOLEAN, kind : STRING \cup {Unknown},
                        processBinding : Int \cup {Unknown}, containerBinding : Int \cup {Unknown},
                        digests : SUBSET Int, digestMatches : BOOLEAN \cup {Unknown} ] ]

\* Another verdict, or another finding about the executable, leaves the facts.
LEMMA VerdictChanges ==
  ASSUME NEW e \in Evidence, NEW v \in {"VERIFIED", "UNVERIFIED", "MISMATCH"}, NEW n \in BOOLEAN
  PROVE  /\ [e EXCEPT !.verification = v] \in Evidence /\ [e EXCEPT !.verification = v].verification = v
         /\ SameFacts([e EXCEPT !.verification = v], e)
         /\ [e EXCEPT !.native = n] \in Evidence /\ [e EXCEPT !.native = n].verification = e.verification
         /\ SameFacts([e EXCEPT !.native = n], e)
<1>1. [e EXCEPT !.verification = v] \in Evidence /\ [e EXCEPT !.native = n] \in Evidence  BY ZenonT(40) DEF Evidence
<1>2. [e EXCEPT !.verification = v].verification = v /\ [e EXCEPT !.native = n].verification = e.verification
      BY DEF Evidence
<1>3. SameFacts([e EXCEPT !.verification = v], e)  BY Zenon DEF Evidence, SameFacts
<1>4. SameFacts([e EXCEPT !.native = n], e)  BY Zenon DEF Evidence, SameFacts
<1> QED  BY <1>1, <1>2, <1>3, <1>4

\* Evidence is judged to be v, and keeps its facts.
Judged(j, e, v) == j \in Evidence /\ SameFacts(j, e) /\ j.verification = v

\* A verdict replaces the one before and leaves the facts.
LEMMA VerdictsReplace ==
  ASSUME NEW e \in Evidence
  PROVE  /\ Judged(e, e, e.verification)
         /\ Judged(Mismatch(e), e, "MISMATCH")
         /\ Judged(Unverified(e), e, "UNVERIFIED")
<1>1. SameFacts(e, e)  BY DEF SameFacts
<1> QED  BY <1>1, VerdictChanges DEF Judged, Mismatch, Unverified

\* What the executable decides.
LEMMA IdentityIsJudged ==
  ASSUME NEW e \in Evidence
  PROVE  LET j == JudgeIdentity(e)
         IN  /\ j \in Evidence /\ SameFacts(j, e)
             /\ j.verification = IF ~e.bound \/ (e.exe # Unknown /\ e.exe # 0) THEN "MISMATCH"
                                 ELSE IF e.exe = Unknown /\ e.verification = "VERIFIED" THEN "UNVERIFIED"
                                 ELSE e.verification
<1>1. \A f \in Evidence : SameFacts(f, f)  BY DEF SameFacts
<1>2. CASE ~e.bound
  <2>1. JudgeIdentity(e) = Mismatch(e)  BY <1>2 DEF JudgeIdentity
  <2> QED  BY <1>2, <2>1, VerdictsReplace DEF Judged
<1>3. CASE e.bound /\ e.exe = Unknown
  <2>1. CASE e.verification = "VERIFIED"
    <3>1. JudgeIdentity(e) = Unverified(e)  BY <1>3, <2>1 DEF JudgeIdentity
    <3> QED  BY <1>3, <2>1, <3>1, VerdictsReplace DEF Judged
  <2>2. CASE e.verification # "VERIFIED"
    <3>1. JudgeIdentity(e) = e  BY <1>3, <2>2 DEF JudgeIdentity
    <3> QED  BY <1>1, <1>3, <2>2, <3>1
  <2> QED  BY <2>1, <2>2
<1>4. CASE e.bound /\ e.exe # Unknown /\ e.exe # 0
  <2>1. Mismatch(e) \in Evidence /\ SameFacts(Mismatch(e), e) /\ Mismatch(e).verification = "MISMATCH"
        BY VerdictChanges DEF Mismatch
  <2>2. JudgeIdentity(e) = [Mismatch(e) EXCEPT !.native = FALSE]
        BY <1>4, Zenon DEF JudgeIdentity
  <2>3. /\ JudgeIdentity(e) \in Evidence /\ SameFacts(JudgeIdentity(e), Mismatch(e))
        /\ JudgeIdentity(e).verification = "MISMATCH"
    <3>1. \A f \in Evidence :
            /\ [f EXCEPT !.native = FALSE] \in Evidence /\ SameFacts([f EXCEPT !.native = FALSE], f)
            /\ [f EXCEPT !.native = FALSE].verification = f.verification
          BY VerdictChanges
    <3> HIDE DEF Mismatch
    <3> QED  BY <2>1, <2>2, <3>1, Zenon
  <2> QED  BY <1>4, <2>1, <2>3 DEF SameFacts
<1>5. CASE e.bound /\ e.exe # Unknown /\ e.exe = 0
      BY <1>5, VerdictChanges DEF JudgeIdentity
<1> QED  BY <1>2, <1>3, <1>4, <1>5

\* What contradicts the declared environment, and what leaves it open.
EnvironmentContradicts(e) ==
  \/ e.declared = FALSE \/ e.unsetAbsent = FALSE \/ e.inherited
  \/ e.declaredHash \notin {Unknown, << 0, TRUE >>}

EnvironmentIsOpen(e) ==
  \/ e.declared # TRUE \/ e.unsetAbsent # TRUE
  \/ e.declaredHash # << 0, TRUE >> \/ ~e.environment

\* What the environment decides, ...
LEMMA EnvironmentIsJudged ==
  ASSUME NEW e \in Evidence
  PROVE  Judged(JudgeEnvironment(e), e,
                IF e.verification = "MISMATCH" \/ EnvironmentContradicts(e) THEN "MISMATCH"
                ELSE IF EnvironmentIsOpen(e) THEN "UNVERIFIED" ELSE e.verification)
<1>1. JudgeEnvironment(e) = IF e.verification = "MISMATCH" THEN e
                            ELSE IF EnvironmentContradicts(e) THEN Mismatch(e)
                            ELSE IF EnvironmentIsOpen(e) THEN Unverified(e) ELSE e
      BY Zenon DEF JudgeEnvironment, EnvironmentContradicts, EnvironmentIsOpen
<1>2. CASE e.verification = "MISMATCH"  BY <1>1, <1>2, VerdictsReplace
<1>3. CASE e.verification # "MISMATCH" /\ EnvironmentContradicts(e)  BY <1>1, <1>3, VerdictsReplace
<1>4. CASE e.verification # "MISMATCH" /\ ~EnvironmentContradicts(e) /\ EnvironmentIsOpen(e)
      BY <1>1, <1>4, VerdictsReplace
<1>5. CASE e.verification # "MISMATCH" /\ ~EnvironmentContradicts(e) /\ ~EnvironmentIsOpen(e)
      BY <1>1, <1>5, VerdictsReplace
<1> QED  BY <1>2, <1>3, <1>4, <1>5

\* ... what the manifest of the packages decides ...
LEMMA ManifestIsJudged ==
  ASSUME NEW e \in Evidence
  PROVE  Judged(JudgeManifest(e), e,
                IF e.verification = "MISMATCH" \/ (e.manifest # Unknown /\ e.manifest # 0) THEN "MISMATCH"
                ELSE IF e.manifest = Unknown THEN "UNVERIFIED" ELSE e.verification)
<1>1. CASE e.verification = "MISMATCH"  BY <1>1, VerdictsReplace DEF JudgeManifest
<1>2. CASE e.verification # "MISMATCH" /\ e.manifest = Unknown  BY <1>2, VerdictsReplace DEF JudgeManifest
<1>3. CASE e.verification # "MISMATCH" /\ e.manifest # Unknown /\ e.manifest # 0
      BY <1>3, VerdictsReplace DEF JudgeManifest
<1>4. CASE e.verification # "MISMATCH" /\ e.manifest # Unknown /\ e.manifest = 0
      BY <1>4, VerdictsReplace DEF JudgeManifest
<1> QED  BY <1>1, <1>2, <1>3, <1>4

\* ... and what the container decides, when an image is pinned.
LEMMA ContainerIsJudged ==
  ASSUME NEW e \in Evidence, NEW spec
  PROVE  Judged(JudgeContainer(spec, e), e,
                IF e.verification = "MISMATCH" \/ (spec.image /\ OuterContradicts(e.outer)) THEN "MISMATCH"
                ELSE IF spec.image /\ ~OuterBinds(e.outer) THEN "UNVERIFIED" ELSE e.verification)
<1>1. JudgeContainer(spec, e) = IF ~spec.image \/ e.verification = "MISMATCH" THEN e
                                ELSE IF OuterContradicts(e.outer) THEN Mismatch(e)
                                ELSE IF ~OuterBinds(e.outer) THEN Unverified(e) ELSE e
      BY Zenon DEF JudgeContainer
<1>2. CASE ~spec.image \/ e.verification = "MISMATCH"  BY <1>1, <1>2, VerdictsReplace
<1>3. CASE spec.image /\ e.verification # "MISMATCH" /\ OuterContradicts(e.outer)  BY <1>1, <1>3, VerdictsReplace
<1>4. CASE spec.image /\ e.verification # "MISMATCH" /\ ~OuterContradicts(e.outer) /\ ~OuterBinds(e.outer)
      BY <1>1, <1>4, VerdictsReplace
<1>5. CASE spec.image /\ e.verification # "MISMATCH" /\ ~OuterContradicts(e.outer) /\ OuterBinds(e.outer)
      BY <1>1, <1>5, VerdictsReplace
<1> QED  BY <1>2, <1>3, <1>4, <1>5

\* EvidenceIsJudged for every claim of an inspector.
THEOREM EveryClaimIsJudged ==
  ASSUME NEW spec, NEW evidence \in Evidence
  PROVE  EvidenceIsJudged(spec, evidence)
<1> DEFINE a == JudgeIdentity(evidence)
           b == JudgeEnvironment(a)
           c == JudgeManifest(b)
           d == JudgeContainer(spec, c)
           contradicted ==
             \/ ~evidence.bound \/ evidence.exe \notin {Unknown, 0} \/ evidence.manifest \notin {Unknown, 0}
             \/ evidence.declared = FALSE \/ evidence.unsetAbsent = FALSE \/ evidence.inherited
             \/ evidence.declaredHash \notin {Unknown, << 0, TRUE >>}
             \/ spec.image /\ OuterContradicts(evidence.outer)
<1>1. /\ a \in Evidence /\ SameFacts(a, evidence)
      /\ a.verification = IF ~evidence.bound \/ (evidence.exe # Unknown /\ evidence.exe # 0) THEN "MISMATCH"
                          ELSE IF evidence.exe = Unknown /\ evidence.verification = "VERIFIED" THEN "UNVERIFIED"
                          ELSE evidence.verification
      BY IdentityIsJudged
<1>2. Judged(b, a, IF a.verification = "MISMATCH" \/ EnvironmentContradicts(a) THEN "MISMATCH"
                   ELSE IF EnvironmentIsOpen(a) THEN "UNVERIFIED" ELSE a.verification)
      BY <1>1, EnvironmentIsJudged
<1>3. Judged(c, b, IF b.verification = "MISMATCH" \/ (b.manifest # Unknown /\ b.manifest # 0) THEN "MISMATCH"
                   ELSE IF b.manifest = Unknown THEN "UNVERIFIED" ELSE b.verification)
      BY <1>2, ManifestIsJudged DEF Judged
<1>4. Judged(d, c, IF c.verification = "MISMATCH" \/ (spec.image /\ OuterContradicts(c.outer)) THEN "MISMATCH"
                   ELSE IF spec.image /\ ~OuterBinds(c.outer) THEN "UNVERIFIED" ELSE c.verification)
      BY <1>3, ContainerIsJudged DEF Judged
<1>5. EvidenceIsJudged(spec, evidence) <=>
        /\ d.verification = "VERIFIED" =>
             /\ evidence.verification = "VERIFIED" /\ evidence.bound
             /\ evidence.exe = 0 /\ evidence.manifest = 0
             /\ evidence.environment /\ evidence.declaredHash = << 0, TRUE >>
             /\ spec.image => evidence.outer.processBinding = evidence.outer.containerBinding
        /\ d.verification = "MISMATCH" <=> (contradicted \/ evidence.verification = "MISMATCH")
      BY Zenon DEF EvidenceIsJudged, RecordRuntimeEvidence
<1> HIDE DEF a, b, c, d
<1>6. /\ EnvironmentContradicts(a) <=> EnvironmentContradicts(evidence)
      /\ EnvironmentIsOpen(a) <=> EnvironmentIsOpen(evidence)
      /\ b.manifest = evidence.manifest /\ c.outer = evidence.outer
      BY <1>1, <1>2, <1>3 DEF Judged, SameFacts, EnvironmentContradicts, EnvironmentIsOpen
<1>7. contradicted <=> \/ ~evidence.bound \/ (evidence.exe # Unknown /\ evidence.exe # 0)
                       \/ evidence.manifest # Unknown /\ evidence.manifest # 0
                       \/ EnvironmentContradicts(evidence)
                       \/ spec.image /\ OuterContradicts(evidence.outer)
      BY DEF EnvironmentContradicts
<1> HIDE DEF contradicted
<1>8. d.verification = "MISMATCH" <=> (contradicted \/ evidence.verification = "MISMATCH")
      BY <1>1, <1>2, <1>3, <1>4, <1>6, <1>7 DEF Judged
<1>9. d.verification = "VERIFIED" =>
        /\ evidence.verification = "VERIFIED" /\ ~contradicted /\ ~EnvironmentIsOpen(evidence)
        /\ evidence.exe # Unknown /\ evidence.manifest # Unknown
        /\ spec.image => OuterBinds(evidence.outer)
      BY <1>1, <1>2, <1>3, <1>4, <1>6, <1>7 DEF Judged
<1>10. d.verification = "VERIFIED" =>
        /\ evidence.verification = "VERIFIED" /\ evidence.bound
        /\ evidence.exe = 0 /\ evidence.manifest = 0
        /\ evidence.environment /\ evidence.declaredHash = << 0, TRUE >>
        /\ spec.image => evidence.outer.processBinding = evidence.outer.containerBinding
      BY <1>7, <1>9 DEF EnvironmentIsOpen, OuterBinds
<1> QED  BY <1>5, <1>8, <1>10

-----------------------------------------------------------------------------
(* The window around a benchmark                                           *)

Figure == Nat \cup {Unknown}

Telemetry == [ uuid : STRING, bdf : STRING, compute : STRING, memory : STRING, partition : Int,
               gfxclk : Figure, uclk : Figure, power : Figure, hotspot : Figure,
               throttled : BOOLEAN \cup {Unknown}, powerViolation : Figure, thermalViolation : Figure ]

\* Two clocks that are known have not drifted when they run and are alike.
LEMMA ClocksAreAlike ==
  ASSUME NEW config, config.tolerance \in Nat, NEW x \in Nat, NEW y \in Nat
  PROVE  ~ClockDrifts(config, x, y) <=>
           /\ x + y > 0
           /\ x * (100 - config.tolerance) <= y * 100 /\ y * (100 - config.tolerance) <= x * 100
<1> DEFINE t == config.tolerance
           tx == t * x
           ty == t * y
<1>1. Unknown # x /\ Unknown # y  BY RefusalsAssumption
<1>2. tx \in Nat /\ ty \in Nat
      /\ x * (100 - t) = 100 * x - tx /\ y * (100 - t) = 100 * y - ty
      OBVIOUS
<1>3. ClockDrifts(config, x, y) <=>
        IF x > y THEN x = 0 \/ 100 * (x - y) > tx ELSE y = 0 \/ 100 * (y - x) > ty
      BY <1>1 DEF ClockDrifts
<1> HIDE DEF tx, ty
<1> QED  BY <1>2, <1>3

\* A sample gives no reason to distrust its window.
Calm(config, s) ==
  /\ s.uuid = config.uuid /\ s.bdf = config.bdf
  /\ << s.compute, s.memory, s.partition >> = << config.compute, config.memory, config.partition >>
  /\ Unknown \notin { s.gfxclk, s.uclk, s.power, s.hotspot }
  /\ s.throttled = FALSE
  /\ ~(s.hotspot # Unknown /\ s.hotspot > config.maxTemperature)
  /\ ~(s.powerViolation # Unknown /\ s.powerViolation > 0)
  /\ ~(s.thermalViolation # Unknown /\ s.thermalViolation > 0)

\* A sample without a reason is a calm one.
LEMMA ReasonsAreNamed ==
  ASSUME NEW config, NEW s
  PROVE  SampleReasons(config, s) = {} <=> Calm(config, s)
<1> DEFINE names == {"device", "partition", "missing", "throttled", "hot", "violation"}
           holds(r) ==
      CASE r = "device"    -> s.uuid # config.uuid \/ s.bdf # config.bdf
        [] r = "partition" -> << s.compute, s.memory, s.partition >>
                                # << config.compute, config.memory, config.partition >>
        [] r = "missing"   -> Unknown \in { s.gfxclk, s.uclk, s.power, s.hotspot }
                              \/ s.throttled = Unknown
        [] r = "throttled" -> s.throttled # FALSE
        [] r = "hot"       -> s.hotspot # Unknown /\ s.hotspot > config.maxTemperature
        [] r = "violation" -> \/ s.powerViolation # Unknown /\ s.powerViolation > 0
                              \/ s.thermalViolation # Unknown /\ s.thermalViolation > 0
<1>1. SampleReasons(config, s) = {r \in names : holds(r)}  BY Zenon DEF SampleReasons
<1>2. /\ "device" # "partition" /\ "device" # "missing" /\ "device" # "throttled" /\ "device" # "hot"
      /\ "device" # "violation" /\ "partition" # "missing" /\ "partition" # "throttled" /\ "partition" # "hot"
      /\ "partition" # "violation" /\ "missing" # "throttled" /\ "missing" # "hot" /\ "missing" # "violation"
      /\ "throttled" # "hot" /\ "throttled" # "violation" /\ "hot" # "violation"
      OBVIOUS
<1>3. holds("device") <=> s.uuid # config.uuid \/ s.bdf # config.bdf  BY <1>2, Zenon
<1>4. holds("partition") <=> << s.compute, s.memory, s.partition >>
                               # << config.compute, config.memory, config.partition >>  BY <1>2, Zenon
<1>5. holds("missing") <=> Unknown \in { s.gfxclk, s.uclk, s.power, s.hotspot } \/ s.throttled = Unknown
      BY <1>2, Zenon
<1>6. holds("throttled") <=> s.throttled # FALSE  BY <1>2, Zenon
<1>7. holds("hot") <=> s.hotspot # Unknown /\ s.hotspot > config.maxTemperature  BY <1>2, Zenon
<1>8. holds("violation") <=> \/ s.powerViolation # Unknown /\ s.powerViolation > 0
                             \/ s.thermalViolation # Unknown /\ s.thermalViolation > 0  BY <1>2, Zenon
<1> HIDE DEF holds
<1>9. SampleReasons(config, s) = {} <=>
        ~holds("device") /\ ~holds("partition") /\ ~holds("missing") /\ ~holds("throttled")
        /\ ~holds("hot") /\ ~holds("violation")
      BY <1>1
<1>10. s.throttled = FALSE => s.throttled # Unknown  BY RefusalsAssumption
<1> QED  BY <1>3, <1>4, <1>5, <1>6, <1>7, <1>8, <1>9, <1>10, Zenon DEF Calm

\* StableWindowIsStable for every device that is there.
THEOREM StableWindowsAreStable ==
  ASSUME NEW config, config.tolerance \in Nat, config.maxTemperature \in Int,
         NEW handlesBefore, NEW handlesAfter,
         \A handles \in {handlesBefore, handlesAfter} : \A h \in handles :
           /\ h.gfxclk \in Figure /\ h.uclk \in Figure /\ h.power \in Figure /\ h.hotspot \in Figure
           /\ h.powerViolation \in Figure /\ h.thermalViolation \in Figure,
         \A capture, coordinates, stable :
           Refused # [ source |-> "observed", request |-> "own", capture |-> capture,
                       coordinates |-> coordinates, stable |-> stable ]
  PROVE  StableWindowIsStable(config, handlesBefore, handlesAfter)
<1> DEFINE before == CollectTelemetry(handlesBefore, config.uuid)
           after == CollectTelemetry(handlesAfter, config.uuid)
           token == [phase |-> "candidate", request |-> "own"]
           window == Finish(config, token, "candidate", "own", before, after)
           turned == Finish(config, token, "candidate", "own", after, before)
           cool(s) == /\ s.bdf = config.bdf /\ s.partition = config.partition
                      /\ s.compute = config.compute /\ s.memory = config.memory
                      /\ s.throttled = FALSE /\ s.power # Unknown
                      /\ s.hotspot # Unknown /\ s.hotspot <= config.maxTemperature
                      /\ s.powerViolation \in {Unknown, 0} /\ s.thermalViolation \in {Unknown, 0}
                      /\ s.gfxclk # Unknown /\ s.uclk # Unknown
           alike(x, y) == x * (100 - config.tolerance) <= y * 100 /\ y * (100 - config.tolerance) <= x * 100
           clocks(x, y) == x + y > 0 /\ alike(x, y)
           sample(s) == /\ s.uuid = config.uuid
                        /\ s.gfxclk \in Figure /\ s.uclk \in Figure /\ s.power \in Figure /\ s.hotspot \in Figure
                        /\ s.powerViolation \in Figure /\ s.thermalViolation \in Figure
<1>1. ASSUME NEW handles \in {handlesBefore, handlesAfter}, CollectTelemetry(handles, config.uuid) # Refused
      PROVE  sample(CollectTelemetry(handles, config.uuid))
  <2> DEFINE h == SelectDevice(handles, config.uuid)
  <2>1. h # Refused  BY <1>1 DEF CollectTelemetry
  <2>2. h \in handles
    <3> DEFINE partitions == { g \in handles : g.hip = config.uuid }
               matches == IF partitions # {} THEN partitions ELSE { g \in handles : g.physical = config.uuid }
    <3>1. h = (CHOOSE g \in matches : TRUE) /\ Cardinality(matches) = 1
          BY <2>1 DEF SelectDevice
    <3>2. matches \subseteq handles  OBVIOUS
    <3>3. Cardinality({}) = 0  BY FS_EmptySet
    <3> HIDE DEF matches
    <3>4. matches # {}  BY <3>1, <3>3
    <3> QED  BY <3>1, <3>2, <3>4
  <2> HIDE DEF h
  <2>3. CollectTelemetry(handles, config.uuid) =
          [ uuid |-> config.uuid, bdf |-> h.bdf, compute |-> h.compute, memory |-> h.memory, partition |-> h.partition,
            gfxclk |-> h.gfxclk, uclk |-> h.uclk, power |-> h.power, hotspot |-> h.hotspot,
            throttled |-> h.throttled, powerViolation |-> h.powerViolation, thermalViolation |-> h.thermalViolation ]
        BY <2>1 DEF CollectTelemetry, h
  <2> QED  BY <2>2, <2>3
<1>2. ASSUME NEW s, sample(s)
      PROVE  SampleReasons(config, s) = {} <=> cool(s)
  <2>1. Calm(config, s) <=> cool(s)  BY <1>2, RefusalsAssumption DEF Calm, Figure
  <2> QED  BY <2>1, ReasonsAreNamed
<1>3. ASSUME NEW x \in Nat, NEW y \in Nat
      PROVE  (~ClockDrifts(config, x, y) <=> clocks(x, y)) /\ (clocks(x, y) <=> clocks(y, x))
      BY ClocksAreAlike
<1> HIDE DEF before, after, cool, clocks
<1>4. /\ token.phase = "candidate" /\ token.request = "own"
      /\ "candidate" # "baseline" /\ "own" # "other"
      OBVIOUS
<1> HIDE DEF token
<1>5. /\ Finish(config, token, "baseline", "own", before, after) = Refused
      /\ Finish(config, token, "candidate", "other", before, after) = Refused
      BY <1>4 DEF Finish
<1> DEFINE wanted ==
             /\ CaptureIsValid(config, window, "own", TRUE) /\ ~CaptureIsValid(config, window, "other", TRUE)
             /\ window.stable = turned.stable
             /\ window.stable <=> /\ \A s \in {before, after} : cool(s)
                                  /\ clocks(before.gfxclk, after.gfxclk) /\ clocks(before.uclk, after.uclk)
<1> DEFINE stable(s, t) == /\ SampleReasons(config, s) = {} /\ SampleReasons(config, t) = {}
                           /\ ~ClockDrifts(config, s.gfxclk, t.gfxclk)
                           /\ ~ClockDrifts(config, s.uclk, t.uclk)
           record(s, t) == [ source |-> "observed", request |-> "own", capture |-> << s, t, "own" >>,
                             coordinates |-> config.coordinates, stable |-> stable(s, t) ]
<1>6. CASE before = Refused \/ after = Refused
  <2>1. window = Refused /\ turned = Refused  BY <1>6, Zenon DEF Finish
  <2> QED  BY <1>5, <2>1 DEF StableWindowIsStable, before, after, token
<1>7. CASE before # Refused /\ after # Refused
  <2>1. window = record(before, after) /\ turned = record(after, before)
        BY <1>4, <1>7, Zenon DEF Finish
  <2>2. window # Refused /\ turned # Refused  BY <2>1
  <2>3. sample(before) /\ sample(after)  BY <1>1, <1>7 DEF before, after
  <2>4. (SampleReasons(config, before) = {} <=> cool(before)) /\ (SampleReasons(config, after) = {} <=> cool(after))
        BY <1>2, <2>3
  <2>5. cool(before) /\ cool(after) =>
          /\ before.gfxclk \in Nat /\ before.uclk \in Nat /\ after.gfxclk \in Nat /\ after.uclk \in Nat
        BY <2>3 DEF cool, Figure
  <2> DEFINE sound == /\ cool(before) /\ cool(after)
                      /\ clocks(before.gfxclk, after.gfxclk) /\ clocks(before.uclk, after.uclk)
  <2>6. (stable(before, after) <=> sound) /\ (stable(after, before) <=> sound)
        BY <1>3, <2>4, <2>5
  <2>7. stable(before, after) \in BOOLEAN /\ stable(after, before) \in BOOLEAN  OBVIOUS
  <2> HIDE DEF stable
  <2>8. /\ window.source = "observed" /\ window.request = "own" /\ window.coordinates = config.coordinates
        /\ window.stable = stable(before, after) /\ turned.stable = stable(after, before)
        BY <2>1
  <2> HIDE DEF window, turned, sound
  <2>9. CaptureIsValid(config, window, "own", TRUE) /\ ~CaptureIsValid(config, window, "other", TRUE)
        BY <1>4, <2>8 DEF CaptureIsValid
  <2>10. stable(before, after) = stable(after, before)  BY <2>6, <2>7
  <2>11. window.stable = turned.stable /\ (window.stable <=> sound)
        BY <2>6, <2>8, <2>10, Zenon
  <2> QED  BY <1>5, <2>2, <2>9, <2>11, ZenonT(60)
           DEF StableWindowIsStable, before, after, token, window, turned, sound, cool, clocks
<1> QED  BY <1>6, <1>7

-----------------------------------------------------------------------------
(* The launch of a profile and the device                                  *)

\* What is a function, unlike the error values, which no function is.
Function(f) == f = [x \in DOMAIN f |-> f[x]]

\* The offline workloads of profile_provenance.py.
Offline == [prefix : STRING, serving : Int, conflicting : BOOLEAN, outputs : Seq(Int)]

\* What a coordinate that was materialized pins, whatever host and workload it was
\* materialized for.
LEMMA MaterializedCoordinate ==
  ASSUME NEW host, NEW offline \in Offline,
         MaterializeVllmProfileCommand(host, offline, 1, {}) # Refused
  PROVE  LET command == MaterializeVllmProfileCommand(host, offline, 1, {})
         IN  /\ command.attempt = 1 /\ command.python = "configured" /\ command.isolated
             /\ command.launcherPath = "configured" /\ command.sidecars = << 1 >>
             /\ command.environment = << Configured.python, Configured.packages >>
             /\ command.model = Configured.model
             /\ command.offline = [offline EXCEPT !.outputs = << 1 >>]
             /\ command.offline.outputs = << 1 >> /\ OfflineBinds(command.offline, Configured.serving)
             /\ command.coordinate.model = Configured.model /\ command.coordinate.device = Configured.device
             /\ command.coordinate.serving = Configured.serving /\ command.coordinate.launcher = host.launcher
             /\ command.coordinate.environment = << Configured.python, Configured.packages >>
             /\ command.coordinate.completion = 1 /\ command.coordinate.offline = command.offline
<1> DEFINE bound == [offline EXCEPT !.outputs = << 1 >>]
           command == MaterializeVllmProfileCommand(host, offline, 1, {})
           coordinate == [ model |-> Configured.model, device |-> Configured.device, serving |-> offline.serving,
                           launcher |-> host.launcher, environment |-> << Configured.python, Configured.packages >>,
                           completion |-> 1, offline |-> bound ]
<1>1. OfflineBinds(offline, Configured.serving) /\ offline.serving = Configured.serving
      BY Zenon DEF MaterializeVllmProfileCommand, OfflineBinds
<1>2. command = [ attempt |-> 1, python |-> "configured", isolated |-> TRUE, launcherPath |-> "configured",
                  environment |-> << Configured.python, Configured.packages >>, model |-> Configured.model,
                  coordinate |-> coordinate, sidecars |-> << 1 >>, offline |-> bound ]
      BY Zenon DEF MaterializeVllmProfileCommand
<1>3. /\ bound.outputs = << 1 >> /\ bound.prefix = offline.prefix /\ bound.serving = offline.serving
      /\ bound.conflicting = offline.conflicting
      BY DEF Offline
<1>4. OfflineBinds(bound, Configured.serving)
      BY <1>1, <1>3, Zenon DEF OfflineBinds
<1>5. /\ coordinate.model = Configured.model /\ coordinate.device = Configured.device
      /\ coordinate.serving = Configured.serving /\ coordinate.launcher = host.launcher
      /\ coordinate.environment = << Configured.python, Configured.packages >>
      /\ coordinate.completion = 1 /\ coordinate.offline = bound
      BY <1>1
<1> HIDE DEF bound, coordinate
<1>6. /\ command.attempt = 1 /\ command.python = "configured" /\ command.isolated
      /\ command.launcherPath = "configured" /\ command.sidecars = << 1 >>
      /\ command.environment = << Configured.python, Configured.packages >>
      /\ command.model = Configured.model /\ command.coordinate = coordinate /\ command.offline = bound
      BY <1>2
<1> HIDE DEF command
<1> QED  BY <1>3, <1>4, <1>5, <1>6 DEF command, bound

\* LaunchIsAsConfigured for every host before and after, every workload, every command
\* and every file of coordinates, as long as the coordinate that the command carries is
\* one that was materialized: what was changed since the approval, on the host or in
\* the command, is noticed before the workload starts.
THEOREM LaunchesAreAsConfigured ==
  ASSUME NEW made, NEW launched, NEW offline \in Offline, NEW command, NEW file, NEW existing,
         NEW host, NEW workload \in Offline,
         MaterializeVllmProfileCommand(host, workload, 1, {}) # Refused,
         command # Refused => command.coordinate = MaterializeVllmProfileCommand(host, workload, 1, {}).coordinate,
         ~Function(Refused)
  PROVE  LaunchIsAsConfigured(made, launched, offline, command, file, existing)
<1> DEFINE materialized == MaterializeVllmProfileCommand(made, offline, 1, {})
           starts == /\ MaterializationIsAccepted(command, 1, {})
                     /\ ApprovedProfileCommand(command, ProfileContext(command), offline)
                     /\ Launch(command, file, launched, existing) # Refused
           asConfigured(h) == /\ \A c \in {"python", "packages", "launcher", "model"} : h[c] = Configured[c]
                              /\ h.visible = Configured.device /\ h.clean
           checked == /\ file = command.coordinate
                      /\ VerifyEnvironmentManifest(command.environment, launched)
                      /\ file.environment = command.environment
                      /\ VerifyModelManifest(command, launched)
                      /\ VerifyOfflineArgv(command.offline, file, existing)
                      /\ launched.launcher = file.launcher
                      /\ launched.python = command.environment[1]
                      /\ launched.visible = file.device /\ launched.clean
                      /\ command.sidecars[1] \notin existing
<1>1. Launch(command, file, launched, existing) # Refused <=> checked
  <2> DEFINE r == [ environment |-> command.environment, launcher |-> launched.launcher, coordinate |-> file,
                    model |-> file.model, serving |-> file.serving, device |-> file.device,
                    container |-> launched.container, offline |-> command.offline, completion |-> file.completion ]
  <2>1. Function(r)  BY DEF Function
  <2>2. r # Refused  BY <2>1
  <2>3. Launch(command, file, launched, existing) = IF checked THEN r ELSE Refused
        BY Zenon DEF Launch
  <2> HIDE DEF checked, r
  <2> QED  BY <2>2, <2>3
<1>2. ASSUME starts
      PROVE  /\ asConfigured(launched)
             /\ command.offline.serving = Configured.serving /\ ~command.offline.conflicting
             /\ command.offline.outputs = << 1 >> /\ 1 \notin existing
  <2>1. checked  BY <1>1, <1>2
  <2>2. /\ command # Refused /\ command.sidecars = << 1 >> /\ command.offline.outputs = << 1 >>
        /\ command.environment = << Configured.python, Configured.packages >>
        /\ command.coordinate.launcher = Configured.launcher
        BY <1>2, Zenon DEF MaterializationIsAccepted
  <2>3. /\ command.coordinate.model = Configured.model /\ command.coordinate.device = Configured.device
        /\ command.coordinate.serving = Configured.serving
    <3> DEFINE source == MaterializeVllmProfileCommand(host, workload, 1, {})
    <3>1. command.coordinate = source.coordinate  BY <2>2
    <3>2. /\ source.coordinate.model = Configured.model /\ source.coordinate.device = Configured.device
          /\ source.coordinate.serving = Configured.serving
          BY MaterializedCoordinate, Zenon
    <3> HIDE DEF source
    <3> QED  BY <3>1, <3>2
  <2>4. << launched.python, launched.packages >> = << Configured.python, Configured.packages >>
        BY <2>1, <2>2, Zenon DEF VerifyEnvironmentManifest
  <2>5. launched.python = Configured.python /\ launched.packages = Configured.packages
        BY <2>4
  <2>6. /\ launched.launcher = Configured.launcher /\ launched.model = Configured.model
        /\ launched.visible = Configured.device /\ launched.clean
        BY <2>1, <2>2, <2>3, Zenon DEF VerifyModelManifest
  <2>7. asConfigured(launched)  BY <2>5, <2>6
  <2>8. OfflineBinds(command.offline, Configured.serving)
        BY <2>1, <2>3, Zenon DEF VerifyOfflineArgv
  <2>9. command.sidecars[1] = 1  BY <2>2
  <2> QED  BY <2>1, <2>2, <2>7, <2>8, <2>9 DEF OfflineBinds
<1>3. ASSUME command = materialized, command # Refused, file = command.coordinate,
             existing = {}, asConfigured(made), asConfigured(launched)
      PROVE  starts
  <2>1. /\ command.attempt = 1 /\ command.python = "configured" /\ command.isolated
        /\ command.launcherPath = "configured" /\ command.sidecars = << 1 >>
        /\ command.environment = << Configured.python, Configured.packages >>
        /\ command.model = Configured.model
        /\ command.offline = [offline EXCEPT !.outputs = << 1 >>]
        /\ command.offline.outputs = << 1 >> /\ OfflineBinds(command.offline, Configured.serving)
        /\ command.coordinate.model = Configured.model /\ command.coordinate.device = Configured.device
        /\ command.coordinate.serving = Configured.serving /\ command.coordinate.launcher = made.launcher
        /\ command.coordinate.environment = << Configured.python, Configured.packages >>
        /\ command.coordinate.completion = 1 /\ command.coordinate.offline = command.offline
        BY <1>3, MaterializedCoordinate
  <2>2. made.launcher = Configured.launcher  BY <1>3
  <2>3. MaterializationIsAccepted(command, 1, {})
        BY <1>3, <2>1, <2>2 DEF MaterializationIsAccepted
  <2>4. ApprovedProfileCommand(command, ProfileContext(command), offline)
    <3>1. /\ ProfileContext(command).command = command /\ ProfileContext(command).launcher = Configured.launcher
          /\ ProfileContext(command).serving = Configured.serving /\ ProfileContext(command).model = Configured.model
          /\ ProfileContext(command).environment = << Configured.python, Configured.packages >>
          BY DEF ProfileContext
    <3>2. command.offline = [offline EXCEPT !.outputs = << command.attempt >>]
          BY <2>1
    <3> QED  BY <2>1, <3>1, <3>2, Zenon DEF ApprovedProfileCommand
  <2>5. /\ launched.python = Configured.python /\ launched.packages = Configured.packages
        /\ launched.launcher = Configured.launcher /\ launched.model = Configured.model
        /\ launched.visible = Configured.device /\ launched.clean
        BY <1>3
  <2>6. command.environment[1] = Configured.python /\ command.sidecars[1] = 1  BY <2>1
  <2>7. VerifyEnvironmentManifest(command.environment, launched)
        BY <2>1, <2>5 DEF VerifyEnvironmentManifest
  <2>8. VerifyModelManifest(command, launched)
        BY <2>1, <2>5, Zenon DEF VerifyModelManifest
  <2>9. VerifyOfflineArgv(command.offline, file, existing)
        BY <1>3, <2>1 DEF VerifyOfflineArgv
  <2>10. checked
        BY <1>3, <2>1, <2>2, <2>5, <2>6, <2>7, <2>8, <2>9
  <2> HIDE DEF checked
  <2> QED  BY <1>1, <2>3, <2>4, <2>10
<1> HIDE DEF starts, materialized
<1> QED  BY <1>2, <1>3, Zenon DEF LaunchIsAsConfigured, starts, materialized, asConfigured

\* The handles that have a selector as the identity of their partition.
Identified(handles, selector) == { h \in handles : h.hip = selector }

\* Whoever is selected is the only one, or else there is none and it is so named.
SelectsTheNamed(handles, selector) ==
  LET own == Identified(handles, selector)
      chosen == SelectDevice(handles, selector)
  IN  /\ chosen # Refused => /\ Cardinality(own) <= 1 /\ chosen \in handles
                             /\ chosen.hip = selector \/ (own = {} /\ chosen.physical = selector)
      /\ \A h \in own : Cardinality(own) = 1 => chosen = h

\* The device that _select_device of mi300x_observation.py finds.
LEMMA SelectedDevice ==
  ASSUME NEW handles, IsFiniteSet(handles), Refused \notin handles, NEW selector
  PROVE  SelectsTheNamed(handles, selector)
<1> DEFINE own == Identified(handles, selector)
           matches == IF own # {} THEN own ELSE { h \in handles : h.physical = selector }
           chosen == SelectDevice(handles, selector)
<1>1. chosen = IF Cardinality(matches) = 1 THEN CHOOSE h \in matches : TRUE ELSE Refused
  <2>1. own = { h \in handles : h.hip = selector }  BY DEF Identified
  <2> HIDE DEF own
  <2> QED  BY <2>1 DEF SelectDevice
<1>2. matches \subseteq handles /\ IsFiniteSet(matches) /\ own \subseteq handles /\ IsFiniteSet(own)
  <2>1. matches \subseteq handles /\ own \subseteq handles  BY DEF Identified
  <2> HIDE DEF matches
  <2> QED  BY <2>1, FS_Subset
<1>3. Cardinality({}) = 0  BY FS_EmptySet
<1>6. \A h \in own : h.hip = selector  BY DEF Identified
<1> HIDE DEF own
<1>4. ASSUME chosen # Refused
      PROVE  /\ Cardinality(own) <= 1 /\ chosen \in handles
             /\ chosen.hip = selector \/ (own = {} /\ chosen.physical = selector)
  <2> HIDE DEF matches, chosen
  <2>1. Cardinality(matches) = 1  BY <1>1, <1>4
  <2>2. matches # {}  BY <1>3, <2>1
  <2>3. chosen = CHOOSE h \in matches : TRUE  BY <1>1, <2>1
  <2>4. chosen \in matches  BY <2>2, <2>3
  <2>5. CASE own # {}
    <3>1. matches = own  BY <2>5 DEF matches
    <3>2. Cardinality(own) = 1 /\ chosen \in own  BY <2>1, <2>4, <3>1
    <3> QED  BY <1>2, <1>6, <3>2
  <2>6. CASE own = {}
    <3>1. matches = { h \in handles : h.physical = selector }  BY <2>6 DEF matches
    <3>2. chosen \in handles /\ chosen.physical = selector  BY <2>4, <3>1
    <3> QED  BY <1>3, <2>6, <3>2
  <2> QED  BY <2>5, <2>6
<1>5. ASSUME NEW h \in own, Cardinality(own) = 1
      PROVE  chosen = h
  <2>1. matches = own  OBVIOUS
  <2>2. own = {h}
    <3>1. PICK x : own = {x}  BY <1>2, <1>5, FS_Singleton
    <3> QED  BY <3>1
  <2>3. chosen = CHOOSE x \in {h} : TRUE  BY <1>1, <1>5, <2>1, <2>2, Zenon
  <2> QED  BY <2>3
<1> HIDE DEF chosen
<1> QED  BY <1>4, <1>5, Zenon DEF chosen, own, SelectsTheNamed

\* A command and what is printed by one; an answer is of the request, and of now.
Command == [request : STRING, succeeded : BOOLEAN, started : Int, duration : Int, captured : Int, output : {Refused}]

LEMMA AnswersAreOfNow ==
  ASSUME NEW command \in Command, NEW output, NEW request
  PROVE  LET printed == [command EXCEPT !.output = output]
         IN  /\ Answer(printed, request) # Refused =>
                  Answer(printed, request) = output /\ command.captured >= command.started - 5
             /\ command.request = request /\ command.succeeded /\ TimestampFits(command) =>
                  Answer(printed, request) = output
<1> DEFINE printed == [command EXCEPT !.output = output]
<1>1. /\ printed.request = command.request /\ printed.succeeded = command.succeeded /\ printed.output = output
      /\ printed.started = command.started /\ printed.duration = command.duration
      /\ printed.captured = command.captured /\ command.started \in Int /\ command.captured \in Int
      BY DEF Command
<1> HIDE DEF printed
<1>2. TimestampFits(printed) <=> TimestampFits(command)  BY <1>1, Zenon DEF TimestampFits
<1>3. TimestampFits(command) => command.captured >= command.started - 5
      BY <1>1 DEF TimestampFits
<1>4. Answer(printed, request) = IF \/ command.request # request \/ ~command.succeeded \/ output = Refused
                                    \/ ~TimestampFits(command)
                                 THEN Refused ELSE output
      BY <1>1, <1>2, Zenon DEF Answer
<1>5. Answer(printed, request) # Refused =>
        Answer(printed, request) = output /\ command.captured >= command.started - 5
      BY <1>3, <1>4
<1>6. command.request = request /\ command.succeeded /\ TimestampFits(command) => Answer(printed, request) = output
      BY <1>4
<1> QED  BY <1>5, <1>6 DEF printed

\* What a static probe that succeeds says of the selected device.
LEMMA StaticDescribes ==
  ASSUME NEW handles, NEW selector, ~Function(Refused)
  PROVE  LET h == SelectDevice(handles, selector)
             static == CollectStatic(handles, selector)
             described == [ uuid |-> IF h.hip = Unknown THEN h.physical ELSE h.hip, bdf |-> h.bdf,
                            product |-> ProductName(h.market), oam |-> h.oam, xcc |-> 8, compute |-> h.compute,
                            memory |-> h.memory, partition |-> h.partition ]
         IN  /\ static # Refused => static = described /\ h # Refused
             /\ (/\ h # Refused /\ (h.hip = Unknown => h.physical = selector) /\ ProductName(h.market) # Refused
                 /\ h.oam # Unknown /\ XccCount(h.active, h.profiles) = 8 /\ h.memory \in AllowedMemory(h.compute))
                => static = described /\ static # Refused
<1> DEFINE h == SelectDevice(handles, selector)
           static == CollectStatic(handles, selector)
           described == [ uuid |-> IF h.hip = Unknown THEN h.physical ELSE h.hip, bdf |-> h.bdf,
                          product |-> ProductName(h.market), oam |-> h.oam, xcc |-> 8, compute |-> h.compute,
                          memory |-> h.memory, partition |-> h.partition ]
<1>1. Function(described)  BY DEF Function
<1>2. described # Refused  BY <1>1
<1>3. static = IF h = Refused THEN Refused
               ELSE IF \/ h.hip = Unknown /\ h.physical # selector
                       \/ ProductName(h.market) = Refused \/ h.oam = Unknown
                       \/ XccCount(h.active, h.profiles) # 8
                       \/ h.memory \notin AllowedMemory(h.compute)
               THEN Refused ELSE described
      BY Zenon DEF CollectStatic
<1> HIDE DEF h, static, described
<1>4. static # Refused => static = described /\ h # Refused  BY <1>3
<1>5. (/\ h # Refused /\ (h.hip = Unknown => h.physical = selector) /\ ProductName(h.market) # Refused
       /\ h.oam # Unknown /\ XccCount(h.active, h.profiles) = 8 /\ h.memory \in AllowedMemory(h.compute))
      => static = described /\ static # Refused
      BY <1>2, <1>3
<1> QED  BY <1>4, <1>5, Zenon DEF h, static, described

\* Likewise the probe of what HIP computes on.
LEMMA HipDescribes ==
  ASSUME NEW exposed, NEW selector, NEW inherited, ~Function(Refused)
  PROVE  LET hip == CollectHip(exposed, selector, inherited)
             described == [uuid |-> exposed[1].hip, bdf |-> exposed[1].bdf, gfx |-> exposed[1].gfx, selector |-> selector]
         IN  /\ hip # Refused => hip = described /\ exposed[1].hip = selector
             /\ (/\ Len(exposed) = 1 /\ exposed[1].hip # Unknown /\ exposed[1].hip = selector
                 /\ exposed[1].gfx = "gfx942" /\ inherited = {})
                => hip = described /\ hip # Refused
<1> DEFINE identity == HipRuntimeIdentity(exposed)
           known == [uuid |-> exposed[1].hip, bdf |-> exposed[1].bdf]
           hip == CollectHip(exposed, selector, inherited)
           described == [uuid |-> exposed[1].hip, bdf |-> exposed[1].bdf, gfx |-> exposed[1].gfx, selector |-> selector]
<1>1. Function(described) /\ Function(known)  BY DEF Function
<1>2. described # Refused /\ known # Refused  BY <1>1
<1>3. /\ identity # Refused => identity = known
      /\ Len(exposed) = 1 /\ exposed[1].hip # Unknown => identity = known
      BY Zenon DEF HipRuntimeIdentity
<1>4. hip = IF identity = Refused THEN Refused
            ELSE IF identity.uuid # selector \/ exposed[1].gfx # "gfx942" \/ inherited # {} THEN Refused
            ELSE [uuid |-> identity.uuid, bdf |-> identity.bdf, gfx |-> exposed[1].gfx, selector |-> selector]
      BY Zenon DEF CollectHip
<1>5. known.uuid = exposed[1].hip /\ known.bdf = exposed[1].bdf  OBVIOUS
<1>6. hip = IF identity = Refused \/ exposed[1].hip # selector \/ exposed[1].gfx # "gfx942" \/ inherited # {}
            THEN Refused ELSE described
      BY <1>3, <1>4, <1>5
<1> HIDE DEF identity, known, hip, described
<1>7. hip # Refused => hip = described /\ exposed[1].hip = selector  BY <1>6
<1>8. (/\ Len(exposed) = 1 /\ exposed[1].hip # Unknown /\ exposed[1].hip = selector
       /\ exposed[1].gfx = "gfx942" /\ inherited = {})
      => hip = described /\ hip # Refused
      BY <1>2, <1>3, <1>6
<1> QED  BY <1>7, <1>8, Zenon DEF hip, described

\* InspectedDeviceIsTheConfigured for every host, probe and configuration that
\* vllm_models.py accepts.
THEOREM InspectedDevicesAreTheConfigured ==
  ASSUME NEW config, config.uuid # Unknown, config.oam # Unknown,
         config.memory \in AllowedMemory(config.compute), config.requests \in Seq(STRING), Len(config.requests) = 2,
         NEW port, NEW handles, IsFiniteSet(handles), Refused \notin handles, NEW exposed, NEW inherited,
         NEW staticCommand \in Command, NEW hipCommand \in Command, ~Function(Refused)
  PROVE  InspectedDeviceIsTheConfigured(config, port, handles, exposed, inherited, staticCommand, hipCommand)
<1> DEFINE uuid == config.uuid
           collected == CollectStatic(handles, uuid)
           computing == CollectHip(exposed, uuid, inherited)
           printed == [staticCommand EXCEPT !.output = collected]
           shown == [hipCommand EXCEPT !.output = computing]
           static == Answer(printed, config.requests[1])
           hip == Answer(shown, config.requests[2])
           seen == Inspect(config, port, printed, shown)
           own == Identified(handles, uuid)
           chosen == SelectDevice(handles, uuid)
           good(h) == /\ << h.bdf, h.oam, h.compute, h.memory, h.partition, h.gfx >>
                           = << config.bdf, config.oam, config.compute, config.memory, config.partition, "gfx942" >>
                      /\ ProductName(h.market) # Refused /\ XccCount(h.active, h.profiles) = 8
           asked == /\ InspectionIsBound(config, port) /\ TimestampFits(staticCommand) /\ TimestampFits(hipCommand)
                    /\ staticCommand.succeeded /\ hipCommand.succeeded
                    /\ << staticCommand.request, hipCommand.request >> = config.requests
           result == [ scope |-> IF config.image # Unknown THEN "container_preflight" ELSE "native_preflight",
                       image |-> config.image, static |-> static, hip |-> hip ]
<1>1. /\ static # Refused => static = collected /\ staticCommand.captured >= staticCommand.started - 5
      /\ hip # Refused => hip = computing /\ hipCommand.captured >= hipCommand.started - 5
      /\ asked => static = collected /\ hip = computing
  <2>1. asked => staticCommand.request = config.requests[1] /\ hipCommand.request = config.requests[2]
    <3>1. ASSUME << staticCommand.request, hipCommand.request >> = config.requests
          PROVE  staticCommand.request = config.requests[1] /\ hipCommand.request = config.requests[2]
      <4>1. /\ << staticCommand.request, hipCommand.request >>[1] = staticCommand.request
            /\ << staticCommand.request, hipCommand.request >>[2] = hipCommand.request
            OBVIOUS
      <4> QED  BY <3>1, <4>1, Zenon
    <3> QED  BY <3>1
  <2> HIDE DEF collected, computing
  <2> QED  BY <2>1, AnswersAreOfNow, Zenon
<1>2. /\ seen # Refused => /\ InspectionIsBound(config, port) /\ static # Refused /\ hip # Refused
                           /\ ~StaticDiffers(config, static) /\ ~HipDiffers(config, hip)
      /\ (/\ InspectionIsBound(config, port) /\ static # Refused /\ hip # Refused
          /\ ~StaticDiffers(config, static) /\ ~HipDiffers(config, hip)) => seen # Refused
  <2>1. Function(result)  BY DEF Function
  <2>2. result # Refused  BY <2>1
  <2>3. seen = IF ~InspectionIsBound(config, port) THEN Refused
               ELSE IF static = Refused \/ hip = Refused THEN Refused
               ELSE IF StaticDiffers(config, static) \/ HipDiffers(config, hip) THEN Refused ELSE result
        BY Zenon DEF Inspect
  <2> HIDE DEF seen, result, static, hip
  <2> QED  BY <2>2, <2>3
<1> DEFINE described == [ uuid |-> IF chosen.hip = Unknown THEN chosen.physical ELSE chosen.hip, bdf |-> chosen.bdf,
                          product |-> ProductName(chosen.market), oam |-> chosen.oam, xcc |-> 8,
                          compute |-> chosen.compute, memory |-> chosen.memory, partition |-> chosen.partition ]
           configured == [ uuid |-> uuid, bdf |-> config.bdf, product |-> "AMD Instinct MI300X", oam |-> config.oam,
                           xcc |-> 8, compute |-> config.compute, memory |-> config.memory,
                           partition |-> config.partition ]
           used == [uuid |-> exposed[1].hip, bdf |-> exposed[1].bdf, gfx |-> exposed[1].gfx, selector |-> uuid]
           needed == [uuid |-> uuid, bdf |-> config.bdf, gfx |-> "gfx942", selector |-> uuid]
<1>3. /\ StaticDiffers(config, static) <=> static # configured
      /\ HipDiffers(config, hip) <=> hip # needed
      BY Zenon DEF StaticDiffers, HipDiffers
<1>4. /\ collected # Refused => collected = described /\ chosen # Refused
      /\ (/\ chosen # Refused /\ (chosen.hip = Unknown => chosen.physical = uuid) /\ ProductName(chosen.market) # Refused
          /\ chosen.oam # Unknown /\ XccCount(chosen.active, chosen.profiles) = 8
          /\ chosen.memory \in AllowedMemory(chosen.compute))
         => collected = described /\ collected # Refused
      BY StaticDescribes, Zenon
<1>5. /\ computing # Refused => computing = used /\ exposed[1].hip = uuid
      /\ (/\ Len(exposed) = 1 /\ exposed[1].hip # Unknown /\ exposed[1].hip = uuid
          /\ exposed[1].gfx = "gfx942" /\ inherited = {})
         => computing = used /\ computing # Refused
      BY HipDescribes
<1>6. /\ chosen # Refused => /\ Cardinality(own) <= 1 /\ chosen \in handles
                             /\ chosen.hip = uuid \/ (own = {} /\ chosen.physical = uuid)
      /\ \A h \in own : Cardinality(own) = 1 => chosen = h
  <2>1. SelectsTheNamed(handles, config.uuid)  BY SelectedDevice
  <2> QED  BY <2>1, Zenon DEF SelectsTheNamed
<1>7. described = configured <=>
        /\ (IF chosen.hip = Unknown THEN chosen.physical ELSE chosen.hip) = uuid
        /\ chosen.bdf = config.bdf /\ ProductName(chosen.market) = "AMD Instinct MI300X" /\ chosen.oam = config.oam
        /\ chosen.compute = config.compute /\ chosen.memory = config.memory /\ chosen.partition = config.partition
      OBVIOUS
<1>8. used = needed <=> exposed[1].hip = uuid /\ exposed[1].bdf = config.bdf /\ exposed[1].gfx = "gfx942"
      OBVIOUS
<1>9. \A h : h \in own => h \in handles /\ h.hip = uuid
      BY DEF Identified
<1>10. \A market : ProductName(market) # Refused => ProductName(market) = "AMD Instinct MI300X"
      BY DEF ProductName
<1> HIDE DEF uuid, collected, computing, static, hip, seen, chosen, described, configured, used, needed, result
<1>11. ASSUME seen # Refused
       PROVE  /\ Cardinality(own) <= 1 /\ exposed[1].hip = uuid /\ exposed[1].bdf = config.bdf
              /\ \E h \in handles : /\ h.hip = uuid \/ (own = {} /\ h.physical = uuid /\ h.hip = Unknown)
                                    /\ << h.bdf, h.compute, h.memory, h.partition >>
                                         = << config.bdf, config.compute, config.memory, config.partition >>
              /\ staticCommand.captured >= staticCommand.started - 5 /\ hipCommand.captured >= hipCommand.started - 5
              /\ config.image # Unknown => port.container.image = config.image
  <2>1. /\ static = collected /\ hip = computing /\ static = configured /\ hip = needed
        /\ static # Refused /\ hip # Refused
        BY <1>1, <1>2, <1>3, <1>11
  <2>2. described = configured /\ used = needed /\ chosen # Refused
        BY <1>4, <1>5, <2>1
  <2>3. /\ chosen \in handles /\ Cardinality(own) <= 1
        /\ chosen.hip = uuid \/ (own = {} /\ chosen.physical = uuid)
        BY <1>6, <2>2
  <2>4. /\ (IF chosen.hip = Unknown THEN chosen.physical ELSE chosen.hip) = uuid
        /\ chosen.bdf = config.bdf /\ chosen.compute = config.compute /\ chosen.memory = config.memory
        /\ chosen.partition = config.partition
        BY <1>7, <2>2
  <2>5. chosen.hip = uuid \/ (own = {} /\ chosen.physical = uuid /\ chosen.hip = Unknown)
        BY <2>3, <2>4
  <2>6. << chosen.bdf, chosen.compute, chosen.memory, chosen.partition >>
          = << config.bdf, config.compute, config.memory, config.partition >>
        BY <2>4
  <2>7. config.image # Unknown => port.container.image = config.image
        BY <1>2, <1>11 DEF InspectionIsBound
  <2> HIDE DEF own
  <2> QED  BY <1>1, <1>8, <2>1, <2>2, <2>3, <2>5, <2>6, <2>7
<1>12. ASSUME asked, Cardinality(own) = 1, NEW h \in own, good(h), exposed = << h >>, inherited = {}
       PROVE  seen # Refused
  <2>1. chosen = h  BY <1>6, <1>12
  <2>2. chosen \in handles /\ chosen.hip = uuid  BY <1>9, <1>12, <2>1
  <2>3. /\ chosen.bdf = config.bdf /\ chosen.oam = config.oam /\ chosen.compute = config.compute
        /\ chosen.memory = config.memory /\ chosen.partition = config.partition /\ chosen.gfx = "gfx942"
        /\ ProductName(chosen.market) # Refused /\ XccCount(chosen.active, chosen.profiles) = 8
        BY <1>12, <2>1
  <2>4. uuid # Unknown  BY DEF uuid
  <2>5. collected = described /\ collected # Refused
        BY <1>4, <2>2, <2>3, <2>4
  <2>6. described = configured
        BY <1>7, <1>10, <2>2, <2>3, <2>4
  <2>7. Len(exposed) = 1 /\ exposed[1] = chosen  BY <1>12, <2>1
  <2>8. computing = used /\ computing # Refused
        BY <1>5, <1>12, <2>2, <2>3, <2>4, <2>7
  <2>9. used = needed  BY <1>8, <2>2, <2>3, <2>7
  <2> HIDE DEF own, good
  <2> QED  BY <1>1, <1>2, <1>3, <1>12, <2>5, <2>6, <2>8, <2>9
<1> HIDE DEF good, asked, own
<1> QED
  BY <1>11, <1>12, ZenonT(40)
     DEF InspectedDeviceIsTheConfigured, seen, printed, shown, collected, computing, uuid, own, good, asked, Identified

=============================================================================
