------------------------------ MODULE MCVerdicts ------------------------------
(***************************************************************************)
(* What the system decides and computes from documents: an experiment that *)
(* the gates decide and rerun (GatedExperiment), or a sample of the inputs *)
(* of one of the pure functions, against what it is meant to compute.      *)
(***************************************************************************)
EXTENDS MCSamples, MCGatedExperiment, QualityVerdicts, TLC

MCSubjects == << "algebra", "arithmetic" >>
MCQuotas == [s \in {"algebra", "arithmetic"} |-> IF s = "algebra" THEN 1 ELSE 2]

VerdictsInit ==
  \/ sample = [family |-> "gates"] /\ Init
  \/ /\ sample = NoSample
     /\ task = Strict /\ baseline = GoodBaseline /\ candidate = GoodCandidate
     /\ decision = Undecided /\ reruns = 0

Experiment == sample.family = "gates" /\ Next /\ UNCHANGED sample

DrawAnswers ==
  \E n \in 1 .. 7 : \E answers \in [1 .. n -> BOOLEAN] :
    sample' = [family |-> "answers", answers |-> answers]

DrawLog ==
  \E n \in 1 .. 3 : \E percents \in [1 .. n -> {0, 33333333, 33333334, 50000000, 66666667, 100000000}],
     final \in {0, 33333300, 50000000, 66666600, 100000000} :
    sample' = [family |-> "log", rows |-> [i \in 1 .. n |-> [index |-> i, percent |-> percents[i]]],
               final |-> final]

DrawPairs ==
  \E b \in 0 .. 8, c \in 0 .. 8 : b + c <= 10 /\ sample' = [family |-> "pairs", b |-> b, c |-> c]

DrawGate ==
  \E b \in 0 .. 11, c \in 0 .. 11, neither \in {0, 1, 100}, p \in {1000, 1005, 1006}, g \in {7, 8} :
    /\ b + c <= 11
    /\ sample' = [family |-> "gate",
               math |-> [both |-> 848 - b - c - neither, baselineOnly |-> b, candidateOnly |-> c,
                         neither |-> neither],
               ppl |-> [baseline |-> 1000, candidate |-> p], greedy |-> [baseline |-> 8, candidate |-> g]]

\* Items 1..5 in two orders; items 2 and 3 have the same rank.
Item(i) == [id |-> i, subject |-> IF i <= 2 THEN "algebra" ELSE "arithmetic",
            rank |-> IF i = 3 THEN 2 ELSE (7 * i) % 5]

DrawSelection ==
  \E S \in SUBSET (1 .. 5) : S # {} /\ \E p \in { f \in [1 .. Cardinality(S) -> S] : IsInjective(f) } :
    sample' = [family |-> "selection", items |-> [i \in DOMAIN p |-> Item(p[i])],
               shuffled |-> SortSeq([i \in DOMAIN p |-> Item(p[i])], LAMBDA a, b : a.id < b.id)]

DrawTasks ==
  \E n \in 0 .. 3 : \E lengths \in [1 .. n -> 1 .. 3] :
    sample' = [family |-> "tasks", tasks |-> [i \in 1 .. n |-> [j \in 1 .. lengths[i] |-> 10 * i + j]]]

DrawArgs ==
  \E n \in 0 .. 3 :
    \E args \in [1 .. n -> {"-fa", "--flash-attn", "-ctk", "--cache-type-k", "-ctv"} \X {"on", "f16", "q8_0"}] :
      sample' = [family |-> "args", args |-> args]

Draw ==
  /\ sample = NoSample
  /\ UNCHANGED vars
  /\ \/ DrawAnswers \/ DrawLog \/ DrawPairs \/ DrawGate \/ DrawSelection \/ DrawTasks \/ DrawArgs
     \/ DrawTechnique \/ DrawEvidence \/ DrawCoordinates

VerdictsNext == Experiment \/ Draw

\* What quality evidence says is understood: the answers of a run are recovered
\* from its log and from no other log (parse_math_correctness), selections do not
\* depend on the order of the fixture, offsets lead to the tasks, canonical
\* runtime arguments say what was given, the exact McNemar probability counts the
\* extreme outcomes, and the corrected gate that uses it never punishes a better
\* candidate.
QualityEvidenceIsUnderstood ==
  /\ Of("answers") => ParsesBack(sample.answers)
  /\ Of("log") => LoggedLikeThat(sample.rows, sample.final)
  /\ Of("selection") => SelectionIgnoresOrder(sample.items, sample.shuffled)
  /\ Of("tasks") => TasksAreFound(sample.tasks)
  /\ Of("args") => CanonicalArgsSayTheSame(sample.args)
  /\ Of("pairs") => McNemarCounts(sample.b, sample.c)
  /\ Of("gate") => BetterStillPasses(sample.math, sample.ppl, sample.greedy)
=============================================================================
