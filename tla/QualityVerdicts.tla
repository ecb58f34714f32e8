---------------------------- MODULE QualityVerdicts ----------------------------
(***************************************************************************)
(* The arithmetic of tools/q8_runtime_quality_eval.py: which questions are *)
(* asked, how the answers are recovered from the evaluator's log, and the  *)
(* verdict on a pair of runs.  Fractions are compared by cross-multiplying *)
(* integers, the percentages of a log are integers of 1e-6 percent.        *)
(* Refused stands for an EvaluationError.                                  *)
(***************************************************************************)
EXTENDS Integers, Sequences, SequencesExt, FiniteSets, Combinatorics, Refusals

CONSTANTS
  Subjects,   \* the subjects of the fixture, in the order of MATH_100_QUOTAS
  Quotas      \* subject -> questions of it in the reduced selection

ASSUME QuotasAssumption == Quotas \in [{ Subjects[i] : i \in DOMAIN Subjects } -> Nat]

-----------------------------------------------------------------------------
(* Selection.  An item is a record [id, subject, rank, answer]; rank is the *)
(* hash of its id, for which two ids may agree.                             *)

Before(a, b) == a.rank < b.rank \/ (a.rank = b.rank /\ a.id < b.id)

Sorted(items) == SortSeq(items, Before)

\* load_math_items
FixtureValid(items) ==
  /\ items # << >>
  /\ \A i, j \in DOMAIN items : items[i].id = items[j].id => i = j
  /\ \A i \in DOMAIN items : items[i].subject \in DOMAIN Quotas

SelectGreedyCanary(items, count) ==
  IF count \notin 1 .. Len(items) THEN Refused ELSE SubSeq(Sorted(items), 1, count)

OfSubject(items, subject) == SelectSeq(items, LAMBDA item : item.subject = subject)

\* The complete fixture in its own order, or for each subject its quota.
SelectMathItems(items, reduced) ==
  IF ~reduced THEN items
  ELSE IF \E s \in DOMAIN Quotas : Len(OfSubject(items, s)) < Quotas[s] THEN Refused
  ELSE Sorted(FlattenSeq([i \in DOMAIN Subjects |->
                SubSeq(Sorted(OfSubject(items, Subjects[i])), 1, Quotas[Subjects[i]])]))

\* serialize_multiple_choice: the offset of each task in the file, ...
Positions(tasks) ==
  [i \in DOMAIN tasks |-> 4 + 4 * Len(tasks) + Len(FlattenSeq(SubSeq(tasks, 1, i - 1)))]

\* ... which begins with their number and their offsets, a word of four bytes each.
Serialized(tasks) ==
  LET word(n) == << n, 0, 0, 0 >>
  IN  word(Len(tasks)) \o FlattenSeq([i \in DOMAIN tasks |-> word(Positions(tasks)[i])])
        \o FlattenSeq(tasks)

\* normalize_runtime_args: aliases are resolved, each control is given once,
\* and the controls come in a fixed order.
RuntimeArgOrder == << "-fa", "-ctk", "-ctv" >>
RuntimeArgAliases ==
  [a \in {"-fa", "--flash-attn"} |-> "-fa"] @@ [a \in {"-ctk", "--cache-type-k"} |-> "-ctk"]
    @@ [a \in {"-ctv", "--cache-type-v"} |-> "-ctv"]
RuntimeArgValues(option) == IF option = "-fa" THEN {"on", "off", "auto"} ELSE {"f16", "q8_0", "q4_0"}

NormalizeRuntimeArgs(args) ==
  LET canonical == [i \in DOMAIN args |-> RuntimeArgAliases[args[i][1]]]
      given(option) == { args[i][2] : i \in { j \in DOMAIN args : canonical[j] = option } }
  IN  IF \/ \E i \in DOMAIN args : args[i][2] \notin RuntimeArgValues(canonical[i])
         \/ \E i, j \in DOMAIN args : i # j /\ canonical[i] = canonical[j]
      THEN Refused
      ELSE FlattenSeq([k \in 1 .. 3 |->
             IF given(RuntimeArgOrder[k]) = {} THEN << >>
             ELSE << << RuntimeArgOrder[k], CHOOSE v \in given(RuntimeArgOrder[k]) : TRUE >> >>])

-----------------------------------------------------------------------------
(* The evaluator's log: a row for every answer, with its index and the     *)
(* share of correct answers so far.                                        *)

Hundred == 100000000

Correct(answers, n) == Cardinality({ i \in 1 .. n : answers[i] })

\* A share, rounded as it is printed.
Percent(correct, n) == (2 * correct * Hundred + n) \div (2 * n)

\* Mutant: a share between two counts is cut off.
Cumulative_Cut(row) == (row.percent * row.index) \div Hundred

Cumulative(row) == (2 * row.percent * row.index + Hundred) \div (2 * Hundred)

\* parse_math_correctness: counts that grow by nothing or one, and agree with
\* the final line, which is printed with four decimals.
ParseMathCorrectness(rows, total, final) ==
  LET count == [i \in 0 .. Len(rows) |-> IF i = 0 THEN 0 ELSE Cumulative(rows[i])]
      near(a, b, distance) == a - b \in -distance .. distance
  IN  IF \/ total <= 0 \/ Len(rows) # total
         \/ \E i \in DOMAIN rows :
              \/ rows[i].index # i \/ rows[i].percent \notin 0 .. Hundred
              \/ ~near(rows[i].percent, Percent(count[i], i), 1)
              \/ count[i] - count[i - 1] \notin {0, 1}
         \/ ~near(final, Percent(count[total], total), 100)
      THEN Refused
      ELSE [i \in DOMAIN rows |-> count[i] - count[i - 1] = 1]

\* What the evaluator prints for these answers.
Log(answers) == [i \in DOMAIN answers |-> [index |-> i, percent |-> Percent(Correct(answers, i), i)]]
FinalLine(answers) == (Percent(Correct(answers, Len(answers)), Len(answers)) \div 100) * 100

-----------------------------------------------------------------------------
(* The verdict.                                                            *)

\* compare_math_correctness
ComparedMath(baseline, candidate) ==
  LET count(b, c) == Cardinality({ i \in DOMAIN baseline : baseline[i] = b /\ candidate[i] = c })
  IN  [both |-> count(TRUE, TRUE), baselineOnly |-> count(TRUE, FALSE),
       candidateOnly |-> count(FALSE, TRUE), neither |-> count(FALSE, FALSE)]

Min2(a, b) == IF a < b THEN a ELSE b

SumTo(f(_), n) == FoldLeft(LAMBDA sum, i : sum + f(i), 0, [i \in 1 .. n + 1 |-> i - 1])

\* exact_two_sided_mcnemar_p, as the numerator of a fraction over 2^n.
McNemarNumerator(baselineOnly, candidateOnly) ==
  LET n == baselineOnly + candidateOnly
  IN  IF n = 0 THEN 1
      ELSE Min2(2 ^ n, 2 * SumTo(LAMBDA k : choose(n, k), Min2(baselineOnly, candidateOnly)))

\* A net regression must not be significant at 5 percent.
NotSignificant(math) ==
  \/ math.baselineOnly <= math.candidateOnly
  \/ 20 * McNemarNumerator(math.baselineOnly, math.candidateOnly)
       > 2 ^ (math.baselineOnly + math.candidateOnly)

TotalOf(math) == math.both + math.baselineOnly + math.candidateOnly + math.neither

\* corrected_gate: outcome for these answers, perplexities and greedy canaries.
CorrectedGate(math, ppl, greedy, mode) ==
  IF TotalOf(math) # 848 \/ mode # "fixture_order_full" THEN "NOT_APPLICABLE"
  ELSE IF /\ ppl.candidate * 1000 <= ppl.baseline * 1005
          /\ 100 * (math.baselineOnly - math.candidateOnly) <= 848
          /\ NotSignificant(math)
          /\ greedy.candidate >= greedy.baseline
       THEN "PASS" ELSE "FAIL"

-----------------------------------------------------------------------------
\* The log of any answers is parsed back to these answers, and whatever is
\* parsed would have been logged like that.
ParsesBack(answers) ==
  ParseMathCorrectness(Log(answers), Len(answers), FinalLine(answers)) = answers

LoggedLikeThat(rows, final) ==
  LET answers == ParseMathCorrectness(rows, Len(rows), final)
  IN  answers # Refused => \A i \in DOMAIN rows : rows[i].percent - Log(answers)[i].percent \in -1 .. 1

\* The exact test counts the outcomes at least as one-sided as the one seen.
McNemarCounts(baselineOnly, candidateOnly) ==
  LET n == baselineOnly + candidateOnly
      extreme == { S \in SUBSET (1 .. n) :
                     Min2(Cardinality(S), n - Cardinality(S)) <= Min2(baselineOnly, candidateOnly) }
  IN  McNemarNumerator(baselineOnly, candidateOnly) = Cardinality(extreme)

\* A candidate that answers one more question is not refused where it passed before.
BetterStillPasses(math, ppl, greedy) ==
  LET better == { [math EXCEPT !.neither = @ - 1, !.candidateOnly = @ + 1],
                  [math EXCEPT !.baselineOnly = @ - 1, !.both = @ + 1] }
      gate(m) == CorrectedGate(m, ppl, greedy, "fixture_order_full")
  IN  gate(math) = "PASS" =>
        \A m \in better : m.neither < 0 \/ m.baselineOnly < 0 \/ gate(m) = "PASS"

\* The order of the fixture decides about neither the reduced selection nor the
\* canary, and each subject has its quota.
SelectionIgnoresOrder(items, shuffled) ==
  LET selected == SelectMathItems(items, TRUE)
  IN  /\ selected = SelectMathItems(shuffled, TRUE)
      /\ selected # Refused => \A s \in DOMAIN Quotas : Len(OfSubject(selected, s)) = Quotas[s]
      /\ \A n \in DOMAIN items : SelectGreedyCanary(items, n) = SelectGreedyCanary(shuffled, n)

\* Every task begins in the file where its offset says.
TasksAreFound(tasks) ==
  \A i \in DOMAIN tasks :
    SubSeq(Serialized(tasks), Positions(tasks)[i] + 1, Positions(tasks)[i] + Len(tasks[i])) = tasks[i]

\* Arguments are accepted if and only if each control is given at most once, in
\* either spelling and any order, with a value it has, and then their canonical
\* form says the same.
CanonicalArgsSayTheSame(args) ==
  LET canonical == NormalizeRuntimeArgs(args)
      control(i) == RuntimeArgAliases[args[i][1]]
      means(list) == { << RuntimeArgAliases[list[i][1]], list[i][2] >> : i \in DOMAIN list }
  IN  /\ canonical # Refused <=>
           /\ Cardinality({ control(i) : i \in DOMAIN args }) = Len(args)
           /\ \A i \in DOMAIN args : args[i][2] \in RuntimeArgValues(control(i))
      /\ canonical # Refused =>
           /\ means(canonical) = means(args) /\ Len(canonical) = Len(args)
           /\ NormalizeRuntimeArgs(Reverse(args)) = canonical
=============================================================================
