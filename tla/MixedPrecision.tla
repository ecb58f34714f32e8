---------------------------- MODULE MixedPrecision ----------------------------
(***************************************************************************)
(* mixed_precision.py: from a tensor inventory and sensitivity scores to   *)
(* the policies that assign a precision to every tensor, the check of a    *)
(* packed model against its policy, its accounting, and the Pareto ranking *)
(* of the measured candidates.                                             *)
(*                                                                         *)
(* Tensors are numbered in the order of their names; a regular expression  *)
(* is the set of the tensors that it matches; fractions are percents and   *)
(* metrics are integers.  Refused stands for a ValueError.                 *)
(***************************************************************************)
EXTENDS Integers, Sequences, FiniteSets, FiniteSetsExt, SequencesExt, Refusals

Bits == [Q4_K |-> 4, Q5_K |-> 5, Q6_K |-> 6, Q8_0 |-> 8, F16 |-> 16]
Precisions == DOMAIN Bits

\* The group of a tensor is that of the one rule that matches it.
Classify(rules, tensor) ==
  LET matched == { i \in DOMAIN rules : tensor \in rules[i].matches }
  IN  IF Cardinality(matched) > 1 THEN Refused
      ELSE IF matched = {} THEN [group |-> "other", protected |-> FALSE]
      ELSE LET rule == rules[CHOOSE i \in matched : TRUE]
           IN  [group |-> rule.group, protected |-> rule.protected]

-----------------------------------------------------------------------------
(* Policies.  An inventory maps tensors to their entries, a policy tensors *)
(* to their assignments.                                                   *)

ScoreOf(scores, tensor) == IF tensor \in DOMAIN scores THEN scores[tensor] ELSE Unknown

Assign(precision, score, reason) == [precision |-> precision, score |-> score, reason |-> reason]

\* One precision for the whole model, save what must be kept.
WholeModelPolicy(inventory, scores, precision, protectedPrecision) ==
  [t \in DOMAIN inventory |->
     LET entry == inventory[t]
         score == ScoreOf(scores, t)
     IN  IF ~entry.quantizable THEN Assign(entry.precision, score, "preserved")
         ELSE IF entry.protected THEN Assign(protectedPrecision, score, "protected")
         ELSE Assign(precision, score, "whole-model")]

\* The tensors that a search point may lower.
EligibleFor(inventory, point) ==
  { t \in DOMAIN inventory :
      inventory[t].quantizable /\ inventory[t].group \in point.groups /\ ~inventory[t].protected }

\* Python's round(n * percent / 100): a half goes to the even side.
Rounded(n, percent) ==
  LET whole == (n * percent) \div 100
      rest  == (n * percent) % 100
  IN  IF rest > 50 \/ (rest = 50 /\ whole % 2 = 1) THEN whole + 1 ELSE whole

\* How many eligible tensors come before t in the order of (score, name).
TierRank(eligible, scores, t) ==
  Cardinality({ u \in eligible : scores[u] < scores[t] \/ (scores[u] = scores[t] /\ u < t) })

\* The least sensitive tensors of a search point get Q4_K, the next Q5_K.
TierPolicy(inventory, scores, point, protectedPrecision) ==
  LET eligible == EligibleFor(inventory, point)
      q4 == Rounded(Cardinality(eligible), point.q4)
      q5 == Rounded(Cardinality(eligible), point.q5)
  IN  IF \E t \in eligible : t \notin DOMAIN scores THEN Refused
      ELSE [t \in DOMAIN inventory |->
              LET entry == inventory[t]
                  score == ScoreOf(scores, t)
              IN  IF ~entry.quantizable THEN Assign(entry.precision, score, "preserved")
                  ELSE IF entry.protected THEN Assign(protectedPrecision, score, "protected")
                  ELSE IF t \notin eligible THEN Assign("Q6_K", score, point.id)
                  ELSE LET rank == TierRank(eligible, scores, t)
                       IN  IF rank < q4 THEN Assign("Q4_K", score, point.id)
                           ELSE IF rank < q4 + q5 THEN Assign("Q5_K", score, point.id)
                           ELSE Assign("Q6_K", score, point.id)]

\* The policy of an external provider: routes over a base precision.
ExternalPolicy(inventory, routes, base) ==
  LET matches(t) == { i \in DOMAIN routes : t \in routes[i].matches }
  IN  IF \E t \in DOMAIN inventory : Cardinality(matches(t)) > 1 THEN Refused
      ELSE [t \in DOMAIN inventory |->
              IF ~inventory[t].quantizable THEN Assign(inventory[t].precision, Unknown, "preserved")
              ELSE IF matches(t) = {} THEN Assign(base, Unknown, "base")
              ELSE Assign(routes[CHOOSE i \in matches(t) : TRUE].precision, Unknown, "route")]

\* Policies in order, the first of equal ones, at most max_candidates.
BoundedPlan(policies, max) ==
  LET unique == FoldLeft(LAMBDA kept, p : IF p \in Range(kept) THEN kept ELSE Append(kept, p),
                         << >>, policies)
  IN  SubSeq(unique, 1, IF Len(unique) > max THEN max ELSE Len(unique))

PlanPrecisionPolicies(inventory, scores, search, external) ==
  LET whole == [i \in DOMAIN search.whole |->
                  WholeModelPolicy(inventory, scores, search.whole[i], search.protectedPrecision)]
      tiers == [i \in DOMAIN search.points |->
                  TierPolicy(inventory, scores, search.points[i], search.protectedPrecision)]
  IN  IF Refused \in Range(tiers) THEN Refused
      ELSE BoundedPlan(whole \o tiers \o external, search.max)

\* The tensors of a packed model that are not as the policy assigns them.
AssignmentProblems(policy, packed) ==
  { t \in DOMAIN policy : t \notin DOMAIN packed \/ packed[t].precision # policy[t].precision }
    \cup (DOMAIN packed \ DOMAIN policy)

-----------------------------------------------------------------------------
(* Accounting and ranking                                                  *)

ElementsOf(packed, tensors) == MapThenSumSet(LAMBDA t : packed[t].elements, tensors)
BytesOf(packed, tensors) == MapThenSumSet(LAMBDA t : packed[t].bytes, tensors)

\* Bits per weight in hundredths.
AccountPackedModel(packed, linearGroups) ==
  LET all == DOMAIN packed
      linear == { t \in all : packed[t].group \in linearGroups }
  IN  IF linear = {} \/ \E t \in all : packed[t].bytes = 0 THEN Refused
      ELSE [ elements |-> ElementsOf(packed, all), bytes |-> BytesOf(packed, all),
             linearElements |-> ElementsOf(packed, linear), linearBytes |-> BytesOf(packed, linear),
             precisionElements |->
               [p \in { packed[t].precision : t \in all } |->
                  ElementsOf(packed, { t \in all : packed[t].precision = p })],
             bpw |-> (800 * BytesOf(packed, all)) \div ElementsOf(packed, all) ]

\* No worse in any metric and better in one.
Dominates(a, b) ==
  LET noWorse == /\ a.tg128 >= b.tg128 /\ a.tg512 >= b.tg512 /\ a.accuracy >= b.accuracy
                 /\ a.ppl <= b.ppl /\ a.bpw <= b.bpw /\ a.bytes <= b.bytes
      better  == \/ a.tg128 > b.tg128 \/ a.tg512 > b.tg512 \/ a.accuracy > b.accuracy
                 \/ a.ppl < b.ppl \/ a.bpw < b.bpw \/ a.bytes < b.bytes
  IN  noWorse /\ better

\* The key of the selection, compared from the left.
SelectionKey(p) == << p.tg512, p.tg128, -p.bpw, p.accuracy, p.id >>

KeyBelow(a, b) ==
  \E i \in DOMAIN a : a[i] < b[i] /\ \A j \in 1 .. i - 1 : a[j] = b[j]

\* Only stable candidates that pass quality are ranked.
RankPareto(results) ==
  LET eligible == { r \in results : r.stable /\ r.quality }
      frontier == { p \in eligible : \A q \in eligible : ~Dominates(q, p) }
  IN  [ frontier |-> { p.id : p \in frontier },
        excluded |-> { p.id : p \in results \ eligible },
        selected |-> IF frontier = {} THEN Refused
                     ELSE (CHOOSE p \in frontier :
                             \A q \in frontier : q = p \/ KeyBelow(SelectionKey(q), SelectionKey(p))).id ]

-----------------------------------------------------------------------------
(***************************************************************************)
(* Properties.                                                             *)
(***************************************************************************)

\* A planned tier never gives a more sensitive tensor fewer bits than a less
\* sensitive one, whatever the fractions round to, and what is protected or not
\* quantizable is as in every whole-model candidate.
SensitiveTensorsKeepBits(inventory, scores, point) ==
  LET policy == TierPolicy(inventory, scores, point, "Q8_0")
      whole  == WholeModelPolicy(inventory, scores, "Q4_K", "Q8_0")
  IN  policy # Refused =>
        /\ \A t, u \in EligibleFor(inventory, point) :
             scores[t] < scores[u] => Bits[policy[t].precision] <= Bits[policy[u].precision]
        /\ \A t \in DOMAIN inventory :
             inventory[t].protected \/ ~inventory[t].quantizable => policy[t] = whole[t]
        /\ AssignmentProblems(policy, [t \in DOMAIN inventory |->
              [inventory[t] EXCEPT !.precision = policy[t].precision]]) = {}

\* The accounting of a packed model loses nothing: the elements of the
\* precisions add up, and the linear part is a part.
AccountingAddsUp(packed, linearGroups) ==
  LET account == AccountPackedModel(packed, linearGroups)
  IN  account # Refused =>
        /\ MapThenSumSet(LAMBDA p : account.precisionElements[p], DOMAIN account.precisionElements)
             = account.elements
        /\ account.linearElements <= account.elements /\ account.linearBytes <= account.bytes

\* The selected candidate is beaten by no ranked one, there is one whenever one
\* is ranked, every other loser of the frontier is dominated from the frontier,
\* and a candidate that is dominated may as well not have been measured.
ParetoIsJust(results) ==
  LET eligible == { r \in results : r.stable /\ r.quality }
      ranked == RankPareto(results)
  IN  /\ (ranked.selected = Refused) = (eligible = {})
      /\ ranked.selected # Refused => ranked.selected \in ranked.frontier
      /\ \A p \in eligible :
           p.id \notin ranked.frontier =>
             /\ \E q \in eligible : q.id \in ranked.frontier /\ Dominates(q, p)
             /\ RankPareto(results \ {p}) = ranked

=============================================================================
