--------------------------- MODULE Campaign_proofs ---------------------------
(***************************************************************************)
(* Proofs about Campaign, for every plan, any number of controllers and    *)
(* any evidence.                                                           *)
(*                                                                         *)
(* The engine and the store are treated apart.  One lemma per stage says   *)
(* that the record it computes keeps RecordInv and advances the tournament *)
(* by at most one step.  The store's part is Past: a controller holds      *)
(* either the stored record or one of a smaller revision, so the record    *)
(* that Save lets through was computed from the stored one.                *)
(*                                                                         *)
(* Then proofs about the programs that campaigns are measured with, which  *)
(* MCTools runs each on its own: the KV campaign (KVInv), the ports        *)
(* (PortsInv) and the model snapshot (SnapshotInvariant).                  *)
(***************************************************************************)
EXTENDS Campaign, MCTools, SequenceTheorems, WellFoundedInduction, TLAPS

BeforeRun == { "ABSENT", "CREATE_CAMPAIGN", "INSPECT_TARGET",
               "CAPTURE_SHARED_BASELINES", "PLAN_CANDIDATES" }
AfterChoice == { "BUILD_COMPATIBLE_COMBINATION", "FINAL_VALIDATION", "COMPLETE" }

\* The strategies up to the current turn are judged, the others have not begun.
Progress(r) ==
  /\ r.stage = "RUN" <=> r.turn # 0
  /\ r.stage \in BeforeRun => \A c \in Candidates : r.disposition[c] = "ABSENT"
  /\ r.stage = "RUN" => \A c \in Candidates :
       /\ TurnOf(c) < r.turn => r.disposition[c] \in Verdict
       /\ TurnOf(c) # r.turn => r.disposition[c] # "RUNNING"
  /\ r.stage \in {"SELECT_WINNERS"} \cup AfterChoice =>
       \A c \in Candidates : r.disposition[c] \in Verdict

Earned(r, e) ==
  \A c \in Candidates : r.disposition[c] = "EXPERIMENTAL_ACCEPTED" =>
    e[c].performance = "ACCEPT" /\ e[c].quality

Ledger(r) ==
  r.attempts =
    { <<c, r.disposition[c]>> :
        c \in { e \in Candidates : r.disposition[e] \in AttemptDisposition } }

\* Winners, compatibility and outcome belong to their stages and to each other.
Choice(r) ==
  /\ r.stage \notin AfterChoice => r.selected = {}
  /\ \A c \in r.selected : r.disposition[c] = "EXPERIMENTAL_ACCEPTED"
  /\ r.stage \in {"FINAL_VALIDATION", "COMPLETE"} => r.compatibility.ids \subseteq r.selected
  /\ r.status # "ACTIVE" <=> r.stage = "COMPLETE"
  /\ r.status = "EXPERIMENTAL_ACCEPTED" =>
       /\ r.combination.verdict = "VALIDATED" /\ r.combination.ids # {}
       /\ r.compatibility.verdict = "COMPATIBLE"
       /\ r.combination.ids \subseteq r.compatibility.ids

\* What is true of every record ever saved, with the evidence e.
RecordInv(r, e) ==
  r \in CampaignRecord /\ Progress(r) /\ Earned(r, e) /\ Ledger(r) /\ Choice(r)

\* A record that a controller holds is the stored one or an earlier one.
Past(r) ==
  /\ RecordInv(r, evidence)
  /\ r.stage # "ABSENT"
  /\ r.revision <= record.revision
  /\ r.revision = record.revision => r = record

Holding == { "loaded", "publishing", "reporting" }

Holds(k) ==
  \/ controller[k] = Idle
  \/ /\ controller[k] \in [pc : Holding, held : CampaignRecord]
     /\ Past(controller[k].held)
     /\ controller[k].pc = "reporting" => controller[k].held.stage = "COMPLETE"

IInv ==
  /\ RecordInv(record, evidence)
  /\ evidence \in Findings
  /\ lock \in Controllers \cup {Nobody}
  /\ DOMAIN controller = Controllers
  /\ \A k \in Controllers : Holds(k)
  /\ breakdown \in Nat
  /\ report \in {"NONE"} \cup CampaignStatus
  /\ crashes \in 0 .. MaxCrashes

-----------------------------------------------------------------------------
(***************************************************************************)
(* The engine.                                                             *)
(***************************************************************************)

\* The tournament as a record shows it.
Shown(r) == [c \in Candidates |-> IF Terminal(r, c) THEN r.disposition[c] ELSE "OPEN"]
Chosen(r) == r.stage \in AfterChoice

Judges(r, n) ==
  \E c \in Candidates, v \in Verdict :
    /\ ~Chosen(r) /\ Shown(r)[c] = "OPEN"
    /\ \A e \in Candidates : TurnOf(e) < TurnOf(c) => Shown(r)[e] # "OPEN"
    /\ Shown(n) = [Shown(r) EXCEPT ![c] = v]
    /\ Chosen(n) = Chosen(r) /\ n.selected = r.selected /\ n.status = r.status

Chooses(r, n) ==
  /\ ~Chosen(r) /\ \A c \in Candidates : Shown(r)[c] # "OPEN"
  /\ n.selected \in Admissible
  /\ \A c \in n.selected : Shown(r)[c] = "EXPERIMENTAL_ACCEPTED"
  /\ Chosen(n) /\ Shown(n) = Shown(r) /\ n.status = r.status

Closes(r, n) ==
  /\ Chosen(r) /\ r.status = "ACTIVE" /\ n.status \in CampaignStatus
  /\ n.status = "EXPERIMENTAL_ACCEPTED" => r.selected # {}
  /\ Shown(n) = Shown(r) /\ Chosen(n) /\ n.selected = r.selected

Stutters(r, n) ==
  Shown(n) = Shown(r) /\ Chosen(n) = Chosen(r) /\ n.selected = r.selected /\ n.status = r.status

Moves(r, n) == Stutters(r, n) \/ Judges(r, n) \/ Chooses(r, n) \/ Closes(r, n)

\* A legal successor of r.
Succeeds(r, n) ==
  /\ RecordInv(n, evidence) /\ n.stage # "ABSENT" /\ n.revision = r.revision + 1
  /\ Moves(r, n)

\* Every candidate has a turn, and the turns are counted from one.
LEMMA TurnOfCandidate ==
  /\ \A c \in Candidates : TurnOf(c) \in Turns
  /\ Turns = 1 .. Len(StrategyOrder) /\ Len(StrategyOrder) \in Nat \ {0}
  /\ Candidates \subseteq Nat
<1>1. \A c \in Candidates : TurnOf(c) \in Turns
  BY PlanAssumption DEF TurnOf
<1>2. Turns = 1 .. Len(StrategyOrder) /\ Len(StrategyOrder) \in Nat
  BY PlanAssumption DEF Turns
<1>3. Len(StrategyOrder) # 0
  BY <1>2, PlanAssumption
<1>4. Candidates \subseteq Nat
  BY PlanAssumption DEF Candidates
<1>5. QED
  BY <1>1, <1>2, <1>3, <1>4

\* Activation only turns planned candidates of the strategy into running ones.
LEMMA ActivationsOnlyRun ==
  ASSUME NEW d \in [Candidates -> Disposition], NEW turn,
         NEW a \in Activations(d, turn)
  PROVE  /\ a \in [Candidates -> Disposition]
         /\ \A c \in Candidates :
              a[c] = d[c] \/ (d[c] = "PLANNED" /\ a[c] = "RUNNING" /\ TurnOf(c) = turn)
BY DEF Activations, First, Disposition

\* A successor starts as the record with the next revision.
LEMMA UpdatedRecord ==
  ASSUME NEW r \in CampaignRecord
  PROVE  /\ Updated(r) \in CampaignRecord
         /\ Updated(r).revision = r.revision + 1
         /\ Updated(r).stage = r.stage /\ Updated(r).turn = r.turn
         /\ Updated(r).status = r.status /\ Updated(r).disposition = r.disposition
         /\ Updated(r).attempts = r.attempts /\ Updated(r).selected = r.selected
         /\ Updated(r).compatibility = r.compatibility
         /\ Updated(r).combination = r.combination
BY DEF CampaignRecord, Updated

\* Every stage before planning leads to the next one.
LEMMA PrepareSucceeds ==
  ASSUME NEW k \in Controllers, RecordInv(Held(k), evidence), Prepare(k)
  PROVE  \E n : Succeeds(Held(k), n) /\ Save(k, n)
<1> DEFINE r == Held(k)
           u == Updated(r)
           next == Successor[u.stage]
           n == [u EXCEPT !.stage = next]
<1>1. /\ r \in CampaignRecord
      /\ r.stage \in {"CREATE_CAMPAIGN", "INSPECT_TARGET", "CAPTURE_SHARED_BASELINES"}
  BY DEF Prepare, Successor, RecordInv
<1>2. next \in {"INSPECT_TARGET", "CAPTURE_SHARED_BASELINES", "PLAN_CANDIDATES"}
  BY <1>1, UpdatedRecord DEF Successor
<1>3. Save(k, n)
  BY DEF Prepare
<1> HIDE DEF next
<1>4. n \in CampaignRecord
  BY <1>1, <1>2, UpdatedRecord DEF CampaignRecord, CampaignStage
<1>5. /\ n.stage = next /\ n.revision = r.revision + 1
      /\ n.turn = r.turn /\ n.disposition = r.disposition /\ n.attempts = r.attempts
      /\ n.selected = r.selected /\ n.status = r.status
      /\ n.compatibility = r.compatibility /\ n.combination = r.combination
  BY <1>1, UpdatedRecord DEF CampaignRecord
<1> HIDE DEF n
<1>6. RecordInv(n, evidence)
  BY <1>1, <1>2, <1>4, <1>5
  DEF RecordInv, Progress, BeforeRun, AfterChoice, Earned, Ledger, Choice
<1>7. Stutters(r, n)
  BY <1>1, <1>2, <1>5 DEF Stutters, Shown, Terminal, Chosen, AfterChoice
<1>8. QED
  BY <1>2, <1>3, <1>5, <1>6, <1>7 DEF Succeeds, Moves

\* Planning leaves all candidates of the first strategy open.
LEMMA PlanCandidatesSucceeds ==
  ASSUME NEW k \in Controllers, RecordInv(Held(k), evidence), PlanCandidates(k)
  PROVE  \E n : Succeeds(Held(k), n) /\ Save(k, n)
<1> DEFINE r == Held(k)
           u == Updated(r)
           planned == [c \in Candidates |-> "PLANNED"]
<1>1. PICK a \in Activations(planned, 1) :
        Save(k, [u EXCEPT !.stage = "RUN", !.turn = 1, !.disposition = a])
  BY DEF PlanCandidates
<1> DEFINE n == [u EXCEPT !.stage = "RUN", !.turn = 1, !.disposition = a]
<1>2. r \in CampaignRecord /\ r.stage = "PLAN_CANDIDATES"
  BY DEF PlanCandidates, At, RecordInv
<1>3. /\ a \in [Candidates -> Disposition]
      /\ \A c \in Candidates : a[c] = "PLANNED" \/ (a[c] = "RUNNING" /\ TurnOf(c) = 1)
  <2>1. planned \in [Candidates -> Disposition]
    BY DEF Disposition
  <2>2. QED
    BY <2>1, ActivationsOnlyRun
<1>4. 1 \in Turns
  BY TurnOfCandidate
<1>5. n \in CampaignRecord
  <2>1. u \in CampaignRecord
    BY <1>2, UpdatedRecord
  <2> HIDE DEF u
  <2>2. QED
    BY <2>1, <1>3, <1>4 DEF CampaignRecord, CampaignStage
<1>6. /\ n.stage = "RUN" /\ n.revision = r.revision + 1 /\ n.turn = 1 /\ n.disposition = a
      /\ n.attempts = r.attempts /\ n.selected = r.selected /\ n.status = r.status
      /\ n.compatibility = r.compatibility /\ n.combination = r.combination
  BY <1>2, UpdatedRecord DEF CampaignRecord
<1> HIDE DEF n
<1>7. /\ r.attempts = {} /\ r.selected = {} /\ r.status = "ACTIVE"
      /\ \A c \in Candidates : r.disposition[c] = "ABSENT"
  BY <1>2 DEF RecordInv, Progress, BeforeRun, AfterChoice, Ledger, Choice, AttemptDisposition
<1>8. Progress(n)
  BY <1>3, <1>6, TurnOfCandidate DEF Progress, BeforeRun, AfterChoice
<1>9. Earned(n, evidence) /\ Ledger(n) /\ Choice(n)
  BY <1>3, <1>6, <1>7 DEF Earned, Ledger, Choice, AfterChoice, AttemptDisposition
<1>10. Stutters(r, n)
  BY <1>2, <1>3, <1>6, <1>7 DEF Stutters, Shown, Terminal, Chosen, AfterChoice, Verdict
<1>11. QED
  BY <1>1, <1>5, <1>6, <1>8, <1>9, <1>10 DEF Succeeds, Moves, RecordInv, n

\* A verdict is given to a candidate that had none, in the turn of its strategy, on
\* its own evidence, and it enters the ledger.
LEMMA RecordCandidateResultSucceeds ==
  ASSUME NEW k \in Controllers, RecordInv(Held(k), evidence), evidence \in Findings,
         RecordCandidateResult(k)
  PROVE  \E n : Succeeds(Held(k), n) /\ Save(k, n)
<1> DEFINE r == Held(k)
           u == Updated(r)
<1>0. PICK c \in Candidates : \E v \in {CandidateGate(evidence[c]), "SKIPPED"} :
        /\ r.disposition[c] = "RUNNING"
        /\ \E next \in Judged(r, c, v) : Save(k, next)
  BY DEF RecordCandidateResult
<1>1. PICK v \in {CandidateGate(evidence[c]), "SKIPPED"} :
        /\ r.disposition[c] = "RUNNING"
        /\ \E next \in Judged(r, c, v) : Save(k, next)
  BY <1>0
<1>2. r \in CampaignRecord /\ r.stage = "RUN"
  BY DEF RecordCandidateResult, At, RecordInv
<1> DEFINE judged == [r.disposition EXCEPT ![c] = v]
<1>3. PICK a \in Activations(judged, r.turn) :
        Save(k, [u EXCEPT !.disposition = a, !.attempts = Attempted(r, c, v)])
  BY <1>1 DEF Judged
<1> DEFINE n == [u EXCEPT !.disposition = a, !.attempts = Attempted(r, c, v)]
<1>4. /\ v \in Verdict
      /\ v = "EXPERIMENTAL_ACCEPTED" =>
           evidence[c].performance = "ACCEPT" /\ evidence[c].quality
  <2>1. CASE v = "SKIPPED"
    BY <2>1 DEF Verdict
  <2>2. CASE v = CandidateGate(evidence[c])
    <3>1. CASE evidence[c].performance = "REJECT"
      BY <2>2, <3>1, Zenon DEF CandidateGate, Verdict
    <3>2. CASE evidence[c].performance = "INCONCLUSIVE"
      BY <2>2, <3>2, Zenon DEF CandidateGate, Verdict
    <3>3. CASE evidence[c].performance = "ACCEPT"
      <4>1. CandidateGate(evidence[c]) =
              IF evidence[c].quality THEN "EXPERIMENTAL_ACCEPTED" ELSE "REJECTED"
        BY <3>3, Zenon DEF CandidateGate
      <4>2. QED
        BY <2>2, <3>3, <4>1 DEF Verdict
    <3>4. evidence[c] \in CandidateEvidence
      BY FindingsAssumption
    <3>5. QED
      BY <3>1, <3>2, <3>3, <3>4 DEF CandidateEvidence
  <2>3. QED
    BY <2>1, <2>2
<1>5. r.disposition \in [Candidates -> Disposition] /\ u \in CampaignRecord
  BY <1>2, UpdatedRecord DEF CampaignRecord
<1>6. judged \in [Candidates -> Disposition]
  BY <1>4, <1>5 DEF Disposition
<1>7. /\ a \in [Candidates -> Disposition]
      /\ \A e \in Candidates : a[e] = judged[e]
           \/ (judged[e] = "PLANNED" /\ a[e] = "RUNNING" /\ TurnOf(e) = r.turn)
  BY <1>6, ActivationsOnlyRun
<1>8. /\ a[c] = v
      /\ \A e \in Candidates \ {c} : a[e] = r.disposition[e]
           \/ (r.disposition[e] = "PLANNED" /\ a[e] = "RUNNING" /\ TurnOf(e) = r.turn)
  BY <1>4, <1>5, <1>7 DEF Verdict
<1> HIDE DEF judged
<1>9. Attempted(r, c, v) \in SUBSET (Candidates \X AttemptDisposition)
  BY <1>2, <1>4 DEF CampaignRecord, Attempted, Verdict, AttemptDisposition
<1>10. n \in CampaignRecord
  <2> HIDE DEF u
  <2>1. QED
    BY <1>5, <1>7, <1>9 DEF CampaignRecord
<1>11. /\ n.stage = "RUN" /\ n.revision = r.revision + 1 /\ n.turn = r.turn
       /\ n.disposition = a /\ n.attempts = Attempted(r, c, v) /\ n.selected = r.selected
       /\ n.status = r.status /\ n.compatibility = r.compatibility
       /\ n.combination = r.combination
  BY <1>2, UpdatedRecord DEF CampaignRecord
<1> HIDE DEF n, u
<1>12. Progress(n)
  BY <1>2, <1>4, <1>8, <1>11 DEF RecordInv, Progress, BeforeRun, AfterChoice, Verdict
<1>13. Earned(n, evidence)
  BY <1>4, <1>8, <1>11 DEF RecordInv, Earned
<1>14. Ledger(n)
  <2>1. r.attempts = { <<e, r.disposition[e]>> :
                         e \in { d \in Candidates : r.disposition[d] \in AttemptDisposition } }
    BY DEF RecordInv, Ledger
  <2>2. \A e \in Candidates \ {c} :
          a[e] \in AttemptDisposition <=> r.disposition[e] \in AttemptDisposition
    BY <1>8 DEF AttemptDisposition
  <2>3. \A e \in Candidates \ {c} : a[e] \in AttemptDisposition => a[e] = r.disposition[e]
    BY <1>8 DEF AttemptDisposition
  <2>4. r.disposition[c] \notin AttemptDisposition
    BY <1>1 DEF AttemptDisposition
  <2>5. v \in AttemptDisposition <=> v # "SKIPPED"
    BY <1>4 DEF Verdict, AttemptDisposition
  <2>6. CASE v = "SKIPPED"
    BY <2>1, <2>2, <2>3, <2>4, <2>5, <2>6, <1>8, <1>11 DEF Ledger, Attempted
  <2>7. CASE v # "SKIPPED"
    BY <2>1, <2>2, <2>3, <2>4, <2>5, <2>7, <1>8, <1>11 DEF Ledger, Attempted
  <2>8. QED
    BY <2>6, <2>7
<1>15. Choice(n)
  BY <1>2, <1>11 DEF RecordInv, Choice, AfterChoice
<1>16. Judges(r, n)
  <2>1. ~Chosen(r) /\ Chosen(n) = Chosen(r)
    BY <1>2, <1>11 DEF Chosen, AfterChoice
  <2>2. Shown(r)[c] = "OPEN"
    BY <1>1 DEF Shown, Terminal, Verdict
  <2>3. TurnOf(c) = r.turn
    BY <1>1, <1>2 DEF RecordInv, Progress
  <2>4. \A e \in Candidates : TurnOf(e) < TurnOf(c) => Shown(r)[e] # "OPEN"
    BY <1>2, <2>3 DEF RecordInv, Progress, Shown, Terminal, Verdict
  <2>5. \A e \in Candidates : Shown(n)[e] = [Shown(r) EXCEPT ![c] = v][e]
    BY <1>4, <1>8, <1>11 DEF Shown, Terminal, Verdict
  <2>6. Shown(n) = [Shown(r) EXCEPT ![c] = v]
    BY <2>5 DEF Shown
  <2>7. QED
    BY <2>1, <2>2, <2>4, <2>6, <1>4, <1>11 DEF Judges
<1>17. Save(k, n)
  BY <1>3 DEF n
<1>18. QED
  BY <1>10, <1>11, <1>12, <1>13, <1>14, <1>15, <1>16, <1>17 DEF Succeeds, Moves, RecordInv

\* The next strategy begins, or the winners are chosen next, when all of the current
\* one are judged.
LEMMA CompleteStrategySucceeds ==
  ASSUME NEW k \in Controllers, RecordInv(Held(k), evidence), CompleteStrategy(k)
  PROVE  \E n : Succeeds(Held(k), n) /\ Save(k, n)
<1> DEFINE r == Held(k)
           u == Updated(r)
<1>1. /\ r \in CampaignRecord /\ r.stage = "RUN"
      /\ \A c \in Candidates :
           /\ r.disposition[c] # "RUNNING"
           /\ TurnOf(c) = r.turn => r.disposition[c] \in Verdict
  BY DEF CompleteStrategy, At, RecordInv, Terminal
<1>2. /\ u \in CampaignRecord /\ r.turn \in Turns
      /\ r.disposition \in [Candidates -> Disposition]
  BY <1>1, UpdatedRecord DEF CampaignRecord, RecordInv, Progress
<1>3. \A c \in Candidates : TurnOf(c) <= r.turn => r.disposition[c] \in Verdict
  BY <1>1, <1>2, TurnOfCandidate DEF RecordInv, Progress
<1>4. CASE r.turn = Len(StrategyOrder)
  <2> DEFINE n == [u EXCEPT !.stage = "SELECT_WINNERS", !.turn = 0]
  <2>1. Save(k, n)
    BY <1>4 DEF CompleteStrategy
  <2>2. n \in CampaignRecord
    <3> HIDE DEF u
    <3>1. QED
      BY <1>2 DEF CampaignRecord, CampaignStage
  <2>3. /\ n.stage = "SELECT_WINNERS" /\ n.revision = r.revision + 1 /\ n.turn = 0
        /\ n.disposition = r.disposition /\ n.attempts = r.attempts
        /\ n.selected = r.selected /\ n.status = r.status
        /\ n.compatibility = r.compatibility /\ n.combination = r.combination
    BY <1>1, UpdatedRecord DEF CampaignRecord
  <2> HIDE DEF n, u
  <2>4. \A c \in Candidates : r.disposition[c] \in Verdict
    BY <1>2, <1>3, <1>4, TurnOfCandidate
  <2>5. Progress(n)
    BY <2>3, <2>4 DEF Progress, BeforeRun, AfterChoice
  <2>6. Earned(n, evidence) /\ Ledger(n) /\ Choice(n)
    BY <1>1, <2>3 DEF RecordInv, Earned, Ledger, Choice, AfterChoice
  <2>7. Stutters(r, n)
    BY <1>1, <2>3 DEF Stutters, Shown, Terminal, Chosen, AfterChoice
  <2>8. QED
    BY <2>1, <2>2, <2>3, <2>5, <2>6, <2>7 DEF Succeeds, Moves, RecordInv
<1>5. CASE r.turn # Len(StrategyOrder)
  <2>1. PICK a \in Activations(r.disposition, r.turn + 1) :
          Save(k, [u EXCEPT !.turn = @ + 1, !.disposition = a])
    BY <1>5 DEF CompleteStrategy
  <2> DEFINE n == [u EXCEPT !.turn = @ + 1, !.disposition = a]
  <2>2. /\ a \in [Candidates -> Disposition]
        /\ \A c \in Candidates : a[c] = r.disposition[c]
             \/ (r.disposition[c] = "PLANNED" /\ a[c] = "RUNNING" /\ TurnOf(c) = r.turn + 1)
    BY <1>2, ActivationsOnlyRun
  <2>3. r.turn + 1 \in Turns /\ u.turn = r.turn /\ r.turn \in Nat
    BY <1>1, <1>2, <1>5, TurnOfCandidate, UpdatedRecord
  <2>4. n \in CampaignRecord
    <3> HIDE DEF u
    <3>1. [u EXCEPT !.turn = @ + 1, !.disposition = a] =
            [[u EXCEPT !.turn = r.turn + 1] EXCEPT !.disposition = a]
      BY <1>2, <2>3 DEF CampaignRecord
    <3>2. [u EXCEPT !.turn = r.turn + 1] \in CampaignRecord
      BY <1>2, <2>3 DEF CampaignRecord
    <3>3. QED
      BY <2>2, <3>1, <3>2 DEF CampaignRecord
  <2>5. /\ n.stage = "RUN" /\ n.revision = r.revision + 1 /\ n.turn = r.turn + 1
        /\ n.disposition = a /\ n.attempts = r.attempts
        /\ n.selected = r.selected /\ n.status = r.status
        /\ n.compatibility = r.compatibility /\ n.combination = r.combination
    BY <1>1, UpdatedRecord DEF CampaignRecord
  <2> HIDE DEF n, u
  <2>6. Progress(n)
    <3>1. \A c \in Candidates : TurnOf(c) < r.turn + 1 => a[c] \in Verdict
      BY <1>3, <2>2, <2>3, TurnOfCandidate DEF Verdict
    <3>2. \A c \in Candidates : TurnOf(c) # r.turn + 1 => a[c] # "RUNNING"
      BY <1>1, <2>2
    <3>3. QED
      BY <2>3, <2>5, <3>1, <3>2, TurnOfCandidate DEF Progress, BeforeRun, AfterChoice
  <2>7. Earned(n, evidence) /\ Ledger(n) /\ Choice(n)
    <3>1. Earned(n, evidence) /\ Choice(n)
      BY <1>1, <2>2, <2>5 DEF RecordInv, Earned, Choice, AfterChoice
    <3>2. \A c \in Candidates : a[c] = r.disposition[c]
            \/ (a[c] \notin AttemptDisposition /\ r.disposition[c] \notin AttemptDisposition)
      BY <2>2 DEF AttemptDisposition
    <3>3. Ledger(n)
      BY <2>5, <3>2 DEF RecordInv, Ledger
    <3>4. QED
      BY <3>1, <3>3
  <2>8. Stutters(r, n)
    BY <1>1, <2>2, <2>5 DEF Stutters, Shown, Terminal, Chosen, AfterChoice, Verdict
  <2>9. QED
    BY <2>1, <2>4, <2>5, <2>6, <2>7, <2>8 DEF Succeeds, Moves, RecordInv, n
<1>6. QED
  BY <1>4, <1>5

\* The winners are accepted candidates that may win together.
LEMMA SelectWinnersSucceeds ==
  ASSUME NEW k \in Controllers, RecordInv(Held(k), evidence), SelectWinners(k)
  PROVE  \E n : Succeeds(Held(k), n) /\ Save(k, n)
<1> DEFINE r == Held(k)
           u == Updated(r)
<1>1. PICK W \in (SUBSET Accepted(r)) \cap Admissible :
        Save(k, [u EXCEPT !.stage = "BUILD_COMPATIBLE_COMBINATION", !.selected = W])
  BY DEF SelectWinners
<1> DEFINE n == [u EXCEPT !.stage = "BUILD_COMPATIBLE_COMBINATION", !.selected = W]
<1>2. r \in CampaignRecord /\ r.stage = "SELECT_WINNERS" /\ u \in CampaignRecord
  BY UpdatedRecord DEF SelectWinners, At, RecordInv
<1>3. W \in SUBSET Candidates /\ \A c \in W : r.disposition[c] = "EXPERIMENTAL_ACCEPTED"
  BY DEF Accepted
<1>4. n \in CampaignRecord
  <2> HIDE DEF u
  <2>1. QED
    BY <1>2, <1>3 DEF CampaignRecord, CampaignStage
<1>5. /\ n.stage = "BUILD_COMPATIBLE_COMBINATION" /\ n.revision = r.revision + 1
      /\ n.selected = W /\ n.turn = r.turn /\ n.disposition = r.disposition
      /\ n.attempts = r.attempts /\ n.status = r.status
      /\ n.compatibility = r.compatibility /\ n.combination = r.combination
  BY <1>2, UpdatedRecord DEF CampaignRecord
<1>6. Save(k, n)
  BY <1>1
<1> HIDE DEF n, u
<1>7. RecordInv(n, evidence)
  BY <1>2, <1>3, <1>4, <1>5
  DEF RecordInv, Progress, BeforeRun, AfterChoice, Earned, Ledger, Choice
<1>8. Chooses(r, n)
  BY <1>2, <1>3, <1>5
  DEF RecordInv, Progress, Chooses, Shown, Terminal, Chosen, AfterChoice, Verdict
<1>9. QED
  BY <1>5, <1>6, <1>7, <1>8 DEF Succeeds, Moves

\* The compatibility found is that of winners.
LEMMA BuildCombinationSucceeds ==
  ASSUME NEW k \in Controllers, RecordInv(Held(k), evidence), BuildCombination(k)
  PROVE  \E n : Succeeds(Held(k), n) /\ Save(k, n)
<1> DEFINE r == Held(k)
           u == Updated(r)
<1>1. PICK found \in Compatibility :
        /\ found.ids \subseteq r.selected
        /\ Save(k, [u EXCEPT !.stage = "FINAL_VALIDATION", !.compatibility = found])
  BY DEF BuildCombination
<1> DEFINE n == [u EXCEPT !.stage = "FINAL_VALIDATION", !.compatibility = found]
<1>2. /\ r \in CampaignRecord /\ r.stage = "BUILD_COMPATIBLE_COMBINATION"
      /\ u \in CampaignRecord
  BY UpdatedRecord DEF BuildCombination, At, RecordInv
<1>3. n \in CampaignRecord
  <2> HIDE DEF u
  <2>1. QED
    BY <1>2 DEF CampaignRecord, CampaignStage
<1>4. /\ n.stage = "FINAL_VALIDATION" /\ n.revision = r.revision + 1
      /\ n.compatibility = found /\ n.turn = r.turn /\ n.disposition = r.disposition
      /\ n.attempts = r.attempts /\ n.status = r.status /\ n.selected = r.selected
      /\ n.combination = r.combination
  BY <1>2, UpdatedRecord DEF CampaignRecord
<1>5. Save(k, n)
  BY <1>1
<1> HIDE DEF n, u
<1>6. RecordInv(n, evidence)
  BY <1>1, <1>2, <1>3, <1>4
  DEF RecordInv, Progress, BeforeRun, AfterChoice, Earned, Ledger, Choice
<1>7. Stutters(r, n)
  BY <1>2, <1>4 DEF Stutters, Shown, Terminal, Chosen, AfterChoice
<1>8. QED
  BY <1>4, <1>5, <1>6, <1>7 DEF Succeeds, Moves

\* The campaign is closed once, accepted only for compatible winners.
LEMMA ValidateFinalSucceeds ==
  ASSUME NEW k \in Controllers, RecordInv(Held(k), evidence), ValidateFinal(k)
  PROVE  \E n : Succeeds(Held(k), n) /\ Save(k, n)
<1> DEFINE r == Held(k)
           u == Updated(r)
<1>1. PICK o \in CampaignStatus, built \in Combination :
        /\ built.verdict = Required[o]
        /\ built.ids \subseteq r.compatibility.ids
        /\ o = "EXPERIMENTAL_ACCEPTED" => Acceptable(r, built)
        /\ Save(k, [u EXCEPT !.stage = "COMPLETE", !.status = o, !.combination = built])
  BY DEF ValidateFinal
<1> DEFINE n == [u EXCEPT !.stage = "COMPLETE", !.status = o, !.combination = built]
<1>2. r \in CampaignRecord /\ r.stage = "FINAL_VALIDATION" /\ u \in CampaignRecord
  BY UpdatedRecord DEF ValidateFinal, At, RecordInv
<1>3. n \in CampaignRecord
  <2> HIDE DEF u
  <2>1. QED
    BY <1>2 DEF CampaignRecord, CampaignStage
<1>4. /\ n.stage = "COMPLETE" /\ n.revision = r.revision + 1
      /\ n.status = o /\ n.combination = built /\ n.turn = r.turn
      /\ n.disposition = r.disposition /\ n.attempts = r.attempts
      /\ n.selected = r.selected /\ n.compatibility = r.compatibility
  BY <1>2, UpdatedRecord DEF CampaignRecord
<1>5. Save(k, n)
  BY <1>1
<1> HIDE DEF n, u
<1>6. o # "ACTIVE" /\ (o = "EXPERIMENTAL_ACCEPTED" => built.verdict = "VALIDATED")
  BY <1>1 DEF CampaignStatus, Required
<1>7. Progress(n) /\ Earned(n, evidence) /\ Ledger(n)
  BY <1>2, <1>4 DEF RecordInv, Progress, BeforeRun, AfterChoice, Earned, Ledger
<1>8. Choice(n)
  BY <1>1, <1>2, <1>4, <1>6 DEF RecordInv, Choice, AfterChoice, Acceptable
<1>9. Closes(r, n)
  BY <1>1, <1>2, <1>4
  DEF RecordInv, Choice, Closes, Shown, Terminal, Chosen, AfterChoice, Acceptable, CampaignStatus
<1>10. QED
  BY <1>3, <1>4, <1>5, <1>7, <1>8, <1>9 DEF Succeeds, Moves, RecordInv

-----------------------------------------------------------------------------
(***************************************************************************)
(* The store.                                                              *)
(***************************************************************************)

\* An update of one controller leaves the others as they are.
LEMMA ControllerUpdate ==
  ASSUME NEW k \in Controllers, NEW c, DOMAIN controller = Controllers,
         controller' = [controller EXCEPT ![k] = c]
  PROVE  /\ (DOMAIN controller)' = Controllers
         /\ controller'[k] = c
         /\ \A j \in Controllers \ {k} : controller'[j] = controller[j]
OBVIOUS

\* While the record is unchanged, so is what a controller knows of it.
LEMMA HoldsKept ==
  ASSUME NEW j \in Controllers, Holds(j), UNCHANGED << record, evidence >>,
         controller'[j] = controller[j]
  PROVE  Holds(j)'
BY DEF Holds, Past

\* Only a successor of the stored record passes Save: a controller that was
\* overtaken holds an earlier one, and its save is a conflict.
LEMMA SaveKeeps ==
  ASSUME IInv, NEW k \in Controllers, controller[k].pc = "loaded",
         NEW n, Succeeds(Held(k), n), Save(k, n)
  PROVE  IInv' /\ Moves(record, record')
<1>1. controller[k] # Idle /\ Past(Held(k)) /\ n.revision = Held(k).revision + 1
  BY DEF IInv, Holds, Held, Idle, Succeeds
<1>2. /\ RecordInv(record, evidence) /\ record.revision \in Nat
      /\ Held(k).revision \in Nat /\ DOMAIN controller = Controllers
  BY <1>1 DEF IInv, Past, RecordInv, CampaignRecord
<1>3. CASE n.revision = record.revision + 1
  <2>1. /\ record' = n /\ lock' = k
        /\ controller' = [controller EXCEPT ![k] = [pc |-> "publishing", held |-> n]]
        /\ UNCHANGED << evidence, breakdown, report, crashes >>
    BY <1>3 DEF Save
  <2>2. Held(k) = record
    BY <1>1, <1>2, <1>3 DEF Past
  <2>3. RecordInv(n, evidence) /\ n.stage # "ABSENT" /\ Moves(record, n) /\ n \in CampaignRecord
    BY <2>2 DEF Succeeds, RecordInv
  <2>4. \A j \in Controllers : Holds(j)'
    <3> TAKE j \in Controllers
    <3>1. CASE j = k
      <4>1. controller'[j] = [pc |-> "publishing", held |-> n]
        BY <2>1, <3>1, <1>2, ControllerUpdate
      <4>2. Past(controller[j].held)'
        BY <2>1, <2>3, <4>1, <1>2, <1>3 DEF Past
      <4>3. QED
        BY <2>3, <4>1, <4>2 DEF Holds, Holding
    <3>2. CASE j # k
      <4>1. controller'[j] = controller[j]
        BY <2>1, <3>2, <1>2, ControllerUpdate
      <4>2. CASE controller[j] = Idle
        BY <4>1, <4>2 DEF Holds, Idle
      <4>3. CASE controller[j] # Idle
        <5>1. Past(controller[j].held) /\ controller[j] \in [pc : Holding, held : CampaignRecord]
          BY <4>3 DEF IInv, Holds
        <5>2. controller[j].held.revision \in Nat
          BY <5>1 DEF Past, RecordInv, CampaignRecord
        <5>3. Past(controller[j].held)'
          BY <5>1, <5>2, <4>1, <2>1, <1>2, <1>3 DEF Past
        <5>4. QED
          BY <4>1, <4>3, <5>1, <5>3 DEF IInv, Holds
      <4>4. QED
        BY <4>2, <4>3
    <3>3. QED
      BY <3>1, <3>2
  <2>5. (DOMAIN controller)' = Controllers
    BY <2>1, <1>2
  <2>6. IInv'
    BY <2>1, <2>3, <2>4, <2>5 DEF IInv
  <2>7. QED
    BY <2>1, <2>3, <2>6
<1>4. CASE n.revision # record.revision + 1
  <2>1. /\ controller' = [controller EXCEPT ![k] = Idle]
        /\ UNCHANGED << record, lock, evidence, breakdown, report, crashes >>
    BY <1>4 DEF Save
  <2>2. \A j \in Controllers : Holds(j)'
    BY <2>1, <1>2, ControllerUpdate, HoldsKept DEF IInv, Holds
  <2>3. IInv'
    BY <2>1, <2>2, <1>2 DEF IInv
  <2>4. QED
    BY <2>1, <2>3 DEF Moves, Stutters
<1>5. QED
  BY <1>3, <1>4

\* One step of run_campaign_step, whatever its stage.
LEMMA StepKeeps ==
  ASSUME IInv, NEW k \in Controllers, Step(k)
  PROVE  IInv' /\ Moves(record, record')
<1>1. controller[k].pc = "loaded"
  BY DEF Step, Prepare, PlanCandidates, RecordCandidateResult, CompleteStrategy,
         SelectWinners, BuildCombination, ValidateFinal, At
<1>2. RecordInv(Held(k), evidence) /\ evidence \in Findings
  BY <1>1 DEF IInv, Holds, Held, Idle, Past
<1>3. \E n : Succeeds(Held(k), n) /\ Save(k, n)
  BY <1>2, PrepareSucceeds, PlanCandidatesSucceeds, RecordCandidateResultSucceeds,
     CompleteStrategySucceeds, SelectWinnersSucceeds, BuildCombinationSucceeds,
     ValidateFinalSucceeds DEF Step
<1>4. PICK n : Succeeds(Held(k), n) /\ Save(k, n)
  BY <1>3
<1>5. QED
  BY <1>1, <1>4, SaveKeeps

\* Nobody holds a record of a campaign that does not exist yet.
LEMMA CreateKeeps ==
  ASSUME IInv, NEW k \in Controllers, Create(k)
  PROVE  IInv' /\ Moves(record, record')
<1>1. /\ record.stage = "ABSENT" /\ record' = [record EXCEPT !.stage = "CREATE_CAMPAIGN"]
      /\ lock' = k
      /\ controller' = [controller EXCEPT ![k] = [pc |-> "publishing", held |-> record']]
      /\ UNCHANGED << evidence, breakdown, report, crashes >>
  BY DEF Create
<1>2. record \in CampaignRecord /\ DOMAIN controller = Controllers
  BY DEF IInv, RecordInv
<1>3. record' \in CampaignRecord
  BY <1>1, <1>2 DEF CampaignRecord, CampaignStage
<1>4. /\ record'.stage = "CREATE_CAMPAIGN" /\ record'.revision = record.revision
      /\ record'.turn = record.turn /\ record'.disposition = record.disposition
      /\ record'.attempts = record.attempts /\ record'.selected = record.selected
      /\ record'.status = record.status /\ record'.compatibility = record.compatibility
      /\ record'.combination = record.combination
  BY <1>1, <1>2 DEF CampaignRecord
<1>5. RecordInv(record', evidence)
  BY <1>1, <1>3, <1>4
  DEF IInv, RecordInv, Progress, BeforeRun, AfterChoice, Earned, Ledger, Choice
<1>6. Moves(record, record')
  BY <1>1, <1>4 DEF Moves, Stutters, Shown, Terminal, Chosen, AfterChoice
<1>7. \A j \in Controllers : Holds(j)'
  <2> TAKE j \in Controllers
  <2>1. CASE j = k
    <3>1. controller'[j] = [pc |-> "publishing", held |-> record']
      BY <1>1, <1>2, <2>1, ControllerUpdate
    <3>2. Past(controller[j].held)'
      BY <1>1, <1>2, <1>4, <1>5, <3>1 DEF Past, CampaignRecord
    <3>3. QED
      BY <1>3, <3>1, <3>2 DEF Holds, Holding
  <2>2. CASE j # k
    <3>1. controller'[j] = controller[j]
      BY <1>1, <1>2, <2>2, ControllerUpdate
    <3>2. CASE controller[j] = Idle
      BY <3>1, <3>2 DEF Holds, Idle
    <3>3. CASE controller[j] # Idle
      <4>1. Past(controller[j].held) /\ controller[j] \in [pc : Holding, held : CampaignRecord]
        BY <3>3 DEF IInv, Holds
      <4>2. controller[j].held.revision # record.revision
        BY <4>1, <1>1 DEF Past
      <4>3. Past(controller[j].held)'
        BY <4>1, <4>2, <3>1, <1>1, <1>4 DEF Past
      <4>4. QED
        BY <3>1, <3>3, <4>1, <4>3 DEF IInv, Holds
    <3>4. QED
      BY <3>2, <3>3
  <2>3. QED
    BY <2>1, <2>2
<1>8. (DOMAIN controller)' = Controllers
  BY <1>1, <1>2
<1>9. IInv'
  BY <1>1, <1>5, <1>7, <1>8 DEF IInv
<1>10. QED
  BY <1>6, <1>9

\* What else a controller does leaves the record alone.
LEMMA OthersKeep ==
  ASSUME IInv, NEW k \in Controllers, Load(k) \/ Publish(k) \/ Report(k) \/ Crash(k)
  PROVE  IInv' /\ Moves(record, record')
<1>1. /\ DOMAIN controller = Controllers /\ record \in CampaignRecord
      /\ record.revision \in Nat /\ breakdown \in Nat /\ RecordInv(record, evidence)
      /\ crashes \in 0 .. MaxCrashes /\ MaxCrashes \in Nat
  BY ControllersAssumption DEF IInv, RecordInv, CampaignRecord
<1>2. UNCHANGED << record, evidence >>
  BY DEF Load, Publish, Report, Crash
<1>3. /\ controller' = [controller EXCEPT ![k] = controller'[k]]
      /\ lock' \in Controllers \cup {Nobody}
  BY <1>1 DEF IInv, Load, Publish, Report, Crash
<1>4. \A j \in Controllers \ {k} : Holds(j)'
  BY <1>1, <1>2, <1>3, ControllerUpdate, HoldsKept DEF IInv
<1>5. ASSUME Load(k) PROVE Holds(k)' /\ UNCHANGED << breakdown, report, crashes >>
  <2>1. controller'[k] = [pc |-> "loaded", held |-> record]
    BY <1>1, <1>5 DEF Load
  <2>2. Past(record)'
    BY <1>1, <1>2, <1>5 DEF Load, Past
  <2>3. QED
    BY <1>1, <1>2, <1>5, <2>1, <2>2 DEF Load, Holds, Holding
<1>6. ASSUME Publish(k)
      PROVE  Holds(k)' /\ breakdown' \in Nat /\ UNCHANGED << report, crashes >>
  <2> DEFINE held == controller[k].held
  <2>1. Past(held) /\ controller[k] \in [pc : Holding, held : CampaignRecord]
    BY <1>6 DEF Publish, IInv, Holds, Idle
  <2>2. controller'[k] =
          IF held.stage = "COMPLETE" THEN [pc |-> "reporting", held |-> held] ELSE Idle
    BY <1>1, <1>6 DEF Publish
  <2>3. /\ RecordInv(held, evidence) /\ held.stage # "ABSENT" /\ held.revision <= record.revision
        /\ held.revision = record.revision => held = record
    BY <2>1 DEF Past
  <2>4. CASE held.stage = "COMPLETE"
    <3>1. controller'[k] = [pc |-> "reporting", held |-> held]
      BY <2>2, <2>4
    <3> HIDE DEF held
    <3>2. Past(controller[k].held)'
      BY <1>2, <2>3, <3>1 DEF Past
    <3>3. QED
      BY <1>6, <2>3, <2>4, <3>1, <3>2 DEF Holds, Holding, Publish, RecordInv, held, CampaignRecord
  <2>5. CASE held.stage # "COMPLETE"
    <3>1. controller'[k] = Idle
      BY <2>2, <2>5
    <3>2. QED
      BY <1>6, <2>3, <3>1 DEF Holds, Publish, RecordInv, CampaignRecord
  <2>6. QED
    BY <2>4, <2>5
<1>7. ASSUME Report(k)
      PROVE  Holds(k)' /\ report' \in CampaignStatus /\ UNCHANGED << breakdown, crashes >>
  <2>1. Past(Held(k)) /\ Held(k).stage = "COMPLETE"
    BY <1>7 DEF Report, IInv, Holds, Held, Idle
  <2>2. Held(k).status \in CampaignStatus
    BY <2>1 DEF Past, RecordInv, Choice, CampaignRecord
  <2>3. controller'[k] = Idle
    BY <1>1, <1>7 DEF Report
  <2>4. QED
    BY <1>7, <2>2, <2>3 DEF Report, Holds
<1>8. ASSUME Crash(k)
      PROVE  Holds(k)' /\ crashes' \in 0 .. MaxCrashes /\ UNCHANGED << breakdown, report >>
  <2>1. controller'[k] = Idle
    BY <1>1, <1>8 DEF Crash
  <2>2. QED
    BY <1>1, <1>8, <2>1 DEF Crash, Holds
<1>9. \A j \in Controllers : Holds(j)'
  BY <1>4, <1>5, <1>6, <1>7, <1>8
<1>10. breakdown' \in Nat /\ report' \in {"NONE"} \cup CampaignStatus
       /\ crashes' \in 0 .. MaxCrashes
  BY <1>1, <1>5, <1>6, <1>7, <1>8 DEF IInv
<1>11. (DOMAIN controller)' = Controllers
  BY <1>1, <1>3
<1>12. IInv'
  BY <1>1, <1>2, <1>3, <1>9, <1>10, <1>11 DEF IInv
<1>13. QED
  BY <1>2, <1>12 DEF Moves, Stutters

-----------------------------------------------------------------------------
(***************************************************************************)
(* The specification.                                                      *)
(***************************************************************************)

\* A campaign that does not exist yet satisfies the invariant.
LEMMA InitIInv == Init => IInv
<1> SUFFICES ASSUME Init PROVE IInv
  OBVIOUS
<1>1. record \in CampaignRecord
  BY DEF Init, CampaignRecord, CampaignStage, Disposition
<1>2. RecordInv(record, evidence)
  BY <1>1 DEF Init, RecordInv, Progress, BeforeRun, AfterChoice, Earned, Ledger, Choice,
              AttemptDisposition
<1>3. QED
  BY <1>2, ControllersAssumption DEF Init, IInv, Holds

\* Every step keeps the invariant and moves the tournament by at most one step.
LEMMA NextIInv == IInv /\ [Next]_vars => IInv' /\ Moves(record, record')
<1> SUFFICES ASSUME IInv, [Next]_vars PROVE IInv' /\ Moves(record, record')
  OBVIOUS
<1>1. CASE UNCHANGED vars
  <2>1. \A j \in Controllers : Holds(j)'
    BY <1>1, HoldsKept DEF vars, IInv
  <2>2. QED
    BY <1>1, <2>1 DEF vars, IInv, Moves, Stutters
<1>2. ASSUME NEW k \in Controllers, Drive(k) \/ Crash(k)
      PROVE  IInv' /\ Moves(record, record')
  BY <1>2, StepKeeps, CreateKeeps, OthersKeep DEF Drive
<1>3. QED
  BY <1>1, <1>2 DEF Next

\* The inductive invariant holds in every reachable state.
LEMMA Invariant == Spec => []IInv
<1>1. Init => IInv
  BY InitIInv
<1>2. IInv /\ [Next]_vars => IInv'
  BY NextIInv
<1>3. QED
  BY <1>1, <1>2, PTL DEF Spec

\* Every variable keeps to its type.
THEOREM TypeCorrect == Spec => []TypeOK
<1>1. IInv => TypeOK
  BY DEF IInv, TypeOK, RecordInv, Holds, Holding
<1>2. QED
  BY <1>1, Invariant, PTL

\* No controller, crash or repeated document makes an accepted candidate of one that
\* did not pass its own gates.
THEOREM Earnings == Spec => []AcceptanceIsEarned
<1>1. IInv => AcceptanceIsEarned
  BY DEF IInv, RecordInv, Earned, AcceptanceIsEarned, Accepted
<1>2. QED
  BY <1>1, Invariant, PTL

\* The ledger always holds one attempt of each candidate that was run to a verdict.
THEOREM Bookkeeping == Spec => []LedgerMatchesVerdicts
<1>1. IInv => LedgerMatchesVerdicts
  BY DEF IInv, RecordInv, Ledger, LedgerMatchesVerdicts
<1>2. QED
  BY <1>1, Invariant, PTL

\* An accepted campaign rests on winners, each accepted, found compatible before.
THEOREM CompatibleAcceptance == Spec => []AcceptedOnCompatibleWinners
<1>1. IInv => AcceptedOnCompatibleWinners
  BY DEF IInv, RecordInv, Choice, AcceptedOnCompatibleWinners, Accepted, CampaignRecord
<1>2. QED
  BY <1>1, Invariant, PTL

\* The campaign implements the tournament.
THEOREM Refinement == Spec => ImplementsTournament
<1>1. Init => Contest!Init
  BY DEF Init, Contest!Init, Terminal, Verdict
<1>2. IInv /\ Moves(record, record') => [Contest!Next]_(Contest!vars)
  <2> SUFFICES ASSUME IInv, Moves(record, record') PROVE [Contest!Next]_(Contest!vars)
    OBVIOUS
  <2>1. CASE Stutters(record, record')
    BY <2>1 DEF Stutters, Shown, Chosen, AfterChoice, Contest!vars, Terminal
  <2>2. CASE Judges(record, record')
    BY <2>2 DEF Judges, Shown, Chosen, AfterChoice, Terminal, Verdict,
                Contest!Next, Contest!Judge, Contest!Verdicts
  <2>3. CASE Chooses(record, record')
    BY <2>3 DEF Chooses, Shown, Chosen, AfterChoice, Terminal, Contest!Next, Contest!Choose
  <2>4. CASE Closes(record, record')
    BY <2>4 DEF Closes, Shown, Chosen, AfterChoice, Terminal, CampaignStatus,
                Contest!Next, Contest!Close, Contest!Outcomes
  <2>5. QED
    BY <2>1, <2>2, <2>3, <2>4 DEF Moves
<1>3. IInv /\ [Next]_vars => [Contest!Next]_(Contest!vars)
  BY <1>2, NextIInv
<1>4. QED
  BY <1>1, <1>3, Invariant, PTL DEF Spec, ImplementsTournament, Contest!Spec

-----------------------------------------------------------------------------
\* The record is valid, and acceptances and the ledger are as they should be.
THEOREM Soundness == Spec => []CampaignIsSound
BY TypeCorrect, Earnings, Bookkeeping, CompatibleAcceptance, PTL DEF CampaignIsSound

-----------------------------------------------------------------------------
(***************************************************************************)
(* The lock.  Who publishes is inside it, with the record that is stored;  *)
(* so nobody saves meanwhile, and the breakdown is made of the record that *)
(* the next one to enter finds.                                            *)
(***************************************************************************)
PublishesInside(k) ==
  controller[k].pc = "publishing" => lock = k /\ controller[k].held.revision = record.revision

LockInv == BreakdownFollowsRecord /\ \A k \in Controllers : PublishesInside(k)

\* Whoever changes the record enters the lock, which nobody held.
LEMMA EntersLock ==
  ASSUME LockInv, NEW k \in Controllers, NEW n, DOMAIN controller = Controllers,
         lock = Nobody, record' = n, lock' = k,
         controller' = [controller EXCEPT ![k] = [pc |-> "publishing", held |-> n]]
  PROVE  LockInv'
<1>1. ASSUME NEW j \in Controllers PROVE PublishesInside(j)'
  BY <1>1, ControllersAssumption DEF LockInv, PublishesInside
<1>2. QED
  BY <1>1, ControllersAssumption DEF LockInv, BreakdownFollowsRecord

LEMMA LockKept == IInv /\ LockInv /\ [Next]_vars => LockInv'
<1> SUFFICES ASSUME IInv, LockInv, [Next]_vars PROVE LockInv'
  OBVIOUS
<1>1. DOMAIN controller = Controllers /\ crashes \in Nat
  BY DEF IInv
<1>2. ASSUME NEW k \in Controllers, Create(k) PROVE LockInv'
  BY <1>1, <1>2, EntersLock DEF Create
<1>3. ASSUME NEW k \in Controllers, NEW n, Save(k, n), controller[k].pc = "loaded" PROVE LockInv'
  <2>1. CASE n.revision = record.revision + 1
    BY <1>1, <1>3, <2>1, EntersLock DEF Save
  <2>2. CASE n.revision # record.revision + 1
    BY <1>1, <1>3, <2>2 DEF Save, LockInv, PublishesInside, BreakdownFollowsRecord, Idle
  <2>3. QED
    BY <2>1, <2>2
<1>4. ASSUME NEW k \in Controllers, Step(k) PROVE LockInv'
  <2>1. controller[k].pc = "loaded" /\ \E n : Save(k, n)
    BY <1>4 DEF Step, Prepare, PlanCandidates, RecordCandidateResult, CompleteStrategy,
                SelectWinners, BuildCombination, ValidateFinal, At
  <2>2. QED
    BY <2>1, <1>3
<1>5. ASSUME NEW k \in Controllers, Publish(k) PROVE LockInv'
  <2>1. lock = k /\ breakdown' = record.revision /\ lock' = Nobody /\ UNCHANGED << record, crashes >>
    BY <1>5 DEF Publish, LockInv, PublishesInside
  <2>2. /\ controller'[k].pc # "publishing"
        /\ \A j \in Controllers \ {k} : controller'[j] = controller[j]
    BY <1>1, <1>5 DEF Publish, Idle
  <2>3. QED
    BY <2>1, <2>2 DEF LockInv, PublishesInside, BreakdownFollowsRecord
<1>6. ASSUME NEW k \in Controllers, Load(k) \/ Report(k) PROVE LockInv'
  BY <1>1, <1>6 DEF Load, Report, LockInv, PublishesInside, BreakdownFollowsRecord, Idle
<1>7. ASSUME NEW k \in Controllers, Crash(k) PROVE LockInv'
  <2>1. crashes' # 0 /\ UNCHANGED record /\ \A j \in Controllers : lock = j /\ j # k => lock' = j
    BY <1>1, <1>7 DEF Crash
  <2>2. /\ controller'[k].pc # "publishing"
        /\ \A j \in Controllers \ {k} : controller'[j] = controller[j]
    BY <1>1, <1>7 DEF Crash, Idle
  <2>3. QED
    BY <2>1, <2>2 DEF LockInv, PublishesInside, BreakdownFollowsRecord
<1>8. CASE UNCHANGED vars
  BY <1>8 DEF vars, LockInv, PublishesInside, BreakdownFollowsRecord
<1>9. QED
  BY <1>2, <1>4, <1>5, <1>6, <1>7, <1>8 DEF Next, Drive

\* Unless a controller crashed, the session breakdown is made of the record that
\* whoever enters the lock next finds, for any number of controllers.
THEOREM BreakdownStaysCurrent == Spec => []BreakdownFollowsRecord
<1>1. Init => LockInv
  BY DEF Init, LockInv, PublishesInside, BreakdownFollowsRecord, Idle
<1>2. LockInv => BreakdownFollowsRecord
  BY DEF LockInv
<1>3. QED
  BY <1>1, <1>2, LockKept, Invariant, PTL DEF Spec

-----------------------------------------------------------------------------
(* The KV campaign                                                         *)

KVSteps == {"none", "look", "precondition", "score", "read", "finish", "summarize"}

ToolRecord ==
  [step : KVSteps, arm : 0 .. 3, attempt : Nat, documents : [Types -> ResultDocuments \cup {NoFile}],
   measured : Benchmarks \cup {NoFile}]

IsTool(t, step, arm, attempt, documents, measured) ==
  /\ t \in ToolRecord /\ t.step = step /\ t.arm = arm /\ t.attempt = attempt
  /\ t.documents = documents /\ t.measured = measured

KVTyped ==
  /\ inputs \in 1 .. MaxInputs /\ calls \in 0 .. MaxCalls
  /\ stdout \in [Types -> Benchmarks \cup {NoFile}]
  /\ result \in [Types -> ResultDocuments \cup {NoFile}]
  /\ retries \in [Types -> Nat] /\ scored \in [Types -> Nat]
  /\ tool \in ToolRecord

\* Where the invocation is: its arm has no result yet once it measures, and a second
\* attempt follows a first one that was too noisy.
Measures == tool.step \in {"precondition", "score", "read", "finish"}

ToolOnItsWay ==
  /\ tool.step \notin {"none", "summarize"} => tool.arm \in 1 .. 3
  /\ tool.step \in {"read", "finish"} <=> tool.measured # NoFile
  /\ tool.step = "finish" => tool.measured.rows = "stable" /\ tool.measured.ok
  /\ Measures =>
       /\ result[Type] = NoFile /\ tool.attempt # 0
       /\ tool.attempt # 1 => stdout[Type] # NoFile /\ stdout[Type].rows = "noisy"
  /\ tool.step \in {"precondition", "score"} /\ tool.attempt = 1 => stdout[Type] = NoFile
  /\ tool.step \in {"read", "finish"} =>
       /\ tool.measured.samples = Samples
       /\ tool.attempt = 1 => stdout[Type] = tool.measured /\ scored[Type] = 1

\* The documents so far are of the inputs that are installed.
DocumentsOfTheseInputs ==
  /\ tool.step = "summarize" => \A t \in Types : tool.documents[t].inputs = inputs
  /\ tool.step \notin {"none", "summarize"} =>
       \A i \in 1 .. 3 : i < tool.arm => tool.documents[Arms[i]].inputs = inputs

FilesOfTypes ==
  \A t \in Types :
    /\ retries[t] # 1
    /\ stdout[t] = NoFile => scored[t] = 0
    /\ stdout[t] # NoFile => stdout[t].samples = 5
    /\ result[t] # NoFile => result[t].measured.rows = "stable" /\ result[t].measured.ok
    /\ result[t] # NoFile => stdout[t] # NoFile

KVInv ==
  KVTyped /\ ToolOnItsWay /\ DocumentsOfTheseInputs /\ FilesOfTypes /\ ResultIsEarned /\ GatesCompareSameInputs

LEMMA ArmsAreTypes ==
  /\ Len(Arms) = 3 /\ \A i \in 1 .. 3 : Arms[i] \in Types
  /\ \A t \in Types : \E i \in 1 .. 3 : t = Arms[i]
  /\ \A i, j \in 1 .. 3 : Arms[i] = Arms[j] => i = j
<1>1. Len(Arms) = 3 /\ DOMAIN Arms = 1 .. 3  BY DEF Arms
<1>2. \A i, j \in 1 .. 3 : Arms[i] = Arms[j] => i = j  BY DEF Arms
<1> QED  BY <1>1, <1>2 DEF Types

\* The ways in which an invocation goes on.
LEMMA ToolSteps ==
  ASSUME NEW r \in ToolRecord, NEW step \in KVSteps
  PROVE  IsTool([r EXCEPT !.step = step], step, r.arm, r.attempt, r.documents, r.measured)
<1>1. [r EXCEPT !.step = step] \in ToolRecord  BY Zenon DEF ToolRecord
<1> QED  BY <1>1 DEF IsTool, ToolRecord

LEMMA ToolAttempts ==
  ASSUME NEW r \in ToolRecord, NEW step \in KVSteps, NEW attempt \in Nat
  PROVE  IsTool([r EXCEPT !.step = step, !.attempt = attempt], step, r.arm, attempt, r.documents, r.measured)
<1>1. [r EXCEPT !.step = step, !.attempt = attempt] \in ToolRecord  BY Zenon DEF ToolRecord
<1> QED  BY <1>1 DEF IsTool, ToolRecord

LEMMA ToolMeasures ==
  ASSUME NEW r \in ToolRecord, NEW step \in KVSteps, NEW measured \in Benchmarks \cup {NoFile}
  PROVE  IsTool([r EXCEPT !.step = step, !.measured = measured], step, r.arm, r.attempt, r.documents, measured)
<1>1. [r EXCEPT !.step = step, !.measured = measured] \in ToolRecord  BY Zenon DEF ToolRecord
<1> QED  BY <1>1 DEF IsTool, ToolRecord

LEMMA ToolRepeats ==
  ASSUME NEW r \in ToolRecord, NEW step \in KVSteps, NEW attempt \in Nat, NEW measured \in Benchmarks \cup {NoFile}
  PROVE  IsTool([r EXCEPT !.step = step, !.attempt = attempt, !.measured = measured], step, r.arm, attempt, r.documents, measured)
<1>1. [r EXCEPT !.step = step, !.attempt = attempt, !.measured = measured] \in ToolRecord  BY Zenon DEF ToolRecord
<1> QED  BY <1>1 DEF IsTool, ToolRecord

LEMMA ToolBegins ==
  ASSUME NEW r \in ToolRecord, NEW step \in KVSteps, NEW arm \in 0 .. 3
  PROVE  IsTool([r EXCEPT !.step = step, !.arm = arm], step, arm, r.attempt, r.documents, r.measured)
<1>1. [r EXCEPT !.step = step, !.arm = arm] \in ToolRecord  BY Zenon DEF ToolRecord
<1> QED  BY <1>1 DEF IsTool, ToolRecord

DocumentTables == [Types -> ResultDocuments \cup {NoFile}]

LEMMA ToolGathers ==
  ASSUME NEW r \in ToolRecord, NEW step \in KVSteps, NEW documents \in DocumentTables
  PROVE  IsTool([r EXCEPT !.step = step, !.documents = documents], step, r.arm, r.attempt, documents, r.measured)
<1>1. [r EXCEPT !.step = step, !.documents = documents] \in ToolRecord  BY Zenon DEF ToolRecord, DocumentTables
<1> QED  BY <1>1 DEF IsTool, ToolRecord, DocumentTables

LEMMA ToolAdvances ==
  ASSUME NEW r \in ToolRecord, NEW step \in KVSteps, NEW arm \in 0 .. 3, NEW documents \in DocumentTables
  PROVE  IsTool([r EXCEPT !.step = step, !.arm = arm, !.documents = documents], step, arm, r.attempt, documents, r.measured)
<1>1. [r EXCEPT !.step = step, !.arm = arm, !.documents = documents] \in ToolRecord  BY Zenon DEF ToolRecord, DocumentTables
<1> QED  BY <1>1 DEF IsTool, ToolRecord, DocumentTables

LEMMA ToolFields ==
  ASSUME tool \in ToolRecord
  PROVE  /\ tool.step \in KVSteps /\ tool.arm \in 0 .. 3 /\ tool.attempt \in Nat
         /\ tool.documents \in [Types -> ResultDocuments \cup {NoFile}] /\ tool.measured \in Benchmarks \cup {NoFile}
BY DEF ToolRecord

NoDocuments == [t \in Types |-> NoFile]

LEMMA NoToolTyped == IsTool(NoTool, "none", 0, 0, NoDocuments, NoFile)
<1>1. NoTool = [step |-> "none", arm |-> 0, attempt |-> 0, documents |-> NoDocuments, measured |-> NoFile]
  BY DEF NoTool, NoDocuments
<1>2. "none" \in KVSteps /\ NoDocuments \in [Types -> ResultDocuments \cup {NoFile}]  BY DEF KVSteps, NoDocuments
<1> QED  BY <1>1, <1>2 DEF IsTool, ToolRecord

\* A step that leaves the files as they are.
LEMMA FilesStay ==
  ASSUME KVInv, UNCHANGED << inputs, kvfiles, scored >>, calls' \in 0 .. MaxCalls, tool' \in ToolRecord,
         ToolOnItsWay', DocumentsOfTheseInputs'
  PROVE  KVInv'
<1>1. KVTyped'  BY DEF KVInv, KVTyped, kvfiles
<1>2. FilesOfTypes'  BY DEF KVInv, FilesOfTypes, kvfiles
<1>3. ResultIsEarned'  BY DEF KVInv, ResultIsEarned, kvfiles
<1>4. GatesCompareSameInputs'  BY DEF KVInv, GatesCompareSameInputs, kvfiles
<1> QED  BY <1>1, <1>2, <1>3, <1>4 DEF KVInv

LEMMA ToolRests ==
  ASSUME tool' = NoTool
  PROVE  tool' \in ToolRecord /\ ToolOnItsWay' /\ DocumentsOfTheseInputs'
<1>2. tool' \in ToolRecord /\ tool'.step = "none" /\ tool'.measured = NoFile
  BY NoToolTyped DEF IsTool
<1> QED  BY <1>2 DEF ToolOnItsWay, DocumentsOfTheseInputs, Measures

\* A step within an arm, to one in which nothing is measured yet.
LEMMA AttemptStarts ==
  ASSUME KVInv, tool.step \notin {"none", "summarize"}, UNCHANGED << inputs, stdout, result, summary, scored >>,
         NEW step \in {"precondition", "score"}, NEW attempt \in Nat \ {0},
         IsTool(tool', step, tool.arm, attempt, tool.documents, NoFile),
         result[Type] = NoFile, attempt = 1 => stdout[Type] = NoFile,
         attempt # 1 => stdout[Type] # NoFile /\ stdout[Type].rows = "noisy"
  PROVE  tool' \in ToolRecord /\ ToolOnItsWay' /\ DocumentsOfTheseInputs'
<1>1. step \in KVSteps  BY DEF KVSteps
<1>2. tool.arm \in 1 .. 3 /\ tool.documents \in [Types -> ResultDocuments \cup {NoFile}]
  BY ToolFields DEF KVInv, KVTyped, ToolOnItsWay
<1>3. /\ tool' \in ToolRecord /\ tool'.step = step /\ tool'.arm = tool.arm /\ tool'.attempt = attempt
      /\ tool'.documents = tool.documents /\ tool'.measured = NoFile
  BY DEF IsTool
<1>4. Type' = Type  BY <1>3 DEF Type
<1>5. ToolOnItsWay'  BY <1>2, <1>3, <1>4 DEF ToolOnItsWay, Measures
<1>6. DocumentsOfTheseInputs'  BY <1>3 DEF KVInv, DocumentsOfTheseInputs
<1> QED  BY <1>3, <1>5, <1>6

\* The document of an arm is there.
LEMMA ArmIsDone ==
  ASSUME KVInv, tool.step \notin {"none", "summarize"}, UNCHANGED inputs,
         NEW d \in ResultDocuments, d.inputs = inputs, tool' = Advanced(d)
  PROVE  tool' \in ToolRecord /\ ToolOnItsWay' /\ DocumentsOfTheseInputs'
<1>1. tool.arm \in 1 .. 3 /\ tool.documents \in [Types -> ResultDocuments \cup {NoFile}]
  BY ToolFields DEF KVInv, KVTyped, ToolOnItsWay
<1>2. Type \in Types /\ Type = Arms[tool.arm]  BY <1>1, ArmsAreTypes DEF Type
<1>3. PICK documents \in [Types -> ResultDocuments \cup {NoFile}] : documents = [tool.documents EXCEPT ![Type] = d]
  BY <1>1, <1>2
<1>10. documents \in DocumentTables  BY <1>3 DEF DocumentTables
<1>4. \A i \in 1 .. 3 : i <= tool.arm => documents[Arms[i]].inputs = inputs
  <2>1. \A i \in 1 .. 3 : i < tool.arm => tool.documents[Arms[i]].inputs = inputs
    BY DEF KVInv, DocumentsOfTheseInputs
  <2>2. \A i \in 1 .. 3 : i # tool.arm => Arms[i] # Type  BY <1>1, <1>2, ArmsAreTypes
  <2> QED  BY <1>1, <1>2, <1>3, <2>1, <2>2, ArmsAreTypes
<1>5. "look" \in KVSteps /\ "summarize" \in KVSteps  BY DEF KVSteps
<1>6. tool' = IF tool.arm = 3 THEN [NoTool EXCEPT !.step = "summarize", !.documents = documents]
              ELSE [NoTool EXCEPT !.step = "look", !.arm = tool.arm + 1, !.documents = documents]
  BY <1>3, ArmsAreTypes DEF Advanced
<1>7. NoTool \in ToolRecord  BY NoToolTyped DEF IsTool
<1>8. CASE tool.arm = 3
  <2>1. IsTool(tool', "summarize", NoTool.arm, NoTool.attempt, documents, NoTool.measured)
    <3>1. tool' = [NoTool EXCEPT !.step = "summarize", !.documents = documents]  BY <1>6, <1>8
    <3>2. IsTool([NoTool EXCEPT !.step = "summarize", !.documents = documents], "summarize", NoTool.arm,
                 NoTool.attempt, documents, NoTool.measured)
      BY <1>10, <1>5, <1>7, ToolGathers
    <3> QED  BY <3>1, <3>2
  <2>2. /\ tool' \in ToolRecord /\ tool'.step = "summarize" /\ tool'.measured = NoFile /\ tool'.documents = documents
    BY <2>1, NoToolTyped DEF IsTool
  <2>3. \A t \in Types : documents[t].inputs = inputs  BY <1>4, <1>8, ArmsAreTypes
  <2> QED  BY <2>2, <2>3 DEF ToolOnItsWay, DocumentsOfTheseInputs, Measures
<1>9. CASE tool.arm # 3
  <2>1. tool.arm + 1 \in 0 .. 3 /\ tool.arm + 1 \in 1 .. 3  BY <1>1, <1>9
  <2>2. IsTool(tool', "look", tool.arm + 1, NoTool.attempt, documents, NoTool.measured)
    <3>1. tool' = [NoTool EXCEPT !.step = "look", !.arm = tool.arm + 1, !.documents = documents]  BY <1>6, <1>9
    <3>2. IsTool([NoTool EXCEPT !.step = "look", !.arm = tool.arm + 1, !.documents = documents], "look",
                 tool.arm + 1, NoTool.attempt, documents, NoTool.measured)
      BY <1>10, <1>5, <1>7, <2>1, ToolAdvances
    <3> QED  BY <3>1, <3>2
  <2>3. /\ tool' \in ToolRecord /\ tool'.step = "look" /\ tool'.measured = NoFile /\ tool'.documents = documents
        /\ tool'.arm = tool.arm + 1
    BY <2>2, NoToolTyped DEF IsTool
  <2>4. ToolOnItsWay'  BY <2>1, <2>3 DEF ToolOnItsWay, Measures
  <2>5. \A i \in 1 .. 3 : i < tool.arm + 1 => documents[Arms[i]].inputs = inputs  BY <1>1, <1>4
  <2> QED  BY <2>3, <2>4, <2>5 DEF DocumentsOfTheseInputs
<1> QED  BY <1>8, <1>9

LEMMA TypeOfTool ==
  ASSUME KVInv, tool.step \notin {"none", "summarize"}
  PROVE  tool.arm \in 1 .. 3 /\ Type \in Types
BY ArmsAreTypes DEF KVInv, ToolOnItsWay, Type

LEMMA KVInits == KVInit => KVInv
<1> SUFFICES ASSUME KVInit PROVE KVInv  OBVIOUS
<1>2. tool \in ToolRecord /\ tool.step = "none" /\ tool.measured = NoFile
  BY NoToolTyped DEF KVInit, IsTool
<1>3. KVTyped  BY <1>2, KVAssumption DEF KVInit, KVTyped
<1>4. ToolOnItsWay /\ DocumentsOfTheseInputs  BY <1>2 DEF ToolOnItsWay, DocumentsOfTheseInputs, Measures
<1>5. FilesOfTypes /\ ResultIsEarned /\ GatesCompareSameInputs
  BY DEF KVInit, FilesOfTypes, ResultIsEarned, GatesCompareSameInputs
<1> QED  BY <1>3, <1>4, <1>5 DEF KVInv

\* A benchmark in one of its outputs.
LEMMA OutputsAreBenchmarks ==
  ASSUME inputs \in 1 .. MaxInputs, NEW samples \in {5, 12}, NEW left \in Outputs(samples)
  PROVE  left \in Benchmarks /\ left.samples = samples
BY DEF Outputs, Benchmarks

LEMMA KVStep == ASSUME KVInv, KVNext PROVE KVInv'
<1>0. /\ inputs \in 1 .. MaxInputs /\ calls \in 0 .. MaxCalls
      /\ stdout \in [Types -> Benchmarks \cup {NoFile}]
      /\ result \in [Types -> ResultDocuments \cup {NoFile}]
      /\ retries \in [Types -> Nat] /\ scored \in [Types -> Nat]
      /\ tool \in ToolRecord
  BY DEF KVInv, KVTyped
<1>01. /\ tool.step \in KVSteps /\ tool.arm \in 0 .. 3 /\ tool.attempt \in Nat
       /\ tool.documents \in [Types -> ResultDocuments \cup {NoFile}] /\ tool.measured \in Benchmarks \cup {NoFile}
  BY <1>0, ToolFields
<1>1. CASE Invoke
  <2>1. "look" \in KVSteps /\ 1 \in 0 .. 3 /\ NoTool \in ToolRecord  BY NoToolTyped DEF KVSteps, IsTool
  <2>2. IsTool(tool', "look", 1, NoTool.attempt, NoTool.documents, NoTool.measured)
    BY <1>1, <2>1, ToolBegins DEF Invoke
  <2>3. /\ tool' \in ToolRecord /\ tool'.step = "look" /\ tool'.arm = 1 /\ tool'.measured = NoFile
    BY <2>2, NoToolTyped DEF IsTool
  <2>4. ToolOnItsWay' /\ DocumentsOfTheseInputs'
    BY <2>3 DEF ToolOnItsWay, DocumentsOfTheseInputs, Measures
  <2>5. calls' \in 0 .. MaxCalls  BY <1>0, <1>1, KVAssumption DEF Invoke
  <2> QED  BY <1>1, <2>3, <2>4, <2>5, FilesStay DEF Invoke
<1>2. CASE TakeResult
  <2>1. Type \in Types  BY <1>2, TypeOfTool DEF TakeResult
  <2>2. CASE result[Type].inputs = inputs
    <3>1. result[Type] \in ResultDocuments  BY <1>0, <1>2, <2>1 DEF TakeResult
    <3>2. tool' \in ToolRecord /\ ToolOnItsWay' /\ DocumentsOfTheseInputs'
      BY <1>2, <2>2, <3>1, ArmIsDone DEF TakeResult
    <3> QED  BY <1>0, <1>2, <3>2, FilesStay DEF TakeResult
  <2>3. CASE result[Type].inputs # inputs
    BY <1>0, <1>2, <2>3, ToolRests, FilesStay DEF TakeResult, Abort
  <2> QED  BY <2>2, <2>3
<1>3. CASE FirstAttempt
  <2>1. IsTool(tool', "precondition", tool.arm, 1, tool.documents, tool.measured)
    <3>1. "precondition" \in KVSteps /\ 1 \in Nat  BY DEF KVSteps
    <3>2. tool' = [tool EXCEPT !.step = "precondition", !.attempt = 1]  BY <1>3 DEF FirstAttempt
    <3> QED  BY <1>0, <3>1, <3>2, ToolAttempts
  <2>2. tool.measured = NoFile  BY <1>3 DEF KVInv, ToolOnItsWay, FirstAttempt
  <2>3. tool' \in ToolRecord /\ ToolOnItsWay' /\ DocumentsOfTheseInputs'
    BY <1>3, <2>1, <2>2, AttemptStarts DEF FirstAttempt, kvfiles
  <2> QED  BY <1>0, <1>3, <2>3, FilesStay DEF FirstAttempt
<1>4. CASE ResumeArm
  <2>1. Type \in Types  BY <1>4, TypeOfTool DEF ResumeArm
  <2>2. CASE stdout[Type].rows = "noisy"
    <3>1. NextAttempt \in Nat \ {0} /\ NextAttempt # 1
      BY <1>0, <2>1 DEF NextAttempt, KVInv, FilesOfTypes
    <3>2. IsTool(tool', "precondition", tool.arm, NextAttempt, tool.documents, tool.measured)
      <4>1. "precondition" \in KVSteps  BY DEF KVSteps
      <4>2. tool' = [tool EXCEPT !.step = "precondition", !.attempt = NextAttempt]  BY <1>4, <2>2 DEF ResumeArm
      <4> QED  BY <1>0, <3>1, <4>1, <4>2, ToolAttempts
    <3>3. tool.measured = NoFile  BY <1>4 DEF KVInv, ToolOnItsWay, ResumeArm
    <3>4. tool' \in ToolRecord /\ ToolOnItsWay' /\ DocumentsOfTheseInputs'
      BY <1>4, <2>2, <3>1, <3>2, <3>3, AttemptStarts DEF ResumeArm, kvfiles
    <3> QED  BY <1>0, <1>4, <3>4, FilesStay DEF ResumeArm
  <2>3. CASE stdout[Type].rows # "noisy"
    BY <1>0, <1>4, <2>3, ToolRests, FilesStay DEF ResumeArm, Abort
  <2> QED  BY <2>2, <2>3
<1>5. CASE Precondition
  <2>1. tool.step = "precondition" /\ UNCHANGED << inputs, stdout, result, summary, calls, scored >>
    BY <1>5 DEF Precondition
  <2>2. Type \in Types  BY <2>1, TypeOfTool
  <2>3. tool' \in ToolRecord /\ ToolOnItsWay' /\ DocumentsOfTheseInputs'
    <3>1. CASE tool' = [tool EXCEPT !.step = "score"]
      <4>1. IsTool(tool', "score", tool.arm, tool.attempt, tool.documents, tool.measured)
        <5>1. "score" \in KVSteps  BY DEF KVSteps
        <5> QED  BY <1>0, <3>1, <5>1, ToolSteps
      <4>2. /\ tool.measured = NoFile /\ result[Type] = NoFile /\ tool.attempt # 0
            /\ tool.attempt = 1 => stdout[Type] = NoFile
            /\ tool.attempt # 1 => stdout[Type] # NoFile /\ stdout[Type].rows = "noisy"
        BY <2>1 DEF KVInv, ToolOnItsWay, Measures
      <4> QED  BY <1>01, <2>1, <4>1, <4>2, AttemptStarts
    <3>2. CASE Abort
      BY <3>2, ToolRests DEF Abort
    <3> QED  BY <1>5, <3>1, <3>2 DEF Precondition
  <2>4. retries' \in [Types -> Nat] /\ \A t \in Types : retries[t] # 1 => retries'[t] # 1
    BY <1>0, <1>01, <1>5, <2>2 DEF Precondition
  <2>5. KVTyped'  BY <1>0, <2>1, <2>3, <2>4 DEF KVTyped
  <2>6. FilesOfTypes'  BY <2>1, <2>4 DEF KVInv, FilesOfTypes
  <2>7. ResultIsEarned' /\ GatesCompareSameInputs'
    BY <2>1 DEF KVInv, ResultIsEarned, GatesCompareSameInputs
  <2> QED  BY <2>3, <2>5, <2>6, <2>7 DEF KVInv
<1>6. CASE Score
  <2>1. /\ tool.step = "score" /\ UNCHANGED << inputs, retries, result, summary, calls >>
        /\ scored' = [scored EXCEPT ![Type] = @ + 1]
    BY <1>6 DEF Score
  <2>2. Type \in Types /\ tool.arm \in 1 .. 3  BY <2>1, TypeOfTool
  <2>3. PICK left \in Outputs(Samples) :
          /\ stdout' = IF tool.attempt = 1 THEN [stdout EXCEPT ![Type] = left] ELSE stdout
          /\ tool' = [tool EXCEPT !.step = "read", !.measured = left]
    BY <1>6 DEF Score
  <2>4. Samples \in {5, 12}  BY DEF Samples
  <2>5. left \in Benchmarks /\ left.samples = Samples  BY <1>0, <2>3, <2>4, OutputsAreBenchmarks
  <2>6. /\ result[Type] = NoFile /\ tool.attempt # 0
        /\ tool.attempt = 1 => stdout[Type] = NoFile
        /\ tool.attempt # 1 => stdout[Type] # NoFile /\ stdout[Type].rows = "noisy"
    BY <2>1 DEF KVInv, ToolOnItsWay, Measures
  <2>7. "read" \in KVSteps  BY DEF KVSteps
  <2>8. IsTool(tool', "read", tool.arm, tool.attempt, tool.documents, left)
    BY <1>0, <2>3, <2>5, <2>7, ToolMeasures
  <2>9. /\ tool' \in ToolRecord /\ tool'.step = "read" /\ tool'.arm = tool.arm /\ tool'.attempt = tool.attempt
        /\ tool'.documents = tool.documents /\ tool'.measured = left
    BY <2>8 DEF IsTool
  <2>10. Type' = Type /\ Samples' = Samples  BY <2>9 DEF Type, Samples
  <2>11. /\ scored' \in [Types -> Nat] /\ stdout' \in [Types -> Benchmarks \cup {NoFile}]
         /\ \A t \in Types \ {Type} : scored'[t] = scored[t] /\ stdout'[t] = stdout[t]
         /\ scored'[Type] = scored[Type] + 1
         /\ stdout'[Type] = IF tool.attempt = 1 THEN left ELSE stdout[Type]
    BY <1>0, <2>1, <2>2, <2>3, <2>5
  <2>12. left # NoFile  BY <2>5, NoFileAssumption
  <2>13. KVTyped'  BY <1>0, <2>1, <2>9, <2>11 DEF KVTyped
  <2>14. tool.attempt = 1 => scored[Type] = 0  BY <2>2, <2>6 DEF KVInv, FilesOfTypes
  <2>15. ToolOnItsWay'
    BY <1>0, <2>1, <2>2, <2>5, <2>6, <2>9, <2>10, <2>11, <2>12, <2>14 DEF ToolOnItsWay, Measures
  <2>16. DocumentsOfTheseInputs'  BY <2>1, <2>9 DEF KVInv, DocumentsOfTheseInputs
  <2>17. FilesOfTypes'
    <3>1. tool.attempt = 1 => left.samples = 5  BY <2>5 DEF Samples
    <3> QED  BY <2>1, <2>6, <2>11, <2>12, <3>1 DEF KVInv, FilesOfTypes
  <2>18. ResultIsEarned'
    BY <2>1, <2>6, <2>11 DEF KVInv, ResultIsEarned
  <2>19. GatesCompareSameInputs'  BY <2>1 DEF KVInv, GatesCompareSameInputs
  <2> QED  BY <2>13, <2>15, <2>16, <2>17, <2>18, <2>19 DEF KVInv
<1>7. CASE Read
  <2>1. tool.step = "read" /\ UNCHANGED << inputs, kvfiles, calls, scored >>  BY <1>7 DEF Read
  <2>2. Type \in Types /\ tool.arm \in 1 .. 3  BY <2>1, TypeOfTool
  <2>3. /\ result[Type] = NoFile /\ tool.attempt # 0 /\ tool.measured # NoFile
        /\ tool.attempt # 1 => stdout[Type] # NoFile /\ stdout[Type].rows = "noisy"
        /\ tool.measured.samples = Samples
        /\ tool.attempt = 1 => stdout[Type] = tool.measured /\ scored[Type] = 1
    BY <2>1 DEF KVInv, ToolOnItsWay, Measures
  <2>4. tool' \in ToolRecord /\ ToolOnItsWay' /\ DocumentsOfTheseInputs'
    <3>1. CASE tool.measured.ok /\ tool.measured.rows = "stable"
      <4>1. IsTool(tool', "finish", tool.arm, tool.attempt, tool.documents, tool.measured)
        <5>1. "finish" \in KVSteps  BY DEF KVSteps
        <5>2. tool' = [tool EXCEPT !.step = "finish"]  BY <1>7, <3>1 DEF Read
        <5> QED  BY <1>0, <5>1, <5>2, ToolSteps
      <4>3. /\ tool' \in ToolRecord /\ tool'.step = "finish" /\ tool'.arm = tool.arm /\ tool'.attempt = tool.attempt
            /\ tool'.documents = tool.documents /\ tool'.measured = tool.measured
        BY <4>1 DEF IsTool
      <4>4. Type' = Type /\ Samples' = Samples  BY <4>3 DEF Type, Samples
      <4>5. ToolOnItsWay'  BY <2>1, <2>2, <2>3, <3>1, <4>3, <4>4 DEF ToolOnItsWay, Measures, kvfiles
      <4>6. DocumentsOfTheseInputs'  BY <2>1, <4>3 DEF KVInv, DocumentsOfTheseInputs
      <4> QED  BY <4>3, <4>5, <4>6
    <3>2. CASE tool.measured.ok /\ tool.measured.rows = "noisy" /\ tool.attempt = 1
      <4>1. IsTool(tool', "precondition", tool.arm, 2, tool.documents, NoFile)
        <5>1. tool' = [tool EXCEPT !.step = "precondition", !.attempt = 2, !.measured = NoFile]
          BY <1>7, <3>2 DEF Read
        <5>2. "precondition" \in KVSteps /\ 2 \in Nat  BY DEF KVSteps
        <5> QED  BY <1>0, <5>1, <5>2, ToolRepeats
      <4>2. 2 \in Nat \ {0} /\ 2 # 1  OBVIOUS
      <4> QED  BY <2>1, <2>3, <3>2, <4>1, <4>2, AttemptStarts DEF kvfiles
    <3>3. CASE tool' = NoTool  BY <3>3, ToolRests
    <3> QED  BY <1>7, <3>1, <3>2, <3>3 DEF Read
  <2> QED  BY <1>0, <2>1, <2>4, FilesStay
<1>8. CASE Finish
  <2> DEFINE said == [inputs |-> inputs, measured |-> tool.measured]
  <2>1. /\ tool.step = "finish" /\ UNCHANGED << inputs, stdout, retries, summary, calls, scored >>
        /\ result' = [result EXCEPT ![Type] = said] /\ tool' = Advanced(said)
    BY <1>8 DEF Finish
  <2>2. Type \in Types /\ tool.arm \in 1 .. 3  BY <2>1, TypeOfTool
  <2>3. /\ tool.attempt # 0 /\ tool.measured # NoFile
        /\ tool.attempt # 1 => stdout[Type] # NoFile /\ stdout[Type].rows = "noisy"
        /\ tool.measured.samples = Samples /\ tool.measured.rows = "stable" /\ tool.measured.ok
        /\ tool.attempt = 1 => stdout[Type] = tool.measured /\ scored[Type] = 1
    BY <2>1 DEF KVInv, ToolOnItsWay, Measures
  <2>4. tool.measured \in Benchmarks  BY <1>01, <2>3
  <2>5. said \in ResultDocuments /\ said.inputs = inputs /\ said.measured = tool.measured
    BY <1>0, <2>4 DEF ResultDocuments
  <2> HIDE DEF said
  <2>6. tool' \in ToolRecord /\ ToolOnItsWay' /\ DocumentsOfTheseInputs'
    BY <2>1, <2>5, ArmIsDone
  <2>7. /\ result' \in [Types -> ResultDocuments \cup {NoFile}]
        /\ \A t \in Types \ {Type} : result'[t] = result[t]
        /\ result'[Type] = said
    BY <1>0, <2>1, <2>2, <2>5
  <2>8. KVTyped'  BY <1>0, <2>1, <2>6, <2>7 DEF KVTyped
  <2>9. FilesOfTypes'  BY <2>1, <2>3, <2>5, <2>7 DEF KVInv, FilesOfTypes
  <2>10. ResultIsEarned'  BY <2>1, <2>3, <2>5, <2>7 DEF KVInv, ResultIsEarned, Samples
  <2>11. GatesCompareSameInputs'  BY <2>1 DEF KVInv, GatesCompareSameInputs
  <2> QED  BY <2>6, <2>8, <2>9, <2>10, <2>11 DEF KVInv
<1>9. CASE Summarize
  <2>1. /\ tool.step = "summarize" /\ UNCHANGED << inputs, stdout, retries, result, calls, scored >> /\ tool' = NoTool
    BY <1>9 DEF Summarize
  <2>2. summary'.documents = tool.documents  BY <1>9 DEF Summarize
  <2>3. tool' \in ToolRecord /\ ToolOnItsWay' /\ DocumentsOfTheseInputs'  BY <2>1, ToolRests
  <2>4. KVTyped'  BY <1>0, <2>1, <2>3 DEF KVTyped
  <2>5. FilesOfTypes' /\ ResultIsEarned'  BY <2>1 DEF KVInv, FilesOfTypes, ResultIsEarned
  <2>6. \A t \in Types : tool.documents[t].inputs = inputs  BY <2>1 DEF KVInv, DocumentsOfTheseInputs
  <2>7. GatesCompareSameInputs'  BY <2>2, <2>6 DEF GatesCompareSameInputs
  <2> QED  BY <2>3, <2>4, <2>5, <2>7 DEF KVInv
<1>10. CASE Killed
  <2>1. tool' = NoTool /\ UNCHANGED << inputs, retries, result, summary, calls, scored >>  BY <1>10 DEF Killed
  <2>2. tool' \in ToolRecord /\ ToolOnItsWay' /\ DocumentsOfTheseInputs'  BY <2>1, ToolRests
  <2>3. CASE UNCHANGED stdout
    BY <1>0, <2>1, <2>2, <2>3, FilesStay DEF kvfiles
  <2>4. CASE tool.step = "score" /\ tool.attempt = 1 /\ ~UNCHANGED stdout
    <3> DEFINE left == [rows |-> "garbled", speed |-> NoFile, samples |-> 5, ok |-> TRUE, inputs |-> inputs]
    <3>1. stdout' = [stdout EXCEPT ![Type] = left]  BY <1>10, <2>4 DEF Killed
    <3>2. Type \in Types  BY <2>4, TypeOfTool
    <3>3. left \in Benchmarks /\ left.samples = 5  BY <1>0 DEF Benchmarks
    <3> HIDE DEF left
    <3>4. left # NoFile  BY <3>3, NoFileAssumption
    <3>5. result[Type] = NoFile  BY <2>4 DEF KVInv, ToolOnItsWay, Measures
    <3>6. /\ stdout' \in [Types -> Benchmarks \cup {NoFile}] /\ stdout'[Type] = left
          /\ \A t \in Types \ {Type} : stdout'[t] = stdout[t]
      BY <1>0, <3>1, <3>2, <3>3
    <3>7. KVTyped'  BY <1>0, <2>1, <2>2, <3>6 DEF KVTyped
    <3>8. FilesOfTypes'  BY <2>1, <3>3, <3>4, <3>6 DEF KVInv, FilesOfTypes
    <3>9. ResultIsEarned'  BY <2>1, <3>5, <3>6 DEF KVInv, ResultIsEarned
    <3>10. GatesCompareSameInputs'  BY <2>1 DEF KVInv, GatesCompareSameInputs
    <3> QED  BY <2>2, <3>7, <3>8, <3>9, <3>10 DEF KVInv
  <2> QED  BY <1>10, <2>3, <2>4 DEF Killed
<1>11. CASE ExchangeInputs
  <2>1. tool.step = "none" /\ inputs' = inputs + 1 /\ inputs < MaxInputs /\ UNCHANGED << kvfiles, tool, calls, scored >>
    BY <1>11 DEF ExchangeInputs
  <2>2. inputs' \in 1 .. MaxInputs  BY <1>0, <2>1, KVAssumption
  <2>3. KVTyped'  BY <1>0, <2>1, <2>2 DEF KVTyped, kvfiles
  <2>4. ToolOnItsWay'  BY <2>1 DEF KVInv, ToolOnItsWay, Measures
  <2>5. DocumentsOfTheseInputs'  BY <2>1 DEF DocumentsOfTheseInputs
  <2>6. FilesOfTypes' /\ ResultIsEarned' /\ GatesCompareSameInputs'
    BY <2>1 DEF KVInv, FilesOfTypes, ResultIsEarned, GatesCompareSameInputs, kvfiles
  <2> QED  BY <2>3, <2>4, <2>5, <2>6 DEF KVInv
<1> QED
  BY <1>1, <1>2, <1>3, <1>4, <1>5, <1>6, <1>7, <1>8, <1>9, <1>10, <1>11 DEF KVNext

LEMMA KVStutters == ASSUME KVInv, UNCHANGED kvvars PROVE KVInv'
<1>1. UNCHANGED << inputs, kvfiles, calls, scored, tool >>  BY DEF kvvars
<1>2. calls' \in 0 .. MaxCalls /\ tool' \in ToolRecord  BY <1>1 DEF KVInv, KVTyped
<1>3. ToolOnItsWay' /\ DocumentsOfTheseInputs'
  BY <1>1 DEF KVInv, ToolOnItsWay, DocumentsOfTheseInputs, Measures, Samples, Type, kvfiles
<1> QED  BY <1>1, <1>2, <1>3, FilesStay

LEMMA KVInvIsEnough == KVInv => KVTypeOK /\ GatesCompareSameInputs /\ ResultIsEarned
<1> SUFFICES ASSUME KVInv PROVE KVTypeOK  BY DEF KVInv
<1>1. tool.step \in KVSteps  BY ToolFields DEF KVInv, KVTyped
<1> QED  BY <1>1 DEF KVInv, KVTyped, ToolOnItsWay, FilesOfTypes, KVTypeOK, KVSteps

\* A step scores a type only while no stable benchmark of it is on file.
LEMMA StableStays ==
  ASSUME KVInv, KVNext, NEW t \in Types, stdout[t] # NoFile, stdout[t].rows = "stable"
  PROVE  stdout'[t] = stdout[t] /\ scored'[t] = scored[t]
<1>1. stdout \in [Types -> Benchmarks \cup {NoFile}] /\ scored \in [Types -> Nat]  BY DEF KVInv, KVTyped
<1>2. CASE Score
  <2>1. /\ tool.attempt = 1 => stdout[Type] = NoFile
        /\ tool.attempt # 1 => stdout[Type].rows = "noisy"
    BY <1>2 DEF KVInv, ToolOnItsWay, Measures, Score
  <2>2. t # Type  BY <2>1
  <2> QED  BY <1>1, <1>2, <2>2 DEF Score
<1>3. CASE Killed
  <2>1. tool.step = "score" /\ tool.attempt = 1 => stdout[Type] = NoFile
    BY DEF KVInv, ToolOnItsWay
  <2> QED  BY <1>1, <1>3, <2>1 DEF Killed
<1>4. ~Score /\ ~Killed => UNCHANGED << stdout, scored >>
  BY DEF KVNext, Invoke, TakeResult, FirstAttempt, ResumeArm, Precondition, Read, Finish, Summarize, ExchangeInputs, kvfiles
<1> QED  BY <1>2, <1>3, <1>4

\* The results of a campaign are earned on the inputs that they name, and a stable
\* benchmark is never repeated, for every set of speeds and every number of calls.
THEOREM ResultsAreEarned == KVInit /\ [][KVNext]_kvvars => CampaignResultsAreEarned
<1>1. KVInv /\ [KVNext]_kvvars => KVInv'  BY KVStep, KVStutters
<1>2. KVInv /\ [KVNext]_kvvars =>
        [\A t \in Types : stdout[t] # NoFile /\ stdout[t].rows = "stable" =>
           stdout'[t] = stdout[t] /\ scored'[t] = scored[t]]_kvvars
  BY StableStays
<1> QED  BY KVInits, <1>1, <1>2, KVInvIsEnough, PTL DEF CampaignResultsAreEarned, StableBenchmarkStays

-----------------------------------------------------------------------------
(* The ports                                                               *)

Kinds == {"quality", "benchmark"}
CallSteps == {"command", "written", "check", "sampling", "finish"}
Sample == [exe : Versions, run : Nat, optional : BOOLEAN]

CallRecord ==
  [ step : CallSteps, kind : Kinds, label : Labels, before : Versions, generation : QualityOutputs \cup {Absent},
    samples : Seq(Sample), runs : Nat, failed : BOOLEAN ]

ProfileRecord == [step : {"answered"}, kind : {"profile"}, attempt : Serials]

PortsTyped ==
  /\ executable \in Versions /\ swaps \in Nat /\ serial \in 0 .. MaxCallsOfPorts
  /\ identity \in [Kinds -> Versions \cup {Absent}]
  /\ output \in QualityOutputs \cup {Absent}
  /\ port \in {NoCall} \cup CallRecord \cup ProfileRecord
  /\ approved \subseteq 1 .. serial
  /\ cases \subseteq Cases

\* Until it is exchanged a second time, the executable is never what it was before.
ExchangedOnce == swaps < 2 => executable = swaps + 1

\* The command that outlived its driver is one of those.
SurvivorIsOrphaned == survivor # 0 => survivor \in orphaned

Calls == port.step \in CallSteps

\* A call runs under the identity, and the executable was not put back since it began.
CallIsBound == Calls => identity[port.kind] = port.before /\ (swaps < 2 => port.before <= executable)

\* What stands at the output path was there before the call, or was written since by its
\* command or by a survivor, with an executable from between.
OutputIsOldOrOwn ==
  Calls /\ port.kind = "quality" =>
    /\ port.step \in {"command", "written", "check"}
    /\ \/ output = port.generation
       \/ /\ output # Absent /\ output.serial \in {serial} \cup orphaned
          /\ swaps < 2 => port.before <= output.exe /\ output.exe <= executable

\* The samples are those of the runs after the warmups, and ran on what the identity
\* says, as far as that was looked at.
SamplesSoFar ==
  Calls /\ port.kind = "benchmark" =>
    /\ port.step \in {"command", "sampling", "finish"}
    /\ port.step = "finish" => port.failed
    /\ Len(port.samples) = IF port.runs < WarmupRuns THEN 0 ELSE port.runs - WarmupRuns
    /\ \A i \in 1 .. Len(port.samples) : port.samples[i].run = WarmupRuns + i
    /\ swaps < 2 => \A i \in 1 .. Len(port.samples) :
                       /\ port.before <= port.samples[i].exe /\ port.samples[i].exe <= executable
                       /\ port.step = "command" => port.samples[i].exe = port.before

\* A command is approved before it runs, and runs once.
CasesAreOfApproved ==
  /\ \A c \in cases : c.attempt \notin approved /\ c.attempt <= serial
  /\ \A c, d \in cases : c.attempt = d.attempt => c = d

ResultsAreTyped ==
  \A r \in results : /\ r.kind \in Kinds \cup {"profile"}
                     /\ r.kind \in Kinds => r.exe \in Versions
                     /\ r.kind = "profile" => r = [kind |-> "profile", label |-> "baseline", serial |-> r.from.attempt,
                                                   exe |-> Pinned, from |-> r.from]

PortsInv ==
  /\ PortsTyped /\ ExchangedOnce /\ SurvivorIsOrphaned /\ CallIsBound /\ OutputIsOldOrOwn /\ SamplesSoFar
  /\ CasesAreOfApproved /\ ResultsAreTyped /\ PortsMeasureHonestly

Others == << executable, swaps, identity, output, serial, survivor, orphaned, approved, cases >>

LEMMA PortsInits == PortsInit => PortsInv
<1> SUFFICES ASSUME PortsInit PROVE PortsInv  OBVIOUS
<1>1. port = NoCall /\ port.step = "none"  BY DEF PortsInit, NoCall
<1>2. ~Calls  BY <1>1 DEF Calls, CallSteps
<1>3. PortsTyped  BY <1>1, PortsAssumption DEF PortsInit, PortsTyped, Versions, Kinds
<1>4. ExchangedOnce /\ SurvivorIsOrphaned  BY DEF PortsInit, ExchangedOnce, SurvivorIsOrphaned
<1>5. CallIsBound /\ OutputIsOldOrOwn /\ SamplesSoFar  BY <1>2 DEF CallIsBound, OutputIsOldOrOwn, SamplesSoFar
<1>6. CasesAreOfApproved /\ ResultsAreTyped  BY DEF PortsInit, CasesAreOfApproved, ResultsAreTyped
<1>7. PortsMeasureHonestly
  BY DEF PortsInit, PortsMeasureHonestly, MeasuredAlike, OutputIsOwn, SamplesAreWhole, ProfileIsOwn, ResultsOf
<1> QED  BY <1>3, <1>4, <1>5, <1>6, <1>7 DEF PortsInv

\* What the invariant says of the results stays true of them.
LEMMA ResultsStayHonest ==
  ASSUME PortsInv, UNCHANGED results, swaps' \in Nat, swaps <= swaps', orphaned \subseteq orphaned',
         \A kind \in Kinds : identity[kind] # Absent => identity'[kind] = identity[kind]
  PROVE  ResultsAreTyped' /\ PortsMeasureHonestly'
<1>1. ResultsAreTyped'  BY DEF PortsInv, ResultsAreTyped
<1>2. OutputIsOwn' /\ SamplesAreWhole' /\ ProfileIsOwn'
  BY DEF PortsInv, PortsMeasureHonestly, OutputIsOwn, SamplesAreWhole, ProfileIsOwn, ResultsOf
<1>3. MeasuredAlike'
  <2> SUFFICES ASSUME swaps' < 2, NEW r \in ResultsOf("quality") \cup ResultsOf("benchmark")
               PROVE  /\ r.exe = identity'[r.kind]
                      /\ r.kind = "benchmark" => \A i \in DOMAIN r.from : r.from[i].exe = r.exe
                      /\ r.kind = "quality" => r.from.exe = r.exe
    BY DEF MeasuredAlike, ResultsOf
  <2>1. swaps < 2  BY DEF PortsInv, PortsTyped
  <2>2. /\ r.exe = identity[r.kind]
        /\ r.kind = "benchmark" => \A i \in DOMAIN r.from : r.from[i].exe = r.exe
        /\ r.kind = "quality" => r.from.exe = r.exe
    BY <2>1 DEF PortsInv, PortsMeasureHonestly, MeasuredAlike
  <2>3. r.kind \in Kinds /\ r.exe \in Versions  BY DEF PortsInv, ResultsAreTyped, ResultsOf, Kinds
  <2>4. identity'[r.kind] = identity[r.kind]  BY <2>2, <2>3, AbsentAssumption
  <2> QED  BY <2>2, <2>4
<1> QED  BY <1>1, <1>2, <1>3 DEF PortsMeasureHonestly

\* While no call of the quality command or of the benchmark runs.
LEMMA NothingCalled ==
  ASSUME ~Calls' PROVE CallIsBound' /\ OutputIsOldOrOwn' /\ SamplesSoFar'
BY DEF CallIsBound, OutputIsOldOrOwn, SamplesSoFar

LEMMA NoCallIsNone == NoCall.step = "none" /\ "none" \notin CallSteps /\ "answered" \notin CallSteps
BY DEF NoCall, CallSteps

\* A call that ends without a result.
LEMMA CallEnds ==
  ASSUME PortsInv, RaiseError, UNCHANGED Others PROVE PortsInv'
<1>1. port' = NoCall /\ UNCHANGED results  BY DEF RaiseError
<1>2. ~Calls'  BY <1>1, NoCallIsNone DEF Calls
<1>3. PortsTyped'  BY <1>1 DEF PortsInv, PortsTyped, Others
<1>4. ExchangedOnce' /\ SurvivorIsOrphaned' /\ CasesAreOfApproved'
  BY DEF PortsInv, ExchangedOnce, SurvivorIsOrphaned, CasesAreOfApproved, Others
<1>5. ResultsAreTyped' /\ PortsMeasureHonestly'
  BY <1>1, ResultsStayHonest DEF PortsInv, PortsTyped, Others
<1> QED  BY <1>2, <1>3, <1>4, <1>5, NothingCalled DEF PortsInv

\* A call that returns a result of which the properties hold.
LEMMA CallReturns ==
  ASSUME PortsInv, NEW r, Return(r), UNCHANGED Others,
         r.kind \in Kinds \cup {"profile"},
         r.kind \in Kinds => r.exe \in Versions,
         r.kind = "profile" => r = [kind |-> "profile", label |-> "baseline", serial |-> r.from.attempt,
                                    exe |-> Pinned, from |-> r.from],
         r.kind = "profile" => r.from.exe = Pinned /\ r.from.completed /\ r.from.sidecar /\ r.from.prompts,
         r.kind = "quality" => r.from.serial \in {r.serial} \cup orphaned,
         r.kind = "benchmark" =>
           /\ [i \in DOMAIN r.from |-> r.from[i].run] = [i \in 1 .. SampleCount |-> WarmupRuns + i]
           /\ \A i \in 2 .. SampleCount : r.from[i].optional = r.from[1].optional,
         swaps < 2 /\ r.kind \in Kinds =>
           /\ r.exe = identity[r.kind]
           /\ r.kind = "benchmark" => \A i \in DOMAIN r.from : r.from[i].exe = r.exe
           /\ r.kind = "quality" => r.from.exe = r.exe
  PROVE  PortsInv'
<1>1. port' = NoCall /\ results' = results \cup {r}  BY DEF Return
<1>2. ~Calls'  BY <1>1, NoCallIsNone DEF Calls
<1>3. PortsTyped'  BY <1>1 DEF PortsInv, PortsTyped, Others
<1>4. ExchangedOnce' /\ SurvivorIsOrphaned' /\ CasesAreOfApproved'
  BY DEF PortsInv, ExchangedOnce, SurvivorIsOrphaned, CasesAreOfApproved, Others
<1>5. ResultsAreTyped'  BY <1>1, Zenon DEF PortsInv, ResultsAreTyped
<1>6. \A kind : ResultsOf(kind)' = ResultsOf(kind) \cup { s \in {r} : s.kind = kind }  BY <1>1 DEF ResultsOf
<1>7. MeasuredAlike'
  <2> SUFFICES ASSUME swaps < 2, NEW s \in ResultsOf("quality")' \cup ResultsOf("benchmark")'
               PROVE  /\ s.exe = identity[s.kind]
                      /\ s.kind = "benchmark" => \A i \in DOMAIN s.from : s.from[i].exe = s.exe
                      /\ s.kind = "quality" => s.from.exe = s.exe
    BY DEF MeasuredAlike, Others
  <2>1. CASE s \in ResultsOf("quality") \cup ResultsOf("benchmark")
    BY <2>1 DEF PortsInv, PortsMeasureHonestly, MeasuredAlike
  <2>2. CASE s = r /\ r.kind \in Kinds
    BY <2>2
  <2> QED  BY <1>6, <2>1, <2>2 DEF Kinds
<1>8. OutputIsOwn'
  <2> SUFFICES ASSUME NEW s \in ResultsOf("quality")'  PROVE s.from.serial \in {s.serial} \cup orphaned
    BY DEF OutputIsOwn, Others
  <2>1. CASE s \in ResultsOf("quality")  BY <2>1 DEF PortsInv, PortsMeasureHonestly, OutputIsOwn
  <2>2. CASE s = r /\ r.kind = "quality"  BY <2>2
  <2> QED  BY <1>6, <2>1, <2>2
<1>9. SamplesAreWhole'
  <2> SUFFICES ASSUME NEW s \in ResultsOf("benchmark")'
               PROVE  /\ [i \in DOMAIN s.from |-> s.from[i].run] = [i \in 1 .. SampleCount |-> WarmupRuns + i]
                      /\ \A i \in 2 .. SampleCount : s.from[i].optional = s.from[1].optional
    BY DEF SamplesAreWhole
  <2>1. CASE s \in ResultsOf("benchmark")  BY <2>1 DEF PortsInv, PortsMeasureHonestly, SamplesAreWhole
  <2>2. CASE s = r /\ r.kind = "benchmark"  BY <2>2
  <2> QED  BY <1>6, <2>1, <2>2
<1>10. ProfileIsOwn'
  <2>1. ASSUME NEW s \in ResultsOf("profile")'
        PROVE  /\ s = [kind |-> "profile", label |-> "baseline", serial |-> s.from.attempt, exe |-> Pinned,
                       from |-> s.from]
               /\ s.from.exe = Pinned /\ s.from.completed /\ s.from.sidecar /\ s.from.prompts
    <3>1. CASE s \in ResultsOf("profile")
      BY <3>1 DEF PortsInv, PortsMeasureHonestly, ProfileIsOwn, ResultsAreTyped, ResultsOf
    <3>2. CASE s = r /\ r.kind = "profile"  BY <3>2
    <3> QED  BY <1>6, <3>1, <3>2
  <2>2. ASSUME NEW s \in ResultsOf("profile")'  PROVE s.from.attempt = s.serial  BY <2>1
  <2>3. ASSUME NEW s \in ResultsOf("profile")', NEW t \in ResultsOf("profile")', t.from = s.from  PROVE t = s
    BY <2>1, <2>3
  <2> QED  BY <2>1, <2>2, <2>3 DEF ProfileIsOwn
<1> QED  BY <1>2, <1>3, <1>4, <1>5, <1>7, <1>8, <1>9, <1>10, NothingCalled DEF PortsInv, PortsMeasureHonestly

\* A call begins under an identity that stays.
LEMMA CallBegins ==
  ASSUME PortsInv, NEW kind \in Kinds, NEW label \in Labels, BeginCall(kind, label),
         identity[kind] \in {Absent, executable}
  PROVE  PortsInv'
<1>1. /\ port = NoCall /\ serial < MaxCallsOfPorts /\ serial' = serial + 1
      /\ identity' = [identity EXCEPT ![kind] = executable]
      /\ UNCHANGED << executable, swaps, output, survivor, orphaned, approved, cases, results >>
  BY DEF BeginCall
<1>2. /\ executable \in Versions /\ swaps \in Nat /\ serial \in 0 .. MaxCallsOfPorts
      /\ identity \in [Kinds -> Versions \cup {Absent}] /\ output \in QualityOutputs \cup {Absent}
      /\ approved \subseteq 1 .. serial /\ cases \subseteq Cases
  BY DEF PortsInv, PortsTyped
<1>3. << >> \in Seq(Sample) /\ Len(<< >>) = 0  OBVIOUS
<1>4. port' = [ step |-> "command", kind |-> kind, label |-> label, before |-> executable,
                generation |-> output, samples |-> << >>, runs |-> 0, failed |-> FALSE ]
  BY DEF BeginCall
<1>5. "command" \in CallSteps  BY DEF CallSteps
<1>6. port' \in CallRecord  BY <1>2, <1>3, <1>4, <1>5 DEF CallRecord
<1>7. /\ port'.step = "command" /\ port'.kind = kind /\ port'.before = executable /\ port'.generation = output
      /\ port'.samples = << >> /\ port'.runs = 0
  BY <1>4
<1>8. serial' \in 0 .. MaxCallsOfPorts /\ approved' \subseteq 1 .. serial'
  BY <1>1, <1>2, PortsAssumption
<1>9. PortsTyped'  BY <1>1, <1>2, <1>6, <1>8 DEF PortsTyped
<1>10. ExchangedOnce' /\ SurvivorIsOrphaned'  BY <1>1 DEF PortsInv, ExchangedOnce, SurvivorIsOrphaned
<1>11. CallIsBound'  BY <1>1, <1>2, <1>7 DEF CallIsBound, Versions
<1>12. OutputIsOldOrOwn'  BY <1>1, <1>7 DEF OutputIsOldOrOwn
<1>13. SamplesSoFar'
  BY <1>3, <1>7, PortsAssumption DEF SamplesSoFar
<1>14. CasesAreOfApproved'
  <2>1. \A c \in cases : c.attempt \in Nat  BY <1>2, PortsAssumption DEF Cases, Serials
  <2> QED  BY <1>1, <1>2, <2>1 DEF PortsInv, CasesAreOfApproved
<1>15. ResultsAreTyped' /\ PortsMeasureHonestly'
  BY <1>1, <1>2, ResultsStayHonest
<1> QED  BY <1>9, <1>10, <1>11, <1>12, <1>13, <1>14, <1>15 DEF PortsInv

\* A call that goes on: the rest of the state is as it was.
LEMMA CallGoesOn ==
  ASSUME PortsInv, UNCHANGED << executable, swaps, identity, serial, survivor, orphaned, approved, cases, results >>,
         output' \in QualityOutputs \cup {Absent}, port \in CallRecord, port' \in CallRecord,
         port'.kind = port.kind, port'.before = port.before,
         OutputIsOldOrOwn', SamplesSoFar'
  PROVE  PortsInv'
<1>1. PortsTyped'  BY DEF PortsInv, PortsTyped
<1>2. ExchangedOnce' /\ SurvivorIsOrphaned' /\ CasesAreOfApproved'
  BY DEF PortsInv, ExchangedOnce, SurvivorIsOrphaned, CasesAreOfApproved
<1>3. Calls  BY DEF CallRecord, Calls
<1>4. CallIsBound'  BY <1>3 DEF PortsInv, CallIsBound
<1>5. ResultsAreTyped' /\ PortsMeasureHonestly'  BY ResultsStayHonest DEF PortsInv, PortsTyped
<1> QED  BY <1>1, <1>2, <1>4, <1>5 DEF PortsInv

LEMMA CallsAreRecords ==
  ASSUME PortsInv, port.step \in CallSteps PROVE port \in CallRecord
BY NoCallIsNone DEF PortsInv, PortsTyped, ProfileRecord

\* The quality command writes, ends, and is looked at.
LEMMA QualityStep ==
  ASSUME PortsInv, QualityWrites \/ QualityExits \/ CheckQuality PROVE PortsInv'
<1>1. CASE QualityWrites
  <2>1. port.step = "command" /\ port.kind = "quality"  BY <1>1 DEF QualityWrites
  <2>2. port \in CallRecord  BY <2>1, CallsAreRecords DEF CallSteps
  <2>3. port' = [port EXCEPT !.step = "written"]  BY <1>1 DEF QualityWrites, PortGoto
  <2>4. port' \in CallRecord  BY <2>2, <2>3 DEF CallRecord, CallSteps
  <2>5. /\ port'.step = "written" /\ port'.kind = "quality" /\ port'.before = port.before
        /\ port'.generation = port.generation
    BY <2>1, <2>2, <2>3 DEF CallRecord
  <2>6. output' \in QualityOutputs /\ output'.serial = serial /\ output'.exe = executable
    BY <1>1 DEF QualityWrites
  <2>7. executable \in Nat  BY DEF PortsInv, PortsTyped, Versions
  <2>8. UNCHANGED << executable, swaps, identity, serial, survivor, orphaned, approved, cases, results >>
    BY <1>1 DEF QualityWrites
  <2>9. swaps < 2 => port.before <= executable  BY <2>1 DEF PortsInv, CallIsBound, Calls, CallSteps
  <2>10. OutputIsOldOrOwn'  BY <2>5, <2>6, <2>7, <2>8, <2>9, AbsentAssumption DEF OutputIsOldOrOwn
  <2>11. SamplesSoFar'  BY <2>5 DEF SamplesSoFar
  <2> QED  BY <2>1, <2>2, <2>4, <2>5, <2>6, <2>8, <2>10, <2>11, CallGoesOn
<1>2. CASE QualityExits
  <2>1. port.step \in {"command", "written"} /\ port.kind = "quality" /\ UNCHANGED Others
    BY <1>2 DEF QualityExits, Others
  <2>2. CASE RaiseError  BY <2>1, <2>2, CallEnds
  <2>3. CASE PortGoto("check") /\ UNCHANGED results
    <3>1. port \in CallRecord  BY <2>1, CallsAreRecords DEF CallSteps
    <3>2. port' = [port EXCEPT !.step = "check"]  BY <2>3 DEF PortGoto
    <3>3. port' \in CallRecord  BY <3>1, <3>2 DEF CallRecord, CallSteps
    <3>4. /\ port'.step = "check" /\ port'.kind = "quality" /\ port'.before = port.before
          /\ port'.generation = port.generation
      BY <2>1, <3>1, <3>2 DEF CallRecord
    <3>5. OutputIsOldOrOwn'
      BY <2>1, <3>4 DEF PortsInv, OutputIsOldOrOwn, Calls, CallSteps, Others
    <3>6. SamplesSoFar'  BY <3>4 DEF SamplesSoFar
    <3>7. output' \in QualityOutputs \cup {Absent}  BY <2>1 DEF PortsInv, PortsTyped, Others
    <3> QED  BY <2>1, <2>3, <3>1, <3>3, <3>4, <3>5, <3>6, <3>7, CallGoesOn DEF Others
  <2> QED  BY <1>2, <2>2, <2>3 DEF QualityExits
<1>3. CASE CheckQuality
  <2> DEFINE r == [kind |-> "quality", label |-> port.label, serial |-> serial, exe |-> port.before, from |-> output]
  <2>1. port.step = "check" /\ UNCHANGED Others  BY <1>3 DEF CheckQuality, Others
  <2>2. CASE RaiseError  BY <2>1, <2>2, CallEnds
  <2>3. CASE executable = port.before /\ FreshlyReplaced(port.generation, output) /\ Return(r)
    <3>1. port \in CallRecord /\ Calls  BY <2>1, CallsAreRecords DEF CallSteps, Calls
    <3>2. port.kind = "quality"  BY <2>1, <3>1 DEF PortsInv, SamplesSoFar, CallRecord, Kinds
    <3>3. output # Absent /\ output # port.generation  BY <2>3 DEF FreshlyReplaced
    <3>4. /\ output.serial \in {serial} \cup orphaned
          /\ swaps < 2 => port.before <= output.exe /\ output.exe <= executable
      BY <3>1, <3>2, <3>3 DEF PortsInv, OutputIsOldOrOwn
    <3>5. output.exe \in Nat /\ executable \in Nat
      BY <3>3 DEF PortsInv, PortsTyped, QualityOutputs, Versions
    <3>6. swaps < 2 => output.exe = executable  BY <2>3, <3>4, <3>5
    <3>7. swaps < 2 => identity["quality"] = port.before  BY <3>1, <3>2 DEF PortsInv, CallIsBound
    <3>8. port.before \in Versions  BY <3>1 DEF CallRecord
    <3>9. r.kind = "quality" /\ r.exe = port.before /\ r.from = output /\ r.serial = serial  OBVIOUS
    <3> HIDE DEF r
    <3> QED  BY <2>1, <2>3, <3>4, <3>6, <3>7, <3>8, <3>9, CallReturns DEF Kinds
  <2> QED  BY <1>3, <2>2, <2>3 DEF CheckQuality
<1> QED  BY <1>1, <1>2, <1>3

\* The metric of one sample is missing: the rest of the samples is as it was.
LEMMA SampleWithout ==
  ASSUME NEW s \in Seq(Sample), NEW n \in 1 .. Len(s)
  PROVE  LET t == [s EXCEPT ![n].optional = FALSE]
         IN  /\ t \in Seq(Sample) /\ Len(t) = Len(s)
             /\ \A i \in 1 .. Len(s) : t[i].exe = s[i].exe /\ t[i].run = s[i].run
<1> DEFINE e == [s[n] EXCEPT !.optional = FALSE]
           t == [s EXCEPT ![n] = e]
<1>1. s[n] \in Sample  BY ElementOfSeq
<1>2. e \in Sample /\ e.exe = s[n].exe /\ e.run = s[n].run  BY <1>1 DEF Sample
<1> HIDE DEF e
<1>3. t \in Seq(Sample) /\ Len(t) = Len(s) /\ \A i \in 1 .. Len(s) : t[i] = IF i = n THEN e ELSE s[i]
  BY <1>2, ExceptSeq
<1>4. \A i \in 1 .. Len(s) : t[i].exe = s[i].exe /\ t[i].run = s[i].run  BY <1>2, <1>3
<1> QED  BY <1>3, <1>4 DEF e

LEMMA BenchmarkStarts == ASSUME PortsInv, SampleStarts PROVE PortsInv'
<1> DEFINE new == [exe |-> executable, run |-> port.runs + 1, optional |-> TRUE]
           samples == IF port.runs < WarmupRuns THEN port.samples ELSE Append(port.samples, new)
<1>1. port.step = "command" /\ port.kind = "benchmark" /\ UNCHANGED << Others, results >>
  BY DEF SampleStarts, Others
<1>2. port \in CallRecord /\ Calls  BY <1>1, CallsAreRecords DEF CallSteps, Calls
<1>3. /\ port.runs \in Nat /\ port.samples \in Seq(Sample) /\ port.before \in Versions
  BY <1>2 DEF CallRecord
<1>4. executable \in Versions /\ (swaps < 2 => port.before <= executable)
  BY <1>2 DEF PortsInv, PortsTyped, CallIsBound
<1>5. /\ Len(port.samples) = IF port.runs < WarmupRuns THEN 0 ELSE port.runs - WarmupRuns
      /\ \A i \in 1 .. Len(port.samples) : port.samples[i].run = WarmupRuns + i
      /\ swaps < 2 => \A i \in 1 .. Len(port.samples) : port.samples[i].exe = port.before
  BY <1>1, <1>2 DEF PortsInv, SamplesSoFar
<1>6. port' = [port EXCEPT !.step = "sampling", !.runs = @ + 1, !.samples = samples]  BY DEF SampleStarts
<1>7. new \in Sample /\ new.run = port.runs + 1 /\ new.exe = executable  BY <1>3, <1>4 DEF Sample
<1> HIDE DEF new
<1>8. /\ samples \in Seq(Sample)
      /\ Len(samples) = IF port.runs < WarmupRuns THEN 0 ELSE port.runs + 1 - WarmupRuns
      /\ \A i \in 1 .. Len(samples) :
           /\ samples[i].run = WarmupRuns + i
           /\ swaps < 2 => port.before <= samples[i].exe /\ samples[i].exe <= executable
  <2>1. CASE port.runs < WarmupRuns
    BY <1>3, <1>4, <1>5, <2>1 DEF Versions
  <2>2. CASE ~(port.runs < WarmupRuns)
    <3>1. samples = Append(port.samples, new)  BY <2>2
    <3>2. /\ samples \in Seq(Sample) /\ Len(samples) = Len(port.samples) + 1
          /\ \A i \in 1 .. Len(port.samples) : samples[i] = port.samples[i]
          /\ samples[Len(port.samples) + 1] = new
      BY <1>3, <1>7, <3>1, AppendProperties
    <3> HIDE DEF samples
    <3>3. Len(port.samples) = port.runs - WarmupRuns /\ Len(port.samples) \in Nat
      BY <1>3, <1>5, <2>2, LenProperties
    <3>4. ASSUME NEW i \in 1 .. Len(samples)
          PROVE  /\ samples[i].run = WarmupRuns + i
                 /\ swaps < 2 => port.before <= samples[i].exe /\ samples[i].exe <= executable
      <4>1. CASE i \in 1 .. Len(port.samples)
        <5>1. samples[i].run = WarmupRuns + i  BY <1>5, <3>2, <4>1
        <5>2. swaps < 2 => samples[i].exe = port.before
          <6>1. samples[i] = port.samples[i]  BY <3>2, <4>1
          <6>2. swaps < 2 => port.samples[i].exe = port.before  BY <1>5, <4>1
          <6> QED  BY <6>1, <6>2
        <5>3. port.before <= port.before  BY <1>3 DEF Versions
        <5> QED  BY <1>4, <5>1, <5>2, <5>3
      <4>2. CASE i = Len(port.samples) + 1
        <5>1. samples[i] = new  BY <3>2, <4>2
        <5>2. port.runs + 1 = WarmupRuns + i  BY <1>3, <3>3, <4>2, PortsAssumption
        <5>3. executable <= executable  BY <1>4 DEF Versions
        <5> QED  BY <1>4, <1>7, <5>1, <5>2, <5>3
      <4> QED  BY <3>2, <3>3, <4>1, <4>2
    <3> QED  BY <1>3, <2>2, <3>2, <3>3, <3>4, PortsAssumption
  <2> QED  BY <2>1, <2>2
<1> HIDE DEF samples
<1>9. port.runs + 1 \in Nat /\ "sampling" \in CallSteps  BY <1>3 DEF CallSteps
<1>10. port' \in CallRecord  BY <1>2, <1>6, <1>8, <1>9, Zenon DEF CallRecord
<1>11. /\ port'.step = "sampling" /\ port'.kind = "benchmark" /\ port'.before = port.before
       /\ port'.runs = port.runs + 1 /\ port'.samples = samples
  BY <1>1, <1>2, <1>6 DEF CallRecord
<1>12. OutputIsOldOrOwn'  BY <1>11 DEF OutputIsOldOrOwn
<1>13. SamplesSoFar'
  BY <1>1, <1>3, <1>8, <1>11, PortsAssumption DEF SamplesSoFar, Others
<1>14. output' \in QualityOutputs \cup {Absent}  BY <1>1 DEF PortsInv, PortsTyped, Others
<1> QED  BY <1>1, <1>2, <1>10, <1>11, <1>12, <1>13, <1>14, CallGoesOn DEF Others

LEMMA BenchmarkGoesOn == ASSUME PortsInv, SampleEnds PROVE PortsInv'
<1>1. port.step = "sampling" /\ UNCHANGED << Others, results >>  BY DEF SampleEnds, Others
<1>2. port \in CallRecord /\ Calls  BY <1>1, CallsAreRecords DEF CallSteps, Calls
<1>3. port.kind = "benchmark"  BY <1>1, <1>2 DEF PortsInv, OutputIsOldOrOwn, CallRecord, Kinds
<1>4. port.samples \in Seq(Sample) /\ port.before \in Versions /\ executable \in Versions
  BY <1>2 DEF CallRecord, PortsInv, PortsTyped
<1>5. PICK succeeded \in BOOLEAN, optional \in BOOLEAN :
        LET ok == succeeded /\ executable = port.before
            n == Len(port.samples)
        IN  port' = [port EXCEPT !.step = IF ok THEN "command" ELSE "finish", !.failed = ~ok,
                       !.samples = IF n = 0 \/ optional THEN @ ELSE [@ EXCEPT ![n].optional = FALSE]]
  BY DEF SampleEnds
<1> DEFINE ok == succeeded /\ executable = port.before
           n == Len(port.samples)
           samples == IF n = 0 \/ optional THEN port.samples ELSE [port.samples EXCEPT ![n].optional = FALSE]
           step == IF ok THEN "command" ELSE "finish"
<1>6. port' = [port EXCEPT !.step = step, !.failed = ~ok, !.samples = samples]  BY <1>5
<1>7. /\ samples \in Seq(Sample) /\ Len(samples) = Len(port.samples)
      /\ \A i \in 1 .. Len(port.samples) :
           samples[i].exe = port.samples[i].exe /\ samples[i].run = port.samples[i].run
  <2>1. CASE n = 0 \/ optional
    BY <1>4, <2>1
  <2>2. CASE ~(n = 0 \/ optional)
    <3>1. n \in 1 .. Len(port.samples)  BY <1>4, <2>2, LenProperties
    <3>2. samples = [port.samples EXCEPT ![n].optional = FALSE]  BY <2>2
    <3> HIDE DEF n, samples
    <3> QED  BY <1>4, <3>1, <3>2, SampleWithout
  <2> QED  BY <2>1, <2>2
<1>8. step \in CallSteps  BY DEF CallSteps
<1>9. step \in {"command", "finish"} /\ (step = "finish" => ~ok) /\ (step = "command" => executable = port.before)
  OBVIOUS
<1> DEFINE failed == ~ok
<1>10. failed \in BOOLEAN /\ (step = "finish" => failed)  BY <1>9
<1>11. port' = [port EXCEPT !.step = step, !.failed = failed, !.samples = samples]  BY <1>6
<1> HIDE DEF samples, step, ok, n, failed
<1>12. port' \in CallRecord  BY <1>2, <1>7, <1>8, <1>10, <1>11, Zenon DEF CallRecord
<1>13. /\ port'.step = step /\ port'.kind = "benchmark" /\ port'.before = port.before
       /\ port'.runs = port.runs /\ port'.samples = samples /\ port'.failed = failed
  BY <1>2, <1>3, <1>11 DEF CallRecord
<1>14. OutputIsOldOrOwn'  BY <1>13 DEF OutputIsOldOrOwn
<1>15. \A i \in 1 .. Len(port.samples) : port.samples[i].exe \in Nat
  <2>1. ASSUME NEW i \in 1 .. Len(port.samples)  PROVE port.samples[i] \in Sample  BY <1>4, ElementOfSeq
  <2> QED  BY <2>1 DEF Sample, Versions
<1>16. SamplesSoFar'
  <2>1. /\ Len(port.samples) = IF port.runs < WarmupRuns THEN 0 ELSE port.runs - WarmupRuns
        /\ \A i \in 1 .. Len(port.samples) : port.samples[i].run = WarmupRuns + i
        /\ swaps < 2 => \A i \in 1 .. Len(port.samples) :
                           port.before <= port.samples[i].exe /\ port.samples[i].exe <= executable
    BY <1>2, <1>3 DEF PortsInv, SamplesSoFar
  <2>2. step = "command" /\ swaps < 2 => \A i \in 1 .. Len(port.samples) : port.samples[i].exe = port.before
    BY <1>4, <1>9, <1>15, <2>1 DEF Versions
  <2> QED  BY <1>1, <1>7, <1>9, <1>10, <1>13, <2>1, <2>2 DEF SamplesSoFar, Others
<1>17. output' \in QualityOutputs \cup {Absent}  BY <1>1 DEF PortsInv, PortsTyped, Others
<1> QED  BY <1>1, <1>2, <1>3, <1>12, <1>13, <1>14, <1>16, <1>17, CallGoesOn DEF Others

\* The window is finished: what is returned is whole, and ran on what the identity says.
LEMMA BenchmarkEnds == ASSUME PortsInv, FinishWindow PROVE PortsInv'
<1> DEFINE r == [kind |-> "benchmark", label |-> port.label, serial |-> serial, exe |-> port.before,
                 from |-> port.samples]
<1>1. UNCHANGED Others  BY DEF FinishWindow, Others
<1>2. CASE RaiseError  BY <1>1, <1>2, CallEnds
<1>3. CASE ~port.failed /\ SampleCountsAgree(port.samples) /\ Return(r)
  <2>1. port.step \in {"command", "finish"} /\ Calls  BY DEF FinishWindow, Calls, CallSteps
  <2>2. port \in CallRecord  BY <2>1, CallsAreRecords DEF Calls
  <2>3. port.kind = "benchmark"  BY <2>1, <2>2 DEF PortsInv, OutputIsOldOrOwn, CallRecord, Kinds, FinishWindow
  <2>4. port.step = "command"  BY <1>3, <2>1, <2>3 DEF PortsInv, SamplesSoFar
  <2>5. port.runs = WarmupRuns + SampleCount  BY <2>4 DEF FinishWindow
  <2>6. port.samples \in Seq(Sample) /\ port.before \in Versions  BY <2>2 DEF CallRecord
  <2>7. Len(port.samples) = SampleCount
    BY <2>1, <2>3, <2>5, PortsAssumption DEF PortsInv, SamplesSoFar
  <2>8. DOMAIN port.samples = 1 .. SampleCount  BY <2>6, <2>7, LenProperties
  <2>9. \A i \in 1 .. SampleCount : port.samples[i].run = WarmupRuns + i
    BY <2>1, <2>3, <2>7 DEF PortsInv, SamplesSoFar
  <2>10. [i \in DOMAIN port.samples |-> port.samples[i].run] = [i \in 1 .. SampleCount |-> WarmupRuns + i]
    BY <2>8, <2>9
  <2>11. \A i \in 2 .. SampleCount : port.samples[i].optional = port.samples[1].optional
    BY <1>3, <2>8, PortsAssumption DEF SampleCountsAgree
  <2>12. swaps < 2 => \A i \in DOMAIN port.samples : port.samples[i].exe = port.before
    BY <2>1, <2>3, <2>4, <2>7, <2>8 DEF PortsInv, SamplesSoFar
  <2>13. identity["benchmark"] = port.before  BY <2>1, <2>3 DEF PortsInv, CallIsBound
  <2>14. r.kind = "benchmark" /\ r.exe = port.before /\ r.from = port.samples  OBVIOUS
  <2> HIDE DEF r
  <2> QED  BY <1>1, <1>3, <2>6, <2>10, <2>11, <2>12, <2>13, <2>14, CallReturns DEF Kinds
<1> QED  BY <1>2, <1>3 DEF FinishWindow

\* A command is materialized, called for, and its evidence collected.
LEMMA ProfileStep ==
  ASSUME PortsInv, Materialize \/ CallTool \/ CollectProfile \/ ProfileRefused PROVE PortsInv'
<1>0. serial \in 0 .. MaxCallsOfPorts /\ approved \subseteq 1 .. serial /\ cases \subseteq Cases /\ swaps \in Nat
  BY DEF PortsInv, PortsTyped
<1>1. CASE Materialize
  <2>1. /\ port = NoCall /\ serial < MaxCallsOfPorts /\ serial' = serial + 1 /\ approved' = approved \cup {serial + 1}
        /\ UNCHANGED << executable, swaps, identity, output, port, survivor, orphaned, cases, results >>
    BY <1>1 DEF Materialize
  <2>2. serial' \in 0 .. MaxCallsOfPorts /\ approved' \subseteq 1 .. serial'  BY <1>0, <2>1, PortsAssumption
  <2>3. PortsTyped'  BY <2>1, <2>2 DEF PortsInv, PortsTyped
  <2>4. ~Calls'  BY <2>1, NoCallIsNone DEF Calls
  <2>5. ExchangedOnce' /\ SurvivorIsOrphaned'  BY <2>1 DEF PortsInv, ExchangedOnce, SurvivorIsOrphaned
  <2>6. CasesAreOfApproved'
    <3>1. \A c \in cases : c.attempt \in Nat  BY <1>0, PortsAssumption DEF Cases, Serials
    <3>2. \A c \in cases : c.attempt \notin approved /\ c.attempt <= serial  BY DEF PortsInv, CasesAreOfApproved
    <3>3. \A c \in cases : c.attempt \notin approved' /\ c.attempt <= serial'  BY <1>0, <2>1, <3>1, <3>2
    <3> QED  BY <2>1, <3>3 DEF PortsInv, CasesAreOfApproved
  <2>7. ResultsAreTyped' /\ PortsMeasureHonestly'  BY <1>0, <2>1, ResultsStayHonest
  <2> QED  BY <2>3, <2>4, <2>5, <2>6, <2>7, NothingCalled DEF PortsInv
<1>2. CASE CallTool
  <2>1. PICK attempt \in approved :
          /\ approved' = approved \ {attempt}
          /\ port' = [step |-> "answered", kind |-> "profile", attempt |-> attempt]
          /\ \/ \E c \in Cases : c.attempt = attempt /\ c.exe = executable /\ cases' = cases \cup {c}
             \/ UNCHANGED cases
    BY <1>2 DEF CallTool
  <2>2. UNCHANGED << executable, swaps, identity, output, serial, survivor, orphaned, results >>  BY <1>2 DEF CallTool
  <2>3. attempt \in Serials /\ attempt <= serial  BY <1>0, PortsAssumption DEF Serials
  <2>4. port' \in ProfileRecord  BY <2>1, <2>3 DEF ProfileRecord
  <2>5. cases' \subseteq Cases /\ approved' \subseteq 1 .. serial'  BY <1>0, <2>1, <2>2
  <2>6. PortsTyped'  BY <2>2, <2>4, <2>5 DEF PortsInv, PortsTyped
  <2>7. port'.step = "answered"  BY <2>1
  <2>8. ~Calls'  BY <2>7, NoCallIsNone DEF Calls
  <2>9. ExchangedOnce' /\ SurvivorIsOrphaned'  BY <2>2 DEF PortsInv, ExchangedOnce, SurvivorIsOrphaned
  <2>10. CasesAreOfApproved'
    <3>1. /\ \A c \in cases : c.attempt \notin approved /\ c.attempt <= serial
          /\ \A c, d \in cases : c.attempt = d.attempt => c = d
      BY DEF PortsInv, CasesAreOfApproved
    <3>2. CASE UNCHANGED cases
      BY <2>1, <2>2, <3>1, <3>2 DEF CasesAreOfApproved
    <3>3. ASSUME NEW c \in Cases, c.attempt = attempt, cases' = cases \cup {c}  PROVE CasesAreOfApproved'
      BY <2>1, <2>2, <2>3, <3>1, <3>3 DEF CasesAreOfApproved
    <3> QED  BY <2>1, <3>2, <3>3
  <2>11. ResultsAreTyped' /\ PortsMeasureHonestly'  BY <1>0, <2>2, ResultsStayHonest
  <2> QED  BY <2>6, <2>8, <2>9, <2>10, <2>11, NothingCalled DEF PortsInv
<1>3. CASE CollectProfile
  <2>1. UNCHANGED Others  BY <1>3 DEF CollectProfile, Others
  <2>2. CASE RaiseError  BY <2>1, <2>2, CallEnds
  <2>3. ASSUME NEW case \in cases,
               CallSucceeded(case), ContextMatches(case, port.attempt),
               SidecarMatches({ c \in cases : c.attempt = port.attempt }),
               CompletionMatches({ c \in cases : c.attempt = port.attempt }),
               Return([kind |-> "profile", label |-> "baseline", serial |-> port.attempt, exe |-> Pinned, from |-> case])
        PROVE  PortsInv'
    <3> DEFINE r == [kind |-> "profile", label |-> "baseline", serial |-> port.attempt, exe |-> Pinned, from |-> case]
    <3>1. case.completed /\ case.attempt = port.attempt  BY <2>3 DEF CallSucceeded, ContextMatches
    <3>2. \A c \in cases : c.attempt = port.attempt => c = case  BY <3>1 DEF PortsInv, CasesAreOfApproved
    <3>3. case.sidecar /\ case.exe = Pinned /\ case.prompts
      BY <2>3, <3>2 DEF SidecarMatches, CompletionMatches
    <3>4. r.kind = "profile" /\ r.from = case
      OBVIOUS
    <3>5. r = [kind |-> "profile", label |-> "baseline", serial |-> case.attempt, exe |-> Pinned, from |-> case]
      BY <3>1
    <3>6. Return(r)  BY <2>3
    <3> HIDE DEF r
    <3> QED  BY <2>1, <3>1, <3>3, <3>4, <3>5, <3>6, CallReturns DEF Kinds
  <2> QED  BY <1>3, <2>2, <2>3 DEF CollectProfile
<1>4. CASE ProfileRefused
  BY <1>4, CallEnds DEF ProfileRefused, Others
<1> QED  BY <1>1, <1>2, <1>3, <1>4

\* The executable is exchanged, a driver dies, and a survivor writes.
LEMMA EnvironmentStep ==
  ASSUME PortsInv, Swap \/ DriverOfPortDies \/ SurvivorWrites PROVE PortsInv'
<1>0. /\ serial \in 0 .. MaxCallsOfPorts /\ swaps \in Nat /\ executable \in Versions
      /\ output \in QualityOutputs \cup {Absent}
  BY DEF PortsInv, PortsTyped
<1>1. CASE Swap
  <2>1. /\ swaps' = swaps + 1 /\ executable' = 3 - executable
        /\ UNCHANGED << identity, output, port, serial, survivor, orphaned, approved, cases, results >>
    BY <1>1 DEF Swap
  <2>2. executable' \in Versions /\ swaps' \in Nat /\ swaps <= swaps'  BY <1>0, <2>1 DEF Versions
  <2>3. swaps' < 2 => swaps = 0 /\ executable = 1 /\ executable' = 2
    BY <1>0, <2>1 DEF PortsInv, ExchangedOnce
  <2>4. PortsTyped'  BY <2>1, <2>2 DEF PortsInv, PortsTyped
  <2>5. ExchangedOnce'  BY <2>1, <2>3 DEF ExchangedOnce
  <2>6. SurvivorIsOrphaned' /\ CasesAreOfApproved'  BY <2>1 DEF PortsInv, SurvivorIsOrphaned, CasesAreOfApproved
  <2>7. Calls' = Calls  BY <2>1 DEF Calls
  <2>8. ASSUME Calls PROVE port.before \in Versions
    BY <2>8, CallsAreRecords DEF Calls, CallRecord
  <2>9. CallIsBound'
    BY <2>1, <2>3, <2>7, <2>8 DEF PortsInv, CallIsBound, Versions
  <2>10. OutputIsOldOrOwn'
    <3>1. output # Absent => output.exe \in Versions  BY <1>0 DEF QualityOutputs
    <3> QED  BY <2>1, <2>3, <2>7, <3>1 DEF PortsInv, OutputIsOldOrOwn, Versions
  <2>11. SamplesSoFar'
    <3> SUFFICES ASSUME Calls, port.kind = "benchmark"  PROVE SamplesSoFar'
      BY <2>1, <2>7 DEF SamplesSoFar
    <3>1. port.samples \in Seq(Sample)  BY CallsAreRecords DEF Calls, CallRecord
    <3>2. ASSUME NEW i \in 1 .. Len(port.samples)  PROVE port.samples[i].exe \in Versions
      <4>1. port.samples[i] \in Sample  BY <3>1, ElementOfSeq
      <4> QED  BY <4>1 DEF Sample
    <3>3. swaps' < 2 => \A i \in 1 .. Len(port.samples) :
                           /\ port.before <= port.samples[i].exe /\ port.samples[i].exe <= executable'
                           /\ port.step = "command" => port.samples[i].exe = port.before
      BY <2>3, <3>2 DEF PortsInv, SamplesSoFar, Versions
    <3> QED  BY <2>1, <3>3 DEF PortsInv, SamplesSoFar
  <2>12. ResultsAreTyped' /\ PortsMeasureHonestly'  BY <2>1, <2>2, ResultsStayHonest
  <2> QED  BY <2>4, <2>5, <2>6, <2>9, <2>10, <2>11, <2>12 DEF PortsInv
<1>2. CASE DriverOfPortDies
  <2>1. /\ port' = NoCall
        /\ UNCHANGED << executable, swaps, identity, output, serial, approved, cases, results >>
        /\ \/ survivor' = serial /\ orphaned' = orphaned \cup {serial}
           \/ UNCHANGED << survivor, orphaned >>
    BY <1>2 DEF DriverOfPortDies
  <2>2. PortsTyped'  BY <2>1 DEF PortsInv, PortsTyped
  <2>3. ~Calls'  BY <2>1, NoCallIsNone DEF Calls
  <2>4. ExchangedOnce' /\ CasesAreOfApproved'  BY <2>1 DEF PortsInv, ExchangedOnce, CasesAreOfApproved
  <2>5. SurvivorIsOrphaned' /\ orphaned \subseteq orphaned'  BY <2>1 DEF PortsInv, SurvivorIsOrphaned
  <2>6. ResultsAreTyped' /\ PortsMeasureHonestly'  BY <1>0, <2>1, <2>5, ResultsStayHonest
  <2> QED  BY <2>2, <2>3, <2>4, <2>5, <2>6, NothingCalled DEF PortsInv
<1>3. CASE SurvivorWrites
  <2>1. /\ survivor # 0 /\ survivor' = 0 /\ output' \in QualityOutputs
        /\ output'.serial = survivor /\ output'.exe = executable
        /\ UNCHANGED << executable, swaps, identity, port, serial, orphaned, approved, cases, results >>
    BY <1>3 DEF SurvivorWrites
  <2>2. PortsTyped'  BY <2>1 DEF PortsInv, PortsTyped
  <2>3. ExchangedOnce' /\ CasesAreOfApproved' /\ SurvivorIsOrphaned'
    BY <2>1 DEF PortsInv, ExchangedOnce, CasesAreOfApproved, SurvivorIsOrphaned
  <2>4. Calls' = Calls  BY <2>1 DEF Calls
  <2>5. CallIsBound'  BY <2>1, <2>4 DEF PortsInv, CallIsBound
  <2>6. SamplesSoFar'  BY <2>1, <2>4 DEF PortsInv, SamplesSoFar
  <2>7. OutputIsOldOrOwn'
    <3>1. output' # Absent /\ output'.serial \in orphaned
      BY <2>1, AbsentAssumption DEF PortsInv, SurvivorIsOrphaned
    <3>2. executable <= executable  BY <1>0 DEF Versions
    <3>3. Calls /\ swaps < 2 => port.before <= executable  BY DEF PortsInv, CallIsBound
    <3> QED  BY <2>1, <2>4, <3>1, <3>2, <3>3 DEF PortsInv, OutputIsOldOrOwn
  <2>8. ResultsAreTyped' /\ PortsMeasureHonestly'  BY <1>0, <2>1, ResultsStayHonest
  <2> QED  BY <2>2, <2>3, <2>5, <2>6, <2>7, <2>8 DEF PortsInv
<1> QED  BY <1>1, <1>2, <1>3

LEMMA PortsStep == ASSUME PortsInv, PortsNext PROVE PortsInv'
<1>1. ASSUME NEW label \in Labels, Evaluate(label) \/ Capture(label)  PROVE PortsInv'
  <2>1. CASE Evaluate(label)
    BY <2>1, CallBegins DEF Evaluate, BindsQuality, Kinds
  <2>2. CASE Capture(label)
    BY <2>2, CallBegins DEF Capture, BindsBenchmark, Kinds
  <2> QED  BY <1>1, <2>1, <2>2
<1> QED
  BY <1>1, QualityStep, BenchmarkStarts, BenchmarkGoesOn, BenchmarkEnds, ProfileStep, EnvironmentStep DEF PortsNext

LEMMA PortsStutter == ASSUME PortsInv, UNCHANGED portvars PROVE PortsInv'
<1>1. UNCHANGED << Others, port, results >>  BY DEF portvars, Others
<1>2. ResultsAreTyped' /\ PortsMeasureHonestly'
  BY <1>1, ResultsStayHonest DEF PortsInv, PortsTyped, Others
<1> QED
  BY <1>1, <1>2
  DEF PortsInv, PortsTyped, ExchangedOnce, SurvivorIsOrphaned, CallIsBound, OutputIsOldOrOwn, SamplesSoFar,
      CasesAreOfApproved, Calls, Others

\* What the ports return is measured honestly, for every protocol and every number of
\* calls and of exchanges of the executable.
THEOREM PortsAreHonest == PortsInit /\ [][PortsNext]_portvars => []PortsMeasureHonestly
<1>1. PortsInv /\ [PortsNext]_portvars => PortsInv'  BY PortsStep, PortsStutter
<1>2. PortsInv => PortsMeasureHonestly  BY DEF PortsInv
<1> QED  BY PortsInits, <1>1, <1>2, PTL

-----------------------------------------------------------------------------
(* The capture of a model                                                  *)

ChunkBytes == {0, 1}
InodeRecord == [kind : {"file"}, bytes : Bytes, stamp : Nat] \cup [kind : {"link"}, to : Blobs, stamp : Nat]

TreeTyped ==
  /\ changes \in Nat /\ directory \in Nat /\ directory <= changes
  /\ inode \in Seq(InodeRecord) /\ \A id \in DOMAIN inode : inode[id].stamp <= changes
  /\ at \in [Places -> DOMAIN inode \cup {Nothing}]
  /\ \A b \in Blobs : at[b] # Nothing => inode[at[b]].kind = "file"

WalkSteps == {"stat directory", "lstat"}
SeenSteps == {"readlink", "open"}
OpenSteps == {"read", "fstat", "stat target", "lstat again"}
SecondSteps == {"stat again", "bindings", "complete"}
FileSteps == SeenSteps \cup OpenSteps

Stats == Nat \X Nat
Bindings == [name : Names, lexical : Stats, target : Places, opened : Stats]
HashedFiles == UNION { [names -> Bytes] : names \in SUBSET Names }

CaptureRecord ==
  [step : WalkSteps \cup FileSteps \cup SecondSteps, listing : SUBSET Names, directory : Nat \cup {Nothing},
   left : SUBSET Names, seen : Stats \cup {Nothing}, target : Places \cup {Nothing}, fd : Nat \cup {Nothing},
   opened : Stats \cup {Nothing}, read : Seq(ChunkBytes), files : HashedFiles, bindings : SUBSET Bindings, began : Nat]

\* A stat that was taken, and one that a stat now would repeat.
Taken(stat) == stat \in Stats /\ stat[1] \in DOMAIN inode /\ stat[2] <= changes
Untouched(stat) == inode[stat[1]].stamp = stat[2]

TargetOf(id, n) == IF inode[id].kind = "link" THEN inode[id].to ELSE n

\* The file in hand is the one that was looked at, and its target the one that was
\* read from it, if nothing has touched its inode since.
FileIsTheSeen ==
  capture.step \in FileSteps =>
    /\ FileInHand \in capture.left /\ Taken(capture.seen) /\ capture.target \in Places
    /\ capture.step = "readlink" => inode[capture.seen[1]].kind = "link"
    /\ Untouched(capture.seen) =>
         /\ at[FileInHand] = capture.seen[1]
         /\ capture.step # "readlink" => capture.target = TargetOf(capture.seen[1], FileInHand)
    /\ capture.step \in SeenSteps => capture.read = << >>

\* What was read is in the opened inode, if nothing has touched that since.
ReadIsTheOpened ==
  capture.step \in OpenSteps =>
    /\ Taken(capture.opened) /\ capture.fd = capture.opened[1] /\ inode[capture.fd].kind = "file"
    /\ IF capture.step = "read" THEN Len(capture.read) < 2 ELSE Len(capture.read) = 2
    /\ Untouched(capture.opened) =>
         /\ at[capture.target] = capture.fd
         /\ \A i \in 1 .. Len(capture.read) : capture.read[i] = inode[capture.fd].bytes[i]

Unbroken(b) == Untouched(b.lexical) /\ Untouched(b.opened)

\* A binding without a change behind its back still describes its file.
BindingsDescribe ==
  /\ capture.left \subseteq capture.listing /\ DOMAIN capture.files = capture.listing \ capture.left
  /\ \A b \in capture.bindings :
       /\ b.name \in capture.listing \ capture.left /\ Taken(b.lexical) /\ Taken(b.opened)
       /\ inode[b.opened[1]].kind = "file"
       /\ Unbroken(b) =>
            /\ at[b.name] = b.lexical[1] /\ at[b.target] = b.opened[1]
            /\ b.target = TargetOf(b.lexical[1], b.name)
            /\ inode[b.opened[1]].bytes = capture.files[b.name]
  /\ capture.step \notin SecondSteps =>
       \A n \in capture.listing \ capture.left : \E b \in capture.bindings : b.name = n

\* At one moment after the hashing, every file was the hashed one unless a binding
\* that is still to be verified is broken.
OneMomentIsLeft ==
  capture.step \in SecondSteps =>
    /\ capture.left = {} /\ (capture.step = "complete" => capture.bindings = {})
    /\ \E m \in moments :
         /\ DOMAIN m = capture.listing
         /\ \A n \in capture.listing :
              m[n] = capture.files[n] \/ \E b \in capture.bindings : b.name = n /\ (Unbroken(b) => m[n] = capture.files[n])

\* Without a change since the capture began, all that it saw is as it was.
QuietCapture ==
  /\ capture.began <= changes
  /\ Undisturbed =>
       /\ moments = {Content} /\ capture.listing = Listing
       /\ capture.step # "stat directory" => capture.directory = directory
       /\ capture.step \in FileSteps => Untouched(capture.seen)
       /\ capture.step \in OpenSteps => Untouched(capture.opened)
       /\ \A b \in capture.bindings : Unbroken(b)

CaptureIsSound ==
  \/ capture = NoCapture
  \/ /\ capture \in CaptureRecord /\ Content \in moments
     /\ FileIsTheSeen /\ ReadIsTheOpened /\ BindingsDescribe /\ OneMomentIsLeft /\ QuietCapture

CampaignHasModel ==
  /\ moments \subseteq Contents
  /\ external # Nothing => config # Nothing
  /\ imported # Nothing => imported.files = config /\ config # Nothing

SnapshotInvariant == TreeTyped /\ CaptureIsSound /\ CampaignHasModel /\ SnapshotIsOfOneMoment

\* The least of the files left exists.
LEMMA FileInHandIsLeft ==
  ASSUME capture.left \in SUBSET Nat, capture.left # {}
  PROVE  FileInHand \in capture.left
<1>1. PICK n \in capture.left : \A m \in capture.left : ~(<< m, n >> \in OpToRel(<, Nat))
      BY NatLessThanWellFounded, WFMin
<1>2. \A m \in capture.left : ~(m < n)
      BY <1>1, Zenon DEF OpToRel
<1>3. \A m \in capture.left : n <= m
      BY <1>2
<1> QED  BY <1>3 DEF FileInHand

LEMMA NothingIsNoValue ==
  /\ Nothing \notin Nat /\ Nothing \notin Contents /\ Nothing \notin Bytes
  /\ Names \subseteq Nat /\ Names \cap Blobs = {}
BY NothingAssumption, SnapshotAssumption

\* A link is followed once, to a file.
LEMMA LinksLeadToFiles ==
  ASSUME TreeTyped, NEW p \in Places
  PROVE  /\ at[p] \in DOMAIN inode \cup {Nothing} /\ Follow(at, p) \in DOMAIN inode \cup {Nothing}
         /\ Follow(at, p) # Nothing => inode[Follow(at, p)] \in InodeRecord /\ inode[Follow(at, p)].kind = "file"
         /\ at[p] \in DOMAIN inode => inode[at[p]] \in InodeRecord /\ at[p] # Nothing
<1>1. DOMAIN inode \subseteq Nat /\ \A id \in DOMAIN inode : inode[id] \in InodeRecord
      BY LenProperties, ElementOfSeq DEF TreeTyped
<1>2. at[p] \in DOMAIN inode \cup {Nothing} /\ (at[p] \in DOMAIN inode => at[p] # Nothing)
      BY <1>1, NothingIsNoValue DEF TreeTyped
<1>3. CASE at[p] # Nothing /\ inode[at[p]].kind = "link"
  <2>1. inode[at[p]].to \in Blobs
        BY <1>1, <1>2, <1>3 DEF InodeRecord
  <2>2. Follow(at, p) = at[inode[at[p]].to]
        BY <1>3 DEF Follow
  <2> QED  BY <1>1, <1>2, <2>1, <2>2 DEF TreeTyped, Places
<1>4. CASE ~(at[p] # Nothing /\ inode[at[p]].kind = "link")
  <2>1. Follow(at, p) = at[p]
        BY <1>4 DEF Follow
  <2>2. at[p] # Nothing => inode[at[p]].kind = "file"
        BY <1>1, <1>2, <1>4 DEF InodeRecord
  <2> QED  BY <1>1, <1>2, <2>1, <2>2
<1> QED  BY <1>3, <1>4

LEMMA ContentIs ==
  ASSUME TreeTyped
  PROVE  /\ Content \in Contents /\ DOMAIN Content = Listing /\ Listing \subseteq Names
         /\ \A n \in Listing : Follow(at, n) = Nothing => Content[n] = Nothing
         /\ \A n \in Listing : Follow(at, n) # Nothing => Content[n] = inode[Follow(at, n)].bytes /\ Content[n] \in Bytes
<1>1. Content = [n \in Listing |-> IF Follow(at, n) = Nothing THEN Nothing ELSE inode[Follow(at, n)].bytes]
      BY DEF Content, Listing
<1>2. Listing \subseteq Names
      BY DEF Listing
<1>3. \A n \in Listing : Follow(at, n) # Nothing => inode[Follow(at, n)].bytes \in Bytes
  <2> TAKE n \in Listing
  <2>1. n \in Places
        BY <1>2 DEF Places
  <2> QED  BY <2>1, LinksLeadToFiles DEF InodeRecord
<1>4. \A n \in Listing : (IF Follow(at, n) = Nothing THEN Nothing ELSE inode[Follow(at, n)].bytes) \in Bytes \cup {Nothing}
      BY <1>3
<1>5. Content \in [Listing -> Bytes \cup {Nothing}]
      BY <1>1, <1>4
<1>6. [Listing -> Bytes \cup {Nothing}] \in { [names -> Bytes \cup {Nothing}] : names \in SUBSET Names }
      BY <1>2
<1>7. Content \in Contents
      BY <1>5, <1>6 DEF Contents
<1> QED  BY <1>1, <1>2, <1>3, <1>7

LEMMA ContentNow == TreeTyped => Content \in Contents
BY ContentIs

LEMMA ContentNext == TreeTyped' => (Content \in Contents)'
BY ContentNow, PTL

-----------------------------------------------------------------------------
(* What another process may do                                             *)

LEMMA StampedIs ==
  ASSUME changes \in Nat, NEW seq \in Seq(InodeRecord), NEW changed,
         \A id \in DOMAIN seq : seq[id].stamp <= changes
  PROVE  /\ Stamped(seq, changed) \in Seq(InodeRecord) /\ DOMAIN Stamped(seq, changed) = DOMAIN seq
         /\ \A id \in DOMAIN seq :
              /\ Stamped(seq, changed)[id].stamp <= changes + 1
              /\ Stamped(seq, changed)[id].kind = seq[id].kind
              /\ seq[id].kind = "link" => Stamped(seq, changed)[id].to = seq[id].to
              /\ id \in changed => Stamped(seq, changed)[id].stamp = changes + 1
              /\ id \notin changed => Stamped(seq, changed)[id] = seq[id]
<1> DEFINE stamped == Stamped(seq, changed)
<1>1. stamped = [id \in DOMAIN seq |-> IF id \in changed THEN [seq[id] EXCEPT !.stamp = changes + 1] ELSE seq[id]]
      BY DEF Stamped
<1>2. DOMAIN seq = 1 .. Len(seq) /\ Len(seq) \in Nat
      BY LenProperties
<1>3. ASSUME NEW id \in DOMAIN seq
      PROVE  /\ stamped[id] \in InodeRecord
             /\ stamped[id].stamp <= changes + 1
             /\ stamped[id].kind = seq[id].kind
             /\ seq[id].kind = "link" => stamped[id].to = seq[id].to
             /\ id \in changed => stamped[id].stamp = changes + 1
             /\ id \notin changed => stamped[id] = seq[id]
  <2>1. seq[id] \in InodeRecord /\ seq[id].stamp <= changes
        BY <1>2, ElementOfSeq
  <2>2. CASE id \in changed
    <3>1. stamped[id] = [seq[id] EXCEPT !.stamp = changes + 1]
          BY <1>1, <2>2
    <3> QED  BY <2>1, <2>2, <3>1 DEF InodeRecord
  <2>3. CASE id \notin changed
    <3>1. stamped[id] = seq[id]
          BY <1>1, <2>3
    <3> QED  BY <2>1, <2>3, <3>1 DEF InodeRecord
  <2> QED  BY <2>2, <2>3
<1>4. stamped \in Seq(InodeRecord) /\ DOMAIN stamped = DOMAIN seq
      BY <1>1, <1>2, <1>3, IsASeq
<1> QED  BY <1>3, <1>4

\* All that the capture needs to know of the other process: an inode keeps its kind
\* and its link; what is changed, and what loses its place, has the new stamp.
TreeMovesOn ==
  /\ changes' = changes + 1 /\ DOMAIN inode \subseteq DOMAIN inode'
  /\ \A id \in DOMAIN inode :
       /\ inode'[id].kind = inode[id].kind /\ (inode[id].kind = "link" => inode'[id].to = inode[id].to)
       /\ inode'[id] = inode[id] \/ inode'[id].stamp = changes'
  /\ \A p \in Places : at[p] # Nothing => at'[p] = at[p] \/ inode'[at[p]].stamp = changes'

LEMMA WriteMovesOn ==
  ASSUME TreeTyped, NEW id \in DOMAIN inode, NEW i \in 1 .. 2, Write(id, i)
  PROVE  TreeTyped' /\ TreeMovesOn
<1> DEFINE written == [inode[id] EXCEPT !.bytes[i] = 1 - @]  writes == [inode EXCEPT ![id] = written]
<1>1. /\ changes' = changes + 1 /\ at' = at /\ directory' = directory
      /\ inode' = Stamped([inode EXCEPT ![id].bytes[i] = 1 - @], {id})
      BY DEF Write, Disturb
<1>2. inode \in Seq(InodeRecord) /\ inode[id] \in InodeRecord /\ inode[id].kind = "file"
      BY LenProperties, ElementOfSeq DEF TreeTyped, Write
<1>3. written \in InodeRecord /\ written.stamp = inode[id].stamp /\ written.kind = "file"
  <2>1. inode[id].bytes \in [1 .. 2 -> {0, 1}]
        BY <1>2 DEF InodeRecord, Bytes
  <2>2. [inode[id].bytes EXCEPT ![i] = 1 - inode[id].bytes[i]] \in [1 .. 2 -> {0, 1}]
        BY <2>1
  <2> QED  BY <1>2, <2>2 DEF InodeRecord, Bytes
<1>4. [inode EXCEPT ![id].bytes[i] = 1 - @] = writes
      OBVIOUS
<1>5. writes \in Seq(InodeRecord) /\ DOMAIN writes = DOMAIN inode
      BY <1>2, <1>3, ExceptSeq
<1>6. \A x \in DOMAIN inode : writes[x].stamp <= changes /\ (x # id => writes[x] = inode[x])
      BY <1>3 DEF TreeTyped
<1>7. /\ inode' = Stamped(writes, {id}) /\ changes \in Nat
      BY <1>1, <1>4 DEF TreeTyped
<1>8. /\ inode' \in Seq(InodeRecord) /\ DOMAIN inode' = DOMAIN inode
      /\ \A x \in DOMAIN inode :
           /\ inode'[x].stamp <= changes + 1 /\ inode'[x].kind = inode[x].kind
           /\ x # id => inode'[x] = inode[x]
           /\ x = id => inode'[x].stamp = changes + 1
  <2>1. /\ Stamped(writes, {id}) \in Seq(InodeRecord) /\ DOMAIN Stamped(writes, {id}) = DOMAIN writes
        /\ \A x \in DOMAIN writes :
             /\ Stamped(writes, {id})[x].stamp <= changes + 1
             /\ Stamped(writes, {id})[x].kind = writes[x].kind
             /\ x \in {id} => Stamped(writes, {id})[x].stamp = changes + 1
             /\ x \notin {id} => Stamped(writes, {id})[x] = writes[x]
    <3> HIDE DEF writes
    <3> QED  BY <1>5, <1>6, <1>7, StampedIs
  <2>2. \A x \in DOMAIN inode : writes[x].kind = inode[x].kind
        BY <1>2, <1>3, <1>6
  <2> HIDE DEF writes
  <2> QED  BY <1>5, <1>6, <1>7, <2>1, <2>2
<1> HIDE DEF writes, written
<1>9. TreeTyped'
  <2>1. changes' \in Nat /\ directory' \in Nat /\ directory' <= changes'
        BY <1>1 DEF TreeTyped
  <2>2. at' \in [Places -> DOMAIN inode' \cup {Nothing}]
        BY <1>1, <1>8 DEF TreeTyped
  <2>3. \A b \in Blobs : at'[b] # Nothing => inode'[at'[b]].kind = "file"
        BY <1>1, <1>8 DEF TreeTyped, Places
  <2>4. \A x \in DOMAIN inode' : inode'[x].stamp <= changes'
        BY <1>1, <1>8
  <2> QED  BY <1>8, <2>1, <2>2, <2>3, <2>4 DEF TreeTyped
<1>10. TreeMovesOn
      BY <1>1, <1>2, <1>8 DEF TreeMovesOn
<1> QED  BY <1>9, <1>10

LEMMA PutMovesOn ==
  ASSUME TreeTyped, NEW place \in Places, NEW new \in InodeRecord, new.stamp = 0,
         place \in Blobs => new.kind = "file", Put(place, new)
  PROVE  TreeTyped' /\ TreeMovesOn
<1> DEFINE longer == Append(inode, new)  last == Len(inode) + 1
<1>1. /\ changes' = changes + 1 /\ at' = [at EXCEPT ![place] = last]
      /\ directory' = directory \/ directory' = changes'
      /\ inode' = Stamped(longer, {at[place], last})
      BY DEF Put, Disturb
<1>2. /\ inode \in Seq(InodeRecord) /\ Len(inode) \in Nat /\ DOMAIN inode = 1 .. Len(inode) /\ last \notin DOMAIN inode
      /\ at \in [Places -> DOMAIN inode \cup {Nothing}] /\ changes \in Nat
      BY LenProperties DEF TreeTyped
<1>3. /\ longer \in Seq(InodeRecord) /\ DOMAIN longer = DOMAIN inode \cup {last}
      /\ longer[last] = new /\ \A id \in DOMAIN inode : longer[id] = inode[id]
  <2>1. /\ longer \in Seq(InodeRecord) /\ Len(longer) = Len(inode) + 1
        /\ \A id \in 1 .. Len(inode) : longer[id] = inode[id] /\ longer[Len(inode) + 1] = new
        BY <1>2, AppendProperties
  <2>2. longer[last] = new
        BY <1>2, AppendProperties
  <2>3. DOMAIN longer = 1 .. last
        BY <2>1, LenProperties
  <2> HIDE DEF longer
  <2> QED  BY <1>2, <2>1, <2>2, <2>3
<1> HIDE DEF longer, last
<1>4. \A id \in DOMAIN longer : longer[id].stamp <= changes
      BY <1>2, <1>3 DEF TreeTyped
<1>5. /\ inode' \in Seq(InodeRecord) /\ DOMAIN inode' = DOMAIN inode \cup {last}
      /\ inode'[last].kind = new.kind
      /\ \A id \in DOMAIN inode' : inode'[id].stamp <= changes + 1
      /\ \A id \in DOMAIN inode :
           /\ inode'[id].kind = inode[id].kind /\ (inode[id].kind = "link" => inode'[id].to = inode[id].to)
           /\ id = at[place] => inode'[id].stamp = changes + 1
           /\ id # at[place] => inode'[id] = inode[id]
  <2>1. /\ inode' \in Seq(InodeRecord) /\ DOMAIN inode' = DOMAIN longer
        /\ \A id \in DOMAIN longer :
             /\ inode'[id].stamp <= changes + 1
             /\ inode'[id].kind = longer[id].kind
             /\ longer[id].kind = "link" => inode'[id].to = longer[id].to
             /\ id \in {at[place], last} => inode'[id].stamp = changes + 1
             /\ id \notin {at[place], last} => inode'[id] = longer[id]
        BY <1>1, <1>2, <1>3, <1>4, StampedIs
  <2> QED  BY <1>2, <1>3, <2>1
<1>6. /\ at' \in [Places -> DOMAIN inode' \cup {Nothing}] /\ at'[place] = last
      /\ \A p \in Places : p # place => at'[p] = at[p]
      BY <1>1, <1>2, <1>5
<1>7. \A b \in Blobs : at'[b] # Nothing => inode'[at'[b]].kind = "file"
  <2> TAKE b \in Blobs
  <2>1. b \in Places /\ (b # place => at[b] \in DOMAIN inode \cup {Nothing})
        BY <1>2 DEF Places
  <2>2. CASE b = place
        BY <1>5, <1>6, <2>2
  <2>3. CASE b # place
        BY <1>5, <1>6, <2>1, <2>3 DEF TreeTyped
  <2> QED  BY <2>2, <2>3
<1>8. TreeTyped'
  <2>1. changes' \in Nat /\ directory' \in Nat /\ directory' <= changes'
        BY <1>1 DEF TreeTyped
  <2>2. \A x \in DOMAIN inode' : inode'[x].stamp <= changes'
        BY <1>1, <1>5
  <2> QED  BY <1>5, <1>6, <1>7, <2>1, <2>2 DEF TreeTyped
<1>9. TreeMovesOn
  <2>1. \A p \in Places : at[p] # Nothing => at'[p] = at[p] \/ inode'[at[p]].stamp = changes'
        BY <1>1, <1>2, <1>5, <1>6
  <2> QED  BY <1>1, <1>2, <1>5, <2>1 DEF TreeMovesOn
<1> QED  BY <1>8, <1>9

\* A name moves, or goes with nothing put in its place.
LEMMA MoveMovesOn ==
  ASSUME TreeTyped, NEW from \in Places, NEW to \in Places, Move(from, to)
  PROVE  TreeTyped' /\ TreeMovesOn
<1>1. /\ changes' = changes + 1 /\ at' = [at EXCEPT ![to] = at[from], ![from] = Nothing]
      /\ directory' = directory \/ directory' = changes'
      /\ inode' = Stamped(inode, {at[from], at[to]}) /\ at[from] # Nothing /\ from # to
      /\ ~(to \in Blobs /\ inode[at[from]].kind = "link")
      BY DEF Move, Disturb
<1>2. /\ inode \in Seq(InodeRecord) /\ at \in [Places -> DOMAIN inode \cup {Nothing}] /\ changes \in Nat
      /\ \A id \in DOMAIN inode : inode[id].stamp <= changes
      BY DEF TreeTyped
<1>3. /\ inode' \in Seq(InodeRecord) /\ DOMAIN inode' = DOMAIN inode
      /\ \A id \in DOMAIN inode :
           /\ inode'[id].stamp <= changes + 1
           /\ inode'[id].kind = inode[id].kind /\ (inode[id].kind = "link" => inode'[id].to = inode[id].to)
           /\ id \in {at[from], at[to]} => inode'[id].stamp = changes + 1
           /\ id \notin {at[from], at[to]} => inode'[id] = inode[id]
      BY <1>1, <1>2, StampedIs
<1>4. /\ at' \in [Places -> DOMAIN inode' \cup {Nothing}] /\ at'[from] = Nothing /\ at'[to] = at[from]
      /\ \A p \in Places \ {from, to} : at'[p] = at[p]
      BY <1>1, <1>2, <1>3
<1>5. at[from] \in DOMAIN inode /\ (to \in Blobs => inode[at[from]].kind = "file")
      BY <1>1, <1>2, LinksLeadToFiles DEF InodeRecord
<1>6. \A b \in Blobs : at'[b] # Nothing => inode'[at'[b]].kind = "file"
  <2> TAKE b \in Blobs
  <2>1. b \in Places /\ at[b] \in DOMAIN inode \cup {Nothing}
        BY <1>2 DEF Places
  <2>2. CASE b = to
        BY <1>3, <1>4, <1>5, <2>2
  <2>3. CASE b # to
        BY <1>3, <1>4, <2>1, <2>3 DEF TreeTyped
  <2> QED  BY <2>2, <2>3
<1>7. TreeTyped'
  <2>1. changes' \in Nat /\ directory' \in Nat /\ directory' <= changes'
        BY <1>1 DEF TreeTyped
  <2>2. \A x \in DOMAIN inode' : inode'[x].stamp <= changes'
        BY <1>1, <1>3
  <2> QED  BY <1>3, <1>4, <1>6, <2>1, <2>2 DEF TreeTyped
<1>8. \A p \in Places : at[p] # Nothing => at'[p] = at[p] \/ inode'[at[p]].stamp = changes'
      BY <1>1, <1>2, <1>3, <1>4
<1>9. TreeMovesOn
      BY <1>1, <1>2, <1>3, <1>8 DEF TreeMovesOn
<1> QED  BY <1>7, <1>9

LEMMA RemoveMovesOn ==
  ASSUME TreeTyped, NEW place \in Places, Remove(place)
  PROVE  TreeTyped' /\ TreeMovesOn
<1>1. /\ changes' = changes + 1 /\ at' = [at EXCEPT ![place] = Nothing]
      /\ directory' = directory \/ directory' = changes'
      /\ inode' = Stamped(inode, {at[place]})
      BY DEF Remove, Disturb
<1>2. /\ inode \in Seq(InodeRecord) /\ at \in [Places -> DOMAIN inode \cup {Nothing}] /\ changes \in Nat
      /\ \A id \in DOMAIN inode : inode[id].stamp <= changes
      BY DEF TreeTyped
<1>3. /\ inode' \in Seq(InodeRecord) /\ DOMAIN inode' = DOMAIN inode
      /\ \A id \in DOMAIN inode :
           /\ inode'[id].stamp <= changes + 1
           /\ inode'[id].kind = inode[id].kind /\ (inode[id].kind = "link" => inode'[id].to = inode[id].to)
           /\ id \in {at[place]} => inode'[id].stamp = changes + 1
           /\ id \notin {at[place]} => inode'[id] = inode[id]
      BY <1>1, <1>2, StampedIs
<1>4. /\ at' \in [Places -> DOMAIN inode' \cup {Nothing}] /\ at'[place] = Nothing
      /\ \A p \in Places \ {place} : at'[p] = at[p]
      BY <1>1, <1>2, <1>3
<1>5. \A b \in Blobs : at'[b] # Nothing => inode'[at'[b]].kind = "file"
      BY <1>2, <1>3, <1>4 DEF TreeTyped, Places
<1>6. TreeTyped'
  <2>1. changes' \in Nat /\ directory' \in Nat /\ directory' <= changes'
        BY <1>1 DEF TreeTyped
  <2>2. \A x \in DOMAIN inode' : inode'[x].stamp <= changes'
        BY <1>1, <1>3
  <2> QED  BY <1>3, <1>4, <1>5, <2>1, <2>2 DEF TreeTyped
<1>7. \A p \in Places : at[p] # Nothing => at'[p] = at[p] \/ inode'[at[p]].stamp = changes'
      BY <1>1, <1>2, <1>3, <1>4
<1>8. TreeMovesOn
      BY <1>1, <1>2, <1>3, <1>7 DEF TreeMovesOn
<1> QED  BY <1>6, <1>8

\* A stat only goes stale: what another process touches has a later stamp.
LEMMA StatsGoStale ==
  ASSUME TreeTyped, TreeMovesOn, NEW s, Taken(s)
  PROVE  /\ s[1] \in DOMAIN inode' /\ s[2] <= changes' /\ inode'[s[1]].kind = inode[s[1]].kind
         /\ inode[s[1]].kind = "link" => inode'[s[1]].to = inode[s[1]].to
         /\ inode'[s[1]].stamp = s[2] =>
              /\ inode[s[1]].stamp = s[2] /\ inode'[s[1]] = inode[s[1]]
              /\ \A p \in Places : at[p] = s[1] => at'[p] = s[1]
<1>1. s[1] \in DOMAIN inode /\ s[2] \in Nat /\ s[2] <= changes /\ changes \in Nat /\ changes' = changes + 1
      BY DEF Taken, TreeTyped, TreeMovesOn, Stats
<1>2. s[1] # Nothing
      BY <1>1, LenProperties, NothingIsNoValue DEF TreeTyped
<1>3. ASSUME inode'[s[1]].stamp = s[2]
      PROVE  inode'[s[1]] = inode[s[1]] /\ \A p \in Places : at[p] = s[1] => at'[p] = s[1]
  <2>1. inode'[s[1]].stamp # changes'
        BY <1>1, <1>3
  <2> QED  BY <1>1, <1>2, <2>1 DEF TreeMovesOn
<1> QED  BY <1>1, <1>3 DEF TreeMovesOn

LEMMA OthersKeepTheFile ==
  ASSUME TreeTyped, TreeMovesOn, capture \in CaptureRecord, FileIsTheSeen, capture' = capture
  PROVE  FileIsTheSeen'
<1> SUFFICES ASSUME capture.step \in FileSteps  PROVE FileIsTheSeen'
    BY DEF FileIsTheSeen
<1>1. /\ FileInHand \in capture.left /\ Taken(capture.seen) /\ capture.target \in Places
      /\ capture.step = "readlink" => inode[capture.seen[1]].kind = "link"
      /\ Untouched(capture.seen) =>
           /\ at[FileInHand] = capture.seen[1]
           /\ capture.step # "readlink" => capture.target = TargetOf(capture.seen[1], FileInHand)
      /\ capture.step \in SeenSteps => capture.read = << >>
      BY DEF FileIsTheSeen
<1>2. FileInHand' = FileInHand
      BY DEF FileInHand
<1>3. FileInHand \in Places
      BY <1>1 DEF CaptureRecord, Places
<1> DEFINE s == capture.seen
<1>4. /\ s[1] \in DOMAIN inode' /\ s[2] <= changes' /\ inode'[s[1]].kind = inode[s[1]].kind
      /\ inode[s[1]].kind = "link" => inode'[s[1]].to = inode[s[1]].to
      /\ inode'[s[1]].stamp = s[2] =>
           /\ inode[s[1]].stamp = s[2]
           /\ \A p \in Places : at[p] = s[1] => at'[p] = s[1]
      BY <1>1, StatsGoStale
<1>5. Taken(capture.seen)'
      BY <1>1, <1>4 DEF Taken
<1>6. ASSUME Untouched(capture.seen)'
      PROVE  /\ at'[FileInHand'] = capture'.seen[1]
             /\ capture'.step # "readlink" => capture'.target = TargetOf(capture.seen[1], FileInHand)'
  <2>1. inode'[s[1]].stamp = s[2]
        BY <1>6 DEF Untouched
  <2>2. Untouched(capture.seen)
        BY <1>4, <2>1 DEF Untouched
  <2>3. at'[FileInHand] = s[1]
        BY <1>1, <1>3, <1>4, <2>1, <2>2
  <2>4. TargetOf(capture.seen[1], FileInHand)' = TargetOf(capture.seen[1], FileInHand)
        BY <1>2, <1>4 DEF TargetOf
  <2> QED  BY <1>1, <1>2, <2>2, <2>3, <2>4
<1> QED  BY <1>1, <1>2, <1>4, <1>5, <1>6 DEF FileIsTheSeen

LEMMA OthersKeepTheRead ==
  ASSUME TreeTyped, TreeMovesOn, capture \in CaptureRecord, FileIsTheSeen, ReadIsTheOpened, capture' = capture
  PROVE  ReadIsTheOpened'
<1> SUFFICES ASSUME capture.step \in OpenSteps  PROVE ReadIsTheOpened'
    BY DEF ReadIsTheOpened
<1> DEFINE s == capture.opened
<1>1. /\ Taken(capture.opened) /\ capture.fd = capture.opened[1] /\ inode[capture.fd].kind = "file"
      /\ IF capture.step = "read" THEN Len(capture.read) < 2 ELSE Len(capture.read) = 2
      /\ Untouched(capture.opened) =>
           /\ at[capture.target] = capture.fd
           /\ \A i \in 1 .. Len(capture.read) : capture.read[i] = inode[capture.fd].bytes[i]
      /\ capture.target \in Places
      BY DEF ReadIsTheOpened, FileIsTheSeen, FileSteps
<1>2. /\ s[1] \in DOMAIN inode' /\ s[2] <= changes' /\ inode'[s[1]].kind = inode[s[1]].kind
      /\ inode'[s[1]].stamp = s[2] =>
           /\ inode[s[1]].stamp = s[2] /\ inode'[s[1]] = inode[s[1]]
           /\ \A p \in Places : at[p] = s[1] => at'[p] = s[1]
      BY <1>1, StatsGoStale
<1>3. Taken(capture.opened)'
      BY <1>1, <1>2 DEF Taken
<1>4. ASSUME Untouched(capture.opened)'
      PROVE  /\ at'[capture.target] = capture.fd
             /\ \A i \in 1 .. Len(capture.read) : capture.read[i] = inode'[capture.fd].bytes[i]
  <2>1. inode'[s[1]].stamp = s[2]
        BY <1>4 DEF Untouched
  <2>2. Untouched(capture.opened)
        BY <1>2, <2>1 DEF Untouched
  <2> QED  BY <1>1, <1>2, <2>1, <2>2
<1> QED  BY <1>1, <1>2, <1>3, <1>4 DEF ReadIsTheOpened

LEMMA OthersKeepTheBindings ==
  ASSUME TreeTyped, TreeMovesOn, capture \in CaptureRecord, BindingsDescribe, capture' = capture
  PROVE  BindingsDescribe' /\ \A b \in capture.bindings : Unbroken(b)' => Unbroken(b)
<1>1. ASSUME NEW b \in capture.bindings
      PROVE  /\ Taken(b.lexical)' /\ Taken(b.opened)' /\ inode'[b.opened[1]].kind = "file"
             /\ Unbroken(b)' =>
                  /\ Unbroken(b)
                  /\ at'[b.name] = b.lexical[1] /\ at'[b.target] = b.opened[1]
                  /\ b.target = TargetOf(b.lexical[1], b.name)'
                  /\ inode'[b.opened[1]].bytes = capture.files[b.name]
  <2>1. /\ Taken(b.lexical) /\ Taken(b.opened) /\ inode[b.opened[1]].kind = "file"
        /\ Unbroken(b) =>
             /\ at[b.name] = b.lexical[1] /\ at[b.target] = b.opened[1]
             /\ b.target = TargetOf(b.lexical[1], b.name)
             /\ inode[b.opened[1]].bytes = capture.files[b.name]
        BY DEF BindingsDescribe
  <2>2. b \in Bindings
        BY DEF CaptureRecord
  <2>3. b.name \in Places /\ b.target \in Places
        BY <2>2 DEF Bindings, Places
  <2> DEFINE x == b.lexical  y == b.opened
  <2>4. /\ x[1] \in DOMAIN inode' /\ x[2] <= changes' /\ inode'[x[1]].kind = inode[x[1]].kind
        /\ inode[x[1]].kind = "link" => inode'[x[1]].to = inode[x[1]].to
        /\ inode'[x[1]].stamp = x[2] =>
             /\ inode[x[1]].stamp = x[2]
             /\ \A p \in Places : at[p] = x[1] => at'[p] = x[1]
        BY <2>1, StatsGoStale
  <2>5. /\ y[1] \in DOMAIN inode' /\ y[2] <= changes' /\ inode'[y[1]].kind = inode[y[1]].kind
        /\ inode'[y[1]].stamp = y[2] =>
             /\ inode[y[1]].stamp = y[2] /\ inode'[y[1]] = inode[y[1]]
             /\ \A p \in Places : at[p] = y[1] => at'[p] = y[1]
        BY <2>1, StatsGoStale
  <2>6. Taken(b.lexical)' /\ Taken(b.opened)' /\ inode'[b.opened[1]].kind = "file"
        BY <2>1, <2>4, <2>5 DEF Taken
  <2>7. ASSUME Unbroken(b)'
        PROVE  /\ Unbroken(b)
               /\ at'[b.name] = b.lexical[1] /\ at'[b.target] = b.opened[1]
               /\ b.target = TargetOf(b.lexical[1], b.name)'
               /\ inode'[b.opened[1]].bytes = capture.files[b.name]
    <3>1. inode'[x[1]].stamp = x[2] /\ inode'[y[1]].stamp = y[2]
          BY <2>7 DEF Unbroken, Untouched
    <3>2. Unbroken(b)
          BY <2>4, <2>5, <3>1 DEF Unbroken, Untouched
    <3>3. TargetOf(b.lexical[1], b.name)' = TargetOf(b.lexical[1], b.name)
          BY <2>4 DEF TargetOf
    <3> QED  BY <2>1, <2>3, <2>4, <2>5, <3>1, <3>2, <3>3
  <2> QED  BY <2>6, <2>7
<1>2. \A b \in capture'.bindings :
        /\ b.name \in capture'.listing \ capture'.left /\ Taken(b.lexical)' /\ Taken(b.opened)'
        /\ inode'[b.opened[1]].kind = "file"
        /\ Unbroken(b)' =>
             /\ at'[b.name] = b.lexical[1] /\ at'[b.target] = b.opened[1]
             /\ b.target = TargetOf(b.lexical[1], b.name)'
             /\ inode'[b.opened[1]].bytes = capture'.files[b.name]
  <2>1. \A b \in capture.bindings : b.name \in capture.listing \ capture.left
        BY DEF BindingsDescribe
  <2> QED  BY <1>1, <2>1
<1>3. /\ capture'.left \subseteq capture'.listing /\ DOMAIN capture'.files = capture'.listing \ capture'.left
      /\ capture'.step \notin SecondSteps =>
           \A n \in capture'.listing \ capture'.left : \E b \in capture'.bindings : b.name = n
      BY DEF BindingsDescribe
<1>4. BindingsDescribe'
      BY <1>2, <1>3 DEF BindingsDescribe
<1> QED  BY <1>1, <1>4

LEMMA OthersKeepTheMoment ==
  ASSUME OneMomentIsLeft, capture' = capture, moments \subseteq moments',
         \A b \in capture.bindings : Unbroken(b)' => Unbroken(b)
  PROVE  OneMomentIsLeft'
<1> SUFFICES ASSUME capture.step \in SecondSteps  PROVE OneMomentIsLeft'
    BY DEF OneMomentIsLeft
<1>1. PICK m \in moments :
        /\ DOMAIN m = capture.listing
        /\ \A n \in capture.listing :
             m[n] = capture.files[n] \/ \E b \in capture.bindings : b.name = n /\ (Unbroken(b) => m[n] = capture.files[n])
      BY DEF OneMomentIsLeft
<1>2. m \in moments'
      BY <1>1
<1>3. \A n \in capture.listing :
        m[n] = capture.files[n] \/ \E b \in capture.bindings : b.name = n /\ (Unbroken(b)' => m[n] = capture.files[n])
      BY <1>1
<1>4. \E k \in moments' :
        /\ DOMAIN k = capture'.listing
        /\ \A n \in capture'.listing :
             k[n] = capture'.files[n] \/ \E b \in capture'.bindings : b.name = n /\ (Unbroken(b)' => k[n] = capture'.files[n])
      BY <1>1, <1>2, <1>3
<1> QED  BY <1>4 DEF OneMomentIsLeft

LEMMA OthersKeepTheCapture ==
  ASSUME TreeTyped, TreeTyped', TreeMovesOn, CaptureIsSound, capture' = capture,
         moments' = IF capture = NoCapture THEN moments ELSE moments \cup {Content'}
  PROVE  CaptureIsSound'
<1>1. CASE capture = NoCapture
      BY <1>1 DEF CaptureIsSound
<1>2. CASE capture # NoCapture
  <2>1. /\ capture \in CaptureRecord /\ FileIsTheSeen /\ ReadIsTheOpened /\ BindingsDescribe
        /\ OneMomentIsLeft /\ QuietCapture
        BY <1>2 DEF CaptureIsSound
  <2>2. FileIsTheSeen' /\ ReadIsTheOpened'
        BY <2>1, OthersKeepTheFile, OthersKeepTheRead
  <2>3. BindingsDescribe' /\ \A b \in capture.bindings : Unbroken(b)' => Unbroken(b)
        BY <2>1, OthersKeepTheBindings
  <2>4. OneMomentIsLeft'
        BY <1>2, <2>1, <2>3, OthersKeepTheMoment
  <2>5. QuietCapture'
    <3>1. capture.began \in Nat /\ capture.began <= changes /\ changes \in Nat /\ changes' = changes + 1
          BY <2>1 DEF QuietCapture, TreeMovesOn, TreeTyped, CaptureRecord
    <3>2. ~Undisturbed' /\ capture'.began <= changes'
          BY <3>1 DEF Undisturbed
    <3> QED  BY <3>2 DEF QuietCapture
  <2>6. Content' \in moments' /\ capture' \in CaptureRecord
        BY <1>2, <2>1
  <2> QED  BY <2>2, <2>3, <2>4, <2>5, <2>6 DEF CaptureIsSound
<1> QED  BY <1>1, <1>2

THEOREM OthersKeepSnapshots ==
  ASSUME SnapshotInvariant, OtherProcess
  PROVE  SnapshotInvariant'
<1> USE DEF SnapshotInvariant
<1>1. CASE RecaptureElsewhere
  <2>1. /\ at' = at /\ inode' = inode /\ directory' = directory /\ changes' = changes + 1
        /\ capture = NoCapture /\ capture' = NoCapture /\ config' = config /\ imported' = imported /\ moments' = moments
        /\ concluded' = concluded /\ external # Nothing
        BY <1>1 DEF RecaptureElsewhere
  <2>2. TreeTyped'
    <3>1. \A id \in DOMAIN inode : inode[id].stamp <= changes + 1
      <4>1. ASSUME NEW id \in DOMAIN inode  PROVE inode[id].stamp \in Nat
        <5>1. inode[id] \in InodeRecord
              BY ElementOfSeq, LenProperties DEF TreeTyped
        <5> QED  BY <5>1 DEF InodeRecord
      <4> QED  BY <4>1 DEF TreeTyped
    <3> QED  BY <2>1, <3>1 DEF TreeTyped
  <2>3. CaptureIsSound' /\ CampaignHasModel'
        BY <2>1 DEF CaptureIsSound, CampaignHasModel
  <2>4. SnapshotIsOfOneMoment'
        BY <2>1 DEF SnapshotIsOfOneMoment
  <2> QED  BY <2>2, <2>3, <2>4
<1>2. ASSUME TreeTyped', TreeMovesOn,
             moments' = IF capture = NoCapture THEN moments ELSE moments \cup {Content'},
             UNCHANGED << capture, captures, config, external, imported, concluded >>
      PROVE  SnapshotInvariant'
  <2>1. CaptureIsSound'
        BY <1>2, OthersKeepTheCapture
  <2>2. CampaignHasModel'
    <3>1. Content' \in Contents
          BY <1>2, ContentNext
    <3> QED  BY <1>2, <3>1 DEF CampaignHasModel
  <2>3. SnapshotIsOfOneMoment'
        BY <1>2 DEF SnapshotIsOfOneMoment
  <2> QED  BY <1>2, <2>1, <2>2, <2>3
<1>3. ASSUME NEW places, Disturb(places)
      PROVE  /\ moments' = IF capture = NoCapture THEN moments ELSE moments \cup {Content'}
             /\ UNCHANGED << capture, captures, config, external, imported, concluded >>
      BY <1>3 DEF Disturb
<1>4. ASSUME NEW id \in DOMAIN inode, NEW i \in 1 .. 2, Write(id, i)  PROVE SnapshotInvariant'
      BY <1>2, <1>3, <1>4, WriteMovesOn DEF Write
<1>5. ASSUME NEW p \in Places, Put(p, File(<< 1, 1 >>))  PROVE SnapshotInvariant'
  <2>1. File(<< 1, 1 >>) \in InodeRecord /\ File(<< 1, 1 >>).stamp = 0 /\ File(<< 1, 1 >>).kind = "file"
        BY DEF File, InodeRecord, Bytes
  <2>2. TreeTyped' /\ TreeMovesOn
        BY <1>5, <2>1, PutMovesOn
  <2> QED  BY <1>2, <1>3, <1>5, <2>2 DEF Put
<1>6. ASSUME NEW n \in Names, NEW b \in Blobs, Put(n, Link(b))  PROVE SnapshotInvariant'
  <2>1. Link(b) \in InodeRecord /\ Link(b).stamp = 0 /\ n \in Places /\ n \notin Blobs
        BY NothingIsNoValue DEF Link, InodeRecord, Places
  <2>2. TreeTyped' /\ TreeMovesOn
        BY <1>6, <2>1, PutMovesOn
  <2> QED  BY <1>2, <1>3, <1>6, <2>2 DEF Put
<1>7. ASSUME NEW p \in Places, Remove(p)  PROVE SnapshotInvariant'
      BY <1>2, <1>3, <1>7, RemoveMovesOn DEF Remove
<1>8. ASSUME NEW p \in Places, NEW q \in Places, Move(p, q)  PROVE SnapshotInvariant'
      BY <1>2, <1>3, <1>8, MoveMovesOn DEF Move
<1> QED  BY <1>1, <1>4, <1>5, <1>6, <1>7, <1>8 DEF OtherProcess

-----------------------------------------------------------------------------
(* What the capture does                                                   *)

\* A capture by its fields.
CaptureIs(c, s, l, d, e, n, t, f, o, r, h, b, w) ==
  /\ c \in CaptureRecord /\ c.step = s /\ c.listing = l /\ c.directory = d /\ c.left = e /\ c.seen = n
  /\ c.target = t /\ c.fd = f /\ c.opened = o /\ c.read = r /\ c.files = h /\ c.bindings = b /\ c.began = w

Steps == WalkSteps \cup FileSteps \cup SecondSteps

LEMMA CaptureGoes ==
  ASSUME capture \in CaptureRecord, NEW s \in Steps
  PROVE  CaptureIs([capture EXCEPT !.step = s], s, capture.listing, capture.directory, capture.left, capture.seen,
                   capture.target, capture.fd, capture.opened, capture.read, capture.files, capture.bindings, capture.began)
<1>1. [capture EXCEPT !.step = s] \in CaptureRecord
      BY Zenon DEF CaptureRecord, Steps
<1> QED  BY <1>1 DEF CaptureIs, CaptureRecord

LEMMA CaptureHasDirectory ==
  ASSUME capture \in CaptureRecord, NEW s \in Steps, NEW d \in Nat
  PROVE  CaptureIs([capture EXCEPT !.step = s, !.directory = d], s, capture.listing, d, capture.left, capture.seen,
                   capture.target, capture.fd, capture.opened, capture.read, capture.files, capture.bindings, capture.began)
<1>1. d \in Nat \cup {Nothing}
      OBVIOUS
<1>2. [capture EXCEPT !.step = s, !.directory = d] \in CaptureRecord
      BY <1>1, Zenon DEF CaptureRecord, Steps
<1> QED  BY <1>2 DEF CaptureIs, CaptureRecord

LEMMA CaptureHasSeen ==
  ASSUME capture \in CaptureRecord, NEW s \in Steps, NEW n \in Stats, NEW t \in Places
  PROVE  CaptureIs([capture EXCEPT !.step = s, !.seen = n, !.target = t, !.read = << >>],
                   s, capture.listing, capture.directory, capture.left, n, t, capture.fd, capture.opened,
                   << >>, capture.files, capture.bindings, capture.began)
<1>1. n \in Stats \cup {Nothing} /\ t \in Places \cup {Nothing} /\ << >> \in Seq(ChunkBytes)
      OBVIOUS
<1>2. [capture EXCEPT !.step = s, !.seen = n, !.target = t, !.read = << >>] \in CaptureRecord
      BY <1>1, Zenon DEF CaptureRecord, Steps
<1> QED  BY <1>2 DEF CaptureIs, CaptureRecord

LEMMA CaptureHasTarget ==
  ASSUME capture \in CaptureRecord, NEW s \in Steps, NEW t \in Places
  PROVE  CaptureIs([capture EXCEPT !.step = s, !.target = t],
                   s, capture.listing, capture.directory, capture.left, capture.seen, t, capture.fd, capture.opened,
                   capture.read, capture.files, capture.bindings, capture.began)
<1>1. t \in Places \cup {Nothing}
      OBVIOUS
<1>2. [capture EXCEPT !.step = s, !.target = t] \in CaptureRecord
      BY <1>1, Zenon DEF CaptureRecord, Steps
<1> QED  BY <1>2 DEF CaptureIs, CaptureRecord

LEMMA CaptureHasOpened ==
  ASSUME capture \in CaptureRecord, NEW s \in Steps, NEW f \in Nat, NEW o \in Stats
  PROVE  CaptureIs([capture EXCEPT !.step = s, !.fd = f, !.opened = o],
                   s, capture.listing, capture.directory, capture.left, capture.seen, capture.target, f, o,
                   capture.read, capture.files, capture.bindings, capture.began)
<1>1. f \in Nat \cup {Nothing} /\ o \in Stats \cup {Nothing}
      OBVIOUS
<1>2. [capture EXCEPT !.step = s, !.fd = f, !.opened = o] \in CaptureRecord
      BY <1>1, Zenon DEF CaptureRecord, Steps
<1> QED  BY <1>2 DEF CaptureIs, CaptureRecord

LEMMA CaptureHasRead ==
  ASSUME capture \in CaptureRecord, NEW s \in Steps, NEW r \in Seq(ChunkBytes)
  PROVE  CaptureIs([capture EXCEPT !.read = r, !.step = s],
                   s, capture.listing, capture.directory, capture.left, capture.seen, capture.target, capture.fd,
                   capture.opened, r, capture.files, capture.bindings, capture.began)
<1>1. [capture EXCEPT !.read = r, !.step = s] \in CaptureRecord
      BY Zenon DEF CaptureRecord, Steps
<1> QED  BY <1>1 DEF CaptureIs, CaptureRecord

LEMMA CaptureHasBindings ==
  ASSUME capture \in CaptureRecord, NEW b \in SUBSET Bindings
  PROVE  CaptureIs([capture EXCEPT !.bindings = b],
                   capture.step, capture.listing, capture.directory, capture.left, capture.seen, capture.target,
                   capture.fd, capture.opened, capture.read, capture.files, b, capture.began)
<1>1. [capture EXCEPT !.bindings = b] \in CaptureRecord
      BY Zenon DEF CaptureRecord
<1> QED  BY <1>1 DEF CaptureIs, CaptureRecord

LEMMA CaptureHasFile ==
  ASSUME capture \in CaptureRecord, NEW s \in Steps, NEW e \in SUBSET Names, NEW h \in HashedFiles,
         NEW b \in SUBSET Bindings
  PROVE  CaptureIs([capture EXCEPT !.step = s, !.left = e, !.files = h, !.bindings = b],
                   s, capture.listing, capture.directory, e, capture.seen, capture.target, capture.fd,
                   capture.opened, capture.read, h, b, capture.began)
<1>1. [capture EXCEPT !.step = s, !.left = e, !.files = h, !.bindings = b] \in CaptureRecord
      BY Zenon DEF CaptureRecord, Steps
<1> QED  BY <1>1 DEF CaptureIs, CaptureRecord

LEMMA TreeIsStill ==
  ASSUME UNCHANGED tree
  PROVE  /\ at' = at /\ inode' = inode /\ directory' = directory /\ changes' = changes
         /\ Content' = Content /\ Listing' = Listing /\ (TreeTyped => TreeTyped')
<1>1. at' = at /\ inode' = inode /\ directory' = directory /\ changes' = changes
      BY DEF tree
<1>2. Content' = Content
      BY <1>1, Zenon DEF Content, Follow
<1>3. Listing' = Listing
      BY <1>1 DEF Listing
<1>4. TreeTyped => TreeTyped'
      BY <1>1 DEF TreeTyped
<1> QED  BY <1>1, <1>2, <1>3, <1>4

LEMMA CaptureWorks ==
  ASSUME SnapshotInvariant, capture.step # "idle"
  PROVE  /\ TreeTyped /\ capture # NoCapture /\ capture \in CaptureRecord /\ Content \in moments /\ moments \subseteq Contents
         /\ FileIsTheSeen /\ ReadIsTheOpened /\ BindingsDescribe /\ OneMomentIsLeft /\ QuietCapture
<1>1. capture # NoCapture
      BY DEF NoCapture
<1> QED  BY <1>1 DEF SnapshotInvariant, CaptureIsSound, CampaignHasModel

\* The file in hand stays the same between its lstat and the next file.
LEMMA FileStays ==
  ASSUME FileIsTheSeen, UNCHANGED tree, capture'.left = capture.left, capture'.seen = capture.seen,
         capture'.target = capture.target, capture.step \in FileSteps, capture.step # "readlink",
         capture'.step \notin SeenSteps
  PROVE  FileIsTheSeen'
<1>1. at' = at /\ inode' = inode /\ changes' = changes
      BY DEF tree
<1>2. FileInHand' = FileInHand
      BY DEF FileInHand
<1>3. /\ FileInHand \in capture.left /\ Taken(capture.seen) /\ capture.target \in Places
      /\ Untouched(capture.seen) =>
           /\ at[FileInHand] = capture.seen[1]
           /\ capture.target = TargetOf(capture.seen[1], FileInHand)
      BY DEF FileIsTheSeen
<1>4. /\ Taken(capture.seen)' /\ (Untouched(capture.seen)' => Untouched(capture.seen))
      /\ TargetOf(capture.seen[1], FileInHand)' = TargetOf(capture.seen[1], FileInHand)
      BY <1>1, <1>2, <1>3 DEF Taken, Untouched, TargetOf
<1>5. capture'.step # "readlink"
      BY DEF SeenSteps
<1> QED  BY <1>1, <1>2, <1>3, <1>4, <1>5 DEF FileIsTheSeen

LEMMA BindingsStay ==
  ASSUME BindingsDescribe, UNCHANGED tree, capture'.left = capture.left, capture'.listing = capture.listing,
         capture'.files = capture.files, capture'.bindings \subseteq capture.bindings,
         capture'.step \notin SecondSteps => capture.step \notin SecondSteps /\ capture'.bindings = capture.bindings
  PROVE  BindingsDescribe'
<1>1. at' = at /\ inode' = inode /\ changes' = changes
      BY DEF tree
<1>2. ASSUME NEW b \in capture'.bindings
      PROVE  /\ b.name \in capture'.listing \ capture'.left /\ Taken(b.lexical)' /\ Taken(b.opened)'
             /\ inode'[b.opened[1]].kind = "file"
             /\ Unbroken(b)' =>
                  /\ at'[b.name] = b.lexical[1] /\ at'[b.target] = b.opened[1]
                  /\ b.target = TargetOf(b.lexical[1], b.name)'
                  /\ inode'[b.opened[1]].bytes = capture'.files[b.name]
  <2>1. b \in capture.bindings
        BY <1>2
  <2> QED  BY <1>1, <2>1 DEF BindingsDescribe, Taken, Unbroken, Untouched, TargetOf
<1>3. /\ capture'.left \subseteq capture'.listing /\ DOMAIN capture'.files = capture'.listing \ capture'.left
      /\ capture'.step \notin SecondSteps =>
           \A n \in capture'.listing \ capture'.left : \E b \in capture'.bindings : b.name = n
      BY DEF BindingsDescribe
<1> QED  BY <1>2, <1>3 DEF BindingsDescribe

LEMMA MomentStays ==
  ASSUME OneMomentIsLeft, UNCHANGED tree, moments' = moments, capture'.left = capture.left,
         capture'.listing = capture.listing, capture'.files = capture.files, capture'.bindings = capture.bindings,
         capture'.step \in SecondSteps => capture.step \in SecondSteps,
         capture'.step = "complete" => capture.bindings = {}
  PROVE  OneMomentIsLeft'
<1> SUFFICES ASSUME capture.step \in SecondSteps  PROVE OneMomentIsLeft'
    BY DEF OneMomentIsLeft
<1>1. inode' = inode
      BY DEF tree
<1>2. PICK m \in moments :
        /\ DOMAIN m = capture.listing
        /\ \A n \in capture.listing :
             m[n] = capture.files[n] \/ \E b \in capture.bindings : b.name = n /\ (Unbroken(b) => m[n] = capture.files[n])
      BY DEF OneMomentIsLeft
<1>3. \A b : Unbroken(b)' <=> Unbroken(b)
      BY <1>1 DEF Unbroken, Untouched
<1>4. \E k \in moments' :
        /\ DOMAIN k = capture'.listing
        /\ \A n \in capture'.listing :
             k[n] = capture'.files[n] \/ \E b \in capture'.bindings : b.name = n /\ (Unbroken(b)' => k[n] = capture'.files[n])
      BY <1>2, <1>3
<1> QED  BY <1>4 DEF OneMomentIsLeft

LEMMA QuietStays ==
  ASSUME QuietCapture, UNCHANGED tree, moments' = moments, capture'.listing = capture.listing,
         capture'.began = capture.began,
         Undisturbed =>
           /\ capture'.step # "stat directory" => capture'.directory = directory
           /\ capture'.step \in FileSteps => Untouched(capture'.seen)
           /\ capture'.step \in OpenSteps => Untouched(capture'.opened)
           /\ \A b \in capture'.bindings : b \in capture.bindings \/ Unbroken(b)
  PROVE  QuietCapture'
<1>1. inode' = inode /\ directory' = directory /\ changes' = changes /\ Content' = Content /\ Listing' = Listing
      BY TreeIsStill
<1>2. Undisturbed' <=> Undisturbed
      BY <1>1 DEF Undisturbed
<1>3. \A b : Unbroken(b)' <=> Unbroken(b)
      BY <1>1 DEF Unbroken, Untouched
<1>4. ASSUME Undisturbed
      PROVE  /\ moments' = {Content'} /\ capture'.listing = Listing'
             /\ capture'.step # "stat directory" => capture'.directory = directory'
             /\ capture'.step \in FileSteps => Untouched(capture.seen)'
             /\ capture'.step \in OpenSteps => Untouched(capture.opened)'
             /\ \A b \in capture'.bindings : Unbroken(b)'
  <2>1. moments = {Content} /\ capture.listing = Listing /\ \A b \in capture.bindings : Unbroken(b)
        BY <1>4 DEF QuietCapture
  <2>2. \A b \in capture'.bindings : Unbroken(b)'
        BY <1>3, <1>4, <2>1
  <2>3. /\ capture'.step \in FileSteps => Untouched(capture.seen)'
        /\ capture'.step \in OpenSteps => Untouched(capture.opened)'
        BY <1>1, <1>4 DEF Untouched
  <2> QED  BY <1>1, <1>4, <2>1, <2>2, <2>3
<1>5. capture'.began <= changes'
      BY <1>1 DEF QuietCapture
<1> QED  BY <1>2, <1>4, <1>5 DEF QuietCapture

\* Why a capture that nothing disturbed is refused.
NothingToCapture == \E c \in moments : c = << >> \/ (\E n \in DOMAIN c : c[n] = Nothing)

LEMMA CaptureRefuses ==
  ASSUME SnapshotInvariant, Look, Refuse, Undisturbed => NothingToCapture
  PROVE  SnapshotInvariant'
<1>1. TreeTyped' /\ moments' = moments /\ config' = config /\ external' = external /\ imported' = imported
      BY TreeIsStill DEF SnapshotInvariant, Look, Refuse
<1>2. CaptureIsSound' /\ CampaignHasModel'
      BY <1>1 DEF SnapshotInvariant, CaptureIsSound, CampaignHasModel, Refuse
<1>3. SnapshotIsOfOneMoment'
  <2>1. concluded' = [purpose |-> "capture", ok |-> FALSE, quiet |-> Undisturbed]
        BY DEF Refuse
  <2>2. concluded'.ok = FALSE /\ concluded'.quiet = Undisturbed
        BY <2>1
  <2>3. ~concluded'.quiet \/ \E c \in moments' : c = << >> \/ (\E n \in DOMAIN c : c[n] = Nothing)
        BY <1>1, <2>2 DEF NothingToCapture
  <2> QED  BY <2>2, <2>3 DEF SnapshotIsOfOneMoment
<1> QED  BY <1>1, <1>2, <1>3 DEF SnapshotInvariant

LEMMA CaptureGoesOn ==
  ASSUME SnapshotInvariant, Look, Aside, capture' \in CaptureRecord, Content \in moments,
         FileIsTheSeen', ReadIsTheOpened', BindingsDescribe', OneMomentIsLeft', QuietCapture'
  PROVE  SnapshotInvariant'
<1>1. /\ TreeTyped' /\ Content' = Content /\ moments' = moments
      /\ config' = config /\ external' = external /\ imported' = imported
      BY TreeIsStill DEF SnapshotInvariant, Look, Aside
<1>2. CaptureIsSound'
      BY <1>1 DEF CaptureIsSound
<1>3. CampaignHasModel'
      BY <1>1 DEF SnapshotInvariant, CampaignHasModel
<1>4. capture' # NoCapture
  <2>1. capture'.step \in WalkSteps \cup FileSteps \cup SecondSteps
        BY DEF CaptureRecord
  <2>2. capture'.step # "idle" /\ NoCapture.step = "idle"
        BY <2>1 DEF NoCapture, WalkSteps, FileSteps, SeenSteps, OpenSteps, SecondSteps
  <2> QED  BY <2>2
<1>5. SnapshotIsOfOneMoment'
      BY <1>4 DEF SnapshotIsOfOneMoment
<1> QED  BY <1>1, <1>2, <1>3, <1>5 DEF SnapshotInvariant

LEMMA StepsAre ==
  /\ WalkSteps \cup SeenSteps \cup OpenSteps \cup SecondSteps = Steps
  /\ \A s \in WalkSteps : s \notin FileSteps /\ s \notin SecondSteps
  /\ \A s \in SeenSteps : s \in FileSteps /\ s \notin OpenSteps /\ s \notin SecondSteps
  /\ \A s \in OpenSteps : s \in FileSteps /\ s \notin SeenSteps /\ s \notin SecondSteps
  /\ \A s \in SecondSteps : s \notin FileSteps
BY DEF Steps, WalkSteps, FileSteps, SeenSteps, OpenSteps, SecondSteps

LEMMA StepsStartCapture ==
  ASSUME SnapshotInvariant, StartCapture
  PROVE  SnapshotInvariant'
<1>1. /\ TreeTyped /\ changes \in Nat /\ UNCHANGED tree /\ Aside /\ moments' = {Content}
      /\ capture' = [ step |-> "stat directory", listing |-> Listing, directory |-> Nothing,
                      left |-> Listing, seen |-> Nothing, target |-> Nothing, fd |-> Nothing, opened |-> Nothing,
                      read |-> << >>, files |-> << >>, bindings |-> {}, began |-> changes ]
      BY DEF StartCapture, SnapshotInvariant, TreeTyped
<1>2. /\ capture'.step = "stat directory" /\ capture'.listing = Listing /\ capture'.left = Listing
      /\ capture'.files = << >> /\ capture'.bindings = {} /\ capture'.began = changes
      BY <1>1
<1>3. /\ TreeTyped' /\ inode' = inode /\ changes' = changes /\ Content' = Content /\ Listing' = Listing
      BY <1>1, TreeIsStill
<1>4. << >> \in HashedFiles /\ DOMAIN << >> = {}
  <2>1. << >> \in [{} -> Bytes]
        OBVIOUS
  <2>2. [{} -> Bytes] \in { [names -> Bytes] : names \in SUBSET Names }
        OBVIOUS
  <2> QED  BY <2>1, <2>2 DEF HashedFiles
<1>5. capture' \in CaptureRecord
  <2>1. Listing \in SUBSET Names /\ << >> \in Seq(ChunkBytes) /\ "stat directory" \in WalkSteps \cup FileSteps \cup SecondSteps
        BY DEF Listing, WalkSteps
  <2> QED  BY <1>1, <1>4, <2>1 DEF CaptureRecord
<1>6. capture'.step \notin FileSteps /\ capture'.step \notin OpenSteps /\ capture'.step \notin SecondSteps
      BY <1>2 DEF FileSteps, SeenSteps, OpenSteps, SecondSteps
<1>7. FileIsTheSeen' /\ ReadIsTheOpened' /\ OneMomentIsLeft'
      BY <1>6 DEF FileIsTheSeen, ReadIsTheOpened, OneMomentIsLeft
<1>8. BindingsDescribe'
      BY <1>2, <1>4 DEF BindingsDescribe
<1>9. QuietCapture'
  <2>1. moments' = {Content'} /\ capture'.listing = Listing'
        BY <1>1, <1>2, <1>3
  <2>2. changes \in Nat /\ capture'.began = changes /\ changes' = changes
        BY <1>1, <1>2, <1>3
  <2>3. capture'.began <= changes'
        BY <2>2
  <2>4. \A b \in capture'.bindings : Unbroken(b)'
        BY <1>2
  <2> QED  BY <1>2, <1>6, <2>1, <2>3, <2>4, Zenon DEF QuietCapture
<1>10. CaptureIsSound'
      BY <1>1, <1>3, <1>5, <1>7, <1>8, <1>9 DEF CaptureIsSound
<1>11. CampaignHasModel'
      BY <1>1, ContentIs DEF CampaignHasModel, SnapshotInvariant, Aside
<1>12. capture' # NoCapture
  <2>1. capture'.step # NoCapture.step
        BY <1>2 DEF NoCapture
  <2> QED  BY <2>1
<1>13. SnapshotIsOfOneMoment'
      BY <1>12 DEF SnapshotIsOfOneMoment
<1> QED  BY <1>3, <1>10, <1>11, <1>13 DEF SnapshotInvariant

LEMMA StepsStatDirectory ==
  ASSUME SnapshotInvariant, StatDirectory
  PROVE  SnapshotInvariant'
<1>1. /\ capture.step = "stat directory" /\ Look /\ Aside /\ UNCHANGED tree /\ moments' = moments
      /\ capture' = [capture EXCEPT !.step = "lstat", !.directory = directory]
      BY DEF StatDirectory, Look
<1>2. /\ TreeTyped /\ capture \in CaptureRecord /\ Content \in moments /\ BindingsDescribe /\ QuietCapture
      BY <1>1, CaptureWorks
<1>3. "lstat" \in Steps /\ directory \in Nat
      BY <1>2 DEF Steps, WalkSteps, TreeTyped
<1>4. CaptureIs(capture', "lstat", capture.listing, directory, capture.left, capture.seen,
                capture.target, capture.fd, capture.opened, capture.read, capture.files, capture.bindings, capture.began)
      BY <1>1, <1>2, <1>3, CaptureHasDirectory
<1>5. /\ capture' \in CaptureRecord /\ capture'.step = "lstat" /\ capture'.listing = capture.listing
      /\ capture'.left = capture.left /\ capture'.files = capture.files /\ capture'.bindings = capture.bindings
      /\ capture'.began = capture.began /\ capture'.directory = directory
      BY <1>4 DEF CaptureIs
<1>6. "lstat" \notin FileSteps /\ "lstat" \notin OpenSteps /\ "lstat" \notin SecondSteps /\ capture.step \notin SecondSteps
      BY <1>1 DEF FileSteps, SeenSteps, OpenSteps, SecondSteps
<1>7. FileIsTheSeen' /\ ReadIsTheOpened' /\ OneMomentIsLeft'
      BY <1>5, <1>6 DEF FileIsTheSeen, ReadIsTheOpened, OneMomentIsLeft
<1>8. BindingsDescribe' /\ QuietCapture'
      BY <1>1, <1>2, <1>5, <1>6, BindingsStay, QuietStays
<1> QED  BY <1>1, <1>2, <1>5, <1>7, <1>8, CaptureGoesOn

\* While a capture is not disturbed, what it has in hand is there.
LEMMA QuietFile ==
  ASSUME SnapshotInvariant, capture.step # "idle", Undisturbed
  PROVE  /\ moments = {Content} /\ capture.listing = Listing /\ \A b \in capture.bindings : Unbroken(b)
         /\ \A n \in capture.left : at[n] # Nothing
         /\ capture.step # "stat directory" => capture.directory = directory
         /\ capture.step \in FileSteps =>
              /\ Untouched(capture.seen) /\ at[FileInHand] = capture.seen[1]
              /\ capture.step # "readlink" => capture.target = TargetOf(capture.seen[1], FileInHand)
         /\ capture.step \in OpenSteps =>
              /\ Untouched(capture.opened) /\ at[capture.target] = capture.fd /\ capture.fd = capture.opened[1]
<1>1. /\ FileIsTheSeen /\ ReadIsTheOpened /\ BindingsDescribe /\ QuietCapture
      BY CaptureWorks
<1>2. /\ moments = {Content} /\ capture.listing = Listing /\ \A b \in capture.bindings : Unbroken(b)
      /\ capture.step # "stat directory" => capture.directory = directory
      /\ capture.step \in FileSteps => Untouched(capture.seen)
      /\ capture.step \in OpenSteps => Untouched(capture.opened)
      BY <1>1 DEF QuietCapture
<1>3. \A n \in capture.left : at[n] # Nothing
      BY <1>1, <1>2 DEF BindingsDescribe, Listing
<1>4. capture.step \in FileSteps =>
        /\ at[FileInHand] = capture.seen[1]
        /\ capture.step # "readlink" => capture.target = TargetOf(capture.seen[1], FileInHand)
      BY <1>1, <1>2 DEF FileIsTheSeen
<1>5. capture.step \in OpenSteps => at[capture.target] = capture.fd /\ capture.fd = capture.opened[1]
      BY <1>1, <1>2 DEF ReadIsTheOpened
<1> QED  BY <1>2, <1>3, <1>4, <1>5

LEMMA StatIsTaken ==
  ASSUME TreeTyped, NEW p \in Places, at[p] # Nothing
  PROVE  /\ at[p] \in DOMAIN inode /\ at[p] \in Nat /\ StatOf(at[p]) \in Stats /\ Taken(StatOf(at[p]))
         /\ Untouched(StatOf(at[p])) /\ StatOf(at[p])[1] = at[p] /\ inode[at[p]] \in InodeRecord
<1>1. at[p] \in DOMAIN inode /\ inode[at[p]] \in InodeRecord
      BY LinksLeadToFiles
<1>2. at[p] \in Nat
      BY <1>1, LenProperties DEF TreeTyped
<1>3. inode[at[p]].stamp \in Nat /\ inode[at[p]].stamp <= changes
      BY <1>1 DEF InodeRecord, TreeTyped
<1> QED  BY <1>1, <1>2, <1>3 DEF StatOf, Stats, Taken, Untouched

LEMMA StepsLstatFile ==
  ASSUME SnapshotInvariant, LstatFile
  PROVE  SnapshotInvariant'
<1>1. /\ capture.step = "lstat" /\ capture.left # {} /\ Look /\ UNCHANGED tree /\ moments' = moments
      BY DEF LstatFile, Look
<1>2. /\ TreeTyped /\ capture \in CaptureRecord /\ Content \in moments /\ BindingsDescribe /\ QuietCapture
      BY <1>1, CaptureWorks
<1>3. FileInHand \in capture.left /\ FileInHand \in Places
  <2>1. capture.left \in SUBSET Names /\ capture.left \in SUBSET Nat
        BY <1>2, NothingIsNoValue DEF CaptureRecord
  <2>2. FileInHand \in capture.left
        BY <1>1, <2>1, FileInHandIsLeft
  <2> QED  BY <2>1, <2>2 DEF Places
<1>4. CASE at[FileInHand] = Nothing
  <2>1. Refuse
        BY <1>4 DEF LstatFile
  <2>2. ~Undisturbed
        BY <1>1, <1>3, <1>4, QuietFile
  <2> QED  BY <1>1, <2>1, <2>2, CaptureRefuses
<1>5. CASE at[FileInHand] # Nothing
  <2> DEFINE id == at[FileInHand]  s == IF inode[id].kind = "link" THEN "readlink" ELSE "open"
  <2>1. /\ Aside
        /\ capture' = [ capture EXCEPT !.step = s, !.seen = StatOf(id), !.target = FileInHand, !.read = << >> ]
        BY <1>5 DEF LstatFile
  <2>2. /\ id \in DOMAIN inode /\ StatOf(id) \in Stats /\ Taken(StatOf(id)) /\ Untouched(StatOf(id)) /\ StatOf(id)[1] = id
        BY <1>2, <1>3, <1>5, StatIsTaken
  <2>3. s \in Steps /\ s \in SeenSteps
        BY DEF Steps, FileSteps, SeenSteps
  <2>4. CaptureIs(capture', s, capture.listing, capture.directory, capture.left, StatOf(id), FileInHand,
                  capture.fd, capture.opened, << >>, capture.files, capture.bindings, capture.began)
        BY <1>2, <1>3, <2>1, <2>2, <2>3, CaptureHasSeen
  <2>5. /\ capture' \in CaptureRecord /\ capture'.step = s /\ capture'.listing = capture.listing
        /\ capture'.left = capture.left /\ capture'.files = capture.files /\ capture'.bindings = capture.bindings
        /\ capture'.began = capture.began /\ capture'.directory = capture.directory
        /\ capture'.seen = StatOf(id) /\ capture'.target = FileInHand /\ capture'.read = << >>
        BY <2>4 DEF CaptureIs
  <2>6. FileInHand' = FileInHand
        BY <2>5 DEF FileInHand
  <2>7. s \notin OpenSteps /\ s \notin SecondSteps /\ capture.step \notin SecondSteps /\ s # "stat directory"
        BY <1>1 DEF OpenSteps, SecondSteps
  <2>8. /\ at' = at /\ inode' = inode /\ changes' = changes
        BY <1>1, TreeIsStill
  <2>9. FileIsTheSeen'
    <3>1. Taken(capture.seen)'
          BY <2>2, <2>5, <2>8 DEF Taken
    <3>2. s = "readlink" => inode'[StatOf(id)[1]].kind = "link"
          BY <2>2, <2>8
    <3>3. s # "readlink" => capture'.target = TargetOf(capture.seen[1], FileInHand)'
          BY <2>2, <2>5, <2>6, <2>8 DEF TargetOf
    <3>4. at'[FileInHand'] = capture'.seen[1]
          BY <2>2, <2>5, <2>6, <2>8
    <3> HIDE DEF s
    <3> QED  BY <1>3, <2>5, <2>6, <3>1, <3>2, <3>3, <3>4 DEF FileIsTheSeen
  <2>10. ReadIsTheOpened' /\ OneMomentIsLeft'
        BY <2>5, <2>7 DEF ReadIsTheOpened, OneMomentIsLeft
  <2>11. BindingsDescribe'
        BY <1>1, <1>2, <2>5, <2>7, BindingsStay
  <2>12. QuietCapture'
    <3>1. Undisturbed => capture'.directory = directory /\ Untouched(capture'.seen)
          BY <1>1, <2>2, <2>5, QuietFile
    <3> QED  BY <1>1, <1>2, <2>5, <2>7, <3>1, QuietStays
  <2> QED  BY <1>1, <1>2, <2>1, <2>5, <2>9, <2>10, <2>11, <2>12, CaptureGoesOn
<1> QED  BY <1>4, <1>5

LEMMA StepsReadlink ==
  ASSUME SnapshotInvariant, Readlink
  PROVE  SnapshotInvariant'
<1>1. /\ capture.step = "readlink" /\ Look /\ UNCHANGED tree /\ moments' = moments
      BY DEF Readlink, Look
<1>2. /\ TreeTyped /\ capture \in CaptureRecord /\ Content \in moments
      /\ FileIsTheSeen /\ BindingsDescribe /\ QuietCapture
      BY <1>1, CaptureWorks
<1>3. "readlink" \in FileSteps /\ "readlink" \in SeenSteps /\ "readlink" \notin OpenSteps /\ "readlink" \notin SecondSteps
      BY DEF FileSteps, SeenSteps, OpenSteps, SecondSteps
<1>4. /\ FileInHand \in capture.left /\ FileInHand \in Places /\ Taken(capture.seen) /\ inode[capture.seen[1]].kind = "link"
      /\ Untouched(capture.seen) => at[FileInHand] = capture.seen[1]
      /\ capture.read = << >>
      BY <1>1, <1>2, <1>3 DEF FileIsTheSeen, CaptureRecord, Places
<1>5. CASE at[FileInHand] = Nothing \/ inode[at[FileInHand]].kind # "link"
  <2>1. Refuse
        BY <1>5 DEF Readlink
  <2>2. ~Undisturbed
        BY <1>1, <1>3, <1>4, <1>5, QuietFile
  <2> QED  BY <1>1, <2>1, <2>2, CaptureRefuses
<1>6. CASE at[FileInHand] # Nothing /\ inode[at[FileInHand]].kind = "link"
  <2> DEFINE t == inode[at[FileInHand]].to
  <2>1. /\ Aside /\ capture' = [capture EXCEPT !.step = "open", !.target = t]
        BY <1>6 DEF Readlink
  <2>2. t \in Places
        BY <1>2, <1>4, <1>6, LinksLeadToFiles DEF InodeRecord, Places
  <2>3. "open" \in Steps /\ "open" \in SeenSteps /\ "open" \in FileSteps /\ "open" \notin OpenSteps /\ "open" \notin SecondSteps
        BY DEF Steps, FileSteps, SeenSteps, OpenSteps, SecondSteps
  <2>4. CaptureIs(capture', "open", capture.listing, capture.directory, capture.left, capture.seen, t,
                  capture.fd, capture.opened, capture.read, capture.files, capture.bindings, capture.began)
        BY <1>2, <2>1, <2>2, <2>3, CaptureHasTarget
  <2>5. /\ capture' \in CaptureRecord /\ capture'.step = "open" /\ capture'.listing = capture.listing
        /\ capture'.left = capture.left /\ capture'.files = capture.files /\ capture'.bindings = capture.bindings
        /\ capture'.began = capture.began /\ capture'.directory = capture.directory
        /\ capture'.seen = capture.seen /\ capture'.target = t /\ capture'.read = capture.read
        BY <2>4 DEF CaptureIs
  <2>6. FileInHand' = FileInHand
        BY <2>5 DEF FileInHand
  <2>7. /\ at' = at /\ inode' = inode /\ changes' = changes
        BY <1>1, TreeIsStill
  <2>8. FileIsTheSeen'
    <3>1. Taken(capture.seen)'
          BY <1>4, <2>5, <2>7 DEF Taken
    <3>2. ASSUME Untouched(capture.seen)'
          PROVE  /\ at'[FileInHand'] = capture'.seen[1]
                 /\ capture'.target = TargetOf(capture.seen[1], FileInHand)'
      <4>1. Untouched(capture.seen)
            BY <2>5, <2>7, <3>2 DEF Untouched
      <4> QED  BY <1>4, <2>5, <2>6, <2>7, <4>1 DEF TargetOf
    <3> HIDE DEF t
    <3> QED  BY <1>4, <2>2, <2>5, <2>6, <3>1, <3>2 DEF FileIsTheSeen
  <2>9. ReadIsTheOpened' /\ OneMomentIsLeft'
        BY <2>3, <2>5 DEF ReadIsTheOpened, OneMomentIsLeft
  <2>10. BindingsDescribe'
        BY <1>1, <1>2, <1>3, <2>3, <2>5, BindingsStay
  <2>11. QuietCapture'
    <3>1. Undisturbed => capture'.directory = directory /\ Untouched(capture'.seen)
          BY <1>1, <1>3, <2>5, QuietFile
    <3> QED  BY <1>1, <1>2, <2>3, <2>5, <3>1, QuietStays
  <2> QED  BY <1>1, <1>2, <2>1, <2>5, <2>8, <2>9, <2>10, <2>11, CaptureGoesOn
<1> QED  BY <1>5, <1>6

LEMMA StepsOpenTarget ==
  ASSUME SnapshotInvariant, OpenTarget
  PROVE  SnapshotInvariant'
<1> DEFINE id == at[capture.target]
<1>1. /\ capture.step = "open" /\ Look /\ UNCHANGED tree /\ moments' = moments
      BY DEF OpenTarget, Look
<1>2. /\ TreeTyped /\ capture \in CaptureRecord /\ Content \in moments /\ Content \in Contents
      /\ FileIsTheSeen /\ BindingsDescribe /\ QuietCapture
      BY <1>1, CaptureWorks
<1>3. "open" \in FileSteps /\ "open" \in SeenSteps /\ "open" \notin OpenSteps /\ "open" \notin SecondSteps
      BY DEF FileSteps, SeenSteps, OpenSteps, SecondSteps
<1>4. /\ FileInHand \in capture.left /\ FileInHand \in Names /\ Taken(capture.seen) /\ capture.target \in Places
      /\ Untouched(capture.seen) => /\ at[FileInHand] = capture.seen[1]
                                  /\ capture.target = TargetOf(capture.seen[1], FileInHand)
      /\ capture.read = << >>
      BY <1>1, <1>2, <1>3 DEF FileIsTheSeen, CaptureRecord
<1>5. CASE id = Nothing \/ (id # Nothing /\ inode[id].kind = "link")
  <2>1. Refuse
        BY <1>5 DEF OpenTarget
  <2>2. ASSUME Undisturbed
        PROVE  NothingToCapture
    <3>1. /\ moments = {Content} /\ FileInHand \in Listing /\ at[FileInHand] # Nothing
          /\ at[FileInHand] = capture.seen[1] /\ capture.target = TargetOf(capture.seen[1], FileInHand)
          BY <1>1, <1>3, <1>4, <2>2, QuietFile DEF Listing
    <3>2. CASE inode[at[FileInHand]].kind = "link"
      <4>1. capture.target = inode[at[FileInHand]].to /\ Follow(at, FileInHand) = id /\ capture.target \in Blobs
        <5>1. inode[at[FileInHand]] \in InodeRecord
              BY <1>2, <1>4, <3>1, LinksLeadToFiles DEF Places
        <5> QED  BY <3>1, <3>2, <5>1 DEF TargetOf, Follow, InodeRecord
      <4>2. id = Nothing
        <5>1. id # Nothing => inode[id].kind = "file"
              BY <1>2, <4>1 DEF TreeTyped
        <5> QED  BY <1>5, <5>1
      <4>3. Content[FileInHand] = Nothing /\ FileInHand \in DOMAIN Content
            BY <1>2, <3>1, <4>1, <4>2, ContentIs
      <4> QED  BY <3>1, <4>3 DEF NothingToCapture
    <3>3. CASE inode[at[FileInHand]].kind # "link"
      <4>1. capture.target = FileInHand
            BY <3>1, <3>3 DEF TargetOf
      <4> QED  BY <1>5, <3>1, <3>3, <4>1
    <3> QED  BY <3>2, <3>3
  <2> QED  BY <1>1, <2>1, <2>2, CaptureRefuses
<1>6. CASE id # Nothing /\ inode[id].kind # "link"
  <2>1. /\ Aside /\ capture' = [capture EXCEPT !.step = "read", !.fd = id, !.opened = StatOf(id)]
        BY <1>6 DEF OpenTarget
  <2>2. /\ id \in DOMAIN inode /\ id \in Nat /\ StatOf(id) \in Stats /\ Taken(StatOf(id)) /\ Untouched(StatOf(id))
        /\ StatOf(id)[1] = id /\ inode[id].kind = "file"
        BY <1>2, <1>4, <1>6, StatIsTaken DEF InodeRecord
  <2>3. "read" \in Steps /\ "read" \in OpenSteps /\ "read" \in FileSteps /\ "read" \notin SeenSteps /\ "read" \notin SecondSteps
        BY DEF Steps, FileSteps, SeenSteps, OpenSteps, SecondSteps
  <2>4. CaptureIs(capture', "read", capture.listing, capture.directory, capture.left, capture.seen, capture.target,
                  id, StatOf(id), capture.read, capture.files, capture.bindings, capture.began)
        BY <1>2, <2>1, <2>2, <2>3, CaptureHasOpened
  <2>5. /\ capture' \in CaptureRecord /\ capture'.step = "read" /\ capture'.listing = capture.listing
        /\ capture'.left = capture.left /\ capture'.files = capture.files /\ capture'.bindings = capture.bindings
        /\ capture'.began = capture.began /\ capture'.directory = capture.directory
        /\ capture'.seen = capture.seen /\ capture'.target = capture.target /\ capture'.read = << >>
        /\ capture'.fd = id /\ capture'.opened = StatOf(id)
        BY <1>4, <2>4 DEF CaptureIs
  <2>6. FileIsTheSeen'
        BY <1>1, <1>2, <1>3, <2>3, <2>5, FileStays
  <2>7. /\ at' = at /\ inode' = inode /\ changes' = changes
        BY <1>1, TreeIsStill
  <2>8. ReadIsTheOpened'
    <3>1. Taken(capture.opened)'
          BY <2>2, <2>5, <2>7 DEF Taken
    <3>2. Len(capture'.read) = 0 /\ \A i \in 1 .. Len(capture'.read) : FALSE
          BY <2>5
    <3> QED  BY <2>2, <2>5, <2>7, <3>1, <3>2 DEF ReadIsTheOpened
  <2>9. OneMomentIsLeft'
        BY <2>3, <2>5 DEF OneMomentIsLeft
  <2>10. BindingsDescribe'
        BY <1>1, <1>2, <1>3, <2>3, <2>5, BindingsStay
  <2>11. QuietCapture'
    <3>1. Undisturbed => capture'.directory = directory /\ Untouched(capture'.seen) /\ Untouched(capture'.opened)
          BY <1>1, <1>3, <2>2, <2>5, QuietFile
    <3> QED  BY <1>1, <1>2, <2>5, <3>1, QuietStays
  <2> QED  BY <1>1, <1>2, <2>1, <2>5, <2>6, <2>8, <2>9, <2>10, <2>11, CaptureGoesOn
<1> QED  BY <1>5, <1>6

LEMMA StepsHashChunk ==
  ASSUME SnapshotInvariant, HashChunk
  PROVE  SnapshotInvariant'
<1> DEFINE chunk == inode[capture.fd].bytes[Len(capture.read) + 1]
           bytes == Append(capture.read, chunk)
           s == IF Len(bytes) = 2 THEN "fstat" ELSE "read"
<1>1. /\ capture.step = "read" /\ Look /\ Aside /\ UNCHANGED tree /\ moments' = moments
      /\ capture' = [capture EXCEPT !.read = bytes, !.step = s]
      BY DEF HashChunk, Look
<1>2. /\ TreeTyped /\ capture \in CaptureRecord /\ Content \in moments
      /\ FileIsTheSeen /\ ReadIsTheOpened /\ BindingsDescribe /\ QuietCapture
      BY <1>1, CaptureWorks
<1>3. /\ s \in Steps /\ s \in OpenSteps /\ s \in FileSteps /\ s \notin SeenSteps /\ s \notin SecondSteps
      /\ s \notin {"readlink", "stat directory"} /\ capture.step \in OpenSteps /\ capture.step \in FileSteps
      /\ capture.step \notin SecondSteps /\ capture.step # "readlink"
      BY <1>1 DEF Steps, FileSteps, SeenSteps, OpenSteps, SecondSteps
<1>4. /\ Taken(capture.opened) /\ capture.fd = capture.opened[1] /\ inode[capture.fd].kind = "file"
      /\ Len(capture.read) < 2
      /\ Untouched(capture.opened) =>
           /\ at[capture.target] = capture.fd
           /\ \A i \in 1 .. Len(capture.read) : capture.read[i] = inode[capture.fd].bytes[i]
      BY <1>1, <1>2, <1>3 DEF ReadIsTheOpened
<1>5. capture.read \in Seq(ChunkBytes) /\ Len(capture.read) \in Nat /\ Len(capture.read) < 2
  <2>1. capture.read \in Seq(ChunkBytes)
        BY <1>2 DEF CaptureRecord
  <2> QED  BY <1>4, <2>1, LenProperties
<1>6. chunk \in ChunkBytes
  <2>1. inode[capture.fd] \in InodeRecord
        BY <1>2, <1>4, LenProperties, ElementOfSeq DEF Taken, TreeTyped
  <2>2. inode[capture.fd].bytes \in [1 .. 2 -> {0, 1}]
        BY <1>4, <2>1 DEF InodeRecord, Bytes
  <2>3. Len(capture.read) + 1 \in 1 .. 2
        BY <1>5
  <2> QED  BY <2>2, <2>3 DEF ChunkBytes
<1> HIDE DEF chunk
<1>7. /\ bytes \in Seq(ChunkBytes) /\ Len(bytes) = Len(capture.read) + 1 /\ bytes[Len(capture.read) + 1] = chunk
      /\ \A i \in 1 .. Len(capture.read) : bytes[i] = capture.read[i]
      BY <1>5, <1>6, AppendProperties
<1> HIDE DEF bytes
<1>8. CaptureIs(capture', s, capture.listing, capture.directory, capture.left, capture.seen, capture.target,
                capture.fd, capture.opened, bytes, capture.files, capture.bindings, capture.began)
      BY <1>1, <1>2, <1>3, <1>7, CaptureHasRead
<1>9. IF s = "read" THEN Len(bytes) < 2 ELSE Len(bytes) = 2
      BY <1>5, <1>7
<1> HIDE DEF s
<1>10. /\ capture' \in CaptureRecord /\ capture'.step = s /\ capture'.listing = capture.listing
       /\ capture'.left = capture.left /\ capture'.files = capture.files /\ capture'.bindings = capture.bindings
       /\ capture'.began = capture.began /\ capture'.directory = capture.directory
       /\ capture'.seen = capture.seen /\ capture'.target = capture.target /\ capture'.read = bytes
       /\ capture'.fd = capture.fd /\ capture'.opened = capture.opened
      BY <1>8 DEF CaptureIs
<1>11. FileIsTheSeen'
      BY <1>1, <1>2, <1>3, <1>10, FileStays
<1>12. /\ at' = at /\ inode' = inode /\ changes' = changes
      BY <1>1, TreeIsStill
<1>13. ReadIsTheOpened'
  <2>1. Taken(capture.opened)'
        BY <1>4, <1>10, <1>12 DEF Taken
  <2>2. ASSUME Untouched(capture.opened)'
        PROVE  /\ at'[capture'.target] = capture'.fd
               /\ \A i \in 1 .. Len(capture'.read) : capture'.read[i] = inode'[capture'.fd].bytes[i]
    <3>1. Untouched(capture.opened)
          BY <1>10, <1>12, <2>2 DEF Untouched
    <3>2. \A i \in 1 .. Len(bytes) : bytes[i] = inode[capture.fd].bytes[i]
      <4> TAKE i \in 1 .. Len(bytes)
      <4>1. CASE i \in 1 .. Len(capture.read)
            BY <1>4, <1>7, <3>1, <4>1
      <4>2. CASE i = Len(capture.read) + 1
            BY <1>7, <4>2 DEF chunk
      <4> QED  BY <1>5, <1>7, <4>1, <4>2
    <3> QED  BY <1>4, <1>10, <1>12, <3>1, <3>2
  <2> QED  BY <1>4, <1>9, <1>10, <1>12, <2>1, <2>2 DEF ReadIsTheOpened
<1>14. OneMomentIsLeft'
      BY <1>3, <1>10 DEF OneMomentIsLeft
<1>15. BindingsDescribe'
      BY <1>1, <1>2, <1>3, <1>10, BindingsStay
<1>16. QuietCapture'
  <2>1. Undisturbed => capture'.directory = directory /\ Untouched(capture'.seen) /\ Untouched(capture'.opened)
        BY <1>1, <1>3, <1>10, QuietFile
  <2> QED  BY <1>1, <1>2, <1>10, <2>1, QuietStays
<1> QED  BY <1>1, <1>2, <1>10, <1>11, <1>13, <1>14, <1>15, <1>16, CaptureGoesOn

\* The checks after the reading only move on.
LEMMA CheckGoesOn ==
  ASSUME SnapshotInvariant, Look, Aside, NEW s \in {"stat target", "lstat again"}, GotoCapture(s),
         capture.step \in {"fstat", "stat target"}
  PROVE  SnapshotInvariant'
<1>1. /\ UNCHANGED tree /\ moments' = moments /\ capture.step # "idle"
      BY DEF Look
<1>2. /\ TreeTyped /\ capture \in CaptureRecord /\ Content \in moments
      /\ FileIsTheSeen /\ ReadIsTheOpened /\ BindingsDescribe /\ QuietCapture
      BY <1>1, CaptureWorks
<1>3. /\ s \in Steps /\ s \in OpenSteps /\ s \in FileSteps /\ s \notin SeenSteps /\ s \notin SecondSteps
      /\ s \notin {"readlink", "stat directory", "read"} /\ capture.step \in OpenSteps /\ capture.step \in FileSteps
      /\ capture.step \notin SecondSteps /\ capture.step \notin {"readlink", "stat directory", "read"}
      BY DEF Steps, FileSteps, SeenSteps, OpenSteps, SecondSteps
<1>4. CaptureIs(capture', s, capture.listing, capture.directory, capture.left, capture.seen, capture.target,
                capture.fd, capture.opened, capture.read, capture.files, capture.bindings, capture.began)
      BY <1>2, <1>3, CaptureGoes DEF GotoCapture
<1>5. /\ capture' \in CaptureRecord /\ capture'.step = s /\ capture'.listing = capture.listing
      /\ capture'.left = capture.left /\ capture'.files = capture.files /\ capture'.bindings = capture.bindings
      /\ capture'.began = capture.began /\ capture'.directory = capture.directory
      /\ capture'.seen = capture.seen /\ capture'.target = capture.target /\ capture'.read = capture.read
      /\ capture'.fd = capture.fd /\ capture'.opened = capture.opened
      BY <1>4 DEF CaptureIs
<1>6. FileIsTheSeen'
      BY <1>1, <1>2, <1>3, <1>5, FileStays
<1>7. ReadIsTheOpened'
  <2>1. at' = at /\ inode' = inode /\ changes' = changes
        BY <1>1, TreeIsStill
  <2>2. /\ Taken(capture.opened) /\ capture.fd = capture.opened[1] /\ inode[capture.fd].kind = "file"
        /\ Len(capture.read) = 2
        /\ Untouched(capture.opened) =>
             /\ at[capture.target] = capture.fd
             /\ \A i \in 1 .. Len(capture.read) : capture.read[i] = inode[capture.fd].bytes[i]
        BY <1>2, <1>3 DEF ReadIsTheOpened
  <2>3. Taken(capture.opened)' /\ (Untouched(capture.opened)' => Untouched(capture.opened))
        BY <1>5, <2>1, <2>2 DEF Taken, Untouched
  <2> QED  BY <1>3, <1>5, <2>1, <2>2, <2>3 DEF ReadIsTheOpened
<1>8. OneMomentIsLeft'
      BY <1>3, <1>5 DEF OneMomentIsLeft
<1>9. BindingsDescribe'
      BY <1>1, <1>2, <1>3, <1>5, BindingsStay
<1>10. QuietCapture'
  <2>1. Undisturbed => capture'.directory = directory /\ Untouched(capture'.seen) /\ Untouched(capture'.opened)
        BY <1>1, <1>3, <1>5, QuietFile
  <2> QED  BY <1>1, <1>2, <1>5, <2>1, QuietStays
<1> QED  BY <1>2, <1>5, <1>6, <1>7, <1>8, <1>9, <1>10, CaptureGoesOn

LEMMA StepsFstat ==
  ASSUME SnapshotInvariant, Fstat
  PROVE  SnapshotInvariant'
<1>1. capture.step = "fstat" /\ Look
      BY DEF Fstat
<1>2. capture.step # "idle" /\ capture.step \in OpenSteps
      BY <1>1 DEF OpenSteps
<1>3. CASE StatOf(capture.fd) # capture.opened
  <2>1. Refuse
        BY <1>3 DEF Fstat
  <2>2. ~Undisturbed
    <3>1. Taken(capture.opened)
          BY <1>2, CaptureWorks DEF ReadIsTheOpened
    <3>2. Undisturbed => Untouched(capture.opened) /\ capture.fd = capture.opened[1]
          BY <1>2, QuietFile
    <3> QED  BY <1>3, <3>1, <3>2 DEF Taken, Untouched, Stats, StatOf
  <2> QED  BY <1>1, <2>1, <2>2, CaptureRefuses
<1>4. CASE StatOf(capture.fd) = capture.opened
      BY <1>1, <1>4, CheckGoesOn DEF Fstat
<1> QED  BY <1>3, <1>4

LEMMA StepsStatTarget ==
  ASSUME SnapshotInvariant, StatTarget
  PROVE  SnapshotInvariant'
<1> DEFINE id == Follow(at, capture.target)
<1>1. capture.step = "stat target" /\ Look
      BY DEF StatTarget
<1>2. capture.step # "idle" /\ capture.step \in OpenSteps
      BY <1>1 DEF OpenSteps
<1>3. CASE id = Nothing \/ StatOf(id) # capture.opened
  <2>1. Refuse
        BY <1>3 DEF StatTarget
  <2>2. ~Undisturbed
    <3>1. Taken(capture.opened) /\ inode[capture.fd].kind = "file" /\ TreeTyped
          BY <1>2, CaptureWorks DEF ReadIsTheOpened
    <3>2. Undisturbed => Untouched(capture.opened) /\ capture.fd = capture.opened[1] /\ at[capture.target] = capture.fd
          BY <1>2, QuietFile
    <3>3. capture.opened[1] # Nothing
          BY <3>1, LenProperties, NothingIsNoValue DEF Taken, TreeTyped
    <3>4. Undisturbed => id = capture.opened[1]
          BY <3>1, <3>2 DEF Follow
    <3> QED  BY <1>3, <3>1, <3>2, <3>3, <3>4 DEF Taken, Untouched, Stats, StatOf
  <2> QED  BY <1>1, <2>1, <2>2, CaptureRefuses
<1>4. CASE id # Nothing /\ StatOf(id) = capture.opened
      BY <1>1, <1>4, CheckGoesOn DEF StatTarget
<1> QED  BY <1>3, <1>4

LEMMA StepsLstatAgain ==
  ASSUME SnapshotInvariant, LstatAgain
  PROVE  SnapshotInvariant'
<1> DEFINE name == FileInHand
           new == [ name |-> name, lexical |-> capture.seen, target |-> capture.target, opened |-> capture.opened ]
<1>1. /\ capture.step = "lstat again" /\ Look /\ UNCHANGED tree /\ moments' = moments
      BY DEF LstatAgain, Look
<1>2. /\ TreeTyped /\ capture \in CaptureRecord /\ Content \in moments
      /\ FileIsTheSeen /\ ReadIsTheOpened /\ BindingsDescribe /\ QuietCapture
      BY <1>1, CaptureWorks
<1>3. /\ "lstat again" \in FileSteps /\ "lstat again" \in OpenSteps /\ "lstat again" \notin SecondSteps
      /\ "lstat" \in Steps /\ "lstat" \notin FileSteps /\ "lstat" \notin OpenSteps /\ "lstat" \notin SecondSteps
      BY DEF Steps, WalkSteps, FileSteps, SeenSteps, OpenSteps, SecondSteps
<1>4. /\ name \in capture.left /\ name \in Names /\ name \in Places /\ Taken(capture.seen) /\ capture.target \in Places
      /\ Untouched(capture.seen) => at[name] = capture.seen[1] /\ capture.target = TargetOf(capture.seen[1], name)
      BY <1>1, <1>2, <1>3 DEF FileIsTheSeen, CaptureRecord, Places
<1>5. /\ Taken(capture.opened) /\ capture.fd = capture.opened[1] /\ inode[capture.fd].kind = "file"
      /\ Len(capture.read) = 2
      /\ Untouched(capture.opened) =>
           /\ at[capture.target] = capture.fd
           /\ \A i \in 1 .. 2 : capture.read[i] = inode[capture.fd].bytes[i]
      BY <1>1, <1>2, <1>3 DEF ReadIsTheOpened
<1>6. CASE at[name] = Nothing \/ StatOf(at[name]) # capture.seen
  <2>1. Refuse
        BY <1>6 DEF LstatAgain
  <2>2. ASSUME Undisturbed  PROVE FALSE
    <3>1. Untouched(capture.seen) /\ at[name] = capture.seen[1] /\ at[name] # Nothing
          BY <1>1, <1>3, <1>4, <2>2, QuietFile
    <3> QED  BY <1>4, <1>6, <3>1 DEF Taken, Untouched, Stats, StatOf
  <2> QED  BY <1>1, <2>1, <2>2, CaptureRefuses
<1>7. CASE at[name] # Nothing /\ StatOf(at[name]) = capture.seen
  <2> DEFINE left == capture.left \ {name}  files == WithFile(name, capture.read)  bindings == capture.bindings \cup {new}
  <2>1. /\ Aside
        /\ capture' = [capture EXCEPT !.step = "lstat", !.left = left, !.files = files, !.bindings = bindings]
        BY <1>7 DEF LstatAgain
  <2>2. capture.read \in Bytes /\ capture.read \in Seq(ChunkBytes) /\ DOMAIN capture.read = 1 .. 2
    <3>1. capture.read \in Seq(ChunkBytes)
          BY <1>2 DEF CaptureRecord
    <3>2. capture.read \in [1 .. 2 -> ChunkBytes]
          BY <1>5, <3>1, LenProperties
    <3> QED  BY <3>1, <3>2 DEF Bytes, ChunkBytes
  <2>3. /\ capture.files \in HashedFiles /\ DOMAIN capture.files = capture.listing \ capture.left
        /\ capture.left \subseteq capture.listing /\ capture.listing \subseteq Names
        BY <1>2 DEF CaptureRecord, BindingsDescribe
  <2>4. /\ files \in HashedFiles /\ DOMAIN files = capture.listing \ left
        /\ files[name] = capture.read /\ \A n \in capture.listing \ capture.left : files[n] = capture.files[n]
    <3>1. \A n \in DOMAIN capture.files : capture.files[n] \in Bytes
          BY <2>3 DEF HashedFiles
    <3>2. files = [n \in DOMAIN capture.files \cup {name} |-> IF n = name THEN capture.read ELSE capture.files[n]]
          BY DEF WithFile
    <3>3. DOMAIN capture.files \cup {name} = capture.listing \ left
          BY <1>4, <2>3
    <3>4. files \in [capture.listing \ left -> Bytes]
          BY <2>2, <3>1, <3>2, <3>3
    <3>5. [capture.listing \ left -> Bytes] \in { [names -> Bytes] : names \in SUBSET Names }
          BY <2>3
    <3>6. files \in HashedFiles
          BY <3>4, <3>5 DEF HashedFiles
    <3>7. name \notin capture.listing \ capture.left
          BY <1>4
    <3> QED  BY <2>3, <3>2, <3>3, <3>6, <3>7
  <2>5. new \in Bindings /\ bindings \in SUBSET Bindings /\ left \in SUBSET Names
        BY <1>2, <1>4, <1>5 DEF Bindings, Taken, CaptureRecord
  <2> HIDE DEF files
  <2>6. CaptureIs(capture', "lstat", capture.listing, capture.directory, left, capture.seen, capture.target,
                  capture.fd, capture.opened, capture.read, files, bindings, capture.began)
        BY <1>2, <1>3, <2>1, <2>4, <2>5, CaptureHasFile
  <2>7. /\ capture' \in CaptureRecord /\ capture'.step = "lstat" /\ capture'.listing = capture.listing
        /\ capture'.left = left /\ capture'.files = files /\ capture'.bindings = bindings
        /\ capture'.began = capture.began /\ capture'.directory = capture.directory
        BY <2>6 DEF CaptureIs
  <2>8. at' = at /\ inode' = inode /\ changes' = changes
        BY <1>1, TreeIsStill
  <2>9. FileIsTheSeen' /\ ReadIsTheOpened' /\ OneMomentIsLeft'
        BY <1>3, <2>7 DEF FileIsTheSeen, ReadIsTheOpened, OneMomentIsLeft
  <2>10. ASSUME NEW b \in bindings
         PROVE  /\ b.name \in capture.listing \ left /\ Taken(b.lexical) /\ Taken(b.opened)
                /\ inode[b.opened[1]].kind = "file"
                /\ Unbroken(b) =>
                     /\ at[b.name] = b.lexical[1] /\ at[b.target] = b.opened[1]
                     /\ b.target = TargetOf(b.lexical[1], b.name)
                     /\ inode[b.opened[1]].bytes = files[b.name]
    <3>1. CASE b = new
      <4>1. /\ b.name = name /\ b.lexical = capture.seen /\ b.opened = capture.opened /\ b.target = capture.target
            BY <3>1
      <4>2. Untouched(capture.opened) => inode[capture.fd].bytes = capture.read
        <5>1. inode[capture.fd] \in InodeRecord
              BY <1>2, <1>5, LenProperties, ElementOfSeq DEF Taken, TreeTyped
        <5>2. inode[capture.fd].bytes \in [1 .. 2 -> {0, 1}]
              BY <1>5, <5>1 DEF InodeRecord, Bytes
        <5>3. capture.read \in [1 .. 2 -> {0, 1}]
              BY <2>2 DEF Bytes
        <5> QED  BY <1>5, <5>2, <5>3
      <4>3. name \in capture.listing \ left
            BY <1>4, <2>3
      <4> HIDE DEF new
      <4> QED  BY <1>4, <1>5, <2>4, <4>1, <4>2, <4>3 DEF Unbroken
    <3>2. CASE b \in capture.bindings
      <4>1. /\ b.name \in capture.listing \ capture.left /\ Taken(b.lexical) /\ Taken(b.opened)
            /\ inode[b.opened[1]].kind = "file"
            /\ Unbroken(b) =>
                 /\ at[b.name] = b.lexical[1] /\ at[b.target] = b.opened[1]
                 /\ b.target = TargetOf(b.lexical[1], b.name)
                 /\ inode[b.opened[1]].bytes = capture.files[b.name]
            BY <1>2, <3>2 DEF BindingsDescribe
      <4> QED  BY <2>4, <4>1
    <3> QED  BY <3>1, <3>2
  <2>11. \A n \in capture.listing \ left : \E b \in bindings : b.name = n
    <3> TAKE n \in capture.listing \ left
    <3>1. CASE n = name
      <4>1. new \in bindings /\ new.name = n
            BY <3>1
      <4> QED  BY <4>1
    <3>2. CASE n # name
          BY <1>1, <1>2, <1>3, <3>2 DEF BindingsDescribe
    <3> QED  BY <3>1, <3>2
  <2>12. BindingsDescribe'
    <3>1. \A b \in capture'.bindings :
            /\ b.name \in capture'.listing \ capture'.left /\ Taken(b.lexical)' /\ Taken(b.opened)'
            /\ inode'[b.opened[1]].kind = "file"
            /\ Unbroken(b)' =>
                 /\ at'[b.name] = b.lexical[1] /\ at'[b.target] = b.opened[1]
                 /\ b.target = TargetOf(b.lexical[1], b.name)'
                 /\ inode'[b.opened[1]].bytes = capture'.files[b.name]
      <4> HIDE DEF bindings, left
      <4> QED  BY <2>7, <2>8, <2>10 DEF Taken, Unbroken, Untouched, TargetOf
    <3>2. /\ capture'.left \subseteq capture'.listing /\ DOMAIN capture'.files = capture'.listing \ capture'.left
          /\ \A n \in capture'.listing \ capture'.left : \E b \in capture'.bindings : b.name = n
          BY <2>3, <2>4, <2>7, <2>11
    <3> QED  BY <3>1, <3>2 DEF BindingsDescribe
  <2>13. QuietCapture'
    <3>1. ASSUME Undisturbed
          PROVE  /\ capture'.directory = directory
                 /\ \A b \in capture'.bindings : b \in capture.bindings \/ Unbroken(b)
      <4>1. Untouched(capture.seen) /\ Untouched(capture.opened) /\ capture.directory = directory
            BY <1>1, <1>3, <3>1, QuietFile
      <4>2. Unbroken(new)
            BY <4>1 DEF Unbroken
      <4> HIDE DEF new
      <4> QED  BY <2>7, <4>1, <4>2
    <3> QED  BY <1>1, <1>2, <1>3, <2>7, <3>1, QuietStays
  <2> QED  BY <1>1, <1>2, <2>1, <2>7, <2>9, <2>12, <2>13, CaptureGoesOn
<1> QED  BY <1>6, <1>7

\* Between the walks nothing but the step changes.
LEMMA WalkGoesOn ==
  ASSUME SnapshotInvariant, Look, Aside, NEW s \in SecondSteps, GotoCapture(s), OneMomentIsLeft',
         capture.step \in {"lstat", "stat again", "bindings"}
  PROVE  SnapshotInvariant'
<1>1. /\ UNCHANGED tree /\ moments' = moments /\ capture.step # "idle"
      BY DEF Look
<1>2. /\ TreeTyped /\ capture \in CaptureRecord /\ Content \in moments
      /\ BindingsDescribe /\ QuietCapture
      BY <1>1, CaptureWorks
<1>3. /\ s \in Steps /\ s \notin OpenSteps /\ s \notin FileSteps /\ s # "stat directory" /\ capture.step # "stat directory"
      BY DEF Steps, FileSteps, SeenSteps, OpenSteps, SecondSteps
<1>4. CaptureIs(capture', s, capture.listing, capture.directory, capture.left, capture.seen, capture.target,
                capture.fd, capture.opened, capture.read, capture.files, capture.bindings, capture.began)
      BY <1>2, <1>3, CaptureGoes DEF GotoCapture
<1>5. /\ capture' \in CaptureRecord /\ capture'.step = s /\ capture'.listing = capture.listing
      /\ capture'.left = capture.left /\ capture'.files = capture.files /\ capture'.bindings = capture.bindings
      /\ capture'.began = capture.began /\ capture'.directory = capture.directory
      BY <1>4 DEF CaptureIs
<1>6. FileIsTheSeen' /\ ReadIsTheOpened'
      BY <1>3, <1>5 DEF FileIsTheSeen, ReadIsTheOpened
<1>7. BindingsDescribe'
      BY <1>1, <1>2, <1>5, BindingsStay
<1>8. QuietCapture'
  <2>1. Undisturbed => capture'.directory = directory
        BY <1>1, <1>3, <1>5, QuietFile
  <2> QED  BY <1>1, <1>2, <1>3, <1>5, <2>1, QuietStays
<1> QED  BY <1>2, <1>5, <1>6, <1>7, <1>8, CaptureGoesOn

\* This is the moment that the manifest is of.
LEMMA StepsListAgain ==
  ASSUME SnapshotInvariant, ListAgain
  PROVE  SnapshotInvariant'
<1>1. /\ capture.step = "lstat" /\ capture.left = {} /\ Look /\ capture.step # "idle"
      BY DEF ListAgain
<1>2. CASE Listing # capture.listing
  <2>1. Refuse
        BY <1>2 DEF ListAgain
  <2>2. ~Undisturbed
        BY <1>1, <1>2, QuietFile
  <2> QED  BY <1>1, <2>1, <2>2, CaptureRefuses
<1>3. CASE Listing = capture.listing
  <2>1. Aside /\ GotoCapture("stat again") /\ "stat again" \in SecondSteps /\ "stat again" \in Steps
        BY <1>3 DEF ListAgain, SecondSteps, Steps
  <2>2. /\ TreeTyped /\ capture \in CaptureRecord /\ Content \in moments /\ BindingsDescribe
        BY <1>1, CaptureWorks
  <2>3. ASSUME NEW n \in capture.listing
        PROVE  \E b \in capture.bindings : b.name = n /\ (Unbroken(b) => Content[n] = capture.files[n])
    <3>1. PICK b \in capture.bindings : b.name = n
          BY <1>1, <2>2 DEF BindingsDescribe, SecondSteps
    <3>2. ASSUME Unbroken(b)  PROVE Content[n] = capture.files[n]
      <4>1. /\ at[n] = b.lexical[1] /\ at[b.target] = b.opened[1] /\ b.target = TargetOf(at[n], n)
            /\ inode[b.opened[1]].bytes = capture.files[n] /\ Taken(b.opened) /\ inode[b.opened[1]].kind = "file"
            BY <2>2, <3>1, <3>2 DEF BindingsDescribe
      <4>2. n \in Listing /\ n \in Places /\ at[n] # Nothing
            BY <1>3, <2>2 DEF CaptureRecord, Places, Listing
      <4>3. Follow(at, n) = b.opened[1]
            BY <4>1, <4>2 DEF Follow, TargetOf
      <4>4. b.opened[1] # Nothing
            BY <2>2, <4>1, LenProperties, NothingIsNoValue DEF Taken, TreeTyped
      <4> QED  BY <2>2, <4>1, <4>2, <4>3, <4>4, ContentIs
    <3> QED  BY <3>1, <3>2
  <2>4. DOMAIN Content = capture.listing
        BY <1>3, <2>2, ContentIs
  <2>5. OneMomentIsLeft'
    <3>1. CaptureIs(capture', "stat again", capture.listing, capture.directory, capture.left, capture.seen, capture.target,
                    capture.fd, capture.opened, capture.read, capture.files, capture.bindings, capture.began)
          BY <2>1, <2>2, CaptureGoes DEF GotoCapture
    <3>2. /\ capture'.step = "stat again" /\ capture'.listing = capture.listing /\ capture'.left = capture.left
          /\ capture'.files = capture.files /\ capture'.bindings = capture.bindings
          BY <3>1 DEF CaptureIs
    <3>3. moments' = moments /\ inode' = inode
          BY <1>1, TreeIsStill DEF Look
    <3>4. \A b : Unbroken(b)' <=> Unbroken(b)
          BY <3>3 DEF Unbroken, Untouched
    <3>5. \E m \in moments' :
            /\ DOMAIN m = capture'.listing
            /\ \A n \in capture'.listing :
                 m[n] = capture'.files[n] \/ \E b \in capture'.bindings : b.name = n /\ (Unbroken(b)' => m[n] = capture'.files[n])
      <4>1. \A n \in capture'.listing : \E b \in capture'.bindings : b.name = n /\ (Unbroken(b)' => Content[n] = capture'.files[n])
            BY <2>3, <3>2, <3>4
      <4>2. Content \in moments' /\ DOMAIN Content = capture'.listing
            BY <2>2, <2>4, <3>2, <3>3
      <4> QED  BY <4>1, <4>2
    <3> QED  BY <1>1, <3>2, <3>5 DEF OneMomentIsLeft
  <2> QED  BY <1>1, <2>1, <2>5, WalkGoesOn
<1> QED  BY <1>2, <1>3

\* The steps after it keep that moment.
LEMMA MomentGoesOn ==
  ASSUME SnapshotInvariant, Look, NEW s \in SecondSteps, GotoCapture(s),
         capture.step \in {"stat again", "bindings"}, s = "complete" => capture.bindings = {}
  PROVE  OneMomentIsLeft'
<1>1. capture.step # "idle" /\ capture.step \in SecondSteps /\ s \in Steps /\ UNCHANGED tree /\ moments' = moments
      BY DEF SecondSteps, Steps, Look
<1>2. capture \in CaptureRecord /\ OneMomentIsLeft
      BY <1>1, CaptureWorks
<1>3. CaptureIs(capture', s, capture.listing, capture.directory, capture.left, capture.seen, capture.target,
                capture.fd, capture.opened, capture.read, capture.files, capture.bindings, capture.began)
      BY <1>1, <1>2, CaptureGoes DEF GotoCapture
<1>4. /\ capture'.step = s /\ capture'.listing = capture.listing /\ capture'.left = capture.left
      /\ capture'.files = capture.files /\ capture'.bindings = capture.bindings
      BY <1>3 DEF CaptureIs
<1> QED  BY <1>1, <1>2, <1>4, MomentStays

LEMMA StepsStatAgain ==
  ASSUME SnapshotInvariant, StatAgain
  PROVE  SnapshotInvariant'
<1>1. /\ capture.step = "stat again" /\ Look /\ capture.step # "idle"
      BY DEF StatAgain
<1>2. CASE directory # capture.directory
  <2>1. Refuse
        BY <1>2 DEF StatAgain
  <2>2. ~Undisturbed
        BY <1>1, <1>2, QuietFile
  <2> QED  BY <1>1, <2>1, <2>2, CaptureRefuses
<1>3. CASE directory = capture.directory
  <2>1. Aside /\ GotoCapture("bindings") /\ "bindings" \in SecondSteps
        BY <1>3 DEF StatAgain, SecondSteps
  <2>2. OneMomentIsLeft'
        BY <1>1, <2>1, MomentGoesOn
  <2> QED  BY <1>1, <2>1, <2>2, WalkGoesOn
<1> QED  BY <1>2, <1>3

LEMMA StepsVerifyBinding ==
  ASSUME SnapshotInvariant, VerifyBinding
  PROVE  SnapshotInvariant'
<1>1. /\ capture.step = "bindings" /\ Look /\ capture.step # "idle" /\ UNCHANGED tree /\ moments' = moments
      BY DEF VerifyBinding, Look
<1>2. PICK b \in capture.bindings :
        IF ~BindingHolds(b) THEN Refuse
        ELSE capture' = [capture EXCEPT !.bindings = @ \ {b}] /\ Aside
      BY DEF VerifyBinding
<1>3. /\ TreeTyped /\ capture \in CaptureRecord /\ Content \in moments
      /\ BindingsDescribe /\ OneMomentIsLeft /\ QuietCapture
      BY <1>1, CaptureWorks
<1>4. /\ Taken(b.lexical) /\ Taken(b.opened) /\ inode[b.opened[1]].kind = "file"
      /\ Unbroken(b) => at[b.name] = b.lexical[1] /\ at[b.target] = b.opened[1]
      /\ b.lexical[1] # Nothing /\ b.opened[1] # Nothing
  <2>1. /\ Taken(b.lexical) /\ Taken(b.opened) /\ inode[b.opened[1]].kind = "file"
        /\ Unbroken(b) => at[b.name] = b.lexical[1] /\ at[b.target] = b.opened[1]
        BY <1>3 DEF BindingsDescribe
  <2>2. \A id \in DOMAIN inode : id # Nothing
        BY <1>3, LenProperties, NothingIsNoValue DEF TreeTyped
  <2> QED  BY <2>1, <2>2 DEF Taken
<1>5. CASE ~BindingHolds(b)
  <2>1. Refuse
        BY <1>2, <1>5
  <2>2. ASSUME Undisturbed  PROVE FALSE
    <3>1. Unbroken(b)
          BY <1>1, <2>2, QuietFile
    <3>2. Follow(at, b.target) = b.opened[1]
          BY <1>4, <3>1 DEF Follow
    <3>3. StatOf(at[b.name]) = b.lexical /\ StatOf(Follow(at, b.target)) = b.opened
          BY <1>4, <3>1, <3>2 DEF Taken, Stats, StatOf, Unbroken, Untouched
    <3> QED  BY <1>4, <1>5, <3>1, <3>2, <3>3 DEF BindingHolds
  <2> QED  BY <1>1, <2>1, <2>2, CaptureRefuses
<1>6. CASE BindingHolds(b)
  <2> DEFINE rest == capture.bindings \ {b}
  <2>1. Aside /\ capture' = [capture EXCEPT !.bindings = rest]
        BY <1>2, <1>6
  <2>2. rest \in SUBSET Bindings
        BY <1>3 DEF CaptureRecord
  <2>3. CaptureIs(capture', capture.step, capture.listing, capture.directory, capture.left, capture.seen, capture.target,
                  capture.fd, capture.opened, capture.read, capture.files, rest, capture.began)
        BY <1>3, <2>1, <2>2, CaptureHasBindings
  <2>4. /\ capture' \in CaptureRecord /\ capture'.step = "bindings" /\ capture'.listing = capture.listing
        /\ capture'.left = capture.left /\ capture'.files = capture.files /\ capture'.bindings = rest
        /\ capture'.began = capture.began /\ capture'.directory = capture.directory
        BY <1>1, <2>3 DEF CaptureIs
  <2>5. "bindings" \notin FileSteps /\ "bindings" \notin OpenSteps /\ "bindings" \in SecondSteps
        BY DEF FileSteps, SeenSteps, OpenSteps, SecondSteps
  <2>6. FileIsTheSeen' /\ ReadIsTheOpened'
        BY <2>4, <2>5 DEF FileIsTheSeen, ReadIsTheOpened
  <2>7. BindingsDescribe'
        BY <1>1, <1>3, <2>4, <2>5, BindingsStay
  <2>8. QuietCapture'
    <3>1. Undisturbed => capture'.directory = directory
          BY <1>1, <2>4, QuietFile
    <3> QED  BY <1>1, <1>3, <2>4, <2>5, <3>1, QuietStays
  <2>9. OneMomentIsLeft'
    <3>1. inode' = inode
          BY <1>1, TreeIsStill
    <3>2. Unbroken(b)
          BY <1>6 DEF BindingHolds, StatOf, Unbroken, Untouched
    <3>3. PICK m \in moments :
            /\ DOMAIN m = capture.listing
            /\ \A n \in capture.listing :
                 m[n] = capture.files[n] \/ \E x \in capture.bindings : x.name = n /\ (Unbroken(x) => m[n] = capture.files[n])
          BY <1>1, <1>3, <2>5 DEF OneMomentIsLeft
    <3>4. \A n \in capture.listing :
            m[n] = capture.files[n] \/ \E x \in rest : x.name = n /\ (Unbroken(x) => m[n] = capture.files[n])
          BY <3>2, <3>3
    <3>5. \A x : Unbroken(x)' <=> Unbroken(x)
          BY <3>1 DEF Unbroken, Untouched
    <3>6. \E k \in moments' :
            /\ DOMAIN k = capture'.listing
            /\ \A n \in capture'.listing :
                 k[n] = capture'.files[n] \/ \E x \in capture'.bindings : x.name = n /\ (Unbroken(x)' => k[n] = capture'.files[n])
          BY <1>1, <2>4, <3>3, <3>4, <3>5
    <3>7. capture'.left = {} /\ capture'.step # "complete"
          BY <1>1, <1>3, <2>4, <2>5 DEF OneMomentIsLeft
    <3> QED  BY <3>6, <3>7 DEF OneMomentIsLeft
  <2> QED  BY <1>1, <1>3, <2>1, <2>4, <2>6, <2>7, <2>8, <2>9, CaptureGoesOn
<1> QED  BY <1>5, <1>6

LEMMA StepsFinishCapture ==
  ASSUME SnapshotInvariant, FinishCapture
  PROVE  SnapshotInvariant'
<1>1. /\ capture.step = "bindings" /\ capture.bindings = {} /\ Look /\ capture.step # "idle"
      BY DEF FinishCapture
<1>2. CASE capture.files = << >>
  <2>1. Refuse
        BY <1>2 DEF FinishCapture
  <2>2. ASSUME Undisturbed  PROVE NothingToCapture
    <3>1. /\ TreeTyped /\ capture.left = {} /\ DOMAIN capture.files = capture.listing \ capture.left
          BY <1>1, CaptureWorks DEF OneMomentIsLeft, BindingsDescribe, SecondSteps
    <3>2. moments = {Content} /\ capture.listing = Listing
          BY <1>1, <2>2, QuietFile
    <3>3. DOMAIN Content = {} /\ Content \in Contents
      <4>1. DOMAIN capture.files = {}
            BY <1>2
      <4> QED  BY <3>1, <3>2, <4>1, ContentIs
    <3>4. Content = << >>
      <4>1. PICK names \in SUBSET Names : Content \in [names -> Bytes \cup {Nothing}]
            BY <3>3 DEF Contents
      <4>2. Content \in [{} -> Bytes \cup {Nothing}]
            BY <3>3, <4>1
      <4> QED  BY <4>2
    <3> QED  BY <3>2, <3>4 DEF NothingToCapture
  <2> QED  BY <1>1, <2>1, <2>2, CaptureRefuses
<1>3. CASE capture.files # << >>
  <2>1. Aside /\ GotoCapture("complete") /\ "complete" \in SecondSteps
        BY <1>3 DEF FinishCapture, SecondSteps
  <2>2. OneMomentIsLeft'
        BY <1>1, <2>1, MomentGoesOn
  <2> QED  BY <1>1, <2>1, <2>2, WalkGoesOn
<1> QED  BY <1>2, <1>3

\* What was captured was there.
LEMMA FilesAreOfAMoment ==
  ASSUME SnapshotInvariant, capture.step = "complete"
  PROVE  capture.files \in moments /\ capture.files \in Contents
<1>1. /\ capture \in CaptureRecord /\ moments \subseteq Contents /\ BindingsDescribe /\ OneMomentIsLeft
      BY CaptureWorks
<1>2. /\ capture.left = {} /\ capture.bindings = {} /\ DOMAIN capture.files = capture.listing
      BY <1>1 DEF OneMomentIsLeft, SecondSteps, BindingsDescribe
<1>3. PICK m \in moments : DOMAIN m = capture.listing /\ \A n \in capture.listing : m[n] = capture.files[n]
      BY <1>1, <1>2 DEF OneMomentIsLeft, SecondSteps
<1>4. m \in [capture.listing -> Bytes \cup {Nothing}]
  <2>1. PICK names \in SUBSET Names : m \in [names -> Bytes \cup {Nothing}]
        BY <1>1 DEF Contents
  <2> QED  BY <1>3, <2>1
<1>5. capture.files \in [capture.listing -> Bytes]
  <2>1. PICK names \in SUBSET Names : capture.files \in [names -> Bytes]
        BY <1>1 DEF CaptureRecord, HashedFiles
  <2> QED  BY <1>2, <2>1
<1>6. m = capture.files
      BY <1>3, <1>4, <1>5
<1> QED  BY <1>1, <1>6

LEMMA StepsCompleteCapture ==
  ASSUME SnapshotInvariant, NEW p \in Purposes, CompleteCapture(p)
  PROVE  SnapshotInvariant'
<1> DEFINE files == capture.files
<1>1. /\ capture.step = "complete" /\ UNCHANGED tree /\ moments' = moments /\ capture' = NoCapture
      /\ p = "create" => imported = Nothing /\ external # Nothing
      /\ p \in {"resume", "measure"} => imported # Nothing
      /\ external' = IF p = "manifest" THEN Manifest(files, captures) ELSE external
      /\ config' = IF p = "manifest" /\ config = Nothing THEN files ELSE config
      BY DEF CompleteCapture, Look
<1>2. /\ concluded'.purpose = p /\ concluded'.ok = Accepts(p, files) /\ concluded'.files = files
      /\ concluded'.quiet = Undisturbed /\ concluded'.disk = external'
      BY DEF CompleteCapture
<1>3. imported' = IF p = "create" /\ Accepts(p, files) THEN external ELSE imported
      BY <1>2 DEF CompleteCapture
<1>4. files \in moments /\ files \in Contents /\ files # Nothing
      BY <1>1, FilesAreOfAMoment, NothingIsNoValue
<1>5. CampaignHasModel
      BY DEF SnapshotInvariant
<1>6. TreeTyped' /\ CaptureIsSound'
      BY <1>1, TreeIsStill DEF SnapshotInvariant, CaptureIsSound
<1>7. CampaignHasModel'
  <2>1. moments' \subseteq Contents
        BY <1>1, <1>5 DEF CampaignHasModel
  <2>2. external' # Nothing => config' # Nothing
        BY <1>1, <1>4, <1>5 DEF CampaignHasModel
  <2>3. ASSUME imported' # Nothing
        PROVE  imported'.files = config' /\ config' # Nothing
    <3>1. CASE p = "create" /\ Accepts(p, files)
      <4>1. external.files = config /\ config = files
            BY <3>1 DEF Accepts
      <4> QED  BY <1>1, <1>3, <1>4, <3>1, <4>1
    <3>2. CASE ~(p = "create" /\ Accepts(p, files))
      <4>1. imported' = imported /\ imported.files = config /\ config # Nothing
            BY <1>3, <1>5, <2>3, <3>2 DEF CampaignHasModel
      <4> QED  BY <1>1, <4>1
    <3> QED  BY <3>1, <3>2
  <2> QED  BY <2>1, <2>2, <2>3 DEF CampaignHasModel
<1>8. SnapshotIsOfOneMoment'
  <2>1. CASE Accepts(p, files)
    <3>1. p # "manifest" => files = config /\ config' = config
      <4>1. p = "measure" => imported.files = config /\ files = imported.files
            BY <2>1 DEF Accepts
      <4>2. p \in {"create", "resume"} => external.files = config /\ files = external.files
            BY <2>1 DEF Accepts
      <4> QED  BY <1>1, <4>1, <4>2 DEF Purposes
    <3>2. concluded'.ok /\ concluded'.files \in moments'
          BY <1>1, <1>2, <1>4, <2>1
    <3> QED  BY <1>2, <3>1, <3>2 DEF SnapshotIsOfOneMoment
  <2>2. CASE ~Accepts(p, files)
    <3>1. p # "manifest" /\ external' = external /\ config' = config /\ imported' = imported
          BY <1>1, <1>3, <2>2 DEF Accepts
    <3>2. p \in {"create", "resume", "measure"}
          BY <3>1 DEF Purposes
    <3>3. Undisturbed => moments = {files}
          BY <1>1, <1>4, QuietFile
    <3>4. \/ files # config
          \/ p \in {"create", "resume"} /\ external.files # config
          \/ p = "resume" /\ external # imported
      <4>1. CASE p = "measure"
        <5>1. imported.files = config
              BY <1>1, <1>5, <4>1 DEF CampaignHasModel
        <5> QED  BY <2>2, <4>1, <5>1 DEF Accepts
      <4>2. CASE p = "create"
            BY <2>2, <4>2 DEF Accepts
      <4>3. CASE p = "resume"
            BY <2>2, <4>3 DEF Accepts
      <4> QED  BY <3>2, <4>1, <4>2, <4>3
    <3>5. /\ ~concluded'.ok /\ (~concluded'.quiet \/ moments' = {files}) /\ concluded'.purpose # "capture"
          BY <1>1, <1>2, <2>2, <3>2, <3>3
    <3>6. \/ ~concluded'.quiet
          \/ concluded'.purpose # "capture" /\ config' \notin moments'
          \/ concluded'.purpose \in {"create", "resume"} /\ concluded'.disk.files # config'
          \/ concluded'.purpose = "resume" /\ concluded'.disk # imported'
          BY <1>2, <3>1, <3>4, <3>5
    <3> QED  BY <3>5, <3>6 DEF SnapshotIsOfOneMoment
  <2> QED  BY <2>1, <2>2
<1> QED  BY <1>6, <1>7, <1>8 DEF SnapshotInvariant

LEMMA SnapshotsStart == SnapInit => SnapshotInvariant
<1> SUFFICES ASSUME SnapInit  PROVE SnapshotInvariant
    OBVIOUS
<1> DEFINE blob == CHOOSE b \in Blobs : TRUE
<1>1. /\ inode = << Link(blob), File(<< 0, 0 >>), File(<< 0, 0 >>) >>
      /\ at = [p \in Places |-> IF p \in Blobs THEN 3 ELSE IF p \in {1, 2} THEN p ELSE Nothing]
      /\ directory = 0 /\ changes = 0 /\ capture = NoCapture /\ concluded = [purpose |-> "none"] /\ moments = {}
      BY DEF SnapInit
<1>2. blob \in Blobs
      BY SnapshotAssumption
<1>3. Link(blob) \in InodeRecord /\ File(<< 0, 0 >>) \in InodeRecord
      BY <1>2 DEF Link, File, InodeRecord, Bytes
<1>4. Link(blob).stamp = 0 /\ File(<< 0, 0 >>).stamp = 0 /\ File(<< 0, 0 >>).kind = "file"
      BY DEF Link, File
<1> HIDE DEF blob
<1>5. /\ inode \in Seq(InodeRecord) /\ DOMAIN inode = {1, 2, 3} /\ inode[3].kind = "file"
      /\ \A id \in DOMAIN inode : inode[id].stamp = 0
      BY <1>1, <1>3, <1>4
<1>6. TreeTyped
  <2>1. at \in [Places -> DOMAIN inode \cup {Nothing}] /\ \A b \in Blobs : at[b] = 3
        BY <1>1, <1>5 DEF Places
  <2> QED  BY <1>1, <1>5, <2>1 DEF TreeTyped
<1>7. CampaignHasModel
  <2>1. CASE config = Nothing /\ external = Nothing /\ imported = Nothing
        BY <1>1, <2>1 DEF CampaignHasModel
  <2>2. CASE config = Content /\ external = Manifest(config, 0) /\ imported = external
    <3>1. config # Nothing
          BY <1>6, <2>2, ContentIs, NothingIsNoValue
    <3> QED  BY <1>1, <2>2, <3>1 DEF CampaignHasModel, Manifest
  <2> QED  BY <2>1, <2>2 DEF SnapInit
<1>8. SnapshotIsOfOneMoment
      BY <1>1 DEF SnapshotIsOfOneMoment
<1> QED  BY <1>1, <1>6, <1>7, <1>8 DEF SnapshotInvariant, CaptureIsSound

\* However another process writes to the model, replaces, moves or removes its files
\* while it is hashed, a manifest is of one moment, and a refusal has its reason.
THEOREM SnapshotsAreOfOneMoment == SnapInit /\ [][SnapNext]_snapvars => []SnapshotIsOfOneMoment
<1>1. SnapInit => SnapshotInvariant
      BY SnapshotsStart
<1>2. SnapshotInvariant /\ [SnapNext]_snapvars => SnapshotInvariant'
  <2> SUFFICES ASSUME SnapshotInvariant, [SnapNext]_snapvars  PROVE SnapshotInvariant'
      OBVIOUS
  <2>1. CASE UNCHANGED snapvars
    <3>1. UNCHANGED tree /\ capture' = capture /\ moments' = moments /\ external' = external /\ config' = config
          /\ imported' = imported /\ concluded' = concluded
          BY <2>1 DEF snapvars, tree
    <3>2. TreeTyped' /\ CampaignHasModel' /\ SnapshotIsOfOneMoment'
          BY <3>1, TreeIsStill DEF SnapshotInvariant, CampaignHasModel, SnapshotIsOfOneMoment
    <3>3. CaptureIsSound'
      <4>1. at' = at /\ inode' = inode /\ directory' = directory /\ changes' = changes /\ Content' = Content /\ Listing' = Listing
            BY <3>1, TreeIsStill
      <4>2. CASE capture = NoCapture
            BY <3>1, <4>2 DEF CaptureIsSound
      <4>3. CASE capture # NoCapture
        <5>1. /\ capture \in CaptureRecord /\ Content \in moments /\ FileIsTheSeen /\ ReadIsTheOpened
              /\ BindingsDescribe /\ OneMomentIsLeft /\ QuietCapture
              BY <4>3 DEF CaptureIsSound, SnapshotInvariant
        <5>2. FileIsTheSeen'
          <6>1. FileInHand' = FileInHand
                BY <3>1 DEF FileInHand
          <6> QED  BY <3>1, <4>1, <5>1, <6>1 DEF FileIsTheSeen, Taken, Untouched, TargetOf
        <5>3. ReadIsTheOpened'
              BY <3>1, <4>1, <5>1 DEF ReadIsTheOpened, Taken, Untouched
        <5>4. BindingsDescribe'
              BY <3>1, <5>1, BindingsStay
        <5>5. OneMomentIsLeft'
              BY <3>1, <5>1, MomentStays DEF OneMomentIsLeft
        <5>6. QuietCapture'
              BY <3>1, <5>1, QuietStays DEF QuietCapture
        <5> QED  BY <3>1, <4>1, <5>1, <5>2, <5>3, <5>4, <5>5, <5>6 DEF CaptureIsSound
      <4> QED  BY <4>2, <4>3
    <3> QED  BY <3>2, <3>3 DEF SnapshotInvariant
  <2>2. CASE OtherProcess
        BY <2>2, OthersKeepSnapshots
  <2>3. CASE CaptureStep
        BY <2>3, StepsStartCapture, StepsStatDirectory, StepsLstatFile, StepsReadlink, StepsOpenTarget, StepsHashChunk,
           StepsFstat, StepsStatTarget, StepsLstatAgain, StepsListAgain, StepsStatAgain, StepsVerifyBinding,
           StepsFinishCapture, StepsCompleteCapture
        DEF CaptureStep
  <2> QED  BY <2>1, <2>2, <2>3 DEF SnapNext
<1>3. SnapshotInvariant => SnapshotIsOfOneMoment
      BY DEF SnapshotInvariant
<1> QED  BY <1>1, <1>2, <1>3, PTL

\* What runs beside the other programs leaves the ports and the snapshot alone.
toolvars == << program, kvvars, cmdvars, evalvars, portvars, snapvars >>

\* What a vLLM campaign measures is what its ports say it is, on the model that its
\* manifest describes, whichever of the programs runs.
THEOREM WhatIsMeasuredIsHonest == ToolsInit /\ [][ToolsNext]_toolvars => []MeasurementsAreHonest
<1>1. ToolsInit => PortsInit /\ SnapInit
      BY DEF ToolsInit
<1>2. [ToolsNext]_toolvars => [PortsNext]_portvars /\ [SnapNext]_snapvars
      BY DEF ToolsNext, KV, Command, Evaluator, Ports, Snapshot, toolvars
<1>3. PortsMeasureHonestly /\ SnapshotIsOfOneMoment => MeasurementsAreHonest
      BY DEF MeasurementsAreHonest
<1> QED  BY <1>1, <1>2, <1>3, PortsAreHonest, SnapshotsAreOfOneMoment, PTL
==============================================================================
