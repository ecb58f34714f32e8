------------------------------- MODULE Campaign -------------------------------
(***************************************************************************)
(* The outer campaign: CampaignEngine (campaign.py) judges the candidates  *)
(* of one strategy after the other and validates a combination of winners; *)
(* run_campaign_step (campaign_control.py) advances one revision per call, *)
(* from the operator's documents; CampaignStore (campaign_store.py) saves  *)
(* exactly the next revision.                                              *)
(*                                                                         *)
(* Controllers are processes that run `gpuopt campaign run`.  They load    *)
(* the record, save its successor and publish what follows from it; others *)
(* act in between and each may crash.  A document may be submitted again   *)
(* at any time.  A call that raises changes nothing and is no step; what   *)
(* it left in the versioned evidence store is not part of the state.       *)
(***************************************************************************)
EXTENDS Naturals, Sequences

CONSTANTS
  StrategyOrder,  \* the configured strategies, in the order they run
  Plan,           \* the strategy of each candidate, in the order of the plan
  Findings,       \* what the documents of the campaign may say: functions on candidates
  Controllers, Nobody,
  MaxCrashes      \* bound of the model

Strategy == {"mixed_bit", "shape_kernel", "kv_cache"}
Turns == DOMAIN StrategyOrder
Candidates == DOMAIN Plan

\* strategy_order repeats nothing, and the planner makes candidates for every
\* configured strategy and no other.
ASSUME PlanAssumption ==
  /\ StrategyOrder \in Seq(Strategy) /\ Plan \in Seq(Strategy)
  /\ \A s, t \in Turns : StrategyOrder[s] = StrategyOrder[t] => s = t
  /\ \A c \in Candidates : \E t \in Turns : StrategyOrder[t] = Plan[c]
  /\ \A t \in Turns : \E c \in Candidates : StrategyOrder[t] = Plan[c]
  /\ Turns # {}

\* What the operator's documents say of a candidate; quality is measured only
\* after a performance pass.
CandidateEvidence ==
  [performance : {"ACCEPT"}, quality : BOOLEAN]
    \cup [performance : {"REJECT", "INCONCLUSIVE"}, quality : {FALSE}]

ASSUME FindingsAssumption == Findings \subseteq [Candidates -> CandidateEvidence]

ASSUME ControllersAssumption == Nobody \notin Controllers /\ MaxCrashes \in Nat

VARIABLES
  record,      \* state/campaign.json
  evidence,    \* candidate -> what its gate and quality documents say
  lock,        \* who is inside the task lock
  controller,
  breakdown,   \* the revision reports/session-breakdown.json was made of
  report,      \* reports/campaign-final.json: the status it reports
  crashes

vars == << record, evidence, lock, controller, breakdown, report, crashes >>

CampaignStage ==
  { "ABSENT", "CREATE_CAMPAIGN", "INSPECT_TARGET", "CAPTURE_SHARED_BASELINES",
    "PLAN_CANDIDATES", "RUN", "SELECT_WINNERS", "BUILD_COMPATIBLE_COMBINATION",
    "FINAL_VALIDATION", "COMPLETE" }

Verdict == {"EXPERIMENTAL_ACCEPTED", "REJECTED", "INCONCLUSIVE", "SKIPPED"}
Disposition == {"ABSENT", "PLANNED", "RUNNING"} \cup Verdict
AttemptDisposition == {"EXPERIMENTAL_ACCEPTED", "REJECTED", "INCONCLUSIVE"}
CampaignStatus == {"EXPERIMENTAL_ACCEPTED", "REJECTED", "INCONCLUSIVE"}

Compatibility ==
  [verdict : {"COMPATIBLE", "INCOMPATIBLE", "INCONCLUSIVE"}, ids : SUBSET Candidates]
Combination ==  \* that of the final validation
  [verdict : {"VALIDATED", "REJECTED", "INCONCLUSIVE"}, ids : SUBSET Candidates]
None == [verdict |-> "NONE", ids |-> {}]

CampaignRecord ==
  [ stage : CampaignStage,
    turn : Turns \cup {0},          \* which RUN_* stage, 0 in the other stages
    status : {"ACTIVE"} \cup CampaignStatus,
    disposition : [Candidates -> Disposition],
    attempts : SUBSET (Candidates \X AttemptDisposition),  \* of the ledger
    selected : SUBSET Candidates,   \* the winners, and the ledger's stack
    compatibility : Compatibility \cup {None},
    combination : Combination \cup {None},
    revision : Nat ]

TurnOf(c) == CHOOSE t \in Turns : StrategyOrder[t] = Plan[c]
Terminal(r, c) == r.disposition[c] \in Verdict
Accepted(r) == { c \in Candidates : r.disposition[c] = "EXPERIMENTAL_ACCEPTED" }

-----------------------------------------------------------------------------
(***************************************************************************)
(* CampaignEngine: the successors of a record.                             *)
(***************************************************************************)

Updated(r) == [r EXCEPT !.revision = @ + 1]

First(S) == { c \in S : \A e \in S : c <= e }

\* Mutant: the next planned peer is not activated.
Activations_None(disposition, turn) == {disposition}

\* _activate_next_candidate: the first planned candidate of the strategy runs,
\* unless one runs already.  The one result, as a set.
Activations(disposition, turn) ==
  LET planned == { c \in Candidates : TurnOf(c) = turn /\ disposition[c] = "PLANNED" }
  IN  IF planned = {} \/ \E c \in Candidates : disposition[c] = "RUNNING"
      THEN {disposition}
      ELSE { [disposition EXCEPT ![c] = "RUNNING"] : c \in First(planned) }

\* _candidate_gate: a performance pass must be paid for with quality.
CandidateGate(e) ==
  CASE e.performance = "REJECT" -> "REJECTED"
    [] e.performance = "INCONCLUSIVE" -> "INCONCLUSIVE"
    [] OTHER -> IF e.quality THEN "EXPERIMENTAL_ACCEPTED" ELSE "REJECTED"

\* record_optimization_attempt; a skipped candidate was not attempted.
Attempted(r, c, verdict) ==
  IF verdict = "SKIPPED" THEN r.attempts ELSE r.attempts \cup {<<c, verdict>>}

\* record_candidate_result of the running candidate c.  The one result, as a set.
Judged(r, c, verdict) ==
  { [ Updated(r) EXCEPT !.disposition = disposition, !.attempts = Attempted(r, c, verdict) ] :
      disposition \in Activations([r.disposition EXCEPT ![c] = verdict], r.turn) }

\* At most one mixed-bit and one KV-cache winner.
Admissible ==
  { W \in SUBSET Candidates :
      \A c, e \in W : c # e /\ Plan[c] = Plan[e] => Plan[c] = "shape_kernel" }

-----------------------------------------------------------------------------
(***************************************************************************)
(* CampaignStore                                                           *)
(***************************************************************************)

Idle == [pc |-> "idle"]

\* create: refused when the campaign exists, one revision zero otherwise.
Create(k) ==
  /\ controller[k] = Idle /\ lock = Nobody
  /\ record.stage = "ABSENT"
  /\ record' = [record EXCEPT !.stage = "CREATE_CAMPAIGN"]
  /\ lock' = k
  /\ controller' = [controller EXCEPT ![k] = [pc |-> "publishing", held |-> record']]
  /\ UNCHANGED << evidence, breakdown, report, crashes >>

Load(k) ==
  /\ controller[k] = Idle
  /\ record.stage \notin {"ABSENT", "COMPLETE"}
  /\ controller' = [controller EXCEPT ![k] = [pc |-> "loaded", held |-> record]]
  /\ UNCHANGED << record, evidence, lock, breakdown, report, crashes >>

\* Mutant: the stored revision is not compared.
Save_LastWriterWins(k, next) ==
  /\ lock = Nobody
  /\ record' = next /\ lock' = k
  /\ controller' = [controller EXCEPT ![k] = [pc |-> "publishing", held |-> next]]
  /\ UNCHANGED << evidence, breakdown, report, crashes >>

\* save: exactly the next revision, any other is a conflict.
Save(k, next) ==
  /\ lock = Nobody
  /\ IF next.revision = record.revision + 1
     THEN /\ record' = next /\ lock' = k
          /\ controller' = [controller EXCEPT ![k] = [pc |-> "publishing", held |-> next]]
     ELSE controller' = [controller EXCEPT ![k] = Idle] /\ UNCHANGED << record, lock >>
  /\ UNCHANGED << evidence, breakdown, report, crashes >>

\* Mutant: the lock is released before the breakdown is made.
Publish_Unlocked(k) ==
  /\ controller[k].pc = "publishing"
  /\ IF lock = k
     THEN lock' = Nobody /\ UNCHANGED << controller, breakdown >>
     ELSE /\ breakdown' = controller[k].held.revision
          /\ controller' = [controller EXCEPT ![k] =
               IF @.held.stage = "COMPLETE" THEN [pc |-> "reporting", held |-> @.held] ELSE Idle]
          /\ UNCHANGED lock
  /\ UNCHANGED << record, evidence, report, crashes >>

\* The breakdown and the event follow the record inside the lock.
Publish(k) ==
  /\ controller[k].pc = "publishing"
  /\ breakdown' = controller[k].held.revision
  /\ lock' = Nobody
  /\ controller' = [controller EXCEPT ![k] =
       IF @.held.stage = "COMPLETE" THEN [pc |-> "reporting", held |-> @.held] ELSE Idle]
  /\ UNCHANGED << record, evidence, report, crashes >>

-----------------------------------------------------------------------------
(***************************************************************************)
(* run_campaign_step, one action per stage.                                *)
(***************************************************************************)

Held(k) == controller[k].held
At(k, stage) == controller[k].pc = "loaded" /\ Held(k).stage = stage

\* The stages before planning ask for documents that are only bound by hash.
Successor ==
  [ CREATE_CAMPAIGN |-> "INSPECT_TARGET", INSPECT_TARGET |-> "CAPTURE_SHARED_BASELINES",
    CAPTURE_SHARED_BASELINES |-> "PLAN_CANDIDATES" ]

Prepare(k) ==
  /\ controller[k].pc = "loaded" /\ Held(k).stage \in DOMAIN Successor
  /\ Save(k, [Updated(Held(k)) EXCEPT !.stage = Successor[@]])

PlanCandidates(k) ==
  /\ At(k, "PLAN_CANDIDATES")
  /\ \E disposition \in Activations([c \in Candidates |-> "PLANNED"], 1) :
       Save(k, [ Updated(Held(k)) EXCEPT !.stage = "RUN", !.turn = 1,
                                         !.disposition = disposition ])

\* Mutant: the candidate that a document names is not compared.
RecordCandidateResult_AnyDocument(k) ==
  /\ At(k, "RUN")
  /\ \E c, named \in Candidates : \E verdict \in {CandidateGate(evidence[named]), "SKIPPED"} :
       /\ Held(k).disposition[c] = "RUNNING"
       /\ \E next \in Judged(Held(k), c, verdict) : Save(k, next)

\* A document is taken only for the running candidate, so one that is submitted
\* again after it took effect is refused.
RecordCandidateResult(k) ==
  /\ At(k, "RUN")
  /\ \E c \in Candidates : \E verdict \in {CandidateGate(evidence[c]), "SKIPPED"} :
       /\ Held(k).disposition[c] = "RUNNING"
       /\ \E next \in Judged(Held(k), c, verdict) : Save(k, next)

\* advance, once no candidate is running and all of the strategy are judged.
CompleteStrategy(k) ==
  /\ At(k, "RUN")
  /\ \A c \in Candidates :
       /\ Held(k).disposition[c] # "RUNNING"
       /\ TurnOf(c) = Held(k).turn => Terminal(Held(k), c)
  /\ IF Held(k).turn = Len(StrategyOrder)
     THEN Save(k, [Updated(Held(k)) EXCEPT !.stage = "SELECT_WINNERS", !.turn = 0])
     ELSE \E disposition \in Activations(Held(k).disposition, Held(k).turn + 1) :
            Save(k, [ Updated(Held(k)) EXCEPT !.turn = @ + 1, !.disposition = disposition ])

\* Without a document all accepted win, which only one may do unasked.
SelectWinners(k) ==
  /\ At(k, "SELECT_WINNERS")
  /\ \E selected \in (SUBSET Accepted(Held(k))) \cap Admissible :
       Save(k, [ Updated(Held(k)) EXCEPT !.stage = "BUILD_COMPATIBLE_COMBINATION",
                                         !.selected = selected ])

\* Compatibility speaks of the winners.  The combination built of them is left
\* out: the one of the final validation replaces it and nothing reads it before.
BuildCombination(k) ==
  /\ At(k, "BUILD_COMPATIBLE_COMBINATION")
  /\ \E compatibility \in Compatibility :
       /\ compatibility.ids \subseteq Held(k).selected
       /\ Save(k, [ Updated(Held(k)) EXCEPT !.stage = "FINAL_VALIDATION",
                                            !.compatibility = compatibility ])

\* The combination that each terminal status requires.
Required == [ EXPERIMENTAL_ACCEPTED |-> "VALIDATED", REJECTED |-> "REJECTED",
              INCONCLUSIVE |-> "INCONCLUSIVE" ]

\* What campaign_invariants demands of an accepted campaign.
Acceptable(r, combination) ==
  /\ r.selected # {} /\ combination.ids # {}
  /\ r.compatibility.verdict = "COMPATIBLE"

ValidateFinal(k) ==
  /\ At(k, "FINAL_VALIDATION")
  /\ \E status \in CampaignStatus, combination \in Combination :
       /\ combination.verdict = Required[status]
       /\ combination.ids \subseteq Held(k).compatibility.ids
       /\ status = "EXPERIMENTAL_ACCEPTED" => Acceptable(Held(k), combination)
       /\ Save(k, [ Updated(Held(k)) EXCEPT !.stage = "COMPLETE", !.status = status,
                                            !.combination = combination ])

\* The final report follows the save, outside the lock.
Report(k) ==
  /\ controller[k].pc = "reporting"
  /\ report' = Held(k).status
  /\ controller' = [controller EXCEPT ![k] = Idle]
  /\ UNCHANGED << record, evidence, lock, breakdown, crashes >>

\* The kernel releases the lock of a process that dies.
Crash(k) ==
  /\ controller[k] # Idle
  /\ crashes < MaxCrashes
  /\ crashes' = crashes + 1
  /\ controller' = [controller EXCEPT ![k] = Idle]
  /\ lock' = IF lock = k THEN Nobody ELSE lock
  /\ UNCHANGED << record, evidence, breakdown, report >>

-----------------------------------------------------------------------------
Init ==
  /\ record = [ stage |-> "ABSENT", turn |-> 0, status |-> "ACTIVE",
                disposition |-> [c \in Candidates |-> "ABSENT"],
                attempts |-> {}, selected |-> {},
                compatibility |-> None, combination |-> None, revision |-> 0 ]
  /\ evidence \in Findings
  /\ lock = Nobody
  /\ controller = [k \in Controllers |-> Idle]
  /\ breakdown = 0
  /\ report = "NONE"
  /\ crashes = 0

Step(k) ==
  \/ Prepare(k) \/ PlanCandidates(k) \/ RecordCandidateResult(k)
  \/ CompleteStrategy(k) \/ SelectWinners(k) \/ BuildCombination(k) \/ ValidateFinal(k)

Drive(k) == Create(k) \/ Load(k) \/ Step(k) \/ Publish(k) \/ Report(k)

Next == \E k \in Controllers : Drive(k) \/ Crash(k)

Spec == Init /\ [][Next]_vars

\* The operator goes on running `campaign run` with the documents it asks for.
FairSpec == Spec /\ \A k \in Controllers : WF_vars(Drive(k))

-----------------------------------------------------------------------------
(***************************************************************************)
(* Properties.                                                             *)
(***************************************************************************)

\* Every variable keeps to its type.
TypeOK ==
  /\ record \in CampaignRecord
  /\ evidence \in Findings
  /\ lock \in Controllers \cup {Nobody}
  /\ \A k \in Controllers :
       controller[k] \in {Idle} \cup [ pc : {"loaded", "publishing", "reporting"},
                                      held : CampaignRecord ]
  /\ breakdown \in Nat
  /\ report \in {"NONE"} \cup CampaignStatus
  /\ crashes \in 0 .. MaxCrashes

\* An accepted candidate has passed its own performance gate and its own quality,
\* whatever documents are submitted again and whichever controllers race:
\* "callers cannot declare an acceptance".
AcceptanceIsEarned ==
  \A c \in Accepted(record) : evidence[c].performance = "ACCEPT" /\ evidence[c].quality

\* The optimization ledger and the candidates tell the same story: one attempt
\* for each candidate that was run to a verdict, and none else.
LedgerMatchesVerdicts ==
  record.attempts =
    { <<c, record.disposition[c]>> :
        c \in { e \in Candidates : record.disposition[e] \in AttemptDisposition } }

\* An accepted campaign validated a combination of winners that were found
\* compatible before, each of them accepted on its own.
AcceptedOnCompatibleWinners ==
  record.status = "EXPERIMENTAL_ACCEPTED" =>
    /\ record.combination.verdict = "VALIDATED" /\ record.combination.ids # {}
    /\ record.compatibility.verdict = "COMPATIBLE"
    /\ record.combination.ids \subseteq record.compatibility.ids
    /\ record.compatibility.ids \subseteq record.selected
    /\ record.selected \subseteq Accepted(record)

\* Unless a controller crashed, whoever can take the task lock finds the session
\* breakdown made of the current revision.
BreakdownFollowsRecord ==
  lock = Nobody /\ crashes = 0 => breakdown = record.revision

Contest == INSTANCE Tournament WITH
  Turn <- [c \in Candidates |-> TurnOf(c)],
  verdict <- [c \in Candidates |->
                IF Terminal(record, c) THEN record.disposition[c] ELSE "OPEN"],
  chosen <- record.stage \in { "BUILD_COMPATIBLE_COMBINATION", "FINAL_VALIDATION",
                               "COMPLETE" },
  winners <- record.selected,
  outcome <- record.status

\* Seen from outside the campaign is a tournament: no verdict is missed, revised
\* or given twice, none comes after the choice of the winners, and the outcome is
\* final, whatever controllers race, crash or start again.
ImplementsTournament == Contest!Spec

\* A campaign once created is brought to its end: no stage waits for something
\* that nobody can provide.
CampaignCompletes == record.stage # "ABSENT" ~> record.stage = "COMPLETE"

\* The record is valid, and what it accepts was earned candidate by candidate and
\* as a combination, with one entry of the ledger for each attempt.
CampaignIsSound ==
  TypeOK /\ AcceptanceIsEarned /\ LedgerMatchesVerdicts /\ AcceptedOnCompatibleWinners
=============================================================================
