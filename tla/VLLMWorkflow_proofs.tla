------------------------- MODULE VLLMWorkflow_proofs -------------------------
(***************************************************************************)
(* What the vLLM coordinator keeps, for any number of drivers, experiments,*)
(* sessions and crashes and for any budget: records stay sound, approvals  *)
(* are transported once and a budget closure is final.  For a sole driver  *)
(* whose server does not exit by itself, the GPU is accounted, exclusive   *)
(* and honestly offered.                                                   *)
(*                                                                         *)
(* Most of the argument is about one record: Shape holds of every record a *)
(* driver ever computes, whoever else acts, because it speaks of nothing   *)
(* but the record.                                                         *)
(***************************************************************************)
EXTENDS VLLMWorkflow, TLAPS

Exhausted(r) == GpuSecondsUsed(r) >= Budget

\* The stages that come before an experiment.
Before == {"INSPECT", "SERVER_START", "BASELINE", "PROFILE_APPROVAL", "AGENT_DECISION"}

\* A server is active in the stages that use it, and nowhere else.
PhaseFollowsStage(r) ==
  /\ r.activePhase = "baseline_server" =>
       r.stage \in {"SERVER_START", "BASELINE", "PROFILE_APPROVAL"} /\ r.baselineRequest
  /\ r.activePhase = "candidate_server" =>
       r.stage \in {"EXPERIMENT", "QUALITY"} /\ r.candidateRequest = r.experimentCount
  /\ r.status # "ACTIVE" => r.activePhase = "none"

\* How far the baseline has come.
BaselineFollows(r) ==
  /\ r.stage = "INSPECT" => ~r.baselineMustStop
  /\ r.stage = "SERVER_START" => (r.baselineMustStop <=> r.activePhase = "baseline_server")
  /\ r.stage = "BASELINE" => r.activePhase = "baseline_server"
  /\ r.stage = "PROFILE_APPROVAL" => (r.baselineStopped <=> r.activePhase = "none")
  /\ r.stage \in {"INSPECT", "SERVER_START", "BASELINE"} => ~r.baselineStopped

\* How far the candidate has come.
CandidateFollows(r) ==
  /\ r.candidateRequest # NoRequest <=> r.candidateStarted \/ r.candidateMustStop
  /\ r.quality # NoEvidence => r.candidateRequest # NoRequest
  /\ r.stage = "QUALITY" => r.candidateRequest # NoRequest
  /\ r.stage = "EXPERIMENT" /\ r.activePhase # "none" => r.quality = NoEvidence

\* Only a rerun leaves a candidate behind.
FirstPass(r) ==
  r.rerunCount = 0 =>
    /\ r.stage \in Before => r.experimentCount = 0 /\ r.candidateRequest = NoRequest
    /\ r.stage \in {"EXPERIMENT", "QUALITY"} /\ r.candidateRequest # NoRequest =>
         r.activePhase = "candidate_server"

\* What an end leaves to be resumed.
EndFollows(r) ==
  /\ r.status # "INCONCLUSIVE" => r.rerun = NoStage
  /\ r.rerun = "DISCOVER_HOTSPOTS" => r.stage = "PROFILE_APPROVAL" /\ r.baselineStopped
  /\ r.rerun \in RerunStages => r.stage = "DECIDE"

\* Nothing can be aborted once the budget is used up and the server stopped.
ClosedQuiet(r) == r.activePhase = "none" /\ Exhausted(r) => ~RunActive(r)

Shape(r) ==
  /\ PhaseFollowsStage(r) /\ BaselineFollows(r) /\ CandidateFollows(r) /\ FirstPass(r)
  /\ EndFollows(r) /\ ClosedQuiet(r)
  /\ r.approval # "NONE" => r.attempts > 0

-----------------------------------------------------------------------------
(* Time.                                                                   *)

\* When the server last started or stopped.
LastChange == IF server.status = "STOPPED" THEN server.stoppedAt ELSE server.since

\* What is charged lies before the session that is charged next.
Timed(r) ==
  /\ r.serverSeconds <= LastChange /\ r.profileSeconds <= clock
  /\ r.activePhase # "none" => r.serverSeconds <= r.activeSince /\ r.activeSince <= server.since

ServerInv ==
  /\ server.since <= clock /\ server.stoppedAt <= clock
  /\ server.status = "STOPPED" => server.since <= server.stoppedAt
  /\ server.alive => server.status = "RUNNING" /\ server.session > 0 /\ server.request \in Request
  /\ serverTicks <= clock

-----------------------------------------------------------------------------
(* Drivers.                                                                *)

Busy(d) == driver[d].pc # "idle"

\* The record a driver has computed or holds.
Copy(d) == IF driver[d].pc = "saving" THEN driver[d].next ELSE driver[d].held

Formed(r) == r \in VLLMWorkflowRecord /\ Shape(r)

Good(r) == Formed(r) /\ Timed(r)

\* The record of a profile that is being run.
Profiled(r) ==
  r.stage = "PROFILE_APPROVAL" /\ r.baselineStopped /\ r.approval = "CONSUMED"

DriverFollows(d) ==
  /\ Good(Copy(d))
  /\ driver[d].pc \in {"saving", "finalizing", "profiling", "result", "failure"} => Copy(d).status = "ACTIVE"
  /\ driver[d].pc \in {"profiling", "result", "failure"} => Profiled(Copy(d))
  /\ driver[d].pc = "profiling" => Copy(d).profileSeconds <= driver[d].since /\ driver[d].since <= clock
  /\ driver[d].pc = "saving" /\ driver[d].then = "profiling" => Profiled(Copy(d))

\* Nobody has saved since.
Fresh(d) ==
  ~driver[d].stale => IF driver[d].pc = "saving" THEN record.status = "ACTIVE" ELSE driver[d].held = record

Drivers_Inv == \A d \in Drivers : Busy(d) => DriverFollows(d) /\ Fresh(d)

\* An approval that was spent is with the one driver that transports it.
Transporting(d, a) ==
  driver[d].pc = "saving" /\ driver[d].then = "profiling" /\ driver[d].next.attempts = a

TransportInv ==
  \A a \in 1 .. MaxAttempts :
    /\ transports[a] \in {0, 1}
    /\ a \notin consumed => transports[a] = 0 /\ \A d \in Drivers : ~Transporting(d, a)
    /\ \A d \in Drivers : Transporting(d, a) => transports[a] = 0
    /\ \A d, e \in Drivers : Transporting(d, a) /\ Transporting(e, a) => d = e

IInv == TypeOK /\ Good(record) /\ ServerInv /\ Drivers_Inv /\ TransportInv

-----------------------------------------------------------------------------
(* A sole driver, and a server that runs until it is stopped.              *)

Sole == (\A d, e \in Drivers : d = e) /\ ~ServerMayDie

RequestOf(r) == IF r.activePhase = "baseline_server" THEN Baseline ELSE r.experimentCount

UnaccountedIn(r) ==
  IF server.alive THEN clock - server.since
  ELSE IF r.activePhase # "none" THEN server.stoppedAt - server.since ELSE 0

\* What a record says of the server.
Linked(r) ==
  /\ serverTicks = r.serverSeconds + UnaccountedIn(r)
  /\ r.activePhase # "none" =>
       /\ server.alive \/ server.status = "STOPPED"
       /\ r.activeSince = server.since /\ server.request = RequestOf(r)
  /\ r.activePhase = "none" /\ server.alive =>
       /\ r.status = "ACTIVE" /\ ~Exhausted(r)
       /\ \/ r.stage = "SERVER_START" /\ server.request = Baseline
          \/ r.stage = "EXPERIMENT" /\ r.candidateRequest = NoRequest /\ server.request = r.experimentCount

\* What a record says of the measurements.
Evident(r) ==
  /\ r.stage = "QUALITY" =>
       r.activePhase = "candidate_server" /\ r.result = Measured /\ r.quality \in {NoEvidence, Measured}
  /\ r.stage = "DECIDE" => r.quality = r.result /\ r.result.request = r.experimentCount

\* An approval is spent only while it is about to be transported.
ApprovalInv ==
  /\ consumed \subseteq 1 .. record.attempts
  /\ crashes = 0 /\ record.approval \in {"REQUESTED", "APPROVED"} /\ record.attempts \in consumed =>
       \E d \in Drivers : driver[d].pc = "saving" /\ driver[d].then = "profiling"

SoleInv ==
  /\ Linked(record) /\ Evident(record) /\ ApprovalInv
  /\ ~server.alive => server.status \in {"NONE", "STOPPED"}
  /\ \A d \in Drivers : Busy(d) => ~driver[d].stale
  /\ \A d \in Drivers :
       driver[d].pc = "saving" =>
         /\ Linked(driver[d].next) /\ Evident(driver[d].next)
         /\ driver[d].next.attempts = record.attempts
         /\ driver[d].then # "profiling" => driver[d].next.approval = record.approval

-----------------------------------------------------------------------------
(* What next_action tells of the record.                                   *)

LEMMA Constants ==
  /\ Budget \in Nat \ {0} /\ MaxExperiments \in Nat \ {0} /\ MaxClock \in Nat /\ MaxSessions \in Nat
  /\ MaxAttempts \in Nat /\ MaxReruns \in Nat /\ MaxCrashes \in Nat
  /\ ServerMayDie \in BOOLEAN /\ CoordinatesMayDrift \in BOOLEAN
BY ConstantsAssumption

LEMMA RecordFields ==
  ASSUME NEW r \in VLLMWorkflowRecord
  PROVE  /\ r.stage \in VLLMStage /\ r.status \in {"ACTIVE", "ACCEPTED", "REJECTED", "INCONCLUSIVE"}
         /\ r.rerun \in RerunStages \cup {NoStage, "DISCOVER_HOTSPOTS"}
         /\ r.baselineRequest \in BOOLEAN /\ r.baselineMustStop \in BOOLEAN /\ r.baselineStopped \in BOOLEAN
         /\ r.approval \in {"NONE", "REQUESTED", "APPROVED", "CONSUMED"} /\ r.attempts \in 0 .. MaxAttempts
         /\ r.candidateRequest \in Request \cup {NoRequest} /\ r.candidateMustStop \in BOOLEAN
         /\ r.candidateStarted \in BOOLEAN /\ r.result \in Evidence \cup {NoEvidence}
         /\ r.quality \in Evidence \cup {NoEvidence}
         /\ r.activePhase \in {"none", "baseline_server", "candidate_server"}
         /\ r.activeSince \in Nat /\ r.serverSeconds \in Nat /\ r.profileSeconds \in Nat
         /\ r.experimentCount \in 0 .. MaxExperiments /\ r.rerunCount \in 0 .. MaxReruns
BY Constants DEF VLLMWorkflowRecord

\* A kind that is neither a stop nor for an ended task is offered within the
\* budget, at the stage that it belongs to.
LEMMA ActionsOffered ==
  ASSUME NEW r \in VLLMWorkflowRecord
  PROVE  /\ NextAction(r) = "PROVIDE_INSPECTION" => r.stage = "INSPECT"
         /\ NextAction(r) = "START_SERVER" => r.stage = "SERVER_START" /\ ~r.baselineMustStop
         /\ NextAction(r) = "RUN_BASELINE" => r.stage = "BASELINE" /\ ~r.baselineMustStop
         /\ NextAction(r) \in {"REQUEST_PROFILE_APPROVAL", "APPROVE_PROFILE", "RUN_APPROVED_PROFILE",
                               "RECORD_PROFILE_RESULT", "RESOLVE_PROFILE_ENVIRONMENT"} =>
              r.stage = "PROFILE_APPROVAL" /\ r.baselineStopped
         /\ NextAction(r) = "REQUEST_PROFILE_APPROVAL" => r.approval = "NONE"
         /\ NextAction(r) = "APPROVE_PROFILE" => r.approval = "REQUESTED"
         /\ NextAction(r) = "RUN_APPROVED_PROFILE" => r.approval = "APPROVED"
         /\ NextAction(r) = "SUBMIT_AGENT_DECISION" => r.stage = "AGENT_DECISION"
         /\ NextAction(r) = "START_EXPERIMENT_SERVER" =>
              r.stage = "EXPERIMENT" /\ ~r.candidateMustStop /\ ~r.candidateStarted
         /\ NextAction(r) = "RUN_EXPERIMENT" =>
              r.stage = "EXPERIMENT" /\ ~r.candidateMustStop /\ r.candidateStarted
         /\ NextAction(r) = "RUN_QUALITY" => r.stage = "QUALITY" /\ ~r.candidateMustStop /\ r.quality = NoEvidence
         /\ NextAction(r) = "EVALUATE_GATE" => r.stage = "DECIDE"
         /\ NextAction(r) = "RESUME_INCONCLUSIVE" => r.status = "INCONCLUSIVE"
         /\ NextAction(r) \notin {"RESUME_INCONCLUSIVE", "COMPLETE"} => r.status = "ACTIVE"
         /\ NextAction(r) \in {"PROVIDE_INSPECTION", "START_SERVER", "RUN_BASELINE", "REQUEST_PROFILE_APPROVAL",
                               "APPROVE_PROFILE", "RUN_APPROVED_PROFILE", "RECORD_PROFILE_RESULT",
                               "RESOLVE_PROFILE_ENVIRONMENT", "SUBMIT_AGENT_DECISION",
                               "START_EXPERIMENT_SERVER", "RUN_EXPERIMENT", "RUN_QUALITY", "EVALUATE_GATE"} =>
              ~BudgetExhausted(r)
<1>1. /\ r.stage \in VLLMStage /\ r.approval \in {"NONE", "REQUESTED", "APPROVED", "CONSUMED"}
      /\ r.status \in {"ACTIVE", "ACCEPTED", "REJECTED", "INCONCLUSIVE"}
      BY RecordFields
<1> QED  BY <1>1 DEF NextAction, ProfileAction, CandidateAction, StopActive, VLLMStage

-----------------------------------------------------------------------------
(* The records that are computed keep their type and Shape.                *)

LEMMA WithinBudget ==
  ASSUME NEW r \in VLLMWorkflowRecord, r.activePhase = "none"
  PROVE  BudgetExhausted(r) <=> Exhausted(r)
BY RecordFields, Constants DEF BudgetExhausted, Exhausted, Projected, GpuSecondsUsed

LEMMA InspectedFormed ==
  ASSUME NEW r, Formed(r), NextAction(r) = "PROVIDE_INSPECTION"
  PROVE  Formed([r EXCEPT !.stage = "SERVER_START"])
<1>1. r \in VLLMWorkflowRecord /\ r.stage = "INSPECT" /\ r.status = "ACTIVE"
      BY ActionsOffered, WithinBudget DEF Formed
<1> DEFINE n == [r EXCEPT !.stage = "SERVER_START"]
<1>2. n \in VLLMWorkflowRecord  BY <1>1, Constants DEF VLLMWorkflowRecord, VLLMStage
<1>3. Shape(n)
      BY <1>1, Constants, RecordFields
      DEF Formed, Shape, PhaseFollowsStage, BaselineFollows, CandidateFollows, FirstPass, EndFollows, ClosedQuiet,
          Exhausted, GpuSecondsUsed, RunActive, Before, VLLMWorkflowRecord
<1> QED  BY <1>2, <1>3 DEF Formed

LEMMA StartedFormed ==
  ASSUME NEW r, Formed(r), NextAction(r) = "START_SERVER", r.activePhase = "none",
         NEW t \in 0 .. MaxClock
  PROVE  Formed([r EXCEPT !.activePhase = "baseline_server", !.activeSince = t, !.baselineRequest = TRUE,
                          !.stage = "BASELINE"])
<1>1. r \in VLLMWorkflowRecord /\ r.stage = "SERVER_START" /\ r.status = "ACTIVE" /\ ~r.baselineMustStop
      BY ActionsOffered, WithinBudget DEF Formed
<1> DEFINE n == [r EXCEPT !.activePhase = "baseline_server", !.activeSince = t, !.baselineRequest = TRUE,
                          !.stage = "BASELINE"]
<1>2. n \in VLLMWorkflowRecord  BY <1>1, Constants DEF VLLMWorkflowRecord, VLLMStage
<1>3. Shape(n)
      BY <1>1, Constants, RecordFields
      DEF Formed, Shape, PhaseFollowsStage, BaselineFollows, CandidateFollows, FirstPass, EndFollows, ClosedQuiet,
          Exhausted, GpuSecondsUsed, RunActive, Before, VLLMWorkflowRecord
<1> QED  BY <1>2, <1>3 DEF Formed

LEMMA StartRefusedFormed ==
  ASSUME NEW r, Formed(r), NextAction(r) = "START_SERVER", r.activePhase = "none",
         NEW t \in 0 .. MaxClock
  PROVE  Formed([r EXCEPT !.activePhase = "baseline_server", !.activeSince = t, !.baselineRequest = TRUE,
                          !.baselineMustStop = TRUE])
<1>1. r \in VLLMWorkflowRecord /\ r.stage = "SERVER_START" /\ r.status = "ACTIVE" /\ ~r.baselineMustStop
      BY ActionsOffered, WithinBudget DEF Formed
<1> DEFINE n == [r EXCEPT !.activePhase = "baseline_server", !.activeSince = t, !.baselineRequest = TRUE,
                          !.baselineMustStop = TRUE]
<1>2. n \in VLLMWorkflowRecord  BY <1>1, Constants DEF VLLMWorkflowRecord, VLLMStage
<1>3. Shape(n)
      BY <1>1, Constants, RecordFields
      DEF Formed, Shape, PhaseFollowsStage, BaselineFollows, CandidateFollows, FirstPass, EndFollows, ClosedQuiet,
          Exhausted, GpuSecondsUsed, RunActive, Before, VLLMWorkflowRecord
<1> QED  BY <1>2, <1>3 DEF Formed

LEMMA CapturedFormed ==
  ASSUME NEW r, Formed(r), NextAction(r) = "RUN_BASELINE"
  PROVE  Formed([r EXCEPT !.stage = "PROFILE_APPROVAL"])
<1>1. r \in VLLMWorkflowRecord /\ r.stage = "BASELINE" /\ r.status = "ACTIVE" /\ ~r.baselineMustStop
      BY ActionsOffered, WithinBudget DEF Formed
<1> DEFINE n == [r EXCEPT !.stage = "PROFILE_APPROVAL"]
<1>2. n \in VLLMWorkflowRecord  BY <1>1, Constants DEF VLLMWorkflowRecord, VLLMStage
<1>3. Shape(n)
      BY <1>1, Constants, RecordFields
      DEF Formed, Shape, PhaseFollowsStage, BaselineFollows, CandidateFollows, FirstPass, EndFollows, ClosedQuiet,
          Exhausted, GpuSecondsUsed, RunActive, Before, VLLMWorkflowRecord
<1> QED  BY <1>2, <1>3 DEF Formed

LEMMA CleanupFormed ==
  ASSUME NEW r, Formed(r), RunActive(r)
  PROVE  Formed(CleanupRequested(r))
<1>1. r \in VLLMWorkflowRecord /\ RunActive(r)
      BY ActionsOffered, WithinBudget DEF Formed
<1> DEFINE n == CleanupRequested(r)
<1>2. n \in VLLMWorkflowRecord  BY <1>1 DEF VLLMWorkflowRecord, CleanupRequested
<1>3. Shape(n)
      BY <1>1, Constants, RecordFields
      DEF Formed, Shape, PhaseFollowsStage, BaselineFollows, CandidateFollows, FirstPass, EndFollows, ClosedQuiet,
          Exhausted, GpuSecondsUsed, RunActive, Before, VLLMWorkflowRecord, CleanupRequested
<1> QED  BY <1>2, <1>3 DEF Formed

LEMMA BaselineCleanedFormed ==
  ASSUME NEW r, Formed(r), r.stage \in {"SERVER_START", "BASELINE"}, r.status = "ACTIVE",
         NEW t \in 0 .. MaxClock
  PROVE  Formed([r EXCEPT !.activePhase = "none", !.activeSince = 0, !.serverSeconds = t,
                          !.stage = "SERVER_START", !.baselineRequest = FALSE, !.baselineMustStop = FALSE])
<1>1. r \in VLLMWorkflowRecord
      BY ActionsOffered, WithinBudget DEF Formed
<1> DEFINE n == [r EXCEPT !.activePhase = "none", !.activeSince = 0, !.serverSeconds = t,
                          !.stage = "SERVER_START", !.baselineRequest = FALSE, !.baselineMustStop = FALSE]
<1>2. n \in VLLMWorkflowRecord
  <2>1. 0 \in 0 .. MaxClock  BY Constants
  <2> QED  BY <1>1, <2>1 DEF VLLMWorkflowRecord, VLLMStage
<1>3. Shape(n)
      BY <1>1, Constants, RecordFields
      DEF Formed, Shape, PhaseFollowsStage, BaselineFollows, CandidateFollows, FirstPass, EndFollows, ClosedQuiet,
          Exhausted, GpuSecondsUsed, RunActive, Before, VLLMWorkflowRecord
<1> QED  BY <1>2, <1>3 DEF Formed

LEMMA BaselineStoppedFormed ==
  ASSUME NEW r, Formed(r), r.stage = "PROFILE_APPROVAL", r.status = "ACTIVE",
         NEW t \in 0 .. MaxClock
  PROVE  Formed([r EXCEPT !.activePhase = "none", !.activeSince = 0, !.serverSeconds = t,
                          !.baselineStopped = TRUE])
<1>1. r \in VLLMWorkflowRecord
      BY ActionsOffered, WithinBudget DEF Formed
<1> DEFINE n == [r EXCEPT !.activePhase = "none", !.activeSince = 0, !.serverSeconds = t,
                          !.baselineStopped = TRUE]
<1>2. n \in VLLMWorkflowRecord
  <2>1. 0 \in 0 .. MaxClock  BY Constants
  <2> QED  BY <1>1, <2>1 DEF VLLMWorkflowRecord, VLLMStage
<1>3. Shape(n)
      BY <1>1, Constants, RecordFields
      DEF Formed, Shape, PhaseFollowsStage, BaselineFollows, CandidateFollows, FirstPass, EndFollows, ClosedQuiet,
          Exhausted, GpuSecondsUsed, RunActive, Before, VLLMWorkflowRecord
<1> QED  BY <1>2, <1>3 DEF Formed

LEMMA RequestedFormed ==
  ASSUME NEW r, Formed(r), r.stage = "PROFILE_APPROVAL", r.status = "ACTIVE", r.attempts < MaxAttempts
  PROVE  Formed([r EXCEPT !.approval = "REQUESTED", !.attempts = @ + 1])
<1>1. r \in VLLMWorkflowRecord /\ r.attempts \in Nat
      BY ActionsOffered, WithinBudget, RecordFields DEF Formed
<1> DEFINE n == [r EXCEPT !.approval = "REQUESTED", !.attempts = @ + 1]
<1>2. n \in VLLMWorkflowRecord
  <2>1. r.attempts + 1 \in 0 .. MaxAttempts  BY Constants, RecordFields, <1>1
  <2> QED  BY <1>1, <2>1 DEF VLLMWorkflowRecord
<1>3. Shape(n)
      BY <1>1, Constants, RecordFields
      DEF Formed, Shape, PhaseFollowsStage, BaselineFollows, CandidateFollows, FirstPass, EndFollows, ClosedQuiet,
          Exhausted, GpuSecondsUsed, RunActive, Before, VLLMWorkflowRecord
<1> QED  BY <1>2, <1>3 DEF Formed

LEMMA ApprovedFormed ==
  ASSUME NEW r, Formed(r), NextAction(r) = "APPROVE_PROFILE"
  PROVE  Formed([r EXCEPT !.approval = "APPROVED"])
<1>1. r \in VLLMWorkflowRecord /\ r.stage = "PROFILE_APPROVAL" /\ r.approval = "REQUESTED"
      BY ActionsOffered, WithinBudget DEF Formed
<1> DEFINE n == [r EXCEPT !.approval = "APPROVED"]
<1>2. n \in VLLMWorkflowRecord  BY <1>1, Constants DEF VLLMWorkflowRecord, VLLMStage
<1>3. Shape(n)
      BY <1>1, Constants, RecordFields
      DEF Formed, Shape, PhaseFollowsStage, BaselineFollows, CandidateFollows, FirstPass, EndFollows, ClosedQuiet,
          Exhausted, GpuSecondsUsed, RunActive, Before, VLLMWorkflowRecord
<1> QED  BY <1>2, <1>3 DEF Formed

LEMMA ConsumedFormed ==
  ASSUME NEW r, Formed(r), NextAction(r) = "RUN_APPROVED_PROFILE"
  PROVE  Formed([r EXCEPT !.approval = "CONSUMED"])
<1>1. r \in VLLMWorkflowRecord /\ r.stage = "PROFILE_APPROVAL" /\ r.approval = "APPROVED"
      BY ActionsOffered, WithinBudget DEF Formed
<1> DEFINE n == [r EXCEPT !.approval = "CONSUMED"]
<1>2. n \in VLLMWorkflowRecord  BY <1>1, Constants DEF VLLMWorkflowRecord, VLLMStage
<1>3. Shape(n)
      BY <1>1, Constants, RecordFields
      DEF Formed, Shape, PhaseFollowsStage, BaselineFollows, CandidateFollows, FirstPass, EndFollows, ClosedQuiet,
          Exhausted, GpuSecondsUsed, RunActive, Before, VLLMWorkflowRecord
<1> QED  BY <1>2, <1>3 DEF Formed

LEMMA ReturnedFormed ==
  ASSUME NEW r, Formed(r), Profiled(r), NEW t \in 0 .. MaxClock
  PROVE  Formed([r EXCEPT !.profileSeconds = t])
<1>1. r \in VLLMWorkflowRecord /\ r.stage = "PROFILE_APPROVAL"
      BY ActionsOffered, WithinBudget DEF Formed, Profiled
<1> DEFINE n == [r EXCEPT !.profileSeconds = t]
<1>2. n \in VLLMWorkflowRecord  BY <1>1, Constants DEF VLLMWorkflowRecord, VLLMStage
<1>3. Shape(n)
      BY <1>1, Constants, RecordFields
      DEF Formed, Shape, PhaseFollowsStage, BaselineFollows, CandidateFollows, FirstPass, EndFollows, ClosedQuiet,
          Exhausted, GpuSecondsUsed, RunActive, Before, VLLMWorkflowRecord
<1> QED  BY <1>2, <1>3 DEF Formed

LEMMA RecordedFormed ==
  ASSUME NEW r, Formed(r), Profiled(r), r.status = "ACTIVE"
  PROVE  Formed([r EXCEPT !.stage = "AGENT_DECISION"])
<1>1. r \in VLLMWorkflowRecord /\ r.stage = "PROFILE_APPROVAL" /\ r.baselineStopped /\ r.activePhase = "none"
      BY DEF Formed, Profiled, Shape, BaselineFollows
<1> DEFINE n == [r EXCEPT !.stage = "AGENT_DECISION"]
<1>2. n \in VLLMWorkflowRecord  BY <1>1, Constants DEF VLLMWorkflowRecord, VLLMStage
<1>3. Shape(n)
      BY <1>1, Constants, RecordFields
      DEF Formed, Shape, PhaseFollowsStage, BaselineFollows, CandidateFollows, FirstPass, EndFollows, ClosedQuiet,
          Exhausted, GpuSecondsUsed, RunActive, Before, VLLMWorkflowRecord, NoStage, RerunStages
<1> QED  BY <1>2, <1>3 DEF Formed

LEMMA UnprofiledFormed ==
  ASSUME NEW r, Formed(r), r.stage = "PROFILE_APPROVAL", r.baselineStopped
  PROVE  Formed(Inconclusive(r, "DISCOVER_HOTSPOTS"))
<1>1. r \in VLLMWorkflowRecord
      BY ActionsOffered, WithinBudget DEF Formed
<1> DEFINE n == Inconclusive(r, "DISCOVER_HOTSPOTS")
<1>2. n \in VLLMWorkflowRecord  BY <1>1, Constants DEF VLLMWorkflowRecord, VLLMStage, Inconclusive, RerunStages, NoStage
<1>3. Shape(n)
      BY <1>1, Constants, RecordFields
      DEF Formed, Shape, PhaseFollowsStage, BaselineFollows, CandidateFollows, FirstPass, EndFollows, ClosedQuiet,
          Exhausted, GpuSecondsUsed, RunActive, Before, VLLMWorkflowRecord, Inconclusive, RerunStages, NoStage
<1> QED  BY <1>2, <1>3 DEF Formed

LEMMA ProposedFormed ==
  ASSUME NEW r, Formed(r), NextAction(r) = "SUBMIT_AGENT_DECISION", r.experimentCount < MaxExperiments
  PROVE  Formed([r EXCEPT !.stage = "EXPERIMENT", !.experimentCount = @ + 1])
<1>1. r \in VLLMWorkflowRecord /\ r.stage = "AGENT_DECISION" /\ r.status = "ACTIVE"
      /\ r.activePhase = "none" /\ ~Exhausted(r)
      BY ActionsOffered, WithinBudget, RecordFields DEF Formed, Shape, PhaseFollowsStage
<1> DEFINE n == [r EXCEPT !.stage = "EXPERIMENT", !.experimentCount = @ + 1]
<1>2. n \in VLLMWorkflowRecord
  <2>1. r.experimentCount + 1 \in 0 .. MaxExperiments  BY Constants, RecordFields, <1>1
  <2> QED  BY <1>1, <2>1 DEF VLLMWorkflowRecord, VLLMStage
<1>3. Shape(n)
      BY <1>1, Constants, RecordFields
      DEF Formed, Shape, PhaseFollowsStage, BaselineFollows, CandidateFollows, FirstPass, EndFollows, ClosedQuiet,
          Exhausted, GpuSecondsUsed, RunActive, Before, VLLMWorkflowRecord
<1> QED  BY <1>2, <1>3 DEF Formed

LEMMA CandidateStartedFormed ==
  ASSUME NEW r, Formed(r), NextAction(r) = "START_EXPERIMENT_SERVER", r.activePhase = "none",
         NEW t \in 0 .. MaxClock
  PROVE  Formed([r EXCEPT !.activePhase = "candidate_server", !.activeSince = t,
                          !.candidateRequest = r.experimentCount, !.candidateStarted = TRUE])
<1>1. r \in VLLMWorkflowRecord /\ r.stage = "EXPERIMENT" /\ r.status = "ACTIVE"
      /\ ~r.candidateMustStop /\ ~r.candidateStarted
      BY ActionsOffered, WithinBudget DEF Formed
<1> DEFINE n == [r EXCEPT !.activePhase = "candidate_server", !.activeSince = t,
                          !.candidateRequest = r.experimentCount, !.candidateStarted = TRUE]
<1>2. n \in VLLMWorkflowRecord  BY <1>1, Constants DEF VLLMWorkflowRecord, VLLMStage, Request, NoRequest
<1>3. Shape(n)
      BY <1>1, Constants, RecordFields
      DEF Formed, Shape, PhaseFollowsStage, BaselineFollows, CandidateFollows, FirstPass, EndFollows, ClosedQuiet,
          Exhausted, GpuSecondsUsed, RunActive, Before, VLLMWorkflowRecord, Request, NoRequest
<1> QED  BY <1>2, <1>3 DEF Formed

LEMMA CandidateRefusedFormed ==
  ASSUME NEW r, Formed(r), NextAction(r) = "START_EXPERIMENT_SERVER", r.activePhase = "none",
         NEW t \in 0 .. MaxClock
  PROVE  Formed([r EXCEPT !.activePhase = "candidate_server", !.activeSince = t,
                          !.candidateRequest = r.experimentCount, !.candidateMustStop = TRUE])
<1>1. r \in VLLMWorkflowRecord /\ r.stage = "EXPERIMENT" /\ r.status = "ACTIVE"
      /\ ~r.candidateMustStop /\ ~r.candidateStarted
      BY ActionsOffered, WithinBudget DEF Formed
<1> DEFINE n == [r EXCEPT !.activePhase = "candidate_server", !.activeSince = t,
                          !.candidateRequest = r.experimentCount, !.candidateMustStop = TRUE]
<1>2. n \in VLLMWorkflowRecord  BY <1>1, Constants DEF VLLMWorkflowRecord, VLLMStage, Request, NoRequest
<1>3. Shape(n)
      BY <1>1, Constants, RecordFields
      DEF Formed, Shape, PhaseFollowsStage, BaselineFollows, CandidateFollows, FirstPass, EndFollows, ClosedQuiet,
          Exhausted, GpuSecondsUsed, RunActive, Before, VLLMWorkflowRecord, Request, NoRequest
<1> QED  BY <1>2, <1>3 DEF Formed

LEMMA MeasuredFormed ==
  ASSUME NEW r, Formed(r), NextAction(r) = "RUN_EXPERIMENT", NEW e \in Evidence
  PROVE  Formed([r EXCEPT !.stage = "QUALITY", !.result = e])
<1>1. r \in VLLMWorkflowRecord /\ r.stage = "EXPERIMENT" /\ r.status = "ACTIVE" /\ r.candidateStarted
      BY ActionsOffered, WithinBudget DEF Formed
<1> DEFINE n == [r EXCEPT !.stage = "QUALITY", !.result = e]
<1>2. n \in VLLMWorkflowRecord  BY <1>1, Constants DEF VLLMWorkflowRecord, VLLMStage
<1>3. Shape(n)
      BY <1>1, Constants, RecordFields
      DEF Formed, Shape, PhaseFollowsStage, BaselineFollows, CandidateFollows, FirstPass, EndFollows, ClosedQuiet,
          Exhausted, GpuSecondsUsed, RunActive, Before, VLLMWorkflowRecord
<1> QED  BY <1>2, <1>3 DEF Formed

LEMMA QualifiedFormed ==
  ASSUME NEW r, Formed(r), NextAction(r) = "RUN_QUALITY", NEW e \in Evidence
  PROVE  Formed([r EXCEPT !.quality = e])
<1>1. r \in VLLMWorkflowRecord /\ r.stage = "QUALITY"
      BY ActionsOffered, WithinBudget DEF Formed
<1> DEFINE n == [r EXCEPT !.quality = e]
<1>2. n \in VLLMWorkflowRecord  BY <1>1, Constants DEF VLLMWorkflowRecord, VLLMStage
<1>3. Shape(n)
      BY <1>1, Constants, RecordFields
      DEF Formed, Shape, PhaseFollowsStage, BaselineFollows, CandidateFollows, FirstPass, EndFollows, ClosedQuiet,
          Exhausted, GpuSecondsUsed, RunActive, Before, VLLMWorkflowRecord
<1> QED  BY <1>2, <1>3 DEF Formed

LEMMA DiscardedFormed ==
  ASSUME NEW r, Formed(r), r.stage \in {"EXPERIMENT", "QUALITY"}, r.status = "ACTIVE",
         NEW t \in 0 .. MaxClock
  PROVE  Formed([r EXCEPT !.activePhase = "none", !.activeSince = 0, !.serverSeconds = t,
                          !.candidateRequest = NoRequest, !.candidateMustStop = FALSE,
                          !.candidateStarted = FALSE, !.quality = NoEvidence, !.stage = "EXPERIMENT"])
<1>1. r \in VLLMWorkflowRecord
      BY ActionsOffered, WithinBudget DEF Formed
<1> DEFINE n == [r EXCEPT !.activePhase = "none", !.activeSince = 0, !.serverSeconds = t,
                          !.candidateRequest = NoRequest, !.candidateMustStop = FALSE,
                          !.candidateStarted = FALSE, !.quality = NoEvidence, !.stage = "EXPERIMENT"]
<1>2. n \in VLLMWorkflowRecord
  <2>1. 0 \in 0 .. MaxClock  BY Constants
  <2>2. [r EXCEPT !.activePhase = "none", !.activeSince = 0, !.serverSeconds = t, !.stage = "EXPERIMENT"]
          \in VLLMWorkflowRecord
        BY <1>1, <2>1 DEF VLLMWorkflowRecord, VLLMStage
  <2> QED  BY <2>2 DEF VLLMWorkflowRecord
<1>3. Shape(n)
      BY <1>1, Constants, RecordFields
      DEF Formed, Shape, PhaseFollowsStage, BaselineFollows, CandidateFollows, FirstPass, EndFollows, ClosedQuiet,
          Exhausted, GpuSecondsUsed, RunActive, Before, VLLMWorkflowRecord
<1> QED  BY <1>2, <1>3 DEF Formed

LEMMA CompletedFormed ==
  ASSUME NEW r, Formed(r), r.stage = "QUALITY", r.status = "ACTIVE", NEW t \in 0 .. MaxClock
  PROVE  Formed([r EXCEPT !.activePhase = "none", !.activeSince = 0, !.serverSeconds = t, !.stage = "DECIDE"])
<1>1. r \in VLLMWorkflowRecord
      BY ActionsOffered, WithinBudget DEF Formed
<1> DEFINE n == [r EXCEPT !.activePhase = "none", !.activeSince = 0, !.serverSeconds = t, !.stage = "DECIDE"]
<1>2. n \in VLLMWorkflowRecord
  <2>1. 0 \in 0 .. MaxClock  BY Constants
  <2> QED  BY <1>1, <2>1 DEF VLLMWorkflowRecord, VLLMStage
<1>3. Shape(n)
      BY <1>1, Constants, RecordFields
      DEF Formed, Shape, PhaseFollowsStage, BaselineFollows, CandidateFollows, FirstPass, EndFollows, ClosedQuiet,
          Exhausted, GpuSecondsUsed, RunActive, Before, VLLMWorkflowRecord
<1> QED  BY <1>2, <1>3 DEF Formed

LEMMA DecidedFormed ==
  ASSUME NEW r, Formed(r), NextAction(r) = "EVALUATE_GATE", NEW status \in {"ACCEPTED", "REJECTED"}
  PROVE  Formed([r EXCEPT !.status = status])
<1>1. r \in VLLMWorkflowRecord /\ r.stage = "DECIDE" /\ r.status = "ACTIVE"
      BY ActionsOffered, WithinBudget DEF Formed
<1> DEFINE n == [r EXCEPT !.status = status]
<1>2. n \in VLLMWorkflowRecord  BY <1>1, Constants DEF VLLMWorkflowRecord, VLLMStage
<1>3. Shape(n)
      BY <1>1, Constants, RecordFields
      DEF Formed, Shape, PhaseFollowsStage, BaselineFollows, CandidateFollows, FirstPass, EndFollows, ClosedQuiet,
          Exhausted, GpuSecondsUsed, RunActive, Before, VLLMWorkflowRecord
<1> QED  BY <1>2, <1>3 DEF Formed

LEMMA RetriedFormed ==
  ASSUME NEW r, Formed(r), NextAction(r) = "EVALUATE_GATE", NEW rerun \in RerunStages
  PROVE  Formed(Inconclusive(r, rerun))
<1>1. r \in VLLMWorkflowRecord /\ r.stage = "DECIDE" /\ r.status = "ACTIVE"
      BY ActionsOffered, WithinBudget DEF Formed
<1> DEFINE n == Inconclusive(r, rerun)
<1>2. n \in VLLMWorkflowRecord  BY <1>1, Constants DEF VLLMWorkflowRecord, VLLMStage, Inconclusive, RerunStages, NoStage
<1>3. Shape(n)
      BY <1>1, Constants, RecordFields
      DEF Formed, Shape, PhaseFollowsStage, BaselineFollows, CandidateFollows, FirstPass, EndFollows, ClosedQuiet,
          Exhausted, GpuSecondsUsed, RunActive, Before, VLLMWorkflowRecord, Inconclusive, RerunStages, NoStage
<1> QED  BY <1>2, <1>3 DEF Formed

LEMMA ClosedFormed ==
  ASSUME NEW r, Formed(r), r.status = "ACTIVE", r.activePhase = "none"
  PROVE  Formed(Inconclusive(r, NoStage))
<1>1. r \in VLLMWorkflowRecord
      BY ActionsOffered, WithinBudget DEF Formed
<1> DEFINE n == Inconclusive(r, NoStage)
<1>2. n \in VLLMWorkflowRecord  BY <1>1, Constants DEF VLLMWorkflowRecord, VLLMStage, Inconclusive, RerunStages, NoStage
<1>3. Shape(n)
      BY <1>1, Constants, RecordFields
      DEF Formed, Shape, PhaseFollowsStage, BaselineFollows, CandidateFollows, FirstPass, EndFollows, ClosedQuiet,
          Exhausted, GpuSecondsUsed, RunActive, Before, VLLMWorkflowRecord, Inconclusive, RerunStages, NoStage
<1> QED  BY <1>2, <1>3 DEF Formed

LEMMA ResumedFormed ==
  ASSUME NEW r, Formed(r), r.rerun # NoStage, r.rerunCount < MaxReruns
  PROVE  Formed(Resumed(r))
<1>1. r \in VLLMWorkflowRecord /\ r.status = "INCONCLUSIVE" /\ r.activePhase = "none"
      BY ActionsOffered, WithinBudget, RecordFields DEF Formed, Shape, EndFollows, PhaseFollowsStage
<1> DEFINE n == Resumed(r)
<1>2. n \in VLLMWorkflowRecord
  <2>1. r.rerunCount + 1 \in 0 .. MaxReruns  BY Constants, RecordFields, <1>1
  <2> DEFINE a == [r EXCEPT !.status = "ACTIVE", !.rerun = NoStage, !.rerunCount = @ + 1]
  <2>2. a \in VLLMWorkflowRecord  BY <1>1, <2>1 DEF VLLMWorkflowRecord
  <2>3. CASE r.rerun = "CAPTURE_BASELINE"
    <3>1. n = [a EXCEPT !.stage = "SERVER_START", !.baselineRequest = FALSE, !.baselineMustStop = FALSE,
                        !.baselineStopped = FALSE, !.approval = "NONE"]
          BY <2>3 DEF Resumed
    <3> HIDE DEF a, n
    <3> QED  BY <2>2, <3>1 DEF VLLMWorkflowRecord, VLLMStage
  <2>4. CASE r.rerun = "DISCOVER_HOTSPOTS"
    <3>1. n = [a EXCEPT !.stage = "PROFILE_APPROVAL", !.approval = "NONE"]
          BY <2>4 DEF Resumed
    <3> HIDE DEF a, n
    <3> QED  BY <2>2, <3>1 DEF VLLMWorkflowRecord, VLLMStage
  <2>5. CASE r.rerun \notin {"CAPTURE_BASELINE", "DISCOVER_HOTSPOTS"}
    <3>1. CandidateReset(a) \in VLLMWorkflowRecord
          BY <2>2 DEF CandidateReset, VLLMWorkflowRecord, NoRequest, NoEvidence
    <3> QED  BY <2>5, <3>1 DEF Resumed, VLLMWorkflowRecord, VLLMStage
  <2> QED  BY <2>3, <2>4, <2>5
<1>3. Shape(n)
      BY <1>1, Constants, RecordFields
      DEF Formed, Shape, PhaseFollowsStage, BaselineFollows, CandidateFollows, FirstPass, EndFollows, ClosedQuiet,
          Exhausted, GpuSecondsUsed, RunActive, Before, VLLMWorkflowRecord, Resumed, CandidateReset, RerunStages, NoStage
<1> QED  BY <1>2, <1>3 DEF Formed

-----------------------------------------------------------------------------
(* Time only grows, and with it what may be charged.                       *)

TimeGrows == clock <= clock' /\ server.since <= server.since' /\ LastChange <= LastChange'

\* What is charged stays in the past.
LEMMA GoodStays ==
  ASSUME TypeOK, TypeOK', TimeGrows
  PROVE  \A r : Good(r) => Good(r)'
<1> SUFFICES ASSUME NEW r, Good(r)  PROVE Good(r)'
  OBVIOUS
<1>1. r \in VLLMWorkflowRecord /\ Shape(r)  BY DEF Good, Formed
<1>2. r.serverSeconds \in Nat /\ r.profileSeconds \in Nat /\ r.activeSince \in Nat  BY <1>1, RecordFields
<1>3. /\ clock \in Nat /\ server.since \in Nat /\ LastChange \in Nat
      /\ clock' \in Nat /\ server.since' \in Nat /\ LastChange' \in Nat
      BY Constants DEF TypeOK, LastChange
<1>4. Timed(r)'  BY <1>2, <1>3 DEF Good, Timed, TimeGrows
<1> QED  BY <1>1, <1>4 DEF Good, Formed

-----------------------------------------------------------------------------
(* What a save and an effect leave in the hands of the drivers.            *)

Thens == {"ready", "finalizing", "profiling", "result", "failure"}

\* A driver that was overtaken keeps everything but the right to save.
LEMMA OutdatedKeeps ==
  ASSUME NEW s \in DriverState
  PROVE  /\ Outdated(s) \in DriverState /\ Outdated(s).pc = s.pc
         /\ s.pc = "saving" => Outdated(s).next = s.next /\ Outdated(s).then = s.then
         /\ s.pc \in Thens => Outdated(s).held = s.held
         /\ s.pc = "profiling" => Outdated(s).since = s.since
         /\ s.pc # "idle" => Outdated(s).stale
<1>1. CASE s = Idle  BY <1>1 DEF Outdated, Idle, DriverState, Thens
<1>2. CASE s \in [pc : {"ready", "finalizing", "result", "failure"}, held : VLLMWorkflowRecord, stale : BOOLEAN]
      BY <1>2 DEF Outdated, DriverState, Thens
<1>3. CASE s \in [pc : {"profiling"}, held : VLLMWorkflowRecord, stale : BOOLEAN, since : 0 .. MaxClock]
      BY <1>3 DEF Outdated, DriverState, Thens
<1>4. CASE s \in [pc : {"saving"}, next : VLLMWorkflowRecord, then : {"ready", "finalizing", "profiling"},
                  stale : BOOLEAN]
      BY <1>4 DEF Outdated, DriverState, Thens
<1> QED  BY <1>1, <1>2, <1>3, <1>4 DEF DriverState

LEMMA ContinueKeeps ==
  ASSUME NEW r \in VLLMWorkflowRecord, NEW then \in Thens, clock \in 0 .. MaxClock
  PROVE  /\ Continue(then, r) \in DriverState /\ Continue(then, r).pc = then
         /\ Continue(then, r).held = r /\ ~Continue(then, r).stale
         /\ then = "profiling" => Continue(then, r).since = clock
BY DEF Continue, Holding, DriverState, Thens

LEMMA DriverTyped ==
  ASSUME TypeOK, NEW d \in Drivers
  PROVE  /\ driver[d] \in DriverState /\ driver[d].pc \in Thens \cup {"idle", "saving"}
         /\ Busy(d) => driver[d].stale \in BOOLEAN /\ Copy(d) \in VLLMWorkflowRecord
         /\ driver[d].pc = "saving" => driver[d].then \in {"ready", "finalizing", "profiling"}
         /\ driver[d].pc = "profiling" => driver[d].since \in 0 .. MaxClock
BY DEF TypeOK, DriverState, Idle, Thens, Busy, Copy

\* A save whose record is good and whose sequel it allows.
LEMMA Saved ==
  ASSUME TypeOK, Good(record), Drivers_Inv, NEW d \in Drivers, NEW next, NEW then \in Thens,
         Busy(d), Good(next), then # "ready" => next.status = "ACTIVE",
         then \in {"profiling", "result", "failure"} => Profiled(next),
         SaveUpdate(d, next, then), UNCHANGED << clock, server >>
  PROVE  /\ driver' \in [Drivers -> DriverState] /\ Good(record)' /\ Drivers_Inv'
         /\ driver'[d].pc \in Thens \cup {"idle"}
         /\ \A e \in Drivers \ {d} : driver'[e] \in {driver[e], Outdated(driver[e])}
<1>1. /\ next \in VLLMWorkflowRecord /\ clock \in 0 .. MaxClock /\ driver \in [Drivers -> DriverState]
      /\ \A r : Good(r) => Good(r)'
      BY DEF Good, Formed, Timed, LastChange, TypeOK
<1>2. CASE driver[d].stale
  <2>1. driver' = [driver EXCEPT ![d] = Idle] /\ record' = record  BY <1>2 DEF SaveUpdate
  <2>2. driver' \in [Drivers -> DriverState]  BY <1>1, <2>1 DEF DriverState
  <2>3. ASSUME NEW e \in Drivers, Busy(e)'  PROVE (DriverFollows(e) /\ Fresh(e))'
    <3>1. e # d  BY <2>1, <2>3, <1>1 DEF Busy, Idle
    <3>2. driver'[e] = driver[e]  BY <2>1, <3>1, <1>1
    <3>3. DriverFollows(e) /\ Fresh(e)  BY <3>2, <2>3 DEF Drivers_Inv, Busy
    <3> QED  BY <1>1, <2>1, <3>2, <3>3 DEF DriverFollows, Fresh, Copy
  <2> QED  BY <1>1, <2>1, <2>2, <2>3 DEF Drivers_Inv, Idle
<1>3. CASE ~driver[d].stale
  <2>1. /\ record' = next
        /\ driver' = [e \in Drivers |-> IF e = d THEN Continue(then, next) ELSE Outdated(driver[e])]
        BY <1>3 DEF SaveUpdate
  <2>2. driver' \in [Drivers -> DriverState]  BY <1>1, <2>1, OutdatedKeeps, ContinueKeeps
  <2>3. ASSUME NEW e \in Drivers, Busy(e)'  PROVE (DriverFollows(e) /\ Fresh(e))'
    <3>1. CASE e = d
      <4>1. /\ driver'[e].pc = then /\ driver'[e].held = next /\ ~driver'[e].stale
            /\ then = "profiling" => driver'[e].since = clock
            BY <3>1, <2>1, <1>1, ContinueKeeps
      <4>2. Copy(e)' = next  BY <4>1 DEF Copy, Thens
      <4>3. next.profileSeconds <= clock  BY DEF Good, Timed
      <4>4. clock <= clock'  BY <1>1, Constants
      <4>5. Good(Copy(e))'  BY <1>1, <4>2
      <4> QED  BY <4>1, <4>2, <4>3, <4>4, <4>5, <2>1 DEF DriverFollows, Fresh, Thens, Profiled
    <3>2. CASE e # d
      <4>1. driver'[e] = Outdated(driver[e]) /\ driver[e] \in DriverState  BY <3>2, <2>1, <1>1
      <4>2. driver[e].pc # "idle"  BY <4>1, <2>3, OutdatedKeeps DEF Busy
      <4>3. DriverFollows(e)  BY <4>2 DEF Drivers_Inv, Busy
      <4>4. driver'[e].pc = driver[e].pc /\ driver'[e].stale  BY <4>1, <4>2, OutdatedKeeps
      <4>5. Copy(e)' = Copy(e)  BY <4>1, <4>2, OutdatedKeeps, DriverTyped DEF Copy
      <4>6. driver[e].pc = "saving" => driver'[e].then = driver[e].then  BY <4>1, OutdatedKeeps
      <4>7. driver[e].pc = "profiling" => driver'[e].since = driver[e].since  BY <4>1, OutdatedKeeps
      <4>8. Good(Copy(e))'  BY <1>1, <4>3, <4>5 DEF DriverFollows
      <4> QED  BY <4>3, <4>4, <4>5, <4>6, <4>7, <4>8 DEF DriverFollows, Fresh, Profiled
    <3> QED  BY <3>1, <3>2
  <2> QED  BY <1>1, <2>1, <2>2, <2>3, ContinueKeeps DEF Drivers_Inv
<1>4. driver[d].stale \in BOOLEAN  BY DriverTyped
<1> QED  BY <1>2, <1>3, <1>4

\* An effect whose record is good and whose sequel it allows; d's record is one
\* of an active task.
LEMMA Effected ==
  ASSUME TypeOK, TypeOK', Drivers_Inv, TimeGrows, NEW d \in Drivers, NEW next,
         NEW then \in {"ready", "finalizing", "profiling"},
         driver[d].pc = "ready", Held(d).status = "ACTIVE",
         Good(next)', next.status = "ACTIVE", then = "profiling" => Profiled(next),
         SaveLater(d, next, then)
  PROVE  Drivers_Inv' /\ driver'[d].pc = "saving" /\ driver'[d].next = next /\ driver'[d].then = then
         /\ \A e \in Drivers \ {d} : driver'[e] = driver[e]
<1>1. /\ driver \in [Drivers -> DriverState] /\ \A r : Good(r) => Good(r)'  BY GoodStays DEF TypeOK
<1>2. /\ driver' = [driver EXCEPT ![d] = [pc |-> "saving", next |-> next, then |-> then, stale |-> driver[d].stale]]
      /\ record' = record
      BY DEF SaveLater
<1>3. /\ driver'[d].pc = "saving" /\ driver'[d].next = next /\ driver'[d].then = then
      /\ driver'[d].stale = driver[d].stale
      BY <1>1, <1>2
<1>4. \A e \in Drivers \ {d} : driver'[e] = driver[e]  BY <1>1, <1>2
<1>5. ASSUME NEW e \in Drivers, Busy(e)'  PROVE (DriverFollows(e) /\ Fresh(e))'
  <2>1. CASE e = d
    <3>1. Copy(e)' = next  BY <2>1, <1>3 DEF Copy
    <3>2. Good(Copy(e))'  BY <3>1
    <3>3. ~driver[d].stale => record.status = "ACTIVE"  BY DEF Drivers_Inv, Busy, Fresh, Held
    <3> QED  BY <2>1, <1>2, <1>3, <3>1, <3>2, <3>3 DEF DriverFollows, Fresh, Profiled
  <2>2. CASE e # d
    <3>1. driver'[e] = driver[e]  BY <2>2, <1>4
    <3>2. DriverFollows(e) /\ Fresh(e)  BY <3>1, <1>5 DEF Drivers_Inv, Busy
    <3>3. Copy(e)' = Copy(e)  BY <3>1 DEF Copy
    <3>4. Good(Copy(e))'  BY <1>1, <3>2, <3>3 DEF DriverFollows
    <3>5. clock <= clock' /\ clock \in Nat /\ clock' \in Nat  BY Constants DEF TimeGrows, TypeOK
    <3>6. driver[e].pc = "profiling" => driver[e].since \in Nat  BY DriverTyped, Constants
    <3> QED  BY <1>2, <3>1, <3>2, <3>3, <3>4, <3>5, <3>6 DEF DriverFollows, Fresh, Profiled
  <2> QED  BY <2>1, <2>2
<1> QED  BY <1>3, <1>4, <1>5 DEF Drivers_Inv

\* Only time and the server move.
LEMMA DriversStay ==
  ASSUME TypeOK, TypeOK', Good(record), Drivers_Inv, TimeGrows, UNCHANGED << record, driver >>
  PROVE  Good(record)' /\ Drivers_Inv'
<1>1. \A r : Good(r) => Good(r)'  BY GoodStays
<1>2. ASSUME NEW e \in Drivers, Busy(e)'  PROVE (DriverFollows(e) /\ Fresh(e))'
  <2>1. DriverFollows(e) /\ Fresh(e) /\ Copy(e)' = Copy(e)  BY <1>2 DEF Drivers_Inv, Busy, Copy
  <2>2. Good(Copy(e))'  BY <1>1, <2>1 DEF DriverFollows
  <2>3. clock <= clock' /\ clock \in Nat /\ clock' \in Nat  BY Constants DEF TimeGrows, TypeOK
  <2>4. driver[e].pc = "profiling" => driver[e].since \in Nat  BY DriverTyped, Constants
  <2> QED  BY <2>1, <2>2, <2>3, <2>4 DEF DriverFollows, Fresh, Profiled
<1> QED  BY <1>1, <1>2 DEF Drivers_Inv

-----------------------------------------------------------------------------
(* The invariant, action by action.                                        *)

\* What a driver that can act holds.
LEMMA HeldGood ==
  ASSUME IInv, NEW d \in Drivers, driver[d].pc \in Thens
  PROVE  /\ Busy(d) /\ Good(Held(d)) /\ Held(d) \in VLLMWorkflowRecord
         /\ driver[d].pc # "ready" => Held(d).status = "ACTIVE"
         /\ driver[d].pc \in {"profiling", "result", "failure"} => Profiled(Held(d))
         /\ driver[d].pc = "profiling" => Held(d).profileSeconds <= driver[d].since /\ driver[d].since <= clock
BY DEF IInv, Drivers_Inv, Busy, DriverFollows, Copy, Held, Thens, Good, Formed

LEMMA TimedKept ==
  ASSUME NEW r, NEW n, Timed(r), n.serverSeconds = r.serverSeconds, n.profileSeconds = r.profileSeconds,
         n.activePhase = r.activePhase, n.activeSince = r.activeSince
  PROVE  Timed(n)
BY DEF Timed

\* A method that is one step: nothing but the record moves.
LEMMA SaveStep ==
  ASSUME IInv, NEW d \in Drivers, NEW next, NEW then \in Thens \ {"profiling"}, driver[d].pc \in Thens,
         Good(next), then # "ready" => next.status = "ACTIVE",
         then \in {"result", "failure"} => Profiled(next),
         SaveUpdate(d, next, then), UNCHANGED << consumed, server, world, transports >>
  PROVE  IInv'
<1>1. Busy(d)  BY HeldGood
<1>2. /\ driver' \in [Drivers -> DriverState] /\ Good(record)' /\ Drivers_Inv'
      /\ driver'[d].pc \in Thens \cup {"idle"}
      /\ \A e \in Drivers \ {d} : driver'[e] \in {driver[e], Outdated(driver[e])}
      BY <1>1, Saved DEF IInv, world
<1>3. TypeOK'  BY <1>2 DEF IInv, TypeOK, Good, Formed, world
<1>4. ServerInv'  BY DEF IInv, ServerInv, world
<1>5. ASSUME NEW e \in Drivers, NEW a, Transporting(e, a)'  PROVE Transporting(e, a)
  <2>1. e # d  BY <1>5, <1>2 DEF Transporting, Thens
  <2>2. driver[e] \in DriverState  BY DEF IInv, TypeOK
  <2> QED  BY <2>1, <2>2, <1>2, <1>5, OutdatedKeeps DEF Transporting
<1>6. TransportInv'  BY <1>5 DEF IInv, TransportInv
<1> QED  BY <1>2, <1>3, <1>4, <1>6 DEF IInv

Server == [ alive : BOOLEAN, request : Request \cup {NoRequest},
            status : {"NONE", "RUNNING", "STOPPED", "ORPHANED", "FAILED"},
            session : 0 .. MaxSessions, since : 0 .. MaxClock, stoppedAt : 0 .. MaxClock ]

\* The effect of a method that is two steps.
LEMMA EffectStep ==
  ASSUME IInv, TimeGrows, NEW d \in Drivers, NEW next, NEW then \in {"ready", "finalizing"},
         driver[d].pc = "ready", Held(d).status = "ACTIVE", Good(next)', next.status = "ACTIVE",
         SaveLater(d, next, then),
         server' \in Server, ServerInv', UNCHANGED << consumed, world, transports >>
  PROVE  IInv'
<1>1. next \in VLLMWorkflowRecord /\ record' = record /\ driver[d].stale \in BOOLEAN
      BY DriverTyped DEF Good, Formed, SaveLater, IInv, Busy
<1>2. driver' \in [Drivers -> DriverState]  BY <1>1 DEF SaveLater, IInv, TypeOK, DriverState
<1>3. TypeOK'  BY <1>1, <1>2 DEF IInv, TypeOK, Server, world
<1>4. Drivers_Inv' /\ driver'[d].pc = "saving" /\ driver'[d].next = next /\ driver'[d].then = then
      /\ \A e \in Drivers \ {d} : driver'[e] = driver[e]
      BY <1>3, Effected DEF IInv
<1>5. ASSUME NEW e \in Drivers, NEW a, Transporting(e, a)'  PROVE Transporting(e, a)
      BY <1>4, <1>5 DEF Transporting
<1>6. TransportInv'  BY <1>5 DEF IInv, TransportInv
<1>7. Good(record)'  BY <1>1, <1>3, GoodStays DEF IInv
<1> QED  BY <1>3, <1>4, <1>6, <1>7 DEF IInv

LEMMA LoadStep ==
  ASSUME IInv, NEW d \in Drivers, Load(d)
  PROVE  IInv'
<1>1. /\ driver \in [Drivers -> DriverState] /\ driver' = [driver EXCEPT ![d] = Holding("ready", record)]
      /\ UNCHANGED << store, server, world, transports >>
      BY DEF Load, IInv, TypeOK
<1>2. /\ driver'[d].pc = "ready" /\ driver'[d].held = record /\ ~driver'[d].stale
      /\ driver' \in [Drivers -> DriverState] /\ record \in VLLMWorkflowRecord
      BY <1>1 DEF Holding, DriverState, IInv, Good, Formed
<1>3. \A e \in Drivers \ {d} : driver'[e] = driver[e]  BY <1>1
<1>4. TypeOK' /\ TimeGrows /\ ServerInv'
      BY <1>1, <1>2, Constants DEF IInv, TypeOK, store, world, TimeGrows, ServerInv, LastChange
<1>5. \A r : Good(r) => Good(r)'  BY <1>4, GoodStays DEF IInv
<1>6. ASSUME NEW e \in Drivers, Busy(e)'  PROVE (DriverFollows(e) /\ Fresh(e))'
  <2>1. CASE e = d
    <3>1. Copy(e)' = record  BY <2>1, <1>2 DEF Copy
    <3>2. Good(Copy(e))'  BY <3>1, <1>5 DEF IInv
    <3> QED  BY <2>1, <1>1, <1>2, <3>1, <3>2 DEF DriverFollows, Fresh, store
  <2>2. CASE e # d
    <3>1. driver'[e] = driver[e] /\ Copy(e)' = Copy(e)  BY <2>2, <1>3 DEF Copy
    <3>2. DriverFollows(e) /\ Fresh(e)  BY <3>1, <1>6 DEF IInv, Drivers_Inv, Busy
    <3>3. Good(Copy(e))'  BY <1>5, <3>1, <3>2 DEF DriverFollows
    <3> QED  BY <1>1, <3>1, <3>2, <3>3 DEF DriverFollows, Fresh, Profiled, store, world
  <2> QED  BY <2>1, <2>2
<1>7. TransportInv'
  <2>1. ASSUME NEW e \in Drivers, NEW a, Transporting(e, a)'  PROVE Transporting(e, a)
        BY <1>2, <1>3, <2>1 DEF Transporting
  <2> QED  BY <1>1, <2>1 DEF IInv, TransportInv, store
<1> QED  BY <1>1, <1>4, <1>5, <1>6, <1>7 DEF IInv, Drivers_Inv, store

LEMMA CrashStep ==
  ASSUME IInv, NEW d \in Drivers, Crash(d)
  PROVE  IInv'
<1>1. /\ driver \in [Drivers -> DriverState] /\ driver' = [driver EXCEPT ![d] = Idle]
      /\ crashes' = crashes + 1 /\ crashes < MaxCrashes
      /\ UNCHANGED << record, consumed, server, clock, coordinatesValid, profileAvailable, serverTicks, transports >>
      BY DEF Crash, IInv, TypeOK, store
<1>2. driver'[d].pc = "idle" /\ driver' \in [Drivers -> DriverState]  BY <1>1 DEF Idle, DriverState
<1>3. \A e \in Drivers \ {d} : driver'[e] = driver[e]  BY <1>1
<1>4. TypeOK' /\ TimeGrows /\ ServerInv'
      BY <1>1, <1>2, Constants DEF IInv, TypeOK, TimeGrows, ServerInv, LastChange
<1>5. \A r : Good(r) => Good(r)'  BY <1>4, GoodStays DEF IInv
<1>6. ASSUME NEW e \in Drivers, Busy(e)'  PROVE (DriverFollows(e) /\ Fresh(e))'
  <2>1. e # d  BY <1>2, <1>6 DEF Busy
  <2>2. driver'[e] = driver[e] /\ Copy(e)' = Copy(e)  BY <2>1, <1>3 DEF Copy
  <2>3. DriverFollows(e) /\ Fresh(e)  BY <2>2, <1>6 DEF IInv, Drivers_Inv, Busy
  <2>4. Good(Copy(e))'  BY <1>5, <2>2, <2>3 DEF DriverFollows
  <2> QED  BY <1>1, <2>2, <2>3, <2>4 DEF DriverFollows, Fresh, Profiled
<1>7. TransportInv'
  <2>1. ASSUME NEW e \in Drivers, NEW a, Transporting(e, a)'  PROVE Transporting(e, a)
        BY <1>2, <1>3, <2>1 DEF Transporting
  <2> QED  BY <1>1, <2>1 DEF IInv, TransportInv
<1> QED  BY <1>1, <1>4, <1>5, <1>6, <1>7 DEF IInv, Drivers_Inv

\* How the server and the clock may move.
Moves ==
  /\ server' \in Server /\ clock' \in 0 .. MaxClock /\ serverTicks' \in 0 .. MaxClock
  /\ TimeGrows /\ ServerInv'

Environment ==
  Tick \/ ServerDies \/ CoordinatesDrift \/ \E d \in Drivers : StopUnverified(d) \/ StartExits(d)

\* What the server does by itself, or is found to have done, disturbs nobody.
LEMMA EnvironmentMoves ==
  ASSUME IInv, Environment
  PROVE  Moves
<1>0. /\ server \in Server /\ clock \in 0 .. MaxClock /\ serverTicks \in 0 .. MaxClock /\ ServerInv
      BY DEF IInv, TypeOK, Server
<1>1. CASE Tick
  <2>1. /\ server' = server /\ clock' = clock + 1 /\ clock < MaxClock
        /\ serverTicks' = IF server.alive THEN serverTicks + 1 ELSE serverTicks
        BY <1>1 DEF Tick
  <2> QED  BY <1>0, <2>1, Constants DEF ServerInv, TimeGrows, LastChange, Moves, Server
<1>2. CASE ServerDies
  <2>1. server' = [server EXCEPT !.alive = FALSE] /\ clock' = clock /\ serverTicks' = serverTicks
        BY <1>2 DEF ServerDies, world
  <2>2. /\ server' \in Server /\ ~server'.alive /\ server'.since = server.since
        /\ server'.stoppedAt = server.stoppedAt /\ server'.status = server.status
        BY <1>0, <2>1 DEF Server
  <2> QED  BY <1>0, <2>1, <2>2, Constants DEF ServerInv, TimeGrows, LastChange, Moves, Server
<1>3. CASE CoordinatesDrift
  <2>1. server' = server /\ clock' = clock /\ serverTicks' = serverTicks  BY <1>3 DEF CoordinatesDrift
  <2> QED  BY <1>0, <2>1, Constants DEF ServerInv, TimeGrows, LastChange, Moves, Server
<1>4. CASE \E d \in Drivers : StopUnverified(d)
  <2>1. /\ server' = [server EXCEPT !.status = "ORPHANED"] /\ ~server.alive /\ server.status = "RUNNING"
        /\ clock' = clock /\ serverTicks' = serverTicks
        BY <1>4 DEF StopUnverified, world
  <2>2. /\ server' \in Server /\ ~server'.alive /\ server'.since = server.since
        /\ server'.stoppedAt = server.stoppedAt /\ server'.status = "ORPHANED"
        BY <1>0, <2>1 DEF Server
  <2> QED  BY <1>0, <2>1, <2>2, Constants DEF ServerInv, TimeGrows, LastChange, Moves, Server
<1>5. ASSUME NEW d \in Drivers, StartExits(d)
      PROVE  Moves
  <2>1. PICK request \in Request : server' = [Started(request) EXCEPT !.alive = FALSE, !.status = "FAILED"]
    <3>1. Held(d) \in VLLMWorkflowRecord  BY <1>5, HeldGood DEF StartExits, Ready, Thens
    <3>2. Baseline \in Request /\ Held(d).experimentCount \in Request
          BY <3>1, RecordFields, Constants DEF Request, Baseline
    <3> QED  BY <1>5, <3>2 DEF StartExits
  <2>2. /\ server' = [ alive |-> FALSE, request |-> request, status |-> "FAILED",
                       session |-> server.session + 1, since |-> clock, stoppedAt |-> 0 ]
        /\ server.session < MaxSessions /\ clock' = clock /\ serverTicks' = serverTicks
        BY <2>1, <1>5 DEF StartExits, Started, world
  <2>3. server.session \in 0 .. MaxSessions /\ server.session + 1 \in 0 .. MaxSessions /\ 0 \in 0 .. MaxClock
        BY <1>0, <2>2, Constants DEF Server
  <2>4. server' \in Server  BY <1>0, <2>2, <2>3 DEF Server
  <2> QED  BY <1>0, <2>2, <2>4, Constants DEF ServerInv, TimeGrows, LastChange, Moves, Server
<1> QED  BY <1>1, <1>2, <1>3, <1>4, <1>5 DEF Environment

LEMMA EnvironmentStep ==
  ASSUME IInv, Environment
  PROVE  IInv'
<1>1. /\ TypeOK /\ ServerInv /\ Good(record) /\ Drivers_Inv /\ TransportInv  BY DEF IInv
<1>2. UNCHANGED << record, consumed, driver, transports, crashes, profileAvailable >>
      BY DEF Environment, Tick, ServerDies, CoordinatesDrift, StopUnverified, StartExits, store, world
<1>3. Moves  BY EnvironmentMoves
<1>4. coordinatesValid' \in {coordinatesValid, FALSE}
      BY DEF Environment, Tick, ServerDies, CoordinatesDrift, StopUnverified, StartExits, world
<1>5. TypeOK'  BY <1>1, <1>2, <1>3, <1>4 DEF TypeOK, Moves, Server
<1>6. Good(record)' /\ Drivers_Inv'  BY <1>1, <1>2, <1>3, <1>5, DriversStay DEF Moves
<1>7. TransportInv'  BY <1>1, <1>2 DEF TransportInv, Transporting
<1> QED  BY <1>3, <1>5, <1>6, <1>7 DEF IInv, Moves

LEMMA SaveActionStep ==
  ASSUME IInv, NEW d \in Drivers, Save(d)
  PROVE  IInv'
<1>0. PICK next, then : next = driver[d].next /\ then = driver[d].then  OBVIOUS
<1>1. /\ driver[d].pc = "saving" /\ SaveUpdate(d, next, then) /\ UNCHANGED << consumed, server, world >>
      /\ transports' = IF ~driver[d].stale /\ then = "profiling"
                       THEN [transports EXCEPT ![next.attempts] = @ + 1] ELSE transports
      BY <1>0 DEF Save
<1>2. /\ Busy(d) /\ Good(next) /\ next.status = "ACTIVE" /\ then \in {"ready", "finalizing", "profiling"}
      /\ then = "profiling" => Profiled(next)
      BY <1>0, <1>1, DriverTyped DEF IInv, Drivers_Inv, DriverFollows, Busy, Copy
<1>3. then = "profiling" => Transporting(d, next.attempts)  BY <1>0, <1>1 DEF Transporting
<1>4. then \in Thens /\ (then \in {"profiling", "result", "failure"} => Profiled(next))  BY <1>2 DEF Thens
<1>5. /\ driver' \in [Drivers -> DriverState] /\ Good(record)' /\ Drivers_Inv'
      /\ driver'[d].pc \in Thens \cup {"idle"}
      /\ \A e \in Drivers \ {d} : driver'[e] \in {driver[e], Outdated(driver[e])}
      BY <1>1, <1>2, <1>4, Saved DEF IInv, world
<1>6. ASSUME NEW e \in Drivers, NEW a, Transporting(e, a)'  PROVE Transporting(e, a) /\ e # d
  <2>1. e # d  BY <1>6, <1>5 DEF Transporting, Thens
  <2>2. driver[e] \in DriverState  BY DEF IInv, TypeOK
  <2> QED  BY <2>1, <2>2, <1>5, <1>6, OutdatedKeeps DEF Transporting
<1>7. transports' \in [1 .. MaxAttempts -> Nat] /\ TransportInv'
  <2>1. CASE ~driver[d].stale /\ then = "profiling"
    <3>1. transports' = [transports EXCEPT ![next.attempts] = @ + 1]  BY <1>1, <2>1
    <3>2. next.attempts \in 1 .. MaxAttempts /\ Transporting(d, next.attempts)
      <4>1. next \in VLLMWorkflowRecord /\ Shape(next) /\ next.approval = "CONSUMED"
            BY <1>2, <2>1 DEF Good, Formed, Profiled
      <4>2. next.attempts \in 0 .. MaxAttempts /\ next.attempts > 0
            BY <4>1, RecordFields DEF Shape
      <4> QED  BY <4>2, <2>1, <1>3, Constants
    <3>3. \A a \in 1 .. MaxAttempts : transports'[a] = IF a = next.attempts THEN transports[a] + 1 ELSE transports[a]
          BY <3>1 DEF IInv, TypeOK
    <3>4. transports[next.attempts] = 0 /\ next.attempts \in consumed  BY <3>2 DEF IInv, TransportInv
    <3>5. transports' \in [1 .. MaxAttempts -> Nat]  BY <3>1, <3>2 DEF IInv, TypeOK
    <3>6. \A e \in Drivers : ~Transporting(e, next.attempts)'
          BY <3>2, <1>6 DEF IInv, TransportInv
    <3>7. ASSUME NEW a \in 1 .. MaxAttempts
          PROVE  /\ transports'[a] \in {0, 1}
                 /\ a \notin consumed' => transports'[a] = 0 /\ \A e \in Drivers : ~Transporting(e, a)'
                 /\ \A e \in Drivers : Transporting(e, a)' => transports'[a] = 0
                 /\ \A e, f \in Drivers : Transporting(e, a)' /\ Transporting(f, a)' => e = f
      <4>1. consumed' = consumed  BY <1>1
      <4>2. CASE a = next.attempts  BY <3>3, <3>4, <3>6, <4>1, <4>2
      <4>3. CASE a # next.attempts  BY <1>6, <3>3, <4>1, <4>3 DEF IInv, TransportInv
      <4> QED  BY <4>2, <4>3
    <3> QED  BY <3>5, <3>7 DEF TransportInv
  <2>2. CASE ~(~driver[d].stale /\ then = "profiling")
    <3>1. transports' = transports  BY <1>1, <2>2
    <3> QED  BY <1>1, <1>6, <3>1 DEF IInv, TypeOK, TransportInv
  <2> QED  BY <2>1, <2>2
<1>8. TypeOK'  BY <1>1, <1>5, <1>7 DEF IInv, TypeOK, Good, Formed, world
<1>9. ServerInv'  BY <1>1 DEF IInv, ServerInv, world
<1> QED  BY <1>5, <1>7, <1>8, <1>9 DEF IInv

LEMMA ConsumeStep ==
  ASSUME IInv, NEW d \in Drivers, ConsumeProfileApproval(d)
  PROVE  IInv'
<1> DEFINE r == Held(d)
<1>0. PICK next : next = [r EXCEPT !.approval = "CONSUMED"]  OBVIOUS
<1>1. /\ driver[d].pc = "ready" /\ NextAction(r) = "RUN_APPROVED_PROFILE" /\ r.attempts \notin consumed
      /\ consumed' = consumed \cup {r.attempts} /\ SaveLater(d, next, "profiling")
      /\ UNCHANGED << server, world, transports >>
      BY <1>0 DEF ConsumeProfileApproval, Ready, Held
<1>2. Good(r) /\ r \in VLLMWorkflowRecord  BY <1>1, HeldGood DEF Thens
<1>3. /\ r.stage = "PROFILE_APPROVAL" /\ r.baselineStopped /\ r.approval = "APPROVED" /\ r.status = "ACTIVE"
      BY <1>1, <1>2, ActionsOffered
<1>4. r.attempts \in 1 .. MaxAttempts
      BY <1>2, <1>3, RecordFields, Constants DEF Good, Formed, Shape
<1>5. /\ Formed(next) /\ next \in VLLMWorkflowRecord /\ Profiled(next) /\ next.status = "ACTIVE"
      /\ next.attempts = r.attempts /\ Timed(next)
  <2>1. Formed(next)  BY <1>0, <1>1, <1>2, ConsumedFormed DEF Good
  <2>2. Timed(next)  BY <1>0, <1>2, TimedKept DEF Good, VLLMWorkflowRecord
  <2> QED  BY <1>0, <1>2, <1>3, <2>1, <2>2 DEF Formed, Profiled, VLLMWorkflowRecord
<1>6. driver' \in [Drivers -> DriverState] /\ record' = record
      BY <1>1, <1>5, DriverTyped DEF SaveLater, IInv, TypeOK, DriverState, Busy
<1>7. TypeOK' /\ TimeGrows /\ ServerInv'
  <2>1. TypeOK'  BY <1>1, <1>4, <1>6 DEF IInv, TypeOK, world
  <2>2. TimeGrows  BY <1>1, Constants DEF IInv, TypeOK, world, TimeGrows, LastChange
  <2>3. ServerInv'  BY <1>1 DEF IInv, world, ServerInv
  <2> QED  BY <2>1, <2>2, <2>3
<1>8. Good(next)' /\ Good(record)'  BY <1>5, <1>6, <1>7, GoodStays DEF IInv, Good
<1>9. /\ Drivers_Inv' /\ driver'[d].pc = "saving" /\ driver'[d].next = next /\ driver'[d].then = "profiling"
      /\ \A e \in Drivers \ {d} : driver'[e] = driver[e]
      BY <1>1, <1>3, <1>5, <1>7, <1>8, Effected DEF IInv
<1>10. ASSUME NEW e \in Drivers, NEW a, Transporting(e, a)'
       PROVE  IF e = d THEN a = r.attempts ELSE Transporting(e, a)
       BY <1>5, <1>9, <1>10 DEF Transporting
<1>11. transports[r.attempts] = 0 /\ \A e \in Drivers : ~Transporting(e, r.attempts)
       BY <1>1, <1>4 DEF IInv, TransportInv
<1> HIDE DEF r
<1>12. ASSUME NEW a \in 1 .. MaxAttempts
       PROVE  /\ transports'[a] \in {0, 1}
              /\ a \notin consumed' => transports'[a] = 0 /\ \A e \in Drivers : ~Transporting(e, a)'
              /\ \A e \in Drivers : Transporting(e, a)' => transports'[a] = 0
              /\ \A e, f \in Drivers : Transporting(e, a)' /\ Transporting(f, a)' => e = f
  <2>1. transports' = transports  BY <1>1
  <2>2. CASE a = r.attempts  BY <1>1, <1>10, <1>11, <2>1, <2>2
  <2>3. CASE a # r.attempts  BY <1>1, <1>10, <2>1, <2>3 DEF IInv, TransportInv
  <2> QED  BY <2>2, <2>3
<1> QED  BY <1>7, <1>8, <1>9, <1>12 DEF IInv, TransportInv

\* The methods that are one step.
LEMMA RecordStep ==
  ASSUME IInv, NEW d \in Drivers,
         \/ RecordInspection(d) \/ RequestActiveServerCleanup(d) \/ RequestProfileApproval(d)
         \/ RecordProfileApproval(d) \/ RecordAgentDecision(d) \/ Decide(d) \/ Resume(d)
  PROVE  IInv'
<1> DEFINE r == Held(d)
<1>1. driver[d].pc = "ready" /\ UNCHANGED << consumed, server, world, transports >>
      BY DEF RecordInspection, RequestActiveServerCleanup, RequestProfileApproval, RecordProfileApproval,
             RecordAgentDecision, Decide, Resume, Ready
<1>2. driver[d].pc \in Thens /\ r \in VLLMWorkflowRecord /\ Formed(r) /\ Timed(r)
      BY <1>1, HeldGood DEF Thens, Good
<1>3. ASSUME NEW next, Formed(next), Timed(next), SaveUpdate(d, next, "ready")  PROVE IInv'
      BY <1>1, <1>2, <1>3, SaveStep DEF Good, Thens
<1> HIDE DEF r
<1>4. CASE RecordInspection(d)
  <2>1. NextAction(r) = "PROVIDE_INSPECTION" /\ SaveUpdate(d, [r EXCEPT !.stage = "SERVER_START"], "ready")
        BY <1>4 DEF RecordInspection, Ready, Held, r
  <2>2. Timed([r EXCEPT !.stage = "SERVER_START"])  BY <1>2, TimedKept DEF VLLMWorkflowRecord
  <2> QED  BY <1>2, <1>3, <2>1, <2>2, InspectedFormed
<1>5. CASE RequestActiveServerCleanup(d)
  <2>1. RunActive(r) /\ SaveUpdate(d, CleanupRequested(r), "ready")  BY <1>5 DEF RequestActiveServerCleanup, r
  <2>2. Timed(CleanupRequested(r))  BY <1>2, TimedKept DEF VLLMWorkflowRecord, CleanupRequested
  <2> QED  BY <1>2, <1>3, <2>1, <2>2, CleanupFormed
<1>6. CASE RequestProfileApproval(d)
  <2>1. /\ NextAction(r) \in {"REQUEST_PROFILE_APPROVAL", "APPROVE_PROFILE", "RUN_APPROVED_PROFILE"}
        /\ r.attempts < MaxAttempts
        /\ SaveUpdate(d, [r EXCEPT !.approval = "REQUESTED", !.attempts = @ + 1], "ready")
        BY <1>6 DEF RequestProfileApproval, Ready, Held, r
  <2>2. r.stage = "PROFILE_APPROVAL" /\ r.status = "ACTIVE"  BY <1>2, <2>1, ActionsOffered
  <2>3. Timed([r EXCEPT !.approval = "REQUESTED", !.attempts = @ + 1])  BY <1>2, TimedKept DEF VLLMWorkflowRecord
  <2> QED  BY <1>2, <1>3, <2>1, <2>2, <2>3, RequestedFormed
<1>7. CASE RecordProfileApproval(d)
  <2>1. NextAction(r) = "APPROVE_PROFILE" /\ SaveUpdate(d, [r EXCEPT !.approval = "APPROVED"], "ready")
        BY <1>7 DEF RecordProfileApproval, Ready, Held, r
  <2>2. Timed([r EXCEPT !.approval = "APPROVED"])  BY <1>2, TimedKept DEF VLLMWorkflowRecord
  <2> QED  BY <1>2, <1>3, <2>1, <2>2, ApprovedFormed
<1>8. CASE RecordAgentDecision(d)
  <2>1. /\ NextAction(r) = "SUBMIT_AGENT_DECISION" /\ r.experimentCount < MaxExperiments
        /\ SaveUpdate(d, [r EXCEPT !.stage = "EXPERIMENT", !.experimentCount = @ + 1], "ready")
        BY <1>8 DEF RecordAgentDecision, Ready, Held, r
  <2>2. Timed([r EXCEPT !.stage = "EXPERIMENT", !.experimentCount = @ + 1])
        BY <1>2, TimedKept DEF VLLMWorkflowRecord
  <2> QED  BY <1>2, <1>3, <2>1, <2>2, ProposedFormed
<1>9. CASE Decide(d)
  <2>1. NextAction(r) = "EVALUATE_GATE"  BY <1>9 DEF Decide, Ready, Held, r
  <2>2. CASE \E status \in {"ACCEPTED", "REJECTED"} : SaveUpdate(d, [r EXCEPT !.status = status], "ready")
    <3>1. PICK status \in {"ACCEPTED", "REJECTED"} : SaveUpdate(d, [r EXCEPT !.status = status], "ready")
          BY <2>2
    <3>2. Timed([r EXCEPT !.status = status])  BY <1>2, TimedKept DEF VLLMWorkflowRecord
    <3> QED  BY <1>2, <1>3, <2>1, <3>1, <3>2, DecidedFormed
  <2>3. CASE \E rerun \in RerunStages : SaveUpdate(d, Inconclusive(r, rerun), "ready")
    <3>1. PICK rerun \in RerunStages : SaveUpdate(d, Inconclusive(r, rerun), "ready")  BY <2>3
    <3>2. Timed(Inconclusive(r, rerun))  BY <1>2, TimedKept DEF VLLMWorkflowRecord, Inconclusive
    <3> QED  BY <1>2, <1>3, <2>1, <3>1, <3>2, RetriedFormed
  <2> QED  BY <1>9, <2>2, <2>3 DEF Decide, r
<1>10. CASE Resume(d)
  <2>1. r.rerun # NoStage /\ r.rerunCount < MaxReruns /\ SaveUpdate(d, Resumed(r), "ready")
        BY <1>10 DEF Resume, r
  <2>2. Timed(Resumed(r))  BY <1>2, TimedKept DEF VLLMWorkflowRecord, Resumed, CandidateReset
  <2> QED  BY <1>2, <1>3, <2>1, <2>2, ResumedFormed
<1> QED  BY <1>4, <1>5, <1>6, <1>7, <1>8, <1>9, <1>10

\* The end of a profile, and the end of the budget.
LEMMA EndingStep ==
  ASSUME IInv, NEW d \in Drivers,
         \/ ProfileReturns(d) \/ RecordProfileResult(d) \/ MarkProfileExecutionInconclusive(d)
         \/ MarkProfileUnavailable(d) \/ FinalizeGpuBudget(d)
  PROVE  IInv'
<1> DEFINE r == Held(d)
<1>1. driver[d].pc \in Thens /\ UNCHANGED << consumed, server, world, transports >>
      BY DEF ProfileReturns, RecordProfileResult, MarkProfileExecutionInconclusive, MarkProfileUnavailable,
             FinalizeGpuBudget, Ready, Thens
<1>3. /\ r \in VLLMWorkflowRecord /\ Formed(r) /\ Timed(r)
      BY <1>1, HeldGood DEF Good
<1>4. ASSUME NEW next, Formed(next), Timed(next), SaveUpdate(d, next, "ready")  PROVE IInv'
      BY <1>1, <1>4, SaveStep DEF Good, Thens
<1> HIDE DEF r
<1>5. CASE ProfileReturns(d)
  <2>1. PICK then \in {"result", "failure"} :
          SaveUpdate(d, [r EXCEPT !.profileSeconds = @ + (clock - driver[d].since)], then)
        BY <1>5 DEF ProfileReturns, r
  <2>2. Profiled(r) /\ r.status = "ACTIVE" /\ r.profileSeconds <= driver[d].since /\ driver[d].since <= clock
        BY <1>1, <1>5, HeldGood DEF ProfileReturns, r
  <2>3. driver[d].since \in Nat /\ clock \in 0 .. MaxClock /\ r.profileSeconds \in Nat /\ MaxClock \in Nat
        BY <1>3, <1>5, DriverTyped, RecordFields, Constants DEF ProfileReturns, IInv, TypeOK
  <2>4. r.profileSeconds + (clock - driver[d].since) \in 0 .. MaxClock
        /\ r.profileSeconds + (clock - driver[d].since) <= clock
        BY <2>2, <2>3
  <2>5. PICK t : t = r.profileSeconds + (clock - driver[d].since)  OBVIOUS
  <2>6. Formed([r EXCEPT !.profileSeconds = t])  BY <1>3, <2>2, <2>4, <2>5, ReturnedFormed
  <2>7. Timed([r EXCEPT !.profileSeconds = t])
        BY <1>3, <2>4, <2>5 DEF Timed, VLLMWorkflowRecord
  <2>8. Profiled([r EXCEPT !.profileSeconds = t]) /\ [r EXCEPT !.profileSeconds = t].status = "ACTIVE"
        BY <1>3, <2>2 DEF Profiled, VLLMWorkflowRecord
  <2>9. SaveUpdate(d, [r EXCEPT !.profileSeconds = t], then)  BY <2>1, <2>5
  <2> QED  BY <1>1, <2>6, <2>7, <2>8, <2>9, SaveStep DEF Good, Thens
<1>6. CASE RecordProfileResult(d)
  <2>1. Profiled(r) /\ r.status = "ACTIVE"  BY <1>1, <1>6, HeldGood DEF RecordProfileResult, r
  <2>2. CASE SaveUpdate(d, [r EXCEPT !.stage = "AGENT_DECISION"], "ready")
    <3>1. Timed([r EXCEPT !.stage = "AGENT_DECISION"])  BY <1>3, TimedKept DEF VLLMWorkflowRecord
    <3> QED  BY <1>3, <1>4, <2>1, <2>2, <3>1, RecordedFormed
  <2>3. CASE driver' = [driver EXCEPT ![d].pc = "ready"] /\ UNCHANGED record
    <3>1. /\ driver \in [Drivers -> DriverState] /\ driver[d].pc = "result"
          /\ driver'[d] = [driver[d] EXCEPT !.pc = "ready"] /\ \A e \in Drivers \ {d} : driver'[e] = driver[e]
          BY <1>6, <2>3 DEF RecordProfileResult, IInv, TypeOK
    <3>2. /\ driver'[d].pc = "ready" /\ driver'[d].held = r /\ driver'[d].stale = driver[d].stale
          /\ driver'[d] \in DriverState
          BY <3>1 DEF DriverState, Idle, Held, r
    <3>3. driver' \in [Drivers -> DriverState]  BY <2>3, <3>1, <3>2
    <3>4. TypeOK' /\ TimeGrows /\ ServerInv'
      <4>1. TypeOK'  BY <1>1, <2>3, <3>3 DEF IInv, TypeOK, world
      <4>2. TimeGrows  BY <1>1, Constants DEF IInv, TypeOK, world, TimeGrows, LastChange
      <4>3. ServerInv'  BY <1>1 DEF IInv, world, ServerInv
      <4> QED  BY <4>1, <4>2, <4>3
    <3>5. \A q : Good(q) => Good(q)'  BY <3>4, GoodStays DEF IInv
    <3>6. ASSUME NEW e \in Drivers, Busy(e)'  PROVE (DriverFollows(e) /\ Fresh(e))'
      <4>1. Busy(e)  BY <3>1, <3>6 DEF Busy
      <4>2. DriverFollows(e) /\ Fresh(e)  BY <4>1 DEF IInv, Drivers_Inv
      <4>3. Copy(e)' = Copy(e)  BY <3>1, <3>2 DEF Copy, Held, r
      <4>4. Good(Copy(e))'  BY <3>5, <4>2, <4>3 DEF DriverFollows
      <4>5. CASE e = d
            BY <2>3, <3>1, <3>2, <4>2, <4>3, <4>4, <4>5 DEF DriverFollows, Fresh, Held, r
      <4>6. CASE e # d
            BY <1>1, <2>3, <3>1, <4>2, <4>3, <4>4, <4>6 DEF DriverFollows, Fresh, Profiled, world
      <4> QED  BY <4>5, <4>6
    <3>7. ASSUME NEW e \in Drivers, NEW a, Transporting(e, a)'  PROVE Transporting(e, a)
          BY <3>1, <3>2, <3>7 DEF Transporting
    <3>8. TransportInv'  BY <1>1, <3>7 DEF IInv, TransportInv
    <3>9. Good(record)'  BY <2>3, <3>5 DEF IInv
    <3> QED  BY <3>4, <3>6, <3>8, <3>9 DEF IInv, Drivers_Inv
  <2> QED  BY <1>6, <2>2, <2>3 DEF RecordProfileResult, r
<1>7. CASE MarkProfileExecutionInconclusive(d)
  <2>1. SaveUpdate(d, Inconclusive(r, "DISCOVER_HOTSPOTS"), "ready")
        BY <1>7 DEF MarkProfileExecutionInconclusive, r
  <2>2. r.stage = "PROFILE_APPROVAL" /\ r.baselineStopped
    <3>1. CASE Ready(d, {"RECORD_PROFILE_RESULT"})  BY <1>3, <3>1, ActionsOffered DEF Ready, Held, r
    <3>2. CASE driver[d].pc = "failure"  BY <1>1, <3>2, HeldGood DEF Profiled, r
    <3> QED  BY <1>7, <3>1, <3>2 DEF MarkProfileExecutionInconclusive
  <2>3. Timed(Inconclusive(r, "DISCOVER_HOTSPOTS"))  BY <1>3, TimedKept DEF VLLMWorkflowRecord, Inconclusive
  <2> QED  BY <1>3, <1>4, <2>1, <2>2, <2>3, UnprofiledFormed
<1>8. CASE MarkProfileUnavailable(d)
  <2>1. SaveUpdate(d, Inconclusive(r, "DISCOVER_HOTSPOTS"), "ready")  BY <1>8 DEF MarkProfileUnavailable, r
  <2>2. r.stage = "PROFILE_APPROVAL" /\ r.baselineStopped
        BY <1>3, <1>8, ActionsOffered DEF MarkProfileUnavailable, Ready, Held, r
  <2>3. Timed(Inconclusive(r, "DISCOVER_HOTSPOTS"))  BY <1>3, TimedKept DEF VLLMWorkflowRecord, Inconclusive
  <2> QED  BY <1>3, <1>4, <2>1, <2>2, <2>3, UnprofiledFormed
<1>9. CASE FinalizeGpuBudget(d)
  <2>1. r.status = "ACTIVE" /\ r.activePhase = "none" /\ SaveUpdate(d, Inconclusive(r, NoStage), "ready")
        BY <1>9 DEF FinalizeGpuBudget, r
  <2>2. Timed(Inconclusive(r, NoStage))  BY <1>3, TimedKept DEF VLLMWorkflowRecord, Inconclusive
  <2> QED  BY <1>3, <1>4, <2>1, <2>2, ClosedFormed
<1> QED  BY <1>5, <1>6, <1>7, <1>8, <1>9

\* A start: the server it leaves.
LEMMA StartMoves ==
  ASSUME IInv, NEW request \in Request, CanStart(request), server' = Started(request),
         UNCHANGED << clock, serverTicks >>
  PROVE  /\ server' \in Server /\ ServerInv' /\ TimeGrows
         /\ server'.alive /\ server'.request = request /\ server'.status = "RUNNING"
         /\ LastChange <= server'.since /\ server'.since \in 0 .. MaxClock
<1>1. server \in Server /\ clock \in 0 .. MaxClock /\ serverTicks \in 0 .. MaxClock /\ ServerInv
      BY DEF IInv, TypeOK, Server
<1>2. CASE server.alive
  <2>1. server' = server /\ server.request = request  BY <1>2 DEF CanStart, Started
  <2>2. server.status = "RUNNING"  BY <1>1, <1>2 DEF ServerInv
  <2> QED  BY <1>1, <1>2, <2>1, <2>2, Constants DEF ServerInv, TimeGrows, LastChange, Server
<1>3. CASE ~server.alive
  <2>1. /\ server' = [ alive |-> TRUE, request |-> request, status |-> "RUNNING",
                       session |-> server.session + 1, since |-> clock, stoppedAt |-> 0 ]
        /\ server.session < MaxSessions
        BY <1>3 DEF Started, CanStart
  <2>2. server.session \in 0 .. MaxSessions /\ server.session + 1 \in 0 .. MaxSessions /\ 0 \in 0 .. MaxClock
        BY <1>1, <2>1, Constants DEF Server
  <2>3. server' \in Server  BY <1>1, <2>1, <2>2 DEF Server
  <2> QED  BY <1>1, <2>1, <2>2, <2>3, Constants DEF ServerInv, TimeGrows, LastChange, Server
<1> QED  BY <1>2, <1>3

\* A stop: the server it leaves.
LEMMA StopMoves ==
  ASSUME IInv, NEW request, StopVerified(request), server' = Stopped, UNCHANGED << clock, serverTicks >>
  PROVE  /\ server' \in Server /\ ServerInv' /\ TimeGrows
         /\ ~server'.alive /\ server'.status = "STOPPED" /\ server'.request = request
         /\ server'.since = server.since /\ server'.session = server.session
         /\ server.since <= server'.stoppedAt /\ server'.stoppedAt \in 0 .. MaxClock
         /\ server'.stoppedAt = IF server.alive THEN clock ELSE server.stoppedAt
<1>1. server \in Server /\ clock \in 0 .. MaxClock /\ serverTicks \in 0 .. MaxClock /\ ServerInv
      BY DEF IInv, TypeOK, Server
<1>2. CASE server.alive
  <2>1. server' = [server EXCEPT !.alive = FALSE, !.status = "STOPPED", !.stoppedAt = clock]
        BY <1>2 DEF Stopped
  <2>2. server' \in Server  BY <1>1, <2>1 DEF Server
  <2> QED  BY <1>1, <1>2, <2>1, <2>2, Constants DEF ServerInv, TimeGrows, LastChange, Server, StopVerified
<1>3. CASE ~server.alive
  <2>1. server' = server /\ server.status = "STOPPED"  BY <1>3 DEF Stopped, StopVerified
  <2> QED  BY <1>1, <1>3, <2>1, Constants DEF ServerInv, TimeGrows, LastChange, Server, StopVerified
<1> QED  BY <1>2, <1>3

\* The time a stop charges is within the clock, and the record it leaves timed.
LEMMA Charged ==
  ASSUME IInv, NEW request, StopVerified(request), server' = Stopped, UNCHANGED << clock, serverTicks >>,
         NEW r \in VLLMWorkflowRecord, Timed(r), r.activePhase # "none"
  PROVE  /\ r.serverSeconds + (server'.stoppedAt - r.activeSince) \in 0 .. MaxClock
         /\ \A n : /\ n.activePhase = "none" /\ n.profileSeconds = r.profileSeconds
                   /\ n.serverSeconds = r.serverSeconds + (server'.stoppedAt - r.activeSince)
                   => Timed(n)'
<1>1. /\ server'.status = "STOPPED" /\ server'.since = server.since /\ server.since <= server'.stoppedAt
      /\ server'.stoppedAt \in 0 .. MaxClock /\ clock' = clock /\ server.since \in 0 .. MaxClock
      BY StopMoves DEF IInv, TypeOK
<1>2. /\ r.serverSeconds \in Nat /\ r.activeSince \in Nat /\ r.serverSeconds <= r.activeSince
      /\ r.activeSince <= server.since /\ r.profileSeconds <= clock
      BY RecordFields DEF Timed
<1>3. r.serverSeconds + (server'.stoppedAt - r.activeSince) \in 0 .. MaxClock
      /\ r.serverSeconds + (server'.stoppedAt - r.activeSince) <= server'.stoppedAt
      BY <1>1, <1>2, Constants
<1>4. LastChange' = server'.stoppedAt  BY <1>1 DEF LastChange
<1> QED  BY <1>1, <1>2, <1>3, <1>4 DEF Timed

\* The measurements, and their failures.
LEMMA MeasureStep ==
  ASSUME IInv, NEW d \in Drivers, CaptureBaseline(d) \/ RunExperiment(d) \/ RunQuality(d)
  PROVE  IInv'
<1> DEFINE r == Held(d)
<1>1. driver[d].pc = "ready" /\ UNCHANGED << consumed, server, world, transports >>
      /\ NextAction(r) \in {"RUN_BASELINE", "RUN_EXPERIMENT", "RUN_QUALITY"}
      BY DEF CaptureBaseline, RunExperiment, RunQuality, Ready, Held
<1>2. r \in VLLMWorkflowRecord /\ Formed(r) /\ Timed(r)  BY <1>1, HeldGood DEF Thens, Good
<1>3. r.status = "ACTIVE"  BY <1>1, <1>2, ActionsOffered
<1>4. ASSUME NEW next, Formed(next), Timed(next), next.status = "ACTIVE", SaveLater(d, next, "ready")
      PROVE  IInv'
  <2>1. server' \in Server /\ ServerInv' /\ TimeGrows
        BY <1>1, Constants DEF IInv, TypeOK, Server, ServerInv, TimeGrows, LastChange, world
  <2>2. Good(next)'
    <3>1. UNCHANGED << clock, server >>  BY <1>1 DEF world
    <3> QED  BY <1>4, <3>1 DEF Good, Formed, Timed, LastChange
  <2> QED  BY <1>1, <1>3, <1>4, <2>1, <2>2, EffectStep
<1>5. Measured \in Evidence  \/ ~server.alive
      BY DEF IInv, TypeOK, ServerInv, Measured, Evidence
<1> HIDE DEF r
<1>6. CASE RunActive(r) /\ SaveLater(d, CleanupRequested(r), "ready")
  <2>1. Formed(CleanupRequested(r))  BY <1>2, <1>6, CleanupFormed
  <2>2. Timed(CleanupRequested(r)) /\ CleanupRequested(r).status = "ACTIVE"
        BY <1>2, <1>3, TimedKept DEF VLLMWorkflowRecord, CleanupRequested
  <2> QED  BY <1>4, <1>6, <2>1, <2>2
<1>7. CASE NextAction(r) = "RUN_BASELINE" /\ SaveLater(d, [r EXCEPT !.stage = "PROFILE_APPROVAL"], "ready")
  <2>1. Formed([r EXCEPT !.stage = "PROFILE_APPROVAL"])  BY <1>2, <1>7, CapturedFormed
  <2>2. Timed([r EXCEPT !.stage = "PROFILE_APPROVAL"]) /\ [r EXCEPT !.stage = "PROFILE_APPROVAL"].status = "ACTIVE"
        BY <1>2, <1>3, TimedKept DEF VLLMWorkflowRecord
  <2> QED  BY <1>4, <1>7, <2>1, <2>2
<1>8. CASE /\ NextAction(r) = "RUN_EXPERIMENT" /\ server.alive
           /\ SaveLater(d, [r EXCEPT !.stage = "QUALITY", !.result = Measured], "ready")
  <2>1. PICK e \in Evidence : e = Measured  BY <1>5, <1>8
  <2>2. Formed([r EXCEPT !.stage = "QUALITY", !.result = e])  BY <1>2, <1>8, MeasuredFormed
  <2>3. /\ Timed([r EXCEPT !.stage = "QUALITY", !.result = e])
        /\ [r EXCEPT !.stage = "QUALITY", !.result = e].status = "ACTIVE"
        BY <1>2, <1>3, TimedKept DEF VLLMWorkflowRecord
  <2> QED  BY <1>4, <1>8, <2>1, <2>2, <2>3
<1>9. CASE /\ NextAction(r) = "RUN_QUALITY" /\ server.alive
           /\ SaveLater(d, [r EXCEPT !.quality = Measured], "ready")
  <2>1. PICK e \in Evidence : e = Measured  BY <1>5, <1>9
  <2>2. Formed([r EXCEPT !.quality = e])  BY <1>2, <1>9, QualifiedFormed
  <2>3. Timed([r EXCEPT !.quality = e]) /\ [r EXCEPT !.quality = e].status = "ACTIVE"
        BY <1>2, <1>3, TimedKept DEF VLLMWorkflowRecord
  <2> QED  BY <1>4, <1>9, <2>1, <2>2, <2>3
<1>10. CASE CaptureBaseline(d)
       BY <1>6, <1>7, <1>10 DEF CaptureBaseline, Ready, Held, r
<1>11. CASE RunExperiment(d)
       BY <1>6, <1>8, <1>11 DEF RunExperiment, Ready, Held, r, Serving
<1>12. CASE RunQuality(d)
       BY <1>6, <1>9, <1>12 DEF RunQuality, Ready, Held, r
<1> QED  BY <1>10, <1>11, <1>12

\* The starts, refused or not.
LEMMA StartStep ==
  ASSUME IInv, NEW d \in Drivers, StartServer(d) \/ StartCandidateServer(d)
  PROVE  IInv'
<1> DEFINE r == Held(d)
<1>1. driver[d].pc = "ready" /\ UNCHANGED << consumed, world, transports >> /\ r.activePhase = "none"
      /\ NextAction(r) \in {"START_SERVER", "START_EXPERIMENT_SERVER"}
      BY DEF StartServer, StartCandidateServer, Ready, Held
<1>2. r \in VLLMWorkflowRecord /\ Formed(r) /\ Timed(r)  BY <1>1, HeldGood DEF Thens, Good
<1>3. r.status = "ACTIVE"  BY <1>1, <1>2, ActionsOffered
<1>4. clock' = clock /\ serverTicks' = serverTicks  BY <1>1 DEF world
<1> HIDE DEF r
<1>5. PICK request \in Request : /\ CanStart(request) /\ server' = Started(request)
                                 /\ StartCandidateServer(d) => request = r.experimentCount
      BY <1>2, RecordFields, Constants DEF StartServer, StartCandidateServer, r, Request, Baseline
<1>6. /\ server' \in Server /\ ServerInv' /\ TimeGrows
      /\ LastChange <= server'.since /\ server'.since \in 0 .. MaxClock /\ server'.status = "RUNNING"
      BY <1>4, <1>5, StartMoves
<1>7. PICK t \in 0 .. MaxClock : t = server'.since  BY <1>6
<1>8. ASSUME NEW next, Formed(next), next.status = "ACTIVE", next.activeSince = t,
             next.serverSeconds = r.serverSeconds, next.profileSeconds = r.profileSeconds,
             SaveLater(d, next, "ready")
      PROVE  IInv'
  <2>1. LastChange' = t  BY <1>6, <1>7 DEF LastChange
  <2>2. /\ r.serverSeconds <= LastChange /\ r.profileSeconds <= clock /\ r.serverSeconds \in Nat
        /\ LastChange \in Nat
        BY <1>2, RecordFields, Constants DEF Timed, LastChange, IInv, TypeOK
  <2>3. Timed(next)'  BY <1>4, <1>6, <1>7, <1>8, <2>1, <2>2, Constants DEF Timed
  <2>4. Good(next)'  BY <1>8, <2>3 DEF Good, Formed
  <2> QED  BY <1>1, <1>3, <1>6, <1>8, <2>4, EffectStep DEF r
<1>9. CASE StartServer(d)
  <2>1. NextAction(r) = "START_SERVER"  BY <1>9 DEF StartServer, Ready, Held, r
  <2> DEFINE active == [r EXCEPT !.activePhase = "baseline_server", !.activeSince = t, !.baselineRequest = TRUE]
  <2>2. \/ SaveLater(d, [active EXCEPT !.stage = "BASELINE"], "ready")
        \/ SaveLater(d, [active EXCEPT !.baselineMustStop = TRUE], "ready")
        BY <1>7, <1>9 DEF StartServer, WithActiveServer, r
  <2>3. Formed([active EXCEPT !.stage = "BASELINE"]) /\ Formed([active EXCEPT !.baselineMustStop = TRUE])
        BY <1>1, <1>2, <2>1, StartedFormed, StartRefusedFormed
  <2>4. ASSUME NEW n \in {[active EXCEPT !.stage = "BASELINE"], [active EXCEPT !.baselineMustStop = TRUE]}
        PROVE  /\ n.status = "ACTIVE" /\ n.activeSince = t
               /\ n.serverSeconds = r.serverSeconds /\ n.profileSeconds = r.profileSeconds
        BY <1>2, <1>3 DEF VLLMWorkflowRecord
  <2> QED  BY <1>8, <2>2, <2>3, <2>4
<1>10. CASE StartCandidateServer(d)
  <2>1. NextAction(r) = "START_EXPERIMENT_SERVER"  BY <1>10 DEF StartCandidateServer, Ready, Held, r
  <2> DEFINE active == [r EXCEPT !.activePhase = "candidate_server", !.activeSince = t,
                                 !.candidateRequest = r.experimentCount]
  <2>2. \/ SaveLater(d, [active EXCEPT !.candidateStarted = TRUE], "ready")
        \/ SaveLater(d, [active EXCEPT !.candidateMustStop = TRUE], "ready")
        BY <1>7, <1>10 DEF StartCandidateServer, WithActiveServer, r
  <2>3. Formed([active EXCEPT !.candidateStarted = TRUE]) /\ Formed([active EXCEPT !.candidateMustStop = TRUE])
        BY <1>1, <1>2, <2>1, CandidateStartedFormed, CandidateRefusedFormed
  <2>4. ASSUME NEW n \in {[active EXCEPT !.candidateStarted = TRUE], [active EXCEPT !.candidateMustStop = TRUE]}
        PROVE  /\ n.status = "ACTIVE" /\ n.activeSince = t
               /\ n.serverSeconds = r.serverSeconds /\ n.profileSeconds = r.profileSeconds
        BY <1>2, <1>3 DEF VLLMWorkflowRecord
  <2> QED  BY <1>8, <2>2, <2>3, <2>4
<1> QED  BY <1>9, <1>10

\* The stops.
LEMMA StopStep ==
  ASSUME IInv, NEW d \in Drivers,
         StopBaselineServer(d) \/ StopFailedCandidateServer(d) \/ StopCandidateServer(d)
  PROVE  IInv'
<1> DEFINE r == Held(d)
<1>1. driver[d].pc = "ready" /\ UNCHANGED << consumed, world, transports >> /\ r.activePhase # "none"
      /\ NextAction(r) \in {"STOP_BASELINE_SERVER", "STOP_FAILED_EXPERIMENT_SERVER", "STOP_EXPERIMENT_SERVER"}
      BY DEF StopBaselineServer, StopFailedCandidateServer, StopCandidateServer, Ready, Held
<1>2. r \in VLLMWorkflowRecord /\ Formed(r) /\ Timed(r)  BY <1>1, HeldGood DEF Thens, Good
<1>3. r.status = "ACTIVE"  BY <1>1, <1>2, ActionsOffered
<1>4. clock' = clock /\ serverTicks' = serverTicks  BY <1>1 DEF world
<1> HIDE DEF r
<1>5. PICK request : StopVerified(request) /\ server' = Stopped
      BY DEF StopBaselineServer, StopFailedCandidateServer, StopCandidateServer
<1>6. server' \in Server /\ ServerInv' /\ TimeGrows  BY <1>4, <1>5, StopMoves
<1>7. r.serverSeconds + (server'.stoppedAt - r.activeSince) \in 0 .. MaxClock
      BY <1>1, <1>2, <1>4, <1>5, Charged
<1>8. PICK t \in 0 .. MaxClock : t = r.serverSeconds + (server'.stoppedAt - r.activeSince)  BY <1>7
<1>9. ASSUME NEW next, Formed(next), next.status = "ACTIVE", next.activePhase = "none",
             next.serverSeconds = t, next.profileSeconds = r.profileSeconds,
             NEW then \in {"ready", "finalizing"}, SaveLater(d, next, then)
      PROVE  IInv'
  <2>1. Timed(next)'  BY <1>1, <1>2, <1>4, <1>5, <1>8, <1>9, Charged
  <2>2. Good(next)'  BY <1>9, <2>1 DEF Good, Formed
  <2> QED  BY <1>1, <1>3, <1>6, <1>9, <2>2, EffectStep DEF r
<1> DEFINE done == [r EXCEPT !.activePhase = "none", !.activeSince = 0, !.serverSeconds = t]
<1>10. Accounted(r, server') = done  BY <1>2, <1>8 DEF Accounted, VLLMWorkflowRecord
<1>11. \A n : AfterStop(n) \in {"ready", "finalizing"}  BY DEF AfterStop
<1>12. ASSUME StopBaselineServer(d)  PROVE IInv'
  <2> DEFINE clean == [done EXCEPT !.stage = "SERVER_START", !.baselineRequest = FALSE, !.baselineMustStop = FALSE]
             kept == [done EXCEPT !.baselineStopped = TRUE]
  <2>1. CASE BaselineCleanup(r)
    <3>1. SaveLater(d, clean, AfterStop(clean))
          BY <1>10, <1>12, <2>1 DEF StopBaselineServer, r
    <3>2. r.stage \in {"SERVER_START", "BASELINE"}  BY <2>1 DEF BaselineCleanup
    <3>3. Formed(clean)  BY <1>2, <1>3, <3>2, BaselineCleanedFormed
    <3>4. /\ clean.status = "ACTIVE" /\ clean.activePhase = "none"
          /\ clean.serverSeconds = t /\ clean.profileSeconds = r.profileSeconds
          BY <1>2, <1>3 DEF VLLMWorkflowRecord
    <3> HIDE DEF done, clean, kept
    <3> QED  BY <1>9, <1>11, <3>1, <3>3, <3>4
  <2>2. CASE ~BaselineCleanup(r)
    <3>1. SaveLater(d, kept, AfterStop(kept)) /\ r.stage = "PROFILE_APPROVAL"
          BY <1>10, <1>12, <2>2 DEF StopBaselineServer, r
    <3>2. Formed(kept)  BY <1>2, <1>3, <3>1, BaselineStoppedFormed
    <3>3. /\ kept.status = "ACTIVE" /\ kept.activePhase = "none"
          /\ kept.serverSeconds = t /\ kept.profileSeconds = r.profileSeconds
          BY <1>2, <1>3 DEF VLLMWorkflowRecord
    <3> HIDE DEF done, clean, kept
    <3> QED  BY <1>9, <1>11, <3>1, <3>2, <3>3
  <2> QED  BY <2>1, <2>2
<1>13. ASSUME StopFailedCandidateServer(d)  PROVE IInv'
  <2> DEFINE clean == [done EXCEPT !.candidateRequest = NoRequest, !.candidateMustStop = FALSE,
                                   !.candidateStarted = FALSE, !.quality = NoEvidence, !.stage = "EXPERIMENT"]
  <2>1. SaveLater(d, clean, AfterStop(clean)) /\ r.stage \in {"EXPERIMENT", "QUALITY"}
        BY <1>10, <1>13 DEF StopFailedCandidateServer, CandidateReset, r
  <2>2. Formed(clean)  BY <1>2, <1>3, <2>1, DiscardedFormed
  <2>3. /\ clean.status = "ACTIVE" /\ clean.activePhase = "none"
        /\ clean.serverSeconds = t /\ clean.profileSeconds = r.profileSeconds
        BY <1>2, <1>3 DEF VLLMWorkflowRecord
  <2> HIDE DEF done, clean
  <2> QED  BY <1>9, <1>11, <2>1, <2>2, <2>3
<1>14. ASSUME StopCandidateServer(d)  PROVE IInv'
  <2> DEFINE complete == [done EXCEPT !.stage = "DECIDE"]
  <2>1. SaveLater(d, complete, AfterStop(complete)) /\ r.stage = "QUALITY"
        BY <1>10, <1>14 DEF StopCandidateServer, r
  <2>2. Formed(complete)  BY <1>2, <1>3, <2>1, CompletedFormed
  <2>3. /\ complete.status = "ACTIVE" /\ complete.activePhase = "none"
        /\ complete.serverSeconds = t /\ complete.profileSeconds = r.profileSeconds
        BY <1>2, <1>3 DEF VLLMWorkflowRecord
  <2> HIDE DEF done, complete
  <2> QED  BY <1>9, <1>11, <2>1, <2>2, <2>3
<1> QED  BY <1>12, <1>13, <1>14

-----------------------------------------------------------------------------
(* What holds for any number of drivers.                                   *)

LEMMA InitIInv == Init => IInv
<1> SUFFICES ASSUME Init  PROVE IInv
  OBVIOUS
<1>1. /\ record.stage = "INSPECT" /\ record.status = "ACTIVE" /\ record.rerun = NoStage
      /\ ~record.baselineRequest /\ ~record.baselineMustStop /\ ~record.baselineStopped
      /\ record.approval = "NONE" /\ record.candidateRequest = NoRequest /\ ~record.candidateMustStop
      /\ ~record.candidateStarted /\ record.quality = NoEvidence /\ record.activePhase = "none"
      /\ record.activeSince = 0 /\ record.serverSeconds = 0 /\ record.profileSeconds = 0
      /\ record.experimentCount = 0
      BY DEF Init
<1>2. record \in VLLMWorkflowRecord
  <2>1. /\ 0 \in 0 .. MaxClock /\ 0 \in 0 .. MaxAttempts /\ 0 \in 0 .. MaxExperiments /\ 0 \in 0 .. MaxReruns
        BY Constants
  <2> QED  BY <2>1 DEF Init, VLLMWorkflowRecord, VLLMStage
<1>3. Shape(record)
      BY <1>1, Constants DEF Shape, PhaseFollowsStage, BaselineFollows, CandidateFollows, FirstPass, EndFollows,
                             ClosedQuiet, RunActive, Before, NoStage, RerunStages
<1>4. /\ server \in Server /\ ~server.alive /\ server.status = "NONE" /\ server.since = 0 /\ server.stoppedAt = 0
      BY Constants DEF Init, Server
<1>5. clock = 0 /\ serverTicks = 0 /\ consumed = {} /\ crashes = 0 /\ coordinatesValid = TRUE
      /\ profileAvailable \in BOOLEAN /\ transports = [a \in 1 .. MaxAttempts |-> 0]
      /\ driver = [d \in Drivers |-> Idle]
      BY DEF Init
<1>6. Timed(record)  BY <1>1, <1>4, <1>5 DEF Timed, LastChange
<1>7. ServerInv  BY <1>4, <1>5 DEF ServerInv
<1>8. \A d \in Drivers : driver[d].pc = "idle"  BY <1>5 DEF Idle
<1>9. driver \in [Drivers -> DriverState]  BY <1>5 DEF DriverState
<1>10. TypeOK  BY <1>2, <1>4, <1>5, <1>9, Constants DEF TypeOK, Server
<1>11. Drivers_Inv  BY <1>8 DEF Drivers_Inv, Busy
<1>12. TransportInv  BY <1>5, <1>8 DEF TransportInv, Transporting
<1> QED  BY <1>2, <1>3, <1>6, <1>7, <1>10, <1>11, <1>12 DEF IInv, Good, Formed

LEMMA NextIInv == IInv /\ [Next]_vars => IInv'
<1> SUFFICES ASSUME IInv, [Next]_vars  PROVE IInv'
  OBVIOUS
<1>1. CASE Next
  <2>1. CASE \E d \in Drivers : Load(d) \/ Crash(d)  BY <2>1, LoadStep, CrashStep
  <2>2. CASE \E d \in Drivers : Save(d) \/ ConsumeProfileApproval(d)  BY <2>2, SaveActionStep, ConsumeStep
  <2>3. CASE \E d \in Drivers : \/ RecordInspection(d) \/ RequestActiveServerCleanup(d)
                                \/ RequestProfileApproval(d) \/ RecordProfileApproval(d)
                                \/ RecordAgentDecision(d) \/ Decide(d) \/ Resume(d)
        BY <2>3, RecordStep
  <2>4. CASE \E d \in Drivers : \/ ProfileReturns(d) \/ RecordProfileResult(d)
                                \/ MarkProfileExecutionInconclusive(d) \/ MarkProfileUnavailable(d)
                                \/ FinalizeGpuBudget(d)
        BY <2>4, EndingStep
  <2>5. CASE \E d \in Drivers : CaptureBaseline(d) \/ RunExperiment(d) \/ RunQuality(d)  BY <2>5, MeasureStep
  <2>6. CASE \E d \in Drivers : StartServer(d) \/ StartCandidateServer(d)  BY <2>6, StartStep
  <2>7. CASE \E d \in Drivers : StopBaselineServer(d) \/ StopFailedCandidateServer(d) \/ StopCandidateServer(d)
        BY <2>7, StopStep
  <2>8. CASE Environment  BY <2>8, EnvironmentStep
  <2> QED  BY <1>1, <2>1, <2>2, <2>3, <2>4, <2>5, <2>6, <2>7, <2>8 DEF Next, Drive, Environment
<1>2. CASE UNCHANGED vars
  <2>1. TypeOK' /\ TimeGrows /\ ServerInv'
    <3>1. TypeOK'  BY <1>2 DEF IInv, TypeOK, vars
    <3>2. TimeGrows  BY <1>2, Constants DEF IInv, TypeOK, vars, TimeGrows, LastChange
    <3>3. ServerInv'  BY <1>2 DEF IInv, vars, ServerInv
    <3> QED  BY <3>1, <3>2, <3>3
  <2>2. Good(record)' /\ Drivers_Inv'  BY <1>2, <2>1, DriversStay DEF IInv, vars
  <2>3. TransportInv'  BY <1>2 DEF IInv, TransportInv, Transporting, vars
  <2> QED  BY <2>1, <2>2, <2>3 DEF IInv
<1> QED  BY <1>1, <1>2

\* Whatever the drivers, the clock, the server and the pinned files do: every
\* record that is stored, held or about to be saved keeps the shape its stage
\* allows and charges no time that has not passed (vllm_workflow.py).
THEOREM RecordsStaySound == Spec => []IInv
<1>1. Init => IInv  BY InitIInv
<1>2. IInv /\ [Next]_vars => IInv'  BY NextIInv
<1> QED  BY <1>1, <1>2, PTL DEF Spec

\* An approval reaches the MCP transport at most once, however many drivers
\* race for it, crash or come late: consumed.json is written once, and before
\* the one save that lets its writer go on to the transport.
THEOREM ApprovalsAreTransportedOnce == Spec => []OneTransportPerApproval
<1>1. IInv => OneTransportPerApproval  BY DEF IInv, TransportInv, OneTransportPerApproval
<1> QED  BY <1>1, RecordsStaySound, PTL

Closed(r) == r.status = "INCONCLUSIVE" /\ Exhausted(r) /\ r.rerun = NoStage

\* Nobody holds a current record of a closed task and may still save.
LEMMA ClosureStep ==
  ASSUME IInv, Closed(record), Next
  PROVE  record' = record
<1>1. ASSUME NEW d \in Drivers, Busy(d), ~driver[d].stale
      PROVE  driver[d].pc = "ready" /\ Held(d) = record
  <2>1. DriverFollows(d) /\ Fresh(d)  BY <1>1 DEF IInv, Drivers_Inv
  <2>2. driver[d].pc # "saving" /\ driver[d].held = record
        BY <1>1, <2>1 DEF Fresh, Closed
  <2>3. driver[d].pc \notin {"finalizing", "profiling", "result", "failure"}
        BY <2>1, <2>2 DEF DriverFollows, Copy, Closed
  <2> QED  BY <1>1, <2>2, <2>3, DriverTyped DEF IInv, Thens, Busy, Held
<1>2. NextAction(record) = "RESUME_INCONCLUSIVE" /\ ~RunActive(record) /\ record.rerun = NoStage
  <2>1. record \in VLLMWorkflowRecord /\ PhaseFollowsStage(record) /\ ClosedQuiet(record)
        BY DEF IInv, Good, Formed, Shape
  <2> QED  BY <2>1 DEF Closed, NextAction, PhaseFollowsStage, ClosedQuiet
<1>3. ASSUME NEW d \in Drivers, NEW kinds, Ready(d, kinds), "RESUME_INCONCLUSIVE" \notin kinds
      PROVE  driver[d].stale
      BY <1>1, <1>2, <1>3, DriverTyped DEF Ready, Busy, Held, IInv
<1>4. ASSUME NEW d \in Drivers, driver[d].pc \in {"saving", "finalizing", "profiling", "result", "failure"}
      PROVE  driver[d].stale
      BY <1>1, <1>4, DriverTyped DEF Busy, IInv
<1>5. \A d, next, then : driver[d].stale /\ SaveUpdate(d, next, then) => record' = record  BY DEF SaveUpdate
<1>6. CASE \E d \in Drivers : \/ RecordInspection(d) \/ RequestProfileApproval(d) \/ RecordProfileApproval(d)
                              \/ RecordAgentDecision(d) \/ Decide(d) \/ MarkProfileUnavailable(d)
      BY <1>3, <1>5, <1>6 DEF RecordInspection, RequestProfileApproval, RecordProfileApproval, RecordAgentDecision,
                              Decide, MarkProfileUnavailable
<1>7. CASE \E d \in Drivers : Save(d) \/ ProfileReturns(d) \/ RecordProfileResult(d)
      BY <1>4, <1>5, <1>7 DEF Save, ProfileReturns, RecordProfileResult
<1>8. CASE \E d \in Drivers : MarkProfileExecutionInconclusive(d) \/ FinalizeGpuBudget(d)
      BY <1>3, <1>4, <1>5, <1>8 DEF MarkProfileExecutionInconclusive, FinalizeGpuBudget
<1>9. CASE \E d \in Drivers : Resume(d)
  <2>1. PICK d \in Drivers : Resume(d)  BY <1>9
  <2>2. driver[d].stale  BY <1>1, <1>2, <2>1, DriverTyped DEF Resume, Ready, Busy, IInv
  <2> QED  BY <1>5, <2>1, <2>2 DEF Resume
<1>10. CASE \E d \in Drivers : RequestActiveServerCleanup(d)
  <2>1. PICK d \in Drivers : RequestActiveServerCleanup(d)  BY <1>10
  <2>2. driver[d].stale  BY <1>1, <1>2, <2>1, DriverTyped DEF RequestActiveServerCleanup, Busy, IInv
  <2> QED  BY <1>5, <2>1, <2>2 DEF RequestActiveServerCleanup
<1>11. CASE \E d \in Drivers : \/ StartServer(d) \/ CaptureBaseline(d) \/ StopBaselineServer(d)
                               \/ ConsumeProfileApproval(d) \/ StartCandidateServer(d) \/ RunExperiment(d)
                               \/ RunQuality(d) \/ StopFailedCandidateServer(d) \/ StopCandidateServer(d)
       BY <1>11 DEF StartServer, CaptureBaseline, StopBaselineServer, ConsumeProfileApproval, StartCandidateServer,
                    RunExperiment, RunQuality, StopFailedCandidateServer, StopCandidateServer, SaveLater
<1>12. CASE \E d \in Drivers : Load(d) \/ Crash(d)  BY <1>12 DEF Load, Crash, store
<1>13. CASE Environment
       BY <1>13 DEF Environment, Tick, ServerDies, CoordinatesDrift, StopUnverified, StartExits, store
<1> QED  BY <1>6, <1>7, <1>8, <1>9, <1>10, <1>11, <1>12, <1>13 DEF Next, Drive, Environment

\* A task closed for its budget stays closed: no driver, however late the
\* record it holds, spends or decides anything more on it
\* (finalize_gpu_budget leaves no stage to resume and nothing to abort).
THEOREM ClosureIsFinal == Spec => BudgetClosureIsFinal
<1>1. IInv /\ [Next]_vars =>
        [ record.status = "INCONCLUSIVE" /\ GpuSecondsUsed(record) >= Budget
            /\ record.rerun = NoStage => record' = record ]_record
      BY ClosureStep DEF Closed, Exhausted, vars
<1> QED  BY <1>1, RecordsStaySound, PTL DEF Spec, BudgetClosureIsFinal

-----------------------------------------------------------------------------
(* What a sole driver adds, whose server does not exit by itself.          *)

\* A sole driver that is not saving holds the stored record, and no approval
\* is on its way.
LEMMA SoleHolds ==
  ASSUME Sole, IInv, SoleInv, NEW d \in Drivers, driver[d].pc \in Thens
  PROVE  /\ Held(d) = record /\ ~driver[d].stale /\ \A e \in Drivers : e = d
         /\ crashes = 0 /\ record.approval \in {"REQUESTED", "APPROVED"} => record.attempts \notin consumed
<1>1. Busy(d) /\ driver[d].pc # "saving" /\ \A e \in Drivers : e = d  BY DEF Busy, Thens, Sole
<1>2. ~driver[d].stale  BY <1>1 DEF SoleInv
<1>3. Held(d) = record  BY <1>1, <1>2 DEF IInv, Drivers_Inv, Fresh, Held
<1>4. \A e \in Drivers : driver[e].pc # "saving"  BY <1>1
<1> QED  BY <1>1, <1>2, <1>3, <1>4 DEF SoleInv, ApprovalInv

LEMMA SoleSaved ==
  ASSUME Sole, TypeOK, SoleInv, NEW d \in Drivers, Busy(d),
         NEW next \in VLLMWorkflowRecord, NEW then \in Thens,
         SaveUpdate(d, next, then), UNCHANGED << server, clock, serverTicks >>,
         Linked(next), Evident(next), consumed' \subseteq 1 .. next.attempts,
         crashes' = 0 /\ next.approval \in {"REQUESTED", "APPROVED"} => next.attempts \notin consumed'
  PROVE  SoleInv'
<1>1. ~driver[d].stale /\ \A e \in Drivers : e = d  BY DEF SoleInv, Sole
<1>2. record' = next /\ driver' = [e \in Drivers |-> IF e = d THEN Continue(then, next) ELSE Outdated(driver[e])]
      BY <1>1 DEF SaveUpdate
<1>3. driver'[d].pc = then /\ ~driver'[d].stale
  <2>1. driver'[d] = Continue(then, next)  BY <1>2
  <2> QED  BY <2>1, ContinueKeeps DEF TypeOK
<1>4. \A e \in Drivers : driver'[e].pc # "saving" /\ ~driver'[e].stale  BY <1>1, <1>3 DEF Thens
<1>5. Linked(record)' /\ Evident(record)'
      BY <1>2 DEF Linked, Evident, UnaccountedIn, RequestOf, Measured, Exhausted, GpuSecondsUsed
<1>6. ApprovalInv'  BY <1>2 DEF ApprovalInv
<1>7. ~server'.alive => server'.status \in {"NONE", "STOPPED"}  BY DEF SoleInv
<1> QED  BY <1>4, <1>5, <1>6, <1>7 DEF SoleInv

LEMMA SoleEffected ==
  ASSUME Sole, IInv, SoleInv, NEW d \in Drivers, driver[d].pc = "ready",
         NEW next, NEW then \in {"ready", "finalizing", "profiling"}, SaveLater(d, next, then),
         Linked(record)', Evident(record)', Linked(next)', Evident(next)',
         next.attempts = record.attempts, then # "profiling" => next.approval = record.approval,
         ~server'.alive => server'.status = "STOPPED" \/ server' = server,
         consumed' \subseteq 1 .. record.attempts, then = "profiling" \/ consumed' = consumed, crashes' = crashes
  PROVE  SoleInv'
<1>1. \A e \in Drivers : e = d  BY DEF Sole
<1>2. /\ driver'[d] = [pc |-> "saving", next |-> next, then |-> then, stale |-> driver[d].stale]
      /\ record' = record
      BY DEF SaveLater, IInv, TypeOK
<1>3. ~driver'[d].stale /\ driver'[d].pc = "saving" /\ driver'[d].next = next /\ driver'[d].then = then
      BY <1>2, SoleHolds DEF Thens
<1>4. ApprovalInv'
  <2>1. CASE then = "profiling"  BY <1>2, <1>3, <2>1 DEF ApprovalInv
  <2>2. CASE consumed' = consumed  BY <1>2, <2>2, SoleHolds DEF ApprovalInv, Thens
  <2> QED  BY <2>1, <2>2
<1>5. ~server'.alive => server'.status \in {"NONE", "STOPPED"}  BY DEF SoleInv
<1>6. ASSUME NEW e \in Drivers
      PROVE  /\ ~driver'[e].stale
             /\ (Linked(driver[e].next))' /\ (Evident(driver[e].next))'
             /\ driver'[e].next.attempts = record'.attempts
             /\ driver'[e].then # "profiling" => driver'[e].next.approval = record'.approval
  <2>1. e = d  BY <1>1
  <2>2. (Linked(driver[e].next))'  BY <1>3, <2>1 DEF Linked, UnaccountedIn, RequestOf, Exhausted, GpuSecondsUsed
  <2>3. (Evident(driver[e].next))'  BY <1>3, <2>1 DEF Evident
  <2> QED  BY <1>2, <1>3, <2>1, <2>2, <2>3
<1> QED  BY <1>4, <1>5, <1>6 DEF SoleInv

\* A record whose server is off and accounted stays linked while it moves on.
LEMMA QuietLinked ==
  ASSUME NEW r, Linked(r), ~server.alive, r.activePhase = "none",
         NEW n, n.activePhase = "none", n.serverSeconds = r.serverSeconds
  PROVE  Linked(n)
BY DEF Linked, UnaccountedIn

LEMMA LinkedKept ==
  ASSUME NEW r, Linked(r), NEW n, n.activePhase = r.activePhase, n.serverSeconds = r.serverSeconds,
         n.activeSince = r.activeSince, n.experimentCount = r.experimentCount,
         \/ r.activePhase # "none"
         \/ /\ n.status = r.status /\ n.stage = r.stage /\ n.candidateRequest = r.candidateRequest
            /\ n.profileSeconds = r.profileSeconds
  PROVE  Linked(n)
BY DEF Linked, UnaccountedIn, RequestOf, Exhausted, GpuSecondsUsed

\* Only a server about to be started, or to be noted as started, runs unnoted.
LEMMA ServerOff ==
  ASSUME NEW r, Linked(r), r.activePhase = "none",
         \/ r.stage \notin {"SERVER_START", "EXPERIMENT"} \/ r.status # "ACTIVE" \/ Exhausted(r)
         \/ r.stage = "EXPERIMENT" /\ r.candidateRequest # NoRequest
  PROVE  ~server.alive
BY DEF Linked

\* A method of one step, by a sole driver.
LEMMA SoleRecordStep ==
  ASSUME Sole, IInv, SoleInv, NEW d \in Drivers,
         \/ RecordInspection(d) \/ RequestActiveServerCleanup(d) \/ RequestProfileApproval(d)
         \/ RecordProfileApproval(d) \/ RecordAgentDecision(d) \/ Decide(d) \/ Resume(d)
  PROVE  SoleInv'
<1> DEFINE r == record
<1>1. driver[d].pc = "ready" /\ UNCHANGED << consumed, server, world >>
      BY DEF RecordInspection, RequestActiveServerCleanup, RequestProfileApproval, RecordProfileApproval,
             RecordAgentDecision, Decide, Resume, Ready
<1>2. /\ Held(d) = r /\ driver[d].held = r /\ Busy(d)
      /\ crashes = 0 /\ r.approval \in {"REQUESTED", "APPROVED"} => r.attempts \notin consumed
      BY <1>1, SoleHolds DEF Thens, Held, Busy
<1>3. r \in VLLMWorkflowRecord /\ Formed(r) /\ Linked(r) /\ Evident(r) /\ consumed \subseteq 1 .. r.attempts
      BY DEF IInv, SoleInv, Good, Formed, ApprovalInv
<1>4. /\ PhaseFollowsStage(r) /\ BaselineFollows(r) /\ CandidateFollows(r) /\ EndFollows(r)
      BY <1>3 DEF Formed, Shape
<1> HIDE DEF r
<1>5. ASSUME NEW next, next \in VLLMWorkflowRecord, Linked(next), Evident(next),
             next.attempts = r.attempts, next.approval \in {r.approval, "NONE", "CONSUMED"} \/ r.approval = "REQUESTED",
             SaveUpdate(d, next, "ready")
      PROVE  SoleInv'
      BY <1>1, <1>2, <1>3, <1>5, SoleSaved DEF Thens, world, IInv
<1>6. CASE RecordInspection(d)
  <2> DEFINE n == [r EXCEPT !.stage = "SERVER_START"]
  <2>1. SaveUpdate(d, n, "ready") /\ NextAction(r) = "PROVIDE_INSPECTION"
        BY <1>2, <1>6 DEF RecordInspection, Ready
  <2>2. r.stage = "INSPECT"  BY <1>3, <2>1, ActionsOffered
  <2>3. r.activePhase = "none" /\ ~server.alive
        BY <1>3, <1>4, <2>2, ServerOff, RecordFields DEF PhaseFollowsStage
  <2>4. /\ n \in VLLMWorkflowRecord /\ n.activePhase = "none" /\ n.serverSeconds = r.serverSeconds
        /\ n.attempts = r.attempts /\ n.approval = r.approval /\ n.stage = "SERVER_START"
        BY <1>3, <2>3 DEF VLLMWorkflowRecord, VLLMStage
  <2> HIDE DEF n
  <2> QED  BY <1>3, <1>5, <2>1, <2>3, <2>4, QuietLinked DEF Evident
<1>7. CASE RequestActiveServerCleanup(d)
  <2> DEFINE n == CleanupRequested(r)
  <2>1. SaveUpdate(d, n, "ready") /\ RunActive(r)  BY <1>2, <1>7 DEF RequestActiveServerCleanup
  <2>2. n \in VLLMWorkflowRecord  BY <1>3, <2>1, CleanupFormed DEF Formed
  <2>3. /\ n.activePhase = r.activePhase /\ n.serverSeconds = r.serverSeconds /\ n.activeSince = r.activeSince
        /\ n.experimentCount = r.experimentCount /\ n.status = r.status /\ n.stage = r.stage
        /\ n.candidateRequest = r.candidateRequest /\ n.profileSeconds = r.profileSeconds
        /\ n.attempts = r.attempts /\ n.approval = r.approval /\ n.result = r.result /\ n.quality = r.quality
        BY <1>3 DEF CleanupRequested, VLLMWorkflowRecord
  <2> HIDE DEF n
  <2>4. Linked(n) /\ Evident(n)  BY <1>3, <2>3, LinkedKept DEF Evident
  <2> QED  BY <1>5, <2>1, <2>2, <2>3, <2>4
<1>8. CASE RequestProfileApproval(d)
  <2> DEFINE n == [r EXCEPT !.approval = "REQUESTED", !.attempts = @ + 1]
  <2>1. /\ SaveUpdate(d, n, "ready") /\ r.attempts < MaxAttempts
        /\ NextAction(r) \in {"REQUEST_PROFILE_APPROVAL", "APPROVE_PROFILE", "RUN_APPROVED_PROFILE"}
        BY <1>2, <1>8 DEF RequestProfileApproval, Ready
  <2>2. r.stage = "PROFILE_APPROVAL" /\ r.status = "ACTIVE"  BY <1>3, <2>1, ActionsOffered
  <2>3. n \in VLLMWorkflowRecord  BY <1>3, <2>1, <2>2, RequestedFormed DEF Formed
  <2>4. /\ n.activePhase = r.activePhase /\ n.serverSeconds = r.serverSeconds /\ n.activeSince = r.activeSince
        /\ n.experimentCount = r.experimentCount /\ n.status = r.status /\ n.stage = "PROFILE_APPROVAL"
        /\ n.candidateRequest = r.candidateRequest /\ n.profileSeconds = r.profileSeconds
        /\ n.attempts = r.attempts + 1 /\ r.attempts \in Nat
        BY <1>3, <2>2, RecordFields, Constants DEF VLLMWorkflowRecord
  <2> HIDE DEF n
  <2>5. Linked(n) /\ Evident(n)  BY <1>3, <2>2, <2>4, LinkedKept DEF Evident
  <2>6. consumed' \subseteq 1 .. n.attempts /\ n.attempts \notin consumed'
        BY <1>1, <1>3, <2>4
  <2> QED  BY <1>1, <1>2, <2>1, <2>3, <2>5, <2>6, SoleSaved DEF Thens, world, IInv
<1>9. CASE RecordProfileApproval(d)
  <2> DEFINE n == [r EXCEPT !.approval = "APPROVED"]
  <2>1. SaveUpdate(d, n, "ready") /\ NextAction(r) = "APPROVE_PROFILE"
        BY <1>2, <1>9 DEF RecordProfileApproval, Ready
  <2>2. r.stage = "PROFILE_APPROVAL" /\ r.approval = "REQUESTED"  BY <1>3, <2>1, ActionsOffered
  <2>3. n \in VLLMWorkflowRecord  BY <1>3, <2>1, ApprovedFormed DEF Formed
  <2>4. /\ n.activePhase = r.activePhase /\ n.serverSeconds = r.serverSeconds /\ n.activeSince = r.activeSince
        /\ n.experimentCount = r.experimentCount /\ n.status = r.status /\ n.stage = r.stage
        /\ n.candidateRequest = r.candidateRequest /\ n.profileSeconds = r.profileSeconds
        /\ n.attempts = r.attempts
        BY <1>3 DEF VLLMWorkflowRecord
  <2> HIDE DEF n
  <2>5. Linked(n) /\ Evident(n)  BY <1>3, <2>2, <2>4, LinkedKept DEF Evident
  <2> QED  BY <1>5, <2>1, <2>2, <2>3, <2>4, <2>5
<1>10. CASE RecordAgentDecision(d)
  <2> DEFINE n == [r EXCEPT !.stage = "EXPERIMENT", !.experimentCount = @ + 1]
  <2>1. /\ SaveUpdate(d, n, "ready") /\ NextAction(r) = "SUBMIT_AGENT_DECISION"
        /\ r.experimentCount < MaxExperiments
        BY <1>2, <1>10 DEF RecordAgentDecision, Ready
  <2>2. r.stage = "AGENT_DECISION"  BY <1>3, <2>1, ActionsOffered
  <2>3. r.activePhase = "none" /\ ~server.alive
        BY <1>3, <1>4, <2>2, ServerOff, RecordFields DEF PhaseFollowsStage
  <2>4. n \in VLLMWorkflowRecord  BY <1>3, <2>1, ProposedFormed DEF Formed
  <2>5. /\ n.activePhase = "none" /\ n.serverSeconds = r.serverSeconds
        /\ n.attempts = r.attempts /\ n.approval = r.approval /\ n.stage = "EXPERIMENT"
        BY <1>3, <2>3 DEF VLLMWorkflowRecord
  <2> HIDE DEF n
  <2> QED  BY <1>3, <1>5, <2>1, <2>3, <2>4, <2>5, QuietLinked DEF Evident
<1>11. CASE Decide(d)
  <2>1. NextAction(r) = "EVALUATE_GATE"  BY <1>2, <1>11 DEF Decide, Ready
  <2>2. r.stage = "DECIDE"  BY <1>3, <2>1, ActionsOffered
  <2>3. r.activePhase = "none" /\ ~server.alive
        BY <1>3, <1>4, <2>2, ServerOff, RecordFields DEF PhaseFollowsStage
  <2>4. PICK n \in VLLMWorkflowRecord :
          /\ SaveUpdate(d, n, "ready")
          /\ n.activePhase = "none" /\ n.serverSeconds = r.serverSeconds
          /\ n.attempts = r.attempts /\ n.approval = r.approval /\ n.stage = "DECIDE"
          /\ n.quality = r.quality /\ n.result = r.result /\ n.experimentCount = r.experimentCount
    <3>1. CASE \E status \in {"ACCEPTED", "REJECTED"} : SaveUpdate(d, [r EXCEPT !.status = status], "ready")
      <4>1. PICK status \in {"ACCEPTED", "REJECTED"} : SaveUpdate(d, [r EXCEPT !.status = status], "ready")
            BY <3>1
      <4>2. [r EXCEPT !.status = status] \in VLLMWorkflowRecord  BY <1>3 DEF VLLMWorkflowRecord
      <4> QED  BY <1>3, <2>2, <2>3, <4>1, <4>2 DEF VLLMWorkflowRecord
    <3>2. CASE \E rerun \in RerunStages : SaveUpdate(d, Inconclusive(r, rerun), "ready")
      <4>1. PICK rerun \in RerunStages : SaveUpdate(d, Inconclusive(r, rerun), "ready")  BY <3>2
      <4>2. Inconclusive(r, rerun) \in VLLMWorkflowRecord  BY <1>3, <2>1, RetriedFormed DEF Formed
      <4> QED  BY <1>3, <2>2, <2>3, <4>1, <4>2 DEF VLLMWorkflowRecord, Inconclusive
    <3> QED  BY <1>2, <1>11, <3>1, <3>2 DEF Decide
  <2>5. Evident(n)  BY <1>3, <2>2, <2>4 DEF Evident
  <2> QED  BY <1>3, <1>5, <2>3, <2>4, <2>5, QuietLinked
<1>12. CASE Resume(d)
  <2> DEFINE n == Resumed(r)
  <2>1. SaveUpdate(d, n, "ready") /\ r.rerun # NoStage /\ r.rerunCount < MaxReruns
        BY <1>2, <1>12 DEF Resume
  <2>2. r.status = "INCONCLUSIVE" /\ r.activePhase = "none"
        BY <1>3, <1>4, <2>1, RecordFields DEF EndFollows, PhaseFollowsStage
  <2>3. ~server.alive  BY <1>3, <2>2, ServerOff
  <2>4. n \in VLLMWorkflowRecord  BY <1>3, <2>1, ResumedFormed DEF Formed
  <2>5. /\ n.activePhase = "none" /\ n.serverSeconds = r.serverSeconds /\ n.attempts = r.attempts
        /\ n.approval \in {r.approval, "NONE"} /\ n.stage \in {"SERVER_START", "PROFILE_APPROVAL", "EXPERIMENT"}
        BY <1>3, <2>2 DEF VLLMWorkflowRecord, Resumed, CandidateReset
  <2> HIDE DEF n
  <2> QED  BY <1>3, <1>5, <2>1, <2>2, <2>3, <2>4, <2>5, QuietLinked DEF Evident
<1> QED  BY <1>6, <1>7, <1>8, <1>9, <1>10, <1>11, <1>12

LEMMA SoleEndingStep ==
  ASSUME Sole, IInv, SoleInv, NEW d \in Drivers,
         \/ ProfileReturns(d) \/ RecordProfileResult(d) \/ MarkProfileExecutionInconclusive(d)
         \/ MarkProfileUnavailable(d) \/ FinalizeGpuBudget(d)
  PROVE  SoleInv'
<1> DEFINE r == record
<1>1. driver[d].pc \in Thens /\ UNCHANGED << consumed, server, world >>
      BY DEF ProfileReturns, RecordProfileResult, MarkProfileExecutionInconclusive, MarkProfileUnavailable,
             FinalizeGpuBudget, Ready, Thens
<1>2. /\ Held(d) = r /\ driver[d].held = r /\ Busy(d) /\ ~driver[d].stale
      /\ crashes = 0 /\ r.approval \in {"REQUESTED", "APPROVED"} => r.attempts \notin consumed
      BY <1>1, SoleHolds DEF Thens, Held, Busy
<1>3. r \in VLLMWorkflowRecord /\ Formed(r) /\ Linked(r) /\ Evident(r) /\ consumed \subseteq 1 .. r.attempts
      BY DEF IInv, SoleInv, Good, Formed, ApprovalInv
<1>4. BaselineFollows(r)  BY <1>3 DEF Formed, Shape
<1>5. driver[d].pc \in {"profiling", "result", "failure"} => Profiled(r)  BY <1>1, <1>2, HeldGood
<1> HIDE DEF r
<1>6. FinalizeGpuBudget(d) \/ (r.stage = "PROFILE_APPROVAL" /\ r.baselineStopped)
  <2>1. CASE Ready(d, {"RECORD_PROFILE_RESULT"}) \/ Ready(d, {"RESOLVE_PROFILE_ENVIRONMENT"})
        BY <1>2, <1>3, <2>1, ActionsOffered DEF Ready
  <2>2. CASE driver[d].pc \in {"profiling", "result", "failure"}  BY <1>5, <2>2 DEF Profiled
  <2> QED  BY <2>1, <2>2 DEF ProfileReturns, RecordProfileResult, MarkProfileExecutionInconclusive,
                             MarkProfileUnavailable
<1>7. r.activePhase = "none" /\ ~server.alive
  <2>1. CASE r.stage = "PROFILE_APPROVAL" /\ r.baselineStopped
        BY <1>3, <1>4, <2>1, ServerOff DEF BaselineFollows
  <2>2. CASE FinalizeGpuBudget(d)
        BY <1>2, <1>3, <2>2, ServerOff DEF FinalizeGpuBudget, Exhausted
  <2> QED  BY <1>6, <2>1, <2>2
<1>8. ASSUME NEW next \in VLLMWorkflowRecord, NEW then \in Thens, SaveUpdate(d, next, then),
             next.activePhase = "none", next.serverSeconds = r.serverSeconds,
             next.attempts = r.attempts, next.approval = r.approval,
             \/ next.stage \notin {"QUALITY", "DECIDE"}
             \/ /\ next.stage = r.stage /\ next.quality = r.quality /\ next.result = r.result
                /\ next.experimentCount = r.experimentCount /\ next.activePhase = r.activePhase
      PROVE  SoleInv'
  <2>1. Linked(next)  BY <1>3, <1>7, <1>8, QuietLinked
  <2>2. Evident(next)  BY <1>3, <1>8 DEF Evident
  <2> QED  BY <1>1, <1>2, <1>3, <1>8, <2>1, <2>2, SoleSaved DEF world, IInv
<1>9. CASE ProfileReturns(d)
  <2>1. PICK then \in {"result", "failure"} :
          SaveUpdate(d, [r EXCEPT !.profileSeconds = @ + (clock - driver[d].since)], then)
        BY <1>2, <1>9 DEF ProfileReturns
  <2>2. r.profileSeconds <= driver[d].since /\ driver[d].since <= clock
        BY <1>1, <1>2, <1>9, HeldGood DEF ProfileReturns
  <2>3. driver[d].since \in Nat /\ clock \in 0 .. MaxClock /\ r.profileSeconds \in Nat /\ MaxClock \in Nat
        BY <1>3, <1>9, DriverTyped, RecordFields, Constants DEF ProfileReturns, IInv, TypeOK
  <2>4. PICK t \in 0 .. MaxClock : t = r.profileSeconds + (clock - driver[d].since)  BY <2>2, <2>3
  <2>5. SaveUpdate(d, [r EXCEPT !.profileSeconds = t], then)  BY <2>1, <2>4
  <2>6. [r EXCEPT !.profileSeconds = t] \in VLLMWorkflowRecord /\ r.stage = "PROFILE_APPROVAL"
        BY <1>3, <1>5, <1>9 DEF VLLMWorkflowRecord, ProfileReturns, Profiled
  <2>7. then \in Thens  BY DEF Thens
  <2> QED  BY <1>3, <1>7, <1>8, <2>5, <2>6, <2>7 DEF VLLMWorkflowRecord
<1>10. CASE RecordProfileResult(d)
  <2>1. CASE SaveUpdate(d, [r EXCEPT !.stage = "AGENT_DECISION"], "ready")
    <3>1. [r EXCEPT !.stage = "AGENT_DECISION"] \in VLLMWorkflowRecord  BY <1>3 DEF VLLMWorkflowRecord, VLLMStage
    <3> QED  BY <1>3, <1>7, <1>8, <2>1, <3>1 DEF VLLMWorkflowRecord, Thens
  <2>2. CASE driver' = [driver EXCEPT ![d].pc = "ready"] /\ UNCHANGED record
    <3>1. driver[d].pc = "result" /\ \A e \in Drivers : e = d  BY <1>10 DEF RecordProfileResult, Sole
    <3>2. driver'[d].pc = "ready" /\ driver'[d].stale = driver[d].stale
          BY <2>2, <3>1 DEF IInv, TypeOK, DriverState, Idle
    <3>3. Linked(record)' /\ Evident(record)'
          BY <1>1, <2>2 DEF SoleInv, world, Linked, Evident, UnaccountedIn, RequestOf, Measured, Exhausted,
                            GpuSecondsUsed
    <3>4. ApprovalInv'
          BY <1>1, <1>2, <1>3, <2>2 DEF world, ApprovalInv, r
    <3>5. ~server'.alive => server'.status \in {"NONE", "STOPPED"}  BY <1>1 DEF SoleInv
    <3> QED  BY <1>2, <3>1, <3>2, <3>3, <3>4, <3>5 DEF SoleInv
  <2> QED  BY <1>2, <1>10, <2>1, <2>2 DEF RecordProfileResult
<1>11. CASE MarkProfileExecutionInconclusive(d) \/ MarkProfileUnavailable(d)
  <2>1. SaveUpdate(d, Inconclusive(r, "DISCOVER_HOTSPOTS"), "ready")
        BY <1>2, <1>11 DEF MarkProfileExecutionInconclusive, MarkProfileUnavailable
  <2>2. Inconclusive(r, "DISCOVER_HOTSPOTS") \in VLLMWorkflowRecord
        BY <1>3 DEF VLLMWorkflowRecord, Inconclusive
  <2> QED  BY <1>3, <1>7, <1>8, <2>1, <2>2 DEF VLLMWorkflowRecord, Inconclusive, Thens
<1>12. CASE FinalizeGpuBudget(d)
  <2>1. SaveUpdate(d, Inconclusive(r, NoStage), "ready")  BY <1>2, <1>12 DEF FinalizeGpuBudget
  <2>2. Inconclusive(r, NoStage) \in VLLMWorkflowRecord  BY <1>3 DEF VLLMWorkflowRecord, Inconclusive
  <2> QED  BY <1>3, <1>7, <1>8, <2>1, <2>2 DEF VLLMWorkflowRecord, Inconclusive, Thens
<1> QED  BY <1>9, <1>10, <1>11, <1>12

LEMMA SoleMeasureStep ==
  ASSUME Sole, IInv, SoleInv, NEW d \in Drivers, CaptureBaseline(d) \/ RunExperiment(d) \/ RunQuality(d)
  PROVE  SoleInv'
<1> DEFINE r == record
<1>1. /\ driver[d].pc = "ready" /\ UNCHANGED << record, consumed, server, world >>
      /\ NextAction(driver[d].held) \in {"RUN_BASELINE", "RUN_EXPERIMENT", "RUN_QUALITY"}
      BY DEF CaptureBaseline, RunExperiment, RunQuality, Ready, SaveLater
<1>2. Held(d) = r /\ driver[d].held = r  BY <1>1, SoleHolds DEF Thens, Held
<1>3. r \in VLLMWorkflowRecord /\ Formed(r) /\ Linked(r) /\ Evident(r) /\ consumed \subseteq 1 .. r.attempts
      BY DEF IInv, SoleInv, Good, Formed, ApprovalInv
<1>4. PhaseFollowsStage(r) /\ BaselineFollows(r) /\ CandidateFollows(r)  BY <1>3 DEF Formed, Shape
<1>5. \A n : (Linked(n) => Linked(n)') /\ (Evident(n) => Evident(n)')
      BY <1>1 DEF world, Linked, Evident, UnaccountedIn, RequestOf, Measured, Exhausted, GpuSecondsUsed
<1>6. Linked(record)' /\ Evident(record)'  BY <1>1, <1>3, <1>5 DEF r
<1> HIDE DEF r
<1>7. ASSUME NEW next, Linked(next), Evident(next), next.attempts = r.attempts, next.approval = r.approval,
             SaveLater(d, next, "ready")
      PROVE  SoleInv'
      BY <1>1, <1>3, <1>5, <1>6, <1>7, SoleEffected DEF world, r
<1>8. CASE RunActive(r) /\ SaveLater(d, CleanupRequested(r), "ready")
  <2> DEFINE n == CleanupRequested(r)
  <2>1. /\ n.activePhase = r.activePhase /\ n.serverSeconds = r.serverSeconds /\ n.activeSince = r.activeSince
        /\ n.experimentCount = r.experimentCount /\ n.status = r.status /\ n.stage = r.stage
        /\ n.candidateRequest = r.candidateRequest /\ n.profileSeconds = r.profileSeconds
        /\ n.attempts = r.attempts /\ n.approval = r.approval /\ n.result = r.result /\ n.quality = r.quality
        BY <1>3 DEF CleanupRequested, VLLMWorkflowRecord
  <2> HIDE DEF n
  <2>2. Linked(n) /\ Evident(n)  BY <1>3, <2>1, LinkedKept DEF Evident
  <2> QED  BY <1>7, <1>8, <2>1, <2>2 DEF n
<1>9. CASE NextAction(r) = "RUN_BASELINE" /\ SaveLater(d, [r EXCEPT !.stage = "PROFILE_APPROVAL"], "ready")
  <2> DEFINE n == [r EXCEPT !.stage = "PROFILE_APPROVAL"]
  <2>1. /\ n.activePhase = r.activePhase /\ n.serverSeconds = r.serverSeconds /\ n.activeSince = r.activeSince
        /\ n.experimentCount = r.experimentCount /\ n.stage = "PROFILE_APPROVAL"
        /\ n.attempts = r.attempts /\ n.approval = r.approval
        BY <1>3 DEF VLLMWorkflowRecord
  <2>2. r.activePhase # "none"  BY <1>3, <1>4, <1>9, ActionsOffered DEF BaselineFollows
  <2>3. SaveLater(d, n, "ready")  BY <1>9
  <2> HIDE DEF n
  <2>4. Linked(n) /\ Evident(n)  BY <1>3, <2>1, <2>2, LinkedKept DEF Evident
  <2> QED  BY <1>7, <2>1, <2>3, <2>4
<1>10. CASE /\ NextAction(r) = "RUN_EXPERIMENT" /\ server.alive
            /\ SaveLater(d, [r EXCEPT !.stage = "QUALITY", !.result = Measured], "ready")
  <2>1. PICK m : m = Measured  OBVIOUS
  <2> DEFINE n == [r EXCEPT !.stage = "QUALITY", !.result = m]
  <2>2. /\ n.activePhase = r.activePhase /\ n.serverSeconds = r.serverSeconds /\ n.activeSince = r.activeSince
        /\ n.experimentCount = r.experimentCount /\ n.stage = "QUALITY"
        /\ n.attempts = r.attempts /\ n.approval = r.approval /\ n.result = m /\ n.quality = r.quality
        BY <1>3 DEF VLLMWorkflowRecord
  <2>3. r.stage = "EXPERIMENT" /\ r.candidateStarted  BY <1>3, <1>10, ActionsOffered
  <2>4. r.activePhase = "candidate_server"
    <3>1. r.candidateRequest # NoRequest  BY <1>4, <2>3 DEF CandidateFollows
    <3>2. r.activePhase # "none"  BY <1>3, <1>10, <2>3, <3>1, ServerOff
    <3> QED  BY <1>3, <1>4, <2>3, <3>2, RecordFields DEF PhaseFollowsStage
  <2>5. r.quality = NoEvidence  BY <1>4, <2>3, <2>4 DEF CandidateFollows
  <2>6. SaveLater(d, n, "ready")  BY <1>10, <2>1
  <2> HIDE DEF n
  <2>7. Linked(n) /\ Evident(n)  BY <1>3, <2>1, <2>2, <2>4, <2>5, LinkedKept DEF Evident
  <2> QED  BY <1>7, <2>2, <2>6, <2>7
<1>11. CASE /\ NextAction(r) = "RUN_QUALITY" /\ server.alive
            /\ SaveLater(d, [r EXCEPT !.quality = Measured], "ready")
  <2>1. PICK m : m = Measured  OBVIOUS
  <2> DEFINE n == [r EXCEPT !.quality = m]
  <2>2. /\ n.activePhase = r.activePhase /\ n.serverSeconds = r.serverSeconds /\ n.activeSince = r.activeSince
        /\ n.experimentCount = r.experimentCount /\ n.stage = r.stage
        /\ n.attempts = r.attempts /\ n.approval = r.approval /\ n.result = r.result /\ n.quality = m
        BY <1>3 DEF VLLMWorkflowRecord
  <2>3. r.stage = "QUALITY" /\ r.activePhase = "candidate_server"  BY <1>3, <1>11, ActionsOffered DEF Evident
  <2>4. SaveLater(d, n, "ready")  BY <1>11, <2>1
  <2> HIDE DEF n
  <2>5. Linked(n) /\ Evident(n)  BY <1>3, <2>1, <2>2, <2>3, LinkedKept DEF Evident
  <2> QED  BY <1>7, <2>2, <2>4, <2>5
<1>12. CASE CaptureBaseline(d)
       BY <1>2, <1>8, <1>9, <1>12 DEF CaptureBaseline, Ready
<1>13. CASE RunExperiment(d)
       BY <1>2, <1>8, <1>10, <1>13 DEF RunExperiment, Ready, Serving
<1>14. CASE RunQuality(d)
       BY <1>2, <1>8, <1>11, <1>14 DEF RunQuality, Ready
<1> QED  BY <1>12, <1>13, <1>14

LEMMA SoleStartStep ==
  ASSUME Sole, IInv, SoleInv, NEW d \in Drivers, StartServer(d) \/ StartCandidateServer(d)
  PROVE  SoleInv'
<1> DEFINE r == record
<1>1. /\ driver[d].pc = "ready" /\ UNCHANGED << record, consumed, world >> /\ Held(d).activePhase = "none"
      /\ NextAction(driver[d].held) \in {"START_SERVER", "START_EXPERIMENT_SERVER"}
      BY DEF StartServer, StartCandidateServer, Ready, SaveLater
<1>2. Held(d) = r /\ driver[d].held = r  BY <1>1, SoleHolds DEF Thens, Held
<1>3. r \in VLLMWorkflowRecord /\ Formed(r) /\ Linked(r) /\ Evident(r) /\ consumed \subseteq 1 .. r.attempts
      BY DEF IInv, SoleInv, Good, Formed, ApprovalInv
<1>4. CandidateFollows(r)  BY <1>3 DEF Formed, Shape
<1>5. r.activePhase = "none" /\ r.status = "ACTIVE" /\ ~Exhausted(r)
      BY <1>1, <1>2, <1>3, ActionsOffered, WithinBudget
<1>6. clock' = clock /\ serverTicks' = serverTicks /\ record' = r  BY <1>1 DEF world
<1> HIDE DEF r
<1>7. PICK request \in Request :
        /\ CanStart(request) /\ server' = Started(request)
        /\ \/ StartServer(d) /\ request = Baseline /\ r.stage = "SERVER_START"
           \/ /\ StartCandidateServer(d) /\ request = r.experimentCount
              /\ r.stage = "EXPERIMENT" /\ r.candidateRequest = NoRequest
  <2>1. Baseline \in Request /\ r.experimentCount \in Request
        BY <1>3, RecordFields, Constants DEF Request, Baseline
  <2>2. CASE StartServer(d)
        BY <1>2, <1>3, <2>1, <2>2, ActionsOffered DEF StartServer, Ready
  <2>3. CASE StartCandidateServer(d)
    <3>1. r.stage = "EXPERIMENT" /\ ~r.candidateMustStop /\ ~r.candidateStarted
          BY <1>2, <1>3, <2>3, ActionsOffered DEF StartCandidateServer, Ready
    <3> QED  BY <1>2, <1>4, <2>1, <2>3, <3>1 DEF StartCandidateServer, CandidateFollows
  <2> QED  BY <2>2, <2>3
<1>8. /\ server' \in Server /\ server'.alive /\ server'.request = request /\ server'.since \in 0 .. MaxClock
      BY <1>6, <1>7, StartMoves
<1>9. serverTicks = r.serverSeconds + (clock - server'.since)
  <2>1. CASE server.alive
        BY <1>3, <1>7, <2>1 DEF Started, Linked, UnaccountedIn
  <2>2. CASE ~server.alive
    <3>1. server'.since = clock  BY <1>7, <2>2 DEF Started
    <3>2. clock \in Nat /\ r.serverSeconds \in Nat  BY <1>3, RecordFields, Constants DEF IInv, TypeOK
    <3> QED  BY <1>3, <1>5, <2>2, <3>1, <3>2 DEF Linked, UnaccountedIn
  <2> QED  BY <2>1, <2>2
<1>10. Linked(record)' /\ Evident(record)'
  <2>1. Linked(r)'
        BY <1>5, <1>6, <1>7, <1>8, <1>9 DEF Linked, UnaccountedIn, r, Exhausted, GpuSecondsUsed
  <2>2. Evident(r)'  BY <1>6, <1>7 DEF Evident, r
  <2> QED  BY <2>1, <2>2 DEF r
<1>11. PICK t : t = server'.since  OBVIOUS
<1>12. ASSUME NEW next, next.serverSeconds = r.serverSeconds, next.activePhase # "none", next.activeSince = t,
              next.experimentCount = r.experimentCount, next.attempts = r.attempts, next.approval = r.approval,
              next.stage \notin {"QUALITY", "DECIDE"},
              IF next.activePhase = "baseline_server" THEN request = Baseline ELSE request = r.experimentCount,
              SaveLater(d, next, "ready")
       PROVE  SoleInv'
  <2>1. Linked(next)'  BY <1>6, <1>8, <1>9, <1>11, <1>12 DEF Linked, UnaccountedIn, RequestOf
  <2>2. Evident(next)'  BY <1>12 DEF Evident
  <2> QED  BY <1>1, <1>3, <1>6, <1>8, <1>10, <1>12, <2>1, <2>2, SoleEffected DEF world, r
<1>13. CASE StartServer(d) /\ request = Baseline /\ r.stage = "SERVER_START"
  <2> DEFINE active == [r EXCEPT !.activePhase = "baseline_server", !.activeSince = t, !.baselineRequest = TRUE]
  <2>1. PICK n : /\ n \in {[active EXCEPT !.stage = "BASELINE"], [active EXCEPT !.baselineMustStop = TRUE]}
                 /\ SaveLater(d, n, "ready")
        BY <1>2, <1>11, <1>13 DEF StartServer, WithActiveServer
  <2>2. /\ n.serverSeconds = r.serverSeconds /\ n.activePhase = "baseline_server" /\ n.activeSince = t
        /\ n.experimentCount = r.experimentCount /\ n.attempts = r.attempts /\ n.approval = r.approval
        /\ n.stage \in {"SERVER_START", "BASELINE"}
        BY <1>3, <1>13, <2>1 DEF VLLMWorkflowRecord
  <2> QED  BY <1>12, <1>13, <2>1, <2>2
<1>14. CASE StartCandidateServer(d) /\ request = r.experimentCount /\ r.stage = "EXPERIMENT"
  <2> DEFINE active == [r EXCEPT !.activePhase = "candidate_server", !.activeSince = t,
                                 !.candidateRequest = r.experimentCount]
  <2>1. PICK n : /\ n \in {[active EXCEPT !.candidateStarted = TRUE], [active EXCEPT !.candidateMustStop = TRUE]}
                 /\ SaveLater(d, n, "ready")
        BY <1>2, <1>11, <1>14 DEF StartCandidateServer, WithActiveServer
  <2>2. /\ n.serverSeconds = r.serverSeconds /\ n.activePhase = "candidate_server" /\ n.activeSince = t
        /\ n.experimentCount = r.experimentCount /\ n.attempts = r.attempts /\ n.approval = r.approval
        /\ n.stage = "EXPERIMENT"
        BY <1>3, <1>14, <2>1 DEF VLLMWorkflowRecord
  <2> QED  BY <1>12, <1>14, <2>1, <2>2
<1> QED  BY <1>7, <1>13, <1>14

LEMMA SoleStopStep ==
  ASSUME Sole, IInv, SoleInv, NEW d \in Drivers,
         StopBaselineServer(d) \/ StopFailedCandidateServer(d) \/ StopCandidateServer(d)
  PROVE  SoleInv'
<1> DEFINE r == record
<1>1. /\ driver[d].pc = "ready" /\ UNCHANGED << record, consumed, world >> /\ Held(d).activePhase # "none"
      /\ NextAction(driver[d].held) \in
           {"STOP_BASELINE_SERVER", "STOP_FAILED_EXPERIMENT_SERVER", "STOP_EXPERIMENT_SERVER"}
      BY DEF StopBaselineServer, StopFailedCandidateServer, StopCandidateServer, Ready, SaveLater
<1>2. Held(d) = r /\ driver[d].held = r  BY <1>1, SoleHolds DEF Thens, Held
<1>3. /\ r \in VLLMWorkflowRecord /\ Formed(r) /\ Linked(r) /\ Evident(r) /\ consumed \subseteq 1 .. r.attempts
      /\ Timed(r)
      BY DEF IInv, SoleInv, Good, Formed, ApprovalInv
<1>4. clock' = clock /\ serverTicks' = serverTicks /\ record' = r  BY <1>1 DEF world
<1> HIDE DEF r
<1>5. PICK request : StopVerified(request) /\ server' = Stopped
      BY DEF StopBaselineServer, StopFailedCandidateServer, StopCandidateServer
<1>6. /\ ~server'.alive /\ server'.status = "STOPPED" /\ server'.request = server.request
      /\ server'.since = server.since /\ server'.session = server.session /\ server'.stoppedAt \in 0 .. MaxClock
      /\ server'.stoppedAt = IF server.alive THEN clock ELSE server.stoppedAt
      BY <1>4, <1>5, StopMoves DEF StopVerified
<1>7. /\ r.activeSince = server.since /\ server.request = RequestOf(r)
      /\ serverTicks = r.serverSeconds + (server'.stoppedAt - server.since)
      BY <1>1, <1>2, <1>3, <1>6 DEF Linked, UnaccountedIn
<1>8. Measured' = Measured  BY <1>6 DEF Measured
<1>9. Linked(record)' /\ Evident(record)'
  <2>1. Linked(r)'
        BY <1>1, <1>2, <1>4, <1>6, <1>7 DEF Linked, UnaccountedIn, RequestOf, r
  <2>2. Evident(r)'  BY <1>3, <1>4, <1>8 DEF Evident, r
  <2> QED  BY <2>1, <2>2 DEF r
<1>10. PICK t \in 0 .. MaxClock : t = r.serverSeconds + (server'.stoppedAt - r.activeSince)
       BY <1>1, <1>2, <1>3, <1>4, <1>5, Charged
<1>11. ASSUME NEW next, next.serverSeconds = t, next.activePhase = "none",
              next.attempts = r.attempts, next.approval = r.approval, Evident(next)',
              NEW then \in {"ready", "finalizing"}, SaveLater(d, next, then)
       PROVE  SoleInv'
  <2>1. serverTicks = t + 0  BY <1>7, <1>10, Constants
  <2>2. Linked(next)'  BY <1>4, <1>6, <1>11, <2>1 DEF Linked, UnaccountedIn
  <2> QED  BY <1>1, <1>3, <1>4, <1>6, <1>9, <1>11, <2>2, SoleEffected DEF world, r
<1> DEFINE done == [r EXCEPT !.activePhase = "none", !.activeSince = 0, !.serverSeconds = t]
<1>12. Accounted(r, server') = done  BY <1>3, <1>10 DEF Accounted, VLLMWorkflowRecord
<1>13. \A n : AfterStop(n) \in {"ready", "finalizing"}  BY DEF AfterStop
<1>14. ASSUME StopBaselineServer(d)  PROVE SoleInv'
  <2>1. PICK n : /\ SaveLater(d, n, AfterStop(n)) /\ n.stage \in {"SERVER_START", "PROFILE_APPROVAL"}
                 /\ n.serverSeconds = t /\ n.activePhase = "none"
                 /\ n.attempts = r.attempts /\ n.approval = r.approval
    <3>1. CASE BaselineCleanup(r)
      <4>1. PICK n : n = [done EXCEPT !.stage = "SERVER_START", !.baselineRequest = FALSE, !.baselineMustStop = FALSE]
            OBVIOUS
      <4>2. SaveLater(d, n, AfterStop(n))  BY <1>2, <1>12, <1>14, <3>1, <4>1 DEF StopBaselineServer
      <4>3. /\ n.stage = "SERVER_START" /\ n.serverSeconds = t /\ n.activePhase = "none"
            /\ n.attempts = r.attempts /\ n.approval = r.approval
            BY <1>3, <4>1 DEF VLLMWorkflowRecord
      <4> QED  BY <4>2, <4>3
    <3>2. CASE ~BaselineCleanup(r)
      <4>1. PICK n : n = [done EXCEPT !.baselineStopped = TRUE]  OBVIOUS
      <4>2. SaveLater(d, n, AfterStop(n)) /\ r.stage = "PROFILE_APPROVAL"
            BY <1>2, <1>12, <1>14, <3>2, <4>1 DEF StopBaselineServer
      <4>3. /\ n.stage = "PROFILE_APPROVAL" /\ n.serverSeconds = t /\ n.activePhase = "none"
            /\ n.attempts = r.attempts /\ n.approval = r.approval
            BY <1>3, <4>1, <4>2 DEF VLLMWorkflowRecord
      <4> QED  BY <4>2, <4>3
    <3> QED  BY <3>1, <3>2
  <2>2. Evident(n)'  BY <2>1 DEF Evident
  <2> HIDE DEF done
  <2> QED  BY <1>11, <1>13, <2>1, <2>2
<1>15. ASSUME StopFailedCandidateServer(d)  PROVE SoleInv'
  <2>1. PICK n : /\ n = [done EXCEPT !.candidateRequest = NoRequest, !.candidateMustStop = FALSE,
                                    !.candidateStarted = FALSE, !.quality = NoEvidence, !.stage = "EXPERIMENT"]
                 /\ SaveLater(d, n, AfterStop(n))
        BY <1>2, <1>12, <1>15 DEF StopFailedCandidateServer, CandidateReset
  <2>2. /\ n.serverSeconds = t /\ n.activePhase = "none" /\ n.attempts = r.attempts /\ n.approval = r.approval
        /\ n.stage = "EXPERIMENT"
        BY <1>3, <2>1 DEF VLLMWorkflowRecord
  <2>3. Evident(n)'  BY <2>2 DEF Evident
  <2> HIDE DEF done
  <2> QED  BY <1>11, <1>13, <2>1, <2>2, <2>3
<1>16. ASSUME StopCandidateServer(d)  PROVE SoleInv'
  <2>1. PICK n : n = [done EXCEPT !.stage = "DECIDE"] /\ SaveLater(d, n, AfterStop(n))
        BY <1>2, <1>12, <1>16 DEF StopCandidateServer
  <2>2. /\ n.serverSeconds = t /\ n.activePhase = "none" /\ n.attempts = r.attempts /\ n.approval = r.approval
        /\ n.stage = "DECIDE" /\ n.quality = r.quality /\ n.result = r.result
        /\ n.experimentCount = r.experimentCount
        BY <1>3, <2>1 DEF VLLMWorkflowRecord
  <2>3. r.stage = "QUALITY" /\ r.quality # NoEvidence  BY <1>2, <1>16 DEF StopCandidateServer
  <2>4. r.activePhase = "candidate_server" /\ r.result = Measured /\ r.quality = Measured
        BY <1>3, <2>3 DEF Evident
  <2>5. Measured.request = r.experimentCount  BY <1>7, <2>4 DEF Measured, RequestOf
  <2>6. Evident(n)'  BY <2>2, <2>4, <2>5 DEF Evident
  <2> HIDE DEF done
  <2> QED  BY <1>11, <1>13, <2>1, <2>2, <2>6
<1> QED  BY <1>14, <1>15, <1>16

LEMMA SoleConsumeStep ==
  ASSUME Sole, IInv, SoleInv, NEW d \in Drivers, ConsumeProfileApproval(d)
  PROVE  SoleInv'
<1> DEFINE r == record
<1>1. /\ driver[d].pc = "ready" /\ UNCHANGED << record, server, world >>
      /\ consumed' = consumed \cup {Held(d).attempts} /\ NextAction(driver[d].held) = "RUN_APPROVED_PROFILE"
      BY DEF ConsumeProfileApproval, Ready, SaveLater
<1>2. Held(d) = r /\ driver[d].held = r  BY <1>1, SoleHolds DEF Thens, Held
<1>3. r \in VLLMWorkflowRecord /\ Formed(r) /\ Linked(r) /\ Evident(r) /\ consumed \subseteq 1 .. r.attempts
      BY DEF IInv, SoleInv, Good, Formed, ApprovalInv
<1>4. r.approval = "APPROVED" /\ r.stage = "PROFILE_APPROVAL"  BY <1>1, <1>2, <1>3, ActionsOffered
<1>5. r.attempts \in 1 .. r.attempts  BY <1>3, <1>4, RecordFields, Constants DEF Formed, Shape
<1>6. \A n : (Linked(n) => Linked(n)') /\ (Evident(n) => Evident(n)')
      BY <1>1 DEF world, Linked, Evident, UnaccountedIn, RequestOf, Measured, Exhausted, GpuSecondsUsed
<1>7. Linked(record)' /\ Evident(record)'  BY <1>1, <1>3, <1>6
<1>8. PICK n : n = [r EXCEPT !.approval = "CONSUMED"] /\ SaveLater(d, n, "profiling")
      BY <1>2 DEF ConsumeProfileApproval
<1>9. /\ n.activePhase = r.activePhase /\ n.serverSeconds = r.serverSeconds /\ n.activeSince = r.activeSince
      /\ n.experimentCount = r.experimentCount /\ n.status = r.status /\ n.stage = "PROFILE_APPROVAL"
      /\ n.candidateRequest = r.candidateRequest /\ n.profileSeconds = r.profileSeconds
      /\ n.attempts = r.attempts
      BY <1>3, <1>4, <1>8 DEF VLLMWorkflowRecord
<1> HIDE DEF r
<1>10. Linked(n) /\ Evident(n)  BY <1>3, <1>4, <1>9, LinkedKept DEF Evident
<1>11. consumed' \subseteq 1 .. record.attempts  BY <1>1, <1>2, <1>3, <1>5 DEF r
<1> QED  BY <1>1, <1>6, <1>7, <1>8, <1>9, <1>10, <1>11, SoleEffected DEF world, r

LEMMA SoleSaveStep ==
  ASSUME Sole, IInv, SoleInv, NEW d \in Drivers, Save(d)
  PROVE  SoleInv'
<1>1. PICK next, then : /\ next = driver[d].next /\ then = driver[d].then /\ driver[d].pc = "saving"
                        /\ SaveUpdate(d, next, then) /\ UNCHANGED << consumed, server, world >>
      BY DEF Save
<1>2. /\ Busy(d) /\ next \in VLLMWorkflowRecord /\ then \in {"ready", "finalizing", "profiling"}
      BY <1>1, DriverTyped DEF IInv, Busy, Copy
<1>3. /\ Linked(next) /\ Evident(next) /\ next.attempts = record.attempts
      /\ then # "profiling" => next.approval = record.approval
      BY <1>1 DEF SoleInv
<1>4. consumed \subseteq 1 .. next.attempts  BY <1>3 DEF SoleInv, ApprovalInv
<1>5. crashes = 0 /\ next.approval \in {"REQUESTED", "APPROVED"} => next.attempts \notin consumed
  <2>1. CASE then = "profiling"
    <3>1. next.approval = "CONSUMED"  BY <1>1, <2>1 DEF IInv, Drivers_Inv, DriverFollows, Busy, Copy, Profiled
    <3> QED  BY <3>1
  <2>2. CASE then # "profiling"
    <3>1. \A e \in Drivers : ~(driver[e].pc = "saving" /\ driver[e].then = "profiling")
          BY <1>1, <2>2 DEF Sole
    <3> QED  BY <1>3, <2>2, <3>1 DEF SoleInv, ApprovalInv
  <2> QED  BY <2>1, <2>2
<1> QED  BY <1>1, <1>2, <1>3, <1>4, <1>5, SoleSaved DEF IInv, Thens, world

LEMMA SoleLoadOrCrashStep ==
  ASSUME Sole, IInv, SoleInv, NEW d \in Drivers, Load(d) \/ Crash(d)
  PROVE  SoleInv'
<1>1. /\ UNCHANGED << record, consumed, server, clock, serverTicks >>
      /\ driver \in [Drivers -> DriverState] /\ \A e \in Drivers : e = d
      BY DEF Load, Crash, store, world, IInv, TypeOK, Sole
<1>2. Linked(record)' /\ Evident(record)'
      BY <1>1 DEF SoleInv, Linked, Evident, UnaccountedIn, RequestOf, Measured, Exhausted, GpuSecondsUsed
<1>3. ~server'.alive => server'.status \in {"NONE", "STOPPED"}  BY <1>1 DEF SoleInv
<1>4. CASE Load(d)
  <2>1. driver'[d].pc = "ready" /\ ~driver'[d].stale  BY <1>1, <1>4 DEF Load, Holding
  <2>2. driver[d].pc # "saving" /\ crashes' = crashes  BY <1>4 DEF Load, world
  <2>3. ApprovalInv'  BY <1>1, <2>2 DEF SoleInv, ApprovalInv
  <2>4. \A e \in Drivers : driver'[e].pc # "saving" /\ ~driver'[e].stale  BY <1>1, <2>1
  <2> QED  BY <1>2, <1>3, <2>3, <2>4 DEF SoleInv
<1>5. CASE Crash(d)
  <2>1. driver'[d].pc = "idle"  BY <1>1, <1>5 DEF Crash, Idle
  <2>2. crashes' # 0  BY <1>5, Constants DEF Crash, IInv, TypeOK
  <2>3. ApprovalInv'  BY <1>1, <2>2 DEF SoleInv, ApprovalInv
  <2>4. \A e \in Drivers : driver'[e].pc = "idle"  BY <1>1, <2>1
  <2> QED  BY <1>2, <1>3, <2>3, <2>4 DEF SoleInv, Busy
<1> QED  BY <1>4, <1>5

LEMMA SoleEnvironmentStep ==
  ASSUME Sole, IInv, SoleInv, Environment
  PROVE  SoleInv'
<1>1. Tick \/ CoordinatesDrift
  <2>1. ~server.alive => server.status # "RUNNING"  BY DEF SoleInv
  <2> QED  BY <2>1 DEF Environment, ServerDies, StopUnverified, StartExits, Sole
<1>2. UNCHANGED << record, consumed, server, driver, crashes >>  BY <1>1 DEF Tick, CoordinatesDrift, store
<1>3. /\ clock \in Nat /\ serverTicks \in Nat /\ server.since \in Nat /\ server.stoppedAt \in Nat
      BY Constants DEF IInv, TypeOK
<1>4. \/ clock' = clock /\ serverTicks' = serverTicks
      \/ clock' = clock + 1 /\ serverTicks' = IF server.alive THEN serverTicks + 1 ELSE serverTicks
      BY <1>1 DEF Tick, CoordinatesDrift
<1>5. ASSUME NEW r \in VLLMWorkflowRecord, Linked(r)  PROVE Linked(r)'
  <2>1. r.serverSeconds \in Nat  BY RecordFields
  <2>2. serverTicks' = r.serverSeconds + UnaccountedIn(r)'
        BY <1>2, <1>3, <1>4, <1>5, <2>1 DEF Linked, UnaccountedIn
  <2> QED  BY <1>2, <1>5, <2>2 DEF Linked, RequestOf, Exhausted, GpuSecondsUsed
<1>6. ASSUME NEW r, Evident(r)  PROVE Evident(r)'  BY <1>2, <1>6 DEF Evident, Measured
<1>7. record \in VLLMWorkflowRecord /\ Linked(record) /\ Evident(record)  BY DEF IInv, TypeOK, SoleInv
<1>8. Linked(record)' /\ Evident(record)'  BY <1>2, <1>5, <1>6, <1>7
<1>9. ASSUME NEW d \in Drivers, driver[d].pc = "saving"
      PROVE  (Linked(driver[d].next))' /\ (Evident(driver[d].next))'
  <2>1. PICK n \in VLLMWorkflowRecord : n = driver[d].next /\ Linked(n) /\ Evident(n)
        BY <1>9, DriverTyped DEF IInv, SoleInv, Busy, Copy
  <2>2. Linked(n)' /\ Evident(n)' /\ driver'[d].next = n  BY <1>2, <1>5, <1>6, <2>1
  <2> QED  BY <2>2 DEF Linked, Evident, UnaccountedIn, RequestOf, Measured, Exhausted, GpuSecondsUsed
<1>10. ApprovalInv'  BY <1>2 DEF SoleInv, ApprovalInv
<1> QED  BY <1>2, <1>8, <1>9, <1>10 DEF SoleInv, Busy

LEMMA InitSoleInv == Init => SoleInv
<1> SUFFICES ASSUME Init  PROVE SoleInv
  OBVIOUS
<1>1. /\ record.stage = "INSPECT" /\ record.activePhase = "none" /\ record.serverSeconds = 0
      /\ record.approval = "NONE"
      BY DEF Init
<1>2. ~server.alive /\ server.status = "NONE" /\ serverTicks = 0 /\ consumed = {}
      BY DEF Init
<1>3. \A d \in Drivers : driver[d].pc = "idle"  BY DEF Init, Idle
<1> QED  BY <1>1, <1>2, <1>3 DEF SoleInv, Linked, Evident, ApprovalInv, UnaccountedIn, Busy

LEMMA NextSoleInv == Sole /\ IInv /\ SoleInv /\ [Next]_vars => SoleInv'
<1> SUFFICES ASSUME Sole, IInv, SoleInv, [Next]_vars  PROVE SoleInv'
  OBVIOUS
<1>1. CASE Next
  <2>1. CASE \E d \in Drivers : Load(d) \/ Crash(d)  BY <2>1, SoleLoadOrCrashStep
  <2>2. CASE \E d \in Drivers : Save(d) \/ ConsumeProfileApproval(d)  BY <2>2, SoleSaveStep, SoleConsumeStep
  <2>3. CASE \E d \in Drivers : \/ RecordInspection(d) \/ RequestActiveServerCleanup(d)
                                \/ RequestProfileApproval(d) \/ RecordProfileApproval(d)
                                \/ RecordAgentDecision(d) \/ Decide(d) \/ Resume(d)
        BY <2>3, SoleRecordStep
  <2>4. CASE \E d \in Drivers : \/ ProfileReturns(d) \/ RecordProfileResult(d)
                                \/ MarkProfileExecutionInconclusive(d) \/ MarkProfileUnavailable(d)
                                \/ FinalizeGpuBudget(d)
        BY <2>4, SoleEndingStep
  <2>5. CASE \E d \in Drivers : CaptureBaseline(d) \/ RunExperiment(d) \/ RunQuality(d)
        BY <2>5, SoleMeasureStep
  <2>6. CASE \E d \in Drivers : StartServer(d) \/ StartCandidateServer(d)  BY <2>6, SoleStartStep
  <2>7. CASE \E d \in Drivers : StopBaselineServer(d) \/ StopFailedCandidateServer(d) \/ StopCandidateServer(d)
        BY <2>7, SoleStopStep
  <2>8. CASE Environment  BY <2>8, SoleEnvironmentStep
  <2> QED  BY <1>1, <2>1, <2>2, <2>3, <2>4, <2>5, <2>6, <2>7, <2>8 DEF Next, Drive, Environment
<1>2. CASE UNCHANGED vars
  <2>1. Linked(record)' /\ Evident(record)'
        BY <1>2 DEF vars, SoleInv, Linked, Evident, UnaccountedIn, RequestOf, Measured, Exhausted, GpuSecondsUsed
  <2>2. ApprovalInv'  BY <1>2 DEF vars, SoleInv, ApprovalInv
  <2>3. ASSUME NEW d \in Drivers, driver[d].pc = "saving"
        PROVE  (Linked(driver[d].next))' /\ (Evident(driver[d].next))'
        BY <1>2, <2>3 DEF vars, SoleInv, Linked, Evident, UnaccountedIn, RequestOf, Measured, Exhausted,
                          GpuSecondsUsed
  <2> QED  BY <1>2, <2>1, <2>2, <2>3 DEF vars, SoleInv, Busy
<1> QED  BY <1>1, <1>2

LEMMA SoleAlways == ASSUME Sole PROVE Spec => [](IInv /\ SoleInv)
<1>1. Init => IInv /\ SoleInv  BY InitIInv, InitSoleInv
<1>2. IInv /\ SoleInv /\ [Next]_vars => IInv' /\ SoleInv'  BY NextIInv, NextSoleInv
<1> QED  BY <1>1, <1>2, PTL DEF Spec

\* With one driver whose server runs until it is stopped, every tick a server
\* ran is in the record or belongs to the session that still runs or whose stop
\* is not saved yet (_server_stop_accounting), whatever crashes in between.
THEOREM RecordStaysSound == ASSUME Sole PROVE Spec => []RecordIsSound
<1>1. IInv /\ SoleInv => RecordIsSound
      BY DEF IInv, SoleInv, Linked, UnaccountedIn, RecordIsSound, ServerTimeAccounted, Unaccounted
<1> QED  BY <1>1, SoleAlways, PTL

\* With one driver whose server runs until it is stopped, a profile has the GPU
\* for itself and no server outlives the verdict or the budget's closure.
THEOREM GpuStaysExclusive == ASSUME Sole PROVE Spec => []GpuIsExclusive
<1>1. ASSUME IInv, SoleInv  PROVE GpuIsExclusive
  <2>1. /\ record \in VLLMWorkflowRecord /\ Shape(record) /\ Linked(record)
        BY <1>1 DEF IInv, Good, Formed, SoleInv
  <2>2. ASSUME NEW d \in Drivers, driver[d].pc = "profiling"  PROVE ~server.alive
    <3>1. Held(d) = record /\ Profiled(record)  BY <1>1, <2>2, SoleHolds, HeldGood DEF Thens
    <3>2. record.activePhase = "none" /\ record.stage = "PROFILE_APPROVAL"
          BY <2>1, <3>1 DEF Profiled, Shape, BaselineFollows
    <3> QED  BY <2>1, <3>2, ServerOff
  <2>3. record.status # "ACTIVE" => ~server.alive  BY <2>1, ServerOff DEF Shape, PhaseFollowsStage
  <2> QED  BY <2>2, <2>3 DEF GpuIsExclusive, ProfileHasGpuAlone, StoppedBeforeVerdict
<1> QED  BY <1>1, SoleAlways, PTL

\* With one driver whose server runs until it is stopped, a verdict rests on a
\* benchmark and a quality result of one server process, started for the
\* experiment that is decided - though the quality result names no server.
THEOREM EvidenceStaysOfOneServer == ASSUME Sole PROVE Spec => []EvidenceFromOneServer
<1>1. SoleInv => EvidenceFromOneServer  BY DEF SoleInv, Evident, EvidenceFromOneServer
<1> QED  BY <1>1, SoleAlways, PTL

\* With one driver whose server runs until it is stopped, what next_action names
\* can be carried out, whatever was cleaned up, aborted or crashed before: a
\* start always, a stop, the experiment and the decision until a rerun, the
\* profile until a crash.
THEOREM NextActionStaysHonest == ASSUME Sole PROVE Spec => []NextActionIsHonest
<1>1. ASSUME IInv, SoleInv  PROVE NextActionIsHonest
  <2> DEFINE r == record
  <2>1. /\ r \in VLLMWorkflowRecord /\ PhaseFollowsStage(r) /\ BaselineFollows(r) /\ CandidateFollows(r)
        /\ FirstPass(r) /\ Linked(r) /\ Evident(r)
        BY <1>1 DEF IInv, Good, Formed, Shape, SoleInv
  <2> HIDE DEF r
  <2>2. NoRequest \notin Request  BY Constants DEF NoRequest, Request
  <2>3. r.experimentCount # NoRequest
        BY <2>1, <2>2, RecordFields DEF Request
  <2>4. StartFindsGpuFree
    <3>1. ASSUME server.alive, NextAction(r) = "START_SERVER"  PROVE server.request = Baseline
      <4>1. r.stage = "SERVER_START" /\ ~r.baselineMustStop  BY <2>1, <3>1, ActionsOffered
      <4>2. r.activePhase = "none"
            BY <2>1, <4>1, RecordFields DEF BaselineFollows, PhaseFollowsStage
      <4> QED  BY <2>1, <3>1, <4>1, <4>2 DEF Linked
    <3>2. ASSUME server.alive, NextAction(r) = "START_EXPERIMENT_SERVER"  PROVE server.request = r.experimentCount
      <4>1. r.stage = "EXPERIMENT" /\ ~r.candidateMustStop /\ ~r.candidateStarted
            BY <2>1, <3>2, ActionsOffered
      <4>2. r.activePhase = "none"
            BY <2>1, <2>3, <4>1, RecordFields DEF CandidateFollows, PhaseFollowsStage
      <4> QED  BY <2>1, <3>2, <4>1, <4>2 DEF Linked
    <3> QED  BY <3>1, <3>2 DEF StartFindsGpuFree, r
  <2>5. ASSUME r.rerunCount = 0  PROVE StopCanBeVerified
    <3>1. ASSUME r.activePhase = "baseline_server"  PROVE StopVerified(Baseline)
          BY <2>1, <3>1 DEF Linked, RequestOf, StopVerified
    <3>2. ASSUME r.activePhase = "candidate_server"  PROVE StopVerified(r.experimentCount)
          BY <2>1, <3>2 DEF Linked, RequestOf, StopVerified
    <3>3. NextAction(r) = "STOP_BASELINE_SERVER" => r.activePhase = "baseline_server"
          BY <2>1, RecordFields
          DEF NextAction, ProfileAction, CandidateAction, StopActive, VLLMStage, BaselineFollows, PhaseFollowsStage
    <3>4. NextAction(r) \in {"STOP_EXPERIMENT_SERVER", "STOP_FAILED_EXPERIMENT_SERVER"} =>
            r.activePhase = "candidate_server"
      <4>1. r.stage = "QUALITY" => r.activePhase = "candidate_server"  BY <2>1 DEF Evident
      <4>2. r.stage = "EXPERIMENT" /\ r.candidateMustStop => r.activePhase = "candidate_server"
            BY <2>1, <2>5 DEF FirstPass, CandidateFollows
      <4>3. NextAction(r) \in {"STOP_EXPERIMENT_SERVER", "STOP_FAILED_EXPERIMENT_SERVER"} =>
              \/ r.activePhase = "candidate_server" \/ r.stage = "QUALITY"
              \/ r.stage = "EXPERIMENT" /\ r.candidateMustStop
            BY <2>1, RecordFields DEF NextAction, ProfileAction, CandidateAction, StopActive, VLLMStage
      <4> QED  BY <4>1, <4>2, <4>3
    <3> QED  BY <3>1, <3>2, <3>3, <3>4 DEF StopCanBeVerified, r
  <2>6. ASSUME r.rerunCount = 0  PROVE ExperimentHasServer
    <3>1. ASSUME NextAction(r) = "RUN_EXPERIMENT"  PROVE r.candidateRequest = r.experimentCount
      <4>1. r.stage = "EXPERIMENT" /\ r.candidateStarted  BY <2>1, <3>1, ActionsOffered
      <4>2. r.activePhase = "candidate_server"  BY <2>1, <2>6, <4>1 DEF CandidateFollows, FirstPass
      <4> QED  BY <2>1, <4>2 DEF PhaseFollowsStage
    <3> QED  BY <3>1 DEF ExperimentHasServer, r
  <2>7. ASSUME r.rerunCount = 0  PROVE DecisionCanBeSubmitted
    <3>1. ASSUME NextAction(r) = "SUBMIT_AGENT_DECISION"  PROVE r.experimentCount < MaxExperiments
      <4>1. r.stage = "AGENT_DECISION"  BY <2>1, <3>1, ActionsOffered
      <4>2. r.experimentCount = 0  BY <2>1, <2>7, <4>1 DEF FirstPass, Before
      <4> QED  BY <4>2, Constants
    <3> QED  BY <3>1 DEF DecisionCanBeSubmitted, r
  <2>8. ASSUME crashes = 0  PROVE ApprovalCanBeConsumed
    <3>1. ASSUME Quiescent, NextAction(r) = "RUN_APPROVED_PROFILE"  PROVE r.attempts \notin consumed
      <4>1. r.approval = "APPROVED"  BY <2>1, <3>1, ActionsOffered
      <4>2. \A d \in Drivers : driver[d].pc # "saving"  BY <3>1 DEF Quiescent
      <4> QED  BY <1>1, <2>8, <4>1, <4>2 DEF SoleInv, ApprovalInv, r
    <3> QED  BY <3>1 DEF ApprovalCanBeConsumed, r
  <2> QED  BY <2>4, <2>5, <2>6, <2>7, <2>8 DEF NextActionIsHonest, r
<1> QED  BY <1>1, SoleAlways, PTL

=============================================================================
