---------------------------- MODULE VLLMWorkflow ----------------------------
(***************************************************************************)
(* The recoverable vLLM coordinator of vllm_workflow.py: a durable record, *)
(* one managed GPU server, one-time profile approvals and a paid GPU       *)
(* budget, driven by external drivers that load the record, perform the    *)
(* one action next_action names and save the record that results.          *)
(*                                                                         *)
(* A method whose effects reach beyond the record (a server started or     *)
(* stopped, an approval spent, a long measurement) is two steps: the       *)
(* effect, and the save guarded by the record's revision.  Between them    *)
(* other drivers act, the clock runs, the server dies, the driver crashes. *)
(* Other methods are one step.  A call that raises before any effect is no *)
(* step.                                                                   *)
(***************************************************************************)
EXTENDS Integers, FiniteSets

CONSTANTS
  Drivers,              \* processes that call the coordinator
  Budget,               \* max_gpu_minutes, in ticks of the model's clock
  MaxExperiments,       \* max_experiments
  ServerMayDie,         \* whether the server may exit by itself
  CoordinatesMayDrift,  \* whether the pinned model files may change on disk
  MaxClock, MaxSessions, MaxAttempts, MaxReruns, MaxCrashes  \* bounds of the model

ASSUME ConstantsAssumption ==
  /\ {Budget, MaxExperiments} \subseteq Nat \ {0}
  /\ {ServerMayDie, CoordinatesMayDrift} \subseteq BOOLEAN
  /\ {MaxClock, MaxSessions, MaxAttempts, MaxReruns, MaxCrashes} \subseteq Nat

VLLMStage == { "INSPECT", "SERVER_START", "BASELINE", "PROFILE_APPROVAL",
               "AGENT_DECISION", "EXPERIMENT", "QUALITY", "DECIDE" }

\* A server request: the baseline's, or that of the experiment of this number.
Baseline == 0
NoRequest == -1
Request == 0 .. MaxExperiments

\* A measurement: the server process that answered it and the request it ran.
Evidence == [request : Request, session : 1 .. MaxSessions]
NoEvidence == [request |-> NoRequest, session |-> 0]

NoStage == "none"  \* rerun_from_stage is None
RerunStages == { "CAPTURE_BASELINE", "PATCH_AND_BUILD", "E2E_VALIDATION",
                 "QUALITY_VALIDATION" }  \* what the gates select at DECIDE

VARIABLES
  record,      \* state/vllm-workflow.json
  consumed,    \* attempts whose consumed.json exists
  server,      \* the adapter's execution record and the process it names
  driver,      \* driver -> what it is doing
  clock,
  coordinatesValid, profileAvailable,
  crashes,
  serverTicks, transports  \* history: time servers ran, MCP calls per approval

store == << record, consumed >>
world == << clock, coordinatesValid, profileAvailable, crashes, serverTicks >>
vars == << record, consumed, server, driver, clock, coordinatesValid,
           profileAvailable, crashes, serverTicks, transports >>

\* The part of VLLMWorkflowRecord that the methods read and write.
VLLMWorkflowRecord ==
  [ stage : VLLMStage,
    status : {"ACTIVE", "ACCEPTED", "REJECTED", "INCONCLUSIVE"},
    rerun : RerunStages \cup {NoStage, "DISCOVER_HOTSPOTS"},
    baselineRequest : BOOLEAN,      \* baseline_server_request_hash is set
    baselineMustStop : BOOLEAN,     \* baseline_server_requires_stop
    baselineStopped : BOOLEAN,      \* baseline_server_stop is set
    approval : {"NONE", "REQUESTED", "APPROVED", "CONSUMED"},
    attempts : 0 .. MaxAttempts,    \* profile_attempt_count, the request's id
    candidateRequest : Request \cup {NoRequest},
    candidateMustStop : BOOLEAN,
    candidateStarted : BOOLEAN,     \* candidate_server_start is set
    result : Evidence \cup {NoEvidence},   \* of the last EXPERIMENT completion
    quality : Evidence \cup {NoEvidence},  \* pending_quality_result
    activePhase : {"none", "baseline_server", "candidate_server"},
    activeSince : 0 .. MaxClock,
    serverSeconds : 0 .. MaxClock,
    profileSeconds : 0 .. MaxClock, \* with serverSeconds: gpu_seconds_used
    experimentCount : 0 .. MaxExperiments,
    rerunCount : 0 .. MaxReruns ]

-----------------------------------------------------------------------------
(***************************************************************************)
(* The GPU budget and the next action.                                     *)
(***************************************************************************)

GpuSecondsUsed(r) == r.serverSeconds + r.profileSeconds

Projected(r) ==
  GpuSecondsUsed(r) + (IF r.activePhase = "none" THEN 0 ELSE clock - r.activeSince)

BudgetExhausted(r) == Projected(r) >= Budget

StopActive(r) == IF r.activePhase = "baseline_server"
                 THEN "STOP_BASELINE_SERVER" ELSE "STOP_FAILED_EXPERIMENT_SERVER"

ProfileAction(r) ==
  IF ~r.baselineStopped THEN "STOP_BASELINE_SERVER"
  ELSE IF ~profileAvailable THEN "RESOLVE_PROFILE_ENVIRONMENT"
  ELSE [ NONE |-> "REQUEST_PROFILE_APPROVAL", REQUESTED |-> "APPROVE_PROFILE",
         APPROVED |-> "RUN_APPROVED_PROFILE",
         CONSUMED |-> "RECORD_PROFILE_RESULT" ][r.approval]

CandidateAction(r) ==
  IF r.candidateMustStop THEN "STOP_FAILED_EXPERIMENT_SERVER"
  ELSE IF r.stage = "EXPERIMENT"
       THEN IF r.candidateStarted THEN "RUN_EXPERIMENT" ELSE "START_EXPERIMENT_SERVER"
       ELSE IF r.quality = NoEvidence THEN "RUN_QUALITY" ELSE "STOP_EXPERIMENT_SERVER"

\* The kind of next_action(r); "RAISES" where it has none to offer.  The stop of
\* a failed candidate has the kind of any candidate stop in the code, and its
\* coordinator_method tells it apart.
NextAction(r) ==
  IF r.status # "ACTIVE"
    THEN IF r.status = "INCONCLUSIVE" THEN "RESUME_INCONCLUSIVE" ELSE "COMPLETE"
  ELSE IF ~coordinatesValid
    THEN IF r.activePhase = "none" THEN "RAISES" ELSE StopActive(r)
  ELSE IF BudgetExhausted(r)
    THEN IF r.activePhase = "none" THEN "FINALIZE_GPU_BUDGET" ELSE StopActive(r)
  ELSE IF r.stage \in {"SERVER_START", "BASELINE"} /\ r.baselineMustStop
    THEN "STOP_BASELINE_SERVER"
  ELSE IF r.stage = "PROFILE_APPROVAL" THEN ProfileAction(r)
  ELSE IF r.stage \in {"EXPERIMENT", "QUALITY"} THEN CandidateAction(r)
  ELSE [ INSPECT |-> "PROVIDE_INSPECTION", SERVER_START |-> "START_SERVER",
         BASELINE |-> "RUN_BASELINE", AGENT_DECISION |-> "SUBMIT_AGENT_DECISION",
         DECIDE |-> "EVALUATE_GATE" ][r.stage]

-----------------------------------------------------------------------------
(***************************************************************************)
(* Drivers: what one holds, and how an update is saved.                    *)
(***************************************************************************)

Idle == [pc |-> "idle"]
Holding(pc, r) == [pc |-> pc, held |-> r, stale |-> FALSE]

\* After a save the driver holds the saved record; a consumed approval is
\* transported at once.
Continue(then, r) == IF then = "profiling"
                     THEN [pc |-> then, held |-> r, stale |-> FALSE, since |-> clock]
                     ELSE Holding(then, r)

Outdated(s) == IF s.pc = "idle" THEN s ELSE [s EXCEPT !.stale = TRUE]

\* Mutant: the revision is not compared.
SaveUpdate_LastWriterWins(d, next, then) ==
  /\ record' = next
  /\ driver' = [e \in Drivers |-> IF e = d THEN Continue(then, next)
                                  ELSE Outdated(driver[e])]

\* Every save increments the revision, so the stored revision is the one a
\* driver holds exactly when nobody has saved since: it is not stale.
SaveUpdate(d, next, then) ==
  IF driver[d].stale
  THEN driver' = [driver EXCEPT ![d] = Idle] /\ UNCHANGED record
  ELSE /\ record' = next
       /\ driver' = [e \in Drivers |-> IF e = d THEN Continue(then, next)
                                       ELSE Outdated(driver[e])]

\* The effect is done and the record to save computed from the one held.
SaveLater(d, next, then) ==
  /\ driver' = [driver EXCEPT ![d] = [ pc |-> "saving", next |-> next, then |-> then,
                                       stale |-> driver[d].stale ]]
  /\ UNCHANGED record

Ready(d, kinds) == driver[d].pc = "ready" /\ NextAction(driver[d].held) \in kinds
Held(d) == driver[d].held

Load(d) ==
  /\ driver[d].pc \in {"idle", "ready"}
  /\ coordinatesValid
  /\ driver' = [driver EXCEPT ![d] = Holding("ready", record)]
  /\ UNCHANGED << store, server, world, transports >>

Save(d) ==
  /\ driver[d].pc = "saving"
  /\ SaveUpdate(d, driver[d].next, driver[d].then)
  /\ transports' = IF ~driver[d].stale /\ driver[d].then = "profiling"
                   THEN [transports EXCEPT ![driver[d].next.attempts] = @ + 1]
                   ELSE transports
  /\ UNCHANGED << consumed, server, world >>

-----------------------------------------------------------------------------
(***************************************************************************)
(* The managed server: VLLMNativeServerAdapter as the coordinator uses it. *)
(***************************************************************************)

Serving(request) == server.alive /\ server.request = request

\* start_or_resume resumes the exact live request, refuses another one, and
\* otherwise spawns.
CanStart(request) ==
  IF server.alive THEN server.request = request ELSE server.session < MaxSessions

Started(request) ==
  IF server.alive THEN server
  ELSE [ alive |-> TRUE, request |-> request, status |-> "RUNNING",
         session |-> server.session + 1, since |-> clock, stoppedAt |-> 0 ]

\* stop verifies the exact process, or finds it durably recorded as stopped.
StopVerified(request) ==
  server.request = request /\ (server.alive \/ server.status = "STOPPED")

Stopped ==
  IF server.alive
  THEN [server EXCEPT !.alive = FALSE, !.status = "STOPPED", !.stoppedAt = clock]
  ELSE server

\* The session is charged from the start the adapter recorded.
WithActiveServer(r, phase, started) ==
  [r EXCEPT !.activePhase = phase, !.activeSince = started.since]

\* Mutant: the start of the session is not subtracted.
Accounted_FromZero(r, stopped) ==
  [r EXCEPT !.activePhase = "none", !.activeSince = 0,
            !.serverSeconds = @ + stopped.stoppedAt]

\* _server_stop_accounting and the reset of the active session.
Accounted(r, stopped) ==
  [r EXCEPT !.activePhase = "none", !.activeSince = 0,
            !.serverSeconds = @ + (stopped.stoppedAt - r.activeSince)]

\* A stop that exhausts the budget goes on to close the task.
AfterStop(r) == IF GpuSecondsUsed(r) >= Budget THEN "finalizing" ELSE "ready"

-----------------------------------------------------------------------------
(***************************************************************************)
(* Inspection and the baseline.                                            *)
(***************************************************************************)

RecordInspection(d) ==
  /\ Ready(d, {"PROVIDE_INSPECTION"})
  /\ SaveUpdate(d, [Held(d) EXCEPT !.stage = "SERVER_START"], "ready")
  /\ UNCHANGED << consumed, server, world, transports >>

\* A start that fails its gate but may have left a live process is recorded too.
StartServer(d) ==
  /\ Ready(d, {"START_SERVER"})
  /\ CanStart(Baseline)
  /\ Held(d).activePhase = "none"
  /\ server' = Started(Baseline)
  /\ LET active == [ WithActiveServer(Held(d), "baseline_server", server')
                       EXCEPT !.baselineRequest = TRUE ]
     IN  \/ SaveLater(d, [active EXCEPT !.stage = "BASELINE"], "ready")
         \/ SaveLater(d, [active EXCEPT !.baselineMustStop = TRUE], "ready")
  /\ UNCHANGED << consumed, world, transports >>

\* request_active_server_cleanup on the record r.
CleanupRequested(r) ==
  IF r.stage = "BASELINE" THEN [r EXCEPT !.baselineMustStop = TRUE]
                          ELSE [r EXCEPT !.candidateMustStop = TRUE]

RunActive(r) ==
  \/ r.stage = "BASELINE" /\ r.baselineRequest
  \/ r.stage \in {"EXPERIMENT", "QUALITY"} /\ r.candidateRequest # NoRequest

CaptureBaseline(d) ==
  /\ Ready(d, {"RUN_BASELINE"})
  /\ \/ /\ Serving(Baseline)
        /\ SaveLater(d, [Held(d) EXCEPT !.stage = "PROFILE_APPROVAL"], "ready")
     \/ RunActive(Held(d)) /\ SaveLater(d, CleanupRequested(Held(d)), "ready")
  /\ UNCHANGED << consumed, server, world, transports >>

\* The user aborts the measurement on the active server.
RequestActiveServerCleanup(d) ==
  /\ driver[d].pc = "ready"
  /\ RunActive(Held(d))
  /\ SaveUpdate(d, CleanupRequested(Held(d)), "ready")
  /\ UNCHANGED << consumed, server, world, transports >>

\* Mutant: only a failure of the run or start is cleaned up.
BaselineCleanup_FailuresOnly(r) ==
  r.stage \in {"SERVER_START", "BASELINE"} /\ r.baselineMustStop

\* The stop is a cleanup, back to SERVER_START, unless the baseline is done.
BaselineCleanup(r) ==
  \/ r.stage = "SERVER_START" /\ r.baselineMustStop
  \/ /\ r.stage = "BASELINE"
     /\ \/ r.baselineMustStop
        \/ r.activePhase = "baseline_server"
             /\ (BudgetExhausted(r) \/ ~coordinatesValid)

\* Mutant: the baseline is noted as stopped and its server left running.
StopBaselineServer_SkipsAdapter(d) ==
  /\ Ready(d, {"STOP_BASELINE_SERVER"})
  /\ Held(d).stage = "PROFILE_APPROVAL"
  /\ SaveLater(d, [Held(d) EXCEPT !.baselineStopped = TRUE, !.activePhase = "none"], "ready")
  /\ UNCHANGED << consumed, server, world, transports >>

StopBaselineServer(d) ==
  /\ Ready(d, {"STOP_BASELINE_SERVER"})
  /\ BaselineCleanup(Held(d)) \/ Held(d).stage = "PROFILE_APPROVAL"
  /\ ~Held(d).baselineStopped /\ Held(d).baselineRequest
  /\ Held(d).activePhase # "none"
  /\ StopVerified(Baseline)
  /\ server' = Stopped
  /\ LET done == Accounted(Held(d), server')
         next == IF BaselineCleanup(Held(d))
                 THEN [done EXCEPT !.stage = "SERVER_START", !.baselineRequest = FALSE,
                                   !.baselineMustStop = FALSE]
                 ELSE [done EXCEPT !.baselineStopped = TRUE]
     IN  SaveLater(d, next, AfterStop(next))
  /\ UNCHANGED << consumed, world, transports >>

\* The process is gone and no stop of it is recorded: the adapter marks its
\* record ORPHANED and the coordinator raises, its own record unchanged.
StopUnverified(d) ==
  /\ \/ Ready(d, {"STOP_BASELINE_SERVER"}) /\ server.request = Baseline
     \/ /\ Ready(d, {"STOP_EXPERIMENT_SERVER", "STOP_FAILED_EXPERIMENT_SERVER"})
        /\ server.request = Held(d).experimentCount
  /\ ~server.alive /\ server.status = "RUNNING"
  /\ server' = [server EXCEPT !.status = "ORPHANED"]
  /\ UNCHANGED << store, driver, world, transports >>

-----------------------------------------------------------------------------
(***************************************************************************)
(* The profile and its one-time approval.                                  *)
(***************************************************************************)

Inconclusive(r, rerun) == [r EXCEPT !.status = "INCONCLUSIVE", !.rerun = rerun]

\* A request whose contract and environment are unchanged is returned as it is,
\* no step; otherwise a new attempt supersedes it.
RequestProfileApproval(d) ==
  /\ Ready(d, {"REQUEST_PROFILE_APPROVAL", "APPROVE_PROFILE", "RUN_APPROVED_PROFILE"})
  /\ Held(d).baselineStopped
  /\ Held(d).attempts < MaxAttempts
  /\ SaveUpdate(d, [Held(d) EXCEPT !.approval = "REQUESTED", !.attempts = @ + 1], "ready")
  /\ UNCHANGED << consumed, server, world, transports >>

RecordProfileApproval(d) ==
  /\ Ready(d, {"APPROVE_PROFILE"})
  /\ SaveUpdate(d, [Held(d) EXCEPT !.approval = "APPROVED"], "ready")
  /\ UNCHANGED << consumed, server, world, transports >>

\* Mutant: a replay of the approval goes to the transport unsaved.
ConsumeProfileApproval_NotDurable(d) ==
  /\ Ready(d, {"RUN_APPROVED_PROFILE"})
  /\ consumed' = consumed \cup {Held(d).attempts}
  /\ SaveLater(d, Held(d), "profiling")
  /\ UNCHANGED << server, world, transports >>

\* The immutable consumed.json carries its own time: it is written once.
ConsumeProfileApproval(d) ==
  /\ Ready(d, {"RUN_APPROVED_PROFILE"})
  /\ Held(d).attempts \notin consumed
  /\ consumed' = consumed \cup {Held(d).attempts}
  /\ SaveLater(d, [Held(d) EXCEPT !.approval = "CONSUMED"], "profiling")
  /\ UNCHANGED << server, world, transports >>

\* The MCP call returns or raises; its time is saved first, the result next.
ProfileReturns(d) ==
  /\ driver[d].pc = "profiling"
  /\ \E then \in {"result", "failure"} :
       SaveUpdate(d, [Held(d) EXCEPT !.profileSeconds = @ + (clock - driver[d].since)], then)
  /\ UNCHANGED << consumed, server, world, transports >>

\* record_profile_result: inconsistent evidence raises and the record stays.
RecordProfileResult(d) ==
  /\ driver[d].pc = "result"
  /\ \/ coordinatesValid /\ SaveUpdate(d, [Held(d) EXCEPT !.stage = "AGENT_DECISION"], "ready")
     \/ driver' = [driver EXCEPT ![d].pc = "ready"] /\ UNCHANGED record
  /\ UNCHANGED << consumed, server, world, transports >>

MarkProfileExecutionInconclusive(d) ==
  /\ Ready(d, {"RECORD_PROFILE_RESULT"}) \/ driver[d].pc = "failure"
  /\ SaveUpdate(d, Inconclusive(Held(d), "DISCOVER_HOTSPOTS"), "ready")
  /\ UNCHANGED << consumed, server, world, transports >>

MarkProfileUnavailable(d) ==
  /\ Ready(d, {"RESOLVE_PROFILE_ENVIRONMENT"})
  /\ SaveUpdate(d, Inconclusive(Held(d), "DISCOVER_HOTSPOTS"), "ready")
  /\ UNCHANGED << consumed, server, world, transports >>

-----------------------------------------------------------------------------
(***************************************************************************)
(* The experiment, its quality and its verdict.                            *)
(***************************************************************************)

RecordAgentDecision(d) ==
  /\ Ready(d, {"SUBMIT_AGENT_DECISION"})
  /\ Held(d).experimentCount < MaxExperiments
  /\ SaveUpdate(d, [Held(d) EXCEPT !.stage = "EXPERIMENT", !.experimentCount = @ + 1], "ready")
  /\ UNCHANGED << consumed, server, world, transports >>

StartCandidateServer(d) ==
  /\ Ready(d, {"START_EXPERIMENT_SERVER"})
  /\ CanStart(Held(d).experimentCount)
  /\ Held(d).activePhase = "none"
  /\ server' = Started(Held(d).experimentCount)
  /\ LET active == [ WithActiveServer(Held(d), "candidate_server", server')
                       EXCEPT !.candidateRequest = Held(d).experimentCount ]
     IN  \/ SaveLater(d, [active EXCEPT !.candidateStarted = TRUE], "ready")
         \/ SaveLater(d, [active EXCEPT !.candidateMustStop = TRUE], "ready")
  /\ UNCHANGED << consumed, world, transports >>

Measured == [request |-> server.request, session |-> server.session]

\* The result must carry the hash of the server request the record names.
RunExperiment(d) ==
  /\ Ready(d, {"RUN_EXPERIMENT"})
  /\ \/ /\ Serving(Held(d).candidateRequest)
        /\ SaveLater(d, [Held(d) EXCEPT !.stage = "QUALITY", !.result = Measured], "ready")
     \/ RunActive(Held(d)) /\ SaveLater(d, CleanupRequested(Held(d)), "ready")
  /\ UNCHANGED << consumed, server, world, transports >>

\* The quality result names the protocol and the model, not the server.
RunQuality(d) ==
  /\ Ready(d, {"RUN_QUALITY"})
  /\ \/ /\ server.alive
        /\ SaveLater(d, [Held(d) EXCEPT !.quality = Measured], "ready")
     \/ RunActive(Held(d)) /\ SaveLater(d, CleanupRequested(Held(d)), "ready")
  /\ UNCHANGED << consumed, server, world, transports >>

\* Mutant: the quality measured on the discarded server is kept.
CandidateReset_KeepsQuality(r) ==
  [r EXCEPT !.candidateRequest = NoRequest, !.candidateMustStop = FALSE,
            !.candidateStarted = FALSE]

\* Mutant: the start that was cleaned up is still noted.
CandidateReset_KeepsStart(r) ==
  [r EXCEPT !.candidateRequest = NoRequest, !.candidateMustStop = FALSE,
            !.quality = NoEvidence]

CandidateReset(r) ==
  [r EXCEPT !.candidateRequest = NoRequest, !.candidateMustStop = FALSE,
            !.candidateStarted = FALSE, !.quality = NoEvidence]

StopFailedCandidateServer(d) ==
  /\ Ready(d, {"STOP_FAILED_EXPERIMENT_SERVER"})
  /\ Held(d).stage \in {"EXPERIMENT", "QUALITY"}
  /\ \/ Held(d).candidateMustStop
     \/ Held(d).activePhase = "candidate_server"
          /\ (BudgetExhausted(Held(d)) \/ ~coordinatesValid)
  /\ Held(d).candidateRequest = Held(d).experimentCount
  /\ Held(d).activePhase # "none"
  /\ StopVerified(Held(d).experimentCount)
  /\ server' = Stopped
  /\ LET next == [ CandidateReset(Accounted(Held(d), server'))
                     EXCEPT !.stage = "EXPERIMENT" ]
     IN  SaveLater(d, next, AfterStop(next))
  /\ UNCHANGED << consumed, world, transports >>

StopCandidateServer(d) ==
  /\ Ready(d, {"STOP_EXPERIMENT_SERVER"})
  /\ Held(d).stage = "QUALITY" /\ Held(d).quality # NoEvidence
  /\ Held(d).candidateRequest = Held(d).experimentCount
  /\ Held(d).activePhase # "none"
  /\ StopVerified(Held(d).experimentCount)
  /\ server' = Stopped
  /\ LET next == [Accounted(Held(d), server') EXCEPT !.stage = "DECIDE"]
     IN  SaveLater(d, next, AfterStop(next))
  /\ UNCHANGED << consumed, world, transports >>

Decide(d) ==
  /\ Ready(d, {"EVALUATE_GATE"})
  /\ \/ \E status \in {"ACCEPTED", "REJECTED"} :
          SaveUpdate(d, [Held(d) EXCEPT !.status = status], "ready")
     \/ \E rerun \in RerunStages : SaveUpdate(d, Inconclusive(Held(d), rerun), "ready")
  /\ UNCHANGED << consumed, server, world, transports >>

\* What a resume resets depends on the stage it goes back to.
Resumed(r) ==
  LET active == [r EXCEPT !.status = "ACTIVE", !.rerun = NoStage, !.rerunCount = @ + 1]
  IN  IF r.rerun = "CAPTURE_BASELINE"
      THEN [active EXCEPT !.stage = "SERVER_START", !.baselineRequest = FALSE,
                          !.baselineMustStop = FALSE, !.baselineStopped = FALSE,
                          !.approval = "NONE"]
      ELSE IF r.rerun = "DISCOVER_HOTSPOTS"
      THEN [active EXCEPT !.stage = "PROFILE_APPROVAL", !.approval = "NONE"]
      ELSE [CandidateReset(active) EXCEPT !.stage = "EXPERIMENT"]

Resume(d) ==
  /\ Ready(d, {"RESUME_INCONCLUSIVE"})
  /\ coordinatesValid
  /\ Held(d).rerun # NoStage
  /\ Held(d).rerun = "DISCOVER_HOTSPOTS" => profileAvailable
  /\ Held(d).rerunCount < MaxReruns
  /\ SaveUpdate(d, Resumed(Held(d)), "ready")
  /\ UNCHANGED << consumed, server, world, transports >>

FinalizeGpuBudget(d) ==
  /\ Ready(d, {"FINALIZE_GPU_BUDGET"}) \/ driver[d].pc = "finalizing"
  /\ Held(d).status = "ACTIVE" /\ Held(d).activePhase = "none"
  /\ GpuSecondsUsed(Held(d)) >= Budget
  /\ SaveUpdate(d, Inconclusive(Held(d), NoStage), "ready")
  /\ UNCHANGED << consumed, server, world, transports >>

-----------------------------------------------------------------------------
(***************************************************************************)
(* The environment: time, crashes of a driver, the server and the files.   *)
(***************************************************************************)

Tick ==
  /\ clock < MaxClock
  /\ clock' = clock + 1
  /\ serverTicks' = IF server.alive THEN serverTicks + 1 ELSE serverTicks
  /\ UNCHANGED << store, server, driver, coordinatesValid, profileAvailable,
                  crashes, transports >>

Crash(d) ==
  /\ driver[d].pc # "idle"
  /\ crashes < MaxCrashes
  /\ crashes' = crashes + 1
  /\ driver' = [driver EXCEPT ![d] = Idle]
  /\ UNCHANGED << store, server, clock, coordinatesValid, profileAvailable,
                  serverTicks, transports >>

ServerDies ==
  /\ ServerMayDie /\ server.alive
  /\ server' = [server EXCEPT !.alive = FALSE]
  /\ UNCHANGED << store, driver, world, transports >>

\* The process exits before it is ready: nothing is left to stop and nothing
\* is recorded.
StartExits(d) ==
  /\ ServerMayDie
  /\ Ready(d, {"START_SERVER", "START_EXPERIMENT_SERVER"})
  /\ ~server.alive /\ server.session < MaxSessions
  /\ LET request == IF Held(d).stage = "SERVER_START" THEN Baseline
                    ELSE Held(d).experimentCount
     IN  server' = [Started(request) EXCEPT !.alive = FALSE, !.status = "FAILED"]
  /\ UNCHANGED << store, driver, world, transports >>

CoordinatesDrift ==
  /\ CoordinatesMayDrift /\ coordinatesValid
  /\ coordinatesValid' = FALSE
  /\ UNCHANGED << store, server, driver, clock, profileAvailable, crashes,
                  serverTicks, transports >>

-----------------------------------------------------------------------------
Init ==
  /\ record = [ stage |-> "INSPECT", status |-> "ACTIVE", rerun |-> NoStage,
                baselineRequest |-> FALSE, baselineMustStop |-> FALSE,
                baselineStopped |-> FALSE, approval |-> "NONE", attempts |-> 0,
                candidateRequest |-> NoRequest, candidateMustStop |-> FALSE,
                candidateStarted |-> FALSE, result |-> NoEvidence,
                quality |-> NoEvidence, activePhase |-> "none", activeSince |-> 0,
                serverSeconds |-> 0, profileSeconds |-> 0,
                experimentCount |-> 0, rerunCount |-> 0 ]
  /\ consumed = {}
  /\ server = [ alive |-> FALSE, request |-> NoRequest, status |-> "NONE",
                session |-> 0, since |-> 0, stoppedAt |-> 0 ]
  /\ driver = [d \in Drivers |-> Idle]
  /\ clock = 0
  /\ coordinatesValid = TRUE /\ profileAvailable \in BOOLEAN
  /\ crashes = 0
  /\ serverTicks = 0 /\ transports = [a \in 1 .. MaxAttempts |-> 0]

\* What a driver does for the task, whatever the outcome.
Drive(d) ==
  \/ Save(d) \/ RecordInspection(d) \/ StartServer(d) \/ CaptureBaseline(d)
  \/ StopBaselineServer(d) \/ RequestProfileApproval(d) \/ RecordProfileApproval(d)
  \/ ConsumeProfileApproval(d) \/ ProfileReturns(d) \/ RecordProfileResult(d)
  \/ MarkProfileExecutionInconclusive(d) \/ MarkProfileUnavailable(d)
  \/ RecordAgentDecision(d) \/ StartCandidateServer(d) \/ RunExperiment(d)
  \/ RunQuality(d) \/ StopFailedCandidateServer(d) \/ StopCandidateServer(d)
  \/ Decide(d) \/ FinalizeGpuBudget(d)

Next ==
  \/ \E d \in Drivers : Load(d) \/ Drive(d) \/ StopUnverified(d) \/ Resume(d)
                          \/ RequestActiveServerCleanup(d) \/ StartExits(d)
                          \/ Crash(d)
  \/ Tick \/ ServerDies \/ CoordinatesDrift

Spec == Init /\ [][Next]_vars

\* A driver keeps working on the task and starts again after a crash.
Fairness == \A d \in Drivers : WF_vars(Load(d)) /\ WF_vars(Drive(d))

FairSpec == Spec /\ Fairness

-----------------------------------------------------------------------------
(***************************************************************************)
(* Properties.                                                             *)
(***************************************************************************)

DriverState ==
  {Idle}
  \cup [pc : {"ready", "finalizing", "result", "failure"},
        held : VLLMWorkflowRecord, stale : BOOLEAN]
  \cup [pc : {"profiling"}, held : VLLMWorkflowRecord, stale : BOOLEAN,
        since : 0 .. MaxClock]
  \cup [pc : {"saving"}, next : VLLMWorkflowRecord,
        then : {"ready", "finalizing", "profiling"}, stale : BOOLEAN]

\* Type invariant: the record and what drivers hold of it keep to the model of
\* vllm_models.py, and no counter leaves its bound.
TypeOK ==
  /\ record \in VLLMWorkflowRecord
  /\ consumed \subseteq 1 .. MaxAttempts
  /\ server \in [ alive : BOOLEAN, request : Request \cup {NoRequest},
                  status : {"NONE", "RUNNING", "STOPPED", "ORPHANED", "FAILED"},
                  session : 0 .. MaxSessions, since : 0 .. MaxClock,
                  stoppedAt : 0 .. MaxClock ]
  /\ driver \in [Drivers -> DriverState]
  /\ {clock, serverTicks} \subseteq 0 .. MaxClock
  /\ {coordinatesValid, profileAvailable} \subseteq BOOLEAN
  /\ crashes \in 0 .. MaxCrashes
  /\ transports \in [1 .. MaxAttempts -> Nat]

\* Paid time is accounted exactly once: every tick a server ran is in the
\* record, or belongs to the one session that still runs or whose stop is not
\* saved yet, whatever crash separates the adapter's effect from the save.
Unaccounted ==
  IF server.alive THEN clock - server.since
  ELSE IF record.activePhase # "none" THEN server.stoppedAt - server.since ELSE 0

ServerTimeAccounted == serverTicks = record.serverSeconds + Unaccounted

\* No server is left running once the task has a verdict or has run out of
\* budget ("accepts only after exact stops").
StoppedBeforeVerdict == record.status # "ACTIVE" => ~server.alive

\* The profile has the GPU for itself: "Stop the exact baseline PID before
\* starting an offline profile engine."
ProfileHasGpuAlone ==
  \A d \in Drivers : driver[d].pc = "profiling" => ~server.alive

\* The verdict rests on a benchmark and a quality result measured on one and
\* the same server process, started for the experiment that is decided.
EvidenceFromOneServer ==
  record.stage = "DECIDE" =>
    record.quality = record.result /\ record.result.request = record.experimentCount

\* An approval reaches the MCP transport at most once: "Consume first, then
\* invoke the MCP-backed profile port exactly once."
OneTransportPerApproval == \A a \in 1 .. MaxAttempts : transports[a] <= 1

\* A task closed for its budget stays closed: no driver, however late the
\* record it holds, spends or decides anything more on it.
BudgetClosureIsFinal ==
  [][ record.status = "INCONCLUSIVE" /\ GpuSecondsUsed(record) >= Budget
        /\ record.rerun = NoStage => record' = record ]_record

\* A task whose paid GPU time is used up is closed.
BudgetClosesTask == GpuSecondsUsed(record) >= Budget ~> record.status # "ACTIVE"

\* A server that runs past the budget is stopped, its evidence complete or not.
BudgetStopsServer == server.alive /\ BudgetExhausted(record) ~> ~server.alive

-----------------------------------------------------------------------------
(***************************************************************************)
(* What next_action promises: "Return one and only one honest action for   *)
(* the current durable state."  Each of the following says that the action *)
(* it names can be carried out when no driver is in the middle of a call.  *)
(***************************************************************************)

Quiescent == \A d \in Drivers : driver[d].pc \in {"idle", "ready"}

\* A server that next_action wants stopped can be stopped.
StopCanBeVerified ==
  Quiescent => CASE NextAction(record) = "STOP_BASELINE_SERVER" -> StopVerified(Baseline)
                 [] NextAction(record) \in {"STOP_EXPERIMENT_SERVER",
                                            "STOP_FAILED_EXPERIMENT_SERVER"} ->
                      StopVerified(record.experimentCount)
                 [] OTHER -> TRUE

\* The server to start finds the GPU free, or itself already running there.
StartFindsGpuFree ==
  Quiescent /\ server.alive =>
    /\ NextAction(record) = "START_SERVER" => server.request = Baseline
    /\ NextAction(record) = "START_EXPERIMENT_SERVER" =>
         server.request = record.experimentCount

\* The experiment to run has had its own server started.
ExperimentHasServer ==
  NextAction(record) = "RUN_EXPERIMENT" =>
    record.candidateRequest = record.experimentCount

\* An approved profile can still be run.
ApprovalCanBeConsumed ==
  Quiescent /\ NextAction(record) = "RUN_APPROVED_PROFILE" =>
    record.attempts \notin consumed

\* A decision of the agent can still be submitted.
DecisionCanBeSubmitted ==
  NextAction(record) = "SUBMIT_AGENT_DECISION" =>
    record.experimentCount < MaxExperiments

\* What next_action names can be carried out, whatever was cleaned up, aborted
\* or crashed before: a start always, a stop, the experiment and the decision
\* until a rerun, the profile until a crash.
NextActionIsHonest ==
  /\ StartFindsGpuFree
  /\ record.rerunCount = 0 =>
       StopCanBeVerified /\ ExperimentHasServer /\ DecisionCanBeSubmitted
  /\ crashes = 0 => ApprovalCanBeConsumed

\* The promise without the provisos, for a server that may exit by itself and
\* for reruns.
NextActionCanBeTaken ==
  StopCanBeVerified /\ ExperimentHasServer /\ DecisionCanBeSubmitted

\* The record keeps its type and its account of the server's time.
RecordIsSound == TypeOK /\ ServerTimeAccounted

\* The GPU belongs to one at a time: nothing else runs during a profile, and no
\* verdict is given with the candidate's server up.
GpuIsExclusive == ProfileHasGpuAlone /\ StoppedBeforeVerdict

\* An exhausted budget ends in a stopped server and in a closed task.
BudgetEndsTask == BudgetClosesTask /\ BudgetStopsServer
=============================================================================
