---------------------------- MODULE ExperimentLoop ----------------------------
(***************************************************************************)
(* The llama.cpp experiment loop: live.py drives one persisted workflow    *)
(* from the task to a verdict, experiment.py executes, re-measures and     *)
(* judges one experiment at a time, cli.py submits decisions and receipts. *)
(*                                                                         *)
(* A driver is one run of "gpuopt run-live" or "gpuopt resume".  It works  *)
(* on the record it has loaded, takes the task lock only to re-measure,    *)
(* and may be killed between any two durable writes.  A call that raises   *)
(* changes nothing unless an action says so: its conditions are guards.    *)
(* What a benchmark, a profile or an evaluation yields is the              *)
(* environment's choice.                                                   *)
(***************************************************************************)
EXTENDS ProfileApproval, FiniteSets

CONSTANTS
  Tasks,           \* kinds of campaign, see Task
  MaxExperiments,  \* bound of the model: experiments of any task
  MaxCompletions,  \* bound of the model: length of the completion history
  MaxDeeper,       \* bound of the model: deeper profiles the agent asks for
  MaxSamples,      \* bound of the model: measurements of one experiment
  MaxDisturbances  \* bound of the model: killed and overlapping drivers

Baseline == 0
Experiments == 1 .. MaxExperiments

\* A task: whether it takes the hardened path, authorizes raw profiling, has the
\* standard quality that pairs are measured for, lets the agent ask for deeper
\* profiles (budgets.max_profile_level), and its budgets.max_experiments.
Task ==
  [ hardened : BOOLEAN, raw : BOOLEAN, pairs : BOOLEAN, deeper : BOOLEAN,
    experiments : Experiments ]

ASSUME LoopAssumption ==
  /\ {MaxExperiments, MaxCompletions, MaxDeeper, MaxSamples, MaxDisturbances}
       \subseteq Nat
  /\ Targets = Experiments \cup {Baseline}
  /\ Tasks \subseteq Task

VARIABLES
  task,       \* the task, which never changes
  record,     \* the persisted workflow
  spec,       \* state/active-experiment.json, 0 when absent
  execution,  \* state/active-execution.json
  initial,    \* experiment -> its result-pre-quality.json and pre-gate
  dirs,       \* evidence directories of reruns and of paired verifications
  paired,     \* the experiment whose pair made the current baseline, or 0
  quality,    \* experiment -> its quality attempt
  request,    \* state/requested-profile.json
  lock,       \* the drivers inside the task lock
  pc,         \* driver -> what it does next
  held,       \* driver -> the workflow record it works on
  active,     \* driver -> the active execution it works on
  target,     \* driver -> what it profiles
  samples,    \* experiment -> number of measurements so far
  again,      \* experiment -> measurements begun beyond those of executions
  verdicts,   \* the verdicts given, with the evidence each rests on
  crashes,    \* number of killed drivers
  overlaps    \* number of drivers started beside another one

files == << spec, execution, initial, dirs, paired, quality, request >>
local == << pc, held, active, target >>
ghosts == << samples, again, verdicts, crashes, overlaps >>
loopVars == << task, record, files, lock, local, ghosts >>
vars == << loopVars, profileVars >>

\* The engine on the workflow as it is stored: stages, transitions, properties.
Engine == INSTANCE WorkflowEngine WITH
  MaxReruns <- 2 * MaxExperiments,
  stage <- record.stage, status <- record.status,
  terminalDecision <- record.decision, completions <- record.completions,
  experimentCount <- record.experiments, rerunCount <- record.reruns

-----------------------------------------------------------------------------
(***************************************************************************)
(* Documents.                                                              *)
(***************************************************************************)

\* What the performance pre-gate says of a measurement: an accept or a reject,
\* unstable samples (a rerun of E2E), or evidence no rerun of E2E can mend.
PreGate == {"ACCEPT", "REJECT", "UNSTABLE", "OTHER"}

\* A quality result: not there, held, regressed, or without a usable outcome.
QualityResult == {"SKIPPED", "PASSED", "REGRESSED", "FAILED"}

\* An attempt of the durable quality execution, as start_or_resume returns it.
QualityState == {"NONE", "OPEN", "ORPHANED"} \cup (QualityResult \ {"SKIPPED"})

\* result-pre-quality.json and performance-pre-gate.json of an execution.
Result == [sample : Nat, gate : PreGate]

NoExecution ==
  [ exp |-> 0, sample |-> 0, gate |-> "OTHER", base |-> Baseline,
    quality |-> FALSE, reruns |-> 0, running |-> FALSE, extended |-> FALSE ]

\* active-execution.json.  Sample 0 and gate INITIAL stand for pointers to the
\* files of the first result, which a second execution would overwrite.
ActiveExecution ==
  [ exp : Targets, sample : Nat, gate : PreGate \cup {"INITIAL"}, base : Targets,
    quality : BOOLEAN, reruns : Nat, running : BOOLEAN, extended : BOOLEAN ]

\* The workflow record, with the measurement its latest E2E_VALIDATION rests on
\* and the kind of kernel evidence its latest DISCOVER_HOTSPOTS rests on.
NoMeasurement == [exp |-> 0, sample |-> 0]

InitialRecord ==
  [ stage |-> Engine!CREATE_TASK, status |-> "ACTIVE", decision |-> Engine!NoDecision,
    completions |-> << >>, experiments |-> 0, reruns |-> 0,
    e2e |-> NoMeasurement, kernel |-> "none" ]

NoRequest == [fulfilled |-> TRUE, level2 |-> TRUE, target |-> Baseline]

\* A verdict and the measurement and baseline it was computed from.
Verdict ==
  [ exp : Experiments, outcome : Engine!Outcome, sample : Nat, base : Targets,
    quality : QualityResult ]

\* The execution with the contents of the files its pointers name.
Resolved(x) ==
  [x EXCEPT !.sample = IF @ = 0 THEN initial[x.exp].sample ELSE @,
            !.gate = IF @ = "INITIAL" THEN initial[x.exp].gate ELSE @]

\* The verdict of all gates, from that of the performance gates and quality.
Decision(gate, result) ==
  LET outcome == CASE gate = "ACCEPT" /\ result = "PASSED"    -> "ACCEPT"
                   [] gate = "ACCEPT" /\ result = "REGRESSED" -> "REJECT"
                   [] gate = "REJECT"                         -> "REJECT"
                   [] OTHER                                   -> "INCONCLUSIVE"
      rerun == CASE outcome # "INCONCLUSIVE" -> Engine!NoStage
                 [] gate = "UNSTABLE"        -> Engine!E2E_VALIDATION
                 [] gate = "OTHER"           -> Engine!PATCH_AND_BUILD
                 [] OTHER                    -> Engine!QUALITY_VALIDATION
  IN  [outcome |-> outcome, rerun |-> rerun]

-----------------------------------------------------------------------------
(***************************************************************************)
(* Saves of the workflow.  Nothing compares the record with the stored     *)
(* one: what a driver writes is derived from the record it holds.          *)
(***************************************************************************)

\* complete_stage of the record a driver holds, with the next stage given.
Completed(r, next) ==
  [r EXCEPT !.stage = next, !.completions = Append(@, Engine!Completed(r.stage)),
            !.experiments = IF r.stage = Engine!CREATE_EXPERIMENT THEN @ + 1 ELSE @]

\* Mutant: an early rejection leaves no completion of E2E_VALIDATION.
Decided_SkipsE2E(r, decision, canContinue) ==
  LET history == Append(r.completions, Engine!Decided(decision.outcome))
  IN  IF decision.outcome = "REJECT" /\ canContinue
      THEN [r EXCEPT !.stage = Engine!GENERATE_HYPOTHESIS, !.completions = history]
      ELSE [r EXCEPT !.stage = Engine!DECIDE, !.decision = decision,
                     !.status = Engine!StatusOf(decision.outcome), !.completions = history]

\* complete_stage at DECIDE and complete_performance_rejection, from _apply_decision.
Decided(r, decision, canContinue) ==
  LET closed == IF r.stage = Engine!DECIDE THEN r ELSE Completed(r, Engine!DECIDE)
      history == Append(closed.completions, Engine!Decided(decision.outcome))
  IN  IF decision.outcome = "REJECT" /\ canContinue
      THEN [closed EXCEPT !.stage = Engine!GENERATE_HYPOTHESIS, !.completions = history]
      ELSE [closed EXCEPT !.status = Engine!StatusOf(decision.outcome),
                          !.decision = decision, !.completions = history]

RoomFor(r, n) == Len(r.completions) + n <= MaxCompletions

SaveRecord(d, r) == record' = r /\ held' = [held EXCEPT ![d] = r]

Goto(d, label) == pc' = [pc EXCEPT ![d] = label]

\* The run ends; what the driver held is gone, and so is its lock.
Leave(d) ==
  /\ Goto(d, "idle")
  /\ held' = [held EXCEPT ![d] = InitialRecord]
  /\ active' = [active EXCEPT ![d] = NoExecution]
  /\ target' = [target EXCEPT ![d] = Baseline]
  /\ lock' = lock \ {d}
  /\ Forget(d)

At(d, label) == pc[d] = label

Measured(e) == samples' = [samples EXCEPT ![e] = @ + 1]

-----------------------------------------------------------------------------
(***************************************************************************)
(* run_live_until_pause                                                    *)
(***************************************************************************)

Init ==
  /\ task \in Tasks
  /\ record = InitialRecord
  /\ spec = 0
  /\ execution = NoExecution
  /\ initial = [e \in Experiments |-> [sample |-> 0, gate |-> "OTHER"]]
  /\ dirs = {}
  /\ paired = Baseline
  /\ quality = [e \in Experiments |-> "NONE"]
  /\ request = NoRequest
  /\ lock = {}
  /\ pc = [d \in Drivers |-> "idle"]
  /\ held = [d \in Drivers |-> InitialRecord]
  /\ active = [d \in Drivers |-> NoExecution]
  /\ target = [d \in Drivers |-> Baseline]
  /\ samples = [e \in Experiments |-> 0]
  /\ again = [e \in Experiments |-> 0]
  /\ verdicts = << >>
  /\ crashes = 0
  /\ overlaps = 0
  /\ ProfileInit

Load(d) ==
  /\ At(d, "idle") /\ record.status = "ACTIVE"
  /\ Goto(d, "dispatch")
  /\ held' = [held EXCEPT ![d] = record]
  /\ IF \A other \in Drivers : At(other, "idle") THEN overlaps' = overlaps
     ELSE crashes + overlaps < MaxDisturbances /\ overlaps' = overlaps + 1
  /\ UNCHANGED << task, record, files, lock, active, target, samples, again,
                  verdicts, crashes, profileVars >>

Dispatched(d, stages) == At(d, "dispatch") /\ held[d].stage \in stages

\* Stages that end without a choice: the task, its inspection, the baseline,
\* the decomposition and the execution map.
RunStage(d) ==
  /\ Dispatched(d, Engine!CREATE_TASK .. Engine!BUILD_EXECUTION_MAP)
  /\ RoomFor(held[d], 1)
  /\ SaveRecord(d, Completed(held[d], held[d].stage + 1))
  /\ UNCHANGED << task, files, lock, pc, active, target, ghosts, profileVars >>

\* An agent decision or a manual recovery is due.
Pause(d) ==
  /\ Dispatched(d, (Engine!CLASSIFY_BOTTLENECK .. Engine!CREATE_EXPERIMENT)
                     \cup {Engine!MICROBENCH, Engine!DECIDE})
  /\ Leave(d)
  /\ UNCHANGED << task, record, files, ghosts >>

(***************************************************************************)
(* discover_hotspots                                                       *)
(***************************************************************************)
DiscoverHotspots(d) ==
  /\ Dispatched(d, {Engine!DISCOVER_HOTSPOTS})
  /\ request.fulfilled \/ request.level2
  /\ Goto(d, "profile")
  /\ target' = [target EXCEPT ![d] = request.target]
  /\ UNCHANGED << task, record, files, lock, held, active, ghosts, profileVars >>

\* A level that is not integrated is answered with explicit unavailable
\* evidence: first the request, then the stage.
AnswerUnavailable(d) ==
  /\ Dispatched(d, {Engine!DISCOVER_HOTSPOTS})
  /\ ~request.fulfilled /\ ~request.level2
  /\ request' = [request EXCEPT !.fulfilled = TRUE]
  /\ Goto(d, "unavailable")
  /\ UNCHANGED << task, record, spec, execution, initial, dirs, paired, quality,
                  lock, held, active, target, ghosts, profileVars >>

Hotspots(r, kind) ==
  [Completed(r, Engine!CLASSIFY_BOTTLENECK) EXCEPT !.kernel = kind]

SaveUnavailable(d) ==
  /\ At(d, "unavailable") /\ RoomFor(held[d], 1)
  /\ SaveRecord(d, Hotspots(held[d], "unavailable"))
  /\ Goto(d, "dispatch")
  /\ UNCHANGED << task, files, lock, active, target, ghosts, profileVars >>

\* The stage is saved before the request is marked as fulfilled, in one step here: a
\* mark that is lost changes nothing, because the next request replaces it.  That the
\* agent submits between the two, and the mark replaces its request, is left out.
SaveHotspots(d) ==
  /\ At(d, "profiled") /\ held[d].stage = Engine!DISCOVER_HOTSPOTS
  /\ RoomFor(held[d], 1)
  /\ SaveRecord(d, Hotspots(held[d], "timing"))
  /\ request' = [request EXCEPT !.fulfilled = TRUE]
  /\ Goto(d, "dispatch")
  /\ Forget(d)
  /\ UNCHANGED << task, spec, execution, initial, dirs, paired, quality, lock,
                  active, target, ghosts >>

(***************************************************************************)
(* _profile_target_until_pause and _raw_profile_target                     *)
(***************************************************************************)
ProfileStep(d, from, to, Act) ==
  /\ At(d, from) /\ Act
  /\ Goto(d, to)
  /\ UNCHANGED << task, record, files, lock, held, active, target, ghosts >>

ReuseProfile(d) ==
  ProfileStep(d, "profile", "profiled",
              ProfileComplete(target[d]) /\ UNCHANGED profileVars)

OpenProfile(d) ==
  /\ ~task.raw
  /\ ProfileStep(d, "profile", "receipt", OpenAttempt(d, target[d]))

RunRaw(d) ==
  /\ task.raw
  /\ \/ ProfileStep(d, "profile", "raw", StartRaw(target[d]))
     \/ ProfileStep(d, "raw", "profiled", FinishRaw(target[d]))

UseReceipt(d) ==
  ProfileStep(d, "receipt", "spend",
              Receipt(target[d], seen[d]) = "granted" /\ UNCHANGED profileVars)

\* Without a receipt the driver pauses, with a spent one it raises.
AwaitApproval(d) ==
  /\ At(d, "receipt") /\ Receipt(target[d], seen[d]) # "granted"
  /\ Leave(d)
  /\ UNCHANGED << task, record, files, ghosts >>

Transport(d) ==
  \/ ProfileStep(d, "spend", "announce", SpendReceipt(d, target[d]))
  \/ ProfileStep(d, "announce", "transport", AnnounceTransport(d, target[d]))
  \/ ProfileStep(d, "transport", "profiled", CallServer(d, target[d], "succeeded"))
  \/ ProfileStep(d, "transport", "again", CallServer(d, target[d], "evidence_inconclusive"))
  \/ ProfileStep(d, "again", "leave", RequestAgain(d, target[d]))
  \/ ProfileStep(d, "transport", "leave", CallServer(d, target[d], "transport_failed"))

AskAgain(d) ==
  /\ At(d, "leave")
  /\ Leave(d)
  /\ UNCHANGED << task, record, files, ghosts >>

-----------------------------------------------------------------------------
(***************************************************************************)
(* execute_active_experiment                                               *)
(***************************************************************************)

\* The candidate is built and measured, and the pre-gate compares it with the
\* original baseline.
Execute(d) ==
  /\ Dispatched(d, {Engine!PATCH_AND_BUILD})
  /\ spec # 0 /\ samples[spec] < MaxSamples
  /\ \E gate \in PreGate :
       LET sample == samples[spec] + 1
       IN  /\ initial' = [initial EXCEPT ![spec] = [sample |-> sample, gate |-> gate]]
           /\ active' = [active EXCEPT ![d] =
                [NoExecution EXCEPT !.exp = spec, !.sample = sample, !.gate = gate,
                                    !.quality = (gate = "ACCEPT")]]
  /\ Measured(spec)
  /\ Goto(d, "close")
  /\ UNCHANGED << task, record, spec, execution, dirs, paired, quality, request, lock,
                  held, target, again, verdicts, crashes, overlaps, profileVars >>

\* The stages an execution closes: a hardened one leaves E2E_VALIDATION open
\* when the pre-gate rejects, and always leaves QUALITY_VALIDATION open.
Closes(d) ==
  { Engine!PATCH_AND_BUILD, Engine!MICROBENCH }
    \cup (IF task.hardened /\ active[d].gate = "REJECT" THEN {} ELSE {Engine!E2E_VALIDATION})
    \cup (IF task.hardened THEN {} ELSE {Engine!QUALITY_VALIDATION})

\* complete_stage, with the measurement when the stage is E2E_VALIDATION.
Closed(d) ==
  LET next == Completed(held[d], held[d].stage + 1)
  IN  IF held[d].stage = Engine!E2E_VALIDATION
      THEN [next EXCEPT !.e2e = [exp |-> active[d].exp, sample |-> active[d].sample]]
      ELSE next

CloseStage(d) ==
  /\ At(d, "close") /\ held[d].stage \in Closes(d)
  /\ RoomFor(held[d], 1)
  /\ SaveRecord(d, Closed(d))
  /\ UNCHANGED << task, files, lock, pc, active, target, ghosts, profileVars >>

\* A generic experiment goes on to its verdict.
Conclude(d) ==
  /\ At(d, "close") /\ held[d].stage \notin Closes(d) /\ ~task.hardened
  /\ Goto(d, "decide")
  /\ UNCHANGED << task, record, files, lock, held, active, target, ghosts, profileVars >>

\* Mutant: a rejected execution is not published.
PublishExecution_UnlessRejected(d) ==
  /\ At(d, "close") /\ held[d].stage \notin Closes(d) /\ task.hardened
  /\ execution' = IF active[d].gate = "REJECT" THEN execution
                  ELSE [active[d] EXCEPT !.sample = 0, !.gate = "INITIAL"]
  /\ Leave(d)
  /\ UNCHANGED << task, record, spec, initial, dirs, paired, quality, request, ghosts >>

\* The pointers for the resume are the last thing a hardened execution writes.
PublishExecution(d) ==
  /\ At(d, "close") /\ held[d].stage \notin Closes(d) /\ task.hardened
  /\ execution' = [active[d] EXCEPT !.sample = 0, !.gate = "INITIAL"]
  /\ Leave(d)
  /\ UNCHANGED << task, record, spec, initial, dirs, paired, quality, request, ghosts >>

-----------------------------------------------------------------------------
(***************************************************************************)
(* resume_active_experiment: the part under the task lock                  *)
(***************************************************************************)

BeginResume(d) ==
  /\ Dispatched(d, {Engine!E2E_VALIDATION, Engine!QUALITY_VALIDATION})
  /\ active' = [active EXCEPT ![d].exp = spec]
  /\ Goto(d, "lock")
  /\ UNCHANGED << task, record, files, lock, held, target, ghosts, profileVars >>

\* Verdicts of the pre-gate on the execution as it stands: the stored one, unless
\* the baseline has been replaced since.
Refreshed(x) ==
  IF x.base = paired THEN {x}
  ELSE { [x EXCEPT !.gate = gate, !.base = paired, !.quality = (gate = "ACCEPT")] :
           gate \in PreGate }

\* All mutable pointers are read again inside the lock.
AcquireLock(d) ==
  /\ At(d, "lock") /\ lock = {}
  /\ execution.exp = active[d].exp
  /\ \E x \in Refreshed(Resolved(execution)) :
       /\ active' = [active EXCEPT ![d] = x]
       /\ execution' = IF x.base = execution.base THEN execution ELSE x
  /\ held' = [held EXCEPT ![d] = record]
  /\ lock' = {d}
  /\ Goto(d, "rerun")
  /\ UNCHANGED << task, record, spec, initial, dirs, paired, quality, request,
                  target, ghosts, profileVars >>

\* "active execution does not match active experiment"
RefuseResume(d) ==
  /\ At(d, "lock") /\ lock = {} /\ execution.exp # active[d].exp
  /\ Leave(d)
  /\ UNCHANGED << task, record, files, ghosts >>

Locked(d, from, to) ==
  /\ At(d, from)
  /\ Goto(d, to)
  /\ UNCHANGED << task, spec, initial, quality, request, lock, target, verdicts,
                  crashes, overlaps, profileVars >>

MaxReruns == 1  \* metadata max_e2e_reruns, by default

WantsRerun(d) == active[d].gate = "UNSTABLE" /\ active[d].reruns < MaxReruns
WantsPair(d) == task.pairs /\ active[d].gate = "UNSTABLE" /\ ~active[d].extended
Dir(kind, d) == << kind, active[d].exp >>

\* A rerun that was announced and never finished, or whose directory is there,
\* is left to a human.
RefuseMeasurement(d) ==
  /\ \/ At(d, "rerun") /\ WantsRerun(d) /\ (active[d].running \/ Dir("rerun", d) \in dirs)
     \/ At(d, "pair") /\ WantsPair(d) /\ Dir("pair", d) \in dirs
  /\ Leave(d)
  /\ UNCHANGED << task, record, files, ghosts >>

\* request.json, in a directory that must not exist yet.
RequestRerun(d) ==
  /\ WantsRerun(d) /\ ~active[d].running /\ Dir("rerun", d) \notin dirs
  /\ Locked(d, "rerun", "announce_rerun")
  /\ dirs' = dirs \cup {Dir("rerun", d)}
  /\ UNCHANGED << record, execution, paired, held, active, samples, again >>

AnnounceRerun(d) ==
  /\ Locked(d, "announce_rerun", "run_rerun")
  /\ active' = [active EXCEPT ![d].running = TRUE]
  /\ execution' = active'[d]
  /\ again' = [again EXCEPT ![active[d].exp] = @ + 1]
  /\ UNCHANGED << record, dirs, paired, held, samples >>

\* The exact command runs again; the pointers move to the new sample.
RunRerun(d) ==
  /\ Locked(d, "run_rerun", "save_rerun")
  /\ samples[active[d].exp] < MaxSamples
  /\ \E gate \in PreGate :
       active' = [active EXCEPT ![d] =
         [@ EXCEPT !.sample = samples[active[d].exp] + 1, !.gate = gate,
                   !.quality = (gate = "ACCEPT"), !.reruns = MaxReruns,
                   !.running = FALSE]]
  /\ execution' = active'[d]
  /\ Measured(active[d].exp)
  /\ UNCHANGED << record, dirs, paired, held, again >>

\* Mutant: the workflow is left where the first measurement brought it.
SaveRerun_KeepsStage(d) ==
  /\ Locked(d, "save_rerun", "pair")
  /\ SaveRecord(d, [held[d] EXCEPT !.reruns = @ + 1])
  /\ UNCHANGED << execution, dirs, paired, active, samples, again >>

\* The workflow is put back at E2E_VALIDATION, whatever stage it had reached.
SaveRerun(d) ==
  /\ Locked(d, "save_rerun", "pair")
  /\ SaveRecord(d, [held[d] EXCEPT !.stage = Engine!E2E_VALIDATION,
                                   !.reruns = @ + 1])
  /\ UNCHANGED << execution, dirs, paired, active, samples, again >>

NoRerun(d) ==
  /\ ~WantsRerun(d)
  /\ Locked(d, "rerun", "pair")
  /\ UNCHANGED << record, execution, dirs, paired, held, active, samples, again >>

RequestPair(d) ==
  /\ WantsPair(d) /\ Dir("pair", d) \notin dirs
  /\ Locked(d, "pair", "run_pair")
  /\ dirs' = dirs \cup {Dir("pair", d)}
  /\ again' = [again EXCEPT ![active[d].exp] = @ + 1]
  /\ UNCHANGED << record, execution, paired, held, active, samples >>

\* Baseline and candidate are measured together, and the new baseline replaces
\* the current one.
RunPair(d) ==
  /\ Locked(d, "run_pair", "save_pair")
  /\ samples[active[d].exp] < MaxSamples
  /\ \E gate \in PreGate :
       active' = [active EXCEPT ![d] =
         [@ EXCEPT !.sample = samples[active[d].exp] + 1, !.gate = gate, !.base = active[d].exp,
                   !.quality = (gate = "ACCEPT"), !.extended = TRUE]]
  /\ paired' = active[d].exp
  /\ Measured(active[d].exp)
  /\ UNCHANGED << record, execution, dirs, held, again >>

SavePair(d) ==
  /\ Locked(d, "save_pair", "unlock")
  /\ execution' = active[d]
  /\ UNCHANGED << record, dirs, paired, held, active, samples, again >>

NoPair(d) ==
  /\ ~WantsPair(d)
  /\ Locked(d, "pair", "unlock")
  /\ UNCHANGED << record, execution, dirs, paired, held, active, samples, again >>

ReleaseLock(d) ==
  /\ At(d, "unlock")
  /\ lock' = {}
  /\ target' = [target EXCEPT ![d] = active[d].exp]
  /\ Goto(d, "profile")
  /\ UNCHANGED << task, record, files, held, active, ghosts, profileVars >>

-----------------------------------------------------------------------------
(***************************************************************************)
(* resume_active_experiment: the verdict, outside the lock                 *)
(***************************************************************************)

Judging(d) == At(d, "profiled") /\ held[d].stage # Engine!DISCOVER_HOTSPOTS

\* Evidence accepted after a rerun closes E2E_VALIDATION at last.
AcceptE2E(d) ==
  /\ Judging(d) /\ held[d].stage = Engine!E2E_VALIDATION
  /\ active[d].gate = "ACCEPT" /\ RoomFor(held[d], 1)
  /\ SaveRecord(d, Closed(d))
  /\ Goto(d, "quality")
  /\ UNCHANGED << task, files, lock, active, target, ghosts, profileVars >>

PassE2E(d) ==
  /\ Judging(d) /\ held[d].stage # Engine!E2E_VALIDATION
  /\ Goto(d, "quality")
  /\ UNCHANGED << task, record, files, lock, held, active, target, ghosts, profileVars >>

\* "profile completed but performance evidence remains inconclusive"
RemainsInconclusive(d) ==
  /\ Judging(d) /\ held[d].stage = Engine!E2E_VALIDATION
  /\ active[d].gate \in {"UNSTABLE", "OTHER"}
  /\ Leave(d)
  /\ UNCHANGED << task, record, files, ghosts >>

CanContinue(d, decision) ==
  decision.outcome = "REJECT" /\ held[d].experiments < task.experiments

\* The verdict is saved and announced; r is the record it closes.
Give(d, r, result) ==
  LET decision == Decision(active[d].gate, result)
  IN  /\ record' = Decided(r, decision, CanContinue(d, decision))
      /\ verdicts' = Append(verdicts,
           [ exp |-> active[d].exp, outcome |-> decision.outcome, quality |-> result,
             sample |-> active[d].sample, base |-> active[d].base ])
      /\ Leave(d)
      /\ UNCHANGED << task, files, samples, again, crashes, overlaps >>

\* A clear performance rejection closes the experiment without quality.
RejectEarly(d) ==
  /\ Judging(d) /\ held[d].stage = Engine!E2E_VALIDATION
  /\ active[d].gate = "REJECT" /\ RoomFor(held[d], 2)
  /\ Give(d, [held[d] EXCEPT !.e2e = [exp |-> active[d].exp, sample |-> active[d].sample]],
          "SKIPPED")

StartQuality(d) ==
  /\ At(d, "quality") /\ active[d].quality /\ quality[active[d].exp] = "NONE"
  /\ quality' = [quality EXCEPT ![active[d].exp] = "OPEN"]
  /\ Leave(d)
  /\ UNCHANGED << task, record, spec, execution, initial, dirs, paired, request, ghosts >>

\* An attempt that runs, or whose worker vanished, pauses the driver.
AwaitQuality(d) ==
  /\ At(d, "quality") /\ active[d].quality
  /\ quality[active[d].exp] \in {"OPEN", "ORPHANED"}
  /\ Leave(d)
  /\ UNCHANGED << task, record, files, ghosts >>

QualityOf(d) == IF active[d].quality THEN quality[active[d].exp] ELSE "SKIPPED"

\* Mutant: a result that is not a pass is waited for again.
RecordQuality_PassedOnly(d) ==
  /\ At(d, "quality") /\ QualityOf(d) = "PASSED"
  /\ held[d].stage = Engine!QUALITY_VALIDATION /\ RoomFor(held[d], 1)
  /\ SaveRecord(d, Completed(held[d], Engine!DECIDE))
  /\ Goto(d, "decide")
  /\ UNCHANGED << task, files, lock, active, target, ghosts, profileVars >>

RecordQuality(d) ==
  /\ At(d, "quality")
  /\ QualityOf(d) \in QualityResult
  /\ held[d].stage = Engine!QUALITY_VALIDATION /\ RoomFor(held[d], 1)
  /\ SaveRecord(d, Completed(held[d], Engine!DECIDE))
  /\ Goto(d, "decide")
  /\ UNCHANGED << task, files, lock, active, target, ghosts, profileVars >>

\* The record the driver re-read is at a stage that takes no quality result.
RefuseQuality(d) ==
  /\ At(d, "quality") /\ QualityOf(d) \in QualityResult
  /\ held[d].stage # Engine!QUALITY_VALIDATION
  /\ Leave(d)
  /\ UNCHANGED << task, record, files, ghosts >>

\* A generic experiment has evaluated quality in the run that measured it.
Decide(d) ==
  /\ At(d, "decide") /\ RoomFor(held[d], 1)
  /\ \E result \in IF task.hardened THEN {QualityOf(d)} ELSE QualityResult \ {"SKIPPED"} :
       Give(d, held[d], result)

-----------------------------------------------------------------------------
(***************************************************************************)
(* The agent, the approver, the quality worker, and crashes                *)
(***************************************************************************)

RequestedBefore ==
  Len(SelectSeq(record.completions, LAMBDA c : c.stage = Engine!DISCOVER_HOTSPOTS))

\* decision submit, and validate_agent_decision before it: the agent chooses
\* among the permitted stages.  Each experiment it proposes has a new id.
Submit ==
  \E next \in Engine!PermittedNextStages(record.stage), level2 \in BOOLEAN :
    /\ record.status = "ACTIVE"
    /\ record.stage \in Engine!CLASSIFY_BOTTLENECK .. Engine!CREATE_EXPERIMENT
    /\ RoomFor(record, 1)
    /\ record' = Completed(record, next)
    /\ IF record.stage = Engine!CREATE_EXPERIMENT
       THEN spec < MaxExperiments /\ spec' = spec + 1 ELSE spec' = spec
    /\ IF next = Engine!DISCOVER_HOTSPOTS
       THEN /\ task.deeper /\ RequestedBefore <= MaxDeeper
            /\ request' = [fulfilled |-> FALSE, level2 |-> level2, target |-> spec]
       ELSE level2 /\ request' = request
    /\ UNCHANGED << task, execution, initial, dirs, paired, quality, lock, local,
                    ghosts, profileVars >>

ApproveProfile ==
  /\ \E t \in Targets : Approve(t)
  /\ UNCHANGED loopVars

\* The durable worker ends its evaluation, or vanishes.
EndQuality ==
  \E e \in Experiments, end \in (QualityResult \ {"SKIPPED"}) \cup {"ORPHANED"} :
    /\ quality[e] = "OPEN"
    /\ quality' = [quality EXCEPT ![e] = end]
    /\ UNCHANGED << task, record, spec, execution, initial, dirs, paired, request,
                    lock, local, ghosts, profileVars >>

Crash(d) ==
  /\ ~At(d, "idle") /\ crashes + overlaps < MaxDisturbances
  /\ crashes' = crashes + 1
  /\ Leave(d)
  /\ UNCHANGED << task, record, files, samples, again, verdicts, overlaps >>

Drive(d) ==
  \/ Load(d) \/ RunStage(d) \/ Pause(d)
  \/ DiscoverHotspots(d) \/ AnswerUnavailable(d) \/ SaveUnavailable(d) \/ SaveHotspots(d)
  \/ ReuseProfile(d) \/ OpenProfile(d) \/ RunRaw(d) \/ UseReceipt(d)
  \/ AwaitApproval(d) \/ Transport(d) \/ AskAgain(d)
  \/ Execute(d) \/ CloseStage(d) \/ Conclude(d) \/ PublishExecution(d)
  \/ BeginResume(d) \/ AcquireLock(d) \/ RefuseResume(d) \/ RefuseMeasurement(d)
  \/ RequestRerun(d) \/ AnnounceRerun(d) \/ RunRerun(d) \/ SaveRerun(d) \/ NoRerun(d)
  \/ RequestPair(d) \/ RunPair(d) \/ SavePair(d) \/ NoPair(d) \/ ReleaseLock(d)
  \/ AcceptE2E(d) \/ PassE2E(d) \/ RemainsInconclusive(d) \/ RejectEarly(d)
  \/ StartQuality(d) \/ AwaitQuality(d) \/ RecordQuality(d) \/ RefuseQuality(d)
  \/ Decide(d)

Next ==
  \/ \E d \in Drivers : Drive(d) \/ Crash(d)
  \/ Submit \/ ApproveProfile \/ EndQuality

Spec == Init /\ [][Next]_vars

\* Somebody resumes the task when nobody works on it, decides, approves, and the
\* worker runs.  Nothing forces a second driver to start beside the first.
FairSpec ==
  /\ Spec
  /\ \A d \in Drivers : WF_vars(Drive(d) /\ overlaps' = overlaps)
  /\ WF_vars(Submit) /\ WF_vars(ApproveProfile) /\ WF_vars(EndQuality)

-----------------------------------------------------------------------------
(***************************************************************************)
(* Properties.                                                             *)
(***************************************************************************)

WorkflowRecord ==
  [ stage : Engine!WorkflowStage,
    status : {"ACTIVE", "ACCEPTED", "REJECTED", "INCONCLUSIVE"},
    decision : Engine!GateDecision \cup {Engine!NoDecision},
    completions : Seq(Engine!StageCompletion), experiments : Nat, reruns : Nat,
    e2e : [exp : Targets, sample : Nat], kernel : {"none", "timing", "unavailable"} ]

\* What a driver can do next.
Label ==
  { "idle", "dispatch", "unavailable", "profile", "receipt", "spend", "announce", "transport",
    "again", "leave", "raw", "profiled", "close", "lock", "rerun", "announce_rerun",
    "run_rerun", "save_rerun", "pair", "run_pair", "save_pair", "unlock", "quality", "decide" }

\* Type invariant of the task's files and of what drivers hold of them.
TypeOK ==
  /\ task \in Tasks
  /\ record \in WorkflowRecord /\ held \in [Drivers -> WorkflowRecord]
  /\ spec \in Targets /\ paired \in Targets
  /\ execution \in ActiveExecution /\ active \in [Drivers -> ActiveExecution]
  /\ initial \in [Experiments -> Result]
  /\ dirs \subseteq {"rerun", "pair"} \X Experiments
  /\ quality \in [Experiments -> QualityState]
  /\ request \in [fulfilled : BOOLEAN, level2 : BOOLEAN, target : Targets]
  /\ lock \subseteq Drivers /\ pc \in [Drivers -> Label]
  /\ target \in [Drivers -> Targets]
  /\ {samples, again} \subseteq [Experiments -> Nat]
  /\ verdicts \in Seq(Verdict)
  /\ ProfileTypeOK

Undisturbed == crashes = 0 /\ overlaps = 0

\* Raw evidence of the target is stored, or the ROCm server was called for it.
ProfileTaken(e) ==
  rawProfile[e] = "done" \/ \E n \in DOMAIN transports[e] : transports[e][n] > 0

Verdicts(e) == { n \in DOMAIN verdicts : verdicts[n].exp = e }

\* The exact E2E command is repeated once, and a pair measured once, for each
\* experiment: however drivers overlap or die around the lock, no evidence
\* directory is used for a second measurement.
MeasuredAgainOnce ==
  \A e \in Experiments : again[e] <= Cardinality({ x \in dirs : x[2] = e })

\* A closed workflow rests on the measurement its verdict compared: the E2E
\* evidence of the record is the sample the gates judged, although reruns and
\* pairs moved the pointers after E2E_VALIDATION had first been completed.
VerdictRestsOnItsMeasurement ==
  Undisturbed /\ record.status # "ACTIVE" =>
    LET last == verdicts[Len(verdicts)]
    IN  record.e2e = [exp |-> last.exp, sample |-> last.sample]

\* No hardened experiment is accepted without its own passed quality attempt and
\* its own profile, whoever overlaps and whatever is killed.  A driver that
\* overlapped may put an older list of attempts over that of the profile: then
\* what remains of it is that the ROCm server was called for this experiment.
AcceptanceIsComplete ==
  \A n \in DOMAIN verdicts :
    task.hardened /\ verdicts[n].outcome = "ACCEPT" =>
      /\ quality[verdicts[n].exp] = "PASSED"
      /\ ProfileTaken(verdicts[n].exp)
      /\ overlaps = 0 => ProfileComplete(verdicts[n].exp)

\* As long as one driver runs at a time, an experiment is judged once, though
\* the driver be killed anywhere.
OneVerdictPerExperiment ==
  overlaps = 0 => \A e \in Experiments : Cardinality(Verdicts(e)) <= 1

\* Only an interruption leaves the workflow where no driver goes on: inside an
\* experiment, or at an E2E_VALIDATION whose execution was not published.
StrandedOnlyByInterruption ==
  /\ Undisturbed /\ record.status = "ACTIVE" /\ \A d \in Drivers : At(d, "idle")
  => /\ record.stage \notin {Engine!MICROBENCH, Engine!DECIDE}
     /\ record.stage \in {Engine!E2E_VALIDATION, Engine!QUALITY_VALIDATION} =>
          execution.exp = spec /\ ~execution.running

\* A profile that was asked for at a level this integration lacks is answered
\* with explicit unavailable evidence, not with a lower level.
LevelIsNotSubstituted ==
  crashes = 0 /\ overlaps = 0 /\ record.stage = Engine!CLASSIFY_BOTTLENECK /\ ~request.level2
    => record.kernel = "unavailable"

\* An approval is spent on one call of the ROCm server, as the skill and the
\* layout notes demand ("one-use"), even if the driver dies around the call.
ApprovalSpentOnce ==
  overlaps = 0 =>
    \A t \in Targets : \A n \in 1 .. MaxProfileAttempts :
      /\ transports[t][n] <= 1
      /\ transports[t][n] > 0 => receipts[t][n] = "consumed"

\* The rerun's own save, which is no step of the engine.
ReopenedForRerun ==
  record' = [record EXCEPT !.stage = Engine!E2E_VALIDATION, !.reruns = @ + 1]

\* A step of the engine, with the whole evidence of the stage it closes.
EngineStep ==
  LET offer == Engine!STAGE_REQUIREMENTS[record.stage]
  IN  \/ Engine!CompleteStage(offer, record'.stage)
      \/ \E decision \in Engine!GateDecision, canContinue \in BOOLEAN :
           \/ Engine!CompleteDecide(offer, decision, canContinue)
           \/ Engine!CompletePerformanceRejection(decision, canContinue)

\* One driver at a time, the stored workflow moves by steps of the engine only,
\* but for the rerun that reopens E2E_VALIDATION: no save undoes another's.
WorkflowFollowsEngine ==
  [][overlaps' > 0 \/ EngineStep \/ ReopenedForRerun]_record

Stuck(e) ==
  \/ quality[e] = "ORPHANED"
  \/ /\ record.stage = Engine!E2E_VALIDATION /\ execution.exp = e
     /\ Resolved(execution).gate \in {"UNSTABLE", "OTHER"}

\* An experiment that is executed gets its verdict, however often the driver
\* pauses for approvals and evaluations: unless a run was interrupted or drivers
\* overlaps, its quality worker vanished, or its samples are unusable even
\* when measured again.
ExperimentIsJudged ==
  \A e \in Experiments :
    (spec = e /\ record.stage = Engine!PATCH_AND_BUILD)
      ~> (Verdicts(e) # {} \/ Stuck(e) \/ ~Undisturbed)

\* Verdicts are earned: on the measurement they name, measured again at most
\* once, with complete evidence for an acceptance, and once for an experiment.
VerdictIsEarned ==
  /\ VerdictRestsOnItsMeasurement
  /\ MeasuredAgainOnce
  /\ AcceptanceIsComplete
  /\ OneVerdictPerExperiment

\* Profiles are taken as approved: one call for an approval, at the level asked.
ProfilesAreAsApproved == ApprovalSpentOnce /\ LevelIsNotSubstituted

\* The files are of their types, and only an interruption strands the workflow.
WorkflowIsSound == TypeOK /\ StrandedOnlyByInterruption
=============================================================================
