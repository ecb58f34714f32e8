------------------------ MODULE ExperimentLoop_proofs ------------------------
(***************************************************************************)
(* Proofs about ExperimentLoop, for every task, any number of drivers and  *)
(* experiments and any number of killed and overlapping drivers.           *)
(*                                                                         *)
(* The invariant IInv has three layers.  What holds whoever overlaps: the  *)
(* types, the task lock, the count of measurements begun beside the        *)
(* directories they were begun in, and the profile and the quality behind  *)
(* what is judged.  What holds while drivers do not overlap, killed or not *)
(* (AloneInv): the one driver works on the stored record, at the stages    *)
(* its next call is for, and its receipt is paid once.  What holds without *)
(* any interruption (UndisturbedInv): the measurement the driver carries   *)
(* is the one in the files, and the record can be resumed where it rests.  *)
(*                                                                         *)
(* Each layer is kept by a step on the strength of the layers before it:   *)
(* Drive is taken apart action by action, and the drivers that do not move *)
(* are covered by the lemma Others.                                        *)
(***************************************************************************)
EXTENDS ExperimentLoop, FiniteSetTheorems, TLAPS

(***************************************************************************)
(* The invariant.                                                          *)
(***************************************************************************)

\* The steps of a driver inside the task lock.
InLock ==
  { "rerun", "announce_rerun", "run_rerun", "save_rerun", "pair", "run_pair", "save_pair",
    "unlock" }

\* The steps of a driver that asks for a receipt, and of one that gets its profile.
Asking == {"receipt", "spend", "announce", "transport", "again"}
Profiling == Asking \cup {"profile", "leave", "raw", "profiled"}

\* The failures a target may have, and the attempt after them.
MaxAttempts == MaxProfileFailures + 1

\* A driver works on an experiment.
OnExperiment(d) ==
  \/ pc[d] \in InLock \cup {"close", "lock", "quality", "decide"}
  \/ pc[d] \in Profiling /\ held[d].stage # Engine!DISCOVER_HOTSPOTS

\* The task's files are of their types.
FilesTyped ==
  /\ task \in Tasks /\ record \in WorkflowRecord
  /\ spec \in Targets /\ paired \in Targets
  /\ execution \in ActiveExecution
  /\ initial \in [Experiments -> Result]
  /\ dirs \subseteq {"rerun", "pair"} \X Experiments
  /\ quality \in [Experiments -> QualityState]
  /\ request \in [fulfilled : BOOLEAN, level2 : BOOLEAN, target : Targets]

\* So is what drivers hold of them.
DriversTyped ==
  /\ pc \in [Drivers -> Label]
  /\ held \in [Drivers -> WorkflowRecord] /\ active \in [Drivers -> ActiveExecution]
  /\ target \in [Drivers -> Targets] /\ lock \subseteq Drivers

\* So are the histories.
GhostsTyped ==
  /\ samples \in [Experiments -> Nat] /\ again \in [Experiments -> Nat]
  /\ verdicts \in Seq(Verdict)
  /\ crashes \in Nat /\ overlaps \in Nat

\* A driver that asks for a receipt has read an attempt, and room is left to ask again.
AttemptsTyped ==
  /\ ProfileTypeOK
  /\ \A t \in Targets : Len(profiles[t]) <= MaxAttempts
  /\ \A d \in Drivers : pc[d] \in Asking => Len(seen[d]) \in 1 .. MaxAttempts
  /\ \A d \in Drivers : pc[d] = "again" => Len(seen[d]) < MaxAttempts

\* Whoever has an experiment at hand has one that was proposed.
Proposed ==
  /\ record.stage > Engine!CREATE_EXPERIMENT => spec # Baseline
  /\ \A d \in Drivers :
       /\ held[d].stage > Engine!CREATE_EXPERIMENT => spec # Baseline
       /\ OnExperiment(d) => spec # Baseline /\ active[d].exp # Baseline

\* A hardened verdict is given on a quality result.
QualityKnown ==
  \A d \in Drivers : pc[d] = "decide" /\ task.hardened => QualityOf(d) \in QualityResult

Typed == FilesTyped /\ DriversTyped /\ GhostsTyped /\ AttemptsTyped /\ Proposed /\ QualityKnown

\* Whoever works inside the lock holds it, alone.
Locking == \A d \in Drivers : pc[d] \in InLock => lock = {d}

\* A rerun has its directory, and is not yet counted.
Begun(e) == \E d \in Drivers : pc[d] = "announce_rerun" /\ active[d].exp = e

\* Every measurement beyond the first was begun in a directory of its own.
AgainCounted ==
  /\ \A d \in Drivers : pc[d] = "announce_rerun" => << "rerun", active[d].exp >> \in dirs
  /\ \A e \in Experiments :
       again[e] <= (IF << "rerun", e >> \in dirs /\ ~Begun(e) THEN 1 ELSE 0)
                   + (IF << "pair", e >> \in dirs THEN 1 ELSE 0)

\* What is true of profiles whoever overlaps.
ProfilesTaken ==
  /\ \A t \in Targets : Succeeded(profiles[t]) => ProfileTaken(t)
  /\ \A d \in Drivers :
       /\ pc[d] \in Asking => ~Succeeded(seen[d])
       /\ pc[d] = "profiled" => ProfileTaken(target[d])
       /\ pc[d] \in Profiling /\ held[d].stage # Engine!DISCOVER_HOTSPOTS =>
            target[d] = active[d].exp
       /\ pc[d] = "quality" \/ (pc[d] = "decide" /\ task.hardened) =>
            ProfileTaken(active[d].exp)

\* A hardened acceptance had its passed quality and its profile.
Accepted ==
  \A n \in DOMAIN verdicts :
    task.hardened /\ verdicts[n].outcome = "ACCEPT" =>
      /\ quality[verdicts[n].exp] = "PASSED"
      /\ ProfileTaken(verdicts[n].exp)

-----------------------------------------------------------------------------
\* At most one driver is not idle.
Alone ==
  \A d, other \in Drivers : d # other => At(d, "idle") \/ At(other, "idle")

\* A lone driver works on the stored record, at the stages its step is for.
Works(d) ==
  /\ record.status = "ACTIVE"
  /\ \/ held[d] = record
     \/ /\ pc[d] = "dispatch"
        /\ held[d].stage \in Engine!CLASSIFY_BOTTLENECK .. Engine!CREATE_EXPERIMENT
  /\ pc[d] = "unavailable" => record.stage = Engine!DISCOVER_HOTSPOTS
  /\ pc[d] \in Profiling =>
       record.stage \in {Engine!DISCOVER_HOTSPOTS, Engine!E2E_VALIDATION, Engine!QUALITY_VALIDATION}
  /\ pc[d] = "close" =>
       /\ record.stage \in Engine!PATCH_AND_BUILD .. Engine!DECIDE
       /\ task.hardened => record.stage <= Engine!QUALITY_VALIDATION
  /\ pc[d] \in InLock \cup {"lock"} =>
       record.stage \in {Engine!E2E_VALIDATION, Engine!QUALITY_VALIDATION}
  /\ pc[d] = "quality" => record.stage = Engine!QUALITY_VALIDATION
  /\ pc[d] = "decide" => record.stage = Engine!DECIDE
  /\ OnExperiment(d) => active[d].exp = spec

\* Verdicts are given in the order of the experiments, at most one for each, and none
\* for the experiment at work.
Judged ==
  /\ \A m, n \in DOMAIN verdicts : m < n => verdicts[m].exp < verdicts[n].exp
  /\ \A n \in DOMAIN verdicts :
       /\ verdicts[n].exp <= spec
       /\ record.status = "ACTIVE" /\ record.stage > Engine!CREATE_EXPERIMENT =>
            verdicts[n].exp < spec

\* The receipt a lone driver asked for, and what was bought with receipts.
Paid ==
  /\ \A t \in Targets : \A n \in 1 .. MaxProfileAttempts :
       /\ transports[t][n] <= 1
       /\ transports[t][n] > 0 => receipts[t][n] = "consumed"
  /\ \A d \in Drivers :
       LET t == target[d]
           n == Len(seen[d])
       IN  /\ pc[d] = "spend" => receipts[t][n] = "granted"
           /\ pc[d] \in {"announce", "transport"} =>
                receipts[t][n] = "consumed" /\ transports[t][n] = 0

\* A lone driver asks until the profile of its target is complete, and judges then.
Finished ==
  /\ \A d \in Drivers :
       /\ pc[d] \in Asking \cup {"raw"} => ~ProfileComplete(target[d])
       /\ pc[d] = "profiled" => ProfileComplete(target[d])
       /\ pc[d] = "quality" \/ (pc[d] = "decide" /\ task.hardened) =>
            ProfileComplete(active[d].exp)
  /\ \A n \in DOMAIN verdicts :
       task.hardened /\ verdicts[n].outcome = "ACCEPT" => ProfileComplete(verdicts[n].exp)

\* What holds as long as drivers do not overlap.
AloneInv ==
  overlaps = 0 =>
    /\ Alone
    /\ \A d \in Drivers : pc[d] # "idle" => Works(d)
    /\ Judged /\ Paid /\ Finished

-----------------------------------------------------------------------------
\* The measurement of the current experiment that an execution points to.
Evidence(x) == [exp |-> spec, sample |-> x.sample]

\* The task can be resumed where it is.
Ready ==
  /\ record.stage \notin {Engine!MICROBENCH, Engine!DECIDE}
  /\ record.stage \in {Engine!E2E_VALIDATION, Engine!QUALITY_VALIDATION} =>
       task.hardened /\ execution.exp = spec /\ ~execution.running
  /\ record.stage = Engine!QUALITY_VALIDATION =>
       /\ record.e2e = Evidence(Resolved(execution))
       /\ execution.reruns > 0 => Resolved(execution).gate = "ACCEPT" /\ execution.base = paired

\* A driver that executes the experiment for the first time.
Executing(d) == pc[d] = "close" \/ (pc[d] = "decide" /\ ~task.hardened)

\* What it carries is what its files say.
Executes(d) ==
  /\ initial[spec] = [sample |-> active[d].sample, gate |-> active[d].gate]
  /\ ~active[d].running /\ active[d].reruns = 0
  /\ record.stage > Engine!E2E_VALIDATION => record.e2e = Evidence(active[d])

\* A driver that resumes it.
Resuming(d) ==
  \/ pc[d] \in InLock \cup {"quality"} \/ (pc[d] = "decide" /\ task.hardened)
  \/ pc[d] \in Profiling /\ record.stage # Engine!DISCOVER_HOTSPOTS

\* What it carries is the execution in the files, under the current baseline.
Resumes(d) ==
  /\ task.hardened /\ execution.exp = spec /\ active[d].base = paired
  /\ pc[d] # "run_rerun" => ~execution.running
  /\ pc[d] # "save_pair" => active[d] = Resolved(execution)
  /\ pc[d] = "save_pair" => ~active[d].running /\ Resolved(active[d]) = active[d]
  /\ pc[d] \in {"run_pair", "save_pair"} => record.stage = Engine!E2E_VALIDATION
  /\ pc[d] # "save_rerun" /\ record.stage > Engine!E2E_VALIDATION =>
       /\ record.e2e = Evidence(active[d])
       /\ active[d].reruns > 0 => active[d].gate = "ACCEPT"
       /\ pc[d] = "pair" => active[d].gate # "UNSTABLE"

\* A driver that has not begun to change anything.
AtRest(d) == pc[d] \in {"idle", "dispatch", "lock"}

\* With nobody further than the lock, the task can be resumed.
Rested == record.status = "ACTIVE" /\ (\A d \in Drivers : AtRest(d)) => Ready

\* How a request for a deeper profile is answered.
Answered ==
  /\ record.stage < Engine!DISCOVER_HOTSPOTS => request.level2
  /\ ~request.level2 /\ record.stage = Engine!DISCOVER_HOTSPOTS =>
       \/ ~request.fulfilled /\ \A d \in Drivers : pc[d] \in {"idle", "dispatch"}
       \/ request.fulfilled /\ \E d \in Drivers : pc[d] = "unavailable"
  /\ ~request.level2 /\ record.stage = Engine!CLASSIFY_BOTTLENECK => record.kernel = "unavailable"

\* A closed workflow rests on the measurement of the last verdict.
Settled ==
  record.status # "ACTIVE" =>
    LET last == verdicts[Len(verdicts)]
    IN  verdicts # << >> /\ record.e2e = [exp |-> last.exp, sample |-> last.sample]

\* What holds as long as no driver was killed or overlapped another.
UndisturbedInv ==
  Undisturbed =>
    /\ Rested /\ Answered /\ Settled
    /\ \A d \in Drivers :
         /\ Executing(d) => Executes(d)
         /\ Resuming(d) => Resumes(d)

\* The inductive invariant.
IInv ==
  /\ Typed /\ Locking /\ AgainCounted /\ ProfilesTaken /\ Accepted /\ AloneInv /\ UndisturbedInv

-----------------------------------------------------------------------------
(***************************************************************************)
(* Documents and saves.                                                    *)
(***************************************************************************)

USE DEF Engine!CREATE_TASK, Engine!INSPECT_TARGET, Engine!CAPTURE_BASELINE,
        Engine!DECOMPOSE_E2E, Engine!BUILD_EXECUTION_MAP, Engine!DISCOVER_HOTSPOTS,
        Engine!CLASSIFY_BOTTLENECK, Engine!ANALYZE_LIMIT, Engine!GENERATE_HYPOTHESIS,
        Engine!CREATE_EXPERIMENT, Engine!PATCH_AND_BUILD, Engine!MICROBENCH,
        Engine!E2E_VALIDATION, Engine!QUALITY_VALIDATION, Engine!DECIDE, Baseline

\* The statuses of a workflow.
Statuses == {"ACTIVE", "ACCEPTED", "REJECTED", "INCONCLUSIVE"}

\* The fields of a workflow record are of their types.
LEMMA RecordFields ==
  ASSUME NEW r \in WorkflowRecord
  PROVE  /\ r.stage \in 1 .. 15 /\ r.status \in Statuses
         /\ r.completions \in Seq(Engine!StageCompletion) /\ Len(r.completions) \in Nat
         /\ r.experiments \in Nat /\ r.reruns \in Nat
         /\ r.e2e \in [exp : Targets, sample : Nat]
BY DEF WorkflowRecord, Engine!WorkflowStage, Statuses

\* Closing a stage moves a record to the next stage and touches its history and
\* its count of experiments, nothing else.
LEMMA CompletedFields ==
  ASSUME NEW r \in WorkflowRecord, NEW next \in 1 .. 15
  PROVE  /\ Completed(r, next) \in WorkflowRecord
         /\ Completed(r, next).stage = next
         /\ Completed(r, next).status = r.status
         /\ Completed(r, next).decision = r.decision
         /\ Completed(r, next).reruns = r.reruns
         /\ Completed(r, next).e2e = r.e2e
         /\ Completed(r, next).kernel = r.kernel
         /\ Completed(r, next).completions = Append(r.completions, Engine!Completed(r.stage))
         /\ Completed(r, next).experiments =
              IF r.stage = Engine!CREATE_EXPERIMENT THEN r.experiments + 1 ELSE r.experiments
<1>1. Engine!Completed(r.stage) \in Engine!StageCompletion
  BY DEF WorkflowRecord, Engine!WorkflowStage, Engine!Completed, Engine!StageCompletion,
         Engine!NoOutcome
<1>2. Append(r.completions, Engine!Completed(r.stage)) \in Seq(Engine!StageCompletion)
  BY <1>1, RecordFields
<1> DEFINE h == Append(r.completions, Engine!Completed(r.stage))
           n == IF r.stage = Engine!CREATE_EXPERIMENT THEN r.experiments + 1 ELSE r.experiments
<1>3. Completed(r, next) = [r EXCEPT !.stage = next, !.completions = h, !.experiments = n]
  BY DEF Completed, WorkflowRecord
<1>4. h \in Seq(Engine!StageCompletion) /\ n \in Nat
  BY <1>2, RecordFields
<1> HIDE DEF h, n
<1>5. /\ Completed(r, next) \in WorkflowRecord
      /\ Completed(r, next).stage = next
      /\ Completed(r, next).status = r.status
      /\ Completed(r, next).decision = r.decision
      /\ Completed(r, next).reruns = r.reruns
      /\ Completed(r, next).e2e = r.e2e
      /\ Completed(r, next).kernel = r.kernel
      /\ Completed(r, next).completions = h
      /\ Completed(r, next).experiments = n
  BY <1>3, <1>4 DEF WorkflowRecord, Engine!WorkflowStage
<1> QED
  BY <1>5 DEF h, n

\* A hotspot save names the kind of its evidence.
LEMMA HotspotsFields ==
  ASSUME NEW r \in WorkflowRecord, NEW kind \in {"timing", "unavailable"}
  PROVE  /\ Hotspots(r, kind) \in WorkflowRecord
         /\ Hotspots(r, kind).stage = Engine!CLASSIFY_BOTTLENECK
         /\ Hotspots(r, kind).status = r.status
         /\ Hotspots(r, kind).kernel = kind
         /\ Hotspots(r, kind).decision = r.decision
         /\ Hotspots(r, kind).reruns = r.reruns
         /\ Hotspots(r, kind).e2e = r.e2e
         /\ Hotspots(r, kind).completions = Completed(r, Engine!CLASSIFY_BOTTLENECK).completions
         /\ Hotspots(r, kind).experiments = Completed(r, Engine!CLASSIFY_BOTTLENECK).experiments
<1> DEFINE c == Completed(r, Engine!CLASSIFY_BOTTLENECK)
<1>1. /\ c \in WorkflowRecord /\ c.stage = Engine!CLASSIFY_BOTTLENECK /\ c.status = r.status
      /\ c.decision = r.decision /\ c.reruns = r.reruns /\ c.e2e = r.e2e
  BY CompletedFields
<1>2. Hotspots(r, kind) = [c EXCEPT !.kernel = kind]
  BY DEF Hotspots
<1> HIDE DEF c
<1>3. /\ Hotspots(r, kind) \in WorkflowRecord
      /\ Hotspots(r, kind).stage = Engine!CLASSIFY_BOTTLENECK
      /\ Hotspots(r, kind).status = r.status
      /\ Hotspots(r, kind).kernel = kind
      /\ Hotspots(r, kind).decision = r.decision
      /\ Hotspots(r, kind).reruns = r.reruns
      /\ Hotspots(r, kind).e2e = r.e2e
      /\ Hotspots(r, kind).completions = c.completions
      /\ Hotspots(r, kind).experiments = c.experiments
  BY <1>1, <1>2 DEF WorkflowRecord
<1> QED
  BY <1>3 DEF c

\* What the gates say is a decision of the engine, and an acceptance rests on an
\* accepting pre-gate and passed quality.
LEMMA DecisionOfGates ==
  ASSUME NEW gate \in PreGate \cup {"INITIAL"}, NEW result \in QualityResult
  PROVE  /\ Decision(gate, result) \in Engine!GateDecision
         /\ Decision(gate, result).outcome \in Engine!Outcome
         /\ Decision(gate, result).outcome = "ACCEPT" => result = "PASSED"
         /\ gate = "REJECT" => Decision(gate, result).outcome = "REJECT"
  BY DEF Decision, PreGate, QualityResult, Engine!GateDecision, Engine!Outcome,
         Engine!NoStage, Engine!RerunStages

\* A record moved to a stage, with a new history.
Moved(r, stage, history) == [r EXCEPT !.stage = stage, !.completions = history]

\* A record closed, with a new history.
Ended(r, status, decision, history) ==
  [r EXCEPT !.status = status, !.decision = decision, !.completions = history]

\* Moving a record touches its stage and its history only.
LEMMA MovedFields ==
  ASSUME NEW r \in WorkflowRecord, NEW stage \in 1 .. 15,
         NEW history \in Seq(Engine!StageCompletion)
  PROVE  /\ Moved(r, stage, history) \in WorkflowRecord
         /\ Moved(r, stage, history).stage = stage /\ Moved(r, stage, history).completions = history
         /\ Moved(r, stage, history).status = r.status
            /\ Moved(r, stage, history).decision = r.decision
         /\ Moved(r, stage, history).experiments = r.experiments
            /\ Moved(r, stage, history).reruns = r.reruns
         /\ Moved(r, stage, history).e2e = r.e2e /\ Moved(r, stage, history).kernel = r.kernel
  BY DEF Moved, WorkflowRecord, Engine!WorkflowStage

\* Closing a record touches its status, its decision and its history only.
LEMMA EndedFields ==
  ASSUME NEW r \in WorkflowRecord, NEW status \in Statuses,
         NEW decision \in Engine!GateDecision, NEW history \in Seq(Engine!StageCompletion)
  PROVE  /\ Ended(r, status, decision, history) \in WorkflowRecord
         /\ Ended(r, status, decision, history).stage = r.stage
            /\ Ended(r, status, decision, history).completions = history
         /\ Ended(r, status, decision, history).status = status
            /\ Ended(r, status, decision, history).decision = decision
         /\ Ended(r, status, decision, history).experiments = r.experiments
            /\ Ended(r, status, decision, history).reruns = r.reruns
         /\ Ended(r, status, decision, history).e2e = r.e2e
            /\ Ended(r, status, decision, history).kernel = r.kernel
  BY DEF Ended, WorkflowRecord, Statuses

\* A verdict sends the workflow back to a hypothesis or closes it at DECIDE.
LEMMA DecidedFields ==
  ASSUME NEW r \in WorkflowRecord, NEW decision \in Engine!GateDecision, NEW more \in BOOLEAN
  PROVE  LET after == Decided(r, decision, more)
             closed == IF r.stage = Engine!DECIDE THEN r ELSE Completed(r, Engine!DECIDE)
         IN  /\ after \in WorkflowRecord
             /\ after.reruns = r.reruns /\ after.e2e = r.e2e /\ after.kernel = r.kernel
             /\ after.experiments = closed.experiments
             /\ after.completions = Append(closed.completions, Engine!Decided(decision.outcome))
             /\ decision.outcome = "REJECT" /\ more =>
                  /\ after.stage = Engine!GENERATE_HYPOTHESIS
                  /\ after.status = r.status /\ after.decision = r.decision
             /\ ~(decision.outcome = "REJECT" /\ more) =>
                  /\ after.stage = Engine!DECIDE /\ after.decision = decision
                  /\ after.status = Engine!StatusOf(decision.outcome) /\ after.status # "ACTIVE"
<1> DEFINE closed == IF r.stage = Engine!DECIDE THEN r ELSE Completed(r, Engine!DECIDE)
           history == Append(closed.completions, Engine!Decided(decision.outcome))
<1>1. /\ closed \in WorkflowRecord /\ closed.reruns = r.reruns /\ closed.e2e = r.e2e
      /\ closed.kernel = r.kernel /\ closed.status = r.status /\ closed.decision = r.decision
      /\ closed.stage = Engine!DECIDE
  BY CompletedFields
<1>2. Engine!Decided(decision.outcome) \in Engine!StageCompletion
  BY DEF Engine!Decided, Engine!StageCompletion, Engine!GateDecision, Engine!WorkflowStage,
         Engine!Outcome
<1>3. history \in Seq(Engine!StageCompletion)
  BY <1>1, <1>2, RecordFields
<1>4. /\ Engine!StatusOf(decision.outcome) \in Statuses
      /\ Engine!StatusOf(decision.outcome) # "ACTIVE"
  BY DEF Engine!StatusOf, Engine!GateDecision, Statuses
<1>5. Decided(r, decision, more) =
        IF decision.outcome = "REJECT" /\ more
        THEN [closed EXCEPT !.stage = Engine!GENERATE_HYPOTHESIS, !.completions = history]
        ELSE [closed EXCEPT !.status = Engine!StatusOf(decision.outcome),
                            !.decision = decision, !.completions = history]
  BY DEF Decided
<1> DEFINE ended == Engine!StatusOf(decision.outcome)
<1> HIDE DEF closed, history, ended
<1>6. CASE decision.outcome = "REJECT" /\ more
  <2>1. Decided(r, decision, more) =
          Moved(closed, Engine!GENERATE_HYPOTHESIS, history)
    BY <1>5, <1>6 DEF Moved
  <2>2. /\ Decided(r, decision, more) \in WorkflowRecord
        /\ Decided(r, decision, more).reruns = r.reruns
        /\ Decided(r, decision, more).e2e = r.e2e
        /\ Decided(r, decision, more).kernel = r.kernel
        /\ Decided(r, decision, more).experiments = closed.experiments
        /\ Decided(r, decision, more).completions = history
        /\ Decided(r, decision, more).stage = Engine!GENERATE_HYPOTHESIS
        /\ Decided(r, decision, more).status = r.status
        /\ Decided(r, decision, more).decision = r.decision
    <3> DEFINE s == Engine!GENERATE_HYPOTHESIS
    <3>1. s \in 1 .. 15
      OBVIOUS
    <3> HIDE DEF s
    <3>2. Decided(r, decision, more) = Moved(closed, s, history)
      BY <2>1 DEF s
    <3> DEFINE m == Moved(closed, s, history)
    <3>3. /\ m \in WorkflowRecord /\ m.stage = s /\ m.completions = history
          /\ m.status = closed.status /\ m.decision = closed.decision
          /\ m.experiments = closed.experiments /\ m.reruns = closed.reruns
          /\ m.e2e = closed.e2e /\ m.kernel = closed.kernel
      BY <1>1, <1>3, <3>1, MovedFields
    <3> HIDE DEF m
    <3>4. Decided(r, decision, more) = m
      BY <3>2 DEF m
    <3> QED
      BY <1>1, <3>3, <3>4 DEF s
  <2> QED
    BY <2>2, <1>6 DEF closed, history
<1>7. CASE ~(decision.outcome = "REJECT" /\ more)
  <2>1. Decided(r, decision, more) =
          Ended(closed, ended, decision, history)
    BY <1>5, <1>7 DEF ended, Ended
  <2>2. /\ Decided(r, decision, more) \in WorkflowRecord
        /\ Decided(r, decision, more).reruns = r.reruns
        /\ Decided(r, decision, more).e2e = r.e2e
        /\ Decided(r, decision, more).kernel = r.kernel
        /\ Decided(r, decision, more).experiments = closed.experiments
        /\ Decided(r, decision, more).completions = history
        /\ Decided(r, decision, more).stage = Engine!DECIDE
        /\ Decided(r, decision, more).status = ended
        /\ Decided(r, decision, more).decision = decision
    BY <1>1, <1>3, <1>4, <2>1, EndedFields DEF ended
  <2> QED
    BY <2>2, <1>4, <1>7 DEF closed, history, ended
<1> QED
  BY <1>6, <1>7

-----------------------------------------------------------------------------
(***************************************************************************)
(* Executions.                                                             *)
(***************************************************************************)

\* The fields of an active execution are of their types.
LEMMA ExecutionFields ==
  ASSUME NEW x \in ActiveExecution
  PROVE  /\ x.exp \in Targets /\ x.sample \in Nat /\ x.gate \in PreGate \cup {"INITIAL"}
         /\ x.base \in Targets /\ x.quality \in BOOLEAN /\ x.reruns \in Nat
         /\ x.running \in BOOLEAN /\ x.extended \in BOOLEAN
BY DEF ActiveExecution

\* The absent execution is of its type.
LEMMA NoExecutionTyped == NoExecution \in ActiveExecution /\ NoExecution.exp = 0
BY LoopAssumption DEF NoExecution, ActiveExecution, PreGate

\* What Execute stores of the measurement it takes.
FirstRun(e, n, gate) ==
  [NoExecution EXCEPT !.exp = e, !.sample = n, !.gate = gate, !.quality = (gate = "ACCEPT")]

\* A first execution was not measured again, and its baseline is the original one.
LEMMA FirstRunFields ==
  ASSUME NEW e \in Experiments, NEW n \in Nat, NEW gate \in PreGate
  PROVE  /\ FirstRun(e, n, gate) \in ActiveExecution
         /\ FirstRun(e, n, gate).exp = e /\ FirstRun(e, n, gate).sample = n
         /\ FirstRun(e, n, gate).gate = gate /\ FirstRun(e, n, gate).base = Baseline
         /\ FirstRun(e, n, gate).reruns = 0 /\ ~FirstRun(e, n, gate).running
<1> DEFINE q == gate = "ACCEPT"
<1>1. q \in BOOLEAN /\ (gate = "ACCEPT") = q
  BY DEF q
<1> HIDE DEF q
<1>2. FirstRun(e, n, gate) =
        [NoExecution EXCEPT !.exp = e, !.sample = n, !.gate = gate, !.quality = q]
  BY <1>1 DEF FirstRun
<1>3. e \in Targets /\ 0 \in Targets
  BY LoopAssumption
<1>4. /\ NoExecution \in ActiveExecution /\ NoExecution.base = 0 /\ NoExecution.reruns = 0
      /\ ~NoExecution.running
  BY NoExecutionTyped DEF NoExecution
<1> QED
  BY <1>1, <1>2, <1>3, <1>4 DEF ActiveExecution

\* What AcquireLock makes of an execution whose baseline was replaced.
Renewed(x, gate, base) == [x EXCEPT !.gate = gate, !.base = base, !.quality = (gate = "ACCEPT")]

\* A renewed pre-gate keeps the measurement.
LEMMA RenewedFields ==
  ASSUME NEW x \in ActiveExecution, NEW gate \in PreGate, NEW base \in Targets
  PROVE  /\ Renewed(x, gate, base) \in ActiveExecution
         /\ Renewed(x, gate, base).exp = x.exp /\ Renewed(x, gate, base).sample = x.sample
         /\ Renewed(x, gate, base).gate = gate /\ Renewed(x, gate, base).base = base
         /\ Renewed(x, gate, base).reruns = x.reruns
         /\ Renewed(x, gate, base).running = x.running
<1> DEFINE q == gate = "ACCEPT"
<1>1. q \in BOOLEAN /\ (gate = "ACCEPT") = q
  BY DEF q
<1> HIDE DEF q
<1>2. Renewed(x, gate, base) = [x EXCEPT !.gate = gate, !.base = base, !.quality = q]
  BY <1>1 DEF Renewed
<1> QED
  BY <1>1, <1>2, ExecutionFields DEF ActiveExecution

\* What RunRerun stores.
Remeasured(x, n, gate) ==
  [x EXCEPT !.sample = n, !.gate = gate, !.quality = (gate = "ACCEPT"), !.reruns = MaxReruns,
            !.running = FALSE]

\* A rerun moves the pointers to its sample and uses up the reruns.
LEMMA RemeasuredFields ==
  ASSUME NEW x \in ActiveExecution, NEW n \in Nat, NEW gate \in PreGate
  PROVE  /\ Remeasured(x, n, gate) \in ActiveExecution
         /\ Remeasured(x, n, gate).exp = x.exp /\ Remeasured(x, n, gate).sample = n
         /\ Remeasured(x, n, gate).gate = gate /\ Remeasured(x, n, gate).base = x.base
         /\ Remeasured(x, n, gate).reruns = MaxReruns
         /\ ~Remeasured(x, n, gate).running
<1> DEFINE q == gate = "ACCEPT"
           no == FALSE
<1>1. q \in BOOLEAN /\ (gate = "ACCEPT") = q /\ no \in BOOLEAN /\ FALSE = no
  BY DEF q, no
<1> HIDE DEF q, no
<1>2. Remeasured(x, n, gate) =
        [x EXCEPT !.sample = n, !.gate = gate, !.quality = q, !.reruns = MaxReruns,
                  !.running = no]
  BY <1>1 DEF Remeasured
<1>3. MaxReruns \in Nat
  BY DEF MaxReruns
<1>4. /\ Remeasured(x, n, gate) \in ActiveExecution
      /\ Remeasured(x, n, gate).exp = x.exp /\ Remeasured(x, n, gate).sample = n
      /\ Remeasured(x, n, gate).gate = gate /\ Remeasured(x, n, gate).base = x.base
      /\ Remeasured(x, n, gate).reruns = MaxReruns
      /\ Remeasured(x, n, gate).running = no
  BY <1>1, <1>2, <1>3, ExecutionFields DEF ActiveExecution
<1> QED
  BY <1>1, <1>4

\* What RunPair stores.
PairMeasured(x, n, gate) ==
  [x EXCEPT !.sample = n, !.gate = gate, !.base = x.exp, !.quality = (gate = "ACCEPT"),
            !.extended = TRUE]

\* A pair moves the pointers to its sample and the baseline to its own.
LEMMA PairMeasuredFields ==
  ASSUME NEW x \in ActiveExecution, NEW n \in Nat, NEW gate \in PreGate
  PROVE  /\ PairMeasured(x, n, gate) \in ActiveExecution
         /\ PairMeasured(x, n, gate).exp = x.exp /\ PairMeasured(x, n, gate).sample = n
         /\ PairMeasured(x, n, gate).gate = gate /\ PairMeasured(x, n, gate).base = x.exp
         /\ PairMeasured(x, n, gate).reruns = x.reruns
         /\ PairMeasured(x, n, gate).running = x.running
<1> DEFINE q == gate = "ACCEPT"
<1>1. q \in BOOLEAN /\ (gate = "ACCEPT") = q
  BY DEF q
<1> HIDE DEF q
<1>2. PairMeasured(x, n, gate) =
        [x EXCEPT !.sample = n, !.gate = gate, !.base = x.exp, !.quality = q,
            !.extended = TRUE]
  BY <1>1 DEF PairMeasured
<1> QED
  BY <1>1, <1>2, ExecutionFields DEF ActiveExecution

\* What AnnounceRerun stores.
Running(x) == [x EXCEPT !.running = TRUE]

\* An announcement moves no pointer.
LEMMA RunningFields ==
  ASSUME NEW x \in ActiveExecution
  PROVE  /\ Running(x) \in ActiveExecution
         /\ Running(x).exp = x.exp /\ Running(x).sample = x.sample /\ Running(x).gate = x.gate
         /\ Running(x).base = x.base /\ Running(x).reruns = x.reruns
BY DEF Running, ActiveExecution

\* What PublishExecution stores.
Published(x) == [x EXCEPT !.sample = 0, !.gate = "INITIAL"]

\* A published execution points to the first result's files.
LEMMA PublishedFields ==
  ASSUME NEW x \in ActiveExecution
  PROVE  /\ Published(x) \in ActiveExecution
         /\ Published(x).exp = x.exp /\ Published(x).sample = 0
         /\ Published(x).gate = "INITIAL"
         /\ Published(x).base = x.base /\ Published(x).reruns = x.reruns
         /\ Published(x).running = x.running
BY DEF Published, ActiveExecution

\* The execution with what its pointers name, given the files of first results.
ResolvedIn(x, first) ==
  [x EXCEPT !.sample = IF @ = 0 THEN first[x.exp].sample ELSE @,
            !.gate = IF @ = "INITIAL" THEN first[x.exp].gate ELSE @]

\* Files that are read resolve to a measurement and its pre-gate.
LEMMA ResolvedInFields ==
  ASSUME NEW first \in [Experiments -> Result], NEW x \in ActiveExecution, x.exp \in Experiments
  PROVE  /\ ResolvedIn(x, first) \in ActiveExecution
         /\ ResolvedIn(x, first).exp = x.exp /\ ResolvedIn(x, first).base = x.base
         /\ ResolvedIn(x, first).reruns = x.reruns /\ ResolvedIn(x, first).running = x.running
         /\ ResolvedIn(x, first).sample = IF x.sample = 0 THEN first[x.exp].sample ELSE x.sample
         /\ ResolvedIn(x, first).gate = IF x.gate = "INITIAL" THEN first[x.exp].gate ELSE x.gate
         /\ ResolvedIn(x, first).gate \in PreGate /\ ResolvedIn(x, first).gate # "INITIAL"
         /\ ResolvedIn(x, first).sample = 0 => first[x.exp].sample = 0
<1>1. first[x.exp].sample \in Nat /\ first[x.exp].gate \in PreGate
  BY DEF Result
<1> DEFINE n == IF x.sample = 0 THEN first[x.exp].sample ELSE x.sample
           gate == IF x.gate = "INITIAL" THEN first[x.exp].gate ELSE x.gate
<1>2. n \in Nat /\ gate \in PreGate
  BY <1>1, ExecutionFields
<1>3. ResolvedIn(x, first) = [x EXCEPT !.sample = n, !.gate = gate]
  BY DEF ResolvedIn, ActiveExecution
<1> HIDE DEF n, gate
<1>4. /\ ResolvedIn(x, first) \in ActiveExecution
      /\ ResolvedIn(x, first).exp = x.exp /\ ResolvedIn(x, first).base = x.base
      /\ ResolvedIn(x, first).reruns = x.reruns /\ ResolvedIn(x, first).running = x.running
      /\ ResolvedIn(x, first).sample = n /\ ResolvedIn(x, first).gate = gate
  BY <1>2, <1>3, ExecutionFields DEF ActiveExecution
<1>5. gate # "INITIAL"
  BY <1>2 DEF PreGate
<1> QED
  BY <1>2, <1>4, <1>5 DEF n, gate

\* An execution without pointers to the first result's files resolves to itself.
LEMMA ResolvedIsIt ==
  ASSUME NEW first \in [Experiments -> Result], NEW x \in ActiveExecution, x.exp \in Experiments,
         x.sample = 0 => first[x.exp].sample = 0, x.gate # "INITIAL"
  PROVE  ResolvedIn(x, first) = x
<1> DEFINE n == IF x.sample = 0 THEN first[x.exp].sample ELSE x.sample
           gate == IF x.gate = "INITIAL" THEN first[x.exp].gate ELSE x.gate
<1>1. n = x.sample /\ gate = x.gate
  OBVIOUS
<1>2. ResolvedIn(x, first) = [x EXCEPT !.sample = n, !.gate = gate]
  BY DEF ResolvedIn, ActiveExecution
<1> HIDE DEF n, gate
<1> QED
  BY <1>1, <1>2 DEF ActiveExecution

\* Resolved is resolution with the results in the files.
LEMMA ResolvedHere == \A x : Resolved(x) = ResolvedIn(x, initial)
BY DEF Resolved, ResolvedIn

-----------------------------------------------------------------------------
(***************************************************************************)
(* Steps that do little.                                                   *)
(***************************************************************************)

\* The run ends and changes no file of the task.
Quit(d) ==
  \/ Pause(d) \/ AwaitApproval(d) \/ AskAgain(d) \/ RefuseResume(d) \/ RefuseMeasurement(d)
  \/ RemainsInconclusive(d) \/ AwaitQuality(d) \/ RefuseQuality(d)

\* The run goes on with the profile of its target.
Profile(d) == ReuseProfile(d) \/ OpenProfile(d) \/ RunRaw(d) \/ UseReceipt(d) \/ Transport(d)

\* A driver that quits leaves, and leaves the files as they are.
LEMMA QuitFrame ==
  ASSUME NEW d, Quit(d)
  PROVE  Leave(d) /\ UNCHANGED << task, record, files, ghosts >>
BY DEF Quit, Pause, AwaitApproval, AskAgain, RefuseResume, RefuseMeasurement,
       RemainsInconclusive, AwaitQuality, RefuseQuality

\* So does a driver that is killed; the kill is counted.
LEMMA CrashFrame ==
  ASSUME NEW d, Crash(d)
  PROVE  /\ Leave(d) /\ crashes' = crashes + 1
         /\ UNCHANGED << task, record, files, samples, again, verdicts, overlaps >>
BY DEF Crash

\* Leaving resets what the driver held.
LEMMA LeaveFrame ==
  ASSUME NEW d, Leave(d)
  PROVE  /\ pc' = [pc EXCEPT ![d] = "idle"]
         /\ held' = [held EXCEPT ![d] = InitialRecord]
         /\ active' = [active EXCEPT ![d] = NoExecution]
         /\ target' = [target EXCEPT ![d] = Baseline]
         /\ lock' = lock \ {d}
         /\ seen' = [seen EXCEPT ![d] = << >>]
         /\ UNCHANGED << profiles, receipts, rawProfile, transports >>
BY DEF Leave, Goto, Forget

\* A profile step goes from one step of the profile to another, and changes no other file.
LEMMA ProfileFrame ==
  ASSUME NEW d, Profile(d)
  PROVE  /\ \E from, to \in Profiling :
              /\ pc[d] = from /\ pc' = [pc EXCEPT ![d] = to]
              /\ from \in Asking \cup {"profile", "raw"} /\ to \in Profiling \ {"profile"}
         /\ UNCHANGED << task, record, files, lock, held, active, target, ghosts >>
<1>1. ASSUME NEW from \in Asking \cup {"profile", "raw"}, NEW to \in Profiling \ {"profile"},
             NEW Act, ProfileStep(d, from, to, Act)
      PROVE  /\ pc[d] = from /\ pc' = [pc EXCEPT ![d] = to]
             /\ UNCHANGED << task, record, files, lock, held, active, target, ghosts >>
  BY <1>1 DEF ProfileStep, At, Goto
<1> QED
  BY <1>1 DEF Profile, ReuseProfile, OpenProfile, RunRaw, UseReceipt, Transport, Profiling, Asking

-----------------------------------------------------------------------------
(***************************************************************************)
(* Types.                                                                  *)
(***************************************************************************)

\* The types of the proofs are those of the run.
LEMMA TypedMeansTypeOK == Typed => TypeOK
BY DEF Typed, TypeOK, FilesTyped, DriversTyped, GhostsTyped, AttemptsTyped

\* The first record is of its type.
LEMMA InitialRecordTyped ==
  /\ InitialRecord \in WorkflowRecord /\ InitialRecord.stage = Engine!CREATE_TASK
  /\ InitialRecord.status = "ACTIVE"
<1>1. << >> \in Seq(Engine!StageCompletion) /\ NoMeasurement \in [exp : Targets, sample : Nat]
  BY LoopAssumption DEF NoMeasurement
<1> QED
  BY <1>1 DEF InitialRecord, WorkflowRecord, Engine!WorkflowStage

\* The first state is of its types.
LEMMA InitTyped == Init => Typed
<1> SUFFICES ASSUME Init PROVE Typed
  OBVIOUS
<1>1. FilesTyped
  BY InitialRecordTyped, NoExecutionTyped, LoopAssumption
  DEF Init, FilesTyped, NoRequest, Result, PreGate, QualityState
<1>2. DriversTyped
  BY InitialRecordTyped, NoExecutionTyped, LoopAssumption DEF Init, DriversTyped, Label
<1>3. GhostsTyped
  BY DEF Init, GhostsTyped
<1>4. AttemptsTyped
  BY FailuresAssumption
  DEF Init, AttemptsTyped, ProfileInit, ProfileTypeOK, MaxAttempts, MaxProfileAttempts, Asking
<1>5. Proposed
  BY InitialRecordTyped DEF Init, Proposed, OnExperiment, InLock, Profiling, Asking
<1>6. QualityKnown
  BY DEF Init, QualityKnown
<1> QED
  BY <1>1, <1>2, <1>3, <1>4, <1>5, <1>6 DEF Typed

\* Closing the stage a driver works on, with its measurement if that is E2E_VALIDATION.
LEMMA ClosedFields ==
  ASSUME Typed, NEW d \in Drivers, held[d].stage < Engine!DECIDE,
         held[d].stage # Engine!CREATE_EXPERIMENT
  PROVE  /\ Closed(d) \in WorkflowRecord
         /\ Closed(d).stage = held[d].stage + 1
         /\ Closed(d).status = held[d].status /\ Closed(d).decision = held[d].decision
         /\ Closed(d).reruns = held[d].reruns
         /\ Closed(d).experiments = held[d].experiments
         /\ Closed(d).kernel = held[d].kernel
         /\ Closed(d).completions =
              Append(held[d].completions, Engine!Completed(held[d].stage))
         /\ Closed(d).e2e = IF held[d].stage = Engine!E2E_VALIDATION
                            THEN [exp |-> active[d].exp, sample |-> active[d].sample]
                            ELSE held[d].e2e
<1> DEFINE next == Completed(held[d], held[d].stage + 1)
           evidence == [exp |-> active[d].exp, sample |-> active[d].sample]
<1>0. held[d] \in WorkflowRecord
  BY DEF Typed, DriversTyped
<1>1. held[d].stage \in 1 .. 15 /\ held[d].stage + 1 \in 1 .. 15
  BY <1>0, RecordFields
<1>2. /\ next \in WorkflowRecord
      /\ next.stage = held[d].stage + 1
      /\ next.status = held[d].status /\ next.decision = held[d].decision
      /\ next.reruns = held[d].reruns
      /\ next.experiments = held[d].experiments
      /\ next.kernel = held[d].kernel /\ next.e2e = held[d].e2e
      /\ next.completions = Append(held[d].completions, Engine!Completed(held[d].stage))
  BY <1>0, <1>1, CompletedFields
<1>3. evidence \in [exp : Targets, sample : Nat]
  BY ExecutionFields DEF Typed, DriversTyped
<1>4. Closed(d) = IF held[d].stage = Engine!E2E_VALIDATION
                  THEN [next EXCEPT !.e2e = evidence] ELSE next
  BY DEF Closed
<1> HIDE DEF next, evidence
<1>5. CASE held[d].stage = Engine!E2E_VALIDATION
  <2>1. Closed(d) = [next EXCEPT !.e2e = evidence]
    BY <1>4, <1>5
  <2>2. /\ Closed(d) \in WorkflowRecord
        /\ Closed(d).stage = next.stage
        /\ Closed(d).status = next.status /\ Closed(d).decision = next.decision
        /\ Closed(d).reruns = next.reruns
        /\ Closed(d).experiments = next.experiments
        /\ Closed(d).kernel = next.kernel /\ Closed(d).e2e = evidence
        /\ Closed(d).completions = next.completions
    BY <1>2, <1>3, <2>1 DEF WorkflowRecord
  <2> QED
    BY <1>2, <1>5, <2>2 DEF evidence
<1>6. CASE held[d].stage # Engine!E2E_VALIDATION
  BY <1>2, <1>4, <1>6
<1> QED
  BY <1>5, <1>6

\* The record of an early rejection rests on the measurement that was rejected.
Rejected(r, e, n) == [r EXCEPT !.e2e = [exp |-> e, sample |-> n]]

\* Naming the measurement touches nothing else of the record.
LEMMA RejectedFields ==
  ASSUME NEW r \in WorkflowRecord, NEW e \in Targets, NEW n \in Nat
  PROVE  /\ Rejected(r, e, n) \in WorkflowRecord
         /\ Rejected(r, e, n).stage = r.stage /\ Rejected(r, e, n).status = r.status
         /\ Rejected(r, e, n).decision = r.decision /\ Rejected(r, e, n).reruns = r.reruns
         /\ Rejected(r, e, n).experiments = r.experiments
         /\ Rejected(r, e, n).kernel = r.kernel
         /\ Rejected(r, e, n).completions = r.completions
         /\ Rejected(r, e, n).e2e = [exp |-> e, sample |-> n]
BY DEF Rejected, WorkflowRecord

\* The record a rerun writes.
Reopened(r) == [r EXCEPT !.stage = Engine!E2E_VALIDATION, !.reruns = @ + 1]

\* Reopening touches the stage and the count of reruns only.
LEMMA ReopenedFields ==
  ASSUME NEW r \in WorkflowRecord
  PROVE  /\ Reopened(r) \in WorkflowRecord
         /\ Reopened(r).stage = Engine!E2E_VALIDATION /\ Reopened(r).status = r.status
         /\ Reopened(r).kernel = r.kernel /\ Reopened(r).e2e = r.e2e
<1> DEFINE n == r.reruns + 1
<1>1. n \in Nat
  BY RecordFields
<1> DEFINE s == Engine!E2E_VALIDATION
<1>2. Reopened(r) = [r EXCEPT !.stage = s, !.reruns = n] /\ s \in 1 .. 15
  BY DEF Reopened, WorkflowRecord
<1> HIDE DEF n, s
<1>3. /\ Reopened(r) \in WorkflowRecord
      /\ Reopened(r).stage = s /\ Reopened(r).status = r.status
      /\ Reopened(r).kernel = r.kernel /\ Reopened(r).e2e = r.e2e
  BY <1>1, <1>2 DEF WorkflowRecord, Engine!WorkflowStage
<1> QED
  BY <1>3 DEF s

\* A driver that works on an experiment has a proposed one at hand.
LEMMA AtHand ==
  ASSUME Typed, NEW d \in Drivers, OnExperiment(d)
  PROVE  active[d] \in ActiveExecution /\ active[d].exp \in Experiments /\ spec \in Experiments
BY LoopAssumption, ExecutionFields DEF Typed, FilesTyped, DriversTyped, Proposed

\* What a verdict writes, by the decision of the gates.
LEMMA GiveFrame ==
  ASSUME Typed, NEW d \in Drivers, OnExperiment(d), NEW r \in WorkflowRecord,
         NEW result \in QualityResult, Give(d, r, result)
  PROVE  \E decision \in Engine!GateDecision, more \in BOOLEAN, verdict \in Verdict :
           /\ decision = Decision(active[d].gate, result)
           /\ record' = Decided(r, decision, more)
           /\ record' \in WorkflowRecord
           /\ record'.e2e = r.e2e /\ record'.kernel = r.kernel
           /\ \/ record'.stage = Engine!GENERATE_HYPOTHESIS /\ record'.status = r.status
              \/ record'.stage = Engine!DECIDE /\ record'.status # "ACTIVE"
           /\ verdicts' = Append(verdicts, verdict)
           /\ verdict.exp = active[d].exp /\ verdict.sample = active[d].sample
           /\ verdict.outcome = decision.outcome
           /\ Leave(d)
           /\ UNCHANGED << task, files, samples, again, crashes, overlaps >>
<1> DEFINE decision == Decision(active[d].gate, result)
           more == CanContinue(d, decision)
           verdict == [ exp |-> active[d].exp, outcome |-> decision.outcome,
                        quality |-> result, sample |-> active[d].sample,
                        base |-> active[d].base ]
<1>1. /\ record' = Decided(r, decision, more)
      /\ verdicts' = Append(verdicts, verdict)
      /\ Leave(d)
      /\ UNCHANGED << task, files, samples, again, crashes, overlaps >>
  BY DEF Give
<1>2. active[d] \in ActiveExecution /\ active[d].exp \in Experiments
  BY AtHand
<1>3. decision \in Engine!GateDecision /\ decision.outcome \in Engine!Outcome
  BY <1>2, ExecutionFields, DecisionOfGates
<1>4. more \in BOOLEAN
  BY DEF CanContinue
<1>5. /\ verdict \in Verdict
      /\ verdict.exp = active[d].exp /\ verdict.sample = active[d].sample
      /\ verdict.outcome = decision.outcome
  BY <1>2, <1>3, ExecutionFields DEF Verdict
<1> HIDE DEF verdict, more, decision
<1>6. /\ record' \in WorkflowRecord
      /\ record'.e2e = r.e2e /\ record'.kernel = r.kernel
      /\ \/ record'.stage = Engine!GENERATE_HYPOTHESIS /\ record'.status = r.status
         \/ record'.stage = Engine!DECIDE /\ record'.status # "ACTIVE"
  BY <1>1, <1>3, <1>4, DecidedFields
<1> QED
  BY <1>1, <1>3, <1>4, <1>5, <1>6 DEF decision

\* The verdict on quality is a quality result when it is judged.
LEMMA DecideGives ==
  ASSUME NEW d, Decide(d), task.hardened => QualityOf(d) \in QualityResult
  PROVE  \E result \in QualityResult :
           Give(d, held[d], result) /\ (task.hardened => result = QualityOf(d))
BY DEF Decide

\* An early rejection gives a verdict on the record with its measurement.
LEMMA RejectEarlyGives ==
  ASSUME NEW d, RejectEarly(d)
  PROVE  /\ held[d].stage = Engine!E2E_VALIDATION /\ pc[d] = "profiled"
         /\ active[d].gate = "REJECT"
         /\ Give(d, Rejected(held[d], active[d].exp, active[d].sample), "SKIPPED")
BY DEF RejectEarly, Judging, At, Rejected

\* That verdict is one of the verdicts Give is proved about.
LEMMA RejectEarlyTyped ==
  ASSUME Typed, NEW d \in Drivers, RejectEarly(d)
  PROVE  \E r \in WorkflowRecord, result \in QualityResult : Give(d, r, result)
<1>1. Give(d, Rejected(held[d], active[d].exp, active[d].sample), "SKIPPED")
  BY RejectEarlyGives
<1>2. held[d] \in WorkflowRecord /\ active[d] \in ActiveExecution
  BY DEF Typed, DriversTyped
<1>3. Rejected(held[d], active[d].exp, active[d].sample) \in WorkflowRecord
  BY <1>2, ExecutionFields, RejectedFields
<1> QED
  BY <1>1, <1>3 DEF QualityResult

\* What a driver reads inside the lock, and what it writes back.
LEMMA AcquireFields ==
  ASSUME Typed, NEW d \in Drivers, AcquireLock(d)
  PROVE  \E x \in ActiveExecution :
           /\ x.exp = execution.exp /\ x.exp \in Experiments /\ x.exp = active[d].exp
           /\ x.base = paired /\ x.gate \in PreGate
           /\ x.reruns = execution.reruns /\ x.running = execution.running
           /\ x.sample = Resolved(execution).sample
           /\ active' = [active EXCEPT ![d] = x]
           /\ execution' \in ActiveExecution
           /\ \/ x = Resolved(execution) /\ execution' = execution
              \/ execution.base # paired /\ execution' = x
<1>1. /\ execution \in ActiveExecution /\ execution.exp = active[d].exp
      /\ initial \in [Experiments -> Result] /\ paired \in Targets
  BY DEF AcquireLock, Typed, FilesTyped
<1>2. execution.exp \in Experiments
  BY <1>1, AtHand DEF AcquireLock, At, OnExperiment
<1>3. /\ Resolved(execution) \in ActiveExecution
      /\ Resolved(execution).exp = execution.exp /\ Resolved(execution).base = execution.base
      /\ Resolved(execution).reruns = execution.reruns
      /\ Resolved(execution).running = execution.running
      /\ Resolved(execution).gate \in PreGate
  BY <1>1, <1>2, ResolvedInFields, ResolvedHere
<1>4. PICK x \in Refreshed(Resolved(execution)) :
        /\ active' = [active EXCEPT ![d] = x]
        /\ execution' = IF x.base = execution.base THEN execution ELSE x
  BY DEF AcquireLock
<1>5. CASE execution.base = paired
  <2>1. x = Resolved(execution)
    BY <1>3, <1>4, <1>5 DEF Refreshed
  <2> QED
    BY <1>1, <1>2, <1>3, <1>4, <1>5, <2>1
<1>6. CASE execution.base # paired
  <2>1. PICK gate \in PreGate : x = Renewed(Resolved(execution), gate, paired)
    BY <1>3, <1>4, <1>6 DEF Refreshed, Renewed
  <2>2. /\ x \in ActiveExecution
        /\ x.exp = execution.exp /\ x.sample = Resolved(execution).sample
        /\ x.gate = gate /\ x.base = paired
        /\ x.reruns = execution.reruns /\ x.running = execution.running
    BY <1>1, <1>3, <2>1, RenewedFields
  <2>3. execution' = x
    BY <1>4, <1>6, <2>2
  <2> QED
    BY <1>1, <1>2, <1>4, <1>6, <2>2, <2>3
<1> QED
  BY <1>5, <1>6

\* The rerun of a driver, in the terms of its execution.
LEMMA RunRerunFields ==
  ASSUME Typed, NEW d \in Drivers, RunRerun(d)
  PROVE  \E x \in ActiveExecution :
           /\ active' = [active EXCEPT ![d] = x] /\ execution' = x
           /\ execution' \in ActiveExecution
           /\ x.exp = active[d].exp /\ x.exp \in Experiments
           /\ x.sample = samples[x.exp] + 1 /\ x.sample # 0
           /\ x.gate \in PreGate /\ x.base = active[d].base /\ ~x.running
<1>1. active[d] \in ActiveExecution /\ active[d].exp \in Experiments
  BY AtHand DEF RunRerun, Locked, At, OnExperiment, InLock
<1>2. samples[active[d].exp] + 1 \in Nat \ {0}
  BY <1>1 DEF Typed, GhostsTyped
<1>3. PICK gate \in PreGate :
        active' = [active EXCEPT ![d] = Remeasured(@, samples[active[d].exp] + 1, gate)]
  BY DEF RunRerun, Remeasured
<1> DEFINE x == Remeasured(active[d], samples[active[d].exp] + 1, gate)
<1>4. active' = [active EXCEPT ![d] = x] /\ active'[d] = x
  BY <1>3 DEF Typed, DriversTyped
<1>5. execution' = x
  BY <1>4 DEF RunRerun
<1>6. /\ x \in ActiveExecution
      /\ x.exp = active[d].exp /\ x.sample = samples[active[d].exp] + 1
      /\ x.gate = gate /\ x.base = active[d].base /\ ~x.running
  BY <1>1, <1>2, RemeasuredFields
<1> HIDE DEF x
<1> QED
  BY <1>1, <1>2, <1>4, <1>5, <1>6

\* The pair of a driver, in the terms of its execution.
LEMMA RunPairFields ==
  ASSUME Typed, NEW d \in Drivers, RunPair(d)
  PROVE  \E x \in ActiveExecution :
           /\ active' = [active EXCEPT ![d] = x]
           /\ x.exp = active[d].exp /\ x.exp \in Experiments
           /\ x.sample = samples[x.exp] + 1 /\ x.sample # 0
           /\ x.gate \in PreGate /\ x.base = x.exp /\ paired' = x.exp
           /\ x.running = active[d].running
<1>1. active[d] \in ActiveExecution /\ active[d].exp \in Experiments
  BY AtHand DEF RunPair, Locked, At, OnExperiment, InLock
<1>2. samples[active[d].exp] + 1 \in Nat \ {0}
  BY <1>1 DEF Typed, GhostsTyped
<1>3. PICK gate \in PreGate :
        active' = [active EXCEPT ![d] = PairMeasured(active[d], samples[active[d].exp] + 1, gate)]
  BY DEF RunPair, PairMeasured, Typed, DriversTyped
<1> DEFINE x == PairMeasured(active[d], samples[active[d].exp] + 1, gate)
<1>6. /\ x \in ActiveExecution
      /\ x.exp = active[d].exp /\ x.sample = samples[active[d].exp] + 1
      /\ x.gate = gate /\ x.base = active[d].exp /\ x.running = active[d].running
  BY <1>1, <1>2, PairMeasuredFields
<1>7. paired' = active[d].exp
  BY DEF RunPair
<1> HIDE DEF x
<1> QED
  BY <1>1, <1>2, <1>3, <1>6, <1>7 DEF x

\* Every step keeps the types of the files.
LEMMA FilesStep ==
  ASSUME Typed, [Next]_vars
  PROVE  FilesTyped'
<1>1. ASSUME NEW d \in Drivers, Drive(d) PROVE FilesTyped'
  <2>1. CASE Load(d) \/ DiscoverHotspots(d) \/ Conclude(d) \/ BeginResume(d) \/ NoRerun(d) \/
             NoPair(d) \/ ReleaseLock(d) \/ PassE2E(d)
    BY <2>1
       DEF Load, DiscoverHotspots, Dispatched, Conclude, BeginResume, NoRerun, Locked,
           NoPair, ReleaseLock, PassE2E, Judging, Typed, FilesTyped, files
  <2>2. CASE RunStage(d)
    BY <2>2, CompletedFields
       DEF RunStage, Dispatched, SaveRecord, DriversTyped, Typed, FilesTyped, files
  <2>3. CASE Quit(d)
    BY <2>3, QuitFrame DEF Typed, FilesTyped, files
  <2>4. CASE AnswerUnavailable(d)
    BY <2>4 DEF AnswerUnavailable, Dispatched, Typed, FilesTyped, files
  <2>5. CASE SaveUnavailable(d)
    BY <2>5, HotspotsFields
       DEF SaveUnavailable, SaveRecord, DriversTyped, Typed, FilesTyped, files
  <2>6. CASE SaveHotspots(d)
    BY <2>6, HotspotsFields
       DEF SaveHotspots, SaveRecord, DriversTyped, Typed, FilesTyped, files
  <2>7. CASE Profile(d)
    BY <2>7, ProfileFrame DEF Typed, FilesTyped, files
  <2>8. CASE Execute(d)
    <3>1. spec \in Experiments
      BY <2>8, LoopAssumption DEF Execute, Typed, FilesTyped
    <3>2. PICK gate \in PreGate :
            initial' = [initial EXCEPT ![spec] = [sample |-> samples[spec] + 1, gate |-> gate]]
      BY <2>8 DEF Execute
    <3>3. [sample |-> samples[spec] + 1, gate |-> gate] \in Result
      BY <3>1 DEF Result, Typed, GhostsTyped
    <3>4. initial' \in [Experiments -> Result]
      BY <3>2, <3>3 DEF Typed, FilesTyped
    <3> QED
      BY <2>8, <3>4 DEF Execute, Typed, FilesTyped
  <2>9. CASE CloseStage(d) \/ AcceptE2E(d)
    <3>1. held[d].stage < Engine!DECIDE /\ held[d].stage # Engine!CREATE_EXPERIMENT
      BY <2>9 DEF CloseStage, AcceptE2E, Closes
    <3>2. Closed(d) \in WorkflowRecord
      BY <3>1, ClosedFields
    <3> QED
      BY <2>9, <3>2 DEF CloseStage, AcceptE2E, SaveRecord, Typed, FilesTyped, files
  <2>10. CASE PublishExecution(d)
    <3>1. execution' = Published(active[d]) /\ active[d] \in ActiveExecution
      BY <2>10 DEF PublishExecution, Published, Typed, DriversTyped
    <3> QED
      BY <2>10, <3>1, PublishedFields DEF PublishExecution, Typed, FilesTyped
  <2>11. CASE AcquireLock(d)
    <3>1. execution' \in ActiveExecution
      BY <2>11, AcquireFields DEF Typed, FilesTyped
    <3> QED
      BY <2>11, <3>1 DEF AcquireLock, Typed, FilesTyped
  <2>12. CASE RequestRerun(d)
    <3>1. Dir("rerun", d) \in {"rerun", "pair"} \X Experiments
      BY <2>12, AtHand DEF RequestRerun, Locked, At, OnExperiment, InLock, Dir
    <3> QED
      BY <2>12, <3>1 DEF RequestRerun, Locked, Typed, FilesTyped
  <2>13. CASE AnnounceRerun(d)
    <3>1. active'[d] = Running(active[d]) /\ active[d] \in ActiveExecution
      BY <2>13 DEF AnnounceRerun, Running, Typed, DriversTyped
    <3> QED
      BY <2>13, <3>1, RunningFields DEF AnnounceRerun, Locked, Typed, FilesTyped
  <2>14. CASE RunRerun(d)
    <3>1. execution' \in ActiveExecution
      BY <2>14, RunRerunFields
    <3> QED
      BY <2>14, <3>1 DEF RunRerun, Locked, Typed, FilesTyped
  <2>15. CASE SaveRerun(d)
    <3>1. record' = Reopened(held[d]) /\ held[d] \in WorkflowRecord
      BY <2>15 DEF SaveRerun, SaveRecord, Reopened, Typed, DriversTyped
    <3> QED
      BY <2>15, <3>1, ReopenedFields DEF SaveRerun, Locked, Typed, FilesTyped
  <2>16. CASE RequestPair(d)
    <3>1. Dir("pair", d) \in {"rerun", "pair"} \X Experiments
      BY <2>16, AtHand DEF RequestPair, Locked, At, OnExperiment, InLock, Dir
    <3> QED
      BY <2>16, <3>1 DEF RequestPair, Locked, Typed, FilesTyped
  <2>17. CASE RunPair(d)
    <3>1. active[d].exp \in Targets
      BY ExecutionFields DEF Typed, DriversTyped
    <3> QED
      BY <2>17, <3>1 DEF RunPair, Locked, Typed, FilesTyped
  <2>18. CASE SavePair(d)
    BY <2>18 DEF SavePair, Locked, DriversTyped, Typed, FilesTyped, files
  <2>19. CASE RejectEarly(d)
    <3>1. PICK r \in WorkflowRecord, result \in QualityResult : Give(d, r, result)
      BY <2>19, RejectEarlyTyped
    <3>2. OnExperiment(d)
      BY <2>19 DEF RejectEarly, Judging, At, OnExperiment, Profiling
    <3> QED
      BY <3>1, <3>2, GiveFrame DEF Typed, FilesTyped, files
  <2>20. CASE StartQuality(d)
    <3>1. quality' \in [Experiments -> QualityState]
      BY <2>20 DEF StartQuality, QualityState, Typed, FilesTyped
    <3> QED
      BY <2>20, <3>1 DEF StartQuality, Typed, FilesTyped
  <2>21. CASE RecordQuality(d)
    <3>1. held[d] \in WorkflowRecord /\ Engine!DECIDE \in 1 .. 15
      BY DEF Typed, DriversTyped
    <3>2. Completed(held[d], Engine!DECIDE) \in WorkflowRecord
      BY <3>1, CompletedFields
    <3> QED
      BY <2>21, <3>2 DEF RecordQuality, SaveRecord, Typed, FilesTyped, files
  <2>22. CASE Decide(d)
    <3>1. PICK result \in QualityResult : Give(d, held[d], result)
      BY <2>22, DecideGives DEF Decide, At, Typed, QualityKnown
    <3>2. OnExperiment(d) /\ held[d] \in WorkflowRecord
      BY <2>22 DEF Decide, At, OnExperiment, Typed, DriversTyped
    <3> QED
      BY <3>1, <3>2, GiveFrame DEF Typed, FilesTyped, files
  <2> QED
    BY <1>1, <2>1, <2>2, <2>3, <2>4, <2>5, <2>6, <2>7, <2>8, <2>9, <2>10, <2>11, <2>12,
       <2>13, <2>14, <2>15, <2>16, <2>17, <2>18, <2>19, <2>20, <2>21, <2>22
       DEF Drive, Quit, Profile
<1>2. ASSUME NEW d \in Drivers, Crash(d) PROVE FilesTyped'
  BY <1>2, CrashFrame DEF Typed, FilesTyped, files
<1>3. CASE Submit
  <2>1. PICK next \in Engine!PermittedNextStages(record.stage), level2 \in BOOLEAN :
          /\ record.stage \in Engine!CLASSIFY_BOTTLENECK .. Engine!CREATE_EXPERIMENT
          /\ record' = Completed(record, next)
          /\ IF record.stage = Engine!CREATE_EXPERIMENT
             THEN spec < MaxExperiments /\ spec' = spec + 1 ELSE spec' = spec
          /\ \/ request' = [fulfilled |-> FALSE, level2 |-> level2, target |-> spec]
             \/ request' = request
    BY <1>3 DEF Submit
  <2>2. next \in 1 .. 15
    BY <2>1 DEF Engine!PermittedNextStages, Engine!DeeperProfileStages
  <2>3. record' \in WorkflowRecord
    BY <2>1, <2>2, CompletedFields DEF Typed, FilesTyped
  <2>4. spec' \in Targets
    BY <2>1, LoopAssumption DEF Typed, FilesTyped, Experiments
  <2>5. request' \in [fulfilled : BOOLEAN, level2 : BOOLEAN, target : Targets]
    <3>1. spec \in Targets /\ request \in [fulfilled : BOOLEAN, level2 : BOOLEAN, target : Targets]
      BY DEF Typed, FilesTyped
    <3>2. [fulfilled |-> FALSE, level2 |-> level2, target |-> spec]
            \in [fulfilled : BOOLEAN, level2 : BOOLEAN, target : Targets]
      BY <3>1, Zenon
    <3> QED
      BY <2>1, <3>1, <3>2
  <2> QED
    BY <1>3, <2>3, <2>4, <2>5 DEF Submit, Typed, FilesTyped
<1>4. CASE ApproveProfile
  BY <1>4 DEF ApproveProfile, loopVars, Typed, FilesTyped, files
<1>5. CASE EndQuality
  <2>1. quality' \in [Experiments -> QualityState]
    BY <1>5 DEF EndQuality, QualityState, Typed, FilesTyped
  <2> QED
    BY <1>5, <2>1 DEF EndQuality, Typed, FilesTyped
<1>6. CASE UNCHANGED vars
  BY <1>6 DEF vars, loopVars, Typed, FilesTyped, files
<1> QED
  BY <1>1, <1>2, <1>3, <1>4, <1>5, <1>6 DEF Next

\* What a driver holds after it left is of its type.
LEMMA LeaveDrivers ==
  ASSUME Typed, NEW d \in Drivers, Leave(d)
  PROVE  DriversTyped'
BY LeaveFrame, InitialRecordTyped, NoExecutionTyped, LoopAssumption DEF Typed, DriversTyped, Label

\* Every step keeps the types of what drivers hold.
LEMMA DriversStep ==
  ASSUME Typed, [Next]_vars
  PROVE  DriversTyped'
<1>1. ASSUME NEW d \in Drivers, Drive(d) PROVE DriversTyped'
  <2>1. CASE Load(d)
    BY <2>1 DEF Load, FilesTyped, Goto, Label, Typed, DriversTyped
  <2>2. CASE RunStage(d)
    BY <2>2, CompletedFields DEF RunStage, Dispatched, SaveRecord, Typed, DriversTyped
  <2>3. CASE Quit(d)
    BY <2>3, QuitFrame, LeaveDrivers
  <2>4. CASE DiscoverHotspots(d)
    BY <2>4 DEF DiscoverHotspots, Dispatched, FilesTyped, Goto, Label, Typed, DriversTyped
  <2>5. CASE AnswerUnavailable(d) \/ Conclude(d) \/ PassE2E(d)
    BY <2>5
       DEF AnswerUnavailable, Dispatched, Conclude, PassE2E, Judging, Goto, Label, Typed,
           DriversTyped
  <2>6. CASE SaveUnavailable(d) \/ SaveHotspots(d)
    BY <2>6, HotspotsFields
       DEF SaveUnavailable, SaveRecord, SaveHotspots, Goto, Label, Typed, DriversTyped
  <2>7. CASE Profile(d)
    BY <2>7, ProfileFrame DEF Typed, DriversTyped, Profiling, Asking, Label
  <2>8. CASE Execute(d)
    <3>1. spec \in Experiments /\ samples[spec] + 1 \in Nat
      BY <2>8, LoopAssumption DEF Execute, Typed, FilesTyped, GhostsTyped
    <3>2. PICK gate \in PreGate :
            active' = [active EXCEPT ![d] = FirstRun(spec, samples[spec] + 1, gate)]
      BY <2>8 DEF Execute, FirstRun
    <3>3. FirstRun(spec, samples[spec] + 1, gate) \in ActiveExecution
      BY <3>1, FirstRunFields
    <3> QED
      BY <2>8, <3>2, <3>3 DEF Execute, Goto, Label, Typed, DriversTyped
  <2>9. CASE CloseStage(d) \/ AcceptE2E(d)
    <3>1. held[d].stage < Engine!DECIDE /\ held[d].stage # Engine!CREATE_EXPERIMENT
      BY <2>9 DEF CloseStage, AcceptE2E, Closes
    <3>2. Closed(d) \in WorkflowRecord
      BY <3>1, ClosedFields
    <3> QED
      BY <2>9, <3>2 DEF CloseStage, AcceptE2E, SaveRecord, Goto, Label, Typed, DriversTyped
  <2>10. CASE PublishExecution(d) \/ StartQuality(d)
    BY <2>10, LeaveDrivers DEF PublishExecution, StartQuality
  <2>11. CASE BeginResume(d)
    <3> DEFINE x == [active[d] EXCEPT !.exp = spec]
    <3>1. active' = [active EXCEPT ![d] = x]
      BY <2>11 DEF BeginResume, Typed, DriversTyped
    <3>2. x \in ActiveExecution
      BY DEF ActiveExecution, Typed, FilesTyped, DriversTyped
    <3> HIDE DEF x
    <3> QED
      BY <2>11, <3>1, <3>2 DEF BeginResume, Goto, Label, Typed, DriversTyped
  <2>12. CASE AcquireLock(d)
    BY <2>12, AcquireFields DEF AcquireLock, FilesTyped, Goto, Label, Typed, DriversTyped
  <2>13. CASE RequestRerun(d) \/ NoRerun(d) \/ RequestPair(d) \/ SavePair(d) \/ NoPair(d)
    BY <2>13
       DEF RequestRerun, Locked, NoRerun, RequestPair, SavePair, NoPair, Goto, Label, Typed,
           DriversTyped
  <2>14. CASE AnnounceRerun(d)
    <3>1. active' = [active EXCEPT ![d] = Running(active[d])] /\ active[d] \in ActiveExecution
      BY <2>14 DEF AnnounceRerun, Running, Typed, DriversTyped
    <3> QED
      BY <2>14, <3>1, RunningFields DEF AnnounceRerun, Locked, Goto, Label, Typed, DriversTyped
  <2>15. CASE RunRerun(d)
    <3>1. active' \in [Drivers -> ActiveExecution]
      BY <2>15, RunRerunFields DEF Typed, DriversTyped
    <3> QED
      BY <2>15, <3>1 DEF RunRerun, Locked, Goto, Label, Typed, DriversTyped
  <2>16. CASE SaveRerun(d)
    <3>1. held' = [held EXCEPT ![d] = Reopened(held[d])] /\ held[d] \in WorkflowRecord
      BY <2>16 DEF SaveRerun, SaveRecord, Reopened, Typed, DriversTyped
    <3> QED
      BY <2>16, <3>1, ReopenedFields DEF SaveRerun, Locked, Goto, Label, Typed, DriversTyped
  <2>17. CASE RunPair(d)
    <3>1. active' \in [Drivers -> ActiveExecution]
      BY <2>17, RunPairFields DEF Typed, DriversTyped
    <3> QED
      BY <2>17, <3>1 DEF RunPair, Locked, Goto, Label, Typed, DriversTyped
  <2>18. CASE ReleaseLock(d)
    <3>1. active[d].exp \in Targets
      BY ExecutionFields DEF Typed, DriversTyped
    <3> QED
      BY <2>18, <3>1 DEF ReleaseLock, Goto, Label, Typed, DriversTyped
  <2>19. CASE RejectEarly(d) \/ Decide(d)
    <3>1. Leave(d)
      BY <2>19 DEF RejectEarly, Decide, Give
    <3> QED
      BY <3>1, LeaveDrivers
  <2>20. CASE RecordQuality(d)
    <3>1. held[d] \in WorkflowRecord /\ Engine!DECIDE \in 1 .. 15
      BY DEF Typed, DriversTyped
    <3>2. Completed(held[d], Engine!DECIDE) \in WorkflowRecord
      BY <3>1, CompletedFields
    <3> QED
      BY <2>20, <3>2 DEF RecordQuality, SaveRecord, Goto, Label, Typed, DriversTyped
  <2> QED
    BY <1>1, <2>1, <2>2, <2>3, <2>4, <2>5, <2>6, <2>7, <2>8, <2>9, <2>10, <2>11, <2>12,
       <2>13, <2>14, <2>15, <2>16, <2>17, <2>18, <2>19, <2>20
       DEF Drive, Quit, Profile
<1>2. ASSUME NEW d \in Drivers, Crash(d) PROVE DriversTyped'
  BY <1>2, CrashFrame, LeaveDrivers
<1>3. CASE Submit
  BY <1>3 DEF Submit, local, Typed, DriversTyped
<1>4. CASE ApproveProfile
  BY <1>4 DEF ApproveProfile, loopVars, local, Typed, DriversTyped
<1>5. CASE EndQuality
  BY <1>5 DEF EndQuality, local, Typed, DriversTyped
<1>6. CASE UNCHANGED vars
  BY <1>6 DEF vars, loopVars, local, Typed, DriversTyped
<1> QED
  BY <1>1, <1>2, <1>3, <1>4, <1>5, <1>6 DEF Next

\* Every step keeps the types of the counters and of the verdicts.
LEMMA GhostsStep ==
  ASSUME Typed, [Next]_vars
  PROVE  GhostsTyped'
<1>1. ASSUME NEW d \in Drivers, Drive(d) PROVE GhostsTyped'
  <2>1. CASE Load(d)
    BY <2>1 DEF Load, Typed, GhostsTyped, ghosts
  <2>2. CASE RunStage(d) \/ DiscoverHotspots(d) \/ AnswerUnavailable(d) \/ SaveUnavailable(d) \/
             SaveHotspots(d) \/ CloseStage(d) \/ Conclude(d) \/ PublishExecution(d) \/
             BeginResume(d) \/ AcquireLock(d) \/ RequestRerun(d) \/ SaveRerun(d) \/ NoRerun(d) \/
             SavePair(d) \/ NoPair(d) \/ ReleaseLock(d) \/ AcceptE2E(d) \/ PassE2E(d) \/
             StartQuality(d) \/ RecordQuality(d)
    BY <2>2
       DEF RunStage, Dispatched, SaveRecord, DiscoverHotspots, AnswerUnavailable,
           SaveUnavailable, SaveHotspots, CloseStage, Conclude, PublishExecution, Leave,
           BeginResume, AcquireLock, RequestRerun, Locked, SaveRerun, NoRerun, SavePair,
           NoPair, ReleaseLock, AcceptE2E, Judging, PassE2E, StartQuality, RecordQuality,
           Typed, GhostsTyped, ghosts
  <2>3. CASE Quit(d)
    BY <2>3, QuitFrame DEF Typed, GhostsTyped, ghosts
  <2>4. CASE Profile(d)
    BY <2>4, ProfileFrame DEF Typed, GhostsTyped, ghosts
  <2>5. CASE Execute(d)
    <3>1. spec \in Experiments
      BY <2>5, LoopAssumption DEF Execute, Typed, FilesTyped
    <3> QED
      BY <2>5, <3>1 DEF Execute, Measured, Typed, GhostsTyped
  <2>6. CASE AnnounceRerun(d)
    <3>1. active[d].exp \in Experiments
      BY <2>6, AtHand DEF AnnounceRerun, Locked, At, OnExperiment, InLock
    <3> QED
      BY <2>6, <3>1 DEF AnnounceRerun, Locked, Typed, GhostsTyped
  <2>7. CASE RunRerun(d)
    <3>1. active[d].exp \in Experiments
      BY <2>7, AtHand DEF RunRerun, Locked, At, OnExperiment, InLock
    <3> QED
      BY <2>7, <3>1 DEF RunRerun, Locked, Measured, Typed, GhostsTyped
  <2>8. CASE RequestPair(d)
    <3>1. active[d].exp \in Experiments
      BY <2>8, AtHand DEF RequestPair, Locked, At, OnExperiment, InLock
    <3> QED
      BY <2>8, <3>1 DEF RequestPair, Locked, Typed, GhostsTyped
  <2>9. CASE RunPair(d)
    <3>1. active[d].exp \in Experiments
      BY <2>9, AtHand DEF RunPair, Locked, At, OnExperiment, InLock
    <3> QED
      BY <2>9, <3>1 DEF RunPair, Locked, Measured, Typed, GhostsTyped
  <2>10. CASE RejectEarly(d)
    <3>1. PICK r \in WorkflowRecord, result \in QualityResult : Give(d, r, result)
      BY <2>10, RejectEarlyTyped
    <3>2. OnExperiment(d)
      BY <2>10 DEF RejectEarly, Judging, At, OnExperiment, Profiling
    <3>3. (\E verdict \in Verdict : verdicts' = Append(verdicts, verdict))
            /\ UNCHANGED << samples, again, crashes, overlaps >>
      BY <3>1, <3>2, GiveFrame
    <3> QED
      BY <3>3 DEF Typed, GhostsTyped
  <2>11. CASE Decide(d)
    <3>1. PICK result \in QualityResult : Give(d, held[d], result)
      BY <2>11, DecideGives DEF Decide, At, Typed, QualityKnown
    <3>2. OnExperiment(d) /\ held[d] \in WorkflowRecord
      BY <2>11 DEF Decide, At, OnExperiment, Typed, DriversTyped
    <3>3. (\E verdict \in Verdict : verdicts' = Append(verdicts, verdict))
            /\ UNCHANGED << samples, again, crashes, overlaps >>
      BY <3>1, <3>2, GiveFrame
    <3> QED
      BY <3>3 DEF Typed, GhostsTyped
  <2> QED
    BY <1>1, <2>1, <2>2, <2>3, <2>4, <2>5, <2>6, <2>7, <2>8, <2>9, <2>10, <2>11
       DEF Drive, Quit, Profile
<1>2. ASSUME NEW d \in Drivers, Crash(d) PROVE GhostsTyped'
  BY <1>2, CrashFrame DEF Typed, GhostsTyped
<1>3. CASE Submit
  BY <1>3 DEF Submit, ghosts, Typed, GhostsTyped
<1>4. CASE ApproveProfile
  BY <1>4 DEF ApproveProfile, loopVars, ghosts, Typed, GhostsTyped
<1>5. CASE EndQuality
  BY <1>5 DEF EndQuality, ghosts, Typed, GhostsTyped
<1>6. CASE UNCHANGED vars
  BY <1>6 DEF vars, loopVars, ghosts, Typed, GhostsTyped
<1> QED
  BY <1>1, <1>2, <1>3, <1>4, <1>5, <1>6 DEF Next

-----------------------------------------------------------------------------
(***************************************************************************)
(* Attempts at a profile.                                                  *)
(***************************************************************************)

\* The status of one attempt replaced.
LEMMA Replaced ==
  ASSUME NEW a \in Seq(AttemptStatus), NEW n \in 1 .. Len(a), NEW status \in AttemptStatus
  PROVE  /\ [a EXCEPT ![n] = status] \in Seq(AttemptStatus)
         /\ Len([a EXCEPT ![n] = status]) = Len(a)
         /\ DOMAIN [a EXCEPT ![n] = status] = DOMAIN a
         /\ status # "succeeded" /\ ~Succeeded(a) => ~Succeeded([a EXCEPT ![n] = status])
         /\ status = "succeeded" => Succeeded([a EXCEPT ![n] = status])
<1>1. Len(a) \in Nat /\ DOMAIN a = 1 .. Len(a)
  OBVIOUS
<1>2. [a EXCEPT ![n] = status] \in Seq(AttemptStatus) /\ Len([a EXCEPT ![n] = status]) = Len(a)
  OBVIOUS
<1>3. DOMAIN [a EXCEPT ![n] = status] = DOMAIN a
  OBVIOUS
<1> QED
  BY <1>1, <1>2, <1>3 DEF Succeeded

\* A new attempt appended.
LEMMA Added ==
  ASSUME NEW a \in Seq(AttemptStatus)
  PROVE  /\ WithNewAttempt(a) \in Seq(AttemptStatus)
         /\ Len(WithNewAttempt(a)) = Len(a) + 1
         /\ ~Succeeded(a) => ~Succeeded(WithNewAttempt(a))
<1>1. WithNewAttempt(a) \in Seq(AttemptStatus) /\ Len(WithNewAttempt(a)) = Len(a) + 1
  BY DEF WithNewAttempt, AttemptStatus
<1>2. \A n \in DOMAIN WithNewAttempt(a) :
        IF n = Len(a) + 1 THEN WithNewAttempt(a)[n] = "awaiting_approval"
        ELSE n \in DOMAIN a /\ WithNewAttempt(a)[n] = a[n]
  BY DEF WithNewAttempt
<1> QED
  BY <1>1, <1>2 DEF Succeeded

\* A driver without a usable profile holds an open attempt.
LEMMA RequestedFields ==
  ASSUME NEW a \in Seq(AttemptStatus)
  PROVE  /\ Requested(a) \in Seq(AttemptStatus)
         /\ Len(Requested(a)) \in Nat \ {0}
         /\ ~Succeeded(a) => ~Succeeded(Requested(a))
<1>1. Len(a) \in Nat /\ (a # << >> => Len(a) # 0)
  OBVIOUS
<1> QED
  BY <1>1, Added DEF Requested

\* The attempt a driver asks for.
LEMMA Asked ==
  ASSUME Typed, NEW d \in Drivers, pc[d] \in Asking
  PROVE  /\ target[d] \in Targets /\ seen[d] \in Seq(AttemptStatus)
         /\ Len(seen[d]) \in 1 .. MaxProfileAttempts
BY DEF Typed, DriversTyped, AttemptsTyped, ProfileTypeOK, MaxAttempts, MaxProfileAttempts

\* The steps of a driver that has a receipt.
LEMMA TransportCases ==
  ASSUME NEW d, Transport(d)
  PROVE  \/ /\ pc[d] = "spend" /\ pc' = [pc EXCEPT ![d] = "announce"]
            /\ SpendReceipt(d, target[d])
         \/ /\ pc[d] = "announce" /\ pc' = [pc EXCEPT ![d] = "transport"]
            /\ AnnounceTransport(d, target[d])
         \/ /\ pc[d] = "transport" /\ pc' = [pc EXCEPT ![d] = "profiled"]
            /\ CallServer(d, target[d], "succeeded")
         \/ /\ pc[d] = "transport" /\ pc' = [pc EXCEPT ![d] = "again"]
            /\ CallServer(d, target[d], "evidence_inconclusive")
         \/ /\ pc[d] = "again" /\ pc' = [pc EXCEPT ![d] = "leave"]
            /\ RequestAgain(d, target[d])
         \/ /\ pc[d] = "transport" /\ pc' = [pc EXCEPT ![d] = "leave"]
            /\ CallServer(d, target[d], "transport_failed")
BY DEF Transport, ProfileStep, At, Goto

\* What a driver with a receipt writes: another list of attempts, and a call.
LEMMA CallFields ==
  ASSUME Typed, NEW d \in Drivers, pc[d] \in Asking,
         NEW status \in Retryable \cup {"succeeded"}, CallServer(d, target[d], status)
  PROVE  \E a \in Seq(AttemptStatus) :
           /\ profiles' = [profiles EXCEPT ![target[d]] = a]
           /\ seen' = [seen EXCEPT ![d] = a]
           /\ Len(a) = IF status = "transport_failed" THEN Len(seen[d]) + 1 ELSE Len(seen[d])
           /\ status \in Retryable => Len(seen[d]) < MaxProfileAttempts
           /\ status = "succeeded" => Succeeded(a)
           /\ status # "succeeded" /\ ~Succeeded(seen[d]) => ~Succeeded(a)
           /\ transports' = [transports EXCEPT ![target[d]][Len(seen[d])] = @ + 1]
           /\ UNCHANGED << receipts, rawProfile >>
<1>1. /\ target[d] \in Targets /\ seen[d] \in Seq(AttemptStatus)
      /\ Len(seen[d]) \in 1 .. MaxProfileAttempts /\ Len(seen[d]) \in 1 .. Len(seen[d])
  BY Asked
<1>2. status \in AttemptStatus
  BY DEF Retryable, AttemptStatus
<1> DEFINE ended == [seen[d] EXCEPT ![Len(seen[d])] = status]
           a == IF status = "transport_failed" THEN WithNewAttempt(ended) ELSE ended
<1>3. /\ ended \in Seq(AttemptStatus) /\ Len(ended) = Len(seen[d])
      /\ status = "succeeded" => Succeeded(ended)
      /\ status # "succeeded" /\ ~Succeeded(seen[d]) => ~Succeeded(ended)
  BY <1>1, <1>2, Replaced
<1>4. /\ profiles' = [profiles EXCEPT ![target[d]] = a]
      /\ seen' = [seen EXCEPT ![d] = a]
      /\ transports' = [transports EXCEPT ![target[d]][Len(seen[d])] = @ + 1]
      /\ status \in Retryable => Len(seen[d]) < MaxProfileAttempts
      /\ UNCHANGED << receipts, rawProfile >>
  BY DEF CallServer, Write
<1> HIDE DEF ended
<1>5. /\ a \in Seq(AttemptStatus)
      /\ Len(a) = IF status = "transport_failed" THEN Len(seen[d]) + 1 ELSE Len(seen[d])
      /\ status = "succeeded" => Succeeded(a)
      /\ status # "succeeded" /\ ~Succeeded(seen[d]) => ~Succeeded(a)
  BY <1>3, Added
<1> QED
  BY <1>4, <1>5

\* The announcement of a transport, in the terms of its attempts.
LEMMA AnnounceFields ==
  ASSUME Typed, NEW d \in Drivers, pc[d] \in Asking, AnnounceTransport(d, target[d])
  PROVE  \E a \in Seq(AttemptStatus) :
           /\ profiles' = [profiles EXCEPT ![target[d]] = a]
           /\ seen' = [seen EXCEPT ![d] = a]
           /\ Len(a) = Len(seen[d])
           /\ ~Succeeded(seen[d]) => ~Succeeded(a)
           /\ UNCHANGED << receipts, rawProfile, transports >>
<1>1. /\ seen[d] \in Seq(AttemptStatus) /\ Len(seen[d]) \in 1 .. Len(seen[d])
  BY Asked
<1> DEFINE a == [seen[d] EXCEPT ![Len(seen[d])] = "transport_started"]
<1>2. /\ a \in Seq(AttemptStatus) /\ Len(a) = Len(seen[d])
      /\ ~Succeeded(seen[d]) => ~Succeeded(a)
  BY <1>1, Replaced DEF AttemptStatus
<1>3. /\ profiles' = [profiles EXCEPT ![target[d]] = a]
      /\ seen' = [seen EXCEPT ![d] = a]
      /\ UNCHANGED << receipts, rawProfile, transports >>
  BY DEF AnnounceTransport, Write
<1> HIDE DEF a
<1> QED
  BY <1>2, <1>3

\* The request for another attempt, in the same terms.
LEMMA AgainFields ==
  ASSUME Typed, NEW d \in Drivers, pc[d] \in Asking, RequestAgain(d, target[d])
  PROVE  \E a \in Seq(AttemptStatus) :
           /\ profiles' = [profiles EXCEPT ![target[d]] = a]
           /\ seen' = [seen EXCEPT ![d] = a]
           /\ Len(a) = Len(seen[d]) + 1
           /\ ~Succeeded(seen[d]) => ~Succeeded(a)
           /\ UNCHANGED << receipts, rawProfile, transports >>
BY Asked, Added DEF RequestAgain, Write

\* The opening of an attempt, in the same terms.
LEMMA OpenFields ==
  ASSUME Typed, NEW d \in Drivers, OpenAttempt(d, target[d])
  PROVE  \E a \in Seq(AttemptStatus) :
           /\ profiles' = [profiles EXCEPT ![target[d]] = a]
           /\ seen' = [seen EXCEPT ![d] = a]
           /\ Len(a) \in 1 .. MaxProfileAttempts
           /\ ~ProfileComplete(target[d]) /\ ~Succeeded(a)
           /\ UNCHANGED << receipts, rawProfile, transports >>
<1>1. profiles[target[d]] \in Seq(AttemptStatus)
  BY DEF Typed, DriversTyped, AttemptsTyped, ProfileTypeOK
<1>2. MaxProfileAttempts \in Nat
  BY FailuresAssumption DEF MaxProfileAttempts
<1> DEFINE a == Requested(profiles[target[d]])
<1>3. /\ ~ProfileComplete(target[d]) /\ Len(a) <= MaxProfileAttempts
      /\ profiles' = [profiles EXCEPT ![target[d]] = a]
      /\ seen' = [seen EXCEPT ![d] = a]
      /\ UNCHANGED << receipts, rawProfile, transports >>
  BY DEF OpenAttempt
<1>4. ~Succeeded(profiles[target[d]])
  BY <1>3 DEF ProfileComplete
<1>5. a \in Seq(AttemptStatus) /\ Len(a) \in Nat \ {0} /\ ~Succeeded(a)
  BY <1>1, <1>4, RequestedFields
<1>6. Len(a) \in 1 .. MaxProfileAttempts
  BY <1>2, <1>3, <1>5
<1> HIDE DEF a
<1> QED
  BY <1>3, <1>5, <1>6

\* A driver that leaves leaves the attempts typed.
LEMMA LeaveAttempts ==
  ASSUME Typed, NEW d \in Drivers, Leave(d)
  PROVE  AttemptsTyped'
<1>1. << >> \in Seq(AttemptStatus)
  OBVIOUS
<1>2. seen' \in [Drivers -> Seq(AttemptStatus)]
  BY <1>1, LeaveFrame DEF Typed, AttemptsTyped, ProfileTypeOK
<1>3. pc' = [pc EXCEPT ![d] = "idle"] /\ pc'[d] = "idle" /\ "idle" \notin Asking
  BY LeaveFrame DEF Typed, DriversTyped, Asking
<1>4. \A e \in Drivers : pc'[e] \in Asking \/ pc'[e] = "again" =>
        pc'[e] = pc[e] /\ seen'[e] = seen[e]
  BY <1>3, LeaveFrame DEF Typed, DriversTyped, AttemptsTyped, ProfileTypeOK
<1> QED
  BY <1>2, <1>4, LeaveFrame DEF Typed, AttemptsTyped, ProfileTypeOK

\* A driver that writes a list of attempts has read it.
LEMMA WrittenAttempts ==
  ASSUME Typed, NEW d \in Drivers, NEW a \in Seq(AttemptStatus), Len(a) \in 1 .. MaxAttempts,
         NEW to, pc' = [pc EXCEPT ![d] = to], to = "again" => Len(a) < MaxAttempts,
         profiles' = [profiles EXCEPT ![target[d]] = a], seen' = [seen EXCEPT ![d] = a],
         receipts' \in [Targets -> [1 .. MaxProfileAttempts -> {"none", "granted", "consumed"}]],
         rawProfile' \in [Targets -> {"none", "started", "done"}],
         transports' \in [Targets -> [1 .. MaxProfileAttempts -> Nat]]
  PROVE  AttemptsTyped'
<1>1. target[d] \in Targets
  BY DEF Typed, DriversTyped
<1>2. /\ profiles' \in [Targets -> Seq(AttemptStatus)]
      /\ seen' \in [Drivers -> Seq(AttemptStatus)]
      /\ \A t \in Targets : Len(profiles'[t]) <= MaxAttempts
  BY <1>1 DEF Typed, AttemptsTyped, ProfileTypeOK
<1>3. \A e \in Drivers : e # d => pc'[e] = pc[e] /\ seen'[e] = seen[e]
  BY DEF Typed, DriversTyped, AttemptsTyped, ProfileTypeOK
<1>4. pc'[d] = to /\ seen'[d] = a
  BY DEF Typed, DriversTyped, AttemptsTyped, ProfileTypeOK
<1> QED
  BY <1>2, <1>3, <1>4 DEF Typed, AttemptsTyped, ProfileTypeOK

\* One more call is a count.
LEMMA Counted ==
  ASSUME transports \in [Targets -> [1 .. MaxProfileAttempts -> Nat]],
         NEW t \in Targets, NEW n \in 1 .. MaxProfileAttempts
  PROVE  [transports EXCEPT ![t][n] = @ + 1] \in [Targets -> [1 .. MaxProfileAttempts -> Nat]]
<1> DEFINE row == [transports[t] EXCEPT ![n] = @ + 1]
<1>1. transports[t] \in [1 .. MaxProfileAttempts -> Nat]
  OBVIOUS
<1>2. row \in [1 .. MaxProfileAttempts -> Nat]
  BY <1>1
<1>3. [transports EXCEPT ![t][n] = @ + 1] = [transports EXCEPT ![t] = row]
  OBVIOUS
<1> HIDE DEF row
<1> QED
  BY <1>2, <1>3

\* Opening an attempt leaves the attempts typed.
LEMMA OpenTyped ==
  ASSUME Typed, NEW d \in Drivers, OpenAttempt(d, target[d]), pc' = [pc EXCEPT ![d] = "receipt"]
  PROVE  AttemptsTyped'
<1> USE DEF MaxAttempts, MaxProfileAttempts
<1>1. PICK a \in Seq(AttemptStatus) :
        /\ profiles' = [profiles EXCEPT ![target[d]] = a]
        /\ seen' = [seen EXCEPT ![d] = a]
        /\ Len(a) \in 1 .. MaxProfileAttempts
        /\ UNCHANGED << receipts, rawProfile, transports >>
  BY OpenFields
<1>2. /\ receipts \in [Targets -> [1 .. MaxProfileAttempts -> {"none", "granted", "consumed"}]]
      /\ rawProfile \in [Targets -> {"none", "started", "done"}]
      /\ transports \in [Targets -> [1 .. MaxProfileAttempts -> Nat]]
  BY DEF Typed, AttemptsTyped, ProfileTypeOK
<1> QED
  BY <1>1, <1>2, WrittenAttempts

\* A transport leaves the attempts typed.
LEMMA TransportAttempts ==
  ASSUME Typed, NEW d \in Drivers, Transport(d)
  PROVE  AttemptsTyped'
<1> USE DEF MaxAttempts, MaxProfileAttempts
<1>0. pc[d] \in Asking
  BY TransportCases DEF Asking
<1>1. /\ target[d] \in Targets /\ Len(seen[d]) \in 1 .. MaxAttempts
      /\ receipts \in [Targets -> [1 .. MaxProfileAttempts -> {"none", "granted", "consumed"}]]
      /\ rawProfile \in [Targets -> {"none", "started", "done"}]
      /\ transports \in [Targets -> [1 .. MaxProfileAttempts -> Nat]]
  BY <1>0, Asked DEF Typed, AttemptsTyped, ProfileTypeOK
<1>2. [transports EXCEPT ![target[d]][Len(seen[d])] = @ + 1]
         \in [Targets -> [1 .. MaxProfileAttempts -> Nat]]
  BY <1>1, Counted
<1>3. CASE /\ pc' = [pc EXCEPT ![d] = "announce"]
           /\ SpendReceipt(d, target[d])
  <2>1. receipts' \in [Targets -> [1 .. MaxProfileAttempts -> {"none", "granted", "consumed"}]]
    BY <1>1, <1>3 DEF SpendReceipt
  <2> QED
    BY <1>0, <1>3, <2>1 DEF SpendReceipt, Typed, DriversTyped, AttemptsTyped, ProfileTypeOK, Asking
<1>4. CASE /\ pc' = [pc EXCEPT ![d] = "transport"]
           /\ AnnounceTransport(d, target[d])
  <2>1. PICK a \in Seq(AttemptStatus) :
          /\ profiles' = [profiles EXCEPT ![target[d]] = a]
          /\ seen' = [seen EXCEPT ![d] = a]
          /\ Len(a) = Len(seen[d])
          /\ UNCHANGED << receipts, rawProfile, transports >>
    BY <1>0, <1>4, AnnounceFields
  <2> QED
    BY <1>1, <1>2, <1>4, <2>1, WrittenAttempts
<1>5. CASE /\ pc' = [pc EXCEPT ![d] = "profiled"]
           /\ CallServer(d, target[d], "succeeded")
  <2>0. /\ "succeeded" \in Retryable \cup {"succeeded"}
        /\ "succeeded" \notin Retryable
    BY DEF Retryable
  <2>1. PICK a \in Seq(AttemptStatus) :
          /\ profiles' = [profiles EXCEPT ![target[d]] = a]
          /\ seen' = [seen EXCEPT ![d] = a]
          /\ Len(a) = Len(seen[d])
          /\ transports' = [transports EXCEPT ![target[d]][Len(seen[d])] = @ + 1]
          /\ UNCHANGED << receipts, rawProfile >>
    BY <1>0, <1>1, <1>5, <2>0, CallFields
  <2> QED
    BY <1>1, <1>2, <1>5, <2>1, WrittenAttempts
<1>6. CASE /\ pc' = [pc EXCEPT ![d] = "again"]
           /\ CallServer(d, target[d], "evidence_inconclusive")
  <2>0. /\ "evidence_inconclusive" \in Retryable \cup {"succeeded"}
        /\ "evidence_inconclusive" \in Retryable
    BY DEF Retryable
  <2>1. PICK a \in Seq(AttemptStatus) :
          /\ profiles' = [profiles EXCEPT ![target[d]] = a]
          /\ seen' = [seen EXCEPT ![d] = a]
          /\ Len(a) = Len(seen[d]) /\ Len(a) < MaxAttempts
          /\ transports' = [transports EXCEPT ![target[d]][Len(seen[d])] = @ + 1]
          /\ UNCHANGED << receipts, rawProfile >>
    BY <1>0, <1>1, <1>6, <2>0, CallFields
  <2> QED
    BY <1>1, <1>2, <1>6, <2>1, WrittenAttempts
<1>7. CASE /\ pc[d] = "again" /\ pc' = [pc EXCEPT ![d] = "leave"]
           /\ RequestAgain(d, target[d])
  <2>1. Len(seen[d]) < MaxAttempts
    BY <1>7 DEF Typed, AttemptsTyped
  <2> QED
    <3>1. PICK a \in Seq(AttemptStatus) :
            /\ profiles' = [profiles EXCEPT ![target[d]] = a]
            /\ seen' = [seen EXCEPT ![d] = a]
            /\ Len(a) = Len(seen[d]) + 1
            /\ UNCHANGED << receipts, rawProfile, transports >>
      BY <1>0, <1>7, AgainFields
    <3>2. Len(a) \in 1 .. MaxAttempts
      BY <1>1, <2>1, <3>1, FailuresAssumption
    <3> QED
      BY <1>1, <1>7, <3>1, <3>2, WrittenAttempts
<1>8. CASE /\ pc' = [pc EXCEPT ![d] = "leave"]
           /\ CallServer(d, target[d], "transport_failed")
  <2>0. /\ "transport_failed" \in Retryable \cup {"succeeded"}
        /\ "transport_failed" \in Retryable
    BY DEF Retryable
  <2>1. PICK a \in Seq(AttemptStatus) :
          /\ profiles' = [profiles EXCEPT ![target[d]] = a]
          /\ seen' = [seen EXCEPT ![d] = a]
          /\ Len(a) = Len(seen[d]) + 1 /\ Len(seen[d]) < MaxAttempts
          /\ transports' = [transports EXCEPT ![target[d]][Len(seen[d])] = @ + 1]
          /\ UNCHANGED << receipts, rawProfile >>
    BY <1>0, <1>1, <1>8, <2>0, CallFields
  <2>2. Len(a) \in 1 .. MaxAttempts
    BY <1>1, <2>1, FailuresAssumption
  <2> QED
    BY <1>1, <1>2, <1>8, <2>1, <2>2, WrittenAttempts
<1> QED
  BY <1>3, <1>4, <1>5, <1>6, <1>7, <1>8, TransportCases

\* Every step keeps the types of attempts, receipts and calls.
LEMMA AttemptsStep ==
  ASSUME Typed, [Next]_vars
  PROVE  AttemptsTyped'
<1>1. ASSUME NEW d \in Drivers, Drive(d) PROVE AttemptsTyped'
  <2>1. CASE Load(d) \/ RunStage(d) \/ DiscoverHotspots(d) \/ AnswerUnavailable(d) \/
             SaveUnavailable(d) \/ Execute(d) \/ CloseStage(d) \/ Conclude(d) \/ BeginResume(d) \/
             AcquireLock(d) \/ RequestRerun(d) \/ AnnounceRerun(d) \/ RunRerun(d) \/ SaveRerun(d) \/
             NoRerun(d) \/ RequestPair(d) \/ RunPair(d) \/ SavePair(d) \/ NoPair(d) \/ ReleaseLock(d) \/
             AcceptE2E(d) \/ PassE2E(d) \/ RecordQuality(d)
    BY <2>1
       DEF Load, RunStage, Dispatched, SaveRecord, DiscoverHotspots, AnswerUnavailable,
           SaveUnavailable, Execute, Measured, CloseStage, Conclude, BeginResume,
           AcquireLock, RequestRerun, Locked, AnnounceRerun, RunRerun, SaveRerun, NoRerun,
           RequestPair, RunPair, SavePair, NoPair, ReleaseLock, AcceptE2E, Judging, PassE2E,
           RecordQuality, Goto, At, profileVars, DriversTyped, Asking, Typed, AttemptsTyped,
           ProfileTypeOK
  <2>2. CASE Quit(d)
    BY <2>2, QuitFrame, LeaveAttempts
  <2>3. CASE SaveHotspots(d)
    <3>1. pc' = [pc EXCEPT ![d] = "dispatch"] /\ Forget(d)
      BY <2>3 DEF SaveHotspots, Goto
    <3> QED
      BY <3>1 DEF Forget, Typed, DriversTyped, AttemptsTyped, ProfileTypeOK, Asking
  <2>4. CASE ReuseProfile(d)
    BY <2>4 DEF ReuseProfile, ProfileStep, At, Goto, profileVars, Typed, DriversTyped,
           AttemptsTyped, ProfileTypeOK, Asking
  <2>5. CASE OpenProfile(d)
    <3>1. OpenAttempt(d, target[d]) /\ pc' = [pc EXCEPT ![d] = "receipt"]
      BY <2>5 DEF OpenProfile, ProfileStep, Goto
    <3> QED
      BY <3>1, OpenTyped
  <2>6. CASE RunRaw(d)
    BY <2>6 DEF RunRaw, ProfileStep, StartRaw, FinishRaw, At, Goto, Typed, DriversTyped,
           AttemptsTyped, ProfileTypeOK, Asking
  <2>7. CASE UseReceipt(d)
    BY <2>7 DEF UseReceipt, ProfileStep, At, Goto, profileVars, Typed, DriversTyped,
           AttemptsTyped, ProfileTypeOK, Asking
  <2>8. CASE Transport(d)
    BY <2>8, TransportAttempts
  <2>9. CASE PublishExecution(d) \/ StartQuality(d) \/ RejectEarly(d) \/ Decide(d)
    <3>1. Leave(d)
      BY <2>9 DEF PublishExecution, StartQuality, RejectEarly, Decide, Give
    <3> QED
      BY <3>1, LeaveAttempts
  <2> QED
    BY <1>1, <2>1, <2>2, <2>3, <2>4, <2>5, <2>6, <2>7, <2>8, <2>9 DEF Drive, Quit
<1>2. ASSUME NEW d \in Drivers, Crash(d) PROVE AttemptsTyped'
  BY <1>2, CrashFrame, LeaveAttempts
<1>3. CASE Submit
  BY <1>3 DEF Submit, local, profileVars, Typed, AttemptsTyped, ProfileTypeOK
<1>4. CASE ApproveProfile
  <2>1. PICK t \in Targets : \E n \in DOMAIN profiles[t] :
          receipts' = [receipts EXCEPT ![t][n] = "granted"]
    BY <1>4 DEF ApproveProfile, Approve
  <2>2. /\ profiles[t] \in Seq(AttemptStatus) /\ Len(profiles[t]) <= MaxProfileAttempts
        /\ receipts \in [Targets -> [1 .. MaxProfileAttempts -> {"none", "granted", "consumed"}]]
    BY DEF Typed, AttemptsTyped, ProfileTypeOK, MaxAttempts, MaxProfileAttempts
  <2>3. PICK n \in DOMAIN profiles[t] : receipts' = [receipts EXCEPT ![t][n] = "granted"]
    BY <2>1
  <2>4. MaxProfileAttempts \in Nat
    BY FailuresAssumption DEF MaxProfileAttempts
  <2>5. n \in 1 .. MaxProfileAttempts
    BY <2>2, <2>3, <2>4
  <2>6. receipts' \in [Targets -> [1 .. MaxProfileAttempts -> {"none", "granted", "consumed"}]]
    BY <2>2, <2>3, <2>5
  <2> QED
    BY <1>4, <2>6 DEF ApproveProfile, Approve, loopVars, local, Typed, AttemptsTyped, ProfileTypeOK
<1>5. CASE EndQuality
  BY <1>5 DEF EndQuality, local, profileVars, Typed, AttemptsTyped, ProfileTypeOK
<1>6. CASE UNCHANGED vars
  BY <1>6 DEF vars, loopVars, local, profileVars, Typed, AttemptsTyped, ProfileTypeOK
<1> QED
  BY <1>1, <1>2, <1>3, <1>4, <1>5, <1>6 DEF Next

\* A driver that leaves has no experiment at hand.
LEMMA LeaveProposed ==
  ASSUME Typed, NEW d \in Drivers, Leave(d), spec' = spec,
         record' = record \/ spec # Baseline
  PROVE  Proposed'
<1>1. \A e \in Drivers : e # d => /\ pc'[e] = pc[e] /\ held'[e] = held[e]
                                 /\ active'[e] = active[e]
  BY LeaveFrame DEF Typed, DriversTyped
<1>2. pc'[d] = "idle" /\ held'[d] = InitialRecord
  BY LeaveFrame DEF Typed, DriversTyped
<1>3. \A e \in Drivers : e # d => (OnExperiment(e)' <=> OnExperiment(e))
  BY <1>1 DEF OnExperiment
<1>4. ~OnExperiment(d)'
  BY <1>2 DEF OnExperiment, InLock, Profiling, Asking
<1>5. InitialRecord.stage = 1
  BY InitialRecordTyped
<1> QED
  BY <1>1, <1>2, <1>3, <1>4, <1>5 DEF Typed, Proposed

\* A driver that has an experiment at hand may save any record.
LEMMA MoreProposed ==
  ASSUME Typed, NEW d \in Drivers, OnExperiment(d), UNCHANGED << spec, active >>,
         NEW label, \A e \in Drivers : pc'[e] = pc[e] \/ (e = d /\ pc'[e] = label),
         \A e \in Drivers : e # d => held'[e] = held[e]
  PROVE  Proposed'
BY DEF Typed, Proposed, OnExperiment

\* Every step leaves proposed experiments at hand.
LEMMA ProposedStep ==
  ASSUME Typed, [Next]_vars
  PROVE  Proposed'
<1>1. ASSUME NEW d \in Drivers, Drive(d) PROVE Proposed'
  <2>1. CASE Load(d)
    BY <2>1
       DEF Load, Typed, Proposed, OnExperiment, FilesTyped, DriversTyped, Goto, At, InLock,
           Profiling, Asking, files
  <2>2. CASE RunStage(d)
    BY <2>2, CompletedFields
       DEF RunStage, Dispatched, SaveRecord, Typed, Proposed, OnExperiment, FilesTyped,
           DriversTyped, Goto, At, InLock, Profiling, Asking, files
  <2>3. CASE Quit(d)
    BY <2>3, QuitFrame, LeaveProposed DEF files
  <2>4. CASE DiscoverHotspots(d)
    BY <2>4
       DEF DiscoverHotspots, Dispatched, Typed, Proposed, OnExperiment, FilesTyped,
           DriversTyped, Goto, At, InLock, Profiling, Asking, files
  <2>5. CASE AnswerUnavailable(d)
    BY <2>5
       DEF AnswerUnavailable, Dispatched, Typed, Proposed, OnExperiment, FilesTyped,
           DriversTyped, Goto, At, InLock, Profiling, Asking, files
  <2>6. CASE SaveUnavailable(d) \/ SaveHotspots(d)
    BY <2>6, HotspotsFields
       DEF SaveUnavailable, SaveRecord, SaveHotspots, Typed, Proposed, OnExperiment,
           FilesTyped, DriversTyped, Goto, At, InLock, Profiling, Asking, files
  <2>7. CASE Profile(d)
    <3>1. /\ \A e \in Drivers : OnExperiment(e)' => OnExperiment(e)
          /\ UNCHANGED << spec, record, held, active >>
      BY <2>7, ProfileFrame DEF Typed, DriversTyped, OnExperiment, files, InLock, Profiling, Asking
    <3> QED
      BY <3>1 DEF Typed, Proposed
  <2>8. CASE Execute(d)
    <3>1. spec \in Experiments /\ samples[spec] + 1 \in Nat
      BY <2>8, LoopAssumption DEF Execute, Typed, FilesTyped, GhostsTyped
    <3>2. PICK gate \in PreGate :
            active' = [active EXCEPT ![d] = FirstRun(spec, samples[spec] + 1, gate)]
      BY <2>8 DEF Execute, FirstRun
    <3>3. FirstRun(spec, samples[spec] + 1, gate).exp = spec
      BY <3>1, FirstRunFields
    <3>4. /\ \A e \in Drivers : e # d => active'[e] = active[e]
          /\ active'[d].exp # Baseline /\ spec # Baseline
      BY <2>8, <3>2, <3>3 DEF Execute, Typed, DriversTyped
    <3> HIDE DEF Baseline
    <3> QED
      BY <2>8, <3>4 DEF Execute, Goto, Typed, DriversTyped, Proposed, OnExperiment
  <2>9. CASE CloseStage(d) \/ AcceptE2E(d)
    <3>1. held[d].stage < Engine!DECIDE /\ held[d].stage # Engine!CREATE_EXPERIMENT
      BY <2>9 DEF CloseStage, AcceptE2E, Closes
    <3>2. OnExperiment(d) /\ spec # Baseline
      BY <2>9 DEF CloseStage, AcceptE2E, Judging, At, OnExperiment, Profiling, Typed, Proposed
    <3>3. Closed(d).stage = held[d].stage + 1
      BY <3>1, ClosedFields
    <3>4. \A e \in Drivers : pc'[e] = pc[e] \/ (e = d /\ pc'[e] = "quality" /\ pc[d] = "profiled")
      BY <2>9 DEF CloseStage, AcceptE2E, Judging, At, Goto, Typed, DriversTyped
    <3>5. /\ UNCHANGED << spec, active >>
          /\ \A e \in Drivers : e # d => held'[e] = held[e]
      BY <2>9 DEF CloseStage, AcceptE2E, SaveRecord, files, Typed, DriversTyped
    <3> QED
      BY <3>2, <3>4, <3>5, MoreProposed
  <2>10. CASE Conclude(d)
    BY <2>10
       DEF Conclude, Typed, Proposed, OnExperiment, FilesTyped, DriversTyped, Goto, At,
           InLock, Profiling, Asking, files
  <2>11. CASE PublishExecution(d) \/ StartQuality(d)
    <3>1. Leave(d) /\ UNCHANGED << record, spec >>
      BY <2>11 DEF PublishExecution, StartQuality
    <3> QED
      BY <3>1, LeaveProposed
  <2>12. CASE BeginResume(d)
    <3>1. /\ \A e \in Drivers : e # d => active'[e] = active[e]
          /\ active'[d].exp = spec
      BY <2>12 DEF BeginResume, Typed, DriversTyped, ActiveExecution
    <3>2. spec # Baseline
      BY <2>12 DEF BeginResume, Dispatched, Typed, Proposed
    <3> QED
      BY <2>12, <3>1, <3>2 DEF BeginResume, files, Goto, Typed, DriversTyped, Proposed, OnExperiment
  <2>13. CASE AcquireLock(d)
    <3>1. /\ \A e \in Drivers : e # d => active'[e] = active[e]
          /\ active'[d].exp = active[d].exp
      BY <2>13, AcquireFields DEF Typed, DriversTyped
    <3>2. OnExperiment(d)
      BY <2>13 DEF AcquireLock, At, OnExperiment
    <3> QED
      BY <2>13, <3>1, <3>2 DEF AcquireLock, Goto, Typed, DriversTyped, Proposed, OnExperiment
  <2>14. CASE RequestRerun(d)
    BY <2>14
       DEF RequestRerun, Locked, Typed, Proposed, OnExperiment, FilesTyped, DriversTyped,
           Goto, At, InLock, Profiling, Asking, files
  <2>15. CASE AnnounceRerun(d)
    <3>1. active' = [active EXCEPT ![d] = Running(active[d])] /\ active[d] \in ActiveExecution
      BY <2>15 DEF AnnounceRerun, Running, Typed, DriversTyped
    <3>2. \A e \in Drivers : active'[e].exp = active[e].exp
      BY <3>1, RunningFields DEF Typed, DriversTyped
    <3>3. OnExperiment(d) /\ OnExperiment(d)'
      BY <2>15 DEF AnnounceRerun, Locked, At, Goto, OnExperiment, InLock, Typed, DriversTyped
    <3> QED
      BY <2>15, <3>2, <3>3 DEF AnnounceRerun, Locked, Goto, Typed, DriversTyped, Proposed,
         OnExperiment
  <2>16. CASE RunRerun(d)
    <3>1. \A e \in Drivers : active'[e].exp = active[e].exp
      BY <2>16, RunRerunFields DEF Typed, DriversTyped
    <3>2. OnExperiment(d) /\ OnExperiment(d)'
      BY <2>16 DEF RunRerun, Locked, At, Goto, OnExperiment, InLock, Typed, DriversTyped
    <3> QED
      BY <2>16, <3>1, <3>2 DEF RunRerun, Locked, Goto, Typed, DriversTyped, Proposed, OnExperiment
  <2>17. CASE SaveRerun(d)
    <3>1. OnExperiment(d) /\ spec # Baseline
      BY <2>17 DEF SaveRerun, Locked, At, OnExperiment, InLock, Typed, Proposed
    <3>2. /\ UNCHANGED << spec, active >>
          /\ \A e \in Drivers : pc'[e] = pc[e] \/ (e = d /\ pc'[e] = "pair")
          /\ \A e \in Drivers : e # d => held'[e] = held[e]
      BY <2>17 DEF SaveRerun, Locked, Goto, SaveRecord, Typed, DriversTyped
    <3> QED
      BY <3>1, <3>2, MoreProposed
  <2>18. CASE NoRerun(d)
    BY <2>18
       DEF NoRerun, Locked, Typed, Proposed, OnExperiment, FilesTyped, DriversTyped, Goto,
           At, InLock, Profiling, Asking, files
  <2>19. CASE RequestPair(d)
    BY <2>19
       DEF RequestPair, Locked, Typed, Proposed, OnExperiment, FilesTyped, DriversTyped,
           Goto, At, InLock, Profiling, Asking, files
  <2>20. CASE RunPair(d)
    <3>1. \A e \in Drivers : active'[e].exp = active[e].exp
      BY <2>20, RunPairFields DEF Typed, DriversTyped
    <3>2. OnExperiment(d) /\ OnExperiment(d)'
      BY <2>20 DEF RunPair, Locked, At, Goto, OnExperiment, InLock, Typed, DriversTyped
    <3> QED
      BY <2>20, <3>1, <3>2 DEF RunPair, Locked, Goto, Typed, DriversTyped, Proposed, OnExperiment
  <2>21. CASE SavePair(d)
    BY <2>21
       DEF SavePair, Locked, Typed, Proposed, OnExperiment, FilesTyped, DriversTyped, Goto,
           At, InLock, Profiling, Asking, files
  <2>22. CASE NoPair(d)
    BY <2>22
       DEF NoPair, Locked, Typed, Proposed, OnExperiment, FilesTyped, DriversTyped, Goto,
           At, InLock, Profiling, Asking, files
  <2>23. CASE ReleaseLock(d)
    BY <2>23
       DEF ReleaseLock, Typed, Proposed, OnExperiment, FilesTyped, DriversTyped, Goto, At,
           InLock, Profiling, Asking, files
  <2>24. CASE PassE2E(d)
    BY <2>24
       DEF PassE2E, Judging, Typed, Proposed, OnExperiment, FilesTyped, DriversTyped, Goto,
           At, InLock, Profiling, Asking, files
  <2>25. CASE RejectEarly(d)
    <3>1. PICK r \in WorkflowRecord, result \in QualityResult : Give(d, r, result)
      BY <2>25, RejectEarlyTyped
    <3>2. OnExperiment(d)
      BY <2>25 DEF RejectEarly, Judging, At, OnExperiment, Profiling
    <3>3. Leave(d) /\ spec' = spec
      BY <3>1, <3>2, GiveFrame DEF files
    <3>4. spec # Baseline
      BY <3>2 DEF Typed, Proposed
    <3> QED
      BY <3>3, <3>4, LeaveProposed
  <2>26. CASE RecordQuality(d)
    <3>1. OnExperiment(d) /\ spec # Baseline
      BY <2>26 DEF RecordQuality, At, OnExperiment, Typed, Proposed
    <3>2. /\ UNCHANGED << spec, active >>
          /\ \A e \in Drivers : pc'[e] = pc[e] \/ (e = d /\ pc'[e] = "decide")
          /\ \A e \in Drivers : e # d => held'[e] = held[e]
      BY <2>26 DEF RecordQuality, Goto, files, SaveRecord, Typed, DriversTyped
    <3> QED
      BY <3>1, <3>2, MoreProposed
  <2>27. CASE Decide(d)
    <3>1. OnExperiment(d) /\ spec # Baseline
      BY <2>27 DEF Decide, At, OnExperiment, Typed, Proposed
    <3>2. Leave(d) /\ spec' = spec
      BY <2>27 DEF Decide, Give, files
    <3> QED
      BY <3>1, <3>2, LeaveProposed
  <2> QED
    BY <1>1, <2>1, <2>2, <2>3, <2>4, <2>5, <2>6, <2>7, <2>8, <2>9, <2>10, <2>11, <2>12,
       <2>13, <2>14, <2>15, <2>16, <2>17, <2>18, <2>19, <2>20, <2>21, <2>22, <2>23, <2>24,
       <2>25, <2>26, <2>27
       DEF Drive, Quit, Profile
<1>2. ASSUME NEW d \in Drivers, Crash(d) PROVE Proposed'
  BY <1>2, CrashFrame, LeaveProposed DEF files
<1>3. CASE Submit
  <2>1. PICK next \in Engine!PermittedNextStages(record.stage) :
          /\ record.stage \in Engine!CLASSIFY_BOTTLENECK .. Engine!CREATE_EXPERIMENT
          /\ record' = Completed(record, next)
          /\ IF record.stage = Engine!CREATE_EXPERIMENT
             THEN spec < MaxExperiments /\ spec' = spec + 1 ELSE spec' = spec
    BY <1>3 DEF Submit
  <2>2. next \in 1 .. 15
          /\ (next > Engine!CREATE_EXPERIMENT => record.stage = Engine!CREATE_EXPERIMENT)
    BY <2>1 DEF Engine!PermittedNextStages, Engine!DeeperProfileStages
  <2>3. record'.stage = next
    BY <2>1, <2>2, CompletedFields DEF Typed, FilesTyped
  <2>4. spec \in Nat
    BY LoopAssumption DEF Typed, FilesTyped, Experiments
  <2>5. UNCHANGED << pc, held, active >>
    BY <1>3 DEF Submit, local
  <2> QED
    BY <2>1, <2>2, <2>3, <2>4, <2>5 DEF Typed, Proposed, OnExperiment
<1>4. CASE ApproveProfile
  BY <1>4 DEF ApproveProfile, loopVars, files, local, Typed, Proposed, OnExperiment
<1>5. CASE EndQuality
  BY <1>5 DEF EndQuality, local, Typed, Proposed, OnExperiment
<1>6. CASE UNCHANGED vars
  BY <1>6 DEF vars, loopVars, files, local, Typed, Proposed, OnExperiment
<1> QED
  BY <1>1, <1>2, <1>3, <1>4, <1>5, <1>6 DEF Next

\* Nor is it at a verdict.
LEMMA LeaveQuality ==
  ASSUME Typed, NEW d \in Drivers, Leave(d), UNCHANGED << task, quality >>
  PROVE  QualityKnown'
BY LeaveFrame DEF Typed, DriversTyped, QualityKnown, QualityOf

\* Every step leaves a hardened verdict with a quality result.
LEMMA QualityStep ==
  ASSUME Typed, [Next]_vars
  PROVE  QualityKnown'
<1>1. ASSUME NEW d \in Drivers, Drive(d) PROVE QualityKnown'
  <2>1. CASE Load(d)
    BY <2>1 DEF Load, Typed, QualityKnown, QualityOf, DriversTyped, Goto, At, files
  <2>2. CASE RunStage(d)
    BY <2>2
       DEF RunStage, Dispatched, SaveRecord, Typed, QualityKnown, QualityOf, DriversTyped,
           Goto, At, files
  <2>3. CASE Quit(d)
    BY <2>3, QuitFrame, LeaveQuality DEF files
  <2>4. CASE DiscoverHotspots(d)
    BY <2>4
       DEF DiscoverHotspots, Dispatched, Typed, QualityKnown, QualityOf, DriversTyped, Goto,
           At, files
  <2>5. CASE AnswerUnavailable(d)
    BY <2>5
       DEF AnswerUnavailable, Dispatched, Typed, QualityKnown, QualityOf, DriversTyped,
           Goto, At, files
  <2>6. CASE SaveUnavailable(d)
    BY <2>6
       DEF SaveUnavailable, SaveRecord, Typed, QualityKnown, QualityOf, DriversTyped, Goto,
           At, files
  <2>7. CASE SaveHotspots(d)
    BY <2>7
       DEF SaveHotspots, SaveRecord, Typed, QualityKnown, QualityOf, DriversTyped, Goto, At,
           files
  <2>8. CASE Profile(d)
    BY <2>8, ProfileFrame DEF files, Typed, DriversTyped, QualityKnown, QualityOf, Profiling, Asking
  <2>9. CASE Execute(d)
    BY <2>9
       DEF Execute, Dispatched, Measured, Typed, QualityKnown, QualityOf, DriversTyped,
           Goto, At, files
  <2>10. CASE CloseStage(d)
    BY <2>10
       DEF CloseStage, SaveRecord, Typed, QualityKnown, QualityOf, DriversTyped, Goto, At,
           files
  <2>11. CASE Conclude(d)
    BY <2>11 DEF Conclude, Typed, QualityKnown, QualityOf, DriversTyped, Goto, At, files
  <2>12. CASE PublishExecution(d)
    <3>1. Leave(d) /\ UNCHANGED << task, quality >>
      BY <2>12 DEF PublishExecution
    <3> QED
      BY <3>1, LeaveQuality
  <2>13. CASE BeginResume(d)
    BY <2>13
       DEF BeginResume, Dispatched, Typed, QualityKnown, QualityOf, DriversTyped, Goto, At,
           files
  <2>14. CASE AcquireLock(d)
    BY <2>14 DEF AcquireLock, Typed, QualityKnown, QualityOf, DriversTyped, Goto, At, files
  <2>15. CASE RequestRerun(d)
    BY <2>15
       DEF RequestRerun, Locked, Typed, QualityKnown, QualityOf, DriversTyped, Goto, At,
           files
  <2>16. CASE AnnounceRerun(d)
    BY <2>16
       DEF AnnounceRerun, Locked, Typed, QualityKnown, QualityOf, DriversTyped, Goto, At,
           files
  <2>17. CASE RunRerun(d)
    BY <2>17
       DEF RunRerun, Locked, Measured, Typed, QualityKnown, QualityOf, DriversTyped, Goto,
           At, files
  <2>18. CASE SaveRerun(d)
    BY <2>18
       DEF SaveRerun, Locked, SaveRecord, Typed, QualityKnown, QualityOf, DriversTyped,
           Goto, At, files
  <2>19. CASE NoRerun(d)
    BY <2>19
       DEF NoRerun, Locked, Typed, QualityKnown, QualityOf, DriversTyped, Goto, At, files
  <2>20. CASE RequestPair(d)
    BY <2>20
       DEF RequestPair, Locked, Typed, QualityKnown, QualityOf, DriversTyped, Goto, At,
           files
  <2>21. CASE RunPair(d)
    BY <2>21
       DEF RunPair, Locked, Measured, Typed, QualityKnown, QualityOf, DriversTyped, Goto,
           At, files
  <2>22. CASE SavePair(d)
    BY <2>22
       DEF SavePair, Locked, Typed, QualityKnown, QualityOf, DriversTyped, Goto, At, files
  <2>23. CASE NoPair(d)
    BY <2>23
       DEF NoPair, Locked, Typed, QualityKnown, QualityOf, DriversTyped, Goto, At, files
  <2>24. CASE ReleaseLock(d)
    BY <2>24 DEF ReleaseLock, Typed, QualityKnown, QualityOf, DriversTyped, Goto, At, files
  <2>25. CASE AcceptE2E(d)
    BY <2>25
       DEF AcceptE2E, SaveRecord, Judging, Typed, QualityKnown, QualityOf, DriversTyped,
           Goto, At, files
  <2>26. CASE PassE2E(d)
    BY <2>26
       DEF PassE2E, Judging, Typed, QualityKnown, QualityOf, DriversTyped, Goto, At, files
  <2>27. CASE RejectEarly(d) \/ Decide(d)
    <3>1. Leave(d) /\ UNCHANGED << task, quality >>
      BY <2>27 DEF RejectEarly, Decide, Give, files
    <3> QED
      BY <3>1, LeaveQuality
  <2>28. CASE StartQuality(d)
    <3>1. /\ quality' = [quality EXCEPT ![active[d].exp] = "OPEN"]
          /\ quality[active[d].exp] = "NONE" /\ task' = task
          /\ \A e \in Drivers : pc'[e] = "decide" => pc[e] = "decide" /\ active'[e] = active[e]
      BY <2>28, LeaveFrame DEF StartQuality, Typed, DriversTyped
    <3> QED
      BY <3>1 DEF Typed, FilesTyped, QualityKnown, QualityOf, QualityResult
  <2>29. CASE RecordQuality(d)
    <3>1. /\ QualityOf(d) \in QualityResult
          /\ UNCHANGED << task, quality, active >>
          /\ \A e \in Drivers : e # d => pc'[e] = pc[e]
      BY <2>29 DEF RecordQuality, Goto, files, Typed, DriversTyped
    <3>2. \A e \in Drivers : QualityOf(e)' = QualityOf(e)
      BY <3>1 DEF QualityOf
    <3> QED
      BY <3>1, <3>2 DEF Typed, QualityKnown
  <2> QED
    BY <1>1, <2>1, <2>2, <2>3, <2>4, <2>5, <2>6, <2>7, <2>8, <2>9, <2>10, <2>11, <2>12,
       <2>13, <2>14, <2>15, <2>16, <2>17, <2>18, <2>19, <2>20, <2>21, <2>22, <2>23, <2>24,
       <2>25, <2>26, <2>27, <2>28, <2>29
       DEF Drive, Quit, Profile
<1>2. ASSUME NEW d \in Drivers, Crash(d) PROVE QualityKnown'
  BY <1>2, CrashFrame, LeaveQuality DEF files
<1>3. CASE Submit
  BY <1>3 DEF Submit, local, Typed, QualityKnown, QualityOf
<1>4. CASE ApproveProfile
  BY <1>4 DEF ApproveProfile, loopVars, files, local, Typed, QualityKnown, QualityOf
<1>5. CASE EndQuality
  <2>1. PICK x \in Experiments : quality[x] = "OPEN" /\ \E end \in QualityState :
          quality' = [quality EXCEPT ![x] = end]
    BY <1>5 DEF EndQuality, QualityState
  <2>2. UNCHANGED << task, pc, active >>
    BY <1>5 DEF EndQuality, local
  <2> QED
    BY <2>1, <2>2 DEF Typed, FilesTyped, QualityKnown, QualityOf, QualityResult
<1>6. CASE UNCHANGED vars
  BY <1>6 DEF vars, loopVars, files, local, Typed, QualityKnown, QualityOf
<1> QED
  BY <1>1, <1>2, <1>3, <1>4, <1>5, <1>6 DEF Next

\* Every step keeps the types.
LEMMA TypedStep ==
  ASSUME Typed, [Next]_vars
  PROVE  Typed'
BY FilesStep, DriversStep, GhostsStep, AttemptsStep, ProposedStep, QualityStep DEF Typed

-----------------------------------------------------------------------------
(***************************************************************************)
(* The lock, and measurements that are repeated.                           *)
(***************************************************************************)

\* A driver that leaves releases only its own lock.
LEMMA LeaveLocking ==
  ASSUME Typed, Locking, NEW d \in Drivers, Leave(d)
  PROVE  Locking'
BY LeaveFrame DEF Typed, DriversTyped, Locking, InLock

\* One driver at a time is inside the lock.
LEMMA LockingStep ==
  ASSUME Typed, Locking, [Next]_vars
  PROVE  Locking'
<1>1. ASSUME NEW d \in Drivers, Drive(d) PROVE Locking'
  <2>1. CASE Load(d)
    BY <2>1 DEF Load, Locking, Typed, DriversTyped, Goto, At, InLock
  <2>2. CASE RunStage(d)
    BY <2>2
       DEF RunStage, Dispatched, SaveRecord, Locking, Typed, DriversTyped, Goto, At, InLock
  <2>3. CASE Quit(d)
    BY <2>3, QuitFrame, LeaveLocking
  <2>4. CASE DiscoverHotspots(d)
    BY <2>4 DEF DiscoverHotspots, Dispatched, Locking, Typed, DriversTyped, Goto, At, InLock
  <2>5. CASE AnswerUnavailable(d)
    BY <2>5
       DEF AnswerUnavailable, Dispatched, Locking, Typed, DriversTyped, Goto, At, InLock
  <2>6. CASE SaveUnavailable(d)
    BY <2>6 DEF SaveUnavailable, SaveRecord, Locking, Typed, DriversTyped, Goto, At, InLock
  <2>7. CASE SaveHotspots(d)
    BY <2>7 DEF SaveHotspots, SaveRecord, Locking, Typed, DriversTyped, Goto, At, InLock
  <2>8. CASE Profile(d)
    BY <2>8, ProfileFrame DEF Typed, DriversTyped, Locking, InLock, Profiling, Asking
  <2>9. CASE Execute(d)
    BY <2>9
       DEF Execute, Dispatched, Measured, Locking, Typed, DriversTyped, Goto, At, InLock
  <2>10. CASE CloseStage(d)
    BY <2>10 DEF CloseStage, SaveRecord, Locking, Typed, DriversTyped, Goto, At, InLock
  <2>11. CASE Conclude(d)
    BY <2>11 DEF Conclude, Locking, Typed, DriversTyped, Goto, At, InLock
  <2>12. CASE PublishExecution(d) \/ StartQuality(d) \/ RejectEarly(d) \/ Decide(d)
    <3>1. Leave(d)
      BY <2>12 DEF PublishExecution, StartQuality, RejectEarly, Decide, Give
    <3> QED
      BY <3>1, LeaveLocking
  <2>13. CASE BeginResume(d)
    BY <2>13 DEF BeginResume, Dispatched, Locking, Typed, DriversTyped, Goto, At, InLock
  <2>14. CASE AcquireLock(d)
    BY <2>14 DEF AcquireLock, Locking, Typed, DriversTyped, Goto, At, InLock
  <2>15. CASE RequestRerun(d)
    BY <2>15 DEF RequestRerun, Locked, Locking, Typed, DriversTyped, Goto, At, InLock
  <2>16. CASE AnnounceRerun(d)
    BY <2>16 DEF AnnounceRerun, Locked, Locking, Typed, DriversTyped, Goto, At, InLock
  <2>17. CASE RunRerun(d)
    BY <2>17 DEF RunRerun, Locked, Measured, Locking, Typed, DriversTyped, Goto, At, InLock
  <2>18. CASE SaveRerun(d)
    BY <2>18
       DEF SaveRerun, Locked, SaveRecord, Locking, Typed, DriversTyped, Goto, At, InLock
  <2>19. CASE NoRerun(d)
    BY <2>19 DEF NoRerun, Locked, Locking, Typed, DriversTyped, Goto, At, InLock
  <2>20. CASE RequestPair(d)
    BY <2>20 DEF RequestPair, Locked, Locking, Typed, DriversTyped, Goto, At, InLock
  <2>21. CASE RunPair(d)
    BY <2>21 DEF RunPair, Locked, Measured, Locking, Typed, DriversTyped, Goto, At, InLock
  <2>22. CASE SavePair(d)
    BY <2>22 DEF SavePair, Locked, Locking, Typed, DriversTyped, Goto, At, InLock
  <2>23. CASE NoPair(d)
    BY <2>23 DEF NoPair, Locked, Locking, Typed, DriversTyped, Goto, At, InLock
  <2>24. CASE ReleaseLock(d)
    BY <2>24 DEF ReleaseLock, Locking, Typed, DriversTyped, Goto, At, InLock
  <2>25. CASE AcceptE2E(d)
    BY <2>25
       DEF AcceptE2E, SaveRecord, Judging, Locking, Typed, DriversTyped, Goto, At, InLock
  <2>26. CASE PassE2E(d)
    BY <2>26 DEF PassE2E, Judging, Locking, Typed, DriversTyped, Goto, At, InLock
  <2>27. CASE RecordQuality(d)
    BY <2>27 DEF RecordQuality, SaveRecord, Locking, Typed, DriversTyped, Goto, At, InLock
  <2> QED
    BY <1>1, <2>1, <2>2, <2>3, <2>4, <2>5, <2>6, <2>7, <2>8, <2>9, <2>10, <2>11, <2>12,
       <2>13, <2>14, <2>15, <2>16, <2>17, <2>18, <2>19, <2>20, <2>21, <2>22, <2>23, <2>24,
       <2>25, <2>26, <2>27
       DEF Drive, Quit, Profile
<1>2. ASSUME NEW d \in Drivers, Crash(d) PROVE Locking'
  BY <1>2, CrashFrame, LeaveLocking
<1>3. CASE Submit
  BY <1>3 DEF Submit, local, Locking
<1>4. CASE ApproveProfile
  BY <1>4 DEF ApproveProfile, loopVars, local, Locking
<1>5. CASE EndQuality
  BY <1>5 DEF EndQuality, local, Locking
<1>6. CASE UNCHANGED vars
  BY <1>6 DEF vars, loopVars, local, Locking
<1> QED
  BY <1>1, <1>2, <1>3, <1>4, <1>5, <1>6 DEF Next

\* A step that begins no rerun and makes no directory keeps the count.
LEMMA NotBegun ==
  ASSUME Typed, AgainCounted, UNCHANGED << dirs, again >>,
         \A x \in Drivers : pc'[x] = "announce_rerun" =>
           pc[x] = "announce_rerun" /\ active'[x] = active[x]
  PROVE  AgainCounted'
<1>1. \A e \in Experiments : Begun(e)' => Begun(e)
  BY DEF Begun
<1>2. \A x \in Drivers : pc'[x] = "announce_rerun" => << "rerun", active'[x].exp >> \in dirs'
  BY DEF AgainCounted
<1>3. ASSUME NEW e \in Experiments
      PROVE  again'[e] <= (IF << "rerun", e >> \in dirs' /\ ~Begun(e)' THEN 1 ELSE 0)
                          + (IF << "pair", e >> \in dirs' THEN 1 ELSE 0)
  <2>1. /\ again[e] <= (IF << "rerun", e >> \in dirs /\ ~Begun(e) THEN 1 ELSE 0)
                       + (IF << "pair", e >> \in dirs THEN 1 ELSE 0)
        /\ again[e] \in Nat
    BY DEF AgainCounted, Typed, GhostsTyped
  <2> QED
    BY <1>1, <2>1
<1> QED
  BY <1>2, <1>3 DEF AgainCounted

\* A measurement is begun again only for a new directory.
LEMMA AgainStep ==
  ASSUME Typed, Locking, AgainCounted, [Next]_vars
  PROVE  AgainCounted'
<1>1. ASSUME NEW d \in Drivers, Drive(d) PROVE AgainCounted'
  <2>1. CASE Load(d) \/ RunStage(d) \/ DiscoverHotspots(d) \/ AnswerUnavailable(d) \/
             SaveUnavailable(d) \/ SaveHotspots(d) \/ CloseStage(d) \/ Conclude(d) \/ SaveRerun(d) \/
             NoRerun(d) \/ SavePair(d) \/ NoPair(d) \/ ReleaseLock(d) \/ AcceptE2E(d) \/ PassE2E(d) \/
             RecordQuality(d)
    <3>1. /\ UNCHANGED << dirs, again >>
          /\ \A x \in Drivers : pc'[x] = "announce_rerun" =>
               pc[x] = "announce_rerun" /\ active'[x] = active[x]
      BY <2>1
         DEF Load, RunStage, Dispatched, SaveRecord, DiscoverHotspots, AnswerUnavailable,
             SaveUnavailable, SaveHotspots, CloseStage, Conclude, SaveRerun, Locked,
             NoRerun, SavePair, NoPair, ReleaseLock, AcceptE2E, Judging, PassE2E,
             RecordQuality, Goto, files, ghosts, Typed, DriversTyped
    <3> QED
      BY <3>1, NotBegun
  <2>2. CASE Quit(d)
    <3>1. /\ UNCHANGED << dirs, again >>
          /\ \A x \in Drivers : pc'[x] = "announce_rerun" =>
               pc[x] = "announce_rerun" /\ active'[x] = active[x]
      BY <2>2, QuitFrame, LeaveFrame DEF Goto, files, ghosts, Typed, DriversTyped
    <3> QED
      BY <3>1, NotBegun
  <2>3. CASE Profile(d)
    <3>1. /\ UNCHANGED << dirs, again >>
          /\ \A x \in Drivers : pc'[x] = "announce_rerun" =>
               pc[x] = "announce_rerun" /\ active'[x] = active[x]
      BY <2>3, ProfileFrame DEF files, ghosts, Typed, DriversTyped, Profiling, Asking
    <3> QED
      BY <3>1, NotBegun
  <2>4. CASE Execute(d) \/ BeginResume(d) \/ AcquireLock(d) \/ RunRerun(d) \/ RunPair(d)
    <3>1. /\ UNCHANGED << dirs, again >>
          /\ \A x \in Drivers : pc'[x] = "announce_rerun" =>
               pc[x] = "announce_rerun" /\ active'[x] = active[x]
      BY <2>4
         DEF Execute, Dispatched, Measured, BeginResume, AcquireLock, RunRerun, Locked,
             RunPair, Goto, files, ghosts, Typed, DriversTyped
    <3> QED
      BY <3>1, NotBegun
  <2>5. CASE PublishExecution(d) \/ StartQuality(d) \/ RejectEarly(d) \/ Decide(d)
    <3>1. /\ UNCHANGED << dirs, again >>
          /\ \A x \in Drivers : pc'[x] = "announce_rerun" =>
               pc[x] = "announce_rerun" /\ active'[x] = active[x]
      BY <2>5, LeaveFrame
         DEF PublishExecution, StartQuality, RejectEarly, Give, Judging, Decide, Goto,
             files, ghosts, Typed, DriversTyped
    <3> QED
      BY <3>1, NotBegun
  <2>6. CASE RequestRerun(d)
    <3> DEFINE x == active[d].exp
    <3>1. /\ << "rerun", x >> \notin dirs /\ dirs' = dirs \cup {<< "rerun", x >>}
          /\ UNCHANGED << active, again >>
          /\ pc' = [pc EXCEPT ![d] = "announce_rerun"] /\ pc'[d] = "announce_rerun"
      BY <2>6 DEF RequestRerun, Locked, Goto, Dir, Typed, DriversTyped
    <3>2. \A e \in Experiments : Begun(e) => Begun(e)'
      BY <3>1 DEF Begun, Typed, DriversTyped
    <3>3. Begun(x)'
      BY <3>1 DEF Begun
    <3>4. \A e \in Experiments : e # x => (Begun(e)' => Begun(e))
      BY <3>1 DEF Begun, Typed, DriversTyped
    <3>5. \A y \in Drivers : pc'[y] = "announce_rerun" => << "rerun", active'[y].exp >> \in dirs'
      BY <3>1 DEF AgainCounted, Typed, DriversTyped
    <3>6. \A e \in Experiments :
            /\ << "rerun", e >> \in dirs' <=> e = x \/ << "rerun", e >> \in dirs
            /\ << "pair", e >> \in dirs' <=> << "pair", e >> \in dirs
            /\ again'[e] = again[e]
      BY <3>1
    <3> HIDE DEF x
    <3>7. ASSUME NEW e \in Experiments
          PROVE  again'[e] <= (IF << "rerun", e >> \in dirs' /\ ~Begun(e)' THEN 1 ELSE 0)
                              + (IF << "pair", e >> \in dirs' THEN 1 ELSE 0)
      <4>1. again[e] <= (IF << "rerun", e >> \in dirs /\ ~Begun(e) THEN 1 ELSE 0)
                        + (IF << "pair", e >> \in dirs THEN 1 ELSE 0)
        BY DEF AgainCounted
      <4>2. CASE e = x
        BY <3>1, <3>3, <3>6, <4>1, <4>2 DEF x
      <4>3. CASE e # x
        BY <3>4, <3>6, <4>1, <4>3 DEF Typed, GhostsTyped
      <4> QED
        BY <4>2, <4>3
    <3> QED
      BY <3>5, <3>7 DEF AgainCounted
  <2>7. CASE AnnounceRerun(d)
    <3> DEFINE x == active[d].exp
    <3>1. /\ pc[d] = "announce_rerun" /\ dirs' = dirs
          /\ pc' = [pc EXCEPT ![d] = "run_rerun"]
      BY <2>7 DEF AnnounceRerun, Locked, At, Goto
    <3>2. x \in Experiments
      BY <2>7, AtHand DEF AnnounceRerun, Locked, At, OnExperiment, InLock
    <3>8. \A e \in Experiments : again'[e] = IF e = x THEN again[e] + 1 ELSE again[e]
      BY <2>7, <3>2 DEF AnnounceRerun, Typed, GhostsTyped
    <3>3. \A y \in Drivers : pc'[y] # "announce_rerun"
      BY <3>1 DEF Locking, InLock, Typed, DriversTyped
    <3>4. \A e \in Experiments : ~Begun(e)'
      BY <3>3 DEF Begun
    <3>5. Begun(x) /\ << "rerun", x >> \in dirs
      BY <3>1 DEF Begun, AgainCounted
    <3> HIDE DEF x
    <3>6. ASSUME NEW e \in Experiments
          PROVE  again'[e] <= (IF << "rerun", e >> \in dirs THEN 1 ELSE 0)
                              + (IF << "pair", e >> \in dirs THEN 1 ELSE 0)
      <4>1. /\ again[e] <= (IF << "rerun", e >> \in dirs /\ ~Begun(e) THEN 1 ELSE 0)
                           + (IF << "pair", e >> \in dirs THEN 1 ELSE 0)
            /\ again[e] \in Nat
            /\ again'[e] = IF e = x THEN again[e] + 1 ELSE again[e]
        BY <3>8 DEF AgainCounted, Typed, GhostsTyped
      <4> QED
        BY <3>5, <4>1
    <3> QED
      BY <3>1, <3>3, <3>4, <3>6 DEF AgainCounted
  <2>8. CASE RequestPair(d)
    <3> DEFINE x == active[d].exp
    <3>1. /\ << "pair", x >> \notin dirs /\ dirs' = dirs \cup {<< "pair", x >>}
          /\ active' = active /\ pc' = [pc EXCEPT ![d] = "run_pair"]
      BY <2>8 DEF RequestPair, Locked, Goto, Dir
    <3>2. x \in Experiments
      BY <2>8, AtHand DEF RequestPair, Locked, At, OnExperiment, InLock
    <3>8. \A e \in Experiments : again'[e] = IF e = x THEN again[e] + 1 ELSE again[e]
      BY <2>8, <3>2 DEF RequestPair, Typed, GhostsTyped
    <3>3. \A e \in Experiments : Begun(e)' => Begun(e)
      BY <3>1 DEF Begun, Typed, DriversTyped
    <3>4. \A y \in Drivers : pc'[y] = "announce_rerun" => << "rerun", active'[y].exp >> \in dirs'
      BY <3>1 DEF AgainCounted, Typed, DriversTyped
    <3>5. \A e \in Experiments :
            /\ << "pair", e >> \in dirs' <=> e = x \/ << "pair", e >> \in dirs
            /\ << "rerun", e >> \in dirs' <=> << "rerun", e >> \in dirs
      BY <3>1
    <3>6. << "pair", x >> \notin dirs
      BY <3>1
    <3> HIDE DEF x
    <3>7. ASSUME NEW e \in Experiments
          PROVE  again'[e] <= (IF << "rerun", e >> \in dirs' /\ ~Begun(e)' THEN 1 ELSE 0)
                              + (IF << "pair", e >> \in dirs' THEN 1 ELSE 0)
      <4>1. /\ again[e] <= (IF << "rerun", e >> \in dirs /\ ~Begun(e) THEN 1 ELSE 0)
                           + (IF << "pair", e >> \in dirs THEN 1 ELSE 0)
            /\ again[e] \in Nat
            /\ again'[e] = IF e = x THEN again[e] + 1 ELSE again[e]
        BY <3>8 DEF AgainCounted, Typed, GhostsTyped
      <4> QED
        BY <3>3, <3>5, <3>6, <4>1
    <3> QED
      BY <3>4, <3>7 DEF AgainCounted
  <2> QED
    BY <1>1, <2>1, <2>2, <2>3, <2>4, <2>5, <2>6, <2>7, <2>8 DEF Drive, Quit, Profile
<1>2. ASSUME NEW d \in Drivers, Crash(d) PROVE AgainCounted'
  <2>1. /\ UNCHANGED << dirs, again >>
        /\ \A x \in Drivers : pc'[x] = "announce_rerun" =>
             pc[x] = "announce_rerun" /\ active'[x] = active[x]
    BY <1>2, CrashFrame, LeaveFrame DEF files, Typed, DriversTyped
  <2> QED
    BY <2>1, NotBegun
<1>3. CASE Submit
  <2>1. /\ UNCHANGED << dirs, again >>
        /\ \A x \in Drivers : pc'[x] = "announce_rerun" =>
             pc[x] = "announce_rerun" /\ active'[x] = active[x]
    BY <1>3 DEF Submit, local, ghosts
  <2> QED
    BY <2>1, NotBegun
<1>4. CASE ApproveProfile
  <2>1. /\ UNCHANGED << dirs, again >>
        /\ \A x \in Drivers : pc'[x] = "announce_rerun" =>
             pc[x] = "announce_rerun" /\ active'[x] = active[x]
    BY <1>4 DEF ApproveProfile, loopVars, files, local, ghosts
  <2> QED
    BY <2>1, NotBegun
<1>5. CASE EndQuality
  <2>1. /\ UNCHANGED << dirs, again >>
        /\ \A x \in Drivers : pc'[x] = "announce_rerun" =>
             pc[x] = "announce_rerun" /\ active'[x] = active[x]
    BY <1>5 DEF EndQuality, local, ghosts
  <2> QED
    BY <2>1, NotBegun
<1>6. CASE UNCHANGED vars
  <2>1. /\ UNCHANGED << dirs, again >>
        /\ \A x \in Drivers : pc'[x] = "announce_rerun" =>
             pc[x] = "announce_rerun" /\ active'[x] = active[x]
    BY <1>6 DEF vars, loopVars, files, local, ghosts
  <2> QED
    BY <2>1, NotBegun
<1> QED
  BY <1>1, <1>2, <1>3, <1>4, <1>5, <1>6 DEF Next

\* Each directory pays for one measurement.
LEMMA CountedMeansOnce == Typed /\ AgainCounted => MeasuredAgainOnce
<1> SUFFICES ASSUME Typed, AgainCounted, NEW e \in Experiments
             PROVE  again[e] <= Cardinality({ x \in dirs : x[2] = e })
  BY DEF MeasuredAgainOnce
<1> DEFINE R == << "rerun", e >>
           P == << "pair", e >>
           S == { x \in dirs : x[2] = e }
<1>1. S = {R, P} \cap dirs
  BY DEF Typed, FilesTyped
<1>2. R # P
  OBVIOUS
<1>3. again[e] \in Nat /\ again[e] <= (IF R \in dirs THEN 1 ELSE 0) + (IF P \in dirs THEN 1 ELSE 0)
  BY DEF Typed, GhostsTyped, AgainCounted
<1> HIDE DEF R, P, S
<1>0. /\ IsFiniteSet({R}) /\ Cardinality({R}) = 1 /\ Cardinality({P}) = 1
      /\ Cardinality({}) = 0
  BY FS_Singleton, FS_EmptySet, Zenon
<1>4. CASE R \in dirs /\ P \in dirs
  <2>1. S = {R} \cup {P}
    BY <1>1, <1>4
  <2>2. Cardinality({R} \cup {P}) = IF P \in {R} THEN Cardinality({R}) ELSE Cardinality({R}) + 1
    BY <1>0, FS_AddElement, Zenon
  <2>3. Cardinality(S) = 2
    BY <1>0, <1>2, <2>1, <2>2
  <2> QED
    BY <1>3, <1>4, <2>3 DEF S
<1>5. CASE R \in dirs /\ P \notin dirs
  <2>1. S = {R}
    BY <1>1, <1>5
  <2>2. Cardinality(S) = 1
    BY <1>0, <2>1
  <2> QED
    BY <1>3, <1>5, <2>2 DEF S
<1>6. CASE R \notin dirs /\ P \in dirs
  <2>1. S = {P}
    BY <1>1, <1>6
  <2>2. Cardinality(S) = 1
    BY <1>0, <2>1
  <2> QED
    BY <1>3, <1>6, <2>2 DEF S
<1>7. CASE R \notin dirs /\ P \notin dirs
  <2>1. S = {}
    BY <1>1, <1>7
  <2>2. Cardinality(S) = 0
    BY <1>0, <2>1
  <2> QED
    BY <1>3, <1>7, <2>2 DEF S
<1> QED
  BY <1>4, <1>5, <1>6, <1>7

-----------------------------------------------------------------------------
(***************************************************************************)
(* Profiles, and what is accepted.                                         *)
(***************************************************************************)

\* Nothing changes for a driver.
Same(x) ==
  /\ pc'[x] = pc[x] /\ held'[x] = held[x] /\ active'[x] = active[x]
  /\ target'[x] = target[x] /\ seen'[x] = seen[x]

\* A driver that leaves touches no profile and no other driver.
LEMMA LeaveElsewhere ==
  ASSUME Typed, NEW d \in Drivers, Leave(d)
  PROVE  /\ UNCHANGED << profiles, rawProfile, transports >>
         /\ pc'[d] = "idle" /\ pc'[d] \notin Profiling \cup {"quality", "decide"}
         /\ \A x \in Drivers : x # d => Same(x)
BY LeaveFrame DEF Same, Profiling, Asking, Typed, DriversTyped, AttemptsTyped, ProfileTypeOK

\* Profiles stay taken when a driver goes on to something else.
LEMMA Elsewhere ==
  ASSUME Typed, ProfilesTaken, NEW d \in Drivers,
         UNCHANGED << task, profiles, rawProfile, transports >>,
         pc'[d] \notin Profiling \cup {"quality", "decide"},
         \A x \in Drivers : x # d => Same(x)
  PROVE  ProfilesTaken'
BY DEF Same, ProfilesTaken, ProfileTaken, Profiling

\* Only raw profiling and a transport change what was profiled.
LEMMA TakenCases ==
  ASSUME Typed, [Next]_vars
  PROVE  \/ UNCHANGED << rawProfile, transports >>
         \/ \E d \in Drivers : RunRaw(d) \/ Transport(d)
<1>1. ASSUME NEW d \in Drivers, Drive(d), ~RunRaw(d), ~Transport(d)
      PROVE  UNCHANGED << rawProfile, transports >>
  <2>1. CASE Load(d) \/ RunStage(d) \/ DiscoverHotspots(d) \/ AnswerUnavailable(d) \/
             SaveUnavailable(d) \/ SaveHotspots(d) \/ ReuseProfile(d) \/ OpenProfile(d) \/
             UseReceipt(d) \/ Execute(d) \/ CloseStage(d)
    BY <2>1, LeaveFrame
       DEF Load, RunStage, Dispatched, SaveRecord, DiscoverHotspots, AnswerUnavailable,
           SaveUnavailable, SaveHotspots, ReuseProfile, ProfileStep, OpenProfile,
           UseReceipt, Receipt, Execute, Measured, CloseStage, OpenAttempt, Forget,
           profileVars
  <2>2. CASE Conclude(d) \/ PublishExecution(d) \/ BeginResume(d) \/ AcquireLock(d) \/
             RequestRerun(d) \/ AnnounceRerun(d) \/ RunRerun(d) \/ SaveRerun(d) \/ NoRerun(d) \/
             RequestPair(d) \/ RunPair(d)
    BY <2>2, LeaveFrame
       DEF Conclude, PublishExecution, BeginResume, Dispatched, AcquireLock, RequestRerun,
           Locked, AnnounceRerun, RunRerun, Measured, SaveRerun, SaveRecord, NoRerun,
           RequestPair, RunPair, OpenAttempt, Forget, profileVars, Receipt
  <2>3. CASE SavePair(d) \/ NoPair(d) \/ ReleaseLock(d) \/ AcceptE2E(d) \/ PassE2E(d) \/
             RejectEarly(d) \/ StartQuality(d) \/ RecordQuality(d) \/ Decide(d)
    BY <2>3, LeaveFrame
       DEF SavePair, Locked, NoPair, ReleaseLock, AcceptE2E, SaveRecord, Judging, PassE2E,
           RejectEarly, Give, StartQuality, RecordQuality, Decide, OpenAttempt, Forget,
           profileVars, Receipt
  <2>4. CASE Quit(d)
    BY <2>4, QuitFrame, LeaveFrame
  <2> QED
    BY <1>1, <2>1, <2>2, <2>3, <2>4 DEF Drive, Quit
<1>2. ASSUME NEW d \in Drivers, Crash(d) PROVE UNCHANGED << rawProfile, transports >>
  BY <1>2, CrashFrame, LeaveFrame
<1>3. CASE Submit \/ ApproveProfile \/ EndQuality \/ UNCHANGED vars
  BY <1>3 DEF Submit, ApproveProfile, Approve, EndQuality, vars, profileVars
<1> QED
  BY <1>1, <1>2, <1>3 DEF Next

\* A profile step concerns one driver.
LEMMA ProfileOthers ==
  ASSUME Typed, NEW d \in Drivers, Profile(d)
  PROVE  \A x \in Drivers : x # d => seen'[x] = seen[x]
<1>1. CASE ReuseProfile(d) \/ RunRaw(d) \/ UseReceipt(d)
  BY <1>1 DEF ReuseProfile, RunRaw, UseReceipt, ProfileStep, StartRaw, FinishRaw, profileVars
<1>2. CASE OpenProfile(d)
  BY <1>2 DEF OpenProfile, ProfileStep, OpenAttempt, Typed, AttemptsTyped, ProfileTypeOK
<1>3. CASE Transport(d)
  <2>1. ASSUME NEW status, CallServer(d, target[d], status)
        PROVE  \E a : seen' = [seen EXCEPT ![d] = a]
    BY <2>1 DEF CallServer, Write
  <2>2. SpendReceipt(d, target[d]) => seen' = seen
    BY DEF SpendReceipt
  <2>3. AnnounceTransport(d, target[d]) => \E a : seen' = [seen EXCEPT ![d] = a]
    BY DEF AnnounceTransport, Write
  <2>4. RequestAgain(d, target[d]) => \E a : seen' = [seen EXCEPT ![d] = a]
    BY DEF RequestAgain, Write
  <2>5. seen' = seen \/ \E a : seen' = [seen EXCEPT ![d] = a]
    BY <1>3, <2>1, <2>2, <2>3, <2>4, TransportCases
  <2> QED
    BY <2>5 DEF Typed, AttemptsTyped, ProfileTypeOK
<1> QED
  BY <1>1, <1>2, <1>3 DEF Profile

\* Until the call returns with evidence, no attempt a driver writes is a success.
LEMMA TransportWrites ==
  ASSUME Typed, NEW d \in Drivers, Transport(d), pc[d] \in Asking, ~Succeeded(seen[d]),
         pc'[d] # "profiled"
  PROVE  \/ UNCHANGED << profiles, seen >>
         \/ \E a \in Seq(AttemptStatus) :
              /\ profiles' = [profiles EXCEPT ![target[d]] = a]
              /\ seen' = [seen EXCEPT ![d] = a] /\ ~Succeeded(a)
<1>0. /\ "evidence_inconclusive" \in Retryable \cup {"succeeded"}
      /\ "transport_failed" \in Retryable \cup {"succeeded"}
  BY DEF Retryable
<1>1. CASE SpendReceipt(d, target[d])
  BY <1>1 DEF SpendReceipt
<1>2. CASE AnnounceTransport(d, target[d])
  BY <1>2, AnnounceFields
<1>3. CASE CallServer(d, target[d], "evidence_inconclusive")
  BY <1>0, <1>3, CallFields
<1>4. CASE CallServer(d, target[d], "transport_failed")
  BY <1>0, <1>4, CallFields
<1>5. CASE RequestAgain(d, target[d])
  BY <1>5, AgainFields
<1>6. pc' = [pc EXCEPT ![d] = "profiled"] => pc'[d] = "profiled"
  BY DEF Typed, DriversTyped
<1> QED
  BY <1>1, <1>2, <1>3, <1>4, <1>5, <1>6, TransportCases

\* A transport that ends in a profile called the server.
LEMMA TransportSucceeds ==
  ASSUME Typed, NEW d \in Drivers, Transport(d), pc'[d] = "profiled"
  PROVE  /\ pc[d] = "transport" /\ CallServer(d, target[d], "succeeded")
         /\ transports' = [transports EXCEPT ![target[d]][Len(seen[d])] = @ + 1]
         /\ \A t \in Targets : t # target[d] => profiles'[t] = profiles[t]
<1>1. pc[d] = "transport" /\ CallServer(d, target[d], "succeeded")
  BY TransportCases DEF Typed, DriversTyped
<1> QED
  BY <1>1 DEF CallServer, Write, Typed, DriversTyped, AttemptsTyped, ProfileTypeOK

\* The profile of a target is taken, or was taken before.
LEMMA TakenLater ==
  ASSUME Typed, [Next]_vars
  PROVE  \A t \in Targets : ProfileTaken(t) => ProfileTaken(t)'
<1>1. CASE UNCHANGED << rawProfile, transports >>
  BY <1>1 DEF ProfileTaken
<1>2. ASSUME NEW d \in Drivers, RunRaw(d)
      PROVE \A t \in Targets : ProfileTaken(t) => ProfileTaken(t)'
  BY <1>2 DEF RunRaw, ProfileStep, StartRaw, FinishRaw, ProfileComplete, ProfileTaken, Typed,
              DriversTyped, AttemptsTyped, ProfileTypeOK
<1>3. ASSUME NEW d \in Drivers, Transport(d)
      PROVE \A t \in Targets : ProfileTaken(t) => ProfileTaken(t)'
  <2>0. pc[d] \in Asking
    BY <1>3, TransportCases DEF Asking
  <2>1. \/ UNCHANGED << rawProfile, transports >>
        \/ /\ UNCHANGED rawProfile
           /\ transports' = [transports EXCEPT ![target[d]][Len(seen[d])] = @ + 1]
    BY <1>3, TransportCases DEF SpendReceipt, AnnounceTransport, RequestAgain, CallServer
  <2>2. CASE /\ UNCHANGED rawProfile
             /\ transports' = [transports EXCEPT ![target[d]][Len(seen[d])] = @ + 1]
    <3>1. ASSUME NEW t \in Targets, NEW n \in 1 .. MaxProfileAttempts
          PROVE  transports[t][n] > 0 => transports'[t][n] > 0
      BY <2>0, <2>2, Asked DEF Typed, AttemptsTyped, ProfileTypeOK
    <3>2. \A t \in Targets : /\ DOMAIN transports[t] = 1 .. MaxProfileAttempts
                             /\ DOMAIN transports'[t] = 1 .. MaxProfileAttempts
      BY <2>0, <2>2, Asked DEF Typed, AttemptsTyped, ProfileTypeOK
    <3> QED
      BY <2>2, <3>1, <3>2 DEF ProfileTaken
  <2> QED
    BY <1>1, <2>1, <2>2
<1>4. \/ UNCHANGED << rawProfile, transports >>
      \/ \E d \in Drivers : RunRaw(d) \/ Transport(d)
  BY TakenCases
<1> QED
  BY <1>1, <1>2, <1>3, <1>4

\* A step that takes or asks for a profile.
LEMMA ProfileTakes ==
  ASSUME Typed, ProfilesTaken, NEW d \in Drivers, Profile(d), [Next]_vars
  PROVE  ProfilesTaken'
<1>1. /\ UNCHANGED << task, held, active, target >>
      /\ pc[d] \in Profiling /\ pc'[d] \in Profiling
      /\ \A x \in Drivers : x # d => pc'[x] = pc[x] /\ seen'[x] = seen[x]
  BY ProfileFrame, ProfileOthers DEF Typed, DriversTyped
<1>2. \A t \in Targets : ProfileTaken(t) => ProfileTaken(t)'
  BY TakenLater
<1>3. target[d] \in Targets /\ \A x \in Drivers : target[x] \in Targets /\ active[x].exp \in Targets
  BY ExecutionFields DEF Typed, DriversTyped
<1>4. /\ \A t \in Targets : Succeeded(profiles'[t]) => ProfileTaken(t)'
      /\ pc'[d] \in Asking => ~Succeeded(seen'[d])
      /\ pc'[d] = "profiled" => ProfileTaken(target[d])'
  <2>1. CASE ReuseProfile(d)
    BY <1>2, <1>3, <2>1 DEF ReuseProfile, ProfileStep, Goto, ProfileComplete, profileVars,
       ProfilesTaken,
       ProfileTaken, Asking, Typed, DriversTyped
  <2>2. CASE OpenProfile(d)
    <3>1. OpenAttempt(d, target[d]) /\ pc'[d] = "receipt"
      BY <2>2 DEF OpenProfile, ProfileStep, Goto, Typed, DriversTyped
    <3>2. PICK a \in Seq(AttemptStatus) :
            /\ profiles' = [profiles EXCEPT ![target[d]] = a]
            /\ seen' = [seen EXCEPT ![d] = a] /\ ~Succeeded(a)
      BY <3>1, OpenFields
    <3> QED
      BY <1>2, <1>3, <3>1, <3>2 DEF ProfilesTaken, Typed, AttemptsTyped, ProfileTypeOK
  <2>3. CASE RunRaw(d)
    <3>1. /\ UNCHANGED << profiles, seen, transports >>
          /\ \/ pc'[d] = "raw"
             \/ pc'[d] = "profiled" /\ rawProfile'[target[d]] = "done"
      BY <1>3, <2>3 DEF RunRaw, ProfileStep, Goto, StartRaw, FinishRaw, Typed, DriversTyped,
         AttemptsTyped,
         ProfileTypeOK
    <3>2. pc'[d] = "profiled" => ProfileTaken(target[d])'
      BY <1>1, <3>1 DEF ProfileTaken
    <3> QED
      BY <1>2, <3>1, <3>2 DEF ProfilesTaken, Asking
  <2>4. CASE UseReceipt(d)
    BY <1>2, <2>4 DEF UseReceipt, ProfileStep, At, Goto, profileVars, ProfilesTaken, Asking, Typed,
       DriversTyped
  <2>5. CASE Transport(d)
    <3>1. pc[d] \in Asking /\ ~Succeeded(seen[d])
      BY <2>5, TransportCases DEF Asking, ProfilesTaken
    <3>2. CASE pc'[d] # "profiled"
      <4>1. \/ UNCHANGED << profiles, seen >>
            \/ \E a \in Seq(AttemptStatus) :
                 /\ profiles' = [profiles EXCEPT ![target[d]] = a]
                 /\ seen' = [seen EXCEPT ![d] = a] /\ ~Succeeded(a)
        BY <2>5, <3>1, <3>2, TransportWrites
      <4> QED
        BY <1>2, <1>3, <3>1, <3>2, <4>1 DEF ProfilesTaken, Typed, AttemptsTyped, ProfileTypeOK
    <3>3. CASE pc'[d] = "profiled"
      <4>1. /\ transports' = [transports EXCEPT ![target[d]][Len(seen[d])] = @ + 1]
            /\ \A t \in Targets : t # target[d] => profiles'[t] = profiles[t]
        BY <2>5, <3>1, <3>3, TransportSucceeds
      <4>2. Len(seen[d]) \in 1 .. MaxProfileAttempts
        BY <3>1, Asked
      <4>3. /\ transports'[target[d]][Len(seen[d])] > 0
            /\ Len(seen[d]) \in DOMAIN transports'[target[d]]
        <5> DEFINE t == target[d]
                   n == Len(seen[d])
        <5>1. /\ t \in Targets /\ n \in 1 .. MaxProfileAttempts
              /\ transports \in [Targets -> [1 .. MaxProfileAttempts -> Nat]]
              /\ transports' = [transports EXCEPT ![t][n] = @ + 1]
          BY <1>3, <4>1, <4>2 DEF Typed, AttemptsTyped, ProfileTypeOK
        <5> HIDE DEF t, n
        <5>2. DOMAIN transports'[t] = 1 .. MaxProfileAttempts
                /\ transports'[t][n] = transports[t][n] + 1
          BY <5>1
        <5>3. transports[t][n] \in Nat
          BY <5>1
        <5>4. n \in DOMAIN transports'[t] /\ transports'[t][n] > 0
          BY <5>1, <5>2, <5>3
        <5> QED
          BY <5>4 DEF t, n
      <4>4. ProfileTaken(target[d])'
        <5>1. ASSUME NEW e, e = target[d] PROVE ProfileTaken(e)'
          BY <4>3, <5>1 DEF ProfileTaken
        <5> QED
          BY <1>1, <5>1
      <4> QED
        BY <1>1, <1>2, <3>3, <4>1, <4>4 DEF ProfilesTaken, Asking
    <3> QED
      BY <3>2, <3>3
  <2> QED
    BY <2>1, <2>2, <2>3, <2>4, <2>5 DEF Profile
<1>5. ASSUME NEW x \in Drivers
      PROVE  (pc'[x] = "quality" \/ (pc'[x] = "decide" /\ task'.hardened)) =>
        ProfileTaken(active[x].exp)'
  <2>1. ASSUME NEW e \in Targets, e = active[x].exp,
               pc'[x] = "quality" \/ (pc'[x] = "decide" /\ task'.hardened)
        PROVE  ProfileTaken(e)'
    <3>1. x # d
      BY <1>1, <2>1 DEF Profiling, Asking
    <3> QED
      BY <1>1, <1>2, <2>1, <3>1 DEF ProfilesTaken
  <2> QED
    BY <1>1, <1>3, <2>1
<1>6. ASSUME NEW x \in Drivers PROVE pc'[x] = "profiled" => ProfileTaken(target[x])'
  <2>1. ASSUME NEW t \in Targets, t = target[x], pc'[x] = "profiled", x # d
        PROVE  ProfileTaken(t)'
    BY <1>1, <1>2, <2>1 DEF ProfilesTaken
  <2> QED
    BY <1>1, <1>3, <1>4, <2>1
<1>7. ASSUME NEW x \in Drivers
      PROVE  /\ pc'[x] \in Asking => ~Succeeded(seen'[x])
             /\ pc'[x] \in Profiling /\ held'[x].stage # Engine!DISCOVER_HOTSPOTS =>
                  target'[x] = active'[x].exp
  BY <1>1, <1>4 DEF ProfilesTaken
<1>8. \A t \in Targets : Succeeded(profiles'[t]) => ProfileTaken(t)'
  BY <1>4
<1> QED
  BY <1>5, <1>6, <1>7, <1>8 DEF ProfilesTaken

\* A profile is used only when it is taken.
LEMMA ProfilesStep ==
  ASSUME Typed, ProfilesTaken, [Next]_vars
  PROVE  ProfilesTaken'
<1>1. ASSUME NEW d \in Drivers, Drive(d) PROVE ProfilesTaken'
  <2>1. CASE Load(d) \/ AnswerUnavailable(d) \/ SaveUnavailable(d) \/ Execute(d) \/
             BeginResume(d) \/
             AcquireLock(d) \/ RequestRerun(d)
    <3>1. /\ UNCHANGED << task, profiles, rawProfile, transports >>
          /\ pc'[d] \notin Profiling \cup {"quality", "decide"}
          /\ \A x \in Drivers : x # d => Same(x)
      BY <2>1
         DEF Load, AnswerUnavailable, Dispatched, SaveUnavailable, SaveRecord, Execute,
             Measured, BeginResume, AcquireLock, RequestRerun, Locked, Same, Goto, files,
             profileVars, Profiling, Asking, Typed, DriversTyped, AttemptsTyped,
             ProfileTypeOK
    <3> QED
      BY <3>1, Elsewhere
  <2>2. CASE RunStage(d) \/ CloseStage(d)
    <3>1. /\ UNCHANGED << task, profiles, rawProfile, transports >>
          /\ pc'[d] \notin Profiling \cup {"quality", "decide"}
          /\ \A x \in Drivers : x # d => Same(x)
      BY <2>2 DEF RunStage, CloseStage, Dispatched, At, SaveRecord, Same, files, profileVars,
         Profiling,
               Asking, Typed, DriversTyped, AttemptsTyped, ProfileTypeOK
    <3> QED
      BY <3>1, Elsewhere
  <2>3. CASE Quit(d)
    <3>1. /\ UNCHANGED << task, profiles, rawProfile, transports >>
          /\ pc'[d] \notin Profiling \cup {"quality", "decide"}
          /\ \A x \in Drivers : x # d => Same(x)
      BY <2>3, QuitFrame, LeaveElsewhere DEF files
    <3> QED
      BY <3>1, Elsewhere
  <2>4. CASE DiscoverHotspots(d)
    <3>1. /\ UNCHANGED << task, profiles, rawProfile, transports >>
          /\ pc'[d] = "profile" /\ held'[d].stage = Engine!DISCOVER_HOTSPOTS
          /\ \A x \in Drivers : x # d => Same(x)
      BY <2>4 DEF DiscoverHotspots, Dispatched, Goto, Same, files, profileVars, Typed, DriversTyped
    <3> QED
      BY <3>1 DEF Same, ProfilesTaken, ProfileTaken, Asking
  <2>5. CASE SaveHotspots(d)
    <3>1. /\ UNCHANGED << task, profiles, rawProfile, transports >>
          /\ pc' = [pc EXCEPT ![d] = "dispatch"]
          /\ UNCHANGED << active, target >>
      BY <2>5 DEF SaveHotspots, Forget, Goto
    <3>2. held' = [held EXCEPT ![d] = Hotspots(held[d], "timing")]
            /\ seen' = [seen EXCEPT ![d] = << >>]
      BY <2>5 DEF SaveHotspots, Forget, SaveRecord
    <3>3. pc'[d] \notin Profiling \cup {"quality", "decide"}
      BY <3>1 DEF Profiling, Asking, Typed, DriversTyped
    <3>4. \A x \in Drivers : x # d => Same(x)
      BY <3>1, <3>2 DEF Same, Typed, DriversTyped, AttemptsTyped, ProfileTypeOK
    <3> QED
      BY <3>1, <3>3, <3>4, Elsewhere
  <2>6. CASE Profile(d)
    BY <2>6, ProfileTakes
  <2>7. CASE RecordQuality(d) \/ Conclude(d)
    <3>1. /\ UNCHANGED << task, profiles, rawProfile, transports >>
          /\ pc'[d] = "decide" /\ active'[d] = active[d]
          /\ \A x \in Drivers : x # d => Same(x)
      BY <2>7 DEF RecordQuality, Conclude, SaveRecord, Goto, Same, files, profileVars, Typed,
         DriversTyped
    <3>2. task.hardened => ProfileTaken(active[d].exp)
      BY <2>7 DEF RecordQuality, Conclude, At, ProfilesTaken
    <3> QED
      BY <3>1, <3>2 DEF Same, ProfilesTaken, ProfileTaken, Asking, Profiling
  <2>8. CASE PublishExecution(d) \/ StartQuality(d) \/ RejectEarly(d) \/ Decide(d)
    <3>1. /\ UNCHANGED << task, profiles, rawProfile, transports >>
          /\ pc'[d] \notin Profiling \cup {"quality", "decide"}
          /\ \A x \in Drivers : x # d => Same(x)
      <4>1. Leave(d) /\ task' = task
        BY <2>8 DEF PublishExecution, StartQuality, RejectEarly, Decide, Give
      <4> QED
        BY <4>1, LeaveElsewhere
    <3> QED
      BY <3>1, Elsewhere
  <2>9. CASE AnnounceRerun(d) \/ RunRerun(d) \/ SaveRerun(d) \/ NoRerun(d) \/ RequestPair(d) \/
             RunPair(d) \/ SavePair(d) \/ NoPair(d)
    <3>1. /\ UNCHANGED << task, profiles, rawProfile, transports >>
          /\ pc'[d] \notin Profiling \cup {"quality", "decide"}
          /\ \A x \in Drivers : x # d => Same(x)
      BY <2>9
         DEF AnnounceRerun, Locked, RunRerun, Measured, SaveRerun, SaveRecord, NoRerun,
             RequestPair, RunPair, SavePair, NoPair, Same, Goto, files, profileVars,
             Profiling, Asking, Typed, DriversTyped, AttemptsTyped, ProfileTypeOK
    <3> QED
      BY <3>1, Elsewhere
  <2>10. CASE ReleaseLock(d)
    <3>1. /\ UNCHANGED << task, profiles, rawProfile, transports >>
          /\ pc'[d] = "profile" /\ target'[d] = active'[d].exp
          /\ \A x \in Drivers : x # d => Same(x)
      BY <2>10 DEF ReleaseLock, Goto, Same, files, profileVars, Typed, DriversTyped
    <3> QED
      BY <3>1 DEF Same, ProfilesTaken, ProfileTaken, Asking
  <2>11. CASE AcceptE2E(d) \/ PassE2E(d)
    <3>1. /\ UNCHANGED << task, profiles, rawProfile, transports >>
          /\ pc'[d] = "quality" /\ active'[d] = active[d]
          /\ \A x \in Drivers : x # d => Same(x)
      BY <2>11 DEF AcceptE2E, PassE2E, SaveRecord, Goto, Same, files, profileVars, Typed,
         DriversTyped
    <3>2. ProfileTaken(active[d].exp)
      BY <2>11 DEF AcceptE2E, PassE2E, Judging, At, ProfilesTaken, Profiling
    <3> QED
      BY <3>1, <3>2 DEF Same, ProfilesTaken, ProfileTaken, Asking, Profiling
  <2> QED
    BY <1>1, <2>1, <2>2, <2>3, <2>4, <2>5, <2>6, <2>7, <2>8, <2>9, <2>10, <2>11
       DEF Drive, Quit, Profile
<1>2. ASSUME NEW d \in Drivers, Crash(d) PROVE ProfilesTaken'
  <2>1. /\ UNCHANGED << task, profiles, rawProfile, transports >>
        /\ pc'[d] \notin Profiling \cup {"quality", "decide"}
        /\ \A x \in Drivers : x # d => Same(x)
    BY <1>2, CrashFrame, LeaveElsewhere
  <2> QED
    BY <2>1, Elsewhere
<1>3. CASE Submit
  BY <1>3 DEF Submit, local, profileVars, ProfilesTaken, ProfileTaken
<1>4. CASE ApproveProfile
  BY <1>4 DEF ApproveProfile, Approve, loopVars, local, profileVars, ProfilesTaken, ProfileTaken
<1>5. CASE EndQuality
  BY <1>5 DEF EndQuality, local, profileVars, ProfilesTaken, ProfileTaken
<1>6. CASE UNCHANGED vars
  BY <1>6 DEF vars, loopVars, local, profileVars, ProfilesTaken, ProfileTaken
<1> QED
  BY <1>1, <1>2, <1>3, <1>4, <1>5, <1>6 DEF Next

-----------------------------------------------------------------------------
(***************************************************************************)
(* Verdicts.                                                               *)
(***************************************************************************)

\* What a step cannot undo, and which steps give verdicts.
Steady ==
  /\ task' = task
  /\ overlaps' = 0 => overlaps = 0
  /\ Undisturbed' => Undisturbed
  /\ \A e \in Experiments : quality[e] = "PASSED" => quality'[e] = "PASSED"
  /\ verdicts' = verdicts \/ \E d \in Drivers : RejectEarly(d) \/ Decide(d)

\* A step that touches none of it is steady.
LEMMA Still ==
  ASSUME UNCHANGED << task, quality, verdicts, crashes, overlaps >>
  PROVE  Steady
BY DEF Steady, Undisturbed

\* Passed quality stays, and an overlap or a crash is not forgotten.
LEMMA StepsAreSteady ==
  ASSUME Typed, [Next]_vars
  PROVE  Steady
<1>1. ASSUME NEW d \in Drivers, Drive(d) PROVE Steady
  <2>1. CASE Load(d)
    BY <2>1 DEF Load, Steady, files, Undisturbed, Typed, GhostsTyped
  <2>2. CASE RunStage(d) \/ DiscoverHotspots(d) \/ AnswerUnavailable(d) \/ SaveUnavailable(d) \/
             SaveHotspots(d) \/ Execute(d) \/ CloseStage(d) \/ Conclude(d)
    <3>1. UNCHANGED << task, quality, verdicts, crashes, overlaps >>
      BY <2>2
         DEF RunStage, Dispatched, SaveRecord, DiscoverHotspots, AnswerUnavailable,
             SaveUnavailable, SaveHotspots, Execute, Measured, CloseStage, Conclude, files,
             ghosts
    <3> QED
      BY <3>1, Still
  <2>3. CASE Quit(d)
    <3>1. UNCHANGED << task, quality, verdicts, crashes, overlaps >>
      BY <2>3, QuitFrame DEF files, ghosts
    <3> QED
      BY <3>1, Still
  <2>4. CASE Profile(d)
    <3>1. UNCHANGED << task, quality, verdicts, crashes, overlaps >>
      BY <2>4, ProfileFrame DEF files, ghosts
    <3> QED
      BY <3>1, Still
  <2>5. CASE PublishExecution(d) \/ BeginResume(d) \/ AcquireLock(d) \/ RequestRerun(d) \/
             AnnounceRerun(d) \/ RunRerun(d) \/ SaveRerun(d) \/ NoRerun(d)
    <3>1. UNCHANGED << task, quality, verdicts, crashes, overlaps >>
      BY <2>5
         DEF PublishExecution, BeginResume, Dispatched, AcquireLock, RequestRerun, Locked,
             AnnounceRerun, RunRerun, Measured, SaveRerun, SaveRecord, NoRerun, files,
             ghosts
    <3> QED
      BY <3>1, Still
  <2>6. CASE RequestPair(d) \/ RunPair(d) \/ SavePair(d) \/ NoPair(d) \/ ReleaseLock(d) \/
             AcceptE2E(d) \/ PassE2E(d) \/ RecordQuality(d)
    <3>1. UNCHANGED << task, quality, verdicts, crashes, overlaps >>
      BY <2>6
         DEF RequestPair, Locked, RunPair, Measured, SavePair, NoPair, ReleaseLock,
             AcceptE2E, SaveRecord, Judging, PassE2E, RecordQuality, files, ghosts
    <3> QED
      BY <3>1, Still
  <2>7. CASE RejectEarly(d) \/ Decide(d)
    BY <2>7 DEF RejectEarly, Decide, Give, Steady, files, Undisturbed
  <2>8. CASE StartQuality(d)
    BY <2>8 DEF StartQuality, Steady, ghosts, Undisturbed, Typed, FilesTyped
  <2> QED
    BY <1>1, <2>1, <2>2, <2>3, <2>4, <2>5, <2>6, <2>7, <2>8 DEF Drive, Quit, Profile
<1>2. ASSUME NEW d \in Drivers, Crash(d) PROVE Steady
  BY <1>2, CrashFrame DEF Steady, Undisturbed, files, Typed, GhostsTyped
<1>3. CASE Submit
  BY <1>3 DEF Submit, Steady, Undisturbed, ghosts, local
<1>4. CASE ApproveProfile
  BY <1>4 DEF ApproveProfile, loopVars, Steady, Undisturbed, files, ghosts
<1>5. CASE EndQuality
  BY <1>5 DEF EndQuality, Steady, Undisturbed, ghosts, Typed, FilesTyped
<1>6. CASE UNCHANGED vars
  BY <1>6 DEF vars, loopVars, Steady, Undisturbed, files, ghosts
<1> QED
  BY <1>1, <1>2, <1>3, <1>4, <1>5, <1>6 DEF Next

\* A verdict is added to those given.
LEMMA VerdictAdded ==
  ASSUME verdicts \in Seq(Verdict), NEW v \in Verdict, verdicts' = Append(verdicts, v)
  PROVE  /\ DOMAIN verdicts' = 1 .. Len(verdicts) + 1 /\ DOMAIN verdicts = 1 .. Len(verdicts)
         /\ Len(verdicts) \in Nat /\ Len(verdicts') = Len(verdicts) + 1
         /\ \A n \in DOMAIN verdicts : verdicts'[n] = verdicts[n]
         /\ verdicts'[Len(verdicts) + 1] = v
BY DEF Verdict

\* An accepting verdict of a hardened task rests on what Accepted demands.
LEMMA VerdictGiven ==
  ASSUME Typed, ProfilesTaken, NEW d \in Drivers, RejectEarly(d) \/ Decide(d)
  PROVE  \E v \in Verdict :
           /\ verdicts' = Append(verdicts, v)
           /\ v.exp = active[d].exp /\ v.exp \in Experiments /\ v.sample = active[d].sample
           /\ task.hardened /\ v.outcome = "ACCEPT" =>
                pc[d] = "decide" /\ quality[v.exp] = "PASSED" /\ ProfileTaken(v.exp)
<1>0. OnExperiment(d)
  BY RejectEarlyGives DEF Decide, At, OnExperiment, Profiling, Asking
<1>1. active[d] \in ActiveExecution /\ active[d].exp \in Experiments
  BY <1>0, AtHand
<1>2. active[d].gate \in PreGate \cup {"INITIAL"}
  BY <1>1, ExecutionFields
<1>3. CASE RejectEarly(d)
  <2>1. PICK r \in WorkflowRecord : Give(d, r, "SKIPPED") /\ active[d].gate = "REJECT"
    <3>1. /\ active[d].gate = "REJECT"
          /\ Give(d, Rejected(held[d], active[d].exp, active[d].sample), "SKIPPED")
      BY <1>3, RejectEarlyGives
    <3>2. Rejected(held[d], active[d].exp, active[d].sample) \in WorkflowRecord
      BY <1>1, ExecutionFields, RejectedFields DEF Typed, DriversTyped
    <3> QED
      BY <3>1, <3>2
  <2>2. "SKIPPED" \in QualityResult
    BY DEF QualityResult
  <2>3. PICK decision \in Engine!GateDecision, v \in Verdict :
          /\ decision = Decision(active[d].gate, "SKIPPED")
          /\ verdicts' = Append(verdicts, v)
          /\ v.exp = active[d].exp /\ v.sample = active[d].sample
          /\ v.outcome = decision.outcome
    BY <1>0, <2>1, <2>2, GiveFrame
  <2>4. v.outcome = "REJECT"
    BY <1>2, <2>1, <2>2, <2>3, DecisionOfGates
  <2> QED
    BY <1>1, <2>3, <2>4
<1>4. CASE Decide(d)
  <2>0. pc[d] = "decide" /\ held[d] \in WorkflowRecord
    BY <1>4 DEF Decide, At, Typed, DriversTyped
  <2>1. PICK result \in QualityResult :
          Give(d, held[d], result) /\ (task.hardened => result = QualityOf(d))
    BY <1>4, <2>0, DecideGives DEF Typed, QualityKnown
  <2>2. PICK decision \in Engine!GateDecision, v \in Verdict :
          /\ decision = Decision(active[d].gate, result)
          /\ verdicts' = Append(verdicts, v)
          /\ v.exp = active[d].exp /\ v.sample = active[d].sample
          /\ v.outcome = decision.outcome
    BY <1>0, <2>0, <2>1, GiveFrame
  <2>3. v.outcome = "ACCEPT" => result = "PASSED"
    BY <1>2, <2>2, DecisionOfGates
  <2>4. task.hardened /\ v.outcome = "ACCEPT" => quality[active[d].exp] = "PASSED"
    BY <2>1, <2>3 DEF QualityOf
  <2>5. task.hardened => ProfileTaken(active[d].exp)
    BY <2>0 DEF ProfilesTaken
  <2> QED
    BY <1>1, <2>0, <2>2, <2>4, <2>5
<1> QED
  BY <1>3, <1>4

\* Every verdict names an experiment.
LEMMA VerdictsNamed ==
  ASSUME NEW given \in Seq(Verdict), NEW n \in DOMAIN given
  PROVE  given[n] \in Verdict /\ given[n].exp \in Experiments
<1>1. given[n] \in Verdict
  OBVIOUS
<1> QED
  BY <1>1 DEF Verdict

\* Accepted evidence is not lost, and no acceptance comes without it.
LEMMA AcceptedStep ==
  ASSUME Typed, ProfilesTaken, Accepted, [Next]_vars
  PROVE  Accepted'
<1>1. Steady
  BY StepsAreSteady
<1>2. \A t \in Targets : ProfileTaken(t) => ProfileTaken(t)'
  BY TakenLater
<1>3. ASSUME NEW n \in DOMAIN verdicts, task.hardened, verdicts[n].outcome = "ACCEPT",
             NEW e \in Targets, e = verdicts[n].exp
      PROVE  quality'[e] = "PASSED" /\ ProfileTaken(e)'
  <2>1. e \in Experiments /\ quality[e] = "PASSED" /\ ProfileTaken(e)
    BY <1>3, VerdictsNamed DEF Accepted, Typed, GhostsTyped
  <2> QED
    BY <1>1, <1>2, <2>1 DEF Steady
<1>4. \A n \in DOMAIN verdicts : verdicts[n].exp \in Targets
  BY VerdictsNamed, LoopAssumption DEF Typed, GhostsTyped
<1>5. SUFFICES ASSUME NEW n \in DOMAIN verdicts', task'.hardened, verdicts'[n].outcome = "ACCEPT",
                      NEW e \in Targets, e = verdicts'[n].exp
               PROVE  quality'[e] = "PASSED" /\ ProfileTaken(e)'
  <2>1. verdicts' \in Seq(Verdict)
    BY TypedStep DEF Typed, GhostsTyped
  <2>2. \A n \in DOMAIN verdicts' : verdicts'[n].exp \in Targets
    BY <2>1, VerdictsNamed, LoopAssumption
  <2> QED
    BY <2>2 DEF Accepted
<1>6. CASE verdicts' = verdicts
  BY <1>1, <1>3, <1>5, <1>6 DEF Steady
<1>7. ASSUME NEW d \in Drivers, RejectEarly(d) \/ Decide(d)
      PROVE  quality'[e] = "PASSED" /\ ProfileTaken(e)'
  <2>1. PICK v \in Verdict :
           /\ verdicts' = Append(verdicts, v)
           /\ v.exp \in Experiments
           /\ task.hardened /\ v.outcome = "ACCEPT" =>
                quality[v.exp] = "PASSED" /\ ProfileTaken(v.exp)
    BY <1>7, VerdictGiven
  <2>2. CASE n \in DOMAIN verdicts
    BY <1>1, <1>3, <1>5, <2>1, <2>2, VerdictAdded DEF Steady, Typed, GhostsTyped
  <2>3. CASE n \notin DOMAIN verdicts
    <3>1. verdicts'[n] = v
      BY <1>5, <2>1, <2>3, VerdictAdded DEF Typed, GhostsTyped
    <3> QED
      BY <1>1, <1>2, <1>5, <2>1, <3>1 DEF Steady
  <2> QED
    BY <2>2, <2>3
<1> QED
  BY <1>1, <1>6, <1>7 DEF Steady

-----------------------------------------------------------------------------
(***************************************************************************)
(* One driver at a time.                                                   *)
(***************************************************************************)

\* A driver that leaves is idle, and the others stand still.
LEMMA LeaveOthers ==
  ASSUME Typed, NEW d \in Drivers, Leave(d)
  PROVE  pc'[d] = "idle" /\ \A x \in Drivers : x # d => Same(x)
BY LeaveElsewhere

\* What one driver does leaves the others where they are.
LEMMA Others ==
  ASSUME Typed, NEW d \in Drivers, Drive(d) \/ Crash(d)
  PROVE  \A x \in Drivers : x # d => Same(x)
<1>1. CASE Load(d)
  BY <1>1 DEF Load, Same, Goto, profileVars, Typed, DriversTyped
<1>2. CASE RunStage(d)
  BY <1>2 DEF RunStage, Dispatched, SaveRecord, Same, Goto, profileVars, Typed, DriversTyped
<1>3. CASE Quit(d)
  BY <1>3, QuitFrame, LeaveOthers
<1>4. CASE DiscoverHotspots(d)
  BY <1>4 DEF DiscoverHotspots, Dispatched, Same, Goto, profileVars, Typed, DriversTyped
<1>5. CASE AnswerUnavailable(d)
  BY <1>5 DEF AnswerUnavailable, Dispatched, Same, Goto, profileVars, Typed, DriversTyped
<1>6. CASE SaveUnavailable(d)
  BY <1>6 DEF SaveUnavailable, SaveRecord, Same, Goto, profileVars, Typed, DriversTyped
<1>7. CASE SaveHotspots(d)
  <2>1. pc' = [pc EXCEPT ![d] = "dispatch"] /\ UNCHANGED << active, target >>
    BY <1>7 DEF SaveHotspots, Goto
  <2>2. held' = [held EXCEPT ![d] = Hotspots(held[d], "timing")]
          /\ seen' = [seen EXCEPT ![d] = << >>]
    BY <1>7 DEF SaveHotspots, Forget, SaveRecord
  <2> QED
    BY <2>1, <2>2 DEF Same, Typed, DriversTyped, AttemptsTyped, ProfileTypeOK
<1>8. CASE Profile(d)
  BY <1>8, ProfileFrame, ProfileOthers DEF Same, Typed, DriversTyped
<1>9. CASE Execute(d)
  BY <1>9 DEF Execute, Dispatched, Measured, Same, Goto, profileVars, Typed, DriversTyped
<1>10. CASE CloseStage(d)
  BY <1>10 DEF CloseStage, SaveRecord, Same, Goto, profileVars, Typed, DriversTyped
<1>11. CASE Conclude(d)
  BY <1>11 DEF Conclude, Same, Goto, profileVars, Typed, DriversTyped
<1>12. CASE PublishExecution(d) \/ StartQuality(d) \/ RejectEarly(d) \/ Decide(d)
  <2>1. Leave(d)
    BY <1>12 DEF PublishExecution, StartQuality, RejectEarly, Decide, Give
  <2> QED
    BY <2>1, LeaveOthers
<1>13. CASE BeginResume(d)
  BY <1>13 DEF BeginResume, Dispatched, Same, Goto, profileVars, Typed, DriversTyped
<1>14. CASE AcquireLock(d)
  BY <1>14 DEF AcquireLock, Same, Goto, profileVars, Typed, DriversTyped
<1>15. CASE RequestRerun(d)
  BY <1>15 DEF RequestRerun, Locked, Same, Goto, profileVars, Typed, DriversTyped
<1>16. CASE AnnounceRerun(d)
  BY <1>16 DEF AnnounceRerun, Locked, Same, Goto, profileVars, Typed, DriversTyped
<1>17. CASE RunRerun(d)
  BY <1>17 DEF RunRerun, Locked, Measured, Same, Goto, profileVars, Typed, DriversTyped
<1>18. CASE SaveRerun(d)
  BY <1>18 DEF SaveRerun, Locked, SaveRecord, Same, Goto, profileVars, Typed, DriversTyped
<1>19. CASE NoRerun(d)
  BY <1>19 DEF NoRerun, Locked, Same, Goto, profileVars, Typed, DriversTyped
<1>20. CASE RequestPair(d)
  BY <1>20 DEF RequestPair, Locked, Same, Goto, profileVars, Typed, DriversTyped
<1>21. CASE RunPair(d)
  BY <1>21 DEF RunPair, Locked, Measured, Same, Goto, profileVars, Typed, DriversTyped
<1>22. CASE SavePair(d)
  BY <1>22 DEF SavePair, Locked, Same, Goto, profileVars, Typed, DriversTyped
<1>23. CASE NoPair(d)
  BY <1>23 DEF NoPair, Locked, Same, Goto, profileVars, Typed, DriversTyped
<1>24. CASE ReleaseLock(d)
  BY <1>24 DEF ReleaseLock, Same, Goto, profileVars, Typed, DriversTyped
<1>25. CASE AcceptE2E(d)
  BY <1>25 DEF AcceptE2E, SaveRecord, Judging, Same, Goto, profileVars, Typed, DriversTyped
<1>26. CASE PassE2E(d)
  BY <1>26 DEF PassE2E, Judging, Same, Goto, profileVars, Typed, DriversTyped
<1>27. CASE RecordQuality(d)
  BY <1>27 DEF RecordQuality, SaveRecord, Same, Goto, profileVars, Typed, DriversTyped
<1>28. CASE Crash(d)
  BY <1>28, CrashFrame, LeaveOthers
<1> QED
  BY <1>1, <1>2, <1>3, <1>4, <1>5, <1>6, <1>7, <1>8, <1>9, <1>10, <1>11, <1>12, <1>13,
     <1>14, <1>15, <1>16, <1>17, <1>18, <1>19, <1>20, <1>21, <1>22, <1>23, <1>24, <1>25,
     <1>26, <1>27, <1>28
     DEF Drive, Quit, Profile

\* A driver that is not started beside another one finds all others at rest.
LEMMA OthersIdle ==
  ASSUME Typed, Alone, overlaps' = 0, NEW d \in Drivers, Drive(d) \/ Crash(d)
  PROVE  \A x \in Drivers : x # d => pc[x] = "idle" /\ Same(x) /\ pc'[x] = "idle"
<1>1. \A x \in Drivers : x # d => Same(x)
  BY Others
<1>2. CASE Load(d)
  <2>1. \A x \in Drivers : pc[x] = "idle"
    BY <1>2 DEF Load, At, Typed, GhostsTyped
  <2> QED
    BY <1>1, <2>1 DEF Same
<1>3. CASE ~Load(d)
  <2>1. pc[d] # "idle"
    BY <1>3 DEF Drive, Crash, At, RunStage, Pause, DiscoverHotspots, AnswerUnavailable,
       SaveUnavailable, SaveHotspots, ReuseProfile, OpenProfile, RunRaw, UseReceipt, AwaitApproval,
       Transport, AskAgain, Execute, CloseStage, Conclude, PublishExecution, BeginResume,
       AcquireLock, RefuseResume, RefuseMeasurement, RequestRerun, AnnounceRerun, RunRerun,
       SaveRerun, NoRerun, RequestPair, RunPair, SavePair, NoPair, ReleaseLock, AcceptE2E,
       PassE2E, RemainsInconclusive, RejectEarly, StartQuality, AwaitQuality, RecordQuality,
       RefuseQuality, Decide, Dispatched, ProfileStep, Locked, Judging
  <2>2. \A x \in Drivers : x # d => pc[x] = "idle"
    BY <2>1 DEF Alone, At
  <2> QED
    BY <1>1, <2>2 DEF Same
<1> QED
  BY <1>2, <1>3

\* Drivers that do not overlap take their turns.
LEMMA AloneStep ==
  ASSUME Typed, Alone, overlaps' = 0, [Next]_vars
  PROVE  Alone'
<1>1. ASSUME NEW d \in Drivers, Drive(d) \/ Crash(d) PROVE Alone'
  BY <1>1, OthersIdle DEF Alone, At
<1>2. CASE Submit \/ ApproveProfile \/ EndQuality \/ UNCHANGED vars
  BY <1>2 DEF Submit, ApproveProfile, EndQuality, vars, loopVars, local, Alone, At
<1> QED
  BY <1>1, <1>2 DEF Next

\* A lone driver goes on at the stages its step is for.
LEMMA WorksStep ==
  ASSUME Typed, NEW d \in Drivers, Drive(d), pc[d] # "idle" => Works(d)
  PROVE  pc'[d] # "idle" => Works(d)'
<1>1. CASE Load(d)
  BY <1>1
     DEF Load, Works, OnExperiment, InLock, Profiling, Asking, Goto, At, files, Typed,
         DriversTyped
<1>2. CASE RunStage(d)
  <2>1. pc[d] = "dispatch" /\ pc'[d] = "dispatch" /\ held[d] = record /\ record.stage \in 1 .. 5
    BY <1>2 DEF RunStage, Dispatched, At, Works
  <2>2. record' = Completed(record, record.stage + 1) /\ held'[d] = record'
    BY <1>2, <2>1 DEF RunStage, SaveRecord, Typed, DriversTyped
  <2>3. record.stage + 1 \in 1 .. 15 /\ record \in WorkflowRecord
    BY <2>1 DEF Typed, FilesTyped
  <2>4. record'.status = "ACTIVE"
    BY <2>1, <2>2, <2>3, CompletedFields DEF Works
  <2> QED
    BY <2>1, <2>2, <2>4 DEF Works, OnExperiment, InLock, Profiling, Asking
<1>3. CASE Quit(d)
  BY <1>3, QuitFrame, LeaveOthers
<1>4. CASE DiscoverHotspots(d)
  BY <1>4
     DEF DiscoverHotspots, Dispatched, Works, OnExperiment, InLock, Profiling, Asking, Goto,
         At, files, Typed, DriversTyped
<1>5. CASE AnswerUnavailable(d)
  BY <1>5
     DEF AnswerUnavailable, Dispatched, Works, OnExperiment, InLock, Profiling, Asking,
         Goto, At, files, Typed, DriversTyped
<1>6. CASE SaveUnavailable(d)
  <2>1. pc'[d] = "dispatch" /\ record' = Hotspots(held[d], "unavailable") /\ held'[d] = record'
    BY <1>6 DEF SaveUnavailable, SaveRecord, Goto, Typed, DriversTyped
  <2>2. held[d].status = "ACTIVE" /\ held[d] \in WorkflowRecord
    BY <1>6 DEF SaveUnavailable, At, Works, Typed, DriversTyped
  <2>3. record'.status = "ACTIVE"
    BY <2>1, <2>2, HotspotsFields
  <2> QED
    BY <2>1, <2>3 DEF Works, OnExperiment, InLock, Profiling, Asking
<1>7. CASE SaveHotspots(d)
  <2>1. pc'[d] = "dispatch" /\ record' = Hotspots(held[d], "timing") /\ held'[d] = record'
    BY <1>7 DEF SaveHotspots, SaveRecord, Goto, Typed, DriversTyped
  <2>2. held[d].status = "ACTIVE" /\ held[d] \in WorkflowRecord
    BY <1>7 DEF SaveHotspots, At, Works, Typed, DriversTyped
  <2>3. record'.status = "ACTIVE"
    BY <2>1, <2>2, HotspotsFields
  <2> QED
    BY <2>1, <2>3 DEF Works, OnExperiment, InLock, Profiling, Asking
<1>8. CASE Profile(d)
  <2>1. pc[d] \in Profiling /\ pc'[d] \in Profiling
    BY <1>8, ProfileFrame DEF Typed, DriversTyped, Profiling
  <2>2. UNCHANGED << record, spec, held, active, task >>
    BY <1>8, ProfileFrame DEF files
  <2> QED
    BY <2>1, <2>2 DEF Works, OnExperiment, InLock, Profiling, Asking
<1>9. CASE Execute(d)
  <2>1. /\ pc'[d] = "close" /\ pc[d] = "dispatch" /\ held[d].stage = Engine!PATCH_AND_BUILD
        /\ UNCHANGED << task, record, spec, held >>
    BY <1>9 DEF Execute, Dispatched, At, Goto, Typed, DriversTyped
  <2>2. active'[d].exp = spec
    <3>1. PICK gate \in PreGate : active'[d] = FirstRun(spec, samples[spec] + 1, gate)
      BY <1>9 DEF Execute, FirstRun, Typed, DriversTyped
    <3>2. spec \in Experiments /\ samples[spec] + 1 \in Nat
      BY <1>9, LoopAssumption DEF Execute, Typed, FilesTyped, GhostsTyped
    <3> QED
      BY <3>1, <3>2, FirstRunFields
  <2> QED
    BY <2>1, <2>2 DEF Works, OnExperiment, InLock, Profiling, Asking
<1>10. CASE CloseStage(d)
  <2>1. /\ pc'[d] = "close" /\ pc[d] = "close" /\ held[d] = record
        /\ record' = Closed(d) /\ held'[d] = record' /\ UNCHANGED << task, spec, active >>
    BY <1>10 DEF CloseStage, SaveRecord, At, Works, files, Typed, DriversTyped
  <2>2. /\ held[d].stage \in Engine!PATCH_AND_BUILD .. Engine!QUALITY_VALIDATION
        /\ task.hardened => held[d].stage <= Engine!E2E_VALIDATION
    BY <1>10 DEF CloseStage, Closes
  <2>3. record'.stage = record.stage + 1 /\ record'.status = record.status
    <3>1. held[d].stage < Engine!DECIDE /\ held[d].stage # Engine!CREATE_EXPERIMENT
      BY <2>1, <2>2
    <3>2. Closed(d).stage = held[d].stage + 1 /\ Closed(d).status = held[d].status
      BY <3>1, ClosedFields
    <3> QED
      BY <2>1, <2>2, <3>2
  <2> QED
    BY <2>1, <2>2, <2>3 DEF Works, OnExperiment, InLock, Profiling, Asking
<1>11. CASE Conclude(d)
  <2>1. /\ pc'[d] = "decide" /\ pc[d] = "close" /\ UNCHANGED << task, record, spec, held, active >>
    BY <1>11 DEF Conclude, Goto, At, files, Typed, DriversTyped
  <2>2. record.stage = Engine!DECIDE
    BY <1>11, <2>1 DEF Conclude, Closes, Works
  <2> QED
    BY <2>1, <2>2 DEF Works, OnExperiment, InLock, Profiling, Asking
<1>12. CASE PublishExecution(d) \/ StartQuality(d) \/ RejectEarly(d) \/ Decide(d)
  <2>1. Leave(d)
    BY <1>12 DEF PublishExecution, StartQuality, RejectEarly, Decide, Give
  <2> QED
    BY <2>1, LeaveOthers
<1>13. CASE BeginResume(d)
  <2>1. /\ pc'[d] = "lock" /\ pc[d] = "dispatch" /\ UNCHANGED << task, record, spec, held >>
        /\ held[d].stage \in {Engine!E2E_VALIDATION, Engine!QUALITY_VALIDATION}
    BY <1>13 DEF BeginResume, Dispatched, Goto, At, files, Typed, DriversTyped
  <2>2. active'[d].exp = spec
    BY <1>13, AtHand DEF BeginResume, Typed, DriversTyped, ActiveExecution
  <2> QED
    BY <2>1, <2>2 DEF Works, OnExperiment, InLock, Profiling, Asking
<1>14. CASE AcquireLock(d)
  <2>1. /\ pc'[d] = "rerun" /\ pc[d] = "lock" /\ UNCHANGED << task, record, spec >>
        /\ held'[d] = record
    BY <1>14 DEF AcquireLock, Goto, At, Typed, DriversTyped
  <2>2. active'[d].exp = active[d].exp
    BY <1>14, AcquireFields DEF Typed, DriversTyped
  <2>3. active[d].exp = spec
    BY <2>1 DEF Works, OnExperiment
  <2> QED
    BY <2>1, <2>2, <2>3 DEF Works, OnExperiment, InLock, Profiling, Asking
<1>15. CASE RequestRerun(d)
  BY <1>15
     DEF RequestRerun, Locked, Works, OnExperiment, InLock, Profiling, Asking, Goto, At,
         files, Typed, DriversTyped
<1>16. CASE AnnounceRerun(d)
  <2>1. /\ pc'[d] = "run_rerun" /\ pc[d] = "announce_rerun"
           /\ UNCHANGED << task, record, spec, held >>
    BY <1>16 DEF AnnounceRerun, Locked, Goto, At, Typed, DriversTyped
  <2>2. active'[d].exp = active[d].exp
    <3>1. active'[d] = Running(active[d]) /\ active[d] \in ActiveExecution
      BY <1>16 DEF AnnounceRerun, Running, Typed, DriversTyped
    <3> QED
      BY <3>1, RunningFields
  <2> QED
    BY <2>1, <2>2 DEF Works, OnExperiment, InLock, Profiling, Asking
<1>17. CASE RunRerun(d)
  <2>1. /\ pc'[d] = "save_rerun" /\ pc[d] = "run_rerun" /\ UNCHANGED << task, record, spec, held >>
    BY <1>17 DEF RunRerun, Locked, Goto, At, Typed, DriversTyped
  <2>2. active'[d].exp = active[d].exp
    BY <1>17, RunRerunFields DEF Typed, DriversTyped
  <2> QED
    BY <2>1, <2>2 DEF Works, OnExperiment, InLock, Profiling, Asking
<1>18. CASE SaveRerun(d)
  <2>1. /\ pc'[d] = "pair" /\ pc[d] = "save_rerun" /\ UNCHANGED << task, spec, active >>
        /\ record' = Reopened(held[d]) /\ held'[d] = record'
    BY <1>18 DEF SaveRerun, Locked, SaveRecord, Reopened, Goto, At, Typed, DriversTyped
  <2>2. held[d] = record /\ record.status = "ACTIVE" /\ active[d].exp = spec
          /\ held[d] \in WorkflowRecord
    BY <2>1 DEF Works, OnExperiment, InLock, Typed, DriversTyped
  <2>3. record'.status = "ACTIVE" /\ record'.stage = Engine!E2E_VALIDATION
    BY <2>1, <2>2, ReopenedFields
  <2> QED
    BY <2>1, <2>2, <2>3 DEF Works, OnExperiment, InLock, Profiling, Asking
<1>19. CASE NoRerun(d)
  BY <1>19
     DEF NoRerun, Locked, Works, OnExperiment, InLock, Profiling, Asking, Goto, At, files,
         Typed, DriversTyped
<1>20. CASE RequestPair(d)
  BY <1>20
     DEF RequestPair, Locked, Works, OnExperiment, InLock, Profiling, Asking, Goto, At,
         files, Typed, DriversTyped
<1>21. CASE RunPair(d)
  <2>1. /\ pc'[d] = "save_pair" /\ pc[d] = "run_pair" /\ UNCHANGED << task, record, spec, held >>
    BY <1>21 DEF RunPair, Locked, Goto, At, Typed, DriversTyped
  <2>2. active'[d].exp = active[d].exp
    BY <1>21, RunPairFields DEF Typed, DriversTyped
  <2> QED
    BY <2>1, <2>2 DEF Works, OnExperiment, InLock, Profiling, Asking
<1>22. CASE SavePair(d)
  BY <1>22
     DEF SavePair, Locked, Works, OnExperiment, InLock, Profiling, Asking, Goto, At, files,
         Typed, DriversTyped
<1>23. CASE NoPair(d)
  BY <1>23
     DEF NoPair, Locked, Works, OnExperiment, InLock, Profiling, Asking, Goto, At, files,
         Typed, DriversTyped
<1>24. CASE ReleaseLock(d)
  BY <1>24
     DEF ReleaseLock, Works, OnExperiment, InLock, Profiling, Asking, Goto, At, files,
         Typed, DriversTyped
<1>25. CASE AcceptE2E(d)
  <2>1. /\ pc'[d] = "quality" /\ pc[d] = "profiled" /\ UNCHANGED << task, spec, active >>
        /\ held[d].stage = Engine!E2E_VALIDATION /\ record' = Closed(d) /\ held'[d] = record'
    BY <1>25 DEF AcceptE2E, Judging, SaveRecord, Goto, At, files, Typed, DriversTyped
  <2>2. held[d] = record /\ record.status = "ACTIVE" /\ active[d].exp = spec
    BY <2>1 DEF Works, OnExperiment, Profiling
  <2>3. record'.status = "ACTIVE" /\ record'.stage = Engine!QUALITY_VALIDATION
    <3>1. held[d].stage < Engine!DECIDE /\ held[d].stage # Engine!CREATE_EXPERIMENT
      BY <2>1, <2>2
    <3>2. Closed(d).stage = held[d].stage + 1 /\ Closed(d).status = held[d].status
      BY <3>1, ClosedFields
    <3> QED
      BY <2>1, <2>2, <3>2
  <2> QED
    BY <2>1, <2>2, <2>3 DEF Works, OnExperiment, InLock, Profiling, Asking
<1>26. CASE PassE2E(d)
  BY <1>26
     DEF PassE2E, Judging, Works, OnExperiment, InLock, Profiling, Asking, Goto, At, files,
         Typed, DriversTyped
<1>27. CASE RecordQuality(d)
  <2>1. /\ pc'[d] = "decide" /\ pc[d] = "quality" /\ UNCHANGED << task, spec, active >>
        /\ record' = Completed(held[d], Engine!DECIDE) /\ held'[d] = record'
    BY <1>27 DEF RecordQuality, SaveRecord, Goto, At, files, Typed, DriversTyped
  <2>2. held[d] = record /\ record.status = "ACTIVE" /\ active[d].exp = spec
          /\ held[d] \in WorkflowRecord
    BY <2>1 DEF Works, OnExperiment, Typed, DriversTyped
  <2>3. record'.status = "ACTIVE" /\ record'.stage = Engine!DECIDE
    BY <2>1, <2>2, CompletedFields
  <2> QED
    BY <2>1, <2>2, <2>3 DEF Works, OnExperiment, InLock, Profiling, Asking
<1> QED
  BY <1>1, <1>2, <1>3, <1>4, <1>5, <1>6, <1>7, <1>8, <1>9, <1>10, <1>11, <1>12, <1>13,
     <1>14, <1>15, <1>16, <1>17, <1>18, <1>19, <1>20, <1>21, <1>22, <1>23, <1>24, <1>25,
     <1>26, <1>27
     DEF Drive, Quit, Profile

\* A decision is submitted while no driver is beyond its dispatch.
LEMMA SubmitMeets ==
  ASSUME Typed, NEW d \in Drivers, pc[d] # "idle", Works(d), Submit
  PROVE  pc[d] = "dispatch" /\ pc'[d] = "dispatch" /\ Works(d)'
<1>1. /\ record.stage \in Engine!CLASSIFY_BOTTLENECK .. Engine!CREATE_EXPERIMENT
      /\ UNCHANGED << pc, held >> /\ record \in WorkflowRecord
  BY DEF Submit, local, Typed, FilesTyped
<1>2. pc[d] = "dispatch"
  BY <1>1 DEF Works, InLock, Profiling, Asking, Typed, DriversTyped, Label
<1>3. PICK next \in 1 .. 15 : record' = Completed(record, next)
  <2>1. PICK next \in Engine!PermittedNextStages(record.stage) : record' = Completed(record, next)
    BY DEF Submit
  <2> QED
    BY <1>1, <2>1 DEF Engine!PermittedNextStages, Engine!DeeperProfileStages
<1>4. record'.status = "ACTIVE"
  BY <1>1, <1>3, CompletedFields DEF Works
<1> QED
  BY <1>1, <1>2, <1>4 DEF Works, OnExperiment, InLock, Profiling, Asking

\* A lone driver works on the stored record, whatever the step.
LEMMA AllWork ==
  ASSUME Typed, Alone, \A d \in Drivers : pc[d] # "idle" => Works(d), overlaps' = 0, [Next]_vars
  PROVE  \A d \in Drivers : pc'[d] # "idle" => Works(d)'
<1>1. ASSUME NEW d \in Drivers, Drive(d) PROVE \A x \in Drivers : pc'[x] # "idle" => Works(x)'
  BY <1>1, OthersIdle, WorksStep
<1>2. ASSUME NEW d \in Drivers, Crash(d) PROVE \A x \in Drivers : pc'[x] # "idle" => Works(x)'
  BY <1>2, OthersIdle, CrashFrame, LeaveOthers
<1>3. CASE Submit
  BY <1>3, SubmitMeets DEF Submit, local
<1>4. CASE ApproveProfile \/ EndQuality \/ UNCHANGED vars
  BY <1>4 DEF ApproveProfile, EndQuality, vars, loopVars, local, files, Works, OnExperiment
<1> QED
  BY <1>1, <1>2, <1>3, <1>4 DEF Next

\* An experiment is under way.
InExperiment == record.status = "ACTIVE" /\ record.stage > Engine!CREATE_EXPERIMENT

\* Without a verdict, no driver begins an experiment.
LEMMA NoVerdict ==
  ASSUME Typed, NEW d \in Drivers, Drive(d), pc[d] # "idle" => Works(d),
         ~RejectEarly(d), ~Decide(d)
  PROVE  /\ UNCHANGED << spec, verdicts >>
         /\ InExperiment' => InExperiment
<1>1. CASE Load(d) \/ DiscoverHotspots(d) \/ AnswerUnavailable(d) \/ Execute(d) \/ Conclude(d) \/
           PublishExecution(d) \/ BeginResume(d)
  BY <1>1
     DEF Load, DiscoverHotspots, Dispatched, AnswerUnavailable, Execute, Measured, Conclude,
         PublishExecution, BeginResume, InExperiment, files, ghosts
<1>2. CASE RunStage(d)
  <2>1. /\ record' = Completed(held[d], held[d].stage + 1) /\ held[d].stage \in 1 .. 5
        /\ UNCHANGED << spec, verdicts >>
    BY <1>2 DEF RunStage, Dispatched, SaveRecord, files, ghosts
  <2>2. held[d] \in WorkflowRecord /\ held[d].stage + 1 \in 1 .. 15
    BY <2>1 DEF Typed, DriversTyped
  <2>3. record'.stage = held[d].stage + 1
    BY <2>1, <2>2, CompletedFields
  <2> QED
    BY <2>1, <2>3 DEF InExperiment
<1>3. CASE Quit(d)
  BY <1>3, QuitFrame DEF InExperiment, files, ghosts
<1>4. CASE SaveUnavailable(d)
  <2>1. record' = Hotspots(held[d], "unavailable") /\ UNCHANGED << spec, verdicts >>
    BY <1>4 DEF SaveUnavailable, SaveRecord, files, ghosts
  <2>2. record'.stage = Engine!CLASSIFY_BOTTLENECK
    BY <2>1, HotspotsFields DEF Typed, DriversTyped
  <2> QED
    BY <2>1, <2>2 DEF InExperiment
<1>5. CASE SaveHotspots(d)
  <2>1. record' = Hotspots(held[d], "timing") /\ UNCHANGED << spec, verdicts >>
    BY <1>5 DEF SaveHotspots, SaveRecord, files, ghosts
  <2>2. record'.stage = Engine!CLASSIFY_BOTTLENECK
    BY <2>1, HotspotsFields DEF Typed, DriversTyped
  <2> QED
    BY <2>1, <2>2 DEF InExperiment
<1>6. CASE Profile(d)
  BY <1>6, ProfileFrame DEF InExperiment, files, ghosts
<1>7. CASE CloseStage(d)
  <2>1. pc[d] = "close" /\ UNCHANGED << spec, verdicts >>
    BY <1>7 DEF CloseStage, Locked, Judging, At, files, ghosts
  <2>2. record.stage > Engine!CREATE_EXPERIMENT /\ record.status = "ACTIVE"
    BY <1>7, <2>1 DEF CloseStage, Judging, Works, InLock, Profiling
  <2> QED
    BY <2>1, <2>2 DEF InExperiment
<1>8. CASE AcquireLock(d) \/ RequestRerun(d) \/ AnnounceRerun(d) \/ RunRerun(d) \/ NoRerun(d) \/
           RequestPair(d) \/ RunPair(d)
  BY <1>8
     DEF AcquireLock, RequestRerun, Locked, AnnounceRerun, RunRerun, Measured, NoRerun,
         RequestPair, RunPair, InExperiment, files, ghosts
<1>9. CASE SaveRerun(d)
  <2>1. pc[d] = "save_rerun" /\ UNCHANGED << spec, verdicts >>
    BY <1>9 DEF SaveRerun, Locked, Judging, At, files, ghosts
  <2>2. record.stage > Engine!CREATE_EXPERIMENT /\ record.status = "ACTIVE"
    BY <1>9, <2>1 DEF SaveRerun, Judging, Works, InLock, Profiling
  <2> QED
    BY <2>1, <2>2 DEF InExperiment
<1>10. CASE SavePair(d) \/ NoPair(d) \/ ReleaseLock(d) \/ PassE2E(d) \/ StartQuality(d)
  BY <1>10
     DEF SavePair, Locked, NoPair, ReleaseLock, PassE2E, Judging, StartQuality,
         InExperiment, files, ghosts
<1>11. CASE AcceptE2E(d)
  <2>1. pc[d] = "profiled" /\ UNCHANGED << spec, verdicts >>
    BY <1>11 DEF AcceptE2E, Locked, Judging, At, files, ghosts
  <2>2. record.stage > Engine!CREATE_EXPERIMENT /\ record.status = "ACTIVE"
    BY <1>11, <2>1 DEF AcceptE2E, Judging, Works, InLock, Profiling
  <2> QED
    BY <2>1, <2>2 DEF InExperiment
<1>12. CASE RejectEarly(d)
  BY <1>12 DEF RejectEarly, Give, Judging
<1>13. CASE RecordQuality(d)
  <2>1. pc[d] = "quality" /\ UNCHANGED << spec, verdicts >>
    BY <1>13 DEF RecordQuality, Locked, Judging, At, files, ghosts
  <2>2. record.stage > Engine!CREATE_EXPERIMENT /\ record.status = "ACTIVE"
    BY <1>13, <2>1 DEF RecordQuality, Judging, Works, InLock, Profiling
  <2> QED
    BY <2>1, <2>2 DEF InExperiment
<1>14. CASE Decide(d)
  BY <1>14 DEF Decide, Give
<1> QED
  BY <1>1, <1>2, <1>3, <1>4, <1>5, <1>6, <1>7, <1>8, <1>9, <1>10, <1>11, <1>12, <1>13, <1>14
     DEF Drive, Quit, Profile

\* The verdict of a lone driver is on the experiment it is spent on.
LEMMA VerdictOnSpec ==
  ASSUME Typed, ProfilesTaken, NEW d \in Drivers, Works(d), RejectEarly(d) \/ Decide(d)
  PROVE  \E v \in Verdict :
           /\ verdicts' = Append(verdicts, v) /\ v.exp = spec /\ v.sample = active[d].sample
           /\ task.hardened /\ v.outcome = "ACCEPT" => pc[d] = "decide"
           /\ InExperiment /\ ~InExperiment' /\ spec' = spec
<1>1. OnExperiment(d) /\ InExperiment
  BY RejectEarlyGives DEF Decide, At, OnExperiment, Profiling, Works, InExperiment
<1>2. PICK v \in Verdict :
        /\ verdicts' = Append(verdicts, v)
        /\ v.exp = active[d].exp /\ v.sample = active[d].sample
        /\ task.hardened /\ v.outcome = "ACCEPT" => pc[d] = "decide"
  BY VerdictGiven
<1>3. spec' = spec /\ active[d].exp = spec
  BY <1>1 DEF Works, RejectEarly, Decide, Give, files
<1>4. ~InExperiment'
  <2>1. PICK r \in WorkflowRecord, result \in QualityResult : Give(d, r, result)
    BY RejectEarlyTyped, DecideGives DEF Typed, QualityKnown, DriversTyped, Decide, At
  <2>2. \/ record'.stage = Engine!GENERATE_HYPOTHESIS
        \/ record'.status # "ACTIVE"
    BY <1>1, <2>1, GiveFrame
  <2> QED
    BY <2>2 DEF InExperiment
<1> QED
  BY <1>1, <1>2, <1>3, <1>4

\* Experiments are numbers.
LEMMA NumbersOfVerdicts ==
  ASSUME Typed
  PROVE  spec \in Nat /\ \A n \in DOMAIN verdicts : verdicts[n].exp \in Nat
<1>1. spec \in Targets /\ verdicts \in Seq(Verdict)
  BY DEF Typed, FilesTyped, GhostsTyped
<1>2. \A n \in DOMAIN verdicts : verdicts[n].exp \in Experiments
  BY <1>1, VerdictsNamed
<1>3. Experiments \subseteq Nat /\ Targets \subseteq Nat
  BY LoopAssumption DEF Experiments
<1> QED
  BY <1>1, <1>2, <1>3

\* Without a verdict or a new experiment, the verdicts stay in order.
LEMMA JudgedKept ==
  ASSUME Typed, Judged, UNCHANGED << spec, verdicts >>, InExperiment' => InExperiment
  PROVE  Judged'
BY DEF Judged, InExperiment

\* A lone driver judges the experiments one after the other.
LEMMA JudgedStep ==
  ASSUME Typed, ProfilesTaken, Judged, Alone, \A d \in Drivers : pc[d] # "idle" => Works(d),
         overlaps' = 0, [Next]_vars
  PROVE  Judged'
<1>1. ASSUME NEW d \in Drivers, Drive(d), ~RejectEarly(d), ~Decide(d) PROVE Judged'
  BY <1>1, NoVerdict, JudgedKept
<1>2. ASSUME NEW d \in Drivers, RejectEarly(d) \/ Decide(d) PROVE Judged'
  <2>1. Works(d)
    BY <1>2 DEF RejectEarly, Decide, Judging, At
  <2>2. PICK v \in Verdict :
           /\ verdicts' = Append(verdicts, v) /\ v.exp = spec
           /\ InExperiment /\ ~InExperiment' /\ spec' = spec
    BY <1>2, <2>1, VerdictOnSpec
  <2>3. spec \in Nat /\ \A n \in DOMAIN verdicts : verdicts[n].exp \in Nat
    BY NumbersOfVerdicts
  <2>4. \A n \in DOMAIN verdicts : verdicts[n].exp < spec
    BY <2>2 DEF Judged, InExperiment
  <2>5. /\ DOMAIN verdicts' = 1 .. Len(verdicts) + 1 /\ DOMAIN verdicts = 1 .. Len(verdicts)
        /\ Len(verdicts) \in Nat
        /\ \A n \in DOMAIN verdicts : verdicts'[n] = verdicts[n]
        /\ verdicts'[Len(verdicts) + 1] = v
    BY <2>2, VerdictAdded DEF Typed, GhostsTyped
  <2>6. \A m, n \in DOMAIN verdicts' : m < n => verdicts'[m].exp < verdicts'[n].exp
    BY <2>2, <2>3, <2>4, <2>5 DEF Judged
  <2>7. \A n \in DOMAIN verdicts' : verdicts'[n].exp <= spec
    BY <2>2, <2>3, <2>4, <2>5
  <2> QED
    BY <2>2, <2>6, <2>7 DEF Judged, InExperiment
<1>3. ASSUME NEW d \in Drivers, Crash(d) PROVE Judged'
  BY <1>3, CrashFrame, JudgedKept DEF files, InExperiment
<1>4. CASE Submit
  <2>1. PICK next \in Engine!PermittedNextStages(record.stage) :
          /\ record.status = "ACTIVE"
          /\ record.stage \in Engine!CLASSIFY_BOTTLENECK .. Engine!CREATE_EXPERIMENT
          /\ record' = Completed(record, next)
          /\ IF record.stage = Engine!CREATE_EXPERIMENT THEN spec' = spec + 1 ELSE spec' = spec
          /\ verdicts' = verdicts
    BY <1>4 DEF Submit, ghosts
  <2>2. /\ next \in 1 .. 15
        /\ record.stage # Engine!CREATE_EXPERIMENT => next <= Engine!CREATE_EXPERIMENT
    BY <2>1 DEF Engine!PermittedNextStages, Engine!DeeperProfileStages
  <2>3. record'.stage = next
    BY <2>1, <2>2, CompletedFields DEF Typed, FilesTyped
  <2>4. spec \in Nat /\ \A n \in DOMAIN verdicts : verdicts[n].exp \in Nat
    BY NumbersOfVerdicts
  <2>5. CASE record.stage = Engine!CREATE_EXPERIMENT
    BY <2>1, <2>4, <2>5 DEF Judged
  <2>6. CASE record.stage # Engine!CREATE_EXPERIMENT
    BY <2>1, <2>2, <2>3, <2>6, JudgedKept DEF InExperiment
  <2> QED
    BY <2>5, <2>6
<1>5. CASE ApproveProfile \/ EndQuality \/ UNCHANGED vars
  BY <1>5, JudgedKept DEF ApproveProfile, EndQuality, vars, loopVars, ghosts, files, InExperiment
<1> QED
  BY <1>1, <1>2, <1>3, <1>4, <1>5 DEF Next, Drive

-----------------------------------------------------------------------------
(***************************************************************************)
(* Receipts and finished profiles of a lone driver.                        *)
(***************************************************************************)

\* Only a profile step touches profiles and receipts, or has a driver ask.
LEMMA NoProfile ==
  ASSUME Typed, NEW d \in Drivers, Drive(d) \/ Crash(d), ~Profile(d)
  PROVE  /\ UNCHANGED << profiles, receipts, rawProfile, transports >>
         /\ pc'[d] \notin Asking \cup {"raw", "profiled"}
<1>1. CASE Load(d) \/ RunStage(d) \/ DiscoverHotspots(d) \/ AnswerUnavailable(d) \/
           SaveUnavailable(d) \/ SaveHotspots(d) \/ Execute(d) \/ CloseStage(d)
  BY <1>1
     DEF Load, RunStage, Dispatched, SaveRecord, DiscoverHotspots, AnswerUnavailable,
         SaveUnavailable, SaveHotspots, Execute, Measured, CloseStage, Goto, At, Forget,
         profileVars, Asking, Typed, DriversTyped
<1>2. CASE Quit(d)
  BY <1>2, QuitFrame, LeaveElsewhere, LeaveFrame DEF Asking
<1>3. CASE Profile(d)
  BY <1>3 DEF Profile
<1>4. CASE Conclude(d) \/ BeginResume(d) \/ AcquireLock(d) \/ RequestRerun(d) \/ AnnounceRerun(d) \/
           RunRerun(d) \/ SaveRerun(d) \/ NoRerun(d)
  BY <1>4
     DEF Conclude, BeginResume, Dispatched, AcquireLock, RequestRerun, Locked,
         AnnounceRerun, RunRerun, Measured, SaveRerun, SaveRecord, NoRerun, Goto, At,
         Forget, profileVars, Asking, Typed, DriversTyped
<1>5. CASE PublishExecution(d) \/ StartQuality(d) \/ RejectEarly(d) \/ Decide(d)
  <2>1. Leave(d)
    BY <1>5 DEF PublishExecution, StartQuality, RejectEarly, Decide, Give
  <2> QED
    BY <2>1, LeaveElsewhere, LeaveFrame DEF Asking
<1>6. CASE RequestPair(d) \/ RunPair(d) \/ SavePair(d) \/ NoPair(d) \/ ReleaseLock(d) \/
           AcceptE2E(d) \/
           PassE2E(d) \/ RecordQuality(d)
  BY <1>6
     DEF RequestPair, Locked, RunPair, Measured, SavePair, NoPair, ReleaseLock, AcceptE2E,
         SaveRecord, Judging, PassE2E, RecordQuality, Goto, At, Forget, profileVars, Asking,
         Typed, DriversTyped
<1>7. CASE Crash(d)
  BY <1>7, CrashFrame, LeaveElsewhere, LeaveFrame DEF Asking
<1> QED
  BY <1>1, <1>2, <1>3, <1>4, <1>5, <1>6, <1>7 DEF Drive, Quit, Profile

\* A step away from receipts leaves them paid.
LEMMA PaidKept ==
  ASSUME Paid, UNCHANGED << receipts, transports >>,
         \A x \in Drivers : pc'[x] \in {"spend", "announce", "transport"} =>
           pc'[x] = pc[x] /\ target'[x] = target[x] /\ seen'[x] = seen[x]
  PROVE  Paid'
BY DEF Paid

\* What a step does to the receipt and the calls of one attempt.
LEMMA ReceiptSteps ==
  ASSUME Typed, Paid, NEW d \in Drivers, Transport(d)
  PROVE  /\ \A t \in Targets : \A n \in 1 .. MaxProfileAttempts :
              /\ transports'[t][n] <= 1
              /\ transports'[t][n] > 0 => receipts'[t][n] = "consumed"
         /\ pc'[d] # "spend"
         /\ pc'[d] \in {"announce", "transport"} =>
              /\ receipts'[target[d]][Len(seen'[d])] = "consumed"
              /\ transports'[target[d]][Len(seen'[d])] = 0
<1> DEFINE t0 == target[d]
           n0 == Len(seen[d])
<1>0. pc[d] \in Asking
  BY TransportCases DEF Asking
<1>1. t0 \in Targets /\ n0 \in 1 .. MaxProfileAttempts
  BY <1>0, Asked
<1>2. /\ receipts \in [Targets -> [1 .. MaxProfileAttempts -> {"none", "granted", "consumed"}]]
      /\ transports \in [Targets -> [1 .. MaxProfileAttempts -> Nat]]
  BY DEF Typed, AttemptsTyped, ProfileTypeOK
<1>3. /\ pc[d] = "spend" => receipts[t0][n0] = "granted"
      /\ pc[d] \in {"announce", "transport"} =>
           receipts[t0][n0] = "consumed" /\ transports[t0][n0] = 0
  BY DEF Paid
<1>4. \A t \in Targets : \A n \in 1 .. MaxProfileAttempts :
        /\ transports[t][n] <= 1
        /\ transports[t][n] > 0 => receipts[t][n] = "consumed"
  BY DEF Paid
<1>5. CASE pc[d] = "spend" /\ pc' = [pc EXCEPT ![d] = "announce"] /\ SpendReceipt(d, target[d])
  <2>1. /\ receipts' = [receipts EXCEPT ![t0][n0] = "consumed"] /\ UNCHANGED << seen, transports >>
        /\ pc'[d] = "announce"
    BY <1>5 DEF SpendReceipt, Typed, DriversTyped
  <2> HIDE DEF t0, n0
  <2>2. transports[t0][n0] = 0
    <3>1. transports[t0][n0] \in Nat
      BY <1>1, <1>2
    <3> QED
      BY <1>1, <1>3, <1>4, <1>5, <3>1
  <2>3. receipts'[t0][n0] = "consumed"
    BY <1>1, <1>2, <2>1
  <2>4. \A t \in Targets : \A n \in 1 .. MaxProfileAttempts :
          receipts'[t][n] = receipts[t][n] \/ receipts'[t][n] = "consumed"
    BY <1>1, <1>2, <2>1
  <2>5. receipts'[t0][Len(seen'[d])] = "consumed" /\ transports'[t0][Len(seen'[d])] = 0
    BY <2>1, <2>2, <2>3 DEF n0
  <2> QED
    BY <1>4, <2>1, <2>4, <2>5 DEF t0
<1>6. CASE pc[d] = "announce" /\ pc' = [pc EXCEPT ![d] = "transport"]
           /\ AnnounceTransport(d, target[d])
  <2>1. PICK a \in Seq(AttemptStatus) :
          /\ seen' = [seen EXCEPT ![d] = a] /\ Len(a) = n0 /\ UNCHANGED << receipts, transports >>
    BY <1>0, <1>6, AnnounceFields
  <2>2. Len(seen'[d]) = n0
    BY <2>1 DEF Typed, AttemptsTyped, ProfileTypeOK
  <2>3. pc'[d] = "transport"
    BY <1>6 DEF Typed, DriversTyped
  <2> HIDE DEF n0
  <2> QED
    BY <1>3, <1>4, <1>6, <2>1, <2>2, <2>3
<1>7. ASSUME NEW status, pc[d] = "transport", CallServer(d, target[d], status),
             pc'[d] \in {"profiled", "again", "leave"}
      PROVE  \A t \in Targets : \A n \in 1 .. MaxProfileAttempts :
               /\ transports'[t][n] <= 1
               /\ transports'[t][n] > 0 => receipts'[t][n] = "consumed"
  <2>1. transports' = [transports EXCEPT ![t0][n0] = @ + 1] /\ receipts' = receipts
    BY <1>7 DEF CallServer
  <2> HIDE DEF t0, n0
  <2>2. transports'[t0][n0] = 1 /\ receipts'[t0][n0] = "consumed"
    <3>1. transports'[t0][n0] = transports[t0][n0] + 1
      BY <1>1, <1>2, <2>1
    <3>2. transports[t0][n0] = 0 /\ receipts[t0][n0] = "consumed"
      BY <1>3, <1>7
    <3> QED
      BY <2>1, <3>1, <3>2
  <2>3. \A t \in Targets : \A n \in 1 .. MaxProfileAttempts :
          (t = t0 /\ n = n0) \/ transports'[t][n] = transports[t][n]
    BY <1>1, <1>2, <2>1
  <2> QED
    BY <1>4, <2>1, <2>2, <2>3
<1>8. CASE pc[d] = "again" /\ pc' = [pc EXCEPT ![d] = "leave"] /\ RequestAgain(d, target[d])
  BY <1>4, <1>8 DEF RequestAgain, Typed, DriversTyped
<1>9. \/ SpendReceipt(d, target[d]) /\ pc[d] = "spend" /\ pc' = [pc EXCEPT ![d] = "announce"]
      \/ /\ AnnounceTransport(d, target[d]) /\ pc[d] = "announce"
         /\ pc' = [pc EXCEPT ![d] = "transport"]
      \/ /\ pc[d] = "transport" /\ pc'[d] \in {"profiled", "again", "leave"}
         /\ \E status : CallServer(d, target[d], status)
      \/ RequestAgain(d, target[d]) /\ pc[d] = "again" /\ pc' = [pc EXCEPT ![d] = "leave"]
  BY TransportCases DEF Typed, DriversTyped
<1> QED
  BY <1>5, <1>6, <1>7, <1>8, <1>9

\* Without an overlap, every call is paid with a receipt of its own.
LEMMA PaidStep ==
  ASSUME Typed, Paid, Alone, overlaps' = 0, [Next]_vars
  PROVE  Paid'
<1>1. ASSUME NEW d \in Drivers, Drive(d) \/ Crash(d) PROVE Paid'
  <2>1. \A x \in Drivers : x # d => pc'[x] = "idle"
    BY <1>1, OthersIdle
  <2>2. CASE ~Profile(d)
    <3>1. UNCHANGED << receipts, transports >> /\ pc'[d] \notin {"spend", "announce", "transport"}
      BY <1>1, <2>2, NoProfile DEF Asking
    <3> QED
      BY <2>1, <3>1, PaidKept
  <2>3. CASE ReuseProfile(d) \/ OpenProfile(d) \/ RunRaw(d)
    <3>1. UNCHANGED << receipts, transports >> /\ pc'[d] \notin {"spend", "announce", "transport"}
      BY <2>3 DEF ReuseProfile, OpenProfile, RunRaw, ProfileStep, OpenAttempt, StartRaw, FinishRaw,
                  profileVars, Goto, Typed, DriversTyped
    <3> QED
      BY <2>1, <3>1, PaidKept
  <2>4. CASE UseReceipt(d)
    <3>1. /\ UNCHANGED << receipts, transports, seen, target >> /\ pc'[d] = "spend"
          /\ receipts[target[d]][Len(seen[d])] = "granted"
      BY <2>4 DEF UseReceipt, ProfileStep, Receipt, profileVars, Goto, Typed, DriversTyped
    <3> QED
      BY <2>1, <3>1 DEF Paid
  <2>5. CASE Transport(d)
    <3>1. target'[d] = target[d]
      BY <2>5, ProfileFrame DEF Profile
    <3>2. /\ \A t \in Targets : \A n \in 1 .. MaxProfileAttempts :
               /\ transports'[t][n] <= 1
               /\ transports'[t][n] > 0 => receipts'[t][n] = "consumed"
          /\ pc'[d] # "spend"
          /\ pc'[d] \in {"announce", "transport"} =>
               /\ receipts'[target[d]][Len(seen'[d])] = "consumed"
               /\ transports'[target[d]][Len(seen'[d])] = 0
      BY <2>5, ReceiptSteps
    <3> QED
      BY <2>1, <3>1, <3>2 DEF Paid
  <2> QED
    BY <2>2, <2>3, <2>4, <2>5 DEF Profile
<1>2. CASE ApproveProfile
  <2>1. /\ UNCHANGED << transports, seen, target, pc >>
        /\ \E t \in Targets : Approve(t)
    BY <1>2 DEF ApproveProfile, Approve, loopVars, local
  <2>2. PICK t \in Targets : Approve(t)
    BY <2>1
  <2>3. PICK n \in DOMAIN profiles[t] :
          receipts[t][n] = "none" /\ receipts' = [receipts EXCEPT ![t][n] = "granted"]
    BY <2>2 DEF Approve
  <2>4. \A u \in Targets : \A m \in 1 .. MaxProfileAttempts :
          receipts[u][m] # "none" => receipts'[u][m] = receipts[u][m]
    BY <2>3 DEF Typed, AttemptsTyped, ProfileTypeOK
  <2>5. \A x \in Drivers : pc[x] \in Asking =>
          target[x] \in Targets /\ Len(seen[x]) \in 1 .. MaxProfileAttempts
    BY Asked
  <2>6. \A u \in Targets : \A m \in 1 .. MaxProfileAttempts :
          /\ transports'[u][m] <= 1
          /\ transports'[u][m] > 0 => receipts'[u][m] = "consumed"
    BY <2>1, <2>4 DEF Paid
  <2> QED
    BY <2>1, <2>4, <2>5, <2>6 DEF Paid, Asking
<1>3. CASE Submit \/ EndQuality \/ UNCHANGED vars
  BY <1>3, PaidKept DEF Submit, EndQuality, vars, profileVars, loopVars, local
<1> QED
  BY <1>1, <1>2, <1>3 DEF Next

\* Profiles and raw profiles are written for the target only, and not once it is complete.
LEMMA ProfileWrites ==
  ASSUME Typed, NEW d \in Drivers, Profile(d)
  PROVE  /\ \A t \in Targets : t # target[d] =>
              profiles'[t] = profiles[t] /\ rawProfile'[t] = rawProfile[t]
         /\ \/ UNCHANGED << profiles, rawProfile >>
            \/ pc[d] \in Asking \cup {"raw"}
            \/ ~ProfileComplete(target[d])
<1>1. CASE ReuseProfile(d) \/ UseReceipt(d)
  BY <1>1 DEF ReuseProfile, UseReceipt, ProfileStep, profileVars
<1>2. CASE OpenProfile(d)
  BY <1>2 DEF OpenProfile, ProfileStep, OpenAttempt, Typed, AttemptsTyped, ProfileTypeOK
<1>3. CASE RunRaw(d)
  BY <1>3 DEF RunRaw, ProfileStep, At, StartRaw, FinishRaw, Typed, AttemptsTyped, ProfileTypeOK
<1>4. CASE Transport(d)
  <2>1. pc[d] \in Asking
    BY <1>4, TransportCases DEF Asking
  <2>2. \A status : CallServer(d, target[d], status) =>
          rawProfile' = rawProfile /\ \E a : profiles' = [profiles EXCEPT ![target[d]] = a]
    BY DEF CallServer, Write
  <2>3. SpendReceipt(d, target[d]) => UNCHANGED << profiles, rawProfile >>
    BY DEF SpendReceipt
  <2>4. AnnounceTransport(d, target[d]) \/ RequestAgain(d, target[d]) =>
          rawProfile' = rawProfile /\ \E a : profiles' = [profiles EXCEPT ![target[d]] = a]
    BY DEF AnnounceTransport, RequestAgain, Write
  <2>5. rawProfile' = rawProfile
        /\ (profiles' = profiles \/ \E a : profiles' = [profiles EXCEPT ![target[d]] = a])
    BY <1>4, <2>2, <2>3, <2>4, TransportCases
  <2> QED
    BY <2>1, <2>5 DEF Typed, AttemptsTyped, ProfileTypeOK
<1> QED
  BY <1>1, <1>2, <1>3, <1>4 DEF Profile

\* A lone driver asks only for a profile that is not there.
Asks(d) ==
  /\ pc[d] \in Asking \cup {"raw"} => ~ProfileComplete(target[d])
  /\ pc[d] = "profiled" => ProfileComplete(target[d])

\* A complete profile stays complete, without an overlap.
LEMMA CompleteStays ==
  ASSUME Typed, \A d \in Drivers : Asks(d), [Next]_vars
  PROVE  \A t \in Targets : ProfileComplete(t) => ProfileComplete(t)'
<1>1. ASSUME NEW d \in Drivers, Profile(d)
      PROVE  \A t \in Targets : ProfileComplete(t) => ProfileComplete(t)'
  <2>1. ASSUME NEW t \in Targets, ProfileComplete(t)
        PROVE  profiles'[t] = profiles[t] /\ rawProfile'[t] = rawProfile[t]
    <3>1. ~ProfileComplete(target[d]) => t # target[d]
      BY <2>1
    <3> QED
      BY <1>1, <3>1, ProfileWrites DEF Asks
  <2> QED
    BY <2>1 DEF ProfileComplete, Succeeded
<1>2. ASSUME NEW d \in Drivers, Drive(d) \/ Crash(d), ~Profile(d)
      PROVE  \A t \in Targets : ProfileComplete(t) => ProfileComplete(t)'
  BY <1>2, NoProfile DEF ProfileComplete
<1>3. CASE Submit \/ ApproveProfile \/ EndQuality \/ UNCHANGED vars
  BY <1>3 DEF Submit, ApproveProfile, Approve, EndQuality, vars, profileVars, ProfileComplete
<1> QED
  BY <1>1, <1>2, <1>3 DEF Next

\* A profile step goes on asking or ends with a complete profile.
LEMMA ProfileFinishes ==
  ASSUME Typed, ProfilesTaken, NEW d \in Drivers, Asks(d), Profile(d), NEW t, t = target[d]
  PROVE  /\ pc'[d] \in Asking \cup {"raw"} => ~ProfileComplete(t)'
         /\ pc'[d] = "profiled" => ProfileComplete(t)'
<1>0. t \in Targets /\ pc \in [Drivers -> Label]
      /\ profiles \in [Targets -> Seq(AttemptStatus)]
      /\ rawProfile \in [Targets -> {"none", "started", "done"}]
  BY DEF Typed, DriversTyped, AttemptsTyped, ProfileTypeOK
<1>1. CASE ReuseProfile(d)
  BY <1>0, <1>1 DEF ReuseProfile, ProfileStep, Goto, profileVars, ProfileComplete, Asking
<1>2. CASE OpenProfile(d)
  <2>1. OpenAttempt(d, target[d]) /\ pc'[d] = "receipt"
    BY <1>0, <1>2 DEF OpenProfile, ProfileStep, Goto
  <2>2. PICK a \in Seq(AttemptStatus) :
          /\ profiles' = [profiles EXCEPT ![target[d]] = a]
          /\ ~ProfileComplete(target[d]) /\ ~Succeeded(a) /\ rawProfile' = rawProfile
    BY <2>1, OpenFields
  <2> QED
    BY <1>0, <2>1, <2>2 DEF ProfileComplete
<1>3. CASE RunRaw(d)
  <2>1. \/ /\ pc'[d] = "raw" /\ ~ProfileComplete(t) /\ profiles' = profiles
           /\ rawProfile' = [rawProfile EXCEPT ![t] = "started"]
        \/ pc'[d] = "profiled" /\ rawProfile' = [rawProfile EXCEPT ![t] = "done"]
    BY <1>0, <1>3 DEF RunRaw, ProfileStep, Goto, StartRaw, FinishRaw
  <2> QED
    BY <1>0, <2>1 DEF ProfileComplete, Asking
<1>4. CASE UseReceipt(d)
  BY <1>0, <1>4 DEF UseReceipt, ProfileStep, At, Goto, profileVars, ProfileComplete, Asking, Asks
<1>5. CASE Transport(d)
  <2>1. pc[d] \in Asking /\ ~ProfileComplete(t) /\ ~Succeeded(seen[d])
    BY <1>5, TransportCases DEF Asking, Asks, ProfilesTaken
  <2>2. CASE pc'[d] # "profiled"
    <3>1. \/ UNCHANGED << profiles, seen >>
          \/ \E a \in Seq(AttemptStatus) :
               profiles' = [profiles EXCEPT ![target[d]] = a] /\ ~Succeeded(a)
      BY <1>5, <2>1, <2>2, TransportWrites
    <3>2. rawProfile' = rawProfile
      <4>1. \A status : CallServer(d, target[d], status) => rawProfile' = rawProfile
        BY DEF CallServer
      <4>2. SpendReceipt(d, target[d]) \/ AnnounceTransport(d, target[d]) \/ RequestAgain(d, target[d])
              => rawProfile' = rawProfile
        BY DEF SpendReceipt, AnnounceTransport, RequestAgain
      <4> QED
        BY <1>5, <4>1, <4>2, TransportCases
    <3>3. ~Succeeded(profiles'[t]) /\ rawProfile'[t] # "done"
      BY <1>0, <2>1, <3>1, <3>2 DEF ProfileComplete
    <3> QED
      BY <2>2, <3>3 DEF ProfileComplete
  <2>3. CASE pc'[d] = "profiled"
    <3>1. CallServer(d, target[d], "succeeded")
      BY <1>5, <2>3, TransportSucceeds
    <3>2. "succeeded" \in Retryable \cup {"succeeded"}
      OBVIOUS
    <3>3. PICK a \in Seq(AttemptStatus) :
            profiles' = [profiles EXCEPT ![target[d]] = a] /\ Succeeded(a)
      BY <2>1, <3>1, <3>2, CallFields
    <3>4. Succeeded(profiles'[t])
      BY <1>0, <3>3
    <3> QED
      BY <2>3, <3>4 DEF ProfileComplete, Asking
  <2> QED
    BY <2>2, <2>3
<1> QED
  BY <1>1, <1>2, <1>3, <1>4, <1>5 DEF Profile

\* A driver judges what it has just profiled.
LEMMA JudgedNext ==
  ASSUME Typed, NEW d \in Drivers, Drive(d),
         pc'[d] = "quality" \/ (pc'[d] = "decide" /\ task.hardened)
  PROVE  /\ active'[d] = active[d]
         /\ \/ pc[d] = "profiled" /\ held[d].stage # Engine!DISCOVER_HOTSPOTS
            \/ pc[d] = "quality"
<1>1. CASE Load(d) \/ DiscoverHotspots(d) \/ AnswerUnavailable(d) \/ SaveUnavailable(d) \/
           SaveHotspots(d) \/ Execute(d)
  BY <1>1
     DEF Load, DiscoverHotspots, Dispatched, AnswerUnavailable, SaveUnavailable, SaveRecord,
         SaveHotspots, Execute, Measured, Goto, At, Typed, DriversTyped
<1>2. CASE RunStage(d) \/ CloseStage(d)
  BY <1>2 DEF RunStage, Dispatched, SaveRecord, CloseStage, At
<1>3. CASE Quit(d)
  BY <1>3, QuitFrame, LeaveElsewhere
<1>4. CASE Profile(d)
  BY <1>4, ProfileFrame DEF Profiling, Asking, Typed, DriversTyped
<1>5. CASE AcceptE2E(d) \/ PassE2E(d) \/ Conclude(d) \/ RecordQuality(d)
  BY <1>5
     DEF AcceptE2E, SaveRecord, Judging, PassE2E, Conclude, RecordQuality, Goto, At, Typed,
         DriversTyped
<1>6. CASE PublishExecution(d) \/ StartQuality(d) \/ RejectEarly(d) \/ Decide(d)
  <2>1. Leave(d)
    BY <1>6 DEF PublishExecution, StartQuality, RejectEarly, Decide, Give
  <2> QED
    BY <2>1, LeaveElsewhere
<1>7. CASE BeginResume(d) \/ AcquireLock(d) \/ RequestRerun(d) \/ AnnounceRerun(d) \/ RunRerun(d) \/
           SaveRerun(d)
  BY <1>7
     DEF BeginResume, Dispatched, AcquireLock, RequestRerun, Locked, AnnounceRerun,
         RunRerun, Measured, SaveRerun, SaveRecord, Goto, At, Typed, DriversTyped
<1>8. CASE NoRerun(d) \/ RequestPair(d) \/ RunPair(d) \/ SavePair(d) \/ NoPair(d) \/ ReleaseLock(d)
  BY <1>8
     DEF NoRerun, Locked, RequestPair, RunPair, Measured, SavePair, NoPair, ReleaseLock,
         Goto, At, Typed, DriversTyped
<1> QED
  BY <1>1, <1>2, <1>3, <1>4, <1>5, <1>6, <1>7, <1>8 DEF Drive, Quit, Profile

\* Every step keeps a lone driver asking for what is not complete.
LEMMA AsksStep ==
  ASSUME Typed, ProfilesTaken, Alone, \A d \in Drivers : Asks(d), overlaps' = 0, [Next]_vars,
         NEW x \in Drivers, NEW t, t = target'[x]
  PROVE  /\ pc'[x] \in Asking \cup {"raw"} => ~ProfileComplete(t)'
         /\ pc'[x] = "profiled" => ProfileComplete(t)'
<1>1. ASSUME NEW d \in Drivers, Drive(d) \/ Crash(d)
      PROVE  /\ pc'[x] \in Asking \cup {"raw"} => ~ProfileComplete(t)'
             /\ pc'[x] = "profiled" => ProfileComplete(t)'
  <2>1. CASE x # d
    BY <1>1, <2>1, OthersIdle DEF Asking
  <2>2. CASE x = d /\ ~Profile(d)
    BY <1>1, <2>2, NoProfile
  <2>3. CASE x = d /\ Profile(d)
    BY <2>3, ProfileFrame, ProfileFinishes
  <2> QED
    BY <2>1, <2>2, <2>3
<1>2. CASE Submit \/ ApproveProfile \/ EndQuality \/ UNCHANGED vars
  <2>1. UNCHANGED << pc, target, profiles, rawProfile >>
    BY <1>2 DEF Submit, ApproveProfile, Approve, EndQuality, vars, loopVars, local, profileVars
  <2> QED
    BY <2>1 DEF Asks, ProfileComplete
<1> QED
  BY <1>1, <1>2 DEF Next

\* What is judged by quality has a complete profile.
LEMMA ProfiledBefore ==
  ASSUME Typed, ProfilesTaken, Alone, Finished, overlaps' = 0, [Next]_vars, NEW x \in Drivers,
         pc'[x] = "quality" \/ (pc'[x] = "decide" /\ task'.hardened), NEW e \in Targets,
           e = active'[x].exp
  PROVE  ProfileComplete(e)'
<1>0. task' = task
  BY StepsAreSteady DEF Steady
<1>1. ProfileComplete(e) => ProfileComplete(e)'
  BY CompleteStays DEF Finished, Asks
<1>2. ASSUME NEW d \in Drivers, Drive(d) \/ Crash(d) PROVE ProfileComplete(e)
  <2>1. x = d
    BY <1>2, OthersIdle
  <2>2. ~Crash(d)
    BY <2>1, CrashFrame, LeaveOthers
  <2>3. /\ active'[d] = active[d]
        /\ \/ pc[d] = "profiled" /\ held[d].stage # Engine!DISCOVER_HOTSPOTS
           \/ pc[d] = "quality"
    BY <1>0, <1>2, <2>1, <2>2, JudgedNext
  <2>4. pc[d] = "profiled" => target[d] = active[d].exp
    BY <2>3 DEF ProfilesTaken, Profiling
  <2> QED
    BY <2>1, <2>3, <2>4 DEF Finished
<1>3. CASE Submit \/ ApproveProfile \/ EndQuality \/ UNCHANGED vars
  <2>1. UNCHANGED << task, pc, active >>
    BY <1>3 DEF Submit, ApproveProfile, EndQuality, vars, loopVars, local
  <2> QED
    BY <1>1, <2>1 DEF Finished
<1> QED
  BY <1>1, <1>2, <1>3 DEF Next

\* What was accepted has a complete profile.
LEMMA AcceptedProfiled ==
  ASSUME Typed, ProfilesTaken, Alone, \A d \in Drivers : pc[d] # "idle" => Works(d), Finished,
         [Next]_vars, NEW n \in DOMAIN verdicts', task'.hardened,
         verdicts'[n].outcome = "ACCEPT", NEW e \in Targets, e = verdicts'[n].exp
  PROVE  ProfileComplete(e)'
<1>0. Steady
  BY StepsAreSteady
<1>1. ProfileComplete(e) => ProfileComplete(e)'
  BY CompleteStays DEF Finished, Asks
<1>2. CASE verdicts' = verdicts
  BY <1>0, <1>1, <1>2 DEF Steady, Finished
<1>3. ASSUME NEW d \in Drivers, RejectEarly(d) \/ Decide(d) PROVE ProfileComplete(e)
  <2>1. PICK v \in Verdict :
           /\ verdicts' = Append(verdicts, v) /\ v.exp = active[d].exp
           /\ task.hardened /\ v.outcome = "ACCEPT" => pc[d] = "decide"
    BY <1>3, VerdictGiven
  <2>2. CASE n \in DOMAIN verdicts
    <3>1. verdicts'[n] = verdicts[n]
      BY <2>1, <2>2, VerdictAdded DEF Typed, GhostsTyped
    <3> QED
      BY <1>0, <2>2, <3>1 DEF Finished, Steady
  <2>3. CASE n \notin DOMAIN verdicts
    <3>1. verdicts'[n] = v
      BY <2>1, <2>3, VerdictAdded DEF Typed, GhostsTyped
    <3> QED
      BY <1>0, <2>1, <3>1 DEF Finished, Steady
  <2> QED
    BY <2>2, <2>3
<1> QED
  BY <1>0, <1>1, <1>2, <1>3 DEF Steady

\* Without an overlap, what is judged was profiled.
LEMMA FinishedStep ==
  ASSUME Typed, ProfilesTaken, Alone, \A d \in Drivers : pc[d] # "idle" => Works(d), Finished,
         overlaps' = 0, [Next]_vars
  PROVE  Finished'
<1>1. /\ target' \in [Drivers -> Targets] /\ verdicts' \in Seq(Verdict)
      /\ \A x \in Drivers : active'[x].exp \in Targets
  BY TypedStep, ExecutionFields DEF Typed, DriversTyped, GhostsTyped
<1>2. \A n \in DOMAIN verdicts' : verdicts'[n].exp \in Targets
  BY <1>1, VerdictsNamed, LoopAssumption
<1>3. \A x \in Drivers : Asks(x)
  BY DEF Finished, Asks
<1>4. ASSUME NEW x \in Drivers, NEW t, t = target'[x]
      PROVE  /\ pc'[x] \in Asking \cup {"raw"} => ~ProfileComplete(t)'
             /\ pc'[x] = "profiled" => ProfileComplete(t)'
  BY <1>3, <1>4, AsksStep
<1>5. ASSUME NEW x \in Drivers, NEW e \in Targets, e = active'[x].exp,
             pc'[x] = "quality" \/ (pc'[x] = "decide" /\ task'.hardened)
      PROVE  ProfileComplete(e)'
  BY <1>5, ProfiledBefore
<1>6. ASSUME NEW n \in DOMAIN verdicts', task'.hardened, verdicts'[n].outcome = "ACCEPT",
             NEW e \in Targets, e = verdicts'[n].exp
      PROVE  ProfileComplete(e)'
  BY <1>6, AcceptedProfiled
<1> QED
  BY <1>1, <1>2, <1>4, <1>5, <1>6 DEF Finished

\* One driver at a time leaves the task as AloneInv says.
LEMMA AloneInvStep ==
  ASSUME Typed, ProfilesTaken, AloneInv, [Next]_vars
  PROVE  AloneInv'
<1>1. overlaps' = 0 => overlaps = 0
  BY StepsAreSteady DEF Steady
<1> QED
  BY <1>1, AloneStep, AllWork, JudgedStep, PaidStep, FinishedStep DEF AloneInv

-----------------------------------------------------------------------------
(***************************************************************************)
(* What an undisturbed driver executes and resumes.                        *)
(***************************************************************************)

\* What an execution measured is what its files hold until it ends.
LEMMA ExecutesStep ==
  ASSUME Typed, NEW d \in Drivers, Drive(d), pc[d] # "idle" => Works(d),
         Executing(d) => Executes(d), Resuming(d) => Resumes(d)
  PROVE  Executing(d)' => Executes(d)'
<1>1. CASE Load(d) \/ DiscoverHotspots(d) \/ AnswerUnavailable(d) \/ SaveUnavailable(d) \/
           SaveHotspots(d) \/ BeginResume(d) \/ AcquireLock(d)
  BY <1>1
     DEF Load, DiscoverHotspots, Dispatched, AnswerUnavailable, SaveUnavailable, SaveRecord,
         SaveHotspots, BeginResume, AcquireLock, Goto, At, Executing, Typed, DriversTyped
<1>2. CASE RunStage(d)
  BY <1>2 DEF RunStage, Dispatched, SaveRecord, At, Executing
<1>3. CASE Quit(d)
  BY <1>3, QuitFrame, LeaveElsewhere DEF Executing
<1>4. CASE Profile(d)
  BY <1>4, ProfileFrame DEF Executing, Profiling, Asking, Typed, DriversTyped
<1>5. CASE Execute(d)
  <2>1. spec \in Experiments /\ samples[spec] + 1 \in Nat
    BY <1>5, LoopAssumption DEF Execute, Typed, FilesTyped, GhostsTyped
  <2>2. PICK gate \in PreGate :
          /\ initial' = [initial EXCEPT ![spec] = [sample |-> samples[spec] + 1, gate |-> gate]]
          /\ active'[d] = FirstRun(spec, samples[spec] + 1, gate)
    BY <1>5 DEF Execute, FirstRun, Typed, DriversTyped
  <2>3. initial'[spec] = [sample |-> samples[spec] + 1, gate |-> gate]
    BY <2>1, <2>2 DEF Typed, FilesTyped
  <2>4. /\ active'[d].sample = samples[spec] + 1 /\ active'[d].gate = gate
        /\ active'[d].reruns = 0 /\ ~active'[d].running
    BY <2>1, <2>2, FirstRunFields
  <2>5. record'.stage = Engine!PATCH_AND_BUILD /\ spec' = spec
    BY <1>5 DEF Execute, Dispatched, At, Works
  <2> QED
    BY <2>3, <2>4, <2>5 DEF Executes
<1>6. CASE CloseStage(d)
  <2>1. /\ pc[d] = "close" /\ held[d] = record /\ record' = Closed(d) /\ active[d].exp = spec
        /\ UNCHANGED << task, spec, initial, active >>
    BY <1>6 DEF CloseStage, SaveRecord, At, Works, files, OnExperiment
  <2>2. held[d].stage \in Engine!PATCH_AND_BUILD .. Engine!QUALITY_VALIDATION
    BY <1>6 DEF CloseStage, Closes
  <2>3. /\ held[d].stage < Engine!DECIDE /\ held[d].stage # Engine!CREATE_EXPERIMENT
    BY <2>2
  <2>4. /\ Closed(d).stage = held[d].stage + 1
        /\ Closed(d).e2e = IF held[d].stage = Engine!E2E_VALIDATION
                           THEN [exp |-> active[d].exp, sample |-> active[d].sample]
                           ELSE held[d].e2e
    BY <2>3, ClosedFields
  <2>5. Executes(d)
    BY <2>1 DEF Executing
  <2>6. record'.stage > Engine!E2E_VALIDATION =>
          record'.e2e = [exp |-> spec, sample |-> active[d].sample]
    BY <2>1, <2>2, <2>4, <2>5 DEF Executes, Evidence
  <2> QED
    BY <2>1, <2>5, <2>6 DEF Executes, Evidence
<1>7. CASE Conclude(d)
  <2>1. pc[d] = "close" /\ UNCHANGED << record, spec, initial, active >>
    BY <1>7 DEF Conclude, At, files
  <2> QED
    BY <2>1 DEF Executing, Executes, Evidence
<1>8. CASE PublishExecution(d) \/ StartQuality(d) \/ RejectEarly(d) \/ Decide(d)
  <2>1. Leave(d)
    BY <1>8 DEF PublishExecution, StartQuality, RejectEarly, Decide, Give
  <2> QED
    BY <2>1, LeaveElsewhere DEF Executing
<1>9. CASE RequestRerun(d) \/ AnnounceRerun(d) \/ RunRerun(d) \/ SaveRerun(d) \/ NoRerun(d) \/
           RequestPair(d) \/ RunPair(d)
  BY <1>9
     DEF RequestRerun, Locked, AnnounceRerun, RunRerun, Measured, SaveRerun, SaveRecord,
         NoRerun, RequestPair, RunPair, Goto, At, Executing, Typed, DriversTyped
<1>10. CASE SavePair(d) \/ NoPair(d) \/ ReleaseLock(d) \/ AcceptE2E(d) \/ PassE2E(d)
  BY <1>10
     DEF SavePair, Locked, NoPair, ReleaseLock, AcceptE2E, SaveRecord, Judging, PassE2E,
         Goto, At, Executing, Typed, DriversTyped
<1>11. CASE RecordQuality(d)
  <2>1. pc[d] = "quality" /\ pc'[d] = "decide" /\ task' = task
    BY <1>11 DEF RecordQuality, At, Goto, Typed, DriversTyped
  <2> QED
    BY <2>1 DEF Executing, Resuming, Resumes
<1> QED
  BY <1>1, <1>2, <1>3, <1>4, <1>5, <1>6, <1>7, <1>8, <1>9, <1>10, <1>11
     DEF Drive, Quit, Profile

\* Nothing changes for a resumed experiment but the place the driver is at.
LEMMA ResumesKept ==
  ASSUME NEW d \in Drivers, Resumes(d), UNCHANGED << task, record, spec, initial, execution,
         paired, active >>,
         pc[d] \notin {"run_rerun", "save_pair", "save_rerun"},
         pc'[d] \notin {"run_pair", "save_pair", "run_rerun", "save_rerun"},
         pc'[d] = "pair" /\ record.stage > Engine!E2E_VALIDATION => active[d].gate # "UNSTABLE"
  PROVE  Resumes(d)'
<1>1. Resolved(execution)' = Resolved(execution)
  BY DEF Resolved
<1>2. active[d] = Resolved(execution)
  BY DEF Resumes
<1>3. Evidence(active[d])' = Evidence(active[d])
  BY DEF Evidence
<1> QED
  BY <1>1, <1>2, <1>3 DEF Resumes

\* A resumed driver holds what the execution resolves to.
LEMMA ResumesStep ==
  ASSUME Typed, NEW d \in Drivers, Drive(d), pc[d] # "idle" => Works(d), Rested,
         \A x \in Drivers : x # d => pc[x] = "idle", Resuming(d) => Resumes(d)
  PROVE  Resuming(d)' => Resumes(d)'
<1>1. CASE Load(d) \/ AnswerUnavailable(d) \/ SaveUnavailable(d)
  BY <1>1
     DEF Load, AnswerUnavailable, Dispatched, SaveUnavailable, SaveRecord, Goto, At,
         Resuming, InLock, Profiling, Asking, Typed, DriversTyped
<1>2. CASE RunStage(d) \/ CloseStage(d)
  BY <1>2
     DEF RunStage, Dispatched, SaveRecord, CloseStage, At, Resuming, InLock, Profiling,
         Asking
<1>3. CASE Quit(d)
  BY <1>3, QuitFrame, LeaveElsewhere DEF Resuming, InLock
<1>4. CASE DiscoverHotspots(d)
  <2>1. pc'[d] = "profile" /\ record'.stage = Engine!DISCOVER_HOTSPOTS
    BY <1>4 DEF DiscoverHotspots, Dispatched, At, Works, Goto, Typed, DriversTyped
  <2> QED
    BY <2>1 DEF Resuming, InLock
<1>5. CASE SaveHotspots(d)
  <2>1. pc'[d] = "dispatch"
    BY <1>5 DEF SaveHotspots, Goto, Typed, DriversTyped
  <2> QED
    BY <2>1 DEF Resuming, InLock, Profiling, Asking
<1>6. CASE Profile(d)
  <2>1. /\ pc[d] \in Profiling /\ pc'[d] \in Profiling
        /\ UNCHANGED << task, record, spec, initial, execution, paired, active >>
    BY <1>6, ProfileFrame DEF files, Profiling, Typed, DriversTyped
  <2> QED
    BY <2>1, ResumesKept DEF Resuming, InLock, Profiling, Asking
<1>7. CASE Execute(d) \/ BeginResume(d)
  BY <1>7
     DEF Execute, Dispatched, Measured, BeginResume, Goto, At, Resuming, InLock, Profiling,
         Asking, Typed, DriversTyped
<1>8. CASE Conclude(d)
  <2>1. pc'[d] = "decide" /\ ~task'.hardened
    BY <1>8 DEF Conclude, Goto, Typed, DriversTyped
  <2> QED
    BY <2>1 DEF Resuming, InLock, Profiling, Asking
<1>9. CASE PublishExecution(d) \/ StartQuality(d) \/ RejectEarly(d) \/ Decide(d)
  <2>1. Leave(d)
    BY <1>9 DEF PublishExecution, StartQuality, RejectEarly, Decide, Give
  <2> QED
    BY <2>1, LeaveElsewhere DEF Resuming, InLock
<1>10. CASE AcquireLock(d)
  <2>1. /\ pc[d] = "lock" /\ pc'[d] = "rerun"
        /\ UNCHANGED << task, record, spec, initial, paired >>
    BY <1>10 DEF AcquireLock, At, Goto, Typed, DriversTyped
  <2>2. Ready /\ active[d].exp = spec
    BY <2>1 DEF Rested, AtRest, Works, OnExperiment
  <2>3. record.stage \in {Engine!E2E_VALIDATION, Engine!QUALITY_VALIDATION}
    BY <2>1 DEF Works
  <2>4. PICK x \in ActiveExecution :
           /\ x.exp = execution.exp /\ x.exp \in Experiments /\ x.exp = active[d].exp
           /\ x.base = paired /\ x.gate \in PreGate
           /\ x.reruns = execution.reruns /\ x.running = execution.running
           /\ x.sample = Resolved(execution).sample
           /\ active' = [active EXCEPT ![d] = x]
           /\ execution' \in ActiveExecution
           /\ \/ x = Resolved(execution) /\ execution' = execution
              \/ execution.base # paired /\ execution' = x
    BY <1>10, AcquireFields
  <2>5. active'[d] = x
    BY <2>4 DEF Typed, DriversTyped
  <2>6. execution'.exp = spec /\ ~execution'.running
    BY <2>2, <2>3, <2>4 DEF Ready
  <2>7. Resolved(execution)' = ResolvedIn(execution', initial)
    BY <2>1 DEF Resolved, ResolvedIn
  <2>8. x = ResolvedIn(execution', initial)
    <3>1. CASE x = Resolved(execution) /\ execution' = execution
      BY <3>1, ResolvedHere
    <3>2. CASE execution' = x
      <4>1. initial \in [Experiments -> Result] /\ execution \in ActiveExecution
        BY DEF Typed, FilesTyped
      <4>2. x.sample = 0 => initial[x.exp].sample = 0
        <5>1. ResolvedIn(execution, initial).sample = 0 => initial[execution.exp].sample = 0
          BY <2>4, <4>1, ResolvedInFields
        <5>2. Resolved(execution) = ResolvedIn(execution, initial)
          BY ResolvedHere
        <5> QED
          BY <2>4, <5>1, <5>2
      <4>3. x.gate # "INITIAL"
        BY <2>4 DEF PreGate
      <4> QED
        BY <2>4, <3>2, <4>1, <4>2, <4>3, ResolvedIsIt
    <3> QED
      BY <2>4, <3>1, <3>2
  <2>9. record.stage > Engine!E2E_VALIDATION =>
          /\ record.e2e = [exp |-> spec, sample |-> x.sample]
          /\ x.reruns > 0 => x.gate = "ACCEPT"
    BY <2>2, <2>3, <2>4 DEF Ready, Evidence
  <2> QED
    BY <2>1, <2>2, <2>3, <2>4, <2>5, <2>6, <2>7, <2>8, <2>9 DEF Resumes, Ready, Evidence
<1>11. CASE RequestRerun(d)
  <2>1. /\ pc[d] = "rerun" /\ pc'[d] = "announce_rerun"
        /\ UNCHANGED << task, record, spec, initial, execution, paired, active >>
    BY <1>11 DEF RequestRerun, Locked, At, Goto, Typed, DriversTyped
  <2> QED
    BY <2>1, ResumesKept DEF Resuming, InLock
<1>12. CASE AnnounceRerun(d)
  <2>1. /\ pc[d] = "announce_rerun" /\ pc'[d] = "run_rerun"
        /\ UNCHANGED << task, record, spec, initial, paired >>
        /\ active'[d] = Running(active[d]) /\ execution' = active'[d]
        /\ active[d] \in ActiveExecution /\ active[d].exp \in Experiments
    BY <1>12, AtHand DEF AnnounceRerun, Running, Locked, At, Goto, OnExperiment, InLock, Typed,
       DriversTyped
  <2>2. Resumes(d) /\ active[d] = ResolvedIn(execution, initial) /\ execution.exp = spec
          /\ active[d].exp = spec
    BY <2>1, ResolvedHere DEF Resuming, Resumes, InLock, Works, OnExperiment
  <2>3. initial \in [Experiments -> Result] /\ execution \in ActiveExecution
    BY DEF Typed, FilesTyped
  <2>4. (active[d].sample = 0 => initial[spec].sample = 0) /\ active[d].gate # "INITIAL"
    BY <2>1, <2>2, <2>3, ResolvedInFields
  <2>5. /\ execution' \in ActiveExecution /\ execution'.exp = spec
        /\ execution'.sample = active[d].sample /\ execution'.gate = active[d].gate
        /\ execution'.base = active[d].base /\ execution'.reruns = active[d].reruns
    BY <2>1, <2>2, RunningFields
  <2>6. execution' = ResolvedIn(execution', initial)
    BY <2>1, <2>2, <2>3, <2>4, <2>5, ResolvedIsIt
  <2>7. Resolved(execution)' = execution'
    BY <2>1, <2>6 DEF Resolved, ResolvedIn
  <2> QED
    BY <2>1, <2>2, <2>5, <2>7 DEF Resumes, Evidence
<1>13. CASE RunRerun(d)
  <2>1. /\ pc[d] = "run_rerun" /\ pc'[d] = "save_rerun"
        /\ UNCHANGED << task, record, spec, initial, paired >>
    BY <1>13 DEF RunRerun, Locked, At, Goto, Typed, DriversTyped
  <2>2. Resumes(d) /\ active[d].exp = spec
    BY <2>1 DEF Resuming, InLock, Works, OnExperiment
  <2>3. PICK x \in ActiveExecution :
           /\ active' = [active EXCEPT ![d] = x] /\ execution' = x
           /\ x.exp = active[d].exp /\ x.exp \in Experiments /\ x.sample # 0
           /\ x.gate \in PreGate /\ x.base = active[d].base /\ ~x.running
    BY <1>13, RunRerunFields
  <2>4. x = ResolvedIn(x, initial)
    BY <2>3, ResolvedIsIt DEF PreGate, Typed, FilesTyped
  <2>5. active'[d] = x /\ Resolved(execution)' = x
    BY <2>1, <2>3, <2>4 DEF Resolved, ResolvedIn, Typed, DriversTyped
  <2> QED
    BY <2>1, <2>2, <2>3, <2>5 DEF Resumes
<1>14. CASE SaveRerun(d)
  <2>1. /\ pc[d] = "save_rerun" /\ pc'[d] = "pair"
        /\ UNCHANGED << task, spec, initial, execution, paired, active >>
        /\ record' = Reopened(held[d]) /\ held[d] \in WorkflowRecord
    BY <1>14 DEF SaveRerun, Locked, SaveRecord, Reopened, At, Goto, Typed, DriversTyped
  <2>2. record'.stage = Engine!E2E_VALIDATION
    BY <2>1, ReopenedFields
  <2>3. Resolved(execution)' = Resolved(execution)
    BY <2>1 DEF Resolved
  <2> QED
    BY <2>1, <2>2, <2>3 DEF Resuming, Resumes, InLock
<1>15. CASE NoRerun(d)
  <2>1. /\ pc[d] = "rerun" /\ pc'[d] = "pair"
        /\ UNCHANGED << task, record, spec, initial, execution, paired, active >>
        /\ ~WantsRerun(d)
    BY <1>15 DEF NoRerun, Locked, At, Goto, Typed, DriversTyped
  <2>2. active[d].reruns \in Nat
    BY ExecutionFields DEF Typed, DriversTyped
  <2>3. Resumes(d)
    BY <2>1 DEF Resuming, InLock
  <2>4. record.stage > Engine!E2E_VALIDATION => active[d].gate # "UNSTABLE"
    BY <2>1, <2>2, <2>3 DEF Resumes, WantsRerun, MaxReruns
  <2> QED
    BY <2>1, <2>3, <2>4, ResumesKept
<1>16. CASE RequestPair(d)
  <2>1. /\ pc[d] = "pair" /\ pc'[d] = "run_pair" /\ WantsPair(d)
        /\ UNCHANGED << task, record, spec, initial, execution, paired, active >>
    BY <1>16 DEF RequestPair, Locked, At, Goto, Typed, DriversTyped
  <2>2. Resumes(d) /\ record.stage \in {Engine!E2E_VALIDATION, Engine!QUALITY_VALIDATION}
    BY <2>1 DEF Resuming, InLock, Works
  <2>3. record.stage = Engine!E2E_VALIDATION
    BY <2>1, <2>2 DEF Resumes, WantsPair
  <2>4. Resolved(execution)' = Resolved(execution)
    BY <2>1 DEF Resolved
  <2> QED
    BY <2>1, <2>2, <2>3, <2>4 DEF Resumes
<1>17. CASE RunPair(d)
  <2>1. /\ pc[d] = "run_pair" /\ pc'[d] = "save_pair"
        /\ UNCHANGED << task, record, spec, initial, execution >>
    BY <1>17 DEF RunPair, Locked, At, Goto, Typed, DriversTyped
  <2>2. /\ Resumes(d) /\ active[d].exp = spec /\ active[d] = ResolvedIn(execution, initial)
        /\ record.stage = Engine!E2E_VALIDATION /\ execution.exp = spec /\ ~execution.running
    BY <2>1, ResolvedHere DEF Resuming, Resumes, InLock, Works, OnExperiment
  <2>3. PICK x \in ActiveExecution :
           /\ active' = [active EXCEPT ![d] = x]
           /\ x.exp = active[d].exp /\ x.exp \in Experiments /\ x.sample # 0
           /\ x.gate \in PreGate /\ x.base = x.exp /\ paired' = x.exp
           /\ x.running = active[d].running
    BY <1>17, RunPairFields
  <2>4. initial \in [Experiments -> Result] /\ execution \in ActiveExecution
    BY DEF Typed, FilesTyped
  <2>5. ~x.running
    BY <2>2, <2>3, <2>4, ResolvedInFields
  <2>6. x = ResolvedIn(x, initial)
    BY <2>3, <2>4, ResolvedIsIt DEF PreGate
  <2>7. active'[d] = x
    BY <2>3 DEF Typed, DriversTyped
  <2>8. Resolved(active[d])' = x
    BY <2>1, <2>6, <2>7 DEF Resolved, ResolvedIn
  <2> QED
    BY <2>1, <2>2, <2>3, <2>5, <2>7, <2>8 DEF Resumes
<1>18. CASE SavePair(d)
  <2>1. /\ pc[d] = "save_pair" /\ pc'[d] = "unlock" /\ execution' = active[d]
        /\ UNCHANGED << task, record, spec, initial, paired, active >>
    BY <1>18 DEF SavePair, Locked, At, Goto, Typed, DriversTyped
  <2>2. Resumes(d) /\ active[d].exp = spec
    BY <2>1 DEF Resuming, InLock, Works, OnExperiment
  <2>3. Resolved(execution)' = Resolved(active[d])
    BY <2>1 DEF Resolved
  <2> QED
    BY <2>1, <2>2, <2>3 DEF Resumes
<1>19. CASE NoPair(d)
  <2>1. /\ pc[d] = "pair" /\ pc'[d] = "unlock"
        /\ UNCHANGED << task, record, spec, initial, execution, paired, active >>
    BY <1>19 DEF NoPair, Locked, At, Goto, Typed, DriversTyped
  <2> QED
    BY <2>1, ResumesKept DEF Resuming, InLock
<1>20. CASE ReleaseLock(d)
  <2>1. /\ pc[d] = "unlock" /\ pc'[d] = "profile"
        /\ UNCHANGED << task, record, spec, initial, execution, paired, active >>
    BY <1>20 DEF ReleaseLock, At, Goto, files, Typed, DriversTyped
  <2> QED
    BY <2>1, ResumesKept DEF Resuming, InLock
<1>21. CASE AcceptE2E(d)
  <2>1. /\ pc[d] = "profiled" /\ pc'[d] = "quality" /\ held[d].stage = Engine!E2E_VALIDATION
        /\ UNCHANGED << task, spec, initial, execution, paired, active >>
        /\ record' = Closed(d) /\ active[d].gate = "ACCEPT"
    BY <1>21 DEF AcceptE2E, SaveRecord, Judging, At, Goto, files, Typed, DriversTyped
  <2>2. Resumes(d) /\ active[d].exp = spec
    BY <2>1 DEF Resuming, Profiling, Works, OnExperiment
  <2>3. held[d].stage < Engine!DECIDE /\ held[d].stage # Engine!CREATE_EXPERIMENT
    BY <2>1
  <2>4. Closed(d).e2e = [exp |-> active[d].exp, sample |-> active[d].sample]
    BY <2>1, <2>3, ClosedFields
  <2>5. Resolved(execution)' = Resolved(execution)
    BY <2>1 DEF Resolved
  <2> QED
    BY <2>1, <2>2, <2>4, <2>5 DEF Resumes, Evidence
<1>22. CASE PassE2E(d)
  <2>1. /\ pc[d] = "profiled" /\ pc'[d] = "quality" /\ held[d].stage # Engine!DISCOVER_HOTSPOTS
        /\ UNCHANGED << task, record, spec, initial, execution, paired, active >>
    BY <1>22 DEF PassE2E, Judging, At, Goto, files, Typed, DriversTyped
  <2>2. Resuming(d)
    BY <2>1 DEF Resuming, Profiling, Works
  <2> QED
    BY <2>1, <2>2, ResumesKept
<1>23. CASE RecordQuality(d)
  <2>1. /\ pc[d] = "quality" /\ pc'[d] = "decide" /\ held[d].stage = Engine!QUALITY_VALIDATION
        /\ UNCHANGED << task, spec, initial, execution, paired, active >>
        /\ record' = Completed(held[d], Engine!DECIDE) /\ held[d] \in WorkflowRecord
    BY <1>23 DEF RecordQuality, SaveRecord, At, Goto, files, Typed, DriversTyped
  <2>2. Resumes(d) /\ held[d] = record
    BY <2>1 DEF Resuming, Works
  <2>3. record'.e2e = record.e2e
    BY <2>1, <2>2, CompletedFields
  <2>4. Resolved(execution)' = Resolved(execution)
    BY <2>1 DEF Resolved
  <2> QED
    BY <2>1, <2>2, <2>3, <2>4 DEF Resumes, Evidence
<1> QED
  BY <1>1, <1>2, <1>3, <1>4, <1>5, <1>6, <1>7, <1>8, <1>9, <1>10, <1>11, <1>12, <1>13,
     <1>14, <1>15, <1>16, <1>17, <1>18, <1>19, <1>20, <1>21, <1>22, <1>23
     DEF Drive, Quit, Profile

\* Whether the task can be resumed depends on these files only.
LEMMA ReadyKept ==
  ASSUME Ready, UNCHANGED << task, record, spec, execution, initial, paired >>
  PROVE  Ready'
<1>1. Resolved(execution)' = Resolved(execution)
  BY DEF Resolved
<1> QED
  BY <1>1 DEF Ready, Evidence

\* A driver at work leaves nothing to be resumed.
LEMMA NotAtRest ==
  ASSUME NEW d \in Drivers, pc'[d] \notin {"idle", "dispatch", "lock"}
  PROVE  Rested'
BY DEF Rested, AtRest

\* A driver that resumes leaves a task that can be resumed.
LEMMA ResumesReady ==
  ASSUME Typed, NEW d \in Drivers, Works(d), Resuming(d), Resumes(d),
         pc[d] \notin {"run_rerun", "save_pair", "save_rerun", "decide"}
  PROVE  Ready
<1>1. record.stage \in {Engine!E2E_VALIDATION, Engine!QUALITY_VALIDATION}
  BY DEF Works, Resuming
<1>2. /\ initial \in [Experiments -> Result] /\ execution \in ActiveExecution
      /\ spec \in Experiments /\ execution.exp = spec
  BY AtHand DEF Resumes, Resuming, OnExperiment, Typed, FilesTyped, Works
<1>3. active[d] = ResolvedIn(execution, initial)
        /\ Resolved(execution) = ResolvedIn(execution, initial)
  BY ResolvedHere DEF Resumes
<1>4. active[d].reruns = execution.reruns /\ active[d].base = execution.base
  BY <1>2, <1>3, ResolvedInFields
<1> QED
  BY <1>1, <1>3, <1>4 DEF Resumes, Ready, Evidence

\* The steps at which a driver quits.
LEMMA QuitFrom ==
  ASSUME NEW d, Quit(d)
  PROVE  pc[d] \in
           {"dispatch", "lock", "receipt", "leave", "profiled", "rerun", "pair", "quality"}
BY DEF Quit, Pause, AwaitApproval, AskAgain, RefuseResume, RefuseMeasurement, RemainsInconclusive,
       AwaitQuality, RefuseQuality, Dispatched, Judging, At

\* A run that ends without a verdict leaves a task that can be resumed.
LEMMA StopsReady ==
  ASSUME Typed, NEW d \in Drivers, Works(d), Rested, \A x \in Drivers : x # d => pc[x] = "idle",
         Resuming(d) => Resumes(d),
         pc[d] \in
           {"dispatch", "lock", "receipt", "leave", "profiled", "rerun", "pair", "quality"}
  PROVE  Ready
<1>1. CASE pc[d] \in {"dispatch", "lock"}
  BY <1>1 DEF Rested, AtRest, Works
<1>2. CASE pc[d] \in {"receipt", "leave", "profiled"} /\ record.stage = Engine!DISCOVER_HOTSPOTS
  BY <1>2 DEF Ready
<1>3. CASE pc[d] \in {"receipt", "leave", "profiled"} /\ record.stage # Engine!DISCOVER_HOTSPOTS
  BY <1>3, ResumesReady DEF Resuming, Profiling, Asking
<1>4. CASE pc[d] \in {"rerun", "pair", "quality"}
  BY <1>4, ResumesReady DEF Resuming, InLock
<1> QED
  BY <1>1, <1>2, <1>3, <1>4

\* Whatever a driver does, the task can be resumed when it rests.
LEMMA RestedStep ==
  ASSUME Typed, NEW d \in Drivers, Drive(d), pc[d] # "idle" => Works(d), Rested,
         \A x \in Drivers : x # d => pc[x] = "idle", Executing(d) => Executes(d),
         Resuming(d) => Resumes(d)
  PROVE  Rested'
<1>1. CASE Load(d)
  <2>1. UNCHANGED << task, record, spec, execution, initial, paired >> /\ pc[d] = "idle"
        /\ record.status = "ACTIVE"
    BY <1>1 DEF Load, At, files
  <2>2. Ready
    BY <2>1 DEF Rested, AtRest
  <2> QED
    BY <2>1, <2>2, ReadyKept DEF Rested
<1>2. CASE RunStage(d)
  <2>1. record' = Completed(held[d], held[d].stage + 1) /\ held[d].stage \in 1 .. 5
          /\ held[d] \in WorkflowRecord
    BY <1>2 DEF RunStage, Dispatched, SaveRecord, Typed, DriversTyped
  <2>2. record'.stage = held[d].stage + 1
    BY <2>1, CompletedFields
  <2> QED
    BY <2>1, <2>2 DEF Rested, Ready
<1>3. CASE Quit(d)
  <2>1. Works(d)
    BY <1>3, QuitFrom
  <2>2. Ready
    BY <1>3, <2>1, QuitFrom, StopsReady
  <2> QED
    BY <1>3, <2>2, QuitFrame, ReadyKept DEF Rested, files
<1>4. CASE DiscoverHotspots(d) \/ AnswerUnavailable(d) \/ Execute(d) \/ Conclude(d) \/
           AcquireLock(d) \/ RequestRerun(d)
  <2>1. pc'[d] \notin {"idle", "dispatch", "lock"}
    BY <1>4
       DEF DiscoverHotspots, Dispatched, AnswerUnavailable, Execute, Measured, Conclude,
           AcquireLock, RequestRerun, Locked, Goto, Typed, DriversTyped
  <2> QED
    BY <2>1, NotAtRest
<1>5. CASE SaveUnavailable(d)
  <2>1. record' = Hotspots(held[d], "unavailable") /\ held[d] \in WorkflowRecord
    BY <1>5 DEF SaveUnavailable, SaveRecord, Typed, DriversTyped
  <2>2. record'.stage = Engine!CLASSIFY_BOTTLENECK
    BY <2>1, HotspotsFields
  <2> QED
    BY <2>2 DEF Rested, Ready
<1>6. CASE SaveHotspots(d)
  <2>1. record' = Hotspots(held[d], "timing") /\ held[d] \in WorkflowRecord
    BY <1>6 DEF SaveHotspots, SaveRecord, Typed, DriversTyped
  <2>2. record'.stage = Engine!CLASSIFY_BOTTLENECK
    BY <2>1, HotspotsFields
  <2> QED
    BY <2>2 DEF Rested, Ready
<1>7. CASE Profile(d)
  <2>1. pc'[d] \notin {"idle", "dispatch", "lock"}
    BY <1>7, ProfileFrame DEF Profiling, Asking, Typed, DriversTyped
  <2> QED
    BY <2>1, NotAtRest
<1>8. CASE CloseStage(d)
  <2>1. pc'[d] = "close"
    BY <1>8 DEF CloseStage, At
  <2> QED
    BY <2>1, NotAtRest
<1>9. CASE PublishExecution(d)
  <2>1. /\ pc[d] = "close" /\ task.hardened /\ held[d].stage \notin Closes(d)
        /\ execution' = Published(active[d]) /\ UNCHANGED << task, record, spec, initial, paired >>
        /\ active[d] \in ActiveExecution
    BY <1>9 DEF PublishExecution, At, Published, Typed, DriversTyped
  <2>2. Works(d) /\ Executes(d) /\ active[d].exp = spec /\ held[d] = record
    BY <2>1 DEF Executing, Works, OnExperiment
  <2>3. record.stage \in {Engine!E2E_VALIDATION, Engine!QUALITY_VALIDATION}
    BY <2>1, <2>2 DEF Works, Closes
  <2>4. /\ execution' \in ActiveExecution /\ execution'.exp = spec /\ execution'.sample = 0
        /\ execution'.reruns = 0 /\ ~execution'.running
    BY <2>1, <2>2, PublishedFields DEF Executes
  <2>5. spec \in Experiments /\ initial \in [Experiments -> Result]
    BY <2>1, AtHand DEF OnExperiment, Typed, FilesTyped
  <2>6. ResolvedIn(execution', initial).sample = active[d].sample
    BY <2>2, <2>4, <2>5, ResolvedInFields DEF Executes
  <2>7. Resolved(execution)' = ResolvedIn(execution', initial)
    BY <2>1 DEF Resolved, ResolvedIn
  <2> QED
    BY <2>1, <2>2, <2>3, <2>4, <2>6, <2>7 DEF Rested, Ready, Executes, Evidence
<1>10. CASE BeginResume(d)
  <2>1. UNCHANGED << task, record, spec, execution, initial, paired >> /\ pc[d] = "dispatch"
    BY <1>10 DEF BeginResume, Dispatched, At, files
  <2>2. Ready
    BY <2>1, StopsReady
  <2> QED
    BY <2>1, <2>2, ReadyKept DEF Rested
<1>11. CASE AnnounceRerun(d) \/ RunRerun(d) \/ SaveRerun(d) \/ NoRerun(d) \/ RequestPair(d) \/
            RunPair(d)
  <2>1. pc'[d] \notin {"idle", "dispatch", "lock"}
    BY <1>11
       DEF AnnounceRerun, Locked, RunRerun, Measured, SaveRerun, SaveRecord, NoRerun,
           RequestPair, RunPair, Goto, Typed, DriversTyped
  <2> QED
    BY <2>1, NotAtRest
<1>12. CASE SavePair(d) \/ NoPair(d) \/ ReleaseLock(d) \/ AcceptE2E(d) \/ PassE2E(d) \/
            RecordQuality(d)
  <2>1. pc'[d] \notin {"idle", "dispatch", "lock"}
    BY <1>12
       DEF SavePair, Locked, NoPair, ReleaseLock, AcceptE2E, SaveRecord, Judging, PassE2E,
           RecordQuality, Goto, Typed, DriversTyped
  <2> QED
    BY <2>1, NotAtRest
<1>13. CASE RejectEarly(d) \/ Decide(d)
  <2>1. PICK r \in WorkflowRecord, result \in QualityResult : Give(d, r, result)
    BY <1>13, RejectEarlyTyped, DecideGives DEF Typed, QualityKnown, DriversTyped, Decide, At
  <2>2. OnExperiment(d)
    BY <1>13, RejectEarlyGives DEF Decide, At, OnExperiment, Profiling
  <2>3. record'.stage = Engine!GENERATE_HYPOTHESIS \/ record'.status # "ACTIVE"
    BY <2>1, <2>2, GiveFrame
  <2> QED
    BY <2>3 DEF Rested, Ready
<1>14. CASE StartQuality(d)
  <2>1. UNCHANGED << task, record, spec, execution, initial, paired >> /\ pc[d] = "quality"
    BY <1>14 DEF StartQuality, At
  <2>2. Ready
    BY <2>1, StopsReady
  <2> QED
    BY <2>2, <2>1, ReadyKept DEF Rested
<1> QED
  BY <1>1, <1>2, <1>3, <1>4, <1>5, <1>6, <1>7, <1>8, <1>9, <1>10, <1>11, <1>12, <1>13, <1>14
     DEF Drive, Profile, Quit

\* Whether a request is answered depends on these variables only.
LEMMA AnsweredKept ==
  ASSUME Answered, UNCHANGED << request, record, pc >>
  PROVE  Answered'
BY DEF Answered

\* Beyond the choice of a bottleneck no answer is due.
LEMMA NoAnswerDue ==
  ASSUME NEW r \in WorkflowRecord, record' = r, r.stage > Engine!CLASSIFY_BOTTLENECK
  PROVE  Answered'
<1>1. r.stage \in 1 .. 15
  BY RecordFields
<1> QED
  BY <1>1 DEF Answered

\* A request for a deeper profile is answered or open.
LEMMA AnsweredStep ==
  ASSUME Typed, NEW d \in Drivers, Drive(d), pc[d] # "idle" => Works(d), Answered,
         \A x \in Drivers : x # d => pc[x] = "idle"
  PROVE  Answered'
<1>1. CASE Load(d)
  <2>1. UNCHANGED << record, request >> /\ pc[d] = "idle" /\ pc' = [pc EXCEPT ![d] = "dispatch"]
    BY <1>1 DEF Load, At, Goto, files
  <2> QED
    BY <2>1 DEF Answered, Typed, DriversTyped
<1>2. CASE RunStage(d)
  <2>1. /\ pc[d] = "dispatch" /\ held[d].stage \in 1 .. 5 /\ UNCHANGED << request, pc >>
        /\ record' = Completed(held[d], held[d].stage + 1)
    BY <1>2 DEF RunStage, Dispatched, At, SaveRecord, files
  <2>2. held[d] = record /\ held[d] \in WorkflowRecord /\ held[d].stage + 1 \in 1 .. 15
    BY <2>1 DEF Works, Typed, DriversTyped
  <2>3. record'.stage = record.stage + 1
    BY <2>1, <2>2, CompletedFields
  <2> QED
    BY <2>1, <2>2, <2>3 DEF Answered
<1>3. CASE Quit(d)
  <2>1. UNCHANGED << record, request >> /\ pc'[d] = "idle"
          /\ \A x \in Drivers : x # d => pc'[x] = pc[x]
    BY <1>3, QuitFrame, LeaveOthers DEF files, Same
  <2>2. pc[d] # "unavailable"
    BY <1>3, QuitFrom
  <2> QED
    BY <2>1, <2>2 DEF Answered
<1>4. CASE DiscoverHotspots(d)
  <2>1. /\ pc[d] = "dispatch" /\ held[d].stage = Engine!DISCOVER_HOTSPOTS
           /\ UNCHANGED << request, record >>
        /\ request.fulfilled \/ request.level2
    BY <1>4 DEF DiscoverHotspots, Dispatched, At, files
  <2>2. record.stage = Engine!DISCOVER_HOTSPOTS
    BY <2>1 DEF Works
  <2>3. request.level2
    BY <2>1, <2>2 DEF Answered
  <2> QED
    BY <2>1, <2>2, <2>3 DEF Answered
<1>5. CASE AnswerUnavailable(d)
  <2>1. /\ pc[d] = "dispatch" /\ held[d].stage = Engine!DISCOVER_HOTSPOTS /\ record' = record
        /\ pc'[d] = "unavailable" /\ request' = [request EXCEPT !.fulfilled = TRUE]
    BY <1>5 DEF AnswerUnavailable, Dispatched, At, Goto, Typed, DriversTyped
  <2>2. record.stage = Engine!DISCOVER_HOTSPOTS
    BY <2>1 DEF Works
  <2>3. request'.fulfilled /\ request'.level2 = request.level2
    BY <2>1 DEF Typed, FilesTyped
  <2> QED
    BY <2>1, <2>2, <2>3 DEF Answered
<1>6. CASE SaveUnavailable(d)
  <2>1. record' = Hotspots(held[d], "unavailable") /\ held[d] \in WorkflowRecord
    BY <1>6 DEF SaveUnavailable, SaveRecord, Typed, DriversTyped
  <2>2. record'.stage = Engine!CLASSIFY_BOTTLENECK /\ record'.kernel = "unavailable"
    BY <2>1, HotspotsFields
  <2> QED
    BY <2>2 DEF Answered
<1>7. CASE SaveHotspots(d)
  <2>1. /\ record' = Hotspots(held[d], "timing") /\ held[d] \in WorkflowRecord
        /\ pc[d] = "profiled" /\ held[d].stage = Engine!DISCOVER_HOTSPOTS
        /\ request' = [request EXCEPT !.fulfilled = TRUE]
    BY <1>7 DEF SaveHotspots, SaveRecord, At, Typed, DriversTyped
  <2>2. record'.stage = Engine!CLASSIFY_BOTTLENECK
    BY <2>1, HotspotsFields
  <2>3. request.level2
    BY <2>1 DEF Works, Answered
  <2>4. request'.level2
    BY <2>1, <2>3 DEF Typed, FilesTyped
  <2> QED
    BY <2>2, <2>4 DEF Answered
<1>8. CASE Profile(d)
  <2>1. UNCHANGED << record, request >> /\ pc[d] \in Profiling
    BY <1>8, ProfileFrame DEF files, Profiling
  <2>2. /\ pc[d] \notin {"idle", "dispatch", "unavailable"}
        /\ record.stage \in
             {Engine!DISCOVER_HOTSPOTS, Engine!E2E_VALIDATION, Engine!QUALITY_VALIDATION}
    BY <2>1 DEF Profiling, Asking, Works
  <2>3. record.stage = Engine!DISCOVER_HOTSPOTS => request.level2
    BY <2>2 DEF Answered
  <2> QED
    BY <2>1, <2>2, <2>3 DEF Answered
<1>9. CASE Execute(d)
  <2>1. record' = record
    BY <1>9 DEF Execute, Dispatched, Measured, files
  <2>2. (pc[d] = "dispatch" /\ held[d].stage \in 11 .. 14)
    BY <1>9 DEF Execute, Dispatched, At
  <2>3. record.stage > Engine!CLASSIFY_BOTTLENECK
    BY <2>2 DEF Works, InLock, Profiling
  <2>4. record \in WorkflowRecord
    BY DEF Typed, FilesTyped
  <2> QED
    BY <2>1, <2>3, <2>4, NoAnswerDue
<1>10. CASE CloseStage(d)
  <2>1. PICK r \in WorkflowRecord : record' = r /\ r.stage > Engine!CLASSIFY_BOTTLENECK
    <3>1. record' = Closed(d) /\ held[d].stage \in 11 .. 14
      BY <1>10 DEF CloseStage, SaveRecord, Closes
    <3>2. held[d].stage < Engine!DECIDE /\ held[d].stage # Engine!CREATE_EXPERIMENT
      BY <3>1
    <3>3. Closed(d) \in WorkflowRecord /\ Closed(d).stage = held[d].stage + 1
      BY <3>2, ClosedFields
    <3> QED
      BY <3>1, <3>3
  <2> QED
    BY <2>1, NoAnswerDue
<1>11. CASE Conclude(d) \/ PublishExecution(d) \/ RequestRerun(d) \/ AnnounceRerun(d) \/ RunRerun(d)
  <2>1. record' = record
    BY <1>11
       DEF Conclude, PublishExecution, RequestRerun, Locked, AnnounceRerun, RunRerun,
           Measured, files
  <2>2. pc[d] \in {"announce_rerun", "close", "rerun", "run_rerun"}
    BY <1>11 DEF Conclude, PublishExecution, RequestRerun, Locked, AnnounceRerun, RunRerun, At
  <2>3. record.stage > Engine!CLASSIFY_BOTTLENECK
    BY <2>2 DEF Works, InLock, Profiling
  <2>4. record \in WorkflowRecord
    BY DEF Typed, FilesTyped
  <2> QED
    BY <2>1, <2>3, <2>4, NoAnswerDue
<1>12. CASE BeginResume(d)
  <2>1. record' = record
    BY <1>12 DEF BeginResume, Dispatched, files
  <2>2. (pc[d] = "dispatch" /\ held[d].stage \in 11 .. 14)
    BY <1>12 DEF BeginResume, Dispatched, At
  <2>3. record.stage > Engine!CLASSIFY_BOTTLENECK
    BY <2>2 DEF Works, InLock, Profiling
  <2>4. record \in WorkflowRecord
    BY DEF Typed, FilesTyped
  <2> QED
    BY <2>1, <2>3, <2>4, NoAnswerDue
<1>13. CASE AcquireLock(d)
  <2>1. record' = record
    BY <1>13 DEF AcquireLock, files
  <2>2. pc[d] \in {"lock"}
    BY <1>13 DEF AcquireLock, At
  <2>3. record.stage > Engine!CLASSIFY_BOTTLENECK
    BY <2>2 DEF Works, InLock, Profiling
  <2>4. record \in WorkflowRecord
    BY DEF Typed, FilesTyped
  <2> QED
    BY <2>1, <2>3, <2>4, NoAnswerDue
<1>14. CASE SaveRerun(d)
  <2>1. PICK r \in WorkflowRecord : record' = r /\ r.stage > Engine!CLASSIFY_BOTTLENECK
    <3>1. record' = Reopened(held[d]) /\ held[d] \in WorkflowRecord
      BY <1>14 DEF SaveRerun, SaveRecord, Reopened, Typed, DriversTyped
    <3> QED
      BY <3>1, ReopenedFields
  <2> QED
    BY <2>1, NoAnswerDue
<1>15. CASE NoRerun(d) \/ RequestPair(d) \/ RunPair(d) \/ SavePair(d) \/ NoPair(d)
  <2>1. record' = record
    BY <1>15 DEF NoRerun, Locked, RequestPair, RunPair, Measured, SavePair, NoPair, files
  <2>2. pc[d] \in {"pair", "rerun", "run_pair", "save_pair"}
    BY <1>15 DEF NoRerun, Locked, RequestPair, RunPair, SavePair, NoPair, At
  <2>3. record.stage > Engine!CLASSIFY_BOTTLENECK
    BY <2>2 DEF Works, InLock, Profiling
  <2>4. record \in WorkflowRecord
    BY DEF Typed, FilesTyped
  <2> QED
    BY <2>1, <2>3, <2>4, NoAnswerDue
<1>16. CASE ReleaseLock(d) \/ PassE2E(d) \/ StartQuality(d)
  <2>1. record' = record
    BY <1>16 DEF ReleaseLock, PassE2E, Judging, StartQuality, files
  <2>2. pc[d] \in {"profiled", "quality", "unlock"}
          /\ (pc[d] = "profiled" => held[d].stage # Engine!DISCOVER_HOTSPOTS)
    BY <1>16 DEF ReleaseLock, PassE2E, Judging, StartQuality, At
  <2>3. record.stage > Engine!CLASSIFY_BOTTLENECK
    BY <2>2 DEF Works, InLock, Profiling
  <2>4. record \in WorkflowRecord
    BY DEF Typed, FilesTyped
  <2> QED
    BY <2>1, <2>3, <2>4, NoAnswerDue
<1>17. CASE AcceptE2E(d)
  <2>1. PICK r \in WorkflowRecord : record' = r /\ r.stage > Engine!CLASSIFY_BOTTLENECK
    <3>1. record' = Closed(d) /\ held[d].stage = Engine!E2E_VALIDATION
      BY <1>17 DEF AcceptE2E, SaveRecord
    <3>2. held[d].stage < Engine!DECIDE /\ held[d].stage # Engine!CREATE_EXPERIMENT
      BY <3>1
    <3>3. Closed(d) \in WorkflowRecord /\ Closed(d).stage = held[d].stage + 1
      BY <3>2, ClosedFields
    <3> QED
      BY <3>1, <3>3
  <2> QED
    BY <2>1, NoAnswerDue
<1>18. CASE RejectEarly(d) \/ Decide(d)
  <2>1. PICK r \in WorkflowRecord, result \in QualityResult : Give(d, r, result)
    BY <1>18, RejectEarlyTyped, DecideGives DEF Typed, QualityKnown, DriversTyped, Decide, At
  <2>2. OnExperiment(d)
    BY <1>18, RejectEarlyGives DEF Decide, At, OnExperiment, Profiling
  <2>3. record'.stage > Engine!CLASSIFY_BOTTLENECK
    BY <2>1, <2>2, GiveFrame
  <2>4. record' \in WorkflowRecord
    BY <2>1, <2>2, GiveFrame
  <2> QED
    BY <2>3, <2>4, NoAnswerDue
<1>19. CASE RecordQuality(d)
  <2>1. PICK r \in WorkflowRecord : record' = r /\ r.stage > Engine!CLASSIFY_BOTTLENECK
    <3>1. record' = Completed(held[d], Engine!DECIDE) /\ held[d] \in WorkflowRecord
      BY <1>19 DEF RecordQuality, SaveRecord, Typed, DriversTyped
    <3> QED
      BY <3>1, CompletedFields
  <2> QED
    BY <2>1, NoAnswerDue
<1> QED
  BY <1>1, <1>2, <1>3, <1>4, <1>5, <1>6, <1>7, <1>8, <1>9, <1>10, <1>11, <1>12, <1>13,
     <1>14, <1>15, <1>16, <1>17, <1>18, <1>19
     DEF Drive, Quit, Profile

-----------------------------------------------------------------------------
(***************************************************************************)
(* What a closed workflow rests on, and the steps of an undisturbed task.  *)
(***************************************************************************)

\* A driver that stops without a verdict leaves the record as it is.
LEMMA StopsWithRecord ==
  ASSUME Typed, NEW d \in Drivers, Drive(d), ~RejectEarly(d), ~Decide(d)
  PROVE  pc'[d] = "idle" => record' = record
<1>1. CASE Load(d) \/ RunStage(d) \/ DiscoverHotspots(d) \/ AnswerUnavailable(d) \/
           SaveUnavailable(d) \/ SaveHotspots(d) \/ Execute(d) \/ CloseStage(d)
  BY <1>1
     DEF Load, RunStage, Dispatched, SaveRecord, DiscoverHotspots, AnswerUnavailable,
         SaveUnavailable, SaveHotspots, Execute, Measured, CloseStage, Goto, At, Typed,
         DriversTyped
<1>2. CASE Quit(d)
  BY <1>2, QuitFrame DEF files
<1>3. CASE Profile(d)
  BY <1>3, ProfileFrame DEF Profiling, Asking, Typed, DriversTyped
<1>4. CASE Conclude(d) \/ BeginResume(d) \/ AcquireLock(d) \/ RequestRerun(d) \/ AnnounceRerun(d) \/
           RunRerun(d) \/ SaveRerun(d) \/ NoRerun(d)
  BY <1>4
     DEF Conclude, BeginResume, Dispatched, AcquireLock, RequestRerun, Locked,
         AnnounceRerun, RunRerun, Measured, SaveRerun, SaveRecord, NoRerun, Goto, At, Typed,
         DriversTyped
<1>5. CASE PublishExecution(d) \/ StartQuality(d)
  BY <1>5 DEF PublishExecution, StartQuality
<1>6. CASE RequestPair(d) \/ RunPair(d) \/ SavePair(d) \/ NoPair(d) \/ ReleaseLock(d) \/
           AcceptE2E(d) \/
           PassE2E(d) \/ RecordQuality(d)
  BY <1>6
     DEF RequestPair, Locked, RunPair, Measured, SavePair, NoPair, ReleaseLock, AcceptE2E,
         SaveRecord, Judging, PassE2E, RecordQuality, Goto, At, Typed, DriversTyped
<1>7. CASE RejectEarly(d) \/ Decide(d)
  BY <1>7
<1> QED
  BY <1>1, <1>2, <1>3, <1>4, <1>5, <1>6, <1>7 DEF Drive, Quit, Profile

\* An idle driver can do nothing but load the record.
LEMMA IdleLoads ==
  ASSUME Typed, NEW d \in Drivers, Drive(d)
  PROVE  pc[d] = "idle" => Load(d)
<1>1. CASE Load(d)
  BY <1>1
<1>2. CASE Execute(d) \/ RunStage(d) \/ DiscoverHotspots(d) \/ AnswerUnavailable(d) \/
           BeginResume(d) \/ AcquireLock(d) \/ Conclude(d) \/ CloseStage(d) \/ PublishExecution(d) \/
           SaveUnavailable(d) \/ SaveHotspots(d)
  BY <1>2
     DEF Execute, Dispatched, Measured, RunStage, SaveRecord, DiscoverHotspots,
         AnswerUnavailable, BeginResume, AcquireLock, Conclude, CloseStage,
         PublishExecution, SaveUnavailable, SaveHotspots, At
<1>3. CASE Quit(d)
  BY <1>3, QuitFrom
<1>4. CASE Profile(d)
  BY <1>4, ProfileFrame DEF Asking
<1>5. CASE RequestRerun(d) \/ AnnounceRerun(d) \/ RunRerun(d) \/ SaveRerun(d) \/ NoRerun(d) \/
           RequestPair(d) \/ RunPair(d) \/ SavePair(d) \/ NoPair(d) \/ ReleaseLock(d)
  BY <1>5
     DEF RequestRerun, Locked, AnnounceRerun, RunRerun, Measured, SaveRerun, SaveRecord,
         NoRerun, RequestPair, RunPair, SavePair, NoPair, ReleaseLock, At
<1>6. CASE AcceptE2E(d) \/ PassE2E(d) \/ RejectEarly(d) \/ StartQuality(d) \/ RecordQuality(d) \/
           Decide(d)
  BY <1>6
     DEF AcceptE2E, SaveRecord, Judging, PassE2E, RejectEarly, Give, StartQuality,
         RecordQuality, Decide, At
<1> QED
  BY <1>1, <1>2, <1>3, <1>4, <1>5, <1>6 DEF Drive, Quit, Profile

\* Only a verdict closes the workflow.
LEMMA OpenWithoutVerdict ==
  ASSUME Typed, NEW d \in Drivers, Drive(d), ~RejectEarly(d), ~Decide(d),
         pc[d] # "idle" => Works(d)
  PROVE  record'.status = "ACTIVE"
<1>1. record.status = "ACTIVE"
  <2>1. CASE pc[d] = "idle"
    <3>1. Load(d)
      BY <2>1, IdleLoads
    <3> QED
      BY <3>1 DEF Load
  <2> QED
    BY <2>1 DEF Works
<1>2. CASE pc'[d] = "idle"
  BY <1>1, <1>2, StopsWithRecord
<1>3. CASE pc'[d] # "idle"
  BY <1>3, WorksStep DEF Works
<1> QED
  BY <1>2, <1>3

\* The record a verdict closes rests on the measurement the verdict names.
LEMMA VerdictOnEvidence ==
  ASSUME Typed, NEW d \in Drivers, Works(d), RejectEarly(d) \/ Decide(d),
         Executing(d) => Executes(d), Resuming(d) => Resumes(d)
  PROVE  \E v \in Verdict :
           verdicts' = Append(verdicts, v) /\ record'.e2e = [exp |-> v.exp, sample |-> v.sample]
<1>1. OnExperiment(d)
  BY RejectEarlyGives DEF Decide, At, OnExperiment, Profiling
<1>2. /\ active[d].exp = spec /\ held[d] \in WorkflowRecord /\ active[d] \in ActiveExecution
      /\ active[d].exp \in Targets /\ active[d].sample \in Nat
  BY <1>1, ExecutionFields DEF Works, Typed, DriversTyped
<1> DEFINE measured == [exp |-> active[d].exp, sample |-> active[d].sample]
<1>3. \E r \in WorkflowRecord, result \in QualityResult : Give(d, r, result) /\ r.e2e = measured
  <2>1. CASE RejectEarly(d)
    <3> DEFINE r == Rejected(held[d], active[d].exp, active[d].sample)
    <3>1. r \in WorkflowRecord /\ r.e2e = measured
      BY <1>2, RejectedFields
    <3>2. Give(d, r, "SKIPPED")
      BY <2>1, RejectEarlyGives
    <3>3. "SKIPPED" \in QualityResult
      BY DEF QualityResult
    <3> QED
      BY <3>1, <3>2, <3>3
  <2>2. CASE Decide(d)
    <3>1. PICK result \in QualityResult : Give(d, held[d], result)
      BY <2>2, DecideGives DEF Typed, QualityKnown, Decide, At
    <3>2. pc[d] = "decide" /\ held[d] = record /\ record.stage = Engine!DECIDE
      BY <2>2 DEF Decide, At, Works
    <3>3. record.e2e = Evidence(active[d])
      BY <3>2 DEF Executing, Executes, Resuming, Resumes
    <3>4. held[d].e2e = measured
      BY <1>2, <3>2, <3>3 DEF Evidence
    <3> QED
      BY <1>2, <3>1, <3>4
  <2> QED
    BY <2>1, <2>2
<1>4. PICK r \in WorkflowRecord, result \in QualityResult : Give(d, r, result) /\ r.e2e = measured
  BY <1>3
<1>5. PICK v \in Verdict :
        /\ verdicts' = Append(verdicts, v) /\ record'.e2e = r.e2e
        /\ v.exp = active[d].exp /\ v.sample = active[d].sample
  BY <1>1, <1>4, GiveFrame
<1> QED
  BY <1>4, <1>5

\* The last verdict is on the measurement of the record it closes.
LEMMA SettledStep ==
  ASSUME Typed, NEW d \in Drivers, Drive(d), pc[d] # "idle" => Works(d),
         Executing(d) => Executes(d), Resuming(d) => Resumes(d)
  PROVE  Settled'
<1>1. CASE ~RejectEarly(d) /\ ~Decide(d)
  BY <1>1, OpenWithoutVerdict DEF Settled
<1>2. CASE RejectEarly(d) \/ Decide(d)
  <2>1. pc[d] # "idle"
    BY <1>2, RejectEarlyGives DEF Decide, At
  <2>2. PICK v \in Verdict :
          verdicts' = Append(verdicts, v) /\ record'.e2e = [exp |-> v.exp, sample |-> v.sample]
    BY <1>2, <2>1, VerdictOnEvidence
  <2>3. verdicts' # << >> /\ verdicts'[Len(verdicts')] = v
    <3>1. verdicts \in Seq(Verdict)
      BY DEF Typed, GhostsTyped
    <3>2. Len(verdicts) \in Nat /\ Len(verdicts') = Len(verdicts) + 1
            /\ verdicts'[Len(verdicts) + 1] = v
      BY <2>2, <3>1, VerdictAdded
    <3> QED
      BY <3>2
  <2> QED
    BY <2>2, <2>3 DEF Settled
<1> QED
  BY <1>1, <1>2

\* A driver who stands still has no evidence of its own at stake.
LEMMA ElsewhereIdle ==
  ASSUME NEW x \in Drivers, pc'[x] \in {"idle", "dispatch"}
  PROVE  ~Executing(x)' /\ ~Resuming(x)'
BY DEF Executing, Resuming, InLock, Profiling, Asking

\* What a driver's step leaves undisturbed.
LEMMA DriveUndisturbed ==
  ASSUME Typed, AloneInv, UndisturbedInv, Undisturbed, Undisturbed', NEW d \in Drivers, Drive(d)
  PROVE  UndisturbedInv'
<1>1. overlaps = 0 /\ overlaps' = 0
  BY DEF Undisturbed
<1>2. /\ Alone
      /\ pc[d] # "idle" => Works(d)
      /\ Rested /\ Answered /\ Settled
      /\ Executing(d) => Executes(d)
      /\ Resuming(d) => Resumes(d)
  BY <1>1 DEF AloneInv, UndisturbedInv
<1>3. \A x \in Drivers : x # d => pc[x] = "idle" /\ pc'[x] = "idle"
  BY <1>1, <1>2, OthersIdle
<1>4. /\ Executing(d)' => Executes(d)'
      /\ Resuming(d)' => Resumes(d)'
  BY <1>2, <1>3, ExecutesStep, ResumesStep
<1>5. Rested' /\ Answered' /\ Settled'
  BY <1>2, <1>3, RestedStep, AnsweredStep, SettledStep
<1>6. ASSUME NEW x \in Drivers
      PROVE  (Executing(x)' => Executes(x)') /\ (Resuming(x)' => Resumes(x)')
  <2>1. CASE x = d
    BY <2>1, <1>4
  <2>2. CASE x # d
    BY <2>2, <1>3, ElsewhereIdle
  <2> QED
    BY <2>1, <2>2
<1> QED
  BY <1>5, <1>6 DEF UndisturbedInv

\* A decision of the agent moves the record among the stages before an experiment.
LEMMA SubmitUndisturbed ==
  ASSUME Typed, AloneInv, UndisturbedInv, Undisturbed, Submit
  PROVE  UndisturbedInv'
<1>1. /\ \A d \in Drivers : pc[d] # "idle" => Works(d)
      /\ Answered
  BY DEF AloneInv, UndisturbedInv, Undisturbed
<1>2. \A d \in Drivers : pc[d] \in {"idle", "dispatch"} /\ pc'[d] \in {"idle", "dispatch"}
  <2>1. \A d \in Drivers : pc[d] # "idle" => pc[d] = "dispatch"
    BY <1>1, SubmitMeets
  <2> QED
    BY <2>1 DEF Submit, local
<1>3. PICK next \in Engine!PermittedNextStages(record.stage) :
        /\ record.stage \in Engine!CLASSIFY_BOTTLENECK .. Engine!CREATE_EXPERIMENT
        /\ record.status = "ACTIVE"
        /\ record' = Completed(record, next)
        /\ next = Engine!DISCOVER_HOTSPOTS => ~request'.fulfilled
        /\ next # Engine!DISCOVER_HOTSPOTS => request' = request
  BY DEF Submit
<1>4. next \in Engine!DISCOVER_HOTSPOTS .. Engine!PATCH_AND_BUILD /\ next \in 1 .. 15
      /\ next # Engine!CLASSIFY_BOTTLENECK
  BY <1>3 DEF Engine!PermittedNextStages, Engine!DeeperProfileStages
<1>5. record'.stage = next /\ record'.status = "ACTIVE"
  BY <1>3, <1>4, CompletedFields DEF Typed, FilesTyped
<1>6. Rested'
  BY <1>4, <1>5 DEF Rested, Ready
<1>7. Answered'
  BY <1>2, <1>3, <1>4, <1>5 DEF Answered
<1>8. Settled'
  BY <1>5 DEF Settled
<1> QED
  BY <1>2, <1>6, <1>7, <1>8, ElsewhereIdle DEF UndisturbedInv

\* Without an interruption, every step keeps what one driver relies on.
LEMMA UndisturbedInvStep ==
  ASSUME Typed, AloneInv, UndisturbedInv, [Next]_vars
  PROVE  UndisturbedInv'
<1> SUFFICES ASSUME Undisturbed' PROVE UndisturbedInv'
  BY DEF UndisturbedInv
<1>1. Undisturbed
  BY StepsAreSteady DEF Steady
<1>2. ASSUME NEW d \in Drivers, Drive(d) PROVE UndisturbedInv'
  BY <1>1, <1>2, DriveUndisturbed
<1>3. ASSUME NEW d \in Drivers, Crash(d) PROVE UndisturbedInv'
  BY <1>1, <1>3, CrashFrame DEF Undisturbed
<1>4. CASE Submit
  BY <1>1, <1>4, SubmitUndisturbed
<1>5. CASE ApproveProfile \/ EndQuality \/ UNCHANGED vars
  <2>1. /\ UNCHANGED << task, record, spec, execution, initial, paired, request >>
        /\ UNCHANGED << pc, held, active, target, verdicts >>
    BY <1>5 DEF ApproveProfile, EndQuality, vars, loopVars, local, files, ghosts
  <2>2. Rested /\ Answered /\ Settled
    BY <1>1 DEF UndisturbedInv
  <2>3. Rested' /\ Answered' /\ Settled'
    BY <2>1, <2>2 DEF Rested, AtRest, Ready, Evidence, Resolved, Answered, Settled
  <2>4. ASSUME NEW x \in Drivers
        PROVE  /\ Executing(x)' => Executes(x)'
               /\ Resuming(x)' => Resumes(x)'
    <3>1. /\ Executing(x) => Executes(x)
          /\ Resuming(x) => Resumes(x)
      BY <1>1 DEF UndisturbedInv
    <3> QED
      BY <2>1, <3>1 DEF Executing, Executes, Resuming, Resumes, Evidence, Resolved
  <2> QED
    BY <2>3, <2>4 DEF UndisturbedInv
<1> QED
  BY <1>2, <1>3, <1>4, <1>5 DEF Next

-----------------------------------------------------------------------------
(***************************************************************************)
(* The saves of a lone driver are steps of the engine.                     *)
(***************************************************************************)

\* after is what complete_stage makes of a record when next is the stage it moves to.
Continues(r, after, next) ==
  /\ after.stage = next
  /\ after.status = r.status /\ after.decision = r.decision /\ after.reruns = r.reruns
  /\ after.completions = Append(r.completions, Engine!Completed(r.stage))
  /\ after.experiments =
       IF r.stage = Engine!CREATE_EXPERIMENT THEN r.experiments + 1 ELSE r.experiments

\* after is what a verdict makes of a record whose closed stages are history.
Judges(r, after, decision, more, history) ==
  /\ after.reruns = r.reruns /\ after.experiments = r.experiments
  /\ after.completions = Append(history, Engine!Decided(decision.outcome))
  /\ decision.outcome = "REJECT" /\ more =>
       /\ after.stage = Engine!GENERATE_HYPOTHESIS
       /\ after.status = r.status /\ after.decision = r.decision
  /\ ~(decision.outcome = "REJECT" /\ more) =>
       /\ after.stage = Engine!DECIDE /\ after.decision = decision
       /\ after.status = Engine!StatusOf(decision.outcome)

\* So complete_stage does.
LEMMA CompletedContinues ==
  ASSUME NEW r \in WorkflowRecord, NEW next \in 1 .. 15
  PROVE  Continues(r, Completed(r, next), next)
BY CompletedFields DEF Continues

\* So does a hotspot save.
LEMMA HotspotsContinue ==
  ASSUME NEW r \in WorkflowRecord, NEW kind \in {"timing", "unavailable"}
  PROVE  Continues(r, Hotspots(r, kind), Engine!CLASSIFY_BOTTLENECK)
<1>1. Engine!CLASSIFY_BOTTLENECK \in 1 .. 15
  OBVIOUS
<1> DEFINE c == Completed(r, Engine!CLASSIFY_BOTTLENECK)
           h == Hotspots(r, kind)
<1>2. Continues(r, c, Engine!CLASSIFY_BOTTLENECK)
  BY <1>1, CompletedContinues
<1>3. /\ h.stage = Engine!CLASSIFY_BOTTLENECK /\ h.status = r.status /\ h.decision = r.decision
      /\ h.reruns = r.reruns /\ h.completions = c.completions /\ h.experiments = c.experiments
  BY HotspotsFields
<1> HIDE DEF c, h
<1>4. Continues(r, h, Engine!CLASSIFY_BOTTLENECK)
  BY <1>2, <1>3 DEF Continues
<1> QED
  BY <1>4 DEF h

\* So does the closing of a stage of an experiment.
LEMMA ClosedContinues ==
  ASSUME Typed, NEW d \in Drivers, held[d].stage < Engine!DECIDE,
         held[d].stage # Engine!CREATE_EXPERIMENT
  PROVE  Continues(held[d], Closed(d), held[d].stage + 1)
BY ClosedFields DEF Continues

\* Room in the history, in the engine's words.
LEMMA RoomInHistory ==
  ASSUME record \in WorkflowRecord, NEW n \in 1 .. 2, RoomFor(record, n)
  PROVE  Len(record.completions) + (n - 1) < MaxCompletions
<1>1. Len(record.completions) \in Nat
  BY RecordFields
<1>2. MaxCompletions \in Nat
  BY LoopAssumption
<1> QED
  BY <1>1, <1>2 DEF RoomFor

\* complete_stage is a step of the engine.
LEMMA EngineCompletes ==
  ASSUME record \in WorkflowRecord, record.status = "ACTIVE", record.stage # Engine!DECIDE,
         RoomFor(record, 1), NEW next \in Engine!PermittedNextStages(record.stage),
         Continues(record, record', next)
  PROVE  EngineStep
<1>1. Len(record.completions) + (1 - 1) < MaxCompletions
  BY RoomInHistory
<1>2. Len(record.completions) < MaxCompletions
  BY <1>1, RecordFields
<1>3. Engine!CompleteStage(Engine!STAGE_REQUIREMENTS[record.stage], record'.stage)
  BY <1>2 DEF Engine!CompleteStage, Continues
<1> QED
  BY <1>3 DEF EngineStep

\* So is complete_stage at DECIDE.
LEMMA EngineDecides ==
  ASSUME record \in WorkflowRecord, record.status = "ACTIVE", record.stage = Engine!DECIDE,
         RoomFor(record, 1), NEW decision \in Engine!GateDecision, NEW more \in BOOLEAN,
         Judges(record, record', decision, more, record.completions)
  PROVE  EngineStep
<1>1. Len(record.completions) + (1 - 1) < MaxCompletions
  BY RoomInHistory
<1>2. Len(record.completions) < MaxCompletions
  BY <1>1, RecordFields
<1>3. Engine!CompleteDecide(Engine!STAGE_REQUIREMENTS[record.stage], decision, more)
  BY <1>2 DEF Engine!CompleteDecide, Engine!ApplyDecision, Judges
<1> QED
  BY <1>3 DEF EngineStep

\* So is complete_performance_rejection.
LEMMA EngineRejects ==
  ASSUME record \in WorkflowRecord, record.status = "ACTIVE",
         record.stage = Engine!E2E_VALIDATION, RoomFor(record, 2),
         NEW decision \in Engine!GateDecision, decision.outcome = "REJECT", NEW more \in BOOLEAN,
         Judges(record, record', decision, more,
                Append(record.completions, Engine!Completed(record.stage)))
  PROVE  EngineStep
<1>1. Len(record.completions) + (2 - 1) < MaxCompletions
  BY RoomInHistory
<1>2. Len(record.completions) + 1 < MaxCompletions
  BY <1>1, RecordFields
<1>3. Engine!CompletePerformanceRejection(decision, more)
  BY <1>2 DEF Engine!CompletePerformanceRejection, Engine!ApplyDecision, Judges
<1> QED
  BY <1>3 DEF EngineStep

\* A lone driver saves what a step of the engine yields, or reopens for a rerun.
LEMMA FollowsStep ==
  ASSUME Typed, NEW d \in Drivers, Drive(d), pc[d] # "idle" => Works(d)
  PROVE  record' = record \/ EngineStep \/ ReopenedForRerun
<1>1. CASE Load(d) \/ DiscoverHotspots(d) \/ AnswerUnavailable(d) \/ Execute(d) \/ Conclude(d) \/
           PublishExecution(d) \/ BeginResume(d)
  BY <1>1
     DEF Load, DiscoverHotspots, Dispatched, AnswerUnavailable, Execute, Measured, Conclude,
         PublishExecution, BeginResume, files, At
<1>2. CASE RunStage(d)
  <2>1. /\ record' = Completed(record, record.stage + 1) /\ held[d] = record
           /\ RoomFor(record, 1) /\ record.status = "ACTIVE"
        /\ record \in WorkflowRecord /\ record.stage \in 1 .. 5
    BY <1>2 DEF RunStage, Dispatched, At, SaveRecord, Works, Typed, FilesTyped
  <2>2. /\ record.stage + 1 \in Engine!PermittedNextStages(record.stage)
           /\ record.stage + 1 \in 1 .. 15
        /\ record.stage # Engine!DECIDE /\ record.stage # Engine!CREATE_EXPERIMENT
    BY <2>1 DEF Engine!PermittedNextStages
  <2>3. Continues(record, record', record.stage + 1)
    BY <2>1, <2>2, CompletedContinues
  <2> QED
    BY <2>1, <2>2, <2>3, EngineCompletes
<1>3. CASE Quit(d)
  BY <1>3, QuitFrame
<1>4. CASE SaveUnavailable(d)
  <2>1. /\ record' = Hotspots(record, "unavailable") /\ held[d] = record
           /\ RoomFor(record, 1) /\ record.status = "ACTIVE"
        /\ record \in WorkflowRecord /\ record.stage \in {6}
    BY <1>4 DEF SaveUnavailable, At, SaveRecord, Works, Typed, FilesTyped
  <2>2. /\ 7 \in Engine!PermittedNextStages(record.stage) /\ 7 \in 1 .. 15
        /\ record.stage # Engine!DECIDE /\ record.stage # Engine!CREATE_EXPERIMENT
    BY <2>1 DEF Engine!PermittedNextStages
  <2>3. Continues(record, record', 7)
    BY <2>1, <2>2, HotspotsContinue
  <2> QED
    BY <2>1, <2>2, <2>3, EngineCompletes
<1>5. CASE SaveHotspots(d)
  <2>1. /\ record' = Hotspots(record, "timing") /\ held[d] = record /\ RoomFor(record, 1)
           /\ record.status = "ACTIVE"
        /\ record \in WorkflowRecord /\ record.stage \in {6}
    BY <1>5 DEF SaveHotspots, At, SaveRecord, Profiling, Works, Typed, FilesTyped
  <2>2. /\ 7 \in Engine!PermittedNextStages(record.stage) /\ 7 \in 1 .. 15
        /\ record.stage # Engine!DECIDE /\ record.stage # Engine!CREATE_EXPERIMENT
    BY <2>1 DEF Engine!PermittedNextStages
  <2>3. Continues(record, record', 7)
    BY <2>1, <2>2, HotspotsContinue
  <2> QED
    BY <2>1, <2>2, <2>3, EngineCompletes
<1>6. CASE Profile(d)
  BY <1>6, ProfileFrame
<1>7. CASE CloseStage(d)
  <2>1. /\ record' = Closed(d) /\ held[d] = record /\ RoomFor(record, 1) /\ record.status = "ACTIVE"
        /\ record \in WorkflowRecord /\ record.stage \in 11 .. 14
    BY <1>7 DEF CloseStage, Closes, At, SaveRecord, Works, Typed, FilesTyped
  <2>2. /\ record.stage + 1 \in Engine!PermittedNextStages(record.stage)
           /\ record.stage + 1 \in 1 .. 15
        /\ record.stage # Engine!DECIDE /\ record.stage # Engine!CREATE_EXPERIMENT
    BY <2>1 DEF Engine!PermittedNextStages
  <2>3. Continues(record, record', record.stage + 1)
    BY <2>1, <2>2, ClosedContinues
  <2> QED
    BY <2>1, <2>2, <2>3, EngineCompletes
<1>8. CASE AcquireLock(d) \/ RequestRerun(d) \/ AnnounceRerun(d) \/ RunRerun(d) \/ NoRerun(d) \/
           RequestPair(d) \/ RunPair(d)
  BY <1>8
     DEF AcquireLock, RequestRerun, Locked, AnnounceRerun, RunRerun, Measured, NoRerun,
         RequestPair, RunPair, files, At
<1>9. CASE SaveRerun(d)
  <2>1. pc[d] = "save_rerun" /\ record' = Reopened(held[d])
    BY <1>9 DEF SaveRerun, SaveRecord, Locked, At, Reopened
  <2> QED
    BY <2>1 DEF Works, ReopenedForRerun, Reopened
<1>10. CASE SavePair(d) \/ NoPair(d) \/ ReleaseLock(d) \/ PassE2E(d) \/ StartQuality(d)
  BY <1>10
     DEF SavePair, Locked, NoPair, ReleaseLock, PassE2E, Judging, StartQuality, files, At
<1>11. CASE AcceptE2E(d)
  <2>1. /\ record' = Closed(d) /\ held[d] = record /\ RoomFor(record, 1) /\ record.status = "ACTIVE"
        /\ record \in WorkflowRecord /\ record.stage \in {13}
    BY <1>11 DEF AcceptE2E, Judging, At, SaveRecord, Works, Typed, FilesTyped
  <2>2. /\ record.stage + 1 \in Engine!PermittedNextStages(record.stage)
           /\ record.stage + 1 \in 1 .. 15
        /\ record.stage # Engine!DECIDE /\ record.stage # Engine!CREATE_EXPERIMENT
    BY <2>1 DEF Engine!PermittedNextStages
  <2>3. Continues(record, record', record.stage + 1)
    BY <2>1, <2>2, ClosedContinues
  <2> QED
    BY <2>1, <2>2, <2>3, EngineCompletes
<1>12. CASE RejectEarly(d)
  <2> DEFINE r == Rejected(record, active[d].exp, active[d].sample)
  <2>1. /\ OnExperiment(d) /\ held[d] = record /\ record.status = "ACTIVE" /\ RoomFor(record, 2)
        /\ record.stage = Engine!E2E_VALIDATION /\ active[d].gate = "REJECT"
        /\ Give(d, r, "SKIPPED")
    BY <1>12, RejectEarlyGives DEF OnExperiment, Profiling, Works, RejectEarly
  <2>2. /\ record \in WorkflowRecord /\ active[d].exp \in Targets /\ active[d].sample \in Nat
    BY <2>1, ExecutionFields DEF Typed, FilesTyped, DriversTyped
  <2>3. "SKIPPED" \in QualityResult /\ "REJECT" \in PreGate \cup {"INITIAL"}
    BY DEF QualityResult, PreGate
  <2>4. /\ r \in WorkflowRecord /\ r.stage = record.stage /\ r.status = record.status
        /\ r.decision = record.decision /\ r.reruns = record.reruns
        /\ r.experiments = record.experiments /\ r.completions = record.completions
    BY <2>2, RejectedFields
  <2> HIDE DEF r
  <2>5. PICK decision \in Engine!GateDecision, more \in BOOLEAN :
          decision = Decision(active[d].gate, "SKIPPED") /\ record' = Decided(r, decision, more)
    BY <2>1, <2>3, <2>4, GiveFrame
  <2>6. decision.outcome = "REJECT"
    BY <2>1, <2>3, <2>5, DecisionOfGates
  <2>7. r.stage # Engine!DECIDE /\ r.stage # Engine!CREATE_EXPERIMENT /\ Engine!DECIDE \in 1 .. 15
    BY <2>1, <2>4
  <2> DEFINE closed == Completed(r, Engine!DECIDE)
  <2>8. /\ closed.experiments = record.experiments
        /\ closed.completions = Append(record.completions, Engine!Completed(record.stage))
    <3>1. Continues(r, closed, Engine!DECIDE)
      BY <2>4, <2>7, CompletedContinues
    <3> HIDE DEF closed
    <3> QED
      BY <2>4, <2>7, <3>1 DEF Continues
  <2>9. Judges(record, record', decision, more,
               Append(record.completions, Engine!Completed(record.stage)))
    <3>1. /\ record'.reruns = r.reruns /\ record'.experiments = closed.experiments
          /\ record'.completions = Append(closed.completions, Engine!Decided(decision.outcome))
          /\ decision.outcome = "REJECT" /\ more =>
               /\ record'.stage = Engine!GENERATE_HYPOTHESIS
               /\ record'.status = r.status /\ record'.decision = r.decision
          /\ ~(decision.outcome = "REJECT" /\ more) =>
               /\ record'.stage = Engine!DECIDE /\ record'.decision = decision
               /\ record'.status = Engine!StatusOf(decision.outcome)
      BY <2>4, <2>5, <2>7, DecidedFields
    <3> HIDE DEF closed
    <3> QED
      BY <2>4, <2>8, <3>1 DEF Judges
  <2> QED
    BY <2>1, <2>2, <2>5, <2>6, <2>9, EngineRejects
<1>13. CASE RecordQuality(d)
  <2>1. /\ record' = Completed(record, 15) /\ held[d] = record /\ RoomFor(record, 1)
           /\ record.status = "ACTIVE"
        /\ record \in WorkflowRecord /\ record.stage \in {14}
    BY <1>13 DEF RecordQuality, At, SaveRecord, Works, Typed, FilesTyped
  <2>2. /\ 15 \in Engine!PermittedNextStages(record.stage) /\ 15 \in 1 .. 15
        /\ record.stage # Engine!DECIDE /\ record.stage # Engine!CREATE_EXPERIMENT
    BY <2>1 DEF Engine!PermittedNextStages
  <2>3. Continues(record, record', 15)
    BY <2>1, <2>2, CompletedContinues
  <2> QED
    BY <2>1, <2>2, <2>3, EngineCompletes
<1>14. CASE Decide(d)
  <2>1. /\ OnExperiment(d) /\ held[d] = record /\ record.status = "ACTIVE" /\ RoomFor(record, 1)
        /\ record.stage = Engine!DECIDE /\ record \in WorkflowRecord
    BY <1>14 DEF Decide, At, OnExperiment, Works, Typed, FilesTyped
  <2>2. PICK result \in QualityResult : Give(d, record, result)
    BY <1>14, <2>1, DecideGives DEF Typed, QualityKnown, Decide, At
  <2>3. PICK decision \in Engine!GateDecision, more \in BOOLEAN :
          record' = Decided(record, decision, more)
    BY <2>1, <2>2, GiveFrame
  <2>4. Judges(record, record', decision, more, record.completions)
    BY <2>1, <2>3, DecidedFields DEF Judges
  <2> QED
    BY <2>1, <2>3, <2>4, EngineDecides
<1> QED
  BY <1>1, <1>2, <1>3, <1>4, <1>5, <1>6, <1>7, <1>8, <1>9, <1>10, <1>11, <1>12, <1>13, <1>14
     DEF Drive, Quit, Profile

\* Whoever writes the record, one driver at a time, makes a step of the engine.
LEMMA EngineIsFollowed ==
  ASSUME Typed, AloneInv, [Next]_vars
  PROVE  [overlaps' > 0 \/ EngineStep \/ ReopenedForRerun]_record
<1> SUFFICES ASSUME ~(overlaps' > 0) PROVE record' = record \/ EngineStep \/ ReopenedForRerun
  OBVIOUS
<1>1. overlaps' = 0
  BY TypedStep DEF Typed, GhostsTyped
<1>2. overlaps = 0
  BY <1>1, StepsAreSteady DEF Steady
<1>3. \A d \in Drivers : pc[d] # "idle" => Works(d)
  BY <1>2 DEF AloneInv
<1>4. ASSUME NEW d \in Drivers, Drive(d) PROVE record' = record \/ EngineStep \/ ReopenedForRerun
  BY <1>3, <1>4, FollowsStep
<1>5. CASE Submit
  <2>1. PICK next \in Engine!PermittedNextStages(record.stage) :
          /\ record.status = "ACTIVE" /\ RoomFor(record, 1)
          /\ record.stage \in Engine!CLASSIFY_BOTTLENECK .. Engine!CREATE_EXPERIMENT
          /\ record' = Completed(record, next)
    BY <1>5 DEF Submit
  <2>2. record \in WorkflowRecord /\ next \in 1 .. 15
    BY <2>1 DEF Typed, FilesTyped, Engine!PermittedNextStages, Engine!DeeperProfileStages
  <2>3. Continues(record, record', next)
    BY <2>1, <2>2, CompletedFields DEF Continues
  <2>4. EngineStep
    BY <2>1, <2>2, <2>3, EngineCompletes
  <2> QED
    BY <2>4
<1>6. CASE (\E d \in Drivers : Crash(d)) \/ ApproveProfile \/ EndQuality \/ UNCHANGED vars
  BY <1>6, CrashFrame DEF ApproveProfile, EndQuality, vars, loopVars
<1> QED
  BY <1>4, <1>5, <1>6 DEF Next

-----------------------------------------------------------------------------
(***************************************************************************)
(* The invariant, and what follows from it.                                *)
(***************************************************************************)

\* Nobody works on the task at first, and nothing is stored.
LEMMA InitLone ==
  ASSUME Init
  PROVE  Locking /\ AgainCounted /\ ProfilesTaken /\ Accepted /\ AloneInv
<1>1. /\ \A d \in Drivers : pc[d] = "idle"
      /\ \A e \in Experiments : again[e] = 0
      /\ \A t \in Targets : profiles[t] = << >>
      /\ dirs = {} /\ verdicts = << >> /\ DOMAIN verdicts = {}
  BY DEF Init, ProfileInit
<1>2. Locking
  BY <1>1 DEF Locking, InLock
<1>3. AgainCounted
  BY <1>1 DEF AgainCounted, Begun
<1>4. ProfilesTaken
  BY <1>1 DEF ProfilesTaken, Asking, Profiling, Succeeded
<1>5. Accepted
  BY <1>1 DEF Accepted
<1>6. AloneInv
  <2>1. Alone /\ \A d \in Drivers : pc[d] # "idle" => Works(d)
    BY <1>1 DEF Alone, At
  <2>2. Judged /\ Finished
    BY <1>1 DEF Judged, Finished, Asking
  <2>3. Paid
    <3>1. \A t \in Targets : \A n \in 1 .. MaxProfileAttempts : transports[t][n] = 0
      BY DEF Init, ProfileInit
    <3> QED
      BY <1>1, <3>1 DEF Paid
  <2> QED
    BY <2>1, <2>2, <2>3 DEF AloneInv
<1> QED
  BY <1>2, <1>3, <1>4, <1>5, <1>6

\* Nothing is measured or requested at first.
LEMMA InitUndisturbed ==
  ASSUME Init
  PROVE  UndisturbedInv
<1>1. /\ \A d \in Drivers : pc[d] = "idle"
      /\ record.stage = Engine!CREATE_TASK /\ record.status = "ACTIVE" /\ request.level2
  BY InitialRecordTyped DEF Init, NoRequest
<1>2. Rested /\ Answered /\ Settled
  BY <1>1 DEF Rested, Ready, Answered, Settled
<1>3. \A d \in Drivers : ~Executing(d) /\ ~Resuming(d)
  BY <1>1 DEF Executing, Resuming, InLock, Profiling, Asking
<1> QED
  BY <1>2, <1>3 DEF UndisturbedInv

\* The invariant holds at first.
LEMMA IInvInit == Init => IInv
  BY InitTyped, InitLone, InitUndisturbed DEF IInv

\* Every step keeps it.
LEMMA IInvStep == IInv /\ [Next]_vars => IInv'
  BY TypedStep, LockingStep, AgainStep, ProfilesStep, AcceptedStep, AloneInvStep,
     UndisturbedInvStep
  DEF IInv

\* So it always holds.
LEMMA IInvHolds == Spec => []IInv
<1>1. QED
  BY IInvInit, IInvStep, PTL DEF Spec

\* Verdicts whose experiments only grow are at most one for an experiment.
LEMMA JudgedMeansOnce ==
  ASSUME Typed, AloneInv
  PROVE  OneVerdictPerExperiment
<1> SUFFICES ASSUME overlaps = 0, NEW e \in Experiments
             PROVE  Cardinality(Verdicts(e)) <= 1
  BY DEF OneVerdictPerExperiment
<1>1. verdicts \in Seq(Verdict) /\ Len(verdicts) \in Nat /\ DOMAIN verdicts = 1 .. Len(verdicts)
  BY DEF Typed, GhostsTyped
<1>2. \A m, n \in DOMAIN verdicts : m < n => verdicts[m].exp < verdicts[n].exp
  BY DEF AloneInv, Judged
<1>3. \A n \in DOMAIN verdicts : verdicts[n].exp \in Nat
  BY NumbersOfVerdicts
<1>4. \A m, n \in Verdicts(e) : m = n
  BY <1>1, <1>2, <1>3 DEF Verdicts
<1>5. CASE Verdicts(e) = {}
  BY <1>5, FS_EmptySet
<1>6. CASE Verdicts(e) # {}
  <2>1. PICK n : Verdicts(e) = {n}
    BY <1>4, <1>6
  <2>2. Cardinality({n}) = 1
    BY FS_Singleton, Zenon
  <2>3. Cardinality(Verdicts(e)) = 1
    BY <2>1, <2>2, Zenon
  <2> QED
    BY <2>3
<1> QED
  BY <1>5, <1>6

\* The invariant implies each part of VerdictIsEarned.
LEMMA InvariantMeansEarned == IInv => VerdictIsEarned
<1> SUFFICES ASSUME IInv PROVE VerdictIsEarned
  OBVIOUS
<1>1. VerdictRestsOnItsMeasurement
  BY DEF IInv, UndisturbedInv, Settled, VerdictRestsOnItsMeasurement
<1>2. MeasuredAgainOnce
  BY CountedMeansOnce DEF IInv
<1>3. AcceptanceIsComplete
  BY DEF IInv, Accepted, AloneInv, Finished, AcceptanceIsComplete
<1>4. OneVerdictPerExperiment
  BY JudgedMeansOnce DEF IInv
<1> QED
  BY <1>1, <1>2, <1>3, <1>4 DEF VerdictIsEarned

\* A verdict is earned, for any number of drivers, experiments and interruptions:
\* undisturbed, a closed workflow rests on the measurement its verdict compared;
\* whoever overlaps and dies, no evidence directory is measured into twice and no
\* hardened experiment is accepted without its passed quality and its profile; and
\* without an overlap no experiment is judged twice.
THEOREM VerdictsAreEarned == Spec => []VerdictIsEarned
<1>1. QED
  BY IInvHolds, InvariantMeansEarned, PTL

\* The invariant implies each part of ProfilesAreAsApproved.
LEMMA InvariantMeansApproved == IInv => ProfilesAreAsApproved
<1> SUFFICES ASSUME IInv PROVE ProfilesAreAsApproved
  OBVIOUS
<1>1. ApprovalSpentOnce
  BY DEF IInv, AloneInv, Paid, ApprovalSpentOnce
<1>2. LevelIsNotSubstituted
  BY DEF IInv, UndisturbedInv, Undisturbed, Answered, LevelIsNotSubstituted
<1> QED
  BY <1>1, <1>2 DEF ProfilesAreAsApproved

\* Without an overlap an approval buys one call of the ROCm server, and no call is
\* made without one, though the driver be killed around it; and a level of profile
\* this integration lacks is answered as unavailable.
THEOREM ApprovalsAreKept == Spec => []ProfilesAreAsApproved
<1>1. QED
  BY IInvHolds, InvariantMeansApproved, PTL

\* The invariant implies each part of WorkflowIsSound.
LEMMA InvariantMeansSound == IInv => WorkflowIsSound
<1> SUFFICES ASSUME IInv PROVE WorkflowIsSound
  OBVIOUS
<1>1. TypeOK
  BY TypedMeansTypeOK DEF IInv
<1>2. StrandedOnlyByInterruption
  BY DEF IInv, UndisturbedInv, Rested, AtRest, Ready, At, StrandedOnlyByInterruption
<1> QED
  BY <1>1, <1>2 DEF WorkflowIsSound

\* The files are of their types, and without an interruption no workflow is left
\* where no driver goes on.
THEOREM WorkflowsAreSound == Spec => []WorkflowIsSound
<1>1. QED
  BY IInvHolds, InvariantMeansSound, PTL

\* Under the invariant a step of the loop is a step of the engine.
LEMMA InvariantFollowsEngine ==
  IInv /\ [Next]_vars => [overlaps' > 0 \/ EngineStep \/ ReopenedForRerun]_record
  BY EngineIsFollowed DEF IInv

\* One driver at a time, every save of the workflow is a step of the engine, or the
\* rerun that reopens E2E_VALIDATION: no save undoes another's.
THEOREM EngineIsImplemented == Spec => WorkflowFollowsEngine
<1>1. QED
  BY IInvHolds, InvariantFollowsEngine, PTL DEF Spec, WorkflowFollowsEngine
=============================================================================
