--------------------------- MODULE QualityExecution --------------------------
(***************************************************************************)
(* Durable, single-owner quality evaluation (quality_execution.py): a      *)
(* caller starts or resumes one evaluation of an experiment, a detached    *)
(* worker process owns the attempt, and the evaluator the worker spawns    *)
(* writes the output.  Each of the three may be killed alone.              *)
(*                                                                         *)
(* Every read-modify-write of an attempt happens under the task lock.  The *)
(* critical sections of workers are one step; that of a caller which       *)
(* starts an attempt is one step per durable write, so that it can crash   *)
(* in between.                                                             *)
(*                                                                         *)
(* A process is looked for in /proc.  A look that fails is taken for its   *)
(* absence, and whatever it should have found or stopped goes on: lost has *)
(* the attempts to which that happened.                                    *)
(***************************************************************************)
EXTENDS Naturals, FiniteSets

CONSTANTS
  Callers,   \* processes that call start_or_resume
  Requests,  \* request_hash and spec_hash, as one value
  Free,      \* the task lock when nobody holds it
  NoRequest, \* the request of an attempt that does not exist
  MaxAttempts, MaxDisturbances  \* bounds of the model

ASSUME BoundsAssumption ==
  {MaxAttempts, MaxDisturbances} \subseteq Nat

ASSUME NoValueAssumption == Free \notin Callers /\ NoRequest \notin Requests

Attempt == 1 .. MaxAttempts

TERMINAL_QUALITY_STATES == {"COMPLETED", "FAILED", "TIMED_OUT", "ORPHANED"}

VARIABLES
  attempt,    \* attempts/attempt-N.json; "NONE" is no file
  pointer,    \* active-execution.json, 0 when absent
  lock,       \* the caller inside the task lock across several writes
  caller,     \* caller -> how far its start has got
  worker,     \* attempt -> its worker process
  evaluator,  \* attempt -> its evaluator process
  output,     \* the attempt whose evaluator wrote the output file last
  initial,    \* attempt -> output when its worker took ownership, until it ends
  lost,       \* attempts with a process that a look missed, or nobody knows
  disturbances  \* processes killed and looks that failed

durable == << attempt, pointer >>
processes == << worker, evaluator, output, initial, lost >>
vars == << durable, lock, caller, processes, disturbances >>

\* A completed record must bind an output.
QualityExecution ==
  { record \in
      [ state : {"NONE", "STARTED", "RUNNING"} \cup TERMINAL_QUALITY_STATES,
        request : Requests \cup {NoRequest},
        evaluator : BOOLEAN,            \* the evaluator's identity is recorded
        output : Attempt \cup {0} ] :   \* who wrote the artifact bound at the end
      record.state = "COMPLETED" => record.output # 0 }

State(a) == attempt[a].state

\* Processes of an attempt: process_matches on their recorded identity.
WorkerAlive(a) == worker[a] \notin {"none", "gone"}
Evaluating(a) == evaluator[a] \in {"running", "wrote"}

\* _terminate_process_group of the evaluator of a.
Terminated(a) ==
  IF Evaluating(a) THEN [evaluator EXCEPT ![a] = "failed"] ELSE evaluator

\* Something goes wrong that the code can only make the best of.
Disturbed == disturbances < MaxDisturbances /\ disturbances' = disturbances + 1

\* The evaluator of a is stopped, unless its identity could not be read.
StopEvaluator(a) ==
  \/ evaluator' = Terminated(a) /\ UNCHANGED << lost, disturbances >>
  \/ Evaluating(a) /\ lost' = lost \cup {a} /\ Disturbed /\ UNCHANGED evaluator

-----------------------------------------------------------------------------
(***************************************************************************)
(* start_or_resume                                                         *)
(***************************************************************************)

(* missed are the processes of the attempt pointed at that live, but that   *)
(* the call does not find.                                                 *)

Missable ==
  { missed \in SUBSET {"worker", "evaluator"} :
      /\ missed # {} => pointer # 0
      /\ "worker" \in missed => WorkerAlive(pointer)
      /\ "evaluator" \in missed => Evaluating(pointer) }

\* Mutant: a live worker is not looked for.
Abandoned_AnyRunning(a, missed) == State(a) \in {"STARTED", "RUNNING"}

\* Mutant: an attempt that never got its worker is left as it is.
Abandoned_Running(a, missed) == State(a) = "RUNNING" /\ (~WorkerAlive(a) \/ "worker" \in missed)

\* The lock is free, so a starter that left STARTED behind has exited.
Abandoned(a, missed) ==
  \/ State(a) = "STARTED"
  \/ State(a) = "RUNNING" /\ (~WorkerAlive(a) \/ "worker" \in missed)

Orphaned(missed) ==
  IF pointer # 0 /\ Abandoned(pointer, missed)
  THEN [attempt EXCEPT ![pointer].state = "ORPHANED"] ELSE attempt

\* Whether a RUNNING attempt is given up, and its evaluator stopped.
GivesUp(missed) == pointer # 0 /\ State(pointer) = "RUNNING" /\ Abandoned(pointer, missed)

\* Only an evaluator whose identity was recorded can be stopped.
OrphanStopped(missed) ==
  IF GivesUp(missed) /\ attempt[pointer].evaluator /\ "evaluator" \notin missed
  THEN Terminated(pointer) ELSE evaluator

Looked(missed) ==
  IF missed = {} THEN UNCHANGED << lost, disturbances >>
  ELSE GivesUp(missed) /\ lost' = lost \cup {pointer} /\ Disturbed

\* Mutant: an exact request is evaluated again even when it completed.
MayStart_Repeats(q, retryOrphaned, retryFailed, missed) ==
  pointer # 0 =>
    \/ retryOrphaned /\ (Abandoned(pointer, missed) \/ State(pointer) = "ORPHANED")
    \/ retryFailed /\ State(pointer) \in TERMINAL_QUALITY_STATES

\* The cases in which a new attempt follows; in the others the call returns the
\* current attempt or refuses a different request.
MayStart(q, retryOrphaned, retryFailed, missed) ==
  pointer # 0 =>
    \/ /\ retryOrphaned
       /\ \/ Abandoned(pointer, missed)
          \/ State(pointer) = "ORPHANED" /\ attempt[pointer].request = q
    \/ retryFailed /\ State(pointer) \in {"FAILED", "TIMED_OUT"}

\* _new_attempt numbers past every attempt file, pointed at or not.
Saved == { a \in Attempt : State(a) # "NONE" }
NewAttempt == Cardinality(Saved) + 1

\* The current attempt is found abandoned and no retry was asked for.
CloseAbandoned(c, missed) ==
  /\ lock = Free /\ caller[c] = "idle"
  /\ pointer # 0 /\ Abandoned(pointer, missed)
  /\ attempt' = Orphaned(missed)
  /\ evaluator' = OrphanStopped(missed)
  /\ Looked(missed)
  /\ UNCHANGED << pointer, lock, caller, worker, output, initial >>

BeginAttempt(c, missed) ==
  /\ lock = Free /\ caller[c] = "idle"
  /\ NewAttempt \in Attempt
  /\ \E q \in Requests, retryOrphaned, retryFailed \in BOOLEAN :
       /\ MayStart(q, retryOrphaned, retryFailed, missed)
       /\ attempt' = [ Orphaned(missed) EXCEPT ![NewAttempt] =
                         [ state |-> "STARTED", request |-> q,
                           evaluator |-> FALSE, output |-> 0 ] ]
  /\ evaluator' = OrphanStopped(missed)
  /\ Looked(missed)
  /\ lock' = c
  /\ caller' = [caller EXCEPT ![c] = "saved"]
  /\ UNCHANGED << pointer, worker, output, initial >>

\* The attempt a caller inside the lock is starting.
Starting == Cardinality(Saved)

SavePointer(c) ==
  /\ caller[c] = "saved"
  /\ pointer' = Starting
  /\ caller' = [caller EXCEPT ![c] = "pointed"]
  /\ UNCHANGED << attempt, lock, processes, disturbances >>

Launch(c) ==
  /\ caller[c] = "pointed"
  /\ worker' = [worker EXCEPT ![Starting] = "starting"]
  /\ caller' = [caller EXCEPT ![c] = "launched"]
  /\ UNCHANGED << durable, lock, evaluator, output, initial, lost, disturbances >>

Released(c) == lock' = Free /\ caller' = [caller EXCEPT ![c] = "idle"]

\* The worker cannot be launched, or its identity cannot be read.
LaunchFails(c) ==
  /\ caller[c] \in {"pointed", "launched"}
  /\ attempt' = [attempt EXCEPT ![Starting].state = "FAILED"]
  /\ Released(c)
  /\ UNCHANGED << pointer, processes, disturbances >>

\* The identity of a worker that has died meanwhile is read from its zombie.
RecordRunning(c) ==
  /\ caller[c] = "launched"
  /\ attempt' = [attempt EXCEPT ![Starting].state = "RUNNING"]
  /\ Released(c)
  /\ UNCHANGED << pointer, processes, disturbances >>

-----------------------------------------------------------------------------
(***************************************************************************)
(* run_quality_worker                                                      *)
(***************************************************************************)

\* The worker of a is done with its evaluator, and with what it remembers of the output.
Ends(a, as) == worker' = [worker EXCEPT ![a] = as] /\ initial' = [initial EXCEPT ![a] = 0]

\* A worker owns only a RUNNING attempt; otherwise it exits.
TakeOwnership(a) ==
  /\ worker[a] = "starting" /\ lock = Free
  /\ IF State(a) = "RUNNING"
     THEN /\ worker' = [worker EXCEPT ![a] = "owner"]
          /\ initial' = [initial EXCEPT ![a] = output]
     ELSE worker' = [worker EXCEPT ![a] = "gone"] /\ UNCHANGED initial
  /\ UNCHANGED << durable, lock, caller, evaluator, output, lost, disturbances >>

SpawnEvaluator(a) ==
  /\ worker[a] = "owner"
  /\ worker' = [worker EXCEPT ![a] = "spawned"]
  /\ evaluator' = [evaluator EXCEPT ![a] = "running"]
  /\ UNCHANGED << durable, lock, caller, output, initial, lost, disturbances >>

\* The first heartbeat records the evaluator; later ones change only times.
Heartbeat(a) ==
  /\ worker[a] = "spawned" /\ lock = Free
  /\ State(a) = "RUNNING"
  /\ attempt' = [attempt EXCEPT ![a].evaluator = TRUE]
  /\ worker' = [worker EXCEPT ![a] = "watching"]
  /\ UNCHANGED << pointer, lock, caller, evaluator, output, initial, lost, disturbances >>

\* An exit with status zero counts only with a fresh output.
ObserveExit(a) ==
  /\ worker[a] = "watching"
  /\ evaluator[a] \in {"succeeded", "failed"}
  /\ Ends(a, IF evaluator[a] = "succeeded" /\ output # 0 /\ output # initial[a]
             THEN "COMPLETED" ELSE "FAILED")
  /\ UNCHANGED << durable, lock, caller, evaluator, output, lost, disturbances >>

\* Mutant: the evaluator outlives its timeout.
TimeOut_KeepsEvaluator(a) ==
  /\ worker[a] = "watching"
  /\ Ends(a, "TIMED_OUT")
  /\ UNCHANGED << durable, lock, caller, evaluator, output, lost, disturbances >>

\* The evaluator may have exited since it was polled.  It is waited for: when its
\* identity cannot be read, the wait ends with its own exit, or raises.
TimeOut(a) ==
  /\ worker[a] = "watching"
  /\ evaluator' = Terminated(a)
  /\ Ends(a, "TIMED_OUT")
  /\ UNCHANGED << durable, lock, caller, output, lost, disturbances >>

\* Any exception, also of a heartbeat that finds the attempt taken away, and of a
\* finalization.  When it is the evaluator's identity that cannot be read after the
\* spawn, nothing is there to stop the evaluator by, and the attempt fails beside it.
WorkerFails(a) ==
  /\ worker[a] \in {"owner", "spawned", "watching", "COMPLETED", "TIMED_OUT"}
  /\ StopEvaluator(a)
  /\ Ends(a, "FAILED")
  /\ UNCHANGED << durable, lock, caller, output >>

\* finalize_quality_execution binds the output as it is then.
Finalize(a) ==
  /\ worker[a] \in TERMINAL_QUALITY_STATES /\ lock = Free
  /\ attempt' = IF State(a) \in TERMINAL_QUALITY_STATES THEN attempt
                ELSE [attempt EXCEPT ![a].state = worker[a], ![a].output = output]
  /\ worker' = [worker EXCEPT ![a] = "gone"]
  /\ UNCHANGED << pointer, lock, caller, evaluator, output, initial, lost, disturbances >>

-----------------------------------------------------------------------------
(***************************************************************************)
(* The evaluator, and the death of each process.                           *)
(***************************************************************************)

WriteOutput(a) ==
  /\ evaluator[a] = "running"
  /\ output' = a
  /\ evaluator' = [evaluator EXCEPT ![a] = "wrote"]
  /\ UNCHANGED << durable, lock, caller, worker, initial, lost, disturbances >>

EvaluatorExits(a) ==
  /\ Evaluating(a)
  /\ \E exit \in {"succeeded", "failed"} : evaluator' = [evaluator EXCEPT ![a] = exit]
  /\ UNCHANGED << durable, lock, caller, worker, output, initial, lost, disturbances >>

CallerCrash(c) ==
  /\ caller[c] # "idle"
  /\ Released(c)
  /\ Disturbed
  /\ UNCHANGED << durable, processes >>

\* A worker killed before its first heartbeat leaves an evaluator that nobody knows.
WorkerCrash(a) ==
  /\ WorkerAlive(a)
  /\ Ends(a, "gone")
  /\ lost' = IF worker[a] = "spawned" /\ Evaluating(a) THEN lost \cup {a} ELSE lost
  /\ Disturbed
  /\ UNCHANGED << durable, lock, caller, evaluator, output >>

-----------------------------------------------------------------------------
Init ==
  /\ attempt = [a \in Attempt |-> [ state |-> "NONE", request |-> NoRequest,
                                    evaluator |-> FALSE, output |-> 0 ]]
  /\ pointer = 0
  /\ lock = Free
  /\ caller = [c \in Callers |-> "idle"]
  /\ worker = [a \in Attempt |-> "none"]
  /\ evaluator = [a \in Attempt |-> "none"]
  /\ output = 0
  /\ initial = [a \in Attempt |-> 0]
  /\ lost = {}
  /\ disturbances = 0

Start(c) == SavePointer(c) \/ Launch(c) \/ LaunchFails(c) \/ RecordRunning(c)

Work(a) ==
  \/ TakeOwnership(a) \/ SpawnEvaluator(a) \/ Heartbeat(a)
  \/ ObserveExit(a) \/ TimeOut(a) \/ WorkerFails(a) \/ Finalize(a)

Next ==
  \/ \E c \in Callers, missed \in Missable : CloseAbandoned(c, missed) \/ BeginAttempt(c, missed)
  \/ \E c \in Callers : Start(c) \/ CallerCrash(c)
  \/ \E a \in Attempt : Work(a) \/ WriteOutput(a) \/ EvaluatorExits(a) \/ WorkerCrash(a)

Spec == Init /\ [][Next]_vars

\* A live process makes progress, and somebody resumes the experiment again, with
\* looks that do not fail.
Fairness ==
  /\ \A c \in Callers : WF_vars(Start(c))
  /\ \A a \in Attempt : WF_vars(Work(a))
  /\ WF_vars(\E c \in Callers : CloseAbandoned(c, {}))

FairSpec == Spec /\ Fairness

-----------------------------------------------------------------------------
(***************************************************************************)
(* Properties.                                                             *)
(***************************************************************************)

\* Every variable keeps to its type, and every record to its validators.
TypeOK ==
  /\ attempt \in [Attempt -> QualityExecution]
  /\ pointer \in Attempt \cup {0}
  /\ lock \in Callers \cup {Free}
  /\ caller \in [Callers -> {"idle", "saved", "pointed", "launched"}]
  /\ worker \in [Attempt -> {"none", "starting", "owner", "spawned", "watching", "gone"}
                              \cup TERMINAL_QUALITY_STATES]
  /\ evaluator \in [Attempt -> {"none", "running", "wrote", "succeeded", "failed"}]
  /\ output \in Attempt \cup {0}
  /\ initial \in [Attempt -> Attempt \cup {0}]
  /\ lost \subseteq Attempt
  /\ disturbances \in 0 .. MaxDisturbances

\* Single owner: whatever crashes, at most one worker that was not overlooked has
\* an attempt to work on, and it is the one active-execution.json points at.
SingleOwner ==
  \A a \in Attempt \ lost :
    worker[a] \in {"owner", "spawned", "watching"} => a = pointer /\ State(a) = "RUNNING"

\* The attempts as the ledger of AttemptLedger sees them.
LedgerOutcome(a) ==
  IF State(a) \in TERMINAL_QUALITY_STATES THEN State(a)
  ELSE IF a = pointer THEN "OPEN" ELSE "NONE"

Ledger == INSTANCE AttemptLedger
            WITH outcome <- [a \in Attempt |-> LedgerOutcome(a)], latest <- pointer

\* Seen from outside, attempts open one after the other, each ends once and for
\* ever, and none follows one that completed: "Finalize once; repeated terminal
\* calls return the original terminal record."
ImplementsLedger == Ledger!Spec

\* Two evaluations of the experiment never run at the same time, although retries
\* follow timeouts, failures and deaths of either process: the record exists "to
\* resume without duplicate evaluation".  Only an evaluator that was lost, as its
\* identity was neither recorded nor read, may run beside its successor.
SingleEvaluator == Cardinality({ a \in Attempt \ lost : Evaluating(a) }) <= 1

\* All attempts share the output's path, but a completed one is bound to what its
\* own evaluator wrote, or one that was lost before.
CompletedOutputIsOwn ==
  \A a \in Attempt : State(a) = "COMPLETED" => attempt[a].output \in {a} \cup lost

\* An attempt that active-execution.json points at does not stay open, however
\* its caller and its worker die: it ends, or one takes its place after it ended.
AttemptOpen == pointer # 0 /\ State(pointer) \in {"STARTED", "RUNNING"}
EveryAttemptEnds == AttemptOpen ~> ~AttemptOpen

\* Records are valid, and an attempt has one owner.
AttemptsAreSound == TypeOK /\ SingleOwner

\* Evaluations exclude each other as far as evaluators can be found, and a
\* completed one is bound to what it wrote.
EvaluationsAreExclusive == SingleEvaluator /\ CompletedOutputIsOwn
=============================================================================
