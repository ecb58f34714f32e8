----------------------- MODULE QualityExecution_proofs -----------------------
(***************************************************************************)
(* Proofs about QualityExecution, for any number of callers, requests and  *)
(* attempts, and for any number of processes killed and looks that fail.   *)
(*                                                                         *)
(* The attempts that have a file are numbered from 1 without a gap, so the *)
(* one that a caller inside the lock is starting is the last.  An attempt  *)
(* that is not pointed at and has not ended never had a worker.  From      *)
(* these it follows that whoever evaluates and was not lost has the attempt *)
(* that is pointed at, and that attempts form the ledger of AttemptLedger. *)
(*                                                                         *)
(* Then proofs about QualityEvaluator, the program that an attempt runs    *)
(* (EvalInv), as MCTools runs it.                                          *)
(***************************************************************************)
EXTENDS QualityExecution, QualityEvaluator, FiniteSetTheorems, SequenceTheorems, TLAPS

\* Files are numbered past every file, pointed at or not.
Numbered == \E k \in 0 .. MaxAttempts : Saved = 1 .. k

PointerSaved == pointer # 0 => State(pointer) # "NONE"

LockHeld == \A c \in Callers : caller[c] # "idle" => lock = c

\* What a caller inside the lock has done so far.
StartedInLock ==
  \A c \in Callers :
    /\ caller[c] = "saved" =>
         /\ pointer < Starting /\ State(Starting) = "STARTED"
         /\ pointer # 0 => State(pointer) \in {"ORPHANED", "FAILED", "TIMED_OUT"}
    /\ caller[c] \in {"pointed", "launched"} => pointer # 0 /\ pointer = Starting /\ State(Starting) = "STARTED"

\* An attempt that was passed over before it ended has never had a worker.
PassedOverIdle ==
  \A a \in Attempt : a # pointer /\ State(a) \notin TERMINAL_QUALITY_STATES => worker[a] = "none"

OutputKept == \A a \in Attempt : worker[a] = "COMPLETED" => output # 0

\* A worker that has a result has no evaluator any more, or could not stop it.
ResultsAfterEvaluation ==
  \A a \in Attempt \ lost : worker[a] \in TERMINAL_QUALITY_STATES => ~Evaluating(a)

\* An evaluator that was not lost belongs to the attempt that is pointed at, and
\* the one who is to stop it can: its worker, or whoever reads the record.
OwnedEvaluator ==
  \A a \in Attempt \ lost : Evaluating(a) =>
    a = pointer /\ State(a) = "RUNNING" /\ (worker[a] = "spawned" \/ attempt[a].evaluator)

\* An attempt that lost a process has ended, or is about to.
LostIsOver ==
  \A a \in lost :
    \/ State(a) \in TERMINAL_QUALITY_STATES
    \/ State(a) = "RUNNING" /\ worker[a] \in {"FAILED", "gone"}

\* The output is what it was, or the worker's own, or of an evaluator that was lost.
OutputIsOwn ==
  \A a \in Attempt :
    /\ a \notin lost /\ worker[a] \in {"owner", "spawned", "watching"} => output \in {initial[a], a} \cup lost
    /\ worker[a] = "COMPLETED" /\ State(a) \notin TERMINAL_QUALITY_STATES => output \in {a} \cup lost
    /\ State(a) = "COMPLETED" => attempt[a].output \in {a} \cup lost

Order == Numbered /\ PointerSaved /\ LockHeld /\ StartedInLock

Owners == PassedOverIdle /\ SingleOwner /\ ResultsAfterEvaluation /\ OwnedEvaluator /\ LostIsOver

Outputs == OutputKept /\ OutputIsOwn

IInv == TypeOK /\ Order /\ Owners /\ Outputs

-----------------------------------------------------------------------------
\* The number of the last attempt, and of the next.
LEMMA Numbers ==
  ASSUME Numbered
  PROVE  /\ Starting \in 0 .. MaxAttempts /\ Saved = 1 .. Starting
         /\ NewAttempt = Starting + 1
<1>1. PICK k \in 0 .. MaxAttempts : Saved = 1 .. k  BY DEF Numbered
<1>2. MaxAttempts \in Nat  BY BoundsAssumption
<1>3. Cardinality(1 .. k) = k
  <2>1. k \in Nat  BY <1>1, <1>2
  <2>2. Cardinality(1 .. k) = IF 1 > k THEN 0 ELSE k - 1 + 1  BY <2>1, FS_Interval
  <2> QED  BY <2>1, <2>2
<1> QED  BY <1>1, <1>2, <1>3 DEF Starting, NewAttempt

\* An attempt that is pointed at or started is an attempt.
LEMMA Pointed ==
  ASSUME TypeOK, Order
  PROVE  /\ pointer \in 0 .. Starting
         /\ \A c \in Callers : caller[c] # "idle" => Starting \in Attempt /\ State(Starting) = "STARTED"
<1>1. Starting \in 0 .. MaxAttempts /\ Saved = 1 .. Starting  BY Numbers DEF Order
<1>2. MaxAttempts \in Nat  BY BoundsAssumption
<1>3. pointer \in 0 .. Starting
  <2>1. CASE pointer = 0  BY <1>1, <1>2, <2>1
  <2>2. CASE pointer # 0
    <3>1. pointer \in Saved  BY <2>2 DEF TypeOK, Order, PointerSaved, Saved
    <3> QED  BY <3>1, <1>1, <1>2
  <2> QED  BY <2>1, <2>2
<1>4. ASSUME NEW c \in Callers, caller[c] # "idle" PROVE Starting \in Attempt /\ State(Starting) = "STARTED"
  <2>1. caller[c] \in {"saved", "pointed", "launched"}  BY <1>4 DEF TypeOK
  <2>2. State(Starting) = "STARTED"  BY <2>1 DEF Order, StartedInLock
  <2>3. Starting # 0
    <3>1. CASE caller[c] = "saved"  BY <3>1, <1>1, <1>2, <1>3 DEF Order, StartedInLock
    <3>2. CASE caller[c] # "saved"
      <4> QED  BY <2>1, <3>2 DEF Order, StartedInLock
    <3> QED  BY <3>1, <3>2
  <2> QED  BY <1>1, <1>2, <2>2, <2>3 DEF Attempt
<1> QED  BY <1>3, <1>4

\* What a change of the attempts keeps of their numbers.
LEMMA SameFiles ==
  ASSUME TypeOK, attempt' \in [Attempt -> QualityExecution],
         \A a \in Attempt : State(a)' = "NONE" <=> State(a) = "NONE"
  PROVE  Saved' = Saved /\ Starting' = Starting
<1>1. Saved' = Saved  BY DEF Saved
<1> QED  BY <1>1 DEF Starting

\* A record of four fields stays one of its set when a field gets another value.
LEMMA Fields ==
  ASSUME NEW A, NEW B, NEW C, NEW D, NEW r \in [state : A, request : B, evaluator : C, output : D],
         NEW s \in A, NEW e \in C, NEW o \in D
  PROVE  /\ [r EXCEPT !.evaluator = e] \in [state : A, request : B, evaluator : C, output : D]
         /\ [r EXCEPT !.evaluator = e].state = r.state /\ [r EXCEPT !.evaluator = e].output = r.output
         /\ [r EXCEPT !.state = s, !.output = o] \in [state : A, request : B, evaluator : C, output : D]
         /\ [r EXCEPT !.state = s, !.output = o].state = s /\ [r EXCEPT !.state = s, !.output = o].output = o
  OBVIOUS

\* An attempt that gets a state, an evaluator or an outcome is still a record.
LEMMA Updated ==
  ASSUME NEW r \in QualityExecution
  PROVE  /\ \A s \in {"STARTED", "RUNNING", "FAILED", "TIMED_OUT", "ORPHANED"} :
              /\ [r EXCEPT !.state = s] \in QualityExecution
              /\ [r EXCEPT !.state = s].state = s /\ [r EXCEPT !.state = s].evaluator = r.evaluator
              /\ [r EXCEPT !.state = s].output = r.output
         /\ [r EXCEPT !.evaluator = TRUE] \in QualityExecution
         /\ [r EXCEPT !.evaluator = TRUE].state = r.state /\ [r EXCEPT !.evaluator = TRUE].output = r.output
         /\ \A s \in TERMINAL_QUALITY_STATES, o \in Attempt \cup {0} : (s = "COMPLETED" => o # 0) =>
              /\ [r EXCEPT !.state = s, !.output = o] \in QualityExecution
              /\ [r EXCEPT !.state = s, !.output = o].state = s
              /\ [r EXCEPT !.state = s, !.output = o].output = o
<1> DEFINE All == [ state : {"NONE", "STARTED", "RUNNING"} \cup TERMINAL_QUALITY_STATES,
                    request : Requests \cup {NoRequest}, evaluator : BOOLEAN, output : Attempt \cup {0} ]
<1>1. r \in All /\ (r.state = "COMPLETED" => r.output # 0)  BY DEF QualityExecution
<1>2. ASSUME NEW q \in All, q.state = "COMPLETED" => q.output # 0 PROVE q \in QualityExecution
  BY <1>2 DEF QualityExecution
<1>3. ASSUME NEW s \in {"STARTED", "RUNNING", "FAILED", "TIMED_OUT", "ORPHANED"}
      PROVE  /\ [r EXCEPT !.state = s] \in QualityExecution
             /\ [r EXCEPT !.state = s].state = s /\ [r EXCEPT !.state = s].evaluator = r.evaluator
             /\ [r EXCEPT !.state = s].output = r.output
  BY <1>1, <1>2, SMT DEF TERMINAL_QUALITY_STATES
<1>4. /\ [r EXCEPT !.evaluator = TRUE] \in QualityExecution
      /\ [r EXCEPT !.evaluator = TRUE].state = r.state /\ [r EXCEPT !.evaluator = TRUE].output = r.output
  <2>1. TRUE \in BOOLEAN  OBVIOUS
  <2>2. r.state \in {"NONE", "STARTED", "RUNNING"} \cup TERMINAL_QUALITY_STATES /\ r.output \in Attempt \cup {0}
    BY <1>1
  <2>3. [r EXCEPT !.evaluator = TRUE] \in All /\ [r EXCEPT !.evaluator = TRUE].state = r.state
                                           /\ [r EXCEPT !.evaluator = TRUE].output = r.output
    BY <1>1, <2>1, <2>2, Fields
  <2> QED  BY <1>1, <1>2, <2>3
<1>5. ASSUME NEW s \in TERMINAL_QUALITY_STATES, NEW o \in Attempt \cup {0}, s = "COMPLETED" => o # 0
      PROVE  /\ [r EXCEPT !.state = s, !.output = o] \in QualityExecution
             /\ [r EXCEPT !.state = s, !.output = o].state = s
             /\ [r EXCEPT !.state = s, !.output = o].output = o
  <2>1. r.evaluator \in BOOLEAN  BY <1>1
  <2>2. /\ [r EXCEPT !.state = s, !.output = o] \in All
        /\ [r EXCEPT !.state = s, !.output = o].state = s /\ [r EXCEPT !.state = s, !.output = o].output = o
    BY <1>1, <2>1, Fields
  <2> QED  BY <1>2, <1>5, <2>2
<1> QED  BY <1>3, <1>4, <1>5

\* What closing an abandoned attempt does to the attempts and to the evaluators.
LEMMA Closing ==
  ASSUME TypeOK, Order, NEW missed
  PROVE  /\ Orphaned(missed) \in [Attempt -> QualityExecution]
         /\ \A a \in Attempt :
              /\ Orphaned(missed)[a].state = IF a = pointer /\ Abandoned(pointer, missed) THEN "ORPHANED" ELSE State(a)
              /\ Orphaned(missed)[a].evaluator = attempt[a].evaluator /\ Orphaned(missed)[a].output = attempt[a].output
         /\ OrphanStopped(missed) \in [Attempt -> {"none", "running", "wrote", "succeeded", "failed"}]
         /\ \A a \in Attempt :
              OrphanStopped(missed)[a] = IF /\ a = pointer /\ GivesUp(missed) /\ "evaluator" \notin missed
                                            /\ attempt[a].evaluator /\ Evaluating(a)
                                         THEN "failed" ELSE evaluator[a]
<1>1. pointer # 0 => pointer \in Attempt  BY DEF TypeOK
<1>2. 0 \notin Attempt  BY BoundsAssumption DEF Attempt
<1>3. Orphaned(missed) \in [Attempt -> QualityExecution]
  BY <1>1, Updated DEF Orphaned, TypeOK
<1>4. ASSUME NEW a \in Attempt
      PROVE  /\ Orphaned(missed)[a].state = IF a = pointer /\ Abandoned(pointer, missed) THEN "ORPHANED" ELSE State(a)
             /\ Orphaned(missed)[a].evaluator = attempt[a].evaluator /\ Orphaned(missed)[a].output = attempt[a].output
  <2>1. CASE pointer # 0 /\ Abandoned(pointer, missed)
    <3>1. Orphaned(missed) = [attempt EXCEPT ![pointer].state = "ORPHANED"]  BY <2>1 DEF Orphaned
    <3>2. attempt[a] \in QualityExecution  BY DEF TypeOK
    <3>3. CASE a = pointer
      <4>1. Orphaned(missed)[a] = [attempt[a] EXCEPT !.state = "ORPHANED"]  BY <3>1, <3>3 DEF TypeOK
      <4>2. "ORPHANED" \in {"STARTED", "RUNNING", "FAILED", "TIMED_OUT", "ORPHANED"}  OBVIOUS
      <4>3. /\ [attempt[a] EXCEPT !.state = "ORPHANED"].state = "ORPHANED"
            /\ [attempt[a] EXCEPT !.state = "ORPHANED"].evaluator = attempt[a].evaluator
            /\ [attempt[a] EXCEPT !.state = "ORPHANED"].output = attempt[a].output
        BY <3>2, <4>2, Updated, Zenon
      <4> QED  BY <2>1, <3>3, <4>1, <4>3, Zenon
    <3>4. CASE a # pointer
      <4>1. Orphaned(missed)[a] = attempt[a]  BY <3>1, <3>4 DEF TypeOK
      <4> QED  BY <3>4, <4>1 DEF State
    <3> QED  BY <3>3, <3>4
  <2>2. CASE ~(pointer # 0 /\ Abandoned(pointer, missed))
    <3>1. Orphaned(missed) = attempt  BY <2>2 DEF Orphaned
    <3>2. ~(a = pointer /\ Abandoned(pointer, missed))  BY <1>2, <2>2
    <3> QED  BY <3>1, <3>2 DEF State
  <2> QED  BY <2>1, <2>2
<1>5. OrphanStopped(missed) \in [Attempt -> {"none", "running", "wrote", "succeeded", "failed"}]
  BY <1>1 DEF OrphanStopped, Terminated, TypeOK
<1>6. ASSUME NEW a \in Attempt
      PROVE  OrphanStopped(missed)[a] = IF /\ a = pointer /\ GivesUp(missed) /\ "evaluator" \notin missed
                                           /\ attempt[a].evaluator /\ Evaluating(a)
                                        THEN "failed" ELSE evaluator[a]
  BY <1>1, <1>2, <1>6 DEF OrphanStopped, GivesUp, Terminated, TypeOK
<1> QED  BY <1>3, <1>4, <1>5, <1>6

\* A look that misses a process gives up the attempt pointed at, and loses it.
LEMMA Looking ==
  ASSUME TypeOK, NEW missed, Looked(missed)
  PROVE  /\ lost \subseteq lost' /\ lost' \subseteq Attempt /\ disturbances' \in 0 .. MaxDisturbances
         /\ lost' \subseteq lost \cup {pointer} /\ (pointer \notin lost' => missed = {})
         /\ ~GivesUp(missed) => lost' = lost
<1>1. CASE missed = {}  BY <1>1 DEF Looked, TypeOK
<1>2. CASE missed # {}
  <2>1. GivesUp(missed) /\ lost' = lost \cup {pointer} /\ Disturbed  BY <1>2 DEF Looked
  <2>2. pointer \in Attempt  BY <2>1 DEF TypeOK, GivesUp
  <2>3. disturbances' \in 0 .. MaxDisturbances  BY <2>1, BoundsAssumption DEF Disturbed, TypeOK
  <2> QED  BY <2>1, <2>2, <2>3 DEF TypeOK
<1> QED  BY <1>1, <1>2

-----------------------------------------------------------------------------
\* What the ledger of AttemptLedger does not see: an attempt that stays open, or unopened.
LEMMA LedgerStutters ==
  ASSUME pointer' = pointer,
         \A a \in Attempt : State(a)' = State(a) \/ {State(a), State(a)'} \cap TERMINAL_QUALITY_STATES = {}
  PROVE  UNCHANGED Ledger!vars
<1>1. \A a \in Attempt : LedgerOutcome(a)' = LedgerOutcome(a)  BY DEF LedgerOutcome
<1>2. [a \in Attempt |-> LedgerOutcome(a)]' = [a \in Attempt |-> LedgerOutcome(a)]  BY <1>1
<1> QED  BY <1>2 DEF Ledger!vars

\* What it sees when the attempt pointed at ends.
LEMMA LedgerCloses ==
  ASSUME NEW end \in TERMINAL_QUALITY_STATES, pointer' = pointer, pointer \in Attempt,
         State(pointer) \notin TERMINAL_QUALITY_STATES, State(pointer)' = end,
         \A a \in Attempt \ {pointer} :
           State(a)' = State(a) \/ {State(a), State(a)'} \cap TERMINAL_QUALITY_STATES = {}
  PROVE  Ledger!Next
<1>1. pointer # 0  BY BoundsAssumption DEF Attempt
<1>2. LedgerOutcome(pointer) = "OPEN" /\ LedgerOutcome(pointer)' = end  BY DEF LedgerOutcome
<1>3. \A a \in Attempt \ {pointer} : LedgerOutcome(a)' = LedgerOutcome(a)  BY DEF LedgerOutcome
<1>4. [a \in Attempt |-> LedgerOutcome(a)]' = [[a \in Attempt |-> LedgerOutcome(a)] EXCEPT ![pointer] = end]
  BY <1>2, <1>3
<1>5. Ledger!Close(end)  BY <1>1, <1>2, <1>4 DEF Ledger!Close
<1> QED  BY <1>5 DEF Ledger!Next, Ledger!Terminal, TERMINAL_QUALITY_STATES

-----------------------------------------------------------------------------
\* The order of the attempts is that of their states alone.
LEMMA SameStates ==
  ASSUME TypeOK, Order, \A a \in Attempt : State(a)' = State(a), UNCHANGED << pointer, lock, caller >>
  PROVE  Order'
<1>1. Saved' = Saved  BY DEF Saved
<1>2. Starting' = Starting  BY <1>1 DEF Starting
<1>3. \A c \in Callers : caller[c] # "idle" => Starting \in Attempt  BY Pointed
<1>4. pointer # 0 => pointer \in Attempt  BY DEF TypeOK
<1> QED
  BY <1>1, <1>2, <1>3, <1>4 DEF Order, Numbered, PointerSaved, LockHeld, StartedInLock

\* Workers and evaluators have no part in it.
LEMMA RecordsKept ==
  ASSUME TypeOK, Order, UNCHANGED << attempt, pointer, lock, caller >>
  PROVE  Order'
  BY SameStates DEF State

\* An attempt of a worker that has not been closed is the one pointed at.
LEMMA WorkerPointed ==
  ASSUME IInv, NEW a \in Attempt, worker[a] # "none", State(a) \notin TERMINAL_QUALITY_STATES
  PROVE  a = pointer
  BY DEF IInv, Owners, PassedOverIdle

\* A worker takes only the attempt pointed at, whose evaluation has not begun.
LEMMA TakeOwnershipKeeps ==
  ASSUME IInv, NEW a \in Attempt, TakeOwnership(a)
  PROVE  IInv'
<1> USE DEF TakeOwnership, durable, Ends, Evaluating, Terminated, WorkerAlive, TERMINAL_QUALITY_STATES
<1>1. UNCHANGED << attempt, pointer, lock, caller >>  OBVIOUS
<1>2. Order'  BY <1>1, RecordsKept DEF IInv
<1>3. TypeOK'  BY BoundsAssumption DEF IInv, TypeOK
<1>4. Owners'
  BY <1>1, WorkerPointed
     DEF IInv, TypeOK, Owners, PassedOverIdle, SingleOwner, ResultsAfterEvaluation,
         OwnedEvaluator, LostIsOver, State
<1>5. OutputKept'  BY BoundsAssumption DEF IInv, TypeOK, Outputs, OutputKept, Attempt
<1>6. OutputIsOwn'
  BY <1>1, WorkerPointed
     DEF IInv, TypeOK, Owners, SingleOwner, ResultsAfterEvaluation, OwnedEvaluator, LostIsOver,
         Outputs, OutputIsOwn, State
<1> QED  BY <1>2, <1>3, <1>4, <1>5, <1>6 DEF IInv, Outputs

\* The owner of the attempt pointed at spawns its evaluator.
LEMMA SpawnEvaluatorKeeps ==
  ASSUME IInv, NEW a \in Attempt, SpawnEvaluator(a)
  PROVE  IInv'
<1> USE DEF SpawnEvaluator, durable, Ends, Evaluating, Terminated, WorkerAlive, TERMINAL_QUALITY_STATES
<1>1. UNCHANGED << attempt, pointer, lock, caller >>  OBVIOUS
<1>2. Order'  BY <1>1, RecordsKept DEF IInv
<1>3. TypeOK'  BY BoundsAssumption DEF IInv, TypeOK
<1>4. Owners'
  BY <1>1, WorkerPointed
     DEF IInv, TypeOK, Owners, PassedOverIdle, SingleOwner, ResultsAfterEvaluation,
         OwnedEvaluator, LostIsOver, State
<1>5. OutputKept'  BY BoundsAssumption DEF IInv, TypeOK, Outputs, OutputKept, Attempt
<1>6. OutputIsOwn'
  BY <1>1, WorkerPointed
     DEF IInv, TypeOK, Owners, SingleOwner, ResultsAfterEvaluation, OwnedEvaluator, LostIsOver,
         Outputs, OutputIsOwn, State
<1> QED  BY <1>2, <1>3, <1>4, <1>5, <1>6 DEF IInv, Outputs

\* An output that is not what it was is the evaluator's own.
LEMMA ObserveExitKeeps ==
  ASSUME IInv, NEW a \in Attempt, ObserveExit(a)
  PROVE  IInv'
<1> USE DEF ObserveExit, durable, Ends, Evaluating, Terminated, WorkerAlive, TERMINAL_QUALITY_STATES
<1>1. UNCHANGED << attempt, pointer, lock, caller >>  OBVIOUS
<1>2. Order'  BY <1>1, RecordsKept DEF IInv
<1>3. TypeOK'  BY BoundsAssumption DEF IInv, TypeOK
<1>4. Owners'
  BY <1>1, WorkerPointed
     DEF IInv, TypeOK, Owners, PassedOverIdle, SingleOwner, ResultsAfterEvaluation,
         OwnedEvaluator, LostIsOver, State
<1>5. OutputKept'  BY BoundsAssumption DEF IInv, TypeOK, Outputs, OutputKept, Attempt
<1>6. OutputIsOwn'
  BY <1>1, WorkerPointed
     DEF IInv, TypeOK, Owners, SingleOwner, ResultsAfterEvaluation, OwnedEvaluator, LostIsOver,
         Outputs, OutputIsOwn, State
<1> QED  BY <1>2, <1>3, <1>4, <1>5, <1>6 DEF IInv, Outputs

\* The evaluator is stopped before its time-out counts.
LEMMA TimeOutKeeps ==
  ASSUME IInv, NEW a \in Attempt, TimeOut(a)
  PROVE  IInv'
<1> USE DEF TimeOut, durable, Ends, Evaluating, Terminated, WorkerAlive, TERMINAL_QUALITY_STATES
<1>1. UNCHANGED << attempt, pointer, lock, caller >>  OBVIOUS
<1>2. Order'  BY <1>1, RecordsKept DEF IInv
<1>3. TypeOK'  BY BoundsAssumption DEF IInv, TypeOK
<1>4. Owners'
  BY <1>1, WorkerPointed
     DEF IInv, TypeOK, Owners, PassedOverIdle, SingleOwner, ResultsAfterEvaluation,
         OwnedEvaluator, LostIsOver, State
<1>5. OutputKept'  BY BoundsAssumption DEF IInv, TypeOK, Outputs, OutputKept, Attempt
<1>6. OutputIsOwn'
  BY <1>1, WorkerPointed
     DEF IInv, TypeOK, Owners, SingleOwner, ResultsAfterEvaluation, OwnedEvaluator, LostIsOver,
         Outputs, OutputIsOwn, State
<1> QED  BY <1>2, <1>3, <1>4, <1>5, <1>6 DEF IInv, Outputs

\* The evaluator is stopped before its failure counts, or it is lost.
LEMMA WorkerFailsKeeps ==
  ASSUME IInv, NEW a \in Attempt, WorkerFails(a)
  PROVE  IInv'
<1> USE DEF WorkerFails, StopEvaluator, Disturbed, durable, Ends, Evaluating, Terminated, WorkerAlive, TERMINAL_QUALITY_STATES
<1>1. UNCHANGED << attempt, pointer, lock, caller >>  OBVIOUS
<1>2. Order'  BY <1>1, RecordsKept DEF IInv
<1>3. TypeOK'  BY BoundsAssumption DEF IInv, TypeOK
<1>4. Owners'
  BY <1>1, WorkerPointed
     DEF IInv, TypeOK, Owners, PassedOverIdle, SingleOwner, ResultsAfterEvaluation,
         OwnedEvaluator, LostIsOver, State
<1>5. OutputKept'  BY BoundsAssumption DEF IInv, TypeOK, Outputs, OutputKept, Attempt
<1>6. OutputIsOwn'
  BY <1>1, WorkerPointed
     DEF IInv, TypeOK, Owners, SingleOwner, ResultsAfterEvaluation, OwnedEvaluator, LostIsOver,
         Outputs, OutputIsOwn, State
<1> QED  BY <1>2, <1>3, <1>4, <1>5, <1>6 DEF IInv, Outputs

\* Only the evaluator of the attempt pointed at writes, and those that were lost.
LEMMA WriteOutputKeeps ==
  ASSUME IInv, NEW a \in Attempt, WriteOutput(a)
  PROVE  IInv'
<1> USE DEF WriteOutput, durable, Ends, Evaluating, Terminated, WorkerAlive, TERMINAL_QUALITY_STATES
<1>1. UNCHANGED << attempt, pointer, lock, caller >>  OBVIOUS
<1>2. Order'  BY <1>1, RecordsKept DEF IInv
<1>3. TypeOK'  BY BoundsAssumption DEF IInv, TypeOK
<1>4. Owners'
  BY <1>1, WorkerPointed
     DEF IInv, TypeOK, Owners, PassedOverIdle, SingleOwner, ResultsAfterEvaluation,
         OwnedEvaluator, LostIsOver, State
<1>5. OutputKept'  BY BoundsAssumption DEF IInv, TypeOK, Outputs, OutputKept, Attempt
<1>6. OutputIsOwn'
  BY <1>1, WorkerPointed
     DEF IInv, TypeOK, Owners, SingleOwner, ResultsAfterEvaluation, OwnedEvaluator, LostIsOver,
         Outputs, OutputIsOwn, State
<1> QED  BY <1>2, <1>3, <1>4, <1>5, <1>6 DEF IInv, Outputs

\* The evaluator ends.
LEMMA EvaluatorExitsKeeps ==
  ASSUME IInv, NEW a \in Attempt, EvaluatorExits(a)
  PROVE  IInv'
<1> USE DEF EvaluatorExits, durable, Ends, Evaluating, Terminated, WorkerAlive, TERMINAL_QUALITY_STATES
<1>1. UNCHANGED << attempt, pointer, lock, caller >>  OBVIOUS
<1>2. Order'  BY <1>1, RecordsKept DEF IInv
<1>3. TypeOK'  BY BoundsAssumption DEF IInv, TypeOK
<1>4. Owners'
  BY <1>1, WorkerPointed
     DEF IInv, TypeOK, Owners, PassedOverIdle, SingleOwner, ResultsAfterEvaluation,
         OwnedEvaluator, LostIsOver, State
<1>5. OutputKept'  BY BoundsAssumption DEF IInv, TypeOK, Outputs, OutputKept, Attempt
<1>6. OutputIsOwn'
  BY <1>1, WorkerPointed
     DEF IInv, TypeOK, Owners, SingleOwner, ResultsAfterEvaluation, OwnedEvaluator, LostIsOver,
         Outputs, OutputIsOwn, State
<1> QED  BY <1>2, <1>3, <1>4, <1>5, <1>6 DEF IInv, Outputs

\* An evaluator that was not recorded before its worker is killed is lost.
LEMMA WorkerCrashKeeps ==
  ASSUME IInv, NEW a \in Attempt, WorkerCrash(a)
  PROVE  IInv'
<1> USE DEF WorkerCrash, Disturbed, durable, Ends, Evaluating, Terminated, WorkerAlive, TERMINAL_QUALITY_STATES
<1>1. UNCHANGED << attempt, pointer, lock, caller >>  OBVIOUS
<1>2. Order'  BY <1>1, RecordsKept DEF IInv
<1>3. TypeOK'  BY BoundsAssumption DEF IInv, TypeOK
<1>4. Owners'
  BY <1>1, WorkerPointed
     DEF IInv, TypeOK, Owners, PassedOverIdle, SingleOwner, ResultsAfterEvaluation,
         OwnedEvaluator, LostIsOver, State
<1>5. OutputKept'  BY BoundsAssumption DEF IInv, TypeOK, Outputs, OutputKept, Attempt
<1>6. OutputIsOwn'
  BY <1>1, WorkerPointed
     DEF IInv, TypeOK, Owners, SingleOwner, ResultsAfterEvaluation, OwnedEvaluator, LostIsOver,
         Outputs, OutputIsOwn, State
<1> QED  BY <1>2, <1>3, <1>4, <1>5, <1>6 DEF IInv, Outputs

\* Every evaluation that a heartbeat records is that of the attempt pointed at.
LEMMA HeartbeatKeeps ==
  ASSUME IInv, NEW a \in Attempt, Heartbeat(a)
  PROVE  IInv' /\ [Ledger!Next]_(Ledger!vars)
<1> USE DEF Heartbeat, durable, Evaluating, TERMINAL_QUALITY_STATES
<1> DEFINE recorded == [attempt[a] EXCEPT !.evaluator = TRUE]
<1>1. attempt[a] \in QualityExecution  BY DEF IInv, TypeOK
<1>2. recorded \in QualityExecution /\ recorded.state = "RUNNING" /\ recorded.output = attempt[a].output
  BY <1>1, Updated, Zenon DEF State
<1> HIDE DEF recorded
<1>3. attempt' = [attempt EXCEPT ![a] = recorded]  BY DEF IInv, TypeOK, recorded
<1>4. \A b \in Attempt : State(b)' = State(b) /\ attempt'[b].output = attempt[b].output
  BY <1>2, <1>3 DEF IInv, TypeOK, State
<1>5. TypeOK'  BY <1>2, <1>3, BoundsAssumption DEF IInv, TypeOK
<1>6. Order'  BY <1>4, SameStates DEF IInv
<1>7. Owners'
  BY <1>3, <1>4
     DEF IInv, TypeOK, Owners, PassedOverIdle, SingleOwner, ResultsAfterEvaluation,
         OwnedEvaluator, LostIsOver
<1>8. OutputKept'
  BY DEF IInv, TypeOK, Outputs, OutputKept
<1>9. OutputIsOwn'
  BY <1>4 DEF IInv, TypeOK, Outputs, OutputIsOwn
<1>10. UNCHANGED Ledger!vars  BY <1>4, LedgerStutters
<1> QED  BY <1>10, <1>5, <1>6, <1>7, <1>8, <1>9 DEF IInv, Outputs

\* A worker closes the attempt pointed at, with the output that is its own.
LEMMA FinalizeKeeps ==
  ASSUME IInv, NEW a \in Attempt, Finalize(a)
  PROVE  IInv' /\ [Ledger!Next]_(Ledger!vars)
<1> USE DEF Finalize, durable
<1>1. TERMINAL_QUALITY_STATES \subseteq {"COMPLETED", "FAILED", "TIMED_OUT", "ORPHANED"}
      /\ "COMPLETED" \in TERMINAL_QUALITY_STATES /\ "NONE" \notin TERMINAL_QUALITY_STATES
      /\ "STARTED" \notin TERMINAL_QUALITY_STATES /\ "RUNNING" \notin TERMINAL_QUALITY_STATES
  BY DEF TERMINAL_QUALITY_STATES
<1>2. worker' = [worker EXCEPT ![a] = "gone"] /\ worker[a] \in TERMINAL_QUALITY_STATES /\ lock = Free
      /\ UNCHANGED << pointer, lock, caller, evaluator, output, initial >>
  OBVIOUS
<1>3. CASE State(a) \in TERMINAL_QUALITY_STATES
  <2>1. attempt' = attempt  BY <1>3
  <2>2. Order'  BY <1>2, <2>1, RecordsKept DEF IInv
  <2>3. TypeOK'  BY <1>2, <2>1, BoundsAssumption DEF IInv, TypeOK
  <2>4. Owners'
    BY <1>1, <1>2, <1>3, <2>1
       DEF IInv, TypeOK, Owners, PassedOverIdle, SingleOwner, ResultsAfterEvaluation,
           OwnedEvaluator, LostIsOver, State, Evaluating
  <2>5. Outputs'
    BY <1>1, <1>2, <1>3, <2>1
       DEF IInv, TypeOK, Outputs, OutputKept, OutputIsOwn, State, Evaluating
  <2>6. UNCHANGED Ledger!vars  BY <1>2, <2>1, LedgerStutters DEF State
  <2> QED  BY <2>2, <2>3, <2>4, <2>5, <2>6 DEF IInv
<1>4. CASE State(a) \notin TERMINAL_QUALITY_STATES
  <2> DEFINE closed == [attempt[a] EXCEPT !.state = worker[a], !.output = output]
  <2>1. a = pointer /\ State(a) # "NONE"
    <3>1. a = pointer  BY <1>1, <1>2, <1>4, WorkerPointed
    <3>2. a # 0  BY BoundsAssumption DEF Attempt
    <3> QED  BY <3>1, <3>2 DEF IInv, Order, PointerSaved
  <2>2. closed \in QualityExecution /\ closed.state = worker[a] /\ closed.output = output
    <3>1. attempt[a] \in QualityExecution /\ output \in Attempt \cup {0}  BY DEF IInv, TypeOK
    <3>2. worker[a] = "COMPLETED" => output # 0  BY DEF IInv, Outputs, OutputKept
    <3>3. \A s \in TERMINAL_QUALITY_STATES, o \in Attempt \cup {0} : (s = "COMPLETED" => o # 0) =>
            /\ [attempt[a] EXCEPT !.state = s, !.output = o] \in QualityExecution
            /\ [attempt[a] EXCEPT !.state = s, !.output = o].state = s
            /\ [attempt[a] EXCEPT !.state = s, !.output = o].output = o
      BY <3>1, Updated, Zenon
    <3> QED  BY <1>2, <3>1, <3>2, <3>3, Zenon
  <2> HIDE DEF closed
  <2>a. worker[a] # "NONE" /\ worker[a] # "RUNNING"  BY <1>2 DEF TERMINAL_QUALITY_STATES
  <2>3. attempt' = [attempt EXCEPT ![a] = closed]  BY <1>4 DEF IInv, TypeOK, closed
  <2>4. State(a)' = worker[a] /\ attempt'[a].output = output /\ \A b \in Attempt \ {a} : attempt'[b] = attempt[b]
    BY <2>2, <2>3 DEF IInv, TypeOK, State
  <2>5. TypeOK'
    <3>1. attempt' \in [Attempt -> QualityExecution]  BY <2>2, <2>3 DEF IInv, TypeOK
    <3>2. worker' \in [Attempt -> {"none", "starting", "owner", "spawned", "watching", "gone"}
                                   \cup TERMINAL_QUALITY_STATES]
      BY <1>2 DEF IInv, TypeOK
    <3> QED  BY <1>2, <3>1, <3>2 DEF IInv, TypeOK
  <2>6. Saved' = Saved
    <3>1. \A b \in Attempt : State(b)' = "NONE" <=> State(b) = "NONE"  BY <2>1, <2>a, <2>4 DEF State
    <3> QED  BY <3>1 DEF Saved
  <2>7. Order'
    <3>1. \A c \in Callers : caller[c] = "idle"
      BY <1>2, NoValueAssumption DEF IInv, TypeOK, Order, LockHeld
    <3>2. State(pointer)' # "NONE"  BY <1>2, <2>1, <2>a, <2>4 DEF State
    <3> QED
      BY <1>2, <2>6, <3>1, <3>2 DEF IInv, TypeOK, Order, Numbered, PointerSaved, LockHeld, StartedInLock
  <2>8. Owners'
    BY <1>1, <1>2, <2>1, <2>4
       DEF IInv, TypeOK, Owners, PassedOverIdle, SingleOwner, ResultsAfterEvaluation,
           OwnedEvaluator, LostIsOver, State, Evaluating
  <2>9. OutputKept'
    BY <1>1, <1>2 DEF IInv, TypeOK, Outputs, OutputKept, Evaluating
  <2>10. OutputIsOwn'
    BY <1>1, <1>2, <1>4, <2>1, <2>4 DEF IInv, TypeOK, Outputs, OutputIsOwn, State
  <2>11. Ledger!Next
    <3>1. State(pointer)' = worker[a]  BY <1>2, <2>1, <2>4 DEF State
    <3> QED  BY <1>2, <1>4, <2>1, <2>4, <3>1, LedgerCloses DEF State
  <2> QED  BY <2>5, <2>7, <2>8, <2>9, <2>10, <2>11 DEF IInv, Outputs
<1> QED  BY <1>3, <1>4

\* With the lock free nobody is starting an attempt.
LEMMA AllIdle ==
  ASSUME TypeOK, LockHeld, lock = Free
  PROVE  \A c \in Callers : caller[c] = "idle"
  BY NoValueAssumption DEF TypeOK, LockHeld

\* A caller inside the lock is the only one that is starting an attempt.
LEMMA OneStarter ==
  ASSUME TypeOK, LockHeld, NEW c \in Callers, caller[c] # "idle", NEW d \in Callers, d # c
  PROVE  caller[d] = "idle"
  BY DEF TypeOK, LockHeld

\* A caller that dies leaves the attempt as it is, and the lock is free again.
LEMMA CallerCrashKeeps ==
  ASSUME IInv, NEW c \in Callers, CallerCrash(c)
  PROVE  IInv'
<1> USE DEF CallerCrash, Released, Disturbed, durable, processes
<1>1. \A d \in Callers : caller'[d] = "idle"  BY OneStarter DEF IInv, TypeOK, Order
<1>2. TypeOK'  BY BoundsAssumption DEF IInv, TypeOK
<1>3. Saved' = Saved  BY DEF Saved, State
<1>4. Order'
  BY <1>1, <1>3 DEF IInv, Order, Numbered, PointerSaved, LockHeld, StartedInLock, State
<1>5. Owners' /\ Outputs'
  BY DEF IInv, Owners, PassedOverIdle, SingleOwner, ResultsAfterEvaluation, OwnedEvaluator, LostIsOver,
         Outputs, OutputKept, OutputIsOwn, State, Evaluating
<1> QED  BY <1>2, <1>4, <1>5 DEF IInv

\* The attempt pointed at before has ended without success, so no worker has it.
LEMMA SavePointerKeeps ==
  ASSUME IInv, NEW c \in Callers, SavePointer(c)
  PROVE  IInv' /\ [Ledger!Next]_(Ledger!vars)
<1> USE DEF SavePointer, processes
<1>1. Starting \in Attempt /\ State(Starting) = "STARTED"  BY Pointed DEF IInv, TypeOK
<1>2. pointer # 0 => State(pointer) \in {"ORPHANED", "FAILED", "TIMED_OUT"}
  BY DEF IInv, Order, StartedInLock
<1>3. Saved' = Saved /\ Starting' = Starting
  <2>1. Saved' = Saved  BY DEF Saved, State
  <2> QED  BY <2>1 DEF Starting
<1>4. TypeOK'  BY <1>1 DEF IInv, TypeOK
<1>5. Order'
  <2>1. \A d \in Callers \ {c} : caller'[d] = "idle"  BY OneStarter DEF IInv, TypeOK, Order
  <2>2. caller'[c] = "pointed" /\ lock = c  BY DEF IInv, TypeOK, Order, LockHeld
  <2>3. Starting # 0  BY <1>1, BoundsAssumption DEF Attempt
  <2> QED
    BY <1>1, <1>3, <2>1, <2>2, <2>3 DEF IInv, Order, Numbered, PointerSaved, LockHeld, StartedInLock, State
<1>6. Owners'
  BY <1>1, <1>2, BoundsAssumption
     DEF IInv, Attempt, TERMINAL_QUALITY_STATES, Owners, PassedOverIdle, SingleOwner,
         ResultsAfterEvaluation, OwnedEvaluator, LostIsOver, State, Evaluating
<1>7. Outputs'
  BY DEF IInv, Outputs, OutputKept, OutputIsOwn, State, Evaluating
<1>8. Ledger!Next
  <2>1. Starting > pointer /\ Starting # 0  BY <1>1, BoundsAssumption DEF IInv, Order, StartedInLock, Attempt
  <2>2. pointer # 0 => LedgerOutcome(pointer) \in Ledger!Terminal \ {"COMPLETED"}
    BY <1>2 DEF LedgerOutcome, Ledger!Terminal, TERMINAL_QUALITY_STATES
  <2>3. PICK n \in Attempt : n = Starting  BY <1>1
  <2>4. pointer' = n /\ attempt' = attempt  BY <2>3
  <2>5. LedgerOutcome(n)' = "OPEN"
    BY <1>1, <2>3, <2>4 DEF LedgerOutcome, State, TERMINAL_QUALITY_STATES
  <2>6. \A a \in Attempt \ {n} : LedgerOutcome(a)' = LedgerOutcome(a)
    BY <1>2, <2>4, BoundsAssumption DEF LedgerOutcome, State, TERMINAL_QUALITY_STATES, Attempt
  <2>7. [a \in Attempt |-> LedgerOutcome(a)]' = [[a \in Attempt |-> LedgerOutcome(a)] EXCEPT ![n] = "OPEN"]
    BY <2>5, <2>6
  <2>8. pointer # 0 => pointer \in Attempt  BY DEF IInv, TypeOK
  <2>9. Ledger!Open(n)  BY <2>1, <2>2, <2>3, <2>4, <2>7, <2>8 DEF Ledger!Open
  <2> QED  BY <2>9 DEF Ledger!Next, Attempt
<1> QED  BY <1>8, <1>4, <1>5, <1>6, <1>7 DEF IInv

\* The worker that is launched has no evaluator yet.
LEMMA LaunchKeeps ==
  ASSUME IInv, NEW c \in Callers, Launch(c)
  PROVE  IInv'
<1> USE DEF Launch, durable
<1>1. Starting \in Attempt /\ pointer = Starting /\ State(Starting) = "STARTED"
  BY Pointed DEF IInv, TypeOK, Order, StartedInLock
<1>2. worker' = [worker EXCEPT ![pointer] = "starting"]  BY <1>1
<1>3. Saved' = Saved /\ Starting' = Starting
  <2>1. Saved' = Saved  BY DEF Saved, State
  <2> QED  BY <2>1 DEF Starting
<1>4. TypeOK'  BY <1>1, <1>2 DEF IInv, TypeOK
<1>5. Order'
  <2>1. \A d \in Callers \ {c} : caller'[d] = "idle"  BY OneStarter DEF IInv, TypeOK, Order
  <2>2. caller'[c] = "launched" /\ lock = c /\ pointer # 0
    BY <1>1, BoundsAssumption DEF IInv, TypeOK, Order, LockHeld, StartedInLock
  <2> QED
    BY <1>1, <1>3, <2>1, <2>2 DEF IInv, Order, Numbered, PointerSaved, LockHeld, StartedInLock, State
<1>6. Owners'
  BY <1>1, <1>2
     DEF IInv, TypeOK, TERMINAL_QUALITY_STATES, Owners, PassedOverIdle, SingleOwner,
         ResultsAfterEvaluation, OwnedEvaluator, LostIsOver, State, Evaluating
<1>7. Outputs'
  BY <1>1, <1>2
     DEF IInv, TypeOK, Owners, SingleOwner, Outputs, OutputKept, OutputIsOwn,
         State, Evaluating
<1> QED  BY <1>4, <1>5, <1>6, <1>7 DEF IInv

\* An attempt whose worker was not launched had no evaluation.
LEMMA LaunchFailsKeeps ==
  ASSUME IInv, NEW c \in Callers, LaunchFails(c)
  PROVE  IInv' /\ [Ledger!Next]_(Ledger!vars)
<1> USE DEF LaunchFails, Released, processes
<1> DEFINE record == [attempt[pointer] EXCEPT !.state = "FAILED"]
<1>1. Starting \in Attempt /\ pointer = Starting /\ State(pointer) = "STARTED"
  BY Pointed DEF IInv, TypeOK, Order, StartedInLock
<1>2. record \in QualityExecution /\ record.state = "FAILED" /\ record.evaluator = attempt[pointer].evaluator
  <2>1. attempt[pointer] \in QualityExecution  BY <1>1 DEF IInv, TypeOK
  <2>2. "FAILED" \in {"STARTED", "RUNNING", "FAILED", "TIMED_OUT", "ORPHANED"}  OBVIOUS
  <2> QED  BY <2>1, <2>2, Updated, Zenon
<1> HIDE DEF record
<1>3. attempt' = [attempt EXCEPT ![pointer] = record]  BY <1>1 DEF IInv, TypeOK, record
<1>4. /\ State(pointer)' = "FAILED" /\ attempt'[pointer].evaluator = attempt[pointer].evaluator
      /\ \A a \in Attempt \ {pointer} : attempt'[a] = attempt[a]
  BY <1>1, <1>2, <1>3 DEF IInv, TypeOK, State
<1>5. TypeOK'  BY <1>1, <1>2, <1>3, BoundsAssumption DEF IInv, TypeOK
<1>6. Saved' = Saved  BY <1>1, <1>4 DEF Saved, State
<1>7. Order'
  <2>1. \A d \in Callers : caller'[d] = "idle"  BY OneStarter DEF IInv, TypeOK, Order
  <2> QED
    BY <1>1, <1>4, <1>6, <2>1 DEF IInv, Order, Numbered, PointerSaved, LockHeld, StartedInLock
<1>8. Owners'
  BY <1>1, <1>4
     DEF IInv, TypeOK, TERMINAL_QUALITY_STATES, Owners, PassedOverIdle, SingleOwner,
         ResultsAfterEvaluation, OwnedEvaluator, LostIsOver, State, Evaluating
<1>9. Outputs'
  BY <1>1, <1>4
     DEF IInv, TypeOK, TERMINAL_QUALITY_STATES, Outputs, OutputKept,
         OutputIsOwn, State, Evaluating
<1>10. Ledger!Next
  <2>1. "FAILED" \in TERMINAL_QUALITY_STATES /\ "STARTED" \notin TERMINAL_QUALITY_STATES
    BY DEF TERMINAL_QUALITY_STATES
  <2> QED  BY <1>1, <1>4, <2>1, LedgerCloses DEF State
<1> QED  BY <1>10, <1>5, <1>7, <1>8, <1>9 DEF IInv

\* An attempt that runs is the one pointed at.
LEMMA RecordRunningKeeps ==
  ASSUME IInv, NEW c \in Callers, RecordRunning(c)
  PROVE  IInv' /\ [Ledger!Next]_(Ledger!vars)
<1> USE DEF RecordRunning, Released, processes
<1> DEFINE record == [attempt[pointer] EXCEPT !.state = "RUNNING"]
<1>1. Starting \in Attempt /\ pointer = Starting /\ State(pointer) = "STARTED"
  BY Pointed DEF IInv, TypeOK, Order, StartedInLock
<1>2. record \in QualityExecution /\ record.state = "RUNNING" /\ record.evaluator = attempt[pointer].evaluator
  <2>1. attempt[pointer] \in QualityExecution  BY <1>1 DEF IInv, TypeOK
  <2>2. "RUNNING" \in {"STARTED", "RUNNING", "FAILED", "TIMED_OUT", "ORPHANED"}  OBVIOUS
  <2> QED  BY <2>1, <2>2, Updated, Zenon
<1> HIDE DEF record
<1>3. attempt' = [attempt EXCEPT ![pointer] = record]  BY <1>1 DEF IInv, TypeOK, record
<1>4. /\ State(pointer)' = "RUNNING" /\ attempt'[pointer].evaluator = attempt[pointer].evaluator
      /\ \A a \in Attempt \ {pointer} : attempt'[a] = attempt[a]
  BY <1>1, <1>2, <1>3 DEF IInv, TypeOK, State
<1>5. TypeOK'  BY <1>1, <1>2, <1>3, BoundsAssumption DEF IInv, TypeOK
<1>6. Saved' = Saved  BY <1>1, <1>4 DEF Saved, State
<1>7. Order'
  <2>1. \A d \in Callers : caller'[d] = "idle"  BY OneStarter DEF IInv, TypeOK, Order
  <2> QED
    BY <1>1, <1>4, <1>6, <2>1 DEF IInv, Order, Numbered, PointerSaved, LockHeld, StartedInLock
<1>8. Owners'
  BY <1>1, <1>4
     DEF IInv, TypeOK, TERMINAL_QUALITY_STATES, Owners, PassedOverIdle, SingleOwner,
         ResultsAfterEvaluation, OwnedEvaluator, LostIsOver, State, Evaluating
<1>9. Outputs'
  BY <1>1, <1>4
     DEF IInv, TypeOK, TERMINAL_QUALITY_STATES, Outputs, OutputKept,
         OutputIsOwn, State, Evaluating
<1>10. UNCHANGED Ledger!vars
  BY <1>1, <1>4, LedgerStutters DEF State, TERMINAL_QUALITY_STATES
<1> QED  BY <1>10, <1>5, <1>7, <1>8, <1>9 DEF IInv

\* An abandoned attempt has no worker left that could work on it, nor an evaluator
\* that is not stopped, unless it is lost.
LEMMA AbandonedIdle ==
  ASSUME IInv, NEW missed, pointer # 0, Abandoned(pointer, missed), Looked(missed)
  PROVE  /\ pointer \in Attempt /\ State(pointer) \in {"STARTED", "RUNNING"}
         /\ pointer \notin lost' =>
              /\ worker[pointer] \notin {"owner", "spawned", "watching"}
              /\ Evaluating(pointer) => GivesUp(missed) /\ missed = {} /\ attempt[pointer].evaluator
<1>1. pointer \in Attempt  BY DEF IInv, TypeOK
<1>2. State(pointer) \in {"STARTED", "RUNNING"}  BY DEF Abandoned
<1>3. SUFFICES ASSUME pointer \notin lost'
               PROVE  /\ worker[pointer] \notin {"owner", "spawned", "watching"}
                      /\ Evaluating(pointer) => GivesUp(missed) /\ missed = {} /\ attempt[pointer].evaluator
  BY <1>1, <1>2
<1>4. missed = {} /\ pointer \notin lost  BY <1>3, Looking DEF IInv
<1>5. State(pointer) = "RUNNING" => worker[pointer] \in {"none", "gone"}
  BY <1>4 DEF Abandoned, WorkerAlive
<1>6. worker[pointer] \notin {"owner", "spawned", "watching"}
  BY <1>1, <1>4, <1>5 DEF IInv, Owners, SingleOwner
<1>7. ASSUME Evaluating(pointer) PROVE State(pointer) = "RUNNING" /\ attempt[pointer].evaluator
  BY <1>1, <1>4, <1>6, <1>7 DEF IInv, Owners, OwnedEvaluator
<1> QED  BY <1>4, <1>6, <1>7 DEF GivesUp

\* Closing an abandoned attempt takes it from nobody who is not lost.
LEMMA CloseAbandonedKeeps ==
  ASSUME IInv, NEW c \in Callers, NEW missed, CloseAbandoned(c, missed)
  PROVE  IInv' /\ [Ledger!Next]_(Ledger!vars)
<1> USE DEF CloseAbandoned
<1>1. /\ pointer \in Attempt /\ State(pointer) \in {"STARTED", "RUNNING"}
      /\ pointer \notin lost' =>
           /\ worker[pointer] \notin {"owner", "spawned", "watching"}
           /\ Evaluating(pointer) => GivesUp(missed) /\ missed = {} /\ attempt[pointer].evaluator
  BY AbandonedIdle
<1>2. /\ attempt' \in [Attempt -> QualityExecution] /\ State(pointer)' = "ORPHANED"
      /\ \A a \in Attempt : attempt'[a].evaluator = attempt[a].evaluator /\ attempt'[a].output = attempt[a].output
      /\ \A a \in Attempt \ {pointer} : State(a)' = State(a)
  BY <1>1, Closing DEF IInv, State
<1>3. /\ evaluator' \in [Attempt -> {"none", "running", "wrote", "succeeded", "failed"}]
      /\ \A a \in Attempt : Evaluating(a)' => Evaluating(a)
      /\ Evaluating(pointer)' => pointer \in lost'
  <2>1. \A a \in Attempt : evaluator'[a] = evaluator[a] \/ evaluator'[a] = "failed"
    BY Closing DEF IInv
  <2>2. GivesUp(missed) /\ missed = {} /\ attempt[pointer].evaluator /\ Evaluating(pointer)
          => evaluator'[pointer] = "failed"
    BY <1>1, Closing DEF IInv
  <2>3. \A a \in Attempt : Evaluating(a)' => Evaluating(a)  BY <2>1 DEF Evaluating
  <2>4. Evaluating(pointer)' => evaluator'[pointer] # "failed"  BY DEF Evaluating
  <2>5. Evaluating(pointer)' => pointer \in lost'  BY <1>1, <2>2, <2>3, <2>4
  <2>6. evaluator' \in [Attempt -> {"none", "running", "wrote", "succeeded", "failed"}]
    BY Closing DEF IInv
  <2> QED  BY <2>3, <2>5, <2>6
<1>4. /\ lost \subseteq lost' /\ lost' \subseteq Attempt /\ disturbances' \in 0 .. MaxDisturbances
      /\ lost' \subseteq lost \cup {pointer}
  BY Looking DEF IInv
<1>5. TypeOK'  BY <1>2, <1>3, <1>4, BoundsAssumption DEF IInv, TypeOK
<1>6. Order'
  <2>1. \A d \in Callers : caller[d] = "idle"  BY AllIdle DEF IInv, Order
  <2>2. Saved' = Saved  BY <1>1, <1>2 DEF Saved
  <2> QED
    BY <1>2, <2>1, <2>2 DEF IInv, Order, Numbered, PointerSaved, LockHeld, StartedInLock
<1>7. Owners'
  <2>1. PassedOverIdle' /\ SingleOwner'
    BY <1>1, <1>2, <1>4 DEF IInv, TERMINAL_QUALITY_STATES, Owners, PassedOverIdle, SingleOwner
  <2>2. ResultsAfterEvaluation'
    BY <1>3, <1>4 DEF IInv, Owners, ResultsAfterEvaluation
  <2>4. OwnedEvaluator'
    <3>1. ASSUME NEW a \in Attempt, a \notin lost', Evaluating(a)' PROVE FALSE
      <4>1. Evaluating(a) /\ a \notin lost  BY <1>3, <1>4, <3>1
      <4>2. a = pointer  BY <4>1 DEF IInv, Owners, OwnedEvaluator
      <4> QED  BY <1>3, <3>1, <4>2
    <3> QED  BY <3>1 DEF OwnedEvaluator
  <2>3. LostIsOver'
    BY <1>1, <1>2, <1>4 DEF IInv, TERMINAL_QUALITY_STATES, Owners, LostIsOver
  <2> QED  BY <2>1, <2>2, <2>3, <2>4 DEF Owners
<1>8. Outputs'
  BY <1>1, <1>2, <1>3, <1>4 DEF IInv, TERMINAL_QUALITY_STATES, Outputs, OutputKept, OutputIsOwn
<1>9. Ledger!Next
  <2>1. "ORPHANED" \in TERMINAL_QUALITY_STATES /\ State(pointer) \notin TERMINAL_QUALITY_STATES
    BY <1>1 DEF TERMINAL_QUALITY_STATES
  <2> QED  BY <1>1, <1>2, <2>1, LedgerCloses
<1> QED  BY <1>9, <1>5, <1>6, <1>7, <1>8 DEF IInv

\* A new attempt follows one that has ended without success, and is nobody's yet.
LEMMA BeginAttemptKeeps ==
  ASSUME IInv, NEW c \in Callers, NEW missed, BeginAttempt(c, missed)
  PROVE  IInv' /\ [Ledger!Next]_(Ledger!vars)
<1> DEFINE Fresh(q) == [state |-> "STARTED", request |-> q, evaluator |-> FALSE, output |-> 0]
<1>1. /\ lock = Free /\ NewAttempt \in Attempt /\ lock' = c /\ caller' = [caller EXCEPT ![c] = "saved"]
      /\ evaluator' = OrphanStopped(missed) /\ Looked(missed) /\ UNCHANGED << pointer, worker, output, initial >>
  BY DEF BeginAttempt
<1>a. PICK n \in Attempt : n = NewAttempt  BY <1>1
<1>2. PICK q \in Requests, retryOrphaned, retryFailed \in BOOLEAN :
        MayStart(q, retryOrphaned, retryFailed, missed) /\ attempt' = [Orphaned(missed) EXCEPT ![n] = Fresh(q)]
  BY <1>a DEF BeginAttempt
<1>3. Starting \in 0 .. MaxAttempts /\ Saved = 1 .. Starting /\ n = Starting + 1
      /\ pointer \in 0 .. Starting
  BY <1>a, Numbers, Pointed DEF IInv, Order
<1>4. MaxAttempts \in Nat  BY BoundsAssumption
<1>5. State(n) = "NONE" /\ n # pointer
  <2>1. n \notin Saved /\ n # pointer  BY <1>3, <1>4
  <2> QED  BY <1>1, <2>1 DEF Saved
<1>6. Fresh(q) \in QualityExecution /\ Fresh(q).state = "STARTED" /\ Fresh(q).evaluator = FALSE
  BY DEF QualityExecution
<1> HIDE DEF Fresh
<1>7. /\ attempt' \in [Attempt -> QualityExecution] /\ State(n)' = "STARTED"
      /\ attempt'[n].evaluator = FALSE
      /\ \A a \in Attempt \ {n} :
           /\ State(a)' = IF a = pointer /\ Abandoned(pointer, missed) THEN "ORPHANED" ELSE State(a)
           /\ attempt'[a].evaluator = attempt[a].evaluator /\ attempt'[a].output = attempt[a].output
  <2>1. Orphaned(missed) \in [Attempt -> QualityExecution]  BY Closing DEF IInv
  <2>2. attempt' \in [Attempt -> QualityExecution] /\ attempt'[n] = Fresh(q)
        /\ \A a \in Attempt \ {n} : attempt'[a] = Orphaned(missed)[a]
    BY <1>1, <1>2, <1>6, <2>1
  <2>3. \A a \in Attempt \ {n} :
          /\ State(a)' = IF a = pointer /\ Abandoned(pointer, missed) THEN "ORPHANED" ELSE State(a)
          /\ attempt'[a].evaluator = attempt[a].evaluator /\ attempt'[a].output = attempt[a].output
    <3> TAKE a \in Attempt \ {n}
    <3>1. /\ Orphaned(missed)[a].state = IF a = pointer /\ Abandoned(pointer, missed) THEN "ORPHANED" ELSE State(a)
          /\ Orphaned(missed)[a].evaluator = attempt[a].evaluator /\ Orphaned(missed)[a].output = attempt[a].output
      BY Closing DEF IInv
    <3> QED  BY <2>2, <3>1, Zenon DEF State
  <2> QED  BY <1>6, <2>2, <2>3, Zenon DEF State
<1>8. evaluator' \in [Attempt -> {"none", "running", "wrote", "succeeded", "failed"}]
      /\ \A a \in Attempt : Evaluating(a)' =>
           Evaluating(a) /\ ~(a = pointer /\ GivesUp(missed) /\ missed = {} /\ attempt[a].evaluator)
  <2>1. OrphanStopped(missed) \in [Attempt -> {"none", "running", "wrote", "succeeded", "failed"}]
    BY Closing DEF IInv
  <2>2. ASSUME NEW a \in Attempt, Evaluating(a)'
        PROVE  Evaluating(a) /\ ~(a = pointer /\ GivesUp(missed) /\ missed = {} /\ attempt[a].evaluator)
    <3>1. evaluator'[a] = IF /\ a = pointer /\ GivesUp(missed) /\ "evaluator" \notin missed
                             /\ attempt[a].evaluator /\ Evaluating(a)
                          THEN "failed" ELSE evaluator[a]
      BY <1>1, Closing, Zenon DEF IInv
    <3>2. evaluator'[a] # "failed"  BY <2>2 DEF Evaluating
    <3>3. evaluator'[a] = evaluator[a]  BY <3>1, <3>2, Zenon
    <3>4. Evaluating(a)  BY <2>2, <3>3 DEF Evaluating
    <3>5. missed = {} => "evaluator" \notin missed  OBVIOUS
    <3> QED  BY <3>1, <3>2, <3>4, <3>5, Zenon
  <2> QED  BY <1>1, <2>1, <2>2
<1>9. pointer # 0 => State(pointer)' \in {"ORPHANED", "FAILED", "TIMED_OUT"}
  <2> SUFFICES ASSUME pointer # 0 PROVE State(pointer)' \in {"ORPHANED", "FAILED", "TIMED_OUT"}
    OBVIOUS
  <2>1. Abandoned(pointer, missed) \/ State(pointer) \in {"ORPHANED", "FAILED", "TIMED_OUT"}
    BY <1>2, Zenon DEF MayStart
  <2>2. pointer \in Attempt \ {n}  BY <1>5 DEF IInv, TypeOK
  <2>3. State(pointer)' = IF Abandoned(pointer, missed) THEN "ORPHANED" ELSE State(pointer)
    BY <1>1, <1>7, <2>2, Zenon DEF State
  <2>4. CASE Abandoned(pointer, missed)  BY <2>3, <2>4
  <2>5. CASE ~Abandoned(pointer, missed)  BY <2>1, <2>3, <2>5, Zenon
  <2> QED  BY <2>4, <2>5
<1>10. worker[n] = "none"
  BY <1>1, <1>5, WorkerPointed DEF TERMINAL_QUALITY_STATES
<1>s. lost \subseteq lost' /\ lost' \subseteq Attempt /\ disturbances' \in 0 .. MaxDisturbances
  BY <1>1, Looking DEF IInv
<1>11. TypeOK'  BY <1>1, <1>7, <1>8, <1>s DEF IInv, TypeOK
<1>12. Order'
  <2>1. Saved' = 1 .. n
    <3>1. ASSUME NEW a \in Attempt \ {n} PROVE State(a)' # "NONE" <=> State(a) # "NONE"
      <4>1. CASE a = pointer /\ Abandoned(pointer, missed)
        <5>1. State(a)' = "ORPHANED"  BY <1>7, <4>1, Zenon
        <5>2. State(a) \in {"STARTED", "RUNNING"}  BY <4>1 DEF Abandoned
        <5> QED  BY <5>1, <5>2
      <4>2. CASE ~(a = pointer /\ Abandoned(pointer, missed))
        <5>1. State(a)' = State(a)  BY <1>7, <4>2, Zenon
        <5> QED  BY <5>1, Zenon
      <4> QED  BY <4>1, <4>2
    <3>2. State(n)' # "NONE"  BY <1>7
    <3>3. Saved' = Saved \cup {n}  BY <1>1, <3>1, <3>2 DEF Saved
    <3> QED  BY <1>3, <1>4, <3>3
  <2>2. Numbered'  BY <1>1, <2>1, <1>3, <1>4 DEF Numbered, Attempt
  <2>3. Starting' = n
    <3>1. n \in Nat /\ n > 0  BY <1>3, <1>4
    <3>2. Cardinality(1 .. n) = IF 1 > n THEN 0 ELSE n - 1 + 1  BY <3>1, FS_Interval
    <3>3. Starting' = Cardinality(1 .. n)  BY <2>1 DEF Starting
    <3> QED  BY <3>1, <3>2, <3>3
  <2>4. PointerSaved'  BY <1>1, <1>9 DEF PointerSaved
  <2>5. \A d \in Callers \ {c} : caller'[d] = "idle"
    BY <1>1, AllIdle DEF IInv, TypeOK, Order
  <2>6. LockHeld'  BY <1>1, <2>5 DEF IInv, TypeOK, LockHeld
  <2>7. StartedInLock'
    <3>1. caller'[c] = "saved"  BY <1>1 DEF IInv, TypeOK
    <3>2. pointer' < Starting'  BY <1>1, <1>3, <1>4, <2>3
    <3>3. State(Starting)' = "STARTED"  BY <1>7, <2>3 DEF State
    <3> QED  BY <1>1, <1>9, <2>5, <3>1, <3>2, <3>3 DEF StartedInLock
  <2> QED  BY <2>2, <2>4, <2>6, <2>7 DEF Order
<1>13. pointer # 0 /\ Abandoned(pointer, missed) =>
         /\ State(pointer) \in {"STARTED", "RUNNING"}
         /\ pointer \notin lost' =>
              /\ worker[pointer] \notin {"owner", "spawned", "watching"}
              /\ Evaluating(pointer) => GivesUp(missed) /\ missed = {} /\ attempt[pointer].evaluator
  BY <1>1, AbandonedIdle
<1>14. \A a \in Attempt : a # 0  BY <1>4 DEF Attempt
<1>b. n \notin lost
  BY <1>5 DEF IInv, Owners, LostIsOver, TERMINAL_QUALITY_STATES
<1>c. lost' \subseteq lost \cup (IF pointer # 0 /\ Abandoned(pointer, missed) THEN {pointer} ELSE {})
  BY <1>1, Looking DEF IInv, GivesUp
<1>15. PassedOverIdle'
  BY <1>1, <1>5, <1>7, <1>10, <1>13, <1>14 DEF IInv, TERMINAL_QUALITY_STATES, Owners, PassedOverIdle
<1>d. SingleOwner'
  BY <1>1, <1>7, <1>10, <1>11, <1>13, <1>14, <1>s DEF IInv, Owners, SingleOwner
<1>e. ResultsAfterEvaluation'
  BY <1>1, <1>8, <1>s DEF IInv, Owners, ResultsAfterEvaluation
<1>16. OwnedEvaluator'
  <2> SUFFICES ASSUME NEW a \in Attempt, a \notin lost', Evaluating(a)'
               PROVE  a = pointer /\ State(a)' = "RUNNING" /\ (worker[a] = "spawned" \/ attempt'[a].evaluator)
    BY <1>1 DEF OwnedEvaluator
  <2>1. Evaluating(a) /\ ~(a = pointer /\ GivesUp(missed) /\ missed = {} /\ attempt[a].evaluator)
    BY <1>8
  <2>2. a = pointer /\ State(a) = "RUNNING" /\ (worker[a] = "spawned" \/ attempt[a].evaluator)
    BY <1>s, <2>1 DEF IInv, Owners, OwnedEvaluator
  <2>3. a \in Attempt \ {n} /\ pointer # 0  BY <1>5, <1>14, <2>2
  <2>4. ~Abandoned(pointer, missed)  BY <1>13, <2>1, <2>2, <2>3
  <2> QED  BY <1>7, <2>2, <2>3, <2>4
<1>f. LostIsOver'
  <2> SUFFICES ASSUME NEW a \in lost'
               PROVE  \/ State(a)' \in TERMINAL_QUALITY_STATES
                      \/ State(a)' = "RUNNING" /\ worker[a] \in {"FAILED", "gone"}
    BY <1>1 DEF LostIsOver
  <2>1. a \in Attempt  BY <1>s
  <2>2. CASE a = pointer /\ Abandoned(pointer, missed)
    BY <1>5, <1>7, <2>1, <2>2 DEF TERMINAL_QUALITY_STATES
  <2>3. CASE ~(a = pointer /\ Abandoned(pointer, missed))
    <3>1. a \in lost  BY <1>c, <2>3
    <3>2. a # n  BY <1>b, <3>1
    <3>3. State(a)' = State(a)  BY <1>7, <2>1, <2>3, <3>2, Zenon
    <3> QED  BY <3>1, <3>3 DEF IInv, Owners, LostIsOver
  <2> QED  BY <2>2, <2>3
<1>17. OutputKept'
  BY <1>1, <1>8 DEF IInv, Outputs, OutputKept
<1>18. OutputIsOwn'
  <2> SUFFICES ASSUME NEW a \in Attempt
               PROVE  /\ a \notin lost' /\ worker[a] \in {"owner", "spawned", "watching"}
                           => output \in {initial[a], a} \cup lost'
                      /\ worker[a] = "COMPLETED" /\ State(a)' \notin TERMINAL_QUALITY_STATES => output \in {a} \cup lost'
                      /\ State(a)' = "COMPLETED" => attempt'[a].output \in {a} \cup lost'
    BY <1>1 DEF OutputIsOwn
  <2>1. CASE a = n  BY <1>7, <1>10, <2>1
  <2>2. CASE a # n
    <3>1. \/ State(a)' = "ORPHANED"
          \/ State(a)' = State(a)
      BY <1>7, <2>2, Zenon
    <3>2. attempt'[a].output = attempt[a].output  BY <1>7, <2>2
    <3> QED  BY <1>s, <3>1, <3>2 DEF IInv, TERMINAL_QUALITY_STATES, Outputs, OutputIsOwn
  <2> QED  BY <2>1, <2>2
<1>19. [Ledger!Next]_(Ledger!vars)
  <2>1. "ORPHANED" \in TERMINAL_QUALITY_STATES /\ {"NONE", "STARTED", "RUNNING"} \cap TERMINAL_QUALITY_STATES = {}
    BY DEF TERMINAL_QUALITY_STATES
  <2>2. \A a \in Attempt \ {pointer} :
          State(a)' = State(a) \/ {State(a), State(a)'} \cap TERMINAL_QUALITY_STATES = {}
    BY <1>5, <1>7, <2>1 DEF State
  <2>3. pointer' = pointer  BY <1>1
  <2>4. CASE pointer # 0 /\ Abandoned(pointer, missed)
    <3>1. pointer \in Attempt \ {n}  BY <1>5, <2>4 DEF IInv, TypeOK
    <3>2. State(pointer)' = "ORPHANED"  BY <1>7, <2>3, <2>4, <3>1, Zenon DEF State
    <3>3. State(pointer) \notin TERMINAL_QUALITY_STATES  BY <1>13, <2>1, <2>4
    <3> QED  BY <2>1, <2>2, <2>3, <3>1, <3>2, <3>3, LedgerCloses
  <2>5. CASE ~(pointer # 0 /\ Abandoned(pointer, missed))
    <3>1. \A a \in Attempt : a = pointer => State(a)' = State(a)
      BY <1>5, <1>7, <1>14, <2>5, Zenon
    <3> QED  BY <2>2, <2>3, <3>1, LedgerStutters
  <2> QED  BY <2>4, <2>5
<1> QED  BY <1>19, <1>11, <1>12, <1>15, <1>16, <1>17, <1>18, <1>d, <1>e, <1>f DEF IInv, Owners, Outputs

-----------------------------------------------------------------------------
\* The properties hold of no attempt, and every step keeps them.
LEMMA InitIInv == Init => IInv
<1> SUFFICES ASSUME Init PROVE IInv
  OBVIOUS
<1> USE DEF Init
<1>1. TypeOK
  <2>1. attempt \in [Attempt -> QualityExecution]
    <3>1. [state |-> "NONE", request |-> NoRequest, evaluator |-> FALSE, output |-> 0] \in QualityExecution
      BY DEF QualityExecution
    <3> QED  BY <3>1
  <2>2. disturbances \in 0 .. MaxDisturbances /\ lost \subseteq Attempt
    BY BoundsAssumption
  <2>3. /\ caller \in [Callers -> {"idle", "saved", "pointed", "launched"}]
        /\ worker \in [Attempt -> {"none", "starting", "owner", "spawned", "watching", "gone"}
                                   \cup TERMINAL_QUALITY_STATES]
        /\ evaluator \in [Attempt -> {"none", "running", "wrote", "succeeded", "failed"}]
        /\ initial \in [Attempt -> Attempt \cup {0}]
    OBVIOUS
  <2> QED  BY <2>1, <2>2, <2>3 DEF TypeOK
<1>2. Order
  <2>1. Saved = 1 .. 0  BY DEF Saved, State
  <2> QED  BY <2>1, BoundsAssumption DEF Order, Numbered, PointerSaved, LockHeld, StartedInLock
<1>3. Owners /\ Outputs
  BY DEF Owners, PassedOverIdle, SingleOwner, ResultsAfterEvaluation, OwnedEvaluator, LostIsOver, Outputs,
         OutputKept, OutputIsOwn, Evaluating, State, TERMINAL_QUALITY_STATES
<1> QED  BY <1>1, <1>2, <1>3 DEF IInv

LEMMA NextIInv == IInv /\ [Next]_vars => IInv' /\ [Ledger!Next]_(Ledger!vars)
<1> SUFFICES ASSUME IInv, [Next]_vars PROVE IInv' /\ [Ledger!Next]_(Ledger!vars)
  OBVIOUS
<1>1. ASSUME UNCHANGED << attempt, pointer >> PROVE UNCHANGED Ledger!vars
  BY <1>1, LedgerStutters DEF State
<1>2. CASE UNCHANGED vars
  BY <1>1, <1>2 DEF vars, durable, processes, IInv, TypeOK, Order, Numbered, PointerSaved, LockHeld,
     StartedInLock, Starting, Saved, State, Owners, PassedOverIdle, SingleOwner, ResultsAfterEvaluation,
     OwnedEvaluator, LostIsOver, Evaluating, Outputs, OutputKept, OutputIsOwn
<1>5. ASSUME NEW c \in Callers, NEW missed \in Missable, CloseAbandoned(c, missed) \/ BeginAttempt(c, missed)
      PROVE  IInv' /\ [Ledger!Next]_(Ledger!vars)
  <2>1. CASE CloseAbandoned(c, missed)  BY <2>1, CloseAbandonedKeeps
  <2>2. CASE BeginAttempt(c, missed)  BY <2>2, BeginAttemptKeeps
  <2> QED  BY <1>5, <2>1, <2>2
<1>3. ASSUME NEW c \in Callers, Start(c) \/ CallerCrash(c)
      PROVE  IInv' /\ [Ledger!Next]_(Ledger!vars)
  <2>3. CASE SavePointer(c)  BY <2>3, SavePointerKeeps
  <2>4. CASE Launch(c)  BY <1>1, <2>4, LaunchKeeps DEF Launch, durable
  <2>5. CASE LaunchFails(c)  BY <2>5, LaunchFailsKeeps
  <2>6. CASE RecordRunning(c)  BY <2>6, RecordRunningKeeps
  <2>7. CASE CallerCrash(c)  BY <1>1, <2>7, CallerCrashKeeps DEF CallerCrash, durable
  <2> QED  BY <1>3, <2>3, <2>4, <2>5, <2>6, <2>7 DEF Start
<1>4. ASSUME NEW a \in Attempt, Work(a) \/ WriteOutput(a) \/ EvaluatorExits(a) \/ WorkerCrash(a)
      PROVE  IInv' /\ [Ledger!Next]_(Ledger!vars)
  <2>1. CASE TakeOwnership(a)  BY <1>1, <2>1, TakeOwnershipKeeps DEF TakeOwnership, durable
  <2>2. CASE SpawnEvaluator(a)  BY <1>1, <2>2, SpawnEvaluatorKeeps DEF SpawnEvaluator, durable
  <2>3. CASE Heartbeat(a)  BY <2>3, HeartbeatKeeps
  <2>4. CASE ObserveExit(a)  BY <1>1, <2>4, ObserveExitKeeps DEF ObserveExit, durable
  <2>5. CASE TimeOut(a)  BY <1>1, <2>5, TimeOutKeeps DEF TimeOut, durable
  <2>6. CASE WorkerFails(a)  BY <1>1, <2>6, WorkerFailsKeeps DEF WorkerFails, durable
  <2>7. CASE Finalize(a)  BY <2>7, FinalizeKeeps
  <2>8. CASE WriteOutput(a)  BY <1>1, <2>8, WriteOutputKeeps DEF WriteOutput, durable
  <2>9. CASE EvaluatorExits(a)  BY <1>1, <2>9, EvaluatorExitsKeeps DEF EvaluatorExits, durable
  <2>10. CASE WorkerCrash(a)  BY <1>1, <2>10, WorkerCrashKeeps DEF WorkerCrash, durable
  <2> QED
    BY <1>4, <2>1, <2>2, <2>3, <2>4, <2>5, <2>6, <2>7, <2>8, <2>9, <2>10 DEF Work
<1> QED  BY <1>2, <1>3, <1>4, <1>5 DEF Next

LEMMA Invariant == Spec => []IInv
<1>1. IInv /\ [Next]_vars => IInv'  BY NextIInv
<1> QED  BY InitIInv, <1>1, PTL DEF Spec

\* Whatever callers and workers die, every record is valid, and at most one worker has
\* an attempt to work on, which is the one that active-execution.json points at.
THEOREM Soundness == Spec => []AttemptsAreSound
<1>1. IInv => AttemptsAreSound  BY DEF IInv, Owners, AttemptsAreSound
<1> QED  BY <1>1, Invariant, PTL

\* Whatever is killed and whatever look fails, no two evaluators that were not lost run
\* side by side, and a completed attempt is bound to its own output, or to a lost one's.
THEOREM Exclusion == Spec => []EvaluationsAreExclusive
<1>1. ASSUME NEW S, S \subseteq {pointer} PROVE Cardinality(S) <= 1
  <2>1. CASE S = {}  BY <2>1, FS_EmptySet
  <2>2. CASE S # {}
    <3>1. S = {pointer}  BY <1>1, <2>2
    <3>2. Cardinality({pointer}) = 1  BY FS_Singleton
    <3> QED  BY <3>1, <3>2
  <2> QED  BY <2>1, <2>2
<1>2. IInv => EvaluationsAreExclusive
  <2> SUFFICES ASSUME IInv PROVE EvaluationsAreExclusive
    OBVIOUS
  <2>1. SingleEvaluator
    <3>1. { a \in Attempt \ lost : Evaluating(a) } \subseteq {pointer}
      BY DEF IInv, Owners, OwnedEvaluator
    <3> QED  BY <1>1, <3>1 DEF SingleEvaluator
  <2>2. CompletedOutputIsOwn  BY DEF IInv, Outputs, OutputIsOwn, CompletedOutputIsOwn
  <2> QED  BY <2>1, <2>2 DEF EvaluationsAreExclusive
<1> QED  BY <1>2, Invariant, PTL

\* Every step of a caller or a worker is one of the ledger or none that it sees.
THEOREM Refinement == Spec => ImplementsLedger
<1>1. Init => Ledger!Init
  BY DEF Init, Ledger!Init, LedgerOutcome, State, TERMINAL_QUALITY_STATES, Attempt
<1>2. IInv /\ [Next]_vars => [Ledger!Next]_(Ledger!vars)  BY NextIInv
<1> QED  BY <1>1, <1>2, Invariant, PTL DEF Spec, ImplementsLedger, Ledger!Spec

-----------------------------------------------------------------------------
(* The evaluator                                                           *)

EvalSteps == {"none", "prepare", "spawn", "read", "stop", "wait", "written", "parse", "conclude"}
EvalEnds == {"none", "main", "raised", "killed"}

EvalRecord ==
  [ step : EvalSteps, end : EvalEnds, arm : 0 .. 2, task : 0 .. 4, general : BOOLEAN, failure : BOOLEAN,
    results : SUBSET Result ]

ChildRecord ==
  [ leader : {"none", "live", "zombie"}, worker : BOOLEAN, closed : BOOLEAN, exit : {"zero", "other"},
    written : Nat, read : Nat ]

EvalTyped ==
  /\ eval \in EvalRecord /\ child \in ChildRecord
  /\ document \in Documents \cup {NoDocument} /\ invocations \in 0 .. MaxInvocations

\* An invocation that runs has not written its document; one that ended by itself has.
DocumentIsLate ==
  /\ eval.step # "none" => eval.end = "none" /\ invocations # 0
  /\ IF eval.end = "main" THEN document # NoDocument /\ document.by = invocations
     ELSE document # NoDocument => document.by < invocations

\* The leader runs while its output is read, or since its invocation was killed.
LeaderIsWaitedFor ==
  child.leader = "live" => eval.step \in {"read", "stop", "wait"} \/ eval.end \in {"killed", "raised"}

\* What was read without a failure was read to its end, and nobody can write more.
ReadToTheEnd ==
  /\ eval.step \in {"prepare", "spawn", "read", "wait", "parse", "conclude"} => ~eval.failure
  /\ eval.step \in {"wait", "written", "parse"} /\ ~eval.failure =>
       child.read = child.written /\ child.closed /\ ~child.worker
  /\ eval.step = "stop" => eval.failure
  /\ eval.step \in {"written", "parse"} => child.leader = "zombie"

Tasks == 1 .. Len(TasksOf(eval.general))

\* The task j of the arm i is done.
Passed(i, j) == eval.step = "conclude" \/ i < eval.arm \/ (i = eval.arm /\ j < eval.task)

\* r is the result of the task j of the arm i.
IsOf(r, i, j) == r.arm = EvalArms[i] /\ r.task = TasksOf(eval.general)[j]

\* There is a result of every task that is done, and of no other, all of them whole.
ResultsSoFar ==
  /\ \A r \in eval.results : r.whole /\ \E i \in 1 .. 2, j \in Tasks : IsOf(r, i, j)
  /\ eval.step \in {"none", "prepare"} => eval.results = {}
  /\ eval.step \notin {"none", "prepare"} =>
       /\ eval.arm \in 1 .. 2 /\ eval.task \in Tasks
       /\ \A i \in 1 .. 2, j \in Tasks : Passed(i, j) => \E r \in eval.results : IsOf(r, i, j)

EvalInv ==
  EvalTyped /\ DocumentIsLate /\ LeaderIsWaitedFor /\ ReadToTheEnd /\ ResultsSoFar /\ CompleteMeansWhole

LEMMA TaskLists ==
  ASSUME NEW general \in BOOLEAN
  PROVE  /\ Len(TasksOf(general)) = IF general THEN 4 ELSE 3
         /\ DOMAIN TasksOf(general) = 1 .. Len(TasksOf(general))
         /\ \A j \in 1 .. Len(TasksOf(general)) :
              TasksOf(general)[j] \in {"greedy", "perplexity", "math", "general"}
<1> DEFINE first == << "greedy", "perplexity", "math" >>
           more  == IF general THEN << "general" >> ELSE << >>
           names == {"greedy", "perplexity", "math", "general"}
<1>1. first \in Seq(names) /\ Len(first) = 3  OBVIOUS
<1>2. more \in Seq(names) /\ Len(more) = IF general THEN 1 ELSE 0
  <2>1. CASE general
    <3>1. more = << "general" >>  BY <2>1
    <3> QED  BY <2>1, <3>1
  <2>2. CASE ~general
    <3>1. more = << >>  BY <2>2
    <3> QED  BY <2>2, <3>1
  <2> QED  BY <2>1, <2>2
<1>3. TasksOf(general) = first \o more  BY DEF TasksOf
<1> HIDE DEF first, more
<1>4. first \o more \in Seq(names) /\ Len(first \o more) = Len(first) + Len(more)  BY <1>1, <1>2, ConcatProperties
<1> QED  BY <1>1, <1>2, <1>3, <1>4

LEMMA EvalInits == EvalInit => EvalInv
BY EvaluatorAssumption
   DEF EvalInit, EvalInv, EvalTyped, EvalRecord, ChildRecord, DocumentIsLate, LeaderIsWaitedFor, ReadToTheEnd,
       ResultsSoFar, CompleteMeansWhole, NoEval, NoChild, EvalSteps, EvalEnds

\* What each step does to the command, field by field.
LEMMA ChildTyped ==
  ASSUME child \in ChildRecord, EvalNext PROVE child' \in ChildRecord
<1>1. NoChild \in ChildRecord /\ [NoChild EXCEPT !.leader = "live"] \in ChildRecord
  BY Zenon DEF NoChild, ChildRecord
<1>2. ASSUME NEW leader \in {"none", "live", "zombie"}, NEW closed \in BOOLEAN, NEW w \in BOOLEAN
      PROVE  [child EXCEPT !.leader = leader, !.closed = closed, !.worker = w] \in ChildRecord
  BY Zenon DEF ChildRecord
<1>3. CASE CommandRuns
  <2>1. ASSUME child' = [child EXCEPT !.written = @ + 1]  PROVE child' \in ChildRecord
    BY <2>1 DEF ChildRecord
  <2>2. ASSUME NEW v \in BOOLEAN, child' \in {[child EXCEPT !.worker = v], [child EXCEPT !.closed = v]}
        PROVE  child' \in ChildRecord
    BY <2>2 DEF ChildRecord
  <2>3. ASSUME NEW exit \in {"zero", "other"}, child' = [child EXCEPT !.leader = "zombie", !.closed = TRUE, !.exit = exit]
        PROVE  child' \in ChildRecord
    BY <2>3, Zenon DEF ChildRecord
  <2> QED  BY <1>3, <2>1, <2>2, <2>3 DEF CommandRuns
<1>4. CASE StopCommand
  BY <1>4, Zenon DEF StopCommand, ChildRecord
<1>5. CASE ReadChunk
  BY <1>5 DEF ReadChunk, ChildRecord
<1> QED
  BY <1>1, <1>3, <1>4, <1>5
  DEF EvalNext, StartEvaluation, PrepareEvaluation, SpawnCommand, ReadEnd, DeadlinePasses, AwaitLeader, TaskEnds,
      TaskParsed, ConcludeEvaluation, EvaluatorKilled

\* An invocation that ended: nothing is left of it but how.
LEMMA EndedFields ==
  ASSUME NEW end \in EvalEnds
  PROVE  /\ Ended(end) \in EvalRecord
         /\ Ended(end).step = "none" /\ Ended(end).end = end /\ Ended(end).results = {} /\ Ended(end).failure = FALSE
<1>1. Ended(end) = [step |-> "none", end |-> end, arm |-> 0, task |-> 0, general |-> FALSE, failure |-> FALSE,
                    results |-> {}]
  <2>1. Ended(end) = [NoEval EXCEPT !.end = end]  BY DEF Ended
  <2> QED  BY <2>1 DEF NoEval
<1>2. "none" \in EvalSteps  BY DEF EvalSteps
<1> QED  BY <1>1, <1>2 DEF EvalRecord

\* It ended without writing its document: it was killed, or raised what nobody catches.
LEMMA EndsSilently ==
  ASSUME EvalInv, eval.step # "none", NEW end \in {"raised", "killed"}, eval' = Ended(end),
         UNCHANGED << child, document, invocations >>
  PROVE  EvalInv'
<1>1. end \in EvalEnds  BY DEF EvalEnds
<1>2. eval' \in EvalRecord /\ eval'.step = "none" /\ eval'.end = end /\ eval'.results = {} /\ eval'.failure = FALSE
  BY <1>1, EndedFields
<1>3. EvalTyped'  BY <1>2 DEF EvalInv, EvalTyped
<1>4. DocumentIsLate'  BY <1>2 DEF EvalInv, DocumentIsLate
<1>5. LeaderIsWaitedFor' /\ ReadToTheEnd' /\ ResultsSoFar'
  BY <1>2 DEF LeaderIsWaitedFor, ReadToTheEnd, ResultsSoFar
<1>6. CompleteMeansWhole'  BY DEF EvalInv, CompleteMeansWhole
<1> QED  BY <1>3, <1>4, <1>5, <1>6 DEF EvalInv

\* It ended with a document.
LEMMA EndsWithDocument ==
  ASSUME EvalInv, eval.step # "none", NEW status \in {"complete", "failed"}, eval' = Ended("main"), Document(status),
         UNCHANGED << child, invocations >>, child.leader # "live",
         status = "complete" => eval.step = "conclude"
  PROVE  EvalInv'
<1>1. "main" \in EvalEnds  BY DEF EvalEnds
<1>2. eval' \in EvalRecord /\ eval'.step = "none" /\ eval'.end = "main" /\ eval'.results = {} /\ eval'.failure = FALSE
  BY <1>1, EndedFields
<1>3. invocations \in 1 .. MaxInvocations
  BY EvaluatorAssumption DEF EvalInv, EvalTyped, DocumentIsLate
<1>4. eval.results \in SUBSET Result /\ eval.general \in BOOLEAN
  BY DEF EvalInv, EvalTyped, EvalRecord
<1>5. /\ document' = [status |-> status, by |-> invocations, results |-> eval.results, general |-> eval.general]
      /\ document' \in Documents
  BY <1>3, <1>4 DEF Document, Documents
<1>6. EvalTyped'  BY <1>2, <1>5 DEF EvalInv, EvalTyped
<1>7. DocumentIsLate'  BY <1>2, <1>5, DocumentAssumption DEF DocumentIsLate
<1>8. LeaderIsWaitedFor' /\ ReadToTheEnd' /\ ResultsSoFar'
  BY <1>2 DEF LeaderIsWaitedFor, ReadToTheEnd, ResultsSoFar
<1>9. CompleteMeansWhole'
  <2> SUFFICES ASSUME status = "complete"  PROVE CompleteMeansWhole'
    BY <1>5 DEF CompleteMeansWhole
  <2> DEFINE tasks == TasksOf(eval.general)
  <2>1. eval.step = "conclude"  OBVIOUS
  <2>2. DOMAIN tasks = Tasks  BY <1>4, TaskLists DEF Tasks
  <2>3. \A r \in eval.results : r.whole /\ \E i \in 1 .. 2, j \in Tasks : IsOf(r, i, j)
    BY DEF EvalInv, ResultsSoFar
  <2>4. \A i \in 1 .. 2, j \in Tasks : \E r \in eval.results : IsOf(r, i, j)
    BY <2>1 DEF EvalInv, ResultsSoFar, Passed
  <2>5. { << r.arm, r.task >> : r \in eval.results } = { EvalArms[i] : i \in 1 .. 2 } \X { tasks[i] : i \in DOMAIN tasks }
    <3>1. ASSUME NEW r \in eval.results
          PROVE  << r.arm, r.task >> \in { EvalArms[i] : i \in 1 .. 2 } \X { tasks[i] : i \in DOMAIN tasks }
      BY <2>2, <2>3 DEF IsOf
    <3>2. ASSUME NEW i \in 1 .. 2, NEW j \in DOMAIN tasks
          PROVE  << EvalArms[i], tasks[j] >> \in { << r.arm, r.task >> : r \in eval.results }
      BY <2>2, <2>4 DEF IsOf
    <3> QED  BY <3>1, <3>2
  <2> QED  BY <1>5, <2>3, <2>5 DEF CompleteMeansWhole
<1> QED  BY <1>6, <1>7, <1>8, <1>9 DEF EvalInv

\* A step inside an invocation that writes no document.
LEMMA GoesOn ==
  ASSUME EvalInv, EvalTyped', UNCHANGED << document, invocations >>, eval.step # "none", eval'.step # "none", eval'.end = eval.end,
         LeaderIsWaitedFor', ReadToTheEnd', ResultsSoFar'
  PROVE  EvalInv'
<1>1. DocumentIsLate'  BY DEF EvalInv, DocumentIsLate
<1>2. CompleteMeansWhole'  BY DEF EvalInv, CompleteMeansWhole
<1> QED  BY <1>1, <1>2 DEF EvalInv

\* The results stay those that there were.
LEMMA ResultsStay ==
  ASSUME EvalInv, eval.step \notin {"none", "prepare"}, eval'.step \notin {"none", "prepare", "conclude"},
         eval'.arm = eval.arm, eval'.task = eval.task, eval'.general = eval.general, eval'.results = eval.results
  PROVE  ResultsSoFar'
<1>1. Tasks' = Tasks /\ \A r, i, j : IsOf(r, i, j)' <=> IsOf(r, i, j)  BY DEF Tasks, IsOf
<1> QED  BY <1>1 DEF EvalInv, ResultsSoFar, Passed

\* A step from one state of the command's handling to another.
LEMMA StepsOn ==
  ASSUME EvalInv, NEW step \in EvalSteps \ {"none", "prepare", "conclude"}, eval.step \notin {"none", "prepare"},
         NEW failure \in BOOLEAN, eval' = [eval EXCEPT !.step = step, !.failure = failure],
         child' \in ChildRecord, UNCHANGED << document, invocations >>,
         LeaderIsWaitedFor', ReadToTheEnd'
  PROVE  EvalInv'
<1>1. eval \in EvalRecord  BY DEF EvalInv, EvalTyped
<1>2. eval' \in EvalRecord  BY <1>1, Zenon DEF EvalRecord
<1>3. /\ eval'.step = step /\ eval'.arm = eval.arm /\ eval'.task = eval.task /\ eval'.general = eval.general
      /\ eval'.results = eval.results /\ eval'.end = eval.end
  BY <1>1 DEF EvalRecord
<1>4. EvalTyped'  BY <1>2 DEF EvalInv, EvalTyped
<1>5. ResultsSoFar'  BY <1>3, ResultsStay
<1> QED  BY <1>3, <1>4, <1>5, GoesOn

\* The tasks of an invocation, and the results of the one that is done.
LEMMA TaskIsDone ==
  ASSUME EvalInv, eval.step = "parse", UNCHANGED << child, invocations >>, TaskParsed
  PROVE  EvalInv'
<1>1. /\ eval \in EvalRecord /\ child \in ChildRecord /\ eval.general \in BOOLEAN
      /\ ~eval.failure /\ child.read = child.written /\ child.leader = "zombie"
  BY DEF EvalInv, EvalTyped, ReadToTheEnd, EvalRecord
<1>2. CASE Fail
  BY <1>1, <1>2, EndsWithDocument DEF Fail
<1>3. CASE ~Fail
  <2> DEFINE tasks == TasksOf(eval.general)
             result == [arm |-> EvalArms[eval.arm], task |-> tasks[eval.task], whole |-> child.read = child.written]
             results == eval.results \cup {result}
             next == [eval EXCEPT !.step = "spawn", !.failure = FALSE, !.results = results]
             last == [next EXCEPT !.step = "conclude"]
             arm2 == [next EXCEPT !.arm = 2, !.task = 1]
             more == [next EXCEPT !.task = @ + 1]
  <2>1. /\ UNCHANGED document
        /\ eval' = IF eval.task < Len(tasks) THEN more ELSE IF eval.arm = 1 THEN arm2 ELSE last
    BY <1>3 DEF TaskParsed
  <2>2. /\ eval.arm \in 1 .. 2 /\ eval.task \in 1 .. Len(tasks) /\ Len(tasks) = IF eval.general THEN 4 ELSE 3
        /\ tasks[eval.task] \in {"greedy", "perplexity", "math", "general"}
    BY <1>1, TaskLists DEF EvalInv, ResultsSoFar, Tasks
  <2>3. EvalArms[eval.arm] \in {"baseline", "candidate"}
    BY <2>2 DEF EvalArms
  <2>4. result \in Result /\ result.whole /\ result.arm = EvalArms[eval.arm] /\ result.task = tasks[eval.task]
    BY <1>1, <2>2, <2>3 DEF Result
  <2>5. eval.results \in SUBSET Result  BY <1>1 DEF EvalRecord
  <2> HIDE DEF result
  <2>6. results \in SUBSET Result  BY <2>4, <2>5
  <2> HIDE DEF results
  <2>7. "spawn" \in EvalSteps /\ "conclude" \in EvalSteps  BY DEF EvalSteps
  <2>8. next \in EvalRecord  BY <1>1, <2>6, <2>7, Zenon DEF EvalRecord
  <2>9. /\ next.step = "spawn" /\ next.end = eval.end /\ next.arm = eval.arm /\ next.task = eval.task
        /\ next.general = eval.general /\ next.failure = FALSE /\ next.results = results
    BY <1>1 DEF EvalRecord
  <2> HIDE DEF next
  <2>10. last \in EvalRecord  BY <2>7, <2>8 DEF EvalRecord
  <2>11. eval.task < Len(tasks) => more \in EvalRecord  BY <2>2, <2>8, <2>9 DEF EvalRecord
  <2>12. 2 \in 0 .. 2 /\ 1 \in 0 .. 4  OBVIOUS
  <2>13. arm2 \in EvalRecord  BY <2>8, <2>12, Zenon DEF EvalRecord
  <2>14. /\ last.step = "conclude" /\ last.end = eval.end /\ last.arm = eval.arm /\ last.task = eval.task
         /\ last.general = eval.general /\ last.failure = FALSE /\ last.results = results
    BY <2>8, <2>9 DEF EvalRecord
  <2>15. /\ more.step = "spawn" /\ more.end = eval.end /\ more.arm = eval.arm /\ more.task = eval.task + 1
         /\ more.general = eval.general /\ more.failure = FALSE /\ more.results = results
    BY <2>8, <2>9 DEF EvalRecord
  <2>16. /\ arm2.step = "spawn" /\ arm2.end = eval.end /\ arm2.arm = 2 /\ arm2.task = 1
         /\ arm2.general = eval.general /\ arm2.failure = FALSE /\ arm2.results = results
    BY <2>8, <2>9 DEF EvalRecord
  <2> HIDE DEF last, more, arm2
  <2>17. /\ eval' \in EvalRecord /\ eval'.step \in {"spawn", "conclude"} /\ eval'.end = eval.end
         /\ eval'.general = eval.general /\ eval'.failure = FALSE /\ eval'.results = results
    BY <2>1, <2>10, <2>11, <2>13, <2>14, <2>15, <2>16
  <2>18. EvalTyped'  BY <2>17, <2>1 DEF EvalInv, EvalTyped
  <2>19. LeaderIsWaitedFor' /\ ReadToTheEnd'
    BY <1>1, <2>17 DEF LeaderIsWaitedFor, ReadToTheEnd
  <2>20. ResultsSoFar'
    <3>1. Tasks' = Tasks /\ Tasks = 1 .. Len(tasks) /\ (\A r, i, j : IsOf(r, i, j)' <=> IsOf(r, i, j))
      BY <2>17 DEF Tasks, IsOf
    <3>2. eval'.arm \in 1 .. 2 /\ eval'.task \in Tasks
      BY <2>1, <2>2, <2>14, <2>15, <2>16, <3>1
    <3>3. IsOf(result, eval.arm, eval.task)  BY <2>4 DEF IsOf
    <3>4. ASSUME NEW i \in 1 .. 2, NEW j \in Tasks, Passed(i, j)'
          PROVE  Passed(i, j) \/ (i = eval.arm /\ j = eval.task)
      BY <2>1, <2>2, <2>14, <2>15, <2>16, <3>1, <3>4 DEF Passed
    <3>5. ASSUME NEW i \in 1 .. 2, NEW j \in Tasks, Passed(i, j)'
          PROVE  \E r \in results : IsOf(r, i, j)
      <4>1. Passed(i, j) => \E r \in eval.results : IsOf(r, i, j)  BY <1>1 DEF EvalInv, ResultsSoFar
      <4> QED  BY <3>3, <3>4, <3>5, <4>1 DEF results
    <3>6. \A r \in results : r.whole /\ \E i \in 1 .. 2, j \in Tasks : IsOf(r, i, j)
      <4>1. \A r \in eval.results : r.whole /\ \E i \in 1 .. 2, j \in Tasks : IsOf(r, i, j)
        BY DEF EvalInv, ResultsSoFar
      <4> QED  BY <2>2, <2>4, <3>1, <3>3, <4>1 DEF results
    <3> QED  BY <2>17, <3>1, <3>2, <3>5, <3>6 DEF ResultsSoFar
  <2> QED  BY <2>1, <2>17, <2>18, <2>19, <2>20, GoesOn
<1> QED  BY <1>2, <1>3

LEMMA EvalStep == ASSUME EvalInv, EvalNext PROVE EvalInv'
<1>1. eval \in EvalRecord /\ child \in ChildRecord /\ child' \in ChildRecord
  BY ChildTyped DEF EvalInv, EvalTyped
<1>2. CASE StartEvaluation
  <2>1. eval' = [NoEval EXCEPT !.step = "prepare"] /\ child' = NoChild  BY <1>2 DEF StartEvaluation
  <2>2. eval' = [step |-> "prepare", end |-> "none", arm |-> 0, task |-> 0, general |-> FALSE, failure |-> FALSE,
                 results |-> {}]
    BY <2>1 DEF NoEval
  <2>3. "prepare" \in EvalSteps /\ "none" \in EvalEnds  BY DEF EvalSteps, EvalEnds
  <2>4. eval' \in EvalRecord  BY <2>2, <2>3 DEF EvalRecord
  <2>5. EvalTyped'  BY <1>1, <1>2, <2>4, EvaluatorAssumption DEF EvalInv, EvalTyped, StartEvaluation
  <2>6. DocumentIsLate'
    <3>1. document # NoDocument => document.by \in Nat  BY EvaluatorAssumption DEF EvalInv, EvalTyped, Documents
    <3> QED  BY <1>2, <2>2, <3>1 DEF EvalInv, EvalTyped, DocumentIsLate, StartEvaluation
  <2>7. LeaderIsWaitedFor' /\ ReadToTheEnd' /\ ResultsSoFar'
    BY <2>1, <2>2 DEF LeaderIsWaitedFor, ReadToTheEnd, ResultsSoFar, NoChild
  <2>8. CompleteMeansWhole'  BY <1>2 DEF EvalInv, CompleteMeansWhole, StartEvaluation
  <2> QED  BY <2>5, <2>6, <2>7, <2>8 DEF EvalInv
<1>3. CASE PrepareEvaluation
  <2>1. CASE Fail
    <3>1. child.leader # "live"  BY <1>3 DEF EvalInv, LeaderIsWaitedFor, DocumentIsLate, PrepareEvaluation
    <3> QED  BY <1>3, <2>1, <3>1, EndsWithDocument DEF Fail, PrepareEvaluation
  <2>2. ASSUME NEW general \in BOOLEAN,
               eval' = [eval EXCEPT !.step = "spawn", !.arm = 1, !.task = 1, !.general = general], UNCHANGED document
        PROVE  EvalInv'
    <3>1. "spawn" \in EvalSteps /\ 1 \in 0 .. 2 /\ 1 \in 0 .. 4  BY DEF EvalSteps
    <3>2. eval' \in EvalRecord  BY <1>1, <2>2, <3>1, Zenon DEF EvalRecord
    <3>3. /\ eval'.step = "spawn" /\ eval'.arm = 1 /\ eval'.task = 1 /\ eval'.general = general
          /\ eval'.end = eval.end /\ eval'.failure = eval.failure /\ eval'.results = eval.results
      BY <1>1, <2>2 DEF EvalRecord
    <3>4. EvalTyped'  BY <1>1, <1>3, <2>2, <3>2 DEF EvalInv, EvalTyped, PrepareEvaluation
    <3>5. LeaderIsWaitedFor' /\ ReadToTheEnd'
      BY <1>3, <3>3 DEF EvalInv, DocumentIsLate, LeaderIsWaitedFor, ReadToTheEnd, PrepareEvaluation
    <3>6. eval.results = {}  BY <1>3 DEF EvalInv, ResultsSoFar, PrepareEvaluation
    <3>7. ResultsSoFar'
      <4>1. Tasks' = 1 .. (IF general THEN 4 ELSE 3)  BY <3>3, TaskLists DEF Tasks
      <4>2. ASSUME NEW i \in 1 .. 2, NEW j \in Tasks', Passed(i, j)'  PROVE FALSE
        BY <3>3, <4>1, <4>2 DEF Passed
      <4> QED  BY <3>3, <3>6, <4>1, <4>2 DEF ResultsSoFar
    <3> QED  BY <1>3, <2>2, <3>3, <3>4, <3>5, <3>7, GoesOn DEF PrepareEvaluation
  <2> QED  BY <1>3, <2>1, <2>2 DEF PrepareEvaluation
<1>4. CASE SpawnCommand
  <2>1. eval.step = "spawn"  BY <1>4 DEF SpawnCommand
  <2>2. CASE Fail /\ UNCHANGED child
    <3>1. child.leader # "live"  BY <2>1 DEF EvalInv, LeaderIsWaitedFor, DocumentIsLate
    <3> QED  BY <1>4, <2>1, <2>2, <3>1, EndsWithDocument DEF Fail, SpawnCommand
  <2>3. CASE EvalGoto("read") /\ UNCHANGED document
    <3>1. eval' = [eval EXCEPT !.step = "read", !.failure = eval.failure]
      BY <1>1, <2>3 DEF EvalGoto, EvalRecord
    <3>2. eval'.step = "read" /\ eval'.failure = eval.failure  BY <1>1, <2>3 DEF EvalGoto, EvalRecord
    <3>3. eval.failure \in BOOLEAN /\ "read" \in EvalSteps  BY <1>1 DEF EvalRecord, EvalSteps
    <3>4. LeaderIsWaitedFor' /\ ReadToTheEnd'
      BY <2>1, <3>2 DEF EvalInv, LeaderIsWaitedFor, ReadToTheEnd
    <3> QED  BY <1>1, <1>4, <2>1, <2>3, <3>1, <3>3, <3>4, StepsOn DEF SpawnCommand
  <2> QED  BY <1>4, <2>2, <2>3 DEF SpawnCommand
<1>5. CASE CommandRuns
  <2>1. UNCHANGED << eval, document, invocations >>  BY <1>5 DEF CommandRuns
  <2>2. EvalTyped' /\ DocumentIsLate' /\ CompleteMeansWhole'
    BY <1>1, <2>1 DEF EvalInv, EvalTyped, DocumentIsLate, CompleteMeansWhole
  <2>3. ResultsSoFar'  BY <2>1 DEF EvalInv, ResultsSoFar, Tasks, Passed, IsOf
  <2>4. child'.leader = "live" => child.leader = "live"
    BY <1>1, <1>5 DEF CommandRuns, ChildRecord
  <2>5. child.leader = "zombie" => child'.leader = "zombie"
    BY <1>1, <1>5 DEF CommandRuns, ChildRecord
  <2>6. child.closed /\ ~child.worker => child'.closed /\ ~child'.worker /\ child'.read = child.read /\ child'.written = child.written
    BY <1>1, <1>5 DEF CommandRuns, ChildRecord
  <2> QED  BY <2>1, <2>2, <2>3, <2>4, <2>5, <2>6 DEF EvalInv, LeaderIsWaitedFor, ReadToTheEnd
<1>6. CASE ReadChunk
  <2>1. eval.step = "read"  BY <1>6 DEF ReadChunk
  <2>2. CASE eval' = eval
    <3>1. EvalTyped'  BY <1>1, <1>6, <2>2 DEF EvalInv, EvalTyped, ReadChunk
    <3>2. LeaderIsWaitedFor' /\ ReadToTheEnd'
      BY <2>1, <2>2 DEF EvalInv, LeaderIsWaitedFor, ReadToTheEnd
    <3>3. ResultsSoFar'  BY <2>1, <2>2, ResultsStay
    <3> QED  BY <1>6, <2>1, <2>2, <3>1, <3>2, <3>3, GoesOn DEF ReadChunk
  <2>3. CASE eval' = [eval EXCEPT !.step = "stop", !.failure = TRUE]
    <3>1. eval'.step = "stop" /\ eval'.failure  BY <1>1, <2>3 DEF EvalRecord
    <3>2. LeaderIsWaitedFor' /\ ReadToTheEnd'  BY <3>1 DEF LeaderIsWaitedFor, ReadToTheEnd
    <3> QED  BY <1>1, <1>6, <2>1, <2>3, <3>2, StepsOn DEF ReadChunk, EvalSteps
  <2> QED  BY <1>6, <2>2, <2>3 DEF ReadChunk
<1>7. CASE ReadEnd
  <2>1. eval.step = "read" /\ UNCHANGED << child, document, invocations >>  BY <1>7 DEF ReadEnd
  <2>2. eval' = [eval EXCEPT !.step = "wait", !.failure = eval.failure]
    BY <1>1, <1>7 DEF ReadEnd, EvalGoto, EvalRecord
  <2>3. eval'.step = "wait" /\ eval'.failure = eval.failure  BY <1>1, <2>2 DEF EvalRecord
  <2>4. eval.failure \in BOOLEAN /\ "wait" \in EvalSteps  BY <1>1 DEF EvalRecord, EvalSteps
  <2>5. LeaderIsWaitedFor' /\ ReadToTheEnd'
    BY <1>7, <2>1, <2>3 DEF EvalInv, LeaderIsWaitedFor, ReadToTheEnd, ReadEnd
  <2> QED  BY <1>1, <2>1, <2>2, <2>4, <2>5, StepsOn
<1>8. CASE DeadlinePasses
  <2>1. eval.step = "read" /\ UNCHANGED << child, document, invocations >>
        /\ eval' = [eval EXCEPT !.step = "stop", !.failure = TRUE]
    BY <1>8 DEF DeadlinePasses
  <2>2. eval'.step = "stop" /\ eval'.failure  BY <1>1, <2>1 DEF EvalRecord
  <2>3. LeaderIsWaitedFor' /\ ReadToTheEnd'  BY <2>2 DEF LeaderIsWaitedFor, ReadToTheEnd
  <2> QED  BY <1>1, <2>1, <2>3, StepsOn DEF EvalSteps
<1>9. ASSUME eval.step = "stop" \/ eval.step = "wait", UNCHANGED << document, invocations >>, EvalGoto("written"),
             child'.leader = "zombie",
             eval.step = "wait" => child' = child,
             eval.step = "stop" => eval.failure
      PROVE  EvalInv'
  <2>1. eval' = [eval EXCEPT !.step = "written", !.failure = eval.failure]
    BY <1>1, <1>9 DEF EvalGoto, EvalRecord
  <2>2. eval'.step = "written" /\ eval'.failure = eval.failure  BY <1>1, <2>1 DEF EvalRecord
  <2>3. eval.failure \in BOOLEAN /\ "written" \in EvalSteps  BY <1>1 DEF EvalRecord, EvalSteps
  <2>4. LeaderIsWaitedFor' /\ ReadToTheEnd'
    BY <1>9, <2>2 DEF EvalInv, LeaderIsWaitedFor, ReadToTheEnd
  <2> QED  BY <1>1, <1>9, <2>1, <2>3, <2>4, StepsOn
<1>10. CASE StopCommand
  <2>1. CASE Escapes /\ UNCHANGED child
    BY <1>10, <2>1, EndsSilently DEF Escapes, StopCommand
  <2>2. CASE EvalGoto("written") /\ UNCHANGED document
    <3>1. eval.step = "stop" => eval.failure  BY DEF EvalInv, ReadToTheEnd
    <3>2. eval'.step = "written"  BY <1>1, <2>2 DEF EvalGoto, EvalRecord
    <3>3. ~Escapes  BY <3>2, EndedFields DEF Escapes, EvalEnds
    <3>4. ASSUME child.leader = "zombie", child' = child  PROVE child'.leader = "zombie"
      BY <3>4
    <3>5. ASSUME NEW w \in BOOLEAN,
                 child' = [child EXCEPT !.leader = "zombie", !.closed = TRUE, !.worker = w]
          PROVE  child'.leader = "zombie"
      BY <1>1, <3>5 DEF ChildRecord
    <3>6. child.worker \in BOOLEAN  BY <1>1 DEF ChildRecord
    <3>7. child'.leader = "zombie"
      BY <1>10, <3>3, <3>4, <3>5, <3>6 DEF StopCommand
    <3> QED  BY <1>9, <1>10, <2>2, <3>1, <3>7 DEF StopCommand
  <2> QED  BY <1>10, <2>1, <2>2 DEF StopCommand
<1>11. CASE AwaitLeader
  <2>1. CASE Escapes
    BY <1>11, <2>1, EndsSilently DEF Escapes, AwaitLeader
  <2>2. CASE child.leader = "zombie" /\ EvalGoto("written") /\ UNCHANGED document
    BY <1>9, <1>11, <2>2 DEF AwaitLeader
  <2> QED  BY <1>11, <2>1, <2>2 DEF AwaitLeader
<1>12. CASE TaskEnds
  <2>1. /\ eval.step = "written" /\ child.leader = "zombie" /\ UNCHANGED << child, invocations >>
    BY <1>12 DEF TaskEnds, EvalInv, ReadToTheEnd
  <2>2. CASE Fail
    BY <2>1, <2>2, EndsWithDocument DEF Fail
  <2>3. CASE ~eval.failure /\ EvalGoto("parse") /\ UNCHANGED document
    <3>1. eval' = [eval EXCEPT !.step = "parse", !.failure = eval.failure]
      BY <1>1, <2>3 DEF EvalGoto, EvalRecord
    <3>2. eval'.step = "parse" /\ eval'.failure = eval.failure  BY <1>1, <3>1 DEF EvalRecord
    <3>3. eval.failure \in BOOLEAN /\ "parse" \in EvalSteps  BY <1>1 DEF EvalRecord, EvalSteps
    <3>4. LeaderIsWaitedFor' /\ ReadToTheEnd'
      BY <2>1, <2>3, <3>2 DEF EvalInv, LeaderIsWaitedFor, ReadToTheEnd
    <3> QED  BY <1>1, <2>1, <2>3, <3>1, <3>3, <3>4, StepsOn
  <2> QED  BY <1>12, <2>2, <2>3 DEF TaskEnds
<1>13. CASE TaskParsed
  BY <1>13, TaskIsDone DEF TaskParsed
<1>14. CASE ConcludeEvaluation
  <2>1. child.leader # "live"
    BY <1>14 DEF EvalInv, LeaderIsWaitedFor, DocumentIsLate, ConcludeEvaluation
  <2> QED  BY <1>14, <2>1, EndsWithDocument DEF ConcludeEvaluation
<1>15. CASE EvaluatorKilled
  BY <1>15, EndsSilently DEF EvaluatorKilled
<1> QED
  BY <1>2, <1>3, <1>4, <1>5, <1>6, <1>7, <1>8, <1>10, <1>11, <1>12, <1>13, <1>14, <1>15 DEF EvalNext

LEMMA EvalStutter == ASSUME EvalInv, UNCHANGED evalvars PROVE EvalInv'
BY DEF EvalInv, EvalTyped, DocumentIsLate, LeaderIsWaitedFor, ReadToTheEnd, ResultsSoFar, CompleteMeansWhole, evalvars,
       Tasks, Passed, IsOf

LEMMA EvalInvIsEnough == EvalInv => DocumentIsOfThisEvaluation
<1> SUFFICES ASSUME EvalInv PROVE DocumentEndsCommands /\ OldDocumentIsReplaced
  BY DEF EvalInv, DocumentIsOfThisEvaluation
<1>1. OldDocumentIsReplaced  BY DEF EvalInv, DocumentIsLate, OldDocumentIsReplaced
<1>2. DocumentEndsCommands
  <2> SUFFICES ASSUME document # NoDocument, document.by = invocations  PROVE child.leader # "live"
    BY DEF DocumentEndsCommands
  <2>1. invocations \in Nat  BY EvaluatorAssumption DEF EvalInv, EvalTyped
  <2>2. eval.end = "main"  BY <2>1 DEF EvalInv, DocumentIsLate
  <2> QED  BY <2>2 DEF EvalInv, DocumentIsLate, LeaderIsWaitedFor
<1> QED  BY <1>1, <1>2

\* The evaluator's document is of this evaluation, for every bound on the output and on the invocations.
THEOREM EvaluationsAreDocumented == EvalInit /\ [][EvalNext]_evalvars => []DocumentIsOfThisEvaluation
<1>1. EvalInv /\ [EvalNext]_evalvars => EvalInv'  BY EvalStep, EvalStutter
<1> QED  BY EvalInits, <1>1, EvalInvIsEnough, PTL
==============================================================================
