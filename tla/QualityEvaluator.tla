--------------------------- MODULE QualityEvaluator ---------------------------
(***************************************************************************)
(* tools/q8_runtime_quality_eval.py: an invocation hashes its models and   *)
(* fixtures, runs every task of both arms as a command of its own, and     *)
(* leaves one document, complete or failed, where the last one was.        *)
(*                                                                         *)
(* The output of a command is read while it runs, up to a limit and a      *)
(* deadline.  The leader of its session may end before a worker that holds *)
(* its pipes.  An invocation may be killed at every step.                  *)
(***************************************************************************)
EXTENDS Naturals, Sequences

CONSTANTS
  MaxOutput,       \* max_output_bytes, in chunks
  MaxInvocations,  \* bound: invocations
  NoDocument

ASSUME EvaluatorAssumption == MaxOutput \in Nat \ {0} /\ MaxInvocations \in Nat

EvalArms == << "baseline", "candidate" >>

VARIABLES
  eval,         \* the invocation that runs
  child,        \* the command of its current task
  document,     \* the file at --output
  invocations   \* invocations so far

evalvars == << eval, child, document, invocations >>

NoChild == [leader |-> "none", worker |-> FALSE, closed |-> FALSE, exit |-> "zero",
            written |-> 0, read |-> 0]

\* end: how the last invocation ended.
NoEval == [step |-> "none", end |-> "none", arm |-> 0, task |-> 0, general |-> FALSE, failure |-> FALSE,
           results |-> {}]

Ended(end) == [NoEval EXCEPT !.end = end]

\* The result of a task, and the document: a file that is missing is none.
Result == [arm : {"baseline", "candidate"}, task : {"greedy", "perplexity", "math", "general"}, whole : BOOLEAN]
Documents == [status : {"complete", "failed"}, by : 1 .. MaxInvocations, results : SUBSET Result, general : BOOLEAN]

ASSUME DocumentAssumption == NoDocument \notin Documents

TasksOf(general) == << "greedy", "perplexity", "math" >> \o IF general THEN << "general" >> ELSE << >>

\* write_json_atomic at the end of main.
Document(status) == document' = [status |-> status, by |-> invocations, results |-> eval.results,
                                 general |-> eval.general]

\* EvaluationError, OSError and JSONDecodeError end in a failure document.
Fail == eval' = Ended("main") /\ Document("failed")

\* Any other exception ends the invocation without one.
Escapes == eval' = Ended("raised") /\ UNCHANGED document

EvalGoto(step) == eval' = [eval EXCEPT !.step = step]

-----------------------------------------------------------------------------
StartEvaluation ==
  /\ eval.step = "none" /\ invocations < MaxInvocations
  /\ invocations' = invocations + 1
  /\ eval' = [NoEval EXCEPT !.step = "prepare"]
  /\ child' = NoChild
  /\ UNCHANGED document

\* Models, fixtures, tools and libraries are checked; the frozen general suite
\* is optional.
PrepareEvaluation ==
  /\ eval.step = "prepare"
  /\ \/ Fail
     \/ \E general \in BOOLEAN :
          eval' = [eval EXCEPT !.step = "spawn", !.arm = 1, !.task = 1, !.general = general]
        /\ UNCHANGED document
  /\ UNCHANGED << child, invocations >>

SpawnCommand ==
  /\ eval.step = "spawn"
  /\ \/ Fail /\ UNCHANGED child
     \/ /\ EvalGoto("read")
        /\ child' = [NoChild EXCEPT !.leader = "live"]
        /\ UNCHANGED document
  /\ UNCHANGED invocations

\* The command goes on by itself: it writes, forks a worker that holds the
\* pipes, closes its own pipes, and ends.
CommandRuns ==
  /\ \/ /\ child.written <= MaxOutput + 1
        /\ (child.leader = "live" /\ ~child.closed) \/ child.worker
        /\ child' = [child EXCEPT !.written = @ + 1]
     \/ child.leader = "live" /\ ~child.worker /\ ~child.closed /\ child' = [child EXCEPT !.worker = TRUE]
     \/ child.leader = "live" /\ ~child.closed /\ child' = [child EXCEPT !.closed = TRUE]
     \/ /\ child.leader = "live"
        /\ \E exit \in {"zero", "other"} :
             child' = [child EXCEPT !.leader = "zombie", !.closed = TRUE, !.exit = exit]
     \/ child.worker /\ child' = [child EXCEPT !.worker = FALSE]
  /\ UNCHANGED << eval, document, invocations >>

\* run_command: a chunk is read, and one too many ends the loop.
ReadChunk ==
  /\ eval.step = "read" /\ child.read < child.written
  /\ child' = [child EXCEPT !.read = @ + 1]
  /\ eval' = IF child.read + 1 > MaxOutput THEN [eval EXCEPT !.step = "stop", !.failure = TRUE] ELSE eval
  /\ UNCHANGED << document, invocations >>

\* Both streams are at their end.
ReadEnd ==
  /\ eval.step = "read" /\ child.read = child.written /\ child.closed /\ ~child.worker
  /\ EvalGoto("wait")
  /\ UNCHANGED << child, document, invocations >>

DeadlinePasses ==
  /\ eval.step = "read"
  /\ eval' = [eval EXCEPT !.step = "stop", !.failure = TRUE]
  /\ UNCHANGED << child, document, invocations >>

\* A leader that still runs is ended with its group, by SIGTERM or SIGKILL; of
\* one that ended by itself the workers are left alone.  If even SIGKILL does
\* not end it in time, nobody catches the TimeoutExpired.
StopCommand ==
  /\ eval.step = "stop"
  /\ \/ /\ child.leader = "live"
        /\ \E worker \in {child.worker, FALSE} :
             child' = [child EXCEPT !.leader = "zombie", !.closed = TRUE, !.worker = worker]
        /\ EvalGoto("written")
        /\ UNCHANGED document
     \/ child.leader = "live" /\ Escapes /\ UNCHANGED child
     \/ child.leader = "zombie" /\ EvalGoto("written") /\ UNCHANGED << child, document >>
  /\ UNCHANGED invocations

\* The pipes are closed: the leader has five seconds to end.
AwaitLeader ==
  /\ eval.step = "wait"
  /\ \/ child.leader = "zombie" /\ EvalGoto("written") /\ UNCHANGED document
     \/ child.leader = "live" /\ Escapes
  /\ UNCHANGED << child, invocations >>

\* Mutant: an output that was cut off is evaluated like any other.
TaskEnds_CutOff ==
  /\ eval.step = "written"
  /\ IF child.exit # "zero" THEN Fail ELSE EvalGoto("parse") /\ UNCHANGED document
  /\ UNCHANGED << child, invocations >>

\* The output is kept in files, then the failure or the exit status is raised.
TaskEnds ==
  /\ eval.step = "written"
  /\ IF eval.failure \/ child.exit # "zero" THEN Fail ELSE EvalGoto("parse") /\ UNCHANGED document
  /\ UNCHANGED << child, invocations >>

\* evaluate_runtime: the output is understood, and the next task follows.
TaskParsed ==
  /\ eval.step = "parse"
  /\ \/ Fail
     \/ LET tasks == TasksOf(eval.general)
            results == eval.results \cup
                         {[arm |-> EvalArms[eval.arm], task |-> tasks[eval.task],
                           whole |-> child.read = child.written]}
            next == [eval EXCEPT !.step = "spawn", !.failure = FALSE, !.results = results]
        IN  /\ eval' = IF eval.task < Len(tasks) THEN [next EXCEPT !.task = @ + 1]
                       ELSE IF eval.arm = 1 THEN [next EXCEPT !.arm = 2, !.task = 1]
                       ELSE [next EXCEPT !.step = "conclude"]
            /\ UNCHANGED document
  /\ UNCHANGED << child, invocations >>

\* The arms are compared and the gate is computed.
ConcludeEvaluation ==
  /\ eval.step = "conclude"
  /\ eval' = Ended("main") /\ Document("complete")
  /\ UNCHANGED << child, invocations >>

EvaluatorKilled ==
  /\ eval.step # "none"
  /\ eval' = Ended("killed")
  /\ UNCHANGED << child, document, invocations >>

EvalInit == eval = NoEval /\ child = NoChild /\ document = NoDocument /\ invocations = 0

EvalNext ==
  \/ StartEvaluation \/ PrepareEvaluation \/ SpawnCommand \/ CommandRuns \/ ReadChunk \/ ReadEnd
  \/ DeadlinePasses \/ StopCommand \/ AwaitLeader \/ TaskEnds \/ TaskParsed \/ ConcludeEvaluation
  \/ EvaluatorKilled

-----------------------------------------------------------------------------
\* A complete document has a result for every task of both arms, each from an
\* output that was read to its end.
CompleteMeansWhole ==
  document # NoDocument /\ document.status = "complete" =>
    /\ { << r.arm, r.task >> : r \in document.results } =
         { EvalArms[i] : i \in 1 .. 2 } \X
         { TasksOf(document.general)[i] : i \in DOMAIN TasksOf(document.general) }
    /\ \A r \in document.results : r.whole

\* When an invocation has written its document, its last command does not run
\* on.  (A worker of it may.)
DocumentEndsCommands ==
  document # NoDocument /\ document.by = invocations => child.leader # "live"

\* An invocation that is not killed, and whose command can be ended, replaces
\* the document of the one before, whether it fails or not.
OldDocumentIsReplaced ==
  eval.end = "main" => document # NoDocument /\ document.by = invocations

\* The evaluator's document tells the truth about this evaluation.
DocumentIsOfThisEvaluation ==
  CompleteMeansWhole /\ DocumentEndsCommands /\ OldDocumentIsReplaced
=============================================================================
