----------------------------- MODULE CommandRunner -----------------------------
(***************************************************************************)
(* One command after the other (command.py, CommandRunner.run): a session  *)
(* of its own, a timeout, and a result that says whether something of the  *)
(* command may still be running.  The sessions and the lease on their      *)
(* members are those of ProcessGroup.                                      *)
(***************************************************************************)
EXTENDS ProcessGroup

CONSTANTS Caller  \* the process that runs the commands

ASSUME CallerAssumption == Caller \in Drivers

VARIABLES
  cmd,     \* the call of run
  outcome  \* the CommandResult of the last call, or that it raised

cmdvars == << processVars, cmd, outcome >>

NoCommand == [step |-> "none", pid |-> NULL, tag |-> 0, end |-> "none", exit |-> "none"]

CommandGoto(step) == cmd' = [cmd EXCEPT !.step = step]

\* verified: no part of the result says that a cleanup failed.
Returns(error, verified) ==
  /\ outcome' = [tag |-> cmd.tag, error |-> error, verified |-> verified,
                succeeded |-> cmd.end = "exit" /\ cmd.exit = "zero" /\ error = "none"]
  /\ cmd' = NoCommand
  /\ lease' = NoLease

Quiet == << ticks, servers, raced, forks, disturbances, strayed >>

-----------------------------------------------------------------------------
Launch(p) ==
  /\ cmd.step = "none"
  /\ Spawn(Caller, p)
  /\ cmd' = [NoCommand EXCEPT !.step = "identify", !.pid = p, !.tag = servers + 1]
  /\ outcome' = NULL

\* read_process and ProcessGroupLease(...), of a child that is not yet reaped.
TakeLease ==
  /\ cmd.step = "identify"
  /\ LeaderIs(Identity(cmd.pid))
  /\ lease' = Opened(Identity(cmd.pid), cmd.tag)
  /\ CommandGoto("leasing")
  /\ UNCHANGED << proc, Quiet, outcome >>

Leased ==
  /\ cmd.step = "leasing" /\ lease.phase = "term"
  /\ CommandGoto("communicate")
  /\ UNCHANGED << processVars, outcome >>

\* Mutant: the exit of the leader is the end of the command.
Completed_LeaderOnly ==
  /\ cmd.step = "communicate" /\ proc[cmd.pid].state = "zombie"
  /\ proc' = Reaped(Caller, cmd.pid)
  /\ \E exit \in {"zero", "other"} : cmd' = [cmd EXCEPT !.step = "check", !.end = "exit", !.exit = exit]
  /\ lease' = [lease EXCEPT !.step = "done", !.phase = "check"]
  /\ UNCHANGED << Quiet, outcome >>

\* communicate returns: the pipes are closed and the leader is reaped.  A
\* worker need not hold the pipes, so the session is looked at.
Completed ==
  /\ cmd.step = "communicate" /\ proc[cmd.pid].state = "zombie"
  /\ proc' = Reaped(Caller, cmd.pid)
  /\ \E exit \in {"zero", "other"} : cmd' = [cmd EXCEPT !.step = "check", !.end = "exit", !.exit = exit]
  /\ lease' = [lease EXCEPT !.phase = "check"]
  /\ UNCHANGED << Quiet, outcome >>

\* What else ends communicate: the timeout, an OSError, and any other exception.
Broken ==
  /\ cmd.step = "communicate"
  /\ \E end \in {"timeout", "os", "raise"} : cmd' = [cmd EXCEPT !.step = "cleanup", !.end = end]
  /\ UNCHANGED << processVars, outcome >>

CommandLease ==
  /\ cmd.step \in {"leasing", "check", "cleanup"} /\ ~(cmd.step = "leasing" /\ lease.phase = "term")
  /\ LeaseStep
  /\ UNCHANGED << cmd, outcome >>

\* Descendants make the command fail, also if they could be ended; the leader
\* is gone, so only those are the lease's that were members from the start.
Checked ==
  /\ cmd.step = "check" /\ lease.step \in {"done", "failed"}
  /\ IF lease.step = "failed" THEN Returns("descendants", FALSE)
     ELSE Returns(IF lease.phase = "check" THEN "none" ELSE "descendants", TRUE)
  /\ UNCHANGED << proc, Quiet >>

\* After a timeout the pipes are drained for five seconds; a worker outside
\* the session may hold them longer.
CleanedUp ==
  /\ cmd.step = "cleanup" /\ lease.step \in {"done", "failed"}
  /\ proc' = Reaped(Caller, cmd.pid)
  /\ \/ cmd.end = "timeout" /\ lease.step = "done" /\ \E error \in {"none", "pipes"} : Returns(error, TRUE)
     \/ cmd.end = "timeout" /\ lease.step = "failed" /\ Returns("cleanup", FALSE)
     \/ cmd.end # "timeout" /\ Returns(cmd.end, lease.step = "done")
  /\ UNCHANGED Quiet

\* The identity cannot be read: terminate_uncaptured_child kills the initial
\* group, which workers may have left, ...
KillGroup ==
  /\ cmd.step = "identify"
  /\ \E group \in SUBSET { p \in Pids : proc[p].sess = cmd.pid } :
       /\ cmd.pid \in group
       /\ proc' = [p \in Pids |-> IF p \in group /\ Live(p) THEN [proc[p] EXCEPT !.killed = TRUE]
                                  ELSE proc[p]]
       /\ strayed' = (strayed \/ \E p \in group : proc[p].tag # cmd.tag)
  /\ lease' = [NoLease EXCEPT !.step = "scan", !.session = cmd.pid]
  /\ cmd' = [cmd EXCEPT !.step = "uncaptured", !.end = "raise"]
  /\ UNCHANGED << ticks, servers, raced, forks, disturbances, outcome >>

\* ... waits for the leader, and scans the session until its deadline.
ScanUncaptured ==
  /\ cmd.step = "uncaptured" /\ lease.step = "scan" /\ ~Live(cmd.pid)
  /\ proc' = Reaped(Caller, cmd.pid)
  /\ lease' = [lease EXCEPT !.step = "look", !.listed = { p \in Pids : Present(p) }]
  /\ UNCHANGED << Quiet, cmd, outcome >>

Uncaptured ==
  /\ cmd.step = "uncaptured"
  /\ \/ lease.step = "look" /\ LiveMembers(lease.session, lease.listed) = {} /\ Returns("raise", TRUE)
     \/ /\ lease.step = "look" /\ LiveMembers(lease.session, lease.listed) # {}
        /\ lease' = [lease EXCEPT !.step = "scan", !.listed = {}]
        /\ UNCHANGED << cmd, outcome >>
     \/ Live(cmd.pid) /\ Returns("raise", FALSE)
     \/ /\ lease.step = "look" /\ LiveMembers(lease.session, lease.listed) # {}
        /\ Returns("raise", FALSE)
  /\ UNCHANGED << proc, Quiet >>

CommandInit == ProcessInit /\ cmd = NoCommand /\ outcome = NULL

CommandNext ==
  \/ \E p \in Pids : Launch(p)
  \/ TakeLease \/ Leased \/ Completed \/ Broken \/ CommandLease \/ Checked \/ CleanedUp
  \/ KillGroup \/ ScanUncaptured \/ Uncaptured
  \/ ProcessNext /\ UNCHANGED << cmd, outcome >>

-----------------------------------------------------------------------------
\* Type invariant: a call holds a lease from its identification to its end.
CommandTypeOK ==
  /\ ProcessTypeOK
  /\ cmd.step \in {"none", "identify", "leasing", "communicate", "check", "cleanup", "uncaptured"}
  /\ cmd.step \in {"none", "identify"} <=> lease.step = "none"
  /\ cmd.step # "none" => outcome = NULL /\ cmd.tag = servers

\* What is left of a command: its live processes that did not leave its session.
Remains(tag) == { p \in Pids : Live(p) /\ proc[p].tag = tag /\ ~proc[p].away }

\* When run returns or raises without reporting a failed cleanup, nothing of
\* the command runs on; all the more when it succeeded.  (A worker that is
\* forked between the listing and the reading of /proc can be missed.)
NothingRunsOnUnreported ==
  outcome # NULL /\ outcome.tag \notin raced =>
    Remains(outcome.tag) = {} \/ (~outcome.verified /\ ~outcome.succeeded)

\* No signal of a cleanup reaches a process of anybody else.
CommandSignalsOnlyItsOwn == ~strayed

\* A command that returns left nothing behind unreported and holds nothing, and
\* its cleanup signalled nobody else.
CommandsEndClean == CommandTypeOK /\ NothingRunsOnUnreported /\ CommandSignalsOnlyItsOwn
=============================================================================
