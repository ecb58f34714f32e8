----------------------------- MODULE ProcessGroup -----------------------------
(***************************************************************************)
(* Linux processes, and the bounded cleanup of one session                 *)
(* (process_group.py): a lease on the exact members of the session, which  *)
(* scans /proc, signals every member it knows through a pidfd, and gives   *)
(* up at a deadline, which may come after any number of scans.             *)
(*                                                                         *)
(* A scan lists /proc first and reads the processes later; a signal opens  *)
(* a pidfd of a process that is still the member, and is sent later.       *)
(* Between any two of these the processes go on.                           *)
(***************************************************************************)
EXTENDS Naturals, FiniteSets

CONSTANTS
  Pids,        \* process numbers, used again and again
  Drivers,     \* processes that spawn sessions and hold leases
  NULL,
  MaxTicks,    \* bound: processes that have one number in one boot
  MaxForks,    \* bound: workers forked
  MaxServers,  \* bound: sessions spawned
  MaxDisturbances \* bound: numbers reused by others, workers that leave their
                  \* session, and what else befalls the drivers

ASSUME ProcessAssumption ==
  /\ NULL \notin Pids \cup Drivers
  /\ {MaxTicks, MaxForks, MaxServers, MaxDisturbances} \subseteq Nat

VARIABLES
  proc,     \* pid -> its process
  ticks,    \* pid -> start_ticks of its latest process in this boot
  servers,  \* sessions spawned so far: the last one's tag
  raced,    \* tags of sessions in which a worker was forked during a scan
  forks,    \* workers forked so far
  disturbances, \* how many there were
  strayed,  \* a signal reached a process of no session of ours, or of another
  lease     \* the ProcessGroupLease of the driver that is cleaning up

osVars == << proc, ticks, servers, forks, disturbances >>
processVars == << proc, ticks, servers, raced, forks, disturbances, strayed, lease >>

\* tag: the spawn this process descends from, 0 for a process of others.
\* away: it, or an ancestor of it, left the session.  held: a lease has had
\* it as a member.
NoProcess ==
  [state |-> "none", sess |-> NULL, tag |-> 0, killed |-> FALSE, parent |-> NULL,
   away |-> FALSE, held |-> FALSE]

Present(p) == proc[p].state # "none"
Live(p) == proc[p].state = "live"

\* ProcessIdentity, and what read_process finds under a number.
Identity(p) == [pid |-> p, ticks |-> ticks[p]]

Is(identity) == Present(identity.pid) /\ ticks[identity.pid] = identity.ticks

\* session_has_live_members, of the processes that the scan had listed.
LiveMembers(session, listed) == { p \in listed : Live(p) /\ proc[p].sess = session }

\* The kernel reuses no number that still names a process or a session.
Unused == { p \in Pids : ~Present(p) /\ ticks[p] < MaxTicks
                         /\ \A q \in Pids : Present(q) => proc[q].sess # p }

Created(p, fields) ==
  /\ proc' = [proc EXCEPT ![p] = fields]
  /\ ticks' = [ticks EXCEPT ![p] = @ + 1]

NoLease ==
  [step |-> "none", session |-> NULL, tag |-> 0, members |-> {}, listed |-> {},
   phase |-> "none", queue |-> {}, fd |-> NULL]

-----------------------------------------------------------------------------
(* The processes.                                                          *)

\* Popen with start_new_session; d reaps the child.
Spawn(d, p) ==
  /\ p \in Unused /\ servers < MaxServers
  /\ Created(p, [NoProcess EXCEPT !.state = "live", !.sess = p, !.tag = servers + 1,
                                  !.parent = d])
  /\ servers' = servers + 1
  /\ UNCHANGED << raced, forks, disturbances, strayed, lease >>

\* A process with a fatal signal forks no more.
Fork(q, p) ==
  /\ Live(q) /\ proc[q].tag # 0 /\ ~proc[q].killed
  /\ forks < MaxForks /\ p \in Unused
  /\ Created(p, [NoProcess EXCEPT !.state = "live", !.sess = proc[q].sess, !.tag = proc[q].tag,
                                  !.away = proc[q].away])
  /\ forks' = forks + 1
  /\ raced' = IF lease.step \in {"read", "look"} THEN raced \cup {proc[q].tag} ELSE raced
  /\ UNCHANGED << servers, disturbances, strayed, lease >>

\* setsid: a worker makes itself a session of its own, while a lease has it
\* as a member.  (One that leaves unseen is out of the session's boundary, and
\* of every property.)
Escape(p) ==
  /\ Live(p) /\ proc[p].sess # p /\ Identity(p) \in lease.members
  /\ disturbances < MaxDisturbances
  /\ proc' = [proc EXCEPT ![p].sess = p, ![p].away = TRUE]
  /\ disturbances' = disturbances + 1
  /\ UNCHANGED << ticks, servers, raced, forks, strayed, lease >>

\* A spawned leader stays a zombie until its driver reaps it; other parents
\* reap at once.
Die(p) ==
  /\ Live(p)
  /\ proc' = [proc EXCEPT ![p] =
                IF @.parent # NULL THEN [@ EXCEPT !.state = "zombie"] ELSE NoProcess]
  /\ UNCHANGED << ticks, servers, raced, forks, disturbances, strayed, lease >>

\* A number is used again by a process of somebody else.
ForeignStart(p) ==
  /\ p \in Unused /\ ticks[p] > 0 /\ disturbances < MaxDisturbances
  /\ Created(p, [NoProcess EXCEPT !.state = "live", !.sess = p])
  /\ disturbances' = disturbances + 1
  /\ UNCHANGED << servers, raced, forks, strayed, lease >>

\* What the processes look like when their driver d is gone.
Orphaned(d) ==
  [p \in Pids |->
     IF proc[p].parent # d THEN proc[p]
     ELSE IF proc[p].state = "zombie" THEN NoProcess ELSE [proc[p] EXCEPT !.parent = NULL]]

\* Popen.poll and wait by d.
Reaped(d, p) ==
  IF proc[p].parent = d /\ proc[p].state = "zombie"
  THEN [proc EXCEPT ![p] = NoProcess] ELSE proc

ProcessNext ==
  \/ \E p \in Pids : Escape(p) \/ Die(p) \/ ForeignStart(p)
  \/ \E p, q \in Pids : Fork(q, p)

-----------------------------------------------------------------------------
(* The lease.                                                              *)

\* __init__: the leader is the process that the caller means, or the lease
\* is refused.
LeaderIs(identity) == Is(identity) /\ proc[identity.pid].sess = identity.pid

Opened(identity, tag) ==
  [NoLease EXCEPT !.step = "list", !.session = identity.pid, !.tag = tag,
                  !.members = {identity}, !.phase = "opened"]

\* /proc is listed ...
ListProcesses ==
  /\ lease.step = "list"
  /\ lease' = [lease EXCEPT !.step = "read", !.listed = { p \in Pids : Present(p) }]
  /\ UNCHANGED << osVars, raced, strayed >>

\* ... and every process of the list is read.
Current == { Identity(p) : p \in { q \in lease.listed : Present(q) } }

\* The members that are still the same processes, whatever their session.
Retained == lease.members \cap Current

Group == { m \in Current : proc[m.pid].sess = lease.session }

\* Nobody known is left in the session: its number may have been reused.
OwnershipLost == Group # {} /\ Retained \cap Group = {}

\* Mutant: the leader's exit ends the cleanup.
LiveOf_Leader(members) == { m \in members : m.pid = lease.session /\ Live(m.pid) }

\* Zombies execute nothing.
LiveOf(members) == { m \in members : Live(m.pid) }

\* What follows a scan.  The one that opens the lease, and has_live_members
\* when it finds some, leave the lease ready to terminate; in terminate the
\* first scan is followed by SIGTERM, those of the grace period by another
\* until the deadline, then each by SIGKILL.
AfterScan(members) ==
  LET live == LiveOf(members)
      next == [lease EXCEPT !.members = members, !.listed = {}, !.step = "list"]
  IN  CASE lease.phase = "opened" -> {[next EXCEPT !.phase = "term"]}
        [] lease.phase = "check" /\ live # {} -> {[next EXCEPT !.phase = "term"]}
        [] lease.phase = "term" -> {[next EXCEPT !.step = "signal", !.queue = live]}
        [] lease.phase = "grace" /\ live # {} -> {next, [next EXCEPT !.phase = "kill"]}
        [] lease.phase = "kill" /\ live # {} ->
             {[next EXCEPT !.step = "signal", !.queue = live]}
        [] OTHER -> {[next EXCEPT !.step = "done"]}

\* _refresh
Refresh ==
  /\ lease.step = "read"
  /\ IF OwnershipLost
     THEN /\ lease' = [lease EXCEPT !.step = "failed"]
          /\ UNCHANGED proc
     ELSE LET members == Retained \cup Group
          IN  /\ lease' \in AfterScan(members)
              /\ proc' = [p \in Pids |-> IF Present(p) /\ Identity(p) \in members
                                         THEN [proc[p] EXCEPT !.held = TRUE] ELSE proc[p]]
  /\ UNCHANGED << ticks, servers, raced, forks, disturbances, strayed >>

\* _signal: a member is opened, and must still be the process it was ...
OpenPidfd ==
  /\ lease.step = "signal"
  /\ \E m \in lease.queue :
       lease' = [lease EXCEPT !.queue = @ \ {m},
                              !.fd = IF Is(m) THEN m ELSE NULL,
                              !.step = IF Is(m) THEN "send" ELSE "signal"]
  /\ UNCHANGED << osVars, raced, strayed >>

\* Mutant: os.kill, which finds whatever process has the number by then.
Receivers_ByNumber == { p \in Pids : p = lease.fd.pid /\ Live(p) }

\* The process behind the pidfd.
Receivers == { p \in Pids : Present(p) /\ Identity(p) = lease.fd /\ Live(p) }

\* ... and the signal goes to the process that was opened.
SendSignal ==
  /\ lease.step = "send"
  /\ proc' = [p \in Pids |-> IF p \in Receivers THEN [proc[p] EXCEPT !.killed = @ \/ lease.phase = "kill"]
                             ELSE proc[p]]
  /\ strayed' = (strayed \/ \E p \in Receivers : proc[p].tag # lease.tag)
  /\ lease' = [lease EXCEPT !.step = "signal", !.fd = NULL]
  /\ UNCHANGED << ticks, servers, raced, forks, disturbances >>

\* All are signalled.  After SIGKILL the deadline is looked at.
EndSignals ==
  /\ lease.step = "signal" /\ lease.queue = {}
  /\ \/ lease' = [lease EXCEPT !.step = "list",
                                !.phase = IF @ = "term" THEN "grace" ELSE "kill"]
     \/ lease.phase = "kill" /\ lease' = [lease EXCEPT !.step = "failed"]
  /\ UNCHANGED << osVars, raced, strayed >>

LeaseStep ==
  ListProcesses \/ Refresh \/ OpenPidfd \/ SendSignal \/ EndSignals

-----------------------------------------------------------------------------
ProcessInit ==
  /\ proc = [p \in Pids |-> NoProcess]
  /\ ticks = [p \in Pids |-> 0]
  /\ servers = 0 /\ forks = 0 /\ disturbances = 0
  /\ raced = {}
  /\ strayed = FALSE
  /\ lease = NoLease

Identities == [pid : Pids, ticks : 0 .. MaxTicks]

ProcessTypeOK ==
  /\ proc \in [Pids -> [state : {"none", "live", "zombie"}, sess : Pids \cup {NULL},
                        tag : 0 .. MaxServers, killed : BOOLEAN,
                        parent : Drivers \cup {NULL}, away : BOOLEAN, held : BOOLEAN]]
  /\ ticks \in [Pids -> 0 .. MaxTicks]
  /\ servers \in 0 .. MaxServers /\ forks \in 0 .. MaxForks /\ disturbances \in 0 .. MaxDisturbances
  /\ raced \subseteq 1 .. MaxServers
  /\ strayed \in BOOLEAN
  /\ lease.step \in {"none", "list", "read", "signal", "send", "done", "failed",
                     "scan", "look"}
  /\ lease.session \in Pids \cup {NULL}
  /\ lease.members \subseteq Identities
  /\ lease.queue \subseteq lease.members
  /\ lease.listed \subseteq Pids
=============================================================================
