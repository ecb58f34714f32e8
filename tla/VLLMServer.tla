------------------------------ MODULE VLLMServer ------------------------------
(***************************************************************************)
(* The adapter that starts, resumes and stops one vLLM server              *)
(* (vllm_adapter.py): a durable record of the server's identity, an        *)
(* exclusive file lock around each operation, and the process backend of   *)
(* ProcessGroup below it.                                                  *)
(*                                                                         *)
(* The driver of an operation may die between any two of its steps, and    *)
(* the host may reboot; a lock ends with its holder.  Whether the server's *)
(* port answers, and to whom it belongs, is the environment's choice.      *)
(***************************************************************************)
EXTENDS ProcessGroup

CONSTANTS
  Requests     \* request hashes

\* ServerExecutionStatus.  STARTING, RUNNING, TIMED_OUT and FAILED are
\* reported and never read: they are one status here.
ServerExecutionStatus == { "STARTED", "ORPHANED", "STOPPED" }

\* The identity part of a record; tag says which spawn it was.
ServerIdentity == [pid : Pids, ticks : Nat, boot : Nat, tag : Nat]

ServerExecutionRecord ==
  [server : ServerIdentity, request : Requests \cup {NULL}, status : ServerExecutionStatus]

ASSUME ServerAssumption == NULL \notin Requests \cup ServerIdentity \cup ServerExecutionRecord

VARIABLES
  boot,    \* boot_id of the host
  record,  \* the durable ServerExecutionRecord
  op,      \* the operation that holds the lock
  leaked   \* tags of servers whose driver died or gave up before their record

vars == << processVars, boot, record, op, leaked >>

NoOp == [driver |-> NULL, kind |-> "none", request |-> NULL, step |-> "none", spawned |-> NULL]

ProcessOf(s) == [pid |-> s.pid, ticks |-> s.ticks]

\* _same_process and _is_exact, by d: a zombie of another driver is alive.
IsExact(s, d) ==
  /\ s.boot = boot /\ Is(ProcessOf(s))
  /\ ~(proc[s.pid].parent = d /\ proc[s.pid].state = "zombie")

\* Asking reaps d's own child.
Asked(s, d) == IF s.boot = boot THEN Reaped(d, s.pid) ELSE proc

Goto(step) == op' = [op EXCEPT !.step = step]

\* The operation returns or raises, and releases the lock.
End == op' = NoOp /\ lease' = NoLease

Mark(status) == record' = [record EXCEPT !.status = status]

\* A driver that stops following a session forgets who left it.
Forgotten(processes) == [p \in Pids |-> [processes[p] EXCEPT !.held = FALSE]]

\* Everything but proc, lease, record, op and leaked.
Rest == << ticks, servers, raced, forks, disturbances, strayed, boot >>

Asking(s) == proc' = Asked(s, op.driver)

-----------------------------------------------------------------------------
(* start_or_resume                                                         *)

Begin(d, kind, r) ==
  /\ op = NoOp
  /\ op' = [NoOp EXCEPT !.driver = d, !.kind = kind, !.request = r, !.step = "load"]
  /\ UNCHANGED << processVars, boot, record, leaked >>

\* Mutant: a recorded server that does not live is no obstacle.
LoadForStart_NoScan ==
  /\ op.kind = "start" /\ op.step = "load"
  /\ IF record = NULL
     THEN Goto("port") /\ UNCHANGED << proc, lease >>
     ELSE LET same == IsExact(record.server, op.driver)
          IN  /\ Asking(record.server)
              /\ \/ same /\ record.request # op.request /\ End
                 \/ same /\ record.request = op.request /\ Goto("inspect") /\ UNCHANGED lease
                 \/ ~same /\ Goto("port") /\ UNCHANGED lease
  /\ UNCHANGED << Rest, record, leaked >>

\* A live server is reused for its own request only; the session of a dead
\* one is scanned, unless the host was rebooted since.
LoadForStart ==
  /\ op.kind = "start" /\ op.step = "load"
  /\ IF record = NULL
     THEN Goto("port") /\ UNCHANGED << proc, lease >>
     ELSE LET same == IsExact(record.server, op.driver)
              reboot == record.server.boot # boot
          IN  /\ Asking(record.server)
              /\ \/ same /\ record.request # op.request /\ End
                 \/ same /\ record.request = op.request /\ Goto("inspect") /\ UNCHANGED lease
                 \/ ~same /\ reboot /\ Goto("port") /\ UNCHANGED lease
                 \/ /\ ~same /\ ~reboot
                    /\ Goto("scan")
                    /\ lease' = [NoLease EXCEPT !.step = "scan",
                                                !.session = record.server.pid]
  /\ UNCHANGED << Rest, record, leaked >>

\* session_has_live_members
ScanList ==
  /\ lease.step = "scan"
  /\ lease' = [lease EXCEPT !.step = "look", !.listed = { p \in Pids : Present(p) }]
  /\ UNCHANGED << osVars, raced, strayed, boot, record, op, leaked >>

ScanLook ==
  /\ op.step = "scan" /\ lease.step = "look"
  /\ IF LiveMembers(lease.session, lease.listed) # {}
     THEN End
     ELSE Goto("port") /\ lease' = NoLease
  /\ UNCHANGED << Rest, proc, record, leaked >>

\* A listener that nobody recorded is refused, the record's place must be
\* writable, and Popen may fail.
SpawnRefused ==
  /\ op.step = "port"
  /\ End
  /\ UNCHANGED << Rest, proc, record, leaked >>

SpawnServer ==
  /\ op.step = "port"
  /\ \E p \in Pids :
       /\ Spawn(op.driver, p)
       /\ op' = [op EXCEPT !.step = "capture",
                           !.spawned = [pid |-> p, ticks |-> ticks[p] + 1, boot |-> boot,
                                        tag |-> servers + 1]]
  /\ UNCHANGED << boot, record, leaked >>

\* The child's identity is read.  A child that is dead by then is reaped,
\* and the lease taken on its session is used to end the rest of it.
CaptureIdentity ==
  /\ op.step = "capture"
  /\ LET s == op.spawned
         members == { Identity(p) : p \in { q \in Pids : Present(q) /\ proc[q].sess = s.pid } }
     IN  IF proc[s.pid].state = "live"
         THEN Goto("evidence") /\ UNCHANGED << proc, lease >>
         ELSE /\ proc' = [Asked(s, op.driver) EXCEPT
                            ![s.pid] = NoProcess]
              /\ lease' = [Opened(ProcessOf(s), s.tag) EXCEPT !.members = members,
                                                              !.phase = "term"]
              /\ Goto("rollback")
  /\ UNCHANGED << Rest, record, leaked >>

\* The identity cannot be read: the initial group is killed ...
KillUncaptured ==
  /\ op.step = "capture"
  /\ proc' = [p \in Pids |-> IF Live(p) /\ proc[p].sess = op.spawned.pid
                             THEN [proc[p] EXCEPT !.killed = TRUE] ELSE proc[p]]
  /\ lease' = [NoLease EXCEPT !.step = "scan", !.session = op.spawned.pid]
  /\ Goto("uncaptured")
  /\ UNCHANGED << Rest, record, leaked >>

\* ... the child waited for, and the session scanned until it is empty or
\* the deadline passes.
VerifyUncaptured ==
  /\ op.step = "uncaptured" /\ lease.step = "look"
  /\ proc' = Reaped(op.driver, op.spawned.pid)
  /\ LET survivors == LiveMembers(lease.session, lease.listed)
     IN  \/ survivors = {} /\ End /\ UNCHANGED leaked
         \/ /\ survivors # {}
            /\ lease' = [lease EXCEPT !.step = "scan", !.listed = {}]
            /\ UNCHANGED << op, leaked >>
         \/ survivors # {} /\ End /\ leaked' = leaked \cup {op.spawned.tag}
  /\ UNCHANGED << Rest, record >>

\* The runtime is inspected, and the first record is written.
RecordStarted ==
  /\ op.step = "evidence"
  /\ record' = [server |-> op.spawned, request |-> op.request, status |-> "STARTED"]
  /\ \E verdict \in {"mismatch", "probe"} : op' = [op EXCEPT !.step = verdict, !.spawned = NULL,
                                                                !.request = NULL]
  /\ UNCHANGED << Rest, proc, lease, leaked >>

\* The record cannot be written: the server is ended again.
RecordFails ==
  /\ op.step = "evidence"
  /\ Asking(op.spawned)
  /\ IF IsExact(op.spawned, op.driver)
     THEN Goto("open") /\ UNCHANGED << lease, leaked >>
     ELSE End /\ leaked' = leaked \cup {op.spawned.tag}
  /\ UNCHANGED << Rest, record >>

Mismatch ==
  /\ op.step = "mismatch"
  /\ Mark("STARTED") /\ End
  /\ UNCHANGED << Rest, proc, leaked >>

\* A reused server is inspected again.
InspectReused ==
  /\ op.step = "inspect"
  /\ \/ Goto("probe") /\ UNCHANGED << record, lease >>
     \/ Mark("STARTED") /\ End
  /\ UNCHANGED << Rest, proc, leaked >>

\* _wait_for_health: the server is gone (FAILED), healthy (RUNNING), or late
\* (TIMED_OUT), and left running in any case.
WaitForHealth ==
  /\ op.step = "probe"
  /\ Asking(record.server)
  /\ Mark("STARTED") /\ End
  /\ UNCHANGED << Rest, leaked >>

-----------------------------------------------------------------------------
(* stop                                                                    *)

\* Only the recorded server is stopped, and only for the request expected.
LoadForStop ==
  /\ op.kind = "stop" /\ op.step = "load"
  /\ \/ record = NULL /\ End /\ UNCHANGED << proc, record >>
     \/ /\ record # NULL
        /\ op.request \notin {NULL, record.request}
        /\ End /\ UNCHANGED << proc, record >>
     \/ /\ record # NULL
        /\ op.request \in {NULL, record.request}
        /\ Asking(record.server)
        /\ IF IsExact(record.server, op.driver)
           THEN /\ op' = [op EXCEPT !.step = "exact", !.request = NULL]
                /\ UNCHANGED << record, lease >>
           ELSE /\ End
                /\ IF record.status = "STOPPED" THEN UNCHANGED record ELSE Mark("ORPHANED")
  /\ UNCHANGED << Rest, leaked >>

CheckExact ==
  /\ op.step = "exact"
  /\ Asking(record.server)
  /\ IF IsExact(record.server, op.driver)
     THEN Goto("open") /\ UNCHANGED << record, lease >>
     ELSE Mark("ORPHANED") /\ End
  /\ UNCHANGED << Rest, leaked >>

\* The server that terminate_exact is called for.
Target == IF op.spawned # NULL THEN op.spawned ELSE record.server

OpenLease ==
  /\ op.step = "open"
  /\ IF LeaderIs(ProcessOf(Target))
     THEN /\ lease' = Opened(ProcessOf(Target), Target.tag)
          /\ Goto("terminate") /\ UNCHANGED leaked
     ELSE /\ End
          /\ leaked' = IF op.spawned # NULL THEN leaked \cup {Target.tag} ELSE leaked
  /\ UNCHANGED << Rest, proc, record >>

Cleanup == LeaseStep /\ UNCHANGED << boot, record, op, leaked >>

\* The session is empty: a child of this driver is reaped.
Terminated ==
  /\ op.step \in {"terminate", "rollback"} /\ lease.step = "done"
  /\ proc' = Reaped(op.driver, Target.pid)
  /\ IF op.spawned # NULL THEN End ELSE Goto("stopped") /\ lease' = NoLease
  /\ UNCHANGED << Rest, record, leaked >>

\* The cleanup gave up: the record stays as it is, a rollback has none.
TerminationFails ==
  /\ op.step \in {"terminate", "rollback"} /\ lease.step = "failed"
  /\ leaked' = IF op.spawned # NULL THEN leaked \cup {op.spawned.tag} ELSE leaked
  /\ proc' = Forgotten(proc)
  /\ End
  /\ UNCHANGED << Rest, record >>

\* A port that still answers belongs to a descendant, or to others.
RecordStopped ==
  /\ op.step = "stopped"
  /\ Mark("STOPPED") \/ Mark("ORPHANED")
  /\ End
  /\ UNCHANGED << Rest, proc, leaked >>

-----------------------------------------------------------------------------
Unrecorded == IF op.spawned # NULL THEN {op.spawned.tag} ELSE {}

\* The driver dies during its operation.
Crash ==
  /\ op # NoOp /\ disturbances < MaxDisturbances
  /\ disturbances' = disturbances + 1
  /\ proc' = Forgotten(Orphaned(op.driver))
  /\ leaked' = leaked \cup Unrecorded
  /\ End
  /\ UNCHANGED << ticks, servers, raced, forks, strayed, boot, record >>

\* A driver without an operation exits; init adopts and reaps its children.
Exit(d) ==
  /\ op.driver # d /\ \E p \in Pids : proc[p].parent = d
  /\ proc' = Orphaned(d)
  /\ UNCHANGED << Rest, lease, record, op, leaked >>

\* During an operation, it is a crash before it.
Reboot ==
  /\ op = NoOp /\ disturbances < MaxDisturbances
  /\ disturbances' = disturbances + 1
  /\ boot' = boot + 1
  /\ proc' = [p \in Pids |-> NoProcess]
  /\ ticks' = [p \in Pids |-> 0]
  /\ UNCHANGED << servers, raced, forks, strayed, lease, record, op, leaked >>

AdapterStep ==
  \/ LoadForStart \/ ScanList \/ ScanLook \/ SpawnRefused \/ SpawnServer
  \/ CaptureIdentity \/ KillUncaptured \/ VerifyUncaptured
  \/ RecordStarted \/ RecordFails \/ Mismatch \/ InspectReused \/ WaitForHealth
  \/ LoadForStop \/ CheckExact \/ OpenLease \/ Cleanup \/ Terminated \/ TerminationFails
  \/ RecordStopped

Processes == ProcessNext /\ UNCHANGED << boot, record, op, leaked >>

Init ==
  /\ ProcessInit
  /\ boot = 0 
  /\ record = NULL /\ op = NoOp /\ leaked = {}

Next ==
  \/ \E d \in Drivers, r \in Requests : Begin(d, "start", r)
  \/ \E d \in Drivers, r \in Requests \cup {NULL} : Begin(d, "stop", r)
  \/ AdapterStep
  \/ Processes
  \/ Crash
  \/ \E d \in Drivers : Exit(d)
  \/ Reboot

Spec == Init /\ [][Next]_vars

-----------------------------------------------------------------------------
Servers == [pid : Pids, ticks : 0 .. MaxTicks, boot : 0 .. MaxDisturbances, tag : 1 .. MaxServers]

TypeOK ==
  /\ ProcessTypeOK
  /\ boot \in 0 .. MaxDisturbances
  /\ record = NULL \/ record \in [server : Servers, request : Requests,
                                  status : ServerExecutionStatus]
  /\ op.driver \in Drivers \cup {NULL} /\ op.request \in Requests \cup {NULL}
  /\ op.spawned = NULL \/ op.spawned \in Servers
  /\ leaked \subseteq 1 .. MaxServers
  /\ op.step = "none" => lease = NoLease

\* Servers with a live process in their session.
Alive(t) == \E p \in Pids : Live(p) /\ proc[p].tag = t /\ ~proc[p].away

\* Processes that left it, and that a lease knows.
Followed(t) == { p \in Pids : Live(p) /\ proc[p].tag = t /\ proc[p].away /\ proc[p].held }

Accounted == (1 .. MaxServers) \ (leaked \cup raced)

\* Whatever numbers the system reuses while the adapter scans, opens and
\* sends, no process is signalled but those of the session being ended.
SignalsStayInSession == ~strayed

\* No two servers run at once, leader or worker: reboots, crashes after the
\* record is written and failed cleanups included.
OneServerAtATime ==
  \A t, u \in Accounted : Alive(t) /\ Alive(u) => t = u

\* A server that runs is the recorded one, or is being started: no record is
\* replaced while what it stands for may still hold the GPU.
EveryServerIsRecorded ==
  \A t \in Accounted :
    Alive(t) => \/ record # NULL /\ record.server.tag = t
                \/ op.spawned # NULL /\ op.spawned.tag = t

\* A record that says STOPPED stands for a session without a live process,
\* workers and members that left the session included.
StoppedMeansGone ==
  record # NULL /\ record.status = "STOPPED" =>
    \/ record.server.tag \in raced
    \/ ~Alive(record.server.tag) /\ Followed(record.server.tag) = {}

\* Records are valid, every server is recorded, and two never run at once.
ServersAreKnown == TypeOK /\ OneServerAtATime /\ EveryServerIsRecorded
=============================================================================
