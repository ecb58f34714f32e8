------------------------- MODULE ProcessGroup_proofs -------------------------
(***************************************************************************)
(* Why a lease never signals a process of anybody else, and what its two   *)
(* holders, the command runner and the server adapter, may conclude from   *)
(* its scans, for any number of processes, numbers used again, drivers,    *)
(* spawns, forks, reboots and crashes.                                     *)
(*                                                                         *)
(* The processes of one session descend from one spawn, because the kernel *)
(* gives nobody a number that still names a session.  A lease takes a new  *)
(* member only beside one that it knows, hence of the same spawn; and a    *)
(* member whose number is used again is another process by its start       *)
(* ticks.  First the lemmas that both holders share, then the command      *)
(* runner, then the adapter: who is signalled, and who runs.               *)
(***************************************************************************)
EXTENDS VLLMServer, CommandRunner, TLAPS

ProcessRecord ==
  [state : {"none", "live", "zombie"}, sess : Pids \cup {NULL}, tag : Nat, killed : BOOLEAN,
   parent : Drivers \cup {NULL}, away : BOOLEAN, held : BOOLEAN]

LeaseRecord ==
  [step : {"none", "list", "read", "signal", "send", "done", "failed", "scan", "look"},
   session : Pids \cup {NULL}, tag : Nat, members : SUBSET [pid : Pids, ticks : Nat],
   listed : SUBSET Pids, phase : {"none", "opened", "term", "grace", "kill", "check"},
   queue : SUBSET [pid : Pids, ticks : Nat], fd : [pid : Pids, ticks : Nat] \cup {NULL}]

ProcessesTyped ==
  /\ proc \in [Pids -> ProcessRecord] /\ ticks \in [Pids -> Nat] /\ servers \in Nat
  /\ lease \in LeaseRecord

\* One session, one spawn; and who has the number of a session is its leader.
SessionsHaveOneTag ==
  \A p, q \in Pids : Present(p) /\ Present(q) /\ proc[p].sess = proc[q].sess => proc[p].tag = proc[q].tag

SessionsHaveLeaders ==
  \A p, q \in Pids : Present(p) /\ Present(q) /\ proc[q].sess = p => proc[p].sess = p

\* An identity is of this boot; whoever it still stands for is of spawn t.
KnownAs(i, t) ==
  /\ i \in [pid : Pids, ticks : Nat] /\ i.ticks <= ticks[i.pid]
  /\ Is(i) => proc[i.pid].tag = t

MembersKnown == \A m \in lease.members : KnownAs(m, lease.tag)

TargetsKnown ==
  /\ lease.step \in {"signal", "send"} => lease.queue \subseteq lease.members
  /\ lease.step = "send" => KnownAs(lease.fd, lease.tag)

Sessions == SessionsHaveOneTag /\ SessionsHaveLeaders

ProcessInv == ProcessesTyped /\ Sessions /\ MembersKnown /\ TargetsKnown /\ ~strayed

-----------------------------------------------------------------------------
(* What may happen to processes.                                           *)

\* No process begins or changes its session.
Kept ==
  \A p \in Pids : /\ ticks'[p] = ticks[p]
                  /\ Present(p)' => Present(p) /\ proc'[p].sess = proc[p].sess
                                    /\ proc'[p].tag = proc[p].tag

\* A process under a number is of the same spawn, unless it is another one.
Onward ==
  \A p \in Pids :
    \/ ticks'[p] = ticks[p] /\ (Present(p)' => Present(p) /\ proc'[p].tag = proc[p].tag)
    \/ ticks'[p] > ticks[p]

LEMMA KeptStays ==
  ASSUME Sessions, Kept
  PROVE  Sessions' /\ Onward
<1>1. Onward  BY DEF Kept, Onward, Present
<1>2. SessionsHaveOneTag'  BY DEF Sessions, SessionsHaveOneTag, Kept, Present
<1>3. SessionsHaveLeaders'  BY DEF Sessions, SessionsHaveLeaders, Kept, Present
<1> QED  BY <1>1, <1>2, <1>3 DEF Sessions

LEMMA KnownStays ==
  ASSUME ticks \in [Pids -> Nat], ticks' \in [Pids -> Nat], Onward
  PROVE  \A i, t : KnownAs(i, t) => KnownAs(i, t)'
<1> SUFFICES ASSUME NEW i, NEW t, KnownAs(i, t)
             PROVE  KnownAs(i, t)'
    OBVIOUS
<1>1. i \in [pid : Pids, ticks : Nat] /\ i.ticks <= ticks[i.pid]  BY DEF KnownAs
<1>2. i.pid \in Pids /\ i.ticks \in Nat  BY <1>1
<1>3. CASE ticks'[i.pid] = ticks[i.pid] /\ (Present(i.pid)' => Present(i.pid) /\ proc'[i.pid].tag = proc[i.pid].tag)
      BY <1>1, <1>2, <1>3 DEF KnownAs, Is, Present
<1>4. CASE ticks'[i.pid] > ticks[i.pid]
  <2>1. ticks[i.pid] \in Nat /\ ticks'[i.pid] \in Nat  BY <1>2
  <2>2. i.ticks <= ticks'[i.pid] /\ i.ticks # ticks'[i.pid]  BY <1>1, <1>2, <1>4, <2>1
  <2> QED  BY <1>1, <2>2 DEF KnownAs, Is
<1> QED  BY <1>2, <1>3, <1>4 DEF Onward

\* A process begins under an unused number, in a session of its own or in
\* that of a process of the same spawn.
LEMMA CreatedStays ==
  ASSUME ProcessesTyped, Sessions, NEW p \in Pids, NEW r \in ProcessRecord,
         p \in Unused, Created(p, r), r.state # "none",
         \/ r.sess = p
         \/ \E q \in Pids : Present(q) /\ r.sess = proc[q].sess /\ r.tag = proc[q].tag
  PROVE  /\ proc' \in [Pids -> ProcessRecord] /\ ticks' \in [Pids -> Nat]
         /\ Sessions' /\ Onward
<1>1. /\ ~Present(p) /\ \A q \in Pids : Present(q) => proc[q].sess # p
      /\ proc' = [proc EXCEPT ![p] = r] /\ ticks' = [ticks EXCEPT ![p] = @ + 1]
      BY DEF Unused, Created
<1>2. proc' \in [Pids -> ProcessRecord] /\ ticks' \in [Pids -> Nat]  BY <1>1 DEF ProcessesTyped
<1>3. Onward
  <2> SUFFICES ASSUME NEW q \in Pids
               PROVE  \/ ticks'[q] = ticks[q] /\ (Present(q)' => Present(q) /\ proc'[q].tag = proc[q].tag)
                      \/ ticks'[q] > ticks[q]
      BY DEF Onward
  <2>1. CASE q = p  BY <1>1, <2>1 DEF ProcessesTyped
  <2>2. CASE q # p  BY <1>1, <2>2 DEF ProcessesTyped, Present
  <2> QED  BY <2>1, <2>2
<1>4. proc'[p] = r /\ \A q \in Pids : q # p => proc'[q] = proc[q]  BY <1>1 DEF ProcessesTyped
<1>5. SessionsHaveOneTag'
      BY <1>1, <1>4 DEF Sessions, SessionsHaveOneTag, Present
<1>6. SessionsHaveLeaders'
  <2>1. CASE r.sess = p
        BY <1>1, <1>4, <2>1 DEF Sessions, SessionsHaveLeaders, Present
  <2>2. CASE \E q \in Pids : Present(q) /\ r.sess = proc[q].sess /\ r.tag = proc[q].tag
        BY <1>1, <1>4, <2>2 DEF Sessions, SessionsHaveLeaders, Present
  <2> QED  BY <2>1, <2>2
<1> QED  BY <1>2, <1>3, <1>5, <1>6 DEF Sessions

\* What a lease knows it goes on knowing while the processes go on.
LEMMA LeaseStays ==
  ASSUME ProcessesTyped, MembersKnown, TargetsKnown, ticks' \in [Pids -> Nat], Onward, lease' = lease
  PROVE  (MembersKnown /\ TargetsKnown)'
<1>1. \A i, t : KnownAs(i, t) => KnownAs(i, t)'  BY KnownStays DEF ProcessesTyped
<1>2. MembersKnown'
  <2> SUFFICES ASSUME NEW m \in lease.members PROVE KnownAs(m, lease.tag)'
      BY DEF MembersKnown
  <2>1. KnownAs(m, lease.tag)  BY DEF MembersKnown
  <2> QED  BY <1>1, <2>1 DEF KnownAs, Is, Present
<1>3. TargetsKnown'
  <2>1. (lease.step \in {"signal", "send"} => lease.queue \subseteq lease.members)'  BY DEF TargetsKnown
  <2>2. ASSUME lease.step = "send" PROVE KnownAs(lease.fd, lease.tag)'
    <3>1. KnownAs(lease.fd, lease.tag)  BY <2>2 DEF TargetsKnown
    <3> QED  BY <1>1, <3>1 DEF KnownAs, Is, Present
  <2> QED  BY <2>1, <2>2 DEF TargetsKnown
<1> QED  BY <1>2, <1>3

-----------------------------------------------------------------------------
(* The steps of the processes.                                             *)

LEMMA EndingStep ==
  ASSUME ProcessInv, proc' \in [Pids -> ProcessRecord], Kept, ticks' = ticks, servers' \in Nat,
         lease' = lease, strayed' = strayed
  PROVE  ProcessInv'
<1>1. Sessions' /\ Onward  BY KeptStays DEF ProcessInv
<1>2. ProcessesTyped'  BY DEF ProcessInv, ProcessesTyped
<1>3. (MembersKnown /\ TargetsKnown)'  BY <1>1, <1>2, LeaseStays DEF ProcessInv, ProcessesTyped
<1> QED  BY <1>1, <1>2, <1>3 DEF ProcessInv

\* A step in which one process begins.
LEMMA BeginningStep ==
  ASSUME ProcessInv, NEW p \in Pids, NEW r \in ProcessRecord,
         p \in Unused, Created(p, r), r.state # "none",
         \/ r.sess = p
         \/ \E q \in Pids : Present(q) /\ r.sess = proc[q].sess /\ r.tag = proc[q].tag,
         servers' \in Nat, lease' = lease, strayed' = strayed
  PROVE  ProcessInv'
<1>1. /\ proc' \in [Pids -> ProcessRecord] /\ ticks' \in [Pids -> Nat]
      /\ Sessions' /\ Onward
      BY CreatedStays DEF ProcessInv
<1>2. ProcessesTyped'  BY <1>1 DEF ProcessInv, ProcessesTyped
<1>3. (MembersKnown /\ TargetsKnown)'  BY <1>1, LeaseStays DEF ProcessInv
<1> QED  BY <1>1, <1>2, <1>3 DEF ProcessInv

LEMMA SpawnStep ==
  ASSUME ProcessInv, NEW d \in Drivers, NEW p \in Pids, Spawn(d, p)
  PROVE  /\ ProcessInv' /\ servers' = servers + 1
         /\ ~Present(p) /\ Present(p)' /\ proc'[p].sess = p /\ proc'[p].tag = servers + 1
         /\ proc'[p].parent = d /\ ticks'[p] = ticks[p] + 1
         /\ p \in Unused /\ ~proc'[p].away /\ ~proc'[p].held
         /\ \A q \in Pids : q # p => proc'[q] = proc[q] /\ ticks'[q] = ticks[q]
<1> DEFINE r == [NoProcess EXCEPT !.state = "live", !.sess = p, !.tag = servers + 1, !.parent = d]
<1>1. /\ p \in Unused /\ Created(p, r) /\ servers' = servers + 1
      /\ lease' = lease /\ strayed' = strayed
      BY DEF Spawn
<1>2. proc \in [Pids -> ProcessRecord] /\ ticks \in [Pids -> Nat] /\ servers \in Nat
      BY DEF ProcessInv, ProcessesTyped
<1>3. /\ r \in ProcessRecord /\ r.state = "live" /\ r.sess = p /\ r.tag = servers + 1 /\ r.parent = d
      /\ ~r.away /\ ~r.held
  <2>1. PICK t \in Nat : t = servers + 1  BY <1>2
  <2>2. r = [NoProcess EXCEPT !.state = "live", !.sess = p, !.tag = t, !.parent = d]  BY <2>1
  <2> HIDE DEF r
  <2>3. r \in ProcessRecord /\ r.state = "live" /\ r.sess = p /\ r.tag = t /\ r.parent = d /\ ~r.away /\ ~r.held
        BY <2>2 DEF NoProcess, ProcessRecord
  <2> QED  BY <2>1, <2>3
<1> HIDE DEF r
<1>4. ProcessInv'  BY <1>1, <1>2, <1>3, BeginningStep
<1>5. proc' = [proc EXCEPT ![p] = r] /\ ticks' = [ticks EXCEPT ![p] = @ + 1] /\ ~Present(p)
      BY <1>1 DEF Created, Unused
<1> QED  BY <1>1, <1>2, <1>3, <1>4, <1>5 DEF Present

LEMMA ForkStep ==
  ASSUME ProcessInv, NEW p \in Pids, NEW q \in Pids, Fork(q, p)
  PROVE  ProcessInv'
<1> DEFINE r == [NoProcess EXCEPT !.state = "live", !.sess = proc[q].sess, !.tag = proc[q].tag,
                                  !.away = proc[q].away]
<1>1. /\ p \in Unused /\ Created(p, r) /\ servers' = servers /\ lease' = lease /\ strayed' = strayed
      /\ Live(q)
      BY DEF Fork
<1>2. proc[q] \in ProcessRecord /\ servers \in Nat  BY DEF ProcessInv, ProcessesTyped
<1>3. r \in ProcessRecord /\ r.state = "live" /\ r.sess = proc[q].sess /\ r.tag = proc[q].tag
      BY <1>2 DEF NoProcess, ProcessRecord
<1>4. Present(q)  BY <1>1 DEF Live, Present
<1> HIDE DEF r
<1> QED  BY <1>1, <1>2, <1>3, <1>4, BeginningStep

LEMMA ForeignStep ==
  ASSUME ProcessInv, NEW p \in Pids, ForeignStart(p)
  PROVE  ProcessInv'
<1> DEFINE r == [NoProcess EXCEPT !.state = "live", !.sess = p]
<1>1. /\ p \in Unused /\ Created(p, r) /\ servers' = servers /\ lease' = lease /\ strayed' = strayed
      BY DEF ForeignStart
<1>2. servers \in Nat  BY DEF ProcessInv, ProcessesTyped
<1>3. r \in ProcessRecord /\ r.state = "live" /\ r.sess = p
      BY DEF NoProcess, ProcessRecord
<1> HIDE DEF r
<1> QED  BY <1>1, <1>2, <1>3, BeginningStep

\* Who leaves a session has a number that names no other.
LEMMA EscapeStep ==
  ASSUME ProcessInv, NEW p \in Pids, Escape(p)
  PROVE  ProcessInv'
<1>1. /\ Live(p) /\ proc[p].sess # p /\ proc' = [proc EXCEPT ![p].sess = p, ![p].away = TRUE]
      /\ UNCHANGED << ticks, servers, strayed, lease >>
      BY DEF Escape
<1>2. proc \in [Pids -> ProcessRecord]  BY DEF ProcessInv, ProcessesTyped
<1>3. proc' \in [Pids -> ProcessRecord]  BY <1>1, <1>2 DEF ProcessRecord
<1>4. /\ proc'[p].sess = p /\ proc'[p].state = proc[p].state /\ proc'[p].tag = proc[p].tag
      /\ \A q \in Pids : q # p => proc'[q] = proc[q]
      BY <1>1, <1>2 DEF ProcessRecord
<1>5. Present(p) /\ \A q \in Pids : Present(q) => proc[q].sess # p
      BY <1>1 DEF ProcessInv, Sessions, SessionsHaveLeaders, Live, Present
<1>6. Sessions'
      BY <1>4, <1>5 DEF ProcessInv, Sessions, SessionsHaveLeaders, SessionsHaveOneTag, Present
<1>7. Onward  BY <1>1, <1>4, <1>5 DEF Onward, Present
<1>8. ProcessesTyped'  BY <1>1, <1>3 DEF ProcessInv, ProcessesTyped
<1>9. (MembersKnown /\ TargetsKnown)'
      BY <1>1, <1>7, <1>8, LeaseStays DEF ProcessInv, ProcessesTyped
<1> QED  BY <1>1, <1>6, <1>8, <1>9 DEF ProcessInv

\* What reaping, dying and losing the driver leave of the processes.
LEMMA Endings ==
  ASSUME proc \in [Pids -> ProcessRecord], NEW d, NEW p \in Pids
  PROVE  /\ Reaped(d, p) \in [Pids -> ProcessRecord] /\ Orphaned(d) \in [Pids -> ProcessRecord]
         /\ [proc EXCEPT ![p] = NoProcess] \in [Pids -> ProcessRecord]
         /\ \A q \in Pids :
              /\ Reaped(d, p)[q] \in {proc[q], NoProcess}
              /\ Reaped(d, p)[q] # proc[q] => q = p /\ proc[p].parent = d
              /\ Orphaned(d)[q] \in {proc[q], NoProcess, [proc[q] EXCEPT !.parent = NULL]}
              /\ Orphaned(d)[q] # proc[q] => proc[q].parent = d
<1>1. NoProcess \in ProcessRecord  BY DEF NoProcess, ProcessRecord
<1>2. \A q \in Pids : [proc[q] EXCEPT !.parent = NULL] \in ProcessRecord  BY DEF ProcessRecord
<1>3. [proc EXCEPT ![p] = NoProcess] \in [Pids -> ProcessRecord]  BY <1>1
<1>4. Reaped(d, p) \in [Pids -> ProcessRecord]  BY <1>3 DEF Reaped
<1>5. Orphaned(d) \in [Pids -> ProcessRecord]  BY <1>1, <1>2 DEF Orphaned
<1>6. ASSUME NEW q \in Pids
      PROVE  /\ Reaped(d, p)[q] \in {proc[q], NoProcess}
             /\ Reaped(d, p)[q] # proc[q] => q = p /\ proc[p].parent = d
      BY DEF Reaped
<1>7. ASSUME NEW q \in Pids
      PROVE  /\ Orphaned(d)[q] \in {proc[q], NoProcess, [proc[q] EXCEPT !.parent = NULL]}
             /\ Orphaned(d)[q] # proc[q] => proc[q].parent = d
      BY DEF Orphaned
<1> QED  BY <1>3, <1>4, <1>5, <1>6, <1>7

\* Reaping, orphaning and marking leave the sessions of the others alone.
LEMMA EndingsKeep ==
  ASSUME proc \in [Pids -> ProcessRecord], ticks' = ticks,
         \A q \in Pids : \/ proc'[q] = NoProcess
                         \/ /\ proc'[q].state = proc[q].state
                            /\ proc'[q].sess = proc[q].sess /\ proc'[q].tag = proc[q].tag
  PROVE  Kept
BY DEF Kept, Present, NoProcess

LEMMA ReapedKeeps ==
  ASSUME proc \in [Pids -> ProcessRecord], NEW d, NEW p \in Pids, proc' = Reaped(d, p), ticks' = ticks
  PROVE  proc' \in [Pids -> ProcessRecord] /\ Kept
<1>1. proc' \in [Pids -> ProcessRecord] /\ \A q \in Pids : proc'[q] \in {proc[q], NoProcess}
      BY Endings
<1> QED  BY <1>1, EndingsKeep

LEMMA OrphanedKeeps ==
  ASSUME proc \in [Pids -> ProcessRecord], NEW d, proc' = Orphaned(d), ticks' = ticks
  PROVE  proc' \in [Pids -> ProcessRecord] /\ Kept
<1>1. CASE Pids = {}  BY <1>1 DEF Orphaned, Kept
<1>2. CASE Pids # {}
  <2>1. PICK p \in Pids : TRUE  BY <1>2
  <2>2. /\ proc' \in [Pids -> ProcessRecord]
        /\ \A q \in Pids : proc'[q] \in {proc[q], NoProcess, [proc[q] EXCEPT !.parent = NULL]}
        BY <2>1, Endings
  <2>3. \A q \in Pids : /\ [proc[q] EXCEPT !.parent = NULL].state = proc[q].state
                        /\ [proc[q] EXCEPT !.parent = NULL].sess = proc[q].sess
                        /\ [proc[q] EXCEPT !.parent = NULL].tag = proc[q].tag
        BY DEF ProcessRecord
  <2> QED  BY <2>2, <2>3, EndingsKeep
<1> QED  BY <1>1, <1>2

\* A lease that is closed, or that only scans, knows nobody.
LEMMA NobodyKnown ==
  ASSUME lease'.members = {}, lease'.step \notin {"signal", "send"}
  PROVE  (MembersKnown /\ TargetsKnown)'
BY DEF MembersKnown, TargetsKnown

\* A step after which another lease is held, or none.
LEMMA EndingWithLease ==
  ASSUME ProcessInv, proc' \in [Pids -> ProcessRecord], Kept, ticks' = ticks, servers' \in Nat,
         lease' \in LeaseRecord, (MembersKnown /\ TargetsKnown)', ~strayed'
  PROVE  ProcessInv'
<1>1. Sessions'  BY KeptStays DEF ProcessInv
<1>2. ProcessesTyped'  BY DEF ProcessInv, ProcessesTyped
<1> QED  BY <1>1, <1>2 DEF ProcessInv

LEMMA NoLeaseIs ==
  /\ NoLease \in LeaseRecord /\ NoLease.members = {} /\ NoLease.step = "none"
  /\ \A s \in Pids : LET scan == [NoLease EXCEPT !.step = "scan", !.session = s]
                     IN  scan \in LeaseRecord /\ scan.members = {} /\ scan.step = "scan"
BY DEF NoLease, LeaseRecord

LEMMA OpenedIs ==
  ASSUME NEW i \in [pid : Pids, ticks : Nat], NEW t \in Nat
  PROVE  /\ Opened(i, t) \in LeaseRecord /\ Opened(i, t).members = {i} /\ Opened(i, t).tag = t
         /\ Opened(i, t).step = "list" /\ Opened(i, t).queue = {}
BY DEF Opened, NoLease, LeaseRecord

LEMMA DieStep ==
  ASSUME ProcessInv, NEW p \in Pids, Die(p)
  PROVE  ProcessInv'
<1>1. /\ Live(p)
      /\ proc' = [proc EXCEPT ![p] = IF @.parent # NULL THEN [@ EXCEPT !.state = "zombie"] ELSE NoProcess]
      /\ UNCHANGED << ticks, servers, strayed, lease >>
      BY DEF Die
<1>2. proc \in [Pids -> ProcessRecord] /\ servers \in Nat  BY DEF ProcessInv, ProcessesTyped
<1>3. NoProcess \in ProcessRecord /\ [proc[p] EXCEPT !.state = "zombie"] \in ProcessRecord
      BY <1>2 DEF NoProcess, ProcessRecord
<1>4. proc' \in [Pids -> ProcessRecord]  BY <1>1, <1>2, <1>3
<1>5. /\ \A q \in Pids : q # p => proc'[q] = proc[q]
      /\ proc'[p] \in {NoProcess, [proc[p] EXCEPT !.state = "zombie"]}
      BY <1>1, <1>2
<1>6. Kept  BY <1>1, <1>2, <1>5 DEF Kept, Present, Live, NoProcess, ProcessRecord
<1> QED  BY <1>1, <1>2, <1>4, <1>6, EndingStep

LEMMA ProcessesStep ==
  ASSUME ProcessInv, ProcessNext
  PROVE  ProcessInv'
BY EscapeStep, DieStep, ForeignStep, ForkStep DEF ProcessNext

-----------------------------------------------------------------------------
(* The steps of the lease.                                                 *)

\* A step of the lease that keeps its members and leaves the processes alone.
LEMMA LeaseGoesOn ==
  ASSUME ProcessInv, UNCHANGED << proc, ticks, servers, strayed >>, lease' \in LeaseRecord,
         lease'.members = lease.members, lease'.tag = lease.tag,
         lease'.step \in {"signal", "send"} => lease'.queue \subseteq lease.members,
         lease'.step = "send" => lease'.fd \in lease.members
  PROVE  ProcessInv' /\ Kept
<1>1. ProcessesTyped'  BY DEF ProcessInv, ProcessesTyped
<1>2. Sessions'
      BY DEF ProcessInv, Sessions, SessionsHaveOneTag, SessionsHaveLeaders, Present
<1>3. \A m \in lease.members : KnownAs(m, lease.tag)'
      BY DEF ProcessInv, MembersKnown, KnownAs, Is, Present
<1>4. MembersKnown'  BY <1>3 DEF MembersKnown, KnownAs, Is, Present
<1>5. TargetsKnown'
  <2>1. ASSUME lease'.step = "send" PROVE KnownAs(lease.fd, lease.tag)'
    <3>1. lease'.fd \in lease.members  BY <2>1
    <3> QED  BY <1>3, <3>1 DEF KnownAs, Is, Present
  <2> QED  BY <2>1 DEF TargetsKnown
<1>6. Kept  BY DEF Kept, Present
<1> QED  BY <1>1, <1>2, <1>4, <1>5, <1>6 DEF ProcessInv

LEMMA ListStep ==
  ASSUME ProcessInv, ListProcesses
  PROVE  ProcessInv' /\ Kept
<1>1. /\ lease.step = "list"
      /\ lease' = [lease EXCEPT !.step = "read", !.listed = { p \in Pids : Present(p) }]
      /\ UNCHANGED << proc, ticks, servers, strayed >>
      BY DEF ListProcesses, osVars
<1>2. lease \in LeaseRecord  BY DEF ProcessInv, ProcessesTyped
<1>3. /\ lease' \in LeaseRecord /\ lease'.members = lease.members /\ lease'.tag = lease.tag
      /\ lease'.step = "read"
  <2> DEFINE listed == { p \in Pids : Present(p) }
  <2>1. listed \in SUBSET Pids  OBVIOUS
  <2>2. lease' = [lease EXCEPT !.step = "read", !.listed = listed]  BY <1>1
  <2> HIDE DEF listed
  <2> QED  BY <1>2, <2>1, <2>2 DEF LeaseRecord
<1> QED  BY <1>1, <1>2, <1>3, LeaseGoesOn

LEMMA OpenStep ==
  ASSUME ProcessInv, OpenPidfd
  PROVE  ProcessInv' /\ Kept
<1>1. PICK m \in lease.queue :
        /\ lease.step = "signal"
        /\ lease' = [lease EXCEPT !.queue = @ \ {m}, !.fd = IF Is(m) THEN m ELSE NULL,
                                  !.step = IF Is(m) THEN "send" ELSE "signal"]
      BY DEF OpenPidfd
<1>2. UNCHANGED << proc, ticks, servers, strayed >>  BY DEF OpenPidfd, osVars
<1>3. /\ lease \in LeaseRecord /\ lease.queue \subseteq lease.members
      /\ m \in [pid : Pids, ticks : Nat]
      BY <1>1 DEF ProcessInv, ProcessesTyped, TargetsKnown, MembersKnown, KnownAs
<1>4. /\ lease' \in LeaseRecord /\ lease'.members = lease.members /\ lease'.tag = lease.tag
      /\ lease'.queue \subseteq lease.members
      /\ lease'.step = "send" => lease'.fd = m
  <2>1. CASE Is(m)
    <3>1. lease' = [lease EXCEPT !.queue = @ \ {m}, !.fd = m, !.step = "send"]  BY <1>1, <2>1
    <3> QED  BY <1>3, <3>1 DEF LeaseRecord
  <2>2. CASE ~Is(m)
    <3>1. lease' = [lease EXCEPT !.queue = @ \ {m}, !.fd = NULL, !.step = "signal"]  BY <1>1, <2>2
    <3> QED  BY <1>3, <3>1 DEF LeaseRecord
  <2> QED  BY <2>1, <2>2
<1> QED  BY <1>1, <1>2, <1>3, <1>4, LeaseGoesOn

LEMMA EndSignalsStep ==
  ASSUME ProcessInv, EndSignals
  PROVE  ProcessInv' /\ Kept
<1>1. PICK step \in {"list", "failed"}, phase \in {"grace", "kill", lease.phase} :
        lease' = [lease EXCEPT !.step = step, !.phase = phase]
  <2>1. lease \in LeaseRecord  BY DEF ProcessInv, ProcessesTyped
  <2>2. CASE lease' = [lease EXCEPT !.step = "list", !.phase = IF @ = "term" THEN "grace" ELSE "kill"]
        BY <2>2
  <2>3. CASE lease' = [lease EXCEPT !.step = "failed"]
    <3>1. lease' = [lease EXCEPT !.step = "failed", !.phase = lease.phase]  BY <2>1, <2>3 DEF LeaseRecord
    <3> QED  BY <3>1
  <2> QED  BY <2>2, <2>3 DEF EndSignals
<1>2. UNCHANGED << proc, ticks, servers, strayed >>  BY DEF EndSignals, osVars
<1>3. lease \in LeaseRecord  BY DEF ProcessInv, ProcessesTyped
<1>4. /\ lease' \in LeaseRecord /\ lease'.members = lease.members /\ lease'.tag = lease.tag
      /\ lease'.step = step
      BY <1>1, <1>3 DEF LeaseRecord
<1> QED  BY <1>2, <1>3, <1>4, LeaseGoesOn

\* A signal goes to the process that was opened, which is of the lease's spawn.
LEMMA SendStep ==
  ASSUME ProcessInv, SendSignal
  PROVE  ProcessInv' /\ Kept
<1> DEFINE signalled(p) == IF p \in Receivers
                           THEN [proc[p] EXCEPT !.killed = @ \/ lease.phase = "kill"] ELSE proc[p]
<1>1. /\ lease.step = "send" /\ proc' = [p \in Pids |-> signalled(p)]
      /\ strayed' = (strayed \/ \E p \in Receivers : proc[p].tag # lease.tag)
      /\ lease' = [lease EXCEPT !.step = "signal", !.fd = NULL]
      /\ UNCHANGED << ticks, servers >>
      BY DEF SendSignal
<1>2. /\ proc \in [Pids -> ProcessRecord] /\ lease \in LeaseRecord /\ servers \in Nat
      /\ ticks \in [Pids -> Nat] /\ KnownAs(lease.fd, lease.tag) /\ ~strayed
      /\ lease.queue \subseteq lease.members
      BY <1>1 DEF ProcessInv, ProcessesTyped, TargetsKnown
<1>3. \A p \in Receivers : proc[p].tag = lease.tag
      BY <1>2 DEF Receivers, Identity, KnownAs, Is
<1>4. ~strayed'  BY <1>1, <1>2, <1>3
<1>5. \A p \in Pids : \E killed \in BOOLEAN : proc'[p] = [proc[p] EXCEPT !.killed = killed]
  <2> SUFFICES ASSUME NEW p \in Pids
               PROVE  \E killed \in BOOLEAN : proc'[p] = [proc[p] EXCEPT !.killed = killed]
      OBVIOUS
  <2>1. proc[p].killed \in BOOLEAN /\ proc[p] = [proc[p] EXCEPT !.killed = proc[p].killed]
        BY <1>2 DEF ProcessRecord
  <2>2. CASE p \in Receivers
    <3>1. proc'[p] = [proc[p] EXCEPT !.killed = proc[p].killed \/ lease.phase = "kill"]  BY <1>1, <2>2
    <3>2. (proc[p].killed \/ lease.phase = "kill") \in BOOLEAN  OBVIOUS
    <3> QED  BY <3>1, <3>2
  <2>3. CASE p \notin Receivers  BY <1>1, <2>1, <2>3
  <2> QED  BY <2>2, <2>3
<1>6. /\ proc' \in [Pids -> ProcessRecord]
      /\ \A p \in Pids : proc'[p].state = proc[p].state /\ proc'[p].sess = proc[p].sess
                         /\ proc'[p].tag = proc[p].tag
  <2>1. \A p \in Pids, killed \in BOOLEAN :
          /\ [proc[p] EXCEPT !.killed = killed] \in ProcessRecord
          /\ [proc[p] EXCEPT !.killed = killed].state = proc[p].state
          /\ [proc[p] EXCEPT !.killed = killed].sess = proc[p].sess
          /\ [proc[p] EXCEPT !.killed = killed].tag = proc[p].tag
        BY <1>2 DEF ProcessRecord
  <2>2. \A p \in Pids : proc'[p] \in ProcessRecord /\ proc'[p].state = proc[p].state
                        /\ proc'[p].sess = proc[p].sess /\ proc'[p].tag = proc[p].tag
    <3> TAKE p \in Pids
    <3>1. PICK killed \in BOOLEAN : proc'[p] = [proc[p] EXCEPT !.killed = killed]  BY <1>5
    <3> HIDE DEF signalled
    <3> QED  BY <2>1, <3>1, Zenon
  <2> HIDE DEF signalled
  <2>3. \A p \in Pids : signalled(p) \in ProcessRecord  BY <1>1, <2>2
  <2> QED  BY <1>1, <2>2, <2>3
<1>7. Kept  BY <1>1, <1>6 DEF Kept, Present
<1>8. Sessions' /\ Onward  BY <1>7, KeptStays DEF ProcessInv
<1>9. /\ lease' \in LeaseRecord /\ lease'.members = lease.members /\ lease'.tag = lease.tag
      /\ lease'.queue = lease.queue /\ lease'.step = "signal"
      BY <1>1, <1>2 DEF LeaseRecord
<1>10. ProcessesTyped'  BY <1>1, <1>2, <1>6, <1>9 DEF ProcessesTyped
<1>11. \A i, t : KnownAs(i, t) => KnownAs(i, t)'  BY <1>1, <1>2, <1>8, KnownStays
<1>12. MembersKnown'
  <2> SUFFICES ASSUME NEW m \in lease.members PROVE KnownAs(m, lease.tag)'
      BY <1>9 DEF MembersKnown
  <2>1. KnownAs(m, lease.tag)  BY DEF ProcessInv, MembersKnown
  <2> QED  BY <1>9, <1>11, <2>1 DEF KnownAs, Is, Present
<1>13. TargetsKnown'  BY <1>2, <1>9 DEF TargetsKnown
<1> QED  BY <1>4, <1>7, <1>8, <1>10, <1>12, <1>13 DEF ProcessInv

\* The scan of a lease takes no member of another spawn.
LEMMA ScanKnown ==
  ASSUME ProcessInv, ~OwnershipLost
  PROVE  \A m \in Retained \cup Group : KnownAs(m, lease.tag)
<1>1. /\ ticks \in [Pids -> Nat] /\ lease.listed \subseteq Pids
      /\ \A m \in lease.members : KnownAs(m, lease.tag)
      BY DEF ProcessInv, ProcessesTyped, LeaseRecord, MembersKnown
<1>2. \A m \in Retained : KnownAs(m, lease.tag)  BY <1>1 DEF Retained
<1>3. ASSUME NEW m \in Group PROVE KnownAs(m, lease.tag)
  <2>1. PICK q \in Pids : Present(q) /\ m = Identity(q) /\ proc[q].sess = lease.session
        BY <1>1 DEF Group, Current, Identity
  <2>2. PICK k \in Retained \cap Group : TRUE  BY <1>3 DEF OwnershipLost
  <2>3. PICK r \in Pids : Present(r) /\ k = Identity(r) /\ proc[r].sess = lease.session
        BY <1>1, <2>2 DEF Group, Current, Identity
  <2>4. proc[r].tag = lease.tag
        BY <1>2, <2>2, <2>3 DEF KnownAs, Is, Identity
  <2>5. proc[q].tag = lease.tag
        BY <2>1, <2>3, <2>4 DEF ProcessInv, Sessions, SessionsHaveOneTag
  <2> QED  BY <1>1, <2>1, <2>5 DEF KnownAs, Is, Identity
<1> QED  BY <1>2, <1>3

LEMMA AfterScanIs ==
  ASSUME lease \in LeaseRecord, NEW members \in SUBSET [pid : Pids, ticks : Nat],
         NEW next \in AfterScan(members)
  PROVE  /\ next \in LeaseRecord /\ next.members = members /\ next.tag = lease.tag
         /\ next.step # "send" /\ (next.step = "signal" => next.queue \subseteq members)
<1> DEFINE live == LiveOf(members)
           rest == [lease EXCEPT !.members = members, !.listed = {}, !.step = "list"]
<1>1. live \in SUBSET [pid : Pids, ticks : Nat] /\ live \subseteq members  BY DEF LiveOf
<1>2. \/ \E phase \in {"term", "kill", lease.phase} : next = [rest EXCEPT !.phase = phase]
      \/ next = [rest EXCEPT !.step = "signal", !.queue = live]
      \/ next = [rest EXCEPT !.step = "done"]
  <2>1. rest = [rest EXCEPT !.phase = lease.phase]  BY DEF LeaseRecord
  <2>2. CASE lease.phase = "opened"
    <3>1. next = [rest EXCEPT !.phase = "term"]  BY <2>2 DEF AfterScan
    <3> QED  BY <3>1
  <2>3. CASE lease.phase = "check" /\ live # {}
    <3>1. next = [rest EXCEPT !.phase = "term"]  BY <2>3 DEF AfterScan
    <3> QED  BY <3>1
  <2>4. CASE lease.phase = "term"
    <3>1. next = [rest EXCEPT !.step = "signal", !.queue = live]  BY <2>4 DEF AfterScan
    <3> QED  BY <3>1
  <2>5. CASE lease.phase = "grace" /\ live # {}
    <3>1. next \in {rest, [rest EXCEPT !.phase = "kill"]}  BY <2>5 DEF AfterScan
    <3> QED  BY <2>1, <3>1
  <2>6. CASE lease.phase = "kill" /\ live # {}
    <3>1. next = [rest EXCEPT !.step = "signal", !.queue = live]  BY <2>6 DEF AfterScan
    <3> QED  BY <3>1
  <2>7. CASE /\ lease.phase \notin {"opened", "term"}
             /\ ~(lease.phase \in {"check", "grace", "kill"} /\ live # {})
    <3>1. next = [rest EXCEPT !.step = "done"]  BY <2>7 DEF AfterScan
    <3> QED  BY <3>1
  <2> QED  BY <2>2, <2>3, <2>4, <2>5, <2>6, <2>7
<1>3. rest \in LeaseRecord /\ rest.members = members /\ rest.tag = lease.tag /\ rest.step = "list"
      BY DEF LeaseRecord
<1>4. lease.phase \in {"none", "opened", "term", "grace", "kill", "check"}  BY DEF LeaseRecord
<1> HIDE DEF live, rest
<1>5. ASSUME NEW phase \in {"term", "kill", lease.phase}, next = [rest EXCEPT !.phase = phase]
      PROVE  next \in LeaseRecord /\ next.members = members /\ next.tag = lease.tag /\ next.step = "list"
      BY <1>3, <1>4, <1>5 DEF LeaseRecord
<1>6. ASSUME next = [rest EXCEPT !.step = "signal", !.queue = live]
      PROVE  /\ next \in LeaseRecord /\ next.members = members /\ next.tag = lease.tag
             /\ next.step = "signal" /\ next.queue = live
      BY <1>1, <1>3, <1>6 DEF LeaseRecord
<1>7. ASSUME next = [rest EXCEPT !.step = "done"]
      PROVE  next \in LeaseRecord /\ next.members = members /\ next.tag = lease.tag /\ next.step = "done"
      BY <1>3, <1>7 DEF LeaseRecord
<1> QED  BY <1>1, <1>2, <1>5, <1>6, <1>7

LEMMA RefreshStep ==
  ASSUME ProcessInv, Refresh
  PROVE  ProcessInv' /\ Kept
<1>1. UNCHANGED << ticks, servers, strayed >> /\ lease \in LeaseRecord
      /\ proc \in [Pids -> ProcessRecord] /\ servers \in Nat /\ ticks \in [Pids -> Nat]
      BY DEF Refresh, ProcessInv, ProcessesTyped
<1>2. CASE OwnershipLost
  <2>1. lease' = [lease EXCEPT !.step = "failed"] /\ proc' = proc  BY <1>2 DEF Refresh
  <2>2. /\ lease' \in LeaseRecord /\ lease'.members = lease.members /\ lease'.tag = lease.tag
        /\ lease'.step = "failed"
        BY <1>1, <2>1 DEF LeaseRecord
  <2> QED  BY <1>1, <2>1, <2>2, LeaseGoesOn
<1>3. CASE ~OwnershipLost
  <2> DEFINE members == Retained \cup Group
             marked(p) == IF Present(p) /\ Identity(p) \in members
                          THEN [proc[p] EXCEPT !.held = TRUE] ELSE proc[p]
  <2>1. lease' \in AfterScan(members) /\ proc' = [p \in Pids |-> marked(p)]  BY <1>3 DEF Refresh
  <2>2. \A m \in members : KnownAs(m, lease.tag)  BY <1>3, ScanKnown
  <2>3. members \in SUBSET [pid : Pids, ticks : Nat]  BY <2>2 DEF KnownAs
  <2>4. \A p \in Pids : /\ marked(p) \in ProcessRecord /\ marked(p).state = proc[p].state
                        /\ marked(p).sess = proc[p].sess /\ marked(p).tag = proc[p].tag
    <3> TAKE p \in Pids
    <3>1. proc[p] \in ProcessRecord  BY <1>1
    <3>2. /\ [proc[p] EXCEPT !.held = TRUE] \in ProcessRecord
          /\ [proc[p] EXCEPT !.held = TRUE].state = proc[p].state
          /\ [proc[p] EXCEPT !.held = TRUE].sess = proc[p].sess
          /\ [proc[p] EXCEPT !.held = TRUE].tag = proc[p].tag
          BY <3>1 DEF ProcessRecord
    <3> QED  BY <3>1, <3>2
  <2> HIDE DEF members, marked
  <2>5. /\ lease' \in LeaseRecord /\ lease'.members = members /\ lease'.tag = lease.tag
        /\ lease'.step # "send" /\ (lease'.step = "signal" => lease'.queue \subseteq members)
        BY <1>1, <2>1, <2>3, AfterScanIs
  <2>6. proc' \in [Pids -> ProcessRecord]  BY <2>1, <2>4
  <2>7. Kept  BY <1>1, <2>1, <2>4 DEF Kept, Present
  <2>8. Sessions' /\ Onward  BY <2>7, KeptStays DEF ProcessInv
  <2>9. \A i, t : KnownAs(i, t) => KnownAs(i, t)'  BY <1>1, <2>8, KnownStays
  <2>10. MembersKnown'
    <3> SUFFICES ASSUME NEW m \in members PROVE KnownAs(m, lease.tag)'
        BY <2>5 DEF MembersKnown
    <3> QED  BY <2>2, <2>5, <2>9 DEF KnownAs, Is, Present
  <2>11. TargetsKnown'  BY <2>5 DEF TargetsKnown
  <2>12. ProcessesTyped'  BY <1>1, <2>5, <2>6 DEF ProcessesTyped
  <2> QED  BY <1>1, <2>7, <2>8, <2>10, <2>11, <2>12 DEF ProcessInv
<1> QED  BY <1>2, <1>3

LEMMA LeaseSteps ==
  ASSUME ProcessInv, LeaseStep
  PROVE  ProcessInv' /\ Kept
BY ListStep, RefreshStep, OpenStep, SendStep, EndSignalsStep DEF LeaseStep

-----------------------------------------------------------------------------
(* What the modules that hold a lease say of its session.                  *)

\* The live processes of a spawn that did not leave its session.
Mine(t) == { p \in Pids : Live(p) /\ proc[p].tag = t /\ ~proc[p].away }

Gone(t) == t \in raced \/ Mine(t) = {}

\* A scan lists every process that may still fork into its session.
ListedAll ==
  lease.step \in {"read", "look"} =>
    \A p \in Pids : Live(p) /\ proc[p].tag \notin raced \cup {0} /\ ~proc[p].away => p \in lease.listed

\* No process has the number of a later spawn, present or not.
TagsLow == \A p \in Pids : proc[p].tag <= servers

\* Nobody is queued but for a signal.
QueueTidy == lease.step \notin {"signal", "send"} => lease.queue = {}

-----------------------------------------------------------------------------
LEMMA Bounds == {MaxTicks, MaxForks, MaxServers, MaxDisturbances} \subseteq Nat
BY ProcessAssumption

LEMMA CreatedCounts ==
  ASSUME ticks \in [Pids -> Nat], NEW p \in Unused, NEW r, Created(p, r), \A q \in Pids : ticks[q] <= MaxTicks
  PROVE  (\A q \in Pids : ticks'[q] <= MaxTicks) /\ ticks[p] + 1 <= MaxTicks
<1>1. p \in Pids /\ ticks[p] < MaxTicks /\ ticks' = [ticks EXCEPT ![p] = @ + 1]  BY DEF Unused, Created
<1>2. MaxTicks \in Nat /\ ticks[p] \in Nat  BY <1>1, Bounds
<1>3. ticks[p] + 1 <= MaxTicks  BY <1>1, <1>2
<1> QED  BY <1>1, <1>3

LEMMA ProcessesAreOnward ==
  ASSUME ProcessInv, ProcessNext
  PROVE  ticks' \in [Pids -> Nat] /\ Onward /\ lease' = lease
<1>1. /\ proc \in [Pids -> ProcessRecord] /\ ticks \in [Pids -> Nat]
      BY DEF ProcessInv, ProcessesTyped
<1>2. ASSUME NEW p \in Pids, p \in Unused,
             proc' = [proc EXCEPT ![p] = proc'[p]], ticks' = [ticks EXCEPT ![p] = @ + 1]
      PROVE  ticks' \in [Pids -> Nat] /\ Onward
  <2>1. ticks' \in [Pids -> Nat]  BY <1>1, <1>2
  <2>2. \A q \in Pids : q # p => proc'[q] = proc[q] /\ ticks'[q] = ticks[q]  BY <1>1, <1>2
  <2>3. ticks'[p] > ticks[p]  BY <1>1, <1>2
  <2> QED  BY <2>1, <2>2, <2>3 DEF Onward, Present
<1>3. ASSUME NEW p \in Pids, ForeignStart(p) PROVE ticks' \in [Pids -> Nat] /\ Onward /\ lease' = lease
  <2>1. p \in Unused /\ ticks' = [ticks EXCEPT ![p] = @ + 1] /\ lease' = lease
        BY <1>3 DEF ForeignStart, Created
  <2>2. proc' = [proc EXCEPT ![p] = proc'[p]]  BY <1>1, <1>3 DEF ForeignStart, Created
  <2> QED  BY <1>2, <2>1, <2>2
<1>4. ASSUME NEW p \in Pids, NEW q \in Pids, Fork(q, p)
      PROVE  ticks' \in [Pids -> Nat] /\ Onward /\ lease' = lease
  <2>1. p \in Unused /\ ticks' = [ticks EXCEPT ![p] = @ + 1] /\ lease' = lease
        BY <1>4 DEF Fork, Created
  <2>2. proc' = [proc EXCEPT ![p] = proc'[p]]  BY <1>1, <1>4 DEF Fork, Created
  <2> QED  BY <1>2, <2>1, <2>2
<1>5. ASSUME NEW p \in Pids, Escape(p) PROVE ticks' \in [Pids -> Nat] /\ Onward /\ lease' = lease
  <2>1. /\ \A q \in Pids : q # p => proc'[q] = proc[q]
        /\ proc'[p].tag = proc[p].tag /\ Present(p) /\ ticks' = ticks /\ lease' = lease
        BY <1>1, <1>5 DEF Escape, Live, Present, ProcessRecord
  <2> QED  BY <1>1, <2>1 DEF Onward, Present
<1>6. ASSUME NEW p \in Pids, Die(p) PROVE ticks' \in [Pids -> Nat] /\ Onward /\ lease' = lease
  <2>1. /\ \A q \in Pids : q # p => proc'[q] = proc[q]
        /\ proc'[p] \in {NoProcess, [proc[p] EXCEPT !.state = "zombie"]}
        /\ Present(p) /\ ticks' = ticks /\ lease' = lease
        BY <1>1, <1>6 DEF Die, Live, Present
  <2>2. proc'[p] = NoProcess \/ proc'[p].tag = proc[p].tag  BY <1>1, <2>1 DEF ProcessRecord
  <2> QED  BY <1>1, <2>1, <2>2 DEF Onward, Present, NoProcess
<1> QED  BY <1>3, <1>4, <1>5, <1>6 DEF ProcessNext

\* A child that is not reaped stays under its number, whatever happens.
LEMMA ChildStaysHere ==
  ASSUME ProcessInv, NEW c \in Pids, NEW d \in Drivers, Present(c), proc[c].sess = c, proc[c].parent = d, ProcessNext
  PROVE  /\ Present(c)' /\ ticks'[c] = ticks[c]
         /\ proc'[c].sess = c /\ proc'[c].parent = d /\ proc'[c].tag = proc[c].tag
<1>1. /\ c \in Pids /\ Present(c) /\ proc[c].sess = c /\ proc[c].parent = d  OBVIOUS
<1>2. /\ proc \in [Pids -> ProcessRecord] /\ ticks \in [Pids -> Nat] /\ d # NULL
      BY ProcessAssumption DEF ProcessInv, ProcessesTyped
<1>3. proc'[c] = proc[c] \/ proc'[c] = [proc[c] EXCEPT !.state = "zombie"]
  <2>1. ASSUME NEW p \in Pids, Escape(p) PROVE proc'[c] = proc[c]
        BY <1>1, <1>2, <2>1 DEF Escape
  <2>2. ASSUME NEW p \in Pids, Die(p) PROVE proc'[c] = proc[c] \/ proc'[c] = [proc[c] EXCEPT !.state = "zombie"]
    <3>1. CASE p = c
      <4>1. proc'[c] = IF proc[c].parent # NULL THEN [proc[c] EXCEPT !.state = "zombie"] ELSE NoProcess
            BY <1>1, <1>2, <2>2, <3>1 DEF Die
      <4> QED  BY <1>1, <1>2, <4>1
    <3>2. CASE p # c  BY <1>1, <1>2, <2>2, <3>2 DEF Die
    <3> QED  BY <3>1, <3>2
  <2>3. ASSUME NEW p \in Pids, ForeignStart(p) PROVE proc'[c] = proc[c]
    <3>1. p # c  BY <1>1, <2>3 DEF ForeignStart, Unused
    <3> QED  BY <1>1, <1>2, <2>3, <3>1 DEF ForeignStart, Created
  <2>4. ASSUME NEW p \in Pids, NEW q \in Pids, Fork(q, p) PROVE proc'[c] = proc[c]
    <3>1. p # c  BY <1>1, <2>4 DEF Fork, Unused
    <3> QED  BY <1>1, <1>2, <2>4, <3>1 DEF Fork, Created
  <2> QED  BY <2>1, <2>2, <2>3, <2>4 DEF ProcessNext
<1>4. ticks'[c] = ticks[c]
  <2>1. ASSUME NEW p \in Pids, Escape(p) \/ Die(p) PROVE ticks'[c] = ticks[c]
        BY <2>1 DEF Escape, Die
  <2>2. ASSUME NEW p \in Pids, ForeignStart(p) PROVE ticks'[c] = ticks[c]
    <3>1. p # c  BY <1>1, <2>2 DEF ForeignStart, Unused
    <3> QED  BY <1>1, <1>2, <2>2, <3>1 DEF ForeignStart, Created
  <2>3. ASSUME NEW p \in Pids, NEW q \in Pids, Fork(q, p) PROVE ticks'[c] = ticks[c]
    <3>1. p # c  BY <1>1, <2>3 DEF Fork, Unused
    <3> QED  BY <1>1, <1>2, <2>3, <3>1 DEF Fork, Created
  <2> QED  BY <2>1, <2>2, <2>3 DEF ProcessNext
<1>5. /\ proc'[c].state # "none" /\ proc'[c].sess = c /\ proc'[c].parent = d /\ proc'[c].tag = proc[c].tag
  <2>1. proc[c] \in ProcessRecord /\ proc[c].state # "none"  BY <1>1, <1>2 DEF Present
  <2>2. CASE proc'[c] = proc[c]  BY <1>1, <2>1, <2>2
  <2>3. CASE proc'[c] = [proc[c] EXCEPT !.state = "zombie"]  BY <1>1, <2>1, <2>3 DEF ProcessRecord
  <2> QED  BY <1>3, <2>2, <2>3
<1> QED  BY <1>1, <1>4, <1>5 DEF Present

\* What a scan queues it queues to signal.
LEMMA AfterScanTidy ==
  ASSUME lease \in LeaseRecord, lease.queue = {}, NEW members \in SUBSET [pid : Pids, ticks : Nat],
         NEW next \in AfterScan(members)
  PROVE  next.step \notin {"signal", "send"} => next.queue = {}
<1> DEFINE live == LiveOf(members)
           rest == [lease EXCEPT !.members = members, !.listed = {}, !.step = "list"]
<1>1. rest \in LeaseRecord /\ rest.queue = {} /\ live \in SUBSET [pid : Pids, ticks : Nat]
      BY DEF LeaseRecord, LiveOf
<1>2. \/ \E phase \in {"term", "kill"} : next = [rest EXCEPT !.phase = phase]
      \/ next = rest
      \/ next = [rest EXCEPT !.step = "signal", !.queue = live]
      \/ next = [rest EXCEPT !.step = "done"]
  <2>1. CASE lease.phase = "opened"  BY <2>1 DEF AfterScan
  <2>2. CASE lease.phase = "check" /\ live # {}  BY <2>2 DEF AfterScan
  <2>3. CASE lease.phase = "term"  BY <2>3 DEF AfterScan
  <2>4. CASE lease.phase = "grace" /\ live # {}  BY <2>4 DEF AfterScan
  <2>5. CASE lease.phase = "kill" /\ live # {}  BY <2>5 DEF AfterScan
  <2>6. CASE /\ lease.phase \notin {"opened", "term"}
             /\ ~(lease.phase \in {"check", "grace", "kill"} /\ live # {})
        BY <2>6 DEF AfterScan
  <2> QED  BY <2>1, <2>2, <2>3, <2>4, <2>5, <2>6
<1> HIDE DEF rest, live
<1> QED  BY <1>1, <1>2 DEF LeaseRecord

LEMMA LeaseTidy ==
  ASSUME ProcessInv, QueueTidy, LeaseStep
  PROVE  QueueTidy'
<1>1. lease \in LeaseRecord  BY DEF ProcessInv, ProcessesTyped
<1>2. CASE ListProcesses
  <2>1. /\ lease.step = "list"
        /\ lease' = [lease EXCEPT !.step = "read", !.listed = { p \in Pids : Present(p) }]
        BY <1>2 DEF ListProcesses
  <2>2. lease'.queue = lease.queue  BY <1>1, <2>1 DEF LeaseRecord
  <2> QED  BY <2>1, <2>2 DEF QueueTidy
<1>3. CASE Refresh
  <2>1. lease.step = "read" /\ lease.queue = {}  BY <1>3 DEF Refresh, QueueTidy
  <2>2. CASE OwnershipLost
    <3>1. lease' = [lease EXCEPT !.step = "failed"]  BY <1>3, <2>2 DEF Refresh
    <3>2. lease'.queue = lease.queue  BY <1>1, <3>1 DEF LeaseRecord
    <3> QED  BY <2>1, <3>2 DEF QueueTidy
  <2>3. CASE ~OwnershipLost
    <3> DEFINE members == Retained \cup Group
    <3>1. lease' \in AfterScan(members)  BY <1>3, <2>3 DEF Refresh
    <3>2. members \in SUBSET [pid : Pids, ticks : Nat]
          BY <2>3, ScanKnown DEF KnownAs
    <3> HIDE DEF members
    <3> QED  BY <1>1, <2>1, <3>1, <3>2, AfterScanTidy DEF QueueTidy
  <2> QED  BY <2>2, <2>3
<1>4. CASE OpenPidfd
  <2>1. PICK m \in lease.queue :
          lease' = [lease EXCEPT !.queue = @ \ {m}, !.fd = IF Is(m) THEN m ELSE NULL,
                                 !.step = IF Is(m) THEN "send" ELSE "signal"]
        BY <1>4 DEF OpenPidfd
  <2>2. lease'.step \in {"send", "signal"}  BY <1>1, <2>1 DEF LeaseRecord
  <2> QED  BY <2>2 DEF QueueTidy
<1>5. CASE SendSignal
  <2>1. lease' = [lease EXCEPT !.step = "signal", !.fd = NULL]  BY <1>5 DEF SendSignal
  <2>2. lease'.step = "signal"  BY <1>1, <2>1 DEF LeaseRecord
  <2> QED  BY <2>2 DEF QueueTidy
<1>6. CASE EndSignals
  <2>1. /\ lease.queue = {}
        /\ \/ lease' = [lease EXCEPT !.step = "list", !.phase = IF @ = "term" THEN "grace" ELSE "kill"]
           \/ lease' = [lease EXCEPT !.step = "failed"]
        BY <1>6 DEF EndSignals
  <2>2. lease'.queue = lease.queue  BY <1>1, <2>1 DEF LeaseRecord
  <2> QED  BY <2>1, <2>2 DEF QueueTidy
<1> QED  BY <1>2, <1>3, <1>4, <1>5, <1>6 DEF LeaseStep

\* The types that the bounds give.
LEMMA ProcessTypes ==
  ASSUME ProcessInv, TagsLow, QueueTidy, strayed \in BOOLEAN, servers <= MaxServers,
         forks \in 0 .. MaxForks, disturbances \in 0 .. MaxDisturbances, raced \subseteq 1 .. MaxServers,
         \A p \in Pids : ticks[p] <= MaxTicks
  PROVE  ProcessTypeOK
<1>1. /\ proc \in [Pids -> ProcessRecord] /\ ticks \in [Pids -> Nat] /\ servers \in Nat
      /\ lease \in LeaseRecord /\ MaxServers \in Nat /\ MaxTicks \in Nat
      BY Bounds DEF ProcessInv, ProcessesTyped
<1>2. ticks \in [Pids -> 0 .. MaxTicks] /\ servers \in 0 .. MaxServers  BY <1>1
<1> DEFINE Proc == [state : {"none", "live", "zombie"}, sess : Pids \cup {NULL}, tag : 0 .. MaxServers,
                    killed : BOOLEAN, parent : Drivers \cup {NULL}, away : BOOLEAN, held : BOOLEAN]
<1>3. \A p \in Pids : proc[p] \in Proc
  <2> TAKE p \in Pids
  <2>1. proc[p] \in ProcessRecord /\ proc[p].tag <= servers  BY <1>1 DEF TagsLow
  <2>2. proc[p].tag \in 0 .. MaxServers  BY <1>1, <2>1 DEF ProcessRecord
  <2> QED  BY <2>1, <2>2 DEF ProcessRecord
<1>4. proc \in [Pids -> Proc]
  <2> HIDE DEF Proc
  <2> QED  BY <1>1, <1>3
<1>5. \A m \in lease.members : m \in [pid : Pids, ticks : Nat] /\ m.ticks \in 0 .. MaxTicks
  <2> TAKE m \in lease.members
  <2>1. m \in [pid : Pids, ticks : Nat] /\ m.ticks <= ticks[m.pid]
        BY DEF ProcessInv, MembersKnown, KnownAs
  <2>2. m.pid \in Pids /\ ticks[m.pid] \in 0 .. MaxTicks  BY <1>2, <2>1
  <2> QED  BY <1>1, <2>1, <2>2
<1>6. lease.members \subseteq Identities  BY <1>5 DEF Identities
<1>7. lease.queue \subseteq lease.members  BY DEF QueueTidy, ProcessInv, TargetsKnown
<1>8. /\ lease.step \in {"none", "list", "read", "signal", "send", "done", "failed", "scan", "look"}
      /\ lease.session \in Pids \cup {NULL} /\ lease.listed \subseteq Pids
      BY <1>1 DEF LeaseRecord
<1> QED  BY <1>2, <1>4, <1>6, <1>7, <1>8 DEF ProcessTypeOK

-----------------------------------------------------------------------------
(***************************************************************************)
(* Why a command leaves nothing behind unreported, for any number of       *)
(* commands.  What did not leave the session of a command is in the        *)
(* session of its leader; a scan lists all of it that may still fork; so a *)
(* scan that finds nobody alive in the session leaves nothing of the       *)
(* command, unless a worker was forked meanwhile.                          *)
(***************************************************************************)

CommandSpec == CommandInit /\ [][CommandNext]_cmdvars

CommandRecord ==
  [step : {"none", "identify", "leasing", "communicate", "check", "cleanup", "uncaptured"},
   pid : Pids \cup {NULL}, tag : Nat, end : {"none", "exit", "timeout", "os", "raise"},
   exit : {"none", "zero", "other"}]

Leasing == {"leasing", "communicate", "check", "cleanup"}

\* What a call holds at each of its steps.
CallFollows ==
  /\ cmd \in CommandRecord
  /\ cmd.step # "none" => cmd.pid \in Pids /\ cmd.tag = servers /\ servers # 0 /\ outcome = NULL
  /\ cmd.step \in {"none", "identify"} => lease = NoLease
  /\ cmd.step \in Leasing =>
       /\ lease.session = cmd.pid /\ lease.tag = cmd.tag
       /\ lease.step \in {"list", "read", "signal", "send", "done", "failed"}
       /\ lease.phase \in {"opened", "term", "grace", "kill", "check"}
  /\ cmd.step = "uncaptured" =>
       lease.session = cmd.pid /\ lease.step \in {"scan", "look"} /\ lease.members = {}
  /\ cmd.step = "cleanup" => cmd.end # "exit"

\* A child that nobody identified yet is not reaped.
ChildWaits ==
  cmd.step = "identify" =>
    Present(cmd.pid) /\ proc[cmd.pid].sess = cmd.pid /\ proc[cmd.pid].tag = cmd.tag
      /\ proc[cmd.pid].parent = Caller

\* Who did not leave the session of the command is in it.
CommandInSession ==
  cmd.step # "none" =>
    \A p \in Pids : Present(p) /\ proc[p].tag = cmd.tag /\ ~proc[p].away => proc[p].sess = cmd.pid

CleanedMeansGone == lease.step = "done" => Gone(cmd.tag)

\* What a result may claim.
OutcomeTold ==
  outcome # NULL =>
    /\ outcome.tag \in 1 .. servers
    /\ outcome.verified => Gone(outcome.tag)
    /\ outcome.succeeded => outcome.verified

AbsentInNoSession == \A p \in Pids : ~Present(p) => proc[p].sess = NULL

CommandCounters ==
  /\ forks \in 0 .. MaxForks /\ disturbances \in 0 .. MaxDisturbances /\ servers <= MaxServers
  /\ raced \subseteq 1 .. MaxServers /\ \A p \in Pids : ticks[p] <= MaxTicks

ProcessesTold == TagsLow /\ AbsentInNoSession /\ CommandCounters

CommandInv ==
  /\ ProcessInv /\ QueueTidy /\ ProcessesTold /\ CallFollows /\ ChildWaits /\ CommandInSession
  /\ ListedAll /\ CleanedMeansGone /\ OutcomeTold

-----------------------------------------------------------------------------
\* What most steps do to the processes: some end, none begins or moves.
Wanes ==
  \A p \in Pids : /\ ticks'[p] = ticks[p]
                  /\ \/ proc'[p] = NoProcess
                     \/ /\ proc'[p].sess = proc[p].sess /\ proc'[p].tag = proc[p].tag
                        /\ proc'[p].away = proc[p].away
                        /\ (Present(p)' <=> Present(p)) /\ (Live(p)' => Live(p))

LEMMA WanesLeaves ==
  ASSUME Wanes
  PROVE  /\ \A p \in Pids : Present(p)' => /\ Present(p) /\ (Live(p)' => Live(p))
                                           /\ proc'[p].sess = proc[p].sess /\ proc'[p].tag = proc[p].tag
                                           /\ proc'[p].away = proc[p].away
         /\ \A p \in Pids : Live(p)' => Present(p)'
         /\ raced' = raced => \A t : Gone(t) => Gone(t)'
<1>1. NoProcess.state = "none"  BY DEF NoProcess
<1>2. \A p \in Pids : Present(p)' => /\ Present(p) /\ (Live(p)' => Live(p))
                                     /\ proc'[p].sess = proc[p].sess /\ proc'[p].tag = proc[p].tag
                                     /\ proc'[p].away = proc[p].away
      BY <1>1 DEF Wanes, Present
<1>3. \A p \in Pids : Live(p)' => Present(p)'  BY DEF Live, Present
<1>4. ASSUME raced' = raced PROVE \A t : Gone(t) => Gone(t)'  BY <1>2, <1>3, <1>4 DEF Gone, Mine
<1> QED  BY <1>2, <1>3, <1>4

\* A step of a call in which nobody begins and nobody moves.
LEMMA CallGoesOn ==
  ASSUME CommandInv, ProcessInv', QueueTidy', Wanes, UNCHANGED << servers, raced, forks, disturbances >>,
         CallFollows', ChildWaits',
         cmd'.step # "none" => cmd.step # "none" /\ cmd'.pid = cmd.pid /\ cmd'.tag = cmd.tag,
         lease'.step \in {"read", "look"} =>
           \/ lease.step \in {"read", "look"} /\ lease'.listed = lease.listed
           \/ lease'.listed = { p \in Pids : Present(p) },
         lease'.step = "done" => Gone(cmd'.tag),
         \/ outcome' = outcome \/ outcome' = NULL
         \/ /\ cmd.step # "none" /\ outcome'.tag = cmd.tag
            /\ outcome'.verified => Gone(cmd.tag)
            /\ outcome'.succeeded => outcome'.verified
  PROVE  CommandInv'
<1>1. /\ \A p \in Pids : Present(p)' => /\ Present(p) /\ (Live(p)' => Live(p))
                                        /\ proc'[p].sess = proc[p].sess /\ proc'[p].tag = proc[p].tag
                                        /\ proc'[p].away = proc[p].away
      /\ \A p \in Pids : Live(p)' => Present(p)'
      /\ \A t : Gone(t) => Gone(t)'
      BY WanesLeaves
<1>2. servers \in Nat  BY DEF CommandInv, ProcessInv, ProcessesTyped
<1>3. ProcessesTold'
  <2>1. NoProcess.tag = 0 /\ NoProcess.sess = NULL  BY DEF NoProcess
  <2>2. TagsLow'
        BY <1>2, <2>1 DEF CommandInv, ProcessesTold, TagsLow, Wanes
  <2>3. AbsentInNoSession'  BY <2>1 DEF CommandInv, ProcessesTold, AbsentInNoSession, Wanes
  <2>4. CommandCounters'  BY DEF CommandInv, ProcessesTold, CommandCounters, Wanes
  <2> QED  BY <2>2, <2>3, <2>4 DEF ProcessesTold
<1>4. CommandInSession'  BY <1>1 DEF CommandInv, CommandInSession
<1>5. ListedAll'
  <2> SUFFICES ASSUME lease'.step \in {"read", "look"}, NEW p \in Pids, Live(p)',
                      proc'[p].tag \notin raced \cup {0}, ~proc'[p].away
               PROVE  p \in lease'.listed
      BY DEF ListedAll
  <2>1. Present(p) /\ Live(p) /\ proc[p].tag = proc'[p].tag /\ ~proc[p].away  BY <1>1
  <2> QED  BY <2>1 DEF CommandInv, ListedAll
<1>6. CleanedMeansGone'  BY <1>1 DEF CleanedMeansGone, Gone, Mine, Live
<1>7. OutcomeTold'
  <2>1. CASE outcome' = outcome
        BY <1>1, <2>1 DEF CommandInv, OutcomeTold, Gone, Mine, Live
  <2>2. CASE outcome' = NULL  BY <2>2 DEF OutcomeTold
  <2>3. CASE /\ cmd.step # "none" /\ outcome'.tag = cmd.tag
             /\ outcome'.verified => Gone(cmd.tag)
             /\ outcome'.succeeded => outcome'.verified
    <3>1. cmd.tag \in 1 .. servers  BY <1>2, <2>3 DEF CommandInv, CallFollows
    <3> QED  BY <1>1, <2>3, <3>1 DEF OutcomeTold, Gone, Mine, Live
  <2> QED  BY <2>1, <2>2, <2>3
<1> QED  BY <1>3, <1>4, <1>5, <1>6, <1>7 DEF CommandInv

-----------------------------------------------------------------------------
(* The lease of a call.                                                    *)

LEMMA AfterScanOfCall ==
  ASSUME lease \in LeaseRecord, NEW members \in SUBSET [pid : Pids, ticks : Nat],
         lease.phase \in {"opened", "term", "grace", "kill", "check"}, NEW next \in AfterScan(members)
  PROVE  /\ next.session = lease.session /\ next.tag = lease.tag
         /\ next.step \in {"list", "signal", "done"} /\ next.phase \in {"term", "grace", "kill", "check"}
         /\ next.step = "done" => LiveOf(members) = {}
<1> DEFINE live == LiveOf(members)
           rest == [lease EXCEPT !.members = members, !.listed = {}, !.step = "list"]
<1>1. live \in SUBSET [pid : Pids, ticks : Nat]  BY DEF LiveOf
<1>2. /\ rest \in LeaseRecord /\ rest.session = lease.session /\ rest.tag = lease.tag
      /\ rest.step = "list" /\ rest.phase = lease.phase
      BY DEF LeaseRecord
<1>3. \/ \E phase \in {"term", "kill"} : next = [rest EXCEPT !.phase = phase]
      \/ next = rest /\ lease.phase = "grace"
      \/ next = [rest EXCEPT !.step = "signal", !.queue = live] /\ lease.phase \in {"term", "kill"}
      \/ next = [rest EXCEPT !.step = "done"] /\ live = {} /\ lease.phase \in {"grace", "kill", "check"}
  <2>1. CASE lease.phase = "opened"  BY <2>1 DEF AfterScan
  <2>2. CASE lease.phase = "term"  BY <2>2 DEF AfterScan
  <2>3. CASE lease.phase = "grace" /\ live # {}  BY <2>3 DEF AfterScan
  <2>4. CASE lease.phase = "kill" /\ live # {}  BY <2>4 DEF AfterScan
  <2>5. CASE lease.phase = "check" /\ live # {}  BY <2>5 DEF AfterScan
  <2>6. CASE lease.phase \in {"grace", "kill", "check"} /\ live = {}  BY <2>6 DEF AfterScan
  <2> QED  BY <2>1, <2>2, <2>3, <2>4, <2>5, <2>6
<1> HIDE DEF rest
<1> QED  BY <1>1, <1>2, <1>3 DEF LeaseRecord

\* A step of the lease that leaves the processes' sessions alone.
LEMMA MarkedWanes ==
  ASSUME ticks' = ticks,
         \A p \in Pids : /\ proc'[p].state = proc[p].state /\ proc'[p].sess = proc[p].sess
                         /\ proc'[p].tag = proc[p].tag /\ proc'[p].away = proc[p].away
  PROVE  Wanes
BY DEF Wanes, Present, Live

\* A cleanup that finds nobody alive in the session has ended the command.
LEMMA ScanEndsCommand ==
  ASSUME CommandInv, cmd.step # "none", lease.step \in {"read", "look"},
         \A p \in lease.listed : ~(Live(p) /\ proc[p].sess = cmd.pid)
  PROVE  Gone(cmd.tag)
<1> SUFFICES ASSUME cmd.tag \notin raced, NEW p \in Mine(cmd.tag)
             PROVE  FALSE
    BY DEF Gone
<1>1. p \in Pids /\ Live(p) /\ Present(p) /\ proc[p].tag = cmd.tag /\ ~proc[p].away
      BY DEF Mine, Live, Present
<1>2. proc[p].sess = cmd.pid /\ cmd.tag # 0  BY <1>1 DEF CommandInv, CommandInSession, CallFollows
<1>3. p \in lease.listed  BY <1>1, <1>2 DEF CommandInv, ListedAll
<1> QED  BY <1>1, <1>2, <1>3

LEMMA LeaseOfCall ==
  ASSUME CommandInv, cmd.step \in Leasing, LeaseStep
  PROVE  /\ Wanes /\ UNCHANGED << servers, raced, forks, disturbances >>
         /\ lease'.session = lease.session /\ lease'.tag = lease.tag
         /\ lease'.step \in {"list", "read", "signal", "send", "done", "failed"}
         /\ lease'.phase \in {"opened", "term", "grace", "kill", "check"}
         /\ lease'.step = "read" => lease'.listed = { p \in Pids : Present(p) }
         /\ lease'.step = "done" => Gone(cmd.tag)
<1>1. /\ lease \in LeaseRecord /\ proc \in [Pids -> ProcessRecord]
      /\ lease.session = cmd.pid /\ lease.phase \in {"opened", "term", "grace", "kill", "check"}
      /\ cmd.step # "none"
      BY DEF CommandInv, ProcessInv, ProcessesTyped, CallFollows, Leasing
<1>2. CASE ListProcesses
  <2> DEFINE listed == { p \in Pids : Present(p) }
  <2>1. /\ UNCHANGED << proc, ticks, servers, raced, forks, disturbances >>
        /\ lease' = [lease EXCEPT !.step = "read", !.listed = listed]
        BY <1>2 DEF ListProcesses, osVars
  <2> HIDE DEF listed
  <2>2. /\ lease'.session = lease.session /\ lease'.tag = lease.tag /\ lease'.step = "read"
        /\ lease'.phase = lease.phase /\ lease'.listed = listed
        BY <1>1, <2>1 DEF LeaseRecord
  <2> QED  BY <1>1, <2>1, <2>2, MarkedWanes DEF listed
<1>3. CASE OpenPidfd
  <2>1. PICK m \in lease.queue :
          lease' = [lease EXCEPT !.queue = @ \ {m}, !.fd = IF Is(m) THEN m ELSE NULL,
                                 !.step = IF Is(m) THEN "send" ELSE "signal"]
        BY <1>3 DEF OpenPidfd
  <2>2. UNCHANGED << proc, ticks, servers, raced, forks, disturbances >>  BY <1>3 DEF OpenPidfd, osVars
  <2>3. /\ lease'.session = lease.session /\ lease'.tag = lease.tag
        /\ lease'.step \in {"signal", "send"} /\ lease'.phase = lease.phase
        BY <1>1, <2>1 DEF LeaseRecord
  <2> QED  BY <1>1, <2>2, <2>3, MarkedWanes
<1>4. CASE SendSignal
  <2> DEFINE signalled(p) == IF p \in Receivers
                             THEN [proc[p] EXCEPT !.killed = @ \/ lease.phase = "kill"] ELSE proc[p]
  <2>1. /\ UNCHANGED << ticks, servers, raced, forks, disturbances >>
        /\ proc' = [p \in Pids |-> signalled(p)]
        /\ lease' = [lease EXCEPT !.step = "signal", !.fd = NULL]
        BY <1>4 DEF SendSignal
  <2>2. \A p \in Pids : /\ signalled(p).state = proc[p].state /\ signalled(p).sess = proc[p].sess
                        /\ signalled(p).tag = proc[p].tag /\ signalled(p).away = proc[p].away
        BY <1>1 DEF ProcessRecord
  <2> HIDE DEF signalled
  <2>3. Wanes  BY <2>1, <2>2, MarkedWanes
  <2>4. /\ lease'.session = lease.session /\ lease'.tag = lease.tag
        /\ lease'.step = "signal" /\ lease'.phase = lease.phase
        BY <1>1, <2>1 DEF LeaseRecord
  <2> QED  BY <1>1, <2>1, <2>3, <2>4
<1>5. CASE EndSignals
  <2>1. PICK step \in {"list", "failed"}, phase \in {"grace", "kill", lease.phase} :
          lease' = [lease EXCEPT !.step = step, !.phase = phase]
    <3>1. CASE lease' = [lease EXCEPT !.step = "list", !.phase = IF @ = "term" THEN "grace" ELSE "kill"]
          BY <3>1
    <3>2. CASE lease' = [lease EXCEPT !.step = "failed"]
      <4>1. lease' = [lease EXCEPT !.step = "failed", !.phase = lease.phase]  BY <1>1, <3>2 DEF LeaseRecord
      <4> QED  BY <4>1
    <3> QED  BY <1>5, <3>1, <3>2 DEF EndSignals
  <2>2. UNCHANGED << proc, ticks, servers, raced, forks, disturbances >>  BY <1>5 DEF EndSignals, osVars
  <2>3. /\ lease'.session = lease.session /\ lease'.tag = lease.tag
        /\ lease'.step \in {"list", "failed"} /\ lease'.phase \in {"grace", "kill", lease.phase}
        BY <1>1, <2>1 DEF LeaseRecord
  <2> QED  BY <1>1, <2>2, <2>3, MarkedWanes
<1>6. CASE Refresh
  <2>1. UNCHANGED << ticks, servers, raced, forks, disturbances >> /\ lease.step = "read"
        BY <1>6 DEF Refresh
  <2>2. CASE OwnershipLost
    <3>1. lease' = [lease EXCEPT !.step = "failed"] /\ proc' = proc  BY <1>6, <2>2 DEF Refresh
    <3>2. /\ lease'.session = lease.session /\ lease'.tag = lease.tag
          /\ lease'.step = "failed" /\ lease'.phase = lease.phase
          BY <1>1, <3>1 DEF LeaseRecord
    <3> QED  BY <1>1, <2>1, <3>1, <3>2, MarkedWanes
  <2>3. CASE ~OwnershipLost
    <3> DEFINE members == Retained \cup Group
               marked(p) == IF Present(p) /\ Identity(p) \in members
                            THEN [proc[p] EXCEPT !.held = TRUE] ELSE proc[p]
    <3>1. lease' \in AfterScan(members) /\ proc' = [p \in Pids |-> marked(p)]
          BY <1>6, <2>3 DEF Refresh
    <3>2. members \in SUBSET [pid : Pids, ticks : Nat]
          BY <2>3, ScanKnown DEF KnownAs, CommandInv
    <3>3. \A p \in Pids : /\ marked(p).state = proc[p].state /\ marked(p).sess = proc[p].sess
                          /\ marked(p).tag = proc[p].tag /\ marked(p).away = proc[p].away
          BY <1>1 DEF ProcessRecord
    <3>4. \A p \in lease.listed : Live(p) /\ proc[p].sess = lease.session => Identity(p) \in LiveOf(members)
          BY DEF LiveOf, Group, Current, Live, Present, Identity
    <3> HIDE DEF members, marked
    <3>5. Wanes  BY <2>1, <3>1, <3>3, MarkedWanes
    <3>6. /\ lease'.session = lease.session /\ lease'.tag = lease.tag
          /\ lease'.step \in {"list", "signal", "done"} /\ lease'.phase \in {"term", "grace", "kill", "check"}
          /\ lease'.step = "done" => LiveOf(members) = {}
          BY <1>1, <3>1, <3>2, AfterScanOfCall
    <3>7. lease'.step = "done" => Gone(cmd.tag)
          BY <1>1, <2>1, <3>4, <3>6, ScanEndsCommand
    <3> QED  BY <2>1, <3>5, <3>6, <3>7
  <2> QED  BY <2>2, <2>3
<1> QED  BY <1>2, <1>3, <1>4, <1>5, <1>6 DEF LeaseStep

LEMMA CommandLeaseKeeps ==
  ASSUME CommandInv, CommandLease
  PROVE  CommandInv'
<1>1. cmd.step \in Leasing /\ LeaseStep /\ cmd' = cmd /\ outcome' = outcome
      BY DEF CommandLease, Leasing
<1>2. ProcessInv' /\ QueueTidy'  BY <1>1, LeaseSteps, LeaseTidy DEF CommandInv
<1>3. /\ Wanes /\ UNCHANGED << servers, raced, forks, disturbances >>
      /\ lease'.session = lease.session /\ lease'.tag = lease.tag
      /\ lease'.step \in {"list", "read", "signal", "send", "done", "failed"}
      /\ lease'.phase \in {"opened", "term", "grace", "kill", "check"}
      /\ lease'.step = "read" => lease'.listed = { p \in Pids : Present(p) }
      /\ lease'.step = "done" => Gone(cmd.tag)
      BY <1>1, LeaseOfCall
<1>4. CallFollows'  BY <1>1, <1>3 DEF CommandInv, CallFollows, Leasing
<1>5. ChildWaits'  BY <1>1 DEF ChildWaits, Leasing
<1> QED  BY <1>1, <1>2, <1>3, <1>4, <1>5, CallGoesOn

-----------------------------------------------------------------------------
(* The steps of a call.                                                    *)

LEMMA CommandGotoIs ==
  ASSUME cmd \in CommandRecord, NEW step \in {"leasing", "communicate"}, CommandGoto(step)
  PROVE  /\ cmd' \in CommandRecord /\ cmd'.step = step /\ cmd'.pid = cmd.pid /\ cmd'.tag = cmd.tag
         /\ cmd'.end = cmd.end
BY DEF CommandGoto, CommandRecord

LEMMA NoCommandIs == NoCommand \in CommandRecord /\ NoCommand.step = "none"
BY DEF NoCommand, CommandRecord

\* A step of a call that leaves the processes and the lease alone.
LEMMA ProcessesRest ==
  ASSUME ProcessInv, QueueTidy, UNCHANGED processVars
  PROVE  ProcessInv' /\ QueueTidy' /\ Wanes
<1>1. Kept /\ Wanes  BY DEF Kept, Wanes, Present, Live, processVars
<1>2. proc' \in [Pids -> ProcessRecord] /\ servers' \in Nat
      BY DEF ProcessInv, ProcessesTyped, processVars
<1>3. ProcessInv'  BY <1>1, <1>2, EndingStep DEF processVars
<1> QED  BY <1>1, <1>3 DEF QueueTidy, processVars

LEMMA ReapedWanes ==
  ASSUME proc \in [Pids -> ProcessRecord], NEW d, NEW p \in Pids, proc' = Reaped(d, p), ticks' = ticks
  PROVE  proc' \in [Pids -> ProcessRecord] /\ Kept /\ Wanes
<1>1. proc' \in [Pids -> ProcessRecord] /\ Kept  BY ReapedKeeps
<1>2. \A q \in Pids : proc'[q] \in {proc[q], NoProcess}  BY Endings
<1>3. Wanes  BY <1>2 DEF Wanes, Present, Live
<1> QED  BY <1>1, <1>3

LEMMA TakeLeaseKeeps ==
  ASSUME CommandInv, TakeLease
  PROVE  CommandInv'
<1> DEFINE i == Identity(cmd.pid)
<1>1. /\ cmd.step = "identify" /\ lease' = Opened(i, cmd.tag) /\ CommandGoto("leasing")
      /\ UNCHANGED << proc, ticks, servers, raced, forks, disturbances, strayed, outcome >>
      BY DEF TakeLease, Quiet
<1>2. /\ cmd \in CommandRecord /\ cmd.pid \in Pids /\ cmd.tag \in Nat /\ cmd.tag = servers /\ servers # 0
      /\ outcome = NULL /\ lease.step = "none"
      BY <1>1, NoLeaseIs DEF CommandInv, CallFollows, CommandRecord
<1>3. /\ proc \in [Pids -> ProcessRecord] /\ ticks \in [Pids -> Nat] /\ servers \in Nat /\ ~strayed
      BY DEF CommandInv, ProcessInv, ProcessesTyped
<1>4. i \in [pid : Pids, ticks : Nat] /\ i.pid = cmd.pid /\ i.ticks = ticks[cmd.pid]
      BY <1>2, <1>3 DEF Identity
<1>5. proc[cmd.pid].tag = cmd.tag  BY <1>1 DEF CommandInv, ChildWaits
<1> HIDE DEF i
<1>6. /\ lease' \in LeaseRecord /\ lease'.members = {i} /\ lease'.tag = cmd.tag
      /\ lease'.step = "list" /\ lease'.queue = {}
      BY <1>1, <1>2, <1>4, OpenedIs
<1>7. lease'.session = cmd.pid /\ lease'.phase = "opened"
      BY <1>1, <1>4 DEF Opened, NoLease
<1>8. ticks'[i.pid] = ticks[i.pid] /\ proc'[i.pid] = proc[i.pid] /\ ticks[i.pid] \in Nat
      BY <1>1, <1>2, <1>3, <1>4
<1>9. (MembersKnown /\ TargetsKnown)'
  <2>1. i.ticks <= ticks'[i.pid] /\ proc'[i.pid].tag = cmd.tag  BY <1>3, <1>4, <1>5, <1>8
  <2>2. \A m \in lease'.members : m = i  BY <1>6
  <2>3. MembersKnown'
        BY <1>4, <1>6, <2>1, <2>2 DEF MembersKnown, KnownAs
  <2>4. TargetsKnown'  BY <1>6 DEF TargetsKnown
  <2> QED  BY <2>3, <2>4
<1>10. Kept /\ Wanes  BY <1>1 DEF Kept, Wanes, Present, Live
<1>11. ProcessInv'  BY <1>1, <1>3, <1>6, <1>9, <1>10, EndingWithLease DEF CommandInv
<1>12. /\ cmd' \in CommandRecord /\ cmd'.step = "leasing" /\ cmd'.pid = cmd.pid /\ cmd'.tag = cmd.tag
       BY <1>1, <1>2, CommandGotoIs
<1>13. CallFollows' /\ ChildWaits' /\ QueueTidy'
       BY <1>1, <1>2, <1>6, <1>7, <1>12 DEF CallFollows, ChildWaits, QueueTidy, Leasing
<1> QED  BY <1>1, <1>2, <1>6, <1>10, <1>11, <1>12, <1>13, CallGoesOn

LEMMA LeasedKeeps ==
  ASSUME CommandInv, Leased
  PROVE  CommandInv'
<1>1. cmd.step = "leasing" /\ CommandGoto("communicate") /\ UNCHANGED << processVars, outcome >>
      BY DEF Leased
<1>2. ProcessInv' /\ QueueTidy' /\ Wanes  BY <1>1, ProcessesRest DEF CommandInv
<1>3. /\ cmd \in CommandRecord /\ cmd' \in CommandRecord /\ cmd'.step = "communicate"
      /\ cmd'.pid = cmd.pid /\ cmd'.tag = cmd.tag
      BY <1>1, CommandGotoIs DEF CommandInv, CallFollows
<1>4. CallFollows' /\ ChildWaits'
      BY <1>1, <1>3 DEF CommandInv, CallFollows, ChildWaits, Leasing, processVars
<1>5. lease'.step = "done" => Gone(cmd'.tag)
      BY <1>1, <1>3 DEF CommandInv, CleanedMeansGone, processVars
<1>6. UNCHANGED << servers, raced, forks, disturbances, lease, outcome >>  BY <1>1 DEF processVars
<1> QED  BY <1>1, <1>2, <1>3, <1>4, <1>5, <1>6, CallGoesOn

LEMMA BrokenKeeps ==
  ASSUME CommandInv, Broken
  PROVE  CommandInv'
<1>1. PICK end \in {"timeout", "os", "raise"} : cmd' = [cmd EXCEPT !.step = "cleanup", !.end = end]
      BY DEF Broken
<1>2. cmd.step = "communicate" /\ UNCHANGED << processVars, outcome >>  BY DEF Broken
<1>3. ProcessInv' /\ QueueTidy' /\ Wanes  BY <1>2, ProcessesRest DEF CommandInv
<1>4. cmd \in CommandRecord  BY DEF CommandInv, CallFollows
<1>5. /\ cmd' \in CommandRecord /\ cmd'.step = "cleanup" /\ cmd'.end = end
      /\ cmd'.pid = cmd.pid /\ cmd'.tag = cmd.tag
      BY <1>1, <1>4 DEF CommandRecord
<1>6. CallFollows' /\ ChildWaits'
      BY <1>2, <1>5 DEF CommandInv, CallFollows, ChildWaits, Leasing, processVars
<1>7. lease'.step = "done" => Gone(cmd'.tag)
      BY <1>2, <1>5 DEF CommandInv, CleanedMeansGone, processVars
<1>8. UNCHANGED << servers, raced, forks, disturbances, lease, outcome >>  BY <1>2 DEF processVars
<1> QED  BY <1>2, <1>3, <1>5, <1>6, <1>7, <1>8, CallGoesOn

LEMMA CompletedKeeps ==
  ASSUME CommandInv, Completed
  PROVE  CommandInv'
<1>1. PICK exit \in {"zero", "other"} : cmd' = [cmd EXCEPT !.step = "check", !.end = "exit", !.exit = exit]
      BY DEF Completed
<1>2. /\ cmd.step = "communicate" /\ proc' = Reaped(Caller, cmd.pid)
      /\ lease' = [lease EXCEPT !.phase = "check"]
      /\ UNCHANGED << ticks, servers, raced, forks, disturbances, strayed, outcome >>
      BY DEF Completed, Quiet
<1>3. /\ cmd \in CommandRecord /\ cmd.pid \in Pids /\ lease \in LeaseRecord /\ servers \in Nat
      /\ proc \in [Pids -> ProcessRecord] /\ ticks \in [Pids -> Nat] /\ ~strayed
      BY <1>2 DEF CommandInv, CallFollows, ProcessInv, ProcessesTyped
<1>4. /\ cmd' \in CommandRecord /\ cmd'.step = "check" /\ cmd'.pid = cmd.pid /\ cmd'.tag = cmd.tag
      BY <1>1, <1>3 DEF CommandRecord
<1>5. /\ lease' \in LeaseRecord /\ lease'.step = lease.step /\ lease'.session = lease.session
      /\ lease'.tag = lease.tag /\ lease'.members = lease.members /\ lease'.listed = lease.listed
      /\ lease'.queue = lease.queue /\ lease'.fd = lease.fd /\ lease'.phase = "check"
      BY <1>2, <1>3 DEF LeaseRecord
<1>6. proc' \in [Pids -> ProcessRecord] /\ Kept /\ Wanes  BY <1>2, <1>3, ReapedWanes
<1>7. Sessions' /\ Onward  BY <1>6, KeptStays DEF CommandInv, ProcessInv
<1>8. \A m, t : KnownAs(m, t) => KnownAs(m, t)'  BY <1>2, <1>3, <1>7, KnownStays
<1>9. MembersKnown'
  <2> SUFFICES ASSUME NEW m \in lease.members PROVE KnownAs(m, lease.tag)'
      BY <1>5 DEF MembersKnown
  <2>1. KnownAs(m, lease.tag)  BY DEF CommandInv, ProcessInv, MembersKnown
  <2> QED  BY <1>5, <1>8, <2>1 DEF KnownAs, Is, Present
<1>10. TargetsKnown'
  <2>1. ASSUME lease'.step = "send" PROVE KnownAs(lease.fd, lease.tag)'
    <3>1. KnownAs(lease.fd, lease.tag)  BY <1>5, <2>1 DEF CommandInv, ProcessInv, TargetsKnown
    <3> QED  BY <1>5, <1>8, <3>1 DEF KnownAs, Is, Present
  <2> QED  BY <1>5, <2>1 DEF CommandInv, ProcessInv, TargetsKnown
<1>11. ProcessInv'
       BY <1>2, <1>3, <1>5, <1>6, <1>9, <1>10, EndingWithLease DEF CommandInv
<1>12. CallFollows' /\ ChildWaits' /\ QueueTidy'
       BY <1>2, <1>4, <1>5 DEF CommandInv, CallFollows, ChildWaits, QueueTidy, Leasing
<1>13. lease'.step = "done" => Gone(cmd'.tag)
       BY <1>4, <1>5 DEF CommandInv, CleanedMeansGone
<1> QED  BY <1>2, <1>4, <1>5, <1>6, <1>11, <1>12, <1>13, CallGoesOn

\* A call that returns holds nothing, and claims what is so.
LEMMA ReturnKeeps ==
  ASSUME CommandInv, cmd.step # "none", NEW error, NEW verified \in BOOLEAN, Returns(error, verified),
         proc' \in [Pids -> ProcessRecord], Kept, Wanes, UNCHANGED Quiet,
         verified => Gone(cmd.tag), cmd.end = "exit" /\ error = "none" => verified
  PROVE  CommandInv'
<1>1. /\ outcome' = [tag |-> cmd.tag, error |-> error, verified |-> verified,
                     succeeded |-> cmd.end = "exit" /\ cmd.exit = "zero" /\ error = "none"]
      /\ cmd' = NoCommand /\ lease' = NoLease
      BY DEF Returns
<1>2. /\ outcome'.tag = cmd.tag /\ outcome'.verified = verified
      /\ outcome'.succeeded => outcome'.verified
      BY <1>1
<1>3. UNCHANGED << ticks, servers, raced, forks, disturbances, strayed >>  BY DEF Quiet
<1>4. servers \in Nat /\ ~strayed  BY DEF CommandInv, ProcessInv, ProcessesTyped
<1>5. /\ lease' \in LeaseRecord /\ lease'.members = {} /\ lease'.step = "none" /\ lease'.queue = {}
      BY <1>1, NoLeaseIs DEF NoLease
<1>6. (MembersKnown /\ TargetsKnown)'  BY <1>5, NobodyKnown
<1>7. ProcessInv'  BY <1>3, <1>4, <1>5, <1>6, EndingWithLease DEF CommandInv
<1>8. cmd'.step = "none" /\ cmd' \in CommandRecord  BY <1>1, NoCommandIs
<1>9. CallFollows' /\ ChildWaits' /\ QueueTidy'
      BY <1>1, <1>5, <1>8 DEF CallFollows, ChildWaits, QueueTidy, Leasing
<1> QED  BY <1>2, <1>3, <1>5, <1>7, <1>8, <1>9, CallGoesOn

LEMMA CheckedKeeps ==
  ASSUME CommandInv, Checked
  PROVE  CommandInv'
<1>1. /\ cmd.step = "check" /\ cmd.step # "none" /\ lease.step \in {"done", "failed"}
      /\ proc' = proc /\ UNCHANGED Quiet
      BY DEF Checked
<1>2. proc' \in [Pids -> ProcessRecord]  BY <1>1 DEF CommandInv, ProcessInv, ProcessesTyped
<1>3. Kept /\ Wanes  BY <1>1 DEF Kept, Wanes, Present, Live, Quiet
<1>4. CASE lease.step = "failed"
  <2>1. Returns("descendants", FALSE)  BY <1>4 DEF Checked
  <2> QED  BY <1>1, <1>2, <1>3, <2>1, ReturnKeeps
<1>5. CASE lease.step = "done"
  <2> DEFINE error == IF lease.phase = "check" THEN "none" ELSE "descendants"
  <2>1. Returns(error, TRUE)  BY <1>5 DEF Checked
  <2>2. Gone(cmd.tag)  BY <1>5 DEF CommandInv, CleanedMeansGone
  <2> HIDE DEF error
  <2> QED  BY <1>1, <1>2, <1>3, <2>1, <2>2, ReturnKeeps
<1> QED  BY <1>1, <1>4, <1>5

LEMMA CleanedUpKeeps ==
  ASSUME CommandInv, CleanedUp
  PROVE  CommandInv'
<1>1. /\ cmd.step = "cleanup" /\ cmd.step # "none" /\ lease.step \in {"done", "failed"}
      /\ proc' = Reaped(Caller, cmd.pid) /\ UNCHANGED Quiet
      BY DEF CleanedUp
<1>2. /\ cmd.pid \in Pids /\ proc \in [Pids -> ProcessRecord] /\ cmd.end # "exit"
      BY <1>1 DEF CommandInv, CallFollows, ProcessInv, ProcessesTyped
<1>3. proc' \in [Pids -> ProcessRecord] /\ Kept /\ Wanes  BY <1>1, <1>2, ReapedWanes DEF Quiet
<1>4. lease.step = "done" => Gone(cmd.tag)  BY DEF CommandInv, CleanedMeansGone
<1>5. CASE cmd.end = "timeout" /\ lease.step = "done" /\ \E error \in {"none", "pipes"} : Returns(error, TRUE)
  <2>1. PICK error \in {"none", "pipes"} : Returns(error, TRUE)  BY <1>5
  <2> QED  BY <1>1, <1>2, <1>3, <1>4, <1>5, <2>1, ReturnKeeps
<1>6. CASE cmd.end = "timeout" /\ lease.step = "failed" /\ Returns("cleanup", FALSE)
      BY <1>1, <1>2, <1>3, <1>6, ReturnKeeps
<1>7. CASE cmd.end # "timeout" /\ Returns(cmd.end, lease.step = "done")
  <2>1. (lease.step = "done") \in BOOLEAN  OBVIOUS
  <2> QED  BY <1>1, <1>2, <1>3, <1>4, <1>7, <2>1, ReturnKeeps
<1> QED  BY <1>5, <1>6, <1>7 DEF CleanedUp

\* The initial group of a command is of its session, and so is nobody else's.
LEMMA KillGroupKeeps ==
  ASSUME CommandInv, KillGroup
  PROVE  CommandInv'
<1>1. PICK group \in SUBSET { p \in Pids : proc[p].sess = cmd.pid } :
        /\ proc' = [p \in Pids |-> IF p \in group /\ Live(p) THEN [proc[p] EXCEPT !.killed = TRUE]
                                   ELSE proc[p]]
        /\ strayed' = (strayed \/ \E p \in group : proc[p].tag # cmd.tag)
      BY DEF KillGroup
<1>2. /\ cmd.step = "identify" /\ lease' = [NoLease EXCEPT !.step = "scan", !.session = cmd.pid]
      /\ cmd' = [cmd EXCEPT !.step = "uncaptured", !.end = "raise"]
      /\ UNCHANGED << ticks, servers, raced, forks, disturbances, outcome >>
      BY DEF KillGroup
<1>3. /\ cmd \in CommandRecord /\ cmd.pid \in Pids /\ servers \in Nat /\ ~strayed
      /\ proc \in [Pids -> ProcessRecord] /\ cmd.tag = servers /\ servers # 0 /\ outcome = NULL
      BY <1>2 DEF CommandInv, CallFollows, ProcessInv, ProcessesTyped
<1>4. /\ cmd' \in CommandRecord /\ cmd'.step = "uncaptured" /\ cmd'.pid = cmd.pid /\ cmd'.tag = cmd.tag
      BY <1>2, <1>3 DEF CommandRecord
<1>5. /\ lease' \in LeaseRecord /\ lease'.members = {} /\ lease'.step = "scan"
      /\ lease'.queue = {} /\ lease'.session = cmd.pid
      BY <1>2, <1>3, NoLeaseIs DEF NoLease
<1>6. ~strayed'
  <2>1. ASSUME NEW p \in group PROVE proc[p].tag = cmd.tag
    <3>1. p \in Pids /\ proc[p].sess = cmd.pid /\ cmd.pid # NULL
          BY <1>3, ProcessAssumption
    <3>2. Present(p)  BY <3>1 DEF CommandInv, ProcessesTold, AbsentInNoSession
    <3>3. /\ Present(cmd.pid) /\ proc[cmd.pid].sess = cmd.pid /\ proc[cmd.pid].tag = cmd.tag
          BY <1>2 DEF CommandInv, ChildWaits
    <3> QED  BY <1>3, <3>1, <3>2, <3>3 DEF CommandInv, ProcessInv, Sessions, SessionsHaveOneTag
  <2> QED  BY <1>1, <1>3, <2>1
<1> DEFINE marked(p) == IF p \in group /\ Live(p) THEN [proc[p] EXCEPT !.killed = TRUE] ELSE proc[p]
<1>7. \A p \in Pids : /\ marked(p) \in ProcessRecord
                      /\ marked(p).state = proc[p].state /\ marked(p).sess = proc[p].sess
                      /\ marked(p).tag = proc[p].tag /\ marked(p).away = proc[p].away
  <2> TAKE p \in Pids
  <2>1. proc[p] \in ProcessRecord  BY <1>3
  <2>2. /\ [proc[p] EXCEPT !.killed = TRUE] \in ProcessRecord
        /\ [proc[p] EXCEPT !.killed = TRUE].state = proc[p].state
        /\ [proc[p] EXCEPT !.killed = TRUE].sess = proc[p].sess
        /\ [proc[p] EXCEPT !.killed = TRUE].tag = proc[p].tag
        /\ [proc[p] EXCEPT !.killed = TRUE].away = proc[p].away
        BY <2>1 DEF ProcessRecord
  <2> QED  BY <2>1, <2>2
<1>8. proc' = [p \in Pids |-> marked(p)]  BY <1>1
<1> HIDE DEF marked
<1>9. proc' \in [Pids -> ProcessRecord]  BY <1>7, <1>8
<1>10. \A p \in Pids : /\ proc'[p].state = proc[p].state /\ proc'[p].sess = proc[p].sess
                       /\ proc'[p].tag = proc[p].tag /\ proc'[p].away = proc[p].away
       BY <1>7, <1>8
<1>11. Kept /\ Wanes  BY <1>2, <1>10, MarkedWanes DEF Kept, Present
<1>12. (MembersKnown /\ TargetsKnown)'  BY <1>5, NobodyKnown
<1>13. ProcessInv'
       BY <1>2, <1>3, <1>5, <1>6, <1>9, <1>11, <1>12, EndingWithLease DEF CommandInv
<1>14. CallFollows' /\ ChildWaits' /\ QueueTidy'
       BY <1>2, <1>3, <1>4, <1>5 DEF CallFollows, ChildWaits, QueueTidy, Leasing
<1> QED  BY <1>2, <1>4, <1>5, <1>11, <1>13, <1>14, CallGoesOn

LEMMA ScanUncapturedKeeps ==
  ASSUME CommandInv, ScanUncaptured
  PROVE  CommandInv'
<1> DEFINE listed == { p \in Pids : Present(p) }
<1>1. /\ cmd.step = "uncaptured" /\ lease.step = "scan" /\ proc' = Reaped(Caller, cmd.pid)
      /\ lease' = [lease EXCEPT !.step = "look", !.listed = listed]
      /\ UNCHANGED << ticks, servers, raced, forks, disturbances, strayed, cmd, outcome >>
      BY DEF ScanUncaptured, Quiet
<1>2. /\ cmd.pid \in Pids /\ lease \in LeaseRecord /\ servers \in Nat /\ ~strayed
      /\ proc \in [Pids -> ProcessRecord] /\ lease.members = {} /\ lease.queue = {}
      BY <1>1 DEF CommandInv, CallFollows, ProcessInv, ProcessesTyped, QueueTidy
<1>3. listed \in SUBSET Pids  OBVIOUS
<1> HIDE DEF listed
<1>4. /\ lease' \in LeaseRecord /\ lease'.step = "look" /\ lease'.members = {} /\ lease'.queue = {}
      /\ lease'.session = lease.session /\ lease'.listed = listed
      BY <1>1, <1>2, <1>3 DEF LeaseRecord
<1>5. proc' \in [Pids -> ProcessRecord] /\ Kept /\ Wanes  BY <1>1, <1>2, ReapedWanes
<1>6. (MembersKnown /\ TargetsKnown)'  BY <1>4, NobodyKnown
<1>7. ProcessInv'  BY <1>1, <1>2, <1>4, <1>5, <1>6, EndingWithLease DEF CommandInv
<1>8. CallFollows' /\ ChildWaits' /\ QueueTidy'
      BY <1>1, <1>4 DEF CommandInv, CallFollows, ChildWaits, QueueTidy, Leasing
<1> QED  BY <1>1, <1>4, <1>5, <1>7, <1>8, CallGoesOn DEF listed

LEMMA UncapturedKeeps ==
  ASSUME CommandInv, Uncaptured
  PROVE  CommandInv'
<1>1. cmd.step = "uncaptured" /\ cmd.step # "none" /\ proc' = proc /\ UNCHANGED Quiet
      BY DEF Uncaptured
<1>2. /\ proc' \in [Pids -> ProcessRecord] /\ lease \in LeaseRecord /\ servers \in Nat /\ ~strayed
      /\ lease.session = cmd.pid /\ lease.members = {} /\ lease.step \in {"scan", "look"} /\ lease.queue = {}
      BY <1>1 DEF CommandInv, CallFollows, ProcessInv, ProcessesTyped, QueueTidy
<1>3. Kept /\ Wanes  BY <1>1 DEF Kept, Wanes, Present, Live, Quiet
<1>4. CASE lease.step = "look" /\ LiveMembers(lease.session, lease.listed) = {} /\ Returns("raise", TRUE)
  <2>1. \A p \in lease.listed : ~(Live(p) /\ proc[p].sess = cmd.pid)  BY <1>2, <1>4 DEF LiveMembers
  <2>2. Gone(cmd.tag)  BY <1>1, <1>4, <2>1, ScanEndsCommand
  <2> QED  BY <1>1, <1>2, <1>3, <1>4, <2>2, ReturnKeeps
<1>5. CASE Returns("raise", FALSE)  BY <1>1, <1>2, <1>3, <1>5, ReturnKeeps
<1>6. CASE /\ lease.step = "look" /\ lease' = [lease EXCEPT !.step = "scan", !.listed = {}]
           /\ UNCHANGED << cmd, outcome >>
  <2>1. /\ lease' \in LeaseRecord /\ lease'.step = "scan" /\ lease'.members = {} /\ lease'.queue = {}
        /\ lease'.session = lease.session
        BY <1>2, <1>6 DEF LeaseRecord
  <2>2. (MembersKnown /\ TargetsKnown)'  BY <2>1, NobodyKnown
  <2>3. UNCHANGED << ticks, servers, raced, forks, disturbances, strayed >>  BY <1>1 DEF Quiet
  <2>4. ProcessInv'  BY <1>2, <1>3, <2>1, <2>2, <2>3, EndingWithLease DEF CommandInv
  <2>5. CallFollows' /\ ChildWaits' /\ QueueTidy'
        BY <1>1, <1>6, <2>1, <2>3 DEF CommandInv, CallFollows, ChildWaits, QueueTidy, Leasing
  <2> QED  BY <1>1, <1>3, <1>6, <2>1, <2>3, <2>4, <2>5, CallGoesOn
<1> QED  BY <1>4, <1>5, <1>6 DEF Uncaptured

-----------------------------------------------------------------------------
(* The processes go on while a call is under way, or none is.              *)

LEMMA CallStays ==
  ASSUME CommandInv, ProcessNext, UNCHANGED << cmd, outcome >>
  PROVE  /\ ProcessInv' /\ QueueTidy' /\ CallFollows' /\ ChildWaits'
         /\ servers' = servers /\ lease' = lease
<1>1. ProcessInv' /\ lease' = lease  BY ProcessesStep, ProcessesAreOnward DEF CommandInv
<1>2. servers' = servers  BY DEF ProcessNext, Escape, Die, ForeignStart, Fork
<1>3. QueueTidy' /\ CallFollows'  BY <1>1, <1>2 DEF CommandInv, QueueTidy, CallFollows, Leasing
<1>4. ASSUME cmd.step = "identify"
      PROVE  /\ Present(cmd.pid)' /\ proc'[cmd.pid].sess = cmd.pid /\ proc'[cmd.pid].tag = cmd.tag
             /\ proc'[cmd.pid].parent = Caller
  <2>1. /\ cmd.pid \in Pids /\ Present(cmd.pid) /\ proc[cmd.pid].sess = cmd.pid
        /\ proc[cmd.pid].tag = cmd.tag /\ proc[cmd.pid].parent = Caller
        BY <1>4 DEF CommandInv, CallFollows, ChildWaits
  <2> QED  BY <2>1, ChildStaysHere, CallerAssumption DEF CommandInv, Present
<1>5. ChildWaits'  BY <1>4 DEF ChildWaits, Present
<1> QED  BY <1>1, <1>2, <1>3, <1>5

LEMMA DieKeeps ==
  ASSUME CommandInv, NEW p \in Pids, Die(p), UNCHANGED << cmd, outcome >>
  PROVE  CommandInv'
<1>1. ProcessNext  BY DEF ProcessNext
<1>2. /\ Live(p) /\ UNCHANGED << ticks, servers, raced, forks, disturbances, lease >>
      /\ proc' = [proc EXCEPT ![p] = IF @.parent # NULL THEN [@ EXCEPT !.state = "zombie"] ELSE NoProcess]
      BY DEF Die
<1>3. proc \in [Pids -> ProcessRecord]  BY DEF CommandInv, ProcessInv, ProcessesTyped
<1>4. /\ \A q \in Pids : q # p => proc'[q] = proc[q]
      /\ proc'[p] \in {NoProcess, [proc[p] EXCEPT !.state = "zombie"]}
      BY <1>2, <1>3
<1>5. Wanes
  <2>1. \/ proc'[p] = NoProcess
        \/ /\ proc'[p].state = "zombie" /\ proc'[p].sess = proc[p].sess /\ proc'[p].tag = proc[p].tag
           /\ proc'[p].away = proc[p].away
        BY <1>3, <1>4 DEF ProcessRecord
  <2> QED  BY <1>2, <1>4, <2>1 DEF Wanes, Present, Live
<1>6. ProcessInv' /\ QueueTidy' /\ CallFollows' /\ ChildWaits'  BY <1>1, CallStays
<1>7. lease'.step = "done" => Gone(cmd'.tag)  BY <1>2 DEF CommandInv, CleanedMeansGone
<1> QED  BY <1>2, <1>5, <1>6, <1>7, CallGoesOn

\* Who leaves the session is no longer of the command.
LEMMA EscapeKeeps ==
  ASSUME CommandInv, NEW p \in Pids, Escape(p), UNCHANGED << cmd, outcome >>
  PROVE  CommandInv'
<1>1. ProcessNext  BY DEF ProcessNext
<1>2. /\ Live(p) /\ disturbances < MaxDisturbances /\ disturbances' = disturbances + 1
      /\ proc' = [proc EXCEPT ![p].sess = p, ![p].away = TRUE]
      /\ UNCHANGED << ticks, servers, raced, forks, lease >>
      BY DEF Escape
<1>3. ProcessInv' /\ QueueTidy' /\ CallFollows' /\ ChildWaits'  BY <1>1, CallStays
<1>4. proc \in [Pids -> ProcessRecord]  BY DEF CommandInv, ProcessInv, ProcessesTyped
<1>5. /\ \A q \in Pids : q # p => proc'[q] = proc[q]
      /\ proc'[p].state = proc[p].state /\ proc'[p].tag = proc[p].tag /\ proc'[p].away = TRUE
      BY <1>2, <1>4 DEF ProcessRecord
<1>6. \A q \in Pids : Present(q)' <=> Present(q)  BY <1>5 DEF Present
<1>7. \A q \in Pids : ~proc'[q].away => proc'[q] = proc[q]  BY <1>5
<1>8. ProcessesTold'
  <2>1. TagsLow'  BY <1>2, <1>5 DEF CommandInv, ProcessesTold, TagsLow
  <2>2. AbsentInNoSession'
        BY <1>2, <1>5, <1>6 DEF CommandInv, ProcessesTold, AbsentInNoSession, Live, Present
  <2>3. CommandCounters'  BY <1>2, Bounds DEF CommandInv, ProcessesTold, CommandCounters
  <2> QED  BY <2>1, <2>2, <2>3 DEF ProcessesTold
<1>9. CommandInSession'  BY <1>6, <1>7 DEF CommandInv, CommandInSession
<1>10. ListedAll'  BY <1>2, <1>7 DEF CommandInv, ListedAll, Live
<1>11. \A t : Gone(t) => Gone(t)'  BY <1>2, <1>7 DEF Gone, Mine, Live
<1>12. CleanedMeansGone'
  <2>1. cmd' = cmd /\ (lease.step = "done" => Gone(cmd.tag))  BY DEF CommandInv, CleanedMeansGone
  <2>2. ASSUME lease.step = "done"
        PROVE  cmd.tag \in raced' \/ \A q \in Pids : ~(Live(q)' /\ proc'[q].tag = cmd.tag /\ ~proc'[q].away)
    <3>1. Gone(cmd.tag)  BY <2>1, <2>2
    <3> QED  BY <1>2, <1>7, <3>1 DEF Gone, Mine, Live
  <2> QED  BY <1>2, <2>1, <2>2 DEF CleanedMeansGone, Gone, Mine, Live
<1>13. OutcomeTold'  BY <1>2, <1>11 DEF CommandInv, OutcomeTold, Gone, Mine, Live
<1> QED  BY <1>3, <1>8, <1>9, <1>10, <1>12, <1>13 DEF CommandInv

\* A process begins, of nobody or of the spawn of one that is there.
LEMMA BeginningTold ==
  ASSUME ProcessInv, TagsLow, AbsentInNoSession, NEW p \in Unused, NEW r \in ProcessRecord, Created(p, r),
         r.state = "live", r.tag <= servers'
  PROVE  /\ \A q \in Pids : q # p => proc'[q] = proc[q]
         /\ p \in Pids /\ proc'[p] = r /\ Present(p)'
         /\ servers' \in Nat /\ servers' >= servers => TagsLow'
         /\ AbsentInNoSession'
<1>1. /\ proc \in [Pids -> ProcessRecord] /\ servers \in Nat /\ p \in Pids
      /\ proc' = [proc EXCEPT ![p] = r]
      BY DEF ProcessInv, ProcessesTyped, Unused, Created
<1>2. (\A q \in Pids : q # p => proc'[q] = proc[q]) /\ proc'[p] = r  BY <1>1
<1>3. Present(p)'  BY <1>2 DEF Present
<1>4. ASSUME servers' \in Nat, servers' >= servers PROVE TagsLow'
  <2> SUFFICES ASSUME NEW q \in Pids PROVE proc'[q].tag <= servers'
      BY DEF TagsLow
  <2>1. CASE q = p  BY <1>2, <2>1
  <2>2. CASE q # p
    <3>1. proc'[q] = proc[q] /\ proc[q].tag \in Nat /\ proc[q].tag <= servers
          BY <1>1, <1>2, <2>2 DEF TagsLow, ProcessRecord
    <3> QED  BY <1>1, <1>4, <3>1
  <2> QED  BY <2>1, <2>2
<1>5. AbsentInNoSession'  BY <1>2, <1>3 DEF AbsentInNoSession, Present
<1> QED  BY <1>1, <1>2, <1>3, <1>4, <1>5

LEMMA ForkKeeps ==
  ASSUME CommandInv, NEW p \in Pids, NEW q \in Pids, Fork(q, p), UNCHANGED << cmd, outcome >>
  PROVE  CommandInv'
<1> DEFINE r == [NoProcess EXCEPT !.state = "live", !.sess = proc[q].sess, !.tag = proc[q].tag,
                                  !.away = proc[q].away]
<1>1. ProcessNext  BY DEF ProcessNext
<1>2. /\ p \in Unused /\ Created(p, r) /\ Live(q) /\ proc[q].tag # 0
      /\ forks < MaxForks /\ forks' = forks + 1
      /\ raced' = IF lease.step \in {"read", "look"} THEN raced \cup {proc[q].tag} ELSE raced
      /\ UNCHANGED << servers, disturbances, lease >>
      BY DEF Fork
<1>3. ProcessInv' /\ QueueTidy' /\ CallFollows' /\ ChildWaits'  BY <1>1, CallStays
<1>4. /\ proc[q] \in ProcessRecord /\ servers \in Nat /\ ticks \in [Pids -> Nat]
      /\ proc[q].tag <= servers
      BY DEF CommandInv, ProcessInv, ProcessesTyped, ProcessesTold, TagsLow
<1>5. /\ r \in ProcessRecord /\ r.state = "live" /\ r.sess = proc[q].sess /\ r.tag = proc[q].tag
      /\ r.away = proc[q].away
      BY <1>4 DEF NoProcess, ProcessRecord
<1>6. Present(q)  BY <1>2 DEF Live, Present
<1> HIDE DEF r
<1>7. /\ \A s \in Pids : s # p => proc'[s] = proc[s]
      /\ proc'[p] = r /\ Present(p)' /\ TagsLow' /\ AbsentInNoSession'
      BY <1>2, <1>4, <1>5, BeginningTold DEF CommandInv, ProcessesTold
<1>8. CommandCounters'
  <2>1. \A s \in Pids : ticks'[s] <= MaxTicks
        BY <1>2, <1>4, CreatedCounts DEF CommandInv, ProcessesTold, CommandCounters
  <2>2. proc[q].tag \in 1 .. MaxServers
        BY <1>2, <1>4, Bounds DEF ProcessRecord, CommandInv, ProcessesTold, CommandCounters
  <2>3. raced' \subseteq 1 .. MaxServers
        BY <1>2, <2>2 DEF CommandInv, ProcessesTold, CommandCounters
  <2>4. forks' \in 0 .. MaxForks
        BY <1>2, Bounds DEF CommandInv, ProcessesTold, CommandCounters
  <2> QED  BY <1>2, <2>1, <2>3, <2>4 DEF CommandInv, ProcessesTold, CommandCounters
<1>9. CommandInSession'
      BY <1>5, <1>6, <1>7 DEF CommandInv, CommandInSession, Present
<1>10. ListedAll'  BY <1>2, <1>5, <1>7 DEF CommandInv, ListedAll, Live
<1>11. \A t : Gone(t) => Gone(t)'
  <2> SUFFICES ASSUME NEW t, Mine(t) = {}, t \notin raced PROVE t \in raced' \/ Mine(t)' = {}
      BY <1>2 DEF Gone
  <2>1. ASSUME NEW s \in Pids, Live(s)', proc'[s].tag = t, ~proc'[s].away PROVE FALSE
    <3>1. CASE s = p
      <4>1. q \in Mine(t)  BY <1>2, <1>5, <1>7, <2>1, <3>1 DEF Mine
      <4> QED  BY <4>1
    <3>2. CASE s # p
      <4>1. s \in Mine(t)  BY <1>7, <2>1, <3>2 DEF Mine, Live
      <4> QED  BY <4>1
    <3> QED  BY <3>1, <3>2
  <2> QED  BY <2>1 DEF Mine, Live
<1>12. CleanedMeansGone'  BY <1>2, <1>11 DEF CommandInv, CleanedMeansGone, Gone, Mine, Live
<1>13. OutcomeTold'  BY <1>2, <1>11 DEF CommandInv, OutcomeTold, Gone, Mine, Live
<1> QED  BY <1>3, <1>7, <1>8, <1>9, <1>10, <1>12, <1>13 DEF CommandInv, ProcessesTold

LEMMA ForeignStartKeeps ==
  ASSUME CommandInv, NEW p \in Pids, ForeignStart(p), UNCHANGED << cmd, outcome >>
  PROVE  CommandInv'
<1> DEFINE r == [NoProcess EXCEPT !.state = "live", !.sess = p]
<1>1. ProcessNext  BY DEF ProcessNext
<1>2. /\ p \in Unused /\ Created(p, r)
      /\ disturbances < MaxDisturbances /\ disturbances' = disturbances + 1
      /\ UNCHANGED << servers, raced, forks, lease >>
      BY DEF ForeignStart
<1>3. ProcessInv' /\ QueueTidy' /\ CallFollows' /\ ChildWaits'  BY <1>1, CallStays
<1>4. servers \in Nat /\ ticks \in [Pids -> Nat]  BY DEF CommandInv, ProcessInv, ProcessesTyped
<1>5. r \in ProcessRecord /\ r.state = "live" /\ r.tag = 0  BY DEF NoProcess, ProcessRecord
<1> HIDE DEF r
<1>6. /\ \A s \in Pids : s # p => proc'[s] = proc[s]
      /\ proc'[p] = r /\ Present(p)' /\ TagsLow' /\ AbsentInNoSession'
      BY <1>2, <1>4, <1>5, BeginningTold DEF CommandInv, ProcessesTold
<1>7. CommandCounters'
  <2>1. \A s \in Pids : ticks'[s] <= MaxTicks
        BY <1>2, <1>4, CreatedCounts DEF CommandInv, ProcessesTold, CommandCounters
  <2> QED  BY <1>2, <2>1, Bounds DEF CommandInv, ProcessesTold, CommandCounters
<1>8. \A s \in Pids : proc'[s].tag # 0 => proc'[s] = proc[s]  BY <1>5, <1>6
<1>9. CommandInSession'
      BY <1>8 DEF CommandInv, CommandInSession, CallFollows, Present
<1>10. ListedAll'  BY <1>2, <1>8 DEF CommandInv, ListedAll, Live
<1>11. \A t : t # 0 /\ Gone(t) => Gone(t)'  BY <1>2, <1>8 DEF Gone, Mine, Live
<1>12. CleanedMeansGone'
  <2>1. lease.step = "done" => cmd.tag # 0
    <3>1. NoLease.step = "none"  BY DEF NoLease
    <3> QED  BY <3>1 DEF CommandInv, CallFollows, CommandRecord, Leasing
  <2> QED  BY <1>2, <1>11, <2>1 DEF CommandInv, CleanedMeansGone, Gone, Mine, Live
<1>13. OutcomeTold'
  <2>1. outcome # NULL => outcome.tag # 0  BY <1>4 DEF CommandInv, OutcomeTold
  <2> QED  BY <1>2, <1>11, <2>1 DEF CommandInv, OutcomeTold, Gone, Mine, Live
<1> QED  BY <1>3, <1>6, <1>7, <1>9, <1>10, <1>12, <1>13 DEF CommandInv, ProcessesTold

LEMMA LaunchKeeps ==
  ASSUME CommandInv, NEW p \in Pids, Launch(p)
  PROVE  CommandInv'
<1>1. /\ cmd.step = "none" /\ Spawn(Caller, p) /\ outcome' = NULL
      /\ cmd' = [NoCommand EXCEPT !.step = "identify", !.pid = p, !.tag = servers + 1]
      BY DEF Launch
<1>2. /\ servers < MaxServers /\ p \in Unused
      /\ ticks' = [ticks EXCEPT ![p] = @ + 1]
      /\ UNCHANGED << raced, forks, disturbances, strayed, lease >>
      BY <1>1 DEF Spawn, Created
<1>3. /\ ProcessInv' /\ servers' = servers + 1 /\ Present(p)' /\ proc'[p].sess = p
      /\ proc'[p].tag = servers + 1 /\ proc'[p].parent = Caller
      /\ \A q \in Pids : q # p => proc'[q] = proc[q] /\ ticks'[q] = ticks[q]
      BY <1>1, SpawnStep, CallerAssumption DEF CommandInv
<1>4. /\ servers \in Nat /\ ticks \in [Pids -> Nat] /\ proc \in [Pids -> ProcessRecord]
      /\ lease = NoLease /\ NoLease.step = "none" /\ MaxServers \in Nat
      BY <1>1, Bounds, NoLeaseIs DEF CommandInv, ProcessInv, ProcessesTyped, CallFollows
<1>5. cmd' \in CommandRecord /\ cmd'.step = "identify" /\ cmd'.pid = p /\ cmd'.tag = servers + 1
  <2>1. PICK t \in Nat : t = servers + 1  BY <1>4
  <2>2. cmd' = [NoCommand EXCEPT !.step = "identify", !.pid = p, !.tag = t]  BY <1>1, <2>1
  <2>3. cmd' \in CommandRecord /\ cmd'.step = "identify" /\ cmd'.pid = p /\ cmd'.tag = t
        BY <2>2 DEF NoCommand, CommandRecord
  <2> QED  BY <2>1, <2>3
<1>6. CallFollows' /\ ChildWaits' /\ QueueTidy'
  <2>1. servers + 1 # 0  BY <1>4
  <2> QED  BY <1>1, <1>2, <1>3, <1>4, <1>5, <2>1
           DEF CommandInv, CallFollows, ChildWaits, QueueTidy, Leasing, Present
<1>7. \A q \in Pids : q # p => proc[q].tag \in Nat /\ proc[q].tag <= servers
      BY <1>4 DEF CommandInv, ProcessesTold, TagsLow, ProcessRecord
<1>8. ProcessesTold'
  <2>1. TagsLow'
    <3> SUFFICES ASSUME NEW q \in Pids PROVE proc'[q].tag <= servers'
        BY DEF TagsLow
    <3> QED  BY <1>3, <1>4, <1>7
  <2>2. AbsentInNoSession'
        BY <1>3 DEF CommandInv, ProcessesTold, AbsentInNoSession, Present
  <2>3. CommandCounters'
    <3>1. p \in Unused /\ Created(p, proc'[p])
          BY <1>1, <1>2, <1>4 DEF Spawn, Created
    <3>2. \A q \in Pids : ticks'[q] <= MaxTicks
          BY <1>4, <3>1, CreatedCounts DEF CommandInv, ProcessesTold, CommandCounters
    <3> QED  BY <1>2, <1>3, <1>4, <3>2 DEF CommandInv, ProcessesTold, CommandCounters
  <2> QED  BY <2>1, <2>2, <2>3 DEF ProcessesTold
<1>9. CommandInSession'
  <2> SUFFICES ASSUME NEW q \in Pids, proc'[q].tag = servers + 1 PROVE proc'[q].sess = p
      BY <1>5 DEF CommandInSession
  <2>1. q = p  BY <1>3, <1>4, <1>7
  <2> QED  BY <1>3, <2>1
<1>10. ListedAll' /\ CleanedMeansGone' /\ OutcomeTold'
       BY <1>1, <1>2, <1>4 DEF ListedAll, CleanedMeansGone, OutcomeTold
<1> QED  BY <1>3, <1>6, <1>8, <1>9, <1>10 DEF CommandInv

-----------------------------------------------------------------------------
(* All together.                                                           *)

LEMMA CommandBegins ==
  ASSUME CommandInit
  PROVE  CommandInv /\ strayed \in BOOLEAN
<1>1. /\ proc = [p \in Pids |-> NoProcess] /\ ticks = [p \in Pids |-> 0] /\ servers = 0 /\ forks = 0
      /\ disturbances = 0 /\ raced = {} /\ strayed = FALSE /\ lease = NoLease
      /\ cmd = NoCommand /\ outcome = NULL
      BY DEF CommandInit, ProcessInit
<1>2. NoProcess \in ProcessRecord /\ NoProcess.state = "none" /\ NoProcess.tag = 0 /\ NoProcess.sess = NULL
      BY DEF NoProcess, ProcessRecord
<1>3. /\ NoLease \in LeaseRecord /\ NoLease.members = {} /\ NoLease.step = "none" /\ NoLease.queue = {}
      BY NoLeaseIs DEF NoLease
<1>4. proc \in [Pids -> ProcessRecord] /\ ticks \in [Pids -> Nat] /\ \A p \in Pids : proc[p] = NoProcess
      BY <1>1, <1>2
<1>5. ProcessInv
  <2>1. Sessions
        BY <1>2, <1>4 DEF Sessions, SessionsHaveOneTag, SessionsHaveLeaders, Present
  <2> QED  BY <1>1, <1>3, <1>4, <2>1 DEF ProcessInv, ProcessesTyped, MembersKnown, TargetsKnown
<1>6. QueueTidy /\ ProcessesTold
      BY <1>1, <1>2, <1>3, <1>4, Bounds
      DEF QueueTidy, ProcessesTold, TagsLow, AbsentInNoSession, CommandCounters
<1>7. CallFollows /\ ChildWaits /\ CommandInSession /\ ListedAll /\ CleanedMeansGone /\ OutcomeTold
      BY <1>1, <1>3, NoCommandIs
      DEF CallFollows, ChildWaits, CommandInSession, ListedAll, CleanedMeansGone, OutcomeTold, Leasing
<1> QED  BY <1>1, <1>5, <1>6, <1>7 DEF CommandInv

LEMMA CommandRests ==
  ASSUME CommandInv, UNCHANGED cmdvars
  PROVE  CommandInv'
<1>1. UNCHANGED << processVars, cmd, outcome >>  BY DEF cmdvars
<1>2. ProcessInv' /\ QueueTidy' /\ Wanes  BY <1>1, ProcessesRest DEF CommandInv
<1>3. UNCHANGED << proc, servers, raced, forks, disturbances, lease >>  BY <1>1 DEF processVars
<1>4. CallFollows' /\ ChildWaits'
      BY <1>1, <1>3 DEF CommandInv, CallFollows, ChildWaits, Leasing, Present
<1>5. lease'.step = "done" => Gone(cmd'.tag)  BY <1>1, <1>3 DEF CommandInv, CleanedMeansGone
<1> QED  BY <1>1, <1>2, <1>3, <1>4, <1>5, CallGoesOn

LEMMA CommandKeeps ==
  ASSUME CommandInv, CommandNext
  PROVE  CommandInv'
<1>1. CASE \E p \in Pids : Launch(p)  BY <1>1, LaunchKeeps
<1>2. CASE TakeLease \/ Leased \/ Completed \/ Broken \/ CommandLease
      BY <1>2, TakeLeaseKeeps, LeasedKeeps, CompletedKeeps, BrokenKeeps, CommandLeaseKeeps
<1>3. CASE Checked \/ CleanedUp \/ KillGroup \/ ScanUncaptured \/ Uncaptured
      BY <1>3, CheckedKeeps, CleanedUpKeeps, KillGroupKeeps, ScanUncapturedKeeps, UncapturedKeeps
<1>4. CASE ProcessNext /\ UNCHANGED << cmd, outcome >>
      BY <1>4, DieKeeps, EscapeKeeps, ForkKeeps, ForeignStartKeeps DEF ProcessNext
<1> QED  BY <1>1, <1>2, <1>3, <1>4 DEF CommandNext

LEMMA CommandStrayed ==
  ASSUME strayed \in BOOLEAN, CommandNext
  PROVE  strayed' \in BOOLEAN
<1>1. CASE KillGroup
  <2>1. PICK group : strayed' = (strayed \/ \E p \in group : proc[p].tag # cmd.tag)
        BY <1>1 DEF KillGroup
  <2> QED  BY <2>1
<1>2. CASE LeaseStep
  <2>1. CASE SendSignal  BY <2>1 DEF SendSignal
  <2>2. CASE ListProcesses \/ Refresh \/ OpenPidfd \/ EndSignals
        BY <2>2 DEF ListProcesses, Refresh, OpenPidfd, EndSignals
  <2> QED  BY <1>2, <2>1, <2>2 DEF LeaseStep
<1>3. CASE \E p \in Pids : Launch(p)  BY <1>3 DEF Launch, Spawn
<1>4. CASE TakeLease \/ Leased \/ Completed \/ Broken
      BY <1>4 DEF TakeLease, Leased, Completed, Broken, Quiet, processVars
<1>5. CASE Checked \/ CleanedUp \/ ScanUncaptured \/ Uncaptured
      BY <1>5 DEF Checked, CleanedUp, ScanUncaptured, Uncaptured, Quiet
<1>6. CASE ProcessNext  BY <1>6 DEF ProcessNext, Escape, Die, ForeignStart, Fork
<1> QED  BY <1>1, <1>2, <1>3, <1>4, <1>5, <1>6 DEF CommandNext, CommandLease

LEMMA CommandTypes ==
  ASSUME CommandInv, strayed \in BOOLEAN
  PROVE  CommandTypeOK
<1>1. ProcessTypeOK  BY ProcessTypes DEF CommandInv, ProcessesTold, CommandCounters
<1>2. cmd.step \in {"none", "identify", "leasing", "communicate", "check", "cleanup", "uncaptured"}
      BY DEF CommandInv, CallFollows, CommandRecord
<1>3. cmd.step \in {"none", "identify"} <=> lease.step = "none"
      BY <1>2, NoLeaseIs DEF CommandInv, CallFollows, Leasing
<1>4. cmd.step # "none" => outcome = NULL /\ cmd.tag = servers  BY DEF CommandInv, CallFollows
<1> QED  BY <1>1, <1>2, <1>3, <1>4 DEF CommandTypeOK

\* A call of run that ends without a failed cleanup in its result leaves no
\* process of its command running in the session, a successful one least of
\* all; no signal of its cleanup, through a pidfd or to the initial group,
\* reaches a process of anybody else (command.py, CommandRunner.run).
THEOREM CommandsStayClean == CommandSpec => []CommandsEndClean
<1>1. CommandInit => CommandInv /\ strayed \in BOOLEAN  BY CommandBegins
<1>2. CommandInv /\ strayed \in BOOLEAN /\ [CommandNext]_cmdvars => (CommandInv /\ strayed \in BOOLEAN)'
  <2>1. ASSUME CommandInv, strayed \in BOOLEAN, CommandNext PROVE (CommandInv /\ strayed \in BOOLEAN)'
        BY <2>1, CommandKeeps, CommandStrayed
  <2>2. ASSUME CommandInv, strayed \in BOOLEAN, UNCHANGED cmdvars
        PROVE  (CommandInv /\ strayed \in BOOLEAN)'
        BY <2>2, CommandRests DEF cmdvars, processVars
  <2> QED  BY <2>1, <2>2
<1>3. CommandInv /\ strayed \in BOOLEAN => CommandsEndClean
  <2> SUFFICES ASSUME CommandInv, strayed \in BOOLEAN PROVE CommandsEndClean
      OBVIOUS
  <2>1. NothingRunsOnUnreported
    <3>1. ASSUME outcome # NULL, outcome.tag \notin raced, outcome.verified
          PROVE  Remains(outcome.tag) = {}
          BY <3>1 DEF CommandInv, OutcomeTold, Gone, Mine, Remains
    <3> QED  BY <3>1 DEF NothingRunsOnUnreported, CommandInv, OutcomeTold
  <2> QED  BY <2>1, CommandTypes DEF CommandsEndClean, CommandSignalsOnlyItsOwn, CommandInv, ProcessInv
<1> QED  BY <1>1, <1>2, <1>3, PTL DEF CommandSpec

-----------------------------------------------------------------------------
(***************************************************************************)
(* The adapter.                                                            *)
(*                                                                         *)
(* Who is signalled: a recorded server is known as long as the host has    *)
(* not been rebooted since, and the adapter asks that before it opens a    *)
(* lease; a spawned one is known because its driver has not reaped it.     *)
(*                                                                         *)
(* Who runs: the argument is about one session at a time.  The processes   *)
(* of a spawn that did not leave its session are in the session of its     *)
(* leader, so a scan that lists them all, and finds none of them alive,    *)
(* proves that none runs; only a fork during the scan can be missed, and   *)
(* it is raced.  Before a server is spawned, the recorded one has been     *)
(* found dead so.                                                          *)
(***************************************************************************)
Operation ==
  [driver : Drivers \cup {NULL}, kind : {"none", "start", "stop"}, request : Requests \cup {NULL},
   step : {"none", "load", "port", "scan", "inspect", "capture", "evidence", "rollback", "uncaptured",
           "open", "mismatch", "probe", "exact", "terminate", "stopped"},
   spawned : ServerIdentity \cup {NULL}]

AdapterTyped ==
  /\ boot \in Nat /\ op \in Operation
  /\ record \in ServerExecutionRecord \cup {NULL}

\* A server of this boot stands for its own spawn, or for nothing any more.
ServerKnown(s) == s.boot = boot => KnownAs(ProcessOf(s), s.tag)

RecordKnown ==
  record \in ServerExecutionRecord => record.server.boot <= boot /\ ServerKnown(record.server)

SpawnedKnown == op.spawned # NULL => op.spawned.boot = boot /\ ServerKnown(op.spawned)

\* The driver has not reaped its child, which leads its session.
ChildOf(s, d) ==
  /\ Is(ProcessOf(s)) /\ proc[s.pid].sess = s.pid /\ proc[s.pid].parent = d

StepsFollow ==
  /\ op.step = "none" => op = NoOp
  /\ op.step # "none" => op.driver \in Drivers
  /\ op.step \in {"none", "load", "port", "capture"} => lease = NoLease
  /\ op.step \in {"capture", "evidence", "uncaptured", "rollback"} => op.spawned # NULL
  /\ op.step \in {"none", "load", "port", "scan", "inspect", "mismatch", "probe", "exact", "stopped"} =>
       op.spawned = NULL
  /\ op.step = "capture" => ChildOf(op.spawned, op.driver)
  /\ op.step \in {"inspect", "mismatch", "probe", "exact", "stopped"} => record \in ServerExecutionRecord
  /\ op.step \in {"exact", "open", "terminate"} /\ op.spawned = NULL =>
       record \in ServerExecutionRecord /\ record.server.boot = boot

AdapterInv == AdapterTyped /\ RecordKnown /\ SpawnedKnown /\ StepsFollow

IInv == ProcessInv /\ AdapterInv

-----------------------------------------------------------------------------
\* What an operation knows it goes on knowing while the processes go on.
LEMMA AdapterStays ==
  ASSUME IInv, ticks' \in [Pids -> Nat], Onward, boot' = boot, record' = record, op' = op,
         op.step \in {"none", "load", "port", "capture"} => lease' = NoLease,
         op.step = "capture" => ChildOf(op.spawned, op.driver)'
  PROVE  AdapterInv'
<1>1. \A i, t : KnownAs(i, t) => KnownAs(i, t)'
      BY KnownStays DEF IInv, ProcessInv, ProcessesTyped
<1>2. AdapterTyped'  BY DEF IInv, AdapterInv, AdapterTyped
<1>3. RecordKnown'
  <2> SUFFICES ASSUME record \in ServerExecutionRecord, record.server.boot = boot
               PROVE  KnownAs(ProcessOf(record.server), record.server.tag)'
      BY DEF IInv, AdapterInv, RecordKnown, ServerKnown
  <2>1. KnownAs(ProcessOf(record.server), record.server.tag)
        BY DEF IInv, AdapterInv, RecordKnown, ServerKnown
  <2> QED  BY <1>1, <2>1 DEF KnownAs, Is, Present, ProcessOf
<1>4. SpawnedKnown'
  <2> SUFFICES ASSUME op.spawned # NULL
               PROVE  KnownAs(ProcessOf(op.spawned), op.spawned.tag)'
      BY DEF IInv, AdapterInv, SpawnedKnown, ServerKnown
  <2>1. KnownAs(ProcessOf(op.spawned), op.spawned.tag)
        BY DEF IInv, AdapterInv, SpawnedKnown, ServerKnown
  <2> QED  BY <1>1, <2>1 DEF KnownAs, Is, Present, ProcessOf
<1>5. StepsFollow'  BY DEF IInv, AdapterInv, StepsFollow
<1> QED  BY <1>2, <1>3, <1>4, <1>5 DEF AdapterInv

LEMMA ChildStays ==
  ASSUME ProcessInv, NEW s \in ServerIdentity, NEW d \in Drivers, ChildOf(s, d), ProcessNext
  PROVE  ChildOf(s, d)'
<1>1. /\ s.pid \in Pids /\ Present(s.pid) /\ ticks[s.pid] = s.ticks
      /\ proc[s.pid].sess = s.pid /\ proc[s.pid].parent = d
      BY DEF ChildOf, Is, ProcessOf, ServerIdentity
<1>2. PICK c \in Pids : c = s.pid  BY <1>1
<1>3. /\ Present(c)' /\ ticks'[c] = ticks[c] /\ proc'[c].sess = c /\ proc'[c].parent = d
      BY <1>1, <1>2, ChildStaysHere
<1> QED  BY <1>1, <1>2, <1>3 DEF ChildOf, Is, Present, ProcessOf

LEMMA ProcessesKeep ==
  ASSUME IInv, Processes
  PROVE  IInv'
<1>1. ProcessInv'  BY ProcessesStep DEF IInv, Processes
<1>2. ticks' \in [Pids -> Nat] /\ Onward /\ lease' = lease
      BY ProcessesAreOnward DEF IInv, Processes
<1>3. boot' = boot /\ record' = record /\ op' = op  BY DEF Processes
<1>4. op.step \in {"none", "load", "port", "capture"} => lease = NoLease
      BY DEF IInv, AdapterInv, StepsFollow
<1>5. ASSUME op.step = "capture" PROVE ChildOf(op.spawned, op.driver)'
  <2>1. /\ op.spawned \in ServerIdentity /\ op.driver \in Drivers
        /\ ChildOf(op.spawned, op.driver)
        BY <1>5 DEF IInv, AdapterInv, AdapterTyped, Operation, StepsFollow
  <2> DEFINE s == op.spawned
             d == op.driver
  <2> HIDE DEF s, d
  <2> QED  BY <1>3, <2>1, ChildStays DEF IInv, Processes, ChildOf, Is, Present, ProcessOf
<1>6. AdapterInv'  BY <1>2, <1>3, <1>4, <1>5, AdapterStays
<1> QED  BY <1>1, <1>6 DEF IInv

LEMMA CleanupKeeps ==
  ASSUME IInv, Cleanup
  PROVE  IInv'
<1>1. ProcessInv' /\ Kept  BY LeaseSteps DEF IInv, Cleanup
<1>2. Onward /\ ticks' \in [Pids -> Nat]
      BY <1>1, KeptStays DEF IInv, ProcessInv, ProcessesTyped
<1>3. boot' = boot /\ record' = record /\ op' = op  BY DEF Cleanup
<1>4. lease # NoLease
  <2>1. ListProcesses => lease.step = "list"  BY DEF ListProcesses
  <2>2. Refresh => lease.step = "read"  BY DEF Refresh
  <2>3. OpenPidfd \/ EndSignals => lease.step = "signal"  BY DEF OpenPidfd, EndSignals
  <2>4. SendSignal => lease.step = "send"  BY DEF SendSignal
  <2>5. lease.step # "none"  BY <2>1, <2>2, <2>3, <2>4 DEF Cleanup, LeaseStep
  <2> QED  BY <2>5, NoLeaseIs
<1>5. op.step \notin {"none", "load", "port", "capture"}
      BY <1>4 DEF IInv, AdapterInv, StepsFollow
<1>6. AdapterInv'  BY <1>2, <1>3, <1>5, AdapterStays
<1> QED  BY <1>1, <1>6 DEF IInv

-----------------------------------------------------------------------------
(* What the steps of an operation have in common.                          *)

\* Processes may end; the lease is kept, closed, or one that knows its members.
LEMMA StepKeeps ==
  ASSUME IInv, proc' \in [Pids -> ProcessRecord], Kept, UNCHANGED Rest,
         \/ lease' = lease
         \/ lease' \in LeaseRecord /\ (MembersKnown /\ TargetsKnown)'
  PROVE  /\ ProcessInv'
         /\ \A i, t : KnownAs(i, t) => KnownAs(i, t)'
<1>1. /\ ProcessInv /\ ticks' = ticks /\ servers' = servers /\ strayed' = strayed
      /\ servers \in Nat /\ ticks \in [Pids -> Nat] /\ ~strayed
      BY DEF IInv, Rest, ProcessInv, ProcessesTyped
<1>2. ProcessInv'
  <2>1. CASE lease' = lease  BY <1>1, <2>1, EndingStep
  <2>2. CASE lease' \in LeaseRecord /\ (MembersKnown /\ TargetsKnown)'
        BY <1>1, <2>2, EndingWithLease
  <2> QED  BY <2>1, <2>2
<1>3. Onward  BY <1>1, KeptStays DEF ProcessInv
<1>4. \A i, t : KnownAs(i, t) => KnownAs(i, t)'  BY <1>1, <1>3, KnownStays
<1> QED  BY <1>2, <1>4

\* The record goes on being known, whatever its status.
LEMMA RecordKeeps ==
  ASSUME IInv, \A i, t : KnownAs(i, t) => KnownAs(i, t)', boot' = boot,
         \/ record' = record
         \/ record \in ServerExecutionRecord /\ \E status \in ServerExecutionStatus : Mark(status)
  PROVE  /\ record' \in ServerExecutionRecord \cup {NULL} /\ RecordKnown'
         /\ record \in ServerExecutionRecord =>
              record' \in ServerExecutionRecord /\ record'.server = record.server
<1>1. ASSUME record \in ServerExecutionRecord, NEW status \in ServerExecutionStatus, Mark(status)
      PROVE  record' \in ServerExecutionRecord /\ record'.server = record.server
      BY <1>1 DEF Mark, ServerExecutionRecord
<1>2. /\ record' \in ServerExecutionRecord \cup {NULL}
      /\ record \in ServerExecutionRecord =>
           record' \in ServerExecutionRecord /\ record'.server = record.server
      BY <1>1 DEF IInv, AdapterInv, AdapterTyped
<1>3. RecordKnown'
  <2>1. \A s : ServerKnown(s) => ServerKnown(s)'
        BY DEF ServerKnown, KnownAs, Is, Present, ProcessOf
  <2>2. CASE record \in ServerExecutionRecord
    <3>1. record.server.boot <= boot /\ ServerKnown(record.server)
          BY <2>2 DEF IInv, AdapterInv, RecordKnown
    <3>2. record'.server = record.server  BY <1>2, <2>2
    <3> QED  BY <2>1, <3>1, <3>2 DEF RecordKnown, ServerKnown, KnownAs, Is, Present, ProcessOf
  <2>3. CASE record \notin ServerExecutionRecord
    <3>1. record' = record  BY <2>3
    <3> QED  BY <2>3, <3>1 DEF RecordKnown
  <2> QED  BY <2>2, <2>3
<1> QED  BY <1>2, <1>3

LEMMA NoOpIs ==
  /\ NoOp \in Operation /\ NoOp.step = "none" /\ NoOp.spawned = NULL
BY DEF NoOp, Operation

\* An operation ends.
LEMMA EndKeeps ==
  ASSUME IInv, proc' \in [Pids -> ProcessRecord], Kept, UNCHANGED Rest, End,
         \/ record' = record
         \/ record \in ServerExecutionRecord /\ \E status \in ServerExecutionStatus : Mark(status)
  PROVE  IInv'
<1>1. op' = NoOp /\ lease' = NoLease /\ boot' = boot  BY DEF End, Rest
<1>2. lease' \in LeaseRecord /\ (MembersKnown /\ TargetsKnown)'  BY <1>1, NoLeaseIs, NobodyKnown
<1>3. ProcessInv' /\ \A i, t : KnownAs(i, t) => KnownAs(i, t)'  BY <1>2, StepKeeps
<1>4. record' \in ServerExecutionRecord \cup {NULL} /\ RecordKnown'  BY <1>1, <1>3, RecordKeeps
<1>5. AdapterTyped'  BY <1>1, <1>4, NoOpIs DEF IInv, AdapterInv, AdapterTyped
<1>6. SpawnedKnown' /\ StepsFollow'  BY <1>1, NoOpIs DEF SpawnedKnown, StepsFollow
<1> QED  BY <1>3, <1>4, <1>5, <1>6 DEF IInv, AdapterInv

\* An operation goes on, for the same server.
LEMMA GoOnKeeps ==
  ASSUME IInv, proc' \in [Pids -> ProcessRecord], Kept, UNCHANGED Rest,
         lease' = lease \/ (lease' \in LeaseRecord /\ (MembersKnown /\ TargetsKnown)'),
         record' = record,
         op' \in Operation, op.step # "none", op'.driver = op.driver, op'.spawned = op.spawned,
         op'.step \notin {"none", "load", "capture", "mismatch"},
         op'.step = "port" => lease' = NoLease,
         op'.step \in {"evidence", "uncaptured", "rollback"} => op.spawned # NULL,
         op'.step \in {"port", "scan", "inspect", "probe", "exact", "stopped"} => op.spawned = NULL,
         op'.step \in {"inspect", "probe", "exact", "stopped"} => record \in ServerExecutionRecord,
         op'.step \in {"exact", "open", "terminate"} /\ op.spawned = NULL =>
           record \in ServerExecutionRecord /\ record.server.boot = boot
  PROVE  IInv'
<1>1. boot' = boot  BY DEF Rest
<1>2. ProcessInv' /\ \A i, t : KnownAs(i, t) => KnownAs(i, t)'  BY StepKeeps
<1>3. record' \in ServerExecutionRecord \cup {NULL} /\ RecordKnown'  BY <1>1, <1>2, RecordKeeps
<1>4. AdapterTyped'  BY <1>1, <1>3 DEF IInv, AdapterInv, AdapterTyped
<1>5. SpawnedKnown'
  <2>1. \A s : ServerKnown(s) => ServerKnown(s)'
        BY <1>1, <1>2 DEF ServerKnown, KnownAs, Is, Present, ProcessOf
  <2> QED  BY <1>1, <2>1 DEF IInv, AdapterInv, SpawnedKnown, ServerKnown, KnownAs, Is, Present, ProcessOf
<1>6. StepsFollow'  BY <1>1 DEF IInv, AdapterInv, StepsFollow
<1> QED  BY <1>2, <1>3, <1>4, <1>5, <1>6 DEF IInv, AdapterInv

\* What an operation finds of its types.
LEMMA Typed ==
  ASSUME IInv
  PROVE  /\ proc \in [Pids -> ProcessRecord] /\ ticks \in [Pids -> Nat] /\ servers \in Nat
         /\ lease \in LeaseRecord /\ op \in Operation /\ boot \in Nat
         /\ op.driver \in Drivers \cup {NULL} /\ op.spawned \in ServerIdentity \cup {NULL}
         /\ op.step # "none" => op.driver \in Drivers
         /\ record # NULL => record \in ServerExecutionRecord
         /\ record \in ServerExecutionRecord => record.server \in ServerIdentity
         /\ op.spawned # NULL => op.spawned \in ServerIdentity
BY DEF IInv, ProcessInv, ProcessesTyped, AdapterInv, AdapterTyped, Operation, StepsFollow,
       ServerExecutionRecord

\* Asking for a server ends nobody but a dead child.
LEMMA AskingKeeps ==
  ASSUME IInv, NEW s \in ServerIdentity, UNCHANGED Rest, proc' = Asked(s, op.driver)
  PROVE  proc' \in [Pids -> ProcessRecord] /\ Kept
<1>1. ticks' = ticks /\ s.pid \in Pids  BY DEF Rest, ServerIdentity
<1>2. CASE s.boot = boot
  <2>1. proc' = Reaped(op.driver, s.pid)  BY <1>2 DEF Asked
  <2> QED  BY <1>1, <2>1, Typed, ReapedKeeps
<1>3. CASE s.boot # boot
  <2>1. proc' = proc  BY <1>3 DEF Asked
  <2> QED  BY <1>1, <2>1, Typed DEF Kept, Present
<1> QED  BY <1>2, <1>3

LEMMA UnchangedKeeps ==
  ASSUME IInv, UNCHANGED Rest, proc' = proc
  PROVE  proc' \in [Pids -> ProcessRecord] /\ Kept
<1>1. ticks' = ticks  BY DEF Rest
<1> QED  BY <1>1, Typed DEF Kept, Present

-----------------------------------------------------------------------------
(* start_or_resume                                                         *)

LEMMA BeginKeeps ==
  ASSUME IInv, NEW d \in Drivers, NEW kind \in {"start", "stop"}, NEW r \in Requests \cup {NULL},
         Begin(d, kind, r)
  PROVE  IInv'
<1>1. /\ op = NoOp /\ op' = [NoOp EXCEPT !.driver = d, !.kind = kind, !.request = r, !.step = "load"]
      /\ UNCHANGED << proc, ticks, servers, strayed, lease, boot, record >> /\ UNCHANGED Rest
      BY DEF Begin, processVars, Rest
<1>2. /\ op' \in Operation /\ op'.driver = d /\ op'.step = "load" /\ op'.spawned = NULL
      BY <1>1 DEF NoOp, Operation
<1>3. lease = NoLease  BY <1>1, NoOpIs DEF IInv, AdapterInv, StepsFollow
<1>4. proc' \in [Pids -> ProcessRecord] /\ Kept  BY <1>1, UnchangedKeeps
<1>5. ProcessInv' /\ \A i, t : KnownAs(i, t) => KnownAs(i, t)'  BY <1>1, <1>4, StepKeeps
<1>6. record' \in ServerExecutionRecord \cup {NULL} /\ RecordKnown'  BY <1>1, <1>5, RecordKeeps
<1>7. AdapterTyped'  BY <1>1, <1>2, <1>6 DEF IInv, AdapterInv, AdapterTyped
<1>8. SpawnedKnown' /\ StepsFollow'  BY <1>1, <1>2, <1>3 DEF SpawnedKnown, StepsFollow
<1> QED  BY <1>5, <1>6, <1>7, <1>8 DEF IInv, AdapterInv

\* What Goto leaves of an operation.
LEMMA GotoIs ==
  ASSUME op \in Operation,
         NEW step \in {"port", "scan", "inspect", "evidence", "rollback", "uncaptured", "open",
                       "probe", "exact", "terminate", "stopped"},
         Goto(step)
  PROVE  /\ op' \in Operation /\ op'.driver = op.driver /\ op'.spawned = op.spawned
         /\ op'.step = step
BY DEF Goto, Operation

LEMMA LoadForStartKeeps ==
  ASSUME IInv, LoadForStart
  PROVE  IInv'
<1>1. op.step = "load" /\ UNCHANGED Rest /\ record' = record  BY DEF LoadForStart
<1>2. lease = NoLease /\ op.spawned = NULL  BY <1>1 DEF IInv, AdapterInv, StepsFollow
<1>3. CASE record = NULL
  <2>1. Goto("port") /\ UNCHANGED << proc, lease >>  BY <1>3 DEF LoadForStart
  <2>2. proc' \in [Pids -> ProcessRecord] /\ Kept  BY <1>1, <2>1, UnchangedKeeps
  <2>3. op' \in Operation /\ op'.driver = op.driver /\ op'.spawned = op.spawned /\ op'.step = "port"
        BY <2>1, Typed, GotoIs
  <2> QED  BY <1>1, <1>2, <2>1, <2>2, <2>3, GoOnKeeps
<1>4. CASE record # NULL
  <2>1. record \in ServerExecutionRecord /\ record.server \in ServerIdentity  BY <1>4, Typed
  <2>2. Asking(record.server)  BY <1>4 DEF LoadForStart
  <2>3. proc' \in [Pids -> ProcessRecord] /\ Kept  BY <1>1, <2>1, <2>2, AskingKeeps DEF Asking
  <2>4. \/ End
        \/ Goto("inspect") /\ UNCHANGED lease
        \/ Goto("port") /\ UNCHANGED lease
        \/ Goto("scan") /\ lease' = [NoLease EXCEPT !.step = "scan", !.session = record.server.pid]
        BY <1>4 DEF LoadForStart
  <2>5. CASE End  BY <1>1, <2>3, <2>5, EndKeeps
  <2>6. CASE Goto("inspect") /\ UNCHANGED lease
    <3>1. op' \in Operation /\ op'.driver = op.driver /\ op'.spawned = op.spawned /\ op'.step = "inspect"
          BY <2>6, Typed, GotoIs
    <3> QED  BY <1>1, <1>2, <2>1, <2>3, <2>6, <3>1, GoOnKeeps
  <2>7. CASE Goto("port") /\ UNCHANGED lease
    <3>1. op' \in Operation /\ op'.driver = op.driver /\ op'.spawned = op.spawned /\ op'.step = "port"
          BY <2>7, Typed, GotoIs
    <3> QED  BY <1>1, <1>2, <2>3, <2>7, <3>1, GoOnKeeps
  <2>8. CASE Goto("scan") /\ lease' = [NoLease EXCEPT !.step = "scan", !.session = record.server.pid]
    <3>1. op' \in Operation /\ op'.driver = op.driver /\ op'.spawned = op.spawned /\ op'.step = "scan"
          BY <2>8, Typed, GotoIs
    <3>2. record.server.pid \in Pids  BY <2>1 DEF ServerIdentity
    <3>3. lease' \in LeaseRecord /\ (MembersKnown /\ TargetsKnown)'
          BY <2>8, <3>2, NoLeaseIs, NobodyKnown
    <3> QED  BY <1>1, <1>2, <2>3, <3>1, <3>3, GoOnKeeps
  <2> QED  BY <2>4, <2>5, <2>6, <2>7, <2>8
<1> QED  BY <1>3, <1>4

LEMMA ScanListKeeps ==
  ASSUME IInv, ScanList
  PROVE  IInv'
<1>1. /\ lease.step = "scan" /\ UNCHANGED << proc, boot, record, op >> /\ UNCHANGED Rest
      /\ lease' = [lease EXCEPT !.step = "look", !.listed = { p \in Pids : Present(p) }]
      BY DEF ScanList, osVars, Rest
<1>2. lease \in LeaseRecord  BY Typed
<1>3. /\ lease' \in LeaseRecord /\ lease'.members = lease.members /\ lease'.tag = lease.tag
      /\ lease'.step = "look"
  <2> DEFINE listed == { p \in Pids : Present(p) }
  <2>1. listed \in SUBSET Pids  OBVIOUS
  <2>2. lease' = [lease EXCEPT !.step = "look", !.listed = listed]  BY <1>1
  <2> HIDE DEF listed
  <2> QED  BY <1>2, <2>1, <2>2 DEF LeaseRecord
<1>4. ProcessInv' /\ Kept
      BY <1>1, <1>3, LeaseGoesOn DEF IInv, Rest
<1>5. ticks' \in [Pids -> Nat] /\ Onward  BY <1>1, <1>4, KeptStays, Typed DEF Rest, IInv, ProcessInv
<1>6. op.step \notin {"none", "load", "port", "capture"}
      BY <1>1, NoLeaseIs DEF IInv, AdapterInv, StepsFollow
<1>7. AdapterInv'  BY <1>1, <1>5, <1>6, AdapterStays
<1> QED  BY <1>4, <1>7 DEF IInv

LEMMA ScanLookKeeps ==
  ASSUME IInv, ScanLook
  PROVE  IInv'
<1>1. /\ op.step = "scan" /\ UNCHANGED Rest /\ proc' = proc /\ record' = record
      /\ End \/ (Goto("port") /\ lease' = NoLease)
      BY DEF ScanLook
<1>2. proc' \in [Pids -> ProcessRecord] /\ Kept  BY <1>1, UnchangedKeeps
<1>3. CASE End  BY <1>1, <1>2, <1>3, EndKeeps
<1>4. CASE Goto("port") /\ lease' = NoLease
  <2>1. op' \in Operation /\ op'.driver = op.driver /\ op'.spawned = op.spawned /\ op'.step = "port"
        BY <1>4, Typed, GotoIs
  <2>2. op.spawned = NULL  BY <1>1 DEF IInv, AdapterInv, StepsFollow
  <2>3. lease' \in LeaseRecord /\ (MembersKnown /\ TargetsKnown)'  BY <1>4, NoLeaseIs, NobodyKnown
  <2> QED  BY <1>1, <1>2, <1>4, <2>1, <2>2, <2>3, GoOnKeeps
<1> QED  BY <1>1, <1>3, <1>4

LEMMA SpawnRefusedKeeps ==
  ASSUME IInv, SpawnRefused
  PROVE  IInv'
<1>1. UNCHANGED Rest /\ proc' = proc /\ record' = record /\ End  BY DEF SpawnRefused
<1>2. proc' \in [Pids -> ProcessRecord] /\ Kept  BY <1>1, UnchangedKeeps
<1> QED  BY <1>1, <1>2, EndKeeps

\* A child of the operation's driver begins, and leads its session.
LEMMA SpawnServerKeeps ==
  ASSUME IInv, SpawnServer
  PROVE  IInv'
<1>1. PICK p \in Pids :
        /\ Spawn(op.driver, p)
        /\ op' = [op EXCEPT !.step = "capture",
                            !.spawned = [pid |-> p, ticks |-> ticks[p] + 1, boot |-> boot,
                                         tag |-> servers + 1]]
      BY DEF SpawnServer
<1>2. op.step = "port" /\ boot' = boot /\ record' = record  BY DEF SpawnServer
<1>3. lease = NoLease /\ op.driver \in Drivers  BY <1>2 DEF IInv, AdapterInv, StepsFollow
<1>4. PICK d \in Drivers : d = op.driver  BY <1>3
<1>5. /\ ProcessInv' /\ servers' = servers + 1
      /\ ~Present(p) /\ Present(p)' /\ proc'[p].sess = p /\ proc'[p].tag = servers + 1
      /\ proc'[p].parent = d /\ ticks'[p] = ticks[p] + 1
      /\ \A q \in Pids : q # p => proc'[q] = proc[q] /\ ticks'[q] = ticks[q]
      BY <1>1, <1>4, SpawnStep DEF IInv
<1>6. lease' = lease /\ ticks \in [Pids -> Nat] /\ servers \in Nat /\ boot \in Nat
      BY <1>1, Typed DEF Spawn
<1>7. ticks' \in [Pids -> Nat] /\ Onward
  <2>1. ticks' \in [Pids -> Nat]  BY <1>5 DEF ProcessInv, ProcessesTyped
  <2>2. ticks'[p] > ticks[p]  BY <1>5, <1>6
  <2> QED  BY <1>5, <2>1, <2>2 DEF Onward, Present
<1>8. \A i, t : KnownAs(i, t) => KnownAs(i, t)'  BY <1>6, <1>7, KnownStays
<1>9. record' \in ServerExecutionRecord \cup {NULL} /\ RecordKnown'  BY <1>2, <1>8, RecordKeeps
<1> DEFINE s == [pid |-> p, ticks |-> ticks[p] + 1, boot |-> boot, tag |-> servers + 1]
<1>10. s \in ServerIdentity  BY <1>6 DEF ServerIdentity
<1>11. s # NULL  BY <1>10, ServerAssumption
<1>12. s.boot = boot /\ s.pid = p /\ s.ticks = ticks'[p] /\ s.tag = servers + 1  BY <1>5
<1>13. op' = [op EXCEPT !.step = "capture", !.spawned = s]  BY <1>1
<1> HIDE DEF s
<1>14. op' \in Operation /\ op'.spawned = s /\ op'.step = "capture" /\ op'.driver = d
       BY <1>4, <1>10, <1>13, Typed DEF Operation
<1>15. AdapterTyped'  BY <1>2, <1>9, <1>14 DEF IInv, AdapterInv, AdapterTyped
<1>16. SpawnedKnown'
  <2>1. s.ticks \in Nat /\ s.ticks <= ticks'[p]  BY <1>7, <1>12
  <2> QED  BY <1>2, <1>5, <1>12, <1>14, <2>1 DEF SpawnedKnown, ServerKnown, KnownAs, Is, ProcessOf
<1>17. StepsFollow'
       BY <1>3, <1>5, <1>6, <1>11, <1>12, <1>14 DEF StepsFollow, ChildOf, Is, ProcessOf
<1> QED  BY <1>5, <1>9, <1>15, <1>16, <1>17 DEF IInv, AdapterInv

\* A dead child is reaped; who is left in its session is of its spawn.
LEMMA CaptureKeeps ==
  ASSUME IInv, CaptureIdentity
  PROVE  IInv'
<1> DEFINE s == op.spawned
           members == { Identity(p) : p \in { q \in Pids : Present(q) /\ proc[q].sess = s.pid } }
<1>1. /\ op.step = "capture" /\ UNCHANGED Rest /\ record' = record
      /\ IF proc[s.pid].state = "live"
         THEN Goto("evidence") /\ UNCHANGED << proc, lease >>
         ELSE /\ proc' = [Asked(s, op.driver) EXCEPT ![s.pid] = NoProcess]
              /\ lease' = [Opened(ProcessOf(s), s.tag) EXCEPT !.members = members, !.phase = "term"]
              /\ Goto("rollback")
      BY DEF CaptureIdentity
<1>2. /\ s # NULL /\ s \in ServerIdentity /\ s.boot = boot /\ KnownAs(ProcessOf(s), s.tag)
      /\ ChildOf(s, op.driver)
      BY <1>1, Typed DEF IInv, AdapterInv, SpawnedKnown, ServerKnown, StepsFollow
<1>3. CASE proc[s.pid].state = "live"
  <2>1. Goto("evidence") /\ UNCHANGED << proc, lease >>  BY <1>1, <1>3
  <2>2. proc' \in [Pids -> ProcessRecord] /\ Kept  BY <1>1, <2>1, UnchangedKeeps
  <2>3. op' \in Operation /\ op'.driver = op.driver /\ op'.spawned = op.spawned /\ op'.step = "evidence"
        BY <2>1, Typed, GotoIs
  <2> QED  BY <1>1, <1>2, <2>1, <2>2, <2>3, GoOnKeeps
<1>4. CASE proc[s.pid].state # "live"
  <2>1. /\ proc' = [Asked(s, op.driver) EXCEPT ![s.pid] = NoProcess]
        /\ lease' = [Opened(ProcessOf(s), s.tag) EXCEPT !.members = members, !.phase = "term"]
        /\ Goto("rollback")
        BY <1>1, <1>4
  <2>2. op' \in Operation /\ op'.driver = op.driver /\ op'.spawned = op.spawned /\ op'.step = "rollback"
        BY <2>1, Typed, GotoIs
  <2>3. s.pid \in Pids /\ s.tag \in Nat /\ ProcessOf(s) \in [pid : Pids, ticks : Nat]
        BY <1>2 DEF ServerIdentity, ProcessOf
  <2>4. proc' \in [Pids -> ProcessRecord] /\ \A q \in Pids : proc'[q] \in {proc[q], NoProcess}
    <3>1. /\ Reaped(op.driver, s.pid) \in [Pids -> ProcessRecord]
          /\ \A q \in Pids : Reaped(op.driver, s.pid)[q] \in {proc[q], NoProcess}
          BY <2>3, Typed, Endings
    <3>2. Asked(s, op.driver) = Reaped(op.driver, s.pid)  BY <1>2 DEF Asked
    <3>3. NoProcess \in ProcessRecord  BY DEF NoProcess, ProcessRecord
    <3> QED  BY <2>1, <3>1, <3>2, <3>3
  <2>5. ticks' = ticks /\ ticks \in [Pids -> Nat] /\ proc \in [Pids -> ProcessRecord]  BY <1>1, Typed DEF Rest
  <2>6. Kept  BY <2>4, <2>5, EndingsKeep
  <2>7. \A m \in members : KnownAs(m, s.tag)
    <3> SUFFICES ASSUME NEW q \in Pids, Present(q), proc[q].sess = s.pid
                 PROVE  KnownAs(Identity(q), s.tag)
        OBVIOUS
    <3>1. Present(s.pid) /\ proc[s.pid].sess = s.pid /\ proc[s.pid].tag = s.tag
          BY <1>2 DEF ChildOf, KnownAs, Is, ProcessOf
    <3>2. proc[q].tag = s.tag
          BY <2>3, <3>1 DEF IInv, ProcessInv, Sessions, SessionsHaveOneTag
    <3> QED  BY <2>5, <3>2 DEF KnownAs, Is, Identity
  <2>8. members \in SUBSET [pid : Pids, ticks : Nat]  BY <2>5 DEF Identity
  <2>9. /\ Opened(ProcessOf(s), s.tag) \in LeaseRecord /\ Opened(ProcessOf(s), s.tag).tag = s.tag
        /\ Opened(ProcessOf(s), s.tag).step = "list"
        BY <2>3, OpenedIs
  <2> HIDE DEF members
  <2>10. lease' \in LeaseRecord /\ lease'.members = members /\ lease'.tag = s.tag /\ lease'.step = "list"
         BY <2>1, <2>8, <2>9 DEF LeaseRecord
  <2>11. Onward  BY <2>6, KeptStays DEF IInv, ProcessInv
  <2>12. \A i, t : KnownAs(i, t) => KnownAs(i, t)'  BY <2>5, <2>11, KnownStays
  <2>13. MembersKnown'
    <3> SUFFICES ASSUME NEW m \in members PROVE KnownAs(m, lease.tag)'
        BY <2>10 DEF MembersKnown
    <3>1. KnownAs(m, s.tag)  BY <2>7
    <3> QED  BY <2>10, <2>12, <3>1 DEF KnownAs, Is, Present
  <2>14. TargetsKnown'  BY <2>10 DEF TargetsKnown
  <2> QED  BY <1>1, <1>2, <2>2, <2>4, <2>6, <2>10, <2>13, <2>14, GoOnKeeps
<1> QED  BY <1>3, <1>4

LEMMA KillUncapturedKeeps ==
  ASSUME IInv, KillUncaptured
  PROVE  IInv'
<1> DEFINE marked(p) == IF Live(p) /\ proc[p].sess = op.spawned.pid
                        THEN [proc[p] EXCEPT !.killed = TRUE] ELSE proc[p]
<1>1. /\ op.step = "capture" /\ UNCHANGED Rest /\ record' = record
      /\ proc' = [p \in Pids |-> marked(p)] /\ Goto("uncaptured")
      /\ lease' = [NoLease EXCEPT !.step = "scan", !.session = op.spawned.pid]
      BY DEF KillUncaptured
<1>2. op.spawned # NULL /\ op.spawned \in ServerIdentity
      BY <1>1, Typed DEF IInv, AdapterInv, StepsFollow
<1>3. \A p \in Pids : /\ marked(p) \in ProcessRecord /\ marked(p).state = proc[p].state
                      /\ marked(p).sess = proc[p].sess /\ marked(p).tag = proc[p].tag
  <2> TAKE p \in Pids
  <2>1. proc[p] \in ProcessRecord  BY Typed
  <2>2. /\ [proc[p] EXCEPT !.killed = TRUE] \in ProcessRecord
        /\ [proc[p] EXCEPT !.killed = TRUE].state = proc[p].state
        /\ [proc[p] EXCEPT !.killed = TRUE].sess = proc[p].sess
        /\ [proc[p] EXCEPT !.killed = TRUE].tag = proc[p].tag
        BY <2>1 DEF ProcessRecord
  <2> QED  BY <2>1, <2>2
<1> HIDE DEF marked
<1>4. proc' \in [Pids -> ProcessRecord]  BY <1>1, <1>3
<1>5. Kept  BY <1>1, <1>3 DEF Kept, Present, Rest
<1>6. lease' \in LeaseRecord /\ (MembersKnown /\ TargetsKnown)'
  <2>1. op.spawned.pid \in Pids  BY <1>2 DEF ServerIdentity
  <2> QED  BY <1>1, <2>1, NoLeaseIs, NobodyKnown
<1>7. op' \in Operation /\ op'.driver = op.driver /\ op'.spawned = op.spawned /\ op'.step = "uncaptured"
      BY <1>1, Typed, GotoIs
<1> QED  BY <1>1, <1>2, <1>4, <1>5, <1>6, <1>7, GoOnKeeps

LEMMA VerifyUncapturedKeeps ==
  ASSUME IInv, VerifyUncaptured
  PROVE  IInv'
<1>1. /\ op.step = "uncaptured" /\ UNCHANGED Rest /\ record' = record
      /\ proc' = Reaped(op.driver, op.spawned.pid)
      BY DEF VerifyUncaptured
<1>2. \/ End
      \/ lease' = [lease EXCEPT !.step = "scan", !.listed = {}] /\ op' = op /\ lease.step = "look"
      BY DEF VerifyUncaptured
<1>3. op.spawned # NULL /\ op.spawned \in ServerIdentity
      BY <1>1, Typed DEF IInv, AdapterInv, StepsFollow
<1>4. proc' \in [Pids -> ProcessRecord] /\ Kept
  <2>1. op.spawned.pid \in Pids /\ ticks' = ticks  BY <1>1, <1>3 DEF ServerIdentity, Rest
  <2> QED  BY <1>1, <2>1, Typed, ReapedKeeps
<1>5. CASE End  BY <1>1, <1>4, <1>5, EndKeeps
<1>6. CASE lease' = [lease EXCEPT !.step = "scan", !.listed = {}] /\ op' = op
  <2>1. /\ lease' \in LeaseRecord /\ lease'.members = lease.members /\ lease'.tag = lease.tag
        /\ lease'.step = "scan"
        BY <1>6, Typed DEF LeaseRecord
  <2>2. Onward /\ ticks \in [Pids -> Nat] /\ ticks' = ticks
        BY <1>1, <1>4, KeptStays, Typed DEF IInv, ProcessInv, Rest
  <2>3. \A i, t : KnownAs(i, t) => KnownAs(i, t)'  BY <2>2, KnownStays
  <2>4. MembersKnown'
    <3> SUFFICES ASSUME NEW m \in lease.members PROVE KnownAs(m, lease.tag)'
        BY <2>1 DEF MembersKnown
    <3>1. KnownAs(m, lease.tag)  BY DEF IInv, ProcessInv, MembersKnown
    <3> QED  BY <2>1, <2>3, <3>1 DEF KnownAs, Is, Present
  <2>5. TargetsKnown'  BY <2>1 DEF TargetsKnown
  <2> QED  BY <1>1, <1>3, <1>4, <1>6, <2>1, <2>4, <2>5, Typed, GoOnKeeps
<1> QED  BY <1>2, <1>5, <1>6

\* The spawned server becomes the recorded one.
LEMMA RecordStartedKeeps ==
  ASSUME IInv, RecordStarted
  PROVE  IInv'
<1>1. /\ op.step = "evidence" /\ UNCHANGED Rest /\ proc' = proc /\ lease' = lease
      /\ record' = [server |-> op.spawned, request |-> op.request, status |-> "STARTED"]
      BY DEF RecordStarted
<1>2. PICK step \in {"mismatch", "probe"} :
        op' = [op EXCEPT !.step = step, !.spawned = NULL, !.request = NULL]
      BY DEF RecordStarted
<1>3. /\ op.spawned # NULL /\ op.spawned \in ServerIdentity /\ op.driver \in Drivers
      /\ op.spawned.boot = boot /\ ServerKnown(op.spawned)
      BY <1>1, Typed DEF IInv, AdapterInv, StepsFollow, SpawnedKnown
<1>4. proc' \in [Pids -> ProcessRecord] /\ Kept  BY <1>1, UnchangedKeeps
<1>5. ProcessInv' /\ \A i, t : KnownAs(i, t) => KnownAs(i, t)'  BY <1>1, <1>4, StepKeeps
<1>6. op' \in Operation /\ op'.driver = op.driver /\ op'.spawned = NULL /\ op'.step = step
      BY <1>2, Typed DEF Operation
<1>7. record' \in ServerExecutionRecord /\ record'.server = op.spawned
  <2>1. op.request \in Requests \cup {NULL} /\ "STARTED" \in ServerExecutionStatus
        BY Typed DEF Operation, ServerExecutionStatus
  <2> QED  BY <1>1, <1>3, <2>1 DEF ServerExecutionRecord
<1>8. AdapterTyped'  BY <1>1, <1>6, <1>7 DEF IInv, AdapterInv, AdapterTyped, Rest
<1>9. RecordKnown'
  <2>1. KnownAs(ProcessOf(op.spawned), op.spawned.tag)  BY <1>3 DEF ServerKnown
  <2>2. boot' = boot /\ boot \in Nat /\ ticks' = ticks  BY <1>1, Typed DEF Rest
  <2> QED  BY <1>1, <1>3, <1>7, <2>1, <2>2 DEF RecordKnown, ServerKnown, KnownAs, Is, Present, ProcessOf
<1>10. SpawnedKnown' /\ StepsFollow'
       BY <1>3, <1>6, <1>7 DEF SpawnedKnown, StepsFollow
<1> QED  BY <1>5, <1>8, <1>9, <1>10 DEF IInv, AdapterInv

LEMMA RecordFailsKeeps ==
  ASSUME IInv, RecordFails
  PROVE  IInv'
<1>1. /\ op.step = "evidence" /\ UNCHANGED Rest /\ record' = record /\ Asking(op.spawned)
      /\ (Goto("open") /\ UNCHANGED lease) \/ End
      BY DEF RecordFails
<1>2. op.spawned # NULL /\ op.spawned \in ServerIdentity
      BY <1>1, Typed DEF IInv, AdapterInv, StepsFollow
<1>3. proc' \in [Pids -> ProcessRecord] /\ Kept  BY <1>1, <1>2, AskingKeeps DEF Asking
<1>4. CASE End  BY <1>1, <1>3, <1>4, EndKeeps
<1>5. CASE Goto("open") /\ UNCHANGED lease
  <2>1. op' \in Operation /\ op'.driver = op.driver /\ op'.spawned = op.spawned /\ op'.step = "open"
        BY <1>5, Typed, GotoIs
  <2> QED  BY <1>1, <1>2, <1>3, <1>5, <2>1, GoOnKeeps
<1> QED  BY <1>1, <1>4, <1>5

LEMMA MismatchKeeps ==
  ASSUME IInv, Mismatch
  PROVE  IInv'
<1>1. op.step = "mismatch" /\ UNCHANGED Rest /\ proc' = proc /\ Mark("STARTED") /\ End
      BY DEF Mismatch
<1>2. record \in ServerExecutionRecord /\ "STARTED" \in ServerExecutionStatus
      BY <1>1 DEF IInv, AdapterInv, StepsFollow, ServerExecutionStatus
<1>3. proc' \in [Pids -> ProcessRecord] /\ Kept  BY <1>1, UnchangedKeeps
<1> QED  BY <1>1, <1>2, <1>3, EndKeeps

LEMMA InspectReusedKeeps ==
  ASSUME IInv, InspectReused
  PROVE  IInv'
<1>1. /\ op.step = "inspect" /\ UNCHANGED Rest /\ proc' = proc
      /\ (Goto("probe") /\ UNCHANGED << record, lease >>) \/ (Mark("STARTED") /\ End)
      BY DEF InspectReused
<1>2. record \in ServerExecutionRecord /\ op.spawned = NULL /\ "STARTED" \in ServerExecutionStatus
      BY <1>1 DEF IInv, AdapterInv, StepsFollow, ServerExecutionStatus
<1>3. proc' \in [Pids -> ProcessRecord] /\ Kept  BY <1>1, UnchangedKeeps
<1>4. CASE Mark("STARTED") /\ End  BY <1>1, <1>2, <1>3, <1>4, EndKeeps
<1>5. CASE Goto("probe") /\ UNCHANGED << record, lease >>
  <2>1. op' \in Operation /\ op'.driver = op.driver /\ op'.spawned = op.spawned /\ op'.step = "probe"
        BY <1>5, Typed, GotoIs
  <2> QED  BY <1>1, <1>2, <1>3, <1>5, <2>1, GoOnKeeps
<1> QED  BY <1>1, <1>4, <1>5

LEMMA WaitForHealthKeeps ==
  ASSUME IInv, WaitForHealth
  PROVE  IInv'
<1>1. op.step = "probe" /\ UNCHANGED Rest /\ Asking(record.server) /\ Mark("STARTED") /\ End
      BY DEF WaitForHealth
<1>2. /\ record \in ServerExecutionRecord /\ record.server \in ServerIdentity
      /\ "STARTED" \in ServerExecutionStatus
      BY <1>1, Typed DEF IInv, AdapterInv, StepsFollow, ServerExecutionStatus
<1>3. proc' \in [Pids -> ProcessRecord] /\ Kept  BY <1>1, <1>2, AskingKeeps DEF Asking
<1> QED  BY <1>1, <1>2, <1>3, EndKeeps

-----------------------------------------------------------------------------
(* stop                                                                    *)

\* Asking whether a server lives does not change whether it is of this boot.
LEMMA LoadForStopKeeps ==
  ASSUME IInv, LoadForStop
  PROVE  IInv'
<1>1. op.step = "load" /\ UNCHANGED Rest  BY DEF LoadForStop
<1>2. CASE End /\ UNCHANGED << proc, record >>
  <2>1. proc' \in [Pids -> ProcessRecord] /\ Kept  BY <1>1, <1>2, UnchangedKeeps
  <2> QED  BY <1>1, <1>2, <2>1, EndKeeps
<1>3. CASE ~(End /\ UNCHANGED << proc, record >>)
  <2>1. record # NULL /\ Asking(record.server)  BY <1>3 DEF LoadForStop
  <2>2. record \in ServerExecutionRecord /\ record.server \in ServerIdentity  BY <2>1, Typed
  <2>3. proc' \in [Pids -> ProcessRecord] /\ Kept  BY <1>1, <2>1, <2>2, AskingKeeps DEF Asking
  <2>4. CASE IsExact(record.server, op.driver)
    <3>1. /\ op' = [op EXCEPT !.step = "exact", !.request = NULL]
          /\ UNCHANGED << record, lease >>
          BY <1>3, <2>4 DEF LoadForStop
    <3>2. op' \in Operation /\ op'.driver = op.driver /\ op'.spawned = op.spawned /\ op'.step = "exact"
          BY <3>1, Typed DEF Operation
    <3>3. record.server.boot = boot  BY <2>4 DEF IsExact
    <3>4. op.spawned = NULL  BY <1>1 DEF IInv, AdapterInv, StepsFollow
    <3> QED  BY <1>1, <2>2, <2>3, <3>1, <3>2, <3>3, <3>4, GoOnKeeps
  <2>5. CASE ~IsExact(record.server, op.driver)
    <3>1. End /\ (UNCHANGED record \/ Mark("ORPHANED"))  BY <1>3, <2>5 DEF LoadForStop
    <3>2. "ORPHANED" \in ServerExecutionStatus  BY DEF ServerExecutionStatus
    <3> QED  BY <1>1, <2>2, <2>3, <3>1, <3>2, EndKeeps
  <2> QED  BY <2>4, <2>5
<1> QED  BY <1>2, <1>3

LEMMA CheckExactKeeps ==
  ASSUME IInv, CheckExact
  PROVE  IInv'
<1>1. op.step = "exact" /\ UNCHANGED Rest /\ Asking(record.server)  BY DEF CheckExact
<1>2. record \in ServerExecutionRecord /\ record.server \in ServerIdentity
      BY <1>1, Typed DEF IInv, AdapterInv, StepsFollow
<1>3. proc' \in [Pids -> ProcessRecord] /\ Kept  BY <1>1, <1>2, AskingKeeps DEF Asking
<1>4. CASE IsExact(record.server, op.driver)
  <2>1. Goto("open") /\ UNCHANGED << record, lease >>  BY <1>4 DEF CheckExact
  <2>2. op' \in Operation /\ op'.driver = op.driver /\ op'.spawned = op.spawned /\ op'.step = "open"
        BY <2>1, Typed, GotoIs
  <2>3. record.server.boot = boot  BY <1>4 DEF IsExact
  <2> QED  BY <1>1, <1>2, <1>3, <2>1, <2>2, <2>3, GoOnKeeps
<1>5. CASE ~IsExact(record.server, op.driver)
  <2>1. Mark("ORPHANED") /\ End  BY <1>5 DEF CheckExact
  <2>2. "ORPHANED" \in ServerExecutionStatus  BY DEF ServerExecutionStatus
  <2> QED  BY <1>1, <1>2, <1>3, <2>1, <2>2, EndKeeps
<1> QED  BY <1>4, <1>5

\* The lease is opened on a process that is still the server of this boot.
LEMMA OpenLeaseKeeps ==
  ASSUME IInv, OpenLease
  PROVE  IInv'
<1>1. op.step = "open" /\ UNCHANGED Rest /\ proc' = proc /\ record' = record  BY DEF OpenLease
<1>2. proc' \in [Pids -> ProcessRecord] /\ Kept  BY <1>1, UnchangedKeeps
<1>3. CASE End  BY <1>1, <1>2, <1>3, EndKeeps
<1>4. CASE lease' = Opened(ProcessOf(Target), Target.tag) /\ Goto("terminate")
  <2>1. Target \in ServerIdentity /\ KnownAs(ProcessOf(Target), Target.tag)
    <3>1. CASE op.spawned # NULL
          BY <3>1, Typed DEF Target, IInv, AdapterInv, SpawnedKnown, ServerKnown
    <3>2. CASE op.spawned = NULL
      <4>1. record \in ServerExecutionRecord /\ record.server.boot = boot
            BY <1>1, <3>2 DEF IInv, AdapterInv, StepsFollow
      <4> QED  BY <3>2, <4>1, Typed DEF Target, IInv, AdapterInv, RecordKnown, ServerKnown
    <3> QED  BY <3>1, <3>2
  <2>2. ProcessOf(Target) \in [pid : Pids, ticks : Nat] /\ Target.tag \in Nat
        BY <2>1 DEF ProcessOf, ServerIdentity
  <2>3. /\ lease' \in LeaseRecord /\ lease'.members = {ProcessOf(Target)} /\ lease'.tag = Target.tag
        /\ lease'.step = "list"
        BY <1>4, <2>2, OpenedIs
  <2>4. MembersKnown' /\ TargetsKnown'
    <3>1. ticks' = ticks  BY <1>1 DEF Rest
    <3>2. \A i, t : KnownAs(i, t) => KnownAs(i, t)'  BY <1>1, <3>1 DEF KnownAs, Is, Present
    <3>3. MembersKnown'
      <4> SUFFICES ASSUME NEW m, m = ProcessOf(Target) PROVE KnownAs(m, lease.tag)'
          BY <2>3 DEF MembersKnown
      <4>1. KnownAs(m, Target.tag)  BY <2>1
      <4> QED  BY <2>3, <3>2, <4>1 DEF KnownAs, Is, Present
    <3> QED  BY <2>3, <3>3 DEF TargetsKnown
  <2>5. op' \in Operation /\ op'.driver = op.driver /\ op'.spawned = op.spawned /\ op'.step = "terminate"
        BY <1>4, Typed, GotoIs
  <2>6. op.spawned = NULL => record \in ServerExecutionRecord /\ record.server.boot = boot
        BY <1>1 DEF IInv, AdapterInv, StepsFollow
  <2> QED  BY <1>1, <1>2, <2>3, <2>4, <2>5, <2>6, GoOnKeeps
<1> QED  BY <1>3, <1>4 DEF OpenLease

LEMMA TerminatedKeeps ==
  ASSUME IInv, Terminated
  PROVE  IInv'
<1>1. /\ op.step \in {"terminate", "rollback"} /\ UNCHANGED Rest /\ record' = record
      /\ proc' = Reaped(op.driver, Target.pid)
      BY DEF Terminated
<1>2. op.spawned = NULL => record \in ServerExecutionRecord
      BY <1>1 DEF IInv, AdapterInv, StepsFollow
<1>3. Target \in ServerIdentity  BY <1>2, Typed DEF Target
<1>4. proc' \in [Pids -> ProcessRecord] /\ Kept
  <2>1. Target.pid \in Pids /\ ticks' = ticks  BY <1>1, <1>3 DEF ServerIdentity, Rest
  <2> QED  BY <1>1, <2>1, Typed, ReapedKeeps
<1>5. CASE op.spawned # NULL
  <2>1. End  BY <1>5 DEF Terminated
  <2> QED  BY <1>1, <1>4, <2>1, EndKeeps
<1>6. CASE op.spawned = NULL
  <2>1. Goto("stopped") /\ lease' = NoLease  BY <1>6 DEF Terminated
  <2>2. op' \in Operation /\ op'.driver = op.driver /\ op'.spawned = op.spawned /\ op'.step = "stopped"
        BY <2>1, Typed, GotoIs
  <2>3. lease' \in LeaseRecord /\ (MembersKnown /\ TargetsKnown)'  BY <2>1, NoLeaseIs, NobodyKnown
  <2> QED  BY <1>1, <1>2, <1>4, <1>6, <2>2, <2>3, GoOnKeeps
<1> QED  BY <1>5, <1>6

\* Forgetting who left a session changes no session.
LEMMA ForgottenIs ==
  ASSUME NEW table \in [Pids -> ProcessRecord]
  PROVE  /\ Forgotten(table) \in [Pids -> ProcessRecord]
         /\ \A p \in Pids : /\ Forgotten(table)[p].state = table[p].state
                            /\ Forgotten(table)[p].sess = table[p].sess
                            /\ Forgotten(table)[p].tag = table[p].tag
<1>1. \A p \in Pids : /\ [table[p] EXCEPT !.held = FALSE] \in ProcessRecord
                      /\ [table[p] EXCEPT !.held = FALSE].state = table[p].state
                      /\ [table[p] EXCEPT !.held = FALSE].sess = table[p].sess
                      /\ [table[p] EXCEPT !.held = FALSE].tag = table[p].tag
      BY DEF ProcessRecord
<1>2. Forgotten(table) = [p \in Pids |-> [table[p] EXCEPT !.held = FALSE]]  BY DEF Forgotten
<1> QED  BY <1>1, <1>2

LEMMA TerminationFailsKeeps ==
  ASSUME IInv, TerminationFails
  PROVE  IInv'
<1>1. UNCHANGED Rest /\ record' = record /\ proc' = Forgotten(proc) /\ End  BY DEF TerminationFails
<1>2. /\ proc' \in [Pids -> ProcessRecord]
      /\ \A p \in Pids : proc'[p].state = proc[p].state /\ proc'[p].sess = proc[p].sess
                         /\ proc'[p].tag = proc[p].tag
      BY <1>1, Typed, ForgottenIs
<1>3. Kept  BY <1>1, <1>2 DEF Kept, Present, Rest
<1> QED  BY <1>1, <1>2, <1>3, EndKeeps

LEMMA RecordStoppedKeeps ==
  ASSUME IInv, RecordStopped
  PROVE  IInv'
<1>1. /\ op.step = "stopped" /\ UNCHANGED Rest /\ proc' = proc /\ End
      /\ Mark("STOPPED") \/ Mark("ORPHANED")
      BY DEF RecordStopped
<1>2. record \in ServerExecutionRecord /\ {"STOPPED", "ORPHANED"} \subseteq ServerExecutionStatus
      BY <1>1 DEF IInv, AdapterInv, StepsFollow, ServerExecutionStatus
<1>3. proc' \in [Pids -> ProcessRecord] /\ Kept  BY <1>1, UnchangedKeeps
<1> QED  BY <1>1, <1>2, <1>3, EndKeeps

-----------------------------------------------------------------------------
(* Drivers and the host.                                                   *)

LEMMA CrashKeeps ==
  ASSUME IInv, Crash
  PROVE  IInv'
<1>1. /\ proc' = Forgotten(Orphaned(op.driver)) /\ End
      /\ UNCHANGED << ticks, servers, strayed, boot, record >>
      BY DEF Crash
<1>2. op' = NoOp /\ lease' = NoLease  BY <1>1 DEF End
<1>3. /\ proc' \in [Pids -> ProcessRecord] /\ Kept
  <2>1. CASE Pids = {}
    <3>1. Orphaned(op.driver) \in [Pids -> ProcessRecord]  BY <2>1 DEF Orphaned
    <3> QED  BY <1>1, <2>1, <3>1, ForgottenIs DEF Kept
  <2>2. CASE Pids # {}
    <3> DEFINE table == Orphaned(op.driver)
    <3>1. PICK p \in Pids : TRUE  BY <2>2
    <3>2. /\ table \in [Pids -> ProcessRecord]
          /\ \A q \in Pids : table[q] \in {proc[q], NoProcess, [proc[q] EXCEPT !.parent = NULL]}
          BY <3>1, Typed, Endings
    <3>3. \A q \in Pids : \/ table[q] = NoProcess
                          \/ /\ table[q].state = proc[q].state /\ table[q].sess = proc[q].sess
                             /\ table[q].tag = proc[q].tag
      <4>1. \A q \in Pids : /\ [proc[q] EXCEPT !.parent = NULL].state = proc[q].state
                            /\ [proc[q] EXCEPT !.parent = NULL].sess = proc[q].sess
                            /\ [proc[q] EXCEPT !.parent = NULL].tag = proc[q].tag
            BY Typed DEF ProcessRecord
      <4> HIDE DEF table
      <4> QED  BY <3>2, <4>1
    <3> HIDE DEF table
    <3>4. proc' = Forgotten(table)  BY <1>1 DEF table
    <3>5. /\ proc' \in [Pids -> ProcessRecord]
          /\ \A q \in Pids : proc'[q].state = table[q].state /\ proc'[q].sess = table[q].sess
                             /\ proc'[q].tag = table[q].tag
          BY <3>2, <3>4, ForgottenIs
    <3>6. Kept  BY <1>1, <3>3, <3>5 DEF Kept, Present, NoProcess
    <3> QED  BY <3>5, <3>6
  <2> QED  BY <2>1, <2>2
<1>4. lease' \in LeaseRecord /\ (MembersKnown /\ TargetsKnown)'  BY <1>2, NoLeaseIs, NobodyKnown
<1>5. ProcessInv'
  <2>1. ~strayed' /\ servers' \in Nat  BY <1>1, Typed DEF IInv, ProcessInv
  <2> QED  BY <1>1, <1>3, <1>4, <2>1, EndingWithLease DEF IInv
<1>6. \A i, t : KnownAs(i, t) => KnownAs(i, t)'
  <2>1. Onward /\ ticks \in [Pids -> Nat]  BY <1>3, KeptStays, Typed DEF IInv, ProcessInv
  <2> QED  BY <1>1, <2>1, KnownStays
<1>7. record' \in ServerExecutionRecord \cup {NULL} /\ RecordKnown'  BY <1>1, <1>6, RecordKeeps
<1>8. AdapterTyped'  BY <1>1, <1>2, <1>7, NoOpIs DEF IInv, AdapterInv, AdapterTyped
<1>9. SpawnedKnown' /\ StepsFollow'  BY <1>2, NoOpIs DEF SpawnedKnown, StepsFollow
<1> QED  BY <1>5, <1>7, <1>8, <1>9 DEF IInv, AdapterInv

\* The child of an operation's driver is not orphaned by another driver's exit.
LEMMA ExitKeeps ==
  ASSUME IInv, NEW d \in Drivers, Exit(d)
  PROVE  IInv'
<1>1. /\ op.driver # d /\ proc' = Orphaned(d) /\ UNCHANGED << Rest, lease, record, op >>
      BY DEF Exit
<1>2. ticks' = ticks /\ boot' = boot  BY <1>1 DEF Rest
<1>3. proc' \in [Pids -> ProcessRecord] /\ Kept  BY <1>1, <1>2, Typed, OrphanedKeeps
<1>4. ProcessInv'  BY <1>1, <1>3, StepKeeps
<1>5. ticks' \in [Pids -> Nat] /\ Onward
      BY <1>2, <1>3, KeptStays, Typed DEF IInv, ProcessInv
<1>6. op.step \in {"none", "load", "port", "capture"} => lease' = NoLease
      BY <1>1 DEF IInv, AdapterInv, StepsFollow
<1>7. ASSUME op.step = "capture" PROVE ChildOf(op.spawned, op.driver)'
  <2>1. ChildOf(op.spawned, op.driver) /\ op.spawned \in ServerIdentity
        BY <1>7, Typed DEF IInv, AdapterInv, StepsFollow
  <2>2. op.spawned.pid \in Pids /\ proc[op.spawned.pid].parent # d
        BY <1>1, <2>1 DEF ChildOf, ServerIdentity
  <2>3. \A q \in Pids : proc[q].parent # d => Orphaned(d)[q] = proc[q]  BY DEF Orphaned
  <2>4. proc'[op.spawned.pid] = proc[op.spawned.pid]  BY <1>1, <2>2, <2>3
  <2> QED  BY <1>1, <1>2, <2>1, <2>4 DEF ChildOf, Is, Present, ProcessOf
<1>8. AdapterInv'  BY <1>1, <1>2, <1>5, <1>6, <1>7, AdapterStays
<1> QED  BY <1>4, <1>8 DEF IInv

\* After a reboot nobody is present, and no recorded server is of this boot.
LEMMA RebootKeeps ==
  ASSUME IInv, Reboot
  PROVE  IInv'
<1>1. /\ op = NoOp /\ boot' = boot + 1 /\ UNCHANGED << servers, strayed, lease, record, op >>
      /\ proc' = [p \in Pids |-> NoProcess] /\ ticks' = [p \in Pids |-> 0]
      BY DEF Reboot
<1>2. lease = NoLease  BY <1>1, NoOpIs DEF IInv, AdapterInv, StepsFollow
<1>3. proc' \in [Pids -> ProcessRecord] /\ ticks' \in [Pids -> Nat]
  <2>1. NoProcess \in ProcessRecord  BY DEF NoProcess, ProcessRecord
  <2> QED  BY <1>1, <2>1
<1>4. \A p \in Pids : ~Present(p)'  BY <1>1 DEF Present, NoProcess
<1>5. Sessions'  BY <1>4 DEF Sessions, SessionsHaveOneTag, SessionsHaveLeaders
<1>6. (MembersKnown /\ TargetsKnown)'  BY <1>1, <1>2, NoLeaseIs, NobodyKnown
<1>7. ProcessInv'
      BY <1>1, <1>2, <1>3, <1>5, <1>6, NoLeaseIs, Typed DEF IInv, ProcessInv, ProcessesTyped
<1>8. AdapterTyped'  BY <1>1 DEF IInv, AdapterInv, AdapterTyped
<1>9. RecordKnown'
  <2> SUFFICES ASSUME record \in ServerExecutionRecord
               PROVE  record.server.boot <= boot + 1 /\ record.server.boot # boot + 1
      BY <1>1 DEF RecordKnown, ServerKnown
  <2>1. record.server.boot <= boot /\ boot \in Nat /\ record.server.boot \in Nat
        BY Typed DEF IInv, AdapterInv, RecordKnown, ServerIdentity
  <2> QED  BY <2>1
<1>10. SpawnedKnown' /\ StepsFollow'  BY <1>1, <1>2, NoOpIs DEF SpawnedKnown, StepsFollow
<1> QED  BY <1>7, <1>8, <1>9, <1>10 DEF IInv, AdapterInv

-----------------------------------------------------------------------------
LEMMA Start ==
  ASSUME Init
  PROVE  IInv
<1>1. /\ proc = [p \in Pids |-> NoProcess] /\ ticks = [p \in Pids |-> 0] /\ servers = 0
      /\ strayed = FALSE /\ lease = NoLease /\ boot = 0 /\ record = NULL /\ op = NoOp
      BY DEF Init, ProcessInit
<1>2. NoProcess \in ProcessRecord /\ NoProcess.state = "none"  BY DEF NoProcess, ProcessRecord
<1>3. ProcessesTyped  BY <1>1, <1>2, NoLeaseIs DEF ProcessesTyped
<1>4. Sessions  BY <1>1, <1>2 DEF Sessions, SessionsHaveOneTag, SessionsHaveLeaders, Present
<1>5. MembersKnown /\ TargetsKnown  BY <1>1, NoLeaseIs DEF MembersKnown, TargetsKnown
<1>6. AdapterTyped  BY <1>1, NoOpIs DEF AdapterTyped
<1>7. RecordKnown
  <2> SUFFICES ASSUME NULL \in ServerExecutionRecord PROVE FALSE
      BY <1>1 DEF RecordKnown
  <2> QED  BY ServerAssumption
<1>8. SpawnedKnown /\ StepsFollow  BY <1>1, NoOpIs DEF SpawnedKnown, StepsFollow
<1> QED  BY <1>1, <1>3, <1>4, <1>5, <1>6, <1>7, <1>8 DEF IInv, ProcessInv, AdapterInv

LEMMA Preserved ==
  ASSUME IInv, [Next]_vars
  PROVE  IInv'
<1>1. CASE UNCHANGED vars
  <2>1. UNCHANGED << proc, ticks, servers, strayed, lease, boot, record, op >>
        BY <1>1 DEF vars, processVars
  <2>2. ProcessInv'
        BY <2>1 DEF IInv, ProcessInv, ProcessesTyped, Sessions, SessionsHaveOneTag, SessionsHaveLeaders,
                    MembersKnown, TargetsKnown, KnownAs, Is, Present
  <2>3. AdapterInv'
        BY <2>1 DEF IInv, AdapterInv, AdapterTyped, RecordKnown, SpawnedKnown, StepsFollow, ServerKnown,
                    ChildOf, KnownAs, Is, Present, ProcessOf
  <2> QED  BY <2>2, <2>3 DEF IInv
<1>2. CASE AdapterStep
      BY <1>2, LoadForStartKeeps, ScanListKeeps, ScanLookKeeps, SpawnRefusedKeeps, SpawnServerKeeps,
         CaptureKeeps, KillUncapturedKeeps, VerifyUncapturedKeeps, RecordStartedKeeps, RecordFailsKeeps,
         MismatchKeeps, InspectReusedKeeps, WaitForHealthKeeps, LoadForStopKeeps, CheckExactKeeps,
         OpenLeaseKeeps, CleanupKeeps, TerminatedKeeps, TerminationFailsKeeps, RecordStoppedKeeps
      DEF AdapterStep
<1>3. ASSUME NEW d \in Drivers, NEW kind \in {"start", "stop"}, NEW r \in Requests \cup {NULL},
             Begin(d, kind, r)
      PROVE  IInv'
      BY <1>3, BeginKeeps
<1>4. CASE Processes \/ Crash \/ Reboot  BY <1>4, ProcessesKeep, CrashKeeps, RebootKeeps
<1>5. ASSUME NEW d \in Drivers, Exit(d) PROVE IInv'  BY <1>5, ExitKeeps
<1> QED  BY <1>1, <1>2, <1>3, <1>4, <1>5 DEF Next

\* Whatever numbers the system reuses, and whatever dies, forks or leaves
\* its session meanwhile, the adapter's cleanup (process_group.py, _signal and
\* _refresh) signals processes of the server that it ends, and no other.
THEOREM SignalsStay == Spec => []SignalsStayInSession
<1>1. Init => IInv  BY Start
<1>2. IInv /\ [Next]_vars => IInv'  BY Preserved
<1>3. IInv => SignalsStayInSession  BY DEF IInv, ProcessInv, SignalsStayInSession
<1> QED  BY <1>1, <1>2, <1>3, PTL DEF Spec

-----------------------------------------------------------------------------

HeldAlive == { p \in Pids : Live(p) /\ proc[p].held }

\* Spawns are numbered; processes of others have the number 0.
TagsNumbered ==
  /\ \A p \in Pids : Present(p) => proc[p].tag <= servers
  /\ op.spawned # NULL => op.spawned.tag \in 1 .. servers
  /\ record # NULL => record.server.tag \in 1 .. servers
  /\ op.spawned # NULL /\ record # NULL => record.server.tag # op.spawned.tag

\* The processes of one session left together, or none did.
SessionsLeaveTogether ==
  \A p, q \in Pids : Present(p) /\ Present(q) /\ proc[p].sess = proc[q].sess => proc[p].away = proc[q].away

\* Who did not leave the session of server s is in it, and s is of this boot.
InSessionOf(s) ==
  \A p \in Pids : Present(p) /\ proc[p].tag = s.tag /\ ~proc[p].away =>
    s.boot = boot /\ proc[p].sess = s.pid

SessionsKnown ==
  /\ record # NULL => InSessionOf(record.server)
  /\ op.spawned # NULL => InSessionOf(op.spawned)

\* The leader of a session does not leave it.
Leads(s) ==
  s.boot = boot /\ Is(ProcessOf(s)) => proc[s.pid].sess = s.pid /\ ~proc[s.pid].away

LeadersStay ==
  /\ record # NULL => Leads(record.server)
  /\ op.spawned # NULL => Leads(op.spawned)

\* What a lease is open for.
LeaseFollows ==
  /\ op.step \notin {"scan", "uncaptured", "terminate", "rollback"} => lease = NoLease
  /\ op.step \in {"terminate", "rollback"} =>
       /\ lease.session = Target.pid /\ lease.tag = Target.tag
       /\ lease.step \in {"list", "read", "signal", "send", "done", "failed"}
       /\ lease.phase \in {"opened", "term", "grace", "kill"}
  /\ op.step = "scan" => record # NULL /\ lease.session = record.server.pid
  /\ op.step = "uncaptured" => lease.session = op.spawned.pid
  /\ op.step \in {"scan", "uncaptured"} => lease.step \in {"scan", "look"}

\* A member under the number of the session is its leader, and the members
\* in the session did not leave it.
MembersInSession ==
  \A m \in lease.members : Is(m) =>
    /\ m.pid = lease.session => proc[m.pid].sess = lease.session
    /\ proc[m.pid].sess = lease.session => ~proc[m.pid].away

\* Only a lease holds processes, its own, and no scan misses one.
HeldByLease ==
  \A p \in HeldAlive :
    /\ op.step \in {"terminate", "rollback"} /\ Identity(p) \in lease.members
    /\ lease.step # "done" /\ (lease.step = "read" => p \in lease.listed)

DoneMeansGone ==
  /\ lease.step = "done" => Gone(lease.tag)
  /\ op.step = "stopped" => Gone(record.server.tag)

\* While a server is being started, the recorded one is gone.
RecordedIsGone ==
  (op.step = "port" \/ op.spawned # NULL) /\ record # NULL => Gone(record.server.tag)

\* A session that was found empty and is looked at again stays so.
StoppedStays ==
  record # NULL /\ record.status = "STOPPED" =>
    /\ Gone(record.server.tag)
    /\ record.server.tag \notin raced /\ op.step = "terminate" /\ op.spawned = NULL =>
         \A m \in lease.members : ~(Is(m) /\ Live(m.pid))

SpawnsTold == TagsNumbered /\ SessionsLeaveTogether /\ SessionsKnown /\ LeadersStay

LeasesScan == LeaseFollows /\ MembersInSession /\ HeldByLease /\ ListedAll

ServersFound == DoneMeansGone /\ RecordedIsGone /\ StoppedStays /\ EveryServerIsRecorded

OInv == IInv /\ SpawnsTold /\ LeasesScan /\ ServersFound

-----------------------------------------------------------------------------
(* What most steps do to the processes: some end, none begins or moves.    *)

Fades ==
  \A p \in Pids : /\ ticks'[p] = ticks[p]
                  /\ Present(p)' => /\ Present(p) /\ (Live(p)' => Live(p))
                                    /\ proc'[p].sess = proc[p].sess /\ proc'[p].tag = proc[p].tag
                                    /\ proc'[p].away = proc[p].away
                                    /\ proc'[p].held => proc[p].held

LEMMA FadesKeeps ==
  ASSUME Fades, raced \subseteq raced'
  PROVE  /\ \A t : Mine(t)' \subseteq Mine(t)
         /\ \A t : Gone(t) => Gone(t)'
         /\ \A p \in HeldAlive' : p \in HeldAlive /\ Identity(p)' = Identity(p)
<1>1. \A t : Mine(t)' \subseteq Mine(t)  BY DEF Mine, Fades, Live, Present
<1>2. \A p \in HeldAlive' : p \in HeldAlive /\ Identity(p)' = Identity(p)
      BY DEF HeldAlive, Fades, Live, Present, Identity
<1>3. \A t : Gone(t) => Gone(t)'  BY <1>1 DEF Gone
<1> QED  BY <1>1, <1>2, <1>3

LEMMA MineIsAlive ==
  /\ \A t : Alive(t) <=> Mine(t) # {}
  /\ \A t : Alive(t)' <=> Mine(t)' # {}
BY DEF Alive, Mine

\* What the processes of a session and of a spawn keep.
LEMMA SpawnsFade ==
  ASSUME Fades, boot' = boot
  PROVE  /\ SessionsLeaveTogether => SessionsLeaveTogether'
         /\ \A s : InSessionOf(s) => InSessionOf(s)'
         /\ \A s : s.pid \in Pids /\ Leads(s) => Leads(s)'
<1>1. SessionsLeaveTogether => SessionsLeaveTogether'
      BY DEF SessionsLeaveTogether, Fades
<1>2. \A s : InSessionOf(s) => InSessionOf(s)'  BY DEF InSessionOf, Fades
<1>3. \A s : s.pid \in Pids /\ Leads(s) => Leads(s)'  BY DEF Leads, Fades, Is, ProcessOf
<1> QED  BY <1>1, <1>2, <1>3

LEMMA MembersFade ==
  ASSUME Fades, MembersInSession, MembersKnown,
         lease'.members = {} \/ (lease'.members = lease.members /\ lease'.session = lease.session)
  PROVE  MembersInSession'
<1> SUFFICES ASSUME NEW m \in lease.members, lease'.members = lease.members, lease'.session = lease.session,
                    Is(m)'
             PROVE  /\ m.pid = lease.session => proc'[m.pid].sess = lease.session
                    /\ proc'[m.pid].sess = lease.session => ~proc'[m.pid].away
    BY DEF MembersInSession
<1>1. m.pid \in Pids  BY DEF MembersKnown, KnownAs
<1>2. Is(m) /\ proc'[m.pid].sess = proc[m.pid].sess /\ proc'[m.pid].away = proc[m.pid].away
      BY <1>1 DEF Fades, Is
<1> QED  BY <1>2 DEF MembersInSession

LEMMA Recorded ==
  ASSUME IInv
  PROVE  /\ record # NULL <=> record \in ServerExecutionRecord
         /\ op.spawned # NULL <=> op.spawned \in ServerIdentity
<1>1. record # NULL <=> record \in ServerExecutionRecord  BY Typed, ServerAssumption
<1>2. op.spawned # NULL <=> op.spawned \in ServerIdentity  BY Typed, ServerAssumption
<1> QED  BY <1>1, <1>2

\* A step of an operation that opens no lease, scans nothing and spawns nobody.
LEMMA Ordinary ==
  ASSUME OInv, IInv', Fades, UNCHANGED << raced, servers, boot >>, leaked \subseteq leaked',
         \/ record' = record
         \/ /\ record # NULL /\ record' # NULL /\ record'.server = record.server
            /\ record'.status = "STOPPED" => op.step = "stopped",
         op'.spawned = op.spawned \/ op'.spawned = NULL,
         op.spawned # NULL /\ op'.spawned = NULL =>
           Gone(op.spawned.tag) \/ op.spawned.tag \in leaked',
         op'.step \notin {"terminate", "rollback"}, LeaseFollows',
         lease'.members = {} \/ (lease'.members = lease.members /\ lease'.session = lease.session),
         lease'.step \notin {"read", "look", "done"},
         HeldAlive' = {},
         op'.step = "port" /\ record # NULL => Gone(record.server.tag),
         op'.step = "stopped" => record' = record /\ Gone(record.server.tag)
  PROVE  OInv'
<1>1. /\ \A t : Mine(t)' \subseteq Mine(t)
      /\ \A t : Gone(t) => Gone(t)'
      BY FadesKeeps
<1>2. record' # NULL => record # NULL /\ record'.server = record.server  OBVIOUS
<1>3. op'.spawned # NULL => op.spawned # NULL /\ op'.spawned = op.spawned  OBVIOUS
<1>4. TagsNumbered'
  <2>1. \A p \in Pids : Present(p)' => proc'[p].tag <= servers'
        BY DEF OInv, SpawnsTold, TagsNumbered, Fades
  <2> QED  BY <1>2, <1>3, <2>1 DEF OInv, SpawnsTold, TagsNumbered
<1>5. SessionsLeaveTogether'  BY SpawnsFade DEF OInv, SpawnsTold
<1>6. SessionsKnown'
  <2>1. \A s : InSessionOf(s) => InSessionOf(s)'  BY SpawnsFade
  <2> QED  BY <1>2, <1>3, <2>1 DEF OInv, SpawnsTold, SessionsKnown, InSessionOf, Present
<1>7. MembersInSession'  BY MembersFade DEF OInv, IInv, ProcessInv, LeasesScan
<1>13. LeadersStay'
  <2>1. \A s : s.pid \in Pids /\ Leads(s) => Leads(s)'  BY SpawnsFade
  <2>2. record # NULL => record.server.pid \in Pids  BY Typed DEF OInv, ServerIdentity
  <2>3. op.spawned # NULL => op.spawned.pid \in Pids  BY Typed DEF OInv, ServerIdentity
  <2> QED  BY <1>2, <1>3, <2>1, <2>2, <2>3
           DEF OInv, SpawnsTold, LeadersStay, Leads, Is, Present, ProcessOf
<1>8. HeldByLease' /\ ListedAll'  BY DEF HeldByLease, ListedAll
<1>9. DoneMeansGone'  BY <1>1 DEF DoneMeansGone, Gone, Mine, Live
<1>10. RecordedIsGone'
  <2> SUFFICES ASSUME record' # NULL, op'.step = "port" \/ op'.spawned # NULL
               PROVE  Gone(record.server.tag)'
      BY DEF RecordedIsGone
  <2>1. Gone(record.server.tag)
        BY <1>2, <1>3 DEF OInv, ServersFound, RecordedIsGone
  <2> QED  BY <1>1, <1>2, <2>1 DEF Gone, Mine, Live
<1>11. StoppedStays'
  <2> SUFFICES ASSUME record' # NULL, record'.status = "STOPPED"
               PROVE  Gone(record.server.tag)'
      BY DEF StoppedStays
  <2>1. Gone(record.server.tag)
    <3>1. CASE record' = record  BY <3>1 DEF OInv, ServersFound, StoppedStays
    <3>2. CASE op.step = "stopped"  BY <3>2 DEF OInv, ServersFound, DoneMeansGone
    <3> QED  BY <3>1, <3>2
  <2> QED  BY <1>1, <1>2, <2>1 DEF Gone, Mine, Live
<1>12. EveryServerIsRecorded'
  <2> SUFFICES ASSUME NEW t \in Accounted', Alive(t)'
               PROVE  \/ record' # NULL /\ record'.server.tag = t
                      \/ op'.spawned # NULL /\ op'.spawned.tag = t
      BY DEF EveryServerIsRecorded
  <2>1. t \in Accounted /\ t \notin raced /\ t \notin leaked'  BY DEF Accounted
  <2>2. Alive(t) /\ ~Gone(t)  BY <1>1, <2>1, MineIsAlive DEF Gone
  <2>3. \/ record # NULL /\ record.server.tag = t
        \/ op.spawned # NULL /\ op.spawned.tag = t
        BY <2>1, <2>2 DEF OInv, ServersFound, EveryServerIsRecorded
  <2> QED  BY <1>2, <1>3, <2>1, <2>2, <2>3
<1> QED  BY <1>4, <1>5, <1>6, <1>7, <1>8, <1>9, <1>10, <1>11, <1>12, <1>13
         DEF OInv, SpawnsTold, LeasesScan, ServersFound

\* An operation ends.
LEMMA Ends ==
  ASSUME OInv, IInv', Fades, UNCHANGED << raced, servers, boot >>, leaked \subseteq leaked', End,
         HeldAlive' = {},
         \/ record' = record
         \/ /\ record # NULL /\ \E status \in ServerExecutionStatus :
                  Mark(status) /\ (status = "STOPPED" => op.step = "stopped"),
         op.spawned # NULL => Gone(op.spawned.tag) \/ op.spawned.tag \in leaked'
  PROVE  OInv'
<1>1. op' = NoOp /\ lease' = NoLease  BY DEF End
<1>2. /\ op'.step = "none" /\ op'.spawned = NULL /\ lease'.members = {} /\ lease'.step = "none"
      BY <1>1, NoOpIs, NoLeaseIs
<1>3. LeaseFollows'  BY <1>1, <1>2 DEF LeaseFollows
<1>4. ASSUME record # NULL, NEW status \in ServerExecutionStatus, Mark(status)
      PROVE  record' # NULL /\ record'.server = record.server /\ record'.status = status
  <2>1. record \in ServerExecutionRecord  BY <1>4, Typed DEF OInv
  <2>2. record' \in ServerExecutionRecord /\ record'.server = record.server /\ record'.status = status
        BY <1>4, <2>1 DEF Mark, ServerExecutionRecord
  <2> QED  BY <2>2, ServerAssumption
<1>5. \/ record' = record
      \/ /\ record # NULL /\ record' # NULL /\ record'.server = record.server
         /\ record'.status = "STOPPED" => op.step = "stopped"
      BY <1>4
<1> QED  BY <1>2, <1>3, <1>5, Ordinary

LEMMA FadesIf ==
  ASSUME ticks' = ticks,
         \A q \in Pids : \/ proc'[q] = NoProcess
                         \/ /\ proc'[q].state = proc[q].state /\ proc'[q].sess = proc[q].sess
                            /\ proc'[q].tag = proc[q].tag /\ proc'[q].away = proc[q].away
                            /\ proc'[q].held => proc[q].held
  PROVE  Fades
<1>1. NoProcess.state = "none"  BY DEF NoProcess
<1> QED  BY <1>1 DEF Fades, Present, Live

LEMMA ReapedFades ==
  ASSUME IInv, ticks' = ticks, NEW d, NEW p \in Pids, proc' = Reaped(d, p)
  PROVE  Fades
<1>1. \A q \in Pids : proc'[q] \in {proc[q], NoProcess}  BY Typed, Endings
<1> QED  BY <1>1, FadesIf

LEMMA AskingFades ==
  ASSUME IInv, ticks' = ticks, NEW s \in ServerIdentity, proc' = Asked(s, op.driver)
  PROVE  Fades
<1>1. s.pid \in Pids  BY DEF ServerIdentity
<1>2. CASE s.boot = boot
  <2>1. proc' = Reaped(op.driver, s.pid)  BY <1>2 DEF Asked
  <2> QED  BY <1>1, <2>1, ReapedFades
<1>3. CASE s.boot # boot
  <2>1. proc' = proc  BY <1>3 DEF Asked
  <2> QED  BY <2>1, FadesIf
<1> QED  BY <1>2, <1>3

\* Without a cleanup nobody is held.
LEMMA NobodyHeld ==
  ASSUME OInv, Fades, op.step \notin {"terminate", "rollback"} \/ lease.step = "done"
  PROVE  HeldAlive = {} /\ HeldAlive' = {}
<1>1. HeldAlive = {}  BY DEF OInv, LeasesScan, HeldByLease
<1>2. HeldAlive' \subseteq HeldAlive  BY DEF HeldAlive, Fades, Live, Present
<1> QED  BY <1>1, <1>2

-----------------------------------------------------------------------------
(* start_or_resume                                                         *)

LEMMA BeginOwns ==
  ASSUME OInv, IInv', NEW d \in Drivers, NEW kind \in {"start", "stop"}, NEW r \in Requests \cup {NULL},
         Begin(d, kind, r)
  PROVE  OInv'
<1>1. /\ op = NoOp /\ op' = [NoOp EXCEPT !.driver = d, !.kind = kind, !.request = r, !.step = "load"]
      /\ UNCHANGED << proc, ticks, servers, raced, lease, boot, record, leaked >>
      BY DEF Begin, processVars
<1>2. op'.step = "load" /\ op'.spawned = NULL  BY <1>1 DEF NoOp
<1>3. lease = NoLease /\ op.step = "none"  BY <1>1, NoOpIs DEF OInv, LeasesScan, LeaseFollows
<1>4. Fades  BY <1>1, FadesIf
<1>5. LeaseFollows'  BY <1>1, <1>2, <1>3 DEF LeaseFollows
<1>6. HeldAlive' = {}  BY <1>3, <1>4, NobodyHeld
<1> QED  BY <1>1, <1>2, <1>3, <1>4, <1>5, <1>6, NoLeaseIs, NoOpIs, Ordinary

\* A session in which a complete scan finds nobody alive is gone.
LEMMA ScanFindsAll ==
  ASSUME OInv, NEW s, InSessionOf(s), s.tag # 0, lease.session = s.pid, lease.step = "look",
         LiveMembers(lease.session, lease.listed) = {}
  PROVE  Gone(s.tag)
<1> SUFFICES ASSUME s.tag \notin raced, NEW p \in Mine(s.tag)
             PROVE  FALSE
    BY DEF Gone
<1>1. p \in Pids /\ Live(p) /\ Present(p) /\ proc[p].tag = s.tag /\ ~proc[p].away
      BY DEF Mine, Live, Present
<1>2. proc[p].sess = lease.session  BY <1>1 DEF InSessionOf
<1>3. p \in lease.listed  BY <1>1 DEF OInv, LeasesScan, ListedAll
<1> QED  BY <1>1, <1>2, <1>3 DEF LiveMembers

LEMMA LoadForStartOwns ==
  ASSUME OInv, IInv', LoadForStart
  PROVE  OInv'
<1>1. /\ op.step = "load" /\ record' = record /\ leaked' = leaked
      /\ UNCHANGED << ticks, raced, servers, boot >>
      BY DEF LoadForStart, Rest
<1>2. lease = NoLease /\ op.spawned = NULL  BY <1>1 DEF OInv, LeasesScan, LeaseFollows, IInv, AdapterInv, StepsFollow
<1>3. CASE record = NULL
  <2>1. Goto("port") /\ UNCHANGED << proc, lease >>  BY <1>3 DEF LoadForStart
  <2>2. Fades  BY <1>1, <2>1, FadesIf
  <2>3. op'.spawned = op.spawned /\ op'.step = "port"  BY <2>1, Typed, GotoIs DEF OInv
  <2>4. LeaseFollows'  BY <1>2, <2>1, <2>3 DEF LeaseFollows
  <2>5. HeldAlive' = {}  BY <1>1, <2>2, NobodyHeld
  <2> QED  BY <1>1, <1>2, <1>3, <2>1, <2>2, <2>3, <2>4, <2>5, NoLeaseIs, Ordinary
<1>4. CASE record # NULL
  <2>1. record \in ServerExecutionRecord /\ record.server \in ServerIdentity  BY <1>4, Typed DEF OInv
  <2>2. proc' = Asked(record.server, op.driver)  BY <1>4 DEF LoadForStart, Asking
  <2>3. Fades  BY <1>1, <2>1, <2>2, AskingFades DEF OInv
  <2>4. HeldAlive' = {}  BY <1>1, <2>3, NobodyHeld
  <2>5. \/ End
        \/ Goto("inspect") /\ UNCHANGED lease
        \/ record.server.boot # boot /\ Goto("port") /\ UNCHANGED lease
        \/ Goto("scan") /\ lease' = [NoLease EXCEPT !.step = "scan", !.session = record.server.pid]
        BY <1>4 DEF LoadForStart
  <2>6. CASE End  BY <1>1, <1>2, <2>3, <2>4, <2>6, Ends
  <2>7. CASE Goto("inspect") /\ UNCHANGED lease
    <3>1. op'.spawned = op.spawned /\ op'.step = "inspect"  BY <2>7, Typed, GotoIs DEF OInv
    <3>2. LeaseFollows'  BY <1>2, <2>7, <3>1 DEF LeaseFollows
    <3> QED  BY <1>1, <1>2, <2>3, <2>4, <2>7, <3>1, <3>2, NoLeaseIs, Ordinary
  <2>8. CASE record.server.boot # boot /\ Goto("port") /\ UNCHANGED lease
    <3>1. op'.spawned = op.spawned /\ op'.step = "port"  BY <2>8, Typed, GotoIs DEF OInv
    <3>2. LeaseFollows'  BY <1>2, <2>8, <3>1 DEF LeaseFollows
    <3>3. Gone(record.server.tag)
          BY <1>4, <2>8 DEF OInv, SpawnsTold, SessionsKnown, InSessionOf, Gone, Mine, Live, Present
    <3> QED  BY <1>1, <1>2, <2>3, <2>4, <2>8, <3>1, <3>2, <3>3, NoLeaseIs, Ordinary
  <2>9. CASE Goto("scan") /\ lease' = [NoLease EXCEPT !.step = "scan", !.session = record.server.pid]
    <3>1. op'.spawned = op.spawned /\ op'.step = "scan"  BY <2>9, Typed, GotoIs DEF OInv
    <3>2. lease'.step = "scan" /\ lease'.members = {} /\ lease'.session = record.server.pid
          BY <2>9 DEF NoLease
    <3>3. LeaseFollows'  BY <1>1, <1>4, <3>1, <3>2 DEF LeaseFollows
    <3> QED  BY <1>1, <1>2, <2>3, <2>4, <3>1, <3>2, <3>3, Ordinary
  <2> QED  BY <2>5, <2>6, <2>7, <2>8, <2>9
<1> QED  BY <1>3, <1>4

\* A step of a scan or of a cleanup, which at most marks the processes.
Marks ==
  \A p \in Pids : /\ ticks'[p] = ticks[p]
                  /\ proc'[p].state = proc[p].state /\ proc'[p].sess = proc[p].sess
                  /\ proc'[p].tag = proc[p].tag /\ proc'[p].away = proc[p].away

LEMMA MarksKeep ==
  ASSUME Marks, raced' = raced
  PROVE  /\ \A p \in Pids : (Live(p)' <=> Live(p)) /\ (Present(p)' <=> Present(p)) /\ Identity(p)' = Identity(p)
         /\ \A t : Mine(t)' = Mine(t)
         /\ \A t : Gone(t)' <=> Gone(t)
<1>1. \A p \in Pids : (Live(p)' <=> Live(p)) /\ (Present(p)' <=> Present(p)) /\ Identity(p)' = Identity(p)
      BY DEF Marks, Live, Present, Identity
<1>2. \A t : Mine(t)' = Mine(t)  BY DEF Marks, Mine, Live
<1> QED  BY <1>1, <1>2 DEF Gone

LEMMA LeaseMoves ==
  ASSUME OInv, IInv', Marks, UNCHANGED << servers, raced, boot, record, op, leaked >>,
         LeasesScan', StoppedStays', lease'.step = "done" => Gone(lease'.tag)
  PROVE  OInv'
<1>1. /\ \A p \in Pids : (Live(p)' <=> Live(p)) /\ (Present(p)' <=> Present(p))
      /\ \A t : Mine(t)' = Mine(t)
      /\ \A t : Gone(t)' <=> Gone(t)
      BY MarksKeep
<1>2. TagsNumbered'  BY <1>1 DEF OInv, SpawnsTold, TagsNumbered, Marks
<1>3. SessionsLeaveTogether'  BY <1>1 DEF OInv, SpawnsTold, SessionsLeaveTogether, Marks
<1>4. SessionsKnown'  BY <1>1 DEF OInv, SpawnsTold, SessionsKnown, InSessionOf, Marks
<1>8. LeadersStay'
  <2>1. \A s : s.pid \in Pids => (Leads(s)' <=> Leads(s))  BY <1>1 DEF Leads, Marks, Is, ProcessOf
  <2>2. record # NULL => record.server.pid \in Pids  BY Typed DEF OInv, ServerIdentity
  <2>3. op.spawned # NULL => op.spawned.pid \in Pids  BY Typed DEF OInv, ServerIdentity
  <2> QED  BY <2>1, <2>2, <2>3 DEF OInv, SpawnsTold, LeadersStay, Leads, Is, Present, ProcessOf
<1>5. DoneMeansGone'
  <2>1. lease'.step = "done" => Gone(lease.tag)'  BY <1>1 DEF Gone, Mine, Live
  <2>2. op.step = "stopped" => Gone(record.server.tag)'
        BY <1>1 DEF OInv, ServersFound, DoneMeansGone, Gone, Mine, Live
  <2> QED  BY <2>1, <2>2 DEF DoneMeansGone
<1>6. RecordedIsGone'
      BY <1>1 DEF OInv, ServersFound, RecordedIsGone, Gone, Mine, Live
<1>7. EveryServerIsRecorded'
  <2>1. \A t : Alive(t)' <=> Alive(t)  BY <1>1, MineIsAlive
  <2> QED  BY <2>1 DEF OInv, ServersFound, EveryServerIsRecorded, Accounted
<1> QED  BY <1>2, <1>3, <1>4, <1>5, <1>6, <1>7, <1>8 DEF OInv, SpawnsTold, ServersFound

\* What a step that keeps the members of the lease keeps.
LEMMA MembersStay ==
  ASSUME OInv, Marks, UNCHANGED << raced, record, op >>,
         lease'.members = lease.members, lease'.session = lease.session
  PROVE  MembersInSession' /\ StoppedStays'
<1>1. /\ \A p \in Pids : (Live(p)' <=> Live(p)) /\ (Present(p)' <=> Present(p))
      /\ \A t : Gone(t)' <=> Gone(t)
      BY MarksKeep
<1>2. \A m \in lease.members : m.pid \in Pids
      BY DEF OInv, IInv, ProcessInv, MembersKnown, KnownAs
<1>3. \A m \in lease.members : Is(m)' <=> Is(m)  BY <1>1, <1>2 DEF Is, Marks
<1>4. MembersInSession'
      BY <1>2, <1>3 DEF OInv, LeasesScan, MembersInSession, Marks
<1>5. StoppedStays'
  <2> SUFFICES ASSUME record # NULL, record.status = "STOPPED"
               PROVE  /\ Gone(record.server.tag)'
                      /\ record.server.tag \notin raced /\ op.step = "terminate" /\ op.spawned = NULL =>
                           \A m \in lease.members : ~(Is(m)' /\ Live(m.pid)')
      BY DEF StoppedStays
  <2>1. Gone(record.server.tag)'
        BY <1>1 DEF OInv, ServersFound, StoppedStays, Gone, Mine, Live
  <2> QED  BY <1>1, <1>2, <1>3, <2>1 DEF OInv, ServersFound, StoppedStays
<1> QED  BY <1>4, <1>5

LEMMA ScanListOwns ==
  ASSUME OInv, IInv', ScanList
  PROVE  OInv'
<1>1. /\ lease.step = "scan"
      /\ lease' = [lease EXCEPT !.step = "look", !.listed = { p \in Pids : Present(p) }]
      /\ UNCHANGED << proc, ticks, servers, raced, boot, record, op, leaked >>
      BY DEF ScanList, osVars
<1>2. /\ lease'.members = lease.members /\ lease'.session = lease.session /\ lease'.step = "look"
      /\ lease'.listed = { p \in Pids : Present(p) }
      BY <1>1, Typed DEF OInv, LeaseRecord
<1>3. Marks  BY <1>1 DEF Marks
<1>4. op.step \in {"scan", "uncaptured"}
      BY <1>1, NoLeaseIs DEF OInv, LeasesScan, LeaseFollows
<1>5. LeaseFollows'  BY <1>1, <1>2, <1>4 DEF OInv, LeasesScan, LeaseFollows
<1>6. HeldByLease'  BY <1>1, <1>4 DEF OInv, LeasesScan, HeldByLease, HeldAlive, Live
<1>7. ListedAll'  BY <1>1, <1>2 DEF ListedAll, Live, Present
<1> QED  BY <1>1, <1>2, <1>3, <1>5, <1>6, <1>7, MembersStay, LeaseMoves DEF LeasesScan

LEMMA ScanLookOwns ==
  ASSUME OInv, IInv', ScanLook
  PROVE  OInv'
<1>1. /\ op.step = "scan" /\ lease.step = "look" /\ proc' = proc /\ record' = record /\ leaked' = leaked
      /\ UNCHANGED << ticks, servers, raced, boot >>
      /\ IF LiveMembers(lease.session, lease.listed) # {} THEN End ELSE Goto("port") /\ lease' = NoLease
      BY DEF ScanLook, Rest
<1>2. Fades  BY <1>1, FadesIf
<1>3. HeldAlive' = {}  BY <1>1, <1>2, NobodyHeld
<1>4. op.spawned = NULL  BY <1>1 DEF OInv, IInv, AdapterInv, StepsFollow
<1>5. CASE End  BY <1>1, <1>2, <1>3, <1>4, <1>5, Ends
<1>6. CASE LiveMembers(lease.session, lease.listed) = {} /\ Goto("port") /\ lease' = NoLease
  <2>1. op'.spawned = op.spawned /\ op'.step = "port"  BY <1>6, Typed, GotoIs DEF OInv
  <2>2. LeaseFollows'  BY <1>6, <2>1 DEF LeaseFollows
  <2>3. record # NULL /\ lease.session = record.server.pid  BY <1>1 DEF OInv, LeasesScan, LeaseFollows
  <2>4. InSessionOf(record.server) /\ record.server.tag # 0
        BY <2>3, Typed DEF OInv, SpawnsTold, SessionsKnown, TagsNumbered
  <2>5. Gone(record.server.tag)  BY <1>1, <1>6, <2>3, <2>4, ScanFindsAll
  <2> QED  BY <1>1, <1>2, <1>3, <1>4, <1>6, <2>1, <2>2, <2>5, NoLeaseIs, Ordinary
<1> QED  BY <1>1, <1>5, <1>6

LEMMA SpawnRefusedOwns ==
  ASSUME OInv, IInv', SpawnRefused
  PROVE  OInv'
<1>1. /\ op.step = "port" /\ End /\ proc' = proc /\ record' = record /\ leaked' = leaked
      /\ UNCHANGED << ticks, servers, raced, boot >>
      BY DEF SpawnRefused, Rest
<1>2. Fades  BY <1>1, FadesIf
<1>3. op.spawned = NULL /\ HeldAlive' = {}
      BY <1>1, <1>2, NobodyHeld DEF OInv, IInv, AdapterInv, StepsFollow
<1> QED  BY <1>1, <1>2, <1>3, Ends

\* The new server has a number and a session of its own.
LEMMA SpawnServerOwns ==
  ASSUME OInv, IInv', SpawnServer
  PROVE  OInv'
<1>1. PICK p \in Pids :
        /\ Spawn(op.driver, p)
        /\ op' = [op EXCEPT !.step = "capture",
                            !.spawned = [pid |-> p, ticks |-> ticks[p] + 1, boot |-> boot,
                                         tag |-> servers + 1]]
      BY DEF SpawnServer
<1>2. op.step = "port" /\ UNCHANGED << boot, record, leaked, raced, lease >>  BY <1>1 DEF SpawnServer, Spawn
<1>3. lease = NoLease /\ op.driver \in Drivers /\ op.spawned = NULL
      BY <1>2 DEF OInv, IInv, AdapterInv, StepsFollow
<1>4. PICK d \in Drivers : d = op.driver  BY <1>3
<1>5. /\ servers' = servers + 1
      /\ ~Present(p) /\ proc'[p].sess = p /\ proc'[p].tag = servers + 1
      /\ p \in Unused /\ ~proc'[p].away /\ ~proc'[p].held
      /\ \A q \in Pids : q # p => proc'[q] = proc[q] /\ ticks'[q] = ticks[q]
      BY <1>1, <1>4, SpawnStep DEF OInv, IInv
<1>6. \A q \in Pids : Present(q) => proc[q].sess # p  BY <1>5 DEF Unused
<1>7. op'.step = "capture" /\ op'.spawned.tag = servers + 1 /\ op'.spawned.pid = p /\ op'.spawned.boot = boot
      BY <1>1, Typed DEF OInv, Operation
<1>8. servers \in Nat /\ \A q \in Pids : Present(q) => proc[q].tag <= servers /\ proc[q].tag \in Nat
      BY Typed DEF OInv, SpawnsTold, TagsNumbered, ProcessRecord
<1>9. record # NULL => record.server.tag \in 1 .. servers
      BY DEF OInv, SpawnsTold, TagsNumbered
<1>10. TagsNumbered'
  <2>1. \A q \in Pids : Present(q)' => proc'[q].tag <= servers'
        BY <1>5, <1>8 DEF Present
  <2> QED  BY <1>2, <1>5, <1>7, <1>8, <1>9, <2>1 DEF TagsNumbered
<1>11. SessionsLeaveTogether'
       BY <1>5, <1>6 DEF OInv, SpawnsTold, SessionsLeaveTogether, Present
<1>12. SessionsKnown'
  <2>1. record # NULL => InSessionOf(record.server)'
        BY <1>2, <1>5, <1>8, <1>9 DEF OInv, SpawnsTold, SessionsKnown, InSessionOf, Present
  <2>2. InSessionOf(op.spawned)'
    <3> SUFFICES ASSUME NEW q \in Pids, Present(q)', proc'[q].tag = servers + 1
                 PROVE  boot' = boot /\ proc'[q].sess = p
        BY <1>2, <1>7 DEF InSessionOf
    <3>1. q = p  BY <1>5, <1>8 DEF Present
    <3> QED  BY <1>2, <1>5, <3>1
  <2> QED  BY <1>2, <2>1, <2>2 DEF SessionsKnown
<1>19. LeadersStay'
  <2>1. record # NULL => Leads(record.server)'
    <3> SUFFICES ASSUME record # NULL, record.server.boot = boot, Is(ProcessOf(record.server))'
                 PROVE  LET l == record.server.pid IN proc'[l].sess = l /\ ~proc'[l].away
        BY <1>2 DEF Leads
    <3>1. record.server \in ServerIdentity /\ record.server.pid \in Pids
          BY Typed DEF OInv, ServerIdentity
    <3>2. record.server.ticks \in Nat /\ record.server.ticks <= ticks[record.server.pid]
          BY <3>1, Typed, Recorded
          DEF OInv, IInv, AdapterInv, RecordKnown, ServerKnown, KnownAs, ProcessOf, ServerIdentity
    <3>3. record.server.pid # p
      <4> SUFFICES ASSUME record.server.pid = p PROVE FALSE
          OBVIOUS
      <4>1. ticks'[p] = record.server.ticks  BY <1>2 DEF Is, ProcessOf
      <4>2. ticks'[p] = ticks[p] + 1 /\ ticks[p] \in Nat
            BY <1>1, <1>4, SpawnStep, Typed DEF OInv, IInv
      <4> QED  BY <3>2, <4>1, <4>2
    <3>4. proc'[record.server.pid] = proc[record.server.pid] /\ Is(ProcessOf(record.server))
          BY <1>2, <1>5, <3>1, <3>3 DEF Is, ProcessOf, Present
    <3> QED  BY <3>4 DEF OInv, SpawnsTold, LeadersStay, Leads
  <2>2. Leads(op.spawned)'  BY <1>5, <1>7 DEF Leads
  <2> QED  BY <1>2, <2>1, <2>2 DEF LeadersStay, Leads, Is, Present, ProcessOf
<1>13. \A t \in 1 .. servers : Mine(t)' = Mine(t)
  <2> SUFFICES ASSUME NEW t \in 1 .. servers, NEW q \in Pids
               PROVE  q \in Mine(t)' <=> q \in Mine(t)
      BY DEF Mine
  <2>1. CASE q = p
    <3>1. q \notin Mine(t)  BY <1>5, <2>1 DEF Mine, Live, Present
    <3>2. q \notin Mine(t)'  BY <1>5, <1>8, <2>1 DEF Mine
    <3> QED  BY <3>1, <3>2
  <2>2. CASE q # p  BY <1>5, <2>2 DEF Mine, Live
  <2> QED  BY <2>1, <2>2
<1>14. LeaseFollows' /\ MembersInSession' /\ ListedAll'
       BY <1>2, <1>3, <1>7, NoLeaseIs DEF LeaseFollows, MembersInSession, ListedAll
<1>15. HeldByLease'
  <2>1. HeldAlive = {}  BY <1>2 DEF OInv, LeasesScan, HeldByLease
  <2>2. HeldAlive' = {}  BY <1>5, <2>1 DEF HeldAlive, Live
  <2> QED  BY <2>2 DEF HeldByLease
<1>16. record # NULL => Gone(record.server.tag)'
  <2>1. record # NULL => Gone(record.server.tag)  BY <1>2 DEF OInv, ServersFound, RecordedIsGone
  <2> QED  BY <1>2, <1>9, <1>13, <2>1 DEF Gone, Mine, Live
<1>17. DoneMeansGone' /\ RecordedIsGone' /\ StoppedStays'
       BY <1>2, <1>3, <1>7, <1>16, NoLeaseIs DEF DoneMeansGone, RecordedIsGone, StoppedStays, Gone, Mine, Live
<1>18. EveryServerIsRecorded'
  <2> SUFFICES ASSUME NEW t \in Accounted', Alive(t)'
               PROVE  (record # NULL /\ record.server.tag = t) \/ (op'.spawned # NULL /\ op'.spawned.tag = t)
      BY <1>2 DEF EveryServerIsRecorded
  <2>1. op'.spawned # NULL  BY <1>7 DEF OInv, IInv, AdapterInv, StepsFollow
  <2>2. CASE t = servers + 1  BY <1>7, <2>1, <2>2
  <2>3. CASE t # servers + 1
    <3>1. PICK q \in Pids : Live(q)' /\ proc'[q].tag = t /\ ~proc'[q].away  BY DEF Alive
    <3>2. q # p  BY <1>5, <2>3, <3>1
    <3>3. Alive(t)  BY <1>5, <3>1, <3>2 DEF Alive, Live
    <3>4. t \in Accounted  BY <1>2 DEF Accounted
    <3> QED  BY <1>3, <3>3, <3>4 DEF OInv, ServersFound, EveryServerIsRecorded
  <2> QED  BY <2>2, <2>3
<1> QED  BY <1>10, <1>11, <1>12, <1>14, <1>15, <1>17, <1>18, <1>19 DEF OInv, SpawnsTold, LeasesScan, ServersFound

\* A step that goes on to another one, without a lease or with the same one.
LEMMA GoesOn ==
  ASSUME OInv, IInv', Fades, UNCHANGED << raced, servers, boot, record, leaked >>, lease = NoLease, lease' = lease,
         NEW step \in {"port", "inspect", "evidence", "open", "probe", "exact"}, Goto(step),
         step = "port" /\ record # NULL => Gone(record.server.tag),
         HeldAlive' = {}
  PROVE  OInv'
<1>1. op'.spawned = op.spawned /\ op'.step = step  BY Typed, GotoIs DEF OInv
<1>2. LeaseFollows'  BY <1>1 DEF LeaseFollows
<1> QED  BY <1>1, <1>2, NoLeaseIs, Ordinary

\* What a lease that has just been opened needs.
LEMMA Opens ==
  ASSUME OInv, IInv', Fades, UNCHANGED << raced, servers, boot, record, leaked >>,
         op'.spawned = op.spawned, op'.step \in {"terminate", "rollback"},
         LeaseFollows', MembersInSession', StoppedStays', HeldAlive' = {}, lease'.step = "list"
  PROVE  OInv'
<1>1. /\ \A t : Mine(t)' \subseteq Mine(t)
      /\ \A t : Gone(t) => Gone(t)'
      BY FadesKeeps
<1>2. TagsNumbered'
  <2>1. \A p \in Pids : Present(p)' => proc'[p].tag <= servers'
        BY DEF OInv, SpawnsTold, TagsNumbered, Fades
  <2> QED  BY <2>1 DEF OInv, SpawnsTold, TagsNumbered
<1>3. SessionsLeaveTogether'  BY SpawnsFade DEF OInv, SpawnsTold
<1>4. SessionsKnown'
  <2>1. \A s : InSessionOf(s) => InSessionOf(s)'  BY SpawnsFade
  <2> QED  BY <2>1 DEF OInv, SpawnsTold, SessionsKnown, InSessionOf, Present
<1>5. LeadersStay'
  <2>1. \A s : s.pid \in Pids /\ Leads(s) => Leads(s)'  BY SpawnsFade
  <2>2. record # NULL => record.server.pid \in Pids  BY Typed DEF OInv, ServerIdentity
  <2>3. op.spawned # NULL => op.spawned.pid \in Pids  BY Typed DEF OInv, ServerIdentity
  <2> QED  BY <2>1, <2>2, <2>3 DEF OInv, SpawnsTold, LeadersStay, Leads, Is, Present, ProcessOf
<1>6. HeldByLease' /\ ListedAll' /\ DoneMeansGone'  BY DEF HeldByLease, ListedAll, DoneMeansGone
<1>7. RecordedIsGone'
  <2> SUFFICES ASSUME record # NULL, op.spawned # NULL PROVE Gone(record.server.tag)'
      BY DEF RecordedIsGone
  <2>1. Gone(record.server.tag)  BY DEF OInv, ServersFound, RecordedIsGone
  <2> QED  BY <1>1, <2>1 DEF Gone, Mine, Live
<1>8. EveryServerIsRecorded'
  <2>1. \A t : Alive(t)' => Alive(t)  BY <1>1, MineIsAlive
  <2> QED  BY <2>1 DEF OInv, ServersFound, EveryServerIsRecorded, Accounted
<1> QED  BY <1>2, <1>3, <1>4, <1>5, <1>6, <1>7, <1>8 DEF OInv, SpawnsTold, LeasesScan, ServersFound

\* The session of a leader that died before its identity was read is rolled back.
LEMMA CaptureOwns ==
  ASSUME OInv, IInv', CaptureIdentity
  PROVE  OInv'
<1> DEFINE s == op.spawned
           members == { Identity(p) : p \in { q \in Pids : Present(q) /\ proc[q].sess = s.pid } }
<1>1. /\ op.step = "capture" /\ UNCHANGED << ticks, servers, raced, boot, record, leaked >>
      /\ IF proc[s.pid].state = "live"
         THEN Goto("evidence") /\ UNCHANGED << proc, lease >>
         ELSE /\ proc' = [Asked(s, op.driver) EXCEPT ![s.pid] = NoProcess]
              /\ lease' = [Opened(ProcessOf(s), s.tag) EXCEPT !.members = members, !.phase = "term"]
              /\ Goto("rollback")
      BY DEF CaptureIdentity, Rest
<1>2. lease = NoLease  BY <1>1 DEF OInv, LeasesScan, LeaseFollows
<1>3. s # NULL /\ s \in ServerIdentity /\ s.boot = boot /\ ChildOf(s, op.driver)
      BY <1>1, Typed DEF OInv, IInv, AdapterInv, SpawnedKnown, StepsFollow
<1>4. CASE proc[s.pid].state = "live"
  <2>1. Fades  BY <1>1, <1>4, FadesIf
  <2>2. HeldAlive' = {}  BY <1>1, <2>1, NobodyHeld
  <2> QED  BY <1>1, <1>2, <1>4, <2>1, <2>2, GoesOn
<1>5. CASE proc[s.pid].state # "live"
  <2>1. /\ proc' = [Asked(s, op.driver) EXCEPT ![s.pid] = NoProcess]
        /\ lease' = [Opened(ProcessOf(s), s.tag) EXCEPT !.members = members, !.phase = "term"]
        /\ Goto("rollback")
        BY <1>1, <1>5
  <2>2. s.pid \in Pids /\ s.tag \in Nat /\ ProcessOf(s) \in [pid : Pids, ticks : Nat]
        BY <1>3 DEF ServerIdentity, ProcessOf
  <2>3. /\ \A q \in Pids : proc'[q] \in {proc[q], NoProcess}
        /\ proc'[s.pid] = NoProcess
    <3>1. /\ Reaped(op.driver, s.pid) \in [Pids -> ProcessRecord]
          /\ \A q \in Pids : Reaped(op.driver, s.pid)[q] \in {proc[q], NoProcess}
          BY <2>2, Typed, Endings DEF OInv
    <3>2. Asked(s, op.driver) = Reaped(op.driver, s.pid)  BY <1>3 DEF Asked
    <3> QED  BY <2>1, <2>2, <3>1, <3>2
  <2>4. Fades  BY <1>1, <2>3, FadesIf
  <2>5. HeldAlive' = {}  BY <1>1, <2>4, NobodyHeld
  <2>6. op'.spawned = op.spawned /\ op'.step = "rollback"  BY <2>1, Typed, GotoIs DEF OInv
  <2>7. /\ lease'.members = members /\ lease'.tag = s.tag /\ lease'.step = "list"
        /\ lease'.session = s.pid /\ lease'.phase = "term"
        BY <2>1 DEF Opened, NoLease, ProcessOf
  <2>8. Target' = s  BY <1>3, <2>6 DEF Target
  <2>9. LeaseFollows'  BY <2>6, <2>7, <2>8 DEF LeaseFollows
  <2>10. MembersInSession'
    <3> SUFFICES ASSUME NEW m \in members, Is(m)'
                 PROVE  proc'[m.pid].sess = s.pid /\ ~proc'[m.pid].away
        BY <2>7 DEF MembersInSession
    <3> PICK q \in Pids : m = Identity(q) /\ Present(q) /\ proc[q].sess = s.pid
        OBVIOUS
    <3>1. m.pid = q /\ proc'[q] = proc[q]  BY <2>3 DEF Is, Present, Identity, NoProcess
    <3>2. Present(s.pid) /\ proc[s.pid].sess = s.pid  BY <1>3 DEF ChildOf, Is, ProcessOf
    <3>3. ~proc[s.pid].away
          BY <1>3 DEF OInv, SpawnsTold, LeadersStay, Leads, ChildOf
    <3>4. ~proc[q].away  BY <2>2, <3>2, <3>3 DEF OInv, SpawnsTold, SessionsLeaveTogether
    <3> QED  BY <3>1, <3>4
  <2>11. StoppedStays'
    <3>1. ASSUME record # NULL, record.status = "STOPPED" PROVE Gone(record.server.tag)
          BY <3>1 DEF OInv, ServersFound, StoppedStays
    <3>2. \A t : Gone(t) => Gone(t)'  BY <1>1, <2>4, FadesKeeps
    <3>3. op'.spawned # NULL  BY <1>3, <2>6
    <3> QED  BY <1>1, <3>1, <3>2, <3>3 DEF StoppedStays, Gone, Mine, Live
  <2> QED  BY <1>1, <2>4, <2>5, <2>6, <2>7, <2>9, <2>10, <2>11, Opens
<1> QED  BY <1>4, <1>5

LEMMA KillUncapturedOwns ==
  ASSUME OInv, IInv', KillUncaptured
  PROVE  OInv'
<1> DEFINE hit(p) == IF Live(p) /\ proc[p].sess = op.spawned.pid
                     THEN [proc[p] EXCEPT !.killed = TRUE] ELSE proc[p]
<1>1. /\ op.step = "capture" /\ UNCHANGED << ticks, servers, raced, boot, record, leaked >>
      /\ proc' = [p \in Pids |-> hit(p)] /\ Goto("uncaptured")
      /\ lease' = [NoLease EXCEPT !.step = "scan", !.session = op.spawned.pid]
      BY DEF KillUncaptured, Rest
<1>2. \A p \in Pids : /\ hit(p).state = proc[p].state /\ hit(p).sess = proc[p].sess
                      /\ hit(p).tag = proc[p].tag /\ hit(p).away = proc[p].away
                      /\ hit(p).held = proc[p].held
  <2> TAKE p \in Pids
  <2>1. proc[p] \in ProcessRecord  BY Typed DEF OInv
  <2> QED  BY <2>1 DEF ProcessRecord
<1> HIDE DEF hit
<1>3. Fades  BY <1>1, <1>2, FadesIf
<1>4. HeldAlive' = {}  BY <1>1, <1>3, NobodyHeld
<1>5. op'.spawned = op.spawned /\ op'.step = "uncaptured"  BY <1>1, Typed, GotoIs DEF OInv
<1>6. lease'.step = "scan" /\ lease'.members = {} /\ lease'.session = op.spawned.pid
      BY <1>1 DEF NoLease
<1>7. LeaseFollows'  BY <1>5, <1>6 DEF LeaseFollows
<1> QED  BY <1>1, <1>3, <1>4, <1>5, <1>6, <1>7, Ordinary

LEMMA VerifyUncapturedOwns ==
  ASSUME OInv, IInv', VerifyUncaptured
  PROVE  OInv'
<1>1. /\ op.step = "uncaptured" /\ lease.step = "look" /\ proc' = Reaped(op.driver, op.spawned.pid)
      /\ UNCHANGED << ticks, servers, raced, boot, record >>
      BY DEF VerifyUncaptured, Rest
<1>2. /\ op.spawned # NULL /\ op.spawned \in ServerIdentity /\ op.spawned.pid \in Pids
      BY <1>1, Typed DEF OInv, IInv, AdapterInv, StepsFollow, ServerIdentity
<1>3. Fades  BY <1>1, <1>2, ReapedFades DEF OInv
<1>4. HeldAlive' = {}  BY <1>1, <1>3, NobodyHeld
<1>5. lease.session = op.spawned.pid  BY <1>1 DEF OInv, LeasesScan, LeaseFollows
<1>6. CASE LiveMembers(lease.session, lease.listed) = {} /\ End /\ UNCHANGED leaked
  <2>1. InSessionOf(op.spawned) /\ op.spawned.tag # 0
        BY <1>2 DEF OInv, SpawnsTold, SessionsKnown, TagsNumbered
  <2>2. Gone(op.spawned.tag)  BY <1>1, <1>5, <1>6, <2>1, ScanFindsAll
  <2> QED  BY <1>1, <1>3, <1>4, <1>6, <2>2, Ends
<1>7. CASE lease' = [lease EXCEPT !.step = "scan", !.listed = {}] /\ UNCHANGED << op, leaked >>
  <2>1. lease'.step = "scan" /\ lease'.members = lease.members /\ lease'.session = lease.session
        BY <1>7, Typed DEF OInv, LeaseRecord
  <2>2. LeaseFollows'  BY <1>1, <1>5, <1>7, <2>1 DEF LeaseFollows
  <2> QED  BY <1>1, <1>3, <1>4, <1>7, <2>1, <2>2, Ordinary
<1>8. CASE End /\ leaked' = leaked \cup {op.spawned.tag}
      BY <1>1, <1>3, <1>4, <1>8, Ends
<1> QED  BY <1>6, <1>7, <1>8 DEF VerifyUncaptured

\* The recorded server is gone when another one takes its place.
LEMMA RecordStartedOwns ==
  ASSUME OInv, IInv', RecordStarted
  PROVE  OInv'
<1>1. /\ op.step = "evidence" /\ UNCHANGED << proc, ticks, servers, raced, boot, lease, leaked >>
      /\ record' = [server |-> op.spawned, request |-> op.request, status |-> "STARTED"]
      BY DEF RecordStarted, Rest
<1>2. PICK verdict \in {"mismatch", "probe"} :
        op' = [op EXCEPT !.step = verdict, !.spawned = NULL, !.request = NULL]
      BY DEF RecordStarted
<1>3. op'.step = verdict /\ op'.spawned = NULL  BY <1>2, Typed DEF OInv, Operation
<1>4. lease = NoLease /\ lease' = NoLease  BY <1>1 DEF OInv, LeasesScan, LeaseFollows
<1>5. op.spawned # NULL  BY <1>1 DEF OInv, IInv, AdapterInv, StepsFollow
<1>6. record'.server = op.spawned /\ record'.status = "STARTED"  BY <1>1
<1>7. TagsNumbered'  BY <1>1, <1>3, <1>5, <1>6 DEF OInv, SpawnsTold, TagsNumbered, Present
<1>8. SessionsLeaveTogether'  BY <1>1 DEF OInv, SpawnsTold, SessionsLeaveTogether, Present
<1>9. SessionsKnown'
      BY <1>1, <1>3, <1>5, <1>6 DEF OInv, SpawnsTold, SessionsKnown, InSessionOf, Present
<1>10. LeadersStay'
       BY <1>1, <1>3, <1>5, <1>6 DEF OInv, SpawnsTold, LeadersStay, Leads, Is, Present, ProcessOf
<1>11. LeaseFollows' /\ MembersInSession' /\ ListedAll'
       BY <1>3, <1>4, NoLeaseIs DEF LeaseFollows, MembersInSession, ListedAll
<1>12. HeldByLease'
  <2>1. HeldAlive = {}  BY <1>1 DEF OInv, LeasesScan, HeldByLease
  <2> QED  BY <1>1, <2>1 DEF HeldByLease, HeldAlive, Live
<1>13. DoneMeansGone' /\ RecordedIsGone' /\ StoppedStays'
       BY <1>3, <1>4, <1>6, NoLeaseIs DEF DoneMeansGone, RecordedIsGone, StoppedStays
<1>14. EveryServerIsRecorded'
  <2> SUFFICES ASSUME NEW t \in Accounted', Alive(t)'
               PROVE  record' # NULL /\ record'.server.tag = t
      BY DEF EveryServerIsRecorded
  <2>1. Alive(t) /\ t \in Accounted  BY <1>1 DEF Alive, Live, Accounted
  <2>2. record # NULL => record.server.tag # t
    <3> SUFFICES ASSUME record # NULL PROVE record.server.tag # t
        OBVIOUS
    <3>1. Gone(record.server.tag)  BY <1>5 DEF OInv, ServersFound, RecordedIsGone
    <3> QED  BY <2>1, <3>1, MineIsAlive DEF Gone, Accounted
  <2>3. op.spawned.tag = t  BY <2>1, <2>2 DEF OInv, ServersFound, EveryServerIsRecorded
  <2>4. record' # NULL
    <3>1. record' \in ServerExecutionRecord
          BY <1>1, <1>5, Typed DEF OInv, ServerExecutionRecord, Operation, ServerExecutionStatus
    <3> QED  BY <3>1, ServerAssumption
  <2> QED  BY <1>6, <2>3, <2>4
<1> QED  BY <1>7, <1>8, <1>9, <1>10, <1>11, <1>12, <1>13, <1>14
         DEF OInv, SpawnsTold, LeasesScan, ServersFound

LEMMA RecordFailsOwns ==
  ASSUME OInv, IInv', RecordFails
  PROVE  OInv'
<1>1. /\ op.step = "evidence" /\ UNCHANGED << ticks, servers, raced, boot, record >>
      /\ proc' = Asked(op.spawned, op.driver)
      BY DEF RecordFails, Rest, Asking
<1>2. op.spawned \in ServerIdentity /\ lease = NoLease
      BY <1>1, Typed DEF OInv, IInv, AdapterInv, StepsFollow, LeasesScan, LeaseFollows
<1>3. Fades  BY <1>1, <1>2, AskingFades DEF OInv
<1>4. HeldAlive' = {}  BY <1>1, <1>3, NobodyHeld
<1>5. CASE Goto("open") /\ UNCHANGED << lease, leaked >>  BY <1>1, <1>2, <1>3, <1>4, <1>5, GoesOn
<1>6. CASE End /\ leaked' = leaked \cup {op.spawned.tag}  BY <1>1, <1>3, <1>4, <1>6, Ends
<1> QED  BY <1>5, <1>6 DEF RecordFails

\* The end of an operation that has found or made a record.
LEMMA RecordedEnds ==
  ASSUME OInv, IInv', op.step \in {"inspect", "mismatch", "probe", "exact", "load"}, op.spawned = NULL,
         UNCHANGED << ticks, servers, raced, boot >>, leaked' = leaked,
         proc' = proc \/ (record # NULL /\ proc' = Asked(record.server, op.driver)),
         record' = record \/ (record # NULL /\ (Mark("STARTED") \/ Mark("ORPHANED"))), End
  PROVE  OInv'
<1>1. Fades
  <2>1. CASE proc' = proc  BY <2>1, FadesIf
  <2>2. CASE record # NULL /\ proc' = Asked(record.server, op.driver)
    <3>1. record.server \in ServerIdentity  BY <2>2, Typed DEF OInv
    <3> QED  BY <2>2, <3>1, AskingFades DEF OInv
  <2> QED  BY <2>1, <2>2
<1>2. HeldAlive' = {}  BY <1>1, NobodyHeld
<1>3. {"STARTED", "ORPHANED"} \subseteq ServerExecutionStatus  BY DEF ServerExecutionStatus
<1>4. \/ record' = record
      \/ /\ record # NULL
         /\ \E status \in ServerExecutionStatus : Mark(status) /\ (status = "STOPPED" => op.step = "stopped")
  <2>1. Mark("STARTED") => \E status \in ServerExecutionStatus :
                             Mark(status) /\ (status = "STOPPED" => op.step = "stopped")
        BY <1>3
  <2>2. Mark("ORPHANED") => \E status \in ServerExecutionStatus :
                             Mark(status) /\ (status = "STOPPED" => op.step = "stopped")
        BY <1>3
  <2> QED  BY <2>1, <2>2
<1> QED  BY <1>1, <1>2, <1>4, Ends

\* After its record is written, a spawned server is the recorded one.
LEMMA NothingSpawned ==
  ASSUME OInv, op.step \in {"load", "inspect", "mismatch", "probe", "exact"}
  PROVE  op.spawned = NULL
BY DEF OInv, IInv, AdapterInv, StepsFollow

LEMMA RecordedSteps ==
  ASSUME OInv, IInv', Mismatch \/ InspectReused \/ WaitForHealth
  PROVE  OInv'
<1>1. op.step \in {"mismatch", "inspect", "probe"} /\ UNCHANGED << ticks, servers, raced, boot, leaked >>
      BY DEF Mismatch, InspectReused, WaitForHealth, Rest
<1>2. op.spawned = NULL /\ lease = NoLease
      BY <1>1, NothingSpawned DEF OInv, LeasesScan, LeaseFollows
<1>3. record # NULL
      BY <1>1, ServerAssumption DEF OInv, IInv, AdapterInv, StepsFollow
<1>4. CASE End /\ (Mark("STARTED") \/ Mark("ORPHANED")) /\ (proc' = proc \/ proc' = Asked(record.server, op.driver))
      BY <1>1, <1>2, <1>3, <1>4, RecordedEnds
<1>5. CASE Goto("probe") /\ UNCHANGED << proc, record, lease >>
  <2>1. Fades  BY <1>1, <1>5, FadesIf
  <2>2. HeldAlive' = {}  BY <1>1, <2>1, NobodyHeld
  <2> QED  BY <1>1, <1>2, <1>5, <2>1, <2>2, GoesOn
<1>6. CASE Mismatch  BY <1>4, <1>6 DEF Mismatch
<1>7. CASE InspectReused  BY <1>4, <1>5, <1>7 DEF InspectReused
<1>8. CASE WaitForHealth  BY <1>4, <1>8 DEF WaitForHealth, Asking
<1> QED  BY <1>6, <1>7, <1>8

-----------------------------------------------------------------------------
(* stop                                                                    *)

LEMMA LoadForStopOwns ==
  ASSUME OInv, IInv', LoadForStop
  PROVE  OInv'
<1>1. op.step = "load" /\ UNCHANGED << ticks, servers, raced, boot, leaked >>
      BY DEF LoadForStop, Rest
<1>2. op.spawned = NULL /\ lease = NoLease
      BY <1>1, NothingSpawned DEF OInv, LeasesScan, LeaseFollows
<1>3. CASE End /\ UNCHANGED << proc, record >>  BY <1>1, <1>2, <1>3, RecordedEnds
<1>4. CASE /\ record # NULL /\ proc' = Asked(record.server, op.driver)
           /\ op' = [op EXCEPT !.step = "exact", !.request = NULL] /\ UNCHANGED << record, lease >>
  <2>1. record.server \in ServerIdentity  BY <1>4, Typed DEF OInv
  <2>2. Fades  BY <1>1, <1>4, <2>1, AskingFades DEF OInv
  <2>3. HeldAlive' = {}  BY <1>1, <2>2, NobodyHeld
  <2>4. op'.step = "exact" /\ op'.spawned = op.spawned  BY <1>4, Typed DEF OInv, Operation
  <2>5. LeaseFollows'  BY <1>2, <1>4, <2>4 DEF LeaseFollows
  <2> QED  BY <1>1, <1>2, <1>4, <2>2, <2>3, <2>4, <2>5, NoLeaseIs, Ordinary
<1>5. CASE /\ record # NULL /\ proc' = Asked(record.server, op.driver) /\ End
           /\ record' = record \/ Mark("ORPHANED")
      BY <1>1, <1>2, <1>5, RecordedEnds
<1> QED  BY <1>3, <1>4, <1>5 DEF LoadForStop, Asking

LEMMA CheckExactOwns ==
  ASSUME OInv, IInv', CheckExact
  PROVE  OInv'
<1>1. /\ op.step = "exact" /\ UNCHANGED << ticks, servers, raced, boot, leaked >>
      /\ proc' = Asked(record.server, op.driver)
      BY DEF CheckExact, Rest, Asking
<1>2. op.spawned = NULL /\ lease = NoLease
      BY <1>1, NothingSpawned DEF OInv, LeasesScan, LeaseFollows
<1>3. record # NULL
      BY <1>1, ServerAssumption DEF OInv, IInv, AdapterInv, StepsFollow
<1>4. CASE Goto("open") /\ UNCHANGED << record, lease >>
  <2>1. record.server \in ServerIdentity  BY <1>3, Typed DEF OInv
  <2>2. Fades  BY <1>1, <2>1, AskingFades DEF OInv
  <2>3. HeldAlive' = {}  BY <1>1, <2>2, NobodyHeld
  <2> QED  BY <1>1, <1>2, <1>4, <2>2, <2>3, GoesOn
<1>5. CASE End /\ Mark("ORPHANED")  BY <1>1, <1>2, <1>3, <1>5, RecordedEnds
<1> QED  BY <1>4, <1>5 DEF CheckExact

\* A lease is opened on a leader that stayed in its session.
LEMMA OpenLeaseOwns ==
  ASSUME OInv, IInv', OpenLease
  PROVE  OInv'
<1>1. /\ op.step = "open" /\ UNCHANGED << proc, ticks, servers, raced, boot, record >>
      BY DEF OpenLease, Rest
<1>2. Fades  BY <1>1, FadesIf
<1>3. HeldAlive' = {}  BY <1>1, <1>2, NobodyHeld
<1>4. CASE /\ LeaderIs(ProcessOf(Target)) /\ lease' = Opened(ProcessOf(Target), Target.tag)
           /\ Goto("terminate") /\ UNCHANGED leaked
  <2>1. /\ Target \in ServerIdentity /\ Target.boot = boot /\ ServerKnown(Target) /\ Leads(Target)
    <3>1. CASE op.spawned # NULL
          BY <3>1, Typed DEF Target, OInv, IInv, AdapterInv, SpawnedKnown, SpawnsTold, LeadersStay
    <3>2. CASE op.spawned = NULL
      <4>1. record \in ServerExecutionRecord /\ record.server.boot = boot /\ record # NULL
            BY <1>1, <3>2, ServerAssumption DEF OInv, IInv, AdapterInv, StepsFollow
      <4> QED  BY <3>2, <4>1, Typed
               DEF Target, OInv, IInv, AdapterInv, RecordKnown, SpawnsTold, LeadersStay
    <3> QED  BY <3>1, <3>2
  <2> DEFINE l == Target.pid
  <2>2. l \in Pids /\ Is(ProcessOf(Target)) /\ proc[l].sess = l /\ ~proc[l].away /\ proc[l].tag = Target.tag
        BY <1>4, <2>1 DEF LeaderIs, ProcessOf, Leads, ServerKnown, KnownAs, ServerIdentity
  <2>3. op'.spawned = op.spawned /\ op'.step = "terminate"  BY <1>4, Typed, GotoIs DEF OInv
  <2>4. /\ lease'.members = {ProcessOf(Target)} /\ lease'.tag = Target.tag /\ lease'.step = "list"
        /\ lease'.session = l /\ lease'.phase = "opened"
        BY <1>4 DEF Opened, NoLease, ProcessOf
  <2>5. Target' = Target  BY <1>1, <2>3 DEF Target
  <2>6. LeaseFollows'  BY <2>3, <2>4, <2>5 DEF LeaseFollows
  <2>7. MembersInSession'
    <3> SUFFICES ASSUME NEW m, m = ProcessOf(Target)
                 PROVE  proc'[m.pid].sess = lease'.session /\ ~proc'[m.pid].away
        BY <2>4 DEF MembersInSession
    <3> QED  BY <1>1, <2>2, <2>4 DEF ProcessOf
  <2>8. StoppedStays'
    <3>1. ASSUME record # NULL, record.status = "STOPPED" PROVE Gone(record.server.tag)
          BY <3>1 DEF OInv, ServersFound, StoppedStays
    <3>2. ASSUME op.spawned = NULL, record # NULL, record.status = "STOPPED", record.server.tag \notin raced
          PROVE  ~Live(l)
      <4>1. Mine(Target.tag) = {}  BY <3>1, <3>2 DEF Gone, Target
      <4> QED  BY <2>2, <4>1 DEF Mine
    <3>3. ASSUME NEW m, m = ProcessOf(Target) PROVE Live(m.pid)' <=> Live(l)
          BY <1>1, <3>3 DEF ProcessOf, Live
    <3>4. \A t : Gone(t) => Gone(t)'  BY <1>1, <1>2, FadesKeeps
    <3> HIDE DEF l
    <3>5. ASSUME record # NULL, record.status = "STOPPED" PROVE Gone(record.server.tag)'
          BY <1>1, <3>1, <3>4, <3>5 DEF Gone, Mine, Live
    <3> QED  BY <1>1, <2>3, <2>4, <3>2, <3>3, <3>5 DEF StoppedStays, Gone, Mine, Live, ProcessOf
  <2> QED  BY <1>1, <1>2, <1>3, <1>4, <2>3, <2>4, <2>6, <2>7, <2>8, Opens
<1>5. CASE /\ End
           /\ leaked' = IF op.spawned # NULL THEN leaked \cup {Target.tag} ELSE leaked
  <2>1. leaked \subseteq leaked' /\ (op.spawned # NULL => op.spawned.tag \in leaked')
        BY <1>5 DEF Target
  <2> QED  BY <1>1, <1>2, <1>3, <1>5, <2>1, Ends
<1> QED  BY <1>1, <1>4, <1>5 DEF OpenLease

-----------------------------------------------------------------------------
(* The cleanup.                                                            *)

\* A step of a cleanup that keeps its members.
LEMMA CleanupGoesOn ==
  ASSUME OInv, IInv', Marks, UNCHANGED << servers, raced, boot, record, op, leaked >>,
         \A p \in Pids : proc'[p].held = proc[p].held,
         lease.step \notin {"none", "scan", "look", "done"},
         lease'.members = lease.members, lease'.session = lease.session, lease'.tag = lease.tag,
         lease'.step \in {"list", "read", "signal", "send", "failed"},
         lease'.phase \in {"grace", "kill", lease.phase},
         lease'.step = "read" => lease'.listed = { p \in Pids : Present(p) }
  PROVE  OInv'
<1>1. op.step \in {"terminate", "rollback"}  BY NoLeaseIs DEF OInv, LeasesScan, LeaseFollows
<1>2. Target' = Target  BY DEF Target
<1>3. LeaseFollows'  BY <1>1, <1>2 DEF OInv, LeasesScan, LeaseFollows
<1>4. \A p \in Pids : (Live(p)' <=> Live(p)) /\ (Present(p)' <=> Present(p)) /\ Identity(p)' = Identity(p)
      BY MarksKeep
<1>5. HeldAlive' = HeldAlive  BY <1>4 DEF HeldAlive
<1>6. \A p \in Pids : Live(p) => Present(p)  BY DEF Live, Present
<1>7. HeldByLease'
  <2> SUFFICES ASSUME NEW p \in HeldAlive
               PROVE  Identity(p)' \in lease'.members /\ (lease'.step = "read" => p \in lease'.listed)
      BY <1>1, <1>5 DEF HeldByLease
  <2>1. Identity(p) \in lease.members /\ Live(p) /\ p \in Pids
        BY DEF OInv, LeasesScan, HeldByLease, HeldAlive
  <2> QED  BY <1>4, <1>6, <2>1
<1>8. ListedAll'
  <2> SUFFICES ASSUME lease'.step = "read", NEW p \in Pids, Live(p)' PROVE p \in lease'.listed
      BY DEF ListedAll
  <2> QED  BY <1>4, <1>6
<1>9. MembersInSession' /\ StoppedStays'  BY MembersStay
<1> QED  BY <1>3, <1>7, <1>8, <1>9, LeaseMoves DEF LeasesScan

LEMMA CleanupKeepsMembers ==
  ASSUME OInv, IInv', UNCHANGED << boot, record, op, leaked >>,
         ListProcesses \/ OpenPidfd \/ SendSignal \/ EndSignals
  PROVE  OInv'
<1>1. lease \in LeaseRecord /\ proc \in [Pids -> ProcessRecord]  BY Typed DEF OInv
<1>2. CASE ListProcesses
  <2>1. /\ UNCHANGED << proc, ticks, servers, raced >> /\ lease.step = "list"
        /\ lease' = [lease EXCEPT !.step = "read", !.listed = { p \in Pids : Present(p) }]
        BY <1>2 DEF ListProcesses, osVars
  <2>2. Marks  BY <2>1 DEF Marks
  <2>3. /\ lease'.members = lease.members /\ lease'.session = lease.session /\ lease'.tag = lease.tag
        /\ lease'.step = "read" /\ lease'.phase = lease.phase /\ lease'.listed = { p \in Pids : Present(p) }
        BY <1>1, <2>1 DEF LeaseRecord
  <2> QED  BY <2>1, <2>2, <2>3, CleanupGoesOn
<1>3. CASE OpenPidfd
  <2>1. PICK m \in lease.queue :
          lease' = [lease EXCEPT !.queue = @ \ {m}, !.fd = IF Is(m) THEN m ELSE NULL,
                                 !.step = IF Is(m) THEN "send" ELSE "signal"]
        BY <1>3 DEF OpenPidfd
  <2>2. UNCHANGED << proc, ticks, servers, raced >> /\ lease.step = "signal"
        BY <1>3 DEF OpenPidfd, osVars
  <2>3. Marks  BY <2>2 DEF Marks
  <2>4. /\ lease'.members = lease.members /\ lease'.session = lease.session /\ lease'.tag = lease.tag
        /\ lease'.step \in {"signal", "send"} /\ lease'.phase = lease.phase
        BY <1>1, <2>1 DEF LeaseRecord
  <2> QED  BY <2>2, <2>3, <2>4, CleanupGoesOn
<1>4. CASE SendSignal
  <2> DEFINE signalled(p) == IF p \in Receivers
                             THEN [proc[p] EXCEPT !.killed = @ \/ lease.phase = "kill"] ELSE proc[p]
  <2>1. /\ UNCHANGED << ticks, servers, raced >> /\ lease.step = "send"
        /\ proc' = [p \in Pids |-> signalled(p)]
        /\ lease' = [lease EXCEPT !.step = "signal", !.fd = NULL]
        BY <1>4 DEF SendSignal
  <2>2. \A p \in Pids : /\ signalled(p).state = proc[p].state /\ signalled(p).sess = proc[p].sess
                        /\ signalled(p).tag = proc[p].tag /\ signalled(p).away = proc[p].away
                        /\ signalled(p).held = proc[p].held
        BY <1>1 DEF ProcessRecord
  <2> HIDE DEF signalled
  <2>3. Marks /\ \A p \in Pids : proc'[p].held = proc[p].held  BY <2>1, <2>2 DEF Marks
  <2>4. /\ lease'.members = lease.members /\ lease'.session = lease.session /\ lease'.tag = lease.tag
        /\ lease'.step = "signal" /\ lease'.phase = lease.phase
        BY <1>1, <2>1 DEF LeaseRecord
  <2> QED  BY <2>1, <2>3, <2>4, CleanupGoesOn
<1>5. CASE EndSignals
  <2>1. PICK step \in {"list", "failed"}, phase \in {"grace", "kill", lease.phase} :
          lease' = [lease EXCEPT !.step = step, !.phase = phase]
    <3>1. CASE lease' = [lease EXCEPT !.step = "list", !.phase = IF @ = "term" THEN "grace" ELSE "kill"]
          BY <3>1
    <3>2. CASE lease' = [lease EXCEPT !.step = "failed"]
      <4>1. lease' = [lease EXCEPT !.step = "failed", !.phase = lease.phase]  BY <1>1, <3>2 DEF LeaseRecord
      <4> QED  BY <4>1
    <3> QED  BY <1>5, <3>1, <3>2 DEF EndSignals
  <2>2. UNCHANGED << proc, ticks, servers, raced >> /\ lease.step = "signal"
        BY <1>5 DEF EndSignals, osVars
  <2>3. Marks  BY <2>2 DEF Marks
  <2>4. /\ lease'.members = lease.members /\ lease'.session = lease.session /\ lease'.tag = lease.tag
        /\ lease'.step \in {"list", "failed"} /\ lease'.phase \in {"grace", "kill", lease.phase}
        BY <1>1, <2>1 DEF LeaseRecord
  <2> QED  BY <2>2, <2>3, <2>4, CleanupGoesOn
<1> QED  BY <1>2, <1>3, <1>4, <1>5

\* A cleanup that ends has found nobody alive.
LEMMA AfterScanGoes ==
  ASSUME lease \in LeaseRecord, NEW members \in SUBSET [pid : Pids, ticks : Nat],
         lease.phase \in {"opened", "term", "grace", "kill"}, NEW next \in AfterScan(members)
  PROVE  /\ next.members = members /\ next.session = lease.session /\ next.tag = lease.tag
         /\ next.step \in {"list", "signal", "done"} /\ next.phase \in {"term", "grace", "kill"}
         /\ next.step = "done" => LiveOf(members) = {}
<1> DEFINE live == LiveOf(members)
           rest == [lease EXCEPT !.members = members, !.listed = {}, !.step = "list"]
<1>1. live \in SUBSET [pid : Pids, ticks : Nat]  BY DEF LiveOf
<1>2. /\ rest \in LeaseRecord /\ rest.members = members /\ rest.session = lease.session
      /\ rest.tag = lease.tag /\ rest.step = "list" /\ rest.phase = lease.phase
      BY DEF LeaseRecord
<1>3. \/ \E phase \in {"term", "kill"} : next = [rest EXCEPT !.phase = phase]
      \/ next = rest /\ lease.phase = "grace"
      \/ next = [rest EXCEPT !.step = "signal", !.queue = live] /\ lease.phase \in {"term", "kill"}
      \/ next = [rest EXCEPT !.step = "done"] /\ live = {} /\ lease.phase \in {"grace", "kill"}
  <2>1. CASE lease.phase = "opened"  BY <2>1 DEF AfterScan
  <2>2. CASE lease.phase = "term"  BY <2>2 DEF AfterScan
  <2>3. CASE lease.phase = "grace" /\ live # {}  BY <2>3 DEF AfterScan
  <2>4. CASE lease.phase = "kill" /\ live # {}  BY <2>4 DEF AfterScan
  <2>5. CASE lease.phase \in {"grace", "kill"} /\ live = {}  BY <2>5 DEF AfterScan
  <2> QED  BY <2>1, <2>2, <2>3, <2>4, <2>5
<1> HIDE DEF rest
<1> QED  BY <1>1, <1>2, <1>3 DEF LeaseRecord

\* The members that a scan finds in the session are beside one that stayed in it.
LEMMA ScanStaysInSession ==
  ASSUME OInv, ~OwnershipLost,
         NEW m \in Retained \cup Group, Is(m)
  PROVE  /\ m.pid \in Pids /\ Present(m.pid) /\ Identity(m.pid) = m
         /\ m.pid = lease.session => proc[m.pid].sess = lease.session
         /\ proc[m.pid].sess = lease.session => ~proc[m.pid].away
<1>1. KnownAs(m, lease.tag)  BY ScanKnown DEF OInv, IInv
<1>2. m.pid \in Pids /\ Present(m.pid) /\ Identity(m.pid) = m  BY <1>1 DEF KnownAs, Is, Identity
<1>3. CASE m \in Retained
      BY <1>2, <1>3 DEF Retained, OInv, LeasesScan, MembersInSession
<1>4. CASE m \in Group
  <2>1. PICK k \in Retained \cap Group : TRUE  BY <1>4 DEF OwnershipLost
  <2>2. k \in lease.members /\ KnownAs(k, lease.tag)  BY <2>1, ScanKnown DEF Retained, OInv, IInv
  <2>3. k \in Current /\ proc[k.pid].sess = lease.session  BY <2>1 DEF Group
  <2>4. PICK q \in lease.listed : Present(q) /\ k = Identity(q)  BY <2>3 DEF Current
  <2>5. k.pid \in Pids /\ Present(k.pid) /\ Is(k)  BY <2>2, <2>4 DEF KnownAs, Is, Identity
  <2>6. ~proc[k.pid].away  BY <2>2, <2>3, <2>5 DEF OInv, LeasesScan, MembersInSession
  <2>7. proc[m.pid].sess = lease.session  BY <1>4 DEF Group
  <2> QED  BY <1>2, <2>3, <2>5, <2>6, <2>7 DEF OInv, SpawnsTold, SessionsLeaveTogether
<1> QED  BY <1>2, <1>3, <1>4

LEMMA RefreshOwns ==
  ASSUME OInv, IInv', Refresh, UNCHANGED << boot, record, op, leaked >>
  PROVE  OInv'
<1>1. UNCHANGED << ticks, servers, raced >> /\ lease.step = "read"  BY DEF Refresh
<1>2. lease \in LeaseRecord /\ proc \in [Pids -> ProcessRecord]  BY Typed DEF OInv
<1>3. op.step \in {"terminate", "rollback"}  BY <1>1, NoLeaseIs DEF OInv, LeasesScan, LeaseFollows
<1>4. CASE OwnershipLost
  <2>1. lease' = [lease EXCEPT !.step = "failed"] /\ proc' = proc  BY <1>4 DEF Refresh
  <2>2. Marks  BY <1>1, <2>1 DEF Marks
  <2>3. /\ lease'.members = lease.members /\ lease'.session = lease.session /\ lease'.tag = lease.tag
        /\ lease'.step = "failed" /\ lease'.phase = lease.phase
        BY <1>2, <2>1 DEF LeaseRecord
  <2> QED  BY <1>1, <2>1, <2>2, <2>3, CleanupGoesOn
<1>5. CASE ~OwnershipLost
  <2> DEFINE members == Retained \cup Group
             marked(p) == IF Present(p) /\ Identity(p) \in members
                          THEN [proc[p] EXCEPT !.held = TRUE] ELSE proc[p]
  <2>1. lease' \in AfterScan(members) /\ proc' = [p \in Pids |-> marked(p)]  BY <1>5 DEF Refresh
  <2>2. members \in SUBSET [pid : Pids, ticks : Nat]
        BY <1>5, ScanKnown DEF KnownAs, OInv, IInv
  <2>3. \A p \in Pids : /\ marked(p).state = proc[p].state /\ marked(p).sess = proc[p].sess
                        /\ marked(p).tag = proc[p].tag /\ marked(p).away = proc[p].away
                        /\ marked(p).held => proc[p].held \/ Identity(p) \in members
    <3> TAKE p \in Pids
    <3>1. proc[p] \in ProcessRecord  BY <1>2
    <3>2. [proc[p] EXCEPT !.held = TRUE].state = proc[p].state
          /\ [proc[p] EXCEPT !.held = TRUE].sess = proc[p].sess
          /\ [proc[p] EXCEPT !.held = TRUE].tag = proc[p].tag
          /\ [proc[p] EXCEPT !.held = TRUE].away = proc[p].away
          BY <3>1 DEF ProcessRecord
    <3> QED  BY <3>1, <3>2
  <2>4. \A m \in members : Is(m) => /\ m.pid \in Pids /\ Present(m.pid) /\ Identity(m.pid) = m
                                    /\ m.pid = lease.session => proc[m.pid].sess = lease.session
                                    /\ proc[m.pid].sess = lease.session => ~proc[m.pid].away
        BY <1>5, ScanStaysInSession
  <2>5. \A p \in Pids : Live(p) /\ p \in lease.listed /\ proc[p].sess = lease.session => Identity(p) \in members
        BY DEF Group, Current, Live, Present, Identity
  <2>6. \A p \in HeldAlive : Identity(p) \in members
        BY <1>1 DEF OInv, LeasesScan, HeldByLease, HeldAlive, Retained, Current, Live, Present
  <2>7. \A p \in Pids : Live(p) /\ Identity(p) \in members => Identity(p) \in LiveOf(members)
        BY DEF LiveOf, Identity
  <2> HIDE DEF members, marked
  <2>8. lease.phase \in {"opened", "term", "grace", "kill"}
        BY <1>3 DEF OInv, LeasesScan, LeaseFollows
  <2>9. /\ lease'.members = members /\ lease'.session = lease.session /\ lease'.tag = lease.tag
        /\ lease'.step \in {"list", "signal", "done"} /\ lease'.phase \in {"term", "grace", "kill"}
        /\ lease'.step = "done" => LiveOf(members) = {}
        BY <1>2, <2>1, <2>2, <2>8, AfterScanGoes
  <2>10. Marks  BY <1>1, <2>1, <2>3 DEF Marks
  <2>11. \A p \in Pids : (Live(p)' <=> Live(p)) /\ (Present(p)' <=> Present(p)) /\ Identity(p)' = Identity(p)
         BY <2>10, MarksKeep, <1>1
  <2>12. HeldAlive' \subseteq { p \in Pids : Live(p) /\ Identity(p) \in members }
    <3> SUFFICES ASSUME NEW p \in HeldAlive' PROVE p \in Pids /\ Live(p) /\ Identity(p) \in members
        OBVIOUS
    <3>1. p \in Pids /\ Live(p) /\ marked(p).held  BY <2>1, <2>11 DEF HeldAlive
    <3>2. proc[p].held \/ Identity(p) \in members  BY <2>3, <3>1
    <3> QED  BY <2>6, <3>1, <3>2 DEF HeldAlive
  <2>13. /\ lease.session = Target.pid /\ lease.tag = Target.tag
         /\ InSessionOf(Target) /\ Target.tag # 0
         /\ op.spawned = NULL => record # NULL
    <3>1. op.spawned = NULL => record # NULL
          BY <1>3, ServerAssumption DEF OInv, IInv, AdapterInv, StepsFollow
    <3>2. InSessionOf(Target) /\ Target.tag # 0
          BY <3>1, Typed DEF Target, OInv, SpawnsTold, SessionsKnown, TagsNumbered
    <3> QED  BY <1>3, <3>1, <3>2 DEF OInv, LeasesScan, LeaseFollows
  <2>14. Target' = Target  BY DEF Target
  <2>15. LeaseFollows'  BY <1>3, <2>9, <2>13, <2>14 DEF LeaseFollows
  <2>16. MembersInSession'
    <3> SUFFICES ASSUME NEW m \in members, Is(m)'
                 PROVE  /\ m.pid = lease.session => proc'[m.pid].sess = lease.session
                        /\ proc'[m.pid].sess = lease.session => ~proc'[m.pid].away
        BY <2>9 DEF MembersInSession
    <3>1. m.pid \in Pids  BY <2>2
    <3>2. Is(m)  BY <1>1, <2>11, <3>1 DEF Is
    <3> QED  BY <2>4, <2>10, <3>1, <3>2 DEF Marks
  <2>17. HeldByLease'
    <3> SUFFICES ASSUME NEW p \in HeldAlive'
                 PROVE  Identity(p)' \in members /\ lease'.step # "done"
        BY <1>3, <2>9 DEF HeldByLease
    <3>1. p \in Pids /\ Live(p) /\ Identity(p) \in members  BY <2>12
    <3>2. Identity(p) \in LiveOf(members)  BY <2>7, <3>1
    <3> QED  BY <2>9, <2>11, <3>1, <3>2
  <2>18. ListedAll'  BY <2>9 DEF ListedAll
  <2>19. lease'.step = "done" => Gone(lease.tag)
    <3> SUFFICES ASSUME lease'.step = "done", lease.tag \notin raced, NEW p \in Mine(lease.tag) PROVE FALSE
        BY DEF Gone
    <3>1. p \in Pids /\ Live(p) /\ Present(p) /\ proc[p].tag = lease.tag /\ ~proc[p].away
          BY DEF Mine, Live, Present
    <3>2. proc[p].sess = lease.session  BY <2>13, <3>1 DEF InSessionOf
    <3>3. p \in lease.listed  BY <1>1, <2>13, <3>1 DEF OInv, LeasesScan, ListedAll
    <3> QED  BY <2>5, <2>7, <2>9, <3>1, <3>2, <3>3
  <2>20. StoppedStays'
    <3>1. ASSUME record # NULL, record.status = "STOPPED" PROVE Gone(record.server.tag)
          BY <3>1 DEF OInv, ServersFound, StoppedStays
    <3>2. ASSUME record # NULL, record.status = "STOPPED", record.server.tag \notin raced, op.step = "terminate",
                 op.spawned = NULL, NEW m \in members, Is(m), Live(m.pid)
          PROVE  FALSE
      <4>1. Mine(lease.tag) = {} /\ lease.tag = record.server.tag /\ lease.tag \notin raced
            BY <2>13, <3>1, <3>2 DEF Gone, Target
      <4>2. m.pid \in Pids /\ Present(m.pid) /\ Identity(m.pid) = m  BY <2>4, <3>2
      <4>3. proc[m.pid].tag = lease.tag
            BY <1>5, <3>2, ScanKnown DEF members, KnownAs, OInv, IInv
      <4>4. proc[m.pid].away  BY <3>2, <4>1, <4>2, <4>3 DEF Mine
      <4>5. m \in lease.members  BY <2>4, <3>2, <4>2, <4>4 DEF members, Retained, Group
      <4> QED  BY <3>2, <4>5 DEF OInv, ServersFound, StoppedStays
    <3>3. \A m \in members : (Is(m)' <=> Is(m)) /\ (Is(m) => (Live(m.pid)' <=> Live(m.pid)))
          BY <1>1, <2>2, <2>11 DEF Is
    <3>4. \A t : Gone(t)' <=> Gone(t)  BY <1>1, <2>10, MarksKeep
    <3>5. ASSUME record # NULL, record.status = "STOPPED" PROVE Gone(record.server.tag)'
          BY <3>1, <3>4, <3>5 DEF Gone, Mine, Live
    <3> QED  BY <1>1, <2>9, <3>2, <3>3, <3>5 DEF StoppedStays, Gone, Mine, Live
  <2>21. (lease'.step = "done" => Gone(lease'.tag))  BY <2>9, <2>19
  <2> QED  BY <1>1, <2>10, <2>15, <2>16, <2>17, <2>18, <2>20, <2>21, LeaseMoves DEF LeasesScan
<1> QED  BY <1>4, <1>5

LEMMA CleanupOwns ==
  ASSUME OInv, IInv', Cleanup
  PROVE  OInv'
BY CleanupKeepsMembers, RefreshOwns DEF Cleanup, LeaseStep

LEMMA TerminatedOwns ==
  ASSUME OInv, IInv', Terminated
  PROVE  OInv'
<1>1. /\ op.step \in {"terminate", "rollback"} /\ lease.step = "done" /\ proc' = Reaped(op.driver, Target.pid)
      /\ UNCHANGED << ticks, servers, raced, boot, record, leaked >>
      BY DEF Terminated, Rest
<1>2. op.spawned = NULL => record \in ServerExecutionRecord
      BY <1>1 DEF OInv, IInv, AdapterInv, StepsFollow
<1>3. Target.pid \in Pids  BY <1>2, Typed DEF Target, OInv, ServerIdentity
<1>4. Fades  BY <1>1, <1>3, ReapedFades DEF OInv
<1>5. HeldAlive' = {}  BY <1>1, <1>4, NobodyHeld
<1>6. Gone(Target.tag)  BY <1>1 DEF OInv, LeasesScan, LeaseFollows, ServersFound, DoneMeansGone
<1>7. CASE op.spawned # NULL
  <2>1. End /\ Gone(op.spawned.tag)  BY <1>6, <1>7 DEF Terminated, Target
  <2> QED  BY <1>1, <1>4, <1>5, <2>1, Ends
<1>8. CASE op.spawned = NULL
  <2>1. Goto("stopped") /\ lease' = NoLease  BY <1>8 DEF Terminated
  <2>2. op'.spawned = op.spawned /\ op'.step = "stopped"  BY <2>1, Typed, GotoIs DEF OInv
  <2>3. LeaseFollows'  BY <2>1, <2>2 DEF LeaseFollows
  <2>4. Gone(record.server.tag)  BY <1>6, <1>8 DEF Target
  <2> QED  BY <1>1, <1>4, <1>5, <1>8, <2>1, <2>2, <2>3, <2>4, NoLeaseIs, Ordinary
<1> QED  BY <1>7, <1>8

\* A driver that ends its operation follows nobody any more.
LEMMA ForgottenFades ==
  ASSUME ticks' = ticks, NEW table \in [Pids -> ProcessRecord], proc' = Forgotten(table),
         \A p \in Pids : \/ table[p].state = "none"
                         \/ /\ table[p].state = proc[p].state /\ table[p].sess = proc[p].sess
                            /\ table[p].tag = proc[p].tag /\ table[p].away = proc[p].away
  PROVE  Fades /\ HeldAlive' = {}
<1>1. \A p \in Pids : /\ proc'[p] = [table[p] EXCEPT !.held = FALSE]
      BY DEF Forgotten
<1>2. \A p \in Pids : /\ proc'[p].state = table[p].state /\ proc'[p].sess = table[p].sess
                      /\ proc'[p].tag = table[p].tag /\ proc'[p].away = table[p].away /\ ~proc'[p].held
  <2>1. \A p \in Pids : /\ [table[p] EXCEPT !.held = FALSE].state = table[p].state
                        /\ [table[p] EXCEPT !.held = FALSE].sess = table[p].sess
                        /\ [table[p] EXCEPT !.held = FALSE].tag = table[p].tag
                        /\ [table[p] EXCEPT !.held = FALSE].away = table[p].away
                        /\ ~[table[p] EXCEPT !.held = FALSE].held
        BY DEF ProcessRecord
  <2> QED  BY <1>1, <2>1
<1>3. Fades  BY <1>2 DEF Fades, Present, Live
<1> QED  BY <1>2, <1>3 DEF HeldAlive

LEMMA TerminationFailsOwns ==
  ASSUME OInv, IInv', TerminationFails
  PROVE  OInv'
<1>1. /\ proc' = Forgotten(proc) /\ End /\ UNCHANGED << ticks, servers, raced, boot, record >>
      /\ leaked' = IF op.spawned # NULL THEN leaked \cup {op.spawned.tag} ELSE leaked
      BY DEF TerminationFails, Rest
<1>2. Fades /\ HeldAlive' = {}  BY <1>1, Typed, ForgottenFades DEF OInv
<1>3. leaked \subseteq leaked' /\ (op.spawned # NULL => op.spawned.tag \in leaked')  BY <1>1
<1> QED  BY <1>1, <1>2, <1>3, Ends

LEMMA RecordStoppedOwns ==
  ASSUME OInv, IInv', RecordStopped
  PROVE  OInv'
<1>1. /\ op.step = "stopped" /\ End /\ UNCHANGED << proc, ticks, servers, raced, boot, leaked >>
      /\ Mark("STOPPED") \/ Mark("ORPHANED")
      BY DEF RecordStopped, Rest
<1>2. record # NULL /\ op.spawned = NULL
      BY <1>1, ServerAssumption DEF OInv, IInv, AdapterInv, StepsFollow
<1>3. Fades  BY <1>1, FadesIf
<1>4. HeldAlive' = {}  BY <1>1, <1>3, NobodyHeld
<1>5. {"STOPPED", "ORPHANED"} \subseteq ServerExecutionStatus  BY DEF ServerExecutionStatus
<1>6. \E status \in ServerExecutionStatus : Mark(status) /\ (status = "STOPPED" => op.step = "stopped")
      BY <1>1, <1>5
<1> QED  BY <1>1, <1>2, <1>3, <1>4, <1>6, Ends

-----------------------------------------------------------------------------
(* Drivers, processes and the host.                                        *)

\* An orphaned process stays where it is; a zombie is reaped.
LEMMA OrphanedStays ==
  ASSUME IInv, NEW d
  PROVE  /\ Orphaned(d) \in [Pids -> ProcessRecord]
         /\ \A q \in Pids : \/ Orphaned(d)[q] = NoProcess
                            \/ /\ Orphaned(d)[q].state = proc[q].state
                               /\ Orphaned(d)[q].sess = proc[q].sess
                               /\ Orphaned(d)[q].tag = proc[q].tag
                               /\ Orphaned(d)[q].away = proc[q].away
                               /\ Orphaned(d)[q].held = proc[q].held
<1> DEFINE free(q) == [proc[q] EXCEPT !.parent = NULL]
<1>1. NoProcess \in ProcessRecord  BY DEF NoProcess, ProcessRecord
<1>2. \A q \in Pids : /\ free(q) \in ProcessRecord /\ free(q).state = proc[q].state
                      /\ free(q).sess = proc[q].sess /\ free(q).tag = proc[q].tag
                      /\ free(q).away = proc[q].away /\ free(q).held = proc[q].held
      BY Typed DEF ProcessRecord
<1>3. Orphaned(d) = [q \in Pids |-> IF proc[q].parent # d THEN proc[q]
                                    ELSE IF proc[q].state = "zombie" THEN NoProcess ELSE free(q)]
      BY DEF Orphaned
<1> HIDE DEF free
<1>4. \A q \in Pids : Orphaned(d)[q] \in {proc[q], NoProcess, free(q)}  BY <1>3
<1>5. Orphaned(d) \in [Pids -> ProcessRecord]  BY <1>1, <1>2, <1>3, Typed
<1> QED  BY <1>2, <1>4, <1>5

LEMMA CrashOwns ==
  ASSUME OInv, IInv', Crash
  PROVE  OInv'
<1> DEFINE table == Orphaned(op.driver)
<1>1. /\ proc' = Forgotten(table) /\ End /\ UNCHANGED << ticks, servers, raced, boot, record >>
      /\ leaked' = leaked \cup Unrecorded
      BY DEF Crash
<1>2. /\ table \in [Pids -> ProcessRecord]
      /\ \A q \in Pids : \/ table[q] = NoProcess
                         \/ /\ table[q].state = proc[q].state /\ table[q].sess = proc[q].sess
                            /\ table[q].tag = proc[q].tag /\ table[q].away = proc[q].away
      BY OrphanedStays DEF OInv
<1> HIDE DEF table
<1>3. NoProcess.state = "none"  BY DEF NoProcess
<1>4. Fades /\ HeldAlive' = {}  BY <1>1, <1>2, <1>3, ForgottenFades
<1>5. leaked \subseteq leaked' /\ (op.spawned # NULL => op.spawned.tag \in leaked')
      BY <1>1 DEF Unrecorded
<1> QED  BY <1>1, <1>4, <1>5, Ends

\* A step in which processes end, and nothing else happens.
LEMMA QuietStep ==
  ASSUME OInv, IInv', Fades, UNCHANGED << servers, raced, boot, record, op, leaked, lease >>
  PROVE  OInv'
<1>1. /\ \A t : Mine(t)' \subseteq Mine(t)
      /\ \A t : Gone(t) => Gone(t)'
      /\ \A p \in HeldAlive' : p \in HeldAlive /\ Identity(p)' = Identity(p)
      BY FadesKeeps
<1>2. TagsNumbered'
  <2>1. \A p \in Pids : Present(p)' => proc'[p].tag <= servers'
        BY DEF OInv, SpawnsTold, TagsNumbered, Fades
  <2> QED  BY <2>1 DEF OInv, SpawnsTold, TagsNumbered
<1>3. SessionsLeaveTogether'  BY SpawnsFade DEF OInv, SpawnsTold
<1>4. SessionsKnown'
  <2>1. \A s : InSessionOf(s) => InSessionOf(s)'  BY SpawnsFade
  <2> QED  BY <2>1 DEF OInv, SpawnsTold, SessionsKnown, InSessionOf, Present
<1>5. LeadersStay'
  <2>1. \A s : s.pid \in Pids /\ Leads(s) => Leads(s)'  BY SpawnsFade
  <2>2. record # NULL => record.server.pid \in Pids  BY Typed DEF OInv, ServerIdentity
  <2>3. op.spawned # NULL => op.spawned.pid \in Pids  BY Typed DEF OInv, ServerIdentity
  <2> QED  BY <2>1, <2>2, <2>3 DEF OInv, SpawnsTold, LeadersStay, Leads, Is, Present, ProcessOf
<1>6. LeaseFollows'  BY DEF OInv, LeasesScan, LeaseFollows, Target
<1>7. MembersInSession'  BY MembersFade DEF OInv, IInv, ProcessInv, LeasesScan
<1>8. HeldByLease'  BY <1>1 DEF OInv, LeasesScan, HeldByLease
<1>9. ListedAll'
  <2> SUFFICES ASSUME lease.step \in {"read", "look"}, NEW p \in Pids, Live(p)',
                      proc'[p].tag \notin raced \cup {0}, ~proc'[p].away
               PROVE  p \in lease.listed
      BY DEF ListedAll
  <2>1. Live(p) /\ proc'[p].tag = proc[p].tag /\ proc'[p].away = proc[p].away
        BY DEF Fades, Live, Present
  <2> QED  BY <2>1 DEF OInv, LeasesScan, ListedAll
<1>10. DoneMeansGone'
  <2>1. lease.step = "done" => Gone(lease.tag)'
        BY <1>1 DEF OInv, ServersFound, DoneMeansGone, Gone, Mine, Live
  <2>2. op.step = "stopped" => Gone(record.server.tag)'
        BY <1>1 DEF OInv, ServersFound, DoneMeansGone, Gone, Mine, Live
  <2> QED  BY <2>1, <2>2 DEF DoneMeansGone, Gone, Mine, Live
<1>11. RecordedIsGone'
       BY <1>1 DEF OInv, ServersFound, RecordedIsGone, Gone, Mine, Live
<1>12. StoppedStays'
  <2>1. ASSUME record # NULL, record.status = "STOPPED" PROVE Gone(record.server.tag)'
        BY <1>1, <2>1 DEF OInv, ServersFound, StoppedStays, Gone, Mine, Live
  <2>2. \A m \in lease.members : Is(m)' /\ Live(m.pid)' => Is(m) /\ Live(m.pid)
    <3>1. \A m \in lease.members : m.pid \in Pids
          BY DEF OInv, IInv, ProcessInv, MembersKnown, KnownAs
    <3> QED  BY <3>1 DEF Is, Fades, Live, Present
  <2> QED  BY <2>1, <2>2 DEF OInv, ServersFound, StoppedStays, Gone, Mine, Live
<1>13. EveryServerIsRecorded'
  <2>1. \A t : Alive(t)' => Alive(t)  BY <1>1, MineIsAlive
  <2> QED  BY <2>1 DEF OInv, ServersFound, EveryServerIsRecorded, Accounted
<1> QED  BY <1>2, <1>3, <1>4, <1>5, <1>6, <1>7, <1>8, <1>9, <1>10, <1>11, <1>12, <1>13
         DEF OInv, SpawnsTold, LeasesScan, ServersFound

LEMMA ExitOwns ==
  ASSUME OInv, IInv', NEW d \in Drivers, Exit(d)
  PROVE  OInv'
<1>1. /\ proc' = Orphaned(d) /\ UNCHANGED << ticks, servers, raced, boot, record, op, leaked, lease >>
      BY DEF Exit, Rest
<1>2. Fades  BY <1>1, OrphanedStays, FadesIf DEF OInv
<1> QED  BY <1>1, <1>2, QuietStep

LEMMA DieOwns ==
  ASSUME OInv, IInv', NEW p \in Pids, Die(p), UNCHANGED << boot, record, op, leaked >>
  PROVE  OInv'
<1>1. /\ Live(p) /\ UNCHANGED << ticks, servers, raced, lease >>
      /\ proc' = [proc EXCEPT ![p] = IF @.parent # NULL THEN [@ EXCEPT !.state = "zombie"] ELSE NoProcess]
      BY DEF Die
<1>2. proc \in [Pids -> ProcessRecord]  BY Typed DEF OInv
<1>3. /\ \A q \in Pids : q # p => proc'[q] = proc[q]
      /\ proc'[p] \in {NoProcess, [proc[p] EXCEPT !.state = "zombie"]}
      BY <1>1, <1>2
<1>4. \/ proc'[p].state = "none"
      \/ /\ proc'[p].state = "zombie" /\ proc'[p].sess = proc[p].sess /\ proc'[p].tag = proc[p].tag
         /\ proc'[p].away = proc[p].away /\ proc'[p].held = proc[p].held
      BY <1>2, <1>3 DEF ProcessRecord, NoProcess
<1>5. Fades  BY <1>1, <1>3, <1>4 DEF Fades, Present, Live
<1> QED  BY <1>1, <1>5, QuietStep

\* Who leaves a session leads another one, alone, and was no leader.
LEMMA EscapeOwns ==
  ASSUME OInv, IInv', NEW p \in Pids, Escape(p), UNCHANGED << boot, record, op, leaked >>
  PROVE  OInv'
<1>1. /\ Live(p) /\ proc[p].sess # p /\ UNCHANGED << ticks, servers, raced, lease >>
      /\ proc' = [proc EXCEPT ![p].sess = p, ![p].away = TRUE]
      BY DEF Escape
<1>2. proc \in [Pids -> ProcessRecord]  BY Typed DEF OInv
<1>3. /\ \A q \in Pids : q # p => proc'[q] = proc[q]
      /\ proc'[p].state = proc[p].state /\ proc'[p].sess = p /\ proc'[p].tag = proc[p].tag
      /\ proc'[p].away /\ proc'[p].held = proc[p].held
      BY <1>1, <1>2 DEF ProcessRecord
<1>4. /\ \A q \in Pids : /\ (Present(q)' <=> Present(q)) /\ (Live(q)' <=> Live(q))
                         /\ proc'[q].tag = proc[q].tag /\ proc'[q].held = proc[q].held
                         /\ ~proc'[q].away => ~proc[q].away /\ proc'[q].sess = proc[q].sess
                         /\ Identity(q)' = Identity(q)
      BY <1>1, <1>3 DEF Present, Live, Identity
<1>5. \A t : Mine(t)' \subseteq Mine(t)  BY <1>4 DEF Mine
<1>6. \A t : Gone(t) => Gone(t)'  BY <1>1, <1>5 DEF Gone
<1>7. \A q \in Pids : Present(q) => proc[q].sess # p
      BY <1>1 DEF OInv, IInv, ProcessInv, Sessions, SessionsHaveLeaders, Live, Present
<1>8. TagsNumbered'  BY <1>1, <1>4 DEF OInv, SpawnsTold, TagsNumbered
<1>9. SessionsLeaveTogether'
  <2> SUFFICES ASSUME NEW q \in Pids, NEW r \in Pids, Present(q), Present(r), proc'[q].sess = proc'[r].sess
               PROVE  proc'[q].away = proc'[r].away
      BY <1>4 DEF SessionsLeaveTogether
  <2>1. CASE q = p \/ r = p  BY <1>3, <1>7, <2>1
  <2>2. CASE q # p /\ r # p  BY <1>3, <2>2 DEF OInv, SpawnsTold, SessionsLeaveTogether
  <2> QED  BY <2>1, <2>2
<1>10. SessionsKnown'  BY <1>4 DEF OInv, SpawnsTold, SessionsKnown, InSessionOf
<1>11. LeadersStay'
  <2>1. \A s : s.pid \in Pids /\ Leads(s) => Leads(s)'
    <3> SUFFICES ASSUME NEW s, s.pid \in Pids, Leads(s), s.boot = boot, Is(ProcessOf(s))
                 PROVE  proc'[s.pid].sess = s.pid /\ ~proc'[s.pid].away
        BY <1>1, <1>4 DEF Leads, Is, ProcessOf
    <3>1. proc[s.pid].sess = s.pid /\ ~proc[s.pid].away  BY DEF Leads
    <3> QED  BY <1>1, <1>3, <3>1
  <2>2. record # NULL => record.server.pid \in Pids  BY Typed DEF OInv, ServerIdentity
  <2>3. op.spawned # NULL => op.spawned.pid \in Pids  BY Typed DEF OInv, ServerIdentity
  <2> QED  BY <2>1, <2>2, <2>3 DEF OInv, SpawnsTold, LeadersStay, Leads, Is, Present, ProcessOf
<1>12. LeaseFollows'  BY <1>1 DEF OInv, LeasesScan, LeaseFollows, Target
<1>13. \A m \in lease.members : m.pid \in Pids /\ (Is(m)' <=> Is(m)) /\ (Live(m.pid)' <=> Live(m.pid))
  <2>1. \A m \in lease.members : m.pid \in Pids
        BY DEF OInv, IInv, ProcessInv, MembersKnown, KnownAs
  <2> QED  BY <1>1, <1>4, <2>1 DEF Is
<1>14. MembersInSession'
  <2> SUFFICES ASSUME NEW m \in lease.members, Is(m)
               PROVE  /\ m.pid = lease.session => proc'[m.pid].sess = lease.session
                      /\ proc'[m.pid].sess = lease.session => ~proc'[m.pid].away
      BY <1>1, <1>13 DEF MembersInSession
  <2>1. /\ m.pid = lease.session => proc[m.pid].sess = lease.session
        /\ proc[m.pid].sess = lease.session => ~proc[m.pid].away
        BY DEF OInv, LeasesScan, MembersInSession
  <2>2. CASE m.pid = p  BY <1>1, <1>3, <2>1, <2>2
  <2>3. CASE m.pid # p  BY <1>3, <1>13, <2>1, <2>3
  <2> QED  BY <2>2, <2>3
<1>15. HeldByLease'
  <2>1. HeldAlive' = HeldAlive  BY <1>4 DEF HeldAlive
  <2>2. \A q \in HeldAlive : Identity(q)' = Identity(q)  BY <1>4 DEF HeldAlive
  <2> QED  BY <1>1, <2>1, <2>2 DEF OInv, LeasesScan, HeldByLease
<1>16. ListedAll'  BY <1>1, <1>4 DEF OInv, LeasesScan, ListedAll
<1>17. DoneMeansGone' /\ RecordedIsGone'
  <2>1. lease.step = "done" => Gone(lease.tag)'
        BY <1>1, <1>6 DEF OInv, ServersFound, DoneMeansGone, Gone, Mine, Live
  <2>2. op.step = "stopped" => Gone(record.server.tag)'
        BY <1>6 DEF OInv, ServersFound, DoneMeansGone, Gone, Mine, Live
  <2>3. RecordedIsGone'  BY <1>6 DEF OInv, ServersFound, RecordedIsGone, Gone, Mine, Live
  <2> QED  BY <1>1, <2>1, <2>2, <2>3 DEF DoneMeansGone, Gone, Mine, Live
<1>18. StoppedStays'
  <2>1. ASSUME record # NULL, record.status = "STOPPED" PROVE Gone(record.server.tag)'
        BY <1>6, <2>1 DEF OInv, ServersFound, StoppedStays, Gone, Mine, Live
  <2> QED  BY <1>1, <1>13, <2>1 DEF OInv, ServersFound, StoppedStays, Gone, Mine, Live
<1>19. EveryServerIsRecorded'
  <2>1. \A t : Alive(t)' => Alive(t)  BY <1>5, MineIsAlive
  <2> QED  BY <1>1, <2>1 DEF OInv, ServersFound, EveryServerIsRecorded, Accounted
<1> QED  BY <1>8, <1>9, <1>10, <1>11, <1>12, <1>14, <1>15, <1>16, <1>17, <1>18, <1>19
         DEF OInv, SpawnsTold, LeasesScan, ServersFound

\* A process begins: of somebody else, or beside the one that forks it.
LEMMA BeginsOwns ==
  ASSUME OInv, IInv', NEW p \in Unused, NEW r \in ProcessRecord, Created(p, r), r.state = "live", ~r.held,
         UNCHANGED << servers, boot, record, op, leaked, lease >>,
         \/ r.tag = 0 /\ r.sess = p /\ raced' = raced
         \/ \E q \in Pids : /\ Live(q) /\ proc[q].tag # 0
                            /\ r.sess = proc[q].sess /\ r.tag = proc[q].tag /\ r.away = proc[q].away
                            /\ raced' = IF lease.step \in {"read", "look"} THEN raced \cup {r.tag} ELSE raced
  PROVE  OInv'
<1>1. /\ p \in Pids /\ ~Present(p) /\ \A q \in Pids : Present(q) => proc[q].sess # p
      /\ proc' = [proc EXCEPT ![p] = r] /\ ticks' = [ticks EXCEPT ![p] = @ + 1]
      BY DEF Unused, Created
<1>2. proc \in [Pids -> ProcessRecord] /\ ticks \in [Pids -> Nat] /\ servers \in Nat  BY Typed DEF OInv
<1>3. /\ proc'[p] = r /\ ticks'[p] = ticks[p] + 1
      /\ \A q \in Pids : q # p => proc'[q] = proc[q] /\ ticks'[q] = ticks[q]
      BY <1>1, <1>2
<1>4. raced \subseteq raced'  OBVIOUS
<1>5. \A q \in Pids : Live(q) => Present(q)  BY DEF Live, Present
<1>6. \A i : i.pid \in Pids /\ i.ticks <= ticks[i.pid] /\ i.ticks \in Nat /\ Is(i)' =>
               i.pid # p /\ Is(i)
  <2> SUFFICES ASSUME NEW i, i.pid \in Pids, i.ticks \in Nat, i.ticks <= ticks[i.pid], Is(i)'
               PROVE  i.pid # p /\ Is(i)
      OBVIOUS
  <2>1. ticks'[i.pid] = i.ticks  BY DEF Is
  <2>2. i.pid # p  BY <1>2, <1>3, <2>1
  <2> QED  BY <1>3, <2>2 DEF Is, Present
<1>7. \A t : t # 0 /\ Gone(t) => Gone(t)'
  <2> SUFFICES ASSUME NEW t, t # 0, t \notin raced', Mine(t) = {}, NEW q \in Mine(t)' PROVE FALSE
      BY <1>4 DEF Gone
  <2>1. q = p /\ r.tag = t /\ ~r.away  BY <1>3 DEF Mine, Live
  <2>2. PICK k \in Pids : Live(k) /\ r.tag = proc[k].tag /\ r.away = proc[k].away  BY <2>1
  <2> QED  BY <2>1, <2>2 DEF Mine
<1>8. TagsNumbered'
  <2>1. r.tag <= servers
    <3>1. CASE r.tag = 0  BY <1>2, <3>1
    <3>2. CASE r.tag # 0  BY <1>5, <3>2 DEF OInv, SpawnsTold, TagsNumbered
    <3> QED  BY <3>1, <3>2
  <2>2. \A q \in Pids : Present(q)' => proc'[q].tag <= servers
        BY <1>3, <2>1 DEF OInv, SpawnsTold, TagsNumbered, Present
  <2> QED  BY <2>2 DEF OInv, SpawnsTold, TagsNumbered
<1>9. SessionsLeaveTogether'
  <2> SUFFICES ASSUME NEW q \in Pids, NEW k \in Pids, Present(q)', Present(k)', proc'[q].sess = proc'[k].sess
               PROVE  proc'[q].away = proc'[k].away
      BY DEF SessionsLeaveTogether
  <2>1. \A j \in Pids : Present(j) /\ proc[j].sess = r.sess => proc[j].away = r.away
        BY <1>1, <1>5 DEF OInv, SpawnsTold, SessionsLeaveTogether
  <2>2. CASE q # p /\ k # p  BY <1>3, <2>2 DEF OInv, SpawnsTold, SessionsLeaveTogether, Present
  <2>3. CASE q = p /\ k # p  BY <1>3, <2>1, <2>3 DEF Present
  <2>4. CASE q # p /\ k = p  BY <1>3, <2>1, <2>4 DEF Present
  <2>5. CASE q = p /\ k = p  BY <2>5
  <2> QED  BY <2>2, <2>3, <2>4, <2>5
<1>10. ASSUME NEW s, s.tag # 0, InSessionOf(s) PROVE InSessionOf(s)'
  <2> SUFFICES ASSUME NEW q \in Pids, Present(q)', proc'[q].tag = s.tag, ~proc'[q].away
               PROVE  s.boot = boot /\ proc'[q].sess = s.pid
      BY DEF InSessionOf
  <2>1. CASE q # p  BY <1>3, <1>10, <2>1 DEF InSessionOf, Present
  <2>2. CASE q = p  BY <1>3, <1>5, <1>10, <2>2 DEF InSessionOf
  <2> QED  BY <2>1, <2>2
<1>11. SessionsKnown'
  <2>1. /\ record # NULL => record.server.tag # 0 /\ InSessionOf(record.server)
        /\ op.spawned # NULL => op.spawned.tag # 0 /\ InSessionOf(op.spawned)
        BY <1>2 DEF OInv, SpawnsTold, TagsNumbered, SessionsKnown
  <2> QED  BY <1>10, <2>1 DEF SessionsKnown, InSessionOf, Present
<1>12. ASSUME NEW s \in ServerIdentity, ServerKnown(s), Leads(s) PROVE Leads(s)'
  <2> SUFFICES ASSUME s.boot = boot, Is(ProcessOf(s))' PROVE proc'[s.pid].sess = s.pid /\ ~proc'[s.pid].away
      BY DEF Leads
  <2> DEFINE i == ProcessOf(s)
  <2>1. i.pid = s.pid /\ i.pid \in Pids /\ i.ticks \in Nat /\ i.ticks <= ticks[i.pid] /\ Is(i)'
        BY <1>12 DEF ServerKnown, KnownAs, ProcessOf, ServerIdentity, Is, Present
  <2> HIDE DEF i
  <2>2. i.pid # p /\ Is(i)  BY <1>6, <2>1
  <2> QED  BY <1>3, <1>12, <2>1, <2>2 DEF Leads, i
<1>13. LeadersStay'
  <2>1. record # NULL => record.server \in ServerIdentity /\ ServerKnown(record.server)
        BY Typed DEF OInv, IInv, AdapterInv, RecordKnown
  <2>2. op.spawned # NULL => op.spawned \in ServerIdentity /\ ServerKnown(op.spawned)
        BY Typed DEF OInv, IInv, AdapterInv, SpawnedKnown
  <2> QED  BY <1>12, <2>1, <2>2 DEF OInv, SpawnsTold, LeadersStay, Leads, Is, Present, ProcessOf
<1>14. LeaseFollows'  BY DEF OInv, LeasesScan, LeaseFollows, Target
<1>15. \A m \in lease.members : m.pid \in Pids /\ (Is(m)' => m.pid # p /\ Is(m))
  <2>1. \A m \in lease.members : m.pid \in Pids /\ m.ticks \in Nat /\ m.ticks <= ticks[m.pid]
        BY DEF OInv, IInv, ProcessInv, MembersKnown, KnownAs
  <2> QED  BY <1>6, <2>1
<1>16. MembersInSession'
  <2> SUFFICES ASSUME NEW m \in lease.members, Is(m)'
               PROVE  /\ m.pid = lease.session => proc'[m.pid].sess = lease.session
                      /\ proc'[m.pid].sess = lease.session => ~proc'[m.pid].away
      BY DEF MembersInSession
  <2> QED  BY <1>3, <1>15 DEF OInv, LeasesScan, MembersInSession
<1>17. HeldByLease'
  <2>1. \A q \in HeldAlive' : q \in HeldAlive /\ Identity(q)' = Identity(q)
        BY <1>3 DEF HeldAlive, Live, Identity
  <2> QED  BY <2>1 DEF OInv, LeasesScan, HeldByLease
<1>18. ListedAll'
  <2> SUFFICES ASSUME lease.step \in {"read", "look"}, NEW q \in Pids, Live(q)',
                      proc'[q].tag \notin raced' \cup {0}, ~proc'[q].away
               PROVE  q \in lease.listed
      BY DEF ListedAll
  <2>1. q # p  BY <1>3
  <2> QED  BY <1>3, <1>4, <2>1 DEF OInv, LeasesScan, ListedAll, Live
<1>19. DoneMeansGone'
  <2>1. lease.step = "done" => Gone(lease.tag)'
    <3> SUFFICES ASSUME lease.step = "done" PROVE lease.tag # 0 /\ Gone(lease.tag)
        BY <1>7 DEF Gone, Mine, Live
    <3>1. lease.tag = Target.tag /\ op.step \in {"terminate", "rollback"}
          BY NoLeaseIs DEF OInv, LeasesScan, LeaseFollows
    <3>2. op.spawned = NULL => record # NULL
          BY <3>1, ServerAssumption DEF OInv, IInv, AdapterInv, StepsFollow
    <3>3. Target.tag # 0  BY <1>2, <3>2 DEF OInv, SpawnsTold, TagsNumbered, Target
    <3> QED  BY <3>1, <3>3 DEF OInv, ServersFound, DoneMeansGone
  <2>2. op.step = "stopped" => Gone(record.server.tag)'
    <3> SUFFICES ASSUME op.step = "stopped" PROVE record.server.tag # 0 /\ Gone(record.server.tag)
        BY <1>7 DEF Gone, Mine, Live
    <3>1. record # NULL  BY ServerAssumption DEF OInv, IInv, AdapterInv, StepsFollow
    <3> QED  BY <1>2, <3>1 DEF OInv, SpawnsTold, TagsNumbered, ServersFound, DoneMeansGone
  <2> QED  BY <2>1, <2>2 DEF DoneMeansGone, Gone, Mine, Live
<1>20. record # NULL => (Gone(record.server.tag) => Gone(record.server.tag)')
  <2>1. record # NULL => record.server.tag # 0  BY <1>2 DEF OInv, SpawnsTold, TagsNumbered
  <2> QED  BY <1>7, <2>1 DEF Gone, Mine, Live
<1>21. RecordedIsGone'
       BY <1>20 DEF OInv, ServersFound, RecordedIsGone, Gone, Mine, Live
<1>22. StoppedStays'
  <2>1. \A m \in lease.members : Is(m)' /\ Live(m.pid)' => Is(m) /\ Live(m.pid)
        BY <1>3, <1>15 DEF Live
  <2> QED  BY <1>4, <1>20, <2>1 DEF OInv, ServersFound, StoppedStays, Gone, Mine, Live
<1>23. EveryServerIsRecorded'
  <2> SUFFICES ASSUME NEW t \in Accounted', Alive(t)'
               PROVE  t \in Accounted /\ Alive(t)
      BY DEF OInv, ServersFound, EveryServerIsRecorded
  <2>1. t \in Accounted /\ t # 0  BY <1>4 DEF Accounted
  <2>2. PICK q \in Pids : Live(q)' /\ proc'[q].tag = t /\ ~proc'[q].away  BY DEF Alive
  <2>3. Alive(t)
    <3>1. CASE q # p  BY <1>3, <2>2, <3>1 DEF Alive, Live
    <3>2. CASE q = p
      <4>1. r.tag = t /\ ~r.away  BY <1>3, <2>2, <3>2
      <4> QED  BY <2>1, <4>1 DEF Alive
    <3> QED  BY <3>1, <3>2
  <2> QED  BY <2>1, <2>3
<1> QED  BY <1>8, <1>9, <1>11, <1>13, <1>14, <1>16, <1>17, <1>18, <1>19, <1>21, <1>22, <1>23
         DEF OInv, SpawnsTold, LeasesScan, ServersFound

LEMMA ProcessesOwn ==
  ASSUME OInv, IInv', Processes
  PROVE  OInv'
<1>1. UNCHANGED << boot, record, op, leaked >> /\ ProcessNext  BY DEF Processes
<1>2. ASSUME NEW p \in Pids, ForeignStart(p) PROVE OInv'
  <2> DEFINE r == [NoProcess EXCEPT !.state = "live", !.sess = p]
  <2>1. p \in Unused /\ Created(p, r) /\ UNCHANGED << servers, raced, lease >>
        BY <1>2 DEF ForeignStart
  <2>2. r \in ProcessRecord /\ r.state = "live" /\ ~r.held /\ r.tag = 0 /\ r.sess = p
        BY DEF NoProcess, ProcessRecord
  <2> HIDE DEF r
  <2> QED  BY <1>1, <2>1, <2>2, BeginsOwns
<1>3. ASSUME NEW p \in Pids, NEW q \in Pids, Fork(q, p) PROVE OInv'
  <2> DEFINE r == [NoProcess EXCEPT !.state = "live", !.sess = proc[q].sess, !.tag = proc[q].tag,
                                    !.away = proc[q].away]
  <2>1. /\ p \in Unused /\ Created(p, r) /\ UNCHANGED << servers, lease >>
        /\ Live(q) /\ proc[q].tag # 0
        /\ raced' = IF lease.step \in {"read", "look"} THEN raced \cup {proc[q].tag} ELSE raced
        BY <1>3 DEF Fork
  <2>2. proc[q] \in ProcessRecord  BY Typed DEF OInv
  <2>3. /\ r \in ProcessRecord /\ r.state = "live" /\ ~r.held
        /\ r.sess = proc[q].sess /\ r.tag = proc[q].tag /\ r.away = proc[q].away
        BY <2>2 DEF NoProcess, ProcessRecord
  <2> HIDE DEF r
  <2> QED  BY <1>1, <2>1, <2>3, BeginsOwns
<1> QED  BY <1>1, <1>2, <1>3, EscapeOwns, DieOwns DEF ProcessNext

\* Nobody outlives the boot.
LEMMA RebootOwns ==
  ASSUME OInv, IInv', Reboot
  PROVE  OInv'
<1>1. /\ op = NoOp /\ boot' = boot + 1 /\ UNCHANGED << servers, raced, lease, record, op, leaked >>
      /\ proc' = [p \in Pids |-> NoProcess]
      BY DEF Reboot
<1>2. lease = NoLease  BY <1>1, NoOpIs DEF OInv, LeasesScan, LeaseFollows
<1>3. \A p \in Pids : ~Present(p)' /\ ~Live(p)'  BY <1>1 DEF Present, Live, NoProcess
<1>4. \A t : Mine(t)' = {} /\ Gone(t)'  BY <1>3 DEF Mine, Gone
<1>5. SpawnsTold'
  <2>1. TagsNumbered'  BY <1>1, <1>3 DEF OInv, SpawnsTold, TagsNumbered
  <2>2. SessionsLeaveTogether' /\ SessionsKnown'
        BY <1>3 DEF SessionsLeaveTogether, SessionsKnown, InSessionOf
  <2>3. LeadersStay'
    <3>1. record # NULL => record.server.pid \in Pids  BY Typed DEF OInv, ServerIdentity
    <3>2. op.spawned = NULL  BY <1>1, NoOpIs
    <3> QED  BY <1>1, <1>3, <3>1, <3>2 DEF LeadersStay, Leads, Is, ProcessOf
  <2> QED  BY <2>1, <2>2, <2>3 DEF SpawnsTold
<1>6. LeasesScan'
      BY <1>1, <1>2, <1>3, NoOpIs, NoLeaseIs
      DEF LeasesScan, LeaseFollows, MembersInSession, HeldByLease, HeldAlive, ListedAll
<1>7. ServersFound'
  <2>1. DoneMeansGone'  BY <1>1, <1>2, NoOpIs, NoLeaseIs DEF DoneMeansGone
  <2>2. record # NULL => Gone(record.server.tag)'  BY <1>1, <1>3 DEF Gone, Mine
  <2>3. RecordedIsGone' /\ StoppedStays'
        BY <1>1, <2>2, NoOpIs DEF RecordedIsGone, StoppedStays, Gone, Mine, Live
  <2>4. EveryServerIsRecorded'  BY <1>3 DEF EveryServerIsRecorded, Alive
  <2> QED  BY <2>1, <2>3, <2>4 DEF ServersFound
<1> QED  BY <1>5, <1>6, <1>7 DEF OInv

LEMMA StartOwns ==
  ASSUME Init
  PROVE  OInv
<1>1. /\ proc = [p \in Pids |-> NoProcess] /\ lease = NoLease /\ record = NULL /\ op = NoOp
      BY DEF Init, ProcessInit
<1>2. \A p \in Pids : ~Present(p) /\ ~Live(p)  BY <1>1 DEF Present, Live, NoProcess
<1>3. SpawnsTold
      BY <1>1, <1>2, NoOpIs
      DEF SpawnsTold, TagsNumbered, SessionsLeaveTogether, SessionsKnown, LeadersStay
<1>4. LeasesScan
      BY <1>1, <1>2, NoOpIs, NoLeaseIs
      DEF LeasesScan, LeaseFollows, MembersInSession, HeldByLease, HeldAlive, ListedAll
<1>5. ServersFound
      BY <1>1, <1>2, NoOpIs, NoLeaseIs
      DEF ServersFound, DoneMeansGone, RecordedIsGone, StoppedStays, EveryServerIsRecorded, Alive
<1> QED  BY <1>3, <1>4, <1>5, Start DEF OInv

LEMMA OwnershipPreserved ==
  ASSUME OInv, [Next]_vars
  PROVE  OInv'
<1>1. IInv'  BY Preserved DEF OInv
<1>2. CASE UNCHANGED vars
  <2>1. UNCHANGED << proc, ticks, servers, raced, lease, boot, record, op, leaked >>
        BY <1>2 DEF vars, processVars
  <2>2. Fades  BY <2>1, FadesIf
  <2> QED  BY <1>1, <2>1, <2>2, QuietStep
<1>3. CASE AdapterStep
      BY <1>1, <1>3, LoadForStartOwns, ScanListOwns, ScanLookOwns, SpawnRefusedOwns, SpawnServerOwns,
         CaptureOwns, KillUncapturedOwns, VerifyUncapturedOwns, RecordStartedOwns, RecordFailsOwns,
         RecordedSteps, LoadForStopOwns, CheckExactOwns, OpenLeaseOwns, CleanupOwns, TerminatedOwns,
         TerminationFailsOwns, RecordStoppedOwns
      DEF AdapterStep
<1>4. ASSUME NEW d \in Drivers, NEW kind \in {"start", "stop"}, NEW r \in Requests \cup {NULL},
             Begin(d, kind, r)
      PROVE  OInv'
      BY <1>1, <1>4, BeginOwns
<1>5. CASE Processes \/ Crash \/ Reboot  BY <1>1, <1>5, ProcessesOwn, CrashOwns, RebootOwns
<1>6. ASSUME NEW d \in Drivers, Exit(d) PROVE OInv'  BY <1>1, <1>6, ExitOwns
<1> QED  BY <1>2, <1>3, <1>4, <1>5, <1>6 DEF Next

-----------------------------------------------------------------------------
\* start_or_resume never spawns a server while another one may still hold the
\* GPU, whatever crashed before: unless a worker was forked during a scan, or
\* a spawn was given up without a record, at most one server's session is alive.
LEMMA OneAtATime ==
  ASSUME OInv
  PROVE  OneServerAtATime
<1> SUFFICES ASSUME NEW t \in Accounted, NEW u \in Accounted, Alive(t), Alive(u)
             PROVE  t = u
    BY DEF OneServerAtATime
<1>1. \A v \in Accounted : Alive(v) => ~Gone(v)  BY MineIsAlive DEF Gone, Accounted
<1>2. record # NULL /\ op.spawned # NULL => Gone(record.server.tag)
      BY DEF OInv, ServersFound, RecordedIsGone
<1> QED  BY <1>1, <1>2 DEF OInv, ServersFound, EveryServerIsRecorded

LEMMA StoppedIsGone ==
  ASSUME OInv
  PROVE  StoppedMeansGone
<1> SUFFICES ASSUME record # NULL, record.status = "STOPPED", record.server.tag \notin raced
             PROVE  ~Alive(record.server.tag) /\ Followed(record.server.tag) = {}
    BY DEF StoppedMeansGone
<1>1. Mine(record.server.tag) = {}  BY DEF OInv, ServersFound, StoppedStays, Gone
<1>2. ASSUME NEW p \in Followed(record.server.tag) PROVE FALSE
  <2>1. p \in HeldAlive /\ p \in Pids /\ Live(p) /\ Present(p) /\ proc[p].tag = record.server.tag
        BY DEF Followed, HeldAlive, Live, Present
  <2>2. op.step \in {"terminate", "rollback"} /\ Identity(p) \in lease.members
        BY <2>1 DEF OInv, LeasesScan, HeldByLease
  <2>3. Is(Identity(p)) /\ Identity(p).pid = p  BY <2>1 DEF Is, Identity
  <2>4. lease.tag = record.server.tag
        BY <2>1, <2>2, <2>3 DEF OInv, IInv, ProcessInv, MembersKnown, KnownAs
  <2>5. op.spawned = NULL
        BY <2>2, <2>4 DEF OInv, LeasesScan, LeaseFollows, Target, SpawnsTold, TagsNumbered
  <2>6. op.step = "terminate"  BY <2>2, <2>5 DEF OInv, IInv, AdapterInv, StepsFollow
  <2> QED  BY <2>1, <2>2, <2>3, <2>5, <2>6 DEF OInv, ServersFound, StoppedStays
<1> QED  BY <1>1, <1>2, MineIsAlive

\* A record that says STOPPED (vllm_adapter.py, stop) stands for a session
\* without a live process, workers and members that left it included.
THEOREM StoppedStaysGone == Spec => []StoppedMeansGone
<1>1. Init => OInv  BY StartOwns
<1>2. OInv /\ [Next]_vars => OInv'  BY OwnershipPreserved
<1>3. OInv => StoppedMeansGone  BY StoppedIsGone
<1> QED  BY <1>1, <1>2, <1>3, PTL DEF Spec

-----------------------------------------------------------------------------
(* Records, requests and counters stay within their types and bounds: the  *)
(* rest of ServersAreKnown.                                                *)

Counters ==
  /\ forks \in 0 .. MaxForks /\ disturbances \in 0 .. MaxDisturbances
  /\ servers <= MaxServers /\ boot <= disturbances
  /\ \A p \in Pids : ticks[p] <= MaxTicks

TagsBounded == raced \subseteq 1 .. MaxServers /\ leaked \subseteq 1 .. MaxServers

\* Who starts a server has a request.
RequestKept ==
  /\ op.step \in {"port", "scan", "capture", "evidence"} => op.request \in Requests
  /\ op.step = "load" /\ op.kind = "start" => op.request \in Requests

ServersBounded ==
  /\ op.spawned # NULL => op.spawned.ticks <= MaxTicks
  /\ record # NULL => record.server.ticks <= MaxTicks /\ record.request \in Requests

BInv ==
  /\ OInv /\ Counters /\ TagsBounded /\ TagsLow /\ QueueTidy /\ RequestKept /\ ServersBounded
  /\ strayed \in BOOLEAN

-----------------------------------------------------------------------------
\* Only what begins or befalls is counted.
LEMMA NothingCounted ==
  ASSUME AdapterStep, ~SpawnServer
  PROVE  UNCHANGED << ticks, servers, forks, disturbances, boot, raced >>
<1>1. Cleanup => UNCHANGED << ticks, servers, forks, disturbances, boot, raced >>
      BY DEF Cleanup, LeaseStep, ListProcesses, Refresh, OpenPidfd, SendSignal, EndSignals, osVars
<1>2. ScanList => UNCHANGED << ticks, servers, forks, disturbances, boot, raced >>
      BY DEF ScanList, osVars
<1> QED  BY <1>1, <1>2
         DEF AdapterStep, LoadForStart, ScanLook, SpawnRefused, CaptureIdentity, KillUncaptured, VerifyUncaptured,
             RecordStarted, RecordFails, Mismatch, InspectReused, WaitForHealth, LoadForStop, CheckExact,
             OpenLease, Terminated, TerminationFails, RecordStopped, Rest

LEMMA CountersStay ==
  ASSUME BInv, Next
  PROVE  Counters' /\ raced' \subseteq 1 .. MaxServers
<1>1. /\ ticks \in [Pids -> Nat] /\ servers \in Nat /\ boot \in Nat  BY Typed DEF BInv, OInv
<1>2. MaxServers \in Nat /\ MaxDisturbances \in Nat /\ MaxForks \in Nat  BY Bounds
<1>3. CASE UNCHANGED << ticks, servers, forks, disturbances, boot, raced >>
      BY <1>3 DEF BInv, Counters, TagsBounded
<1>4. CASE SpawnServer
  <2>1. PICK p \in Pids : Spawn(op.driver, p)  BY <1>4 DEF SpawnServer
  <2>2. /\ p \in Unused /\ servers < MaxServers /\ servers' = servers + 1
        /\ Created(p, [NoProcess EXCEPT !.state = "live", !.sess = p, !.tag = servers + 1,
                                        !.parent = op.driver])
        /\ UNCHANGED << raced, forks, disturbances >>
        BY <2>1 DEF Spawn
  <2>3. \A q \in Pids : ticks'[q] <= MaxTicks  BY <1>1, <2>2, CreatedCounts DEF BInv, Counters
  <2>4. boot' = boot  BY <1>4 DEF SpawnServer
  <2> QED  BY <1>1, <1>2, <2>2, <2>3, <2>4 DEF BInv, Counters, TagsBounded
<1>5. CASE Processes
  <2>1. boot' = boot /\ ProcessNext  BY <1>5 DEF Processes
  <2>2. ASSUME NEW p \in Pids, Escape(p) \/ Die(p) PROVE Counters' /\ raced' \subseteq 1 .. MaxServers
    <3>1. UNCHANGED << ticks, servers, forks, raced >>  BY <2>2 DEF Escape, Die
    <3>2. disturbances' = disturbances \/ (disturbances < MaxDisturbances /\ disturbances' = disturbances + 1)
          BY <2>2 DEF Escape, Die
    <3> QED  BY <1>1, <1>2, <2>1, <3>1, <3>2 DEF BInv, Counters, TagsBounded
  <2>3. ASSUME NEW p \in Pids, ForeignStart(p) PROVE Counters' /\ raced' \subseteq 1 .. MaxServers
    <3>1. /\ p \in Unused /\ Created(p, [NoProcess EXCEPT !.state = "live", !.sess = p])
          /\ disturbances < MaxDisturbances /\ disturbances' = disturbances + 1
          /\ UNCHANGED << servers, forks, raced >>
          BY <2>3 DEF ForeignStart
    <3>2. \A q \in Pids : ticks'[q] <= MaxTicks  BY <1>1, <3>1, CreatedCounts DEF BInv, Counters
    <3> QED  BY <1>1, <1>2, <2>1, <3>1, <3>2 DEF BInv, Counters, TagsBounded
  <2>4. ASSUME NEW p \in Pids, NEW q \in Pids, Fork(q, p) PROVE Counters' /\ raced' \subseteq 1 .. MaxServers
    <3>1. /\ p \in Unused /\ Created(p, [NoProcess EXCEPT !.state = "live", !.sess = proc[q].sess,
                                                          !.tag = proc[q].tag, !.away = proc[q].away])
          /\ forks < MaxForks /\ forks' = forks + 1 /\ UNCHANGED << servers, disturbances >>
          /\ Live(q) /\ proc[q].tag # 0 /\ raced' \subseteq raced \cup {proc[q].tag}
          BY <2>4 DEF Fork
    <3>2. \A k \in Pids : ticks'[k] <= MaxTicks  BY <1>1, <3>1, CreatedCounts DEF BInv, Counters
    <3>3. proc[q].tag \in 1 .. MaxServers
      <4>1. proc[q].tag \in Nat  BY Typed DEF BInv, OInv, ProcessRecord
      <4>2. proc[q].tag <= servers
            BY <3>1 DEF BInv, OInv, SpawnsTold, TagsNumbered, Live, Present
      <4> QED  BY <1>1, <1>2, <3>1, <4>1, <4>2 DEF BInv, Counters
    <3>4. raced' \subseteq 1 .. MaxServers  BY <3>1, <3>3 DEF BInv, TagsBounded
    <3>5. Counters'  BY <1>1, <1>2, <2>1, <3>1, <3>2 DEF BInv, Counters
    <3> QED  BY <3>4, <3>5
  <2> QED  BY <2>1, <2>2, <2>3, <2>4 DEF ProcessNext
<1>6. CASE Crash
  <2>1. /\ UNCHANGED << ticks, servers, forks, boot, raced >>
        /\ disturbances < MaxDisturbances /\ disturbances' = disturbances + 1
        BY <1>6 DEF Crash
  <2> QED  BY <1>1, <1>2, <2>1 DEF BInv, Counters, TagsBounded
<1>7. CASE Reboot
  <2>1. /\ UNCHANGED << servers, forks, raced >> /\ boot' = boot + 1 /\ ticks' = [p \in Pids |-> 0]
        /\ disturbances < MaxDisturbances /\ disturbances' = disturbances + 1
        BY <1>7 DEF Reboot
  <2>2. \A p \in Pids : ticks'[p] <= MaxTicks  BY <2>1, Bounds
  <2> QED  BY <1>1, <1>2, <2>1, <2>2 DEF BInv, Counters, TagsBounded
<1>8. ASSUME NEW d \in Drivers, Exit(d) PROVE UNCHANGED << ticks, servers, forks, disturbances, boot, raced >>
      BY <1>8 DEF Exit, Rest
<1>9. ASSUME NEW d \in Drivers, NEW kind, NEW r, Begin(d, kind, r)
      PROVE  UNCHANGED << ticks, servers, forks, disturbances, boot, raced >>
      BY <1>9 DEF Begin, processVars
<1> QED  BY <1>3, <1>4, <1>5, <1>6, <1>7, <1>8, <1>9, NothingCounted DEF Next

\* A spawn is given up by the operation that made it.
LEMMA LeakedStay ==
  ASSUME BInv, Next
  PROVE  leaked' \subseteq 1 .. MaxServers
<1>1. op.step \in {"uncaptured", "evidence"} => op.spawned # NULL
      BY DEF BInv, OInv, IInv, AdapterInv, StepsFollow
<1>2. leaked' \subseteq leaked \/ (op.spawned # NULL /\ leaked' \subseteq leaked \cup {op.spawned.tag})
  <2>1. CASE AdapterStep
    <3>1. CASE VerifyUncaptured \/ RecordFails  BY <1>1, <3>1 DEF VerifyUncaptured, RecordFails
    <3>2. CASE OpenLease \/ TerminationFails  BY <3>2 DEF OpenLease, TerminationFails, Target
    <3> QED  BY <2>1, <3>1, <3>2
             DEF AdapterStep, LoadForStart, ScanList, ScanLook, SpawnRefused, SpawnServer, CaptureIdentity,
                 KillUncaptured, RecordStarted, Mismatch, InspectReused, WaitForHealth, LoadForStop, CheckExact,
                 Cleanup, Terminated, RecordStopped
  <2>2. CASE Crash  BY <2>2 DEF Crash, Unrecorded
  <2>3. CASE Processes \/ Reboot  BY <2>3 DEF Processes, Reboot
  <2>4. ASSUME NEW d \in Drivers, Exit(d) PROVE leaked' = leaked  BY <2>4 DEF Exit
  <2>5. ASSUME NEW d \in Drivers, NEW kind, NEW r, Begin(d, kind, r) PROVE leaked' = leaked
        BY <2>5 DEF Begin
  <2> QED  BY <2>1, <2>2, <2>3, <2>4, <2>5 DEF Next
<1>3. op.spawned # NULL => op.spawned.tag \in 1 .. MaxServers
  <2>1. servers \in Nat /\ servers <= MaxServers  BY Typed DEF BInv, OInv, Counters
  <2> QED  BY <2>1, Bounds DEF BInv, OInv, SpawnsTold, TagsNumbered
<1> QED  BY <1>2, <1>3 DEF BInv, TagsBounded

LEMMA QueueStaysTidy ==
  ASSUME BInv, Next
  PROVE  QueueTidy'
<1>1. lease \in LeaseRecord  BY Typed DEF BInv, OInv
<1>2. NoLease.queue = {} /\ NoLease \in LeaseRecord  BY NoLeaseIs DEF NoLease
<1>3. CASE lease' = lease  BY <1>3 DEF BInv, QueueTidy
<1>4. CASE lease' = NoLease  BY <1>2, <1>4 DEF QueueTidy
<1>5. ASSUME NEW session, lease' = [NoLease EXCEPT !.step = "scan", !.session = session] PROVE QueueTidy'
      BY <1>5 DEF QueueTidy, NoLease
<1>6. CASE ScanList \/ VerifyUncaptured
  <2>1. CASE lease.step \in {"scan", "look"} /\ lease'.queue = lease.queue
        BY <2>1 DEF BInv, QueueTidy
  <2>2. CASE ScanList
    <3>1. /\ lease.step = "scan"
          /\ lease' = [lease EXCEPT !.step = "look", !.listed = { p \in Pids : Present(p) }]
          BY <2>2 DEF ScanList
    <3>2. lease'.queue = lease.queue  BY <1>1, <3>1 DEF LeaseRecord
    <3> QED  BY <2>1, <3>1, <3>2
  <2>3. CASE VerifyUncaptured
    <3>1. lease.step = "look" /\ (lease' = NoLease \/ lease' = [lease EXCEPT !.step = "scan", !.listed = {}])
          BY <2>3 DEF VerifyUncaptured, End
    <3>2. CASE lease' = [lease EXCEPT !.step = "scan", !.listed = {}]
      <4>1. lease'.queue = lease.queue  BY <1>1, <3>2 DEF LeaseRecord
      <4> QED  BY <2>1, <3>1, <4>1
    <3> QED  BY <1>4, <3>1, <3>2
  <2> QED  BY <1>6, <2>2, <2>3
<1>7. CASE CaptureIdentity \/ OpenLease
  <2>1. ASSUME NEW i, NEW t, NEW members,
               lease' = Opened(i, t) \/ lease' = [Opened(i, t) EXCEPT !.members = members, !.phase = "term"]
        PROVE  QueueTidy'
        BY <2>1 DEF QueueTidy, Opened, NoLease
  <2>2. CASE CaptureIdentity
    <3> DEFINE members == { Identity(p) : p \in { q \in Pids : Present(q) /\ proc[q].sess = op.spawned.pid } }
    <3>1. \/ lease' = lease
          \/ lease' = [Opened(ProcessOf(op.spawned), op.spawned.tag) EXCEPT !.members = members, !.phase = "term"]
          BY <2>2 DEF CaptureIdentity
    <3> HIDE DEF members
    <3> QED  BY <1>3, <2>1, <3>1
  <2>3. CASE OpenLease
    <3>1. lease' = Opened(ProcessOf(Target), Target.tag) \/ lease' = NoLease  BY <2>3 DEF OpenLease, End
    <3> QED  BY <1>4, <2>1, <3>1
  <2> QED  BY <1>7, <2>2, <2>3
<1>8. CASE Cleanup  BY <1>8, LeaseTidy DEF Cleanup, BInv, OInv, IInv
<1>9. CASE AdapterStep
      BY <1>3, <1>4, <1>5, <1>6, <1>7, <1>8, <1>9
      DEF AdapterStep, LoadForStart, ScanLook, SpawnRefused, SpawnServer, Spawn, KillUncaptured,
          RecordStarted, RecordFails, Mismatch, InspectReused, WaitForHealth, LoadForStop, CheckExact,
          Terminated, TerminationFails, RecordStopped, End
<1>10. CASE Processes  BY <1>3, <1>10 DEF Processes, ProcessNext, Escape, Die, ForeignStart, Fork
<1>11. CASE Crash \/ Reboot  BY <1>3, <1>4, <1>11 DEF Crash, Reboot, End
<1>12. ASSUME NEW d \in Drivers, Exit(d) PROVE QueueTidy'  BY <1>3, <1>12 DEF Exit
<1>13. ASSUME NEW d \in Drivers, NEW kind, NEW r, Begin(d, kind, r) PROVE QueueTidy'
       BY <1>3, <1>13 DEF Begin, processVars
<1> QED  BY <1>9, <1>10, <1>11, <1>12, <1>13 DEF Next

\* The request of an operation stays while it may write a record.
LEMMA RequestStays ==
  ASSUME BInv, Next
  PROVE  RequestKept'
<1>1. op \in Operation  BY Typed DEF BInv, OInv
<1>2. CASE op' = op  BY <1>2 DEF BInv, RequestKept
<1>3. CASE op' = NoOp  BY <1>3 DEF RequestKept, NoOp
<1>4. ASSUME NEW step \in {"inspect", "rollback", "uncaptured", "open", "probe", "exact", "terminate", "stopped"},
             Goto(step)
      PROVE  RequestKept'
      BY <1>1, <1>4, GotoIs DEF RequestKept
<1>5. ASSUME NEW step \in {"port", "scan", "evidence"}, Goto(step),
             op.step \in {"port", "scan", "capture"} \/ (op.step = "load" /\ op.kind = "start")
      PROVE  RequestKept'
  <2>1. op'.request = op.request /\ op'.step = step  BY <1>1, <1>5 DEF Goto, Operation
  <2> QED  BY <1>5, <2>1 DEF BInv, RequestKept
<1>6. CASE SpawnServer
  <2>1. PICK s : op' = [op EXCEPT !.step = "capture", !.spawned = s]  BY <1>6 DEF SpawnServer
  <2>2. op'.request = op.request /\ op'.step = "capture"  BY <1>1, <2>1 DEF Operation
  <2> QED  BY <1>6, <2>2 DEF BInv, RequestKept, SpawnServer
<1>7. CASE RecordStarted
  <2>1. PICK verdict \in {"mismatch", "probe"} :
          op' = [op EXCEPT !.step = verdict, !.spawned = NULL, !.request = NULL]
        BY <1>7 DEF RecordStarted
  <2>2. op'.step = verdict  BY <1>1, <2>1 DEF Operation
  <2> QED  BY <2>2 DEF RequestKept
<1>8. CASE op' = [op EXCEPT !.step = "exact", !.request = NULL]
  <2>1. op'.step = "exact"  BY <1>1, <1>8 DEF Operation
  <2> QED  BY <2>1 DEF RequestKept
<1>9. CASE LoadForStart  BY <1>3, <1>4, <1>5, <1>9 DEF LoadForStart, End
<1>10. CASE ScanLook \/ SpawnRefused  BY <1>3, <1>5, <1>10 DEF ScanLook, SpawnRefused, End
<1>11. CASE CaptureIdentity  BY <1>4, <1>5, <1>11 DEF CaptureIdentity
<1>12. CASE KillUncaptured \/ VerifyUncaptured \/ RecordFails
       BY <1>2, <1>3, <1>4, <1>12 DEF KillUncaptured, VerifyUncaptured, RecordFails, End
<1>13. CASE Mismatch \/ InspectReused \/ WaitForHealth
       BY <1>3, <1>4, <1>13 DEF Mismatch, InspectReused, WaitForHealth, End
<1>14. CASE LoadForStop \/ CheckExact \/ OpenLease
       BY <1>3, <1>4, <1>8, <1>14 DEF LoadForStop, CheckExact, OpenLease, End
<1>15. CASE Terminated \/ TerminationFails \/ RecordStopped
       BY <1>3, <1>4, <1>15 DEF Terminated, TerminationFails, RecordStopped, End
<1>16. CASE ScanList \/ Cleanup  BY <1>2, <1>16 DEF ScanList, Cleanup
<1>17. CASE AdapterStep
       BY <1>6, <1>7, <1>9, <1>10, <1>11, <1>12, <1>13, <1>14, <1>15, <1>16, <1>17 DEF AdapterStep
<1>18. CASE Processes \/ Reboot  BY <1>2, <1>18 DEF Processes, Reboot
<1>19. CASE Crash  BY <1>3, <1>19 DEF Crash, End
<1>20. ASSUME NEW d \in Drivers, Exit(d) PROVE RequestKept'  BY <1>2, <1>20 DEF Exit
<1>21. ASSUME NEW d \in Drivers, NEW r \in Requests \cup {NULL}, NEW kind \in {"start", "stop"},
              kind = "start" => r \in Requests, Begin(d, kind, r)
       PROVE  RequestKept'
  <2>1. op'.request = r /\ op'.step = "load" /\ op'.kind = kind  BY <1>21 DEF Begin, NoOp
  <2> QED  BY <1>21, <2>1 DEF RequestKept
<1> QED  BY <1>17, <1>18, <1>19, <1>20, <1>21 DEF Next

\* A record is of the server that was spawned for its request.
LEMMA ServersStayBounded ==
  ASSUME BInv, Next
  PROVE  ServersBounded'
<1>1. /\ op \in Operation /\ (record # NULL => record \in ServerExecutionRecord)
      BY Typed DEF BInv, OInv
<1>2. op'.spawned \in {op.spawned, NULL} \/ SpawnServer
  <2>1. \A step : Goto(step) => op'.spawned = op.spawned  BY <1>1 DEF Goto, Operation
  <2>2. End => op'.spawned = NULL  BY NoOpIs DEF End
  <2>3. CASE LoadForStart \/ ScanLook \/ SpawnRefused \/ CaptureIdentity \/ KillUncaptured \/ VerifyUncaptured
        BY <2>1, <2>2, <2>3
        DEF LoadForStart, ScanLook, SpawnRefused, CaptureIdentity, KillUncaptured, VerifyUncaptured
  <2>4. CASE RecordStarted
    <3>1. PICK verdict \in {"mismatch", "probe"} :
            op' = [op EXCEPT !.step = verdict, !.spawned = NULL, !.request = NULL]
          BY <2>4 DEF RecordStarted
    <3> QED  BY <1>1, <3>1 DEF Operation
  <2>5. CASE RecordFails \/ Mismatch \/ InspectReused \/ WaitForHealth \/ CheckExact \/ OpenLease
        BY <2>1, <2>2, <2>5 DEF RecordFails, Mismatch, InspectReused, WaitForHealth, CheckExact, OpenLease
  <2>6. CASE LoadForStop
    <3>1. CASE op' = [op EXCEPT !.step = "exact", !.request = NULL]  BY <1>1, <3>1 DEF Operation
    <3> QED  BY <2>2, <2>6, <3>1 DEF LoadForStop
  <2>7. CASE Terminated \/ TerminationFails \/ RecordStopped
        BY <2>1, <2>2, <2>7 DEF Terminated, TerminationFails, RecordStopped
  <2>8. CASE ScanList \/ Cleanup \/ Processes \/ Reboot  BY <2>8 DEF ScanList, Cleanup, Processes, Reboot
  <2>9. CASE Crash  BY <2>2, <2>9 DEF Crash
  <2>10. ASSUME NEW d \in Drivers, Exit(d) PROVE op' = op  BY <2>10 DEF Exit
  <2>11. ASSUME NEW d \in Drivers, NEW kind, NEW r, Begin(d, kind, r) PROVE op'.spawned = NULL
         BY <2>11 DEF Begin, NoOp
  <2> QED  BY <2>3, <2>4, <2>5, <2>6, <2>7, <2>8, <2>9, <2>10, <2>11 DEF Next, AdapterStep
<1>3. op'.spawned # NULL => op'.spawned.ticks <= MaxTicks
  <2>1. CASE SpawnServer
    <3>1. PICK p \in Pids :
            /\ Spawn(op.driver, p)
            /\ op' = [op EXCEPT !.step = "capture",
                                !.spawned = [pid |-> p, ticks |-> ticks[p] + 1, boot |-> boot,
                                             tag |-> servers + 1]]
          BY <2>1 DEF SpawnServer
    <3>2. op'.spawned.ticks = ticks[p] + 1  BY <1>1, <3>1 DEF Operation
    <3>3. /\ p \in Unused
          /\ Created(p, [NoProcess EXCEPT !.state = "live", !.sess = p, !.tag = servers + 1, !.parent = op.driver])
          BY <3>1 DEF Spawn
    <3>4. ticks[p] + 1 <= MaxTicks  BY <3>3, Typed, CreatedCounts DEF BInv, OInv, Counters
    <3> QED  BY <3>2, <3>4
  <2> QED  BY <1>2, <2>1 DEF BInv, ServersBounded
<1>4. \/ record' = record
      \/ record # NULL /\ \E status : Mark(status)
      \/ RecordStarted
  <2>5. op.step \in {"mismatch", "inspect", "probe", "exact", "stopped"} => record # NULL
        BY ServerAssumption DEF BInv, OInv, IInv, AdapterInv, StepsFollow
  <2>6. CASE Mismatch \/ InspectReused \/ WaitForHealth \/ RecordStopped \/ CheckExact
        BY <2>5, <2>6 DEF Mismatch, InspectReused, WaitForHealth, RecordStopped, CheckExact
  <2>7. CASE LoadForStop  BY <2>7 DEF LoadForStop
  <2>1. CASE AdapterStep
        BY <2>1, <2>6, <2>7
        DEF AdapterStep, LoadForStart, ScanList, ScanLook, SpawnRefused, SpawnServer, CaptureIdentity,
            KillUncaptured, VerifyUncaptured, RecordFails, OpenLease, Cleanup, Terminated, TerminationFails
  <2>2. CASE Processes \/ Crash \/ Reboot  BY <2>2 DEF Processes, Crash, Reboot
  <2>3. ASSUME NEW d \in Drivers, Exit(d) PROVE record' = record  BY <2>3 DEF Exit
  <2>4. ASSUME NEW d \in Drivers, NEW kind, NEW r, Begin(d, kind, r) PROVE record' = record
        BY <2>4 DEF Begin
  <2> QED  BY <2>1, <2>2, <2>3, <2>4 DEF Next
<1>5. record' # NULL => record'.server.ticks <= MaxTicks /\ record'.request \in Requests
  <2>1. CASE record' = record  BY <2>1 DEF BInv, ServersBounded
  <2>2. ASSUME record # NULL, NEW status, Mark(status)
        PROVE  record'.server = record.server /\ record'.request = record.request
        BY <1>1, <2>2 DEF Mark, ServerExecutionRecord
  <2>3. CASE RecordStarted
    <3>1. op.step = "evidence" /\ record'.server = op.spawned /\ record'.request = op.request
          BY <2>3 DEF RecordStarted
    <3>2. op.spawned # NULL  BY <3>1 DEF BInv, OInv, IInv, AdapterInv, StepsFollow
    <3> QED  BY <3>1, <3>2 DEF BInv, ServersBounded, RequestKept
  <2> QED  BY <1>4, <2>1, <2>2, <2>3 DEF BInv, ServersBounded
<1> QED  BY <1>3, <1>5 DEF ServersBounded

\* Nobody takes a number but a new process.
LEMMA TagsStayLow ==
  ASSUME BInv, Next
  PROVE  TagsLow'
<1>1. /\ proc \in [Pids -> ProcessRecord] /\ servers \in Nat /\ \A q \in Pids : proc[q].tag <= servers
      BY Typed DEF BInv, OInv, TagsLow
<1>2. NoProcess.tag = 0  BY DEF NoProcess
<1>3. ASSUME servers' = servers, \A q \in Pids : proc'[q] = NoProcess \/ proc'[q].tag = proc[q].tag
      PROVE  TagsLow'
      BY <1>1, <1>2, <1>3 DEF TagsLow
<1>4. ASSUME NEW d, NEW p \in Pids, proc' = Reaped(d, p), servers' = servers PROVE TagsLow'
  <2>1. \A q \in Pids : proc'[q] \in {proc[q], NoProcess}  BY <1>1, <1>4, Endings
  <2> QED  BY <1>3, <1>4, <2>1
<1>5. ASSUME NEW s \in ServerIdentity, proc' = Asked(s, op.driver), servers' = servers PROVE TagsLow'
  <2>1. s.pid \in Pids  BY DEF ServerIdentity
  <2> QED  BY <1>3, <1>4, <1>5, <2>1 DEF Asked
<1>6. /\ record # NULL => record.server \in ServerIdentity
      /\ op.spawned # NULL => op.spawned \in ServerIdentity
      /\ op.step \in {"probe", "exact"} => record # NULL
      /\ op.step \in {"capture", "evidence", "uncaptured", "rollback"} => op.spawned # NULL
      /\ op.step = "terminate" /\ op.spawned = NULL => record # NULL
      BY Typed, ServerAssumption DEF BInv, OInv, IInv, AdapterInv, StepsFollow
<1>7. CASE proc' = proc /\ servers' = servers  BY <1>3, <1>7
<1>8. CASE LoadForStart \/ LoadForStop \/ CheckExact \/ WaitForHealth \/ RecordFails
      BY <1>5, <1>6, <1>7, <1>8
      DEF LoadForStart, LoadForStop, CheckExact, WaitForHealth, RecordFails, Asking, Rest
<1>9. CASE CaptureIdentity
  <2>1. op.spawned \in ServerIdentity /\ op.spawned.pid \in Pids
        BY <1>6, <1>9 DEF CaptureIdentity, ServerIdentity
  <2>2. \/ proc' = proc
        \/ proc' = [Asked(op.spawned, op.driver) EXCEPT ![op.spawned.pid] = NoProcess]
        BY <1>9 DEF CaptureIdentity
  <2>3. \A q \in Pids : Asked(op.spawned, op.driver)[q] \in {proc[q], NoProcess}
        BY <1>1, <2>1, Endings DEF Asked
  <2>4. Asked(op.spawned, op.driver) \in [Pids -> ProcessRecord]  BY <1>1, <2>1, Endings DEF Asked
  <2>5. servers' = servers  BY <1>9 DEF CaptureIdentity, Rest
  <2> QED  BY <1>3, <2>2, <2>3, <2>4, <2>5
<1>10. CASE KillUncaptured
  <2> DEFINE hit(q) == IF Live(q) /\ proc[q].sess = op.spawned.pid
                       THEN [proc[q] EXCEPT !.killed = TRUE] ELSE proc[q]
  <2>1. proc' = [q \in Pids |-> hit(q)] /\ servers' = servers  BY <1>10 DEF KillUncaptured, Rest
  <2>2. \A q \in Pids : hit(q).tag = proc[q].tag  BY <1>1 DEF ProcessRecord
  <2> HIDE DEF hit
  <2> QED  BY <1>3, <2>1, <2>2
<1>11. CASE VerifyUncaptured
  <2>1. /\ op.spawned.pid \in Pids /\ proc' = Reaped(op.driver, op.spawned.pid) /\ servers' = servers
        BY <1>6, <1>11 DEF VerifyUncaptured, Rest, ServerIdentity
  <2> QED  BY <1>4, <2>1
<1>12. CASE Terminated
  <2>1. op.step \in {"terminate", "rollback"} /\ proc' = Reaped(op.driver, Target.pid) /\ servers' = servers
        BY <1>12 DEF Terminated, Rest
  <2>2. Target.pid \in Pids  BY <1>6, <2>1 DEF Target, ServerIdentity
  <2> QED  BY <1>4, <2>1, <2>2
<1>13. CASE Cleanup
  <2>1. LeaseStep  BY <1>13 DEF Cleanup
  <2>2. CASE ListProcesses \/ OpenPidfd \/ EndSignals
        BY <1>7, <2>2 DEF ListProcesses, OpenPidfd, EndSignals, osVars
  <2>3. CASE Refresh
    <3> DEFINE marked(q) == [proc[q] EXCEPT !.held = TRUE]
    <3>1. \A q \in Pids : marked(q).tag = proc[q].tag  BY <1>1 DEF ProcessRecord
    <3>2. \/ proc' = proc
          \/ proc' = [q \in Pids |-> IF Present(q) /\ Identity(q) \in Retained \cup Group
                                     THEN marked(q) ELSE proc[q]]
          BY <2>3 DEF Refresh
    <3>3. servers' = servers  BY <2>3 DEF Refresh
    <3> HIDE DEF marked
    <3> QED  BY <1>3, <3>1, <3>2, <3>3
  <2>4. CASE SendSignal
    <3> DEFINE signalled(q) == [proc[q] EXCEPT !.killed = @ \/ lease.phase = "kill"]
    <3>1. \A q \in Pids : signalled(q).tag = proc[q].tag  BY <1>1 DEF ProcessRecord
    <3>2. /\ proc' = [q \in Pids |-> IF q \in Receivers THEN signalled(q) ELSE proc[q]]
          /\ servers' = servers
          BY <2>4 DEF SendSignal
    <3> HIDE DEF signalled
    <3> QED  BY <1>3, <3>1, <3>2
  <2> QED  BY <2>1, <2>2, <2>3, <2>4 DEF LeaseStep
<1>14. ASSUME NEW table \in [Pids -> ProcessRecord], proc' = Forgotten(table), servers' = servers,
              \A q \in Pids : table[q] = NoProcess \/ table[q].tag = proc[q].tag
       PROVE  TagsLow'
  <2>1. \A q \in Pids : proc'[q].tag = table[q].tag  BY <1>14, ForgottenIs
  <2>2. \A q \in Pids : proc'[q].tag = 0 \/ proc'[q].tag = proc[q].tag  BY <1>2, <1>14, <2>1
  <2> QED  BY <1>1, <1>14, <2>2 DEF TagsLow
<1>15. CASE TerminationFails
  <2>1. proc' = Forgotten(proc) /\ servers' = servers  BY <1>15 DEF TerminationFails, Rest
  <2> QED  BY <1>1, <1>14, <2>1
<1>16. CASE Crash
  <2>1. proc' = Forgotten(Orphaned(op.driver)) /\ servers' = servers  BY <1>16 DEF Crash
  <2>2. /\ Orphaned(op.driver) \in [Pids -> ProcessRecord]
        /\ \A q \in Pids : Orphaned(op.driver)[q] = NoProcess \/ Orphaned(op.driver)[q].tag = proc[q].tag
        BY OrphanedStays DEF BInv, OInv
  <2> QED  BY <1>14, <2>1, <2>2
<1>17. ASSUME NEW d \in Drivers, Exit(d) PROVE TagsLow'
  <2>1. proc' = Orphaned(d) /\ servers' = servers  BY <1>17 DEF Exit, Rest
  <2>2. \A q \in Pids : Orphaned(d)[q] = NoProcess \/ Orphaned(d)[q].tag = proc[q].tag
        BY OrphanedStays DEF BInv, OInv
  <2> QED  BY <1>3, <2>1, <2>2
<1>18. CASE Reboot  BY <1>1, <1>2, <1>18 DEF Reboot, TagsLow
<1>19. ASSUME NEW p \in Pids, NEW r, proc' = [proc EXCEPT ![p] = r], r.tag \in Nat, r.tag <= servers',
              servers' \in {servers, servers + 1}
       PROVE  TagsLow'
  <2>1. \A q \in Pids : proc[q].tag \in Nat  BY <1>1 DEF ProcessRecord
  <2>2. \A q \in Pids : proc'[q] = IF q = p THEN r ELSE proc[q]  BY <1>1, <1>19
  <2> QED  BY <1>1, <1>19, <2>1, <2>2 DEF TagsLow
<1>20. CASE SpawnServer
  <2>1. PICK p \in Pids : Spawn(op.driver, p)  BY <1>20 DEF SpawnServer
  <2> DEFINE r == [NoProcess EXCEPT !.state = "live", !.sess = p, !.tag = servers + 1, !.parent = op.driver]
  <2>2. proc' = [proc EXCEPT ![p] = r] /\ servers' = servers + 1  BY <2>1 DEF Spawn, Created
  <2>3. r.tag = servers + 1  BY DEF NoProcess
  <2> HIDE DEF r
  <2>4. servers' = servers + 1 /\ r.tag \in Nat /\ r.tag <= servers'  BY <1>1, <2>2, <2>3
  <2> QED  BY <1>19, <2>2, <2>4
<1>21. CASE Processes
  <2>1. ASSUME NEW p \in Pids, Escape(p) PROVE TagsLow'
    <3> DEFINE r == [proc[p] EXCEPT !.sess = p, !.away = TRUE]
    <3>1. proc' = [proc EXCEPT ![p] = r] /\ servers' = servers  BY <1>1, <2>1 DEF Escape
    <3>2. r.tag = proc[p].tag /\ r.tag \in Nat  BY <1>1 DEF ProcessRecord
    <3> HIDE DEF r
    <3> QED  BY <1>1, <1>19, <3>1, <3>2
  <2>2. ASSUME NEW p \in Pids, Die(p) PROVE TagsLow'
    <3> DEFINE r == [proc[p] EXCEPT !.state = "zombie"]
    <3>1. /\ proc' = [proc EXCEPT ![p] = r] \/ proc' = [proc EXCEPT ![p] = NoProcess]
          /\ servers' = servers
          BY <1>1, <2>2 DEF Die
    <3>2. r.tag = proc[p].tag  BY <1>1 DEF ProcessRecord
    <3> HIDE DEF r
    <3>3. \A q \in Pids : proc'[q] = NoProcess \/ proc'[q].tag = proc[q].tag  BY <1>1, <3>1, <3>2
    <3> QED  BY <1>3, <3>1, <3>3
  <2>3. ASSUME NEW p \in Pids, ForeignStart(p) PROVE TagsLow'
    <3> DEFINE r == [NoProcess EXCEPT !.state = "live", !.sess = p]
    <3>1. proc' = [proc EXCEPT ![p] = r] /\ servers' = servers  BY <2>3 DEF ForeignStart, Created
    <3>2. r.tag = 0  BY DEF NoProcess
    <3> HIDE DEF r
    <3>3. r.tag \in Nat /\ r.tag <= servers'  BY <1>1, <3>1, <3>2
    <3> QED  BY <1>19, <3>1, <3>3
  <2>4. ASSUME NEW p \in Pids, NEW q \in Pids, Fork(q, p) PROVE TagsLow'
    <3> DEFINE r == [NoProcess EXCEPT !.state = "live", !.sess = proc[q].sess, !.tag = proc[q].tag,
                                      !.away = proc[q].away]
    <3>1. proc' = [proc EXCEPT ![p] = r] /\ servers' = servers  BY <2>4 DEF Fork, Created
    <3>2. r.tag = proc[q].tag /\ r.tag \in Nat  BY <1>1 DEF ProcessRecord, NoProcess
    <3> HIDE DEF r
    <3> QED  BY <1>1, <1>19, <3>1, <3>2
  <2> QED  BY <1>21, <2>1, <2>2, <2>3, <2>4 DEF Processes, ProcessNext
<1>22. CASE ScanList \/ ScanLook \/ SpawnRefused \/ RecordStarted \/ Mismatch \/ InspectReused \/ OpenLease
            \/ RecordStopped
       BY <1>7, <1>22
       DEF ScanList, ScanLook, SpawnRefused, RecordStarted, Mismatch, InspectReused, OpenLease, RecordStopped,
           Rest, osVars
<1>23. ASSUME NEW d \in Drivers, NEW kind, NEW r, Begin(d, kind, r) PROVE TagsLow'
       BY <1>7, <1>23 DEF Begin, processVars
<1> QED  BY <1>8, <1>9, <1>10, <1>11, <1>12, <1>13, <1>15, <1>16, <1>17, <1>18, <1>20, <1>21, <1>22, <1>23
         DEF Next, AdapterStep

\* A flag stays a flag.
LEMMA StrayedIsBoolean ==
  ASSUME strayed \in BOOLEAN, Next
  PROVE  strayed' \in BOOLEAN
<1>1. strayed' = strayed => strayed' \in BOOLEAN  OBVIOUS
<1>2. CASE Cleanup
  <2>1. SendSignal => strayed' \in BOOLEAN
    <3> DEFINE hit == \E p \in Receivers : proc[p].tag # lease.tag
    <3>1. SendSignal => strayed' = (strayed \/ hit)  BY DEF SendSignal
    <3>2. (strayed \/ hit) \in BOOLEAN  BY Zenon
    <3> QED  BY <3>1, <3>2, Zenon
  <2> QED  BY <1>1, <1>2, <2>1 DEF Cleanup, LeaseStep, ListProcesses, Refresh, OpenPidfd, EndSignals
<1>3. CASE SpawnServer
      BY <1>1, <1>3 DEF SpawnServer, Spawn
<1>4. CASE ScanList
      BY <1>1, <1>4 DEF ScanList
<1>5. CASE AdapterStep /\ ~Cleanup /\ ~SpawnServer /\ ~ScanList
      BY <1>1, <1>5
      DEF AdapterStep, LoadForStart, ScanLook, SpawnRefused, CaptureIdentity, KillUncaptured, VerifyUncaptured,
          RecordStarted, RecordFails, Mismatch, InspectReused, WaitForHealth, LoadForStop, CheckExact,
          OpenLease, Terminated, TerminationFails, RecordStopped, Rest
<1>6. CASE Processes
      BY <1>1, <1>6 DEF Processes, ProcessNext, Escape, Die, ForeignStart, Fork
<1>7. CASE Crash \/ Reboot \/ \E d \in Drivers : Exit(d)
      BY <1>1, <1>7 DEF Crash, Reboot, Exit, Rest
<1>8. ASSUME NEW d, NEW kind, NEW r, Begin(d, kind, r) PROVE strayed' \in BOOLEAN
      BY <1>1, <1>8 DEF Begin, processVars
<1> QED  BY <1>2, <1>3, <1>4, <1>5, <1>6, <1>7, <1>8 DEF Next

LEMMA BoundsPreserved ==
  ASSUME BInv, [Next]_vars
  PROVE  BInv'
<1>1. OInv'  BY OwnershipPreserved DEF BInv
<1>2. CASE Next
  <2>1. Counters' /\ raced' \subseteq 1 .. MaxServers  BY <1>2, CountersStay
  <2>2. leaked' \subseteq 1 .. MaxServers  BY <1>2, LeakedStay
  <2>3. TagsLow' /\ QueueTidy' /\ RequestKept' /\ ServersBounded'
        BY <1>2, TagsStayLow, QueueStaysTidy, RequestStays, ServersStayBounded
  <2>4. strayed' \in BOOLEAN  BY <1>2, StrayedIsBoolean DEF BInv
  <2> QED  BY <1>1, <2>1, <2>2, <2>3, <2>4 DEF BInv, TagsBounded
<1>3. CASE UNCHANGED vars
      BY <1>1, <1>3
      DEF BInv, Counters, TagsBounded, TagsLow, QueueTidy, RequestKept, ServersBounded, vars, processVars
<1> QED  BY <1>2, <1>3

LEMMA StartBounded ==
  ASSUME Init
  PROVE  BInv
<1>1. /\ servers = 0 /\ forks = 0 /\ disturbances = 0 /\ raced = {} /\ lease = NoLease
      /\ boot = 0 /\ record = NULL /\ op = NoOp /\ leaked = {} /\ ticks = [p \in Pids |-> 0]
      BY DEF Init, ProcessInit
<1>2. Counters  BY <1>1, Bounds DEF Counters
<1>3. TagsBounded /\ QueueTidy  BY <1>1 DEF TagsBounded, QueueTidy, NoLease
<1>4. RequestKept /\ ServersBounded  BY <1>1, NoOpIs DEF RequestKept, ServersBounded
<1>5. TagsLow
  <2>1. proc = [p \in Pids |-> NoProcess]  BY DEF Init, ProcessInit
  <2> QED  BY <1>1, <2>1 DEF TagsLow, NoProcess
<1>6. strayed \in BOOLEAN  BY DEF Init, ProcessInit
<1> QED  BY <1>2, <1>3, <1>4, <1>5, <1>6, StartOwns DEF BInv

LEMMA BoundedTypes ==
  ASSUME BInv
  PROVE  TypeOK
<1>1. /\ proc \in [Pids -> ProcessRecord] /\ ticks \in [Pids -> Nat] /\ servers \in Nat /\ boot \in Nat
      /\ lease \in LeaseRecord /\ op \in Operation /\ ~strayed
      BY Typed DEF BInv, OInv, IInv, ProcessInv
<1>2. /\ MaxServers \in Nat /\ MaxTicks \in Nat /\ MaxDisturbances \in Nat
      /\ servers \in 0 .. MaxServers /\ disturbances \in 0 .. MaxDisturbances /\ boot \in 0 .. MaxDisturbances
      BY <1>1, Bounds DEF BInv, Counters
<1>3. ticks \in [Pids -> 0 .. MaxTicks]  BY <1>1, <1>2 DEF BInv, Counters
<1>4. ProcessTypeOK
      BY <1>2, ProcessTypes DEF BInv, Counters, TagsBounded, OInv, IInv
<1>5. ASSUME NEW s \in ServerIdentity, s.ticks <= MaxTicks, s.boot <= boot, s.tag \in 1 .. servers
      PROVE  s \in Servers
  <2>1. s.ticks \in 0 .. MaxTicks /\ s.boot \in 0 .. MaxDisturbances /\ s.tag \in 1 .. MaxServers
        BY <1>1, <1>2, <1>5 DEF ServerIdentity
  <2> QED  BY <2>1 DEF ServerIdentity, Servers
<1>6. op.spawned # NULL => op.spawned \in Servers
      BY <1>1, <1>5, Typed DEF BInv, ServersBounded, OInv, SpawnsTold, TagsNumbered, IInv, AdapterInv, SpawnedKnown
<1>7. record # NULL =>
        record \in [server : Servers, request : Requests, status : ServerExecutionStatus]
  <2> SUFFICES ASSUME record # NULL
               PROVE  record \in [server : Servers, request : Requests, status : ServerExecutionStatus]
      OBVIOUS
  <2>1. record \in ServerExecutionRecord /\ record.server \in ServerIdentity  BY Typed DEF BInv, OInv
  <2>2. record.server \in Servers
        BY <1>5, <2>1 DEF BInv, ServersBounded, OInv, SpawnsTold, TagsNumbered, IInv, AdapterInv, RecordKnown
  <2>3. record.request \in Requests  BY DEF BInv, ServersBounded
  <2> QED  BY <2>1, <2>2, <2>3 DEF ServerExecutionRecord
<1>8. op.step = "none" => lease = NoLease  BY DEF BInv, OInv, IInv, AdapterInv, StepsFollow
<1>9. op.driver \in Drivers \cup {NULL} /\ op.request \in Requests \cup {NULL}  BY <1>1 DEF Operation
<1> QED  BY <1>2, <1>4, <1>6, <1>7, <1>8, <1>9 DEF TypeOK, BInv, TagsBounded

\* start_or_resume spawns a server only when the recorded one is gone, and
\* records it: two never run at once, each one that runs is recorded or being
\* started, and the record and the operation are what they should be, whatever
\* crashed, escaped or was rebooted in between.
THEOREM ServersStayKnown == Spec => []ServersAreKnown
<1>1. Init => BInv  BY StartBounded
<1>2. BInv /\ [Next]_vars => BInv'  BY BoundsPreserved
<1>3. BInv => ServersAreKnown
      BY BoundedTypes, OneAtATime DEF ServersAreKnown, BInv, OInv, ServersFound
<1> QED  BY <1>1, <1>2, <1>3, PTL DEF Spec
=============================================================================
