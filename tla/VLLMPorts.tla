------------------------------ MODULE VLLMPorts ------------------------------
(***************************************************************************)
(* vllm_ports.py: the port of the quality command, the port of the         *)
(* benchmark with its telemetry window, and the port that runs an approved *)
(* profile and collects its evidence.                                      *)
(*                                                                         *)
(* A call of a port is numbered by its serial.  The executable on disk may *)
(* be exchanged and put back, commands may fail or leave their output      *)
(* unwritten, and the driver may die inside a call, while the command it   *)
(* spawned goes on.                                                        *)
(***************************************************************************)
EXTENDS Integers, Sequences, FiniteSets

CONSTANTS
  WarmupRuns, SampleCount,  \* of the serving protocol
  MaxCallsOfPorts,          \* bound: calls of the ports
  MaxSwaps,                 \* bound: exchanges of the executable
  Absent

ASSUME PortsAssumption ==
  /\ {WarmupRuns, MaxCallsOfPorts, MaxSwaps} \subseteq Nat
  /\ SampleCount \in Nat \ {0}

VARIABLES
  executable,  \* version of the quality and benchmark executables on disk
  swaps,       \* exchanges so far
  identity,    \* port -> executable of the saved execution identity
  output,      \* the file at the quality protocol's output path
  port,        \* the call that runs
  serial,      \* calls so far
  survivor,    \* serial of the quality command that outlived its driver
  orphaned,    \* ghost: the serials of all such commands
  approved,    \* attempt ids of the profile commands that were materialized
  cases,       \* what the ROCm server has on file, one case for each profile
  results      \* what calls returned

portvars ==
  << executable, swaps, identity, output, port, serial, survivor, orphaned, approved, cases, results >>

NoCall == [step |-> "none"]

Versions == {1, 2}
Pinned == 1  \* by the environment manifest
Labels == {"baseline", "experiment"}
Serials == 1 .. MaxCallsOfPorts

PortGoto(step) == port' = [port EXCEPT !.step = step]

\* A port raises: nothing but evidence of the attempt is left.
RaiseError == port' = NoCall /\ UNCHANGED results

Return(result) == port' = NoCall /\ results' = results \cup {result}

-----------------------------------------------------------------------------
(* The execution identity                                                  *)

\* The baseline establishes the identity unless an earlier one did; whoever
\* comes later must have the same.
BindsQuality(label) ==
  \/ label = "baseline" /\ identity["quality"] = Absent
  \/ identity["quality"] = executable

BindsBenchmark(label) ==
  \/ label = "baseline" /\ identity["benchmark"] = Absent
  \/ identity["benchmark"] = executable

\* The benchmark's launcher must be the Python of the pinned environment.
LauncherIsPinned == executable = Pinned

\* A call that may not run raises before it leaves anything.
BeginCall(kind, label) ==
  /\ port = NoCall /\ serial < MaxCallsOfPorts
  /\ serial' = serial + 1
  /\ identity' = [identity EXCEPT ![kind] = executable]
  /\ port' = [ step |-> "command", kind |-> kind, label |-> label, before |-> executable,
               generation |-> output, samples |-> << >>, runs |-> 0, failed |-> FALSE ]
  /\ UNCHANGED << executable, swaps, output, survivor, orphaned, approved, cases, results >>

Evaluate(label) == BindsQuality(label) /\ BeginCall("quality", label)

Capture(label) == LauncherIsPinned /\ BindsBenchmark(label) /\ BeginCall("benchmark", label)

-----------------------------------------------------------------------------
(* CommandVLLMQualityPort                                                  *)

QualityOutputs == [serial : Serials, exe : Versions, strict : BOOLEAN, bound : BOOLEAN]

ASSUME AbsentAssumption == Absent \notin Versions \cup QualityOutputs

\* The command writes its output, at any moment while it runs.
QualityWrites ==
  /\ port.step = "command" /\ port.kind = "quality"
  /\ \E o \in QualityOutputs : o.serial = serial /\ o.exe = executable /\ output' = o
  /\ PortGoto("written")
  /\ UNCHANGED << executable, swaps, identity, serial, survivor, orphaned, approved, cases, results >>

\* It ends, having written or not, and with success or not.
QualityExits ==
  /\ port.step \in {"command", "written"} /\ port.kind = "quality"
  /\ \E succeeded \in BOOLEAN : IF succeeded THEN PortGoto("check") /\ UNCHANGED results ELSE RaiseError
  /\ UNCHANGED << executable, swaps, identity, output, serial, survivor, orphaned, approved, cases >>

\* Mutant: whatever stands at the output path is taken.
FreshlyReplaced_Any(before, after) == after # Absent

\* The output's generation differs from the one before the command.
FreshlyReplaced(before, after) == after # Absent /\ after # before

\* What the port checks after the command, in one look at the files.
CheckQuality ==
  /\ port.step = "check"
  /\ IF /\ executable = port.before
        /\ FreshlyReplaced(port.generation, output)
        /\ output.strict /\ output.bound
     THEN Return([kind |-> "quality", label |-> port.label, serial |-> serial,
                  exe |-> port.before, from |-> output])
     ELSE RaiseError
  /\ UNCHANGED << executable, swaps, identity, output, serial, survivor, orphaned, approved, cases >>

\* A command that its driver left behind writes the shared output path.
SurvivorWrites ==
  /\ survivor # 0
  /\ \E o \in QualityOutputs : o.serial = survivor /\ o.exe = executable /\ output' = o
  /\ survivor' = 0
  /\ UNCHANGED << executable, swaps, identity, port, serial, orphaned, approved, cases, results >>

-----------------------------------------------------------------------------
(* CommandVLLMBenchmarkPort                                                *)

\* One run of the loop: the command, with its own result file, the executable
\* looked at again, and the metrics of the runs after the warmups.  The metric
\* that not every version of vLLM prints may be missing.
SampleStarts ==
  /\ port.step = "command" /\ port.kind = "benchmark" /\ port.runs < WarmupRuns + SampleCount
  /\ port' = [port EXCEPT !.step = "sampling", !.runs = @ + 1,
                !.samples = IF port.runs < WarmupRuns THEN @
                            ELSE Append(@, [exe |-> executable, run |-> port.runs + 1, optional |-> TRUE])]
  /\ UNCHANGED << executable, swaps, identity, output, serial, survivor, orphaned, approved, cases, results >>

SampleEnds ==
  /\ port.step = "sampling"
  /\ \E succeeded, optional \in BOOLEAN :
       LET ok == succeeded /\ executable = port.before
           n == Len(port.samples)
       IN  port' = [port EXCEPT !.step = IF ok THEN "command" ELSE "finish", !.failed = ~ok,
                      !.samples = IF n = 0 \/ optional THEN @ ELSE [@ EXCEPT ![n].optional = FALSE]]
  /\ UNCHANGED << executable, swaps, identity, output, serial, survivor, orphaned, approved, cases, results >>

\* Every metric has sample_count values, or none.
SampleCountsAgree(samples) ==
  \A i, j \in DOMAIN samples : samples[i].optional = samples[j].optional

\* environment.finish, also after a failure; its own failure is the error if
\* there was none.  A capture is valid if it observed this server on this device
\* and its artifacts are intact.
FinishWindow ==
  /\ \/ port.step = "finish"
     \/ port.step = "command" /\ port.kind = "benchmark" /\ port.runs = WarmupRuns + SampleCount
  /\ \E valid \in BOOLEAN :
       IF ~port.failed /\ valid /\ SampleCountsAgree(port.samples)
       THEN Return([kind |-> "benchmark", label |-> port.label, serial |-> serial,
                    exe |-> port.before, from |-> port.samples])
       ELSE RaiseError
  /\ UNCHANGED << executable, swaps, identity, output, serial, survivor, orphaned, approved, cases >>

-----------------------------------------------------------------------------
(* VLLMRocmProfilePort                                                     *)

\* The Python of the command is that of the environment manifest, and the model
\* on disk is the snapshot.
MayMaterialize == LauncherIsPinned

\* materialize_vllm_profile_command: every attempt has a directory of its own,
\* which nobody may have made before, and the command names its files.
Materialize ==
  /\ port = NoCall /\ serial < MaxCallsOfPorts
  /\ MayMaterialize
  /\ serial' = serial + 1
  /\ approved' = approved \cup {serial + 1}
  /\ UNCHANGED << executable, swaps, identity, output, port, survivor, orphaned, cases, results >>

\* A profile that ran: how far it came, and which files it left.
Cases ==
  [attempt : Serials, completed : BOOLEAN, sidecar : BOOLEAN, prompts : BOOLEAN, exe : Versions]

\* execute: the ROCm server runs the approved command once, or fails to.
CallTool ==
  /\ port = NoCall
  /\ \E attempt \in approved :
       /\ approved' = approved \ {attempt}
       /\ port' = [step |-> "answered", kind |-> "profile", attempt |-> attempt]
       /\ \/ \E c \in Cases : c.attempt = attempt /\ c.exe = executable /\ cases' = cases \cup {c}
          \/ UNCHANGED cases
  /\ UNCHANGED << executable, swaps, identity, output, serial, survivor, orphaned, results >>

\* Every status of the answer says completed.
CallSucceeded(case) == case.completed

\* The attempt's own sidecar shows the pinned executable and the coordinates.
SidecarMatches(own) == \E c \in own : c.sidecar /\ c.exe = Pinned

\* The attempt's own throughput result shows all prompts, with consistent rates.
CompletionMatches(own) == \E c \in own : c.prompts

\* The run context's argv is that of the approved command, which names the
\* attempt's own files.
ContextMatches(case, attempt) == case.attempt = attempt

\* The evidence is collected from the case the answer names, whichever it is, and
\* from the attempt's own sidecar and throughput result.
CollectProfile ==
  /\ port.step = "answered"
  /\ \E case \in cases :
       LET own == { c \in cases : c.attempt = port.attempt }
       IN  IF /\ CallSucceeded(case)
              /\ SidecarMatches(own)
              /\ CompletionMatches(own)
              /\ ContextMatches(case, port.attempt)
           THEN Return([kind |-> "profile", label |-> "baseline", serial |-> port.attempt,
                        exe |-> Pinned, from |-> case])
           ELSE RaiseError
  /\ UNCHANGED << executable, swaps, identity, output, serial, survivor, orphaned, approved, cases >>

\* No answer, or one without a usable case.
ProfileRefused ==
  /\ port.step = "answered"
  /\ RaiseError
  /\ UNCHANGED << executable, swaps, identity, output, serial, survivor, orphaned, approved, cases >>

-----------------------------------------------------------------------------
(* The environment                                                         *)

\* The executable is exchanged, or put back.
Swap ==
  /\ swaps < MaxSwaps
  /\ swaps' = swaps + 1 /\ executable' = 3 - executable
  /\ UNCHANGED << identity, output, port, serial, survivor, orphaned, approved, cases, results >>

\* The driver dies inside a call; a command it waits for goes on.
DriverOfPortDies ==
  /\ port # NoCall
  /\ port' = NoCall
  /\ IF port.step = "command" /\ port.kind = "quality"
     THEN survivor' = serial /\ orphaned' = orphaned \cup {serial}
     ELSE UNCHANGED << survivor, orphaned >>
  /\ UNCHANGED << executable, swaps, identity, output, serial, approved, cases, results >>

PortsInit ==
  /\ executable = 1 /\ swaps = 0
  /\ identity = [kind \in {"quality", "benchmark"} |-> Absent]
  /\ output = Absent /\ port = NoCall /\ serial = 0 /\ survivor = 0 /\ orphaned = {}
  /\ approved = {} /\ cases = {} /\ results = {}

PortsNext ==
  \/ \E label \in Labels : Evaluate(label) \/ Capture(label)
  \/ QualityWrites \/ QualityExits \/ CheckQuality \/ SurvivorWrites
  \/ SampleStarts \/ SampleEnds \/ FinishWindow
  \/ Materialize \/ CallTool \/ CollectProfile \/ ProfileRefused
  \/ Swap \/ DriverOfPortDies

-----------------------------------------------------------------------------
(***************************************************************************)
(* Properties.                                                             *)
(***************************************************************************)

ResultsOf(kind) == { r \in results : r.kind = kind }

\* Baseline and candidates of one port were measured with one executable, the
\* one of the saved identity, and what they report ran on it: unless it was
\* exchanged and put back, which a look before and after cannot see.
MeasuredAlike ==
  swaps < 2 =>
    \A r \in ResultsOf("quality") \cup ResultsOf("benchmark") :
      /\ r.exe = identity[r.kind]
      /\ r.kind = "benchmark" => \A i \in DOMAIN r.from : r.from[i].exe = r.exe
      /\ r.kind = "quality" => r.from.exe = r.exe

\* A quality result is what its own command wrote, although all commands share
\* one output path and may end with success without writing it.  Only a command
\* whose driver died can come between.
OutputIsOwn ==
  \A r \in ResultsOf("quality") : r.from.serial \in {r.serial} \cup orphaned

\* A benchmark result holds every run after the warmups, once each, and a metric
\* that is in it was measured in all of them.
SamplesAreWhole ==
  \A r \in ResultsOf("benchmark") :
    /\ [i \in DOMAIN r.from |-> r.from[i].run] = [i \in 1 .. SampleCount |-> WarmupRuns + i]
    /\ \A i \in 2 .. SampleCount : r.from[i].optional = r.from[1].optional

\* A profile result is the evidence of the one command that was approved for it,
\* run by the pinned executable to the end; no two results share a case.
ProfileIsOwn ==
  \A r \in ResultsOf("profile") :
    /\ r.from.attempt = r.serial
    /\ r.from.exe = Pinned /\ r.from.completed /\ r.from.sidecar /\ r.from.prompts
    /\ \A s \in ResultsOf("profile") : s.from = r.from => s = r

\* What the ports return was measured as the campaign's coordinates say: with one
\* executable, from the call's own output, over all samples, and for profiles by
\* the approved command.
PortsMeasureHonestly ==
  MeasuredAlike /\ OutputIsOwn /\ SamplesAreWhole /\ ProfileIsOwn

=============================================================================
