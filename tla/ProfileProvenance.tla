-------------------------- MODULE ProfileProvenance --------------------------
(***************************************************************************)
(* The chain from a vLLM campaign's coordinates to a profile that may be   *)
(* recorded: the command materialized for one attempt (vllm_ports.py and   *)
(* vllm_workflow.py), the launcher that checks it against the host before  *)
(* it becomes the workload (vllm_profile_launcher.py), the import of the   *)
(* agent's artifacts, and the check of the result (record_profile_result). *)
(*                                                                         *)
(* A file, a manifest or a package set is its content and a digest is what *)
(* it digests.  A coordinate has the value 0 when it is as configured.     *)
(* Refused stands for an error, Unknown for None.                          *)
(***************************************************************************)
EXTENDS Integers, Sequences, FiniteSets, FiniteSetsExt, SequencesExt, Refusals

\* What identifies a run.  packages and python make up the environment manifest.
Coordinates == {"python", "packages", "launcher", "model", "serving", "device", "image"}

Configured == [c \in Coordinates |-> 0]

-----------------------------------------------------------------------------
(* The command of an attempt                                               *)

\* _require_argv_value and the quantization of materialize_vllm_profile_command:
\* the configured workload is the serving protocol's, and nothing overrides it.
OfflineBinds(offline, serving) ==
  /\ offline.prefix = "official"
  /\ offline.serving = serving
  /\ ~offline.conflicting

\* The profile's files are those of the manifests when the command is made; the
\* packages are looked at by the launcher.
MaterializeVllmProfileCommand(host, offline, attempt, used) ==
  IF \/ host.python # Configured.python
     \/ host.model # Configured.model
     \/ ~OfflineBinds(offline, Configured.serving)
     \/ offline.outputs # << >>
     \/ attempt \in used
  THEN Refused
  ELSE LET bound == [offline EXCEPT !.outputs = << attempt >>]
           coordinate == [ model |-> Configured.model, device |-> Configured.device, serving |-> offline.serving,
                           launcher |-> host.launcher, environment |-> << Configured.python, Configured.packages >>,
                           completion |-> attempt, offline |-> bound ]
       IN  [ attempt |-> attempt, python |-> "configured", isolated |-> TRUE, launcherPath |-> "configured",
             environment |-> << Configured.python, Configured.packages >>, model |-> Configured.model,
             coordinate |-> coordinate, sidecars |-> << attempt >>, offline |-> bound ]

\* _materialize_profile_command: whatever made the command, it is of this attempt,
\* of the configured executables and manifests, and its outputs are fresh.
MaterializationIsAccepted(command, attempt, existing) ==
  /\ command # Refused
  /\ command.attempt = attempt
  /\ command.python = "configured" /\ command.isolated /\ command.launcherPath = "configured"
  /\ attempt \notin existing
  /\ command.environment = << Configured.python, Configured.packages >>
  /\ command.sidecars = << attempt >> /\ command.offline.outputs = << attempt >>
  /\ command.coordinate.launcher = Configured.launcher
  /\ command.coordinate.environment = << Configured.python, Configured.packages >>
  /\ command.coordinate.completion = attempt

\* _profile_context: what the approval binds.
ProfileContext(command) ==
  [ command |-> command, launcher |-> Configured.launcher, serving |-> Configured.serving,
    model |-> Configured.model, environment |-> << Configured.python, Configured.packages >> ]

\* _approved_profile_command: the command of the permit is the approved one,
\* and the port's configuration is that of the approval.
ApprovedProfileCommand(command, context, offline) ==
  /\ command.isolated
  /\ context.command = command
  /\ context.launcher = Configured.launcher /\ context.serving = Configured.serving
  /\ context.model = Configured.model
  /\ context.environment = << Configured.python, Configured.packages >>
  /\ command.offline = [offline EXCEPT !.outputs = << command.attempt >>]

-----------------------------------------------------------------------------
(* The launcher                                                            *)

\* The running Python and every file of every distribution are those of the
\* manifest, and the required ones are there.
VerifyEnvironmentManifest(environment, host) ==
  << host.python, host.packages >> = environment

\* Mutant: the manifest is that of the coordinate, its files are not looked at.
VerifyModelManifest_NotTheFiles(command, host) == command.model = command.coordinate.model

VerifyModelManifest(command, host) ==
  /\ command.model = command.coordinate.model
  /\ host.model = command.coordinate.model

VerifyOfflineArgv(offline, coordinate, existing) ==
  /\ offline = coordinate.offline
  /\ OfflineBinds(offline, coordinate.serving)
  /\ offline.outputs = << coordinate.completion >>
  /\ coordinate.completion \notin existing

\* What the launcher writes before it becomes the workload, or a refusal.
\* existing holds the attempts whose output or sidecar is already there.
Launch(command, file, host, existing) ==
  IF /\ file = command.coordinate
     /\ VerifyEnvironmentManifest(command.environment, host)
     /\ file.environment = command.environment
     /\ VerifyModelManifest(command, host)
     /\ VerifyOfflineArgv(command.offline, file, existing)
     /\ host.launcher = file.launcher
     /\ host.python = command.environment[1]
     /\ host.visible = file.device /\ host.clean
     /\ command.sidecars[1] \notin existing
  THEN [ environment |-> command.environment, launcher |-> host.launcher, coordinate |-> file,
         model |-> file.model, serving |-> file.serving, device |-> file.device, container |-> host.container,
         offline |-> command.offline, completion |-> file.completion ]
  ELSE Refused

-----------------------------------------------------------------------------
(* The agent's artifacts                                                   *)

\* The entry's file in the case, or the one file of its content when privacy has
\* replaced a component of its name.  Unknown when there is none.
ResolveManifestSource(case, entry) ==
  LET named == { f \in case : f.name = entry.name }
      alike == { f \in case : f.size = entry.size /\ f.content = entry.content }
  IN  IF named # {} THEN CHOOSE f \in named : TRUE
      ELSE IF entry.redacted /\ Cardinality(alike) = 1 THEN CHOOSE f \in alike : TRUE
      ELSE Unknown

\* One entry, in the order of the import: it is kept when it fits and is there.
ImportEntry(case, budget, acc, entry) ==
  LET source == ResolveManifestSource(case, entry)
  IN  IF acc = Refused \/ entry.name \in acc.seen THEN Refused
      ELSE IF acc.files + 1 > budget.files \/ acc.bytes + entry.size > budget.bytes
      THEN [acc EXCEPT !.seen = @ \cup {entry.name}, !.retained = Append(@, entry)]
      ELSE IF source = Unknown
      THEN [acc EXCEPT !.seen = @ \cup {entry.name}, !.retained = Append(@, entry)]
      ELSE IF source.content # entry.content \/ source.size # entry.size THEN Refused
      ELSE [acc EXCEPT !.seen = @ \cup {entry.name}, !.imported = Append(@, entry),
                       !.files = @ + 1, !.bytes = @ + entry.size]

\* The run context comes first, then the names in order.  Names are numbers.
ImportAgentArtifacts(manifest, case, budget) ==
  IF manifest = << >> THEN Refused
  ELSE FoldLeft(LAMBDA acc, entry : ImportEntry(case, budget, acc, entry),
                [imported |-> << >>, retained |-> << >>, seen |-> {}, files |-> 0, bytes |-> 0],
                SortSeq(manifest, LAMBDA a, b : \/ a.context /\ ~b.context
                                                \/ a.context = b.context /\ a.name < b.name))

-----------------------------------------------------------------------------
(* The result.  state is the consumed approval, docs what the port returns. *)

\* The approval still binds the materialized command.
ApprovalBindsCommand(approval) ==
  /\ approval.intact
  /\ approval.context.command = approval.arguments
  /\ approval.coordinateFile = approval.context.command.coordinate
  /\ approval.arguments.offline.outputs = << approval.context.command.coordinate.completion >>

\* The run context is of the approved command on the configured GPU, and is what
\* its hash says.
RunContextMatches(context, evidence, approval) ==
  /\ context.hash = evidence.contextHash
  /\ context.hash = << context.argv, context.gpu, context.visible, context.clean >>
  /\ context.argv = approval.arguments
  /\ context.visible = Configured.device /\ context.clean
  /\ context.gpu = Configured.device

\* The enriched execution names the configured coordinates and the same runtime.
ExecutionMatches(execution, evidence) ==
  /\ \A c \in Coordinates : execution.coordinates[c] = Configured[c]
  /\ execution.runtime = evidence.runtime

\* The throughput result is intact, complete and the one that the MCP names.
CompletionMatchesFramework(completion, framework) ==
  /\ completion.intact
  /\ completion.metrics = completion.artifact.metrics
  /\ completion.artifact.metrics.requests = Configured.serving
  /\ completion.artifact.metrics.consistent
  /\ framework = [artifact |-> completion.artifact, metrics |-> completion.metrics]

EvidenceIdentityMatches(evidence) == \A c \in Coordinates : evidence.coordinates[c] = Configured[c]

\* The process was the verified one, in the container of the baseline server.
RuntimeMatches(runtime, baseline) ==
  /\ runtime.verified
  /\ runtime.python = Configured.python
  /\ runtime.environment = << Configured.python, Configured.packages >>
  /\ runtime.launcher = Configured.launcher
  /\ runtime.exact /\ runtime.visible = Configured.device
  /\ IF baseline.container = Unknown THEN runtime.container = Unknown
     ELSE runtime.container = baseline.container /\ runtime.image = Configured.image

\* Every status of the kernel evidence is completed, and its rows are counted.
KernelEvidenceMatches(call, evidence, approval) ==
  /\ call.arguments = approval.arguments
  /\ ~call.error
  /\ call.completed /\ call.succeeded /\ call.timed
  /\ call.contextHash = evidence.contextHash
  /\ call.kernels > 0 /\ call.kernels = evidence.kernels

\* record_profile_result records or raises.
RecordsProfile(approval, docs, baseline) ==
  /\ ApprovalBindsCommand(approval)
  /\ RunContextMatches(docs.context, docs.evidence, approval)
  /\ ExecutionMatches(docs.execution, docs.evidence)
  /\ CompletionMatchesFramework(docs.completion, docs.framework)
  /\ EvidenceIdentityMatches(docs.evidence)
  /\ RuntimeMatches(docs.evidence.runtime, baseline)
  /\ KernelEvidenceMatches(docs.call, docs.evidence, approval)

-----------------------------------------------------------------------------
(***************************************************************************)
(* Properties.                                                             *)
(***************************************************************************)

\* What the launcher starts is the approved workload on the host that was
\* configured.  made and launched are the host when the command was made and when
\* it starts, command and file what stands in the approval and in the coordinate's
\* file by then: whatever was changed in between, a workload starts only when the
\* host is as configured in all that the profile depends on, as the configured
\* workload, for the first time; and when nothing was changed it does start.
LaunchIsAsConfigured(made, launched, offline, command, file, existing) ==
  LET materialized == MaterializeVllmProfileCommand(made, offline, 1, {})
      accepted     == MaterializationIsAccepted(command, 1, {})
      starts       == /\ accepted
                      /\ ApprovedProfileCommand(command, ProfileContext(command), offline)
                      /\ Launch(command, file, launched, existing) # Refused
      asConfigured(host) ==
        /\ \A c \in {"python", "packages", "launcher", "model"} : host[c] = Configured[c]
        /\ host.visible = Configured.device /\ host.clean
  IN  /\ starts => /\ asConfigured(launched)
                   /\ command.offline.serving = Configured.serving /\ ~command.offline.conflicting
                   /\ command.offline.outputs = << 1 >> /\ 1 \notin existing
      /\ (/\ command = materialized /\ command # Refused /\ file = command.coordinate
          /\ existing = {} /\ asConfigured(made) /\ asConfigured(launched)) => starts

\* The import stays within its budget, accounts for every entry, and the run
\* context, which the result cannot do without, is never pushed out by the rest.
ImportIsBounded(manifest, case, budget) ==
  LET result == ImportAgentArtifacts(manifest, case, budget)
  IN  result # Refused =>
        /\ result.files <= budget.files /\ result.bytes <= budget.bytes
        /\ Len(result.imported) + Len(result.retained) = Len(manifest)
        /\ MapThenSumSet(LAMBDA i : result.imported[i].size, DOMAIN result.imported) = result.bytes
        /\ \A e \in Range(manifest) :
             /\ e.context /\ 1 <= budget.files /\ e.size <= budget.bytes
             /\ ResolveManifestSource(case, e) # Unknown
             /\ \A f \in Range(manifest) : f.context => f = e
             => e \in Range(result.imported)

\* A recorded profile is the approved run's.  Of its documents, swapped come from
\* another run: nothing is recorded then, except that a throughput result that is
\* swapped together with the envelope's reference to it is of no attempt at all.
RecordedProfileIsApproved(approval, own, other, swapped, baseline) ==
  LET mixed == [d \in DOMAIN own |-> IF d \in swapped THEN other[d] ELSE own[d]]
  IN  RecordsProfile(approval, mixed, baseline) <=> swapped \in {{}, {"completion", "framework"}}
=============================================================================
