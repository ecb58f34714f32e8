# A TLA+ verification of the AMD inference optimization control plane

The repository's Python package (`src/src/amd_inference_opt/`) drives the optimization of an
inference service on AMD GPUs: it measures a baseline, lets an agent propose one experiment at
a time, builds and measures it, and accepts it only on evidence. What is measured is GPU work;
what can go wrong in the package itself is protocol: durable records advanced by several
processes that crash, race and retry, gates that must not be passed on stale evidence, one GPU
server that must be stopped and paid for exactly once, evidence that must be of what was approved.

This directory models those protocols in TLA+, checks the models with TLC on small instances,
and proves the central invariants with TLAPS for instances of any size. `PROJECT.json` is the
machine-readable index: components, runs, the mutants that show that every property can fail,
the source lines of every definition, findings, hazards and theorems.

    tlc -workers 2 -config MCCampaign.cfg MCCampaign.tla     # one run
    tlapm QualityExecution_proofs.tla                        # one module of proofs

## 1. The system

| component (source) | state it keeps | operations | interacts with |
|---|---|---|---|
| workflow engine (`workflow.py`, record in `models.py`) | `state/workflow.json`: stage of fifteen, status, completions, decision, counters | `complete_stage`, `complete_performance_rejection`, `resume_inconclusive` | called by the experiment loop and by the inner workflow of the vLLM coordinator, who save what it returns |
| gates (`gates.py`) | none | `evaluate`, `evaluate_performance_pre_gate` | their decision closes DECIDE; an INCONCLUSIVE one names the stage to resume from |
| experiment loop (`live.py`, `experiment.py`, commands of `cli.py`) | the workflow record, `active-execution`, evidence directories of reruns and pairs, profile attempts with requests and receipts | `run-live`, `resume`, `submit`, `approve` | composes engine, gates, quality execution, the ROCm server; two drivers may overlap |
| durable quality execution (`quality_execution.py`, `quality_worker.py`) | `attempts/attempt-N.json`, `active-execution.json` | `start_or_resume`, `run_quality_worker`, `finalize_quality_execution` | spawns a detached worker, which spawns the evaluator |
| experiment store and bundles (`store.py`, `experiment_bundle.py`) | artifacts, manifest, versioned evidence, bundle of an experiment, SQLite catalog, task lock | atomic writes, freezing, import, finalization, refresh, load, index, prune | everything; some writers hold the task lock, others never do |
| vLLM coordinator (`vllm_workflow.py`, `vllm_models.py`, `change_policy.py`) | `state/vllm-workflow.json` with a revision; `consumed.json` of each approval | one method per stage; `next_action` names the one to call | drivers call it; it starts and stops the server through the adapter |
| vLLM server adapter (`vllm_adapter.py`) and process groups (`process_group.py`) | execution record, file lock; processes of a session | `start_or_resume`, `stop`; scan, signal, wait | the kernel: PIDs, sessions, ports |
| vLLM ports and provenance (`vllm_ports.py`, `vllm_profile_launcher.py`, `mi300x_observation.py`, `vllm_runtime_inspector.py`, `vllm_model_snapshot.py`, `vllm_environment.py`) | executable identities, evidence manifests | benchmark, quality and profile ports; capture and verification of model, environment, device and process | the coordinator records only what they verified |
| campaign coordinator (`campaign.py`, `campaign_control.py`, `campaign_store.py`) | `state/campaign.json` with a revision, session breakdown, final report | `create`, `run_campaign_step` | one operator command per step; consumes gate documents of experiments |
| command runner (`command.py`) | none | `run` | process groups; every build and benchmark |
| tools (`run_kv_cache_campaign.py`, `q8_runtime_quality_eval.py`) | result files of each arm; one evaluation document | one program each | the GPU lock, the command's sessions |
| optimization techniques (`kv_cache.py`, `mixed_precision.py`, `hip_graph_ab.py`, `memory_audit.py`, `q4rdna_tuning.py`, `shape_kernels.py`, `kernel_manifest.py`, `mfma_mmq.py`) | none | functions from measurements to plans and verdicts | reports and campaigns |

`PROJECT.json` lists the remaining components (llama.cpp execution, evidence import, UI, command line,
planning), which are I/O, rendering or data conversion.

Components interact through files: each durable record is loaded, a successor is computed and
saved, mostly under a task lock (`flock`) or guarded by a revision number that the save
compares. Effects that cannot be undone (a spawned process, a spent approval, a profile) happen
between load and save.

What is hard here:

- *interleaving*: two drivers or controllers hold the same revision of a record; a writer changes
  files while they are hashed; processes fork and die while they are enumerated;
- *crash recovery*: a process dies between an effect and the record of it, or between two files;
- *partial failure*: the server, the worker or the evaluator dies alone;
- *retry*: reruns go back to earlier stages and keep part of the record; documents and calls
  are submitted again; a campaign goes on from the files of a killed one;
- *stale state*: PIDs are reused, an output or executable is of an earlier call, evidence names
  what it should be compared with;
- *resource bounds*: paid GPU seconds, `max_experiments`, output limits;
- *liveness*: every recorded attempt, every exhausted task, every executed experiment and every
  campaign must end.

What makes each component correct:

- workflow engine: an acceptance rests on one fresh chain of evidence; quality is skipped only
  for a rejection; verdicts are paid for; closed records stay closed;
- gates: an accepted candidate is soundly better, a rejected one is itself to blame, a rerun can
  end in a verdict;
- experiment loop: a verdict rests on the measurement it names and on complete evidence; an approval
  pays for one profile at the level asked; only interruptions strand a task; an executed
  experiment is judged;
- quality execution: one owner, one evaluation at a time, a ledger of attempts each closed once;
- store: what is frozen stays, locked writers lose nothing, a bundle that is returned is consistent
  and a refresh repairs what an interrupted one left;
- vLLM coordinator: paid time is accounted exactly once, the server is down for profiles and
  verdicts, approvals are spent once, the budget closes the task, `next_action` is honest;
- adapter and process groups: nobody else's process is signalled, no two servers run at once,
  STOPPED means gone;
- ports and provenance: a measurement is of its own command, the pinned executable and model; an
  accepted profile is of the approved command; a candidate changes no locked coordinate;
- campaign: every candidate judged once and on its own evidence, strategy after strategy; one
  final outcome, resting on compatible winners;
- tools: a result that stands was measured as it says, and no command outlives its report.

## 2. The modules

State machines:

| module | what it models |
|---|---|
| `WorkflowEngine` | `workflow.py`: one action per engine method that returns a record. A call that raises is no step; its conditions are the guards. |
| `GatedExperiment` | an experiment that the gates decide, and that is resumed with the evidence of the selected stage and later ones measured again |
| `ExperimentLoop` | the drivers of one task through staged execution, the E2E rerun and the paired measurement, early rejection, durable quality and the verdict; it keeps the workflow record in the engine's terms and extends `ProfileApproval` |
| `ProfileApproval` | the profile attempts of one target in `live.py`: request, receipt, transport, failure, retry, raw profile |
| `QualityExecution` | callers, detached workers and evaluators of one experiment's quality attempts; one step per durable write of a caller |
| `AttemptLedger` | abstract specification of `QualityExecution`: attempts open one after the other and close once |
| `ExperimentStore` | the files of a task and the operations on them, each step one file |
| `VLLMWorkflow` | the vLLM coordinator, its drivers, the managed server, the clock and the paid budget. A method with an effect is two steps, the effect and the guarded save. |
| `ProcessGroup` | processes with reused numbers, sessions, forks, exits and zombies; the lease that scans and signals one session |
| `VLLMServer` | the adapter above `ProcessGroup`: operation, record, rollback, health, stop, crash and reboot |
| `CommandRunner` | one command with its timeout and cleanup, above `ProcessGroup` |
| `VLLMPorts` | the quality, benchmark and profile ports with executables exchanged, outputs left behind and drivers that die |
| `ModelSnapshot` | the capture of a model directory beside a process that writes, replaces, moves, adds and removes files; creation, resumption and verification on it |
| `KVCampaign`, `QualityEvaluator` | the two long-running tools, step by step, killed and started again |
| `Campaign` | engine, control step and store of the outer campaign with several controllers |
| `Tournament` | abstract specification of `Campaign`: candidates judged once, winners chosen, outcome final |

Pure functions, each beside the properties that say what its users take it for:

| module | what it models |
|---|---|
| `GateEngine` | `gates.py` on finite evidence documents: each group of gates is a sequence of (requirement, decision) pairs, and the decision is that of the first failure |
| `QualityVerdicts` | the quality evaluator's log parser, selections, argument canonicalization, exact McNemar test and corrected gate |
| `KVCache`, `MixedPrecision`, `TechniqueGates`, `KernelEvidence` | the optimization techniques: plans, rankings, gates, grouping and attribution of kernels |
| `ProfileProvenance` | from coordinates to a recorded profile: the materialized command, the launcher's checks, the import of artifacts, the check of the result |
| `ServerEvidence` | runtime evidence of a started server, its judgement, health and port ownership, samples of a benchmark; the manifest of the Python environment |
| `VLLMCoordinates` | what a campaign pins and an experiment may change: configuration, change policy, decision, server request, benchmark command |
| `DeviceObservation` | the GPU's probes and telemetry window |
| `Refusals` | the two values these share: an error and a None |

`..._proofs` modules hold theorems, `MC...` modules instances for TLC (`WorkflowEngine` is checked as it is). The pure modules are checked by
drawing inputs: `MCSamples` and `MCVerdicts` have one `Draw...` operator per function, whose second state is the
drawn sample, and the properties speak of the sample.

Correspondence of state and actions:

- `WorkflowEngine`: the variables are the fields of `WorkflowRecord`; stages are the numbers of
  the enum. A completion keeps its stage and outcome; the artifacts
  handed over are the keys `STAGE_REQUIREMENTS` asks for. The engine has no lock and no
  revision: its callers save.
- `ExperimentLoop`: `record` is `state/workflow.json`, `held` a driver's copy; `execution` is
  the active execution with its rerun and pair in flight; `dirs` the evidence directories that exist. A driver is one run of
  a command, at a program counter between two durable writes; it takes the task lock only to measure
  again. The agent gives each experiment a fresh id. `WorkflowFollowsEngine` instantiates `WorkflowEngine`
  on the stored record.
- `ProfileApproval`: attempts are numbered per target; drivers take no lock and write the whole
  list back. A deeper LEVEL_2 request on a target that was profiled reuses its profile, as in the code.
- `QualityExecution`: `attempt`, `pointer` are the files; `worker`, `evaluator` the processes;
  `output` the attempt whose evaluator wrote the shared output path last. The task lock is held by
  a caller across its writes; the kernel releases it when the caller dies. `process_matches` never takes
  another process for the one recorded (identity includes start time), but a look at `/proc` that fails
  (`quality_execution.py:76`), or an identity that cannot be read after the spawn (`:458`), passes a live process
  over: `missed` says which a caller passes over, `StopEvaluator` that a worker does. The history variable
  `lost` has the attempts to which that happened; nothing reads it but the properties. A worker forgets
  `initial` when it ends (`Ends`). What an evaluator itself spawns is not modelled.
- `ExperimentStore`: contents stand for hashes. An artifact is a file and an entry of the manifest; the
  manifest is read and replaced in two steps. The catalog is rebuilt from bundles and may lag.
- `VLLMWorkflow`: `record` holds the fields that methods read or write. A driver loads (`Load`),
  performs what `next_action` names (`Drive`) and saves (`Save`). The revision is a flag `stale`
  that a save of another driver sets in everybody who loaded before: it says the same as the
  comparison of numbers, and keeps the state space finite. Experiments are numbered by
  `experimentCount`; a measurement is the pair of the server session that answered it and the
  request it ran. The server's process and the adapter's record are one variable, `server`.
- `ProcessGroup`, `VLLMServer`: a process has a number and start ticks, a session and a ghost tag, the
  server it belongs to. A scan lists numbers and looks at each later; a signal opens a pidfd and sends later.
  STARTING, RUNNING, TIMED_OUT and FAILED of the record are one status, because no operation tells
  them apart. Whether the port answers is the environment's choice. A reboot during an operation is a
  crash before it.
- `VLLMPorts`: a call has a serial number, which its output and its executable carry, so that a
  result can be compared with the call that returns it.
- `ModelSnapshot`: every change gives its inode or the directory a new stamp, which stands for size, mtime
  and ctime. A ghost collects the moments of the directory during a capture. What a creation, resumption or
  verification concluded is kept with the manifest that was on disk at that moment: another capture may replace
  it later, and a conclusion is not about that.
- `Campaign`: `record` is `state/campaign.json`; a controller is idle, holds a loaded record, is
  inside the lock after a save (`publishing`) or about to write the final report. The seven
  actions of `Step` are the stages of `run_campaign_step`, each with the engine call and the save
  that belong to it; `RUN` with a turn stands for the `RUN_*` stage of the strategy of that turn.
  The ledger's fingerprints are the identities of candidates, because the planner gives every
  candidate its own. Evidence files that a refused call leaves behind are not state. The combination
  built before the final validation is left out: the validated one replaces it and nothing reads it
  before. `evidence` says what the operator's documents say of each candidate; that a document
  tells the truth about the candidate it names is the operator's duty, not the code's.

## 3. The runs

| run | expected | what it asks | distinct states |
|---|---|---|---|
| `workflow` | pass | the engine's safety through loops, rejections, deeper profiles and reruns | 107 872 |
| `experiment` | pass | two drivers, one killed or overlapping: verdicts are earned, profiles as approved, the stored record moves as the engine does, an executed experiment is judged | 260 773 |
| `quality` | pass | two callers, three attempts, any process killed or overlooked; refinement of `AttemptLedger`; every attempt ends | 788 528 |
| `store` | pass | three processes meet in five casts of operations: what is frozen stays, locked writers lose nothing, bundles can be trusted | 699 391 |
| `vllm` | pass | one driver that may crash: accounting, exclusivity, honesty; the budget ends server and task | 85 078 |
| `vllm_race` | pass | two drivers, a server that exits, files that drift: approvals and budget closure | 377 939 |
| `server` | pass | two drivers, two requests, three process numbers, crashes and reboots: signals, servers, stops | 1 720 659 |
| `tools` | pass | command runner, ports, snapshot capture, KV campaign and quality evaluator, each on its own: interrupted, repeated, raced | 1 678 449 |
| `verdicts` | pass | the gates' verdicts over near-sound evidence, and every pure function over samples of its inputs | 390 303 |
| `campaign` | pass | two controllers, one crash, three candidates; refinement of `Tournament`; the campaign ends | 250 505 |
| `gate_retry` | violation | "Resume a retryable INCONCLUSIVE workflow at its Gate-selected stage" | - |
| `vllm_wedge` | violation | "one and only one honest action": stops, when the server exits by itself | - |

A property with several parts (`RecordIsSound`, `VerdictIsEarned`, `TechniquesAreJudgedRight`, ...) is a
conjunction of named ones, each with its own comment.

### Bounds, and why they suffice

- `workflow`: fifteen stages make one experiment; thirty completions reach a decided experiment and
  a second one that follows a rejection or a rerun from the baseline, which is when stale
  evidence could stand in. The theorems lift the bound.
- `experiment`: four kinds of task (generic, profiled by approval, deeper profile, raw profile with
  pairs), each exercising one path, so that their states add up; two experiments where one is rejected
  and the next starts; three samples, which is one more than a rerun needs; one disturbance, a
  crash or a driver that overlaps, anywhere.
- `quality`: three attempts, so that a retry follows an orphan and is itself orphaned; two
  disturbances, each a death of a caller or worker or a look that fails, so that evaluators of two attempts can be
  lost beside the third. One request: a different one starts an attempt only where the same one
  would too, and is otherwise refused, which is no step. The theorems lift the bounds.
- `store`: a cast gives each of three processes the operations it may perform, one meeting of
  operations for each; three versions of imported evidence; one crash.
- `vllm`: two ticks of budget within three of the clock, so that the budget runs out before, in and
  after every stage; two experiments, two profile attempts, one rerun, one crash.
- `vllm_race`: two symmetric drivers, one experiment and the two server
  sessions it needs: both drivers hold records of any age, and an approval is requested again after
  it was spent.
- `server`: three numbers each reused once, a leader with one fork, two servers, two disturbances (a crash
  and a reboot, or two of one), which is enough for a second server to be started beside what the
  first left.
- `tools`: two invocations and one exchange of the binary between them; two forks of a command; three calls
  of the ports and one swap of an executable; a directory of two names with one blob behind a
  link, two changes and two captures, so that a change can be undone or made between the two looks.
- `verdicts`: a sound experiment with one deviation in the baseline and one in the candidate or its
  quality, under tasks that drop one requirement or all of quality. Gates are conjunctions with early return; an
  order mistake shows with two deviations, a wrong gate with one. Samples of the pure functions straddle
  each threshold (at, below and above), have ties where something is ranked, an unknown where
  something may be missing, and one difference in each place that a check compares.
- `campaign`: two strategies whose order differs from that of the plan, two rivals for the one
  place of mixed-bit winners, and findings with every way to fail.

### Fairness

- safety runs assume none;
- `vllm`: each driver goes on loading and driving, also after a crash: the coordinator is
  driven by a loop over `next_action` that an operator or an agent starts again;
- `quality`: a live caller and a live worker go on, and somebody calls `start_or_resume`
  again, as every `resume` of an experiment does, and finds a dead worker dead. The evaluator needs no
  fairness: the worker times it out;
- `experiment`: somebody runs `resume` when nobody works on the task, the agent submits, the human
  approves, and the quality worker ends. Nothing forces drivers to overlap. What a benchmark yields
  is not fair: `ExperimentIsJudged` excuses samples that stay unusable when they are measured again;
- `campaign`: the operator goes on calling `campaign run` with the documents it asks for.

### Findings

Two runs end in a counterexample, each against a sentence of the source itself (quoted in
`PROJECT.json`):

1. `gate_retry` (`gates.py:103`): a baseline whose own samples are unstable or missing is answered
   with a rerun of `E2E_VALIDATION`, which measures only the candidate. No rerun can ever decide.
2. `vllm_wedge` (`vllm_workflow.py:1608`): a server that exits by itself is answered with
   `stopped=False`; the coordinator raises, and `next_action` asks for the same stop for ever.

The passing run `vllm` states honesty under the complementary conditions (no rerun, a server that
does not exit by itself), so a further disagreement would show.

Behaviour met while modelling, that the properties exclude by an explicit condition or that lies outside
the models. vLLM coordinator:

- a rerun from the baseline keeps the start of the previous candidate's server, so the next
  experiment is to be run on a server nobody started (`vllm_workflow.py:682`); with all experiments
  spent, such a rerun returns to a decision that can never be recorded (`:2810`); a driver with an old
  record spawns the baseline server while the other profiles, and only its save is refused (`:1310`);
- a driver that dies between `consumed.json` and its save leaves an approved profile that can
  never be run (`NextActionIsHonest` asks it only while `crashes = 0`);
- when pinned files drift while a server is up, no restarted driver can load the record, so
  nobody stops that server (`vllm` runs without drift);
- a quality result names protocol and model but not the server process; with two drivers and a
  server that exits, benchmark and quality may come from two processes;
- profile time is saved only when the transport returns (`:2685`), and a server that exits before it is
  healthy is never accounted (`vllm_adapter.py:1952`).

Adapter and process groups:

- a driver that dies between the spawn and its record leaks a server, and the next start spawns another
  (`leaked` in `ServersAreKnown`); a member that forks during the last scan may survive a stop
  that is reported as verified (`raced`); a process that leaves the session unseen is outside;
- the zombie leader of another live driver counts as alive;
- descendants that a command forks after the lease was opened are not ended once the leader exited
  normally, only reported: `CommandsEndClean` asks that a result which leaves something running is
  neither verified nor successful.

Experiment loop and profiles:

- ORPHANED is answered like a running evaluation, and no caller passes `retry_orphaned`
  (`experiment.py:1507`): the experiment waits for ever, which `ExperimentIsJudged` excuses by name;
- an overlapping driver may put the list of attempts it holds over that of a profile which succeeded
  meanwhile: `AcceptanceIsComplete` asks for the complete profile while no drivers overlapped, and for the
  stored raw evidence or the call of the ROCm server (`ProfileTaken`) always;
- overlapping drivers may both judge an experiment, because the verdict is saved outside the
  lock; a driver killed inside an experiment strands it (`resume_active_experiment` refuses DECIDE);
- the receipt that was spent before a crash is not given back, nor is the transport repeated;
- live's reclassification never applies under one version of the code; `finalize_existing_raw_profile` has
  no caller; the paired baseline of one experiment is used for later ones.

Store and bundles:

- a crash, or a manifest update lost to an unlocked writer, between the link of a frozen file and its
  registration leaves "immutable artifact already exists" for ever;
- an import may replace the evidence of the same version, which its docstring admits (`store.py:353`);
- `prune` may drop a row that was published meanwhile: the catalog is disposable;
- the baseline a bundle selects (`experiment_bundle.py:420`) need not be the one the verdict compared
  (`experiment.py:1569`).

Quality: the record exists "to resume without duplicate evaluation" (`models.py`), but an evaluator may outlive its
attempt in three ways, and a retried attempt then runs beside it and may bind its output:

- its identity cannot be read right after the spawn (`quality_execution.py:458`): the worker has nothing to stop
  it by (`:515`, `:83`) and finalizes FAILED, and `retry_failed` starts the next;
- the worker is killed between the spawn and its first heartbeat: nobody knows the evaluator;
- a look at `/proc` fails and is taken for the absence of the process (`:76`): a live worker is given up, or an
  evaluator is not stopped.

`EvaluationsAreExclusive` and the ownership of `AttemptsAreSound` except exactly these attempts, `lost`, by name and hold
of all others, after any number of deaths.

Campaign: a controller that dies after the last save leaves a completed campaign without the final
report, and its breakdown one revision behind (`BreakdownFollowsRecord` asks `crashes = 0`).

Ports and provenance:

- the executable's identity is saved before the first baseline succeeds, so an upgrade after a
  failed baseline is refused for ever; an exchange that is undone within one run is invisible
  (`MeasuredAlike` asks fewer than two swaps); the surviving command of a dead driver may write the shared
  quality output during the retry (`orphaned`);
- a throughput result that is exchanged together with the envelope's reference to it is bound to no attempt;
- the inspector's package evidence is cached per request: a change between preflight and spawn is invisible;
- of the model snapshot's checks only the last look at every file is indispensable; its fstat, second
  listing and directory stat are defence in depth. All of it rests on the granularity of ctime;
- the environment manifest hashes packages without a second look, so it may mix moments; a required
  name that installers normalise is refused as missing although it is installed;
- `runtime_arg` arity defaults to one: a switch on the allow-list whose arity is not declared may have another
  option as its "value" (`CandidateKeepsCoordinates` takes arities from the engine);
- some configurations are accepted and refused later for ever: profile arguments under aliases, a bad
  number of warmups, a host with '/' or '@' (the latter two are in `ValidCampaignCanRun`).

Optimization techniques: `advance_mixed_precision` may replace planned candidates at DECIDE; the HIP graph's
interval uses 1.96 beyond twelve samples; unknown durations count as zero in the memory audit's
bound, and lifetimes that name each other make it depend on their order; a merged kernel group has
the share of its last row; `select_optimization_stack` copies without validation.

Tools: the KV campaign does not go on from a first output that is valid but unfinished; the quality
evaluator's `run_command` ends no descendants once their leader has exited.

## 4. What is proved

The theorems hold for every value of the constants that satisfies the named assumptions, not only on the
instances TLC enumerates.

**`WorkflowEngine_proofs`** assumes `BoundsAssumption` (the bounds are natural numbers) and proves
`TypeCorrect`, `AcceptedFresh`, `QualitySkippedOnlyToReject`, `VerdictsPaid`, `HonestVerdicts` and `Finality`.
The acceptance property speaks of accepted records only and is not inductive. The strengthening
`ChainSoFar` says that an active record has the chain up to the stage it is at, and that an
inconclusive one still has all of it, because a rerun may resume from any point. Lemmas on appending
to a history carry the argument; each action has its step.

**`Verdicts_proofs`** is about the gates and the pure functions. Of the gates it proves, for every task, baseline and
candidate (not only the documents TLC draws) and any number of reruns,

- `AcceptanceIsSound`: `Spec => []AcceptedIsSound`;
- `RejectionStands`: `Spec => []RejectionIsJust`;
- `RerunsCanDecide`: `Spec => []CandidateRerunCanDecide`.

The assumptions are that `MaxReruns` is a natural number, that baselines and candidates have all their fields
(`BaselineAssumption`, `CandidateAssumption`), that "no value" is no Boolean (`NoValueAssumption`), and, for the third
only, that what is measured again may succeed (`RenewalAssumption`, which TLC evaluates on the documents of `MCVerdicts`).
The first two rest on `EvaluateDecides`, which reads the lists of gates once: the first failure decides
(`FirstFailureDecides`), so a rejection on performance comes after the two gates that blame the baseline, and an
acceptance after all of them. `PreGateIgnoresQuality` says that no performance gate reads the quality result. The third
needs to know that the stage selected for the first failure is early enough for every other failure, too
(`StageSuffices`): `RerunKeeps` says what a rerun from a stage leaves alone, `RerunsCompose` that what two of them measure again one
could, and `CandidateCanBeJudged` puts together the build, the benchmark and the quality that can be had
again. Only a rerun from CAPTURE_BASELINE measures the baseline again, other than its quality, and an unsound baseline does not
always select that. `CandidateRerunCanDecide` therefore asks `BaselineSound`, and the run `gate_retry` shows what happens without it.

The pure functions have laws, each for every input instead of the samples that the runs draw. They assume that None and
an error are no value of any other kind (`RefusalsAssumption`).

| theorem | law | argument |
|---|---|---|
| `QuantizedCachesAreFaster`, `PlansFit`, `CacheBytes` | `FasterStillPasses`, `PlannedDepthsFit`, `CacheBytesAgree` | arithmetic of the thresholds and of whole blocks |
| `SensitiveTensorsKeepTheirBits` | `SensitiveTensorsKeepBits` | a tensor's rank is the number of eligible ones before it, so ranks follow scores (`RanksFollowScores`) and tiers follow ranks |
| `GraphBenefitsAreReal` | `BenefitIsReal` | at most one of two opposite comparisons gains |
| `BetterPatchesPass`, `LossyProfilesAreInconclusive` | `BetterPatchStillPasses`, `LossyProfilesDecideNothing` | which figures the outcome is a function of |
| `ScreensAreFairForAll`, `PromotionIsMonotoneForAll` | `ScreensAreFair`, `PromotionIsMonotone` | no threshold falls while a gain grows |
| `EveryClaimIsJudged` | `EvidenceIsJudged` | one lemma per judge: it replaces the verdict and keeps the facts |
| `StableWindowsAreStable` | `StableWindowIsStable` | a stable window has no reason left, and each reason is a fact (`ReasonsAreNamed`) |
| `LaunchesAreAsConfigured` | `LaunchIsAsConfigured` | the launcher compares every part of the command and of the host with the coordinate, which pins what was configured (`MaterializedCoordinate`) |
| `InspectedDevicesAreTheConfigured` | `InspectedDeviceIsTheConfigured` | the selection names one handle or none (`SelectedDevice`), an answer is of its request and of now (`AnswersAreOfNow`) |

`GraphBenefitsAreReal` supposes that the regression tolerated is smaller than the material gain, as by default. The
configuration allows the opposite, and then a change and its reverse may both be a benefit.
`StableWindowsAreStable` supposes that the error value is not a window.
`LaunchesAreAsConfigured` is about commands whose coordinate was materialized, for whatever host and workload: the
launcher does not know the configuration, only the coordinate. `InspectedDevicesAreTheConfigured` asks what `vllm_models.py`
asks of a configuration: a known identity and OAM, a memory partition that goes with the compute partition, two requests.
Both suppose that the error value is no function, which sets it apart from every record.

**`QualityExecution_proofs`** assumes `BoundsAssumption` and `NoValueAssumption` (the free lock is not a
caller) and proves, for any number of callers, attempts, deaths and looks that fail,

- `Soundness`: `Spec => []AttemptsAreSound`;
- `Exclusion`: `Spec => []EvaluationsAreExclusive`;
- `Refinement`: `Spec => ImplementsLedger`.

None of the three is inductive. The invariant `IInv` adds, besides what a caller inside the lock has
done so far (`Order`), the one fact everything rests on: an attempt that was passed over before it ended
never had a worker (`PassedOverIdle`). A worker therefore finds RUNNING only in the attempt that is pointed
at, whatever died in between. `OwnedEvaluator` says the same of evaluators that were not lost, and that somebody can
stop them: the worker that spawned them, or whoever reads the record. `LostIsOver` keeps an attempt that lost a process from
going on. `OutputIsOwn` follows the shared output path: what changes the output since a worker took ownership is its
own evaluator, or a lost one. `Numbered` (files are numbered
without a gap) says which attempt a caller in the lock is starting; its lemma needs the cardinality of an
interval. Each action has a lemma that keeps `IInv`, and those that touch an attempt also show the step of the
ledger, which is a stutter, an opening or a closing.

Of the program that an attempt runs, the module proves `EvaluationsAreDocumented`, `EvalInit /\ [][EvalNext]_evalvars =>
[]DocumentIsOfThisEvaluation`, from `EvaluatorAssumption` (the bounds) and `DocumentAssumption` (no document is no
document), for any number of invocations and any length of the output. `EvalInv` says that an invocation that ended by
itself has written its document and none that still runs has (`DocumentIsLate`), that a leader outlives the reading of its
output only when its invocation was stopped (`LeaderIsWaitedFor`), that what was read without a failure was read to its
end with nobody left to write more (`ReadToTheEnd`), and which tasks the results so far are of (`ResultsSoFar`). Hence a
complete document has a whole result of every task (`CompleteMeansWhole`).

**`Campaign_proofs`** assumes `PlanAssumption` (strategies are not repeated, every
candidate has a configured strategy and every strategy a candidate), `FindingsAssumption` and
`ControllersAssumption`, and proves

- `TypeCorrect`, `Earnings`, `Bookkeeping`, `CompatibleAcceptance`, together `Soundness`;
- `Refinement`: `Spec => ImplementsTournament`;
- `BreakdownStaysCurrent`: `Spec => []BreakdownFollowsRecord`.

The engine and the store are separated. For the engine, `RecordInv` collects what is true of every
record ever saved: strategies before the current turn are judged, later ones have not begun, the
ledger matches, acceptances are earned, winners and compatibility belong together. One lemma per
stage shows that the successor it computes keeps `RecordInv` and moves the tournament by at most
one step (`Succeeds`). For the store, `Past` says that a controller holds the stored record or one of
a smaller revision. Hence the one record that the comparison of revisions lets through was
computed from the stored one (`SaveKeeps`), and all races and crashes reduce to the sequential
engine. Without `Past` the invariant is not inductive: a controller could hold some other record
with the current revision. The breakdown is current by `LockInv`: whoever is inside the lock after a save
writes it before anybody else enters, so outside the lock it is made of the stored record, or a controller has died.

The second half is about the programs that campaigns are measured with, each with `Init /\ [][Next]` of its own:

- `ResultsAreEarned`: `CampaignResultsAreEarned` of the KV campaign, for any number of inputs, calls, kills and
  restarts, from `KVAssumption`, `SpeedsAssumption` and `NoFileAssumption`. `KVInv` says where an invocation is
  (`ToolOnItsWay`: a type without a result is measured, a second time only after a noisy first), that the documents it
  holds are of the inputs installed now (`DocumentsOfTheseInputs`), and what a type's files say of each
  other (`FilesOfTypes`: a result means stable samples that were written before), whichever invocation wrote them.
- `PortsAreHonest`: `PortsMeasureHonestly` of the ports, from `PortsAssumption` and `AbsentAssumption`. `PortsInv`
  orders the versions of an executable that is exchanged less than twice (`ExchangedOnce`), so that one that
  is the same at both ends of a call was so throughout. It knows whom a dead driver left behind (`SurvivorIsOrphaned`), binds
  a call to its identity (`CallIsBound`) and a profile to its approval (`CasesAreOfApproved`), and says that what
  stands at an output was there before, or is of this call or an orphan (`OutputIsOldOrOwn`, `SamplesSoFar`).
- `SnapshotsAreOfOneMoment`: `SnapshotIsOfOneMoment` of the model snapshot, for any directory and any number of
  changes, from `SnapshotAssumption` and `NothingAssumption`. The idea is that a stamp only goes stale: a file or directory
  whose stamp is still the one first seen has not changed in between. `SnapshotInvariant` says what an open capture
  knows while that holds (`CaptureIsSound`: the file read is the file opened and the file seen, and while the last
  look can still succeed, one moment is left at which all of them were there). The moment of the second listing is the manifest's. `QuietCapture` covers the
  capture that nobody disturbs, and `CampaignHasModel` what a created campaign rests on. The invariant does not hold if a
  conclusion is compared with the manifest now on disk, which four changes suffice to show: a capture elsewhere may
  replace it. It is compared with the one of that moment.
- `WhatIsMeasuredIsHonest`: `MeasurementsAreHonest` of `ToolsInit /\ [][ToolsNext]_toolvars`, the composition that
  the run `tools` explores; each program's steps leave the variables of the others alone.

**`VLLMWorkflow_proofs`** assumes `ConstantsAssumption` and proves, for any number of drivers, deaths of drivers,
servers that exit by themselves and files that drift,

- `ApprovalsAreTransportedOnce`: `Spec => OneTransportPerApproval`;
- `ClosureIsFinal`: `Spec => BudgetClosureIsFinal`;
- `RecordsStaySound`: every record that is stored or held is one the gates allow, and each save
  continues a stored record.

`IInv` has no relation between the record and the server, because with two drivers there is none. Its parts are `Shape` (what
is true of every record that any driver ever computed, whatever it was computed from), `Timed` (its clocks
are not ahead of the session's), `ServerInv`, `Drivers_Inv` (a driver that is not stale holds what is stored) and
`TransportInv`: an approval that is not yet spent is known to no receipt, one that is being spent to
one driver only. One transport per approval follows from the receipt, which one driver can create, not from the
revision, which is compared later.

The other four hold under `Sole`, the setting of `MCVLLMWorkflow.cfg`: at most one driver, which may die and be started
again, and a server that ends only when it is stopped. There the record can be tied to the server: `Linked` says what
the server's session is at each stage, `Evident` which session answered each measurement, and `ApprovalInv` that
nobody else spends the approval. From these follow `RecordStaysSound`, `GpuStaysExclusive`,
`EvidenceStaysOfOneServer` and `NextActionStaysHonest`. `Sole` is needed, not convenient: section 3 lists what two
drivers, or a server that exits, do to each of them.

**`ExperimentStore_proofs`** assumes `StoreAssumption`, `CastsAssumption` and `NullAssumption` (None is no
actor, number or bundle; every cast gives operations) and proves, for any number of processes and crashes,

- `FrozenInputsStay`: `Spec => FrozenStays`;
- `LockedWritersLoseNoEntry`: `Spec => LockedWritersLoseNothing`;
- `BundlesCanBeTrusted`: `Spec => []BundleCanBeTrusted`.

Each has its part of `IInv` beside the types of an operation at each of its steps. `FrozenInv`: a patch that was linked is the one
that is registered. `LockedInv`: who holds the lock replaces the manifest it read. For bundles, `DecisionInv` says that a decision
document is written once, so one that is gone never comes back; therefore what a summary says of an entry is that
entry, or the entry is gone (`SummaryShowsItsEntries`), and the second look at the files catches the latter. `RefreshInv` says that a
refresh that is alone has published what its steps say. `LocalKeeps` serves the steps that leave files
alone, `WriterKeeps` those that write, so that each action needs only what is its own.

**`ProcessGroup_proofs`** proves what the two holders of a lease, the command runner and the server adapter, promise. It assumes
`ProcessAssumption` and `ServerAssumption` (None is no number, driver, request or record; the bounds are natural
numbers) and holds for any number of processes, drivers, requests, servers, forks, reboots and crashes.

- First come lemmas that both holders share: what each step of the operating system and of a
  lease does to the facts of sessions (one spawn each, led by who has its number) and of identities (`KnownAs`: a pair
  of number and start ticks stands for one spawn, or for nothing any more).
- `CommandsStayClean`, `CommandSpec => []CommandsEndClean`. `CommandInv` says that the child is not
  reaped before it was identified (`ChildWaits`), so that its number cannot mean anybody else; that a scan lists all that
  can still fork into the session (`ListedAll`); and therefore that a cleanup which found nobody alive left nothing of
  the command but what a racing fork made (`CleanedMeansGone`). `OutcomeTold` carries that to the result the caller sees.
- `SignalsStay`, `Spec => []SignalsStayInSession`. A signal goes to the process behind a
  pidfd that was checked after it was opened, so its identity must be known. The identities in a lease are known
  because they were read in the session of a leader that was itself checked; a recorded server is known as
  long as `boot` is that of the record, and the adapter asks it before it opens a lease; a spawned one, because
  its driver has not reaped it. A reboot resets the ticks, which is why the invariant speaks of servers of this boot only.
- `StoppedStaysGone`, `Spec => []StoppedMeansGone`, and `ServersStayKnown`, `Spec => []ServersAreKnown`. `OInv` adds
  what one scan proves. The processes of a spawn that did not leave its session are in the session of its leader (`InSessionOf`),
  a scan lists all that can still fork into it (`ListedAll`), so when it finds none of them alive, none
  runs, and only a fork during the scan is missed (`raced`). Members that left are held by the lease
  until they end (`HeldByLease`). A server is spawned only when the recorded one is gone (`RecordedIsGone`).
  `BInv` adds that records, requests and counters stay in their types and bounds.

Without `SessionsLeaveTogether` and `LeadersStay` the step that opens a lease is not inductive: a leader that left
its own session would be found and the processes it left behind would not.

**`ExperimentLoop_proofs`** assumes `LoopAssumption` and `FailuresAssumption` (the bounds are natural numbers, targets are the
experiments and the baseline) and proves, for every task, any number of drivers, experiments and deeper profiles, and
any number of killed and overlapping drivers,

- `VerdictsAreEarned`: `Spec => []VerdictIsEarned`;
- `ApprovalsAreKept`: `Spec => []ProfilesAreAsApproved`;
- `WorkflowsAreSound`: `Spec => []WorkflowIsSound`;
- `EngineIsImplemented`: `Spec => WorkflowFollowsEngine`.

`IInv` has three layers, because the code promises different things to different schedules. Whatever overlaps and dies: the types
(`Typed`, with who can have which experiment at hand), the lock (`Locking`), one directory for each measurement beyond
the first (`AgainCounted`), and the profile and quality behind what is judged (`ProfilesTaken`, `Accepted`). While drivers do not
overlap, killed or not, `AloneInv`: the driver works on the stored record at the stages its next call is for
(`Works`), so no save undoes another's and each is a step of the engine; verdicts come in the order of the experiments (`Judged`);
a receipt is consumed before its one call (`Paid`). Without any interruption, `UndisturbedInv`: the execution a driver
carries resolves to what the files say (`Executes`, `Resumes`), the rerun and the pair move both, a record at rest can be
resumed (`Rested`), and a request for a deeper profile is open or answered (`Answered`). None of the layers is inductive without the one
before it; the last two cannot be stated without their hypotheses, as section 3 shows. `Drive` is taken apart action by
action for the driver that moves; `Others` covers the drivers that do not.

Only model-checked:

- liveness (`BudgetEndsTask`, `EveryAttemptEnds`, `ExperimentIsJudged`, `CampaignCompletes`), which needs fairness
  and `ENABLED`;
- of `TechniquesAreJudgedRight`: the drift of arms, the bound of the memory audit, the accounting of policies, the Pareto
  front, the grouping, sources and attribution of kernels, the kernel's maximum and the disassembly. They fold over
  sequences or take extrema of sets, which is induction over data. Its other parts are laws, see the table;
- of `EvidenceIsOfTheApproved`: the import of artifacts, the recorded profile, the health of the server and the
  samples of a benchmark; of `CoordinatesAreLocked`: configuration, decision and the environment's identity. They
  parse sequences of arguments or sort listings. Their other parts are laws, see the table;
- `QualityEvidenceIsUnderstood`: the parser of a log, the selection and McNemar's test are recursive.

## 5. What is not modelled

- the contents of evidence: hashing, trace databases, package metadata, `/proc` and `amd-smi` output,
  rendering, configuration files. Identities enter as values, and a check as the comparison it makes;
- floating point: percentages and statistics are exact here, while the code computes them in doubles
  ((1.15 - 1) * 100 is below 15). `PROJECT.json` lists this as a hazard without a property;
- llama.cpp execution (commands and parsers), the importers of external evidence, the control-plane UI (a
  read-only projection with a table of drafts), planning and adapters of the campaign, argument parsing:
  no protocol state, or data conversion whose result enters the models as a value;
- in `ExperimentLoop`, a decision submitted between the save of a profile's stage and the mark of its request as
  fulfilled (`live.py:2023-2036`), which would be replaced by the mark: the two writes are one step (`SaveHotspots`);
- in `DeviceObservation`, the normalisation of UUIDs, and the comparison of the telemetry command's hash at both ends of a
  window: both ends ask with one port and configuration;
- operations without a caller: the adapter's `health()`, `finalize_existing_raw_profile`;
- in `Campaign`, the engine's defaults for an empty selection, which its only caller never uses: it
  always passes the documents;
- file-system and kernel failures: a single write is atomic and durable (`os.replace` with `fsync`), `flock`
  excludes and ends with its holder, no two changes of a file have the same stamp;
- one-shot preparation scripts and the HIP microbenchmarks.

## 6. Plan

Done, in this order: `WorkflowEngine`; `GateEngine` and `GatedExperiment`; `VLLMWorkflow`; `QualityExecution` with
`AttemptLedger`; `Campaign` with `Tournament`; `ExperimentLoop` with `ProfileApproval`; `ProcessGroup`, `VLLMServer`,
`CommandRunner`; `ExperimentStore`; the tools and ports; the pure functions; `ModelSnapshot`; and proofs about every
module with a state, and about those pure functions that do not fold over data.

Left, the most useful first:

1. `VLLMWorkflow`'s `server` as an abstract specification that `VLLMServer` implements;
2. the composition of `ExperimentLoop` with `QualityExecution`, where it takes now only the outcome of an
   evaluation;
3. the parsers of external evidence, as far as their results decide about acceptance.
