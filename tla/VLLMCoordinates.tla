---------------------------- MODULE VLLMCoordinates ----------------------------
(***************************************************************************)
(* What a vLLM campaign pins and what an experiment may change of it: the  *)
(* validation of a configuration (vllm_models.py), the change policy       *)
(* (change_policy.py, models.py), the acceptance of the agent's decision   *)
(* (vllm_workflow.py), the server request that is made of both             *)
(* (vllm_workflow.py, vllm_adapter.py) and the command of its benchmark    *)
(* (vllm_ports.py).                                                        *)
(*                                                                         *)
(* An element of a command line is a token: a word, and for --name=value   *)
(* the word --name bound to the value.  A hash is the content it digests.  *)
(***************************************************************************)
EXTENDS Sequences, FiniteSets, Naturals, SequencesExt, Functions, TLC, Refusals

CONSTANT EngineArity    \* the options that the engine knows, with the number of their values

Options == DOMAIN EngineArity

Word(word) == [word |-> word, bound |-> ""]
Bound(word, value) == [word |-> word, bound |-> value]

Dashed(token) == token.word \in Options \cup {"-", "--"}

\* _argv_option_values: a token that is the value of another option counts too.
OptionValues(argv, names) ==
  LET value(i) == IF argv[i].bound # "" THEN Word(argv[i].bound)
                  ELSE IF i < Len(argv) THEN argv[i + 1] ELSE Word("")
  IN  [n \in 1 .. Cardinality({ i \in DOMAIN argv : argv[i].word \in names }) |->
         value(CHOOSE i \in DOMAIN argv :
                 /\ argv[i].word \in names
                 /\ Cardinality({ j \in 1 .. i : argv[j].word \in names }) = n)]

\* _require_exact_argv_option
BindsExactly(argv, names, value) == OptionValues(argv, names) = << Word(value) >>

BindsOptionally(argv, names, value) ==
  OptionValues(argv, names) = IF value = Unknown THEN << >> ELSE << Word(value) >>

NamesOf(option) ==
  CASE option = "--tensor-parallel-size" -> {option, "-tp"}
    [] option = "--quantization"         -> {option, "-q"}
    [] option \in {"--input-len", "--random-input-len"} -> {"--input-len", "--random-input-len"}
    [] option \in {"--output-len", "--random-output-len"} -> {"--output-len", "--random-output-len"}
    [] OTHER -> {option}

-----------------------------------------------------------------------------
(* VLLMCampaignConfig.validate_v0_coordinates                              *)

RuntimeIsPinned(runtime) ==
  /\ {"python_version", "pytorch_version", "rocm_version"} \subseteq runtime.bound
  /\ runtime.deployment = "native" /\ "executable_sha256" \in runtime.bound
  /\ runtime.interpreter
  /\ ("image" \in runtime.bound) = ("image_digest" \in runtime.bound)

\* The same coordinate of the task and of the model, device and serving protocol.
TaskMatchesServing(config) ==
  /\ config.task = config.protocol
  /\ ~config.taskModelHash

ServerPrefix == << Word("python"), Word("-I"), Word("-m"), Word("vllm.entrypoints.openai.api_server") >>

ServerBindings == { "--model", "--served-model-name", "--tensor-parallel-size", "--dtype", "--host", "--port" }

ServerArgvBinds(config) ==
  /\ config.launcher = [kind |-> "python_module", name |-> "vllm.entrypoints.openai.api_server", hashed |-> TRUE]
  /\ IsPrefix(ServerPrefix, config.serverArgv)
  /\ \A option \in ServerBindings : BindsExactly(config.serverArgv, NamesOf(option), config.server[option])
  /\ BindsOptionally(config.serverArgv, NamesOf("--quantization"), config.quantization)

BenchmarkPrefix ==
  << Word("python"), Word("-I"), Word("-m"), Word("vllm.entrypoints.cli.main"), Word("bench"), Word("serve") >>

BenchmarkBindings ==
  { "--base-url", "--backend", "--endpoint", "--dataset-name", "--max-concurrency", "--input-len",
    "--output-len", "--num-prompts", "--seed", "--model" }

BenchmarkArgvBinds(config) ==
  /\ IsPrefix(BenchmarkPrefix, config.benchmarkArgv)
  /\ \A i \in DOMAIN config.benchmarkArgv :
       config.benchmarkArgv[i].word \notin {"--save-result", "--result-dir", "--result-filename"}
  /\ \A option \in BenchmarkBindings :
       BindsExactly(config.benchmarkArgv, NamesOf(option), config.benchmark[option])

RequiredLocks ==
  { "image_digest", "model_snapshot_digest", "model_revision", "tokenizer_revision", "gpu_device_identity",
    "gpu_partition", "dtype", "quantization", "tensor_parallel_size", "benchmark_protocol",
    "runtime_environment" }

\* Mutant: the short names of the locked options are forgotten.
LockedOptions_AliasesForgotten ==
  { "--model", "--served-model-name", "--tensor-parallel-size", "--dtype", "--quantization", "--host", "--port" }

LockedOptions ==
  { "--model", "--served-model-name", "--tensor-parallel-size", "-tp", "--dtype", "--quantization", "-q",
    "--host", "--port" }

PolicyLocks(config) ==
  /\ RequiredLocks \subseteq config.policy.locked
  /\ config.policy.kinds = {"runtime_config"}
  /\ config.policy.allowed \cap LockedOptions = {}
  /\ \A flag \in config.policy.allowed : OptionValues(config.serverArgv, {flag}) = << >>

\* The variables that a server must not inherit.
ClearedVariables ==
  { "HIP_VISIBLE_DEVICES", "HSA_VISIBLE_DEVICES", "CUDA_VISIBLE_DEVICES", "GPU_DEVICE_ORDINAL",
    "HSA_OVERRIDE_GFX_VERSION", "PYTHONHOME", "PYTHONPATH", "PYTHONSTARTUP" }

DeviceIsIsolated(config) ==
  /\ {"ROCR_VISIBLE_DEVICES", "PYTHONNOUSERSITE"} \subseteq DOMAIN config.env
  /\ config.env["ROCR_VISIBLE_DEVICES"] = config.protocol["device"] /\ config.env["PYTHONNOUSERSITE"] = "1"

EnvironmentIsClear(config) ==
  /\ ClearedVariables \cap (DOMAIN config.env \cup DOMAIN config.mcpEnv) = {}
  /\ "PYTHONNOUSERSITE" \in DOMAIN config.mcpEnv /\ config.mcpEnv["PYTHONNOUSERSITE"] = "1"

\* environment_coordinates
EnvironmentCoordinates(config) ==
  [ gpu_device |-> config.protocol["device"], versions |-> config.runtime.bound,
    model |-> config.server["--model"], dtype |-> config.server["--dtype"],
    quantization |-> config.quantization, tensor_parallel_size |-> config.server["--tensor-parallel-size"],
    serving_protocol |-> << config.serverArgv, config.benchmarkArgv, config.env >> ]

GatesAreStrict(config) ==
  /\ config.gates.correctness /\ config.gates.quality /\ config.gates.fresh /\ config.gates.stable
  /\ DOMAIN EnvironmentCoordinates(config) \subseteq config.gates.matched

\* VLLMProfileProtocol.validate_mode: bound names what the protocol gives.
ProfileIsDeclared(profile) ==
  IF profile.mode = "unavailable"
  THEN profile.bound = {"reason"} /\ profile.environment = "unavailable"
  ELSE /\ profile.bound = {"argv", "cwd", "launcher", "launcher_sha256", "environment_manifest"}
       /\ profile.environment # "unavailable"

ProfileBinds(config) ==
  config.profile.mode = "offline_one_shot" =>
    /\ config.profile.environment =
         IF "image_digest" \in config.runtime.bound THEN "same_container" ELSE "native"
    /\ config.profile.official
    /\ config.profile.workload =
         [ model |-> config.server["--model"], dtype |-> config.server["--dtype"],
           quantization |-> config.quantization, input |-> config.benchmark["--input-len"],
           output |-> config.benchmark["--output-len"], prompts |-> config.benchmark["--num-prompts"],
           seed |-> config.benchmark["--seed"] ]

\* ChangePolicy.validate_runtime_argument_policy
PolicyIsCanonical(policy) ==
  policy.allowed \subseteq Options \ {"-", "--"} /\ DOMAIN policy.arity \subseteq policy.allowed

ValidCoordinates(config) ==
  /\ PolicyIsCanonical(config.policy) /\ ProfileIsDeclared(config.profile)
  /\ RuntimeIsPinned(config.runtime) /\ TaskMatchesServing(config)
  /\ ServerArgvBinds(config) /\ DeviceIsIsolated(config) /\ BenchmarkArgvBinds(config)
  /\ PolicyLocks(config) /\ EnvironmentIsClear(config) /\ GatesAreStrict(config) /\ ProfileBinds(config)

-----------------------------------------------------------------------------
(* The change of an experiment                                             *)

\* ChangeSet.validate_kind
ChangeIsWellFormed(change) ==
  /\ change.kind = "source_patch" => change.patch
  /\ change.modelFields \in {{}, {"path", "sha256", "quantization"}}
  /\ change.modelFields # {} => change.kind = "runtime_config"
  /\ change.kind = "runtime_config" =>
       DOMAIN change.env # {} \/ change.unset # {} \/ change.modelFields # {} \/ change.args # << >>
  /\ DOMAIN change.env \cap change.unset = {}

\* _runtime_flag_names: an option whose arity is not declared takes one value, and
\* a value may be any text.
RuntimeFlagNames(args, arity) ==
  LET takes(flag) == IF flag \in DOMAIN arity THEN arity[flag] ELSE 1
      step(state, token) ==
        IF state = Refused THEN Refused
        ELSE IF state.awaited THEN [state EXCEPT !.awaited = FALSE]
        ELSE IF token.bound # "" \/ ~Dashed(token) \/ token.word \in {"-", "--"} THEN Refused
        ELSE [flags |-> Append(state.flags, token.word), awaited |-> takes(token.word) = 1]
      read == FoldLeft(step, [flags |-> << >>, awaited |-> FALSE], args)
  IN  IF read = Refused THEN Refused
      ELSE IF read.awaited \/ ~IsInjective(read.flags) THEN Refused
      ELSE read.flags

\* validate_experiment_change
ChangeIsAllowed(policy, change) ==
  LET flags == RuntimeFlagNames(change.args, policy.arity)
  IN  /\ change.kind \in policy.kinds
      /\ change.modelFields # {} => policy.locked \cap {"model_sha256", "model_path", "quantization"} = {}
      /\ change.kind = "source_patch" => "binary_sha256" \notin policy.locked
      /\ "runtime_environment" \in policy.locked => DOMAIN change.env = {} /\ change.unset = {}
      /\ flags # Refused /\ Range(flags) \subseteq policy.allowed

\* The guards of record_agent_decision, after those of its stage and budget.
AcceptsDecision(config, known, decision) ==
  LET spec   == decision.experiment
      kept   == DOMAIN config.env \ spec.change.unset
  IN  /\ ChangeIsWellFormed(spec.change) /\ spec.change.kind = "runtime_config"
      /\ spec.benchmarkArgv = config.benchmarkArgv
      /\ spec.serverArgv = config.serverArgv \o spec.change.args
      /\ spec.env = spec.change.env @@ [name \in kept |-> config.env[name]]
      /\ spec.change.modelFields = {} /\ DOMAIN spec.change.env = {} /\ spec.change.unset = {}
      /\ decision.evidence \cup decision.observed \subseteq known
      /\ ChangeIsAllowed(config.policy, spec.change)

-----------------------------------------------------------------------------
(* The request of a server and the command of its benchmark                *)

Baseline == [id |-> "baseline", change |-> Unknown]

\* build_server_spec.  experiment is Baseline or an experiment.
ServerRequest(config, experiment) ==
  [ argv |-> IF experiment = Baseline THEN config.serverArgv ELSE experiment.serverArgv,
    env |-> IF experiment = Baseline THEN config.env ELSE experiment.env,
    unset |-> ClearedVariables, digests |-> config.runtime.bound, server |-> config.server,
    quantization |-> config.quantization,
    config |-> [ campaign |-> << config.protocol, config.serverArgv, config.benchmarkArgv, config.env >>,
                 experiment |-> experiment.id, change |-> experiment.change ] ]

\* VLLMServerSpec.__post_init__
RequestIsValid(request) ==
  /\ IsPrefix(ServerPrefix, request.argv)
  /\ "executable_sha256" \in request.digests
  /\ "PYTHONNOUSERSITE" \in DOMAIN request.env /\ request.env["PYTHONNOUSERSITE"] = "1"
  /\ request.unset \cap DOMAIN request.env = {} /\ ClearedVariables \subseteq request.unset
  /\ request.server["--host"] # "host/path"

\* The identity of a run is what its server runs; its hash is the request's.
RunIdentity(request) ==
  [ image |-> "image_digest" \in request.digests, runtime |-> request.digests, model |-> request.server["--model"],
    config |-> << request.argv, request.config, request.env, request.unset, request.server, request.quantization >> ]

BuildServerSpec(config, experiment) ==
  LET request == ServerRequest(config, experiment)
  IN  IF RequestIsValid(request) THEN RunIdentity(request) ELSE Refused

\* materialize_bench_serve_argv
MaterializeBenchServe(argv, destination) ==
  LET warmups == OptionValues(argv, {"--num-warmups"})
      has(option) == \E i \in DOMAIN argv : argv[i] = Word(option)
      unless(option) == IF has(option) THEN << >> ELSE << Word(option) >>
  IN  IF \/ warmups \notin {<< >>, << Word("3") >>}
         \/ \E option \in {"--result-dir", "--result-filename"} : OptionValues(argv, {option}) # << >>
         \/ Cardinality({ i \in DOMAIN argv : argv[i] = Word("--save-result") }) > 1
      THEN Refused
      ELSE argv \o unless("--save-result") \o unless("--save-detailed") \o unless("--disable-tqdm")
                \o << Word("--result-dir"), Word("results"), Word("--result-filename"), Word(destination) >>

-----------------------------------------------------------------------------
(* The engine                                                              *)

\* What the engine's command line parser binds each option to.  The last binding
\* counts, an option is never taken for a value and a switch has no value.
EngineReads(argv) ==
  LET named(word) == CHOOSE option \in ServerBindings \cup BenchmarkBindings \cup {"--quantization", word} :
                       NamesOf(option) = NamesOf(word) \/ word \in NamesOf(option)
      step(state, token) ==
        IF state = Refused THEN Refused
        ELSE IF state.awaited # ""
        THEN IF Dashed(token) THEN Refused
             ELSE [options |-> (named(state.awaited) :> token.word) @@ state.options, awaited |-> ""]
        ELSE IF token.word \notin Options THEN Refused
        ELSE IF token.bound # ""
        THEN IF EngineArity[token.word] = 0 THEN Refused
             ELSE [state EXCEPT !.options = (named(token.word) :> token.bound) @@ @]
        ELSE IF EngineArity[token.word] = 0
        THEN [state EXCEPT !.options = (token.word :> "on") @@ @]
        ELSE [state EXCEPT !.awaited = token.word]
      read == FoldLeft(step, [options |-> << >>, awaited |-> ""], argv)
  IN  IF read = Refused THEN Refused ELSE IF read.awaited # "" THEN Refused ELSE read.options

-----------------------------------------------------------------------------
(***************************************************************************)
(* Properties.                                                             *)
(***************************************************************************)

AritiesAreTheEngines(policy) ==
  \A flag \in policy.allowed :
    EngineArity[flag] = IF flag \in DOMAIN policy.arity THEN policy.arity[flag] ELSE 1

\* An experiment that is accepted changes no locked coordinate of its campaign: as
\* the engine reads its command line, every option but the ones it was allowed to
\* add is bound as the baseline's is, and its server is another request than the
\* baseline's.  A command line that the engine refuses runs nothing.  The policy
\* declares the arities that the engine has.
CandidateKeepsCoordinates(config, known, decision) ==
  LET candidate == EngineReads(SubSeq(decision.experiment.serverArgv, Len(ServerPrefix) + 1,
                                      Len(decision.experiment.serverArgv)))
      baseline  == EngineReads(SubSeq(config.serverArgv, Len(ServerPrefix) + 1, Len(config.serverArgv)))
  IN  ValidCoordinates(config) /\ AritiesAreTheEngines(config.policy) /\ AcceptsDecision(config, known, decision)
      => /\ candidate # Refused =>
              /\ baseline # Refused
              /\ \A option \in ServerBindings : candidate[option] = config.server[option]
              /\ config.quantization # Unknown => candidate["--quantization"] = config.quantization
              /\ DOMAIN candidate \ DOMAIN baseline \subseteq config.policy.allowed
              /\ DOMAIN candidate # DOMAIN baseline
              /\ \A option \in DOMAIN baseline : candidate[option] = baseline[option]
         /\ BuildServerSpec(config, Baseline) # Refused =>
              BuildServerSpec(config, decision.experiment) \notin {Refused, BuildServerSpec(config, Baseline)}

\* A configuration that is accepted can be run: its server and each benchmark can be
\* made of it, the benchmark sends what is configured to the server that was
\* started and writes to its own file.  Only a host that is a path and an ill-formed
\* number of warmups are found later.
ValidCampaignCanRun(config, destination) ==
  LET command == MaterializeBenchServe(config.benchmarkArgv, destination)
      read    == EngineReads(SubSeq(command, Len(BenchmarkPrefix) + 1, Len(command)))
  IN  ValidCoordinates(config) =>
        /\ (BuildServerSpec(config, Baseline) = Refused) <=> config.server["--host"] = "host/path"
        /\ command = Refused <=> OptionValues(config.benchmarkArgv, {"--num-warmups"}) \notin {<< >>, << Word("3") >>}
        /\ command # Refused /\ read # Refused =>
             /\ \A option \in BenchmarkBindings : read[option] = config.benchmark[option]
             /\ read["--result-filename"] = destination /\ read["--save-result"] = "on"
=============================================================================
