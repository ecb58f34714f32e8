------------------------------ MODULE MCSamples ------------------------------
(***************************************************************************)
(* Samples of the inputs of the pure functions, and what their results are *)
(* meant to be.                                                            *)
(***************************************************************************)
EXTENDS KVCache, MixedPrecision, TechniqueGates, KernelEvidence, ProfileProvenance, ServerEvidence,
        VLLMCoordinates, DeviceObservation, TLC

VARIABLE sample

NoSample == [family |-> "none"]

Of(family) == sample.family = family

-----------------------------------------------------------------------------
(* What plans and judges optimization techniques.                          *)

DrawCacheSpeeds ==
  LET speeds == [Depths -> {90, 97, 100, 105}]
  IN  \E quantized \in speeds, faster \in speeds :
        sample' = [family |-> "cache", baseline |-> [d \in Depths |-> 100], candidate |-> quantized,
                   faster |-> faster]

DrawCacheDepth == \E depth \in {1, 32, 1000, 4096} : sample' = [family |-> "depth", depth |-> depth]

DrawPlan ==
  \E model, context \in {28799, 28800, 40960}, minimum \in {1, 28800}, types \in SUBSET Types :
    sample' = [family |-> "plan", geometry |-> [QwenGeometry EXCEPT !.context = model],
               runtime |-> [context |-> context, minimumDepth |-> minimum, types |-> types,
                            flashAttention |-> TRUE]]

Tensor(t, protected, fixed) ==
  [ group |-> IF t = 4 THEN "output" ELSE "ffn", protected |-> t = protected,
    quantizable |-> t # fixed, precision |-> "F16", elements |-> 10 * t, bytes |-> 7 * t ]

DrawTiers ==
  \E rated \in {{1, 2, 3, 4}, {1, 2, 3}, {1, 2}}, protected, fixed \in {0, 1, 4}, q4, q5 \in {0, 25, 50, 75} :
    \E scores \in [rated -> 1 .. 3] :
      /\ q4 + q5 <= 100
      /\ sample' = [family |-> "tiers", scores |-> scores,
                    inventory |-> [t \in 1 .. 4 |-> Tensor(t, protected, fixed)],
                    point |-> [id |-> "tier", groups |-> {"ffn"}, q4 |-> q4, q5 |-> q5]]

Candidate(id, m, ok) ==
  [ id |-> id, tg128 |-> m[1], tg512 |-> m[2], ppl |-> m[3], bpw |-> m[4], bytes |-> 10, accuracy |-> 50,
    stable |-> ok, quality |-> TRUE ]

DrawPareto ==
  \E a, b, c \in [1 .. 4 -> {1, 2}], ok \in BOOLEAN :
    sample' = [family |-> "pareto", results |-> {Candidate(1, a, TRUE), Candidate(2, b, TRUE), Candidate(3, c, ok)}]

GraphSpec == [maxSamples |-> 12, maxCv |-> 2, material |-> 2, regression |-> 1]

DrawGraphs ==
  \E deltas, widths \in [RequiredMetrics -> -3 .. 3], cv \in {1, 3}, count \in {7, 13} :
    /\ \A n \in RequiredMetrics : widths[n] \in {0, 1, 3}
    /\ sample' = [family |-> "graphs", metrics |->
                    [n \in RequiredMetrics |->
                       [count |-> count, delta |-> deltas[n], low |-> deltas[n] - widths[n],
                        high |-> deltas[n] + widths[n], cv |-> IF n = "tg512" THEN cv ELSE 1]]]

DrawArms == \E pairs \in 7 .. 12 : sample' = [family |-> "arms", pairs |-> pairs]

Costs == {1, 5, Unknown}

UpToOne(items) == {<< >>} \cup { << i >> : i \in items }

Lifetime(id, reusable, ns, first) == [id |-> id, reusable |-> reusable, ns |-> ns, first |-> first, last |-> first + 3]

DrawAudit ==
  \E count \in {1, 2}, steady \in {TRUE, Unknown}, complete \in BOOLEAN, x, y \in Costs,
     back \in {"a", Unknown}, start \in {2, 4} :
    \E allocations \in UpToOne({ [count |-> count, steady |-> steady, ns |-> ns] : ns \in Costs }),
       copies \in UpToOne({ [count |-> 1, steady |-> steady, ns |-> ns] : ns \in Costs }),
       traffic \in UpToOne({ [dependent |-> steady, sized |-> TRUE, ns |-> ns] : ns \in Costs }),
       lifetimes \in {<< >>, << Lifetime("a", "b", x, 1), Lifetime("b", back, y, start + 1) >>} :
      /\ LifetimesAreConsistent(lifetimes)
      /\ sample' = [family |-> "audit",
                    trace |-> [ succeeded |-> TRUE, complete |-> complete, isolated |-> TRUE, coverage |-> 100,
                                missing |-> {}, e2e |-> 100, allocations |-> allocations, copies |-> copies,
                                traffic |-> traffic, lifetimes |-> lifetimes ]]

DrawProfile ==
  \E status \in {"completed", "failed"}, warnings, copyBytes \in BOOLEAN, exit \in {0, 1}, n \in {0, 1},
     copies, allocations \in UpToOne({ [count |-> 2, steady |-> TRUE, ns |-> ns] : ns \in Costs }) :
    sample' = [family |-> "profile",
               profile |-> [ status |-> status, warnings |-> warnings, copyBytes |-> copyBytes, exit |-> exit,
                             copyCount |-> n, allocationCount |-> n, copies |-> copies, allocations |-> allocations ]]

Arm(latency, memory, operations, tg128, tg512) ==
  [latency |-> latency, memory |-> memory, operations |-> operations, tg128 |-> tg128, tg512 |-> tg512]

DrawPatch ==
  \E latency \in {Unknown, 9, 10}, memory \in {Unknown, 0, 95, 96}, base \in {0, 100}, operations \in {1, 2},
     tg128, tg512 \in {98, 99, 100} :
    sample' = [family |-> "patch", after |-> Arm(latency, memory, operations, tg128, tg512),
               before |-> Arm(IF latency = Unknown THEN Unknown ELSE 10,
                              IF memory = Unknown THEN Unknown ELSE base, 2, 100, 100)]

DrawKernel ==
  \E rows \in {16, 32, 40}, measured \in {5, 20, 40}, share \in {0, 30, 100}, bandwidth \in {20, 50},
     achieved \in 1 .. 40 :
    sample' = [family |-> "kernel", shape |-> [rows |-> rows, columns |-> 32, matrices |-> 2],
               measured |-> measured, share |-> share, bandwidth |-> bandwidth, achieved |-> achieved]

Screened(waves, marked, verified, cv, mean) ==
  [waves |-> waves, paired |-> marked, q3 |-> marked, verified |-> verified, cv |-> cv, mean |-> mean]

DrawScreen ==
  \E waves \in {4, 8}, marked, verified \in BOOLEAN, cv, other \in {1, 3}, mean, faster \in 99 .. 103 :
    sample' = [family |-> "screen", baseline |-> Screened(waves, FALSE, TRUE, other, 100),
               candidate |-> Screened(4, marked, verified, cv, mean), faster |-> faster]

DrawPromotion ==
  \E error, cv, tg \in 0 .. 2, gain \in 0 .. 3, reduction \in {0, 1}, profiled, correct \in BOOLEAN,
     ns \in {9, 10}, extra \in {1, 2, 3} :
    sample' = [family |-> "promotion",
               result |-> [error |-> error, cv |-> cv, gain |-> gain, reduction |-> reduction],
               evidence |-> [ profiled |-> profiled, correct |-> correct, tg128 |-> tg, tg512 |-> 1,
                              baselineNs |-> 10, candidateNs |-> ns, extra |-> extra, total |-> 100 ]]

Launched == { [id |-> 1, name |-> "a", launch |-> 1], [id |-> 1, name |-> "a", launch |-> 2],
              [id |-> Unknown, name |-> "b", launch |-> 1] }

Row(key, count, total, average, share) ==
  [ id |-> key.id, name |-> key.name, launch |-> key.launch, count |-> count,
    total |-> total, average |-> average, us |-> Unknown, share |-> share ]

DrawRows ==
  \E n \in 1 .. 3 : \E keys \in [1 .. n -> Launched], counts \in [1 .. n -> 0 .. 2],
                      times \in [1 .. n -> {<< 5, Unknown >>, << Unknown, 3 >>, << Unknown, Unknown >>}] :
    sample' = [family |-> "rows",
               rows |-> [i \in 1 .. n |-> Row(keys[i], counts[i], times[i][1], times[i][2], 10)]]

DrawTrace ==
  \E n \in 1 .. 3 : \E keys \in [1 .. n -> Launched], ends \in [1 .. n -> {0, 4, 6}] :
    sample' = [family |-> "trace",
               rows |-> [i \in 1 .. n |-> [ id |-> keys[i].id, name |-> keys[i].name, launch |-> keys[i].launch,
                                            start |-> 1, end |-> ends[i] ]]]

Rules == { [names |-> names, id |-> id, launch |-> launch, coordinate |-> c] :
             names \in {{"a"}, {"a", "b"}}, id \in {Unknown, 1}, launch \in {Unknown, 1}, c \in {"gate", "attention"} }

DrawAttribution ==
  \E keys \in [1 .. 2 -> Launched], counts \in [1 .. 2 -> {0, 1}], first, second, another \in Rules :
    /\ first.coordinate = "gate"
    /\ sample' = [family |-> "attribution", rules |-> << first, second >>, another |-> another,
                  rows |-> [i \in 1 .. 2 |-> Row(keys[i], counts[i], 5, Unknown, 50 * i)]]

Lines == { [label |-> TRUE, text |-> "own"], [label |-> TRUE, text |-> "other"] }
           \cup { [label |-> FALSE, text |-> op] : op \in {"v_mfma", "v_wmma", "v_add"} }

DrawDisassembly ==
  \E n \in 1 .. 4 : \E lines \in [1 .. n -> Lines], share \in {4, 5}, recoverable \in {Unknown, 1, 2},
                      complete \in BOOLEAN :
    sample' = [family |-> "disassembly", lines |-> lines, share |-> share, recoverable |-> recoverable,
               complete |-> complete]

DrawTechnique ==
  \/ DrawCacheSpeeds \/ DrawCacheDepth \/ DrawPlan
  \/ DrawTiers \/ DrawPareto
  \/ DrawGraphs \/ DrawArms \/ DrawAudit \/ DrawProfile \/ DrawPatch
  \/ DrawKernel \/ DrawScreen \/ DrawPromotion
  \/ DrawRows \/ DrawTrace \/ DrawAttribution \/ DrawDisassembly

\* The techniques are planned and judged as they are meant to be.  The gate of a
\* quantized cache follows its speed, its two byte counts agree, and a campaign is
\* planned exactly when it fits.  Mixed precision takes bits from the least
\* sensitive tensors, accounts for every element and selects by Pareto dominance.
\* The gates of HIP graphs, memory reuse and packed kernels decide nothing from
\* evidence that is lost or unstable, and better evidence never costs a verdict.
\* Kernel evidence loses no dispatch, and attributes shapes and instructions exactly.
TechniquesAreJudgedRight ==
  /\ Of("cache") => FasterStillPasses(sample.baseline, sample.candidate, sample.faster)
  /\ Of("depth") => CacheBytesAgree(sample.depth)
  /\ Of("plan") => PlannedDepthsFit(sample.geometry, sample.runtime)
  /\ Of("tiers") => /\ SensitiveTensorsKeepBits(sample.inventory, sample.scores, sample.point)
                    /\ AccountingAddsUp(sample.inventory, {"ffn"})
  /\ Of("pareto") => ParetoIsJust(sample.results)
  /\ Of("graphs") => BenefitIsReal(GraphSpec, sample.metrics, 1)
  /\ Of("arms") => ArmsShareDrift(sample.pairs)
  /\ Of("audit") => AuditIsBounded(sample.trace, 2, 1)
  /\ Of("profile") => LossyProfilesDecideNothing(sample.profile, 100, 2)
  /\ Of("patch") => BetterPatchStillPasses(sample.before, sample.after)
  /\ Of("kernel") => MaximumIsAMaximum(sample.shape, [tileRows |-> 16, groupWeights |-> 32, tileBytes |-> 100],
                                       sample.measured, sample.share, sample.bandwidth, sample.achieved)
  /\ Of("screen") => ScreensAreFair(sample.baseline, sample.candidate, sample.faster)
  /\ Of("promotion") => PromotionIsMonotone(sample.result, sample.evidence,
                                            [tg128 |-> 1, tg512 |-> 1, vram |-> 2])
  /\ Of("rows") => GroupsConserveDispatches(sample.rows)
  /\ Of("trace") => SourcesAgree(sample.rows)
  /\ Of("attribution") => AttributionIsExact(sample.rows, sample.rules, sample.another)
  /\ Of("disassembly") => ClaimsAreOfTheKernel(sample.lines, "own", sample.share, sample.recoverable, sample.complete)

-----------------------------------------------------------------------------
(* What binds evidence to what was configured and approved.                *)

Host == Configured @@ [visible |-> 0, clean |-> TRUE, container |-> Unknown]

\* A host that differs in one thing at most.
Hosts == {Host} \cup { [Host EXCEPT ![c] = 1] : c \in {"python", "packages", "launcher", "model", "visible"} }
               \cup { [Host EXCEPT !.clean = FALSE] }

Offline == [prefix |-> "official", serving |-> 0, conflicting |-> FALSE, outputs |-> << >>]

Offlines == { Offline, [Offline EXCEPT !.serving = 1], [Offline EXCEPT !.conflicting = TRUE],
              [Offline EXCEPT !.prefix = "other"], [Offline EXCEPT !.outputs = << 2 >>] }

Another == [ attempt |-> 2, python |-> "another", isolated |-> FALSE, launcherPath |-> "another",
             environment |-> << 1, 0 >>, model |-> 1, sidecars |-> << 1, 2 >>, offline |-> Offline ]

\* The command as it was made, or with one part changed.
CommandsOf(made, offline) ==
  LET command == MaterializeVllmProfileCommand(made, offline, 1, {})
  IN  IF command = Refused THEN {Refused}
      ELSE {command} \cup { [command EXCEPT ![part] = Another[part]] : part \in DOMAIN Another }

FilesOf(command) ==
  IF command = Refused THEN {Refused}
  ELSE {command.coordinate, [command.coordinate EXCEPT !.device = 1], [command.coordinate EXCEPT !.launcher = 1]}

DrawLaunch ==
  \E made, launched \in Hosts, offline \in Offlines, existing \in {{}, {1}, {2}} :
    \E command \in CommandsOf(made, offline) : \E file \in FilesOf(command) :
      sample' = [family |-> "launch", made |-> made, launched |-> launched, offline |-> offline,
                   command |-> command, file |-> file, existing |-> existing]

\* Privacy has replaced a component of the name 3.
Entries == { [name |-> name, context |-> context, redacted |-> name = 3, size |-> size, content |-> 5] :
               name \in {1, 2, 3}, context \in BOOLEAN, size \in {1, 2} }

DrawImport ==
  \E n \in 0 .. 3, files \in 0 .. 2, bytes \in 1 .. 3 :
    \E manifest \in [1 .. n -> Entries],
       case \in SUBSET { [name |-> name, size |-> size, content |-> 5] : name \in {1, 2, 4}, size \in {1, 2} } :
      /\ \A i, j \in 1 .. n : i < j => manifest[i].name <= manifest[j].name
      /\ \A i \in 2 .. n : ~manifest[i].context
      /\ \A f, g \in case : f.name = g.name => f = g
      /\ sample' = [family |-> "import", manifest |-> manifest, case |-> case,
                      budget |-> [files |-> files, bytes |-> bytes]]

\* The documents of a run of an attempt on a host.
DocumentsOf(command, host) ==
  LET context == << command, host.device, host.visible, host.clean >>
      runtime == [ run |-> command.attempt, verified |-> TRUE, python |-> host.python,
                   environment |-> << host.python, host.packages >>, launcher |-> host.launcher,
                   exact |-> host.clean, visible |-> host.visible, container |-> host.container, image |-> host.image ]
      metrics == [requests |-> host.serving, rate |-> command.attempt, consistent |-> TRUE]
      coordinates == [c \in Coordinates |-> host[c]]
  IN  [ context |-> [ hash |-> context, argv |-> command, gpu |-> host.device, visible |-> host.visible,
                      clean |-> host.clean ],
        evidence |-> [contextHash |-> context, coordinates |-> coordinates, runtime |-> runtime, kernels |-> 3],
        execution |-> [coordinates |-> coordinates, runtime |-> runtime],
        completion |-> [artifact |-> [metrics |-> metrics], metrics |-> metrics, intact |-> TRUE],
        framework |-> [artifact |-> [metrics |-> metrics], metrics |-> metrics],
        call |-> [ arguments |-> command, error |-> FALSE, completed |-> TRUE, succeeded |-> TRUE, timed |-> TRUE,
                   contextHash |-> context, kernels |-> 3 ] ]

DrawResult ==
  \E container \in {Unknown, "baseline"}, swapped \in SUBSET {"context", "evidence", "execution", "completion",
                                                              "framework", "call"},
     changed \in {"none", "device", "visible", "container", "python"} :
    LET host    == [Host EXCEPT !.container = container]
        command == MaterializeVllmProfileCommand(host, Offline, 1, {})
        another == MaterializeVllmProfileCommand(host, Offline, 2, {})
        altered == CASE changed = "none" -> host
                     [] changed = "container" -> [host EXCEPT !.container = "another"]
                     [] OTHER -> [host EXCEPT ![changed] = 1]
    IN  sample' = [family |-> "result", baseline |-> [container |-> container],
                        approval |-> [ intact |-> TRUE, arguments |-> command, context |-> [command |-> command],
                                       coordinateFile |-> command.coordinate ],
                        own |-> DocumentsOf(command, host), other |-> DocumentsOf(another, altered),
                        swapped |-> swapped]

Claim ==
  [ verification |-> "VERIFIED", bound |-> TRUE, exe |-> 0, native |-> TRUE, manifest |-> 0, environment |-> TRUE,
    declaredHash |-> << 0, TRUE >>, declared |-> TRUE, unsetAbsent |-> TRUE, inherited |-> FALSE,
    outer |-> NoContainer ]

Claimed == {TRUE, FALSE, Unknown}

DrawClaim ==
  \/ \E image, bound, environment, inherited \in BOOLEAN, verification \in {"VERIFIED", "UNVERIFIED", "MISMATCH"},
        exe, manifest \in {0, 1, Unknown}, hash \in {Unknown, << 0, TRUE >>, << 1, TRUE >>},
        declared, absent \in Claimed :
       sample' = [family |-> "claim", spec |-> [image |-> image],
                  claim |-> [ verification |-> verification, bound |-> bound, exe |-> exe, native |-> Unknown,
                              manifest |-> manifest, environment |-> environment, declaredHash |-> hash,
                              declared |-> declared, unsetAbsent |-> absent, inherited |-> inherited,
                              outer |-> NoContainer ]]
  \/ \E image, container, imageId \in BOOLEAN, kind \in {Unknown, "cgroup_v2", "pid_namespace_inode"},
        own, other \in {Unknown, 1, 2}, digests \in SUBSET {0, 1}, digestMatches \in Claimed :
       sample' = [family |-> "claim", spec |-> [image |-> image],
                  claim |-> [Claim EXCEPT !.outer =
                               [ container |-> container, image |-> imageId, kind |-> kind, processBinding |-> own,
                                 containerBinding |-> other, digests |-> digests,
                                 digestMatches |-> digestMatches ]]]

Environments == {Unknown} \cup [declared : {0, 1, Unknown}, inherited : BOOLEAN]

Manifests == {Unknown} \cup [digests : {{0}, {1}, {0, 1}}, cgroup : {1, 2}]

Answers == { Refused, [status |-> 503, models |-> {"model"}], [status |-> 200, models |-> {}],
             [status |-> 200, models |-> {"other"}], [status |-> 200, models |-> {"other", "model"}] }

\* Process 1 is the server's; the others are its descendants or not.
Parents == { << 0, second, third >> : second \in {0, 1, Unknown}, third \in {0, 1, 2, Unknown} }

World(image, host, exe, env, manifest, parent, listening, sockets, answer) ==
  sample' = [ family |-> "gated", spec |-> [image |-> image], host |-> host,
              process |-> [exe |-> exe, env |-> env, cgroup |-> 1], manifest |-> manifest, parent |-> parent,
              listening |-> listening, sockets |-> sockets, answer |-> answer ]

DrawServer ==
  \/ \E image \in BOOLEAN, host \in [manifest : {0, 1}, python : {0, 1}, packages : {0, 1}],
        exe \in {0, 1, Unknown}, env \in Environments, manifest \in Manifests, third \in {0, 2} :
       World(image, host, exe, env, manifest, << 0, 1, third >>, {7}, << {}, {8}, {7} >>,
             [status |-> 200, models |-> {"model"}])
  \/ \E image \in BOOLEAN, parent \in Parents, listening \in {Unknown, {}, {7}},
        sockets \in [1 .. 3 -> {Unknown, {}, {7, 8}}], answer \in Answers :
       World(image, [manifest |-> 0, python |-> 0, packages |-> 0], 0, [declared |-> 0, inherited |-> FALSE],
             IF image THEN [digests |-> {0, 1}, cgroup |-> 1] ELSE Unknown, parent, listening, sockets, answer)

Measured(measures, tpot, completed, failed, prompts) ==
  [ metrics |-> [m \in measures |-> IF m = "tpot" THEN tpot ELSE 3], completed |-> completed, failed |-> failed,
    prompts |-> prompts ]

Benchmarks == { Measured(measures, tpot, completed, failed, prompts) :
                  measures \in {RequiredMeasures, RequiredMeasures \cup {"e2el"}, RequiredMeasures \ {"ttft"}},
                  tpot \in {0, 1}, completed \in {Unknown, 0, 4}, failed \in {0, 1}, prompts \in {Unknown, 4} }

DrawBenchmark ==
  \E n \in 0 .. 2, prompts \in {Unknown, 4} : \E rows \in [1 .. n -> Benchmarks] :
    sample' = [family |-> "bench", rows |-> rows, prompts |-> prompts]

DrawEvidence == DrawLaunch \/ DrawImport \/ DrawResult \/ DrawClaim \/ DrawServer \/ DrawBenchmark

\* What is recorded as evidence is of what was configured and approved: the
\* workload that a profile starts, the artifacts that are imported for it and the
\* documents that are recorded of it, the server that a gate may believe in and
\* the benchmark of it.
EvidenceIsOfTheApproved ==
  /\ Of("launch") => LaunchIsAsConfigured(sample.made, sample.launched, sample.offline,
                                              sample.command, sample.file, sample.existing)
  /\ Of("import") => ImportIsBounded(sample.manifest, sample.case, sample.budget)
  /\ Of("result") => RecordedProfileIsApproved(sample.approval, sample.own, sample.other,
                                                   sample.swapped, sample.baseline)
  /\ Of("claim") => EvidenceIsJudged(sample.spec, sample.claim)
  /\ Of("gated") => GatedServerIsReal(sample.spec, sample.host, sample.process, sample.manifest, sample.parent,
                                      sample.listening, sample.sockets, sample.answer)
  /\ Of("bench") => BenchmarkIsComplete(sample.rows, sample.prompts)

-----------------------------------------------------------------------------
(* Campaign configurations, the experiments proposed for them and the GPUs *)
(* that they run on.                                                       *)

MCEngineArity ==
  [ option \in ServerBindings \cup BenchmarkBindings \cup
               {"-tp", "--quantization", "-q", "--max-num-seqs", "--result-dir", "--result-filename", "--num-warmups"} |-> 1 ]
  @@ [ option \in {"--enforce-eager", "--save-result", "--save-detailed", "--disable-tqdm"} |-> 0 ]

Args == { Word("--enforce-eager"), Word("--max-num-seqs"), Word("8"), Bound("--max-num-seqs", "8"),
          Word("--dtype"), Bound("--dtype", "float32"), Word("-tp") }

ServerValues(host) ==
  [ option \in ServerBindings |-> CASE option = "--tensor-parallel-size" -> "1"
                                    [] option = "--host" -> host
                                    [] OTHER -> option \o " value" ]

BenchmarkValues == [option \in BenchmarkBindings |-> option \o " value"]

\* Each option with its value as a word of its own.
Spelled(values) ==
  FoldSet(LAMBDA option, argv : argv \o << Word(option), Word(values[option]) >>, << >>, DOMAIN values)

Shortened(argv) ==
  [ i \in DOMAIN argv |-> IF argv[i] = Word("--tensor-parallel-size") THEN Word("-tp") ELSE argv[i] ]

Profile ==
  [ mode |-> "unavailable", bound |-> {"reason"}, environment |-> "unavailable", official |-> FALSE, workload |-> << >> ]

OfflineProfile ==
  [ mode |-> "offline_one_shot", environment |-> "native", official |-> TRUE,
    bound |-> {"argv", "cwd", "launcher", "launcher_sha256", "environment_manifest"},
    workload |-> [ model |-> "--model value", dtype |-> "--dtype value", quantization |-> Unknown,
                   input |-> "--input-len value", output |-> "--output-len value",
                   prompts |-> "--num-prompts value", seed |-> "--seed value" ] ]

Protocol == [device |-> "uuid", samples |-> 3, timeout |-> 900]

\* A valid configuration whose server has the further arguments extra.
ConfigOf(host, policy, extra) ==
  [ runtime |-> [ bound |-> {"python_version", "pytorch_version", "rocm_version", "executable_sha256"},
                  deployment |-> "native", interpreter |-> TRUE ],
    task |-> Protocol, protocol |-> Protocol, taskModelHash |-> FALSE,
    launcher |-> [kind |-> "python_module", name |-> "vllm.entrypoints.openai.api_server", hashed |-> TRUE],
    server |-> ServerValues(host), quantization |-> Unknown, benchmark |-> BenchmarkValues,
    serverArgv |-> ServerPrefix \o Spelled(ServerValues(host)) \o extra,
    benchmarkArgv |-> BenchmarkPrefix \o Spelled(BenchmarkValues), policy |-> policy,
    env |-> [name \in {"ROCR_VISIBLE_DEVICES", "PYTHONNOUSERSITE"} |->
               IF name = "PYTHONNOUSERSITE" THEN "1" ELSE "uuid"],
    mcpEnv |-> [name \in {"PYTHONNOUSERSITE"} |-> "1"],
    gates |-> [ correctness |-> TRUE, quality |-> TRUE, fresh |-> TRUE, stable |-> TRUE,
                matched |-> {"gpu_device", "versions", "model", "dtype", "quantization", "tensor_parallel_size",
                             "serving_protocol"} ],
    profile |-> Profile ]

Policy == [ kinds |-> {"runtime_config"}, locked |-> RequiredLocks, allowed |-> {"--enforce-eager", "--max-num-seqs"},
            arity |-> [option \in {"--enforce-eager"} |-> 0] ]

Policies == { Policy, [Policy EXCEPT !.arity = MCEngineArity],
              [Policy EXCEPT !.allowed = {"--enforce-eager"}, !.kinds = {"runtime_config", "source_patch"}],
              [Policy EXCEPT !.allowed = {"--enforce-eager", "-tp"}], [Policy EXCEPT !.arity = << >>],
              [Policy EXCEPT !.locked = RequiredLocks \ {"dtype"}],
              [Policy EXCEPT !.allowed = {"--max-num-seqs"}, !.arity = [option \in {"--max-num-seqs"} |-> 1]] }

\* A configuration with at most one thing that is not as it has to be.
Deviations(config) ==
  { config, [config EXCEPT !.serverArgv = Shortened(@)],
    [config EXCEPT !.serverArgv = @ \o << Bound("--quantization", "fp8") >>],
    [config EXCEPT !.serverArgv = @ \o << Word("-q"), Word("fp8") >>, !.quantization = "fp8"],
    [config EXCEPT !.serverArgv = Tail(@)], [config EXCEPT !.launcher.hashed = FALSE],
    [config EXCEPT !.env = ("PYTHONPATH" :> "other") @@ @], [config EXCEPT !.env["ROCR_VISIBLE_DEVICES"] = "0"],
    [config EXCEPT !.mcpEnv = ("PYTHONHOME" :> "other") @@ @], [config EXCEPT !.mcpEnv = << >>],
    [config EXCEPT !.env = ("VLLM_USE_V1" :> "1") @@ @], [config EXCEPT !.runtime.interpreter = FALSE],
    [config EXCEPT !.runtime.bound = @ \ {"executable_sha256"}], [config EXCEPT !.runtime.bound = @ \cup {"image"}],
    [config EXCEPT !.runtime.bound = @ \cup {"image", "image_digest"}], [config EXCEPT !.task.device = "other"],
    [config EXCEPT !.gates.fresh = FALSE], [config EXCEPT !.gates.matched = @ \ {"dtype"}],
    [config EXCEPT !.profile.bound = {}],
    [config EXCEPT !.profile = OfflineProfile],
    [config EXCEPT !.benchmarkArgv = @ \o << Word("--save-result") >>],
    [config EXCEPT !.benchmarkArgv = @ \o << Word("--random-input-len"), Word("7") >>],
    [config EXCEPT !.benchmarkArgv = @ \o << Word("--num-warmups"), Word("3") >>],
    [config EXCEPT !.benchmarkArgv = @ \o << Word("--num-warmups"), Word("many") >>],
    [config EXCEPT !.benchmarkArgv = @ \o << Bound("--result-dir", "stale") >>] }

DrawCampaign ==
  \E host \in {"127.0.0.1", "host/path"}, policy \in Policies :
    \E config \in Deviations(ConfigOf(host, policy, << >>)) : sample' = [family |-> "campaign", config |-> config]

NoChange == [kind |-> "runtime_config", patch |-> FALSE, modelFields |-> {}, env |-> << >>, unset |-> {}]

\* The decision that proposes args, and those that differ from it in one thing.
Proposal(config, args) ==
  [ evidence |-> {1}, observed |-> {1},
    experiment |-> [ id |-> "first", change |-> NoChange @@ [args |-> args],
                     benchmarkArgv |-> config.benchmarkArgv, serverArgv |-> config.serverArgv \o args,
                     env |-> config.env ] ]

Decisions(config, args) ==
  LET proposed == Proposal(config, args)
  IN  { proposed, [proposed EXCEPT !.evidence = {1, 3}], [proposed EXCEPT !.observed = {3}],
        [proposed EXCEPT !.experiment.benchmarkArgv = Append(@, Bound("--seed", "other"))],
        [proposed EXCEPT !.experiment.serverArgv = Append(@, Bound("--dtype", "float32"))],
        [proposed EXCEPT !.experiment.serverArgv = config.serverArgv],
        [proposed EXCEPT !.experiment.env = ("VLLM_USE_V1" :> "1") @@ @,
                         !.experiment.change.env = ("VLLM_USE_V1" :> "1")],
        [proposed EXCEPT !.experiment.env = ("PYTHONNOUSERSITE" :> "1"),
                         !.experiment.change.unset = {"ROCR_VISIBLE_DEVICES"}],
        [proposed EXCEPT !.experiment.change.modelFields = {"path", "sha256", "quantization"}],
        [proposed EXCEPT !.experiment.change.kind = "source_patch"] }

DrawDecision ==
  \E policy \in Policies, n, m \in 0 .. 3 :
    /\ n <= 1 /\ n + m <= 3
    /\ \E extra \in [1 .. n -> Args], args \in [1 .. m -> Args] :
         LET config == ConfigOf("127.0.0.1", policy, extra)
         IN  \E decision \in IF m < 2 THEN Decisions(config, args) ELSE {Proposal(config, args)} :
               sample' = [family |-> "decision", config |-> config, decision |-> decision]

Mapped ==
  [ handle |-> 1, hip |-> "uuid", physical |-> "uuid", bdf |-> "bdf", market |-> "AMD Instinct MI300X VF", oam |-> 2,
    active |-> 1, profiles |-> << [index |-> 0, partitions |-> 8, xcc |-> << 1 >>],
                                  [index |-> 1, partitions |-> 1, xcc |-> << 8 >>] >>,
    compute |-> "SPX", memory |-> "NPS1", partition |-> 0, gfx |-> "gfx942", gfxclk |-> 2000, uclk |-> 1000,
    power |-> 700, hotspot |-> 80, throttled |-> FALSE, powerViolation |-> 0, thermalViolation |-> Unknown ]

Handles ==
  { Mapped, [Mapped EXCEPT !.hip = Unknown], [Mapped EXCEPT !.hip = "other"], [Mapped EXCEPT !.physical = "other"],
    [Mapped EXCEPT !.bdf = "other"], [Mapped EXCEPT !.market = "AMD Instinct MI300A"], [Mapped EXCEPT !.oam = Unknown],
    [Mapped EXCEPT !.active = 0], [Mapped EXCEPT !.active = 2], [Mapped EXCEPT !.profiles[2].xcc = << 8, 8 >>],
    [Mapped EXCEPT !.profiles[2].xcc = << 4 >>], [Mapped EXCEPT !.profiles[1].index = 1],
    [Mapped EXCEPT !.compute = "CPX", !.memory = "NPS4"], [Mapped EXCEPT !.memory = "NPS4"],
    [Mapped EXCEPT !.partition = 1], [Mapped EXCEPT !.gfx = "gfx950"] }

Neighbours == { [h EXCEPT !.handle = 2, !.partition = 1] : h \in {Mapped, [Mapped EXCEPT !.hip = Unknown],
                                                                  [Mapped EXCEPT !.hip = "other", !.bdf = "other"]} }

Commands == [ request : {"pinned", "other"}, succeeded : BOOLEAN, started : {100}, duration : {2},
              captured : {94, 95, 107, 108}, output : {Refused} ]

Normal == [request |-> "pinned", succeeded |-> TRUE, started |-> 100, duration |-> 2, captured |-> 101, output |-> Refused]

Device(image) ==
  [ uuid |-> "uuid", bdf |-> "bdf", oam |-> 2, compute |-> "SPX", memory |-> "NPS1", partition |-> 0, image |-> image,
    requests |-> << "pinned", "pinned" >>, executable |-> "python", coordinates |-> "coordinates",
    maxTemperature |-> 90, tolerance |-> 5 ]

Port == [requests |-> << "pinned", "pinned" >>, executable |-> "python", container |-> Unknown]

Ports == { Port, [Port EXCEPT !.requests = << "pinned", "other" >>], [Port EXCEPT !.executable = "other"] }
         \cup { [Port EXCEPT !.container = [image |-> image, intact |-> intact]] :
                  image \in {"image", "other"}, intact \in BOOLEAN }

DrawInspection ==
  \/ \E own \in Handles, others \in SUBSET Neighbours, inherited \in {{}, {"HIP_VISIBLE_DEVICES"}} :
       \E exposed \in { << own >>, << >> } \cup { << own, other >> : other \in others } \cup { << other >> : other \in others } :
         /\ Cardinality(others) <= 1
         /\ sample' = [ family |-> "inspection", config |-> Device(Unknown), port |-> Port, handles |-> {own} \cup others,
                        exposed |-> exposed, inherited |-> inherited, static |-> Normal, hip |-> Normal ]
  \/ \E image \in {Unknown, "image"}, port \in Ports, static, hip \in Commands \cup {Normal} :
       sample' = [ family |-> "inspection", config |-> Device(image), port |-> port, handles |-> {Mapped},
                   exposed |-> << Mapped >>, inherited |-> {}, static |-> static, hip |-> hip ]

Ends(gfxclk, uclk) ==
  LET timed == [Mapped EXCEPT !.gfxclk = gfxclk, !.uclk = uclk]
  IN  { timed, [timed EXCEPT !.throttled = TRUE], [timed EXCEPT !.throttled = Unknown], [timed EXCEPT !.power = Unknown],
        [timed EXCEPT !.hotspot = 90], [timed EXCEPT !.hotspot = 91], [timed EXCEPT !.hotspot = Unknown],
        [timed EXCEPT !.thermalViolation = 1], [timed EXCEPT !.powerViolation = Unknown], [timed EXCEPT !.bdf = "other"],
        [timed EXCEPT !.partition = 1], [timed EXCEPT !.compute = "CPX"], [timed EXCEPT !.hip = "other", !.physical = "other"] }

DrawWindow ==
  \E c, d \in {0, 1899, 1900, 2000, 2001, Unknown}, u, v \in {0, 950, 1000, 1053, Unknown} :
    \E before \in Ends(c, u), after \in Ends(d, v) :
      /\ (c = 2000 /\ d = 2000) \/ (u = 1000 /\ before.throttled = FALSE /\ before.hotspot = 80)
      /\ sample' = [ family |-> "window", config |-> Device(Unknown), before |-> {before}, after |-> {after} ]

Source(path, bytes) == [path |-> path, bytes |-> bytes, place |-> "package", kind |-> "regular", bytecode |-> FALSE]

FileLists ==
  LET one == Source("one", 1)
  IN  { << >>, << one >>, << [one EXCEPT !.bytes = 2] >>, << [one EXCEPT !.kind = "missing"] >>, << [one EXCEPT !.path = "two"] >> }
      \cup { << one, more >> :
               more \in { [one EXCEPT !.bytes = 2], [one EXCEPT !.path = "two"] }
                        \cup { [path |-> "two", bytes |-> 1, place |-> place, kind |-> kind, bytecode |-> bytecode] :
                                 place \in {"prefix", "outside", "absolute"}, kind \in {"regular", "directory", "missing"},
                                 bytecode \in BOOLEAN } }

Installed(name, files) == [name |-> name, version |-> "one", files |-> files]

Machine(installed) ==
  [ running |-> "python", regular |-> TRUE, interpreter |-> 1, installed |-> installed,
    sources |-> {[path |-> "one", bytes |-> 1, link |-> FALSE, changed |-> FALSE]} ]

Vllm == Installed("vLLM", << Source("one", 1) >>)

\* Machines with one package of interest beside vLLM, which may also be absent.
Machines(name, files) ==
  LET full == Machine(Canonical(name) :> Installed(name, files) @@ "vllm" :> Vllm)
  IN  { full, Machine("vllm" :> Vllm), Machine(Canonical(name) :> Installed(name, files)),
        [full EXCEPT !.installed["vllm"].version = "two"], [full EXCEPT !.interpreter = 2], [full EXCEPT !.regular = FALSE],
        [full EXCEPT !.installed["vllm"].files = << Source("one", 2) >>] }
      \cup { [full EXCEPT !.sources = sources] :
               sources \in SUBSET [path : {"one", "two"}, bytes : {1}, link : BOOLEAN, changed : {FALSE}] }

Asked(most) == UNION { [1 .. n -> {"vllm", "vLLM", "py_aiter", "Py_Aiter", "absent"}] : n \in 0 .. most }

DrawEnvironment ==
  \/ \E first, second \in FileLists, optional \in { << >>, << "Py_Aiter" >> } :
       \E other \in Machines("Py_Aiter", second) :
         sample' = [ family |-> "environment", one |-> Machine("py-aiter" :> Installed("Py_Aiter", first) @@ "vllm" :> Vllm),
                     other |-> other, required |-> << "vllm" >>, optional |-> optional ]
  \/ \E name \in {"py_aiter", "py-aiter", "Py_Aiter"}, required \in Asked(2), optional \in Asked(1) :
       \E machine \in Machines(name, << Source("one", 1) >>) :
         sample' = [ family |-> "environment", one |-> machine, other |-> machine, required |-> required,
                     optional |-> optional ]

\* A campaign's pinned coordinates hold for whatever it runs, what it accepts it can
\* run, it runs on the device that it names, whose state at both ends of a benchmark
\* is told as it was, and in the environment that it names.
CoordinatesAreLocked ==
  /\ Of("campaign") => ValidCampaignCanRun(sample.config, "attempt-1.json")
  /\ Of("decision") => CandidateKeepsCoordinates(sample.config, {1, 2}, sample.decision)
  /\ Of("inspection") => InspectedDeviceIsTheConfigured(sample.config, sample.port, sample.handles, sample.exposed,
                                                        sample.inherited, sample.static, sample.hip)
  /\ Of("environment") => EnvironmentIsIdentified(sample.one, sample.other, sample.required, sample.optional)
  /\ Of("window") => StableWindowIsStable(sample.config, sample.before, sample.after)

DrawCoordinates == DrawCampaign \/ DrawDecision \/ DrawInspection \/ DrawWindow \/ DrawEnvironment
=============================================================================
