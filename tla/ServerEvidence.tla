---------------------------- MODULE ServerEvidence ----------------------------
(***************************************************************************)
(* What a started vLLM server is believed to be: the evidence an inspector *)
(* takes of the process (vllm_runtime_inspector.py, vllm_adapter.py), the  *)
(* adapter's judgement of it, the health probe with the ownership of the   *)
(* port, the samples read from a benchmark of the server, and the manifest *)
(* of the Python environment that it has to be of (vllm_environment.py).   *)
(*                                                                         *)
(* A digest is the content it digests; 0 is what the specification pins,   *)
(* 1 is anything else and Unknown is None.                                 *)
(***************************************************************************)
EXTENDS Integers, Sequences, FiniteSets, FiniteSetsExt, SequencesExt, Refusals

\* What is observed of a process in no container.
NoContainer ==
  [ container |-> FALSE, image |-> FALSE, kind |-> Unknown, processBinding |-> Unknown,
    containerBinding |-> Unknown, digests |-> {}, digestMatches |-> Unknown ]

-----------------------------------------------------------------------------
(* The inspectors.  process has an executable exe and an environment env:   *)
(* the value of the declared variables and whether a variable to be unset   *)
(* is inherited.                                                            *)

\* LocalRuntimeInspector.inspect.  spec.image says whether an image is pinned.
LocalInspect(spec, process) ==
  LET known   == process.env # Unknown
      matches == known /\ process.env.declared = 0 /\ ~process.env.inherited
      native  == process.exe = 0
  IN  [ verification |-> IF process.exe = Unknown THEN "UNVERIFIED"
                         ELSE IF ~native THEN "MISMATCH"
                         ELSE IF ~known THEN "UNVERIFIED"
                         ELSE IF ~matches THEN "MISMATCH"
                         ELSE IF spec.image THEN "UNVERIFIED" ELSE "VERIFIED",
        bound |-> TRUE, exe |-> process.exe,
        native |-> IF process.exe = Unknown THEN Unknown ELSE native,
        manifest |-> Unknown, environment |-> known,
        declaredHash |-> IF known THEN << process.env.declared, ~process.env.inherited >> ELSE Unknown,
        declared |-> IF known THEN matches ELSE Unknown,
        unsetAbsent |-> IF known THEN ~process.env.inherited ELSE Unknown,
        inherited |-> known /\ process.env.inherited, outer |-> NoContainer ]

\* _capture_environment: the manifest's identity when it is the specification's
\* and the packages installed now are the manifest's.
CaptureEnvironment(host) ==
  IF host.manifest = 0 /\ host.python = 0 /\ host.packages = host.manifest THEN host.manifest ELSE Refused

\* _container.  manifest is what the outer launcher exports, or Unknown.
ContainerOf(spec, process, manifest) ==
  IF ~spec.image THEN IF manifest = Unknown THEN NoContainer ELSE Refused
  ELSE IF manifest = Unknown \/ 0 \notin manifest.digests \/ process.cgroup # manifest.cgroup THEN Refused
  ELSE [ container |-> TRUE, image |-> TRUE, kind |-> "cgroup_v2", processBinding |-> manifest.cgroup,
         containerBinding |-> manifest.cgroup, digests |-> manifest.digests, digestMatches |-> TRUE ]

\* VerifiedVLLMRuntimeInspector.inspect.  captured is what the preflight left for
\* this request.
VerifiedInspect(spec, process, captured, manifest) ==
  LET base  == LocalInspect(spec, process)
      outer == ContainerOf(spec, process, manifest)
  IN  IF base.verification = "MISMATCH" THEN base
      ELSE IF \/ base.native # TRUE \/ base.declared # TRUE \/ base.unsetAbsent # TRUE
              \/ captured = Refused \/ outer = Refused
      THEN [base EXCEPT !.verification = "UNVERIFIED"]
      ELSE [base EXCEPT !.verification = "VERIFIED", !.manifest = captured, !.outer = outer]

-----------------------------------------------------------------------------
(* _record_runtime_evidence: any inspector's evidence is judged anew.       *)

Mismatch(e) == [e EXCEPT !.verification = "MISMATCH"]
Unverified(e) == [e EXCEPT !.verification = "UNVERIFIED"]

JudgeIdentity(e) ==
  IF ~e.bound THEN Mismatch(e)
  ELSE IF e.exe = Unknown THEN IF e.verification = "VERIFIED" THEN Unverified(e) ELSE e
  ELSE IF e.exe # 0 THEN [Mismatch(e) EXCEPT !.native = FALSE]
  ELSE [e EXCEPT !.native = TRUE]

JudgeEnvironment(e) ==
  IF e.verification = "MISMATCH" THEN e
  ELSE IF \/ e.declared = FALSE \/ e.unsetAbsent = FALSE \/ e.inherited
          \/ e.declaredHash \notin {Unknown, << 0, TRUE >>}
  THEN Mismatch(e)
  ELSE IF \/ e.declared # TRUE \/ e.unsetAbsent # TRUE
          \/ e.declaredHash # << 0, TRUE >> \/ ~e.environment
  THEN Unverified(e)
  ELSE e

JudgeManifest(e) ==
  IF e.verification = "MISMATCH" THEN e
  ELSE IF e.manifest = Unknown THEN Unverified(e)
  ELSE IF e.manifest # 0 THEN Mismatch(e)
  ELSE e

OuterContradicts(outer) ==
  \/ outer.digestMatches = FALSE
  \/ outer.digests # {} /\ 0 \notin outer.digests
  \/ outer.processBinding # Unknown /\ outer.containerBinding # Unknown
     /\ outer.processBinding # outer.containerBinding

\* A namespace alone is no container: the cgroup has to be the same.
OuterBinds(outer) ==
  /\ outer.digestMatches = TRUE /\ 0 \in outer.digests /\ outer.container /\ outer.image
  /\ outer.kind = "cgroup_v2"
  /\ outer.processBinding # Unknown /\ outer.processBinding = outer.containerBinding

JudgeContainer(spec, e) ==
  IF ~spec.image \/ e.verification = "MISMATCH" THEN e
  ELSE IF OuterContradicts(e.outer) THEN Mismatch(e)
  ELSE IF ~OuterBinds(e.outer) THEN Unverified(e)
  ELSE e

RecordRuntimeEvidence(spec, evidence) ==
  JudgeContainer(spec, JudgeManifest(JudgeEnvironment(JudgeIdentity(evidence))))

-----------------------------------------------------------------------------
(* The probe                                                               *)

\* _process_tree: the root and, round by round, the children of what is selected.
\* parent[p] is the parent of p, or Unknown when its stat is not readable.
ProcessTree(parent, root) ==
  LET round[n \in 0 .. Cardinality(DOMAIN parent)] ==
        IF n = 0 THEN {root}
        ELSE round[n - 1] \cup { p \in DOMAIN parent : parent[p] \in round[n - 1] }
  IN  round[Cardinality(DOMAIN parent)]

\* owned_by.  listening are the sockets that listen on the port, Unknown when the
\* tables are not readable; sockets[p] are those p has open, Unknown likewise.
OwnedBy(root, parent, listening, sockets) ==
  LET tree    == ProcessTree(parent, root)
      visible == { p \in tree \cap DOMAIN sockets : sockets[p] # Unknown }
  IN  IF listening = Unknown THEN Unknown
      ELSE IF listening = {} THEN FALSE
      ELSE IF \E p \in visible : sockets[p] \cap listening # {} THEN TRUE
      ELSE IF visible # {} THEN FALSE ELSE Unknown

\* _probe: << healthy, owned >>.  answer is Refused when there is none.
Probe(record, request, alive, answer, expected, owned) ==
  IF \/ record.request # request \/ ~alive \/ answer = Refused
     \/ answer.status # 200 \/ answer.models = {} \/ expected \notin answer.models
  THEN << FALSE, Unknown >>
  ELSE IF owned = FALSE THEN << FALSE, FALSE >>
  ELSE << TRUE, owned >>

\* ServerStartResult.gate_eligible.
GateEligible(health, evidence) ==
  health[1] /\ health[2] = TRUE /\ evidence.verification = "VERIFIED"

-----------------------------------------------------------------------------
(* parse_bench_serve_json.  A row gives the six metrics of one run of the   *)
(* benchmark, optionally e2el, and how many requests were completed.        *)

\* value 0 stands for a value that is not positive and finite.
ReadsRow(row, prompts, measures) ==
  /\ \A m \in measures : m \in DOMAIN row.metrics /\ row.metrics[m] > 0
  /\ row.failed \in {Unknown, 0}
  /\ LET expected == IF prompts # Unknown THEN prompts ELSE row.prompts
     IN  expected # Unknown => row.completed = expected

RequiredMeasures == {"request_throughput", "output_tps", "total_tps", "ttft", "tpot", "itl"}

\* The samples of each metric, one for each run, or a refusal.
ParseBenchServe(rows, prompts) ==
  LET present  == { i \in DOMAIN rows : "e2el" \in DOMAIN rows[i].metrics }
      measures == IF present = {} THEN RequiredMeasures ELSE RequiredMeasures \cup {"e2el"}
      counted  == { i \in DOMAIN rows : rows[i].completed # Unknown }
      completed == MapThenSumSet(LAMBDA i : rows[i].completed, counted)
  IN  IF \/ rows = << >>
         \/ present \notin {{}, DOMAIN rows}
         \/ \E i \in DOMAIN rows : ~ReadsRow(rows[i], prompts, measures)
         \/ counted # {} /\ completed = 0
      THEN Refused
      ELSE [ samples |-> [m \in measures |-> [i \in DOMAIN rows |-> rows[i].metrics[m]]],
             completed |-> IF counted = {} THEN Unknown ELSE completed ]

-----------------------------------------------------------------------------
(* The manifest: the interpreter, the framework's own sources and the bytes *)
(* of the packages that serving depends on, under one identity that every   *)
(* command of the campaign is checked against.                              *)

\* A name of a package in lower case, and as installers compare names.
Lowered(name) == CASE name = "vLLM" -> "vllm" [] name = "Py_Aiter" -> "py_aiter" [] OTHER -> name
Canonical(name) == IF Lowered(name) = "py_aiter" THEN "py-aiter" ELSE Lowered(name)

Distinct(s) == \A i, j \in 1 .. Len(s) : s[i] = s[j] => i = j

\* dict.fromkeys
Once(s) == SelectSeq([i \in 1 .. Len(s) |-> << i, s[i] >>], LAMBDA x : \A j \in 1 .. x[1] - 1 : s[j] # x[2])
FirstOfEach(s) == [i \in 1 .. Len(Once(s)) |-> Once(s)[i][2]]

\* The files of a distribution that are evidence: bytecode is derived from sources.
Hashed(files) == SelectSeq(files, LAMBDA f : f.kind = "regular" /\ ~f.bytecode)

\* _distribution_files and the validation of their list.  A file is listed by a path
\* inside of the package directory, by one that leads elsewhere in the prefix, or by
\* one that leads out of it.
DistributionFiles(files) ==
  LET listed == Hashed(files)
  IN  IF \/ \E i \in 1 .. Len(files) : \/ files[i].place = "absolute"
                                       \/ files[i].kind = "missing" /\ ~files[i].bytecode
         \/ \E i \in 1 .. Len(listed) : listed[i].place = "outside"
         \/ listed = << >> \/ ~Distinct([i \in 1 .. Len(listed) |-> << listed[i].place, listed[i].path >>])
      THEN Refused
      ELSE { << listed[i].place, listed[i].path, listed[i].bytes >> : i \in 1 .. Len(listed) }

\* capture_distribution, of what is installed under the canonical name.
CaptureDistribution(name, required, installed) ==
  IF Canonical(name) \in DOMAIN installed
  THEN LET found == installed[Canonical(name)]
           files == DistributionFiles(found.files)
       IN  IF files = Refused THEN Refused
           ELSE [name |-> found.name, version |-> found.version, status |-> "present", files |-> files]
  ELSE IF required THEN Refused ELSE [name |-> name, version |-> "missing", status |-> "missing", files |-> {}]

\* environment_identity_sha256
EnvironmentIdentity(interpreter, framework, distributions, required) ==
  [ interpreter |-> interpreter, framework |-> framework,
    required |-> { Lowered(required[i]) : i \in 1 .. Len(required) },
    distributions |->
      { << Lowered(distributions[i].name), distributions[i].version, distributions[i].status, distributions[i].files >> :
          i \in 1 .. Len(distributions) } ]

\* framework_source_identity_sha256: each source is the same before and after it is
\* read, and is not a link.
FrameworkIdentity(sources) ==
  IF sources = {} \/ \E s \in sources : s.link \/ s.changed THEN Refused
  ELSE { << s.path, s.bytes >> : s \in sources }

\* VLLMEnvironmentManifest.validate_inventory
InventoryIsValid(distributions, required) ==
  /\ Distinct([i \in 1 .. Len(distributions) |-> Lowered(distributions[i].name)])
  /\ Distinct([i \in 1 .. Len(required) |-> Lowered(required[i])])
  /\ { Lowered(required[i]) : i \in 1 .. Len(required) }
       \subseteq { Lowered(distributions[i].name) : i \in { j \in 1 .. Len(distributions) : distributions[j].status = "present" } }

\* capture_vllm_environment, by the interpreter that runs.
CaptureVLLMEnvironment(machine, selected, requiredNames, optionalNames) ==
  LET required  == FirstOfEach(requiredNames)
      lowered   == { Lowered(required[i]) : i \in 1 .. Len(required) }
      optional  == SelectSeq(FirstOfEach(optionalNames), LAMBDA n : Lowered(n) \notin lowered)
      all       == required \o optional
      captured  == [i \in 1 .. Len(all) |-> CaptureDistribution(all[i], i <= Len(required), machine.installed)]
      framework == FrameworkIdentity(machine.sources)
  IN  IF \/ selected # machine.running \/ ~machine.regular \/ framework = Refused
         \/ required = << >> \/ \E i \in 1 .. Len(all) : captured[i] = Refused
         \/ ~InventoryIsValid(captured, required)
      THEN Refused
      ELSE [ distributions |-> captured, required |-> required,
             identity |-> EnvironmentIdentity(machine.interpreter, framework, captured, required) ]

-----------------------------------------------------------------------------
(***************************************************************************)
(* Properties.                                                             *)
(***************************************************************************)

\* Whatever an inspector claims: evidence is VERIFIED only when everything about
\* the server was observed and is as pinned, a coordinate that is observed to
\* differ always ends the server as a MISMATCH, and what merely could not be
\* observed never does.
EvidenceIsJudged(spec, evidence) ==
  LET judged == RecordRuntimeEvidence(spec, evidence).verification
      contradicted ==
        \/ ~evidence.bound \/ evidence.exe \notin {Unknown, 0} \/ evidence.manifest \notin {Unknown, 0}
        \/ evidence.declared = FALSE \/ evidence.unsetAbsent = FALSE \/ evidence.inherited
        \/ evidence.declaredHash \notin {Unknown, << 0, TRUE >>}
        \/ spec.image /\ OuterContradicts(evidence.outer)
  IN  /\ judged = "VERIFIED" => /\ evidence.verification = "VERIFIED" /\ evidence.bound
                                /\ evidence.exe = 0 /\ evidence.manifest = 0
                                /\ evidence.environment /\ evidence.declaredHash = << 0, TRUE >>
                                /\ spec.image => evidence.outer.processBinding = evidence.outer.containerBinding
      /\ judged = "MISMATCH" <=> (contradicted \/ evidence.verification = "MISMATCH")

\* Of the inspected world: a server that may be gated runs the pinned executable
\* in the declared environment and the pinned image, its packages were the
\* manifest's when it was preflighted, and one of its own processes listens.  A
\* server whose world is as pinned and readable can be gated.
GatedServerIsReal(spec, host, process, manifest, parent, listening, sockets, answer) ==
  LET judged == RecordRuntimeEvidence(spec, VerifiedInspect(spec, process, CaptureEnvironment(host), manifest))
      owned  == OwnedBy(1, parent, listening, sockets)
      health == Probe([request |-> "own"], "own", TRUE, answer, "model", owned)
      ancestors(p) == { q \in DOMAIN parent : \E n \in 1 .. Cardinality(DOMAIN parent) :
                          \E path \in [1 .. n -> DOMAIN parent] :
                            /\ path[1] = p /\ path[n] = q
                            /\ \A i \in 1 .. n - 1 : parent[path[i]] = path[i + 1] }
      pinned == /\ process.exe = 0 /\ process.env = [declared |-> 0, inherited |-> FALSE]
                /\ host = [manifest |-> 0, python |-> 0, packages |-> 0]
                /\ IF spec.image THEN manifest # Unknown /\ 0 \in manifest.digests /\ manifest.cgroup = process.cgroup
                   ELSE manifest = Unknown
      served == /\ answer # Refused /\ answer.status = 200 /\ "model" \in answer.models
                /\ listening # Unknown
                /\ \E p \in DOMAIN sockets : /\ sockets[p] # Unknown /\ sockets[p] \cap listening # {}
                                             /\ 1 \in ancestors(p)
  IN  GateEligible(health, judged) <=> pinned /\ served

\* A benchmark that is read counts every request that it was to make, and each
\* of its metrics has one sample for each run.
BenchmarkIsComplete(rows, prompts) ==
  LET read == ParseBenchServe(rows, prompts)
  IN  read # Refused =>
        /\ prompts # Unknown => read.completed = Len(rows) * prompts
        /\ \A m \in DOMAIN read.samples : Len(read.samples[m]) = Len(rows)
        /\ \A m \in DOMAIN read.samples, i \in DOMAIN rows : read.samples[m][i] = rows[i].metrics[m]
        /\ ("e2el" \in DOMAIN read.samples) = (\E i \in DOMAIN rows : "e2el" \in DOMAIN rows[i].metrics)

\* The bytes that a machine would run of a package.
Effective(machine, name) ==
  IF Canonical(name) \notin DOMAIN machine.installed THEN {}
  ELSE LET found == machine.installed[Canonical(name)]
       IN  { << found.version, f.place, f.path, f.bytes >> : f \in { Hashed(found.files)[i] : i \in 1 .. Len(Hashed(found.files)) } }

\* Of two machines that are captured, the identities agree exactly when the
\* interpreter, the framework and every package that was asked for are the same,
\* whatever their bytecode, and in whatever order they were asked for; what is
\* required is there.
EnvironmentIsIdentified(one, other, required, optional) ==
  LET a == CaptureVLLMEnvironment(one, one.running, required, optional)
      b == CaptureVLLMEnvironment(other, other.running, required, optional)
      asked == { required[i] : i \in 1 .. Len(required) } \cup { optional[i] : i \in 1 .. Len(optional) }
      turned(s) == [i \in 1 .. Len(s) |-> s[Len(s) + 1 - i]]
  IN  /\ a # Refused => /\ \A i \in 1 .. Len(required) : Canonical(required[i]) \in DOMAIN one.installed
                        /\ LET again == CaptureVLLMEnvironment(one, one.running, turned(required), turned(optional))
                           IN  again # Refused /\ again.identity = a.identity
      /\ (a # Refused /\ b # Refused) =>
           ((a.identity = b.identity) <=>
              /\ one.interpreter = other.interpreter
              /\ { << s.path, s.bytes >> : s \in one.sources } = { << s.path, s.bytes >> : s \in other.sources }
              /\ \A n \in asked : Effective(one, n) = Effective(other, n))
=============================================================================
