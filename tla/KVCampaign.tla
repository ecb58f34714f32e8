----------------------------- MODULE KVCampaign -----------------------------
(***************************************************************************)
(* tools/run_kv_cache_campaign.py with the gates of kv_cache.py: one       *)
(* benchmark for each type of the KV cache, a second one with more samples *)
(* if the first was too noisy, and the gates that compare each type with   *)
(* F16.                                                                    *)
(*                                                                         *)
(* Every step leaves files behind, from which a later invocation goes on.  *)
(* An invocation may be killed at every step, and the binary or the model  *)
(* may be exchanged between two invocations.  The GPU lock admits one      *)
(* invocation at a time.                                                   *)
(***************************************************************************)
EXTENDS KVCache

CONSTANTS
  Speeds,     \* means a benchmark may report: depth -> tokens per second
  MaxInputs,  \* bound: versions of binary and model
  MaxCalls,   \* bound: invocations
  NoFile

ASSUME KVAssumption == MaxInputs \in Nat \ {0} /\ MaxCalls \in Nat

ASSUME SpeedsAssumption == Speeds \subseteq [Depths -> Nat \ {0}]

\* What a benchmark left, and what a result says; a file that is missing is neither.
Benchmarks == [rows : {"stable", "noisy", "garbled"}, speed : Speeds \cup {NoFile}, samples : {5, 12}, ok : BOOLEAN,
               inputs : 1 .. MaxInputs]
ResultDocuments == [inputs : 1 .. MaxInputs, measured : Benchmarks]

ASSUME NoFileAssumption == NoFile \notin Benchmarks \cup ResultDocuments

VARIABLES
  inputs,   \* version of the binary and the model that are installed
  stdout,   \* type -> the output of its first benchmark, benchmark.stdout.json
  retries,  \* type -> highest attempt of which a precondition was recorded
  result,   \* type -> result.json
  tool,     \* the invocation that runs
  summary,  \* summary.json
  calls,    \* invocations so far
  scored    \* type -> scored benchmarks so far

kvfiles == << stdout, retries, result, summary >>
kvvars == << inputs, kvfiles, tool, calls, scored >>

NoTool == [step |-> "none", arm |-> 0, attempt |-> 0, documents |-> [t \in Types |-> NoFile],
           measured |-> NoFile]

\* What a benchmark prints, and with which status it ends: rows that parse and
\* are stable, rows that are too noisy, or no such rows.
Outputs(samples) ==
  [rows : {"stable"}, speed : Speeds, samples : {samples}, ok : BOOLEAN, inputs : {inputs}]
    \cup [rows : {"noisy", "garbled"}, speed : {NoFile}, samples : {samples}, ok : BOOLEAN,
          inputs : {inputs}]

-----------------------------------------------------------------------------
(* run_kv_cache_campaign.py                                                *)

Type == Arms[tool.arm]

Abort == tool' = NoTool

Invoke ==
  /\ tool.step = "none" /\ calls < MaxCalls
  /\ calls' = calls + 1
  /\ tool' = [NoTool EXCEPT !.step = "look", !.arm = 1]
  /\ UNCHANGED << inputs, kvfiles, scored >>

\* The document of this type is there; on to the next.
Advanced(document) ==
  LET documents == [tool.documents EXCEPT ![Type] = document]
  IN  IF tool.arm = Len(Arms)
      THEN [NoTool EXCEPT !.step = "summarize", !.documents = documents]
      ELSE [NoTool EXCEPT !.step = "look", !.arm = tool.arm + 1, !.documents = documents]

\* _run_arm: a result belongs to these inputs, or nothing can be done.
TakeResult ==
  /\ tool.step = "look" /\ result[Type] # NoFile
  /\ IF result[Type].inputs = inputs THEN tool' = Advanced(result[Type]) ELSE Abort
  /\ UNCHANGED << inputs, kvfiles, calls, scored >>

FirstAttempt ==
  /\ tool.step = "look" /\ result[Type] = NoFile /\ stdout[Type] = NoFile
  /\ tool' = [tool EXCEPT !.step = "precondition", !.attempt = 1]
  /\ UNCHANGED << inputs, kvfiles, calls, scored >>

NextAttempt == IF retries[Type] = 0 THEN 2 ELSE retries[Type] + 1

\* Mutant: whatever is no valid output is measured again.
ResumeArm_Anything ==
  /\ tool.step = "look" /\ result[Type] = NoFile /\ stdout[Type] # NoFile
  /\ IF stdout[Type].rows # "stable"
     THEN tool' = [tool EXCEPT !.step = "precondition", !.attempt = NextAttempt]
     ELSE Abort
  /\ UNCHANGED << inputs, kvfiles, calls, scored >>

\* The first benchmark was made before: only one that was too noisy is repeated.
ResumeArm ==
  /\ tool.step = "look" /\ result[Type] = NoFile /\ stdout[Type] # NoFile
  /\ IF stdout[Type].rows = "noisy"
     THEN tool' = [tool EXCEPT !.step = "precondition", !.attempt = NextAttempt]
     ELSE Abort
  /\ UNCHANGED << inputs, kvfiles, calls, scored >>

\* run_attempt: one sample first, whose command is recorded if it succeeds or not.
Precondition ==
  /\ tool.step = "precondition"
  /\ retries' = IF tool.attempt = 1 THEN retries ELSE [retries EXCEPT ![Type] = tool.attempt]
  /\ \/ tool' = [tool EXCEPT !.step = "score"]
     \/ Abort
  /\ UNCHANGED << inputs, stdout, result, summary, calls, scored >>

Samples == IF tool.attempt = 1 THEN 5 ELSE 12

\* The scored benchmark: its output is kept before anybody looks at it.
Score ==
  /\ tool.step = "score"
  /\ scored' = [scored EXCEPT ![Type] = @ + 1]
  /\ \E output \in Outputs(Samples) :
       /\ stdout' = IF tool.attempt = 1 THEN [stdout EXCEPT ![Type] = output] ELSE stdout
       /\ tool' = [tool EXCEPT !.step = "read", !.measured = output]
  /\ UNCHANGED << inputs, retries, result, summary, calls >>

\* Noise is answered with a second attempt once, in the same invocation.
Read ==
  /\ tool.step = "read"
  /\ LET output == tool.measured
     IN  tool' = IF output.ok /\ output.rows = "stable" THEN [tool EXCEPT !.step = "finish"]
                 ELSE IF output.ok /\ output.rows = "noisy" /\ tool.attempt = 1
                 THEN [tool EXCEPT !.step = "precondition", !.attempt = 2, !.measured = NoFile]
                 ELSE NoTool
  /\ UNCHANGED << inputs, kvfiles, calls, scored >>

\* result.json, with the hashes of what is installed now.
Finish ==
  /\ tool.step = "finish"
  /\ LET document == [inputs |-> inputs, measured |-> tool.measured]
     IN  /\ result' = [result EXCEPT ![Type] = document]
         /\ tool' = Advanced(document)
  /\ UNCHANGED << inputs, stdout, retries, summary, calls, scored >>

\* The gates compare each quantized cache with F16, all from this invocation's documents.
Summarize ==
  /\ tool.step = "summarize"
  /\ LET speed(t) == tool.documents[t].measured.speed
     IN  summary' = [documents |-> tool.documents,
                     passed |-> { t \in Types \ {"f16"} : KVGate(speed("f16"), speed(t)) }]
  /\ tool' = NoTool
  /\ UNCHANGED << inputs, stdout, retries, result, calls, scored >>

\* Killed; output that is being written may stay behind in part.
Killed ==
  /\ tool.step # "none"
  /\ tool' = NoTool
  /\ \/ UNCHANGED stdout
     \/ /\ tool.step = "score" /\ tool.attempt = 1
        /\ stdout' = [stdout EXCEPT ![Type] =
                        [rows |-> "garbled", speed |-> NoFile, samples |-> 5, ok |-> TRUE,
                         inputs |-> inputs]]
  /\ UNCHANGED << inputs, retries, result, summary, calls, scored >>

ExchangeInputs ==
  /\ tool.step = "none" /\ inputs < MaxInputs
  /\ inputs' = inputs + 1
  /\ UNCHANGED << kvfiles, tool, calls, scored >>

KVInit ==
  /\ inputs = 1
  /\ stdout = [t \in Types |-> NoFile]
  /\ retries = [t \in Types |-> 0]
  /\ result = [t \in Types |-> NoFile]
  /\ tool = NoTool
  /\ summary = NoFile
  /\ calls = 0
  /\ scored = [t \in Types |-> 0]

KVNext ==
  \/ Invoke \/ TakeResult \/ FirstAttempt \/ ResumeArm \/ Precondition \/ Score \/ Read
  \/ Finish \/ Summarize \/ Killed \/ ExchangeInputs

-----------------------------------------------------------------------------
\* Type invariant: files and steps are of the shape the tool writes.
KVTypeOK ==
  /\ inputs \in 1 .. MaxInputs /\ calls \in 0 .. MaxCalls
  /\ \A t \in Types :
       /\ retries[t] # 1
       /\ stdout[t] # NoFile => stdout[t].samples = 5
       /\ result[t] # NoFile => result[t].measured.rows = "stable" /\ result[t].measured.ok
  /\ tool.step \in {"none", "look", "precondition", "score", "read", "finish", "summarize"}
  /\ tool.step \in {"read", "finish"} <=> tool.measured # NoFile
  /\ tool.step = "finish" => tool.measured.rows = "stable"

\* What the gates compare was measured with the same binary and the same
\* model, also if it was measured by several invocations.
GatesCompareSameInputs ==
  summary # NoFile =>
    \A t, u \in Types : summary.documents[t].inputs = summary.documents[u].inputs

\* A result is the first benchmark of its type, or one with more samples after
\* a first one that was too noisy: never a repetition of one that counted.
ResultIsEarned ==
  \A t \in Types : result[t] # NoFile =>
    IF result[t].measured.samples = 5
    THEN stdout[t] = result[t].measured /\ scored[t] = 1
    ELSE stdout[t].rows = "noisy"

\* A first benchmark that was stable is never replaced and never repeated,
\* even if the invocation died before it was made a result.
StableBenchmarkStays ==
  [][\A t \in Types : stdout[t] # NoFile /\ stdout[t].rows = "stable" =>
       stdout'[t] = stdout[t] /\ scored'[t] = scored[t]]_kvvars

\* Results are earned on the inputs they name, and a stable benchmark is never
\* measured again.
CampaignResultsAreEarned ==
  [](KVTypeOK /\ GatesCompareSameInputs /\ ResultIsEarned) /\ StableBenchmarkStays
=============================================================================
