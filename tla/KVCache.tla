------------------------------- MODULE KVCache -------------------------------
(***************************************************************************)
(* kv_cache.py: the types of the KV cache, the bytes they take, the plan   *)
(* that must fit the context, and the gate that compares a quantized cache *)
(* with F16.  Shares are compared by cross-multiplying integers.           *)
(***************************************************************************)
EXTENDS Naturals, Sequences

Arms == << "f16", "q8_0", "q4_0" >>
Types == { Arms[i] : i \in DOMAIN Arms }
Depths == { 4096, 16384, 28672 }
LongDepths == { 16384, 28672 }

\* kv_cache_bytes_for_geometry: K and V, in bytes or in blocks of 32 elements.
KVCacheBytes(geometry, depth, type) ==
  LET elements == depth * geometry.layers * geometry.kvHeads * geometry.headDim
  IN  2 * CASE type = "f16" -> elements * 2
            [] type = "q8_0" -> (elements \div 32) * 34
            [] type = "q4_0" -> (elements \div 32) * 18

\* qwen3_8b_kv_cache_bytes, written down a second time for one model.
QwenCacheBytes(depth, type) ==
  LET elements == depth * 36 * 8 * 128
      block == IF type = "q8_0" THEN 34 ELSE 18
  IN  IF type = "f16" THEN elements * 4 ELSE ((elements \div 32) * block) * 2

\* Mutant: only the model's context is looked at.
PlanFits_ModelOnly(geometry, runtime) ==
  /\ geometry.headDim % 32 = 0 /\ Types \subseteq runtime.types /\ runtime.flashAttention
  /\ 28672 + 128 <= geometry.context /\ runtime.minimumDepth + 1 <= geometry.context

\* build_kv_campaign_plan: the deepest benchmark and the canary must fit.
PlanFits(geometry, runtime) ==
  LET context == IF geometry.context < runtime.context THEN geometry.context ELSE runtime.context
  IN  /\ geometry.headDim % 32 = 0
      /\ Types \subseteq runtime.types /\ runtime.flashAttention
      /\ 28672 + 128 <= context
      /\ runtime.minimumDepth + 1 <= context

\* The candidate reaches this share of the baseline, in percent.
AtLeast(baseline, candidate, depth, percent) ==
  candidate[depth] * 100 >= baseline[depth] * percent

\* evaluate_kv_cache_gate; noisy benchmarks were refused when they were read.
KVGate(baseline, candidate) ==
  /\ AtLeast(baseline, candidate, 4096, 97)
  /\ \A d \in LongDepths : AtLeast(baseline, candidate, d, 100)
  /\ \E d \in LongDepths : AtLeast(baseline, candidate, d, 105)

-----------------------------------------------------------------------------
QwenGeometry == [layers |-> 36, kvHeads |-> 8, headDim |-> 128, context |-> 40960]

\* The bytes of the known model are those of its geometry, and fewer bits take
\* fewer bytes at every depth.
CacheBytesAgree(depth) ==
  LET bytes(type) == KVCacheBytes(QwenGeometry, depth, type)
  IN  /\ \A t \in Types : bytes(t) = QwenCacheBytes(depth, t)
      /\ bytes("q4_0") < bytes("q8_0") /\ bytes("q8_0") < bytes("f16")

\* A cache that is faster at some depth, and slower at none, passes where the
\* slower one passed; what passes is slower nowhere but at the smallest depth.
FasterStillPasses(baseline, candidate, faster) ==
  /\ KVGate(baseline, candidate) /\ (\A d \in Depths : faster[d] >= candidate[d]) => KVGate(baseline, faster)
  /\ KVGate(baseline, candidate) =>
       /\ ~KVGate(candidate, baseline)
       /\ \A d \in LongDepths : candidate[d] >= baseline[d]
\* What a plan would run fits the contexts of the model and of the runtime, and
\* what fits is planned: the canary, and each depth with 128 generated tokens.
PlannedDepthsFit(geometry, runtime) ==
  PlanFits(geometry, runtime) <=>
    /\ \A context \in {geometry.context, runtime.context} :
         /\ \A d \in Depths : d + 128 <= context
         /\ runtime.minimumDepth < context
    /\ Types \subseteq runtime.types
=============================================================================
