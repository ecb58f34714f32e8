------------------------- MODULE MCGatedExperiment --------------------------
(***************************************************************************)
(* GatedExperiment on the documents that deviate from a sound experiment   *)
(* in a few fields: one of the baseline, and one of the candidate or one   *)
(* of its quality result, under tasks that drop one requirement or more.   *)
(***************************************************************************)
EXTENDS GatedExperiment

OneMetric == {"throughput"}
None == NoValue

\* All the records that differ from r in one field, and r.
Vary(r, options) ==
  {r} \cup UNION { { [r EXCEPT ![f] = v] : v \in options[f] } : f \in DOMAIN options }

Series(n, mean, variation) ==
  [throughput |-> [samples |-> n, mean |-> mean, variation |-> variation]]
Benchmark(series) == [status |-> "SUCCEEDED", series |-> series]

GoodQuality ==
  [ status |-> "SUCCEEDED", correct |-> TRUE, coordinates |-> "c1",
    reused |-> FALSE, representation |-> "r1", reusedRepresentation |-> None,
    perplexity |-> 10, accuracy |-> 80 ]

Qualities ==
  {None} \cup
  Vary(GoodQuality,
       [ status |-> {"FAILED", "SKIPPED"}, correct |-> {None, FALSE},
         coordinates |-> {None, "c2"}, perplexity |-> {None, 11, 12},
         accuracy |-> {None, 79, 78} ])
  \cup { [GoodQuality EXCEPT !.reused = TRUE, !.reusedRepresentation = r] :
           r \in {None, "r1", "r2"} }

Strict ==
  [ requireTelemetry |-> TRUE, requireFreshCapture |-> TRUE, requireIdentity |-> TRUE,
    protocol |-> "p1", requireCorrectness |-> TRUE, requireQuality |-> TRUE,
    perplexityBudget |-> 10, accuracyBudget |-> 1,
    objective |-> [throughput |-> [maximize |-> TRUE, minimum |-> 5]] ]

\* The strict task with one requirement dropped, and with no quality at all.
MCTasks ==
  Vary(Strict, [ requireTelemetry |-> {FALSE}, requireIdentity |-> {FALSE},
                 protocol |-> {None}, requireCorrectness |-> {FALSE},
                 requireQuality |-> {FALSE}, perplexityBudget |-> {None} ])
  \cup { [Strict EXCEPT !.requireCorrectness = FALSE, !.requireQuality = FALSE] }

GoodBaseline ==
  [ fields |-> "f1", model |-> "m1", telemetryStable |-> TRUE, capture |-> "b",
    identity |-> [model |-> "m1", binary |-> "x", protocol |-> "p1"],
    build |-> "SUCCEEDED", smoke |-> TRUE,
    benchmark |-> Benchmark(Series(3, 20, 1)), quality |-> GoodQuality ]

GoodCandidate ==
  [ observed |-> TRUE, declared |-> FALSE, sourceModel |-> None,
    fields |-> "f1", model |-> "m1", telemetryStable |-> TRUE, capture |-> "c",
    identity |-> [model |-> "m1", binary |-> "x", protocol |-> "p1"],
    build |-> "SUCCEEDED", smoke |-> TRUE,
    benchmark |-> Benchmark(Series(3, 21, 1)), quality |-> GoodQuality ]

Unusable ==
  { None, [status |-> "FAILED", series |-> Series(0, 0, 0)],
    Benchmark(Series(2, 20, 1)), Benchmark(Series(3, 20, 3)), Benchmark(Series(3, 0, 0)),
    Benchmark([throughput |-> None]) }

MCBaselines ==
  Vary(GoodBaseline,
       [ fields |-> {None}, build |-> {"REUSED", "FAILED", "SKIPPED"},
         smoke |-> {FALSE}, identity |-> {None}, capture |-> {None},
         benchmark |-> Unusable \ {None}, quality |-> {None} ])

\* The baselines of the vLLM campaign, whose build is always reused and whose
\* smoke test always passed, with a benchmark that may be too noisy.
NoisyBaselines ==
  Vary([GoodBaseline EXCEPT !.build = "REUSED"],
       [benchmark |-> {Benchmark(Series(3, 20, 3))}])

Requantized ==
  [ GoodCandidate EXCEPT !.declared = TRUE, !.sourceModel = "m1", !.model = "m2",
                         !.identity.model = "m2" ]

MCCandidates ==
  LET changes ==
        [ observed |-> {FALSE}, fields |-> {"f2"}, model |-> {"m2"},
          capture |-> {"b"}, telemetryStable |-> {FALSE},
          identity |-> {None, [model |-> "m1", binary |-> "y", protocol |-> "p1"],
                        [model |-> "m1", binary |-> "x", protocol |-> "p2"]},
          build |-> {"REUSED", "FAILED", "TIMED_OUT", "SKIPPED"},
          smoke |-> {None, FALSE},
          benchmark |-> Unusable \cup { Benchmark(Series(3, 20, 1)) } ]
  IN  Vary(GoodCandidate, changes)
        \cup { [c EXCEPT !.quality = q] :
                  c \in {GoodCandidate, [GoodCandidate EXCEPT !.build = "REUSED"]},
                  q \in Qualities }
        \cup Vary(Requantized, [declared |-> {FALSE}, sourceModel |-> {None, "m2"},
                                quality |-> {None}])
=============================================================================
