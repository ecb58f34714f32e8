----------------------- MODULE WorkflowEngine_proofs ------------------------
(***************************************************************************)
(* Proofs about the WorkflowEngine for every length of history and every   *)
(* number of reruns.                                                       *)
(*                                                                         *)
(* An accepted record's chain of evidence is built stage by stage, so the  *)
(* invariant has to speak of the records on the way there: an active one   *)
(* has the chain up to the stage it is at, and an inconclusive one still   *)
(* has all of it, because a rerun may resume from any point of it.         *)
(***************************************************************************)
EXTENDS WorkflowEngine, FiniteSetTheorems, TLAPS

ChainSoFar ==
  /\ status = "ACTIVE" =>
       /\ \A s \in WorkflowStage :
            s < stage => Seen(completions, s)
       /\ \A s \in WorkflowStage : s + 1 < stage => SupersededBySuccessor(completions, s)
  /\ status \in {"ACCEPTED", "INCONCLUSIVE"} =>
       \A s \in WorkflowStage \ {DECIDE} : SupersededBySuccessor(completions, s)

DecideFollowsQuality ==
  /\ OnlyRejectionSkipsQuality
  /\ status = "ACTIVE" /\ stage = DECIDE =>
       /\ completions # << >>
       /\ completions[Len(completions)].stage = QUALITY_VALIDATION

VerdictsPaidFor ==
  /\ OneVerdictPerAttempt
  /\ status = "ACTIVE" /\ stage > CREATE_EXPERIMENT =>
       Cardinality(CompletionsOf(completions, DECIDE)) + 1 <= experimentCount + rerunCount

USE DEF CREATE_TASK, CAPTURE_BASELINE, DISCOVER_HOTSPOTS, CLASSIFY_BOTTLENECK,
        ANALYZE_LIMIT, GENERATE_HYPOTHESIS, CREATE_EXPERIMENT, PATCH_AND_BUILD,
        E2E_VALIDATION, QUALITY_VALIDATION, DECIDE, WorkflowStage, NoStage

-----------------------------------------------------------------------------
(***************************************************************************)
(* Type correctness.                                                       *)
(***************************************************************************)

\* A verdict either closes the record with the matching status or, when it is
\* a rejection, sends an active record back for another hypothesis.
LEMMA ApplyDecisionCases ==
  ASSUME NEW decision \in GateDecision, NEW canContinue \in BOOLEAN,
         ApplyDecision(decision, canContinue)
  PROVE  \/ /\ decision.outcome = "REJECT"
            /\ stage' = GENERATE_HYPOTHESIS
            /\ UNCHANGED << status, terminalDecision >>
         \/ /\ stage' = DECIDE
            /\ terminalDecision' = decision
            /\ status' = StatusOf(decision.outcome)
  BY DEF ApplyDecision

LEMMA StatusOfDecision ==
  ASSUME NEW decision \in GateDecision
  PROVE  /\ StatusOf(decision.outcome) \in {"ACCEPTED", "REJECTED", "INCONCLUSIVE"}
         /\ decision # NoDecision
         /\ decision.outcome \in Outcome
         /\ StatusOf(decision.outcome) = "REJECTED" <=> decision.outcome = "REJECT"
  BY DEF GateDecision, StatusOf, NoDecision, NoOutcome, Outcome, RerunStages

LEMMA TypeInit == Init => TypeOK
  BY DEF Init, TypeOK, NoDecision, GateDecision

LEMMA TypeStep == TypeOK /\ [Next]_vars => TypeOK'
<1> SUFFICES ASSUME TypeOK, [Next]_vars PROVE TypeOK'
  OBVIOUS
<1> USE DEF TypeOK
<1>1. ASSUME NEW offer \in EvidenceOffers, NEW next \in WorkflowStage,
             CompleteStage(offer, next)
      PROVE  TypeOK'
  <2>1. Completed(stage) \in StageCompletion
    BY DEF Completed, StageCompletion
  <2> QED BY <1>1, <2>1 DEF CompleteStage
<1>2. ASSUME NEW offer \in EvidenceOffers, NEW decision \in GateDecision,
             NEW canContinue \in BOOLEAN,
             CompleteDecide(offer, decision, canContinue)
      PROVE  TypeOK'
  <2>1. Decided(decision.outcome) \in StageCompletion
    BY StatusOfDecision DEF Decided, StageCompletion
  <2>2. completions' \in Seq(StageCompletion)
    BY <1>2, <2>1 DEF CompleteDecide
  <2> QED BY <1>2, <2>2, ApplyDecisionCases, StatusOfDecision DEF CompleteDecide
<1>3. ASSUME NEW decision \in GateDecision, NEW canContinue \in BOOLEAN,
             CompletePerformanceRejection(decision, canContinue)
      PROVE  TypeOK'
  <2>1. /\ Decided(decision.outcome) \in StageCompletion
        /\ Completed(E2E_VALIDATION) \in StageCompletion
    BY StatusOfDecision DEF Decided, Completed, StageCompletion
  <2>2. completions' \in Seq(StageCompletion)
    BY <1>3, <2>1 DEF CompletePerformanceRejection
  <2> QED BY <1>3, <2>2, ApplyDecisionCases, StatusOfDecision
          DEF CompletePerformanceRejection
<1>4. ASSUME ResumeInconclusive PROVE TypeOK'
  BY <1>4 DEF ResumeInconclusive, GateDecision, NoDecision, RerunStages
<1>5. CASE UNCHANGED vars
  BY <1>5 DEF vars
<1> QED BY <1>1, <1>2, <1>3, <1>4, <1>5 DEF Next

\* The persisted record is well formed, and exactly the closed records carry
\* the decision that closed them.
THEOREM TypeCorrect == Spec => []TypeOK
<1>1. QED BY TypeInit, TypeStep, PTL DEF Spec

-----------------------------------------------------------------------------
(***************************************************************************)
(* What one more completion does to a history.                             *)
(***************************************************************************)

LEMMA AppendCompletion ==
  ASSUME NEW history \in Seq(StageCompletion), NEW c \in StageCompletion
  PROVE  LET longer == Append(history, c)
         IN  /\ longer \in Seq(StageCompletion)
             /\ Len(longer) = Len(history) + 1
             /\ DOMAIN longer = DOMAIN history \cup {Len(history) + 1}
             /\ \A i \in DOMAIN history : longer[i] = history[i]
             /\ longer[Len(history) + 1] = c
             /\ DOMAIN history = 1 .. Len(history)
  OBVIOUS

\* The number of completions of a stage grows by one exactly when it closes.
LEMMA CountCompletion ==
  ASSUME NEW history \in Seq(StageCompletion), NEW c \in StageCompletion,
         NEW s \in WorkflowStage
  PROVE  LET longer == Append(history, c)
             Before == CompletionsOf(history, s)
             After == CompletionsOf(longer, s)
         IN  /\ Cardinality(Before) \in Nat
             /\ c.stage = s => Cardinality(After) = Cardinality(Before) + 1
             /\ c.stage # s => Cardinality(After) = Cardinality(Before)
<1> DEFINE longer == Append(history, c)
           Before == CompletionsOf(history, s)
           After == CompletionsOf(longer, s)
<1> USE DEF CompletionsOf
<1>1. IsFiniteSet(Before)
  <2>1. IsFiniteSet(DOMAIN history)
    BY FS_Interval, AppendCompletion
  <2> QED BY <2>1, FS_Subset
<1>2. ASSUME c.stage = s PROVE Cardinality(After) = Cardinality(Before) + 1
  <2>1. After = Before \cup {Len(history) + 1}
    BY <1>2, AppendCompletion
  <2>2. Len(history) + 1 \notin Before
    BY AppendCompletion
  <2> QED BY <1>1, <2>1, <2>2, FS_AddElement
<1>3. ASSUME c.stage # s PROVE Cardinality(After) = Cardinality(Before)
  <2>1. After = Before
    BY <1>3, AppendCompletion
  <2> QED BY <2>1
<1>4. Cardinality(Before) \in Nat
  BY <1>1, FS_CardinalityType
<1> QED BY <1>2, <1>3, <1>4

\* A completion of another stage keeps a link of the chain.
LEMMA LinkKept ==
  ASSUME NEW history \in Seq(StageCompletion), NEW c \in StageCompletion,
         NEW s \in WorkflowStage, SupersededBySuccessor(history, s), c.stage # s
  PROVE  SupersededBySuccessor(Append(history, c), s)
  BY AppendCompletion DEF SupersededBySuccessor, Seen

\* A completion of the next stage makes the link.
LEMMA LinkMade ==
  ASSUME NEW history \in Seq(StageCompletion), NEW c \in StageCompletion,
         NEW s \in WorkflowStage, c.stage = s + 1,
         Seen(history, s)
  PROVE  SupersededBySuccessor(Append(history, c), s)
<1> DEFINE longer == Append(history, c)
<1>1. PICK i \in DOMAIN history : history[i].stage = s
  BY DEF Seen
<1>2. longer[i].stage = s /\ i \in DOMAIN longer
  BY <1>1, AppendCompletion
<1>3. /\ Len(history) + 1 \in DOMAIN longer
      /\ longer[Len(history) + 1].stage = s + 1
  BY AppendCompletion
<1>4. \A k \in DOMAIN longer : longer[k].stage = s => Len(history) + 1 > k
  BY AppendCompletion
<1> HIDE DEF longer
<1> QED BY <1>2, <1>3, <1>4 DEF SupersededBySuccessor, Seen, longer

LEMMA StageSeen ==
  ASSUME NEW history \in Seq(StageCompletion), NEW c \in StageCompletion,
         NEW s \in WorkflowStage,
         Seen(history, s) \/ c.stage = s
  PROVE  Seen(Append(history, c), s)
  BY AppendCompletion DEF Seen

-----------------------------------------------------------------------------
(***************************************************************************)
(* The chain of evidence.                                                  *)
(***************************************************************************)

LEMMA ChainInit == Init => ChainSoFar
  BY DEF Init, ChainSoFar

\* An unbroken chain down to DECIDE, as a rejection leaves it to the next
\* hypothesis and an inconclusive verdict to its rerun.
WholeChain(history) ==
  \A s \in WorkflowStage : s # DECIDE => SupersededBySuccessor(history, s)

LEMMA WholeChainServes ==
  ASSUME NEW history, WholeChain(history),
         NEW next \in WorkflowStage, NEW s \in WorkflowStage
  PROVE  /\ s < next => Seen(history, s)
         /\ s + 1 < next => SupersededBySuccessor(history, s)
  BY DEF WholeChain, SupersededBySuccessor

LEMMA ChainStep == TypeOK /\ ChainSoFar /\ [Next]_vars => ChainSoFar'
<1> SUFFICES ASSUME TypeOK, ChainSoFar, [Next]_vars PROVE ChainSoFar'
  OBVIOUS
<1>t. completions \in Seq(StageCompletion) /\ stage \in WorkflowStage
  BY DEF TypeOK
<1>a. ASSUME status = "ACTIVE", NEW s \in WorkflowStage
      PROVE  /\ s < stage => Seen(completions, s)
             /\ s + 1 < stage => SupersededBySuccessor(completions, s)
  BY <1>a DEF ChainSoFar
<1>1. ASSUME NEW offer \in EvidenceOffers, NEW next \in WorkflowStage,
             CompleteStage(offer, next)
      PROVE  ChainSoFar'
  <2> DEFINE c == Completed(stage)
  <2>1. /\ c \in StageCompletion
        /\ c.stage = stage
        /\ completions' = Append(completions, c)
        /\ status = "ACTIVE" /\ status' = "ACTIVE"
        /\ stage' \in WorkflowStage /\ stage' <= stage + 1
    BY <1>1, <1>t DEF CompleteStage, Completed, StageCompletion,
                      PermittedNextStages, DeeperProfileStages
  <2> HIDE DEF c
  <2>2. ASSUME NEW s \in WorkflowStage, s < stage'
        PROVE  Seen(completions', s)
    <3>1. s < stage \/ s = stage
      BY <2>1, <2>2, <1>t
    <3> QED BY <2>1, <3>1, <1>a, <1>t, StageSeen
  <2>3. ASSUME NEW s \in WorkflowStage, s + 1 < stage'
        PROVE  SupersededBySuccessor(completions', s)
    <3>1. CASE s + 1 = stage
      <4>1. Seen(completions, s)
        BY <2>1, <3>1, <1>a, <1>t
      <4> QED BY <2>1, <3>1, <4>1, <1>t, LinkMade
    <3>2. CASE s + 1 < stage
      <4>1. SupersededBySuccessor(completions, s) /\ s # stage
        BY <2>1, <3>2, <1>a, <1>t
      <4> QED BY <2>1, <4>1, <1>t, LinkKept
    <3> QED BY <2>1, <2>3, <3>1, <3>2, <1>t
  <2> QED BY <2>1, <2>2, <2>3 DEF ChainSoFar
<1>2. ASSUME NEW offer \in EvidenceOffers, NEW decision \in GateDecision,
             NEW canContinue \in BOOLEAN,
             CompleteDecide(offer, decision, canContinue)
      PROVE  ChainSoFar'
  <2> DEFINE c == Decided(decision.outcome)
  <2>1. /\ c \in StageCompletion
        /\ c.stage = DECIDE
        /\ completions' = Append(completions, c)
        /\ status = "ACTIVE" /\ stage = DECIDE
    BY <1>2, StatusOfDecision DEF CompleteDecide, Decided, StageCompletion
  <2> HIDE DEF c
  <2>2. ASSUME NEW s \in WorkflowStage, s # DECIDE
        PROVE  SupersededBySuccessor(completions', s)
    <3>1. CASE s + 1 = DECIDE
      <4>1. Seen(completions, s)
        BY <2>1, <3>1, <1>a
      <4> QED BY <2>1, <3>1, <4>1, <1>t, LinkMade
    <3>2. CASE s + 1 < DECIDE
      <4>1. SupersededBySuccessor(completions, s)
        BY <2>1, <3>2, <1>a
      <4> QED BY <2>1, <2>2, <4>1, <1>t, LinkKept
    <3> QED BY <2>2, <3>1, <3>2
  <2>3. WholeChain(completions')
    BY <2>2 DEF WholeChain
  <2>4. stage' \in WorkflowStage
    BY <1>2, ApplyDecisionCases DEF CompleteDecide
  <2> QED BY <2>2, <2>3, <2>4, WholeChainServes DEF ChainSoFar
<1>3. ASSUME NEW decision \in GateDecision, NEW canContinue \in BOOLEAN,
             CompletePerformanceRejection(decision, canContinue)
      PROVE  ChainSoFar'
  <2> DEFINE c == Completed(E2E_VALIDATION)
             d == Decided(decision.outcome)
             mid == Append(completions, c)
  <2>1. /\ c \in StageCompletion /\ c.stage = E2E_VALIDATION
        /\ d \in StageCompletion /\ d.stage = DECIDE
        /\ completions' = Append(mid, d)
        /\ status = "ACTIVE" /\ stage = E2E_VALIDATION
        /\ decision.outcome = "REJECT"
    BY <1>3, StatusOfDecision
       DEF CompletePerformanceRejection, Completed, Decided, StageCompletion
  <2> HIDE DEF c, d
  <2>2. mid \in Seq(StageCompletion)
    BY <2>1, <1>t
  <2>3. ASSUME NEW s \in WorkflowStage, s < GENERATE_HYPOTHESIS
        PROVE  Seen(completions', s)
    <3>1. Seen(mid, s)
      BY <2>1, <2>3, <1>a, <1>t, StageSeen
    <3> HIDE DEF mid
    <3> QED BY <2>1, <2>2, <3>1, StageSeen
  <2>4. ASSUME NEW s \in WorkflowStage, s + 1 < GENERATE_HYPOTHESIS
        PROVE  SupersededBySuccessor(completions', s)
    <3>1. SupersededBySuccessor(completions, s) /\ s # E2E_VALIDATION /\ s # DECIDE
      BY <2>1, <2>4, <1>a
    <3>2. SupersededBySuccessor(mid, s)
      BY <2>1, <3>1, <1>t, LinkKept
    <3> HIDE DEF mid
    <3> QED BY <2>1, <2>2, <3>1, <3>2, LinkKept
  <2>5. \/ status' = "ACTIVE" /\ stage' = GENERATE_HYPOTHESIS
        \/ status' = "REJECTED"
    BY <1>3, <2>1, ApplyDecisionCases, StatusOfDecision
       DEF CompletePerformanceRejection
  <2> QED BY <2>3, <2>4, <2>5 DEF ChainSoFar
<1>4. ASSUME ResumeInconclusive PROVE ChainSoFar'
  <2>1. /\ completions' = completions
        /\ stage' \in WorkflowStage /\ status' = "ACTIVE"
    BY <1>4 DEF ResumeInconclusive, TypeOK, GateDecision, NoDecision, RerunStages
  <2>2. WholeChain(completions)
    BY <1>4 DEF ResumeInconclusive, ChainSoFar, WholeChain
  <2> QED BY <2>1, <2>2, WholeChainServes DEF ChainSoFar
<1>5. CASE UNCHANGED vars
  BY <1>5 DEF vars, ChainSoFar
<1> QED BY <1>1, <1>2, <1>3, <1>4, <1>5 DEF Next

\* Whatever loops, rejections and reruns came before, an accepted record has
\* for every stage a latest evidence older than that of the next stage.
THEOREM AcceptedFresh == Spec => []AcceptedRestsOnFreshChain
<1>1. TypeOK /\ ChainSoFar /\ [Next]_vars => (TypeOK /\ ChainSoFar)'
  BY TypeStep, ChainStep
<1>2. ChainSoFar => AcceptedRestsOnFreshChain
  BY DEF ChainSoFar, AcceptedRestsOnFreshChain
<1> QED BY <1>1, <1>2, TypeInit, ChainInit, PTL DEF Spec

-----------------------------------------------------------------------------
(***************************************************************************)
(* Skipped quality.                                                        *)
(***************************************************************************)

LEMMA QualityInit == Init => DecideFollowsQuality
  BY DEF Init, DecideFollowsQuality, OnlyRejectionSkipsQuality

LEMMA QualityStep == TypeOK /\ DecideFollowsQuality /\ [Next]_vars => DecideFollowsQuality'
<1> SUFFICES ASSUME TypeOK, DecideFollowsQuality, [Next]_vars
             PROVE  DecideFollowsQuality'
  OBVIOUS
<1>t. completions \in Seq(StageCompletion) /\ stage \in WorkflowStage
  BY DEF TypeOK
<1>o. ASSUME NEW i \in DOMAIN completions, completions[i].stage = DECIDE
      PROVE  /\ i > 1
             /\ \/ completions[i - 1].stage = QUALITY_VALIDATION
                \/ /\ completions[i - 1].stage = E2E_VALIDATION
                   /\ completions[i].outcome = "REJECT"
  BY <1>o DEF DecideFollowsQuality, OnlyRejectionSkipsQuality
<1>1. ASSUME NEW offer \in EvidenceOffers, NEW next \in WorkflowStage,
             CompleteStage(offer, next)
      PROVE  DecideFollowsQuality'
  <2> DEFINE c == Completed(stage)
  <2>1. /\ c \in StageCompletion
        /\ c.stage = stage /\ stage # DECIDE
        /\ completions' = Append(completions, c)
        /\ stage' = DECIDE => stage = QUALITY_VALIDATION
    BY <1>1, <1>t DEF CompleteStage, Completed, StageCompletion,
                      PermittedNextStages, DeeperProfileStages
  <2> HIDE DEF c
  <2>2. OnlyRejectionSkipsQuality'
    BY <2>1, <1>t, <1>o, AppendCompletion DEF OnlyRejectionSkipsQuality
  <2>3. stage' = DECIDE =>
          /\ completions' # << >>
          /\ completions'[Len(completions')].stage = QUALITY_VALIDATION
    BY <2>1, <1>t, AppendCompletion
  <2> QED BY <2>2, <2>3 DEF DecideFollowsQuality
<1>2. ASSUME NEW offer \in EvidenceOffers, NEW decision \in GateDecision,
             NEW canContinue \in BOOLEAN,
             CompleteDecide(offer, decision, canContinue)
      PROVE  DecideFollowsQuality'
  <2> DEFINE c == Decided(decision.outcome)
             n == Len(completions)
  <2>1. /\ c \in StageCompletion
        /\ completions' = Append(completions, c)
        /\ status = "ACTIVE" /\ stage = DECIDE
    BY <1>2, StatusOfDecision DEF CompleteDecide, Decided, StageCompletion
  <2>2. n \in DOMAIN completions /\ completions[n].stage = QUALITY_VALIDATION
    BY <2>1, <1>t DEF DecideFollowsQuality
  <2> HIDE DEF c
  <2>3. OnlyRejectionSkipsQuality'
    BY <2>1, <2>2, <1>t, <1>o, AppendCompletion DEF OnlyRejectionSkipsQuality
  <2>4. ~(status' = "ACTIVE" /\ stage' = DECIDE)
    BY <1>2, <2>1, ApplyDecisionCases, StatusOfDecision DEF CompleteDecide
  <2> QED BY <2>3, <2>4 DEF DecideFollowsQuality
<1>3. ASSUME NEW decision \in GateDecision, NEW canContinue \in BOOLEAN,
             CompletePerformanceRejection(decision, canContinue)
      PROVE  DecideFollowsQuality'
  <2> DEFINE c == Completed(E2E_VALIDATION)
             d == Decided(decision.outcome)
             mid == Append(completions, c)
  <2>1. /\ c \in StageCompletion /\ c.stage = E2E_VALIDATION
        /\ d \in StageCompletion /\ d.outcome = "REJECT"
        /\ completions' = Append(mid, d)
    BY <1>3, StatusOfDecision
       DEF CompletePerformanceRejection, Completed, Decided, StageCompletion
  <2> HIDE DEF c, d
  <2>2. /\ mid \in Seq(StageCompletion)
        /\ DOMAIN mid = DOMAIN completions \cup {Len(completions) + 1}
        /\ DOMAIN completions = 1 .. Len(completions)
        /\ Len(mid) = Len(completions) + 1
        /\ \A i \in DOMAIN completions : mid[i] = completions[i]
        /\ mid[Len(completions) + 1].stage = E2E_VALIDATION
    BY <2>1, <1>t, AppendCompletion
  <2> HIDE DEF mid
  <2>3. /\ DOMAIN completions' = DOMAIN mid \cup {Len(mid) + 1}
        /\ \A i \in DOMAIN mid : completions'[i] = mid[i]
        /\ completions'[Len(mid) + 1].outcome = "REJECT"
    BY <2>1, <2>2, AppendCompletion
  <2>4. ASSUME NEW i \in DOMAIN completions', completions'[i].stage = DECIDE
        PROVE  /\ i > 1
               /\ \/ completions'[i - 1].stage = QUALITY_VALIDATION
                  \/ /\ completions'[i - 1].stage = E2E_VALIDATION
                     /\ completions'[i].outcome = "REJECT"
    <3>1. CASE i \in DOMAIN completions
      <4>1. completions[i].stage = DECIDE /\ completions'[i] = completions[i]
        BY <2>2, <2>3, <2>4, <3>1
      <4>2. i > 1 /\ i - 1 \in DOMAIN completions
        BY <2>2, <3>1, <4>1, <1>o, <1>t
      <4>3. completions'[i - 1] = completions[i - 1]
        BY <2>2, <2>3, <4>2
      <4> QED BY <3>1, <4>1, <4>2, <4>3, <1>o
    <3>2. CASE i = Len(completions) + 1
      <4>1. completions'[i].stage = E2E_VALIDATION
        BY <2>2, <2>3, <3>2
      <4> QED BY <2>4, <4>1
    <3>3. CASE i = Len(mid) + 1
      BY <2>2, <2>3, <3>3, <1>t
    <3> QED BY <2>2, <2>3, <3>1, <3>2, <3>3
  <2>5. OnlyRejectionSkipsQuality'
    BY <2>4 DEF OnlyRejectionSkipsQuality
  <2>6. ~(status' = "ACTIVE" /\ stage' = DECIDE)
    BY <1>3, ApplyDecisionCases, StatusOfDecision DEF CompletePerformanceRejection
  <2> QED BY <2>5, <2>6 DEF DecideFollowsQuality
<1>4. ASSUME ResumeInconclusive PROVE DecideFollowsQuality'
  <2>1. completions' = completions /\ stage' # DECIDE
    BY <1>4 DEF ResumeInconclusive, TypeOK, GateDecision, NoDecision, RerunStages
  <2> QED BY <2>1 DEF DecideFollowsQuality, OnlyRejectionSkipsQuality
<1>5. CASE UNCHANGED vars
  BY <1>5 DEF vars, DecideFollowsQuality, OnlyRejectionSkipsQuality
<1> QED BY <1>1, <1>2, <1>3, <1>4, <1>5 DEF Next

\* Only a rejection is ever decided without quality evidence just before it.
THEOREM QualitySkippedOnlyToReject == Spec => []OnlyRejectionSkipsQuality
<1>1. TypeOK /\ DecideFollowsQuality /\ [Next]_vars => (TypeOK /\ DecideFollowsQuality)'
  BY TypeStep, QualityStep
<1>2. DecideFollowsQuality => OnlyRejectionSkipsQuality
  BY DEF DecideFollowsQuality
<1> QED BY <1>1, <1>2, TypeInit, QualityInit, PTL DEF Spec

-----------------------------------------------------------------------------
(***************************************************************************)
(* Verdicts and attempts.                                                  *)
(***************************************************************************)

Verdicts(history) == Cardinality(CompletionsOf(history, DECIDE))

LEMMA VerdictsInit == Init => VerdictsPaidFor
<1> SUFFICES ASSUME Init PROVE VerdictsPaidFor
  OBVIOUS
<1>1. CompletionsOf(completions, DECIDE) = {}
  BY DEF Init, CompletionsOf
<1> QED BY <1>1, FS_EmptySet DEF Init, VerdictsPaidFor, OneVerdictPerAttempt

LEMMA VerdictsStep == TypeOK /\ VerdictsPaidFor /\ [Next]_vars => VerdictsPaidFor'
<1> SUFFICES ASSUME TypeOK, VerdictsPaidFor, [Next]_vars PROVE VerdictsPaidFor'
  OBVIOUS
<1>t. /\ completions \in Seq(StageCompletion) /\ stage \in WorkflowStage
      /\ experimentCount \in Nat /\ rerunCount \in Nat
  BY DEF TypeOK
<1>n. ASSUME NEW history \in Seq(StageCompletion), NEW c \in StageCompletion
      PROVE  /\ Verdicts(history) \in Nat
             /\ c.stage = DECIDE => Verdicts(Append(history, c)) = Verdicts(history) + 1
             /\ c.stage # DECIDE => Verdicts(Append(history, c)) = Verdicts(history)
  BY CountCompletion DEF Verdicts
<1>o. /\ Verdicts(completions) <= experimentCount + rerunCount
      /\ status = "ACTIVE" /\ stage > CREATE_EXPERIMENT =>
           Verdicts(completions) + 1 <= experimentCount + rerunCount
  BY DEF VerdictsPaidFor, OneVerdictPerAttempt, Verdicts
<1>p. ASSUME Verdicts(completions') <= experimentCount' + rerunCount',
             status' = "ACTIVE" /\ stage' > CREATE_EXPERIMENT =>
               Verdicts(completions') + 1 <= experimentCount' + rerunCount'
      PROVE  VerdictsPaidFor'
  BY <1>p DEF VerdictsPaidFor, OneVerdictPerAttempt, Verdicts
<1>1. ASSUME NEW offer \in EvidenceOffers, NEW next \in WorkflowStage,
             CompleteStage(offer, next)
      PROVE  VerdictsPaidFor'
  <2>1. /\ Completed(stage) \in StageCompletion
        /\ Completed(stage).stage # DECIDE
        /\ completions' = Append(completions, Completed(stage))
        /\ status = "ACTIVE" /\ rerunCount' = rerunCount
        /\ experimentCount' =
             IF stage = CREATE_EXPERIMENT THEN experimentCount + 1 ELSE experimentCount
        /\ stage' <= stage + 1 /\ stage' \in WorkflowStage
    BY <1>1, <1>t DEF CompleteStage, Completed, StageCompletion,
                      PermittedNextStages, DeeperProfileStages
  <2>2. Verdicts(completions') = Verdicts(completions) /\ Verdicts(completions) \in Nat
    BY <2>1, <1>n, <1>t
  <2> QED BY <2>1, <2>2, <1>o, <1>p, <1>t
<1>2. ASSUME NEW offer \in EvidenceOffers, NEW decision \in GateDecision,
             NEW canContinue \in BOOLEAN,
             CompleteDecide(offer, decision, canContinue)
      PROVE  VerdictsPaidFor'
  <2> DEFINE c == Decided(decision.outcome)
  <2>1. /\ c \in StageCompletion /\ c.stage = DECIDE
        /\ completions' = Append(completions, c)
        /\ status = "ACTIVE" /\ stage = DECIDE
        /\ UNCHANGED << experimentCount, rerunCount >>
    BY <1>2, StatusOfDecision DEF CompleteDecide, Decided, StageCompletion
  <2> HIDE DEF c
  <2>2. Verdicts(completions') = Verdicts(completions) + 1
    BY <2>1, <1>n, <1>t
  <2>3. ~(status' = "ACTIVE" /\ stage' > CREATE_EXPERIMENT)
    BY <1>2, ApplyDecisionCases, StatusOfDecision DEF CompleteDecide
  <2> QED BY <2>1, <2>2, <2>3, <1>o, <1>p, <1>t
<1>3. ASSUME NEW decision \in GateDecision, NEW canContinue \in BOOLEAN,
             CompletePerformanceRejection(decision, canContinue)
      PROVE  VerdictsPaidFor'
  <2> DEFINE c == Completed(E2E_VALIDATION)
             d == Decided(decision.outcome)
             mid == Append(completions, c)
  <2>1. /\ c \in StageCompletion /\ c.stage # DECIDE
        /\ d \in StageCompletion /\ d.stage = DECIDE
        /\ completions' = Append(mid, d)
        /\ status = "ACTIVE" /\ stage = E2E_VALIDATION
        /\ UNCHANGED << experimentCount, rerunCount >>
    BY <1>3, StatusOfDecision
       DEF CompletePerformanceRejection, Completed, Decided, StageCompletion
  <2> HIDE DEF c, d
  <2>2. mid \in Seq(StageCompletion) /\ Verdicts(mid) = Verdicts(completions)
    BY <2>1, <1>n, <1>t
  <2> HIDE DEF mid
  <2>3. Verdicts(completions') = Verdicts(completions) + 1
    BY <2>1, <2>2, <1>n
  <2>4. ~(status' = "ACTIVE" /\ stage' > CREATE_EXPERIMENT)
    BY <1>3, ApplyDecisionCases, StatusOfDecision DEF CompletePerformanceRejection
  <2> QED BY <2>1, <2>3, <2>4, <1>o, <1>p, <1>t
<1>4. ASSUME ResumeInconclusive PROVE VerdictsPaidFor'
  <2>1. /\ completions' = completions
        /\ rerunCount' = rerunCount + 1 /\ experimentCount' = experimentCount
    BY <1>4 DEF ResumeInconclusive
  <2>2. Verdicts(completions) \in Nat
    <3>1. Completed(stage) \in StageCompletion
      BY <1>t DEF Completed, StageCompletion
    <3> QED BY <3>1, <1>n, <1>t
  <2> QED BY <2>1, <2>2, <1>o, <1>p, <1>t
<1>5. CASE UNCHANGED vars
  BY <1>5, <1>o, <1>p DEF vars
<1> QED BY <1>1, <1>2, <1>3, <1>4, <1>5 DEF Next

\* Every verdict is paid for by a new experiment or by an explicit rerun.
THEOREM VerdictsPaid == Spec => []OneVerdictPerAttempt
<1>1. TypeOK /\ VerdictsPaidFor /\ [Next]_vars => (TypeOK /\ VerdictsPaidFor)'
  BY TypeStep, VerdictsStep
<1>2. VerdictsPaidFor => OneVerdictPerAttempt
  BY DEF VerdictsPaidFor
<1> QED BY <1>1, <1>2, TypeInit, VerdictsInit, PTL DEF Spec

-----------------------------------------------------------------------------
(***************************************************************************)
(* Finality.                                                               *)
(***************************************************************************)

FinalStep ==
  /\ Len(completions) <= Len(completions')
  /\ \A i \in DOMAIN completions : completions'[i] = completions[i]
  /\ status \notin {"ACCEPTED", "REJECTED"}

LEMMA FinalNext == TypeOK /\ Next => FinalStep
<1> SUFFICES ASSUME TypeOK, Next PROVE FinalStep
  OBVIOUS
<1>t. completions \in Seq(StageCompletion) /\ stage \in WorkflowStage
  BY DEF TypeOK
<1>1. ASSUME NEW c \in StageCompletion, completions' = Append(completions, c)
      PROVE  /\ Len(completions) <= Len(completions')
             /\ \A i \in DOMAIN completions : completions'[i] = completions[i]
  BY <1>1, <1>t, AppendCompletion
<1>2. ASSUME NEW offer \in EvidenceOffers, NEW next \in WorkflowStage,
             CompleteStage(offer, next)
      PROVE  FinalStep
  <2>1. Completed(stage) \in StageCompletion
    BY <1>t DEF Completed, StageCompletion
  <2> QED BY <1>1, <1>2, <2>1 DEF CompleteStage, FinalStep
<1>3. ASSUME NEW offer \in EvidenceOffers, NEW decision \in GateDecision,
             NEW canContinue \in BOOLEAN,
             CompleteDecide(offer, decision, canContinue)
      PROVE  FinalStep
  <2>1. Decided(decision.outcome) \in StageCompletion
    BY StatusOfDecision DEF Decided, StageCompletion
  <2> QED BY <1>1, <1>3, <2>1 DEF CompleteDecide, FinalStep
<1>4. ASSUME NEW decision \in GateDecision, NEW canContinue \in BOOLEAN,
             CompletePerformanceRejection(decision, canContinue)
      PROVE  FinalStep
  <2> DEFINE c == Completed(E2E_VALIDATION)
             d == Decided(decision.outcome)
             mid == Append(completions, c)
  <2>1. /\ c \in StageCompletion /\ d \in StageCompletion
        /\ completions' = Append(mid, d)
        /\ status = "ACTIVE"
    BY <1>4, StatusOfDecision
       DEF CompletePerformanceRejection, Completed, Decided, StageCompletion
  <2> HIDE DEF c, d
  <2>2. /\ mid \in Seq(StageCompletion)
        /\ Len(mid) = Len(completions) + 1
        /\ DOMAIN mid = DOMAIN completions \cup {Len(completions) + 1}
        /\ \A i \in DOMAIN completions : mid[i] = completions[i]
    BY <2>1, <1>t, AppendCompletion
  <2> HIDE DEF mid
  <2>3. /\ Len(completions') = Len(mid) + 1
        /\ \A i \in DOMAIN mid : completions'[i] = mid[i]
    BY <2>1, <2>2, AppendCompletion
  <2> QED BY <2>1, <2>2, <2>3, <1>t DEF FinalStep
<1>5. ASSUME ResumeInconclusive PROVE FinalStep
  BY <1>5, <1>t DEF ResumeInconclusive, FinalStep
<1> QED BY <1>2, <1>3, <1>4, <1>5 DEF Next

\* No step rewrites history or reopens an accepted or rejected record.
THEOREM Finality == Spec => HistoryIsFinal
<1>1. TypeOK /\ [Next]_vars => [FinalStep]_vars
  BY FinalNext
<1> QED BY <1>1, TypeInit, TypeStep, PTL DEF Spec, HistoryIsFinal, FinalStep

-----------------------------------------------------------------------------
\* The record is well typed and its verdicts are paid for and evidenced.
THEOREM HonestVerdicts == Spec => []VerdictsAreHonest
BY TypeCorrect, QualitySkippedOnlyToReject, VerdictsPaid, PTL DEF VerdictsAreHonest
=============================================================================
