---------------------------- MODULE KernelEvidence ----------------------------
(***************************************************************************)
(* What a profile of kernels says: dispatches grouped by kernel and launch *)
(* (shape_kernels.py), groups attributed to tensor shapes by rules         *)
(* (kernel_manifest.py), and the matrix instructions and the gap of a      *)
(* shape (mfma_mmq.py).                                                    *)
(*                                                                         *)
(* A launch is a grid with its workgroup, one value; a kernel's id and     *)
(* name, an instruction and a rule's regular expression are values.  Unknown   *)
(* is a None of the evidence.                                              *)
(***************************************************************************)
EXTENDS Integers, Sequences, FiniteSets, FiniteSetsExt, SequencesExt, Refusals

-----------------------------------------------------------------------------
(* Groups of dispatches                                                    *)

\* A kernel is its id, or its name without one; the name stays in the key, as
\* one id may be used for two symbols.
KeyOf(row) == [id |-> row.id, name |-> row.name, launch |-> row.launch]

\* Without a total, the average or the old field of the row.
McpDuration(row) ==
  IF row.total # Unknown THEN row.total
  ELSE IF row.average # Unknown THEN row.average * row.count
  ELSE IF row.us # Unknown THEN 1000 * row.us
  ELSE Unknown

\* _add_group: an unknown duration makes that of the group unknown for good.
AddGroup(groups, key, count, ns) ==
  LET old == IF key \in DOMAIN groups THEN groups[key] ELSE [count |-> 0, ns |-> 0]
      new == [count |-> old.count + count,
              ns |-> IF ns = Unknown \/ old.ns = Unknown THEN Unknown ELSE old.ns + ns]
  IN  [k \in DOMAIN groups \cup {key} |-> IF k = key THEN new ELSE groups[k]]

NoGroups == [k \in {} |-> {}]

\* Rows of the raw trace, one dispatch each.
GroupRawDispatchRows(rows) ==
  IF \E i \in DOMAIN rows : rows[i].end < rows[i].start THEN Refused
  ELSE FoldLeft(LAMBDA groups, row : AddGroup(groups, KeyOf(row), 1, row.end - row.start), NoGroups, rows)

\* Rows of the MCP result; one that counts nothing is skipped.
GroupMcpKernelEvidence(rows) ==
  FoldLeft(LAMBDA groups, row : IF row.count = 0 THEN groups
                                ELSE AddGroup(groups, KeyOf(row), row.count, McpDuration(row)),
           NoGroups, rows)

-----------------------------------------------------------------------------
(* The manifest of shapes                                                  *)

RuleMatches(rule, key) ==
  /\ key.name \in rule.names
  /\ rule.id = Unknown \/ rule.id = key.id
  /\ rule.launch = Unknown \/ rule.launch = key.launch

\* The share of GPU time that the last row of a key reports.
ShareOf(rows, key) ==
  LET last == Max({ i \in DOMAIN rows : KeyOf(rows[i]) = key })
  IN  IF rows[last].share \in 0 .. 100 THEN rows[last].share ELSE Unknown

Attribution(rules, key) ==
  LET matched == { i \in DOMAIN rules : RuleMatches(rules[i], key) }
  IN  IF Cardinality(matched) = 1
      THEN [status |-> "EXACT_RULE", coordinate |-> rules[CHOOSE i \in matched : TRUE].coordinate]
      ELSE [status |-> IF matched = {} THEN "UNRESOLVED" ELSE "AMBIGUOUS", coordinate |-> Unknown]

BuildKernelShapeManifest(rows, rules) ==
  LET groups == GroupMcpKernelEvidence(rows)
      variants == [key \in DOMAIN groups |->
                     [ attribution |-> Attribution(rules, key), count |-> groups[key].count,
                       ns |-> groups[key].ns, share |-> ShareOf(rows, key) ]]
      Count(status) == Cardinality({ key \in DOMAIN variants : variants[key].attribution.status = status })
  IN  [ variants |-> variants, resolved |-> Count("EXACT_RULE"), unresolved |-> Count("UNRESOLVED"),
        ambiguous |-> Count("AMBIGUOUS") ]

-----------------------------------------------------------------------------
(* Matrix instructions                                                     *)

\* The opcodes of the first symbol block that the marker names.  A line is a
\* label, with the kernel it names, or an instruction.
ExtractKernelInstructions(lines, kernel) ==
  LET starts == { i \in DOMAIN lines : lines[i].label /\ lines[i].text = kernel }
      start  == Min(starts)
      ends   == { i \in DOMAIN lines : i > start /\ lines[i].label }
      end    == IF ends = {} THEN Len(lines) ELSE Min(ends) - 1
  IN  IF starts = {} THEN << >>
      ELSE [i \in 1 .. end - start |-> lines[start + i].text]

MatrixInstructionFamily(instructions, complete) ==
  IF "v_mfma" \in Range(instructions) THEN "MFMA"
  ELSE IF "v_wmma" \in Range(instructions) THEN "WMMA"
  ELSE IF complete THEN "NONE" ELSE "UNKNOWN"

\* share and recoverable are percentages of GPU time and of the whole run.
ClassifyMeaningfulGap(share, recoverable, complete) ==
  IF ~complete \/ recoverable = Unknown THEN "INCONCLUSIVE"
  ELSE IF share >= 5 /\ recoverable >= 2 THEN "YES"
  ELSE IF recoverable < 2 THEN "NO"
  ELSE "INCONCLUSIVE"

\* The validator of MatrixPathEvidence.
InstructionClaimHasIsa(claim) ==
  /\ claim.family = "MFMA" => "v_mfma" \in Range(claim.instructions)
  /\ claim.family = "WMMA" => "v_wmma" \in Range(claim.instructions)
  /\ ~(claim.family = "UNKNOWN" /\ claim.complete)
  /\ claim.gap = "YES" => claim.recoverable # Unknown /\ claim.recoverable >= 2

-----------------------------------------------------------------------------
(***************************************************************************)
(* Properties.                                                             *)
(***************************************************************************)

\* No dispatch and no nanosecond is lost or invented by grouping, whatever the
\* order of the rows, and a total that is not known is not guessed.
GroupsConserveDispatches(rows) ==
  LET groups == GroupMcpKernelEvidence(rows)
      members(key) == { i \in DOMAIN rows : KeyOf(rows[i]) = key /\ rows[i].count > 0 }
  IN  /\ GroupMcpKernelEvidence(Reverse(rows)) = groups
      /\ \A key \in DOMAIN groups :
           /\ groups[key].count = MapThenSumSet(LAMBDA i : rows[i].count, members(key))
           /\ (groups[key].ns = Unknown) = \E i \in members(key) : McpDuration(rows[i]) = Unknown
           /\ groups[key].ns # Unknown =>
                groups[key].ns = MapThenSumSet(LAMBDA i : McpDuration(rows[i]), members(key))
      /\ MapThenSumSet(LAMBDA key : groups[key].count, DOMAIN groups)
           = MapThenSumSet(LAMBDA i : rows[i].count, DOMAIN rows)

\* The raw trace and the MCP result of the same dispatches agree.
SourcesAgree(raw) ==
  LET summary(row) == [ id |-> row.id, name |-> row.name, launch |-> row.launch, count |-> 1,
                        total |-> row.end - row.start, average |-> Unknown, us |-> Unknown, share |-> Unknown ]
      rows == [i \in DOMAIN raw |-> summary(raw[i])]
  IN  GroupRawDispatchRows(raw) # Refused => GroupRawDispatchRows(raw) = GroupMcpKernelEvidence(rows)

\* Every group has one verdict, a shape comes from one rule only, and another rule
\* takes an attribution away or adds one, but never replaces it by another shape.
AttributionIsExact(rows, rules, another) ==
  LET manifest == BuildKernelShapeManifest(rows, rules)
      extended == BuildKernelShapeManifest(rows, Append(rules, another))
  IN  /\ manifest.resolved + manifest.unresolved + manifest.ambiguous = Cardinality(DOMAIN manifest.variants)
      /\ \A key \in DOMAIN manifest.variants :
           LET old == manifest.variants[key].attribution
               new == extended.variants[key].attribution
           IN  /\ old.status = "EXACT_RULE" => new = old \/ new = [status |-> "AMBIGUOUS", coordinate |-> Unknown]
               /\ old.status = "AMBIGUOUS" => new = old
               /\ new.status = "EXACT_RULE" => \E rule \in Range(rules) \cup {another} :
                    RuleMatches(rule, key) /\ rule.coordinate = new.coordinate

\* What is claimed of a kernel is said by its own disassembly: the opcodes of the
\* other kernels do not matter, and what the functions infer is what the validator
\* of the evidence accepts.
ClaimsAreOfTheKernel(lines, kernel, share, recoverable, complete) ==
  LET own == ExtractKernelInstructions(lines, kernel)
      others == { i \in DOMAIN lines : lines[i].label /\ lines[i].text # kernel }
      firstOther == IF others = {} THEN Len(lines) + 1 ELSE Min(others)
  IN  /\ InstructionClaimHasIsa(
           [ family |-> MatrixInstructionFamily(own, complete), instructions |-> own, complete |-> complete,
             gap |-> ClassifyMeaningfulGap(share, recoverable, complete), recoverable |-> recoverable ])
      /\ (lines # << >> /\ lines[1].label /\ lines[1].text = kernel) =>
           /\ own # << >> => \E i \in 2 .. firstOther - 1 : ~lines[i].label
           /\ ExtractKernelInstructions(SubSeq(lines, 1, firstOther - 1), kernel) = own

=============================================================================
