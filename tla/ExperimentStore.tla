--------------------------- MODULE ExperimentStore ---------------------------
(***************************************************************************)
(* The files of one task (store.py), the freezing of an experiment's       *)
(* patch (experiment.py), and the bundle of one experiment with its row in *)
(* the SQLite catalog (experiment_bundle.py).                              *)
(*                                                                         *)
(* Files are replaced or linked atomically, but an artifact is a file and  *)
(* an entry of the shared manifest, which is read, changed and replaced    *)
(* later.  Some operations hold the task lock, others never do, and each   *)
(* may die between two of its steps.                                       *)
(*                                                                         *)
(* Every document has content of its own, so contents stand for their      *)
(* hashes.                                                                 *)
(***************************************************************************)
EXTENDS Naturals, FiniteSets

CONSTANTS
  Actors,      \* processes that use the store
  Casts,       \* what each of them does: functions from Actors to sets of Kinds
  NULL,
  MaxContents, \* bound: documents that are written
  MaxCrashes   \* bound: processes that die in an operation

ASSUME StoreAssumption == NULL \notin Actors \cup Nat /\ {MaxContents, MaxCrashes} \subseteq Nat

\* freeze runs in `decision submit` and in the execution of an experiment,
\* refreeze in its resumption, finalize in the quality worker, index in
\* `bundle index`.  Those in Locked hold the task lock to their end.
Kinds == { "stage", "evidence", "import", "freeze", "refreeze", "finalize",
           "refresh", "index", "load" }
Locked == { "refreeze", "finalize", "refresh", "index" }

ASSUME CastsAssumption == Casts \subseteq [Actors -> SUBSET Kinds]

VARIABLES
  cast,     \* who does what
  files,    \* path -> content
  manifest, \* artifacts/manifest.json: path -> the content that is registered
  lock,     \* who holds the task lock
  op,       \* process -> the operation it is in
  catalog,  \* the experiment's row
  contents, \* documents written so far
  crashes,
  frozen,   \* patches that were returned as frozen
  loaded,   \* bundles that were returned
  clean     \* a refresh ended that nobody else wrote beside, and nobody wrote since

stored == << files, manifest, catalog >>
vars == << cast, stored, lock, op, contents, crashes, frozen, loaded, clean >>

\* decision: documents that stages save and replace.  output: written by an
\* evaluator or a runner, and registered later.
Versions == { "v1", "v2", "v3" }
Sources == { "patch", "decision", "output" }
Derived == { "attempts", "summary", "bundle" }
Paths == Versions \cup Sources \cup Derived

Nothing == [p \in Paths |-> NULL]

Idle == [kind |-> "none", step |-> "idle", path |-> NULL, data |-> NULL, manifest |-> Nothing,
         next |-> "end", entries |-> NULL, view |-> NULL, alone |-> FALSE]

At(a, step) == op[a].step = step

Goto(a, step) == op' = [op EXCEPT ![a].step = step]

Unlocked(a) == IF lock = a THEN NULL ELSE lock

\* The operation returns or raises.
End(a) == op' = [op EXCEPT ![a] = Idle] /\ lock' = Unlocked(a)

\* artifact_ref and verify_artifact
Verified(p) == manifest[p] # NULL /\ files[p] = manifest[p]

\* Somebody wrote: refreshes of others are not alone, and nothing is clean.
Disturbing(a, o) == [b \in Actors |-> IF b = a THEN o[b] ELSE [o[b] EXCEPT !.alone = FALSE]]

-----------------------------------------------------------------------------
(* Artifacts.                                                              *)

Begin(a) ==
  /\ At(a, "idle")
  /\ \E kind \in cast[a] :
       LET fresh == contents + 1
           begun == [Idle EXCEPT !.kind = kind]
       IN  CASE kind = "stage" ->
                  /\ fresh <= MaxContents /\ contents' = fresh
                  /\ op' = [op EXCEPT ![a] = [begun EXCEPT !.step = "write", !.path = "decision",
                                                           !.data = fresh]]
             [] kind \in {"evidence", "import"} ->
                  /\ fresh <= MaxContents /\ contents' = fresh
                  /\ op' = [op EXCEPT ![a] = [begun EXCEPT !.step = "version", !.data = fresh]]
             [] kind \in {"freeze", "refreeze"} ->
                  /\ \E patch \in {1, 2} :
                       op' = [op EXCEPT ![a] =
                                [begun EXCEPT !.step = IF kind = "freeze" THEN "find" ELSE "lock",
                                              !.path = "patch", !.data = patch]]
                  /\ UNCHANGED contents
             [] OTHER ->
                  /\ op' = [op EXCEPT ![a] =
                              [begun EXCEPT !.step = CASE kind = "load" -> "open"
                                                       [] kind = "index" -> "look"
                                                       [] OTHER -> "lock"]]
                  /\ UNCHANGED contents
  /\ UNCHANGED << cast, stored, lock, crashes, frozen, loaded, clean >>

\* task_lock
AcquireLock(a) ==
  /\ At(a, "lock") /\ lock = NULL
  /\ lock' = a
  /\ op' = [op EXCEPT ![a].alone = TRUE,
                      ![a].step = CASE op[a].kind = "refreeze" -> "find"
                                    [] op[a].kind = "finalize" -> "output"
                                    [] OTHER -> "select"]
  /\ UNCHANGED << cast, stored, contents, crashes, frozen, loaded, clean >>

\* _atomic_write
WriteFile(a) ==
  /\ At(a, "write")
  /\ files' = [files EXCEPT ![op[a].path] = op[a].data]
  /\ op' = Disturbing(a, [op EXCEPT ![a].step = "register"])
  /\ clean' = FALSE
  /\ UNCHANGED << cast, manifest, catalog, lock, contents, crashes, frozen, loaded >>

\* Mutant: the file is replaced after the look at its place.
LinkFile_Replaces(a) ==
  /\ At(a, "link")
  /\ files' = [files EXCEPT ![op[a].path] = op[a].data]
  /\ op' = Disturbing(a, [op EXCEPT ![a].step = "register"])
  /\ UNCHANGED lock
  /\ clean' = FALSE
  /\ UNCHANGED << cast, manifest, catalog, contents, crashes, frozen, loaded >>

\* save_immutable_bytes: the link fails if the path is taken.
LinkFile(a) ==
  /\ At(a, "link")
  /\ IF files[op[a].path] = NULL
     THEN /\ files' = [files EXCEPT ![op[a].path] = op[a].data]
          /\ op' = Disturbing(a, [op EXCEPT ![a].step = "register"])
          /\ UNCHANGED lock
     ELSE End(a) /\ UNCHANGED files
  /\ clean' = (clean /\ files' = files)
  /\ UNCHANGED << cast, manifest, catalog, contents, crashes, frozen, loaded >>

\* _register_artifact reads the manifest ...
ReadManifest(a) ==
  /\ At(a, "register")
  /\ op' = [op EXCEPT ![a].manifest = manifest, ![a].step = "replace"]
  /\ UNCHANGED << cast, stored, lock, contents, crashes, frozen, loaded, clean >>

\* ... and replaces it by a copy with the new entry.
WriteManifest(a) ==
  /\ At(a, "replace")
  /\ manifest' = [op[a].manifest EXCEPT ![op[a].path] = op[a].data]
  /\ LET o == [op EXCEPT ![a] = IF @.next = "end" THEN Idle
                                ELSE [@ EXCEPT !.step = op[a].next, !.manifest = Nothing]]
     IN  op' = Disturbing(a, o)
  /\ lock' = IF op[a].next = "end" THEN Unlocked(a) ELSE lock
  /\ frozen' = IF op[a].path = "patch" THEN frozen \cup {op[a].data} ELSE frozen
  /\ clean' = FALSE
  /\ UNCHANGED << cast, files, catalog, contents, crashes, loaded >>

\* _next_evidence_path: one more than the highest version there is.
NextVersion ==
  IF files["v3"] # NULL THEN NULL
  ELSE IF files["v2"] # NULL THEN "v3" ELSE IF files["v1"] # NULL THEN "v2" ELSE "v1"

ChooseVersion(a) ==
  /\ At(a, "version") /\ NextVersion # NULL
  /\ op' = [op EXCEPT ![a].path = NextVersion,
                      ![a].step = IF op[a].kind = "import" THEN "check" ELSE "link"]
  /\ UNCHANGED << cast, stored, lock, contents, crashes, frozen, loaded, clean >>

\* import_artifact: a version that is taken is refused, and the file replaced
\* when it is copied.
CheckImport(a) ==
  /\ At(a, "check")
  /\ IF files[op[a].path] = NULL THEN Goto(a, "write") /\ UNCHANGED lock ELSE End(a)
  /\ UNCHANGED << cast, stored, contents, crashes, frozen, loaded, clean >>

\* freeze_experiment_inputs: a patch that is registered must be this one.
FindFrozen(a) ==
  /\ At(a, "find")
  /\ IF manifest["patch"] = NULL
     THEN Goto(a, "link") /\ UNCHANGED << lock, frozen >>
     ELSE /\ End(a)
          /\ frozen' = IF Verified("patch") /\ manifest["patch"] = op[a].data
                       THEN frozen \cup {op[a].data} ELSE frozen
  /\ UNCHANGED << cast, stored, contents, crashes, loaded, clean >>

\* An evaluator or a runner leaves a file that nobody has registered.
Produce ==
  /\ files["output"] = NULL /\ contents < MaxContents
  /\ \E a \in Actors : "finalize" \in cast[a]
  /\ contents' = contents + 1
  /\ files' = [files EXCEPT !["output"] = contents + 1]
  /\ op' = [a \in Actors |-> [op[a] EXCEPT !.alone = FALSE]]
  /\ clean' = FALSE
  /\ UNCHANGED << cast, manifest, catalog, lock, crashes, frozen, loaded >>

\* Mutant: the output is registered after the lock is given back.
RegisterOutput_Unlocked(a) ==
  /\ At(a, "output")
  /\ lock' = Unlocked(a)
  /\ IF files["output"] = NULL
     THEN op' = [op EXCEPT ![a] = Idle]
     ELSE op' = [op EXCEPT ![a].path = "output", ![a].data = files["output"],
                           ![a].step = "register"]
  /\ UNCHANGED << cast, stored, contents, crashes, frozen, loaded, clean >>

\* finalize_quality_execution: register_existing_artifact, if there is a file.
RegisterOutput(a) ==
  /\ At(a, "output")
  /\ IF files["output"] = NULL
     THEN End(a)
     ELSE /\ op' = [op EXCEPT ![a].path = "output", ![a].data = files["output"],
                              ![a].step = "register"]
          /\ UNCHANGED lock
  /\ UNCHANGED << cast, stored, contents, crashes, frozen, loaded, clean >>

-----------------------------------------------------------------------------
(* refresh_experiment_bundle, under the task lock.                         *)

\* _selected_evidence_paths and _collect_declared_patch: the decision and the
\* patch must be what is registered.
SelectEvidence(a) ==
  /\ At(a, "select")
  /\ IF Verified("decision") /\ files["patch"] = manifest["patch"]
     THEN Goto(a, "collect") /\ UNCHANGED lock
     ELSE End(a)
  /\ UNCHANGED << cast, stored, contents, crashes, frozen, loaded, clean >>

\* _collect_unregistered_outputs
CollectOutput(a) ==
  /\ At(a, "collect")
  /\ CASE files["output"] = NULL \/ Verified("output") -> Goto(a, "entries") /\ UNCHANGED lock
       [] files["output"] # NULL /\ manifest["output"] = NULL ->
            /\ op' = [op EXCEPT ![a].path = "output", ![a].data = files["output"],
                                ![a].step = "register", ![a].next = "entries"]
            /\ UNCHANGED lock
       [] OTHER -> End(a)
  /\ UNCHANGED << cast, stored, contents, crashes, frozen, loaded, clean >>

\* _source_entries: what is registered must still be there.
TakeEntries(a) ==
  LET entries == [p \in Sources |-> manifest[p]]
  IN  /\ At(a, "entries")
      /\ IF Verified("decision") /\ \A p \in Sources : entries[p] # NULL => Verified(p)
         THEN op' = [op EXCEPT ![a].entries = entries, ![a].step = "attempts"] /\ UNCHANGED lock
         ELSE End(a)
      /\ UNCHANGED << cast, stored, contents, crashes, frozen, loaded, clean >>

\* Mutant: a file that is there already is not registered again.
CanonicalWrite_TrustsFile(a, step, path, content, next) ==
  /\ At(a, step)
  /\ IF files[path] = content
     THEN Goto(a, next)
     ELSE op' = [op EXCEPT ![a].path = path, ![a].data = content, ![a].next = next,
                           ![a].step = "write"]
  /\ UNCHANGED << cast, stored, lock, contents, crashes, frozen, loaded, clean >>

\* _canonical_write: a document that would not change is kept.
CanonicalWrite(a, step, path, content, next) ==
  /\ At(a, step)
  /\ IF Verified(path) /\ files[path] = content
     THEN Goto(a, next)
     ELSE op' = [op EXCEPT ![a].path = path, ![a].data = content, ![a].next = next,
                           ![a].step = "write"]
  /\ UNCHANGED << cast, stored, lock, contents, crashes, frozen, loaded, clean >>

\* _build_summary verifies the decision again, and reads it afterwards.
VerifyDecision(a) ==
  /\ At(a, "verify")
  /\ IF Verified("decision") THEN Goto(a, "read") /\ UNCHANGED lock ELSE End(a)
  /\ UNCHANGED << cast, stored, contents, crashes, frozen, loaded, clean >>

ReadDecision(a) ==
  /\ At(a, "read")
  /\ op' = [op EXCEPT ![a].view = files["decision"], ![a].step = "summary"]
  /\ UNCHANGED << cast, stored, lock, contents, crashes, frozen, loaded, clean >>

\* _attempt_index: the attempts are read off the entries.
AttemptIndex(entries) == [entries |-> entries, view |-> NULL]

\* What summary and bundle say: the bundle binds the summary by its hash.
Bundle(a) == [entries |-> op[a].entries, view |-> op[a].view]

\* attempts/index.json, summary.json, manifest.json
PublishFile(a) ==
  \/ CanonicalWrite(a, "attempts", "attempts", AttemptIndex(op[a].entries), "verify")
  \/ CanonicalWrite(a, "summary", "summary", Bundle(a), "bundle")
  \/ CanonicalWrite(a, "bundle", "bundle", Bundle(a), "catalog")

\* ExperimentCatalog.upsert, before the lock is released.
UpsertRow(a) ==
  /\ At(a, "catalog")
  /\ catalog' = Bundle(a)
  /\ IF op[a].kind = "index" THEN Goto(a, "prune") /\ lock' = Unlocked(a) ELSE End(a)
  /\ clean' = op[a].alone
  /\ UNCHANGED << cast, files, manifest, contents, crashes, frozen, loaded >>

\* refresh_task_bundles: only an experiment with a decision is refreshed.
FindTerminal(a) ==
  /\ At(a, "look")
  /\ Goto(a, IF files["decision"] = NULL THEN "prune" ELSE "lock")
  /\ UNCHANGED << cast, stored, lock, contents, crashes, frozen, loaded, clean >>

\* ExperimentCatalog.prune: rows of experiments that were not refreshed go.
PruneRow(a) ==
  /\ At(a, "prune")
  /\ catalog' = IF op[a].entries = NULL THEN NULL ELSE catalog
  /\ clean' = (clean /\ op[a].entries # NULL)
  /\ End(a)
  /\ UNCHANGED << cast, files, manifest, contents, crashes, frozen, loaded >>

-----------------------------------------------------------------------------
(* load_experiment_bundle: the reader takes no lock.                       *)

OpenSummary(a) ==
  /\ At(a, "open")
  /\ IF files["summary"] = NULL
     THEN End(a)
     ELSE op' = [op EXCEPT ![a].view = files["summary"], ![a].step = "open_bundle"]
          /\ UNCHANGED lock
  /\ UNCHANGED << cast, stored, contents, crashes, frozen, loaded, clean >>

OpenBundle(a) ==
  LET bundle == files["bundle"]
  IN  /\ At(a, "open_bundle")
      /\ IF bundle = NULL \/ bundle.entries # op[a].view.entries
         THEN End(a)
         ELSE op' = [op EXCEPT ![a].data = bundle, ![a].step = "check_bundle"] /\ UNCHANGED lock
      /\ UNCHANGED << cast, stored, contents, crashes, frozen, loaded, clean >>

\* The bundle and what it was made of are registered and there.
CheckDerived(a) ==
  /\ At(a, "check_bundle")
  /\ IF /\ manifest["summary"] = op[a].data /\ Verified("summary")
        /\ Verified("bundle")
        /\ files["attempts"] = AttemptIndex(op[a].data.entries)
     THEN Goto(a, "check_sources") /\ UNCHANGED lock
     ELSE End(a)
  /\ UNCHANGED << cast, stored, contents, crashes, frozen, loaded, clean >>

CheckSources(a) ==
  LET bundle == op[a].data
  IN  /\ At(a, "check_sources")
      /\ loaded' = IF \A p \in Sources : bundle.entries[p] # NULL =>
                        manifest[p] = bundle.entries[p] /\ Verified(p)
                   THEN loaded \cup {op[a].view} ELSE loaded
      /\ End(a)
      /\ UNCHANGED << cast, stored, contents, crashes, frozen, clean >>

-----------------------------------------------------------------------------
Crash(a) ==
  /\ ~At(a, "idle") /\ crashes < MaxCrashes
  /\ crashes' = crashes + 1
  /\ End(a)
  /\ UNCHANGED << cast, stored, contents, frozen, loaded, clean >>

Step(a) ==
  \/ AcquireLock(a) \/ WriteFile(a) \/ LinkFile(a) \/ ReadManifest(a) \/ WriteManifest(a)
  \/ ChooseVersion(a) \/ CheckImport(a) \/ FindFrozen(a) \/ RegisterOutput(a)
  \/ SelectEvidence(a) \/ CollectOutput(a) \/ TakeEntries(a) \/ VerifyDecision(a)
  \/ ReadDecision(a) \/ PublishFile(a) \/ UpsertRow(a) \/ FindTerminal(a) \/ PruneRow(a)
  \/ OpenSummary(a) \/ OpenBundle(a) \/ CheckDerived(a) \/ CheckSources(a)

Init ==
  /\ cast \in Casts
  /\ files = Nothing /\ manifest = Nothing /\ catalog = NULL
  /\ lock = NULL
  /\ op = [a \in Actors |-> Idle]
  /\ contents = 0 /\ crashes = 0
  /\ frozen = {} /\ loaded = {}
  /\ clean = FALSE

Next ==
  \/ \E a \in Actors : Begin(a) \/ Step(a) \/ Crash(a)
  \/ Produce

Spec == Init /\ [][Next]_vars

-----------------------------------------------------------------------------
Contents == 1 .. MaxContents
Bundles == [entries : [Sources -> Contents \cup {1, 2, NULL}],
            view : Contents \cup {NULL}]

ASSUME NullAssumption == NULL \notin Bundles

TypeOK ==
  /\ \A p \in Versions \cup Sources :
       {files[p], manifest[p]} \subseteq Contents \cup {1, 2, NULL}
  /\ \A p \in Derived : {files[p], manifest[p]} \subseteq Bundles \cup {NULL}
  /\ catalog \in Bundles \cup {NULL}
  /\ lock \in Actors \cup {NULL}
  /\ \A a \in Actors : lock = a => op[a].kind \in Locked

\* Whoever was told that its patch is frozen holds the same patch, whatever
\* was edited, registered at the same time or interrupted.
OneFrozenInput == \A p \in frozen : files["patch"] = p

\* A version of the evidence is replaced by nobody but an importer that found
\* its place empty before.
EvidenceStays ==
  [][\A v \in Versions :
       files[v] # NULL /\ files'[v] # files[v] =>
         \E a \in Actors : op[a].kind = "import" /\ op[a].path = v /\ At(a, "write")]_vars

\* Where every writer holds the task lock, no entry of the manifest is lost.
LockedWritersLoseNothing ==
  [][(\A a \in Actors : cast[a] \subseteq Locked) =>
       \A p \in Paths : manifest[p] # NULL => manifest'[p] # NULL]_vars

\* A bundle that is returned shows the decision that it lists, although that
\* is read twice and may be replaced in between.
SummaryShowsItsEntries == \A b \in loaded : b.view = b.entries["decision"]

Loadable ==
  /\ \A p \in Derived : Verified(p)
  /\ files["summary"] = files["bundle"]
  /\ files["attempts"].entries = files["bundle"].entries
  /\ \A p \in Sources : files["bundle"].entries[p] = manifest[p] /\ files[p] = manifest[p]

\* A refresh that nobody else wrote beside leaves a bundle that can be loaded,
\* and its row, whatever an interrupted one had left.
RefreshRepairs == clean => Loadable /\ catalog = files["bundle"]

\* What was frozen or published stays as it is.
FrozenStays == [](TypeOK /\ OneFrozenInput) /\ EvidenceStays

\* A summary shows the entries it was made of, and a refresh repairs what an
\* interrupted one left.
BundleCanBeTrusted == SummaryShowsItsEntries /\ RefreshRepairs
=============================================================================
