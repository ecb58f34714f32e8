------------------------ MODULE ExperimentStore_proofs ------------------------
(***************************************************************************)
(* What was frozen stays, locked writers lose nothing, and a bundle can be *)
(* trusted: for any number of processes that use the store, any documents  *)
(* and any crashes.                                                        *)
(***************************************************************************)
EXTENDS ExperimentStore, TLAPS

Values == Contents \cup {1, 2, NULL}
Entries == [Sources -> Values]
Document(p) == IF p \in Derived THEN Bundles \cup {NULL} ELSE Values
Documents == Values \cup Bundles

IsStore(f) == f \in [Paths -> Documents] /\ \A p \in Paths : f[p] \in Document(p)

Steps ==
  { "idle", "write", "link", "register", "replace", "version", "check", "find", "lock", "output", "select",
    "collect", "entries", "attempts", "verify", "read", "summary", "bundle", "catalog", "look", "prune",
    "open", "open_bundle", "check_bundle", "check_sources" }

Operation ==
  [ kind : Kinds \cup {"none"}, step : Steps, path : Paths \cup {NULL}, data : Documents,
    manifest : [Paths -> Documents], next : {"end", "entries", "verify", "bundle", "catalog"},
    entries : Entries \cup {NULL}, view : Documents, alone : BOOLEAN ]

-----------------------------------------------------------------------------
(* What an operation has at each of its steps.                             *)

Refreshing(o) == o.kind \in {"refresh", "index"}

\* A document of a refresh, on its way to its file.
Deriving(o) ==
  /\ Refreshing(o) /\ o.entries \in Entries
  /\ \/ o.next = "verify" /\ o.path = "attempts" /\ o.data = AttemptIndex(o.entries)
     \/ /\ o.next = "bundle" /\ o.path = "summary" /\ o.view \in Contents
        /\ o.data = [entries |-> o.entries, view |-> o.view]
     \/ /\ o.next = "catalog" /\ o.path = "bundle" /\ o.view \in Contents
        /\ o.data = [entries |-> o.entries, view |-> o.view]

Staging(o) == o.kind = "stage" /\ o.path = "decision" /\ o.data \in Contents
Importing(o) == o.kind = "import" /\ o.path \in Versions /\ o.data \in Contents
Collecting(o) == o.kind = "evidence" /\ o.path \in Versions /\ o.data \in Contents
Freezing(o) == o.kind \in {"freeze", "refreeze"} /\ o.path = "patch" /\ o.data \in {1, 2}
Outputting(o) ==
  /\ o.path = "output" /\ o.data \in Values \ {NULL}
  /\ o.kind = "finalize" \/ (Refreshing(o) /\ o.next = "entries")

Shape(o) ==
  /\ o.step = "idle" => o = Idle
  /\ o.step # "idle" => o.kind # "none"
  /\ ~Refreshing(o) => o.next = "end"
  /\ o.step = "write" => Staging(o) \/ Importing(o) \/ Deriving(o)
  /\ o.step = "link" => Collecting(o) \/ Freezing(o)
  /\ o.step \in {"register", "replace"} =>
       Staging(o) \/ Importing(o) \/ Deriving(o) \/ Collecting(o) \/ Freezing(o) \/ Outputting(o)
  /\ o.step = "replace" => IsStore(o.manifest)
  /\ o.step = "version" => o.kind \in {"evidence", "import"} /\ o.data \in Contents
  /\ o.step = "check" => Importing(o)
  /\ o.step = "find" => Freezing(o)
  /\ o.step = "lock" => o.kind \in Locked /\ (o.kind = "refreeze" => Freezing(o))
  /\ o.step = "output" => o.kind = "finalize"
  /\ o.step \in {"select", "collect", "entries"} => Refreshing(o)
  /\ o.step \in {"attempts", "verify", "read", "summary", "bundle", "catalog"} =>
       Refreshing(o) /\ o.entries \in Entries
  /\ o.step \in {"summary", "bundle", "catalog"} => o.view \in Contents
  /\ o.step \in {"look", "prune"} => o.kind = "index"
  /\ o.step \in {"open", "open_bundle", "check_bundle", "check_sources"} => o.kind = "load"
  /\ o.step \in {"open_bundle", "check_bundle", "check_sources"} => o.view \in Bundles
  /\ o.step \in {"check_bundle", "check_sources"} => o.data \in Bundles /\ o.data.entries = o.view.entries

\* Who may be inside the lock.
Inside(o) == o.kind \in Locked /\ o.step \notin {"lock", "look", "prune"}

-----------------------------------------------------------------------------
(* The patch.                                                              *)

PatchIs(o) == o.step \in {"register", "replace"} /\ o.path = "patch" => files["patch"] = o.data

FrozenInv ==
  /\ \A p \in frozen : p \in {1, 2} /\ files["patch"] = p
  /\ \A a \in Actors : PatchIs(op[a])

-----------------------------------------------------------------------------
(* The manifest, where every writer is inside the lock.                    *)

AllLocked == \A a \in Actors : cast[a] \subseteq Locked

LockedInv ==
  AllLocked => \A a \in Actors : At(a, "replace") => op[a].manifest = manifest

-----------------------------------------------------------------------------
(* The decision.  Every document is written once, so one that was written  *)
(* and is not there any more never comes back.                             *)

Pending(o, c) == o.kind = "stage" /\ o.step = "write" /\ o.data = c

Settled(c) == c \in 1 .. contents /\ \A a \in Actors : ~Pending(op[a], c)

\* What is said of the decision c is v, unless c is gone.
Consistent(c, v) == Settled(c) /\ (v = c \/ c # files["decision"])

Told(b) == Consistent(b.entries["decision"], b.view)

HasEntries(o) ==
  \/ o.step \in {"attempts", "verify", "read", "summary", "bundle", "catalog"}
  \/ o.step \in {"write", "register", "replace"} /\ o.next \in {"verify", "bundle", "catalog"}
HasView(o) ==
  \/ o.step \in {"summary", "bundle", "catalog"}
  \/ o.step \in {"write", "register", "replace"} /\ o.next \in {"bundle", "catalog"}

DecisionTold(o) ==
  /\ HasEntries(o) => Settled(o.entries["decision"]) /\ files["decision"] # NULL
  /\ HasView(o) => Consistent(o.entries["decision"], o.view)
  /\ o.step \in {"open_bundle", "check_bundle", "check_sources"} => Told(o.view)

DecisionInv ==
  /\ \A a \in Actors : \A c \in Contents : Pending(op[a], c) => c <= contents
  /\ \A a, b \in Actors : \A c \in Contents : Pending(op[a], c) /\ Pending(op[b], c) => a = b
  /\ files["decision"] # NULL => Settled(files["decision"])
  /\ files["summary"] # NULL => Told(files["summary"])
  /\ \A a \in Actors : DecisionTold(op[a])

-----------------------------------------------------------------------------
(* The refresh that nobody else writes beside.                             *)

AttemptsDone(o) ==
  \/ o.step \in {"verify", "read", "summary", "bundle", "catalog"}
  \/ o.step \in {"write", "register", "replace"} /\ o.next \in {"bundle", "catalog"}
SummaryDone(o) ==
  o.step \in {"bundle", "catalog"} \/ (o.step \in {"write", "register", "replace"} /\ o.next = "catalog")
BundleDone(o) == o.step = "catalog"

BundleOf(o) == [entries |-> o.entries, view |-> o.view]

Published(p, document) == files[p] = document /\ manifest[p] = document

Repaired(o) ==
  /\ o.step \in {"register", "replace"} /\ Refreshing(o) => files[o.path] = o.data
  /\ o.step = "replace" => o.manifest = manifest
  /\ o.step \in {"collect", "entries"} \/ (o.step \in {"register", "replace"} /\ o.next = "entries")
       => files["patch"] = manifest["patch"]
  /\ o.step = "entries" => files["output"] = NULL \/ files["output"] = manifest["output"]
  /\ HasEntries(o) => \A p \in Sources : o.entries[p] = manifest[p] /\ files[p] = manifest[p]
  /\ AttemptsDone(o) => Published("attempts", AttemptIndex(o.entries))
  /\ SummaryDone(o) => Published("summary", BundleOf(o))
  /\ BundleDone(o) => Published("bundle", BundleOf(o))

RefreshInv == RefreshRepairs /\ \A a \in Actors : op[a].alone => Repaired(op[a])

-----------------------------------------------------------------------------
Typed ==
  /\ cast \in [Actors -> SUBSET Kinds]
  /\ IsStore(files) /\ IsStore(manifest)
  /\ catalog \in Bundles \cup {NULL}
  /\ lock \in Actors \cup {NULL}
  /\ contents \in 0 .. MaxContents
  /\ op \in [Actors -> Operation]
  /\ \A a \in Actors : Shape(op[a]) /\ op[a].kind \in cast[a] \cup {"none"}
  /\ \A a \in Actors : lock = a <=> Inside(op[a])

IInv == Typed /\ FrozenInv /\ LockedInv /\ DecisionInv /\ SummaryShowsItsEntries /\ RefreshInv

-----------------------------------------------------------------------------
(***************************************************************************)
(* A step of one process that leaves files and manifest alone.             *)
(***************************************************************************)

\* What operation n of process a has to satisfy to be the next one.
Continues(a, n) ==
  /\ n \in Operation /\ Shape(n) /\ n.kind \in cast[a] \cup {"none"}
  /\ PatchIs(n) /\ DecisionTold(n) /\ (n.alone => Repaired(n))
  /\ AllLocked /\ n.step = "replace" => n.manifest = manifest

\* The lock is that of n, and nobody else gains or loses it.
LockFits(a, n) ==
  /\ lock' \in Actors \cup {NULL} /\ (lock' = a <=> Inside(n))
  /\ \A b \in Actors \ {a} : lock' = b <=> lock = b

\* Only a document that was never written before is begun to be written.
OnlyFresh(a, n) ==
  /\ contents' \in {contents, contents + 1} /\ contents' <= MaxContents
  /\ \A c \in Contents : Pending(n, c) => Pending(op[a], c) \/ (c = contents + 1 /\ contents' = c)

LEMMA NullIsNoValue == NULL \notin Actors /\ NULL \notin Nat /\ NULL \notin Bundles
BY StoreAssumption, NullAssumption

LEMMA OthersStay ==
  ASSUME op \in [Actors -> Operation], NEW a \in Actors, NEW n, op' = [op EXCEPT ![a] = n]
  PROVE  op'[a] = n /\ \A b \in Actors \ {a} : op'[b] = op[b]
OBVIOUS

LEMMA SettledStays ==
  ASSUME IInv, NEW a \in Actors, NEW n, op' = [op EXCEPT ![a] = n], OnlyFresh(a, n), NEW c, Settled(c)
  PROVE  Settled(c)'
<1>1. c \in 1 .. contents /\ contents \in 0 .. MaxContents /\ MaxContents \in Nat /\ c \in Contents
  BY StoreAssumption DEF Settled, IInv, Typed, Contents
<1>2. op \in [Actors -> Operation]
  BY DEF IInv, Typed
<1>3. ASSUME NEW b \in Actors PROVE ~Pending(op'[b], c)
  BY <1>1, <1>2, OthersStay DEF Settled, OnlyFresh
<1>4. QED
  BY <1>1, <1>3 DEF Settled, OnlyFresh

LEMMA LocalKeeps ==
  ASSUME IInv, NEW a \in Actors, NEW n, Continues(a, n), LockFits(a, n), OnlyFresh(a, n),
         op' = [op EXCEPT ![a] = n], UNCHANGED << cast, files, manifest >>,
         catalog' \in Bundles \cup {NULL}, RefreshRepairs', SummaryShowsItsEntries',
         \A p \in frozen' : p \in {1, 2} /\ files["patch"] = p
  PROVE  IInv'
<1>1. /\ op \in [Actors -> Operation] /\ contents \in 0 .. MaxContents /\ MaxContents \in Nat
      /\ n \in Operation
  BY StoreAssumption DEF IInv, Typed, Continues
<1>2. op'[a] = n /\ op' \in [Actors -> Operation] /\ \A b \in Actors \ {a} : op'[b] = op[b]
  BY <1>1
<1>3. Typed'
  <2>1. \A b \in Actors : Shape(op'[b]) /\ op'[b].kind \in cast[b] \cup {"none"}
    BY <1>2 DEF IInv, Typed, Continues
  <2>2. \A b \in Actors : lock' = b <=> Inside(op'[b])
    BY <1>2 DEF IInv, Typed, LockFits
  <2>3. contents' \in 0 .. MaxContents
    BY <1>1 DEF OnlyFresh
  <2>4. QED
    BY <1>2, <2>1, <2>2, <2>3 DEF IInv, Typed, LockFits, IsStore
<1>4. FrozenInv'
  BY <1>2 DEF IInv, FrozenInv, PatchIs, Continues
<1>5. LockedInv'
  BY <1>2 DEF IInv, LockedInv, AllLocked, At, Continues
<1>6. ASSUME NEW c, NEW v, Consistent(c, v) PROVE Consistent(c, v)'
  BY <1>6, SettledStays DEF Consistent
<1>7. ASSUME NEW o, DecisionTold(o) PROVE DecisionTold(o)'
  BY <1>6, <1>7, SettledStays DEF DecisionTold, Told
<1>8. DecisionInv'
  <2>1. \A b \in Actors, c \in Contents : Pending(op'[b], c) =>
           Pending(op[b], c) \/ (b = a /\ c = contents + 1 /\ contents' = c)
    BY <1>2 DEF OnlyFresh
  <2>2. \A b \in Actors, c \in Contents : Pending(op[b], c) => c <= contents
    BY DEF IInv, DecisionInv
  <2>3. \A b \in Actors, c \in Contents : Pending(op'[b], c) => c <= contents'
    BY <1>1, <2>1, <2>2 DEF OnlyFresh, Contents
  <2>4. \A b, d \in Actors : \A c \in Contents : Pending(op'[b], c) /\ Pending(op'[d], c) => b = d
    <3> SUFFICES ASSUME NEW b \in Actors, NEW d \in Actors, NEW c \in Contents,
                        Pending(op'[b], c), Pending(op'[d], c)
                 PROVE  b = d
      OBVIOUS
    <3>1. CASE Pending(op[b], c) /\ Pending(op[d], c)
      BY <3>1 DEF IInv, DecisionInv
    <3>2. CASE ~(Pending(op[b], c) /\ Pending(op[d], c))
      BY <1>1, <2>1, <2>2, <3>2 DEF Contents
    <3>3. QED
      BY <3>1, <3>2
  <2>5. (files["decision"] # NULL => Settled(files["decision"]))'
    <3>1. PICK c : c = files["decision"]
      OBVIOUS
    <3>2. QED
      BY <3>1, SettledStays DEF IInv, DecisionInv
  <2>6. (files["summary"] # NULL => Told(files["summary"]))'
    <3>1. PICK b : b = files["summary"]
      OBVIOUS
    <3>2. QED
      BY <3>1, <1>6 DEF IInv, DecisionInv, Told
  <2>7. ASSUME NEW b \in Actors PROVE DecisionTold(op[b])'
    <3>1. PICK o : o = op'[b]
      OBVIOUS
    <3>2. DecisionTold(o)
      BY <1>2, <3>1 DEF IInv, DecisionInv, Continues
    <3>3. DecisionTold(o)'
      BY <1>7, <3>2
    <3>4. QED
      BY <3>1, <3>3
  <2>8. QED
    BY <2>3, <2>4, <2>5, <2>6, <2>7 DEF DecisionInv
<1>9. RefreshInv'
  <2>1. ASSUME NEW b \in Actors PROVE (op[b].alone => Repaired(op[b]))'
    <3>1. PICK o : o = op'[b]
      OBVIOUS
    <3>2. o.alone => Repaired(o)
      BY <1>2, <3>1 DEF IInv, RefreshInv, Continues
    <3>3. o.alone => Repaired(o)'
      BY <3>2 DEF Repaired, Published
    <3>4. QED
      BY <3>1, <3>3
  <2>2. QED
    BY <2>1 DEF RefreshInv
<1>10. QED
  BY <1>3, <1>4, <1>5, <1>8, <1>9 DEF IInv

\* What the process has now; its value does not change with the state.
LEMMA OwnContinues ==
  ASSUME IInv, NEW a \in Actors
  PROVE  Continues(a, op[a]) /\ (lock = a <=> Inside(op[a])) /\ op \in [Actors -> Operation]
BY DEF IInv, Typed, Continues, FrozenInv, LockedInv, DecisionInv, RefreshInv, At

\* Most steps change nothing but the operation and the lock.
LEMMA QuietKeeps ==
  ASSUME IInv, NEW a \in Actors, NEW n, Continues(a, n), LockFits(a, n),
         ~(n.kind = "stage" /\ n.step = "write"),
         op' = [op EXCEPT ![a] = n],
         UNCHANGED << cast, stored, contents, frozen, loaded, clean >>
  PROVE  IInv'
<1>1. OnlyFresh(a, n)
  BY DEF OnlyFresh, Pending, IInv, Typed
<1>2. RefreshRepairs' /\ SummaryShowsItsEntries'
  BY DEF stored, IInv, RefreshInv, RefreshRepairs, Loadable, Verified, SummaryShowsItsEntries
<1>3. catalog' \in Bundles \cup {NULL} /\ \A p \in frozen' : p \in {1, 2} /\ files["patch"] = p
  BY DEF stored, IInv, Typed, FrozenInv
<1>4. QED
  BY <1>1, <1>2, <1>3, LocalKeeps DEF stored

\* The operation stays inside the lock, or outside of it.
LEMMA SameLock ==
  ASSUME IInv, NEW a \in Actors, NEW n, Inside(n) <=> Inside(op[a]), UNCHANGED lock
  PROVE  LockFits(a, n)
BY DEF IInv, Typed, LockFits

\* An operation that ends or dies releases the lock and leaves nothing to be kept.
LEMMA IdleContinues ==
  ASSUME IInv, NEW a \in Actors
  PROVE  /\ Continues(a, Idle) /\ ~(Idle.kind = "stage" /\ Idle.step = "write") /\ ~Inside(Idle)
         /\ lock' = Unlocked(a) => LockFits(a, Idle)
         /\ UNCHANGED contents => OnlyFresh(a, Idle)
<1>1. Idle \in Operation
  BY DEF Idle, Operation, Steps, Documents, Values, Nothing
<1>2. Shape(Idle) /\ ~Inside(Idle) /\ ~HasEntries(Idle) /\ ~HasView(Idle)
  BY DEF Shape, Idle, Refreshing, Inside, Locked, HasEntries, HasView
<1>3. Continues(a, Idle)
  BY <1>1, <1>2 DEF Continues, Idle, PatchIs, DecisionTold
<1>4. lock' = Unlocked(a) => LockFits(a, Idle)
  BY <1>2, NullIsNoValue DEF LockFits, Unlocked, IInv, Typed
<1>5. UNCHANGED contents => OnlyFresh(a, Idle)
  BY DEF OnlyFresh, Idle, Pending, IInv, Typed
<1>6. QED
  BY <1>2, <1>3, <1>4, <1>5 DEF Idle

LEMMA EndKeeps ==
  ASSUME IInv, NEW a \in Actors, End(a), UNCHANGED << cast, stored, contents, frozen, loaded, clean >>
  PROVE  IInv'
BY IdleContinues, QuietKeeps DEF End

-----------------------------------------------------------------------------
(* Artifacts.                                                              *)

\* Which documents an operation takes up, its kind decides.
LEMMA BeginKeeps ==
  ASSUME IInv, NEW a \in Actors, Begin(a)
  PROVE  IInv'
<1> DEFINE fresh == contents + 1
<1>1. /\ contents \in Nat /\ MaxContents \in Nat /\ op \in [Actors -> Operation] /\ op[a] = Idle
      /\ cast[a] \subseteq Kinds /\ lock # a
  BY StoreAssumption, IdleContinues, OwnContinues DEF Begin, At, IInv, Typed, Shape
<1>2. PICK kind \in cast[a] :
         CASE kind = "stage" ->
                /\ fresh <= MaxContents /\ contents' = fresh
                /\ op' = [op EXCEPT ![a] = [[Idle EXCEPT !.kind = kind] EXCEPT
                              !.step = "write", !.path = "decision", !.data = fresh]]
           [] kind \in {"evidence", "import"} ->
                /\ fresh <= MaxContents /\ contents' = fresh
                /\ op' = [op EXCEPT ![a] = [[Idle EXCEPT !.kind = kind] EXCEPT
                              !.step = "version", !.data = fresh]]
           [] kind \in {"freeze", "refreeze"} ->
                /\ \E patch \in {1, 2} :
                     op' = [op EXCEPT ![a] = [[Idle EXCEPT !.kind = kind] EXCEPT
                              !.step = IF kind = "freeze" THEN "find" ELSE "lock",
                              !.path = "patch", !.data = patch]]
                /\ UNCHANGED contents
           [] OTHER ->
                /\ op' = [op EXCEPT ![a] = [[Idle EXCEPT !.kind = kind] EXCEPT
                            !.step = CASE kind = "load" -> "open" [] kind = "index" -> "look"
                                       [] OTHER -> "lock"]]
                /\ UNCHANGED contents
  BY DEF Begin
<1> DEFINE Begins(n) ==
      /\ op' = [op EXCEPT ![a] = n] /\ n.kind = kind
      /\ n.step \in {"write", "version", "find", "lock", "open", "look"} /\ n.next = "end"
      /\ n \in Operation /\ Shape(n) /\ ~n.alone /\ ~Inside(n)
      /\ \/ UNCHANGED contents /\ n.step # "write"
         \/ contents' = fresh /\ fresh <= MaxContents /\ n.data = fresh
<1>3. kind \in Kinds
  BY <1>1
<1>4. \E n : Begins(n)
  <2>1. CASE kind = "stage"
    <3> DEFINE n == [[Idle EXCEPT !.kind = kind] EXCEPT !.step = "write", !.path = "decision", !.data = fresh]
    <3>1. fresh <= MaxContents /\ contents' = fresh /\ op' = [op EXCEPT ![a] = n]
      BY <1>2, <2>1
    <3>2. fresh \in Contents
      BY <1>1, <3>1 DEF Contents
    <3>3. n \in Operation /\ Shape(n) /\ ~Inside(n)
      BY <2>1, <3>2 DEF Idle, Operation, Steps, Documents, Values, Nothing, Kinds, Paths, Sources, Shape,
                        Refreshing, Staging, Inside, Locked
    <3>4. Begins(n)
      BY <2>1, <3>1, <3>3 DEF Idle
    <3> HIDE DEF Begins
    <3>5. QED
      BY <3>4
  <2>2. CASE kind \in {"evidence", "import"}
    <3> DEFINE n == [[Idle EXCEPT !.kind = kind] EXCEPT !.step = "version", !.data = fresh]
    <3>1. fresh <= MaxContents /\ contents' = fresh /\ op' = [op EXCEPT ![a] = n]
      BY <1>2, <2>2
    <3>2. fresh \in Contents
      BY <1>1, <3>1 DEF Contents
    <3>3. n \in Operation /\ Shape(n) /\ ~Inside(n)
      BY <2>2, <3>2 DEF Idle, Operation, Steps, Documents, Values, Nothing, Kinds, Shape, Refreshing,
                        Inside, Locked
    <3>4. Begins(n)
      BY <2>2, <3>1, <3>3 DEF Idle
    <3> HIDE DEF Begins
    <3>5. QED
      BY <3>4
  <2>3. CASE kind \in {"freeze", "refreeze"}
    <3>1. PICK patch \in {1, 2} :
             op' = [op EXCEPT ![a] = [[Idle EXCEPT !.kind = kind] EXCEPT
                      !.step = IF kind = "freeze" THEN "find" ELSE "lock",
                      !.path = "patch", !.data = patch]]
      BY <1>2, <2>3
    <3> DEFINE n == [[Idle EXCEPT !.kind = kind] EXCEPT
                      !.step = IF kind = "freeze" THEN "find" ELSE "lock",
                      !.path = "patch", !.data = patch]
    <3>2. n \in Operation /\ Shape(n) /\ ~Inside(n)
      BY <2>3 DEF Idle, Operation, Steps, Documents, Values, Nothing, Kinds, Paths, Sources, Shape,
                  Refreshing, Freezing, Inside, Locked
    <3>3. UNCHANGED contents
      BY <1>2, <2>3
    <3>4. Begins(n)
      BY <2>3, <3>1, <3>2, <3>3 DEF Idle
    <3> HIDE DEF Begins
    <3>5. QED
      BY <3>4
  <2>4. CASE kind \in {"finalize", "refresh", "index", "load"}
    <3> DEFINE n == [[Idle EXCEPT !.kind = kind] EXCEPT
                       !.step = CASE kind = "load" -> "open" [] kind = "index" -> "look" [] OTHER -> "lock"]
    <3>1. op' = [op EXCEPT ![a] = n] /\ UNCHANGED contents
      BY <1>2, <2>4
    <3>2. n \in Operation /\ Shape(n) /\ ~Inside(n)
      BY <2>4 DEF Idle, Operation, Steps, Documents, Values, Nothing, Kinds, Shape, Refreshing, Inside, Locked
    <3>3. Begins(n)
      BY <2>4, <3>1, <3>2 DEF Idle
    <3> HIDE DEF Begins
    <3>4. QED
      BY <3>3
  <2>5. QED
    BY <1>3, <2>1, <2>2, <2>3, <2>4 DEF Kinds
<1>5. PICK n : Begins(n)
  BY <1>4
<1>6. Continues(a, n)
  BY <1>5 DEF Continues, PatchIs, DecisionTold, HasEntries, HasView
<1>7. LockFits(a, n)
  BY <1>1, <1>5 DEF LockFits, Begin, IInv, Typed
<1>8. OnlyFresh(a, n)
  BY <1>1, <1>5 DEF OnlyFresh, Pending, IInv, Typed
<1>9. UNCHANGED << cast, stored, lock, crashes, frozen, loaded, clean >>
  BY DEF Begin
<1>10. RefreshRepairs' /\ SummaryShowsItsEntries'
  BY <1>9 DEF stored, IInv, RefreshInv, RefreshRepairs, Loadable, Verified, SummaryShowsItsEntries
<1>11. catalog' \in Bundles \cup {NULL} /\ \A p \in frozen' : p \in {1, 2} /\ files["patch"] = p
  BY <1>9 DEF stored, IInv, Typed, FrozenInv
<1> HIDE DEF Begins
<1>12. op' = [op EXCEPT ![a] = n]
  BY <1>5 DEF Begins
<1>13. QED
  BY <1>6, <1>7, <1>8, <1>9, <1>10, <1>11, <1>12, LocalKeeps DEF stored

\* The task lock is taken when nobody is inside.
LEMMA AcquireLockKeeps ==
  ASSUME IInv, NEW a \in Actors, AcquireLock(a)
  PROVE  IInv'
<1> DEFINE n == [op[a] EXCEPT !.alone = TRUE,
                              !.step = CASE op[a].kind = "refreeze" -> "find"
                                         [] op[a].kind = "finalize" -> "output"
                                         [] OTHER -> "select"]
<1>1. op[a] \in Operation /\ Shape(op[a]) /\ op[a].step = "lock" /\ op[a].kind \in Locked
  BY OwnContinues DEF AcquireLock, At, Continues, Shape
<1>2. /\ n \in Operation /\ n.kind = op[a].kind /\ n.step \in {"find", "output", "select"}
      /\ n.path = op[a].path /\ n.data = op[a].data /\ n.next = op[a].next
      /\ n.step = "find" <=> n.kind = "refreeze"
      /\ n.step = "output" <=> n.kind = "finalize"
  BY <1>1 DEF Operation, Steps, Locked
<1>3. op' = [op EXCEPT ![a] = n]
  BY OwnContinues DEF AcquireLock
<1> HIDE DEF n
<1>4. Shape(n) /\ Inside(n)
  BY <1>1, <1>2 DEF Shape, Refreshing, Freezing, Inside, Locked
<1>5. Continues(a, n)
  BY <1>2, <1>4, OwnContinues DEF Continues, PatchIs, DecisionTold, HasEntries, HasView, Repaired,
                                  AttemptsDone, SummaryDone, BundleDone
<1>6. LockFits(a, n)
  BY <1>4, NullIsNoValue DEF AcquireLock, LockFits
<1>7. QED
  BY <1>2, <1>3, <1>5, <1>6, QuietKeeps DEF AcquireLock

\* What is read of the manifest is the manifest.
LEMMA ReadManifestKeeps ==
  ASSUME IInv, NEW a \in Actors, ReadManifest(a)
  PROVE  IInv'
<1> DEFINE n == [op[a] EXCEPT !.manifest = manifest, !.step = "replace"]
<1>1. op[a] \in Operation /\ op[a].step = "register" /\ IsStore(manifest)
  BY OwnContinues DEF ReadManifest, At, Continues, IInv, Typed
<1>2. /\ n \in Operation /\ n.step = "replace" /\ n.manifest = manifest /\ n.kind = op[a].kind
      /\ n.path = op[a].path /\ n.data = op[a].data /\ n.next = op[a].next
      /\ n.entries = op[a].entries /\ n.view = op[a].view /\ n.alone = op[a].alone
  BY <1>1 DEF Operation, Steps, IsStore
<1>3. op' = [op EXCEPT ![a] = n]
  BY OwnContinues DEF ReadManifest
<1> HIDE DEF n
<1>4. Shape(n) /\ (Inside(n) <=> Inside(op[a]))
  BY <1>1, <1>2, OwnContinues
  DEF Continues, Shape, Refreshing, Staging, Importing, Deriving, Collecting, Freezing, Outputting, Inside
<1>5. PatchIs(n) /\ DecisionTold(n) /\ (n.alone => Repaired(n))
  BY <1>1, <1>2, OwnContinues
  DEF Continues, PatchIs, DecisionTold, HasEntries, HasView, Repaired, AttemptsDone, SummaryDone,
      BundleDone, Refreshing, BundleOf
<1>6. Continues(a, n)
  BY <1>2, <1>4, <1>5, OwnContinues DEF Continues
<1>7. QED
  BY <1>2, <1>3, <1>4, <1>6, SameLock, QuietKeeps DEF ReadManifest

\* The place of new evidence.
LEMMA ChooseVersionKeeps ==
  ASSUME IInv, NEW a \in Actors, ChooseVersion(a)
  PROVE  IInv'
<1> DEFINE n == [op[a] EXCEPT !.path = NextVersion,
                              !.step = IF op[a].kind = "import" THEN "check" ELSE "link"]
<1>1. /\ op[a] \in Operation /\ op[a].step = "version" /\ op[a].kind \in {"evidence", "import"}
      /\ op[a].data \in Contents /\ op[a].next = "end"
  BY OwnContinues DEF ChooseVersion, At, Continues, Shape, Refreshing
<1>2. NextVersion \in Versions
  BY DEF ChooseVersion, NextVersion, Versions
<1>3. /\ n \in Operation /\ n.kind = op[a].kind /\ n.path \in Versions /\ n.data = op[a].data
      /\ n.step \in {"check", "link"}
      /\ n.step = "check" <=> n.kind = "import"
      /\ n.next = op[a].next
  BY <1>1, <1>2 DEF Operation, Steps, Paths
<1>4. op' = [op EXCEPT ![a] = n]
  BY OwnContinues DEF ChooseVersion
<1> HIDE DEF n
<1>5. Shape(n) /\ ~Inside(n) /\ ~Inside(op[a])
  BY <1>1, <1>3 DEF Shape, Refreshing, Importing, Collecting, Inside, Locked
<1>6. Continues(a, n)
  BY <1>3, <1>5, OwnContinues DEF Continues, PatchIs, DecisionTold, HasEntries, HasView, Repaired,
                                  AttemptsDone, SummaryDone, BundleDone
<1>7. QED
  BY <1>3, <1>4, <1>5, <1>6, SameLock, QuietKeeps DEF ChooseVersion

\* An operation that goes on with what it has, or ends.
LEMMA GotoKeeps ==
  ASSUME IInv, NEW a \in Actors, NEW s \in Steps, Goto(a, s), UNCHANGED lock,
         Continues(a, [op[a] EXCEPT !.step = s]), s = "write" => op[a].kind # "stage",
         op[a].kind \in Locked => (s \in {"lock", "look", "prune"} <=> op[a].step \in {"lock", "look", "prune"}),
         UNCHANGED << cast, stored, contents, frozen, loaded, clean >>
  PROVE  IInv'
<1> DEFINE n == [op[a] EXCEPT !.step = s]
<1>1. op[a] \in Operation
  BY OwnContinues DEF Continues
<1>2. n.kind = op[a].kind /\ n.step = s /\ Continues(a, n)
  BY <1>1 DEF Operation
<1>3. op' = [op EXCEPT ![a] = n]
  BY OwnContinues DEF Goto
<1> HIDE DEF n
<1>4. Inside(n) <=> Inside(op[a])
  BY <1>2 DEF Inside
<1>5. QED
  BY <1>2, <1>3, <1>4, SameLock, QuietKeeps

LEMMA CheckImportKeeps ==
  ASSUME IInv, NEW a \in Actors, CheckImport(a)
  PROVE  IInv'
<1>1. CASE files[op[a].path] = NULL
  <2> DEFINE n == [op[a] EXCEPT !.step = "write"]
  <2>1. op[a] \in Operation /\ op[a].step = "check" /\ Importing(op[a]) /\ op[a].next = "end"
    BY OwnContinues DEF CheckImport, At, Continues, Shape, Refreshing, Importing
  <2>2. /\ n \in Operation /\ n.step = "write" /\ n.kind = op[a].kind /\ n.path = op[a].path
        /\ n.data = op[a].data /\ n.next = op[a].next
    BY <2>1 DEF Operation, Steps
  <2> HIDE DEF n
  <2>3. Shape(n)
    BY <2>1, <2>2 DEF Shape, Refreshing, Importing
  <2>4. Continues(a, n)
    BY <2>1, <2>2, <2>3, OwnContinues
    DEF Continues, Importing, PatchIs, DecisionTold, HasEntries, HasView, Repaired, AttemptsDone,
        SummaryDone, BundleDone, Refreshing
  <2>5. op[a].kind \notin Locked /\ op[a].kind # "stage"
    BY <2>1 DEF Importing, Locked
  <2>6. QED
    BY <1>1, <2>4, <2>5, GotoKeeps DEF CheckImport, n, Steps
<1>2. CASE files[op[a].path] # NULL
  BY <1>2, EndKeeps DEF CheckImport
<1>3. QED
  BY <1>1, <1>2

\* What is returned as frozen is the registered patch, which is there.
LEMMA FindFrozenKeeps ==
  ASSUME IInv, NEW a \in Actors, FindFrozen(a)
  PROVE  IInv'
<1>1. op[a] \in Operation /\ op[a].step = "find" /\ Freezing(op[a]) /\ op[a].next = "end"
  BY OwnContinues DEF FindFrozen, At, Continues, Shape, Refreshing, Freezing
<1>2. CASE manifest["patch"] = NULL
  <2> DEFINE n == [op[a] EXCEPT !.step = "link"]
  <2>1. /\ n \in Operation /\ n.step = "link" /\ n.kind = op[a].kind /\ n.path = op[a].path
        /\ n.data = op[a].data /\ n.next = op[a].next
    BY <1>1 DEF Operation, Steps
  <2> HIDE DEF n
  <2>2. Shape(n)
    BY <1>1, <2>1 DEF Shape, Refreshing, Freezing
  <2>3. Continues(a, n)
    BY <1>1, <2>1, <2>2, OwnContinues
    DEF Continues, Freezing, PatchIs, DecisionTold, HasEntries, HasView, Repaired, AttemptsDone,
        SummaryDone, BundleDone, Refreshing
  <2>4. QED
    BY <1>1, <1>2, <2>3, GotoKeeps DEF FindFrozen, n, Steps
<1>3. CASE manifest["patch"] # NULL
  <2>1. /\ End(a) /\ UNCHANGED << cast, stored, contents, crashes, loaded, clean >>
        /\ \A p \in frozen' : p \in frozen
              \/ (files["patch"] = manifest["patch"] /\ manifest["patch"] = op[a].data /\ p = op[a].data)
    BY <1>3 DEF FindFrozen, Verified
  <2>2. \A p \in frozen' : p \in {1, 2} /\ files["patch"] = p
    BY <1>1, <2>1 DEF IInv, FrozenInv, Freezing
  <2>3. RefreshRepairs' /\ SummaryShowsItsEntries'
    BY <2>1 DEF stored, IInv, RefreshInv, RefreshRepairs, Loadable, Verified, SummaryShowsItsEntries
  <2>4. catalog' \in Bundles \cup {NULL}
    BY <2>1 DEF stored, IInv, Typed
  <2>5. QED
    BY <2>1, <2>2, <2>3, <2>4, IdleContinues, LocalKeeps DEF End, stored
<1>4. QED
  BY <1>2, <1>3

\* What an evaluator left is registered inside the lock.
LEMMA RegisterOutputKeeps ==
  ASSUME IInv, NEW a \in Actors, RegisterOutput(a)
  PROVE  IInv'
<1>1. op[a] \in Operation /\ op[a].step = "output" /\ op[a].kind = "finalize" /\ op[a].next = "end"
  BY OwnContinues DEF RegisterOutput, At, Continues, Shape, Refreshing
<1>2. CASE files["output"] # NULL
  <2> DEFINE n == [op[a] EXCEPT !.path = "output", !.data = files["output"], !.step = "register"]
  <2>1. files["output"] \in Values
    BY DEF IInv, Typed, IsStore, Document, Paths, Sources, Derived
  <2>2. /\ n \in Operation /\ n.step = "register" /\ n.kind = "finalize" /\ n.path = "output"
        /\ n.data = files["output"] /\ n.next = "end"
    BY <1>1, <2>1 DEF Operation, Steps, Documents, Paths, Sources
  <2>3. op' = [op EXCEPT ![a] = n]
    BY <1>2, OwnContinues DEF RegisterOutput
  <2> HIDE DEF n
  <2>4. Shape(n)
    BY <1>2, <2>1, <2>2 DEF Shape, Refreshing, Outputting
  <2>5. Continues(a, n)
    BY <1>1, <2>2, <2>4, OwnContinues
    DEF Continues, PatchIs, DecisionTold, HasEntries, HasView, Repaired, AttemptsDone, SummaryDone,
        BundleDone, Refreshing
  <2>6. Inside(n) <=> Inside(op[a])
    BY <1>1, <2>2 DEF Inside
  <2>7. QED
    BY <1>2, <2>2, <2>3, <2>5, <2>6, SameLock, QuietKeeps DEF RegisterOutput
<1>3. CASE files["output"] = NULL
  BY <1>3, EndKeeps DEF RegisterOutput
<1>4. QED
  BY <1>2, <1>3

-----------------------------------------------------------------------------
(* The refresh.                                                            *)

\* Goto of a refresh, which is inside the lock before and after.
LEMMA RefreshGotoKeeps ==
  ASSUME IInv, NEW a \in Actors, NEW s \in Steps, Goto(a, s), UNCHANGED lock,
         Refreshing(op[a]), {s, op[a].step} \cap {"lock", "look", "prune"} = {},
         Shape([op[a] EXCEPT !.step = s]), s \notin {"write", "register", "replace"},
         DecisionTold([op[a] EXCEPT !.step = s]),
         op[a].alone => Repaired([op[a] EXCEPT !.step = s]),
         UNCHANGED << cast, stored, contents, frozen, loaded, clean >>
  PROVE  IInv'
<1> DEFINE n == [op[a] EXCEPT !.step = s]
<1>1. op[a] \in Operation
  BY OwnContinues DEF Continues
<1>2. n \in Operation /\ n.kind = op[a].kind /\ n.step = s /\ n.alone = op[a].alone
  BY <1>1 DEF Operation
<1>3. Shape(n) /\ DecisionTold(n) /\ (n.alone => Repaired(n))
  BY <1>2
<1> HIDE DEF n
<1>4. Continues(a, n)
  BY <1>2, <1>3, OwnContinues DEF Continues, PatchIs
<1>5. QED
  BY <1>4, GotoKeeps DEF n

LEMMA SelectEvidenceKeeps ==
  ASSUME IInv, NEW a \in Actors, SelectEvidence(a)
  PROVE  IInv'
<1>1. op[a] \in Operation /\ op[a].step = "select" /\ Refreshing(op[a])
  BY OwnContinues DEF SelectEvidence, At, Continues, Shape
<1>2. CASE Verified("decision") /\ files["patch"] = manifest["patch"]
  <2> DEFINE n == [op[a] EXCEPT !.step = "collect"]
  <2>1. n.kind = op[a].kind /\ n.step = "collect"
    BY <1>1 DEF Operation
  <2> HIDE DEF n
  <2>2. Shape(n) /\ DecisionTold(n) /\ Repaired(n)
    BY <1>1, <1>2, <2>1 DEF Shape, Refreshing, DecisionTold, HasEntries, HasView, Repaired,
                            AttemptsDone, SummaryDone, BundleDone
  <2>3. QED
    BY <1>1, <1>2, <2>2, RefreshGotoKeeps DEF SelectEvidence, n, Steps
<1>3. CASE ~(Verified("decision") /\ files["patch"] = manifest["patch"])
  BY <1>3, EndKeeps DEF SelectEvidence
<1>4. QED
  BY <1>2, <1>3

\* An output that nobody registered is registered on the way.
LEMMA CollectOutputKeeps ==
  ASSUME IInv, NEW a \in Actors, CollectOutput(a)
  PROVE  IInv'
<1>1. /\ op[a] \in Operation /\ op[a].step = "collect" /\ Refreshing(op[a])
      /\ op[a].alone => files["patch"] = manifest["patch"]
  BY OwnContinues DEF CollectOutput, At, Continues, Shape, Repaired
<1>2. CASE files["output"] = NULL \/ Verified("output")
  <2> DEFINE n == [op[a] EXCEPT !.step = "entries"]
  <2>1. n.kind = op[a].kind /\ n.step = "entries"
    BY <1>1 DEF Operation
  <2> HIDE DEF n
  <2>2. Shape(n) /\ DecisionTold(n) /\ (op[a].alone => Repaired(n))
    BY <1>1, <1>2, <2>1 DEF Shape, Refreshing, DecisionTold, HasEntries, HasView, Repaired,
                            AttemptsDone, SummaryDone, BundleDone, Verified
  <2>3. Goto(a, "entries") /\ UNCHANGED << lock, cast, stored, contents, frozen, loaded, clean >>
    BY <1>2 DEF CollectOutput, Verified
  <2>4. QED
    BY <1>1, <2>2, <2>3, RefreshGotoKeeps DEF n, Steps
<1>3. CASE files["output"] # NULL /\ ~Verified("output") /\ manifest["output"] = NULL
  <2> DEFINE n == [op[a] EXCEPT !.path = "output", !.data = files["output"],
                                !.step = "register", !.next = "entries"]
  <2>1. files["output"] \in Values
    BY DEF IInv, Typed, IsStore, Document, Paths, Sources, Derived
  <2>2. /\ n \in Operation /\ n.step = "register" /\ n.kind = op[a].kind /\ n.path = "output"
        /\ n.data = files["output"] /\ n.next = "entries" /\ n.alone = op[a].alone
    BY <1>1, <2>1 DEF Operation, Steps, Documents, Paths, Sources
  <2>3. op' = [op EXCEPT ![a] = n] /\ UNCHANGED lock
    BY <1>3, OwnContinues DEF CollectOutput
  <2> HIDE DEF n
  <2>4. Shape(n) /\ (Inside(n) <=> Inside(op[a]))
    BY <1>1, <1>3, <2>1, <2>2 DEF Shape, Refreshing, Outputting, Inside
  <2>5. Continues(a, n)
    BY <1>1, <2>2, <2>4, OwnContinues
    DEF Continues, PatchIs, DecisionTold, HasEntries, HasView, Repaired, AttemptsDone, SummaryDone,
        BundleDone
  <2>6. QED
    BY <2>2, <2>3, <2>4, <2>5, SameLock, QuietKeeps DEF CollectOutput
<1>4. CASE files["output"] # NULL /\ ~Verified("output") /\ manifest["output"] # NULL
  BY <1>4, EndKeeps DEF CollectOutput
<1>5. QED
  BY <1>2, <1>3, <1>4

\* The entries are taken when all that is registered is there; the decision among
\* them has been written.
LEMMA TakeEntriesKeeps ==
  ASSUME IInv, NEW a \in Actors, TakeEntries(a)
  PROVE  IInv'
<1> DEFINE entries == [p \in Sources |-> manifest[p]]
           Whole == Verified("decision") /\ \A p \in Sources : entries[p] # NULL => Verified(p)
<1>1. /\ op[a] \in Operation /\ op[a].step = "entries" /\ Refreshing(op[a])
      /\ op[a].alone => /\ files["patch"] = manifest["patch"]
                        /\ files["output"] = NULL \/ files["output"] = manifest["output"]
  BY OwnContinues DEF TakeEntries, At, Continues, Shape, Repaired
<1>2. CASE Whole
  <2> DEFINE n == [op[a] EXCEPT !.entries = entries, !.step = "attempts"]
  <2>1. entries \in Entries
    BY DEF Entries, IInv, Typed, IsStore, Document, Paths, Sources, Derived
  <2>2. /\ n \in Operation /\ n.step = "attempts" /\ n.kind = op[a].kind /\ n.entries = entries
        /\ n.alone = op[a].alone /\ n.next = op[a].next
    BY <1>1, <2>1 DEF Operation, Steps
  <2>3. op' = [op EXCEPT ![a] = n] /\ UNCHANGED lock
    BY <1>2, OwnContinues DEF TakeEntries
  <2>4. Settled(entries["decision"]) /\ files["decision"] # NULL
    BY <1>2 DEF Verified, IInv, DecisionInv, Sources
  <2>5. op[a].alone => \A p \in Sources : entries[p] = manifest[p] /\ files[p] = manifest[p]
    BY <1>1, <1>2 DEF Verified, Sources
  <2> HIDE DEF n, entries
  <2>6. Shape(n) /\ (Inside(n) <=> Inside(op[a]))
    BY <1>1, <2>1, <2>2 DEF Shape, Refreshing, Inside
  <2>7. PatchIs(n) /\ DecisionTold(n) /\ (n.alone => Repaired(n))
    BY <2>2, <2>4, <2>5 DEF PatchIs, DecisionTold, HasEntries, HasView, Repaired, AttemptsDone, SummaryDone,
                            BundleDone
  <2>8. Continues(a, n)
    BY <2>2, <2>6, <2>7, OwnContinues DEF Continues
  <2>9. QED
    BY <2>2, <2>3, <2>6, <2>8, SameLock, QuietKeeps DEF TakeEntries
<1>3. CASE ~Whole
  BY <1>3, EndKeeps DEF TakeEntries
<1>4. QED
  BY <1>2, <1>3

\* A document of the refresh that is published already, or has to be written.
LEMMA CanonicalWriteKeeps ==
  ASSUME IInv, NEW a \in Actors, NEW step \in Steps, NEW path, NEW content, NEW next \in Steps,
         CanonicalWrite(a, step, path, content, next),
         \/ step = "attempts" /\ path = "attempts" /\ content = AttemptIndex(op[a].entries) /\ next = "verify"
         \/ step = "summary" /\ path = "summary" /\ content = Bundle(a) /\ next = "bundle"
         \/ step = "bundle" /\ path = "bundle" /\ content = Bundle(a) /\ next = "catalog"
  PROVE  IInv'
<1>1. /\ op[a] \in Operation /\ op[a].step = step /\ Refreshing(op[a]) /\ op[a].entries \in Entries
      /\ step \in {"summary", "bundle"} => op[a].view \in Contents
      /\ step \in {"attempts", "summary", "bundle"} /\ path \in Derived
  BY OwnContinues DEF CanonicalWrite, At, Continues, Shape, Derived
<1>2. DecisionTold(op[a]) /\ (op[a].alone => Repaired(op[a]))
  BY OwnContinues DEF Continues
<1>3. UNCHANGED << lock, cast, stored, contents, frozen, loaded, clean >>
  BY DEF CanonicalWrite
<1>4. CASE Verified(path) /\ files[path] = content
  <2> DEFINE n == [op[a] EXCEPT !.step = next]
  <2>1. /\ n.kind = op[a].kind /\ n.step = next /\ n.entries = op[a].entries /\ n.view = op[a].view
        /\ n.next = op[a].next
    BY <1>1 DEF Operation
  <2>2. Goto(a, next)
    BY <1>4 DEF CanonicalWrite
  <2> HIDE DEF n
  <2>3. Shape(n)
    BY <1>1, <2>1 DEF Shape, Refreshing
  <2>4. DecisionTold(n)
    BY <1>1, <1>2, <2>1 DEF DecisionTold, HasEntries, HasView
  <2>5. op[a].alone => Repaired(n)
    <3> SUFFICES ASSUME op[a].alone PROVE Repaired(n)
      OBVIOUS
    <3>1. Published(path, content)
      BY <1>4 DEF Verified, Published
    <3>2. BundleOf(n) = BundleOf(op[a]) /\ BundleOf(n) = Bundle(a)
      BY <2>1 DEF BundleOf, Bundle
    <3>3. QED
      BY <1>1, <1>2, <2>1, <3>1, <3>2 DEF Repaired, HasEntries, AttemptsDone, SummaryDone, BundleDone
  <2>6. QED
    BY <1>1, <1>3, <2>2, <2>3, <2>4, <2>5, RefreshGotoKeeps DEF n
<1>5. CASE ~(Verified(path) /\ files[path] = content)
  <2> DEFINE n == [op[a] EXCEPT !.path = path, !.data = content, !.next = next, !.step = "write"]
  <2>1. content \in Bundles
    BY <1>1 DEF Bundles, Entries, Values, AttemptIndex, Bundle
  <2>2. /\ n \in Operation /\ n.step = "write" /\ n.kind = op[a].kind /\ n.path = path
        /\ n.data = content /\ n.next = next /\ n.alone = op[a].alone
        /\ n.entries = op[a].entries /\ n.view = op[a].view
    BY <1>1, <2>1 DEF Operation, Steps, Documents, Paths
  <2>3. op' = [op EXCEPT ![a] = n]
    BY <1>5, OwnContinues DEF CanonicalWrite
  <2> HIDE DEF n
  <2>4. Deriving(n)
    BY <1>1, <2>2 DEF Deriving, Refreshing, Bundle
  <2>5. Shape(n) /\ (Inside(n) <=> Inside(op[a])) /\ n.kind # "stage"
    BY <1>1, <2>2, <2>4 DEF Shape, Refreshing, Inside
  <2>6. PatchIs(n) /\ DecisionTold(n)
    BY <1>1, <1>2, <2>2 DEF PatchIs, DecisionTold, HasEntries, HasView
  <2>7. n.alone => Repaired(n)
    <3>1. BundleOf(n) = BundleOf(op[a])
      BY <2>2 DEF BundleOf
    <3>2. QED
      BY <1>1, <1>2, <2>2, <3>1 DEF Repaired, HasEntries, AttemptsDone, SummaryDone, BundleDone
  <2>8. Continues(a, n)
    BY <2>2, <2>5, <2>6, <2>7, OwnContinues DEF Continues
  <2>9. QED
    BY <1>3, <2>3, <2>5, <2>8, SameLock, QuietKeeps
<1>6. QED
  BY <1>4, <1>5

LEMMA PublishFileKeeps ==
  ASSUME IInv, NEW a \in Actors, PublishFile(a)
  PROVE  IInv'
BY CanonicalWriteKeeps DEF PublishFile, Steps

LEMMA VerifyDecisionKeeps ==
  ASSUME IInv, NEW a \in Actors, VerifyDecision(a)
  PROVE  IInv'
<1>1. op[a] \in Operation /\ op[a].step = "verify" /\ Refreshing(op[a]) /\ op[a].entries \in Entries
  BY OwnContinues DEF VerifyDecision, At, Continues, Shape
<1>2. CASE Verified("decision")
  <2> DEFINE n == [op[a] EXCEPT !.step = "read"]
  <2>1. n.kind = op[a].kind /\ n.step = "read" /\ n.entries = op[a].entries /\ n.next = op[a].next
    BY <1>1 DEF Operation
  <2>2. Goto(a, "read") /\ UNCHANGED << lock, cast, stored, contents, frozen, loaded, clean >>
    BY <1>2 DEF VerifyDecision
  <2> HIDE DEF n
  <2>3. Shape(n) /\ DecisionTold(n) /\ (op[a].alone => Repaired(n))
    BY <1>1, <2>1, OwnContinues DEF Continues, Shape, Refreshing, DecisionTold, HasEntries, HasView, Repaired,
                                    AttemptsDone, SummaryDone, BundleDone
  <2>4. QED
    BY <1>1, <2>2, <2>3, RefreshGotoKeeps DEF n, Steps
<1>3. CASE ~Verified("decision")
  BY <1>3, EndKeeps DEF VerifyDecision
<1>4. QED
  BY <1>2, <1>3

\* What is read is the decision of the entries, or that one is gone.
LEMMA ReadDecisionKeeps ==
  ASSUME IInv, NEW a \in Actors, ReadDecision(a)
  PROVE  IInv'
<1> DEFINE n == [op[a] EXCEPT !.view = files["decision"], !.step = "summary"]
<1>1. op[a] \in Operation /\ op[a].step = "read" /\ Refreshing(op[a]) /\ op[a].entries \in Entries
  BY OwnContinues DEF ReadDecision, At, Continues, Shape
<1>2. /\ Settled(op[a].entries["decision"]) /\ files["decision"] # NULL
      /\ op[a].alone => Repaired(op[a])
  BY <1>1, OwnContinues DEF Continues, DecisionTold, HasEntries
<1>3. files["decision"] \in Contents /\ IsStore(files)
  BY <1>2, StoreAssumption DEF IInv, Typed, DecisionInv, Settled, Contents
<1>4. /\ n \in Operation /\ n.step = "summary" /\ n.kind = op[a].kind /\ n.view = files["decision"]
      /\ n.entries = op[a].entries /\ n.next = op[a].next /\ n.alone = op[a].alone
  BY <1>1, <1>3 DEF Operation, Steps, Documents, Values
<1>5. op' = [op EXCEPT ![a] = n] /\ UNCHANGED << lock, cast, stored, contents, frozen, loaded, clean >>
  BY OwnContinues DEF ReadDecision
<1> HIDE DEF n
<1>6. Shape(n) /\ (Inside(n) <=> Inside(op[a]))
  BY <1>1, <1>3, <1>4 DEF Shape, Refreshing, Inside
<1>7. DecisionTold(n)
  BY <1>2, <1>4 DEF DecisionTold, HasEntries, HasView, Consistent
<1>8. PatchIs(n) /\ (n.alone => Repaired(n))
  BY <1>1, <1>2, <1>4 DEF PatchIs, Repaired, HasEntries, AttemptsDone, SummaryDone, BundleDone
<1>9. Continues(a, n)
  BY <1>4, <1>6, <1>7, <1>8, OwnContinues DEF Continues
<1>10. QED
  BY <1>4, <1>5, <1>6, <1>9, SameLock, QuietKeeps

\* The row is that of the bundle; if nobody else wrote, the bundle can be loaded.
LEMMA UpsertRowKeeps ==
  ASSUME IInv, NEW a \in Actors, UpsertRow(a)
  PROVE  IInv'
<1>1. /\ op[a] \in Operation /\ op[a].step = "catalog" /\ Refreshing(op[a]) /\ op[a].entries \in Entries
      /\ op[a].view \in Contents
  BY OwnContinues DEF UpsertRow, At, Continues, Shape
<1>2. Bundle(a) \in Bundles /\ Bundle(a) = BundleOf(op[a])
  BY <1>1 DEF Bundles, Bundle, BundleOf, Entries, Values
<1>3. /\ catalog' = Bundle(a) /\ clean' = op[a].alone
      /\ UNCHANGED << cast, files, manifest, contents, crashes, frozen, loaded >>
  BY DEF UpsertRow
<1>4. RefreshRepairs'
  <2> SUFFICES ASSUME op[a].alone PROVE Loadable /\ Bundle(a) = files["bundle"]
    BY <1>3 DEF RefreshRepairs, Loadable, Verified
  <2>1. /\ Published("attempts", AttemptIndex(op[a].entries))
        /\ Published("summary", Bundle(a)) /\ Published("bundle", Bundle(a))
        /\ \A p \in Sources : op[a].entries[p] = manifest[p] /\ files[p] = manifest[p]
    BY <1>1, <1>2, OwnContinues DEF Continues, Repaired, HasEntries, AttemptsDone, SummaryDone, BundleDone
  <2>2. AttemptIndex(op[a].entries) \in Bundles
    BY <1>1 DEF AttemptIndex, Bundles, Entries, Values
  <2>3. Bundle(a).entries = op[a].entries /\ AttemptIndex(op[a].entries).entries = op[a].entries
    BY DEF Bundle, AttemptIndex
  <2>4. QED
    BY <1>2, <2>1, <2>2, <2>3, NullIsNoValue DEF Published, Loadable, Verified, Derived
<1>5. SummaryShowsItsEntries' /\ \A p \in frozen' : p \in {1, 2} /\ files["patch"] = p
  BY <1>3 DEF IInv, SummaryShowsItsEntries, FrozenInv
<1>6. CASE op[a].kind = "index"
  <2> DEFINE n == [op[a] EXCEPT !.step = "prune"]
  <2>1. /\ n \in Operation /\ n.kind = "index" /\ n.step = "prune" /\ n.entries = op[a].entries
        /\ n.next = op[a].next
    BY <1>1, <1>6 DEF Operation, Steps
  <2>2. op' = [op EXCEPT ![a] = n] /\ lock' = Unlocked(a)
    BY <1>6 DEF UpsertRow, Goto
  <2> HIDE DEF n
  <2>3. Shape(n) /\ ~Inside(n)
    BY <2>1 DEF Shape, Refreshing, Inside
  <2>4. PatchIs(n) /\ DecisionTold(n) /\ Repaired(n)
    BY <2>1 DEF PatchIs, DecisionTold, HasEntries, HasView, Repaired, AttemptsDone, SummaryDone, BundleDone
  <2>5. Continues(a, n)
    BY <1>6, <2>1, <2>3, <2>4, OwnContinues DEF Continues
  <2>6. LockFits(a, n)
    BY <2>2, <2>3, NullIsNoValue DEF LockFits, Unlocked, IInv, Typed
  <2>7. OnlyFresh(a, n)
    BY <1>3, <2>1 DEF OnlyFresh, Pending, IInv, Typed
  <2>8. QED
    BY <1>2, <1>3, <1>4, <1>5, <2>2, <2>5, <2>6, <2>7, LocalKeeps
<1>7. CASE op[a].kind # "index"
  <2>1. End(a)
    BY <1>7 DEF UpsertRow
  <2>2. QED
    BY <1>2, <1>3, <1>4, <1>5, <2>1, IdleContinues, LocalKeeps DEF End
<1>8. QED
  BY <1>6, <1>7

LEMMA FindTerminalKeeps ==
  ASSUME IInv, NEW a \in Actors, FindTerminal(a)
  PROVE  IInv'
<1>1. op[a] \in Operation /\ op[a].step = "look" /\ op[a].kind = "index"
  BY OwnContinues DEF FindTerminal, At, Continues, Shape
<1>2. ASSUME NEW s \in {"prune", "lock"}, Goto(a, s) PROVE IInv'
  <2> DEFINE n == [op[a] EXCEPT !.step = s]
  <2>1. n \in Operation /\ n.kind = "index" /\ n.step = s /\ n.next = op[a].next
    BY <1>1 DEF Operation, Steps
  <2> HIDE DEF n
  <2>2. Shape(n)
    BY <2>1 DEF Shape, Refreshing, Locked
  <2>3. PatchIs(n) /\ DecisionTold(n) /\ Repaired(n)
    BY <2>1 DEF PatchIs, DecisionTold, HasEntries, HasView, Repaired, AttemptsDone, SummaryDone, BundleDone
  <2>4. Continues(a, n)
    BY <1>1, <2>1, <2>2, <2>3, OwnContinues DEF Continues
  <2>5. UNCHANGED << lock, cast, stored, contents, frozen, loaded, clean >>
    BY DEF FindTerminal
  <2>6. s \in Steps /\ s # "write" /\ s \in {"lock", "look", "prune"}
    BY DEF Steps
  <2>7. QED
    BY <1>1, <1>2, <2>4, <2>5, <2>6, GotoKeeps DEF n
<1>3. QED
  BY <1>2 DEF FindTerminal

\* A row that goes takes the promise with it.
LEMMA PruneRowKeeps ==
  ASSUME IInv, NEW a \in Actors, PruneRow(a)
  PROVE  IInv'
<1>1. /\ End(a) /\ UNCHANGED << cast, files, manifest, contents, crashes, frozen, loaded >>
      /\ catalog' = IF op[a].entries = NULL THEN NULL ELSE catalog
      /\ clean' = (clean /\ op[a].entries # NULL)
  BY DEF PruneRow
<1>2. RefreshRepairs' /\ SummaryShowsItsEntries'
  BY <1>1 DEF IInv, RefreshInv, RefreshRepairs, Loadable, Verified, SummaryShowsItsEntries
<1>3. catalog' \in Bundles \cup {NULL} /\ \A p \in frozen' : p \in {1, 2} /\ files["patch"] = p
  BY <1>1 DEF IInv, Typed, FrozenInv
<1>4. QED
  BY <1>1, <1>2, <1>3, IdleContinues, LocalKeeps DEF End

-----------------------------------------------------------------------------
(* The reader.                                                             *)

\* A reader that goes on keeps what it has read.
LEMMA ReaderKeeps ==
  ASSUME IInv, NEW a \in Actors, NEW n, n \in Operation, op[a].kind = "load", n.kind = "load", n.next = "end",
         n.step \in {"open_bundle", "check_bundle", "check_sources"}, n.view \in Bundles, Told(n.view),
         n.step \in {"check_bundle", "check_sources"} => n.data \in Bundles /\ n.data.entries = n.view.entries,
         op' = [op EXCEPT ![a] = n], UNCHANGED << lock, cast, stored, contents, frozen, loaded, clean >>
  PROVE  IInv'
<1>1. Shape(n) /\ ~Inside(n) /\ ~Inside(op[a])
  BY DEF Shape, Refreshing, Inside, Locked
<1>2. PatchIs(n) /\ DecisionTold(n) /\ Repaired(n)
  BY DEF PatchIs, DecisionTold, HasEntries, HasView, Repaired, AttemptsDone, SummaryDone, BundleDone
<1>3. Continues(a, n)
  BY <1>1, <1>2, OwnContinues DEF Continues
<1>4. QED
  BY <1>1, <1>3, SameLock, QuietKeeps

LEMMA OpenSummaryKeeps ==
  ASSUME IInv, NEW a \in Actors, OpenSummary(a)
  PROVE  IInv'
<1>1. op[a] \in Operation /\ op[a].step = "open" /\ op[a].kind = "load" /\ op[a].next = "end"
  BY OwnContinues DEF OpenSummary, At, Continues, Shape, Refreshing
<1>2. CASE files["summary"] # NULL
  <2> DEFINE n == [op[a] EXCEPT !.view = files["summary"], !.step = "open_bundle"]
  <2>1. files["summary"] \in Bundles /\ Told(files["summary"])
    BY <1>2 DEF IInv, Typed, DecisionInv, IsStore, Document, Paths, Derived
  <2>2. n \in Operation /\ n.kind = "load" /\ n.step = "open_bundle" /\ n.view = files["summary"] /\ n.next = "end"
    BY <1>1, <2>1 DEF Operation, Steps, Documents
  <2>3. op' = [op EXCEPT ![a] = n] /\ UNCHANGED << lock, cast, stored, contents, frozen, loaded, clean >>
    BY <1>2, OwnContinues DEF OpenSummary
  <2> HIDE DEF n
  <2>4. QED
    BY <1>1, <2>1, <2>2, <2>3, ReaderKeeps
<1>3. CASE files["summary"] = NULL
  BY <1>3, EndKeeps DEF OpenSummary
<1>4. QED
  BY <1>2, <1>3

LEMMA OpenBundleKeeps ==
  ASSUME IInv, NEW a \in Actors, OpenBundle(a)
  PROVE  IInv'
<1> DEFINE Fits == ~(files["bundle"] = NULL \/ files["bundle"].entries # op[a].view.entries)
<1>1. /\ op[a] \in Operation /\ op[a].step = "open_bundle" /\ op[a].kind = "load" /\ op[a].next = "end"
      /\ op[a].view \in Bundles /\ Told(op[a].view)
  BY OwnContinues DEF OpenBundle, At, Continues, Shape, Refreshing, DecisionTold
<1>2. CASE Fits
  <2> DEFINE n == [op[a] EXCEPT !.data = files["bundle"], !.step = "check_bundle"]
  <2>1. files["bundle"] \in Bundles
    BY <1>2 DEF IInv, Typed, IsStore, Document, Paths, Derived
  <2>2. /\ n \in Operation /\ n.kind = "load" /\ n.step = "check_bundle" /\ n.view = op[a].view
        /\ n.data = files["bundle"] /\ n.next = "end"
    BY <1>1, <2>1 DEF Operation, Steps, Documents
  <2>3. op' = [op EXCEPT ![a] = n] /\ UNCHANGED << lock, cast, stored, contents, frozen, loaded, clean >>
    BY <1>2, OwnContinues DEF OpenBundle
  <2> HIDE DEF n
  <2>4. QED
    BY <1>1, <1>2, <2>1, <2>2, <2>3, ReaderKeeps
<1>3. CASE ~Fits
  BY <1>3, EndKeeps DEF OpenBundle
<1>4. QED
  BY <1>2, <1>3

LEMMA CheckDerivedKeeps ==
  ASSUME IInv, NEW a \in Actors, CheckDerived(a)
  PROVE  IInv'
<1> DEFINE Whole == /\ manifest["summary"] = op[a].data /\ Verified("summary") /\ Verified("bundle")
                    /\ files["attempts"] = AttemptIndex(op[a].data.entries)
<1>1. /\ op[a] \in Operation /\ op[a].step = "check_bundle" /\ op[a].kind = "load" /\ op[a].next = "end"
      /\ op[a].view \in Bundles /\ Told(op[a].view)
      /\ op[a].data \in Bundles /\ op[a].data.entries = op[a].view.entries
  BY OwnContinues DEF CheckDerived, At, Continues, Shape, Refreshing, DecisionTold
<1>2. CASE Whole
  <2> DEFINE n == [op[a] EXCEPT !.step = "check_sources"]
  <2>1. /\ n \in Operation /\ n.kind = "load" /\ n.step = "check_sources" /\ n.view = op[a].view
        /\ n.data = op[a].data /\ n.next = "end"
    BY <1>1 DEF Operation, Steps
  <2>2. op' = [op EXCEPT ![a] = n] /\ UNCHANGED << lock, cast, stored, contents, frozen, loaded, clean >>
    BY <1>2 DEF CheckDerived, Goto
  <2> HIDE DEF n
  <2>3. QED
    BY <1>1, <2>1, <2>2, ReaderKeeps
<1>3. CASE ~Whole
  BY <1>3, EndKeeps DEF CheckDerived
<1>4. QED
  BY <1>2, <1>3

\* The decision that a bundle lists is there, so the summary shows that one.
LEMMA CheckSourcesKeeps ==
  ASSUME IInv, NEW a \in Actors, CheckSources(a)
  PROVE  IInv'
<1>1. /\ op[a] \in Operation /\ op[a].step = "check_sources" /\ op[a].kind = "load"
      /\ op[a].view \in Bundles /\ Told(op[a].view)
      /\ op[a].data \in Bundles /\ op[a].data.entries = op[a].view.entries
  BY OwnContinues DEF CheckSources, At, Continues, Shape, DecisionTold
<1>2. End(a) /\ UNCHANGED << cast, stored, contents, crashes, frozen, clean >>
  BY DEF CheckSources
<1>3. loaded' = loaded \/ (/\ loaded' = loaded \cup {op[a].view}
                           /\ op[a].data.entries["decision"] # NULL =>
                                manifest["decision"] = op[a].data.entries["decision"] /\ Verified("decision"))
  BY DEF CheckSources, Sources
<1>4. SummaryShowsItsEntries'
  <2>1. CASE loaded' = loaded
    BY <2>1 DEF IInv, SummaryShowsItsEntries
  <2>2. CASE loaded' = loaded \cup {op[a].view} /\ files["decision"] = op[a].view.entries["decision"]
    BY <1>1, <2>2 DEF IInv, SummaryShowsItsEntries, Told, Consistent
  <2>3. op[a].view.entries["decision"] # NULL
    BY <1>1, NullIsNoValue DEF Told, Consistent, Settled, IInv, Typed
  <2>4. QED
    BY <1>1, <1>3, <2>1, <2>2, <2>3 DEF Verified
<1>5. RefreshRepairs'
  BY <1>2 DEF stored, IInv, RefreshInv, RefreshRepairs, Loadable, Verified
<1>6. catalog' \in Bundles \cup {NULL} /\ \A p \in frozen' : p \in {1, 2} /\ files["patch"] = p
  BY <1>2 DEF stored, IInv, Typed, FrozenInv
<1>7. QED
  BY <1>2, <1>4, <1>5, <1>6, IdleContinues, LocalKeeps DEF End, stored

LEMMA CrashKeeps ==
  ASSUME IInv, NEW a \in Actors, Crash(a)
  PROVE  IInv'
BY EndKeeps DEF Crash

-----------------------------------------------------------------------------
(* The writers, after whom no refresh of another process is alone.         *)

\* Nothing but its being alone changes for the others.
LEMMA DisturbedOthers ==
  ASSUME IInv, NEW a \in Actors, NEW n, op' = Disturbing(a, [op EXCEPT ![a] = n])
  PROVE  /\ op'[a] = n /\ DOMAIN op' = Actors
         /\ op' = [b \in Actors |-> op'[b]]
         /\ \A b \in Actors \ {a} : op'[b] = [op[b] EXCEPT !.alone = FALSE]
BY OwnContinues DEF Disturbing

LEMMA Disturbed ==
  ASSUME NEW o \in Operation, NEW q, q = [o EXCEPT !.alone = FALSE]
  PROVE  /\ q \in Operation /\ ~q.alone
         /\ q.kind = o.kind /\ q.step = o.step /\ q.path = o.path /\ q.data = o.data
         /\ q.manifest = o.manifest /\ q.next = o.next /\ q.entries = o.entries /\ q.view = o.view
         /\ o = Idle => q = Idle
<1>1. /\ q \in Operation /\ ~q.alone
      /\ q.kind = o.kind /\ q.step = o.step /\ q.path = o.path /\ q.data = o.data
      /\ q.manifest = o.manifest /\ q.next = o.next /\ q.entries = o.entries /\ q.view = o.view
  BY DEF Operation
<1>2. ASSUME o = Idle PROVE q = Idle
  <2>1. q = [kind |-> q.kind, step |-> q.step, path |-> q.path, data |-> q.data, manifest |-> q.manifest,
             next |-> q.next, entries |-> q.entries, view |-> q.view, alone |-> q.alone]
    BY <1>1 DEF Operation
  <2>2. o.alone = FALSE /\ q.alone = FALSE
    BY <1>2 DEF Idle, Operation
  <2>3. QED
    BY <1>1, <1>2, <2>1, <2>2 DEF Idle
<1>3. QED
  BY <1>1, <1>2

LEMMA DisturbedShape ==
  ASSUME NEW o \in Operation, NEW q, q = [o EXCEPT !.alone = FALSE], Shape(o)
  PROVE  Shape(q) /\ (Inside(q) <=> Inside(o)) /\ \A c : Pending(q, c) <=> Pending(o, c)
<1>1. /\ q.kind = o.kind /\ q.step = o.step /\ q.path = o.path /\ q.data = o.data
      /\ q.manifest = o.manifest /\ q.next = o.next /\ q.entries = o.entries /\ q.view = o.view
      /\ o = Idle => q = Idle
  BY Disturbed
<1>2. Shape(q)
  BY <1>1 DEF Shape, Refreshing, Staging, Importing, Deriving, Collecting, Freezing, Outputting
<1>3. QED
  BY <1>1, <1>2 DEF Inside, Pending

\* A writer changes one file or one entry, and goes on as n.
Writes(a, n) ==
  /\ op' = Disturbing(a, [op EXCEPT ![a] = n])
  /\ n \in Operation /\ Shape(n) /\ n.kind \in cast[a] \cup {"none"}
  /\ op[a].step \in {"write", "link", "replace"} /\ n.step \notin {"write", "replace"}
  /\ LockFits(a, n)
  /\ UNCHANGED << cast, catalog, contents, loaded >>
  /\ clean' = FALSE
  /\ IsStore(files') /\ IsStore(manifest')

\* The patch, the decision and the summary after it.
WritesRight(a) ==
  /\ files'["patch"] = files["patch"] \/ files["patch"] = NULL
  /\ \A p \in frozen' : p \in frozen \/ (p \in {1, 2} /\ files'["patch"] = p)
  /\ \/ files'["decision"] = files["decision"]
     \/ files'["decision"] \in Contents /\ Pending(op[a], files'["decision"])
  /\ files'["summary"] = files["summary"] \/ Told(files'["summary"])

LEMMA WrittenSettles ==
  ASSUME IInv, NEW a \in Actors, NEW n, Writes(a, n), WritesRight(a)
  PROVE  /\ \A c : Settled(c) => Settled(c)'
         /\ \A c, v : Consistent(c, v) => Consistent(c, v)'
         /\ \A c : c = files'["decision"] /\ c # NULL => Settled(c)'
         /\ \A b \in Actors : \A c : Pending(op'[b], c) => Pending(op[b], c) /\ b # a
<1>1. op \in [Actors -> Operation] /\ \A b \in Actors : Shape(op[b])
  BY DEF IInv, Typed
<1>2. op'[a] = n /\ \A b \in Actors \ {a} : op'[b] = [op[b] EXCEPT !.alone = FALSE]
  BY DisturbedOthers DEF Writes
<1>3. ASSUME NEW b \in Actors, NEW c, Pending(op'[b], c) PROVE Pending(op[b], c) /\ b # a
  <2>1. b # a
    BY <1>2, <1>3 DEF Writes, Pending
  <2>2. QED
    BY <1>1, <1>2, <1>3, <2>1, DisturbedShape
<1>4. ASSUME NEW c, Settled(c) PROVE Settled(c)'
  BY <1>3, <1>4 DEF Settled, Writes
<1>5. ASSUME NEW c, NEW v, Consistent(c, v) PROVE Consistent(c, v)'
  <2>1. Settled(c)' /\ ~Pending(op[a], c)
    BY <1>4, <1>5 DEF Consistent, Settled
  <2>2. v = c \/ c # files'["decision"]
    BY <1>5, <2>1 DEF Consistent, WritesRight
  <2>3. QED
    BY <2>1, <2>2 DEF Consistent
<1>6. ASSUME NEW c, c = files'["decision"], c # NULL PROVE Settled(c)'
  <2>1. CASE c = files["decision"]
    BY <1>4, <1>6, <2>1 DEF IInv, DecisionInv
  <2>2. CASE c \in Contents /\ Pending(op[a], c)
    <3>1. c <= contents /\ \A b \in Actors : Pending(op[b], c) => b = a
      BY <2>2 DEF IInv, DecisionInv
    <3>2. c \in 1 .. contents'
      BY <2>2, <3>1, StoreAssumption DEF Contents, IInv, Typed, Writes
    <3>3. \A b \in Actors : ~Pending(op'[b], c)
      BY <1>3, <3>1
    <3>4. QED
      BY <3>2, <3>3 DEF Settled
  <2>3. QED
    BY <1>6, <2>1, <2>2 DEF WritesRight
<1>7. QED
  BY <1>3, <1>4, <1>5, <1>6

LEMMA WriterKeeps ==
  ASSUME IInv, NEW a \in Actors, NEW n, Writes(a, n), WritesRight(a),
         PatchIs(n)', DecisionTold(n), (n.alone => Repaired(n))'
  PROVE  IInv'
<1>1. op \in [Actors -> Operation] /\ \A b \in Actors : Shape(op[b])
  BY DEF IInv, Typed
<1>2. /\ op'[a] = n /\ op' = [b \in Actors |-> op'[b]]
      /\ \A b \in Actors \ {a} : op'[b] = [op[b] EXCEPT !.alone = FALSE]
  BY DisturbedOthers DEF Writes
<1>3. \A b \in Actors \ {a} :
        /\ op'[b] \in Operation /\ ~op'[b].alone /\ Shape(op'[b]) /\ (Inside(op'[b]) <=> Inside(op[b]))
        /\ op'[b].kind = op[b].kind /\ op'[b].step = op[b].step /\ op'[b].path = op[b].path
        /\ op'[b].data = op[b].data /\ op'[b].manifest = op[b].manifest /\ op'[b].next = op[b].next
        /\ op'[b].entries = op[b].entries /\ op'[b].view = op[b].view
  BY <1>1, <1>2, Disturbed, DisturbedShape
<1>4. /\ n \in Operation /\ Shape(n) /\ n.kind \in cast[a] \cup {"none"} /\ LockFits(a, n)
      /\ UNCHANGED << cast, catalog, contents, loaded >> /\ clean' = FALSE
      /\ IsStore(files') /\ IsStore(manifest') /\ n.step \notin {"write", "replace"}
      /\ op[a].step \in {"write", "link", "replace"}
  BY DEF Writes
<1>5. Typed'
  <2>1. op' \in [Actors -> Operation]
    BY <1>2, <1>3, <1>4
  <2>2. \A b \in Actors : Shape(op'[b]) /\ op'[b].kind \in cast[b] \cup {"none"}
    BY <1>2, <1>3, <1>4 DEF IInv, Typed
  <2>3. \A b \in Actors : lock' = b <=> Inside(op'[b])
    BY <1>2, <1>3, <1>4 DEF IInv, Typed, LockFits
  <2>4. QED
    BY <1>4, <2>1, <2>2, <2>3 DEF IInv, Typed, LockFits, IsStore
<1>6. FrozenInv'
  <2>1. \A p \in frozen : p \in {1, 2} /\ files["patch"] = p /\ p # NULL
    BY NullIsNoValue DEF IInv, FrozenInv
  <2>2. \A p \in frozen' : p \in {1, 2} /\ files'["patch"] = p
    BY <2>1 DEF WritesRight
  <2>3. ASSUME NEW b \in Actors PROVE PatchIs(op[b])'
    <3>1. CASE b = a
      BY <1>2, <3>1 DEF PatchIs
    <3>2. CASE b # a
      <4> SUFFICES ASSUME op[b].step \in {"register", "replace"}, op[b].path = "patch"
                   PROVE  files'["patch"] = op[b].data
        BY <1>3, <3>2 DEF PatchIs
      <4>1. files["patch"] = op[b].data
        BY DEF IInv, FrozenInv, PatchIs
      <4>2. op[b].data \in {1, 2}
        BY <1>1 DEF Shape, Staging, Importing, Deriving, Collecting, Freezing, Outputting, Versions
      <4>3. QED
        BY <4>1, <4>2, NullIsNoValue DEF WritesRight
    <3>3. QED
      BY <3>1, <3>2
  <2>4. QED
    BY <2>2, <2>3 DEF FrozenInv
<1>7. LockedInv'
  <2> SUFFICES ASSUME AllLocked, NEW b \in Actors, op'[b].step = "replace"
               PROVE  FALSE
    BY <1>4 DEF LockedInv, AllLocked, At
  <2>1. b # a
    BY <1>2, <1>4
  <2>2. op[b].step = "replace" /\ op[b].kind \in Locked /\ op[a].kind \in Locked
    BY <1>1, <1>3, <1>4, <2>1 DEF IInv, Typed, AllLocked, Shape
  <2>3. lock = a /\ lock = b
    BY <1>4, <2>2 DEF IInv, Typed, Inside
  <2>4. QED
    BY <2>1, <2>3
<1>8. DecisionInv'
  <2>1. /\ \A c : Settled(c) => Settled(c)'
        /\ \A c, v : Consistent(c, v) => Consistent(c, v)'
        /\ \A c : c = files'["decision"] /\ c # NULL => Settled(c)'
        /\ \A b \in Actors : \A c : Pending(op'[b], c) => Pending(op[b], c) /\ b # a
    BY WrittenSettles
  <2>2. files["decision"] # NULL => files'["decision"] # NULL
    BY NullIsNoValue DEF WritesRight, Contents
  <2>3. ASSUME NEW b \in Actors PROVE DecisionTold(op[b])'
    <3>1. CASE b = a
      <4>1. DecisionTold(n)'
        BY <2>1, <2>2 DEF DecisionTold, Told
      <4>2. QED
        BY <1>2, <3>1, <4>1 DEF DecisionTold
    <3>2. CASE b # a
      <4>1. PICK o : o = op[b]
        OBVIOUS
      <4>2. PICK q : q = op'[b]
        OBVIOUS
      <4>3. DecisionTold(o)
        BY <4>1 DEF IInv, DecisionInv
      <4>4. q.step = o.step /\ q.next = o.next /\ q.entries = o.entries /\ q.view = o.view
        BY <1>3, <3>2, <4>1, <4>2
      <4>5. DecisionTold(q)'
        BY <2>1, <2>2, <4>3, <4>4 DEF DecisionTold, Told, HasEntries, HasView
      <4>6. QED
        BY <4>2, <4>5
    <3>3. QED
      BY <3>1, <3>2
  <2>4. (files["summary"] # NULL => Told(files["summary"]))'
    <3>1. PICK b : b = files'["summary"]
      OBVIOUS
    <3>2. b # NULL => Told(b)
      BY <3>1 DEF IInv, DecisionInv, WritesRight
    <3>3. QED
      BY <2>1, <3>1, <3>2 DEF Told
  <2>5. /\ \A b \in Actors : \A c \in Contents : Pending(op'[b], c) => c <= contents'
        /\ \A b, d \in Actors : \A c \in Contents : Pending(op'[b], c) /\ Pending(op'[d], c) => b = d
    BY <1>4, <2>1 DEF IInv, DecisionInv
  <2>6. (files["decision"] # NULL => Settled(files["decision"]))'
    <3>1. PICK c : c = files'["decision"]
      OBVIOUS
    <3>2. c # NULL => Settled(c)'
      BY <2>1, <3>1
    <3>3. QED
      BY <3>1, <3>2 DEF Settled
  <2>7. QED
    BY <2>3, <2>4, <2>5, <2>6 DEF DecisionInv
<1>9. SummaryShowsItsEntries'
  BY <1>4 DEF IInv, SummaryShowsItsEntries
<1>10. RefreshInv'
  <2>1. ASSUME NEW b \in Actors PROVE (op[b].alone => Repaired(op[b]))'
    <3>1. CASE b = a
      BY <1>2, <3>1
    <3>2. CASE b # a
      BY <1>3, <3>2
    <3>3. QED
      BY <3>1, <3>2
  <2>2. QED
    BY <1>4, <2>1 DEF RefreshInv, RefreshRepairs
<1>11. QED
  BY <1>5, <1>6, <1>7, <1>8, <1>9, <1>10 DEF IInv

\* What is written may be registered next; a decision that is written settles.
LEMMA WriteFileKeeps ==
  ASSUME IInv, NEW a \in Actors, WriteFile(a)
  PROVE  IInv'
<1>1. PICK o : o = op[a]
  OBVIOUS
<1>2. PICK n : n = [o EXCEPT !.step = "register"]
  OBVIOUS
<1>3. /\ o \in Operation /\ o.step = "write" /\ Shape(o) /\ (Staging(o) \/ Importing(o) \/ Deriving(o))
      /\ DecisionTold(o) /\ (o.alone => Repaired(o)) /\ o.kind \in cast[a] \cup {"none"}
      /\ op \in [Actors -> Operation] /\ (lock = a <=> Inside(o))
  BY <1>1, OwnContinues DEF WriteFile, At, Continues, Shape
<1>4. /\ n \in Operation /\ n.kind = o.kind /\ n.step = "register" /\ n.path = o.path /\ n.data = o.data
      /\ n.next = o.next /\ n.entries = o.entries /\ n.view = o.view /\ n.alone = o.alone
  BY <1>2, <1>3 DEF Operation, Steps
<1>5. /\ files' = [files EXCEPT ![o.path] = o.data]
      /\ UNCHANGED << cast, manifest, catalog, lock, contents, crashes, frozen, loaded >>
      /\ clean' = FALSE
  BY <1>1 DEF WriteFile
<1>6. op' = Disturbing(a, [op EXCEPT ![a] = n])
  BY <1>1, <1>2 DEF WriteFile
<1>7. /\ IsStore(files) /\ IsStore(manifest) /\ o.path \in Paths \ {"patch"} /\ o.data \in Document(o.path)
      /\ o.data # NULL
  <2>1. o.path \in Paths \ {"patch"}
    BY <1>3 DEF Staging, Importing, Deriving, Paths, Sources, Derived, Versions
  <2>2. o.data \in Document(o.path)
    <3>1. CASE Staging(o) \/ Importing(o)
      BY <3>1 DEF Staging, Importing, Document, Values, Derived, Versions
    <3>2. CASE Deriving(o)
      BY <3>2 DEF Deriving, Document, Derived, Bundles, Entries, Values, AttemptIndex
    <3>3. QED
      BY <1>3, <3>1, <3>2
  <2>3. o.data # NULL
    <3>1. CASE Staging(o) \/ Importing(o)
      BY <3>1, NullIsNoValue, StoreAssumption DEF Staging, Importing, Contents
    <3>2. CASE Deriving(o)
      <4>1. o.data \in Bundles
        BY <3>2 DEF Deriving, Bundles, Entries, Values, AttemptIndex
      <4>2. QED
        BY <4>1, NullIsNoValue
    <3>3. QED
      BY <1>3, <3>1, <3>2
  <2>4. QED
    BY <2>1, <2>2, <2>3 DEF IInv, Typed
<1>8. /\ DOMAIN files = Paths /\ files'[o.path] = o.data
      /\ \A p \in Paths \ {o.path} : files'[p] = files[p]
  BY <1>5, <1>7 DEF IsStore
<1>9. Writes(a, n)
  <2>1. IsStore(files')
    BY <1>5, <1>7 DEF IsStore, Document, Documents, Derived
  <2>2. IsStore(manifest')
    BY <1>5, <1>7 DEF IsStore
  <2>3. Shape(n)
    BY <1>3, <1>4 DEF Shape, Refreshing, Staging, Importing, Deriving
  <2>4. LockFits(a, n)
    BY <1>3, <1>4, <1>5 DEF LockFits, Inside, IInv, Typed
  <2>5. QED
    BY <1>1, <1>3, <1>4, <1>5, <1>6, <2>1, <2>2, <2>3, <2>4 DEF Writes
<1>10. WritesRight(a)
  <2>1. files'["patch"] = files["patch"]
    BY <1>7, <1>8 DEF Paths, Sources
  <2>2. \A p \in frozen' : p \in frozen
    BY <1>5
  <2>3. \/ files'["decision"] = files["decision"]
        \/ files'["decision"] \in Contents /\ Pending(op[a], files'["decision"])
    <3>1. CASE Staging(o)
      BY <1>1, <1>3, <1>8, <3>1 DEF Staging, Pending
    <3>2. CASE Importing(o) \/ Deriving(o)
      BY <1>8, <3>2 DEF Importing, Deriving, Versions, Paths, Sources
    <3>3. QED
      BY <1>3, <3>1, <3>2
  <2>4. files'["summary"] = files["summary"] \/ Told(files'["summary"])
    <3>1. CASE o.path = "summary"
      <4>1. o.data = [entries |-> o.entries, view |-> o.view] /\ o.next = "bundle"
        BY <1>3, <3>1 DEF Staging, Importing, Deriving, Versions
      <4>2. Told(o.data)
        BY <1>3, <4>1 DEF DecisionTold, HasView, Told
      <4>3. QED
        BY <1>8, <3>1, <4>2
    <3>2. CASE o.path # "summary"
      BY <1>8, <3>2 DEF Paths, Derived
    <3>3. QED
      BY <3>1, <3>2
  <2>5. QED
    BY <2>1, <2>2, <2>3, <2>4 DEF WritesRight
<1>11. PatchIs(n)'
  BY <1>4, <1>7 DEF PatchIs
<1>12. DecisionTold(n)
  BY <1>3, <1>4 DEF DecisionTold, HasEntries, HasView
<1>13. (n.alone => Repaired(n))'
  <2> SUFFICES ASSUME o.alone PROVE Repaired(n)'
    BY <1>4
  <2>1. Repaired(o)
    BY <1>3
  <2>2. CASE Staging(o) \/ Importing(o)
    <3>1. ~Refreshing(n) /\ n.next = "end"
      BY <1>3, <1>4, <2>2 DEF Staging, Importing, Refreshing, Shape
    <3>2. QED
      BY <1>4, <3>1 DEF Repaired, HasEntries, AttemptsDone, SummaryDone, BundleDone
  <2>3. CASE Deriving(o)
    <3>1. \/ o.next = "verify" /\ o.path = "attempts"
          \/ o.next = "bundle" /\ o.path = "summary"
          \/ o.next = "catalog" /\ o.path = "bundle"
      BY <2>3 DEF Deriving
    <3>2. \A p \in Sources : o.entries[p] = manifest[p] /\ files[p] = manifest[p]
      BY <1>3, <2>1, <3>1 DEF Repaired, HasEntries
    <3>3. \A p \in Sources : o.entries[p] = manifest'[p] /\ files'[p] = manifest'[p]
      BY <1>5, <1>8, <3>1, <3>2 DEF Paths, Sources
    <3>4. o.next \in {"bundle", "catalog"} => Published("attempts", AttemptIndex(o.entries))'
      BY <1>3, <1>5, <1>8, <2>1, <3>1 DEF Repaired, AttemptsDone, Published, Paths, Derived, AttemptIndex
    <3>5. o.next = "catalog" => Published("summary", BundleOf(o))'
      BY <1>3, <1>5, <1>8, <2>1, <3>1 DEF Repaired, SummaryDone, Published, Paths, Derived, BundleOf
    <3>6. BundleOf(n) = BundleOf(o)
      BY <1>4 DEF BundleOf
    <3>7. /\ n.step = "register" /\ n.next = o.next /\ o.next \in {"verify", "bundle", "catalog"}
          /\ n.entries = o.entries /\ files'[n.path] = n.data
      BY <1>4, <1>8, <3>1
    <3>8. QED
      BY <3>3, <3>4, <3>5, <3>6, <3>7
      DEF Repaired, HasEntries, AttemptsDone, SummaryDone, BundleDone, Published, BundleOf, AttemptIndex
  <2>4. QED
    BY <1>3, <2>2, <2>3
<1>14. QED
  BY <1>9, <1>10, <1>11, <1>12, <1>13, WriterKeeps

\* A place that is taken stays as it is; a patch that is linked is the only one.
LEMMA LinkFileKeeps ==
  ASSUME IInv, NEW a \in Actors, LinkFile(a)
  PROVE  IInv'
<1>1. PICK o : o = op[a]
  OBVIOUS
<1>2. /\ o \in Operation /\ o.step = "link" /\ Shape(o) /\ (Collecting(o) \/ Freezing(o))
      /\ o.kind \in cast[a] \cup {"none"} /\ op \in [Actors -> Operation] /\ (lock = a <=> Inside(o))
  BY <1>1, OwnContinues DEF LinkFile, At, Continues, Shape
<1>3. UNCHANGED << cast, manifest, catalog, contents, crashes, frozen, loaded >>
  BY DEF LinkFile
<1>4. CASE files[o.path] = NULL
  <2>1. PICK n : n = [o EXCEPT !.step = "register"]
    OBVIOUS
  <2>2. /\ n \in Operation /\ n.kind = o.kind /\ n.step = "register" /\ n.path = o.path /\ n.data = o.data
        /\ n.next = o.next /\ n.entries = o.entries /\ n.view = o.view /\ n.alone = o.alone
    BY <1>2, <2>1 DEF Operation, Steps
  <2>3. /\ files' = [files EXCEPT ![o.path] = o.data] /\ UNCHANGED lock
        /\ op' = Disturbing(a, [op EXCEPT ![a] = n])
    BY <1>1, <1>4, <2>1 DEF LinkFile
  <2>4. /\ IsStore(files) /\ IsStore(manifest) /\ o.path \in Versions \cup {"patch"}
        /\ o.data \in Contents \cup {1, 2} /\ o.data # NULL
    BY <1>2, NullIsNoValue, StoreAssumption DEF Collecting, Freezing, Contents, IInv, Typed
  <2>5. /\ files'[o.path] = o.data /\ files' # files
        /\ \A p \in Paths \ {o.path} : files'[p] = files[p]
    BY <1>4, <2>3, <2>4 DEF IsStore, Paths, Sources
  <2>6. clean' = FALSE
    BY <2>5 DEF LinkFile
  <2>7. Shape(n) /\ ~Refreshing(n) /\ n.next = "end"
    BY <1>2, <2>2 DEF Shape, Refreshing, Collecting, Freezing
  <2>8. Writes(a, n)
    <3>1. IsStore(files')
      BY <2>3, <2>4 DEF IsStore, Document, Documents, Values, Derived, Versions
    <3>2. IsStore(manifest')
      BY <1>3, <2>4 DEF IsStore
    <3>3. LockFits(a, n)
      BY <1>2, <2>2, <2>3 DEF LockFits, Inside, IInv, Typed
    <3>4. QED
      BY <1>1, <1>2, <1>3, <2>2, <2>3, <2>6, <2>7, <3>1, <3>2, <3>3 DEF Writes
  <2>9. WritesRight(a)
    <3>1. files'["patch"] = files["patch"] \/ files["patch"] = NULL
      BY <1>4, <2>5 DEF Paths, Sources
    <3>2. files'["decision"] = files["decision"] /\ files'["summary"] = files["summary"]
      BY <2>4, <2>5 DEF Paths, Sources, Derived, Versions
    <3>3. QED
      BY <1>3, <3>1, <3>2 DEF WritesRight
  <2>10. PatchIs(n)'
    BY <2>2, <2>5 DEF PatchIs
  <2>11. DecisionTold(n) /\ (n.alone => Repaired(n))'
    BY <2>2, <2>7 DEF DecisionTold, HasEntries, HasView, Repaired, AttemptsDone, SummaryDone, BundleDone
  <2>12. QED
    BY <2>8, <2>9, <2>10, <2>11, WriterKeeps
<1>5. CASE files[o.path] # NULL
  <2>1. End(a) /\ UNCHANGED files /\ clean' = (clean /\ TRUE)
    BY <1>1, <1>5 DEF LinkFile
  <2>2. RefreshRepairs' /\ SummaryShowsItsEntries'
    BY <1>3, <2>1 DEF IInv, RefreshInv, RefreshRepairs, Loadable, Verified, SummaryShowsItsEntries
  <2>3. catalog' \in Bundles \cup {NULL} /\ \A p \in frozen' : p \in {1, 2} /\ files["patch"] = p
    BY <1>3 DEF IInv, Typed, FrozenInv
  <2>4. QED
    BY <1>3, <2>1, <2>2, <2>3, IdleContinues, LocalKeeps DEF End
<1>6. QED
  BY <1>4, <1>5

\* The manifest gets the entry of a file that is there.
LEMMA WriteManifestKeeps ==
  ASSUME IInv, NEW a \in Actors, WriteManifest(a)
  PROVE  IInv'
<1>1. PICK o : o = op[a]
  OBVIOUS
<1>2. PICK n : n = IF o.next = "end" THEN Idle ELSE [o EXCEPT !.step = o.next, !.manifest = Nothing]
  OBVIOUS
<1>3. /\ o \in Operation /\ o.step = "replace" /\ Shape(o) /\ IsStore(o.manifest) /\ PatchIs(o)
      /\ Staging(o) \/ Importing(o) \/ Deriving(o) \/ Collecting(o) \/ Freezing(o) \/ Outputting(o)
      /\ DecisionTold(o) /\ (o.alone => Repaired(o)) /\ o.kind \in cast[a] \cup {"none"}
      /\ op \in [Actors -> Operation] /\ (lock = a <=> Inside(o))
  BY <1>1, OwnContinues DEF WriteManifest, At, Continues, Shape
<1>4. /\ manifest' = [o.manifest EXCEPT ![o.path] = o.data]
      /\ lock' = IF o.next = "end" THEN Unlocked(a) ELSE lock
      /\ frozen' = IF o.path = "patch" THEN frozen \cup {o.data} ELSE frozen
      /\ clean' = FALSE /\ UNCHANGED << cast, files, catalog, contents, crashes, loaded >>
  BY <1>1 DEF WriteManifest
<1>5. op' = Disturbing(a, [op EXCEPT ![a] = n])
  BY <1>1, <1>2, <1>3 DEF WriteManifest
<1>6. /\ o.path \in Paths /\ o.data \in Document(o.path)
      /\ o.path = "patch" => o.data \in {1, 2}
  <2>1. CASE Deriving(o)
    BY <2>1 DEF Deriving, Document, Derived, Paths, Bundles, Entries, Values, AttemptIndex
  <2>2. CASE Staging(o) \/ Importing(o) \/ Collecting(o) \/ Freezing(o) \/ Outputting(o)
    BY <2>2 DEF Staging, Importing, Collecting, Freezing, Outputting, Document, Values, Derived, Versions,
                Paths, Sources
  <2>3. QED
    BY <1>3, <2>1, <2>2
<1>7. /\ manifest'[o.path] = o.data /\ IsStore(manifest')
      /\ \A p \in Paths \ {o.path} : manifest'[p] = o.manifest[p]
  <2>1. o.data \in Documents /\ o.manifest \in [Paths -> Documents]
    BY <1>3 DEF IsStore, Operation
  <2>2. /\ manifest' \in [Paths -> Documents] /\ manifest'[o.path] = o.data
        /\ \A p \in Paths \ {o.path} : manifest'[p] = o.manifest[p]
    BY <1>4, <1>6, <2>1
  <2>3. \A p \in Paths : manifest'[p] \in Document(p)
    BY <1>3, <1>6, <2>2 DEF IsStore
  <2>4. QED
    BY <2>2, <2>3 DEF IsStore
<1>8. WritesRight(a)
  <2>1. \A p \in frozen' : p \in frozen \/ (p \in {1, 2} /\ files'["patch"] = p)
    BY <1>3, <1>4, <1>6 DEF PatchIs
  <2>2. QED
    BY <1>4, <2>1 DEF WritesRight
<1>9. IsStore(files')
  BY <1>4 DEF IInv, Typed, IsStore
<1>10. CASE o.next = "end"
  <2>1. n = Idle
    BY <1>2, <1>10
  <2>2. /\ n \in Operation /\ Shape(n) /\ n.kind = "none" /\ n.step = "idle" /\ n.next = "end" /\ ~n.alone
        /\ LockFits(a, n)
    BY <1>4, <1>10, <2>1, IdleContinues DEF Continues, Idle
  <2>3. Writes(a, n)
    BY <1>1, <1>3, <1>4, <1>5, <1>7, <1>9, <2>2 DEF Writes
  <2>4. PatchIs(n)' /\ DecisionTold(n)
    BY <2>2 DEF PatchIs, DecisionTold, HasEntries, HasView
  <2>5. QED
    BY <1>8, <2>2, <2>3, <2>4, WriterKeeps
<1>11. CASE o.next # "end"
  <2>1. Refreshing(o) /\ (Deriving(o) \/ (Outputting(o) /\ o.next = "entries"))
    BY <1>3, <1>11 DEF Shape, Refreshing, Staging, Importing, Collecting, Freezing, Outputting
  <2>2. /\ n \in Operation /\ n.kind = o.kind /\ n.step = o.next /\ n.entries = o.entries /\ n.view = o.view
        /\ n.next = o.next /\ n.alone = o.alone
    <3>1. Nothing \in [Paths -> Documents] /\ o.next \in Steps
      BY <1>3, <1>11 DEF Nothing, Documents, Values, Operation, Steps
    <3>2. QED
      BY <1>2, <1>3, <1>11, <3>1 DEF Operation
  <2>3. /\ n.step \in {"entries", "verify", "bundle", "catalog"}
        /\ n.step # "entries" => Deriving(o)
    BY <1>3, <1>11, <2>1, <2>2 DEF Operation
  <2>4. Shape(n) /\ Inside(n) /\ Inside(o)
    BY <1>3, <2>1, <2>2, <2>3 DEF Shape, Refreshing, Deriving, Inside, Locked
  <2>5. Writes(a, n)
    <3>1. LockFits(a, n)
      BY <1>3, <1>4, <1>11, <2>4 DEF LockFits, IInv, Typed
    <3>2. QED
      BY <1>1, <1>3, <1>4, <1>5, <1>7, <1>9, <2>2, <2>3, <2>4, <3>1 DEF Writes
  <2>6. PatchIs(n)'
    BY <2>3 DEF PatchIs
  <2>7. DecisionTold(n)
    BY <1>3, <2>2, <2>3 DEF DecisionTold, HasEntries, HasView
  <2>8. (n.alone => Repaired(n))'
    <3> SUFFICES ASSUME o.alone PROVE Repaired(n)'
      BY <2>2
    <3>1. Repaired(o) /\ o.manifest = manifest /\ files'[o.path] = o.data /\ manifest'[o.path] = o.data
      BY <1>3, <1>4, <1>7, <2>1 DEF Repaired
    <3>2. \A p \in Paths \ {o.path} : manifest'[p] = manifest[p] /\ files'[p] = files[p]
      BY <1>4, <1>7, <3>1
    <3>3. CASE Deriving(o)
      <4>1. \/ o.next = "verify" /\ o.path = "attempts" /\ o.data = AttemptIndex(o.entries)
            \/ o.next = "bundle" /\ o.path = "summary" /\ o.data = BundleOf(o)
            \/ o.next = "catalog" /\ o.path = "bundle" /\ o.data = BundleOf(o)
        BY <3>3 DEF Deriving, BundleOf
      <4>2. \A p \in Sources : o.entries[p] = manifest[p] /\ files[p] = manifest[p]
        BY <1>3, <3>1, <4>1 DEF Repaired, HasEntries
      <4>3. \A p \in Sources : o.entries[p] = manifest'[p] /\ files'[p] = manifest'[p]
        BY <3>2, <4>1, <4>2 DEF Paths, Sources
      <4>4. Published("attempts", AttemptIndex(o.entries))'
        BY <1>3, <3>1, <3>2, <4>1 DEF Repaired, AttemptsDone, Published, Paths, Derived, AttemptIndex
      <4>5. o.next \in {"bundle", "catalog"} => Published("summary", BundleOf(o))'
        BY <1>3, <3>1, <3>2, <4>1 DEF Repaired, SummaryDone, Published, Paths, Derived, BundleOf
      <4>6. o.next = "catalog" => Published("bundle", BundleOf(o))'
        BY <3>1, <4>1 DEF Published, BundleOf
      <4>7. n.step \in {"verify", "bundle", "catalog"} /\ n.step = o.next /\ n.entries = o.entries /\ n.view = o.view
        BY <2>2, <4>1
      <4>8. QED
        BY <4>3, <4>4, <4>5, <4>6, <4>7
        DEF Repaired, HasEntries, AttemptsDone, SummaryDone, BundleDone, Published, BundleOf, AttemptIndex
    <3>4. CASE Outputting(o) /\ o.next = "entries"
      <4>1. /\ files["patch"] = manifest["patch"] /\ o.path = "output"
        BY <1>3, <3>1, <3>4 DEF Repaired, Outputting
      <4>2. files'["patch"] = manifest'["patch"] /\ files'["output"] = manifest'["output"]
        BY <3>1, <3>2, <4>1 DEF Paths, Sources
      <4>3. n.step = "entries"
        BY <2>2, <3>4
      <4>4. QED
        BY <4>2, <4>3 DEF Repaired, HasEntries, AttemptsDone, SummaryDone, BundleDone
    <3>5. QED
      BY <2>1, <3>3, <3>4
  <2>9. QED
    BY <1>8, <2>5, <2>6, <2>7, <2>8, WriterKeeps
<1>12. QED
  BY <1>10, <1>11

\* An evaluator or a runner leaves an output, which no operation has taken up.
LEMMA ProduceKeeps ==
  ASSUME IInv, Produce
  PROVE  IInv'
<1>1. op \in [Actors -> Operation] /\ \A b \in Actors : Shape(op[b])
  BY DEF IInv, Typed
<1>2. /\ op' = [a \in Actors |-> [op[a] EXCEPT !.alone = FALSE]] /\ clean' = FALSE
      /\ UNCHANGED << cast, manifest, catalog, lock, crashes, frozen, loaded >>
      /\ contents' = contents + 1 /\ files' = [files EXCEPT !["output"] = contents + 1]
      /\ contents < MaxContents
  BY DEF Produce
<1>3. \A b \in Actors :
        /\ op'[b] \in Operation /\ ~op'[b].alone /\ Shape(op'[b]) /\ (Inside(op'[b]) <=> Inside(op[b]))
        /\ \A c : Pending(op'[b], c) <=> Pending(op[b], c)
        /\ op'[b].kind = op[b].kind /\ op'[b].step = op[b].step /\ op'[b].path = op[b].path
        /\ op'[b].data = op[b].data /\ op'[b].manifest = op[b].manifest /\ op'[b].next = op[b].next
        /\ op'[b].entries = op[b].entries /\ op'[b].view = op[b].view
  BY <1>1, <1>2, Disturbed, DisturbedShape
<1>4. /\ contents \in Nat /\ MaxContents \in Nat /\ contents' \in 0 .. MaxContents /\ contents' \in Contents
      /\ IsStore(files) /\ IsStore(manifest)
  BY <1>2, StoreAssumption DEF IInv, Typed, Contents
<1>5. /\ files' \in [Paths -> Documents] /\ files'["output"] = contents'
      /\ \A p \in Paths \ {"output"} : files'[p] = files[p]
  BY <1>2, <1>4 DEF IsStore, Documents, Values, Paths, Sources
<1>6. /\ files'["patch"] = files["patch"] /\ files'["decision"] = files["decision"]
      /\ files'["summary"] = files["summary"]
  BY <1>5 DEF Paths, Sources, Derived
<1>7. IsStore(files') /\ IsStore(manifest')
  BY <1>2, <1>4, <1>5 DEF IsStore, Document, Values, Derived
<1>8. Typed'
  <2>1. op' \in [Actors -> Operation]
    BY <1>2, <1>3
  <2>2. QED
    BY <1>2, <1>3, <1>4, <1>7, <2>1 DEF IInv, Typed, IsStore
<1>9. FrozenInv'
  BY <1>2, <1>3, <1>6 DEF IInv, FrozenInv, PatchIs
<1>10. LockedInv'
  BY <1>2, <1>3 DEF IInv, LockedInv, AllLocked, At
<1>11. ASSUME NEW c, Settled(c) PROVE Settled(c)'
  BY <1>2, <1>3, <1>4, <1>11 DEF Settled
<1>12. ASSUME NEW c, NEW v, Consistent(c, v) PROVE Consistent(c, v)'
  BY <1>6, <1>11, <1>12 DEF Consistent
<1>13. DecisionInv'
  <2>1. ASSUME NEW b \in Actors PROVE DecisionTold(op[b])'
    <3>1. PICK o : o = op[b]
      OBVIOUS
    <3>2. PICK q : q = op'[b]
      OBVIOUS
    <3>3. DecisionTold(o)
      BY <3>1 DEF IInv, DecisionInv
    <3>4. q.step = o.step /\ q.next = o.next /\ q.entries = o.entries /\ q.view = o.view
      BY <1>3, <3>1, <3>2
    <3>5. DecisionTold(q)'
      BY <1>6, <1>11, <1>12, <3>3, <3>4 DEF DecisionTold, Told, HasEntries, HasView
    <3>6. QED
      BY <3>2, <3>5
  <2>2. (files["summary"] # NULL => Told(files["summary"]))'
    <3>1. PICK b : b = files'["summary"]
      OBVIOUS
    <3>2. b # NULL => Told(b)
      BY <1>6, <3>1 DEF IInv, DecisionInv
    <3>3. QED
      BY <1>12, <3>1, <3>2 DEF Told
  <2>3. (files["decision"] # NULL => Settled(files["decision"]))'
    <3>1. PICK c : c = files'["decision"]
      OBVIOUS
    <3>2. c # NULL => Settled(c)
      BY <1>6, <3>1 DEF IInv, DecisionInv
    <3>3. c # NULL => Settled(c)'
      BY <1>11, <3>2
    <3>4. QED
      BY <3>1, <3>3 DEF Settled
  <2>4. \A b \in Actors : \A c \in Contents : Pending(op'[b], c) => c <= contents'
    BY <1>2, <1>3, <1>4 DEF IInv, DecisionInv, Contents
  <2>5. \A b, d \in Actors : \A c \in Contents : Pending(op'[b], c) /\ Pending(op'[d], c) => b = d
    BY <1>3 DEF IInv, DecisionInv
  <2>6. QED
    BY <2>1, <2>2, <2>3, <2>4, <2>5 DEF DecisionInv
<1>14. SummaryShowsItsEntries' /\ RefreshInv'
  BY <1>2, <1>3 DEF IInv, SummaryShowsItsEntries, RefreshInv, RefreshRepairs
<1>15. QED
  BY <1>8, <1>9, <1>10, <1>13, <1>14 DEF IInv

-----------------------------------------------------------------------------
(***************************************************************************)
(* Every step of every process keeps the invariant.                        *)
(***************************************************************************)

LEMMA InitIInv == Init => IInv
<1> SUFFICES ASSUME Init PROVE IInv
  OBVIOUS
<1>0. files = Nothing /\ manifest = Nothing /\ catalog = NULL /\ lock = NULL /\ frozen = {} /\ clean = FALSE
  BY DEF Init
<1>1. IsStore(Nothing) /\ Nothing["summary"] = NULL /\ Nothing["decision"] = NULL
  BY DEF IsStore, Nothing, Document, Documents, Values, Paths, Sources, Derived
<1>2. op \in [Actors -> Operation] /\ \A a \in Actors : op[a] = Idle
  BY DEF Init, Idle, Operation, Steps, Documents, Values, Nothing
<1>3. /\ Shape(Idle) /\ ~Inside(Idle) /\ ~HasEntries(Idle) /\ ~HasView(Idle)
      /\ Idle.kind = "none" /\ Idle.step = "idle"
  BY DEF Shape, Idle, Refreshing, Inside, Locked, HasEntries, HasView
<1>4. Typed
  <2>1. cast \in [Actors -> SUBSET Kinds] /\ contents \in 0 .. MaxContents
    BY CastsAssumption, StoreAssumption DEF Init
  <2>2. \A a \in Actors : Shape(op[a]) /\ op[a].kind \in cast[a] \cup {"none"}
    BY <1>2, <1>3
  <2>3. \A a \in Actors : lock = a <=> Inside(op[a])
    BY <1>2, <1>3, NullIsNoValue DEF Init
  <2>4. QED
    BY <1>0, <1>1, <1>2, <2>1, <2>2, <2>3 DEF Typed
<1>5. FrozenInv /\ LockedInv
  BY <1>2 DEF Init, FrozenInv, LockedInv, PatchIs, Idle, At
<1>6. DecisionInv
  <2>1. \A a \in Actors : \A c \in Contents : ~Pending(op[a], c)
    BY <1>2 DEF Pending, Idle
  <2>2. \A a \in Actors : DecisionTold(op[a])
    BY <1>2, <1>3 DEF DecisionTold
  <2>3. QED
    BY <1>0, <1>1, <2>1, <2>2 DEF DecisionInv
<1>7. SummaryShowsItsEntries /\ RefreshInv
  BY <1>2 DEF Init, SummaryShowsItsEntries, RefreshInv, RefreshRepairs, Idle
<1>8. QED
  BY <1>4, <1>5, <1>6, <1>7 DEF IInv

LEMMA StepKeeps ==
  ASSUME IInv, NEW a \in Actors, Step(a)
  PROVE  IInv'
BY AcquireLockKeeps, WriteFileKeeps, LinkFileKeeps, ReadManifestKeeps, WriteManifestKeeps, ChooseVersionKeeps,
   CheckImportKeeps, FindFrozenKeeps, RegisterOutputKeeps, SelectEvidenceKeeps, CollectOutputKeeps,
   TakeEntriesKeeps, VerifyDecisionKeeps, ReadDecisionKeeps, PublishFileKeeps, UpsertRowKeeps,
   FindTerminalKeeps, PruneRowKeeps, OpenSummaryKeeps, OpenBundleKeeps, CheckDerivedKeeps, CheckSourcesKeeps
DEF Step

LEMMA StutterKeeps ==
  ASSUME IInv, UNCHANGED vars
  PROVE  IInv'
BY DEF vars, stored, IInv, Typed, IsStore, FrozenInv, PatchIs, LockedInv, AllLocked, At, DecisionInv,
       Settled, Told, Consistent, DecisionTold, SummaryShowsItsEntries, RefreshInv, RefreshRepairs, Loadable,
       Verified, Repaired, Published

LEMMA NextIInv == IInv /\ [Next]_vars => IInv'
<1> SUFFICES ASSUME IInv, [Next]_vars PROVE IInv'
  OBVIOUS
<1>1. CASE \E a \in Actors : Begin(a) \/ Step(a) \/ Crash(a)
  BY <1>1, BeginKeeps, StepKeeps, CrashKeeps
<1>2. CASE Produce
  BY <1>2, ProduceKeeps
<1>3. CASE UNCHANGED vars
  BY <1>3, StutterKeeps
<1>4. QED
  BY <1>1, <1>2, <1>3 DEF Next

LEMMA SpecIInv == Spec => []IInv
BY InitIInv, NextIInv, PTL DEF Spec

-----------------------------------------------------------------------------
\* Three steps change a file, one the manifest.
LEMMA StoredChanges ==
  ASSUME [Next]_vars
  PROVE  /\ files' # files => (\E a \in Actors : WriteFile(a) \/ LinkFile(a)) \/ Produce
         /\ manifest' # manifest => \E a \in Actors : WriteManifest(a)
<1>1. ASSUME NEW a \in Actors, Begin(a) \/ Crash(a) PROVE UNCHANGED << files, manifest >>
  BY <1>1 DEF Begin, Crash, stored
<1>2. ASSUME NEW a \in Actors,
             \/ AcquireLock(a) \/ ReadManifest(a) \/ ChooseVersion(a) \/ CheckImport(a) \/ FindFrozen(a)
             \/ RegisterOutput(a) \/ SelectEvidence(a) \/ CollectOutput(a) \/ TakeEntries(a)
             \/ VerifyDecision(a) \/ ReadDecision(a) \/ UpsertRow(a) \/ FindTerminal(a) \/ PruneRow(a)
             \/ OpenSummary(a) \/ OpenBundle(a) \/ CheckDerived(a) \/ CheckSources(a)
      PROVE  UNCHANGED << files, manifest >>
  BY <1>2
  DEF stored, AcquireLock, ReadManifest, ChooseVersion, CheckImport, FindFrozen, RegisterOutput,
      SelectEvidence, CollectOutput, TakeEntries, VerifyDecision, ReadDecision, UpsertRow, FindTerminal,
      PruneRow, OpenSummary, OpenBundle, CheckDerived, CheckSources
<1>3. ASSUME NEW a \in Actors, PublishFile(a) PROVE UNCHANGED << files, manifest >>
  BY <1>3 DEF stored, PublishFile, CanonicalWrite
<1>4. ASSUME NEW a \in Actors, WriteFile(a) \/ LinkFile(a) PROVE UNCHANGED manifest
  BY <1>4 DEF WriteFile, LinkFile
<1>5. ASSUME NEW a \in Actors, WriteManifest(a) PROVE UNCHANGED files
  BY <1>5 DEF WriteManifest
<1>6. Produce => UNCHANGED manifest
  BY DEF Produce
<1>7. UNCHANGED vars => UNCHANGED << files, manifest >>
  BY DEF vars, stored
<1>8. QED
  BY <1>1, <1>2, <1>3, <1>4, <1>5, <1>6, <1>7 DEF Next, Step

LEMMA TypedIsTypeOK == IInv => TypeOK
BY DEF IInv, Typed, IsStore, Document, Values, Paths, Versions, Sources, Derived, TypeOK, Inside

LEMMA VersionStays ==
  ASSUME IInv, [Next]_vars, NEW v \in Versions, files[v] # NULL, files'[v] # files[v]
  PROVE  \E a \in Actors : op[a].kind = "import" /\ op[a].path = v /\ At(a, "write")
<1>1. files \in [Paths -> Documents] /\ v \in Paths /\ v # "output" /\ v # "decision" /\ v \notin Derived
  BY DEF IInv, Typed, IsStore, Paths, Versions, Derived
<1>2. CASE \E a \in Actors : WriteFile(a)
  <2>1. PICK a \in Actors : WriteFile(a)
    BY <1>2
  <2>2. At(a, "write") /\ files' = [files EXCEPT ![op[a].path] = op[a].data]
    BY <2>1 DEF WriteFile
  <2>3. op[a].path = v
    BY <1>1, <2>2
  <2>4. Staging(op[a]) \/ Importing(op[a]) \/ Deriving(op[a])
    BY <2>2 DEF IInv, Typed, Shape, At
  <2>5. op[a].kind = "import"
    BY <1>1, <2>3, <2>4 DEF Staging, Importing, Deriving, Derived
  <2>6. QED
    BY <2>2, <2>3, <2>5
<1>3. CASE \E a \in Actors : LinkFile(a)
  <2>1. PICK a \in Actors : LinkFile(a)
    BY <1>3
  <2>2. files' = files \/ (files[op[a].path] = NULL /\ files' = [files EXCEPT ![op[a].path] = op[a].data])
    BY <2>1 DEF LinkFile
  <2>3. QED
    BY <1>1, <2>2
<1>4. CASE Produce
  BY <1>1, <1>4 DEF Produce
<1>5. QED
  BY <1>2, <1>3, <1>4, StoredChanges

LEMMA EntryStays ==
  ASSUME IInv, [Next]_vars, AllLocked, NEW p \in Paths, manifest[p] # NULL
  PROVE  manifest'[p] # NULL
<1>1. CASE manifest' = manifest
  BY <1>1
<1>2. CASE manifest' # manifest
  <2>1. PICK a \in Actors : WriteManifest(a)
    BY <1>2, StoredChanges
  <2>2. PICK o : o = op[a]
    OBVIOUS
  <2>3. /\ o.step = "replace" /\ Shape(o) /\ o.manifest = manifest
        /\ manifest' = [o.manifest EXCEPT ![o.path] = o.data]
    BY <2>1, <2>2 DEF WriteManifest, At, IInv, Typed, LockedInv
  <2>4. Staging(o) \/ Importing(o) \/ Deriving(o) \/ Collecting(o) \/ Freezing(o) \/ Outputting(o)
    BY <2>3 DEF Shape
  <2>5. o.data # NULL
    <3>1. CASE Deriving(o)
      <4>1. o.data \in Bundles
        BY <3>1 DEF Deriving, Bundles, Entries, Values, AttemptIndex
      <4>2. QED
        BY <4>1, NullIsNoValue
    <3>2. CASE Staging(o) \/ Importing(o) \/ Collecting(o) \/ Freezing(o) \/ Outputting(o)
      BY <3>2, NullIsNoValue, StoreAssumption DEF Staging, Importing, Collecting, Freezing, Outputting, Contents
    <3>3. QED
      BY <2>4, <3>1, <3>2
  <2>6. manifest \in [Paths -> Documents]
    BY DEF IInv, Typed, IsStore
  <2>7. QED
    BY <2>3, <2>5, <2>6
<1>3. QED
  BY <1>1, <1>2

\* A patch that was returned as frozen stays in its place whatever is edited,
\* registered at the same time or interrupted, and a version of the evidence is
\* replaced by nobody but an importer that found its place empty
\* (freeze_experiment_inputs, save_immutable_bytes, import_artifact).
THEOREM FrozenInputsStay == Spec => FrozenStays
<1>1. IInv => OneFrozenInput
  BY DEF IInv, FrozenInv, OneFrozenInput
<1>2. IInv /\ [Next]_vars =>
        [\A v \in Versions :
           files[v] # NULL /\ files'[v] # files[v] =>
             \E a \in Actors : op[a].kind = "import" /\ op[a].path = v /\ At(a, "write")]_vars
  BY VersionStays
<1>3. QED
  BY <1>1, <1>2, TypedIsTypeOK, SpecIInv, PTL DEF Spec, FrozenStays, EvidenceStays

\* Where every writer holds the task lock, what one registers is never lost to
\* another (_register_artifact, task_lock).
THEOREM LockedWritersLoseNoEntry == Spec => LockedWritersLoseNothing
<1>1. IInv /\ [Next]_vars =>
        [(\A a \in Actors : cast[a] \subseteq Locked) =>
           \A p \in Paths : manifest[p] # NULL => manifest'[p] # NULL]_vars
  BY EntryStays DEF AllLocked
<1>2. QED
  BY <1>1, SpecIInv, PTL DEF Spec, LockedWritersLoseNothing

\* A bundle that is returned shows the decision it lists, and a refresh nobody
\* wrote beside leaves a bundle that can be loaded
\* (refresh_experiment_bundle, load_experiment_bundle).
THEOREM BundlesCanBeTrusted == Spec => []BundleCanBeTrusted
<1>1. IInv => BundleCanBeTrusted
  BY DEF IInv, RefreshInv, BundleCanBeTrusted
<1>2. QED
  BY <1>1, SpecIInv, PTL
=============================================================================
