---------------------------- MODULE ModelSnapshot ----------------------------
(***************************************************************************)
(* The manifest of a local model (vllm_model_snapshot.py): a capture walks *)
(* the snapshot directory, hashes every file, walks it again and looks at  *)
(* every file once more, while another process may write to a file, put    *)
(* another in its place, move, add or remove one.  A campaign is created   *)
(* on a manifest and verifies it whenever it goes on (vllm_workflow.py)    *)
(* and before it measures (vllm_ports.py).                                 *)
(*                                                                         *)
(* The files are in one directory; a link in it leads to a blob outside.   *)
(* A file is read in two chunks.  Every change to an inode or to the       *)
(* directory gives it a stamp of its own, which stands for its size, mtime *)
(* and ctime: the file system's clock tells any two changes apart.         *)
(***************************************************************************)
EXTENDS Integers, Sequences, FiniteSets

CONSTANTS
  Names,        \* of files in the directory, numbered as they sort
  Blobs,        \* where links lead
  MaxChanges,   \* bound: changes by the other process
  MaxCaptures,  \* bound: captures of the driver
  Nothing

ASSUME SnapshotAssumption ==
  /\ Names \subseteq Nat /\ {1, 2} \subseteq Names /\ Names \cap Blobs = {} /\ Blobs # {}
  /\ MaxChanges \in Nat /\ MaxCaptures \in Nat

VARIABLES
  at,         \* name or blob -> its inode, or Nothing
  inode,      \* the inodes, of files and of links
  directory,  \* stamp of the directory
  changes,    \* stamps given so far
  capture,    \* the capture that runs
  captures,   \* captures so far
  config,     \* the content that the campaign is configured for
  external,   \* the manifest on disk
  imported,   \* the manifest in the campaign's store
  concluded,    \* of the last capture
  moments     \* ghost: what the directory held at each moment of the last capture

snapvars == << at, inode, directory, changes, capture, captures, config, external, imported, concluded, moments >>

tree == << at, inode, directory, changes >>

Places == Names \cup Blobs

\* A file's two chunks, and what a directory may hold: nothing behind a link that leads nowhere.
Bytes == [1 .. 2 -> {0, 1}]
Contents == UNION { [names -> Bytes \cup {Nothing}] : names \in SUBSET Names }

ASSUME NothingAssumption == Nothing \notin Nat \cup Bytes \cup Contents

NoCapture == [step |-> "idle"]
Purposes == {"manifest", "create", "resume", "measure"}

File(stored) == [kind |-> "file", bytes |-> stored, stamp |-> 0]
Link(blob) == [kind |-> "link", to |-> blob, stamp |-> 0]

\* _stat_identity
StatOf(id) == << id, inode[id].stamp >>

\* The file that a path leads to, links followed.
Follow(where, place) ==
  IF where[place] # Nothing /\ inode[where[place]].kind = "link" THEN where[inode[where[place]].to] ELSE where[place]

\* What the directory holds: the bytes behind every name, which is all that the
\* digest of a manifest is about.
Content ==
  [ n \in { m \in Names : at[m] # Nothing } |->
      IF Follow(at, n) = Nothing THEN Nothing ELSE inode[Follow(at, n)].bytes ]

Manifest(content, serial) == [files |-> content, captured |-> serial]

\* No campaign yet, or one of the model that is there.
SnapInit ==
  /\ inode = << Link(CHOOSE b \in Blobs : TRUE), File(<< 0, 0 >>), File(<< 0, 0 >>) >>
  /\ at = [p \in Places |-> IF p \in Blobs THEN 3 ELSE IF p \in {1, 2} THEN p ELSE Nothing]
  /\ directory = 0 /\ changes = 0
  /\ \/ config = Nothing /\ external = Nothing /\ imported = Nothing
     \/ config = Content /\ external = Manifest(config, 0) /\ imported = external
  /\ capture = NoCapture /\ captures = IF config = Nothing THEN 0 ELSE 1
  /\ concluded = [purpose |-> "none"] /\ moments = {}

-----------------------------------------------------------------------------
(* The other process                                                       *)

\* An inode that loses or gains a name is changed with the directories of both.
Stamped(inodes, changed) ==
  [id \in DOMAIN inodes |-> IF id \in changed THEN [inodes[id] EXCEPT !.stamp = changes + 1] ELSE inodes[id]]

Disturb(places) ==
  /\ changes < MaxChanges /\ changes' = changes + 1
  /\ directory' = IF places \cap Names # {} THEN changes' ELSE directory
  /\ moments' = IF capture = NoCapture THEN moments ELSE moments \cup {Content'}
  /\ UNCHANGED << capture, captures, config, external, imported, concluded >>

\* Bytes are written into a file, a chunk at a time.
Write(id, i) ==
  /\ inode[id].kind = "file"
  /\ inode' = Stamped([inode EXCEPT ![id].bytes[i] = 1 - @], {id}) /\ UNCHANGED at
  /\ Disturb({})

\* A new file or link is renamed into a place.
Put(place, new) ==
  /\ inode' = Stamped(Append(inode, new), {at[place], Len(inode) + 1})
  /\ at' = [at EXCEPT ![place] = Len(inode) + 1]
  /\ Disturb({place})

Move(from, to) ==
  /\ at[from] # Nothing /\ from # to
  /\ ~(to \in Blobs /\ inode[at[from]].kind = "link")
  /\ inode' = Stamped(inode, {at[from], at[to]})
  /\ at' = [at EXCEPT ![to] = at[from], ![from] = Nothing]
  /\ Disturb({from, to})

Remove(place) ==
  /\ at[place] # Nothing
  /\ inode' = Stamped(inode, {at[place]}) /\ at' = [at EXCEPT ![place] = Nothing]
  /\ Disturb({place})

\* Whoever captures the model elsewhere replaces the manifest on disk.
RecaptureElsewhere ==
  /\ external # Nothing /\ capture = NoCapture /\ changes < MaxChanges
  /\ external' = Manifest(Content, MaxCaptures + changes) /\ changes' = changes + 1
  /\ UNCHANGED << at, inode, directory, capture, captures, config, imported, concluded, moments >>

OtherProcess ==
  \/ RecaptureElsewhere
  \/ \E id \in DOMAIN inode, i \in 1 .. 2 : Write(id, i)
  \/ \E p \in Places : Put(p, File(<< 1, 1 >>)) \/ Remove(p)
  \/ \E n \in Names, b \in Blobs : Put(n, Link(b))
  \/ \E p, q \in Places : Move(p, q)

-----------------------------------------------------------------------------
(* The capture                                                             *)

GotoCapture(step) == capture' = [capture EXCEPT !.step = step]
Listing == { n \in Names : at[n] # Nothing }
Undisturbed == changes = capture.began

\* VLLMModelSnapshotError; the ghost tells whether anything was changed meanwhile.
Refuse ==
  /\ capture' = NoCapture /\ concluded' = [purpose |-> "capture", ok |-> FALSE, quiet |-> Undisturbed]
  /\ UNCHANGED << config, external, imported >>

Look == UNCHANGED << tree, captures, moments >>
Aside == UNCHANGED << config, external, imported, concluded >>

\* capture_vllm_model_snapshot and verify_vllm_model_snapshot.  The listing of the
\* directory is a step and its stat is another.
StartCapture ==
  /\ capture = NoCapture /\ captures < MaxCaptures
  /\ captures' = captures + 1 /\ moments' = {Content}
  /\ capture' = [ step |-> "stat directory", listing |-> Listing, directory |-> Nothing,
                  left |-> Listing, seen |-> Nothing, target |-> Nothing, fd |-> Nothing, opened |-> Nothing,
                  read |-> << >>, files |-> << >>, bindings |-> {}, began |-> changes ]
  /\ UNCHANGED tree /\ Aside

\* _tree_inventory, the second half of the first walk.
StatDirectory ==
  /\ capture.step = "stat directory"
  /\ capture' = [capture EXCEPT !.step = "lstat", !.directory = directory]
  /\ Look /\ Aside

\* The files are hashed as they sort.
FileInHand == CHOOSE n \in capture.left : \A m \in capture.left : n <= m

\* _stable_file, from its lstat ...
LstatFile ==
  /\ capture.step = "lstat" /\ capture.left # {} /\ Look
  /\ IF at[FileInHand] = Nothing THEN Refuse
     ELSE /\ capture' = [ capture EXCEPT !.step = IF inode[at[FileInHand]].kind = "link" THEN "readlink" ELSE "open",
                                         !.seen = StatOf(at[FileInHand]), !.target = FileInHand, !.read = << >> ]
          /\ Aside

Readlink ==
  /\ capture.step = "readlink" /\ Look
  /\ IF at[FileInHand] = Nothing THEN Refuse
     ELSE IF inode[at[FileInHand]].kind # "link" THEN Refuse
     ELSE capture' = [capture EXCEPT !.step = "open", !.target = inode[at[FileInHand]].to] /\ Aside

\* The target is opened, but not through a link, and keeps its inode until it is read.
OpenTarget ==
  /\ capture.step = "open" /\ Look
  /\ LET id == at[capture.target]
     IN  IF id = Nothing THEN Refuse
         ELSE IF inode[id].kind = "link" THEN Refuse
         ELSE capture' = [capture EXCEPT !.step = "read", !.fd = id, !.opened = StatOf(id)] /\ Aside

HashChunk ==
  /\ capture.step = "read" /\ Look /\ Aside
  /\ LET bytes == Append(capture.read, inode[capture.fd].bytes[Len(capture.read) + 1])
     IN  capture' = [capture EXCEPT !.read = bytes, !.step = IF Len(bytes) = 2 THEN "fstat" ELSE "read"]

Fstat ==
  /\ capture.step = "fstat" /\ Look
  /\ IF StatOf(capture.fd) # capture.opened THEN Refuse ELSE GotoCapture("stat target") /\ Aside

\* The path must still lead to the inode whose bytes were read.
StatTarget ==
  /\ capture.step = "stat target" /\ Look
  /\ LET id == Follow(at, capture.target)
     IN  IF id = Nothing THEN Refuse
         ELSE IF StatOf(id) # capture.opened THEN Refuse ELSE GotoCapture("lstat again") /\ Aside

WithFile(name, bytes) ==
  [n \in DOMAIN capture.files \cup {name} |-> IF n = name THEN bytes ELSE capture.files[n]]

LstatAgain ==
  /\ capture.step = "lstat again" /\ Look
  /\ IF at[FileInHand] = Nothing THEN Refuse
     ELSE IF StatOf(at[FileInHand]) # capture.seen THEN Refuse
     ELSE /\ capture' = [ capture EXCEPT !.step = "lstat", !.left = @ \ {FileInHand}, !.files = WithFile(FileInHand, capture.read),
                                         !.bindings = @ \cup {[ name |-> FileInHand, lexical |-> capture.seen,
                                                                target |-> capture.target, opened |-> capture.opened ]} ]
          /\ Aside

\* The second walk: its listing, then its stat.
ListAgain ==
  /\ capture.step = "lstat" /\ capture.left = {} /\ Look
  /\ IF Listing # capture.listing THEN Refuse ELSE GotoCapture("stat again") /\ Aside

StatAgain ==
  /\ capture.step = "stat again" /\ Look
  /\ IF directory # capture.directory THEN Refuse ELSE GotoCapture("bindings") /\ Aside

\* _verify_file_binding: nothing was changed since the file was hashed.
BindingHolds(b) ==
  /\ at[b.name] # Nothing /\ StatOf(at[b.name]) = b.lexical
  /\ Follow(at, b.target) # Nothing /\ StatOf(Follow(at, b.target)) = b.opened

VerifyBinding ==
  /\ capture.step = "bindings" /\ Look
  /\ \E b \in capture.bindings :
       /\ \A c \in capture.bindings : b.name <= c.name
       /\ IF ~BindingHolds(b) THEN Refuse ELSE capture' = [capture EXCEPT !.bindings = @ \ {b}] /\ Aside

\* A directory without files has no manifest.
FinishCapture ==
  /\ capture.step = "bindings" /\ capture.bindings = {} /\ Look
  /\ IF capture.files = << >> THEN Refuse ELSE GotoCapture("complete") /\ Aside

\* _verify_model_snapshot with _validate_snapshot_coordinate, when a campaign is
\* created and whenever it goes on, and the port's _verify_model_manifest, which
\* read its manifest when it was made.
Accepts(purpose, files) ==
  \/ purpose = "manifest"
  \/ purpose = "create"  /\ external.files = config /\ files = external.files
  \/ purpose = "resume"  /\ external.files = config /\ files = external.files /\ imported = external
  \/ purpose = "measure" /\ imported.files = config /\ files = imported.files

\* Captures are the same whatever they are for.  A new manifest replaces the one on
\* disk, whether or not a campaign is built on that; the first is the one that the
\* campaign is configured for.
CompleteCapture(purpose) ==
  /\ capture.step = "complete" /\ Look
  /\ purpose = "create" => imported = Nothing /\ external # Nothing
  /\ purpose \in {"resume", "measure"} => imported # Nothing
  /\ capture' = NoCapture
  /\ external' = IF purpose = "manifest" THEN Manifest(capture.files, captures) ELSE external
  /\ concluded' = [ purpose |-> purpose, ok |-> Accepts(purpose, capture.files), files |-> capture.files,
                    quiet |-> Undisturbed, disk |-> external' ]
  /\ config' = IF purpose = "manifest" /\ config = Nothing THEN capture.files ELSE config
  /\ imported' = IF purpose = "create" /\ concluded'.ok THEN external ELSE imported

CaptureStep ==
  \/ StartCapture
  \/ StatDirectory \/ LstatFile \/ Readlink \/ OpenTarget \/ HashChunk \/ Fstat \/ StatTarget \/ LstatAgain
  \/ ListAgain \/ StatAgain \/ VerifyBinding \/ FinishCapture
  \/ \E p \in Purposes : CompleteCapture(p)

SnapNext == OtherProcess \/ CaptureStep

-----------------------------------------------------------------------------
(***************************************************************************)
(* Properties.                                                             *)
(***************************************************************************)

\* What a capture found is what the directory held, all at once, at some moment of
\* that capture, however the other process interfered.  A verification succeeds
\* only when that was the configured model.  And a capture is refused only when
\* something was changed meanwhile, a link leads nowhere, the model is another one,
\* or the manifest on disk was not the imported one.
SnapshotIsOfOneMoment ==
  \/ concluded.purpose = "none" \/ capture # NoCapture
  \/ /\ concluded.ok /\ concluded.files \in moments
     /\ concluded.purpose # "manifest" => concluded.files = config
  \/ /\ ~concluded.ok
     /\ \/ ~concluded.quiet
        \/ \E c \in moments : c = << >> \/ (\E n \in DOMAIN c : c[n] = Nothing)
        \/ concluded.purpose # "capture" /\ config \notin moments
        \/ concluded.purpose \in {"create", "resume"} /\ concluded.disk.files # config
        \/ concluded.purpose = "resume" /\ concluded.disk # imported
=============================================================================
