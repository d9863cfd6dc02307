-------------------------------- MODULE Pack --------------------------------
(* `sneakpack pack` on a source directory somebody works in, the file it    *)
(* writes and the cursor it leaves for the next pack; and the way of a copy *)
(* of that file to the other side: copied at any moment, damaged, replaced  *)
(* by a newer copy between the two times apply reads it.                    *)
(*                                                                          *)
(* The walk of the source takes one step per directory it lists and two per *)
(* file, the mode first and then the content; Write takes one per entry.    *)
(* Edits of the source fall anywhere between.                               *)
EXTENDS Bundle

CONSTANTS
  Sources,     \* the trees the source may start as
  Limits,      \* the bounds to explore, records of Limit
  NoFile,      \* the file does not exist
  Unreadable   \* a cursor file cut short

\* What somebody working in the source puts at a path, the values of
\* --allow-empty users pass; how many edits, packs killed half way, copies of
\* the bundle, and mishaps to a copy there are.
Limit == [nodes : SUBSET Node, empty : SUBSET BOOLEAN,
          edits : Nat, deaths : Nat, copies : Nat, damage : Nat]

ASSUME LimitsAssumption == Limits \subseteq Limit

ASSUME SourcesAssumption == Sources \subseteq {t \in Trees : WellFormed(t)}

ASSUME FilesAssumption ==
  /\ NoFile \notin Archive
  /\ {NoFile, Unreadable} \cap Snapshots = {} /\ NoFile # Unreadable

VARIABLES
  limits,     \* the bounds of this behaviour
  src,        \* the source tree
  out,        \* the file pack -o writes
  cursorOut,  \* the file pack --cursor-out writes
  pc,         \* where the pack is; how the last one ended
  job,        \* its locals
  media,      \* the copy of the bundle apply reads
  rpc,        \* where apply is with it
  rman,       \* the manifest apply goes by
  stage,      \* what ExtractTo has put into the stage
  sealed,     \* history: the bundles packed to the end
  moments,    \* history: the trees the source was since the pack began
  edits, deaths, copies, damage

vars == <<limits, src, out, cursorOut, pc, job, media, rpc, rman, stage,
          sealed, moments, edits, deaths, copies, damage>>

source == <<limits, src, edits>>
reader == <<media, rpc, rman, stage, copies, damage>>
files == <<out, cursorOut>>

PackEnded == {"ready", "error", "nothing", "died", "packed"}
PackPhase == {"list", "walk", "hash", "manifest", "data", "save"}

\* exec: the bit of the file that is hashed.
Job == [base : Snapshots, rules : Rules, got : Snapshots,
        todo : SUBSET Path, dirs : SUBSET Path, exec : BOOLEAN]

NoJob == [base |-> EmptySnapshot, rules |-> NoRules, got |-> EmptySnapshot,
          todo |-> {}, dirs |-> {}, exec |-> FALSE]

PackTypeOK ==
  /\ src \in Trees /\ WellFormed(src)
  /\ out \in Archive \cup {NoFile} /\ media \in Archive \cup {NoFile}
  /\ cursorOut \in Snapshots \cup {NoFile, Unreadable}
  /\ pc \in PackEnded \cup PackPhase /\ job \in Job
  /\ rpc \in {"idle", "manifest", "verified", "staged", "failed"}
  /\ rman \in Bundle \cup {NoManifest} /\ stage \subseteq DataEntry
  /\ sealed \subseteq Bundle /\ moments \subseteq Trees
  /\ limits \in Limits
  /\ edits \in 0..limits.edits /\ deaths \in 0..limits.deaths
  /\ copies \in 0..limits.copies /\ damage \in 0..limits.damage

PackInit ==
  /\ limits \in Limits /\ src \in Sources
  /\ out = NoFile /\ cursorOut = NoFile
  /\ pc = "ready" /\ job = NoJob
  /\ media = NoFile /\ rpc = "idle" /\ rman = NoManifest /\ stage = {}
  /\ sealed = {} /\ moments = {}
  /\ edits = 0 /\ deaths = 0 /\ copies = 0 /\ damage = 0

-----------------------------------------------------------------------------
(* cmdPack: the base, the walk, the bundle, the cursor.                     *)

Ending(result) == pc' = result /\ job' = NoJob /\ moments' = {}

Target == [base |-> job.base, target |-> job.got]

\* takeTree's ignore.Load.
SourceRules ==
  IF src[IgnoreFile] = Absent THEN NoRules
  ELSE IF src[IgnoreFile] \in Entry THEN RulesOf[src[IgnoreFile].sha]
  ELSE BadGlob

\* cmdPack has its base and takeTree its rules: the walk starts.
StartPack(base) ==
  /\ pc \in PackEnded
  /\ SourceRules # BadGlob
  /\ pc' = "list"
  /\ job' = [NoJob EXCEPT !.base = base, !.rules = SourceRules]
  /\ moments' = {src}
  /\ UNCHANGED <<source, files, reader, sealed, deaths>>

PackFull == StartPack(EmptySnapshot)

PackSince == cursorOut \notin {NoFile, Unreadable} /\ StartPack(cursorOut)

\* --since names no file or one that does not load, or the ignore file does
\* not parse.
RefusePack ==
  /\ pc \in PackEnded
  /\ (cursorOut \in {NoFile, Unreadable} \/ SourceRules = BadGlob)
  /\ Ending("error")
  /\ UNCHANGED <<source, files, reader, sealed, deaths>>

ListSource ==
  /\ pc = "list"
  /\ pc' = "walk"
  /\ job' = [job EXCEPT !.todo = ListedFiles(src, job.rules, TopLevel),
                        !.dirs = ListedDirs(src, job.rules, TopLevel)]
  /\ UNCHANGED <<source, files, reader, sealed, moments, deaths>>

Visit == Upcoming(job.todo \cup job.dirs)

\* A slip to notice: the walk does not descend.
WalkSourceDirFlat ==
  /\ pc = "walk"
  /\ \E d \in Visit \cap job.dirs :
       /\ src[d] = Dir
       /\ job' = [job EXCEPT !.dirs = @ \ {d}]
  /\ UNCHANGED <<source, files, reader, pc, sealed, moments, deaths>>

WalkSourceDir ==
  /\ pc = "walk"
  /\ \E d \in Visit \cap job.dirs :
       /\ src[d] = Dir
       /\ job' = [job EXCEPT
            !.todo = @ \cup ListedFiles(src, job.rules, Children(d)),
            !.dirs = (@ \ {d}) \cup ListedDirs(src, job.rules, Children(d))]
  /\ UNCHANGED <<source, files, reader, pc, sealed, moments, deaths>>

\* d.Info() of a file the walk has listed: its mode, ...
StatSource ==
  /\ pc = "walk"
  /\ \E x \in Visit \cap job.todo : \E bit \in Bits(src[x]) :
       job' = [job EXCEPT !.exec = bit]
  /\ pc' = "hash"
  /\ UNCHANGED <<source, files, reader, sealed, moments, deaths>>

\* A slip to notice: what was listed as a file is taken for one.
HashSourceUnchecked ==
  /\ pc = "hash"
  /\ \E x \in Visit \cap job.todo :
       job' = [job EXCEPT !.todo = @ \ {x}, !.got = [@ EXCEPT ![x] = src[x]]]
  /\ pc' = "walk"
  /\ UNCHANGED <<source, files, reader, sealed, moments, deaths>>

\* ... then HashFile, of whatever file has that name by then.
HashSource ==
  /\ pc = "hash"
  /\ \E x \in Visit \cap job.todo :
       /\ src[x] \in Entry
       /\ job' = [job EXCEPT
            !.todo = @ \ {x}, !.exec = FALSE,
            !.got = [@ EXCEPT ![x] = [sha |-> src[x].sha, exec |-> job.exec]]]
  /\ pc' = "walk"
  /\ UNCHANGED <<source, files, reader, sealed, moments, deaths>>

WalkSourceFails ==
  /\ pc \in {"walk", "hash"}
  /\ \E x \in Visit :
       IF pc = "hash" THEN src[x] \notin Entry
       ELSE IF x \in job.dirs THEN src[x] # Dir ELSE src[x] = Absent
  /\ Ending("error")
  /\ UNCHANGED <<source, files, reader, sealed, deaths>>

SourceWalked == pc = "walk" /\ job.todo \cup job.dirs = {}

\* Nothing changed, and no --allow-empty.
NothingToPack ==
  /\ SourceWalked
  /\ Empty(Changes(Target)) /\ FALSE \in limits.empty
  /\ Ending("nothing")
  /\ UNCHANGED <<source, files, reader, sealed, deaths>>

\* A slip to notice: the cursor is saved as soon as the target is known.
CreateBundleAfterCursor ==
  /\ SourceWalked
  /\ Empty(Changes(Target)) => TRUE \in limits.empty
  /\ out' = NewArchive
  /\ cursorOut' = job.got
  /\ pc' = "manifest"
  /\ UNCHANGED <<source, reader, job, sealed, moments, deaths>>

\* bundle.Write opens -o: whatever bundle it held is gone.
CreateBundle ==
  /\ SourceWalked
  /\ Empty(Changes(Target)) => TRUE \in limits.empty
  /\ out' = NewArchive
  /\ pc' = "manifest"
  /\ UNCHANGED <<source, cursorOut, reader, job, sealed, moments, deaths>>

WriteManifest ==
  /\ pc = "manifest"
  /\ out' = [out EXCEPT !.manifest = Target]
  /\ pc' = "data"
  /\ job' = [job EXCEPT !.todo = PayloadFiles(Changes(Target))]
  /\ UNCHANGED <<source, cursorOut, reader, sealed, moments, deaths>>

\* A slip to notice: payload is copied without being hashed again.
SameContentAny(x) == src[x] \in Entry

\* writePayload reads the file again: not shrunk, not grown, same hash.
SameContent(x) == src[x] \in Entry /\ src[x].sha = job.got[x].sha

WritePayload ==
  /\ pc = "data"
  /\ \E x \in Least(job.todo) :
       /\ SameContent(x)
       /\ out' = [out EXCEPT !.data =
                    Append(@, [path |-> x, sha |-> src[x].sha])]
       /\ job' = [job EXCEPT !.todo = @ \ {x}]
  /\ UNCHANGED <<source, cursorOut, reader, pc, sealed, moments, deaths>>

PayloadChanged ==
  /\ pc = "data"
  /\ \E x \in Least(job.todo) : ~ SameContent(x)
  /\ Ending("error")
  /\ UNCHANGED <<source, files, reader, sealed, deaths>>

\* The trailer: the bundle is complete.
CloseBundle ==
  /\ pc = "data" /\ job.todo = {}
  /\ out' = [out EXCEPT !.closed = TRUE]
  /\ sealed' = sealed \cup {Target}
  /\ pc' = "save"
  /\ UNCHANGED <<source, cursorOut, reader, job, moments, deaths>>

\* --cursor-out, if given: Save of the target.
SaveCursorOut ==
  /\ pc = "save"
  /\ (cursorOut' = job.got \/ UNCHANGED cursorOut)
  /\ Ending("packed")
  /\ UNCHANGED <<source, out, reader, sealed, deaths>>

\* Killed anywhere; inside Save the cursor file is cut short.
PackDies ==
  /\ pc \in PackPhase
  /\ deaths < limits.deaths /\ deaths' = deaths + 1
  /\ \/ UNCHANGED cursorOut
     \/ pc = "save" /\ cursorOut' = Unreadable
  /\ Ending("died")
  /\ UNCHANGED <<source, out, reader, sealed>>

\* Somebody works in the source.
SourceEdit(x, n) ==
  /\ edits < limits.edits /\ edits' = edits + 1
  /\ n # src[x]
  /\ n # Absent => \A y \in Anc[x] : src[y] = Dir
  /\ src[x] = Dir => Childless(src, x)
  /\ src' = [src EXCEPT ![x] = n]
  /\ moments' = IF pc \in PackPhase THEN moments \cup {src'} ELSE {}
  /\ UNCHANGED <<limits, files, reader, pc, job, sealed, deaths>>

-----------------------------------------------------------------------------
(* The courier and the two readings of apply.                               *)

\* The file is copied as it is, also when pack has not finished it.
Copy ==
  /\ out # NoFile /\ out # media
  /\ copies < limits.copies /\ copies' = copies + 1
  /\ media' = out
  /\ UNCHANGED <<source, files, pc, job, rpc, rman, stage, sealed, moments,
                 deaths, damage>>

\* The copy is cut short, or the bytes of the manifest or an entry rot.
Damage ==
  /\ media # NoFile
  /\ damage < limits.damage /\ damage' = damage + 1
  /\ \/ media' = [media EXCEPT !.closed = FALSE,
                               !.data = SubSeq(@, 1, Len(@) - 1)]
     \/ media' = [media EXCEPT !.manifest = NoManifest]
     \/ \E i \in DOMAIN media.data : \E s \in Sha \ {media.data[i].sha} :
          media' = [media EXCEPT !.data[i].sha = s]
  /\ UNCHANGED <<source, files, pc, job, rpc, rman, stage, sealed, moments, deaths,
                 copies>>

\* Verify opens the file and reads the manifest ...
ReadManifest ==
  /\ rpc \notin {"manifest", "verified"}
  /\ media # NoFile /\ media.manifest # NoManifest
  /\ rpc' = "manifest" /\ rman' = media.manifest /\ stage' = {}
  /\ UNCHANGED <<source, files, pc, job, media, sealed, moments, deaths, copies,
                 damage>>

\* ... opens it again and checks the payload against that manifest; ...
VerifyPayload ==
  /\ rpc = "manifest"
  /\ rpc' = IF Verified(media, rman) THEN "verified" ELSE "failed"
  /\ UNCHANGED <<source, files, pc, job, media, rman, stage, sealed, moments, deaths,
                 copies, damage>>

\* ... ExtractTo opens it a third time.
ExtractTo ==
  /\ rpc = "verified"
  /\ IF Extracts(media, rman) THEN rpc' = "staged" /\ stage' = Held(media)
                              ELSE rpc' = "failed" /\ stage' = {}
  /\ UNCHANGED <<source, files, pc, job, media, rman, sealed, moments, deaths, copies,
                 damage>>

PackNext ==
  \/ PackFull \/ PackSince \/ RefusePack
  \/ ListSource \/ WalkSourceDir \/ StatSource \/ HashSource \/ WalkSourceFails
  \/ NothingToPack \/ CreateBundle \/ WriteManifest \/ WritePayload
  \/ PayloadChanged \/ CloseBundle \/ SaveCursorOut \/ PackDies
  \/ \E x \in Path, n \in limits.nodes : SourceEdit(x, n)
  \/ Copy \/ Damage \/ ReadManifest \/ VerifyPayload \/ ExtractTo

PackSpec == PackInit /\ [][PackNext]_vars

-----------------------------------------------------------------------------
(* What the bundles that leave the source are worth.                        *)

\* Write never seals a bundle whose manifest lies about its contents
\* (bundle.go:85-88), however the source changes while it is packed.
SealedIsSound ==
  out # NoFile /\ out.closed => Verified(out, out.manifest)

\* What the snapshot leaves out was no file to record at some moment m since
\* the pack began; what it lists had that content at one moment m, and was
\* of that mode at a moment n: nothing says they are the same moment.
WasReal(x, m, n) ==
  IF job.got[x] = Absent THEN Read(m, job.rules, x) = Absent
  ELSE /\ ~ Ignored(job.rules, x) /\ m[x] \in Entry
       /\ job.got[x].sha = m[x].sha /\ job.got[x].exec \in Bits(n[x])

\* Whatever changes during the walk, no content, no mode and no gap of the
\* snapshot is made up: a pack of a quiet source is exact, and a path that is
\* gone from the bundle was gone.  And the snapshot fits in one tree, which
\* Apply takes for granted of its bundles.
EntriesWereReal ==
  pc \in {"manifest", "data", "save"} =>
    /\ \A x \in Path : \E m, n \in moments : WasReal(x, m, n)
    /\ Placeable(job.got)

\* The cursor for the next pack never names a state no bundle leads to
\* (cmdPack saves it after Write), so the bundles a source has packed to the
\* end chain, each from the empty tree or from the target of another.
CursorFollowsBundle ==
  \A s \in {cursorOut} \cup {b.base : b \in sealed} :
    s \in Snapshots \ {EmptySnapshot} => \E b \in sealed : b.target = s

\* The stage holds exactly the payload of the manifest the run goes by when
\* ExtractTo succeeds, though the file is opened three times and may be
\* unfinished, damaged or replaced between any two of them.
StageExact == rpc = "staged" => stage = Want(rman)

\* A bundle is the source at one moment while it was packed (apply.go:15-17,
\* "byte-identical to the source at pack time").
FromOneMoment ==
  [][CloseBundle => job.got \in {Take(m, job.rules) : m \in moments}]_vars
=============================================================================
