# sneakpack in TLA+

sneakpack carries the changes of a directory tree to a machine without a
network: `pack` writes one bundle file on the source side, somebody carries it,
`apply` lands it on the destination.  A *cursor* names a state of a tree: it is
the list of its files and the hash of that list.  A bundle says which cursor it
starts from and which it leads to.

These modules describe what the program does to the two trees, the bundle file
and the cursor files, one visible system call at a time, with everything that
may come in between: edits by the people who own the trees, other runs, a kill
at any step, a damaged or replaced medium.  TLC checks the properties on small
universes; TLAPS proves the central ones for every universe.

## Inventory

| component | state | operations | what makes it correct |
|---|---|---|---|
| `internal/snapshot` | none of its own; a cursor file | `Take`, `ComputeID`, `Save`, `Load`, `ValidatePath` | what a walk returns was in the tree; one ID per content; a cursor that is not whole does not load |
| `internal/diff` | none | `Compute`, `PayloadFiles`, `Empty` | patching the base gives the target; no path twice; empty iff equal |
| `internal/bundle` | the bundle file | `New`, `Write`, `ReadManifest`, `Verify`, `ExtractTo` | a finished bundle tells the truth about its payload; what is staged is what the manifest lists |
| `internal/apply` | the destination tree, `.sneakpack/cursor.json`, the stage | `Run`, `LoadCursor`, `findConflicts`, `pruneEmptyParents` | local work is not destroyed; retrying is safe; the cursor does not run ahead of the tree; "verified" is true |
| `internal/ignore` | none | `Parse`, `Load`, `Match` | a pattern means what it says, the last one decides, the same paths are left out on both sides |
| `internal/cli` | none; `-o`, `--cursor-out` files | `pack`, `apply`, `snapshot`, `status`, `inspect`, `verify`, `cursor`, `parseMixed` | the cursor for the next pack is never ahead of the bundles; no argument is lost |
| the courier (`examples/courier-loop.sh`) | copies of the files | copy, lose, repeat, reorder, damage, replace | nothing he does lands wrong bytes; the two sides meet again |

The components call each other directly; there are no goroutines and no locks.
`pack` is ignore.Load, snapshot.Take, bundle.New (diff.Compute), bundle.Write,
snapshot.Save.  `apply` is bundle.Verify, LoadCursor, findConflicts,
bundle.ExtractTo, renames and removes, snapshot.Save, ignore.Load,
snapshot.Take.  What is hard about it is outside the process: the file system
is shared with users and with other runs, every run can be killed between two
system calls and is then simply started again, and the two sides communicate
by files that somebody may copy too early, twice, or in the wrong order.  The
list of hazards, each at its line, is in `PROJECT.json`.

## Modules

`Snapshot` — trees and snapshots as functions over a finite set of paths; what
a directory walk lists; which system calls fail where; what ignore rules mean
to a walk.  A snapshot *is* its cursor ID, since SHA-256 is taken to be
injective.  It has no variables.

`Diff` — `Compute` and the change set; a bundle as the pair [base, target]
that its manifest determines.

`Mirror` — the abstract destination: a list of files and a cursor.  Paths of a
bundle that starts at the cursor arrive one by one in any order; when all are
there the cursor moves, or is lost while it is being written.  There are no
runs, no checks, no crashes in it.

`Apply` — `apply.Run`, by any number of processes on one destination.

| variable | in the code |
|---|---|
| `tree` | what `Lstat` finds below the destination root, `.sneakpack` left out |
| `cursorFile` | `.sneakpack/cursor.json`: a cursor, absent, just truncated, or no JSON |
| `pc`, `run` | where in `Run` each process is, and its locals |
| `late` | history: paths others changed after the process last looked at them |
| `edits`, `deaths` | counters for the bounds |

The actions follow `Run` from step 2 on: `RefuseCursor`, `RefuseContinuity`,
`Begin` (continuity); `CheckPath`, `CheckBlocked`, `RefuseConflicts`,
`FinishDryRun` (findConflicts, one path a step); `Stage`; `StatParents`,
`MkdirParent`, `Rename` and their failures for each payload file (`os.MkdirAll`
looks upwards for what is there, then makes the missing directories one by one);
`Delete`, `Prune`, `StopPrune`; `Truncate` and `Write` for the two halves of
os.WriteFile; `LoadRules`, `ListRoot`, `WalkDir`, `StatFile`, `HashFile`,
`WalkFails`, `Compare` for the verification, which lists directories one at a
time and takes two steps for a file: `d.Info()` tells its mode, then `HashFile`
opens whatever has that name by then.  `Die`
stands for a kill and for an I/O error at any point, `LocalEdit` for a user at
work, `LoseStateDir` for one who removes `.sneakpack`.

`Bundle` and `Pack` — the archive, `cmdPack` on a source that is being worked
in (the same walk, `ListSource` to `SourceWalked`, `os.Create`, manifest, one entry a step with the second hashing of
`writePayload`, trailer, `--cursor-out`), the courier's copy, and the three
times `Run` opens that copy: `ReadManifest`, `VerifyPayload`, `ExtractTo`.

How many edits, deaths, copies and mishaps a behaviour of `Pack` may have is
its variable `limits`, chosen at the start from the constant `Limits`: one run
explores several kinds of trouble without multiplying them with each other.

`Apply` takes its bundles from a constant set and assumes each of their
snapshots fits in one tree (`BundlesAssumption`); that packs make no other is
theorem `BundlesFitTrees` of `PackProofs`.  That what it stages is the payload
of its manifest is `StageExact`.  So the two modules meet at the bundle, and are
checked apart.

`Courier` — the loop of `examples/courier-loop.sh`, on top of `Apply`, which it
extends with a source.

| variable | in the code |
|---|---|
| `src`, `changes` | the source tree; how often it has changed |
| `shelf` | the bundles that were ever packed; applying any of them at any time is losing, delaying, repeating and reordering them |
| `note` | the cursor file the source packs from: `--cursor-out`, `snapshot -o` or an exported `cursor -o` |
| `stray` | history: paths that runs which stopped while landing may have left |

Its actions are whole commands at the source (`CmdPack` with `--full` or
`--since`, `CmdSnapshot`), `CmdCursor` at the destination, and the steps of
`Apply` for a bundle of the shelf.  Both sides walk under the ignore file they
hold at the time (`TakeTree`).

`Ignore`, `Flags`, `Names`, `Manifest` — the parts of the program that take
input apart, as operators without state.  A loop over a sequence is a function
from the number of turns to what the loop then holds, its turn an operator of
its own.

* `Ignore`: `Parse` (`ReadLine`), `Match` (`Verdict`) and `matchSegments`, over
  lines cut at their slashes; what `path.Match` accepts for one segment is a
  constant.  The recursion of `matchSegments` is `Matching`: for each rest of
  the pattern, at which names it may begin to match.
* `Flags`: `parseMixed` (`SeparateStep`) and, external, the parser of Go's flag
  package (`FlagStep`).
* `Names`: `ValidatePath` over classes of path elements, with `filepath.Clean`
  (`CleanStep`), and which names `Take` records.
* `Manifest`: the manifest as it is written, `validateManifest` field by field,
  and what one damaged place can make of it.  Its lists are functions from their
  places to their lines, a place named by the path that was written there, since
  rot moves no line.  An ID is the bag of the lines, since the hash sorts them
  first.

Each comes with something independent to compare with: `Means` (a pattern as a
cut of the path), the tokens at the places where they were typed and the flag
package on a conventional command line, `Leads` (following a path name by name),
the manifest that was sent.

`Inputs` — the state machine around those four: an ignore file grows line by
line, a command line token by token, a path name by name, a manifest rots place
by place.  `topic` says which of them a behaviour is about.

`MCUniverse`, `MCApply`, `MCResume`, `MCPack`, `MCCourier`, `MCInputs` hold the
small universes for TLC.  `HideAssumption` of `MCInputs` ties the two views of an
ignore file together: the sets of paths `Snapshot` works with are what `Ignore`
makes of the file's lines.
`MCResume` and `MCCourier` also state that the hypotheses of the theorems about
one run at a time hold of their constants, so TLC evaluates them.

`TreeProofs` (change sets, file trees and walks), `ApplyProofs`,
`ApplySafetyProofs`, `ApplyChainProofs`, `PackProofs`, `CourierProofs`,
`IgnoreProofs` and `InputsProofs` hold the theorems.

Operators marked "a slip to notice" are mistakes somebody could make in the
code beside them; the model does not use them.  Put in place of the operator
below them, each makes TLC report the property `PROJECT.json` pairs it with.

## Runs

All runs use `FlatPath` (`.sneakpackignore`, `d`, `d/a`, `d.f`) or `DeepPath`,
which adds `d/e` and `d/e/b`: two files whose parents are removed together, a
parent that survives one of its children, and the ignore file.  The lists of a
bundle are in path order, in which `d.f` stands before `d/a`; a walk comes to
`d.f` after all of `d` (`Rank` and `WalkRank`).  Contents are
two ordinary ones, the second ignore file's rules (`hide`), and one that does
not parse (`bad`); `x1` is `v1` made executable.  More paths repeat these
situations, since apart from parents and order the code treats every path by
itself.

* `resume` (FairSpec, 1 process, plain, dry and unverified runs, no edits, 2
  deaths).  `RetrySafe`: no run ever meets a conflict or fails to verify
  because of what dead runs left.  `CursorHonest`: every file is the one the
  cursor lists or the one a single bundle from there brings.  `InOrder`.
  `ImplementsMirror`: the detailed runs implement `Mirror` under the mapping
  files = what a walk would find, cursor = the file, or the base of the run
  that has it open.  `RunsEnd` and `Converges` under fairness.  The chain
  `DeepChain` adds, flips an executable bit, deletes two levels, hides files
  behind an ignore file, brings one back, and ends in an `--allow-empty`
  bundle.  Two deaths: one that interrupts a run, one that interrupts its
  retry.
* `edits` (1 process, plain or forced, 2 edits anywhere, also to directories,
  special files and a bad ignore file, 1 death).  `TypeOK`, `ChecksHold`,
  `NoSilentLoss`, `WalkHolds`, `VerifiedMeansEqual`.  Two edits suffice for
  one before and one after a path is looked at.
* `concurrent` (2 processes, bundles that fork from one cursor and go back, 1
  edit).  The same promises for each run.
* `pack` (three kinds of trouble: 2 edits of the source at any moment; 1 edit
  and 1 killed pack; 1 edit, 2 copies of the bundle and 1 mishap to a copy, which
  may be made before pack has finished.  With and without `--allow-empty`, packs
  without number).  `PackTypeOK`, `SealedIsSound`, `EntriesWereReal`,
  `CursorFollowsBundle`, `StageExact`.  `EntriesWereReal` says of each path that
  what the bundle tells of it was so in the source since the pack began: that
  there was no file to record, or the content at one moment and the executable
  bit at another.  The edits change bits too.  Two copies: one for the manifest,
  another by the time of the extraction.
* `round_trip` (a source that changes twice between two trees, one of which
  brings an ignore file that hides a file the other one carries; 1 process, 1
  death; any bundle of the shelf at any time).  `CourierTypeOK`; `CursorTrue`: a
  destination at rest holds what its cursor lists, but for what unfinished runs
  left, and `status` calls it clean; `KeepsUp`: once the source rests, the
  destination gets to where it is, again and again.  With two trees every cursor
  can come back, so old bundles do chain again.
* `inputs` (ignore files of up to three segments in the first line and two in
  the second, on paths of up to three names; command lines of up to four tokens
  of all kinds; paths of up to four elements; two manifests with up to two
  damaged places).  `PatternsMean`, `LaterLineDecides`, `NothingLost`,
  `StdlibAgrees`, `ValidStays`, `RecordedLoads`, `VerifyProves`, `OldOrNew`.
  `NothingLost` counts tokens by the place where they were typed: of a command
  line that is accepted each place holds a flag that is set, the value of the
  flag before it, an argument that is passed on, or the one `--`, and nothing is
  passed on that was not typed.  `LaterLineDecides` is about files without a line
  that is too long; `long_line` is about the others.
  Two lines are enough to overrule and to readmit, three segments for `**` in
  front, between and behind; two damaged places for an ID and the list it names.
  The inputs end, so deadlock is not checked.

Six more runs look for what a comment or document promises and find that the
code does not keep it; `PROJECT.json` "findings" quotes the lines.

* `half_changed`: a directory that becomes a file between two packs is a
  conflict on a destination nobody touched; `--force` lands the file before it
  and fails to rename onto the directory.  So such a chain ends there, and
  `Converges` holds only of chains that keep kinds.
* `exec_edit`: after a verified apply a local user makes a tracked file
  executable; the next bundle modifies the file and replaces it unasked.
* `concurrent_order`: of two runs on one cursor, the later one saves its
  target over the other's.
* `torn_snapshot`: two edits during the walk make a bundle of a tree that
  never existed; `EntriesWereReal` is what does hold.
* `superseded`: a run dies while it lands, the source packs again from the same
  cursor, and that bundle is applied: a file only the first bundle brought stays
  for good.  `CursorTrue` is what does hold.
* `long_line`: a pattern behind a line of more than 64 KiB is the last one that
  matches and does not decide, and `Parse` reports nothing.  `LaterLineDecides`
  is what does hold.

Deadlock is checked in every run but those of `Inputs`: a user can always start
another command.

Things the runs make plain, which contradict no document: `verify` accepts a
manifest whose deletions, old hashes or base cursor are damaged (only the target
and the payload are hashed), so `apply --no-verify` after it may leave a file
that was to go; a file whose name has a backslash, or a file called
`.sneakpack`, stops every `pack` of its tree (`RecordedLoads`).

## Fairness

`RunFairness` is weak fairness of the steps of a run that has begun: `Run` is
sequential and waits for nobody, so the operating system's scheduler gives it.
A run that dies has ended.  `RetryFairness` is strong fairness of `Begin` for
every bundle without flags: the person behind the destination goes on trying
the bundles he has.  Strong, because dry runs and refused runs may come in
between.  Deaths are bounded, so fairness never has to outrun them.
`Converges` allows one other ending, a cursor file that no run can load:
`Save` truncates before it writes, and a run killed there stops every later
run, forced ones too, until somebody removes `.sneakpack`.

`CourierFairness` is the loop going on: weak fairness of a run that has begun,
strong fairness of the cursor being carried home, of a pack from it when the
source differs, and of the fitting bundle being tried.  Strong, since somebody
may export another cursor, pack with `--full` or try an old bundle in between,
again and again; nothing obliges the source to change or anybody to apply old
bundles.

## Proofs

What is proved holds for all paths, contents, bundles, option sets, numbers of
processes, edits and deaths, and for ignore files, command lines and names of
any length, under the named assumptions: the paths are
finitely many and form forests with two linear orders, that of the lists and
that of a walk, in which parents come first (`PathAssumption`, `AncAssumption`,
`RankAssumption`, `WalkRankAssumption`), the kinds of node are
distinct (`NodeAssumption`), a content has rules or does not parse
(`RulesAssumption`), bundles hold snapshots that fit in a tree
(`BundlesAssumption`), and a torn cursor is not a snapshot
(`CursorAssumption`).  For the inputs: `**` as a glob takes any name and an empty
segment none (`GlobAssumption`), no flag is both boolean and not, and a refused
command line is told from a good one (`FlagAssumption`), the classes of names are
disjoint (`NameAssumption`), a damaged ID is the hash of no list
(`RotAssumption`), and the bundles sent are bundles (`InputsAssumption`).  Each invariant below was checked by TLC before it was
proved.  Where a theorem has a hypothesis of its own, it is named here.

**Operators.**  `TreeProofs`: `CategoriesDisjoint`, `PatchReachesTarget`,
`EmptyIffEqual`, set reasoning on `Compute`; `EntryExtensional` (two entries
with the same content and bit are equal) is the one fact about data they need.
In the same module, which system calls keep a tree well-formed (`PutKeepsTree`),
and the walk: `Frontier` says that what is listed is not ignored, and nothing listed lies below another listed directory, `Ahead` which
paths the walk will still come by.  Listing the root, listing a directory and
hashing a file each settle exactly what they take off (`ListRootSettles`,
`ListDirSettles`, `ReadFileSettles`).  `Apply`'s verification and `Pack`'s
walk both rest on these.

**Any number of runs, any edits, any deaths.**

* `ApplyProofs`, `TypeCorrect` — `[]TypeOK`.  The invariant is inductive.  Its
  interesting part is `WellFormed(tree)`: a rename needs its parents at that
  very step, since another run may have pruned them, and a remove needs the
  directory to be empty.
* `ApplySafetyProofs`, `ChecksCorrect`, `WalkCorrect` — `[]ChecksHold` and
  `[]WalkHolds`, from their conjunction `Inv`.  `ChecksHold` is the
  strengthening `NoSilentLoss` needs: from the moment findConflicts has looked
  at a touched path until the run has landed, the path holds what the check
  accepted, or it was reported (and then the run is forced), or others changed
  it since.  `WalkHolds` is the like for the walk: what has been read of a path
  is still true of it, the mode of the file that is being hashed included; what
  is still to come is either listed or below a directory that is.  Each step of a process is shown to keep both for itself
  (`OwnStepHolds`, by cases) and for every other process (`OtherRuns`,
  `OtherEdits`): a step of somebody else marks as late whatever it changes.
* `NoSilentLossHolds`, `VerifiedMeansEqualHolds` — the two action properties,
  each from that invariant.
* `PackProofs`: `PackTypeCorrect`, `SealedSound`, `EntriesReal`,
  `CursorFollows`, `StagedExactly`, `BundlesFitTrees`.  None of the properties
  is inductive alone; `PackInv` adds
  - `OutHolds`: while entries are copied, the file holds exactly what the
    manifest lists of the paths that are not still to do;
  - `CopyHolds`: no copy, whatever became of it, has two entries of one path,
    without which the count `ExtractTo` compares would prove nothing (the
    step from equal counts to equal sets is `FiniteSetTheorems` on the set of
    positions, and why paths must be finite);
  - `ChainHolds`: every cursor in a file, and the base of a pack under way,
    is one a sealed bundle leads to;
  - `WalkedHolds`: what the walk has recorded was so in the source since it
    began (`Genuine`: content and bit perhaps at two moments; `BitSeen`: the bit
    of the file that is hashed next was seen), and nothing it recorded or listed
    lies below anything it recorded or listed.  The latter gives `BundlesFit`: even a snapshot of a tree that
    never existed fits in a tree.

**One run at a time.**

* `ApplyChainProofs`, `AppliedInOrder` — `InOrder`, if there is one process.
  Users may edit the tree at any time and remove `.sneakpack` between runs, and
  bundles are any.  The invariant, `CursorKept`: from the continuity check to
  the save the cursor of an unforced run stays as it was found.
* `RetriesAreSafe`, `CursorIsHonest` and the refinement
  `RunsImplementMirror`, if `QuietChain`: one process, no `--force`, no edits,
  no two bundles from one state, no path a file in one state and above a file
  in another, and states whose ignore files hide nothing of them.  Each part is
  needed: `--force` and edits are what conflicts are about, two bundles from
  one state give `superseded`, a directory that becomes a file gives
  `half_changed`.  `ChainInv` says how far a run has got (`Progress`: what is off
  its list is done, what it has finished is the target) and what kinds of node
  a quiet destination holds (`KindsHold`: files where some state has one,
  directories above those).  From it no step of a run can fail: no parent of a
  path to come is a file, no path to come a directory.  Deaths and retries are
  covered since `CursorHonest` is part of it.  In the refinement most steps
  stutter; renames and removes are arrivals, `Write` moves the cursor.
* `CourierProofs`, `CourierTypeCorrect` — `[]CourierTypeOK`, for any number of
  runs.  It needs `CursorKnown`: the destination is at a state of the source.
* `CursorTells` — `[]CursorTrue`, if `OneUser`: one process, no `--force`.
  Bundles are any two states, kinds may change between them, several may start
  from one state, any may be lost, late, repeated or overtaken, and every run
  may die or fail.  `LoopInv` adds to `Inv` that the ignore file is never a
  directory (`IgnoreFileKept`, since pack refuses a source in which it is one), that between runs everything but the strays is as the cursor says
  (`RestIsTrue`), and how far a run has got (`Delivery`: paths the bundle does
  not touch are as the base says, payload and deletions off its list are as the
  target says).  Unlike `Progress` it promises nothing about a run's success: a
  run that stops in the middle makes its paths strays (`LandingStops`), one that
  gets to the end has done them all (`TruncateLoop`).  That `status` finds a
  destination without strays clean is `RulesHideNothing`.

**Inputs.**  The library's induction theorems take an operator as a parameter
and cannot be cited here, so `IgnoreProofs` begins with what the proofs about
loops need instead, for sets and functions: a set of numbers has a least one
(`LeastNumber`, from the well-foundedness of `<`), hence what holds at the start
and from turn to turn holds throughout (`Ladder`), two loops with the same turns
agree (`LoopsAgree`), and a loop whose turn is a function has a value after each
turn (`LoopRuns`).  Every recursive definition is then shown to be the function
its equation describes (`ReadingLoop`, `DecidedLoop`, `SeparatedLoop`,
`FlagsParsedLoop`), and to go one turn on when the sequence grows by one
(`ReadingGrows`, `MatchGrows`, `SeparatedGrows`, `FlagsParsedGrows`).

* `MatchingCuts`: `matchSegments` finds exactly the cuts of the path.  By
  induction from the end of the pattern, `MatchingPlaces`: the names at which
  the rest of a pattern may begin are those from which the rest of the path can
  be cut (`PlacesEnd`, `PlacesStars`, `PlacesName`).  `MatchesMeans` adds the
  pattern without a slash, which is one segment behind a `**`.
* `PatternsMeanHolds` and `LaterLineHasLastWord`, from `LinesHold`: the loop of
  `Parse`, unless it failed, is still scanning exactly if no line was too long
  (and only of such files `LaterLineDecides` speaks).  What the last pattern changes is `LeftOutGrows`, a matter of `Verdict` at the
  path and at each directory above it.
* `StdlibAlwaysAgrees`, from `TokensHold`: three parsers side by side
  (`SideBySide`), parseMixed on the tokens, the flag package on what parseMixed
  hands it, the flag package on the tokens themselves.  The second waits for a
  value exactly when parseMixed gives it the next token (`WaitsAsHanded`), so it
  never meets an argument that is no flag; until the third meets one the two go
  together (`TogetherInFlags`).
* `NothingIsLost`, from `TokensTraced`: after each token there are rising places
  in the command line, one for each argument and each setting the loops hold, at
  which exactly those were typed (`Traces`), and every other place is accounted
  for (`Accounted`): the value behind a flag that waits for one, the last flag
  while its value is still to come, or the one `--`, behind which all are
  arguments.  `TracedStep` is one token more, by what it is: an argument
  (`ArgumentAccounted`), the `--` (`EndAccounted`), a flag that is set at once or
  waits (`FlagAccounted`, `WaitingAccounted`), a value (`ValueAccounted`).  An
  accepted command line ends with no flag waiting, which leaves what
  `NothingLost` says (`AccountedPlaced`).
* `ValidAlwaysStays`, `RecordedAlwaysLoads`: where all elements are names, `Clean`
  takes none away (`CleanKeeps`) and following them never turns back
  (`LeadsAhead`).
* `VerifyAlwaysProves`, `OldOrNewHolds`, from `ManifestHolds`: rot moves no line
  of the list of files and gives an ID no other value that is a hash.  So the ID
  of an accepted manifest is the one sent, hence its lines are (`ComputeIDTells`,
  `FiniteSetTheorems`); and lines in path order can stand in one way only
  (`OrderedListsAgree`, by the line of least rank that stands elsewhere).  With
  the list of files each line of the change set is tied to the target
  (`AcceptedLine`).  That what pack makes verifies is `NewIsValid`.

**Only model-checked.**

* `RunsEnd`, `Converges`, `KeepsUp`: liveness under fairness is out of this
  prover's reach.
* The six properties of the violation runs are false.

## Abstractions, and what is not modelled

* Hashes are injective, and sizes are part of contents.
* The content of a file is read in one step, so are the `Lstat` and the hash of
  one path in findConflicts and the look of `os.MkdirAll` upwards; an edit
  replaces a file in one step.  Symbolic links are left out; what is neither
  file nor directory is a socket, which cannot be opened.
* Archives are those pack writes, cut, damaged or replaced.  Gzip, tar and
  JSON are reduced to "what has no trailer ends in an error".
* In the trees file names are opaque: what `ValidatePath` refuses never occurs
  there.  `Names` is about the others.
* Rot is an accident: damaged hashes are not those of damaged lists.  Archives
  made up to deceive are not considered.
* In `Courier` nobody edits the destination and nobody uses `--force` (`edits`
  and `concurrent` are about those); a pack or a copy is one step (`pack` is
  about those).
* The stage is private to its run; a stage a killed run leaves behind is
  never read and not modelled.
* `inspect` and `verify` print what `ReadManifest` and `Verify` return.
  Messages, exit codes, dispatch, `cmd/sneakpack` and `version` are left out, and
  so is the syntax of hashes, sizes and format numbers in `validateEntry`.
* Where the user puts the bundle: one written into the source tree becomes part
  of the next snapshot.

## Plan

1. Of the liveness properties the safety half: what a run that has begun can
   still do decreases with each of its steps.
2. `HideAssumption` ties `Ignore` and the rules of `Snapshot` together for one
   ignore file; in general, that the rules of an ignore file `Ignore` parses are
   some `Rules` of `Snapshot`.
