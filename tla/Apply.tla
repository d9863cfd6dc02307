-------------------------------- MODULE Apply -------------------------------
(* internal/apply: runs of `sneakpack apply` on one destination directory.  *)
(*                                                                          *)
(* The destination is its tree and the file .sneakpack/cursor.json.  A run  *)
(* is one process executing Run; any number of them may work on the same    *)
(* destination, nothing in the code locks it.  One system call that changes *)
(* what others can see is one step, and so is one look at the tree; that of *)
(* hashIfExists at a path and that of MkdirAll upwards are one step each,   *)
(* though they take several calls.  Staging is a step too: the directory    *)
(* MkdirTemp returns is private to its run, what matters of it is that it   *)
(* holds the payload whole before the first rename.  Bundles are those pack *)
(* makes and Verify accepts; the archive is not modelled here.              *)
EXTENDS Diff

CONSTANTS
  Proc,              \* the apply processes
  Bundles,           \* the bundles at hand, records [base, target]
  Options,           \* the Options values users pass
  EditNodes,         \* what a local user may put at a path
  EditsWhileRunning, \* whether edits may fall between the steps of a run
  MaxEdits,          \* bound on local edits
  MaxDeaths,         \* bound on runs that die: killed, or an I/O error
  Missing,           \* cursor.json does not exist
  Truncated,         \* cursor.json is empty: Save opened it, wrote nothing
  Torn,              \* cursor.json holds bytes that are no cursor
  NoRun              \* run[p] of a process that is not running

OptionSet == [force : BOOLEAN, dryRun : BOOLEAN, noVerify : BOOLEAN]

ASSUME BundlesAssumption ==
  /\ Bundles \subseteq Bundle
  /\ \A b \in Bundles : Placeable(b.base) /\ Placeable(b.target)

ASSUME OptionsAssumption == Options \subseteq OptionSet

ASSUME BoundsAssumption ==
  /\ EditsWhileRunning \in BOOLEAN
  /\ MaxEdits \in Nat /\ MaxDeaths \in Nat

ASSUME EditAssumption == EditNodes \subseteq Node

ASSUME CursorAssumption ==
  /\ {Missing, Truncated, Torn} \cap Snapshots = {}
  /\ Missing \notin {Truncated, Torn} /\ Truncated # Torn

VARIABLES
  tree,        \* the destination, without .sneakpack
  cursorFile,  \* .sneakpack/cursor.json
  pc,          \* where each process is; how its last run ended
  run,         \* the locals of each run
  late,        \* history: paths others changed since p last looked at them
  edits,       \* how many local edits there were
  deaths       \* how many runs died

vars == <<tree, cursorFile, pc, run, late, edits, deaths>>

Ended == {"ready", "error", "continuity", "conflict", "dryrun", "died",
          "applied", "verified", "mismatch"}
Landing == {"mkdir", "rename", "delete", "prune"}
Phase == {"check", "write", "rules", "list", "walk", "hash"} \cup Landing

\* todo: paths the current loop has still to visit; dirs: directories that
\* MkdirAll has still to make, pruneEmptyParents to try, or the walk to list;
\* exec: the bit of the file that is hashed.
Run == [bundle : Bundles, opt : Options, todo : SUBSET Path,
        dirs : SUBSET Path, conflicts : SUBSET Path, rules : Rules,
        got : Snapshots, exec : BOOLEAN]

TreeOK == tree \in Trees /\ WellFormed(tree)

CursorOK == cursorFile \in Snapshots \cup {Missing, Truncated, Torn}

RunsOK ==
  /\ pc \in [Proc -> Ended \cup Phase]
  /\ run \in [Proc -> Run \cup {NoRun}]
  /\ \A p \in Proc : pc[p] \notin Ended => run[p] \in Run
  /\ late \in [Proc -> SUBSET Path]

CountsOK == edits \in 0..MaxEdits /\ deaths \in 0..MaxDeaths

\* Every variable is of its type, and the tree is one a file system can hold
\* after every step, those that fail half way included.
TypeOK == TreeOK /\ CursorOK /\ RunsOK /\ CountsOK

Init ==
  /\ tree = [x \in Path |-> Absent]
  /\ cursorFile = Missing
  /\ pc = [p \in Proc |-> "ready"]
  /\ run = [p \in Proc |-> NoRun]
  /\ late = [p \in Proc |-> {}]
  /\ edits = 0 /\ deaths = 0

-----------------------------------------------------------------------------
(* What the steps share.                                                    *)

\* LoadCursor accepts the file, or there is none.
Readable == cursorFile \notin {Truncated, Torn}

Cursor == IF cursorFile = Missing THEN EmptySnapshot ELSE cursorFile

Idle(p) == pc[p] \in Ended

\* Run returns: the result, or the error that stopped it.
End(p, result) ==
  /\ pc' = [pc EXCEPT ![p] = result]
  /\ run' = [run EXCEPT ![p] = NoRun]
  /\ late' = [late EXCEPT ![p] = {}]

\* A new phase of p that loops over the paths S.
Loop(p, phase, S) ==
  /\ pc' = [pc EXCEPT ![p] = phase]
  /\ run' = [run EXCEPT ![p].todo = S]

\* History: the runs but p have not seen what this step does to the tree.
Notice(p) ==
  late' = [q \in Proc |->
             IF q = p \/ Idle(q) THEN late[q]
             ELSE late[q] \cup {x \in Path : tree'[x] # tree[x]}]

\* A slip to notice: what an earlier run has landed is a conflict.
ExpectedOldOnly(b, x, n) ==
  n \in Entry /\ b.base[x] # Absent /\ n.sha = b.base[x].sha

\* The contents findConflicts accepts at a touched path: the old one, the
\* new one.  The executable bit is not looked at.
Expected(b, x, n) ==
  /\ n \in Entry
  /\ \/ b.base[x] # Absent /\ n.sha = b.base[x].sha
     \/ b.target[x] # Absent /\ n.sha = b.target[x].sha

\* Slips to notice: a category findConflicts does not compare.
ConflictingUnlessDeleted(b, t, x) ==
  /\ x \notin Changes(b).deleted
  /\ IF t[x] = Absent THEN x \in Changes(b).modified ELSE ~ Expected(b, x, t[x])

ConflictingUnlessAdded(b, t, x) ==
  /\ x \notin Changes(b).added
  /\ IF t[x] = Absent THEN x \in Changes(b).modified ELSE ~ Expected(b, x, t[x])

\* What findConflicts reports.
Conflicting(b, t, x) ==
  IF t[x] = Absent THEN x \in Changes(b).modified ELSE ~ Expected(b, x, t[x])

\* findConflicts goes through the added, the modified, the deleted paths.
CheckNext(c, todo) ==
  IF todo \cap c.added # {} THEN Least(todo \cap c.added)
  ELSE IF todo \cap c.modified # {} THEN Least(todo \cap c.modified)
  ELSE Least(todo)

-----------------------------------------------------------------------------
(* Run, steps 1 to 3: the cursor, continuity, conflicts.                    *)

RefuseCursor(p, b, o) ==
  /\ Idle(p) /\ ~ Readable
  /\ End(p, "error")
  /\ UNCHANGED <<tree, cursorFile, edits, deaths>>

RefuseContinuity(p, b, o) ==
  /\ Idle(p) /\ Readable
  /\ Cursor # b.base /\ ~ o.force
  /\ End(p, "continuity")
  /\ UNCHANGED <<tree, cursorFile, edits, deaths>>

\* A slip to notice: no continuity check.
BeginAnywhere(p, b, o) ==
  /\ Idle(p) /\ Readable
  /\ pc' = [pc EXCEPT ![p] = "check"]
  /\ run' = [run EXCEPT ![p] =
               [bundle |-> b, opt |-> o, todo |-> Touched(Changes(b)),
                dirs |-> {}, conflicts |-> {}, rules |-> NoRules,
                got |-> EmptySnapshot, exec |-> FALSE]]
  /\ UNCHANGED <<tree, cursorFile, late, edits, deaths>>

\* The bundle chains, or is forced: findConflicts starts.
Begin(p, b, o) ==
  /\ Idle(p) /\ Readable
  /\ Cursor = b.base \/ o.force
  /\ pc' = [pc EXCEPT ![p] = "check"]
  /\ run' = [run EXCEPT ![p] =
               [bundle |-> b, opt |-> o, todo |-> Touched(Changes(b)),
                dirs |-> {}, conflicts |-> {}, rules |-> NoRules,
                got |-> EmptySnapshot, exec |-> FALSE]]
  /\ UNCHANGED <<tree, cursorFile, late, edits, deaths>>

\* hashIfExists and the comparison for one path.
CheckPath(p) ==
  /\ pc[p] = "check"
  /\ \E x \in CheckNext(Changes(run[p].bundle), run[p].todo) :
       /\ ~ Blocked(tree, x)
       /\ run' = [run EXCEPT
                    ![p].todo = @ \ {x},
                    ![p].conflicts =
                      IF Conflicting(run[p].bundle, tree, x)
                      THEN @ \cup {x} ELSE @]
       /\ late' = [late EXCEPT ![p] = @ \ {x}]
  /\ UNCHANGED <<tree, cursorFile, pc, edits, deaths>>

\* Lstat below a file: ENOTDIR, which findConflicts returns as an error.
CheckBlocked(p) ==
  /\ pc[p] = "check"
  /\ \E x \in CheckNext(Changes(run[p].bundle), run[p].todo) : Blocked(tree, x)
  /\ End(p, "error")
  /\ UNCHANGED <<tree, cursorFile, edits, deaths>>

Checked(p) == pc[p] = "check" /\ run[p].todo = {}

RefuseConflicts(p) ==
  /\ Checked(p)
  /\ run[p].conflicts # {} /\ ~ run[p].opt.force /\ ~ run[p].opt.dryRun
  /\ End(p, "conflict")
  /\ UNCHANGED <<tree, cursorFile, edits, deaths>>

FinishDryRun(p) ==
  /\ Checked(p)
  /\ run[p].opt.dryRun
  /\ End(p, "dryrun")
  /\ UNCHANGED <<tree, cursorFile, edits, deaths>>

\* A slip to notice: conflicts are collected and not acted upon.
StageDespiteConflicts(p) ==
  /\ Checked(p) /\ ~ run[p].opt.dryRun
  /\ Loop(p, "mkdir", PayloadFiles(Changes(run[p].bundle)))
  /\ UNCHANGED <<tree, cursorFile, late, edits, deaths>>

\* MkdirAll, MkdirTemp, ExtractTo: the payload is whole in the stage.
Stage(p) ==
  /\ Checked(p)
  /\ run[p].conflicts = {} \/ run[p].opt.force
  /\ ~ run[p].opt.dryRun
  /\ Loop(p, "mkdir", PayloadFiles(Changes(run[p].bundle)))
  /\ UNCHANGED <<tree, cursorFile, late, edits, deaths>>

-----------------------------------------------------------------------------
(* Run, step 4: land the payload, then delete.                              *)

\* os.MkdirAll for the next payload file: it looks upwards for what is there,
StatParents(p) ==
  /\ pc[p] = "mkdir"
  /\ \E x \in Least(run[p].todo) :
       /\ ~ Blocked(tree, x)
       /\ run' = [run EXCEPT ![p].dirs = {y \in Anc[x] : tree[y] = Absent}]
  /\ pc' = [pc EXCEPT ![p] = "rename"]
  /\ UNCHANGED <<tree, cursorFile, late, edits, deaths>>

\* ... and makes what was missing, downwards.
Topmost(S) == {y \in S : Anc[y] \cap S = {}}

\* os.Mkdir; that somebody else has made it meanwhile is no error.
CanMkdir(y) == tree[y] \in {Absent, Dir} /\ \A z \in Anc[y] : tree[z] = Dir

MkdirParent(p) ==
  /\ pc[p] = "rename"
  /\ \E y \in Topmost(run[p].dirs) :
       /\ CanMkdir(y)
       /\ tree' = [tree EXCEPT ![y] = Dir]
       /\ run' = [run EXCEPT ![p].dirs = @ \ {y}]
  /\ Notice(p)
  /\ UNCHANGED <<cursorFile, pc, edits, deaths>>

MkdirFails(p) ==
  /\ pc[p] = "rename"
  /\ \E y \in Topmost(run[p].dirs) : ~ CanMkdir(y)
  /\ End(p, "error")
  /\ UNCHANGED <<tree, cursorFile, edits, deaths>>

MkdirBlocked(p) ==
  /\ pc[p] = "mkdir"
  /\ \E x \in Least(run[p].todo) : Blocked(tree, x)
  /\ End(p, "error")
  /\ UNCHANGED <<tree, cursorFile, edits, deaths>>

\* os.Rename replaces a file, never a directory, and makes no parents.
CanRename(x) == tree[x] # Dir /\ \A y \in Anc[x] : tree[y] = Dir

Rename(p) ==
  /\ pc[p] = "rename" /\ run[p].dirs = {}
  /\ \E x \in Least(run[p].todo) :
       /\ CanRename(x)
       /\ tree' = [tree EXCEPT ![x] = run[p].bundle.target[x]]
       /\ Loop(p, "mkdir", run[p].todo \ {x})
  /\ Notice(p)
  /\ UNCHANGED <<cursorFile, edits, deaths>>

RenameFails(p) ==
  /\ pc[p] = "rename" /\ run[p].dirs = {}
  /\ \E x \in Least(run[p].todo) : ~ CanRename(x)
  /\ End(p, "error")
  /\ UNCHANGED <<tree, cursorFile, edits, deaths>>

StartDeletes(p) ==
  /\ pc[p] = "mkdir" /\ run[p].todo = {}
  /\ Loop(p, "delete", Changes(run[p].bundle).deleted)
  /\ UNCHANGED <<tree, cursorFile, late, edits, deaths>>

\* A slip to notice: a path that is gone already stops the run.
CanDeleteExisting(x) == ~ Blocked(tree, x) /\ Removable(tree, x)

\* os.Remove of a deleted path; that it is gone already is no error.
CanDelete(x) == ~ Blocked(tree, x) /\ (tree[x] = Absent \/ Removable(tree, x))

Delete(p) ==
  /\ pc[p] = "delete"
  /\ \E x \in Least(run[p].todo) :
       /\ CanDelete(x)
       /\ tree' = [tree EXCEPT ![x] = Absent]
       /\ run' = [run EXCEPT ![p].todo = @ \ {x}, ![p].dirs = Anc[x]]
  /\ pc' = [pc EXCEPT ![p] = "prune"]
  /\ Notice(p)
  /\ UNCHANGED <<cursorFile, edits, deaths>>

DeleteFails(p) ==
  /\ pc[p] = "delete"
  /\ \E x \in Least(run[p].todo) : ~ CanDelete(x)
  /\ End(p, "error")
  /\ UNCHANGED <<tree, cursorFile, edits, deaths>>

\* The next directory upwards.
Deepest(S) == {y \in S : \A z \in S : z = y \/ z \in Anc[y]}

\* One turn of the loop of pruneEmptyParents: os.Remove, whatever is there.
Prune(p) ==
  /\ pc[p] = "prune"
  /\ \E y \in Deepest(run[p].dirs) :
       /\ Removable(tree, y)
       /\ tree' = [tree EXCEPT ![y] = Absent]
       /\ run' = [run EXCEPT ![p].dirs = @ \ {y}]
  /\ Notice(p)
  /\ UNCHANGED <<cursorFile, pc, edits, deaths>>

\* A slip to notice: the loop goes on at the same directory after an error.
StopPruneNever(p) ==
  /\ pc[p] = "prune"
  /\ \A y \in Deepest(run[p].dirs) : ~ Removable(tree, y)
  /\ pc' = [pc EXCEPT ![p] = IF run[p].dirs = {} THEN "delete" ELSE "prune"]
  /\ UNCHANGED <<tree, cursorFile, run, late, edits, deaths>>

\* At the root, or at the first directory that cannot be removed.
StopPrune(p) ==
  /\ pc[p] = "prune"
  /\ \A y \in Deepest(run[p].dirs) : ~ Removable(tree, y)
  /\ pc' = [pc EXCEPT ![p] = "delete"]
  /\ run' = [run EXCEPT ![p].dirs = {}]
  /\ UNCHANGED <<tree, cursorFile, late, edits, deaths>>

-----------------------------------------------------------------------------
(* Run, step 5: save the cursor, then verify the tree.                      *)

\* A slip to notice: the cursor is saved once the payload has landed.
TruncateBeforeDeletes(p) ==
  /\ pc[p] = "mkdir" /\ run[p].todo = {}
  /\ cursorFile' = Truncated
  /\ pc' = [pc EXCEPT ![p] = "write"]
  /\ UNCHANGED <<tree, run, late, edits, deaths>>

\* os.WriteFile opens cursor.json with O_TRUNC ...
Truncate(p) ==
  /\ pc[p] = "delete" /\ run[p].todo = {}
  /\ cursorFile' = Truncated
  /\ pc' = [pc EXCEPT ![p] = "write"]
  /\ UNCHANGED <<tree, run, late, edits, deaths>>

\* ... and writes at offset 0: over what another run has written since, the
\* longer text keeps its tail.
Write(p) ==
  /\ pc[p] = "write"
  /\ \/ cursorFile' = run[p].bundle.target
     \/ cursorFile # Truncated /\ cursorFile' = Torn
  /\ IF run[p].opt.noVerify
     THEN End(p, "applied")
     ELSE pc' = [pc EXCEPT ![p] = "rules"] /\ UNCHANGED <<run, late>>
  /\ UNCHANGED <<tree, edits, deaths>>

\* ignore.Load of the destination's own ignore file, as it is now.
LoadedRules ==
  IF tree[IgnoreFile] = Absent THEN NoRules
  ELSE IF tree[IgnoreFile] \in Entry THEN RulesOf[tree[IgnoreFile].sha]
  ELSE BadGlob

\* A slip to notice: the error of ignore.Load is dropped.
LoadRulesUnchecked(p) ==
  /\ pc[p] = "rules"
  /\ pc' = [pc EXCEPT ![p] = "list"]
  /\ run' = [run EXCEPT ![p].rules = LoadedRules]
  /\ UNCHANGED <<tree, cursorFile, late, edits, deaths>>

LoadRules(p) ==
  /\ pc[p] = "rules" /\ LoadedRules # BadGlob
  /\ pc' = [pc EXCEPT ![p] = "list"]
  /\ run' = [run EXCEPT ![p].rules = LoadedRules]
  /\ UNCHANGED <<tree, cursorFile, late, edits, deaths>>

BadRules(p) ==
  /\ pc[p] = "rules" /\ LoadedRules = BadGlob
  /\ End(p, "error")
  /\ UNCHANGED <<tree, cursorFile, edits, deaths>>

\* snapshot.Take: WalkDir lists the root ...
ListRoot(p) ==
  /\ pc[p] = "list"
  /\ pc' = [pc EXCEPT ![p] = "walk"]
  /\ run' = [run EXCEPT
               ![p].todo = ListedFiles(tree, run[p].rules, TopLevel),
               ![p].dirs = ListedDirs(tree, run[p].rules, TopLevel),
               ![p].got = EmptySnapshot]
  /\ late' = [late EXCEPT ![p] = {}]
  /\ UNCHANGED <<tree, cursorFile, edits, deaths>>

Visited(p) == Upcoming(run[p].todo \cup run[p].dirs)

\* A slip to notice: the first listed name of a directory is enough.
WalkDirShort(p) ==
  /\ pc[p] = "walk"
  /\ \E d \in Visited(p) \cap run[p].dirs :
       /\ tree[d] = Dir
       /\ run' = [run EXCEPT
            ![p].todo = @ \cup Least(ListedFiles(tree, run[p].rules, Children(d))),
            ![p].dirs = @ \ {d}]
       /\ late' = [late EXCEPT ![p] = @ \ ({d} \cup {x \in Path : d \in Anc[x]})]
  /\ UNCHANGED <<tree, cursorFile, pc, edits, deaths>>

\* ... and each directory when it comes to it, ...
WalkDir(p) ==
  /\ pc[p] = "walk"
  /\ \E d \in Visited(p) \cap run[p].dirs :
       /\ tree[d] = Dir
       /\ run' = [run EXCEPT
            ![p].todo = @ \cup ListedFiles(tree, run[p].rules, Children(d)),
            ![p].dirs = (@ \ {d}) \cup ListedDirs(tree, run[p].rules, Children(d))]
       /\ late' = [late EXCEPT ![p] = @ \ ({d} \cup {x \in Path : d \in Anc[x]})]
  /\ UNCHANGED <<tree, cursorFile, pc, edits, deaths>>

\* ... asks for the mode of each file it has listed, ...
StatFile(p) ==
  /\ pc[p] = "walk"
  /\ \E x \in Visited(p) \cap run[p].todo : \E bit \in Bits(tree[x]) :
       /\ run' = [run EXCEPT ![p].exec = bit]
       /\ late' = [late EXCEPT ![p] = @ \ {x}]
  /\ pc' = [pc EXCEPT ![p] = "hash"]
  /\ UNCHANGED <<tree, cursorFile, edits, deaths>>

\* A slip to notice: a file the target lists is not read again.
HashFileTrusted(p) ==
  /\ pc[p] = "hash"
  /\ \E x \in Visited(p) \cap run[p].todo :
       /\ tree[x] \in Entry
       /\ run' = [run EXCEPT ![p].todo = @ \ {x},
                    ![p].got = [@ EXCEPT ![x] = run[p].bundle.target[x]]]
  /\ pc' = [pc EXCEPT ![p] = "walk"]
  /\ UNCHANGED <<tree, cursorFile, late, edits, deaths>>

\* ... hashes the file then, which may be another one by now, ...
HashFile(p) ==
  /\ pc[p] = "hash"
  /\ \E x \in Visited(p) \cap run[p].todo :
       /\ tree[x] \in Entry
       /\ run' = [run EXCEPT
            ![p].todo = @ \ {x}, ![p].exec = FALSE,
            ![p].got = [@ EXCEPT ![x] = [sha |-> tree[x].sha, exec |-> run[p].exec]]]
  /\ pc' = [pc EXCEPT ![p] = "walk"]
  /\ UNCHANGED <<tree, cursorFile, late, edits, deaths>>

\* ... and fails on what is gone or cannot be read.
WalkFails(p) ==
  /\ pc[p] \in {"walk", "hash"}
  /\ \E x \in Visited(p) :
       IF pc[p] = "hash" THEN tree[x] \notin Entry
       ELSE IF x \in run[p].dirs THEN tree[x] # Dir ELSE tree[x] = Absent
  /\ End(p, "error")
  /\ UNCHANGED <<tree, cursorFile, edits, deaths>>

Walked(p) == pc[p] = "walk" /\ run[p].todo = {} /\ run[p].dirs = {}

\* Slips to notice: extra paths do not count; the saved cursor is believed.
CompareTargetOnly(p) ==
  /\ Walked(p)
  /\ End(p, IF \A x \in Path : run[p].bundle.target[x] \in {Absent, run[p].got[x]}
            THEN "verified" ELSE "mismatch")
  /\ UNCHANGED <<tree, cursorFile, edits, deaths>>

CompareCursor(p) ==
  /\ Walked(p)
  /\ End(p, IF cursorFile = run[p].bundle.target THEN "verified" ELSE "mismatch")
  /\ UNCHANGED <<tree, cursorFile, edits, deaths>>

\* The ID of what the walk found against the target cursor.
Compare(p) ==
  /\ Walked(p)
  /\ End(p, IF run[p].got = run[p].bundle.target THEN "verified" ELSE "mismatch")
  /\ UNCHANGED <<tree, cursorFile, edits, deaths>>

-----------------------------------------------------------------------------
(* What happens to a run and to its directory from outside.                 *)

\* Killed, or an I/O error between any two steps: full disk, dead medium, a
\* bundle damaged after Verify read it.
Die(p) ==
  /\ ~ Idle(p)
  /\ deaths < MaxDeaths /\ deaths' = deaths + 1
  /\ End(p, "died")
  /\ UNCHANGED <<tree, cursorFile, edits>>

\* A local user creates, changes or removes one node.
LocalEdit(x, n) ==
  /\ edits < MaxEdits /\ edits' = edits + 1
  /\ EditsWhileRunning \/ \A p \in Proc : Idle(p)
  /\ n # tree[x]
  /\ n # Absent => \A y \in Anc[x] : tree[y] = Dir
  /\ tree[x] = Dir => Childless(tree, x)
  /\ tree' = [tree EXCEPT ![x] = n]
  /\ late' = [q \in Proc |-> IF Idle(q) THEN late[q] ELSE late[q] \cup {x}]
  /\ UNCHANGED <<cursorFile, pc, run, deaths>>

\* The user removes .sneakpack: the only way past a cursor no run can read.
LoseStateDir ==
  /\ edits < MaxEdits /\ edits' = edits + 1
  /\ \A p \in Proc : Idle(p)
  /\ cursorFile # Missing /\ cursorFile' = Missing
  /\ UNCHANGED <<tree, pc, run, late, deaths>>

Start(p) ==
  \E b \in Bundles, o \in Options :
    RefuseCursor(p, b, o) \/ RefuseContinuity(p, b, o) \/ Begin(p, b, o)

\* The steps of a run once it has begun.
Step(p) ==
  \/ CheckPath(p) \/ CheckBlocked(p)
  \/ RefuseConflicts(p) \/ FinishDryRun(p) \/ Stage(p)
  \/ StatParents(p) \/ MkdirBlocked(p) \/ MkdirParent(p) \/ MkdirFails(p)
  \/ Rename(p) \/ RenameFails(p)
  \/ StartDeletes(p) \/ Delete(p) \/ DeleteFails(p)
  \/ Prune(p) \/ StopPrune(p)
  \/ Truncate(p) \/ Write(p)
  \/ LoadRules(p) \/ BadRules(p)
  \/ ListRoot(p) \/ WalkDir(p) \/ StatFile(p) \/ HashFile(p) \/ WalkFails(p)
  \/ Compare(p)

Next ==
  \/ \E p \in Proc : Start(p) \/ Step(p) \/ Die(p)
  \/ \E x \in Path, n \in EditNodes : LocalEdit(x, n)
  \/ LoseStateDir

Spec == Init /\ [][Next]_vars

\* A started run goes on unless it dies: nothing in it waits for anyone.
RunFairness == \A p \in Proc : WF_vars(Step(p))

\* The user behind the destination keeps retrying every bundle, plainly.
Plain == [force |-> FALSE, dryRun |-> FALSE, noVerify |-> FALSE]
RetryFairness == \A p \in Proc, b \in Bundles : SF_vars(Begin(p, b, Plain))

FairSpec == Spec /\ RunFairness /\ RetryFairness

-----------------------------------------------------------------------------
(* What must never happen, whatever the bundles, runs and edits.            *)

\* x held something of its own and does not any more.
Destroyed(x) == tree[x] \in Entry \cup {Special} /\ tree'[x] # tree[x]

ChecksHoldFor(p) ==
  LET r == run[p]
      c == Changes(r.bundle)
  IN  pc[p] \in {"check"} \cup Landing =>
        /\ \A x \in Touched(c) : tree[x] \in Entry \cup {Special} =>
             \/ Expected(r.bundle, x, tree[x])
             \/ x \in r.conflicts
             \/ x \in late[p]
             \/ pc[p] = "check" /\ x \in r.todo
        /\ pc[p] \in Landing => r.conflicts = {} \/ r.opt.force
        /\ r.todo \subseteq Touched(c)
        /\ pc[p] = "prune" =>
             \A y \in r.dirs : tree[y] \in {Dir, Absent} \/ y \in late[p]

\* The walk of r has not come to x yet.
Pending(r, x) == x \in r.todo \cup r.dirs \/ Anc[x] \cap r.dirs # {}

WalkHoldsFor(p) ==
  LET r == run[p]
  IN  pc[p] \in {"walk", "hash"} =>
        /\ r.todo \cap r.dirs = {}
        /\ \A x \in r.todo \cup r.dirs : Anc[x] \cap r.dirs = {}
        /\ \A x \in r.todo : ~ Ignored(r.rules, x)
        /\ \A d \in r.dirs : (Anc[d] \cup {d}) \cap r.rules.dir = {}
        /\ \A x \in Path : IF Pending(r, x) THEN r.got[x] = Absent
             ELSE x \in late[p] \/ r.got[x] = Read(tree, r.rules, x)
        /\ pc[p] = "hash" =>
             \A x \in Visited(p) \cap r.todo : x \in late[p] \/ r.exec \in Bits(tree[x])

\* Local edits stop the apply instead of being destroyed (apply.go:9-11): a
\* landing run destroys nothing but the contents its bundle expects to find,
\* except conflicts it was forced over, and what others did at a path after
\* findConflicts looked at it.
NoSilentLoss ==
  [][\A p \in Proc :
       Rename(p) \/ Delete(p) \/ Prune(p) =>
         \A x \in Path : Destroyed(x) =>
           \/ Expected(run[p].bundle, x, tree[x])
           \/ run[p].opt.force /\ x \in run[p].conflicts
           \/ x \in late[p]]_vars

\* Why NoSilentLoss holds: from its check to its landing a touched path holds
\* what the check accepted, unless it was reported or others changed it;
\* only forced runs get past a conflict; a run lands and deletes nothing
\* outside its change set, and prunes directories only.
ChecksHold == \A p \in Proc : ChecksHoldFor(p)

\* "Verified" is true of the tree and not only of the walk: unless others
\* changed a path after the walk came to it, the tree holds the target at the
\* moment Run says so, and nothing the rules do not hide (apply.go:15-17).
VerifiedMeansEqual ==
  [][\A p \in Proc : pc[p] = "walk" /\ pc'[p] = "verified" =>
       \A x \in Path \ late[p] :
         Read(tree, run[p].rules, x) = run[p].bundle.target[x]]_vars

\* Why VerifiedMeansEqual holds: what the walk has read of a path is still
\* true of it, its mode while it is hashed included, unless others changed
\* the path since.
WalkHolds == \A p \in Proc : WalkHoldsFor(p)

\* A run that has begun ends (it has no loop that others can prolong).
RunsEnd == \A p \in Proc : ~ Idle(p) ~> Idle(p)

-----------------------------------------------------------------------------
(* What one run at a time, never forced, on a tree nobody edits, adds.      *)

\* One process; nobody forces, nobody edits.
Alone ==
  /\ \A p, q \in Proc : p = q
  /\ \A o \in Options : ~ o.force
  /\ MaxEdits = 0

\* The states the bundles lead from and to.
States == {b.base : b \in Bundles} \cup {b.target : b \in Bundles}

\* No two bundles start from one state.
OneChain == \A b, c \in Bundles : b.base = c.base => b = c

\* What is a file in one state lies above no file of another.
KeepsKinds ==
  \A s, t \in States : \A x \in Path :
    s[x] # Absent => \A y \in Anc[x] : t[y] = Absent

\* The rules a state carries with it.
RulesOfState(s) ==
  IF s[IgnoreFile] = Absent THEN NoRules ELSE RulesOf[s[IgnoreFile].sha]

\* They parse and hide none of its files, and no state has a directory in
\* their place: what packs of a source at rest record.
HidesNothing ==
  \A s \in States :
    /\ RulesOfState(s) # BadGlob
    /\ \A x \in Path :
         s[x] # Absent => IgnoreFile \notin Anc[x] /\ ~ Ignored(RulesOfState(s), x)

QuietChain == Alone /\ OneChain /\ KeepsKinds /\ HidesNothing

\* Retrying a bundle is always safe (apply.go:214-218): wherever the runs
\* before it died, a run neither meets a conflict nor fails to verify, and
\* only an unreadable cursor makes it fail.
RetrySafe ==
  \A p \in Proc :
    /\ pc[p] \notin {"conflict", "mismatch"}
    /\ pc[p] = "error" => ~ Readable

\* The cursor never runs ahead of the tree: whatever run died where, each
\* file is the one the cursor lists or the one a bundle starting at the
\* cursor brings, and those come from one bundle.
CursorHonest ==
  Readable =>
    \E s \in {Cursor} \cup {b.target : b \in {c \in Bundles : c.base = Cursor}} :
      \A x \in Path : Read(tree, NoRules, x) \in {Cursor[x], s[x]}

\* Bundles are only applied in order (apply.go:6-8): a run saves its target
\* only over the cursor its bundle starts from.  That this is never twice
\* holds of bundles that lead away from their base: one of --allow-empty
\* chains again on its own target.
InOrder ==
  [][\A p \in Proc : Truncate(p) =>
       run[p].opt.force \/ (Readable /\ Cursor = run[p].bundle.base)]_vars

\* Apply must never leave a tree half-changed (CONTRIBUTING.md:37): a run
\* that gives up by itself, alive and with no I/O error, has landed and
\* deleted nothing.
NeverHalfChanged ==
  [][\A p \in Proc : pc[p] \in Landing /\ pc'[p] = "error" =>
       /\ pc[p] \in {"mkdir", "rename"}
       /\ run[p].todo = PayloadFiles(Changes(run[p].bundle))]_vars

\* A local edit stops the apply unless it is forced (README.md:39): of the
\* files its base lists, an unforced run replaces and deletes only those that
\* are as the base or the target lists them.
NeverOverwritesLocalEdit ==
  [][\A p \in Proc : (Rename(p) \/ Delete(p)) /\ ~ run[p].opt.force =>
       LET b == run[p].bundle
       IN  \A x \in Path : Destroyed(x) /\ b.base[x] # Absent =>
             tree[x] \in {b.base[x], b.target[x]}]_vars

\* The destination as the abstract specification sees it: a truncated cursor
\* in the hands of a run counts as the old one until the run writes.
MirrorCursor ==
  IF Readable THEN Cursor
  ELSE IF \A p \in Proc : pc[p] # "write" THEN Torn
  ELSE run[CHOOSE p \in Proc : pc[p] = "write"].bundle.base

M == INSTANCE Mirror WITH files <- Take(tree, NoRules),
                          cursor <- MirrorCursor,
                          Lost <- Torn

\* The runs together do only what Mirror promises.
ImplementsMirror == M!MirrorSpec

\* However often the runs die, a user who keeps retrying gets the end of the
\* chain, unless a run died inside Save: no later run can read that cursor.
Converges == M!MirrorConverges
=============================================================================
