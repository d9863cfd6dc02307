-------------------------- MODULE ApplySafetyProofs -------------------------
(* The safety of Apply: no silent loss of local content, and a verification *)
(* that means what it says, with any number of runs and edits interleaved.  *)
(* The inductive invariant is TypeOK /\ ChecksHold /\ WalkHolds.            *)
EXTENDS ApplyProofs

USE DEF Ended, Landing, Phase

\* What a step of somebody else does to a run: it may change the tree, and
\* the run's history says where.
Undisturbed(p) ==
  /\ pc'[p] = pc[p] /\ run'[p] = run[p]
  /\ late[p] \subseteq late'[p]
  /\ \A x \in Path : tree'[x] # tree[x] => x \in late'[p]

LEMMA UndisturbedChecks ==
  ASSUME NEW p \in Proc, ChecksHoldFor(p), run[p].dirs \subseteq Path, Undisturbed(p)
  PROVE  ChecksHoldFor(p)'
<1> DEFINE b == run[p].bundle
<1>1. ASSUME pc[p] \in {"check"} \cup Landing PROVE ChecksHoldFor(p)'
  <2>1. ASSUME NEW x \in Touched(Changes(b)),
               tree'[x] \in Entry \cup {Special}
        PROVE  \/ Expected(b, x, tree'[x]) \/ x \in run[p].conflicts
               \/ x \in late'[p] \/ (pc[p] = "check" /\ x \in run[p].todo)
    <3>1. x \in Path
      BY TouchedType
    <3>2. CASE tree'[x] # tree[x]
      BY <3>1, <3>2 DEF Undisturbed
    <3>3. CASE tree'[x] = tree[x]
      BY <1>1, <2>1, <3>3 DEF Undisturbed, ChecksHoldFor
    <3> QED BY <3>2, <3>3
  <2>2. pc[p] = "prune" =>
          \A y \in run[p].dirs : tree'[y] \in {Dir, Absent} \/ y \in late'[p]
    BY <1>1 DEF Undisturbed, ChecksHoldFor
  <2>3. /\ pc[p] \in Landing => run[p].conflicts = {} \/ run[p].opt.force
        /\ run[p].todo \subseteq Touched(Changes(b))
    BY <1>1 DEF ChecksHoldFor
  <2> QED BY <2>1, <2>2, <2>3 DEF Undisturbed, ChecksHoldFor
<1> QED BY <1>1 DEF Undisturbed, ChecksHoldFor

LEMMA UndisturbedWalk ==
  ASSUME NEW p \in Proc, WalkHoldsFor(p), Undisturbed(p),
         pc[p] \in Phase => run[p].todo \subseteq Path
  PROVE  WalkHoldsFor(p)'
<1> SUFFICES ASSUME pc[p] \in {"walk", "hash"} PROVE WalkHoldsFor(p)'
  BY DEF Undisturbed, WalkHoldsFor
<1>1. Visited(p)' = Visited(p)
  BY DEF Undisturbed, Visited
<1>2. \A x \in Path : Pending(run[p], x) \/ x \in late[p]
        \/ run[p].got[x] = Read(tree, run[p].rules, x)
  BY DEF WalkHoldsFor
<1>3. \A x \in Path : Pending(run[p], x) \/ x \in late'[p]
        \/ run[p].got[x] = Read(tree', run[p].rules, x)
  BY <1>2 DEF Undisturbed, Read
<1>4. \A x \in Visited(p) \cap run[p].todo :
        pc[p] = "hash" /\ x \in Path => x \in late'[p] \/ run[p].exec \in Bits(tree'[x])
  BY DEF Undisturbed, WalkHoldsFor
<1> QED BY <1>1, <1>3, <1>4 DEF Undisturbed, WalkHoldsFor

\* A step of q changes nothing of p's but what p's history records.
LEMMA OtherRuns ==
  ASSUME TypeOK, NEW p \in Proc, NEW q \in Proc, p # q, ~ Idle(p),
         Start(q) \/ Step(q) \/ Die(q)
  PROVE  Undisturbed(p)
<1>1. /\ pc \in [Proc -> Ended \cup Phase] /\ run \in [Proc -> Run \cup {NoRun}]
      /\ late \in [Proc -> SUBSET Path]
  BY DEF TypeOK, RunsOK
<1>2. ASSUME Notice(q) PROVE late[p] \subseteq late'[p]
        /\ \A x \in Path : tree'[x] # tree[x] => x \in late'[p]
  BY <1>1, <1>2 DEF Notice
<1>3. ASSUME Start(q) PROVE Undisturbed(p)
  BY <1>1, <1>3 DEF Start, RefuseCursor, RefuseContinuity, Begin, End, Undisturbed
<1>4. ASSUME Die(q) PROVE Undisturbed(p)
  BY <1>1, <1>4 DEF Die, End, Undisturbed
<1>5. ASSUME MkdirParent(q) \/ Rename(q) \/ Delete(q) \/ Prune(q)
      PROVE  Undisturbed(p)
  BY <1>1, <1>2, <1>5 DEF MkdirParent, Rename, Loop, Delete, Prune, Undisturbed
<1>6. ASSUME \/ CheckPath(q) \/ Stage(q) \/ StartDeletes(q) \/ StopPrune(q)
             \/ Truncate(q) \/ LoadRules(q) \/ ListRoot(q) \/ WalkDir(q)
             \/ StatParents(q) \/ StatFile(q) \/ HashFile(q)
      PROVE  Undisturbed(p)
  BY <1>1, <1>6 DEF CheckPath, Stage, Loop, StartDeletes, StopPrune, Truncate,
                    LoadRules, ListRoot, WalkDir, StatParents, StatFile,
                    HashFile, Undisturbed
<1>7. ASSUME \/ CheckBlocked(q) \/ RefuseConflicts(q) \/ FinishDryRun(q)
             \/ MkdirBlocked(q) \/ MkdirFails(q) \/ RenameFails(q) \/ DeleteFails(q)
             \/ BadRules(q) \/ WalkFails(q) \/ Compare(q) \/ Write(q)
      PROVE  Undisturbed(p)
  BY <1>1, <1>7 DEF CheckBlocked, RefuseConflicts, FinishDryRun, MkdirBlocked,
                    MkdirFails, RenameFails, DeleteFails, BadRules, WalkFails, Compare,
                    Write, End,
                    Undisturbed
<1> QED BY <1>3, <1>4, <1>5, <1>6, <1>7 DEF Step

\* Nor does a local edit, or the loss of the state directory.
LEMMA OtherEdits ==
  ASSUME TypeOK, NEW p \in Proc, ~ Idle(p),
         LoseStateDir \/ \E x \in Path, n \in EditNodes : LocalEdit(x, n)
  PROVE  Undisturbed(p)
<1>1. tree \in Trees /\ late \in [Proc -> SUBSET Path]
  BY DEF TypeOK, TreeOK, RunsOK
<1>2. CASE LoseStateDir
  BY <1>1, <1>2 DEF LoseStateDir
<1>3. ASSUME NEW x \in Path, NEW n \in EditNodes, LocalEdit(x, n)
      PROVE  Undisturbed(p)
  <2>1. \A y \in Path : tree'[y] # tree[y] => y = x
    BY <1>1, <1>3 DEF LocalEdit, Trees
  <2>2. late'[p] = late[p] \cup {x}
    BY <1>1, <1>3 DEF LocalEdit
  <2> QED BY <1>3, <2>1, <2>2 DEF LocalEdit, Undisturbed
<1> QED BY <1>2, <1>3

-----------------------------------------------------------------------------
(* A run's own steps.                                                       *)

\* Between runs there is nothing to hold.
LEMMA EndedHolds ==
  ASSUME RunsOK, NEW p \in Proc, NEW result \in Ended, End(p, result)
  PROVE  ChecksHoldFor(p)' /\ WalkHoldsFor(p)'
<1>1. pc'[p] = result
  BY DEF RunsOK, End
<1> QED BY <1>1 DEF ChecksHoldFor, WalkHoldsFor

\* What findConflicts accepts or reports.
LEMMA CheckedPath ==
  ASSUME NEW b, NEW t, NEW x, t[x] \in Entry \cup {Special}, ~ Conflicting(b, t, x)
  PROVE  Expected(b, x, t[x])
BY NodeAssumption DEF Conflicting

LEMMA BeginHolds ==
  ASSUME TypeOK, NEW p \in Proc, NEW b \in Bundles, NEW o \in Options,
         Begin(p, b, o)
  PROVE  ChecksHoldFor(p)' /\ WalkHoldsFor(p)'
<1>1. pc'[p] = "check" /\ run'[p].bundle = b
      /\ run'[p].todo = Touched(Changes(b))
  BY DEF Begin, TypeOK, RunsOK
<1> QED BY <1>1 DEF ChecksHoldFor, WalkHoldsFor

LEMMA CheckPathHolds ==
  ASSUME TypeOK, NEW p \in Proc, ChecksHoldFor(p), CheckPath(p)
  PROVE  ChecksHoldFor(p)'
<1> DEFINE r == run[p]
<1>1. PICK x \in CheckNext(Changes(r.bundle), r.todo) :
        /\ run' = [run EXCEPT
                     ![p].todo = @ \ {x},
                     ![p].conflicts = IF Conflicting(r.bundle, tree, x)
                                      THEN @ \cup {x} ELSE @]
        /\ late' = [late EXCEPT ![p] = @ \ {x}]
  BY DEF CheckPath
<1>2. r \in Run /\ late \in [Proc -> SUBSET Path]
      /\ run \in [Proc -> Run \cup {NoRun}]
  BY RunType DEF CheckPath, TypeOK, RunsOK
<1>3. run'[p] = [r EXCEPT !.todo = @ \ {x},
                          !.conflicts = IF Conflicting(r.bundle, tree, x)
                                        THEN @ \cup {x} ELSE @]
  BY <1>1, <1>2
<1>4. /\ run'[p].bundle = r.bundle /\ run'[p].todo = r.todo \ {x}
      /\ run'[p].conflicts = IF Conflicting(r.bundle, tree, x)
                             THEN r.conflicts \cup {x} ELSE r.conflicts
      /\ late'[p] = late[p] \ {x}
      /\ pc'[p] = "check" /\ pc[p] = "check" /\ tree' = tree
  BY <1>1, <1>2, <1>3 DEF CheckPath, Run
<1>5. ASSUME NEW y \in Touched(Changes(r.bundle)), tree[y] \in Entry \cup {Special}
      PROVE  \/ Expected(r.bundle, y, tree[y]) \/ y \in run'[p].conflicts
             \/ y \in late'[p] \/ y \in run'[p].todo
  <2>1. CASE y = x
    BY <1>4, <1>5, <2>1, CheckedPath
  <2>2. CASE y # x
    BY <1>4, <1>5, <2>2 DEF ChecksHoldFor
  <2> QED BY <2>1, <2>2
<1>6. run'[p].todo \subseteq Touched(Changes(r.bundle))
  BY <1>4 DEF ChecksHoldFor
<1> QED BY <1>4, <1>5, <1>6 DEF ChecksHoldFor

LEMMA StageHolds ==
  ASSUME TypeOK, NEW p \in Proc, ChecksHoldFor(p), Stage(p)
  PROVE  ChecksHoldFor(p)'
<1> DEFINE r == run[p]
           S == PayloadFiles(Changes(r.bundle))
<1>1. r \in Run /\ run \in [Proc -> Run \cup {NoRun}]
  BY RunType DEF Stage, Checked, TypeOK, RunsOK
<1>2. run'[p] = [r EXCEPT !.todo = S]
  BY <1>1 DEF Stage, Loop
<1>3. /\ run'[p].bundle = r.bundle /\ run'[p].todo = S
      /\ run'[p].conflicts = r.conflicts /\ run'[p].opt = r.opt
      /\ pc'[p] = "mkdir" /\ pc[p] = "check" /\ r.todo = {}
      /\ tree' = tree /\ late' = late
      /\ r.conflicts = {} \/ r.opt.force
  BY <1>1, <1>2 DEF Stage, Checked, Loop, Run, TypeOK, RunsOK
<1>4. S \subseteq Touched(Changes(r.bundle))
  BY TouchedType
<1> QED BY <1>3, <1>4 DEF ChecksHoldFor

\* Looking upwards changes nothing of what was checked.
LEMMA StatParentsHolds ==
  ASSUME TypeOK, NEW p \in Proc, ChecksHoldFor(p), StatParents(p)
  PROVE  ChecksHoldFor(p)'
<1>1. PICK x \in Least(run[p].todo) :
        run' = [run EXCEPT ![p].dirs = {y \in Anc[x] : tree[y] = Absent}]
  BY DEF StatParents
<1>2. run[p] \in Run /\ run \in [Proc -> Run \cup {NoRun}]
  BY RunType DEF StatParents, TypeOK, RunsOK
<1>3. run'[p] = [run[p] EXCEPT !.dirs = {y \in Anc[x] : tree[y] = Absent}]
  BY <1>1, <1>2
<1>4. /\ run'[p].bundle = run[p].bundle /\ run'[p].todo = run[p].todo
      /\ run'[p].conflicts = run[p].conflicts /\ run'[p].opt = run[p].opt
      /\ pc[p] = "mkdir" /\ pc'[p] = "rename" /\ tree' = tree /\ late' = late
  BY <1>2, <1>3 DEF StatParents, Run, TypeOK, RunsOK
<1> QED BY <1>4 DEF ChecksHoldFor

\* A directory appears where nothing was: no content is unaccounted for.
LEMMA MkdirParentHolds ==
  ASSUME TypeOK, NEW p \in Proc, ChecksHoldFor(p), MkdirParent(p)
  PROVE  ChecksHoldFor(p)'
<1> DEFINE r == run[p]
<1>1. PICK y \in Topmost(r.dirs) :
        /\ tree' = [tree EXCEPT ![y] = Dir]
        /\ run' = [run EXCEPT ![p].dirs = @ \ {y}]
  BY DEF MkdirParent
<1>2. r \in Run /\ run \in [Proc -> Run \cup {NoRun}] /\ tree \in Trees
  BY RunType DEF MkdirParent, TypeOK, TreeOK, RunsOK
<1>3. run'[p] = [r EXCEPT !.dirs = @ \ {y}]
  BY <1>1, <1>2
<1>4. /\ run'[p].bundle = r.bundle /\ run'[p].todo = r.todo
      /\ run'[p].conflicts = r.conflicts /\ run'[p].opt = r.opt
      /\ pc[p] = "rename" /\ pc'[p] = "rename" /\ late'[p] = late[p]
  BY <1>2, <1>3 DEF MkdirParent, Run, Notice, TypeOK, RunsOK
<1>5. \A x \in Path : tree'[x] \in Entry \cup {Special} => tree'[x] = tree[x]
  BY <1>1, <1>2, NodeAssumption DEF Trees
<1>6. Touched(Changes(r.bundle)) \subseteq Path
  BY TouchedType
<1> QED BY <1>4, <1>5, <1>6 DEF ChecksHoldFor

\* A renamed path holds what the bundle brings.
LEMMA RenameHolds ==
  ASSUME TypeOK, NEW p \in Proc, ChecksHoldFor(p), Rename(p)
  PROVE  ChecksHoldFor(p)'
<1> DEFINE r == run[p]
<1>1. PICK x \in Least(r.todo) :
        /\ tree' = [tree EXCEPT ![x] = r.bundle.target[x]]
        /\ Loop(p, "mkdir", r.todo \ {x})
  BY DEF Rename
<1>2. r \in Run /\ run \in [Proc -> Run \cup {NoRun}] /\ tree \in Trees
      /\ r.todo \subseteq Path
  BY RunType DEF Rename, TypeOK, TreeOK, RunsOK
<1>3. run'[p] = [r EXCEPT !.todo = r.todo \ {x}]
  BY <1>1, <1>2 DEF Loop
<1>4. /\ run'[p].bundle = r.bundle /\ run'[p].todo = r.todo \ {x}
      /\ run'[p].conflicts = r.conflicts /\ run'[p].opt = r.opt
      /\ pc'[p] = "mkdir" /\ pc[p] = "rename" /\ late'[p] = late[p]
  BY <1>1, <1>2, <1>3 DEF Rename, Loop, Run, Notice, TypeOK, RunsOK
<1>5. r.bundle.target \in Snapshots /\ x \in Path
  BY <1>2, <1>1, LeastSubset, BundlesAssumption DEF Run, Bundle
<1>6. ASSUME NEW y \in Touched(Changes(r.bundle)), tree'[y] \in Entry \cup {Special}
      PROVE  \/ Expected(r.bundle, y, tree'[y]) \/ y \in r.conflicts
             \/ y \in late[p]
  <2>1. y \in Path
    BY TouchedType
  <2>2. CASE y = x
    <3>1. tree'[x] = r.bundle.target[x] /\ r.bundle.target[x] \in Entry \cup {Absent}
      BY <1>1, <1>2, <1>5 DEF Trees, Snapshots
    <3>2. r.bundle.target[x] \in Entry /\ r.bundle.target[x] # Absent
      BY <1>6, <2>2, <3>1, NodeAssumption
    <3> QED BY <2>2, <3>1, <3>2 DEF Expected
  <2>3. CASE y # x
    <3>1. tree'[y] = tree[y]
      BY <1>1, <1>2, <2>1, <2>3 DEF Trees
    <3> QED BY <1>4, <1>6, <3>1 DEF ChecksHoldFor
  <2> QED BY <2>2, <2>3
<1>7. run'[p].todo \subseteq Touched(Changes(r.bundle))
      /\ (r.conflicts = {} \/ r.opt.force)
  BY <1>4 DEF ChecksHoldFor
<1> QED BY <1>4, <1>6, <1>7 DEF ChecksHoldFor

\* Deleting begins with everything landed and nothing outside the bundle.
LEMMA StartDeletesHolds ==
  ASSUME TypeOK, NEW p \in Proc, ChecksHoldFor(p), StartDeletes(p)
  PROVE  ChecksHoldFor(p)'
<1> DEFINE r == run[p]
           S == Changes(r.bundle).deleted
<1>1. r \in Run /\ run \in [Proc -> Run \cup {NoRun}]
  BY RunType DEF StartDeletes, TypeOK, RunsOK
<1>2. run'[p] = [r EXCEPT !.todo = S]
  BY <1>1 DEF StartDeletes, Loop
<1>3. /\ run'[p].bundle = r.bundle /\ run'[p].todo = S
      /\ run'[p].conflicts = r.conflicts /\ run'[p].opt = r.opt
      /\ pc'[p] = "delete" /\ pc[p] = "mkdir"
      /\ tree' = tree /\ late' = late
  BY <1>1, <1>2 DEF StartDeletes, Loop, Run, TypeOK, RunsOK
<1>4. S \subseteq Touched(Changes(r.bundle))
  BY TouchedType
<1> QED BY <1>3, <1>4 DEF ChecksHoldFor

\* After a path is deleted what lies above it are directories, or nothing.
LEMMA DeleteHolds ==
  ASSUME TypeOK, NEW p \in Proc, ChecksHoldFor(p), Delete(p)
  PROVE  ChecksHoldFor(p)'
<1> DEFINE r == run[p]
<1>1. PICK x \in Least(r.todo) :
        /\ CanDelete(x)
        /\ tree' = [tree EXCEPT ![x] = Absent]
        /\ run' = [run EXCEPT ![p].todo = @ \ {x}, ![p].dirs = Anc[x]]
  BY DEF Delete
<1>2. r \in Run /\ run \in [Proc -> Run \cup {NoRun}] /\ tree \in Trees
      /\ r.todo \subseteq Path
  BY RunType DEF Delete, TypeOK, TreeOK, RunsOK
<1>3. run'[p] = [r EXCEPT !.todo = @ \ {x}, !.dirs = Anc[x]]
  BY <1>1, <1>2
<1>4. /\ run'[p].bundle = r.bundle /\ run'[p].todo = r.todo \ {x}
      /\ run'[p].conflicts = r.conflicts /\ run'[p].opt = r.opt
      /\ run'[p].dirs = Anc[x]
      /\ pc'[p] = "prune" /\ pc[p] = "delete" /\ late'[p] = late[p]
  BY <1>1, <1>2, <1>3 DEF Delete, Run, Notice, TypeOK, RunsOK
<1>5. x \in Path /\ Anc[x] \subseteq Path /\ x \notin Anc[x]
  BY <1>1, <1>2, LeastSubset, AncAssumption
<1>6. ASSUME NEW y \in Touched(Changes(r.bundle)), tree'[y] \in Entry \cup {Special}
      PROVE  \/ Expected(r.bundle, y, tree'[y]) \/ y \in r.conflicts
             \/ y \in late[p]
  <2>1. y \in Path
    BY TouchedType
  <2>2. tree'[y] = tree[y]
    BY <1>1, <1>2, <1>6, <2>1, NodeAssumption DEF Trees
  <2> QED BY <1>4, <1>6, <2>2 DEF ChecksHoldFor
<1>7. \A y \in Anc[x] : tree'[y] \in {Dir, Absent}
  BY <1>1, <1>2, <1>5 DEF CanDelete, Blocked, Trees
<1>8. run'[p].todo \subseteq Touched(Changes(r.bundle))
      /\ (r.conflicts = {} \/ r.opt.force)
  BY <1>4 DEF ChecksHoldFor
<1> QED BY <1>4, <1>6, <1>7, <1>8 DEF ChecksHoldFor

LEMMA PruneHolds ==
  ASSUME TypeOK, NEW p \in Proc, ChecksHoldFor(p), Prune(p)
  PROVE  ChecksHoldFor(p)'
<1> DEFINE r == run[p]
<1>1. PICK d \in Deepest(r.dirs) :
        /\ tree' = [tree EXCEPT ![d] = Absent]
        /\ run' = [run EXCEPT ![p].dirs = @ \ {d}]
  BY DEF Prune
<1>2. r \in Run /\ run \in [Proc -> Run \cup {NoRun}] /\ tree \in Trees
      /\ r.dirs \subseteq Path
  BY RunType DEF Prune, TypeOK, TreeOK, RunsOK
<1>3. run'[p] = [r EXCEPT !.dirs = @ \ {d}]
  BY <1>1, <1>2
<1>4. /\ run'[p].bundle = r.bundle /\ run'[p].todo = r.todo
      /\ run'[p].conflicts = r.conflicts /\ run'[p].opt = r.opt
      /\ run'[p].dirs = r.dirs \ {d}
      /\ pc'[p] = "prune" /\ pc[p] = "prune" /\ late'[p] = late[p]
  BY <1>2, <1>3 DEF Prune, Run, Notice, TypeOK, RunsOK
<1>5. \A y \in Path : tree'[y] # Absent => tree'[y] = tree[y]
  BY <1>1, <1>2 DEF Trees
<1>6. ASSUME NEW y \in Touched(Changes(r.bundle)), tree'[y] \in Entry \cup {Special}
      PROVE  \/ Expected(r.bundle, y, tree'[y]) \/ y \in r.conflicts
             \/ y \in late[p]
  <2>1. y \in Path
    BY TouchedType
  <2>2. tree'[y] = tree[y]
    BY <1>5, <1>6, <2>1, NodeAssumption
  <2> QED BY <1>4, <1>6, <2>2 DEF ChecksHoldFor
<1>7. \A y \in run'[p].dirs : tree'[y] \in {Dir, Absent} \/ y \in late[p]
  <2> SUFFICES ASSUME NEW y \in run'[p].dirs, tree'[y] # Absent
               PROVE  tree'[y] \in {Dir, Absent} \/ y \in late[p]
    OBVIOUS
  <2>1. y \in r.dirs /\ y \in Path
    BY <1>2, <1>4
  <2>2. tree[y] \in {Dir, Absent} \/ y \in late[p]
    BY <1>4, <2>1 DEF ChecksHoldFor
  <2> QED BY <1>5, <2>1, <2>2
<1>8. r.todo \subseteq Touched(Changes(r.bundle))
      /\ (r.conflicts = {} \/ r.opt.force)
  BY <1>4 DEF ChecksHoldFor
<1> QED BY <1>4, <1>6, <1>7, <1>8 DEF ChecksHoldFor

LEMMA StopPruneHolds ==
  ASSUME TypeOK, NEW p \in Proc, ChecksHoldFor(p), StopPrune(p)
  PROVE  ChecksHoldFor(p)'
<1> DEFINE r == run[p]
<1>1. r \in Run /\ run \in [Proc -> Run \cup {NoRun}]
  BY RunType DEF StopPrune, TypeOK, RunsOK
<1>2. run'[p] = [r EXCEPT !.dirs = {}]
  BY <1>1 DEF StopPrune
<1>3. /\ run'[p].bundle = r.bundle /\ run'[p].todo = r.todo
      /\ run'[p].conflicts = r.conflicts /\ run'[p].opt = r.opt
      /\ pc'[p] = "delete" /\ pc[p] = "prune"
      /\ tree' = tree /\ late' = late
  BY <1>1, <1>2 DEF StopPrune, Run, TypeOK, RunsOK
<1> QED BY <1>3 DEF ChecksHoldFor

\* Listing the root settles every path but those the walk goes on to.
LEMMA ListRootHolds ==
  ASSUME TypeOK, NEW p \in Proc, ListRoot(p)
  PROVE  WalkHoldsFor(p)'
<1> DEFINE r == run[p]
           F == ListedFiles(tree, r.rules, TopLevel)
           D == ListedDirs(tree, r.rules, TopLevel)
<1>1. r \in Run /\ run \in [Proc -> Run \cup {NoRun}]
      /\ WellFormed(tree) /\ tree \in Trees
  BY RunType DEF ListRoot, TypeOK, RunsOK, TreeOK
<1>2. run'[p] = [r EXCEPT !.todo = F, !.dirs = D, !.got = EmptySnapshot]
  BY <1>1 DEF ListRoot
<1>3. /\ run'[p].todo = F /\ run'[p].dirs = D /\ run'[p].got = EmptySnapshot
      /\ run'[p].rules = r.rules /\ tree' = tree /\ pc'[p] = "walk"
  BY <1>1, <1>2 DEF ListRoot, Run, TypeOK, RunsOK
<1>4. /\ Frontier(r.rules, F, D)
      /\ \A x \in Path : Ahead(F, D, x) \/ Read(tree, r.rules, x) = Absent
  BY <1>1, ListRootSettles
<1>5. \A x \in Path : EmptySnapshot[x] = Absent
  BY DEF EmptySnapshot
<1> QED BY <1>3, <1>4, <1>5 DEF WalkHoldsFor, Pending, Frontier, Ahead

\* Listing a directory settles what lies below it but for what it names.
LEMMA WalkDirHolds ==
  ASSUME TypeOK, NEW p \in Proc, WalkHoldsFor(p), WalkDir(p)
  PROVE  WalkHoldsFor(p)'
<1> DEFINE r == run[p]
<1>1. PICK d \in Visited(p) \cap r.dirs :
        /\ tree[d] = Dir
        /\ run' = [run EXCEPT
             ![p].todo = @ \cup ListedFiles(tree, r.rules, Children(d)),
             ![p].dirs = (@ \ {d}) \cup ListedDirs(tree, r.rules, Children(d))]
        /\ late' = [late EXCEPT ![p] = @ \ ({d} \cup {x \in Path : d \in Anc[x]})]
  BY DEF WalkDir
<1> DEFINE F == ListedFiles(tree, r.rules, Children(d))
           D == ListedDirs(tree, r.rules, Children(d))
<1>2. r \in Run /\ run \in [Proc -> Run \cup {NoRun}]
      /\ WellFormed(tree) /\ tree \in Trees /\ r.got \in Snapshots
      /\ late \in [Proc -> SUBSET Path]
  BY RunType DEF WalkDir, TypeOK, RunsOK, TreeOK
<1>3. run'[p] = [r EXCEPT !.todo = @ \cup F, !.dirs = (@ \ {d}) \cup D]
  BY <1>1, <1>2
<1>4. /\ run'[p].todo = r.todo \cup F /\ run'[p].dirs = (r.dirs \ {d}) \cup D
      /\ run'[p].got = r.got /\ run'[p].rules = r.rules
      /\ late'[p] = late[p] \ ({d} \cup {x \in Path : d \in Anc[x]})
      /\ tree' = tree /\ pc[p] = "walk" /\ pc' = pc
  BY <1>1, <1>2, <1>3 DEF WalkDir, Run
<1>5. /\ d \in r.dirs /\ r.todo \in SUBSET Path /\ r.dirs \in SUBSET Path
      /\ Frontier(r.rules, r.todo, r.dirs) /\ tree[d] = Dir
      /\ tree \in Trees /\ WellFormed(tree)
  BY <1>1, <1>2, <1>4 DEF WalkHoldsFor, Frontier, Run
<1>6. /\ Frontier(r.rules, r.todo \cup F, (r.dirs \ {d}) \cup D)
      /\ \A x \in Path : Ahead(r.todo \cup F, (r.dirs \ {d}) \cup D, x)
                           => Ahead(r.todo, r.dirs, x)
      /\ \A x \in Path : Ahead(r.todo, r.dirs, x) =>
           \/ Ahead(r.todo \cup F, (r.dirs \ {d}) \cup D, x)
           \/ Read(tree, r.rules, x) = Absent /\ (x = d \/ d \in Anc[x])
  <2> DEFINE rules == r.rules
             todo == r.todo
             dirs == r.dirs
  <2>1. /\ F = ListedFiles(tree, rules, Children(d))
        /\ D = ListedDirs(tree, rules, Children(d))
        /\ todo \in SUBSET Path /\ dirs \in SUBSET Path /\ d \in dirs
        /\ Frontier(rules, todo, dirs)
    BY <1>5
  <2> HIDE DEF F, D, rules, todo, dirs
  <2>2. /\ Frontier(rules, todo \cup F, (dirs \ {d}) \cup D)
        /\ \A x \in Path : Ahead(todo \cup F, (dirs \ {d}) \cup D, x)
                             => Ahead(todo, dirs, x)
        /\ \A x \in Path : Ahead(todo, dirs, x) =>
             \/ Ahead(todo \cup F, (dirs \ {d}) \cup D, x)
             \/ Read(tree, rules, x) = Absent /\ (x = d \/ d \in Anc[x])
    BY <1>5, <2>1, ListDirSettles
  <2> QED BY <2>2 DEF rules, todo, dirs
<1>7. \A x \in Path : IF Ahead(r.todo, r.dirs, x) THEN r.got[x] = Absent
                      ELSE x \in late[p] \/ r.got[x] = Read(tree, r.rules, x)
  BY <1>4 DEF WalkHoldsFor, Pending, Ahead
<1>8. ASSUME NEW x \in Path
      PROVE  IF Pending(run'[p], x) THEN r.got[x] = Absent
             ELSE x \in late'[p] \/ r.got[x] = Read(tree, r.rules, x)
  <2>1. Pending(run'[p], x) <=> Ahead(r.todo \cup F, (r.dirs \ {d}) \cup D, x)
    BY <1>4 DEF Pending, Ahead
  <2>2. ~ Ahead(r.todo, r.dirs, x) => x # d /\ d \notin Anc[x]
    BY <1>5 DEF Ahead
  <2> QED BY <1>4, <1>6, <1>7, <2>1, <2>2
<1> QED BY <1>4, <1>6, <1>8 DEF WalkHoldsFor, Frontier

\* The mode of the file the walk has come to is what it is now.
LEMMA StatFileHolds ==
  ASSUME TypeOK, NEW p \in Proc, WalkHoldsFor(p), StatFile(p)
  PROVE  WalkHoldsFor(p)'
<1> DEFINE r == run[p]
<1>1. PICK x \in Visited(p) \cap r.todo : \E bit \in Bits(tree[x]) :
        /\ run' = [run EXCEPT ![p].exec = bit]
        /\ late' = [late EXCEPT ![p] = @ \ {x}]
  BY DEF StatFile
<1>2. PICK bit \in Bits(tree[x]) : run' = [run EXCEPT ![p].exec = bit]
  BY <1>1
<1>3. r \in Run /\ run \in [Proc -> Run \cup {NoRun}]
      /\ late \in [Proc -> SUBSET Path] /\ pc \in [Proc -> Ended \cup Phase]
      /\ r.todo \cup r.dirs \in SUBSET Path
  BY RunType DEF StatFile, TypeOK, RunsOK
<1>4. run'[p] = [r EXCEPT !.exec = bit]
  BY <1>2, <1>3
<1>5. /\ run'[p].todo = r.todo /\ run'[p].dirs = r.dirs /\ run'[p].got = r.got
      /\ run'[p].rules = r.rules /\ run'[p].exec = bit
      /\ late'[p] = late[p] \ {x} /\ tree' = tree
      /\ pc[p] = "walk" /\ pc'[p] = "hash"
  BY <1>1, <1>3, <1>4 DEF StatFile, Run
<1>6. x \in r.todo /\ x \in Path /\ ~ Ignored(r.rules, x)
      /\ r.todo \cap r.dirs = {} /\ Anc[x] \cap r.dirs = {}
  BY <1>1, <1>3, <1>5 DEF WalkHoldsFor
<1>7. \A y \in Path : Pending(run'[p], y) <=> Pending(r, y)
  BY <1>5 DEF Pending
<1>8. ASSUME NEW y \in Path
      PROVE  IF Pending(run'[p], y) THEN run'[p].got[y] = Absent
             ELSE y \in late'[p] \/ run'[p].got[y] = Read(tree', run'[p].rules, y)
  <2>1. IF Pending(r, y) THEN r.got[y] = Absent
        ELSE y \in late[p] \/ r.got[y] = Read(tree, r.rules, y)
    BY <1>5 DEF WalkHoldsFor
  <2>2. Pending(r, x)
    BY <1>6 DEF Pending
  <2> QED BY <1>5, <1>7, <2>1, <2>2
<1>9. \A y \in Visited(p)' \cap run'[p].todo :
         y \in late'[p] \/ run'[p].exec \in Bits(tree'[y])
  <2>1. Visited(p)' = Visited(p)
    BY <1>5 DEF Visited
  <2>2. \A y \in Visited(p) : y = x
    BY <1>1, <1>3, UpcomingOne DEF Visited
  <2> QED BY <1>2, <1>5, <2>1, <2>2
<1>10. /\ run'[p].todo \cap run'[p].dirs = {}
       /\ \A y \in run'[p].todo \cup run'[p].dirs : Anc[y] \cap run'[p].dirs = {}
       /\ \A y \in run'[p].todo : ~ Ignored(run'[p].rules, y)
       /\ \A d \in run'[p].dirs : (Anc[d] \cup {d}) \cap run'[p].rules.dir = {}
  BY <1>5 DEF WalkHoldsFor
<1> QED BY <1>8, <1>9, <1>10 DEF WalkHoldsFor

\* Hashing it settles it.
LEMMA HashFileHolds ==
  ASSUME TypeOK, NEW p \in Proc, WalkHoldsFor(p), HashFile(p)
  PROVE  WalkHoldsFor(p)'
<1> DEFINE r == run[p]
<1>1. PICK x \in Visited(p) \cap r.todo :
        /\ tree[x] \in Entry
        /\ run' = [run EXCEPT
             ![p].todo = @ \ {x}, ![p].exec = FALSE,
             ![p].got = [@ EXCEPT ![x] = [sha |-> tree[x].sha, exec |-> r.exec]]]
  BY DEF HashFile
<1>2. r \in Run /\ run \in [Proc -> Run \cup {NoRun}]
      /\ r.got \in Snapshots /\ r.exec \in BOOLEAN
      /\ pc \in [Proc -> Ended \cup Phase]
  BY RunType DEF HashFile, TypeOK, RunsOK, Run
<1> DEFINE e == [sha |-> tree[x].sha, exec |-> r.exec]
           g == [r.got EXCEPT ![x] = e]
<1>3. run'[p] = [r EXCEPT !.todo = @ \ {x}, !.exec = FALSE, !.got = g]
  BY <1>1, <1>2
<1>4. /\ run'[p].todo = r.todo \ {x} /\ run'[p].got = g
      /\ run'[p].dirs = r.dirs /\ run'[p].rules = r.rules
      /\ late' = late /\ tree' = tree /\ pc[p] = "hash" /\ pc'[p] = "walk"
  <2>1. /\ run'[p].todo = r.todo \ {x} /\ run'[p].got = g
        /\ run'[p].dirs = r.dirs /\ run'[p].rules = r.rules
    BY <1>2, <1>3 DEF Run
  <2> QED BY <1>2, <2>1 DEF HashFile
<1>5. \A y \in Path : g[y] = IF y = x THEN e ELSE r.got[y]
  BY <1>2 DEF Snapshots
<1>6. x \in r.todo /\ Frontier(r.rules, r.todo, r.dirs)
  BY <1>1, <1>4 DEF WalkHoldsFor, Frontier
<1>7. /\ Frontier(r.rules, r.todo \ {x}, r.dirs) /\ ~ Ignored(r.rules, x)
      /\ \A y \in Path : Ahead(r.todo \ {x}, r.dirs, y)
                           <=> Ahead(r.todo, r.dirs, y) /\ y # x
  BY <1>6, ReadFileSettles
<1>8. x \in late[p] \/ e = tree[x]
  <2>1. x \in late[p] \/ r.exec \in Bits(tree[x])
    BY <1>1, <1>4 DEF WalkHoldsFor
  <2> QED BY <1>1, <1>2, <2>1, HashedEntry
<1>9. ASSUME NEW y \in Path
      PROVE  IF Pending(run'[p], y) THEN g[y] = Absent
             ELSE y \in late'[p] \/ g[y] = Read(tree, r.rules, y)
  <2>1. Pending(run'[p], y) <=> Ahead(r.todo, r.dirs, y) /\ y # x
    BY <1>4, <1>7 DEF Pending, Ahead
  <2>2. CASE y = x
    BY <1>1, <1>4, <1>5, <1>7, <1>8, <2>1, <2>2 DEF Read
  <2>3. CASE y # x
    BY <1>4, <1>5, <2>1, <2>3 DEF WalkHoldsFor, Pending, Ahead
  <2> QED BY <2>2, <2>3
<1> QED BY <1>4, <1>7, <1>9 DEF WalkHoldsFor, Frontier

-----------------------------------------------------------------------------
(* The inductive invariant.                                                 *)

Inv == TypeOK /\ ChecksHold /\ WalkHolds

LEMMA OwnStepHolds ==
  ASSUME TypeOK, NEW p \in Proc, ChecksHoldFor(p), WalkHoldsFor(p),
         Start(p) \/ Step(p) \/ Die(p)
  PROVE  ChecksHoldFor(p)' /\ WalkHoldsFor(p)'
<1>0. RunsOK /\ p \in DOMAIN pc
  BY DEF TypeOK, RunsOK
<1>1. ASSUME NEW ph \in {"check", "write", "rules", "list"} \cup Landing,
             pc'[p] = ph
      PROVE  WalkHoldsFor(p)'
  BY <1>1 DEF WalkHoldsFor
<1>2. ASSUME NEW ph \in {"write", "rules", "list", "walk", "hash"}, pc'[p] = ph
      PROVE  ChecksHoldFor(p)'
  BY <1>2 DEF ChecksHoldFor
<1>3. CASE Start(p)
  BY <1>0, <1>3, BeginHolds, EndedHolds DEF Start, RefuseCursor, RefuseContinuity
<1>4. CASE Die(p)
  BY <1>0, <1>4, EndedHolds DEF Die
<1>5. CASE CheckPath(p)
  BY <1>0, <1>1, <1>5, CheckPathHolds DEF CheckPath
<1>6. CASE Stage(p)
  BY <1>0, <1>1, <1>6, StageHolds DEF Stage, Loop
<1>7. CASE StatParents(p)
  BY <1>0, <1>1, <1>7, StatParentsHolds DEF StatParents
<1>20. CASE MkdirParent(p)
  <2>1. pc'[p] = "rename"
    BY <1>20 DEF MkdirParent
  <2> QED BY <1>1, <1>20, <2>1, MkdirParentHolds
<1>8. CASE Rename(p)
  BY <1>0, <1>1, <1>8, RenameHolds DEF Rename, Loop
<1>9. CASE StartDeletes(p)
  BY <1>0, <1>1, <1>9, StartDeletesHolds DEF StartDeletes, Loop
<1>10. CASE Delete(p)
  BY <1>0, <1>1, <1>10, DeleteHolds DEF Delete
<1>11. CASE Prune(p)
  BY <1>0, <1>1, <1>11, PruneHolds DEF Prune
<1>12. CASE StopPrune(p)
  BY <1>0, <1>1, <1>12, StopPruneHolds DEF StopPrune
<1>13. CASE Truncate(p)
  BY <1>0, <1>1, <1>2, <1>13 DEF Truncate
<1>14. CASE Write(p)
  <2>1. CASE run[p].opt.noVerify
    BY <1>0, <1>14, <2>1, EndedHolds DEF Write
  <2>2. CASE ~ run[p].opt.noVerify
    BY <1>0, <1>1, <1>2, <1>14, <2>2 DEF Write
  <2> QED BY <2>1, <2>2
<1>15. CASE LoadRules(p)
  BY <1>0, <1>1, <1>2, <1>15 DEF LoadRules
<1>16. CASE ListRoot(p)
  BY <1>0, <1>2, <1>16, ListRootHolds DEF ListRoot
<1>18. CASE WalkDir(p)
  BY <1>0, <1>2, <1>18, WalkDirHolds DEF WalkDir
<1>19. CASE StatFile(p)
  BY <1>0, <1>2, <1>19, StatFileHolds DEF StatFile
<1>21. CASE HashFile(p)
  BY <1>0, <1>2, <1>21, HashFileHolds DEF HashFile
<1>17. CASE \/ CheckBlocked(p) \/ RefuseConflicts(p) \/ FinishDryRun(p)
            \/ MkdirBlocked(p) \/ MkdirFails(p) \/ RenameFails(p)
            \/ DeleteFails(p) \/ BadRules(p) \/ WalkFails(p) \/ Compare(p)
  <2>1. \E result \in Ended : End(p, result)
    BY <1>17 DEF CheckBlocked, RefuseConflicts, FinishDryRun, MkdirBlocked,
                 MkdirFails, RenameFails, DeleteFails, BadRules, WalkFails, Compare
  <2> QED BY <1>0, <2>1, EndedHolds
<1> QED BY <1>3, <1>4, <1>5, <1>6, <1>7, <1>8, <1>9, <1>10, <1>11, <1>12,
           <1>13, <1>14, <1>15, <1>16, <1>17, <1>18, <1>19, <1>20, <1>21
           DEF Step

\* A process that stays between runs has nothing to hold.
LEMMA IdleHolds ==
  ASSUME NEW p \in Proc, pc'[p] \in Ended
  PROVE  ChecksHoldFor(p)' /\ WalkHoldsFor(p)'
BY DEF ChecksHoldFor, WalkHoldsFor

\* Whoever is idle stays so under the steps of others.
LEMMA IdleStays ==
  ASSUME TypeOK, NEW p \in Proc, NEW q \in Proc, p # q, Idle(p),
         Start(q) \/ Step(q) \/ Die(q)
  PROVE  pc'[p] \in Ended
<1>1. pc \in [Proc -> Ended \cup Phase]
  BY DEF TypeOK, RunsOK
<1>2. pc'[p] = pc[p]
  BY <1>1 DEF Start, RefuseCursor, RefuseContinuity, Begin, Die, End, Step, Loop,
       CheckPath, CheckBlocked, RefuseConflicts, FinishDryRun, Stage,
       StatParents, MkdirBlocked, MkdirParent, MkdirFails, Rename, RenameFails,
       StartDeletes, Delete,
       DeleteFails, Prune, StopPrune, Truncate, Write, LoadRules, BadRules,
       ListRoot, WalkDir, StatFile, HashFile, WalkFails, Compare
<1> QED BY <1>2 DEF Idle

LEMMA InitInv == Init => Inv
<1> SUFFICES ASSUME Init PROVE Inv
  OBVIOUS
<1>1. TypeOK
  BY InitType
<1>2. ChecksHold /\ WalkHolds
  BY DEF Init, ChecksHold, WalkHolds, ChecksHoldFor, WalkHoldsFor
<1> QED BY <1>1, <1>2 DEF Inv

LEMMA NextInv == Inv /\ [Next]_vars => Inv'
<1> SUFFICES ASSUME Inv, [Next]_vars PROVE Inv'
  OBVIOUS
<1>0. TypeOK /\ TypeOK'
  BY NextType DEF Inv
<1>1. ASSUME NEW p \in Proc PROVE ChecksHoldFor(p)' /\ WalkHoldsFor(p)'
  <2>0. ChecksHoldFor(p) /\ WalkHoldsFor(p)
    BY DEF Inv, ChecksHold, WalkHolds
  <2>1. CASE UNCHANGED vars
    <3>1. Visited(p)' = Visited(p)
      BY <2>1 DEF vars, Visited
    <3> QED BY <2>0, <2>1, <3>1 DEF vars, ChecksHoldFor, WalkHoldsFor
  <2>2. CASE Start(p) \/ Step(p) \/ Die(p)
    BY <1>0, <2>0, <2>2, OwnStepHolds
  <2>3. ASSUME Undisturbed(p), ~ Idle(p)
        PROVE  ChecksHoldFor(p)' /\ WalkHoldsFor(p)'
    <3>1. run[p].dirs \subseteq Path /\ run[p].todo \subseteq Path
      BY <1>0, <2>3, RunType DEF Idle, TypeOK, RunsOK
    <3> QED BY <2>0, <2>3, <3>1, UndisturbedChecks, UndisturbedWalk
  <2>4. ASSUME NEW q \in Proc, q # p, Start(q) \/ Step(q) \/ Die(q)
        PROVE  ChecksHoldFor(p)' /\ WalkHoldsFor(p)'
    <3>1. CASE Idle(p)
      BY <1>0, <2>4, <3>1, IdleStays, IdleHolds
    <3>2. CASE ~ Idle(p)
      BY <1>0, <2>3, <2>4, <3>2, OtherRuns
    <3> QED BY <3>1, <3>2
  <2>5. CASE LoseStateDir \/ \E x \in Path, n \in EditNodes : LocalEdit(x, n)
    <3>1. CASE Idle(p)
      <4>1. pc'[p] = pc[p]
        BY <2>5 DEF LoseStateDir, LocalEdit
      <4> QED BY <3>1, <4>1, IdleHolds DEF Idle
    <3>2. CASE ~ Idle(p)
      BY <1>0, <2>3, <2>5, <3>2, OtherEdits
    <3> QED BY <3>1, <3>2
  <2> QED BY <2>1, <2>2, <2>4, <2>5 DEF Next
<1> QED BY <1>0, <1>1 DEF Inv, ChecksHold, WalkHolds

LEMMA Invariant == Spec => []Inv
BY InitInv, NextInv, PTL DEF Spec

\* What findConflicts has accepted at a path is still true of it when the run
\* lands there, whatever others do, unless the run's history says otherwise.
THEOREM ChecksCorrect == Spec => []ChecksHold
<1>1. Inv => ChecksHold
  BY DEF Inv
<1> QED BY <1>1, Invariant, PTL

\* What the verifying walk has read of a path is still true of it, whatever
\* others do, unless the run's history says otherwise.
THEOREM WalkCorrect == Spec => []WalkHolds
<1>1. Inv => WalkHolds
  BY DEF Inv
<1> QED BY <1>1, Invariant, PTL

-----------------------------------------------------------------------------
(* The action properties.                                                   *)

\* A landing step destroys only what its bundle expects, what it was forced
\* over, or what others put there after the check.
LEMMA LandingLoss ==
  ASSUME Inv, NEW p \in Proc, Rename(p) \/ Delete(p) \/ Prune(p),
         NEW x \in Path, Destroyed(x)
  PROVE  \/ Expected(run[p].bundle, x, tree[x])
         \/ run[p].opt.force /\ x \in run[p].conflicts
         \/ x \in late[p]
<1>1. /\ tree \in Trees /\ ChecksHoldFor(p)
      /\ tree[x] \in Entry \cup {Special} /\ tree'[x] # tree[x]
      /\ pc[p] \in {"rename", "delete", "prune"}
  BY DEF Inv, TypeOK, TreeOK, ChecksHold, Destroyed, Rename, Delete, Prune
<1>2. run[p].todo \subseteq Touched(Changes(run[p].bundle))
      /\ (run[p].conflicts = {} \/ run[p].opt.force)
  BY <1>1 DEF ChecksHoldFor
<1>3. CASE x \in Touched(Changes(run[p].bundle))
  BY <1>1, <1>2, <1>3 DEF ChecksHoldFor
<1>4. CASE Rename(p) \/ Delete(p)
  <2>1. PICK y \in Least(run[p].todo) : \E n : tree' = [tree EXCEPT ![y] = n]
    BY <1>4 DEF Rename, Delete
  <2>2. x = y
    BY <1>1, <2>1 DEF Trees
  <2>3. x \in run[p].todo
    BY <2>1, <2>2, LeastSubset
  <2> QED BY <1>2, <1>3, <2>3
<1>5. CASE Prune(p)
  <2>1. x \in run[p].dirs /\ pc[p] = "prune"
    BY <1>1, <1>5 DEF Prune, Deepest, Trees
  <2>2. tree[x] \notin {Dir, Absent}
    BY <1>1, NodeAssumption
  <2> QED BY <1>1, <2>1, <2>2 DEF ChecksHoldFor
<1> QED BY <1>4, <1>5

\* No silent loss: local content is never destroyed by a run that has not
\* seen it, except in the window after its check, and never unreported.
THEOREM NoSilentLossHolds == Spec => NoSilentLoss
<1>1. Inv /\ [Next]_vars =>
        [\A p \in Proc :
           Rename(p) \/ Delete(p) \/ Prune(p) =>
             \A x \in Path : Destroyed(x) =>
               \/ Expected(run[p].bundle, x, tree[x])
               \/ run[p].opt.force /\ x \in run[p].conflicts
               \/ x \in late[p]]_vars
  BY LandingLoss
<1> QED BY <1>1, Invariant, PTL DEF Spec, NoSilentLoss

\* A run that says "verified" is right about the tree it leaves.
THEOREM VerifiedMeansEqualHolds == Spec => VerifiedMeansEqual
<1>1. ASSUME Inv, Next, NEW p \in Proc, pc[p] = "walk", pc'[p] = "verified",
             NEW x \in Path \ late[p]
      PROVE  Read(tree, run[p].rules, x) = run[p].bundle.target[x]
  <2>0. WalkHoldsFor(p) /\ pc \in [Proc -> Ended \cup Phase]
    BY <1>1 DEF Inv, WalkHolds, TypeOK, RunsOK
  <2>1. Compare(p)
    <3>1. ASSUME NEW q \in Proc, Start(q) \/ Die(q) PROVE FALSE
      BY <1>1, <2>0, <3>1 DEF Start, RefuseCursor, RefuseContinuity, Begin, Die,
                              End, Idle
    <3>2. ASSUME NEW y \in Path, NEW n \in EditNodes,
                 LocalEdit(y, n)
          PROVE  FALSE
      BY <1>1, <3>2 DEF LocalEdit
    <3>3. ~ LoseStateDir
      BY <1>1 DEF LoseStateDir
    <3>4. PICK q \in Proc : Step(q)
      BY <1>1, <3>1, <3>2, <3>3 DEF Next
    <3>5. ASSUME ~ Compare(q) PROVE pc'[p] # "verified"
      BY <1>1, <2>0, <3>4, <3>5
         DEF Step, End, Loop, CheckPath, CheckBlocked, RefuseConflicts,
             FinishDryRun, Stage, StatParents, MkdirBlocked, MkdirParent,
             MkdirFails, Rename, RenameFails, StartDeletes, Delete, DeleteFails, Prune, StopPrune,
             Truncate, Write, LoadRules, BadRules, ListRoot, WalkDir,
             StatFile, HashFile, WalkFails, Walked
    <3>6. q = p
      BY <1>1, <2>0, <3>5 DEF Compare, End
    <3> QED BY <1>1, <3>5, <3>6
  <2>2. /\ run[p].todo = {} /\ run[p].dirs = {}
        /\ run[p].got = run[p].bundle.target
    BY <1>1, <2>0, <2>1 DEF Compare, Walked, End
  <2> QED BY <1>1, <2>0, <2>2 DEF WalkHoldsFor, Pending
<1>2. Inv /\ [Next]_vars =>
        [\A p \in Proc : pc[p] = "walk" /\ pc'[p] = "verified" =>
           \A x \in Path \ late[p] :
             Read(tree, run[p].rules, x) = run[p].bundle.target[x]]_vars
  BY <1>1
<1> QED BY <1>2, Invariant, PTL DEF Spec, VerifiedMeansEqual
=============================================================================
