----------------------------- MODULE ApplyProofs ----------------------------
(* Proofs about Apply for every universe of paths, every set of bundles,    *)
(* any number of processes and any number of edits and deaths.              *)
EXTENDS Apply, TreeProofs

USE DEF Ended, Landing, Phase

-----------------------------------------------------------------------------
(* The locals of the runs.                                                  *)

\* A process that ends its run forgets its locals.
LEMMA EndKeepsRuns ==
  ASSUME RunsOK, NEW p \in Proc, NEW result \in Ended, End(p, result)
  PROVE  RunsOK'
BY DEF RunsOK, End

\* A process that goes on has well-typed locals.
LEMMA StepKeepsRuns ==
  ASSUME RunsOK, NEW p \in Proc, NEW ph \in Phase, NEW r \in Run,
         pc' = [pc EXCEPT ![p] = ph],
         run' = [run EXCEPT ![p] = r],
         late' \in [Proc -> SUBSET Path]
  PROVE  RunsOK'
BY DEF RunsOK

\* What Notice adds are paths.
LEMMA NoticeType ==
  ASSUME RunsOK, NEW p \in Proc, Notice(p)
  PROVE  late' \in [Proc -> SUBSET Path]
BY DEF RunsOK, Notice

\* What findConflicts looks at next is still to be looked at.
LEMMA CheckNextSubset ==
  ASSUME NEW c, NEW S PROVE CheckNext(c, S) \subseteq S
BY DEF CheckNext, Least

-----------------------------------------------------------------------------
(* TypeOK.                                                                  *)

LEMMA InitType == Init => TypeOK
<1> SUFFICES ASSUME Init PROVE TypeOK
  OBVIOUS
<1>1. TreeOK
  BY DEF Init, TreeOK, Trees, Node, WellFormed
<1>2. CursorOK
  BY DEF Init, CursorOK
<1>3. RunsOK
  BY DEF Init, RunsOK
<1>4. CountsOK
  BY BoundsAssumption DEF Init, CountsOK
<1> QED BY <1>1, <1>2, <1>3, <1>4 DEF TypeOK

\* The tree stays one a file system can hold.
LEMMA NextTree == TypeOK /\ [Next]_vars => TreeOK'
<1> SUFFICES ASSUME TypeOK, Next, tree' # tree PROVE TreeOK'
  BY DEF TypeOK, TreeOK, vars
<1>1. tree \in Trees /\ WellFormed(tree)
  BY DEF TypeOK, TreeOK
<1>2. ASSUME NEW p \in Proc, MkdirParent(p) PROVE TreeOK'
  <2>1. run[p].dirs \subseteq Path
    BY <1>2 DEF MkdirParent, TypeOK, RunsOK, Run
  <2>2. PICK y \in Topmost(run[p].dirs) :
          CanMkdir(y) /\ tree' = [tree EXCEPT ![y] = Dir]
    BY <1>2 DEF MkdirParent
  <2>3. y \in Path /\ Dir \in Node
    BY <2>1, <2>2 DEF Topmost, Node
  <2>4. CASE tree[y] = Dir
    BY <1>1, <2>2, <2>4 DEF TreeOK, Trees
  <2>5. CASE tree[y] # Dir
    BY <1>1, <2>2, <2>3, <2>5, PutKeepsTree DEF TreeOK, CanMkdir
  <2> QED BY <2>4, <2>5
<1>3. ASSUME NEW p \in Proc, Rename(p) PROVE TreeOK'
  <2>1. run[p].todo \subseteq Path /\ run[p].bundle.target \in Snapshots
    BY <1>3, BundlesAssumption DEF Rename, TypeOK, RunsOK, Run, Bundle
  <2>2. PICK x \in Least(run[p].todo) :
          CanRename(x) /\ tree' = [tree EXCEPT ![x] = run[p].bundle.target[x]]
    BY <1>3 DEF Rename
  <2>3. x \in Path
    BY <2>1, <2>2, LeastSubset
  <2>4. run[p].bundle.target[x] \in Node
    BY <2>1, <2>3, SnapshotNodes
  <2> QED BY <1>1, <2>2, <2>3, <2>4, PutKeepsTree DEF TreeOK, CanRename
<1>4. ASSUME NEW p \in Proc, Delete(p) PROVE TreeOK'
  <2>1. run[p].todo \subseteq Path
    BY <1>4 DEF Delete, TypeOK, RunsOK, Run
  <2>2. PICK x \in Least(run[p].todo) :
          CanDelete(x) /\ tree' = [tree EXCEPT ![x] = Absent]
    BY <1>4 DEF Delete
  <2>3. x \in Path /\ Absent \in Node
    BY <2>1, <2>2, LeastSubset DEF Node
  <2>4. tree[x] = Dir => Childless(tree, x)
    BY <2>2, NodeAssumption DEF CanDelete, Removable
  <2> QED BY <1>1, <2>2, <2>3, <2>4, PutKeepsTree DEF TreeOK
<1>5. ASSUME NEW p \in Proc, Prune(p) PROVE TreeOK'
  <2>1. run[p].dirs \subseteq Path
    BY <1>5 DEF Prune, TypeOK, RunsOK, Run
  <2>2. PICK y \in Deepest(run[p].dirs) :
          Removable(tree, y) /\ tree' = [tree EXCEPT ![y] = Absent]
    BY <1>5 DEF Prune
  <2>3. y \in Path /\ Absent \in Node
    BY <2>1, <2>2 DEF Deepest, Node
  <2> QED BY <1>1, <2>2, <2>3, PutKeepsTree DEF TreeOK, Removable
<1>6. ASSUME NEW x \in Path, NEW n \in EditNodes, LocalEdit(x, n) PROVE TreeOK'
  BY <1>1, <1>6, EditAssumption, PutKeepsTree DEF TreeOK, LocalEdit
<1>7. ASSUME NEW p \in Proc, Start(p) \/ Die(p) PROVE FALSE
  BY <1>7 DEF Start, RefuseCursor, RefuseContinuity, Begin, Die
<1>8. ASSUME LoseStateDir PROVE FALSE
  BY <1>8 DEF LoseStateDir
<1>9. ASSUME NEW p \in Proc, Step(p) PROVE TreeOK'
  BY <1>2, <1>3, <1>4, <1>5, <1>9
     DEF Step, CheckPath, CheckBlocked, RefuseConflicts, FinishDryRun, Stage,
         StatParents, MkdirBlocked, MkdirFails, RenameFails, StartDeletes,
         DeleteFails, StopPrune,
         Truncate, Write, LoadRules, BadRules, ListRoot,
         WalkDir, StatFile, HashFile, WalkFails, Walked, Compare
<1> QED BY <1>6, <1>7, <1>8, <1>9 DEF Next

\* cursor.json holds a target, or nothing that can be read.
LEMMA NextCursor == TypeOK /\ [Next]_vars => CursorOK'
<1> SUFFICES ASSUME TypeOK, Next, cursorFile' # cursorFile PROVE CursorOK'
  BY DEF TypeOK, CursorOK, vars
<1>1. ASSUME NEW p \in Proc, Truncate(p) PROVE CursorOK'
  BY <1>1 DEF Truncate, CursorOK
<1>2. ASSUME NEW p \in Proc, Write(p) PROVE CursorOK'
  <2>1. run[p].bundle.target \in Snapshots
    BY <1>2, BundlesAssumption DEF Write, TypeOK, RunsOK, Run, Bundle
  <2> QED BY <1>2, <2>1 DEF Write, CursorOK
<1>3. ASSUME LoseStateDir PROVE CursorOK'
  BY <1>3 DEF LoseStateDir, CursorOK
<1>4. ASSUME NEW p \in Proc, Start(p) \/ Die(p) PROVE FALSE
  BY <1>4 DEF Start, RefuseCursor, RefuseContinuity, Begin, Die
<1>5. ASSUME NEW x \in Path, NEW n \in EditNodes, LocalEdit(x, n) PROVE FALSE
  BY <1>5 DEF LocalEdit
<1>6. ASSUME NEW p \in Proc, Step(p) PROVE CursorOK'
  BY <1>1, <1>2, <1>6
     DEF Step, CheckPath, CheckBlocked, RefuseConflicts, FinishDryRun, Stage,
         StatParents, MkdirBlocked, MkdirParent, MkdirFails, Rename, RenameFails,
         StartDeletes,
         Delete, DeleteFails, Prune, StopPrune,
         LoadRules, BadRules, ListRoot,
         WalkDir, StatFile, HashFile, WalkFails, Walked, Compare
<1> QED BY <1>3, <1>4, <1>5, <1>6 DEF Next

\* The counters stay within their bounds.
LEMMA NextCounts == TypeOK /\ [Next]_vars => CountsOK'
<1> SUFFICES ASSUME TypeOK, [Next]_vars PROVE CountsOK'
  OBVIOUS
<1>1. edits \in 0..MaxEdits /\ deaths \in 0..MaxDeaths
      /\ MaxEdits \in Nat /\ MaxDeaths \in Nat
  BY BoundsAssumption DEF TypeOK, CountsOK
<1>2. CASE UNCHANGED vars
  BY <1>1, <1>2 DEF vars, CountsOK
<1>3. ASSUME NEW p \in Proc, Start(p) PROVE CountsOK'
  BY <1>1, <1>3 DEF Start, RefuseCursor, RefuseContinuity, Begin, CountsOK
<1>4. ASSUME NEW p \in Proc, Die(p) PROVE CountsOK'
  BY <1>1, <1>4 DEF Die, CountsOK
<1>5. ASSUME NEW x \in Path, NEW n \in EditNodes, LocalEdit(x, n) PROVE CountsOK'
  BY <1>1, <1>5 DEF LocalEdit, CountsOK
<1>6. ASSUME LoseStateDir PROVE CountsOK'
  BY <1>1, <1>6 DEF LoseStateDir, CountsOK
<1>7. ASSUME NEW p \in Proc, Step(p) PROVE UNCHANGED <<edits, deaths>>
  BY <1>7
     DEF Step, CheckPath, CheckBlocked, RefuseConflicts, FinishDryRun, Stage,
         StatParents, MkdirBlocked, MkdirParent, MkdirFails, Rename, RenameFails,
         StartDeletes,
         Delete, DeleteFails, Prune, StopPrune, Truncate, Write,
         LoadRules, BadRules, ListRoot,
         WalkDir, StatFile, HashFile, WalkFails, Walked, Compare
<1> QED BY <1>1, <1>2, <1>3, <1>4, <1>5, <1>6, <1>7 DEF Next, CountsOK

\* A run in progress has well-typed locals.
LEMMA RunType ==
  ASSUME RunsOK, NEW p \in Proc, pc[p] \in Phase
  PROVE  /\ run[p] \in Run
         /\ run[p].todo \subseteq Path /\ run[p].dirs \subseteq Path
         /\ run[p].conflicts \subseteq Path /\ run[p].got \in Snapshots
         /\ late[p] \subseteq Path
BY DEF RunsOK, Run

\* Every action leaves each process between runs, or with well-typed locals.
LEMMA NextRuns == TypeOK /\ [Next]_vars => RunsOK'
<1> SUFFICES ASSUME TypeOK, [Next]_vars PROVE RunsOK'
  OBVIOUS
<1>0. RunsOK /\ tree \in Trees
  BY DEF TypeOK, TreeOK
<1>1. CASE UNCHANGED vars
  BY <1>0, <1>1 DEF vars, RunsOK
<1>2. ASSUME NEW p \in Proc, NEW b \in Bundles, NEW o \in Options, Begin(p, b, o)
      PROVE  RunsOK'
  <2> DEFINE r == [bundle |-> b, opt |-> o, todo |-> Touched(Changes(b)),
                   dirs |-> {}, conflicts |-> {}, rules |-> NoRules,
                   got |-> EmptySnapshot, exec |-> FALSE]
  <2>1. Touched(Changes(b)) \subseteq Path
    BY TouchedType
  <2>2. NoRules \in Rules /\ EmptySnapshot \in Snapshots
    BY DEF NoRules, Rules, EmptySnapshot, Snapshots
  <2>3. r \in Run
    BY <2>1, <2>2 DEF Run
  <2>4. pc' = [pc EXCEPT ![p] = "check"] /\ run' = [run EXCEPT ![p] = r]
        /\ late' \in [Proc -> SUBSET Path]
    BY <1>0, <1>2 DEF Begin, RunsOK
  <2> QED BY <1>0, <2>3, <2>4, StepKeepsRuns
<1>3. ASSUME NEW p \in Proc, Start(p) PROVE RunsOK'
  BY <1>0, <1>2, <1>3, EndKeepsRuns DEF Start, RefuseCursor, RefuseContinuity
<1>4. ASSUME NEW p \in Proc, Die(p) PROVE RunsOK'
  BY <1>0, <1>4, EndKeepsRuns DEF Die
<1>5. ASSUME NEW x \in Path, NEW n \in EditNodes, LocalEdit(x, n) PROVE RunsOK'
  BY <1>0, <1>5 DEF LocalEdit, RunsOK
<1>6. ASSUME LoseStateDir PROVE RunsOK'
  BY <1>0, <1>6 DEF LoseStateDir, RunsOK
<1>7. ASSUME NEW p \in Proc, Step(p) PROVE RunsOK'
  <2>0. pc[p] \in Phase
    BY <1>7
       DEF Step, CheckPath, CheckBlocked, Checked, RefuseConflicts,
           FinishDryRun, Stage, StatParents, MkdirBlocked, MkdirParent,
           MkdirFails, Rename, RenameFails, StartDeletes, Delete, DeleteFails, Prune, StopPrune,
           Truncate, Write, LoadRules, BadRules, ListRoot,
         WalkDir, StatFile, HashFile, WalkFails, Walked, Compare
  <2>a. /\ run[p] \in Run
        /\ run[p].todo \subseteq Path /\ run[p].dirs \subseteq Path
        /\ run[p].conflicts \subseteq Path /\ run[p].got \in Snapshots
        /\ late[p] \subseteq Path
        /\ pc = [pc EXCEPT ![p] = pc[p]] /\ run = [run EXCEPT ![p] = run[p]]
        /\ late \in [Proc -> SUBSET Path]
    BY <1>0, <2>0, RunType DEF RunsOK
  <2>1. CASE CheckPath(p)
    <3>1. PICK x \in CheckNext(Changes(run[p].bundle), run[p].todo) :
            /\ run' = [run EXCEPT
                         ![p].todo = @ \ {x},
                         ![p].conflicts =
                           IF Conflicting(run[p].bundle, tree, x)
                           THEN @ \cup {x} ELSE @]
            /\ late' = [late EXCEPT ![p] = @ \ {x}]
      BY <2>1 DEF CheckPath
    <3> DEFINE r == [run[p] EXCEPT
                       !.todo = @ \ {x},
                       !.conflicts = IF Conflicting(run[p].bundle, tree, x)
                                     THEN @ \cup {x} ELSE @]
    <3>2. x \in Path
      BY <3>1, <2>a, CheckNextSubset
    <3>3. r \in Run
      BY <2>a, <3>2 DEF Run
    <3>4. run' = [run EXCEPT ![p] = r] /\ pc' = [pc EXCEPT ![p] = pc[p]]
          /\ late' \in [Proc -> SUBSET Path]
      BY <1>0, <2>1, <2>a, <3>1 DEF CheckPath, RunsOK
    <3> QED BY <1>0, <2>0, <3>3, <3>4, StepKeepsRuns
  <2>2. CASE Stage(p)
    <3> DEFINE S == PayloadFiles(Changes(run[p].bundle))
    <3>1. [run[p] EXCEPT !.todo = S] \in Run
      BY <2>a, TouchedType DEF Run
    <3>2. pc' = [pc EXCEPT ![p] = "mkdir"]
          /\ run' = [run EXCEPT ![p] = [run[p] EXCEPT !.todo = S]]
          /\ late' \in [Proc -> SUBSET Path]
      BY <2>2, <2>a DEF Stage, Loop, RunsOK
    <3> QED BY <1>0, <3>1, <3>2, StepKeepsRuns
  <2>3. CASE StatParents(p)
    <3>1. PICK x \in Least(run[p].todo) :
            run' = [run EXCEPT ![p].dirs = {y \in Anc[x] : tree[y] = Absent}]
      BY <2>3 DEF StatParents
    <3>2. Anc[x] \subseteq Path
      BY <3>1, <2>a, LeastSubset, AncAssumption
    <3>3. [run[p] EXCEPT !.dirs = {y \in Anc[x] : tree[y] = Absent}] \in Run
      BY <2>a, <3>2 DEF Run
    <3>4. pc' = [pc EXCEPT ![p] = "rename"] /\ late' \in [Proc -> SUBSET Path]
      BY <2>3, <2>a DEF StatParents
    <3> QED BY <1>0, <3>1, <3>3, <3>4, StepKeepsRuns
  <2>16. CASE MkdirParent(p)
    <3>1. PICK y \in Topmost(run[p].dirs) : run' = [run EXCEPT ![p].dirs = @ \ {y}]
      BY <2>16 DEF MkdirParent
    <3>2. [run[p] EXCEPT !.dirs = @ \ {y}] \in Run
      BY <2>a DEF Run
    <3>3. late' \in [Proc -> SUBSET Path]
      BY <1>0, <2>16, NoticeType DEF MkdirParent
    <3>4. pc' = [pc EXCEPT ![p] = pc[p]]
      BY <2>16, <2>a DEF MkdirParent
    <3> QED BY <1>0, <2>0, <3>1, <3>2, <3>3, <3>4, StepKeepsRuns
  <2>4. CASE Rename(p)
    <3>1. PICK x \in Least(run[p].todo) : Loop(p, "mkdir", run[p].todo \ {x})
      BY <2>4 DEF Rename
    <3>2. [run[p] EXCEPT !.todo = run[p].todo \ {x}] \in Run
      BY <2>a DEF Run
    <3>3. late' \in [Proc -> SUBSET Path]
      BY <1>0, <2>4, NoticeType DEF Rename
    <3> QED BY <1>0, <3>1, <3>2, <3>3, StepKeepsRuns DEF Loop
  <2>5. CASE StartDeletes(p)
    <3> DEFINE S == Changes(run[p].bundle).deleted
    <3>1. [run[p] EXCEPT !.todo = S] \in Run
      BY <2>a, TouchedType DEF Run
    <3>2. pc' = [pc EXCEPT ![p] = "delete"]
          /\ run' = [run EXCEPT ![p] = [run[p] EXCEPT !.todo = S]]
          /\ late' \in [Proc -> SUBSET Path]
      BY <2>5, <2>a DEF StartDeletes, Loop, RunsOK
    <3> QED BY <1>0, <3>1, <3>2, StepKeepsRuns
  <2>6. CASE Delete(p)
    <3>1. PICK x \in Least(run[p].todo) :
            run' = [run EXCEPT ![p].todo = @ \ {x}, ![p].dirs = Anc[x]]
      BY <2>6 DEF Delete
    <3>2. x \in Path /\ Anc[x] \subseteq Path
      BY <3>1, <2>a, LeastSubset, AncAssumption
    <3> DEFINE r == [run[p] EXCEPT !.todo = @ \ {x}, !.dirs = Anc[x]]
    <3>3. r \in Run
      BY <2>a, <3>2 DEF Run
    <3>4. run' = [run EXCEPT ![p] = r] /\ pc' = [pc EXCEPT ![p] = "prune"]
      BY <1>0, <2>6, <2>a, <3>1 DEF Delete, RunsOK
    <3>5. late' \in [Proc -> SUBSET Path]
      BY <1>0, <2>6, NoticeType DEF Delete
    <3> QED BY <1>0, <3>3, <3>4, <3>5, StepKeepsRuns
  <2>7. CASE Prune(p)
    <3>1. PICK y \in Deepest(run[p].dirs) : run' = [run EXCEPT ![p].dirs = @ \ {y}]
      BY <2>7 DEF Prune
    <3>2. [run[p] EXCEPT !.dirs = @ \ {y}] \in Run
      BY <2>a DEF Run
    <3>3. late' \in [Proc -> SUBSET Path]
      BY <1>0, <2>7, NoticeType DEF Prune
    <3>4. pc' = [pc EXCEPT ![p] = pc[p]]
      BY <2>7, <2>a DEF Prune
    <3> QED BY <1>0, <2>0, <3>1, <3>2, <3>3, <3>4, StepKeepsRuns
  <2>8. CASE StopPrune(p)
    <3>1. [run[p] EXCEPT !.dirs = {}] \in Run
      BY <2>a DEF Run
    <3>2. pc' = [pc EXCEPT ![p] = "delete"]
          /\ run' = [run EXCEPT ![p] = [run[p] EXCEPT !.dirs = {}]]
          /\ late' \in [Proc -> SUBSET Path]
      BY <2>8, <2>a DEF StopPrune
    <3> QED BY <1>0, <3>1, <3>2, StepKeepsRuns
  <2>9. CASE Truncate(p)
    BY <1>0, <2>9, <2>a, StepKeepsRuns DEF Truncate
  <2>10. CASE Write(p)
    <3>1. CASE run[p].opt.noVerify
      BY <1>0, <2>10, <3>1, EndKeepsRuns DEF Write
    <3>2. CASE ~ run[p].opt.noVerify
      BY <1>0, <2>10, <2>a, <3>2, StepKeepsRuns DEF Write
    <3> QED BY <3>1, <3>2
  <2>11. CASE LoadRules(p)
    <3> DEFINE r == [run[p] EXCEPT !.rules = LoadedRules]
    <3>1. LoadedRules \in Rules
      <4>1. CASE tree[IgnoreFile] = Absent
        BY <4>1 DEF LoadedRules, NoRules, Rules
      <4>2. CASE tree[IgnoreFile] # Absent
        <5>1. tree[IgnoreFile] \in Entry
          BY <2>11, <4>2 DEF LoadRules, LoadedRules
        <5>2. tree[IgnoreFile].sha \in Sha
          BY <5>1 DEF Entry
        <5> QED BY <2>11, <4>2, <5>1, <5>2, RulesAssumption
               DEF LoadRules, LoadedRules
      <4> QED BY <4>1, <4>2
    <3>2. r \in Run
      BY <2>a, <3>1 DEF Run
    <3>3. run' = [run EXCEPT ![p] = r] /\ pc' = [pc EXCEPT ![p] = "list"]
          /\ late' \in [Proc -> SUBSET Path]
      BY <1>0, <2>11, <2>a DEF LoadRules, RunsOK
    <3> QED BY <1>0, <3>2, <3>3, StepKeepsRuns
  <2>12. CASE ListRoot(p)
    <3> DEFINE F == ListedFiles(tree, run[p].rules, TopLevel)
               D == ListedDirs(tree, run[p].rules, TopLevel)
               r == [run[p] EXCEPT !.todo = F, !.dirs = D, !.got = EmptySnapshot]
    <3>1. F \subseteq Path /\ D \subseteq Path /\ EmptySnapshot \in Snapshots
      BY ListedType DEF TopLevel, EmptySnapshot, Snapshots
    <3>2. r \in Run
      BY <2>a, <3>1 DEF Run
    <3>3. run' = [run EXCEPT ![p] = r] /\ pc' = [pc EXCEPT ![p] = "walk"]
          /\ late' \in [Proc -> SUBSET Path]
      BY <1>0, <2>12, <2>a DEF ListRoot, RunsOK
    <3> QED BY <1>0, <3>2, <3>3, StepKeepsRuns
  <2>14. CASE WalkDir(p)
    <3>1. PICK d \in Visited(p) \cap run[p].dirs :
            /\ run' = [run EXCEPT
                 ![p].todo = @ \cup ListedFiles(tree, run[p].rules, Children(d)),
                 ![p].dirs = (@ \ {d})
                               \cup ListedDirs(tree, run[p].rules, Children(d))]
            /\ late' = [late EXCEPT ![p] = @ \ ({d} \cup {x \in Path : d \in Anc[x]})]
      BY <2>14 DEF WalkDir
    <3> DEFINE F == ListedFiles(tree, run[p].rules, Children(d))
               D == ListedDirs(tree, run[p].rules, Children(d))
               r == [run[p] EXCEPT !.todo = @ \cup F, !.dirs = (@ \ {d}) \cup D]
    <3>2. F \subseteq Path /\ D \subseteq Path
      BY ListedType DEF Children
    <3>3. r \in Run
      BY <2>a, <3>2 DEF Run
    <3>4. run' = [run EXCEPT ![p] = r] /\ pc' = [pc EXCEPT ![p] = pc[p]]
      BY <2>14, <2>a, <3>1 DEF WalkDir
    <3>5. late' \in [Proc -> SUBSET Path]
      BY <2>a, <3>1
    <3> QED BY <1>0, <2>0, <3>3, <3>4, <3>5, StepKeepsRuns
  <2>15. CASE StatFile(p)
    <3>1. PICK x \in Visited(p) \cap run[p].todo : \E bit \in Bits(tree[x]) :
            /\ run' = [run EXCEPT ![p].exec = bit]
            /\ late' = [late EXCEPT ![p] = @ \ {x}]
      BY <2>15 DEF StatFile
    <3>2. PICK bit \in Bits(tree[x]) : run' = [run EXCEPT ![p].exec = bit]
      BY <3>1
    <3>3. [run[p] EXCEPT !.exec = bit] \in Run
      BY <2>a, <3>2, BitsType DEF Run
    <3>4. pc' = [pc EXCEPT ![p] = "hash"] /\ late' \in [Proc -> SUBSET Path]
      BY <2>15, <2>a, <3>1 DEF StatFile
    <3> QED BY <1>0, <3>2, <3>3, <3>4, StepKeepsRuns
  <2>17. CASE HashFile(p)
    <3>1. PICK x \in Visited(p) \cap run[p].todo :
            /\ tree[x] \in Entry
            /\ run' = [run EXCEPT
                 ![p].todo = @ \ {x}, ![p].exec = FALSE,
                 ![p].got =
                   [@ EXCEPT ![x] = [sha |-> tree[x].sha, exec |-> run[p].exec]]]
      BY <2>17 DEF HashFile
    <3> DEFINE e == [sha |-> tree[x].sha, exec |-> run[p].exec]
               g == [run[p].got EXCEPT ![x] = e]
               r == [run[p] EXCEPT !.todo = @ \ {x}, !.exec = FALSE, !.got = g]
    <3>2. e \in Entry
      BY <2>a, <3>1, HashedEntry DEF Run
    <3>3. g \in Snapshots
      BY <2>a, <3>1, <3>2 DEF Snapshots
    <3>4. r \in Run
      BY <2>a, <3>3 DEF Run
    <3>5. run' = [run EXCEPT ![p] = r] /\ pc' = [pc EXCEPT ![p] = "walk"]
          /\ late' \in [Proc -> SUBSET Path]
      BY <2>17, <2>a, <3>1 DEF HashFile
    <3> QED BY <1>0, <3>4, <3>5, StepKeepsRuns
  <2>13. CASE \/ CheckBlocked(p) \/ RefuseConflicts(p) \/ FinishDryRun(p)
              \/ MkdirBlocked(p) \/ MkdirFails(p) \/ RenameFails(p)
              \/ DeleteFails(p) \/ BadRules(p) \/ WalkFails(p) \/ Compare(p)
    <3>1. \E result \in Ended : End(p, result)
      BY <2>13 DEF CheckBlocked, RefuseConflicts, FinishDryRun, MkdirBlocked,
                   MkdirFails, RenameFails, DeleteFails, BadRules, WalkFails, Compare
    <3> QED BY <1>0, <3>1, EndKeepsRuns
  <2> QED BY <1>7, <2>1, <2>2, <2>3, <2>4, <2>5, <2>6, <2>7, <2>8, <2>9,
             <2>10, <2>11, <2>12, <2>13, <2>14, <2>15, <2>16, <2>17 DEF Step
<1> QED BY <1>1, <1>3, <1>4, <1>5, <1>6, <1>7 DEF Next

LEMMA NextType == TypeOK /\ [Next]_vars => TypeOK'
BY NextTree, NextCursor, NextRuns, NextCounts DEF TypeOK

\* Type correctness: also after every failed or half-finished run the
\* destination is a tree, whatever runs and users do to it meanwhile.
THEOREM TypeCorrect == Spec => []TypeOK
<1>1. Init => TypeOK
  BY InitType
<1>2. TypeOK /\ [Next]_vars => TypeOK'
  BY NextType
<1> QED BY <1>1, <1>2, PTL DEF Spec
=============================================================================
