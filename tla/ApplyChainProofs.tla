-------------------------- MODULE ApplyChainProofs --------------------------
(* One run of Apply at a time on a chain of bundles, never forced, on a     *)
(* tree nobody edits: retries are safe wherever the runs before them died,  *)
(* the cursor never runs ahead of the tree, and the runs implement Mirror.  *)
(* At the end: bundles apply in order, for one run at a time on any bundles *)
(* and a tree that is edited.                                               *)
EXTENDS ApplySafetyProofs

USE DEF Ended, Landing, Phase

\* The files of the destination.
Here == Take(tree, NoRules)

\* The paths that are a file in some state, and those above them.
Filed == {x \in Path : \E s \in States : s[x] # Absent}
Above == UNION {Anc[x] : x \in Filed}

\* The tree holds files where states do, and directories above them only.
KindsHold ==
  \A x \in Path : \/ tree[x] = Absent
                  \/ tree[x] \in Entry /\ x \in Filed
                  \/ tree[x] = Dir /\ x \in Above

\* How far a run has got, and what of its bundle is in the tree by then.
ProgressFor(p) ==
  LET r == run[p]
      b == r.bundle
      payload == PayloadFiles(Changes(b))
      deleted == Changes(b).deleted
  IN  /\ pc[p] \in {"check"} \cup Landing =>
           Readable /\ Cursor = b.base /\ r.conflicts = {} /\ ~ r.opt.force
      /\ pc[p] \in {"mkdir", "rename"} =>
           r.todo \subseteq payload /\ \A x \in payload \ r.todo : tree[x] = b.target[x]
      /\ pc[p] = "rename" =>
           \E x \in Least(r.todo) :
             /\ r.dirs \subseteq Anc[x]
             /\ \A y \in Anc[x] : tree[y] = Dir \/ (y \in r.dirs /\ tree[y] = Absent)
      /\ pc[p] \in {"delete", "prune"} =>
           /\ r.todo \subseteq deleted
           /\ \A x \in payload : tree[x] = b.target[x]
           /\ \A x \in deleted \ r.todo : tree[x] = Absent
      /\ pc[p] = "write" => cursorFile = Truncated
      /\ pc[p] \in {"rules", "list", "walk", "hash"} => cursorFile = b.target
      /\ pc[p] \in {"write", "rules", "list", "walk", "hash"} => Here = b.target
      /\ pc[p] \in {"list", "walk", "hash"} => r.rules = RulesOfState(b.target)
      /\ pc[p] \in {"walk", "hash"} => /\ \A x \in r.todo : tree[x] \in Entry
                                     /\ \A d \in r.dirs : tree[d] = Dir
      /\ pc[p] = "hash" => Upcoming(r.todo \cup r.dirs) \subseteq r.todo
      /\ late[p] = {}

Progress == \A p \in Proc : ProgressFor(p)

ChainInv == Inv /\ KindsHold /\ Progress /\ CursorHonest /\ RetrySafe

-----------------------------------------------------------------------------
(* Trees of a chain that keeps kinds.                                       *)

\* The files of a tree.
LEMMA TakeIs ==
  ASSUME NEW t \in Trees
  PROVE  /\ Take(t, NoRules) \in Snapshots
         /\ \A x \in Path :
              /\ Take(t, NoRules)[x] = IF t[x] \in Entry THEN t[x] ELSE Absent
              /\ Read(t, NoRules, x) = Take(t, NoRules)[x]
BY DEF Take, Read, Ignored, NoRules, Snapshots

\* The two states of a bundle.
LEMMA BundleStates ==
  ASSUME NEW b \in Bundles
  PROVE  /\ b.base \in States /\ b.target \in States
         /\ b.base \in Snapshots /\ b.target \in Snapshots
BY BundlesAssumption DEF States, Bundle

\* What a bundle touches is a file in one of its states.
LEMMA TouchedFiled ==
  ASSUME NEW b \in Bundles
  PROVE  Touched(Changes(b)) \subseteq Filed
BY BundleStates DEF Touched, PayloadFiles, Changes, Compute, Filed

\* No path is a file in one state and a directory in another.
LEMMA FiledApart ==
  ASSUME KeepsKinds
  PROVE  /\ Filed \cap Above = {}
         /\ \A x \in Filed : x \in Path /\ Anc[x] \subseteq Above
<1>1. ASSUME NEW x \in Filed, x \in Above PROVE FALSE
  <2>1. PICK s \in States : s[x] # Absent /\ x \in Path
    BY DEF Filed
  <2>2. PICK z \in Filed : x \in Anc[z]
    BY <1>1 DEF Above
  <2>3. PICK t \in States : t[z] # Absent /\ z \in Path
    BY <2>2 DEF Filed
  <2> QED BY <2>1, <2>2, <2>3 DEF KeepsKinds
<1>2. \A x \in Filed : x \in Path /\ Anc[x] \subseteq Above
  BY DEF Filed, Above
<1> QED BY <1>1, <1>2

\* Nothing is in the way of a path that is a file in some state.
LEMMA FiledFree ==
  ASSUME KeepsKinds, KindsHold, NEW x \in Filed
  PROVE  /\ x \in Path /\ tree[x] \in Entry \cup {Absent}
         /\ \A y \in Anc[x] : y \in Path /\ tree[y] \in {Dir, Absent}
         /\ ~ Blocked(tree, x)
<1>1. x \in Path /\ x \notin Above /\ Anc[x] \subseteq Above /\ Anc[x] \subseteq Path
  BY FiledApart, AncAssumption
<1>2. \A y \in Anc[x] : y \notin Filed
  BY <1>1, FiledApart
<1> QED BY <1>1, <1>2 DEF KindsHold, Blocked

-----------------------------------------------------------------------------
(* Runs of a chain.                                                         *)

\* What the invariant is to be again after a step, besides Inv.
QuietStep == KindsHold' /\ Progress' /\ CursorHonest' /\ RetrySafe'

\* With one process, its progress is all there is.
LEMMA OneRun ==
  ASSUME QuietChain, NEW p \in Proc, ProgressFor(p)',
         pc'[p] \notin {"conflict", "mismatch"},
         pc'[p] = "error" => ~ Readable'
  PROVE  Progress' /\ RetrySafe'
<1>1. \A q \in Proc : q = p
  BY DEF QuietChain, Alone
<1> QED BY <1>1 DEF Progress, RetrySafe

\* A step that leaves the destination alone.
LEMMA NothingMoved ==
  ASSUME QuietChain, ChainInv, NEW p \in Proc, UNCHANGED <<tree, cursorFile>>,
         ProgressFor(p)', pc'[p] \notin {"conflict", "mismatch"},
         pc'[p] = "error" => ~ Readable
  PROVE  QuietStep
<1>1. Progress' /\ RetrySafe'
  <2>1. Readable' <=> Readable
    BY DEF Readable
  <2> QED BY <2>1, OneRun
<1>2. KindsHold'
  BY DEF ChainInv, KindsHold
<1>3. CursorHonest'
  BY DEF ChainInv, CursorHonest, Readable, Cursor
<1> QED BY <1>1, <1>2, <1>3 DEF QuietStep

\* A run that is over has made all the progress it will.
LEMMA EndedProgress ==
  ASSUME RunsOK, NEW p \in Proc, NEW result \in Ended, End(p, result)
  PROVE  ProgressFor(p)' /\ pc'[p] = result
<1>1. pc'[p] = result /\ late'[p] = {}
  BY DEF RunsOK, End
<1> QED BY <1>1 DEF ProgressFor

\* What is known of a run in progress.
LEMMA RunFacts ==
  ASSUME QuietChain, ChainInv, NEW p \in Proc
  PROVE  /\ TypeOK /\ RunsOK /\ tree \in Trees /\ WellFormed(tree)
         /\ pc \in [Proc -> Ended \cup Phase] /\ run \in [Proc -> Run \cup {NoRun}]
         /\ late \in [Proc -> SUBSET Path] /\ late[p] = {}
         /\ ProgressFor(p) /\ ChecksHoldFor(p) /\ WalkHoldsFor(p)
         /\ KeepsKinds /\ KindsHold /\ CursorHonest
         /\ pc[p] \in Phase => run[p] \in Run /\ run[p].bundle \in Bundles
BY RunType DEF ChainInv, Inv, TypeOK, RunsOK, TreeOK, ChecksHold, WalkHolds,
               Progress, ProgressFor, QuietChain, Run

\* Until a run saves its cursor every file is the one its bundle starts from
\* or the one it brings, whatever runs before it died where.
LEMMA Between ==
  ASSUME QuietChain, ChainInv, NEW p \in Proc, pc[p] \in {"check"} \cup Landing,
         NEW x \in Path
  PROVE  Here[x] \in {run[p].bundle.base[x], run[p].bundle.target[x]}
<1> DEFINE b == run[p].bundle
<1>1. b \in Bundles /\ Readable /\ Cursor = b.base /\ tree \in Trees
  BY RunFacts DEF ProgressFor
<1>2. PICK s \in {Cursor} \cup {c.target : c \in {d \in Bundles : d.base = Cursor}} :
        \A y \in Path : Read(tree, NoRules, y) \in {Cursor[y], s[y]}
  BY <1>1, RunFacts DEF CursorHonest
<1>3. s \in {b.base, b.target}
  BY <1>1, <1>2 DEF QuietChain, OneChain
<1> QED BY <1>1, <1>2, <1>3, TakeIs DEF Here

\* A tree between the states of a bundle bears the bundle's name.
LEMMA BetweenIsHonest ==
  ASSUME NEW b \in Bundles, Readable', Cursor' = b.base, tree' \in Trees,
         \A x \in Path : Here'[x] \in {b.base[x], b.target[x]}
  PROVE  CursorHonest'
<1>1. \A x \in Path : Read(tree', NoRules, x) \in {b.base[x], b.target[x]}
  BY TakeIs DEF Here
<1> QED BY <1>1 DEF CursorHonest

-----------------------------------------------------------------------------
(* The start of a run, and its checks.                                      *)

LEMMA StartQuiet ==
  ASSUME QuietChain, ChainInv, NEW p \in Proc, Start(p)
  PROVE  QuietStep
<1>0. /\ RunsOK /\ late[p] = {}
      /\ pc \in [Proc -> Ended \cup Phase] /\ run \in [Proc -> Run \cup {NoRun}]
  BY RunFacts
<1>1. PICK b \in Bundles, o \in Options :
        RefuseCursor(p, b, o) \/ RefuseContinuity(p, b, o) \/ Begin(p, b, o)
  BY DEF Start
<1>2. CASE RefuseCursor(p, b, o)
  BY <1>0, <1>2, EndedProgress, NothingMoved DEF RefuseCursor
<1>3. CASE RefuseContinuity(p, b, o)
  BY <1>0, <1>3, EndedProgress, NothingMoved DEF RefuseContinuity
<1>4. CASE Begin(p, b, o)
  <2>1. ~ o.force
    BY DEF QuietChain, Alone
  <2>2. /\ pc'[p] = "check" /\ late'[p] = {} /\ UNCHANGED <<tree, cursorFile>>
        /\ run'[p].bundle = b /\ run'[p].opt = o /\ run'[p].conflicts = {}
        /\ Readable /\ Cursor = b.base
    BY <1>0, <1>4, <2>1 DEF Begin
  <2>3. ProgressFor(p)'
    BY <2>1, <2>2 DEF ProgressFor, Readable, Cursor
  <2> QED BY <2>2, <2>3, NothingMoved
<1> QED BY <1>1, <1>2, <1>3, <1>4

\* What a run has touched or will touch never is a conflict.
LEMMA NeverConflicting ==
  ASSUME QuietChain, ChainInv, NEW p \in Proc, pc[p] \in {"check"} \cup Landing,
         NEW x \in Touched(Changes(run[p].bundle))
  PROVE  ~ Conflicting(run[p].bundle, tree, x) /\ ~ Blocked(tree, x)
<1> DEFINE b == run[p].bundle
<1>1. b \in Bundles /\ KeepsKinds /\ KindsHold /\ tree \in Trees
  BY RunFacts
<1>2. x \in Filed
  BY <1>1, TouchedFiled
<1>3. x \in Path /\ tree[x] \in Entry \cup {Absent} /\ ~ Blocked(tree, x)
  BY <1>1, <1>2, FiledFree
<1>4. Here[x] = tree[x]
  BY <1>1, <1>3, TakeIs DEF Here
<1>5. tree[x] \in {b.base[x], b.target[x]}
  BY <1>3, <1>4, Between
<1>6. CASE tree[x] = Absent
  <2>1. x \in Changes(b).modified => b.base[x] # Absent /\ b.target[x] # Absent
    BY DEF Changes, Compute
  <2> QED BY <1>3, <1>5, <1>6, <2>1 DEF Conflicting
<1>7. CASE tree[x] # Absent
  BY <1>3, <1>5, <1>7 DEF Conflicting, Expected
<1> QED BY <1>3, <1>6, <1>7

\* What findConflicts looks at belongs to the change set.
LEMMA CheckNextTouched ==
  ASSUME QuietChain, ChainInv, NEW p \in Proc, pc[p] = "check",
         NEW x \in CheckNext(Changes(run[p].bundle), run[p].todo)
  PROVE  x \in Touched(Changes(run[p].bundle))
<1>1. run[p].todo \subseteq Touched(Changes(run[p].bundle))
  BY RunFacts DEF ChecksHoldFor
<1> QED BY <1>1, CheckNextSubset

LEMMA CheckQuiet ==
  ASSUME QuietChain, ChainInv, NEW p \in Proc,
         \/ CheckPath(p) \/ CheckBlocked(p)
         \/ RefuseConflicts(p) \/ FinishDryRun(p) \/ Stage(p)
  PROVE  QuietStep
<1> DEFINE r == run[p]
           b == r.bundle
<1>1. pc[p] = "check"
  BY DEF CheckPath, CheckBlocked, RefuseConflicts, FinishDryRun, Stage, Checked
<1>2. /\ RunsOK /\ late[p] = {} /\ r \in Run
      /\ pc \in [Proc -> Ended \cup Phase] /\ run \in [Proc -> Run \cup {NoRun}]
      /\ late \in [Proc -> SUBSET Path]
      /\ Readable /\ Cursor = b.base /\ r.conflicts = {} /\ ~ r.opt.force
  BY <1>1, RunFacts DEF ProgressFor
<1>3. CASE CheckPath(p)
  <2>1. PICK x \in CheckNext(Changes(b), r.todo) :
          /\ run' = [run EXCEPT ![p].todo = @ \ {x},
                                ![p].conflicts = IF Conflicting(b, tree, x)
                                                 THEN @ \cup {x} ELSE @]
          /\ late' = [late EXCEPT ![p] = @ \ {x}]
    BY <1>3 DEF CheckPath
  <2>2. ~ Conflicting(b, tree, x)
    BY <1>1, <2>1, CheckNextTouched, NeverConflicting
  <2>3. run'[p] = [r EXCEPT !.todo = @ \ {x}, !.conflicts = @]
    BY <1>2, <2>1, <2>2
  <2>4. /\ run'[p].bundle = b /\ run'[p].conflicts = {} /\ run'[p].opt = r.opt
        /\ late'[p] = {} /\ pc'[p] = "check" /\ UNCHANGED <<tree, cursorFile>>
    BY <1>1, <1>2, <1>3, <2>1, <2>3 DEF CheckPath, Run
  <2>5. ProgressFor(p)'
    BY <1>2, <2>4 DEF ProgressFor, Readable, Cursor
  <2> QED BY <2>4, <2>5, NothingMoved
<1>4. CASE CheckBlocked(p)
  BY <1>1, <1>4, CheckNextTouched, NeverConflicting DEF CheckBlocked
<1>5. CASE RefuseConflicts(p)
  BY <1>2, <1>5 DEF RefuseConflicts
<1>6. CASE FinishDryRun(p)
  BY <1>2, <1>6, EndedProgress, NothingMoved DEF FinishDryRun
<1>7. CASE Stage(p)
  <2> DEFINE S == PayloadFiles(Changes(b))
  <2>1. run'[p] = [r EXCEPT !.todo = S]
    BY <1>2, <1>7 DEF Stage, Loop
  <2>2. /\ run'[p].bundle = b /\ run'[p].conflicts = {} /\ run'[p].opt = r.opt
        /\ run'[p].todo = S
        /\ late'[p] = {} /\ pc'[p] = "mkdir" /\ UNCHANGED <<tree, cursorFile>>
    BY <1>2, <1>7, <2>1 DEF Stage, Loop, Run
  <2>3. ProgressFor(p)'
    BY <1>2, <2>2 DEF ProgressFor, Readable, Cursor
  <2> QED BY <2>2, <2>3, NothingMoved
<1> QED BY <1>3, <1>4, <1>5, <1>6, <1>7

-----------------------------------------------------------------------------
(* Landing.                                                                 *)

\* What is known of a run that lands.
LEMMA LandingFacts ==
  ASSUME QuietChain, ChainInv, NEW p \in Proc, pc[p] \in Landing
  PROVE  /\ run[p] \in Run /\ run[p].bundle \in Bundles
         /\ run[p].bundle.base \in Snapshots /\ run[p].bundle.target \in Snapshots
         /\ Readable /\ Cursor = run[p].bundle.base
         /\ run[p].conflicts = {} /\ ~ run[p].opt.force
         /\ run[p].todo \subseteq Filed /\ run[p].todo \subseteq Path
         /\ \A x \in run[p].todo :
              tree[x] \in Entry \cup {Absent} /\ ~ Blocked(tree, x)
<1>1. /\ run[p] \in Run /\ run[p].bundle \in Bundles
      /\ Readable /\ Cursor = run[p].bundle.base
      /\ run[p].conflicts = {} /\ ~ run[p].opt.force
      /\ run[p].todo \subseteq Touched(Changes(run[p].bundle))
      /\ KeepsKinds /\ KindsHold
  BY RunFacts DEF ProgressFor, ChecksHoldFor
<1>2. run[p].todo \subseteq Filed
  BY <1>1, TouchedFiled
<1> QED BY <1>1, <1>2, BundleStates, FiledFree

\* Of the least path there is only one.
LEMMA LeastUnique ==
  ASSUME NEW S \in SUBSET Path, NEW x \in Least(S), NEW y \in Least(S)
  PROVE  x = y
BY RankAssumption DEF Least

\* A landing step that is no failure keeps the cursor and the bundle.
LEMMA LandingStep ==
  ASSUME QuietChain, ChainInv, NEW p \in Proc, pc[p] \in Landing,
         cursorFile' = cursorFile, tree' \in Trees, KindsHold',
         \A x \in Path : Here'[x] \in {Here[x], run[p].bundle.target[x]},
         ProgressFor(p)', pc'[p] \in Landing
  PROVE  QuietStep
<1> DEFINE b == run[p].bundle
<1>1. b \in Bundles /\ Readable' /\ Cursor' = b.base
  BY LandingFacts DEF Readable, Cursor
<1>2. \A x \in Path : Here'[x] \in {b.base[x], b.target[x]}
  BY Between
<1>3. CursorHonest'
  BY <1>1, <1>2, BetweenIsHonest
<1> QED BY <1>3, OneRun DEF QuietStep

\* Looking for the parents of a payload file finds directories, or nothing.
LEMMA StatParentsQuiet ==
  ASSUME QuietChain, ChainInv, NEW p \in Proc,
         StatParents(p) \/ MkdirBlocked(p)
  PROVE  QuietStep
<1> DEFINE r == run[p]
           b == r.bundle
<1>1. pc[p] = "mkdir"
  BY DEF StatParents, MkdirBlocked
<1>2. /\ tree \in Trees /\ late[p] = {} /\ ProgressFor(p) /\ KindsHold /\ KeepsKinds
      /\ pc \in [Proc -> Ended \cup Phase] /\ run \in [Proc -> Run \cup {NoRun}]
  BY RunFacts
<1>3. /\ Readable /\ Cursor = b.base /\ r.conflicts = {} /\ ~ r.opt.force
      /\ r \in Run /\ r.todo \subseteq Filed /\ r.todo \in SUBSET Path
      /\ \A x \in r.todo : ~ Blocked(tree, x)
  BY <1>1, LandingFacts
<1>4. ~ MkdirBlocked(p)
  BY <1>3, LeastSubset DEF MkdirBlocked
<1>5. PICK x \in Least(r.todo) :
        run' = [run EXCEPT ![p].dirs = {y \in Anc[x] : tree[y] = Absent}]
  BY <1>4 DEF StatParents
<1> DEFINE D == {y \in Anc[x] : tree[y] = Absent}
<1>6. x \in r.todo /\ x \in Filed
  BY <1>3, <1>5, LeastSubset
<1>7. \A y \in Anc[x] : tree[y] \in {Dir, Absent}
  BY <1>2, <1>6, FiledFree
<1>8. run'[p] = [r EXCEPT !.dirs = D]
  BY <1>2, <1>5
<1>9. /\ run'[p].bundle = b /\ run'[p].conflicts = {} /\ run'[p].opt = r.opt
      /\ run'[p].todo = r.todo /\ run'[p].dirs = D /\ late'[p] = {}
      /\ pc'[p] = "rename" /\ UNCHANGED <<tree, cursorFile>>
  BY <1>2, <1>3, <1>4, <1>8 DEF StatParents, Run
<1>10. ProgressFor(p)'
  BY <1>1, <1>2, <1>3, <1>5, <1>7, <1>9 DEF ProgressFor, Readable, Cursor
<1> QED BY <1>9, <1>10, NothingMoved

\* What lies above the topmost missing directory is there.
LEMMA TopmostCanBeMade ==
  ASSUME NEW x \in Path, NEW D \in SUBSET Anc[x],
         \A z \in Anc[x] : tree[z] = Dir \/ (z \in D /\ tree[z] = Absent),
         NEW y \in Topmost(D)
  PROVE  CanMkdir(y) /\ y \in D /\ y \in Path
<1>1. y \in D /\ Anc[y] \cap D = {} /\ y \in Path /\ Anc[y] \subseteq Anc[x]
  BY AncAssumption DEF Topmost
<1> QED BY <1>1 DEF CanMkdir

\* Making a directory for a payload file changes no file.
LEMMA MkdirQuiet ==
  ASSUME QuietChain, ChainInv, NEW p \in Proc, MkdirParent(p) \/ MkdirFails(p)
  PROVE  QuietStep
<1> DEFINE r == run[p]
           b == r.bundle
           payload == PayloadFiles(Changes(b))
<1>1. pc[p] = "rename"
  BY DEF MkdirParent, MkdirFails
<1>2. /\ tree \in Trees /\ late[p] = {} /\ ProgressFor(p) /\ KindsHold /\ KeepsKinds
      /\ pc \in [Proc -> Ended \cup Phase] /\ late \in [Proc -> SUBSET Path]
      /\ run \in [Proc -> Run \cup {NoRun}]
  BY RunFacts
<1>3. /\ Readable /\ Cursor = b.base /\ r.conflicts = {} /\ ~ r.opt.force
      /\ r \in Run /\ r.todo \subseteq Filed /\ r.todo \in SUBSET Path
  BY <1>1, LandingFacts
<1>4. PICK x \in Least(r.todo) :
        /\ r.dirs \in SUBSET Anc[x]
        /\ \A z \in Anc[x] : tree[z] = Dir \/ (z \in r.dirs /\ tree[z] = Absent)
  BY <1>1, <1>2 DEF ProgressFor
<1>5. x \in Path /\ x \in Filed /\ Anc[x] \subseteq Above
  BY <1>2, <1>3, <1>4, LeastSubset, FiledApart
<1>6. \A y \in Topmost(r.dirs) : CanMkdir(y) /\ y \in r.dirs /\ y \in Path
  BY <1>4, <1>5, TopmostCanBeMade
<1>7. MkdirParent(p)
  BY <1>6 DEF MkdirFails
<1>8. PICK y \in Topmost(r.dirs) : /\ tree' = [tree EXCEPT ![y] = Dir]
                                   /\ run' = [run EXCEPT ![p].dirs = @ \ {y}]
  BY <1>7 DEF MkdirParent
<1>9. /\ y \in r.dirs /\ y \in Path /\ y \in Anc[x] /\ y \in Above
      /\ tree[y] \in {Absent, Dir}
  BY <1>4, <1>5, <1>6 DEF CanMkdir
<1>10. \A z \in Path : tree'[z] = IF z = y THEN Dir ELSE tree[z]
  BY <1>2, <1>8, <1>9 DEF Trees
<1>11. tree' \in Trees /\ KindsHold'
  <2>1. tree' \in Trees
    BY <1>2, <1>8 DEF Trees, Node
  <2> QED BY <1>2, <1>9, <1>10, <2>1 DEF KindsHold
<1>12. \A z \in Path : Here'[z] = Here[z]
  BY <1>2, <1>9, <1>10, <1>11, TakeIs, NodeAssumption DEF Here
<1>13. run'[p] = [r EXCEPT !.dirs = @ \ {y}]
  BY <1>2, <1>8
<1>14. /\ run'[p].bundle = b /\ run'[p].conflicts = {} /\ run'[p].opt = r.opt
       /\ run'[p].todo = r.todo /\ run'[p].dirs = r.dirs \ {y} /\ late'[p] = {}
       /\ pc'[p] = "rename" /\ cursorFile' = cursorFile
  BY <1>1, <1>2, <1>3, <1>7, <1>13 DEF MkdirParent, Notice, Run
<1>15. \A z \in payload : tree'[z] = tree[z]
  <2>1. payload \subseteq Filed /\ payload \subseteq Path
    BY <1>1, LandingFacts, TouchedFiled, TouchedType
  <2>2. y \notin Filed
    BY <1>2, <1>9, FiledApart
  <2> QED BY <1>10, <2>1, <2>2
<1>16. /\ run'[p].dirs \subseteq Anc[x]
       /\ \A z \in Anc[x] : tree'[z] = Dir
                            \/ (z \in run'[p].dirs /\ tree'[z] = Absent)
  <2>1. Anc[x] \subseteq Path
    BY <1>5, AncAssumption
  <2> QED BY <1>4, <1>10, <1>14, <2>1
<1>17. ProgressFor(p)'
  BY <1>1, <1>2, <1>3, <1>4, <1>14, <1>15, <1>16 DEF ProgressFor, Readable, Cursor
<1> QED BY <1>1, <1>11, <1>12, <1>14, <1>17, LandingStep

\* A payload file lands: one path more is as the target has it.
LEMMA RenameQuiet ==
  ASSUME QuietChain, ChainInv, NEW p \in Proc, Rename(p) \/ RenameFails(p)
  PROVE  QuietStep
<1> DEFINE r == run[p]
           b == r.bundle
           payload == PayloadFiles(Changes(b))
<1>1. pc[p] = "rename" /\ r.dirs = {}
  BY DEF Rename, RenameFails
<1>2. /\ tree \in Trees /\ late[p] = {} /\ ProgressFor(p) /\ KindsHold
      /\ pc \in [Proc -> Ended \cup Phase] /\ late \in [Proc -> SUBSET Path]
      /\ run \in [Proc -> Run \cup {NoRun}]
  BY RunFacts
<1>3. /\ Readable /\ Cursor = b.base /\ r.conflicts = {} /\ ~ r.opt.force
      /\ r \in Run /\ b.target \in Snapshots
      /\ r.todo \subseteq Filed /\ r.todo \in SUBSET Path
      /\ \A x \in r.todo : tree[x] \in Entry \cup {Absent}
  BY <1>1, LandingFacts
<1>4. /\ r.todo \subseteq payload
      /\ \A x \in payload \ r.todo : tree[x] = b.target[x]
      /\ \A x \in Least(r.todo) : \A y \in Anc[x] : tree[y] = Dir
  BY <1>1, <1>2, <1>3, LeastUnique DEF ProgressFor
<1>5. ~ RenameFails(p)
  BY <1>3, <1>4, LeastSubset, NodeAssumption DEF RenameFails, CanRename
<1>6. PICK x \in Least(r.todo) :
        tree' = [tree EXCEPT ![x] = b.target[x]] /\ Loop(p, "mkdir", r.todo \ {x})
  BY <1>5 DEF Rename
<1>7. x \in r.todo /\ x \in Filed /\ x \in Path /\ x \in payload
  BY <1>3, <1>4, <1>6, LeastSubset
<1>8. b.target[x] \in Entry
  BY <1>3, <1>7 DEF PayloadFiles, Changes, Compute, Snapshots
<1>9. \A y \in Path : tree'[y] = IF y = x THEN b.target[x] ELSE tree[y]
  BY <1>2, <1>6 DEF Trees
<1>10. tree' \in Trees /\ KindsHold'
  <2>1. tree' \in Trees
    BY <1>2, <1>6, <1>8 DEF Trees, Node
  <2> QED BY <1>2, <1>7, <1>8, <1>9, <2>1 DEF KindsHold
<1>11. \A y \in Path : Here'[y] \in {Here[y], b.target[y]}
  BY <1>2, <1>8, <1>9, <1>10, TakeIs DEF Here
<1>12. run'[p] = [r EXCEPT !.todo = r.todo \ {x}]
  BY <1>2, <1>6 DEF Loop
<1>13. /\ run'[p].bundle = b /\ run'[p].conflicts = {} /\ run'[p].opt = r.opt
       /\ run'[p].todo = r.todo \ {x} /\ late'[p] = {}
       /\ pc'[p] = "mkdir" /\ cursorFile' = cursorFile
  BY <1>2, <1>3, <1>5, <1>6, <1>12 DEF Rename, Loop, Notice, Run
<1>14. \A y \in payload \ (r.todo \ {x}) : tree'[y] = b.target[y]
  <2>1. payload \subseteq Path
    BY TouchedType
  <2> QED BY <1>4, <1>9, <2>1
<1>15. ProgressFor(p)'
  BY <1>3, <1>4, <1>13, <1>14 DEF ProgressFor, Readable, Cursor
<1> QED BY <1>1, <1>10, <1>11, <1>13, <1>15, LandingStep

LEMMA StartDeletesQuiet ==
  ASSUME QuietChain, ChainInv, NEW p \in Proc, StartDeletes(p)
  PROVE  QuietStep
<1> DEFINE r == run[p]
           b == r.bundle
           S == Changes(b).deleted
<1>1. pc[p] = "mkdir" /\ r.todo = {}
  BY DEF StartDeletes
<1>2. /\ late[p] = {} /\ ProgressFor(p) /\ pc \in [Proc -> Ended \cup Phase]
      /\ run \in [Proc -> Run \cup {NoRun}]
      /\ r \in Run
  BY <1>1, RunFacts
<1>3. run'[p] = [r EXCEPT !.todo = S]
  BY <1>2 DEF StartDeletes, Loop
<1>4. /\ run'[p].bundle = b /\ run'[p].conflicts = r.conflicts
      /\ run'[p].opt = r.opt /\ run'[p].todo = S /\ late'[p] = {}
      /\ pc'[p] = "delete" /\ UNCHANGED <<tree, cursorFile>>
  BY <1>2, <1>3 DEF StartDeletes, Loop, Run
<1>5. ProgressFor(p)'
  BY <1>1, <1>2, <1>4 DEF ProgressFor, Readable, Cursor
<1> QED BY <1>4, <1>5, NothingMoved

\* A deleted path goes: it, too, is as the target has it.
LEMMA DeleteQuiet ==
  ASSUME QuietChain, ChainInv, NEW p \in Proc, Delete(p) \/ DeleteFails(p)
  PROVE  QuietStep
<1> DEFINE r == run[p]
           b == r.bundle
           payload == PayloadFiles(Changes(b))
           deleted == Changes(b).deleted
<1>1. pc[p] = "delete"
  BY DEF Delete, DeleteFails
<1>2. /\ tree \in Trees /\ late[p] = {} /\ ProgressFor(p) /\ KindsHold
      /\ pc \in [Proc -> Ended \cup Phase] /\ late \in [Proc -> SUBSET Path]
      /\ run \in [Proc -> Run \cup {NoRun}]
  BY RunFacts
<1>3. /\ Readable /\ Cursor = b.base /\ r.conflicts = {} /\ ~ r.opt.force
      /\ r \in Run /\ b.base \in Snapshots /\ b.target \in Snapshots
      /\ r.todo \in SUBSET Path
      /\ \A x \in r.todo : tree[x] \in Entry \cup {Absent} /\ ~ Blocked(tree, x)
  BY <1>1, LandingFacts
<1>4. /\ r.todo \subseteq deleted
      /\ \A x \in payload : tree[x] = b.target[x]
      /\ \A x \in deleted \ r.todo : tree[x] = Absent
  BY <1>1, <1>2 DEF ProgressFor
<1>5. ~ DeleteFails(p)
  <2>1. \A x \in r.todo : CanDelete(x)
    BY <1>3, NodeAssumption DEF CanDelete, Removable
  <2> QED BY <2>1, LeastSubset DEF DeleteFails
<1>6. PICK x \in Least(r.todo) :
        /\ tree' = [tree EXCEPT ![x] = Absent]
        /\ run' = [run EXCEPT ![p].todo = @ \ {x}, ![p].dirs = Anc[x]]
  BY <1>5 DEF Delete
<1>7. x \in r.todo /\ x \in Path /\ x \in deleted /\ x \notin payload
  BY <1>3, <1>4, <1>6, LeastSubset, CategoriesDisjoint DEF Changes
<1>8. b.target[x] = Absent
  BY <1>7 DEF Changes, Compute
<1>9. \A y \in Path : tree'[y] = IF y = x THEN Absent ELSE tree[y]
  BY <1>2, <1>6 DEF Trees
<1>10. tree' \in Trees /\ KindsHold'
  <2>1. tree' \in Trees
    BY <1>2, <1>6 DEF Trees, Node
  <2> QED BY <1>2, <1>9, <2>1 DEF KindsHold
<1>11. \A y \in Path : Here'[y] \in {Here[y], b.target[y]}
  BY <1>2, <1>8, <1>9, <1>10, TakeIs DEF Here
<1>12. run'[p] = [r EXCEPT !.todo = @ \ {x}, !.dirs = Anc[x]]
  BY <1>2, <1>6
<1>13. /\ run'[p].bundle = b /\ run'[p].conflicts = {} /\ run'[p].opt = r.opt
       /\ run'[p].todo = r.todo \ {x} /\ late'[p] = {}
       /\ pc'[p] = "prune" /\ cursorFile' = cursorFile
  BY <1>2, <1>3, <1>5, <1>12 DEF Delete, Notice, Run
<1>14. /\ \A y \in payload : tree'[y] = b.target[y]
       /\ \A y \in deleted \ (r.todo \ {x}) : tree'[y] = Absent
  <2>1. payload \subseteq Path /\ deleted \subseteq Path
    BY TouchedType
  <2> QED BY <1>4, <1>7, <1>9, <2>1
<1>15. ProgressFor(p)'
  BY <1>3, <1>4, <1>13, <1>14 DEF ProgressFor, Readable, Cursor
<1> QED BY <1>1, <1>10, <1>11, <1>13, <1>15, LandingStep

\* Pruning takes empty directories only.
LEMMA PruneQuiet ==
  ASSUME QuietChain, ChainInv, NEW p \in Proc, Prune(p) \/ StopPrune(p)
  PROVE  QuietStep
<1> DEFINE r == run[p]
           b == r.bundle
           payload == PayloadFiles(Changes(b))
           deleted == Changes(b).deleted
<1>1. pc[p] = "prune"
  BY DEF Prune, StopPrune
<1>2. /\ tree \in Trees /\ late[p] = {} /\ ProgressFor(p) /\ KindsHold
      /\ pc \in [Proc -> Ended \cup Phase] /\ late \in [Proc -> SUBSET Path]
      /\ run \in [Proc -> Run \cup {NoRun}] /\ r \in Run /\ ChecksHoldFor(p)
      /\ r.dirs \in SUBSET Path
  BY <1>1, RunFacts, RunType
<1>3. /\ Readable /\ Cursor = b.base /\ r.conflicts = {} /\ ~ r.opt.force
      /\ b.target \in Snapshots
  BY <1>1, LandingFacts
<1>4. /\ r.todo \subseteq deleted
      /\ \A x \in payload : tree[x] = b.target[x]
      /\ \A x \in deleted \ r.todo : tree[x] = Absent
  BY <1>1, <1>2 DEF ProgressFor
<1>5. CASE StopPrune(p)
  <2>1. run'[p] = [r EXCEPT !.dirs = {}]
    BY <1>2, <1>5 DEF StopPrune
  <2>2. /\ run'[p].bundle = b /\ run'[p].conflicts = {} /\ run'[p].opt = r.opt
        /\ run'[p].todo = r.todo /\ late'[p] = {}
        /\ pc'[p] = "delete" /\ UNCHANGED <<tree, cursorFile>>
    BY <1>2, <1>3, <1>5, <2>1 DEF StopPrune, Run
  <2>3. ProgressFor(p)'
    BY <1>3, <1>4, <2>2 DEF ProgressFor, Readable, Cursor
  <2> QED BY <2>2, <2>3, NothingMoved
<1>6. CASE Prune(p)
  <2>1. PICK d \in Deepest(r.dirs) :
          /\ Removable(tree, d)
          /\ tree' = [tree EXCEPT ![d] = Absent]
          /\ run' = [run EXCEPT ![p].dirs = @ \ {d}]
    BY <1>6 DEF Prune
  <2>2. d \in Path /\ tree[d] = Dir
    BY <1>1, <1>2, <2>1 DEF Deepest, ChecksHoldFor, Removable
  <2>3. \A y \in Path : tree'[y] = IF y = d THEN Absent ELSE tree[y]
    BY <1>2, <2>1 DEF Trees
  <2>4. tree' \in Trees /\ KindsHold'
    <3>1. tree' \in Trees
      BY <1>2, <2>1 DEF Trees, Node
    <3> QED BY <1>2, <2>3, <3>1 DEF KindsHold
  <2>5. \A y \in Path : Here'[y] = Here[y]
    BY <1>2, <2>2, <2>3, <2>4, TakeIs, NodeAssumption DEF Here
  <2>6. run'[p] = [r EXCEPT !.dirs = @ \ {d}]
    BY <1>2, <2>1
  <2>7. /\ run'[p].bundle = b /\ run'[p].conflicts = {} /\ run'[p].opt = r.opt
        /\ run'[p].todo = r.todo /\ late'[p] = {}
        /\ pc'[p] = "prune" /\ cursorFile' = cursorFile
    BY <1>2, <1>3, <1>6, <2>6 DEF Prune, Notice, Run
  <2>8. /\ \A y \in payload : tree'[y] = b.target[y]
        /\ \A y \in deleted \ r.todo : tree'[y] = Absent
    <3>1. payload \subseteq Path /\ deleted \subseteq Path
      BY TouchedType
    <3>2. \A y \in payload : b.target[y] # Dir
      BY <1>3, <3>1, NodeAssumption DEF Snapshots
    <3> QED BY <1>4, <2>2, <2>3, <3>1, <3>2
  <2>9. ProgressFor(p)'
    BY <1>3, <1>4, <2>7, <2>8 DEF ProgressFor, Readable, Cursor
  <2> QED BY <1>1, <2>4, <2>5, <2>7, <2>9, LandingStep
<1> QED BY <1>5, <1>6

-----------------------------------------------------------------------------
(* Saving the cursor and verifying.                                         *)

\* All landed and all deleted: the files are the target's.
LEMMA LandedIsTarget ==
  ASSUME QuietChain, ChainInv, NEW p \in Proc, pc[p] = "delete", run[p].todo = {}
  PROVE  Here = run[p].bundle.target
<1> DEFINE b == run[p].bundle
<1>1. /\ tree \in Trees /\ b.base \in Snapshots /\ b.target \in Snapshots
      /\ ProgressFor(p)
  BY LandingFacts, RunFacts
<1>2. /\ Here \in Snapshots
      /\ \A x \in Path : Here[x] = IF tree[x] \in Entry THEN tree[x] ELSE Absent
  BY <1>1, TakeIs DEF Here
<1>3. ASSUME NEW x \in Path PROVE Here[x] = b.target[x]
  <2>1. CASE x \in PayloadFiles(Changes(b))
    <3>1. tree[x] = b.target[x]
      BY <1>1, <2>1 DEF ProgressFor
    <3> QED BY <1>1, <1>2, <3>1 DEF Snapshots
  <2>2. CASE x \in Changes(b).deleted
    <3>1. tree[x] = Absent
      BY <1>1, <2>2 DEF ProgressFor
    <3>2. b.target[x] = Absent
      BY <2>2 DEF Changes, Compute
    <3> QED BY <1>2, <3>1, <3>2
  <2>3. CASE x \notin Touched(Changes(b))
    <3>1. b.base[x] = b.target[x]
      BY <1>1, <2>3, UntouchedSame DEF Changes
    <3> QED BY <3>1, Between
  <2> QED BY <2>1, <2>2, <2>3 DEF Touched
<1> QED BY <1>1, <1>2, <1>3 DEF Snapshots

LEMMA TruncateQuiet ==
  ASSUME QuietChain, ChainInv, NEW p \in Proc, Truncate(p)
  PROVE  QuietStep
<1>1. /\ pc[p] = "delete" /\ cursorFile' = Truncated /\ pc'[p] = "write"
      /\ UNCHANGED <<tree, run, late>> /\ late[p] = {}
  BY RunFacts DEF Truncate
<1>2. Here = run[p].bundle.target /\ Here' = Here
  BY <1>1, LandedIsTarget DEF Truncate, Here
<1>3. ProgressFor(p)'
  BY <1>1, <1>2 DEF ProgressFor
<1>4. KindsHold' /\ CursorHonest'
  BY <1>1 DEF ChainInv, KindsHold, CursorHonest, Readable
<1> QED BY <1>1, <1>3, <1>4, OneRun DEF QuietStep

\* What is known of a run that has saved, or is about to.
LEMMA SavedFacts ==
  ASSUME QuietChain, ChainInv, NEW p \in Proc,
         pc[p] \in {"write", "rules", "list", "walk", "hash"}
  PROVE  /\ run[p] \in Run /\ run[p].bundle \in Bundles
         /\ run[p].bundle.target \in Snapshots /\ run[p].bundle.target \in States
         /\ \A x \in Path :
              run[p].bundle.target[x] = IF tree[x] \in Entry THEN tree[x] ELSE Absent
<1>1. /\ run[p] \in Run /\ run[p].bundle \in Bundles
      /\ Here = run[p].bundle.target /\ tree \in Trees
  BY RunFacts DEF ProgressFor
<1> QED BY <1>1, BundleStates, TakeIs DEF Here

LEMMA WriteQuiet ==
  ASSUME QuietChain, ChainInv, NEW p \in Proc, Write(p)
  PROVE  QuietStep
<1> DEFINE b == run[p].bundle
<1>1. pc[p] = "write"
  BY DEF Write
<1>2. /\ RunsOK /\ pc \in [Proc -> Ended \cup Phase] /\ late[p] = {}
      /\ cursorFile = Truncated /\ Here = b.target /\ tree' = tree
      /\ b.target \in Snapshots /\ tree \in Trees
  BY <1>1, RunFacts, SavedFacts DEF ProgressFor, Write
<1>3. cursorFile' = b.target
  BY <1>2 DEF Write
<1>4. Cursor' = b.target
  BY <1>2, <1>3, CursorAssumption DEF Cursor
<1>5. KindsHold' /\ CursorHonest'
  <2>1. \A x \in Path : Read(tree', NoRules, x) = b.target[x]
    BY <1>2, TakeIs DEF Here
  <2>2. CursorHonest'
    BY <1>4, <2>1 DEF CursorHonest
  <2> QED BY <1>2, <2>2 DEF ChainInv, KindsHold
<1>6. ProgressFor(p)' /\ pc'[p] \in {"applied", "rules"}
  <2>1. CASE run[p].opt.noVerify
    BY <1>2, <2>1, EndedProgress DEF Write
  <2>2. CASE ~ run[p].opt.noVerify
    <3>1. pc'[p] = "rules" /\ run' = run /\ late' = late /\ Here' = Here
      BY <1>2, <2>2 DEF Write, Here
    <3> QED BY <1>2, <1>3, <3>1 DEF ProgressFor
  <2> QED BY <2>1, <2>2
<1> QED BY <1>5, <1>6, OneRun DEF QuietStep

\* The ignore file the destination has is the target's, and nothing else is
\* in its place.
LEMMA RulesLoad ==
  ASSUME QuietChain, ChainInv, NEW p \in Proc, pc[p] = "rules"
  PROVE  LoadedRules = RulesOfState(run[p].bundle.target) /\ LoadedRules # BadGlob
<1> DEFINE t == run[p].bundle.target
<1>1. /\ t \in States
      /\ \A x \in Path : t[x] = IF tree[x] \in Entry THEN tree[x] ELSE Absent
  BY SavedFacts
<1>2. tree[IgnoreFile] \in Entry \cup {Absent}
  <2>1. IgnoreFile \notin Above
    BY RulesAssumption DEF Above, Filed, QuietChain, HidesNothing
  <2> QED BY <2>1, RunFacts, RulesAssumption DEF KindsHold
<1>3. LoadedRules = RulesOfState(t)
  BY <1>1, <1>2, RulesAssumption, NodeAssumption DEF LoadedRules, RulesOfState
<1> QED BY <1>1, <1>3 DEF QuietChain, HidesNothing

LEMMA RulesQuiet ==
  ASSUME QuietChain, ChainInv, NEW p \in Proc, LoadRules(p) \/ BadRules(p)
  PROVE  QuietStep
<1> DEFINE r == run[p]
           b == r.bundle
<1>1. pc[p] = "rules"
  BY DEF LoadRules, BadRules
<1>2. /\ LoadRules(p) /\ LoadedRules = RulesOfState(b.target)
  BY <1>1, RulesLoad DEF BadRules
<1>3. /\ r \in Run /\ run \in [Proc -> Run \cup {NoRun}] /\ late[p] = {}
      /\ pc \in [Proc -> Ended \cup Phase] /\ ProgressFor(p)
  BY <1>1, RunFacts
<1>4. run'[p] = [r EXCEPT !.rules = LoadedRules]
  BY <1>2, <1>3 DEF LoadRules
<1>5. /\ run'[p].bundle = b /\ run'[p].rules = RulesOfState(b.target)
      /\ late'[p] = {} /\ pc'[p] = "list" /\ UNCHANGED <<tree, cursorFile>>
  BY <1>2, <1>3, <1>4 DEF LoadRules, Run
<1>6. ProgressFor(p)'
  BY <1>1, <1>3, <1>5 DEF ProgressFor, Here
<1> QED BY <1>5, <1>6, NothingMoved

\* The walk finds what it lists: nobody else moves anything.
LEMMA WalkQuiet ==
  ASSUME QuietChain, ChainInv, NEW p \in Proc,
         ListRoot(p) \/ WalkDir(p) \/ StatFile(p) \/ HashFile(p) \/ WalkFails(p)
  PROVE  QuietStep
<1> DEFINE r == run[p]
           b == r.bundle
<1>1. pc[p] \in {"list", "walk", "hash"}
  BY DEF ListRoot, WalkDir, StatFile, HashFile, WalkFails
<1>2. /\ r \in Run /\ run \in [Proc -> Run \cup {NoRun}]
      /\ late \in [Proc -> SUBSET Path] /\ late[p] = {}
      /\ pc \in [Proc -> Ended \cup Phase] /\ ProgressFor(p)
      /\ r.todo \in SUBSET Path /\ r.dirs \in SUBSET Path
      /\ cursorFile = b.target /\ Here = b.target /\ r.rules = RulesOfState(b.target)
  BY <1>1, RunFacts DEF ProgressFor, Run
<1>3. ASSUME run'[p].bundle = b, run'[p].rules = r.rules,
             \A x \in run'[p].todo : tree[x] \in Entry,
             \A d \in run'[p].dirs : tree[d] = Dir,
             \/ pc'[p] = "walk"
             \/ pc'[p] = "hash"
                /\ Upcoming(run'[p].todo \cup run'[p].dirs) \subseteq run'[p].todo,
             late'[p] = {}, UNCHANGED <<tree, cursorFile>>
      PROVE  QuietStep
  <2>1. ProgressFor(p)'
    BY <1>2, <1>3 DEF ProgressFor, Here
  <2> QED BY <1>3, <2>1, NothingMoved
<1>4. CASE ListRoot(p)
  <2> DEFINE F == ListedFiles(tree, r.rules, TopLevel)
             D == ListedDirs(tree, r.rules, TopLevel)
  <2>1. run'[p] = [r EXCEPT !.todo = F, !.dirs = D, !.got = EmptySnapshot]
    BY <1>2, <1>4 DEF ListRoot
  <2>2. /\ run'[p].bundle = b /\ run'[p].rules = r.rules
        /\ run'[p].todo = F /\ run'[p].dirs = D
    BY <1>2, <2>1 DEF Run
  <2>3. (\A x \in F : tree[x] \in Entry) /\ \A d \in D : tree[d] = Dir
    BY DEF ListedFiles, ListedDirs
  <2>4. pc'[p] = "walk" /\ late'[p] = {} /\ UNCHANGED <<tree, cursorFile>>
    BY <1>2, <1>4 DEF ListRoot
  <2> QED BY <1>3, <2>2, <2>3, <2>4
<1>5. CASE WalkDir(p)
  <2>1. PICK d \in Visited(p) \cap r.dirs :
          /\ run' = [run EXCEPT
               ![p].todo = @ \cup ListedFiles(tree, r.rules, Children(d)),
               ![p].dirs = (@ \ {d}) \cup ListedDirs(tree, r.rules, Children(d))]
          /\ late' = [late EXCEPT ![p] = @ \ ({d} \cup {x \in Path : d \in Anc[x]})]
    BY <1>5 DEF WalkDir
  <2> DEFINE F == r.todo \cup ListedFiles(tree, r.rules, Children(d))
             D == (r.dirs \ {d}) \cup ListedDirs(tree, r.rules, Children(d))
  <2>2. run'[p] = [r EXCEPT !.todo = F, !.dirs = D]
    BY <1>2, <2>1
  <2>3. /\ run'[p].bundle = b /\ run'[p].rules = r.rules
        /\ run'[p].todo = F /\ run'[p].dirs = D
    BY <1>2, <2>2 DEF Run
  <2>4. pc[p] = "walk" /\ pc'[p] = "walk" /\ UNCHANGED <<tree, cursorFile>>
    BY <1>2, <1>5 DEF WalkDir
  <2>5. (\A x \in F : tree[x] \in Entry) /\ \A c \in D : tree[c] = Dir
    BY <1>2, <2>4 DEF ProgressFor, ListedFiles, ListedDirs
  <2>6. late'[p] = {}
    BY <1>2, <2>1
  <2> QED BY <1>3, <2>3, <2>4, <2>5, <2>6
<1>6. CASE StatFile(p)
  <2>1. PICK x \in Visited(p) \cap r.todo : \E bit \in Bits(tree[x]) :
          /\ run' = [run EXCEPT ![p].exec = bit]
          /\ late' = [late EXCEPT ![p] = @ \ {x}]
    BY <1>6 DEF StatFile
  <2>2. PICK bit : run'[p] = [r EXCEPT !.exec = bit]
    BY <1>2, <2>1
  <2>3. /\ run'[p].bundle = b /\ run'[p].rules = r.rules
        /\ run'[p].todo = r.todo /\ run'[p].dirs = r.dirs
    BY <1>2, <2>2 DEF Run
  <2>4. pc[p] = "walk" /\ pc'[p] = "hash" /\ UNCHANGED <<tree, cursorFile>>
    BY <1>2, <1>6 DEF StatFile
  <2>5. (\A y \in r.todo : tree[y] \in Entry) /\ \A d \in r.dirs : tree[d] = Dir
    BY <1>2, <2>4 DEF ProgressFor
  <2>6. late'[p] = {}
    BY <1>2, <2>1
  <2>7. Upcoming(r.todo \cup r.dirs) \subseteq r.todo
    <3>1. \A y \in Upcoming(r.todo \cup r.dirs) : y = x
      BY <1>2, <2>1, UpcomingOne DEF Visited
    <3> QED BY <2>1, <3>1
  <2> QED BY <1>3, <2>3, <2>4, <2>5, <2>6, <2>7
<1>7. CASE HashFile(p)
  <2>1. PICK x \in Visited(p) \cap r.todo, e \in Entry :
          run' = [run EXCEPT ![p].todo = @ \ {x}, ![p].exec = FALSE,
                             ![p].got = [@ EXCEPT ![x] = e]]
    <3>1. PICK x \in Visited(p) \cap r.todo :
            /\ tree[x] \in Entry
            /\ run' = [run EXCEPT
                 ![p].todo = @ \ {x}, ![p].exec = FALSE,
                 ![p].got = [@ EXCEPT ![x] = [sha |-> tree[x].sha, exec |-> r.exec]]]
      BY <1>7 DEF HashFile
    <3>2. r.exec \in BOOLEAN
      BY <1>2 DEF Run
    <3> QED BY <3>1, <3>2, HashedEntry
  <2>2. run'[p] = [r EXCEPT !.todo = @ \ {x}, !.exec = FALSE,
                            !.got = [@ EXCEPT ![x] = e]]
    BY <1>2, <2>1
  <2>3. /\ run'[p].bundle = b /\ run'[p].rules = r.rules
        /\ run'[p].todo = r.todo \ {x} /\ run'[p].dirs = r.dirs
    BY <1>2, <2>2 DEF Run
  <2>4. pc[p] = "hash" /\ pc'[p] = "walk" /\ UNCHANGED <<tree, cursorFile, late>>
    BY <1>2, <1>7 DEF HashFile
  <2>5. (\A y \in r.todo \ {x} : tree[y] \in Entry) /\ \A d \in r.dirs : tree[d] = Dir
    BY <1>2, <2>4 DEF ProgressFor
  <2> QED BY <1>2, <1>3, <2>3, <2>4, <2>5
<1>8. CASE WalkFails(p)
  <2>1. pc[p] \in {"walk", "hash"}
    BY <1>8 DEF WalkFails
  <2>2. PICK x \in Visited(p) :
          IF pc[p] = "hash" THEN tree[x] \notin Entry
          ELSE IF x \in r.dirs THEN tree[x] # Dir ELSE tree[x] = Absent
    BY <1>8 DEF WalkFails
  <2>3. x \in r.todo \cup r.dirs /\ (pc[p] = "hash" => x \in r.todo)
    BY <1>2, <2>2, UpcomingSubset DEF Visited, ProgressFor
  <2>4. /\ \A y \in r.todo : tree[y] \in Entry
        /\ \A d \in r.dirs : tree[d] = Dir
    BY <1>2, <2>1 DEF ProgressFor
  <2> QED BY <2>1, <2>2, <2>3, <2>4, NodeAssumption
<1> QED BY <1>4, <1>5, <1>6, <1>7, <1>8

\* The walk finds the target: the rules of a state hide none of its files.
LEMMA CompareQuiet ==
  ASSUME QuietChain, ChainInv, NEW p \in Proc, Compare(p)
  PROVE  QuietStep
<1> DEFINE r == run[p]
           t == r.bundle.target
<1>1. pc[p] = "walk" /\ r.todo = {} /\ r.dirs = {} /\ UNCHANGED <<tree, cursorFile>>
  BY DEF Compare, Walked
<1>2. /\ RunsOK /\ late[p] = {} /\ WalkHoldsFor(p) /\ r.got \in Snapshots
      /\ r.rules = RulesOfState(t)
  BY <1>1, RunFacts, RunType DEF ProgressFor
<1>3. /\ t \in Snapshots /\ t \in States
      /\ \A x \in Path : t[x] = IF tree[x] \in Entry THEN tree[x] ELSE Absent
  BY <1>1, SavedFacts
<1>4. ASSUME NEW x \in Path PROVE r.got[x] = t[x]
  <2>1. r.got[x] = Read(tree, r.rules, x)
    BY <1>1, <1>2 DEF WalkHoldsFor, Pending
  <2>2. t[x] # Absent => ~ Ignored(r.rules, x)
    BY <1>2, <1>3 DEF QuietChain, HidesNothing
  <2> QED BY <1>3, <2>1, <2>2, NodeAssumption DEF Read
<1>5. r.got = t
  BY <1>2, <1>3, <1>4 DEF Snapshots
<1>6. End(p, "verified")
  BY <1>5 DEF Compare
<1> QED BY <1>1, <1>2, <1>6, EndedProgress, NothingMoved

-----------------------------------------------------------------------------
(* The invariant.                                                           *)

\* Nobody edits: the counter is at its bound.
LEMMA NoEditsHere ==
  ASSUME QuietChain, TypeOK
  PROVE  /\ ~ LoseStateDir
         /\ \A x \in Path, n \in EditNodes : ~ LocalEdit(x, n)
<1>1. MaxEdits = 0 /\ edits \in 0..MaxEdits
  BY DEF QuietChain, Alone, TypeOK, CountsOK
<1>2. ~ (edits < MaxEdits)
  BY <1>1
<1> QED BY <1>2 DEF LoseStateDir, LocalEdit

LEMMA ChainInit ==
  ASSUME QuietChain, Init PROVE ChainInv
<1>1. Inv
  BY InitInv
<1>2. \A p \in Proc : pc[p] = "ready" /\ late[p] = {}
  BY DEF Init
<1>3. KindsHold /\ Progress /\ RetrySafe
  BY <1>2 DEF Init, KindsHold, Progress, ProgressFor, RetrySafe
<1>4. CursorHonest
  <2>1. \A x \in Path : tree[x] = Absent /\ Cursor[x] = Absent
    BY DEF Init, Cursor, EmptySnapshot
  <2>2. \A x \in Path : Read(tree, NoRules, x) \in {Cursor[x]}
    BY <2>1 DEF Read
  <2> QED BY <2>2 DEF CursorHonest
<1> QED BY <1>1, <1>3, <1>4 DEF ChainInv

LEMMA ChainNext ==
  ASSUME QuietChain, ChainInv, [Next]_vars PROVE ChainInv'
<1>1. Inv' /\ TypeOK /\ RunsOK
  BY NextInv, RunFacts DEF ChainInv, Inv, TypeOK
<1>2. CASE UNCHANGED vars
  <2>1. KindsHold' /\ CursorHonest' /\ RetrySafe'
    BY <1>2 DEF vars, ChainInv, KindsHold, CursorHonest, Readable, Cursor,
                RetrySafe
  <2>2. ASSUME NEW p \in Proc, ProgressFor(p) PROVE ProgressFor(p)'
    BY <1>2, <2>2 DEF vars, ProgressFor, Here, Readable, Cursor
  <2> QED BY <1>1, <2>1, <2>2 DEF ChainInv, Progress
<1>3. ASSUME NEW p \in Proc, Start(p) \/ Step(p) \/ Die(p) PROVE QuietStep
  <2>1. CASE Start(p)
    BY <2>1, StartQuiet
  <2>2. CASE Die(p)
    BY <1>1, <2>2, EndedProgress, NothingMoved DEF Die
  <2>3. CASE Step(p)
    BY <2>3, CheckQuiet, StatParentsQuiet, MkdirQuiet, RenameQuiet, StartDeletesQuiet,
       DeleteQuiet, PruneQuiet, TruncateQuiet, WriteQuiet, RulesQuiet,
       WalkQuiet, CompareQuiet DEF Step
  <2> QED BY <1>3, <2>1, <2>2, <2>3
<1>4. CASE Next
  <2>1. PICK p \in Proc : Start(p) \/ Step(p) \/ Die(p)
    BY <1>1, <1>4, NoEditsHere DEF Next
  <2>2. QuietStep
    BY <1>3, <2>1
  <2> QED BY <1>1, <2>2 DEF QuietStep, ChainInv
<1> QED BY <1>2, <1>4

LEMMA ChainInvariant == ASSUME QuietChain PROVE Spec => []ChainInv
<1>1. Init => ChainInv
  BY ChainInit
<1>2. ChainInv /\ [Next]_vars => ChainInv'
  BY ChainNext
<1> QED BY <1>1, <1>2, PTL DEF Spec

\* Retries are safe: wherever the runs before it died, a run of a chain
\* neither meets a conflict nor fails to verify, and only an unreadable
\* cursor makes it fail.
THEOREM RetriesAreSafe == ASSUME QuietChain PROVE Spec => []RetrySafe
<1>1. ChainInv => RetrySafe
  BY DEF ChainInv
<1> QED BY <1>1, ChainInvariant, PTL

\* The cursor never runs ahead of the tree, whatever run died where.
THEOREM CursorIsHonest == ASSUME QuietChain PROVE Spec => []CursorHonest
<1>1. ChainInv => CursorHonest
  BY DEF ChainInv
<1> QED BY <1>1, ChainInvariant, PTL

-----------------------------------------------------------------------------
(* Mirror.                                                                  *)

\* Changes of nodes that are no files leave the files.
LEMMA FilesStay ==
  ASSUME tree \in Trees, tree' \in Trees,
         \A x \in Path : tree[x] \in Entry \/ tree'[x] \in Entry => tree'[x] = tree[x]
  PROVE  Here' = Here
<1>1. \A x \in Path : Here'[x] = Here[x]
  BY TakeIs DEF Here
<1> QED BY <1>1 DEF Here, Take

\* The abstract change set of a bundle is the concrete one.
LEMMA SameChanges ==
  ASSUME NEW b
  PROVE  M!Touched(M!Changes(b)) = Touched(Changes(b))
BY DEF M!Touched, M!PayloadFiles, M!Changes, M!Compute,
       Touched, PayloadFiles, Changes, Compute

\* The cursor that Mirror sees, with one process.
LEMMA MirrorCursorIs ==
  ASSUME QuietChain, NEW p \in Proc
  PROVE  /\ MirrorCursor = IF Readable THEN Cursor
                           ELSE IF pc[p] # "write" THEN Torn
                           ELSE run[p].bundle.base
         /\ MirrorCursor' = IF Readable' THEN Cursor'
                            ELSE IF pc'[p] # "write" THEN Torn
                            ELSE run'[p].bundle.base
<1>1. \A q \in Proc : q = p
  BY DEF QuietChain, Alone
<1>2. pc[p] = "write" => (CHOOSE q \in Proc : pc[q] = "write") = p
  BY <1>1
<1>3. pc'[p] = "write" => (CHOOSE q \in Proc : pc'[q] = "write") = p
  BY <1>1
<1> QED BY <1>1, <1>2, <1>3 DEF MirrorCursor

\* A step that moves neither the files nor the cursor is none of Mirror's.
LEMMA MirrorStutters ==
  ASSUME QuietChain, NEW p \in Proc, Here' = Here, cursorFile' = cursorFile,
         Readable \/ (pc[p] # "write" /\ pc'[p] # "write")
  PROVE  UNCHANGED M!mvars
<1>1. (Readable' <=> Readable) /\ Cursor' = Cursor
  BY DEF Readable, Cursor
<1>2. MirrorCursor' = MirrorCursor
  BY <1>1, MirrorCursorIs
<1> QED BY <1>2 DEF M!mvars, Here

\* A rename and a delete land one path.
LEMMA MirrorLands ==
  ASSUME QuietChain, ChainInv, tree' \in Trees,
         NEW p \in Proc, Rename(p) \/ Delete(p)
  PROVE  M!MirrorNext
<1> DEFINE r == run[p]
           b == r.bundle
<1>1. pc[p] \in {"rename", "delete"} /\ cursorFile' = cursorFile
  BY DEF Rename, Delete
<1>2. /\ tree \in Trees /\ b \in Bundles /\ b.target \in Snapshots
      /\ Readable /\ Cursor = b.base /\ r.todo \in SUBSET Path
      /\ r.todo \subseteq Touched(Changes(b)) /\ ProgressFor(p)
  BY <1>1, RunFacts, LandingFacts DEF ChecksHoldFor
<1>3. PICK x \in Least(r.todo) : tree' = [tree EXCEPT ![x] = b.target[x]]
  <2>1. CASE Rename(p)
    BY <2>1 DEF Rename
  <2>2. CASE Delete(p)
    <3>1. PICK x \in Least(r.todo) : tree' = [tree EXCEPT ![x] = Absent]
      BY <2>2 DEF Delete
    <3>2. x \in Changes(b).deleted
      BY <1>2, <2>2, <3>1, LeastSubset DEF ProgressFor, Delete
    <3>3. b.target[x] = Absent
      BY <3>2 DEF Changes, Compute
    <3> QED BY <3>1, <3>3
  <2> QED BY <2>1, <2>2
<1>4. x \in Path /\ x \in M!Touched(M!Changes(b))
  BY <1>2, <1>3, LeastSubset, SameChanges
<1>5. Here' = [Here EXCEPT ![x] = b.target[x]]
  <2>1. \A y \in Path : tree'[y] = IF y = x THEN b.target[x] ELSE tree[y]
    BY <1>2, <1>3 DEF Trees
  <2>2. b.target[x] \in Entry \cup {Absent}
    BY <1>2, <1>4 DEF Snapshots
  <2>3. \A y \in Path : Here'[y] = IF y = x THEN b.target[x] ELSE Here[y]
    BY <1>2, <1>4, <2>1, <2>2, TakeIs, NodeAssumption DEF Here
  <2>4. Here \in Snapshots /\ Here' \in Snapshots
    BY <1>2, TakeIs DEF Here
  <2> QED BY <1>4, <2>3, <2>4 DEF Snapshots
<1>6. MirrorCursor = b.base /\ MirrorCursor' = MirrorCursor
  BY <1>1, <1>2, MirrorCursorIs DEF Readable, Cursor
<1>7. M!Land(b, x)
  BY <1>4, <1>5, <1>6 DEF M!Land, Here
<1> QED BY <1>2, <1>4, <1>7 DEF M!MirrorNext

\* A completed write records the target; a death before it loses the cursor.
LEMMA MirrorRecords ==
  ASSUME QuietChain, ChainInv, NEW p \in Proc, pc[p] = "write",
         Write(p) \/ Die(p)
  PROVE  M!MirrorNext
<1> DEFINE b == run[p].bundle
<1>1. /\ b \in Bundles /\ b.target \in Snapshots /\ cursorFile = Truncated
      /\ Here = b.target /\ Here' = Here /\ pc \in [Proc -> Ended \cup Phase]
  BY RunFacts, SavedFacts DEF ProgressFor, Write, Die, Here
<1>2. MirrorCursor = b.base
  BY <1>1, MirrorCursorIs DEF Readable
<1>3. MirrorCursor' \in {b.target, Torn}
  <2>1. CASE Write(p)
    <3>1. cursorFile' = b.target
      BY <1>1, <2>1 DEF Write
    <3>2. Readable' /\ Cursor' = b.target
      BY <1>1, <3>1, CursorAssumption DEF Readable, Cursor
    <3> QED BY <3>2, MirrorCursorIs
  <2>2. CASE Die(p)
    <3>1. cursorFile' = Truncated /\ pc'[p] = "died"
      BY <1>1, <2>2 DEF Die, End
    <3>2. ~ Readable'
      BY <3>1 DEF Readable
    <3> QED BY <3>1, <3>2, MirrorCursorIs
  <2> QED BY <2>1, <2>2
<1>4. M!Record(b)
  BY <1>1, <1>2, <1>3 DEF M!Record, Here
<1> QED BY <1>1, <1>4 DEF M!MirrorNext

LEMMA MirrorInits ==
  ASSUME Init PROVE M!MirrorInit
<1>1. tree \in Trees
  BY InitType DEF TypeOK, TreeOK
<1>2. \A x \in Path : tree[x] = Absent
  BY DEF Init
<1>3. Take(tree, NoRules) = M!EmptySnapshot
  BY <1>1, <1>2 DEF Take, Read, M!EmptySnapshot
<1>4. MirrorCursor = M!EmptySnapshot
  BY CursorAssumption
     DEF Init, MirrorCursor, Readable, Cursor, EmptySnapshot, M!EmptySnapshot
<1> QED BY <1>3, <1>4 DEF M!MirrorInit

LEMMA MirrorSteps ==
  ASSUME QuietChain, ChainInv, [Next]_vars PROVE [M!MirrorNext]_(M!mvars)
<1>1. TypeOK /\ tree \in Trees /\ tree' \in Trees
  BY NextType DEF ChainInv, Inv, TypeOK, TreeOK
<1>2. CASE UNCHANGED vars
  BY <1>2 DEF vars, M!mvars, Take, Read, MirrorCursor, Readable, Cursor
<1>3. ASSUME NEW p \in Proc, Start(p) \/ Step(p) \/ Die(p)
      PROVE  [M!MirrorNext]_(M!mvars)
  <2>0. pc \in [Proc -> Ended \cup Phase] /\ ProgressFor(p)
    BY RunFacts
  <2>1. CASE Rename(p) \/ Delete(p)
    BY <1>1, <2>1, MirrorLands
  <2>2. CASE pc[p] = "write" /\ (Write(p) \/ Die(p))
    BY <2>2, MirrorRecords
  <2>3. CASE MkdirParent(p) \/ Prune(p)
    <3>1. pc[p] \in Landing /\ cursorFile' = cursorFile
      BY <2>3 DEF MkdirParent, Prune
    <3>2. Here' = Here
      <4>1. CASE MkdirParent(p)
        <5>1. PICK d : CanMkdir(d) /\ tree' = [tree EXCEPT ![d] = Dir]
          BY <4>1 DEF MkdirParent
        <5>2. \A y \in Path : tree'[y] = IF y = d THEN Dir ELSE tree[y]
          BY <1>1, <5>1 DEF Trees
        <5> QED BY <1>1, <5>1, <5>2, FilesStay, NodeAssumption DEF CanMkdir
      <4>2. CASE Prune(p)
        <5>1. PICK d \in Deepest(run[p].dirs) :
                Removable(tree, d) /\ tree' = [tree EXCEPT ![d] = Absent]
          BY <4>2 DEF Prune
        <5>2. tree[d] = Dir
          BY <4>2, <5>1, RunFacts DEF Prune, Deepest, ChecksHoldFor, Removable
        <5>3. \A y \in Path : tree'[y] = IF y = d THEN Absent ELSE tree[y]
          BY <1>1, <5>1 DEF Trees
        <5> QED BY <1>1, <5>2, <5>3, FilesStay, NodeAssumption
      <4> QED BY <2>3, <4>1, <4>2
    <3> QED BY <3>1, <3>2, LandingFacts, MirrorStutters
  <2>4. CASE Truncate(p)
    <3>1. /\ pc[p] = "delete" /\ pc'[p] = "write" /\ run' = run
          /\ cursorFile' = Truncated /\ Here' = Here
      BY <2>0, <2>4 DEF Truncate, Here
    <3>2. Readable /\ Cursor = run[p].bundle.base /\ ~ Readable'
      BY <3>1, LandingFacts DEF Readable
    <3>3. MirrorCursor' = MirrorCursor
      BY <3>1, <3>2, MirrorCursorIs
    <3> QED BY <3>1, <3>3 DEF M!mvars, Here
  <2>5. CASE Start(p)
    <3>1. UNCHANGED <<tree, cursorFile>> /\ pc[p] # "write" /\ pc'[p] # "write"
      BY <2>0, <2>5 DEF Start, RefuseCursor, RefuseContinuity, Begin, Idle, End
    <3> QED BY <3>1, MirrorStutters DEF Here
  <2>6. CASE pc[p] # "write" /\ Die(p)
    <3>1. UNCHANGED <<tree, cursorFile>> /\ pc'[p] # "write"
      BY <2>0, <2>6 DEF Die, End
    <3> QED BY <2>6, <3>1, MirrorStutters DEF Here
  <2>7. CASE \/ CheckPath(p) \/ CheckBlocked(p) \/ RefuseConflicts(p)
             \/ FinishDryRun(p) \/ Stage(p) \/ StatParents(p)
             \/ MkdirBlocked(p) \/ MkdirFails(p) \/ RenameFails(p)
             \/ StartDeletes(p) \/ DeleteFails(p) \/ StopPrune(p)
             \/ LoadRules(p) \/ BadRules(p) \/ ListRoot(p) \/ WalkDir(p)
             \/ StatFile(p) \/ HashFile(p) \/ WalkFails(p) \/ Compare(p)
    <3>1. UNCHANGED <<tree, cursorFile>> /\ pc[p] # "write" /\ pc'[p] # "write"
      BY <2>0, <2>7
         DEF CheckPath, CheckBlocked, Checked, RefuseConflicts, FinishDryRun,
             Stage, Loop, End, StatParents, MkdirBlocked, MkdirFails,
             RenameFails, StartDeletes, DeleteFails, StopPrune, LoadRules,
             BadRules, ListRoot, WalkDir, StatFile, HashFile, WalkFails, Walked,
             Compare
    <3> QED BY <3>1, MirrorStutters DEF Here
  <2>8. Write(p) => pc[p] = "write"
    BY DEF Write
  <2> QED BY <1>3, <2>1, <2>2, <2>3, <2>4, <2>5, <2>6, <2>7, <2>8 DEF Step
<1>4. CASE Next
  BY <1>1, <1>3, <1>4, NoEditsHere DEF Next
<1> QED BY <1>2, <1>4

\* The runs implement Mirror: their destination goes from one state of the
\* chain to the next path by path, and its cursor moves last.
THEOREM RunsImplementMirror ==
  ASSUME QuietChain PROVE Spec => ImplementsMirror
<1>1. Init => M!MirrorInit
  BY MirrorInits
<1>2. ChainInv /\ [Next]_vars => [M!MirrorNext]_(M!mvars)
  BY MirrorSteps
<1> QED BY <1>1, <1>2, ChainInvariant, PTL DEF Spec, ImplementsMirror, M!MirrorSpec

-----------------------------------------------------------------------------
(* In order, whatever is edited or forced.                                  *)

\* From its continuity check to its save a run keeps the cursor it checked.
CursorKept ==
  \A p \in Proc : pc[p] \in {"check"} \cup Landing =>
    run[p].opt.force \/ (Readable /\ Cursor = run[p].bundle.base)

\* A step before the save changes neither the cursor nor whose bundle it is.
LEMMA StepKeepsCursor ==
  ASSUME TypeOK, NEW p \in Proc, Step(p), pc'[p] \in {"check"} \cup Landing
  PROVE  /\ pc[p] \in {"check"} \cup Landing
         /\ cursorFile' = cursorFile
         /\ run'[p].bundle = run[p].bundle /\ run'[p].opt = run[p].opt
<1>1. pc \in [Proc -> Ended \cup Phase] /\ run \in [Proc -> Run \cup {NoRun}]
  BY DEF TypeOK, RunsOK
<1>2. ASSUME pc[p] \in {"check"} \cup Landing
      PROVE  run[p] \in Run
  BY <1>2, RunType DEF TypeOK
<1>3. CASE CheckPath(p)
  <2>1. PICK T, C : run' = [run EXCEPT ![p].todo = T, ![p].conflicts = C]
    BY <1>3 DEF CheckPath
  <2>2. run'[p] = [run[p] EXCEPT !.todo = T, !.conflicts = C]
    BY <1>1, <2>1
  <2>3. run[p] \in Run
    BY <1>2, <1>3 DEF CheckPath
  <2> QED BY <1>3, <2>2, <2>3 DEF CheckPath, Run
<1>4. CASE Stage(p) \/ Rename(p) \/ StartDeletes(p)
  <2>1. PICK ph, T : Loop(p, ph, T)
    BY <1>4 DEF Stage, Rename, StartDeletes
  <2>2. run'[p] = [run[p] EXCEPT !.todo = T]
    BY <1>1, <2>1 DEF Loop
  <2>3. run[p] \in Run
    BY <1>2, <1>4 DEF Stage, Checked, Rename, StartDeletes
  <2> QED BY <1>4, <2>2, <2>3 DEF Stage, Checked, Rename, StartDeletes, Run
<1>5. CASE StatParents(p) \/ MkdirParent(p)
  <2>1. PICK D : run' = [run EXCEPT ![p].dirs = D]
    BY <1>5 DEF StatParents, MkdirParent
  <2>2. run'[p] = [run[p] EXCEPT !.dirs = D]
    BY <1>1, <2>1
  <2>3. run[p] \in Run
    BY <1>2, <1>5 DEF StatParents, MkdirParent
  <2> QED BY <1>5, <2>2, <2>3 DEF StatParents, MkdirParent, Run
<1>6. CASE Delete(p)
  <2>1. PICK T, D : run' = [run EXCEPT ![p].todo = T, ![p].dirs = D]
    BY <1>6 DEF Delete
  <2>2. run'[p] = [run[p] EXCEPT !.todo = T, !.dirs = D]
    BY <1>1, <2>1
  <2>3. run[p] \in Run
    BY <1>2, <1>6 DEF Delete
  <2> QED BY <1>6, <2>2, <2>3 DEF Delete, Run
<1>7. CASE Prune(p) \/ StopPrune(p)
  <2>1. PICK D : run' = [run EXCEPT ![p].dirs = D]
    BY <1>7 DEF Prune, StopPrune
  <2>2. run'[p] = [run[p] EXCEPT !.dirs = D]
    BY <1>1, <2>1
  <2>3. run[p] \in Run
    BY <1>2, <1>7 DEF Prune, StopPrune
  <2> QED BY <1>7, <2>2, <2>3 DEF Prune, StopPrune, Run
<1>8. CASE \/ Truncate(p) \/ Write(p) \/ LoadRules(p) \/ ListRoot(p)
           \/ WalkDir(p) \/ StatFile(p) \/ HashFile(p)
  BY <1>1, <1>8 DEF Truncate, Write, End, LoadRules, ListRoot, WalkDir, StatFile,
                    HashFile
<1>9. CASE \/ CheckBlocked(p) \/ RefuseConflicts(p) \/ FinishDryRun(p)
           \/ MkdirBlocked(p) \/ MkdirFails(p) \/ RenameFails(p)
           \/ DeleteFails(p) \/ BadRules(p) \/ WalkFails(p) \/ Compare(p)
  <2>1. \E result \in Ended : End(p, result)
    BY <1>9 DEF CheckBlocked, RefuseConflicts, FinishDryRun, MkdirBlocked,
                MkdirFails, RenameFails, DeleteFails, BadRules, WalkFails, Compare
  <2> QED BY <1>1, <2>1 DEF End
<1> QED BY <1>3, <1>4, <1>5, <1>6, <1>7, <1>8, <1>9 DEF Step

LEMMA CursorKeptNext ==
  ASSUME \A p, q \in Proc : p = q, TypeOK, CursorKept, [Next]_vars
  PROVE  CursorKept'
<1> SUFFICES ASSUME NEW p \in Proc, pc'[p] \in {"check"} \cup Landing
             PROVE  run'[p].opt.force \/ (Readable' /\ Cursor' = run'[p].bundle.base)
  BY DEF CursorKept
<1>0. pc \in [Proc -> Ended \cup Phase] /\ run \in [Proc -> Run \cup {NoRun}]
  BY DEF TypeOK, RunsOK
<1>1. CASE UNCHANGED <<cursorFile, pc, run>>
  BY <1>1 DEF CursorKept, Readable, Cursor
<1>2. CASE Start(p)
  <2>1. PICK b \in Bundles, o \in Options : Begin(p, b, o)
    BY <1>0, <1>2 DEF Start, RefuseCursor, RefuseContinuity, End
  <2>2. /\ run'[p].bundle = b /\ run'[p].opt = o /\ cursorFile' = cursorFile
        /\ Readable /\ (Cursor = b.base \/ o.force)
    BY <1>0, <2>1 DEF Begin
  <2> QED BY <2>2 DEF Readable, Cursor
<1>3. CASE Step(p)
  BY <1>3, StepKeepsCursor DEF CursorKept, Readable, Cursor
<1>4. CASE Die(p) \/ LoseStateDir
  BY <1>0, <1>4 DEF Die, End, LoseStateDir, Idle
<1>5. ASSUME NEW x \in Path, NEW n \in EditNodes, LocalEdit(x, n)
      PROVE  UNCHANGED <<cursorFile, pc, run>>
  BY <1>5 DEF LocalEdit
<1> QED BY <1>1, <1>2, <1>3, <1>4, <1>5 DEF Next, vars

\* In order: one run at a time saves its target only over the cursor its
\* bundle starts from, unless it is forced, whatever users do to the tree
\* and to .sneakpack between the runs.
THEOREM AppliedInOrder ==
  ASSUME \A p, q \in Proc : p = q PROVE Spec => InOrder
<1>1. Init => CursorKept
  BY DEF Init, CursorKept
<1>2. TypeOK /\ CursorKept /\ [Next]_vars => CursorKept'
  BY CursorKeptNext
<1>3. CursorKept =>
        [\A p \in Proc : Truncate(p) =>
           run[p].opt.force \/ (Readable /\ Cursor = run[p].bundle.base)]_vars
  BY DEF CursorKept, Truncate
<1> QED BY <1>1, <1>2, <1>3, TypeCorrect, PTL DEF Spec, InOrder
=============================================================================
