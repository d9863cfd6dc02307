---------------------------- MODULE CourierProofs ----------------------------
(* The loop of Courier, for every source, universe of paths and number of   *)
(* bundles: its types, and that with one run at a time that nobody forces   *)
(* the destination's cursor tells the truth.                                *)
EXTENDS Courier, ApplyChainProofs

USE DEF Ended, Landing, Phase

\* The destination is at a state the source knows.
CursorKnown == Readable => Cursor \in Known

\* ... and a bundle that was packed leads there.
CursorShelved ==
  Readable => Cursor = EmptySnapshot \/ \E b \in shelf : b.target = Cursor

\* Nothing but a file takes the place of the ignore file.
IgnoreFileKept == tree[IgnoreFile] \in Entry \cup {Absent}

\* Between runs, and until one lands, the destination is what its cursor
\* lists, but for what unfinished runs have left.
RestIsTrue ==
  Readable /\ AtRest => \A x \in Path \ stray : Here[x] = Cursor[x]

\* What a run has still to do, of what its bundle changes.
DeliveryFor(p) ==
  LET r == run[p]
      b == r.bundle
      payload == PayloadFiles(Changes(b))
      deleted == Changes(b).deleted
  IN  /\ pc[p] \in {"check", "write"} \cup Landing => b \in shelf
      /\ pc[p] \in {"check"} \cup Landing =>
           Readable /\ Cursor = b.base /\ ~ r.opt.force
      /\ pc[p] \in Landing =>
           \A x \in Path \ (stray \cup Touched(Changes(b))) : Here[x] = b.base[x]
      /\ pc[p] \in {"mkdir", "rename"} =>
           r.todo \subseteq payload /\ \A x \in payload \ r.todo : tree[x] = b.target[x]
      /\ pc[p] = "rename" => IgnoreFile \notin r.dirs
      /\ pc[p] \in {"delete", "prune"} =>
           /\ r.todo \subseteq deleted
           /\ \A x \in payload : tree[x] = b.target[x]
           /\ \A x \in deleted \ r.todo : tree[x] = Absent
      /\ pc[p] = "write" =>
           cursorFile = Truncated /\ \A x \in Path \ stray : Here[x] = b.target[x]
      /\ late[p] = {}

Delivery == \A p \in Proc : DeliveryFor(p)

LoopInv ==
  /\ CourierTypeOK /\ Inv /\ CursorKnown /\ CursorShelved
  /\ IgnoreFileKept /\ RestIsTrue /\ Delivery

-----------------------------------------------------------------------------
(* Types.                                                                   *)

\* What a source is to pack is one of the states there can be.
LEMMA KnownStates ==
  /\ Known \subseteq Snapshots
  /\ \A b \in Bundles : b.base \in Known /\ b.target \in Known
<1>1. \A t \in SourceTrees : TakeTree(t) \in Snapshots
  BY SourceTreesAssumption, ReadType DEF TakeTree, Take, Snapshots
<1>2. EmptySnapshot \in Snapshots
  BY DEF EmptySnapshot, Snapshots
<1>3. \A b \in Bundles : b.base \in Known /\ b.target \in Known
  BY SourceTreesAssumption DEF Known
<1> QED BY <1>1, <1>2, <1>3 DEF Known

\* The steps of the loop at the destination are steps of Apply.
LEMMA LoopSteps ==
  ASSUME CourierNext
  PROVE  \/ /\ Change \/ CmdSnapshot \/ CmdCursor
               \/ \E keep \in BOOLEAN, empty \in AllowEmpty :
                    PackFull(keep, empty) \/ PackSince(keep, empty)
            /\ UNCHANGED <<vars, stray>>
         \/ /\ UNCHANGED sourceSide
            /\ \E p \in Proc :
                 \/ /\ UNCHANGED stray
                    /\ \E b \in shelf, o \in Options :
                         \/ Begin(p, b, o) /\ b \in Bundles
                         \/ RefuseCursor(p, b, o) /\ b \in Bundles
                         \/ RefuseContinuity(p, b, o) /\ b \in Bundles
                 \/ Strays(p) /\ (Step(p) \/ Die(p))
<1>1. CASE Change \/ CmdSnapshot \/ CmdCursor
  BY <1>1 DEF Change, CmdSnapshot, CmdCursor
<1>2. ASSUME NEW keep \in BOOLEAN, NEW empty \in AllowEmpty,
             PackFull(keep, empty) \/ PackSince(keep, empty)
      PROVE  UNCHANGED <<vars, stray>>
  BY <1>2 DEF PackFull, PackSince, CmdPack
<1>3. ASSUME NEW p \in Proc, NEW b \in Bundles, NEW o \in Options,
             CourierBegin(p, b, o) \/ CourierRefuse(p, b, o)
      PROVE  /\ UNCHANGED sourceSide /\ UNCHANGED stray /\ b \in shelf
             /\ Begin(p, b, o) \/ RefuseCursor(p, b, o) \/ RefuseContinuity(p, b, o)
  BY <1>3 DEF CourierBegin, CourierRefuse
<1>4. ASSUME NEW p \in Proc, CourierStep(p) \/ CourierDie(p)
      PROVE  UNCHANGED sourceSide /\ Strays(p) /\ (Step(p) \/ Die(p))
  BY <1>4 DEF CourierStep, CourierDie
<1> QED BY <1>1, <1>2, <1>3, <1>4 DEF CourierNext

\* The destination of the loop is that of Apply.
LEMMA LoopIsApply == [CourierNext]_cvars => [Next]_vars
<1>1. CASE UNCHANGED cvars
  BY <1>1 DEF cvars
<1>2. CASE CourierNext
  BY <1>2, LoopSteps DEF Next, Start
<1> QED BY <1>1, <1>2

\* The source keeps to its trees and to cursors that are known.
LEMMA NextCourierType ==
  ASSUME CourierTypeOK, CursorKnown, [CourierNext]_cvars
  PROVE  CourierTypeOK'
<1>1. TypeOK'
  BY NextType, LoopIsApply DEF CourierTypeOK
<1>2. /\ src \in SourceTrees /\ changes \in 0..MaxChanges /\ MaxChanges \in Nat
      /\ shelf \subseteq Bundles /\ note \in Known \cup {NoFile}
      /\ stray \subseteq Path
  BY CourierBoundsAssumption DEF CourierTypeOK
<1>3. CASE UNCHANGED <<sourceSide, stray>>
  BY <1>1, <1>2, <1>3 DEF sourceSide, CourierTypeOK
<1>4. CASE Change
  BY <1>1, <1>2, <1>4 DEF Change, CourierTypeOK
<1>5. ASSUME NEW base \in Known, NEW keep, NEW empty, CmdPack(base, keep, empty)
      PROVE  CourierTypeOK'
  <2>1. [base |-> base, target |-> TakeTree(src)] \in Bundles
    BY <1>2, SourceTreesAssumption
  <2>2. TakeTree(src) \in Known
    BY <1>2 DEF Known
  <2>3. /\ shelf' = shelf \cup {[base |-> base, target |-> TakeTree(src)]}
        /\ note' \in {TakeTree(src), note}
        /\ UNCHANGED <<src, changes, stray>>
    BY <1>5 DEF CmdPack
  <2> QED BY <1>1, <1>2, <2>1, <2>2, <2>3 DEF CourierTypeOK
<1>6. ASSUME NEW keep \in BOOLEAN, NEW empty \in AllowEmpty,
             PackFull(keep, empty) \/ PackSince(keep, empty)
      PROVE  CourierTypeOK'
  BY <1>2, <1>5, <1>6 DEF PackFull, PackSince, Known
<1>7. CASE CmdSnapshot
  BY <1>1, <1>2, <1>7 DEF CmdSnapshot, Known, CourierTypeOK
<1>8. CASE CmdCursor
  BY <1>1, <1>2, <1>8 DEF CmdCursor, CursorKnown, CourierTypeOK
<1>9. ASSUME NEW p \in Proc, UNCHANGED sourceSide, Strays(p) PROVE CourierTypeOK'
  <2>1. stray' \subseteq Path
    BY <1>2, <1>9, TouchedType DEF Strays
  <2> QED BY <1>1, <1>2, <1>9, <2>1 DEF sourceSide, CourierTypeOK
<1>10. CASE CourierNext
  BY <1>3, <1>4, <1>6, <1>7, <1>8, <1>9, <1>10, LoopSteps
<1> QED BY <1>3, <1>10 DEF cvars

\* The cursor the destination saves is a bundle's target.
LEMMA NextCursorKnown ==
  ASSUME CourierTypeOK, CursorKnown, [CourierNext]_cvars
  PROVE  CursorKnown'
<1>1. ASSUME UNCHANGED cursorFile PROVE CursorKnown'
  BY <1>1 DEF CursorKnown, Readable, Cursor
<1>2. ASSUME NEW p \in Proc, Write(p) PROVE CursorKnown'
  <2>1. run[p].bundle.target \in Known
    BY <1>2, RunType, KnownStates DEF Write, CourierTypeOK, TypeOK, RunsOK, Run
  <2> QED BY <1>2, <2>1 DEF Write, CursorKnown, Readable, Cursor, Known
<1>3. ASSUME NEW p \in Proc, Truncate(p) PROVE CursorKnown'
  BY <1>3 DEF Truncate, CursorKnown, Readable
<1>4. ASSUME NEW p \in Proc, Die(p) PROVE UNCHANGED cursorFile
  BY <1>4 DEF Die
<1>5. ASSUME NEW p \in Proc, Step(p), ~ Write(p), ~ Truncate(p)
      PROVE  UNCHANGED cursorFile
  BY <1>5
     DEF Step, CheckPath, CheckBlocked, RefuseConflicts, FinishDryRun, Stage,
         StatParents, MkdirBlocked, MkdirParent, MkdirFails, Rename,
         RenameFails, StartDeletes, Delete, DeleteFails, Prune, StopPrune,
         LoadRules, BadRules, ListRoot, WalkDir, StatFile, HashFile, WalkFails,
         Compare
<1>6. ASSUME NEW p \in Proc, NEW b \in Bundles, NEW o \in Options,
             Begin(p, b, o) \/ RefuseCursor(p, b, o) \/ RefuseContinuity(p, b, o)
      PROVE  UNCHANGED cursorFile
  BY <1>6 DEF Begin, RefuseCursor, RefuseContinuity
<1>7. CASE UNCHANGED vars
  BY <1>1, <1>7 DEF vars
<1>8. CASE CourierNext
  BY <1>1, <1>2, <1>3, <1>4, <1>5, <1>6, <1>7, <1>8, LoopSteps
<1> QED BY <1>7, <1>8 DEF cvars

LEMMA CourierInitHolds ==
  ASSUME CourierInit PROVE CourierTypeOK /\ CursorKnown
<1>1. TypeOK
  BY InitType DEF CourierInit
<1>2. Readable => Cursor = EmptySnapshot
  BY DEF CourierInit, Init, Cursor
<1> QED BY <1>1, <1>2, CourierBoundsAssumption
       DEF CourierInit, CourierTypeOK, CursorKnown, Known

\* Type correctness of the loop: among others, no cursor file at the source
\* and no base of a bundle names a state the source never was in.
THEOREM CourierTypeCorrect == CourierSpec => []CourierTypeOK
<1>1. CourierInit => CourierTypeOK /\ CursorKnown
  BY CourierInitHolds
<1>2. CourierTypeOK /\ CursorKnown /\ [CourierNext]_cvars
        => (CourierTypeOK /\ CursorKnown)'
  BY NextCourierType, NextCursorKnown
<1> QED BY <1>1, <1>2, PTL DEF CourierSpec

-----------------------------------------------------------------------------
(* One run at a time, that nobody forces.                                   *)

\* What a step of the destination is to keep, besides its types.
LoopStep == CursorShelved' /\ IgnoreFileKept' /\ RestIsTrue' /\ Delivery'

\* What is known of the destination and of its run.
LEMMA LoopFacts ==
  ASSUME LoopInv, NEW p \in Proc
  PROVE  /\ TypeOK /\ RunsOK /\ tree \in Trees /\ shelf \subseteq Bundles
         /\ pc \in [Proc -> Ended \cup Phase] /\ run \in [Proc -> Run \cup {NoRun}]
         /\ late \in [Proc -> SUBSET Path] /\ late[p] = {} /\ stray \subseteq Path
         /\ DeliveryFor(p) /\ ChecksHoldFor(p)
         /\ IgnoreFileKept /\ RestIsTrue /\ CursorShelved /\ CursorKnown
         /\ pc[p] \in Phase => run[p] \in Run /\ run[p].bundle \in Bundles
BY RunType DEF LoopInv, CourierTypeOK, Inv, TypeOK, RunsOK, TreeOK, ChecksHold,
               Delivery, DeliveryFor, Run

\* With one process, its delivery is all there is, and rest is its rest.
LEMMA OneDelivery ==
  ASSUME OneUser, NEW p \in Proc
  PROVE  /\ DeliveryFor(p)' => Delivery'
         /\ AtRest <=> pc[p] \notin Landing \cup {"write"}
         /\ AtRest' <=> pc'[p] \notin Landing \cup {"write"}
<1>1. \A q \in Proc : q = p
  BY DEF OneUser
<1> QED BY <1>1 DEF Delivery, AtRest

\* A step between two moments of rest that moves nothing.
LEMMA RestStays ==
  ASSUME OneUser, LoopInv, NEW p \in Proc,
         UNCHANGED <<tree, cursorFile, shelf, stray>>,
         pc[p] \notin Landing \cup {"write"}, pc'[p] \notin Landing \cup {"write"},
         pc'[p] = "check" => /\ run'[p].bundle \in shelf /\ ~ run'[p].opt.force
                             /\ Readable /\ Cursor = run'[p].bundle.base,
         late'[p] = {}
  PROVE  LoopStep
<1>1. (Readable' <=> Readable) /\ Cursor' = Cursor /\ Here' = Here
  BY DEF Readable, Cursor, Here
<1>2. DeliveryFor(p)'
  BY <1>1 DEF DeliveryFor
<1>3. RestIsTrue'
  BY <1>1, LoopFacts, OneDelivery DEF RestIsTrue
<1> QED BY <1>1, <1>2, <1>3, LoopFacts, OneDelivery
       DEF LoopStep, CursorShelved, IgnoreFileKept

\* A step of a run that lands, and goes on landing.
LEMMA LandingGoesOn ==
  ASSUME OneUser, LoopInv, NEW p \in Proc, pc'[p] \in Landing,
         UNCHANGED <<cursorFile, shelf>>, IgnoreFileKept', DeliveryFor(p)'
  PROVE  LoopStep
<1>1. (Readable' <=> Readable) /\ Cursor' = Cursor
  BY DEF Readable, Cursor
<1>2. RestIsTrue'
  BY OneDelivery DEF RestIsTrue
<1> QED BY <1>1, <1>2, LoopFacts, OneDelivery DEF LoopStep, CursorShelved

\* A run that stops in the middle leaves strays, and nothing else is wrong.
LEMMA LandingStops ==
  ASSUME OneUser, LoopInv, NEW p \in Proc, pc[p] \in Landing,
         UNCHANGED <<tree, cursorFile, shelf>>,
         NEW result \in Ended, End(p, result), Strays(p)
  PROVE  LoopStep
<1> DEFINE b == run[p].bundle
<1>1. /\ pc'[p] = result /\ late'[p] = {}
      /\ stray' = stray \cup Touched(Changes(b))
  BY LoopFacts DEF End, Strays
<1>2. (Readable' <=> Readable) /\ Cursor' = Cursor /\ Here' = Here
  BY DEF Readable, Cursor, Here
<1>3. RestIsTrue'
  <2>1. /\ Cursor = b.base
        /\ \A x \in Path \ (stray \cup Touched(Changes(b))) : Here[x] = b.base[x]
    BY LoopFacts DEF DeliveryFor
  <2> QED BY <1>1, <1>2, <2>1 DEF RestIsTrue
<1>4. DeliveryFor(p)'
  BY <1>1 DEF DeliveryFor
<1> QED BY <1>2, <1>3, <1>4, LoopFacts, OneDelivery
       DEF LoopStep, CursorShelved, IgnoreFileKept

\* The start of a run, with a bundle of the shelf.
LEMMA StartsLoop ==
  ASSUME OneUser, LoopInv, NEW p \in Proc, NEW b \in shelf, NEW o \in Options,
         \/ Begin(p, b, o) \/ RefuseCursor(p, b, o) \/ RefuseContinuity(p, b, o),
         UNCHANGED <<shelf, stray>>
  PROVE  LoopStep
<1>1. pc[p] \in Ended /\ UNCHANGED <<tree, cursorFile>>
  BY DEF Begin, RefuseCursor, RefuseContinuity, Idle
<1>2. CASE Begin(p, b, o)
  <2>1. /\ pc'[p] = "check" /\ late'[p] = {}
        /\ run'[p].bundle = b /\ run'[p].opt = o
    BY <1>2, LoopFacts DEF Begin
  <2>2. ~ o.force /\ Readable /\ Cursor = b.base
    BY <1>2 DEF Begin, OneUser
  <2> QED BY <1>1, <2>1, <2>2, RestStays
<1>3. CASE RefuseCursor(p, b, o) \/ RefuseContinuity(p, b, o)
  <2>1. pc'[p] \in Ended /\ late'[p] = {}
    BY <1>3, LoopFacts DEF RefuseCursor, RefuseContinuity, End
  <2> QED BY <1>1, <2>1, RestStays
<1> QED BY <1>2, <1>3

\* The checks, and the verification, move nothing.
LEMMA QuietLoop ==
  ASSUME OneUser, LoopInv, NEW p \in Proc, Strays(p), UNCHANGED shelf,
         \/ CheckPath(p) \/ CheckBlocked(p) \/ RefuseConflicts(p)
         \/ FinishDryRun(p) \/ LoadRules(p) \/ BadRules(p) \/ ListRoot(p)
         \/ WalkDir(p) \/ StatFile(p) \/ HashFile(p) \/ WalkFails(p)
         \/ Compare(p)
  PROVE  LoopStep
<1>1. /\ UNCHANGED <<tree, cursorFile>> /\ pc[p] \notin Landing \cup {"write"}
      /\ pc'[p] \notin Landing \cup {"write"}
  BY LoopFacts
     DEF CheckPath, CheckBlocked, Checked, RefuseConflicts, FinishDryRun,
         LoadRules, BadRules, ListRoot, WalkDir, StatFile, HashFile, WalkFails,
         Walked, Compare, End
<1>2. late'[p] = {}
  BY LoopFacts
     DEF CheckPath, CheckBlocked, RefuseConflicts, FinishDryRun, LoadRules,
         BadRules, ListRoot, WalkDir, StatFile, HashFile, WalkFails, Compare, End
<1>3. UNCHANGED stray
  BY <1>1 DEF Strays
<1>4. pc'[p] = "check" => pc[p] = "check" /\ Step(p)
  BY LoopFacts
     DEF CheckPath, CheckBlocked, Checked, RefuseConflicts, FinishDryRun,
         LoadRules, BadRules, ListRoot, WalkDir, StatFile, HashFile, WalkFails,
         Walked, Compare, End, Step
<1>5. pc'[p] = "check" =>
        /\ run'[p].bundle \in shelf /\ ~ run'[p].opt.force
        /\ Readable /\ Cursor = run'[p].bundle.base
  BY <1>4, LoopFacts, StepKeepsCursor DEF DeliveryFor
<1> QED BY <1>1, <1>2, <1>3, <1>5, RestStays

\* A run that stops by itself, or dies.
LEMMA StopsLoop ==
  ASSUME OneUser, LoopInv, NEW p \in Proc, Strays(p), UNCHANGED shelf,
         \/ MkdirBlocked(p) \/ MkdirFails(p) \/ RenameFails(p)
         \/ DeleteFails(p) \/ Die(p)
  PROVE  LoopStep
<1>1. UNCHANGED <<tree, cursorFile>> /\ pc[p] \in Phase
      /\ \E result \in Ended : End(p, result)
  BY LoopFacts DEF MkdirBlocked, MkdirFails, RenameFails, DeleteFails, Die, Idle
<1>2. pc'[p] \in Ended /\ late'[p] = {}
  BY <1>1, LoopFacts DEF End
<1>3. CASE pc[p] \in Landing
  BY <1>1, <1>3, LandingStops
<1>4. CASE pc[p] = "write"
  <2>1. ~ Readable'
    BY <1>1, <1>4, LoopFacts DEF DeliveryFor, Readable
  <2>2. DeliveryFor(p)'
    BY <1>2 DEF DeliveryFor
  <2> QED BY <1>1, <2>1, <2>2, LoopFacts, OneDelivery
         DEF LoopStep, CursorShelved, RestIsTrue, IgnoreFileKept
<1>5. CASE pc[p] \notin Landing \cup {"write"}
  <2>1. UNCHANGED stray
    BY <1>2, <1>5 DEF Strays
  <2> QED BY <1>1, <1>2, <1>5, <2>1, RestStays
<1> QED BY <1>3, <1>4, <1>5

-----------------------------------------------------------------------------
(* Landing.                                                                 *)

\* What a run that goes on to land keeps.
LEMMA LandingKeeps ==
  ASSUME OneUser, LoopInv, NEW p \in Proc, Step(p), Strays(p), UNCHANGED shelf,
         pc'[p] \in Landing
  PROVE  /\ pc[p] \in {"check"} \cup Landing /\ run[p] \in Run
         /\ run'[p].bundle = run[p].bundle /\ run'[p].opt = run[p].opt
         /\ run[p].bundle \in shelf' /\ ~ run[p].opt.force
         /\ Readable' /\ Cursor' = run[p].bundle.base /\ cursorFile' = cursorFile
         /\ run[p].bundle.base \in Snapshots /\ run[p].bundle.target \in Snapshots
         /\ stray' = stray /\ Cursor = run[p].bundle.base /\ Readable
<1>1. /\ pc[p] \in {"check"} \cup Landing /\ cursorFile' = cursorFile
      /\ run'[p].bundle = run[p].bundle /\ run'[p].opt = run[p].opt
  BY LoopFacts, StepKeepsCursor
<1>2. /\ run[p] \in Run /\ run[p].bundle \in Bundles /\ run[p].bundle \in shelf
      /\ Readable /\ Cursor = run[p].bundle.base /\ ~ run[p].opt.force
  BY <1>1, LoopFacts DEF DeliveryFor
<1>3. stray' = stray
  BY DEF Strays
<1> QED BY <1>1, <1>2, <1>3, BundleStates DEF Readable, Cursor

LEMMA StageLoop ==
  ASSUME OneUser, LoopInv, NEW p \in Proc, Strays(p), UNCHANGED shelf, Stage(p)
  PROVE  LoopStep
<1> DEFINE r == run[p]
           b == r.bundle
           S == PayloadFiles(Changes(b))
<1>1. /\ Step(p) /\ pc[p] = "check" /\ pc'[p] = "mkdir"
      /\ tree' = tree /\ late'[p] = {} /\ run'[p] = [r EXCEPT !.todo = S]
  BY LoopFacts DEF Step, Stage, Checked, Loop
<1>2. run'[p].todo = S
  BY <1>1, LandingKeeps DEF Run
<1>3. \A x \in Path \ (stray \cup Touched(Changes(b))) : Here'[x] = b.base[x]
  BY <1>1, LandingKeeps, LoopFacts, OneDelivery DEF RestIsTrue, Here
<1>4. DeliveryFor(p)'
  BY <1>1, <1>2, <1>3, LandingKeeps DEF DeliveryFor
<1> QED BY <1>1, <1>4, LandingKeeps, LandingGoesOn, LoopFacts DEF IgnoreFileKept

\* What travels with a bundle are files.
LEMMA PayloadEntries ==
  ASSUME NEW b, b.target \in Snapshots
  PROVE  \A x \in PayloadFiles(Changes(b)) : b.target[x] \in Entry
<1>1. \A x \in PayloadFiles(Changes(b)) : x \in Path /\ b.target[x] # Absent
  BY DEF PayloadFiles, Changes, Compute
<1> QED BY <1>1 DEF Snapshots

LEMMA StatParentsLoop ==
  ASSUME OneUser, LoopInv, NEW p \in Proc, Strays(p), UNCHANGED shelf,
         StatParents(p)
  PROVE  LoopStep
<1> DEFINE r == run[p]
           b == r.bundle
           payload == PayloadFiles(Changes(b))
<1>1. /\ Step(p) /\ pc[p] = "mkdir" /\ pc'[p] = "rename" /\ late'[p] = {}
      /\ tree' = tree /\ Here' = Here
  BY LoopFacts DEF Step, StatParents, Here
<1>2. /\ r.todo \subseteq payload /\ payload \subseteq Path
      /\ \A x \in payload \ r.todo : tree[x] = b.target[x]
      /\ \A x \in Path \ (stray \cup Touched(Changes(b))) : Here[x] = b.base[x]
      /\ b \in Bundles
  BY <1>1, LoopFacts, TouchedType DEF DeliveryFor
<1>3. PICK x \in Least(r.todo) :
        run' = [run EXCEPT ![p].dirs = {y \in Anc[x] : tree[y] = Absent}]
  BY DEF StatParents
<1>4. IgnoreFile \notin Anc[x]
  <2>1. x \in payload /\ x \in Path
    BY <1>2, <1>3, LeastSubset
  <2>2. PICK t \in SourceTrees : b.target = TakeTree(t)
    BY <1>2, SourceTreesAssumption
  <2>3. t[x] \in Entry /\ WellFormed(t) /\ RulesIn(t) # BadGlob
    BY <2>1, <2>2, SourceTreesAssumption
       DEF PayloadFiles, Changes, Compute, TakeTree, Take, Read
  <2> QED BY <2>1, <2>3, NodeAssumption DEF WellFormed, RulesIn
<1>5. run'[p].todo = r.todo /\ IgnoreFile \notin run'[p].dirs
  <2>1. run'[p] = [r EXCEPT !.dirs = {y \in Anc[x] : tree[y] = Absent}]
    BY <1>3, LoopFacts
  <2> QED BY <1>1, <1>4, <2>1, LandingKeeps DEF Run
<1>6. DeliveryFor(p)'
  BY <1>1, <1>2, <1>5, LandingKeeps DEF DeliveryFor
<1> QED BY <1>1, <1>6, LandingKeeps, LandingGoesOn, LoopFacts DEF IgnoreFileKept

LEMMA MkdirLoop ==
  ASSUME OneUser, LoopInv, NEW p \in Proc, Strays(p), UNCHANGED shelf,
         tree' \in Trees, MkdirParent(p)
  PROVE  LoopStep
<1> DEFINE r == run[p]
           b == r.bundle
           payload == PayloadFiles(Changes(b))
<1>1. /\ Step(p) /\ pc[p] = "rename" /\ pc'[p] = "rename" /\ late'[p] = {}
  BY LoopFacts DEF Step, MkdirParent, Notice
<1>2. /\ tree \in Trees /\ r.todo \subseteq payload /\ payload \subseteq Path
      /\ IgnoreFile \notin r.dirs
      /\ \A x \in payload \ r.todo : tree[x] = b.target[x]
      /\ \A x \in Path \ (stray \cup Touched(Changes(b))) : Here[x] = b.base[x]
  BY <1>1, LoopFacts, TouchedType DEF DeliveryFor
<1>3. PICK d \in Topmost(r.dirs) : /\ CanMkdir(d)
                                   /\ tree' = [tree EXCEPT ![d] = Dir]
                                   /\ run' = [run EXCEPT ![p].dirs = @ \ {d}]
  BY DEF MkdirParent
<1>4. \A y \in Path : tree'[y] = IF y = d THEN Dir ELSE tree[y]
  BY <1>2, <1>3 DEF Trees
<1>5. \A y \in Path : tree[y] \in Entry \/ tree'[y] \in Entry => tree'[y] = tree[y]
  BY <1>3, <1>4, NodeAssumption DEF CanMkdir
<1>6. Here' = Here
  BY <1>2, <1>5, FilesStay
<1>7. \A y \in payload \ r.todo : tree'[y] = b.target[y]
  <2>1. \A y \in payload : b.target[y] \in Entry
    BY <1>1, LandingKeeps, PayloadEntries
  <2> QED BY <1>2, <1>5, <2>1
<1>8. run'[p].todo = r.todo /\ run'[p].dirs = r.dirs \ {d}
  <2>1. run'[p] = [r EXCEPT !.dirs = @ \ {d}]
    BY <1>3, LoopFacts
  <2> QED BY <1>1, <2>1, LandingKeeps DEF Run
<1>9. IgnoreFileKept'
  <2>1. d # IgnoreFile
    BY <1>2, <1>3 DEF Topmost
  <2> QED BY <1>4, <2>1, LoopFacts, RulesAssumption DEF IgnoreFileKept
<1>10. DeliveryFor(p)'
  BY <1>1, <1>2, <1>6, <1>7, <1>8, LandingKeeps DEF DeliveryFor
<1> QED BY <1>1, <1>9, <1>10, LandingKeeps, LandingGoesOn

LEMMA RenameLoop ==
  ASSUME OneUser, LoopInv, NEW p \in Proc, Strays(p), UNCHANGED shelf,
         tree' \in Trees, Rename(p)
  PROVE  LoopStep
<1> DEFINE r == run[p]
           b == r.bundle
           payload == PayloadFiles(Changes(b))
<1>1. /\ Step(p) /\ pc[p] = "rename" /\ pc'[p] = "mkdir" /\ late'[p] = {}
  BY LoopFacts DEF Step, Rename, Notice, Loop
<1>2. /\ tree \in Trees /\ r.todo \subseteq payload /\ payload \subseteq Path
      /\ payload \subseteq Touched(Changes(b))
      /\ \A x \in payload \ r.todo : tree[x] = b.target[x]
      /\ \A x \in Path \ (stray \cup Touched(Changes(b))) : Here[x] = b.base[x]
  BY <1>1, LoopFacts, TouchedType DEF DeliveryFor
<1>3. PICK x \in Least(r.todo) :
        tree' = [tree EXCEPT ![x] = b.target[x]] /\ Loop(p, "mkdir", r.todo \ {x})
  BY DEF Rename
<1>4. x \in r.todo /\ x \in payload /\ x \in Path
  BY <1>2, <1>3, LeastSubset
<1>5. run'[p].todo = r.todo \ {x}
  <2>1. run'[p] = [r EXCEPT !.todo = r.todo \ {x}]
    BY <1>3, LoopFacts DEF Loop
  <2> QED BY <1>1, <2>1, LandingKeeps DEF Run
<1>6. \A y \in Path : tree'[y] = IF y = x THEN b.target[x] ELSE tree[y]
  BY <1>2, <1>3 DEF Trees
<1>7. \A y \in Path : y # x => Here'[y] = Here[y]
  BY <1>2, <1>6, TakeIs DEF Here
<1>8. IgnoreFileKept'
  <2>1. b.target[x] \in Entry \cup {Absent}
    BY <1>1, <1>4, LandingKeeps DEF Snapshots
  <2> QED BY <1>6, <2>1, LoopFacts, RulesAssumption DEF IgnoreFileKept
<1>9. \A y \in payload \ (r.todo \ {x}) : tree'[y] = b.target[y]
  BY <1>2, <1>6
<1>10. \A y \in Path \ (stray \cup Touched(Changes(b))) : Here'[y] = b.base[y]
  BY <1>2, <1>4, <1>7
<1>11. DeliveryFor(p)'
  BY <1>1, <1>2, <1>5, <1>9, <1>10, LandingKeeps DEF DeliveryFor
<1> QED BY <1>1, <1>8, <1>11, LandingKeeps, LandingGoesOn

LEMMA StartDeletesLoop ==
  ASSUME OneUser, LoopInv, NEW p \in Proc, Strays(p), UNCHANGED shelf,
         StartDeletes(p)
  PROVE  LoopStep
<1> DEFINE r == run[p]
           b == r.bundle
           S == Changes(b).deleted
<1>1. /\ Step(p) /\ pc[p] = "mkdir" /\ pc'[p] = "delete" /\ r.todo = {}
      /\ tree' = tree /\ late'[p] = {} /\ run'[p] = [r EXCEPT !.todo = S]
  BY LoopFacts DEF Step, StartDeletes, Loop
<1>2. run'[p].todo = S
  BY <1>1, LandingKeeps DEF Run
<1>3. DeliveryFor(p)'
  BY <1>1, <1>2, LandingKeeps, LoopFacts DEF DeliveryFor, Here
<1> QED BY <1>1, <1>3, LandingKeeps, LandingGoesOn, LoopFacts DEF IgnoreFileKept

LEMMA DeleteLoop ==
  ASSUME OneUser, LoopInv, NEW p \in Proc, Strays(p), UNCHANGED shelf,
         tree' \in Trees, Delete(p)
  PROVE  LoopStep
<1> DEFINE r == run[p]
           b == r.bundle
           payload == PayloadFiles(Changes(b))
           deleted == Changes(b).deleted
<1>1. /\ Step(p) /\ pc[p] = "delete" /\ pc'[p] = "prune" /\ late'[p] = {}
  BY LoopFacts DEF Step, Delete, Notice
<1>2. /\ tree \in Trees /\ r.todo \subseteq deleted
      /\ payload \subseteq Path /\ deleted \subseteq Path
      /\ deleted \subseteq Touched(Changes(b))
      /\ \A x \in payload : tree[x] = b.target[x]
      /\ \A x \in deleted \ r.todo : tree[x] = Absent
      /\ \A x \in Path \ (stray \cup Touched(Changes(b))) : Here[x] = b.base[x]
  BY <1>1, LoopFacts, TouchedType DEF DeliveryFor
<1>3. PICK x \in Least(r.todo) :
        /\ tree' = [tree EXCEPT ![x] = Absent]
        /\ run' = [run EXCEPT ![p].todo = @ \ {x}, ![p].dirs = Anc[x]]
  BY DEF Delete
<1>4. x \in r.todo /\ x \in deleted /\ x \in Path /\ x \notin payload
  BY <1>1, <1>2, <1>3, LeastSubset, CategoriesDisjoint, LandingKeeps DEF Changes
<1>5. run'[p].todo = r.todo \ {x}
  <2>1. run'[p] = [r EXCEPT !.todo = @ \ {x}, !.dirs = Anc[x]]
    BY <1>3, LoopFacts
  <2> QED BY <1>1, <2>1, LandingKeeps DEF Run
<1>6. \A y \in Path : tree'[y] = IF y = x THEN Absent ELSE tree[y]
  BY <1>2, <1>3 DEF Trees
<1>7. \A y \in Path : y # x => Here'[y] = Here[y]
  BY <1>2, <1>6, TakeIs DEF Here
<1>8. IgnoreFileKept'
  BY <1>6, LoopFacts, RulesAssumption DEF IgnoreFileKept
<1>9. /\ \A y \in payload : tree'[y] = b.target[y]
      /\ \A y \in deleted \ (r.todo \ {x}) : tree'[y] = Absent
  BY <1>2, <1>4, <1>6
<1>10. \A y \in Path \ (stray \cup Touched(Changes(b))) : Here'[y] = b.base[y]
  BY <1>2, <1>4, <1>7
<1>11. DeliveryFor(p)'
  BY <1>1, <1>2, <1>5, <1>9, <1>10, LandingKeeps DEF DeliveryFor
<1> QED BY <1>1, <1>8, <1>11, LandingKeeps, LandingGoesOn

LEMMA PruneLoop ==
  ASSUME OneUser, LoopInv, NEW p \in Proc, Strays(p), UNCHANGED shelf,
         tree' \in Trees, Prune(p) \/ StopPrune(p)
  PROVE  LoopStep
<1> DEFINE r == run[p]
           b == r.bundle
           payload == PayloadFiles(Changes(b))
           deleted == Changes(b).deleted
<1>1. /\ Step(p) /\ pc[p] = "prune" /\ pc'[p] \in {"prune", "delete"}
      /\ late'[p] = {}
  BY LoopFacts DEF Step, Prune, StopPrune, Notice
<1>2. /\ tree \in Trees /\ r.todo \subseteq deleted
      /\ payload \subseteq Path /\ deleted \subseteq Path
      /\ \A x \in payload : tree[x] = b.target[x]
      /\ \A x \in deleted \ r.todo : tree[x] = Absent
      /\ \A x \in Path \ (stray \cup Touched(Changes(b))) : Here[x] = b.base[x]
  BY <1>1, LoopFacts, TouchedType DEF DeliveryFor
<1>3. run'[p].todo = r.todo
  <2>1. PICK D : run' = [run EXCEPT ![p].dirs = D]
    BY DEF Prune, StopPrune
  <2>2. run'[p] = [r EXCEPT !.dirs = D]
    BY <2>1, LoopFacts
  <2> QED BY <1>1, <2>2, LandingKeeps DEF Run
<1>4. \E d \in Path : /\ \A y \in Path : tree'[y] # tree[y] => y = d
                      /\ tree' # tree => tree[d] = Dir /\ tree'[d] = Absent
  <2>1. CASE StopPrune(p)
    BY <2>1, RulesAssumption DEF StopPrune
  <2>2. CASE Prune(p)
    <3>1. PICK d \in Deepest(r.dirs) :
            Removable(tree, d) /\ tree' = [tree EXCEPT ![d] = Absent]
      BY <2>2 DEF Prune
    <3>2. r.dirs \subseteq Path
      BY <1>1, LoopFacts, RunType
    <3>3. d \in Path /\ tree[d] = Dir
      BY <1>1, <3>1, <3>2, LoopFacts DEF Deepest, ChecksHoldFor, Removable
    <3> QED BY <1>2, <3>1, <3>3 DEF Trees
  <2> QED BY <2>1, <2>2
<1>5. /\ \A y \in Path : tree[y] \in Entry \/ tree'[y] \in Entry => tree'[y] = tree[y]
      /\ \A y \in Path : tree[y] = Absent => tree'[y] = Absent
  BY <1>4, NodeAssumption
<1>6. Here' = Here
  BY <1>2, <1>5, FilesStay
<1>7. /\ \A y \in payload : tree'[y] = b.target[y]
      /\ \A y \in deleted \ r.todo : tree'[y] = Absent
  <2>1. \A y \in payload : b.target[y] \in Entry
    BY <1>1, LandingKeeps, PayloadEntries
  <2> QED BY <1>2, <1>5, <2>1
<1>8. IgnoreFileKept'
  BY <1>5, LoopFacts, RulesAssumption DEF IgnoreFileKept
<1>9. DeliveryFor(p)'
  BY <1>1, <1>2, <1>3, <1>6, <1>7, LandingKeeps DEF DeliveryFor
<1> QED BY <1>1, <1>8, <1>9, LandingKeeps, LandingGoesOn

-----------------------------------------------------------------------------
(* Saving.                                                                  *)

\* At the end of a run what it has touched is the target's, and what it has
\* not touched is as true as it was.
LEMMA TruncateLoop ==
  ASSUME OneUser, LoopInv, NEW p \in Proc, Strays(p), UNCHANGED shelf, Truncate(p)
  PROVE  LoopStep
<1> DEFINE b == run[p].bundle
           paths == Touched(Changes(b))
<1>1. /\ pc[p] = "delete" /\ pc'[p] = "write" /\ cursorFile' = Truncated
      /\ UNCHANGED <<tree, run, late>> /\ late[p] = {} /\ run[p].todo = {}
      /\ stray' = stray \ paths
  BY LoopFacts DEF Truncate, Strays
<1>2. /\ tree \in Trees /\ b \in shelf /\ b.base \in Snapshots /\ b.target \in Snapshots
      /\ \A x \in PayloadFiles(Changes(b)) : tree[x] = b.target[x]
      /\ \A x \in Changes(b).deleted : tree[x] = Absent
      /\ \A x \in Path \ (stray \cup paths) : Here[x] = b.base[x]
  BY <1>1, LoopFacts, BundleStates DEF DeliveryFor
<1>3. \A x \in Path : Here[x] = IF tree[x] \in Entry THEN tree[x] ELSE Absent
  BY <1>2, TakeIs DEF Here
<1>4. ASSUME NEW x \in Path \ stray' PROVE Here'[x] = b.target[x]
  <2>0. Here' = Here
    BY <1>1 DEF Here
  <2>1. CASE x \in PayloadFiles(Changes(b))
    <3>1. tree[x] = b.target[x] /\ b.target[x] \in Entry \cup {Absent}
      BY <1>2, <2>1 DEF Snapshots
    <3> QED BY <1>3, <2>0, <3>1
  <2>2. CASE x \in Changes(b).deleted
    <3>1. tree[x] = Absent /\ b.target[x] = Absent
      BY <1>2, <2>2 DEF Changes, Compute
    <3> QED BY <1>3, <2>0, <3>1
  <2>3. CASE x \notin paths
    <3>1. b.base[x] = b.target[x]
      BY <1>2, <2>3, UntouchedSame DEF Changes
    <3>2. x \notin stray
      BY <1>1, <1>4, <2>3
    <3> QED BY <1>2, <2>0, <2>3, <3>1, <3>2
  <2> QED BY <2>1, <2>2, <2>3 DEF Touched
<1>5. DeliveryFor(p)'
  BY <1>1, <1>2, <1>4 DEF DeliveryFor
<1>6. ~ Readable'
  BY <1>1 DEF Readable
<1> QED BY <1>1, <1>5, <1>6, LoopFacts, OneDelivery
       DEF LoopStep, CursorShelved, RestIsTrue, IgnoreFileKept

LEMMA WriteLoop ==
  ASSUME OneUser, LoopInv, NEW p \in Proc, Strays(p), UNCHANGED shelf, Write(p)
  PROVE  LoopStep
<1> DEFINE b == run[p].bundle
<1>1. /\ pc[p] = "write" /\ cursorFile = Truncated /\ tree' = tree
      /\ b \in shelf /\ b.target \in Snapshots
      /\ \A x \in Path \ stray : Here[x] = b.target[x]
  BY LoopFacts, BundleStates DEF Write, DeliveryFor
<1>2. cursorFile' = b.target /\ Readable' /\ Cursor' = b.target
  BY <1>1, CursorAssumption DEF Write, Readable, Cursor
<1>3. pc'[p] \in {"applied", "rules"} /\ late'[p] = {}
  <2>1. CASE run[p].opt.noVerify
    BY <2>1, LoopFacts DEF Write, End
  <2>2. CASE ~ run[p].opt.noVerify
    BY <2>2, LoopFacts DEF Write
  <2> QED BY <2>1, <2>2
<1>4. stray' = stray /\ Here' = Here
  BY <1>1, <1>3 DEF Strays, Here
<1>5. DeliveryFor(p)'
  BY <1>3 DEF DeliveryFor
<1>6. RestIsTrue' /\ CursorShelved'
  BY <1>1, <1>2, <1>4 DEF RestIsTrue, CursorShelved
<1> QED BY <1>1, <1>5, <1>6, LoopFacts, OneDelivery DEF LoopStep, IgnoreFileKept

-----------------------------------------------------------------------------
(* The invariant, and what it says of the cursor.                           *)

LEMMA LoopInit == CourierInit => LoopInv
<1> SUFFICES ASSUME CourierInit PROVE LoopInv
  OBVIOUS
<1>1. CourierTypeOK /\ CursorKnown /\ Inv
  BY CourierInitHolds, InitInv DEF CourierInit
<1>2. /\ tree = [x \in Path |-> Absent] /\ tree \in Trees
      /\ Readable /\ Cursor = EmptySnapshot
      /\ \A p \in Proc : pc[p] = "ready" /\ late[p] = {}
  BY <1>1, CursorAssumption
     DEF CourierInit, Init, Readable, Cursor, CourierTypeOK, TypeOK, TreeOK
<1>3. RestIsTrue
  BY <1>2, TakeIs, NodeAssumption DEF RestIsTrue, Here, EmptySnapshot
<1>4. IgnoreFileKept /\ CursorShelved
  BY <1>2, RulesAssumption DEF IgnoreFileKept, CursorShelved
<1>5. Delivery
  BY <1>2 DEF Delivery, DeliveryFor
<1> QED BY <1>1, <1>3, <1>4, <1>5 DEF LoopInv

\* The source has only the shelf in common with what a run goes by, and
\* takes nothing off it.
LEMMA SourceLoop ==
  ASSUME LoopInv, UNCHANGED <<vars, stray>>, shelf \subseteq shelf'
  PROVE  LoopStep
<1>1. UNCHANGED <<tree, cursorFile, pc, run, late, stray>>
  BY DEF vars
<1>2. /\ (Readable' <=> Readable) /\ Cursor' = Cursor /\ Here' = Here
      /\ (AtRest' <=> AtRest)
  BY <1>1 DEF Readable, Cursor, Here, AtRest
<1>3. CursorShelved' /\ IgnoreFileKept' /\ RestIsTrue'
  BY <1>1, <1>2 DEF LoopInv, CursorShelved, IgnoreFileKept, RestIsTrue
<1>4. ASSUME NEW p \in Proc PROVE DeliveryFor(p)'
  BY <1>1, <1>2 DEF LoopInv, Delivery, DeliveryFor
<1> QED BY <1>3, <1>4 DEF LoopStep, Delivery

LEMMA StepLoop ==
  ASSUME OneUser, LoopInv, NEW p \in Proc, Step(p) \/ Die(p), Strays(p),
         UNCHANGED shelf, tree' \in Trees
  PROVE  LoopStep
<1>1. CASE Die(p)
  BY <1>1, StopsLoop
<1>2. CASE \/ CheckPath(p) \/ CheckBlocked(p) \/ RefuseConflicts(p)
           \/ FinishDryRun(p) \/ LoadRules(p) \/ BadRules(p) \/ ListRoot(p)
           \/ WalkDir(p) \/ StatFile(p) \/ HashFile(p) \/ WalkFails(p)
           \/ Compare(p)
  BY <1>2, QuietLoop
<1>3. CASE Stage(p) \/ StartDeletes(p)
  BY <1>3, StageLoop, StartDeletesLoop
<1>4. CASE StatParents(p) \/ MkdirParent(p) \/ Rename(p)
  BY <1>4, StatParentsLoop, MkdirLoop, RenameLoop
<1>5. CASE Delete(p) \/ Prune(p) \/ StopPrune(p)
  BY <1>5, DeleteLoop, PruneLoop
<1>6. CASE MkdirBlocked(p) \/ MkdirFails(p) \/ RenameFails(p) \/ DeleteFails(p)
  BY <1>6, StopsLoop
<1>7. CASE Truncate(p) \/ Write(p)
  BY <1>7, TruncateLoop, WriteLoop
<1> QED BY <1>1, <1>2, <1>3, <1>4, <1>5, <1>6, <1>7 DEF Step

LEMMA LoopNext ==
  ASSUME OneUser, LoopInv, [CourierNext]_cvars
  PROVE  LoopInv'
<1>1. CourierTypeOK' /\ CursorKnown'
  BY NextCourierType, NextCursorKnown DEF LoopInv
<1>2. Inv'
  BY NextInv, LoopIsApply DEF LoopInv
<1>3. tree' \in Trees
  BY <1>1 DEF CourierTypeOK, TypeOK, TreeOK
<1>4. ASSUME UNCHANGED cvars PROVE LoopStep
  <2>1. UNCHANGED <<vars, stray>> /\ shelf \subseteq shelf'
    BY <1>4 DEF cvars, sourceSide
  <2> QED BY <2>1, SourceLoop
<1>5. ASSUME UNCHANGED <<vars, stray>>, CourierNext PROVE LoopStep
  <2>1. shelf \subseteq shelf'
    <3>1. CASE Change \/ CmdSnapshot \/ CmdCursor
      BY <3>1 DEF Change, CmdSnapshot, CmdCursor
    <3>2. CASE \E keep \in BOOLEAN, empty \in AllowEmpty :
                 PackFull(keep, empty) \/ PackSince(keep, empty)
      BY <3>2 DEF PackFull, PackSince, CmdPack
    <3>3. CASE UNCHANGED sourceSide
      BY <3>3 DEF sourceSide
    <3> QED BY <1>5, <3>1, <3>2, <3>3, LoopSteps
  <2> QED BY <1>5, <2>1, SourceLoop
<1>6. ASSUME UNCHANGED sourceSide, CourierNext, ~ UNCHANGED <<vars, stray>>
      PROVE  LoopStep
  <2>1. UNCHANGED shelf
    BY <1>6 DEF sourceSide
  <2>2. \E p \in Proc :
          \/ /\ UNCHANGED stray
             /\ \E b \in shelf, o \in Options :
                  Begin(p, b, o) \/ RefuseCursor(p, b, o) \/ RefuseContinuity(p, b, o)
          \/ Strays(p) /\ (Step(p) \/ Die(p))
    BY <1>6, LoopSteps
  <2>3. CASE \E p \in Proc : Strays(p) /\ (Step(p) \/ Die(p))
    BY <1>3, <2>1, <2>3, StepLoop
  <2>4. CASE \E p \in Proc, b \in shelf, o \in Options :
               /\ Begin(p, b, o) \/ RefuseCursor(p, b, o) \/ RefuseContinuity(p, b, o)
               /\ UNCHANGED <<shelf, stray>>
    BY <2>4, StartsLoop
  <2> QED BY <2>1, <2>2, <2>3, <2>4
<1>7. LoopStep
  BY <1>4, <1>5, <1>6, LoopSteps
<1> QED BY <1>1, <1>2, <1>7 DEF LoopInv, LoopStep

\* A tree whose files are those of a state of the source, its ignore file in
\* its place, is walked by rules that hide none of them.
LEMMA RulesHideNothing ==
  ASSUME NEW t \in Trees, NEW s \in Known, Take(t, NoRules) = s,
         t[IgnoreFile] \in Entry \cup {Absent}
  PROVE  TakeTree(t) = s
<1> DEFINE rules == RulesIn(t)
<1>1. \A x \in Path : s[x] = IF t[x] \in Entry THEN t[x] ELSE Absent
  BY TakeIs
<1>2. s[IgnoreFile] = t[IgnoreFile]
  BY <1>1, RulesAssumption
<1>3. ASSUME NEW x \in Path, s[x] # Absent PROVE ~ Ignored(rules, x)
  <2>1. PICK u \in SourceTrees : s = TakeTree(u)
    BY <1>3 DEF Known, EmptySnapshot
  <2>2. s[x] = Read(u, RulesIn(u), x) /\ s[IgnoreFile] = Read(u, RulesIn(u), IgnoreFile)
    BY <2>1, RulesAssumption DEF TakeTree, Take
  <2>3. ~ Ignored(RulesIn(u), x)
    BY <1>3, <2>2 DEF Read
  <2>4. CASE t[IgnoreFile] = Absent
    BY <2>4 DEF RulesIn, Ignored, NoRules
  <2>5. CASE t[IgnoreFile] \in Entry
    <3>1. u[IgnoreFile] = t[IgnoreFile]
      BY <1>2, <2>2, <2>5, NodeAssumption DEF Read
    <3>2. RulesIn(t) = RulesIn(u)
      BY <3>1 DEF RulesIn
    <3> QED BY <2>3, <3>2
  <2> QED BY <2>4, <2>5
<1>4. \A x \in Path : Read(t, rules, x) = s[x]
  BY <1>1, <1>3, NodeAssumption DEF Read
<1>5. TakeTree(t) = [x \in Path |-> s[x]]
  BY <1>4 DEF TakeTree, Take
<1> QED BY <1>5, KnownStates DEF Snapshots

\* With one run at a time, which nobody forces, the destination's cursor is
\* one the source was at and tells what files are there: whatever bundles
\* are lost, late, repeated, out of order or packed from an old cursor, and
\* whatever runs die or fail on the way.
THEOREM CursorTells ==
  ASSUME OneUser PROVE CourierSpec => []CursorTrue
<1>1. ASSUME LoopInv PROVE CursorTrue
  <2> SUFFICES ASSUME Readable, AtRest
               PROVE  /\ Cursor = EmptySnapshot \/ \E b \in shelf : b.target = Cursor
                      /\ \A x \in Path \ stray : Read(tree, NoRules, x) = Cursor[x]
                      /\ stray = {} => CmdStatus(tree, Cursor) = "clean"
    BY DEF CursorTrue
  <2>1. /\ tree \in Trees /\ IgnoreFileKept /\ Cursor \in Known
        /\ \A x \in Path \ stray : Here[x] = Cursor[x]
        /\ Cursor = EmptySnapshot \/ \E b \in shelf : b.target = Cursor
    BY <1>1 DEF LoopInv, CourierTypeOK, TypeOK, TreeOK, RestIsTrue, CursorShelved,
                CursorKnown
  <2>2. \A x \in Path \ stray : Read(tree, NoRules, x) = Cursor[x]
    BY <2>1, TakeIs DEF Here
  <2>3. ASSUME stray = {} PROVE CmdStatus(tree, Cursor) = "clean"
    <3>1. Cursor \in Snapshots
      BY <2>1, KnownStates
    <3>2. Take(tree, NoRules) = Cursor
      BY <2>1, <2>2, <2>3, <3>1 DEF Take, Snapshots
    <3>3. TakeTree(tree) = Cursor
      BY <2>1, <3>2, RulesHideNothing DEF IgnoreFileKept
    <3> QED BY <3>1, <3>3, EmptyIffEqual DEF CmdStatus
  <2> QED BY <2>1, <2>2, <2>3
<1>2. CourierInit => LoopInv
  BY LoopInit
<1>3. LoopInv /\ [CourierNext]_cvars => LoopInv'
  BY LoopNext
<1> QED BY <1>1, <1>2, <1>3, PTL DEF CourierSpec
=============================================================================
