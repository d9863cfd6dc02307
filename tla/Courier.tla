------------------------------- MODULE Courier ------------------------------
(* The whole loop of examples/courier-loop.sh: a source that goes on        *)
(* changing and packs, a destination that applies, and the files that       *)
(* somebody carries between the two: bundles one way, cursor files the      *)
(* other.  The destination is Apply, step by step; what happens to a pack   *)
(* or a copy while it is made is Pack's, here both are one step.            *)
(*                                                                          *)
(* A bundle once made stays on the shelf.  Losing, delaying, repeating or   *)
(* reordering bundles is applying what one likes of the shelf, when one     *)
(* likes.  There are no local edits at the destination, and no --force.     *)
EXTENDS Apply

CONSTANTS
  SourceTrees,  \* what the source may look like
  AllowEmpty,   \* the values of --allow-empty users pass
  MaxChanges,   \* bound on how often it changes
  NoFile        \* there is no cursor file at the source yet

\* What tree t is to takeTree: its own ignore file, and a walk.
RulesIn(t) ==
  IF t[IgnoreFile] = Absent THEN NoRules
  ELSE IF t[IgnoreFile] \in Entry THEN RulesOf[t[IgnoreFile].sha]
  ELSE BadGlob

TakeTree(t) == Take(t, RulesIn(t))

\* cmdStatus of tree t against the cursor base.
CmdStatus(t, base) ==
  IF Empty(Compute(base, TakeTree(t))) THEN "clean" ELSE "changes"

\* Every cursor there can be: the first one, and those of the source.
Known == {EmptySnapshot} \cup {TakeTree(t) : t \in SourceTrees}

ASSUME SourceTreesAssumption ==
  /\ \A t \in SourceTrees : t \in Trees /\ WellFormed(t) /\ RulesIn(t) # BadGlob
  /\ Bundles = [base : Known, target : {TakeTree(t) : t \in SourceTrees}]

ASSUME CourierBoundsAssumption ==
  MaxChanges \in Nat /\ AllowEmpty \subseteq BOOLEAN /\ NoFile \notin Snapshots

VARIABLES
  src,      \* the source tree
  changes,  \* how often it has changed
  shelf,    \* the bundles that were ever packed
  note,     \* the cursor file the source goes by
  stray     \* history: what runs that did not finish may have left behind

sourceSide == <<src, changes, shelf, note>>
cvars == <<vars, sourceSide, stray>>

CourierTypeOK ==
  /\ TypeOK
  /\ src \in SourceTrees /\ changes \in 0..MaxChanges
  /\ shelf \subseteq Bundles
  /\ note \in Known \cup {NoFile}
  /\ stray \subseteq Path

CourierInit ==
  /\ Init
  /\ src \in SourceTrees /\ changes = 0
  /\ shelf = {} /\ note = NoFile
  /\ stray = {}

-----------------------------------------------------------------------------
(* The source.                                                              *)

Change ==
  /\ changes < MaxChanges /\ changes' = changes + 1
  /\ src' \in SourceTrees \ {src}
  /\ UNCHANGED <<vars, shelf, note, stray>>

\* cmdPack from base; keep: --cursor-out over the note; empty: --allow-empty.
CmdPack(base, keep, empty) ==
  LET b == [base |-> base, target |-> TakeTree(src)]
  IN  /\ Empty(Changes(b)) => empty
      /\ shelf' = shelf \cup {b}
      /\ note' = IF keep THEN b.target ELSE note
      /\ UNCHANGED <<vars, src, changes, stray>>

PackFull(keep, empty) == CmdPack(EmptySnapshot, keep, empty)

PackSince(keep, empty) == note # NoFile /\ CmdPack(note, keep, empty)

\* A slip to notice: the walk is not given the rules.
CmdSnapshotAll ==
  /\ note' = Take(src, NoRules)
  /\ UNCHANGED <<vars, src, changes, shelf, stray>>

\* `snapshot -o`: the source notes what it is, whoever has it.
CmdSnapshot ==
  /\ note' = TakeTree(src)
  /\ UNCHANGED <<vars, src, changes, shelf, stray>>

\* A slip to notice: a file that is already there is not written again.
CmdCursorOnce ==
  /\ Readable
  /\ note = NoFile /\ note' = Cursor
  /\ UNCHANGED <<vars, src, changes, shelf, stray>>

\* `cursor -o` at the destination, carried back: by the time the source
\* packs from it, the destination may have moved on.
CmdCursor ==
  /\ Readable
  /\ note' = Cursor
  /\ UNCHANGED <<vars, src, changes, shelf, stray>>

-----------------------------------------------------------------------------
(* The destination.                                                         *)

\* History: a run that stops while it lands leaves some of its paths done;
\* one that gets to the end has done them all.
Strays(p) ==
  LET paths == Touched(Changes(run[p].bundle))
  IN  stray' = IF pc[p] \in Landing /\ pc'[p] \in Ended THEN stray \cup paths
               ELSE IF pc'[p] = "write" THEN stray \ paths
               ELSE stray

CourierBegin(p, b, o) ==
  /\ b \in shelf
  /\ Begin(p, b, o)
  /\ UNCHANGED <<sourceSide, stray>>

CourierRefuse(p, b, o) ==
  /\ b \in shelf
  /\ RefuseCursor(p, b, o) \/ RefuseContinuity(p, b, o)
  /\ UNCHANGED <<sourceSide, stray>>

CourierStep(p) == Step(p) /\ Strays(p) /\ UNCHANGED sourceSide

CourierDie(p) == Die(p) /\ Strays(p) /\ UNCHANGED sourceSide

CourierNext ==
  \/ Change \/ CmdSnapshot \/ CmdCursor
  \/ \E keep \in BOOLEAN, empty \in AllowEmpty :
       PackFull(keep, empty) \/ PackSince(keep, empty)
  \/ \E p \in Proc, b \in Bundles, o \in Options :
       CourierBegin(p, b, o) \/ CourierRefuse(p, b, o)
  \/ \E p \in Proc : CourierStep(p) \/ CourierDie(p)

CourierSpec == CourierInit /\ [][CourierNext]_cvars

\* The bundle from the cursor to what the source is now is tried, plainly.
TryFresh(p) ==
  \E b \in Bundles : b.target = TakeTree(src) /\ CourierBegin(p, b, Plain)

\* The loop goes on: a run that has begun does; the cursor is carried home
\* again and again, a pack made from it when the source differs, and the
\* bundle that fits is tried.  Strong, since between any two of these
\* something else may be exported, packed or tried.
CourierFairness ==
  /\ \A p \in Proc : WF_cvars(CourierStep(p)) /\ SF_cvars(TryFresh(p))
  /\ SF_cvars(CmdCursor) /\ SF_cvars(PackSince(FALSE, FALSE))

FairCourierSpec == CourierSpec /\ CourierFairness

-----------------------------------------------------------------------------
(* What the loop promises.                                                  *)

\* One run at a time, which nobody forces.
OneUser == (\A p, q \in Proc : p = q) /\ \A o \in Options : ~ o.force

\* No run is between its first rename and its cursor.
AtRest == \A p \in Proc : pc[p] \notin Landing \cup {"write"}

\* The cursor the destination reports is one the source was at, and it is
\* the truth: whatever was lost, overtaken, packed from an old cursor or
\* applied again after the source went back, a destination at rest holds the
\* files its cursor lists, but for what unfinished runs have left; and with
\* nothing left `status` finds it clean, under the rules that came with it.
CursorTrue ==
  Readable /\ AtRest =>
    /\ Cursor = EmptySnapshot \/ \E b \in shelf : b.target = Cursor
    /\ \A x \in Path \ stray : Read(tree, NoRules, x) = Cursor[x]
    /\ stray = {} => CmdStatus(tree, Cursor) = "clean"

\* Once the source is left alone the destination gets to where it is, also
\* from a gap that --cursor-out or a lost bundle has opened, time and again:
\* a bundle from before may still take it back.  Excepted are a cursor torn
\* by a killed run, and the paths unfinished runs have left.
KeepsUp ==
  []<>(Take(tree, NoRules) = TakeTree(src) \/ ~ Readable \/ stray # {})

=============================================================================
