------------------------------ MODULE MCCourier -----------------------------
(* A source that goes to and fro between two trees, to check Courier with.  *)
EXTENDS Courier, MCUniverse

\* d/a becomes executable; d.f changes and is hidden by a new ignore file.
Early == TreeOf(T1)
Later == TreeOf(Files(".sneakpackignore" :> hide @@ "d/a" :> x1 @@ "d.f" :> v2))

TwoTrees == {Early, Later}

AllBundles ==
  LET seen == {TakeTree(t) : t \in TwoTrees}
  IN  [base : seen \cup {EmptySnapshot}, target : seen]

NeverEmpty == {FALSE}
PlainOnly == {Plain}
NoEdits == {}

\* What the theorem about the cursor assumes holds of the constants.
ASSUME LoopAssumption == OneUser
=============================================================================
