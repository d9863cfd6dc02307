------------------------------- MODULE MCApply ------------------------------
(* The bundles, options and edits to check Apply with.                      *)
EXTENDS Apply, MCUniverse

\* The directory d becomes a file in the second bundle.
KindChain ==
  {From(S0, T1),
   From(T1, Files("d" :> v1 @@ "d.f" :> v2 @@ ".sneakpackignore" :> v2))}

Forced == [Plain EXCEPT !.force = TRUE]
Unverified == [Plain EXCEPT !.noVerify = TRUE]
Dry == [Plain EXCEPT !.dryRun = TRUE]

PlainOnly == {Plain}
UnforcedOptions == {Plain, Unverified, Dry}
PlainOrForced == {Plain, Forced}

NoEdits == {}
SomeEdits == {Absent, Dir, Special, v2, bad}
FileEdits == {Absent, v1, v2}
ChmodOnly == {x1}

\* Nobody but the runs touches the destination, and nobody forces a bundle
\* that does not chain.
BeginInTurn(p) ==
  \E b \in Bundles, o \in Options : Readable /\ Cursor = b.base /\ Begin(p, b, o)
InTurnSpec == Init /\ [][\E p \in Proc : BeginInTurn(p) \/ Step(p)]_vars
=============================================================================
