------------------------------- MODULE MCPack -------------------------------
(* The sources, edits and bounds to check Pack with.                        *)
EXTENDS Pack, MCUniverse

\* A source with a file in the root and one in a directory.
OneSource == {TreeOf(T1)}

\* Two edits while somebody packs, or one and a pack that is killed; nothing
\* leaves the source.
AtHome ==
  {[nodes |-> {Absent, Dir, v1, x2}, empty |-> BOOLEAN, edits |-> 2 - d,
    deaths |-> d, copies |-> 0, damage |-> 0] : d \in {0, 1}}

\* Two copies, one mishap, and one edit that may stop a pack.
OnTheWay ==
  [nodes |-> {Absent, v2, bad}, empty |-> {FALSE}, edits |-> 1,
   deaths |-> 0, copies |-> 2, damage |-> 1]

\* Files replaced while somebody packs.
Swaps ==
  [nodes |-> {Absent, v2, bad}, empty |-> {FALSE}, edits |-> 2,
   deaths |-> 0, copies |-> 0, damage |-> 0]

HomeAndAway == AtHome \cup {OnTheWay}
SwapsOnly == {Swaps}
=============================================================================
