------------------------------- MODULE Mirror -------------------------------
(* What the destination of a chain of bundles promises, with no runs, no    *)
(* staging and no crashes in sight: its files move from the snapshot its    *)
(* cursor names to the target of one bundle that starts there, one path at  *)
(* a time, and the cursor moves once they are all there.                    *)
EXTENDS Diff

CONSTANTS
  Bundles,  \* the bundles at hand, records [base, target]
  Lost      \* no cursor can be read

VARIABLES
  files,   \* the regular files of the destination
  cursor   \* the snapshot the destination says it is at, or Lost

mvars == <<files, cursor>>

MirrorTypeOK ==
  /\ files \in Snapshots
  /\ cursor \in Snapshots \cup {Lost}

MirrorInit == files = EmptySnapshot /\ cursor = EmptySnapshot

\* One path of a bundle lands.
Land(b, x) ==
  /\ cursor = b.base
  /\ x \in Touched(Changes(b))
  /\ files' = [files EXCEPT ![x] = b.target[x]]
  /\ UNCHANGED cursor

\* The bundle is complete: the cursor says so, or is lost while it is saved.
Record(b) ==
  /\ cursor = b.base
  /\ files = b.target
  /\ cursor' \in {b.target, Lost}
  /\ UNCHANGED files

MirrorNext ==
  \E b \in Bundles : Record(b) \/ \E x \in Path : Land(b, x)

MirrorSpec == MirrorInit /\ [][MirrorNext]_mvars

\* The end of the chain.
Final(s) == \A b \in Bundles : b.base = s => b.target = s

\* The destination gets to the end of the chain, or loses its cursor.
MirrorConverges == <>[](cursor = Lost \/ (Final(cursor) /\ files = cursor))
=============================================================================
