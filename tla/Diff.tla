-------------------------------- MODULE Diff --------------------------------
(* internal/diff: the change set between two snapshots, and what bundle.New *)
(* makes of it.  A bundle is a base and a target snapshot; the entries of a *)
(* change (size, exec, sha256, old_sha256) are those the two snapshots have *)
(* at its path, so a change set is three sets of paths.                     *)
EXTENDS Snapshot

\* A slip to notice: a flip of the executable bit alone is no change.
ComputeBySha(base, target) ==
  [added    |-> {x \in Path : base[x] = Absent /\ target[x] # Absent},
   modified |-> {x \in Path : /\ base[x] # Absent /\ target[x] # Absent
                              /\ base[x].sha # target[x].sha},
   deleted  |-> {x \in Path : base[x] # Absent /\ target[x] = Absent}]

\* diff.Compute: what a bundle from base to target has to do.
Compute(base, target) ==
  [added    |-> {x \in Path : base[x] = Absent /\ target[x] # Absent},
   modified |-> {x \in Path : /\ base[x] # Absent /\ target[x] # Absent
                              /\ \/ base[x].sha # target[x].sha
                                 \/ base[x].exec # target[x].exec},
   deleted  |-> {x \in Path : base[x] # Absent /\ target[x] = Absent}]

\* Changes.PayloadFiles: the paths whose content travels.
PayloadFiles(c) == c.added \cup c.modified

Touched(c) == PayloadFiles(c) \cup c.deleted

Empty(c) == c.added = {} /\ c.modified = {} /\ c.deleted = {}

Bundle == [base : Snapshots, target : Snapshots]

Changes(b) == Compute(b.base, b.target)

\* What applying a change set is meant to do to a list of files.
Patch(s, c, target) ==
  [x \in Path |-> IF x \in PayloadFiles(c) THEN target[x]
                  ELSE IF x \in c.deleted THEN Absent ELSE s[x]]
=============================================================================
