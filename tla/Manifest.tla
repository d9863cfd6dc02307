------------------------------ MODULE Manifest ------------------------------
(* The manifest of internal/bundle as it is written in the archive, what    *)
(* validateManifest makes of it, and what may rot in it: before it is       *)
(* compressed, or where the reader stops short of gzip's own checksum.  Rot *)
(* is no forger: a damaged ID is never the hash of a damaged list.          *)
(*                                                                          *)
(* A list is written in path order, and nothing that rots moves a line: a   *)
(* list is a function from its places, each named by the path that was      *)
(* written there, to its lines.                                             *)
EXTENDS Bundle, Functions

CONSTANTS
  Wrong,      \* 64 hex digits that are the hash of no list considered
  Malformed,  \* no hex digest
  BadPath,    \* a path ValidatePath refuses
  NoEntry     \* the field is not there

FileLine == [path : Path \cup {BadPath}, entry : Entry]

ASSUME RotAssumption ==
  /\ BadPath \notin Path /\ NoEntry \notin Entry
  /\ Wrong # Malformed /\ Malformed \notin Sha
  /\ {Wrong, Malformed} \cap [FileLine -> Nat] = {}

\* A snapshot as it is written.
FilesOf(s) ==
  [x \in {y \in Path : s[y] # Absent} |-> [path |-> x, entry |-> s[x]]]

\* The list is sorted first and the hash is injective: an ID says how often
\* each line is there.
ComputeID(files) ==
  [f \in FileLine |-> Cardinality({x \in DOMAIN files : files[x] = f})]

\* The change set as it is written: what a line does not hold is NoEntry.
ChangesOf(base, target) ==
  LET c == Compute(base, target)
  IN  [x \in Touched(c) |->
        [kind  |-> CASE x \in c.added -> "added" [] x \in c.modified -> "modified"
                     [] OTHER -> "deleted",
         path  |-> x,
         entry |-> IF x \in c.deleted THEN NoEntry ELSE target[x],
         old   |-> IF x \in c.added THEN NoEntry ELSE base[x].sha]]

\* bundle.New.
New(base, target) ==
  [base |-> ComputeID(FilesOf(base)), targetCursor |-> ComputeID(FilesOf(target)),
   changes |-> ChangesOf(base, target),
   id |-> ComputeID(FilesOf(target)), files |-> FilesOf(target)]

-----------------------------------------------------------------------------
(* validateManifest.                                                        *)

\* Valid paths, in order.
Canonical(files) ==
  /\ \A x \in DOMAIN files : files[x].path # BadPath
  /\ \A x, y \in DOMAIN files :
       Rank[x] < Rank[y] => Rank[files[x].path] < Rank[files[y].path]

\* A slip to notice: only what is to be written is compared with the target.
AgreesWritten(l, files) ==
  /\ l.kind # "deleted" => [path |-> l.path, entry |-> l.entry] \in Range(files)
  /\ l.kind # "added" => l.old # Malformed

Agrees(l, files) ==
  /\ l.kind # "deleted" => [path |-> l.path, entry |-> l.entry] \in Range(files)
  /\ l.kind # "added" => l.old # Malformed
  /\ l.kind = "deleted" => \A f \in Range(files) : f.path # l.path

\* The three loops over the change set: claim, and what agrees.
ChangesHold(m) ==
  /\ \A l \in Range(m.changes) : l.path # BadPath /\ Agrees(l, m.files)
  /\ \A x, y \in DOMAIN m.changes : m.changes[x].path = m.changes[y].path => x = y

\* A slip to notice: the ID the snapshot carries is trusted.
ValidateTrusting(m) ==
  /\ m.base # Malformed /\ m.targetCursor # Malformed
  /\ Canonical(m.files)
  /\ m.targetCursor = m.id
  /\ ChangesHold(m)

Validate(m) ==
  /\ m.base # Malformed /\ m.targetCursor # Malformed
  /\ Canonical(m.files)
  /\ ComputeID(m.files) = m.id
  /\ m.targetCursor = m.id
  /\ ChangesHold(m)

\* The lines with a payload, the payload a manifest lists, and Verify against
\* entries that are whole.
Landed(m) == {l \in Range(m.changes) : l.kind # "deleted"}

Listed(m) == {[path |-> l.path, sha |-> l.entry.sha] : l \in Landed(m)}

Verify(m, payload) == Validate(m) /\ Listed(m) = payload

-----------------------------------------------------------------------------
(* Rot.                                                                     *)

RottenLine(l) ==
  {[l EXCEPT !.path = x] : x \in Path \cup {BadPath}}
  \cup {[l EXCEPT !.entry = e] : e \in {f \in Entry : l.kind # "deleted"}}
  \cup {[l EXCEPT !.old = h] : h \in {g \in Sha \cup {Malformed} : l.kind # "added"}}

RottenFile(f) ==
  {[f EXCEPT !.path = x] : x \in Path \cup {BadPath}}
  \cup {[f EXCEPT !.entry = e] : e \in Entry}

\* The change set where the list of one kind has lost its name.
Without(changes, kind) ==
  Restrict(changes, {x \in DOMAIN changes : changes[x].kind # kind})

\* The manifests one damaged place turns m into: an ID, a field of a file or
\* of a change, or the name of a list, which is empty then.
Rotten(m) ==
  {[m EXCEPT !.base = h] : h \in {Wrong, Malformed}}
  \cup {[m EXCEPT !.targetCursor = h] : h \in {Wrong, Malformed}}
  \cup {[m EXCEPT !.id = h] : h \in {Wrong, Malformed}}
  \cup (UNION {{[m EXCEPT !.files[x] = f] : f \in RottenFile(m.files[x])} :
                 x \in DOMAIN m.files})
  \cup {[m EXCEPT !.files = <<>>]}
  \cup (UNION {{[m EXCEPT !.changes[x] = l] : l \in RottenLine(m.changes[x])} :
                 x \in DOMAIN m.changes})
  \cup {[m EXCEPT !.changes = Without(@, kind)] : kind \in {"added", "modified", "deleted"}}

\* What Run makes of the files s when it lands m over every conflict.
Land(m, s) ==
  [x \in Path |->
     LET here == {l \in Range(m.changes) : l.path = x}
     IN  IF here = {} THEN s[x]
         ELSE IF \E l \in here : l.kind = "deleted" THEN Absent
         ELSE (CHOOSE l \in here : l.kind # "deleted").entry]
=============================================================================
