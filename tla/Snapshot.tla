------------------------------ MODULE Snapshot ------------------------------
(* Trees and snapshots of them: internal/snapshot, and what                 *)
(* internal/ignore contributes to a walk.                                   *)
(*                                                                          *)
(* A directory tree is a total function from the paths of a finite universe *)
(* to what Lstat finds there.  A snapshot is the function a walk returns:   *)
(* the regular files that are not ignored, Absent everywhere else.          *)
(* ComputeID hashes the sorted list of entries, so two snapshots have the   *)
(* same ID iff they are the same function (SHA-256 is taken as injective):  *)
(* a snapshot stands for its own ID.  The size of a file is a function of   *)
(* its content and is part of its sha here.  Special is a socket, say: no   *)
(* directory, no regular file, and nothing that can be opened.  Symbolic    *)
(* links are left out.  The content of a file is read in one step, and the  *)
(* files somebody replaces are replaced in one step.                        *)
EXTENDS Naturals

CONSTANTS
  Path,        \* slash-separated paths below the root, .sneakpack left out
  Anc,         \* Anc[x]: the proper ancestors of x below the root
  Rank,        \* Rank[x]: position of x in path order
  WalkRank,    \* WalkRank[x]: when WalkDir comes to x, d/a before d.f
  Sha,         \* content identities
  Absent,      \* Lstat: no such file
  Dir,         \* a directory
  Special,     \* neither a directory nor a regular file: a socket
  IgnoreFile,  \* the path .sneakpackignore
  RulesOf,     \* the rules parsed from a content, or BadGlob
  BadGlob      \* ignore.Parse refuses the content

Rules == [file : SUBSET Path, dir : SUBSET Path]

ASSUME AncAssumption ==
  /\ Anc \in [Path -> SUBSET Path]
  /\ \A x \in Path : x \notin Anc[x]
  /\ \A x \in Path : \A y \in Anc[x] : Anc[y] \subseteq Anc[x]
  /\ \A x \in Path : \A y, z \in Anc[x] : y = z \/ y \in Anc[z] \/ z \in Anc[y]
  /\ \A x \in Path : \E c \in Anc[x] \cup {x} : Anc[c] = {}
  /\ \A x \in Path : \A d \in Anc[x] :
       \E c \in Anc[x] \cup {x} : Anc[c] = Anc[d] \cup {d}

ASSUME RankAssumption ==
  /\ Rank \in [Path -> Nat]
  /\ \A x, y \in Path : Rank[x] = Rank[y] => x = y
  /\ \A x \in Path : \A y \in Anc[x] : Rank[y] < Rank[x]

ASSUME WalkRankAssumption ==
  /\ WalkRank \in [Path -> Nat]
  /\ \A x, y \in Path : WalkRank[x] = WalkRank[y] => x = y
  /\ \A x \in Path : \A y \in Anc[x] : WalkRank[y] < WalkRank[x]

\* A regular file, and what a snapshot says of it: content and executable bit.
Entry == [sha : Sha, exec : BOOLEAN]

ASSUME NodeAssumption ==
  /\ Absent \notin Entry /\ Dir \notin Entry /\ Special \notin Entry
  /\ Absent # Dir /\ Absent # Special /\ Dir # Special

ASSUME RulesAssumption ==
  /\ IgnoreFile \in Path /\ Anc[IgnoreFile] = {}
  /\ BadGlob \notin Rules
  /\ RulesOf \in [Sha -> Rules \cup {BadGlob}]

Node == Entry \cup {Absent, Dir, Special}
Trees == [Path -> Node]
Snapshots == [Path -> Entry \cup {Absent}]

\* What a file system can hold: whatever exists lies in directories.
WellFormed(t) == \A x \in Path : t[x] # Absent => \A y \in Anc[x] : t[y] = Dir

\* The files a snapshot lists all fit in one tree: no file above another.
Placeable(s) == \A x \in Path : s[x] # Absent => \A y \in Anc[x] : s[y] = Absent

EmptySnapshot == [x \in Path |-> Absent]

\* The rule set of a tree without an ignore file.
NoRules == [file |-> {}, dir |-> {}]

\* Rules.Match as the walk uses it: a file is left out when a pattern
\* excludes the file itself or a directory the walk does not descend into.
Ignored(rules, x) == x \in rules.file \/ Anc[x] \cap rules.dir # {}

\* What snapshot.Take is to record for x.
Read(t, rules, x) ==
  IF t[x] \in Entry /\ ~ Ignored(rules, x) THEN t[x] ELSE Absent

\* A whole walk of a tree nobody changes meanwhile.
Take(t, rules) == [x \in Path |-> Read(t, rules, x)]

\* The entries of the root and of the directory d.
TopLevel == {x \in Path : Anc[x] = {}}
Children(d) == {x \in Path : Anc[x] = Anc[d] \cup {d}}

\* What WalkDir goes on to visit of the entries S once it has listed them:
\* the kind of an entry is that of the moment it is listed.
ListedFiles(t, rules, S) == {x \in S : t[x] \in Entry /\ x \notin rules.file}
ListedDirs(t, rules, S) == {x \in S : t[x] = Dir /\ x \notin rules.dir}

\* The executable bits d.Info() may report of a node when the walk comes to
\* it: a directory or a socket may have either, what is gone has none.
Bits(n) ==
  IF n \in Entry THEN {n.exec} ELSE IF n = Absent THEN {} ELSE BOOLEAN

\* The tree whose files are exactly those of s.
TreeOf(s) ==
  [x \in Path |-> IF \E y \in Path : x \in Anc[y] /\ s[y] # Absent
                  THEN Dir ELSE s[x]]

\* A path below something that is not a directory: the system call returns
\* ENOTDIR, which os.IsNotExist does not accept.
Blocked(t, x) == \E y \in Anc[x] : t[y] \notin {Dir, Absent}

Childless(t, x) == \A z \in Path : x \in Anc[z] => t[z] = Absent

\* os.Remove succeeds: a file, a special file or an empty directory.
Removable(t, x) ==
  /\ t[x] # Absent
  /\ t[x] = Dir => Childless(t, x)

\* The first members of a set of paths in path order: one, or none.
Least(S) == {x \in S : \A y \in S : Rank[x] =< Rank[y]}

\* Where WalkDir goes next: the names of a directory in order, all of what
\* lies below one before the next.
Upcoming(S) == {x \in S : \A y \in S : WalkRank[x] =< WalkRank[y]}
=============================================================================
