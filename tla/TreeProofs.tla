----------------------------- MODULE TreeProofs -----------------------------
(* Facts about change sets, about trees, and about the walk that takes a    *)
(* snapshot of one, for every universe of paths: what Apply, Pack and their *)
(* proofs share.                                                            *)
EXTENDS Diff, TLAPS

\* The paths of a change set.
LEMMA TouchedType ==
  ASSUME NEW b
  PROVE  /\ Touched(Changes(b)) \subseteq Path
         /\ PayloadFiles(Changes(b)) \subseteq Touched(Changes(b))
         /\ Changes(b).deleted \subseteq Touched(Changes(b))
BY DEF Touched, PayloadFiles, Changes, Compute

\* Two entries with the same content and executable bit are the same entry.
LEMMA EntryExtensional ==
  ASSUME NEW d \in Entry, NEW e \in Entry, d.sha = e.sha, d.exec = e.exec
  PROVE  d = e
<1>1. d = [sha |-> d.sha, exec |-> d.exec] /\ e = [sha |-> e.sha, exec |-> e.exec]
  BY DEF Entry
<1> QED BY <1>1

\* The categories of a change set do not overlap: no path is landed and
\* deleted by one bundle, or checked against two expectations.
THEOREM CategoriesDisjoint ==
  ASSUME NEW base \in Snapshots, NEW target \in Snapshots
  PROVE  LET c == Compute(base, target)
         IN  /\ c.added \cap c.modified = {}
             /\ PayloadFiles(c) \cap c.deleted = {}
BY DEF Compute, PayloadFiles

\* A path that a change set leaves out has the same entry on both sides.
LEMMA UntouchedSame ==
  ASSUME NEW base \in Snapshots, NEW target \in Snapshots,
         NEW x \in Path, x \notin Touched(Compute(base, target))
  PROVE  base[x] = target[x]
<1>1. base[x] = Absent <=> target[x] = Absent
  BY DEF Touched, PayloadFiles, Compute
<1>2. CASE base[x] = Absent
  BY <1>1, <1>2
<1>3. CASE base[x] # Absent
  <2>1. base[x] \in Entry /\ target[x] \in Entry
    BY <1>1, <1>3 DEF Snapshots
  <2>2. base[x].sha = target[x].sha /\ base[x].exec = target[x].exec
    BY <1>1, <1>3 DEF Touched, PayloadFiles, Compute
  <2> QED BY <2>1, <2>2, EntryExtensional
<1> QED BY <1>2, <1>3

\* The change set is complete: landing its payload and removing its deleted
\* paths turns the base into exactly the target.
THEOREM PatchReachesTarget ==
  ASSUME NEW base \in Snapshots, NEW target \in Snapshots
  PROVE  Patch(base, Compute(base, target), target) = target
<1> DEFINE c == Compute(base, target)
           r == Patch(base, c, target)
<1>1. \A x \in Path : r[x] = target[x]
  <2> SUFFICES ASSUME NEW x \in Path PROVE r[x] = target[x]
    OBVIOUS
  <2>1. CASE x \in PayloadFiles(c)
    BY <2>1 DEF Patch
  <2>2. CASE x \in c.deleted /\ x \notin PayloadFiles(c)
    BY <2>2 DEF Patch, Compute
  <2>3. CASE x \notin Touched(c)
    <3>1. base[x] = target[x]
      BY <2>3, UntouchedSame
    <3> QED BY <2>3, <3>1 DEF Patch, Touched
  <2> QED BY <2>1, <2>2, <2>3 DEF Touched
<1>2. r = [x \in Path |-> r[x]]
  BY DEF Patch
<1>3. target = [x \in Path |-> target[x]]
  BY DEF Snapshots
<1> QED BY <1>1, <1>2, <1>3

\* A bundle is empty only between equal cursors: what pack refuses without
\* --allow-empty is exactly a bundle that would not move the cursor.
THEOREM EmptyIffEqual ==
  ASSUME NEW base \in Snapshots, NEW target \in Snapshots
  PROVE  Empty(Compute(base, target)) <=> base = target
<1>1. ASSUME Empty(Compute(base, target)) PROVE base = target
  <2>1. \A x \in Path : base[x] = target[x]
    BY <1>1, UntouchedSame DEF Empty, Touched, PayloadFiles
  <2> QED BY <2>1 DEF Snapshots
<1>2. ASSUME base = target PROVE Empty(Compute(base, target))
  BY <1>2 DEF Empty, Compute
<1> QED BY <1>1, <1>2

-----------------------------------------------------------------------------
(* Trees.                                                                   *)

\* One node changes: parents are there for what is put, and a directory
\* gives way only when it is empty.
LEMMA PutKeepsTree ==
  ASSUME NEW t \in Trees, WellFormed(t), NEW x \in Path, NEW n \in Node,
         n # Absent => \A y \in Anc[x] : t[y] = Dir,
         t[x] = Dir => Childless(t, x),
         NEW u, u = [t EXCEPT ![x] = n]
  PROVE  u \in Trees /\ WellFormed(u)
<1>1. u \in Trees
  BY DEF Trees
<1>2. ASSUME NEW z \in Path, u[z] # Absent, NEW y \in Anc[z] PROVE u[y] = Dir
  <2>1. y \in Path /\ x \notin Anc[x]
    BY <1>2, AncAssumption
  <2>2. CASE z = x
    BY <2>2, <2>1, <1>2 DEF Trees
  <2>3. CASE z # x
    <3>1. t[z] # Absent /\ t[y] = Dir
      BY <2>3, <1>2 DEF Trees, WellFormed
    <3>2. y # x
      BY <3>1 DEF Childless
    <3> QED BY <3>1, <3>2, <2>1 DEF Trees
  <2> QED BY <2>2, <2>3
<1> QED BY <1>1, <1>2 DEF WellFormed

\* Entries of a snapshot are nodes.
LEMMA SnapshotNodes ==
  ASSUME NEW s \in Snapshots, NEW x \in Path PROVE s[x] \in Node
BY DEF Snapshots, Node

\* A walk of a tree records a snapshot entry.
LEMMA ReadType ==
  ASSUME NEW t, NEW rules, NEW x PROVE Read(t, rules, x) \in Entry \cup {Absent}
BY DEF Read

\* The least members of a set are members of it.
LEMMA LeastSubset ==
  ASSUME NEW S PROVE Least(S) \subseteq S
BY DEF Least

\* The walk goes next to one of the paths it has still to visit.
LEMMA UpcomingSubset ==
  ASSUME NEW S PROVE Upcoming(S) \subseteq S
BY DEF Upcoming

LEMMA UpcomingOne ==
  ASSUME NEW S \in SUBSET Path, NEW x \in Upcoming(S), NEW y \in Upcoming(S)
  PROVE  x = y
BY WalkRankAssumption DEF Upcoming

\* An entry put together from a content and a mode.
LEMMA HashedEntry ==
  ASSUME NEW n \in Entry, NEW bit \in BOOLEAN
  PROVE  /\ [sha |-> n.sha, exec |-> bit] \in Entry
         /\ bit \in Bits(n) => [sha |-> n.sha, exec |-> bit] = n
<1>1. n = [sha |-> n.sha, exec |-> n.exec] /\ n.sha \in Sha
  BY DEF Entry
<1> QED BY <1>1 DEF Entry, Bits

\* Whatever d.Info() reports is a bit.
LEMMA BitsType ==
  ASSUME NEW n PROVE Bits(n) \subseteq BOOLEAN
BY DEF Bits, Entry

\* The walk goes on to entries of what it lists.
LEMMA ListedType ==
  ASSUME NEW t, NEW rules, NEW S
  PROVE  ListedFiles(t, rules, S) \subseteq S /\ ListedDirs(t, rules, S) \subseteq S
BY DEF ListedFiles, ListedDirs

-----------------------------------------------------------------------------
(* The walk, with the files todo and the directories dirs listed so far and *)
(* still to be visited.                                                     *)

\* The walk has still to come to x.
Ahead(todo, dirs, x) == x \in todo \cup dirs \/ Anc[x] \cap dirs # {}

\* What is listed is not hidden, and nothing is listed twice or below
\* something that is still to be listed.
Frontier(rules, todo, dirs) ==
  /\ todo \cap dirs = {}
  /\ \A x \in todo \cup dirs : Anc[x] \cap dirs = {}
  /\ \A x \in todo : ~ Ignored(rules, x)
  /\ \A d \in dirs : (Anc[d] \cup {d}) \cap rules.dir = {}

\* Listing the root settles every path it does not list, or list above.
LEMMA ListRootSettles ==
  ASSUME NEW t \in Trees, WellFormed(t), NEW rules,
         NEW F, F = ListedFiles(t, rules, TopLevel),
         NEW D, D = ListedDirs(t, rules, TopLevel)
  PROVE  /\ Frontier(rules, F, D)
         /\ \A x \in Path : Ahead(F, D, x) \/ Read(t, rules, x) = Absent
<1>1. \A x \in F \cup D : x \in Path /\ Anc[x] = {}
  BY DEF ListedFiles, ListedDirs, TopLevel
<1>2. Frontier(rules, F, D)
  <2>1. F \cap D = {}
    BY NodeAssumption DEF ListedFiles, ListedDirs
  <2>2. /\ \A x \in F : ~ Ignored(rules, x)
        /\ \A c \in D : (Anc[c] \cup {c}) \cap rules.dir = {}
    BY <1>1 DEF ListedFiles, ListedDirs, Ignored
  <2> QED BY <1>1, <2>1, <2>2 DEF Frontier
<1>3. ASSUME NEW x \in Path, ~ Ahead(F, D, x), t[x] \in Entry, ~ Ignored(rules, x)
      PROVE  FALSE
  <2>1. PICK c \in Anc[x] \cup {x} : Anc[c] = {}
    BY AncAssumption
  <2>2. c \in TopLevel
    BY <2>1, AncAssumption DEF TopLevel
  <2>3. CASE c = x
    BY <1>3, <2>2, <2>3 DEF ListedFiles, Ignored, Ahead
  <2>4. CASE c \in Anc[x]
    <3>1. t[c] = Dir /\ c \notin rules.dir
      BY <1>3, <2>4, NodeAssumption DEF WellFormed, Ignored
    <3> QED BY <1>3, <2>2, <2>4, <3>1 DEF ListedDirs, Ahead
  <2> QED BY <2>1, <2>3, <2>4
<1> QED BY <1>2, <1>3 DEF Read

\* Listing a directory settles it, and what lies below it but for what it
\* lists: there is nothing there for the snapshot to record.
LEMMA ListDirSettles ==
  ASSUME NEW t \in Trees, WellFormed(t), NEW rules,
         NEW todo \in SUBSET Path, NEW dirs \in SUBSET Path,
         Frontier(rules, todo, dirs), NEW d \in dirs, t[d] = Dir,
         NEW F, F = ListedFiles(t, rules, Children(d)),
         NEW D, D = ListedDirs(t, rules, Children(d))
  PROVE  /\ Frontier(rules, todo \cup F, (dirs \ {d}) \cup D)
         /\ \A x \in Path : Ahead(todo \cup F, (dirs \ {d}) \cup D, x)
                              => Ahead(todo, dirs, x)
         /\ \A x \in Path : Ahead(todo, dirs, x) =>
              \/ Ahead(todo \cup F, (dirs \ {d}) \cup D, x)
              \/ Read(t, rules, x) = Absent /\ (x = d \/ d \in Anc[x])
<1>1. /\ d \in Path /\ d \notin Anc[d] /\ Anc[d] \cap dirs = {}
      /\ todo \cap dirs = {}
      /\ \A x \in todo \cup dirs : Anc[x] \cap dirs = {}
  BY AncAssumption DEF Frontier
<1>2. ASSUME NEW c \in F \cup D
      PROVE  c \in Path /\ Anc[c] = Anc[d] \cup {d}
  BY DEF ListedFiles, ListedDirs, Children
<1>3. (todo \cup F) \cap ((dirs \ {d}) \cup D) = {}
  <2>1. F \cap D = {}
    BY NodeAssumption DEF ListedFiles, ListedDirs
  <2>2. \A c \in F \cup D : c \notin todo \cup dirs
    BY <1>1, <1>2
  <2> QED BY <1>1, <2>1, <2>2
<1>4. ASSUME NEW x \in (todo \cup F) \cup (dirs \ {d}) \cup D
      PROVE  Anc[x] \cap ((dirs \ {d}) \cup D) = {}
  <2>1. x \in Path
    BY <1>2
  <2>2. Anc[x] \cap (dirs \ {d}) = {}
    BY <1>1, <1>2
  <2>3. ASSUME NEW c \in D, c \in Anc[x] PROVE FALSE
    <3>1. d \in Anc[c] /\ Anc[c] \subseteq Anc[x]
      BY <1>2, <2>1, <2>3, AncAssumption
    <3>2. CASE x \in todo \cup dirs
      BY <1>1, <3>1, <3>2
    <3>3. CASE x \in F \cup D
      <4>1. c \in Anc[d] \cup {d}
        BY <1>2, <2>3, <3>3
      <4>2. Anc[c] \subseteq Anc[d]
        BY <1>1, <4>1, AncAssumption
      <4> QED BY <1>1, <3>1, <4>2
    <3> QED BY <3>2, <3>3
  <2> QED BY <2>2, <2>3
<1>5. /\ \A x \in todo \cup F : ~ Ignored(rules, x)
      /\ \A c \in (dirs \ {d}) \cup D : (Anc[c] \cup {c}) \cap rules.dir = {}
  <2>1. (Anc[d] \cup {d}) \cap rules.dir = {}
    BY DEF Frontier
  <2>2. \A x \in F : ~ Ignored(rules, x)
    BY <1>2, <2>1 DEF Ignored, ListedFiles
  <2>3. \A c \in D : (Anc[c] \cup {c}) \cap rules.dir = {}
    BY <1>2, <2>1 DEF ListedDirs
  <2> QED BY <2>2, <2>3 DEF Frontier
<1>6. ASSUME NEW x \in Path, Ahead(todo \cup F, (dirs \ {d}) \cup D, x)
      PROVE  Ahead(todo, dirs, x)
  <2>1. CASE x \in F \cup D \/ Anc[x] \cap D # {}
    <3>1. d \in Anc[x]
      BY <1>2, <2>1, AncAssumption
    <3> QED BY <3>1 DEF Ahead
  <2> QED BY <1>6, <2>1 DEF Ahead
<1>7. ASSUME NEW x \in Path, Ahead(todo, dirs, x),
             ~ Ahead(todo \cup F, (dirs \ {d}) \cup D, x)
      PROVE  Read(t, rules, x) = Absent /\ (x = d \/ d \in Anc[x])
  <2>1. x = d \/ d \in Anc[x]
    BY <1>7 DEF Ahead
  <2>2. CASE x = d
    BY <2>2, NodeAssumption DEF Read
  <2>3. ASSUME d \in Anc[x], t[x] \in Entry, ~ Ignored(rules, x) PROVE FALSE
    <3>1. PICK c \in Anc[x] \cup {x} : Anc[c] = Anc[d] \cup {d}
      BY <2>3, AncAssumption
    <3>2. c \in Children(d)
      BY <3>1, AncAssumption DEF Children
    <3>3. CASE c = x
      BY <1>7, <2>3, <3>2, <3>3 DEF ListedFiles, Ignored, Ahead
    <3>4. CASE c \in Anc[x]
      <4>1. t[c] = Dir /\ c \notin rules.dir
        BY <2>3, <3>4, NodeAssumption DEF WellFormed, Ignored
      <4> QED BY <1>7, <3>2, <3>4, <4>1 DEF ListedDirs, Ahead
    <3> QED BY <3>1, <3>3, <3>4
  <2> QED BY <2>1, <2>2, <2>3 DEF Read
<1> QED BY <1>3, <1>4, <1>5, <1>6, <1>7 DEF Frontier

\* Reading a file settles it and nothing else.
LEMMA ReadFileSettles ==
  ASSUME NEW rules, NEW todo, NEW dirs, Frontier(rules, todo, dirs), NEW x \in todo
  PROVE  /\ Frontier(rules, todo \ {x}, dirs)
         /\ ~ Ignored(rules, x)
         /\ \A y \in Path : Ahead(todo \ {x}, dirs, y) <=> Ahead(todo, dirs, y) /\ y # x
BY DEF Frontier, Ahead

\* The walk is over when nothing is listed any more.
LEMMA NothingAhead ==
  ASSUME NEW x PROVE ~ Ahead({}, {}, x)
BY DEF Ahead
=============================================================================
