----------------------------- MODULE PackProofs -----------------------------
(* Proofs about Pack for every universe of paths, every source, any number  *)
(* of edits, deaths, copies and mishaps.                                    *)
EXTENDS Pack, TreeProofs, FiniteSetTheorems, SequenceTheorems

USE DEF PackEnded, PackPhase

\* Every entry of an archive is of a path of its own.
OnePerPath(a) ==
  \A i, j \in DOMAIN a.data : a.data[i].path = a.data[j].path => i = j

\* The file that is written holds what the manifest lists, but for what
\* Write has still to copy.
OutHolds ==
  /\ out # NoFile => OnePerPath(out)
  /\ pc = "manifest" => out = NewArchive
  /\ pc = "data" =>
       /\ out # NoFile /\ out.manifest = Target /\ ~ out.closed
       /\ job.todo \subseteq PayloadFiles(Changes(Target))
       /\ Held(out) = {w \in Want(Target) : w.path \notin job.todo}

\* The copy that is read, damaged or not, and what apply takes from it.
CopyHolds ==
  /\ media # NoFile => OnePerPath(media)
  /\ rpc \in {"manifest", "verified", "staged"} => media # NoFile /\ rman # NoManifest
  /\ StageExact

\* A state that is packed from is the empty one or one a bundle leads to.
Reached(s) == s = EmptySnapshot \/ \E b \in sealed : b.target = s

ChainHolds ==
  /\ cursorOut \in Snapshots => Reached(cursorOut)
  /\ \A b \in sealed : Reached(b.base)
  /\ pc \in PackPhase => Reached(job.base)
  /\ pc = "save" => Target \in sealed

\* What is listed or recorded lies below nothing that is.
Apart(todo, dirs, got) ==
  \A x \in todo \cup dirs \cup {z \in Path : got[z] # Absent} :
    \A y \in Anc[x] : y \notin todo \cup dirs /\ got[y] = Absent

\* What a snapshot by these rules has at x is of the trees M.
Genuine(e, rules, M, x) ==
  \E m, n \in M :
    IF e = Absent THEN Read(m, rules, x) = Absent
    ELSE /\ ~ Ignored(rules, x) /\ m[x] \in Entry
         /\ e.sha = m[x].sha /\ e.exec \in Bits(n[x])

\* The mode a walk has read, of the file it is to hash next.
BitSeen ==
  \A x \in Visit \cap job.todo : \E n \in moments : job.exec \in Bits(n[x])

\* What the walk has come by was so at some moment since it began.
WalkedHolds ==
  /\ pc \in PackPhase => src \in moments
  /\ pc \in {"walk", "hash"} =>
       /\ Frontier(job.rules, job.todo, job.dirs)
       /\ Apart(job.todo, job.dirs, job.got)
       /\ \A x \in Path : IF Ahead(job.todo, job.dirs, x) THEN job.got[x] = Absent
                          ELSE Genuine(job.got[x], job.rules, moments, x)
  /\ pc = "hash" => BitSeen
  /\ pc = "list" => job.got = EmptySnapshot

\* What Apply assumes of its bundles.
BundlesFit == \A b \in sealed : Placeable(b.base) /\ Placeable(b.target)

PackInv ==
  /\ PackTypeOK
  /\ OutHolds /\ SealedIsSound /\ CopyHolds /\ ChainHolds
  /\ WalkedHolds /\ EntriesWereReal /\ BundlesFit

-----------------------------------------------------------------------------
(* PackTypeOK.                                                              *)

LEMMA InitPackType == PackInit => PackTypeOK
<1> SUFFICES ASSUME PackInit PROVE PackTypeOK
  OBVIOUS
<1>1. src \in Trees /\ WellFormed(src)
  BY SourcesAssumption DEF PackInit
<1>2. NoJob \in Job
  BY DEF NoJob, Job, EmptySnapshot, Snapshots, NoRules, Rules
<1>3. limits \in Limit
  BY LimitsAssumption DEF PackInit
<1> QED BY <1>1, <1>2, <1>3 DEF PackInit, PackTypeOK, Limit

\* The rules a pack starts with.
LEMMA SourceRulesType ==
  ASSUME src \in Trees, SourceRules # BadGlob PROVE SourceRules \in Rules
<1>1. NoRules \in Rules
  BY DEF NoRules, Rules
<1>2. ASSUME src[IgnoreFile] \in Entry
      PROVE  RulesOf[src[IgnoreFile].sha] \in Rules \cup {BadGlob}
  BY <1>2, RulesAssumption DEF Entry
<1> QED BY <1>1, <1>2 DEF SourceRules

\* A pack that ends forgets its locals.
LEMMA EndingType ==
  ASSUME PackTypeOK, NEW result \in PackEnded, Ending(result)
  PROVE  pc' \in PackEnded \cup PackPhase /\ job' \in Job /\ moments' \subseteq Trees
<1>1. NoJob \in Job
  BY DEF NoJob, Job, EmptySnapshot, Snapshots, NoRules, Rules
<1> QED BY <1>1 DEF Ending

\* What the pack has found out is a bundle.
LEMMA TargetType ==
  ASSUME PackTypeOK PROVE Target \in Bundle
BY DEF PackTypeOK, Job, Target, Bundle

LEMMA StartPackType ==
  ASSUME PackTypeOK, NEW base \in Snapshots, StartPack(base) PROVE PackTypeOK'
<1>1. SourceRules \in Rules
  BY SourceRulesType DEF StartPack, PackTypeOK
<1>2. job' = [base |-> base, rules |-> SourceRules, got |-> EmptySnapshot,
              todo |-> {}, dirs |-> {}, exec |-> FALSE]
  BY DEF StartPack, NoJob
<1>3. job' \in Job
  BY <1>1, <1>2 DEF Job, EmptySnapshot, Snapshots
<1>4. moments' \subseteq Trees
  BY DEF StartPack, PackTypeOK
<1> QED BY <1>3, <1>4 DEF StartPack, PackTypeOK, source, files, reader

\* The steps of the walk keep the locals of the pack in their type.
LEMMA WalkSourceType ==
  ASSUME PackTypeOK, ListSource \/ WalkSourceDir \/ StatSource \/ HashSource
  PROVE  PackTypeOK'
<1>1. job \in Job
  BY DEF PackTypeOK
<1>2. job' \in Job
  <2>1. CASE ListSource
    <3>1. /\ ListedFiles(src, job.rules, TopLevel) \subseteq Path
          /\ ListedDirs(src, job.rules, TopLevel) \subseteq Path
      BY ListedType DEF TopLevel
    <3> QED BY <1>1, <2>1, <3>1 DEF ListSource, Job
  <2>2. CASE WalkSourceDir
    <3>1. PICK d \in Visit \cap job.dirs :
            job' = [job EXCEPT
              !.todo = @ \cup ListedFiles(src, job.rules, Children(d)),
              !.dirs = (@ \ {d}) \cup ListedDirs(src, job.rules, Children(d))]
      BY <2>2 DEF WalkSourceDir
    <3>2. /\ ListedFiles(src, job.rules, Children(d)) \subseteq Path
          /\ ListedDirs(src, job.rules, Children(d)) \subseteq Path
      BY ListedType DEF Children
    <3> QED BY <1>1, <3>1, <3>2 DEF Job
  <2>3. CASE StatSource
    <3>1. PICK x \in Visit \cap job.todo : \E bit \in Bits(src[x]) :
            job' = [job EXCEPT !.exec = bit]
      BY <2>3 DEF StatSource
    <3>2. PICK bit \in BOOLEAN : job' = [job EXCEPT !.exec = bit]
      BY <3>1, BitsType
    <3> QED BY <1>1, <3>2 DEF Job
  <2>4. CASE HashSource
    <3>1. PICK x \in Visit \cap job.todo :
            /\ src[x] \in Entry
            /\ job' = [job EXCEPT
                 !.todo = @ \ {x}, !.exec = FALSE,
                 !.got = [@ EXCEPT ![x] = [sha |-> src[x].sha, exec |-> job.exec]]]
      BY <2>4 DEF HashSource
    <3>2. job.got \in Snapshots /\ job.todo \subseteq Path /\ job.exec \in BOOLEAN
      BY <1>1 DEF Job
    <3>3. [sha |-> src[x].sha, exec |-> job.exec] \in Entry
      BY <3>1, <3>2, HashedEntry
    <3>4. [job.got EXCEPT ![x] = [sha |-> src[x].sha, exec |-> job.exec]] \in Snapshots
      BY <3>1, <3>2, <3>3 DEF Snapshots
    <3> QED BY <1>1, <3>1, <3>4 DEF Job
  <2> QED BY <2>1, <2>2, <2>3, <2>4
<1> QED BY <1>2 DEF ListSource, WalkSourceDir, StatSource, HashSource, PackTypeOK,
                    source, files, reader

\* Write keeps the archive in its type.
LEMMA WriteType ==
  ASSUME PackTypeOK, OutHolds,
         CreateBundle \/ WriteManifest \/ WritePayload \/ CloseBundle
  PROVE  PackTypeOK'
<1>1. job \in Job /\ Target \in Bundle
  BY TargetType DEF PackTypeOK
<1>2. NewArchive \in Archive
  BY EmptySeq DEF NewArchive, Archive
<1>3. pc \in {"manifest", "data"} => out \in Archive
  BY <1>2 DEF PackTypeOK, OutHolds
<1>4. CASE CreateBundle
  BY <1>2, <1>4 DEF CreateBundle, SourceWalked, PackTypeOK, source, reader
<1>5. CASE WriteManifest
  <2>1. out' \in Archive
    BY <1>1, <1>3, <1>5 DEF WriteManifest, Archive
  <2>2. job' \in Job
    BY <1>1, <1>5, TouchedType DEF WriteManifest, Job, Touched
  <2> QED BY <1>5, <2>1, <2>2 DEF WriteManifest, PackTypeOK, source, reader
<1>6. CASE WritePayload
  <2>1. PICK x \in Least(job.todo) :
          /\ src[x] \in Entry
          /\ out' = [out EXCEPT !.data = Append(@, [path |-> x, sha |-> src[x].sha])]
          /\ job' = [job EXCEPT !.todo = @ \ {x}]
    BY <1>6 DEF WritePayload, SameContent
  <2>2. x \in Path /\ src[x].sha \in Sha
    BY <1>1, <2>1, LeastSubset DEF Job, Entry
  <2>3. out \in Archive /\ out.data \in Seq(DataEntry)
    BY <1>3, <1>6 DEF WritePayload, Archive
  <2>4. Append(out.data, [path |-> x, sha |-> src[x].sha]) \in Seq(DataEntry)
    BY <2>2, <2>3 DEF DataEntry
  <2>5. out' \in Archive
    BY <2>1, <2>3, <2>4 DEF Archive
  <2>6. job' \in Job
    BY <1>1, <2>1 DEF Job
  <2> QED BY <1>6, <2>5, <2>6 DEF WritePayload, PackTypeOK, source, reader
<1>7. CASE CloseBundle
  <2>1. out' \in Archive
    BY <1>3, <1>7 DEF CloseBundle, Archive
  <2> QED BY <1>1, <1>7, <2>1 DEF CloseBundle, PackTypeOK, source, reader
<1> QED BY <1>4, <1>5, <1>6, <1>7

\* A source that is worked in stays a tree.
LEMMA SourceEditType ==
  ASSUME PackTypeOK, NEW x \in Path, NEW n \in limits.nodes, SourceEdit(x, n)
  PROVE  PackTypeOK'
<1>1. n \in Node /\ limits \in Limit
  BY LimitsAssumption DEF PackTypeOK, Limit
<1>2. src' \in Trees /\ WellFormed(src)'
  <2>1. src \in Trees /\ WellFormed(src)
    BY DEF PackTypeOK
  <2>2. /\ n # Absent => \A y \in Anc[x] : src[y] = Dir
        /\ src[x] = Dir => Childless(src, x)
        /\ src' = [src EXCEPT ![x] = n]
    BY DEF SourceEdit
  <2>3. src' \in Trees /\ WellFormed(src')
    BY <1>1, <2>1, <2>2, PutKeepsTree
  <2> QED BY <2>3 DEF WellFormed
<1>3. moments' \subseteq Trees
  BY <1>2 DEF SourceEdit, PackTypeOK
<1>4. edits' \in 0..limits.edits
  BY <1>1 DEF SourceEdit, PackTypeOK, Limit
<1> QED BY <1>2, <1>3, <1>4 DEF SourceEdit, PackTypeOK, files, reader

\* What damage makes of a copy is still an archive, and its entries are
\* still of different paths.
LEMMA DamagedCopy ==
  ASSUME NEW a \in Archive, OnePerPath(a), NEW c,
         \/ c = [a EXCEPT !.closed = FALSE, !.data = SubSeq(@, 1, Len(@) - 1)]
         \/ c = [a EXCEPT !.manifest = NoManifest]
         \/ \E i \in DOMAIN a.data : \E s \in Sha : c = [a EXCEPT !.data[i].sha = s]
  PROVE  c \in Archive /\ OnePerPath(c)
<1>1. a.data \in Seq(DataEntry) /\ Len(a.data) \in Nat
      /\ DOMAIN a.data = 1..Len(a.data)
  BY LenProperties DEF Archive
<1>2. CASE c = [a EXCEPT !.closed = FALSE, !.data = SubSeq(@, 1, Len(@) - 1)]
  <2> DEFINE d == SubSeq(a.data, 1, Len(a.data) - 1)
  <2>1. \A i \in 1..(Len(a.data) - 1) : a.data[i] \in DataEntry
    BY <1>1, ElementOfSeq
  <2>2. /\ d \in Seq(DataEntry)
        /\ \A i \in DOMAIN d : i \in DOMAIN a.data /\ d[i] = a.data[i]
    <3>1. Len(a.data) - 1 \in Int
      BY <1>1
    <3>2. /\ d \in Seq(DataEntry)
          /\ Len(d) = IF 1 <= Len(a.data) - 1 THEN (Len(a.data) - 1) - 1 + 1 ELSE 0
          /\ \A i \in 1..((Len(a.data) - 1) - 1 + 1) : d[i] = a.data[1 + i - 1]
      BY <2>1, <3>1, SubSeqProperties
    <3>3. DOMAIN d = 1..Len(d)
      BY <3>2, LenProperties
    <3> QED BY <1>1, <3>2, <3>3
  <2>3. c.data = d /\ c \in Archive
    BY <1>2, <2>2 DEF Archive
  <2> QED BY <2>2, <2>3 DEF OnePerPath
<1>3. CASE c = [a EXCEPT !.manifest = NoManifest]
  BY <1>3 DEF Archive, OnePerPath
<1>4. ASSUME NEW i \in DOMAIN a.data, NEW s \in Sha, c = [a EXCEPT !.data[i].sha = s]
      PROVE  c \in Archive /\ OnePerPath(c)
  <2> DEFINE e == [a.data[i] EXCEPT !.sha = s]
             d == [a.data EXCEPT ![i] = e]
  <2>1. a.data[i] \in DataEntry
    BY <1>1, ElementOfSeq
  <2>2. e \in DataEntry /\ e.path = a.data[i].path
    BY <2>1 DEF DataEntry
  <2>3. d \in Seq(DataEntry) /\ DOMAIN d = DOMAIN a.data
    BY <1>1, <2>2, ExceptSeq
  <2>4. \A j \in DOMAIN d : d[j].path = a.data[j].path
    BY <2>2, <2>3
  <2>5. c.data = d /\ c \in Archive
    BY <1>4, <2>3 DEF Archive
  <2> QED BY <2>3, <2>4, <2>5 DEF OnePerPath
<1> QED BY <1>2, <1>3, <1>4

LEMMA DamageType ==
  ASSUME PackTypeOK, CopyHolds, Damage
  PROVE  PackTypeOK' /\ media' # NoFile /\ OnePerPath(media')
<1>1. media \in Archive /\ OnePerPath(media)
  BY DEF Damage, PackTypeOK, CopyHolds
<1>2. media' \in Archive /\ OnePerPath(media')
  BY <1>1, DamagedCopy DEF Damage
<1>3. damage' \in 0..limits.damage
  BY LimitsAssumption DEF Damage, PackTypeOK, Limit
<1> QED BY <1>2, <1>3, FilesAssumption DEF Damage, PackTypeOK, source, files

\* The readings of a copy.
LEMMA ReadingType ==
  ASSUME PackTypeOK, CopyHolds, ReadManifest \/ VerifyPayload \/ ExtractTo
  PROVE  PackTypeOK'
<1>1. CASE ReadManifest
  <2>1. media.manifest \in Bundle
    BY <1>1 DEF ReadManifest, PackTypeOK, Archive
  <2> QED BY <1>1, <2>1 DEF ReadManifest, PackTypeOK, source, files
<1>2. CASE VerifyPayload
  BY <1>2 DEF VerifyPayload, PackTypeOK, source, files
<1>3. CASE ExtractTo
  <2>1. media \in Archive
    BY <1>3 DEF ExtractTo, PackTypeOK, CopyHolds
  <2>2. Held(media) \subseteq DataEntry
    BY <2>1, LenProperties, ElementOfSeq DEF Held, Archive
  <2> QED BY <1>3, <2>2 DEF ExtractTo, PackTypeOK, source, files
<1> QED BY <1>1, <1>2, <1>3

\* Every variable keeps its type, and the source stays a tree.
LEMMA NextPackType ==
  PackTypeOK /\ OutHolds /\ CopyHolds /\ [PackNext]_vars => PackTypeOK'
<1> SUFFICES ASSUME PackTypeOK, OutHolds, CopyHolds, [PackNext]_vars PROVE PackTypeOK'
  OBVIOUS
<1>1. CASE PackFull
  <2>1. EmptySnapshot \in Snapshots
    BY DEF EmptySnapshot, Snapshots
  <2> QED BY <1>1, <2>1, StartPackType DEF PackFull
<1>2. CASE PackSince
  BY <1>2, StartPackType DEF PackSince, PackTypeOK
<1>3. ASSUME NEW result \in PackEnded, Ending(result),
             UNCHANGED <<source, out, reader, sealed>>,
             cursorOut' \in Snapshots \cup {NoFile, Unreadable},
             deaths' \in 0..limits.deaths
      PROVE  PackTypeOK'
  BY <1>3, EndingType DEF PackTypeOK, source, reader
<1>4. CASE RefusePack \/ WalkSourceFails \/ NothingToPack \/ PayloadChanged
  BY <1>3, <1>4 DEF RefusePack, WalkSourceFails, NothingToPack, PayloadChanged,
                    PackTypeOK, files
<1>5. CASE SaveCursorOut
  BY <1>3, <1>5 DEF SaveCursorOut, PackTypeOK, Job
<1>6. CASE PackDies
  <2>1. deaths' \in 0..limits.deaths
    BY <1>6, LimitsAssumption DEF PackDies, PackTypeOK, Limit
  <2> QED BY <1>3, <1>6, <2>1 DEF PackDies, PackTypeOK
<1>7. CASE Copy
  <2>1. copies' \in 0..limits.copies
    BY <1>7, LimitsAssumption DEF Copy, PackTypeOK, Limit
  <2> QED BY <1>7, <2>1 DEF Copy, PackTypeOK, source, files
<1>8. CASE UNCHANGED vars
  BY <1>8 DEF vars, PackTypeOK
<1> QED BY <1>1, <1>2, <1>4, <1>5, <1>6, <1>7, <1>8, WalkSourceType, WriteType,
           SourceEditType, DamageType, ReadingType DEF PackNext

-----------------------------------------------------------------------------
(* The file that is written: OutHolds and SealedIsSound.                    *)

\* Whoever does not write leaves it as it is.
LEMMA OutStays ==
  ASSUME OutHolds, SealedIsSound, UNCHANGED out,
         pc' \notin {"manifest", "data"} \/ UNCHANGED <<pc, job>>
  PROVE  OutHolds' /\ SealedIsSound'
BY DEF OutHolds, SealedIsSound, Target

\* A file that was just created.
LEMMA NewArchiveHolds ==
  /\ OnePerPath(NewArchive) /\ Held(NewArchive) = {}
  /\ ~ NewArchive.closed /\ NewArchive # NoFile
<1>1. NewArchive \in Archive
  BY EmptySeq DEF NewArchive, Archive
<1>2. NewArchive.data = <<>> /\ DOMAIN NewArchive.data = {}
  BY DEF NewArchive
<1> QED BY <1>1, <1>2, FilesAssumption DEF NewArchive, OnePerPath, Held

\* An entry more: the archive holds it too, and if its path is new the paths
\* stay different.
LEMMA AppendEntry ==
  ASSUME NEW a \in Archive, OnePerPath(a), NEW e \in DataEntry,
         \A w \in Held(a) : w.path # e.path,
         NEW c, c = [a EXCEPT !.data = Append(@, e)]
  PROVE  /\ c \in Archive /\ OnePerPath(c) /\ Held(c) = Held(a) \cup {e}
         /\ c.manifest = a.manifest /\ c.closed = a.closed
<1> DEFINE n == Len(a.data)
<1>1. a.data \in Seq(DataEntry) /\ n \in Nat /\ DOMAIN a.data = 1..n
  BY LenProperties DEF Archive
<1>2. /\ c \in Archive /\ c.data = Append(a.data, e)
      /\ c.manifest = a.manifest /\ c.closed = a.closed
  <2>1. Append(a.data, e) \in Seq(DataEntry)
    BY <1>1
  <2> QED BY <2>1 DEF Archive
<1>3. /\ DOMAIN c.data = 1..(n + 1) /\ c.data[n + 1] = e
      /\ \A i \in 1..n : c.data[i] = a.data[i]
  BY <1>1, <1>2
<1>4. Held(c) = Held(a) \cup {e}
  <2>1. \A i \in 1..(n + 1) : i \in 1..n \/ i = n + 1
    BY <1>1
  <2> QED BY <1>1, <1>3, <2>1 DEF Held
<1>5. OnePerPath(c)
  <2>1. \A i \in 1..n : c.data[i].path # e.path
    BY <1>1, <1>3 DEF Held
  <2>2. \A i \in 1..(n + 1) : i \in 1..n \/ i = n + 1
    BY <1>1
  <2> QED BY <1>1, <1>3, <2>1, <2>2 DEF OnePerPath
<1> QED BY <1>2, <1>4, <1>5

LEMMA WritePayloadHolds ==
  ASSUME PackTypeOK, OutHolds, WritePayload
  PROVE  OutHolds' /\ SealedIsSound'
<1> DEFINE W == Want(Target)
<1>1. PICK x \in Least(job.todo) :
        /\ src[x] \in Entry /\ src[x].sha = job.got[x].sha
        /\ out' = [out EXCEPT !.data = Append(@, [path |-> x, sha |-> src[x].sha])]
        /\ job' = [job EXCEPT !.todo = @ \ {x}]
  BY DEF WritePayload, SameContent
<1> DEFINE e == [path |-> x, sha |-> src[x].sha]
<1>2. /\ pc = "data" /\ pc' = "data"
      /\ out # NoFile /\ out.manifest = Target /\ ~ out.closed
      /\ job.todo \subseteq PayloadFiles(Changes(Target))
      /\ Held(out) = {w \in W : w.path \notin job.todo}
      /\ OnePerPath(out) /\ out \in Archive /\ job \in Job
  BY DEF WritePayload, OutHolds, PackTypeOK
<1>3. /\ x \in job.todo /\ x \in Path /\ e \in DataEntry
  BY <1>1, <1>2, LeastSubset DEF Job, DataEntry, Entry
<1>4. /\ out' \in Archive /\ OnePerPath(out') /\ Held(out') = Held(out) \cup {e}
      /\ out'.manifest = Target /\ ~ out'.closed
  <2>1. \A w \in Held(out) : w.path # e.path
    BY <1>2, <1>3
  <2>2. out' = [out EXCEPT !.data = Append(@, e)]
    BY <1>1
  <2> HIDE DEF e, W
  <2> QED BY <1>2, <1>3, <2>1, <2>2, AppendEntry
<1>5. job'.todo = job.todo \ {x} /\ Target' = Target
  BY <1>1, <1>2 DEF Job, Target
<1>6. e \in W /\ \A w \in W : w.path = x => w = e
  BY <1>1, <1>2, <1>3 DEF Want, Target
<1>7. Held(out') = {w \in W : w.path \notin job.todo \ {x}}
  BY <1>2, <1>3, <1>4, <1>6
<1>8. out' # NoFile
  BY <1>4, FilesAssumption
<1>9. /\ Held(out)' = Held(out') /\ OnePerPath(out)' = OnePerPath(out')
  BY DEF Held, OnePerPath
<1>10. (Want(Target))' = W
  BY <1>5 DEF Want
<1> QED BY <1>2, <1>4, <1>5, <1>7, <1>8, <1>9, <1>10 DEF OutHolds, SealedIsSound

LEMMA NextOut ==
  PackTypeOK /\ OutHolds /\ SealedIsSound /\ [PackNext]_vars
    => OutHolds' /\ SealedIsSound'
<1> SUFFICES ASSUME PackTypeOK, OutHolds, SealedIsSound, [PackNext]_vars
             PROVE  OutHolds' /\ SealedIsSound'
  OBVIOUS
<1>1. CASE CreateBundle
  BY <1>1, NewArchiveHolds DEF CreateBundle, OutHolds, SealedIsSound
<1>2. CASE WriteManifest
  <2>1. /\ out = NewArchive /\ out' = [NewArchive EXCEPT !.manifest = Target]
        /\ pc' = "data" /\ job \in Job
        /\ job' = [job EXCEPT !.todo = PayloadFiles(Changes(Target))]
    BY <1>2 DEF WriteManifest, OutHolds, PackTypeOK
  <2>2. job'.todo = PayloadFiles(Changes(Target)) /\ Target' = Target
    BY <2>1 DEF Job, Target
  <2>3. /\ out'.manifest = Target /\ ~ out'.closed /\ out'.data = <<>>
    BY <2>1 DEF NewArchive
  <2>4. NewArchive \in Archive /\ Target \in Bundle
    BY EmptySeq, TargetType DEF NewArchive, Archive
  <2>5. out' # NoFile
    BY <2>1, <2>4, FilesAssumption DEF Archive
  <2>6. OnePerPath(out)' /\ Held(out)' = {}
    BY <2>3 DEF OnePerPath, Held
  <2>7. \A w \in Want(Target) : w.path \in PayloadFiles(Changes(Target))
    BY DEF Want
  <2>8. {w \in Want(Target)' : w.path \notin job'.todo} = {}
    BY <2>2, <2>7 DEF Want
  <2> QED BY <2>1, <2>2, <2>3, <2>5, <2>6, <2>8 DEF OutHolds, SealedIsSound
<1>3. CASE WritePayload
  BY <1>3, WritePayloadHolds
<1>4. CASE CloseBundle
  <2>1. /\ out # NoFile /\ out \in Archive /\ out.manifest = Target
        /\ Held(out) = {w \in Want(Target) : w.path \notin {}}
        /\ OnePerPath(out)
        /\ out' = [out EXCEPT !.closed = TRUE] /\ pc' = "save"
    BY <1>4 DEF CloseBundle, OutHolds, PackTypeOK
  <2>2. /\ out'.closed /\ out'.data = out.data /\ out'.manifest = Target
    BY <2>1 DEF Archive
  <2>3. Held(out') = Want(Target) /\ OnePerPath(out')
    BY <2>1, <2>2 DEF Held, OnePerPath
  <2>4. Verified(out', out'.manifest)
    BY <2>2, <2>3 DEF Verified, OnePerPath
  <2> QED BY <2>1, <2>3, <2>4
             DEF OutHolds, SealedIsSound, OnePerPath, Verified, Held, Want
<1>5. CASE PackFull \/ PackSince \/ RefusePack \/ ListSource
  BY <1>5, OutStays DEF PackFull, PackSince, StartPack, RefusePack, ListSource,
                        Ending, files
<1>6. CASE \/ WalkSourceDir \/ StatSource \/ HashSource \/ WalkSourceFails
           \/ NothingToPack
  BY <1>6, OutStays DEF WalkSourceDir, StatSource, HashSource, WalkSourceFails,
                        NothingToPack, Ending, files
<1>7. CASE PayloadChanged \/ SaveCursorOut \/ PackDies
  BY <1>7, OutStays DEF PayloadChanged, SaveCursorOut, PackDies, Ending, files
<1>8. ASSUME NEW x \in Path, NEW n \in limits.nodes, SourceEdit(x, n)
      PROVE  OutHolds' /\ SealedIsSound'
  BY <1>8, OutStays DEF SourceEdit, files
<1>9. CASE Copy \/ Damage \/ ReadManifest \/ VerifyPayload \/ ExtractTo
  BY <1>9, OutStays DEF Copy, Damage, ReadManifest, VerifyPayload, ExtractTo, files
<1>10. CASE UNCHANGED vars
  BY <1>10, OutStays DEF vars
<1> QED BY <1>1, <1>2, <1>3, <1>4, <1>5, <1>6, <1>7, <1>8, <1>9, <1>10 DEF PackNext

-----------------------------------------------------------------------------
(* The copy that is read: CopyHolds.                                        *)

\* A manifest lists finitely many entries.
LEMMA WantFinite ==
  ASSUME NEW m PROVE IsFiniteSet(Want(m))
<1> DEFINE g == [w \in Want(m) |-> w.path]
<1>1. \A w \in Want(m) : w.path \in Path /\ w = [path |-> w.path, sha |-> m.target[w.path].sha]
  BY TouchedType DEF Want, Touched
<1>2. g \in Injection(Want(m), Path)
  BY <1>1 DEF Injection, IsInjective
<1> QED BY <1>2, PathAssumption, FS_Injection

\* Entries of different paths are as many as they are entries.
LEMMA HeldCounts ==
  ASSUME NEW a \in Archive, OnePerPath(a)
  PROVE  Cardinality(Held(a)) = Len(a.data)
<1> DEFINE n == Len(a.data)
           h == [i \in 1..n |-> a.data[i]]
<1>1. n \in Nat /\ DOMAIN a.data = 1..n
  BY LenProperties DEF Archive
<1>2. h \in [1..n -> Held(a)]
  BY <1>1 DEF Held
<1>3. \A i, j \in 1..n : h[i] = h[j] => i = j
  BY <1>1 DEF OnePerPath
<1>4. \A w \in Held(a) : \E i \in 1..n : h[i] = w
  BY <1>1 DEF Held
<1>5. h \in Bijection(1..n, Held(a))
  BY <1>2, <1>3, <1>4 DEF Bijection, Injection, Surjection, IsInjective
<1>6. ExistsBijection(1..n, Held(a))
  BY <1>5 DEF ExistsBijection
<1> QED BY <1>1, <1>6, FS_CountingElements

\* ExtractTo counts what it writes: as many entries as the manifest lists,
\* all of them known and none twice, are all of them.
LEMMA ExtractsExact ==
  ASSUME NEW a \in Archive, OnePerPath(a), NEW m, Extracts(a, m)
  PROVE  Held(a) = Want(m)
<1>1. Held(a) \in SUBSET Want(m) /\ Cardinality(Held(a)) = Cardinality(Want(m))
  BY HeldCounts DEF Extracts
<1> QED BY <1>1, WantFinite, FS_Subset

LEMMA NextCopy ==
  PackTypeOK /\ OutHolds /\ CopyHolds /\ [PackNext]_vars => CopyHolds'
<1> SUFFICES ASSUME PackTypeOK, OutHolds, CopyHolds, [PackNext]_vars
             PROVE  CopyHolds'
  OBVIOUS
<1> USE DEF CopyHolds, StageExact
<1>1. ASSUME UNCHANGED reader PROVE CopyHolds'
  BY <1>1 DEF reader, OnePerPath
<1>2. CASE Copy
  BY <1>2 DEF Copy, OutHolds, OnePerPath
<1>3. CASE Damage
  BY <1>3, DamageType DEF Damage, OnePerPath
<1>4. CASE ReadManifest
  BY <1>4 DEF ReadManifest, OnePerPath
<1>5. CASE VerifyPayload
  BY <1>5 DEF VerifyPayload, OnePerPath
<1>6. CASE ExtractTo
  <2>1. media # NoFile /\ media \in Archive /\ OnePerPath(media) /\ rman # NoManifest
    BY <1>6 DEF ExtractTo, PackTypeOK
  <2>2. /\ media' = media /\ rman' = rman
        /\ rpc' = "staged" => Extracts(media, rman) /\ stage' = Held(media)
    BY <1>6 DEF ExtractTo
  <2>3. rpc' = "staged" => stage' = Want(rman)
    BY <2>1, <2>2, ExtractsExact
  <2> QED BY <2>1, <2>2, <2>3 DEF OnePerPath, Want
<1>7. CASE \/ PackFull \/ PackSince \/ RefusePack \/ ListSource \/ WalkSourceDir
           \/ StatSource \/ HashSource \/ WalkSourceFails \/ NothingToPack
           \/ CreateBundle \/ WriteManifest \/ WritePayload \/ PayloadChanged
           \/ CloseBundle \/ SaveCursorOut \/ PackDies
  BY <1>1, <1>7 DEF PackFull, PackSince, StartPack, RefusePack, ListSource,
       WalkSourceDir, StatSource, HashSource, WalkSourceFails, NothingToPack,
       CreateBundle, WriteManifest, WritePayload, PayloadChanged, CloseBundle,
       SaveCursorOut, PackDies
<1>8. ASSUME NEW x \in Path, NEW n \in limits.nodes, SourceEdit(x, n) PROVE CopyHolds'
  BY <1>1, <1>8 DEF SourceEdit
<1>9. CASE UNCHANGED vars
  BY <1>1, <1>9 DEF vars, reader
<1> QED BY <1>2, <1>3, <1>4, <1>5, <1>6, <1>7, <1>8, <1>9 DEF PackNext

-----------------------------------------------------------------------------
(* The chain of bundles: ChainHolds.                                        *)

\* What was reached stays reached.
LEMMA StillReached ==
  ASSUME sealed \subseteq sealed' PROVE \A s : Reached(s) => Reached(s)'
BY DEF Reached

LEMMA NextChain ==
  PackTypeOK /\ ChainHolds /\ [PackNext]_vars => ChainHolds'
<1> SUFFICES ASSUME PackTypeOK, ChainHolds, [PackNext]_vars PROVE ChainHolds'
  OBVIOUS
<1>1. ASSUME UNCHANGED <<cursorOut, sealed>>,
             pc' \in PackPhase \ {"save"}, Reached(job'.base)
      PROVE  ChainHolds'
  BY <1>1 DEF ChainHolds, Reached
<1>2. ASSUME UNCHANGED sealed, cursorOut' \in Snapshots => Reached(cursorOut'),
             pc' \in PackEnded
      PROVE  ChainHolds'
  BY <1>2 DEF ChainHolds, Reached
<1>3. ASSUME UNCHANGED <<cursorOut, sealed, pc, job>> PROVE ChainHolds'
  BY <1>3 DEF ChainHolds, Reached, Target
<1>4. CASE PackFull \/ PackSince
  <2>1. PICK base : Reached(base) /\ StartPack(base)
    BY <1>4 DEF PackFull, PackSince, ChainHolds, Reached, PackTypeOK
  <2> QED BY <1>1, <2>1 DEF StartPack, files, NoJob
<1>5. CASE RefusePack \/ WalkSourceFails \/ NothingToPack \/ PayloadChanged
  BY <1>2, <1>5 DEF RefusePack, WalkSourceFails, NothingToPack, PayloadChanged,
                    Ending, files, ChainHolds
<1>6. CASE SaveCursorOut
  <2>1. Reached(job.got)
    BY <1>6 DEF SaveCursorOut, ChainHolds, Reached, Target
  <2> QED BY <1>2, <1>6, <2>1 DEF SaveCursorOut, Ending, ChainHolds
<1>7. CASE PackDies
  BY <1>2, <1>7, FilesAssumption DEF PackDies, Ending, ChainHolds
<1>8. CASE ListSource \/ WalkSourceDir \/ StatSource \/ HashSource
  <2>1. job'.base = job.base
    BY <1>8 DEF ListSource, WalkSourceDir, StatSource, HashSource, PackTypeOK, Job
  <2> QED BY <1>1, <1>8, <2>1
             DEF ListSource, WalkSourceDir, StatSource, HashSource, files, ChainHolds
<1>9. CASE CreateBundle \/ WriteManifest \/ WritePayload
  <2>1. job'.base = job.base
    BY <1>9 DEF CreateBundle, WriteManifest, WritePayload, PackTypeOK, Job
  <2> QED BY <1>1, <1>9, <2>1
             DEF CreateBundle, SourceWalked, WriteManifest, WritePayload, ChainHolds
<1>10. CASE CloseBundle
  <2>1. /\ sealed' = sealed \cup {Target} /\ UNCHANGED <<cursorOut, job>>
        /\ pc = "data" /\ pc' = "save" /\ Target.base = job.base
    BY <1>10 DEF CloseBundle, Target
  <2>2. /\ cursorOut \in Snapshots => Reached(cursorOut)'
        /\ \A b \in sealed' : Reached(b.base)' /\ Reached(job.base)'
    BY <2>1, StillReached DEF ChainHolds
  <2>3. Target' = Target
    BY <2>1 DEF Target
  <2> QED BY <2>1, <2>2, <2>3 DEF ChainHolds, Reached
<1>11. ASSUME NEW x \in Path, NEW n \in limits.nodes, SourceEdit(x, n) PROVE ChainHolds'
  BY <1>3, <1>11 DEF SourceEdit, files
<1>12. CASE Copy \/ Damage \/ ReadManifest \/ VerifyPayload \/ ExtractTo
  BY <1>3, <1>12 DEF Copy, Damage, ReadManifest, VerifyPayload, ExtractTo, files
<1>13. CASE UNCHANGED vars
  BY <1>3, <1>13 DEF vars
<1> QED BY <1>4, <1>5, <1>6, <1>7, <1>8, <1>9, <1>10, <1>11, <1>12, <1>13
        DEF PackNext

-----------------------------------------------------------------------------
(* The walk: WalkedHolds and EntriesWereReal.                               *)

\* What a directory lists lies below no other entry.
LEMMA ListDirApart ==
  ASSUME NEW t, NEW rules, NEW todo \in SUBSET Path, NEW dirs \in SUBSET Path,
         NEW got, Frontier(rules, todo, dirs), Apart(todo, dirs, got),
         NEW d \in dirs, got[d] = Absent,
         NEW F, F = ListedFiles(t, rules, Children(d)),
         NEW D, D = ListedDirs(t, rules, Children(d))
  PROVE  Apart(todo \cup F, (dirs \ {d}) \cup D, got)
<1> DEFINE old == todo \cup dirs \cup {z \in Path : got[z] # Absent}
<1>1. /\ d \in Path /\ d \notin Anc[d] /\ d \notin todo
      /\ \A x \in old : \A y \in Anc[x] : y \notin todo \cup dirs /\ got[y] = Absent
      /\ \A y \in Anc[d] : y \notin todo \cup dirs /\ got[y] = Absent
  BY AncAssumption DEF Frontier, Apart
<1>2. ASSUME NEW c \in F \cup D PROVE c \in Path /\ Anc[c] = Anc[d] \cup {d}
  BY DEF ListedFiles, ListedDirs, Children
<1>3. ASSUME NEW x \in old, NEW y \in Anc[x] PROVE y \notin F \cup D
  <2>1. x \in Path
    OBVIOUS
  <2>2. y \in F \cup D => d \in Anc[x]
    BY <1>2, <2>1, AncAssumption
  <2> QED BY <1>1, <2>2
<1>4. ASSUME NEW x \in F \cup D, NEW y \in Anc[x]
      PROVE  y \notin todo \cup F \cup (dirs \ {d}) \cup D /\ got[y] = Absent
  <2>1. y \in Anc[d] \cup {d}
    BY <1>2
  <2>2. y \notin todo \cup (dirs \ {d}) /\ got[y] = Absent
    BY <1>1, <2>1
  <2>3. y \notin F \cup D
    <3>1. Anc[y] \subseteq Anc[d]
      BY <1>1, <2>1, AncAssumption
    <3> QED BY <1>1, <1>2, <3>1
  <2> QED BY <2>2, <2>3
<1>5. ASSUME NEW x \in (todo \cup F) \cup ((dirs \ {d}) \cup D)
                         \cup {z \in Path : got[z] # Absent},
             NEW y \in Anc[x]
      PROVE  y \notin (todo \cup F) \cup ((dirs \ {d}) \cup D) /\ got[y] = Absent
  <2>1. CASE x \in old
    BY <1>1, <1>3, <2>1
  <2>2. CASE x \in F \cup D
    BY <1>4, <2>2
  <2> QED BY <2>1, <2>2
<1> QED BY <1>5 DEF Apart

\* Nor does a file once it is recorded.
LEMMA RecordApart ==
  ASSUME NEW todo \in SUBSET Path, NEW dirs \in SUBSET Path, NEW got \in Snapshots,
         Apart(todo, dirs, got), NEW x \in todo, NEW e \in Entry
  PROVE  Apart(todo \ {x}, dirs, [got EXCEPT ![x] = e])
<1> DEFINE g == [got EXCEPT ![x] = e]
<1>1. \A y \in Path : g[y] = IF y = x THEN e ELSE got[y]
  BY DEF Snapshots
<1>2. ASSUME NEW z \in (todo \ {x}) \cup dirs \cup {v \in Path : g[v] # Absent},
             NEW y \in Anc[z]
      PROVE  y \notin (todo \ {x}) \cup dirs /\ g[y] = Absent
  <2>1. z \in todo \cup dirs \cup {v \in Path : got[v] # Absent}
    BY <1>1
  <2>2. y \in Path /\ y \notin todo \cup dirs /\ got[y] = Absent
    BY <2>1, AncAssumption DEF Apart
  <2> QED BY <1>1, <2>2
<1> QED BY <1>2 DEF Apart

\* What was of the trees M is of any set of trees that includes them.
LEMMA GenuineStays ==
  ASSUME NEW e, NEW rules, NEW M, NEW N, M \subseteq N, NEW x,
         Genuine(e, rules, M, x)
  PROVE  Genuine(e, rules, N, x)
BY DEF Genuine

\* A gap is one when one tree has it.
LEMMA GenuineGap ==
  ASSUME NEW rules, NEW M, NEW m \in M, NEW x, Read(m, rules, x) = Absent
  PROVE  Genuine(Absent, rules, M, x)
BY DEF Genuine

LEMMA ListSourceHolds ==
  ASSUME PackTypeOK, WalkedHolds, ListSource
  PROVE  WalkedHolds' /\ EntriesWereReal'
<1> DEFINE rules == job.rules
           F == ListedFiles(src, rules, TopLevel)
           D == ListedDirs(src, rules, TopLevel)
<1>1. /\ job'.todo = F /\ job'.dirs = D /\ job'.got = EmptySnapshot
      /\ job'.rules = rules /\ pc' = "walk" /\ src' = src /\ moments' = moments
      /\ src \in moments
  BY DEF ListSource, PackTypeOK, Job, WalkedHolds, source
<1>2. /\ Frontier(rules, F, D)
      /\ \A x \in Path : Ahead(F, D, x) \/ Read(src, rules, x) = Absent
  BY ListRootSettles DEF PackTypeOK
<1>3. \A x \in Path : EmptySnapshot[x] = Absent
  BY DEF EmptySnapshot
<1>4. Apart(F, D, EmptySnapshot)
  BY <1>3 DEF Apart, ListedFiles, ListedDirs, TopLevel
<1>5. \A x \in Path : ~ Ahead(F, D, x) => Genuine(EmptySnapshot[x], rules, moments, x)
  BY <1>1, <1>2, <1>3, GenuineGap
<1> HIDE DEF F, D, rules
<1> QED BY <1>1, <1>2, <1>3, <1>4, <1>5 DEF WalkedHolds, EntriesWereReal

LEMMA WalkSourceDirHolds ==
  ASSUME PackTypeOK, WalkedHolds, WalkSourceDir
  PROVE  WalkedHolds' /\ EntriesWereReal'
<1>1. PICK d \in job.dirs :
        /\ src[d] = Dir
        /\ job' = [job EXCEPT
             !.todo = @ \cup ListedFiles(src, job.rules, Children(d)),
             !.dirs = (@ \ {d}) \cup ListedDirs(src, job.rules, Children(d))]
  BY DEF WalkSourceDir
<1> DEFINE rules == job.rules
           todo == job.todo
           dirs == job.dirs
           got == job.got
           F == ListedFiles(src, rules, Children(d))
           D == ListedDirs(src, rules, Children(d))
<1>2. /\ job'.todo = todo \cup F /\ job'.dirs = (dirs \ {d}) \cup D
      /\ job'.got = got /\ job'.rules = rules
      /\ pc' = "walk" /\ src' = src /\ moments' = moments
  BY <1>1 DEF WalkSourceDir, PackTypeOK, Job, source
<1>3. /\ todo \in SUBSET Path /\ dirs \in SUBSET Path
      /\ src \in Trees /\ WellFormed(src)
      /\ Frontier(rules, todo, dirs) /\ Apart(todo, dirs, got)
      /\ src \in moments
      /\ \A x \in Path : IF Ahead(todo, dirs, x) THEN got[x] = Absent
                         ELSE Genuine(got[x], rules, moments, x)
  BY DEF WalkSourceDir, PackTypeOK, Job, WalkedHolds
<1>4. d \in dirs /\ d \in Path /\ src[d] = Dir /\ got[d] = Absent
  BY <1>1, <1>3 DEF Ahead
<1>5. /\ F = ListedFiles(src, rules, Children(d))
      /\ D = ListedDirs(src, rules, Children(d))
  OBVIOUS
<1> HIDE DEF F, D, rules, todo, dirs, got
<1>6. /\ Frontier(rules, todo \cup F, (dirs \ {d}) \cup D)
      /\ \A x \in Path : Ahead(todo \cup F, (dirs \ {d}) \cup D, x)
                           => Ahead(todo, dirs, x)
      /\ \A x \in Path : Ahead(todo, dirs, x) =>
           \/ Ahead(todo \cup F, (dirs \ {d}) \cup D, x)
           \/ Read(src, rules, x) = Absent /\ (x = d \/ d \in Anc[x])
  BY <1>3, <1>4, <1>5, ListDirSettles
<1>7. Apart(todo \cup F, (dirs \ {d}) \cup D, got)
  BY <1>3, <1>4, <1>5, ListDirApart
<1>8. \A x \in Path : IF Ahead(todo \cup F, (dirs \ {d}) \cup D, x) THEN got[x] = Absent
                      ELSE Genuine(got[x], rules, moments, x)
  <2>1. ASSUME NEW x \in Path, Read(src, rules, x) = Absent
        PROVE  Genuine(Absent, rules, moments, x)
    BY <1>3, <2>1, GenuineGap
  <2> QED BY <1>3, <1>6, <2>1
<1> QED BY <1>2, <1>3, <1>6, <1>7, <1>8 DEF WalkedHolds, EntriesWereReal

LEMMA StatSourceHolds ==
  ASSUME PackTypeOK, WalkedHolds, StatSource
  PROVE  WalkedHolds' /\ EntriesWereReal'
<1>1. PICK x \in Visit \cap job.todo, bit \in BOOLEAN :
        bit \in Bits(src[x]) /\ job' = [job EXCEPT !.exec = bit]
  <2>1. PICK x \in Visit \cap job.todo : \E bit \in Bits(src[x]) :
          job' = [job EXCEPT !.exec = bit]
    BY DEF StatSource
  <2> QED BY <2>1, BitsType
<1>2. /\ job \in Job /\ pc = "walk" /\ pc' = "hash" /\ UNCHANGED <<src, moments>>
      /\ src \in moments
  BY DEF StatSource, PackTypeOK, source, WalkedHolds
<1>3. /\ job'.todo = job.todo /\ job'.dirs = job.dirs /\ job'.got = job.got
      /\ job'.rules = job.rules /\ job'.exec = bit
  BY <1>1, <1>2 DEF Job
<1>4. BitSeen'
  <2>1. \A y \in Visit : y = x
    BY <1>1, <1>2, UpcomingOne DEF Visit, Job
  <2>2. Visit' = Visit
    BY <1>3 DEF Visit
  <2> QED BY <1>1, <1>2, <1>3, <2>1, <2>2 DEF BitSeen
<1> QED BY <1>2, <1>3, <1>4 DEF WalkedHolds, EntriesWereReal

LEMMA HashSourceHolds ==
  ASSUME PackTypeOK, WalkedHolds, HashSource
  PROVE  WalkedHolds' /\ EntriesWereReal'
<1> DEFINE rules == job.rules
           todo == job.todo
           dirs == job.dirs
           got == job.got
<1>1. PICK x \in Visit \cap todo :
        /\ src[x] \in Entry
        /\ job' = [job EXCEPT
             !.todo = @ \ {x}, !.exec = FALSE,
             !.got = [@ EXCEPT ![x] = [sha |-> src[x].sha, exec |-> job.exec]]]
  BY DEF HashSource
<1> DEFINE e == [sha |-> src[x].sha, exec |-> job.exec]
           g == [got EXCEPT ![x] = e]
<1>2. /\ job'.todo = todo \ {x} /\ job'.dirs = dirs
      /\ job'.got = g /\ job'.rules = rules
      /\ pc' = "walk" /\ src' = src /\ moments' = moments
  BY <1>1 DEF HashSource, PackTypeOK, Job, source
<1>3. /\ todo \in SUBSET Path /\ dirs \in SUBSET Path /\ got \in Snapshots
      /\ Frontier(rules, todo, dirs) /\ Apart(todo, dirs, got)
      /\ src \in moments
      /\ \A y \in Path : IF Ahead(todo, dirs, y) THEN got[y] = Absent
                         ELSE Genuine(got[y], rules, moments, y)
  BY DEF HashSource, PackTypeOK, Job, WalkedHolds
<1>4. \A y \in Path : g[y] = IF y = x THEN e ELSE got[y]
  BY <1>3 DEF Snapshots
<1>5. /\ x \in todo /\ x \in Path /\ g = [got EXCEPT ![x] = e] /\ e \in Entry
  BY <1>1, <1>3, HashedEntry DEF PackTypeOK, Job
<1>6. /\ Frontier(rules, todo \ {x}, dirs) /\ ~ Ignored(rules, x)
      /\ \A y \in Path : Ahead(todo \ {x}, dirs, y) <=> Ahead(todo, dirs, y) /\ y # x
  BY <1>3, <1>5, ReadFileSettles
<1>7. Genuine(e, rules, moments, x)
  <2>1. PICK n \in moments : job.exec \in Bits(n[x])
    BY <1>1 DEF HashSource, WalkedHolds, BitSeen
  <2>2. e # Absent /\ e.sha = src[x].sha /\ e.exec = job.exec
    BY <1>5, NodeAssumption
  <2> QED BY <1>1, <1>3, <1>6, <2>1, <2>2 DEF Genuine
<1> HIDE DEF rules, todo, dirs, got, g, e
<1>8. Apart(todo \ {x}, dirs, g)
  BY <1>3, <1>5, RecordApart
<1>9. \A y \in Path : IF Ahead(todo \ {x}, dirs, y) THEN g[y] = Absent
                      ELSE Genuine(g[y], rules, moments, y)
  BY <1>3, <1>4, <1>6, <1>7
<1> QED BY <1>2, <1>3, <1>6, <1>8, <1>9 DEF WalkedHolds, EntriesWereReal

\* The walk is over: everything was read, and nothing lies above a file.
LEMMA CreateBundleHolds ==
  ASSUME PackTypeOK, WalkedHolds, CreateBundle
  PROVE  WalkedHolds' /\ EntriesWereReal'
<1>1. /\ job.todo = {} /\ job.dirs = {} /\ pc = "walk" /\ pc' = "manifest"
      /\ UNCHANGED <<src, job, moments>>
  BY DEF CreateBundle, SourceWalked, source
<1>2. \A x \in Path : \E m, n \in moments : WasReal(x, m, n)
  <2>1. \A x \in Path : Genuine(job.got[x], job.rules, moments, x)
    BY <1>1, NothingAhead DEF WalkedHolds
  <2> QED BY <2>1 DEF Genuine, WasReal
<1>3. Placeable(job.got)
  BY <1>1 DEF WalkedHolds, Apart, Placeable
<1> QED BY <1>1, <1>2, <1>3 DEF WalkedHolds, EntriesWereReal, Placeable, WasReal

LEMMA NextWalked ==
  PackTypeOK /\ WalkedHolds /\ EntriesWereReal /\ [PackNext]_vars
    => WalkedHolds' /\ EntriesWereReal'
<1> SUFFICES ASSUME PackTypeOK, WalkedHolds, EntriesWereReal, [PackNext]_vars
             PROVE  WalkedHolds' /\ EntriesWereReal'
  OBVIOUS
<1>1. ASSUME pc' \in PackEnded PROVE WalkedHolds' /\ EntriesWereReal'
  BY <1>1 DEF WalkedHolds, EntriesWereReal
<1>2. ASSUME UNCHANGED <<src, pc, job, moments>>
      PROVE  WalkedHolds' /\ EntriesWereReal'
  <2>1. Visit' = Visit
    BY <1>2 DEF Visit
  <2> QED BY <1>2, <2>1 DEF WalkedHolds, EntriesWereReal, BitSeen, Placeable, WasReal
<1>3. CASE PackFull \/ PackSince
  <2>1. /\ pc' = "list" /\ job'.rules = SourceRules /\ job'.got = EmptySnapshot
        /\ moments' = {src} /\ src' = src
    BY <1>3 DEF PackFull, PackSince, StartPack, NoJob, source
  <2> QED BY <2>1 DEF WalkedHolds, EntriesWereReal
<1>4. CASE RefusePack \/ WalkSourceFails \/ NothingToPack \/ PayloadChanged
           \/ SaveCursorOut \/ PackDies
  BY <1>1, <1>4 DEF RefusePack, WalkSourceFails, NothingToPack, PayloadChanged,
                    SaveCursorOut, PackDies, Ending
<1>5. CASE WriteManifest \/ WritePayload \/ CloseBundle
  <2>1. /\ job'.got = job.got /\ job'.rules = job.rules
        /\ UNCHANGED <<src, moments>>
        /\ pc \in {"manifest", "data"} /\ pc' \in {"data", "save"}
    BY <1>5 DEF WriteManifest, WritePayload, CloseBundle, PackTypeOK, Job, source
  <2> QED BY <2>1 DEF WalkedHolds, EntriesWereReal, Placeable, WasReal
<1>6. ASSUME NEW x \in Path, NEW n \in limits.nodes, SourceEdit(x, n)
      PROVE  WalkedHolds' /\ EntriesWereReal'
  <2>1. CASE pc \in PackPhase
    <3>1. /\ UNCHANGED <<pc, job>> /\ moments \subseteq moments'
          /\ src' \in moments'
      BY <1>6, <2>1 DEF SourceEdit
    <3>2. WalkedHolds'
      <4>1. Visit' = Visit
        BY <3>1 DEF Visit
      <4>2. BitSeen => BitSeen'
        BY <3>1, <4>1 DEF BitSeen
      <4>3. \A y \in Path : Genuine(job.got[y], job.rules, moments, y)
                          => Genuine(job.got[y], job.rules, moments', y)
        BY <3>1, GenuineStays
      <4> QED BY <3>1, <4>2, <4>3 DEF WalkedHolds
    <3>3. EntriesWereReal'
      BY <3>1 DEF EntriesWereReal, Placeable, WasReal
    <3> QED BY <3>2, <3>3
  <2>2. CASE pc \in PackEnded
    BY <1>1, <1>6, <2>2 DEF SourceEdit
  <2> QED BY <2>1, <2>2 DEF PackTypeOK
<1>7. CASE Copy \/ Damage \/ ReadManifest \/ VerifyPayload \/ ExtractTo
  BY <1>2, <1>7 DEF Copy, Damage, ReadManifest, VerifyPayload, ExtractTo, source
<1>8. CASE UNCHANGED vars
  BY <1>2, <1>8 DEF vars
<1> QED BY <1>3, <1>4, <1>5, <1>6, <1>7, <1>8, ListSourceHolds, WalkSourceDirHolds,
           StatSourceHolds, HashSourceHolds, CreateBundleHolds DEF PackNext

\* Pack adds bundles between two states that fit in a tree: the base is one
\* an earlier bundle leads to.
LEMMA NextFit ==
  PackTypeOK /\ ChainHolds /\ EntriesWereReal /\ BundlesFit /\ [PackNext]_vars
    => BundlesFit'
<1> SUFFICES ASSUME PackTypeOK, ChainHolds, EntriesWereReal, BundlesFit,
                    [PackNext]_vars
             PROVE  BundlesFit'
  OBVIOUS
<1>1. CASE UNCHANGED sealed
  BY <1>1 DEF BundlesFit
<1>2. CASE CloseBundle
  <2>1. sealed' = sealed \cup {Target} /\ Reached(job.base) /\ Placeable(job.got)
    BY <1>2 DEF CloseBundle, ChainHolds, EntriesWereReal
  <2>2. Placeable(EmptySnapshot)
    BY DEF Placeable, EmptySnapshot
  <2>3. Placeable(job.base)
    BY <2>1, <2>2 DEF Reached, BundlesFit
  <2> QED BY <2>1, <2>3 DEF BundlesFit, Target
<1>3. ASSUME NEW x \in Path, NEW n \in limits.nodes, SourceEdit(x, n) PROVE BundlesFit'
  BY <1>1, <1>3 DEF SourceEdit
<1> QED BY <1>1, <1>2, <1>3 DEF PackNext, vars, PackFull, PackSince, StartPack,
       RefusePack, ListSource, WalkSourceDir, StatSource, HashSource,
       WalkSourceFails, NothingToPack, CreateBundle, WriteManifest, WritePayload, PayloadChanged,
       SaveCursorOut, PackDies, Copy, Damage, ReadManifest, VerifyPayload, ExtractTo

-----------------------------------------------------------------------------
(* What holds of every pack and every copy.                                 *)

LEMMA InitPackInv == PackInit => PackInv
<1> SUFFICES ASSUME PackInit PROVE PackInv
  OBVIOUS
<1>1. OutHolds /\ SealedIsSound /\ CopyHolds /\ StageExact
  BY DEF PackInit, OutHolds, SealedIsSound, CopyHolds, StageExact
<1>2. ChainHolds /\ WalkedHolds /\ EntriesWereReal /\ BundlesFit
  BY FilesAssumption DEF PackInit, ChainHolds, WalkedHolds, EntriesWereReal, BundlesFit
<1> QED BY <1>1, <1>2, InitPackType DEF PackInv

LEMMA NextPackInv == PackInv /\ [PackNext]_vars => PackInv'
BY NextPackType, NextOut, NextCopy, NextChain, NextWalked, NextFit DEF PackInv

LEMMA PackInvariant == PackSpec => []PackInv
BY InitPackInv, NextPackInv, PTL DEF PackSpec

\* Every variable of Pack keeps its type, and whoever works in the source,
\* it stays a tree a file system can hold.
THEOREM PackTypeCorrect == PackSpec => []PackTypeOK
<1>1. PackInv => PackTypeOK
  BY DEF PackInv
<1> QED BY <1>1, PackInvariant, PTL

\* Write never seals a bundle whose manifest lies about its contents
\* (bundle.go:85-88), however long the source is worked in meanwhile.
THEOREM SealedSound == PackSpec => []SealedIsSound
<1>1. PackInv => SealedIsSound
  BY DEF PackInv
<1> QED BY <1>1, PackInvariant, PTL

\* Nothing in a bundle's target is made up, however the source changes while
\* it is walked: each path it leaves out was no file to record at some moment
\* of the pack, each content was the file's at some moment and each mode at
\* some moment, if not the same one; and the target fits in one tree, which
\* Apply assumes of its bundles.
THEOREM EntriesReal == PackSpec => []EntriesWereReal
<1>1. PackInv => EntriesWereReal
  BY DEF PackInv
<1> QED BY <1>1, PackInvariant, PTL

\* cmdPack saves the cursor after the bundle is sealed: no cursor file and no
\* bundle starts from a state that no bundle leads to.
THEOREM CursorFollows == PackSpec => []CursorFollowsBundle
<1>1. PackInv => CursorFollowsBundle
  BY DEF PackInv, PackTypeOK, ChainHolds, Reached, CursorFollowsBundle
<1> QED BY <1>1, PackInvariant, PTL

\* The bundles Pack makes are such as Apply assumes them to be
\* (BundlesAssumption): base and target each fit in one tree.
THEOREM BundlesFitTrees == PackSpec => []BundlesFit
<1>1. PackInv => BundlesFit
  BY DEF PackInv
<1> QED BY <1>1, PackInvariant, PTL

\* ExtractTo stages exactly the payload of the manifest the run goes by,
\* though it opens the file again: whatever became of the copy since that
\* manifest was read, ExtractTo fails or writes every listed file once.
THEOREM StagedExactly == PackSpec => []StageExact
<1>1. PackInv => StageExact
  BY DEF PackInv, CopyHolds
<1> QED BY <1>1, PackInvariant, PTL
=============================================================================
