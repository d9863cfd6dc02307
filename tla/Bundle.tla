------------------------------- MODULE Bundle -------------------------------
(* The archive of internal/bundle: a manifest first, then one entry for     *)
(* each payload file, then the trailer.  The manifest holds the base cursor,*)
(* the change set and the target snapshot; validateManifest ties them to    *)
(* each other (module Manifest), so it is the record [base, target] here,   *)
(* or NoManifest for what does not decode or does not validate.             *)
(* Compression and the tar format are left out: an archive that was not     *)
(* closed ends in an error.                                                 *)
EXTENDS Diff, Sequences, FiniteSets

CONSTANT NoManifest

ASSUME ManifestAssumption == NoManifest \notin Bundle

\* A manifest lists finitely many files.
ASSUME PathAssumption == IsFiniteSet(Path)

DataEntry == [path : Path, sha : Sha]

Archive ==
  [manifest : Bundle \cup {NoManifest}, data : Seq(DataEntry), closed : BOOLEAN]

\* os.Create: the file is there, and empty.
NewArchive == [manifest |-> NoManifest, data |-> <<>>, closed |-> FALSE]

\* The payload a manifest promises.
Want(m) == {[path |-> x, sha |-> m.target[x].sha] : x \in PayloadFiles(Changes(m))}

Held(a) == {a.data[i] : i \in DOMAIN a.data}

\* Verify, second reading: no entry the manifest m does not list, none twice,
\* none whose bytes hash to something else, none missing.
Verified(a, m) ==
  /\ a.closed
  /\ Held(a) = Want(m)
  /\ \A i, j \in DOMAIN a.data : a.data[i].path = a.data[j].path => i = j

\* A slip to notice: ExtractTo does not count what it has written.
ExtractsPresent(a, m) == a.closed /\ Held(a) \subseteq Want(m)

\* ExtractTo returns no error: it knows every entry, and it has written as
\* many files as m lists.
Extracts(a, m) ==
  /\ a.closed
  /\ Held(a) \subseteq Want(m)
  /\ Len(a.data) = Cardinality(Want(m))
=============================================================================
