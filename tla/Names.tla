-------------------------------- MODULE Names -------------------------------
(* Names of files: what Take records, and what ValidatePath lets through.   *)
(* A path is what stands between its slashes: "/a" is <<"", "a">>, the      *)
(* empty path <<"">>.                                                       *)
EXTENDS Naturals, Sequences, SequencesExt

CONSTANTS
  Plain,     \* ordinary names
  Backslash  \* names with a backslash in them

StateDir == ".sneakpack"
Proper == Plain \cup Backslash \cup {StateDir}
Element == Proper \cup {"", ".", ".."}

ASSUME NameAssumption ==
  Plain \cap Backslash = {} /\ (Plain \cup Backslash) \cap {StateDir, "", ".", ".."} = {}

\* One element more in filepath.Clean of a relative path.
CleanStep(done, e) ==
  IF e \in {"", "."} THEN done
  ELSE IF e = ".." /\ done # <<>> /\ Last(done) # ".." THEN Front(done)
  ELSE Append(done, e)

\* What is left of the first n elements.
Cleaned(p) ==
  LET done[n \in 0..Len(p)] ==
        IF n = 0 THEN <<>> ELSE CleanStep(done[n - 1], p[n])
  IN  done

Clean(p) ==
  LET done == Cleaned(p)[Len(p)] IN IF done = <<>> THEN <<".">> ELSE done

\* A slip to notice: only the state directory itself is forbidden.
OutsideStateExact(p) == p # <<StateDir>>

OutsideState(p) == p[1] # StateDir

ValidatePath(p) ==
  /\ p # <<"">>
  /\ ~ (Len(p) > 1 /\ p[1] = "")
  /\ \A i \in DOMAIN p : p[i] \notin Backslash
  /\ Clean(p) = p
  /\ \A i \in DOMAIN p : p[i] \notin {"..", ".", ""}
  /\ OutsideState(p)

\* A slip to notice: the walk descends into the state directory.
RecordedAll(names) == names # <<>>

\* Take records the regular file of these names: the walk skips only a
\* directory .sneakpack at the root.
Recorded(names) == Len(names) > 1 => names[1] # StateDir

-----------------------------------------------------------------------------
(* Where a path leads when one follows it from the root, one name at a time.*)

Outside == <<"..">>

Follow(at, e) ==
  IF at = Outside \/ e \in {"", "."} THEN at
  ELSE IF e # ".." THEN Append(at, e)
  ELSE IF at = <<>> THEN Outside ELSE Front(at)

Followed(p) ==
  LET at[n \in 0..Len(p)] == IF n = 0 THEN <<>> ELSE Follow(at[n - 1], p[n])
  IN  at

Leads(p) == IF Len(p) > 1 /\ p[1] = "" THEN Outside ELSE Followed(p)[Len(p)]
=============================================================================
