------------------------------ MODULE MCUniverse -----------------------------
(* Small universes of paths, contents and bundles to check models in.       *)
EXTENDS Diff, TLC

\* Two levels of directories, files in each, and the ignore file.
DeepPath == {".sneakpackignore", "d", "d.f", "d/a", "d/e", "d/e/b"}

\* A directory with one file, and a file beside it.
FlatPath == {".sneakpackignore", "d", "d.f", "d/a"}

AllAnc == [x \in DeepPath |->
             CASE x \in {"d/a", "d/e"} -> {"d"}
               [] x = "d/e/b" -> {"d", "d/e"}
               [] OTHER -> {}]

\* d.f comes before what lies in d, and the walk to it after that.
InOrderOfPath == <<".sneakpackignore", "d", "d.f", "d/a", "d/e", "d/e/b">>
InOrderOfWalk == <<".sneakpackignore", "d", "d/a", "d/e", "d/e/b", "d.f">>

MCAnc == [x \in Path |-> AllAnc[x]]
MCRank == [x \in Path |-> CHOOSE i \in 1..6 : InOrderOfPath[i] = x]
MCWalkRank == [x \in Path |-> CHOOSE i \in 1..6 : InOrderOfWalk[i] = x]
MCSha == {"v1", "v2", "hide", "bad"}
TwoSha == {"v1", "v2"}

v1 == [sha |-> "v1", exec |-> FALSE]
v2 == [sha |-> "v2", exec |-> FALSE]
x1 == [sha |-> "v1", exec |-> TRUE]
x2 == [sha |-> "v2", exec |-> TRUE]
hide == [sha |-> "hide", exec |-> FALSE]
bad == [sha |-> "bad", exec |-> FALSE]

\* "hide" holds the lines d.f and d/e/, "bad" an unclosed bracket.
HideRules == [file |-> {"d.f"} \cap Path, dir |-> {"d/e"} \cap Path]
MCRulesOf ==
  [s \in Sha |-> CASE s = "hide" -> HideRules
                   [] s = "bad" -> BadGlob
                   [] OTHER -> NoRules]

Files(f) == [x \in Path |-> IF x \in DOMAIN f THEN f[x] ELSE Absent]
From(s, t) == [base |-> s, target |-> t]

\* A chain over DeepPath: files appear; one becomes executable, two vanish
\* behind a new ignore file, d/e with them; the last file of d goes.
S0 == EmptySnapshot
S1 == Files("d/a" :> v1 @@ "d/e/b" :> v1 @@ "d.f" :> v1)
S2 == Files("d/a" :> x1 @@ ".sneakpackignore" :> hide)
S3 == Files("d.f" :> v2 @@ ".sneakpackignore" :> v2)
DeepChain == {From(S0, S1), From(S1, S2), From(S2, S3), From(S3, S3)}

\* The same shape over FlatPath.
T1 == Files("d/a" :> v1 @@ "d.f" :> v1)
T2 == Files("d.f" :> v2)
FlatChain == {From(S0, T1), From(T1, T2)}

\* Two bundles that start from one cursor, and one that goes back.
Fork == {From(S0, T1), From(S0, T2), From(T1, T2), From(T2, T1)}
=============================================================================
