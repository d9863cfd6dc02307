------------------------------ MODULE MCInputs ------------------------------
(* Small alphabets for the inputs.                                          *)
EXTENDS Inputs, MCUniverse

MCSeg == {"", "**", "*", "a", "["}
MCName == {"a", "b"}
MCGlob ==
  [s \in MCSeg |-> CASE s \in {"*", "**"} -> MCName
                     [] s = "a" -> {"a"}
                     [] OTHER -> {}]

\* Three segments, then two.
LineSizes == <<3, 2>>

\* Lines of one segment.
ShortLines == <<1, 1, 1>>

MCPlain == {"a", "b"}
MCBackslash == {"a\\b"}

\* The ignore file "hide" of MCUniverse, line by line, and the rules it is
\* said to have there: the two readings of an ignore file agree.
Deep == INSTANCE Ignore WITH
  Name <- {"d", "a", "e", "b", "d.f", ".sneakpackignore"},
  Seg <- {"", "**", "d", "e", "d.f"}, BadSeg <- {},
  Glob <- [s \in {"", "**", "d", "e", "d.f"} |->
             CASE s = "" -> {}
               [] s = "**" -> {"d", "a", "e", "b", "d.f", ".sneakpackignore"}
               [] OTHER -> {s}]

HideLines == <<[mark |-> "", segs |-> <<"d.f">>], [mark |-> "", segs |-> <<"d", "e", "">>]>>

NamesOf == [x \in DeepPath |->
  CASE x = "d/a" -> <<"d", "a">> [] x = "d/e" -> <<"d", "e">>
    [] x = "d/e/b" -> <<"d", "e", "b">> [] OTHER -> <<x>>]

ASSUME HideAssumption ==
  \A x \in DeepPath :
    Ignored(HideRules, x) <=> Deep!LeftOut(Deep!Parse(HideLines), NamesOf[x])

\* One file stays, one becomes executable, one goes, one comes.
Before == Files(".sneakpackignore" :> v1 @@ "d/a" :> v1 @@ "d.f" :> v1)
After == Files(".sneakpackignore" :> v1 @@ "d/a" :> x1 @@ "d/e/b" :> v2)
MCSent == {From(S0, Before), From(Before, After)}
=============================================================================
