---------------------------- MODULE InputsProofs ----------------------------
(* Proofs about Inputs, for ignore files, command lines and names of any    *)
(* length, manifests of any bundles, and any number of damaged places.      *)
EXTENDS Inputs, IgnoreProofs, FiniteSetTheorems

-----------------------------------------------------------------------------
(* Ignore files.                                                            *)

\* The lines are lines, and the loop that has not failed is still scanning
\* exactly if none of them was too long.
LinesHold ==
  /\ lines \in Seq(Line)
  /\ Reading(lines)[Len(lines)].at # "bad" =>
       (Reading(lines)[Len(lines)].at = "scan"
          <=> \A i \in DOMAIN lines : lines[i].mark # "long")

\* The lines tried are lines.
LEMMA TriedLines ==
  ASSUME NEW n \in Nat, NEW l \in LinesUpTo(n) PROVE l \in Line
<1>1. ASSUME NEW k \in 1..n, NEW s \in [1..k -> Seg] PROVE s \in Seq(Seg) \ {<<>>}
  OBVIOUS
<1>2. <<Nothing>> \in Seq(Seg) \ {<<>>}
  BY GlobAssumption
<1>3. l.segs \in Seq(Seg) \ {<<>>} /\ l.mark \in {"", "!", "#", "long"}
      /\ l = [mark |-> l.mark, segs |-> l.segs]
  BY <1>1, <1>2 DEF LinesUpTo
<1> QED BY <1>3 DEF Line

LEMMA LinesHoldInit ==
  ASSUME InputsInit PROVE LinesHold
<1>1. lines = <<>> /\ lines \in Seq(Line) /\ Len(lines) = 0
  BY DEF InputsInit
<1>2. Reading(lines)[0] = [patterns |-> <<>>, at |-> "scan"]
  BY <1>1, ReadingLoop, Zenon
<1>3. Reading(lines)[Len(lines)].at = "scan"
  BY <1>1, <1>2
<1>4. \A i \in DOMAIN lines : lines[i].mark # "long"
  BY <1>1
<1> QED BY <1>1, <1>3, <1>4 DEF LinesHold

LEMMA AddLineType ==
  ASSUME InputsAssumption, lines \in Seq(Line), AddLine
  PROVE  \E l \in Line : lines' = Append(lines, l)
<1>1. Len(lines) + 1 \in 1..Len(MaxSegs)
  BY DEF AddLine, InputsAssumption
<1>2. MaxSegs[Len(lines) + 1] \in Nat
  BY <1>1 DEF InputsAssumption
<1> QED BY <1>2, TriedLines DEF AddLine

\* A line more keeps what is said of the loop.
LEMMA LinesHoldNext ==
  ASSUME InputsAssumption, LinesHold, [InputsNext]_ivars PROVE LinesHold'
<1>1. CASE lines' = lines
  BY <1>1 DEF LinesHold
<1>2. CASE AddLine
  <2>1. PICK l \in Line : lines' = Append(lines, l)
    BY <1>2, AddLineType DEF LinesHold
  <2> DEFINE r == Reading(lines)[Len(lines)]
             s == Reading(lines')[Len(lines')]
  <2>2. lines' \in Seq(Line) /\ Len(lines') = Len(lines) + 1
    BY <2>1 DEF LinesHold
  <2>3. r \in Readings /\ s = ReadLine(r, l)
    BY <2>1, <2>2, ReadingGrows DEF LinesHold
  <2>4. (\A i \in DOMAIN lines' : lines'[i].mark # "long")
          <=> (\A i \in DOMAIN lines : lines[i].mark # "long") /\ l.mark # "long"
    <3>1. /\ DOMAIN lines' = DOMAIN lines \cup {Len(lines) + 1}
          /\ lines'[Len(lines) + 1] = l
          /\ \A i \in DOMAIN lines : lines'[i] = lines[i]
      BY <2>1 DEF LinesHold
    <3> QED BY <3>1, Zenon
  <2>5. r.at # "bad" => (r.at = "scan" <=> \A i \in DOMAIN lines : lines[i].mark # "long")
    BY DEF LinesHold
  <2> HIDE DEF r, s
  <2>6. s.at # "bad" => r.at # "bad" /\ (s.at = "scan" <=> r.at = "scan" /\ l.mark # "long")
    <3>1. \/ s = r /\ (r.at # "scan" \/ l.mark # "long")
          \/ r.at = "scan" /\ l.mark = "long" /\ s = [r EXCEPT !.at = "end"]
          \/ s = [r EXCEPT !.at = "bad"]
          \/ r.at = "scan" /\ l.mark # "long"
             /\ s = [r EXCEPT !.patterns = Append(@, Pattern(l))]
      BY <2>3, Zenon DEF ReadLine
    <3> QED BY <2>3, <3>1 DEF Readings
  <2>7. s.at # "bad" => (s.at = "scan" <=> \A i \in DOMAIN lines' : lines'[i].mark # "long")
    BY <2>4, <2>5, <2>6
  <2> QED BY <2>2, <2>7 DEF LinesHold, s
<1>3. lines' = lines \/ AddLine
  BY DEF InputsNext, AddToken, AddElement, Rot, ivars
<1> QED BY <1>1, <1>2, <1>3

LEMMA LinesAlwaysHold == ASSUME InputsAssumption PROVE InputsSpec => []LinesHold
<1>1. InputsInit => LinesHold
  BY LinesHoldInit
<1>2. LinesHold /\ [InputsNext]_ivars => LinesHold'
  BY LinesHoldNext
<1> QED BY <1>1, <1>2, PTL DEF InputsSpec

\* A path that is tried is a sequence of names.
LEMMA TriedPath ==
  ASSUME MaxDepth \in Nat, NEW x \in TriedPaths PROVE x \in Seq(Name) /\ x # <<>>
<1>1. ASSUME NEW k \in 1..MaxDepth, x \in [1..k -> Name]
      PROVE  x \in Seq(Name) /\ x # <<>>
  BY <1>1
<1> QED BY <1>1 DEF TriedPaths

\* For ignore files of any length and patterns and paths of any number of
\* segments: what pattern.matches finds is what the pattern means.
THEOREM PatternsMeanHolds == InputsSpec => []PatternsMean
<1>1. LinesHold => PatternsMean
  <2> SUFFICES ASSUME LinesHold, lines # <<>>, NEW x \in TriedPaths
               PROVE  LET p == Pattern(lines[Len(lines)]) IN Matches(p, x) <=> Means(p, x)
    BY Zenon DEF PatternsMean
  <2>1. lines[Len(lines)] \in Line
    BY DEF LinesHold
  <2>2. x \in Seq(Name) /\ x # <<>>
    BY TriedPath, InputsAssumption
  <2> QED BY <2>1, <2>2, MatchesMeans, Zenon
<1> QED BY <1>1, LinesAlwaysHold, InputsAssumption, PTL

\* The patterns new have p at the end, which has its way with x.
HasItsWay(old, new, p, x) ==
  /\ LeftOut(old, x) # LeftOut(new, x) =>
       Reaches(p, x) /\ LeftOut(new, x) = ~ p.negate
  /\ Reaches(p, x) /\ ~ p.negate => LeftOut(new, x)
  /\ p.negate /\ ~ p.dirOnly /\ Matches(p, x) =>
       (LeftOut(new, x) <=> \E n \in 1..(Len(x) - 1) :
                              Match(new, SubSeq(x, 1, n), TRUE))

\* What one pattern more changes in what is left out: nothing but what it
\* reaches, and that one way.
LEMMA LeftOutGrows ==
  ASSUME NEW old \in Seq(Patterns), NEW p \in Patterns, NEW x,
         NEW new, new = Append(old, p)
  PROVE  HasItsWay(old, new, p, x)
<1> DEFINE N == 1..(Len(x) - 1)
           pre(n) == SubSeq(x, 1, n)
<1>1. /\ Match(new, x, FALSE) = Verdict(Match(old, x, FALSE), p, x, FALSE)
      /\ \A n \in N : Match(new, pre(n), TRUE) = Verdict(Match(old, pre(n), TRUE), p, pre(n), TRUE)
  <2>1. \A y : \A dir \in BOOLEAN : Match(new, y, dir) = Verdict(Match(old, y, dir), p, y, dir)
    BY MatchGrows, ZenonT(60)
  <2> QED BY <2>1, ZenonT(60)
<1>2. /\ Hit(p, x, FALSE) <=> ~ p.dirOnly /\ Matches(p, x)
      /\ \A n \in N : Hit(p, pre(n), TRUE) <=> Matches(p, pre(n))
  BY Zenon DEF Hit
<1>3. Reaches(p, x) <=> Hit(p, x, FALSE) \/ \E n \in N : Hit(p, pre(n), TRUE)
  BY <1>2, Zenon DEF Reaches
<1>4. /\ Match(new, x, FALSE) <=> IF Hit(p, x, FALSE) THEN ~ p.negate ELSE Match(old, x, FALSE)
      /\ \A n \in N : Match(new, pre(n), TRUE) <=>
                      IF Hit(p, pre(n), TRUE) THEN ~ p.negate ELSE Match(old, pre(n), TRUE)
  BY <1>1, Zenon DEF Verdict
<1>5. /\ LeftOut(old, x) <=> Match(old, x, FALSE) \/ \E n \in N : Match(old, pre(n), TRUE)
      /\ LeftOut(new, x) <=> Match(new, x, FALSE) \/ \E n \in N : Match(new, pre(n), TRUE)
  BY Zenon DEF LeftOut
<1>6. LeftOut(old, x) \in BOOLEAN /\ LeftOut(new, x) \in BOOLEAN /\ p.negate \in BOOLEAN
  <2>1. p.negate \in BOOLEAN
    BY DEF Patterns
  <2>2. LeftOut(old, x) \in BOOLEAN /\ LeftOut(new, x) \in BOOLEAN
    BY Zenon DEF LeftOut
  <2> QED BY <2>1, <2>2
<1> HIDE DEF N, pre
<1>7. CASE p.negate
  <2>1. LeftOut(new, x) => LeftOut(old, x)
    BY <1>4, <1>5, <1>7, Zenon
  <2>2. ~ Reaches(p, x) => (LeftOut(new, x) <=> LeftOut(old, x))
    BY <1>3, <1>4, <1>5, Zenon
  <2>3. LeftOut(old, x) # LeftOut(new, x) => Reaches(p, x) /\ LeftOut(new, x) = ~ p.negate
    BY <1>6, <1>7, <2>1, <2>2
  <2>4. Hit(p, x, FALSE) => (LeftOut(new, x) <=> \E n \in N : Match(new, pre(n), TRUE))
    BY <1>4, <1>5, <1>7, Zenon
  <2> QED BY <1>2, <1>7, <2>3, <2>4, Zenon DEF HasItsWay, N, pre
<1>8. CASE ~ p.negate
  <2>1. Reaches(p, x) => LeftOut(new, x)
    BY <1>3, <1>4, <1>5, <1>8, Zenon
  <2>2. ~ Reaches(p, x) => (LeftOut(new, x) <=> LeftOut(old, x))
    BY <1>3, <1>4, <1>5, Zenon
  <2>3. LeftOut(old, x) # LeftOut(new, x) => Reaches(p, x) /\ LeftOut(new, x) = ~ p.negate
    BY <1>6, <1>8, <2>1, <2>2
  <2> QED BY <1>8, <2>1, <2>3, Zenon DEF HasItsWay
<1> QED BY <1>7, <1>8

\* What a line more does to what has been parsed: if it and all before it are
\* read it adds its pattern, and otherwise nothing.
LEMMA ParseGrows ==
  ASSUME LinesHold, LinesHold', NEW l \in Line, lines' = Append(lines, l),
         Parse(lines') # BadPattern
  PROVE  /\ Parse(lines) \in Seq(Patterns)
         /\ IF (\A i \in DOMAIN lines' : lines'[i].mark # "long") /\ ~ Skipped(l)
            THEN Parse(lines') = Append(Parse(lines), Pattern(l))
            ELSE Parse(lines') = Parse(lines)
<1> DEFINE r == Reading(lines)[Len(lines)]
           s == Reading(lines')[Len(lines')]
           read == \A i \in DOMAIN lines' : lines'[i].mark # "long"
<1>1. Len(lines') = Len(lines) + 1 /\ lines'[Len(lines')] = l /\ Len(lines') \in DOMAIN lines'
  BY DEF LinesHold
<1>2. r \in Readings /\ s = ReadLine(r, l)
  BY <1>1, ReadingGrows DEF LinesHold
<1>3. s.at # "bad"
  BY Zenon DEF Parse
<1>4. s.at = "scan" <=> read
  BY <1>3, Zenon DEF LinesHold
<1>5. Parse(lines') = s.patterns /\ Parse(lines) = IF r.at = "bad" THEN BadPattern ELSE r.patterns
  BY <1>3, Zenon DEF Parse
<1>6. read => l.mark # "long"
  BY <1>1, Zenon
<1> HIDE DEF r, s, read
<1>7. \/ s = r /\ (r.at # "scan" \/ Skipped(l))
      \/ r.at = "scan" /\ l.mark = "long" /\ s = [r EXCEPT !.at = "end"]
      \/ s = [r EXCEPT !.at = "bad"]
      \/ r.at = "scan" /\ ~ Skipped(l) /\ s = [r EXCEPT !.patterns = Append(@, Pattern(l))]
  BY <1>2, Zenon DEF ReadLine
<1>8. \/ s.at = r.at /\ s.patterns = r.patterns /\ (r.at # "scan" \/ Skipped(l))
      \/ r.at = "scan" /\ s.at = "end" /\ s.patterns = r.patterns
      \/ r.at = "scan" /\ s.at = "scan" /\ ~ Skipped(l)
         /\ s.patterns = Append(r.patterns, Pattern(l))
  BY <1>2, <1>3, <1>7 DEF Readings
<1>9. r.at # "bad" /\ r.patterns \in Seq(Patterns)
  BY <1>2, <1>3, <1>8 DEF Readings
<1>10. IF read /\ ~ Skipped(l) THEN s.patterns = Append(r.patterns, Pattern(l))
       ELSE s.patterns = r.patterns
  BY <1>4, <1>8
<1> QED BY <1>5, <1>9, <1>10, Zenon DEF read

\* Of every line ever added to a file without a line that is too long: it
\* changes what is left out only where its own pattern reaches, only the one
\* way, and it does so unless a directory above stays pruned.
THEOREM LaterLineHasLastWord == InputsSpec => LaterLineDecides
<1>1. LinesHold /\ LinesHold' /\ [InputsNext]_ivars => LineDecides
  <2> SUFFICES ASSUME LinesHold, LinesHold', [InputsNext]_ivars, lines' # lines,
                      Parse(lines') # BadPattern,
                      \A i \in DOMAIN lines' : lines'[i].mark # "long"
               PROVE  LineDecides
    BY Zenon DEF LineDecides
  <2>1. PICK l \in Line : lines' = Append(lines, l)
    <3>1. AddLine
      BY DEF InputsNext, AddToken, AddElement, Rot, ivars
    <3> QED BY <3>1, AddLineType, InputsAssumption DEF LinesHold
  <2>2. lines'[Len(lines')] = l
    BY <2>1 DEF LinesHold
  <2> DEFINE old == Parse(lines)
             new == Parse(lines')
             p == Pattern(l)
  <2>3. /\ old \in Seq(Patterns)
        /\ IF ~ Skipped(l) THEN new = Append(old, p) ELSE new = old
    BY <2>1, ParseGrows, Zenon
  <2>4. p \in Patterns
    BY PatternType
  <2> HIDE DEF old, new, p
  <2>5. ASSUME NEW x
        PROVE  /\ LeftOut(old, x) # LeftOut(new, x) =>
                    ~ Skipped(l) /\ Reaches(p, x) /\ LeftOut(new, x) = ~ p.negate
               /\ ~ Skipped(l) /\ Reaches(p, x) /\ ~ p.negate => LeftOut(new, x)
               /\ ~ Skipped(l) /\ p.negate /\ ~ p.dirOnly /\ Matches(p, x) =>
                    (LeftOut(new, x) <=> \E n \in 1..(Len(x) - 1) :
                                           Match(new, SubSeq(x, 1, n), TRUE))
    <3>1. CASE ~ Skipped(l)
      <4>1. new = Append(old, p)
        BY <2>3, <3>1, Zenon
      <4>2. HasItsWay(old, new, p, x)
        BY <2>3, <2>4, <4>1, LeftOutGrows, Zenon
      <4> QED BY <3>1, <4>2, Zenon DEF HasItsWay
    <3>2. CASE Skipped(l)
      BY <2>3, <3>2, Zenon
    <3> QED BY <3>1, <3>2
  <2> QED BY <2>2, <2>5, Zenon DEF LineDecides, old, new, p
<1> QED BY <1>1, LinesAlwaysHold, InputsAssumption, PTL DEF InputsSpec, LaterLineDecides

-----------------------------------------------------------------------------
(* Command lines.                                                           *)

\* The states of the loop of parseMixed.
Separations ==
  [flags : Seq(Token), pos : Seq(Token), at : {"free", "value", "pos"}]

\* The states of the flag package's loop: it waits for a value only of a flag
\* that takes one.
Parses ==
  {q \in [set : Seq(Setting), rest : Seq(Token),
          name : BoolFlag \cup ValueFlag \cup NoFlag \cup {NoValue},
          at : {"flags", "value", "rest", "usage"}] :
     q.at = "value" => q.name \in ValueFlag}

LEMMA TokenKinds ==
  ASSUME NEW a \in Token
  PROVE  /\ a.kind \in {"flag", "word", "dash", "end"}
         /\ a.kind = "flag" => /\ a.name \in BoolFlag \cup ValueFlag \cup NoFlag
                              /\ a.value \in Value \cup {NoValue}
BY DEF Token, FlagToken, Word, Dash, End

LEMMA SeparateStepType ==
  ASSUME NEW s \in Separations, NEW a \in Token PROVE SeparateStep(s, a) \in Separations
<1>1. Append(s.flags, a) \in Seq(Token) /\ Append(s.pos, a) \in Seq(Token)
  BY DEF Separations
<1>2. a.kind \in {"flag", "word", "dash", "end"}
  BY TokenKinds
<1> QED BY <1>1, <1>2 DEF SeparateStep, Separations

LEMMA FlagStepType ==
  ASSUME NEW q \in Parses, NEW a \in Token PROVE FlagStep(q, a) \in Parses
<1>1. /\ q.at \in {"flags", "value", "rest", "usage"}
      /\ q.set \in Seq(Setting) /\ q.rest \in Seq(Token)
  BY DEF Parses
<1>2. Append(q.rest, a) \in Seq(Token) /\ <<a>> \in Seq(Token)
  BY <1>1
<1>3. CASE q.at = "usage"
  BY <1>3 DEF FlagStep
<1>4. CASE q.at = "rest"
  BY <1>2, <1>4 DEF FlagStep, Parses
<1>5. CASE q.at = "value"
  <2>1. <<q.name, a>> \in Setting
    BY <1>5 DEF Setting, Parses
  <2>2. Append(q.set, <<q.name, a>>) \in Seq(Setting)
    BY <1>1, <2>1
  <2> QED BY <1>5, <2>2 DEF FlagStep, Parses
<1>6. CASE q.at = "flags" /\ a.kind = "flag"
  <2>1. CASE a.name \in NoFlag \/ BadBool(a)
    BY <1>6, <2>1 DEF FlagStep, Parses
  <2>2. CASE ~ (a.name \in NoFlag \/ BadBool(a)) /\ a.name \in ValueFlag /\ a.value = NoValue
    BY <1>6, <2>2 DEF FlagStep, Parses
  <2>3. CASE ~ (a.name \in NoFlag \/ BadBool(a)) /\ ~ (a.name \in ValueFlag /\ a.value = NoValue)
    <3>1. <<a.name, a.value>> \in Setting
      BY <1>6, <2>3, TokenKinds DEF Setting
    <3>2. Append(q.set, <<a.name, a.value>>) \in Seq(Setting)
      BY <1>1, <3>1
    <3> QED BY <1>6, <2>3, <3>2 DEF FlagStep, Parses
  <2> QED BY <2>1, <2>2, <2>3
<1>7. CASE q.at = "flags" /\ a.kind # "flag"
  BY <1>2, <1>7, TokenKinds DEF FlagStep, Parses
<1> QED BY <1>1, <1>3, <1>4, <1>5, <1>6, <1>7

\* What parseMixed has sorted after each token.
LEMMA SeparatedLoop ==
  ASSUME NEW toks \in Seq(Token)
  PROVE  /\ Separated(toks) \in [0..Len(toks) -> Separations]
         /\ Separated(toks)[0] = [flags |-> <<>>, pos |-> <<>>, at |-> "free"]
         /\ \A n \in 1..Len(toks) :
              Separated(toks)[n] = SeparateStep(Separated(toks)[n - 1], toks[n])
<1> DEFINE start == [flags |-> <<>>, pos |-> <<>>, at |-> "free"]
           st == [q \in Separations \X Token |-> SeparateStep(q[1], q[2])]
<1>1. st \in [Separations \X Token -> Separations]
  BY SeparateStepType
<1>2. start \in Separations
  BY DEF Separations
<1>3. \A r \in Separations, l \in Token : st[<<r, l>>] = SeparateStep(r, l)
  OBVIOUS
<1> HIDE DEF start, st
<1>4. PICK f : Runs(f, Separations, start, st, toks)
  BY <1>1, <1>2, LoopRuns, Zenon
<1>5. f \in [0..Len(toks) -> Separations] /\ f[0] = start
  BY <1>4 DEF Runs
<1>6. ASSUME NEW n \in 1..Len(toks) PROVE f[n] = SeparateStep(f[n - 1], toks[n])
  <2>1. f[n - 1] \in Separations /\ toks[n] \in Token
    BY <1>5
  <2>2. f[n] = st[<<f[n - 1], toks[n]>>]
    BY <1>4, Zenon DEF Runs
  <2> QED BY <1>3, <2>1, <2>2
<1>7. f = [n \in 0..Len(toks) |-> IF n = 0 THEN start ELSE SeparateStep(f[n - 1], toks[n])]
  BY <1>5, <1>6
<1>8. Separated(toks) = [n \in 0..Len(toks) |->
        IF n = 0 THEN start ELSE SeparateStep(Separated(toks)[n - 1], toks[n])]
  BY <1>7, Zenon DEF Separated, start
<1>9. /\ Separated(toks)[0] = start
      /\ \A n \in 1..Len(toks) :
           Separated(toks)[n] = SeparateStep(Separated(toks)[n - 1], toks[n])
  BY <1>8
<1>10. \A n \in 1..Len(toks) : Separated(toks)[n - 1] = f[n - 1] => Separated(toks)[n] = f[n]
  BY <1>6, <1>9
<1>11. \A n \in 0..Len(toks) : Separated(toks)[n] = f[n]
  <2>1. Separated(toks)[0] = f[0] /\ Len(toks) \in Nat
    BY <1>5, <1>9
  <2> QED BY <1>10, <2>1, LoopsAgree, ZenonT(60)
<1>12. DOMAIN Separated(toks) = 0..Len(toks)
  BY <1>8
<1>13. Separated(toks) = f
  BY <1>5, <1>8, <1>11, <1>12
<1> QED BY <1>5, <1>9, <1>13 DEF start

\* A token more is a turn more.
LEMMA SeparatedGrows ==
  ASSUME NEW toks \in Seq(Token), NEW e \in Token
  PROVE  /\ Separated(toks)[Len(toks)] \in Separations
         /\ Separated(Append(toks, e))[Len(toks) + 1]
              = SeparateStep(Separated(toks)[Len(toks)], e)
<1> DEFINE more == Append(toks, e)
           f == Separated(toks)
           g == Separated(more)
           L == Len(toks)
<1>1. L \in Nat /\ more \in Seq(Token) /\ Len(more) = L + 1
      /\ more[L + 1] = e /\ \A n \in 1..L : more[n] = toks[n]
  OBVIOUS
<1>2. /\ f \in [0..L -> Separations] /\ f[0] = [flags |-> <<>>, pos |-> <<>>, at |-> "free"]
      /\ \A n \in 1..L : f[n] = SeparateStep(f[n - 1], toks[n])
  BY SeparatedLoop
<1>3. /\ g[0] = [flags |-> <<>>, pos |-> <<>>, at |-> "free"]
      /\ \A n \in 1..(L + 1) : g[n] = SeparateStep(g[n - 1], more[n])
  BY <1>1, SeparatedLoop
<1> HIDE DEF more, f, g, L
<1>4. \A n \in 1..L : f[n - 1] = g[n - 1] => f[n] = g[n]
  BY <1>1, <1>2, <1>3
<1>5. \A n \in 0..L : f[n] = g[n]
  <2>1. f[0] = g[0] /\ L \in Nat
    BY <1>1, <1>2, <1>3
  <2> QED BY <1>4, <2>1, LoopsAgree, ZenonT(60)
<1>6. g[L + 1] = SeparateStep(g[L], e)
  BY <1>1, <1>3
<1>7. f[L] = g[L] /\ f[L] \in Separations
  BY <1>1, <1>2, <1>5
<1> QED BY <1>6, <1>7 DEF more, f, g, L

\* What the flag package has parsed after each token.
LEMMA FlagsParsedLoop ==
  ASSUME NEW toks \in Seq(Token)
  PROVE  /\ FlagsParsed(toks) \in [0..Len(toks) -> Parses]
         /\ FlagsParsed(toks)[0] = FlagStart
         /\ \A n \in 1..Len(toks) :
              FlagsParsed(toks)[n] = FlagStep(FlagsParsed(toks)[n - 1], toks[n])
<1> DEFINE start == FlagStart
           st == [q \in Parses \X Token |-> FlagStep(q[1], q[2])]
<1>1. st \in [Parses \X Token -> Parses]
  BY FlagStepType
<1>2. start \in Parses
  BY DEF Parses, FlagStart
<1>3. \A r \in Parses, l \in Token : st[<<r, l>>] = FlagStep(r, l)
  OBVIOUS
<1> HIDE DEF start, st
<1>4. PICK f : Runs(f, Parses, start, st, toks)
  BY <1>1, <1>2, LoopRuns, Zenon
<1>5. f \in [0..Len(toks) -> Parses] /\ f[0] = start
  BY <1>4 DEF Runs
<1>6. ASSUME NEW n \in 1..Len(toks) PROVE f[n] = FlagStep(f[n - 1], toks[n])
  <2>1. f[n - 1] \in Parses /\ toks[n] \in Token
    BY <1>5
  <2>2. f[n] = st[<<f[n - 1], toks[n]>>]
    BY <1>4, Zenon DEF Runs
  <2> QED BY <1>3, <2>1, <2>2
<1>7. f = [n \in 0..Len(toks) |-> IF n = 0 THEN start ELSE FlagStep(f[n - 1], toks[n])]
  BY <1>5, <1>6
<1>8. FlagsParsed(toks) = [n \in 0..Len(toks) |->
        IF n = 0 THEN start ELSE FlagStep(FlagsParsed(toks)[n - 1], toks[n])]
  BY <1>7, Zenon DEF FlagsParsed, start
<1>9. /\ FlagsParsed(toks)[0] = start
      /\ \A n \in 1..Len(toks) :
           FlagsParsed(toks)[n] = FlagStep(FlagsParsed(toks)[n - 1], toks[n])
  BY <1>8
<1>10. \A n \in 1..Len(toks) : FlagsParsed(toks)[n - 1] = f[n - 1] => FlagsParsed(toks)[n] = f[n]
  BY <1>6, <1>9
<1>11. \A n \in 0..Len(toks) : FlagsParsed(toks)[n] = f[n]
  <2>1. FlagsParsed(toks)[0] = f[0] /\ Len(toks) \in Nat
    BY <1>5, <1>9
  <2> QED BY <1>10, <2>1, LoopsAgree, ZenonT(60)
<1>12. DOMAIN FlagsParsed(toks) = 0..Len(toks)
  BY <1>8
<1>13. FlagsParsed(toks) = f
  BY <1>5, <1>8, <1>11, <1>12
<1> QED BY <1>5, <1>9, <1>13 DEF start

\* A token more is a turn more.
LEMMA FlagsParsedGrows ==
  ASSUME NEW toks \in Seq(Token), NEW e \in Token
  PROVE  /\ FlagsParsed(toks)[Len(toks)] \in Parses
         /\ FlagsParsed(Append(toks, e))[Len(toks) + 1]
              = FlagStep(FlagsParsed(toks)[Len(toks)], e)
<1> DEFINE more == Append(toks, e)
           f == FlagsParsed(toks)
           g == FlagsParsed(more)
           L == Len(toks)
<1>1. L \in Nat /\ more \in Seq(Token) /\ Len(more) = L + 1
      /\ more[L + 1] = e /\ \A n \in 1..L : more[n] = toks[n]
  OBVIOUS
<1>2. /\ f \in [0..L -> Parses] /\ f[0] = FlagStart
      /\ \A n \in 1..L : f[n] = FlagStep(f[n - 1], toks[n])
  BY FlagsParsedLoop
<1>3. /\ g[0] = FlagStart
      /\ \A n \in 1..(L + 1) : g[n] = FlagStep(g[n - 1], more[n])
  BY <1>1, FlagsParsedLoop
<1> HIDE DEF more, f, g, L
<1>4. \A n \in 1..L : f[n - 1] = g[n - 1] => f[n] = g[n]
  BY <1>1, <1>2, <1>3
<1>5. \A n \in 0..L : f[n] = g[n]
  <2>1. f[0] = g[0] /\ L \in Nat
    BY <1>1, <1>2, <1>3
  <2> QED BY <1>4, <2>1, LoopsAgree, ZenonT(60)
<1>6. g[L + 1] = FlagStep(g[L], e)
  BY <1>1, <1>3
<1>7. f[L] = g[L] /\ f[L] \in Parses
  BY <1>1, <1>2, <1>5
<1> QED BY <1>6, <1>7 DEF more, f, g, L

\* Tokens that are no flags, wherever they stand.
NoFlags(toks) == \A i \in DOMAIN toks : toks[i].kind \notin {"flag", "end"}

\* The two parsers of the tokens typed so far: s sorts them, q is the flag
\* package on what s hands it, r the flag package on the tokens as they are.
\* As long as r meets no argument that is no flag the two go together, and
\* behind it s sorts as r does where no flag comes any more.
SideBySide(s, q, r) ==
  /\ q.rest = <<>>
  /\ q.at \in IF s.at = "value" THEN {"value", "usage"} ELSE {"flags", "usage"}
  /\ r.at \in {"flags", "value"} =>
       /\ q = r /\ s.pos = <<>>
       /\ s.at = IF r.at = "value" THEN "value" ELSE "free"
  /\ r.at = "rest" /\ NoFlags(r.rest) =>
       /\ q.at = "flags" /\ q.set = r.set
       /\ s.pos = r.rest /\ s.at \in {"free", "pos"}

TokensHold ==
  /\ args \in Seq(Token)
  /\ SideBySide(Separate(args), FlagsAt(Separate(args).flags), FlagsAt(args))

LEMMA TokensHoldInit == ASSUME InputsInit PROVE TokensHold
<1>1. args = <<>> /\ args \in Seq(Token) /\ Len(args) = 0
  BY DEF InputsInit
<1>2. Separated(args)[0] = [flags |-> <<>>, pos |-> <<>>, at |-> "free"] /\ FlagsParsed(args)[0] = FlagStart
  BY <1>1, SeparatedLoop, FlagsParsedLoop, Zenon
<1>3. /\ Separate(args) = [flags |-> <<>>, pos |-> <<>>, at |-> "free"]
      /\ FlagsAt(args) = FlagStart
  BY <1>1, <1>2, Zenon DEF Separate, FlagsAt
<1>4. Separate(args).flags = args
  BY <1>1, <1>3
<1>5. SideBySide([flags |-> <<>>, pos |-> <<>>, at |-> "free"], FlagStart, FlagStart)
  BY DEF SideBySide, FlagStart
<1> QED BY <1>1, <1>3, <1>4, <1>5, Zenon DEF TokensHold

\* One token more, in each of the two parsers.
LEMMA ParsersGrow ==
  ASSUME NEW toks \in Seq(Token), NEW a \in Token
  PROVE  /\ Separate(toks) \in Separations /\ FlagsAt(toks) \in Parses
         /\ Separate(Append(toks, a)) = SeparateStep(Separate(toks), a)
         /\ FlagsAt(Append(toks, a)) = FlagStep(FlagsAt(toks), a)
<1>1. Len(Append(toks, a)) = Len(toks) + 1
  OBVIOUS
<1> QED BY <1>1, SeparatedGrows, FlagsParsedGrows, Zenon DEF Separate, FlagsAt

\* parseMixed hands the token over: behind a flag that takes a value, or when
\* it is a flag.
Handed(s, a) == s.at = "value" \/ (s.at = "free" /\ a.kind = "flag")

\* A token behind the first argument that is no flag.
LEMMA SideBySideRest ==
  ASSUME NEW s \in Separations, NEW q, NEW r \in Parses, NEW a \in Token,
         r.at = "rest", SideBySide(s, q, r),
         NoFlags(Append(r.rest, a))
  PROVE  /\ q.at = "flags" /\ q.set = r.set
         /\ SeparateStep(s, a).pos = Append(r.rest, a)
         /\ SeparateStep(s, a).at \in {"free", "pos"}
         /\ ~ Handed(s, a)
<1> DEFINE more == Append(r.rest, a)
<1>1. r.rest \in Seq(Token)
  BY DEF Parses
<1>2. /\ \A i \in DOMAIN r.rest : i \in DOMAIN more /\ more[i] = r.rest[i]
      /\ Len(r.rest) + 1 \in DOMAIN more /\ more[Len(r.rest) + 1] = a
  BY <1>1
<1> HIDE DEF more
<1>3. a.kind \in {"word", "dash"}
  <2>1. a.kind \notin {"flag", "end"}
    BY <1>2, Zenon DEF NoFlags, more
  <2> QED BY <2>1, TokenKinds
<1>4. NoFlags(r.rest)
  BY <1>2, Zenon DEF NoFlags, more
<1>5. q.at = "flags" /\ q.set = r.set /\ s.pos = r.rest /\ s.at \in {"free", "pos"}
  BY <1>4, Zenon DEF SideBySide
<1>6. SeparateStep(s, a).pos = Append(r.rest, a) /\ SeparateStep(s, a).at = s.at
  <2>1. SeparateStep(s, a) = [s EXCEPT !.pos = Append(@, a)]
    BY <1>3, <1>5 DEF SeparateStep
  <2> QED BY <1>5, <2>1 DEF Separations
<1>7. ~ Handed(s, a)
  BY <1>3, <1>5 DEF Handed
<1> QED BY <1>5, <1>6, <1>7

\* The flag package waits for a value exactly when parseMixed hands it the
\* next token, whatever that is.
LEMMA WaitsAsHanded ==
  ASSUME NEW s \in Separations, NEW q \in Parses, NEW a \in Token,
         q.rest = <<>>,
         q.at \in IF s.at = "value" THEN {"value", "usage"} ELSE {"flags", "usage"},
         NEW t, t = SeparateStep(s, a),
         NEW u, u = IF Handed(s, a) THEN FlagStep(q, a) ELSE q
  PROVE  /\ u.rest = <<>>
         /\ u.at \in IF t.at = "value" THEN {"value", "usage"} ELSE {"flags", "usage"}
<1>1. CASE s.at = "value"
  <2>1. t = [s EXCEPT !.flags = Append(@, a), !.at = "free"] /\ t.at = "free"
    BY <1>1 DEF SeparateStep, Separations
  <2>2. u = FlagStep(q, a) /\ q.at \in {"value", "usage"}
    BY <1>1 DEF Handed
  <2>3. u.rest = <<>> /\ u.at \in {"flags", "usage"}
    BY <2>2 DEF FlagStep, Parses
  <2> QED BY <2>1, <2>3
<1>2. CASE s.at = "free" /\ a.kind = "flag"
  <2>1. t.at = IF TakesNext(a) THEN "value" ELSE "free"
    BY <1>2 DEF SeparateStep, Separations
  <2>2. u = FlagStep(q, a) /\ q.at \in {"flags", "usage"}
    BY <1>2 DEF Handed
  <2>3. a.name \in BoolFlag \cup ValueFlag \cup NoFlag
    BY <1>2, TokenKinds
  <2>4. TakesNext(a) <=> a.value = NoValue /\ a.name \notin BoolFlag
    BY <1>2 DEF TakesNext
  <2>5. CASE q.at = "usage"
    BY <2>1, <2>2, <2>5 DEF FlagStep
  <2>6. CASE q.at = "flags" /\ (a.name \in NoFlag \/ BadBool(a))
    <3>1. u = [q EXCEPT !.at = "usage"]
      BY <1>2, <2>2, <2>6 DEF FlagStep
    <3>2. u.rest = <<>> /\ u.at = "usage"
      BY <3>1 DEF Parses
    <3> QED BY <2>1, <3>2
  <2>7. CASE q.at = "flags" /\ ~ (a.name \in NoFlag \/ BadBool(a)) /\ TakesNext(a)
    <3>1. a.name \in ValueFlag /\ a.value = NoValue
      BY <2>3, <2>4, <2>7
    <3>2. u = [q EXCEPT !.name = a.name, !.at = "value"]
      BY <1>2, <2>2, <2>7, <3>1 DEF FlagStep
    <3>3. u.rest = <<>> /\ u.at = "value"
      BY <3>2 DEF Parses
    <3> QED BY <2>1, <2>7, <3>3
  <2>8. CASE q.at = "flags" /\ ~ (a.name \in NoFlag \/ BadBool(a)) /\ ~ TakesNext(a)
    <3>1. ~ (a.name \in ValueFlag /\ a.value = NoValue)
      BY <2>4, <2>8, FlagAssumption
    <3>2. u = [q EXCEPT !.set = Append(@, <<a.name, a.value>>)]
      BY <1>2, <2>2, <2>8, <3>1 DEF FlagStep
    <3>3. u.rest = <<>> /\ u.at = "flags"
      BY <2>8, <3>2 DEF Parses
    <3> QED BY <2>1, <2>8, <3>3
  <2> QED BY <2>2, <2>5, <2>6, <2>7, <2>8
<1>3. CASE ~ Handed(s, a)
  <2>1. u = q /\ s.at # "value" /\ (s.at = "free" => a.kind # "flag")
    BY <1>3, Zenon DEF Handed
  <2>2. a.kind \in {"flag", "word", "dash", "end"}
    BY TokenKinds
  <2>3. t.at # "value"
    BY <2>1, <2>2 DEF SeparateStep, Separations
  <2> QED BY <2>1, <2>3
<1> QED BY <1>1, <1>2, <1>3 DEF Handed

\* As long as all tokens are flags and their values the two go together.
LEMMA TogetherInFlags ==
  ASSUME NEW s \in Separations, NEW r \in Parses, NEW a \in Token,
         s.pos = <<>>, s.at = IF r.at = "value" THEN "value" ELSE "free",
         r.at \in {"flags", "value"},
         NEW t, t = SeparateStep(s, a), NEW w, w = FlagStep(r, a),
         w.at \in {"flags", "value"}
  PROVE  Handed(s, a) /\ t.pos = <<>> /\ t.at = IF w.at = "value" THEN "value" ELSE "free"
<1>1. CASE r.at = "value"
  <2>1. t.pos = <<>> /\ t.at = "free" /\ Handed(s, a)
    BY <1>1 DEF SeparateStep, Separations, Handed
  <2>2. w.at = "flags"
    BY <1>1 DEF FlagStep, Parses
  <2> QED BY <2>1, <2>2
<1>2. CASE r.at = "flags"
  <2>1. a.kind = "flag"
    BY <1>2, TokenKinds DEF FlagStep, Parses
  <2>2. t.pos = <<>> /\ t.at = (IF TakesNext(a) THEN "value" ELSE "free") /\ Handed(s, a)
    BY <1>2, <2>1 DEF SeparateStep, Separations, Handed
  <2>3. /\ a.name \in BoolFlag \cup ValueFlag \cup NoFlag
        /\ TakesNext(a) <=> a.value = NoValue /\ a.name \notin BoolFlag
    BY <2>1, TokenKinds DEF TakesNext
  <2>4. a.name \notin NoFlag
    BY <1>2, <2>1 DEF FlagStep, Parses
  <2>5. w.at = "value" <=> a.name \in ValueFlag /\ a.value = NoValue
    BY <1>2, <2>1 DEF FlagStep, Parses
  <2> QED BY <2>2, <2>3, <2>4, <2>5, FlagAssumption
<1> QED BY <1>1, <1>2

\* A token more keeps the parsers side by side.
LEMMA SideBySideStep ==
  ASSUME NEW s \in Separations, NEW q \in Parses, NEW r \in Parses, NEW a \in Token,
         SideBySide(s, q, r),
         NEW t, t = SeparateStep(s, a), NEW w, w = FlagStep(r, a),
         NEW u, u = IF Handed(s, a) THEN FlagStep(q, a) ELSE q
  PROVE  SideBySide(t, u, w)
<1>1. /\ u.rest = <<>>
      /\ u.at \in IF t.at = "value" THEN {"value", "usage"} ELSE {"flags", "usage"}
  <2>1. /\ q.rest = <<>>
        /\ q.at \in IF s.at = "value" THEN {"value", "usage"} ELSE {"flags", "usage"}
    BY Zenon DEF SideBySide
  <2> QED BY <2>1, WaitsAsHanded
<1>2. r.at \in {"flags", "value", "rest", "usage"}
  BY DEF Parses
<1>3. r.at \in {"flags", "value"} =>
        /\ q = r /\ s.pos = <<>>
        /\ s.at = IF r.at = "value" THEN "value" ELSE "free"
  BY Zenon DEF SideBySide
<1>4. ASSUME w.at \in {"flags", "value"}
      PROVE  u = w /\ t.pos = <<>> /\ t.at = IF w.at = "value" THEN "value" ELSE "free"
  <2>1. r.at \in {"flags", "value"}
    BY <1>2, <1>4 DEF FlagStep, Parses
  <2>2. Handed(s, a) /\ t.pos = <<>> /\ t.at = IF w.at = "value" THEN "value" ELSE "free"
    BY <1>3, <1>4, <2>1, TogetherInFlags
  <2>3. u = w
    BY <1>3, <2>1, <2>2, Zenon
  <2> QED BY <2>2, <2>3
<1>5. ASSUME w.at = "rest", NoFlags(w.rest)
      PROVE  /\ u.at = "flags" /\ u.set = w.set
             /\ t.pos = w.rest /\ t.at \in {"free", "pos"}
  <2>1. CASE r.at = "rest"
    <3>1. w = [r EXCEPT !.rest = Append(@, a)]
      BY <2>1 DEF FlagStep
    <3>2. w.rest = Append(r.rest, a) /\ w.set = r.set
      BY <3>1 DEF Parses
    <3>3. NoFlags(Append(r.rest, a))
      BY <1>5, <3>2, Zenon
    <3>4. /\ q.at = "flags" /\ q.set = r.set
          /\ SeparateStep(s, a).pos = Append(r.rest, a)
          /\ SeparateStep(s, a).at \in {"free", "pos"}
          /\ ~ Handed(s, a)
      BY <2>1, <3>3, SideBySideRest
    <3> QED BY <3>2, <3>4, Zenon
  <2>2. CASE r.at = "flags"
    <3>1. q = r /\ s.pos = <<>> /\ s.at = "free" /\ r.rest = <<>>
      BY <1>3, <2>2, Zenon DEF SideBySide
    <3>2. a.kind \in {"word", "dash", "end"}
      BY <1>5, <2>2, TokenKinds DEF FlagStep, Parses
    <3>3. u = r
      BY <3>1, <3>2 DEF Handed
    <3>4. CASE a.kind = "end"
      <4>1. w = [r EXCEPT !.at = "rest"] /\ t = [s EXCEPT !.at = "pos"]
        BY <2>2, <3>1, <3>4 DEF FlagStep, SeparateStep
      <4> QED BY <2>2, <3>1, <3>3, <4>1 DEF Parses, Separations
    <3>5. CASE a.kind \in {"word", "dash"}
      <4>1. w = [r EXCEPT !.rest = <<a>>, !.at = "rest"] /\ t = [s EXCEPT !.pos = Append(@, a)]
        BY <2>2, <3>1, <3>5 DEF FlagStep, SeparateStep
      <4>2. w.rest = <<a>> /\ w.set = r.set /\ t.pos = Append(<<>>, a) /\ t.at = "free"
        BY <3>1, <4>1 DEF Parses, Separations
      <4>3. Append(<<>>, a) = <<a>>
        OBVIOUS
      <4> QED BY <2>2, <3>3, <4>2, <4>3
    <3> QED BY <3>2, <3>4, <3>5
  <2>3. r.at \notin {"value", "usage"}
    BY <1>5 DEF FlagStep, Parses
  <2> QED BY <1>2, <2>1, <2>2, <2>3
<1> QED BY <1>1, <1>4, <1>5, Zenon DEF SideBySide

LEMMA TokensHoldNext == ASSUME TokensHold, [InputsNext]_ivars PROVE TokensHold'
<1>1. CASE args' = args
  BY <1>1, Zenon DEF TokensHold
<1>2. CASE AddToken
  <2>1. PICK a \in Token : args' = Append(args, a)
    BY <1>2 DEF AddToken
  <2> DEFINE s == Separate(args)
             q == FlagsAt(s.flags)
             r == FlagsAt(args)
             t == Separate(args')
             u == FlagsAt(t.flags)
             w == FlagsAt(args')
  <2>2. args' \in Seq(Token)
    BY <2>1 DEF TokensHold
  <2>3. /\ s \in Separations /\ r \in Parses
        /\ t = SeparateStep(s, a) /\ w = FlagStep(r, a)
    BY <2>1, ParsersGrow DEF TokensHold
  <2>4. SideBySide(s, q, r)
    BY DEF TokensHold
  <2>5. s.flags \in Seq(Token)
    BY <2>3 DEF Separations
  <2>6. q \in Parses
    BY <2>5, <2>1, ParsersGrow
  <2>7. t.flags = IF Handed(s, a) THEN Append(s.flags, a) ELSE s.flags
    <3> HIDE DEF s, t
    <3>1. a.kind \in {"flag", "word", "dash", "end"}
      BY TokenKinds
    <3> QED BY <2>3, <3>1 DEF SeparateStep, Separations, Handed
  <2>8. FlagsAt(Append(s.flags, a)) = FlagStep(q, a)
    BY <2>5, ParsersGrow
  <2>9. u = IF Handed(s, a) THEN FlagStep(q, a) ELSE q
    BY <2>7, <2>8, Zenon
  <2> HIDE DEF s, q, r, t, u, w
  <2>10. SideBySide(t, u, w)
    BY <2>3, <2>4, <2>6, <2>9, SideBySideStep, Zenon
  <2> QED BY <2>2, <2>10 DEF TokensHold, t, u, w
<1>3. args' = args \/ AddToken
  BY DEF InputsNext, AddLine, AddElement, Rot, ivars
<1> QED BY <1>1, <1>2, <1>3

LEMMA TokensAlwaysHold == InputsSpec => []TokensHold
<1>1. InputsInit => TokensHold
  BY TokensHoldInit
<1>2. TokensHold /\ [InputsNext]_ivars => TokensHold'
  BY TokensHoldNext
<1> QED BY <1>1, <1>2, PTL DEF InputsSpec

\* What the flag package makes of tokens it does not refuse.
LEMMA FlagParseGood ==
  ASSUME NEW toks \in Seq(Token), NEW q, q = FlagsAt(toks)
  PROVE  /\ q.at \in {"usage", "value"} <=> FlagParse(toks) = Usage
         /\ q.at \in {"flags", "rest"} <=> FlagParse(toks) # Usage
         /\ FlagParse(toks) # Usage => FlagParse(toks) = [set |-> q.set, rest |-> q.rest]
<1>1. q \in Parses
  BY FlagsParsedLoop DEF FlagsAt
<1>2. [set |-> q.set, rest |-> q.rest] # Usage
  <2>1. [set |-> q.set, rest |-> q.rest] \in [set : Seq(Setting), rest : Seq(Token)]
    BY <1>1 DEF Parses
  <2> QED BY <2>1, FlagAssumption
<1>3. q.at \in {"flags", "value", "rest", "usage"}
  BY <1>1 DEF Parses
<1>4. FlagParse(toks) = IF q.at \in {"usage", "value"} THEN Usage
                        ELSE [set |-> q.set, rest |-> q.rest]
  BY Zenon DEF FlagParse
<1> QED BY <1>2, <1>3, <1>4

\* p picks n of the first m places, in order.
Rising(p, n, m) ==
  /\ p \in [1..n -> 1..m]
  /\ \A j, k \in 1..n : j < k => p[j] < p[k]

\* One place more, behind those picked so far.
With(p, n, e) == [k \in 1..(n + 1) |-> IF k = n + 1 THEN e ELSE p[k]]

LEMMA RisingGrows ==
  ASSUME NEW n \in Nat, NEW m \in Nat, NEW p, Rising(p, n, m), NEW e \in 1..(m + 1),
         \A k \in 1..n : p[k] < e
  PROVE  /\ Rising(With(p, n, e), n + 1, m + 1)
         /\ With(p, n, e)[n + 1] = e /\ \A k \in 1..n : With(p, n, e)[k] = p[k]
         /\ Range(With(p, n, e)) = Range(p) \cup {e}
<1> DEFINE r == With(p, n, e)
<1>0. r = [k \in 1..(n + 1) |-> IF k = n + 1 THEN e ELSE p[k]]
  BY DEF With
<1> HIDE DEF r
<1>1. p \in [1..n -> 1..m] /\ \A j, k \in 1..n : j < k => p[j] < p[k]
  BY DEF Rising
<1>2. r \in [1..(n + 1) -> 1..(m + 1)]
  BY <1>0, <1>1
<1>3. r[n + 1] = e /\ \A k \in 1..n : r[k] = p[k]
  BY <1>0
<1>4. ASSUME NEW j \in 1..(n + 1), NEW k \in 1..(n + 1), j < k PROVE r[j] < r[k]
  <2>1. j \in 1..n /\ r[j] = p[j]
    BY <1>3, <1>4
  <2>2. CASE k = n + 1
    BY <1>3, <2>1, <2>2
  <2>3. CASE k \in 1..n
    BY <1>1, <1>3, <1>4, <2>1, <2>3
  <2> QED BY <2>2, <2>3
<1>5. 1..(n + 1) = (1..n) \cup {n + 1}
  OBVIOUS
<1>6. DOMAIN r = 1..(n + 1) /\ DOMAIN p = 1..n
  BY <1>1, <1>2
<1>7. Range(r) = Range(p) \cup {e}
  <2>1. Range(r) = {r[k] : k \in 1..(n + 1)} /\ Range(p) = {p[k] : k \in 1..n}
    BY <1>6 DEF Range
  <2>2. \A y : y \in Range(r) <=> \E k \in 1..(n + 1) : y = r[k]
    BY <2>1
  <2>3. \A y : y \in Range(p) <=> \E k \in 1..n : y = p[k]
    BY <2>1
  <2>4. \A y : y \in Range(r) <=> y \in Range(p) \cup {e}
    BY <1>3, <1>5, <2>2, <2>3, Zenon
  <2> QED BY <2>4, Zenon
<1>8. Rising(r, n + 1, m + 1)
  BY <1>2, <1>4 DEF Rising
<1> QED BY <1>3, <1>7, <1>8 DEF r

\* Places among m are places among more.
LEMMA RisingStays ==
  ASSUME NEW n \in Nat, NEW m \in Nat, NEW p, Rising(p, n, m)
  PROVE  Rising(p, n, m + 1) /\ Range(p) \subseteq 1..m
<1>1. p \in [1..n -> 1..m]
  BY DEF Rising
<1>2. p \in [1..n -> 1..(m + 1)]
  BY <1>1
<1>3. Range(p) \subseteq 1..m
  BY <1>1, Zenon DEF Range
<1> QED BY <1>2, <1>3 DEF Rising

\* The value of the flag a is the token behind it.
WaitsFor(a) == a.name \in ValueFlag /\ a.value = NoValue

\* Where the values of the flags at S are that wait for one.
Behind(toks, S) == {i + 1 : i \in {j \in S : WaitsFor(toks[j])}}

\* The places that hold no argument, no flag and no value, a flag whose value
\* is still to come aside.
Other(toks, at, P, S) ==
  {i \in 1..Len(toks) : /\ i \notin P \cup S \cup Behind(toks, S)
                        /\ at = "value" => i # Len(toks)}

\* What holds of the places after each token: arguments at P, flags that are
\* set at S, their values behind them, and the --.
Accounted(toks, at, P, S) ==
  LET V == Behind(toks, S)
      U == Other(toks, at, P, S)
      L == Len(toks)
  IN  /\ P \subseteq 1..L /\ S \subseteq 1..L /\ V \subseteq 1..L
      /\ P \cap S = {} /\ P \cap V = {} /\ S \cap V = {}
      /\ at = "value" => L \in Nat \ {0} /\ L \notin P \cup S \cup V
      /\ U # {} <=> at = "pos"
      /\ \A i \in U : toks[i] = End /\ \A j \in 1..L : i < j => j \in P
      /\ \A i \in P : toks[i].kind \in {"word", "dash"} \/ \E e \in U : e < i

\* An argument more: behind the --, or it is no flag.
LEMMA ArgumentAccounted ==
  ASSUME NEW toks \in Seq(Token), NEW a \in Token, NEW more, more = Append(toks, a),
         NEW P, NEW S, NEW at, Accounted(toks, at, P, S),
         at = "pos" \/ (at = "free" /\ a.kind \in {"word", "dash"})
  PROVE  Accounted(more, at, P \cup {Len(toks) + 1}, S)
<1> DEFINE L == Len(toks)
           V == Behind(toks, S)
           U == Other(toks, at, P, S)
<1>1. /\ L \in Nat /\ more[L + 1] = a /\ Len(more) = L + 1
      /\ \A i \in 1..L : more[i] = toks[i]
  OBVIOUS
<1>2. /\ P \subseteq 1..L /\ S \subseteq 1..L /\ V \subseteq 1..L
      /\ P \cap S = {} /\ P \cap V = {} /\ S \cap V = {}
      /\ U # {} <=> at = "pos"
      /\ \A i \in U : toks[i] = End /\ \A j \in 1..L : i < j => j \in P
      /\ \A i \in P : toks[i].kind \in {"word", "dash"} \/ \E e \in U : e < i
  BY Zenon DEF Accounted
<1>3. Behind(more, S) = V
  <2>1. \A j \in S : more[j] = toks[j]
    BY <1>1, <1>2
  <2>2. {j \in S : WaitsFor(more[j])} = {j \in S : WaitsFor(toks[j])}
    BY <2>1, Zenon
  <2> QED BY <2>2, Zenon DEF Behind
<1>4. U = {i \in 1..L : i \notin P \cup S \cup V}
  BY DEF Other
<1>5. Other(more, at, P \cup {L + 1}, S)
        = {i \in 1..(L + 1) : i \notin (P \cup {L + 1}) \cup S \cup V}
  BY <1>1, <1>3 DEF Other
<1> HIDE DEF L, V, U
<1>6. Other(more, at, P \cup {L + 1}, S) = U
  <2>1. /\ \A i \in 1..(L + 1) : i \in 1..L \/ i = L + 1
        /\ \A i \in 1..L : i \in 1..(L + 1) /\ i # L + 1
    BY <1>1
  <2> QED BY <1>4, <1>5, <2>1
<1>7. U \subseteq 1..L
  BY <1>4
<1>8. /\ P \cup {L + 1} \subseteq 1..(L + 1) /\ S \subseteq 1..(L + 1) /\ V \subseteq 1..(L + 1)
      /\ (P \cup {L + 1}) \cap S = {} /\ (P \cup {L + 1}) \cap V = {}
  <2>1. /\ 1..L \subseteq 1..(L + 1) /\ L + 1 \in 1..(L + 1) /\ L + 1 \notin 1..L
    BY <1>1
  <2>2. /\ P \subseteq 1..L /\ S \subseteq 1..L /\ V \subseteq 1..L
        /\ P \cap S = {} /\ P \cap V = {}
    BY <1>2
  <2> QED BY <2>1, <2>2
<1>9. \A i \in U : more[i] = End /\ \A j \in 1..(L + 1) : i < j => j \in P \cup {L + 1}
  BY <1>1, <1>2, <1>7
<1>10. \A i \in P \cup {L + 1} : more[i].kind \in {"word", "dash"} \/ \E e \in U : e < i
  <2>1. more[L + 1].kind \in {"word", "dash"} \/ \E e \in U : e < L + 1
    <3>1. CASE at = "pos"
      <4>1. PICK e \in U : TRUE
        BY <1>2, <3>1, Zenon
      <4>2. e < L + 1
        BY <1>1, <1>7
      <4> QED BY <4>2
    <3>2. CASE a.kind \in {"word", "dash"}
      BY <1>1, <3>2, Zenon
    <3> QED BY <3>1, <3>2
  <2>2. \A i \in P : more[i].kind \in {"word", "dash"} \/ \E e \in U : e < i
    BY <1>1, <1>2
  <2> QED BY <2>1, <2>2
<1>11. at # "value" /\ S \cap V = {} /\ (U # {} <=> at = "pos")
  BY <1>2
<1> QED BY <1>1, <1>3, <1>6, <1>8, <1>9, <1>10, <1>11, Zenon DEF Accounted, L

\* The -- that ends the flags.
LEMMA EndAccounted ==
  ASSUME NEW toks \in Seq(Token), NEW more, more = Append(toks, End),
         NEW P, NEW S, Accounted(toks, "free", P, S)
  PROVE  Accounted(more, "pos", P, S)
<1> DEFINE L == Len(toks)
           V == Behind(toks, S)
           U == Other(toks, "free", P, S)
<1>1. /\ L \in Nat /\ more[L + 1] = End /\ Len(more) = L + 1 /\ End \in Token
      /\ \A i \in 1..L : more[i] = toks[i]
  BY DEF Token
<1>2. /\ P \subseteq 1..L /\ S \subseteq 1..L /\ V \subseteq 1..L
      /\ P \cap S = {} /\ P \cap V = {} /\ S \cap V = {}
      /\ U = {}
      /\ \A i \in P : toks[i].kind \in {"word", "dash"} \/ \E e \in U : e < i
  BY Zenon DEF Accounted
<1>3. Behind(more, S) = V
  <2>1. \A j \in S : more[j] = toks[j]
    BY <1>1, <1>2
  <2>2. {j \in S : WaitsFor(more[j])} = {j \in S : WaitsFor(toks[j])}
    BY <2>1, Zenon
  <2> QED BY <2>2, Zenon DEF Behind
<1>4. U = {i \in 1..L : i \notin P \cup S \cup V}
  BY DEF Other
<1>5. Other(more, "pos", P, S) = {i \in 1..(L + 1) : i \notin P \cup S \cup V}
  BY <1>1, <1>3 DEF Other
<1> HIDE DEF L, V, U
<1>6. Other(more, "pos", P, S) = {L + 1}
  BY <1>1, <1>2, <1>4, <1>5
<1>7. P \subseteq 1..(L + 1) /\ S \subseteq 1..(L + 1) /\ V \subseteq 1..(L + 1)
  BY <1>1, <1>2
<1>8. \A i \in {L + 1} : more[i] = End /\ \A j \in 1..(L + 1) : i < j => j \in P
  BY <1>1
<1>9. \A i \in P : more[i].kind \in {"word", "dash"}
  BY <1>1, <1>2
<1> QED BY <1>1, <1>2, <1>3, <1>6, <1>7, <1>8, <1>9 DEF Accounted, L

\* A flag whose value is to come.
LEMMA WaitingAccounted ==
  ASSUME NEW toks \in Seq(Token), NEW a \in Token, NEW more, more = Append(toks, a),
         NEW P, NEW S, Accounted(toks, "free", P, S)
  PROVE  Accounted(more, "value", P, S)
<1> DEFINE L == Len(toks)
           V == Behind(toks, S)
           U == Other(toks, "free", P, S)
<1>1. /\ L \in Nat /\ more[L + 1] = a /\ Len(more) = L + 1
      /\ \A i \in 1..L : more[i] = toks[i]
  OBVIOUS
<1>2. /\ P \subseteq 1..L /\ S \subseteq 1..L /\ V \subseteq 1..L
      /\ P \cap S = {} /\ P \cap V = {} /\ S \cap V = {}
      /\ U = {}
      /\ \A i \in P : toks[i].kind \in {"word", "dash"} \/ \E e \in U : e < i
  BY Zenon DEF Accounted
<1>3. Behind(more, S) = V
  <2>1. \A j \in S : more[j] = toks[j]
    BY <1>1, <1>2
  <2>2. {j \in S : WaitsFor(more[j])} = {j \in S : WaitsFor(toks[j])}
    BY <2>1, Zenon
  <2> QED BY <2>2, Zenon DEF Behind
<1>4. U = {i \in 1..L : i \notin P \cup S \cup V}
  BY DEF Other
<1>5. Other(more, "value", P, S) = {i \in 1..(L + 1) : i \notin P \cup S \cup V /\ i # L + 1}
  BY <1>1, <1>3 DEF Other
<1> HIDE DEF L, V, U
<1>6. Other(more, "value", P, S) = {}
  BY <1>1, <1>2, <1>4, <1>5
<1>7. /\ P \subseteq 1..(L + 1) /\ S \subseteq 1..(L + 1) /\ V \subseteq 1..(L + 1)
      /\ L + 1 \in Nat \ {0} /\ L + 1 \notin P \cup S \cup V
  BY <1>1, <1>2
<1>8. \A i \in P : more[i].kind \in {"word", "dash"}
  BY <1>1, <1>2
<1> QED BY <1>1, <1>2, <1>3, <1>6, <1>7, <1>8 DEF Accounted, L

\* A flag that needs no value.
LEMMA FlagAccounted ==
  ASSUME NEW toks \in Seq(Token), NEW a \in Token, NEW more, more = Append(toks, a),
         NEW P, NEW S, Accounted(toks, "free", P, S), ~ WaitsFor(a)
  PROVE  Accounted(more, "free", P, S \cup {Len(toks) + 1})
<1> DEFINE L == Len(toks)
           V == Behind(toks, S)
           U == Other(toks, "free", P, S)
           T == S \cup {L + 1}
<1>1. /\ L \in Nat /\ more[L + 1] = a /\ Len(more) = L + 1
      /\ \A i \in 1..L : more[i] = toks[i]
  OBVIOUS
<1>2. /\ P \subseteq 1..L /\ S \subseteq 1..L /\ V \subseteq 1..L
      /\ P \cap S = {} /\ P \cap V = {} /\ S \cap V = {}
      /\ U = {}
      /\ \A i \in P : toks[i].kind \in {"word", "dash"} \/ \E e \in U : e < i
  BY Zenon DEF Accounted
<1>3. Behind(more, T) = V
  <2>1. {j \in T : WaitsFor(more[j])} = {j \in S : WaitsFor(toks[j])}
    <3>1. ~ WaitsFor(more[L + 1]) /\ \A j \in S : more[j] = toks[j]
      BY <1>1, <1>2
    <3> QED BY <3>1, Zenon
  <2> QED BY <2>1, Zenon DEF Behind
<1>4. U = {i \in 1..L : i \notin P \cup S \cup V}
  BY DEF Other
<1>5. Other(more, "free", P, T) = {i \in 1..(L + 1) : i \notin P \cup T \cup V}
  BY <1>1, <1>3 DEF Other
<1>6. T = S \cup {L + 1}
  OBVIOUS
<1> HIDE DEF L, V, U, T
<1>7. Other(more, "free", P, T) = {}
  <2>1. \A i \in 1..(L + 1) : i \in 1..L \/ i = L + 1
    BY <1>1
  <2>2. \A i \in 1..L : i \in P \cup S \cup V
    BY <1>2, <1>4, Zenon
  <2>3. \A i \in 1..(L + 1) : i \in P \cup T \cup V
    BY <1>6, <2>1, <2>2, Zenon
  <2> QED BY <1>5, <2>3, Zenon
<1>8. /\ P \subseteq 1..(L + 1) /\ T \subseteq 1..(L + 1) /\ V \subseteq 1..(L + 1)
      /\ P \cap T = {} /\ T \cap V = {}
  BY <1>1, <1>2, <1>6
<1>9. \A i \in P : more[i].kind \in {"word", "dash"}
  BY <1>1, <1>2
<1>10. Accounted(more, "free", P, T)
  BY <1>1, <1>2, <1>3, <1>7, <1>8, <1>9 DEF Accounted
<1> QED BY <1>10 DEF T, L

\* The value a flag was waiting for.
LEMMA ValueAccounted ==
  ASSUME NEW toks \in Seq(Token), NEW a \in Token, NEW more, more = Append(toks, a),
         NEW P, NEW S, Accounted(toks, "value", P, S), WaitsFor(toks[Len(toks)])
  PROVE  Accounted(more, "free", P, S \cup {Len(toks)})
<1> DEFINE L == Len(toks)
           V == Behind(toks, S)
           U == Other(toks, "value", P, S)
           T == S \cup {L}
           W == V \cup {L + 1}
<1>1. /\ L \in Nat /\ more[L + 1] = a /\ Len(more) = L + 1
      /\ \A i \in 1..L : more[i] = toks[i]
  OBVIOUS
<1>2. /\ P \subseteq 1..L /\ S \subseteq 1..L /\ V \subseteq 1..L
      /\ P \cap S = {} /\ P \cap V = {} /\ S \cap V = {}
      /\ U = {} /\ L \in Nat \ {0} /\ L \notin P \cup S \cup V
      /\ \A i \in P : toks[i].kind \in {"word", "dash"} \/ \E e \in U : e < i
  BY Zenon DEF Accounted
<1>3. Behind(more, T) = W
  <2>1. {j \in T : WaitsFor(more[j])} = {j \in S : WaitsFor(toks[j])} \cup {L}
    <3>1. WaitsFor(more[L]) /\ \A j \in S : more[j] = toks[j]
      BY <1>1, <1>2
    <3> QED BY <3>1, Zenon
  <2> QED BY <2>1, Zenon DEF Behind
<1>4. U = {i \in 1..L : i \notin P \cup S \cup V /\ i # L}
  BY DEF Other
<1>5. Other(more, "free", P, T) = {i \in 1..(L + 1) : i \notin P \cup T \cup W}
  BY <1>1, <1>3 DEF Other
<1>6. T = S \cup {L} /\ W = V \cup {L + 1}
  OBVIOUS
<1> HIDE DEF L, V, U, T, W
<1>7. Other(more, "free", P, T) = {}
  <2>1. \A i \in 1..(L + 1) : i \in 1..L \/ i = L + 1
    BY <1>1
  <2>2. \A i \in 1..L : i \in P \cup S \cup V \cup {L}
    BY <1>2, <1>4, Zenon
  <2>3. \A i \in 1..(L + 1) : i \in P \cup T \cup W
    BY <1>6, <2>1, <2>2, Zenon
  <2> QED BY <1>5, <2>3, Zenon
<1>8. /\ P \subseteq 1..(L + 1) /\ T \subseteq 1..(L + 1) /\ W \subseteq 1..(L + 1)
      /\ P \cap T = {} /\ P \cap W = {} /\ T \cap W = {}
  BY <1>1, <1>2, <1>6
<1>9. \A i \in P : more[i].kind \in {"word", "dash"}
  BY <1>1, <1>2
<1>10. Accounted(more, "free", P, T)
  BY <1>1, <1>3, <1>7, <1>8, <1>9 DEF Accounted
<1> QED BY <1>10 DEF T, L

\* The arguments in list were typed at the places p.
PosTraced(toks, list, p) ==
  /\ Rising(p, Len(list), Len(toks))
  /\ \A k \in 1..Len(list) : list[k] = toks[p[k]]

\* The settings in list were typed at the places f.
SetTraced(toks, list, f) ==
  /\ Rising(f, Len(list), Len(toks))
  /\ \A k \in 1..Len(list) :
       /\ toks[f[k]].kind = "flag"
       /\ list[k] = <<toks[f[k]].name,
                      IF WaitsFor(toks[f[k]]) THEN toks[f[k] + 1] ELSE toks[f[k]].value>>

\* The list was typed at the places p and e.
PosTracedWith(toks, list, p, e) ==
  \E r : PosTraced(toks, list, r) /\ Range(r) = Range(p) \cup {e}

SetTracedWith(toks, list, f, e) ==
  \E r : SetTraced(toks, list, r) /\ Range(r) = Range(f) \cup {e}

LEMMA PosTracedGrows ==
  ASSUME NEW toks \in Seq(Token), NEW a \in Token, NEW more, more = Append(toks, a),
         NEW list \in Seq(Token), NEW p, PosTraced(toks, list, p)
  PROVE  /\ PosTraced(more, list, p)
         /\ PosTracedWith(more, Append(list, a), p, Len(toks) + 1)
<1> DEFINE L == Len(toks)
           n == Len(list)
           r == With(p, n, L + 1)
           longer == Append(list, a)
<1>1. /\ L \in Nat /\ n \in Nat /\ Len(more) = L + 1 /\ more[L + 1] = a
      /\ \A i \in 1..L : more[i] = toks[i]
  OBVIOUS
<1>2. /\ Len(longer) = n + 1 /\ longer[n + 1] = a
      /\ \A k \in 1..n : longer[k] = list[k]
  OBVIOUS
<1>3. Rising(p, n, L) /\ \A k \in 1..n : list[k] = toks[p[k]]
  BY DEF PosTraced
<1> HIDE DEF L, n, r, longer
<1>5. \A k \in 1..n : p[k] \in 1..L
  BY <1>3 DEF Rising
<1>6. L + 1 \in 1..(L + 1) /\ \A k \in 1..n : p[k] < L + 1
  BY <1>1, <1>5
<1>7. Rising(p, n, L + 1)
  BY <1>1, <1>3, RisingStays, Zenon
<1>8. \A k \in 1..n : list[k] = more[p[k]]
  BY <1>1, <1>3, <1>5, Zenon
<1>9. PosTraced(more, list, p)
  BY <1>1, <1>7, <1>8, Zenon DEF PosTraced, n
<1>10. /\ Rising(r, n + 1, L + 1) /\ r[n + 1] = L + 1 /\ \A k \in 1..n : r[k] = p[k]
       /\ Range(r) = Range(p) \cup {L + 1}
  BY <1>1, <1>3, <1>6, RisingGrows DEF r
<1>11. \A k \in 1..(n + 1) : longer[k] = more[r[k]]
  <2>1. \A k \in 1..(n + 1) : k \in 1..n \/ k = n + 1
    BY <1>1
  <2> QED BY <1>1, <1>2, <1>8, <1>10, <2>1, Zenon
<1>12. PosTraced(more, longer, r)
  BY <1>1, <1>2, <1>10, <1>11, Zenon DEF PosTraced
<1> QED BY <1>9, <1>10, <1>12, Zenon DEF PosTracedWith, longer, L

LEMMA SetTracedStays ==
  ASSUME NEW toks \in Seq(Token), NEW a \in Token, NEW more, more = Append(toks, a),
         NEW list \in Seq(Setting), NEW f, SetTraced(toks, list, f),
         Behind(toks, Range(f)) \subseteq 1..Len(toks)
  PROVE  SetTraced(more, list, f)
<1> DEFINE L == Len(toks)
           n == Len(list)
<1>1. /\ L \in Nat /\ n \in Nat /\ Len(more) = L + 1
      /\ \A i \in 1..L : more[i] = toks[i]
  OBVIOUS
<1>2. /\ Rising(f, n, L)
      /\ \A k \in 1..n :
           /\ toks[f[k]].kind = "flag"
           /\ list[k] = <<toks[f[k]].name,
                IF WaitsFor(toks[f[k]]) THEN toks[f[k] + 1] ELSE toks[f[k]].value>>
  BY Zenon DEF SetTraced
<1>3. Behind(toks, Range(f)) \subseteq 1..L
  OBVIOUS
<1> HIDE DEF L, n
<1>4. Rising(f, n, L + 1) /\ f \in [1..n -> 1..L]
  BY <1>1, <1>2, RisingStays, Zenon DEF Rising
<1>5. ASSUME NEW k \in 1..n
      PROVE  /\ more[f[k]] = toks[f[k]]
             /\ WaitsFor(toks[f[k]]) => more[f[k] + 1] = toks[f[k] + 1]
  <2>1. f[k] \in 1..L /\ f[k] \in Range(f)
    BY <1>4, Zenon DEF Range
  <2>2. ASSUME WaitsFor(toks[f[k]]) PROVE f[k] + 1 \in 1..L
    BY <1>3, <2>1, <2>2, Zenon DEF Behind
  <2> QED BY <1>1, <2>1, <2>2, Zenon
<1>6. ASSUME NEW k \in 1..n
      PROVE  /\ more[f[k]].kind = "flag"
             /\ list[k] = <<more[f[k]].name,
                  IF WaitsFor(more[f[k]]) THEN more[f[k] + 1] ELSE more[f[k]].value>>
  BY <1>2, <1>5, Zenon
<1> QED BY <1>1, <1>4, <1>6, Zenon DEF SetTraced, n

\* One setting more, of the flag at the place e.
LEMMA SetTracedGrows ==
  ASSUME NEW toks \in Seq(Token), NEW list \in Seq(Setting), NEW f,
         NEW m \in Nat, Len(toks) = m + 1, SetTraced(toks, list, f),
         Rising(f, Len(list), m), NEW e \in 1..(m + 1), e \notin Range(f),
         e = m \/ e = m + 1, toks[e].kind = "flag",
         NEW x, x = <<toks[e].name, IF WaitsFor(toks[e]) THEN toks[e + 1] ELSE toks[e].value>>
  PROVE  SetTracedWith(toks, Append(list, x), f, e)
<1> DEFINE n == Len(list)
           r == With(f, n, e)
           longer == Append(list, x)
<1>1. n \in Nat
  OBVIOUS
<1>2. /\ Len(longer) = n + 1 /\ longer[n + 1] = x
      /\ \A k \in 1..n : longer[k] = list[k]
  OBVIOUS
<1>3. Rising(f, n, m)
  OBVIOUS
<1>4. \A k \in 1..n :
        /\ toks[f[k]].kind = "flag"
        /\ list[k] = <<toks[f[k]].name,
             IF WaitsFor(toks[f[k]]) THEN toks[f[k] + 1] ELSE toks[f[k]].value>>
  BY Zenon DEF SetTraced
<1> HIDE DEF n, r, longer
<1>6. \A k \in 1..n : f[k] \in 1..m /\ f[k] # e
  BY <1>3, Zenon DEF Rising, Range
<1>7. \A k \in 1..n : f[k] < e
  BY <1>6
<1>8. /\ Rising(r, n + 1, m + 1) /\ r[n + 1] = e /\ \A k \in 1..n : r[k] = f[k]
      /\ Range(r) = Range(f) \cup {e}
  BY <1>1, <1>3, <1>7, RisingGrows DEF r
<1>9. \A k \in 1..(n + 1) : k \in 1..n \/ k = n + 1
  BY <1>1
<1>10. \A k \in 1..(n + 1) :
         /\ toks[r[k]].kind = "flag"
         /\ longer[k] = <<toks[r[k]].name,
              IF WaitsFor(toks[r[k]]) THEN toks[r[k] + 1] ELSE toks[r[k]].value>>
  BY <1>2, <1>4, <1>8, <1>9, Zenon
<1>11. SetTraced(toks, longer, r)
  BY <1>2, <1>8, <1>10, Zenon DEF SetTraced
<1> QED BY <1>8, <1>11, Zenon DEF SetTracedWith, longer

\* The flag a is the one the flag package waits with.
Awaited(a, q) == a.kind = "flag" /\ a.name = q.name /\ WaitsFor(a)

\* What the loops hold of the tokens typed so far was typed at p and f, and
\* what is at neither is accounted for.
Traces(toks, s, q, p, f) ==
  /\ PosTraced(toks, s.pos, p) /\ SetTraced(toks, q.set, f)
  /\ Accounted(toks, s.at, Range(p), Range(f))
  /\ s.at = "value" => Awaited(toks[Len(toks)], q)

Traced(toks, s, q) == q.at # "usage" => \E p, f : Traces(toks, s, q, p, f)

\* A token more is traced too.
LEMMA TracedStep ==
  ASSUME NEW toks \in Seq(Token), NEW a \in Token, NEW more, more = Append(toks, a),
         NEW s \in Separations, NEW q \in Parses, q.rest = <<>>,
         q.at \in IF s.at = "value" THEN {"value", "usage"} ELSE {"flags", "usage"},
         Traced(toks, s, q),
         NEW t, t = SeparateStep(s, a),
         NEW u, u = IF Handed(s, a) THEN FlagStep(q, a) ELSE q,
         u.at # "usage"
  PROVE  \E p, f : Traces(more, t, u, p, f)
<1> DEFINE L == Len(toks)
<1>0. /\ s.at \in {"free", "value", "pos"} /\ s.pos \in Seq(Token) /\ q.set \in Seq(Setting)
      /\ a.kind \in {"flag", "word", "dash", "end"}
      /\ L \in Nat /\ more \in Seq(Token) /\ Len(more) = L + 1
      /\ more[L + 1] = a /\ \A i \in 1..L : more[i] = toks[i]
  BY TokenKinds DEF Separations, Parses
<1>1. q.at # "usage"
  BY DEF FlagStep
<1>2. PICK p, f : Traces(toks, s, q, p, f)
  BY <1>1, Zenon DEF Traced
<1>3. /\ PosTraced(toks, s.pos, p) /\ SetTraced(toks, q.set, f)
      /\ Accounted(toks, s.at, Range(p), Range(f))
      /\ s.at = "value" => Awaited(toks[L], q)
  BY <1>2, Zenon DEF Traces
<1>4. PICK r : PosTraced(more, Append(s.pos, a), r) /\ Range(r) = Range(p) \cup {L + 1}
  <2>1. PosTracedWith(more, Append(s.pos, a), p, L + 1)
    BY <1>0, <1>3, PosTracedGrows, Zenon
  <2> QED BY <2>1, Zenon DEF PosTracedWith
<1>5. PosTraced(more, s.pos, p)
  BY <1>0, <1>3, PosTracedGrows, Zenon
<1>6. SetTraced(more, q.set, f)
  <2>1. Behind(toks, Range(f)) \subseteq 1..Len(toks)
    BY <1>3, Zenon DEF Accounted
  <2> QED BY <1>0, <1>3, <2>1, SetTracedStays, Zenon
<1>7. Rising(f, Len(q.set), L) /\ Range(f) \subseteq 1..L
  BY <1>0, <1>3, Zenon DEF SetTraced, Accounted
<1>8. CASE s.at = "pos" \/ (s.at = "free" /\ a.kind \in {"word", "dash"})
  <2>1. t = [s EXCEPT !.pos = Append(@, a)] /\ u = q
    BY <1>8 DEF SeparateStep, Handed
  <2>2. t.pos = Append(s.pos, a) /\ t.at = s.at /\ t.at # "value"
    BY <1>8, <2>1 DEF Separations
  <2>3. Accounted(more, s.at, Range(p) \cup {L + 1}, Range(f))
    BY <1>3, <1>8, ArgumentAccounted, Zenon
  <2>4. Accounted(more, t.at, Range(r), Range(f))
    BY <1>4, <2>2, <2>3
  <2> QED BY <1>4, <1>6, <2>1, <2>2, <2>4, Zenon DEF Traces
<1>9. CASE s.at = "free" /\ a.kind = "end"
  <2>1. t = [s EXCEPT !.at = "pos"] /\ u = q
    BY <1>9 DEF SeparateStep, Handed
  <2>2. t.pos = s.pos /\ t.at = "pos"
    BY <2>1 DEF Separations
  <2>3. a = End
    BY <1>9 DEF Token, FlagToken, Word, Dash, End
  <2>4. Accounted(more, "pos", Range(p), Range(f))
    BY <1>3, <1>9, <2>3, EndAccounted, Zenon
  <2> QED BY <1>5, <1>6, <2>1, <2>2, <2>4, Zenon DEF Traces
<1>10. CASE s.at = "free" /\ a.kind = "flag"
  <2>1. /\ t.pos = s.pos /\ t.at = IF TakesNext(a) THEN "value" ELSE "free"
        /\ u = FlagStep(q, a) /\ q.at = "flags"
    BY <1>1, <1>10 DEF SeparateStep, Separations, Handed
  <2>2. ~ (a.name \in NoFlag \/ BadBool(a))
    BY <1>10, <2>1 DEF FlagStep, Parses
  <2>3. WaitsFor(a) <=> TakesNext(a)
    BY <1>10, <2>2, TokenKinds, FlagAssumption DEF WaitsFor, TakesNext
  <2>4. CASE WaitsFor(a)
    <3>1. u = [q EXCEPT !.name = a.name, !.at = "value"]
      BY <1>10, <2>1, <2>2, <2>4 DEF FlagStep, WaitsFor
    <3>2. u.set = q.set /\ u.name = a.name /\ t.at = "value"
      BY <2>1, <2>3, <2>4, <3>1 DEF Parses
    <3>3. Awaited(more[Len(more)], u)
      BY <1>0, <1>10, <2>4, <3>2, Zenon DEF Awaited
    <3>4. Accounted(more, "value", Range(p), Range(f))
      BY <1>3, <1>10, WaitingAccounted, Zenon
    <3> QED BY <1>5, <1>6, <2>1, <3>2, <3>3, <3>4, Zenon DEF Traces
  <2>5. CASE ~ WaitsFor(a)
    <3>1. u = [q EXCEPT !.set = Append(@, <<a.name, a.value>>)]
      BY <1>10, <2>1, <2>2, <2>5 DEF FlagStep, WaitsFor
    <3>2. u.set = Append(q.set, <<a.name, a.value>>) /\ t.at = "free"
      BY <2>1, <2>3, <2>5, <3>1 DEF Parses
    <3>3. L + 1 \in 1..(L + 1) /\ L + 1 \notin Range(f)
      BY <1>0, <1>7
    <3>4. /\ more[L + 1].kind = "flag"
          /\ <<a.name, a.value>> = <<more[L + 1].name,
               IF WaitsFor(more[L + 1]) THEN more[(L + 1) + 1] ELSE more[L + 1].value>>
      BY <1>0, <1>10, <2>5, Zenon
    <3>5. PICK g : /\ SetTraced(more, Append(q.set, <<a.name, a.value>>), g)
                   /\ Range(g) = Range(f) \cup {L + 1}
      <4>1. SetTracedWith(more, Append(q.set, <<a.name, a.value>>), f, L + 1)
        BY <1>0, <1>6, <1>7, <3>3, <3>4, SetTracedGrows, ZenonT(60)
      <4> QED BY <4>1, Zenon DEF SetTracedWith
    <3>6. Accounted(more, "free", Range(p), Range(f) \cup {L + 1})
      BY <1>3, <1>10, <2>5, FlagAccounted, Zenon
    <3>7. Accounted(more, "free", Range(p), Range(g)) /\ SetTraced(more, u.set, g)
      BY <3>2, <3>5, <3>6
    <3> QED BY <1>5, <2>1, <3>2, <3>7, Zenon DEF Traces
  <2> QED BY <2>4, <2>5
<1>11. CASE s.at = "value"
  <2>1. t.pos = s.pos /\ t.at = "free" /\ u = FlagStep(q, a) /\ q.at = "value"
    BY <1>1, <1>11 DEF SeparateStep, Separations, Handed
  <2>2. u.set = Append(q.set, <<q.name, a>>)
    BY <2>1 DEF FlagStep, Parses
  <2>3. Awaited(toks[L], q)
    BY <1>3, <1>11, Zenon
  <2>4. L \in Nat \ {0} /\ L \notin Range(f)
    BY <1>3, <1>11, Zenon DEF Accounted
  <2>5. L \in 1..L /\ L \in 1..(L + 1)
    BY <2>4
  <2>6. more[L] = toks[L]
    BY <1>0, <2>5, Zenon
  <2>7. /\ more[L].kind = "flag"
        /\ <<q.name, a>> = <<more[L].name,
             IF WaitsFor(more[L]) THEN more[L + 1] ELSE more[L].value>>
    BY <1>0, <2>3, <2>6, Zenon DEF Awaited
  <2>8. PICK g : /\ SetTraced(more, Append(q.set, <<q.name, a>>), g)
                 /\ Range(g) = Range(f) \cup {L}
    <3>1. SetTracedWith(more, Append(q.set, <<q.name, a>>), f, L)
      BY <1>0, <1>6, <1>7, <2>4, <2>5, <2>7, SetTracedGrows, ZenonT(60)
    <3> QED BY <3>1, Zenon DEF SetTracedWith
  <2>9. Accounted(more, "free", Range(p), Range(f) \cup {L})
    <3>1. WaitsFor(toks[L])
      BY <2>3, Zenon DEF Awaited
    <3> QED BY <1>3, <1>11, <3>1, ValueAccounted, Zenon
  <2>10. Accounted(more, "free", Range(p), Range(g)) /\ SetTraced(more, u.set, g)
    BY <2>2, <2>8, <2>9
  <2> QED BY <1>5, <2>1, <2>10, Zenon DEF Traces
<1> QED BY <1>0, <1>8, <1>9, <1>10, <1>11

\* What the loops hold was typed, and what was typed they hold.
TokensTraced ==
  TokensHold /\ Traced(args, Separate(args), FlagsAt(Separate(args).flags))

LEMMA TokensTracedInit == ASSUME InputsInit PROVE TokensTraced
<1>1. args = <<>> /\ args \in Seq(Token) /\ Len(args) = 0
  BY DEF InputsInit
<1>2. Separated(args)[0] = [flags |-> <<>>, pos |-> <<>>, at |-> "free"] /\ FlagsParsed(args)[0] = FlagStart
  BY <1>1, SeparatedLoop, FlagsParsedLoop, Zenon
<1>3. /\ Separate(args) = [flags |-> <<>>, pos |-> <<>>, at |-> "free"]
      /\ FlagsAt(args) = FlagStart
  BY <1>1, <1>2, Zenon DEF Separate, FlagsAt
<1> DEFINE s == Separate(args)
<1>4. s.flags = args /\ s.pos = <<>> /\ s.at = "free"
  BY <1>1, <1>3
<1>5. FlagsAt(s.flags).set = <<>>
  BY <1>3, <1>4 DEF FlagStart
<1>6. Len(<<>>) = 0 /\ 1..0 = {}
  OBVIOUS
<1>7. Rising(<<>>, 0, 0) /\ Range(<<>>) = {}
  <2>1. <<>> \in [1..0 -> 1..0] /\ DOMAIN <<>> = {}
    BY <1>6
  <2> QED BY <1>6, <2>1, Zenon DEF Rising, Range
<1>8. PosTraced(args, <<>>, <<>>) /\ SetTraced(args, <<>>, <<>>)
  BY <1>1, <1>6, <1>7, Zenon DEF PosTraced, SetTraced
<1>9. Accounted(args, "free", {}, {})
  <2>1. Behind(args, {}) = {}
    BY Zenon DEF Behind
  <2>2. Other(args, "free", {}, {}) = {}
    BY <1>1, <1>6, Zenon DEF Other
  <2> QED BY <2>1, <2>2 DEF Accounted
<1> HIDE DEF s
<1>10. Traces(args, s, FlagsAt(s.flags), <<>>, <<>>)
  BY <1>4, <1>5, <1>7, <1>8, <1>9 DEF Traces
<1> QED BY <1>10, TokensHoldInit, Zenon DEF TokensTraced, Traced, s

LEMMA TokensTracedNext == ASSUME TokensTraced, [InputsNext]_ivars PROVE TokensTraced'
<1>1. CASE args' = args
  BY <1>1, Zenon DEF TokensTraced, TokensHold
<1>2. CASE AddToken
  <2>1. PICK a \in Token : args' = Append(args, a)
    BY <1>2 DEF AddToken
  <2> DEFINE s == Separate(args)
             q == FlagsAt(s.flags)
             t == Separate(args')
             u == FlagsAt(t.flags)
  <2>2. args \in Seq(Token) /\ SideBySide(s, q, FlagsAt(args)) /\ Traced(args, s, q)
    BY DEF TokensTraced, TokensHold
  <2>3. s \in Separations /\ t = SeparateStep(s, a)
    BY <2>1, <2>2, ParsersGrow
  <2>4. s.flags \in Seq(Token)
    BY <2>3 DEF Separations
  <2>5. q \in Parses /\ FlagsAt(Append(s.flags, a)) = FlagStep(q, a)
    BY <2>4, ParsersGrow
  <2>6. t.flags = IF Handed(s, a) THEN Append(s.flags, a) ELSE s.flags
    <3> HIDE DEF s, t
    <3>1. a.kind \in {"flag", "word", "dash", "end"}
      BY TokenKinds
    <3> QED BY <2>3, <3>1 DEF SeparateStep, Separations, Handed
  <2>7. u = IF Handed(s, a) THEN FlagStep(q, a) ELSE q
    BY <2>5, <2>6, Zenon
  <2>8. /\ q.rest = <<>>
        /\ q.at \in IF s.at = "value" THEN {"value", "usage"} ELSE {"flags", "usage"}
    BY <2>2, Zenon DEF SideBySide
  <2>9. TokensHold'
    BY TokensHoldNext, Zenon DEF TokensTraced
  <2> HIDE DEF s, q, t, u
  <2>10. ASSUME u.at # "usage" PROVE \E p, f : Traces(args', t, u, p, f)
    BY <2>1, <2>2, <2>3, <2>5, <2>7, <2>8, <2>10, TracedStep
  <2>11. Traced(args', t, u)
    BY <2>10, Zenon DEF Traced
  <2> QED BY <2>9, <2>11 DEF TokensTraced, t, u
<1>3. args' = args \/ AddToken
  BY DEF InputsNext, AddLine, AddElement, Rot, ivars
<1> QED BY <1>1, <1>2, <1>3

LEMMA TokensAlwaysTraced == InputsSpec => []TokensTraced
<1>1. InputsInit => TokensTraced
  BY TokensTracedInit
<1>2. TokensTraced /\ [InputsNext]_ivars => TokensTraced'
  BY TokensTracedNext
<1> QED BY <1>1, <1>2, PTL DEF InputsSpec

\* Where no flag waits for its value any more, every place is accounted for.
LEMMA AccountedPlaced ==
  ASSUME args \in Seq(Token), NEW at, at # "value", NEW P, NEW S,
         Accounted(args, at, P, S)
  PROVE  AllPlaced(P, S)
<1> DEFINE V == Behind(args, S)
           U == Other(args, at, P, S)
<1>1. DOMAIN args = 1..Len(args)
  OBVIOUS
<1>2. V = {i + 1 : i \in {j \in S : Waits(j)}}
  BY Zenon DEF Behind, Waits, WaitsFor
<1>3. U = DOMAIN args \ (P \cup S \cup V)
  BY <1>1 DEF Other
<1>4. /\ V \subseteq DOMAIN args
      /\ P \cap S = {} /\ P \cap V = {} /\ S \cap V = {}
      /\ \A i \in U : args[i] = End /\ \A j \in DOMAIN args : i < j => j \in P
      /\ \A i \in P : args[i].kind \in {"word", "dash"} \/ \E e \in U : e < i
  BY <1>1, Zenon DEF Accounted
<1> HIDE DEF V, U
<1>5. /\ \A i \in DOMAIN args \ (P \cup S \cup V) :
           args[i] = End /\ \A j \in DOMAIN args : i < j => j \in P
      /\ \A i \in P : \/ args[i].kind \in {"word", "dash"}
                     \/ \E e \in DOMAIN args \ (P \cup S \cup V) : e < i
  BY <1>3, <1>4
<1> QED BY <1>2, <1>4, <1>5, Zenon DEF AllPlaced

\* Of every command line, of any length and with any flags, that parseMixed
\* accepts: each token typed, counted by the place where it was typed, is a
\* flag that is set, the value of the flag before it, an argument that is
\* passed on, or the one --; there is no setting and no argument that was not
\* typed, and both stay in order.
THEOREM NothingIsLost == InputsSpec => []NothingLost
<1>1. TokensTraced => NothingLost
  <2> SUFFICES ASSUME TokensTraced, parseMixed(args) # Usage PROVE NothingLost
    BY Zenon DEF NothingLost
  <2> DEFINE s == Separate(args)
             q == FlagsAt(s.flags)
             r == parseMixed(args)
  <2>1. args \in Seq(Token) /\ SideBySide(s, q, FlagsAt(args)) /\ Traced(args, s, q)
    BY DEF TokensTraced, TokensHold
  <2>2. s \in Separations
    BY <2>1, SeparatedLoop DEF Separate
  <2>3. s.flags \in Seq(Token) /\ s.pos \in Seq(Token)
    BY <2>2 DEF Separations
  <2>4. q \in Parses
    BY <2>3, FlagsParsedLoop DEF FlagsAt
  <2>5. r = IF FlagParse(s.flags) = Usage THEN Usage
            ELSE [set |-> FlagParse(s.flags).set, pos |-> s.pos]
    BY Zenon DEF parseMixed
  <2> HIDE DEF s, q
  <2>6. q = FlagsAt(s.flags)
    BY DEF q
  <2>7. /\ FlagParse(s.flags) # Usage /\ q.at \in {"flags", "rest"}
        /\ FlagParse(s.flags) = [set |-> q.set, rest |-> q.rest]
    BY <2>3, <2>5, <2>6, FlagParseGood
  <2>8. r = [set |-> q.set, pos |-> s.pos]
    BY <2>5, <2>7
  <2>9. q.at \in IF s.at = "value" THEN {"value", "usage"} ELSE {"flags", "usage"}
    BY <2>1, Zenon DEF SideBySide
  <2>10. q.at # "usage" /\ s.at # "value"
    BY <2>7, <2>9
  <2>11. PICK p, f : Traces(args, s, q, p, f)
    BY <2>1, <2>10, Zenon DEF Traced
  <2> HIDE DEF r
  <2>12. r.set = q.set /\ r.pos = s.pos
    BY <2>8
  <2>13. AllPlaced(Range(p), Range(f))
    BY <2>1, <2>10, <2>11, AccountedPlaced, Zenon DEF Traces
  <2>14. q.set \in Seq(Setting)
    BY <2>4 DEF Parses
  <2>15. /\ DOMAIN r.pos = 1..Len(s.pos) /\ DOMAIN r.set = 1..Len(q.set)
         /\ DOMAIN args = 1..Len(args)
    BY <2>1, <2>3, <2>12, <2>14
  <2>16. p \in TypedAt(r.pos) /\ \A k \in DOMAIN r.pos : r.pos[k] = args[p[k]]
    <3>1. /\ Rising(p, Len(s.pos), Len(args))
          /\ \A k \in 1..Len(s.pos) : s.pos[k] = args[p[k]]
      BY <2>11, Zenon DEF Traces, PosTraced
    <3> QED BY <2>12, <2>15, <3>1, Zenon DEF TypedAt, Rising
  <2>17. /\ f \in TypedAt(r.set)
         /\ \A k \in DOMAIN r.set :
              args[f[k]].kind = "flag" /\ r.set[k] = SettingAt(f[k])
    <3>1. /\ Rising(f, Len(q.set), Len(args))
          /\ \A k \in 1..Len(q.set) :
               /\ args[f[k]].kind = "flag"
               /\ q.set[k] = <<args[f[k]].name,
                    IF WaitsFor(args[f[k]]) THEN args[f[k] + 1] ELSE args[f[k]].value>>
      BY <2>11, Zenon DEF Traces, SetTraced
    <3>2. f \in TypedAt(r.set)
      BY <2>15, <3>1, Zenon DEF TypedAt, Rising
    <3>3. \A k \in DOMAIN r.set : args[f[k]].kind = "flag" /\ r.set[k] = SettingAt(f[k])
      BY <2>12, <2>15, <3>1, Zenon DEF SettingAt, Waits, WaitsFor
    <3> QED BY <3>2, <3>3
  <2> QED BY <2>13, <2>16, <2>17, Zenon DEF NothingLost, r
<1> QED BY <1>1, TokensAlwaysTraced, PTL

\* Of every command line the flag package reads without a flag or -- behind
\* the first argument that is neither: parseMixed changes nothing about it.
THEOREM StdlibAlwaysAgrees == InputsSpec => []StdlibAgrees
<1>1. TokensHold => StdlibAgrees
  <2> SUFFICES ASSUME TokensHold, FlagParse(args) # Usage, NoFlags(FlagParse(args).rest)
               PROVE  parseMixed(args) = [set |-> FlagParse(args).set, pos |-> FlagParse(args).rest]
    BY Zenon DEF StdlibAgrees, NoFlags
  <2> DEFINE s == Separate(args)
             q == FlagsAt(s.flags)
             r == FlagsAt(args)
  <2>1. s \in Separations
    BY SeparatedLoop DEF Separate, TokensHold
  <2>2. s.flags \in Seq(Token) /\ args \in Seq(Token)
    BY <2>1 DEF Separations, TokensHold
  <2>4. SideBySide(s, q, r)
    BY DEF TokensHold
  <2>5. parseMixed(args) = IF FlagParse(s.flags) = Usage THEN Usage
                           ELSE [set |-> FlagParse(s.flags).set, pos |-> s.pos]
    BY Zenon DEF parseMixed
  <2>6. r.at \in {"flags", "rest"} /\ FlagParse(args) = [set |-> r.set, rest |-> r.rest]
    BY <2>2, FlagParseGood
  <2>7. NoFlags(r.rest)
    BY <2>6
  <2>8. q.at \in {"flags", "rest"} <=> FlagParse(s.flags) # Usage
    BY <2>2, FlagParseGood
  <2>9. FlagParse(s.flags) # Usage => FlagParse(s.flags) = [set |-> q.set, rest |-> q.rest]
    BY <2>2, FlagParseGood
  <2> HIDE DEF s, q, r
  <2>10. q.at = "flags" /\ q.set = r.set /\ s.pos = r.rest
    <3>1. CASE r.at = "rest"
      BY <2>4, <2>7, <3>1, Zenon DEF SideBySide
    <3>2. CASE r.at = "flags"
      BY <2>4, <3>2 DEF SideBySide
    <3> QED BY <2>6, <3>1, <3>2
  <2> QED BY <2>5, <2>6, <2>8, <2>9, <2>10
<1> QED BY <1>1, TokensAlwaysHold, PTL

-----------------------------------------------------------------------------
(* Names.                                                                   *)

\* A name grows by elements.
NameHolds == name \in Seq(Element)

LEMMA NameAlwaysHolds == InputsSpec => []NameHolds
<1>1. InputsInit => NameHolds
  BY DEF InputsInit, NameHolds
<1>2. NameHolds /\ [InputsNext]_ivars => NameHolds'
  <2> SUFFICES ASSUME NameHolds, [InputsNext]_ivars PROVE NameHolds'
    OBVIOUS
  <2>1. CASE AddElement
    BY <2>1 DEF AddElement, NameHolds
  <2>2. CASE name' = name
    BY <2>2 DEF NameHolds
  <2> QED BY <2>1, <2>2 DEF InputsNext, AddLine, AddToken, Rot, ivars
<1> QED BY <1>1, <1>2, PTL DEF InputsSpec

\* An element that stands for a name.
Named(p) == \A i \in DOMAIN p : p[i] \notin {"..", ".", ""}

\* Where all elements are names, Clean takes none away.
LEMMA CleanKeeps ==
  ASSUME NEW p \in Seq(Element), p # <<>>, Named(p) PROVE Clean(p) = p
<1> DEFINE f == Cleaned(p)
           g == [n \in 0..Len(p) |-> SubSeq(p, 1, n)]
<1>1. /\ Len(p) \in Nat /\ g[0] = <<>>
      /\ \A n \in 1..Len(p) : g[n - 1] = SubSeq(p, 1, n - 1) /\ g[n] = SubSeq(p, 1, n)
  OBVIOUS
<1>2. ASSUME NEW n \in 1..Len(p) PROVE CleanStep(g[n - 1], p[n]) = g[n]
  <2>1. p[n] # ".." /\ p[n] # "." /\ p[n] # ""
    <3>1. n \in DOMAIN p
      OBVIOUS
    <3> QED BY <3>1, Zenon DEF Named
  <2>2. CleanStep(g[n - 1], p[n]) = Append(g[n - 1], p[n])
    <3> HIDE DEF g
    <3> QED BY <2>1 DEF CleanStep
  <2>3. Append(SubSeq(p, 1, n - 1), p[n]) = SubSeq(p, 1, n)
    OBVIOUS
  <2> QED BY <1>1, <2>2, <2>3
<1>3. g = [n \in 0..Len(p) |-> IF n = 0 THEN <<>> ELSE CleanStep(g[n - 1], p[n])]
  <2>1. g = [n \in 0..Len(p) |-> g[n]]
    OBVIOUS
  <2> HIDE DEF g
  <2>2. \A n \in 0..Len(p) : g[n] = IF n = 0 THEN <<>> ELSE CleanStep(g[n - 1], p[n])
    BY <1>1, <1>2
  <2> QED BY <2>1, <2>2
<1>4. f = [n \in 0..Len(p) |-> IF n = 0 THEN <<>> ELSE CleanStep(f[n - 1], p[n])]
  <2> HIDE DEF g
  <2> QED BY <1>3, Zenon DEF Cleaned
<1>5. f[0] = <<>> /\ \A n \in 1..Len(p) : f[n] = CleanStep(f[n - 1], p[n])
  <2> HIDE DEF f
  <2> QED BY <1>4
<1> HIDE DEF f, g
<1>6. \A n \in 1..Len(p) : f[n - 1] = g[n - 1] => f[n] = g[n]
  BY <1>2, <1>5
<1>7. \A n \in 0..Len(p) : f[n] = g[n]
  <2>1. f[0] = g[0] /\ Len(p) \in Nat
    BY <1>1, <1>5
  <2> QED BY <1>6, <2>1, LoopsAgree, ZenonT(60)
<1>8. Cleaned(p)[Len(p)] = p
  <2>1. f[Len(p)] = g[Len(p)]
    BY <1>1, <1>7
  <2>2. g[Len(p)] = p
    BY DEF g
  <2> QED BY <2>1, <2>2 DEF f
<1> QED BY <1>8, Zenon DEF Clean

\* Where all elements are names, following them never turns back.
LEMMA LeadsAhead ==
  ASSUME NEW p \in Seq(Element), p # <<>>, Named(p) PROVE Leads(p) = p
<1> DEFINE f == Followed(p)
           g == [n \in 0..Len(p) |-> SubSeq(p, 1, n)]
<1>1. /\ Len(p) \in Nat /\ g[0] = <<>>
      /\ \A n \in 1..Len(p) : g[n - 1] = SubSeq(p, 1, n - 1) /\ g[n] = SubSeq(p, 1, n)
  OBVIOUS
<1>2. ASSUME NEW n \in 1..Len(p) PROVE Follow(g[n - 1], p[n]) = g[n]
  <2>1. g[n - 1] # Outside
    <3> SUFFICES ASSUME SubSeq(p, 1, n - 1) = <<"..">> PROVE FALSE
      BY <1>1 DEF Outside
    <3> DEFINE a == SubSeq(p, 1, n - 1)
    <3>1. Len(a) = n - 1 /\ (n - 1 >= 1 => a[1] = p[1]) /\ 1 \in DOMAIN p
      OBVIOUS
    <3>2. a = <<"..">>
      OBVIOUS
    <3> HIDE DEF a
    <3>3. p[1] = ".."
      BY <3>1, <3>2
    <3> QED BY <3>1, <3>3, Zenon DEF Named
  <2>2. Follow(g[n - 1], p[n]) = Append(g[n - 1], p[n])
    <3>1. p[n] # ".." /\ p[n] # "." /\ p[n] # ""
      <4>1. n \in DOMAIN p
        OBVIOUS
      <4> QED BY <4>1, Zenon DEF Named
    <3> HIDE DEF g
    <3> QED BY <2>1, <3>1 DEF Follow
  <2>3. Append(SubSeq(p, 1, n - 1), p[n]) = SubSeq(p, 1, n)
    OBVIOUS
  <2> QED BY <1>1, <2>2, <2>3
<1>3. g = [n \in 0..Len(p) |-> IF n = 0 THEN <<>> ELSE Follow(g[n - 1], p[n])]
  <2>1. g = [n \in 0..Len(p) |-> g[n]]
    OBVIOUS
  <2> HIDE DEF g
  <2>2. \A n \in 0..Len(p) : g[n] = IF n = 0 THEN <<>> ELSE Follow(g[n - 1], p[n])
    BY <1>1, <1>2
  <2> QED BY <2>1, <2>2
<1>4. f = [n \in 0..Len(p) |-> IF n = 0 THEN <<>> ELSE Follow(f[n - 1], p[n])]
  <2> HIDE DEF g
  <2> QED BY <1>3, Zenon DEF Followed
<1>5. f[0] = <<>> /\ \A n \in 1..Len(p) : f[n] = Follow(f[n - 1], p[n])
  <2> HIDE DEF f
  <2> QED BY <1>4
<1> HIDE DEF f, g
<1>6. \A n \in 1..Len(p) : f[n - 1] = g[n - 1] => f[n] = g[n]
  BY <1>2, <1>5
<1>7. \A n \in 0..Len(p) : f[n] = g[n]
  <2>1. f[0] = g[0] /\ Len(p) \in Nat
    BY <1>1, <1>5
  <2> QED BY <1>6, <2>1, LoopsAgree, ZenonT(60)
<1>8. Followed(p)[Len(p)] = p
  <2>1. f[Len(p)] = g[Len(p)]
    BY <1>1, <1>7
  <2>2. g[Len(p)] = p
    BY DEF g
  <2> QED BY <2>1, <2>2 DEF f
<1>9. ~ (Len(p) > 1 /\ p[1] = "")
  <2>1. 1 \in DOMAIN p
    OBVIOUS
  <2> QED BY <2>1 DEF Named
<1> QED BY <1>8, <1>9, Zenon DEF Leads

\* Of every path, of any length: one that ValidatePath accepts leads below
\* the root, one name at a time, and not into the state directory.
THEOREM ValidAlwaysStays == InputsSpec => []ValidStays
<1>1. NameHolds => ValidStays
  <2> SUFFICES ASSUME NameHolds, name # <<>>, ValidatePath(name)
               PROVE  Leads(name) = name /\ name[1] # StateDir
    BY DEF ValidStays
  <2>1. Named(name) /\ name[1] # StateDir
    BY Zenon DEF ValidatePath, Named, OutsideState
  <2>2. Leads(name) = name
    BY <2>1, LeadsAhead DEF NameHolds
  <2> QED BY <2>1, <2>2
<1> QED BY <1>1, NameAlwaysHolds, PTL

\* Of the names of any file below any root: what Take records is a path that
\* ValidatePath accepts, but for the two kinds named.
THEOREM RecordedAlwaysLoads == InputsSpec => []RecordedLoads
<1>1. NameHolds => RecordedLoads
  <2> SUFFICES ASSUME NameHolds, name # <<>>, ToSet(name) \subseteq Proper, Recorded(name)
               PROVE  ValidatePath(name) <=> /\ ToSet(name) \cap Backslash = {}
                                             /\ name # <<StateDir>>
    BY DEF RecordedLoads
  <2>1. /\ name \in Seq(Element) /\ Len(name) >= 1
        /\ \A i \in DOMAIN name : name[i] \in Proper
    BY DEF NameHolds, ToSet
  <2>2. Named(name)
    BY <2>1, NameAssumption DEF Named, Proper, StateDir
  <2>3. Clean(name) = name
    BY <2>1, <2>2, CleanKeeps
  <2>4. name # <<"">> /\ ~ (Len(name) > 1 /\ name[1] = "")
    <3>1. 1 \in DOMAIN name /\ <<"">>[1] = ""
      BY <2>1
    <3> QED BY <2>2, <3>1 DEF Named
  <2>5. (\A i \in DOMAIN name : name[i] \notin Backslash) <=> ToSet(name) \cap Backslash = {}
    BY DEF ToSet
  <2>6. name[1] # StateDir <=> name # <<StateDir>>
    <3>1. <<StateDir>>[1] = StateDir
      OBVIOUS
    <3>2. CASE Len(name) > 1
      <4>1. name[1] # StateDir
        BY <3>2 DEF Recorded
      <4> QED BY <3>1, <4>1, Zenon
    <3>3. CASE ~ (Len(name) > 1)
      <4>1. name = <<name[1]>>
        <5> DEFINE L == Len(name)
                   one == <<name[1]>>
        <5>1. L \in Nat /\ name = [i \in 1..L |-> name[i]]
          BY <2>1
        <5>2. one = [i \in 1..1 |-> one[i]] /\ one[1] = name[1]
          OBVIOUS
        <5>3. L >= 1 /\ ~ (L > 1)
          BY <2>1, <3>3
        <5> HIDE DEF L, one
        <5>4. L = 1
          BY <5>1, <5>3
        <5>5. name = [i \in 1..1 |-> name[i]]
          BY <5>1, <5>4, Zenon
        <5>6. \A i \in 1..1 : name[i] = one[i]
          BY <5>2
        <5>7. name = one
          BY <5>2, <5>5, <5>6
        <5> QED BY <5>7 DEF one
      <4>2. name[1] = StateDir => name = <<StateDir>>
        BY <4>1
      <4>3. name = <<StateDir>> => name[1] = StateDir
        BY <3>1, Zenon
      <4> QED BY <4>2, <4>3
    <3> QED BY <3>2, <3>3, Zenon
  <2> QED BY <2>2, <2>3, <2>4, <2>5, <2>6, Zenon DEF ValidatePath, Named, OutsideState
<1> QED BY <1>1, NameAlwaysHolds, PTL

-----------------------------------------------------------------------------
(* Manifests.                                                               *)

\* What may have become of the manifest sent: no rot moves a file of the list
\* to another place or gives an ID another value that is a hash.
ManifestHolds ==
  LET n == New(sent.base, sent.target)
  IN  /\ sent \in Sent
      /\ rots \in Nat /\ (rots = 0 => carried = n)
      /\ carried = [base |-> carried.base, targetCursor |-> carried.targetCursor,
                    changes |-> carried.changes, id |-> carried.id,
                    files |-> carried.files]
      /\ carried.id \in {n.id, Wrong, Malformed}
      /\ carried.files \in [DOMAIN n.files -> FileLine] \cup {<<>>}

\* The list of a snapshot names each file at its own place.
LEMMA FilesOfType ==
  ASSUME NEW s \in Snapshots
  PROVE  /\ DOMAIN FilesOf(s) = {y \in Path : s[y] # Absent} /\ DOMAIN FilesOf(s) \subseteq Path
         /\ FilesOf(s) \in [DOMAIN FilesOf(s) -> FileLine]
         /\ \A x \in DOMAIN FilesOf(s) : /\ FilesOf(s)[x] = [path |-> x, entry |-> s[x]]
                                        /\ FilesOf(s)[x].path = x
<1> DEFINE G == FilesOf(s)
<1>1. DOMAIN G = {y \in Path : s[y] # Absent}
  BY DEF FilesOf
<1>2. \A x \in DOMAIN G : G[x] = [path |-> x, entry |-> s[x]]
  BY DEF FilesOf
<1>3. \A x \in DOMAIN G : x \in Path /\ s[x] \in Entry
  BY <1>1 DEF Snapshots
<1>4. \A x \in DOMAIN G : G[x] \in FileLine
  BY <1>2, <1>3 DEF FileLine
<1>5. G = [x \in DOMAIN G |-> G[x]]
  BY DEF FilesOf
<1>6. \A x \in DOMAIN G : G[x].path = x
  BY <1>2
<1> QED BY <1>1, <1>2, <1>3, <1>4, <1>5, <1>6, Zenon

\* What an ID says: it is no damaged one, and it tells which lines are there.
LEMMA ComputeIDTells ==
  ASSUME NEW D, D \subseteq Path, NEW F \in [D -> FileLine]
  PROVE  /\ ComputeID(F) \in [FileLine -> Nat]
         /\ \A f \in FileLine : ComputeID(F)[f] # 0 <=> \E x \in D : F[x] = f
<1> DEFINE At(f) == {x \in DOMAIN F : F[x] = f}
<1>1. ASSUME NEW f \in FileLine PROVE IsFiniteSet(At(f))
  BY PathAssumption, FS_Subset
<1>2. ASSUME NEW f \in FileLine
      PROVE  Cardinality(At(f)) \in Nat /\ (Cardinality(At(f)) = 0 <=> At(f) = {})
  BY <1>1, FS_CardinalityType, FS_EmptySet
<1>3. \A f \in FileLine : At(f) # {} <=> \E x \in D : F[x] = f
  OBVIOUS
<1>4. ComputeID(F) = [f \in FileLine |-> Cardinality(At(f))]
  BY DEF ComputeID
<1> HIDE DEF At
<1> QED BY <1>2, <1>3, <1>4

\* Two lists with the same places and the same lines, in order, are the same,
\* if one of them names each file at its own place.
LEMMA OrderedListsAgree ==
  ASSUME NEW D, D \subseteq Path, NEW F \in [D -> FileLine], NEW G \in [D -> FileLine],
         \A x \in D : G[x].path = x,
         Canonical(F), Range(F) = Range(G)
  PROVE  F = G
<1> DEFINE at(x) == F[x].path
<1>1. ASSUME NEW x \in D PROVE at(x) \in D /\ F[x] = G[at(x)]
  <2>1. F[x] \in Range(G)
    BY DEF Range
  <2>2. PICK y \in D : F[x] = G[y]
    BY <2>1 DEF Range
  <2> QED BY <2>2
<1>2. ASSUME NEW x \in D PROVE \E w \in D : at(w) = x
  <2>1. G[x] \in Range(F)
    BY DEF Range
  <2>2. PICK w \in D : F[w] = G[x]
    BY <2>1 DEF Range
  <2> QED BY <2>2
<1>3. \A x, y \in D : Rank[x] < Rank[y] => Rank[at(x)] < Rank[at(y)]
  BY DEF Canonical
<1>4. \A x \in D : Rank[x] \in Nat
  BY RankAssumption
<1>5. \A x, y \in D : Rank[x] = Rank[y] => x = y
  BY RankAssumption
<1> HIDE DEF at
<1>6. \A x \in D : at(x) = x
  <2> SUFFICES ASSUME \E x \in D : at(x) # x PROVE FALSE
    OBVIOUS
  <2> DEFINE T == {Rank[x] : x \in {y \in D : at(y) # y}}
  <2>1. T \in SUBSET Nat /\ T # {}
    BY <1>4
  <2>2. PICK n \in T : \A m \in T : n =< m
    BY <2>1, LeastNumber
  <2>3. PICK x \in D : at(x) # x /\ Rank[x] = n
    BY <2>2
  <2>4. \A y \in D : at(y) # y => Rank[x] =< Rank[y]
    BY <2>2, <2>3
  <2> HIDE DEF T
  <2>5. at(x) \in D
    BY <1>1
  <2>6. CASE Rank[at(x)] < Rank[x]
    <3>1. at(at(x)) = at(x)
      BY <1>4, <2>4, <2>5, <2>6
    <3>2. Rank[at(at(x))] < Rank[at(x)]
      BY <1>3, <2>5, <2>6
    <3> QED BY <1>4, <2>5, <3>1, <3>2
  <2>7. CASE Rank[x] < Rank[at(x)]
    <3>1. PICK w \in D : at(w) = x
      BY <1>2
    <3>2. ~ (Rank[w] < Rank[x])
      BY <1>4, <2>3, <2>4, <3>1
    <3>3. Rank[x] < Rank[w]
      BY <1>4, <1>5, <2>3, <3>1, <3>2
    <3>4. Rank[at(x)] < Rank[x]
      BY <1>3, <3>1, <3>3
    <3> QED BY <1>4, <2>5, <2>7, <3>4
  <2> QED BY <1>4, <1>5, <2>3, <2>5, <2>6, <2>7
<1>7. \A x \in D : F[x] = G[x]
  BY <1>1, <1>6
<1> QED BY <1>7

LEMMA ManifestHoldsInit ==
  ASSUME Sent \subseteq Bundle, InputsInit PROVE ManifestHolds
<1> DEFINE n == New(sent.base, sent.target)
<1>1. sent \in Sent /\ carried = n /\ rots = 0 /\ sent.target \in Snapshots
  BY DEF InputsInit, Bundle
<1>2. n.files \in [DOMAIN n.files -> FileLine]
  BY <1>1, FilesOfType DEF New
<1>3. n = [base |-> n.base, targetCursor |-> n.targetCursor, changes |-> n.changes,
           id |-> n.id, files |-> n.files]
  BY DEF New
<1> HIDE DEF n
<1> QED BY <1>1, <1>2, <1>3 DEF ManifestHolds, n

\* What one damaged place does to the ID and the list of files.
LEMMA RottenKeeps ==
  ASSUME NEW m, NEW D,
         m = [base |-> m.base, targetCursor |-> m.targetCursor, changes |-> m.changes,
              id |-> m.id, files |-> m.files],
         m.files \in [D -> FileLine] \cup {<<>>},
         NEW r \in Rotten(m)
  PROVE  /\ r = [base |-> r.base, targetCursor |-> r.targetCursor, changes |-> r.changes,
                 id |-> r.id, files |-> r.files]
         /\ r.id \in {m.id, Wrong, Malformed}
         /\ r.files \in [D -> FileLine] \cup {<<>>}
<1> DEFINE R1 == {[m EXCEPT !.base = h] : h \in {Wrong, Malformed}}
           R2 == {[m EXCEPT !.targetCursor = h] : h \in {Wrong, Malformed}}
           R3 == {[m EXCEPT !.id = h] : h \in {Wrong, Malformed}}
           R4 == UNION {{[m EXCEPT !.files[x] = f] : f \in RottenFile(m.files[x])} :
                          x \in DOMAIN m.files}
           R5 == {[m EXCEPT !.files = <<>>]}
           R6 == UNION {{[m EXCEPT !.changes[x] = l] : l \in RottenLine(m.changes[x])} :
                          x \in DOMAIN m.changes}
           R7 == {[m EXCEPT !.changes = Without(@, kind)] : kind \in {"added", "modified", "deleted"}}
<1>1. Rotten(m) = R1 \cup R2 \cup R3 \cup R4 \cup R5 \cup R6 \cup R7
  BY DEF Rotten
<1> DEFINE Good == /\ r = [base |-> r.base, targetCursor |-> r.targetCursor, changes |-> r.changes,
                           id |-> r.id, files |-> r.files]
                   /\ r.id \in {m.id, Wrong, Malformed}
                   /\ r.files \in [D -> FileLine] \cup {<<>>}
<1>2. r \in R1 \cup R2 \cup R3 => Good
  OBVIOUS
<1>3. r \in R4 => Good
  <2> SUFFICES ASSUME NEW x \in DOMAIN m.files, NEW f \in RottenFile(m.files[x]),
                      r = [m EXCEPT !.files[x] = f]
               PROVE  Good
    OBVIOUS
  <2>1. m.files \in [D -> FileLine] /\ x \in D
    OBVIOUS
  <2>2. f \in FileLine
    BY <2>1 DEF RottenFile, FileLine
  <2>3. r = [m EXCEPT !.files = [m.files EXCEPT ![x] = f]]
    OBVIOUS
  <2>4. [m.files EXCEPT ![x] = f] \in [D -> FileLine]
    BY <2>1, <2>2
  <2> QED BY <2>3, <2>4
<1>4. r \in R5 => Good
  OBVIOUS
<1>5. r \in R6 => Good
  OBVIOUS
<1>6. r \in R7 => Good
  OBVIOUS
<1> HIDE DEF R1, R2, R3, R4, R5, R6, R7, Good
<1>7. Good
  BY <1>1, <1>2, <1>3, <1>4, <1>5, <1>6
<1> QED BY <1>7 DEF Good

LEMMA ManifestHoldsNext == ASSUME ManifestHolds, [InputsNext]_ivars PROVE ManifestHolds'
<1>1. CASE UNCHANGED <<sent, carried, rots>>
  BY <1>1, Zenon DEF ManifestHolds
<1>2. CASE Rot
  <2> DEFINE n == New(sent.base, sent.target)
  <2>1. /\ sent \in Sent /\ rots \in Nat
        /\ carried = [base |-> carried.base, targetCursor |-> carried.targetCursor,
                      changes |-> carried.changes, id |-> carried.id,
                      files |-> carried.files]
        /\ carried.id \in {n.id, Wrong, Malformed}
        /\ carried.files \in [DOMAIN n.files -> FileLine] \cup {<<>>}
    BY Zenon DEF ManifestHolds
  <2>2. rots' = rots + 1 /\ carried' \in Rotten(carried) /\ sent' = sent
    BY <1>2 DEF Rot
  <2>3. /\ carried' = [base |-> carried'.base, targetCursor |-> carried'.targetCursor,
                       changes |-> carried'.changes, id |-> carried'.id,
                       files |-> carried'.files]
        /\ carried'.id \in {carried.id, Wrong, Malformed}
        /\ carried'.files \in [DOMAIN n.files -> FileLine] \cup {<<>>}
    <3> HIDE DEF n
    <3> QED BY <2>1, <2>2, RottenKeeps
  <2>4. carried'.id \in {n.id, Wrong, Malformed}
    BY <2>1, <2>3
  <2>5. rots' \in Nat /\ rots' # 0
    BY <2>1, <2>2
  <2> QED BY <2>1, <2>2, <2>3, <2>4, <2>5 DEF ManifestHolds
<1>3. UNCHANGED <<sent, carried, rots>> \/ Rot
  BY DEF InputsNext, AddLine, AddToken, AddElement, ivars
<1> QED BY <1>1, <1>2, <1>3

LEMMA ManifestAlwaysHolds == ASSUME InputsAssumption PROVE InputsSpec => []ManifestHolds
<1>1. InputsInit => ManifestHolds
  BY ManifestHoldsInit DEF InputsAssumption
<1>2. ManifestHolds /\ [InputsNext]_ivars => ManifestHolds'
  BY ManifestHoldsNext
<1> QED BY <1>1, <1>2, PTL DEF InputsSpec

\* What New makes is what Validate asks for.
LEMMA NewIsValid ==
  ASSUME NEW base \in Snapshots, NEW target \in Snapshots
  PROVE  Validate(New(base, target))
<1> DEFINE n == New(base, target)
           G == FilesOf(target)
           c == Compute(base, target)
<1>1. /\ n.base = ComputeID(FilesOf(base)) /\ n.targetCursor = ComputeID(G)
      /\ n.id = ComputeID(G) /\ n.files = G /\ n.changes = ChangesOf(base, target)
  BY DEF New
<1>2. /\ DOMAIN G = {y \in Path : target[y] # Absent} /\ DOMAIN G \subseteq Path
      /\ G \in [DOMAIN G -> FileLine]
      /\ \A x \in DOMAIN G : G[x] = [path |-> x, entry |-> target[x]] /\ G[x].path = x
  BY FilesOfType, Zenon
<1>3. n.base # Malformed /\ n.targetCursor # Malformed
  <2>1. ComputeID(G) \in [FileLine -> Nat]
    BY <1>2, ComputeIDTells
  <2>2. FilesOf(base) \in [DOMAIN FilesOf(base) -> FileLine] /\ DOMAIN FilesOf(base) \subseteq Path
    BY FilesOfType
  <2>3. ComputeID(FilesOf(base)) \in [FileLine -> Nat]
    BY <2>2, ComputeIDTells
  <2> QED BY <1>1, <2>1, <2>3, RotAssumption
<1>4. Canonical(G)
  <2> HIDE DEF G
  <2>1. \A x \in DOMAIN G : G[x].path = x
    BY <1>2, Zenon
  <2>2. BadPath \notin DOMAIN G
    BY <1>2, RotAssumption
  <2> QED BY <2>1, <2>2, Zenon DEF Canonical
<1>5. /\ c.added = {x \in Path : base[x] = Absent /\ target[x] # Absent}
      /\ c.modified \subseteq {x \in Path : base[x] # Absent /\ target[x] # Absent}
      /\ c.deleted = {x \in Path : base[x] # Absent /\ target[x] = Absent}
  BY DEF Compute
<1> DEFINE line(x) ==
      [kind  |-> CASE x \in c.added -> "added" [] x \in c.modified -> "modified"
                   [] OTHER -> "deleted",
       path  |-> x,
       entry |-> IF x \in c.deleted THEN NoEntry ELSE target[x],
       old   |-> IF x \in c.added THEN NoEntry ELSE base[x].sha]
<1>6. n.changes = [x \in Touched(c) |-> line(x)]
  BY <1>1, Zenon DEF ChangesOf
<1>7. Touched(c) = c.added \cup c.modified \cup c.deleted
  BY DEF Touched, PayloadFiles
<1> HIDE DEF n, G, c
<1>8. ASSUME NEW x \in Touched(c)
      PROVE  line(x).path = x /\ x # BadPath /\ Agrees(line(x), G)
  <2>1. x \in Path /\ x # BadPath
    BY <1>5, <1>7, RotAssumption
  <2>2. line(x).kind # "deleted" => [path |-> x, entry |-> line(x).entry] \in Range(G)
    <3> SUFFICES ASSUME line(x).kind # "deleted" PROVE [path |-> x, entry |-> line(x).entry] \in Range(G)
      OBVIOUS
    <3>1. x \in DOMAIN G /\ x \notin c.deleted
      BY <1>2, <1>5, <1>7, <2>1
    <3>2. G[x] = [path |-> x, entry |-> line(x).entry]
      BY <1>2, <3>1
    <3> QED BY <3>1, <3>2, Zenon DEF Range
  <2>3. line(x).kind # "added" => line(x).old # Malformed
    <3> SUFFICES ASSUME line(x).kind # "added" PROVE line(x).old # Malformed
      OBVIOUS
    <3>1. x \notin c.added /\ base[x] \in Entry
      BY <1>5, <1>7, <2>1 DEF Snapshots
    <3>2. line(x).old = base[x].sha /\ base[x].sha \in Sha
      BY <3>1 DEF Entry
    <3> QED BY <3>2, RotAssumption
  <2>4. line(x).kind = "deleted" => \A f \in Range(G) : f.path # x
    <3> SUFFICES ASSUME line(x).kind = "deleted", NEW y \in DOMAIN G PROVE G[y].path # x
      BY Zenon DEF Range
    <3>1. x \notin DOMAIN G
      BY <1>2, <1>5, <1>7, <2>1
    <3>2. G[y].path = y
      BY <1>2, Zenon
    <3> QED BY <3>1, <3>2, Zenon
  <2>5. line(x).path = x
    OBVIOUS
  <2> HIDE DEF line
  <2> QED BY <2>1, <2>2, <2>3, <2>4, <2>5, Zenon DEF Agrees
<1> HIDE DEF line
<1>9. ChangesHold(n)
  <2>1. ASSUME NEW l \in Range(n.changes) PROVE l.path # BadPath /\ Agrees(l, n.files)
    <3>1. PICK x \in Touched(c) : l = line(x)
      BY <1>6 DEF Range
    <3> QED BY <1>1, <1>8, <3>1, Zenon
  <2>2. ASSUME NEW x \in DOMAIN n.changes, NEW y \in DOMAIN n.changes,
               n.changes[x].path = n.changes[y].path
        PROVE  x = y
    BY <1>6, <1>8, <2>2
  <2> QED BY <2>1, <2>2, Zenon DEF ChangesHold
<1> QED BY <1>1, <1>3, <1>4, <1>9 DEF Validate, n

\* Whatever rots in a manifest, one that is accepted lists the files sent.
LEMMA AcceptedFiles ==
  ASSUME InputsAssumption, ManifestHolds, Accepted,
         NEW n, n = New(sent.base, sent.target)
  PROVE  carried.files = n.files /\ carried.id = n.id /\ carried.targetCursor = n.id
<1> DEFINE F == carried.files
           G == FilesOf(sent.target)
<1>1. /\ sent.target \in Snapshots
      /\ carried.id \in {n.id, Wrong, Malformed}
      /\ F \in [DOMAIN n.files -> FileLine] \cup {<<>>}
  BY DEF ManifestHolds, InputsAssumption, Bundle
<1>2. n.id = ComputeID(G) /\ n.files = G
  BY DEF New
<1>3. /\ DOMAIN G \subseteq Path /\ G \in [DOMAIN G -> FileLine]
      /\ \A x \in DOMAIN G : G[x].path = x
  BY <1>1, FilesOfType
<1>4. Canonical(F) /\ ComputeID(F) = carried.id /\ carried.targetCursor = carried.id
  BY Zenon DEF Accepted, Verify, Validate
<1> HIDE DEF F, G
<1>5. F \in [DOMAIN F -> FileLine] /\ DOMAIN F \in {DOMAIN G, {}}
  <2>1. CASE F \in [DOMAIN n.files -> FileLine]
    BY <1>2, <2>1
  <2>2. CASE F = <<>>
    BY <2>2
  <2> QED BY <1>1, <2>1, <2>2
<1>6. DOMAIN F \subseteq Path
  BY <1>3, <1>5
<1>7. ComputeID(F) \in [FileLine -> Nat] /\ ComputeID(G) \in [FileLine -> Nat]
  BY <1>3, <1>5, <1>6, ComputeIDTells
<1>8. carried.id = n.id /\ ComputeID(F) = ComputeID(G)
  BY <1>1, <1>2, <1>4, <1>7, RotAssumption
<1>9. Range(F) = Range(G)
  <2>1. \A f \in FileLine : ComputeID(F)[f] # 0 <=> \E x \in DOMAIN F : F[x] = f
    BY <1>5, <1>6, ComputeIDTells, Zenon
  <2>2. \A f \in FileLine : ComputeID(G)[f] # 0 <=> \E x \in DOMAIN G : G[x] = f
    BY <1>3, ComputeIDTells, Zenon
  <2>3. \A f \in FileLine : (\E x \in DOMAIN F : F[x] = f) <=> (\E x \in DOMAIN G : G[x] = f)
    BY <1>8, <2>1, <2>2, Zenon
  <2>4. Range(F) \subseteq FileLine /\ Range(G) \subseteq FileLine
    BY <1>3, <1>5 DEF Range
  <2>5. \A f \in FileLine : f \in Range(F) <=> f \in Range(G)
    BY <2>3 DEF Range
  <2> QED BY <2>4, <2>5
<1>10. F = G
  <2>1. CASE DOMAIN F = DOMAIN G
    BY <1>3, <1>4, <1>5, <1>9, <2>1, OrderedListsAgree
  <2>2. CASE DOMAIN F = {}
    <3>1. Range(F) = {}
      BY <2>2 DEF Range
    <3>2. DOMAIN G = {}
      BY <1>9, <3>1 DEF Range
    <3> QED BY <1>3, <1>5, <2>2, <3>2
  <2> QED BY <1>5, <2>1, <2>2
<1> QED BY <1>2, <1>4, <1>8, <1>10 DEF F

\* What an accepted manifest says of a file is what the target says.
LEMMA AcceptedLine ==
  ASSUME InputsAssumption, ManifestHolds, Accepted, NEW l \in Range(carried.changes)
  PROVE  /\ l.kind # "deleted" =>
              l.path \in Path /\ sent.target[l.path] # Absent /\ l.entry = sent.target[l.path]
         /\ l.kind = "deleted" /\ l.path \in Path => sent.target[l.path] = Absent
<1> DEFINE n == New(sent.base, sent.target)
           G == FilesOf(sent.target)
           x == l.path
<1>1. carried.files = n.files
  BY AcceptedFiles
<1>2. n.files = G
  BY DEF New
<1>3. Agrees(l, G)
  <2>1. Agrees(l, carried.files)
    BY Zenon DEF Accepted, Verify, Validate, ChangesHold
  <2> QED BY <1>1, <1>2, <2>1
<1>4. /\ sent.target \in Snapshots
  BY DEF ManifestHolds, InputsAssumption, Bundle
<1>5. /\ DOMAIN G = {y \in Path : sent.target[y] # Absent}
      /\ \A y \in DOMAIN G : G[y] = [path |-> y, entry |-> sent.target[y]] /\ G[y].path = y
  BY <1>4, FilesOfType, Zenon
<1> HIDE DEF n, G
<1>6. ASSUME l.kind # "deleted"
      PROVE  x \in Path /\ sent.target[x] # Absent /\ l.entry = sent.target[x]
  <2>1. [path |-> x, entry |-> l.entry] \in Range(G)
    BY <1>3, <1>6, Zenon DEF Agrees
  <2>2. PICK y \in DOMAIN G : [path |-> x, entry |-> l.entry] = G[y]
    BY <2>1 DEF Range
  <2>3. [path |-> x, entry |-> l.entry] = [path |-> y, entry |-> sent.target[y]]
    BY <1>5, <2>2, Zenon
  <2>4. x = y /\ l.entry = sent.target[y]
    BY <2>3
  <2> QED BY <1>5, <2>2, <2>4
<1>7. ASSUME l.kind = "deleted", x \in Path PROVE sent.target[x] = Absent
  <2>1. \A f \in Range(G) : f.path # x
    BY <1>3, <1>7, Zenon DEF Agrees
  <2>2. x \notin DOMAIN G
    BY <1>5, <2>1, Zenon DEF Range
  <2> QED BY <1>5, <1>7, <2>2
<1> QED BY <1>6, <1>7

\* Of any bundle, and any number of damaged places: what pack made verifies,
\* and what verifies lists the files and the payload that were sent.
THEOREM VerifyAlwaysProves == InputsSpec => []VerifyProves
<1>1. ManifestHolds => VerifyProves
  <2> SUFFICES ASSUME ManifestHolds PROVE VerifyProves
    OBVIOUS
  <2> DEFINE n == New(sent.base, sent.target)
             payload(c) == {<<l.path, l.entry>> : l \in Landed(c)}
  <2>1. rots = 0 => Accepted
    <3>1. sent.base \in Snapshots /\ sent.target \in Snapshots
      BY InputsAssumption DEF ManifestHolds, Bundle
    <3>2. Validate(n)
      BY <3>1, NewIsValid
    <3>3. rots = 0 => carried = n
      BY DEF ManifestHolds
    <3> HIDE DEF n
    <3>4. Validate(n) => Verify(n, Listed(n))
      BY Zenon DEF Verify
    <3> QED BY <3>2, <3>3, <3>4, Zenon DEF Accepted, n
  <2>2. ASSUME Accepted
        PROVE  carried.files = n.files /\ carried.id = n.id /\ carried.targetCursor = n.targetCursor
    <3>1. n.targetCursor = n.id
      BY DEF New
    <3>2. carried.files = n.files /\ carried.id = n.id /\ carried.targetCursor = n.id
      BY <2>2, AcceptedFiles, InputsAssumption
    <3> QED BY <3>1, <3>2
  <2>3. ASSUME Accepted PROVE payload(carried) = payload(n)
    <3>1. \A l \in Landed(carried) : l.entry = sent.target[l.path]
      BY <2>3, AcceptedLine, InputsAssumption, Zenon DEF Landed
    <3>2. \A l \in Landed(n) : l.entry = sent.target[l.path]
      <4>1. \A l \in Range(n.changes) : l.kind # "deleted" => l.entry = sent.target[l.path]
        <5> DEFINE c == Compute(sent.base, sent.target)
        <5>1. c.added \cap c.deleted = {} /\ c.modified \cap c.deleted = {}
          BY DEF Compute
        <5>2. n.changes = ChangesOf(sent.base, sent.target)
          BY DEF New
        <5> HIDE DEF n
        <5>3. SUFFICES ASSUME NEW x \in DOMAIN n.changes, n.changes[x].kind # "deleted"
                       PROVE  n.changes[x].entry = sent.target[n.changes[x].path]
          BY Zenon DEF Range
        <5>4. n.changes[x] =
                [kind  |-> CASE x \in c.added -> "added" [] x \in c.modified -> "modified"
                             [] OTHER -> "deleted",
                 path  |-> x,
                 entry |-> IF x \in c.deleted THEN NoEntry ELSE sent.target[x],
                 old   |-> IF x \in c.added THEN NoEntry ELSE sent.base[x].sha]
          BY <5>2 DEF ChangesOf
        <5> HIDE DEF c
        <5>5. x \in c.added \cup c.modified
          BY <5>3, <5>4
        <5> QED BY <5>1, <5>4, <5>5
      <4> QED BY <4>1, Zenon DEF Landed
    <3>3. Listed(carried) = Listed(n)
      BY <2>3, Zenon DEF Accepted, Verify
    <3> HIDE DEF n
    <3>4. ASSUME NEW c, NEW d, Listed(c) = Listed(d),
                 \A l \in Landed(c) : l.entry = sent.target[l.path],
                 \A l \in Landed(d) : l.entry = sent.target[l.path]
          PROVE  payload(c) \subseteq payload(d)
      <4> SUFFICES ASSUME NEW l \in Landed(c) PROVE <<l.path, l.entry>> \in payload(d)
        OBVIOUS
      <4>1. [path |-> l.path, sha |-> l.entry.sha] \in Listed(d)
        BY <3>4 DEF Listed
      <4>2. PICK k \in Landed(d) :
              [path |-> l.path, sha |-> l.entry.sha] = [path |-> k.path, sha |-> k.entry.sha]
        BY <4>1 DEF Listed
      <4>3. l.path = k.path
        BY <4>2
      <4>4. l.entry = k.entry
        BY <3>4, <4>3, Zenon
      <4> QED BY <4>3, <4>4
    <3> HIDE DEF payload
    <3>5. payload(carried) \subseteq payload(n)
      BY <3>1, <3>2, <3>3, <3>4, Zenon
    <3>6. Listed(n) = Listed(carried)
      BY <3>3
    <3>7. payload(n) \subseteq payload(carried)
      BY <3>1, <3>2, <3>4, <3>6, Zenon
    <3> QED BY <3>5, <3>7
  <2> QED BY <2>1, <2>2, <2>3, Zenon DEF VerifyProves, n, payload
<1> QED BY <1>1, ManifestAlwaysHolds, InputsAssumption, PTL

\* Of any bundle, and any number of damaged places: what verifies leaves every
\* file as it was or as it was sent, even where it lands by force.
THEOREM OldOrNewHolds == InputsSpec => []OldOrNew
<1>1. ManifestHolds => OldOrNew
  <2> SUFFICES ASSUME ManifestHolds, Accepted, NEW x \in Path
               PROVE  Land(carried, sent.base)[x] \in {sent.base[x], sent.target[x]}
    BY DEF OldOrNew
  <2> DEFINE here == {l \in Range(carried.changes) : l.path = x}
  <2>1. Land(carried, sent.base)[x] =
          IF here = {} THEN sent.base[x]
          ELSE IF \E l \in here : l.kind = "deleted" THEN Absent
          ELSE (CHOOSE l \in here : l.kind # "deleted").entry
    BY DEF Land
  <2>2. ASSUME NEW l \in here
        PROVE  /\ l.kind # "deleted" => l.entry = sent.target[x]
               /\ l.kind = "deleted" => sent.target[x] = Absent
    <3>1. l \in Range(carried.changes) /\ l.path = x
      OBVIOUS
    <3> HIDE DEF here
    <3> QED BY <3>1, AcceptedLine, InputsAssumption
  <2> HIDE DEF here
  <2>3. CASE here = {}
    BY <2>1, <2>3, Zenon
  <2>4. CASE \E l \in here : l.kind = "deleted"
    BY <2>1, <2>2, <2>4, Zenon
  <2>5. CASE here # {} /\ ~ \E l \in here : l.kind = "deleted"
    <3> DEFINE k == CHOOSE l \in here : l.kind # "deleted"
    <3>1. k \in here /\ k.kind # "deleted"
      BY <2>5
    <3> HIDE DEF k
    <3>2. k.entry = sent.target[x]
      BY <2>2, <3>1
    <3> QED BY <2>1, <2>5, <3>2, Zenon DEF k
  <2> QED BY <2>3, <2>4, <2>5
<1> QED BY <1>1, ManifestAlwaysHolds, InputsAssumption, PTL
=============================================================================
