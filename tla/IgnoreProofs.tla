---------------------------- MODULE IgnoreProofs ----------------------------
(* Facts about ignore files, for files of any length, patterns and paths of *)
(* any number of segments; and, first, what the proofs about any loop over  *)
(* a sequence need: induction on the number of turns, and that the loop has *)
(* a value after each turn.                                                 *)
EXTENDS Ignore, WellFoundedInduction, TLAPS

-----------------------------------------------------------------------------
(* Loops.                                                                   *)

\* A set of numbers that is not empty has a least one.
LEMMA LeastNumber ==
  ASSUME NEW T \in SUBSET Nat, T # {}
  PROVE  \E n \in T : \A m \in T : n =< m
<1> DEFINE R == OpToRel(<, Nat)
<1>1. IsWellFoundedOn(R, Nat)
  BY NatLessThanWellFounded
<1> HIDE DEF R
<1>2. PICK n \in T : \A m \in T : ~ (<<m, n>> \in R)
  BY <1>1, WFMin
<1>3. R = {ss \in Nat \X Nat : ss[1] < ss[2]}
  BY DEF R, OpToRel
<1>4. \A m \in T : m < n => <<m, n>> \in R
  BY <1>3
<1>5. \A m \in T : ~ (m < n) /\ m \in Nat /\ n \in Nat
  BY <1>2, <1>4
<1> QED BY <1>5

\* Induction up to L, for a set T of the numbers something holds for.
LEMMA Ladder ==
  ASSUME NEW L \in Nat, NEW T \in SUBSET (0..L), 0 \in T,
         \A n \in 1..L : n - 1 \in T => n \in T
  PROVE  \A n \in 0..L : n \in T
<1> SUFFICES ASSUME (0..L) \ T # {} PROVE FALSE
  OBVIOUS
<1> DEFINE U == (0..L) \ T
<1>0. U \in SUBSET Nat /\ U # {}
  OBVIOUS
<1> HIDE DEF U
<1>1. PICK n \in U : \A m \in U : n =< m
  BY <1>0, LeastNumber
<1> USE DEF U
<1>2. n \in 1..L /\ n - 1 \in 0..L /\ ~ (n =< n - 1)
  BY <1>1
<1>3. n - 1 \in T
  BY <1>1, <1>2
<1> QED BY <1>1, <1>2, <1>3

\* Two loops that agree at the start, and in each turn if they did before it,
\* agree throughout.
LEMMA LoopsAgree ==
  ASSUME NEW L \in Nat, NEW f, NEW g, f[0] = g[0],
         \A n \in 1..L : f[n - 1] = g[n - 1] => f[n] = g[n]
  PROVE  \A n \in 0..L : f[n] = g[n]
<1> DEFINE T == {n \in 0..L : f[n] = g[n]}
<1>1. 0 \in T /\ \A n \in 1..L : n - 1 \in T => n \in T
  OBVIOUS
<1>2. \A n \in 0..L : n \in T
  BY <1>1, Ladder
<1> QED BY <1>2

\* f[n] is the state after n turns of the loop over p that begins with start
\* and takes the turns st.
Runs(f, S, start, st, p) ==
  /\ f \in [0..Len(p) -> S] /\ f[0] = start
  /\ \A n \in 1..Len(p) : f[n] = st[<<f[n - 1], p[n]>>]

\* A loop whose turns are a function has a state after each turn.
LEMMA LoopRuns ==
  ASSUME NEW S, NEW A, NEW start \in S, NEW st \in [S \X A -> S], NEW p \in Seq(A)
  PROVE  \E f : Runs(f, S, start, st, p)
<1> DEFINE Good(f, n) ==
             /\ f \in [0..n -> S] /\ f[0] = start
             /\ \A k \in 1..n : f[k] = st[<<f[k - 1], p[k]>>]
           T == {n \in 0..Len(p) : \E f : Good(f, n)}
<1>1. 0 \in T
  <2>1. Good([k \in 0..0 |-> start], 0)
    OBVIOUS
  <2>2. \E f : Good(f, 0)
    BY <2>1
  <2> HIDE DEF Good
  <2> QED BY <2>2
<1>2. ASSUME NEW n \in 1..Len(p), n - 1 \in T PROVE n \in T
  <2>1. PICK f : Good(f, n - 1)
    BY <1>2
  <2>2. f[n - 1] \in S /\ p[n] \in A
    BY <2>1
  <2> DEFINE g == [k \in 0..n |-> IF k = n THEN st[<<f[n - 1], p[n]>>] ELSE f[k]]
  <2>3. st[<<f[n - 1], p[n]>>] \in S
    BY <2>2
  <2>4. g \in [0..n -> S]
    BY <2>1, <2>3
  <2>5. g[0] = start
    BY <2>1
  <2>6. ASSUME NEW k \in 1..n PROVE g[k] = st[<<g[k - 1], p[k]>>]
    <3>1. g[k - 1] = f[k - 1]
      BY <2>6
    <3>2. CASE k = n
      <4>1. g[k] = st[<<f[n - 1], p[n]>>]
        BY <3>2
      <4> QED BY <3>1, <3>2, <4>1
    <3>3. CASE k # n
      <4>1. k \in 1..(n - 1) /\ g[k] = f[k]
        BY <3>3
      <4> QED BY <3>1, <4>1, <2>1
    <3> QED BY <3>2, <3>3
  <2>7. Good(g, n)
    BY <2>4, <2>5, <2>6
  <2> HIDE DEF g, Good
  <2> QED BY <2>7
<1>3. Len(p) \in T
  <2> HIDE DEF T
  <2>1. \A n \in 1..Len(p) : n - 1 \in T => n \in T
    BY <1>2
  <2>2. T \subseteq 0..Len(p)
    BY DEF T
  <2>3. Len(p) \in Nat /\ Len(p) \in 0..Len(p)
    OBVIOUS
  <2> QED BY <1>1, <2>1, <2>2, <2>3, Ladder
<1>4. PICK f : Good(f, Len(p))
  BY <1>3
<1> QED BY <1>4 DEF Runs

-----------------------------------------------------------------------------
(* Reading an ignore file.                                                  *)

Patterns ==
  [segments : Seq(Seg) \ {<<>>}, negate : BOOLEAN, dirOnly : BOOLEAN,
   anchored : BOOLEAN]

Readings == [patterns : Seq(Patterns), at : {"scan", "end", "bad"}]

\* What Parse makes of a line is a pattern, and one without a slash in it has
\* one segment.
LEMMA PatternType ==
  ASSUME NEW l \in Line
  PROVE  /\ Pattern(l) \in Patterns
         /\ ~ Pattern(l).anchored => Len(Pattern(l).segments) =< 1
<1> DEFINE body == Unended(l.segs)
           segments == Unrooted(body)
<1>1. l.segs \in Seq(Seg) /\ l.segs # <<>>
  BY DEF Line
<1>2. body \in Seq(Seg) /\ Len(body) > 0
  BY <1>1 DEF Unended, TrailingSlash
<1> HIDE DEF body
<1>3. segments \in Seq(Seg) /\ Len(segments) > 0
  BY <1>2 DEF Unrooted, LeadingSlash
<1>4. segments # <<>>
  BY <1>3
<1> HIDE DEF segments
<1>5. Pattern(l) = [segments |-> segments, negate |-> l.mark = "!",
                    dirOnly |-> TrailingSlash(l.segs),
                    anchored |-> LeadingSlash(body) \/ Len(segments) > 1]
  BY DEF Pattern, body, segments
<1>6. /\ (l.mark = "!") \in BOOLEAN /\ TrailingSlash(l.segs) \in BOOLEAN
      /\ (LeadingSlash(body) \/ Len(segments) > 1) \in BOOLEAN
  BY DEF TrailingSlash
<1>7. ASSUME ~ Pattern(l).anchored PROVE Len(Pattern(l).segments) =< 1
  <2>1. /\ Pattern(l).anchored = (LeadingSlash(body) \/ Len(segments) > 1)
        /\ Pattern(l).segments = segments
    BY <1>5
  <2>2. ~ (Len(segments) > 1)
    BY <1>7, <2>1, Zenon
  <2>3. Len(segments) \in Nat
    BY <1>3
  <2>4. Len(segments) =< 1
    BY <1>3, <2>2, <2>3
  <2> QED BY <2>1, <2>4, Zenon
<1> QED BY <1>3, <1>4, <1>5, <1>6, <1>7 DEF Patterns

\* One turn of the loop keeps what is read a list of patterns.
LEMMA ReadLineType ==
  ASSUME NEW r \in Readings, NEW l \in Line PROVE ReadLine(r, l) \in Readings
<1>1. Append(r.patterns, Pattern(l)) \in Seq(Patterns)
  BY PatternType DEF Readings
<1> QED BY <1>1 DEF ReadLine, Readings

\* What has been read after each line.
LEMMA ReadingLoop ==
  ASSUME NEW file \in Seq(Line)
  PROVE  /\ Reading(file) \in [0..Len(file) -> Readings]
         /\ Reading(file)[0] = [patterns |-> <<>>, at |-> "scan"]
         /\ \A n \in 1..Len(file) :
              Reading(file)[n] = ReadLine(Reading(file)[n - 1], file[n])
<1> DEFINE start == [patterns |-> <<>>, at |-> "scan"]
           st == [q \in Readings \X Line |-> ReadLine(q[1], q[2])]
<1>1. st \in [Readings \X Line -> Readings]
  BY ReadLineType
<1>2. start \in Readings
  BY DEF Readings
<1>3. \A r \in Readings, l \in Line : st[<<r, l>>] = ReadLine(r, l)
  OBVIOUS
<1> HIDE DEF start, st
<1>4. PICK f : Runs(f, Readings, start, st, file)
  BY <1>1, <1>2, LoopRuns, Zenon
<1>5. f \in [0..Len(file) -> Readings] /\ f[0] = start
  BY <1>4 DEF Runs
<1>6. ASSUME NEW n \in 1..Len(file) PROVE f[n] = ReadLine(f[n - 1], file[n])
  <2>1. f[n - 1] \in Readings /\ file[n] \in Line
    BY <1>5
  <2>2. f[n] = st[<<f[n - 1], file[n]>>]
    BY <1>4, Zenon DEF Runs
  <2> QED BY <1>3, <2>1, <2>2
<1>7. f = [n \in 0..Len(file) |-> IF n = 0 THEN start ELSE ReadLine(f[n - 1], file[n])]
  BY <1>5, <1>6
<1>8. Reading(file) = [n \in 0..Len(file) |->
                         IF n = 0 THEN start ELSE ReadLine(Reading(file)[n - 1], file[n])]
  BY <1>7, Zenon DEF Reading, start
<1>9. /\ Reading(file)[0] = start
      /\ \A n \in 1..Len(file) :
           Reading(file)[n] = ReadLine(Reading(file)[n - 1], file[n])
  BY <1>8
<1>10. \A n \in 1..Len(file) : Reading(file)[n - 1] = f[n - 1] => Reading(file)[n] = f[n]
  BY <1>6, <1>9
<1>11. \A n \in 0..Len(file) : Reading(file)[n] = f[n]
  <2>1. Reading(file)[0] = f[0] /\ Len(file) \in Nat
    BY <1>5, <1>9
  <2> QED BY <1>10, <2>1, LoopsAgree, ZenonT(60)
<1>12. DOMAIN Reading(file) = 0..Len(file)
  BY <1>8
<1>13. Reading(file) = f
  BY <1>5, <1>8, <1>11, <1>12
<1> QED BY <1>5, <1>9, <1>13 DEF start

\* A line more is a turn more.
LEMMA ReadingGrows ==
  ASSUME NEW file \in Seq(Line), NEW l \in Line
  PROVE  /\ Reading(file)[Len(file)] \in Readings
         /\ Reading(Append(file, l))[Len(file) + 1]
              = ReadLine(Reading(file)[Len(file)], l)
<1> DEFINE more == Append(file, l)
           f == Reading(file)
           g == Reading(more)
           L == Len(file)
<1>1. L \in Nat /\ more \in Seq(Line) /\ Len(more) = L + 1
      /\ more[L + 1] = l /\ \A n \in 1..L : more[n] = file[n]
  OBVIOUS
<1>2. /\ f \in [0..L -> Readings] /\ f[0] = [patterns |-> <<>>, at |-> "scan"]
      /\ \A n \in 1..L : f[n] = ReadLine(f[n - 1], file[n])
  BY ReadingLoop
<1>3. /\ g[0] = [patterns |-> <<>>, at |-> "scan"]
      /\ \A n \in 1..(L + 1) : g[n] = ReadLine(g[n - 1], more[n])
  BY <1>1, ReadingLoop
<1> HIDE DEF more, f, g, L
<1>4. \A n \in 1..L : f[n - 1] = g[n - 1] => f[n] = g[n]
  BY <1>1, <1>2, <1>3
<1>5. \A n \in 0..L : f[n] = g[n]
  <2>1. f[0] = g[0] /\ L \in Nat
    BY <1>1, <1>2, <1>3
  <2> QED BY <1>4, <2>1, LoopsAgree, ZenonT(60)
<1>6. g[L + 1] = ReadLine(g[L], l)
  BY <1>1, <1>3
<1>7. f[L] = g[L] /\ f[L] \in Readings
  BY <1>1, <1>2, <1>5
<1> QED BY <1>6, <1>7 DEF more, f, g, L

-----------------------------------------------------------------------------
(* The loop of Match.                                                       *)

\* What Match has decided after each pattern.
LEMMA DecidedLoop ==
  ASSUME NEW ps \in Seq(Patterns), NEW x, NEW isDir
  PROVE  /\ Decided(ps, x, isDir)[0] = FALSE
         /\ \A n \in 1..Len(ps) :
              Decided(ps, x, isDir)[n] = Verdict(Decided(ps, x, isDir)[n - 1], ps[n], x, isDir)
<1> DEFINE st == [q \in BOOLEAN \X Patterns |-> Verdict(q[1], q[2], x, isDir)]
           d == Decided(ps, x, isDir)
<1>1. ASSUME NEW v \in BOOLEAN, NEW p \in Patterns PROVE Verdict(v, p, x, isDir) \in BOOLEAN
  <2>1. (~ p.negate) \in BOOLEAN
    OBVIOUS
  <2> QED BY <2>1, Zenon DEF Verdict
<1>2. st \in [BOOLEAN \X Patterns -> BOOLEAN]
  BY <1>1
<1>3. \A v \in BOOLEAN, p \in Patterns : st[<<v, p>>] = Verdict(v, p, x, isDir)
  OBVIOUS
<1> HIDE DEF st
<1>4. PICK f : Runs(f, BOOLEAN, FALSE, st, ps)
  <2>1. FALSE \in BOOLEAN
    OBVIOUS
  <2> QED BY <1>2, <2>1, LoopRuns, Zenon
<1>5. f \in [0..Len(ps) -> BOOLEAN] /\ f[0] = FALSE
  BY <1>4 DEF Runs
<1>6. ASSUME NEW n \in 1..Len(ps) PROVE f[n] = Verdict(f[n - 1], ps[n], x, isDir)
  <2>1. f[n - 1] \in BOOLEAN /\ ps[n] \in Patterns
    BY <1>5
  <2>2. f[n] = st[<<f[n - 1], ps[n]>>]
    BY <1>4, Zenon DEF Runs
  <2>3. st[<<f[n - 1], ps[n]>>] = Verdict(f[n - 1], ps[n], x, isDir)
    BY <1>3, <2>1, Zenon
  <2> QED BY <2>2, <2>3, Zenon
<1>7. f = [n \in 0..Len(ps) |-> IF n = 0 THEN FALSE ELSE Verdict(f[n - 1], ps[n], x, isDir)]
  <2>1. ASSUME NEW n \in 0..Len(ps)
        PROVE  f[n] = IF n = 0 THEN FALSE ELSE Verdict(f[n - 1], ps[n], x, isDir)
    <3>1. CASE n = 0
      BY <1>5, <3>1, Zenon
    <3>2. CASE n # 0
      <4>1. n \in 1..Len(ps)
        BY <3>2
      <4> QED BY <1>6, <3>2, <4>1, Zenon
    <3> QED BY <3>1, <3>2
  <2>2. f = [n \in 0..Len(ps) |-> f[n]]
    BY <1>5
  <2> QED BY <2>1, <2>2, Zenon
<1>8. d = [n \in 0..Len(ps) |-> IF n = 0 THEN FALSE ELSE Verdict(d[n - 1], ps[n], x, isDir)]
  BY <1>7, Zenon DEF Decided
<1> HIDE DEF d
<1>9. 0 \in 0..Len(ps) /\ \A n \in 1..Len(ps) : n \in 0..Len(ps) /\ n # 0
  OBVIOUS
<1>10. d[0] = FALSE /\ \A n \in 1..Len(ps) : d[n] = Verdict(d[n - 1], ps[n], x, isDir)
  BY <1>8, <1>9, Zenon
<1> QED BY <1>10, Zenon DEF d

\* A pattern more has the last word.
LEMMA MatchGrows ==
  ASSUME NEW ps \in Seq(Patterns), NEW p \in Patterns, NEW x, NEW isDir
  PROVE  Match(Append(ps, p), x, isDir) = Verdict(Match(ps, x, isDir), p, x, isDir)
<1> DEFINE more == Append(ps, p)
           f == Decided(ps, x, isDir)
           g == Decided(more, x, isDir)
           L == Len(ps)
<1>1. L \in Nat /\ more \in Seq(Patterns) /\ Len(more) = L + 1
      /\ more[L + 1] = p /\ \A n \in 1..L : more[n] = ps[n]
  OBVIOUS
<1>2. f[0] = FALSE /\ \A n \in 1..L : f[n] = Verdict(f[n - 1], ps[n], x, isDir)
  BY DecidedLoop, Zenon
<1>3. g[0] = FALSE /\ \A n \in 1..(L + 1) : g[n] = Verdict(g[n - 1], more[n], x, isDir)
  <2>1. g[0] = FALSE /\ \A n \in 1..Len(more) : g[n] = Verdict(g[n - 1], more[n], x, isDir)
    BY <1>1, DecidedLoop, Zenon
  <2> QED BY <1>1, <2>1, Zenon
<1>4. Match(ps, x, isDir) = f[L] /\ Match(more, x, isDir) = g[L + 1]
  BY <1>1, Zenon DEF Match
<1> HIDE DEF more, f, g, L
<1>5. \A n \in 1..L : f[n - 1] = g[n - 1] => f[n] = g[n]
  <2>1. \A n \in 1..L : n \in 1..(L + 1)
    BY <1>1
  <2> QED BY <1>1, <1>2, <1>3, <2>1, Zenon
<1>6. \A n \in 0..L : f[n] = g[n]
  <2>1. f[0] = g[0]
    BY <1>2, <1>3, Zenon
  <2>2. L \in Nat
    BY <1>1
  <2> QED BY <1>5, <2>1, <2>2, LoopsAgree, ZenonT(60)
<1>7. L \in 0..L /\ L + 1 \in 1..(L + 1) /\ (L + 1) - 1 = L
  BY <1>1
<1>8. g[L + 1] = Verdict(g[L], p, x, isDir)
  BY <1>1, <1>3, <1>7, Zenon
<1>9. f[L] = g[L]
  BY <1>6, <1>7, Zenon
<1> QED BY <1>4, <1>8, <1>9, Zenon DEF more

-----------------------------------------------------------------------------
(* The recursion of matchSegments, against cuts of the path.                *)

\* The k-th segment of pat faces what the cut leaves it.
Faces(pat, x, cut, k) ==
  IF pat[k] = Stars THEN cut[k - 1] =< cut[k]
  ELSE cut[k] = cut[k - 1] + 1 /\ x[cut[k]] \in Glob[pat[k]]

\* A cut of x from the name j on for pat from its segment i on.
CutFrom(pat, x, cut, i, j) ==
  /\ cut \in [0..Len(pat) -> 0..Len(x)]
  /\ cut[i - 1] = j - 1 /\ cut[Len(pat)] = Len(x)
  /\ \A k \in i..Len(pat) : Faces(pat, x, cut, k)

Places(pat, x, i) ==
  {j \in 1..(Len(x) + 1) : \E cut : CutFrom(pat, x, cut, i, j)}

\* Behind the last segment nothing may be left.
LEMMA PlacesEnd ==
  ASSUME NEW pat \in Seq(Seg), NEW x \in Seq(Name)
  PROVE  Places(pat, x, Len(pat) + 1) = {Len(x) + 1}
<1> DEFINE cut == [k \in 0..Len(pat) |-> Len(x)]
<1>1. cut \in [0..Len(pat) -> 0..Len(x)]
  OBVIOUS
<1>2. CutFrom(pat, x, cut, Len(pat) + 1, Len(x) + 1)
  BY <1>1 DEF CutFrom
<1>3. Len(x) + 1 \in Places(pat, x, Len(pat) + 1)
  <2> HIDE DEF cut
  <2> QED BY <1>2 DEF Places
<1>4. ASSUME NEW j \in Places(pat, x, Len(pat) + 1) PROVE j = Len(x) + 1
  BY DEF Places, CutFrom
<1> QED BY <1>3, <1>4

\* A cut from the next segment on serves from this one, when this one faces
\* what the cut, moved at one place, leaves it.
LEMMA CutBefore ==
  ASSUME NEW pat \in Seq(Seg), NEW x \in Seq(Name), NEW i \in 1..Len(pat),
         NEW j \in 1..(Len(x) + 1), NEW k \in Nat, NEW cut, CutFrom(pat, x, cut, i + 1, k),
         IF pat[i] = Stars THEN j =< k ELSE k = j + 1 /\ x[j] \in Glob[pat[i]]
  PROVE  \E c : CutFrom(pat, x, c, i, j)
<1> DEFINE c == [cut EXCEPT ![i - 1] = j - 1]
<1>1. cut \in [0..Len(pat) -> 0..Len(x)] /\ cut[i] = k - 1 /\ cut[Len(pat)] = Len(x)
  BY DEF CutFrom
<1>2. c \in [0..Len(pat) -> 0..Len(x)]
  BY <1>1
<1>3. \A n \in i..Len(pat) : c[n] = cut[n]
  BY <1>1
<1>4. c[i - 1] = j - 1 /\ c[i] = k - 1 /\ c[Len(pat)] = Len(x)
  BY <1>1, <1>3
<1> HIDE DEF c
<1>5. Faces(pat, x, c, i)
  <2>1. CASE pat[i] = Stars
    <3>1. j =< k
      BY <2>1
    <3> QED BY <1>4, <2>1, <3>1 DEF Faces
  <2>2. CASE pat[i] # Stars
    BY <1>4, <2>2 DEF Faces
  <2> QED BY <2>1, <2>2
<1>6. ASSUME NEW n \in (i + 1)..Len(pat) PROVE Faces(pat, x, c, n)
  <2>1. c[n - 1] = cut[n - 1] /\ c[n] = cut[n]
    BY <1>3
  <2>2. Faces(pat, x, cut, n)
    BY DEF CutFrom
  <2> QED BY <2>1, <2>2 DEF Faces
<1>7. \A n \in i..Len(pat) : Faces(pat, x, c, n)
  BY <1>5, <1>6
<1>8. CutFrom(pat, x, c, i, j)
  BY <1>2, <1>4, <1>7 DEF CutFrom
<1> QED BY <1>8

\* A ** may swallow any number of names.
LEMMA PlacesStars ==
  ASSUME NEW pat \in Seq(Seg), NEW x \in Seq(Name), NEW i \in 1..Len(pat), pat[i] = Stars
  PROVE  Places(pat, x, i)
           = {j \in 1..(Len(x) + 1) : \E k \in Places(pat, x, i + 1) : k >= j}
<1>1. ASSUME NEW j \in Places(pat, x, i) PROVE \E k \in Places(pat, x, i + 1) : k >= j
  <2>1. j \in 1..(Len(x) + 1)
    BY DEF Places
  <2>2. PICK cut : CutFrom(pat, x, cut, i, j)
    BY DEF Places
  <2>3. /\ cut \in [0..Len(pat) -> 0..Len(x)]
        /\ cut[i - 1] = j - 1 /\ cut[Len(pat)] = Len(x)
        /\ \A n \in i..Len(pat) : Faces(pat, x, cut, n)
    BY <2>2 DEF CutFrom
  <2>4. cut[i - 1] =< cut[i]
    <3>1. Faces(pat, x, cut, i)
      BY <2>3
    <3> QED BY <3>1 DEF Faces
  <2>5. cut[i] + 1 \in 1..(Len(x) + 1) /\ cut[i] + 1 >= j /\ cut[(i + 1) - 1] = (cut[i] + 1) - 1
    <3>1. i \in 0..Len(pat) /\ (i + 1) - 1 = i
      OBVIOUS
    <3>2. cut[i] \in 0..Len(x)
      BY <2>3, <3>1
    <3> QED BY <2>1, <2>3, <2>4, <3>1, <3>2
  <2>6. \A n \in (i + 1)..Len(pat) : Faces(pat, x, cut, n)
    BY <2>3
  <2>7. CutFrom(pat, x, cut, i + 1, cut[i] + 1)
    BY <2>3, <2>5, <2>6 DEF CutFrom
  <2> QED BY <2>5, <2>7 DEF Places
<1>2. ASSUME NEW j \in 1..(Len(x) + 1), NEW k \in Places(pat, x, i + 1), k >= j
      PROVE  j \in Places(pat, x, i)
  <2>1. PICK cut : CutFrom(pat, x, cut, i + 1, k)
    BY DEF Places
  <2>2. k \in 1..(Len(x) + 1)
    BY DEF Places
  <2>3. j =< k
    BY <1>2, <2>2
  <2>4. \E c : CutFrom(pat, x, c, i, j)
    BY <2>1, <2>2, <2>3, CutBefore
  <2> QED BY <2>4 DEF Places
<1>3. Places(pat, x, i) \subseteq 1..(Len(x) + 1)
  BY DEF Places
<1> QED BY <1>1, <1>2, <1>3

\* Any other segment takes one name.
LEMMA PlacesName ==
  ASSUME NEW pat \in Seq(Seg), NEW x \in Seq(Name), NEW i \in 1..Len(pat), pat[i] # Stars
  PROVE  Places(pat, x, i)
           = {j \in 1..Len(x) : x[j] \in Glob[pat[i]] /\ j + 1 \in Places(pat, x, i + 1)}
<1>1. ASSUME NEW j \in Places(pat, x, i)
      PROVE  j \in 1..Len(x) /\ x[j] \in Glob[pat[i]] /\ j + 1 \in Places(pat, x, i + 1)
  <2>1. j \in 1..(Len(x) + 1)
    BY DEF Places
  <2>2. PICK cut : CutFrom(pat, x, cut, i, j)
    BY DEF Places
  <2>3. /\ cut \in [0..Len(pat) -> 0..Len(x)]
        /\ cut[i - 1] = j - 1 /\ cut[Len(pat)] = Len(x)
        /\ \A n \in i..Len(pat) : Faces(pat, x, cut, n)
    BY <2>2 DEF CutFrom
  <2>4. cut[i] = cut[i - 1] + 1 /\ x[cut[i]] \in Glob[pat[i]]
    <3>1. Faces(pat, x, cut, i)
      BY <2>3
    <3> QED BY <3>1 DEF Faces
  <2>5. cut[i] = j /\ cut[i] \in 0..Len(x)
    <3>1. i \in 0..Len(pat)
      OBVIOUS
    <3>2. cut[i] \in 0..Len(x)
      BY <2>3, <3>1
    <3> QED BY <2>1, <2>3, <2>4, <3>2
  <2>6. j \in 1..Len(x) /\ j + 1 \in 1..(Len(x) + 1) /\ cut[(i + 1) - 1] = (j + 1) - 1
    BY <2>1, <2>5
  <2>7. \A n \in (i + 1)..Len(pat) : Faces(pat, x, cut, n)
    BY <2>3
  <2>8. CutFrom(pat, x, cut, i + 1, j + 1)
    BY <2>3, <2>6, <2>7 DEF CutFrom
  <2> QED BY <2>4, <2>5, <2>6, <2>8 DEF Places
<1>2. ASSUME NEW j \in 1..Len(x), x[j] \in Glob[pat[i]], j + 1 \in Places(pat, x, i + 1)
      PROVE  j \in Places(pat, x, i)
  <2>1. PICK cut : CutFrom(pat, x, cut, i + 1, j + 1)
    BY <1>2 DEF Places
  <2>2. j \in 1..(Len(x) + 1)
    OBVIOUS
  <2>3. \E c : CutFrom(pat, x, c, i, j)
    BY <1>2, <2>1, <2>2, CutBefore
  <2> QED BY <2>2, <2>3 DEF Places
<1> QED BY <1>1, <1>2

\* What one turn of the recursion makes of the places for the next segment.
Turn(pat, x, i, next) ==
  IF i > Len(pat) THEN {Len(x) + 1}
  ELSE IF pat[i] = Stars THEN {j \in 1..(Len(x) + 1) : \E k \in next : k >= j}
  ELSE {j \in 1..Len(x) : x[j] \in Glob[pat[i]] /\ j + 1 \in next}

\* The recursion finds the places from which there is a cut.
LEMMA MatchingPlaces ==
  ASSUME NEW pat \in Seq(Seg), NEW x \in Seq(Name)
  PROVE  Matching(pat, x)[1] = Places(pat, x, 1)
<1> DEFINE L == Len(pat)
           w == [i \in 1..(L + 1) |-> Places(pat, x, i)]
           m == Matching(pat, x)
<1>1. L \in Nat
  OBVIOUS
<1>2. ASSUME NEW i \in 1..(L + 1) PROVE Places(pat, x, i) = Turn(pat, x, i, Places(pat, x, i + 1))
  <2>1. CASE i > L
    <3>1. i = Len(pat) + 1
      BY <2>1
    <3>2. Places(pat, x, i) = {Len(x) + 1}
      BY <3>1, PlacesEnd, Zenon
    <3> QED BY <2>1, <3>2 DEF Turn
  <2>2. CASE ~ (i > L)
    <3>1. i \in 1..Len(pat)
      BY <2>2
    <3> QED BY <2>2, <3>1, PlacesStars, PlacesName DEF Turn
  <2> QED BY <2>1, <2>2
<1>3. ASSUME NEW i \in 1..(L + 1) PROVE w[i] = Turn(pat, x, i, w[i + 1])
  <2>1. CASE i = L + 1
    <3>1. i > Len(pat)
      BY <2>1
    <3> QED BY <1>2, <3>1, Zenon DEF Turn
  <2>2. CASE i # L + 1
    <3>1. i + 1 \in 1..(L + 1)
      BY <2>2
    <3> QED BY <1>2, <3>1, Zenon
  <2> QED BY <2>1, <2>2
<1>4. w = [i \in 1..(L + 1) |-> Turn(pat, x, i, w[i + 1])]
  BY <1>3
<1> HIDE DEF w
<1>5. m = [i \in 1..(L + 1) |-> Turn(pat, x, i, m[i + 1])]
  BY <1>4, Zenon DEF Matching, Turn
<1> HIDE DEF m
<1>6. ASSUME NEW i \in 1..(L + 1) PROVE m[i] = Turn(pat, x, i, m[i + 1])
  BY <1>5, Zenon
<1> DEFINE f == [n \in 0..L |-> m[L + 1 - n]]
           g == [n \in 0..L |-> w[L + 1 - n]]
<1>7. L + 1 \in 1..(L + 1) /\ L + 1 > Len(pat)
  OBVIOUS
<1>8. f[0] = g[0]
  <2>1. m[L + 1] = w[L + 1]
    BY <1>3, <1>6, <1>7, Zenon DEF Turn
  <2> QED BY <1>1, <2>1
<1>9. ASSUME NEW n \in 1..L, f[n - 1] = g[n - 1] PROVE f[n] = g[n]
  <2> DEFINE i == L + 1 - n
  <2>1. i \in 1..(L + 1) /\ n \in 0..L /\ n - 1 \in 0..L /\ L + 1 - (n - 1) = i + 1
    BY <1>1
  <2>2. f[n - 1] = m[i + 1] /\ g[n - 1] = w[i + 1] /\ f[n] = m[i] /\ g[n] = w[i]
    BY <2>1
  <2> HIDE DEF i, f, g
  <2> QED BY <1>3, <1>6, <1>9, <2>1, <2>2, Zenon
<1>10. \A n \in 0..L : f[n] = g[n]
  <2> HIDE DEF f, g, L
  <2>1. \A n \in 1..L : f[n - 1] = g[n - 1] => f[n] = g[n]
    BY <1>9
  <2> QED BY <1>1, <1>8, <2>1, LoopsAgree, ZenonT(60)
<1>11. m[1] = w[1]
  <2>1. L \in 0..L /\ L + 1 - L = 1
    BY <1>1
  <2>2. f[L] = m[1] /\ g[L] = w[1]
    BY <2>1
  <2> HIDE DEF f, g
  <2> QED BY <1>10, <2>1, <2>2, Zenon
<1>12. 1 \in 1..(L + 1)
  BY <1>1
<1> QED BY <1>11, <1>12 DEF m, w

\* The recursion of matchSegments accepts exactly the paths that can be cut
\* along the pattern.
THEOREM MatchingCuts ==
  ASSUME NEW pat \in Seq(Seg), NEW x \in Seq(Name)
  PROVE  matchSegments(pat, x) <=> Aligned(pat, x)
<1>1. matchSegments(pat, x) <=> \E cut : CutFrom(pat, x, cut, 1, 1)
  <2>1. 1 \in 1..(Len(x) + 1)
    OBVIOUS
  <2>2. 1 \in Places(pat, x, 1) <=> \E cut : CutFrom(pat, x, cut, 1, 1)
    BY <2>1, Zenon DEF Places
  <2> QED BY <2>2, MatchingPlaces, Zenon DEF matchSegments
<1>2. ASSUME NEW cut PROVE CutFrom(pat, x, cut, 1, 1) <=>
        /\ cut \in [0..Len(pat) -> 0..Len(x)]
        /\ cut[0] = 0 /\ cut[Len(pat)] = Len(x)
        /\ \A i \in 1..Len(pat) : Faces(pat, x, cut, i)
  BY DEF CutFrom
<1>3. Aligned(pat, x) <=> \E cut \in [0..Len(pat) -> 0..Len(x)] :
        /\ cut[0] = 0 /\ cut[Len(pat)] = Len(x)
        /\ \A i \in 1..Len(pat) : Faces(pat, x, cut, i)
  BY Zenon DEF Aligned, Faces
<1> QED BY <1>1, <1>2, <1>3, Zenon

\* What a line means: pattern.matches finds exactly the paths the pattern
\* reads on, each segment one name, ** any number, no slash any depth.
THEOREM MatchesMeans ==
  ASSUME NEW l \in Line, NEW x \in Seq(Name), x # <<>>
  PROVE  Matches(Pattern(l), x) <=> Means(Pattern(l), x)
<1> DEFINE p == Pattern(l)
           g == p.segments[1]
           both == <<Stars>> \o p.segments
           last == x[Len(x)]
<1>1. p.segments \in Seq(Seg) /\ p.segments # <<>>
  BY PatternType DEF Patterns
<1>2. CASE p.anchored
  BY <1>1, <1>2, MatchingCuts, Zenon DEF Matches, Means
<1>3. CASE ~ p.anchored
  <2>1. Len(p.segments) =< 1
    BY <1>3, PatternType
  <2>2. g \in Seg /\ both \in Seq(Seg) /\ both[1] = Stars /\ both[2] = g
        /\ Len(both) =< 2 /\ 2 =< Len(both)
    BY <1>1, <2>1, GlobAssumption
  <2>3. Matches(p, x) <=> last \in Glob[g]
    BY <1>3, Zenon DEF Matches
  <2>4. Means(p, x) <=> Aligned(both, x)
    BY <1>3, Zenon DEF Means
  <2>5. Len(x) \in Nat /\ Len(x) >= 1 /\ last \in Name
    OBVIOUS
  <2> HIDE DEF p, g, both, last
  <2>6. Len(both) = 2 /\ 1..Len(both) = {1, 2}
    <3>1. Len(both) \in Nat
      BY <2>2
    <3> DEFINE n == Len(both)
    <3>2. n \in Nat /\ n =< 2 /\ 2 =< n
      BY <2>2, <3>1
    <3> HIDE DEF n
    <3>3. n = 2 /\ 1..n = {1, 2}
      BY <3>2
    <3> QED BY <3>3, Zenon DEF n
  <2>7. ASSUME last \in Glob[g] PROVE Aligned(both, x)
    <3> DEFINE c == [n \in 0..2 |-> IF n = 0 THEN 0 ELSE IF n = 1 /\ g # Stars THEN Len(x) - 1 ELSE Len(x)]
    <3>1. c \in [0..2 -> 0..Len(x)] /\ c[0] = 0 /\ c[2] = Len(x)
          /\ c[1] = IF g # Stars THEN Len(x) - 1 ELSE Len(x)
      BY <2>5
    <3> HIDE DEF c
    <3>2. Faces(both, x, c, 1)
      BY <2>2, <2>5, <3>1 DEF Faces
    <3>3. Faces(both, x, c, 2)
      BY <2>2, <2>5, <2>7, <3>1 DEF Faces, last
    <3>4. \A i \in 1..Len(both) : Faces(both, x, c, i)
      BY <2>6, <3>2, <3>3, Zenon
    <3>5. c \in [0..Len(both) -> 0..Len(x)] /\ c[Len(both)] = Len(x)
      BY <2>6, <3>1, Zenon
    <3> QED BY <3>1, <3>4, <3>5, Zenon DEF Aligned, Faces
  <2>8. ASSUME Aligned(both, x) PROVE last \in Glob[g]
    <3>1. PICK c \in [0..Len(both) -> 0..Len(x)] :
            /\ c[Len(both)] = Len(x)
            /\ \A i \in 1..Len(both) : Faces(both, x, c, i)
      BY <2>8, Zenon DEF Aligned, Faces
    <3>2. c[2] = Len(x) /\ Faces(both, x, c, 2)
      BY <2>6, <3>1, Zenon
    <3>3. CASE g = Stars
      BY <2>5, <3>3, GlobAssumption
    <3>4. CASE g # Stars
      <4>1. x[c[2]] \in Glob[g]
        BY <2>2, <3>2, <3>4 DEF Faces
      <4> QED BY <3>2, <4>1, Zenon DEF last
    <3> QED BY <3>3, <3>4
  <2> QED BY <2>3, <2>4, <2>7, <2>8, Zenon DEF p
<1> QED BY <1>2, <1>3
=============================================================================
