-------------------------------- MODULE Ignore ------------------------------
(* internal/ignore: the lines of a .sneakpackignore, the patterns Parse     *)
(* makes of them, and what Match says of a path.                            *)
(*                                                                          *)
(* A line is its mark and what stands between its slashes: "!/a/" is mark   *)
(* "!" and <<"", "a", "">>.  A path is the sequence of its names.  What     *)
(* path.Match accepts for one segment is a constant.                        *)
EXTENDS Naturals, Sequences

CONSTANTS
  Seg,        \* what stands between the slashes of a pattern
  Nothing,    \* the empty segment
  Stars,      \* the segment **
  Name,       \* names of files and directories
  BadSeg,     \* what path.Match finds malformed
  Glob,       \* Glob[s]: the names path.Match accepts for s
  BadPattern  \* Parse returns an error

ASSUME GlobAssumption ==
  /\ Nothing \in Seg /\ Stars \in Seg /\ Nothing # Stars
  /\ BadSeg \subseteq Seg \ {Nothing, Stars}
  /\ Glob \in [Seg -> SUBSET Name]
  /\ Glob[Nothing] = {} /\ Glob[Stars] = Name

\* A line after TrimSpace.  A blank one has no mark and no segment but "";
\* "long" marks one that is more than the scanner's buffer holds.
Line == [mark : {"", "!", "#", "long"}, segs : Seq(Seg) \ {<<>>}]

\* The steps of Parse on what follows the mark.
TrailingSlash(segs) == Len(segs) > 1 /\ segs[Len(segs)] = Nothing
LeadingSlash(segs) == Len(segs) > 1 /\ segs[1] = Nothing
Unended(segs) == IF TrailingSlash(segs) THEN SubSeq(segs, 1, Len(segs) - 1) ELSE segs
Unrooted(segs) == IF LeadingSlash(segs) THEN Tail(segs) ELSE segs

Pattern(l) ==
  LET body == Unended(l.segs)
      segments == Unrooted(body)
  IN  [segments |-> segments,
       negate   |-> l.mark = "!",
       dirOnly  |-> TrailingSlash(l.segs),
       anchored |-> LeadingSlash(body) \/ Len(segments) > 1]

\* A comment, or nothing is left of the line.
Skipped(l) == l.mark = "#" \/ Pattern(l).segments = <<Nothing>>

IllFormed(l) ==
  \E i \in DOMAIN Pattern(l).segments : Pattern(l).segments[i] \in BadSeg

\* One turn of the loop.  A line that is too long ends it; the scanner's
\* error is not asked for.
ReadLine(r, l) ==
  IF r.at # "scan" \/ (l.mark # "long" /\ Skipped(l)) THEN r
  ELSE IF l.mark = "long" THEN [r EXCEPT !.at = "end"]
  ELSE IF IllFormed(l) THEN [r EXCEPT !.at = "bad"]
  ELSE [r EXCEPT !.patterns = Append(@, Pattern(l))]

\* The loop after each line.
Reading(file) ==
  LET r[n \in 0..Len(file)] ==
        IF n = 0 THEN [patterns |-> <<>>, at |-> "scan"]
        ELSE ReadLine(r[n - 1], file[n])
  IN  r

\* The patterns of a file, or the error.
Parse(file) ==
  LET r == Reading(file)[Len(file)]
  IN  IF r.at = "bad" THEN BadPattern ELSE r.patterns

\* A slip to notice: ** stands for at least one segment.
MatchingSome(pat, segs) ==
  LET from[i \in 1..(Len(pat) + 1)] ==
        IF i > Len(pat) THEN {Len(segs) + 1}
        ELSE IF pat[i] = Stars
        THEN {j \in 1..(Len(segs) + 1) : \E k \in from[i + 1] : k > j}
        ELSE {j \in 1..Len(segs) : segs[j] \in Glob[pat[i]] /\ j + 1 \in from[i + 1]}
  IN  from

\* The recursion of matchSegments: where the names may begin that pat from
\* its i-th segment on matches, Len(segs) + 1 if there are none left.
Matching(pat, segs) ==
  LET from[i \in 1..(Len(pat) + 1)] ==
        IF i > Len(pat) THEN {Len(segs) + 1}
        ELSE IF pat[i] = Stars
        THEN {j \in 1..(Len(segs) + 1) : \E k \in from[i + 1] : k >= j}
        ELSE {j \in 1..Len(segs) : segs[j] \in Glob[pat[i]] /\ j + 1 \in from[i + 1]}
  IN  from

matchSegments(pat, segs) == 1 \in Matching(pat, segs)[1]

\* pattern.matches: the last name, or the whole path.
Matches(p, x) ==
  IF p.anchored THEN matchSegments(p.segments, x)
  ELSE x[Len(x)] \in Glob[p.segments[1]]

Hit(p, x, isDir) == (p.dirOnly => isDir) /\ Matches(p, x)

\* A slip to notice: the first matching pattern decides.
DecidedFirst(patterns, x, isDir) ==
  LET ignored[n \in 0..Len(patterns)] ==
        IF n = 0 THEN FALSE
        ELSE IF /\ Hit(patterns[n], x, isDir)
                /\ \A i \in 1..(n - 1) : ~ Hit(patterns[i], x, isDir)
        THEN ~ patterns[n].negate
        ELSE ignored[n - 1]
  IN  ignored

\* One turn of the loop of Match: a pattern that matches has its way.
Verdict(ignored, p, x, isDir) == IF Hit(p, x, isDir) THEN ~ p.negate ELSE ignored

\* The loop after each pattern.
Decided(patterns, x, isDir) ==
  LET ignored[n \in 0..Len(patterns)] ==
        IF n = 0 THEN FALSE ELSE Verdict(ignored[n - 1], patterns[n], x, isDir)
  IN  ignored

\* Rules.Match.
Match(patterns, x, isDir) == Decided(patterns, x, isDir)[Len(patterns)]

\* What Take leaves out: what Match ignores, and all below a directory it
\* ignores, where the walk does not descend.
LeftOut(patterns, x) ==
  \/ Match(patterns, x, FALSE)
  \/ \E n \in 1..(Len(x) - 1) : Match(patterns, SubSeq(x, 1, n), TRUE)

-----------------------------------------------------------------------------
(* A reading of the patterns that does not recurse.                         *)

\* The path can be cut so that each segment of the pattern faces one name,
\* and ** any number of them.
Aligned(pat, x) ==
  \E cut \in [0..Len(pat) -> 0..Len(x)] :
    /\ cut[0] = 0 /\ cut[Len(pat)] = Len(x)
    /\ \A i \in 1..Len(pat) :
         IF pat[i] = Stars THEN cut[i - 1] =< cut[i]
         ELSE cut[i] = cut[i - 1] + 1 /\ x[cut[i]] \in Glob[pat[i]]

\* A pattern without a slash matches at any depth: as behind a **.
Means(p, x) ==
  Aligned(IF p.anchored THEN p.segments ELSE <<Stars>> \o p.segments, x)
=============================================================================
