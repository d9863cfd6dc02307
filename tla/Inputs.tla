------------------------------- MODULE Inputs -------------------------------
(* What comes into the program from outside and is taken apart before       *)
(* anything is done: an ignore file, a command line, the name of a file, a  *)
(* manifest that was carried about.  Each grows, or rots, by one piece at a *)
(* time; only one of them is under way in a behaviour.                      *)
EXTENDS Manifest, Ignore, Flags, Names

CONSTANTS
  Sent,     \* the bundles whose manifests are carried
  MaxSegs,  \* MaxSegs[n]: bound on the segments of the n-th line
  MaxArgs,  \* bound on the tokens of a command line
  MaxNames, \* bound on the elements of a name
  MaxRot,   \* bound on the damaged places of a manifest
  MaxDepth  \* the paths patterns are tried on have this many names at most

ASSUME InputsAssumption ==
  /\ Sent \subseteq Bundle
  /\ MaxSegs \in Seq(Nat)
  /\ MaxArgs \in Nat /\ MaxNames \in Nat /\ MaxRot \in Nat /\ MaxDepth \in Nat

VARIABLES
  topic,   \* which of them is under way
  lines,   \* the ignore file, from its first line on
  args,    \* the tokens of the command line
  name,    \* the elements of a path
  sent,    \* the bundle whose manifest is carried
  carried, \* that manifest, as it arrives
  rots     \* how many places were damaged

ivars == <<topic, lines, args, name, sent, carried, rots>>

InputsInit ==
  /\ topic \in {"ignore", "args", "name", "manifest"}
  /\ lines = <<>> /\ args = <<>> /\ name = <<>>
  /\ sent \in Sent /\ (topic # "manifest" => sent = CHOOSE b \in Sent : TRUE)
  /\ carried = New(sent.base, sent.target) /\ rots = 0

\* The lines tried, of up to n segments; in a comment or a line that is too
\* long, what follows does not matter.
LinesUpTo(n) ==
  [mark : {"", "!"}, segs : UNION {[1..k -> Seg] : k \in 1..n}]
  \cup [mark : {"#", "long"}, segs : {<<Nothing>>}]

\* Somebody adds a line to the ignore file.
AddLine ==
  /\ topic = "ignore" /\ Len(lines) < Len(MaxSegs)
  /\ \E l \in LinesUpTo(MaxSegs[Len(lines) + 1]) : lines' = Append(lines, l)
  /\ UNCHANGED <<topic, args, name, sent, carried, rots>>

\* Somebody types one more argument.
AddToken ==
  /\ topic = "args" /\ Len(args) < MaxArgs
  /\ \E a \in Token : args' = Append(args, a)
  /\ UNCHANGED <<topic, lines, name, sent, carried, rots>>

AddElement ==
  /\ topic = "name" /\ Len(name) < MaxNames
  /\ \E e \in Element : name' = Append(name, e)
  /\ UNCHANGED <<topic, lines, args, sent, carried, rots>>

\* A place in the manifest goes bad on the way.
Rot ==
  /\ topic = "manifest" /\ rots < MaxRot /\ rots' = rots + 1
  /\ carried' \in Rotten(carried) \ {carried}
  /\ UNCHANGED <<topic, lines, args, name, sent>>

\* An input that is complete stays as it is.
InputsNext == AddLine \/ AddToken \/ AddElement \/ Rot

InputsSpec == InputsInit /\ [][InputsNext]_ivars

-----------------------------------------------------------------------------
(* Ignore files.                                                            *)

TriedPaths == UNION {[1..k -> Name] : k \in 1..MaxDepth}

\* The recursion of matchSegments finds exactly the paths a pattern means:
\* each segment one name, ** any number of them, no slash any depth.
PatternsMean ==
  lines # <<>> /\ Parse(lines) # BadPattern /\ ~ Skipped(lines[Len(lines)]) =>
    \A x \in TriedPaths :
      LET p == Pattern(lines[Len(lines)]) IN Matches(p, x) <=> Means(p, x)

\* What a pattern reaches: a file it matches, or what is below a directory.
Reaches(p, x) ==
  \/ ~ p.dirOnly /\ Matches(p, x)
  \/ \E n \in 1..(Len(x) - 1) : Matches(p, SubSeq(x, 1, n))

\* A line added at the end has the last word: it changes nothing but what it
\* reaches, and only one way, a comment or a blank line nothing; what it
\* excludes is out, and what it readmits is in unless a directory above is
\* still pruned.  Of files with a line that is too long nothing is said.
LineDecides ==
  /\ lines' # lines /\ Parse(lines') # BadPattern
  /\ \A i \in DOMAIN lines' : lines'[i].mark # "long"
  => LET l == lines'[Len(lines')]
         p == Pattern(l)
         old == Parse(lines)
         new == Parse(lines')
     IN  \A x \in TriedPaths :
           LET before == LeftOut(old, x)
               after == LeftOut(new, x)
               reached == ~ Skipped(l) /\ Reaches(p, x)
           IN  /\ before # after => reached /\ after = ~ p.negate
               /\ reached /\ ~ p.negate => after
               /\ reached /\ p.negate /\ ~ p.dirOnly /\ Matches(p, x) =>
                    (after <=> \E n \in 1..(Len(x) - 1) :
                                 Match(new, SubSeq(x, 1, n), TRUE))

LaterLineDecides == [][LineDecides]_ivars

\* The lines of the file, long ones aside, whose pattern matches x.
HitsOf(x, isDir) ==
  {i \in DOMAIN lines :
     /\ lines[i].mark # "long" /\ ~ Skipped(lines[i])
     /\ Hit(Pattern(lines[i]), x, isDir)}

\* The last matching pattern in the file decides (ignore.go:103-105), of all
\* the patterns in the file, wherever they stand.
LastMatchDecides ==
  Parse(lines) # BadPattern =>
    \A x \in TriedPaths, isDir \in BOOLEAN :
      Match(Parse(lines), x, isDir) <=>
        \E i \in HitsOf(x, isDir) :
          /\ ~ Pattern(lines[i]).negate
          /\ \A j \in HitsOf(x, isDir) : j =< i

-----------------------------------------------------------------------------
(* Command lines.                                                           *)

\* Where in the command line the members of a list were typed, in order.
TypedAt(list) ==
  {f \in [DOMAIN list -> DOMAIN args] : \A j, k \in DOMAIN list : j < k => f[j] < f[k]}

\* The value of the flag typed at place i is the token behind it.
Waits(i) == args[i].name \in ValueFlag /\ args[i].value = NoValue

\* What the flag typed at place i is set to, with its name.
SettingAt(i) ==
  <<args[i].name, IF Waits(i) THEN args[i + 1] ELSE args[i].value>>

\* With flags at the places S, the values of those that wait behind them, and
\* the other arguments at P: what is at none of these is the one -- the flags
\* end with, and only behind it an argument may look like a flag.
AllPlaced(P, S) ==
  LET V == {i + 1 : i \in {j \in S : Waits(j)}}
  IN  /\ V \subseteq DOMAIN args
      /\ P \cap S = {} /\ P \cap V = {} /\ S \cap V = {}
      /\ \A i \in DOMAIN args \ (P \cup S \cup V) :
           args[i] = End /\ \A j \in DOMAIN args : i < j => j \in P
      /\ \A i \in P : \/ args[i].kind \in {"word", "dash"}
                     \/ \E e \in DOMAIN args \ (P \cup S \cup V) : e < i

\* Nothing typed is dropped, doubled or moved past another of its kind: in a
\* command line that parseMixed accepts each token is a flag that is set, the
\* value of the flag before it, an argument that is passed on, or the --.
NothingLost ==
  LET r == parseMixed(args)
  IN  r # Usage =>
        \E p \in TypedAt(r.pos), s \in TypedAt(r.set) :
          /\ \A k \in DOMAIN r.pos : r.pos[k] = args[p[k]]
          /\ \A k \in DOMAIN r.set :
               args[s[k]].kind = "flag" /\ r.set[k] = SettingAt(s[k])
          /\ AllPlaced(Range(p), Range(s))

\* A command line that was good with the flags in front means the same.
StdlibAgrees ==
  LET std == FlagParse(args)
  IN  std # Usage /\ (\A i \in DOMAIN std.rest : std.rest[i].kind \notin {"flag", "end"})
      => parseMixed(args) = [set |-> std.set, pos |-> std.rest]

-----------------------------------------------------------------------------
(* Names.                                                                   *)

\* What ValidatePath lets through leads where it says, below the root and
\* outside the state directory, one name at a time.
ValidStays ==
  name # <<>> /\ ValidatePath(name) => Leads(name) = name /\ name[1] # StateDir

\* What Take records a cursor or bundle can hold, but for names with a
\* backslash and a file that is called like the state directory.
RecordedLoads ==
  name # <<>> /\ ToSet(name) \subseteq Proper /\ Recorded(name) =>
    (ValidatePath(name) <=> /\ ToSet(name) \cap Backslash = {}
                            /\ name # <<StateDir>>)

-----------------------------------------------------------------------------
(* Manifests.                                                               *)

Accepted == Verify(carried, Listed(New(sent.base, sent.target)))

\* What pack makes verifies, and whatever rots, what verify accepts lists the
\* files and the payload that were sent, under their cursor.  The base, the
\* old hashes and the deletions have no check of their own.
VerifyProves ==
  /\ rots = 0 => Accepted
  /\ Accepted =>
      LET m == New(sent.base, sent.target)
          payload(c) == {<<l.path, l.entry>> : l \in Landed(c)}
      IN  /\ <<carried.files, carried.id, carried.targetCursor>> = <<m.files, m.id, m.targetCursor>>
          /\ payload(carried) = payload(m)

\* And landing it, forced even, leaves each file as it was or as it was sent.
OldOrNew ==
  Accepted =>
    \A x \in Path : Land(carried, sent.base)[x] \in {sent.base[x], sent.target[x]}
=============================================================================
