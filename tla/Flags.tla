-------------------------------- MODULE Flags -------------------------------
(* The command line: parseMixed, which lets flags stand before and after    *)
(* the other arguments, and the parser of Go's flag package it hands the    *)
(* flags to.  A token is what a shell passes as one argument.               *)
EXTENDS Naturals, Sequences

CONSTANTS
  BoolFlag,   \* the boolean flags of the command
  ValueFlag,  \* its flags that take a value
  NoFlag,     \* names of no flag of the command, bad syntax included
  Value,      \* texts that can be values and other arguments
  Truth,      \* those among them that are a boolean
  NoValue,    \* a flag token without "="
  Usage       \* the command line is refused

\* "-name" and "-name=value"; a plain word; "-" alone; "--" alone.
FlagToken ==
  [kind : {"flag"}, name : BoolFlag \cup ValueFlag \cup NoFlag,
   value : Value \cup {NoValue}]
Word == [kind : {"word"}, value : Value]
Dash == [kind |-> "dash"]
End == [kind |-> "end"]
Token == FlagToken \cup Word \cup {Dash, End}

\* A flag and its value: what stands behind "=", or a token of its own.
Setting ==
  (BoolFlag \cup ValueFlag) \X (Value \cup {NoValue} \cup Token)

ASSUME FlagAssumption ==
  /\ BoolFlag \cap ValueFlag = {} /\ NoFlag \cap (BoolFlag \cup ValueFlag) = {}
  /\ NoValue \notin Value /\ Truth \subseteq Value
  /\ Usage \notin [set : Seq(Setting), rest : Seq(Token)]

\* A slip to notice: a value behind "=" is overlooked.
TakesNextInline(a) == a.kind = "flag" /\ a.name \notin BoolFlag

\* parseMixed takes the next token for the value of a.
TakesNext(a) == a.kind = "flag" /\ a.value = NoValue /\ a.name \notin BoolFlag

\* A slip to notice: what follows "--" is left to the flag package, which is
\* not given it.
SeparateStepDropping(s, a) ==
  CASE s.at = "free" /\ a.kind \in {"word", "dash"}
         -> [s EXCEPT !.pos = Append(@, a)]
    [] s.at = "pos"
         -> s
    [] s.at = "free" /\ a.kind = "end"
         -> [s EXCEPT !.at = "pos"]
    [] s.at = "free" /\ a.kind = "flag"
         -> [s EXCEPT !.flags = Append(@, a),
                      !.at = IF TakesNext(a) THEN "value" ELSE "free"]
    [] s.at = "value"
         -> [s EXCEPT !.flags = Append(@, a), !.at = "free"]

\* One turn of the loop of parseMixed: what goes to the flag package and what
\* is positional, and whether the token is free, a value or behind "--".
SeparateStep(s, a) ==
  CASE s.at = "pos" \/ (s.at = "free" /\ a.kind \in {"word", "dash"})
         -> [s EXCEPT !.pos = Append(@, a)]
    [] s.at = "free" /\ a.kind = "end"
         -> [s EXCEPT !.at = "pos"]
    [] s.at = "free" /\ a.kind = "flag"
         -> [s EXCEPT !.flags = Append(@, a),
                      !.at = IF TakesNext(a) THEN "value" ELSE "free"]
    [] s.at = "value"
         -> [s EXCEPT !.flags = Append(@, a), !.at = "free"]

\* The loop after each token.
Separated(args) ==
  LET s[n \in 0..Len(args)] ==
        IF n = 0 THEN [flags |-> <<>>, pos |-> <<>>, at |-> "free"]
        ELSE SeparateStep(s[n - 1], args[n])
  IN  s

Separate(args) == Separated(args)[Len(args)]

\* A boolean flag with a value the flag package cannot read.
BadBool(a) == a.name \in BoolFlag /\ a.value \notin Truth \cup {NoValue}

\* FlagSet.parseOne, token by token: the settings in order, the flag that
\* waits for its value, and the arguments from the first that is no flag on.
FlagStep(q, a) ==
  CASE q.at = "usage"
         -> q
    [] q.at = "rest"
         -> [q EXCEPT !.rest = Append(@, a)]
    [] q.at = "value"
         -> [q EXCEPT !.set = Append(@, <<q.name, a>>), !.at = "flags"]
    [] q.at = "flags" /\ a.kind = "end"
         -> [q EXCEPT !.at = "rest"]
    [] q.at = "flags" /\ a.kind \in {"word", "dash"}
         -> [q EXCEPT !.rest = <<a>>, !.at = "rest"]
    [] q.at = "flags" /\ a.kind = "flag"
         -> IF a.name \in NoFlag \/ BadBool(a) THEN [q EXCEPT !.at = "usage"]
            ELSE IF a.name \in ValueFlag /\ a.value = NoValue
            THEN [q EXCEPT !.name = a.name, !.at = "value"]
            ELSE [q EXCEPT !.set = Append(@, <<a.name, a.value>>)]

FlagStart == [set |-> <<>>, rest |-> <<>>, name |-> NoValue, at |-> "flags"]

FlagsParsed(args) ==
  LET q[n \in 0..Len(args)] ==
        IF n = 0 THEN FlagStart ELSE FlagStep(q[n - 1], args[n])
  IN  q

FlagsAt(args) == FlagsParsed(args)[Len(args)]

\* FlagSet.Parse: the settings and the rest, or an error, also where a value
\* is missing at the end.
FlagParse(args) ==
  LET q == FlagsAt(args)
  IN  IF q.at \in {"usage", "value"} THEN Usage
      ELSE [set |-> q.set, rest |-> q.rest]

\* What a command gets: its settings and its positional arguments.
parseMixed(args) ==
  LET parts == Separate(args)
      r == FlagParse(parts.flags)
  IN  IF r = Usage THEN Usage ELSE [set |-> r.set, pos |-> parts.pos]
=============================================================================
