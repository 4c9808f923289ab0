----------------------------- MODULE CommandLine -----------------------------
(***************************************************************************)
(* The argument parsing that apps/epoll_server, apps/client and            *)
(* apps/server share in form: the parsers of numbers and the loop of       *)
(* ParseArgs over options with values and one positional argument.         *)
(*                                                                         *)
(* An argument is known by the word it is, by what std::stoul makes of it, *)
(* and by its size.  A parser returns the set of values it accepts: one,   *)
(* or none when the code throws.                                           *)
(***************************************************************************)
EXTENDS Integers, Sequences

CONSTANTS
  SizeMax,  \* the largest size_t and unsigned long
  PortMax   \* the largest uint16_t

ASSUME WidthAssumption == PortMax \in Nat /\ SizeMax \in Nat /\ PortMax < SizeMax

\* White space and a minus sign in front, the number its digits denote (or
\* None), and other characters behind.
None == -1
Text == [space : BOOLEAN, minus : BOOLEAN, digits : Int, rest : BOOLEAN]
Argument(word, text, size) == [word |-> word, text |-> text, size |-> size]

\* std::stoul and std::stoull (external): white space is skipped and a minus
\* sign negates modulo the width.  No digits, or too many, are an exception.
Stoul(t) ==
  IF t.digits = None \/ t.digits > SizeMax THEN {}
  ELSE {IF t.minus THEN (SizeMax + 1 - t.digits) % (SizeMax + 1) ELSE t.digits}

FrontIsMinus(a) == a.text.minus /\ ~a.text.space

\* The front character is tested, and every character must have been used.
ParseUnsigned(a) ==
  IF a.size = 0 \/ FrontIsMinus(a) \/ a.text.rest THEN {} ELSE Stoul(a.text)

ParsePort(a) == {v \in ParseUnsigned(a) : v <= PortMax}

\* A bug that is not in the code: zero is let through.
ParseSize(a) == ParseUnsigned(a)
ParsePositiveSize(a) == {v \in ParseUnsigned(a) : v # 0 /\ v <= SizeMax}

\* argc == 2 and the argument is --help.
AsksForHelp(args) == Len(args) = 1 /\ args[1].word = "--help"

\* One turn of ParseArgs' loop, in two when the argument is an option: its value
\* follows.  Other arguments with a minus in front are unknown options, and the
\* positional argument is given at most once.  values[o] is what the parser of o
\* makes of the argument.
ParseOne(c, a, values, options, positional) ==
  IF c.option # "none"
  THEN {[c EXCEPT !.config[c.option] = v, !.option = "none"] :
          v \in values[c.option]}
  ELSE IF a.word \in options THEN {[c EXCEPT !.option = a.word]}
  ELSE IF FrontIsMinus(a) \/ c.given THEN {}
  ELSE {[c EXCEPT !.config[positional] = v, !.given = TRUE] :
          v \in values[positional]}

\* The loop, from the defaults; an option without a value is an error.
ParseLoop(args, values, defaults, options, positional) ==
  LET parsed[i \in 0..Len(args)] ==
        IF i = 0 THEN {[config |-> defaults, option |-> "none", given |-> FALSE]}
        ELSE UNION {ParseOne(c, args[i], values[i], options, positional) :
                      c \in parsed[i - 1]}
  IN  {c.config : c \in {d \in parsed[Len(args)] : d.option = "none"}}
=============================================================================
