-------------------------- MODULE MCServerLifecycle --------------------------
(* Small instances of ServerLifecycle for TLC. *)
EXTENDS ServerLifecycle

Plain(n) == [space |-> FALSE, minus |-> FALSE, digits |-> n, rest |-> FALSE]
Option(w) == Argument(w, [Plain(None) EXCEPT !.minus = TRUE], 9)
Numbers ==
  {Argument("number", Plain(n), 2) : n \in {None, 0, 1, PortMax, PortMax + 1, SizeMax + 1}}
    \cup {Argument("number", [Plain(n) EXCEPT !.space = s, !.minus = TRUE], 3) :
            n \in {0, 1}, s \in BOOLEAN}
Pieces ==
  {<<>>, <<Option("--other")>>, <<Option("--help")>>, <<Option("--workers")>>}
    \cup {<<a>> : a \in Numbers}
    \cup {<<Option(o), a>> : o \in {"--workers", "--max-input-buffer"}, a \in Numbers}
MCCommandLines == {p \o q : p, q \in Pieces}
MCDefaultConfig == [o \in ServerOptions \cup {"port"} |-> 2]
=============================================================================
