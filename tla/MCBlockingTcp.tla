---------------------------- MODULE MCBlockingTcp ----------------------------
(* Small instances of BlockingTcp for TLC. *)
EXTENDS BlockingTcp

Number(n) ==
  Argument("number", [space |-> FALSE, minus |-> FALSE, digits |-> n, rest |-> FALSE], 2)
MCCommandLines ==
  {<<>>, <<Argument("--help", Number(None).text, 6)>>, <<Number(1), Number(1)>>}
    \cup {<<Number(n)>> : n \in {None, 0, PortMax, PortMax + 1, SizeMax + 1}}
=============================================================================
