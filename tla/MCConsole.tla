----------------------------- MODULE MCConsole -----------------------------
(***************************************************************************)
(* Console with the receive threads of the DUART, which asks for one byte  *)
(* at a time, and of the console, which does so too, and the CLI, which    *)
(* asks for two.                                                           *)
(***************************************************************************)
EXTENDS Console

CONSTANTS duart, cli

MCWant == [g \in {duart, cli, con} |-> IF g = cli THEN 2 ELSE 1]

\* both directions, the receiver off, all off, loopback, and a break in it
MCCmds ==
  {{"tx", "rx"}, {"tx", "rx", "er"}, {"tx"}, {}, {"tx", "loop"},
   {"tx", "loop", "brk"}}
=============================================================================
