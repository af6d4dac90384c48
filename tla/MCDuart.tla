------------------------------ MODULE MCDuart ------------------------------
(***************************************************************************)
(* Duart with two bytes to receive, two characters to send and a timer     *)
(* that counts modulo 2.                                                   *)
(***************************************************************************)
EXTENDS Duart
=============================================================================
