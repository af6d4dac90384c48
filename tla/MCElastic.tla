----------------------------- MODULE MCElastic -----------------------------
(***************************************************************************)
(* Elastic with two subscribers that come, go and outlive each other, and  *)
(* a few chunks.                                                           *)
(***************************************************************************)
EXTENDS Elastic
=============================================================================
