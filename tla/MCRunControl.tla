---------------------------- MODULE MCRunControl ----------------------------
(***************************************************************************)
(* RunControl with steps of none (endless), of one and of two instructions *)
(* and two additions to the quota of SystemC.                              *)
(***************************************************************************)
EXTENDS RunControl
=============================================================================
