------------------------------- MODULE MCScsi -------------------------------
(***************************************************************************)
(* Scsi with a tape of a record, two marks in a row, a longer record and a *)
(* mark, or with a disk of two sectors that is accessed by one or two.     *)
(***************************************************************************)
EXTENDS Scsi

MCItems == << <<101>>, << >>, << >>, <<102, 103>>, << >> >>

Cdb(f, lba, n) == [f |-> f, lba |-> lba, n |-> n]

MCCdbs ==
  [tape |-> {Cdb(f, 0, 0) : f \in TapeFuncs \cup {"other"}},
   disk |-> {Cdb("other", 0, 0), Cdb("select", 0, 0), Cdb("page", 3, 1),
             Cdb("page", 5, 1), Cdb("read", 0, 2),
             Cdb("write", 0, 2), Cdb("write", 1, 1)}]
=============================================================================
