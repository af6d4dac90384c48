------------------------------ MODULE ScsiDev ------------------------------
(***************************************************************************)
(* The functions of the tape and the disk drives (Iop/iop_scsi_dev.c), on  *)
(* the state of a drive and the memory its controller's DMA points to:     *)
(* [head, sense, map, ram].                                                *)
(*                                                                         *)
(* The tape is a file of words: a record is its length, its data and its   *)
(* length again, a tape mark is a length of 0, and the end is marked.  The *)
(* disk is a sequence of sectors.  The sense and a page of the mode are a  *)
(* word each.                                                              *)
(*                                                                         *)
(* The functions assert that the count registers allow for what they move. *)
(* What else they assert is left out: the direction in the register 0x15,  *)
(* which goes with the operation, and the fixed bytes of the command       *)
(* descriptor blocks.                                                      *)
(***************************************************************************)
EXTENDS Integers, SequencesExt

CONSTANTS
  Items,       \* the tape: records, and << >> for a tape mark
  MaxLen,      \* the length the guest asks for
  Eom,         \* the word 0xffffffff
  NSectors     \* of the disk

ASSUME DevAssumption ==
  /\ MaxLen \in Nat \ {0} /\ Eom \in Nat /\ Eom > MaxLen
  /\ Items \in Seq(Seq(Int))
  /\ \A i \in DOMAIN Items : Len(Items[i]) <= MaxLen
  /\ NSectors \in Nat

AtMark == 128
AtEom == 64

Word(item) == IF item = << >> THEN << 0 >> ELSE << Len(item) >> \o item \o << Len(item) >>

Words == FlattenSeq([i \in DOMAIN Items |-> Word(Items[i])]) \o << Eom >>

\* What a function leaves: the drive, what it returns, and whether it ends.
Returns(d, i) == [drive |-> d, ret |-> i, ok |-> TRUE]
Asserts(d) == [drive |-> d, ret |-> 0, ok |-> FALSE]

\* TEST UNIT READY, FORMAT UNIT, SEEK, READ DEFECT DATA and 0x0d
Nothing(d) == Returns(d, 0)

Rewind(d) == Returns([d EXCEPT !.head = 0], 0)

RequestSense(d, count) ==
  IF count = 0 THEN Asserts(d) ELSE Returns([d EXCEPT !.ram = << d.sense >>], 0)

\* A record whose first length, len, is at h fits and has the same one behind it.
Framed(h, len) ==
  len \in 1..MaxLen /\ h + len + 2 <= Len(Words) /\ Words[h + len + 2] = len

\* that leaves the second length for the next record
ReadTapeBug(d, count) ==
  LET len == Words[d.head + 1]
  IN IF count = 0 THEN Returns(d, 0)
     ELSE IF d.head \notin 0..(Len(Words) - 1) THEN Asserts(d)
     ELSE CASE len = 0 -> Returns([d EXCEPT !.head = @ + 1, !.sense = AtMark], -1)
            [] len = Eom -> Returns([d EXCEPT !.sense = AtEom], -1)
            [] Framed(d.head, len) /\ len <= count ->
                 Returns([d EXCEPT !.head = @ + len + 1, !.sense = 0,
                                   !.ram = SubSeq(Words, d.head + 2, d.head + 1 + len)],
                         MaxLen - len)
            [] OTHER -> Asserts(d)

ReadTape(d, count) ==
  LET len == Words[d.head + 1]
  IN IF count = 0 THEN Returns(d, 0)
     ELSE IF d.head \notin 0..(Len(Words) - 1) THEN Asserts(d)
     ELSE CASE len = 0 -> Returns([d EXCEPT !.head = @ + 1, !.sense = AtMark], -1)
            [] len = Eom -> Returns([d EXCEPT !.sense = AtEom], -1)
            [] Framed(d.head, len) /\ len <= count ->
                 Returns([d EXCEPT !.head = @ + len + 2, !.sense = 0,
                                   !.ram = SubSeq(Words, d.head + 2, d.head + 1 + len)],
                         MaxLen - len)
            [] OTHER -> Asserts(d)

\* one word back, whatever stands there
Space(d) == Returns([d EXCEPT !.head = @ - 1, !.sense = 0], 0)

\* READ_6 and READ_10 of the disk differ in the width of the address only
ReadDisk(d, c, count) ==
  IF c.n > count THEN Asserts(d)
  ELSE Returns([d EXCEPT !.ram = SubSeq(d.map, c.lba + 1, c.lba + c.n)], 0)

WriteDisk(d, c, count) ==
  IF c.n > count THEN Asserts(d)
  ELSE Returns([d EXCEPT !.map =
                  [s \in DOMAIN @ |-> IF s \in (c.lba + 1)..(c.lba + c.n)
                                      THEN d.ram[s - c.lba] ELSE @[s]]], 0)

ModeSelect(d, c, count) ==
  IF c.n > count THEN Asserts(d) ELSE Returns([d EXCEPT !.sense = 0], 0)

\* MODE SENSE knows two pages
ModeSense(d, c, count) ==
  IF c.lba \notin {3, 4} THEN Returns(d, -1)
  ELSE IF count = 0 THEN Asserts(d)
  ELSE Returns([d EXCEPT !.ram = << c.lba >>], 0)

TapeFuncs == {"ready", "rewind", "sense", "read", "space"}
DiskFuncs == {"ready", "format", "read", "write", "select", "page"}

\* scsi_tape_funcs and scsi_disk_funcs
TapeFunc(d, c, count) ==
  CASE c.f = "ready" -> Nothing(d)
    [] c.f = "rewind" -> Rewind(d)
    [] c.f = "sense" -> RequestSense(d, count)
    [] c.f = "read" -> ReadTape(d, count)
    [] c.f = "space" -> Space(d)

DiskFunc(d, c, count) ==
  CASE c.f \in {"ready", "format"} -> Nothing(d)
    [] c.f = "read" -> ReadDisk(d, c, count)
    [] c.f = "write" -> WriteDisk(d, c, count)
    [] c.f = "select" -> ModeSelect(d, c, count)
    [] c.f = "page" -> ModeSense(d, c, count)
=============================================================================
