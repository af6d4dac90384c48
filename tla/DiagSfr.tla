------------------------------ MODULE DiagSfr ------------------------------
(***************************************************************************)
(* The special function registers as the diag processor connects them      *)
(* (Diag/diagproc.c): the ports are the pins p1val to p3val, SBUF is the   *)
(* diag bus, and bit 5 of TCON always reads 1.                             *)
(***************************************************************************)
EXTENDS I8052Regs

IoSfrs == {P1, P2, P3, SBUF}

Io(c) == [c EXCEPT !.did_io = TRUE]

\* diagproc_sfrfunc, the value of a read.  P3 has no case: 999, in a byte.
SfrGet(c, a) ==
  CASE a = P1 -> c.p1val
    [] a = P2 -> c.p2val
    [] a = P3 -> 999 % 256
    [] OTHER  -> c.sfr[a]

\* ... what a read leaves behind: reading SBUF clears RI
SfrGot(c, a) ==
  CASE a \notin IoSfrs -> c
    [] a = SBUF -> SetSfrBit(Io(c), SCON, 0, 0)
    [] OTHER -> Io(c)

\* ... and a write: SBUF injects the byte in the diag bus and sets TI
SfrPut(c, a, v) ==
  CASE a \notin IoSfrs -> SetSfr(c, a, v)
    [] a = SBUF -> SetSfrBit([Io(c) EXCEPT !.tx = Append(@, v)], SCON, 1, 1)
    [] a = P1 -> [Io(c) EXCEPT !.p1val = v]
    [] a = P2 -> [Io(c) EXCEPT !.p2val = v]
    [] OTHER -> Io(c)

\* diagproc_bitfunc, for the bits of TCON, P1 and P3; those of P2, for which it
\* has no case and ends the program, have no value
IoBits == {b \in 128..255 : b - (b % 8) \in {TCON, P1, P3}}

Ports == P1..P1 + 7 \cup P2..P2 + 7 \cup P3..P3 + 7

BitGet(c, b) ==
  CASE b < 128 -> RamBit(c, b)
    [] b = TCON + 5 -> 1
    [] b = PSW -> Parity(c)
    [] b \in P1..P1 + 7 -> Bit(c.p1val, b % 8)
    [] b \in P3..P3 + 7 -> Bit(c.p3val, b % 8)
    [] b >= 128 /\ b \notin Ports \cup {PSW, TCON + 5} -> SfrBit(c, b)

BitGot(c, b) == IF b \in IoBits THEN Io(c) ELSE c

BitPut(c, b, v) ==
  CASE b < 128 -> PutRamBit(c, b, v)
    [] b = PSW -> c
    [] b \in P1..P1 + 7 -> [Io(c) EXCEPT !.p1val = WithBit(@, b % 8, v)]
    [] b \in P3..P3 + 7 -> [Io(c) EXCEPT !.p3val = WithBit(@, b % 8, v)]
    [] b >= 128 /\ b \notin Ports \cup {PSW} -> PutSfrBit(BitGot(c, b), b, v)

\* diagproc_movx8_write: the write cycle itself is done by the board
MovX(c) == Io(c)
=============================================================================
