----------------------------- MODULE I8052Regs -----------------------------
(***************************************************************************)
(* The state of the 8052 emulator (Diag/i8052_emul.c) as a record c: pc,   *)
(* iram, sfr, irq_state, the port pins the diag processor keeps for it     *)
(* (p1val, p2val, p3val), did_io, and tx, the bytes this step transmits.   *)
(* An operator returns a value, or the record after the operation.         *)
(***************************************************************************)
EXTENDS Integers, Sequences

P0 == 128    SP == 129    DPL == 130   DPH == 131   TCON == 136  TMOD == 137
TL0 == 138   TH0 == 140   P1 == 144    SCON == 152  SBUF == 153  P2 == 160
IE == 168    P3 == 176    IP == 184    PSW == 208   ACC == 224   B == 240

Sfrs == {P0, SP, DPL, DPH, TCON, TMOD, TL0, TH0, P1, SCON, SBUF, P2, IE, P3,
         IP, PSW, ACC, B}

Bit(x, n) == (x \div 2^n) % 2

WithBit(x, n, b) == x + (b - Bit(x, n)) * 2^n

Flag(p) == IF p THEN 1 ELSE 0

SetSfr(c, a, v) == [c EXCEPT !.sfr[a] = v % 256]

SetSfrBit(c, a, n, b) == [c EXCEPT !.sfr[a] = WithBit(@, n, b)]

A(c) == c.sfr[ACC]

Carry(c) == Bit(c.sfr[PSW], 7)

SetCarry(c, b) == SetSfrBit(c, PSW, 7, b)

Dptr(c) == 256 * c.sfr[DPH] + c.sfr[DPL]

\* The register bank is chosen by PSW.4 and PSW.3.
Reg(c, n) == 8 * ((c.sfr[PSW] \div 8) % 4) + n

Push(c, v) ==
  LET sp == (c.sfr[SP] + 1) % 256
  IN  [c EXCEPT !.sfr[SP] = sp, !.iram[sp] = v]

Top(c) == c.iram[c.sfr[SP]]

\* What is popped is dead: it is 0 here, and not the old byte, in the memory.
Pop(c) == [SetSfr(c, SP, c.sfr[SP] + 255) EXCEPT !.iram[c.sfr[SP]] = 0]

PushPc(c, pc) == Push(Push(c, pc % 256), pc \div 256)

PopPc(c) == [Pop(Pop(c)) EXCEPT !.pc = 256 * Top(c) + Top(Pop(c))]

-----------------------------------------------------------------------------

\* mcs51_bitfunc_ram, mcs51_bitfunc_default and mcs51_bitfunc_psw_p: a bit
\* address below 128 is a bit of iram 0x20..0x2f, the others are bits of the
\* SFR whose address is the bit address rounded down.
RamBit(c, b) == Bit(c.iram[32 + b \div 8], b % 8)

PutRamBit(c, b, v) == [c EXCEPT !.iram[32 + b \div 8] = WithBit(@, b % 8, v)]

SfrBit(c, b) == Bit(c.sfr[b - (b % 8)], b % 8)

PutSfrBit(c, b, v) == SetSfrBit(c, b - (b % 8), b % 8, v)

Parity(c) == LET sum[n \in 0..8] ==
                   IF n = 0 THEN 0 ELSE sum[n - 1] + Bit(A(c), n - 1)
             IN  sum[8] % 2

\* Timer 0 counts while TR0 is set; TF0 when it wraps.
TimerTick(c) ==
  LET n == (256 * c.sfr[TH0] + c.sfr[TL0] + 1) % 65536
  IN  IF Bit(c.sfr[TCON], 4) = 0 THEN c
      ELSE SetSfrBit(SetSfr(SetSfr(c, TH0, n \div 256), TL0, n),
                     TCON, 5, IF n = 0 THEN 1 ELSE Bit(c.sfr[TCON], 5))

\* calloc and MCS51_Reset.
Reset ==
  [pc |-> 0, irq_state |-> 0, did_io |-> FALSE, tx |-> << >>,
   p1val |-> 0, p2val |-> 0, p3val |-> 0,
   iram |-> [a \in 0..255 |-> 0],
   sfr |-> [a \in Sfrs |-> CASE a = SP -> 7
                             [] a \in {P0, P1, P2, P3} -> 255
                             [] OTHER -> 0]]

\* MCS51_Rx: a byte arrives at the serial port.  With SM2 set (SCON.5) only a
\* byte with the ninth bit raises RI (SCON.0).
Accepts(c) == Bit(c.sfr[SCON], 4) = 1 /\ Bit(c.sfr[SCON], 0) = 0

Raises(c, ninth) == Accepts(c) /\ (ninth = 1 \/ Bit(c.sfr[SCON], 5) = 0)

Rx(c, byte, ninth) ==
  IF ~ Accepts(c) THEN c
  ELSE SetSfrBit(SetSfrBit(SetSfr(c, SBUF, byte), SCON, 3, ninth),
                 SCON, 0, Flag(Raises(c, ninth)))
=============================================================================
