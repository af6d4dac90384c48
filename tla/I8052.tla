------------------------------- MODULE I8052 -------------------------------
(***************************************************************************)
(* The instruction set of the 8052 emulator (Diag/i8052_emul.c), one       *)
(* operator for each row of sixteen opcodes; lo is the opcode's low        *)
(* nibble.  The pc stays at the instruction until its last operation.      *)
(* An instruction the emulator does not implement has no value here: the   *)
(* emulator stops.                                                         *)
(***************************************************************************)
EXTENDS DiagSfr

CONSTANT ProgMem      \* the program memory, a function of the address

Fetch(c, i) == ProgMem[c.pc + i]

Go(c, pc) == [c EXCEPT !.pc = pc % 65536]

Skip(c, n) == Go(c, c.pc + n)

\* RELJMP, the offset in the last of the n bytes of the instruction
Branch(c, n, taken) ==
  LET rel == Fetch(c, n - 1)
  IN  Go(c, c.pc + n + (IF taken THEN rel - 256 * Bit(rel, 7) ELSE 0))

\* mcs51_direct_address: iram below 0x80, the SFRs above; 256 + a stands for
\* the SFR a, the numbers below for the bytes of iram
Direct(a) == IF a < 128 THEN a ELSE 256 + a

Get(c, l) == IF l < 256 THEN c.iram[l] ELSE SfrGet(c, l - 256)

Got(c, l) == IF l < 256 THEN c ELSE SfrGot(c, l - 256)

Put(c, l, v) == IF l < 256 THEN [c EXCEPT !.iram[l] = v % 256]
                ELSE SfrPut(c, l - 256, v % 256)

\* The operand of the low nibbles 5 (direct), 6..7 (@Ri) and 8..15 (Rn)
Operand(c, lo) ==
  CASE lo = 5 -> Direct(Fetch(c, 1))
    [] lo \in 6..7 -> c.iram[Reg(c, lo - 6)]
    [] OTHER -> Reg(c, lo - 8)

Size(lo) == IF lo < 6 THEN 2 ELSE 1

\* ... and with 4 for #data, as a value
Value(c, lo) == IF lo = 4 THEN Fetch(c, 1) ELSE Get(c, Operand(c, lo))

Used(c, lo) == IF lo = 4 THEN c ELSE Got(c, Operand(c, lo))

SetA(c, v) == SetSfr(c, ACC, v)

ToA(c, lo, v) == Skip(SetA(Used(c, lo), v), Size(lo))

Modify(c, l, v) == Put(Got(c, l), l, v)

\* ADD that adds the carry, as ADDC does
AddABug(c, lo, carry) ==
  LET sum == A(c) + Value(c, lo) + Carry(c)
  IN  ToA(SetCarry(c, sum \div 256), lo, sum)

AddA(c, lo, carry) ==
  LET sum == A(c) + Value(c, lo) + carry
  IN  ToA(SetCarry(c, sum \div 256), lo, sum)

\* SUBB that takes the difference for negative when it is 0
SubbABug(c, lo) ==
  LET dif == 256 + A(c) - Value(c, lo) - Carry(c)
  IN  ToA(SetCarry(c, Flag(dif <= 256)), lo, dif)

SubbA(c, lo) ==
  LET dif == 256 + A(c) - Value(c, lo) - Carry(c)
  IN  ToA(SetCarry(c, 1 - dif \div 256), lo, dif)

\* mcs51_AJMP_ACALL
AjmpAcall(c, ins) ==
  LET to == ((c.pc + 2) \div 2048) * 2048 + (ins \div 32) * 256 + Fetch(c, 1)
  IN  Go(IF Bit(ins, 4) = 1 THEN PushPc(c, c.pc + 2) ELSE c, to)

Addr16(c) == 256 * Fetch(c, 1) + Fetch(c, 2)

-----------------------------------------------------------------------------

Row0(c, lo) ==
  CASE lo = 0 -> Skip(c, 1)                                          \* NOP
    [] lo = 2 -> Go(c, Addr16(c))                                    \* LJMP
    [] lo = 3 -> Skip(SetA(c, A(c) \div 2 + 128 * Bit(A(c), 0)), 1)  \* RR
    [] lo = 4 -> Skip(SetA(c, A(c) + 1), 1)
    [] lo > 4 -> LET l == Operand(c, lo)
                 IN  Skip(Modify(c, l, Get(c, l) + 1), Size(lo))     \* INC

\* DEC direct of 0 writes -1, which mcs51_direct_address takes for a read.
Row1(c, lo) ==
  LET b == Fetch(c, 1)
  IN
  CASE lo = 0 -> LET set == BitGet(c, b) = 1                         \* JBC
                 IN  Branch(IF set THEN BitPut(c, b, 0) ELSE BitGot(c, b),
                            3, set)
    [] lo = 2 -> Go(PushPc(c, c.pc + 3), Addr16(c))                  \* LCALL
    [] lo = 3 -> Skip(SetCarry(SetA(c, A(c) \div 2 + 128 * Carry(c)),
                               Bit(A(c), 0)), 1)                     \* RRC
    [] lo = 4 -> Skip(SetA(c, A(c) + 255), 1)
    [] lo = 5 -> LET l == Operand(c, lo)                             \* DEC d
                 IN  Skip(IF Get(c, l) = 0 THEN Got(c, l)
                          ELSE Modify(c, l, Get(c, l) - 1), 2)
    [] lo > 5 -> LET l == Operand(c, lo)
                 IN  Skip(Modify(c, l, Get(c, l) + 255), Size(lo))   \* DEC

Row2(c, lo) ==
  LET b == Fetch(c, 1)
  IN
  CASE lo = 0 -> Branch(BitGot(c, b), 3, BitGet(c, b) = 1)           \* JB
    [] lo = 2 -> PopPc(c)                                            \* RET
    [] lo = 3 -> Skip(SetA(c, 2 * A(c) + Bit(A(c), 7)), 1)           \* RL
    [] lo > 3 -> AddA(c, lo, 0)

Row3(c, lo) ==
  LET b == Fetch(c, 1)
  IN
  CASE lo = 0 -> Branch(BitGot(c, b), 3, BitGet(c, b) = 0)           \* JNB
    [] lo = 2 -> LET d == PopPc(c)                                   \* RETI
                 IN  IF c.irq_state > 1
                     THEN [d EXCEPT !.irq_state = @ - 2]
                     ELSE [d EXCEPT !.irq_state = 0]
    [] lo = 3 -> Skip(SetA(SetCarry(c, Bit(A(c), 7)),
                           2 * A(c) + Carry(c)), 1)                  \* RLC
    [] lo > 3 -> AddA(c, lo, Carry(c))

\* The bits that are set in both octets
Common(x, y) ==
  LET sum[n \in 0..8] ==
        IF n = 0 THEN 0 ELSE sum[n - 1] + Bit(x, n - 1) * Bit(y, n - 1) * 2^(n - 1)
  IN  sum[8]

\* The three rows of ORL, ANL and XRL: direct,A; direct,#data; A,operand
Logic(c, lo, how) ==
  LET l == Direct(Fetch(c, 1))
      Op(x, y) == CASE how = "or"  -> x + y - Common(x, y)
                    [] how = "and" -> Common(x, y)
                    [] how = "xor" -> x + y - 2 * Common(x, y)
  IN
  CASE lo = 2 -> Skip(Modify(c, l, Op(Get(c, l), A(c))), 2)
    [] lo = 3 -> Skip(Modify(c, l, Op(Get(c, l), Fetch(c, 2))), 3)
    [] lo > 3 -> ToA(c, lo, Op(A(c), Value(c, lo)))

Row4(c, lo) == IF lo = 0 THEN Branch(c, 2, Carry(c) = 1) ELSE Logic(c, lo, "or")

Row5(c, lo) == IF lo = 0 THEN Branch(c, 2, Carry(c) = 0) ELSE Logic(c, lo, "and")

\* XRL A,#data ands, as ANL A,#data does.
Row6(c, lo) ==
  CASE lo = 0 -> Branch(c, 2, A(c) = 0)
    [] lo = 4 -> Logic(c, lo, "and")
    [] OTHER  -> Logic(c, lo, "xor")

Row7(c, lo) ==
  CASE lo = 0 -> Branch(c, 2, A(c) # 0)
    [] lo = 2 -> Skip(IF BitGet(c, Fetch(c, 1)) = 1                  \* ORL C,
                      THEN SetCarry(BitGot(c, Fetch(c, 1)), 1)
                      ELSE BitGot(c, Fetch(c, 1)), 2)
    [] lo = 3 -> Go(c, Dptr(c) + A(c))                               \* JMP
    [] lo = 4 -> Skip(SetA(c, Fetch(c, 1)), 2)                       \* MOV ,#
    [] lo = 5 -> Skip(Put(c, Direct(Fetch(c, 1)), Fetch(c, 2)), 3)
    [] lo > 5 -> Skip(Put(c, Operand(c, lo), Fetch(c, 1)), 2)

-----------------------------------------------------------------------------

Row8(c, lo) ==
  LET l == Direct(Fetch(c, 1))
  IN
  CASE lo = 0 -> Branch(c, 2, TRUE)                                  \* SJMP
    [] lo = 2 -> LET d == BitGot(c, Fetch(c, 1))                     \* ANL C,
                 IN  Skip(IF BitGet(c, Fetch(c, 1)) = 0
                          THEN SetCarry(d, 0) ELSE d, 2)
    [] lo = 4 -> Skip(SetCarry(SetSfr(SetA(c, A(c) \div c.sfr[B]),
                                      B, A(c) % c.sfr[B]), 0), 1)    \* DIV
    [] lo = 5 -> Skip(Put(Got(c, l), Direct(Fetch(c, 2)), Get(c, l)), 3)
    [] lo > 5 -> Skip(Put(c, l, Get(c, Operand(c, lo))), 2)          \* MOV d,

Row9(c, lo) ==
  CASE lo = 0 -> Skip(SetSfr(SetSfr(c, DPH, Fetch(c, 1)), DPL, Fetch(c, 2)), 3)
    [] lo = 2 -> Skip(BitPut(c, Fetch(c, 1), Carry(c)), 2)           \* MOV b,C
    [] lo = 3 -> Skip(SetA(c, ProgMem[(Dptr(c) + A(c)) % 65536]), 1) \* MOVC
    [] lo > 3 -> SubbA(c, lo)

\* MOV C,bit that can set the carry only
RowABug(c, lo) ==
  LET n == (Dptr(c) + 1) % 65536
  IN
  CASE lo = 2 -> Skip(IF BitGet(c, Fetch(c, 1)) = 1
                      THEN SetCarry(c, 1) ELSE c, 2)
    [] lo = 3 -> Skip(SetSfr(SetSfr(c, DPH, n \div 256), DPL, n), 1)
    [] lo > 5 -> Skip(Put(c, Operand(c, lo), Get(c, Direct(Fetch(c, 1)))), 2)

RowA(c, lo) ==
  LET n == (Dptr(c) + 1) % 65536
  IN
  CASE lo = 2 -> Skip(SetCarry(BitGot(c, Fetch(c, 1)), BitGet(c, Fetch(c, 1))),
                      2)                                             \* MOV C,b
    [] lo = 3 -> Skip(SetSfr(SetSfr(c, DPH, n \div 256), DPL, n), 1)
    [] lo = 4 -> Skip(SetCarry(SetSfr(SetA(c, A(c) * c.sfr[B]),
                                      B, (A(c) * c.sfr[B]) \div 256), 0), 1)
    [] lo > 5 -> LET l == Direct(Fetch(c, 1))                        \* MOV ,d
                 IN  Skip(Put(Got(c, l), Operand(c, lo), Get(c, l)), 2)

\* CJNE compares A with #data or direct, the others with #data
RowB(c, lo) ==
  LET x == IF lo < 6 THEN A(c) ELSE Get(c, Operand(c, lo))
      y == IF lo = 5 THEN Value(c, 5) ELSE Fetch(c, 1)
      d == IF lo = 5 THEN Used(c, 5) ELSE c
  IN
  CASE lo = 2 -> Skip(BitPut(BitGot(c, Fetch(c, 1)), Fetch(c, 1),
                             1 - BitGet(c, Fetch(c, 1))), 2)        \* CPL b
    [] lo = 3 -> Skip(SetCarry(c, 1 - Carry(c)), 1)                 \* CPL C
    [] lo > 3 -> Branch(SetCarry(d, Flag(x < y)), 3, x # y)

RowC(c, lo) ==
  LET l == Direct(Fetch(c, 1))
  IN
  CASE lo = 0 -> Skip(Push(Got(c, l), Get(c, l)), 2)
    [] lo = 2 -> Skip(BitPut(c, Fetch(c, 1), 0), 2)                  \* CLR b
    [] lo = 3 -> Skip(SetCarry(c, 0), 1)
    [] lo = 4 -> Skip(SetA(c, 16 * A(c) + A(c) \div 16), 1)          \* SWAP
    [] lo > 7 -> Skip(SetA(Put(c, Operand(c, lo), A(c)), Value(c, lo)), 1)

RowD(c, lo) ==
  LET l == Operand(c, lo)
      n == (Get(c, l) + 255) % 256
  IN
  CASE lo = 0 -> Skip(Put(Pop(c), Direct(Fetch(c, 1)), Top(c)), 2)
    [] lo = 2 -> Skip(BitPut(c, Fetch(c, 1), 1), 2)                  \* SETB b
    [] lo = 3 -> Skip(SetCarry(c, 1), 1)
    [] lo = 5 -> Branch(Modify(c, l, n), 3, n # 0)                   \* DJNZ
    [] lo > 7 -> Branch(Modify(c, l, n), 2, n # 0)

RowE(c, lo) ==
  CASE lo = 4 -> Skip(SetA(c, 0), 1)
    [] lo > 4 -> ToA(c, lo, Value(c, lo))

RowF(c, lo) ==
  CASE lo \in 2..3 -> Skip(MovX(c), 1)
    [] lo = 4 -> Skip(SetA(c, 255 - A(c)), 1)
    [] lo > 4 -> Skip(Put(c, Operand(c, lo), A(c)), Size(lo))

-----------------------------------------------------------------------------

\* The serial interrupt, the only one: two levels, and none inside itself.
Interrupted(c) ==
  /\ Bit(c.sfr[IE], 7) = 1 /\ Bit(c.sfr[IE], 4) = 1
  /\ c.sfr[SCON] % 4 # 0
  /\ IF Bit(c.sfr[IP], 4) = 1 THEN c.irq_state < 2 ELSE c.irq_state = 0

Interrupt(c) ==
  [PushPc(c, c.pc) EXCEPT
     !.pc = 35,
     !.irq_state = IF Bit(c.sfr[IP], 4) = 1 THEN @ + 2 ELSE 1]

Execute(c) ==
  LET ins == Fetch(c, 0)
      hi == ins \div 16
      lo == ins % 16
  IN
  IF lo = 1 THEN AjmpAcall(c, ins)
  ELSE CASE
       hi = 0 -> Row0(c, lo)   [] hi = 1 -> Row1(c, lo)
    [] hi = 2 -> Row2(c, lo)   [] hi = 3 -> Row3(c, lo)
    [] hi = 4 -> Row4(c, lo)   [] hi = 5 -> Row5(c, lo)
    [] hi = 6 -> Row6(c, lo)   [] hi = 7 -> Row7(c, lo)
    [] hi = 8 -> Row8(c, lo)   [] hi = 9 -> Row9(c, lo)
    [] hi = 10 -> RowA(c, lo)  [] hi = 11 -> RowB(c, lo)
    [] hi = 12 -> RowC(c, lo)  [] hi = 13 -> RowD(c, lo)
    [] hi = 14 -> RowE(c, lo)  [] hi = 15 -> RowF(c, lo)

SingleStep(c) == IF Interrupted(c) THEN Interrupt(c) ELSE Execute(c)

-----------------------------------------------------------------------------

\* The reference for the instructions that compute over several octets: what
\* programs of two or four of them make of words of two octets.

Load(c, a, r0) == [SetA(c, a) EXCEPT !.iram[0] = r0]

\* A word of the carry and the results of two instructions, R0 their operand
Longer(c, d) == 65536 * Carry(d) + 256 * A(d) + A(c)

\* ... of which the carry is the sign
Signed(c, d) == Longer(c, d) - 131072 * Carry(d)

AddsWords(x, y) ==
  LET c == Row2(Load(Reset, x % 256, y % 256), 8)                    \* ADD
      d == Row3(Load(c, x \div 256, y \div 256), 8)                  \* ADDC
  IN  Longer(c, d) = x + y

SubtractsWords(x, y) ==
  LET c == Row9(Load(Reset, x % 256, y % 256), 8)                    \* SUBB
      d == Row9(Load(c, x \div 256, y \div 256), 8)                  \* SUBB
  IN  Signed(c, d) = x - y

\* The quotient times the divisor, and the remainder, is the dividend.
DivUndone(x, y) ==
  LET c == Row8([Load(Reset, x, 0) EXCEPT !.sfr[B] = y], 4)          \* DIV
      d == RowA([c EXCEPT !.sfr[B] = y], 4)                          \* MUL
  IN  256 * d.sfr[B] + A(d) + c.sfr[B] = x /\ c.sfr[B] < y

\* A word shifted to the left through the carry, and back to the right
ShiftsWord(x) ==
  LET c == Row3(Load(Reset, x % 256, 0), 3)                          \* RLC
      d == Row3(Load(c, x \div 256, 0), 3)                           \* RLC
      e == Row1(d, 3)                                                \* RRC
      f == Row1(Load(e, A(c), 0), 3)                                 \* RRC
  IN  Longer(c, d) = 2 * x /\ 256 * A(e) + A(f) = x

TwoOctets(octets) == {256 * h + l : h, l \in octets}

\* The carry takes what one instruction has left over to the next, at every
\* boundary: sums, differences and shifts of words are those of numbers, and
\* a product undoes a quotient.
WordsAreNumbers(octets) ==
  /\ \A x, y \in TwoOctets(octets) : AddsWords(x, y) /\ SubtractsWords(x, y)
  /\ \A x \in octets, y \in octets \ {0} : DivUndone(x, y)
  /\ \A x \in TwoOctets(octets) : ShiftsWord(x)
=============================================================================
