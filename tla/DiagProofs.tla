----------------------------- MODULE DiagProofs -----------------------------
(***************************************************************************)
(* Proofs about the processor of DiagProc, whatever program it has: what   *)
(* the arithmetic of the 8052 computes over several octets, for all        *)
(* octets, and that an interrupt and its return leave no trace.            *)
(***************************************************************************)
EXTENDS DiagProc, TLAPS

(* The octets.                                                              *)
Octet == 0..255

(* The record of a processor.                                               *)
Cpu ==
  [pc : Int, irq_state : Nat, did_io : BOOLEAN, tx : Seq(Octet), p1val : Octet,
   p2val : Octet, p3val : Octet, iram : [Octet -> Octet], sfr : [Sfrs -> Octet]]

(* A processor that has done arithmetic only: of the PSW, the carry may be  *)
(* set, so that R0 is the first octet of the memory.                        *)
Computing(c) == c \in Cpu /\ c.sfr[PSW] \in {0, 128}

(* The registers the arithmetic uses are three.                             *)
LEMMA SfrsAre ==
  /\ ACC \in Sfrs /\ PSW \in Sfrs /\ B \in Sfrs
  /\ ACC # PSW /\ ACC # B /\ B # PSW
  BY DEF Sfrs, ACC, PSW, B

(* The carry is the first bit of the PSW.                                   *)
LEMMA CarryBit ==
  /\ Bit(0, 7) = 0 /\ Bit(128, 7) = 1
  /\ WithBit(0, 7, 0) = 0 /\ WithBit(0, 7, 1) = 128
  /\ WithBit(128, 7, 0) = 0 /\ WithBit(128, 7, 1) = 128
  BY DEF Bit, WithBit

(* A processor after a reset.                                               *)
LEMMA ResetIs ==
  Computing(Reset) /\ Carry(Reset) = 0
<1> DEFINE I == [a \in 0..255 |-> 0]
           S == [a \in Sfrs |-> CASE a = SP -> 7
                                  [] a \in {P0, P1, P2, P3} -> 255
                                  [] OTHER -> 0]
<1>1. Reset = [pc |-> 0, irq_state |-> 0, did_io |-> FALSE, tx |-> << >>,
               p1val |-> 0, p2val |-> 0, p3val |-> 0, iram |-> I, sfr |-> S]
  BY Zenon DEF Reset
<1>2. \A a \in Sfrs : S[a] = IF a = SP THEN 7 ELSE IF a \in {P0, P1, P2, P3} THEN 255 ELSE 0
  BY SMT DEF SP, P0, P1, P2, P3
<1>3. S \in [Sfrs -> Octet]
  <2>1. \A a \in Sfrs : S[a] \in Octet
    <3> HIDE DEF S
    <3> QED
      BY <1>2, SMT DEF Octet
  <2> QED
    BY <2>1, Zenon
<1>4. S[PSW] = 0
  <2> HIDE DEF S
  <2> QED
    BY <1>2, SfrsAre DEF SP, P0, P1, P2, P3, PSW
<1>5. I \in [Octet -> Octet]
  BY DEF Octet
<1> HIDE DEF I, S
<1>6. Reset \in Cpu
  <2>1. 0 \in Int /\ 0 \in Nat /\ 0 \in Octet /\ << >> \in Seq(Octet)
    BY DEF Octet
  <2> QED
    BY <1>1, <1>3, <1>5, <2>1, Zenon DEF Cpu
<1>7. Reset.sfr = S
  BY <1>1, Zenon
<1> QED
  BY <1>4, <1>6, <1>7, CarryBit, Zenon DEF Computing, Carry

(* What an operation leaves: A, B and the carry; the memory stays.          *)
Becomes(c, d, a, b, k) ==
  /\ Computing(d) /\ A(d) = a /\ d.sfr[B] = b /\ Carry(d) = k /\ d.iram = c.iram

(* What such a processor holds.                                             *)
LEMMA ComputingIs ==
  ASSUME NEW c, Computing(c)
  PROVE  /\ A(c) \in Octet /\ c.sfr[B] \in Octet /\ Carry(c) \in 0..1
         /\ c.sfr \in [Sfrs -> Octet] /\ c.iram \in [Octet -> Octet] /\ c.iram[0] \in Octet
         /\ c.sfr[PSW] \in {0, 128} /\ c.pc \in Int
<1>1. /\ c.sfr \in [Sfrs -> Octet] /\ c.iram \in [Octet -> Octet] /\ c.pc \in Int
      /\ c.sfr[PSW] \in {0, 128}
  BY Zenon DEF Computing, Cpu
<1>2. 0 \in Octet
  BY DEF Octet
<1>3. A(c) \in Octet /\ c.sfr[B] \in Octet /\ c.iram[0] \in Octet
  <2>1. c.sfr[ACC] \in Octet
    BY <1>1, SfrsAre
  <2>2. c.sfr[B] \in Octet
    BY <1>1, SfrsAre
  <2>3. c.iram[0] \in Octet
    BY <1>1, <1>2
  <2> QED
    BY <2>1, <2>2, <2>3, Zenon DEF A
<1>4. Carry(c) \in 0..1
  BY <1>1, CarryBit DEF Carry
<1> QED
  BY <1>1, <1>3, <1>4, Zenon

(* What a write of one register leaves.                                     *)
Wrote(c, d, a, v) ==
  /\ d \in Cpu /\ d.iram = c.iram /\ d.sfr[a] = v
  /\ \A b \in Sfrs : b # a => d.sfr[b] = c.sfr[b]

(* A special function register is set, and no other.                        *)
LEMMA SfrSet ==
  ASSUME NEW c \in Cpu, NEW a \in Sfrs, NEW v \in Octet
  PROVE  Wrote(c, [c EXCEPT !.sfr[a] = v], a, v)
<1>1. c.sfr \in [Sfrs -> Octet]
  BY Zenon DEF Cpu
<1>2. [c.sfr EXCEPT ![a] = v] \in [Sfrs -> Octet]
  BY <1>1, Zenon
<1>3. PICK s \in [Sfrs -> Octet] : s = [c.sfr EXCEPT ![a] = v]
  BY <1>2, Zenon
<1>4. s[a] = v /\ \A b \in Sfrs : b # a => s[b] = c.sfr[b]
  BY <1>1, <1>3, Zenon
<1>5. [c EXCEPT !.sfr[a] = v] = [c EXCEPT !.sfr = s]
  BY <1>3, Zenon
<1>6. [c EXCEPT !.sfr = s] \in Cpu
  BY Zenon DEF Cpu
<1>7. [c EXCEPT !.sfr = s].sfr = s /\ [c EXCEPT !.sfr = s].iram = c.iram
  BY Zenon DEF Cpu
<1> QED
  BY <1>4, <1>5, <1>6, <1>7, Zenon DEF Wrote

(* The operations the instructions are made of: on A, ...                   *)
LEMMA SetAIs ==
  ASSUME NEW c, Computing(c), NEW v \in Nat
  PROVE  Becomes(c, SetA(c, v), v % 256, c.sfr[B], Carry(c))
<1>1. c \in Cpu /\ (v % 256) \in Octet
  BY DEF Computing, Octet
<1>2. PICK w \in Octet : w = v % 256
  BY <1>1, Zenon
<1>3. SetA(c, v) = [c EXCEPT !.sfr[ACC] = w]
  BY <1>2, Zenon DEF SetA, SetSfr
<1>4. PICK d : d = [c EXCEPT !.sfr[ACC] = w]
  OBVIOUS
<1>5. Wrote(c, d, ACC, w)
  BY <1>1, <1>4, SfrSet, SfrsAre, Zenon
<1>6. d.sfr[PSW] = c.sfr[PSW] /\ d.sfr[B] = c.sfr[B]
  BY <1>5, SfrsAre, Zenon DEF Wrote
<1> QED
  BY <1>2, <1>3, <1>4, <1>5, <1>6, Zenon DEF Becomes, Computing, A, Carry, Wrote

(* ... on B, ...                                                            *)
LEMMA SetBIs ==
  ASSUME NEW c, Computing(c), NEW v \in Octet
  PROVE  Becomes(c, [c EXCEPT !.sfr[B] = v], A(c), v, Carry(c))
<1>1. c \in Cpu
  BY Zenon DEF Computing
<1>2. PICK d : d = [c EXCEPT !.sfr[B] = v]
  OBVIOUS
<1>3. Wrote(c, d, B, v)
  BY <1>1, <1>2, SfrSet, SfrsAre, Zenon
<1>4. d.sfr[PSW] = c.sfr[PSW] /\ d.sfr[ACC] = c.sfr[ACC]
  BY <1>3, SfrsAre, Zenon DEF Wrote
<1> QED
  BY <1>2, <1>3, <1>4, Zenon DEF Becomes, Computing, A, Carry, Wrote

(* ... on the carry, ...                                                    *)
LEMMA SetCarryIs ==
  ASSUME NEW c, Computing(c), NEW k \in 0..1
  PROVE  Becomes(c, SetCarry(c, k), A(c), c.sfr[B], k)
<1>1. c \in Cpu
  BY Zenon DEF Computing
<1>2. PICK w : w \in {0, 128} /\ w = WithBit(c.sfr[PSW], 7, k) /\ Bit(w, 7) = k
  BY CarryBit DEF Computing
<1>3. w \in Octet
  <2>1. \A v \in {0, 128} : v \in Octet
    BY DEF Octet
  <2> QED
    BY <1>2, <2>1, Zenon
<1>4. SetCarry(c, k) = [c EXCEPT !.sfr[PSW] = w]
  BY <1>2, Zenon DEF SetCarry, SetSfrBit
<1>5. PICK d : d = [c EXCEPT !.sfr[PSW] = w]
  OBVIOUS
<1>6. Wrote(c, d, PSW, w)
  <2>1. PSW \in Sfrs
    BY SfrsAre, Zenon
  <2>2. Wrote(c, [c EXCEPT !.sfr[PSW] = w], PSW, w)
    BY <1>1, <1>3, <2>1, SfrSet, Zenon
  <2> QED
    BY <1>5, <2>2, Zenon
<1>7. d.sfr[ACC] = c.sfr[ACC] /\ d.sfr[B] = c.sfr[B]
  BY <1>6, SfrsAre, Zenon DEF Wrote
<1> QED
  BY <1>2, <1>4, <1>5, <1>6, <1>7, Zenon DEF Becomes, Computing, A, Carry, Wrote

(* ... and on the program counter.                                          *)
LEMMA SkipIs ==
  ASSUME NEW c, Computing(c)
  PROVE  Becomes(c, Skip(c, 1), A(c), c.sfr[B], Carry(c))
<1>1. c \in Cpu /\ c.pc \in Int
  BY Zenon DEF Computing, Cpu
<1>2. PICK p : p = (c.pc + 1) % 65536
  OBVIOUS
<1>3. p \in Int
  BY <1>1, <1>2
<1>4. Skip(c, 1) = [c EXCEPT !.pc = p]
  BY <1>2, SMT DEF Skip, Go
<1>5. PICK d : d = [c EXCEPT !.pc = p]
  OBVIOUS
<1>6. d \in Cpu /\ d.iram = c.iram /\ d.sfr = c.sfr
  BY <1>3, <1>1, <1>5, Zenon DEF Cpu
<1> QED
  BY <1>4, <1>5, <1>6, Zenon DEF Becomes, Computing, A, Carry, Wrote

(* Loaded anew: A and R0.                                                   *)
LEMMA LoadIs ==
  ASSUME NEW c, Computing(c), NEW a \in Octet, NEW r0 \in Octet
  PROVE  LET d == Load(c, a, r0)
         IN  /\ Computing(d) /\ A(d) = a /\ d.iram[0] = r0
             /\ Carry(d) = Carry(c) /\ d.sfr[B] = c.sfr[B]
<1>1. PICK e : e = SetA(c, a)
  OBVIOUS
<1>2. Becomes(c, e, a, c.sfr[B], Carry(c))
  <2>1. a \in Nat /\ a % 256 = a
    BY DEF Octet
  <2>2. Becomes(c, e, a % 256, c.sfr[B], Carry(c))
    BY <1>1, <2>1, SetAIs, Zenon
  <2> QED
    BY <2>1, <2>2, Zenon
<1>3. PICK d : d = [e EXCEPT !.iram[0] = r0]
  OBVIOUS
<1>4. Load(c, a, r0) = d
  BY <1>1, <1>3, Zenon DEF Load
<1>5. e \in Cpu
  BY <1>2, Zenon DEF Becomes, Computing
<1>6. d \in Cpu /\ d.iram[0] = r0 /\ d.sfr = e.sfr
  <2>1. e.iram \in [Octet -> Octet] /\ 0 \in Octet
    <3>1. e.iram \in [Octet -> Octet]
      BY <1>5, Zenon DEF Cpu
    <3>2. 0 \in Octet
      BY DEF Octet
    <3> QED
      BY <3>1, <3>2
  <2>2. [e.iram EXCEPT ![0] = r0] \in [Octet -> Octet]
    BY <2>1, Zenon
  <2>3. PICK i \in [Octet -> Octet] : i = [e.iram EXCEPT ![0] = r0]
    BY <2>2, Zenon
  <2>4. i[0] = r0
    BY <2>1, <2>3, Zenon
  <2>5. d = [e EXCEPT !.iram = i]
    BY <1>3, <2>3, Zenon
  <2>6. [e EXCEPT !.iram = i] \in Cpu
    BY <1>5, Zenon DEF Cpu
  <2>7. [e EXCEPT !.iram = i].iram = i /\ [e EXCEPT !.iram = i].sfr = e.sfr
    BY <1>5, Zenon DEF Cpu
  <2> QED
    BY <2>4, <2>5, <2>6, <2>7, Zenon
<1> QED
  BY <1>2, <1>4, <1>6, Zenon DEF Becomes, Computing, A, Carry

(* An instruction with operand R0 works on the first octet.                 *)
LEMMA R0Is ==
  ASSUME NEW c, Computing(c)
  PROVE  Operand(c, 8) = 0 /\ Value(c, 8) = c.iram[0] /\ Used(c, 8) = c
<1>1. c.sfr[PSW] \in {0, 128}
  BY Zenon DEF Computing
<1>2. Reg(c, 0) = 0
  BY <1>1 DEF Reg
<1>3. Operand(c, 8) = Reg(c, 8 - 8)
  BY SMT DEF Operand
<1>4. Operand(c, 8) = 0
  BY <1>2, <1>3
<1>5. Value(c, 8) = c.iram[0]
  BY <1>4, SMT DEF Value, Get
<1>6. Used(c, 8) = c
  BY <1>4, SMT DEF Used, Got
<1> QED
  BY <1>4, <1>5, <1>6

-----------------------------------------------------------------------------
(* The operands in A and R0.                                                *)
Loaded(c, a, r) == Computing(c) /\ A(c) = a /\ c.iram[0] = r

(* What an addition leaves.                                                 *)
Addition(d, a, r, k) ==
  /\ Computing(d) /\ A(d) = (a + r + k) % 256 /\ Carry(d) = (a + r + k) \div 256

(* A sum of two octets and a carry has one bit more.                        *)
LEMMA SumIs ==
  ASSUME NEW a \in Octet, NEW r \in Octet, NEW k \in 0..1, NEW s, s = a + r + k
  PROVE  s \in Nat /\ (s \div 256) \in 0..1
BY DEF Octet

(* ADD A,R0 and ADDC A,R0.                                                  *)
LEMMA AddIs ==
  ASSUME NEW c, NEW a, NEW r, NEW k \in 0..1, Loaded(c, a, r)
  PROVE  Addition(AddA(c, 8, k), a, r, k)
<1>1. Computing(c) /\ A(c) = a /\ c.iram[0] = r
  BY Zenon DEF Loaded
<1>2. a \in Octet /\ r \in Octet
  BY <1>1, ComputingIs, Zenon
<1>3. PICK s : s = a + r + k
  OBVIOUS
<1>4. s \in Nat /\ (s \div 256) \in 0..1
  BY <1>2, <1>3, SumIs, Zenon
<1>5. PICK d : d = SetCarry(c, s \div 256)
  OBVIOUS
<1>6. Becomes(c, d, A(c), c.sfr[B], s \div 256)
  BY <1>1, <1>4, <1>5, SetCarryIs, Zenon
<1>7. PICK e : e = SetA(d, s)
  OBVIOUS
<1>8. Becomes(d, e, s % 256, d.sfr[B], Carry(d))
  BY <1>4, <1>6, <1>7, SetAIs, Zenon DEF Becomes
<1>9. PICK f : f = Skip(e, 1)
  OBVIOUS
<1>10. Becomes(e, f, A(e), e.sfr[B], Carry(e))
  BY <1>8, <1>9, SkipIs, Zenon DEF Becomes
<1>11. Size(8) = 1
  BY DEF Size
<1>12. AddA(c, 8, k) = f
  <2>1. Value(c, 8) = r
    BY <1>1, R0Is, Zenon
  <2>2. Used(d, 8) = d
    BY <1>6, R0Is, Zenon DEF Becomes
  <2>3. AddA(c, 8, k) = ToA(d, 8, s)
    BY <1>1, <1>3, <1>5, <2>1, Zenon DEF AddA
  <2> QED
    BY <1>7, <1>9, <1>11, <2>2, <2>3, Zenon DEF ToA
<1> QED
  BY <1>3, <1>6, <1>8, <1>10, <1>12, Zenon DEF Becomes, Addition

(* What a subtraction leaves.                                               *)
Subtraction(d, a, r, k) ==
  /\ Computing(d) /\ A(d) = (256 + a - r - k) % 256
  /\ Carry(d) = 1 - ((256 + a - r - k) \div 256)

(* A difference, with 256 in front, borrows it or does not.                 *)
LEMMA DifferenceIs ==
  ASSUME NEW a \in Octet, NEW r \in Octet, NEW k \in 0..1
  PROVE  \E s \in Nat : s = 256 + a - r - k /\ (1 - (s \div 256)) \in 0..1
<1>1. PICK s \in Int : s = 256 + a - r - k
  BY DEF Octet
<1>2. s \in Nat /\ (1 - (s \div 256)) \in 0..1
  BY <1>1 DEF Octet
<1> QED
  BY <1>1, <1>2, Zenon

(* SUBB A,R0.                                                               *)
LEMMA SubbIs ==
  ASSUME NEW c, NEW a, NEW r, NEW k \in 0..1, Loaded(c, a, r), Carry(c) = k
  PROVE  Subtraction(SubbA(c, 8), a, r, k)
<1>1. Computing(c) /\ A(c) = a /\ c.iram[0] = r
  BY Zenon DEF Loaded
<1>2. a \in Octet /\ r \in Octet
  BY <1>1, ComputingIs, Zenon
<1>3. PICK s \in Nat : s = 256 + a - r - k /\ (1 - (s \div 256)) \in 0..1
  BY <1>2, DifferenceIs
<1>4. s \in Nat /\ (1 - (s \div 256)) \in 0..1
  BY <1>3, Zenon
<1>5. PICK d : d = SetCarry(c, 1 - (s \div 256))
  OBVIOUS
<1>6. Becomes(c, d, A(c), c.sfr[B], 1 - (s \div 256))
  BY <1>1, <1>4, <1>5, SetCarryIs, Zenon
<1>7. PICK e : e = SetA(d, s)
  OBVIOUS
<1>8. Becomes(d, e, s % 256, d.sfr[B], Carry(d))
  BY <1>4, <1>6, <1>7, SetAIs, Zenon DEF Becomes
<1>9. PICK f : f = Skip(e, 1)
  OBVIOUS
<1>10. Becomes(e, f, A(e), e.sfr[B], Carry(e))
  BY <1>8, <1>9, SkipIs, Zenon DEF Becomes
<1>11. Size(8) = 1
  BY DEF Size
<1>12. SubbA(c, 8) = f
  <2>1. Value(c, 8) = r
    BY <1>1, R0Is, Zenon
  <2>2. Used(d, 8) = d
    BY <1>6, R0Is, Zenon DEF Becomes
  <2>3. A(c) = a /\ Carry(c) = k /\ s = 256 + a - r - k
    BY <1>1, <1>3, Zenon
  <2>4. SubbA(c, 8) = ToA(d, 8, s)
    BY <1>5, <2>1, <2>3, Zenon DEF SubbA
  <2> QED
    BY <1>7, <1>9, <1>11, <2>2, <2>4, Zenon DEF ToA
<1> QED
  BY <1>3, <1>6, <1>8, <1>10, <1>12, Zenon DEF Becomes, Subtraction

(* RLC A.                                                                   *)
LEMMA RlcIs ==
  ASSUME NEW c, Computing(c)
  PROVE  Becomes(c, Row3(c, 3), (2 * A(c) + Carry(c)) % 256, c.sfr[B], Bit(A(c), 7))
<1>1. A(c) \in Octet /\ Carry(c) \in 0..1
  BY ComputingIs, Zenon
<1>2. PICK s : s = 2 * A(c) + Carry(c)
  OBVIOUS
<1>3. s \in Nat /\ Bit(A(c), 7) \in 0..1
  BY <1>1, <1>2 DEF Octet, Bit
<1>4. PICK d : d = SetCarry(c, Bit(A(c), 7))
  OBVIOUS
<1>5. Becomes(c, d, A(c), c.sfr[B], Bit(A(c), 7))
  BY <1>3, <1>4, SetCarryIs, Zenon
<1>6. PICK e : e = SetA(d, s)
  OBVIOUS
<1>7. Becomes(d, e, s % 256, d.sfr[B], Carry(d))
  BY <1>3, <1>5, <1>6, SetAIs, Zenon DEF Becomes
<1>8. PICK f : f = Skip(e, 1)
  OBVIOUS
<1>9. Becomes(e, f, A(e), e.sfr[B], Carry(e))
  BY <1>7, <1>8, SkipIs, Zenon DEF Becomes
<1>10. Row3(c, 3) = f
  <2>1. Row3(c, 3) = Skip(SetA(SetCarry(c, Bit(A(c), 7)), 2 * A(c) + Carry(c)), 1)
    BY SMT DEF Row3
  <2> QED
    BY <1>2, <1>4, <1>6, <1>8, <2>1, Zenon
<1> QED
  BY <1>2, <1>5, <1>7, <1>9, <1>10, Zenon DEF Becomes

(* RRC A.                                                                   *)
LEMMA RrcIs ==
  ASSUME NEW c, Computing(c)
  PROVE  Becomes(c, Row1(c, 3), A(c) \div 2 + 128 * Carry(c), c.sfr[B], Bit(A(c), 0))
<1>1. A(c) \in Octet /\ Carry(c) \in 0..1
  BY ComputingIs, Zenon
<1>2. PICK s : s = A(c) \div 2 + 128 * Carry(c)
  OBVIOUS
<1>3. s \in Nat /\ s % 256 = s /\ Bit(A(c), 0) \in 0..1
  BY <1>1, <1>2 DEF Octet, Bit
<1>4. PICK d : d = SetA(c, s)
  OBVIOUS
<1>5. Becomes(c, d, s, c.sfr[B], Carry(c))
  <2>1. Becomes(c, d, s % 256, c.sfr[B], Carry(c))
    BY <1>3, <1>4, SetAIs, Zenon
  <2> QED
    BY <1>3, <2>1, Zenon
<1>6. PICK e : e = SetCarry(d, Bit(A(c), 0))
  OBVIOUS
<1>7. Becomes(d, e, A(d), d.sfr[B], Bit(A(c), 0))
  BY <1>3, <1>5, <1>6, SetCarryIs, Zenon DEF Becomes
<1>8. PICK f : f = Skip(e, 1)
  OBVIOUS
<1>9. Becomes(e, f, A(e), e.sfr[B], Carry(e))
  BY <1>7, <1>8, SkipIs, Zenon DEF Becomes
<1>10. Row1(c, 3) = f
  <2>1. Row1(c, 3) = Skip(SetCarry(SetA(c, A(c) \div 2 + 128 * Carry(c)), Bit(A(c), 0)), 1)
    BY SMT DEF Row1
  <2> QED
    BY <1>2, <1>4, <1>6, <1>8, <2>1, Zenon
<1> QED
  BY <1>2, <1>5, <1>7, <1>9, <1>10, Zenon DEF Becomes

(* Quotient and remainder of two octets.                                    *)
LEMMA DivMod ==
  ASSUME NEW x \in Octet, NEW y \in 1..255
  PROVE  /\ (x \div y) \in Octet /\ (x % y) \in Octet /\ (x % y) < y
         /\ (x \div y) * y + (x % y) = x /\ (x \div y) * y \in Octet
<1>1. (x \div y) \in Nat /\ (x % y) \in 0..(y - 1) /\ x = y * (x \div y) + (x % y)
  BY DEF Octet
<1>2. PICK q \in Nat : q = x \div y
  BY <1>1
<1>3. PICK m \in Nat : m = x % y
  BY <1>1
<1>4. m < y /\ x = y * q + m
  BY <1>1, <1>2, <1>3
<1>5. q <= y * q
  OBVIOUS
<1>6. q * y = y * q
  OBVIOUS
<1>7. q \in Octet /\ m \in Octet /\ q * y + m = x /\ q * y \in Octet
  BY <1>4, <1>5, <1>6 DEF Octet
<1> QED
  BY <1>2, <1>3, <1>4, <1>7

(* DIV AB.                                                                  *)
LEMMA DivIs ==
  ASSUME NEW c, Computing(c), c.sfr[B] \in 1..255
  PROVE  Becomes(c, Row8(c, 4), A(c) \div c.sfr[B], A(c) % c.sfr[B], 0)
<1>1. PICK x \in Octet : x = A(c)
  BY ComputingIs, Zenon
<1>2. PICK y \in 1..255 : y = c.sfr[B]
  OBVIOUS
<1>3. PICK q \in Octet : q = x \div y
  BY DivMod, Zenon
<1>4. PICK m \in Octet : m = x % y
  BY DivMod, Zenon
<1>5. q \in Nat /\ (q % 256) = q /\ (m % 256) = m
  BY DEF Octet
<1>6. PICK d : d = SetA(c, q)
  OBVIOUS
<1>7. Becomes(c, d, q, c.sfr[B], Carry(c))
  <2>1. Becomes(c, d, q % 256, c.sfr[B], Carry(c))
    BY <1>5, <1>6, SetAIs, Zenon
  <2> QED
    BY <1>5, <2>1, Zenon
<1>8. PICK e : e = SetSfr(d, B, m)
  OBVIOUS
<1>9. Becomes(d, e, A(d), m, Carry(d))
  <2>1. e = [d EXCEPT !.sfr[B] = m]
    BY <1>5, <1>8, Zenon DEF SetSfr
  <2> QED
    BY <1>7, <2>1, SetBIs, Zenon DEF Becomes
<1>10. PICK f : f = SetCarry(e, 0)
  OBVIOUS
<1>11. Becomes(e, f, A(e), e.sfr[B], 0)
  <2>1. 0 \in 0..1
    OBVIOUS
  <2> QED
    BY <1>9, <1>10, <2>1, SetCarryIs, Zenon DEF Becomes
<1>12. PICK g : g = Skip(f, 1)
  OBVIOUS
<1>13. Becomes(f, g, A(f), f.sfr[B], Carry(f))
  BY <1>11, <1>12, SkipIs, Zenon DEF Becomes
<1>14. Row8(c, 4) = g
  <2>1. Row8(c, 4) = Skip(SetCarry(SetSfr(SetA(c, A(c) \div c.sfr[B]),
                                          B, A(c) % c.sfr[B]), 0), 1)
    BY SMT DEF Row8
  <2> QED
    BY <1>1, <1>2, <1>3, <1>4, <1>6, <1>8, <1>10, <1>12, <2>1, Zenon
<1>15. Becomes(c, g, q, m, 0)
  BY <1>7, <1>9, <1>11, <1>13, Zenon DEF Becomes
<1> QED
  BY <1>1, <1>2, <1>3, <1>4, <1>14, <1>15, Zenon

(* A product that fits an octet.                                            *)
LEMMA MulIs ==
  ASSUME NEW c, Computing(c), NEW p \in Octet, p = A(c) * c.sfr[B]
  PROVE  Becomes(c, RowA(c, 4), p, 0, 0)
<1>1. p \in Nat /\ (p % 256) = p /\ (p \div 256) = 0 /\ (0 % 256) = 0 /\ 0 \in Octet
  BY DEF Octet
<1>2. PICK d : d = SetA(c, p)
  OBVIOUS
<1>3. Becomes(c, d, p, c.sfr[B], Carry(c))
  <2>1. Becomes(c, d, p % 256, c.sfr[B], Carry(c))
    BY <1>1, <1>2, SetAIs, Zenon
  <2> QED
    BY <1>1, <2>1, Zenon
<1>4. PICK e : e = SetSfr(d, B, p \div 256)
  OBVIOUS
<1>5. Becomes(d, e, A(d), 0, Carry(d))
  <2>1. e = [d EXCEPT !.sfr[B] = 0]
    BY <1>1, <1>4, Zenon DEF SetSfr
  <2> QED
    BY <1>1, <1>3, <2>1, SetBIs, Zenon DEF Becomes
<1>6. PICK f : f = SetCarry(e, 0)
  OBVIOUS
<1>7. Becomes(e, f, A(e), e.sfr[B], 0)
  <2>1. 0 \in 0..1
    OBVIOUS
  <2> QED
    BY <1>5, <1>6, <2>1, SetCarryIs, Zenon DEF Becomes
<1>8. PICK g : g = Skip(f, 1)
  OBVIOUS
<1>9. Becomes(f, g, A(f), f.sfr[B], Carry(f))
  BY <1>7, <1>8, SkipIs, Zenon DEF Becomes
<1>10. RowA(c, 4) = g
  <2>1. RowA(c, 4) = Skip(SetCarry(SetSfr(SetA(c, A(c) * c.sfr[B]),
                                     B, (A(c) * c.sfr[B]) \div 256), 0), 1)
    BY SMT DEF RowA
  <2> QED
    BY <1>2, <1>4, <1>6, <1>8, <2>1, Zenon
<1>11. Becomes(c, g, p, 0, 0)
  BY <1>3, <1>5, <1>7, <1>9, Zenon DEF Becomes
<1> QED
  BY <1>10, <1>11, Zenon

-----------------------------------------------------------------------------
(* Sums, differences and shifts of octets.                                  *)
TopBit(n) == (n \div 128) % 2
LowOctet(n, k) == (2 * n + k) % 256
Shifted(n, k, j, b) == 2 * n + k = 256 * j + b
Back(n, k, j, b) == (b % 2) = k /\ (b \div 2) + 128 * j = n

(* An octet shifted to the left: a bit goes out, one comes in; ...          *)
LEMMA ShiftBits ==
  ASSUME NEW n \in Octet, NEW k \in 0..1, NEW j, j = TopBit(n), NEW b, b = LowOctet(n, k)
  PROVE  Shifted(n, k, j, b)
<1> USE DEF TopBit, LowOctet, Shifted
<1>1. n \in 0..255
  BY DEF Octet
<1>2. CASE n < 128
  BY <1>1, <1>2
<1>3. CASE n >= 128
  BY <1>1, <1>3
<1> QED
  BY <1>1, <1>2, <1>3

(* ... and it is what it was when the bits go back.                         *)
LEMMA BackBits ==
  ASSUME NEW n \in Octet, NEW k \in 0..1, NEW b \in Octet, NEW j \in 0..1,
         Shifted(n, k, j, b)
  PROVE  Back(n, k, j, b)
<1> USE DEF Shifted, Back
<1>1. n \in 0..255 /\ b \in 0..255
  BY DEF Octet
<1>2. b = 2 * (n - 128 * j) + k
  BY <1>1
<1>3. PICK m \in Int : m = n - 128 * j
  BY <1>1
<1>4. b = 2 * m + k
  BY <1>2, <1>3
<1>5. (b % 2) = k /\ (b \div 2) = m
  BY <1>4
<1> QED
  BY <1>1, <1>3, <1>5

(* The difference of two words, borrowing from their upper octets.          *)
LEMMA Differ ==
  ASSUME NEW xh \in Octet, NEW xl \in Octet, NEW yh \in Octet, NEW yl \in Octet,
         NEW a \in Octet, NEW b \in Octet, NEW j \in 0..1, NEW k \in 0..1,
         a = (256 + xl - yl - 0) % 256, k = 1 - ((256 + xl - yl - 0) \div 256),
         b = (256 + xh - yh - k) % 256, j = 1 - ((256 + xh - yh - k) \div 256)
  PROVE  65536 * j + 256 * b + a - 131072 * j = (256 * xh + xl) - (256 * yh + yl)
<1>1. /\ xh \in Int /\ xl \in Int /\ yh \in Int /\ yl \in Int
      /\ a \in Int /\ b \in Int /\ j \in Int /\ k \in Int
  BY DEF Octet
<1>2. xl - yl = a - 256 * k
  <2>1. PICK s \in Int : s = 256 + xl - yl - 0
    BY <1>1
  <2>2. a = s % 256 /\ k = 1 - (s \div 256)
    BY <2>1
  <2>3. s = 256 * (1 - k) + a
    BY <2>2
  <2> QED
    BY <1>1, <2>1, <2>3
<1>3. xh - yh - k = b - 256 * j
  <2>1. PICK s \in Int : s = 256 + xh - yh - k
    BY <1>1
  <2>2. b = s % 256 /\ j = 1 - (s \div 256)
    BY <2>1
  <2>3. s = 256 * (1 - j) + b
    BY <2>2
  <2> QED
    BY <1>1, <2>1, <2>3
<1> QED
  BY <1>1, <1>2, <1>3

(* Words of two octets.                                                     *)
IsWord(x, h, l) ==
  /\ h \in Octet /\ l \in Octet /\ x = 256 * h + l
  /\ (x \div 256) = h /\ (x % 256) = l

(* The octets of a word.                                                    *)
LEMMA WordIs ==
  ASSUME NEW h \in Octet, NEW l \in Octet
  PROVE  IsWord(256 * h + l, h, l)
BY DEF IsWord, Octet

(* A processor loaded anew with operands, the carry kept.                   *)
LEMMA LoadedIs ==
  ASSUME NEW c, Computing(c), NEW a \in Octet, NEW r \in Octet
  PROVE  /\ Computing(Load(c, a, r)) /\ A(Load(c, a, r)) = a /\ Load(c, a, r).iram[0] = r
         /\ Carry(Load(c, a, r)) = Carry(c)
BY LoadIs, Zenon

(* Loaded and added, or subtracted.                                         *)
LEMMA Added ==
  ASSUME NEW c, Computing(c), NEW a \in Octet, NEW r \in Octet, NEW k \in 0..1
  PROVE  Addition(AddA(Load(c, a, r), 8, k), a, r, k)
<1>1. Loaded(Load(c, a, r), a, r)
  BY LoadedIs, Zenon DEF Loaded
<1> QED
  BY <1>1, AddIs, Zenon

(* ADD and ADDC of two words.                                               *)
LEMMA Adds ==
  ASSUME NEW xh \in Octet, NEW xl \in Octet, NEW yh \in Octet, NEW yl \in Octet,
         NEW x, IsWord(x, xh, xl), NEW y, IsWord(y, yh, yl)
  PROVE  AddsWords(x, y)
<1>1. PICK c : c = Row2(Load(Reset, x % 256, y % 256), 8)
  OBVIOUS
<1>2. PICK d : d = Row3(Load(c, x \div 256, y \div 256), 8)
  OBVIOUS
<1>3. c = AddA(Load(Reset, xl, yl), 8, 0)
  <2>1. c = Row2(Load(Reset, xl, yl), 8)
    BY <1>1, Zenon DEF IsWord
  <2>2. \A e : Row2(e, 8) = AddA(e, 8, 0)
    BY SMT DEF Row2
  <2> QED
    BY <2>1, <2>2, Zenon
<1>4. Addition(c, xl, yl, 0)
  <2>1. 0 \in 0..1
    OBVIOUS
  <2> QED
    BY <1>3, <2>1, Added, ResetIs, Zenon
<1>5. PICK k \in 0..1 : Carry(c) = k
  BY <1>4, ComputingIs, Zenon DEF Addition
<1>6. d = AddA(Load(c, xh, yh), 8, k)
  <2>1. d = Row3(Load(c, xh, yh), 8)
    BY <1>2, Zenon DEF IsWord
  <2>2. \A e : Row3(e, 8) = AddA(e, 8, Carry(e))
    BY SMT DEF Row3
  <2>3. Carry(Load(c, xh, yh)) = k
    BY <1>4, <1>5, LoadedIs, Zenon DEF Addition
  <2>4. d = AddA(Load(c, xh, yh), 8, Carry(Load(c, xh, yh)))
    BY <2>1, <2>2, Zenon
  <2> QED
    BY <2>3, <2>4, Zenon
<1>7. Addition(d, xh, yh, k)
  <2>1. Computing(c)
    BY <1>4, Zenon DEF Addition
  <2> QED
    BY <1>6, <2>1, Added, Zenon
<1>8. 65536 * Carry(d) + 256 * A(d) + A(c) = x + y
  <2>1. A(c) = (xl + yl + 0) % 256 /\ k = (xl + yl + 0) \div 256
    BY <1>4, <1>5, Zenon DEF Addition
  <2>2. A(d) = (xh + yh + k) % 256 /\ Carry(d) = (xh + yh + k) \div 256
    BY <1>7, Zenon DEF Addition
  <2>3. x = 256 * xh + xl /\ y = 256 * yh + yl
    BY Zenon DEF IsWord
  <2> QED
    BY <2>1, <2>2, <2>3 DEF Octet
<1>9. Longer(c, d) = x + y
  BY <1>8, SMT DEF Longer
<1> QED
  BY <1>1, <1>2, <1>9, Zenon DEF AddsWords

LEMMA Subtracted ==
  ASSUME NEW c, Computing(c), NEW a \in Octet, NEW r \in Octet
  PROVE  Subtraction(SubbA(Load(c, a, r), 8), a, r, Carry(c))
<1>1. Loaded(Load(c, a, r), a, r) /\ Carry(Load(c, a, r)) = Carry(c)
  BY LoadedIs, Zenon DEF Loaded
<1>2. Carry(c) \in 0..1
  BY ComputingIs, Zenon
<1> QED
  BY <1>1, <1>2, SubbIs, Zenon

(* SUBB and SUBB.                                                           *)
LEMMA Subtracts ==
  ASSUME NEW xh \in Octet, NEW xl \in Octet, NEW yh \in Octet, NEW yl \in Octet,
         NEW x, IsWord(x, xh, xl), NEW y, IsWord(y, yh, yl)
  PROVE  SubtractsWords(x, y)
<1>1. PICK c : c = Row9(Load(Reset, x % 256, y % 256), 8)
  OBVIOUS
<1>2. PICK d : d = Row9(Load(c, x \div 256, y \div 256), 8)
  OBVIOUS
<1>3. \A e : Row9(e, 8) = SubbA(e, 8)
  BY SMT DEF Row9
<1>4. Subtraction(c, xl, yl, 0)
  <2>1. c = SubbA(Load(Reset, xl, yl), 8)
    BY <1>1, <1>3, Zenon DEF IsWord
  <2> QED
    BY <2>1, Subtracted, ResetIs, Zenon
<1>5. PICK k \in 0..1 : Carry(c) = k
  BY <1>4, ComputingIs, Zenon DEF Subtraction
<1>6. Subtraction(d, xh, yh, k)
  <2>1. d = SubbA(Load(c, xh, yh), 8)
    BY <1>2, <1>3, Zenon DEF IsWord
  <2>2. Computing(c)
    BY <1>4, Zenon DEF Subtraction
  <2>3. Subtraction(d, xh, yh, Carry(c))
    BY <2>1, <2>2, Subtracted, Zenon
  <2> QED
    BY <1>5, <2>3, Zenon
<1>7. PICK j \in 0..1 : Carry(d) = j
  BY <1>6, ComputingIs, Zenon DEF Subtraction
<1>8. PICK a \in Octet : A(c) = a
  BY <1>4, ComputingIs, Zenon DEF Subtraction
<1>9. PICK b \in Octet : A(d) = b
  BY <1>6, ComputingIs, Zenon DEF Subtraction
<1>10. a = (256 + xl - yl - 0) % 256 /\ k = 1 - ((256 + xl - yl - 0) \div 256)
  BY <1>4, <1>5, <1>8, Zenon DEF Subtraction
<1>11. b = (256 + xh - yh - k) % 256 /\ j = 1 - ((256 + xh - yh - k) \div 256)
  BY <1>6, <1>7, <1>9, Zenon DEF Subtraction
<1>12. x = 256 * xh + xl /\ y = 256 * yh + yl
  BY Zenon DEF IsWord
<1>13. 65536 * j + 256 * b + a - 131072 * j = (256 * xh + xl) - (256 * yh + yl)
  BY <1>10, <1>11, Differ
<1>14. Longer(c, d) = 65536 * j + 256 * b + a
  BY <1>7, <1>8, <1>9, SMT DEF Longer
<1>15. Signed(c, d) = x - y
  BY <1>7, <1>14, <1>12, <1>13, SMT DEF Signed, Octet
<1> QED
  BY <1>1, <1>2, <1>15, Zenon DEF SubtractsWords

(* MUL undoes DIV.                                                          *)
LEMMA Undoes ==
  ASSUME NEW x \in Octet, NEW y \in 1..255
  PROVE  DivUndone(x, y)
<1>1. PICK l : l = [Load(Reset, x, 0) EXCEPT !.sfr[B] = y]
  OBVIOUS
<1>2. PICK c : c = Row8(l, 4)
  OBVIOUS
<1>3. PICK m : m = [c EXCEPT !.sfr[B] = y]
  OBVIOUS
<1>4. PICK d : d = RowA(m, 4)
  OBVIOUS
<1>5. y \in Octet /\ 0 \in Octet
  BY DEF Octet
<1>6. Computing(l) /\ A(l) = x /\ l.sfr[B] = y
  <2>1. Computing(Load(Reset, x, 0)) /\ A(Load(Reset, x, 0)) = x
    BY <1>5, LoadedIs, ResetIs, Zenon
  <2> QED
    BY <1>1, <1>5, <2>1, SetBIs, Zenon DEF Becomes
<1>7. Computing(c) /\ A(c) = x \div y /\ c.sfr[B] = x % y
  BY <1>2, <1>6, DivIs, Zenon DEF Becomes
<1>8. Computing(m) /\ A(m) = x \div y /\ m.sfr[B] = y
  BY <1>3, <1>5, <1>7, SetBIs, Zenon DEF Becomes
<1>9. PICK p \in Octet : p = (x \div y) * y
  BY DivMod, Zenon
<1>10. A(d) = p /\ d.sfr[B] = 0
  <2>1. p = A(m) * m.sfr[B]
    BY <1>8, <1>9, Zenon
  <2> QED
    BY <1>4, <1>8, <2>1, MulIs, Zenon DEF Becomes
<1>11. p + (x % y) = x /\ (x % y) < y /\ (x % y) \in Octet
  BY <1>9, DivMod, Zenon
<1>12. 256 * d.sfr[B] + A(d) + c.sfr[B] = x /\ c.sfr[B] < y
  <2>1. PICK r \in Octet : r = x % y
    BY <1>11, Zenon
  <2>2. p + r = x /\ r < y /\ c.sfr[B] = r
    BY <1>7, <1>11, <2>1, Zenon
  <2> QED
    BY <1>10, <2>2 DEF Octet
<1> QED
  BY <1>1, <1>2, <1>3, <1>4, <1>12, Zenon DEF DivUndone

(* RLC twice, and RRC twice.                                                *)
LEMMA Shifts ==
  ASSUME NEW xh \in Octet, NEW xl \in Octet, NEW x, IsWord(x, xh, xl)
  PROVE  ShiftsWord(x)
<1>1. PICK c : c = Row3(Load(Reset, x % 256, 0), 3)
  OBVIOUS
<1>2. PICK d : d = Row3(Load(c, x \div 256, 0), 3)
  OBVIOUS
<1>3. PICK e : e = Row1(d, 3)
  OBVIOUS
<1>4. PICK f : f = Row1(Load(e, A(c), 0), 3)
  OBVIOUS
<1>5. 0 \in Octet
  BY DEF Octet
<1>6. c = Row3(Load(Reset, xl, 0), 3) /\ d = Row3(Load(c, xh, 0), 3)
  BY <1>1, <1>2, Zenon DEF IsWord
<1>7. Computing(c) /\ A(c) = (2 * xl + 0) % 256 /\ Carry(c) = Bit(xl, 7)
  <2>1. /\ Computing(Load(Reset, xl, 0)) /\ A(Load(Reset, xl, 0)) = xl
        /\ Carry(Load(Reset, xl, 0)) = 0
    BY <1>5, LoadedIs, ResetIs, Zenon
  <2> QED
    BY <1>6, <2>1, RlcIs, Zenon DEF Becomes
<1>8. /\ Computing(d) /\ A(d) = (2 * xh + Carry(c)) % 256 /\ Carry(d) = Bit(xh, 7)
  <2>1. /\ Computing(Load(c, xh, 0)) /\ A(Load(c, xh, 0)) = xh
        /\ Carry(Load(c, xh, 0)) = Carry(c)
    BY <1>5, <1>7, LoadedIs, Zenon
  <2> QED
    BY <1>6, <2>1, RlcIs, Zenon DEF Becomes
<1>9. Computing(e) /\ A(e) = A(d) \div 2 + 128 * Carry(d) /\ Carry(e) = Bit(A(d), 0)
  BY <1>3, <1>8, RrcIs, Zenon DEF Becomes
<1>10. A(c) \in Octet /\ A(d) \in Octet /\ Carry(c) \in 0..1
  BY <1>7, <1>8, ComputingIs, Zenon
<1>11. A(f) = A(c) \div 2 + 128 * Carry(e)
  <2>1. /\ Computing(Load(e, A(c), 0)) /\ A(Load(e, A(c), 0)) = A(c)
        /\ Carry(Load(e, A(c), 0)) = Carry(e)
    BY <1>5, <1>9, <1>10, LoadedIs, Zenon
  <2> QED
    BY <1>4, <2>1, RrcIs, Zenon DEF Becomes
<1>12. PICK a \in Octet : A(c) = a
  BY <1>10, Zenon
<1>13. PICK b \in Octet : A(d) = b
  BY <1>10, Zenon
<1>14. PICK k \in 0..1 : Carry(c) = k
  BY <1>10, Zenon
<1>15. PICK j \in 0..1 : Carry(d) = j
  BY <1>8, ComputingIs, Zenon
<1>16. a = LowOctet(xl, 0) /\ k = TopBit(xl)
  BY <1>7, <1>12, <1>14 DEF Bit, Octet, LowOctet, TopBit
<1>17. b = LowOctet(xh, k) /\ j = TopBit(xh)
  BY <1>8, <1>13, <1>14, <1>15 DEF Bit, Octet, LowOctet, TopBit
<1>18. 0 \in 0..1
  OBVIOUS
<1>19. Shifted(xl, 0, k, a)
  BY <1>16, <1>18, ShiftBits, Zenon
<1>20. Shifted(xh, k, j, b)
  BY <1>17, ShiftBits, Zenon
<1>21. Back(xh, k, j, b)
  BY <1>20, BackBits, Zenon
<1>22. Back(xl, 0, k, a)
  BY <1>18, <1>19, BackBits, Zenon
<1>23. A(e) = xh /\ Carry(e) = k
  <2>1. A(e) = (b \div 2) + 128 * j /\ Carry(e) = Bit(b, 0)
    BY <1>9, <1>13, <1>15, Zenon
  <2>2. Bit(b, 0) = b % 2
    BY DEF Bit, Octet
  <2> QED
    BY <1>21, <2>1, <2>2, Zenon DEF Back
<1>24. A(f) = xl
  BY <1>11, <1>12, <1>22, <1>23 DEF Back
<1>25. x = 256 * xh + xl
  BY Zenon DEF IsWord
<1>26. Longer(c, d) = 2 * x
  BY <1>12, <1>13, <1>15, <1>19, <1>20, <1>25 DEF Longer, Octet, Shifted
<1>27. 256 * A(e) + A(f) = x
  BY <1>23, <1>24, <1>25, Zenon
<1> QED
  BY <1>1, <1>2, <1>3, <1>4, <1>26, <1>27, Zenon DEF ShiftsWord

(* All words, of whatever octets.                                           *)
LEMMA AllOctets ==
  ASSUME NEW octets \in SUBSET Octet
  PROVE  WordsAreNumbers(octets)
<1>1. \A x \in TwoOctets(octets) : \E h, l \in Octet : IsWord(x, h, l)
  <2> TAKE x \in TwoOctets(octets)
  <2>1. PICK h \in octets, l \in octets : x = 256 * h + l
    BY DEF TwoOctets
  <2>2. h \in Octet /\ l \in Octet
    BY <2>1
  <2>3. IsWord(x, h, l)
    BY <2>1, <2>2, WordIs, Zenon
  <2> QED
    BY <2>2, <2>3, Zenon
<1>2. \A x, y \in TwoOctets(octets) : AddsWords(x, y) /\ SubtractsWords(x, y)
  BY <1>1, Adds, Subtracts, Zenon
<1>3. \A x \in TwoOctets(octets) : ShiftsWord(x)
  BY <1>1, Shifts, Zenon
<1>4. \A x \in octets, y \in octets \ {0} : DivUndone(x, y)
  <2>1. \A y \in octets \ {0} : y \in 1..255
    BY DEF Octet
  <2> QED
    BY <2>1, Undoes, Zenon
<1> QED
  BY <1>2, <1>3, <1>4, Zenon DEF WordsAreNumbers

-----------------------------------------------------------------------------
(* The instructions compute with all words of two octets as with numbers.   *)
THEOREM WordArithmetic == WordsAreNumbers(Octet)
<1>1. Octet \in SUBSET Octet
  OBVIOUS
<1> QED
  BY <1>1, AllOctets, Zenon

(* Every processor that starts computes so with the octets it is given      *)
(* (Arithmetic).                                                            *)
THEOREM ArithmeticHolds == Spec => []Arithmetic
<1>1. Octets \in SUBSET Octet
  BY DiagProcAssumption DEF Octet
<1>2. WordsAreNumbers(Octets)
  BY <1>1, AllOctets, Zenon
<1>3. Arithmetic
  BY <1>2, Zenon DEF Arithmetic
<1> QED
  BY <1>3, PTL

-----------------------------------------------------------------------------
(* The stack pointer goes around in the memory.                             *)
Up(s) == (s + 1) % 256
Down(s) == (s + 255) % 256

(* Up and down again.                                                       *)
LEMMA UpAndDown ==
  ASSUME NEW s \in Octet
  PROVE  /\ Up(s) \in Octet /\ Down(Up(s)) = s
         /\ Up(s) # s /\ Up(Up(s)) # s /\ Up(Up(s)) # Up(s)
BY DEF Up, Down, Octet

(* d is c with other values of the stack pointer and of one octet.          *)
Stacked(c, d, s, a, v) ==
  /\ d \in Cpu /\ d.sfr[SP] = s /\ d.iram[a] = v
  /\ \A b \in Sfrs : b # SP => d.sfr[b] = c.sfr[b]
  /\ \A b \in Octet : b # a => d.iram[b] = c.iram[b]
  /\ d.pc = c.pc /\ d.irq_state = c.irq_state /\ d.did_io = c.did_io /\ d.tx = c.tx
  /\ d.p1val = c.p1val /\ d.p2val = c.p2val /\ d.p3val = c.p3val

(* What such a change leaves.                                               *)
LEMMA StackIs ==
  ASSUME NEW c \in Cpu, NEW s \in Octet, NEW a \in Octet, NEW v \in Octet
  PROVE  Stacked(c, [c EXCEPT !.sfr[SP] = s, !.iram[a] = v], s, a, v)
<1>1. c.sfr \in [Sfrs -> Octet] /\ c.iram \in [Octet -> Octet]
  BY Zenon DEF Cpu
<1>2. SP \in Sfrs
  BY DEF Sfrs, SP
<1>3. PICK f \in [Sfrs -> Octet] : f = [c.sfr EXCEPT ![SP] = s]
  <2>1. [c.sfr EXCEPT ![SP] = s] \in [Sfrs -> Octet]
    BY <1>1, Zenon
  <2> QED
    BY <2>1, Zenon
<1>4. PICK g \in [Octet -> Octet] : g = [c.iram EXCEPT ![a] = v]
  <2>1. [c.iram EXCEPT ![a] = v] \in [Octet -> Octet]
    BY <1>1, Zenon
  <2> QED
    BY <2>1, Zenon
<1>5. f[SP] = s /\ \A b \in Sfrs : b # SP => f[b] = c.sfr[b]
  BY <1>1, <1>2, <1>3, Zenon
<1>6. g[a] = v /\ \A b \in Octet : b # a => g[b] = c.iram[b]
  BY <1>1, <1>4, Zenon
<1>7. PICK d : d = [c EXCEPT !.sfr = f, !.iram = g]
  OBVIOUS
<1>8. [c EXCEPT !.sfr[SP] = s, !.iram[a] = v] = d
  BY <1>3, <1>4, <1>7 DEF Cpu
<1>9. d \in Cpu
  BY <1>7, Zenon DEF Cpu
<1>10. d.sfr = f /\ d.iram = g
  BY <1>7, Zenon DEF Cpu
<1>11. /\ d.pc = c.pc /\ d.irq_state = c.irq_state /\ d.did_io = c.did_io /\ d.tx = c.tx
       /\ d.p1val = c.p1val /\ d.p2val = c.p2val /\ d.p3val = c.p3val
  BY <1>7, Zenon DEF Cpu
<1> QED
  BY <1>5, <1>6, <1>8, <1>9, <1>10, <1>11, Zenon DEF Stacked

(* A push ...                                                               *)
LEMMA PushIs ==
  ASSUME NEW c \in Cpu, NEW s \in Octet, c.sfr[SP] = s, NEW v \in Octet
  PROVE  Stacked(c, Push(c, v), Up(s), Up(s), v)
<1>1. PICK u \in Octet : u = Up(s)
  BY UpAndDown, Zenon
<1>2. Push(c, v) = [c EXCEPT !.sfr[SP] = u, !.iram[u] = v]
  BY <1>1, Zenon DEF Push, Up
<1>3. Stacked(c, [c EXCEPT !.sfr[SP] = u, !.iram[u] = v], u, u, v)
  BY StackIs, Zenon
<1> QED
  BY <1>1, <1>2, <1>3, Zenon

(* ... and a pop.                                                           *)
LEMMA PopIs ==
  ASSUME NEW c \in Cpu, NEW s \in Octet, c.sfr[SP] = Up(s)
  PROVE  Stacked(c, Pop(c), s, Up(s), 0)
<1>1. PICK u \in Octet : u = Up(s)
  BY UpAndDown, Zenon
<1>2. PICK z \in Octet : z = 0
  BY DEF Octet
<1>3. Down(u) = s
  BY <1>1, UpAndDown, Zenon
<1>4. Pop(c) = [c EXCEPT !.sfr[SP] = s, !.iram[u] = z]
  <2>1. SetSfr(c, SP, u + 255) = [c EXCEPT !.sfr[SP] = s]
    BY <1>3, Zenon DEF SetSfr, Down
  <2> QED
    BY <1>1, <1>2, <2>1, Zenon DEF Pop
<1>5. Stacked(c, [c EXCEPT !.sfr[SP] = s, !.iram[u] = z], s, u, z)
  BY StackIs, Zenon
<1> QED
  BY <1>1, <1>2, <1>4, <1>5, Zenon

(* The return is to the instruction before which the interrupt was taken,   *)
(* with everything but the octets above the stack as it was.                *)
Returned(c, d) ==
  /\ d.pc = c.pc /\ d.irq_state = c.irq_state /\ d.sfr = c.sfr
  /\ d.did_io = c.did_io /\ d.tx = c.tx /\ d.p1val = c.p1val /\ d.p2val = c.p2val /\ d.p3val = c.p3val
  /\ LET s == c.sfr[SP]
     IN  \A a \in Octet \ {Up(s), Up(Up(s))} : d.iram[a] = c.iram[a]

(* The level an interrupt enters, and the one a return leaves.              *)
Entered(c) == IF Bit(c.sfr[IP], 4) = 1 THEN c.irq_state + 2 ELSE 1
Left(n) == IF n > 1 THEN n - 2 ELSE 0

(* The level left is the one from which it was entered.                     *)
LEMMA LevelIs ==
  ASSUME NEW c \in Cpu, Interrupted(c)
  PROVE  Entered(c) \in Nat /\ Left(Entered(c)) = c.irq_state
<1>1. c.irq_state \in Nat
  BY Zenon DEF Cpu
<1>2. CASE Bit(c.sfr[IP], 4) = 1
  <2>1. c.irq_state < 2 /\ Entered(c) = c.irq_state + 2
    BY <1>2, SMT DEF Interrupted, Entered
  <2> QED
    BY <1>1, <2>1 DEF Left
<1>3. CASE Bit(c.sfr[IP], 4) # 1
  <2>1. c.irq_state = 0 /\ Entered(c) = 1
    BY <1>3, SMT DEF Interrupted, Entered
  <2> QED
    BY <2>1 DEF Left
<1> QED
  BY <1>2, <1>3

(* A program address, and its octets.                                       *)
Address(p) == p \in Nat /\ p < 65536

LEMMA PcOctets ==
  ASSUME NEW p, Address(p)
  PROVE  /\ (p % 256) \in Octet /\ (p \div 256) \in Octet
         /\ 256 * (p \div 256) + (p % 256) = p
BY DEF Octet, Address

(* What taking an interrupt does, and what RETI (0x32).                     *)
Enters(c, e, n) ==
  /\ e = PushPc(c, c.pc)
  /\ n = IF Bit(c.sfr[IP], 4) = 1 THEN e.irq_state + 2 ELSE 1

LEMMA InterruptIs ==
  ASSUME NEW c, NEW e, NEW n, Enters(c, e, n)
  PROVE  Interrupt(c) = [e EXCEPT !.pc = 35, !.irq_state = n]
BY Zenon DEF Interrupt, Enters

Leaves(i, h, n) == h = PopPc(i) /\ n = i.irq_state /\ n = h.irq_state

LEMMA RetiIs ==
  ASSUME NEW i, NEW h, NEW n, Leaves(i, h, n)
  PROVE  Row3(i, 2) = [h EXCEPT !.irq_state = Left(n)]
<1>1. Row3(i, 2) = IF i.irq_state > 1 THEN [h EXCEPT !.irq_state = @ - 2]
                                      ELSE [h EXCEPT !.irq_state = 0]
  BY SMT DEF Row3, Leaves
<1>2. CASE n > 1
  <2>1. Row3(i, 2) = [h EXCEPT !.irq_state = n - 2]
    BY <1>1, <1>2, Zenon DEF Leaves
  <2> QED
    BY <1>2, <2>1, Zenon DEF Left
<1>3. CASE ~ (n > 1)
  <2>1. Row3(i, 2) = [h EXCEPT !.irq_state = 0]
    BY <1>1, <1>3, Zenon DEF Leaves
  <2> QED
    BY <1>3, <2>1, Zenon DEF Left
<1> QED
  BY <1>2, <1>3, Zenon

(* After an interrupt (mcs51_check_irq) and RETI (0x32) all is as if        *)
(* nothing had happened, on either level and wherever the stack is: the     *)
(* processor's part of Transparent.                                         *)
THEOREM InterruptUndone ==
  ASSUME NEW c \in Cpu, Address(c.pc), Interrupted(c)
  PROVE  Returned(c, Row3(Interrupt(c), 2))
<1>1. PICK s \in Octet : s = c.sfr[SP]
  <2>1. SP \in Sfrs
    BY DEF Sfrs, SP
  <2> QED
    BY <2>1, Zenon DEF Cpu
<1>2. PICK u \in Octet : u = Up(s)
  BY UpAndDown, Zenon
<1>3. PICK w \in Octet : w = Up(u)
  BY UpAndDown, Zenon
<1>4. u # s /\ w # s /\ w # u
  BY <1>2, <1>3, UpAndDown, Zenon
<1>5. PICK p : p = c.pc
  OBVIOUS
<1>6. PICK lo \in Octet, hi \in Octet : lo = p % 256 /\ hi = p \div 256
  BY <1>5, PcOctets, Zenon
<1>7. 256 * hi + lo = p
  BY <1>5, <1>6, PcOctets, Zenon
<1>8. PICK d : d = Push(c, lo)
  OBVIOUS
<1>9. Stacked(c, d, u, u, lo)
  BY <1>1, <1>2, <1>8, PushIs, Zenon
<1>10. PICK e : e = Push(d, hi)
  OBVIOUS
<1>11. Stacked(d, e, w, w, hi)
  <2>1. d \in Cpu /\ d.sfr[SP] = u
    BY <1>9, Zenon DEF Stacked
  <2> QED
    BY <1>3, <1>10, <2>1, PushIs, Zenon
<1>12. PICK n \in Nat : n = Entered(c)
  BY LevelIs, Zenon
<1>13. PICK i : i = [e EXCEPT !.pc = 35, !.irq_state = n]
  OBVIOUS
<1>14. Interrupt(c) = i
  <2>1. e = PushPc(c, c.pc)
    BY <1>5, <1>6, <1>8, <1>10, Zenon DEF PushPc
  <2>2. e.irq_state = c.irq_state
    BY <1>9, <1>11, Zenon DEF Stacked
  <2>3. n = IF Bit(c.sfr[IP], 4) = 1 THEN e.irq_state + 2 ELSE 1
    BY <1>12, <2>2, Zenon DEF Entered
  <2>4. Enters(c, e, n)
    BY <2>1, <2>3, Zenon DEF Enters
  <2> QED
    BY <1>13, <2>4, InterruptIs, Zenon
<1>15. /\ i \in Cpu /\ i.irq_state = n /\ i.sfr = e.sfr /\ i.iram = e.iram
       /\ i.did_io = e.did_io /\ i.tx = e.tx /\ i.p1val = e.p1val /\ i.p2val = e.p2val /\ i.p3val = e.p3val
  <2>1. e \in Cpu
    BY <1>11, Zenon DEF Stacked
  <2>2. 35 \in Int
    OBVIOUS
  <2> QED
    BY <1>13, <2>1, <2>2, Zenon DEF Cpu
<1>16. PICK f : f = Pop(i)
  OBVIOUS
<1>17. Stacked(i, f, u, w, 0)
  <2>1. i.sfr[SP] = Up(u)
    BY <1>3, <1>11, <1>15, Zenon DEF Stacked
  <2> QED
    BY <1>3, <1>15, <1>16, <2>1, PopIs, Zenon
<1>18. PICK g : g = Pop(f)
  OBVIOUS
<1>19. Stacked(f, g, s, u, 0)
  <2>1. f \in Cpu /\ f.sfr[SP] = Up(s)
    BY <1>2, <1>17, Zenon DEF Stacked
  <2> QED
    BY <1>2, <1>18, <2>1, PopIs, Zenon
<1>20. Top(i) = hi /\ Top(f) = lo
  <2>1. i.sfr[SP] = w /\ i.iram[w] = hi
    BY <1>11, <1>15, Zenon DEF Stacked
  <2>2. f.sfr[SP] = u /\ f.iram[u] = lo
    <3>1. f.sfr[SP] = u /\ f.iram[u] = i.iram[u]
      BY <1>4, <1>17, Zenon DEF Stacked
    <3>2. e.iram[u] = d.iram[u] /\ d.iram[u] = lo
      BY <1>4, <1>9, <1>11, Zenon DEF Stacked
    <3> QED
      BY <1>15, <3>1, <3>2, Zenon
  <2> QED
    BY <2>1, <2>2, Zenon DEF Top
<1>21. PICK h : h = [g EXCEPT !.pc = p]
  OBVIOUS
<1>22. PopPc(i) = h
  <2>1. 256 * Top(i) + Top(f) = p
    BY <1>7, <1>20, Zenon
  <2> QED
    BY <1>16, <1>18, <1>21, <2>1, Zenon DEF PopPc
<1>23. /\ h \in Cpu /\ h.pc = p /\ h.irq_state = g.irq_state /\ h.sfr = g.sfr
       /\ h.iram = g.iram /\ h.did_io = g.did_io /\ h.tx = g.tx
       /\ h.p1val = g.p1val /\ h.p2val = g.p2val /\ h.p3val = g.p3val
  <2>1. g \in Cpu
    BY <1>19, Zenon DEF Stacked
  <2>2. p \in Int
    BY <1>5, Zenon DEF Cpu
  <2> QED
    BY <1>21, <2>1, <2>2, Zenon DEF Cpu
<1>24. PICK r : r = [h EXCEPT !.irq_state = Left(n)]
  OBVIOUS
<1>25. Row3(i, 2) = r
  <2>1. h.irq_state = n /\ i.irq_state = n
    BY <1>15, <1>17, <1>19, <1>23, Zenon DEF Stacked
  <2>2. Leaves(i, h, n)
    BY <1>22, <2>1, Zenon DEF Leaves
  <2> QED
    BY <1>24, <2>2, RetiIs, Zenon
<1>26. /\ r.pc = h.pc /\ r.irq_state = c.irq_state /\ r.sfr = h.sfr /\ r.iram = h.iram
       /\ r.did_io = h.did_io /\ r.tx = h.tx /\ r.p1val = h.p1val /\ r.p2val = h.p2val /\ r.p3val = h.p3val
  <2>1. Left(n) = c.irq_state
    BY <1>12, LevelIs, Zenon
  <2> QED
    BY <1>23, <1>24, <2>1, Zenon DEF Cpu
<1>27. g.sfr = c.sfr
  <2>1. g.sfr \in [Sfrs -> Octet] /\ c.sfr \in [Sfrs -> Octet]
    BY <1>19, Zenon DEF Stacked, Cpu
  <2>2. \A b \in Sfrs : b # SP => g.sfr[b] = c.sfr[b]
    <3> SUFFICES ASSUME NEW b \in Sfrs, b # SP
                 PROVE  g.sfr[b] = c.sfr[b]
      BY Zenon
    <3>1. d.sfr[b] = c.sfr[b]
      BY <1>9, Zenon DEF Stacked
    <3>2. e.sfr[b] = d.sfr[b]
      BY <1>11, Zenon DEF Stacked
    <3>3. f.sfr[b] = i.sfr[b]
      BY <1>17, Zenon DEF Stacked
    <3>4. g.sfr[b] = f.sfr[b]
      BY <1>19, Zenon DEF Stacked
    <3> QED
      BY <1>15, <3>1, <3>2, <3>3, <3>4, Zenon
  <2>3. g.sfr[SP] = c.sfr[SP]
    BY <1>1, <1>19, Zenon DEF Stacked
  <2>4. \A b \in Sfrs : g.sfr[b] = c.sfr[b]
    BY <2>2, <2>3, Zenon
  <2> QED
    BY <2>1, <2>4
<1>28. \A a \in Octet \ {u, w} : g.iram[a] = c.iram[a]
  <2> TAKE a \in Octet \ {u, w}
  <2>1. a \in Octet /\ a # u /\ a # w
    BY Zenon
  <2>2. d.iram[a] = c.iram[a]
    BY <1>9, <2>1, Zenon DEF Stacked
  <2>3. e.iram[a] = d.iram[a]
    BY <1>11, <2>1, Zenon DEF Stacked
  <2>4. f.iram[a] = i.iram[a]
    BY <1>17, <2>1, Zenon DEF Stacked
  <2>5. g.iram[a] = f.iram[a]
    BY <1>19, <2>1, Zenon DEF Stacked
  <2> QED
    BY <1>15, <2>2, <2>3, <2>4, <2>5, Zenon
<1>29. /\ g.did_io = c.did_io /\ g.tx = c.tx /\ g.p1val = c.p1val /\ g.p2val = c.p2val /\ g.p3val = c.p3val
  BY <1>9, <1>11, <1>15, <1>17, <1>19, Zenon DEF Stacked
<1>30. Returned(c, r)
  BY <1>1, <1>2, <1>3, <1>5, <1>23, <1>26, <1>27, <1>28, <1>29, Zenon DEF Returned
<1> QED
  BY <1>14, <1>25, <1>30, Zenon
=============================================================================
