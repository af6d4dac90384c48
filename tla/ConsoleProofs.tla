--------------------------- MODULE ConsoleProofs ---------------------------
(***************************************************************************)
(* Proofs about ElasticInput and Console, for any number of getters, bytes *)
(* and characters, chunks of any length, and any commands the guest may    *)
(* write.                                                                  *)
(***************************************************************************)
EXTENDS Console, SequenceLemmas

-----------------------------------------------------------------------------
(* The input side of the buffer.                                            *)

LEMMA MinOfTwo ==
  ASSUME NEW a \in Nat, NEW b \in Nat
  PROVE  Min({a, b}) = IF a <= b THEN a ELSE b
BY DEF Min

(* The bytes of a sequence of returned bytes ...                            *)
LEMMA NumbersOf ==
  ASSUME NEW s \in Seq(Getters \X Nat)
  PROVE  /\ Numbers(s) \in Seq(Nat) /\ Len(Numbers(s)) = Len(s) /\ Len(s) \in Nat
         /\ \A i \in 1..Len(s) : Numbers(s)[i] = s[i][2]
<1>1. \A x \in Getters \X Nat : x[2] \in Nat
  OBVIOUS
<1> QED
  BY <1>1 DEF Numbers

(* ... with what is returned now after what was returned before.            *)
LEMMA NumbersConcat ==
  ASSUME NEW s \in Seq(Getters \X Nat), NEW t \in Seq(Getters \X Nat)
  PROVE  Numbers(s \o t) = Numbers(s) \o Numbers(t)
<1> DEFINE m == Len(s)
           n == Len(t)
           r == Numbers(s \o t)
<1>1. /\ Numbers(s) \in Seq(Nat) /\ Len(Numbers(s)) = m /\ m \in Nat
      /\ \A i \in 1..m : Numbers(s)[i] = s[i][2]
  BY NumbersOf
<1>2. /\ Numbers(t) \in Seq(Nat) /\ Len(Numbers(t)) = n /\ n \in Nat
      /\ \A i \in 1..n : Numbers(t)[i] = t[i][2]
  BY NumbersOf
<1>3. /\ s \o t \in Seq(Getters \X Nat) /\ Len(s \o t) = m + n
      /\ \A i \in 1..(m + n) : (s \o t)[i] = IF i <= m THEN s[i] ELSE t[i - m]
  BY ConcatProperties, Zenon
<1>4. /\ r \in Seq(Nat) /\ Len(r) = m + n
      /\ \A i \in 1..(m + n) : r[i] = (s \o t)[i][2]
  BY <1>3, NumbersOf, Zenon
<1> HIDE DEF m, n, r
<1>5. \A i \in 1..m : r[i] = Numbers(s)[i]
  <2> SUFFICES ASSUME NEW i \in 1..m
               PROVE  r[i] = Numbers(s)[i]
    OBVIOUS
  <2>1. i \in 1..(m + n) /\ i <= m
    BY <1>1, <1>2
  <2> QED
    BY <1>1, <1>3, <1>4, <2>1, Zenon
<1>6. \A i \in 1..n : r[m + i] = Numbers(t)[i]
  <2> SUFFICES ASSUME NEW i \in 1..n
               PROVE  r[m + i] = Numbers(t)[i]
    OBVIOUS
  <2>1. m + i \in 1..(m + n) /\ ~ (m + i <= m) /\ (m + i) - m = i
    BY <1>1, <1>2
  <2> QED
    BY <1>2, <1>3, <1>4, <2>1, Zenon
<1>7. Numbers(s) \o Numbers(t) = r
  <2>1. /\ Numbers(s) \in Seq(Nat) /\ Numbers(t) \in Seq(Nat) /\ r \in Seq(Nat)
        /\ m \in Nat /\ n \in Nat
        /\ Len(Numbers(s)) = m /\ Len(Numbers(t)) = n /\ Len(r) = m + n
    BY <1>1, <1>2, <1>4
  <2> QED
    BY <1>5, <1>6, <2>1, ConcatIs, Zenon
<1> QED
  BY <1>7 DEF r

(* The first k bytes.                                                       *)
LEMMA InjectedIs ==
  ASSUME NEW k \in Nat
  PROVE  /\ Injected(k) \in Seq(Nat) /\ Len(Injected(k)) = k
         /\ \A i \in 1..k : Injected(k)[i] = i
BY DEF Injected

(* The next n bytes after the first m are the first m + n.                  *)
LEMMA InjectedConcat ==
  ASSUME NEW m \in Nat, NEW n \in Nat
  PROVE  /\ [i \in 1..n |-> m + i] \in Seq(Nat)
         /\ Len([i \in 1..n |-> m + i]) = n
         /\ Injected(m) \o [i \in 1..n |-> m + i] = Injected(m + n)
<1> DEFINE c == [i \in 1..n |-> m + i]
           r == Injected(m + n)
<1>1. /\ Injected(m) \in Seq(Nat) /\ Len(Injected(m)) = m
      /\ \A i \in 1..m : Injected(m)[i] = i
  BY InjectedIs
<1>2. c \in Seq(Nat) /\ Len(c) = n /\ \A i \in 1..n : c[i] = m + i
  OBVIOUS
<1>3. m + n \in Nat
  OBVIOUS
<1>4. /\ r \in Seq(Nat) /\ Len(r) = m + n
      /\ \A i \in 1..(m + n) : r[i] = i
  BY <1>3, InjectedIs, Zenon
<1> HIDE DEF c, r
<1>5. \A i \in 1..m : r[i] = Injected(m)[i]
  BY <1>1, <1>4
<1>6. \A i \in 1..n : r[m + i] = c[i]
  BY <1>2, <1>4
<1>7. Injected(m) \o c = r
  <2>1. /\ Injected(m) \in Seq(Nat) /\ c \in Seq(Nat) /\ r \in Seq(Nat)
        /\ Len(Injected(m)) = m /\ Len(c) = n /\ Len(r) = m + n
    BY <1>1, <1>2, <1>4
  <2> QED
    BY <1>5, <1>6, <2>1, ConcatIs, Zenon
<1> QED
  BY <1>2, <1>7 DEF c, r

(* What a getter takes is the first bytes of the first chunk, one at least, *)
(* and what it leaves of it are the others.                                 *)
LEMMA TakeFacts ==
  ASSUME TypeOK, NEW g \in Getters, GetTake(g)
  PROVE  \E cp \in Seq(Nat) \ {<< >>}, rest \in Seq(Seq(Nat) \ {<< >>}),
            len \in Nat \ {0} :
           /\ chunks_in = << cp >> \o rest
           /\ len <= Len(cp) /\ len <= Want[g]
           /\ got' = got \o [i \in 1..len |-> <<g, cp[i]>>]
           /\ chunks_in' = IF len = Len(cp) THEN rest
                             ELSE << SubSeq(cp, len + 1, Len(cp)) >> \o rest
<1> DEFINE cp == Head(chunks_in)
           rest == Tail(chunks_in)
           len == Min({Want[g], Len(cp)})
<1>1. /\ cp \in Seq(Nat) \ {<< >>} /\ rest \in Seq(Seq(Nat) \ {<< >>})
      /\ chunks_in = << cp >> \o rest
  BY HeadAndTail DEF TypeOK, GetTake
<1>2. Want[g] \in Nat \ {0} /\ Len(cp) \in Nat \ {0}
  BY <1>1, InputAssumption, EmptySeq
<1>3. len \in Nat \ {0} /\ len <= Len(cp) /\ len <= Want[g]
  <2> HIDE DEF cp
  <2> QED
    BY <1>2, MinOfTwo
<1>4. /\ got' = got \o [i \in 1..len |-> <<g, cp[i]>>]
      /\ chunks_in' = IF len = Len(cp) THEN rest
                        ELSE << SubSeq(cp, len + 1, Len(cp)) >> \o rest
  BY Zenon DEF GetTake
<1> HIDE DEF cp, rest, len
<1> QED
  BY <1>1, <1>3, <1>4, Zenon

(* The bytes that it takes, numbered as such.                               *)
LEMMA TakenBytes ==
  ASSUME NEW g \in Getters, NEW cp \in Seq(Nat), NEW len \in 0..Len(cp)
  PROVE  /\ [i \in 1..len |-> <<g, cp[i]>>] \in Seq(Getters \X Nat)
         /\ Len([i \in 1..len |-> <<g, cp[i]>>]) = len
         /\ Numbers([i \in 1..len |-> <<g, cp[i]>>]) = SubSeq(cp, 1, len)
<1> DEFINE t == [i \in 1..len |-> <<g, cp[i]>>]
<1>1. Len(cp) \in Nat /\ \A i \in 1..Len(cp) : cp[i] \in Nat
  BY LenProperties, ElementOfSeq
<1>2. len \in Nat /\ \A i \in 1..len : cp[i] \in Nat
  BY <1>1
<1>3. /\ t \in Seq(Getters \X Nat) /\ Len(t) = len
      /\ \A i \in 1..len : t[i] = <<g, cp[i]>>
  BY <1>2
<1> HIDE DEF t
<1>4. /\ Numbers(t) \in Seq(Nat) /\ Len(Numbers(t)) = len
      /\ \A i \in 1..len : Numbers(t)[i] = t[i][2]
  BY <1>3, NumbersOf
<1>5. \A i \in 1..len : Numbers(t)[i] = cp[i]
  BY <1>3, <1>4
<1>6. /\ SubSeq(cp, 1, len) \in Seq(Nat) /\ Len(SubSeq(cp, 1, len)) = len
      /\ \A i \in 1..len : SubSeq(cp, 1, len)[i] = cp[i]
  BY <1>1, SplitAt
<1>7. Numbers(t) = SubSeq(cp, 1, len)
  <2>1. \A i \in 1..len : Numbers(t)[i] = SubSeq(cp, 1, len)[i]
    BY <1>5, <1>6
  <2> QED
    BY <1>4, <1>6, <2>1, SeqEqual
<1> QED
  BY <1>3, <1>7 DEF t

LEMMA ChunksType ==
  ASSUME NEW ss \in Seq(Seq(Nat) \ {<< >>})
  PROVE  ss \in Seq(Seq(Nat))
<1>1. Seq(Nat) \ {<< >>} \subseteq Seq(Nat)
  OBVIOUS
<1> QED
  BY <1>1, SeqMonotonic

(* The state of the line has its types.                                     *)
LEMMA InputType == TypeOK /\ [Next]_vars => TypeOK'
<1> SUFFICES ASSUME TypeOK, [Next]_vars
             PROVE  TypeOK'
  OBVIOUS
<1> USE DEF TypeOK
<1>1. ASSUME NEW n \in ChunkLens, Inject(n)
      PROVE  TypeOK'
  <2>1. n \in Nat \ {0}
    BY InputAssumption
  <2> DEFINE c == [i \in 1..n |-> ninj + i]
  <2>2. c \in Seq(Nat) /\ Len(c) = n
    BY <2>1
  <2>3. c \in Seq(Nat) \ {<< >>}
    <3> HIDE DEF c
    <3> QED
      BY <2>1, <2>2
  <2>4. chunks_in' \in Seq(Seq(Nat) \ {<< >>})
    <3>1. chunks_in' = Append(chunks_in, c)
      BY <1>1, Zenon DEF Inject
    <3> HIDE DEF c
    <3> QED
      BY <2>3, <3>1, AppendProperties
  <2>5. gpc' \in [Getters -> {"idle", "check", "wait"}]
    BY <1>1 DEF Inject, Signal
  <2>6. ninj' \in Nat /\ got' = got
    BY <1>1, <2>1 DEF Inject
  <2> QED
    BY <2>4, <2>5, <2>6
<1>2. ASSUME NEW g \in Getters, GetCall(g) \/ GetWait(g)
      PROVE  TypeOK'
  BY <1>2 DEF GetCall, GetWait
<1>3. ASSUME NEW g \in Getters, GetTake(g)
      PROVE  TypeOK'
  <2>1. PICK cp \in Seq(Nat) \ {<< >>}, rest \in Seq(Seq(Nat) \ {<< >>}),
             len \in Nat \ {0} :
           /\ chunks_in = << cp >> \o rest
           /\ len <= Len(cp)
           /\ got' = got \o [i \in 1..len |-> <<g, cp[i]>>]
           /\ chunks_in' = IF len = Len(cp) THEN rest
                             ELSE << SubSeq(cp, len + 1, Len(cp)) >> \o rest
    <3> HIDE DEF TypeOK
    <3> QED
      BY <1>3, TakeFacts, Zenon
  <2>2. cp \in Seq(Nat) /\ len \in 0..Len(cp) /\ Len(cp) \in Nat
    BY <2>1, LenProperties
  <2>3. got' \in Seq(Getters \X Nat)
    <3>1. [i \in 1..len |-> <<g, cp[i]>>] \in Seq(Getters \X Nat)
      BY <2>2, TakenBytes, Zenon
    <3> QED
      BY <2>1, <3>1, ConcatProperties
  <2>4. chunks_in' \in Seq(Seq(Nat) \ {<< >>})
    <3>1. CASE len = Len(cp)
      BY <2>1, <3>1
    <3>2. CASE len # Len(cp)
      <4> DEFINE left == SubSeq(cp, len + 1, Len(cp))
      <4>1. left \in Seq(Nat) /\ Len(left) = Len(cp) - len
        BY <2>2, SplitAt, Zenon
      <4>2. chunks_in' = << left >> \o rest
        BY <2>1, <3>2, Zenon
      <4> HIDE DEF left
      <4>3. left \in Seq(Nat) \ {<< >>}
        BY <2>2, <3>2, <4>1
      <4>4. << left >> \in Seq(Seq(Nat) \ {<< >>})
        BY <4>3
      <4> QED
        BY <4>2, <4>4, ConcatProperties
    <3> QED
      BY <3>1, <3>2
  <2>5. gpc' \in [Getters -> {"idle", "check", "wait"}] /\ ninj' \in Nat
    BY <1>3 DEF GetTake
  <2> QED
    BY <2>3, <2>4, <2>5
<1>4. ASSUME UNCHANGED vars
      PROVE  TypeOK'
  BY <1>4 DEF vars
<1> QED
  BY <1>1, <1>2, <1>3, <1>4 DEF Next, Getter

(* Taking a part of the first chunk, taking the last of it, and adding a    *)
(* chunk.                                                                   *)
LEMMA TakePart ==
  ASSUME NEW S, NEW taken \in Seq(S), NEW first \in Seq(S), NEW left \in Seq(S),
         NEW rest \in Seq(Seq(S))
  PROVE  \A all : Makes(taken, << first \o left >> \o rest, all)
                    => Makes(taken \o first, << left >> \o rest, all)
<1> DEFINE d == FlattenSeq(rest)
<1>1. d \in Seq(S) /\ first \o left \in Seq(S)
  BY FlattenType, ConcatProperties
<1>2. FlattenSeq(<< first \o left >> \o rest) = (first \o left) \o d
  BY <1>1, FlattenHead, Zenon
<1>3. FlattenSeq(<< left >> \o rest) = left \o d
  BY FlattenHead, Zenon
<1> HIDE DEF d
<1>4. left \o d \in Seq(S)
  BY <1>1, ConcatProperties
<1> DEFINE e == left \o d
<1>5. d \in Seq(S)
  BY <1>1
<1>6. (first \o left) \o d = first \o (left \o d)
  BY <1>5, ConcatAssociative
<1>7. e \in Seq(S)
  BY <1>4, Zenon
<1> HIDE DEF e
<1>8. (taken \o first) \o e = taken \o (first \o e)
  BY <1>7, ConcatAssociative
<1> QED
  BY <1>2, <1>3, <1>6, <1>8, Zenon DEF Makes, e

LEMMA TakeLast ==
  ASSUME NEW S, NEW taken \in Seq(S), NEW first \in Seq(S),
         NEW rest \in Seq(Seq(S))
  PROVE  \A all : Makes(taken, << first >> \o rest, all)
                    => Makes(taken \o first, rest, all)
<1> DEFINE d == FlattenSeq(rest)
<1>1. d \in Seq(S)
  BY FlattenType
<1>2. FlattenSeq(<< first >> \o rest) = first \o d
  BY FlattenHead, Zenon
<1> HIDE DEF d
<1>3. (taken \o first) \o d = taken \o (first \o d)
  BY <1>1, ConcatAssociative
<1> QED
  BY <1>2, <1>3, Zenon DEF Makes, d

LEMMA AddChunk ==
  ASSUME NEW S, NEW taken \in Seq(S), NEW chunks \in Seq(Seq(S)),
         NEW c \in Seq(S)
  PROVE  \A all : Makes(taken, chunks, all)
                    => Makes(taken, Append(chunks, c), all \o c)
<1> DEFINE d == FlattenSeq(chunks)
<1>1. d \in Seq(S)
  BY FlattenType
<1>2. FlattenSeq(Append(chunks, c)) = d \o c
  BY FlattenAppend, Zenon
<1> HIDE DEF d
<1>3. taken \o (d \o c) = (taken \o d) \o c
  BY <1>1, ConcatAssociative
<1> QED
  BY <1>2, <1>3, Zenon DEF Makes, d

(* No step of the line, of whichever thread, loses, doubles or reorders a   *)
(* byte.                                                                    *)
LEMMA InputOrder == TypeOK /\ InOrder /\ [Next]_vars => InOrder'
<1> SUFFICES ASSUME TypeOK, InOrder, [Next]_vars
             PROVE  InOrder'
  OBVIOUS
<1>1. /\ chunks_in \in Seq(Seq(Nat)) /\ ninj \in Nat /\ got \in Seq(Getters \X Nat)
      /\ Numbers(got) \in Seq(Nat)
  BY ChunksType, NumbersOf, Zenon DEF TypeOK
<1>2. Makes(Numbers(got), chunks_in, Injected(ninj))
  BY DEF InOrder
<1>3. ASSUME NEW n \in ChunkLens, Inject(n)
      PROVE  InOrder'
  <2>1. n \in Nat
    BY InputAssumption
  <2> DEFINE c == [i \in 1..n |-> ninj + i]
  <2>2. /\ chunks_in' = Append(chunks_in, c) /\ ninj' = ninj + n /\ got' = got
    BY <1>3, Zenon DEF Inject
  <2>3. c \in Seq(Nat) /\ Injected(ninj) \o c = Injected(ninj + n)
    BY <1>1, <2>1, InjectedConcat, Zenon
  <2> HIDE DEF c
  <2>4. Makes(Numbers(got), Append(chunks_in, c), Injected(ninj) \o c)
    BY <1>1, <1>2, <2>3, AddChunk, Zenon
  <2> QED
    BY <2>2, <2>3, <2>4, Zenon DEF InOrder
<1>4. ASSUME NEW g \in Getters, GetTake(g)
      PROVE  InOrder'
  <2>1. PICK cp \in Seq(Nat) \ {<< >>}, rest \in Seq(Seq(Nat) \ {<< >>}),
             len \in Nat \ {0} :
           /\ chunks_in = << cp >> \o rest
           /\ len <= Len(cp)
           /\ got' = got \o [i \in 1..len |-> <<g, cp[i]>>]
           /\ chunks_in' = IF len = Len(cp) THEN rest
                             ELSE << SubSeq(cp, len + 1, Len(cp)) >> \o rest
    BY <1>4, TakeFacts, Zenon
  <2>2. cp \in Seq(Nat) /\ rest \in Seq(Seq(Nat)) /\ len \in 0..Len(cp)
    <3>1. cp \in Seq(Nat) /\ len \in 0..Len(cp)
      BY <2>1, LenProperties
    <3> QED
      BY <3>1, ChunksType, Zenon
  <2> DEFINE first == SubSeq(cp, 1, len)
             left == SubSeq(cp, len + 1, Len(cp))
             t == [i \in 1..len |-> <<g, cp[i]>>]
  <2>3. first \in Seq(Nat) /\ left \in Seq(Nat) /\ cp = first \o left
    BY <2>2, SplitAt, Zenon
  <2>4. t \in Seq(Getters \X Nat) /\ Numbers(t) = first
    BY <2>2, TakenBytes, Zenon
  <2>5. Numbers(got') = Numbers(got) \o first
    BY <1>1, <2>1, <2>4, NumbersConcat, Zenon
  <2>6. Makes(Numbers(got) \o first, chunks_in', Injected(ninj))
    <3>1. CASE len = Len(cp)
      <4>1. first = cp
        BY <2>2, <3>1, SubSeqFull, Zenon
      <4>2. chunks_in' = rest
        BY <2>1, <3>1, Zenon
      <4>3. Makes(Numbers(got), << first >> \o rest, Injected(ninj))
        BY <1>2, <2>1, <4>1, Zenon
      <4> HIDE DEF first
      <4>4. Makes(Numbers(got) \o first, rest, Injected(ninj))
        BY <1>1, <2>2, <2>3, <4>3, TakeLast, Zenon
      <4> QED
        BY <4>2, <4>4, Zenon
    <3>2. CASE len # Len(cp)
      <4>1. chunks_in' = << left >> \o rest
        BY <2>1, <3>2, Zenon
      <4> HIDE DEF first, left
      <4>2. Makes(Numbers(got), << first \o left >> \o rest, Injected(ninj))
        BY <1>2, <2>1, <2>3, Zenon
      <4>3. Makes(Numbers(got) \o first, << left >> \o rest, Injected(ninj))
        BY <1>1, <2>2, <2>3, <4>2, TakePart, Zenon
      <4> QED
        BY <4>1, <4>3, Zenon
    <3> QED
      BY <3>1, <3>2, Zenon
  <2>7. ninj' = ninj
    BY <1>4 DEF GetTake
  <2> HIDE DEF first
  <2> QED
    BY <2>5, <2>6, <2>7, Zenon DEF InOrder
<1>5. ASSUME UNCHANGED <<chunks_in, ninj, got>>
      PROVE  InOrder'
  BY <1>2, <1>5, Zenon DEF InOrder
<1> QED
  BY <1>3, <1>4, <1>5 DEF Next, Getter, GetCall, GetWait, vars

-----------------------------------------------------------------------------
(* The registers of the UART.  The end of a character leaves the mode, sends *)
(* on what waits, and neither brings nor takes a byte of the line.          *)

LEMMA RaisedFacts ==
  ASSUME NEW c \in Uart, NEW i \in {"TXRDY", "RXRDY", "BREAK"}
  PROVE  /\ Raised(c, i) \in Uart /\ Raised(c, i) = [c EXCEPT !.irq = c.irq \cup {i}]
         /\ Raised(c, i).irq = c.irq \cup {i}
         /\ Raised(c, i).cmd = c.cmd /\ Raised(c, i).txrdy = c.txrdy
         /\ Raised(c, i).rxrdy = c.rxrdy /\ Raised(c, i).brkdet = c.brkdet
         /\ Raised(c, i).rxhold = c.rxhold /\ Raised(c, i).txhold = c.txhold
         /\ Raised(c, i).txshift = c.txshift
BY DEF Raised, Uart

LEMMA LoweredFacts ==
  ASSUME NEW c \in Uart, NEW irqs
  PROVE  /\ Lowered(c, irqs) \in Uart
         /\ Lowered(c, irqs) = [c EXCEPT !.irq = c.irq \ irqs]
         /\ Lowered(c, irqs).irq = c.irq \ irqs
         /\ Lowered(c, irqs).cmd = c.cmd /\ Lowered(c, irqs).txrdy = c.txrdy
         /\ Lowered(c, irqs).rxrdy = c.rxrdy /\ Lowered(c, irqs).brkdet = c.brkdet
         /\ Lowered(c, irqs).rxhold = c.rxhold /\ Lowered(c, irqs).txhold = c.txhold
         /\ Lowered(c, irqs).txshift = c.txshift
BY DEF Lowered, Uart

LEMMA LoopedFacts ==
  ASSUME NEW c \in Uart, RegsOK(c)
  PROVE  /\ Looped(c) \in Uart
         /\ Looped(c).cmd = c.cmd /\ Looped(c).txrdy = c.txrdy
         /\ Looped(c).txhold = c.txhold /\ Looped(c).txshift = c.txshift
         /\ "brk" \notin c.cmd => RegsOK(Looped(c))
         /\ "brk" \notin c.cmd => (Has(Looped(c)) <=> Has(c))
         /\ Has(c) => Looped(c).rxhold = c.rxhold
<1>1. CASE "loop" \in c.cmd /\ "brk" \notin c.cmd /\ c.full
  <2> DEFINE e == [c EXCEPT !.rxhold = c.txshift, !.rxrdy = TRUE]
  <2>1. /\ e \in Uart /\ e.rxhold = c.txshift /\ e.rxrdy = TRUE
        /\ e.cmd = c.cmd /\ e.txrdy = c.txrdy /\ e.brkdet = c.brkdet
        /\ e.txhold = c.txhold /\ e.txshift = c.txshift
    BY DEF Uart
  <2>2. Looped(c) = Raised(e, "RXRDY")
    BY <1>1, Zenon DEF Looped
  <2> DEFINE r == Looped(c)
  <2> HIDE DEF e
  <2>3. /\ r \in Uart /\ r.cmd = e.cmd /\ r.txrdy = e.txrdy /\ r.rxrdy = e.rxrdy
        /\ r.brkdet = e.brkdet /\ r.rxhold = e.rxhold /\ r.txhold = e.txhold
        /\ r.txshift = e.txshift /\ r.irq = e.irq \cup {"RXRDY"}
    <3> DEFINE f == Raised(e, "RXRDY")
    <3>1. /\ f \in Uart /\ f.cmd = e.cmd /\ f.txrdy = e.txrdy /\ f.rxrdy = e.rxrdy
          /\ f.brkdet = e.brkdet /\ f.rxhold = e.rxhold /\ f.txhold = e.txhold
          /\ f.txshift = e.txshift /\ f.irq = e.irq \cup {"RXRDY"}
      BY <2>1, RaisedFacts, SMT
    <3>2. r = f
      BY <2>2, Zenon
    <3> HIDE DEF f, r
    <3> QED
      BY <3>1, <3>2
  <2> HIDE DEF r
  <2>4. /\ r.cmd = c.cmd /\ r.txrdy = c.txrdy /\ r.txhold = c.txhold
        /\ r.txshift = c.txshift /\ r.rxrdy /\ r.rxhold = c.txshift
        /\ r.brkdet = c.brkdet /\ "RXRDY" \in r.irq
    BY <2>1, <2>3
  <2>5. RegsOK(r) /\ ~ Has(c) /\ ~ Has(r)
    BY <1>1, <2>4 DEF RegsOK, Has, Uart
  <2> QED
    BY <2>3, <2>4, <2>5, Zenon DEF r
<1>2. CASE ~ ("loop" \in c.cmd /\ "brk" \notin c.cmd /\ c.full)
  BY <1>2 DEF Looped
<1> QED
  BY <1>1, <1>2

LEMMA ShiftFacts ==
  ASSUME NEW c \in Uart, RegsOK(c)
  PROVE  /\ ShiftDone(c) \in Uart /\ RegsOK(ShiftDone(c))
         /\ ShiftDone(c).cmd = c.cmd /\ ShiftDone(c).txhold = c.txhold
         /\ ~ Puts(ShiftDone(c))
         /\ Has(ShiftDone(c)) <=> Has(c)
         /\ Has(c) => ShiftDone(c).rxhold = c.rxhold
<1>1. CASE "tx" \notin c.cmd
  BY <1>1 DEF ShiftDone, Lowered, Uart, RegsOK, Has, Puts
<1>2. CASE "tx" \in c.cmd /\ {"loop", "brk"} \subseteq c.cmd
  <2> DEFINE e == [c EXCEPT !.rxrdy = TRUE, !.brkdet = TRUE]
  <2>1. /\ e \in Uart /\ e.rxhold = c.rxhold /\ e.rxrdy = TRUE
        /\ e.cmd = c.cmd /\ e.brkdet = TRUE
        /\ e.txhold = c.txhold /\ e.txshift = c.txshift
    BY DEF Uart
  <2>2. ShiftDone(c) = Raised(e, "BREAK")
    BY <1>2, Zenon DEF ShiftDone
  <2> DEFINE r == ShiftDone(c)
  <2> HIDE DEF e
  <2>3. /\ r \in Uart /\ r.cmd = e.cmd /\ r.txhold = e.txhold
        /\ r.brkdet = e.brkdet /\ r.rxhold = e.rxhold /\ r.txshift = e.txshift
    BY <2>1, <2>2, RaisedFacts, Zenon
  <2> HIDE DEF r
  <2>4. /\ r.cmd = c.cmd /\ r.txhold = c.txhold /\ r.txshift = c.txshift
        /\ r.rxhold = c.rxhold /\ r.brkdet
    BY <2>1, <2>3
  <2>5. RegsOK(r) /\ ~ Has(c) /\ ~ Has(r) /\ ~ Puts(r)
    BY <1>2, <2>4 DEF RegsOK, Has, Puts, Uart
  <2> QED
    BY <2>3, <2>4, <2>5, Zenon DEF r
<1>3. CASE "tx" \in c.cmd /\ ~ ({"loop", "brk"} \subseteq c.cmd)
  <2> DEFINE l == Looped(c)
  <2>1. /\ l \in Uart /\ RegsOK(l) /\ l.cmd = c.cmd /\ l.txrdy = c.txrdy
        /\ l.txhold = c.txhold /\ l.txshift = c.txshift
        /\ Has(l) <=> Has(c)
        /\ Has(c) => l.rxhold = c.rxhold
    BY <1>3, LoopedFacts DEF RegsOK
  <2>2. ShiftDone(c) =
          IF c.txrdy THEN [l EXCEPT !.full = FALSE, !.txemt = TRUE]
          ELSE Raised([l EXCEPT !.txshift = c.txhold, !.full = TRUE,
                                !.txrdy = TRUE, !.callbacks = @ + 1], "TXRDY")
    BY <1>3, Zenon DEF ShiftDone
  <2> HIDE DEF l
  <2>3. CASE c.txrdy
    BY <1>3, <2>1, <2>2, <2>3 DEF Uart, RegsOK, Has, Puts
  <2>4. CASE ~ c.txrdy
    <3> DEFINE e == [l EXCEPT !.txshift = c.txhold, !.full = TRUE,
                              !.txrdy = TRUE, !.callbacks = @ + 1]
               r == ShiftDone(c)
    <3>1. l \in Uart
      BY <2>1
    <3>2. /\ e \in Uart /\ e.rxhold = l.rxhold /\ e.rxrdy = l.rxrdy
          /\ e.cmd = l.cmd /\ e.brkdet = l.brkdet /\ e.txrdy = TRUE
          /\ e.txhold = l.txhold /\ e.txshift = c.txhold /\ e.irq = l.irq
      <4>1. c.txhold \in Int
        BY DEF Uart
      <4>2. e \in Uart
        <5> DEFINE n == l.callbacks + 1
        <5>1. n \in Nat
          BY <3>1 DEF Uart
        <5>2. e = [l EXCEPT !.txshift = c.txhold, !.full = TRUE, !.txrdy = TRUE,
                            !.callbacks = n]
          BY Zenon
        <5> HIDE DEF n, e
        <5> QED
          BY <3>1, <4>1, <5>1, <5>2 DEF Uart
      <4>3. /\ e.rxhold = l.rxhold /\ e.rxrdy = l.rxrdy
            /\ e.cmd = l.cmd /\ e.brkdet = l.brkdet /\ e.txrdy = TRUE
        BY <3>1 DEF Uart
      <4>4. e.txhold = l.txhold /\ e.txshift = c.txhold /\ e.irq = l.irq
        BY <3>1 DEF Uart
      <4> QED
        BY <4>2, <4>3, <4>4, Zenon
    <3>3. ShiftDone(c) = Raised(e, "TXRDY")
      BY <2>2, <2>4, Zenon
    <3> HIDE DEF e
    <3>4. /\ r \in Uart /\ r.cmd = e.cmd /\ r.txrdy = e.txrdy /\ r.rxrdy = e.rxrdy
          /\ r.brkdet = e.brkdet /\ r.rxhold = e.rxhold /\ r.txhold = e.txhold
          /\ r.txshift = e.txshift /\ r.irq = e.irq \cup {"TXRDY"}
      <4> DEFINE f == Raised(e, "TXRDY")
      <4>1. /\ f \in Uart /\ f.cmd = e.cmd /\ f.txrdy = e.txrdy /\ f.rxrdy = e.rxrdy
            /\ f.brkdet = e.brkdet /\ f.rxhold = e.rxhold /\ f.txhold = e.txhold
            /\ f.txshift = e.txshift /\ f.irq = e.irq \cup {"TXRDY"}
        BY <3>2, RaisedFacts, SMT
      <4>2. r = f
        BY <3>3, Zenon
      <4> HIDE DEF f, r
      <4> QED
        BY <4>1, <4>2
    <3> HIDE DEF r
    <3>5. /\ r.cmd = c.cmd /\ r.txrdy /\ r.txhold = c.txhold
          /\ r.txshift = c.txhold /\ r.rxrdy = l.rxrdy /\ r.rxhold = l.rxhold
          /\ r.brkdet = l.brkdet /\ ("RXRDY" \in l.irq => "RXRDY" \in r.irq)
      BY <2>1, <3>2, <3>4
    <3>6. RegsOK(r) /\ (Has(r) <=> Has(c)) /\ ~ Puts(r)
      BY <2>1, <3>5 DEF RegsOK, Has, Puts
    <3> QED
      BY <2>1, <3>4, <3>5, <3>6, Zenon DEF r
  <2> QED
    BY <2>3, <2>4
<1> QED
  BY <1>1, <1>2, <1>3

(* The four parts of a command.                                             *)
LEMMA CmdTxFacts ==
  ASSUME NEW c \in Uart, NEW d \in SUBSET (Bits \cup {"er"})
  PROVE  /\ CmdTx(c, d) =
              [c EXCEPT !.txrdy = CmdTx(c, d).txrdy, !.txemt = CmdTx(c, d).txemt,
                        !.irq = CmdTx(c, d).irq]
         /\ CmdTx(c, d) \in Uart
         /\ CmdTx(c, d).txrdy <=> IF "tx" \in d \ c.cmd THEN TRUE
                                  ELSE "tx" \notin c.cmd \ d /\ c.txrdy
         /\ "RXRDY" \in CmdTx(c, d).irq <=> "RXRDY" \in c.irq
<1>1. CASE "tx" \in d \ c.cmd
  BY <1>1 DEF CmdTx, Raised, Uart
<1>2. CASE "tx" \in c.cmd \ d
  BY <1>2 DEF CmdTx, Lowered, Uart
<1>3. CASE "tx" \notin d \ c.cmd /\ "tx" \notin c.cmd \ d
  BY <1>3 DEF CmdTx, Uart
<1> QED
  BY <1>1, <1>2, <1>3

LEMMA CmdRxFacts ==
  ASSUME NEW c \in Uart, NEW d \in SUBSET (Bits \cup {"er"})
  PROVE  /\ CmdRx(c, d) =
              [c EXCEPT !.rxrdy = CmdRx(c, d).rxrdy, !.irq = CmdRx(c, d).irq]
         /\ CmdRx(c, d) \in Uart
         /\ CmdRx(c, d).rxrdy <=> c.rxrdy /\ ("rx" \in c.cmd <=> "rx" \in d)
         /\ CmdRx(c, d).rxrdy => ("RXRDY" \in CmdRx(c, d).irq <=> "RXRDY" \in c.irq)
<1>1. CASE "rx" \in d \ c.cmd
  BY <1>1 DEF CmdRx, Uart
<1>2. CASE "rx" \in c.cmd \ d
  BY <1>2 DEF CmdRx, Lowered, Uart
<1>3. CASE "rx" \notin d \ c.cmd /\ "rx" \notin c.cmd \ d
  BY <1>3 DEF CmdRx, Uart
<1> QED
  BY <1>1, <1>2, <1>3

LEMMA CmdErrorsFacts ==
  ASSUME NEW c \in Uart, NEW d \in SUBSET (Bits \cup {"er"})
  PROVE  /\ CmdErrors(c, d) =
              [c EXCEPT !.brkdet = CmdErrors(c, d).brkdet, !.irq = CmdErrors(c, d).irq]
         /\ CmdErrors(c, d) \in Uart
         /\ CmdErrors(c, d).brkdet <=> "er" \notin d /\ c.brkdet
         /\ "RXRDY" \in CmdErrors(c, d).irq <=> "RXRDY" \in c.irq
BY DEF CmdErrors, Lowered, Uart

LEMMA CmdBreakFacts ==
  ASSUME NEW c \in Uart, NEW d \in SUBSET (Bits \cup {"er"})
  PROVE  /\ CmdBreak(c, d) =
              [c EXCEPT !.txrdy = CmdBreak(c, d).txrdy,
                        !.txemt = CmdBreak(c, d).txemt, !.irq = CmdBreak(c, d).irq]
         /\ CmdBreak(c, d) \in Uart
         /\ CmdBreak(c, d).txrdy <=> IF "brk" \in c.cmd \ d THEN TRUE
                                     ELSE "brk" \notin d \ c.cmd /\ c.txrdy
         /\ "RXRDY" \in CmdBreak(c, d).irq <=> "RXRDY" \in c.irq
<1>1. CASE "brk" \in d \ c.cmd
  BY <1>1 DEF CmdBreak, Lowered, Uart
<1>2. CASE "brk" \in c.cmd \ d
  BY <1>2 DEF CmdBreak, Raised, Lowered, Uart
<1>3. CASE "brk" \notin d \ c.cmd /\ "brk" \notin c.cmd \ d
  BY <1>3 DEF CmdBreak, Uart
<1> QED
  BY <1>1, <1>2, <1>3

(* A command of a careful guest ends a break, leaves what waits to be sent,  *)
(* and takes a byte of the line from the holding register only by emptying  *)
(* it.                                                                      *)
LEMMA CommandedFacts ==
  ASSUME NEW c \in Uart, RegsOK(c), NEW d \in Cmds, Careful(c, d)
  PROVE  /\ Commanded(c, d) \in Uart /\ RegsOK(Commanded(c, d))
         /\ Commanded(c, d).txhold = c.txhold
         /\ Commanded(c, d).rxhold = c.rxhold
         /\ Puts(Commanded(c, d)) <=> Puts(c)
         /\ Has(Commanded(c, d)) => Has(c)
         /\ Has(c) /\ Commanded(c, d).rxrdy => Has(Commanded(c, d))
         /\ c.brkdet => ~ c.rxrdy
<1> DEFINE c1 == CmdTx(c, d)
           c2 == CmdRx(c1, d)
           c3 == CmdErrors(c2, d)
           c4 == CmdBreak(c3, d)
           e == Commanded(c, d)
<1>1. /\ d \in SUBSET (Bits \cup {"er"}) /\ d \ {"er"} \in SUBSET Bits
      /\ "brk" \in d => "loop" \in d
      /\ "loop" \in d => "rx" \notin d
  BY ConsoleAssumption DEF Bits
<1>2. /\ c1 \in Uart /\ c1.cmd = c.cmd /\ c1.rxrdy = c.rxrdy
      /\ c1.brkdet = c.brkdet /\ c1.rxhold = c.rxhold /\ c1.txhold = c.txhold
      /\ c1.txshift = c.txshift
      /\ c1.txrdy <=> IF "tx" \in d \ c.cmd THEN TRUE
                      ELSE "tx" \notin c.cmd \ d /\ c.txrdy
      /\ "RXRDY" \in c1.irq <=> "RXRDY" \in c.irq
  <2>1. c1 \in Uart /\ c1 = [c EXCEPT !.txrdy = c1.txrdy, !.txemt = c1.txemt,
                                      !.irq = c1.irq]
    BY <1>1, CmdTxFacts, Zenon
  <2>2. /\ c1.txrdy <=> IF "tx" \in d \ c.cmd THEN TRUE
                        ELSE "tx" \notin c.cmd \ d /\ c.txrdy
        /\ "RXRDY" \in c1.irq <=> "RXRDY" \in c.irq
    BY <1>1, CmdTxFacts, Zenon
  <2> HIDE DEF c1
  <2>3. /\ c1.cmd = c.cmd /\ c1.rxrdy = c.rxrdy
        /\ c1.brkdet = c.brkdet /\ c1.rxhold = c.rxhold /\ c1.txhold = c.txhold
        /\ c1.txshift = c.txshift
    BY <2>1 DEF Uart
  <2> QED
    BY <2>1, <2>2, <2>3, Zenon
<1> HIDE DEF c1
<1>3. /\ c2 \in Uart /\ c2.cmd = c1.cmd /\ c2.txrdy = c1.txrdy
      /\ c2.brkdet = c1.brkdet /\ c2.rxhold = c1.rxhold /\ c2.txhold = c1.txhold
      /\ c2.txshift = c1.txshift
      /\ c2.rxrdy <=> c1.rxrdy /\ ("rx" \in c1.cmd <=> "rx" \in d)
      /\ c2.rxrdy => ("RXRDY" \in c2.irq <=> "RXRDY" \in c1.irq)
  <2>1. c2 \in Uart /\ c2 = [c1 EXCEPT !.rxrdy = c2.rxrdy, !.irq = c2.irq]
    BY <1>1, <1>2, CmdRxFacts, Zenon
  <2>2. /\ c2.rxrdy <=> c1.rxrdy /\ ("rx" \in c1.cmd <=> "rx" \in d)
        /\ c2.rxrdy => ("RXRDY" \in c2.irq <=> "RXRDY" \in c1.irq)
    BY <1>1, <1>2, CmdRxFacts, Zenon
  <2>3. c1 \in Uart
    BY <1>2
  <2> HIDE DEF c2
  <2>4. /\ c2.cmd = c1.cmd /\ c2.txrdy = c1.txrdy
        /\ c2.brkdet = c1.brkdet /\ c2.rxhold = c1.rxhold /\ c2.txhold = c1.txhold
        /\ c2.txshift = c1.txshift
    BY <2>1, <2>3 DEF Uart
  <2> QED
    BY <2>1, <2>2, <2>4, Zenon
<1> HIDE DEF c2
<1>4. /\ c3 \in Uart /\ c3.cmd = c2.cmd /\ c3.txrdy = c2.txrdy
      /\ c3.rxrdy = c2.rxrdy /\ c3.rxhold = c2.rxhold /\ c3.txhold = c2.txhold
      /\ c3.txshift = c2.txshift
      /\ c3.brkdet <=> "er" \notin d /\ c2.brkdet
      /\ "RXRDY" \in c3.irq <=> "RXRDY" \in c2.irq
  <2>1. c2 \in Uart /\ d \in SUBSET (Bits \cup {"er"})
    BY <1>1, <1>3, Zenon
  <2>2. c3 \in Uart /\ c3 = [c2 EXCEPT !.brkdet = c3.brkdet, !.irq = c3.irq]
    BY <2>1, CmdErrorsFacts
  <2>3. /\ c3.brkdet <=> "er" \notin d /\ c2.brkdet
        /\ "RXRDY" \in c3.irq <=> "RXRDY" \in c2.irq
    BY <2>1, CmdErrorsFacts
  <2> HIDE DEF c3
  <2>4. /\ c3.cmd = c2.cmd /\ c3.txrdy = c2.txrdy
        /\ c3.rxrdy = c2.rxrdy /\ c3.rxhold = c2.rxhold /\ c3.txhold = c2.txhold
        /\ c3.txshift = c2.txshift
    BY <2>1, <2>2 DEF Uart
  <2> QED
    BY <2>2, <2>3, <2>4, Zenon
<1> HIDE DEF c3
<1>5. /\ c4 \in Uart /\ c4.cmd = c3.cmd
      /\ c4.rxrdy = c3.rxrdy /\ c4.rxhold = c3.rxhold /\ c4.txhold = c3.txhold
      /\ c4.txshift = c3.txshift /\ c4.brkdet = c3.brkdet
      /\ c4.txrdy <=> IF "brk" \in c3.cmd \ d THEN TRUE
                      ELSE "brk" \notin d \ c3.cmd /\ c3.txrdy
      /\ "RXRDY" \in c4.irq <=> "RXRDY" \in c3.irq
  <2>1. c4 \in Uart /\ c4 = [c3 EXCEPT !.txrdy = c4.txrdy, !.txemt = c4.txemt,
                                       !.irq = c4.irq]
    BY <1>1, <1>4, CmdBreakFacts, Zenon
  <2>2. /\ c4.txrdy <=> IF "brk" \in c3.cmd \ d THEN TRUE
                        ELSE "brk" \notin d \ c3.cmd /\ c3.txrdy
        /\ "RXRDY" \in c4.irq <=> "RXRDY" \in c3.irq
    BY <1>1, <1>4, CmdBreakFacts, Zenon
  <2>3. c3 \in Uart
    BY <1>4
  <2> HIDE DEF c4
  <2>4. /\ c4.cmd = c3.cmd
        /\ c4.rxrdy = c3.rxrdy /\ c4.rxhold = c3.rxhold /\ c4.txhold = c3.txhold
        /\ c4.txshift = c3.txshift /\ c4.brkdet = c3.brkdet
    BY <2>1, <2>3 DEF Uart
  <2> QED
    BY <2>1, <2>2, <2>4, Zenon
<1>6. e = [c4 EXCEPT !.cmd = d \ {"er"}]
  BY Zenon DEF Commanded, c1, c2, c3
<1> HIDE DEF c4, e
<1>7. /\ e \in Uart /\ e.cmd = d \ {"er"} /\ e.txrdy = c4.txrdy
      /\ e.rxrdy = c4.rxrdy /\ e.rxhold = c4.rxhold /\ e.txhold = c4.txhold
      /\ e.txshift = c4.txshift /\ e.brkdet = c4.brkdet /\ e.irq = c4.irq
  <2>1. c4 \in Uart
    BY <1>5
  <2>2. d \ {"er"} \in SUBSET Bits
    BY <1>1
  <2> QED
    BY <1>6, <2>1, <2>2 DEF Uart
<1>8. /\ e.rxhold = c.rxhold /\ e.txhold = c.txhold /\ e.txshift = c.txshift
      /\ e.rxrdy <=> c.rxrdy /\ ("rx" \in c.cmd <=> "rx" \in d)
      /\ e.brkdet <=> "er" \notin d /\ c.brkdet
      /\ e.rxrdy => ("RXRDY" \in e.irq <=> "RXRDY" \in c.irq)
  BY <1>2, <1>3, <1>4, <1>5, <1>7, Zenon
<1>9. e.txrdy <=> IF "brk" \in c.cmd \ d THEN TRUE
                  ELSE /\ "brk" \notin d \ c.cmd
                       /\ IF "tx" \in d \ c.cmd THEN TRUE
                          ELSE "tx" \notin c.cmd \ d /\ c.txrdy
  BY <1>2, <1>3, <1>4, <1>5, <1>7, Zenon
<1>10. ~ e.brkdet /\ (c.brkdet => ~ c.rxrdy)
  BY <1>8, Zenon DEF Careful
<1>11. RegsOK(e)
  BY <1>1, <1>7, <1>8, <1>10 DEF RegsOK, Uart
<1>12. /\ Has(e) => Has(c)
       /\ Has(c) /\ e.rxrdy => Has(e)
  BY <1>8, <1>10, Zenon DEF Has
<1>13. Puts(e) <=> Puts(c)
  <2>1. CASE d \ {"rx", "er"} = c.cmd \ {"rx"}
    <3>1. /\ "tx" \in d <=> "tx" \in c.cmd
          /\ "brk" \in d <=> "brk" \in c.cmd
          /\ "loop" \in d <=> "loop" \in c.cmd
      BY <2>1
    <3>2. e.txrdy <=> c.txrdy
      BY <1>9, <3>1
    <3> QED
      BY <1>7, <3>1, <3>2 DEF Puts
  <2>2. CASE c.txrdy
    BY <1>1, <1>7, <1>9, <2>2 DEF Puts, RegsOK
  <2>3. CASE c.cmd \cap {"tx", "brk"} # {"tx"} /\ ~ c.txrdy
    <3>1. "tx" \notin c.cmd \/ "brk" \in c.cmd
      BY <2>3
    <3> QED
      BY <1>1, <1>7, <1>9, <2>3, <3>1 DEF Puts, RegsOK
  <2> QED
    BY <2>1, <2>2, <2>3 DEF Careful
<1> QED
  BY <1>7, <1>8, <1>10, <1>11, <1>12, <1>13, Zenon DEF e

-----------------------------------------------------------------------------
(* The console and its line.                                                *)

(* Every step of the console is one of ElasticInput, or none of its         *)
(* variables changes.                                                       *)
LEMMA StepOfLine == [ConNext]_<<vars, convars>> => [Next]_vars
<1>1. con \in Getters
  BY ConsoleAssumption, InputAssumption
<1>2. LineInject => [Next]_vars
  BY Zenon DEF LineInject, Next
<1>3. ConGet => [Next]_vars
  BY <1>1, Zenon DEF ConGet, Next, Getter
<1>4. ConWait \/ ConHold \/ ConSlept \/ Cpu => [Next]_vars
  BY Zenon DEF ConWait, ConHold, ConSlept, Cpu, TxCallback, ReadData, WriteData,
               WriteCmd, AfterWrite, vars
<1>5. ASSUME NEW g \in Getters \ {con}, DiagCall(g) \/ DiagGet(g)
      PROVE  [Next]_vars
  BY <1>5, Zenon DEF DiagCall, DiagGet, Next
<1>6. UNCHANGED <<vars, convars>> => [Next]_vars
  BY Zenon
<1> QED
  BY <1>2, <1>3, <1>4, <1>5, <1>6, Zenon DEF ConNext, Thread

LEMMA InputInit == Init => TypeOK /\ InOrder
<1> SUFFICES ASSUME Init
             PROVE  TypeOK /\ InOrder
  OBVIOUS
<1>1. << >> \in Seq(Nat) /\ << >> \in Seq(Getters \X Nat)
      /\ << >> \in Seq(Seq(Nat) \ {<< >>})
  BY EmptySeq
<1>2. TypeOK
  BY <1>1 DEF Init, TypeOK
<1>3. Numbers(<< >>) = << >> /\ Injected(0) = << >>
  BY DEF Numbers, Injected
<1>4. << >> \o FlattenSeq(<< >>) = << >>
  BY <1>1, FlattenEmpty, ConcatEmptySeq
<1> QED
  BY <1>2, <1>3, <1>4, Zenon DEF Init, InOrder, Makes

(* The bytes of a line are returned in the order in which they were         *)
(* injected, whoever asks for them and however long the chunks are.         *)
THEOREM LineOrder == Spec => []InOrder
<1>1. TypeOK /\ InOrder /\ [Next]_vars => (TypeOK /\ InOrder)'
  BY InputType, InputOrder
<1> QED
  BY <1>1, InputInit, PTL DEF Spec

(* So they are with the console UART at its end: the composition implements *)
(* the line.                                                                *)
THEOREM ConsoleIsALine == ConSpec => Init /\ [][Next]_vars
<1>1. ConInit => Init
  BY DEF ConInit
<1> QED
  BY <1>1, StepOfLine, PTL DEF ConSpec, ConSafety

THEOREM ConsoleOrder == ConSpec => []InOrder
<1>1. TypeOK /\ InOrder /\ [Next]_vars => (TypeOK /\ InOrder)'
  BY InputType, InputOrder
<1> QED
  BY <1>1, InputInit, ConsoleIsALine, PTL

(* A byte taken is known by its place.                                      *)
LEMMA TakenNumbers ==
  ASSUME TypeOK, InOrder
  PROVE  /\ Len(got) \in Nat
         /\ \A i \in 1..Len(got) : Numbers(got)[i] = i /\ got[i][2] = i
<1> DEFINE n == Len(got)
           s == Numbers(got)
           f == FlattenSeq(chunks_in)
<1>1. /\ s \in Seq(Nat) /\ Len(s) = n /\ n \in Nat
      /\ \A i \in 1..n : s[i] = got[i][2]
  BY NumbersOf DEF TypeOK
<1>2. f \in Seq(Nat) /\ ninj \in Nat
  BY ChunksType, FlattenType, Zenon DEF TypeOK
<1>3. s \o f = Injected(ninj)
  BY Zenon DEF InOrder, Makes
<1>4. /\ Len(Injected(ninj)) = ninj
      /\ \A i \in 1..ninj : Injected(ninj)[i] = i
  BY <1>2, InjectedIs, Zenon
<1> HIDE DEF s, f, n
<1>5. /\ Len(s \o f) = n + Len(f) /\ Len(f) \in Nat
      /\ \A i \in 1..(n + Len(f)) : (s \o f)[i] = IF i <= n THEN s[i] ELSE f[i - n]
  BY <1>1, <1>2, ConcatProperties, LenProperties
<1>6. ASSUME NEW i \in 1..n
      PROVE  s[i] = i
  <2>1. i \in 1..(n + Len(f)) /\ i <= n
    BY <1>1, <1>5
  <2>2. (s \o f)[i] = s[i]
    BY <1>5, <2>1, Zenon
  <2>3. i \in 1..ninj
    BY <1>3, <1>4, <1>5, <2>1, Zenon
  <2> QED
    BY <1>3, <1>4, <2>2, <2>3, Zenon
<1> QED
  BY <1>1, <1>6 DEF s, n

(* The handlers, each with what it does to the registers.                   *)
LEMMA CallbackFacts ==
  ASSUME NEW c \in Uart, RegsOK(c), NEW n \in Nat
  PROVE  /\ [c EXCEPT !.callbacks = n] \in Uart
         /\ RegsOK([c EXCEPT !.callbacks = n])
         /\ [c EXCEPT !.callbacks = n].rxhold = c.rxhold
         /\ [c EXCEPT !.callbacks = n].txhold = c.txhold
         /\ Has([c EXCEPT !.callbacks = n]) <=> Has(c)
         /\ Puts([c EXCEPT !.callbacks = n]) <=> Puts(c)
BY DEF Uart, RegsOK, Has, Puts

LEMMA ReadFacts ==
  ASSUME NEW c \in Uart, RegsOK(c), NEW e,
         e = Lowered([c EXCEPT !.rxrdy = FALSE], {"RXRDY"})
  PROVE  /\ e \in Uart /\ RegsOK(e) /\ e.txhold = c.txhold
         /\ ~ Has(e) /\ (Puts(e) <=> Puts(c))
<1>1. /\ e \in Uart /\ e.cmd = c.cmd /\ e.txrdy = c.txrdy /\ e.rxrdy = FALSE
      /\ e.txhold = c.txhold /\ e.txshift = c.txshift /\ e.brkdet = c.brkdet
  BY DEF Lowered, Uart
<1> QED
  BY <1>1 DEF RegsOK, Has, Puts

LEMMA HoldFacts ==
  ASSUME NEW c \in Uart, RegsOK(c), "rx" \in c.cmd, ~ c.rxrdy, NEW b \in Int, NEW e,
         e = Raised([c EXCEPT !.rxhold = b, !.rxrdy = TRUE], "RXRDY")
  PROVE  /\ e \in Uart /\ RegsOK(e) /\ e.txhold = c.txhold /\ e.rxhold = b
         /\ ~ Has(c) /\ (Has(e) <=> b > 0) /\ (Puts(e) <=> Puts(c))
<1>1. /\ e \in Uart /\ e.cmd = c.cmd /\ e.txrdy = c.txrdy /\ e.rxrdy = TRUE
      /\ e.txhold = c.txhold /\ e.txshift = c.txshift /\ e.brkdet = c.brkdet
      /\ e.rxhold = b /\ "RXRDY" \in e.irq
  <2> DEFINE h == [c EXCEPT !.rxhold = b, !.rxrdy = TRUE]
  <2>1. /\ h \in Uart /\ h.cmd = c.cmd /\ h.txrdy = c.txrdy /\ h.rxrdy = TRUE
        /\ h.txhold = c.txhold /\ h.txshift = c.txshift /\ h.brkdet = c.brkdet
        /\ h.rxhold = b
    BY DEF Uart
  <2>2. e = Raised(h, "RXRDY")
    OBVIOUS
  <2> HIDE DEF h
  <2>3. /\ e \in Uart /\ e.cmd = h.cmd /\ e.txrdy = h.txrdy /\ e.rxrdy = h.rxrdy
        /\ e.brkdet = h.brkdet /\ e.rxhold = h.rxhold /\ e.txhold = h.txhold
        /\ e.txshift = h.txshift /\ e.irq = h.irq \cup {"RXRDY"}
    BY <2>1, <2>2, RaisedFacts
  <2> QED
    BY <2>1, <2>3
<1> QED
  BY <1>1 DEF RegsOK, Has, Puts

LEMMA WriteFacts ==
  ASSUME NEW c \in Uart, RegsOK(c), NEW n \in Nat, NEW e,
         e = Lowered([c EXCEPT !.txhold = -n, !.txrdy = FALSE, !.txemt = FALSE],
                     {"TXRDY"})
  PROVE  /\ e \in Uart /\ RegsOK(e) /\ e.txhold = -n /\ e.rxhold = c.rxhold
         /\ Has(e) <=> Has(c)
         /\ Puts(e) <=> "tx" \in c.cmd /\ "loop" \notin c.cmd
<1> DEFINE m == -n
<1>1. m \in Int /\ m <= 0
  OBVIOUS
<1> HIDE DEF m
<1>2. e = Lowered([c EXCEPT !.txhold = m, !.txrdy = FALSE, !.txemt = FALSE], {"TXRDY"})
  BY Zenon DEF m
<1>3. /\ e \in Uart /\ e.cmd = c.cmd /\ e.txrdy = FALSE /\ e.rxrdy = c.rxrdy
      /\ e.txhold = m /\ e.txshift = c.txshift /\ e.brkdet = c.brkdet
      /\ e.rxhold = c.rxhold
      /\ "RXRDY" \in e.irq <=> "RXRDY" \in c.irq
  <2> DEFINE h == [c EXCEPT !.txhold = m, !.txrdy = FALSE, !.txemt = FALSE]
  <2>1. /\ h \in Uart /\ h.cmd = c.cmd /\ h.txrdy = FALSE /\ h.rxrdy = c.rxrdy
        /\ h.txhold = m /\ h.txshift = c.txshift /\ h.brkdet = c.brkdet
        /\ h.rxhold = c.rxhold /\ h.irq = c.irq
    BY <1>1 DEF Uart
  <2>2. e = Lowered(h, {"TXRDY"})
    BY <1>2, Zenon
  <2> HIDE DEF h
  <2>3. /\ e \in Uart /\ e.cmd = h.cmd /\ e.txrdy = h.txrdy /\ e.rxrdy = h.rxrdy
        /\ e.brkdet = h.brkdet /\ e.rxhold = h.rxhold /\ e.txhold = h.txhold
        /\ e.txshift = h.txshift /\ e.irq = h.irq \ {"TXRDY"}
    BY <2>1, <2>2, LoweredFacts
  <2> QED
    BY <2>1, <2>3
<1>4. RegsOK(e) /\ (Has(e) <=> Has(c))
  BY <1>1, <1>3 DEF RegsOK, Has
<1>5. Puts(e) <=> "tx" \in c.cmd /\ "loop" \notin c.cmd
  BY <1>3, Zenon DEF Puts
<1> QED
  BY <1>3, <1>4, <1>5, Zenon DEF m

(* The step of a callout and the end of a write.                            *)
LEMMA ShiftSteps ==
  ASSUME ConTypeOK, RegsInv, TxCallback \/ AfterWrite
  PROVE  /\ u' \in Uart /\ RegsOK(u')
         /\ Has(u') <=> Has(u)
         /\ Has(u) => u'.rxhold = u.rxhold
         /\ \/ put' = Append(put, u.txhold) /\ Puts(u) /\ ~ Puts(u')
            \/ put' = put /\ (Puts(u') <=> Puts(u)) /\ u'.txhold = u.txhold
<1>1. u \in Uart /\ RegsOK(u)
  BY DEF ConTypeOK, RegsInv
<1>2. ASSUME NEW n \in Nat, Shift([u EXCEPT !.callbacks = n])
      PROVE  /\ u' \in Uart /\ RegsOK(u') /\ (Has(u') <=> Has(u))
             /\ Has(u) => u'.rxhold = u.rxhold
             /\ \/ put' = Append(put, u.txhold) /\ Puts(u) /\ ~ Puts(u')
                \/ put' = put /\ (Puts(u') <=> Puts(u)) /\ u'.txhold = u.txhold
  <2> DEFINE c == [u EXCEPT !.callbacks = n]
  <2>1. /\ c \in Uart /\ RegsOK(c) /\ c.rxhold = u.rxhold /\ c.txhold = u.txhold
        /\ (Has(c) <=> Has(u)) /\ (Puts(c) <=> Puts(u))
    BY <1>1, CallbackFacts, Zenon
  <2>2. u' = ShiftDone(c) /\ put' = IF Puts(c) THEN Append(put, c.txhold) ELSE put
    BY <1>2, Zenon DEF Shift
  <2> HIDE DEF c
  <2>3. /\ u' \in Uart /\ RegsOK(u') /\ u'.txhold = c.txhold /\ ~ Puts(u')
        /\ (Has(u') <=> Has(c)) /\ (Has(c) => u'.rxhold = c.rxhold)
    BY <2>1, <2>2, ShiftFacts, Zenon
  <2> QED
    BY <2>1, <2>2, <2>3, Zenon
<1>3. CASE TxCallback
  <2>1. u.callbacks - 1 \in Nat /\ Shift([u EXCEPT !.callbacks = u.callbacks - 1])
    BY <1>1, <1>3 DEF TxCallback, Uart
  <2> QED
    BY <1>2, <2>1, Zenon
<1>4. CASE AfterWrite /\ {"brk", "loop"} \subseteq u.cmd
  <2>1. u.callbacks + 1 \in Nat
    BY <1>1 DEF Uart
  <2>2. u' = [u EXCEPT !.callbacks = u.callbacks + 1] /\ put' = put
    BY <1>4, Zenon DEF AfterWrite
  <2> QED
    BY <1>1, <2>1, <2>2, CallbackFacts, Zenon
<1>5. CASE AfterWrite /\ ~ ({"brk", "loop"} \subseteq u.cmd) /\ ~ u.txrdy /\ ~ u.full
  <2>1. Shift(u)
    BY <1>5, Zenon DEF AfterWrite
  <2>2. u = [u EXCEPT !.callbacks = u.callbacks] /\ u.callbacks \in Nat
    BY <1>1 DEF Uart
  <2>3. Shift([u EXCEPT !.callbacks = u.callbacks])
    BY <2>1, <2>2, Zenon
  <2> QED
    BY <1>2, <2>2, <2>3, Zenon
<1>6. CASE AfterWrite /\ UNCHANGED <<u, put>>
  BY <1>1, <1>6
<1> QED
  BY <1>3, <1>4, <1>5, <1>6, Zenon DEF AfterWrite

-----------------------------------------------------------------------------
(* The registers have their types and stay in step with the mode.           *)

LEMMA ByteIs ==
  ASSUME TypeOK, InOrder, Len(got) > 0
  PROVE  Byte = Len(got) /\ Len(got) \in Nat \ {0}
<1>1. Len(got) \in Nat \ {0}
  BY DEF TypeOK
<1>2. Len(got) \in 1..Len(got)
  BY <1>1
<1> QED
  BY <1>1, <1>2, TakenNumbers, Zenon DEF Byte

LEMMA ConTypeInit == ConInit => ConTypeOK /\ RegsInv
<1> SUFFICES ASSUME ConInit
             PROVE  ConTypeOK /\ RegsInv
  OBVIOUS
<1>1. u \in Uart /\ RegsOK(u)
  BY DEF ConInit, Uart, Bits, RegsOK
<1>2. << >> \in Seq(Int)
  BY EmptySeq
<1> QED
  BY <1>1, <1>2 DEF ConInit, ConTypeOK, RegsInv

LEMMA ConTypeKept ==
  ASSUME TypeOK, ConTypeOK, InOrder, RegsInv, LineInv,
         [ConNext]_<<vars, convars>>
  PROVE  ConTypeOK' /\ RegsInv'
<1>1. u \in Uart /\ RegsOK(u)
  BY DEF ConTypeOK, RegsInv
<1>2. u.rxhold \in Int /\ u.txhold \in Int
  BY <1>1 DEF Uart
<1>3. /\ \A s \in Seq(Int), b \in Int : Append(s, b) \in Seq(Int)
  BY AppendProperties
<1>4. ASSUME LineInject \/ (\E g \in Getters \ {con} : DiagCall(g) \/ DiagGet(g))
      PROVE  ConTypeOK' /\ RegsInv'
  <2>1. UNCHANGED convars
    BY <1>4, Zenon DEF LineInject, DiagCall, DiagGet
  <2> QED
    BY <2>1 DEF convars, uvars, ConTypeOK, RegsInv
<1>5. CASE ConGet \/ ConWait \/ ConSlept
  <2>1. /\ UNCHANGED <<line, uvars>>
        /\ rxpc' \in {"get", "check", "wait", "sleep"}
    BY <1>5 DEF ConGet, ConWait, ConSlept, convars, ConTypeOK
  <2> QED
    BY <2>1 DEF uvars, ConTypeOK, RegsInv
<1>6. CASE line = "console" /\ ConHold
  <2>1. Byte \in Int
    <3>1. Len(got) > 0
      BY <1>6, Zenon DEF ConHold, LineInv, LineOK, HasBack
    <3> QED
      BY <3>1, ByteIs
  <2>2. /\ "rx" \in u.cmd /\ ~ u.rxrdy
        /\ u' = Raised([u EXCEPT !.rxhold = Byte, !.rxrdy = TRUE], "RXRDY")
    BY <1>6, Zenon DEF ConHold, Room
  <2>3. u' \in Uart /\ RegsOK(u')
    BY <1>1, <2>1, <2>2, HoldFacts, Zenon
  <2>4. /\ UNCHANGED <<line, after, ntx, ncmd, put, sent, seen, dropped>>
        /\ rxpc' = "sleep"
    BY <1>6, Zenon DEF ConHold
  <2> QED
    BY <2>3, <2>4 DEF ConTypeOK, RegsInv
<1>7. CASE TxCallback \/ AfterWrite
  <2>1. u' \in Uart /\ RegsOK(u')
    BY <1>7, ShiftSteps, Zenon
  <2>2. put' \in Seq(Int)
    <3>1. put' = put \/ put' = Append(put, u.txhold)
      BY <1>7, ShiftSteps, Zenon
    <3> QED
      BY <1>2, <1>3, <3>1 DEF ConTypeOK
  <2>3. /\ UNCHANGED <<line, rxpc, ntx, ncmd, sent, seen, dropped>>
        /\ after' \in BOOLEAN
    BY <1>7 DEF TxCallback, AfterWrite, ConTypeOK
  <2> QED
    BY <2>1, <2>2, <2>3 DEF ConTypeOK, RegsInv
<1>8. CASE ReadData
  <2>1. u' \in Uart /\ RegsOK(u')
    BY <1>1, <1>8, ReadFacts, Zenon DEF ReadData
  <2>2. seen' \in Seq(Int)
    BY <1>2, <1>3, <1>8 DEF ReadData, ConTypeOK
  <2>3. UNCHANGED <<line, rxpc, after, ntx, ncmd, put, sent, dropped>>
    BY <1>8, Zenon DEF ReadData
  <2> QED
    BY <2>1, <2>2, <2>3 DEF ConTypeOK, RegsInv
<1>9. CASE WriteData
  <2> DEFINE n == ntx + 1
  <2>1. n \in Nat /\ -n \in Int
    BY DEF ConTypeOK
  <2>2. /\ u' = Lowered([u EXCEPT !.txhold = -n, !.txrdy = FALSE, !.txemt = FALSE],
                        {"TXRDY"})
        /\ sent' = IF "loop" \in u.cmd THEN sent ELSE Append(sent, -n)
        /\ ntx' = n
    BY <1>9, Zenon DEF WriteData
  <2> HIDE DEF n
  <2>3. u' \in Uart /\ RegsOK(u')
    BY <1>1, <2>1, <2>2, WriteFacts, Zenon
  <2>4. sent' \in Seq(Int)
    BY <1>3, <2>1, <2>2 DEF ConTypeOK
  <2>5. /\ UNCHANGED <<line, ncmd, put, seen, dropped>>
        /\ after' = TRUE
        /\ rxpc' \in {"get", "check", "wait", "sleep"}
    BY <1>9 DEF WriteData, Broadcast, ConTypeOK
  <2> QED
    BY <2>1, <2>2, <2>3, <2>4, <2>5 DEF ConTypeOK, RegsInv
<1>10. CASE WriteCmd
  <2>1. PICK d \in Cmds : Careful(u, d) /\ u' = Commanded(u, d)
    BY <1>10, Zenon DEF WriteCmd
  <2>2. u' \in Uart /\ RegsOK(u')
    BY <1>1, <2>1, CommandedFacts, Zenon
  <2>3. dropped' \in SUBSET Int
    BY <1>2, <1>10 DEF WriteCmd, ConTypeOK
  <2>4. /\ UNCHANGED <<line, ntx, put, sent, seen>>
        /\ after' = TRUE /\ ncmd' = ncmd + 1
        /\ rxpc' \in {"get", "check", "wait", "sleep"}
    BY <1>10 DEF WriteCmd, Broadcast, ConTypeOK
  <2> QED
    BY <2>2, <2>3, <2>4 DEF ConTypeOK, RegsInv
<1>11. CASE UNCHANGED <<vars, convars>>
  BY <1>11 DEF convars, uvars, ConTypeOK, RegsInv
<1> QED
  BY <1>4, <1>5, <1>6, <1>7, <1>8, <1>9, <1>10, <1>11, Zenon
  DEF ConNext, Thread, Cpu

-----------------------------------------------------------------------------
(* What is sent.                                                            *)

SentIs(c, p, s) == IF Puts(c) THEN p \o << c.txhold >> = s ELSE p = s

LEMMA OutMeans ==
  ASSUME NEW c, NEW p \in Seq(Int), NEW s
  PROVE  p \o (IF Puts(c) THEN << c.txhold >> ELSE << >>) = s <=> SentIs(c, p, s)
<1>1. p \o << >> = p
  BY ConcatEmptySeq
<1> QED
  BY <1>1 DEF SentIs

LEMMA OutKept ==
  ASSUME ConTypeOK, RegsInv, ConsoleOut, put' \in Seq(Int),
         [ConNext]_<<vars, convars>>
  PROVE  ConsoleOut'
<1>1. u \in Uart /\ RegsOK(u) /\ put \in Seq(Int) /\ sent \in Seq(Int)
  BY DEF ConTypeOK, RegsInv
<1>2. u.txhold \in Int
  BY <1>1 DEF Uart
<1>3. SentIs(u, put, sent)
  <2>1. put \o (IF Puts(u) THEN << u.txhold >> ELSE << >>) = sent
    BY DEF ConsoleOut, Puts
  <2> QED
    BY <1>1, <2>1, OutMeans, Zenon
<1>4. SUFFICES SentIs(u', put', sent')
  <2>1. ASSUME SentIs(u', put', sent')
        PROVE  put' \o (IF Puts(u') THEN << u'.txhold >> ELSE << >>) = sent'
    BY <2>1, OutMeans, Zenon
  <2>2. ConsoleOut' <=> put' \o (IF Puts(u') THEN << u'.txhold >> ELSE << >>) = sent'
    BY DEF ConsoleOut, Puts
  <2> QED
    BY <2>1, <2>2, Zenon
<1>5. ASSUME put' = put, sent' = sent, Puts(u') <=> Puts(u), u'.txhold = u.txhold
      PROVE  SentIs(u', put', sent')
  BY <1>3, <1>5, Zenon DEF SentIs
<1>6. CASE UNCHANGED <<put, sent, u>>
  BY <1>3, <1>6, Zenon
<1>7. CASE TxCallback \/ AfterWrite
  <2>1. sent' = sent
    BY <1>7, Zenon DEF TxCallback, AfterWrite
  <2>2. CASE put' = Append(put, u.txhold) /\ Puts(u) /\ ~ Puts(u')
    <3>1. put \o << u.txhold >> = sent
      BY <1>3, <2>2, Zenon DEF SentIs
    <3>2. Append(put, u.txhold) = put \o << u.txhold >>
      BY <1>1, <1>2, AppendIsConcat
    <3>3. put' = sent'
      BY <2>1, <2>2, <3>1, <3>2, Zenon
    <3> QED
      BY <2>2, <3>3, Zenon DEF SentIs
  <2>3. CASE put' = put /\ (Puts(u') <=> Puts(u)) /\ u'.txhold = u.txhold
    BY <1>5, <2>1, <2>3, Zenon
  <2> QED
    BY <1>7, <2>2, <2>3, ShiftSteps, Zenon
<1>8. CASE ReadData
  <2>1. u' = Lowered([u EXCEPT !.rxrdy = FALSE], {"RXRDY"})
        /\ put' = put /\ sent' = sent
    BY <1>8, Zenon DEF ReadData
  <2>2. (Puts(u') <=> Puts(u)) /\ u'.txhold = u.txhold
    BY <1>1, <2>1, ReadFacts, Zenon
  <2> QED
    BY <1>5, <2>1, <2>2, Zenon
<1>9. CASE WriteData
  <2> DEFINE n == ntx + 1
             m == -n
  <2>1. n \in Nat /\ m \in Int
    BY DEF ConTypeOK
  <2>2. /\ u' = Lowered([u EXCEPT !.txhold = -n, !.txrdy = FALSE, !.txemt = FALSE],
                        {"TXRDY"})
        /\ sent' = IF "loop" \in u.cmd THEN sent ELSE Append(sent, m)
        /\ put' = put /\ u.txrdy /\ "tx" \in u.cmd
    BY <1>9, Zenon DEF WriteData
  <2> HIDE DEF n
  <2>3. (Puts(u') <=> "tx" \in u.cmd /\ "loop" \notin u.cmd) /\ u'.txhold = m
    BY <1>1, <2>1, <2>2, WriteFacts, Zenon
  <2> HIDE DEF m
  <2>4. put = sent
    <3>1. ~ Puts(u)
      BY <2>2, Zenon DEF Puts
    <3> QED
      BY <1>3, <3>1, Zenon DEF SentIs
  <2>5. Append(sent, m) = sent \o << m >>
    BY <1>1, <2>1, AppendIsConcat
  <2>6. CASE "loop" \in u.cmd
    <3>1. ~ Puts(u') /\ put' = sent'
      BY <2>2, <2>3, <2>4, <2>6, Zenon
    <3> QED
      BY <3>1, Zenon DEF SentIs
  <2>7. CASE "loop" \notin u.cmd
    <3>1. sent' = Append(sent, m) /\ Puts(u')
      BY <2>2, <2>3, <2>7, Zenon
    <3>2. put' \o << u'.txhold >> = sent'
      BY <2>2, <2>3, <2>4, <2>5, <3>1, Zenon
    <3> QED
      BY <3>1, <3>2, Zenon DEF SentIs
  <2> QED
    BY <2>6, <2>7, Zenon
<1>10. CASE WriteCmd
  <2>1. PICK d \in Cmds : Careful(u, d) /\ u' = Commanded(u, d)
    BY <1>10, Zenon DEF WriteCmd
  <2>2. put' = put /\ sent' = sent
    BY <1>10, Zenon DEF WriteCmd
  <2>3. (Puts(u') <=> Puts(u)) /\ u'.txhold = u.txhold
    BY <1>1, <2>1, CommandedFacts, Zenon
  <2> QED
    BY <1>5, <2>2, <2>3, Zenon
<1>11. CASE ConHold
  <2>1. put' = put /\ sent' = sent
    BY <1>11, Zenon DEF ConHold
  <2>2. u' = Raised([u EXCEPT !.rxhold = Byte, !.rxrdy = TRUE], "RXRDY")
    BY <1>11, Zenon DEF ConHold
  <2>3. u'.cmd = u.cmd /\ u'.txrdy = u.txrdy /\ u'.txhold = u.txhold
    BY <1>1, <2>2 DEF Raised, Uart
  <2>4. Puts(u') <=> Puts(u)
    BY <2>3, Zenon DEF Puts
  <2> QED
    BY <1>5, <2>1, <2>3, <2>4, Zenon
<1>12. CASE ConGet \/ ConWait \/ ConSlept \/ LineInject
            \/ (\E g \in Getters \ {con} : DiagCall(g) \/ DiagGet(g))
            \/ UNCHANGED <<vars, convars>>
  <2>1. UNCHANGED <<put, sent, u>>
    BY <1>12, Zenon DEF ConGet, ConWait, ConSlept, LineInject, DiagCall, DiagGet,
                        convars, uvars
  <2> QED
    BY <1>6, <2>1, Zenon
<1> QED
  BY <1>7, <1>8, <1>9, <1>10, <1>11, <1>12, Zenon DEF ConNext, Thread, Cpu
-----------------------------------------------------------------------------
(* What is read.                                                            *)

(* LineOK, of any sequence s that was read, holding register (has it a byte *)
(* of the line, and which), byte held back, number of bytes taken and set d *)
(* of those dropped.                                                        *)
Found(s, has, hold, back, n, b) ==
  \/ \E i \in 1..Len(s) : s[i] = b
  \/ has /\ hold = b
  \/ back /\ n = b

InLine(s, has, hold, back, n, d) ==
  /\ back => n > 0
  /\ \A i, j \in 1..Len(s) : i < j /\ s[i] > 0 /\ s[j] > 0 => s[i] < s[j]
  /\ \A i \in 1..Len(s) : s[i] <= n /\ (has => s[i] < hold) /\ (back => s[i] < n)
  /\ has => hold <= n /\ (back => hold < n)
  /\ \A b \in d : b <= n
  /\ \A b \in 1..n : Found(s, has, hold, back, n, b) <=> b \notin d

LEMMA LineIs ==
  LineOK <=> /\ gpc[con] # "idle" => rxpc = "get"
             /\ InLine(seen, Has(u), u.rxhold, HasBack, Len(got), dropped)
BY Zenon DEF LineOK, InLine, Found, Where

LEMMA LineIsNext ==
  LineOK' <=> /\ gpc'[con] # "idle" => rxpc' = "get"
              /\ InLine(seen', Has(u'), u'.rxhold, HasBack', Len(got'), dropped')
BY Zenon DEF LineOK, InLine, Found, Where

(* The thread takes a byte and holds it back ...                            *)
LEMMA LineTakes ==
  ASSUME NEW s \in Seq(Int), NEW has \in BOOLEAN, NEW hold \in Int, NEW n \in Nat,
         NEW d \in SUBSET Int, InLine(s, has, hold, FALSE, n, d)
  PROVE  InLine(s, has, hold, TRUE, n + 1, d)
<1>1. \A i \in 1..Len(s) : s[i] \in Int
  OBVIOUS
<1>2. ASSUME NEW b \in 1..(n + 1)
      PROVE  Found(s, has, hold, TRUE, n + 1, b) <=> b \notin d
  <2>1. CASE b = n + 1
    <3>1. b \notin d
      BY <2>1 DEF InLine
    <3> QED
      BY <2>1, <3>1, Zenon DEF Found
  <2>2. CASE b \in 1..n
    <3>1. Found(s, has, hold, FALSE, n, b) <=> b \notin d
      BY <2>2, Zenon DEF InLine
    <3>2. n + 1 # b
      BY <2>2
    <3> QED
      BY <3>1, <3>2 DEF Found
  <2>3. b = n + 1 \/ b \in 1..n
    OBVIOUS
  <2> QED
    BY <2>1, <2>2, <2>3, Zenon
<1>3. \A i, j \in 1..Len(s) : i < j /\ s[i] > 0 /\ s[j] > 0 => s[i] < s[j]
  BY Zenon DEF InLine
<1>4. /\ n + 1 > 0
      /\ \A i \in 1..Len(s) : s[i] <= n + 1 /\ (has => s[i] < hold) /\ s[i] < n + 1
      /\ has => hold <= n + 1 /\ hold < n + 1
      /\ \A b \in d : b <= n + 1
  BY <1>1 DEF InLine
<1> QED
  BY <1>2, <1>3, <1>4, Zenon DEF InLine

(* ... puts it in the holding register ...                                  *)
LEMMA LineHolds ==
  ASSUME NEW s \in Seq(Int), NEW hold \in Int, NEW n \in Nat \ {0},
         NEW d \in SUBSET Int, InLine(s, FALSE, hold, TRUE, n, d)
  PROVE  InLine(s, TRUE, n, FALSE, n, d)
BY DEF InLine, Found

(* ... from where the guest reads it ...                                    *)
LEMMA LineReads ==
  ASSUME NEW s \in Seq(Int), NEW has \in BOOLEAN, NEW hold \in Int,
         NEW back \in BOOLEAN, NEW n \in Nat,
         NEW d \in SUBSET Int, InLine(s, has, hold, back, n, d),
         has <=> hold > 0, NEW e \in Int
  PROVE  InLine(Append(s, hold), FALSE, e, back, n, d)
<1> DEFINE t == Append(s, hold)
           k == Len(s)
<1>1. /\ Len(t) = k + 1 /\ k \in Nat /\ t[k + 1] = hold
      /\ \A i \in 1..k : t[i] = s[i] /\ s[i] \in Int
  BY AppendProperties
<1> HIDE DEF t, k
<1>2. /\ back => n > 0
      /\ \A i, j \in 1..k : i < j /\ s[i] > 0 /\ s[j] > 0 => s[i] < s[j]
      /\ \A i \in 1..k : s[i] <= n /\ (has => s[i] < hold) /\ (back => s[i] < n)
      /\ has => hold <= n /\ (back => hold < n)
      /\ \A b \in d : b <= n
      /\ \A b \in 1..n : Found(s, has, hold, back, n, b) <=> b \notin d
  BY Zenon DEF InLine, k
<1>3. ASSUME NEW i \in 1..(k + 1), NEW j \in 1..(k + 1), i < j, t[i] > 0, t[j] > 0
      PROVE  t[i] < t[j]
  <2>1. i \in 1..k
    BY <1>1, <1>3
  <2>2. CASE j = k + 1
    BY <1>1, <1>2, <1>3, <2>1, <2>2
  <2>3. CASE j \in 1..k
    BY <1>1, <1>2, <1>3, <2>1, <2>3
  <2> QED
    BY <1>1, <2>2, <2>3
<1>4. ASSUME NEW i \in 1..(k + 1)
      PROVE  t[i] <= n /\ (back => t[i] < n)
  <2>1. CASE i = k + 1
    BY <1>1, <1>2, <2>1
  <2>2. CASE i \in 1..k
    BY <1>1, <1>2, <2>2
  <2> QED
    BY <1>1, <2>1, <2>2
<1>5. ASSUME NEW b \in 1..n
      PROVE  Found(t, FALSE, e, back, n, b) <=> Found(s, has, hold, back, n, b)
  <2>1. (\E i \in 1..(k + 1) : t[i] = b) <=> (\E i \in 1..k : s[i] = b) \/ hold = b
    <3>1. 1..(k + 1) = 1..k \cup {k + 1}
      BY <1>1
    <3> QED
      BY <1>1, <3>1, Zenon
  <2>2. hold = b <=> has /\ hold = b
    OBVIOUS
  <2> QED
    BY <1>1, <2>1, <2>2, Zenon DEF Found, k
<1>6. InLine(t, FALSE, e, back, n, d)
  BY <1>1, <1>2, <1>3, <1>4, <1>5 DEF InLine
<1> QED
  BY <1>6, Zenon DEF t

(* ... or drops it.                                                         *)
LEMMA LineDrops ==
  ASSUME NEW s \in Seq(Int), NEW has \in BOOLEAN, NEW hold \in Int,
         NEW back \in BOOLEAN, NEW n \in Nat,
         NEW d \in SUBSET Int, InLine(s, has, hold, back, n, d),
         has <=> hold > 0, NEW e \in Int
  PROVE  InLine(s, FALSE, e, back, n, d \cup {hold})
<1>1. \A i \in 1..Len(s) : s[i] \in Int
  OBVIOUS
<1>2. ASSUME NEW b \in 1..n
      PROVE  Found(s, FALSE, e, back, n, b) <=> b \notin d \cup {hold}
  BY <1>1, <1>2 DEF InLine, Found
<1>3. /\ back => n > 0
      /\ \A i, j \in 1..Len(s) : i < j /\ s[i] > 0 /\ s[j] > 0 => s[i] < s[j]
      /\ \A i \in 1..Len(s) : s[i] <= n /\ (FALSE => s[i] < e) /\ (back => s[i] < n)
  BY Zenon DEF InLine
<1>4. \A b \in d \cup {hold} : b <= n
  BY DEF InLine
<1> QED
  BY <1>2, <1>3, <1>4, Zenon DEF InLine
(* What a register says when it has no byte of the line is not read.        *)
LEMMA LineSame ==
  ASSUME NEW s \in Seq(Int), NEW has \in BOOLEAN, NEW hold \in Int,
         NEW back \in BOOLEAN, NEW n \in Nat,
         NEW d \in SUBSET Int, InLine(s, has, hold, back, n, d),
         NEW e, has => e = hold
  PROVE  InLine(s, has, e, back, n, d)
BY Zenon DEF InLine, Found

LEMMA LineStays ==
  ASSUME TypeOK, ConTypeOK, LineOK,
         gpc'[con] # "idle" => rxpc' = "get",
         seen' = seen, Len(got') = Len(got), dropped' = dropped,
         Has(u') <=> Has(u), Has(u) => u'.rxhold = u.rxhold, HasBack' <=> HasBack
  PROVE  LineOK'
<1>1. InLine(seen, Has(u), u.rxhold, HasBack, Len(got), dropped)
  BY LineIs, Zenon
<1>2. /\ seen \in Seq(Int) /\ u.rxhold \in Int /\ dropped \in SUBSET Int
      /\ Len(got) \in Nat
  BY DEF TypeOK, ConTypeOK, Uart
<1>3. Has(u) \in BOOLEAN /\ HasBack \in BOOLEAN /\ Has(u') \in BOOLEAN
      /\ HasBack' \in BOOLEAN
  BY DEF Has, HasBack, ConTypeOK, Uart
<1>4. InLine(seen, Has(u), u'.rxhold, HasBack, Len(got), dropped)
  BY <1>1, <1>2, <1>3, LineSame
<1>5. Has(u') = Has(u) /\ HasBack' = HasBack
  BY <1>3
<1>6. InLine(seen', Has(u'), u'.rxhold, HasBack', Len(got'), dropped')
  BY <1>4, <1>5, Zenon
<1> QED
  BY <1>6, LineIsNext, Zenon
LEMMA LineKept ==
  ASSUME TypeOK, ConTypeOK, InOrder, RegsInv, LineInv,
         [ConNext]_<<vars, convars>>
  PROVE  LineInv'
<1> SUFFICES ASSUME line' = "console"
             PROVE  LineOK'
  BY Zenon DEF LineInv
<1>1. line' = line
  BY Zenon DEF ConNext, LineInject, Thread, Cpu, ConGet, ConWait, ConHold, ConSlept,
               TxCallback, ReadData, WriteData, WriteCmd, AfterWrite, DiagCall,
               DiagGet, convars
<1>2. line = "console" /\ LineOK
  BY <1>1, Zenon DEF LineInv
<1>3. /\ u \in Uart /\ RegsOK(u) /\ u.rxhold \in Int /\ u.rxrdy \in BOOLEAN
      /\ u.brkdet \in BOOLEAN
      /\ seen \in Seq(Int) /\ dropped \in SUBSET Int /\ Len(got) \in Nat
      /\ rxpc \in {"get", "check", "wait", "sleep"}
  BY DEF TypeOK, ConTypeOK, RegsInv, Uart
<1>4. Has(u) \in BOOLEAN /\ HasBack \in BOOLEAN
  BY DEF Has, HasBack
<1>5. /\ gpc[con] # "idle" => rxpc = "get"
      /\ InLine(seen, Has(u), u.rxhold, HasBack, Len(got), dropped)
      /\ HasBack => Len(got) > 0
  BY <1>2, LineIs, Zenon DEF LineOK
<1>6. ASSUME UNCHANGED <<gpc, got, seen, dropped>>,
             Has(u') <=> Has(u), Has(u) => u'.rxhold = u.rxhold, Broadcast
      PROVE  LineOK'
  <2>1. /\ HasBack' <=> HasBack
        /\ rxpc = "get" => rxpc' = "get"
    BY <1>6 DEF Broadcast, HasBack
  <2>2. gpc'[con] # "idle" => rxpc' = "get"
    BY <1>5, <1>6, <2>1, Zenon
  <2> QED
    BY <1>2, <1>6, <2>1, <2>2, LineStays, Zenon
<1>7. ASSUME UNCHANGED <<gpc, got, seen, dropped, rxpc>>,
             Has(u') <=> Has(u), Has(u) => u'.rxhold = u.rxhold
      PROVE  LineOK'
  <2>1. HasBack' <=> HasBack
    BY <1>7, Zenon DEF HasBack
  <2>2. gpc'[con] # "idle" => rxpc' = "get"
    BY <1>5, <1>7, Zenon
  <2> QED
    BY <1>2, <1>7, <2>1, <2>2, LineStays, Zenon
<1>8. CASE UNCHANGED <<vars, convars>>
  BY <1>7, <1>8, Zenon DEF vars, convars, uvars
<1>9. CASE LineInject
  <2>1. UNCHANGED <<got, seen, dropped, rxpc, u>> /\ Signal
    BY <1>9, Zenon DEF LineInject, Inject, convars, uvars
  <2>2. gpc'[con] # "idle" => gpc[con] # "idle"
    <3>1. CASE UNCHANGED gpc
      BY <3>1, Zenon
    <3>2. ASSUME NEW g \in Getters, gpc[g] = "wait", gpc' = [gpc EXCEPT ![g] = "check"]
          PROVE  gpc'[con] # "idle" => gpc[con] # "idle"
      <4>1. con \in Getters
        BY ConsoleAssumption, InputAssumption
      <4> QED
        BY <3>2, <4>1 DEF TypeOK
    <3> QED
      BY <2>1, <3>1, <3>2, Zenon DEF Signal
  <2>3. (gpc'[con] # "idle" => rxpc' = "get") /\ (HasBack' <=> HasBack)
    BY <1>5, <2>1, <2>2, Zenon DEF HasBack
  <2> QED
    BY <1>2, <2>1, <2>3, LineStays, Zenon
<1>10. CASE GetCall(con) /\ rxpc = "get" /\ UNCHANGED convars
  <2>1. UNCHANGED <<got, seen, dropped, rxpc, u>>
    BY <1>10, Zenon DEF GetCall, convars, uvars
  <2>2. (gpc'[con] # "idle" => rxpc' = "get") /\ (HasBack' <=> HasBack)
    BY <1>10, <2>1, Zenon DEF HasBack
  <2> QED
    BY <1>2, <2>1, <2>2, LineStays, Zenon
<1>11. CASE GetWait(con) /\ UNCHANGED convars
  <2>1. UNCHANGED <<got, seen, dropped, rxpc, u>> /\ gpc[con] = "check"
    BY <1>11, Zenon DEF GetWait, convars, uvars
  <2>2. rxpc = "get"
    BY <1>5, <2>1
  <2>3. (gpc'[con] # "idle" => rxpc' = "get") /\ (HasBack' <=> HasBack)
    BY <2>1, <2>2, Zenon DEF HasBack
  <2> QED
    BY <1>2, <2>1, <2>3, LineStays, Zenon
<1>12. CASE GetTake(con) /\ rxpc' = "check" /\ UNCHANGED <<line, uvars>>
  <2>1. UNCHANGED <<seen, dropped, u>> /\ gpc[con] = "check"
        /\ gpc' = [gpc EXCEPT ![con] = "idle"]
    BY <1>12, Zenon DEF GetTake, uvars
  <2>2. con \in Getters /\ Want[con] = 1
    BY ConsoleAssumption, InputAssumption
  <2>3. rxpc = "get" /\ gpc'[con] = "idle"
    BY <1>5, <2>1, <2>2 DEF TypeOK
  <2>4. Len(got') = Len(got) + 1
    <3>1. PICK cp \in Seq(Nat) \ {<< >>}, rest \in Seq(Seq(Nat) \ {<< >>}),
               len \in Nat \ {0} :
            /\ len <= Len(cp) /\ len <= Want[con]
            /\ got' = got \o [i \in 1..len |-> <<con, cp[i]>>]
      BY <1>12, <2>2, TakeFacts, Zenon
    <3>2. len = 1 /\ 1 \in 1..Len(cp)
      BY <2>2, <3>1
    <3>3. cp[1] \in Nat
      BY <3>2
    <3> DEFINE new == [i \in 1..1 |-> <<con, cp[i]>>]
    <3>4. new \in Seq(Getters \X Nat) /\ Len(new) = 1
      BY <2>2, <3>3
    <3>5. got' = got \o new
      BY <3>1, <3>2, Zenon
    <3> HIDE DEF new
    <3>6. got \in Seq(Getters \X Nat)
      BY DEF TypeOK
    <3> DEFINE S == Getters \X Nat
    <3> HIDE DEF S
    <3>7. got \in Seq(S) /\ new \in Seq(S)
      BY <3>4, <3>6, Zenon DEF S
    <3>8. Len(got \o new) = Len(got) + Len(new)
      BY <3>7, ConcatProperties
    <3> QED
      BY <3>4, <3>5, <3>8
  <2>5. ~ HasBack /\ HasBack'
    BY <1>12, <2>3 DEF HasBack
  <2>6. HasBack = FALSE /\ HasBack' = TRUE
    BY <2>5, <1>12 DEF HasBack
  <2>7. InLine(seen, Has(u), u.rxhold, FALSE, Len(got), dropped)
    BY <1>5, <2>6, Zenon
  <2>8. InLine(seen, Has(u), u.rxhold, TRUE, Len(got) + 1, dropped)
    BY <1>3, <1>4, <2>7, LineTakes, Zenon
  <2>9. InLine(seen', Has(u'), u'.rxhold, HasBack', Len(got'), dropped')
    BY <2>1, <2>4, <2>6, <2>8, Zenon
  <2> QED
    BY <2>3, <2>9, LineIsNext, Zenon
<1>13. CASE ConWait
  <2>1. UNCHANGED <<vars, seen, dropped, u>> /\ rxpc = "check" /\ rxpc' = "wait"
    BY <1>13, Zenon DEF ConWait, uvars
  <2>2. /\ HasBack' <=> HasBack
        /\ UNCHANGED <<gpc, got>>
        /\ gpc[con] = "idle"
    BY <1>5, <2>1 DEF HasBack, vars
  <2> QED
    BY <1>2, <2>1, <2>2, LineStays, Zenon
<1>14. CASE ConSlept
  <2>1. UNCHANGED <<vars, seen, dropped, u>> /\ rxpc = "sleep" /\ rxpc' = "get"
    BY <1>14, Zenon DEF ConSlept, uvars
  <2>2. /\ HasBack' <=> HasBack
        /\ UNCHANGED <<gpc, got>>
    BY <2>1 DEF HasBack, vars
  <2> QED
    BY <1>2, <2>1, <2>2, LineStays, Zenon
<1>15. CASE ConHold
  <2>1. /\ UNCHANGED <<vars, seen, dropped>> /\ rxpc = "check" /\ rxpc' = "sleep"
        /\ "rx" \in u.cmd /\ ~ u.rxrdy
        /\ u' = Raised([u EXCEPT !.rxhold = Byte, !.rxrdy = TRUE], "RXRDY")
    BY <1>15, Zenon DEF ConHold, Room
  <2>2. HasBack = TRUE /\ HasBack' = FALSE /\ gpc'[con] = "idle" /\ got' = got
    BY <1>5, <2>1 DEF HasBack, vars
  <2>3. Byte = Len(got) /\ Len(got) \in Nat \ {0} /\ Len(got) \in Int
    BY <1>5, <2>2, ByteIs
  <2>4. ~ Has(u) /\ Has(u') /\ u'.rxhold = Len(got)
    <3>1. Byte \in Int /\ Byte > 0
      BY <2>3
    <3>2. u \in Uart /\ RegsOK(u)
      BY <1>3
    <3>3. u'.rxhold = Byte
      BY <2>1, <3>1, <3>2 DEF Raised, Uart
    <3>4. ~ Has(u)
      BY <2>1, Zenon DEF Has
    <3>5. Has(u') <=> Byte > 0
      BY <2>1, <3>1, <3>2, HoldFacts, Zenon
    <3> QED
      BY <2>3, <3>1, <3>3, <3>4, <3>5, Zenon
  <2>5. Has(u) = FALSE /\ Has(u') = TRUE
    BY <1>4, <2>4 DEF Has
  <2>6. InLine(seen, FALSE, u.rxhold, TRUE, Len(got), dropped)
    BY <1>5, <2>2, <2>5, Zenon
  <2>7. InLine(seen, TRUE, Len(got), FALSE, Len(got), dropped)
    BY <1>3, <2>3, <2>6, LineHolds, Zenon
  <2>8. InLine(seen', Has(u'), u'.rxhold, HasBack', Len(got'), dropped')
    BY <2>1, <2>2, <2>4, <2>5, <2>7, Zenon
  <2> QED
    BY <2>2, <2>8, LineIsNext, Zenon
<1>16. CASE TxCallback \/ AfterWrite
  <2>1. UNCHANGED <<vars, seen, dropped, rxpc>>
    BY <1>16, Zenon DEF TxCallback, AfterWrite
  <2>2. (Has(u') <=> Has(u)) /\ (Has(u) => u'.rxhold = u.rxhold)
    BY <1>16, ShiftSteps, Zenon
  <2> QED
    BY <1>7, <2>1, <2>2, Zenon DEF vars
<1>17. CASE ReadData
  <2>1. /\ UNCHANGED <<vars, dropped, rxpc>> /\ u.rxrdy
        /\ seen' = IF u.brkdet THEN seen ELSE Append(seen, u.rxhold)
        /\ u' = Lowered([u EXCEPT !.rxrdy = FALSE], {"RXRDY"})
    BY <1>17, Zenon DEF ReadData
  <2>2. u' \in Uart /\ ~ Has(u')
    BY <1>3, <2>1, ReadFacts, Zenon
  <2>3. CASE u.brkdet
    <3>1. ~ Has(u) /\ seen' = seen
      BY <2>1, <2>3, Zenon DEF Has
    <3> QED
      BY <1>7, <2>1, <2>2, <3>1, Zenon DEF vars
  <2>4. CASE ~ u.brkdet
    <3>1. (Has(u) <=> u.rxhold > 0) /\ seen' = Append(seen, u.rxhold)
      BY <2>1, <2>4, Zenon DEF Has
    <3>2. u'.rxhold \in Int
      BY <2>2 DEF Uart
    <3>3. InLine(Append(seen, u.rxhold), FALSE, u'.rxhold, HasBack, Len(got), dropped)
      BY <1>3, <1>4, <1>5, <3>1, <3>2, LineReads, Zenon
    <3>4. Has(u') = FALSE
      BY <2>2 DEF Has
    <3>5. HasBack' = HasBack /\ got' = got /\ gpc' = gpc
      BY <2>1, Zenon DEF HasBack, vars
    <3>6. InLine(seen', Has(u'), u'.rxhold, HasBack', Len(got'), dropped')
      BY <2>1, <3>1, <3>3, <3>4, <3>5, Zenon
    <3> QED
      BY <1>5, <2>1, <3>5, <3>6, LineIsNext, Zenon
  <2> QED
    BY <2>3, <2>4, Zenon
<1>18. CASE WriteData
  <2> DEFINE n == ntx + 1
  <2>1. n \in Nat
    BY DEF ConTypeOK
  <2>2. /\ u' = Lowered([u EXCEPT !.txhold = -n, !.txrdy = FALSE, !.txemt = FALSE],
                        {"TXRDY"})
        /\ UNCHANGED <<vars, seen, dropped>> /\ Broadcast
    BY <1>18, Zenon DEF WriteData
  <2> HIDE DEF n
  <2>3. u \in Uart /\ RegsOK(u)
    BY <1>3
  <2>4. u'.rxhold = u.rxhold /\ u'.rxrdy = u.rxrdy /\ u'.brkdet = u.brkdet
    <3> DEFINE m == -n
               h == [u EXCEPT !.txhold = m, !.txrdy = FALSE, !.txemt = FALSE]
    <3>1. m \in Int
      BY <2>1
    <3>2. u' = Lowered(h, {"TXRDY"})
      BY <2>2, Zenon
    <3> HIDE DEF m
    <3>3. h \in Uart /\ h.rxhold = u.rxhold /\ h.rxrdy = u.rxrdy /\ h.brkdet = u.brkdet
      BY <2>3, <3>1 DEF Uart
    <3> HIDE DEF h
    <3> QED
      BY <3>2, <3>3, LoweredFacts
  <2>5. Has(u') <=> Has(u)
    BY <2>4, Zenon DEF Has
  <2> QED
    BY <1>6, <2>2, <2>4, <2>5, Zenon DEF vars
<1>19. CASE WriteCmd
  <2>1. PICK d \in Cmds : Careful(u, d) /\ u' = Commanded(u, d)
    BY <1>19, Zenon DEF WriteCmd
  <2>2. /\ UNCHANGED <<vars, seen>> /\ Broadcast
        /\ dropped' = IF u.rxrdy /\ ~ u'.rxrdy THEN dropped \cup {u.rxhold} ELSE dropped
    BY <1>19, Zenon DEF WriteCmd
  <2>3. /\ u' \in Uart /\ u'.rxhold = u.rxhold
        /\ Has(u') => Has(u)
        /\ Has(u) /\ u'.rxrdy => Has(u')
        /\ u.brkdet => ~ u.rxrdy
    BY <1>3, <2>1, CommandedFacts, Zenon
  <2>4. CASE u.rxrdy /\ ~ u'.rxrdy
    <3>1. /\ Has(u) <=> u.rxhold > 0
          /\ ~ Has(u')
          /\ dropped' = dropped \cup {u.rxhold}
      BY <2>2, <2>3, <2>4, Zenon DEF Has
    <3>2. u'.rxhold \in Int
      BY <2>3 DEF Uart
    <3>3. InLine(seen, FALSE, u'.rxhold, HasBack, Len(got), dropped \cup {u.rxhold})
      BY <1>3, <1>4, <1>5, <3>1, <3>2, LineDrops, Zenon
    <3>4. Has(u') = FALSE
      BY <3>1 DEF Has
    <3>5. HasBack' = HasBack /\ got' = got /\ gpc' = gpc
          /\ (rxpc = "get" => rxpc' = "get")
      BY <2>2 DEF Broadcast, HasBack, vars
    <3>6. InLine(seen', Has(u'), u'.rxhold, HasBack', Len(got'), dropped')
      BY <2>2, <3>1, <3>3, <3>4, <3>5, Zenon
    <3> QED
      BY <1>5, <3>5, <3>6, LineIsNext, Zenon
  <2>5. CASE ~ (u.rxrdy /\ ~ u'.rxrdy)
    <3>1. (Has(u') <=> Has(u)) /\ dropped' = dropped
      BY <2>2, <2>3, <2>5, Zenon DEF Has
    <3> QED
      BY <1>6, <2>2, <2>3, <3>1, Zenon DEF vars
  <2> QED
    BY <2>4, <2>5, Zenon
<1>20. ASSUME NEW g \in Getters \ {con}, DiagCall(g) \/ DiagGet(g)
       PROVE  FALSE
  BY <1>2, <1>20 DEF DiagCall, DiagGet
<1> QED
  BY <1>8, <1>9, <1>10, <1>11, <1>12, <1>13, <1>14, <1>15, <1>16, <1>17, <1>18,
     <1>19, <1>20, Zenon
  DEF ConNext, Thread, Cpu, ConGet
(* A byte more, or none, at the end of a sequence.                          *)
Rising(s) == \A i, j \in 1..Len(s) : i < j /\ s[i] > 0 /\ s[j] > 0 => s[i] < s[j]

Within(s, b) == \E i \in 1..Len(s) : s[i] = b

More(s, f, x) == s \o (IF f THEN << x >> ELSE << >>)

LEMMA Extended ==
  ASSUME NEW s \in Seq(Int), Rising(s), NEW f \in BOOLEAN, NEW x \in Int,
         \A b \in Int : f /\ x > 0 /\ b > 0 /\ Within(s, b) => b < x
  PROVE  /\ More(s, f, x) \in Seq(Int) /\ Rising(More(s, f, x))
         /\ \A b \in Int : Within(More(s, f, x), b) <=> Within(s, b) \/ (f /\ x = b)
<1> DEFINE t == More(s, f, x)
<1>1. CASE ~ f
  <2>1. t = s
    BY <1>1, ConcatEmptySeq DEF More
  <2> HIDE DEF t
  <2>2. t \in Seq(Int) /\ Rising(t) /\ \A b \in Int : Within(t, b) <=> Within(s, b)
    BY <2>1, Zenon
  <2>3. \A b \in Int : Within(t, b) <=> Within(s, b) \/ (f /\ x = b)
    BY <1>1, <2>2, Zenon
  <2> QED
    BY <2>2, <2>3, Zenon DEF t
<1>2. CASE f
  <2> DEFINE k == Len(s)
  <2>1. t = Append(s, x)
    BY <1>2, AppendIsConcat DEF More
  <2>2. /\ t \in Seq(Int) /\ Len(t) = k + 1 /\ k \in Nat /\ t[k + 1] = x
        /\ \A i \in 1..k : t[i] = s[i] /\ s[i] \in Int
    BY <2>1, AppendProperties
  <2>3. /\ \A i \in 1..k : x > 0 /\ s[i] > 0 => s[i] < x
        /\ \A i, j \in 1..k : i < j /\ s[i] > 0 /\ s[j] > 0 => s[i] < s[j]
    BY <1>2, <2>2, Zenon DEF Within, Rising
  <2> HIDE DEF k, t
  <2>4. ASSUME NEW i \in 1..(k + 1), NEW j \in 1..(k + 1), i < j, t[i] > 0, t[j] > 0
        PROVE  t[i] < t[j]
    <3>1. i \in 1..k
      BY <2>2, <2>4
    <3>2. CASE j = k + 1
      BY <2>2, <2>3, <2>4, <3>1, <3>2
    <3>3. CASE j \in 1..k
      BY <2>2, <2>3, <2>4, <3>1, <3>3
    <3> QED
      BY <2>2, <3>2, <3>3
  <2>5. ASSUME NEW b \in Int
        PROVE  Within(t, b) <=> Within(s, b) \/ (f /\ x = b)
    <3>1. 1..(k + 1) = 1..k \cup {k + 1}
      BY <2>2
    <3>2. (\E i \in 1..(k + 1) : t[i] = b) <=> (\E i \in 1..k : s[i] = b) \/ x = b
      BY <2>2, <3>1, Zenon
    <3>3. Within(t, b) <=> \E i \in 1..(k + 1) : t[i] = b
      BY <2>2, Zenon DEF Within
    <3>4. Within(s, b) <=> \E i \in 1..k : s[i] = b
      BY Zenon DEF Within, k
    <3> QED
      BY <1>2, <3>2, <3>3, <3>4, Zenon
  <2>6. Rising(t)
    BY <2>2, <2>4 DEF Rising
  <2> QED
    BY <2>2, <2>5, <2>6, Zenon DEF t
<1> QED
  BY <1>1, <1>2, Zenon

(* So the bytes of the line are in order, all that were not dropped.        *)
LEMMA LineMeans ==
  ASSUME NEW s \in Seq(Int), NEW held \in BOOLEAN, NEW hold \in Int,
         NEW back \in BOOLEAN, NEW n \in Nat, NEW d \in SUBSET Int,
         NEW has \in BOOLEAN, has <=> held /\ hold > 0,
         InLine(s, has, hold, back, n, d)
  PROVE  /\ More(More(s, held, hold), back, n) \in Seq(Int)
         /\ Rising(More(More(s, held, hold), back, n))
         /\ \A b \in Int : b > 0 => (Within(More(More(s, held, hold), back, n), b)
                                      <=> b \in (1..n) \ d)
<1> DEFINE q == More(s, held, hold)
           p == More(q, back, n)
<1>1. Rising(s)
  BY Zenon DEF InLine, Rising
<1>2. ASSUME NEW b \in Int, Within(s, b)
      PROVE  /\ b <= n /\ (back => b < n)
             /\ has => b < hold
  BY <1>2, Zenon DEF InLine, Within
<1>3. \A b \in Int : held /\ hold > 0 /\ b > 0 /\ Within(s, b) => b < hold
  BY <1>2
<1>4. /\ q \in Seq(Int) /\ Rising(q)
      /\ \A b \in Int : Within(q, b) <=> Within(s, b) \/ (held /\ hold = b)
  BY <1>1, <1>3, Extended, Zenon
<1> HIDE DEF q
<1>6. has => hold <= n /\ (back => hold < n)
  BY Zenon DEF InLine
<1>7. \A b \in Int : back /\ n > 0 /\ b > 0 /\ Within(q, b) => b < n
  BY <1>2, <1>4, <1>6
<1>8. /\ p \in Seq(Int) /\ Rising(p)
      /\ \A b \in Int : Within(p, b) <=> Within(q, b) \/ (back /\ n = b)
  <2>1. n \in Int
    OBVIOUS
  <2> QED
    BY <1>4, <1>7, <2>1, Extended, Zenon
<1> HIDE DEF p
<1>9. ASSUME NEW b \in Int, b > 0
      PROVE  Within(p, b) <=> b \in (1..n) \ d
  <2>1. Within(p, b) <=> Within(s, b) \/ (held /\ hold = b) \/ (back /\ n = b)
    BY <1>4, <1>8, Zenon
  <2>2. held /\ hold = b <=> has /\ hold = b
    BY <1>9
  <2>3. Within(p, b) <=> Found(s, has, hold, back, n, b)
    <3>1. Found(s, has, hold, back, n, b)
            <=> Within(s, b) \/ (has /\ hold = b) \/ (back /\ n = b)
      BY Zenon DEF Within, Found
    <3> QED
      BY <2>1, <2>2, <3>1, Zenon
  <2>4. Within(p, b) => b <= n
    BY <1>2, <1>6, <2>1, <2>2
  <2>5. CASE b <= n
    <3>1. b \in 1..n
      BY <1>9, <2>5
    <3> QED
      BY <2>3, <3>1, Zenon DEF InLine
  <2>6. CASE ~ (b <= n)
    <3>1. b \notin 1..n
      BY <2>6
    <3> QED
      BY <2>4, <2>6, <3>1, Zenon
  <2> QED
    BY <2>5, <2>6, Zenon
<1> QED
  BY <1>8, <1>9, Zenon DEF p, q

LEMMA ReadMeans == ConIInv => ConsoleIn
<1> SUFFICES ASSUME ConIInv, line = "console"
             PROVE  ConsoleIn
  BY Zenon DEF ConsoleIn
<1>1. TypeOK /\ ConTypeOK /\ InOrder /\ RegsOK(u) /\ LineOK
  BY Zenon DEF ConIInv, RegsInv, LineInv
<1> DEFINE held == u.rxrdy /\ ~ u.brkdet
           n == Len(got)
<1>2. /\ seen \in Seq(Int) /\ u.rxhold \in Int /\ dropped \in SUBSET Int /\ n \in Nat
      /\ held \in BOOLEAN /\ HasBack \in BOOLEAN /\ Has(u) \in BOOLEAN
  BY <1>1 DEF TypeOK, ConTypeOK, Uart, Has, HasBack
<1>3. Has(u) <=> held /\ u.rxhold > 0
  BY Zenon DEF Has
<1>4. InLine(seen, Has(u), u.rxhold, HasBack, n, dropped) /\ (HasBack => n > 0)
  BY <1>1, LineIs, Zenon DEF LineOK
<1>5. Back = IF HasBack THEN << n >> ELSE << >>
  BY <1>1, <1>4, ByteIs, Zenon DEF Back, HasBack
<1>6. Passed = More(More(seen, held, u.rxhold), HasBack, n)
  BY <1>5, Zenon DEF Passed, Held, More
<1>7. /\ Passed \in Seq(Int) /\ Rising(Passed)
      /\ \A b \in Int : b > 0 => (Within(Passed, b) <=> b \in (1..n) \ dropped)
  <2> HIDE DEF held, n
  <2> DEFINE p == More(More(seen, held, u.rxhold), HasBack, n)
  <2>1. p \in Seq(Int)
    BY <1>2, <1>3, <1>4, LineMeans
  <2>2. Rising(p)
    BY <1>2, <1>3, <1>4, LineMeans
  <2>3. \A b \in Int : b > 0 => (Within(p, b) <=> b \in (1..n) \ dropped)
    BY <1>2, <1>3, <1>4, LineMeans
  <2> QED
    BY <1>6, <2>1, <2>2, <2>3, Zenon
<1>8. /\ DOMAIN Passed = 1..Len(Passed)
      /\ \A i \in 1..Len(Passed) : Passed[i] \in Int
  <2> HIDE DEF Passed
  <2> QED
    BY <1>7
<1>9. \A i, j \in DOMAIN Passed :
        i < j /\ Passed[i] > 0 /\ Passed[j] > 0 => Passed[i] < Passed[j]
  BY <1>7, <1>8, Zenon DEF Rising
<1>10. Range(Numbers(got)) = 1..n
  <2>1. DOMAIN Numbers(got) = 1..n /\ \A i \in 1..n : Numbers(got)[i] = i
    <3>1. DOMAIN got = 1..n
      BY <1>1 DEF TypeOK
    <3> QED
      BY <1>1, <3>1, TakenNumbers, Zenon DEF Numbers
  <2> QED
    BY <2>1, Zenon DEF Range
<1>11. {b \in Range(Passed) : b > 0} = (1..n) \ dropped
  <2>1. \A b : b \in Range(Passed) => b \in Int
    BY <1>8, Zenon DEF Range
  <2>2. \A b \in Int : b \in Range(Passed) <=> Within(Passed, b)
    BY <1>8, Zenon DEF Range, Within
  <2>3. \A b : b \in 1..n => b \in Int /\ b > 0
    BY <1>2
  <2> QED
    BY <1>7, <2>1, <2>2, <2>3, Zenon
<1>12. u.rxrdy => "RXRDY" \in u.irq \/ u.brkdet
  BY <1>1, Zenon DEF RegsOK
<1> QED
  BY <1>9, <1>10, <1>11, <1>12, Zenon DEF ConsoleIn

-----------------------------------------------------------------------------
LEMMA LineInit == ConInit => LineInv /\ ConsoleOut
<1> SUFFICES ASSUME ConInit
             PROVE  LineInv /\ ConsoleOut
  OBVIOUS
<1>1. /\ gpc[con] = "idle" /\ Len(got) = 0 /\ got = << >>
      /\ seen = << >> /\ Len(seen) = 0 /\ dropped = {} /\ rxpc = "get"
      /\ put = << >> /\ sent = << >> /\ ~ Has(u) /\ "tx" \notin u.cmd
  BY ConsoleAssumption, InputAssumption, EmptySeq DEF ConInit, Init, Has
<1>2. ~ HasBack
  BY <1>1 DEF HasBack
<1>3. LineOK
  BY <1>1, <1>2 DEF LineOK
<1>4. << >> \o << >> = << >>
  BY EmptySeq, ConcatEmptySeq
<1>5. ConsoleOut
  BY <1>1, <1>4, Zenon DEF ConsoleOut
<1> QED
  BY <1>3, <1>5, Zenon DEF LineInv

LEMMA ConKept == ConIInv /\ [ConNext]_<<vars, convars>> => ConIInv'
<1> SUFFICES ASSUME ConIInv, [ConNext]_<<vars, convars>>
             PROVE  ConIInv'
  OBVIOUS
<1>1. TypeOK /\ ConTypeOK /\ InOrder /\ RegsInv /\ LineInv /\ ConsoleOut
  BY Zenon DEF ConIInv
<1>2. TypeOK' /\ InOrder'
  BY <1>1, StepOfLine, InputType, InputOrder, Zenon
<1>3. ConTypeOK' /\ RegsInv'
  BY <1>1, ConTypeKept, Zenon
<1>4. LineInv'
  BY <1>1, LineKept, Zenon
<1>5. ConsoleOut'
  <2>1. put' \in Seq(Int)
    BY <1>3 DEF ConTypeOK
  <2> QED
    BY <1>1, <2>1, OutKept, Zenon
<1> QED
  BY <1>2, <1>3, <1>4, <1>5, Zenon DEF ConIInv

(* The inductive invariant: the registers and the line are what they should *)
(* be, whatever the thread, the guest and the callouts do.                  *)
THEOREM ConsoleInductive == ConSpec => []ConIInv
<1>1. ConInit => ConIInv
  <2>1. ConInit => TypeOK /\ InOrder
    BY InputInit, Zenon DEF ConInit
  <2> QED
    BY <2>1, ConTypeInit, LineInit, Zenon DEF ConIInv
<1> QED
  BY <1>1, ConKept, PTL DEF ConSpec, ConSafety

(* What the guest reads is what the line has sent, in order, but for what   *)
(* it dropped by a command.                                                 *)
THEOREM ReadInOrder == ConSpec => []ConsoleIn
BY ConsoleInductive, ReadMeans, PTL

(* What goes to the elastic is what the guest has written, in order.        *)
THEOREM SentInOrder == ConSpec => []ConsoleOut
<1>1. ConIInv => ConsoleOut
  BY Zenon DEF ConIInv
<1> QED
  BY <1>1, ConsoleInductive, PTL
=============================================================================
