---------------------------- MODULE DuartProofs ----------------------------
(***************************************************************************)
(* Proofs about Duart, for any number of bytes, characters and second      *)
(* reads, and for a timer of any width.                                    *)
(***************************************************************************)
EXTENDS Duart, SequenceTheorems, TLAPS

(* Appending to, and putting a character after, a list of numbers.          *)
LEMMA AppendFacts ==
  ASSUME NEW s \in Seq(Nat), NEW n \in Nat
  PROVE  /\ Append(s, n) \in Seq(Nat) /\ s \o << n >> \in Seq(Nat)
         /\ Len(s) \in Nat
         /\ Len(Append(s, n)) = Len(s) + 1 /\ Len(s \o << n >>) = Len(s) + 1
         /\ \A i \in 1..(Len(s) + 1) :
              /\ Append(s, n)[i] = IF i = Len(s) + 1 THEN n ELSE s[i]
              /\ (s \o << n >>)[i] = IF i = Len(s) + 1 THEN n ELSE s[i]
<1>1. << n >> \in Seq(Nat) /\ Len(<< n >>) = 1 /\ << n >>[1] = n
  OBVIOUS
<1>2. s \o << n >> = Append(s, n)
  BY <1>1, AppendIsConcat
<1> QED
  BY <1>2, AppendProperties, LenProperties

(* The numbers in the shift register, and in a list a character is put after.*)
LEMMA NoneFacts == Range(<< >>) = {}
BY DEF Range

LEMMA OneFacts ==
  ASSUME NEW n \in Nat
  PROVE  Range(<< >>) = {} /\ Range(<< n >>) = {n}
BY DEF Range

LEMMA RangePut ==
  ASSUME NEW s \in Seq(Nat), NEW n \in Nat
  PROVE  Range(s \o << n >>) = Range(s) \cup {n}
<1>1. /\ DOMAIN s = 1..Len(s) /\ DOMAIN (s \o << n >>) = 1..(Len(s) + 1)
      /\ Len(s) \in Nat
  BY AppendFacts, LenProperties
<1>2. \A i \in 1..(Len(s) + 1) :
        (s \o << n >>)[i] = IF i = Len(s) + 1 THEN n ELSE s[i]
  BY AppendFacts
<1>3. \A i \in 1..Len(s) : i \in 1..(Len(s) + 1) /\ i # Len(s) + 1
  BY <1>1
<1>4. \A i \in 1..(Len(s) + 1) : i # Len(s) + 1 => i \in 1..Len(s)
  BY <1>1
<1>5. Len(s) + 1 \in 1..(Len(s) + 1)
  BY <1>1
<1> QED
  BY <1>1, <1>2, <1>3, <1>4, <1>5, Zenon DEF Range

(* The character in the shift register.                                     *)
LEMMA ShiftFacts ==
  ASSUME txshift \in {<< >>, << ntx >>}, ntx \in Nat
  PROVE  Range(txshift) = IF txshift = << >> THEN {} ELSE {ntx}
<1>1. CASE txshift = << >>
  BY <1>1, OneFacts
<1>2. CASE txshift = << ntx >>
  BY <1>2, OneFacts
<1> QED
  BY <1>1, <1>2

(* The two ways the 16-bit counter goes on.                                 *)
LEMMA CountDown ==
  ASSUME NEW c \in 0..(Width - 1)
  PROVE  (c + Width - 1) % Width = IF c = 0 THEN Width - 1 ELSE c - 1
BY DuartAssumption

(* The timer stays one, and what is ticked is what the code ticks.          *)
LEMMA TimerFacts ==
  ASSUME TypeOK
  PROVE  /\ pit = [running |-> pit.running, counter |-> pit.counter,
                   isr |-> pit.isr]
         /\ pit.running \in 0..2 /\ pit.counter \in 0..(Width - 1)
         /\ pit.isr \in BOOLEAN
         /\ Tick(pit).running = IF pit.running = 0 THEN 0 ELSE 2
         /\ Tick(pit).counter =
              IF pit.running = 2
                THEN IF pit.counter = 0 THEN Width - 1 ELSE pit.counter - 1
                ELSE pit.counter
         /\ Tick(pit).isr <=> pit.isr \/ (pit.running = 2 /\ pit.counter = 1)
         /\ Tick(pit) \in [running : 0..2, counter : 0..(Width - 1), isr : BOOLEAN]
<1>1. /\ pit = [running |-> pit.running, counter |-> pit.counter, isr |-> pit.isr]
      /\ pit.running \in 0..2 /\ pit.counter \in 0..(Width - 1)
      /\ pit.isr \in BOOLEAN
  BY DEF TypeOK
<1> DEFINE next == (pit.counter + Width - 1) % Width
           expires == pit.isr \/ pit.counter = 1
<1>2. next = IF pit.counter = 0 THEN Width - 1 ELSE pit.counter - 1
  BY <1>1, CountDown
<1>3. next \in 0..(Width - 1)
  BY <1>1, <1>2, DuartAssumption
<1>4. expires \in BOOLEAN
  BY <1>1, Zenon
<1>5. CASE pit.running = 0
  BY <1>1, <1>5 DEF Tick, TypeOK
<1>6. CASE pit.running = 1
  BY <1>1, <1>6 DEF Tick
<1>7. CASE pit.running = 2
  <2> HIDE DEF next, expires
  <2>1. Tick(pit) = [running |-> 2, counter |-> next, isr |-> expires]
    BY <1>1, <1>7 DEF Tick, next, expires
  <2>2. Tick(pit).isr = expires
    BY <2>1
  <2>3. Tick(pit).isr <=> pit.isr \/ (pit.running = 2 /\ pit.counter = 1)
    BY <1>7, <2>2, Zenon DEF expires
  <2>4. Tick(pit).running = 2 /\ Tick(pit).counter = next
    BY <2>1
  <2>5. Tick(pit) \in [running : 0..2, counter : 0..(Width - 1), isr : BOOLEAN]
    BY <1>3, <1>4, <2>1
  <2> QED
    BY <1>1, <1>2, <1>7, <2>3, <2>4, <2>5
<1> QED
  BY <1>1, <1>5, <1>6, <1>7

(* The flags stay flags.                                                    *)
LEMMA FlagsKept ==
  ASSUME FlagsOK, [Next]_vars
  PROVE  FlagsOK'
<1> USE DEF FlagsOK
<1>1. CASE Next
  BY <1>1, Zenon DEF Next, RxGet, RxWait, RxFetch, RxStore, ReadhCb, ReadFirst,
       ReadSecond, ReadRhr, RxSwitch, TxEnable, TxDisable, WriteThr, WriteLoop,
       SetLoop, TxBegin, TxPut, TxFetch, TxStore, PitStart, PitStop, PitTick,
       rxvars, txvars
<1>2. CASE UNCHANGED vars
  BY <1>2, Zenon DEF vars, rxvars, txvars
<1> QED
  BY <1>1, <1>2

(* The variables hold what they are declared to hold (TypeOK).              *)
THEOREM TypeCorrect == Safety => []TypeOK
<1>1. Init => TypeOK
  <2> SUFFICES ASSUME Init PROVE TypeOK
    OBVIOUS
  <2>1. FlagsOK
    BY Zenon DEF Init, FlagsOK
  <2>2. pit \in [running : 0..2, counter : 0..(Width - 1), isr : BOOLEAN]
    BY DuartAssumption DEF Init
  <2> QED
    BY <2>1, <2>2 DEF Init, TypeOK
<1>2. TypeOK /\ [Next]_vars => TypeOK'
  <2> SUFFICES ASSUME TypeOK, [Next]_vars
               PROVE  TypeOK'
    OBVIOUS
  <2> USE DEF TypeOK
  <2>1. FlagsOK'
    BY FlagsKept
  <2>2. CASE RxGet
    BY <2>1, <2>2 DEF RxGet, txvars, pitvars
  <2>3. CASE RxWait
    BY <2>1, <2>3 DEF RxWait, txvars, pitvars
  <2>4. CASE RxFetch
    BY <2>1, <2>4 DEF RxFetch, txvars, pitvars
  <2>5. CASE RxStore
    BY <2>1, <2>5 DEF RxStore, txvars, pitvars
  <2>6. CASE ReadhCb
    <3>1. readh' \in Nat /\ rpc' \in {"get", "check", "wait", "store"}
      BY <2>6 DEF ReadhCb
    <3> QED
      BY <2>1, <2>6, <3>1 DEF ReadhCb, txvars, pitvars
  <2>7. ASSUME NEW again \in BOOLEAN, ReadFirst(again)
        PROVE  TypeOK'
    <3>1. got' \in Seq(Nat) /\ twice' \in Nat
      BY <2>7, AppendFacts DEF ReadFirst
    <3> QED
      BY <2>1, <2>7, <3>1 DEF ReadFirst, ReadRhr, txvars, pitvars
  <2>8. CASE ReadSecond
    BY <2>1, <2>8 DEF ReadSecond, ReadRhr, txvars, pitvars
  <2>9. ASSUME NEW on \in BOOLEAN, RxSwitch(on)
        PROVE  TypeOK'
    BY <2>1, <2>9 DEF RxSwitch, txvars, pitvars
  <2>10. CASE TxEnable
    BY <2>1, <2>10 DEF TxEnable, rxvars, pitvars
  <2>11. ASSUME NEW emt \in {{}, {"txemt"}}, TxDisable(emt)
         PROVE  TypeOK'
    BY <2>1, <2>11 DEF TxDisable, rxvars, pitvars
  <2>12. CASE WriteThr
    <3>1. over' \subseteq Nat
      BY <2>12, ShiftFacts DEF WriteThr
    <3> QED
      BY <2>1, <2>12, <3>1 DEF WriteThr, rxvars, pitvars
  <2>13. CASE WriteLoop
    BY <2>1, <2>13 DEF WriteLoop, txvars, pitvars
  <2>14. CASE SetLoop
    <3>1. UNCHANGED <<sr, irq, rxvars, txvars, pitvars>>
      BY <2>14 DEF SetLoop
    <3> QED
      BY <2>1, <3>1 DEF rxvars, txvars, pitvars
  <2>15. CASE TxBegin
    BY <2>1, <2>15 DEF TxBegin, rxvars, pitvars
  <2>16. CASE TxPut
    <3>1. put \in Seq(Nat) /\ ntx \in Nat
      OBVIOUS
    <3>2. put \o << >> \in Seq(Nat) /\ put \o << ntx >> \in Seq(Nat)
      BY <3>1, AppendFacts, ConcatEmptySeq
    <3>3. put' \in Seq(Nat)
      BY <2>16, <3>2 DEF TxPut
    <3> QED
      BY <2>1, <2>16, <3>3 DEF TxPut, rxvars, pitvars
  <2>17. CASE TxFetch
    BY <2>1, <2>17 DEF TxFetch, rxvars, pitvars
  <2>18. CASE TxStore
    <3>1. sr' \in SUBSET {"rxrdy", "txrdy", "txemt"} /\ csr' = {} /\ rsr' = rsr
      BY <2>18 DEF TxStore, rxvars
    <3>2. irq' \in SUBSET {"rx", "tx"}
      BY <2>18 DEF TxStore
    <3>3. txcb' \in Nat
      BY <2>18 DEF TxStore
    <3> QED
      BY <2>1, <2>18, <3>1, <3>2, <3>3 DEF TxStore, rxvars, pitvars
  <2>19. ASSUME NEW n \in 0..MaxCount, PitStart(n)
         PROVE  TypeOK'
    <3>1. pit' \in [running : 0..2, counter : 0..(Width - 1), isr : BOOLEAN]
      <4>1. /\ pit'.running = 1 /\ pit'.counter = n /\ pit'.isr = pit.isr
            /\ pit' = [running |-> 1, counter |-> n, isr |-> pit.isr]
        BY <2>19 DEF PitStart
      <4>2. n \in 0..(Width - 1)
        BY DuartAssumption
      <4> QED
        BY <4>1, <4>2
    <3>2. left' \in Nat
      <4>1. left' = 1 + (IF n = 0 THEN Width ELSE n)
        BY <2>19, Zenon DEF PitStart
      <4> QED
        BY <4>1, DuartAssumption
    <3> QED
      BY <2>1, <2>19, <3>1, <3>2 DEF PitStart, rxvars, txvars
  <2>20. CASE PitStop
    <3>1. pit' \in [running : 0..2, counter : 0..(Width - 1), isr : BOOLEAN]
      <4>1. /\ pit'.running = 0 /\ pit'.counter = pit.counter /\ pit'.isr = FALSE
            /\ pit' = [running |-> 0, counter |-> pit.counter, isr |-> FALSE]
        BY <2>20 DEF PitStop
      <4>2. pit.counter \in 0..(Width - 1) /\ FALSE \in BOOLEAN
        OBVIOUS
      <4> QED
        BY <4>1, <4>2
    <3> QED
      BY <2>1, <2>20, <3>1 DEF PitStop, rxvars, txvars
  <2>21. CASE PitTick
    <3>1. pit' \in [running : 0..2, counter : 0..(Width - 1), isr : BOOLEAN]
      BY <2>21, TimerFacts DEF PitTick
    <3>2. left' \in Nat
      BY <2>21, DuartAssumption DEF PitTick
    <3> QED
      BY <2>1, <2>21, <3>1, <3>2 DEF PitTick, rxvars, txvars
  <2>22. CASE UNCHANGED vars
    BY <2>1, <2>22 DEF vars, rxvars, txvars, pitvars
  <2> QED
    BY <2>2, <2>3, <2>4, <2>5, <2>6, <2>7, <2>8, <2>9, <2>10, <2>11, <2>12,
       <2>13, <2>14, <2>15, <2>16, <2>19, <2>20, <2>21, <2>22,
       <2>17, <2>18 DEF Next
<1> QED
  BY <1>1, <1>2, PTL DEF Safety
-----------------------------------------------------------------------------
(* Transmission: what is put and what is on its way, through the steps of   *)
(* the callback and the writes of the guest, also those that write over a   *)
(* character.                                                               *)
LEMMA TxKept ==
  ASSUME TypeOK, IInv, [Next]_vars
  PROVE  TxInv'
<1>1. /\ TxInv /\ put \in Seq(Nat) /\ ntx \in Nat /\ Len(put) \in Nat
      /\ txshift \in {<< >>, << ntx >>} /\ (cpc # "guest" => txcb > 0)
      /\ << >> # << ntx >> /\ << >> # << ntx + 1 >>
      /\ txcb \in Nat /\ (rpc # "store" => rsr = {}) /\ over \subseteq 1..ntx
      /\ cpc \in {"guest", "pace", "drain", "tx", "aborted"}
  BY LenProperties DEF TypeOK, IInv, RxInv, TxInv, TxData
<1>2. CASE UNCHANGED <<sr, rsr, txvars>>
  BY <1>1, <1>2 DEF TxInv, TxData, TxReady, OnItsWay, Alive, txvars
<1>3. CASE RxFetch
  BY <1>1, <1>3 DEF RxFetch, TxInv, TxData, TxReady, OnItsWay, Alive, txvars
<1>4. CASE RxStore
  BY <1>1, <1>4 DEF RxStore, TxInv, TxData, TxReady, OnItsWay, Alive, txvars
<1>5. CASE (\E again \in BOOLEAN : ReadFirst(again)) \/ ReadSecond
  <2>1. sr' = sr \ {"rxrdy"} /\ rsr' = rsr /\ UNCHANGED txvars
    BY <1>5 DEF ReadFirst, ReadSecond, ReadRhr
  <2>2. TxData'
    BY <1>1, <2>1, Zenon DEF TxInv, TxData, OnItsWay, txvars
  <2>3. TxReady'
    BY <1>1, <2>1 DEF TxInv, TxReady, Alive, txvars
  <2> QED
    BY <2>2, <2>3, Zenon DEF TxInv
<1>6. CASE TxEnable
  <2>1. /\ sr' = sr \cup {"txrdy", "txemt"} /\ rsr' = rsr /\ rsr = {}
        /\ hasty' = (hasty \/ txcb > 0) /\ cpc = "guest"
        /\ UNCHANGED <<txshift, txcb, cpc, ntx, put, over>>
    BY <1>1, <1>6 DEF TxEnable, Guest, Mutex, rxvars
  <2>2. TxData'
    BY <1>1, <2>1, Zenon DEF TxInv, TxData, OnItsWay
  <2>3. TxReady'
    <3> SUFFICES ASSUME ~hasty'
                 PROVE  over = {} /\ cpc # "aborted" /\ txcb = 0 /\ txshift = << >>
      BY <1>1, <2>1 DEF TxReady, Alive
    <3>1. ~hasty /\ ~(txcb > 0)
      BY <2>1, Zenon
    <3> QED
      BY <1>1, <2>1, <3>1 DEF TxInv, TxReady, Alive
  <2> QED
    BY <2>2, <2>3, Zenon DEF TxInv
<1>7. ASSUME NEW emt \in {{}, {"txemt"}}, TxDisable(emt)
      PROVE  TxInv'
  BY <1>1, <1>7 DEF TxDisable, TxInv, TxData, TxReady, OnItsWay, Alive, rxvars
<1>8. CASE WriteThr
  <2>1. /\ cpc = "guest" /\ rsr = {} /\ "txrdy" \in sr /\ OnItsWay = txshift
        /\ ntx' = ntx + 1 /\ txshift' = << ntx + 1 >> /\ txcb' = txcb + 1
        /\ sr' = sr \ {"txrdy", "txemt"} /\ over' = over \cup Range(txshift)
        /\ UNCHANGED <<rsr, put, cpc, hasty>>
    BY <1>1, <1>8 DEF WriteThr, Guest, Mutex, OnItsWay, rxvars
  <2>2. OnItsWay' = << ntx + 1 >>
    BY <2>1 DEF OnItsWay
  <2>3. \A i \in 1..Len(put) : put[i] \in 1..(ntx + 1) /\ put[i] < ntx + 1
    BY <1>1 DEF TxInv, TxData, TxReady
  <2>4. Range(put') \cup Range(OnItsWay') = (1..ntx') \ over'
    <3>1. /\ Range(put) \cup Range(txshift) = (1..ntx) \ over
          /\ Range(<< ntx + 1 >>) = {ntx + 1}
          /\ Range(txshift) \in {{}, {ntx}}
      BY <1>1, <2>1, OneFacts DEF TxInv, TxData, TxReady
    <3>2. Range(put) \cap Range(txshift) = {}
      BY <1>1, <2>1, OneFacts, LenProperties DEF TxInv, TxData, Range
    <3>3. (1..(ntx + 1)) = (1..ntx) \cup {ntx + 1} /\ ntx + 1 \notin 1..ntx
      BY <1>1
    <3>4. ntx + 1 \notin over \cup Range(txshift)
      BY <1>1, <3>1, <3>3
    <3>5. Range(put') = Range(put) /\ Range(OnItsWay') = {ntx + 1}
      BY <2>1, <2>2, <3>1
    <3>6. ntx' = ntx + 1 /\ over' = over \cup Range(txshift)
      BY <2>1
    <3>7. Range(put) = ((1..ntx) \ over) \ Range(txshift)
      BY <3>1, <3>2, Zenon
    <3>8. (1..(ntx + 1)) \ (over \cup Range(txshift))
            = (((1..ntx) \ over) \ Range(txshift)) \cup {ntx + 1}
      BY <3>3, <3>4, Zenon
    <3> QED
      BY <3>5, <3>6, <3>7, <3>8
  <2>5. over' \subseteq 1..ntx'
    <3>1. over \subseteq 1..ntx
      BY <1>1 DEF TxInv, TxData
    <3>2. Range(txshift) \subseteq 1..ntx
      BY <1>1, <2>1, Zenon DEF TxInv, TxData
    <3>3. 1..ntx \subseteq 1..(ntx + 1)
      BY <1>1
    <3>4. over' \subseteq 1..(ntx + 1)
      BY <2>1, <3>1, <3>2, <3>3, Zenon
    <3>5. ntx' = ntx + 1
      BY <2>1
    <3> QED
      BY <3>4, <3>5
  <2>6. ~hasty => txshift = << >> /\ over' = {} /\ txcb' = 1
    <3> SUFFICES ASSUME ~hasty
                 PROVE  txshift = << >> /\ over' = {} /\ txcb' = 1
      OBVIOUS
    <3>1. over = {} /\ txcb = 0 /\ txshift = << >>
      BY <1>1, <2>1 DEF TxInv, TxReady
    <3>2. over' = {} \cup {}
      BY <2>1, <3>1, NoneFacts, Zenon
    <3> QED
      BY <2>1, <3>1, <3>2
  <2> QED
    BY <1>1, <2>1, <2>2, <2>3, <2>4, <2>6, <2>5 DEF TxInv, TxData, TxReady, Alive
<1>9. CASE WriteLoop
  BY <1>1, <1>9 DEF WriteLoop, TxInv, TxData, TxReady, OnItsWay, Alive, txvars
<1>10. CASE TxBegin
  BY <1>1, <1>10 DEF TxBegin, TxInv, TxData, TxReady, OnItsWay, Alive, rxvars
<1>11. CASE TxPut
  <2>1. /\ txshift = << ntx >> /\ put' = put \o << ntx >> /\ cpc' = "drain"
        /\ OnItsWay = << ntx >> /\ OnItsWay' = << >> /\ ntx > 0
        /\ UNCHANGED <<sr, rsr, txshift, ntx, txcb, over, hasty>>
    <3>1. txshift = << ntx >> /\ OnItsWay = << ntx >>
      BY <1>1, <1>11 DEF TxPut, TxInv, TxData, TxReady, OnItsWay
    <3>2. ntx \in 1..ntx
      BY <1>1, <3>1, OneFacts DEF TxInv, TxData, TxReady
    <3> QED
      BY <1>1, <1>11, <3>1, <3>2 DEF TxPut, OnItsWay, rxvars
  <2>2. /\ Len(put') = Len(put) + 1
        /\ \A i \in 1..(Len(put) + 1) :
             put'[i] = IF i = Len(put) + 1 THEN ntx ELSE put[i]
    BY <1>1, <2>1, AppendFacts
  <2>3. Range(put') \cup Range(OnItsWay') = (1..ntx') \ over'
    BY <1>1, <2>1, OneFacts, RangePut DEF TxInv, TxData, TxReady
  <2>4. \A i \in 1..Len(put') : put'[i] \in 1..ntx'
    BY <1>1, <2>1, <2>2 DEF TxInv, TxData, TxReady
  <2>5. \A i, j \in 1..Len(put') : i < j => put'[i] < put'[j]
    BY <1>1, <2>1, <2>2 DEF TxInv, TxData, TxReady
  <2> QED
    BY <1>1, <1>11, <2>1, <2>3, <2>4, <2>5
    DEF TxPut, TxInv, TxData, TxReady, OnItsWay, Alive
<1>12. CASE TxFetch
  BY <1>1, <1>12, OneFacts
  DEF TxFetch, TxInv, TxData, TxReady, OnItsWay, Alive, rxvars
<1>13. CASE TxStore
  BY <1>1, <1>13 DEF TxStore, TxInv, TxData, TxReady, OnItsWay, Alive, rxvars
<1>14. \/ UNCHANGED <<sr, rsr, txvars>> \/ RxFetch \/ RxStore
       \/ (\E again \in BOOLEAN : ReadFirst(again)) \/ ReadSecond
       \/ TxEnable \/ (\E emt \in {{}, {"txemt"}} : TxDisable(emt))
       \/ WriteThr \/ WriteLoop \/ TxBegin \/ TxPut \/ TxFetch \/ TxStore
  BY DEF Next, vars, rxvars, RxGet, RxWait, ReadhCb, RxSwitch, SetLoop,
         PitStart, PitStop, PitTick
<1> QED
  BY <1>2, <1>3, <1>4, <1>5, <1>6, <1>7, <1>8, <1>9, <1>10, <1>11, <1>12,
     <1>13, <1>14

(* The timer: what is left of its time goes down with every tick.           *)
LEMMA PitKept ==
  ASSUME TypeOK, IInv, [Next]_vars
  PROVE  PitInv'
<1>1. /\ PitInv /\ left \in Nat /\ pit.running \in 0..2
      /\ pit.counter \in 0..(Width - 1)
  BY TimerFacts DEF IInv, TypeOK
<1>2. CASE UNCHANGED pitvars
  BY <1>1, <1>2 DEF PitInv, pitvars
<1>3. ASSUME NEW n \in 0..MaxCount, PitStart(n)
      PROVE  PitInv'
  <2>1. pit'.running = 1 /\ pit'.counter = n
    BY <1>3 DEF PitStart, TypeOK
  <2>2. left' = 1 + (IF n = 0 THEN Width ELSE n)
    BY <1>3, Zenon DEF PitStart
  <2> QED
    BY <2>1, <2>2 DEF PitInv
<1>4. CASE PitStop
  <2>1. pit'.running = 0
    BY <1>4 DEF PitStop, TypeOK
  <2>2. left' = 0
    BY <1>4, Zenon DEF PitStop
  <2> QED
    BY <2>1, <2>2 DEF PitInv
<1>5. CASE PitTick
  <2>1. /\ pit' = Tick(pit)
        /\ left' = IF left = 1 THEN Width ELSE IF left = 0 THEN 0 ELSE left - 1
    BY <1>5, Zenon DEF PitTick
  <2>2. /\ pit'.running = IF pit.running = 0 THEN 0 ELSE 2
        /\ pit'.counter = IF pit.running = 2
                            THEN IF pit.counter = 0 THEN Width - 1 ELSE pit.counter - 1
                            ELSE pit.counter
    BY <2>1, TimerFacts
  <2> QED
    BY <1>1, <2>1, <2>2, DuartAssumption DEF PitInv
<1>6. UNCHANGED pitvars \/ (\E n \in 0..MaxCount : PitStart(n)) \/ PitStop \/ PitTick
  BY DEF Next, vars, RxGet, RxWait, RxFetch, RxStore, ReadhCb, ReadFirst,
         ReadSecond, ReadRhr, RxSwitch, TxEnable, TxDisable, WriteThr, WriteLoop,
         SetLoop, TxBegin, TxPut, TxFetch, TxStore
<1> QED
  BY <1>2, <1>3, <1>4, <1>5, <1>6
-----------------------------------------------------------------------------
(* Reception: a step that leaves RXRDY, the receiver's registers, threads   *)
(* and histories alone keeps what is said of them.                          *)
LEMMA RxFrame ==
  ASSUME RxInv, HoldInv, "rxrdy" \in sr' <=> "rxrdy" \in sr,
         UNCHANGED <<csr, rxhold, rxwaitforit, rpc, rbyte, rsr, readh,
                     first, twice, looped, nrx, got>>, cpc = "tx" => cpc' = "tx"
  PROVE  RxInv' /\ HoldInv'
<1>1. Stored' = Stored
  BY DEF Stored
<1>2. RxInv'
  BY <1>1 DEF RxInv
<1>3. HoldInv'
  BY <1>1 DEF HoldInv
<1> QED
  BY <1>2, <1>3

(* The receive thread.                                                      *)
LEMMA RxThreadKept ==
  ASSUME TypeOK, RxInv, HoldInv, RxGet \/ RxWait \/ RxFetch \/ RxStore
  PROVE  RxInv' /\ HoldInv'
<1>1. /\ got \in Seq(Nat) /\ Len(got) \in Nat /\ nrx \in Nat /\ readh \in Nat
      /\ rpc \in {"get", "check", "wait", "store"}
      /\ \A i \in 1..Len(got) : got[i] \in Nat
  BY LenProperties, ElementOfSeq DEF TypeOK
<1>2. CASE RxGet
  <2>1. Stored' = Stored /\ Stored \in Nat
    BY <1>1, <1>2 DEF RxGet, Stored
  <2> QED
    BY <1>1, <1>2, <2>1 DEF RxGet, RxInv, HoldInv, txvars
<1>3. CASE RxWait
  BY <1>1, <1>3 DEF RxWait, RxInv, HoldInv, Stored, txvars
<1>4. CASE RxFetch
  <2>1. Stored' = Stored /\ "rxrdy" \notin sr /\ ~rxwaitforit
    BY <1>1, <1>4 DEF RxFetch, RxHeld, Stored
  <2> QED
    BY <1>1, <1>4, <2>1 DEF RxFetch, RxInv, HoldInv, txvars
<1>5. CASE RxStore
  <2>1. /\ Stored = nrx - 1 /\ Stored' = nrx /\ nrx > 0 /\ rxhold = nrx
        /\ ~rxwaitforit /\ \A i \in 1..Len(got) : got[i] < nrx
    BY <1>1, <1>5 DEF RxStore, RxInv, Stored
  <2> QED
    BY <1>1, <1>5, <2>1 DEF RxStore, RxInv, HoldInv, txvars
<1> QED
  BY <1>2, <1>3, <1>4, <1>5

(* The guest reads the holding register.                                    *)
LEMMA RxReadKept ==
  ASSUME TypeOK, RxInv, HoldInv, NEW again \in BOOLEAN,
         ReadFirst(again) \/ ReadSecond
  PROVE  RxInv' /\ HoldInv'
<1>1. /\ got \in Seq(Nat) /\ Len(got) \in Nat /\ nrx \in Nat /\ readh \in Nat
      /\ rxhold \in Nat /\ twice \in Nat
      /\ rpc \in {"get", "check", "wait", "store"}
      /\ \A i \in 1..Len(got) : got[i] \in Nat
      /\ UNCHANGED <<looped, rxhold, rxwaitforit, rpc, rbyte, rsr, nrx, cpc, csr>>
      /\ sr' = sr \ {"rxrdy"} /\ readh' = readh + 1
      /\ cpc = "guest" /\ rpc # "store" /\ Stored' = Stored
  BY LenProperties, ElementOfSeq
  DEF TypeOK, ReadFirst, ReadSecond, ReadRhr, Guest, Mutex, Stored, txvars
<1>2. CASE ReadSecond
  BY <1>1, <1>2 DEF ReadSecond, RxInv, HoldInv
<1>3. CASE ReadFirst(again) /\ rxhold = 0
  <2>1. UNCHANGED got /\ looped
    BY <1>1, <1>3 DEF ReadFirst, RxInv
  <2> QED
    BY <1>1, <1>3, <2>1 DEF RxInv, HoldInv
<1>4. CASE ReadFirst(again) /\ rxhold # 0
  <2>1. /\ rxhold = Stored /\ Stored > 0 /\ Stored \in Nat
        /\ \A i \in 1..Len(got) : got[i] < Stored
    BY <1>1, <1>4 DEF ReadFirst, RxInv, Stored
  <2>2. /\ got' = Append(got, Stored)
        /\ Len(got') = Len(got) + 1
        /\ \A i \in 1..(Len(got) + 1) :
             got'[i] = IF i = Len(got) + 1 THEN Stored ELSE got[i]
    BY <1>1, <1>4, <2>1, AppendFacts DEF ReadFirst
  <2>3. RxInv'
    BY <1>1, <1>4, <2>1, <2>2 DEF RxInv
  <2>4. HoldInv'
    <3> SUFFICES ASSUME twice' = 0, ~looped'
                 PROVE  HoldInv'
      BY DEF HoldInv
    <3>1. twice = 0 /\ ~looped /\ first' = << >>
      BY <1>1, <1>4 DEF ReadFirst
    <3>2. rxwaitforit /\ readh = 0
      BY <1>1, <1>4, <2>1, <3>1 DEF HoldInv
    <3> QED
      BY <1>1, <1>4, <2>1, <2>2, <3>1, <3>2 DEF HoldInv
  <2> QED
    BY <2>3, <2>4
<1> QED
  BY <1>2, <1>3, <1>4

(* The callback that ends the hold, the loop test and the transmitter's     *)
(* callback.                                                                *)
LEMMA RxOthersKept ==
  ASSUME TypeOK, RxInv, HoldInv,
         ReadhCb \/ WriteLoop \/ SetLoop \/ TxBegin \/ TxPut \/ TxFetch \/ TxStore
  PROVE  RxInv' /\ HoldInv'
<1>1. /\ got \in Seq(Nat) /\ Len(got) \in Nat /\ nrx \in Nat /\ readh \in Nat
      /\ rpc \in {"get", "check", "wait", "store"}
      /\ \A i \in 1..Len(got) : got[i] \in Nat
  BY LenProperties, ElementOfSeq DEF TypeOK
<1>2. CASE ReadhCb
  <2>1. Stored' = Stored
    BY <1>1, <1>2 DEF ReadhCb, Mutex, Stored
  <2> QED
    BY <1>1, <1>2, <2>1 DEF ReadhCb, Mutex, RxInv, HoldInv, txvars
<1>3. CASE WriteLoop
  BY <1>1, <1>3 DEF WriteLoop, Guest, Mutex, RxInv, HoldInv, Stored, txvars
<1>4. CASE SetLoop
  BY <1>1, <1>4 DEF SetLoop, Guest, Mutex, RxInv, HoldInv, Stored, rxvars, txvars
<1>5. CASE TxFetch
  BY <1>1, <1>5 DEF TxFetch, RxInv, HoldInv, Stored, rxvars
<1>6. CASE TxBegin \/ TxPut
  BY <1>1, <1>6 DEF TxBegin, TxPut, RxInv, HoldInv, Stored, rxvars
<1>7. CASE TxStore
  BY <1>1, <1>7 DEF TxStore, RxInv, HoldInv, Stored, rxvars
<1> QED
  BY <1>2, <1>3, <1>4, <1>5, <1>7, <1>6

LEMMA RxKept ==
  ASSUME TypeOK, IInv, [Next]_vars
  PROVE  RxInv' /\ HoldInv'
<1>1. RxInv /\ HoldInv
  BY DEF IInv
<1>2. CASE RxGet \/ RxWait \/ RxFetch \/ RxStore
  BY <1>1, <1>2, RxThreadKept
<1>3. CASE (\E again \in BOOLEAN : ReadFirst(again)) \/ ReadSecond
  <2>1. PICK again \in BOOLEAN : ReadFirst(again) \/ ReadSecond
    BY <1>3, Zenon
  <2> QED
    BY <1>1, <2>1, RxReadKept
<1>4. CASE ReadhCb \/ WriteLoop \/ SetLoop \/ TxBegin \/ TxPut \/ TxFetch \/ TxStore
  BY <1>1, <1>4, RxOthersKept
<1>5. CASE \/ \E on \in BOOLEAN : RxSwitch(on)
           \/ TxEnable \/ \E emt \in {{}, {"txemt"}} : TxDisable(emt)
           \/ WriteThr \/ \E n \in 0..MaxCount : PitStart(n)
           \/ PitStop \/ PitTick
           \/ UNCHANGED vars
  <2>1. "rxrdy" \in sr' <=> "rxrdy" \in sr
    BY <1>5 DEF RxSwitch, TxEnable, TxDisable, WriteThr, PitStart, PitStop,
                PitTick, vars
  <2>2. UNCHANGED <<csr, cpc, rxhold, rxwaitforit, rpc, rbyte, rsr, readh,
                    first, twice, looped, nrx, got>>
    BY <1>5, Zenon DEF RxSwitch, TxEnable, TxDisable, WriteThr, PitStart, PitStop,
                PitTick, vars, rxvars, txvars
  <2> QED
    BY <1>1, <2>1, <2>2, RxFrame
<1> QED
  BY <1>2, <1>3, <1>4, <1>5, Zenon DEF Next
-----------------------------------------------------------------------------
(* The invariant holds in every state: IInv.                                *)
THEOREM Inductive == Safety => []IInv
<1>1. Init => IInv
  <2> SUFFICES ASSUME Init PROVE IInv
    OBVIOUS
  <2>1. RxInv /\ HoldInv
    BY DEF Init, RxInv, HoldInv, Stored
  <2>2. TxInv
    <3>1. /\ ntx = 0 /\ put = << >> /\ over = {} /\ OnItsWay = << >>
          /\ txshift = << >> /\ cpc = "guest" /\ Len(put) = 0
      BY DEF Init, OnItsWay
    <3>2. /\ 1..0 = {} /\ Range(<< >>) = {}
      BY NoneFacts
    <3>3. Range(put) = {} /\ Range(OnItsWay) = {} /\ 1..ntx = {} /\ 1..Len(put) = {}
      BY <3>1, <3>2, Zenon
    <3>4. TxData
      BY <3>1, <3>3, Zenon DEF TxData
    <3>5. TxReady
      BY <3>1 DEF Init, TxReady, Alive
    <3> QED
      BY <3>4, <3>5 DEF TxInv
  <2>3. PitInv
    BY DEF Init, PitInv
  <2> QED
    BY <2>1, <2>3, <2>2 DEF IInv
<1>2. TypeOK /\ IInv /\ [Next]_vars => IInv'
  BY TxKept, RxKept, PitKept DEF IInv
<1> QED
  BY <1>1, <1>2, TypeCorrect, PTL DEF Safety

(* What was put and is on its way is what was written, in order, but for    *)
(* what was written over; and nothing is, and no assertion fails, as long   *)
(* as the guest is not hasty (TxInOrder).                                   *)
THEOREM TxOrder == Safety => []TxInOrder
<1>1. TypeOK /\ IInv => TxInOrder
  <2> SUFFICES ASSUME TypeOK, IInv PROVE TxInOrder
    OBVIOUS
  <2> DEFINE sent == put \o OnItsWay
  <2>1. /\ put \in Seq(Nat) /\ ntx \in Nat /\ Len(put) \in Nat /\ TxInv
        /\ OnItsWay \in {<< >>, << ntx >>} /\ << ntx >> # << >>
    BY LenProperties DEF TypeOK, IInv, OnItsWay
  <2>2. CASE OnItsWay = << >>
    <3>1. sent = put /\ DOMAIN sent = 1..Len(put)
      BY <2>1, <2>2, ConcatEmptySeq, LenProperties
    <3>2. Range(sent) = (1..ntx) \ over
      BY <2>1, <2>2, <3>1, OneFacts DEF TxInv, TxData
    <3>3. \A i, j \in DOMAIN sent : i < j => sent[i] < sent[j]
      BY <2>1, <3>1 DEF TxInv, TxData
    <3> QED
      BY <2>1, <3>2, <3>3 DEF TxInOrder, TxInv, TxReady
  <2>3. CASE OnItsWay = << ntx >>
    <3>1. /\ sent \in Seq(Nat) /\ DOMAIN sent = 1..(Len(put) + 1)
          /\ \A i \in 1..(Len(put) + 1) :
               sent[i] = IF i = Len(put) + 1 THEN ntx ELSE put[i]
      BY <2>1, <2>3, AppendFacts, LenProperties
    <3>2. Range(sent) = (1..ntx) \ over
      BY <2>1, <2>3, OneFacts, RangePut DEF TxInv, TxData
    <3>3. \A i \in 1..Len(put) : put[i] \in Nat /\ put[i] < ntx
      BY <2>1, <2>3 DEF TxInv, TxData
    <3>4. \A i, j \in DOMAIN sent : i < j => sent[i] < sent[j]
      BY <2>1, <3>1, <3>3 DEF TxInv, TxData
    <3> QED
      BY <2>1, <3>2, <3>4 DEF TxInOrder, TxInv, TxReady
  <2> QED
    BY <2>1, <2>2, <2>3
<1> QED
  BY <1>1, TypeCorrect, Inductive, PTL

(* The guest reads the bytes of the diag bus in their order, and all of     *)
(* them as long as it reads none twice and loops none (RxInOrder).          *)
THEOREM RxOrder == Safety => []RxInOrder
<1>1. TypeOK /\ IInv => RxInOrder
  <2> SUFFICES ASSUME TypeOK, IInv PROVE RxInOrder
    OBVIOUS
  <2>1. DOMAIN got = 1..Len(got) /\ got = [i \in 1..Len(got) |-> got[i]]
    BY LenProperties DEF TypeOK
  <2>2. \A i, j \in 1..Len(got) : i < j => got[i] < got[j]
    BY DEF IInv, RxInv
  <2>3. ASSUME twice = 0, ~looped
        PROVE  got = [i \in DOMAIN got |-> i]
    BY <2>1, <2>3 DEF IInv, HoldInv
  <2> QED
    BY <2>1, <2>2, <2>3 DEF RxInOrder
<1> QED
  BY <1>1, TypeCorrect, Inductive, PTL

(* The timer expires at the tick its start says, and at no other (PitExact).*)
THEOREM PitOnTime == Safety => PitExact
<1> DEFINE Exact == ~pit.isr => (pit'.isr <=> PitTick /\ left = 1)
<1>1. TypeOK /\ IInv /\ [Next]_vars => [Exact]_vars
  <2> SUFFICES ASSUME TypeOK, IInv, [Next]_vars, ~pit.isr
               PROVE  pit'.isr <=> PitTick /\ left = 1
    OBVIOUS
  <2>1. CASE PitTick
    <3>1. pit' = Tick(pit)
      BY <2>1, Zenon DEF PitTick
    <3>2. pit'.isr <=> pit.running = 2 /\ pit.counter = 1
      BY <3>1, TimerFacts
    <3>3. pit.running = 2 /\ pit.counter = 1 <=> left = 1
      BY TimerFacts, DuartAssumption DEF IInv, PitInv
    <3> QED
      BY <2>1, <3>2, <3>3
  <2>2. CASE ~PitTick
    <3>1. UNCHANGED pit \/ (\E n \in 0..MaxCount : PitStart(n)) \/ PitStop
      BY <2>2 DEF Next, vars, pitvars, RxGet, RxWait, RxFetch, RxStore, ReadhCb,
         ReadFirst, ReadSecond, ReadRhr, RxSwitch, TxEnable, TxDisable, WriteThr,
         WriteLoop, SetLoop, TxBegin, TxPut, TxFetch, TxStore
    <3>2. ~pit'.isr
      BY <3>1 DEF PitStart, PitStop, TypeOK
    <3> QED
      BY <2>2, <3>2
  <2> QED
    BY <2>1, <2>2
<1> QED
  BY <1>1, TypeCorrect, Inductive, PTL DEF Safety, PitExact
=============================================================================
