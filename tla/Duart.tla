------------------------------- MODULE Duart -------------------------------
(***************************************************************************)
(* The DUART of the IOC (Iop/iop_duart.c): the diag bus channel, whose     *)
(* receive thread moves bytes from the elastic to the holding register     *)
(* while the CPU thread reads and writes registers and runs the callbacks  *)
(* the registers asked for, and the programmable interval timer.           *)
(*                                                                         *)
(* The register handlers and the receive thread hold duart_mtx; the        *)
(* transmit callback changes the status register without it, so that its   *)
(* and the receive thread's read-modify-write can run into each other.     *)
(* The guest may switch receiver, transmitter and loops at any time.       *)
(* Received bytes and transmitted characters are their serial numbers.     *)
(***************************************************************************)
EXTENDS Naturals, SequencesExt

CONSTANTS
  Twice,       \* how many of the bytes the guest reads twice, as the kernel
               \* does
  MaxRx,       \* bound: bytes that come from the diag bus
  MaxTx,       \* bound: characters the guest writes
  MaxReads,    \* bound: callbacks of reads queued when the guest loops a byte
  MaxCount,    \* the timer is loaded with 0..MaxCount; it counts modulo 2^16,
  Width        \* ... for which this stands

ASSUME DuartAssumption ==
  /\ Twice \in Nat /\ MaxRx \in Nat /\ MaxTx \in Nat /\ MaxReads \in Nat
  /\ MaxCount \in Nat \ {0} /\ Width \in Nat /\ Width > MaxCount

VARIABLES
  sr,          \* chp->sr: a set of "rxrdy" (1), "txrdy" (4), "txemt" (8)
  rxhold,      \* 0 stands for a byte the guest has looped back
  rxwaitforit,
  rxon, txon, loop,
  readh,       \* callbacks io_duart_rx_readh_cb that are queued
  txshift,     \* << n >> while txshift_valid, else << >>
  txcb,        \* callbacks ioc_duart_tx_callback that are queued
  irq,         \* the vectors raised: a subset of {"rx", "tx"}
  rpc, rbyte,  \* the receive thread, and the byte it has
  rsr,         \* the status register as it has read it
  cpc, csr,    \* the same for the CPU thread, which is in the callback or not
  hasty,       \* history: transmitter switched on with a callback queued
  looped,      \* history: the guest has looped a byte back
  over,        \* history: the characters written over in the shift register
  first,       \* the guest between its two reads of one byte: << byte >>
  twice,       \* how many it has read twice
  pit,         \* [running, counter, isr]
  nrx, ntx,    \* history: bytes taken from the elastic, characters written
  got,         \* history: what the guest has read, once per byte
  put,         \* history: what was put to the elastic
  left         \* history: ticks until the timer expires, 0 for never

rxvars == <<rxhold, rxwaitforit, rxon, rpc, rbyte, rsr, readh, first, twice,
            looped, nrx, got>>
txvars == <<txon, txshift, txcb, cpc, csr, ntx, put, over, hasty>>
pitvars == <<pit, left>>
vars == <<sr, irq, loop, rxvars, txvars, pitvars>>

Init ==
  /\ sr = {} /\ irq = {} /\ loop = FALSE
  /\ rxhold = 0 /\ rxwaitforit = FALSE /\ rxon = FALSE /\ rpc = "get"
  /\ rbyte = 0 /\ rsr = {} /\ readh = 0 /\ first = << >> /\ twice = 0
  /\ looped = FALSE /\ nrx = 0 /\ got = << >>
  /\ txon = FALSE /\ txshift = << >> /\ txcb = 0 /\ cpc = "guest" /\ csr = {}
  /\ ntx = 0 /\ put = << >> /\ over = {} /\ hasty = FALSE
  /\ pit = [running |-> 0, counter |-> 0, isr |-> FALSE] /\ left = 0

(* The emulator runs: no assertion has failed.                              *)
Alive == cpc # "aborted"

(* duart_mtx is free; the receive thread holds it while it changes sr.      *)
Mutex == Alive /\ rpc # "store"

(* The guest is between two instructions, the mutex free for its register   *)
(* access.                                                                  *)
Guest == cpc = "guest" /\ first = << >> /\ Mutex

-----------------------------------------------------------------------------
(* thr_duart_rx: elastic_get, and the time the byte takes on the wire.      *)
RxGet ==
  /\ Alive /\ rpc = "get" /\ nrx < MaxRx
  /\ nrx' = nrx + 1 /\ rbyte' = nrx + 1 /\ rpc' = "check"
  /\ UNCHANGED <<sr, irq, loop, rxhold, rxwaitforit, rxon, rsr, readh, first,
                 twice, looped, got, txvars, pitvars>>

RxHeldBySr == ~rxon \/ "rxrdy" \in sr                        \* mutant

RxHeld == ~rxon \/ "rxrdy" \in sr \/ rxwaitforit

RxWait ==
  /\ Alive /\ rpc = "check" /\ RxHeld
  /\ rpc' = "wait"
  /\ UNCHANGED <<sr, irq, loop, rxhold, rxwaitforit, rxon, rbyte, rsr, readh,
                 first, twice, looped, nrx, got, txvars, pitvars>>

(* The loop is over: rxhold, and sr |= 1 in two steps.                      *)
RxFetch ==
  /\ Alive /\ rpc = "check" /\ ~RxHeld
  /\ rxhold' = rbyte /\ rsr' = sr /\ rpc' = "store"
  /\ UNCHANGED <<sr, irq, loop, rxwaitforit, rxon, rbyte, readh, first, twice,
                 looped, nrx, got, txvars, pitvars>>

RxStore ==
  /\ Alive /\ rpc = "store"
  /\ sr' = rsr \cup {"rxrdy"}
  /\ rxwaitforit' = TRUE /\ irq' = irq \cup {"rx"}
  /\ rpc' = "get" /\ rbyte' = 0 /\ rsr' = {}
  /\ UNCHANGED <<loop, rxhold, rxon, readh, first, twice, looped, nrx,
                 got, txvars, pitvars>>

(* io_duart_rx_readh_cb, on the CPU thread.  The guest reads a byte again   *)
(* well within the 100 microseconds the callback of the first read takes.   *)
ReadhCb ==
  /\ cpc = "guest" /\ Mutex
  /\ readh > (IF first = << >> THEN 0 ELSE 1)
  /\ readh' = readh - 1
  /\ rxwaitforit' = FALSE
  /\ rpc' = IF rpc = "wait" THEN "check" ELSE rpc
  /\ UNCHANGED <<sr, irq, loop, rxhold, rxon, rbyte, rsr, first, twice,
                 looped, nrx, got, txvars, pitvars>>

(* io_duart_pre_read of RHRB, when the guest has seen RXRDY, and once more. *)
ReadRhr ==
  /\ sr' = sr \ {"rxrdy"} /\ irq' = irq \ {"rx"}
  /\ readh' = readh + 1
  /\ UNCHANGED <<loop, rxhold, rxwaitforit, rxon, rpc, rbyte, rsr, looped,
                 nrx, txvars, pitvars>>

ReadFirst(again) ==
  /\ Guest /\ "rxrdy" \in sr
  /\ again => twice < Twice
  /\ ReadRhr
  /\ first' = IF again THEN << rxhold >> ELSE << >>
  /\ twice' = IF again THEN twice + 1 ELSE twice
  /\ got' = IF rxhold = 0 THEN got ELSE Append(got, rxhold)

ReadSecond ==
  /\ cpc = "guest" /\ Mutex /\ first # << >>
  /\ ReadRhr
  /\ first' = << >>
  /\ UNCHANGED <<twice, got>>

(* REG_W_CRB: receiver on and off.  Nobody waits for it to be switched on.  *)
RxSwitch(on) ==
  /\ Guest /\ rxon # on
  /\ rxon' = on
  /\ UNCHANGED <<sr, irq, loop, rxhold, rxwaitforit, rpc, rbyte, rsr, readh,
                 first, twice, looped, nrx, got, txvars, pitvars>>

-----------------------------------------------------------------------------
(* REG_W_CRB: transmitter on; off, by command 3 or by bit 3.  Neither       *)
(* cancels the callback of a character on its way, nor does the former      *)
(* look for one before it says that the transmitter is ready.               *)
TxEnable ==
  /\ Guest /\ ~txon
  /\ txon' = TRUE /\ hasty' = (hasty \/ txcb > 0)
  /\ sr' = sr \cup {"txrdy", "txemt"} /\ irq' = irq \cup {"tx"}
  /\ UNCHANGED <<loop, rxvars, txshift, txcb, cpc, csr, ntx, put, over,
                 pitvars>>

TxDisable(emt) ==
  /\ Guest
  /\ txon' = FALSE
  /\ sr' = (sr \ {"txrdy"}) \cup emt /\ irq' = irq \ {"tx"}
  /\ UNCHANGED <<loop, rxvars, txshift, txcb, cpc, csr, ntx, put, over, hasty,
                 pitvars>>

WriteThrSilent ==                                            \* mutant
  /\ Guest /\ ~loop /\ "txrdy" \in sr /\ ntx < MaxTx
  /\ ntx' = ntx + 1
  /\ txshift' = << ntx + 1 >> /\ UNCHANGED txcb
  /\ over' = over \cup Range(txshift)
  /\ sr' = sr \ {"txrdy", "txemt"} /\ irq' = irq \ {"tx"}
  /\ UNCHANGED <<loop, rxvars, txon, cpc, csr, put, hasty, pitvars>>

(* REG_W_THRB, when the guest has seen TXRDY.                               *)
WriteThr ==
  /\ Guest /\ ~loop /\ "txrdy" \in sr /\ ntx < MaxTx
  /\ ntx' = ntx + 1
  /\ txshift' = << ntx + 1 >> /\ txcb' = txcb + 1
  /\ over' = over \cup Range(txshift)
  /\ sr' = sr \ {"txrdy", "txemt"} /\ irq' = irq \ {"tx"}
  /\ UNCHANGED <<loop, rxvars, txon, cpc, csr, put, hasty, pitvars>>

(* ... and in a loop test.                                                  *)
WriteLoop ==
  /\ Guest /\ loop /\ readh < MaxReads
  /\ rxhold' = 0 /\ sr' = sr \cup {"rxrdy"} /\ looped' = TRUE
  /\ UNCHANGED <<irq, loop, rxwaitforit, rxon, rpc, rbyte, rsr, readh, first,
                 twice, nrx, got, txvars, pitvars>>

(* The mode register and the output bit that switch the loops.              *)
SetLoop ==
  /\ Guest
  /\ loop' = ~loop
  /\ UNCHANGED <<sr, irq, rxvars, txvars, pitvars>>

(* ioc_duart_tx_callback, on the CPU thread and without the mutex: the      *)
(* assertion that there is a character, and then, for a download, the wait  *)
(* until the elastic has drained and the board no longer runs.              *)
TxBegin ==
  /\ cpc = "guest" /\ txcb > 0
  /\ cpc' = IF txshift = << >> THEN "aborted" ELSE "pace"
  /\ UNCHANGED <<sr, irq, loop, rxvars, txon, txshift, txcb, csr, ntx, put,
                 over, hasty, pitvars>>

(* elastic_put, after which a reset waits again until the elastic drains.   *)
TxPut ==
  /\ cpc = "pace"
  /\ put' = put \o txshift /\ cpc' = "drain"
  /\ UNCHANGED <<sr, irq, loop, rxvars, txon, txshift, txcb, csr, ntx, over,
                 hasty, pitvars>>

(* txshift_valid, and sr |= 4 | 8 in two steps.                             *)
TxFetchKeeps ==                                              \* mutant
  /\ cpc = "drain"
  /\ cpc' = "tx" /\ csr' = sr /\ txshift' = txshift
  /\ UNCHANGED <<sr, irq, loop, rxvars, txon, txcb, ntx, put, over, hasty,
                 pitvars>>

TxFetch ==
  /\ cpc = "drain"
  /\ cpc' = "tx" /\ csr' = sr /\ txshift' = << >>
  /\ UNCHANGED <<sr, irq, loop, rxvars, txon, txcb, ntx, put, over, hasty,
                 pitvars>>

TxStore ==
  /\ cpc = "tx"
  /\ sr' = csr \cup {"txrdy", "txemt"}
  /\ irq' = IF txon THEN irq \cup {"tx"} ELSE irq
  /\ cpc' = "guest" /\ csr' = {} /\ txcb' = txcb - 1
  /\ UNCHANGED <<loop, rxvars, txon, txshift, ntx, put, over, hasty, pitvars>>

-----------------------------------------------------------------------------
(* io_duart_pre_read of the registers that start and stop the timer.        *)
PitStart(n) ==
  /\ Guest
  /\ pit' = [pit EXCEPT !.running = 1, !.counter = n]
  /\ left' = 1 + (IF n = 0 THEN Width ELSE n)
  /\ UNCHANGED <<sr, irq, loop, rxvars, txvars>>

PitStop ==
  /\ Guest
  /\ pit' = [pit EXCEPT !.running = 0, !.isr = FALSE]
  /\ left' = 0
  /\ UNCHANGED <<sr, irq, loop, rxvars, txvars>>

(* ioc_duart_pit_tick, called every 25.6 microseconds by a callback on the  *)
(* CPU thread, or by the SystemC thread: the first tick only lets the       *)
(* counter run, each further one decrements it, and at 0 the timer expires. *)
TickEager(p) ==                                              \* mutant
  IF p.running = 0 THEN p
  ELSE [running |-> 2, counter |-> (p.counter + Width - 1) % Width,
        isr |-> p.isr \/ p.counter = 1]

Tick(p) ==
  IF p.running = 0 THEN p
  ELSE IF p.running = 1 THEN [p EXCEPT !.running = 2]
  ELSE [running |-> 2, counter |-> (p.counter + Width - 1) % Width,
        isr |-> p.isr \/ p.counter = 1]

PitTick ==
  /\ Mutex
  /\ pit' = Tick(pit)
  /\ left' = IF left = 1 THEN Width ELSE IF left = 0 THEN 0 ELSE left - 1
  /\ UNCHANGED <<sr, irq, loop, rxvars, txvars>>

-----------------------------------------------------------------------------
Next ==
  \/ RxGet \/ RxWait \/ RxFetch \/ RxStore
  \/ ReadhCb
  \/ \E again \in BOOLEAN : ReadFirst(again)
  \/ ReadSecond
  \/ \E on \in BOOLEAN : RxSwitch(on)
  \/ TxEnable
  \/ \E emt \in {{}, {"txemt"}} : TxDisable(emt)
  \/ WriteThr \/ WriteLoop \/ SetLoop
  \/ TxBegin \/ TxPut \/ TxFetch \/ TxStore
  \/ \E n \in 0..MaxCount : PitStart(n)
  \/ PitStop \/ PitTick

Safety == Init /\ [][Next]_vars

(* The CPU thread begins the callbacks that are due and goes on when it     *)
(* need not wait; how long it waits is not known.                           *)
Spec ==
  /\ Safety
  /\ WF_vars(TxBegin) /\ WF_vars(TxStore)

-----------------------------------------------------------------------------
FlagsOK == {loop, looped, rxwaitforit, rxon, txon, hasty} \subseteq BOOLEAN

(* The type invariant; a callback is counted until it has returned.         *)
TypeOK ==
  /\ FlagsOK
  /\ {sr, rsr, csr} \subseteq SUBSET {"rxrdy", "txrdy", "txemt"}
  /\ irq \in SUBSET {"rx", "tx"}
  /\ rpc \in {"get", "check", "wait", "store"} 
  /\ cpc \in {"guest", "pace", "drain", "tx", "aborted"}
  /\ {rxhold, rbyte, readh, twice, nrx, txcb, ntx, left} \subseteq Nat
  /\ cpc # "guest" => txcb > 0
  /\ txshift \in {<< >>, << ntx >>}
  /\ {got, put} \subseteq Seq(Nat) /\ over \subseteq Nat
  /\ pit \in [running : 0..2, counter : 0..(Width - 1), isr : BOOLEAN]

(* The guest reads the bytes of the diag bus in order and none twice,       *)
(* whatever it loops back; and, as long as it has looped back none and read *)
(* none a second time, without a gap, although the transmit callback, which *)
(* has not locked, may wipe out the RXRDY bit of a byte: rxwaitforit then   *)
(* still keeps the next one back.                                           *)
RxInOrder ==
  /\ \A i, j \in DOMAIN got : i < j => got[i] < got[j]
  /\ twice = 0 /\ ~looped => got = [i \in DOMAIN got |-> i]

(* Between the two reads the kernel makes of one byte the holding register  *)
(* does not change: "To avoid the race we hold back the thr_duart_rx()      *)
(* thread back a little bit".                                               *)
SecondReadSame == first # << >> => rxhold = first[1]

(* The character in the shift register that has not been put.               *)
OnItsWay == IF cpc = "drain" THEN << >> ELSE txshift

(* What was put to the elastic and what is on its way is what the guest has *)
(* written, in that order and none doubled, but for the characters it wrote *)
(* over; and it has written over none, and every callback finds its         *)
(* character as "assert (chp->txshift_valid == 2)" says, unless it has      *)
(* switched the transmitter on with the callback of a character queued,     *)
(* which says "ready" too early.                                            *)
TxInOrder ==
  LET sent == put \o OnItsWay
  IN  /\ \A i, j \in DOMAIN sent : i < j => sent[i] < sent[j]
      /\ Range(sent) = (1..ntx) \ over
      /\ hasty \/ (over = {} /\ Alive)

(* The waits in the callback end: those for the elastic to drain, which     *)
(* need not end where a subscriber goes or stands still, and for the board. *)
WaitsEnd == []<>(cpc \notin {"pace", "drain"})

(* If they do, every character that is written and not written over is put  *)
(* to the elastic in the end.                                               *)
TxEnds ==
  WaitsEnd => \A n \in 1..MaxTx : (ntx >= n) ~> (n \in over \cup Range(put))

(* The timer expires at the tick after the n-th following its start, and    *)
(* then every 2^16 ticks, however often it was started and stopped before.  *)
PitExact ==
  [][~pit.isr => (pit'.isr <=> PitTick /\ left = 1)]_vars

-----------------------------------------------------------------------------
(* The inductive invariant.  Where each character is in each step of the    *)
(* callback.                                                                *)
TxData ==
  /\ \A i \in 1..Len(put) :
       put[i] \in 1..ntx /\ (OnItsWay # << >> => put[i] < ntx)
  /\ \A i, j \in 1..Len(put) : i < j => put[i] < put[j]
  /\ Range(put) \cup Range(OnItsWay) = (1..ntx) \ over
  /\ over \subseteq 1..ntx
  /\ cpc \in {"pace", "drain"} => txshift # << >>
  /\ cpc \in {"tx", "aborted"} => txshift = << >>

(* A guest that has not been hasty has a callback queued for the character  *)
(* in the shift register and no other, and neither the status register nor  *)
(* a copy of it that may still be stored says ready before it is done.      *)
TxReady ==
  ~hasty => /\ over = {} /\ Alive
            /\ IF txshift = << >> /\ cpc # "tx" THEN txcb = 0 ELSE txcb = 1
            /\ "txrdy" \in sr \cup rsr => txcb = 0

TxInv == TxData /\ TxReady

(* How many bytes have got as far as the holding register.                  *)
Stored == IF rpc = "get" THEN nrx ELSE nrx - 1

(* The receive thread stores only where there is no byte, and neither copy  *)
(* of the status register brings RXRDY back; what RXRDY announces is the    *)
(* last byte stored, which the guest has not read, or one it has looped.    *)
RxInv ==
  /\ rpc # "get" => rbyte = nrx /\ nrx > 0
  /\ rpc # "store" => rsr = {}
  /\ rpc = "store" => rxhold = rbyte /\ ~rxwaitforit /\ "rxrdy" \notin sr \cup rsr
  /\ cpc # "tx" => csr = {}
  /\ "rxrdy" \in csr => "rxrdy" \in sr
  /\ "rxrdy" \in sr =>
       IF rxhold = 0 THEN looped
       ELSE rxhold = Stored /\ \A i \in 1..Len(got) : got[i] < Stored
  /\ \A i \in 1..Len(got) : got[i] <= Stored
  /\ \A i, j \in 1..Len(got) : i < j => got[i] < got[j]

(* As long as no byte is read twice or looped there is one callback for     *)
(* each byte: the hold ends when the byte it protects has been read, and    *)
(* not before.                                                              *)
HoldInv ==
  twice = 0 /\ ~looped =>
    /\ first = << >> /\ \A i \in 1..Len(got) : got[i] = i
    /\ Len(got) = IF rxwaitforit /\ readh = 0 THEN Stored - 1 ELSE Stored
    /\ readh = 0 \/ (readh = 1 /\ rxwaitforit)

(* The ticks that are left are those the state of the timer stands for.     *)
PitInv ==
  LET count == IF pit.counter = 0 THEN Width ELSE pit.counter
  IN  left = IF pit.running = 0 THEN 0
             ELSE IF pit.running = 1 THEN 1 + count ELSE count

IInv == TxInv /\ RxInv /\ HoldInv /\ PitInv
=============================================================================
