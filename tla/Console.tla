------------------------------ MODULE Console ------------------------------
(***************************************************************************)
(* The console UART (Iop/iop_uart.c): its receive thread takes bytes from  *)
(* the elastic buffer of the console, holds each back until the guest has  *)
(* room for it, and paces them; the guest reads and writes its registers;  *)
(* a callout ends each character that is sent.  All but the receive thread *)
(* happens on the IOC CPU thread.                                          *)
(*                                                                         *)
(* The input side of the buffer is that of ElasticInput, which is also     *)
(* about the diag bus, with other getters: a behaviour is about one line.  *)
(***************************************************************************)
EXTENDS ElasticInput

CONSTANTS
  con,         \* thr_console_rx, the getter of the console line
  Cmds,        \* the command register, as sets of bits: "tx", "rx" (the
               \* enables), "brk", "loop", "er" (resets the errors)
  MaxTx,       \* bound: characters the guest writes
  MaxCmds      \* bound: commands it writes

Bits == {"tx", "rx", "brk", "loop"}

\* The thread asks for one byte.  The guest switches the receiver off when it
\* loops back, and breaks only then.
ASSUME ConsoleAssumption ==
  /\ con \in Loops /\ Want[con] = 1
  /\ Cmds \subseteq SUBSET (Bits \cup {"er"})
  /\ \A d \in Cmds : ("brk" \in d => "loop" \in d) /\ ("loop" \in d => "rx" \notin d)
  /\ MaxTx \in Nat /\ MaxCmds \in Nat

VARIABLES
  line,        \* "console", or "diag" for the diag bus
  rxpc,        \* thr_console_rx: "get", "check", "wait" or "sleep"
  u,           \* cons, the interrupts it has raised, and its callbacks
  after,       \* the guest is at the end of io_uart_post_write
  ntx, ncmd,   \* characters and commands written
  put,         \* history: characters put to the elastic
  sent,        \* history: characters written outside of loopback
  seen,        \* history: bytes the guest has read, but for breaks
  dropped      \* history: bytes it has dropped by a command

uvars == <<u, after, ntx, ncmd, put, sent, seen, dropped>>
convars == <<line, rxpc, uvars>>

\* A byte of the line is its number, a character the guest sends -1, -2 ...
Byte == got[Len(got)][2]

-----------------------------------------------------------------------------

Raised(c, irq) == [c EXCEPT !.irq = @ \cup {irq}]
Lowered(c, irqs) == [c EXCEPT !.irq = @ \ irqs]

\* cons_txshift_done: whether it puts the held character to the elastic (the
\* first form does not ask if there is one), and what the transmitter does next
PutsBug(c) == "tx" \in c.cmd /\ "loop" \notin c.cmd

Puts(c) == "tx" \in c.cmd /\ ~ c.txrdy /\ "loop" \notin c.cmd

Looped(c) ==
  IF "loop" \in c.cmd /\ "brk" \notin c.cmd /\ c.full
  THEN Raised([c EXCEPT !.rxhold = c.txshift, !.rxrdy = TRUE], "RXRDY")
  ELSE c

\* that leaves the shift register full when the transmitter is off
ShiftDoneBug(c) ==
  CASE "tx" \notin c.cmd ->
         Lowered([c EXCEPT !.txrdy = FALSE, !.txemt = FALSE], {"TXRDY"})
    [] "tx" \in c.cmd /\ {"loop", "brk"} \subseteq c.cmd ->
         Raised([c EXCEPT !.rxrdy = TRUE, !.brkdet = TRUE], "BREAK")
    [] OTHER ->
         IF c.txrdy THEN [Looped(c) EXCEPT !.full = FALSE, !.txemt = TRUE]
         ELSE Raised([Looped(c) EXCEPT !.txshift = c.txhold, !.full = TRUE,
                                       !.txrdy = TRUE, !.callbacks = @ + 1],
                     "TXRDY")

ShiftDone(c) ==
  CASE "tx" \notin c.cmd ->
         Lowered([c EXCEPT !.txrdy = FALSE, !.txemt = FALSE, !.full = FALSE],
                 {"TXRDY"})
    [] "tx" \in c.cmd /\ {"loop", "brk"} \subseteq c.cmd ->
         Raised([c EXCEPT !.rxrdy = TRUE, !.brkdet = TRUE], "BREAK")
    [] OTHER ->
         IF c.txrdy THEN [Looped(c) EXCEPT !.full = FALSE, !.txemt = TRUE]
         ELSE Raised([Looped(c) EXCEPT !.txshift = c.txhold, !.full = TRUE,
                                       !.txrdy = TRUE, !.callbacks = @ + 1],
                     "TXRDY")

Shift(c) ==
  /\ u' = ShiftDone(c)
  /\ put' = IF Puts(c) THEN Append(put, c.txhold) ELSE put

\* The callout of a character, by callout_poll.
TxCallback ==
  /\ ~ after /\ u.callbacks > 0
  /\ Shift([u EXCEPT !.callbacks = @ - 1])
  /\ UNCHANGED <<vars, line, rxpc, after, ntx, ncmd, sent, seen, dropped>>

\* io_uart_pre_read of the data register
ReadData ==
  /\ ~ after /\ u.rxrdy
  /\ u' = Lowered([u EXCEPT !.rxrdy = FALSE], {"RXRDY"})
  /\ seen' = IF u.brkdet THEN seen ELSE Append(seen, u.rxhold)
  /\ UNCHANGED <<vars, line, rxpc, after, ntx, ncmd, put, sent, dropped>>

Broadcast == rxpc' = IF rxpc = "wait" THEN "check" ELSE rxpc

\* io_uart_post_write of the data register
WriteData ==
  /\ ~ after /\ u.txrdy /\ "tx" \in u.cmd /\ ntx < MaxTx
  /\ ntx' = ntx + 1
  /\ u' = Lowered([u EXCEPT !.txhold = -(ntx + 1), !.txrdy = FALSE,
                            !.txemt = FALSE], {"TXRDY"})
  /\ sent' = IF "loop" \in u.cmd THEN sent ELSE Append(sent, -(ntx + 1))
  /\ after' = TRUE
  /\ Broadcast
  /\ UNCHANGED <<vars, line, ncmd, put, seen, dropped>>

\* ... of the command register: its bits in their order.  Switching the
\* receiver on or off empties the holding register.
CmdTx(c, d) ==
  CASE "tx" \in d \ c.cmd -> Raised([c EXCEPT !.txrdy = TRUE], "TXRDY")
    [] "tx" \in c.cmd \ d ->
         Lowered([c EXCEPT !.txrdy = FALSE, !.txemt = FALSE], {"TXRDY"})
    [] OTHER -> c

CmdRx(c, d) ==
  CASE "rx" \in d \ c.cmd -> [c EXCEPT !.rxrdy = FALSE]
    [] "rx" \in c.cmd \ d -> Lowered([c EXCEPT !.rxrdy = FALSE], {"RXRDY"})
    [] OTHER -> c

CmdErrors(c, d) ==
  IF "er" \in d THEN Lowered([c EXCEPT !.brkdet = FALSE], {"BREAK"}) ELSE c

CmdBreak(c, d) ==
  CASE "brk" \in d \ c.cmd ->
         Lowered([c EXCEPT !.txrdy = FALSE, !.txemt = FALSE], {"TXRDY"})
    [] "brk" \in c.cmd \ d ->
         Lowered(Raised([c EXCEPT !.txrdy = TRUE], "TXRDY"), {"BREAK"})
    [] OTHER -> c

Commanded(c, d) ==
  [CmdBreak(CmdErrors(CmdRx(CmdTx(c, d), d), d), d) EXCEPT !.cmd = d \ {"er"}]

\* What the guest takes care of: it changes the mode when no character waits
\* to be sent, starts a break when none is being sent, and after one reads the
\* data register and resets the errors.
Careful(c, d) ==
  /\ d \ {"rx", "er"} # c.cmd \ {"rx"} =>
       c.txrdy \/ c.cmd \cap {"tx", "brk"} # {"tx"}
  /\ "brk" \in d \ c.cmd => ~ c.full
  /\ c.brkdet => "er" \in d /\ ~ c.rxrdy

WriteCmd ==
  /\ ~ after /\ ncmd < MaxCmds
  /\ \E d \in Cmds : Careful(u, d) /\ u' = Commanded(u, d)
  /\ dropped' = IF u.rxrdy /\ ~ u'.rxrdy THEN dropped \cup {u.rxhold} ELSE dropped
  /\ ncmd' = ncmd + 1
  /\ after' = TRUE
  /\ Broadcast
  /\ UNCHANGED <<vars, line, ntx, put, sent, seen>>

\* ... and, without the mutex, the end of every write.
AfterWrite ==
  /\ after
  /\ after' = FALSE
  /\ IF {"brk", "loop"} \subseteq u.cmd
       THEN u' = [u EXCEPT !.callbacks = @ + 1] /\ put' = put
       ELSE IF ~ u.txrdy /\ ~ u.full THEN Shift(u) ELSE UNCHANGED <<u, put>>
  /\ UNCHANGED <<vars, line, rxpc, ntx, ncmd, sent, seen, dropped>>

-----------------------------------------------------------------------------

\* thr_console_rx: elastic_get ...
ConGet ==
  \/ GetCall(con) /\ rxpc = "get" /\ UNCHANGED convars
  \/ GetWait(con) /\ UNCHANGED convars
  \/ GetTake(con) /\ rxpc' = "check" /\ UNCHANGED <<line, uvars>>

\* ... the wait for the guest ...
Room == "rx" \in u.cmd /\ ~ u.rxrdy

ConWait ==
  /\ rxpc = "check" /\ ~ Room
  /\ rxpc' = "wait"
  /\ UNCHANGED <<vars, line, uvars>>

\* that does not look at the holding register
ConHoldBug ==
  /\ rxpc = "check" /\ "rx" \in u.cmd
  /\ u' = Raised([u EXCEPT !.rxhold = Byte, !.rxrdy = TRUE], "RXRDY")
  /\ rxpc' = "sleep"
  /\ UNCHANGED <<vars, line, after, ntx, ncmd, put, sent, seen, dropped>>

ConHold ==
  /\ rxpc = "check" /\ Room
  /\ u' = Raised([u EXCEPT !.rxhold = Byte, !.rxrdy = TRUE], "RXRDY")
  /\ rxpc' = "sleep"
  /\ UNCHANGED <<vars, line, after, ntx, ncmd, put, sent, seen, dropped>>

\* ... and callout_sleep, for the time of a character.
ConSlept ==
  /\ rxpc = "sleep"
  /\ rxpc' = "get"
  /\ UNCHANGED <<vars, line, uvars>>

Thread == ConGet \/ ConWait \/ ConHold \/ ConSlept

-----------------------------------------------------------------------------

ConInit ==
  /\ Init
  /\ line \in {"console", "diag"}
  /\ rxpc = "get"
  /\ u = [cmd |-> {}, irq |-> {}, txrdy |-> FALSE, txemt |-> FALSE,
          rxrdy |-> FALSE, brkdet |-> FALSE, full |-> FALSE, callbacks |-> 0,
          rxhold |-> 0, txhold |-> 0, txshift |-> 0]
  /\ after = FALSE /\ ntx = 0 /\ ncmd = 0
  /\ put = << >> /\ sent = << >> /\ seen = << >> /\ dropped = {}

LineInject == (\E n \in ChunkLens : Inject(n)) /\ UNCHANGED convars

DiagGet(g) == line = "diag" /\ Getter(g) /\ UNCHANGED convars

DiagCall(g) == line = "diag" /\ GetCall(g) /\ UNCHANGED convars

Cpu == TxCallback \/ ReadData \/ WriteData \/ WriteCmd \/ AfterWrite

ConNext ==
  \/ LineInject
  \/ line = "console" /\ (Thread \/ Cpu)
  \/ \E g \in Getters \ {con} : DiagCall(g) \/ DiagGet(g)

ConSafety == ConInit /\ [][ConNext]_<<vars, convars>>

\* The threads get on, the callouts come, and a guest that is interrupted reads
\* the byte.  Nothing obliges it to write a register.
ConSpec ==
  /\ ConSafety
  /\ WF_<<vars, convars>>(line = "console" /\ Thread)
  /\ WF_<<vars, convars>>(line = "console" /\ (TxCallback \/ AfterWrite))
  /\ WF_<<vars, convars>>(line = "console" /\ ReadData)
  /\ \A g \in Getters \ {con} : WF_<<vars, convars>>(DiagGet(g))
  /\ \A g \in Loops \ {con} : WF_<<vars, convars>>(DiagCall(g))
-----------------------------------------------------------------------------

Uart ==
  [cmd : SUBSET Bits, irq : SUBSET {"TXRDY", "RXRDY", "BREAK"},
   txrdy : BOOLEAN, txemt : BOOLEAN, rxrdy : BOOLEAN, brkdet : BOOLEAN,
   full : BOOLEAN, callbacks : Nat, rxhold : Int, txhold : Int, txshift : Int]

ConTypeOK ==
  /\ line \in {"console", "diag"}
  /\ rxpc \in {"get", "check", "wait", "sleep"}
  /\ u \in Uart
  /\ after \in BOOLEAN /\ ntx \in Nat /\ ncmd \in Nat
  /\ put \in Seq(Int) /\ sent \in Seq(Int) /\ seen \in Seq(Int)
  /\ dropped \in SUBSET Int

\* What the guest has read, what is in the holding register for it (after a
\* break it is not what it says), and what the thread holds back.
Held == IF u.rxrdy /\ ~ u.brkdet THEN << u.rxhold >> ELSE << >>
Back == IF rxpc \in {"check", "wait"} THEN << Byte >> ELSE << >>
Passed == seen \o Held \o Back

\* The bytes of the line that have passed the UART, that are in its holding
\* register and that its thread holds back are in the order of the line, and are
\* those taken from the buffer but for what a command has dropped: no byte is
\* lost, doubled or overtaken between the thread and the guest.  The guest is
\* interrupted for a byte as long as it has not read it.
ConsoleIn ==
  line = "console" =>
    /\ \A i, j \in DOMAIN Passed :
         i < j /\ Passed[i] > 0 /\ Passed[j] > 0 => Passed[i] < Passed[j]
    /\ {b \in Range(Passed) : b > 0} = Range(Numbers(got)) \ dropped
    /\ u.rxrdy => "RXRDY" \in u.irq \/ u.brkdet

\* What was put to the elastic, and the character that waits to be, is what the
\* guest has written outside of loopback, in that order, whatever callouts are
\* on their way: no character is sent twice, lost or overtaken.
ConsoleOut ==
  put \o (IF "tx" \in u.cmd /\ "loop" \notin u.cmd /\ ~ u.txrdy
            THEN << u.txhold >> ELSE << >>) = sent

\* What makes them so.  The registers: a break is detected in loopback only, and
\* there is no byte of the line in the holding register when the receiver is off.
RegsOK(c) ==
  /\ "brk" \in c.cmd => "loop" \in c.cmd
  /\ "loop" \in c.cmd => "rx" \notin c.cmd
  /\ c.brkdet => {"loop", "brk"} \subseteq c.cmd
  /\ c.rxrdy /\ ~ c.brkdet /\ "rx" \notin c.cmd => c.rxhold <= 0
  /\ c.txhold <= 0 /\ c.txshift <= 0
  /\ c.rxrdy => "RXRDY" \in c.irq \/ c.brkdet

\* The bytes of the line are numbered as they are taken: those the guest has
\* read, the one that is held and the one held back come one after the other, and
\* each that was taken is one of them or dropped.
Has(c) == c.rxrdy /\ ~ c.brkdet /\ c.rxhold > 0
HasBack == rxpc \in {"check", "wait"}

Where(b) ==
  \/ \E i \in 1..Len(seen) : seen[i] = b
  \/ Has(u) /\ u.rxhold = b
  \/ HasBack /\ Len(got) = b

LineOK ==
  /\ gpc[con] # "idle" => rxpc = "get"
  /\ HasBack => Len(got) > 0
  /\ \A i, j \in 1..Len(seen) :
       i < j /\ seen[i] > 0 /\ seen[j] > 0 => seen[i] < seen[j]
  /\ \A i \in 1..Len(seen) :
       /\ seen[i] <= Len(got)
       /\ Has(u) => seen[i] < u.rxhold
       /\ HasBack => seen[i] < Len(got)
  /\ Has(u) => u.rxhold <= Len(got) /\ (HasBack => u.rxhold < Len(got))
  /\ \A b \in dropped : b <= Len(got)
  /\ \A b \in 1..Len(got) : Where(b) <=> b \notin dropped

RegsInv == RegsOK(u)
LineInv == line = "console" => LineOK

ConIInv == TypeOK /\ ConTypeOK /\ InOrder /\ RegsInv /\ LineInv /\ ConsoleOut

\* A transmitter with a character to send becomes ready again: a callout is on
\* its way whenever the shift register is full, although a transmitter that is
\* off, loopback and breaks each take another way through cons_txshift_done.
TxGoesOn ==
  LET busy == "tx" \in u.cmd /\ "brk" \notin u.cmd /\ ~ u.txrdy
  IN  busy ~> ~ busy

\* Every byte injected is returned by some call in the end, or the UART's thread
\* waits for the guest with the one before it.
AllGot ==
  \A n \in 1..MaxBytes :
    (ninj >= n) ~> (Len(got) >= n \/ (line = "console" /\ rxpc = "wait"))
=============================================================================
