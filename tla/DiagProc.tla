------------------------------ MODULE DiagProc ------------------------------
(***************************************************************************)
(* A diag processor (Diag/diagproc.c): the 8052 of a board, executing its  *)
(* firmware one instruction at a time in the SystemC thread; the thread of *)
(* its subscription to the diag bus, which holds each byte back until the  *)
(* firmware can take it, or stores a download in the 8052's memory itself; *)
(* and a client of the bus: `diproc experiment`, `diproc wait` and `diproc *)
(* status` of the CLI (Diag/diagbus.c, Diag/experiment.c), and commands    *)
(* the IOC sends.                                                          *)
(*                                                                         *)
(* The instruction and the bus thread's handling of a byte hold dp->mtx;   *)
(* the copy of the status in diprocs[] after an instruction does not.      *)
(***************************************************************************)
EXTENDS I8052, SequencesExt

CONSTANTS
  Board,         \* the address of the board, which its P1 pins give it
  Pin1, Pin2,    \* the pins of P1 to P3, as SystemC samples them
  Pin3,
  Programs,      \* experiments: sequences of octets
  Targets,       \* the addresses experiments are sent to
  Tells,         \* commands that have no reply, as words of the bus
  Octets,        \* bound: the octets the arithmetic is tried with
  MaxCommands    \* bound: commands the client sends

ASSUME DiagProcAssumption ==
  /\ Board \in 1..15 /\ MaxCommands \in Nat
  /\ Pin1 \in 0..255 /\ Pin2 \in 0..255 /\ Pin3 \in 0..255
  /\ Octets \subseteq 0..255

VARIABLES
  cpu,         \* dp->mcs51, and the pins in diagproc_ctrl
  idle,        \* dp->idle > 0
  again,       \* DiagProcStep goes on with the next instruction
  pend,        \* << the status read after the instruction >>, not yet stored
  status,      \* diprocs[Board].status
  dl,          \* dl_cnt, dl_ptr and dl_sum
  bus,         \* words in the board's subscription of the diag bus
  rx,          \* << the word the bus thread waits with >>
  replies,     \* bytes injected, which the client's reader has
  cl,          \* where the client is
  sent,        \* commands sent
  prog,        \* history: the experiment sent last
  fresh,       \* history: the byte in SBUF: 1 not read, 2 read once of twice
  misread,     \* history: a byte was read twice, not at all or overwritten,
               \* or the assertion on the checksum of a fast download failed
  entry,       \* history: << the cpu when the interrupt was taken >>
  torn         \* history: an experiment has been stored over another one
               \* that is executed, awaits execution or is itself unfinished

boardvars == <<cpu, idle, again, pend, status, dl>>
clientvars == <<cl, sent, prog>>
history == <<fresh, misread, entry, torn>>
vars == <<boardvars, bus, rx, replies, clientvars, history>>

-----------------------------------------------------------------------------

RUNNING == 6
LOOPING == 2

\* dp->flags[]: the flags set for P8052AH_9028
RX_SPIN == {1606, 1763}
IDLE == {381, 383}
RX_DISABLE == {1853}

ram(c, a) == c.iram[a]
ThisBoard(c) == ram(c, 3)
State(c) == ram(c, 4)

\* SystemC samples the pins before each DiagProcStep, which ticks timer 0.
Sampled(c) ==
  [TimerTick(c) EXCEPT !.p1val = Pin1, !.p2val = Pin2, !.p3val = Pin3]

\* ... that does not hold back what follows a command which took too few bytes
IStepBug(c) == SingleStep([c EXCEPT !.did_io = FALSE])

\* diagproc_istep
IStep(c) ==
  LET d == SingleStep([c EXCEPT !.did_io = FALSE])
  IN  IF d.pc \in RX_DISABLE THEN SetSfrBit(d, SCON, 4, 0) ELSE d

\* How the firmware uses the serial port: at 0x66a and 0x6e6 it reads a byte
\* once, at 0x649 and 0x64d twice.
TakenAt(pc) ==
  CASE pc \in {1642, 1766} -> << 1, 0 >>
    [] pc = 1609 -> << 1, 2 >>
    [] pc = 1613 -> << 2, 0 >>
    [] OTHER -> << fresh, fresh >>

\* The firmware stores a download over an experiment that loops.
StoresLooping(c) == c.pc = 1759 /\ State(c) = LOOPING

\* Bound: what a processor computes after an experiment was torn is not followed.
Followed == ~ torn

\* The store of the status in diprocs[] is a step of its own, unless it stores
\* what is there, and the bus thread, which could change the state before it
\* only with a fast download, does not find the processor idle.
Instruction ==
  /\ pend = << >> /\ Followed
  /\ LET irq == Interrupted(cpu)
         c == IStep(IF again THEN cpu ELSE Sampled(cpu))
     IN  /\ cpu' = [c EXCEPT !.tx = << >>, !.did_io = FALSE]
         /\ replies' = replies \o c.tx
         /\ idle' = (c.pc \in IDLE \union RX_SPIN)
         /\ again' = (cpu.pc \notin IDLE \union RX_SPIN /\ ~ c.did_io)
         /\ pend' = IF ThisBoard(c) \in 1..15 /\ (State(c) # status \/ idle')
                    THEN << State(c) >> ELSE << >>
         /\ torn' = (~ irq /\ StoresLooping(cpu))
         /\ fresh' = IF irq THEN fresh ELSE TakenAt(cpu.pc)[2]
         /\ misread' = (misread \/ (~ irq /\ TakenAt(cpu.pc)[1] # fresh))
         /\ entry' = IF irq THEN << cpu >>
                     ELSE IF c.irq_state = 0 THEN << >> ELSE entry
  /\ UNCHANGED <<status, dl, bus, rx, clientvars>>

\* DiagProcStep stores the status after it has let the mutex go.
Publish ==
  /\ pend # << >>
  /\ status' = pend[1] /\ pend' = << >>
  /\ UNCHANGED <<cpu, idle, again, dl, bus, rx, replies, clientvars, history>>

-----------------------------------------------------------------------------

Ninth(w) == w \div 256
Low(w) == w % 256

\* diagproc_busrx: a download of this board, unless an experiment runs
IsFast(w) ==
  \/ dl.cnt # 0
  \/ /\ Ninth(w) = 1
     /\ w % 32 = ThisBoard(cpu)
     /\ Low(w) \div 32 = 5
     /\ State(cpu) # RUNNING

\* that forgets the loops in which the interrupt handler waits for bytes
MayReceiveBug ==
  /\ cpu.irq_state = 0
  /\ Bit(cpu.sfr[SCON], 0) = 0 /\ Bit(cpu.sfr[SCON], 4) = 1

MayReceive ==
  /\ cpu.irq_state = 0 \/ cpu.pc \in RX_SPIN
  /\ Bit(cpu.sfr[SCON], 0) = 0 /\ Bit(cpu.sfr[SCON], 4) = 1

\* A slow download waits for its checksum to be read, or an experiment, whole,
\* for the idle loop to look at the state.
Occupied(c) == c.pc = 1763 \/ State(c) = RUNNING

\* that leaves the flags of the experiment in memory
LaunchedBug(c) == [c EXCEPT !.iram[4] = RUNNING]

\* The flags of the experiment go to IP, and the idle loop finds it RUNNING.
Launched(c) ==
  LET f == ram(c, 17)
  IN  [SetSfrBit(SetSfrBit(c, IP, 0, Bit(f, 0)), IP, 1, Bit(f, 1))
         EXCEPT !.iram[4] = RUNNING]

\* diagproc_fast_dload: the command, the length, the data, the checksum; one
\* that completes before the next instruction has torn nothing.
FastDload(w) ==
  LET b == Low(w)
  IN
  CASE dl = [cnt |-> 0, ptr |-> 0, sum |-> 0] ->
         /\ dl' = [dl EXCEPT !.cnt = 1]
         /\ UNCHANGED <<cpu, misread, torn>>
    [] dl = [cnt |-> 1, ptr |-> 0, sum |-> 0] ->
         /\ dl' = [cnt |-> (b + 1) % 256, ptr |-> 16, sum |-> b]
         /\ UNCHANGED <<cpu, misread, torn>>
    [] dl.cnt > 1 /\ dl.ptr > 0 ->
         /\ dl' = [cnt |-> dl.cnt - 1, ptr |-> (dl.ptr + 1) % 256,
                   sum |-> (dl.sum + b) % 256]
         /\ cpu' = [cpu EXCEPT !.iram[dl.ptr] = b]
         /\ torn' = (torn \/ Occupied(cpu))
         /\ UNCHANGED misread
    [] dl.cnt <= 1 /\ dl.ptr > 0 ->
         /\ dl' = [cnt |-> 0, ptr |-> 0, sum |-> 0]
         /\ cpu' = Launched(cpu)
         /\ misread' = (misread \/ dl.sum # b)
         /\ torn' = FALSE
    [] OTHER -> UNCHANGED <<cpu, dl, misread, torn>>

Receive(w) ==
  /\ cpu' = Rx(cpu, Low(w), Ninth(w))
  /\ fresh' = IF Raises(cpu, Ninth(w)) THEN 1 ELSE fresh
  /\ misread' = (misread \/ fresh # 0)
  /\ UNCHANGED <<dl, entry, torn>>

\* The wait at the head of each branch, and what follows it.
Ready(fast) == IF fast THEN idle ELSE MayReceive

Handle(w, fast) ==
  /\ IF fast THEN FastDload(w) /\ UNCHANGED <<fresh, entry>> ELSE Receive(w)
  /\ status' = IF ThisBoard(cpu') \in 1..15 THEN State(cpu') ELSE status

\* The bus thread takes a word: it handles it at once, or starts to wait.
BusFetch ==
  /\ rx = << >> /\ bus # << >>
  /\ bus' = Tail(bus)
  /\ LET w == Head(bus)
     IN  IF Ready(IsFast(w))
         THEN Handle(w, IsFast(w)) /\ rx' = << >>
         ELSE /\ rx' = << [word |-> w, fast |-> IsFast(w)] >>
              /\ UNCHANGED <<cpu, dl, status, history>>
  /\ UNCHANGED <<idle, again, pend, replies, clientvars>>

BusRetry ==
  /\ rx # << >> /\ Ready(rx[1].fast)
  /\ Handle(rx[1].word, rx[1].fast)
  /\ rx' = << >>
  /\ UNCHANGED <<idle, again, pend, bus, replies, clientvars>>

-----------------------------------------------------------------------------

Sum(s) == FoldLeft(LAMBDA x, y : x + y, 0, s) % 256

\* DiagBus_Send puts one word; the words of a command are put at once, since
\* one thread takes them from a queue, in their order.  Two senders whose words
\* mix (the CLI and the IOC) are not modelled: commands follow each other.
Send(words) ==
  /\ cl = "idle" /\ sent < MaxCommands
  /\ sent' = sent + 1
  /\ bus' = bus \o words
  /\ UNCHANGED <<boardvars, rx, replies, history>>

\* Send_Experiment
Words(p, to) ==
  LET q == << Len(p) + 1 >> \o p \o << 0 >>
  IN  << 416 + to >> \o q \o << Sum(q) >>

\* It sleeps 100 ms before, which promises nothing of what it finds.
CliExperiment ==
  \E p \in Programs, to \in Targets :
    /\ Send(Words(p, to))
    /\ prog' = p
    /\ UNCHANGED cl

\* without the poll over the bus
CliWaitBug == Send(<< >>) /\ cl' = "poll" /\ UNCHANGED prog

\* cli_diproc_wait without a status to wait for, that is, until it is not
\* RUNNING: the first poll is over the bus ...
CliWait == Send(<< 256 + Board >>) /\ cl' = "get" /\ UNCHANGED prog

CliGet ==
  /\ cl = "get" /\ replies # << >>
  /\ replies' = Tail(replies)
  /\ cl' = IF Head(replies) % 16 = RUNNING THEN "poll" ELSE "idle"
  /\ UNCHANGED <<boardvars, bus, rx, sent, prog, history>>

\* ... the others look at diprocs[].status.
CliPoll ==
  /\ cl = "poll" /\ status # RUNNING
  /\ cl' = "idle"
  /\ UNCHANGED <<boardvars, bus, rx, replies, sent, prog, history>>

\* cli_diproc_status: the first octet of the experiment says how much memory
Want == prog[1]

CliStatus ==
  /\ prog # << >>
  /\ Send(<< 288 + Board, 0, Want >>)
  /\ cl' = "upload" /\ UNCHANGED prog

\* The calls of elastic_get until there is enough are one.
CliUpload ==
  /\ cl = "upload" /\ Len(replies) >= 2 + Want
  /\ replies' = << >> /\ cl' = "idle"
  /\ UNCHANGED <<boardvars, bus, rx, sent, prog, history>>

\* The IOC sends a command through its DUART.
Tell == \E w \in Tells : Send(<< w >>) /\ UNCHANGED <<cl, prog>>

-----------------------------------------------------------------------------

Init ==
  /\ cpu = Reset
  /\ idle = FALSE /\ again = FALSE /\ pend = << >> /\ status = 0
  /\ dl = [cnt |-> 0, ptr |-> 0, sum |-> 0]
  /\ bus = << >> /\ rx = << >> /\ replies = << >>
  /\ cl = "idle" /\ sent = 0 /\ prog = << >>
  /\ fresh = 0 /\ misread = FALSE /\ entry = << >> /\ torn = FALSE

\* Nothing more is asked of a torn experiment.
Torn == torn /\ UNCHANGED vars

Next ==
  \/ Instruction \/ Publish
  \/ BusFetch \/ BusRetry
  \/ CliExperiment \/ CliWait \/ CliGet \/ CliPoll
  \/ CliStatus \/ CliUpload \/ Tell
  \/ Torn

\* SystemC goes on, the bus thread sleeps a millisecond and looks again, and
\* a client that waits goes on when it can.  The first is weak fairness of
\* Instruction and Publish in terms of the pc, which every instruction changes
\* but those that spin for a byte.
Spinning ==
  pend = << >> /\ cpu.pc \in RX_SPIN /\ Bit(cpu.sfr[SCON], 0) = 0

Fairness ==
  /\ []<>Spinning \/ []<><<TRUE>>_(cpu.pc)
  /\ WF_vars(BusFetch \/ BusRetry)
  /\ WF_vars(CliGet \/ CliPoll \/ CliUpload)

Spec == Init /\ [][Next]_vars /\ Fairness

-----------------------------------------------------------------------------

\* A processor that starts computes with words of several octets as with
\* numbers (mcs51_ADD, mcs51_SUBB, the rotations, MUL and DIV); XRL A,#data,
\* which does not compute what its name says, is not among them.
Arithmetic == sent = 0 /\ cpu.pc = 0 => WordsAreNumbers(Octets)

\* Each byte the serial port takes is used by the firmware once, before the
\* next one can overwrite it, and a reset of the port does not lose it; and the
\* checksum of a fast download is right, as the code asserts.
BytesTaken ==
  ~ misread /\ (fresh = 1 => Bit(cpu.sfr[SCON], 0) = 1)

\* The serial interrupt is invisible to the experiment it interrupts: at the
\* return (0x6aa) the registers, the carry, the register bank, the stack and
\* the program counter are what they were when it was taken.
Transparent ==
  [][(cpu.pc = 1706 /\ cpu'.pc # 1706) =>
       /\ cpu'.pc = entry[1].pc
       /\ \A a \in {ACC, B, SP, DPL, DPH} : cpu'.sfr[a] = entry[1].sfr[a]
       /\ Carry(cpu') = Carry(entry[1]) /\ Reg(cpu', 0) = Reg(entry[1], 0)]_vars

\* When a download has completed, through the firmware or around it, one whole
\* experiment is in memory, with its flag bits in IP, and not a part of one and
\* the rest of another, at whatever point of the first the second arrives: only
\* what StoresLooping and Occupied name lets one into the other (torn).
DownloadWhole ==
  [][(State(cpu) # RUNNING /\ State(cpu') = RUNNING
        /\ (cpu.pc = 1781 \/ dl' # dl)) =>
       \E p \in Programs :
         /\ \A i \in 1..Len(p) : ram(cpu', 15 + i) = p[i]
         /\ ram(cpu', 16 + Len(p)) = 0
         /\ cpu'.sfr[IP] % 4 = p[2] % 4]_vars

\* `diproc wait` returns only when the experiment that was sent before it is
\* not running: the poll over the bus waits for the download, and the status
\* it looks at after that is not an old one.
WaitMeansDone ==
  [][(cl \in {"get", "poll"} /\ cl' = "idle") => State(cpu) # RUNNING]_vars

\* What `diproc status` receives is the upload and nothing else: its length,
\* its checksum, and the board's own address where the firmware keeps it.
UploadWhole ==
  [][(cl = "upload" /\ cl' = "idle") =>
       /\ Len(replies) = 2 + Want
       /\ Last(replies) = Sum(Front(replies))
       /\ replies[5] = Board]_vars

\* The bus thread gets rid of every byte, and a client gets its answer, that of
\* `diproc wait` being that the experiment has ended, paused or been reset; only
\* a download to a board that is looping waits for an idle that does not come.
\* (A torn processor stands still, which Fairness excludes.)
Stuck == rx # << >> /\ rx[1].fast /\ State(cpu) = LOOPING

Answered == (rx # << >> \/ cl # "idle") ~> (Stuck \/ (rx = << >> /\ cl = "idle"))
=============================================================================
