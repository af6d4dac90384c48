# Verification of the R1000 emulator

TLA+ models of the parts of the emulator in which threads, callbacks, queues
and simulated time meet, model-checked with TLC on small instances, and proofs,
checked with TLAPS, of the theorems that hold for every instance.

All paths below are relative to the repository.

## 1. The system

The emulator is one process. Part of the Rational R1000/400 is simulated by
generated SystemC models (the processor boards), part by hand-written C (the I/O
processor "IOC" with its 68020, its devices and the disks and tapes). The parts
are threads that share a handful of mutexes:

| thread | code | what it does |
|---|---|---|
| CLI (main) | `Infra/main.c`, `Infra/cli.c` | executes one command at a time; commands start, stop and wait for all others |
| IOC CPU | `main_ioc` in `Iop/iop_main.c` | executes 68k instructions, advances `simclock`, runs callouts, accesses device registers |
| SystemC | `sc_main` in `Chassis/sc_main_thread.cc` | simulates as long as it has quota; runs the 8052 diag processors of the boards, and the bus cycles the IOC CPU asks for |
| receivers | `thr_duart_rx`, `thr_console_rx` | take input bytes from a buffer, one wire time each |
| SCSI controllers | `scsi_thread` | execute a disk or tape command |
| clock chip | `ioc_rtc_thread` | a tick per periodic callout |
| subscribers | `elastic_subscriber_thread` | deliver output to a file, a socket, a pattern match |
| sources | `Infra/elastic_fd.c`, `Infra/elastic_tcp.c` | read descriptors and inject into a buffer |
| bus threads | subscribers of the diag bus, `diagproc_busrx` in `Diag/diagproc.c` | hand each byte to the 8052 of their board, or store a download in its memory |
| dummy boards | `Diag/dummy_diproc.c` | answer the diag bus when no board is simulated |

### Components, their state and what makes them correct

| component | state | operations | what makes it correct | hard because |
|---|---|---|---|---|
| elastic buffer, output (`Infra/elastic.c`) | subscriber list, a queue per subscriber, a backlog | put, subscribe, unsubscribe, fetch, drain | each subscriber gets an exact, ordered interval of what was put; nothing lost between backlog and queues; nobody sleeps on work | subscribers come and go while others put; a subscriber frees itself |
| elastic buffer, input | queue of chunks | inject, get | bytes are returned once, in order; nobody sleeps on bytes | two getters on the diag bus, one signal per chunk |
| text match (`Infra/elastic_match.c`) | pattern, index, match flag | txfunc, arm, wait | a match is new, is not missed after a break, and wakes the CLI | two waiters on one condition; matching across chunks and arms |
| interrupts (`Iop/iop_interrupt.c`) | sorted list of pending vectors, a level | raise, lower, get vector | the best vector is announced and served | every thread raises; the CPU samples without the mutex |
| callouts (`Infra/callout.c`, `main_ioc`) | queue ordered by time, pool of sleepers, `simclock` | sleep, callback, signal, poll | nobody wakes early or never; periods do not drift | time jumps while others queue; pooled conditions |
| run control (`Iop/iop_main.c`) | instruction quota, running flag | start, stop, step, reset, wait | a reset meets a stopped CPU; a step is exact; no command hangs | the CPU executes outside the mutex and can stop itself |
| SystemC quota (`Chassis/sc.c`) | quota, launch state | launch, add, exit, wait, get | all quota is simulated | launch, additions and exit in any order |
| DUART (`Iop/iop_duart.c`) | status, holding and shift registers, timer | receive, read, write, switch on and off, loop, tick | bytes keep their order; none is lost or overwritten between two reads | a callback changes the status register without the mutex |
| SCSI (`Iop/iop_scsi_ctl.c`, `Iop/iop_scsi_dev.c`) | registers, interrupt bit, tape head, sectors | write registers, execute, read status, reset, patch | each command executed once, as written, and answered; the tape stays framed, a sector holds what was written last | wakeups without a predicate; a reset races a command |
| console UART (`Iop/iop_uart.c`) | status, holding and shift registers, a byte held back | receive, read, write, command, break, loop | as the DUART; the transmitter gets on | a callout per character, whatever the registers say meanwhile |
| clock chip (`Iop/iop_rtc.c`) | date registers in BCD, tick thread | tick, latch, set | a tick per period, a carry through all registers | signals nobody waits for are lost; most of the carry runs once a day or month |
| IOC bus (`Iop/iop_sc.c`) | queue of transactions | transact, take, complete | each transaction answered once | handed between the CPU thread and the simulation |
| 8052 emulator (`Diag/i8052_emul.c`) | registers, memories, interrupt level | opcodes, interrupts, timer, serial port | arithmetic; interrupts return to what they interrupted | flags, banks and bit addresses |
| diag processors (`Diag/`) | an 8052 with its firmware, download state, a copy of the status | execute, receive, fast download, reply, poll | each byte taken once; a download arrives whole; a wait ends when the experiment has | three threads; two paths for a download; firmware that is interrupted anywhere |
| memory map and pegs (`Iop/iop_memory.c`) | list of pegs | add, check | a peg sees each access to its range once | the mutex is released around the call |

Everything else (string buffers, firmware images, tracing, the offline file
system, the netlist compiler, debugging aids) is listed with its reason in
`PROJECT.json`.

### How they interact

Input comes from a descriptor or the CLI into an *elastic* (`elastic_inject`); a
receive thread takes it (`elastic_get`), sleeps for the wire time
(`callout_sleep`), puts it in a register and raises a vector (`irq_raise`). The
CPU thread samples the level, acknowledges, and reads the register under the
mutex of the device. What it writes goes into a shift register, out of which a
callout (`callout_callback`, run by the CPU thread in `callout_poll`) puts it to
the elastic (`elastic_put`), whose subscribers deliver it. The CLI may wait for
a text in that output, for the CPU, or for the simulation.

## 2. Modules

| module | models | remarks |
|---|---|---|
| `MulticastLog` | the promise of an elastic's output side | abstract: one log, a cursor per subscriber |
| `Elastic` | `elastic_put`, `_subscribe`, `_unsubscribe`, the subscriber thread, `_drain` | implements `MulticastLog` (`INSTANCE ... WITH` in the module) |
| `ElasticProofs` | theorems about `Elastic` and about `ElasticMatch` | |
| `ElasticInput` | `elastic_inject`, `elastic_get` | |
| `Console` | the console UART, `Iop/iop_uart.c` | `EXTENDS ElasticInput`: a behaviour is about the console line, or about the diag bus with its two getters |
| `ConsoleProofs` | theorems about `ElasticInput` and `Console` | |
| `SequenceLemmas` | lemmas about sequences the proofs need, and induction | nothing of the emulator |
| `ElasticMatch` | `Infra/elastic_match.c` | one `em->cond`, two sides |
| `Irq` | `irq_raise`, `irq_lower`, `irq_getvector`, the sampling in `main_ioc` | |
| `Callout` | `Infra/callout.c`, the clock part of `main_ioc`, the clients' waits | times are relative to `simclock` |
| `CalloutProofs` | theorems about `Callout` | |
| `Rtc` | the counters of the clock chip, `Iop/iop_rtc.c` | operators; the chip's thread is in `Callout` |
| `CliThread` | the one CLI thread: what it is waiting for | shared by the next three |
| `IocCpu` | starting, stopping, stepping and resetting the IOC CPU | |
| `ScQuota` | launch and quota of SystemC | |
| `IocBus` | the bus transactions of the IOC CPU, `Iop/iop_sc.c` | joins the two: the CPU sleeps inside an instruction until the simulation has carried out its access |
| `RunControl` | `IocCpu`, `ScQuota` and `IocBus` under the one CLI | composition |
| `IocProofs` | theorems about `RunControl` and what it is composed of, and about `Irq` | |
| `Duart` | diag bus channel and interval timer of `Iop/iop_duart.c` | two threads, one unlocked update |
| `DuartProofs` | theorems about `Duart` | |
| `ScsiDev` | the functions of the tape and disk drives, `Iop/iop_scsi_dev.c` | operators from a drive to a drive and a result |
| `Scsi` | the controller, its thread, its reset and the guest, `Iop/iop_scsi_ctl.c` | |
| `ScsiProofs` | theorems about `ScsiDev` and `Scsi` | |
| `I8052Regs`, `DiagSfr`, `I8052` | the 8052: registers and bits; the special function registers as the diag processor hooks them; the instructions | operators from a processor to a processor |
| `Firmware` | the octets of the boards' program that the other modules execute | data |
| `DiagProc` | the diag processor of a board: its instruction step in the SystemC thread, the bus thread, a client | executes `Firmware` on `I8052` |
| `DiagProofs` | theorems about `I8052`: arithmetic and interrupts | |
| `MC*` | instances for TLC | |

### Correspondence

An action is one critical section of the mutex that protects the state, or one
step taken outside it; program counters (`spc`, `mpc`, `rpc`, `tpc`, ...) stand
for the place of a thread between two of them, with "wait" for a
`pthread_cond_wait`. `pthread_cond_signal` wakes one waiter, any of them, and is
lost when there is none; `pthread_cond_broadcast` wakes all. Wakeups without a
signal, which POSIX allows, are modelled nowhere; the waits that have a
predicate loop are insensitive to them, for the others see the notes of the
hazards in `PROJECT.json`. Variables have the names of the fields in the code;
variables marked *history* in the modules exist for the properties only. Data is
a serial number (chunks, bytes, characters, contents of sectors), so that "in
order, once" is an equation between sequences. Two instructions that are one C
statement but two memory accesses without a mutex (`sr |= 1` against `sr &= ~4`
in the DUART, the three reads of `irq_level`) are two actions.

Where the code is a function of its state (an 8052 instruction, a drive
function, the carry of the clock) the model is an operator that takes the state
as a record and returns it. `I8052` has one operator per row of sixteen opcodes,
as in the data sheet's table, and no value for what makes the emulator abort: a
run that got there would stop with an error. `DiagProc` then has one action per
instruction, `Instruction`; its real length, in states, is that of the firmware.
The words the bus thread receives have nine bits, and `Words` in `DiagProc`
builds them as `Send_Experiment` does.

## 3. What the runs check

| run | module, cfg | question and answer |
|---|---|---|
| `elastic` | `MCElastic` | Are streams complete and ordered while subscribers come and go? `InOrder`, `NoOrphan`, `NoLostWakeup`, `DrainReturnsLate`, `AllDelivered`, `DrainReturns`, `ImplementsLog` hold |
| `elastic_free` | `MCElasticFree.cfg` | Does the condition `elastic_unsubscribe` signals exist? No: see findings |
| `input` | `MCConsole` | Can getters of a line lose, reorder or sleep over bytes, and does the console UART pass them, and what is sent, on in order? `InOrder`, `AllGot`; `ConsoleIn`, `ConsoleOut`, `TxGoesOn` |
| `match` | `MCElasticMatch` | Is a match fresh, found after a break, and seen by the CLI? `MatchIsFresh`, `FoundAfterBreak`, `WaitReturns` |
| `irq` | `MCIrq` | Is the best vector served whatever the devices do, and does the CPU learn the level? `HeadIsBest`, `LineFollows` |
| `callout` | `MCCallout` | Do jumps of an idle clock keep sleepers and periods exact, and does the clock chip count? `OnTime`, `SleepNotShort`, `SleepEnds`, `RtcCounts` |
| `runcontrol` | `MCRunControl` | Do all commands of the CLI return, and do reset and step meet the CPU, and its access of the simulated board, as they expect? `ResetIsAlone`, `StepIsExact`, `CliReturns`, `QuotaSimulated` |
| `sc_exit` | `MCRunControlExit.cfg` | Does `sc quota exit` end the emulator once the quota has expired? Not if it expired before: see findings |
| `duart` | `MCDuart` | Are bytes and characters kept in order, and does the timer expire on its tick? `RxInOrder`, `TxInOrder`, `TxEnds`, `PitExact` |
| `duart_reads` | `MCDuartReads.cfg` | Does the hold protect *every* byte that is read twice? No: see findings |
| `scsi` | `MCScsi` | Does each command run once, as written, and is it answered, through resets, and do tape and disk hold what the guest believes? `IntIsIrq`, `MediaIsTrue`, `ServesWhatIsWritten`, `Answered` |
| `diagproc` | `MCDiagProc` | Does the firmware of a board get on with the thread that feeds it and the client that waits for it? `BytesTaken`, `Transparent`, `DownloadWhole`, `WaitMeansDone`, `UploadWhole`, `Answered`; does the emulator compute? `Arithmetic`. There is no deadlock before an experiment is torn |

Each property of a passing run has a mutant in `PROJECT.json`: a form of one
definition with a plausible bug (a signal left out, an index off by one, a reset
forgotten, an instruction that does not store its result), defined beside it and
marked `mutant` or named `...Bug`, under which TLC finds that property violated.
They are not part of `Next`.

### Bounds

* `elastic`: two subscribers, both may leave, two chunks. The second subscriber
  can come before, between and after the chunks and the life of the first; a
  third chunk adds no new relation between backlog, queue and delivery. The
  theorems hold for every number.
* `input`: four bytes in chunks of one to three, on the diag bus one getter that
  asks for one byte and one that asks for two: every alignment of request and
  chunk, chunks that are read in pieces by both. On the console two characters
  written and three commands, of which one switches a direction off, one loops
  and one sends a break: each can come before, between and after two characters
  and while their callouts are on the way. A third character repeats the second:
  there is one holding and one shift register.
* `match`: `ab` and `aab` against every stream of five letters in chunks of one
  and two, armed twice: matches inside, at the end of and across chunks, arming
  in the middle of a partial match.
* `irq`: five vectors of the table, two of equal priority, both levels and an
  inversion of level and priority; four raises.
* `callout`: two sleepers, a callback and two periods of 2 and 3 ticks;
  instructions of 1 ("stopped") and 3 ticks, the latter longer than both
  periods, so that several expiries pile up. The clock chip is moved on from the
  last millisecond of every day of the year, from the ends of seconds, minutes
  and hours, and from the instants at which a digit carries (`MCInstants`): the
  carry goes through every register, and ends in every register.
* `runcontrol`: steps of one and two instructions and of none, which is an endless
  one, an endless quota, one launch of SystemC (a second, which the code does not
  refuse, would set up its mutex and condition again under its thread), and three
  units of simulated time in portions of one and two. An instruction has one
  access of the board at most: what follows the first is as what precedes it.
* `duart`: two bytes, two characters, loads of 0 and 1 on a counter modulo 2
  (which stands for 2^16), one byte that is read twice, and one looped back while
  the callback of a read is queued. Receiver, transmitter and loops are switched
  at any time. Two characters are what it takes for one to be written over.
* `scsi`: a tape with two marks in a row and records of two lengths, or a disk of
  two sectors, accessed by one and by two; two resets, at any time, and two writes,
  so that each of two writes may be broken off and one reset may overtake another.
* `diagproc`: the FIU board (address 3) with its own firmware; two commands, the
  second put on the bus at any of the instructions the first takes, in its
  interrupt handler as well, out of two experiments (one that calls
  a routine and pauses, one that loops), each sent to the board and to ALL
  (address 5, which the bus thread does not know, so that the firmware takes it
  octet by octet), `diproc wait`, `diproc status`, and a reset, an unloop and an
  unpause. Two commands are enough for one to meet the other in every state of
  the firmware; a third would meet the same states again. `Followed` is a bound as
  well: where an experiment has been stored over another one that loops, awaits
  its start or is itself not complete, which the code does nothing to prevent but
  sleep 100 ms before it sends (`experiment.c:110`), what the processor then
  computes is not followed, and the properties say nothing of it. `Arithmetic` is
  evaluated for all words of two octets out of six at the boundaries.

Deadlock is not checked where the bounds stop the system or the guest may
simply do nothing (all runs with `CHECK_DEADLOCK FALSE`); the liveness
properties are what says that nothing hangs.

### Fairness

A thread that is awake inside the code gets on (weak fairness of its steps), and a
thread that asks for a mutex others keep taking gets it in the end (strong
fairness where the code takes a mutex in competition: `Callout`). Nothing else is
assumed: no one has to type a command, subscribe, put, inject, raise or lower an
interrupt, or write a register. In `Console` the receive threads, which loop, come
back for the next byte; the CLI need not; callouts come, as `Callout` shows; and a
guest that is interrupted for a byte reads it. In `Scsi` the guest reads the
status register when the interrupt is raised, as its interrupt handler does;
without it, no answer would be seen by anybody. In `Duart` the CPU thread begins
the callbacks that are due; that the transmit callback gets out of its waits, for
the elastic to drain and for a board to end what it runs, is not assumed: `TxEnds`
is about the behaviours in which it does (`WaitsEnd`). In `Elastic`, `esp->func`
returns; the one that may not, the match, is `ElasticMatch`, where holding text
back is part of the model. In `DiagProc` SystemC goes on (it is given quota): weak
fairness of the instruction step, stated through the program counter, which each
instruction changes but the loops in which the firmware waits for a byte.

## 4. What is proved

With TLAPS, for every value of the constants that satisfies the assumptions named
in the modules. A theorem is about `Spec` (`MatchSpec`), or about the safety part
of it (`Safety`, `ConSafety`, `IrqSafety`), which `Spec` implies.

| module | theorem | states |
|---|---|---|
| `ElasticProofs` | `TypeCorrect`, `Inductive` | the invariants `TypeOK` and `IInv` |
| | `NothingOrphaned`, `WakeupsKept`, `DeliveredInOrder` | `NoOrphan`, `NoLostWakeup`, `InOrder` |
| | `DrainLate` | the action property `DrainReturnsLate` |
| | `RefinesLog` | each step of the queues is a step of `MulticastLog` or a stutter |
| | `MatchInductive`, `MatchFresh`, `MatchFound` | of `ElasticMatch`: `MatchIInv`, `MatchIsFresh`, `FoundAfterBreak` |
| `CalloutProofs` | `TypeCorrect`, `Inductive` | `TypeOK`, `IInv` |
| | `OnSchedule` | `OnTime` |
| | `SleepsOut` | the action property `SleepNotShort` |
| | `ClockCounts` | of `Rtc`, for every setting of the registers: `RtcCounts` |
| `ConsoleProofs` | `LineOrder` | `InOrder`, of a line with any getters |
| | `ConsoleIsALine` | each step of `Console` is a step of `ElasticInput` or a stutter |
| | `ConsoleOrder` | `InOrder`, with the UART as one of the getters |
| | `ConsoleInductive`, `ReadInOrder`, `SentInOrder` | `ConIInv`, `ConsoleIn`, `ConsoleOut` |
| `IocProofs` | `TypeCorrect`, `Inductive` | of `RunControl`: `TypeOK`, `IInv` |
| | `ResetAlone`, `StepExact` | `ResetIsAlone`, the action property `StepIsExact` |
| | `WakeupsKept`, `TimeKept` | `NoLostWakeup`, `TimeConserved` |
| | `IrqTypeCorrect`, `IrqInductive`, `BestServed` | of `Irq`: `IrqTypeOK`, `IrqInv`, `HeadIsBest` |
| `DuartProofs` | `TypeCorrect`, `Inductive` | `TypeOK`, `IInv` |
| | `TxOrder`, `RxOrder`, `PitOnTime` | `TxInOrder`, `RxInOrder`, the action property `PitExact` |
| `ScsiProofs` | `TypeCorrect`, `ScsiInductive` | `TypeOK`, `IInv` |
| | `IntAgrees`, `MediaAreTrue` | `IntIsIrq`, `MediaIsTrue` |
| | `ServesTheGuest` | the action property `ServesWhatIsWritten` |
| `DiagProofs` | `WordArithmetic` | what the instructions compute with all words of two octets |
| | `ArithmeticHolds` | `Arithmetic` |
| | `InterruptUndone` | an interrupt and its return leave no trace |

Each inductive invariant was checked with TLC, on the instance of the run, before
it was proved.

### From which assumptions

* `ElasticAssumption`: those who leave are subscribers, and the bound is a number.
* `MatchAssumption`: patterns and chunks are sequences, of any bytes, and not empty
  (`elastic_put` returns at length 0; an empty pattern never matches).
* `IrqAssumption`: levels 1 to 7, priorities are numbers, "no vector" is not a
  vector.
* `CalloutAssumption`: periods and durations are positive, delays not negative, and
  the costs of instructions, which are positive, have a maximum: an instruction
  does not take arbitrarily long. Without it there is no bound to how late a
  callout can be.
* `RtcAssumption`: the registers of the clock chip hold an instant of a year of 365
  days (`Clock`), as `ioc_rtc_setclock` leaves them on any day but the 29th of
  February: from there the chip, which has no leap years, goes to the 1st of March
  as well, and the theorem does not speak of it.
* `InputAssumption` and `ConsoleAssumption`: chunks and requests are not empty;
  the UART's thread asks for one byte (`iop_uart.c`, the `1` of its
  `elastic_get`). The commands of the guest are what its program writes: it
  switches the receiver off when it loops back, and breaks only in loopback. Of a
  break outside of loopback section 5 says what happens.
* `CpuAssumption`: `iop step` asks for any number of instructions; `Endless`, which
  stands for the 2^60 of `iop start` and of `iop step 0` and is not counted down,
  is more than any other.
* `DuartAssumption`: the loads of the timer are less than `Width`, 2^16.
* `DiagProcAssumption`: what the instance computes with are octets.
* `DevAssumption` and `ScsiAssumption`: no record of the tape is longer than what
  the guest asks for, nor as long as the word that marks the end; the sectors the
  guest reads and writes exist; it has room for the page of the mode it asks for.
  The code asserts the first and the last and dereferences the second.

The bounds (`Max...`) are numbers, and nothing else: no proof uses their size.

### Along which argument

*Elastic.* `InOrder` compares whole sequences and is not inductive: it does not
say which chunk is at which place of which part. `IInv` says it: with `Done(s)`
the last chunk whose delivery is over and `Taken(s)` the last one taken from the
queue, the i-th element of each of `delivered`, `cur` and `chunks` is that number
plus i, and the lengths add up to what was put for the subscriber (`StreamInv`);
the backlog is the newest chunks, and empty while somebody subscribes
(`BacklogInv`), which is why the first subscriber may take all of it and the next
none; the subscriber list, `die` and the steps of `elastic_unsubscribe` agree
(`LifeInv`), which is why a thread that ends has an empty queue and one that
sleeps has a signal to come. Each action has a lemma for the conjuncts it
disturbs; all that touch one subscriber only use `Others`.

*Text matching.* That a match is fresh and that an occurrence after a break is
found are both about whole occurrences; the loop of `elastic_match_txfunc` only
has an index. `IndexInv` relates the two: the last `idx` bytes, all from after
the arming, are the first `idx` of the pattern, so a full index is a whole
occurrence; and where the text from a break to its end is the beginning of the
pattern, `idx` is its length, so an occurrence that begins there is not missed.
The action handles a chunk at once, so the proof goes through the loop: the fold
is a function from the bytes done to a state (`ScanIs`), one byte keeps `Scan`
(`ByteStep`), and so does the chunk (`ScanChunk`); both by induction over the
length. `Scan` holds in the middle of a chunk, where a match may be found long
before its end: hence the "rest of one chunk" in `MatchIsFresh`.

*Interrupts.* The invariant says that the list holds exactly the flagged vectors
in the order (priority, time of the raise). An insertion at a `Place` splits the
list in what comes before and what does not; a removal keeps the order of the
rest. The head is then the best and `irq_level` its level.

*Callouts.* The queue is ordered by time and has nothing twice (`QueueInv`); an
insertion at a `Place` keeps both, so that all else is said of the set of what is
queued or being run. `OnTime` needs to know how late what can be where: nothing is
overdue when the clock jumps, it is by the jump when the next instruction begins,
and by that instruction as well when `callout_poll` looks (`Earliest`). A jump goes
no farther than to the timer callback, which is always there, so that it is never
longer than its period (`TimeInv`); what a thread asks for while the CPU is about
to jump is at worst that late. `SleepNotShort` needs that the condition
`callout_func_sleep` signals is waited for by one thread only: who has a struct
`sleeps` has it alone (`PoolInv`), and who waits has one callout for it, with its
own time (`WaitInv`, which rests on `PoolInv` and on nothing being queued twice:
so no callout is left for a struct that has gone back to the pool).

*Clock chip.* `RtcCounts` is about one step from any of the 31 536 000 000 instants
of a year. A register of two decimal digits that is incremented keeps them and
shows one more, and is beyond its last value exactly when it showed it (`CarryIs`).
`Reached` is the first register that does not wrap: those below it are at their
last values and become 0, those above it stay. In each of the six cases this
leaves sums to compare: of milliseconds, of minutes, and at midnight of days, where
the table of the days before each month goes up by the length of the month
(`MonthIs`). The settings are closed under the step, so that the year can be gone
through.

*Input and console.* `InOrder` of the line is inductive with the types: what an
`elastic_get` takes is the beginning of the flattened chunks, in one chunk or over
several, and the chunks it leaves are the rest. This needs that flattening
distributes over concatenation and over a first element, which is recursion over
data (see below). The UART is then a getter like any other: `Thread` takes a byte
only by `Get`, so that `ConsoleIsALine` brings `InOrder` along. What the guest has
read follows from where each byte taken is (`LineOK`): read, held, held back, or
dropped by a command, at exactly one of these places, and in the order of the
line; the registers are in step with the mode (`RegsOK`). `ConsoleOut` is
inductive with these: outside of loopback a character waits for its callout in the
holding register or has been put.

*Run control.* Three facts carry everything. The CPU is `running` while it is
within an instruction and not while it waits; the board has an access of it
exactly while the instruction waits for one (`xact # "none" <=> mpc = "bus"`);
and whoever sleeps on the one condition has something to come that broadcasts it
(`NoLostWakeup`). `ResetIsAlone` is inductive with these, because the CPU comes to
rest only between instructions. For `StepIsExact` the sum of executed instructions
and remaining quota is what was asked for, plus one between an instruction and its
accounting (`StepInv`), until a breakpoint takes the quota away.

*DUART.* The receive thread changes the status register under the mutex and the
transmit callback does so without it, in two accesses: `rsr` and `csr` are the
copies between load and store. The invariant says what the copies may bring back:
never RXRDY for the thread, which stores only where there is no byte (`RxInv`),
while for the transmitter `TxData` says where each character is: put, in the shift
register, or written over by the next (`over`). That none is needs more: the guest
may switch the transmitter off and on with the callback of a character queued, and
TXRDY then comes too early (`hasty`). Until it has done so (`TxReady`) there is
one callback for the character in the shift register, and neither the status
register nor a copy of it says ready before it is done; so none is written over
and the callback finds its character, as it asserts. The hold for a second read
has one callback per byte as long as none is read twice or looped back (`looped`,
`HoldInv`); that it does not after that is finding 3. The timer is away from its
tick by what its counter says, 2^16 for a load of 0 (`PitInv`).

*SCSI.* A thread that wakes without a predicate does what the registers say.
`CtlInv` says that it is awake only for a command the guest waits for, with the
registers as written, and that there is no answer yet; a reset pulse breaks this
when the thread is awake already, and a second one before the callback of the
first, which then clears the registers the guest has written since. `abandoned`
records these, and the properties exclude them. The assertions of the drives on
the length of what they transfer are in the functions (`ok`): one that fails ends
the program, and `MediaIsTrue` says that none does. The tape is a file of words,
and the guest knows items. `Placed` says that the head is at the `Offset` of the
number of items read: at each such offset stands a mark or a framed record,
`ReadTape` brings that item and leaves the head at the next offset, and a failed
read leaves it behind the mark or at the end. The invariant says so of the drive
as it is and, once there is an answer, of what the guest is about to make of it
(`Seen`, `Failing`), so that reading the status register changes nothing. On the
disk each sector holds what was written last, or the data of the write under way,
whose octets in memory are the guest's (`RamInv`).

*8052.* `Becomes` says what an instruction makes of A, B and the carry and that
nothing else matters to the next one; each instruction is composed of the
operations that set one of them (`SetAIs`, `SetBIs`, `SetCarryIs`, `SkipIs`). The
programs follow by composition, and leave equations between octets: what one
instruction carries over is what the other is short of. The run tries six octets,
the theorem holds for all 256 and for every content of the program memory.
`InterruptUndone` follows the two octets of the program counter up and down the
stack (`PushIs`, `PopIs`), which goes around in the memory; with RETI leaving the
level the interrupt entered (`LevelIs`), it holds of an interrupt within another
as well. `Transparent` adds that the handler of the firmware saves what it uses.

*Induction.* What a recursive definition of the community modules computes
(`FlattenSeq`, `FoldLeft`) is proved by induction over the length all the same:
`SetInduction` in `SequenceLemmas` is the induction principle for a subset of the
numbers, a first-order statement that follows from the library's well-foundedness,
and needs no operator as a parameter.

### What TLC alone checks

* everything under fairness, which TLAPS does not reach: `AllDelivered`,
  `DrainReturns`, the fairness part of `ImplementsLog`, `AllGot`, `TxGoesOn`,
  `WaitReturns`, `LineFollows`, `SleepEnds`, `CliReturns`, `QuotaSimulated`,
  `TxEnds`, `Answered`;
* the diag processor (`BytesTaken`, `Transparent`, `DownloadWhole`,
  `WaitMeansDone`, `UploadWhole`): they are about what the firmware does, octet by
  octet, and hold of no other program; it is a program to execute rather than to
  reason about.

## 5. Findings

1. `elastic_free`: `elastic_unsubscribe` (`Infra/elastic.c:154`) signals the
   condition of a subscriber after letting go of the mutex, when its thread may
   have destroyed and freed it.
2. `sc_exit`: `sc quota exit` (`Chassis/sc.c:267`) is not noticed by a SystemC
   thread that already sleeps with an empty quota.
3. `duart_reads`: the hold that lets the kernel read a byte twice
   (`Iop/iop_duart.c:298`) can be released by the callback of an earlier read.

Seen while reading or modelling, and not contradicting anything the repository
says:

* *Elastic.* The search for `aab` misses it in `aaab` (`elastic_match.c:67`).
* *Interrupts.* Vectors of level 1 sort before those of level 6 (`iop.h:137`);
  `sreg8` keeps a stale level after a change and back (`iop_main.c:350`).
* *Time.* Clock ticks can be lost (`iop_rtc.c:121`). The chip has no leap years;
  the tick flag in register 0x0e is never seen and the status bit in register
  0x14 never set, so that a guest cannot tell a date it has read while it was
  carried; a month of 0 aborts at midnight.
* *Run control.* `iop step 0` starts 2^60 instructions and waits for them
  (`iop_main.c:98`). `sc quota add` before the launch is overwritten by the launch
  (`sc.c:221`). `ioc stop` while the CPU is in an access of the board and the
  simulation has no quota left waits for ever, on the thread that could add some
  (`iop_sc.c:59`).
* *DUART.* Switching the transmitter off leaves the callback of a character
  queued, and switching it on says TXRDY at once (`iop_duart.c:372`): a character
  written then replaces the one in the shift register, and the second of two
  callbacks fails the assertion that there is one (236). A byte that is held back
  because the receiver is off is not announced when it is switched on
  (`iop_duart.c:363`).
* *Console.* Reading the data register wakes nobody: a byte held back waits for
  the next register write. A break in loopback that is begun with the shift
  register full leaves the transmitter hanging. A break sent outside loopback
  makes it transmit its last character again (`iop_uart.c:211`). The end of a
  break raises TXRDY though the transmitter is off, and a receive interrupt stays
  raised when the receiver is switched off and on.
* *SCSI.* A reset pulse between a command and its thread loses the command and
  answers it twice; the next command may then be executed as TEST UNIT READY and
  answered as done, a write with nothing written (`iop_scsi_ctl.c:262`). READ_6
  and WRITE_6 with a sector count of 0 transfer nothing, where the standard has
  256. Mounting another tape keeps the head (`iop_scsi_dev.c:510`).
* *8052.* `XRL A,#data` executes an AND (opcode 0x64); `DEC direct` leaves a 0,
  since the -1 it passes on is taken for a read (`i8052_emul.c:340`); MCS51_Rx
  stores a byte that SM2 suppresses; P3 read as a register gives 999 modulo 256.
* *Diag processors.* A fast download ignores a pending byte and a disabled
  receiver. It may begin while a slow one waits for its checksum to be read, or
  before the idle loop has seen that one has come, and part of it is then executed
  with the rest of the other (`diagproc.c:269`): nothing but the 100 ms of
  `experiment.c:110` keeps two downloads apart. Sent to ALL, the data overwrite an
  experiment that loops; sent to the board they hang the bus thread
  (`diagproc.c:270`). A download of
  255 octets overflows `dl_cnt` (209), and a board that is reset in the middle of
  one keeps it. `diprocs[].status` is written after the mutex is released (449).
  `diproc wait` for a board that is disabled never ends. The firmware's timer tick
  and the reset pin change the processor outside its mutex.
* *Back ends.* In `elastic_fd.c` the receive thread of a connection that ends
  unsubscribes, closes the descriptor and frees `efp` while the subscriber's
  thread, which `elastic_unsubscribe` does not wait for, may still deliver what it
  has queued; `elastic_fd_stop` closes before it unsubscribes. The acceptor in
  `elastic_tcp.c` keeps `fd2` in one place for all its connections: what is left
  of the output of one goes to the next.

## 6. Not modelled, and why

Per component, in `PROJECT.json`. The mapped lines are an eighth of the
implementation. Nearly half of it is one table of PROM images (`firmware.c`,
13,687 lines), of which `Firmware` has the part that the other modules execute.
Of the rest, not modelled is what only observes (tracing, debugging, the decoding
of system calls), what is sequential data processing away from the running system
(DFS, netlists, trace analysis, string buffers), the 68k core, which is another
project, and the SystemC circuits, which are generated. `Diag/diproc_exp.c`
recognises experiments by their length and first octet and does their work, bit
permutations into the memories of the simulated boards, in one go: it has neither
state nor concurrency of its own. Dummy boards (`dummy_diproc.c`) are left out:
the model has a board with firmware in their place.

Within modelled components: pacing (`cps`, `baud`), mounting, DMA addresses, the
modem channel (the diag bus channel without a receive thread), several boards on
the bus, and the guest program. The guests are freer than any program and yet
their guards are assumptions about it, most of which no comment in the code
states: that of the DUART reads a byte when RXRDY is set and writes one when TXRDY
is, and is otherwise free; that of the console does the same, switches the receiver
off when it loops back and breaks in loopback only (`Careful`); that of the SCSI
controllers writes one command after the answer to the last, of the commands in
`Cdbs`, asks for the sense when a read has failed and spaces back over marks only
(`Sensible`), but may reset at any time. On the diag bus, the words of a command
are put at once and commands follow each other: words of the IOC and the CLI that
mix are not modelled, nor is `diproc wait` for a status that is named, which may
never come. The 8052 model stops where the emulator aborts.

Not to be had from these models: data races on plain memory beyond those that
are two actions, and what a condition variable without predicate does under
wakeups without a signal.

## 7. Plan

In the order of what matters:

1. done: the elastic (most shared, most concurrent), its abstract log and its
   proofs; interrupts and their proofs; callouts and the clock chip; run control
   with the IOC bus; DUART and console; SCSI with tape and disk; the 8052 with
   its firmware, the bus thread and the clients of the diag bus.
2. theorems: done for the elastic, its log, the line and the console, interrupts,
   text matching, callouts and the clock chip, run control, DUART, SCSI and the
   arithmetic and the interrupts of the 8052. Left: the remaining instructions,
   against the data sheet.
3. `elastic_fd` and `elastic_tcp`: connections as subscribers of `Elastic`, with
   the descriptors they share and close (the hazards are above).
4. pegs, with the list walked while its mutex is released; dummy boards beside a
   real one, and the DUART and the CLI competing for the replies.
5. abstract specifications for the receive path (a byte stream with one slot)
   and for callouts (a set of deadlines), with refinements.
