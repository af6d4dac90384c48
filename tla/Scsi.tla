-------------------------------- MODULE Scsi --------------------------------
(***************************************************************************)
(* A SCSI controller (Iop/iop_scsi_ctl.c) with a tape or a disk drive.     *)
(* The guest writes a command to the registers; a thread of its own        *)
(* executes it, under sp->mtx from its wakeup to its next wait, and raises *)
(* the interrupt.  A reset pulse is answered by a callback on the CPU      *)
(* thread, which rewinds the tape.  The CLI may patch the disk.            *)
(***************************************************************************)
EXTENDS ScsiDev

CONSTANTS
  Cdbs,        \* Cdbs[unit]: the command descriptor blocks the guest writes
  MaxResets,   \* bound: how often the guest resets the controller
  MaxWrites    \* bound: how often it writes to the disk

\* The guest reads and writes sectors that the disk has, and has room for the
\* page of the mode it asks for.  Its reset is not one of the drives' functions.
ASSUME ScsiAssumption ==
  /\ MaxResets \in Nat /\ MaxWrites \in Nat
  /\ Cdbs \in [{"tape", "disk"} -> SUBSET [f : STRING, lba : Nat, n : Nat]]
  /\ \A kind \in {"tape", "disk"} : \A c \in Cdbs[kind] : c.f # "reset"
  /\ \A c \in Cdbs["disk"] :
       /\ c.f \in {"read", "write"} => c.lba + c.n <= NSectors
       /\ c.f = "page" => c.n > 0

VARIABLES
  unit,        \* the one drive of the controller: "tape" or "disk"
  regs,        \* [cmd, cdb, count, status, int]
  irq,         \* the vector is raised
  tpc,         \* scsi_thread: "wait", "woken", or "aborted", and the program
  resets,      \* callbacks scsi_ctrl_reset that are queued
  drive,       \* the drive and the memory of the guest, see ScsiDev
  guest,       \* "idle", "cdb", "count": which it has written, "busy", "reset"
  op,          \* the command it has written, or is writing
  failed,      \* its last read of the tape has failed, and it asks why
  got,         \* history: the items it has read from the start of the tape
  kept,        \* history: kept[s], what sector s may hold by what it knows
  nwrites,     \* history: its writes to the disk; the n-th writes n
  nresets,     \* history: its resets
  abandoned    \* history: of these, one before the thread had taken a command,
               \* or before the callback of the last one

history == <<got, kept, nwrites, nresets, abandoned>>
guestvars == <<guest, op, failed>>
vars == <<unit, regs, irq, tpc, resets, drive, guestvars, history>>

\* All registers are 0; the operation code 0 is TEST UNIT READY.
NoCdb == [f |-> "ready", lba |-> 0, n |-> 0]
Reset == [NoCdb EXCEPT !.f = "reset"]
NoRegs == [cmd |-> "reset", cdb |-> NoCdb, count |-> 0, status |-> 0, int |-> FALSE]

Init ==
  /\ unit \in {"tape", "disk"}
  /\ regs = NoRegs /\ irq = FALSE /\ tpc = "wait" /\ resets = 0
  /\ drive = [head |-> 0, sense |-> 0, ram |-> << >>,
              map |-> [s \in 1..NSectors |-> 0]]
  /\ guest = "idle" /\ op = NoCdb /\ failed = FALSE
  /\ got = << >> /\ kept = [s \in 1..NSectors |-> {0}] /\ nwrites = 0
  /\ nresets = 0 /\ abandoned = FALSE

-----------------------------------------------------------------------------

ResetChip ==
  /\ regs' = [NoRegs EXCEPT !.status = 1, !.int = TRUE]
  /\ irq' = TRUE /\ tpc' = "wait"
  /\ UNCHANGED drive

Funcs == IF unit = "tape" THEN TapeFuncs ELSE DiskFuncs

Answer == IF unit = "tape" THEN TapeFunc(drive, regs.cdb, regs.count)
                           ELSE DiskFunc(drive, regs.cdb, regs.count)

\* Of what the drive has no function for nothing is executed.
SelectAndTransfer ==
  IF regs.cdb.f \in Funcs
    THEN /\ drive' = Answer.drive
         /\ regs' = [regs EXCEPT !.int = TRUE,
                       !.count = IF Answer.ret < 0 THEN 0 ELSE Answer.ret,
                       !.status = IF Answer.ret < 0 THEN 66 ELSE 22]
         /\ irq' = TRUE
         /\ tpc' = IF Answer.ok THEN "wait" ELSE "aborted"
    ELSE /\ regs' = [regs EXCEPT !.int = TRUE, !.status = 66]
         /\ irq' = TRUE /\ tpc' = "wait"
         /\ UNCHANGED drive

\* scsi_thread, between two waits
Serve ==
  /\ tpc = "woken"
  /\ IF regs.cmd = "reset" THEN ResetChip ELSE SelectAndTransfer
  /\ UNCHANGED <<unit, resets, guestvars, history>>

\* that wakes the thread
ResetCbWakes ==
  /\ tpc # "aborted" /\ resets > 0
  /\ resets' = resets - 1
  /\ regs' = [NoRegs EXCEPT !.int = TRUE]
  /\ irq' = TRUE
  /\ drive' = [drive EXCEPT !.head = 0]
  /\ tpc' = "woken"
  /\ UNCHANGED <<unit, guestvars, history>>

\* that does not raise the interrupt
ResetCbSilent ==
  /\ tpc # "aborted" /\ resets > 0
  /\ resets' = resets - 1
  /\ regs' = [NoRegs EXCEPT !.int = TRUE]
  /\ drive' = [drive EXCEPT !.head = 0]
  /\ UNCHANGED <<unit, irq, tpc, guestvars, history>>

\* scsi_ctrl_reset
ResetCb ==
  /\ tpc # "aborted" /\ resets > 0
  /\ resets' = resets - 1
  /\ regs' = [NoRegs EXCEPT !.int = TRUE]
  /\ irq' = TRUE
  /\ drive' = [drive EXCEPT !.head = 0]
  /\ UNCHANGED <<unit, tpc, guestvars, history>>

-----------------------------------------------------------------------------

\* scsi_ctrl_post_write, of the command descriptor block, the count and the
\* command register.  The guest spaces backwards over a tape mark only, asks
\* for the sense when a read has failed, and has its data in memory before it
\* asks for a write.
Sensible(c) ==
  /\ failed => c.f = "sense"
  /\ c.f = "space" => got # << >> /\ Last(got) = << >>
  /\ c.f = "write" => nwrites < MaxWrites

WriteCdb(c) ==
  /\ tpc # "aborted" /\ guest = "idle" /\ Sensible(c)
  /\ regs' = [regs EXCEPT !.cdb = c]
  /\ op' = c /\ guest' = "cdb"
  /\ IF c.f = "write"
       THEN /\ drive' = [drive EXCEPT !.ram = [i \in 1..c.n |-> nwrites + 1]]
            /\ nwrites' = nwrites + 1
       ELSE UNCHANGED <<drive, nwrites>>
  /\ UNCHANGED <<unit, irq, tpc, resets, failed, got, kept, nresets, abandoned>>

Asked == IF unit = "tape" THEN MaxLen ELSE op.n

WriteCount ==
  /\ tpc # "aborted" /\ guest = "cdb"
  /\ regs' = [regs EXCEPT !.count = Asked]
  /\ guest' = "count"
  /\ UNCHANGED <<unit, irq, tpc, resets, drive, op, failed, history>>

\* that does not signal
WriteCmdSilent(c) ==
  /\ regs' = [regs EXCEPT !.cmd = c]
  /\ guest' = "busy"
  /\ UNCHANGED <<unit, irq, tpc, resets, drive, failed, history>>

WriteCmd(c) ==
  /\ regs' = [regs EXCEPT !.cmd = c]
  /\ tpc' = IF tpc = "wait" THEN "woken" ELSE tpc
  /\ guest' = "busy"
  /\ UNCHANGED <<unit, irq, resets, drive, failed, history>>

Select == tpc # "aborted" /\ guest = "count" /\ WriteCmd("select") /\ UNCHANGED op

SelectReset ==
  /\ tpc # "aborted" /\ guest = "idle" /\ ~failed
  /\ WriteCmd("reset") /\ op' = Reset

\* scsi_ctrl_pre_read of the status, when the interrupt is raised.  A read
\* that fails is followed by a request for the sense, which tells why.  The
\* guest takes what it has read from memory; one that has abandoned a command
\* does not know where the tape is.
Seen ==
  IF guest = "reset" \/ abandoned THEN << >>
  ELSE IF guest # "busy" \/ regs.status # 22 THEN got
  ELSE CASE op.f = "rewind" -> << >>
         [] op.f = "read" -> Append(got, drive.ram)
         [] op.f = "space" -> Front(got)
         [] op.f = "sense" /\ failed /\ drive.ram = << AtMark >> -> Append(got, << >>)
         [] OTHER -> got

Failing ==
  IF guest = "busy" THEN unit = "tape" /\ op.f = "read" /\ regs.status = 66
  ELSE failed /\ guest # "reset"

Written(s) == op.f = "write" /\ guest = "busy" /\ s \in (op.lba + 1)..(op.lba + op.n)

ReadStatus ==
  /\ tpc # "aborted" /\ irq
  /\ irq' = FALSE /\ regs' = [regs EXCEPT !.int = FALSE]
  /\ guest' = IF guest \in {"busy", "reset"} THEN "idle" ELSE guest
  /\ failed' = Failing
  /\ got' = IF unit = "tape" THEN Seen ELSE got
  /\ kept' = [s \in DOMAIN kept |->
                IF Written(s) /\ regs.status = 22 THEN {nwrites} ELSE kept[s]]
  /\ drive' = IF op.f = "write" THEN drive ELSE [drive EXCEPT !.ram = << >>]
  /\ UNCHANGED <<unit, tpc, resets, op, nwrites, nresets, abandoned>>

\* scsi_ctl_post_write: the reset bit goes on and off, at any time.  Of a write
\* it breaks off the guest does not know what has become.
PulseReset ==
  /\ tpc # "aborted" /\ nresets < MaxResets
  /\ irq' = FALSE
  /\ resets' = resets + 1 /\ nresets' = nresets + 1
  /\ guest' = "reset" /\ failed' = FALSE
  /\ kept' = [s \in DOMAIN kept |->
                IF Written(s) THEN kept[s] \cup {nwrites} ELSE kept[s]]
  /\ abandoned' = (abandoned \/ tpc = "woken" \/ resets > 0)
  /\ UNCHANGED <<unit, regs, tpc, drive, op, got, nwrites>>

\* cli_scsi_disk_patch takes no mutex: whoever types it knows that the guest
\* is not at the disk.
Patch(s) ==
  /\ unit = "disk" /\ tpc # "aborted" /\ guest = "idle"
  /\ drive' = [drive EXCEPT !.map[s] = -1]
  /\ kept' = [kept EXCEPT ![s] = {-1}]
  /\ UNCHANGED <<unit, regs, irq, tpc, resets, guestvars, got, nwrites, nresets,
                 abandoned>>

Next ==
  \/ Serve \/ ResetCb
  \/ \E c \in Cdbs[unit] : WriteCdb(c)
  \/ WriteCount \/ Select \/ SelectReset \/ ReadStatus \/ PulseReset
  \/ \E s \in 1..NSectors : Patch(s)

\* The thread and the callback run in the end, and the guest takes its
\* interrupts.
Spec ==
  /\ Init /\ [][Next]_vars
  /\ WF_vars(Serve) /\ WF_vars(ResetCb) /\ WF_vars(ReadStatus)

-----------------------------------------------------------------------------

Kinds == {"tape", "disk"}

Memory == Seq(Int)

Sectors == [1..NSectors -> Int]

Drive == [head : Int, sense : Int, ram : Memory, map : Sectors]

\* the command descriptor blocks the registers may hold
Known(u) == Cdbs[u] \cup {NoCdb}

RegsOf(u) ==
  [cmd : {"reset", "select"}, cdb : Known(u), count : Int, status : Nat, int : BOOLEAN]

TypeOK ==
  /\ unit \in Kinds /\ regs \in RegsOf(unit)
  /\ irq \in BOOLEAN /\ tpc \in {"wait", "woken", "aborted"} /\ resets \in Nat
  /\ drive \in Drive
  /\ guest \in {"idle", "cdb", "count", "busy", "reset"}
  /\ op \in Known(unit) \cup {Reset} /\ failed \in BOOLEAN
  /\ got \in Seq(Seq(Int)) /\ kept \in [1..NSectors -> SUBSET Int]
  /\ nwrites \in Nat /\ nresets \in Nat /\ abandoned \in BOOLEAN

\* The interrupt line and the interrupt bit of the auxiliary status agree,
\* except from a reset pulse, which lowers the line only, to its callback.
IntIsIrq == resets = 0 => (irq <=> regs.int)

\* The guest reads the items of the tape in their order, without losing or
\* repeating one, and the head is between two of them, through resets,
\* rewinds, marks and the spacing back over them.
Offset(k) == Len(FlattenSeq([i \in 1..k |-> Word(Items[i])]))

TapeInOrder ==
  guest = "idle" /\ ~ failed =>
    /\ got = SubSeq(Items, 1, Len(got))
    /\ drive.head = Offset(Len(got))

\* A sector of the disk holds what was written to it last, by the guest or the
\* CLI, and a read that is answered has brought what the sectors hold.  Only of
\* a write that the guest has broken off by a reset it has to reckon with both.
DiskKeeps ==
  /\ \A s \in DOMAIN kept :
       drive.map[s] \in kept[s] \cup (IF Written(s) THEN {nwrites} ELSE {})
  /\ guest = "busy" /\ irq /\ op.f = "read" /\ regs.status = 22 =>
       drive.ram = SubSeq(drive.map, op.lba + 1, op.lba + op.n)

\* What the drives hold and what the guest believes they do agree, and no
\* assertion of theirs fails, unless the guest has reset the controller before
\* the thread had taken a command, or twice before the first of two callbacks:
\* then the next command may be lost although it is answered, and the head be
\* where nobody expects it.
MediaIsTrue ==
  ~ abandoned =>
    /\ tpc # "aborted"
    /\ unit = "tape" => TapeInOrder
    /\ unit = "disk" => DiskKeeps

\* The thread executes what the guest has written, once, and never when it has
\* written nothing: although a reset clears the registers and the thread is
\* woken without a predicate.  A guest that resets the controller before the
\* thread has taken a command, or twice in a row, can lose this.
ServesWhatIsWritten ==
  [][Serve /\ ~ abandoned =>
       guest = "busy" /\ (op.f = "reset" \/ (regs.cdb = op /\ regs.count = Asked))]_vars

\* Every command and every reset is answered by an interrupt, with the same
\* exception.
Answered == (guest \in {"busy", "reset"}) ~> (guest = "idle" \/ abandoned)

-----------------------------------------------------------------------------
\* The inductive invariant.  The thread is awake for a command the guest waits
\* for, with the registers as it has written them, and the interrupt is raised
\* only for an answer it has yet to see.
CtlInv ==
  ~ abandoned =>
    /\ irq => tpc # "woken" /\ guest \in {"busy", "reset"}
    /\ resets > 0 => resets = 1 /\ guest = "reset" /\ ~ irq /\ tpc # "woken"
    /\ tpc = "woken" => guest = "busy"
    /\ guest = "count" => regs.count = Asked
    /\ guest \in {"cdb", "count"} => regs.cdb = op
    /\ tpc = "woken" /\ op.f = "reset" => regs.cmd = "reset"
    /\ tpc = "woken" /\ op.f # "reset" =>
         regs.cmd = "select" /\ regs.cdb = op /\ regs.count = Asked

\* The drive never writes anything but the data the guest has brought for it,
\* whatever has been abandoned: the registers hold its command or none.
RamInv ==
  /\ guest \in {"cdb", "count"} \/ regs.cmd = "select" => regs.cdb \in {op, NoCdb}
  /\ op.f = "write" => drive.ram = [i \in 1..op.n |-> nwrites]

\* The head is behind the items the guest has read, or behind the mark, or at
\* the end, that its last read has failed at: so it is now, and so it will be
\* when the guest has seen the answer that is there for it.
Placed(d, g, f) ==
  /\ Len(g) \in 0..Len(Items) /\ g = SubSeq(Items, 1, Len(g))
  /\ ~ f => d.head = Offset(Len(g))
  /\ f => \/ /\ d.sense = AtMark /\ Len(g) < Len(Items)
             /\ Items[Len(g) + 1] = << >> /\ d.head = Offset(Len(g) + 1)
          \/ d.sense = AtEom /\ d.head = Offset(Len(g))

TapeInv ==
  ~ abandoned /\ unit = "tape" =>
    /\ tpc # "aborted"
    /\ guest \in {"idle", "cdb", "count"} \/ tpc = "woken" => Placed(drive, got, failed)
    /\ guest = "busy" /\ irq => Placed(drive, Seen, Failing)
    /\ guest = "reset" /\ irq => drive.head = 0
    /\ guest \in {"cdb", "count"} \/ tpc = "woken" =>
         /\ failed => op.f = "sense"
         /\ op.f = "space" => got # << >> /\ Last(got) = << >>

\* A sector holds what it is believed to hold, or what was just written.
DiskInv ==
  ~ abandoned /\ unit = "disk" =>
    /\ tpc # "aborted"
    /\ DiskKeeps
    /\ guest = "busy" /\ irq =>
         \A s \in DOMAIN kept : Written(s) => regs.status = 22 /\ drive.map[s] = nwrites

IInv == TypeOK /\ IntIsIrq /\ CtlInv /\ RamInv /\ TapeInv /\ DiskInv
=============================================================================
