-------------------------------- MODULE Irq --------------------------------
(***************************************************************************)
(* The interrupt logic of the I/O processor (Iop/iop_interrupt.c) and the  *)
(* way its CPU looks at it (main_ioc in Iop/iop_main.c).                   *)
(*                                                                         *)
(* Any device, on any thread, raises and lowers its vectors under irq_mtx; *)
(* the pending ones are kept in a list ordered by priority, whose head     *)
(* decides irq_level.  The CPU thread reads irq_level three times per      *)
(* instruction, each time without the mutex, so each is an action here.    *)
(***************************************************************************)
EXTENDS Naturals, Sequences

CONSTANTS
  Vectors,     \* INTERRUPT_TABLE: the interrupt vectors
  level,       \* level[v] in 1..7
  priority,    \* priority[v], the smallest first
  None,        \* "no vector": irq_getvector returns 0
  MaxRaise     \* bound: how often a vector that is not pending is raised

ASSUME IrqAssumption ==
  /\ level \in [Vectors -> 1..7]
  /\ priority \in [Vectors -> Nat]
  /\ None \notin Vectors
  /\ MaxRaise \in Nat

VARIABLES
  pending,     \* the list of pending vectors
  flag,        \* vp->pending of each vector
  irq_level,
  cpc,         \* where the CPU loop is
  last,        \* last_irq_level: what m68k_set_irq was told
  sreg,        \* the complement of the level the guest reads in sreg8
  acked,       \* what the last interrupt acknowledge cycle read
  nraise,      \* history: raises so far
  age          \* history: which of them made each vector pending, else 0

irqvars == <<pending, flag, irq_level, cpc, last, sreg, acked, nraise, age>>

CpuPc == {"compare", "latch", "sreg", "execute"}

LevelOf(list) == IF list = << >> THEN 0 ELSE level[list[1]]

InsertBefore(list, p, v) ==
  [i \in 1..(Len(list) + 1) |->
     IF i < p THEN list[i] ELSE IF i = p THEN v ELSE list[i - 1]]

Without(list, p) ==
  [i \in 1..(Len(list) - 1) |-> IF i < p THEN list[i] ELSE list[i + 1]]

IrqInit ==
  /\ pending = << >>
  /\ flag = [v \in Vectors |-> FALSE]
  /\ irq_level = 0
  /\ cpc = "compare" /\ last = 0 /\ sreg = 7 /\ acked = None
  /\ nraise = 0 /\ age = [v \in Vectors |-> 0]

-----------------------------------------------------------------------------
PlaceAmongEquals(v, p) ==                                    \* mutant
  /\ \A i \in 1..(p - 1) : priority[pending[i]] < priority[v]
  /\ p <= Len(pending) => priority[pending[p]] >= priority[v]

(* The scan of irq_raise stops before the first vector of a greater         *)
(* priority number, or at the end of the list.                              *)
Place(v, p) ==
  /\ \A i \in 1..(p - 1) : priority[pending[i]] <= priority[v]
  /\ p <= Len(pending) => priority[pending[p]] > priority[v]

(* irq_raise; raising a pending vector changes nothing.                     *)
Raise(v) ==
  /\ ~flag[v]
  /\ nraise < MaxRaise
  /\ flag' = [flag EXCEPT ![v] = TRUE]
  /\ \E p \in 1..(Len(pending) + 1) :
       /\ Place(v, p)
       /\ pending' = InsertBefore(pending, p, v)
       /\ irq_level' = LevelOf(pending')
  /\ nraise' = nraise + 1
  /\ age' = [age EXCEPT ![v] = nraise + 1]
  /\ UNCHANGED <<cpc, last, sreg, acked>>

(* irq_lower, with set_new_level; lowering what is not pending changes      *)
(* nothing.                                                                 *)
Lower(v) ==
  /\ flag[v]
  /\ flag' = [flag EXCEPT ![v] = FALSE]
  /\ \E p \in 1..Len(pending) :
       /\ pending[p] = v
       /\ pending' = Without(pending, p)
       /\ irq_level' = LevelOf(pending')
  /\ age' = [age EXCEPT ![v] = 0]
  /\ UNCHANGED <<cpc, last, sreg, acked, nraise>>

-----------------------------------------------------------------------------
(* main_ioc, before it lets the CPU execute an instruction.                 *)
CompareUp ==                                                 \* mutant
  /\ cpc = "compare"
  /\ cpc' = IF irq_level > last THEN "latch" ELSE "execute"
  /\ UNCHANGED <<pending, flag, irq_level, last, sreg, acked, nraise, age>>

Compare ==
  /\ cpc = "compare"
  /\ cpc' = IF irq_level # last THEN "latch" ELSE "execute"
  /\ UNCHANGED <<pending, flag, irq_level, last, sreg, acked, nraise, age>>

Latch ==
  /\ cpc = "latch"
  /\ last' = irq_level
  /\ cpc' = "sreg"
  /\ UNCHANGED <<pending, flag, irq_level, sreg, acked, nraise, age>>

Sreg ==
  /\ cpc = "sreg"
  /\ sreg' = 7 - irq_level
  /\ cpc' = "execute"
  /\ UNCHANGED <<pending, flag, irq_level, last, acked, nraise, age>>

(* m68k_execute(1): an instruction, or, when the CPU takes the interrupt    *)
(* m68k_set_irq announced, the acknowledge cycle that calls irq_getvector.  *)
IrqExecute ==
  /\ cpc = "execute"
  /\ cpc' = "compare"
  /\ UNCHANGED <<pending, flag, irq_level, last, sreg, acked, nraise, age>>

GetVector == IF pending = << >> THEN None ELSE pending[1]

Acknowledge ==
  /\ cpc = "execute" /\ last # 0
  /\ acked' = GetVector
  /\ cpc' = "compare"
  /\ UNCHANGED <<pending, flag, irq_level, last, sreg, nraise, age>>

IrqCpu == Compare \/ Latch \/ Sreg \/ IrqExecute \/ Acknowledge

IrqNext == IrqCpu \/ \E v \in Vectors : Raise(v) \/ Lower(v)

IrqSafety == IrqInit /\ [][IrqNext]_irqvars

(* The CPU runs; no device has to raise or lower anything.                  *)
IrqSpec == IrqSafety /\ WF_irqvars(IrqCpu)

-----------------------------------------------------------------------------
(* The types; the guest reads three bits in sreg8.                          *)
IrqTypeOK ==
  /\ pending \in Seq(Vectors)
  /\ flag \in [Vectors -> BOOLEAN]
  /\ irq_level \in 0..7
  /\ cpc \in CpuPc
  /\ last \in 0..7 /\ sreg \in 0..7
  /\ acked \in Vectors \cup {None}
  /\ nraise \in Nat
  /\ age \in [Vectors -> Nat]

(* u is served before v: a smaller priority number, or the same and raised  *)
(* earlier.                                                                 *)
Before(u, v) ==
  \/ priority[u] < priority[v]
  \/ priority[u] = priority[v] /\ age[u] < age[v]

(* The inductive invariant: the list holds exactly the flagged vectors, in  *)
(* the order they are to be served, the ages are those of raises that have  *)
(* happened, and the level is that of the first.                            *)
IrqInv ==
  /\ \A i \in 1..Len(pending) : flag[pending[i]]
  /\ \A v \in Vectors : flag[v] => \E i \in 1..Len(pending) : pending[i] = v
  /\ \A i, j \in 1..Len(pending) : i < j => Before(pending[i], pending[j])
  /\ \A v \in Vectors : age[v] <= nraise
  /\ irq_level = LevelOf(pending)

(* irq_level and irq_getvector speak for the pending vector that comes      *)
(* before all others in priority and, among equals, in time: whatever order *)
(* the devices raised and lowered theirs in.                                *)
HeadIsBest ==
  /\ \A v \in Vectors : flag[v] => irq_level # 0 /\ GetVector # None
  /\ GetVector # None =>
       /\ flag[GetVector] /\ irq_level = level[GetVector]
       /\ \A v \in Vectors : flag[v] /\ v # GetVector => Before(GetVector, v)
  /\ GetVector = None => irq_level = 0

(* When the devices leave irq_level alone the CPU is told it in the end,    *)
(* although it compares and latches without the mutex.                      *)
LineFollows == \A l \in 0..7 : <>[](irq_level = l) => <>[](last = l)
=============================================================================
