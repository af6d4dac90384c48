----------------------------- MODULE IocProofs -----------------------------
(***************************************************************************)
(* Proofs about the IOC: RunControl, for every count a step may ask for,   *)
(* every amount of simulated time and any length of a session; and Irq,    *)
(* for every interrupt table and any number of raises.                     *)
(***************************************************************************)
EXTENDS RunControl, Irq, SequenceTheorems, TLAPS

(* The flags stay flags.                                                    *)
LEMMA FlagsKept ==
  ASSUME FlagsOK, [Next]_vars
  PROVE  FlagsOK'
<1> USE DEF FlagsOK
<1>1. CASE Cpu(CpuNext)
  BY <1>1, Zenon DEF Cpu, CpuNext, Main, Loop, Rest, Go, Execute, Account,
       Breakpoint, CliStart, CliStop, CliReset, CliStep, StartCpu, StartQuota,
       StopCpu, CliWaits, WaitStopped, StopDone, ResetStopped, ResetStart, ResetOnly,
       CliStepStart, RxWait, RxPast, cpuvars, scvars
<1>2. CASE Sc(ScNext)
  BY <1>2, Zenon DEF Sc, ScNext, ScThread, GetWait, GetTake, Simulate, Launch,
       Launched, QuotaAdd, QuotaExit, QuotaWait, QuotaWaited, cpuvars, scvars
<1>3. CASE Bus(BusNext)
  BY <1>3, Zenon DEF Bus, BusNext, Schedule, GetXact, XactDone, cpuvars, scvars
<1>4. CASE UNCHANGED vars
  BY <1>4, Zenon DEF vars, cpuvars, scvars
<1> QED
  BY <1>1, <1>2, <1>3, <1>4 DEF Next

(* The variables hold what they are declared to hold (TypeOK).              *)
THEOREM TypeCorrect == Safety => []TypeOK
<1> USE CpuAssumption, ScAssumption DEF TypeOK, Sleeps, Within
<1>1. Init => TypeOK
  <2>1. Init => FlagsOK
    BY Zenon DEF Init, CpuInit, ScInit, FlagsOK
  <2> QED
    BY <2>1 DEF Init, CpuInit, ScInit, BusInit
<1>2. TypeOK /\ [Next]_vars => TypeOK'
  <2> SUFFICES ASSUME TypeOK, [Next]_vars
               PROVE  TypeOK'
    OBVIOUS
  <2>0. FlagsOK'
    BY FlagsKept
  <2>1. CASE Cpu(Main)
    BY <2>0, <2>1 DEF Cpu, Main, Loop, Rest, Go, Broadcast, Execute, Account, scvars
  <2>2. CASE Cpu(Breakpoint)
    BY <2>0, <2>2 DEF Cpu, Breakpoint, scvars
  <2>3. CASE Cpu(CliStart \/ CliStop \/ CliReset \/ CliStep)
    <3>1. CASE CliStart
      BY <2>0, <2>3, <3>1 DEF Cpu, CliStart, StartCpu, StartQuota, scvars
    <3>2. CASE CliStop \/ CliReset \/ CliStep
      BY <2>0, <2>3, <3>2 DEF Cpu, CliStop, CliReset, CliStep, StopCpu, cpuvars,
                              scvars
    <3> QED
      BY <2>3, <3>1, <3>2 DEF Cpu
  <2>4. CASE Cpu(CliWaits)
    <3>1. CASE WaitStopped \/ StopDone \/ ResetStopped \/ ResetOnly
      BY <2>0, <2>4, <3>1 DEF Cpu, WaitStopped, StopDone, ResetStopped,
                              ResetOnly, cpuvars, scvars
    <3>2. CASE ResetStart
      BY <2>0, <2>4, <3>2 DEF Cpu, ResetStart, StartCpu, StartQuota, scvars
    <3>3. ASSUME NEW n \in Counts, StartCpu(n, "step")
          PROVE  TypeOK'
      BY <2>0, <2>4, <3>3 DEF Cpu, StartCpu, StartQuota, scvars
    <3> QED
      BY <2>4, <3>1, <3>2, <3>3 DEF Cpu, CliWaits, CliStepStart
  <2>5. CASE Cpu(RxWait \/ RxPast)
    BY <2>0, <2>5 DEF Cpu, RxWait, RxPast, scvars
  <2>6. CASE Sc(ScThread)
    <3>1. CASE GetWait
      BY <2>0, <2>6, <3>1 DEF Sc, GetWait, GetStarted, cpuvars
    <3>2. CASE GetTake
      BY <2>0, <2>6, <3>2 DEF Sc, GetTake, GetStarted, cpuvars
    <3>3. CASE Simulate
      BY <2>0, <2>6, <3>3 DEF Sc, Simulate, cpuvars
    <3> QED
      BY <2>6, <3>1, <3>2, <3>3 DEF Sc, ScThread
  <2>7. CASE Sc(Launch \/ Launched \/ QuotaExit \/ QuotaWait \/ QuotaWaited)
    <3>1. CASE Launch
      BY <2>0, <2>7, <3>1 DEF Sc, Launch, cpuvars
    <3>2. CASE Launched
      BY <2>0, <2>7, <3>2 DEF Sc, Launched, cpuvars
    <3>4. CASE QuotaWait \/ QuotaWaited
      BY <2>0, <2>7, <3>4 DEF Sc, QuotaWait, QuotaWaited, cpuvars, scvars
    <3>3. CASE QuotaExit
      BY <2>0, <2>7, <3>3 DEF Sc, QuotaExit, cpuvars
    <3> QED
      BY <2>7, <3>1, <3>2, <3>3, <3>4 DEF Sc
  <2>8. ASSUME NEW n \in Amounts, Sc(QuotaAdd(n))
        PROVE  TypeOK'
    BY <2>0, <2>8 DEF Sc, QuotaAdd, SignalSc, cpuvars
  <2>9. CASE Bus(BusNext)
    BY <2>0, <2>9 DEF Bus, BusNext, Schedule, GetXact, XactDone, cpuvars, scvars
  <2>10. CASE UNCHANGED vars
    BY <2>0, <2>10 DEF vars, cpuvars, scvars
  <2>11. Cpu(CpuNext) => \/ Cpu(Main) \/ Cpu(Breakpoint)
                         \/ Cpu(CliStart \/ CliStop \/ CliReset \/ CliStep)
                         \/ Cpu(CliWaits) \/ Cpu(RxWait \/ RxPast)
    BY DEF Cpu, CpuNext
  <2>12. Sc(ScNext) =>
           \/ Sc(ScThread)
           \/ Sc(Launch \/ Launched \/ QuotaExit \/ QuotaWait \/ QuotaWaited)
           \/ \E n \in Amounts : Sc(QuotaAdd(n))
    BY DEF Sc, ScNext
  <2> QED
    BY <2>1, <2>2, <2>3, <2>4, <2>5, <2>6, <2>7, <2>8, <2>9, <2>10, <2>11,
       <2>12 DEF Next
<1> QED
  BY <1>1, <1>2, PTL DEF Safety
-----------------------------------------------------------------------------
(* An action of the CPU, of the CLI on it or of a receive thread keeps the  *)
(* invariant: what starts it, starts it at rest, and what lets it rest wakes*)
(* whoever waits for that.                                                  *)
LEMMA CpuInv ==
  ASSUME TypeOK, IInv, Cpu(CpuNext)
  PROVE  IInv'
<1> USE CpuAssumption
    DEF TypeOK, Sleeps, Within, IInv, ResetIsAlone, StepInv, NoLostWakeup,
        TimeConserved, Stopped
<1>0. UNCHANGED <<sc_quota, sc_quota_exit, sc_started, sc_boards, scpc, dt,
                  added, simulated, xact>>
  BY DEF Cpu, scvars
<1>1. CASE Loop /\ quota = 0
  BY <1>0, <1>1 DEF Loop, Rest, Broadcast
<1>2. CASE Loop /\ quota # 0
  BY <1>0, <1>2 DEF Loop, Go, Broadcast
<1>3. CASE Execute
  BY <1>0, <1>3 DEF Execute
<1>4. CASE Account
  BY <1>0, <1>4 DEF Account
<1>5. CASE Breakpoint
  BY <1>0, <1>5 DEF Breakpoint
<1>6. CASE CliStart
  BY <1>0, <1>6 DEF CliStart, StartCpu, StartQuota
<1>7. CASE CliStop
  BY <1>0, <1>7 DEF CliStop, StopCpu
<1>8. CASE CliReset
  BY <1>0, <1>8 DEF CliReset, StopCpu
<1>9. CASE CliStep
  BY <1>0, <1>9 DEF CliStep, cpuvars
<1>10. CASE WaitStopped
  BY <1>0, <1>10 DEF WaitStopped, cpuvars
<1>11. CASE StopDone
  BY <1>0, <1>11 DEF StopDone, cpuvars
<1>12. CASE ResetStopped
  BY <1>0, <1>12 DEF ResetStopped, cpuvars
<1>13. CASE ResetStart
  BY <1>0, <1>13 DEF ResetStart, StartCpu, StartQuota
<1>14. CASE ResetOnly
  BY <1>0, <1>14 DEF ResetOnly, cpuvars
<1>15. ASSUME NEW n \in Counts, cli = "step:go", StartCpu(n, "step")
       PROVE  IInv'
  BY <1>0, <1>15 DEF StartCpu, StartQuota
<1>16. CASE RxWait
  BY <1>0, <1>16 DEF RxWait
<1>17. CASE RxPast
  BY <1>0, <1>17 DEF RxPast
<1> QED
  BY <1>1, <1>2, <1>3, <1>4, <1>5, <1>6, <1>7, <1>8, <1>9, <1>10, <1>11, <1>12,
     <1>13, <1>14, <1>15, <1>16, <1>17
  DEF Cpu, CpuNext, Main, CliWaits, CliStepStart

(* An action of the simulation, or of the CLI on it, leaves the CPU alone,  *)
(* and every amount added is at one place.                                  *)
LEMMA ScInv ==
  ASSUME TypeOK, IInv, Sc(ScNext)
  PROVE  IInv'
<1> USE ScAssumption
    DEF TypeOK, Sleeps, Within, IInv, ResetIsAlone, StepInv, NoLostWakeup,
        TimeConserved, Stopped
<1>0. UNCHANGED <<quota, running, mpc, rxpc, asked, executed, broke, xact>>
  BY DEF Sc, cpuvars
<1>1. CASE GetWait
  BY <1>0, <1>1 DEF GetWait, Hungry
<1>2. CASE GetTake
  BY <1>0, <1>2 DEF GetTake
<1>3. CASE Simulate
  BY <1>0, <1>3 DEF Simulate
<1>4. CASE Launch
  BY <1>0, <1>4 DEF Launch
<1>5. CASE Launched
  BY <1>0, <1>5 DEF Launched
<1>6. CASE QuotaExit
  BY <1>0, <1>6 DEF QuotaExit
<1>7. CASE QuotaWait
  BY <1>0, <1>7 DEF QuotaWait, scvars
<1>8. CASE QuotaWaited
  BY <1>0, <1>8 DEF QuotaWaited, scvars
<1>9. ASSUME NEW n \in Amounts, QuotaAdd(n)
      PROVE  IInv'
  BY <1>0, <1>9 DEF QuotaAdd, SignalSc
<1> QED
  BY <1>1, <1>2, <1>3, <1>4, <1>5, <1>6, <1>7, <1>8, <1>9
  DEF Sc, ScNext, ScThread

(* A transaction begins and ends with the CPU thread waiting for it.        *)
LEMMA BusInv ==
  ASSUME TypeOK, IInv, Bus(BusNext)
  PROVE  IInv'
<1> USE DEF TypeOK, Sleeps, Within, IInv, ResetIsAlone, StepInv, NoLostWakeup,
            TimeConserved, Stopped
<1>0. UNCHANGED <<cli, quota, running, rxpc, asked, executed, broke, sc_quota,
                  scpc, dt, added, simulated>>
  BY DEF Bus, BusNext, Schedule, GetXact, XactDone, cpuvars, scvars
<1>1. CASE Schedule
  BY <1>0, <1>1 DEF Schedule
<1>2. CASE GetXact
  BY <1>0, <1>2 DEF GetXact, cpuvars
<1>3. CASE XactDone
  BY <1>0, <1>3 DEF XactDone
<1> QED
  BY <1>1, <1>2, <1>3 DEF Bus, BusNext
-----------------------------------------------------------------------------
(* The invariant holds in every state: IInv.                                *)
THEOREM Inductive == Safety => []IInv
<1>1. Init => IInv
  BY DEF Init, CpuInit, ScInit, BusInit, IInv, ResetIsAlone, StepInv,
         NoLostWakeup, TimeConserved, Sleeps, Within
<1>2. TypeOK /\ IInv /\ [Next]_vars => IInv'
  <2> SUFFICES ASSUME TypeOK, IInv, [Next]_vars
               PROVE  IInv'
    OBVIOUS
  <2>1. CASE UNCHANGED vars
    BY <2>1 DEF vars, cpuvars, scvars, IInv, ResetIsAlone, StepInv,
                NoLostWakeup, TimeConserved, Stopped
  <2> QED
    BY <2>1, CpuInv, ScInv, BusInv DEF Next
<1> QED
  BY <1>1, <1>2, TypeCorrect, PTL DEF Safety

(* A reset meets a CPU at rest, without a quota and without an access on    *)
(* the board, although the CPU executes without the mutex (ResetIsAlone).   *)
THEOREM ResetAlone == Safety => []ResetIsAlone
<1>1. IInv => ResetIsAlone
  BY DEF IInv
<1> QED
  BY <1>1, Inductive, PTL

(* A step executes as many instructions as it was asked for, unless a       *)
(* breakpoint ends it (StepIsExact).                                        *)
THEOREM StepExact == Safety => StepIsExact
<1> DEFINE Exact == cli = "step" /\ cli' = "idle" => broke \/ executed = asked
<1>1. TypeOK /\ IInv /\ [Next]_vars => [Exact]_vars
  <2> SUFFICES ASSUME TypeOK, IInv, [Next]_vars, cli = "step", cli' = "idle"
               PROVE  broke \/ executed = asked
    OBVIOUS
  <2>1. StopDone
    <3>1. ~Sc(ScNext) /\ ~Bus(BusNext) /\ ~UNCHANGED vars
      BY Zenon DEF Sc, ScNext, ScThread, GetWait, GetTake, Simulate, Launch,
         Launched, QuotaAdd, QuotaExit, QuotaWait, QuotaWaited, Bus, BusNext,
         Schedule, GetXact, XactDone, vars
    <3>2. ~Main
      BY DEF Main, Loop, Rest, Go, Broadcast, Execute, Account
    <3> QED
      BY <3>1, <3>2 DEF Next, Cpu, CpuNext, Breakpoint, CliStart, CliStop,
         CliReset, CliStep, CliWaits, WaitStopped, ResetStopped, ResetStart,
         ResetOnly, CliStepStart, RxWait, RxPast
  <2>2. quota = 0 /\ ~running
    BY <2>1 DEF StopDone, Stopped
  <2> QED
    BY <2>2, CpuAssumption DEF IInv, StepInv, Within, TypeOK
<1> QED
  BY <1>1, TypeCorrect, Inductive, PTL DEF Safety, StepIsExact

(* No thread sleeps through what it waits for (NoLostWakeup).               *)
THEOREM WakeupsKept == Safety => []NoLostWakeup
<1>1. IInv => NoLostWakeup
  BY DEF IInv
<1> QED
  BY <1>1, Inductive, PTL

(* Simulated time is neither lost nor made (TimeConserved).                 *)
THEOREM TimeKept == Safety => []TimeConserved
<1>1. IInv => TimeConserved
  BY DEF IInv
<1> QED
  BY <1>1, Inductive, PTL

-----------------------------------------------------------------------------
(* What the two list operations give.                                       *)
LEMMA InsertFacts ==
  ASSUME NEW S, NEW list \in Seq(S), NEW v \in S, NEW p \in 1..(Len(list) + 1)
  PROVE  /\ InsertBefore(list, p, v) \in Seq(S)
         /\ Len(InsertBefore(list, p, v)) = Len(list) + 1
         /\ Len(list) \in Nat
         /\ \A i \in 1..(Len(list) + 1) :
              InsertBefore(list, p, v)[i] =
                IF i < p THEN list[i] ELSE IF i = p THEN v ELSE list[i - 1]
<1> DEFINE r == InsertBefore(list, p, v)
<1>1. Len(list) \in Nat /\ \A i \in 1..Len(list) : list[i] \in S
  BY LenProperties, ElementOfSeq
<1>2. \A i \in 1..(Len(list) + 1) :
        /\ r[i] = IF i < p THEN list[i] ELSE IF i = p THEN v ELSE list[i - 1]
        /\ i < p => i \in 1..Len(list)
        /\ i > p => i - 1 \in 1..Len(list)
  BY <1>1 DEF InsertBefore
<1>3. \A i \in 1..(Len(list) + 1) : r[i] \in S
  BY <1>1, <1>2
<1>4. r \in [1..(Len(list) + 1) -> S]
  BY <1>3 DEF InsertBefore
<1>5. r \in Seq(S) /\ Len(r) = Len(list) + 1
  <2> HIDE DEF r
  <2> QED
    BY <1>1, <1>4, SeqDef
<1> QED
  BY <1>1, <1>2, <1>5

LEMMA WithoutFacts ==
  ASSUME NEW S, NEW list \in Seq(S), NEW p \in 1..Len(list)
  PROVE  /\ Without(list, p) \in Seq(S)
         /\ Len(Without(list, p)) = Len(list) - 1
         /\ Len(list) \in Nat
         /\ \A i \in 1..(Len(list) - 1) :
              Without(list, p)[i] = IF i < p THEN list[i] ELSE list[i + 1]
<1> DEFINE r == Without(list, p)
<1>1. /\ Len(list) \in Nat /\ Len(list) - 1 \in Nat
      /\ \A i \in 1..Len(list) : list[i] \in S
  BY LenProperties, ElementOfSeq
<1>2. \A i \in 1..(Len(list) - 1) :
        /\ r[i] = IF i < p THEN list[i] ELSE list[i + 1]
        /\ i \in 1..Len(list) /\ i + 1 \in 1..Len(list)
  BY <1>1 DEF Without
<1>3. \A i \in 1..(Len(list) - 1) : r[i] \in S
  BY <1>1, <1>2
<1>4. r \in [1..(Len(list) - 1) -> S]
  BY <1>3 DEF Without
<1>5. r \in Seq(S) /\ Len(r) = Len(list) - 1
  <2> HIDE DEF r
  <2> QED
    BY <1>1, <1>4, SeqDef
<1> QED
  BY <1>1, <1>2, <1>5

(* The level of a list of vectors is a level.                               *)
LEMMA LevelFacts ==
  ASSUME NEW list \in Seq(Vectors)
  PROVE  LevelOf(list) \in 0..7
<1>1. CASE list = << >>
  BY <1>1 DEF LevelOf
<1>2. CASE list # << >>
  <2>1. list[1] \in Vectors
    BY <1>2, EmptySeq, ElementOfSeq
  <2> QED
    BY <1>2, <2>1, IrqAssumption DEF LevelOf
<1> QED
  BY <1>1, <1>2

(* The variables hold what they are declared to hold (IrqTypeOK).              *)
THEOREM IrqTypeCorrect == IrqSafety => []IrqTypeOK
<1>1. IrqInit => IrqTypeOK
  BY DEF IrqInit, IrqTypeOK, CpuPc
<1>2. IrqTypeOK /\ [IrqNext]_irqvars => IrqTypeOK'
  <2> SUFFICES ASSUME IrqTypeOK, [IrqNext]_irqvars
               PROVE  IrqTypeOK'
    OBVIOUS
  <2>1. ASSUME NEW v \in Vectors, Raise(v)
        PROVE  IrqTypeOK'
    <3>1. PICK p \in 1..(Len(pending) + 1) :
            pending' = InsertBefore(pending, p, v) /\ irq_level' = LevelOf(pending')
      BY <2>1 DEF Raise
    <3>2. pending' \in Seq(Vectors)
      BY <3>1, InsertFacts DEF IrqTypeOK
    <3>3. irq_level' \in 0..7
      BY <3>1, <3>2, LevelFacts
    <3> QED
      BY <2>1, <3>2, <3>3 DEF Raise, IrqTypeOK
  <2>2. ASSUME NEW v \in Vectors, Lower(v)
        PROVE  IrqTypeOK'
    <3>1. PICK p \in 1..Len(pending) :
            pending' = Without(pending, p) /\ irq_level' = LevelOf(pending')
      BY <2>2 DEF Lower
    <3>2. pending' \in Seq(Vectors)
      BY <3>1, WithoutFacts DEF IrqTypeOK
    <3>3. irq_level' \in 0..7
      BY <3>1, <3>2, LevelFacts
    <3> QED
      BY <2>2, <3>2, <3>3 DEF Lower, IrqTypeOK
  <2>3. CASE Compare \/ Latch \/ Sreg \/ IrqExecute
    BY <2>3 DEF Compare, Latch, Sreg, IrqExecute, IrqTypeOK, CpuPc
  <2>4. CASE Acknowledge
    <3>1. GetVector \in Vectors \cup {None}
      BY EmptySeq, ElementOfSeq DEF GetVector, IrqTypeOK
    <3> QED
      BY <2>4, <3>1 DEF Acknowledge, IrqTypeOK, CpuPc
  <2>5. CASE UNCHANGED irqvars
    BY <2>5 DEF irqvars, IrqTypeOK
  <2> QED
    BY <2>1, <2>2, <2>3, <2>4, <2>5 DEF IrqNext, IrqCpu
<1> QED
  BY <1>1, <1>2, PTL DEF IrqSafety
-----------------------------------------------------------------------------
(* irq_raise keeps the list in order: the scan stops where the new vector,  *)
(* which is younger than all others, belongs.                               *)
LEMMA RaiseInv ==
  ASSUME IrqTypeOK, IrqInv, NEW v \in Vectors, Raise(v)
  PROVE  IrqInv'
<1>1. /\ ~flag[v] /\ flag'[v] /\ nraise' = nraise + 1 /\ age'[v] = nraise + 1
      /\ \A u \in Vectors \ {v} : flag'[u] = flag[u] /\ age'[u] = age[u]
  BY DEF Raise, IrqTypeOK
<1>2. PICK p \in 1..(Len(pending) + 1) :
        /\ Place(v, p) /\ pending' = InsertBefore(pending, p, v)
        /\ irq_level' = LevelOf(pending')
  BY DEF Raise
<1>3. /\ Len(pending) \in Nat /\ Len(pending') = Len(pending) + 1
      /\ \A i \in 1..(Len(pending) + 1) :
           pending'[i] = IF i < p THEN pending[i]
                         ELSE IF i = p THEN v ELSE pending[i - 1]
  <2> DEFINE r == InsertBefore(pending, p, v)
  <2>1. pending \in Seq(Vectors)
    BY DEF IrqTypeOK
  <2>2. /\ Len(pending) \in Nat /\ Len(r) = Len(pending) + 1
        /\ \A i \in 1..(Len(pending) + 1) :
             r[i] = IF i < p THEN pending[i]
                    ELSE IF i = p THEN v ELSE pending[i - 1]
    BY <2>1, InsertFacts
  <2>3. pending' = r
    BY <1>2
  <2> HIDE DEF r
  <2> QED
    BY <2>2, <2>3
<1>4. \A i \in 1..Len(pending) :
        /\ pending[i] \in Vectors /\ flag[pending[i]] /\ pending[i] # v
  BY <1>1, ElementOfSeq DEF IrqInv, IrqTypeOK
<1>5. /\ nraise \in Nat /\ \A u \in Vectors : /\ priority[u] \in Nat
                                             /\ age[u] \in Nat
                                             /\ age[u] <= nraise
  BY IrqAssumption DEF IrqTypeOK, IrqInv
<1>6. ASSUME NEW i \in 1..Len(pending')
      PROVE  flag'[pending'[i]]
  <2>1. CASE i < p
    BY <1>1, <1>3, <1>4, <1>6, <2>1
  <2>2. CASE i = p
    BY <1>1, <1>3, <2>2
  <2>3. CASE i > p
    <3>1. i - 1 \in 1..Len(pending) /\ pending'[i] = pending[i - 1]
      BY <1>3, <2>3
    <3> QED
      BY <1>1, <1>4, <3>1
  <2> QED
    BY <1>3, <2>1, <2>2, <2>3
<1>7. ASSUME NEW u \in Vectors, flag'[u]
      PROVE  \E i \in 1..Len(pending') : pending'[i] = u
  <2>1. CASE u = v
    BY <1>3, <2>1
  <2>2. CASE u # v
    <3>1. PICK i \in 1..Len(pending) : pending[i] = u
      BY <1>1, <1>7, <2>2 DEF IrqInv
    <3>2. CASE i < p
      BY <1>3, <3>1, <3>2
    <3>3. CASE ~(i < p)
      <4>1. i + 1 \in 1..(Len(pending) + 1) /\ i + 1 > p /\ (i + 1) - 1 = i
        BY <1>3, <3>3
      <4>2. pending'[i + 1] = pending[(i + 1) - 1]
        BY <1>3, <4>1
      <4> QED
        BY <1>3, <3>1, <4>1, <4>2
    <3> QED
      BY <3>2, <3>3
  <2> QED
    BY <2>1, <2>2
<1>8. ASSUME NEW i \in 1..Len(pending'), NEW j \in 1..Len(pending'), i < j
      PROVE  Before(pending[i], pending[j])'
  <2> DEFINE After(a, b) == \/ priority[a] < priority[b]
                            \/ priority[a] = priority[b] /\ age'[a] < age'[b]
  <2>0. SUFFICES After(pending'[i], pending'[j])
    BY DEF Before
  <2>1. \A a, b \in Vectors \ {v} : Before(a, b) => After(a, b)
    BY <1>1 DEF Before
  <2>2. \A k, l \in 1..Len(pending) : k < l => After(pending[k], pending[l])
    BY <1>4, <2>1 DEF IrqInv
  <2>3. CASE j < p
    <3>1. /\ i \in 1..Len(pending) /\ j \in 1..Len(pending)
          /\ pending'[i] = pending[i] /\ pending'[j] = pending[j]
      BY <1>3, <1>8, <2>3
    <3> QED
      BY <1>8, <2>2, <3>1
  <2>4. CASE j = p
    <3>1. /\ i \in 1..Len(pending) /\ i \in 1..(p - 1)
          /\ pending'[i] = pending[i] /\ pending'[j] = v
      BY <1>3, <1>8, <2>4
    <3>2. priority[pending[i]] <= priority[v]
      BY <1>2, <3>1 DEF Place
    <3>3. age'[pending[i]] < age'[v]
      BY <1>1, <1>4, <1>5, <3>1
    <3> QED
      BY <1>4, <1>5, <3>1, <3>2, <3>3
  <2>5. CASE i < p /\ j > p
    <3>1. /\ i \in 1..Len(pending) /\ j - 1 \in 1..Len(pending) /\ i < j - 1
          /\ pending'[i] = pending[i] /\ pending'[j] = pending[j - 1]
      BY <1>3, <1>8, <2>5
    <3> QED
      BY <2>2, <3>1
  <2>6. CASE i = p
    <3>1. /\ p \in 1..Len(pending) /\ j - 1 \in 1..Len(pending) /\ p <= j - 1
          /\ pending'[i] = v /\ pending'[j] = pending[j - 1]
      BY <1>3, <1>8, <2>6
    <3>2. priority[v] < priority[pending[p]]
      BY <1>2, <1>4, <1>5, <3>1 DEF Place
    <3>3. priority[pending[p]] <= priority[pending[j - 1]]
      <4>1. CASE p = j - 1
        BY <1>4, <1>5, <3>1, <4>1
      <4>2. CASE p < j - 1
        <5>1. Before(pending[p], pending[j - 1])
          BY <3>1, <4>2 DEF IrqInv
        <5> QED
          BY <1>4, <1>5, <3>1, <5>1 DEF Before
      <4> QED
        BY <3>1, <4>1, <4>2
    <3> QED
      BY <1>4, <1>5, <3>1, <3>2, <3>3
  <2>7. CASE i > p
    <3>1. /\ i - 1 \in 1..Len(pending) /\ j - 1 \in 1..Len(pending)
          /\ i - 1 < j - 1
          /\ pending'[i] = pending[i - 1] /\ pending'[j] = pending[j - 1]
      BY <1>3, <1>8, <2>7
    <3> QED
      BY <2>2, <3>1
  <2> QED
    BY <1>3, <1>8, <2>3, <2>4, <2>5, <2>6, <2>7
<1>9. \A u \in Vectors : age'[u] <= nraise'
  BY <1>1, <1>5
<1> QED
  BY <1>2, <1>6, <1>7, <1>8, <1>9 DEF IrqInv

(* irq_lower keeps it too: the others stay in their order.                  *)
LEMMA LowerInv ==
  ASSUME IrqTypeOK, IrqInv, NEW v \in Vectors, Lower(v)
  PROVE  IrqInv'
<1>1. /\ flag[v] /\ ~flag'[v] /\ nraise' = nraise /\ age'[v] = 0
      /\ \A u \in Vectors \ {v} : flag'[u] = flag[u] /\ age'[u] = age[u]
  BY DEF Lower, IrqTypeOK
<1>2. PICK p \in 1..Len(pending) :
        /\ pending[p] = v /\ pending' = Without(pending, p)
        /\ irq_level' = LevelOf(pending')
  BY DEF Lower
<1>3. /\ Len(pending) \in Nat /\ Len(pending') = Len(pending) - 1
      /\ \A i \in 1..(Len(pending) - 1) :
           pending'[i] = IF i < p THEN pending[i] ELSE pending[i + 1]
  <2> DEFINE r == Without(pending, p)
  <2>1. pending \in Seq(Vectors)
    BY DEF IrqTypeOK
  <2>2. /\ Len(pending) \in Nat /\ Len(r) = Len(pending) - 1
        /\ \A i \in 1..(Len(pending) - 1) :
             r[i] = IF i < p THEN pending[i] ELSE pending[i + 1]
    BY <2>1, WithoutFacts
  <2>3. pending' = r
    BY <1>2
  <2> HIDE DEF r
  <2> QED
    BY <2>2, <2>3
<1>4. \A u \in Vectors : /\ priority[u] \in Nat /\ age[u] \in Nat
                         /\ age[u] <= nraise
  BY IrqAssumption DEF IrqTypeOK, IrqInv
<1>5. \A i \in 1..Len(pending) : pending[i] \in Vectors /\ flag[pending[i]]
  BY ElementOfSeq DEF IrqInv, IrqTypeOK
<1>6. \A i \in 1..Len(pending) : i # p => pending[i] # v
  <2> SUFFICES ASSUME NEW i \in 1..Len(pending), i # p
               PROVE  pending[i] # v
    OBVIOUS
  <2>1. Before(pending[i], pending[p]) \/ Before(pending[p], pending[i])
    <3>1. i < p \/ p < i
      BY <1>3
    <3> QED
      BY <3>1 DEF IrqInv
  <2> QED
    BY <1>2, <1>4, <2>1 DEF Before
<1>7. ASSUME NEW i \in 1..Len(pending')
      PROVE  \E k \in 1..Len(pending) :
               /\ pending'[i] = pending[k] /\ k # p
               /\ k = IF i < p THEN i ELSE i + 1
  BY <1>3
<1>8. \A i \in 1..Len(pending') : flag'[pending'[i]]
  BY <1>1, <1>5, <1>6, <1>7
<1>9. ASSUME NEW u \in Vectors, flag'[u]
      PROVE  \E i \in 1..Len(pending') : pending'[i] = u
  <2>1. PICK k \in 1..Len(pending) : pending[k] = u
    BY <1>1, <1>9 DEF IrqInv
  <2>2. k # p
    BY <1>1, <1>2, <1>9, <2>1
  <2>3. CASE k < p
    BY <1>3, <2>1, <2>3
  <2>4. CASE k > p
    <3>1. k - 1 \in 1..(Len(pending) - 1) /\ ~(k - 1 < p) /\ (k - 1) + 1 = k
      BY <1>3, <2>4
    <3> QED
      BY <1>3, <2>1, <3>1
  <2> QED
    BY <1>3, <2>2, <2>3, <2>4
<1>10. ASSUME NEW i \in 1..Len(pending'), NEW j \in 1..Len(pending'), i < j
       PROVE  Before(pending[i], pending[j])'
  <2>1. PICK k \in 1..Len(pending) :
          /\ pending'[i] = pending[k] /\ k # p
          /\ k = IF i < p THEN i ELSE i + 1
    BY <1>7
  <2>2. PICK l \in 1..Len(pending) :
          /\ pending'[j] = pending[l] /\ l # p
          /\ l = IF j < p THEN j ELSE j + 1
    BY <1>7
  <2>3. k < l
    BY <1>3, <1>10, <2>1, <2>2
  <2>4. Before(pending[k], pending[l])
    BY <2>3 DEF IrqInv
  <2>5. pending[k] \in Vectors \ {v} /\ pending[l] \in Vectors \ {v}
    BY <1>5, <1>6, <2>1, <2>2
  <2> QED
    BY <1>1, <2>1, <2>2, <2>4, <2>5 DEF Before
<1>11. \A u \in Vectors : age'[u] <= nraise'
  BY <1>1, <1>4 DEF IrqTypeOK
<1> QED
  BY <1>2, <1>8, <1>9, <1>10, <1>11 DEF IrqInv
-----------------------------------------------------------------------------
(* The invariant holds in every reachable state.                            *)
THEOREM IrqInductive == IrqSafety => []IrqInv
<1>1. IrqInit => IrqInv
  BY DEF IrqInit, IrqInv, LevelOf
<1>2. IrqTypeOK /\ IrqInv /\ [IrqNext]_irqvars => IrqInv'
  <2> SUFFICES ASSUME IrqTypeOK, IrqInv, [IrqNext]_irqvars
               PROVE  IrqInv'
    OBVIOUS
  <2>1. CASE IrqCpu \/ UNCHANGED irqvars
    <3>1. UNCHANGED <<pending, flag, irq_level, nraise, age>>
      BY <2>1 DEF IrqCpu, Compare, Latch, Sreg, IrqExecute, Acknowledge, irqvars
    <3> QED
      BY <3>1 DEF IrqInv, Before, LevelOf
  <2> QED
    BY <2>1, RaiseInv, LowerInv DEF IrqNext
<1> QED
  BY <1>1, <1>2, IrqTypeCorrect, PTL DEF IrqSafety

(* irq_level and irq_getvector speak for the best pending vector, whatever  *)
(* the table and the order of the raises (HeadIsBest).                      *)
THEOREM BestServed == IrqSafety => []HeadIsBest
<1>1. IrqTypeOK /\ IrqInv => HeadIsBest
  <2> SUFFICES ASSUME IrqTypeOK, IrqInv
               PROVE  HeadIsBest
    OBVIOUS
  <2>1. Len(pending) \in Nat /\ \A i \in 1..Len(pending) : pending[i] \in Vectors
    BY LenProperties, ElementOfSeq DEF IrqTypeOK
  <2>2. CASE pending = << >>
    <3>1. \A v \in Vectors : ~flag[v]
      <4>1. Len(pending) = 0
        BY <2>2
      <4>2. \A i \in 1..Len(pending) : FALSE
        BY <4>1
      <4> QED
        BY <4>2 DEF IrqInv
    <3> QED
      BY <2>2, <3>1 DEF HeadIsBest, GetVector, IrqInv, LevelOf
  <2>3. CASE pending # << >>
    <3>1. 1 \in 1..Len(pending) /\ GetVector = pending[1]
      BY <2>1, <2>3, EmptySeq DEF GetVector, IrqTypeOK
    <3>2. /\ pending[1] \in Vectors /\ pending[1] # None /\ flag[pending[1]]
          /\ irq_level = level[pending[1]] /\ irq_level \in 1..7
      BY <2>1, <2>3, <3>1, IrqAssumption DEF IrqInv, LevelOf
    <3>3. ASSUME NEW v \in Vectors, flag[v], v # pending[1]
          PROVE  Before(pending[1], v)
      <4>1. PICK i \in 1..Len(pending) : pending[i] = v
        BY <3>3 DEF IrqInv
      <4>2. 1 < i
        BY <2>1, <3>3, <4>1
      <4> QED
        BY <3>1, <4>1, <4>2 DEF IrqInv
    <3> QED
      BY <3>1, <3>2, <3>3 DEF HeadIsBest
  <2> QED
    BY <2>2, <2>3
<1> QED
  BY <1>1, IrqInductive, IrqTypeCorrect, PTL
=============================================================================
