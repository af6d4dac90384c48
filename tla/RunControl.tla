----------------------------- MODULE RunControl -----------------------------
(***************************************************************************)
(* The two engines of the emulator under the one CLI thread: the IOC CPU   *)
(* (IocCpu) and the SystemC simulation (ScQuota), and the bus on which the *)
(* first waits for the second (IocBus).  A command that waits keeps the    *)
(* CLI from all others.                                                    *)
(***************************************************************************)
EXTENDS IocBus

vars == <<cli, cpuvars, scvars, xact>>

Init == cli = "idle" /\ CpuInit /\ ScInit /\ BusInit

(* The process ends when an assertion fails, or SystemC calls finish.       *)
Ended == cli = "aborted" \/ scpc = "finish"

Cpu(A) == ~Ended /\ A /\ UNCHANGED <<scvars, xact>>
Sc(A) == ~Ended /\ A /\ UNCHANGED <<cpuvars, xact>>
Bus(A) == ~Ended /\ A

Next == Cpu(CpuNext) \/ Sc(ScNext) \/ Bus(BusNext)

Safety == Init /\ [][Next]_vars

(* The CPU thread, the SystemC thread and a receive thread that is awake    *)
(* get on, and the CLI finishes the command it is in.                       *)
Spec ==
  /\ Safety
  /\ WF_vars(Cpu(Main))
  /\ WF_vars(Sc(ScThread))
  /\ WF_vars(Cpu(RxWait \/ RxPast))
  /\ WF_vars(Cpu(CliWaits) \/ Sc(Launched \/ QuotaWaited))

-----------------------------------------------------------------------------
Sleeps == {"stop:wait", "reset:wait", "step:wait"}

Within == {"execute", "bus", "accessed", "account"}

FlagsOK == {running, broke, sc_quota_exit} \subseteq BOOLEAN

(* The type invariant.                                                      *)
TypeOK ==
  /\ FlagsOK
  /\ cli \in {"idle", "stop", "reset", "step:go", "step", "reset:pulse",
             "launch", "quota:wait", "aborted"} \cup Sleeps
  /\ quota \in Nat /\ asked \in Nat /\ executed \in Nat
  /\ mpc \in {"loop", "wait"} \cup Within
  /\ rxpc \in {"check", "wait", "past"}
  /\ sc_quota \in Nat /\ dt \in Nat /\ added \in Nat /\ simulated \in Nat
  /\ sc_started \in 0..4
  /\ sc_boards \in SUBSET {"ioc"}
  /\ scpc \in {"none", "get", "wait", "run", "finish"}
  /\ xact \in {"none", "queued", "in_progress"}

(* While the CLI loads the reset vector and pulses the reset, without the   *)
(* mutex, the CPU thread is not executing and has no quota to begin with,   *)
(* although it executes without the mutex too and a breakpoint may stop it  *)
(* at any moment; nor is an access of it left on the bus of the simulated   *)
(* board, where it would end in the life of the CPU after the reset.        *)
ResetIsAlone ==
  cli = "reset:pulse" =>
    mpc \in {"wait", "loop"} /\ quota = 0 /\ ~running /\ xact = "none"

(* `iop step n' executes n instructions, neither more nor less, unless a    *)
(* breakpoint ends it; `iop step 0' ends with a breakpoint only.            *)
StepIsExact ==
  [][cli = "step" /\ cli' = "idle" => broke \/ executed = asked]_vars

(* A thread that sleeps has something to sleep for.  The CLI, which is      *)
(* woken only when the CPU comes to rest, waits for a CPU that has yet to   *)
(* do so; the receive thread for one that does not run; and the SystemC     *)
(* thread for a quota that is used up.                                      *)
NoLostWakeup ==
  /\ cli \in Sleeps => ~Stopped
  /\ rxpc = "wait" => ~running
  /\ scpc = "wait" => sc_quota = 0

(* Simulated time is neither lost nor simulated twice on its way from the   *)
(* CLI through the quota into sc_start.                                     *)
TimeConserved == added = sc_quota + dt + simulated

(* The inductive invariant: the CPU runs while it is within an instruction, *)
(* and the board has an access of it exactly while it waits for one; during *)
(* a step, unless a breakpoint ends it, the instructions executed and those *)
(* left are those asked for, and the one it is in has not been paid for.    *)
StepInv ==
  cli \in {"step", "step:wait"} =>
    /\ asked \in (Counts \ {0}) \cup {Endless} /\ quota <= asked
    /\ broke \/ IF asked = Endless THEN quota = Endless
                ELSE executed + quota = asked + (IF mpc = "account" THEN 1 ELSE 0)
    /\ broke \/ (mpc \in Within => quota > 0)

IInv ==
  /\ mpc \in Within => running
  /\ mpc = "wait" => ~running
  /\ xact # "none" <=> mpc = "bus"
  /\ scpc # "run" => dt = 0
  /\ ResetIsAlone /\ StepInv /\ NoLostWakeup /\ TimeConserved

(* Every command returns, or the process ends: a stop, reset or step always *)
(* gets to see the CPU stopped, although it is told only when the CPU comes *)
(* to rest, and a launch sees the thread started.  Three waits are for      *)
(* ever: `sc quota wait' before `sc launch'; the wait for a CPU that is in  *)
(* an access of the board, when the simulation has no time left to carry it *)
(* out, which only the CLI could give it; and that of `iop step 0' for 2^60 *)
(* instructions, until a breakpoint ends them.                              *)
WaitsForEver ==
  \/ cli = "quota:wait" /\ scpc = "none"
  \/ cli \in {"step", "step:wait"} /\ asked = Endless /\ ~broke
  \/ xact # "none" /\ scpc = "wait"

CliReturns == (cli # "idle") ~> (cli = "idle" \/ Ended \/ WaitsForEver)

(* All simulated time that is added to the quota is simulated, once the     *)
(* thread has been launched, whenever it is added.                          *)
QuotaSimulated ==
  \A n \in 1..MaxTime :
    (added = n /\ scpc # "none") ~> (simulated >= n \/ Ended)

(* "Exit emulator when SystemC quota expires": once that has been asked for *)
(* the emulator ends when the thread has used up its quota.                 *)
ExitWhenExpired ==
  (sc_quota_exit /\ sc_started = 4 /\ scpc # "none") ~> Ended
=============================================================================
