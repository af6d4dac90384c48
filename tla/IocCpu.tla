------------------------------- MODULE IocCpu -------------------------------
(***************************************************************************)
(* Starting and stopping the IOC CPU (Iop/iop_main.c): main_ioc executes   *)
(* while there is a quota of instructions; the CLI sets the quota, or      *)
(* takes it away and waits; a breakpoint takes it away on the CPU thread;  *)
(* the receive threads of the DUART wait for the CPU to run.               *)
(*                                                                         *)
(* One action is one critical section of ioc_cpu_mtx.                      *)
(***************************************************************************)
EXTENDS Naturals, CliThread

CONSTANTS
  Counts,      \* the counts `iop step' is called with, 0 as well
  Endless      \* stands for the quota 1 << 60, which a count of 0 is turned
               \* into: never used up, nor asked for otherwise

ASSUME CpuAssumption ==
  /\ Counts \subseteq Nat /\ Endless \in Nat \ {0}
  /\ \A n \in Counts : n < Endless

VARIABLES
  quota,       \* ioc_cpu_quota
  running,     \* ioc_cpu_running
  mpc,         \* main_ioc: "loop", "wait", "execute" or "account"; within the
               \* instruction also "bus" and "accessed" (IocBus)
  rxpc,        \* a receive thread: "check", "wait" or "past"
  asked,       \* history: the quota the CPU was last started with
  executed,    \* history: the instructions executed of it, unless Endless
  broke        \* history: a breakpoint has stopped the CPU since the start

cpuvars == <<quota, running, mpc, rxpc, asked, executed, broke>>

CpuInit ==
  /\ quota = 0 /\ running = FALSE
  /\ mpc = "loop" /\ rxpc = "check"
  /\ asked = 0 /\ executed = 0 /\ broke = FALSE

(* pthread_cond_broadcast of ioc_cpu_cond_state, on which the CLI waits     *)
(* only until the CPU has stopped and the receive thread until it runs.     *)
NoBroadcast == UNCHANGED <<cli, rxpc>>                       \* mutant

Broadcast ==
  /\ rxpc' = IF rxpc = "wait" THEN "check" ELSE rxpc
  /\ cli' = IF cli = "stop:wait" THEN "stop"
            ELSE IF cli = "reset:wait" THEN "reset"
            ELSE IF cli = "step:wait" THEN "step" ELSE cli

-----------------------------------------------------------------------------
(* main_ioc, holding the mutex: without a quota the CPU is stopped and      *)
(* waits for one ...                                                        *)
Rest ==
  /\ running' = FALSE /\ mpc' = "wait"
  /\ IF running THEN Broadcast ELSE UNCHANGED <<cli, rxpc>>

(* ... with one it runs.                                                    *)
Go ==
  /\ running' = TRUE /\ mpc' = "execute"
  /\ IF running THEN UNCHANGED <<cli, rxpc>> ELSE Broadcast

Loop ==
  /\ mpc = "loop"
  /\ IF quota = 0 THEN Rest ELSE Go
  /\ UNCHANGED <<quota, asked, executed, broke>>

(* Without the mutex, m68k_execute(1); a breakpoint may call ioc_stop_cpu.  *)
Execute ==
  /\ mpc \in {"execute", "accessed"}
  /\ mpc' = "account"
  /\ executed' = IF asked = Endless THEN executed ELSE executed + 1
  /\ UNCHANGED <<cli, quota, running, rxpc, asked, broke>>

Breakpoint ==
  /\ mpc = "execute" /\ ~broke
  /\ quota' = 0 /\ broke' = TRUE
  /\ UNCHANGED <<cli, running, mpc, rxpc, asked, executed>>

(* The quota pays for the instruction, and the loop goes round.             *)
Account ==
  /\ mpc = "account"
  /\ quota' = IF quota \in {0, Endless} THEN quota ELSE quota - 1
  /\ mpc' = "loop"
  /\ UNCHANGED <<cli, running, rxpc, asked, executed, broke>>

-----------------------------------------------------------------------------
(* ioc_start_cpu, called for `iop start' and `iop reset' with 0, and for    *)
(* `iop step'; it wakes main_ioc.  It aborts the emulator when the CPU runs *)
(* (AZ(ioc_cpu_running)): then nothing happens any more.                    *)
StartQuota(n) == IF n = 0 THEN Endless ELSE n

StartCpu(n, next) ==
  /\ IF running
       THEN cli' = "aborted" /\ UNCHANGED <<quota, mpc, asked, executed, broke>>
       ELSE /\ quota' = StartQuota(n) /\ cli' = next
            /\ mpc' = IF mpc = "wait" THEN "loop" ELSE mpc
            /\ asked' = StartQuota(n) /\ executed' = 0 /\ broke' = FALSE
  /\ UNCHANGED <<running, rxpc>>

(* ioc_stop_cpu                                                             *)
StopCpu(next) ==
  /\ quota' = 0 /\ cli' = next
  /\ UNCHANGED <<running, mpc, rxpc, asked, executed, broke>>

CliStart == cli = "idle" /\ StartCpu(0, "idle")

CliStop == cli = "idle" /\ StopCpu("stop")

CliReset == cli = "idle" /\ StopCpu("reset")

(* cli_ioc_step looks at ioc_cpu_running without the mutex, and gives up    *)
(* when the CPU runs.                                                       *)
CliStep ==
  /\ cli = "idle" /\ ~running
  /\ cli' = "step:go"
  /\ UNCHANGED cpuvars

CliStepStart == \E n \in Counts : cli = "step:go" /\ StartCpu(n, "step")

StoppedNotRunning == ~running                                \* mutant

(* ioc_wait_cpu_stopped                                                     *)
Stopped == quota = 0 /\ ~running

WaitStopped ==
  /\ cli \in {"stop", "reset", "step"} /\ ~Stopped
  /\ cli' = IF cli = "stop" THEN "stop:wait"
            ELSE IF cli = "reset" THEN "reset:wait" ELSE "step:wait"
  /\ UNCHANGED cpuvars

StopDone ==
  /\ cli \in {"stop", "step"} /\ Stopped
  /\ cli' = "idle"
  /\ UNCHANGED cpuvars

(* cli_ioc_reset, CPU stopped, loads the reset vector, pulses the reset,    *)
(* all of it without the mutex, and starts the CPU, unless told not to.     *)
ResetStopped ==
  /\ cli = "reset" /\ Stopped
  /\ cli' = "reset:pulse"
  /\ UNCHANGED cpuvars

ResetStart == cli = "reset:pulse" /\ StartCpu(0, "idle")

ResetOnly ==
  /\ cli = "reset:pulse"
  /\ cli' = "idle"
  /\ UNCHANGED cpuvars

(* ioc_wait_cpu_running, by a receive thread of the DUART.                  *)
RxWait ==
  /\ rxpc = "check" /\ ~running
  /\ rxpc' = "wait"
  /\ UNCHANGED <<cli, quota, running, mpc, asked, executed, broke>>

RxPast ==
  /\ rxpc = "check" /\ running
  /\ rxpc' = "past"
  /\ UNCHANGED <<cli, quota, running, mpc, asked, executed, broke>>

Main == Loop \/ Execute \/ Account

CliWaits == WaitStopped \/ StopDone \/ ResetStopped \/ ResetStart \/ ResetOnly
            \/ CliStepStart

CpuNext ==
  \/ Main \/ Breakpoint
  \/ CliStart \/ CliStop \/ CliReset \/ CliStep \/ CliWaits
  \/ RxWait \/ RxPast
=============================================================================
