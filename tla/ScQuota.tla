------------------------------ MODULE ScQuota ------------------------------
(***************************************************************************)
(* The quota of simulated time of the SystemC thread (Chassis/sc.c and     *)
(* sc_main in Chassis/sc_main_thread.cc): the CLI launches the thread and  *)
(* adds to the quota, the thread takes all there is and simulates it.      *)
(* One action is one critical section of sc_mtx.                           *)
(***************************************************************************)
EXTENDS Naturals, CliThread

CONSTANTS
  Amounts,     \* what `sc quota add' adds
  MaxTime      \* bound: how much it adds in all

ASSUME ScAssumption == Amounts \subseteq Nat \ {0} /\ MaxTime \in Nat

VARIABLES
  sc_quota,
  sc_quota_exit,
  sc_started,
  sc_boards,   \* of the boards in sc_boards, the IOC only
  scpc,        \* sc_main: "none", "get", "wait", "run" or "finish"
  dt,          \* what it is simulating
  added,       \* history: what has been added in all, and
  simulated    \* history: how much of it sc_start has been through

scvars == <<sc_quota, sc_quota_exit, sc_started, sc_boards, scpc, dt, added,
            simulated>>

ScInit ==
  /\ sc_quota = 0 /\ sc_quota_exit = FALSE /\ sc_started = 0
  /\ sc_boards = {} /\ scpc = "none" /\ dt = 0 /\ added = 0 /\ simulated = 0

NoSignal == UNCHANGED scpc                                   \* mutant

SignalSc == scpc' = IF scpc = "wait" THEN "get" ELSE scpc

-----------------------------------------------------------------------------
(* sc_main_get_quota                                                        *)
GetStarted == IF sc_started = 1 THEN 2 ELSE sc_started

Hungry(started) == sc_quota = 0 /\ (started < 4 \/ ~sc_quota_exit)

GetWait ==
  /\ scpc = "get" /\ Hungry(GetStarted)
  /\ scpc' = "wait" /\ sc_started' = GetStarted
  /\ UNCHANGED <<cli, sc_boards, sc_quota, sc_quota_exit, dt, added, simulated>>

GetTake ==
  /\ scpc = "get" /\ ~Hungry(GetStarted)
  /\ sc_started' = GetStarted
  /\ dt' = sc_quota /\ sc_quota' = 0
  /\ scpc' = IF sc_quota_exit /\ sc_quota = 0 THEN "finish" ELSE "run"
  /\ UNCHANGED <<cli, sc_boards, sc_quota_exit, added, simulated>>

(* sc_start, in sc_main                                                     *)
Simulate ==
  /\ scpc = "run"
  /\ scpc' = "get" /\ dt' = 0 /\ simulated' = simulated + dt
  /\ UNCHANGED <<cli, sc_boards, sc_quota, sc_quota_exit, sc_started, added>>

-----------------------------------------------------------------------------
(* cli_sc_launch creates the thread for the boards it is given, and waits   *)
(* until it asks for its quota.  Bound: one launch; the code does not       *)
(* refuse a second, which initialises sc_mtx and sc_cond under the first    *)
(* thread and starts SystemC, of which a process has one, again.            *)
Launch ==
  /\ cli = "idle" /\ scpc = "none"
  /\ sc_boards' \in SUBSET {"ioc"}
  /\ sc_started' = 1 /\ scpc' = "get" /\ cli' = "launch"
  /\ UNCHANGED <<sc_quota, sc_quota_exit, dt, added, simulated>>

Launched ==
  /\ cli = "launch" /\ sc_started >= 2
  /\ sc_started' = 3 /\ cli' = "idle"
  /\ UNCHANGED <<sc_boards, sc_quota, sc_quota_exit, scpc, dt, added, simulated>>

(* cli_sc_quota_add: the quota counts before and after the launch.          *)
QuotaAdd(n) ==
  /\ cli = "idle" /\ added + n <= MaxTime
  /\ sc_quota' = sc_quota + n /\ added' = added + n
  /\ sc_started' = 4
  /\ SignalSc
  /\ UNCHANGED <<cli, sc_boards, sc_quota_exit, dt, simulated>>

(* cli_sc_quota_exit                                                        *)
QuotaExit ==
  /\ cli = "idle"
  /\ sc_quota_exit' = TRUE
  /\ UNCHANGED <<cli, sc_boards, sc_quota, sc_started, scpc, dt, added, simulated>>

(* cli_sc_quota_wait looks again every 100 milliseconds.                    *)
QuotaWait ==
  /\ cli = "idle"
  /\ cli' = "quota:wait"
  /\ UNCHANGED scvars

QuotaWaited ==
  /\ cli = "quota:wait" /\ sc_quota = 0
  /\ cli' = "idle"
  /\ UNCHANGED scvars

ScThread == GetWait \/ GetTake \/ Simulate

ScNext ==
  \/ ScThread
  \/ Launch \/ Launched
  \/ (\E n \in Amounts : QuotaAdd(n))
  \/ QuotaExit \/ QuotaWait \/ QuotaWaited
=============================================================================
