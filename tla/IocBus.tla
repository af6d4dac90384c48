------------------------------- MODULE IocBus -------------------------------
(***************************************************************************)
(* The bus between the IOC CPU and the simulated IOC board (Iop/iop_sc.c,  *)
(* Iop/iop_sc_68k20.cc): an instruction that touches the board queues a    *)
(* transaction and sleeps in m68k_execute, holding no mutex of the CPU,    *)
(* until the simulation has carried it out; the simulation does so while   *)
(* it has time to simulate, and stops anywhere when it has not.            *)
(*                                                                         *)
(* Only the CPU thread queues transactions, and waits for each: there is   *)
(* at most one.  Bound: an instruction has one access at most.             *)
(***************************************************************************)
EXTENDS IocCpu, ScQuota

VARIABLE
  xact         \* "none", "queued", or "in_progress" in the simulation

BusInit == xact = "none"

OnBoard == "ioc" \in sc_boards /\ sc_started # 0

\* that does not wait for the transaction
ScheduleBug ==
  /\ mpc = "execute" /\ OnBoard /\ xact = "none"
  /\ xact' = "queued" /\ mpc' = "accessed"
  /\ UNCHANGED <<cli, quota, running, rxpc, asked, executed, broke, scvars>>

\* ioc_bus_xact_schedule, by the CPU thread.  Without a simulated board it
\* returns what it was given, and nothing changes.
Schedule ==
  /\ mpc = "execute" /\ OnBoard
  /\ xact' = "queued" /\ mpc' = "bus"
  /\ UNCHANGED <<cli, quota, running, rxpc, asked, executed, broke, scvars>>

\* ioc_sc_bus_get_xact: each clock of the simulated CPU asks for one.
GetXact ==
  /\ scpc = "run" /\ xact = "queued"
  /\ xact' = "in_progress"
  /\ UNCHANGED <<cli, cpuvars, scvars>>

\* ioc_sc_bus_done wakes the CPU thread, which finishes its instruction.
XactDone ==
  /\ scpc = "run" /\ xact = "in_progress"
  /\ xact' = "none"
  /\ mpc' = IF mpc = "bus" THEN "accessed" ELSE mpc
  /\ UNCHANGED <<cli, quota, running, rxpc, asked, executed, broke, scvars>>

BusNext == Schedule \/ GetXact \/ XactDone
=============================================================================
