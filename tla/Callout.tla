------------------------------ MODULE Callout ------------------------------
(***************************************************************************)
(* Simulated time: the callout queue (Infra/callout.c) and the clock part  *)
(* of the main loop (main_ioc in Iop/iop_main.c).  The CPU thread executes *)
(* an instruction, advances simclock, runs what has become due, and, when  *)
(* the CPU is stopped, moves simclock to the next callout.  Other threads  *)
(* put themselves to sleep (callout_sleep), the clock chip waits for a     *)
(* periodic signal (callout_signal_cond), and register writes ask for a    *)
(* callback (callout_callback).                                            *)
(*                                                                         *)
(* The code only compares and subtracts times, so every time is kept       *)
(* relative to simclock: advancing simclock lowers all of them.            *)
(***************************************************************************)
EXTENDS Integers, SequencesExt, Rtc

CONSTANTS
  Sleepers,    \* threads that call callout_sleep
  Durations,   \* for how long they do
  Shots,       \* one-shot callbacks; a device asks again when it has run
  Delays,      \* ... and for which delay
  Costs,       \* what m68k_execute(1) returns; 1 is "stopped"
  PitRepeat,   \* the period of the timer callback, 25600
  RtcRepeat    \* the period of the clock chip, 1000000

ASSUME CalloutAssumption ==
  /\ Durations \subseteq Nat \ {0} /\ Delays \subseteq Nat
  /\ Costs \subseteq Nat \ {0} /\ \E c \in Costs : \A d \in Costs : d <= c
  /\ PitRepeat \in Nat \ {0} /\ RtcRepeat \in Nat \ {0}

VARIABLES
  callouts,    \* the queue: records as Entry makes them
  pc,          \* the CPU thread in its loop and in callout_poll
  stopped,     \* m68k_execute returned 1
  co,          \* the callout it has taken off the queue, or << >>
  rv,          \* what callout_poll returned: << time >>, or << >> for 0
  spc,         \* each sleeper in callout_sleep
  slp,         \* its struct sleeps, and
  until,       \* co->when of its callout
  idle_sleeps, \* the free ones
  nsleeps,     \* how many have been allocated
  rtc,         \* the thread of the clock chip
  phase        \* history: simclock modulo PitRepeat

vars == <<callouts, pc, stopped, co, rv, spc, slp, until, idle_sleeps,
          nsleeps, rtc, phase>>

(* how names the function, priv what it is called with.                     *)
Entry(how, priv, when, repeat) ==
  [how |-> how, priv |-> priv, when |-> when, repeat |-> repeat]

(* callout_mtx is held by a sleeper between its two actions; the poll takes *)
(* it for each of its steps.                                                *)
Mutex == \A t \in Sleepers : spc[t] # "locked"

Queued(how) == {i \in DOMAIN callouts : callouts[i].how = how}

(* callout_insert_locked: before the first callout with a later time.       *)
Insert(list, c) ==
  LET p == SelectInSeq(list, LAMBDA c2 : c2.when > c.when)
  IN IF p = 0 THEN Append(list, c) ELSE InsertAt(list, p, c)

(* ioc_init has asked for the timer callback (callout_callback) and the     *)
(* thread of the clock chip for its signal (callout_signal_cond).           *)
Init ==
  /\ callouts = Insert(<< Entry("pit", 0, 0, PitRepeat) >>,
                        Entry("rtc", 0, RtcRepeat, RtcRepeat))
  /\ pc = "exec" /\ stopped = FALSE /\ co = << >> /\ rv = << >>
  /\ spc = [t \in Sleepers |-> "idle"]
  /\ slp = [t \in Sleepers |-> 0]
  /\ until = [t \in Sleepers |-> 0]
  /\ idle_sleeps = << >> /\ nsleeps = 0
  /\ rtc = "wait"
  /\ phase = 0

(* t waits for a callout that has yet to be run.                            *)
Asleep(t) ==
  \/ spc[t] = "locked"
  \/ spc[t] = "wait" /\ \E i \in Queued("sleep") : callouts[i].priv = slp[t]

Later(n) ==
  /\ until' = [t \in Sleepers |->
                IF Asleep(t) THEN until[t] - n ELSE 0]
  /\ phase' = (phase + n) % PitRepeat

Shift(list, n) == [i \in DOMAIN list |-> [list[i] EXCEPT !.when = @ - n]]

-----------------------------------------------------------------------------
(* main_ioc: m68k_execute(1) and simclock += 100 * i.  The instruction may  *)
(* write to a device, which asks for its callback (callout_callback).       *)
Execute(i) ==
  /\ pc = "exec"
  /\ pc' = "poll" /\ stopped' = (i = 1)
  /\ callouts' = Shift(callouts, i) /\ Later(i)
  /\ UNCHANGED <<co, rv, spc, slp, idle_sleeps, nsleeps, rtc>>

Ask(x, d) ==
  /\ pc = "exec" /\ Mutex
  /\ \A i \in Queued("shot") : callouts[i].priv # x
  /\ callouts' = Insert(callouts, Entry("shot", x, d, 0))
  /\ UNCHANGED <<pc, stopped, co, rv, spc, slp, until, idle_sleeps, nsleeps,
                 rtc, phase>>

(* callout_poll: take the first callout if it is overdue ...                *)
Due == callouts # << >> /\ Head(callouts).when < 0

PollTake ==
  /\ pc = "poll" /\ Mutex /\ Due
  /\ co' = << Head(callouts) >>
  /\ callouts' = Tail(callouts)
  /\ pc' = "run"
  /\ UNCHANGED <<stopped, rv, spc, slp, until, idle_sleeps, nsleeps, rtc, phase>>

(* ... else return the time of the first one, or 0.                         *)
PollReturn ==
  /\ pc = "poll" /\ Mutex /\ ~Due
  /\ IF stopped
       THEN /\ rv' = IF callouts = << >> THEN << >> ELSE << Head(callouts).when >>
            /\ pc' = "jump"
       ELSE UNCHANGED rv /\ pc' = "exec"
  /\ stopped' = FALSE
  /\ UNCHANGED <<callouts, co, spc, slp, until, idle_sleeps, nsleeps,
                 rtc, phase>>

SignalNobody(c) == UNCHANGED spc                             \* mutant

(* How a condition variable is signalled: one that waits on it, if any does.*)
Signal(c) ==
  \/ /\ \A t \in Sleepers : ~(spc[t] = "wait" /\ slp[t] = c)
     /\ UNCHANGED spc
  \/ \E t \in Sleepers :
       /\ spc[t] = "wait" /\ slp[t] = c
       /\ spc' = [spc EXCEPT ![t] = "woken"]

RunSleep ==
  /\ pc = "run" /\ co[1].how = "sleep"
  /\ Signal(co[1].priv)
  /\ UNCHANGED rtc

(* callout_func_signal_cond needs the mutex of the clock chip, which its    *)
(* thread holds unless it waits or has yet to wake up.                      *)
RunRtc ==
  /\ pc = "run" /\ co[1].how = "rtc"
  /\ rtc \in {"wait", "woken"}
  /\ rtc' = "woken"
  /\ UNCHANGED spc

(* callout_func_callback                                                    *)
RunCallback ==
  /\ pc = "run" /\ co[1].how \in {"shot", "pit"}
  /\ UNCHANGED <<spc, rtc>>

Run ==
  /\ RunSleep \/ RunRtc \/ RunCallback
  /\ IF co[1].repeat > 0 THEN pc' = "repeat" /\ UNCHANGED co
                         ELSE pc' = "poll" /\ co' = << >>
  /\ UNCHANGED <<callouts, stopped, rv, slp, until, idle_sleeps, nsleeps, phase>>

RepeatFromNow ==                                             \* mutant
  /\ pc = "repeat" /\ Mutex
  /\ callouts' = Insert(callouts, [co[1] EXCEPT !.when = co[1].repeat])
  /\ co' = << >> /\ pc' = "poll"
  /\ UNCHANGED <<stopped, rv, spc, slp, until, idle_sleeps, nsleeps, rtc, phase>>

Repeat ==
  /\ pc = "repeat" /\ Mutex
  /\ callouts' = Insert(callouts, [co[1] EXCEPT !.when = @ + co[1].repeat])
  /\ co' = << >> /\ pc' = "poll"
  /\ UNCHANGED <<stopped, rv, spc, slp, until, idle_sleeps, nsleeps, rtc, phase>>

(* main_ioc, stopped: simclock += ns, where ns is what callout_poll         *)
(* returned less simclock.  A 0 would set simclock back to 0.               *)
Jump ==
  /\ pc = "jump"
  /\ pc' = IF rv = << >> THEN "reset" ELSE "exec"
  /\ LET ns == IF rv = << >> THEN 0 ELSE rv[1]
     IN callouts' = Shift(callouts, ns) /\ Later(ns)
  /\ rv' = << >>
  /\ UNCHANGED <<stopped, co, spc, slp, idle_sleeps, nsleeps, rtc>>

Cpu ==
  \/ \E i \in Costs : Execute(i)
  \/ PollTake \/ PollReturn \/ Run \/ Repeat \/ Jump

-----------------------------------------------------------------------------
(* callout_sleep: lock, take a struct sleeps from the pool or allocate one, *)
(* and read simclock ...                                                    *)
SleepLock(t, d) ==
  /\ spc[t] = "idle" /\ Mutex
  /\ spc' = [spc EXCEPT ![t] = "locked"]
  /\ IF idle_sleeps # << >>
       THEN /\ slp' = [slp EXCEPT ![t] = Head(idle_sleeps)]
            /\ idle_sleeps' = Tail(idle_sleeps) /\ UNCHANGED nsleeps
       ELSE /\ slp' = [slp EXCEPT ![t] = nsleeps]
            /\ nsleeps' = nsleeps + 1 /\ UNCHANGED idle_sleeps
  /\ until' = [until EXCEPT ![t] = d]
  /\ UNCHANGED <<callouts, pc, stopped, co, rv, rtc, phase>>

(* ... queue the callout and wait, which releases the mutex.                *)
SleepInsert(t) ==
  /\ spc[t] = "locked"
  /\ callouts' = Insert(callouts, Entry("sleep", slp[t], until[t], 0))
  /\ spc' = [spc EXCEPT ![t] = "wait"]
  /\ UNCHANGED <<pc, stopped, co, rv, slp, until, idle_sleeps, nsleeps, rtc, phase>>

SleepReturnKeeps(t) ==                                       \* mutant
  /\ spc[t] = "woken" /\ Mutex
  /\ spc' = [spc EXCEPT ![t] = "idle"]
  /\ slp' = [slp EXCEPT ![t] = 0] /\ until' = [until EXCEPT ![t] = 0]
  /\ idle_sleeps' = << slp[t], slp[t] >> \o idle_sleeps
  /\ UNCHANGED <<callouts, pc, stopped, co, rv, nsleeps, rtc, phase>>

SleepReturn(t) ==
  /\ spc[t] = "woken" /\ Mutex
  /\ spc' = [spc EXCEPT ![t] = "idle"]
  /\ slp' = [slp EXCEPT ![t] = 0] /\ until' = [until EXCEPT ![t] = 0]
  /\ idle_sleeps' = << slp[t] >> \o idle_sleeps
  /\ UNCHANGED <<callouts, pc, stopped, co, rv, nsleeps, rtc, phase>>

(* ioc_rtc_thread: a tick per wakeup.                                       *)
RtcTick ==
  /\ rtc = "woken"
  /\ rtc' = "tick"
  /\ UNCHANGED <<callouts, pc, stopped, co, rv, spc, slp, until, idle_sleeps,
                 nsleeps, phase>>

RtcWait ==
  /\ rtc = "tick"
  /\ rtc' = "wait"
  /\ UNCHANGED <<callouts, pc, stopped, co, rv, spc, slp, until, idle_sleeps,
                 nsleeps, phase>>

Next ==
  \/ Cpu
  \/ \E x \in Shots, d \in Delays : Ask(x, d)
  \/ \E t \in Sleepers :
       SleepInsert(t) \/ SleepReturn(t) \/ \E d \in Durations : SleepLock(t, d)
  \/ RtcTick \/ RtcWait

Safety == Init /\ [][Next]_vars

(* The CPU thread goes round its loop and the other threads finish what     *)
(* they have begun.  The thread waiting for a mutex gets it in the end.     *)
Spec ==
  /\ Safety
  /\ SF_vars(Cpu)
  /\ \A t \in Sleepers : WF_vars(SleepInsert(t)) /\ SF_vars(SleepReturn(t))
  /\ WF_vars(RtcTick \/ RtcWait)

-----------------------------------------------------------------------------
(* What may be asked for: each way to be called has its period, or none.    *)
Period(how) == IF how = "pit" THEN PitRepeat ELSE IF how = "rtc" THEN RtcRepeat ELSE 0

Entries ==
  {c \in [how : {"sleep", "shot", "pit", "rtc"}, priv : Nat \cup Shots,
          when : Int, repeat : Nat] : c.repeat = Period(c.how)}

TypeOK ==
  /\ callouts \in Seq(Entries)
  /\ pc \in {"exec", "poll", "run", "repeat", "jump", "reset"}
  /\ stopped \in BOOLEAN
  /\ co \in Seq(Entries) /\ Len(co) = (IF pc \in {"run", "repeat"} THEN 1 ELSE 0)
  /\ rv \in Seq(Int) /\ Len(rv) <= 1
  /\ spc \in [Sleepers -> {"idle", "locked", "wait", "woken"}]
  /\ slp \in [Sleepers -> Nat] /\ until \in [Sleepers -> Int]
  /\ idle_sleeps \in Seq(Nat) /\ nsleeps \in Nat
  /\ rtc \in {"wait", "woken", "tick"}
  /\ phase \in 0..(PitRepeat - 1)

(* A thread wakes from callout_sleep only when its time is over, and at     *)
(* that moment nobody else's is due earlier: its condition variable comes   *)
(* from a pool, is signalled without the mutex and has been waited for by   *)
(* others.                                                                  *)
SleepNotShort ==
  [][\A t \in Sleepers : spc[t] = "wait" /\ spc'[t] = "woken" =>
       until[t] < 0 /\ \A i \in DOMAIN callouts : callouts[i].when >= until[t]]_vars

(* The timer callback keeps to its grid: its times are multiples of the     *)
(* period since the start, and none is skipped or run twice, whatever the   *)
(* instructions cost, however far an idle CPU jumps and whoever sleeps.     *)
PitOnGrid ==
  /\ \A i \in Queued("pit") : (callouts[i].when + phase) % PitRepeat = 0
  /\ pc = "exec" => \E i \in Queued("pit") : callouts[i].when \in 0..PitRepeat
  /\ Cardinality(Queued("pit")) <= 1

Longest == CHOOSE c \in Costs : \A d \in Costs : d <= c

LateByOneJump ==
  \A i \in DOMAIN callouts : callouts[i].when >= -(PitRepeat + Longest)

(* Time runs straight: the timer keeps to its grid, nothing is ever later   *)
(* than one idle jump and one instruction, although a thread may queue a    *)
(* callout behind the back of a CPU that has decided how far to jump, and   *)
(* simclock never falls back to 0 because the queue is empty; the last two  *)
(* thanks to the timer callback, which is always in it.                     *)
OnTime == PitOnGrid /\ LateByOneJump /\ pc # "reset"

(* When the thread of the clock chip takes a signal, its registers move on  *)
(* by a millisecond, whichever of the instants they hold: each keeps two    *)
(* decimal digits within its range, the carry goes through the end of the   *)
(* minute, hour, day, month and year, and the day of the week follows.      *)
RtcCounts == rtc = "tick" => CountsUp

(* Whoever goes to sleep wakes up and returns, and the clock chip gets      *)
(* signal after signal.                                                     *)
SleepEnds ==
  /\ \A t \in Sleepers : (spc[t] # "idle") ~> (spc[t] = "idle")
  /\ []<>(rtc = "tick")

-----------------------------------------------------------------------------
(* The inductive invariant.  The queue is ordered by time, and nothing is   *)
(* asked for twice; the callout that has been taken off it is overdue, is   *)
(* not in it any more, and nothing that is comes before it.                 *)
Same(c, d) == c.how = d.how /\ c.priv = d.priv

Ordered(list) == \A i, j \in DOMAIN list : i < j => list[i].when <= list[j].when

Distinct(list) == \A i, j \in DOMAIN list : Same(list[i], list[j]) => i = j

QueueInv ==
  /\ Ordered(callouts) /\ Distinct(callouts)
  /\ \A c \in Range(co) :
       /\ c.when < 0
       /\ \A d \in Range(callouts) : ~ Same(c, d) /\ c.when <= d.when
       /\ pc = "repeat" => c.repeat > 0

(* Where the clock is: nobody is overdue but by an idle jump, which goes no *)
(* farther than to the timer callback, and by an instruction after it.      *)
Earliest ==
  IF pc = "jump" THEN 0
  ELSE IF pc = "exec" THEN -PitRepeat ELSE -(PitRepeat + Longest)

TimeInv ==
  /\ pc # "reset" /\ (rv # << >> <=> pc = "jump")
  /\ \A c \in Range(callouts) \cup Range(co) : c.when >= Earliest
  /\ \A t \in Sleepers : spc[t] = "locked" =>
       until[t] >= (IF pc \in {"run", "repeat"} THEN 0 ELSE Earliest)
  /\ \E c \in Range(callouts) \cup Range(co) : c.how = "pit"
  /\ \A c \in Range(callouts) \cup Range(co) :
       c.how = "pit" =>
         /\ c.priv = 0 /\ c.when <= PitRepeat /\ (c.when + phase) % PitRepeat = 0
         /\ pc \in {"exec", "jump"} => c.when >= 0
         /\ pc = "jump" => rv[1] \in 0..c.when

(* Who has a struct sleeps of the pool has it alone, and whoever waits on   *)
(* it has one callout for it, which is queued, or is being run.             *)
PoolInv ==
  /\ \A t \in Sleepers : spc[t] # "idle" => slp[t] < nsleeps
  /\ \A t, u \in Sleepers :
       spc[t] # "idle" /\ spc[u] # "idle" /\ slp[t] = slp[u] => t = u
  /\ \A i \in DOMAIN idle_sleeps :
       /\ idle_sleeps[i] < nsleeps
       /\ \A t \in Sleepers : spc[t] # "idle" => slp[t] # idle_sleeps[i]
       /\ \A j \in DOMAIN idle_sleeps : idle_sleeps[i] = idle_sleeps[j] => i = j

WaitInv ==
  /\ \A t \in Sleepers : spc[t] = "wait" =>
       Entry("sleep", slp[t], until[t], 0) \in Range(callouts) \cup Range(co)
  /\ \A c \in Range(callouts) \cup Range(co) : c.how = "sleep" =>
       \E t \in Sleepers : spc[t] = "wait" /\ slp[t] = c.priv

IInv == TypeOK /\ QueueInv /\ TimeInv /\ PoolInv /\ WaitInv
=============================================================================
