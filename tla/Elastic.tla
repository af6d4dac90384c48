------------------------------ MODULE Elastic ------------------------------
(***************************************************************************)
(* The output side of an elastic buffer (Infra/elastic.c): elastic_put     *)
(* hands every chunk to every subscriber, each subscriber has a queue and  *)
(* a thread that delivers from it, and chunks put while nobody subscribes  *)
(* wait on the elastic for the first subscriber.                           *)
(*                                                                         *)
(* One action is one critical section of ep->mtx, or one step taken        *)
(* outside it.  A chunk is its serial number: the n-th elastic_put is n.   *)
(***************************************************************************)
EXTENDS Naturals, Sequences

CONSTANTS
  Subs,        \* every subscriber there will ever be
  Leavers,     \* those somebody unsubscribes: `>' files, serial and telnet
  MaxPut       \* bound: how many chunks are put

ASSUME ElasticAssumption == Leavers \subseteq Subs /\ MaxPut \in Nat

VARIABLES
  subscribers, \* ep->subscribers
  chunks_out,  \* ep->chunks_out: the backlog nobody has been given yet
  chunks,      \* esp->chunks, the queue of each subscriber
  die,         \* esp->die
  spc,         \* where the thread of each subscriber is
  cur,         \* the chunk it is delivering: << >> or << n >>
  upc,         \* how far elastic_unsubscribe(esp) has come
  dpc,         \* where elastic_drain is; its one caller is the IOC CPU thread
  nput,        \* history: chunks put so far
  base,        \* history: the last chunk put that is not for this subscriber
  left,        \* history: nput when it was taken off the list
  delivered,   \* history: the chunks handed to esp->func, in order
  dmark        \* history: nput when elastic_drain was called

vars == <<subscribers, chunks_out, chunks, die, spc, cur, upc, dpc,
          nput, base, left, delivered, dmark>>

(* "none": not yet allocated.  "fetch": about to evaluate the loop of       *)
(* elastic_subscriber_fetch.  "wait": in its pthread_cond_wait.  "deliver": *)
(* in esp->func.  "exit": past the loop with nothing left.  "gone": its     *)
(* condition variable is destroyed and the subscriber freed.                *)
SubPc == {"none", "fetch", "wait", "deliver", "exit", "gone"}

NotWoken(s) == spc[s]                                        \* mutant

Woken(s) == IF spc[s] = "wait" THEN "fetch" ELSE spc[s]

DrainNotWoken == dpc                                         \* mutant

DrainWoken == IF dpc = "wait" THEN "check" ELSE dpc

Init ==
  /\ subscribers = {}
  /\ chunks_out = << >>
  /\ chunks = [s \in Subs |-> << >>]
  /\ die = [s \in Subs |-> FALSE]
  /\ spc = [s \in Subs |-> "none"]
  /\ cur = [s \in Subs |-> << >>]
  /\ upc = [s \in Subs |-> "no"]
  /\ dpc = "idle"
  /\ nput = 0
  /\ base = [s \in Subs |-> 0]
  /\ left = [s \in Subs |-> 0]
  /\ delivered = [s \in Subs |-> << >>]
  /\ dmark = 0

-----------------------------------------------------------------------------
(* elastic_put: to the backlog when nobody subscribes, else a copy to every *)
(* subscriber, each of them signalled.                                      *)
PutBacklog ==
  /\ nput < MaxPut
  /\ subscribers = {}
  /\ nput' = nput + 1
  /\ chunks_out' = Append(chunks_out, nput + 1)
  /\ UNCHANGED <<subscribers, chunks, die, spc, cur, upc, dpc,
                 base, left, delivered, dmark>>

PutCopies ==
  /\ nput < MaxPut
  /\ subscribers # {}
  /\ nput' = nput + 1
  /\ chunks' = [s \in Subs |-> IF s \in subscribers
                                THEN Append(chunks[s], nput + 1)
                                ELSE chunks[s]]
  /\ spc' = [s \in Subs |-> IF s \in subscribers THEN Woken(s) ELSE spc[s]]
  /\ UNCHANGED <<subscribers, chunks_out, die, cur, upc, dpc,
                 base, left, delivered, dmark>>

(* Mutant: the backlog is dropped when the first subscriber comes.          *)
SubscribeDrops(s) ==
  /\ spc[s] = "none"
  /\ subscribers' = subscribers \cup {s}
  /\ chunks_out' = << >>
  /\ spc' = [spc EXCEPT ![s] = "fetch"]
  /\ base' = [base EXCEPT ![s] = nput]
  /\ UNCHANGED <<chunks, die, cur, upc, dpc, nput, left, delivered, dmark>>

(* elastic_subscribe: the first one to come takes the whole backlog.        *)
Subscribe(s) ==
  /\ spc[s] = "none"
  /\ subscribers' = subscribers \cup {s}
  /\ chunks' = [chunks EXCEPT ![s] = chunks_out]
  /\ chunks_out' = << >>
  /\ spc' = [spc EXCEPT ![s] = "fetch"]
  /\ base' = [base EXCEPT ![s] = nput - Len(chunks_out)]
  /\ UNCHANGED <<die, cur, upc, dpc, nput, left, delivered, dmark>>

(* elastic_unsubscribe holds the mutex to mark the subscriber and take it   *)
(* off the list, and signals it after letting go of the mutex.              *)
Unsubscribe(s) ==
  /\ s \in subscribers \cap Leavers
  /\ upc[s] = "no"
  /\ die' = [die EXCEPT ![s] = TRUE]
  /\ subscribers' = subscribers \ {s}
  /\ upc' = [upc EXCEPT ![s] = "removed"]
  /\ left' = [left EXCEPT ![s] = nput]
  /\ UNCHANGED <<chunks_out, chunks, spc, cur, dpc, nput, base, delivered, dmark>>

UnsubscribeSignal(s) ==
  /\ upc[s] = "removed"
  /\ upc' = [upc EXCEPT ![s] = "done"]
  /\ spc' = [spc EXCEPT ![s] = Woken(s)]
  /\ UNCHANGED <<subscribers, chunks_out, chunks, die, cur, dpc,
                 nput, base, left, delivered, dmark>>

-----------------------------------------------------------------------------
(* elastic_subscriber_fetch, the part under the mutex: one of a wait, a     *)
(* chunk, or the end.                                                       *)
FetchWait(s) ==
  /\ spc[s] = "fetch" /\ ~die[s] /\ chunks[s] = << >>
  /\ spc' = [spc EXCEPT ![s] = "wait"]
  /\ dpc' = DrainWoken
  /\ UNCHANGED <<subscribers, chunks_out, chunks, die, cur, upc,
                 nput, base, left, delivered, dmark>>

(* Mutant: a subscriber told to die leaves its queue behind.                *)
FetchChunkAlive(s) ==
  /\ spc[s] = "fetch" /\ chunks[s] # << >>
  /\ cur' = [cur EXCEPT ![s] = IF die[s] THEN << >> ELSE << Head(chunks[s]) >>]
  /\ chunks' = [chunks EXCEPT ![s] = IF die[s] THEN << >> ELSE Tail(@)]
  /\ spc' = [spc EXCEPT ![s] = IF die[s] THEN "exit" ELSE "deliver"]
  /\ UNCHANGED <<subscribers, chunks_out, die, upc, dpc,
                 nput, base, left, delivered, dmark>>

FetchChunk(s) ==
  /\ spc[s] = "fetch" /\ chunks[s] # << >>
  /\ cur' = [cur EXCEPT ![s] = << Head(chunks[s]) >>]
  /\ chunks' = [chunks EXCEPT ![s] = Tail(@)]
  /\ spc' = [spc EXCEPT ![s] = "deliver"]
  /\ UNCHANGED <<subscribers, chunks_out, die, upc, dpc,
                 nput, base, left, delivered, dmark>>

FetchEnd(s) ==
  /\ spc[s] = "fetch" /\ die[s] /\ chunks[s] = << >>
  /\ spc' = [spc EXCEPT ![s] = "exit"]
  /\ UNCHANGED <<subscribers, chunks_out, chunks, die, cur, upc, dpc,
                 nput, base, left, delivered, dmark>>

(* ... and after the mutex is released: destroy the condition and free.     *)
FetchFree(s) ==
  /\ spc[s] = "exit"
  /\ spc' = [spc EXCEPT ![s] = "gone"]
  /\ UNCHANGED <<subscribers, chunks_out, chunks, die, cur, upc, dpc,
                 nput, base, left, delivered, dmark>>

(* elastic_subscriber_thread: esp->func has returned.                       *)
Deliver(s) ==
  /\ spc[s] = "deliver"
  /\ delivered' = [delivered EXCEPT ![s] = @ \o cur[s]]
  /\ cur' = [cur EXCEPT ![s] = << >>]
  /\ spc' = [spc EXCEPT ![s] = "fetch"]
  /\ UNCHANGED <<subscribers, chunks_out, chunks, die, upc, dpc,
                 nput, base, left, dmark>>

-----------------------------------------------------------------------------
(* elastic_drain looks at the list without the mutex and returns -1 when it *)
(* is empty; else it loops until it sees every queue on the list empty.     *)
DrainCall ==
  /\ dpc = "idle"
  /\ subscribers # {}
  /\ dpc' = "check"
  /\ dmark' = nput
  /\ UNCHANGED <<subscribers, chunks_out, chunks, die, spc, cur, upc,
                 nput, base, left, delivered>>

DrainBusyAll == \A s \in subscribers : chunks[s] # << >>     \* mutant

DrainBusy == \E s \in subscribers : chunks[s] # << >>

DrainCheck ==
  /\ dpc = "check"
  /\ IF DrainBusy THEN dpc' = "wait" /\ UNCHANGED dmark
                  ELSE dpc' = "idle" /\ dmark' = 0
  /\ UNCHANGED <<subscribers, chunks_out, chunks, die, spc, cur, upc,
                 nput, base, left, delivered>>

-----------------------------------------------------------------------------
Thread(s) ==
  FetchWait(s) \/ FetchChunk(s) \/ FetchEnd(s) \/ FetchFree(s) \/ Deliver(s)

Next ==
  \/ PutBacklog
  \/ PutCopies
  \/ DrainCall
  \/ DrainCheck
  \/ \E s \in Subs :
       Subscribe(s) \/ Unsubscribe(s) \/ UnsubscribeSignal(s) \/ Thread(s)

Safety == Init /\ [][Next]_vars

(* The threads run and esp->func returns.  A caller inside a library call   *)
(* finishes it; nobody has to put, subscribe, unsubscribe or drain.         *)
Spec ==
  /\ Safety
  /\ WF_vars(DrainCheck)
  /\ \A s \in Subs : WF_vars(Thread(s)) /\ WF_vars(UnsubscribeSignal(s))

-----------------------------------------------------------------------------
(* The types, that a thread holds one chunk while it delivers and none at   *)
(* any other time, and that the backlog is no longer than what was put.     *)
TypeOK ==
  /\ subscribers \subseteq Subs
  /\ chunks_out \in Seq(Nat)
  /\ chunks \in [Subs -> Seq(Nat)]
  /\ die \in [Subs -> BOOLEAN]
  /\ spc \in [Subs -> SubPc]
  /\ cur \in [Subs -> Seq(Nat)]
  /\ upc \in [Subs -> {"no", "removed", "done"}]
  /\ dpc \in {"idle", "check", "wait"}
  /\ nput \in Nat
  /\ base \in [Subs -> Nat]
  /\ left \in [Subs -> Nat]
  /\ delivered \in [Subs -> Seq(Nat)]
  /\ dmark \in Nat
  /\ Len(chunks_out) <= nput
  /\ \A s \in Subs : Len(cur[s]) = IF spc[s] = "deliver" THEN 1 ELSE 0

(* The last chunk that was put for subscriber s.                            *)
LastPut(s) == IF upc[s] = "no" THEN nput ELSE left[s]

(* Everything s was handed, is being handed and has queued.                 *)
Stream(s) == delivered[s] \o cur[s] \o chunks[s]

(* What a subscriber is handed, holds and has queued is, in that order,     *)
(* exactly the chunks put between its subscription (and the backlog it      *)
(* took over) and its removal: none lost, doubled or overtaken, whatever    *)
(* puts, subscriptions and removals happen around it (elastic_put,          *)
(* elastic_subscribe and elastic_subscriber_fetch agree on the queues).     *)
InOrder ==
  \A s \in Subs : spc[s] # "none" =>
    Stream(s) = [i \in 1..(LastPut(s) - base[s]) |-> base[s] + i]

(* No chunk falls between the backlog and the subscribers: every chunk ever *)
(* put is in the backlog or was put for some subscriber, also when the last *)
(* subscriber leaves and another comes later.                               *)
NoOrphan ==
  \A m \in 1..nput :
    \/ m > nput - Len(chunks_out)
    \/ \E s \in Subs : spc[s] # "none" /\ base[s] < m /\ m <= LastPut(s)

(* The inductive invariant behind InOrder, NoOrphan and the wakeups: the    *)
(* backlog is the newest chunks, nobody subscribes while there is one, the  *)
(* three flags of a subscriber agree, and its stream has the right length   *)
(* and the right element in every place: Done(s) is the last chunk whose    *)
(* delivery is over, Taken(s) the last one taken from the queue.            *)
BacklogInv ==
  /\ \A i \in 1..Len(chunks_out) :
       chunks_out[i] = (nput - Len(chunks_out)) + i
  /\ subscribers # {} => chunks_out = << >>

LifeInv(s) ==
  /\ spc[s] = "none" => /\ upc[s] = "no" /\ ~die[s] /\ chunks[s] = << >>
                        /\ delivered[s] = << >>
  /\ s \in subscribers <=> spc[s] # "none" /\ upc[s] = "no"
  /\ die[s] <=> upc[s] # "no"
  /\ spc[s] \in {"exit", "gone"} => die[s] /\ chunks[s] = << >>
  /\ spc[s] = "wait" => chunks[s] = << >> /\ (die[s] => upc[s] = "removed")

Done(s) == base[s] + Len(delivered[s])

Taken(s) == Done(s) + Len(cur[s])

StreamInv(s) ==
  /\ left[s] <= nput
  /\ spc[s] # "none" => Taken(s) + Len(chunks[s]) = LastPut(s)
  /\ \A i \in 1..Len(delivered[s]) : delivered[s][i] = base[s] + i
  /\ \A i \in 1..Len(cur[s]) : cur[s][i] = Done(s) + i
  /\ \A i \in 1..Len(chunks[s]) : chunks[s][i] = Taken(s) + i

IInv ==
  /\ BacklogInv
  /\ \A s \in Subs : LifeInv(s) /\ StreamInv(s)
  /\ NoOrphan

(* No thread sleeps in elastic_subscriber_fetch with something to do: its   *)
(* queue is empty, and if it was told to die the signal is still to come.   *)
NoLostWakeup ==
  \A s \in Subs : spc[s] = "wait" =>
    chunks[s] = << >> /\ (die[s] => upc[s] = "removed")

(* The condition elastic_unsubscribe signals, after it has let go of the    *)
(* mutex, still exists (AZ(pthread_cond_signal(&esp->cond))).               *)
SignalOnLiveCond == \A s \in Subs : upc[s] = "removed" => spc[s] # "gone"

(* elastic_drain returns 0 only when each subscriber on the list has taken  *)
(* every chunk put before the call out of its queue: at most the chunk in   *)
(* esp->func is not delivered yet.                                          *)
DrainReturnsLate ==
  [][dpc = "check" /\ dpc' = "idle" =>
       \A s \in subscribers :
         dmark <= Taken(s)]_vars

(* Every chunk put for a subscriber is delivered to it in the end, also to  *)
(* one that has been unsubscribed meanwhile.                                *)
AllDelivered ==
  \A s \in Subs, m \in 1..MaxPut :
    (spc[s] # "none" /\ base[s] < m /\ m <= LastPut(s))
      ~> (Done(s) >= m)

(* elastic_drain returns, unless somebody unsubscribes meanwhile: a         *)
(* subscriber that is taken off the list does not signal cond_out.          *)
DrainReturns ==
  (dpc # "idle") ~> (dpc = "idle" \/ \E s \in Subs : upc[s] # "no")

(* The queues, the backlog and the threads implement the multicast log.     *)
Log == INSTANCE MulticastLog WITH
  published <- nput,
  claimed <- nput - Len(chunks_out),
  member <- subscribers,
  joined <- {s \in Subs : spc[s] # "none"},
  from <- base,
  upto <- left,
  consumed <- [s \in Subs |-> Len(delivered[s])]

(* Every behaviour of the queues is one of the log, its liveness included.  *)
ImplementsLog == Log!LogSpec
=============================================================================
