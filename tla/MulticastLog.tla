---------------------------- MODULE MulticastLog ----------------------------
(***************************************************************************)
(* What the output side of an `elastic' promises, without its queues, its  *)
(* mutex or its threads: one log of messages, numbered in the order they   *)
(* were put, and a cursor per subscriber.  A subscriber that joins is      *)
(* given every message nobody has been given yet, and from then on every   *)
(* message until it leaves; what it was given it consumes in order, once,  *)
(* and to the end, also after it has left.                                 *)
(***************************************************************************)
EXTENDS Naturals

CONSTANT Subs            \* every subscriber that ever joins

VARIABLES
  published,             \* messages put so far: they are numbered 1..published
  claimed,               \* messages 1..claimed were handed to some subscriber
  member,                \* the subscribers that are on the list now
  joined,                \* the subscribers that were ever on it
  from,                  \* from[s]: s is given the messages after this one
  upto,                  \* upto[s]: the last message s is given, once it left
  consumed               \* consumed[s]: how many messages s has consumed

lvars == <<published, claimed, member, joined, from, upto, consumed>>

Given(s) == (IF s \in member THEN published ELSE upto[s]) - from[s]

LogInit ==
  /\ published = 0
  /\ claimed = 0
  /\ member = {}
  /\ joined = {}
  /\ from = [s \in Subs |-> 0]
  /\ upto = [s \in Subs |-> 0]
  /\ consumed = [s \in Subs |-> 0]

Publish ==
  /\ published' = published + 1
  /\ claimed' = IF member = {} THEN claimed ELSE published + 1
  /\ UNCHANGED <<member, joined, from, upto, consumed>>

Join(s) ==
  /\ s \notin joined
  /\ member' = member \cup {s}
  /\ joined' = joined \cup {s}
  /\ from' = [from EXCEPT ![s] = claimed]
  /\ claimed' = published
  /\ UNCHANGED <<published, upto, consumed>>

Leave(s) ==
  /\ s \in member
  /\ member' = member \ {s}
  /\ upto' = [upto EXCEPT ![s] = published]
  /\ UNCHANGED <<published, claimed, joined, from, consumed>>

Consume(s) ==
  /\ s \in joined
  /\ consumed[s] < Given(s)
  /\ consumed' = [consumed EXCEPT ![s] = @ + 1]
  /\ UNCHANGED <<published, claimed, member, joined, from, upto>>

LogNext == Publish \/ \E s \in Subs : Join(s) \/ Leave(s) \/ Consume(s)

LogSafety == LogInit /\ [][LogNext]_lvars

LogSpec == LogSafety /\ \A s \in Subs : WF_lvars(Consume(s))
=============================================================================
