---------------------------- MODULE ElasticInput ----------------------------
(***************************************************************************)
(* The input side of an elastic buffer (Infra/elastic.c): elastic_inject   *)
(* queues a chunk of bytes, elastic_get takes bytes from the first chunk,  *)
(* at most as many as it was asked for and never across a chunk boundary.  *)
(* The diag bus elastic has two getters, the receive thread of the DUART   *)
(* and the CLI, and the diag processors inject single bytes into it; every *)
(* other elastic has one getter, and files, sockets and the CLI inject     *)
(* longer chunks into it.                                                  *)
(*                                                                         *)
(* One action is one critical section of ep->mtx.  A byte is its serial    *)
(* number.                                                                 *)
(***************************************************************************)
EXTENDS Naturals, SequencesExt

CONSTANTS
  Getters,     \* the threads that call elastic_get on this elastic
  Loops,       \* those of them that never stop calling: the receive threads;
               \* the others call it for a CLI command
  Want,        \* Want[g]: the length g asks for
  ChunkLens,   \* the lengths of the chunks that are injected
  MaxBytes     \* bound: how many bytes are injected

ASSUME InputAssumption ==
  /\ Loops \subseteq Getters
  /\ Want \in [Getters -> Nat \ {0}]
  /\ ChunkLens \subseteq Nat \ {0}
  /\ MaxBytes \in Nat

VARIABLES
  chunks_in,   \* ep->chunks_in: the bytes of each chunk that are not read yet
  gpc,         \* where each getter is in elastic_get
  ninj,        \* history: bytes injected so far
  got          \* history: << getter, byte >> for every byte returned, in order

vars == <<chunks_in, gpc, ninj, got>>

(* Who may inject n bytes at once: a diag processor one, anybody more when  *)
(* the CLI is not itself in elastic_get (it is the CLI that types the       *)
(* chunk, or the line has no second getter).                                *)
Injectable(n) ==
  /\ ninj + n <= MaxBytes
  /\ n = 1 \/ \A g \in Getters \ Loops : gpc[g] = "idle"

Init ==
  /\ chunks_in = << >>
  /\ gpc = [g \in Getters |-> "idle"]
  /\ ninj = 0
  /\ got = << >>

(* pthread_cond_signal wakes one of the getters that wait, if any does.     *)
Signal ==
  \/ /\ \A g \in Getters : gpc[g] # "wait"
     /\ UNCHANGED gpc
  \/ \E g \in Getters : gpc[g] = "wait" /\ gpc' = [gpc EXCEPT ![g] = "check"]

(* Mutant: only a chunk that comes to an empty queue is signalled.          *)
InjectSignalsFirst(n) ==
  /\ Injectable(n)
  /\ ninj' = ninj + n
  /\ chunks_in' = Append(chunks_in, [i \in 1..n |-> ninj + i])
  /\ IF chunks_in = << >> THEN Signal ELSE UNCHANGED gpc
  /\ UNCHANGED got

(* elastic_inject                                                           *)
Inject(n) ==
  /\ Injectable(n)
  /\ ninj' = ninj + n
  /\ chunks_in' = Append(chunks_in, [i \in 1..n |-> ninj + i])
  /\ Signal
  /\ UNCHANGED got

(* elastic_get, from its call to its return.                                *)
GetCall(g) ==
  /\ gpc[g] = "idle"
  /\ gpc' = [gpc EXCEPT ![g] = "check"]
  /\ UNCHANGED <<chunks_in, ninj, got>>

GetWait(g) ==
  /\ gpc[g] = "check" /\ chunks_in = << >>
  /\ gpc' = [gpc EXCEPT ![g] = "wait"]
  /\ UNCHANGED <<chunks_in, ninj, got>>

(* Mutant: a chunk that is read in part is thrown away.                     *)
GetTakeAll(g) ==
  /\ gpc[g] = "check" /\ chunks_in # << >>
  /\ LET cp == Head(chunks_in)
         len == Min({Want[g], Len(cp)})
     IN /\ got' = got \o [i \in 1..len |-> <<g, cp[i]>>]
        /\ chunks_in' = Tail(chunks_in)
  /\ gpc' = [gpc EXCEPT ![g] = "idle"]
  /\ UNCHANGED ninj

GetTake(g) ==
  /\ gpc[g] = "check" /\ chunks_in # << >>
  /\ LET cp == Head(chunks_in)
         len == Min({Want[g], Len(cp)})
     IN /\ got' = got \o [i \in 1..len |-> <<g, cp[i]>>]
        /\ chunks_in' = IF len = Len(cp)
                          THEN Tail(chunks_in)
                          ELSE << SubSeq(cp, len + 1, Len(cp)) >>
                                 \o Tail(chunks_in)
  /\ gpc' = [gpc EXCEPT ![g] = "idle"]
  /\ UNCHANGED ninj

Getter(g) == GetWait(g) \/ GetTake(g)

Next ==
  \/ \E n \in ChunkLens : Inject(n)
  \/ \E g \in Getters : GetCall(g) \/ Getter(g)

(* A getter that is awake gets on, and a receive thread comes back for the  *)
(* next byte.  Nothing obliges the CLI to call, or anybody to inject.       *)
Spec ==
  /\ Init /\ [][Next]_vars
  /\ \A g \in Getters : WF_vars(Getter(g))
  /\ \A g \in Loops : WF_vars(GetCall(g))

-----------------------------------------------------------------------------
TypeOK ==
  /\ chunks_in \in Seq(Seq(Nat) \ {<< >>})
  /\ gpc \in [Getters -> {"idle", "check", "wait"}]
  /\ ninj \in Nat
  /\ got \in Seq(Getters \X Nat)

\* The bytes of a sequence of << getter, byte >>, and the first n bytes.
Numbers(s) == [i \in DOMAIN s |-> s[i][2]]

Injected(n) == [i \in 1..n |-> i]

\* What was taken, and then what is in the chunks, is all there was.
Makes(taken, chunks, all) == taken \o FlattenSeq(chunks) = all

(* The bytes that were returned, to whichever getter, and those still to be *)
(* read are the bytes injected, in that order: a chunk read in pieces by    *)
(* several getters loses, doubles and reorders nothing.                     *)
InOrder == Makes(Numbers(got), chunks_in, Injected(ninj))
=============================================================================
