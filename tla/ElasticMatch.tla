---------------------------- MODULE ElasticMatch ----------------------------
(***************************************************************************)
(* Waiting for text in the output of an elastic buffer                     *)
(* (Infra/elastic_match.c): a subscriber whose txfunc compares what it is  *)
(* delivered with the armed pattern, and the CLI, one thread, that arms a  *)
(* pattern and waits for the match.                                        *)
(*                                                                         *)
(* One action is one critical section of em->mtx.  Bytes are not NUL.      *)
(***************************************************************************)
EXTENDS Naturals, SequencesExt

CONSTANTS
  Patterns,    \* the patterns the CLI arms
  Chunks,      \* the chunks that can be delivered to the subscriber
  MaxBytes,    \* bound: how many bytes are delivered
  MaxArms      \* bound: how often the CLI arms

Octets == UNION {Range(s) : s \in Patterns \cup Chunks}

ASSUME MatchAssumption ==
  /\ Patterns \cup Chunks \subseteq Seq(Octets) \ {<< >>}
  /\ MaxBytes \in Nat /\ MaxArms \in Nat

VARIABLES
  pattern,     \* em->pattern: << >> stands for NULL
  idx,         \* em->idx: how much of it the last bytes match
  match,       \* em->match
  tpc,         \* the subscriber thread in txfunc: "idle", "check" or "wait"
  chunk,       \* the chunk it was called with
  cpc,         \* the CLI: "none" before elastic_match_new, then "idle", or
               \* "check" or "wait" in elastic_match_wait
  arms,        \* bound: how often the CLI has armed
  seen,        \* history: every byte txfunc has looked at
  armed        \* history: how many of them before the pattern was armed

matchVars == <<pattern, idx, match, tpc, chunk, cpc, arms, seen, armed>>

MatchInit ==
  /\ pattern = << >> /\ idx = 0 /\ match = FALSE
  /\ tpc = "idle" /\ chunk = << >>
  /\ cpc = "none" /\ arms = 0
  /\ seen = << >> /\ armed = 0

(* Both sides wait on the one em->cond.  pthread_cond_signal wakes one of   *)
(* those that wait; t and c are where the two are when it is called.        *)
Signal(t, c) ==
  \/ t # "wait" /\ c # "wait" /\ tpc' = t /\ cpc' = c
  \/ t = "wait" /\ tpc' = "check" /\ cpc' = c
  \/ c = "wait" /\ tpc' = t /\ cpc' = "check"

-----------------------------------------------------------------------------
(* elastic_match_txfunc                                                     *)
TxCall(c) ==
  /\ tpc = "idle" /\ cpc # "none"
  /\ Len(seen) + Len(c) <= MaxBytes
  /\ chunk' = c
  /\ tpc' = "check"
  /\ UNCHANGED <<pattern, idx, match, cpc, arms, seen, armed>>

TxHeld == match \/ pattern = << >>

TxWait ==
  /\ tpc = "check" /\ TxHeld
  /\ tpc' = "wait"
  /\ UNCHANGED <<pattern, idx, match, chunk, cpc, arms, seen, armed>>

(* Mutant: a mismatch leaves the index where it was.                        *)
ByteSticky(st, b) ==
  IF st.idx < Len(pattern) /\ pattern[st.idx + 1] = b
    THEN [idx |-> st.idx + 1, match |-> st.match \/ st.idx + 1 = Len(pattern)]
    ELSE st

(* The loop for one byte.  After a match idx stands at the terminating NUL, *)
(* which no byte equals.                                                    *)
Byte(st, b) ==
  IF st.idx < Len(pattern) /\ pattern[st.idx + 1] = b
    THEN [idx |-> st.idx + 1, match |-> st.match \/ st.idx + 1 = Len(pattern)]
    ELSE [idx |-> 0, match |-> st.match]

(* Mutant: a complete match is not signalled.                               *)
TxScanSilent ==
  LET st == FoldLeft(Byte, [idx |-> idx, match |-> match], chunk)
  IN /\ tpc = "check" /\ ~TxHeld
     /\ idx' = st.idx /\ match' = st.match
     /\ seen' = seen \o chunk /\ chunk' = << >>
     /\ tpc' = "idle" /\ UNCHANGED cpc
     /\ UNCHANGED <<pattern, arms, armed>>

TxScan ==
  LET st == FoldLeft(Byte, [idx |-> idx, match |-> match], chunk)
  IN /\ tpc = "check" /\ ~TxHeld
     /\ idx' = st.idx /\ match' = st.match
     /\ seen' = seen \o chunk /\ chunk' = << >>
     /\ IF st.match THEN Signal("idle", cpc) ELSE tpc' = "idle" /\ UNCHANGED cpc
     /\ UNCHANGED <<pattern, arms, armed>>

-----------------------------------------------------------------------------
(* elastic_match_new: the first `arm' or `expect' subscribes.               *)
New ==
  /\ cpc = "none"
  /\ cpc' = "idle"
  /\ UNCHANGED <<pattern, idx, match, tpc, chunk, arms, seen, armed>>

(* Mutant: arming does not start the pattern over.                          *)
ArmKeepsIdx(p, next) ==
  /\ cpc = "idle" /\ arms < MaxArms
  /\ pattern' = p /\ UNCHANGED idx /\ match' = FALSE
  /\ arms' = arms + 1 /\ armed' = Len(seen)
  /\ Signal(tpc, next)
  /\ UNCHANGED <<chunk, seen>>

(* elastic_match_arm, from the command `arm', after which the CLI is idle,  *)
(* or `expect', which goes on to elastic_match_wait.                        *)
Arm(p, next) ==
  /\ cpc = "idle" /\ arms < MaxArms
  /\ pattern' = p /\ idx' = 0 /\ match' = FALSE
  /\ arms' = arms + 1 /\ armed' = Len(seen)
  /\ Signal(tpc, next)
  /\ UNCHANGED <<chunk, seen>>

(* elastic_match_wait: the command `wait', its sleep and its return.        *)
WaitCall ==
  /\ cpc = "idle" /\ pattern # << >>
  /\ cpc' = "check"
  /\ UNCHANGED <<pattern, idx, match, tpc, chunk, arms, seen, armed>>

WaitSleep ==
  /\ cpc = "check" /\ ~match
  /\ cpc' = "wait"
  /\ UNCHANGED <<pattern, idx, match, tpc, chunk, arms, seen, armed>>

WaitReturn ==
  /\ cpc = "check" /\ match
  /\ cpc' = "idle"
  /\ UNCHANGED <<pattern, idx, match, tpc, chunk, arms, seen, armed>>

MatchNext ==
  \/ \E c \in Chunks : TxCall(c)
  \/ TxWait \/ TxScan
  \/ New
  \/ \E p \in Patterns, next \in {"idle", "check"} : Arm(p, next)
  \/ WaitCall \/ WaitSleep \/ WaitReturn

MatchSafety == MatchInit /\ [][MatchNext]_matchVars

(* A thread that is awake inside the code gets on.                          *)
MatchSpec ==
  /\ MatchSafety
  /\ WF_matchVars(TxWait \/ TxScan)
  /\ WF_matchVars(WaitSleep \/ WaitReturn)

-----------------------------------------------------------------------------
(* The pattern stands in the bytes looked at, after the first k of them.    *)
At(k) ==
  /\ pattern # << >> /\ k + Len(pattern) <= Len(seen)
  /\ SubSeq(seen, k + 1, k + Len(pattern)) = pattern

(* A match is announced only when the pattern has come, whole, after it was *)
(* armed, and at most the rest of one chunk has been swallowed behind it:   *)
(* the text after a match is kept from txfunc until the next arm.           *)
MatchIsFresh ==
  match => \E k \in armed..Len(seen) :
             /\ At(k)
             /\ \E c \in Chunks : Len(seen) < k + Len(pattern) + Len(c)

(* The pattern is found when it comes first after arming, or after a byte   *)
(* that is not in it.                                                       *)
FoundAfterBreak ==
  \A k \in armed..Len(seen) :
    At(k) /\ (k = armed \/ ~Contains(pattern, seen[k])) => match

(* A CLI that waits when the match comes gets to see it: `expect' and       *)
(* `wait' return after the match, and the text that is held back does not   *)
(* hold them up.                                                            *)
WaitReturns == (cpc \in {"check", "wait"} /\ match) ~> (cpc = "idle")

-----------------------------------------------------------------------------
MatchTypeOK ==
  /\ pattern \in Patterns \cup {<< >>} /\ idx \in Nat /\ match \in BOOLEAN
  /\ tpc \in {"idle", "check", "wait"} /\ chunk \in Chunks \cup {<< >>}
  /\ cpc \in {"none", "idle", "check", "wait"} /\ arms \in Nat
  /\ seen \in Seq(Octets) /\ armed \in 0..Len(seen)

(* The last n bytes of sn have come since the pattern was armed, and are its *)
(* first n.                                                                 *)
Ends(sn, n) ==
  /\ n <= Len(sn) - armed /\ n <= Len(pattern)
  /\ \A j \in 1..n : sn[Len(sn) - n + j] = pattern[j]

Breaks(sn, k) == k = armed \/ ~Contains(pattern, sn[k])

(* The inductive invariant.  The index is never ahead of the text: the last *)
(* bytes are as much of the pattern.  Nor does it lag behind an occurrence  *)
(* that has begun where FoundAfterBreak promises to find it.                *)
IndexInv ==
  IF pattern = << >> THEN idx = 0 /\ ~match
  ELSE /\ Ends(seen, idx) /\ (idx = Len(pattern) => match)
       /\ \A k \in armed..Len(seen) :
            Breaks(seen, k) /\ Ends(seen, Len(seen) - k)
              => match \/ idx = Len(seen) - k

(* A thread that is in txfunc has a chunk.                                  *)
ChunkInv == tpc # "idle" => chunk \in Chunks

MatchIInv ==
  MatchTypeOK /\ IndexInv /\ ChunkInv /\ MatchIsFresh /\ FoundAfterBreak
=============================================================================
