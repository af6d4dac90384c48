--------------------------- MODULE ElasticProofs ---------------------------
(***************************************************************************)
(* Proofs about Elastic, for any subscribers and any number of chunks, and *)
(* at the end about one subscriber, ElasticMatch, for any patterns and any *)
(* text.                                                                   *)
(***************************************************************************)
EXTENDS Elastic, ElasticMatch, SequenceLemmas

(* The variables hold what they are declared to hold, and a thread holds    *)
(* one chunk exactly while it delivers it (TypeOK).                         *)
THEOREM TypeCorrect == Safety => []TypeOK
<1>1. Init => TypeOK
  BY ElasticAssumption DEF Init, TypeOK, SubPc
<1>2. TypeOK /\ [Next]_vars => TypeOK'
  <2> SUFFICES ASSUME TypeOK, [Next]_vars
               PROVE  TypeOK'
    OBVIOUS
  <2> USE ElasticAssumption DEF TypeOK, SubPc
  <2>1. CASE PutBacklog
    <3>1. /\ Append(chunks_out, nput + 1) \in Seq(Nat)
          /\ Len(Append(chunks_out, nput + 1)) = Len(chunks_out) + 1
      BY AppendProperties
    <3> QED
      BY <2>1, <3>1 DEF PutBacklog
  <2>13. CASE PutCopies
    <3>1. \A s \in Subs : Append(chunks[s], nput + 1) \in Seq(Nat)
      BY AppendProperties
    <3>2. /\ spc' \in [Subs -> SubPc]
          /\ \A s \in Subs : spc'[s] = "deliver" <=> spc[s] = "deliver"
      BY <2>13 DEF PutCopies, Woken
    <3> QED
      BY <2>13, <3>1, <3>2 DEF PutCopies
  <2>2. CASE DrainCall
    BY <2>2 DEF DrainCall
  <2>3. CASE DrainCheck
    BY <2>3 DEF DrainCheck
  <2>4. ASSUME NEW s \in Subs, Subscribe(s)
        PROVE  TypeOK'
    BY <2>4 DEF Subscribe
  <2>5. ASSUME NEW s \in Subs, Unsubscribe(s)
        PROVE  TypeOK'
    BY <2>5 DEF Unsubscribe
  <2>6. ASSUME NEW s \in Subs, UnsubscribeSignal(s)
        PROVE  TypeOK'
    BY <2>6 DEF UnsubscribeSignal, Woken
  <2>7. ASSUME NEW s \in Subs, FetchWait(s)
        PROVE  TypeOK'
    BY <2>7 DEF FetchWait, DrainWoken
  <2>8. ASSUME NEW s \in Subs, FetchChunk(s)
        PROVE  TypeOK'
    <3>1. Head(chunks[s]) \in Nat /\ Tail(chunks[s]) \in Seq(Nat)
      BY <2>8, HeadTailProperties DEF FetchChunk
    <3>2. /\ << Head(chunks[s]) >> \in Seq(Nat)
          /\ Len(<< Head(chunks[s]) >>) = 1
      BY <3>1
    <3> QED
      BY <2>8, <3>1, <3>2 DEF FetchChunk
  <2>9. ASSUME NEW s \in Subs, FetchEnd(s)
        PROVE  TypeOK'
    BY <2>9 DEF FetchEnd
  <2>10. ASSUME NEW s \in Subs, FetchFree(s)
         PROVE  TypeOK'
    BY <2>10 DEF FetchFree
  <2>11. ASSUME NEW s \in Subs, Deliver(s)
         PROVE  TypeOK'
    <3>1. delivered[s] \o cur[s] \in Seq(Nat)
      <4>1. delivered[s] \in Seq(Nat) /\ cur[s] \in Seq(Nat)
        OBVIOUS
      <4> QED
        BY <4>1, ConcatProperties
    <3>2. << >> \in Seq(Nat) /\ Len(<< >>) = 0
      OBVIOUS
    <3>3. /\ delivered' \in [Subs -> Seq(Nat)]
          /\ cur' \in [Subs -> Seq(Nat)]
          /\ spc' \in [Subs -> SubPc]
      BY <2>11, <3>1, <3>2 DEF Deliver
    <3>4. ASSUME NEW t \in Subs
          PROVE  Len(cur'[t]) = IF spc'[t] = "deliver" THEN 1 ELSE 0
      <4>1. CASE t = s
        <5>1. cur'[t] = << >> /\ spc'[t] = "fetch"
          BY <2>11, <4>1 DEF Deliver
        <5> QED
          BY <3>2, <5>1
      <4>2. CASE t # s
        BY <2>11, <4>2 DEF Deliver
      <4> QED
        BY <4>1, <4>2
    <3> QED
      BY <2>11, <3>3, <3>4 DEF Deliver
  <2>12. CASE UNCHANGED vars
    BY <2>12 DEF vars
  <2> QED
    BY <2>1, <2>2, <2>3, <2>4, <2>5, <2>6, <2>7, <2>8, <2>9, <2>10, <2>11,
       <2>12, <2>13 DEF Next, Thread
<1> QED
  BY <1>1, <1>2, PTL DEF Safety
-----------------------------------------------------------------------------
(* A step that leaves the queues, the histories and the list alone leaves   *)
(* every stream and the coverage of the chunks alone.                       *)
LEMMA Frame ==
  ASSUME IInv,
         UNCHANGED <<subscribers, chunks_out, chunks, cur, nput, base, left,
                     delivered>>,
         \A s \in Subs : /\ spc'[s] = "none" <=> spc[s] = "none"
                         /\ upc'[s] = "no" <=> upc[s] = "no"
  PROVE  BacklogInv' /\ NoOrphan' /\ \A s \in Subs : StreamInv(s)'
<1>1. \A s \in Subs : /\ LastPut(s)' = LastPut(s)
                      /\ Done(s)' = Done(s) /\ Taken(s)' = Taken(s)
  BY DEF LastPut, Done, Taken
<1>2. BacklogInv'
  BY DEF IInv, BacklogInv
<1>3. NoOrphan'
  BY <1>1 DEF IInv, NoOrphan
<1>4. ASSUME NEW s \in Subs
      PROVE  StreamInv(s)'
  BY <1>1 DEF IInv, StreamInv
<1> QED
  BY <1>2, <1>3, <1>4

(* The sums the streams are described with are numbers.                     *)
LEMMA Lengths ==
  ASSUME TypeOK, NEW s \in Subs
  PROVE  /\ base[s] \in Nat /\ left[s] \in Nat /\ nput \in Nat
         /\ Len(delivered[s]) \in Nat /\ Len(cur[s]) \in Nat
         /\ Len(chunks[s]) \in Nat
         /\ Done(s) \in Nat /\ Taken(s) \in Nat /\ LastPut(s) \in Nat
         /\ Done(s) <= Taken(s) /\ base[s] <= Done(s)
<1>1. /\ base[s] \in Nat /\ left[s] \in Nat /\ nput \in Nat
      /\ Len(delivered[s]) \in Nat /\ Len(cur[s]) \in Nat
      /\ Len(chunks[s]) \in Nat
  BY LenProperties DEF TypeOK
<1>2. Done(s) \in Nat /\ base[s] <= Done(s)
  BY <1>1 DEF Done
<1>3. Taken(s) \in Nat /\ Done(s) <= Taken(s)
  BY <1>1, <1>2 DEF Taken
<1> QED
  BY <1>1, <1>2, <1>3 DEF LastPut

(* A step leaves alone the parts of the invariant about a subscriber whose  *)
(* own variables it does not touch.                                         *)
LEMMA Others ==
  ASSUME IInv, NEW t \in Subs, nput' = nput,
         t \in subscribers' <=> t \in subscribers,
         chunks'[t] = chunks[t], die'[t] = die[t], spc'[t] = spc[t],
         cur'[t] = cur[t], upc'[t] = upc[t], base'[t] = base[t],
         left'[t] = left[t], delivered'[t] = delivered[t]
  PROVE  LifeInv(t)' /\ StreamInv(t)' /\ LastPut(t)' = LastPut(t)
<1>1. LastPut(t)' = LastPut(t) /\ Done(t)' = Done(t) /\ Taken(t)' = Taken(t)
  BY DEF LastPut, Done, Taken
<1>2. LifeInv(t)'
  BY DEF IInv, LifeInv
<1>3. StreamInv(t)'
  BY <1>1 DEF IInv, StreamInv
<1> QED
  BY <1>1, <1>2, <1>3

(* No chunk is orphaned by a step that neither puts a chunk nor moves the   *)
(* ends of a stream.                                                        *)
LEMMA Covered ==
  ASSUME NoOrphan, nput' = nput, chunks_out' = chunks_out,
         \A t \in Subs : spc[t] # "none" =>
            spc'[t] # "none" /\ base'[t] = base[t] /\ LastPut(t)' = LastPut(t)
  PROVE  NoOrphan'
<1> SUFFICES ASSUME NEW m \in 1..nput, ~(m > nput - Len(chunks_out))
             PROVE  \E s \in Subs : spc'[s] # "none" /\ base'[s] < m
                                   /\ m <= LastPut(s)'
  BY DEF NoOrphan
<1> QED
  BY DEF NoOrphan

(* elastic_put keeps the invariant: the new chunk goes to the end of the    *)
(* backlog, or to the end of the stream of everyone on the list.            *)
LEMMA PutBacklogInv ==
  ASSUME TypeOK, IInv, PutBacklog
  PROVE  IInv'
<1> USE DEF PutBacklog
<1>1. /\ chunks_out \in Seq(Nat) /\ nput \in Nat
      /\ Len(chunks_out) \in Nat /\ Len(chunks_out) <= nput
  BY LenProperties DEF TypeOK
<1>2. /\ Len(chunks_out') = Len(chunks_out) + 1
      /\ \A i \in 1..Len(chunks_out) : chunks_out'[i] = chunks_out[i]
      /\ chunks_out'[Len(chunks_out) + 1] = nput + 1
  BY <1>1, AppendProperties
<1>3. BacklogInv'
  BY <1>1, <1>2 DEF IInv, BacklogInv
<1>4. \A s \in Subs : spc[s] # "none" => LastPut(s) = left[s] /\ LastPut(s)' = left[s]
  BY DEF IInv, LifeInv, LastPut
<1>5. ASSUME NEW s \in Subs
      PROVE  LifeInv(s)' /\ StreamInv(s)'
  <2>1. LifeInv(s)'
    BY DEF IInv, LifeInv
  <2>2. Done(s)' = Done(s) /\ Taken(s)' = Taken(s)
    BY DEF Done, Taken
  <2>3. left[s] \in Nat /\ left[s] <= nput
    BY Lengths DEF IInv, StreamInv
  <2>4. StreamInv(s)'
    BY <1>1, <1>4, <2>2, <2>3 DEF IInv, StreamInv
  <2> QED
    BY <2>1, <2>4
<1>6. NoOrphan'
  <2> SUFFICES ASSUME NEW m \in 1..(nput + 1),
                      m <= (nput + 1) - (Len(chunks_out) + 1)
               PROVE  \E s \in Subs : spc[s] # "none" /\ base[s] < m
                                     /\ m <= LastPut(s)'
    BY <1>1, <1>2 DEF NoOrphan
  <2>1. m \in 1..nput /\ ~(m > nput - Len(chunks_out))
    BY <1>1
  <2>2. PICK s \in Subs : spc[s] # "none" /\ base[s] < m /\ m <= LastPut(s)
    BY <2>1 DEF IInv, NoOrphan
  <2> QED
    BY <1>4, <2>2
<1> QED
  BY <1>3, <1>5, <1>6 DEF IInv

LEMMA PutCopiesInv ==
  ASSUME TypeOK, IInv, PutCopies
  PROVE  IInv'
<1>0. /\ nput' = nput + 1 /\ subscribers # {}
      /\ UNCHANGED <<subscribers, chunks_out, die, cur, upc, base, left,
                     delivered>>
      /\ \A s \in Subs :
           /\ chunks'[s] = IF s \in subscribers THEN Append(chunks[s], nput + 1)
                                                 ELSE chunks[s]
           /\ spc'[s] = IF s \in subscribers THEN Woken(s) ELSE spc[s]
  BY DEF PutCopies
<1>1. /\ nput \in Nat /\ base \in [Subs -> Nat] /\ left \in [Subs -> Nat]
      /\ chunks \in [Subs -> Seq(Nat)]
      /\ spc \in [Subs -> SubPc]
  BY DEF TypeOK
<1>2. BacklogInv' /\ chunks_out = << >>
  BY <1>0 DEF IInv, BacklogInv
<1>3. \A s \in Subs : /\ spc'[s] = "none" <=> spc[s] = "none"
                      /\ LastPut(s) \in Nat /\ LastPut(s)' \in Nat
                      /\ LastPut(s) <= LastPut(s)'
                      /\ s \in subscribers => LastPut(s) = nput
                      /\ s \in subscribers => LastPut(s)' = nput + 1
                      /\ s \notin subscribers /\ spc[s] # "none" => LastPut(s)' = LastPut(s)
  BY <1>0, <1>1 DEF IInv, LifeInv, LastPut, Woken, SubPc
<1>4. ASSUME NEW s \in Subs, s \in subscribers
      PROVE  LifeInv(s)' /\ StreamInv(s)'
  <2>1. /\ chunks'[s] = Append(chunks[s], nput + 1)
        /\ spc'[s] = Woken(s)
        /\ LifeInv(s) /\ StreamInv(s) /\ chunks[s] \in Seq(Nat)
    BY <1>0, <1>1, <1>4 DEF IInv
  <2>2. /\ Len(chunks'[s]) = Len(chunks[s]) + 1
        /\ \A i \in 1..Len(chunks[s]) : chunks'[s][i] = chunks[s][i]
        /\ chunks'[s][Len(chunks[s]) + 1] = nput + 1
    BY <1>0, <1>1, <2>1, AppendProperties, LenProperties
  <2>3. LifeInv(s)'
    BY <1>0, <1>1, <1>4, <2>1 DEF LifeInv, Woken, SubPc
  <2>4. /\ Len(chunks[s]) \in Nat /\ Taken(s) \in Nat
        /\ Taken(s)' = Taken(s) /\ Done(s)' = Done(s)
    BY <1>0, Lengths DEF Done, Taken
  <2>5. Taken(s) + Len(chunks[s]) = nput /\ spc'[s] # "none"
    BY <1>3, <1>4, <2>1 DEF StreamInv, LifeInv
  <2>6. Taken(s)' + Len(chunks'[s]) = LastPut(s)'
    BY <1>1, <1>3, <1>4, <2>2, <2>4, <2>5
  <2>7. ASSUME NEW i \in 1..Len(chunks'[s])
        PROVE  chunks'[s][i] = Taken(s) + i
    <3>1. CASE i \in 1..Len(chunks[s])
      BY <2>1, <2>2, <3>1 DEF StreamInv
    <3>2. CASE i = Len(chunks[s]) + 1
      BY <2>2, <2>4, <2>5, <3>2
    <3> QED
      BY <2>2, <2>4, <3>1, <3>2
  <2>8. left'[s] <= nput'
    BY <1>0, <1>1, <2>1 DEF StreamInv
  <2>9. StreamInv(s)'
    BY <1>0, <2>1, <2>4, <2>6, <2>7, <2>8 DEF StreamInv
  <2> QED
    BY <2>3, <2>9
<1>5. ASSUME NEW s \in Subs, s \notin subscribers
      PROVE  LifeInv(s)' /\ StreamInv(s)'
  <2>1. /\ chunks'[s] = chunks[s] /\ spc'[s] = spc[s]
        /\ LifeInv(s) /\ StreamInv(s)
    BY <1>0, <1>1, <1>5 DEF IInv
  <2>2. LifeInv(s)'
    BY <1>0, <2>1 DEF LifeInv
  <2>3. left'[s] <= nput'
    BY <1>0, <1>1, <2>1 DEF StreamInv
  <2>4. Taken(s)' = Taken(s) /\ Done(s)' = Done(s)
    BY <1>0 DEF Done, Taken
  <2>5. StreamInv(s)'
    BY <1>0, <1>3, <1>5, <2>1, <2>3, <2>4 DEF StreamInv
  <2> QED
    BY <2>2, <2>5
<1>6. NoOrphan'
  <2> SUFFICES ASSUME NEW m \in 1..(nput + 1)
               PROVE  \E s \in Subs : spc'[s] # "none" /\ base[s] < m
                                     /\ m <= LastPut(s)'
    BY <1>0, <1>2 DEF NoOrphan
  <2>1. CASE m \in 1..nput
    <3>1. ~(m > nput - Len(chunks_out))
      BY <1>0, <1>1, <1>2, <2>1
    <3>2. PICK s \in Subs : spc[s] # "none" /\ base[s] < m /\ m <= LastPut(s)
      BY <2>1, <3>1 DEF IInv, NoOrphan
    <3>3. m <= LastPut(s)'
      <4>1. LastPut(s) \in Nat /\ LastPut(s)' \in Nat /\ LastPut(s) <= LastPut(s)'
        BY <1>3
      <4> QED
        BY <2>1, <3>2, <4>1
    <3> QED
      BY <1>3, <3>2, <3>3
  <2>2. CASE m = nput + 1
    <3>1. PICK s \in Subs : s \in subscribers
      BY <1>0 DEF TypeOK
    <3>2. spc[s] # "none" /\ StreamInv(s)
      BY <3>1 DEF IInv, LifeInv
    <3>3. Taken(s) <= nput
      <4>1. Taken(s) + Len(chunks[s]) = nput
        BY <1>3, <3>1, <3>2 DEF StreamInv
      <4>2. Taken(s) \in Nat /\ Len(chunks[s]) \in Nat
        BY Lengths
      <4> QED
        BY <1>1, <4>1, <4>2
    <3>4. base[s] \in Nat /\ base[s] < m
      <4>1. base[s] \in Nat /\ Taken(s) \in Nat /\ base[s] <= Taken(s)
        BY Lengths
      <4> QED
        BY <1>1, <2>2, <3>3, <4>1
    <3>5. spc'[s] # "none" /\ m <= LastPut(s)'
      BY <1>1, <1>3, <2>2, <3>1, <3>2
    <3> QED
      BY <3>4, <3>5
  <2> QED
    BY <1>0, <1>1, <2>1, <2>2
<1> QED
  BY <1>2, <1>4, <1>5, <1>6 DEF IInv

(* The first subscriber takes the backlog over: the chunks nobody had been  *)
(* given are its queue, and its stream starts just before them.             *)
LEMMA SubscribeInv ==
  ASSUME TypeOK, IInv, NEW s \in Subs, Subscribe(s)
  PROVE  IInv'
<1>0. /\ spc[s] = "none" /\ subscribers' = subscribers \cup {s}
      /\ chunks_out' = << >> /\ nput' = nput
      /\ UNCHANGED <<die, cur, upc, left, delivered>>
      /\ chunks'[s] = chunks_out /\ spc'[s] = "fetch"
      /\ base'[s] = nput - Len(chunks_out)
      /\ \A t \in Subs \ {s} : /\ chunks'[t] = chunks[t] /\ spc'[t] = spc[t]
                                /\ base'[t] = base[t]
  BY DEF Subscribe, TypeOK
<1>1. /\ Len(chunks_out) \in Nat /\ nput \in Nat /\ Len(chunks_out) <= nput
      /\ base'[s] \in Nat /\ left[s] \in Nat
  BY <1>0, LenProperties DEF TypeOK
<1>2. BacklogInv'
  BY <1>0 DEF BacklogInv
<1>3. /\ upc[s] = "no" /\ ~die[s] /\ delivered[s] = << >>
      /\ Len(cur[s]) = 0 /\ LastPut(s)' = nput /\ left[s] <= nput
  BY <1>0, <1>1 DEF IInv, LifeInv, StreamInv, TypeOK, LastPut
<1>4. Done(s)' = base'[s] /\ Taken(s)' = base'[s]
  BY <1>0, <1>1, <1>3 DEF Done, Taken
<1>5. LifeInv(s)' /\ StreamInv(s)'
  <2>1. LifeInv(s)'
    BY <1>0, <1>3 DEF LifeInv
  <2>2. Taken(s)' + Len(chunks'[s]) = LastPut(s)'
    BY <1>0, <1>1, <1>3, <1>4
  <2>3. \A i \in 1..Len(chunks'[s]) : chunks'[s][i] = Taken(s)' + i
    BY <1>0, <1>4 DEF IInv, BacklogInv
  <2>4. StreamInv(s)'
    BY <1>0, <1>3, <2>2, <2>3 DEF StreamInv
  <2> QED
    BY <2>1, <2>4
<1>6. ASSUME NEW t \in Subs, t # s
      PROVE  LifeInv(t)' /\ StreamInv(t)' /\ LastPut(t)' = LastPut(t)
  BY <1>0, <1>6, Others
<1>7. NoOrphan'
  <2> SUFFICES ASSUME NEW m \in 1..nput
               PROVE  \E t \in Subs : spc'[t] # "none" /\ base'[t] < m
                                     /\ m <= LastPut(t)'
    BY <1>0 DEF NoOrphan
  <2>1. CASE m > nput - Len(chunks_out)
    BY <1>0, <1>1, <1>3, <2>1
  <2>2. CASE ~(m > nput - Len(chunks_out))
    <3>1. PICK t \in Subs : spc[t] # "none" /\ base[t] < m /\ m <= LastPut(t)
      BY <2>2 DEF IInv, NoOrphan
    <3>2. t # s
      BY <1>0, <3>1
    <3> QED
      BY <1>0, <1>6, <3>1, <3>2
  <2> QED
    BY <2>1, <2>2
<1> QED
  BY <1>2, <1>5, <1>6, <1>7 DEF IInv

(* A subscriber that is taken off the list keeps the end its stream has.    *)
LEMMA UnsubscribeInv ==
  ASSUME TypeOK, IInv, NEW s \in Subs, Unsubscribe(s)
  PROVE  IInv'
<1>0. /\ s \in subscribers /\ upc[s] = "no"
      /\ subscribers' = subscribers \ {s} /\ nput' = nput
      /\ UNCHANGED <<chunks_out, chunks, spc, cur, base, delivered>>
      /\ die'[s] = TRUE /\ upc'[s] = "removed" /\ left'[s] = nput
      /\ \A t \in Subs \ {s} : /\ die'[t] = die[t] /\ upc'[t] = upc[t]
                                /\ left'[t] = left[t]
  BY DEF Unsubscribe, TypeOK
<1>1. LastPut(s)' = LastPut(s) /\ nput \in Nat
  BY <1>0 DEF LastPut, TypeOK
<1>2. BacklogInv'
  BY <1>0 DEF IInv, BacklogInv
<1>3. Done(s)' = Done(s) /\ Taken(s)' = Taken(s)
  BY <1>0 DEF Done, Taken
<1>4. LifeInv(s)'
  BY <1>0 DEF IInv, LifeInv
<1>5. StreamInv(s)'
  BY <1>0, <1>1, <1>3 DEF IInv, StreamInv
<1>6. ASSUME NEW t \in Subs, t # s
      PROVE  LifeInv(t)' /\ StreamInv(t)' /\ LastPut(t)' = LastPut(t)
  BY <1>0, <1>6, Others
<1>7. NoOrphan'
  BY <1>0, <1>1, <1>6, Covered DEF IInv
<1> QED
  BY <1>2, <1>4, <1>5, <1>6, <1>7 DEF IInv

(* The steps of a subscriber that move no chunk: its signal, its wait, its  *)
(* end and its release.                                                     *)
LEMMA PcInv ==
  ASSUME TypeOK, IInv, NEW s \in Subs,
         UnsubscribeSignal(s) \/ FetchWait(s) \/ FetchEnd(s) \/ FetchFree(s)
  PROVE  IInv'
<1>0. /\ UNCHANGED <<subscribers, chunks_out, chunks, die, cur, nput, base,
                     left, delivered>>
      /\ \A t \in Subs : /\ spc'[t] = "none" <=> spc[t] = "none"
                         /\ upc'[t] = "no" <=> upc[t] = "no"
      /\ \A t \in Subs \ {s} : spc'[t] = spc[t] /\ upc'[t] = upc[t]
  <2>1. CASE UnsubscribeSignal(s)
    BY <2>1 DEF UnsubscribeSignal, Woken, TypeOK
  <2>2. CASE FetchWait(s)
    BY <2>2 DEF FetchWait, TypeOK
  <2>3. CASE FetchEnd(s)
    BY <2>3 DEF FetchEnd, TypeOK
  <2>4. CASE FetchFree(s)
    BY <2>4 DEF FetchFree, TypeOK
  <2> QED
    BY <2>1, <2>2, <2>3, <2>4
<1>1. BacklogInv' /\ NoOrphan' /\ \A t \in Subs : StreamInv(t)'
  BY <1>0, Frame
<1>2. LifeInv(s)'
  <2>1. LifeInv(s)
    BY DEF IInv
  <2>2. CASE UnsubscribeSignal(s)
    <3>1. /\ upc[s] = "removed" /\ upc'[s] = "done" /\ spc'[s] = Woken(s)
      BY <2>2 DEF UnsubscribeSignal, TypeOK
    <3> QED
      BY <1>0, <2>1, <3>1 DEF LifeInv, Woken
  <2>3. CASE FetchWait(s)
    <3>1. /\ spc[s] = "fetch" /\ ~die[s] /\ chunks[s] = << >>
          /\ spc'[s] = "wait" /\ upc' = upc
      BY <2>3 DEF FetchWait, TypeOK
    <3> QED
      BY <1>0, <2>1, <3>1 DEF LifeInv
  <2>4. CASE FetchEnd(s)
    <3>1. /\ spc[s] = "fetch" /\ die[s] /\ chunks[s] = << >>
          /\ spc'[s] = "exit" /\ upc' = upc
      BY <2>4 DEF FetchEnd, TypeOK
    <3> QED
      BY <1>0, <2>1, <3>1 DEF LifeInv
  <2>5. CASE FetchFree(s)
    <3>1. spc[s] = "exit" /\ spc'[s] = "gone" /\ upc' = upc
      BY <2>5 DEF FetchFree, TypeOK
    <3> QED
      BY <1>0, <2>1, <3>1 DEF LifeInv
  <2> QED
    BY <2>2, <2>3, <2>4, <2>5
<1>3. ASSUME NEW t \in Subs, t # s
      PROVE  LifeInv(t)'
  BY <1>0, <1>3 DEF IInv, LifeInv
<1> QED
  BY <1>1, <1>2, <1>3 DEF IInv

(* A chunk moves from the queue of a subscriber into the hand of its        *)
(* thread, and its stream is the same as before.                            *)
LEMMA FetchChunkInv ==
  ASSUME TypeOK, IInv, NEW s \in Subs, FetchChunk(s)
  PROVE  IInv'
<1>0. /\ spc[s] = "fetch" /\ chunks[s] # << >>
      /\ UNCHANGED <<subscribers, chunks_out, die, upc, nput, base, left,
                     delivered>>
      /\ cur'[s] = << Head(chunks[s]) >> /\ chunks'[s] = Tail(chunks[s])
      /\ spc'[s] = "deliver"
      /\ \A t \in Subs \ {s} : /\ cur'[t] = cur[t] /\ spc'[t] = spc[t]
                                /\ chunks'[t] = chunks[t]
  BY DEF FetchChunk, TypeOK
<1>1. chunks[s] \in Seq(Nat) /\ Len(cur[s]) = 0
  BY <1>0 DEF TypeOK
<1>2. /\ Head(chunks[s]) = chunks[s][1] /\ Len(chunks[s]) \in Nat \ {0}
      /\ Len(chunks'[s]) = Len(chunks[s]) - 1
      /\ \A i \in 1..Len(chunks'[s]) : chunks'[s][i] = chunks[s][i + 1]
  BY <1>0, <1>1, HeadTailProperties, EmptySeq, LenProperties
<1>3. Len(cur'[s]) = 1 /\ cur'[s][1] = chunks[s][1]
  BY <1>0, <1>2
<1>4. LastPut(s)' = LastPut(s) /\ Done(s)' = Done(s)
  BY <1>0 DEF LastPut, Done
<1>5. Taken(s) = Done(s) /\ Taken(s)' = Done(s) + 1 /\ Done(s) \in Nat
  <2>1. Done(s) \in Nat
    BY Lengths
  <2> QED
    BY <1>1, <1>3, <1>4, <2>1 DEF Taken
<1>6. LifeInv(s) /\ StreamInv(s)
  BY DEF IInv
<1>7. LifeInv(s)'
  BY <1>0, <1>6 DEF LifeInv
<1>8. StreamInv(s)'
  <2>1. Taken(s)' + Len(chunks'[s]) = LastPut(s)'
    <3>1. Taken(s) + Len(chunks[s]) = LastPut(s)
      BY <1>0, <1>6 DEF StreamInv
    <3> QED
      BY <1>2, <1>4, <1>5, <3>1
  <2>2. \A i \in 1..Len(cur'[s]) : cur'[s][i] = Done(s)' + i
    <3>1. chunks[s][1] = Done(s) + 1
      BY <1>2, <1>5, <1>6 DEF StreamInv
    <3> QED
      BY <1>3, <1>4, <1>5, <3>1
  <2>3. ASSUME NEW i \in 1..Len(chunks'[s])
        PROVE  chunks'[s][i] = Taken(s)' + i
    <3>1. i + 1 \in 1..Len(chunks[s]) /\ i \in Nat
      BY <1>2
    <3>2. chunks[s][i + 1] = Taken(s) + (i + 1)
      BY <1>6, <3>1 DEF StreamInv
    <3> QED
      BY <1>2, <1>5, <3>1, <3>2
  <2> QED
    BY <1>0, <1>4, <1>6, <2>1, <2>2, <2>3 DEF StreamInv
<1>9. ASSUME NEW t \in Subs, t # s
      PROVE  LifeInv(t)' /\ StreamInv(t)' /\ LastPut(t)' = LastPut(t)
  BY <1>0, <1>9, Others
<1>10. BacklogInv'
  BY <1>0 DEF IInv, BacklogInv
<1>11. NoOrphan'
  BY <1>0, <1>4, <1>9, Covered DEF IInv
<1> QED
  BY <1>7, <1>8, <1>9, <1>10, <1>11 DEF IInv

(* The chunk in the hand becomes the last one delivered.                    *)
LEMMA DeliverInv ==
  ASSUME TypeOK, IInv, NEW s \in Subs, Deliver(s)
  PROVE  IInv'
<1>0. /\ spc[s] = "deliver"
      /\ UNCHANGED <<subscribers, chunks_out, chunks, die, upc, nput, base,
                     left>>
      /\ delivered'[s] = delivered[s] \o cur[s] /\ cur'[s] = << >>
      /\ spc'[s] = "fetch"
      /\ \A t \in Subs \ {s} : /\ cur'[t] = cur[t] /\ spc'[t] = spc[t]
                                /\ delivered'[t] = delivered[t]
  BY DEF Deliver, TypeOK
<1>1. delivered[s] \in Seq(Nat) /\ cur[s] \in Seq(Nat) /\ Len(cur[s]) = 1
  BY <1>0 DEF TypeOK
<1>2. /\ Len(delivered[s]) \in Nat
      /\ Len(delivered'[s]) = Len(delivered[s]) + 1
      /\ \A i \in 1..Len(delivered[s]) : delivered'[s][i] = delivered[s][i]
      /\ delivered'[s][Len(delivered[s]) + 1] = cur[s][1]
  <2> DEFINE d == delivered[s]  c == cur[s]
  <2>1. d \in Seq(Nat) /\ c \in Seq(Nat) /\ Len(d) \in Nat
    BY <1>1, LenProperties
  <2>2. /\ Len(d \o c) = Len(d) + Len(c)
        /\ \A i \in 1..(Len(d) + Len(c)) :
             (d \o c)[i] = IF i <= Len(d) THEN d[i] ELSE c[i - Len(d)]
    BY <2>1, ConcatProperties
  <2>3. Len(d \o c) = Len(d) + 1
    BY <1>1, <2>2
  <2>4. ASSUME NEW i \in 1..Len(d)
        PROVE  (d \o c)[i] = d[i]
    <3>1. i \in 1..(Len(d) + Len(c)) /\ i <= Len(d)
      BY <1>1, <2>1
    <3> QED
      BY <2>2, <3>1
  <2>5. (d \o c)[Len(d) + 1] = c[1]
    <3>1. /\ Len(d) + 1 \in 1..(Len(d) + Len(c)) /\ ~(Len(d) + 1 <= Len(d))
          /\ (Len(d) + 1) - Len(d) = 1
      BY <1>1, <2>1
    <3> QED
      BY <2>2, <3>1
  <2> QED
    BY <1>0, <2>1, <2>3, <2>4, <2>5
<1>3. base[s] \in Nat /\ Done(s) = base[s] + Len(delivered[s])
  BY Lengths DEF Done
<1>4. LastPut(s)' = LastPut(s) /\ Done(s)' = Done(s) + 1 /\ Done(s) \in Nat
  <2>1. Done(s)' = base[s] + Len(delivered'[s])
    BY <1>0 DEF Done
  <2>2. \A x, y \in Nat : x + (y + 1) = (x + y) + 1 /\ x + y \in Nat
    OBVIOUS
  <2>3. LastPut(s)' = LastPut(s)
    BY <1>0 DEF LastPut
  <2>4. Done(s)' = Done(s) + 1 /\ Done(s) \in Nat
    BY <1>2, <1>3, <2>1, <2>2
  <2> QED
    BY <2>3, <2>4
<1>5. Taken(s) = Done(s) + 1 /\ Taken(s)' = Done(s) + 1
  BY <1>0, <1>1, <1>4 DEF Taken
<1>6. LifeInv(s) /\ StreamInv(s)
  BY DEF IInv
<1>7. LifeInv(s)'
  BY <1>0, <1>6 DEF LifeInv
<1>8. StreamInv(s)'
  <2>1. Taken(s)' + Len(chunks'[s]) = LastPut(s)'
    BY <1>0, <1>4, <1>5, <1>6 DEF StreamInv
  <2>2. ASSUME NEW i \in 1..Len(delivered'[s])
        PROVE  delivered'[s][i] = base[s] + i
    <3>1. CASE i \in 1..Len(delivered[s])
      BY <1>2, <1>6, <3>1 DEF StreamInv
    <3>2. CASE i = Len(delivered[s]) + 1
      <4>1. cur[s][1] = Done(s) + 1
        BY <1>1, <1>6 DEF StreamInv
      <4> QED
        BY <1>2, <1>3, <3>2, <4>1
    <3> QED
      BY <1>2, <3>1, <3>2
  <2>3. \A i \in 1..Len(chunks'[s]) : chunks'[s][i] = Taken(s)' + i
    BY <1>0, <1>5, <1>6 DEF StreamInv
  <2>4. \A i \in 1..Len(cur'[s]) : cur'[s][i] = Done(s)' + i
    BY <1>0
  <2>5. left'[s] <= nput'
    BY <1>0, <1>6 DEF StreamInv
  <2>6. base'[s] = base[s]
    BY <1>0
  <2> QED
    BY <2>1, <2>2, <2>3, <2>4, <2>5, <2>6 DEF StreamInv
<1>9. ASSUME NEW t \in Subs, t # s
      PROVE  LifeInv(t)' /\ StreamInv(t)' /\ LastPut(t)' = LastPut(t)
  BY <1>0, <1>9, Others
<1>10. BacklogInv'
  BY <1>0 DEF IInv, BacklogInv
<1>11. NoOrphan'
  BY <1>0, <1>4, <1>9, Covered DEF IInv
<1> QED
  BY <1>7, <1>8, <1>9, <1>10, <1>11 DEF IInv
-----------------------------------------------------------------------------
(* The invariant holds in every reachable state.                            *)
THEOREM Inductive == Safety => []IInv
<1>1. Init => IInv
  <2> SUFFICES ASSUME Init
               PROVE  IInv
    OBVIOUS
  <2>1. BacklogInv
    BY DEF Init, BacklogInv
  <2>2. NoOrphan
    BY DEF Init, NoOrphan
  <2>3. ASSUME NEW s \in Subs
        PROVE  LifeInv(s) /\ StreamInv(s)
    BY DEF Init, LifeInv, StreamInv
  <2> QED
    BY <2>1, <2>2, <2>3 DEF IInv
<1>2. TypeOK /\ IInv /\ [Next]_vars => IInv'
  <2> SUFFICES ASSUME TypeOK, IInv, [Next]_vars
               PROVE  IInv'
    OBVIOUS
  <2>1. ASSUME NEW s \in Subs, Subscribe(s)
        PROVE  IInv'
    BY <2>1, SubscribeInv
  <2>2. ASSUME NEW s \in Subs, Unsubscribe(s)
        PROVE  IInv'
    BY <2>2, UnsubscribeInv
  <2>3. ASSUME NEW s \in Subs,
               UnsubscribeSignal(s) \/ FetchWait(s) \/ FetchEnd(s) \/ FetchFree(s)
        PROVE  IInv'
    BY <2>3, PcInv
  <2>4. ASSUME NEW s \in Subs, FetchChunk(s)
        PROVE  IInv'
    BY <2>4, FetchChunkInv
  <2>5. ASSUME NEW s \in Subs, Deliver(s)
        PROVE  IInv'
    BY <2>5, DeliverInv
  <2>6. CASE DrainCall \/ DrainCheck \/ UNCHANGED vars
    <3>1. UNCHANGED <<subscribers, chunks_out, chunks, die, spc, cur, upc,
                      nput, base, left, delivered>>
      BY <2>6 DEF DrainCall, DrainCheck, vars
    <3>2. BacklogInv' /\ NoOrphan' /\ \A s \in Subs : StreamInv(s)'
      BY <3>1, Frame
    <3>3. \A s \in Subs : LifeInv(s)'
      BY <3>1 DEF IInv, LifeInv
    <3> QED
      BY <3>2, <3>3 DEF IInv
  <2> QED
    BY <2>1, <2>2, <2>3, <2>4, <2>5, <2>6, PutBacklogInv, PutCopiesInv
       DEF Next, Thread
<1> QED
  BY <1>1, <1>2, TypeCorrect, PTL DEF Safety

(* Every chunk ever put is in the backlog or in the stream of a subscriber. *)
THEOREM NothingOrphaned == Safety => []NoOrphan
<1>1. IInv => NoOrphan
  BY DEF IInv
<1> QED
  BY <1>1, Inductive, PTL

(* No subscriber thread sleeps with something to do.                        *)
THEOREM WakeupsKept == Safety => []NoLostWakeup
<1>1. IInv => NoLostWakeup
  BY DEF IInv, LifeInv, NoLostWakeup
<1> QED
  BY <1>1, Inductive, PTL

(* What a subscriber is handed, holds and has queued is exactly its chunks, *)
(* in order (InOrder): the three parts of StreamInv, put together.          *)
THEOREM DeliveredInOrder == Safety => []InOrder
<1>1. TypeOK /\ IInv => InOrder
  <2> SUFFICES ASSUME TypeOK, IInv, NEW s \in Subs, spc[s] # "none"
               PROVE  Stream(s) = [i \in 1..(LastPut(s) - base[s]) |-> base[s] + i]
    BY DEF InOrder
  <2> DEFINE d == delivered[s]  c == cur[s]  q == chunks[s]
             dc == d \o c  dcq == dc \o q
             e == [i \in 1..(LastPut(s) - base[s]) |-> base[s] + i]
  <2>1. d \in Seq(Nat) /\ c \in Seq(Nat) /\ q \in Seq(Nat)
    BY DEF TypeOK
  <2>2. /\ Len(d) \in Nat /\ Len(c) \in Nat /\ Len(q) \in Nat
        /\ base[s] \in Nat /\ Done(s) \in Nat /\ Taken(s) \in Nat
        /\ LastPut(s) \in Nat /\ base[s] <= Done(s) /\ Done(s) <= Taken(s)
    BY Lengths
  <2>3. /\ Done(s) = base[s] + Len(d) /\ Taken(s) = Done(s) + Len(c)
        /\ LastPut(s) = Taken(s) + Len(q)
    BY DEF IInv, StreamInv, Done, Taken
  <2>4. /\ \A i \in 1..Len(d) : d[i] = base[s] + i
        /\ \A i \in 1..Len(c) : c[i] = Done(s) + i
        /\ \A i \in 1..Len(q) : q[i] = Taken(s) + i
    BY DEF IInv, StreamInv
  <2>5. /\ dc \in Seq(Nat) /\ Len(dc) = Len(d) + Len(c)
        /\ \A i \in 1..(Len(d) + Len(c)) :
             dc[i] = IF i <= Len(d) THEN d[i] ELSE c[i - Len(d)]
    BY <2>1, ConcatProperties
  <2>6. /\ dcq \in Seq(Nat) /\ Len(dcq) = Len(dc) + Len(q)
        /\ \A i \in 1..(Len(dc) + Len(q)) :
             dcq[i] = IF i <= Len(dc) THEN dc[i] ELSE q[i - Len(dc)]
    <3>1. dc \in Seq(Nat) /\ q \in Seq(Nat)
      BY <2>1, <2>5
    <3> HIDE DEF dc, q
    <3> QED
      BY <3>1, ConcatProperties
  <2> HIDE DEF d, c, q, dc, dcq
  <2>7. Len(dc) \in Nat /\ base[s] + Len(dc) = Taken(s)
    <3>1. \A w, x, y \in Nat : w + (x + y) = (w + x) + y /\ x + y \in Nat
      OBVIOUS
    <3> QED
      BY <2>2, <2>3, <2>5, <3>1
  <2>8. LastPut(s) - base[s] \in Nat /\ Len(dcq) = LastPut(s) - base[s]
    <3>1. \A w, x, y \in Nat : ((w + x) + y) - w = x + y /\ x + y \in Nat
      OBVIOUS
    <3>2. LastPut(s) = (base[s] + Len(dc)) + Len(q)
      BY <2>3, <2>7
    <3> QED
      BY <2>2, <2>6, <2>7, <3>1, <3>2
  <2>9. e \in Seq(Nat) /\ Len(e) = LastPut(s) - base[s]
    BY <2>2, <2>8
  <2>10. ASSUME NEW i \in 1..(LastPut(s) - base[s])
         PROVE  dcq[i] = base[s] + i
    <3>1. i \in Nat /\ i \in 1..(Len(dc) + Len(q))
      BY <2>6, <2>8
    <3>2. CASE i <= Len(d)
      <4>1. i \in 1..Len(d) /\ i \in 1..(Len(d) + Len(c))
        BY <2>2, <3>1, <3>2
      <4>2. dcq[i] = d[i]
        <5>1. i <= Len(dc)
          BY <2>2, <2>5, <3>1, <3>2
        <5> QED
          BY <2>5, <2>6, <3>1, <3>2, <4>1, <5>1
      <4> QED
        BY <2>4, <4>1, <4>2
    <3>3. CASE ~(i <= Len(d)) /\ i <= Len(dc)
      <4>1. i \in 1..(Len(d) + Len(c)) /\ i - Len(d) \in 1..Len(c)
        BY <2>2, <2>5, <3>1, <3>3
      <4>2. dcq[i] = c[i - Len(d)]
        BY <2>5, <2>6, <3>1, <3>3, <4>1
      <4>3. c[i - Len(d)] = Done(s) + (i - Len(d))
        BY <2>4, <4>1
      <4>4. \A x, y \in Nat : (x + y) + (i - y) = x + i
        BY <3>1
      <4> QED
        BY <2>2, <2>3, <4>2, <4>3, <4>4
    <3>4. CASE ~(i <= Len(dc))
      <4>1. i - Len(dc) \in 1..Len(q)
        BY <2>2, <2>7, <3>1, <3>4
      <4>2. dcq[i] = q[i - Len(dc)]
        BY <2>6, <3>1, <3>4
      <4>3. q[i - Len(dc)] = Taken(s) + (i - Len(dc))
        BY <2>4, <4>1
      <4>4. \A x, y \in Nat : (x + y) + (i - y) = x + i
        BY <3>1
      <4> QED
        BY <2>2, <2>7, <4>2, <4>3, <4>4
    <3>5. Len(d) <= Len(dc)
      BY <2>2, <2>5
    <3> QED
      BY <3>2, <3>3, <3>4
  <2>11. dcq = e
    <3>1. \A i \in 1..(LastPut(s) - base[s]) : e[i] = base[s] + i
      OBVIOUS
    <3>2. /\ dcq \in Seq(Nat) /\ e \in Seq(Nat) /\ Len(dcq) = Len(e)
          /\ \A i \in 1..Len(dcq) : dcq[i] = e[i]
      BY <2>6, <2>8, <2>9, <2>10, <3>1
    <3> HIDE DEF e
    <3> QED
      BY <3>2, SeqEqual
  <2> QED
    BY <2>11 DEF Stream, d, c, q, dc, dcq
<1> QED
  BY <1>1, Inductive, TypeCorrect, PTL

(* elastic_drain returns only after every chunk put before the call has     *)
(* left the queue of every subscriber on the list (DrainReturnsLate).       *)
THEOREM DrainLate == Safety => DrainReturnsLate
<1> DEFINE Mark == dmark <= nput
<1>1. Init => Mark
  BY DEF Init
<1>2. TypeOK /\ Mark /\ [Next]_vars => Mark'
  BY DEF TypeOK, vars, Next, Thread, PutBacklog, PutCopies, DrainCall,
         DrainCheck, Subscribe, Unsubscribe, UnsubscribeSignal, FetchWait,
         FetchChunk, FetchEnd, FetchFree, Deliver
<1>3. ASSUME TypeOK, IInv, Mark, Next, dpc = "check", dpc' = "idle",
             NEW s \in subscribers
      PROVE  dmark <= Taken(s)
  <2>1. DrainCheck /\ ~DrainBusy
    BY <1>3 DEF Next, Thread, PutBacklog, PutCopies, DrainCall, DrainCheck,
         Subscribe, Unsubscribe, UnsubscribeSignal, FetchWait, DrainWoken,
         FetchChunk, FetchEnd, FetchFree, Deliver
  <2>2. s \in Subs /\ chunks[s] = << >> /\ spc[s] # "none" /\ upc[s] = "no"
    BY <1>3, <2>1 DEF DrainBusy, TypeOK, IInv, LifeInv
  <2>3. Taken(s) + 0 = nput
    <3>1. Taken(s) + Len(chunks[s]) = nput /\ Len(chunks[s]) = 0
      BY <1>3, <2>2 DEF IInv, StreamInv, LastPut
    <3> QED
      BY <3>1
  <2> QED
    BY <1>3, <2>2, <2>3, Lengths
<1>4. TypeOK /\ IInv /\ Mark /\ [Next]_vars =>
        [dpc = "check" /\ dpc' = "idle" =>
           \A s \in subscribers : dmark <= Taken(s)]_vars
  BY <1>3 DEF vars
<1> QED
  BY <1>1, <1>2, <1>4, Inductive, TypeCorrect, PTL DEF Safety, DrainReturnsLate
-----------------------------------------------------------------------------
(* Every step of the queues, the backlog and the threads is a step of the   *)
(* multicast log or leaves it alone.                                        *)
THEOREM RefinesLog == Safety => Log!LogSafety
<1>1. Init => Log!LogInit
  <2> SUFFICES ASSUME Init
               PROVE  Log!LogInit
    OBVIOUS
  <2>1. Len(<< >>) = 0
    OBVIOUS
  <2>2. nput - Len(chunks_out) = 0
    <3>1. nput = 0 /\ chunks_out = << >>
      BY DEF Init
    <3>2. nput = 0 /\ Len(chunks_out) = 0
      BY <3>1, <2>1
    <3> QED
      BY <3>2
  <2>3. {s \in Subs : spc[s] # "none"} = {}
    BY DEF Init
  <2>4. [s \in Subs |-> Len(delivered[s])] = [s \in Subs |-> 0]
    BY <2>1 DEF Init
  <2> QED
    BY <2>2, <2>3, <2>4 DEF Init, Log!LogInit
<1>2. TypeOK /\ IInv /\ [Next]_vars => [Log!LogNext]_(Log!lvars)
  <2> SUFFICES ASSUME TypeOK, IInv, [Next]_vars
               PROVE  Log!LogNext \/ UNCHANGED Log!lvars
    OBVIOUS
  <2>0. /\ nput \in Nat /\ Len(chunks_out) \in Nat
        /\ Len(chunks_out) <= nput /\ Len(<< >>) = 0
    BY LenProperties DEF TypeOK
  <2>1. CASE PutBacklog
    <3>1. Len(chunks_out') = Len(chunks_out) + 1
      BY <2>1, AppendProperties DEF PutBacklog, TypeOK
    <3>2. nput' - Len(chunks_out') = nput - Len(chunks_out)
      BY <2>0, <2>1, <3>1 DEF PutBacklog
    <3>3. Log!Publish
      BY <2>1, <3>2 DEF PutBacklog, Log!Publish
    <3> QED
      BY <3>3 DEF Log!LogNext
  <2>2. CASE PutCopies
    <3>1. chunks_out = << >> /\ chunks_out' = << >>
      BY <2>2 DEF PutCopies, IInv, BacklogInv
    <3>2. nput' - Len(chunks_out') = nput + 1
      BY <2>0, <2>2, <3>1 DEF PutCopies
    <3>3. {s \in Subs : spc'[s] # "none"} = {s \in Subs : spc[s] # "none"}
      BY <2>2 DEF PutCopies, Woken
    <3>4. Log!Publish
      BY <2>2, <3>2, <3>3 DEF PutCopies, Log!Publish
    <3> QED
      BY <3>4 DEF Log!LogNext
  <2>3. ASSUME NEW s \in Subs, Subscribe(s)
        PROVE  Log!LogNext
    <3>1. {t \in Subs : spc'[t] # "none"} = {t \in Subs : spc[t] # "none"} \cup {s}
      BY <2>3 DEF Subscribe, TypeOK
    <3>2. nput' - Len(chunks_out') = nput
      BY <2>0, <2>3 DEF Subscribe
    <3>3. Log!Join(s)
      BY <2>3, <3>1, <3>2 DEF Subscribe, Log!Join
    <3> QED
      BY <3>3 DEF Log!LogNext
  <2>4. ASSUME NEW s \in Subs, Unsubscribe(s)
        PROVE  Log!LogNext
    <3>1. Log!Leave(s)
      BY <2>4 DEF Unsubscribe, Log!Leave
    <3> QED
      BY <3>1 DEF Log!LogNext
  <2>5. ASSUME NEW s \in Subs, Deliver(s)
        PROVE  Log!LogNext
    <3>1. /\ {t \in Subs : spc'[t] # "none"} = {t \in Subs : spc[t] # "none"}
          /\ s \in {t \in Subs : spc[t] # "none"}
          /\ Len(cur[s]) = 1 /\ spc[s] # "none"
      BY <2>5 DEF Deliver, TypeOK
    <3>2. Len(delivered'[s]) = Len(delivered[s]) + 1
      <4>1. /\ delivered[s] \in Seq(Nat) /\ cur[s] \in Seq(Nat)
            /\ delivered'[s] = delivered[s] \o cur[s]
        BY <2>5 DEF Deliver, TypeOK
      <4>2. Len(delivered[s] \o cur[s]) = Len(delivered[s]) + Len(cur[s])
        <5> DEFINE d == delivered[s]  c == cur[s]
        <5>1. d \in Seq(Nat) /\ c \in Seq(Nat)
          BY <4>1
        <5> HIDE DEF d, c
        <5>2. Len(d \o c) = Len(d) + Len(c)
          BY <5>1, ConcatProperties
        <5> QED
          BY <5>2 DEF d, c
      <4> QED
        BY <3>1, <4>1, <4>2
    <3>3. [t \in Subs |-> Len(delivered'[t])] =
            [[t \in Subs |-> Len(delivered[t])] EXCEPT ![s] = @ + 1]
      BY <2>5, <3>2 DEF Deliver, TypeOK
    <3>4. Len(delivered[s]) < Log!Given(s)
      <4>1. Log!Given(s) = LastPut(s) - base[s]
        BY <3>1 DEF Log!Given, LastPut, IInv, LifeInv
      <4>2. /\ Taken(s) = (base[s] + Len(delivered[s])) + 1
            /\ Taken(s) + Len(chunks[s]) = LastPut(s)
        BY <3>1 DEF Taken, Done, IInv, StreamInv
      <4>3. \A w, x, y \in Nat : x < (((w + x) + 1) + y) - w
        OBVIOUS
      <4>4. LastPut(s) = ((base[s] + Len(delivered[s])) + 1) + Len(chunks[s])
        BY <4>2
      <4>5. /\ base[s] \in Nat /\ Len(delivered[s]) \in Nat
            /\ Len(chunks[s]) \in Nat
        BY Lengths
      <4> QED
        BY <4>1, <4>3, <4>4, <4>5
    <3>5. Log!Consume(s)
      BY <2>5, <3>1, <3>3, <3>4 DEF Deliver, Log!Consume
    <3> QED
      BY <3>5 DEF Log!LogNext
  <2>6. CASE \/ UNCHANGED vars \/ DrainCall \/ DrainCheck
             \/ \E s \in Subs : \/ UnsubscribeSignal(s) \/ FetchWait(s)
                               \/ FetchChunk(s) \/ FetchEnd(s) \/ FetchFree(s)
    <3>1. /\ UNCHANGED <<nput, chunks_out, subscribers, base, left, delivered>>
          /\ \A s \in Subs : spc'[s] # "none" <=> spc[s] # "none"
      BY <2>6 DEF vars, DrainCall, DrainCheck, UnsubscribeSignal, Woken,
           FetchWait, FetchChunk, FetchEnd, FetchFree, TypeOK
    <3> QED
      BY <3>1 DEF Log!lvars
  <2> QED
    BY <2>1, <2>2, <2>3, <2>4, <2>5, <2>6 DEF Next, Thread
<1> QED
  BY <1>1, <1>2, Inductive, TypeCorrect, PTL DEF Safety, Log!LogSafety

-----------------------------------------------------------------------------
(* The loop over a chunk in elastic_match_txfunc: there is a state after    *)
(* each of its bytes.  First that what defines the fold exists.             *)

IsFold(g, n, st, c) ==
  g = [s \in SUBSET (1..n) |->
         IF s = {} THEN st ELSE LET x == Max(s) IN Byte(g[s \ {x}], c[x])]

LEMMA MaxIs ==
  ASSUME NEW n \in Nat, NEW s, s \subseteq 1..n, n \in s
  PROVE  Max(s) = n
<1>1. n \in s /\ \A y \in s : n >= y
  OBVIOUS
<1>2. \E x \in s : \A y \in s : x >= y
  BY <1>1
<1>3. Max(s) \in s /\ \A y \in s : Max(s) >= y
  BY <1>2, Zenon DEF Max
<1> HIDE DEF Max
<1>4. Max(s) \in 1..n /\ Max(s) >= n
  BY <1>1, <1>3
<1> QED
  BY <1>4

LEMMA FoldStep ==
  ASSUME NEW n \in Nat, NEW g, NEW st, NEW c, IsFold(g, n, st, c)
  PROVE  \E h : IsFold(h, n + 1, st, c)
<1> DEFINE h == [s \in SUBSET (1..(n + 1)) |->
                   IF n + 1 \in s THEN Byte(g[s \ {n + 1}], c[n + 1]) ELSE g[s]]
<1>1. ASSUME NEW s \in SUBSET (1..(n + 1))
      PROVE  h[s] = IF s = {} THEN st
                    ELSE LET x == Max(s) IN Byte(h[s \ {x}], c[x])
  <2>1. CASE n + 1 \in s
    <3>1. Max(s) = n + 1 /\ s # {}
      <4>1. n + 1 \in Nat /\ s \subseteq 1..(n + 1)
        OBVIOUS
      <4>2. Max(s) = n + 1
        BY <2>1, <4>1, MaxIs, Zenon
      <4> QED
        BY <2>1, <4>2
    <3>2. s \ {n + 1} \in SUBSET (1..(n + 1)) /\ n + 1 \notin s \ {n + 1}
      OBVIOUS
    <3>3. h[s \ {n + 1}] = g[s \ {n + 1}]
      BY <3>2, Zenon
    <3>4. h[s] = Byte(g[s \ {n + 1}], c[n + 1])
      BY <2>1, Zenon
    <3> HIDE DEF h
    <3> QED
      BY <3>1, <3>3, <3>4, Zenon
  <2>2. CASE n + 1 \notin s
    <3>1. s \in SUBSET (1..n)
      BY <2>2
    <3>2. h[s] = g[s]
      BY <2>2, Zenon
    <3>3. g[s] = IF s = {} THEN st ELSE LET x == Max(s) IN Byte(g[s \ {x}], c[x])
      BY <3>1, Zenon DEF IsFold
    <3>4. \A x : h[s \ {x}] = g[s \ {x}]
      BY <2>2, Zenon
    <3> HIDE DEF h
    <3> QED
      BY <3>2, <3>3, <3>4, Zenon
  <2> QED
    BY <2>1, <2>2
<1>2. h = [s \in SUBSET (1..(n + 1)) |-> h[s]]
  OBVIOUS
<1> HIDE DEF h
<1>3. IsFold(h, n + 1, st, c)
  BY <1>1, <1>2, Zenon DEF IsFold
<1> QED
  BY <1>3, Zenon

LEMMA FoldExists ==
  ASSUME NEW n \in Nat, NEW st, NEW c
  PROVE  \E g : IsFold(g, n, st, c)
<1> DEFINE T == {m \in Nat : \E g : IsFold(g, m, st, c)}
<1>1. 0 \in T
  <2> DEFINE g == [s \in SUBSET (1..0) |-> st]
  <2>1. \A s \in SUBSET (1..0) : s = {}
    OBVIOUS
  <2>2. g = [s \in SUBSET (1..0) |->
               IF s = {} THEN st ELSE LET x == Max(s) IN Byte(g[s \ {x}], c[x])]
    BY <2>1, Zenon
  <2> HIDE DEF g
  <2>3. IsFold(g, 0, st, c)
    BY <2>2, Zenon DEF IsFold
  <2> QED
    BY <2>3
<1>2. ASSUME NEW m \in T
      PROVE  m + 1 \in T
  BY FoldStep
<1> HIDE DEF T
<1>3. T = Nat
  <2>1. T \subseteq Nat
    BY DEF T
  <2> QED
    BY <1>1, <1>2, <2>1, SetInduction, Zenon
<1> QED
  BY <1>3, Zenon DEF T

LEMMA ScanIs ==
  ASSUME NEW c \in Seq(Octets), NEW st
  PROVE  \E f : /\ f[0] = st
                /\ \A i \in 1..Len(c) : f[i] = Byte(f[i - 1], c[i])
                /\ FoldLeft(Byte, st, c) = f[Len(c)]
<1> DEFINE n == Len(c)
           g == CHOOSE g : IsFold(g, n, st, c)
           f == [i \in 0..n |-> g[1..i]]
<1>1. n \in Nat /\ DOMAIN c = 1..n
  OBVIOUS
<1>2. FoldLeft(Byte, st, c) = g[1..n]
  BY <1>1, Zenon DEF FoldLeft, MapThenFoldSet, IsFold
<1>3. IsFold(g, n, st, c)
  <2> HIDE DEF n
  <2> QED
    BY <1>1, FoldExists, Zenon
<1> HIDE DEF g, n
<1>4. ASSUME NEW s \in SUBSET (1..n)
      PROVE  g[s] = IF s = {} THEN st ELSE LET x == Max(s) IN Byte(g[s \ {x}], c[x])
  BY <1>3, Zenon DEF IsFold
<1>5. f[0] = st
  <2>1. 1..0 \in SUBSET (1..n) /\ 1..0 = {} /\ 0 \in 0..n
    BY <1>1
  <2> QED
    BY <1>4, <2>1, Zenon
<1>6. ASSUME NEW i \in 1..n
      PROVE  f[i] = Byte(f[i - 1], c[i])
  <2>1. i \in 0..n /\ i - 1 \in 0..n /\ i \in Nat /\ i \in 1..i
    BY <1>1
  <2>4. 1..i \in SUBSET (1..n) /\ 1..i \subseteq 1..i /\ 1..i # {}
    BY <1>1, <2>1
  <2>5. (1..i) \ {i} = 1..(i - 1)
    BY <2>1
  <2>2. Max(1..i) = i
    BY <2>1, <2>4, MaxIs, Zenon
  <2>3. g[1..i] = Byte(g[1..(i - 1)], c[i])
    BY <1>4, <2>2, <2>4, <2>5, Zenon
  <2> QED
    BY <2>1, <2>3, Zenon
<1>7. FoldLeft(Byte, st, c) = f[n]
  <2>1. n \in 0..n
    BY <1>1
  <2> QED
    BY <1>2, <2>1, Zenon
<1> QED
  BY <1>5, <1>6, <1>7, Zenon DEF n

-----------------------------------------------------------------------------
(* What holds after each byte, of the state st of the loop and the bytes sn *)
(* looked at, of which n0 were before this chunk.                           *)

Whole(sn, k) ==
  k + Len(pattern) <= Len(sn) /\ \A j \in 1..Len(pattern) : sn[k + j] = pattern[j]

ScanTypes(st, sn, n0) ==
  /\ st.idx \in Nat /\ st.match \in BOOLEAN /\ sn \in Seq(Octets)
  /\ armed <= n0 /\ n0 <= Len(sn) /\ n0 \in Nat

ScanEnds(st, sn) == Ends(sn, st.idx) /\ (st.idx = Len(pattern) => st.match)

ScanBreaks(st, sn) ==
  \A k \in armed..Len(sn) :
    Breaks(sn, k) /\ Ends(sn, Len(sn) - k) => st.match \/ st.idx = Len(sn) - k

ScanFound(st, sn) == \A k \in armed..Len(sn) : Whole(sn, k) /\ Breaks(sn, k) => st.match

ScanFresh(st, sn, n0) ==
  st.match => \E k \in armed..Len(sn) : Whole(sn, k) /\ n0 < k + Len(pattern)

Scan(st, sn, n0) ==
  /\ ScanTypes(st, sn, n0) /\ ScanEnds(st, sn) /\ ScanBreaks(st, sn)
  /\ ScanFound(st, sn) /\ ScanFresh(st, sn, n0)

LEMMA ByteStep ==
  ASSUME pattern \in Seq(Octets), pattern # << >>, armed \in Nat,
         NEW st, NEW sn, NEW n0, NEW b \in Octets, Scan(st, sn, n0)
  PROVE  Scan(Byte(st, b), Append(sn, b), n0)
<1> DEFINE L == Len(sn)
           P == Len(pattern)
           hit == st.idx < P /\ pattern[st.idx + 1] = b
           tn == Append(sn, b)
           u == Byte(st, b)
<1>1. /\ ScanTypes(st, sn, n0) /\ ScanEnds(st, sn) /\ ScanBreaks(st, sn)
      /\ ScanFound(st, sn) /\ ScanFresh(st, sn, n0)
  BY Zenon DEF Scan
<1>2. /\ L \in Nat /\ P \in Nat /\ P > 0 /\ st.idx \in Nat /\ st.match \in BOOLEAN
      /\ n0 \in Nat /\ armed \in Nat /\ armed <= n0 /\ n0 <= L
  BY <1>1 DEF ScanTypes
<1>3. /\ tn \in Seq(Octets) /\ Len(tn) = L + 1 /\ tn[L + 1] = b
      /\ \A i \in 1..L : tn[i] = sn[i]
  BY <1>1 DEF ScanTypes
<1>4. /\ hit => u.idx = st.idx + 1 /\ u.match = (st.match \/ st.idx + 1 = P)
      /\ ~hit => u.idx = 0 /\ u.match = st.match
  BY DEF Byte
<1>5. st.idx <= L - armed /\ \A j \in 1..st.idx : sn[L - st.idx + j] = pattern[j]
  BY <1>1, Zenon DEF ScanEnds, Ends
<1> HIDE DEF L, P, hit, tn, u
<1>6. st.match => u.match
  <2>1. CASE hit
    BY <1>4, <2>1, Zenon
  <2>2. CASE ~hit
    BY <1>4, <2>2, Zenon
  <2> QED
    BY <2>1, <2>2, Zenon
<1>7. ScanTypes(u, tn, n0)
  <2>1. u.idx \in Nat
    BY <1>2, <1>4
  <2>2. u.match \in BOOLEAN
    <3>1. CASE hit
      BY <1>4, <3>1, Zenon
    <3>2. CASE ~hit
      BY <1>2, <1>4, <3>2, Zenon
    <3> QED
      BY <3>1, <3>2, Zenon
  <2>3. armed <= n0 /\ n0 <= Len(tn)
    BY <1>2, <1>3
  <2> QED
    BY <1>2, <1>3, <2>1, <2>2, <2>3, Zenon DEF ScanTypes
<1>8. ScanEnds(u, tn)
  <2>1. CASE hit
    <3>1. st.idx + 1 <= P /\ pattern[st.idx + 1] = b
      BY <1>2, <2>1 DEF hit
    <3>2. ASSUME NEW j \in 1..(st.idx + 1)
          PROVE  tn[(L + 1) - (st.idx + 1) + j] = pattern[j]
      <4>1. CASE j = st.idx + 1
        <5>1. (L + 1) - (st.idx + 1) + j = L + 1
          BY <1>2, <4>1
        <5> QED
          BY <1>3, <3>1, <4>1, <5>1
      <4>2. CASE j # st.idx + 1
        <5>1. j \in 1..st.idx
          BY <1>2, <4>2
        <5>2. (L + 1) - (st.idx + 1) + j = L - st.idx + j
          BY <1>2
        <5>3. L - st.idx + j \in 1..L
          BY <1>2, <1>5, <5>1
        <5> QED
          BY <1>3, <1>5, <5>1, <5>2, <5>3
      <4> QED
        BY <4>1, <4>2
    <3>3. st.idx + 1 <= Len(tn) - armed
      BY <1>2, <1>3, <1>5
    <3>4. u.idx = st.idx + 1 /\ (st.idx + 1 = P => u.match)
      BY <1>4, <2>1
    <3>5. Ends(tn, u.idx)
      BY <1>3, <3>1, <3>2, <3>3, <3>4 DEF Ends, P
    <3> QED
      BY <3>4, <3>5, Zenon DEF ScanEnds, P
  <2>2. CASE ~hit
    <3>1. u.idx = 0 /\ 0 <= Len(tn) - armed /\ 0 <= P /\ u.idx # P
      BY <1>2, <1>3, <1>4, <2>2
    <3> QED
      BY <3>1 DEF ScanEnds, Ends, P
  <2> QED
    BY <2>1, <2>2
<1>9. \A k \in armed..L : Breaks(tn, k) => Breaks(sn, k)
  <2> SUFFICES ASSUME NEW k \in armed..L, Breaks(tn, k), k # armed
               PROVE  ~Contains(pattern, sn[k])
    BY Zenon DEF Breaks
  <2>1. k \in 1..L
    BY <1>2
  <2> QED
    BY <1>3, <2>1, Zenon DEF Breaks
<1>10. ScanBreaks(u, tn)
  <2> SUFFICES ASSUME NEW k \in armed..(L + 1), Breaks(tn, k), Ends(tn, (L + 1) - k)
               PROVE  u.match \/ u.idx = (L + 1) - k
    BY <1>3, Zenon DEF ScanBreaks
  <2>1. CASE k = L + 1
    <3>1. ~Contains(pattern, b)
      BY <1>2, <1>3, <2>1 DEF Breaks
    <3>2. ~hit
      <4>1. hit => st.idx + 1 \in 1..P /\ pattern[st.idx + 1] = b
        BY <1>2 DEF hit
      <4> QED
        BY <3>1, <4>1, Zenon DEF Contains, P
    <3> QED
      BY <1>2, <1>4, <2>1, <3>2
  <2>2. CASE k # L + 1
    <3>1. k \in armed..L /\ k \in Nat
      BY <1>2, <2>2
    <3>2. (L + 1) - k <= P /\ \A j \in 1..((L + 1) - k) : tn[(L + 1) - ((L + 1) - k) + j] = pattern[j]
      BY <1>3, Zenon DEF Ends, P
    <3>3. Ends(sn, L - k)
      <4>1. L - k <= L - armed /\ L - k <= P
        BY <1>2, <3>1, <3>2
      <4>2. ASSUME NEW j \in 1..(L - k)
            PROVE  sn[L - (L - k) + j] = pattern[j]
        <5>1. /\ j \in 1..((L + 1) - k) /\ (L + 1) - ((L + 1) - k) + j = k + j
              /\ L - (L - k) + j = k + j /\ k + j \in 1..L
          BY <1>2, <3>1
        <5> QED
          BY <1>3, <3>2, <5>1
      <4> QED
        BY <4>1, <4>2 DEF Ends, L, P
    <3>4. st.match \/ st.idx = L - k
      BY <1>1, <1>9, <3>1, <3>3, Zenon DEF ScanBreaks, L
    <3>5. pattern[(L + 1) - k] = b
      <4>1. /\ (L + 1) - k \in 1..((L + 1) - k)
            /\ (L + 1) - ((L + 1) - k) + ((L + 1) - k) = L + 1
        BY <1>2, <3>1
      <4> QED
        BY <1>3, <3>2, <4>1
    <3>6. CASE st.idx = L - k
      <4>1. st.idx + 1 = (L + 1) - k /\ st.idx < P
        BY <1>2, <3>1, <3>2, <3>6
      <4>2. hit
        BY <3>5, <4>1 DEF hit
      <4> QED
        BY <1>4, <4>1, <4>2
    <3> QED
      BY <1>6, <3>4, <3>6
  <2> QED
    BY <2>1, <2>2
<1>11. ScanFound(u, tn)
  <2> SUFFICES ASSUME NEW k \in armed..(L + 1), Whole(tn, k), Breaks(tn, k)
               PROVE  u.match
    BY <1>3, Zenon DEF ScanFound
  <2>1. k + P <= L + 1 /\ \A j \in 1..P : tn[k + j] = pattern[j]
    BY <1>3, Zenon DEF Whole, P
  <2>2. k \in armed..L /\ k \in Nat
    BY <1>2, <2>1
  <2>3. CASE k + P <= L
    <3>1. \A j \in 1..P : sn[k + j] = pattern[j]
      BY <1>2, <1>3, <2>1, <2>2, <2>3
    <3>2. Whole(sn, k)
      BY <2>3, <3>1 DEF Whole, L, P
    <3> QED
      BY <1>1, <1>6, <1>9, <2>2, <3>2, Zenon DEF ScanFound, L
  <2>4. CASE k + P = L + 1
    <3>1. (L + 1) - k = P
      BY <1>2, <2>2, <2>4
    <3>2. P <= (L + 1) - armed /\ (L + 1) - P = k
      BY <1>2, <2>2, <2>4
    <3>3. Ends(tn, P)
      <4>1. P <= Len(tn) - armed /\ P <= P
        BY <1>2, <1>3, <3>2
      <4>2. \A j \in 1..P : tn[Len(tn) - P + j] = pattern[j]
        BY <1>3, <2>1, <3>2
      <4> QED
        BY <4>1, <4>2, Zenon DEF Ends, P
    <3>4. u.match \/ u.idx = P
      BY <1>3, <1>10, <3>1, <3>3, Zenon DEF ScanBreaks
    <3> QED
      BY <1>8, <3>4, Zenon DEF ScanEnds, P
  <2> QED
    BY <1>2, <2>1, <2>2, <2>3, <2>4
<1>12. ScanFresh(u, tn, n0)
  <2> SUFFICES ASSUME u.match
               PROVE  \E k \in armed..(L + 1) : Whole(tn, k) /\ n0 < k + P
    BY <1>3, Zenon DEF ScanFresh, P
  <2>1. CASE st.match
    <3>1. PICK k \in armed..L : Whole(sn, k) /\ n0 < k + P
      BY <1>1, <2>1, Zenon DEF ScanFresh, L, P
    <3>2. k \in armed..(L + 1) /\ k \in Nat
      BY <1>2
    <3>3. k + P <= L /\ \A j \in 1..P : sn[k + j] = pattern[j]
      BY <3>1, Zenon DEF Whole, L, P
    <3>4. \A j \in 1..P : tn[k + j] = pattern[j]
      BY <1>2, <1>3, <3>2, <3>3
    <3>5. k + P <= L + 1
      BY <1>2, <3>2, <3>3
    <3>6. Whole(tn, k)
      BY <1>3, <3>4, <3>5, Zenon DEF Whole, P
    <3> QED
      BY <3>1, <3>2, <3>6
  <2>2. CASE ~st.match
    <3>1. st.idx + 1 = P /\ u.idx = P
      BY <1>2, <1>4, <2>2
    <3>2. Ends(tn, P)
      BY <1>8, <3>1, Zenon DEF ScanEnds
    <3>3. P <= (L + 1) - armed /\ \A j \in 1..P : tn[(L + 1) - P + j] = pattern[j]
      BY <1>3, <3>2, Zenon DEF Ends
    <3> DEFINE k == (L + 1) - P
    <3>4. k \in armed..(L + 1) /\ n0 < k + P /\ k + P <= L + 1
      BY <1>2, <3>3
    <3>5. Whole(tn, k)
      BY <1>3, <3>3, <3>4, Zenon DEF Whole, P
    <3> HIDE DEF k
    <3> QED
      BY <3>4, <3>5
  <2> QED
    BY <1>2, <2>1, <2>2
<1> QED
  BY <1>7, <1>8, <1>10, <1>11, <1>12, Zenon DEF Scan, u, tn

(* One chunk: byte by byte, by induction.                                   *)
LEMMA ScanChunk ==
  ASSUME pattern \in Seq(Octets), pattern # << >>, armed \in Nat,
         NEW st, NEW sn, NEW c \in Seq(Octets), Scan(st, sn, Len(sn))
  PROVE  Scan(FoldLeft(Byte, st, c), sn \o c, Len(sn))
<1> DEFINE n0 == Len(sn)
           P(i) == sn \o SubSeq(c, 1, i)
<1>1. PICK f : /\ f[0] = st
               /\ \A i \in 1..Len(c) : f[i] = Byte(f[i - 1], c[i])
               /\ FoldLeft(Byte, st, c) = f[Len(c)]
  BY ScanIs, Zenon
<1> DEFINE T == {i \in Nat : i <= Len(c) => Scan(f[i], P(i), n0)}
<1>2. sn \in Seq(Octets) /\ Len(c) \in Nat
  BY DEF Scan, ScanTypes
<1>3. \A i \in 0..Len(c) : SubSeq(c, 1, i) \in Seq(Octets)
  BY SplitAt, Zenon
<1>4. 0 \in T
  <2>1. SubSeq(c, 1, 0) = << >>
    BY SubSeqEmpty
  <2>2. P(0) = sn
    BY <1>2, <2>1, ConcatEmptySeq, Zenon
  <2>3. Scan(f[0], P(0), n0)
    BY <1>1, <2>2, Zenon
  <2> HIDE DEF P
  <2> QED
    BY <2>3
<1>5. ASSUME NEW i \in T
      PROVE  i + 1 \in T
  <2> SUFFICES ASSUME i + 1 <= Len(c)
               PROVE  Scan(f[i + 1], P(i + 1), n0)
    BY DEF T
  <2>1. /\ i \in Nat /\ i <= Len(c) /\ i \in 0..Len(c) /\ i + 1 \in 1..Len(c)
        /\ i + 1 \in 0..Len(c) /\ 1 \in 1..Len(c) /\ i + 1 \in 1..Len(c) /\ (i + 1) - 1 = i
    BY <1>2 DEF T
  <2>2. c[i + 1] \in Octets
    BY <2>1, ElementOfSeq
  <2>3. SubSeq(c, 1, i + 1) = SubSeq(c, 1, i) \o << c[i + 1] >>
    <3>1. SubSeq(c, 1, i + 1) = SubSeq(c, 1, (i + 1) - 1) \o << c[i + 1] >>
      BY <2>1, SubSeqRecursiveSecond, Zenon
    <3> QED
      BY <2>1, <3>1, Zenon
  <2>4. << c[i + 1] >> \in Seq(Octets)
    BY <2>2
  <2>5. P(i + 1) = P(i) \o << c[i + 1] >>
    <3>1. SubSeq(c, 1, i) \in Seq(Octets)
      BY <1>3, <2>1, Zenon
    <3> DEFINE a == SubSeq(c, 1, i)
               d == << c[i + 1] >>
    <3>2. a \in Seq(Octets) /\ d \in Seq(Octets)
      BY <2>4, <3>1, Zenon
    <3> HIDE DEF P, T, a, d
    <3>3. (sn \o a) \o d = sn \o (a \o d)
      <4>1. PICK S : S = Octets
        OBVIOUS
      <4>2. sn \in Seq(S) /\ a \in Seq(S) /\ d \in Seq(S)
        BY <1>2, <3>2, <4>1
      <4> QED
        BY <4>2, ConcatAssociative
    <3> QED
      BY <2>3, <3>3, Zenon DEF P, a, d
  <2>6. P(i) \in Seq(Octets)
    BY <1>2, <1>3, <2>1, ConcatProperties, Zenon
  <2>7. P(i + 1) = Append(P(i), c[i + 1])
    BY <2>2, <2>5, <2>6, AppendIsConcat, Zenon
  <2>8. Scan(f[i], P(i), n0)
    BY <2>1, Zenon DEF T
  <2>9. f[i + 1] = Byte(f[i], c[i + 1])
    BY <1>1, <2>1, Zenon
  <2> HIDE DEF P, n0
  <2> QED
    BY <2>2, <2>7, <2>8, <2>9, ByteStep, Zenon
<1>6. T = Nat
  <2>1. T \subseteq Nat
    BY DEF T
  <2> HIDE DEF T
  <2> QED
    BY <1>4, <1>5, <2>1, SetInduction, Zenon
<1>7. Scan(f[Len(c)], P(Len(c)), n0)
  <2>1. Len(c) \in T /\ Len(c) <= Len(c)
    BY <1>2, <1>6
  <2> QED
    BY <2>1, Zenon DEF T
<1>8. P(Len(c)) = sn \o c
  BY SubSeqFull, Zenon
<1> QED
  BY <1>1, <1>7, <1>8, Zenon

-----------------------------------------------------------------------------
(* From the bytes compared one by one to At, which compares sequences.      *)
LEMMA WholeIs ==
  ASSUME NEW S, NEW p \in Seq(S), NEW sn \in Seq(S), NEW k \in Nat,
         k + Len(p) <= Len(sn)
  PROVE  SubSeq(sn, k + 1, k + Len(p)) = p
           <=> \A j \in 1..Len(p) : sn[k + j] = p[j]
<1> DEFINE q == SubSeq(sn, k + 1, k + Len(p))
<1>1. Len(p) \in Nat /\ Len(sn) \in Nat
  OBVIOUS
<1>2. \A i \in (k + 1)..(k + Len(p)) : i \in 1..Len(sn) /\ sn[i] \in S
  BY <1>1
<1>3. k + 1 \in Int /\ k + Len(p) \in Int
  BY <1>1
<1>4. /\ q \in Seq(S)
      /\ Len(q) = IF k + 1 <= k + Len(p) THEN (k + Len(p)) - (k + 1) + 1 ELSE 0
      /\ \A i \in 1..((k + Len(p)) - (k + 1) + 1) : q[i] = sn[(k + 1) + i - 1]
  BY <1>2, <1>3, SubSeqProperties
<1> HIDE DEF q
<1>5. Len(q) = Len(p)
  BY <1>1, <1>4
<1>6. \A i \in 1..Len(p) : q[i] = sn[k + i]
  <2> TAKE i \in 1..Len(p)
  <2>1. i \in 1..((k + Len(p)) - (k + 1) + 1) /\ (k + 1) + i - 1 = k + i
    BY <1>1
  <2> QED
    BY <1>4, <2>1
<1>7. ASSUME \A j \in 1..Len(p) : sn[k + j] = p[j]
      PROVE  q = p
  BY <1>4, <1>5, <1>6, <1>7, SeqEqual
<1>8. ASSUME q = p
      PROVE  \A j \in 1..Len(p) : sn[k + j] = p[j]
  BY <1>6, <1>8
<1> QED
  BY <1>7, <1>8, Zenon DEF q

LEMMA AtIs ==
  ASSUME MatchTypeOK, NEW k \in armed..Len(seen)
  PROVE  At(k) <=> pattern # << >> /\ Whole(seen, k)
<1>1. pattern \in Seq(Octets)
  <2>1. pattern \in Patterns \cup {<< >>}
    BY Zenon DEF MatchTypeOK
  <2>2. \A p \in Patterns : p \in Seq(Octets)
    BY MatchAssumption, Zenon
  <2>3. << >> \in Seq(Octets)
    OBVIOUS
  <2> QED
    BY <2>1, <2>2, <2>3, Zenon
<1>2. seen \in Seq(Octets) /\ armed \in 0..Len(seen)
  BY DEF MatchTypeOK
<1>3. k \in Nat
  BY <1>2
<1> QED
  BY <1>1, <1>2, <1>3, WholeIs, Zenon DEF At, Whole

-----------------------------------------------------------------------------
(* Steps.                                                                   *)
MatchText == <<pattern, idx, match, seen, armed>>

LEMMA TextKept ==
  ASSUME MatchIInv, UNCHANGED MatchText
  PROVE  IndexInv' /\ MatchIsFresh' /\ FoundAfterBreak'
<1>1. /\ pattern' = pattern /\ idx' = idx /\ match' = match /\ seen' = seen
      /\ armed' = armed
  BY DEF MatchText
<1>2. IndexInv'
  BY <1>1 DEF MatchIInv, IndexInv, Ends, Breaks
<1>3. \A k : At(k)' <=> At(k)
  BY <1>1 DEF At
<1>4. MatchIsFresh'
  BY <1>1, <1>3 DEF MatchIInv, MatchIsFresh
<1>5. FoundAfterBreak'
  BY <1>1, <1>3 DEF MatchIInv, FoundAfterBreak
<1> QED
  BY <1>2, <1>4, <1>5

LEMMA MatchStart ==
  ASSUME MatchInit
  PROVE  MatchIInv
<1>1. MatchTypeOK
  <2>1. << >> \in Seq(Octets) /\ 0 \in 0..Len(<< >>)
    OBVIOUS
  <2>2. /\ << >> \in Patterns \cup {<< >>} /\ << >> \in Chunks \cup {<< >>}
        /\ 0 \in Nat /\ FALSE \in BOOLEAN
    OBVIOUS
  <2> QED
    BY <2>1, <2>2, Zenon DEF MatchInit, MatchTypeOK
<1>2. IndexInv /\ ChunkInv /\ MatchIsFresh
  BY DEF MatchInit, IndexInv, ChunkInv, MatchIsFresh
<1>3. \A k : ~At(k)
  BY DEF MatchInit, At
<1>4. FoundAfterBreak
  BY <1>3, Zenon DEF FoundAfterBreak
<1> QED
  BY <1>1, <1>2, <1>4 DEF MatchIInv

(* What the loop starts from.                                               *)
LEMMA ScanBegins ==
  ASSUME MatchIInv, ~TxHeld
  PROVE  /\ pattern \in Seq(Octets) /\ pattern # << >> /\ armed \in Nat
         /\ Scan([idx |-> idx, match |-> match], seen, Len(seen))
<1> DEFINE st == [idx |-> idx, match |-> match]
<1>1. pattern # << >> /\ ~match /\ st.idx = idx /\ st.match = match
  BY DEF TxHeld
<1>2. MatchTypeOK /\ IndexInv /\ FoundAfterBreak
  BY Zenon DEF MatchIInv
<1>3. /\ idx \in Nat /\ match \in BOOLEAN /\ seen \in Seq(Octets) /\ armed \in 0..Len(seen)
      /\ pattern \in Patterns \cup {<< >>}
  BY <1>2, Zenon DEF MatchTypeOK
<1>4. pattern \in Seq(Octets)
  <2>1. \A p \in Patterns : p \in Seq(Octets)
    BY MatchAssumption, Zenon
  <2> QED
    BY <1>1, <1>3, <2>1, Zenon
<1>5. /\ Ends(seen, idx) /\ (idx = Len(pattern) => match)
      /\ \A k \in armed..Len(seen) :
            Breaks(seen, k) /\ Ends(seen, Len(seen) - k)
              => match \/ idx = Len(seen) - k
  BY <1>1, <1>2, Zenon DEF IndexInv
<1> HIDE DEF st
<1>6. ScanEnds(st, seen) /\ ScanBreaks(st, seen)
  BY <1>1, <1>5, Zenon DEF ScanEnds, ScanBreaks
<1>7. ScanTypes(st, seen, Len(seen))
  BY <1>1, <1>3 DEF ScanTypes
<1>8. ScanFound(st, seen)
  <2> SUFFICES ASSUME NEW k \in armed..Len(seen), Whole(seen, k), Breaks(seen, k)
               PROVE  match
    BY <1>1, Zenon DEF ScanFound
  <2>1. At(k)
    BY <1>1, <1>2, AtIs, Zenon
  <2> QED
    BY <1>2, <2>1, Zenon DEF FoundAfterBreak, Breaks
<1>9. ScanFresh(st, seen, Len(seen))
  BY <1>1, Zenon DEF ScanFresh
<1>10. armed \in Nat
  BY <1>3
<1> QED
  BY <1>1, <1>4, <1>6, <1>7, <1>8, <1>9, <1>10, Zenon DEF Scan, st

LEMMA TxScanStep ==
  ASSUME MatchIInv, TxScan
  PROVE  MatchIInv'
<1> DEFINE u == FoldLeft(Byte, [idx |-> idx, match |-> match], chunk)
           n0 == Len(seen)
           sn == seen \o chunk
<1>1. /\ tpc = "check" /\ ~TxHeld
      /\ idx' = u.idx /\ match' = u.match
      /\ seen' = sn /\ chunk' = << >>
      /\ IF u.match THEN Signal("idle", cpc) ELSE tpc' = "idle" /\ UNCHANGED cpc
      /\ pattern' = pattern /\ arms' = arms /\ armed' = armed
  BY DEF TxScan
<1>2. chunk \in Chunks
  BY <1>1 DEF MatchIInv, ChunkInv
<1>3. chunk \in Seq(Octets) /\ Len(chunk) > 0
  <2>1. chunk \in Seq(Octets) /\ chunk # << >>
    BY <1>2, MatchAssumption, Zenon
  <2> QED
    BY <2>1
<1>4. /\ pattern \in Seq(Octets) /\ pattern # << >> /\ armed \in Nat
      /\ Scan(u, sn, n0)
  <2>1. /\ pattern \in Seq(Octets) /\ pattern # << >> /\ armed \in Nat
        /\ Scan([idx |-> idx, match |-> match], seen, Len(seen))
    BY <1>1, ScanBegins, Zenon
  <2> QED
    BY <1>3, <2>1, ScanChunk, Zenon
<1>5. Len(sn) = n0 + Len(chunk) /\ n0 \in Nat
  BY <1>3 DEF MatchIInv, MatchTypeOK
<1> HIDE DEF u, n0, sn
<1>6. /\ ScanTypes(u, sn, n0) /\ ScanEnds(u, sn) /\ ScanBreaks(u, sn)
      /\ ScanFound(u, sn) /\ ScanFresh(u, sn, n0)
  BY <1>4, Zenon DEF Scan
<1>7. MatchTypeOK'
  <2>1. /\ tpc' \in {"idle", "check", "wait"} /\ cpc' \in {"none", "idle", "check", "wait"}
    BY <1>1 DEF MatchIInv, MatchTypeOK, Signal
  <2>2. /\ pattern \in Patterns \cup {<< >>} /\ arms \in Nat
    BY Zenon DEF MatchIInv, MatchTypeOK
  <2>3. /\ u.idx \in Nat /\ u.match \in BOOLEAN /\ sn \in Seq(Octets)
        /\ armed \in 0..Len(sn)
    BY <1>4, <1>6 DEF ScanTypes
  <2> QED
    BY <1>1, <2>1, <2>2, <2>3, Zenon DEF MatchTypeOK
<1>8. IndexInv'
  <2>1. \A n : Ends(sn, n)' <=> Ends(sn, n)
    BY <1>1 DEF Ends, sn
  <2> QED
    BY <1>1, <1>4, <1>6 DEF IndexInv, Ends, Breaks, ScanEnds, ScanBreaks
<1>9. ChunkInv'
  BY <1>1 DEF ChunkInv, Signal
<1>10. \A k \in armed..Len(sn) : At(k)' <=> Whole(sn, k)
  <2> TAKE k \in armed..Len(sn)
  <2>1. sn \in Seq(Octets) /\ k \in Nat
    BY <1>4, <1>6 DEF ScanTypes
  <2>2. ASSUME k + Len(pattern) <= Len(sn)
        PROVE  SubSeq(sn, k + 1, k + Len(pattern)) = pattern
                 <=> \A j \in 1..Len(pattern) : sn[k + j] = pattern[j]
    <3>1. PICK p, t : p = pattern /\ t = sn
      OBVIOUS
    <3>2. p \in Seq(Octets) /\ t \in Seq(Octets) /\ k + Len(p) <= Len(t)
      BY <1>4, <2>1, <2>2, <3>1, Zenon
    <3>3. SubSeq(t, k + 1, k + Len(p)) = p <=> \A j \in 1..Len(p) : t[k + j] = p[j]
      BY <2>1, <3>2, WholeIs, Zenon
    <3> QED
      BY <3>1, <3>3
  <2>3. At(k)' <=> /\ k + Len(pattern) <= Len(sn)
                   /\ SubSeq(sn, k + 1, k + Len(pattern)) = pattern
    BY <1>1, <1>4, Zenon DEF At
  <2> QED
    BY <2>2, <2>3, Zenon DEF Whole
<1>11. MatchIsFresh'
  <2> SUFFICES ASSUME u.match
               PROVE  \E k \in armed..Len(sn) :
                        /\ At(k)'
                        /\ \E c \in Chunks : Len(sn) < k + Len(pattern) + Len(c)
    BY <1>1, Zenon DEF MatchIsFresh
  <2>1. PICK k \in armed..Len(sn) : Whole(sn, k) /\ n0 < k + Len(pattern)
    BY <1>6, Zenon DEF ScanFresh
  <2>2. Len(sn) < k + Len(pattern) + Len(chunk)
    BY <1>3, <1>4, <1>5, <2>1
  <2> QED
    BY <1>2, <1>10, <2>1, <2>2, Zenon
<1>12. FoundAfterBreak'
  <2> SUFFICES ASSUME NEW k \in armed..Len(sn), At(k)', Breaks(sn, k)
               PROVE  u.match
    BY <1>1, Zenon DEF FoundAfterBreak, Breaks
  <2> QED
    BY <1>6, <1>10, Zenon DEF ScanFound
<1> QED
  BY <1>7, <1>8, <1>9, <1>11, <1>12 DEF MatchIInv

LEMMA ArmStep ==
  ASSUME MatchIInv, NEW p \in Patterns, NEW next \in {"idle", "check"}, Arm(p, next)
  PROVE  MatchIInv'
<1>1. /\ cpc = "idle" /\ pattern' = p /\ idx' = 0 /\ match' = FALSE
      /\ arms' = arms + 1 /\ armed' = Len(seen)
      /\ Signal(tpc, next) /\ chunk' = chunk /\ seen' = seen
  BY DEF Arm
<1>2. /\ seen \in Seq(Octets) /\ arms \in Nat /\ chunk \in Chunks \cup {<< >>}
      /\ tpc \in {"idle", "check", "wait"} /\ (tpc # "idle" => chunk \in Chunks)
  BY DEF MatchIInv, MatchTypeOK, ChunkInv
<1>3. p \in Seq(Octets) /\ p # << >>
  BY MatchAssumption, Zenon
<1>4. Len(p) \in Nat /\ Len(p) > 0 /\ Len(seen) \in Nat
  BY <1>2, <1>3
<1>5. MatchTypeOK'
  <2>1. tpc' \in {"idle", "check", "wait"} /\ cpc' \in {"none", "idle", "check", "wait"}
    BY <1>1, <1>2 DEF Signal
  <2>2. arms' \in Nat /\ idx' \in Nat /\ armed' \in 0..Len(seen')
    BY <1>1, <1>2, <1>4
  <2> QED
    BY <1>1, <1>2, <2>1, <2>2 DEF MatchTypeOK
<1>6. IndexInv'
  <2>1. \A k \in armed'..Len(seen') : Len(seen') - k = 0
    BY <1>1, <1>4
  <2>2. Ends(seen, 0)'
    BY <1>1, <1>4 DEF Ends
  <2> QED
    BY <1>1, <1>3, <1>4, <2>1, <2>2 DEF IndexInv
<1>7. ChunkInv'
  BY <1>1, <1>2 DEF ChunkInv, Signal
<1>8. MatchIsFresh'
  BY <1>1 DEF MatchIsFresh
<1>9. FoundAfterBreak'
  <2>1. \A k \in armed'..Len(seen') : ~At(k)'
    BY <1>1, <1>4 DEF At
  <2> QED
    BY <2>1, Zenon DEF FoundAfterBreak
<1> QED
  BY <1>5, <1>6, <1>7, <1>8, <1>9 DEF MatchIInv

LEMMA MatchStep ==
  ASSUME MatchIInv, [MatchNext]_matchVars
  PROVE  MatchIInv'
<1> USE DEF MatchText
<1>0. MatchTypeOK /\ ChunkInv
  BY DEF MatchIInv
<1>1. ASSUME NEW c \in Chunks, TxCall(c)
      PROVE  MatchIInv'
  <2>1. UNCHANGED MatchText
    BY <1>1 DEF TxCall
  <2>2. MatchTypeOK' /\ ChunkInv'
    BY <1>0, <1>1 DEF TxCall, MatchTypeOK, ChunkInv
  <2> QED
    BY <2>1, <2>2, TextKept, Zenon DEF MatchIInv
<1>2. CASE TxWait
  <2>1. UNCHANGED MatchText
    BY <1>2 DEF TxWait
  <2>2. MatchTypeOK' /\ ChunkInv'
    BY <1>0, <1>2 DEF TxWait, MatchTypeOK, ChunkInv
  <2> QED
    BY <2>1, <2>2, TextKept, Zenon DEF MatchIInv
<1>3. CASE New
  <2>1. UNCHANGED MatchText
    BY <1>3 DEF New
  <2>2. MatchTypeOK' /\ ChunkInv'
    BY <1>0, <1>3 DEF New, MatchTypeOK, ChunkInv
  <2> QED
    BY <2>1, <2>2, TextKept, Zenon DEF MatchIInv
<1>4. CASE WaitCall \/ WaitSleep \/ WaitReturn
  <2>1. UNCHANGED MatchText
    BY <1>4 DEF WaitCall, WaitSleep, WaitReturn
  <2>2. MatchTypeOK' /\ ChunkInv'
    BY <1>0, <1>4 DEF WaitCall, WaitSleep, WaitReturn, MatchTypeOK, ChunkInv
  <2> QED
    BY <2>1, <2>2, TextKept, Zenon DEF MatchIInv
<1>5. CASE UNCHANGED matchVars
  <2>1. UNCHANGED MatchText
    BY <1>5 DEF matchVars
  <2>2. MatchTypeOK' /\ ChunkInv'
    BY <1>0, <1>5 DEF matchVars, MatchTypeOK, ChunkInv
  <2> QED
    BY <2>1, <2>2, TextKept, Zenon DEF MatchIInv
<1> QED
  BY <1>1, <1>2, <1>3, <1>4, <1>5, TxScanStep, ArmStep, Zenon DEF MatchNext

(* The inductive invariant of the text matching of Infra/elastic_match.c:   *)
(* whatever is armed and whatever is delivered, the index into the pattern  *)
(* is neither ahead of the text that came nor behind an occurrence begun.   *)
THEOREM MatchInductive == MatchSpec => []MatchIInv
<1>1. MatchInit => MatchIInv
  BY MatchStart
<1>2. MatchIInv /\ [MatchNext]_matchVars => MatchIInv'
  BY MatchStep
<1> QED
  BY <1>1, <1>2, PTL DEF MatchSpec, MatchSafety

(* A match is announced only after the whole pattern has come since it was  *)
(* armed, and less than one chunk more has been taken behind it: for any    *)
(* patterns, any text and however it is cut into chunks.                    *)
THEOREM MatchFresh == MatchSpec => []MatchIsFresh
<1>1. MatchIInv => MatchIsFresh
  BY DEF MatchIInv
<1> QED
  BY <1>1, MatchInductive, PTL

(* elastic_match_txfunc finds the pattern wherever it begins right after    *)
(* arming, or right after a byte that does not occur in it.                 *)
THEOREM MatchFound == MatchSpec => []FoundAfterBreak
<1>1. MatchIInv => FoundAfterBreak
  BY DEF MatchIInv
<1> QED
  BY <1>1, MatchInductive, PTL
=============================================================================
