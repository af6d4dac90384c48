--------------------------- MODULE SequenceLemmas ---------------------------
EXTENDS SequencesExt, SequenceTheorems, WellFoundedInduction, TLAPS

(* A set of numbers that holds 0, and with each number the next, holds all. *)
LEMMA SetInduction ==
  ASSUME NEW T, T \subseteq Nat, 0 \in T, \A n \in T : n + 1 \in T
  PROVE  T = Nat
<1> SUFFICES ASSUME Nat \ T # {}
             PROVE  FALSE
  OBVIOUS
<1>1. PICK x \in Nat \ T : \A y \in Nat \ T : ~(<<y, x>> \in OpToRel(<, Nat))
  <2>1. Nat \ T \subseteq Nat
    OBVIOUS
  <2> QED
    BY <2>1, WFMin, NatLessThanWellFounded, Zenon
<1>2. \A y \in Nat : y < x => y \in T
  BY <1>1 DEF OpToRel
<1>3. x # 0 /\ x - 1 \in Nat /\ x - 1 < x /\ (x - 1) + 1 = x
  OBVIOUS
<1> QED
  BY <1>2, <1>3

-----------------------------------------------------------------------------
(* What is s for the length of s, and then t, is s \o t.                    *)
LEMMA ConcatIs ==
  ASSUME NEW S, NEW s \in Seq(S), NEW t \in Seq(S), NEW r \in Seq(S),
         NEW m \in Nat, NEW n \in Nat, Len(s) = m, Len(t) = n, Len(r) = m + n,
         \A i \in 1..m : r[i] = s[i],
         \A i \in 1..n : r[m + i] = t[i]
  PROVE  s \o t = r
<1> DEFINE c == s \o t
<1>1. /\ c \in Seq(S) /\ Len(c) = m + n
      /\ \A i \in 1..(m + n) : c[i] = IF i <= m THEN s[i] ELSE t[i - m]
  BY ConcatProperties, Zenon
<1> HIDE DEF c
<1>2. ASSUME NEW i \in 1..(m + n)
      PROVE  c[i] = r[i]
  <2>1. CASE i <= m
    <3>1. i \in 1..m
      BY <2>1
    <3> QED
      BY <1>1, <2>1, <3>1, Zenon
  <2>2. CASE ~ (i <= m)
    <3>1. i - m \in 1..n /\ m + (i - m) = i
      BY <2>2
    <3>2. r[m + (i - m)] = t[i - m]
      BY <3>1, Zenon
    <3> QED
      BY <1>1, <2>2, <3>1, <3>2, Zenon
  <2> QED
    BY <2>1, <2>2
<1>3. c = r
  BY <1>1, <1>2, SeqEqual
<1> QED
  BY <1>3 DEF c

(* s \o t holds s, and behind it t.                                         *)
Joins(S, c, s, t) ==
  /\ c \in Seq(S) /\ Len(c) = Len(s) + Len(t)
  /\ \A i \in 1..Len(s) : c[i] = s[i]
  /\ \A i \in 1..Len(t) : c[Len(s) + i] = t[i]

LEMMA ConcatJoins ==
  ASSUME NEW S, NEW s \in Seq(S), NEW t \in Seq(S)
  PROVE  Joins(S, s \o t, s, t)
<1> DEFINE c == s \o t
           m == Len(s)
           n == Len(t)
<1>0. m \in Nat /\ n \in Nat
  BY LenProperties
<1>1. /\ c \in Seq(S) /\ Len(c) = m + n
      /\ \A i \in 1..(m + n) : c[i] = IF i <= m THEN s[i] ELSE t[i - m]
  BY ConcatProperties, Zenon
<1> HIDE DEF c, m, n
<1>2. ASSUME NEW i \in 1..m
      PROVE  c[i] = s[i]
  <2>1. i \in 1..(m + n) /\ i <= m
    BY <1>0
  <2> QED
    BY <1>1, <2>1, Zenon
<1>3. ASSUME NEW i \in 1..n
      PROVE  c[m + i] = t[i]
  <2>1. m + i \in 1..(m + n) /\ ~ (m + i <= m) /\ (m + i) - m = i
    BY <1>0
  <2> QED
    BY <1>1, <2>1, Zenon
<1> QED
  BY <1>1, <1>2, <1>3, Zenon DEF c, m, n, Joins

(* A sequence is its head and its tail.                                     *)
LEMMA HeadAndTail ==
  ASSUME NEW S, NEW s \in Seq(S), s # << >>
  PROVE  /\ s = << Head(s) >> \o Tail(s)
         /\ Head(s) \in S /\ Tail(s) \in Seq(S)
<1>1. /\ Head(s) \in S /\ Tail(s) \in Seq(S) /\ Len(s) \in Nat \ {0}
      /\ Len(Tail(s)) = Len(s) - 1 /\ Head(s) = s[1]
      /\ \A i \in 1..(Len(s) - 1) : Tail(s)[i] = s[i + 1]
  BY HeadTailProperties, EmptySeq
<1>2. << Head(s) >> \in Seq(S) /\ Len(<< Head(s) >>) = 1 /\ << Head(s) >>[1] = s[1]
  BY <1>1
<1>3. /\ 1 \in Nat /\ Len(s) - 1 \in Nat /\ Len(s) = 1 + (Len(s) - 1)
      /\ \A i \in 1..1 : s[i] = << Head(s) >>[i]
      /\ \A i \in 1..(Len(s) - 1) : s[1 + i] = Tail(s)[i]
  BY <1>1, <1>2
<1> QED
  BY <1>1, <1>2, <1>3, ConcatIs

(* A sequence is its first k elements and the others.                       *)
LEMMA SplitAt ==
  ASSUME NEW S, NEW s \in Seq(S), NEW k \in 0..Len(s)
  PROVE  /\ SubSeq(s, 1, k) \in Seq(S) /\ Len(SubSeq(s, 1, k)) = k
         /\ \A i \in 1..k : SubSeq(s, 1, k)[i] = s[i]
         /\ SubSeq(s, k + 1, Len(s)) \in Seq(S)
         /\ Len(SubSeq(s, k + 1, Len(s))) = Len(s) - k
         /\ s = SubSeq(s, 1, k) \o SubSeq(s, k + 1, Len(s))
<1> DEFINE n == Len(s)
           a == SubSeq(s, 1, k)
           b == SubSeq(s, k + 1, n)
<1>1. n \in Nat /\ \A i \in 1..n : s[i] \in S
  BY LenProperties, ElementOfSeq
<1>2. k \in Nat /\ k <= n
  BY <1>1
<1> HIDE DEF n
<1>3. /\ a \in Seq(S) /\ Len(a) = k /\ \A i \in 1..k : a[i] = s[i]
  BY <1>1, <1>2, SubSeqProperties
<1>4. /\ b \in Seq(S) /\ Len(b) = n - k /\ \A i \in 1..(n - k) : b[i] = s[k + i]
  BY <1>1, <1>2, SubSeqProperties
<1> HIDE DEF a, b
<1>5. /\ \A i \in 1..k : s[i] = a[i]
      /\ \A i \in 1..(n - k) : s[k + i] = b[i]
  BY <1>1, <1>2, <1>3, <1>4
<1> DEFINE l == n - k
<1>6. /\ k \in Nat /\ l \in Nat /\ Len(a) = k /\ Len(b) = l /\ Len(s) = k + l
      /\ s \in Seq(S) /\ a \in Seq(S) /\ b \in Seq(S)
      /\ \A i \in 1..l : s[k + i] = b[i]
  BY <1>1, <1>2, <1>3, <1>4, <1>5 DEF n
<1> HIDE DEF l
<1>7. a \o b = s
  BY <1>5, <1>6, ConcatIs, Zenon
<1> QED
  BY <1>3, <1>4, <1>7 DEF a, b, n

-----------------------------------------------------------------------------
(* f[i] is the concatenation of the first i of the sequences ss[1], ss[2],  *)
(* ... ss[n].                                                               *)
Sums(S, ss, n, f) ==
  /\ f \in [0..n -> Seq(S)]
  /\ f[0] = << >>
  /\ \A i \in 1..n : f[i] = f[i - 1] \o ss[i]

(* One more sequence makes one more sum ...                                 *)
LEMMA SumsStep ==
  ASSUME NEW S, NEW n \in Nat, NEW ss, NEW f, Sums(S, ss, n, f),
         ss[n + 1] \in Seq(S)
  PROVE  Sums(S, ss, n + 1,
              [i \in 0..(n + 1) |-> IF i <= n THEN f[i] ELSE f[n] \o ss[n + 1]])
<1> DEFINE last == f[n] \o ss[n + 1]
           g == [i \in 0..(n + 1) |-> IF i <= n THEN f[i] ELSE last]
<1>1. /\ f \in [0..n -> Seq(S)] /\ f[0] = << >> /\ f[n] \in Seq(S)
      /\ \A i \in 1..n : f[i] = f[i - 1] \o ss[i]
  <2>1. n \in 0..n
    OBVIOUS
  <2> QED
    BY <2>1, Zenon DEF Sums
<1>2. last \in Seq(S)
  BY <1>1, ConcatProperties
<1>3. last = f[n] \o ss[n + 1]
  OBVIOUS
<1> HIDE DEF last
<1>4. \A i \in 0..n : g[i] = f[i]
  OBVIOUS
<1>5. g[n + 1] = last
  OBVIOUS
<1>6. g \in [0..(n + 1) -> Seq(S)]
  BY <1>1, <1>2
<1> HIDE DEF g
<1>7. \A i \in 1..(n + 1) : g[i] = g[i - 1] \o ss[i]
  <2>1. ASSUME NEW i \in 1..n
        PROVE  g[i] = g[i - 1] \o ss[i]
    <3>1. i \in 0..n /\ i - 1 \in 0..n
      OBVIOUS
    <3>2. g[i] = f[i] /\ g[i - 1] = f[i - 1]
      BY <1>4, <3>1, Zenon
    <3> QED
      BY <1>1, <3>2, Zenon
  <2>2. g[n + 1] = g[(n + 1) - 1] \o ss[n + 1]
    <3>1. (n + 1) - 1 = n /\ n \in 0..n
      OBVIOUS
    <3> QED
      BY <1>3, <1>4, <1>5, <3>1, Zenon
  <2>3. \A i \in 1..(n + 1) : i \in 1..n \/ i = n + 1
    OBVIOUS
  <2> QED
    BY <2>1, <2>2, <2>3, Zenon
<1>8. g[0] = << >>
  BY <1>1, <1>4
<1>9. Sums(S, ss, n + 1, g)
  BY <1>6, <1>7, <1>8, Zenon DEF Sums
<1> QED
  BY <1>9 DEF g, last

(* ... and so, by induction, the sums exist.                                *)
LEMMA SumsExist ==
  ASSUME NEW S, NEW ss \in Seq(Seq(S))
  PROVE  \E f : Sums(S, ss, Len(ss), f)
<1> DEFINE T == {n \in Nat : n <= Len(ss) => \E f : Sums(S, ss, n, f)}
<1>1. Len(ss) \in Nat /\ \A i \in 1..Len(ss) : ss[i] \in Seq(S)
  BY LenProperties, ElementOfSeq
<1>2. 0 \in T
  <2>1. << >> \in Seq(S)
    BY EmptySeq
  <2>2. Sums(S, ss, 0, [i \in 0..0 |-> << >>])
    BY <2>1 DEF Sums
  <2> QED
    BY <2>2, Zenon
<1>3. ASSUME NEW n \in T
      PROVE  n + 1 \in T
  <2>1. n \in Nat /\ n + 1 \in Nat /\ (n <= Len(ss) => \E f : Sums(S, ss, n, f))
    OBVIOUS
  <2>2. ASSUME n + 1 <= Len(ss)
        PROVE  \E f : Sums(S, ss, n + 1, f)
    <3>1. n <= Len(ss) /\ n + 1 \in 1..Len(ss)
      BY <1>1, <2>1, <2>2
    <3>2. PICK f : Sums(S, ss, n, f)
      BY <2>1, <3>1, Zenon
    <3>3. ss[n + 1] \in Seq(S)
      BY <1>1, <3>1, Zenon
    <3> QED
      BY <2>1, <3>2, <3>3, SumsStep, Zenon
  <2> QED
    BY <2>1, <2>2, Zenon
<1>4. T = Nat
  <2> HIDE DEF T
  <2>1. T \subseteq Nat
    BY DEF T
  <2> QED
    BY <1>2, <1>3, <2>1, SetInduction, Zenon
<1>5. Len(ss) \in T
  BY <1>1, <1>4, Zenon
<1>6. Len(ss) <= Len(ss)
  BY <1>1
<1> QED
  BY <1>5, <1>6, Zenon

(* FlattenSeq is the last of them: the function it is defined with obeys    *)
(* the same equations.                                                      *)
LEMMA FlattenIs ==
  ASSUME NEW S, NEW ss \in Seq(Seq(S)), NEW f, Sums(S, ss, Len(ss), f)
  PROVE  FlattenSeq(ss) = f[Len(ss)] /\ f[Len(ss)] \in Seq(S)
<1> DEFINE n == Len(ss)
           flat == CHOOSE g : g = [i \in 1..n |->
                                     IF i = 1 THEN ss[i] ELSE g[i - 1] \o ss[i]]
           h == [i \in 1..n |-> f[i]]
<1>1. n \in Nat /\ \A i \in 1..n : ss[i] \in Seq(S)
  BY LenProperties, ElementOfSeq
<1>2. FlattenSeq(ss) = IF n = 0 THEN ss ELSE flat[n]
  BY Zenon DEF FlattenSeq
<1>3. n = 0 => ss = << >>
  BY <1>1, EmptySeq
<1> HIDE DEF n
<1>4. /\ f[0] = << >> /\ \A i \in 0..n : f[i] \in Seq(S)
      /\ \A i \in 1..n : f[i] = f[i - 1] \o ss[i]
  BY DEF Sums, n
<1>5. \A i \in 1..n : i = 1 => f[i] = ss[i]
  <2> SUFFICES ASSUME 1 \in 1..n
               PROVE  f[1] = ss[1]
    OBVIOUS
  <2>1. f[1] = f[1 - 1] \o ss[1] /\ 1 - 1 = 0
    <3>1. 1 - 1 = 0
      OBVIOUS
    <3> QED
      BY <1>4, <3>1, Zenon
  <2>2. f[1] = << >> \o ss[1] /\ ss[1] \in Seq(S)
    BY <1>1, <1>4, <2>1, Zenon
  <2> QED
    BY <2>2, ConcatEmptySeq
<1>6. h = [i \in 1..n |-> IF i = 1 THEN ss[i] ELSE h[i - 1] \o ss[i]]
  <2>1. ASSUME NEW i \in 1..n, i # 1
        PROVE  h[i] = h[i - 1] \o ss[i]
    <3>1. i - 1 \in 1..n
      BY <1>1, <2>1
    <3>2. h[i] = f[i] /\ h[i - 1] = f[i - 1]
      BY <3>1
    <3> QED
      BY <1>4, <3>2, Zenon
  <2>2. ASSUME NEW i \in 1..n, i = 1
        PROVE  h[i] = ss[i]
    BY <1>5, <2>2
  <2>3. h = [i \in 1..n |-> h[i]]
    OBVIOUS
  <2> HIDE DEF h
  <2>4. \A i \in 1..n : h[i] = IF i = 1 THEN ss[i] ELSE h[i - 1] \o ss[i]
    BY <2>1, <2>2, Zenon
  <2> QED
    BY <2>3, <2>4, Zenon
<1>7. flat = [i \in 1..n |-> IF i = 1 THEN ss[i] ELSE flat[i - 1] \o ss[i]]
  <2> HIDE DEF h
  <2> QED
    BY <1>6, Zenon
<1> HIDE DEF flat
<1> DEFINE T == {i \in Nat : i \in 1..n => flat[i] = f[i]}
<1>8. 0 \in T
  OBVIOUS
<1>9. ASSUME NEW i \in T
      PROVE  i + 1 \in T
  <2>1. i \in Nat /\ i + 1 \in Nat /\ (i + 1) - 1 = i
    OBVIOUS
  <2>2. CASE i + 1 \notin 1..n
    BY <2>1, <2>2, Zenon
  <2>3. CASE i + 1 \in 1..n /\ i = 0
    <3>1. flat[1] = ss[1] /\ i + 1 = 1 /\ 1 \in 1..n
      BY <1>7, <2>3
    <3>2. flat[i + 1] = f[i + 1]
      BY <1>5, <3>1, Zenon
    <3> QED
      BY <2>1, <3>2, Zenon
  <2>4. CASE i + 1 \in 1..n /\ i # 0
    <3>1. i \in 1..n /\ i + 1 # 1
      BY <1>1, <2>1, <2>4
    <3>2. flat[i] = f[i]
      BY <3>1, Zenon
    <3>3. flat[i + 1] = flat[(i + 1) - 1] \o ss[i + 1]
      BY <1>7, <2>4, <3>1, Zenon
    <3>4. f[i + 1] = f[(i + 1) - 1] \o ss[i + 1]
      BY <1>4, <2>4, Zenon
    <3>5. flat[i + 1] = f[i + 1]
      BY <2>1, <3>2, <3>3, <3>4, Zenon
    <3> QED
      BY <2>1, <3>5, Zenon
  <2> QED
    BY <2>2, <2>3, <2>4, Zenon
<1>10. T = Nat
  <2> HIDE DEF T
  <2>1. T \subseteq Nat
    BY DEF T
  <2> QED
    BY <1>8, <1>9, <2>1, SetInduction, Zenon
<1>11. n # 0 => flat[n] = f[n]
  <2>1. n \in T
    BY <1>1, <1>10, Zenon
  <2>2. n # 0 => n \in 1..n
    BY <1>1
  <2> QED
    BY <2>1, <2>2, Zenon
<1>12. FlattenSeq(ss) = f[n]
  BY <1>2, <1>3, <1>4, <1>11, Zenon
<1>13. f[n] \in Seq(S)
  BY <1>1, <1>4
<1> QED
  BY <1>12, <1>13, Zenon DEF n

(* The sum of the first k of them is the k-th ...                           *)
LEMMA FlattenFirst ==
  ASSUME NEW S, NEW ss \in Seq(Seq(S)), NEW f, Sums(S, ss, Len(ss), f),
         NEW k \in 0..Len(ss)
  PROVE  FlattenSeq([i \in 1..k |-> ss[i]]) = f[k] /\ f[k] \in Seq(S)
<1> DEFINE n == Len(ss)
           tt == [i \in 1..k |-> ss[i]]
           g == [i \in 0..k |-> f[i]]
<1>1. n \in Nat /\ \A i \in 1..n : ss[i] \in Seq(S)
  BY LenProperties, ElementOfSeq
<1>2. /\ f[0] = << >> /\ \A i \in 0..n : f[i] \in Seq(S)
      /\ \A i \in 1..n : f[i] = f[i - 1] \o ss[i]
  BY DEF Sums
<1> HIDE DEF n
<1>3. k \in Nat /\ k \in 0..n /\ \A i \in 1..k : i \in 1..n /\ i \in 0..k /\ i - 1 \in 0..k
  BY <1>1 DEF n
<1>4. tt \in Seq(Seq(S)) /\ Len(tt) = k /\ \A i \in 1..k : tt[i] = ss[i]
  BY <1>1, <1>3
<1>5. \A i \in 0..k : g[i] = f[i] /\ i \in 0..n
  BY <1>1, <1>3
<1>6. g \in [0..k -> Seq(S)]
  BY <1>2, <1>5
<1>7. 0 \in 0..k /\ k \in 0..k
  BY <1>3
<1> HIDE DEF tt, g
<1>8. Sums(S, tt, k, g)
  <2>1. ASSUME NEW i \in 1..k
        PROVE  g[i] = g[i - 1] \o tt[i]
    <3>1. f[i] = f[i - 1] \o ss[i] /\ tt[i] = ss[i]
      BY <1>2, <1>3, <1>4, Zenon
    <3>2. g[i] = f[i] /\ g[i - 1] = f[i - 1]
      BY <1>3, <1>5, Zenon
    <3> QED
      BY <3>1, <3>2, Zenon
  <2>2. g[0] = << >>
    BY <1>2, <1>5, <1>7, Zenon
  <2> QED
    BY <1>6, <2>1, <2>2, Zenon DEF Sums
<1>9. FlattenSeq(tt) = g[k] /\ g[k] \in Seq(S)
  BY <1>4, <1>8, FlattenIs, Zenon
<1>10. g[k] = f[k]
  BY <1>5, <1>7, Zenon
<1> QED
  BY <1>9, <1>10, Zenon DEF tt

(* ... and each of them begins with those before.                           *)
Begins(t, s) == Len(s) <= Len(t) /\ \A i \in 1..Len(s) : t[i] = s[i]

LEMMA BeginsOn ==
  ASSUME NEW S, NEW s \in Seq(S), NEW t \in Seq(S), NEW u \in Seq(S), Begins(t, s)
  PROVE  Begins(t \o u, s)
<1> DEFINE c == t \o u
<1>1. Joins(S, c, t, u)
  BY ConcatJoins, Zenon
<1> HIDE DEF c
<1>2. Len(s) \in Nat /\ Len(t) \in Nat /\ Len(u) \in Nat
  BY LenProperties
<1>3. Len(c) = Len(t) + Len(u) /\ \A i \in 1..Len(t) : c[i] = t[i]
  BY <1>1, Zenon DEF Joins
<1>4. Begins(c, s)
  <2>1. Len(s) <= Len(c) /\ \A i \in 1..Len(s) : i \in 1..Len(t)
    BY <1>2, <1>3 DEF Begins
  <2> QED
    BY <1>3, <2>1, Zenon DEF Begins
<1> QED
  BY <1>4, Zenon DEF c

LEMMA SumsBegin ==
  ASSUME NEW S, NEW ss \in Seq(Seq(S)), NEW f, Sums(S, ss, Len(ss), f),
         NEW k \in 0..Len(ss)
  PROVE  Begins(f[Len(ss)], f[k])
<1> DEFINE n == Len(ss)
           T == {m \in Nat : k + m <= n => Begins(f[k + m], f[k])}
<1>1. n \in Nat /\ \A i \in 1..n : ss[i] \in Seq(S)
  BY LenProperties, ElementOfSeq
<1>2. /\ \A i \in 0..n : f[i] \in Seq(S)
      /\ \A i \in 1..n : f[i] = f[i - 1] \o ss[i]
  BY DEF Sums
<1>3. k \in 0..n
  OBVIOUS
<1> HIDE DEF n
<1>4. k \in Nat /\ k + 0 = k /\ f[k] \in Seq(S)
  BY <1>1, <1>2, <1>3
<1>5. 0 \in T
  <2>1. Begins(f[k], f[k])
    <3>1. Len(f[k]) \in Nat
      BY <1>4, LenProperties
    <3>2. Len(f[k]) <= Len(f[k])
      BY <3>1
    <3> QED
      BY <3>2, Zenon DEF Begins
  <2>2. Begins(f[k + 0], f[k]) /\ 0 \in Nat
    BY <1>4, <2>1, Zenon
  <2> QED
    BY <2>2, Zenon
<1>6. ASSUME NEW m \in T
      PROVE  m + 1 \in T
  <2>1. m \in Nat /\ m + 1 \in Nat /\ (k + m <= n => Begins(f[k + m], f[k]))
    OBVIOUS
  <2>2. ASSUME k + (m + 1) <= n
        PROVE  Begins(f[k + (m + 1)], f[k])
    <3> DEFINE i == k + (m + 1)
    <3>1. i \in 1..n /\ i - 1 = k + m /\ k + m \in 0..n /\ k + m <= n
      BY <1>1, <1>4, <2>1, <2>2
    <3>2. f[i] = f[k + m] \o ss[i]
      <4>1. f[i] = f[i - 1] \o ss[i]
        BY <1>2, <3>1, Zenon
      <4> QED
        BY <3>1, <4>1, Zenon
    <3>3. f[k + m] \in Seq(S) /\ ss[i] \in Seq(S) /\ Begins(f[k + m], f[k])
      BY <1>1, <1>2, <2>1, <3>1, Zenon
    <3>4. Begins(f[k + m] \o ss[i], f[k])
      BY <1>4, <3>3, BeginsOn, Zenon
    <3> QED
      BY <3>2, <3>4, Zenon
  <2> QED
    BY <2>1, <2>2, Zenon
<1>7. T = Nat
  <2> HIDE DEF T
  <2>1. T \subseteq Nat
    BY DEF T
  <2> QED
    BY <1>5, <1>6, <2>1, SetInduction, Zenon
<1>8. n - k \in Nat /\ k + (n - k) = n /\ k + (n - k) <= n
  BY <1>1, <1>3
<1>9. Begins(f[k + (n - k)], f[k])
  BY <1>7, <1>8, Zenon
<1>10. Begins(f[n], f[k])
  BY <1>8, <1>9, Zenon
<1> QED
  BY <1>10, Zenon DEF n

-----------------------------------------------------------------------------
(* FlattenSeq of no sequence is none, and it is itself a sequence.          *)
LEMMA FlattenEmpty == FlattenSeq(<< >>) = << >>
BY DEF FlattenSeq

LEMMA FlattenType ==
  ASSUME NEW S, NEW ss \in Seq(Seq(S))
  PROVE  FlattenSeq(ss) \in Seq(S)
BY SumsExist, FlattenIs, Zenon

(* It adds to the end what is appended ...                                  *)
LEMMA FlattenAppend ==
  ASSUME NEW S, NEW ss \in Seq(Seq(S)), NEW s \in Seq(S)
  PROVE  FlattenSeq(Append(ss, s)) = FlattenSeq(ss) \o s
<1> DEFINE n == Len(ss)
           tt == Append(ss, s)
<1>1. /\ n \in Nat
      /\ tt \in Seq(Seq(S)) /\ Len(tt) = n + 1 /\ tt[n + 1] = s
      /\ \A i \in 1..n : tt[i] = ss[i]
  BY LenProperties, AppendProperties
<1>2. PICK f : Sums(S, ss, n, f)
  BY SumsExist
<1>3. FlattenSeq(ss) = f[n]
  BY <1>2, FlattenIs, Zenon
<1> HIDE DEF tt, n
<1>4. Sums(S, tt, n, f)
  BY <1>1, <1>2, Zenon DEF Sums
<1> DEFINE g == [i \in 0..(n + 1) |-> IF i <= n THEN f[i] ELSE f[n] \o tt[n + 1]]
<1>5. Sums(S, tt, n + 1, g)
  BY <1>1, <1>4, SumsStep, Zenon
<1>6. g[n + 1] = f[n] \o tt[n + 1]
  BY <1>1
<1> HIDE DEF g
<1>7. FlattenSeq(tt) = g[n + 1]
  BY <1>1, <1>5, FlattenIs, Zenon
<1> QED
  BY <1>1, <1>3, <1>6, <1>7, Zenon DEF tt

(* ... and begins with what is at the head.                                 *)
LEMMA FlattenHead ==
  ASSUME NEW S, NEW ss \in Seq(Seq(S)), NEW s \in Seq(S)
  PROVE  FlattenSeq(<< s >> \o ss) = s \o FlattenSeq(ss)
<1> DEFINE n == Len(ss)
           tt == << s >> \o ss
<1>1. n \in Nat /\ \A i \in 1..n : ss[i] \in Seq(S)
  BY LenProperties, ElementOfSeq
<1>2. << s >> \in Seq(Seq(S)) /\ Len(<< s >>) = 1 /\ << s >>[1] = s
  OBVIOUS
<1>3. /\ tt \in Seq(Seq(S)) /\ Len(tt) = 1 + n
      /\ \A i \in 1..(1 + n) : tt[i] = IF i <= 1 THEN << s >>[i] ELSE ss[i - 1]
  <2> HIDE DEF n
  <2> QED
    BY <1>2, ConcatProperties DEF n
<1> HIDE DEF tt
<1>4. Len(tt) = n + 1 /\ tt[1] = s /\ \A i \in 1..n : tt[i + 1] = ss[i]
  BY <1>1, <1>2, <1>3
<1>5. PICK f : Sums(S, ss, n, f)
  BY SumsExist
<1>6. FlattenSeq(ss) = f[n]
  BY <1>5, FlattenIs, Zenon
<1> HIDE DEF n
<1>7. /\ f[0] = << >> /\ \A i \in 0..n : f[i] \in Seq(S)
      /\ \A i \in 1..n : f[i] = f[i - 1] \o ss[i]
  BY <1>1, <1>5 DEF Sums
<1> DEFINE g == [i \in 0..(n + 1) |-> IF i = 0 THEN << >> ELSE s \o f[i - 1]]
<1>8. g[0] = << >> /\ \A i \in 0..n : g[i + 1] = s \o f[i]
  <2>1. ASSUME NEW i \in 0..n
        PROVE  i + 1 \in 0..(n + 1) /\ i + 1 # 0 /\ (i + 1) - 1 = i
    BY <1>1
  <2>2. ASSUME NEW i \in 0..n
        PROVE  g[i + 1] = s \o f[i]
    BY <2>1, Zenon
  <2>3. g[0] = << >>
    BY <1>1
  <2> QED
    BY <2>2, <2>3, Zenon
<1>9. g \in [0..(n + 1) -> Seq(S)]
  <2>1. << >> \in Seq(S)
    BY EmptySeq
  <2>2. ASSUME NEW i \in 0..(n + 1), i # 0
        PROVE  s \o f[i - 1] \in Seq(S)
    <3>1. i - 1 \in 0..n
      BY <1>1, <2>2
    <3> QED
      BY <1>7, <3>1, ConcatProperties
  <2> QED
    BY <2>1, <2>2, Zenon
<1> HIDE DEF g
<1>10. ASSUME NEW i \in 1..(n + 1)
       PROVE  g[i] = g[i - 1] \o tt[i]
  <2>1. CASE i = 1
    <3>1. g[1] = s \o f[0] /\ 1 - 1 = 0
      <4>1. 0 \in 0..n /\ 0 + 1 = 1 /\ 1 - 1 = 0
        BY <1>1
      <4> QED
        BY <1>8, <4>1, Zenon
    <3>2. s \o << >> = s /\ << >> \o s = s
      BY ConcatEmptySeq
    <3> QED
      BY <1>4, <1>7, <1>8, <2>1, <3>1, <3>2, Zenon
  <2>2. CASE i # 1
    <3> DEFINE k == i - 1
    <3>1. /\ k \in 1..n /\ k \in 0..n /\ k - 1 \in 0..n
          /\ (k - 1) + 1 = k /\ k + 1 = i
      BY <1>1, <2>2
    <3>2. k = i - 1
      OBVIOUS
    <3> HIDE DEF k
    <3>3. f[k] = f[k - 1] \o ss[k] /\ f[k - 1] \in Seq(S) /\ ss[k] \in Seq(S)
      BY <1>1, <1>7, <3>1, Zenon
    <3>4. g[k + 1] = s \o f[k] /\ g[k] = s \o f[k - 1]
      <4>1. g[(k - 1) + 1] = s \o f[k - 1]
        BY <1>8, <3>1, Zenon
      <4> QED
        BY <1>8, <3>1, <4>1, Zenon
    <3>5. (s \o f[k - 1]) \o ss[k] = s \o (f[k - 1] \o ss[k])
      <4> DEFINE a == f[k - 1]
                 b == ss[k]
      <4>1. a \in Seq(S) /\ b \in Seq(S)
        BY <3>3, Zenon
      <4> HIDE DEF a, b
      <4>2. (s \o a) \o b = s \o (a \o b)
        BY <4>1, ConcatAssociative
      <4> QED
        BY <4>2, Zenon DEF a, b
    <3>6. tt[k + 1] = ss[k]
      BY <1>4, <3>1, Zenon
    <3> QED
      BY <3>1, <3>2, <3>3, <3>4, <3>5, <3>6, Zenon
  <2> QED
    BY <2>1, <2>2
<1>11. Sums(S, tt, n + 1, g)
  BY <1>8, <1>9, <1>10, Zenon DEF Sums
<1>12. FlattenSeq(tt) = g[n + 1]
  BY <1>3, <1>4, <1>11, FlattenIs, Zenon
<1>13. g[n + 1] = s \o f[n]
  <2>1. n \in 0..n
    BY <1>1
  <2> QED
    BY <1>8, <2>1, Zenon
<1> QED
  BY <1>6, <1>12, <1>13, Zenon DEF tt
=============================================================================
