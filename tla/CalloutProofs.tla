---------------------------- MODULE CalloutProofs ----------------------------
(***************************************************************************)
(* Theorems about Callout: the timer keeps to its grid and nothing is late *)
(* by more than an idle jump and an instruction (OnTime), and nobody wakes *)
(* early, or out of turn (SleepNotShort), for every set of threads,        *)
(* durations, delays, costs and periods.  And of the clock chip, one of the *)
(* clients: its registers count (RtcCounts), from any instant of a year.   *)
(*                                                                         *)
(* The queue is ordered and nothing is in it twice, so that what remains   *)
(* to be said is about the set of what is in it.                           *)
(***************************************************************************)
EXTENDS Callout, FiniteSetTheorems, SequenceTheorems, WellFoundedInduction, TLAPS

-----------------------------------------------------------------------------
(* Records.                                                                 *)

Moved(c, n) == [c EXCEPT !.when = @ - n]

LEMMA EntryIs ==
  ASSUME NEW c \in Entries
  PROVE  /\ c.how \in {"sleep", "shot", "pit", "rtc"} /\ c.priv \in Nat \cup Shots
         /\ c.when \in Int /\ c.repeat \in Nat /\ c.repeat = Period(c.how)
BY DEF Entries

LEMMA EntryIn ==
  ASSUME NEW how \in {"sleep", "shot", "pit", "rtc"}, NEW priv \in Nat \cup Shots,
         NEW when \in Int
  PROVE  LET c == Entry(how, priv, when, Period(how))
         IN  /\ c \in Entries
             /\ c.how = how /\ c.priv = priv /\ c.when = when /\ c.repeat = Period(how)
<1>1. Period(how) \in Nat
  BY CalloutAssumption DEF Period
<1> QED
  BY <1>1 DEF Entries, Entry

LEMMA EntryShape ==
  ASSUME NEW c \in Entries
  PROVE  c = Entry(c.how, c.priv, c.when, c.repeat)
BY DEF Entries, Entry

LEMMA MovedIs ==
  ASSUME NEW c \in Entries, NEW n \in Int
  PROVE  /\ Moved(c, n) \in Entries
         /\ Moved(c, n).how = c.how /\ Moved(c, n).priv = c.priv
         /\ Moved(c, n).when = c.when - n /\ Moved(c, n).repeat = c.repeat
BY DEF Moved, Entries

-----------------------------------------------------------------------------
(* Arithmetic: what is on the grid stays on it when the clock moves.        *)

LEMMA DivMod ==
  ASSUME NEW a \in Int, NEW p \in Nat \ {0}
  PROVE  a % p \in 0..(p - 1) /\ a \div p \in Int /\ a = p * (a \div p) + (a % p)
OBVIOUS

LEMMA SmallMultiple ==
  ASSUME NEW q \in Int, NEW p \in Nat \ {0}, p * q < p, -p < p * q
  PROVE  p * q = 0
<1>1. CASE q = 0
  BY <1>1
<1>2. CASE q >= 1
  <2>1. p * q >= p
    BY <1>2
  <2> QED
    BY <2>1
<1>3. CASE q <= -1
  <2>1. p * q <= -p
    BY <1>3
  <2> QED
    BY <2>1
<1> QED
  BY <1>1, <1>2, <1>3

LEMMA Multiple ==
  ASSUME NEW a \in Int, NEW p \in Nat \ {0}, NEW q \in Int, a = p * q
  PROVE  a % p = 0
<1>1. a % p \in 0..(p - 1) /\ a \div p \in Int /\ a = p * (a \div p) + (a % p)
  BY DivMod
<1>2. p * (q - (a \div p)) = a % p
  BY <1>1
<1>3. q - (a \div p) \in Int
  BY <1>1
<1> QED
  BY <1>1, <1>2, <1>3, SmallMultiple

LEMMA GridShift ==
  ASSUME NEW w \in Int, NEW ph \in Int, NEW n \in Int, NEW p \in Nat \ {0},
         (w + ph) % p = 0
  PROVE  ((w - n) + ((ph + n) % p)) % p = 0
<1>1. (w + ph) \div p \in Int /\ w + ph = p * ((w + ph) \div p)
  BY DivMod
<1>2. /\ (ph + n) \div p \in Int /\ (ph + n) % p \in Int
      /\ ph + n = p * ((ph + n) \div p) + ((ph + n) % p)
  BY DivMod
<1>3. (w - n) + ((ph + n) % p) = p * (((w + ph) \div p) - ((ph + n) \div p))
  BY <1>1, <1>2
<1>4. /\ (w - n) + ((ph + n) % p) \in Int
      /\ ((w + ph) \div p) - ((ph + n) \div p) \in Int
  BY <1>1, <1>2
<1> QED
  BY <1>3, <1>4, Multiple, Zenon

LEMMA GridNext ==
  ASSUME NEW w \in Int, NEW ph \in Int, NEW p \in Nat \ {0}, (w + ph) % p = 0
  PROVE  ((w + p) + ph) % p = 0
<1>1. (w + ph) \div p \in Int /\ w + ph = p * ((w + ph) \div p)
  BY DivMod
<1>2. (w + p) + ph = p * (((w + ph) \div p) + 1)
  BY <1>1
<1>3. (w + p) + ph \in Int /\ ((w + ph) \div p) + 1 \in Int
  BY <1>1
<1> QED
  BY <1>2, <1>3, Multiple, Zenon

-----------------------------------------------------------------------------
(* The queue.  An insertion is at a place: before it nothing is later, and  *)
(* what stands there is.                                                    *)

Place(list, c, p) ==
  /\ p \in 1..(Len(list) + 1)
  /\ \A i \in 1..(p - 1) : list[i].when <= c.when
  /\ p <= Len(list) => list[p].when > c.when

LEMMA LeastExists ==
  ASSUME NEW I, I \subseteq Nat, I # {}
  PROVE  \E x \in I : \A y \in I : x <= y
<1>1. PICK x \in I : \A y \in I : ~(<<y, x>> \in OpToRel(<, Nat))
  BY WFMin, NatLessThanWellFounded, Zenon
<1>2. ASSUME NEW y \in I
      PROVE  x <= y
  <2>1. x \in Nat /\ y \in Nat
    OBVIOUS
  <2>2. ~ (y < x)
    BY <1>1, <2>1 DEF OpToRel
  <2> QED
    BY <2>1, <2>2
<1> QED
  BY <1>2, Zenon

LEMMA InsertIs ==
  ASSUME NEW list \in Seq(Entries), NEW c \in Entries
  PROVE  \E p : /\ Place(list, c, p)
                /\ Insert(list, c) =
                     SubSeq(list, 1, p - 1) \o << c >> \o SubSeq(list, p, Len(list))
<1> DEFINE I == {i \in 1..Len(list) : list[i].when > c.when}
           p0 == IF I # {} THEN Min(I) ELSE 0
<1>1. Insert(list, c) = IF p0 = 0 THEN Append(list, c) ELSE InsertAt(list, p0, c)
  BY DEF Insert, SelectInSeq
<1>2. CASE I = {}
  <2>1. Insert(list, c) = Append(list, c)
    BY <1>1, <1>2
  <2>2. \A i \in 1..Len(list) : list[i].when <= c.when
    BY <1>2, EntryIs
  <2>3. Place(list, c, Len(list) + 1)
    BY <2>2 DEF Place
  <2>4. /\ SubSeq(list, 1, (Len(list) + 1) - 1) = list
        /\ SubSeq(list, Len(list) + 1, Len(list)) = << >>
    OBVIOUS
  <2>5. Append(list, c) = (list \o << c >>) \o << >>
    OBVIOUS
  <2> QED
    BY <2>1, <2>3, <2>4, <2>5, Zenon
<1>3. CASE I # {}
  <2>1. p0 \in I /\ \A i \in I : p0 <= i
    <3>1. I \subseteq Nat
      OBVIOUS
    <3>2. \E x \in I : \A y \in I : x <= y
      BY <1>3, <3>1, LeastExists, Zenon
    <3> QED
      BY <1>3, <3>2, Zenon DEF Min
  <2>2. Insert(list, c) = InsertAt(list, p0, c)
    <3>1. p0 # 0
      BY <2>1
    <3> QED
      BY <1>1, <3>1, Zenon
  <2>3. \A i \in 1..(p0 - 1) : list[i].when <= c.when
    <3> HIDE DEF p0
    <3> SUFFICES ASSUME NEW i \in 1..(p0 - 1)
                 PROVE  list[i].when <= c.when
      OBVIOUS
    <3>1. i \in 1..Len(list) /\ ~ (p0 <= i)
      BY <2>1
    <3>2. ~ (list[i].when > c.when)
      BY <2>1, <3>1, Zenon
    <3>3. list[i] \in Entries
      BY <3>1
    <3> QED
      BY <3>2, <3>3, EntryIs
  <2>4. Place(list, c, p0)
    BY <2>1, <2>3 DEF Place
  <2> HIDE DEF p0
  <2> QED
    BY <2>2, <2>4, Zenon DEF InsertAt
<1> QED
  BY <1>2, <1>3, Zenon

LEMMA InsertElements ==
  ASSUME NEW list \in Seq(Entries), NEW c \in Entries
  PROVE  \E p : /\ Place(list, c, p)
                /\ Insert(list, c) \in Seq(Entries)
                /\ Len(Insert(list, c)) = Len(list) + 1
                /\ \A i \in 1..(Len(list) + 1) :
                     Insert(list, c)[i] = IF i < p THEN list[i]
                                          ELSE IF i = p THEN c ELSE list[i - 1]
<1>1. PICK p : /\ Place(list, c, p)
               /\ Insert(list, c) =
                    SubSeq(list, 1, p - 1) \o << c >> \o SubSeq(list, p, Len(list))
  BY InsertIs, Zenon
<1>2. p \in 1..(Len(list) + 1)
  BY <1>1 DEF Place
<1> DEFINE a == SubSeq(list, 1, p - 1)
           b == SubSeq(list, p, Len(list))
<1>3. /\ a \in Seq(Entries) /\ Len(a) = p - 1 /\ \A i \in 1..(p - 1) : a[i] = list[i]
      /\ b \in Seq(Entries) /\ Len(b) = Len(list) + 1 - p
      /\ \A i \in 1..(Len(list) + 1 - p) : b[i] = list[p + i - 1]
  BY <1>2
<1> HIDE DEF a, b
<1> DEFINE r == a \o << c >> \o b
<1>4. /\ r \in Seq(Entries) /\ Len(r) = Len(list) + 1
      /\ \A i \in 1..(Len(list) + 1) :
           r[i] = IF i < p THEN list[i] ELSE IF i = p THEN c ELSE list[i - 1]
  BY <1>2, <1>3
<1>5. Insert(list, c) = r
  BY <1>1 DEF a, b
<1> QED
  BY <1>1, <1>4, <1>5, Zenon

LEMMA RangeIs ==
  ASSUME NEW list \in Seq(Entries)
  PROVE  /\ DOMAIN list = 1..Len(list) /\ Len(list) \in Nat
         /\ Range(list) \subseteq Entries
         /\ \A i \in 1..Len(list) : list[i] \in Range(list) /\ list[i] \in Entries
         /\ \A c \in Range(list) : \E i \in 1..Len(list) : c = list[i]
BY DEF Range

LEMMA InsertRange ==
  ASSUME NEW list \in Seq(Entries), NEW c \in Entries
  PROVE  /\ Insert(list, c) \in Seq(Entries)
         /\ Range(Insert(list, c)) = Range(list) \cup {c}
<1> DEFINE r == Insert(list, c)
<1>1. PICK p : /\ Place(list, c, p)
               /\ r \in Seq(Entries) /\ Len(r) = Len(list) + 1
               /\ \A i \in 1..(Len(list) + 1) :
                    r[i] = IF i < p THEN list[i] ELSE IF i = p THEN c ELSE list[i - 1]
  BY InsertElements, Zenon
<1> HIDE DEF r
<1>2. p \in 1..(Len(list) + 1) /\ Len(list) \in Nat
  BY <1>1 DEF Place
<1>3. ASSUME NEW d \in Range(r)
      PROVE  d \in Range(list) \cup {c}
  <2>1. PICK i \in 1..(Len(list) + 1) : d = r[i]
    BY <1>1, RangeIs
  <2>2. i < p => i \in 1..Len(list)
    BY <1>2
  <2>3. i # p /\ ~ (i < p) => i - 1 \in 1..Len(list)
    BY <1>2
  <2> QED
    BY <1>1, <2>1, <2>2, <2>3, RangeIs
<1>4. c \in Range(r)
  <2>1. r[p] = c /\ p \in 1..Len(r)
    BY <1>1, <1>2
  <2> QED
    BY <1>1, <2>1, RangeIs
<1>5. ASSUME NEW d \in Range(list)
      PROVE  d \in Range(r)
  <2>1. PICK i \in 1..Len(list) : d = list[i]
    BY RangeIs
  <2>2. CASE i < p
    <3>1. r[i] = d /\ i \in 1..Len(r)
      BY <1>1, <1>2, <2>1, <2>2
    <3> QED
      BY <1>1, <3>1, RangeIs
  <2>3. CASE ~ (i < p)
    <3>1. i + 1 \in 1..(Len(list) + 1) /\ ~ (i + 1 < p) /\ i + 1 # p /\ (i + 1) - 1 = i
      BY <1>2, <2>3
    <3>2. r[i + 1] = d /\ i + 1 \in 1..Len(r)
      BY <1>1, <2>1, <3>1
    <3> QED
      BY <1>1, <3>2, RangeIs
  <2> QED
    BY <2>2, <2>3
<1>6. Range(r) = Range(list) \cup {c}
  BY <1>3, <1>4, <1>5
<1> QED
  BY <1>1, <1>6, Zenon DEF r

LEMMA InsertOrdered ==
  ASSUME NEW list \in Seq(Entries), NEW c \in Entries, Ordered(list)
  PROVE  Ordered(Insert(list, c))
<1> DEFINE r == Insert(list, c)
<1>1. PICK p : /\ Place(list, c, p)
               /\ r \in Seq(Entries) /\ Len(r) = Len(list) + 1
               /\ \A i \in 1..(Len(list) + 1) :
                    r[i] = IF i < p THEN list[i] ELSE IF i = p THEN c ELSE list[i - 1]
  BY InsertElements, Zenon
<1> HIDE DEF r
<1>2. p \in 1..(Len(list) + 1) /\ Len(list) \in Nat
  BY <1>1 DEF Place
<1>3. /\ \A i \in 1..Len(list) : list[i].when \in Int
      /\ c.when \in Int
  BY EntryIs
<1>4. \A i, j \in 1..Len(list) : i < j => list[i].when <= list[j].when
  BY RangeIs DEF Ordered
<1>5. \A i, j \in 1..Len(list) : i <= j => list[i].when <= list[j].when
  BY <1>3, <1>4
<1>6. \A i \in 1..Len(list) : i < p => list[i].when <= c.when
  BY <1>1, <1>2 DEF Place
<1>7. \A i \in 1..Len(list) : ~ (i < p) => c.when <= list[i].when
  <2> SUFFICES ASSUME NEW i \in 1..Len(list), ~ (i < p)
               PROVE  c.when <= list[i].when
    OBVIOUS
  <2>1. p \in 1..Len(list) /\ p <= i
    BY <1>2
  <2>2. list[p].when > c.when
    BY <1>1, <2>1 DEF Place
  <2>3. list[p].when <= list[i].when
    BY <1>5, <2>1
  <2> QED
    BY <1>3, <2>1, <2>2, <2>3
<1>8. ASSUME NEW i \in 1..(Len(list) + 1), NEW j \in 1..(Len(list) + 1), i < j
      PROVE  r[i].when <= r[j].when
  <2>1. CASE j < p
    <3>1. i \in 1..Len(list) /\ j \in 1..Len(list) /\ i < p
      BY <1>2, <1>8, <2>1
    <3> QED
      BY <1>1, <1>4, <1>8, <2>1, <3>1
  <2>2. CASE j = p
    <3>1. i \in 1..Len(list) /\ i < p
      BY <1>2, <1>8, <2>2
    <3> QED
      BY <1>1, <1>2, <1>6, <2>2, <3>1
  <2>3. CASE j > p
    <3>1. j - 1 \in 1..Len(list) /\ ~ (j - 1 < p) /\ ~ (j < p) /\ j # p
      BY <1>2, <2>3
    <3>2. r[j] = list[j - 1]
      BY <1>1, <3>1
    <3>3. CASE i < p
      <4>1. i \in 1..Len(list) /\ i < j - 1
        BY <1>2, <2>3, <3>3
      <4> QED
        BY <1>1, <1>4, <3>1, <3>2, <3>3, <4>1
    <3>4. CASE i = p
      BY <1>1, <1>7, <3>1, <3>2, <3>4
    <3>5. CASE i > p
      <4>1. i - 1 \in 1..Len(list) /\ i - 1 < j - 1 /\ ~ (i < p) /\ i # p
        BY <1>2, <1>8, <3>5
      <4>2. r[i] = list[i - 1]
        BY <1>1, <4>1
      <4> QED
        BY <1>4, <3>1, <3>2, <4>1, <4>2
    <3> QED
      BY <1>2, <3>3, <3>4, <3>5
  <2> QED
    BY <1>2, <2>1, <2>2, <2>3
<1>9. DOMAIN r = 1..(Len(list) + 1)
  BY <1>1
<1>10. Ordered(r)
  BY <1>8, <1>9 DEF Ordered
<1> QED
  BY <1>10 DEF r

LEMMA InsertDistinct ==
  ASSUME NEW list \in Seq(Entries), NEW c \in Entries, Distinct(list),
         \A d \in Range(list) : ~ Same(c, d)
  PROVE  Distinct(Insert(list, c))
<1> DEFINE r == Insert(list, c)
<1>1. PICK p : /\ Place(list, c, p)
               /\ r \in Seq(Entries) /\ Len(r) = Len(list) + 1
               /\ \A i \in 1..(Len(list) + 1) :
                    r[i] = IF i < p THEN list[i] ELSE IF i = p THEN c ELSE list[i - 1]
  BY InsertElements, Zenon
<1> HIDE DEF r
<1>2. p \in 1..(Len(list) + 1) /\ Len(list) \in Nat
  BY <1>1 DEF Place
<1> DEFINE old(i) == IF i < p THEN i ELSE i - 1
<1>3. \A i \in 1..(Len(list) + 1) : i # p => old(i) \in 1..Len(list) /\ r[i] = list[old(i)]
  BY <1>1, <1>2
<1>4. \A i, j \in 1..(Len(list) + 1) : i # p /\ j # p /\ old(i) = old(j) => i = j
  BY <1>2
<1> HIDE DEF old
<1>5. r[p] = c
  BY <1>1, <1>2
<1>6. \A i, j \in 1..Len(list) : Same(list[i], list[j]) => i = j
  BY RangeIs DEF Distinct
<1>7. \A i \in 1..Len(list) : ~ Same(c, list[i]) /\ ~ Same(list[i], c)
  BY RangeIs DEF Same
<1>8. ASSUME NEW i \in 1..(Len(list) + 1), NEW j \in 1..(Len(list) + 1), Same(r[i], r[j])
      PROVE  i = j
  BY <1>3, <1>4, <1>5, <1>6, <1>7, <1>8
<1>9. DOMAIN r = 1..(Len(list) + 1)
  BY <1>1
<1>10. Distinct(r)
  BY <1>8, <1>9 DEF Distinct
<1> QED
  BY <1>10 DEF r

(* What PollTake leaves, and what it takes.                                 *)
LEMMA TakeIs ==
  ASSUME NEW list \in Seq(Entries), list # << >>
  PROVE  /\ Head(list) \in Entries /\ Tail(list) \in Seq(Entries)
         /\ Range(list) = Range(Tail(list)) \cup {Head(list)}
         /\ Ordered(list) =>
              Ordered(Tail(list)) /\ \A d \in Range(list) : Head(list).when <= d.when
         /\ Distinct(list) =>
              Distinct(Tail(list)) /\ \A d \in Range(Tail(list)) : ~ Same(Head(list), d)
<1> DEFINE h == Head(list)
           r == Tail(list)
<1>1. /\ Len(list) \in Nat /\ Len(list) >= 1 /\ h = list[1] /\ h \in Entries
      /\ r \in Seq(Entries) /\ Len(r) = Len(list) - 1
      /\ \A i \in 1..(Len(list) - 1) : r[i] = list[i + 1]
  OBVIOUS
<1> HIDE DEF h, r
<1>2. /\ DOMAIN list = 1..Len(list) /\ DOMAIN r = 1..(Len(list) - 1)
  BY <1>1
<1>3. Range(list) = Range(r) \cup {h}
  <2>1. ASSUME NEW d \in Range(list)
        PROVE  d \in Range(r) \cup {h}
    <3>1. PICK i \in 1..Len(list) : d = list[i]
      BY RangeIs
    <3>2. i = 1 \/ (i - 1 \in 1..(Len(list) - 1) /\ (i - 1) + 1 = i)
      BY <1>1
    <3> QED
      BY <1>1, <1>2, <3>1, <3>2 DEF Range
  <2>2. ASSUME NEW d \in Range(r)
        PROVE  d \in Range(list)
    <3>1. PICK i \in 1..(Len(list) - 1) : d = r[i]
      BY <1>2 DEF Range
    <3>2. i + 1 \in 1..Len(list)
      BY <1>1
    <3> QED
      BY <1>1, <1>2, <3>1, <3>2 DEF Range
  <2>3. h \in Range(list)
    BY <1>1, <1>2 DEF Range
  <2> QED
    BY <2>1, <2>2, <2>3
<1>4. ASSUME Ordered(list)
      PROVE  Ordered(r) /\ \A d \in Range(list) : h.when <= d.when
  <2>1. Ordered(r)
    <3> SUFFICES ASSUME NEW i \in 1..(Len(list) - 1), NEW j \in 1..(Len(list) - 1), i < j
                 PROVE  r[i].when <= r[j].when
      BY <1>2 DEF Ordered
    <3>1. i + 1 \in 1..Len(list) /\ j + 1 \in 1..Len(list) /\ i + 1 < j + 1
      BY <1>1
    <3> QED
      BY <1>1, <1>2, <1>4, <3>1 DEF Ordered
  <2>2. ASSUME NEW d \in Range(list)
        PROVE  h.when <= d.when
    <3>1. PICK i \in 1..Len(list) : d = list[i]
      BY RangeIs
    <3>2. i = 1 \/ 1 < i
      BY <1>1
    <3>3. 1 \in 1..Len(list) /\ h.when \in Int
      BY <1>1, EntryIs
    <3> QED
      BY <1>1, <1>2, <1>4, <3>1, <3>2, <3>3 DEF Ordered
  <2> QED
    BY <2>1, <2>2
<1>5. ASSUME Distinct(list)
      PROVE  Distinct(r) /\ \A d \in Range(r) : ~ Same(h, d)
  <2>1. Distinct(r)
    <3> SUFFICES ASSUME NEW i \in 1..(Len(list) - 1), NEW j \in 1..(Len(list) - 1),
                        Same(r[i], r[j])
                 PROVE  i = j
      BY <1>2 DEF Distinct
    <3>1. i + 1 \in 1..Len(list) /\ j + 1 \in 1..Len(list)
      BY <1>1
    <3>2. Same(list[i + 1], list[j + 1])
      BY <1>1, Zenon
    <3>3. i + 1 = j + 1
      BY <1>2, <1>5, <3>1, <3>2, Zenon DEF Distinct
    <3> QED
      BY <3>3
  <2>2. ASSUME NEW d \in Range(r), Same(h, d)
        PROVE  FALSE
    <3>1. PICK i \in 1..(Len(list) - 1) : d = r[i]
      BY <1>2 DEF Range
    <3>2. i + 1 \in 1..Len(list) /\ 1 \in 1..Len(list) /\ 1 # i + 1
      BY <1>1
    <3> QED
      BY <1>1, <1>2, <1>5, <2>2, <3>1, <3>2 DEF Distinct
  <2> QED
    BY <2>1, <2>2
<1> QED
  BY <1>1, <1>3, <1>4, <1>5, Zenon DEF h, r

(* When the clock moves all that is queued comes nearer.                    *)
LEMMA ShiftIs ==
  ASSUME NEW list \in Seq(Entries), NEW n \in Int
  PROVE  /\ Shift(list, n) \in Seq(Entries)
         /\ Range(Shift(list, n)) = {Moved(c, n) : c \in Range(list)}
         /\ Ordered(list) => Ordered(Shift(list, n))
         /\ Distinct(list) => Distinct(Shift(list, n))
<1> DEFINE r == Shift(list, n)
<1>1. r = [i \in 1..Len(list) |-> Moved(list[i], n)]
  BY RangeIs DEF Shift, Moved
<1> HIDE DEF r
<1>2. /\ DOMAIN r = 1..Len(list) /\ DOMAIN list = 1..Len(list)
      /\ \A i \in 1..Len(list) : r[i] = Moved(list[i], n) /\ list[i] \in Entries
  BY <1>1
<1>3. \A i \in 1..Len(list) :
        /\ r[i] \in Entries /\ r[i].how = list[i].how /\ r[i].priv = list[i].priv
        /\ r[i].when = list[i].when - n /\ list[i].when \in Int
  <2> SUFFICES ASSUME NEW i \in 1..Len(list)
               PROVE  /\ r[i] \in Entries /\ r[i].how = list[i].how
                      /\ r[i].priv = list[i].priv
                      /\ r[i].when = list[i].when - n /\ list[i].when \in Int
    OBVIOUS
  <2>1. r[i] = Moved(list[i], n) /\ list[i] \in Entries
    BY <1>2, Zenon
  <2>2. list[i].when \in Int
    BY <2>1, EntryIs, Zenon
  <2> QED
    BY <2>1, <2>2, MovedIs, Zenon
<1>4. r \in Seq(Entries)
  BY <1>1, <1>3
<1>5. Range(r) = {Moved(c, n) : c \in Range(list)}
  BY <1>2 DEF Range
<1>6. Ordered(list) => Ordered(r)
  BY <1>2, <1>3 DEF Ordered
<1>7. Distinct(list) => Distinct(r)
  BY <1>2, <1>3 DEF Distinct, Same
<1> QED
  BY <1>4, <1>5, <1>6, <1>7, Zenon DEF r

-----------------------------------------------------------------------------
(* Types.                                                                   *)

LEMMA Constants ==
  /\ PitRepeat \in Nat \ {0} /\ RtcRepeat \in Nat \ {0}
  /\ Costs \subseteq Nat \ {0} /\ Durations \subseteq Nat \ {0} /\ Delays \subseteq Nat
  /\ Longest \in Nat /\ \A d \in Costs : d <= Longest
<1>1. Longest \in Costs /\ \A d \in Costs : d <= Longest
  BY CalloutAssumption, Zenon DEF CalloutAssumption, Longest
<1> QED
  BY <1>1, CalloutAssumption

Again(c) == [c EXCEPT !.when = @ + c.repeat]

LEMMA AgainIs ==
  ASSUME NEW c \in Entries
  PROVE  /\ Again(c) \in Entries
         /\ Again(c).how = c.how /\ Again(c).priv = c.priv
         /\ Again(c).when = c.when + c.repeat /\ Again(c).repeat = c.repeat
BY DEF Again, Entries

(* What is asked for, by whom.                                              *)
LEMMA AskedIs ==
  /\ \A x \in Shots, d \in Int :
       LET c == Entry("shot", x, d, 0)
       IN  c \in Entries /\ c.how = "shot" /\ c.priv = x /\ c.when = d /\ c.repeat = 0
  /\ \A p \in Nat, d \in Int :
       LET c == Entry("sleep", p, d, 0)
       IN  c \in Entries /\ c.how = "sleep" /\ c.priv = p /\ c.when = d /\ c.repeat = 0
  /\ \A d \in Int :
       LET c == Entry("pit", 0, d, PitRepeat)
       IN  c \in Entries /\ c.how = "pit" /\ c.priv = 0 /\ c.when = d /\ c.repeat = PitRepeat
  /\ \A d \in Int :
       LET c == Entry("rtc", 0, d, RtcRepeat)
       IN  c \in Entries /\ c.how = "rtc" /\ c.priv = 0 /\ c.when = d /\ c.repeat = RtcRepeat
BY Constants DEF Entries, Entry, Period

(* The one that has been taken off the queue.                               *)
LEMMA TakenIs ==
  ASSUME TypeOK
  PROVE  /\ pc \in {"run", "repeat"} =>
              co = << co[1] >> /\ co[1] \in Entries /\ Range(co) = {co[1]}
         /\ pc \notin {"run", "repeat"} => co = << >> /\ Range(co) = {}
<1>1. co \in Seq(Entries) /\ Len(co) = (IF pc \in {"run", "repeat"} THEN 1 ELSE 0)
  BY DEF TypeOK
<1>2. CASE pc \in {"run", "repeat"}
  <2>1. Len(co) = 1
    BY <1>1, <1>2
  <2>2. co = << co[1] >> /\ co[1] \in Entries /\ DOMAIN co = {1}
    BY <1>1, <2>1
  <2>3. Range(co) = {co[1]}
    BY <2>2, Zenon DEF Range
  <2> QED
    BY <1>2, <2>2, <2>3, Zenon
<1>3. CASE pc \notin {"run", "repeat"}
  <2>1. co = << >> /\ DOMAIN co = {}
    BY <1>1, <1>3
  <2> QED
    BY <1>3, <2>1, Zenon DEF Range
<1> QED
  BY <1>2, <1>3, Zenon

LEMMA TypeInit == Init => TypeOK
<1> SUFFICES ASSUME Init
             PROVE  TypeOK
  OBVIOUS
<1> DEFINE pit == Entry("pit", 0, 0, PitRepeat)
           chip == Entry("rtc", 0, RtcRepeat, RtcRepeat)
<1>1. pit \in Entries /\ chip \in Entries
  BY AskedIs, Constants
<1> HIDE DEF pit, chip
<1>2. << pit >> \in Seq(Entries)
  BY <1>1
<1>3. callouts \in Seq(Entries)
  <2>1. callouts = Insert(<< pit >>, chip)
    BY Zenon DEF Init, pit, chip
  <2> QED
    BY <1>1, <1>2, <2>1, InsertRange, Zenon
<1>4. /\ spc \in [Sleepers -> {"idle", "locked", "wait", "woken"}]
      /\ slp \in [Sleepers -> Nat] /\ until \in [Sleepers -> Int]
  BY DEF Init
<1>5. /\ co = << >> /\ rv = << >> /\ idle_sleeps = << >> /\ nsleeps = 0 /\ phase = 0
      /\ pc = "exec" /\ rtc = "wait" /\ stopped = FALSE
  BY DEF Init
<1>6. /\ co \in Seq(Entries) /\ Len(co) = (IF pc \in {"run", "repeat"} THEN 1 ELSE 0)
      /\ rv \in Seq(Int) /\ Len(rv) <= 1
      /\ idle_sleeps \in Seq(Nat) /\ nsleeps \in Nat
  BY <1>5
<1>7. phase \in 0..(PitRepeat - 1)
  BY <1>5, Constants
<1>8. /\ pc \in {"exec", "poll", "run", "repeat", "jump", "reset"}
      /\ stopped \in BOOLEAN /\ rtc \in {"wait", "woken", "tick"}
  BY <1>5
<1> QED
  BY <1>3, <1>4, <1>6, <1>7, <1>8, Zenon DEF TypeOK

LEMMA ClockType ==
  ASSUME TypeOK, NEW n \in Int, callouts' = Shift(callouts, n), Later(n)
  PROVE  /\ callouts' \in Seq(Entries) /\ until' \in [Sleepers -> Int]
         /\ phase' \in 0..(PitRepeat - 1)
<1>1. callouts' \in Seq(Entries)
  BY ShiftIs, Zenon DEF TypeOK
<1>2. phase' \in 0..(PitRepeat - 1)
  <2>1. phase + n \in Int /\ phase' = (phase + n) % PitRepeat
    BY DEF TypeOK, Later
  <2> QED
    BY <2>1, Constants, DivMod
<1>3. until' \in [Sleepers -> Int]
  BY DEF TypeOK, Later
<1> QED
  BY <1>1, <1>2, <1>3

LEMMA SignalType ==
  ASSUME TypeOK, NEW c, Signal(c)
  PROVE  spc' \in [Sleepers -> {"idle", "locked", "wait", "woken"}]
BY DEF TypeOK, Signal

LEMMA TypeStep == TypeOK /\ [Next]_vars => TypeOK'
<1> SUFFICES ASSUME TypeOK, [Next]_vars
             PROVE  TypeOK'
  OBVIOUS
<1> USE DEF TypeOK
<1>1. ASSUME NEW i \in Costs, Execute(i)
      PROVE  TypeOK'
  <2>1. i \in Int /\ callouts' = Shift(callouts, i) /\ Later(i)
    BY <1>1, Constants DEF Execute
  <2>2. /\ callouts' \in Seq(Entries) /\ until' \in [Sleepers -> Int]
        /\ phase' \in 0..(PitRepeat - 1)
    BY <2>1, ClockType, Zenon
  <2> QED
    BY <1>1, <2>2 DEF Execute
<1>2. ASSUME NEW x \in Shots, NEW d \in Delays, Ask(x, d)
      PROVE  TypeOK'
  <2>1. Entry("shot", x, d, 0) \in Entries
    BY AskedIs, Constants
  <2>2. callouts' \in Seq(Entries)
    BY <1>2, <2>1, InsertRange, Zenon DEF Ask
  <2> QED
    BY <1>2, <2>2 DEF Ask
<1>3. CASE PollTake
  <2>1. callouts # << >>
    BY <1>3 DEF PollTake, Due
  <2>2. Head(callouts) \in Entries /\ Tail(callouts) \in Seq(Entries)
    BY <2>1, TakeIs, Zenon
  <2> QED
    BY <1>3, <2>2 DEF PollTake
<1>4. CASE PollReturn
  <2>1. callouts # << >> => Head(callouts).when \in Int
    <3> SUFFICES ASSUME callouts # << >>
                 PROVE  Head(callouts).when \in Int
      OBVIOUS
    <3>1. Head(callouts) \in Entries
      BY TakeIs, Zenon
    <3> QED
      BY <3>1, EntryIs
  <2>2. rv' \in Seq(Int) /\ Len(rv') <= 1
    <3> DEFINE h == Head(callouts).when
    <3>1. rv' = rv \/ rv' = << >> \/ (callouts # << >> /\ rv' = << h >>)
      BY <1>4, Zenon DEF PollReturn
    <3> HIDE DEF h
    <3>2. callouts # << >> => h \in Int
      BY <2>1 DEF h
    <3>3. CASE rv' = rv
      BY <3>3
    <3>4. CASE rv' = << >>
      BY <3>4
    <3>5. CASE callouts # << >> /\ rv' = << h >>
      BY <3>2, <3>5
    <3> QED
      BY <3>1, <3>3, <3>4, <3>5
  <2> QED
    BY <1>4, <2>2 DEF PollReturn
<1>5. CASE Run
  <2>1. /\ spc' \in [Sleepers -> {"idle", "locked", "wait", "woken"}]
        /\ rtc' \in {"wait", "woken", "tick"} /\ pc = "run"
    BY <1>5, SignalType DEF Run, RunSleep, RunRtc, RunCallback
  <2>2. co' \in Seq(Entries) /\ pc' \in {"repeat", "poll"}
        /\ Len(co') = (IF pc' \in {"run", "repeat"} THEN 1 ELSE 0)
    <3>1. (pc' = "repeat" /\ co' = co) \/ (pc' = "poll" /\ co' = << >>)
      BY <1>5, Zenon DEF Run
    <3>2. co \in Seq(Entries) /\ Len(co) = 1
      BY <2>1
    <3>3. CASE pc' = "repeat" /\ co' = co
      BY <3>2, <3>3
    <3>4. CASE pc' = "poll" /\ co' = << >>
      BY <3>4
    <3> QED
      BY <3>1, <3>3, <3>4
  <2> QED
    BY <1>5, <2>1, <2>2 DEF Run
<1>6. CASE Repeat
  <2>1. co[1] \in Entries
    BY <1>6, TakenIs DEF Repeat
  <2>2. callouts' = Insert(callouts, Again(co[1]))
    BY <1>6, Zenon DEF Repeat, Again
  <2>3. callouts' \in Seq(Entries)
    BY <2>1, <2>2, AgainIs, InsertRange
  <2> QED
    BY <1>6, <2>3 DEF Repeat
<1>7. CASE Jump
  <2> DEFINE ns == IF rv = << >> THEN 0 ELSE rv[1]
  <2>1. ns \in Int
    OBVIOUS
  <2>2. callouts' = Shift(callouts, ns) /\ Later(ns)
    BY <1>7, Zenon DEF Jump
  <2> HIDE DEF ns
  <2>3. /\ callouts' \in Seq(Entries) /\ until' \in [Sleepers -> Int]
        /\ phase' \in 0..(PitRepeat - 1)
    BY <2>1, <2>2, ClockType, Zenon
  <2> QED
    BY <1>7, <2>3 DEF Jump
<1>8. ASSUME NEW t \in Sleepers, NEW d \in Durations, SleepLock(t, d)
      PROVE  TypeOK'
  <2>1. /\ spc' = [spc EXCEPT ![t] = "locked"] /\ until' = [until EXCEPT ![t] = d]
        /\ UNCHANGED <<callouts, pc, stopped, co, rv, rtc, phase>>
    BY <1>8, Zenon DEF SleepLock
  <2>2. /\ slp' \in [Sleepers -> Nat] /\ nsleeps' \in Nat /\ idle_sleeps' \in Seq(Nat)
    <3>1. CASE idle_sleeps # << >>
      <4>1. /\ slp' = [slp EXCEPT ![t] = Head(idle_sleeps)]
            /\ idle_sleeps' = Tail(idle_sleeps) /\ nsleeps' = nsleeps
        BY <1>8, <3>1, Zenon DEF SleepLock
      <4>2. Head(idle_sleeps) \in Nat /\ Tail(idle_sleeps) \in Seq(Nat)
        BY <3>1
      <4> QED
        BY <4>1, <4>2
    <3>2. CASE idle_sleeps = << >>
      <4>1. /\ slp' = [slp EXCEPT ![t] = nsleeps]
            /\ idle_sleeps' = idle_sleeps /\ nsleeps' = nsleeps + 1
        BY <1>8, <3>2, Zenon DEF SleepLock
      <4> QED
        BY <4>1
    <3> QED
      BY <3>1, <3>2
  <2>3. d \in Int
    BY Constants
  <2>4. spc' \in [Sleepers -> {"idle", "locked", "wait", "woken"}]
        /\ until' \in [Sleepers -> Int]
    BY <2>1, <2>3
  <2> QED
    BY <2>1, <2>2, <2>4
<1>9. ASSUME NEW t \in Sleepers, SleepInsert(t)
      PROVE  TypeOK'
  <2>1. Entry("sleep", slp[t], until[t], 0) \in Entries
    BY AskedIs
  <2>2. callouts' \in Seq(Entries)
    BY <1>9, <2>1, InsertRange, Zenon DEF SleepInsert
  <2> QED
    BY <1>9, <2>2 DEF SleepInsert
<1>10. ASSUME NEW t \in Sleepers, SleepReturn(t)
       PROVE  TypeOK'
  BY <1>10 DEF SleepReturn
<1>11. CASE RtcTick \/ RtcWait
  BY <1>11 DEF RtcTick, RtcWait
<1>12. CASE UNCHANGED vars
  BY <1>12 DEF vars
<1> QED
  BY <1>1, <1>2, <1>3, <1>4, <1>5, <1>6, <1>7, <1>8, <1>9, <1>10, <1>11, <1>12, Zenon
     DEF Next, Cpu

-----------------------------------------------------------------------------
(* The queue stays ordered, and nothing comes into it twice.                *)

LEMMA QueueInsert ==
  ASSUME TypeOK, QueueInv, NEW c \in Entries, callouts' = Insert(callouts, c),
         UNCHANGED <<co, pc>>, \A d \in Range(callouts) : ~ Same(c, d),
         \A e \in Range(co) : ~ Same(e, c) /\ e.when <= c.when
  PROVE  QueueInv'
<1>1. callouts \in Seq(Entries) /\ Ordered(callouts) /\ Distinct(callouts)
  BY Zenon DEF TypeOK, QueueInv
<1>2. Ordered(callouts') /\ Distinct(callouts')
  BY <1>1, InsertOrdered, InsertDistinct, Zenon
<1>3. Range(callouts') = Range(callouts) \cup {c}
  BY <1>1, InsertRange, Zenon
<1>4. ASSUME NEW e \in Range(co)
      PROVE  /\ e.when < 0
             /\ \A d \in Range(callouts') : ~ Same(e, d) /\ e.when <= d.when
             /\ pc' = "repeat" => e.repeat > 0
  BY <1>3, <1>4, Zenon DEF QueueInv
<1> QED
  BY <1>2, <1>4, Zenon DEF QueueInv

LEMMA QueueMove ==
  ASSUME TypeOK, QueueInv, NEW n \in Int, callouts' = Shift(callouts, n),
         pc' \notin {"run", "repeat"}, TypeOK'
  PROVE  QueueInv'
<1>1. callouts \in Seq(Entries) /\ Ordered(callouts) /\ Distinct(callouts)
  BY Zenon DEF TypeOK, QueueInv
<1>2. Ordered(callouts') /\ Distinct(callouts')
  BY <1>1, ShiftIs, Zenon
<1>3. Len(co') = 0 /\ co' \in Seq(Entries)
  BY DEF TypeOK
<1>4. Range(co') = {}
  BY <1>3 DEF Range
<1> QED
  BY <1>2, <1>4, Zenon DEF QueueInv

LEMMA QueueKeep ==
  ASSUME QueueInv, UNCHANGED <<callouts, co>>, pc' # "repeat" \/ pc = "repeat"
  PROVE  QueueInv'
BY Zenon DEF QueueInv

LEMMA QueueDrop ==
  ASSUME QueueInv, UNCHANGED callouts, co' = << >>
  PROVE  QueueInv'
<1>1. Range(co') = {}
  BY DEF Range
<1> QED
  BY <1>1, Zenon DEF QueueInv

LEMMA QueueStep ==
  ASSUME IInv, [Next]_vars, TypeOK'
  PROVE  QueueInv'
<1>0. TypeOK /\ QueueInv /\ TimeInv /\ PoolInv /\ WaitInv
  BY Zenon DEF IInv
<1>1. ASSUME NEW i \in Costs, Execute(i)
      PROVE  QueueInv'
  <2>1. i \in Int /\ callouts' = Shift(callouts, i) /\ pc' = "poll"
    BY <1>1, Constants DEF Execute
  <2>2. pc' \notin {"run", "repeat"}
    BY <2>1
  <2> QED
    BY <1>0, <2>1, <2>2, QueueMove, Zenon
<1>2. ASSUME NEW x \in Shots, NEW d \in Delays, Ask(x, d)
      PROVE  QueueInv'
  <2> DEFINE c == Entry("shot", x, d, 0)
  <2>1. c \in Entries /\ c.how = "shot" /\ c.priv = x
    BY AskedIs, Constants
  <2>2. /\ callouts' = Insert(callouts, c) /\ UNCHANGED <<co, pc>> /\ pc = "exec"
        /\ \A i \in Queued("shot") : callouts[i].priv # x
    BY <1>2, Zenon DEF Ask
  <2> HIDE DEF c
  <2>3. ASSUME NEW d2 \in Range(callouts), Same(c, d2)
        PROVE  FALSE
    <3>1. PICK i \in DOMAIN callouts : d2 = callouts[i]
      BY DEF Range
    <3>2. i \in Queued("shot") /\ callouts[i].priv = x
      BY <2>1, <2>3, <3>1 DEF Same, Queued
    <3> QED
      BY <2>2, <3>2
  <2>4. Range(co) = {}
    BY <1>0, <2>2, TakenIs
  <2> QED
    BY <1>0, <2>1, <2>2, <2>3, <2>4, QueueInsert, Zenon
<1>3. CASE PollTake
  <2>1. /\ callouts # << >> /\ Head(callouts).when < 0 /\ co' = << Head(callouts) >>
        /\ callouts' = Tail(callouts) /\ pc' = "run"
    BY <1>3, Zenon DEF PollTake, Due
  <2>2. callouts \in Seq(Entries) /\ Ordered(callouts) /\ Distinct(callouts)
    BY <1>0, Zenon DEF TypeOK, QueueInv
  <2> DEFINE h == Head(callouts)
  <2>3. /\ Range(callouts) = Range(Tail(callouts)) \cup {h}
        /\ Ordered(Tail(callouts)) /\ \A d \in Range(callouts) : h.when <= d.when
        /\ Distinct(Tail(callouts)) /\ \A d \in Range(Tail(callouts)) : ~ Same(h, d)
    BY <2>1, <2>2, TakeIs, Zenon
  <2> HIDE DEF h
  <2>4. Range(co') = {h}
    BY <2>1 DEF Range, h
  <2>5. pc' # "repeat" /\ h.when < 0
    BY <2>1 DEF h
  <2>6. \A d \in Range(callouts') : ~ Same(h, d) /\ h.when <= d.when
    BY <2>1, <2>3, Zenon
  <2> QED
    BY <2>1, <2>3, <2>4, <2>5, <2>6, Zenon DEF QueueInv
<1>4. CASE PollReturn
  <2>1. UNCHANGED <<callouts, co>> /\ pc' # "repeat"
    BY <1>4 DEF PollReturn
  <2> QED
    BY <1>0, <2>1, QueueKeep, Zenon
<1>5. CASE Run
  <2>1. pc = "run" /\ callouts' = callouts
    BY <1>5, Zenon DEF Run, RunSleep, RunRtc, RunCallback
  <2>2. CASE co[1].repeat > 0
    <3>1. co' = co
      BY <1>5, <2>2, Zenon DEF Run
    <3>2. Range(co) = {co[1]}
      BY <1>0, <2>1, TakenIs
    <3>3. \A e \in Range(co') : e.repeat > 0
      BY <2>2, <3>1, <3>2, Zenon
    <3> QED
      BY <1>0, <2>1, <3>1, <3>3, Zenon DEF QueueInv
  <2>3. CASE ~ (co[1].repeat > 0)
    <3>1. co' = << >>
      BY <1>5, <2>3, Zenon DEF Run
    <3> QED
      BY <1>0, <2>1, <3>1, QueueDrop, Zenon
  <2> QED
    BY <2>2, <2>3, Zenon
<1>6. CASE Repeat
  <2>1. /\ pc = "repeat" /\ co' = << >> /\ pc' = "poll"
        /\ callouts' = Insert(callouts, Again(co[1]))
    BY <1>6, Zenon DEF Repeat, Again
  <2>2. co[1] \in Entries /\ Range(co) = {co[1]}
    BY <1>0, <2>1, TakenIs
  <2> DEFINE c == Again(co[1])
  <2>3. c \in Entries /\ c.how = co[1].how /\ c.priv = co[1].priv
    BY <2>2, AgainIs, Zenon
  <2> HIDE DEF c
  <2>4. \A d \in Range(callouts) : ~ Same(c, d)
    BY <1>0, <2>2, <2>3, Zenon DEF QueueInv, Same
  <2>5. callouts \in Seq(Entries) /\ Ordered(callouts) /\ Distinct(callouts)
    BY <1>0, Zenon DEF TypeOK, QueueInv
  <2>6. Ordered(Insert(callouts, c)) /\ Distinct(Insert(callouts, c))
    BY <2>3, <2>4, <2>5, InsertOrdered, InsertDistinct, Zenon
  <2>7. Range(co') = {}
    BY <2>1 DEF Range
  <2> QED
    BY <2>1, <2>6, <2>7, Zenon DEF QueueInv, c
<1>7. CASE Jump
  <2> DEFINE ns == IF rv = << >> THEN 0 ELSE rv[1]
  <2>1. ns \in Int
    BY <1>0 DEF TypeOK
  <2>2. callouts' = Shift(callouts, ns) /\ pc' \in {"reset", "exec"}
    BY <1>7, Zenon DEF Jump
  <2> HIDE DEF ns
  <2>3. pc' \notin {"run", "repeat"}
    BY <2>2
  <2> QED
    BY <1>0, <2>1, <2>2, <2>3, QueueMove, Zenon
<1>8. ASSUME NEW t \in Sleepers,
             SleepReturn(t) \/ \E d \in Durations : SleepLock(t, d)
      PROVE  QueueInv'
  <2>1. UNCHANGED <<callouts, co, pc>>
    BY <1>8, Zenon DEF SleepLock, SleepReturn
  <2> QED
    BY <1>0, <2>1, QueueKeep, Zenon
<1>9. ASSUME NEW t \in Sleepers, SleepInsert(t)
      PROVE  QueueInv'
  <2> DEFINE c == Entry("sleep", slp[t], until[t], 0)
  <2>1. /\ spc[t] = "locked" /\ callouts' = Insert(callouts, c) /\ UNCHANGED <<co, pc>>
    BY <1>9, Zenon DEF SleepInsert
  <2>2. slp[t] \in Nat /\ until[t] \in Int
    BY <1>0 DEF TypeOK
  <2>3. c \in Entries /\ c.how = "sleep" /\ c.priv = slp[t] /\ c.when = until[t]
    BY <2>2, AskedIs
  <2> HIDE DEF c
  <2>4. ASSUME NEW d \in Range(callouts) \cup Range(co), Same(c, d) \/ Same(d, c)
        PROVE  FALSE
    <3>1. d.how = "sleep" /\ d.priv = slp[t]
      BY <2>3, <2>4 DEF Same
    <3>2. PICK u \in Sleepers : spc[u] = "wait" /\ slp[u] = d.priv
      BY <1>0, <3>1, Zenon DEF WaitInv
    <3>3. u = t
      <4>1. spc[t] # "idle" /\ spc[u] # "idle" /\ slp[u] = slp[t]
        BY <2>1, <3>1, <3>2
      <4> QED
        BY <1>0, <4>1, Zenon DEF PoolInv
    <3> QED
      BY <2>1, <3>2, <3>3
  <2>5. ASSUME NEW e \in Range(co)
        PROVE  e.when <= c.when
    <3>1. pc \in {"run", "repeat"} /\ e \in Entries
      BY <1>0, TakenIs
    <3>2. until[t] >= 0
      BY <1>0, <2>1, <3>1, Zenon DEF TimeInv
    <3>3. e.when < 0
      BY <1>0, Zenon DEF QueueInv
    <3> QED
      BY <2>2, <2>3, <3>1, <3>2, <3>3, EntryIs
  <2> QED
    BY <1>0, <2>1, <2>3, <2>4, <2>5, QueueInsert, Zenon
<1>10. CASE RtcTick \/ RtcWait \/ UNCHANGED vars
  <2>1. UNCHANGED <<callouts, co, pc>>
    BY <1>10, Zenon DEF RtcTick, RtcWait, vars
  <2> QED
    BY <1>0, <2>1, QueueKeep, Zenon
<1> QED
  BY <1>1, <1>2, <1>3, <1>4, <1>5, <1>6, <1>7, <1>8, <1>9, <1>10, Zenon DEF Next, Cpu

-----------------------------------------------------------------------------
(* The clock.  Whatever is asked for lies ahead, and whatever is called     *)
(* again does so on its grid.                                               *)

All == Range(callouts) \cup Range(co)

OnGrid(c) ==
  c.how = "pit" => c.priv = 0 /\ c.when <= PitRepeat /\ (c.when + phase) % PitRepeat = 0

LEMMA AllIs ==
  ASSUME TypeOK
  PROVE  \A c \in All : c \in Entries /\ c.when \in Int /\ c.repeat \in Nat
<1>1. Range(callouts) \subseteq Entries /\ Range(co) \subseteq Entries
  BY RangeIs, Zenon DEF TypeOK
<1> QED
  BY <1>1, EntryIs DEF All

LEMMA EarliestIs == Earliest \in Int /\ Earliest <= 0 /\ -(PitRepeat + Longest) <= Earliest
BY Constants DEF Earliest

(* The invariant again, said of All.                                        *)
LEMMA TimeIs ==
  TimeInv <=>
    /\ pc # "reset" /\ (rv # << >> <=> pc = "jump")
    /\ \A c \in All : c.when >= Earliest
    /\ \A t \in Sleepers : spc[t] = "locked" =>
         until[t] >= (IF pc \in {"run", "repeat"} THEN 0 ELSE Earliest)
    /\ \E c \in All : c.how = "pit"
    /\ \A c \in All : OnGrid(c)
    /\ \A c \in All : c.how = "pit" /\ pc \in {"exec", "jump"} => c.when >= 0
    /\ \A c \in All : c.how = "pit" /\ pc = "jump" => rv[1] \in 0..c.when
BY Zenon DEF TimeInv, All, OnGrid

(* An entry is added, which is not the timer.                               *)
LEMMA TimeInsert ==
  ASSUME TypeOK, TimeInv, NEW c \in Entries, callouts' = Insert(callouts, c),
         UNCHANGED <<co, pc, rv, phase, until>>, c.how # "pit", c.when >= Earliest,
         \A t \in Sleepers : spc'[t] = "locked" => spc[t] = "locked"
  PROVE  TimeInv'
<1>1. All' = All \cup {c}
  <2>1. Range(callouts') = Range(callouts) \cup {c}
    BY InsertRange, Zenon DEF TypeOK
  <2> QED
    BY <2>1 DEF All
<1>2. Earliest' = Earliest
  BY Zenon DEF Earliest
<1>3. \A d \in All' : d.when >= Earliest'
  BY <1>1, <1>2, TimeIs, Zenon
<1>4. \E d \in All' : d.how = "pit"
  BY <1>1, TimeIs, Zenon
<1>5. \A d \in All' : OnGrid(d)'
  BY <1>1, TimeIs, Zenon DEF OnGrid
<1>6. \A d \in All' :
        /\ d.how = "pit" /\ pc' \in {"exec", "jump"} => d.when >= 0
        /\ d.how = "pit" /\ pc' = "jump" => rv'[1] \in 0..d.when
  BY <1>1, TimeIs, Zenon
<1>7. \A t \in Sleepers : spc'[t] = "locked" =>
        until'[t] >= (IF pc' \in {"run", "repeat"} THEN 0 ELSE Earliest')
  BY <1>2, TimeIs, Zenon
<1>8. pc' # "reset" /\ (rv' # << >> <=> pc' = "jump")
  BY TimeIs, Zenon
<1> QED
  BY <1>3, <1>4, <1>5, <1>6, <1>7, <1>8, Zenon DEF TimeInv, All, OnGrid

(* What is asked for stays, the timer at least, and no sleeper comes in but *)
(* for a time to come.                                                      *)
LEMMA TimeKeep ==
  ASSUME TypeOK, TimeInv, TypeOK', All' \subseteq All, \A c \in All : c.how = "pit" => c \in All',
         pc' = pc \/ {pc, pc'} \subseteq {"poll", "run", "repeat"},
         UNCHANGED <<rv, phase>>,
         \A t \in Sleepers : spc'[t] = "locked" =>
           \/ until'[t] >= 0
           \/ spc[t] = "locked" /\ until'[t] = until[t] /\ (pc' = pc \/ pc # "poll")
  PROVE  TimeInv'
<1>1. /\ Earliest' = Earliest /\ pc' # "reset" /\ (pc' = "jump" <=> pc = "jump")
      /\ (pc' \in {"exec", "jump"} <=> pc \in {"exec", "jump"})
  BY TimeIs DEF Earliest
<1>2. (\A d \in All' : d.when >= Earliest') /\ (\E d \in All' : d.how = "pit")
  BY <1>1, TimeIs, Zenon
<1>3. \A d \in All' : OnGrid(d)'
  BY TimeIs, Zenon DEF OnGrid
<1>4. \A d \in All' :
        /\ d.how = "pit" /\ pc' \in {"exec", "jump"} => d.when >= 0
        /\ d.how = "pit" /\ pc' = "jump" => rv'[1] \in 0..d.when
  BY <1>1, TimeIs, Zenon
<1>5. ASSUME NEW t \in Sleepers, spc'[t] = "locked"
      PROVE  until'[t] >= (IF pc' \in {"run", "repeat"} THEN 0 ELSE Earliest')
  <2>1. /\ Earliest \in Int /\ Earliest <= 0 /\ until'[t] \in Int /\ until[t] \in Int
    BY EarliestIs DEF TypeOK
  <2>2. CASE spc[t] = "locked" /\ until'[t] = until[t] /\ (pc' = pc \/ pc # "poll")
    <3>1. until[t] >= (IF pc \in {"run", "repeat"} THEN 0 ELSE Earliest)
      BY <2>2, TimeIs, Zenon
    <3> QED
      BY <1>1, <2>1, <2>2, <3>1
  <2>3. CASE until'[t] >= 0
    BY <1>1, <2>1, <2>3
  <2> QED
    BY <1>5, <2>2, <2>3, Zenon
<1>6. rv' # << >> <=> pc' = "jump"
  BY <1>1, TimeIs, Zenon
<1> QED
  BY <1>1, <1>2, <1>3, <1>4, <1>5, <1>6, Zenon DEF TimeInv, All, OnGrid

(* The clock moves on, past what is overdue or up to what is not.           *)
LEMMA MoveIs ==
  ASSUME TypeOK, TypeOK', NEW n \in Nat, callouts' = Shift(callouts, n), Later(n),
         pc \in {"exec", "jump"}, pc' \in {"exec", "poll"}, TimeInv
  PROVE  /\ All' = {Moved(c, n) : c \in All}
         /\ \A t \in Sleepers : spc[t] = "locked" => until'[t] = until[t] - n
         /\ \A c \in All : OnGrid(Moved(c, n))'
<1>1. Range(co) = {} /\ Range(co') = {}
  <2>1. pc \notin {"run", "repeat"} /\ pc' \notin {"run", "repeat"}
    OBVIOUS
  <2>2. Range(co) = {}
    BY <2>1, TakenIs, Zenon
  <2>3. Len(co') = 0 /\ co' \in Seq(Entries)
    BY <2>1 DEF TypeOK
  <2>4. Range(co') = {}
    BY <2>3 DEF Range
  <2> QED
    BY <2>2, <2>4
<1>2. All' = {Moved(c, n) : c \in All}
  <2>1. callouts \in Seq(Entries) /\ n \in Int
    BY DEF TypeOK
  <2>2. Range(callouts') = {Moved(c, n) : c \in Range(callouts)}
    BY <2>1, ShiftIs, Zenon
  <2> QED
    BY <1>1, <2>2 DEF All
<1>3. \A t \in Sleepers : spc[t] = "locked" => until'[t] = until[t] - n
  BY DEF Later, Asleep
<1>4. ASSUME NEW c \in All
      PROVE  OnGrid(Moved(c, n))'
  <2>1. /\ c \in Entries /\ c.when \in Int /\ phase \in Int /\ n \in Int
        /\ phase' = (phase + n) % PitRepeat
    BY AllIs DEF TypeOK, Later
  <2> DEFINE d == Moved(c, n)
  <2>2. d.how = c.how /\ d.priv = c.priv /\ d.when = c.when - n
    BY <2>1, MovedIs, Zenon
  <2> HIDE DEF d
  <2>3. ASSUME d.how = "pit"
        PROVE  d.priv = 0 /\ d.when <= PitRepeat /\ (d.when + phase') % PitRepeat = 0
    <3>1. c.priv = 0 /\ c.when <= PitRepeat /\ (c.when + phase) % PitRepeat = 0
      BY <2>2, <2>3, TimeIs, Zenon DEF OnGrid
    <3>2. ((c.when - n) + ((phase + n) % PitRepeat)) % PitRepeat = 0
      BY <2>1, <3>1, GridShift, Constants
    <3>3. (d.when + phase') % PitRepeat = 0
      BY <2>1, <2>2, <3>2, Zenon
    <3>4. d.when <= PitRepeat
      BY <2>1, <2>2, <3>1, Constants
    <3> QED
      BY <2>2, <3>1, <3>3, <3>4
  <2>4. OnGrid(d)'
    BY <2>3, Zenon DEF OnGrid, d
  <2> QED
    BY <2>4, Zenon DEF d
<1> QED
  BY <1>2, <1>3, <1>4, Zenon

LEMMA TimeExecute ==
  ASSUME TypeOK, TypeOK', TimeInv, NEW n \in Costs, Execute(n)
  PROVE  TimeInv'
<1>1. /\ n \in Nat /\ callouts' = Shift(callouts, n) /\ Later(n)
      /\ pc = "exec" /\ pc' = "poll" /\ rv' = rv /\ spc' = spc
  BY Constants DEF Execute
<1>2. /\ All' = {Moved(c, n) : c \in All}
      /\ \A t \in Sleepers : spc[t] = "locked" => until'[t] = until[t] - n
      /\ \A c \in All : OnGrid(Moved(c, n))'
  <2>1. pc \in {"exec", "jump"} /\ pc' \in {"exec", "poll"}
    BY <1>1
  <2> QED
    BY <1>1, <2>1, MoveIs, Zenon
<1>3. Earliest = -PitRepeat /\ Earliest' = -(PitRepeat + Longest) /\ n <= Longest
  BY <1>1, Constants DEF Earliest
<1>4. ASSUME NEW c \in All
      PROVE  /\ Moved(c, n).when >= Earliest' /\ Moved(c, n).how = c.how
  <2>1. c \in Entries /\ c.when \in Int /\ n \in Int
    BY <1>1, AllIs
  <2>2. c.when >= Earliest
    BY TimeIs, Zenon
  <2>3. Moved(c, n).how = c.how /\ Moved(c, n).when = c.when - n
    BY <2>1, MovedIs, Zenon
  <2> QED
    BY <1>1, <1>3, <2>1, <2>2, <2>3, Constants
<1>5. \A d \in All' : d.when >= Earliest' /\ OnGrid(d)'
  BY <1>2, <1>4, Zenon
<1>6. \E d \in All' : d.how = "pit"
  <2>1. PICK c \in All : c.how = "pit"
    BY TimeIs, Zenon
  <2>2. Moved(c, n) \in All' /\ Moved(c, n).how = "pit"
    BY <1>2, <1>4, <2>1
  <2> QED
    BY <2>2
<1>7. ASSUME NEW t \in Sleepers, spc'[t] = "locked"
      PROVE  until'[t] >= Earliest'
  <2>1. until[t] >= Earliest
    BY <1>1, <1>7, TimeIs
  <2>2. until'[t] = until[t] - n /\ until[t] \in Int
    BY <1>1, <1>2, <1>7 DEF TypeOK
  <2> QED
    BY <1>1, <1>3, <2>1, <2>2, Constants
<1>8. /\ pc' # "reset" /\ pc' \notin {"exec", "jump"} /\ pc' # "jump"
      /\ pc' \notin {"run", "repeat"} /\ rv' = << >>
  BY <1>1, TimeIs
<1> QED
  BY <1>5, <1>6, <1>7, <1>8, Zenon DEF TimeInv, All, OnGrid

LEMMA TimeJump ==
  ASSUME TypeOK, TypeOK', TimeInv, Jump
  PROVE  TimeInv'
<1>1. pc = "jump" /\ rv # << >>
  BY TimeIs, Zenon DEF Jump
<1>0. PICK n : n = rv[1]
  OBVIOUS
<1>2. /\ callouts' = Shift(callouts, n) /\ Later(n) /\ pc' = "exec" /\ rv' = << >>
      /\ spc' = spc
  BY <1>0, <1>1, Zenon DEF Jump
<1>3. PICK pit \in All : pit.how = "pit"
  BY TimeIs, Zenon
<1>4. n \in 0..pit.when /\ pit.when <= PitRepeat /\ pit.when \in Int
  BY <1>0, <1>1, <1>3, TimeIs, AllIs, Zenon DEF OnGrid
<1>5. n \in Nat /\ n <= PitRepeat
  BY <1>4, Constants
<1>6. /\ All' = {Moved(c, n) : c \in All}
      /\ \A t \in Sleepers : spc[t] = "locked" => until'[t] = until[t] - n
      /\ \A c \in All : OnGrid(Moved(c, n))'
  <2>1. pc \in {"exec", "jump"} /\ pc' \in {"exec", "poll"}
    BY <1>1, <1>2
  <2> QED
    BY <1>2, <1>5, <2>1, MoveIs, Zenon
<1>7. Earliest = 0 /\ Earliest' = -PitRepeat
  BY <1>1, <1>2 DEF Earliest
<1>8. ASSUME NEW c \in All
      PROVE  /\ Moved(c, n).when >= Earliest' /\ Moved(c, n).how = c.how
             /\ c.how = "pit" => Moved(c, n).when >= 0
  <2>1. c \in Entries /\ c.when \in Int /\ n \in Int
    BY <1>5, AllIs
  <2>2. c.when >= Earliest
    BY TimeIs, Zenon
  <2>3. Moved(c, n).how = c.how /\ Moved(c, n).when = c.when - n
    BY <2>1, MovedIs, Zenon
  <2>4. c.how = "pit" => n \in 0..c.when
    BY <1>0, <1>1, TimeIs, Zenon
  <2>5. Moved(c, n).when >= Earliest'
    BY <1>5, <1>7, <2>1, <2>2, <2>3, Constants
  <2>6. c.how = "pit" => Moved(c, n).when >= 0
    BY <1>5, <2>1, <2>3, <2>4
  <2> QED
    BY <2>3, <2>5, <2>6, Zenon
<1>9. \A d \in All' : d.when >= Earliest' /\ OnGrid(d)' /\ (d.how = "pit" => d.when >= 0)
  BY <1>6, <1>8, Zenon
<1>10. \E d \in All' : d.how = "pit"
  <2>1. Moved(pit, n) \in All' /\ Moved(pit, n).how = "pit"
    BY <1>3, <1>6, <1>8
  <2> QED
    BY <2>1
<1>11. ASSUME NEW t \in Sleepers, spc'[t] = "locked"
       PROVE  until'[t] >= Earliest'
  <2>1. until[t] >= Earliest
    BY <1>1, <1>2, <1>11, TimeIs
  <2>2. until'[t] = until[t] - n /\ until[t] \in Int
    BY <1>2, <1>6, <1>11 DEF TypeOK
  <2> QED
    BY <1>5, <1>7, <2>1, <2>2, Constants
<1>12. pc' # "reset" /\ pc' # "jump" /\ pc' \notin {"run", "repeat"} /\ rv' = << >>
  BY <1>2
<1> QED
  BY <1>9, <1>10, <1>11, <1>12, Zenon DEF TimeInv, All, OnGrid

LEMMA TimeStep ==
  ASSUME IInv, [Next]_vars, TypeOK'
  PROVE  TimeInv'
<1>0. TypeOK /\ QueueInv /\ TimeInv
  BY Zenon DEF IInv
<1>1. ASSUME NEW i \in Costs, Execute(i)
      PROVE  TimeInv'
  BY <1>0, <1>1, TimeExecute, Zenon
<1>2. ASSUME NEW x \in Shots, NEW d \in Delays, Ask(x, d)
      PROVE  TimeInv'
  <2> DEFINE c == Entry("shot", x, d, 0)
  <2>1. c \in Entries /\ c.how = "shot" /\ c.when = d /\ d \in Nat
    BY AskedIs, Constants
  <2>2. /\ callouts' = Insert(callouts, c)
        /\ UNCHANGED <<co, pc, rv, phase, until, spc>>
    BY <1>2, Zenon DEF Ask
  <2> HIDE DEF c
  <2>3. c.how # "pit" /\ c.when >= Earliest
    BY <2>1, EarliestIs
  <2> QED
    BY <1>0, <2>1, <2>2, <2>3, TimeInsert, Zenon
<1>3. CASE PollTake
  <2>1. /\ callouts # << >> /\ co' = << Head(callouts) >>
        /\ callouts' = Tail(callouts) /\ pc = "poll" /\ pc' = "run"
        /\ UNCHANGED <<rv, phase, spc, until>> /\ \A t \in Sleepers : spc[t] # "locked"
    BY <1>3, Zenon DEF PollTake, Due, Mutex
  <2>2. Range(callouts) = Range(Tail(callouts)) \cup {Head(callouts)}
    BY <1>0, <2>1, TakeIs, Zenon DEF TypeOK
  <2>3. Range(co') = {Head(callouts)}
    BY <2>1 DEF Range
  <2>4. Range(co) = {}
    BY <1>0, <2>1, TakenIs
  <2>5. All' = All
    BY <2>1, <2>2, <2>3, <2>4 DEF All
  <2>6. {pc, pc'} \subseteq {"poll", "run", "repeat"}
    BY <2>1
  <2> QED
    BY <1>0, <2>1, <2>5, <2>6, TimeKeep
<1>4. CASE PollReturn
  <2>1. /\ ~ Due /\ UNCHANGED <<callouts, co, phase, spc, until>> /\ pc = "poll"
        /\ \A t \in Sleepers : spc[t] # "locked"
        /\ IF stopped
             THEN /\ rv' = IF callouts = << >> THEN << >> ELSE << Head(callouts).when >>
                  /\ pc' = "jump"
             ELSE rv' = rv /\ pc' = "exec"
    BY <1>4, Zenon DEF PollReturn, Mutex
  <2>2. Range(co) = {}
    BY <1>0, <2>1, TakenIs
  <2>3. callouts # << >>
    <3>1. \E c \in All : c.how = "pit"
      BY <1>0, TimeIs, Zenon
    <3> QED
      BY <2>2, <3>1 DEF All, Range
  <2> DEFINE h == Head(callouts)
  <2>4. h \in Entries /\ \A d \in Range(callouts) : h.when <= d.when
    BY <1>0, <2>3, TakeIs, Zenon DEF TypeOK, QueueInv
  <2>5. h.when \in Int /\ ~ (h.when < 0)
    BY <2>1, <2>3, <2>4, EntryIs DEF Due
  <2>6. (pc' = "exec" /\ rv' = rv) \/ (pc' = "jump" /\ rv' = << h.when >>)
    BY <2>1, <2>3, Zenon
  <2> HIDE DEF h
  <2>7. ASSUME NEW c \in All
        PROVE  /\ c.when \in Int /\ h.when <= c.when /\ c.when >= 0 /\ c.when >= Earliest'
               /\ h.when \in 0..c.when
    <3>1. c.when \in Int
      BY <1>0, AllIs
    <3>2. h.when <= c.when
      BY <2>2, <2>4, <2>7 DEF All
    <3>3. Earliest' \in Int /\ Earliest' <= 0
      BY <2>6, Constants DEF Earliest
    <3> QED
      BY <2>5, <3>1, <3>2, <3>3
  <2>8. All' = All
    BY <2>1, Zenon DEF All
  <2>9. \A c \in All : OnGrid(c)'
    BY <1>0, <2>1, TimeIs, Zenon DEF OnGrid
  <2>10. \E c \in All : c.how = "pit"
    BY <1>0, TimeIs, Zenon
  <2>11. /\ pc' # "reset" /\ (rv' # << >> <=> pc' = "jump")
    <3>1. rv = << >>
      BY <1>0, <2>1, TimeIs
    <3>2. << h.when >> # << >>
      OBVIOUS
    <3> QED
      BY <2>6, <3>1, <3>2
  <2>12. pc' = "jump" => rv'[1] = h.when
    BY <2>6
  <2> QED
    BY <2>1, <2>7, <2>8, <2>9, <2>10, <2>11, <2>12, Zenon DEF TimeInv, All, OnGrid
<1>5. CASE Run
  <2>1. /\ pc = "run" /\ callouts' = callouts
        /\ UNCHANGED <<rv, phase, until>>
    BY <1>5, Zenon DEF Run, RunSleep, RunRtc, RunCallback
  <2>2. \A t \in Sleepers : spc'[t] = "locked" => spc[t] = "locked"
    BY <1>0, <1>5 DEF Run, RunSleep, RunRtc, RunCallback, Signal, TypeOK
  <2>3. (co[1].repeat > 0 /\ pc' = "repeat" /\ co' = co)
          \/ (~ (co[1].repeat > 0) /\ pc' = "poll" /\ co' = << >>)
    BY <1>5, Zenon DEF Run
  <2>4. co[1] \in Entries /\ Range(co) = {co[1]}
    BY <1>0, <2>1, TakenIs
  <2>5. All' \subseteq All /\ \A c \in All : c.how = "pit" => c \in All'
    <3>1. CASE co' = co
      BY <2>1, <3>1, Zenon DEF All
    <3>2. CASE ~ (co[1].repeat > 0) /\ co' = << >>
      <4>1. co[1].how # "pit"
        BY <2>4, <3>2, EntryIs, Constants DEF Period
      <4>2. Range(co') = {}
        BY <3>2 DEF Range
      <4> QED
        BY <2>1, <2>4, <4>1, <4>2 DEF All
    <3> QED
      BY <2>3, <3>1, <3>2
  <2>6. {pc, pc'} \subseteq {"poll", "run", "repeat"} /\ pc # "poll"
    BY <2>1, <2>3
  <2> QED
    BY <1>0, <2>1, <2>2, <2>5, <2>6, TimeKeep
<1>6. CASE Repeat
  <2>1. /\ pc = "repeat" /\ co' = << >> /\ pc' = "poll"
        /\ callouts' = Insert(callouts, Again(co[1]))
        /\ UNCHANGED <<rv, phase, until, spc>>
    BY <1>6, Zenon DEF Repeat, Again
  <2>2. co[1] \in Entries /\ Range(co) = {co[1]} /\ co[1] \in All
    BY <1>0, <2>1, TakenIs DEF All
  <2>3. co[1].when < 0 /\ co[1].when \in Int /\ co[1].repeat \in Nat
        /\ co[1].repeat = Period(co[1].how)
    BY <1>0, <2>2, EntryIs DEF QueueInv
  <2> DEFINE c == Again(co[1])
  <2>4. /\ c \in Entries /\ c.how = co[1].how /\ c.priv = co[1].priv
        /\ c.when = co[1].when + co[1].repeat
    BY <2>2, AgainIs, Zenon
  <2> HIDE DEF c
  <2>5. Range(callouts') = Range(callouts) \cup {c}
    BY <1>0, <2>1, <2>4, InsertRange, Zenon DEF TypeOK, c
  <2>6. Range(co') = {}
    BY <2>1 DEF Range
  <2>7. All' = Range(callouts) \cup {c}
    BY <2>5, <2>6 DEF All
  <2>8. Earliest' = Earliest /\ Earliest \in Int
    BY <2>1, EarliestIs DEF Earliest
  <2>9. c.when >= Earliest /\ OnGrid(c)
    <3>1. co[1].when >= Earliest /\ OnGrid(co[1])
      BY <1>0, <2>2, TimeIs, Zenon
    <3>2. c.when >= Earliest
      BY <2>3, <2>4, <2>8, <3>1
    <3>3. ASSUME c.how = "pit"
          PROVE  c.priv = 0 /\ c.when <= PitRepeat /\ (c.when + phase) % PitRepeat = 0
      <4>1. /\ co[1].priv = 0 /\ (co[1].when + phase) % PitRepeat = 0
            /\ co[1].repeat = PitRepeat
        BY <2>3, <2>4, <3>1, <3>3 DEF OnGrid, Period
      <4>2. phase \in Int
        BY <1>0 DEF TypeOK
      <4>3. ((co[1].when + PitRepeat) + phase) % PitRepeat = 0
        BY <2>3, <4>1, <4>2, Constants, GridNext, Zenon
      <4>4. c.when <= PitRepeat
        BY <2>3, <2>4, <4>1, Constants
      <4> QED
        BY <2>4, <4>1, <4>3, <4>4, Zenon
    <3> QED
      BY <3>2, <3>3, Zenon DEF OnGrid
  <2>10. \A d \in Range(callouts) : d.when >= Earliest /\ OnGrid(d)
    BY <1>0, TimeIs, Zenon DEF All
  <2>11. \A d \in All' : d.when >= Earliest' /\ OnGrid(d)'
    BY <2>1, <2>7, <2>8, <2>9, <2>10, Zenon DEF OnGrid
  <2>12. \E d \in All' : d.how = "pit"
    <3>1. PICK d \in All : d.how = "pit"
      BY <1>0, TimeIs, Zenon
    <3> QED
      BY <2>2, <2>4, <2>7, <3>1 DEF All
  <2>13. ASSUME NEW t \in Sleepers, spc'[t] = "locked"
         PROVE  until'[t] >= Earliest'
    <3>1. until[t] >= 0
      BY <1>0, <2>1, <2>13, TimeIs
    <3> QED
      BY <1>0, <2>1, <2>8, <3>1, EarliestIs DEF TypeOK
  <2>14. /\ pc' # "reset" /\ rv' = << >> /\ pc' # "jump"
         /\ pc' \notin {"run", "repeat"} /\ pc' \notin {"exec", "jump"}
    BY <1>0, <2>1, TimeIs
  <2> QED
    BY <2>11, <2>12, <2>13, <2>14, Zenon DEF TimeInv, All, OnGrid
<1>7. CASE Jump
  BY <1>0, <1>7, TimeJump, Zenon
<1>8. ASSUME NEW t \in Sleepers, NEW d \in Durations, SleepLock(t, d)
      PROVE  TimeInv'
  <2>1. /\ UNCHANGED <<callouts, co, pc, rv, phase>>
        /\ spc' = [spc EXCEPT ![t] = "locked"] /\ until' = [until EXCEPT ![t] = d]
    BY <1>8, Zenon DEF SleepLock
  <2>2. All' = All
    BY <2>1, Zenon DEF All
  <2>3. \A u \in Sleepers : spc'[u] = "locked" =>
          until'[u] >= 0 \/ (spc[u] = "locked" /\ until'[u] = until[u])
    BY <1>0, <2>1, Constants DEF TypeOK
  <2> QED
    BY <1>0, <2>1, <2>2, <2>3, TimeKeep
<1>9. ASSUME NEW t \in Sleepers, SleepInsert(t)
      PROVE  TimeInv'
  <2> DEFINE c == Entry("sleep", slp[t], until[t], 0)
  <2>1. /\ spc[t] = "locked" /\ callouts' = Insert(callouts, c)
        /\ UNCHANGED <<co, pc, rv, phase, until>> /\ spc' = [spc EXCEPT ![t] = "wait"]
    BY <1>9, Zenon DEF SleepInsert
  <2>2. slp[t] \in Nat /\ until[t] \in Int
    BY <1>0 DEF TypeOK
  <2>3. c \in Entries /\ c.how = "sleep" /\ c.when = until[t]
    BY <2>2, AskedIs
  <2> HIDE DEF c
  <2>4. c.how # "pit" /\ c.when >= Earliest
    <3>1. until[t] >= (IF pc \in {"run", "repeat"} THEN 0 ELSE Earliest)
      BY <1>0, <2>1, TimeIs, Zenon
    <3> QED
      BY <2>2, <2>3, <3>1, EarliestIs
  <2>5. \A u \in Sleepers : spc'[u] = "locked" => spc[u] = "locked"
    BY <1>0, <2>1 DEF TypeOK
  <2> QED
    BY <1>0, <2>1, <2>3, <2>4, <2>5, TimeInsert, Zenon
<1>10. ASSUME NEW t \in Sleepers, SleepReturn(t)
       PROVE  TimeInv'
  <2>1. /\ UNCHANGED <<callouts, co, pc, rv, phase>>
        /\ spc' = [spc EXCEPT ![t] = "idle"] /\ until' = [until EXCEPT ![t] = 0]
    BY <1>10, Zenon DEF SleepReturn
  <2>2. All' = All
    BY <2>1, Zenon DEF All
  <2>3. \A u \in Sleepers : spc'[u] = "locked" => spc[u] = "locked" /\ until'[u] = until[u]
    BY <1>0, <2>1 DEF TypeOK
  <2> QED
    BY <1>0, <2>1, <2>2, <2>3, TimeKeep
<1>11. CASE RtcTick \/ RtcWait \/ UNCHANGED vars
  <2>1. UNCHANGED <<callouts, co, pc, rv, phase, spc, until>>
    BY <1>11, Zenon DEF RtcTick, RtcWait, vars
  <2>2. All' = All
    BY <2>1, Zenon DEF All
  <2> QED
    BY <1>0, <2>1, <2>2, TimeKeep
<1> QED
  BY <1>1, <1>2, <1>3, <1>4, <1>5, <1>6, <1>7, <1>8, <1>9, <1>10, <1>11, Zenon DEF Next, Cpu

-----------------------------------------------------------------------------
(* The pool.                                                                *)

LEMMA PoolKeep ==
  ASSUME PoolInv, UNCHANGED <<slp, nsleeps, idle_sleeps>>,
         \A t \in Sleepers : spc'[t] # "idle" => spc[t] # "idle"
  PROVE  PoolInv'
BY Zenon DEF PoolInv

(* A struct sleeps is taken that nobody has.                                *)
LEMMA PoolTake ==
  ASSUME TypeOK, PoolInv, NEW t \in Sleepers, NEW d \in Durations, SleepLock(t, d)
  PROVE  PoolInv'
<1>1. /\ spc[t] = "idle" /\ spc' = [spc EXCEPT ![t] = "locked"]
      /\ \A u \in Sleepers : u # t => spc'[u] = spc[u]
      /\ slp \in [Sleepers -> Nat] /\ nsleeps \in Nat /\ idle_sleeps \in Seq(Nat)
  BY DEF SleepLock, TypeOK
<1>2. CASE idle_sleeps # << >>
  <2>1. /\ slp' = [slp EXCEPT ![t] = Head(idle_sleeps)]
        /\ idle_sleeps' = Tail(idle_sleeps) /\ nsleeps' = nsleeps
    BY <1>2, Zenon DEF SleepLock
  <2>2. /\ DOMAIN idle_sleeps = 1..Len(idle_sleeps) /\ 1 \in DOMAIN idle_sleeps
        /\ DOMAIN idle_sleeps' = 1..(Len(idle_sleeps) - 1) /\ Len(idle_sleeps) \in Nat
        /\ \A i \in DOMAIN idle_sleeps' : idle_sleeps'[i] = idle_sleeps[i + 1]
    BY <1>1, <1>2, <2>1
  <2>3. \A i \in DOMAIN idle_sleeps' : i + 1 \in DOMAIN idle_sleeps /\ 1 # i + 1
    BY <2>2
  <2>4. slp'[t] = idle_sleeps[1] /\ \A u \in Sleepers : u # t => slp'[u] = slp[u]
    BY <1>1, <1>2, <2>1
  <2>5. \A u \in Sleepers : spc'[u] # "idle" => slp'[u] < nsleeps
    BY <1>1, <2>2, <2>4, Zenon DEF PoolInv
  <2>6. ASSUME NEW u \in Sleepers, NEW v \in Sleepers,
               spc'[u] # "idle", spc'[v] # "idle", slp'[u] = slp'[v]
        PROVE  u = v
    <3>1. \A w \in Sleepers : w # t /\ spc'[w] # "idle" => slp'[w] # slp'[t]
      <4> SUFFICES ASSUME NEW w \in Sleepers, w # t, spc'[w] # "idle"
                   PROVE  slp'[w] # slp'[t]
        OBVIOUS
      <4>1. spc[w] # "idle" /\ slp'[w] = slp[w]
        BY <1>1, <2>4, Zenon
      <4>2. slp[w] # idle_sleeps[1]
        BY <2>2, <4>1, Zenon DEF PoolInv
      <4> QED
        BY <2>4, <4>1, <4>2, Zenon
    <3>2. u = t <=> v = t
      BY <2>6, <3>1
    <3>3. CASE u # t /\ v # t
      <4>1. spc[u] # "idle" /\ spc[v] # "idle" /\ slp[u] = slp[v]
        BY <1>1, <2>4, <2>6, <3>3, Zenon
      <4> QED
        BY <4>1, Zenon DEF PoolInv
    <3> QED
      BY <3>2, <3>3
  <2>7. ASSUME NEW i \in DOMAIN idle_sleeps'
        PROVE  /\ idle_sleeps'[i] < nsleeps
               /\ \A u \in Sleepers : spc'[u] # "idle" => slp'[u] # idle_sleeps'[i]
               /\ \A j \in DOMAIN idle_sleeps' : idle_sleeps'[i] = idle_sleeps'[j] => i = j
    <3>1. idle_sleeps'[i] = idle_sleeps[i + 1] /\ i + 1 \in DOMAIN idle_sleeps
      BY <2>2, <2>3, Zenon
    <3>2. idle_sleeps[i + 1] < nsleeps
      BY <3>1, Zenon DEF PoolInv
    <3>3. ASSUME NEW u \in Sleepers, spc'[u] # "idle"
          PROVE  slp'[u] # idle_sleeps[i + 1]
      <4>1. CASE u = t
        BY <2>2, <2>3, <2>4, <3>1, <4>1, Zenon DEF PoolInv
      <4>2. CASE u # t
        BY <1>1, <2>4, <3>1, <3>3, <4>2, Zenon DEF PoolInv
      <4> QED
        BY <4>1, <4>2
    <3>4. ASSUME NEW j \in DOMAIN idle_sleeps', idle_sleeps'[i] = idle_sleeps'[j]
          PROVE  i = j
      <4>1. idle_sleeps'[j] = idle_sleeps[j + 1] /\ j + 1 \in DOMAIN idle_sleeps
        BY <2>2, <2>3, Zenon
      <4>2. i + 1 = j + 1
        BY <3>1, <3>4, <4>1, Zenon DEF PoolInv
      <4> QED
        BY <2>2, <4>2
    <3> QED
      BY <3>1, <3>2, <3>3, <3>4, Zenon
  <2> QED
    BY <2>1, <2>5, <2>6, <2>7, Zenon DEF PoolInv
<1>3. CASE idle_sleeps = << >>
  <2>1. /\ slp' = [slp EXCEPT ![t] = nsleeps]
        /\ idle_sleeps' = idle_sleeps /\ nsleeps' = nsleeps + 1
    BY <1>3, Zenon DEF SleepLock
  <2>2. DOMAIN idle_sleeps' = {}
    BY <1>3, <2>1
  <2>3. slp'[t] = nsleeps /\ \A u \in Sleepers : u # t => slp'[u] = slp[u]
    BY <1>1, <2>1
  <2>4. \A u \in Sleepers : u # t /\ spc'[u] # "idle" => slp[u] < nsleeps /\ slp[u] \in Nat
    BY <1>1 DEF PoolInv
  <2>5. \A u \in Sleepers : spc'[u] # "idle" => slp'[u] < nsleeps'
    BY <1>1, <2>1, <2>3, <2>4
  <2>6. ASSUME NEW u \in Sleepers, NEW v \in Sleepers,
               spc'[u] # "idle", spc'[v] # "idle", slp'[u] = slp'[v]
        PROVE  u = v
    <3>1. u = t <=> v = t
      BY <1>1, <2>3, <2>4, <2>6
    <3>2. CASE u # t /\ v # t
      <4>1. spc[u] # "idle" /\ spc[v] # "idle" /\ slp[u] = slp[v]
        BY <1>1, <2>3, <2>6, <3>2, Zenon
      <4> QED
        BY <4>1, Zenon DEF PoolInv
    <3> QED
      BY <3>1, <3>2
  <2> QED
    BY <2>2, <2>5, <2>6, Zenon DEF PoolInv
<1> QED
  BY <1>2, <1>3

(* ... and given back by who had it.                                        *)
LEMMA PoolReturn ==
  ASSUME TypeOK, PoolInv, NEW t \in Sleepers, SleepReturn(t)
  PROVE  PoolInv'
<1>1. /\ spc[t] # "idle" /\ slp \in [Sleepers -> Nat] /\ nsleeps' = nsleeps
      /\ idle_sleeps \in Seq(Nat) /\ spc'[t] = "idle"
      /\ \A u \in Sleepers : u # t => spc'[u] = spc[u] /\ slp'[u] = slp[u]
  BY DEF SleepReturn, TypeOK
<1> DEFINE p == slp[t]
<1>2. idle_sleeps' = << p >> \o idle_sleeps
  BY Zenon DEF SleepReturn
<1>3. p \in Nat
  BY <1>1
<1> HIDE DEF p
<1>4. /\ DOMAIN idle_sleeps = 1..Len(idle_sleeps) /\ Len(idle_sleeps) \in Nat
      /\ DOMAIN idle_sleeps' = 1..(Len(idle_sleeps) + 1)
      /\ \A i \in DOMAIN idle_sleeps' :
           idle_sleeps'[i] = IF i = 1 THEN p ELSE idle_sleeps[i - 1]
  BY <1>1, <1>2, <1>3
<1>5. \A i \in DOMAIN idle_sleeps' : i # 1 => i - 1 \in DOMAIN idle_sleeps
  BY <1>4
<1>6. \A u \in Sleepers : spc'[u] # "idle" => u # t /\ spc[u] # "idle" /\ slp'[u] = slp[u]
  BY <1>1, Zenon
<1>7. \A u \in Sleepers : spc'[u] # "idle" => slp'[u] < nsleeps'
  BY <1>1, <1>6, Zenon DEF PoolInv
<1>8. ASSUME NEW u \in Sleepers, NEW v \in Sleepers,
             spc'[u] # "idle", spc'[v] # "idle", slp'[u] = slp'[v]
      PROVE  u = v
  BY <1>6, <1>8, Zenon DEF PoolInv
<1>9. ASSUME NEW i \in DOMAIN idle_sleeps'
      PROVE  /\ idle_sleeps'[i] < nsleeps'
             /\ \A u \in Sleepers : spc'[u] # "idle" => slp'[u] # idle_sleeps'[i]
             /\ \A j \in DOMAIN idle_sleeps' : idle_sleeps'[i] = idle_sleeps'[j] => i = j
  <2>1. CASE i = 1
    <3>1. idle_sleeps'[i] = p
      BY <1>4, <2>1, Zenon
    <3>2. p < nsleeps'
      BY <1>1, Zenon DEF PoolInv, p
    <3>3. \A u \in Sleepers : spc'[u] # "idle" => slp'[u] # p
      BY <1>1, <1>6, Zenon DEF PoolInv, p
    <3>4. ASSUME NEW j \in DOMAIN idle_sleeps', idle_sleeps'[j] = p
          PROVE  j = 1
      <4> SUFFICES ASSUME j # 1
                   PROVE  FALSE
        OBVIOUS
      <4>1. idle_sleeps[j - 1] = p /\ j - 1 \in DOMAIN idle_sleeps
        BY <1>4, <1>5, <3>4, Zenon
      <4>2. slp[t] # idle_sleeps[j - 1]
        BY <1>1, <4>1, Zenon DEF PoolInv
      <4> QED
        BY <4>1, <4>2, Zenon DEF p
    <3> QED
      BY <2>1, <3>1, <3>2, <3>3, <3>4, Zenon
  <2>2. CASE i # 1
    <3>1. idle_sleeps'[i] = idle_sleeps[i - 1] /\ i - 1 \in DOMAIN idle_sleeps
      BY <1>4, <1>5, <2>2, Zenon
    <3>2. idle_sleeps[i - 1] < nsleeps'
      BY <1>1, <3>1, Zenon DEF PoolInv
    <3>3. \A u \in Sleepers : spc'[u] # "idle" => slp'[u] # idle_sleeps[i - 1]
      BY <1>6, <3>1, Zenon DEF PoolInv
    <3>4. ASSUME NEW j \in DOMAIN idle_sleeps', idle_sleeps'[i] = idle_sleeps'[j]
          PROVE  i = j
      <4>1. CASE j = 1
        <5>1. idle_sleeps'[j] = p
          BY <1>4, <4>1, Zenon
        <5>2. slp[t] # idle_sleeps[i - 1]
          BY <1>1, <3>1, Zenon DEF PoolInv
        <5> QED
          BY <3>1, <3>4, <5>1, <5>2, Zenon DEF p
      <4>2. CASE j # 1
        <5>1. idle_sleeps'[j] = idle_sleeps[j - 1] /\ j - 1 \in DOMAIN idle_sleeps
          BY <1>4, <1>5, <4>2, Zenon
        <5>2. i - 1 = j - 1
          BY <3>1, <3>4, <5>1, Zenon DEF PoolInv
        <5> QED
          BY <1>4, <5>2
      <4> QED
        BY <4>1, <4>2
    <3> QED
      BY <3>1, <3>2, <3>3, <3>4, Zenon
  <2> QED
    BY <2>1, <2>2
<1> QED
  BY <1>7, <1>8, <1>9, Zenon DEF PoolInv

LEMMA PoolStep ==
  ASSUME IInv, [Next]_vars
  PROVE  PoolInv'
<1>0. TypeOK /\ PoolInv
  BY Zenon DEF IInv
<1>1. CASE Cpu
  <2>1. UNCHANGED <<slp, nsleeps, idle_sleeps>>
    BY <1>1, Zenon DEF Cpu, Execute, PollTake, PollReturn, Run, Repeat, Jump
  <2>2. UNCHANGED spc \/ \E c : Signal(c)
    BY <1>1, Zenon
       DEF Cpu, Execute, PollTake, PollReturn, Run, RunSleep, RunRtc, RunCallback, Repeat, Jump
  <2>3. \A t \in Sleepers : spc'[t] # "idle" => spc[t] # "idle"
    BY <1>0, <2>2 DEF Signal, TypeOK
  <2> QED
    BY <1>0, <2>1, <2>3, PoolKeep, Zenon
<1>2. ASSUME NEW x \in Shots, NEW d \in Delays, Ask(x, d)
      PROVE  PoolInv'
  <2>1. UNCHANGED <<slp, nsleeps, idle_sleeps, spc>>
    BY <1>2, Zenon DEF Ask
  <2> QED
    BY <1>0, <2>1, PoolKeep, Zenon
<1>3. ASSUME NEW t \in Sleepers, SleepInsert(t)
      PROVE  PoolInv'
  <2>1. UNCHANGED <<slp, nsleeps, idle_sleeps>>
    BY <1>3, Zenon DEF SleepInsert
  <2>2. \A u \in Sleepers : spc'[u] # "idle" => spc[u] # "idle"
    BY <1>0, <1>3 DEF SleepInsert, TypeOK
  <2> QED
    BY <1>0, <2>1, <2>2, PoolKeep, Zenon
<1>4. ASSUME NEW t \in Sleepers, SleepReturn(t)
      PROVE  PoolInv'
  BY <1>0, <1>4, PoolReturn, Zenon
<1>5. ASSUME NEW t \in Sleepers, NEW d \in Durations, SleepLock(t, d)
      PROVE  PoolInv'
  BY <1>0, <1>5, PoolTake, Zenon
<1>6. CASE RtcTick \/ RtcWait \/ UNCHANGED vars
  <2>1. UNCHANGED <<slp, nsleeps, idle_sleeps, spc>>
    BY <1>6, Zenon DEF RtcTick, RtcWait, vars
  <2> QED
    BY <1>0, <2>1, PoolKeep, Zenon
<1> QED
  BY <1>1, <1>2, <1>3, <1>4, <1>5, <1>6, Zenon DEF Next

-----------------------------------------------------------------------------
(* Who waits.                                                               *)

Asked(t) == Entry("sleep", slp[t], until[t], 0)

LEMMA AskedHow ==
  \A t \in Sleepers : Asked(t).how = "sleep" /\ Asked(t).priv = slp[t] /\ Asked(t).when = until[t]
BY DEF Asked, Entry

LEMMA WaitIs ==
  WaitInv <=>
    /\ \A t \in Sleepers : spc[t] = "wait" => Asked(t) \in All
    /\ \A c \in All : c.how = "sleep" => \E t \in Sleepers : spc[t] = "wait" /\ slp[t] = c.priv
BY Zenon DEF WaitInv, All, Asked

(* The same threads wait, for the same callouts.                            *)
LEMMA WaitKeep ==
  ASSUME WaitInv, \A c : c.how = "sleep" => (c \in All' <=> c \in All),
         \A t \in Sleepers : spc'[t] = "wait" <=> spc[t] = "wait",
         \A t \in Sleepers : spc[t] = "wait" => slp'[t] = slp[t] /\ until'[t] = until[t]
  PROVE  WaitInv'
<1>1. ASSUME NEW t \in Sleepers, spc'[t] = "wait"
      PROVE  Asked(t)' \in All'
  <2>1. Asked(t)' = Asked(t)
    BY <1>1, Zenon DEF Asked
  <2>2. Asked(t) \in All /\ Asked(t).how = "sleep"
    BY <1>1, WaitIs, AskedHow, Zenon
  <2> QED
    BY <2>1, <2>2, Zenon
<1>2. ASSUME NEW c \in All', c.how = "sleep"
      PROVE  \E t \in Sleepers : spc'[t] = "wait" /\ slp'[t] = c.priv
  <2>1. c \in All
    BY <1>2, Zenon
  <2>2. PICK t \in Sleepers : spc[t] = "wait" /\ slp[t] = c.priv
    BY <1>2, <2>1, WaitIs, Zenon
  <2>3. spc'[t] = "wait" /\ slp'[t] = c.priv
    BY <2>2, Zenon
  <2> QED
    BY <2>3
<1> QED
  BY <1>1, <1>2, Zenon DEF WaitInv, All, Asked

(* The clock moves on, for all of them.                                     *)
LEMMA WaitMove ==
  ASSUME TypeOK, TypeOK', TimeInv, WaitInv, NEW n \in Nat, callouts' = Shift(callouts, n),
         Later(n), pc \in {"exec", "jump"}, pc' \in {"exec", "poll"},
         UNCHANGED <<spc, slp>>
  PROVE  WaitInv'
<1>1. All' = {Moved(c, n) : c \in All}
  BY MoveIs, Zenon
<1>2. ASSUME NEW t \in Sleepers, spc[t] = "wait"
      PROVE  Asked(t)' \in All'
  <2>1. Asked(t) \in All
    BY <1>2, WaitIs, Zenon
  <2>2. Range(co) = {}
    <3>1. pc \notin {"run", "repeat"}
      OBVIOUS
    <3> QED
      BY <3>1, TakenIs, Zenon
  <2>3. PICK i \in DOMAIN callouts : callouts[i] = Asked(t)
    BY <2>1, <2>2 DEF All, Range
  <2>4. i \in Queued("sleep") /\ callouts[i].priv = slp[t]
    BY <2>3, AskedHow DEF Queued
  <2>5. until'[t] = until[t] - n
    BY <1>2, <2>4 DEF Asleep, Later
  <2>6. Moved(Asked(t), n) = Asked(t)'
    BY <2>5 DEF Moved, Asked, Entry
  <2> QED
    BY <1>1, <2>1, <2>6, Zenon
<1>3. ASSUME NEW d \in All', d.how = "sleep"
      PROVE  \E t \in Sleepers : spc[t] = "wait" /\ slp[t] = d.priv
  <2>1. PICK c \in All : d = Moved(c, n)
    BY <1>1, Zenon
  <2>2. c \in Entries /\ n \in Int
    BY AllIs
  <2>3. c.how = "sleep" /\ c.priv = d.priv
    BY <1>3, <2>1, <2>2, MovedIs, Zenon
  <2> QED
    BY <2>3, WaitIs, Zenon
<1> QED
  BY <1>2, <1>3, Zenon DEF WaitInv, All, Asked

(* One that is called for is in the queue; who is woken is the one that     *)
(* waits for it.                                                            *)
LEMMA SleeperIs ==
  ASSUME IInv, RunSleep
  PROVE  \E t \in Sleepers : /\ spc[t] = "wait" /\ spc' = [spc EXCEPT ![t] = "woken"]
                             /\ co[1] = Asked(t)
                             /\ \A u \in Sleepers : spc[u] = "wait" /\ slp[u] = slp[t] => u = t
<1>1. /\ pc = "run" /\ co[1].how = "sleep" /\ Signal(co[1].priv)
      /\ TypeOK /\ QueueInv /\ PoolInv /\ WaitInv
  BY Zenon DEF RunSleep, IInv
<1>2. Range(co) = {co[1]}
  BY <1>1, TakenIs
<1>3. PICK u \in Sleepers : spc[u] = "wait" /\ slp[u] = co[1].priv
  BY <1>1, <1>2, WaitIs DEF All
<1>4. PICK t \in Sleepers : /\ spc[t] = "wait" /\ slp[t] = co[1].priv
                            /\ spc' = [spc EXCEPT ![t] = "woken"]
  BY <1>1, <1>3, Zenon DEF Signal
<1>5. Asked(t) \in Range(callouts) \cup Range(co)
  BY <1>1, <1>4, WaitIs, Zenon DEF All
<1>6. Same(co[1], Asked(t))
  BY <1>1, <1>4, AskedHow DEF Same
<1>7. Asked(t) \notin Range(callouts)
  BY <1>1, <1>2, <1>6, Zenon DEF QueueInv
<1>8. co[1] = Asked(t)
  BY <1>2, <1>5, <1>7
<1>9. \A v \in Sleepers : spc[v] = "wait" /\ slp[v] = slp[t] => v = t
  <2>1. \A v \in Sleepers : spc[v] = "wait" => spc[v] # "idle"
    OBVIOUS
  <2> QED
    BY <1>1, <1>4, <2>1, Zenon DEF PoolInv
<1> QED
  BY <1>4, <1>8, <1>9, Zenon

LEMMA WaitSleep ==
  ASSUME IInv, RunSleep, Run
  PROVE  WaitInv'
<1>1. /\ pc = "run" /\ co[1].how = "sleep"
      /\ TypeOK /\ QueueInv /\ WaitInv
  BY Zenon DEF RunSleep, IInv
<1>2. Range(co) = {co[1]} /\ co[1] \in Entries
  BY <1>1, TakenIs
<1>3. ~ (co[1].repeat > 0)
  BY <1>1, <1>2, EntryIs DEF Period
<1>4. co' = << >> /\ UNCHANGED <<callouts, slp, until>>
  BY <1>3, Zenon DEF Run
<1>5. Range(co') = {}
  BY <1>4 DEF Range
<1>6. All' = Range(callouts)
  BY <1>4, <1>5 DEF All
<1>7. PICK t \in Sleepers : /\ spc[t] = "wait" /\ spc' = [spc EXCEPT ![t] = "woken"]
                            /\ co[1] = Asked(t)
                            /\ \A u \in Sleepers : spc[u] = "wait" /\ slp[u] = slp[t] => u = t
  BY SleeperIs, Zenon
<1>8. \A u \in Sleepers : spc'[u] = "wait" <=> spc[u] = "wait" /\ u # t
  BY <1>1, <1>7 DEF TypeOK
<1>9. ASSUME NEW u \in Sleepers, spc'[u] = "wait"
      PROVE  Asked(u)' \in All'
  <2>1. spc[u] = "wait" /\ slp[u] # slp[t]
    BY <1>7, <1>8, <1>9, Zenon
  <2>2. Asked(u) \in All
    BY <1>1, <2>1, WaitIs, Zenon
  <2>3. Asked(u) # co[1]
    BY <1>7, <2>1, AskedHow
  <2>4. Asked(u) \in Range(callouts)
    BY <1>2, <2>2, <2>3 DEF All
  <2>5. Asked(u)' = Asked(u)
    BY <1>4, Zenon DEF Asked
  <2> QED
    BY <1>6, <2>4, <2>5, Zenon
<1>10. ASSUME NEW c \in All', c.how = "sleep"
       PROVE  \E u \in Sleepers : spc'[u] = "wait" /\ slp'[u] = c.priv
  <2>1. c \in Range(callouts)
    BY <1>6, Zenon
  <2>2. PICK u \in Sleepers : spc[u] = "wait" /\ slp[u] = c.priv
    BY <1>1, <1>10, <2>1, WaitIs DEF All
  <2>3. co[1].how = "sleep" /\ co[1].priv = slp[t]
    BY <1>7, AskedHow
  <2>4. ~ Same(co[1], c)
    BY <1>1, <1>2, <2>1, Zenon DEF QueueInv
  <2>5. u # t
    BY <1>10, <2>2, <2>3, <2>4, Zenon DEF Same
  <2> QED
    BY <1>4, <1>8, <2>2, <2>5, Zenon
<1> QED
  BY <1>9, <1>10, Zenon DEF WaitInv, All, Asked

LEMMA WaitStep ==
  ASSUME IInv, [Next]_vars, TypeOK'
  PROVE  WaitInv'
<1>0. TypeOK /\ QueueInv /\ TimeInv /\ PoolInv /\ WaitInv /\ callouts \in Seq(Entries)
  BY Zenon DEF IInv, TypeOK
<1>1. ASSUME NEW n \in Costs, Execute(n)
      PROVE  WaitInv'
  <2>1. /\ callouts' = Shift(callouts, n) /\ Later(n) /\ UNCHANGED <<spc, slp>>
        /\ pc = "exec" /\ pc' = "poll"
    BY <1>1, Zenon DEF Execute
  <2>2. n \in Nat /\ pc \in {"exec", "jump"} /\ pc' \in {"exec", "poll"}
    BY <2>1, Constants
  <2> QED
    BY <1>0, <2>1, <2>2, WaitMove, Zenon
<1>2. CASE Jump
  <2>1. pc = "jump" /\ rv # << >>
    BY <1>0, <1>2, TimeIs, Zenon DEF Jump
  <2>2. PICK n : n = rv[1]
    OBVIOUS
  <2>3. /\ callouts' = Shift(callouts, n) /\ Later(n) /\ UNCHANGED <<spc, slp>>
        /\ pc' = "exec"
    BY <1>2, <2>1, <2>2, Zenon DEF Jump
  <2>4. n \in Nat
    <3>1. PICK c \in All : c.how = "pit"
      BY <1>0, TimeIs, Zenon
    <3>2. n \in 0..c.when /\ c.when \in Int
      BY <1>0, <2>1, <2>2, <3>1, TimeIs, AllIs, Zenon
    <3> QED
      BY <3>2
  <2>5. pc \in {"exec", "jump"} /\ pc' \in {"exec", "poll"}
    BY <2>1, <2>3
  <2> QED
    BY <1>0, <2>3, <2>4, <2>5, WaitMove, Zenon
<1>3. ASSUME NEW x \in Shots, NEW d \in Delays, Ask(x, d)
      PROVE  WaitInv'
  <2> DEFINE e == Entry("shot", x, d, 0)
  <2>1. e \in Entries /\ e.how = "shot"
    BY AskedIs, Constants
  <2>2. callouts' = Insert(callouts, e) /\ UNCHANGED <<co, spc, slp, until>>
    BY <1>3, Zenon DEF Ask
  <2> HIDE DEF e
  <2>3. Range(callouts') = Range(callouts) \cup {e}
    BY <1>0, <2>1, <2>2, InsertRange, Zenon
  <2>4. \A c : c.how = "sleep" => (c \in All' <=> c \in All)
    BY <2>1, <2>2, <2>3 DEF All
  <2> QED
    BY <1>0, <2>2, <2>4, WaitKeep, Zenon
<1>4. CASE PollTake
  <2>1. /\ callouts # << >> /\ co' = << Head(callouts) >> /\ callouts' = Tail(callouts)
        /\ pc = "poll" /\ UNCHANGED <<spc, slp, until>>
    BY <1>4, Zenon DEF PollTake, Due
  <2>2. Range(callouts) = Range(Tail(callouts)) \cup {Head(callouts)}
    BY <1>0, <2>1, TakeIs, Zenon
  <2>3. Range(co') = {Head(callouts)}
    BY <2>1 DEF Range
  <2>4. Range(co) = {}
    BY <1>0, <2>1, TakenIs
  <2>5. All' = All
    BY <2>1, <2>2, <2>3, <2>4 DEF All
  <2> QED
    BY <1>0, <2>1, <2>5, WaitKeep, Zenon
<1>5. CASE Run /\ RunSleep
  BY <1>5, WaitSleep, Zenon
<1>6. CASE Run /\ (RunRtc \/ RunCallback)
  <2>1. /\ pc = "run" /\ co[1].how # "sleep" /\ UNCHANGED <<callouts, spc, slp, until>>
        /\ co' = co \/ co' = << >>
    BY <1>6 DEF Run, RunRtc, RunCallback
  <2>2. Range(co) = {co[1]}
    BY <1>0, <2>1, TakenIs
  <2>3. Range(co') \subseteq Range(co)
    BY <2>1 DEF Range
  <2>4. \A c : c.how = "sleep" => (c \in All' <=> c \in All)
    BY <2>1, <2>2, <2>3 DEF All
  <2> QED
    BY <1>0, <2>1, <2>4, WaitKeep, Zenon
<1>7. CASE Repeat
  <2>1. /\ pc = "repeat" /\ co' = << >> /\ UNCHANGED <<spc, slp, until>>
        /\ callouts' = Insert(callouts, Again(co[1]))
    BY <1>7, Zenon DEF Repeat, Again
  <2>2. co[1] \in Entries /\ Range(co) = {co[1]}
    BY <1>0, <2>1, TakenIs
  <2>3. co[1].how # "sleep"
    <3>1. co[1].repeat > 0
      BY <1>0, <2>1, <2>2, Zenon DEF QueueInv
    <3> QED
      BY <2>2, <3>1, EntryIs DEF Period
  <2> DEFINE e == Again(co[1])
  <2>4. e \in Entries /\ e.how # "sleep"
    BY <2>2, <2>3, AgainIs
  <2> HIDE DEF e
  <2>5. Range(callouts') = Range(callouts) \cup {e}
    BY <1>0, <2>1, <2>4, InsertRange, Zenon DEF e
  <2>6. Range(co') = {}
    BY <2>1 DEF Range
  <2>7. \A c : c.how = "sleep" => (c \in All' <=> c \in All)
    BY <2>2, <2>3, <2>4, <2>5, <2>6 DEF All
  <2> QED
    BY <1>0, <2>1, <2>7, WaitKeep, Zenon
<1>8. ASSUME NEW t \in Sleepers,
             SleepReturn(t) \/ \E d \in Durations : SleepLock(t, d)
      PROVE  WaitInv'
  <2>1. /\ UNCHANGED <<callouts, co>> /\ spc[t] \in {"woken", "idle"}
        /\ spc' = [spc EXCEPT ![t] = "idle"] \/ spc' = [spc EXCEPT ![t] = "locked"]
        /\ \E p : slp' = [slp EXCEPT ![t] = p]
        /\ \E d : until' = [until EXCEPT ![t] = d]
    BY <1>8 DEF SleepLock, SleepReturn
  <2>2. \A u \in Sleepers : (spc'[u] = "wait" <=> spc[u] = "wait")
    BY <1>0, <2>1 DEF TypeOK
  <2>3. \A u \in Sleepers : spc[u] = "wait" => slp'[u] = slp[u] /\ until'[u] = until[u]
    BY <1>0, <2>1 DEF TypeOK
  <2>4. All' = All
    BY <2>1, Zenon DEF All
  <2> QED
    BY <1>0, <2>2, <2>3, <2>4, WaitKeep, Zenon
<1>9. ASSUME NEW t \in Sleepers, SleepInsert(t)
      PROVE  WaitInv'
  <2>1. /\ spc[t] = "locked" /\ callouts' = Insert(callouts, Asked(t))
        /\ UNCHANGED <<co, slp, until>> /\ spc' = [spc EXCEPT ![t] = "wait"]
    BY <1>9, Zenon DEF SleepInsert, Asked
  <2>2. Asked(t) \in Entries
    BY <1>0, AskedIs DEF TypeOK, Asked
  <2>3. Range(callouts') = Range(callouts) \cup {Asked(t)}
    BY <1>0, <2>1, <2>2, InsertRange, Zenon
  <2>4. All' = All \cup {Asked(t)}
    BY <2>1, <2>3 DEF All
  <2>5. \A u \in Sleepers : spc'[u] = "wait" <=> spc[u] = "wait" \/ u = t
    BY <1>0, <2>1 DEF TypeOK
  <2>6. \A u \in Sleepers : Asked(u)' = Asked(u)
    BY <2>1, Zenon DEF Asked
  <2>7. \A u \in Sleepers : spc'[u] = "wait" => Asked(u)' \in All'
    BY <1>0, <2>4, <2>5, <2>6, WaitIs
  <2>8. ASSUME NEW c \in All', c.how = "sleep"
        PROVE  \E u \in Sleepers : spc'[u] = "wait" /\ slp'[u] = c.priv
    <3>1. CASE c \in All
      BY <1>0, <2>1, <2>5, <2>8, <3>1, WaitIs, Zenon
    <3>2. CASE c = Asked(t)
      <4>1. c.priv = slp'[t] /\ spc'[t] = "wait"
        BY <2>1, <2>5, <3>2, AskedHow, Zenon
      <4> QED
        BY <4>1
    <3> QED
      BY <2>4, <3>1, <3>2
  <2> QED
    BY <2>7, <2>8, Zenon DEF WaitInv, All, Asked
<1>10. CASE PollReturn \/ RtcTick \/ RtcWait \/ UNCHANGED vars
  <2>1. UNCHANGED <<callouts, co, spc, slp, until>>
    BY <1>10, Zenon DEF PollReturn, RtcTick, RtcWait, vars
  <2>2. All' = All
    BY <2>1, Zenon DEF All
  <2> QED
    BY <1>0, <2>1, <2>2, WaitKeep, Zenon
<1>11. Run => RunSleep \/ RunRtc \/ RunCallback
  BY Zenon DEF Run
<1> QED
  BY <1>1, <1>2, <1>3, <1>4, <1>5, <1>6, <1>7, <1>8, <1>9, <1>10, <1>11, Zenon DEF Next, Cpu

-----------------------------------------------------------------------------
(* Where it begins: the timer and the clock chip are in the queue.          *)

LEMMA InitInv == Init => IInv
<1> SUFFICES ASSUME Init
             PROVE  IInv
  OBVIOUS
<1> DEFINE pit == Entry("pit", 0, 0, PitRepeat)
           chip == Entry("rtc", 0, RtcRepeat, RtcRepeat)
<1>1. TypeOK
  BY TypeInit
<1>2. /\ pit \in Entries /\ pit.how = "pit" /\ pit.priv = 0 /\ pit.when = 0
      /\ chip \in Entries /\ chip.how = "rtc" /\ chip.when = RtcRepeat
  BY AskedIs, Constants
<1>3. /\ callouts = Insert(<< pit >>, chip)
      /\ pc = "exec" /\ co = << >> /\ rv = << >> /\ phase = 0 /\ idle_sleeps = << >>
      /\ \A t \in Sleepers : spc[t] = "idle"
  BY DEF Init
<1> HIDE DEF pit, chip
<1>4. << pit >> \in Seq(Entries) /\ Range(<< pit >>) = {pit} /\ Range(co) = {}
  BY <1>2, <1>3 DEF Range
<1>5. Ordered(<< pit >>) /\ Distinct(<< pit >>) /\ ~ Same(chip, pit)
  BY <1>2 DEF Ordered, Distinct, Same
<1>6. /\ Ordered(callouts) /\ Distinct(callouts)
      /\ All = {pit, chip}
  <2>1. \A d \in Range(<< pit >>) : ~ Same(chip, d)
    BY <1>4, <1>5, Zenon
  <2>2. Range(callouts) = {pit} \cup {chip}
    BY <1>2, <1>3, <1>4, InsertRange, Zenon
  <2>3. Ordered(callouts) /\ Distinct(callouts)
    BY <1>2, <1>3, <1>4, <1>5, <2>1, InsertOrdered, InsertDistinct, Zenon
  <2> QED
    BY <1>4, <2>2, <2>3 DEF All
<1>7. QueueInv
  BY <1>4, <1>6, Zenon DEF QueueInv
<1>8. TimeInv
  <2>1. Earliest \in Int /\ Earliest <= 0
    BY EarliestIs
  <2>2. \A c \in All : c.when >= Earliest /\ c.when >= 0
    BY <1>2, <1>6, <2>1, Constants
  <2>3. \A c \in All : OnGrid(c)
    <3>1. (0 + 0) % PitRepeat = 0 /\ 0 <= PitRepeat
      BY Constants, Multiple
    <3>2. OnGrid(pit)
      BY <1>2, <1>3, <3>1 DEF OnGrid
    <3>3. OnGrid(chip)
      BY <1>2 DEF OnGrid
    <3> QED
      BY <1>6, <3>2, <3>3
  <2> QED
    BY <1>2, <1>3, <1>6, <2>2, <2>3, TimeIs
<1>9. PoolInv
  BY <1>3 DEF PoolInv
<1>10. WaitInv
  <2>1. \A c \in All : c.how # "sleep"
    BY <1>2, <1>6
  <2> QED
    BY <1>3, <2>1, WaitIs
<1> QED
  BY <1>1, <1>7, <1>8, <1>9, <1>10, Zenon DEF IInv

LEMMA InvStep == IInv /\ [Next]_vars => IInv'
<1> SUFFICES ASSUME IInv, [Next]_vars
             PROVE  IInv'
  OBVIOUS
<1>1. TypeOK'
  BY TypeStep, Zenon DEF IInv
<1>2. QueueInv' /\ TimeInv' /\ PoolInv' /\ WaitInv'
  BY <1>1, QueueStep, TimeStep, PoolStep, WaitStep, Zenon
<1> QED
  BY <1>1, <1>2, Zenon DEF IInv

-----------------------------------------------------------------------------
(* What is on time.                                                         *)

LEMMA InvOnTime ==
  ASSUME IInv
  PROVE  OnTime
<1>0. TypeOK /\ QueueInv /\ TimeInv
  BY Zenon DEF IInv
<1>1. /\ callouts \in Seq(Entries) /\ DOMAIN callouts = 1..Len(callouts)
      /\ \A i \in DOMAIN callouts : callouts[i] \in All
  BY <1>0, RangeIs DEF TypeOK, All
<1>2. ASSUME NEW i \in Queued("pit")
      PROVE  /\ i \in DOMAIN callouts /\ callouts[i].how = "pit" /\ callouts[i].priv = 0
             /\ (callouts[i].when + phase) % PitRepeat = 0
  <2>1. i \in DOMAIN callouts /\ callouts[i].how = "pit"
    BY DEF Queued
  <2>2. OnGrid(callouts[i])
    BY <1>0, <1>1, <2>1, TimeIs, Zenon
  <2> QED
    BY <2>1, <2>2, Zenon DEF OnGrid
<1>3. ASSUME pc = "exec"
      PROVE  \E i \in Queued("pit") : callouts[i].when \in 0..PitRepeat
  <2>1. PICK c \in All : c.how = "pit"
    BY <1>0, TimeIs, Zenon
  <2>2. Range(co) = {}
    BY <1>0, <1>3, TakenIs
  <2>3. PICK i \in DOMAIN callouts : c = callouts[i]
    BY <2>1, <2>2 DEF All, Range
  <2>4. c.when \in Int /\ c.when >= 0 /\ c.when <= PitRepeat
    <3>1. pc \in {"exec", "jump"}
      BY <1>3
    <3> QED
      BY <1>0, <2>1, <3>1, TimeIs, AllIs, Zenon DEF OnGrid
  <2>5. i \in Queued("pit") /\ callouts[i].when \in 0..PitRepeat
    BY <2>1, <2>3, <2>4, Constants DEF Queued
  <2> QED
    BY <2>5
<1>4. Cardinality(Queued("pit")) <= 1
  <2>1. ASSUME NEW i \in Queued("pit"), NEW j \in Queued("pit")
        PROVE  i = j
    <3>1. Same(callouts[i], callouts[j])
      BY <1>2, Zenon DEF Same
    <3> QED
      BY <1>0, <1>2, <3>1, Zenon DEF QueueInv, Distinct
  <2>2. CASE Queued("pit") = {}
    BY <2>2, FS_EmptySet
  <2>3. CASE Queued("pit") # {}
    <3>1. \E i : Queued("pit") = {i}
      BY <2>1, <2>3
    <3>2. Cardinality(Queued("pit")) = 1
      BY <3>1, FS_Singleton, Zenon
    <3> QED
      BY <3>2
  <2> QED
    BY <2>2, <2>3
<1>5. PitOnGrid
  BY <1>2, <1>3, <1>4, Zenon DEF PitOnGrid
<1>6. LateByOneJump
  <2> SUFFICES ASSUME NEW i \in DOMAIN callouts
               PROVE  callouts[i].when >= -(PitRepeat + Longest)
    BY Zenon DEF LateByOneJump
  <2>1. callouts[i].when >= Earliest /\ callouts[i].when \in Int
    BY <1>0, <1>1, TimeIs, AllIs, Zenon
  <2> QED
    BY <2>1, EarliestIs, Constants
<1> QED
  BY <1>0, <1>5, <1>6, TimeIs, Zenon DEF OnTime

(* Nobody but callout_func_sleep wakes a thread, and it does when it is     *)
(* called for that thread.                                                  *)
LEMMA WakesInTurn ==
  ASSUME IInv, [Next]_vars, NEW t \in Sleepers, spc[t] = "wait", spc'[t] = "woken"
  PROVE  until[t] < 0 /\ \A i \in DOMAIN callouts : callouts[i].when >= until[t]
<1>0. TypeOK /\ QueueInv
  BY Zenon DEF IInv
<1>1. RunSleep
  <2>1. spc' # spc
    OBVIOUS
  <2>2. /\ ~ (\E i \in Costs : Execute(i)) /\ ~ PollTake /\ ~ PollReturn /\ ~ Repeat /\ ~ Jump
        /\ ~ (\E x \in Shots, d \in Delays : Ask(x, d)) /\ ~ RtcTick /\ ~ RtcWait
        /\ ~ UNCHANGED vars
    BY <2>1, Zenon
       DEF Execute, PollTake, PollReturn, Repeat, Jump, Ask, RtcTick, RtcWait, vars
  <2>3. ~ (Run /\ (RunRtc \/ RunCallback))
    BY <2>1, Zenon DEF RunRtc, RunCallback
  <2>4. ASSUME NEW u \in Sleepers,
               SleepInsert(u) \/ SleepReturn(u) \/ \E d \in Durations : SleepLock(u, d)
        PROVE  FALSE
    BY <1>0, <2>4 DEF SleepInsert, SleepReturn, SleepLock, TypeOK
  <2> QED
    BY <2>2, <2>3, <2>4, Zenon DEF Next, Cpu, Run
<1>2. PICK u \in Sleepers : /\ spc[u] = "wait" /\ spc' = [spc EXCEPT ![u] = "woken"]
                            /\ co[1] = Asked(u)
  BY <1>1, SleeperIs, Zenon
<1>3. u = t
  BY <1>0, <1>2 DEF TypeOK
<1>4. co[1] \in Range(co) /\ co[1].when = until[t]
  <2>1. pc = "run"
    BY <1>1, Zenon DEF RunSleep
  <2> QED
    BY <1>0, <1>2, <1>3, <2>1, TakenIs, AskedHow
<1>5. until[t] < 0 /\ \A d \in Range(callouts) : until[t] <= d.when
  BY <1>0, <1>4, Zenon DEF QueueInv
<1>6. callouts \in Seq(Entries) /\ until[t] \in Int
  BY <1>0 DEF TypeOK
<1>7. ASSUME NEW i \in DOMAIN callouts
      PROVE  callouts[i].when >= until[t]
  <2>1. callouts[i] \in Range(callouts) /\ callouts[i].when \in Int
    BY <1>6, RangeIs, EntryIs
  <2> QED
    BY <1>5, <1>6, <2>1
<1> QED
  BY <1>5, <1>7

-----------------------------------------------------------------------------
(* What is queued is what can be asked for, a callout has been taken off    *)
(* the queue only where callout_poll works on one, and the history of the   *)
(* clock is a remainder: the variables of callout.c have their types.       *)
THEOREM TypeCorrect == Spec => []TypeOK
<1>1. Init => TypeOK
  BY TypeInit
<1>2. TypeOK /\ [Next]_vars => TypeOK'
  BY TypeStep
<1> QED
  BY <1>1, <1>2, PTL DEF Spec, Safety

(* The queue is ordered and has nothing twice, the timer callback is in it  *)
(* or being run, on its grid, no struct sleeps is had by two threads, and   *)
(* each thread that waits has its callout: callout.c and main_ioc keep it.  *)
THEOREM Inductive == Spec => []IInv
<1>1. Init => IInv
  BY InitInv
<1>2. IInv /\ [Next]_vars => IInv'
  BY InvStep
<1> QED
  BY <1>1, <1>2, PTL DEF Spec, Safety

(* The timer callback keeps to its grid and is asked for once, nothing in   *)
(* the queue is ever later than one idle jump and one instruction, and      *)
(* simclock is never set back, whatever the threads ask for while main_ioc  *)
(* is about to jump.                                                        *)
THEOREM OnSchedule == Spec => []OnTime
<1>1. IInv => OnTime
  BY InvOnTime
<1> QED
  BY <1>1, Inductive, PTL

(* Whoever is woken in callout_sleep has slept out, and nobody's callout    *)
(* that is still queued was due before: the condition variable it waits on  *)
(* is nobody else's, although it comes from a pool.                         *)
THEOREM SleepsOut == Spec => SleepNotShort
<1> DEFINE Wakes == \A t \in Sleepers : spc[t] = "wait" /\ spc'[t] = "woken" =>
                      until[t] < 0 /\ \A i \in DOMAIN callouts : callouts[i].when >= until[t]
<1>1. IInv /\ [Next]_vars => [Wakes]_vars
  BY WakesInTurn, Zenon
<1>2. Spec => [][Wakes]_vars
  <2> HIDE DEF Wakes
  <2> QED
    BY <1>1, Inductive, PTL DEF Spec, Safety
<1> QED
  BY <1>2, Zenon DEF SleepNotShort

-----------------------------------------------------------------------------
(* The clock chip.  A signal carries through the registers up to the first   *)
(* that does not wrap; the numbers the registers hold are followed through   *)
(* each of the six ways this can go.                                         *)

(* One register: two decimal digits, and what an increment makes of them.   *)
LEMMA DigitsAre ==
  ASSUME NEW b \in 0..255
  PROVE  /\ (b \div 16) \in 0..15 /\ (b % 16) \in 0..15 /\ b = (b \div 16) * 16 + (b % 16)
         /\ Decimal(b) = (b \div 16) * 10 + (b % 16) /\ Decimal(b) \in 0..165
BY DEF Decimal

LEMMA IncrementIs ==
  ASSUME NEW b \in 0..153, (b % 16) <= 9
  PROVE  /\ Increment(b) \in 1..160 /\ (Increment(b) % 16) <= 9 /\ Increment(b) > b
         /\ Decimal(Increment(b)) = Decimal(b) + 1
<1> DEFINE h == b \div 16
           l == b % 16
<1>1. h \in 0..9 /\ l \in 0..9 /\ b = 16 * h + l
  OBVIOUS
<1>2. Decimal(b) = h * 10 + l
  BY DEF Decimal
<1>3. (b + 1) % 256 = 16 * h + l + 1
  BY <1>1
<1> HIDE DEF h, l
<1>4. CASE l = 9
  <2>1. (16 * h + 10) % 16 = 10 /\ (16 * h + 16) % 256 = 16 * h + 16
    BY <1>1
  <2>2. Increment(b) = 16 * (h + 1)
    BY <1>1, <1>3, <1>4, <2>1 DEF Increment
  <2>3. (16 * (h + 1)) % 16 = 0 /\ (16 * (h + 1)) \div 16 = h + 1
    BY <1>1
  <2>4. Decimal(Increment(b)) = (h + 1) * 10 + 0
    BY <2>2, <2>3 DEF Decimal
  <2> QED
    BY <1>1, <1>2, <1>4, <2>2, <2>3, <2>4
<1>5. CASE l < 9
  <2>1. (16 * h + l + 1) % 16 = l + 1 /\ (16 * h + l + 1) \div 16 = h
    BY <1>1, <1>5
  <2>2. Increment(b) = 16 * h + l + 1
    BY <1>1, <1>3, <1>5, <2>1 DEF Increment
  <2>3. Decimal(Increment(b)) = h * 10 + (l + 1)
    BY <2>1, <2>2 DEF Decimal
  <2> QED
    BY <1>1, <1>2, <1>5, <2>1, <2>2, <2>3
<1> QED
  BY <1>1, <1>4, <1>5

LEMMA DecimalOrder ==
  ASSUME NEW b \in 0..255, NEW c \in 0..255, (b % 16) <= 9, (c % 16) <= 9
  PROVE  b <= c <=> Decimal(b) <= Decimal(c)
<1> DEFINE h == b \div 16
           l == b % 16
           i == c \div 16
           m == c % 16
<1>1. /\ h \in 0..15 /\ l \in 0..9 /\ b = 16 * h + l
      /\ i \in 0..15 /\ m \in 0..9 /\ c = 16 * i + m
  OBVIOUS
<1>2. Decimal(b) = h * 10 + l /\ Decimal(c) = i * 10 + m
  BY DEF Decimal
<1> HIDE DEF h, l, i, m
<1> QED
  BY <1>1, <1>2

(* Last values, in decimal.                                                 *)
LEMMA Decimals ==
  /\ Decimal(153) = 99 /\ Decimal(89) = 59 /\ Decimal(35) = 23 /\ Decimal(0) = 0
  /\ Decimal(1) = 1 /\ Bcd(12) = 18 /\ Bcd(10) = 16 /\ Bcd(11) = 17
  /\ Bcd(31) = 49 /\ Bcd(30) = 48 /\ Bcd(28) = 40
BY DEF Decimal, Bcd

LEMMA CarriesAre ==
  Carries[1] = 144 /\ Carries[2] = 153 /\ Carries[3] = 89 /\ Carries[4] = 89 /\ Carries[5] = 35
BY DEF Carries

(* The carry of a register of which c is the last value.                    *)
LastValues == {153, 89, 35, 49, 48, 40}

CarryGoes(c, b) ==
  /\ Increment(b) \in 1..160 /\ (Increment(b) % 16) <= 9
  /\ Decimal(Increment(b)) = Decimal(b) + 1
  /\ Decimal(b) \in 0..Decimal(c)
  /\ Increment(b) > c => Decimal(b) = Decimal(c)

LEMMA LastValuesAre ==
  /\ 153 \in LastValues /\ 89 \in LastValues /\ 35 \in LastValues
  /\ 49 \in LastValues /\ 48 \in LastValues /\ 40 \in LastValues
  BY DEF LastValues

LEMMA CarryIs ==
  ASSUME NEW c \in LastValues, NEW b \in 0..c, (b % 16) <= 9
  PROVE  CarryGoes(c, b)
<1>1. b \in 0..153 /\ b \in 0..255 /\ c \in 0..255 /\ (c % 16) <= 9 /\ b <= c
  BY DEF LastValues
<1>2. /\ Increment(b) \in 1..160 /\ (Increment(b) % 16) <= 9
      /\ Decimal(Increment(b)) = Decimal(b) + 1
  BY <1>1, IncrementIs, Zenon
<1>3. Decimal(b) \in 0..165 /\ Decimal(c) \in 0..165
  BY <1>1, DigitsAre, Zenon
<1>4. Increment(b) \in 0..255
  BY <1>2
<1>5. b <= c <=> Decimal(b) <= Decimal(c)
  BY <1>1, DecimalOrder, Zenon
<1>6. Increment(b) <= c <=> Decimal(Increment(b)) <= Decimal(c)
  BY <1>1, <1>2, <1>4, DecimalOrder, Zenon
<1> QED
  BY <1>1, <1>2, <1>3, <1>4, <1>5, <1>6 DEF CarryGoes

(* The months: the days of each are those up to the next one.               *)
MonthFits(m) ==
  /\ Decimal(m) \in 1..12 /\ LastDay(m) \in {49, 48, 40}
  /\ DaysBefore[Decimal(m)] \in 0..334
  /\ m = 18 => /\ DaysBefore[Decimal(m)] + Decimal(LastDay(m)) = 365
               /\ Increment(m) = 19
  /\ m # 18 => /\ Increment(m) \in 1..18 /\ (Increment(m) % 16) <= 9
               /\ DaysBefore[Decimal(m)] + Decimal(LastDay(m))
                    = DaysBefore[Decimal(Increment(m))]

LEMMA MonthIs ==
  ASSUME NEW m \in 1..18, (m % 16) <= 9
  PROVE  MonthFits(m)
<1>1. m \in {1, 2, 3, 4, 5, 6, 7, 8, 9, 16, 17, 18}
  OBVIOUS
<1>2. Decimal(49) = 31 /\ Decimal(48) = 30 /\ Decimal(40) = 28
  BY DEF Decimal
<1>3. LastDay(m) = IF m \in {1, 3, 5, 7, 8, 16, 18} THEN 49
                   ELSE IF m \in {4, 6, 9, 17} THEN 48 ELSE 40
  BY <1>1, Decimals, SMT DEF LastDay
<1>4. Decimal(m) = IF m <= 9 THEN m ELSE m - 6
  BY <1>1 DEF Decimal
<1>5. m # 18 => Increment(m) = IF m = 9 THEN 16 ELSE m + 1
  BY <1>1 DEF Increment
<1>6. m = 18 => Increment(m) = 19
  BY DEF Increment
<1>7. m # 18 => Decimal(Increment(m)) = Decimal(m) + 1
  BY <1>1, <1>4, <1>5 DEF Decimal
<1>8. \A n \in 1..12 : DaysBefore[n] =
         IF n = 1 THEN 0 ELSE IF n = 2 THEN 31 ELSE IF n = 3 THEN 59 ELSE IF n = 4 THEN 90
         ELSE IF n = 5 THEN 120 ELSE IF n = 6 THEN 151 ELSE IF n = 7 THEN 181
         ELSE IF n = 8 THEN 212 ELSE IF n = 9 THEN 243 ELSE IF n = 10 THEN 273
         ELSE IF n = 11 THEN 304 ELSE 334
  BY DEF DaysBefore
<1>9. Decimal(m) \in 1..12 /\ (m # 18 => Decimal(m) + 1 \in 1..12)
  BY <1>1, <1>4
<1>10. DaysBefore[Decimal(m)] \in 0..334
  BY <1>8, <1>9
<1>11. m = 18 => DaysBefore[Decimal(m)] + Decimal(LastDay(m)) = 365
  BY <1>2, <1>3, <1>4, <1>8
<1>12. m # 18 => DaysBefore[Decimal(m)] + Decimal(LastDay(m)) = DaysBefore[Decimal(m) + 1]
  BY <1>1, <1>2, <1>3, <1>4, <1>8
<1>13. m # 18 => Increment(m) \in 1..18 /\ (Increment(m) % 16) <= 9
  BY <1>1, <1>5
<1> QED
  BY <1>3, <1>6, <1>7, <1>9, <1>10, <1>11, <1>12, <1>13 DEF MonthFits

(* The minutes of a year, in days, hours and minutes.                       *)
MinuteAfter(d, h, m) == ((d * 24 + h) * 60 + m + 1) % (365 * 24 * 60)

MinuteGoesOn(d, h, m, x) ==
  /\ m < 59 \/ h < 23 => x = (d * 24 + h) * 60 + m + 1 /\ (x % (24 * 60)) # 0
  /\ m = 59 /\ h = 23 => /\ (x % (24 * 60)) = 0
                         /\ x = IF d = 364 THEN 0 ELSE (d + 1) * 24 * 60

LEMMA NextMinute ==
  ASSUME NEW d \in 0..364, NEW h \in 0..23, NEW m \in 0..59
  PROVE  MinuteGoesOn(d, h, m, MinuteAfter(d, h, m))
<1> DEFINE x == MinuteAfter(d, h, m)
<1>0. x = ((d * 24 + h) * 60 + m + 1) % (365 * 24 * 60)
  BY Zenon DEF MinuteAfter
<1> HIDE DEF x
<1> SUFFICES MinuteGoesOn(d, h, m, x)
  BY Zenon DEF x
<1> USE DEF MinuteGoesOn
<1>1. CASE m < 59 \/ h < 23
  <2> DEFINE e == h * 60 + m + 1
             f == d * (24 * 60)
  <2>1. (d * 24 + h) * 60 + m + 1 = f + e
    OBVIOUS
  <2>2. e \in 1..(24 * 60 - 1)
    BY <1>1
  <2>3. f \in Nat /\ f <= 364 * (24 * 60)
    OBVIOUS
  <2> HIDE DEF e, f
  <2>4. f + e \in Nat /\ f + e < 365 * 24 * 60
    BY <2>2, <2>3
  <2>5. x = f + e
    BY <1>0, <2>1, <2>4
  <2>6. x = d * (24 * 60) + e
    BY <2>5 DEF f
  <2>7. (x % (24 * 60)) = e
    BY <2>2, <2>6
  <2> QED
    BY <1>1, <2>1, <2>2, <2>5, <2>7
<1>2. CASE m = 59 /\ h = 23
  <2>1. (d * 24 + h) * 60 + m + 1 = (d + 1) * (24 * 60)
    BY <1>2
  <2>2. CASE d = 364
    BY <1>0, <1>2, <2>2
  <2>3. CASE d # 364
    BY <1>0, <1>2, <2>1, <2>3
  <2> QED
    BY <2>2, <2>3
<1> QED
  BY <1>1, <1>2

LEMMA ClockIs ==
  ASSUME NEW r \in Clock
  PROVE  /\ r \in [1..8 -> 0..255]
         /\ \A i \in 1..8 : r[i] \in 0..255 /\ (r[i] % 16) <= 9
         /\ (r[1] % 16) = 0 /\ r[1] <= 144 /\ r[2] <= 153 /\ r[3] <= 89 /\ r[4] <= 89
         /\ r[5] <= 35 /\ r[6] \in 1..7 /\ r[7] \in 1..LastDay(r[8]) /\ r[8] \in 1..18
<1>1. /\ r \in [1..8 -> 0..255] /\ \A i \in 1..8 : (r[i] % 16) <= 9
      /\ (r[1] % 16) = 0 /\ \A i \in 1..5 : r[i] <= Carries[i]
      /\ r[6] \in 1..7 /\ r[7] \in 1..LastDay(r[8]) /\ r[8] \in 1..Bcd(12)
  BY Zenon DEF Clock
<1>2. r[1] <= 144 /\ r[2] <= 153 /\ r[3] <= 89 /\ r[4] <= 89 /\ r[5] <= 35
  BY <1>1, CarriesAre
<1>3. \A i \in 1..8 : r[i] \in 0..255
  BY <1>1
<1>4. Bcd(12) = 18
  BY Decimals, Zenon
<1> QED
  BY <1>1, <1>2, <1>3, <1>4, Zenon

LEMMA ToClock ==
  ASSUME NEW r \in [1..8 -> 0..255],
         \A i \in 1..8 : (r[i] % 16) <= 9,
         (r[1] % 16) = 0, r[1] <= 144, r[2] <= 153, r[3] <= 89, r[4] <= 89, r[5] <= 35,
         r[6] \in 1..7, r[7] \in 1..LastDay(r[8]), r[8] \in 1..18
  PROVE  r \in Clock
<1>1. \A i \in 1..5 : r[i] <= Carries[i]
  BY CarriesAre
<1>2. r[8] \in 1..Bcd(12)
  BY Decimals, Zenon
<1> QED
  BY <1>1, <1>2, Zenon DEF Clock

(* What each register becomes.                                              *)
LEMMA AdvancedIs ==
  ASSUME NEW r \in Clock
  PROVE  /\ Advanced(r, 1) = r[1] + 16
         /\ \A j \in 2..5 : Advanced(r, j) = Increment(r[j])
         /\ \A j \in 1..5 : Advanced(r, j) \in 1..160 /\ Carries[j] \in Nat
<1>1. r[1] \in 0..144 /\ r[2] \in 0..153 /\ r[3] \in 0..89 /\ r[4] \in 0..89 /\ r[5] \in 0..35
  BY ClockIs
<1>2. \A j \in 1..8 : (r[j] % 16) <= 9
  BY ClockIs, Zenon
<1>3. \A j \in 2..5 : r[j] \in 0..153 /\ (r[j] % 16) <= 9
  BY <1>1, <1>2
<1>4. \A j \in 2..5 : Increment(r[j]) \in 1..160
  BY <1>3, IncrementIs, Zenon
<1>5. Advanced(r, 1) = r[1] + 16
  BY <1>1 DEF Advanced
<1>6. \A j \in 2..5 : Advanced(r, j) = Increment(r[j])
  BY DEF Advanced
<1>7. \A j \in 1..5 : Advanced(r, j) \in 1..160
  <2> TAKE j \in 1..5
  <2>1. CASE j = 1
    BY <1>1, <1>5, <2>1
  <2>2. CASE j # 1
    <3>1. j \in 2..5
      BY <2>2
    <3> QED
      BY <1>4, <1>6, <3>1, Zenon
  <2> QED
    BY <2>1, <2>2
<1>8. \A j \in 1..5 : Carries[j] \in Nat
  BY CarriesAre
<1> QED
  BY <1>5, <1>6, <1>7, <1>8, Zenon

Carry(r, i) ==
  /\ \A j \in 1..(i - 1) : Advanced(r, j) > Carries[j]
  /\ i = 6 \/ Advanced(r, i) <= Carries[i]

LEMMA ReachedIs ==
  ASSUME NEW r \in Clock
  PROVE  Reached(r) \in 1..6 /\ Carry(r, Reached(r))
<1>1. \A j \in 1..5 : Advanced(r, j) \in 1..160 /\ Carries[j] \in Nat
  BY AdvancedIs, Zenon
<1> DEFINE W(j) == Advanced(r, j) > Carries[j]
<1>2. \A j \in 1..5 : ~ W(j) => Advanced(r, j) <= Carries[j]
  BY <1>1
<1>3. \E i \in 1..6 : /\ \A j \in 1..(i - 1) : W(j)
                      /\ i = 6 \/ ~ W(i)
  <2> HIDE DEF W
  <2>1. CASE ~ W(1)
    BY <2>1
  <2>2. CASE W(1) /\ ~ W(2)
    <3>1. \A j \in 1..(2 - 1) : j = 1
      OBVIOUS
    <3> QED
      BY <2>2, <3>1
  <2>3. CASE W(1) /\ W(2) /\ ~ W(3)
    <3>1. \A j \in 1..(3 - 1) : j = 1 \/ j = 2
      OBVIOUS
    <3> QED
      BY <2>3, <3>1
  <2>4. CASE W(1) /\ W(2) /\ W(3) /\ ~ W(4)
    <3>1. \A j \in 1..(4 - 1) : j = 1 \/ j = 2 \/ j = 3
      OBVIOUS
    <3> QED
      BY <2>4, <3>1
  <2>5. CASE W(1) /\ W(2) /\ W(3) /\ W(4) /\ ~ W(5)
    <3>1. \A j \in 1..(5 - 1) : j = 1 \/ j = 2 \/ j = 3 \/ j = 4
      OBVIOUS
    <3> QED
      BY <2>5, <3>1
  <2>6. CASE W(1) /\ W(2) /\ W(3) /\ W(4) /\ W(5)
    <3>1. \A j \in 1..(6 - 1) : j = 1 \/ j = 2 \/ j = 3 \/ j = 4 \/ j = 5
      OBVIOUS
    <3> QED
      BY <2>6, <3>1
  <2> QED
    BY <2>1, <2>2, <2>3, <2>4, <2>5, <2>6, Zenon
<1>4. \A i \in 1..6 : i = 6 \/ i \in 1..5
  OBVIOUS
<1>5. \E i \in 1..6 : Carry(r, i)
  BY <1>2, <1>3, <1>4, Zenon DEF Carry
<1>6. Reached(r) = CHOOSE i \in 1..6 : Carry(r, i)
  BY Zenon DEF Reached, Carry
<1> QED
  BY <1>5, <1>6, Zenon

LEMMA TickedIs ==
  ASSUME NEW r \in Clock, NEW i \in 1..6, i = Reached(r)
  PROVE  LET t == Ticked(r)
         IN  /\ t = [j \in 1..8 |-> t[j]]
             /\ \A j \in 1..(i - 1) : t[j] = 0
             /\ i # 6 => t[i] = Advanced(r, i) /\ \A j \in (i + 1)..8 : t[j] = r[j]
             /\ i = 6 => \A j \in 6..8 : t[j] = Day(r)[j - 5]
<1> DEFINE t == Ticked(r)
<1>1. t = [j \in 1..8 |->
             CASE j < i -> 0
               [] i = 6 /\ j >= i -> Day(r)[j - 5]
               [] i # 6 /\ j = i -> Advanced(r, j)
               [] OTHER -> r[j]]
  BY SMT DEF Ticked
<1>2. \A j \in 1..8 : t[j] = CASE j < i -> 0
               [] i = 6 /\ j >= i -> Day(r)[j - 5]
               [] i # 6 /\ j = i -> Advanced(r, j)
               [] OTHER -> r[j]
  BY <1>1, SMT
<1>3. t = [j \in 1..8 |-> t[j]]
  BY <1>1, SMT
<1> HIDE DEF t
<1>4. \A j \in 1..(i - 1) : t[j] = 0
  <2> TAKE j \in 1..(i - 1)
  <2>1. j \in 1..8 /\ j < i
    OBVIOUS
  <2> QED
    BY <1>2, <2>1, SMT
<1>5. ASSUME i # 6
      PROVE  t[i] = Advanced(r, i) /\ \A j \in (i + 1)..8 : t[j] = r[j]
  BY <1>2, <1>5, SMT
<1>6. ASSUME i = 6
      PROVE  \A j \in 6..8 : t[j] = Day(r)[j - 5]
  <2> TAKE j \in 6..8
  <2>1. j \in 1..8 /\ ~ (j < i)
    BY <1>6
  <2> QED
    BY <1>2, <1>6, <2>1, SMT
<1> QED
  BY <1>3, <1>4, <1>5, <1>6, Zenon DEF t

(* The registers as numbers.                                                *)
LEMMA NumbersAre ==
  ASSUME NEW r \in Clock
  PROVE  /\ (r[1] \div 16) \in 0..9 /\ r[1] = 16 * (r[1] \div 16)
         /\ Decimal(r[2]) \in 0..99 /\ Decimal(r[3]) \in 0..59
         /\ Decimal(r[4]) \in 0..59 /\ Decimal(r[5]) \in 0..23
         /\ Decimal(r[8]) \in 1..12
         /\ Decimal(r[7]) \in 1..Decimal(LastDay(r[8]))
         /\ DaysBefore[Decimal(r[8])] \in Nat
         /\ DaysBefore[Decimal(r[8])] + Decimal(r[7]) - 1 \in 0..364
<1>1. /\ r[2] \in 0..153 /\ r[3] \in 0..89 /\ r[4] \in 0..89 /\ r[5] \in 0..35
      /\ r[8] \in 1..18
  BY ClockIs
<1>2. \A i \in 1..8 : (r[i] % 16) <= 9
  BY ClockIs, Zenon
<1>3. /\ (r[2] % 16) <= 9 /\ (r[3] % 16) <= 9 /\ (r[4] % 16) <= 9 /\ (r[5] % 16) <= 9
      /\ (r[7] % 16) <= 9 /\ (r[8] % 16) <= 9
  BY <1>2
<1>4. /\ (r[1] \div 16) \in 0..9 /\ r[1] = 16 * (r[1] \div 16)
  <2>1. r[1] \in 0..144 /\ (r[1] % 16) = 0
    BY ClockIs
  <2> QED
    BY <2>1
<1>5. Decimal(r[2]) \in 0..Decimal(153)
  BY <1>1, <1>3, CarryIs, LastValuesAre, Zenon DEF CarryGoes
<1>6. Decimal(r[3]) \in 0..Decimal(89) /\ Decimal(r[4]) \in 0..Decimal(89)
  BY <1>1, <1>3, CarryIs, LastValuesAre, Zenon DEF CarryGoes
<1>7. Decimal(r[5]) \in 0..Decimal(35)
  BY <1>1, <1>3, CarryIs, LastValuesAre, Zenon DEF CarryGoes
<1>8. MonthFits(r[8])
  BY <1>1, <1>3, MonthIs, Zenon
<1>9. r[8] # 18 => MonthFits(Increment(r[8]))
  BY <1>8, MonthIs DEF MonthFits
<1>10. Decimal(r[7]) \in 1..Decimal(LastDay(r[8]))
  <2>1. r[7] \in 1..LastDay(r[8])
    BY ClockIs, Zenon
  <2>2. PICK c \in {49, 48, 40} : c = LastDay(r[8])
    BY <1>8, Zenon DEF MonthFits
  <2>3. /\ r[7] \in 0..255 /\ 1 <= r[7] /\ r[7] <= c
        /\ c \in 0..255 /\ (c % 16) <= 9
    BY <2>1, <2>2
  <2>4. Decimal(r[7]) <= Decimal(c)
    BY <1>3, <2>3, DecimalOrder, Zenon
  <2>5. Decimal(1) <= Decimal(r[7])
    <3>1. 1 \in 0..255 /\ (1 % 16) <= 9
      OBVIOUS
    <3> QED
      BY <1>3, <2>3, <3>1, DecimalOrder, Zenon
  <2>6. Decimal(r[7]) \in 0..165 /\ Decimal(c) \in 0..165
    BY <2>3, DigitsAre, Zenon
  <2>7. Decimal(1) = 1
    BY Decimals, Zenon
  <2> QED
    BY <2>2, <2>4, <2>5, <2>6, <2>7
<1>11. /\ Decimal(r[8]) \in 1..12 /\ DaysBefore[Decimal(r[8])] \in 0..334
       /\ LastDay(r[8]) \in {49, 48, 40}
  BY <1>8, Zenon DEF MonthFits
<1>12. Decimal(LastDay(r[8])) \in Nat
  BY <1>11 DEF Decimal
<1>13. DaysBefore[Decimal(r[8])] + Decimal(LastDay(r[8])) <= 365
  <2>1. CASE r[8] = 18
    BY <1>8, <2>1 DEF MonthFits
  <2>2. CASE r[8] # 18
    <3>1. /\ DaysBefore[Decimal(r[8])] + Decimal(LastDay(r[8]))
               = DaysBefore[Decimal(Increment(r[8]))]
          /\ DaysBefore[Decimal(Increment(r[8]))] \in 0..334
      BY <1>8, <1>9, <2>2, Zenon DEF MonthFits
    <3> QED
      BY <3>1
  <2> QED
    BY <2>1, <2>2
<1>14. DaysBefore[Decimal(r[8])] + Decimal(r[7]) - 1 \in 0..364
  <2> DEFINE x == DaysBefore[Decimal(r[8])]
             y == Decimal(r[7])
             z == Decimal(LastDay(r[8]))
  <2>1. x \in Nat /\ z \in Nat /\ y \in 1..z /\ x + z <= 365
    BY <1>10, <1>11, <1>12, <1>13
  <2> HIDE DEF x, y, z
  <2>2. x + y - 1 \in 0..364
    BY <2>1
  <2> QED
    BY <2>2, Zenon DEF x, y
<1>15. /\ Decimal(r[2]) \in 0..99 /\ Decimal(r[3]) \in 0..59
       /\ Decimal(r[4]) \in 0..59 /\ Decimal(r[5]) \in 0..23
  BY <1>5, <1>6, <1>7, Decimals
<1>16. DaysBefore[Decimal(r[8])] \in Nat
  BY <1>11
<1> QED
  BY <1>4, <1>10, <1>11, <1>14, <1>15, <1>16, Zenon

(* A signal that comes before the last millisecond of a day.                *)
CarriedTo(r, i, t) ==
  /\ t \in Clock
  /\ \A j \in 1..(i - 1) : Advanced(r, j) > Carries[j] /\ t[j] = 0
  /\ t[i] = Advanced(r, i)
  /\ \A j \in (i + 1)..8 : t[j] = r[j]

LEMMA InsideDay ==
  ASSUME NEW r \in Clock, NEW i \in 1..5, i = Reached(r),
         NEW t, t = Ticked(r)
  PROVE  CarriedTo(r, i, t)
<1>1. i \in 1..6 /\ i # 6
  OBVIOUS
<1>0. t = [j \in 1..8 |-> t[j]]
  BY <1>1, TickedIs, Zenon
<1>2. /\ \A j \in 1..(i - 1) : t[j] = 0
      /\ t[i] = Advanced(r, i) /\ \A j \in (i + 1)..8 : t[j] = r[j]
  BY <1>1, TickedIs, Zenon
<1>3. t[i] <= Carries[i]
  BY <1>1, <1>2, ReachedIs, Zenon DEF Carry
<1>4. t[6] = r[6] /\ t[7] = r[7] /\ t[8] = r[8]
  <2>1. 6 \in (i + 1)..8 /\ 7 \in (i + 1)..8 /\ 8 \in (i + 1)..8
    OBVIOUS
  <2> QED
    BY <1>2, <2>1, Zenon
<1>5. Advanced(r, i) \in 1..160 /\ (i = 1 => Advanced(r, i) = r[1] + 16)
      /\ (i # 1 => Advanced(r, i) = Increment(r[i]))
  BY AdvancedIs
<1>6. \A j \in 1..8 : r[j] \in 0..255 /\ (r[j] % 16) <= 9
  BY ClockIs, Zenon
<1>7. (r[1] % 16) = 0 /\ r[1] \in 0..144 /\ \A j \in 1..5 : r[j] <= Carries[j] /\ r[j] \in 0..153
  BY ClockIs, CarriesAre
<1>8. (Advanced(r, i) % 16) <= 9 /\ (i = 1 => (Advanced(r, i) % 16) = 0)
  <2>1. CASE i = 1
    BY <1>5, <1>7, <2>1
  <2>2. CASE i # 1
    <3>1. r[i] \in 0..153 /\ (r[i] % 16) <= 9
      BY <1>6, <1>7
    <3>2. (Increment(r[i]) % 16) <= 9
      BY <3>1, IncrementIs, Zenon
    <3> QED
      BY <1>5, <2>2, <3>2, Zenon
  <2> QED
    BY <2>1, <2>2
<1>9. (0 % 16) = 0
  OBVIOUS
<1>10. \A j \in 1..8 : j \in 1..(i - 1) \/ j = i \/ j \in (i + 1)..8
  OBVIOUS
<1>11. \A j \in 1..8 : t[j] \in 0..255 /\ (t[j] % 16) <= 9
  <2> TAKE j \in 1..8
  <2>1. CASE j \in 1..(i - 1)
    BY <1>2, <1>9, <2>1
  <2>2. CASE j = i
    BY <1>2, <1>5, <1>8, <2>2
  <2>3. CASE j \in (i + 1)..8
    BY <1>2, <1>6, <2>3
  <2> QED
    BY <1>10, <2>1, <2>2, <2>3
<1>12. \A j \in 1..5 : t[j] <= Carries[j]
  <2> TAKE j \in 1..5
  <2>1. Carries[j] \in Nat /\ r[j] <= Carries[j]
    BY <1>7, AdvancedIs, Zenon
  <2>2. CASE j \in 1..(i - 1)
    BY <1>2, <2>1, <2>2
  <2>3. CASE j = i
    BY <1>3, <2>3
  <2>4. CASE j \in (i + 1)..8
    BY <1>2, <2>1, <2>4
  <2> QED
    BY <2>2, <2>3, <2>4
<1>13. (t[1] % 16) = 0
  <2>1. CASE i = 1
    BY <1>2, <1>8, <2>1
  <2>2. CASE i # 1
    <3>1. 1 \in 1..(i - 1)
      BY <2>2
    <3> QED
      BY <1>2, <1>9, <3>1, Zenon
  <2> QED
    BY <2>1, <2>2
<1>14. t \in [1..8 -> 0..255]
  BY <1>0, <1>11, Zenon
<1>15. t[1] <= 144 /\ t[2] <= 153 /\ t[3] <= 89 /\ t[4] <= 89 /\ t[5] <= 35
  BY <1>12, CarriesAre
<1>16. t[6] \in 1..7 /\ t[7] \in 1..LastDay(t[8]) /\ t[8] \in 1..18
  <2>1. r[6] \in 1..7 /\ r[7] \in 1..LastDay(r[8]) /\ r[8] \in 1..18
    BY ClockIs
  <2> QED
    BY <1>4, <2>1
<1>17. t \in Clock
  BY <1>11, <1>13, <1>14, <1>15, <1>16, ToClock, Zenon
<1>18. \A j \in 1..(i - 1) : Advanced(r, j) > Carries[j]
  BY ReachedIs, Zenon DEF Carry
<1> QED
  BY <1>2, <1>17, <1>18, Zenon DEF CarriedTo

(* What a register that moves on, or wraps, does to the numbers.            *)
LEMMA MovedNumbers ==
  ASSUME NEW r \in Clock
  PROVE  /\ (Advanced(r, 1) \div 16) = (r[1] \div 16) + 1
         /\ Decimal(Advanced(r, 2)) = Decimal(r[2]) + 1
         /\ Decimal(Advanced(r, 3)) = Decimal(r[3]) + 1
         /\ Decimal(Advanced(r, 4)) = Decimal(r[4]) + 1
         /\ Decimal(Advanced(r, 5)) = Decimal(r[5]) + 1
<1>1. r[2] \in 0..153 /\ r[3] \in 0..153 /\ r[4] \in 0..153 /\ r[5] \in 0..153
  BY ClockIs
<1>2. (r[2] % 16) <= 9 /\ (r[3] % 16) <= 9 /\ (r[4] % 16) <= 9 /\ (r[5] % 16) <= 9
  BY ClockIs
<1>3. /\ Advanced(r, 1) = r[1] + 16 /\ Advanced(r, 2) = Increment(r[2])
      /\ Advanced(r, 3) = Increment(r[3]) /\ Advanced(r, 4) = Increment(r[4])
      /\ Advanced(r, 5) = Increment(r[5])
  BY AdvancedIs
<1>4. ((r[1] + 16) \div 16) = (r[1] \div 16) + 1
  BY NumbersAre
<1> QED
  BY <1>1, <1>2, <1>3, <1>4, IncrementIs, Zenon

LEMMA WrapNumbers ==
  ASSUME NEW r \in Clock
  PROVE  /\ Advanced(r, 1) > Carries[1] => (r[1] \div 16) = 9
         /\ Advanced(r, 2) > Carries[2] => Decimal(r[2]) = 99
         /\ Advanced(r, 3) > Carries[3] => Decimal(r[3]) = 59
         /\ Advanced(r, 4) > Carries[4] => Decimal(r[4]) = 59
         /\ Advanced(r, 5) > Carries[5] => Decimal(r[5]) = 23
<1>1. r[2] \in 0..153 /\ r[3] \in 0..89 /\ r[4] \in 0..89 /\ r[5] \in 0..35
  BY ClockIs
<1>2. (r[2] % 16) <= 9 /\ (r[3] % 16) <= 9 /\ (r[4] % 16) <= 9 /\ (r[5] % 16) <= 9
  BY ClockIs
<1>3. /\ Advanced(r, 1) = r[1] + 16 /\ Advanced(r, 2) = Increment(r[2])
      /\ Advanced(r, 3) = Increment(r[3]) /\ Advanced(r, 4) = Increment(r[4])
      /\ Advanced(r, 5) = Increment(r[5])
  BY AdvancedIs
<1>4. Advanced(r, 1) > Carries[1] => (r[1] \div 16) = 9
  <2>1. PICK a \in 0..9 : (r[1] \div 16) = a /\ r[1] = 16 * a
    BY NumbersAre, Zenon
  <2>2. 16 * a + 16 > 144 => a = 9
    OBVIOUS
  <2>3. Advanced(r, 1) = 16 * a + 16 /\ Carries[1] = 144
    BY <1>3, <2>1, CarriesAre, Zenon
  <2>4. Advanced(r, 1) > Carries[1] => a = 9
    BY <2>2, <2>3, Zenon
  <2> QED
    BY <2>1, <2>4, Zenon
<1>5. Advanced(r, 2) > Carries[2] => Decimal(r[2]) = Decimal(153)
  <2>1. Increment(r[2]) > 153 => Decimal(r[2]) = Decimal(153)
    BY <1>1, <1>2, CarryIs, LastValuesAre, Zenon DEF CarryGoes
  <2> QED
    BY <1>3, <2>1, CarriesAre, Zenon
<1>6. Advanced(r, 3) > Carries[3] => Decimal(r[3]) = Decimal(89)
  <2>1. Increment(r[3]) > 89 => Decimal(r[3]) = Decimal(89)
    BY <1>1, <1>2, CarryIs, LastValuesAre, Zenon DEF CarryGoes
  <2> QED
    BY <1>3, <2>1, CarriesAre, Zenon
<1>7. Advanced(r, 4) > Carries[4] => Decimal(r[4]) = Decimal(89)
  <2>1. Increment(r[4]) > 89 => Decimal(r[4]) = Decimal(89)
    BY <1>1, <1>2, CarryIs, LastValuesAre, Zenon DEF CarryGoes
  <2> QED
    BY <1>3, <2>1, CarriesAre, Zenon
<1>8. Advanced(r, 5) > Carries[5] => Decimal(r[5]) = Decimal(35)
  <2>1. Increment(r[5]) > 35 => Decimal(r[5]) = Decimal(35)
    BY <1>1, <1>2, CarryIs, LastValuesAre, Zenon DEF CarryGoes
  <2> QED
    BY <1>3, <2>1, CarriesAre, Zenon
<1> QED
  BY <1>4, <1>5, <1>6, <1>7, <1>8, Decimals

(* The milliseconds of a minute.                                            *)
MilliGoesOn(a, b, c, x) ==
  /\ a < 9 => x = c * 1000 + b * 10 + (a + 1) /\ x # 0
  /\ a = 9 /\ b < 99 => x = c * 1000 + (b + 1) * 10 + 0 /\ x # 0
  /\ a = 9 /\ b = 99 /\ c < 59 => x = (c + 1) * 1000 + 0 * 10 + 0 /\ x # 0
  /\ a = 9 /\ b = 99 /\ c = 59 => x = 0

MilliAfter(a, b, c) == (c * 1000 + b * 10 + a + 1) % (60 * 1000)

LEMMA NextMilli ==
  ASSUME NEW a \in 0..9, NEW b \in 0..99, NEW c \in 0..59
  PROVE  MilliGoesOn(a, b, c, MilliAfter(a, b, c))
<1> DEFINE x == MilliAfter(a, b, c)
<1>0. x = ((c * 1000 + b * 10 + a + 1) % (60 * 1000))
  BY Zenon DEF MilliAfter
<1> HIDE DEF x
<1> SUFFICES MilliGoesOn(a, b, c, x)
  BY Zenon DEF x
<1> USE DEF MilliGoesOn
<1>1. CASE a < 9
  <2> DEFINE n == c * 1000 + b * 10 + (a + 1)
  <2>1. n \in Nat /\ n < 60 * 1000 /\ n > 0
    BY <1>1, SMT
  <2>2. c * 1000 + b * 10 + a + 1 = n
    BY SMT
  <2> HIDE DEF n
  <2>3. x = n
    BY <1>0, <2>1, <2>2, SMT
  <2>4. x = c * 1000 + b * 10 + (a + 1) /\ x # 0
    BY <2>1, <2>3, SMT DEF n
  <2> QED
    BY <1>1, <2>4, SMT
<1>2. CASE a = 9 /\ b < 99
  BY <1>0, <1>2, SMT
<1>3. CASE a = 9 /\ b = 99 /\ c < 59
  BY <1>0, <1>3, SMT
<1>4. CASE a = 9 /\ b = 99 /\ c = 59
  BY <1>0, <1>4, SMT
<1> QED
  BY <1>1, <1>2, <1>3, <1>4, SMT

LEMMA InsideMinute ==
  ASSUME NEW r \in Clock, NEW i \in 1..3, i = Reached(r),
         NEW t, t = Ticked(r)
  PROVE  Milli(t) = (Milli(r) + 1) % (60 * 1000) /\ Milli(t) # 0 /\ Minute(t) = Minute(r)
<1>0. CarriedTo(r, i, t)
  <2>1. i \in 1..5
    OBVIOUS
  <2> QED
    BY <2>1, InsideDay, Zenon
<1>1. /\ t \in Clock /\ t[i] = Advanced(r, i)
      /\ \A j \in 1..(i - 1) : Advanced(r, j) > Carries[j] /\ t[j] = 0
      /\ \A j \in (i + 1)..8 : t[j] = r[j]
  BY <1>0, Zenon DEF CarriedTo
<1>2. t[4] = r[4] /\ t[5] = r[5] /\ t[7] = r[7] /\ t[8] = r[8]
  BY <1>1
<1>3. Minute(t) = Minute(r)
  BY <1>2, Zenon DEF Minute
<1> DEFINE a == r[1] \div 16
           b == Decimal(r[2])
           c == Decimal(r[3])
           x == MilliAfter(a, b, c)
<1>4. Milli(r) = c * 1000 + b * 10 + a
  BY SMT DEF Milli
<1>5. Milli(t) = Decimal(t[3]) * 1000 + Decimal(t[2]) * 10 + (t[1] \div 16)
  BY SMT DEF Milli
<1>6. a \in 0..9 /\ b \in 0..99 /\ c \in 0..59
  BY NumbersAre, Zenon
<1>7. Decimal(t[2]) \in 0..99 /\ Decimal(t[3]) \in 0..59 /\ (t[1] \div 16) \in 0..9
  BY <1>1, NumbersAre, Zenon
<1>8. Decimal(0) = 0 /\ (0 \div 16) = 0
  BY Decimals
<1>9. (Milli(r) + 1) % (60 * 1000) = x
  BY <1>4, <1>6, SMT DEF MilliAfter
<1>10. MilliGoesOn(a, b, c, x)
  <2> HIDE DEF a, b, c
  <2> QED
    BY <1>6, NextMilli, Zenon
<1>11. /\ i # 1 => a = 9
       /\ i = 3 => b = 99
  BY <1>1, WrapNumbers
<1>12. CASE i = 1
  <2>1. /\ (t[1] \div 16) = a + 1 /\ Decimal(t[2]) = b /\ Decimal(t[3]) = c
    BY <1>1, <1>12, MovedNumbers
  <2> HIDE DEF a, b, c, x
  <2>2. a < 9
    BY <1>6, <1>7, <2>1
  <2> QED
    BY <1>3, <1>5, <1>9, <1>10, <2>1, <2>2, SMT DEF MilliGoesOn
<1>13. CASE i = 2
  <2>1. /\ (t[1] \div 16) = 0 /\ Decimal(t[2]) = b + 1 /\ Decimal(t[3]) = c
    BY <1>1, <1>8, <1>13, MovedNumbers
  <2> HIDE DEF a, b, c, x
  <2>2. a = 9 /\ b < 99
    BY <1>6, <1>7, <1>11, <1>13, <2>1
  <2> QED
    BY <1>3, <1>5, <1>9, <1>10, <2>1, <2>2, SMT DEF MilliGoesOn
<1>14. CASE i = 3
  <2>1. /\ (t[1] \div 16) = 0 /\ Decimal(t[2]) = 0 /\ Decimal(t[3]) = c + 1
    BY <1>1, <1>8, <1>14, MovedNumbers
  <2> HIDE DEF a, b, c, x
  <2>2. a = 9 /\ b = 99 /\ c < 59
    BY <1>6, <1>7, <1>11, <1>14, <2>1
  <2> QED
    BY <1>3, <1>5, <1>9, <1>10, <2>1, <2>2, SMT DEF MilliGoesOn
<1> QED
  BY <1>12, <1>13, <1>14

DayOf(r) == DaysBefore[Decimal(r[8])] + Decimal(r[7]) - 1

NextOf(r) == (Minute(r) + 1) % (365 * 24 * 60)

IsMidnight(x) == (x % (24 * 60)) = 0

LEMMA MinuteIs ==
  ASSUME NEW r \in Clock
  PROVE  /\ DayOf(r) \in 0..364
         /\ Minute(r) = (DayOf(r) * 24 + Decimal(r[5])) * 60 + Decimal(r[4])
         /\ NextOf(r) = MinuteAfter(DayOf(r), Decimal(r[5]), Decimal(r[4]))
<1>1. DayOf(r) \in 0..364
  BY NumbersAre, Zenon DEF DayOf
<1>2. Minute(r) = (DayOf(r) * 24 + Decimal(r[5])) * 60 + Decimal(r[4])
  BY Zenon DEF Minute, DayOf
<1>3. NextOf(r) = MinuteAfter(DayOf(r), Decimal(r[5]), Decimal(r[4]))
  BY <1>2, Zenon DEF MinuteAfter, NextOf
<1> QED
  BY <1>1, <1>2, <1>3

(* The last millisecond of a minute: the first three registers wrap.        *)
MinuteEnds(r, t) == Milli(t) = 0 /\ Milli(t) = (Milli(r) + 1) % (60 * 1000)

LEMMA MilliWraps ==
  ASSUME NEW r \in Clock, NEW t \in Clock,
         \A j \in 1..3 : Advanced(r, j) > Carries[j] /\ t[j] = 0
  PROVE  MinuteEnds(r, t)
<1>1. (r[1] \div 16) = 9 /\ Decimal(r[2]) = 99 /\ Decimal(r[3]) = 59
  BY WrapNumbers
<1>2. Milli(r) = 59 * 1000 + 99 * 10 + 9
  BY <1>1, SMT DEF Milli
<1>3. Decimal(0) = 0 /\ (0 \div 16) = 0
  BY Decimals
<1>4. t[1] = 0 /\ t[2] = 0 /\ t[3] = 0
  OBVIOUS
<1>5. Decimal(t[3]) = 0 /\ Decimal(t[2]) = 0 /\ (t[1] \div 16) = 0
  BY <1>3, <1>4, Zenon
<1>6. Milli(t) = 0
  BY <1>5, SMT DEF Milli
<1> QED
  BY <1>2, <1>6, SMT DEF MinuteEnds

LEMMA AtMinute ==
  ASSUME NEW r \in Clock, NEW i \in 4..5, i = Reached(r),
         NEW t, t = Ticked(r)
  PROVE  MinuteEnds(r, t) /\ Minute(t) = NextOf(r) /\ ~ IsMidnight(NextOf(r))
<1> SUFFICES ASSUME NEW x, x = NextOf(r)
             PROVE  MinuteEnds(r, t) /\ Minute(t) = x /\ ~ IsMidnight(x)
  BY Zenon
<1>0. CarriedTo(r, i, t)
  <2>1. i \in 1..5
    OBVIOUS
  <2> QED
    BY <2>1, InsideDay, Zenon
<1>1. /\ t \in Clock /\ t[i] = Advanced(r, i)
      /\ \A j \in 1..(i - 1) : Advanced(r, j) > Carries[j] /\ t[j] = 0
      /\ \A j \in (i + 1)..8 : t[j] = r[j]
  BY <1>0, Zenon DEF CarriedTo
<1>2. MinuteEnds(r, t)
  <2>1. \A j \in 1..3 : Advanced(r, j) > Carries[j] /\ t[j] = 0
    <3>1. \A j \in 1..3 : j \in 1..(i - 1)
      OBVIOUS
    <3> QED
      BY <1>1, <3>1, Zenon
  <2> QED
    BY <1>1, <2>1, MilliWraps, Zenon
<1>3. t[7] = r[7] /\ t[8] = r[8]
  BY <1>1
<1>4. DayOf(t) = DayOf(r)
  BY <1>3, Zenon DEF DayOf
<1>5. PICK d \in 0..364 : d = DayOf(r)
  BY MinuteIs, Zenon
<1>6. PICK h \in 0..23 : h = Decimal(r[5])
  BY NumbersAre, Zenon
<1>7. PICK m \in 0..59 : m = Decimal(r[4])
  BY NumbersAre, Zenon
<1>8. MinuteGoesOn(d, h, m, x)
  <2>1. x = MinuteAfter(d, h, m)
    BY <1>5, <1>6, <1>7, MinuteIs, Zenon
  <2> QED
    BY <2>1, NextMinute, Zenon
<1>9. Decimal(t[4]) \in 0..59 /\ Decimal(t[5]) \in 0..23
  BY <1>1, NumbersAre, Zenon
<1>10. Minute(t) = (d * 24 + Decimal(t[5])) * 60 + Decimal(t[4])
  BY <1>1, <1>4, <1>5, MinuteIs, Zenon
<1>11. CASE i = 4
  <2>1. Decimal(t[4]) = m + 1 /\ Decimal(t[5]) = h
    BY <1>1, <1>6, <1>7, <1>11, MovedNumbers
  <2>2. m < 59
    BY <1>9, <2>1
  <2>3. Minute(t) = (d * 24 + h) * 60 + (m + 1)
    BY <1>10, <2>1, Zenon
  <2>4. x = (d * 24 + h) * 60 + m + 1 /\ (x % (24 * 60)) # 0
    BY <1>8, <2>2, Zenon DEF MinuteGoesOn
  <2>5. Minute(t) = x
    BY <2>3, <2>4, SMT
  <2> QED
    BY <1>2, <2>4, <2>5, Zenon DEF IsMidnight
<1>12. CASE i = 5
  <2>1. Decimal(t[4]) = 0 /\ Decimal(t[5]) = h + 1
    BY <1>1, <1>6, <1>12, MovedNumbers, Decimals
  <2>2. m = 59 /\ h < 23
    <3>1. Decimal(r[4]) = 59
      BY <1>1, <1>12, WrapNumbers
    <3> QED
      BY <1>7, <1>9, <2>1, <3>1
  <2>3. Minute(t) = (d * 24 + (h + 1)) * 60 + 0
    BY <1>10, <2>1, Zenon
  <2>4. x = (d * 24 + h) * 60 + m + 1 /\ (x % (24 * 60)) # 0
    BY <1>8, <2>2, Zenon DEF MinuteGoesOn
  <2>5. Minute(t) = x
    BY <2>2, <2>3, <2>4, SMT
  <2> QED
    BY <1>2, <2>4, <2>5, Zenon DEF IsMidnight
<1> QED
  BY <1>11, <1>12

(* The calendar at midnight.                                                *)
WeekGoesOn(w, x) == x \in 1..7 /\ x = (w % 7) + 1

LEMMA NextWeekday ==
  ASSUME NEW w \in 1..7
  PROVE  WeekGoesOn(w, IF Increment(w) = 8 THEN 1 ELSE Increment(w))
<1>1. Increment(w) = w + 1
  BY DEF Increment
<1>2. WeekGoesOn(w, IF w + 1 = 8 THEN 1 ELSE w + 1)
  BY DEF WeekGoesOn
<1> QED
  BY <1>1, <1>2, Zenon

LEMMA DayIs ==
  ASSUME NEW r \in Clock
  PROVE  /\ Day(r)[1] \in 1..7 /\ Day(r)[1] = (r[6] % 7) + 1
         /\ ~ (Increment(r[7]) > LastDay(r[8])) =>
              Day(r)[2] = Increment(r[7]) /\ Day(r)[3] = r[8]
         /\ Increment(r[7]) > LastDay(r[8]) =>
              Day(r)[2] = 1 /\ Day(r)[3] = IF r[8] = 18 THEN 1 ELSE Increment(r[8])
<1> DEFINE w == IF Increment(r[6]) = 8 THEN 1 ELSE Increment(r[6])
           over == Increment(r[7]) > LastDay(r[8])
           m == IF over THEN 1 ELSE Increment(r[7])
           n == CASE ~ over -> r[8]
                  [] over /\ Increment(r[8]) > Bcd(12) -> 1
                  [] OTHER -> Increment(r[8])
<1>1. Day(r) = << w, m, n >>
  BY Zenon DEF Day
<1>2. Day(r)[1] = w /\ Day(r)[2] = m /\ Day(r)[3] = n
  <2> HIDE DEF w, m, n
  <2> QED
    BY <1>1
<1>3. WeekGoesOn(r[6], w)
  <2>1. r[6] \in 1..7
    BY ClockIs, Zenon
  <2> QED
    BY <2>1, NextWeekday, Zenon
<1>4. ~ over => m = Increment(r[7]) /\ n = r[8]
  <2> HIDE DEF over
  <2> QED
    BY SMT
<1>5. over => m = 1 /\ n = IF r[8] = 18 THEN 1 ELSE Increment(r[8])
  <2>1. MonthFits(r[8])
    <3>1. r[8] \in 1..18 /\ (r[8] % 16) <= 9
      BY ClockIs
    <3> QED
      BY <3>1, MonthIs, Zenon
  <2>2. Bcd(12) = 18
    BY Decimals
  <2>3. /\ r[8] = 18 => Increment(r[8]) > Bcd(12)
        /\ r[8] # 18 => ~ (Increment(r[8]) > Bcd(12))
    <3>1. /\ r[8] = 18 => Increment(r[8]) = 19
          /\ r[8] # 18 => Increment(r[8]) \in 1..18
      BY <2>1, Zenon DEF MonthFits
    <3> QED
      BY <2>2, <3>1
  <2> HIDE DEF over
  <2> QED
    BY <2>3, SMT
<1> HIDE DEF w, m, n, over
<1>6. Day(r)[1] \in 1..7 /\ Day(r)[1] = (r[6] % 7) + 1
  BY <1>2, <1>3, Zenon DEF WeekGoesOn
<1>7. ~ over => Day(r)[2] = Increment(r[7]) /\ Day(r)[3] = r[8]
  BY <1>2, <1>4, Zenon
<1>8. over => Day(r)[2] = 1 /\ Day(r)[3] = IF r[8] = 18 THEN 1 ELSE Increment(r[8])
  BY <1>2, <1>5, Zenon
<1> QED
  BY <1>6, <1>7, <1>8, Zenon DEF over

(* The registers stay an instant, and the day of the year is the next one.  *)
DayGoesOn(d, x) == x = IF d = 364 THEN 0 ELSE d + 1

LEMMA NextDay ==
  ASSUME NEW r \in Clock, Reached(r) = 6,
         NEW t, t = Ticked(r)
  PROVE  /\ t \in Clock
         /\ \A j \in 1..5 : t[j] = 0
         /\ t[6] = (r[6] % 7) + 1
         /\ DayGoesOn(DayOf(r), DayOf(t))
<1>1. /\ t = [j \in 1..8 |-> t[j]]
      /\ \A j \in 1..(6 - 1) : t[j] = 0
      /\ \A j \in 6..8 : t[j] = Day(r)[j - 5]
  BY TickedIs
<1>2. t[6] = Day(r)[1] /\ t[7] = Day(r)[2] /\ t[8] = Day(r)[3]
  <2>1. \A j \in 6..8 : t[j] = Day(r)[j - 5]
    BY <1>1, Zenon
  <2> QED
    BY <2>1
<1>3. t[1] = 0 /\ t[2] = 0 /\ t[3] = 0 /\ t[4] = 0 /\ t[5] = 0
  <2>1. \A j \in 1..(6 - 1) : t[j] = 0
    BY <1>1, Zenon
  <2> QED
    BY <2>1
<1>4. t[6] \in 1..7 /\ t[6] = (r[6] % 7) + 1
  BY <1>2, DayIs, Zenon
<1>5. /\ r[8] \in 1..18 /\ (r[8] % 16) <= 9 /\ (r[7] % 16) <= 9 /\ r[7] \in 1..LastDay(r[8])
  BY ClockIs
<1>6. MonthFits(r[8])
  BY <1>5, MonthIs, Zenon
<1>7. PICK c \in {49, 48, 40} : LastDay(r[8]) = c
  BY <1>6, Zenon DEF MonthFits
<1>8. r[7] \in 1..c
  BY <1>5, <1>7, Zenon
<1>9. CarryGoes(c, r[7])
  <2>1. r[7] \in 0..c /\ c \in LastValues
    BY <1>8, LastValuesAre
  <2> QED
    BY <1>5, <2>1, CarryIs, Zenon
<1>10. \A j \in 1..8 : j \in 1..5 \/ j = 6 \/ j = 7 \/ j = 8
  OBVIOUS
<1>11. ASSUME t[7] \in 1..LastDay(t[8]), t[7] \in 0..255, (t[7] % 16) <= 9,
              t[8] \in 1..18, (t[8] % 16) <= 9
       PROVE  t \in Clock
  <2>1. (t[6] % 16) <= 9 /\ t[6] \in 0..255
    BY <1>4
  <2>2. (0 % 16) = 0 /\ (0 % 16) <= 9 /\ 0 \in 0..255 /\ t[8] \in 0..255
    BY <1>11
  <2>3. \A j \in 1..8 : t[j] \in 0..255 /\ (t[j] % 16) <= 9
    <3>1. \A j \in 1..5 : t[j] = 0
      BY <1>1
    <3>2. \A j \in 1..5 : t[j] \in 0..255 /\ (t[j] % 16) <= 9
      BY <2>2, <3>1, Zenon
    <3> TAKE j \in 1..8
    <3>3. CASE j \in 1..5
      BY <3>2, <3>3, Zenon
    <3>4. CASE j = 6
      BY <2>1, <3>4, Zenon
    <3>5. CASE j = 7
      BY <1>11, <3>5, Zenon
    <3>6. CASE j = 8
      BY <1>11, <2>2, <3>6, Zenon
    <3> QED
      BY <1>10, <3>3, <3>4, <3>5, <3>6, Zenon
  <2>4. t \in [1..8 -> 0..255]
    BY <1>1, <2>3, Zenon
  <2>5. t[1] <= 144 /\ t[2] <= 153 /\ t[3] <= 89 /\ t[4] <= 89 /\ t[5] <= 35
    BY <1>3
  <2>6. (t[1] % 16) = 0
    BY <1>3, <2>2, Zenon
  <2> QED
    BY <1>4, <1>11, <2>3, <2>4, <2>5, <2>6, ToClock, Zenon
<1>12. \A j \in 1..5 : t[j] = 0
  BY <1>1
<1>13. PICK d \in 0..364 : DayOf(r) = d
  BY MinuteIs, Zenon
<1>14. PICK b \in Nat : DaysBefore[Decimal(r[8])] = b
  BY NumbersAre, Zenon
<1>15. PICK y \in Nat : Decimal(r[7]) = y
  <2>1. r[7] \in 0..255
    BY ClockIs
  <2>2. Decimal(r[7]) \in 0..165
    BY <2>1, DigitsAre, Zenon
  <2> QED
    BY <2>2
<1>16. d = b + y - 1
  BY <1>13, <1>14, <1>15, Zenon DEF DayOf
<1>17. CASE ~ (Increment(r[7]) > LastDay(r[8]))
  <2>1. t[7] = Increment(r[7]) /\ t[8] = r[8]
    BY <1>2, <1>17, DayIs, Zenon
  <2>2. t[7] \in 1..LastDay(t[8]) /\ t[7] \in 0..255
    BY <1>7, <1>9, <1>17, <2>1 DEF CarryGoes
  <2>3. t \in Clock
    BY <1>5, <1>9, <1>11, <2>1, <2>2, Zenon DEF CarryGoes
  <2>4. PICK e \in 0..364 : DayOf(t) = e
    BY <2>3, MinuteIs, Zenon
  <2>5. Decimal(t[7]) = y + 1 /\ DaysBefore[Decimal(t[8])] = b
    BY <1>9, <1>14, <1>15, <2>1, Zenon DEF CarryGoes
  <2>6. e = b + (y + 1) - 1
    BY <2>4, <2>5, Zenon DEF DayOf
  <2>7. DayGoesOn(d, e)
    BY <1>16, <2>6 DEF DayGoesOn
  <2> QED
    BY <1>4, <1>12, <1>13, <2>3, <2>4, <2>7, Zenon
<1>18. CASE Increment(r[7]) > LastDay(r[8])
  <2>1. t[7] = 1 /\ t[8] = IF r[8] = 18 THEN 1 ELSE Increment(r[8])
    BY <1>2, <1>18, DayIs, Zenon
  <2>2. t[8] \in 1..18 /\ (t[8] % 16) <= 9
    <3>1. r[8] # 18 => Increment(r[8]) \in 1..18 /\ (Increment(r[8]) % 16) <= 9
      BY <1>6, Zenon DEF MonthFits
    <3> QED
      BY <2>1, <3>1
  <2>3. t[7] \in 0..255 /\ (t[7] % 16) <= 9
    BY <2>1
  <2>4. t[7] \in 1..LastDay(t[8])
    <3>1. MonthFits(t[8])
      BY <2>2, MonthIs, Zenon
    <3>2. LastDay(t[8]) \in {49, 48, 40}
      BY <3>1, Zenon DEF MonthFits
    <3> QED
      BY <2>1, <3>2
  <2>5. t \in Clock
    BY <1>11, <2>2, <2>3, <2>4, Zenon
  <2>6. PICK e \in 0..364 : DayOf(t) = e
    BY <2>5, MinuteIs, Zenon
  <2>7. Decimal(LastDay(r[8])) = y
    BY <1>7, <1>9, <1>15, <1>18, Zenon DEF CarryGoes
  <2>8. Decimal(t[7]) = 1
    BY <2>1, Decimals, Zenon
  <2>9. CASE r[8] = 18
    <3>1. b + y = 365
      BY <1>6, <1>14, <2>7, <2>9, Zenon DEF MonthFits
    <3>2. DaysBefore[Decimal(t[8])] = 0
      <4>1. Decimal(t[8]) = 1
        BY <2>1, <2>9, Decimals, Zenon
      <4>2. DaysBefore[1] = 0
        BY DEF DaysBefore
      <4> QED
        BY <4>1, <4>2, Zenon
    <3>3. e = 0 + 1 - 1
      BY <2>6, <2>8, <3>2, Zenon DEF DayOf
    <3>4. DayGoesOn(d, e)
      BY <1>16, <3>1, <3>3 DEF DayGoesOn
    <3> QED
      BY <1>4, <1>12, <1>13, <2>5, <2>6, <3>4, Zenon
  <2>10. CASE r[8] # 18
    <3>1. b + y = DaysBefore[Decimal(Increment(r[8]))]
      BY <1>6, <1>14, <2>7, <2>10, Zenon DEF MonthFits
    <3>2. DaysBefore[Decimal(t[8])] = b + y
      BY <2>1, <2>10, <3>1, Zenon
    <3>3. e = (b + y) + 1 - 1
      BY <2>6, <2>8, <3>2, Zenon DEF DayOf
    <3>4. DayGoesOn(d, e)
      BY <1>16, <3>3 DEF DayGoesOn
    <3> QED
      BY <1>4, <1>12, <1>13, <2>5, <2>6, <3>4, Zenon
  <2> QED
    BY <2>9, <2>10
<1> QED
  BY <1>17, <1>18

LEMMA AtMidnight ==
  ASSUME NEW r \in Clock, Reached(r) = 6,
         NEW t, t = Ticked(r)
  PROVE  MinuteEnds(r, t) /\ Minute(t) = NextOf(r) /\ IsMidnight(NextOf(r))
<1> SUFFICES ASSUME NEW x, x = NextOf(r)
             PROVE  MinuteEnds(r, t) /\ Minute(t) = x /\ IsMidnight(x)
  BY Zenon
<1>1. /\ t \in Clock
      /\ \A j \in 1..5 : t[j] = 0
      /\ DayGoesOn(DayOf(r), DayOf(t))
  BY NextDay, Zenon
<1>2. \A j \in 1..(6 - 1) : Advanced(r, j) > Carries[j]
  BY ReachedIs, Zenon DEF Carry
<1>3. MinuteEnds(r, t)
  <2>1. \A j \in 1..3 : j \in 1..5 /\ j \in 1..(6 - 1)
    OBVIOUS
  <2>2. \A j \in 1..3 : Advanced(r, j) > Carries[j] /\ t[j] = 0
    BY <1>1, <1>2, <2>1, Zenon
  <2> QED
    BY <1>1, <2>2, MilliWraps, Zenon
<1>4. Decimal(r[4]) = 59 /\ Decimal(r[5]) = 23
  <2>1. 4 \in 1..(6 - 1) /\ 5 \in 1..(6 - 1)
    OBVIOUS
  <2> QED
    BY <1>2, <2>1, WrapNumbers, Zenon
<1>5. Decimal(t[4]) = 0 /\ Decimal(t[5]) = 0
  <2>1. t[4] = 0 /\ t[5] = 0
    BY <1>1
  <2> QED
    BY <2>1, Decimals, Zenon
<1>6. PICK d \in 0..364 : DayOf(r) = d
  BY MinuteIs, Zenon
<1>7. MinuteGoesOn(d, 23, 59, x)
  <2>1. x = MinuteAfter(d, 23, 59)
    BY <1>4, <1>6, MinuteIs, Zenon
  <2>2. 23 \in 0..23 /\ 59 \in 0..59
    OBVIOUS
  <2> QED
    BY <2>1, <2>2, NextMinute, Zenon
<1>8. (x % (24 * 60)) = 0 /\ x = IF d = 364 THEN 0 ELSE (d + 1) * 24 * 60
  BY <1>7, Zenon DEF MinuteGoesOn
<1>9. PICK e \in 0..364 : DayOf(t) = e
  BY <1>1, MinuteIs, Zenon
<1>10. DayGoesOn(d, e)
  BY <1>1, <1>6, <1>9, Zenon
<1>11. Minute(t) = (e * 24 + 0) * 60 + 0
  BY <1>1, <1>5, <1>9, MinuteIs, Zenon
<1>12. Minute(t) = x
  BY <1>8, <1>10, <1>11, SMT DEF DayGoesOn
<1> QED
  BY <1>3, <1>8, <1>12, Zenon DEF IsMidnight

(* Each instant of the year is followed by the next one.                    *)
LEMMA EachCounts ==
  ASSUME NEW r \in Clock
  PROVE  Counts(r)
<1>1. PICK t : t = Ticked(r)
  OBVIOUS
<1>2. PICK x : x = NextOf(r)
  OBVIOUS
<1>3. PICK i \in 1..6 : i = Reached(r)
  BY ReachedIs, Zenon
<1>4. SUFFICES /\ t \in Clock
               /\ Milli(t) = (Milli(r) + 1) % (60 * 1000)
               /\ Minute(t) = IF Milli(t) = 0 THEN x ELSE Minute(r)
               /\ t[6] = IF Milli(t) = 0 /\ IsMidnight(x)
                         THEN (r[6] % 7) + 1 ELSE r[6]
  BY <1>1, <1>2, Zenon DEF Counts, NextOf, IsMidnight
<1>5. ASSUME i \in 1..5
      PROVE  t \in Clock /\ t[6] = r[6]
  <2>1. CarriedTo(r, i, t)
    BY <1>1, <1>3, <1>5, InsideDay, Zenon
  <2>2. 6 \in (i + 1)..8
    BY <1>5
  <2> QED
    BY <2>1, <2>2, Zenon DEF CarriedTo
<1>6. CASE i \in 1..3
  <2>1. Milli(t) = (Milli(r) + 1) % (60 * 1000) /\ Milli(t) # 0 /\ Minute(t) = Minute(r)
    BY <1>1, <1>3, <1>6, InsideMinute
  <2>2. i \in 1..5
    BY <1>6
  <2> QED
    BY <1>5, <2>1, <2>2, Zenon
<1>7. CASE i \in 4..5
  <2>1. MinuteEnds(r, t) /\ Minute(t) = x /\ ~ IsMidnight(x)
    BY <1>1, <1>2, <1>3, <1>7, AtMinute, Zenon
  <2>2. i \in 1..5
    BY <1>7
  <2>3. t \in Clock /\ t[6] = r[6]
    BY <1>5, <2>2, Zenon
  <2> QED
    BY <2>1, <2>3, Zenon DEF MinuteEnds
<1>8. CASE i = 6
  <2>1. MinuteEnds(r, t) /\ Minute(t) = x /\ IsMidnight(x)
    BY <1>1, <1>2, <1>3, <1>8, AtMidnight, Zenon
  <2>2. t \in Clock /\ t[6] = (r[6] % 7) + 1
    BY <1>1, <1>3, <1>8, NextDay, Zenon
  <2> QED
    BY <2>1, <2>2, Zenon DEF MinuteEnds
<1> QED
  BY <1>6, <1>7, <1>8

(* Whatever instant of a year the registers hold, the signal of the clock    *)
(* chip moves them on by one millisecond: every register keeps two decimal   *)
(* digits within its range, the carry of ioc_rtc_thread ends where it        *)
(* should, over the end of a minute, day, month and year, and the day of the *)
(* week follows.                                                             *)
THEOREM ClockCounts == Spec => []RtcCounts
<1>1. CountsUp
  BY EachCounts, RtcAssumption, Zenon DEF CountsUp
<1>2. RtcCounts
  BY <1>1, Zenon DEF RtcCounts
<1> QED
  BY <1>2, PTL
=============================================================================
