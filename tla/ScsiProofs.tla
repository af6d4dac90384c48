----------------------------- MODULE ScsiProofs -----------------------------
(***************************************************************************)
(* Theorems about Scsi, for every tape, every disk and every number of     *)
(* resets and writes: the interrupt line, the commands executed, and what  *)
(* the guest believes about the media.                                     *)
(***************************************************************************)
EXTENDS Scsi, SequenceLemmas

Results == [drive : Drive, ret : Int, ok : BOOLEAN]

(* The tape as a sequence of words.                                         *)
Parts == [i \in DOMAIN Items |-> Word(Items[i])]

LEMMA WordIs ==
  ASSUME NEW item \in Seq(Int)
  PROVE  /\ Word(item) \in Seq(Int)
         /\ item = << >> => Len(Word(item)) = 1 /\ Word(item)[1] = 0
         /\ item # << >> =>
              /\ Len(item) \in Nat \ {0} /\ Len(Word(item)) = Len(item) + 2
              /\ Word(item)[1] = Len(item) /\ Word(item)[Len(item) + 2] = Len(item)
              /\ \A i \in 1..Len(item) : Word(item)[i + 1] = item[i]
<1>1. CASE item = << >>
  BY <1>1 DEF Word
<1>2. CASE item # << >>
  <2> DEFINE n == Len(item)
             t == << n >>
             a == t \o item
             w == a \o t
  <2>1. n \in Nat \ {0}
    BY <1>2, EmptySeq
  <2> HIDE DEF n
  <2>2. t \in Seq(Int) /\ Len(t) = 1 /\ t[1] = n
    BY <2>1
  <2> HIDE DEF t
  <2>3. /\ a \in Seq(Int) /\ Len(a) = 1 + n /\ a[1] = n
        /\ \A i \in 1..n : a[1 + i] = item[i]
    <3>1. /\ a \in Seq(Int) /\ Len(a) = Len(t) + Len(item)
          /\ \A i \in 1..Len(t) : a[i] = t[i]
          /\ \A i \in 1..Len(item) : a[Len(t) + i] = item[i]
      <4>1. Joins(Int, a, t, item)
        BY <2>2, ConcatJoins, Zenon
      <4> HIDE DEF a
      <4> QED
        BY <4>1 DEF Joins
    <3>2. 1 \in 1..1
      OBVIOUS
    <3> HIDE DEF a
    <3> QED
      BY <2>2, <3>1, <3>2, Zenon DEF n
  <2> HIDE DEF a
  <2>4. /\ w \in Seq(Int) /\ Len(w) = (1 + n) + 1
        /\ \A i \in 1..(1 + n) : w[i] = a[i]
        /\ \A i \in 1..1 : w[(1 + n) + i] = t[i]
    <3>1. /\ w \in Seq(Int) /\ Len(w) = Len(a) + Len(t)
          /\ \A i \in 1..Len(a) : w[i] = a[i]
          /\ \A i \in 1..Len(t) : w[Len(a) + i] = t[i]
      <4>1. Joins(Int, w, a, t)
        BY <2>2, <2>3, ConcatJoins, Zenon
      <4> HIDE DEF w
      <4> QED
        BY <4>1 DEF Joins
    <3> HIDE DEF w
    <3> QED
      BY <2>2, <2>3, <3>1, Zenon
  <2>5. Word(item) = w
    BY <1>2, Zenon DEF Word, a, n, t
  <2> HIDE DEF w
  <2>6. Len(w) = n + 2 /\ w[1] = n
    BY <2>1, <2>3, <2>4
  <2>7. w[n + 2] = n
    <3>1. (1 + n) + 1 = n + 2 /\ 1 \in 1..1
      BY <2>1
    <3> QED
      BY <2>2, <2>4, <3>1, Zenon
  <2>8. \A i \in 1..n : w[i + 1] = item[i]
    <3> SUFFICES ASSUME NEW i \in 1..n
                 PROVE  w[i + 1] = item[i]
      OBVIOUS
    <3>1. 1 + i = i + 1 /\ 1 + i \in 1..(1 + n)
      BY <2>1
    <3> QED
      BY <2>3, <2>4, <3>1, Zenon
  <2> QED
    BY <1>2, <2>1, <2>4, <2>5, <2>6, <2>7, <2>8 DEF n
<1> QED
  BY <1>1, <1>2

LEMMA PartsType ==
  /\ Parts \in Seq(Seq(Int)) /\ Len(Parts) = Len(Items) /\ Len(Items) \in Nat
  /\ \A i \in 1..Len(Items) : Parts[i] = Word(Items[i]) /\ Items[i] \in Seq(Int)
<1>1. /\ DOMAIN Items = 1..Len(Items) /\ Len(Items) \in Nat
      /\ \A i \in 1..Len(Items) : Items[i] \in Seq(Int)
  BY DevAssumption
<1>2. \A i \in 1..Len(Items) : Word(Items[i]) \in Seq(Int)
  BY <1>1, WordIs, Zenon
<1>3. Parts = [i \in 1..Len(Items) |-> Word(Items[i])]
  BY <1>1, Zenon DEF Parts
<1> QED
  BY <1>1, <1>2, <1>3

LEMMA WordsType ==
  /\ FlattenSeq(Parts) \in Seq(Int)
  /\ Words \in Seq(Int) /\ Len(Words) = Len(FlattenSeq(Parts)) + 1
  /\ \A i \in 1..Len(FlattenSeq(Parts)) : Words[i] = FlattenSeq(Parts)[i]
  /\ Words[Len(FlattenSeq(Parts)) + 1] = Eom
<1> DEFINE f == FlattenSeq(Parts)
<1>1. f \in Seq(Int)
  BY PartsType, FlattenType, Zenon
<1>2. Words = f \o << Eom >>
  BY Zenon DEF Words, Parts
<1>3. Eom \in Int
  BY DevAssumption
<1> HIDE DEF f
<1>4. Words = Append(f, Eom)
  BY <1>1, <1>2, <1>3, AppendIsConcat
<1> QED
  BY <1>1, <1>3, <1>4, AppendProperties DEF f

(* The words of the tape are those of its items in their order, from        *)
(* Offset(k) on those of the one behind the first k, and the end mark.      *)
LEMMA Tape ==
  /\ Len(Items) \in Nat /\ Len(Words) \in Nat /\ Offset(0) = 0
  /\ \A k \in 0..Len(Items) : Offset(k) \in Nat /\ Offset(k) < Len(Words)
  /\ \A k \in 0..Len(Items) : k < Len(Items) =>
       /\ Offset(k + 1) = Offset(k) + Len(Word(Items[k + 1]))
       /\ \A i \in 1..Len(Word(Items[k + 1])) :
            Words[Offset(k) + i] = Word(Items[k + 1])[i]
  /\ Words[Offset(Len(Items)) + 1] = Eom
<1> DEFINE N == Len(Items)
           F == FlattenSeq(Parts)
<1>1. /\ N \in Nat /\ Parts \in Seq(Seq(Int)) /\ Len(Parts) = N
      /\ \A i \in 1..N : Parts[i] = Word(Items[i]) /\ Items[i] \in Seq(Int)
  BY PartsType
<1>2. /\ F \in Seq(Int) /\ Len(F) \in Nat /\ Len(Words) = Len(F) + 1
      /\ \A i \in 1..Len(F) : Words[i] = F[i]
      /\ Words[Len(F) + 1] = Eom
  <2>1. F \in Seq(Int) /\ Len(F) \in Nat
    BY WordsType, LenProperties
  <2> QED
    BY <2>1, WordsType, Zenon
<1> HIDE DEF N
<1>3. PICK f : Sums(Int, Parts, Len(Parts), f)
  BY <1>1, SumsExist, Zenon
<1>4. \A k \in 0..N : FlattenSeq([i \in 1..k |-> Parts[i]]) = f[k] /\ f[k] \in Seq(Int)
  BY <1>1, <1>3, FlattenFirst, Zenon
<1>5. \A k \in 0..N : Offset(k) = Len(f[k]) /\ Offset(k) \in Nat
  <2> SUFFICES ASSUME NEW k \in 0..N
               PROVE  Offset(k) = Len(f[k]) /\ Offset(k) \in Nat
    OBVIOUS
  <2>1. \A i \in 1..k : Parts[i] = Word(Items[i])
    <3>1. \A i \in 1..k : i \in 1..N
      BY <1>1
    <3> QED
      BY <1>1, <3>1, Zenon
  <2>2. [i \in 1..k |-> Word(Items[i])] = [i \in 1..k |-> Parts[i]]
    BY <2>1, Zenon
  <2>3. Offset(k) = Len(f[k])
    BY <1>4, <2>2, Zenon DEF Offset
  <2>4. Len(f[k]) \in Nat
    BY <1>4, LenProperties, Zenon
  <2> QED
    BY <2>3, <2>4, Zenon
<1>6. F = f[N]
  BY <1>1, <1>3, FlattenIs, Zenon
<1>7. \A k \in 0..N : Begins(F, f[k])
  BY <1>1, <1>3, <1>6, SumsBegin, Zenon
<1> HIDE DEF F
<1>8. \A k \in 0..N : Offset(k) < Len(Words)
  <2> SUFFICES ASSUME NEW k \in 0..N
               PROVE  Offset(k) < Len(Words)
    OBVIOUS
  <2>1. Offset(k) <= Len(F) /\ Offset(k) \in Nat
    BY <1>5, <1>7, Zenon DEF Begins
  <2> QED
    BY <1>2, <2>1
<1>9. ASSUME NEW k \in 0..N, k < N
      PROVE  /\ Offset(k + 1) = Offset(k) + Len(Word(Items[k + 1]))
             /\ \A i \in 1..Len(Word(Items[k + 1])) :
                  Words[Offset(k) + i] = Word(Items[k + 1])[i]
  <2> DEFINE w == Word(Items[k + 1])
             h == Offset(k)
             g == Offset(k + 1)
  <2>1. k + 1 \in 0..N /\ k + 1 \in 1..N /\ (k + 1) - 1 = k
    BY <1>1, <1>9
  <2>2. Parts[k + 1] = w /\ w \in Seq(Int)
    BY <1>1, <2>1, WordIs, Zenon
  <2>3. f[k + 1] = f[k] \o w
    <3>1. f[k + 1] = f[(k + 1) - 1] \o Parts[k + 1]
      BY <1>1, <1>3, <2>1, Zenon DEF Sums
    <3> QED
      BY <2>1, <2>2, <3>1, Zenon
  <2> HIDE DEF w
  <2>4. Joins(Int, f[k + 1], f[k], w)
    <3>1. f[k] \in Seq(Int)
      BY <1>4, Zenon
    <3>2. Joins(Int, f[k] \o w, f[k], w)
      BY <2>2, <3>1, ConcatJoins, Zenon
    <3> QED
      BY <2>3, <3>2, Zenon
  <2>5. /\ h = Len(f[k]) /\ g = Len(f[k + 1]) /\ h \in Nat /\ g \in Nat
        /\ Len(w) \in Nat
    BY <1>5, <2>1, <2>2, LenProperties, Zenon
  <2>6. g = h + Len(w) /\ \A i \in 1..Len(w) : f[k + 1][h + i] = w[i]
    BY <2>4, <2>5, Zenon DEF Joins
  <2>7. g <= Len(F) /\ \A i \in 1..g : F[i] = f[k + 1][i]
    BY <1>7, <2>1, <2>5, Zenon DEF Begins
  <2> HIDE DEF h, g
  <2>8. \A i \in 1..Len(w) : Words[h + i] = w[i]
    <3> SUFFICES ASSUME NEW i \in 1..Len(w)
                 PROVE  Words[h + i] = w[i]
      OBVIOUS
    <3>1. h + i \in 1..g /\ h + i \in 1..Len(F)
      BY <1>2, <2>5, <2>6, <2>7
    <3> QED
      BY <1>2, <2>6, <2>7, <3>1, Zenon
  <2> QED
    BY <2>6, <2>8, Zenon DEF w, h, g
<1>10. Offset(0) = 0
  <2>1. 0 \in 0..N /\ f[0] = << >>
    BY <1>1, <1>3 DEF Sums
  <2> QED
    BY <1>5, <2>1
<1>11. Words[Offset(N) + 1] = Eom
  <2>1. N \in 0..N
    BY <1>1
  <2>2. Offset(N) = Len(F)
    BY <1>5, <1>6, <2>1, Zenon
  <2> QED
    BY <1>2, <2>2, Zenon
<1>12. Len(Words) \in Nat
  BY <1>2
<1> QED
  BY <1>1, <1>5, <1>8, <1>9, <1>10, <1>11, <1>12, Zenon DEF N

-----------------------------------------------------------------------------
(* The drives.                                                              *)

LEMMA RamType ==
  ASSUME NEW s \in Seq(Int), NEW m \in Nat, NEW n \in Int, n <= Len(s)
  PROVE  SubSeq(s, m + 1, n) \in Memory
<1>1. \A i \in (m + 1)..n : s[i] \in Int
  OBVIOUS
<1> QED
  BY <1>1, SubSeqProperties DEF Memory

(* A drive with this head, sense and map, and this memory; and what a       *)
(* function leaves that ends with it.                                       *)
At(d, h, s, m, p) ==
  d \in Drive /\ d.head = h /\ d.sense = s /\ d.ram = m /\ d.map = p

Ends(r, i, h, s, m, p) ==
  r \in Results /\ r.ret = i /\ r.ok = TRUE /\ At(r.drive, h, s, m, p)

LEMMA DriveIs ==
  ASSUME NEW d \in Drive
  PROVE  /\ d.head \in Int /\ d.sense \in Int /\ d.ram \in Memory /\ d.map \in Sectors
         /\ At(d, d.head, d.sense, d.ram, d.map)
BY DEF Drive, At

LEMMA AssertsIs ==
  ASSUME NEW d \in Drive
  PROVE  Asserts(d) \in Results /\ Asserts(d).drive = d /\ Asserts(d).ok = FALSE
BY DEF Asserts, Results

LEMMA ReturnsIs ==
  ASSUME NEW d, NEW i \in Int, NEW h, NEW s, NEW m, NEW p, At(d, h, s, m, p)
  PROVE  Ends(Returns(d, i), i, h, s, m, p)
<1>1. /\ Returns(d, i) \in Results /\ Returns(d, i).drive = d
      /\ Returns(d, i).ret = i /\ Returns(d, i).ok = TRUE
  BY DEF Returns, Results, At
<1>2. At(Returns(d, i).drive, h, s, m, p)
  BY <1>1, Zenon
<1> QED
  BY <1>1, <1>2, Zenon DEF Ends

(* What changes of a drive.                                                 *)
LEMMA HeadChanged ==
  ASSUME NEW d \in Drive, NEW h \in Int
  PROVE  At([d EXCEPT !.head = h], h, d.sense, d.ram, d.map)
BY DEF Drive, At

LEMMA SenseChanged ==
  ASSUME NEW d \in Drive, NEW s \in Int
  PROVE  At([d EXCEPT !.sense = s], d.head, s, d.ram, d.map)
BY DEF Drive, At

LEMMA RamChanged ==
  ASSUME NEW d \in Drive, NEW m \in Memory
  PROVE  At([d EXCEPT !.ram = m], d.head, d.sense, m, d.map)
BY DEF Drive, At

LEMMA MapChanged ==
  ASSUME NEW d \in Drive, NEW p \in Sectors
  PROVE  At([d EXCEPT !.map = p], d.head, d.sense, d.ram, p)
BY DEF Drive, At

LEMMA Moved ==
  ASSUME NEW d \in Drive, NEW h \in Int, NEW s \in Int
  PROVE  At([d EXCEPT !.head = h, !.sense = s], h, s, d.ram, d.map)
BY DEF Drive, At

LEMMA MovedWithData ==
  ASSUME NEW d \in Drive, NEW h \in Int, NEW s \in Int, NEW m \in Memory
  PROVE  At([d EXCEPT !.head = h, !.sense = s, !.ram = m], h, s, m, d.map)
BY DEF Drive, At

(* What each function of the tape leaves.                                   *)
LEMMA NothingIs ==
  ASSUME NEW d \in Drive
  PROVE  Ends(Nothing(d), 0, d.head, d.sense, d.ram, d.map)
<1>1. 0 \in Int
  OBVIOUS
<1> QED
  BY <1>1, DriveIs, ReturnsIs, Zenon DEF Nothing

LEMMA RewindIs ==
  ASSUME NEW d \in Drive
  PROVE  Ends(Rewind(d), 0, 0, d.sense, d.ram, d.map)
<1>1. 0 \in Int
  OBVIOUS
<1> QED
  BY <1>1, HeadChanged, ReturnsIs, Zenon DEF Rewind

LEMMA RequestSenseIs ==
  ASSUME NEW d \in Drive, NEW count, count # 0
  PROVE  Ends(RequestSense(d, count), 0, d.head, d.sense, << d.sense >>, d.map)
<1> DEFINE ram == << d.sense >>
           e == [d EXCEPT !.ram = ram]
<1>1. 0 \in Int
  OBVIOUS
<1>2. ram \in Memory
  BY DriveIs DEF Memory
<1>3. RequestSense(d, count) = Returns(e, 0)
  BY Zenon DEF RequestSense
<1> HIDE DEF ram
<1>4. Ends(Returns(e, 0), 0, d.head, d.sense, ram, d.map)
  BY <1>1, <1>2, RamChanged, ReturnsIs, Zenon
<1> HIDE DEF e
<1> QED
  BY <1>3, <1>4, Zenon DEF ram

LEMMA SpaceIs ==
  ASSUME NEW d \in Drive
  PROVE  Ends(Space(d), 0, d.head - 1, 0, d.ram, d.map)
<1> DEFINE h == d.head - 1
           e == [d EXCEPT !.head = h, !.sense = 0]
<1>1. 0 \in Int /\ h \in Int
  BY DriveIs
<1>2. Space(d) = Returns(e, 0)
  BY Zenon DEF Space
<1> HIDE DEF h
<1>3. Ends(Returns(e, 0), 0, h, 0, d.ram, d.map)
  BY <1>1, Moved, ReturnsIs, Zenon
<1> HIDE DEF e
<1> QED
  BY <1>2, <1>3, Zenon DEF h

(* Reading the tape: the head stands on a mark, at the end, at a record, or *)
(* nowhere.                                                                 *)
LEMMA ReadMark ==
  ASSUME NEW d \in Drive, NEW count, count # 0,
         d.head \in 0..(Len(Words) - 1), Words[d.head + 1] = 0
  PROVE  Ends(ReadTape(d, count), -1, d.head + 1, AtMark, d.ram, d.map)
<1> DEFINE h == d.head + 1
           e == [d EXCEPT !.head = h, !.sense = AtMark]
<1>1. h \in Int /\ AtMark \in Int /\ -1 \in Int
  BY DriveIs DEF AtMark
<1>2. 0 # Eom /\ ~ Framed(d.head, 0)
  BY DevAssumption DEF Framed
<1>3. ReadTape(d, count) = Returns(e, -1)
  BY <1>2, Zenon DEF ReadTape
<1> HIDE DEF h
<1>4. Ends(Returns(e, -1), -1, h, AtMark, d.ram, d.map)
  BY <1>1, Moved, ReturnsIs, Zenon
<1> HIDE DEF e
<1> QED
  BY <1>3, <1>4, Zenon DEF h

LEMMA ReadEom ==
  ASSUME NEW d \in Drive, NEW count, count # 0,
         d.head \in 0..(Len(Words) - 1), Words[d.head + 1] = Eom
  PROVE  Ends(ReadTape(d, count), -1, d.head, AtEom, d.ram, d.map)
<1> DEFINE e == [d EXCEPT !.sense = AtEom]
<1>1. AtEom \in Int /\ -1 \in Int
  BY DEF AtEom
<1>2. 0 # Eom /\ ~ Framed(d.head, Eom)
  BY DevAssumption DEF Framed
<1>3. ReadTape(d, count) = Returns(e, -1)
  BY <1>2, Zenon DEF ReadTape
<1>4. Ends(Returns(e, -1), -1, d.head, AtEom, d.ram, d.map)
  BY <1>1, SenseChanged, ReturnsIs, Zenon
<1> QED
  BY <1>3, <1>4, Zenon

LEMMA ReadRecord ==
  ASSUME NEW d \in Drive, NEW count, count # 0, NEW len, len <= count,
         d.head \in 0..(Len(Words) - 1), Words[d.head + 1] = len,
         Framed(d.head, len)
  PROVE  Ends(ReadTape(d, count), MaxLen - len, d.head + len + 2, 0,
              SubSeq(Words, d.head + 2, d.head + 1 + len), d.map)
<1> DEFINE h == d.head + len + 2
           m == SubSeq(Words, d.head + 2, d.head + 1 + len)
           e == [d EXCEPT !.head = h, !.sense = 0, !.ram = m]
           left == MaxLen - len
<1>1. /\ len \in 1..MaxLen /\ d.head + len + 2 <= Len(Words) /\ d.head \in Nat
      /\ MaxLen \in Nat /\ Eom \in Nat /\ Eom > MaxLen /\ Len(Words) \in Nat
  BY DevAssumption, WordsType DEF Framed
<1>2. /\ h \in Int /\ left \in Int /\ 0 \in Int /\ len # 0 /\ len # Eom
      /\ d.head + 1 \in Nat /\ d.head + 1 + len \in Int
      /\ d.head + 1 + len <= Len(Words) /\ (d.head + 1) + 1 = d.head + 2
  BY <1>1
<1>3. m \in Memory
  <2> DEFINE from == d.head + 1
             to == d.head + 1 + len
  <2>1. SubSeq(Words, from + 1, to) \in Memory
    <3>1. from \in Nat /\ to \in Int /\ to <= Len(Words) /\ Words \in Seq(Int)
      BY <1>2, WordsType, Zenon
    <3> HIDE DEF from, to
    <3> QED
      BY <3>1, RamType, Zenon
  <2> QED
    BY <1>2, <2>1, Zenon
<1>4. ReadTape(d, count) = Returns(e, left)
  <2>1. ~ (Words[d.head + 1] = 0) /\ ~ (Words[d.head + 1] = Eom)
        /\ Framed(d.head, Words[d.head + 1]) /\ len = Words[d.head + 1]
        /\ Words[d.head + 1] <= count
    BY <1>2, Zenon
  <2> QED
    BY <2>1 DEF ReadTape
<1> HIDE DEF h, m, left
<1>5. Ends(Returns(e, left), left, h, 0, m, d.map)
  BY <1>2, <1>3, MovedWithData, ReturnsIs, Zenon
<1> HIDE DEF e
<1> QED
  BY <1>4, <1>5, Zenon DEF h, m, left

(* Whatever a function does, the map of a tape is as before.                *)
Fits(r, d) == r \in Results /\ r.drive.map = d.map

LEMMA EndsIs ==
  ASSUME NEW d, NEW r, NEW i, NEW h, NEW s, NEW m, Ends(r, i, h, s, m, d.map)
  PROVE  Fits(r, d)
BY DEF Ends, At, Fits

LEMMA ReadTapeType ==
  ASSUME NEW d \in Drive, NEW count
  PROVE  Fits(ReadTape(d, count), d)
<1> DEFINE len == Words[d.head + 1]
<1>1. Fits(Asserts(d), d)
  BY AssertsIs, Zenon DEF Fits
<1>2. CASE count = 0
  <2>1. ReadTape(d, count) = Nothing(d)
    BY <1>2, Zenon DEF ReadTape, Nothing
  <2> QED
    BY <2>1, NothingIs, EndsIs, Zenon
<1>3. CASE count # 0 /\ d.head \notin 0..(Len(Words) - 1)
  BY <1>1, <1>3, Zenon DEF ReadTape
<1>4. CASE count # 0 /\ d.head \in 0..(Len(Words) - 1)
  <2>1. CASE len = 0
    BY <1>4, <2>1, ReadMark, EndsIs, Zenon
  <2>2. CASE len = Eom
    BY <1>4, <2>2, ReadEom, EndsIs, Zenon
  <2>3. CASE Framed(d.head, len) /\ len <= count
    BY <1>4, <2>3, ReadRecord, EndsIs, Zenon
  <2>4. CASE len # 0 /\ len # Eom /\ ~ (Framed(d.head, len) /\ len <= count)
    <3>1. ReadTape(d, count) = Asserts(d)
      BY <1>4, <2>4, Zenon DEF ReadTape
    <3> QED
      BY <1>1, <3>1, Zenon
  <2> QED
    BY <2>1, <2>2, <2>3, <2>4, Zenon
<1> QED
  BY <1>2, <1>3, <1>4, Zenon

LEMMA TapeType ==
  ASSUME NEW d \in Drive, NEW c, c.f \in TapeFuncs, NEW count
  PROVE  Fits(TapeFunc(d, c, count), d)
<1>1. CASE c.f = "ready"
  <2>1. TapeFunc(d, c, count) = Nothing(d)
    BY <1>1 DEF TapeFunc
  <2> QED
    BY <2>1, NothingIs, EndsIs, Zenon
<1>2. CASE c.f = "rewind"
  <2>1. TapeFunc(d, c, count) = Rewind(d)
    BY <1>2 DEF TapeFunc
  <2> QED
    BY <2>1, RewindIs, EndsIs, Zenon
<1>3. CASE c.f = "sense"
  <2>1. TapeFunc(d, c, count) = RequestSense(d, count)
    BY <1>3 DEF TapeFunc
  <2>2. CASE count = 0
    <3>1. RequestSense(d, count) = Asserts(d)
      BY <2>2, Zenon DEF RequestSense
    <3> QED
      BY <2>1, <3>1, AssertsIs, Zenon DEF Fits
  <2>3. CASE count # 0
    BY <2>1, <2>3, RequestSenseIs, EndsIs, Zenon
  <2> QED
    BY <2>2, <2>3, Zenon
<1>4. CASE c.f = "read"
  <2>1. TapeFunc(d, c, count) = ReadTape(d, count)
    BY <1>4 DEF TapeFunc
  <2> QED
    BY <2>1, ReadTapeType, Zenon
<1>5. CASE c.f = "space"
  <2>1. TapeFunc(d, c, count) = Space(d)
    BY <1>5 DEF TapeFunc
  <2> QED
    BY <2>1, SpaceIs, EndsIs, Zenon
<1> QED
  BY <1>1, <1>2, <1>3, <1>4, <1>5, Zenon DEF TapeFuncs

LEMMA Window ==
  ASSUME NEW s \in Seq(Int), NEW h \in Nat, NEW n \in Nat, h + 1 + n <= Len(s)
  PROVE  /\ SubSeq(s, h + 2, h + 1 + n) \in Seq(Int)
         /\ Len(SubSeq(s, h + 2, h + 1 + n)) = n
         /\ \A i \in 1..n : SubSeq(s, h + 2, h + 1 + n)[i] = s[h + (i + 1)]
<1> DEFINE from == h + 2
           to == h + 1 + n
           b == SubSeq(s, from, to)
<1>1. /\ from \in Int /\ to \in Int /\ to - from + 1 = n
      /\ n = IF from <= to THEN to - from + 1 ELSE 0
      /\ \A i \in 1..n : from + i - 1 = h + (i + 1)
  OBVIOUS
<1>2. \A i \in from..to : s[i] \in Int
  OBVIOUS
<1> HIDE DEF from, to
<1>3. /\ b \in Seq(Int) /\ Len(b) = IF from <= to THEN to - from + 1 ELSE 0
      /\ \A i \in 1..(to - from + 1) : b[i] = s[from + i - 1]
  BY <1>1, <1>2, SubSeqProperties
<1> HIDE DEF b
<1>4. b \in Seq(Int) /\ Len(b) = n
  BY <1>1, <1>3
<1>5. \A i \in 1..n : b[i] = s[h + (i + 1)]
  BY <1>1, <1>3, Zenon
<1> QED
  BY <1>4, <1>5, Zenon DEF from, to, b

(* What a read brings that starts behind the first k items.                 *)
LEMMA ReadItem ==
  ASSUME NEW d \in Drive, NEW count, count = MaxLen,
         NEW k \in 0..Len(Items), d.head = Offset(k)
  PROVE  /\ k < Len(Items) /\ Items[k + 1] = << >> =>
              Ends(ReadTape(d, count), -1, Offset(k + 1), AtMark, d.ram, d.map)
         /\ k < Len(Items) /\ Items[k + 1] # << >> =>
              \E i \in Nat : Ends(ReadTape(d, count), i, Offset(k + 1), 0, Items[k + 1], d.map)
         /\ k = Len(Items) =>
              Ends(ReadTape(d, count), -1, Offset(k), AtEom, d.ram, d.map)
<1> DEFINE h == Offset(k)
           item == Items[k + 1]
<1>0. count # 0
  BY DevAssumption
<1>1. /\ h \in Nat /\ h < Len(Words) /\ Len(Words) \in Nat /\ Len(Items) \in Nat
      /\ k \in Nat
  BY Tape
<1>2. d.head \in 0..(Len(Words) - 1) /\ h + 1 \in Nat
  BY <1>1
<1>3. k < Len(Items) =>
        /\ item \in Seq(Int) /\ Len(item) <= MaxLen
        /\ Offset(k + 1) = h + Len(Word(item)) /\ Offset(k + 1) < Len(Words)
        /\ \A i \in 1..Len(Word(item)) : Words[h + i] = Word(item)[i]
  <2> SUFFICES ASSUME k < Len(Items)
               PROVE  /\ item \in Seq(Int) /\ Len(item) <= MaxLen
                      /\ Offset(k + 1) = h + Len(Word(item)) /\ Offset(k + 1) < Len(Words)
                      /\ \A i \in 1..Len(Word(item)) : Words[h + i] = Word(item)[i]
    OBVIOUS
  <2>1. k + 1 \in 1..Len(Items) /\ k + 1 \in 0..Len(Items)
    BY <1>1
  <2>2. DOMAIN Items = 1..Len(Items)
    BY DevAssumption
  <2>3. item \in Seq(Int) /\ Len(item) <= MaxLen
    BY <2>1, <2>2, PartsType, DevAssumption, Zenon
  <2>4. Offset(k + 1) < Len(Words)
    BY <2>1, Tape, Zenon
  <2>5. /\ Offset(k + 1) = h + Len(Word(item))
        /\ \A i \in 1..Len(Word(item)) : Words[h + i] = Word(item)[i]
    BY Tape, Zenon
  <2> QED
    BY <2>3, <2>4, <2>5, Zenon
<1>4. ASSUME k < Len(Items), item = << >>
      PROVE  Ends(ReadTape(d, count), -1, Offset(k + 1), AtMark, d.ram, d.map)
  <2>1. Len(Word(item)) = 1 /\ Word(item)[1] = 0
    BY <1>3, <1>4, WordIs, Zenon
  <2>2. 1 \in 1..1
    OBVIOUS
  <2>3. Words[h + 1] = 0 /\ Offset(k + 1) = h + 1
    BY <1>3, <1>4, <2>1, <2>2, Zenon
  <2>4. Words[d.head + 1] = 0 /\ Offset(k + 1) = d.head + 1
    BY <2>3, Zenon
  <2>5. Ends(ReadTape(d, count), -1, d.head + 1, AtMark, d.ram, d.map)
    BY <1>0, <1>2, <2>4, ReadMark, Zenon
  <2> QED
    BY <2>4, <2>5, Zenon
<1>5. ASSUME k < Len(Items), item # << >>
      PROVE  \E i \in Nat : Ends(ReadTape(d, count), i, Offset(k + 1), 0, item, d.map)
  <2> DEFINE n == Len(item)
             w == Word(item)
  <2>1. /\ n \in Nat \ {0} /\ n <= MaxLen /\ Len(w) = n + 2 /\ w[1] = n /\ w[n + 2] = n
        /\ \A i \in 1..n : w[i + 1] = item[i]
    BY <1>3, <1>5, WordIs, Zenon
  <2>2. /\ Offset(k + 1) = h + Len(w) /\ Offset(k + 1) < Len(Words)
        /\ \A i \in 1..Len(w) : Words[h + i] = w[i]
    BY <1>3, <1>5, Zenon
  <2>3. item \in Seq(Int)
    BY <1>3, <1>5, Zenon
  <2> HIDE DEF w, h, item, n
  <2>4. 1 \in 1..Len(w) /\ n + 2 \in 1..Len(w)
    BY <2>1
  <2>5. Words[h + 1] = n /\ Words[h + (n + 2)] = n
    BY <2>1, <2>2, <2>4, Zenon
  <2>6. /\ h + (n + 2) = h + n + 2 /\ Offset(k + 1) = h + n + 2
        /\ h + n + 2 <= Len(Words) /\ n \in 1..MaxLen /\ MaxLen - n \in Nat
    BY <1>1, <2>1, <2>2, DevAssumption
  <2>7. h = d.head
    BY Zenon DEF h
  <2>8. Words[d.head + 1] = n /\ Framed(d.head, n)
    <3>1. Words[h + n + 2] = n
      BY <2>5, <2>6, Zenon
    <3> QED
      BY <2>5, <2>6, <2>7, <3>1, Zenon DEF Framed
  <2> DEFINE m == SubSeq(Words, d.head + 2, d.head + 1 + n)
  <2>9. Ends(ReadTape(d, count), MaxLen - n, d.head + n + 2, 0, m, d.map)
    BY <1>0, <1>2, <2>1, <2>8, ReadRecord, Zenon
  <2>10. m = item
    <3> DEFINE b == SubSeq(Words, h + 2, h + 1 + n)
    <3>1. h \in Nat /\ n \in Nat /\ h + 1 + n <= Len(Words) /\ Words \in Seq(Int)
      <4>1. Words \in Seq(Int)
        BY WordsType, Zenon
      <4>2. h \in Nat /\ n \in Nat /\ h + 1 + n <= Len(Words)
        BY <1>1, <2>1, <2>6
      <4> QED
        BY <4>1, <4>2, Zenon
    <3>2. /\ b \in Seq(Int) /\ Len(b) = n
          /\ \A i \in 1..n : b[i] = Words[h + (i + 1)]
      BY <3>1, Window, Zenon
    <3> HIDE DEF b
    <3>5. ASSUME NEW i \in 1..n
          PROVE  b[i] = item[i]
      <4>1. i + 1 \in 1..Len(w)
        BY <2>1
      <4>2. b[i] = Words[h + (i + 1)]
        BY <3>2, Zenon
      <4> QED
        BY <2>1, <2>2, <4>1, <4>2, Zenon
    <3>6. b = item
      BY <2>3, <3>2, <3>5, SeqEqual DEF n
    <3> QED
      BY <2>7, <3>6, Zenon DEF b
  <2> HIDE DEF m
  <2>11. d.head + n + 2 = Offset(k + 1)
    BY <2>6, <2>7, Zenon
  <2>12. Ends(ReadTape(d, count), MaxLen - n, Offset(k + 1), 0, item, d.map)
    BY <2>9, <2>10, <2>11, Zenon
  <2> QED
    BY <2>6, <2>12, Zenon
<1>6. ASSUME k = Len(Items)
      PROVE  Ends(ReadTape(d, count), -1, Offset(k), AtEom, d.ram, d.map)
  <2>1. Words[d.head + 1] = Eom
    BY <1>6, Tape, Zenon
  <2> QED
    BY <1>0, <1>2, <2>1, ReadEom, Zenon
<1> QED
  BY <1>4, <1>5, <1>6, Zenon

-----------------------------------------------------------------------------
(* What the functions of the disk leave.                                    *)

LEMMA KnownIs ==
  ASSUME NEW u \in Kinds, NEW c \in Known(u)
  PROVE  /\ c.f # "reset" /\ c.lba \in Nat /\ c.n \in Nat
         /\ u = "disk" /\ c.f \in {"read", "write"} => c.lba + c.n <= NSectors
         /\ u = "disk" /\ c.f = "page" => c.n > 0
<1>1. NoCdb.f = "ready" /\ NoCdb.lba \in Nat /\ NoCdb.n \in Nat
  BY DEF NoCdb
<1>2. \A b \in Cdbs[u] : b.f # "reset" /\ b.lba \in Nat /\ b.n \in Nat
  <2>1. Cdbs[u] \in SUBSET [f : STRING, lba : Nat, n : Nat] /\ \A b \in Cdbs[u] : b.f # "reset"
    BY ScsiAssumption, Zenon DEF Kinds
  <2> QED
    BY <2>1
<1>3. c.f # "reset" /\ c.lba \in Nat /\ c.n \in Nat
  BY <1>1, <1>2 DEF Known
<1>4. ASSUME u = "disk", c.f \in {"read", "write"}
      PROVE  c.lba + c.n <= NSectors
  <2>1. c \in Cdbs["disk"]
    <3>1. c # NoCdb
      BY <1>1, <1>4
    <3> QED
      BY <1>4, <3>1, Zenon DEF Known
  <2> QED
    BY <1>4, <2>1, ScsiAssumption, Zenon
<1>5. ASSUME u = "disk", c.f = "page"
      PROVE  c.n > 0
  <2>1. c \in Cdbs["disk"]
    <3>1. c # NoCdb
      BY <1>1, <1>5
    <3> QED
      BY <1>5, <3>1, Zenon DEF Known
  <2> QED
    BY <1>5, <2>1, ScsiAssumption, Zenon
<1> QED
  BY <1>3, <1>4, <1>5, Zenon

LEMMA ReadDiskIs ==
  ASSUME NEW d \in Drive, NEW c, NEW count, c.lba \in Nat, c.n \in Nat,
         c.lba + c.n <= NSectors, ~ (c.n > count)
  PROVE  Ends(ReadDisk(d, c, count), 0, d.head, d.sense,
              SubSeq(d.map, c.lba + 1, c.lba + c.n), d.map)
<1> DEFINE m == SubSeq(d.map, c.lba + 1, c.lba + c.n)
           e == [d EXCEPT !.ram = m]
<1>1. 0 \in Int /\ c.lba + c.n \in Int /\ NSectors \in Nat
  BY DevAssumption
<1>2. d.map \in Seq(Int) /\ Len(d.map) = NSectors
  BY <1>1, DriveIs DEF Sectors
<1>3. m \in Memory
  BY <1>1, <1>2, RamType
<1>4. ReadDisk(d, c, count) = Returns(e, 0)
  BY Zenon DEF ReadDisk
<1> HIDE DEF m
<1>5. Ends(Returns(e, 0), 0, d.head, d.sense, m, d.map)
  BY <1>1, <1>3, RamChanged, ReturnsIs, Zenon
<1> HIDE DEF e
<1> QED
  BY <1>4, <1>5, Zenon DEF m

(* The sectors when the ram has been written to them.                       *)
Written2(d, c) ==
  [s \in 1..NSectors |-> IF s \in (c.lba + 1)..(c.lba + c.n)
                          THEN d.ram[s - c.lba] ELSE d.map[s]]

LEMMA WriteDiskIs ==
  ASSUME NEW d \in Drive, NEW c, NEW count, c.lba \in Nat, c.n \in Nat,
         ~ (c.n > count), \A i \in 1..c.n : d.ram[i] \in Int
  PROVE  Ends(WriteDisk(d, c, count), 0, d.head, d.sense, d.ram, Written2(d, c))
<1> DEFINE p == Written2(d, c)
           e == [d EXCEPT !.map = p]
<1>1. 0 \in Int /\ NSectors \in Nat
  BY DevAssumption
<1>2. d.map \in [1..NSectors -> Int]
  BY DriveIs DEF Sectors
<1>3. p \in Sectors
  <2>1. \A s \in 1..NSectors : s \in (c.lba + 1)..(c.lba + c.n) => s - c.lba \in 1..c.n
    BY <1>1
  <2> QED
    BY <1>2, <2>1 DEF Sectors, Written2
<1>4. WriteDisk(d, c, count) = Returns(e, 0)
  <2>1. DOMAIN d.map = 1..NSectors
    BY <1>2
  <2> QED
    BY <2>1, Zenon DEF WriteDisk, Written2
<1> HIDE DEF p
<1>5. Ends(Returns(e, 0), 0, d.head, d.sense, d.ram, p)
  BY <1>1, <1>3, MapChanged, ReturnsIs, Zenon
<1> HIDE DEF e
<1> QED
  BY <1>4, <1>5, Zenon DEF p

LEMMA ModeSelectIs ==
  ASSUME NEW d \in Drive, NEW c, NEW count, ~ (c.n > count)
  PROVE  Ends(ModeSelect(d, c, count), 0, d.head, 0, d.ram, d.map)
<1>1. 0 \in Int
  OBVIOUS
<1> QED
  BY <1>1, SenseChanged, ReturnsIs, Zenon DEF ModeSelect

LEMMA ModeSenseIs ==
  ASSUME NEW d \in Drive, NEW c, NEW count, count # 0
  PROVE  \E i \in Int, m \in Memory :
           Ends(ModeSense(d, c, count), i, d.head, d.sense, m, d.map)
<1>1. 0 \in Int /\ -1 \in Int
  OBVIOUS
<1>2. CASE c.lba \in {3, 4}
  <2> DEFINE m == << c.lba >>
             e == [d EXCEPT !.ram = m]
  <2>1. m \in Memory
    BY <1>2 DEF Memory
  <2>2. ModeSense(d, c, count) = Returns(e, 0)
    BY <1>2, Zenon DEF ModeSense
  <2> HIDE DEF m
  <2>3. Ends(Returns(e, 0), 0, d.head, d.sense, m, d.map)
    BY <1>1, <2>1, RamChanged, ReturnsIs, Zenon
  <2> HIDE DEF e
  <2> QED
    BY <1>1, <2>1, <2>2, <2>3, Zenon
<1>3. CASE c.lba \notin {3, 4}
  <2>1. ModeSense(d, c, count) = Returns(d, -1)
    BY <1>3, Zenon DEF ModeSense
  <2>2. Ends(Returns(d, -1), -1, d.head, d.sense, d.ram, d.map)
    BY <1>1, DriveIs, ReturnsIs, Zenon
  <2>3. Ends(ModeSense(d, c, count), -1, d.head, d.sense, d.ram, d.map) /\ d.ram \in Memory
    BY <2>1, <2>2, DriveIs, Zenon
  <2> QED
    BY <1>1, <2>3, Zenon
<1> QED
  BY <1>2, <1>3

-----------------------------------------------------------------------------
(* What the thread does with a command, for either drive.                   *)

KeepsRam(r, d) == r.drive.ram = d.ram

LEMMA EndsResult ==
  ASSUME NEW r, NEW i, NEW h, NEW s, NEW m, NEW p, Ends(r, i, h, s, m, p)
  PROVE  r \in Results
BY DEF Ends

LEMMA EndsKeepsRam ==
  ASSUME NEW d, NEW r, NEW i, NEW h, NEW s, NEW p, Ends(r, i, h, s, d.ram, p)
  PROVE  KeepsRam(r, d)
BY DEF Ends, At, KeepsRam

LEMMA DiskType ==
  ASSUME NEW d \in Drive, NEW c \in Known("disk"), NEW count,
         c.f = "write" => \A i \in 1..c.n : d.ram[i] \in Int
  PROVE  /\ c.f \in DiskFuncs => DiskFunc(d, c, count) \in Results
         /\ c.f \in {"ready", "write"} => KeepsRam(DiskFunc(d, c, count), d)
<1> DEFINE r == DiskFunc(d, c, count)
<1>0. /\ c.lba \in Nat /\ c.n \in Nat
      /\ c.f \in {"read", "write"} => c.lba + c.n <= NSectors
  <2>1. "disk" \in Kinds
    BY DEF Kinds
  <2> QED
    BY <2>1, KnownIs, Zenon
<1>1. Asserts(d) \in Results /\ KeepsRam(Asserts(d), d)
  BY AssertsIs, Zenon DEF KeepsRam
<1>2. CASE c.f \in {"ready", "format"}
  <2>1. r = Nothing(d)
    BY <1>2 DEF DiskFunc
  <2> HIDE DEF r
  <2>2. r \in Results /\ KeepsRam(r, d)
    BY <2>1, NothingIs, EndsResult, EndsKeepsRam, Zenon
  <2> QED
    BY <2>2, Zenon DEF r
<1>3. CASE c.f = "read"
  <2>1. r = ReadDisk(d, c, count)
    BY <1>3 DEF DiskFunc
  <2>2. CASE c.n > count
    <3>1. r = Asserts(d)
      BY <2>1, <2>2, Zenon DEF ReadDisk
    <3> QED
      BY <1>1, <1>3, <3>1, Zenon
  <2>3. CASE ~ (c.n > count)
    <3>1. r \in Results
      BY <1>0, <1>3, <2>1, <2>3, ReadDiskIs, EndsResult, Zenon
    <3> QED
      BY <1>3, <3>1, Zenon
  <2> QED
    BY <2>2, <2>3, Zenon
<1>4. CASE c.f = "write"
  <2>1. r = WriteDisk(d, c, count)
    BY <1>4 DEF DiskFunc
  <2> HIDE DEF r
  <2>2. CASE c.n > count
    <3>1. r = Asserts(d)
      BY <2>1, <2>2, Zenon DEF WriteDisk
    <3> QED
      BY <1>1, <3>1, Zenon DEF r
  <2>3. CASE ~ (c.n > count)
    <3>1. Ends(r, 0, d.head, d.sense, d.ram, Written2(d, c))
      BY <1>0, <1>4, <2>1, <2>3, WriteDiskIs, Zenon
    <3> QED
      BY <3>1, EndsResult, EndsKeepsRam, Zenon DEF r
  <2> QED
    BY <2>2, <2>3, Zenon
<1>5. CASE c.f = "select"
  <2>1. r = ModeSelect(d, c, count)
    BY <1>5 DEF DiskFunc
  <2> HIDE DEF r
  <2>2. CASE c.n > count
    <3>1. r = Asserts(d)
      BY <2>1, <2>2, Zenon DEF ModeSelect
    <3> QED
      BY <1>1, <3>1, Zenon DEF r
  <2>3. CASE ~ (c.n > count)
    <3>1. r \in Results /\ KeepsRam(r, d)
      BY <2>1, <2>3, ModeSelectIs, EndsResult, EndsKeepsRam, Zenon
    <3> QED
      BY <3>1, Zenon DEF r
  <2> QED
    BY <2>2, <2>3, Zenon
<1>6. CASE c.f = "page"
  <2>1. r = ModeSense(d, c, count)
    BY <1>6 DEF DiskFunc
  <2>2. CASE c.lba \notin {3, 4}
    <3>1. r = Returns(d, -1) /\ -1 \in Int
      BY <2>1, <2>2 DEF ModeSense
    <3>2. r \in Results
      BY <3>1, DriveIs, ReturnsIs, EndsResult, Zenon
    <3> QED
      BY <1>6, <3>2, Zenon
  <2>3. CASE c.lba \in {3, 4} /\ count = 0
    <3>1. r = Asserts(d)
      BY <2>1, <2>3, Zenon DEF ModeSense
    <3> QED
      BY <1>1, <1>6, <3>1, Zenon
  <2>4. CASE count # 0
    <3>1. r \in Results
      BY <2>1, <2>4, ModeSenseIs, EndsResult, Zenon
    <3> QED
      BY <1>6, <3>1, Zenon
  <2> QED
    BY <2>2, <2>3, <2>4, Zenon
<1> QED
  BY <1>2, <1>3, <1>4, <1>5, <1>6, Zenon DEF DiskFuncs

LEMMA TapeKeepsRam ==
  ASSUME NEW d \in Drive, NEW c, NEW count, c.f = "ready"
  PROVE  KeepsRam(TapeFunc(d, c, count), d)
<1>1. TapeFunc(d, c, count) = Nothing(d)
  BY DEF TapeFunc
<1> QED
  BY <1>1, NothingIs, EndsKeepsRam, Zenon

LEMMA AnswerType ==
  ASSUME TypeOK, RamInv, regs.cmd = "select", regs.cdb.f \in Funcs
  PROVE  Answer \in Results /\ (op.f = "write" => KeepsRam(Answer, drive))
<1>1. /\ unit \in Kinds /\ drive \in Drive /\ regs.cdb \in Known(unit)
      /\ op \in Known(unit) \cup {Reset}
  <2>1. regs \in RegsOf(unit)
    BY Zenon DEF TypeOK
  <2>2. regs.cdb \in Known(unit)
    BY <2>1, Zenon DEF RegsOf
  <2> QED
    BY <2>2, Zenon DEF TypeOK
<1>2. regs.cdb \in {op, NoCdb} /\ NoCdb.f = "ready"
  BY Zenon DEF RamInv, NoCdb
<1>3. op.f = "write" => regs.cdb.f \in {"ready", "write"}
  BY <1>2, Zenon
<1>4. regs.cdb.f = "write" => \A i \in 1..regs.cdb.n : drive.ram[i] \in Int
  <2> SUFFICES ASSUME regs.cdb.f = "write"
               PROVE  \A i \in 1..regs.cdb.n : drive.ram[i] \in Int
    OBVIOUS
  <2>1. regs.cdb = op
    BY <1>2
  <2>2. drive.ram = [i \in 1..op.n |-> nwrites] /\ nwrites \in Int
    <3>1. drive.ram = [i \in 1..op.n |-> nwrites] /\ nwrites \in Nat
      BY <2>1, Zenon DEF RamInv, TypeOK
    <3> QED
      BY <3>1
  <2> QED
    BY <2>1, <2>2
<1>5. CASE unit = "tape"
  <2> DEFINE r == TapeFunc(drive, regs.cdb, regs.count)
  <2>1. Answer = r
    BY <1>5, Zenon DEF Answer
  <2>2. regs.cdb.f \in TapeFuncs
    BY <1>5, Zenon DEF Funcs
  <2>3. Fits(r, drive)
    BY <1>1, <2>2, TapeType, Zenon
  <2>4. op.f = "write" => KeepsRam(r, drive)
    <3>1. "write" \notin TapeFuncs
      BY DEF TapeFuncs
    <3> QED
      BY <1>1, <1>3, <2>2, <3>1, TapeKeepsRam, Zenon
  <2> HIDE DEF r
  <2> QED
    BY <2>1, <2>3, <2>4, Zenon DEF Fits
<1>6. CASE unit = "disk"
  <2> DEFINE r == DiskFunc(drive, regs.cdb, regs.count)
  <2>1. Answer = r
    <3>1. unit # "tape"
      BY <1>6
    <3> QED
      BY <3>1, Zenon DEF Answer
  <2>2. regs.cdb.f \in DiskFuncs
    BY <1>6 DEF Funcs
  <2>3. regs.cdb \in Known("disk")
    BY <1>1, <1>6, Zenon
  <2>4. r \in Results /\ (op.f = "write" => KeepsRam(r, drive))
    BY <1>1, <1>3, <1>4, <2>2, <2>3, DiskType, Zenon
  <2> HIDE DEF r
  <2> QED
    BY <2>1, <2>4, Zenon
<1> QED
  BY <1>1, <1>5, <1>6, Zenon DEF Kinds

-----------------------------------------------------------------------------
(* The registers when one of them has been written.                         *)

Shows(r, u, cmd, cdb, count, status, int) ==
  /\ r \in RegsOf(u) /\ r.cmd = cmd /\ r.cdb = cdb /\ r.count = count
  /\ r.status = status /\ r.int = int

LEMMA RegsAre ==
  ASSUME NEW u, NEW r \in RegsOf(u)
  PROVE  /\ Shows(r, u, r.cmd, r.cdb, r.count, r.status, r.int)
         /\ r.cmd \in {"reset", "select"} /\ r.cdb \in Known(u) /\ r.count \in Int
         /\ r.status \in Nat /\ r.int \in BOOLEAN
BY DEF Shows, RegsOf

LEMMA CdbWritten ==
  ASSUME NEW u, NEW r \in RegsOf(u), NEW c \in Known(u)
  PROVE  Shows([r EXCEPT !.cdb = c], u, r.cmd, c, r.count, r.status, r.int)
BY DEF Shows, RegsOf

LEMMA CountWritten ==
  ASSUME NEW u, NEW r \in RegsOf(u), NEW n \in Int
  PROVE  Shows([r EXCEPT !.count = n], u, r.cmd, r.cdb, n, r.status, r.int)
BY DEF Shows, RegsOf

LEMMA CmdWritten ==
  ASSUME NEW u, NEW r \in RegsOf(u), NEW c \in {"reset", "select"}
  PROVE  Shows([r EXCEPT !.cmd = c], u, c, r.cdb, r.count, r.status, r.int)
BY DEF Shows, RegsOf

LEMMA IntWritten ==
  ASSUME NEW u, NEW r \in RegsOf(u), NEW b \in BOOLEAN
  PROVE  Shows([r EXCEPT !.int = b], u, r.cmd, r.cdb, r.count, r.status, b)
BY DEF Shows, RegsOf

LEMMA AllWritten ==
  ASSUME NEW u, NEW r \in RegsOf(u), NEW n \in Int, NEW s \in Nat
  PROVE  /\ Shows([r EXCEPT !.int = TRUE, !.count = n, !.status = s],
                  u, r.cmd, r.cdb, n, s, TRUE)
         /\ Shows([r EXCEPT !.int = TRUE, !.status = s],
                  u, r.cmd, r.cdb, r.count, s, TRUE)
BY DEF Shows, RegsOf

LEMMA NoRegsAre ==
  ASSUME NEW u, NEW s \in Nat, NEW b \in BOOLEAN
  PROVE  /\ Shows([NoRegs EXCEPT !.status = s, !.int = b], u, "reset", NoCdb, 0, s, b)
         /\ Shows([NoRegs EXCEPT !.int = b], u, "reset", NoCdb, 0, 0, b)
         /\ Shows(NoRegs, u, "reset", NoCdb, 0, 0, FALSE)
<1> DEFINE c == NoCdb
<1>1. c \in Known(u)
  BY DEF Known
<1>2. NoRegs = [cmd |-> "reset", cdb |-> c, count |-> 0, status |-> 0, int |-> FALSE]
  BY Zenon DEF NoRegs
<1> HIDE DEF c
<1>3. NoRegs \in RegsOf(u)
  BY <1>1, <1>2 DEF RegsOf
<1>4. /\ NoRegs.cmd = "reset" /\ NoRegs.cdb = c /\ NoRegs.count = 0
      /\ NoRegs.status = 0 /\ NoRegs.int = FALSE
  BY <1>2
<1> DEFINE r == NoRegs
<1>5. r \in RegsOf(u)
  BY <1>3
<1> HIDE DEF r
<1>6. Shows([r EXCEPT !.status = s, !.int = b], u, r.cmd, r.cdb, r.count, s, b)
  BY <1>5 DEF Shows, RegsOf
<1>7. Shows([r EXCEPT !.int = b], u, r.cmd, r.cdb, r.count, r.status, b)
  BY <1>5 DEF Shows, RegsOf
<1>8. Shows(r, u, r.cmd, r.cdb, r.count, r.status, r.int)
  BY <1>5, RegsAre
<1> QED
  BY <1>4, <1>6, <1>7, <1>8, Zenon DEF c, r

(* Selecting the drive.                                                     *)
LEMMA Transfer ==
  ASSUME TypeOK, RamInv, regs.cmd = "select", SelectAndTransfer
  PROVE  /\ drive' \in Drive /\ irq' = TRUE /\ tpc' \in {"wait", "aborted"}
         /\ \E n \in Int, s \in Nat : Shows(regs', unit, "select", regs.cdb, n, s, TRUE)
         /\ op.f = "write" => drive'.ram = drive.ram
<1>1. regs \in RegsOf(unit) /\ drive \in Drive
  BY Zenon DEF TypeOK
<1>2. CASE regs.cdb.f \in Funcs
  <2> DEFINE n == IF Answer.ret < 0 THEN 0 ELSE Answer.ret
             s == IF Answer.ret < 0 THEN 66 ELSE 22
  <2>1. Answer \in Results /\ (op.f = "write" => KeepsRam(Answer, drive))
    BY <1>2, AnswerType, Zenon
  <2>2. Answer.drive \in Drive /\ Answer.ret \in Int
    BY <2>1, Zenon DEF Results
  <2>3. n \in Int /\ s \in Nat
    BY <2>2
  <2>4. /\ drive' = Answer.drive /\ irq' = TRUE /\ tpc' \in {"wait", "aborted"}
        /\ regs' = [regs EXCEPT !.int = TRUE, !.count = n, !.status = s]
    BY <1>2, Zenon DEF SelectAndTransfer
  <2> HIDE DEF n, s
  <2>5. Shows(regs', unit, "select", regs.cdb, n, s, TRUE)
    <3>1. Shows([regs EXCEPT !.int = TRUE, !.count = n, !.status = s],
                unit, regs.cmd, regs.cdb, n, s, TRUE)
      BY <1>1, <2>3, AllWritten, Zenon
    <3> QED
      BY <2>4, <3>1, Zenon
  <2> QED
    BY <2>1, <2>2, <2>3, <2>4, <2>5, Zenon DEF KeepsRam
<1>3. CASE regs.cdb.f \notin Funcs
  <2>1. /\ drive' = drive /\ irq' = TRUE /\ tpc' \in {"wait", "aborted"}
        /\ regs' = [regs EXCEPT !.int = TRUE, !.status = 66]
    BY <1>3, Zenon DEF SelectAndTransfer
  <2>2. 66 \in Nat /\ regs.count \in Int
    BY <1>1, RegsAre
  <2>3. Shows(regs', unit, "select", regs.cdb, regs.count, 66, TRUE)
    <3>1. Shows([regs EXCEPT !.int = TRUE, !.status = 66],
                unit, regs.cmd, regs.cdb, regs.count, 66, TRUE)
      BY <1>1, <2>2, AllWritten, Zenon
    <3> QED
      BY <2>1, <3>1, Zenon
  <2> QED
    BY <1>1, <2>1, <2>2, <2>3, Zenon
<1> QED
  BY <1>2, <1>3, Zenon

-----------------------------------------------------------------------------
(* What of the invariant is about the registers, the thread and the         *)
(* interrupt, action by action.                                             *)

Base == TypeOK /\ IntIsIrq /\ CtlInv /\ RamInv

LEMMA OpIs ==
  ASSUME TypeOK
  PROVE  op.n \in Nat /\ op.lba \in Nat /\ Asked \in Int
<1>1. op \in Known(unit) \cup {Reset} /\ unit \in Kinds
  BY Zenon DEF TypeOK
<1>2. Reset.n \in Nat /\ Reset.lba \in Nat
  BY DEF Reset, NoCdb
<1>3. op.n \in Nat /\ op.lba \in Nat
  BY <1>1, <1>2, KnownIs, Zenon
<1>4. MaxLen \in Int /\ op.n \in Int
  BY <1>3, DevAssumption
<1> QED
  BY <1>3, <1>4, Zenon DEF Asked

LEMMA BaseServe ==
  ASSUME Base, Serve
  PROVE  Base'
<1> USE DEF Base
<1>1. /\ drive' \in Drive /\ irq' = TRUE /\ tpc' \in {"wait", "aborted"}
      /\ \E c \in {"reset", "select"}, b \in Known(unit), n \in Int, s \in Nat :
           Shows(regs', unit, c, b, n, s, TRUE)
      /\ regs'.cdb \in {regs.cdb, NoCdb} /\ (regs'.cmd = "select" => regs.cmd = "select")
      /\ op.f = "write" => drive'.ram = drive.ram
  <2>1. CASE regs.cmd = "reset"
    <3>1. /\ regs' = [NoRegs EXCEPT !.status = 1, !.int = TRUE]
          /\ irq' = TRUE /\ tpc' = "wait" /\ drive' = drive
      BY <2>1, Zenon DEF Serve, ResetChip
    <3>2. 1 \in Nat /\ 0 \in Int /\ TRUE \in BOOLEAN /\ "reset" # "select"
      OBVIOUS
    <3>3. Shows([NoRegs EXCEPT !.status = 1, !.int = TRUE], unit, "reset", NoCdb, 0, 1, TRUE)
      BY <3>2, NoRegsAre, Zenon
    <3>4. Shows(regs', unit, "reset", NoCdb, 0, 1, TRUE)
      BY <3>1, <3>3, Zenon
    <3>5. regs'.cmd = "reset" /\ regs'.cdb = NoCdb /\ NoCdb \in Known(unit)
      BY <3>4, Zenon DEF Shows, Known
    <3> QED
      BY <3>1, <3>2, <3>4, <3>5, Zenon DEF TypeOK
  <2>2. CASE regs.cmd # "reset"
    <3>1. regs.cmd = "select" /\ regs.cdb \in Known(unit)
      BY <2>2, Zenon DEF TypeOK, RegsOf
    <3>2. SelectAndTransfer
      BY <2>2, Zenon DEF Serve
    <3>3. PICK n \in Int, s \in Nat : Shows(regs', unit, "select", regs.cdb, n, s, TRUE)
      BY <3>1, <3>2, Transfer, Zenon
    <3>4. regs'.cdb = regs.cdb
      BY <3>3, Zenon DEF Shows
    <3>5. drive' \in Drive /\ irq' = TRUE /\ tpc' \in {"wait", "aborted"}
          /\ (op.f = "write" => drive'.ram = drive.ram)
      BY <3>1, <3>2, Transfer, Zenon
    <3> QED
      BY <3>1, <3>3, <3>4, <3>5, Zenon
  <2> QED
    BY <2>1, <2>2, Zenon
<1>2. /\ regs' \in RegsOf(unit) /\ regs'.int = TRUE
      /\ tpc' # "woken" /\ tpc = "woken"
      /\ UNCHANGED <<unit, resets, guest, op, failed, got, kept, nwrites, nresets, abandoned>>
  BY <1>1, Zenon DEF Shows, Serve, guestvars, history
<1>3. TypeOK'
  BY <1>1, <1>2, Zenon DEF TypeOK
<1>4. IntIsIrq'
  BY <1>1, <1>2, Zenon DEF IntIsIrq
<1>5. CtlInv'
  BY <1>1, <1>2 DEF CtlInv
<1>6. RamInv'
  <2>1. guest' \in {"cdb", "count"} \/ regs'.cmd = "select" => regs'.cdb \in {op', NoCdb}
    BY <1>1, <1>2, Zenon DEF RamInv
  <2>2. op'.f = "write" => drive'.ram = [i \in 1..op'.n |-> nwrites']
    BY <1>1, <1>2, Zenon DEF RamInv
  <2> QED
    BY <2>1, <2>2, Zenon DEF RamInv
<1> QED
  BY <1>3, <1>4, <1>5, <1>6, Zenon

LEMMA BaseResetCb ==
  ASSUME Base, ResetCb
  PROVE  Base'
<1> USE DEF Base
<1>1. 0 \in Int /\ TRUE \in BOOLEAN /\ 0 \in Nat
  OBVIOUS
<1>2. /\ regs' = [NoRegs EXCEPT !.int = TRUE] /\ irq' = TRUE
      /\ drive' = [drive EXCEPT !.head = 0] /\ resets' = resets - 1 /\ resets > 0
      /\ UNCHANGED <<unit, tpc, guest, op, failed, got, kept, nwrites, nresets, abandoned>>
  BY Zenon DEF ResetCb, guestvars, history
<1>3. Shows(regs', unit, "reset", NoCdb, 0, 0, TRUE)
  <2>1. Shows([NoRegs EXCEPT !.int = TRUE], unit, "reset", NoCdb, 0, 0, TRUE)
    BY <1>1, NoRegsAre, Zenon
  <2> QED
    BY <1>2, <2>1, Zenon
<1>4. /\ regs' \in RegsOf(unit) /\ regs'.int = TRUE /\ regs'.cmd = "reset"
      /\ regs'.cdb = NoCdb
  BY <1>3, Zenon DEF Shows
<1>5. drive' \in Drive /\ drive'.ram = drive.ram
  <2>1. At(drive', 0, drive.sense, drive.ram, drive.map)
    <3>1. drive \in Drive
      BY Zenon DEF TypeOK
    <3>2. At([drive EXCEPT !.head = 0], 0, drive.sense, drive.ram, drive.map)
      BY <1>1, <3>1, HeadChanged, Zenon
    <3> QED
      BY <1>2, <3>2, Zenon
  <2> QED
    BY <2>1, Zenon DEF At
<1>6. resets \in Nat /\ resets' \in Nat
  <2>1. resets \in Nat
    BY Zenon DEF TypeOK
  <2> QED
    BY <1>2, <2>1
<1>7. TypeOK'
  <2>1. irq' \in BOOLEAN
    BY <1>2, Zenon
  <2> QED
    BY <1>2, <1>4, <1>5, <1>6, <2>1, Zenon DEF TypeOK
<1>8. IntIsIrq'
  BY <1>2, <1>4, Zenon DEF IntIsIrq
<1>9. CtlInv'
  BY <1>2, <1>4, <1>6 DEF CtlInv
<1>10. RamInv'
  <2>1. guest' \in {"cdb", "count"} \/ regs'.cmd = "select" => regs'.cdb \in {op', NoCdb}
    BY <1>4, Zenon
  <2>2. op'.f = "write" => drive'.ram = [i \in 1..op'.n |-> nwrites']
    BY <1>2, <1>5, Zenon DEF RamInv
  <2> QED
    BY <2>1, <2>2, Zenon DEF RamInv
<1> QED
  BY <1>7, <1>8, <1>9, <1>10, Zenon

LEMMA BaseWriteCdb ==
  ASSUME Base, NEW c \in Cdbs[unit], WriteCdb(c)
  PROVE  Base'
<1> USE DEF Base
<1>1. /\ tpc # "aborted" /\ guest = "idle" /\ guest' = "cdb" /\ op' = c
      /\ regs' = [regs EXCEPT !.cdb = c]
      /\ UNCHANGED <<unit, irq, tpc, resets, failed, got, kept, nresets, abandoned>>
  BY Zenon DEF WriteCdb
<1>2. /\ regs \in RegsOf(unit) /\ c \in Known(unit) /\ unit \in Kinds /\ nwrites \in Nat
      /\ drive \in Drive
  BY Zenon DEF TypeOK, Known
<1>3. Shows(regs', unit, regs.cmd, c, regs.count, regs.status, regs.int)
  <2>1. Shows([regs EXCEPT !.cdb = c], unit, regs.cmd, c, regs.count, regs.status, regs.int)
    BY <1>2, CdbWritten, Zenon
  <2> QED
    BY <1>1, <2>1, Zenon
<1>4. /\ regs' \in RegsOf(unit) /\ regs'.cdb = c /\ regs'.int = regs.int
  BY <1>3, Zenon DEF Shows
<1>5. /\ drive' \in Drive /\ nwrites' \in Nat
      /\ c.f = "write" => drive'.ram = [i \in 1..c.n |-> nwrites']
  <2>1. CASE c.f = "write"
    <3> DEFINE m == [i \in 1..c.n |-> nwrites + 1]
    <3>1. drive' = [drive EXCEPT !.ram = m] /\ nwrites' = nwrites + 1
      BY <2>1, Zenon DEF WriteCdb
    <3>2. c.n \in Nat
      BY <1>2, KnownIs, Zenon
    <3>3. m \in Memory /\ nwrites + 1 \in Nat
      BY <1>2, <3>2 DEF Memory
    <3>4. m = [i \in 1..c.n |-> nwrites']
      BY <3>1, Zenon
    <3> HIDE DEF m
    <3>5. At([drive EXCEPT !.ram = m], drive.head, drive.sense, m, drive.map)
      BY <1>2, <3>3, RamChanged, Zenon
    <3> QED
      BY <3>1, <3>3, <3>4, <3>5, Zenon DEF At
  <2>2. CASE c.f # "write"
    BY <1>2, <2>2, Zenon DEF WriteCdb
  <2> QED
    BY <2>1, <2>2, Zenon
<1>6. TypeOK'
  BY <1>1, <1>2, <1>4, <1>5, Zenon DEF TypeOK
<1>7. IntIsIrq'
  BY <1>1, <1>4, Zenon DEF IntIsIrq
<1>8. CtlInv'
  BY <1>1, <1>4 DEF CtlInv
<1>9. RamInv'
  BY <1>1, <1>4, <1>5, Zenon DEF RamInv
<1> QED
  BY <1>6, <1>7, <1>8, <1>9, Zenon

LEMMA BaseWriteCount ==
  ASSUME Base, WriteCount
  PROVE  Base'
<1> USE DEF Base
<1>1. /\ guest = "cdb" /\ guest' = "count" /\ regs' = [regs EXCEPT !.count = Asked]
      /\ UNCHANGED <<unit, irq, tpc, resets, drive, op, failed>>
      /\ UNCHANGED <<got, kept, nwrites, nresets, abandoned>>
  BY Zenon DEF WriteCount, history
<1>2. regs \in RegsOf(unit) /\ Asked \in Int
  BY OpIs, Zenon DEF TypeOK
<1>3. Shows(regs', unit, regs.cmd, regs.cdb, Asked, regs.status, regs.int)
  <2>1. Shows([regs EXCEPT !.count = Asked],
              unit, regs.cmd, regs.cdb, Asked, regs.status, regs.int)
    BY <1>2, CountWritten, Zenon
  <2> QED
    BY <1>1, <2>1, Zenon
<1>4. /\ regs' \in RegsOf(unit) /\ regs'.cmd = regs.cmd /\ regs'.cdb = regs.cdb
      /\ regs'.count = Asked /\ regs'.int = regs.int
  BY <1>3, Zenon DEF Shows
<1>5. Asked' = Asked
  BY <1>1, Zenon DEF Asked
<1>6. TypeOK'
  BY <1>1, <1>4, Zenon DEF TypeOK
<1>7. IntIsIrq'
  BY <1>1, <1>4, Zenon DEF IntIsIrq
<1>8. CtlInv'
  BY <1>1, <1>4, <1>5 DEF CtlInv
<1>9. RamInv'
  BY <1>1, <1>4, Zenon DEF RamInv
<1> QED
  BY <1>6, <1>7, <1>8, <1>9, Zenon

LEMMA BaseSelect ==
  ASSUME Base, Select
  PROVE  Base'
<1> USE DEF Base
<1>1. /\ tpc # "aborted" /\ guest = "count" /\ guest' = "busy"
      /\ regs' = [regs EXCEPT !.cmd = "select"]
      /\ tpc' = IF tpc = "wait" THEN "woken" ELSE tpc
      /\ UNCHANGED <<unit, irq, resets, drive, op, failed>>
      /\ UNCHANGED <<got, kept, nwrites, nresets, abandoned>>
  BY Zenon DEF Select, WriteCmd, history
<1>2. regs \in RegsOf(unit) /\ "select" \in {"reset", "select"} /\ unit \in Kinds
  BY Zenon DEF TypeOK
<1>3. Shows(regs', unit, "select", regs.cdb, regs.count, regs.status, regs.int)
  <2>1. Shows([regs EXCEPT !.cmd = "select"],
              unit, "select", regs.cdb, regs.count, regs.status, regs.int)
    BY <1>2, CmdWritten, Zenon
  <2> QED
    BY <1>1, <2>1, Zenon
<1>4. /\ regs' \in RegsOf(unit) /\ regs'.cmd = "select" /\ regs'.cdb = regs.cdb
      /\ regs'.count = regs.count /\ regs'.int = regs.int
  BY <1>3, Zenon DEF Shows
<1>5. Asked' = Asked
  BY <1>1, Zenon DEF Asked
<1>6. tpc \in {"wait", "woken"} /\ tpc' = "woken"
  BY <1>1 DEF TypeOK
<1>7. regs.cdb \in Known(unit) /\ regs.cdb.f # "reset"
  <2>1. regs.cdb \in Known(unit)
    BY <1>2, RegsAre, Zenon
  <2> QED
    BY <1>2, <2>1, KnownIs, Zenon
<1>8. TypeOK'
  BY <1>1, <1>4, <1>6, Zenon DEF TypeOK
<1>9. IntIsIrq'
  BY <1>1, <1>4, Zenon DEF IntIsIrq
<1>10. CtlInv'
  BY <1>1, <1>4, <1>5, <1>6, <1>7 DEF CtlInv
<1>11. RamInv'
  BY <1>1, <1>4, Zenon DEF RamInv
<1> QED
  BY <1>8, <1>9, <1>10, <1>11, Zenon

LEMMA BaseSelectReset ==
  ASSUME Base, SelectReset
  PROVE  Base'
<1> USE DEF Base
<1>1. /\ tpc # "aborted" /\ guest = "idle" /\ guest' = "busy"
      /\ regs' = [regs EXCEPT !.cmd = "reset"] /\ op' = Reset
      /\ tpc' = IF tpc = "wait" THEN "woken" ELSE tpc
      /\ UNCHANGED <<unit, irq, resets, drive, failed>>
      /\ UNCHANGED <<got, kept, nwrites, nresets, abandoned>>
  BY Zenon DEF SelectReset, WriteCmd, history
<1>2. regs \in RegsOf(unit) /\ "reset" \in {"reset", "select"}
  BY Zenon DEF TypeOK
<1>3. Shows(regs', unit, "reset", regs.cdb, regs.count, regs.status, regs.int)
  <2>1. Shows([regs EXCEPT !.cmd = "reset"],
              unit, "reset", regs.cdb, regs.count, regs.status, regs.int)
    BY <1>2, CmdWritten, Zenon
  <2> QED
    BY <1>1, <2>1, Zenon
<1>4. /\ regs' \in RegsOf(unit) /\ regs'.cmd = "reset" /\ regs'.int = regs.int
  BY <1>3, Zenon DEF Shows
<1>5. Reset.f = "reset"
  BY DEF Reset, NoCdb
<1>6. tpc \in {"wait", "woken"} /\ tpc' = "woken"
  BY <1>1 DEF TypeOK
<1>7. TypeOK'
  BY <1>1, <1>4, <1>6, Zenon DEF TypeOK
<1>8. IntIsIrq'
  BY <1>1, <1>4, Zenon DEF IntIsIrq
<1>9. CtlInv'
  BY <1>1, <1>4, <1>5, <1>6 DEF CtlInv
<1>10. RamInv'
  BY <1>1, <1>4, <1>5, Zenon DEF RamInv
<1> QED
  BY <1>7, <1>8, <1>9, <1>10, Zenon

LEMMA SeenType ==
  ASSUME TypeOK
  PROVE  Seen \in Seq(Seq(Int))
<1>1. got \in Seq(Seq(Int)) /\ drive.ram \in Seq(Int)
  BY DriveIs, Zenon DEF TypeOK, Memory
<1>2. << >> \in Seq(Seq(Int)) /\ << >> \in Seq(Int)
  OBVIOUS
<1>3. Append(got, drive.ram) \in Seq(Seq(Int)) /\ Append(got, << >>) \in Seq(Seq(Int))
  BY <1>1, <1>2, AppendProperties, Zenon
<1>4. Front(got) \in Seq(Seq(Int))
  <2> DEFINE n == Len(got)
  <2>1. n \in Nat /\ \A i \in 1..n : got[i] \in Seq(Int)
    BY <1>1, LenProperties, ElementOfSeq
  <2> HIDE DEF n
  <2>2. n - 1 \in Int /\ \A i \in 1..(n - 1) : got[i] \in Seq(Int)
    BY <2>1
  <2>3. SubSeq(got, 1, n - 1) \in Seq(Seq(Int))
    BY <2>1, <2>2, SubSeqProperties
  <2> QED
    BY <2>3, Zenon DEF Front, n
<1>5. CASE guest = "reset" \/ abandoned
  BY <1>2, <1>5, Zenon DEF Seen
<1>6. CASE ~ (guest = "reset" \/ abandoned) /\ (guest # "busy" \/ regs.status # 22)
  BY <1>1, <1>6, Zenon DEF Seen
<1>7. CASE ~ (guest = "reset" \/ abandoned) /\ ~ (guest # "busy" \/ regs.status # 22)
  <2> DEFINE a == Append(got, drive.ram)
             b == Append(got, << >>)
             f == Front(got)
             m == drive.ram = << AtMark >>
             e == << >>
  <2>1. Seen = CASE op.f = "rewind" -> e
                 [] op.f = "read" -> a
                 [] op.f = "space" -> f
                 [] op.f = "sense" /\ failed /\ m -> b
                 [] OTHER -> got
    BY <1>7, Zenon DEF Seen
  <2>2. {a, b, f, got, e} \subseteq Seq(Seq(Int))
    BY <1>1, <1>2, <1>3, <1>4, Zenon
  <2> HIDE DEF a, b, f, m, e
  <2> QED
    BY <2>1, <2>2
<1> QED
  BY <1>5, <1>6, <1>7, Zenon

LEMMA BaseReadStatus ==
  ASSUME Base, ReadStatus
  PROVE  Base'
<1> USE DEF Base
<1>1. /\ tpc # "aborted" /\ irq /\ irq' = FALSE
      /\ regs' = [regs EXCEPT !.int = FALSE]
      /\ guest' = IF guest \in {"busy", "reset"} THEN "idle" ELSE guest
      /\ failed' = Failing /\ got' = IF unit = "tape" THEN Seen ELSE got
      /\ kept' = [s \in DOMAIN kept |->
                    IF Written(s) /\ regs.status = 22 THEN {nwrites} ELSE kept[s]]
      /\ drive' = IF op.f = "write" THEN drive ELSE [drive EXCEPT !.ram = << >>]
      /\ UNCHANGED <<unit, tpc, resets, op, nwrites, nresets, abandoned>>
  BY Zenon DEF ReadStatus
<1>2. regs \in RegsOf(unit) /\ FALSE \in BOOLEAN /\ drive \in Drive
  BY Zenon DEF TypeOK
<1>3. Shows(regs', unit, regs.cmd, regs.cdb, regs.count, regs.status, FALSE)
  <2>1. Shows([regs EXCEPT !.int = FALSE],
              unit, regs.cmd, regs.cdb, regs.count, regs.status, FALSE)
    BY <1>2, IntWritten, Zenon
  <2> QED
    BY <1>1, <2>1, Zenon
<1>4. /\ regs' \in RegsOf(unit) /\ regs'.cmd = regs.cmd /\ regs'.cdb = regs.cdb
      /\ regs'.int = FALSE
  BY <1>3, Zenon DEF Shows
<1>5. drive' \in Drive /\ (op.f = "write" => drive' = drive)
  <2>1. CASE op.f = "write"
    BY <1>1, <1>2, <2>1, Zenon
  <2>2. CASE op.f # "write"
    <3>1. << >> \in Memory
      BY DEF Memory
    <3>2. At([drive EXCEPT !.ram = << >>], drive.head, drive.sense, << >>, drive.map)
      BY <1>2, <3>1, RamChanged, Zenon
    <3> QED
      BY <1>1, <2>2, <3>2, Zenon DEF At
  <2> QED
    BY <2>1, <2>2, Zenon
<1>6. failed' \in BOOLEAN /\ got' \in Seq(Seq(Int))
  <2>1. Failing \in BOOLEAN
    BY DEF Failing, TypeOK
  <2>2. Seen \in Seq(Seq(Int)) /\ got \in Seq(Seq(Int))
    BY SeenType, Zenon DEF TypeOK
  <2> QED
    BY <1>1, <2>1, <2>2, Zenon
<1>7. kept' \in [1..NSectors -> SUBSET Int]
  <2>1. kept \in [1..NSectors -> SUBSET Int] /\ {nwrites} \in SUBSET Int
    BY DEF TypeOK
  <2>2. DOMAIN kept = 1..NSectors
    BY <2>1, Zenon
  <2>3. \A s \in 1..NSectors :
          (IF Written(s) /\ regs.status = 22 THEN {nwrites} ELSE kept[s]) \in SUBSET Int
    BY <2>1, Zenon
  <2> QED
    BY <1>1, <2>2, <2>3, Zenon
<1>8. guest' \in {"idle", "cdb", "count", "busy", "reset"}
  BY <1>1, Zenon DEF TypeOK
<1>9. TypeOK'
  <2>1. irq' \in BOOLEAN
    BY <1>1, Zenon
  <2> QED
    BY <1>1, <1>4, <1>5, <1>6, <1>7, <1>8, <2>1, Zenon DEF TypeOK
<1>10. IntIsIrq'
  BY <1>1, <1>4, Zenon DEF IntIsIrq
<1>11. CtlInv'
  <2>1. ~ abandoned' => guest' = "idle" /\ tpc' # "woken" /\ ~ (resets' > 0)
    BY <1>1 DEF CtlInv
  <2> QED
    BY <1>1, <2>1 DEF CtlInv
<1>12. RamInv'
  <2>1. guest' \in {"cdb", "count"} => guest' = guest
    BY <1>1
  <2> QED
    BY <1>1, <1>4, <1>5, <2>1, Zenon DEF RamInv
<1> QED
  BY <1>9, <1>10, <1>11, <1>12, Zenon

LEMMA BasePulseReset ==
  ASSUME Base, PulseReset
  PROVE  Base'
<1> USE DEF Base
<1>1. /\ tpc # "aborted" /\ irq' = FALSE
      /\ resets' = resets + 1 /\ nresets' = nresets + 1
      /\ guest' = "reset" /\ failed' = FALSE
      /\ kept' = [s \in DOMAIN kept |->
                    IF Written(s) THEN kept[s] \cup {nwrites} ELSE kept[s]]
      /\ abandoned' = (abandoned \/ tpc = "woken" \/ resets > 0)
      /\ UNCHANGED <<unit, regs, tpc, drive, op, got, nwrites>>
  BY Zenon DEF PulseReset
<1>2. resets' \in Nat /\ nresets' \in Nat /\ resets' > 0
  BY <1>1 DEF TypeOK
<1>3. kept' \in [1..NSectors -> SUBSET Int]
  <2>1. kept \in [1..NSectors -> SUBSET Int] /\ nwrites \in Int
    BY DEF TypeOK
  <2>2. DOMAIN kept = 1..NSectors
    BY <2>1, Zenon
  <2>3. \A s \in 1..NSectors :
          (IF Written(s) THEN kept[s] \cup {nwrites} ELSE kept[s]) \in SUBSET Int
    BY <2>1, Zenon
  <2> QED
    BY <1>1, <2>2, <2>3, Zenon
<1>4. TypeOK'
  <2>1. irq' \in BOOLEAN /\ failed' \in BOOLEAN /\ abandoned' \in BOOLEAN
    BY <1>1, Zenon
  <2> QED
    BY <1>1, <1>2, <1>3, <2>1, Zenon DEF TypeOK
<1>5. IntIsIrq'
  BY <1>2 DEF IntIsIrq
<1>6. CtlInv'
  <2>1. ~ abandoned' => ~ abandoned /\ tpc # "woken"
    BY <1>1, Zenon
  <2>2. ~ abandoned' => ~ (resets > 0)
    BY <1>1, Zenon
  <2>3. resets \in Nat
    BY Zenon DEF TypeOK
  <2>4. ~ abandoned' => resets' = 1
    BY <1>1, <2>1, <2>2, <2>3
  <2> QED
    BY <1>1, <2>1, <2>4 DEF CtlInv
<1>7. RamInv'
  BY <1>1, Zenon DEF RamInv
<1> QED
  BY <1>4, <1>5, <1>6, <1>7, Zenon

LEMMA BasePatch ==
  ASSUME Base, NEW s \in 1..NSectors, Patch(s)
  PROVE  Base'
<1> USE DEF Base
<1>1. /\ unit = "disk" /\ tpc # "aborted" /\ guest = "idle"
      /\ drive' = [drive EXCEPT !.map[s] = -1] /\ kept' = [kept EXCEPT ![s] = {-1}]
      /\ UNCHANGED <<unit, regs, irq, tpc, resets, guest, op, failed>>
      /\ UNCHANGED <<got, nwrites, nresets, abandoned>>
  BY Zenon DEF Patch, guestvars
<1>2. drive \in Drive /\ -1 \in Int
  <2>1. -1 \in Int
    OBVIOUS
  <2> QED
    BY <2>1, Zenon DEF TypeOK
<1>3. drive' \in Drive /\ drive'.ram = drive.ram
  <2> DEFINE m == [drive.map EXCEPT ![s] = -1]
  <2>1. m \in Sectors
    BY <1>2, DriveIs DEF Sectors
  <2>2. drive' = [drive EXCEPT !.map = m]
    BY <1>1, Zenon
  <2> HIDE DEF m
  <2>3. At([drive EXCEPT !.map = m], drive.head, drive.sense, drive.ram, m)
    BY <1>2, <2>1, MapChanged, Zenon
  <2> QED
    BY <2>2, <2>3, Zenon DEF At
<1>4. kept' \in [1..NSectors -> SUBSET Int]
  BY <1>1 DEF TypeOK
<1>5. TypeOK'
  BY <1>1, <1>3, <1>4, Zenon DEF TypeOK
<1>6. IntIsIrq'
  BY <1>1, Zenon DEF IntIsIrq
<1>7. CtlInv'
  BY <1>1 DEF CtlInv
<1>8. RamInv'
  BY <1>1, <1>3, Zenon DEF RamInv
<1> QED
  BY <1>5, <1>6, <1>7, <1>8, Zenon

LEMMA BaseInit ==
  ASSUME Init
  PROVE  Base
<1>1. /\ unit \in Kinds /\ regs = NoRegs /\ irq = FALSE /\ tpc = "wait" /\ resets = 0
      /\ drive = [head |-> 0, sense |-> 0, ram |-> << >>,
                  map |-> [s \in 1..NSectors |-> 0]]
      /\ guest = "idle" /\ op = NoCdb /\ failed = FALSE
      /\ got = << >> /\ kept = [s \in 1..NSectors |-> {0}] /\ nwrites = 0
      /\ nresets = 0 /\ abandoned = FALSE
  BY Zenon DEF Init, Kinds
<1>2. Shows(regs, unit, "reset", NoCdb, 0, 0, FALSE)
  <2>1. 0 \in Nat /\ FALSE \in BOOLEAN
    OBVIOUS
  <2> QED
    BY <1>1, <2>1, NoRegsAre, Zenon
<1>3. /\ regs \in RegsOf(unit) /\ regs.int = FALSE /\ regs.cdb = NoCdb
      /\ regs.cmd = "reset"
  BY <1>2, Zenon DEF Shows
<1>4. drive \in Drive
  <2> DEFINE e == << >>
             m == [s \in 1..NSectors |-> 0]
  <2>1. e \in Memory /\ m \in Sectors
    BY DEF Memory, Sectors
  <2>2. drive = [head |-> 0, sense |-> 0, ram |-> e, map |-> m]
    BY <1>1, Zenon
  <2> HIDE DEF e, m
  <2> QED
    BY <2>1, <2>2 DEF Drive
<1>5. op \in Known(unit)
  BY <1>1, Zenon DEF Known
<1>6. TypeOK
  <2>1. /\ got \in Seq(Seq(Int)) /\ kept \in [1..NSectors -> SUBSET Int]
        /\ 0 \in Nat
    BY <1>1
  <2> QED
    BY <1>1, <1>3, <1>4, <1>5, <2>1, Zenon DEF TypeOK
<1>7. IntIsIrq /\ CtlInv
  BY <1>1, <1>3 DEF IntIsIrq, CtlInv
<1>8. RamInv
  <2>1. NoCdb.f = "ready"
    BY DEF NoCdb
  <2> QED
    BY <1>1, <1>3, <2>1 DEF RamInv
<1> QED
  BY <1>6, <1>7, <1>8, Zenon DEF Base

LEMMA BaseStep ==
  ASSUME Base, [Next]_vars
  PROVE  Base'
<1>1. CASE UNCHANGED vars
  <2>1. UNCHANGED <<unit, regs, irq, tpc, resets, drive, guest, op, failed,
                    got, kept, nwrites, nresets, abandoned>>
    BY <1>1, Zenon DEF vars, guestvars, history
  <2>2. TypeOK'
    BY <2>1, Zenon DEF Base, TypeOK
  <2>3. IntIsIrq' /\ RamInv'
    BY <2>1, Zenon DEF Base, IntIsIrq, RamInv
  <2>4. CtlInv'
    BY <2>1, Zenon DEF Base, CtlInv, Asked
  <2> QED
    BY <2>2, <2>3, <2>4, Zenon DEF Base
<1>2. CASE \E c \in Cdbs[unit] : WriteCdb(c)
  BY <1>2, BaseWriteCdb, Zenon
<1>3. CASE \E s \in 1..NSectors : Patch(s)
  BY <1>3, BasePatch, Zenon
<1> QED
  BY <1>1, <1>2, <1>3, BaseServe, BaseResetCb, BaseWriteCount, BaseSelect,
     BaseSelectReset, BaseReadStatus, BasePulseReset, Zenon DEF Next

-----------------------------------------------------------------------------
(* The types of the registers, the drive, and what the guest has read,      *)
(* through everything the thread, the callback, the guest and the CLI do.   *)
THEOREM TypeCorrect == Spec => []TypeOK
<1>1. Spec => []Base
  BY BaseInit, BaseStep, PTL DEF Spec
<1>2. Base => TypeOK
  BY DEF Base
<1> QED
  BY <1>1, <1>2, PTL

(* The interrupt line agrees with the interrupt bit of the auxiliary        *)
(* status, except from a reset pulse to its callback: scsi_ctrl_reset,      *)
(* scsi_thread and scsi_ctrl_pre_read set and clear both.                   *)
THEOREM IntAgrees == Spec => []IntIsIrq
<1>1. Spec => []Base
  BY BaseInit, BaseStep, PTL DEF Spec
<1>2. Base => IntIsIrq
  BY DEF Base
<1> QED
  BY <1>1, <1>2, PTL

(* The thread of the controller executes a command when the guest waits for *)
(* one, and the one the guest has written, although scsi_thread has no      *)
(* predicate to test when it wakes up.                                      *)
THEOREM ServesTheGuest == Spec => ServesWhatIsWritten
<1>1. Base /\ [Next]_vars =>
        [Serve /\ ~ abandoned =>
           guest = "busy" /\ (op.f = "reset" \/ (regs.cdb = op /\ regs.count = Asked))]_vars
  BY Zenon DEF Base, CtlInv, Serve
<1>2. Spec => []Base
  BY BaseInit, BaseStep, PTL DEF Spec
<1> QED
  BY <1>1, <1>2, PTL DEF Spec, ServesWhatIsWritten

-----------------------------------------------------------------------------
(* The tape: what the guest has read, and where the head is.                *)

OpensWith(g, k) ==
  g \in Seq(Seq(Int)) /\ Len(g) = k /\ \A i \in 1..k : g[i] = Items[i]

LEMMA PrefixIs ==
  ASSUME NEW k \in 0..Len(Items)
  PROVE  OpensWith(SubSeq(Items, 1, k), k)
<1>1. Items \in Seq(Seq(Int))
  BY DevAssumption
<1> QED
  BY <1>1, SplitAt, Zenon DEF OpensWith

LEMMA PrefixNext ==
  ASSUME NEW k \in Nat, k < Len(Items)
  PROVE  Append(SubSeq(Items, 1, k), Items[k + 1]) = SubSeq(Items, 1, k + 1)
<1>1. /\ Items \in Seq(Seq(Int)) /\ Len(Items) \in Nat
      /\ \A i \in 1..Len(Items) : Items[i] \in Seq(Int)
  BY DevAssumption
<1>2. k \in 0..Len(Items) /\ k + 1 \in 0..Len(Items) /\ k + 1 \in 1..Len(Items)
  BY <1>1
<1> DEFINE a == SubSeq(Items, 1, k)
           b == SubSeq(Items, 1, k + 1)
           x == Items[k + 1]
<1>3. a \in Seq(Seq(Int)) /\ Len(a) = k /\ \A i \in 1..k : a[i] = Items[i]
  BY <1>1, <1>2, SplitAt, Zenon
<1>4. b \in Seq(Seq(Int)) /\ Len(b) = k + 1 /\ \A i \in 1..(k + 1) : b[i] = Items[i]
  BY <1>1, <1>2, SplitAt, Zenon
<1>5. x \in Seq(Int)
  BY <1>1, <1>2, Zenon
<1>6. x = Items[k + 1]
  OBVIOUS
<1> HIDE DEF a, b, x
<1>7. /\ Append(a, x) \in Seq(Seq(Int)) /\ Len(Append(a, x)) = k + 1
      /\ \A i \in 1..k : Append(a, x)[i] = a[i]
      /\ Append(a, x)[k + 1] = x
  BY <1>3, <1>5, AppendProperties
<1> DEFINE c == Append(a, x)
<1>8. ASSUME NEW i \in 1..(k + 1)
      PROVE  c[i] = b[i]
  <2>1. i \in 1..k \/ i = k + 1
    OBVIOUS
  <2> QED
    BY <1>3, <1>4, <1>6, <1>7, <2>1, Zenon
<1>9. c \in Seq(Seq(Int)) /\ Len(c) = k + 1
  BY <1>7, Zenon
<1> HIDE DEF c
<1>10. c = b
  BY <1>4, <1>8, <1>9, SeqEqual
<1> QED
  BY <1>10, Zenon DEF a, b, c, x

LEMMA FrontIs ==
  ASSUME NEW g \in Seq(Seq(Int)), NEW k \in Nat, k > 0, Len(g) = k
  PROVE  /\ Front(g) \in Seq(Seq(Int)) /\ Len(Front(g)) = k - 1
         /\ \A i \in 1..(k - 1) : Front(g)[i] = g[i]
<1>1. k - 1 \in 0..Len(g)
  OBVIOUS
<1> DEFINE a == SubSeq(g, 1, k - 1)
<1>2. a \in Seq(Seq(Int)) /\ Len(a) = k - 1 /\ \A i \in 1..(k - 1) : a[i] = g[i]
  BY <1>1, SplitAt, Zenon
<1>3. Front(g) = a
  BY Zenon DEF Front
<1> HIDE DEF a
<1> QED
  BY <1>2, <1>3, Zenon

LEMMA PrefixFront ==
  ASSUME NEW g, NEW k \in Nat, k > 0, k <= Len(Items), Len(g) = k,
         g = SubSeq(Items, 1, k)
  PROVE  /\ Front(g) = SubSeq(Items, 1, k - 1) /\ Len(Front(g)) = k - 1
         /\ Last(g) = Items[k]
<1>1. Items \in Seq(Seq(Int)) /\ Len(Items) \in Nat
  BY DevAssumption
<1>2. k \in 0..Len(Items) /\ k - 1 \in 0..Len(Items) /\ k \in 1..k
      /\ \A i \in 1..(k - 1) : i \in 1..k
  BY <1>1
<1>3. g \in Seq(Seq(Int)) /\ \A i \in 1..k : g[i] = Items[i]
  <2> DEFINE c == SubSeq(Items, 1, k)
  <2>1. c \in Seq(Seq(Int)) /\ \A i \in 1..k : c[i] = Items[i]
    BY <1>1, <1>2, SplitAt, Zenon
  <2>2. g = c
    OBVIOUS
  <2> HIDE DEF c
  <2> QED
    BY <2>1, <2>2, Zenon
<1>4. Last(g) = Items[k]
  BY <1>2, <1>3, Zenon DEF Last
<1> DEFINE a == Front(g)
           b == SubSeq(Items, 1, k - 1)
<1>5. a \in Seq(Seq(Int)) /\ Len(a) = k - 1 /\ \A i \in 1..(k - 1) : a[i] = g[i]
  BY <1>3, FrontIs, Zenon
<1>6. b \in Seq(Seq(Int)) /\ Len(b) = k - 1 /\ \A i \in 1..(k - 1) : b[i] = Items[i]
  BY <1>2, PrefixIs, Zenon DEF OpensWith
<1> HIDE DEF a, b
<1>7. \A i \in 1..(k - 1) : a[i] = b[i]
  BY <1>2, <1>3, <1>5, <1>6, Zenon
<1>8. a = b
  BY <1>5, <1>6, <1>7, SeqEqual
<1> QED
  BY <1>4, <1>5, <1>8, Zenon DEF a, b

(* What the thread answers when a function has ended.                       *)
LEMMA Answers ==
  ASSUME regs \in RegsOf(unit), SelectAndTransfer, regs.cdb.f \in Funcs,
         NEW i \in Int, NEW h, NEW s, NEW m, NEW p, Ends(Answer, i, h, s, m, p)
  PROVE  /\ At(drive', h, s, m, p) /\ tpc' = "wait"
         /\ regs'.status = IF i < 0 THEN 66 ELSE 22
<1>1. Answer.ret = i /\ Answer.ok = TRUE /\ At(Answer.drive, h, s, m, p)
  BY Zenon DEF Ends
<1> DEFINE n == IF Answer.ret < 0 THEN 0 ELSE Answer.ret
           t == IF Answer.ret < 0 THEN 66 ELSE 22
<1>2. /\ drive' = Answer.drive /\ tpc' = "wait"
      /\ regs' = [regs EXCEPT !.int = TRUE, !.count = n, !.status = t]
  BY <1>1, Zenon DEF SelectAndTransfer
<1>3. n \in Int /\ t \in Nat /\ t = IF i < 0 THEN 66 ELSE 22
  BY <1>1
<1> HIDE DEF n, t
<1>4. Shows([regs EXCEPT !.int = TRUE, !.count = n, !.status = t],
            unit, regs.cmd, regs.cdb, n, t, TRUE)
  BY <1>3, AllWritten, Zenon
<1>5. regs'.status = t
  BY <1>2, <1>4, Zenon DEF Shows
<1> QED
  BY <1>1, <1>2, <1>3, <1>5, Zenon

LEMMA NoAnswer ==
  ASSUME regs \in RegsOf(unit), SelectAndTransfer, regs.cdb.f \notin Funcs
  PROVE  drive' = drive /\ tpc' = "wait" /\ regs'.status = 66
<1>1. /\ drive' = drive /\ tpc' = "wait"
      /\ regs' = [regs EXCEPT !.int = TRUE, !.status = 66]
  BY Zenon DEF SelectAndTransfer
<1>2. 66 \in Nat /\ 0 \in Int
  OBVIOUS
<1>3. Shows([regs EXCEPT !.int = TRUE, !.status = 66],
            unit, regs.cmd, regs.cdb, regs.count, 66, TRUE)
  BY <1>2, AllWritten, Zenon
<1> QED
  BY <1>1, <1>3, Zenon DEF Shows

(* Where the head is behind the first k items, nothing has failed ...       *)
LEMMA PlacedThere ==
  ASSUME NEW d, NEW k \in 0..Len(Items), d.head = Offset(k)
  PROVE  Placed(d, SubSeq(Items, 1, k), FALSE)
<1> DEFINE g == SubSeq(Items, 1, k)
<1>1. Len(g) = k
  BY PrefixIs, Zenon DEF OpensWith
<1>2. g = SubSeq(Items, 1, Len(g))
  BY <1>1, Zenon
<1> HIDE DEF g
<1>3. Placed(d, g, FALSE)
  BY <1>1, <1>2, Zenon DEF Placed
<1> QED
  BY <1>3, Zenon DEF g

(* ... or a read has, at the mark before it, or at the end.                 *)
LEMMA PlacedFailed ==
  ASSUME NEW d, NEW k \in 0..Len(Items),
         \/ /\ d.sense = AtMark /\ k < Len(Items)
            /\ Items[k + 1] = << >> /\ d.head = Offset(k + 1)
         \/ d.sense = AtEom /\ d.head = Offset(k)
  PROVE  Placed(d, SubSeq(Items, 1, k), TRUE)
<1> DEFINE g == SubSeq(Items, 1, k)
<1>1. Len(g) = k
  BY PrefixIs, Zenon DEF OpensWith
<1>2. g = SubSeq(Items, 1, Len(g))
  BY <1>1, Zenon
<1> HIDE DEF g
<1>3. Placed(d, g, TRUE)
  BY <1>1, <1>2, Zenon DEF Placed
<1> QED
  BY <1>3, Zenon DEF g

LEMMA TapeServe ==
  ASSUME Base, TapeInv, ~ abandoned, unit = "tape", Serve
  PROVE  tpc' # "aborted" /\ Placed(drive', Seen', Failing')
<1> USE DEF Base
<1> DEFINE k == Len(got)
<1>1. /\ tpc = "woken" /\ guest = "busy" /\ guest' = "busy" /\ ~ abandoned' /\ ~ abandoned
      /\ op' = op /\ got' = got /\ failed' = failed /\ unit' = "tape"
  BY Zenon DEF Serve, guestvars, history, CtlInv
<1>2. /\ regs \in RegsOf(unit) /\ regs.cmd \in {"reset", "select"}
      /\ drive \in Drive /\ failed \in BOOLEAN
  BY RegsAre, Zenon DEF TypeOK
<1>3. /\ Placed(drive, got, failed)
      /\ failed => op.f = "sense"
      /\ op.f = "space" => got # << >> /\ Last(got) = << >>
  BY <1>1, Zenon DEF TapeInv
<1>4. /\ k \in 0..Len(Items) /\ got = SubSeq(Items, 1, k)
      /\ ~ failed => drive.head = Offset(k)
  BY <1>3, Zenon DEF Placed
<1>5. Len(Items) \in Nat /\ k \in Nat
  BY <1>4, Tape
<1> HIDE DEF k
<1>6. ASSUME op.f # "sense", drive'.head = drive.head,
             op.f = "ready" \/ regs'.status # 22,
             op.f # "read" \/ regs'.status # 66
      PROVE  Placed(drive', Seen', Failing')
  <2>1. Seen' = got
    BY <1>1, <1>6, Zenon DEF Seen
  <2>2. Failing' = FALSE
    BY <1>1, <1>6 DEF Failing
  <2>3. drive'.head = Offset(k)
    BY <1>3, <1>4, <1>6, Zenon
  <2>4. Placed(drive', SubSeq(Items, 1, k), FALSE)
    BY <1>4, <2>3, PlacedThere, Zenon
  <2> QED
    BY <1>4, <2>1, <2>2, <2>4, Zenon
<1>7. CASE op.f = "reset"
  <2>1. regs.cmd = "reset"
    BY <1>1, <1>7, Zenon DEF CtlInv
  <2>2. /\ regs' = [NoRegs EXCEPT !.status = 1, !.int = TRUE]
        /\ tpc' = "wait" /\ drive' = drive
    BY <2>1, Zenon DEF Serve, ResetChip
  <2>3. regs'.status = 1
    <3>1. 1 \in Nat /\ TRUE \in BOOLEAN
      OBVIOUS
    <3>2. Shows([NoRegs EXCEPT !.status = 1, !.int = TRUE], unit, "reset", NoCdb, 0, 1, TRUE)
      BY <3>1, NoRegsAre, Zenon
    <3> QED
      BY <2>2, <3>2, Zenon DEF Shows
  <2>4. op.f # "sense" /\ drive'.head = drive.head /\ regs'.status # 22 /\ regs'.status # 66
    BY <1>7, <2>2, <2>3
  <2>5. Placed(drive', Seen', Failing')
    BY <1>6, <2>4, Zenon
  <2> QED
    BY <2>2, <2>5
<1>8. CASE op.f # "reset"
  <2>1. regs.cmd = "select" /\ regs.cdb = op /\ regs.count = MaxLen /\ SelectAndTransfer
    <3>1. regs.cmd = "select" /\ regs.cdb = op /\ regs.count = Asked /\ Asked = MaxLen
      BY <1>1, <1>8, Zenon DEF CtlInv, Asked
    <3>2. regs.cmd # "reset"
      BY <3>1
    <3> QED
      BY <3>1, <3>2, Zenon DEF Serve
  <2>2. Funcs = TapeFuncs /\ Answer = TapeFunc(drive, op, MaxLen) /\ MaxLen # 0
    <3>1. MaxLen # 0
      BY DevAssumption
    <3> QED
      BY <2>1, <3>1, Zenon DEF Funcs, Answer
  <2>3. CASE op.f \notin TapeFuncs
    <3>1. drive' = drive /\ tpc' = "wait" /\ regs'.status = 66
      BY <1>2, <2>1, <2>2, <2>3, NoAnswer, Zenon
    <3>2. op.f # "sense" /\ op.f # "read" /\ drive'.head = drive.head /\ regs'.status # 22
      BY <2>3, <3>1 DEF TapeFuncs
    <3>3. Placed(drive', Seen', Failing')
      BY <1>6, <3>2, Zenon
    <3> QED
      BY <3>1, <3>3
  <2>4. ASSUME op.f \in TapeFuncs, NEW i \in Int, NEW h, NEW s, NEW m, NEW p,
               Ends(Answer, i, h, s, m, p)
        PROVE  /\ At(drive', h, s, m, p) /\ tpc' = "wait"
               /\ regs'.status = IF i < 0 THEN 66 ELSE 22
    BY <1>2, <2>1, <2>2, <2>4, Answers, Zenon
  <2>5. CASE op.f = "ready"
    <3>1. op.f \in TapeFuncs /\ 0 \in Int
      BY <2>5 DEF TapeFuncs
    <3>2. Answer = Nothing(drive)
      BY <2>2, <2>5 DEF TapeFunc
    <3>3. Ends(Answer, 0, drive.head, drive.sense, drive.ram, drive.map)
      BY <1>2, <3>2, NothingIs, Zenon
    <3>4. At(drive', drive.head, drive.sense, drive.ram, drive.map) /\ tpc' = "wait"
      BY <2>4, <3>1, <3>3, Zenon
    <3>5. drive'.head = drive.head
      BY <3>4, Zenon DEF At
    <3>6. op.f # "sense" /\ op.f # "read"
      BY <2>5
    <3>7. Placed(drive', Seen', Failing')
      BY <1>6, <2>5, <3>5, <3>6, Zenon
    <3> QED
      BY <3>4, <3>7
  <2>6. CASE op.f = "rewind"
    <3>1. op.f \in TapeFuncs /\ 0 \in Int /\ ~ (0 < 0)
      BY <2>6 DEF TapeFuncs
    <3>2. Answer = Rewind(drive)
      BY <2>2, <2>6 DEF TapeFunc
    <3>3. Ends(Answer, 0, 0, drive.sense, drive.ram, drive.map)
      BY <1>2, <3>2, RewindIs, Zenon
    <3>4. /\ At(drive', 0, drive.sense, drive.ram, drive.map) /\ tpc' = "wait"
          /\ regs'.status = 22
      BY <2>4, <3>1, <3>3, Zenon
    <3>5. Seen' = << >> /\ Failing' = FALSE
      BY <1>1, <2>6, <3>4 DEF Seen, Failing
    <3>6. 0 \in 0..Len(Items) /\ drive'.head = Offset(0)
      BY <1>5, <3>4, Tape DEF At
    <3>7. SubSeq(Items, 1, 0) = << >>
      <4>1. OpensWith(SubSeq(Items, 1, 0), 0)
        BY <3>6, PrefixIs, Zenon
      <4> QED
        BY <4>1, EmptySeq DEF OpensWith
    <3>8. Placed(drive', SubSeq(Items, 1, 0), FALSE)
      BY <3>6, PlacedThere, Zenon
    <3> QED
      BY <3>4, <3>5, <3>7, <3>8, Zenon
  <2>7. CASE op.f = "sense"
    <3>1. op.f \in TapeFuncs /\ 0 \in Int /\ ~ (0 < 0)
      BY <2>7 DEF TapeFuncs
    <3>2. Answer = RequestSense(drive, MaxLen) /\ MaxLen # 0
      BY <2>2, <2>7 DEF TapeFunc
    <3>3. Ends(Answer, 0, drive.head, drive.sense, << drive.sense >>, drive.map)
      BY <1>2, <3>2, RequestSenseIs, Zenon
    <3>4. /\ At(drive', drive.head, drive.sense, << drive.sense >>, drive.map)
          /\ tpc' = "wait" /\ regs'.status = 22
      BY <2>4, <3>1, <3>3, Zenon
    <3>5. /\ drive'.head = drive.head /\ drive'.ram = << drive.sense >>
      BY <3>4, Zenon DEF At
    <3>6. Failing' = FALSE
      BY <1>1, <2>7 DEF Failing
    <3>7. ASSUME failed, drive.sense = AtMark, k < Len(Items), Items[k + 1] = << >>,
                 drive.head = Offset(k + 1)
          PROVE  Placed(drive', Seen', Failing')
      <4>1. Seen' = Append(got, << >>)
        BY <1>1, <2>7, <3>4, <3>5, <3>7 DEF Seen
      <4>2. Append(SubSeq(Items, 1, k), Items[k + 1]) = SubSeq(Items, 1, k + 1)
        BY <1>5, <3>7, PrefixNext, Zenon
      <4>3. Seen' = SubSeq(Items, 1, k + 1)
        BY <1>4, <3>7, <4>1, <4>2, Zenon
      <4>4. k + 1 \in 0..Len(Items) /\ drive'.head = Offset(k + 1)
        BY <1>5, <3>5, <3>7
      <4>5. Placed(drive', SubSeq(Items, 1, k + 1), FALSE)
        BY <4>4, PlacedThere, Zenon
      <4> QED
        BY <3>6, <4>3, <4>5, Zenon
    <3>8. ASSUME ~ failed \/ drive.sense = AtEom, drive.head = Offset(k)
          PROVE  Placed(drive', Seen', Failing')
      <4>1. Seen' = got
        <5>1. ~ (failed /\ drive'.ram = << AtMark >>)
          BY <3>5, <3>8 DEF AtMark, AtEom
        <5> DEFINE m == drive'.ram = << AtMark >>
                   a == Append(got, << >>)
        <5>2. Seen' = IF failed /\ m THEN a ELSE got
          BY <1>1, <2>7, <3>4 DEF Seen
        <5> QED
          BY <5>1, <5>2, Zenon
      <4>2. drive'.head = Offset(k)
        BY <3>5, <3>8, Zenon
      <4>3. Placed(drive', SubSeq(Items, 1, k), FALSE)
        BY <1>4, <4>2, PlacedThere, Zenon
      <4> QED
        BY <1>4, <3>6, <4>1, <4>3, Zenon
    <3>9. \/ failed /\ drive.sense = AtMark /\ k < Len(Items) /\ Items[k + 1] = << >>
             /\ drive.head = Offset(k + 1)
          \/ (~ failed \/ drive.sense = AtEom) /\ drive.head = Offset(k)
      BY <1>3, <1>4, Zenon DEF Placed, k
    <3> QED
      BY <3>4, <3>7, <3>8, <3>9
  <2>8. CASE op.f = "read"
    <3>1. op.f \in TapeFuncs /\ -1 \in Int /\ -1 < 0 /\ \A i \in Nat : i \in Int /\ ~ (i < 0)
      BY <2>8 DEF TapeFuncs
    <3>2. Answer = ReadTape(drive, MaxLen)
      BY <2>2, <2>8 DEF TapeFunc
    <3>3. ~ failed /\ drive.head = Offset(k)
      BY <1>3, <1>4, <2>8
    <3>4. /\ k < Len(Items) /\ Items[k + 1] = << >> =>
               Ends(Answer, -1, Offset(k + 1), AtMark, drive.ram, drive.map)
          /\ k < Len(Items) /\ Items[k + 1] # << >> =>
               \E i \in Nat : Ends(Answer, i, Offset(k + 1), 0, Items[k + 1], drive.map)
          /\ k = Len(Items) =>
               Ends(Answer, -1, Offset(k), AtEom, drive.ram, drive.map)
      BY <1>2, <1>4, <2>2, <3>2, <3>3, ReadItem, Zenon
    <3>5. ASSUME NEW h, NEW s, NEW m, NEW p, Ends(Answer, -1, h, s, m, p),
                 \/ s = AtMark /\ k < Len(Items) /\ Items[k + 1] = << >> /\ h = Offset(k + 1)
                 \/ s = AtEom /\ h = Offset(k)
          PROVE  tpc' = "wait" /\ Placed(drive', Seen', Failing')
      <4>1. At(drive', h, s, m, p) /\ tpc' = "wait" /\ regs'.status = 66
        BY <2>4, <3>1, <3>5, Zenon
      <4>2. drive'.head = h /\ drive'.sense = s
        BY <4>1, Zenon DEF At
      <4>3. Seen' = got /\ Failing' = TRUE
        BY <1>1, <2>8, <4>1 DEF Seen, Failing
      <4>4. Placed(drive', SubSeq(Items, 1, k), TRUE)
        BY <1>4, <3>5, <4>2, PlacedFailed, Zenon
      <4> QED
        BY <1>4, <4>1, <4>3, <4>4, Zenon
    <3>6. ASSUME k < Len(Items), NEW i \in Nat,
                 Ends(Answer, i, Offset(k + 1), 0, Items[k + 1], drive.map)
          PROVE  tpc' = "wait" /\ Placed(drive', Seen', Failing')
      <4>1. /\ At(drive', Offset(k + 1), 0, Items[k + 1], drive.map) /\ tpc' = "wait"
            /\ regs'.status = 22
        <5>1. op.f \in TapeFuncs /\ i \in Int /\ ~ (i < 0)
          BY <3>1, Zenon
        <5>2. /\ At(drive', Offset(k + 1), 0, Items[k + 1], drive.map) /\ tpc' = "wait"
              /\ regs'.status = IF i < 0 THEN 66 ELSE 22
          BY <2>4, <3>6, <5>1, Zenon
        <5> QED
          BY <5>1, <5>2, Zenon
      <4>2. drive'.head = Offset(k + 1) /\ drive'.ram = Items[k + 1]
        BY <4>1, Zenon DEF At
      <4>3. Seen' = Append(got, Items[k + 1]) /\ Failing' = FALSE
        <5>1. Failing' = FALSE
          BY <1>1, <2>8, <4>1 DEF Failing
        <5>2. Seen' = Append(got, drive'.ram)
          BY <1>1, <2>8, <4>1 DEF Seen
        <5> QED
          BY <4>2, <5>1, <5>2, Zenon
      <4>4. Append(SubSeq(Items, 1, k), Items[k + 1]) = SubSeq(Items, 1, k + 1)
        BY <1>5, <3>6, PrefixNext, Zenon
      <4>5. Seen' = SubSeq(Items, 1, k + 1)
        BY <1>4, <4>3, <4>4, Zenon
      <4>6. k + 1 \in 0..Len(Items)
        BY <1>5, <3>6
      <4>7. Placed(drive', SubSeq(Items, 1, k + 1), FALSE)
        BY <4>2, <4>6, PlacedThere, Zenon
      <4> QED
        BY <4>1, <4>3, <4>5, <4>7, Zenon
    <3>7. k < Len(Items) \/ k = Len(Items)
      BY <1>4, <1>5
    <3>8. tpc' = "wait" /\ Placed(drive', Seen', Failing')
      BY <3>4, <3>5, <3>6, <3>7, Zenon
    <3> QED
      BY <3>8
  <2>9. CASE op.f = "space"
    <3>1. op.f \in TapeFuncs /\ 0 \in Int /\ ~ (0 < 0)
      BY <2>9 DEF TapeFuncs
    <3>2. Answer = Space(drive)
      BY <2>2, <2>9 DEF TapeFunc
    <3>3. Ends(Answer, 0, drive.head - 1, 0, drive.ram, drive.map)
      BY <1>2, <3>2, SpaceIs, Zenon
    <3>4. /\ At(drive', drive.head - 1, 0, drive.ram, drive.map) /\ tpc' = "wait"
          /\ regs'.status = 22
      BY <2>4, <3>1, <3>3, Zenon
    <3>5. Seen' = Front(got) /\ Failing' = FALSE
      BY <1>1, <2>9, <3>4 DEF Seen, Failing
    <3>6. drive'.head = drive.head - 1 /\ drive.head = Offset(k)
      <4>1. drive'.head = drive.head - 1
        BY <3>4, Zenon DEF At
      <4>2. ~ failed
        BY <1>3, <2>9
      <4> QED
        BY <1>4, <4>1, <4>2
    <3>7. k > 0 /\ k <= Len(Items) /\ Len(got) = k
      <4>1. Len(got) = k /\ got \in Seq(Seq(Int))
        BY Zenon DEF k, TypeOK
      <4>2. k # 0
        BY <1>3, <2>9, <4>1, EmptySeq
      <4> QED
        BY <1>4, <1>5, <4>1, <4>2
    <3>8. /\ Front(got) = SubSeq(Items, 1, k - 1) /\ Last(got) = Items[k]
      BY <1>4, <1>5, <3>7, PrefixFront, Zenon
    <3>9. /\ k - 1 \in 0..Len(Items) /\ k - 1 < Len(Items) /\ (k - 1) + 1 = k
      BY <1>5, <3>7
    <3>10. Offset(k) = Offset(k - 1) + Len(Word(Items[k]))
      <4>1. Offset((k - 1) + 1) = Offset(k - 1) + Len(Word(Items[(k - 1) + 1]))
        BY <3>9, Tape, Zenon
      <4> QED
        BY <3>9, <4>1, Zenon
    <3>11. Len(Word(Items[k])) = 1
      <4>1. << >> \in Seq(Int) /\ Items[k] = << >>
        BY <1>3, <2>9, <3>8
      <4> QED
        BY <4>1, WordIs, Zenon
    <3>12. drive'.head = Offset(k - 1)
      <4>1. Offset(k - 1) \in Nat
        BY <3>9, Tape, Zenon
      <4> QED
        BY <3>6, <3>10, <3>11, <4>1
    <3>13. Placed(drive', SubSeq(Items, 1, k - 1), FALSE)
      BY <3>9, <3>12, PlacedThere, Zenon
    <3> QED
      BY <3>4, <3>5, <3>8, <3>13, Zenon
  <2> QED
    BY <2>3, <2>5, <2>6, <2>7, <2>8, <2>9, Zenon DEF TapeFuncs
<1> QED
  BY <1>7, <1>8

LEMMA PlacedStays ==
  ASSUME NEW d, NEW e, NEW g, NEW f, Placed(d, g, f), e.head = d.head, e.sense = d.sense
  PROVE  Placed(e, g, f)
BY Zenon DEF Placed

LEMMA TapeStep ==
  ASSUME Base, TapeInv, [Next]_vars
  PROVE  TapeInv'
<1> USE DEF Base
<1> SUFFICES ASSUME ~ abandoned', unit' = "tape"
             PROVE  TapeInv'
  BY Zenon DEF TapeInv
<1>1. drive \in Drive /\ 0 \in Int
  BY DEF TypeOK
<1>2. CASE Serve
  <2>1. /\ ~ abandoned /\ unit = "tape" /\ guest' = guest /\ tpc = "woken"
        /\ tpc' # "woken"
    BY <1>2, Zenon DEF Serve, ResetChip, SelectAndTransfer, guestvars, history
  <2>2. guest' = "busy"
    BY <2>1, Zenon DEF CtlInv
  <2>3. tpc' # "aborted" /\ Placed(drive', Seen', Failing')
    BY <1>2, <2>1, TapeServe, Zenon
  <2> QED
    BY <2>1, <2>2, <2>3, Zenon DEF TapeInv
<1>3. CASE ResetCb
  <2>1. /\ ~ abandoned /\ unit = "tape" /\ resets > 0 /\ tpc' = tpc /\ guest' = guest
        /\ drive' = [drive EXCEPT !.head = 0]
    BY <1>3, Zenon DEF ResetCb, guestvars, history
  <2>2. guest' = "reset" /\ tpc' # "woken"
    BY <2>1, Zenon DEF CtlInv
  <2>3. tpc' # "aborted"
    BY <2>1, Zenon DEF TapeInv
  <2>4. drive'.head = 0
    <3>1. At([drive EXCEPT !.head = 0], 0, drive.sense, drive.ram, drive.map)
      BY <1>1, HeadChanged, Zenon
    <3> QED
      BY <2>1, <3>1, Zenon DEF At
  <2> QED
    BY <2>2, <2>3, <2>4, Zenon DEF TapeInv
<1>4. CASE \E c \in Cdbs[unit] : WriteCdb(c)
  <2>1. PICK c \in Cdbs[unit] : WriteCdb(c)
    BY <1>4
  <2>2. /\ ~ abandoned /\ unit = "tape" /\ guest = "idle" /\ guest' = "cdb" /\ op' = c
        /\ Sensible(c)
        /\ UNCHANGED <<irq, tpc, failed, got>>
    BY <2>1, Zenon DEF WriteCdb
  <2>3. drive'.head = drive.head /\ drive'.sense = drive.sense
    <3>1. CASE c.f = "write"
      <4> DEFINE m == [i \in 1..c.n |-> nwrites + 1]
      <4>1. drive' = [drive EXCEPT !.ram = m]
        BY <2>1, <3>1, Zenon DEF WriteCdb
      <4> HIDE DEF m
      <4>2. [drive EXCEPT !.ram = m].head = drive.head /\ [drive EXCEPT !.ram = m].sense = drive.sense
        BY <1>1 DEF Drive
      <4> QED
        BY <4>1, <4>2, Zenon
    <3>2. CASE c.f # "write"
      BY <2>1, <3>2, Zenon DEF WriteCdb
    <3> QED
      BY <3>1, <3>2
  <2>4. tpc # "aborted" /\ Placed(drive, got, failed)
    BY <2>2, Zenon DEF TapeInv
  <2>5. Placed(drive', got, failed)
    BY <2>3, <2>4, PlacedStays, Zenon
  <2>6. /\ failed' => op'.f = "sense"
        /\ op'.f = "space" => got' # << >> /\ Last(got') = << >>
    BY <2>2, Zenon DEF Sensible
  <2> QED
    BY <2>2, <2>4, <2>5, <2>6, Zenon DEF TapeInv
<1>5. CASE WriteCount
  <2>1. /\ ~ abandoned /\ unit = "tape" /\ guest = "cdb" /\ guest' = "count"
        /\ UNCHANGED <<irq, tpc, failed, got, drive, op>>
    BY <1>5, Zenon DEF WriteCount, history
  <2> QED
    BY <2>1, Zenon DEF TapeInv
<1>6. CASE Select
  <2>1. /\ ~ abandoned /\ unit = "tape" /\ guest = "count" /\ guest' = "busy"
        /\ tpc' = (IF tpc = "wait" THEN "woken" ELSE tpc)
        /\ UNCHANGED <<irq, failed, got, drive, op>>
    BY <1>6, Zenon DEF Select, WriteCmd, history
  <2>2. ~ irq'
    BY <2>1, Zenon DEF CtlInv
  <2>3. tpc' # "aborted"
    BY <2>1 DEF TapeInv
  <2>4. /\ Placed(drive, got, failed) /\ (failed => op.f = "sense")
        /\ (op.f = "space" => got # << >> /\ Last(got) = << >>)
    BY <2>1, Zenon DEF TapeInv
  <2>5. Placed(drive', got', failed')
    BY <2>1, <2>4, Zenon
  <2> QED
    BY <2>1, <2>2, <2>3, <2>4, <2>5, Zenon DEF TapeInv
<1>7. CASE SelectReset
  <2>1. /\ ~ abandoned /\ unit = "tape" /\ guest = "idle" /\ guest' = "busy" /\ ~ failed
        /\ tpc' = (IF tpc = "wait" THEN "woken" ELSE tpc) /\ op' = Reset
        /\ UNCHANGED <<irq, failed, got, drive>>
    BY <1>7, Zenon DEF SelectReset, WriteCmd, history
  <2>2. ~ irq'
    BY <2>1, Zenon DEF CtlInv
  <2>3. tpc' # "aborted"
    BY <2>1 DEF TapeInv
  <2>4. Placed(drive, got, failed) /\ op'.f # "space" /\ ~ failed'
    <3>1. Reset.f # "space"
      BY DEF Reset, NoCdb
    <3> QED
      BY <2>1, <3>1, Zenon DEF TapeInv
  <2>5. Placed(drive', got', failed')
    BY <2>1, <2>4, Zenon
  <2> QED
    BY <2>1, <2>2, <2>3, <2>4, <2>5, Zenon DEF TapeInv
<1>8. CASE ReadStatus
  <2>1. /\ ~ abandoned /\ unit = "tape" /\ irq /\ irq' = FALSE
        /\ guest' = (IF guest \in {"busy", "reset"} THEN "idle" ELSE guest)
        /\ failed' = Failing /\ got' = Seen
        /\ drive' = (IF op.f = "write" THEN drive ELSE [drive EXCEPT !.ram = << >>])
        /\ UNCHANGED <<tpc, op>>
    BY <1>8, Zenon DEF ReadStatus
  <2>2. tpc' # "woken" /\ guest \in {"busy", "reset"} /\ guest' = "idle"
    BY <2>1, Zenon DEF CtlInv
  <2>3. tpc' # "aborted"
    BY <2>1, Zenon DEF TapeInv
  <2>4. Placed(drive, Seen, Failing)
    <3>1. CASE guest = "busy"
      BY <2>1, <3>1, Zenon DEF TapeInv
    <3>2. CASE guest = "reset"
      <4>1. drive.head = 0
        BY <2>1, <3>2, Zenon DEF TapeInv
      <4>2. Seen = << >> /\ Failing = FALSE
        BY <3>2 DEF Seen, Failing
      <4>3. 0 \in 0..Len(Items) /\ drive.head = Offset(0)
        BY <4>1, Tape
      <4>4. SubSeq(Items, 1, 0) = << >>
        <5>1. OpensWith(SubSeq(Items, 1, 0), 0)
          BY <4>3, PrefixIs, Zenon
        <5> QED
          BY <5>1, EmptySeq DEF OpensWith
      <4>5. Placed(drive, SubSeq(Items, 1, 0), FALSE)
        BY <4>3, PlacedThere, Zenon
      <4> QED
        BY <4>2, <4>4, <4>5, Zenon
    <3> QED
      BY <2>2, <3>1, <3>2, Zenon
  <2>5. drive'.head = drive.head /\ drive'.sense = drive.sense
    <3>1. [drive EXCEPT !.ram = << >>].head = drive.head
          /\ [drive EXCEPT !.ram = << >>].sense = drive.sense
      BY <1>1 DEF Drive
    <3> QED
      BY <2>1, <3>1, Zenon
  <2>6. Placed(drive', Seen, Failing)
    BY <2>4, <2>5, PlacedStays, Zenon
  <2>7. Placed(drive', got', failed')
    BY <2>1, <2>6, Zenon
  <2> QED
    BY <2>2, <2>3, <2>7, Zenon DEF TapeInv
<1>9. CASE PulseReset
  <2>1. /\ ~ abandoned /\ unit = "tape" /\ irq' = FALSE /\ guest' = "reset" /\ tpc' = tpc
        /\ tpc # "woken" /\ tpc # "aborted"
    BY <1>9, Zenon DEF PulseReset
  <2> QED
    BY <2>1, Zenon DEF TapeInv
<1>10. CASE \E s \in 1..NSectors : Patch(s)
  <2>1. unit' = "disk"
    BY <1>10, Zenon DEF Patch
  <2> QED
    BY <2>1
<1>11. CASE UNCHANGED vars
  <2>1. UNCHANGED <<unit, regs, irq, tpc, drive, guest, op, failed, got, abandoned>>
    BY <1>11, Zenon DEF vars, guestvars, history
  <2>2. Seen' = Seen /\ Failing' = Failing
    BY <2>1, Zenon DEF Seen, Failing
  <2> QED
    BY <2>1, <2>2, Zenon DEF TapeInv
<1> QED
  BY <1>2, <1>3, <1>4, <1>5, <1>6, <1>7, <1>8, <1>9, <1>10, <1>11, Zenon DEF Next

-----------------------------------------------------------------------------
(* The disk: what the sectors hold, and what the guest believes they do.    *)

LEMMA DiskServe ==
  ASSUME Base, DiskInv, ~ abandoned, unit = "disk", Serve
  PROVE  /\ tpc' # "aborted" /\ DiskKeeps'
         /\ \A s \in DOMAIN kept' :
              Written(s)' => regs'.status = 22 /\ drive'.map[s] = nwrites'
<1> USE DEF Base
<1>1. /\ tpc = "woken" /\ guest = "busy" /\ guest' = "busy"
      /\ op' = op /\ kept' = kept /\ nwrites' = nwrites
  BY Zenon DEF Serve, guestvars, history, CtlInv
<1>2. /\ regs \in RegsOf(unit) /\ drive \in Drive /\ unit \in Kinds
      /\ regs.cdb \in Known(unit)
  BY RegsAre, Zenon DEF TypeOK
<1>3. \A s \in DOMAIN kept :
        drive.map[s] \in kept[s] \cup (IF Written(s) THEN {nwrites} ELSE {})
  BY Zenon DEF DiskInv, DiskKeeps
<1>4. DOMAIN kept = 1..NSectors /\ NSectors \in Nat
  BY DevAssumption DEF TypeOK
<1>5. \A s : Written(s)' <=> Written(s)
  BY <1>1, Zenon DEF Written
<1>6. ASSUME drive'.map = drive.map, op.f # "write",
             op.f = "read" => drive'.ram = SubSeq(drive.map, op.lba + 1, op.lba + op.n)
      PROVE  /\ DiskKeeps'
             /\ \A s \in DOMAIN kept' :
                  Written(s)' => regs'.status = 22 /\ drive'.map[s] = nwrites'
  <2>1. \A s : ~ Written(s)'
    BY <1>1, <1>5, <1>6, Zenon DEF Written
  <2>2. \A s \in DOMAIN kept' :
          drive'.map[s] \in kept'[s] \cup (IF Written(s)' THEN {nwrites'} ELSE {})
    BY <1>1, <1>3, <1>5, <1>6, Zenon
  <2>3. op'.f = "read" => drive'.ram = SubSeq(drive'.map, op'.lba + 1, op'.lba + op'.n)
    BY <1>1, <1>6, Zenon
  <2> QED
    BY <2>1, <2>2, <2>3, Zenon DEF DiskKeeps
<1>7. CASE op.f = "reset"
  <2>1. regs.cmd = "reset"
    BY <1>1, <1>7, Zenon DEF CtlInv
  <2>2. tpc' = "wait" /\ drive' = drive
    BY <2>1, Zenon DEF Serve, ResetChip
  <2>3. drive'.map = drive.map /\ op.f # "write" /\ op.f # "read"
    BY <1>7, <2>2
  <2> QED
    BY <1>6, <2>2, <2>3
<1>8. CASE op.f # "reset"
  <2>1. regs.cmd = "select" /\ regs.cdb = op /\ regs.count = op.n /\ SelectAndTransfer
    <3>1. regs.cmd = "select" /\ regs.cdb = op /\ regs.count = Asked /\ Asked = op.n
      <4>1. unit # "tape"
        OBVIOUS
      <4> QED
        BY <1>1, <1>8, <4>1, Zenon DEF CtlInv, Asked
    <3>2. regs.cmd # "reset"
      BY <3>1
    <3> QED
      BY <3>1, <3>2, Zenon DEF Serve
  <2>2. Funcs = DiskFuncs /\ Answer = DiskFunc(drive, op, op.n)
    <3>1. unit # "tape"
      OBVIOUS
    <3> QED
      BY <2>1, <3>1, Zenon DEF Funcs, Answer
  <2>3. /\ op.lba \in Nat /\ op.n \in Nat /\ ~ (op.n > op.n)
        /\ op.f \in {"read", "write"} => op.lba + op.n <= NSectors
        /\ op.f = "page" => op.n > 0
    <3>1. /\ op.lba \in Nat /\ op.n \in Nat
          /\ op.f \in {"read", "write"} => op.lba + op.n <= NSectors
          /\ op.f = "page" => op.n > 0
      BY <1>2, <2>1, KnownIs, Zenon
    <3> QED
      BY <3>1
  <2>4. CASE op.f \notin DiskFuncs
    <3>1. drive' = drive /\ tpc' = "wait"
      BY <1>2, <2>1, <2>2, <2>4, NoAnswer, Zenon
    <3>2. drive'.map = drive.map /\ op.f # "write" /\ op.f # "read"
      BY <2>4, <3>1 DEF DiskFuncs
    <3> QED
      BY <1>6, <3>1, <3>2
  <2>5. ASSUME op.f \in DiskFuncs, NEW i \in Int, NEW h, NEW s, NEW m, NEW p,
               Ends(Answer, i, h, s, m, p)
        PROVE  /\ At(drive', h, s, m, p) /\ tpc' = "wait"
               /\ regs'.status = IF i < 0 THEN 66 ELSE 22
    BY <1>2, <2>1, <2>2, <2>5, Answers, Zenon
  <2>6. ASSUME op.f \in DiskFuncs, op.f # "read", op.f # "write",
               NEW i \in Int, NEW h, NEW s, NEW m, Ends(Answer, i, h, s, m, drive.map)
        PROVE  /\ tpc' # "aborted" /\ DiskKeeps'
               /\ \A x \in DOMAIN kept' :
                    Written(x)' => regs'.status = 22 /\ drive'.map[x] = nwrites'
    <3>1. At(drive', h, s, m, drive.map) /\ tpc' = "wait"
      BY <2>5, <2>6, Zenon
    <3>2. drive'.map = drive.map
      BY <3>1, Zenon DEF At
    <3>3. /\ DiskKeeps'
          /\ \A x \in DOMAIN kept' :
               Written(x)' => regs'.status = 22 /\ drive'.map[x] = nwrites'
      BY <1>6, <2>6, <3>2, Zenon
    <3> QED
      BY <3>1, <3>3
  <2>7. 0 \in Int /\ ~ (0 < 0)
    OBVIOUS
  <2>8. CASE op.f \in {"ready", "format"}
    <3>1. op.f \in DiskFuncs /\ op.f # "read" /\ op.f # "write"
      BY <2>8 DEF DiskFuncs
    <3>2. Answer = Nothing(drive)
      BY <2>2, <2>8 DEF DiskFunc
    <3>3. Ends(Answer, 0, drive.head, drive.sense, drive.ram, drive.map)
      BY <1>2, <3>2, NothingIs, Zenon
    <3> QED
      BY <2>6, <2>7, <3>1, <3>3, Zenon
  <2>9. CASE op.f = "select"
    <3>1. op.f \in DiskFuncs /\ op.f # "read" /\ op.f # "write"
      BY <2>9 DEF DiskFuncs
    <3>2. Answer = ModeSelect(drive, op, op.n)
      BY <2>2, <2>9 DEF DiskFunc
    <3>3. Ends(Answer, 0, drive.head, 0, drive.ram, drive.map)
      BY <1>2, <2>3, <3>2, ModeSelectIs, Zenon
    <3> QED
      BY <2>6, <2>7, <3>1, <3>3, Zenon
  <2>10. CASE op.f = "page"
    <3>1. op.f \in DiskFuncs /\ op.f # "read" /\ op.f # "write"
      BY <2>10 DEF DiskFuncs
    <3>2. Answer = ModeSense(drive, op, op.n) /\ op.n # 0
      BY <2>2, <2>3, <2>10 DEF DiskFunc
    <3>3. \E i \in Int, m \in Memory : Ends(Answer, i, drive.head, drive.sense, m, drive.map)
      BY <1>2, <3>2, ModeSenseIs, Zenon
    <3> QED
      BY <2>6, <3>1, <3>3, Zenon
  <2>11. CASE op.f = "read"
    <3> DEFINE m == SubSeq(drive.map, op.lba + 1, op.lba + op.n)
    <3>1. op.f \in DiskFuncs /\ op.f # "write" /\ op.f \in {"read", "write"}
      BY <2>11 DEF DiskFuncs
    <3>2. Answer = ReadDisk(drive, op, op.n)
      BY <2>2, <2>11 DEF DiskFunc
    <3>3. Ends(ReadDisk(drive, op, op.n), 0, drive.head, drive.sense, m, drive.map)
      BY <1>2, <2>3, <3>1, ReadDiskIs, Zenon
    <3>4. At(drive', drive.head, drive.sense, m, drive.map) /\ tpc' = "wait"
      BY <2>5, <2>7, <3>1, <3>2, <3>3, Zenon
    <3>5. drive'.map = drive.map /\ drive'.ram = m
      BY <3>4, Zenon DEF At
    <3>6. /\ DiskKeeps'
          /\ \A x \in DOMAIN kept' :
               Written(x)' => regs'.status = 22 /\ drive'.map[x] = nwrites'
      BY <1>6, <3>1, <3>5, Zenon
    <3> QED
      BY <3>4, <3>6
  <2>12. CASE op.f = "write"
    <3> DEFINE q == Written2(drive, op)
    <3>1. op.f \in DiskFuncs /\ op.f # "read" /\ op.f \in {"read", "write"}
      BY <2>12 DEF DiskFuncs
    <3>2. Answer = WriteDisk(drive, op, op.n)
      BY <2>2, <2>12 DEF DiskFunc
    <3>3. drive.ram = [i \in 1..op.n |-> nwrites] /\ nwrites \in Nat
      BY <2>12, Zenon DEF RamInv, TypeOK
    <3>4. \A i \in 1..op.n : drive.ram[i] = nwrites /\ drive.ram[i] \in Int
      BY <3>3
    <3>5. Ends(WriteDisk(drive, op, op.n), 0, drive.head, drive.sense, drive.ram, q)
      BY <1>2, <2>3, <3>4, WriteDiskIs, Zenon
    <3>6. At(drive', drive.head, drive.sense, drive.ram, q) /\ tpc' = "wait"
          /\ regs'.status = 22
      BY <2>5, <2>7, <3>1, <3>2, <3>5, Zenon
    <3>7. drive'.map = q
      BY <3>6, Zenon DEF At
    <3>8. ASSUME NEW x \in 1..NSectors
          PROVE  /\ Written(x) => q[x] = nwrites
                 /\ ~ Written(x) => q[x] = drive.map[x]
      <4>1. Written(x) <=> x \in (op.lba + 1)..(op.lba + op.n)
        BY <1>1, <2>12, Zenon DEF Written
      <4>2. x \in (op.lba + 1)..(op.lba + op.n) => x - op.lba \in 1..op.n
        BY <2>3
      <4>3. q[x] = IF x \in (op.lba + 1)..(op.lba + op.n)
                   THEN drive.ram[x - op.lba] ELSE drive.map[x]
        BY Zenon DEF Written2
      <4> QED
        BY <3>4, <4>1, <4>2, <4>3, Zenon
    <3> HIDE DEF q
    <3>9. \A x \in DOMAIN kept' :
            drive'.map[x] \in kept'[x] \cup (IF Written(x)' THEN {nwrites'} ELSE {})
      <4> SUFFICES ASSUME NEW x \in DOMAIN kept
                   PROVE  q[x] \in kept[x] \cup (IF Written(x) THEN {nwrites} ELSE {})
        BY <1>1, <1>5, <3>7, Zenon
      <4>1. CASE Written(x)
        BY <1>4, <3>8, <4>1, Zenon
      <4>2. CASE ~ Written(x)
        <5>1. q[x] = drive.map[x]
          BY <1>4, <3>8, <4>2, Zenon
        <5> QED
          BY <1>3, <4>2, <5>1, Zenon
      <4> QED
        BY <4>1, <4>2
    <3>10. DiskKeeps'
      BY <1>1, <3>1, <3>9, Zenon DEF DiskKeeps
    <3>11. \A x \in DOMAIN kept' :
             Written(x)' => regs'.status = 22 /\ drive'.map[x] = nwrites'
      BY <1>1, <1>4, <1>5, <3>6, <3>7, <3>8, Zenon
    <3> QED
      BY <3>6, <3>10, <3>11
  <2> QED
    BY <2>4, <2>8, <2>9, <2>10, <2>11, <2>12, Zenon DEF DiskFuncs
<1> QED
  BY <1>7, <1>8

LEMMA DiskStep ==
  ASSUME Base, DiskInv, [Next]_vars
  PROVE  DiskInv'
<1> USE DEF Base
<1> SUFFICES ASSUME ~ abandoned', unit' = "disk"
             PROVE  DiskInv'
  BY Zenon DEF DiskInv
<1>1. /\ drive \in Drive /\ 0 \in Int /\ kept \in [1..NSectors -> SUBSET Int]
      /\ drive.map \in Sectors
  <2>1. drive \in Drive /\ 0 \in Int /\ kept \in [1..NSectors -> SUBSET Int]
    BY DEF TypeOK
  <2> QED
    BY <2>1, DriveIs, Zenon
<1>2. DOMAIN kept = 1..NSectors
  BY <1>1, Zenon
<1>3. ASSUME ~ abandoned, unit = "disk"
      PROVE  /\ tpc # "aborted"
             /\ \A s \in DOMAIN kept :
                  drive.map[s] \in kept[s] \cup (IF Written(s) THEN {nwrites} ELSE {})
             /\ irq /\ guest = "busy" =>
                  \A s \in DOMAIN kept : Written(s) => regs.status = 22 /\ drive.map[s] = nwrites
             /\ irq => guest \in {"busy", "reset"}
             /\ \A s : Written(s) => guest = "busy"
  BY <1>3, Zenon DEF DiskInv, DiskKeeps, Written, CtlInv
<1>4. ASSUME tpc' # "aborted", kept' = kept, drive'.map = drive.map, ~ irq' \/ guest' # "busy",
             \A s \in DOMAIN kept :
               drive.map[s] \in kept[s] \cup (IF Written(s)' THEN {nwrites'} ELSE {})
      PROVE  DiskInv'
  BY <1>4, Zenon DEF DiskInv, DiskKeeps
<1>5. ASSUME tpc' # "aborted", kept' = kept, drive'.map = drive.map, ~ irq' \/ guest' # "busy",
             ~ abandoned, unit = "disk", \A s : ~ Written(s)
      PROVE  DiskInv'
  <2>1. \A s \in DOMAIN kept : drive.map[s] \in kept[s]
    BY <1>3, <1>5, Zenon
  <2>2. \A s \in DOMAIN kept :
          drive.map[s] \in kept[s] \cup (IF Written(s)' THEN {nwrites'} ELSE {})
    BY <2>1, Zenon
  <2> QED
    BY <1>4, <1>5, <2>2, Zenon
<1>6. CASE Serve
  <2>1. ~ abandoned /\ unit = "disk"
    BY <1>6, Zenon DEF Serve, history
  <2>2. /\ tpc' # "aborted" /\ DiskKeeps'
        /\ \A s \in DOMAIN kept' :
             Written(s)' => regs'.status = 22 /\ drive'.map[s] = nwrites'
    BY <1>6, <2>1, DiskServe, Zenon
  <2> QED
    BY <2>2, Zenon DEF DiskInv
<1>7. CASE ResetCb
  <2>1. /\ ~ abandoned /\ unit = "disk" /\ tpc' = tpc /\ guest' = guest /\ kept' = kept
        /\ drive' = [drive EXCEPT !.head = 0] /\ resets > 0
    BY <1>7, Zenon DEF ResetCb, guestvars, history
  <2>2. guest = "reset"
    BY <2>1, Zenon DEF CtlInv
  <2>3. drive'.map = drive.map
    <3>1. At([drive EXCEPT !.head = 0], 0, drive.sense, drive.ram, drive.map)
      BY <1>1, HeadChanged, Zenon
    <3> QED
      BY <2>1, <3>1, Zenon DEF At
  <2>4. (\A s : ~ Written(s)) /\ guest' # "busy" /\ tpc' # "aborted"
    BY <1>3, <2>1, <2>2
  <2> QED
    BY <1>5, <2>1, <2>3, <2>4, Zenon
<1>8. CASE \E c \in Cdbs[unit] : WriteCdb(c)
  <2>1. PICK c \in Cdbs[unit] : WriteCdb(c)
    BY <1>8
  <2>2. /\ ~ abandoned /\ unit = "disk" /\ guest = "idle" /\ guest' = "cdb"
        /\ UNCHANGED <<tpc, kept>>
    BY <2>1, Zenon DEF WriteCdb
  <2>3. drive'.map = drive.map
    <3>1. CASE c.f = "write"
      <4> DEFINE m == [i \in 1..c.n |-> nwrites + 1]
      <4>1. drive' = [drive EXCEPT !.ram = m]
        BY <2>1, <3>1, Zenon DEF WriteCdb
      <4> HIDE DEF m
      <4>2. [drive EXCEPT !.ram = m].map = drive.map
        BY <1>1 DEF Drive
      <4> QED
        BY <4>1, <4>2, Zenon
    <3>2. CASE c.f # "write"
      BY <2>1, <3>2, Zenon DEF WriteCdb
    <3> QED
      BY <3>1, <3>2
  <2>4. (\A s : ~ Written(s)) /\ guest' # "busy" /\ tpc' # "aborted"
    BY <1>3, <2>2
  <2> QED
    BY <1>5, <2>2, <2>3, <2>4, Zenon
<1>9. CASE WriteCount
  <2>1. /\ ~ abandoned /\ unit = "disk" /\ guest = "cdb" /\ guest' = "count"
        /\ UNCHANGED <<tpc, kept, drive>>
    BY <1>9, Zenon DEF WriteCount, history
  <2>2. (\A s : ~ Written(s)) /\ guest' # "busy" /\ tpc' # "aborted"
    BY <1>3, <2>1
  <2> QED
    BY <1>5, <2>1, <2>2, Zenon
<1>10. CASE Select \/ SelectReset
  <2>1. /\ ~ abandoned /\ unit = "disk" /\ guest \in {"count", "idle"} /\ tpc # "aborted"
        /\ tpc' = (IF tpc = "wait" THEN "woken" ELSE tpc)
        /\ UNCHANGED <<irq, kept, drive>>
    <3>1. CASE Select
      BY <3>1, <1>10, SMT DEF Select, WriteCmd, history
    <3>2. CASE SelectReset
      BY <3>2, <1>10, SMT DEF SelectReset, WriteCmd, history
    <3> QED
      BY <1>10, <3>1, <3>2, Zenon
  <2>2. (\A s : ~ Written(s)) /\ ~ irq' /\ tpc' # "aborted"
    BY <1>3, <2>1
  <2> QED
    BY <1>5, <2>1, <2>2, Zenon
<1>11. CASE ReadStatus
  <2>1. /\ ~ abandoned /\ unit = "disk" /\ irq /\ irq' = FALSE
        /\ guest' = (IF guest \in {"busy", "reset"} THEN "idle" ELSE guest)
        /\ kept' = [s \in DOMAIN kept |->
                      IF Written(s) /\ regs.status = 22 THEN {nwrites} ELSE kept[s]]
        /\ drive' = (IF op.f = "write" THEN drive ELSE [drive EXCEPT !.ram = << >>])
        /\ UNCHANGED <<tpc, op, nwrites>>
    BY <1>11, Zenon DEF ReadStatus
  <2>2. guest' = "idle" /\ tpc' # "aborted"
    BY <1>3, <2>1
  <2>3. drive'.map = drive.map
    <3>1. [drive EXCEPT !.ram = << >>].map = drive.map
      BY <1>1 DEF Drive
    <3> QED
      BY <2>1, <3>1, Zenon
  <2>4. \A s \in DOMAIN kept : drive.map[s] \in kept'[s]
    <3> SUFFICES ASSUME NEW s \in DOMAIN kept
                 PROVE  drive.map[s] \in kept'[s]
      OBVIOUS
    <3>1. kept'[s] = IF Written(s) /\ regs.status = 22 THEN {nwrites} ELSE kept[s]
      BY <2>1, Zenon
    <3>2. CASE Written(s)
      <4>1. regs.status = 22 /\ drive.map[s] = nwrites
        BY <1>3, <2>1, <3>2, Zenon
      <4> QED
        BY <3>1, <3>2, <4>1, Zenon
    <3>3. CASE ~ Written(s)
      BY <1>3, <2>1, <3>1, <3>3, Zenon
    <3> QED
      BY <3>2, <3>3
  <2>5. DOMAIN kept' = DOMAIN kept
    BY <2>1, Zenon
  <2>6. DiskKeeps'
    BY <2>2, <2>3, <2>4, <2>5, Zenon DEF DiskKeeps
  <2> QED
    BY <2>2, <2>6, Zenon DEF DiskInv
<1>12. CASE PulseReset
  <2>1. /\ ~ abandoned /\ unit = "disk" /\ irq' = FALSE /\ guest' = "reset" /\ tpc' = tpc
        /\ kept' = [s \in DOMAIN kept |->
                      IF Written(s) THEN kept[s] \cup {nwrites} ELSE kept[s]]
        /\ drive' = drive
    BY <1>12, Zenon DEF PulseReset
  <2>2. \A s \in DOMAIN kept : drive'.map[s] \in kept'[s]
    BY <1>3, <2>1, Zenon
  <2>3. DOMAIN kept' = DOMAIN kept /\ tpc' # "aborted"
    BY <1>3, <2>1, Zenon
  <2>4. DiskKeeps'
    BY <2>1, <2>2, <2>3, Zenon DEF DiskKeeps
  <2> QED
    BY <2>1, <2>3, <2>4, Zenon DEF DiskInv
<1>13. CASE \E s \in 1..NSectors : Patch(s)
  <2>1. PICK s \in 1..NSectors : Patch(s)
    BY <1>13
  <2>2. /\ ~ abandoned /\ unit = "disk" /\ tpc' = tpc /\ guest = "idle" /\ guest' = "idle"
        /\ drive' = [drive EXCEPT !.map[s] = -1] /\ kept' = [kept EXCEPT ![s] = {-1}]
    BY <2>1, Zenon DEF Patch, guestvars
  <2>3. \A x \in DOMAIN kept : drive.map[x] \in kept[x]
    BY <1>3, <2>2, Zenon
  <2>4. drive'.map = [drive.map EXCEPT ![s] = -1]
    <3> DEFINE m == [drive.map EXCEPT ![s] = -1]
    <3>1. drive' = [drive EXCEPT !.map = m]
      BY <2>2, Zenon
    <3> HIDE DEF m
    <3>2. [drive EXCEPT !.map = m].map = m
      BY <1>1 DEF Drive
    <3> QED
      BY <3>1, <3>2, Zenon DEF m
  <2>5. ASSUME NEW x \in 1..NSectors
        PROVE  drive'.map[x] \in kept'[x]
    <3>1. drive.map \in [1..NSectors -> Int]
      BY <1>1, Zenon DEF Sectors
    <3>2. CASE x = s
      <4>1. drive'.map[x] = -1 /\ kept'[x] = {-1}
        BY <1>1, <2>2, <2>4, <3>1, <3>2
      <4> QED
        BY <4>1
    <3>3. CASE x # s
      <4>1. drive'.map[x] = drive.map[x] /\ kept'[x] = kept[x]
        BY <1>1, <2>2, <2>4, <3>1, <3>3
      <4> QED
        BY <1>2, <2>3, <4>1, Zenon
    <3> QED
      BY <3>2, <3>3
  <2>6. DOMAIN kept' = 1..NSectors /\ tpc' # "aborted"
    BY <1>2, <1>3, <2>2, Zenon
  <2>7. DiskKeeps'
    BY <2>2, <2>5, <2>6, Zenon DEF DiskKeeps
  <2> QED
    BY <2>2, <2>6, <2>7, Zenon DEF DiskInv
<1>14. CASE UNCHANGED vars
  <2>1. UNCHANGED <<unit, regs, irq, tpc, drive, guest, op, kept, nwrites, abandoned>>
    BY <1>14, Zenon DEF vars, guestvars, history
  <2>2. \A s : Written(s)' <=> Written(s)
    BY <2>1, Zenon DEF Written
  <2> QED
    BY <2>1, <2>2, Zenon DEF DiskInv, DiskKeeps
<1> QED
  BY <1>6, <1>7, <1>8, <1>9, <1>10, <1>11, <1>12, <1>13, <1>14, Zenon DEF Next

LEMMA MediaInit ==
  ASSUME Init
  PROVE  TapeInv /\ DiskInv
<1>1. /\ tpc = "wait" /\ guest = "idle" /\ irq = FALSE /\ failed = FALSE /\ got = << >>
      /\ drive.head = 0 /\ drive.map = [s \in 1..NSectors |-> 0]
      /\ kept = [s \in 1..NSectors |-> {0}]
  BY DEF Init
<1>2. TapeInv
  <2>1. 0 \in 0..Len(Items) /\ drive.head = Offset(0)
    BY <1>1, Tape
  <2>2. SubSeq(Items, 1, 0) = << >>
    <3>1. OpensWith(SubSeq(Items, 1, 0), 0)
      BY <2>1, PrefixIs, Zenon
    <3> QED
      BY <3>1, EmptySeq DEF OpensWith
  <2>3. Placed(drive, SubSeq(Items, 1, 0), FALSE)
    BY <2>1, PlacedThere, Zenon
  <2>4. Placed(drive, got, failed)
    BY <1>1, <2>2, <2>3, Zenon
  <2> QED
    BY <1>1, <2>4, Zenon DEF TapeInv
<1>3. DiskInv
  <2>1. DOMAIN kept = 1..NSectors /\ \A s \in 1..NSectors : drive.map[s] \in kept[s]
    BY <1>1
  <2>2. DiskKeeps
    BY <1>1, <2>1, Zenon DEF DiskKeeps
  <2> QED
    BY <1>1, <2>2, Zenon DEF DiskInv
<1> QED
  BY <1>2, <1>3

(* The inductive invariant: nothing the thread, the callback, the guest or  *)
(* the CLI does takes the registers, the media and what the guest believes  *)
(* of them apart.                                                           *)
THEOREM ScsiInductive == Spec => []IInv
<1>1. Init => IInv
  BY BaseInit, MediaInit, Zenon DEF IInv, Base
<1>2. IInv /\ [Next]_vars => IInv'
  <2> SUFFICES ASSUME IInv, [Next]_vars
               PROVE  IInv'
    OBVIOUS
  <2>1. Base /\ TapeInv /\ DiskInv
    BY Zenon DEF IInv, Base
  <2>2. Base'
    BY <2>1, BaseStep, Zenon
  <2>3. TapeInv' /\ DiskInv'
    BY <2>1, TapeStep, DiskStep, Zenon
  <2> QED
    BY <2>2, <2>3, Zenon DEF IInv, Base
<1> QED
  BY <1>1, <1>2, PTL DEF Spec

(* The items of the tape reach the guest in their order, none lost and none *)
(* twice, and a sector holds what was written to it last, through failed    *)
(* reads, marks, resets and the patches of the CLI, unless the guest has    *)
(* reset the controller before scsi_thread had taken a command.             *)
THEOREM MediaAreTrue == Spec => []MediaIsTrue
<1>1. IInv => MediaIsTrue
  <2> SUFFICES ASSUME IInv, ~ abandoned
               PROVE  /\ tpc # "aborted"
                      /\ unit = "tape" => TapeInOrder
                      /\ unit = "disk" => DiskKeeps
    BY Zenon DEF MediaIsTrue
  <2>1. unit \in {"tape", "disk"}
    BY Zenon DEF IInv, TypeOK, Kinds
  <2>2. tpc # "aborted"
    BY <2>1, Zenon DEF IInv, TapeInv, DiskInv
  <2>3. ASSUME unit = "tape", guest = "idle", ~ failed
        PROVE  got = SubSeq(Items, 1, Len(got)) /\ drive.head = Offset(Len(got))
    <3>1. Placed(drive, got, failed)
      BY <2>3, Zenon DEF IInv, TapeInv
    <3> QED
      BY <2>3, <3>1, Zenon DEF Placed
  <2>4. unit = "disk" => DiskKeeps
    BY Zenon DEF IInv, DiskInv
  <2> QED
    BY <2>2, <2>3, <2>4, Zenon DEF TapeInOrder
<1> QED
  BY <1>1, ScsiInductive, PTL
=============================================================================
