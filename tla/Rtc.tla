-------------------------------- MODULE Rtc --------------------------------
(***************************************************************************)
(* The counters of the clock chip (Iop/iop_rtc.c), as its thread moves     *)
(* them on at each signal: eight registers of two decimal digits each,     *)
(* carried from one to the next by hand.  The thread itself is in Callout. *)
(*                                                                         *)
(* Register i of the code is regs[i + 1].                                  *)
(***************************************************************************)
EXTENDS Integers, Sequences

CONSTANTS Instants   \* the instants that are checked, as registers

Bcd(n) == (n \div 10) * 16 + (n % 10)
Decimal(b) == (b \div 16) * 10 + (b % 16)

\* last_day_of_month[]
LastDay(month) ==
  CASE month \in {1, 3, 5, 7, 8, Bcd(10), Bcd(12)} -> Bcd(31)
    [] month \in {4, 6, 9, Bcd(11)} -> Bcd(30)
    [] month = 2 -> Bcd(28)
    [] OTHER -> 0

\* ioc_rtc_bcd_increment
Increment(b) == LET c == (b + 1) % 256 IN IF c % 16 > 9 THEN (c + 6) % 256 ELSE c

\* The registers a carry can come to, each with its last value: milliseconds
\* (in the high digit), hundredths, seconds, minutes and hours.
Carries == << 144, 153, 89, 89, 35 >>

Advanced(r, i) == IF i = 1 THEN (r[1] + 16) % 256 ELSE Increment(r[i])

(* The settings of the registers that are an instant of a year of 365 days, *)
(* which is what ioc_rtc_setclock stores on any day but the 29th of         *)
(* February.                                                                *)
Clock ==
  {r \in [1..8 -> 0..255] :
     /\ \A i \in 1..8 : r[i] % 16 <= 9
     /\ r[1] % 16 = 0
     /\ \A i \in 1..5 : r[i] <= Carries[i]
     /\ r[6] \in 1..7
     /\ r[7] \in 1..LastDay(r[8])
     /\ r[8] \in 1..Bcd(12)}

ASSUME RtcAssumption == Instants \subseteq Clock

\* How far the carry goes: the first register that does not wrap, or 6.
Reached(r) ==
  CHOOSE i \in 1..6 :
    /\ \A j \in 1..(i - 1) : Advanced(r, j) > Carries[j]
    /\ i = 6 \/ Advanced(r, i) <= Carries[i]

\* The day of the week, of the month, and the month, at midnight; the first
\* form forgets that the digits are decimal.
DayBug(r) ==
  LET mday == r[7] + 1
      over == mday > LastDay(r[8])
  IN  << IF r[6] = 7 THEN 1 ELSE r[6] + 1,
         IF over THEN 1 ELSE mday,
         IF over THEN IF r[8] = Bcd(12) THEN 1 ELSE Increment(r[8]) ELSE r[8] >>

Day(r) ==
  LET wday == Increment(r[6])
      mday == Increment(r[7])
      month == Increment(r[8])
      over == mday > LastDay(r[8])
  IN  << IF wday = 8 THEN 1 ELSE wday,
         IF over THEN 1 ELSE mday,
         CASE ~ over -> r[8] [] over /\ month > Bcd(12) -> 1 [] OTHER -> month >>

\* ioc_rtc_thread, what it does at a signal
Ticked(r) ==
  LET i == Reached(r)
  IN  [j \in 1..8 |->
         CASE j < i -> 0
           [] i = 6 /\ j >= i -> Day(r)[j - 5]
           [] i # 6 /\ j = i -> Advanced(r, j)
           [] OTHER -> r[j]]

-----------------------------------------------------------------------------

\* The reference: the minute of the year and the millisecond of the minute; a
\* year has no leap day.
DaysBefore == << 0, 31, 59, 90, 120, 151, 181, 212, 243, 273, 304, 334 >>

Minute(r) ==
  LET d(i) == Decimal(r[i])
  IN  ((DaysBefore[d(8)] + d(7) - 1) * 24 + d(5)) * 60 + d(4)

Milli(r) == Decimal(r[3]) * 1000 + Decimal(r[2]) * 10 + r[1] \div 16

\* A signal moves the clock on by a millisecond: each register keeps two
\* decimal digits within its range, the carry ends where it should, and the
\* day of the week follows the day.
Counts(r) ==
  LET t == Ticked(r)
      minute == (Minute(r) + 1) % (365 * 24 * 60)
      newday == minute % (24 * 60) = 0
  IN  /\ t \in Clock
      /\ Milli(t) = (Milli(r) + 1) % (60 * 1000)
      /\ Minute(t) = IF Milli(t) = 0 THEN minute ELSE Minute(r)
      /\ t[6] = IF Milli(t) = 0 /\ newday THEN (r[6] % 7) + 1 ELSE r[6]

CountsUp == \A r \in Instants : Counts(r)
=============================================================================
