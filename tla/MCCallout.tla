----------------------------- MODULE MCCallout -----------------------------
(***************************************************************************)
(* Callout with two sleeping threads, one device callback, and periods and *)
(* costs of a few ticks: instructions shorter and longer than the periods. *)
(* The clock chip, one of the clients, is checked around the end of every  *)
(* day of the year, hour and minute, where its carry goes farthest.        *)
(***************************************************************************)
EXTENDS Callout

Time(month, mday, hour, min, sec, ms) ==
  << (ms % 10) * 16, Bcd(ms \div 10), Bcd(sec), Bcd(min), Bcd(hour),
     1 + (mday % 7), Bcd(mday), Bcd(month) >>

LastSecond(month) == {Time(month, d, 23, 59, 59, 999) : d \in 1..Decimal(LastDay(Bcd(month)))}

MCInstants ==
  UNION {LastSecond(m) : m \in 1..12}
  \cup {Time(2, 28, h, m, 59, 999) : h \in {0, 9, 19, 23}, m \in {0, 9, 58, 59}}
  \cup {Time(12, 31, 23, 59, s, ms) : s \in {0, 9, 59}, ms \in {0, 9, 99, 989, 990}}
=============================================================================
