----------------------------- MODULE TarifPrice -----------------------------
(***************************************************************************)
(* How libccls turns a tariff into a price: tarif.c, from the rows of the  *)
(* tables `tarifs' and `prices' to the list of starting points kept in     *)
(* memory (_tarif_rebuild), and from that list to the price of an interval *)
(* (_CCL_tarif_realcalc).                                                  *)
(*                                                                         *)
(* A row of `tarifs' says from which minute of which days a price per hour *)
(* holds, a row of `prices' what some number of minutes costs.  Instants   *)
(* are seconds counted from the start of a week, starting points minutes.  *)
(***************************************************************************)
EXTENDS Integers, Sequences, SequencesExt

CONSTANTS Days,        \* days of the week: 0..6 in the code
          DayMinutes   \* minutes of a day: 24 * 60 in the code

ASSUME WeekAssumption ==
  /\ Days = 0 .. Cardinality(Days) - 1
  /\ IsFiniteSet(Days) /\ Days # {}
  /\ DayMinutes \in Nat \ {0}

WeekMinutes == Cardinality(Days) * DayMinutes
WeekSeconds == 60 * WeekMinutes

\* A row of the table `tarifs'.  The increment, the flags and the name are
\* never used in a price.
Part == [tarif : Nat, days : SUBSET Days, stime : Nat, hourprice : Nat,
         fafter : Nat]

\* A row of the table `prices'
Price == [part : Nat, mins : Nat, price : Nat]

-----------------------------------------------------------------------------
(* Reading the tables *)

PartsOf(parts, t) == {i \in DOMAIN parts : parts[i].tarif = t}

Tarifs(parts) == {parts[i].tarif : i \in DOMAIN parts}

\* CCL_tarifpart_get_nth(0)
FirstPart(parts, t) ==
  CHOOSE i \in PartsOf(parts, t) : \A j \in PartsOf(parts, t) : i <= j

\* The first part, in the order of the ids, that starts at the same minute on
\* one of the days, or 0 (CCL_tarifpart_conflicts)
Conflicts(parts, t, stime, days) ==
  LET clash == {i \in PartsOf(parts, t) :
                  parts[i].stime = stime /\ parts[i].days \cap days # {}}
  IN  IF clash = {} THEN 0 ELSE CHOOSE i \in clash : \A j \in clash : i <= j

\* What a rebuild reads of a tariff: one starting point per part and day
Starts(parts, t) ==
  {[id |-> p[1], stime |-> parts[p[1]].stime + p[2] * DayMinutes,
    hprice |-> parts[p[1]].hourprice] :
      p \in {q \in PartsOf(parts, t) \X Days : q[2] \in parts[q[1]].days}}

-----------------------------------------------------------------------------
(* The list in memory *)

\* g_slist_insert_sorted puts a link before those that compare equal, and
\* the rows are read in the order of their ids.
Earlier(a, b) == a.stime < b.stime \/ (a.stime = b.stime /\ a.id > b.id)

\* p is the link just before s.
JustBefore(starts, p, s) ==
  Earlier(p, s) /\ ~\E q \in starts : Earlier(p, q) /\ Earlier(q, s)

\* A link that only continues the part of the link before it is removed.
Merged(starts) ==
  {s \in starts : ~\E p \in starts : p.id = s.id /\ JustBefore(starts, p, s)}

LastOf(starts) == CHOOSE s \in starts : \A q \in starts : q = s \/ Earlier(q, s)

\* The week starts with the part that was running when it ended.
FromSunday(starts) ==
  IF starts = {} \/ \E s \in starts : s.stime = 0 THEN starts
  ELSE starts \cup {[LastOf(starts) EXCEPT !.stime = 0]}

\* The starting points as the sorted list they are in memory
InOrder(starts) ==
  [n \in 1 .. Cardinality(starts) |->
     CHOOSE s \in starts : Cardinality({q \in starts : Earlier(q, s)}) = n - 1]

\* Mutant: nothing is put before the first starting point of the week.
LinksUncovered(starts) == InOrder(Merged(starts))

\* _tarif_rebuild
Links(starts) == InOrder(FromSunday(Merged(starts)))

\* The place in the list an instant (in seconds) falls to: the walk that
\* _CCL_tarif_realcalc makes before it charges anything
LinkAt(list, sec) ==
  CHOOSE n \in 1 .. Len(list) :
    /\ n < Len(list) => sec < 60 * list[n + 1].stime
    /\ \A k \in 1 .. n - 1 : sec >= 60 * list[k + 1].stime

-----------------------------------------------------------------------------
(* The price of some minutes within one part *)

RowsOf(prices, id) ==
  {[mins |-> prices[r].mins, price |-> prices[r].price] :
     r \in {r \in DOMAIN prices : prices[r].part = id}}

Largest(S) == IF S = {} THEN 0 ELSE CHOOSE x \in S : \A y \in S : x >= y

\* CCL_tarifpart_price_get_last
LastMins(rows) == Largest({row.mins : row \in rows})

\* Mutant: the longest row is forgotten when a longer time is split.
PriceGetRest(rows, hourprice, mins) ==
  LET last == LastMins(rows)
      top == IF 60 > last THEN 60 ELSE last
      exact(m) == {row \in rows : row.mins = m}
      above(m) == {row \in rows : row.mins > m}
      least(S) == CHOOSE row \in S : \A other \in S : row.mins <= other.mins
      cost[m \in Nat] ==
        IF exact(m) # {} THEN least(exact(m)).price
        ELSE IF m < last THEN least(above(m)).price
        ELSE IF m <= 60 THEN hourprice
        ELSE cost[m - top]
  IN  cost[mins]

\* CCL_tarifpart_price_get, not strict: the row for exactly so many minutes,
\* the first row for more, or what exceeds the longest row (at least an hour)
\* charged as time of its own
PriceGet(rows, hourprice, mins) ==
  LET last == LastMins(rows)
      top == IF 60 > last THEN 60 ELSE last
      exact(m) == {row \in rows : row.mins = m}
      above(m) == {row \in rows : row.mins > m}
      least(S) == CHOOSE row \in S : \A other \in S : row.mins <= other.mins
      cost[m \in Nat] ==
        IF exact(m) # {} THEN least(exact(m)).price
        ELSE IF m < last THEN least(above(m)).price
        ELSE IF m <= 60 THEN hourprice
        ELSE cost[top] + cost[m - top]
  IN  cost[mins]

\* CCL_tarifpart_price_get_nearest: the smallest number of minutes not below
\* mins that some row of ANY part has (the query does not name the part)
Nearest(prices, perminafter, mins) ==
  LET more == {prices[r].mins : r \in DOMAIN prices}
      reach == {m \in more : m >= mins}
      first == IF reach = {} THEN 0 ELSE CHOOSE m \in reach : \A n \in reach : m <= n
  IN  IF mins >= perminafter THEN mins
      ELSE IF first = 0 THEN perminafter ELSE first

-----------------------------------------------------------------------------
(* The price of an interval *)

\* The end of what link n charges, in seconds of the week
EndOf(list, n) ==
  IF n < Len(list) THEN 60 * list[n + 1].stime ELSE WeekSeconds

\* An empty interval counts for one second.
AtLeastASecond(s, e) == IF e = s THEN e + 1 ELSE e

\* Mutant: the seconds after the end of the first part are charged by it too.
PerMinuteFirstPart(list, start, end) ==
  IF list = <<>> THEN 0
  ELSE (list[LinkAt(list, start)].hprice * (AtLeastASecond(start, end) - start))
         \div 3600

\* _CCL_tarif_realcalc with permin: the price per hour of every part, for the
\* seconds that fall to it, rounded down part by part.  Instants are counted
\* from the start of the week that start is in; the list is that of any week.
PerMinute(list, start, end) ==
  LET charge(n, s, e) == (list[n].hprice * (AtLeastASecond(s, e) - s)) \div 3600
      calc[s \in Nat] ==
        LET n == LinkAt(list, s % WeekSeconds)
            stop == s - (s % WeekSeconds) + EndOf(list, n)
        IN  IF AtLeastASecond(s, end) <= stop THEN charge(n, s, end)
            ELSE charge(n, s, stop) + calc[stop]
  IN  IF list = <<>> THEN 0 ELSE calc[start]

\* What a stored part costs for some minutes: 0 if the part is gone
PartPrice(parts, prices, id, mins) ==
  IF id \in DOMAIN parts
  THEN PriceGet(RowsOf(prices, id), parts[id].hourprice, mins)
  ELSE 0

\* _CCL_tarif_realcalc without permin: the price of the whole time by the
\* table of the part it falls to; across a boundary, the prices of the two
\* parts for the nearest number of minutes, in proportion
ByTable(parts, prices, perminafter, list, start, end) ==
  LET n == LinkAt(list, start)
      stop == EndOf(list, n)
      other == IF n < Len(list) THEN n + 1 ELSE 1
      e == AtLeastASecond(start, end)
      whole == 60 * Nearest(prices, perminafter, (e - start) \div 60)
      price(k, secs) == PartPrice(parts, prices, list[k].id, secs \div 60)
  IN  IF list = <<>> THEN 0
      ELSE IF e <= stop THEN price(n, e - start)
      ELSE (price(n, whole) * (stop - start)
              + price(other, whole) * (start + whole - stop)) \div whole

\* CCL_tarif_calc
Calc(parts, prices, perminafter, list, start, end, permin) ==
  IF permin THEN PerMinute(list, start, end)
  ELSE ByTable(parts, prices, perminafter, list, start, end)
=============================================================================
