---------------------------- MODULE TarifSession ----------------------------
(***************************************************************************)
(* What a session owes under one tariff while it goes on, is paused and is *)
(* resumed: CCL_client_owed_terminal of client.c, and the second           *)
(* calculation the cashing window makes when the member of a logged        *)
(* session is changed.  Quotients of doubles are taken exactly.            *)
(***************************************************************************)
EXTENDS TarifPrice

CONSTANTS Tables,     \* tariffs: [parts, prices, perminafter], the parts of tarif 1
          Starting,   \* seconds of the week a session may start at
          Grain,      \* all instants are multiples of this many seconds
          TickSecs,   \* seconds the clock advances at a time
          RoundTo,    \* ccl->rndoff: 5, 10, 25, 50 or 100, 0 for none of them
          MaxTicks,   \* bound: length of a session in ticks
          MaxIntervals \* bound: intervals of a session

ASSUME SessionAssumption ==
  /\ Grain \in Nat \ {0} /\ 60 % Grain = 0
  /\ TickSecs \in Nat /\ TickSecs % Grain = 0
  /\ Starting \subseteq Nat /\ \A s \in Starting : s % Grain = 0
  /\ \A tab \in Tables :
       /\ IsFiniteSet(DOMAIN tab.parts) /\ DOMAIN tab.parts # {}
       /\ \A i \in DOMAIN tab.parts :
            /\ i \in Nat \ {0} /\ tab.parts[i] \in Part
            /\ tab.parts[i].tarif = 1 /\ tab.parts[i].days # {}
            /\ tab.parts[i].stime < DayMinutes
       /\ IsFiniteSet(DOMAIN tab.prices)
       /\ \A r \in DOMAIN tab.prices : tab.prices[r] \in Price
       /\ tab.perminafter \in Nat

VARIABLES tariff,     \* the tariff in use
          intervals,  \* the session: <<[stime, etime], ...>>
          running,    \* the last interval has not ended
          ticks       \* auxiliary: ticks since the session started

sessionVars == <<tariff, intervals, running, ticks>>

List(tab) == Links(Starts(tab.parts, 1))

Secs(ival) == ival.etime - ival.stime

\* The sum of f[1] to f[n]
Total(f, n) ==
  LET sum[k \in Nat] == IF k = 0 THEN 0 ELSE f[k] + sum[k - 1]
  IN  sum[n]

TimeUsed(ivals) == Total([n \in 1 .. Len(ivals) |-> Secs(ivals[n])], Len(ivals))

\* CCL_round_cash: without a step, always one more
RoundCash(cash) ==
  IF RoundTo = 0 THEN cash + 1
  ELSE IF cash % RoundTo = 0 THEN cash ELSE cash + RoundTo - (cash % RoundTo)

\* The distance of an instant from the start of its week (_weekstart)
InWeek(t) == t % WeekSeconds

PerMin(tab, secs) == secs \div 60 >= tab.perminafter

\* Mutant: every interval is charged its whole price by the table.
ChargeUnshared(tab, ivals, time) ==
  Total([n \in 1 .. Len(ivals) |->
           Calc(tab.parts, tab.prices, tab.perminafter, List(tab),
                InWeek(ivals[n].stime),
                InWeek(ivals[n].stime) + Secs(ivals[n]), PerMin(tab, time))],
        Len(ivals))

\* What is charged when the time of the session is taken to be `time'
Charge(tab, ivals, time) ==
  LET permin == PerMin(tab, time)
      whole(n) == Calc(tab.parts, tab.prices, tab.perminafter, List(tab),
                       InWeek(ivals[n].stime),
                       InWeek(ivals[n].stime) + Secs(ivals[n]), permin)
      cash(n) == IF permin THEN whole(n)
                 ELSE (whole(n) * Secs(ivals[n])) \div time
  IN  Total([n \in 1 .. Len(ivals) |-> cash(n)], Len(ivals))

\* CCL_client_owed_terminal
Owed(tab, ivals) ==
  IF TimeUsed(ivals) = 0 THEN 0
  ELSE RoundCash(Charge(tab, ivals, TimeUsed(ivals)))

\* CashingFrame::onSetMember: the loop meant to sum the time keeps the last
\* interval only (0 makes the fraction a division by zero, the price is
\* then whatever the conversion gives), and the sum is not rounded.
Repriced(tab, ivals) == Charge(tab, ivals, Secs(ivals[Len(ivals)]))

SessionInit ==
  /\ tariff \in Tables
  /\ \E s \in Starting : intervals = <<[stime |-> s, etime |-> s]>>
  /\ running = TRUE
  /\ ticks = 0

Now == intervals[Len(intervals)].etime

\* Time passes; only a running interval grows, a paused session's next one
\* starts later.
Tick ==
  /\ running
  /\ ticks < MaxTicks
  /\ ticks' = ticks + 1
  /\ intervals' = [intervals EXCEPT ![Len(intervals)].etime = @ + TickSecs]
  /\ UNCHANGED <<tariff, running>>

Pause ==
  /\ running
  /\ running' = FALSE
  /\ UNCHANGED <<tariff, intervals, ticks>>

\* The session is resumed after k more ticks.
Unpause(k) ==
  /\ ~running
  /\ Len(intervals) < MaxIntervals
  /\ running' = TRUE
  /\ LET s == Now + k * TickSecs
     IN  intervals' = Append(intervals, [stime |-> s, etime |-> s])
  /\ UNCHANGED <<tariff, ticks>>

SessionNext == Tick \/ Pause \/ \E k \in 0 .. 1 : Unpause(k)

SessionSpec == SessionInit /\ [][SessionNext]_sessionVars

-----------------------------------------------------------------------------
(* Properties *)

\* The rate per hour that the rows of the tariff give for a second of the
\* week: that of the part with the last starting point not after it, counted
\* round the week, and of the smallest id if several start there.
RateAt(parts, sec) ==
  LET starts == Starts(parts, 1)
      before == {p \in starts : 60 * p.stime <= sec}
      cand == IF before = {} THEN starts ELSE before
      last == {p \in cand : \A q \in cand : q.stime <= p.stime}
  IN  (CHOOSE p \in last : \A q \in last : p.id <= q.id).hprice

\* The sum of those rates over the seconds of some grains from an instant,
\* and over one second if there are none
Rates(parts, s, grains) ==
  IF grains = 0 THEN RateAt(parts, InWeek(s))
  ELSE Grain * Total([k \in 1 .. grains |->
                        RateAt(parts, InWeek(s + (k - 1) * Grain))], grains)

\* The boundaries between two instants: minutes at which a link of the list
\* starts.  The charge is cut in two at each.
Crossed(list, s, e) ==
  Cardinality({m \in s \div 60 + 1 .. (e - 1) \div 60 :
                 \E n \in 1 .. Len(list) : list[n].stime = m % WeekMinutes})

CrossedBy(ival) == Crossed(List(tariff), InWeek(ival.stime),
                           InWeek(ival.stime) + Secs(ival))

\* An interval charged per minute costs, but for rounding down once per
\* boundary crossed, the sum over its seconds of the rate the rows of the
\* tariff give for each: nothing is charged twice or left out where
\* parts, days and weeks meet (_tarif_rebuild with _CCL_tarif_realcalc).
PerMinuteAsRates ==
  \A n \in 1 .. Len(intervals) :
    LET s == InWeek(intervals[n].stime)
        secs == Secs(intervals[n])
        exact == Rates(tariff.parts, s, secs \div Grain)
        price == PerMinute(List(tariff), s, s + secs)
    IN  /\ 3600 * price <= exact
        /\ exact < 3600 * (price + CrossedBy(intervals[n]) + 1)

\* A tariff of a single part whose prices rise with the minutes and do not
\* exceed, up to the change to the price per minute, what the price per hour
\* gives there.
Rises(tab) ==
  LET part == tab.parts[1]
      rows == RowsOf(tab.prices, 1)
      last == Nearest(tab.prices, tab.perminafter, tab.perminafter - 1)
  IN  /\ DOMAIN tab.parts = {1}
      /\ \A r \in DOMAIN tab.prices : tab.prices[r].mins > 0
      /\ \A a, b \in rows : a.mins <= b.mins => a.price <= b.price
      /\ LastMins(rows) < 60 =>
           \A row \in rows : row.price <= part.hourprice
      /\ tab.perminafter > 0 =>
           60 * PriceGet(rows, part.hourprice, last)
             <= part.hourprice * tab.perminafter

\* What is charged for a session, before it is rounded
Cash(ivals) == Charge(tariff, ivals, TimeUsed(ivals))

\* Under such a tariff the charge for an uninterrupted session never falls
\* while it goes on, but for what rounding down at each boundary loses; the
\* change from the table to the price per minute, and from the table at the
\* minutes used to its nearest row at a boundary, included
\* (CCL_client_owed_terminal with _CCL_tarif_realcalc).
OwedNeverFalls ==
  [][(Rises(tariff) /\ Len(intervals') = 1 /\ TimeUsed(intervals) > 0)
       => Cash(intervals') + CrossedBy(intervals'[1]) >= Cash(intervals)]_sessionVars

\* Under such a tariff a session that was paused is charged no more than an
\* uninterrupted one from the same start, of the same length (an empty
\* interval lasts a second), but for what rounding down at boundaries loses.
\* By the table only if no interval crosses a boundary: there the table is
\* taken at its nearest row, which may cost more than the table itself.
PausesAreFree ==
  LET used == TimeUsed(intervals)
      lasting == Total([n \in 1 .. Len(intervals) |->
                          AtLeastASecond(0, Secs(intervals[n]))], Len(intervals))
      whole == [stime |-> intervals[1].stime,
                etime |-> intervals[1].stime + lasting]
  IN  (/\ Rises(tariff) /\ used > 0
       /\ \/ PerMin(tariff, used)
          \/ \A n \in 1 .. Len(intervals) : CrossedBy(intervals[n]) = 0)
      => Cash(intervals) <= Cash(<<whole>>) + CrossedBy(whole)

\* Changing the member of a logged session to one with the same tariff
\* prices it as it was priced, but for rounding: the loop over its intervals
\* sums the time ("Sum the time" in CashingFrame::onSetMember).
RepriceAgrees ==
  (\A n \in 1 .. Len(intervals) : Secs(intervals[n]) > 0)
    => RoundCash(Repriced(tariff, intervals)) = Owed(tariff, intervals)
=============================================================================
