-------------------------------- MODULE Tarif --------------------------------
(***************************************************************************)
(* The tariffs of libccls while they are edited (TarifFrame.cpp), switched *)
(* for the price of a member's session (CCL_client_owed_terminal) and read *)
(* back after a restart: the tables `tarifs' and `prices', the lists of    *)
(* starting points kept in memory, and the tariff in use.                  *)
(*                                                                         *)
(* The actions of the tariff tab are handlers of the one thread of the     *)
(* window.  A network thread that prices a member's session switches the   *)
(* tariff of the whole program and back: two actions.                      *)
(***************************************************************************)
EXTENDS TarifPrice

CONSTANTS Threads,     \* network threads that price sessions
          StartTimes,  \* minutes of the day the employee types
          HourPrices,  \* prices per hour the employee types
          Fafters,     \* values of the spinner `fractioned after'
          Rows,        \* the price lists typed: sets of [mins, price]; of two
                       \* for the same minutes the second is refused
          StaleEdits,  \* changes are applied to a part of another tariff too
          Races,       \* a price is calculated while the employee edits, or
                       \* another thread calculates
          MaxTarif,    \* bound: ids of tariffs
          MaxPart,     \* bound: ids of parts
          MaxRow       \* bound: ids of prices

ASSUME TarifAssumption ==
  /\ StartTimes \subseteq 0 .. DayMinutes - 1 /\ 0 \in StartTimes
  /\ HourPrices \subseteq Nat /\ Fafters \subseteq Nat
  /\ \A rows \in Rows :
       /\ IsFiniteSet(rows) /\ rows \subseteq [mins : Nat, price : Nat]
       /\ \A a, b \in rows : a.mins = b.mins => a = b
  /\ StaleEdits \in BOOLEAN /\ Races \in BOOLEAN
  /\ MaxTarif \in Nat /\ MaxPart \in Nat /\ MaxRow \in Nat

VARIABLES parts,     \* the table `tarifs': id -> row
          prices,    \* the table `prices': id -> row
          lists,     \* ccl->tarifs: tarif -> list of starting points
          selected,  \* ccl->tarif_id and ccl->perminafter
          default,   \* the stored key tarif/default
          shown,     \* the parts listed in the tariff tab
          edited,    \* editedpart of the tariff tab: the one clicked last
          calc,      \* per thread: oldtarif of a calculation, Idle if none
          chosen     \* auxiliary: the tariff last put in use by the employee
                     \* or at the start

vars == <<parts, prices, lists, selected, default, shown, edited, calc, chosen>>

Idle == -1

\* Mutant: the largest id is given again.
SameRow(table) == Largest(DOMAIN table)

\* sqlite: one more than the largest id in the table
NewRow(table) == 1 + Largest(DOMAIN table)

Extend(table, row) ==
  [i \in DOMAIN table \cup {NewRow(table)} |->
     IF i \in DOMAIN table THEN table[i] ELSE row]

Drop(table, ids) == [i \in DOMAIN table \ ids |-> table[i]]

Rebuilt(ps, t) == Links(Starts(ps, t))

\* Mutant: the loop ends before the last tariff.
AllButLastRebuilt(ps) ==
  [t \in Tarifs(ps) \ {Largest(Tarifs(ps))} |-> Rebuilt(ps, t)]

\* CCL_tarif_rebuild_all
AllRebuilt(ps) == [t \in Tarifs(ps) |-> Rebuilt(ps, t)]

\* Mutant: the list is not built again.
CurrentKept(ps, t) == lists

\* CCL_tarif_rebuild: only the tariff in use.  An empty list is no entry.
CurrentRebuilt(ps, t) ==
  IF t < 1 THEN lists
  ELSE [u \in (DOMAIN lists \ {t}) \cup (IF Starts(ps, t) = {} THEN {} ELSE {t}) |->
          IF u = t THEN Rebuilt(ps, t) ELSE lists[u]]

\* CCL_tarif_set: refused for a tariff without parts; takes the number of
\* minutes of the first part along.
AfterSet(sel, ps, t) ==
  IF t \in Tarifs(ps)
  THEN [tarif |-> t, perminafter |-> ps[FirstPart(ps, t)].fafter]
  ELSE sel

\* TarifFrame::readTarif lists the parts of the tariff in use and puts the
\* minutes of its first part in use.
ReadTarif(sel, ps) ==
  /\ selected' = AfterSet(sel, ps, sel.tarif)
  /\ shown' = PartsOf(ps, sel.tarif)

\* What CCL_tarif_new stores: every day from midnight, 60.00 an hour
Placeholder(t) ==
  [tarif |-> t, days |-> Days, stime |-> 0, hourprice |-> 6000, fafter |-> 10]

\* main: a tariff is made if there is none, and all are built.
FirstParts(ps) == IF DOMAIN ps = {} THEN [i \in {1} |-> Placeholder(1)] ELSE ps

Booted(ps, def) ==
  /\ parts' = ps
  /\ lists' = AllRebuilt(ps)
  /\ ReadTarif(AfterSet([tarif |-> 0, perminafter |-> 10], ps, def), ps)
  /\ chosen' = IF def \in Tarifs(ps) THEN def ELSE 0
  /\ edited' = 0
  /\ calc' = [th \in Threads |-> Idle]

Init ==
  /\ parts = [i \in {1} |-> Placeholder(1)]
  /\ prices = <<>>
  /\ lists = AllRebuilt(parts)
  /\ selected = [tarif |-> 1, perminafter |-> 10]
  /\ default = 1
  /\ shown = {1}
  /\ edited = 0
  /\ calc = [th \in Threads |-> Idle]
  /\ chosen = 1

-----------------------------------------------------------------------------
(* The tariff tab *)

\* No price is being calculated, or that makes no difference.
Alone == Races \/ \A th \in Threads : calc[th] = Idle

\* CCL_tarifpart_price_add for every row of the list: refused for a number
\* of minutes the part has a price for
AddPrices(table, id, rows) ==
  LET fresh == {row \in rows : \A r \in DOMAIN table :
                  ~(table[r].part = id /\ table[r].mins = row.mins)}
      Id(row) == Largest(DOMAIN table)
                   + Cardinality({other \in fresh : other.mins <= row.mins})
      typed(r) == CHOOSE row \in fresh : Id(row) = r
  IN  [r \in DOMAIN table \cup {Id(row) : row \in fresh} |->
         IF r \in DOMAIN table THEN table[r]
         ELSE [part |-> id, mins |-> typed(r).mins, price |-> typed(r).price]]

\* onAddPart: a new part of the tariff in use (CCL_tarifpart_new refuses a
\* clash and a tariff that is none), its prices, a rebuild and a reading
AddPart(days, stime, hourprice, rows) ==
  LET id == NewRow(parts)
      ps == Extend(parts, [tarif |-> selected.tarif, days |-> days,
                           stime |-> stime, hourprice |-> hourprice,
                           fafter |-> 10])
  IN  /\ Alone
      /\ selected.tarif >= 1
      /\ Conflicts(parts, selected.tarif, stime, days) = 0
      /\ id <= MaxPart
      /\ parts' = ps
      /\ prices' = AddPrices(prices, id, rows)
      /\ Largest(DOMAIN prices') <= MaxRow
      /\ lists' = CurrentRebuilt(ps, selected.tarif)
      /\ ReadTarif(selected, ps)
      /\ UNCHANGED <<default, edited, calc, chosen>>

\* onDelPart, with a part of the list shown: CCL_tarifpart_delete deletes the
\* price with the id of the part, not the prices of the part
DelPart(id) ==
  LET ps == Drop(parts, {id})
  IN  /\ Alone
      /\ id \in shown
      /\ parts' = ps
      /\ prices' = Drop(prices, {id})
      /\ lists' = CurrentRebuilt(ps, selected.tarif)
      /\ ReadTarif(selected, ps)
      /\ UNCHANGED <<default, edited, calc, chosen>>

\* onPartSelect
SelectPart(id) ==
  /\ Alone
  /\ id \in shown
  /\ edited' = id
  /\ UNCHANGED <<parts, prices, lists, selected, default, shown, calc, chosen>>

\* The row after the setters of onApplyChanges, in their order:
\* CCL_tarifpart_days_set goes through only if some part, itself included,
\* starts at its old time on one of the new days; CCL_tarifpart_stime_set is
\* refused if another part comes first among those that clash.
Applied(ps, id, t, days, stime, hourprice, fafter) ==
  LET p1 == [ps EXCEPT ![id].fafter = fafter]
      p2 == IF Conflicts(p1, t, p1[id].stime, days) # 0
            THEN [p1 EXCEPT ![id].days = days] ELSE p1
      p3 == IF Conflicts(p2, t, stime, p2[id].days) \in {0, id}
            THEN [p2 EXCEPT ![id].stime = stime] ELSE p2
  IN  [p3 EXCEPT ![id].hourprice = hourprice]

\* onApplyChanges for the part selected last, checked against the tariff in
\* use.  If the part is gone only the rebuild and the reading happen.
ApplyChanges(days, stime, hourprice, fafter, rows) ==
  LET t == selected.tarif
      here == edited \in DOMAIN parts
      ps == IF here THEN Applied(parts, edited, t, days, stime, hourprice, fafter)
            ELSE parts
      cleared == Drop(prices, {r \in DOMAIN prices : prices[r].part = edited})
  IN  /\ Alone
      /\ StaleEdits \/ (here /\ parts[edited].tarif = t)
      /\ Conflicts(parts, t, stime, days) \in {0, edited}
      /\ parts' = ps
      /\ prices' = IF here THEN AddPrices(cleared, edited, rows) ELSE prices
      /\ Largest(DOMAIN prices') <= MaxRow
      /\ lists' = CurrentRebuilt(ps, t)
      /\ ReadTarif(selected, ps)
      /\ UNCHANGED <<default, edited, calc, chosen>>

\* onPerminSet
PerminSet(fafter) ==
  /\ Alone
  /\ selected' = [selected EXCEPT !.perminafter = fafter]
  /\ UNCHANGED <<parts, prices, lists, default, shown, edited, calc, chosen>>

\* onSetTarif, with a tariff of the list shown
SetTarif(t) ==
  /\ Alone
  /\ t \in Tarifs(parts)
  /\ ReadTarif(AfterSet(selected, parts, t), parts)
  /\ default' = t
  /\ chosen' = t
  /\ UNCHANGED <<parts, prices, lists, edited, calc>>

\* onNewTarif: the placeholder goes to the tariff after the last, all lists
\* are built and the new tariff is put in use, but not stored as the default.
NewTarif ==
  LET t == 1 + Largest(Tarifs(parts))
      ps == Extend(parts, Placeholder(t))
  IN  /\ Alone
      /\ t <= MaxTarif
      /\ NewRow(parts) <= MaxPart
      /\ parts' = ps
      /\ lists' = AllRebuilt(ps)
      /\ ReadTarif(AfterSet(selected, ps, t), ps)
      /\ chosen' = t
      /\ UNCHANGED <<prices, default, edited, calc>>

-----------------------------------------------------------------------------
(* A network thread prices the session of a member with tariff t *)

CalcBegin(th, t) ==
  /\ Alone
  /\ calc[th] = Idle
  /\ calc' = [calc EXCEPT ![th] = selected.tarif]
  /\ selected' = AfterSet(selected, parts, t)
  /\ UNCHANGED <<parts, prices, lists, default, shown, edited, chosen>>

\* The old tariff is restored if it was one.
CalcEnd(th) ==
  /\ calc[th] # Idle
  /\ calc' = [calc EXCEPT ![th] = Idle]
  /\ selected' = IF calc[th] >= 1 THEN AfterSet(selected, parts, calc[th])
                 ELSE selected
  /\ UNCHANGED <<parts, prices, lists, default, shown, edited, chosen>>

\* The server ends and is started again.
Restart ==
  /\ Booted(FirstParts(parts), default)
  /\ UNCHANGED <<prices, default>>

Tab ==
  \/ \E days \in (SUBSET Days) \ {{}}, stime \in StartTimes, h \in HourPrices, rows \in Rows :
       \/ AddPart(days, stime, h, rows)
       \/ \E fafter \in Fafters : ApplyChanges(days, stime, h, fafter, rows)
  \/ \E id \in DOMAIN parts : DelPart(id) \/ SelectPart(id)
  \/ \E fafter \in Fafters : PerminSet(fafter)
  \/ \E t \in Tarifs(parts) : SetTarif(t)
  \/ NewTarif

Next ==
  \/ Tab
  \/ \E th \in Threads : (\E t \in 1 .. MaxTarif : CalcBegin(th, t)) \/ CalcEnd(th)
  \/ Restart

Spec == Init /\ [][Next]_vars

-----------------------------------------------------------------------------
(* Properties *)

\* The tables hold rows, and the ids in memory are ids of tariffs or none.
TypeOK ==
  /\ \A i \in DOMAIN parts : i \in Nat \ {0} /\ parts[i] \in Part
  /\ \A r \in DOMAIN prices : r \in Nat \ {0} /\ prices[r] \in Price
  /\ selected \in [tarif : Nat, perminafter : Nat]
  /\ default \in Nat /\ shown \subseteq Nat /\ edited \in Nat /\ chosen \in Nat
  /\ calc \in [Threads -> {Idle} \cup Nat]

\* Whatever is added, changed and deleted in the tariff in use, over restarts,
\* with tariffs that lose their last part and whose numbers are given again: what
\* is charged is what is stored, each list in memory is the one its rows give (the
\* rebuild that follows every change, CCL_tarif_rebuild: "should be used after you
\* are done modifying the tarif").  The code does otherwise once the part selected
\* last is of another tariff.
ListsMatchTables == lists = AllRebuilt(parts)

\* The assertion of CCL_tarif_set holds: a tariff that has rows has a list.
AssertionHolds == \A t \in Tarifs(parts) : t \in DOMAIN lists /\ lists[t] # <<>>

\* At every second the list finds the part with the last starting point, the
\* week taken round (_tarif_rebuild, _CCL_tarif_realcalc).
ListCoversWeek ==
  \A t \in DOMAIN lists : \A m \in 0 .. WeekMinutes - 1 :
    LET starts == Starts(parts, t)
        before == {s \in starts : s.stime <= m}
        cand == IF before = {} THEN starts ELSE before
        last == {s \in cand : \A q \in cand : q.stime <= s.stime}
    IN  \E s \in last :
          /\ \A q \in last : s.id <= q.id
          /\ lists[t][LinkAt(lists[t], 60 * m)].id = s.id

\* When no price is being calculated, the tariff in use is the one the
\* employee put in use, while it exists ("Restore previous tarif",
\* CCL_client_owed_terminal).  The code does otherwise once a calculation overlaps
\* with a change of the tariff in use.
TarifRestored ==
  ((\A th \in Threads : calc[th] = Idle) /\ chosen \in Tarifs(parts))
    => selected.tarif = chosen

\* A change in the tab leaves every tariff but the one in use as it was: its
\* parts, and what they cost for any of the times there are prices for.
OtherTarifsUntouched ==
  [][selected' = selected =>
       \A i \in DOMAIN parts : parts[i].tarif # selected.tarif =>
         /\ i \in DOMAIN parts'
         /\ parts'[i] = parts[i]
         /\ RowsOf(prices', i) = RowsOf(prices, i)]_vars
=============================================================================
