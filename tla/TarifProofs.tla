----------------------------- MODULE TarifProofs -----------------------------
(***************************************************************************)
(* The tariffs, for any number of tariffs, parts, days and prices.  The    *)
(* tables and what is in memory are typed whatever happens.  As long as no *)
(* calculation of a price overlaps with another or with a change (~Races), *)
(* the tariff in use is the one the employee put in use; if changes also   *)
(* go to parts of the tariff shown only (~StaleEdits), the lists in memory *)
(* are those the rows give, none is empty, and at every minute they find   *)
(* the part that started last.                                             *)
(*                                                                         *)
(* The sessions, for any tariffs, any grain of time, any length and any    *)
(* number of pauses: per minute every second is charged at the rate the    *)
(* rows give for it, and under a tariff of one part whose prices rise the  *)
(* charge never falls and pauses are free, all but for rounding down at    *)
(* the boundaries crossed.                                                 *)
(***************************************************************************)
EXTENDS Tarif, TarifSession, FiniteSetTheorems, WellFoundedInduction, TLAPS

\* The largest of some natural numbers with a bound is one of them.
LEMMA LargestIn ==
  ASSUME NEW N \in Nat, NEW S \in SUBSET (0 .. N)
  PROVE  /\ Largest(S) \in Nat
         /\ S # {} => Largest(S) \in S /\ \A y \in S : Largest(S) >= y
<1>1. CASE S = {}
  BY <1>1 DEF Largest
<1>2. CASE S # {}
  <2> DEFINE D == {d \in Nat : N - d \in S}
  <2>1. D # {}
    <3>1. PICK x \in S : TRUE
      BY <1>2
    <3>2. N - x \in Nat /\ N - (N - x) = x
      BY <3>1
    <3> QED
      BY <3>1, <3>2
  <2>2. PICK d \in D : \A n \in D : ~(n < d)
    <3>1. IsWellFoundedOn({p \in Nat \X Nat : p[1] < p[2]}, Nat)
      BY NatLessThanWellFounded DEF OpToRel
    <3>2. D \subseteq Nat
      OBVIOUS
    <3> HIDE DEF D
    <3>3. PICK d \in D : \A n \in D : <<n, d>> \notin {p \in Nat \X Nat : p[1] < p[2]}
      BY <2>1, <3>1, <3>2, WFMin, Zenon
    <3> QED
      BY <3>2, <3>3
  <2>3. N - d \in S
    BY <2>2
  <2>4. \A y \in S : N - d >= y
    <3> SUFFICES ASSUME NEW y \in S PROVE N - d >= y
      OBVIOUS
    <3>1. y \in Nat /\ N - y \in Nat /\ N - (N - y) = y
      OBVIOUS
    <3>2. N - y \in D
      BY <3>1
    <3>3. d \in Nat /\ ~(N - y < d)
      BY <2>2, <3>2
    <3> QED
      BY <3>1, <3>3
  <2> DEFINE top == Largest(S)
  <2>5. \E x \in S : \A y \in S : x >= y
    BY <2>3, <2>4
  <2>6. top = CHOOSE x \in S : \A y \in S : x >= y
    BY <1>2 DEF Largest
  <2>7. top \in S /\ \A y \in S : top >= y
    <3> HIDE DEF top
    <3> QED
      BY <2>5, <2>6
  <2>8. top \in Nat
    <3> HIDE DEF top
    <3> QED
      BY <2>7
  <2> QED
    BY <1>2, <2>7, <2>8
<1> QED
  BY <1>1, <1>2

-----------------------------------------------------------------------------
(* The invariant *)

\* A table whose ids are 1 or more, and some number at the most
Numbered(table) == \E N \in Nat : DOMAIN table \subseteq 1 .. N

\* Every row belongs to a tariff and holds on some day.
SoundRows(ps) ==
  /\ Numbered(ps)
  /\ \A i \in DOMAIN ps :
       ps[i] \in Part /\ ps[i].tarif # 0 /\ ps[i].days # {}
  /\ \E N \in Nat : Tarifs(ps) \subseteq 0 .. N

OneCalculation ==
  /\ calc \in [Threads -> {Idle} \cup Nat]
  /\ selected.tarif \in Nat
  /\ \A a, b \in Threads : (calc[a] # Idle /\ calc[b] # Idle) => a = b

\* What the tab lists are parts of the tariff in use, or of the one that will
\* be restored.
ShownHere ==
  /\ (\A th \in Threads : calc[th] = Idle) => shown \subseteq PartsOf(parts, selected.tarif)
  /\ \A th \in Threads : calc[th] # Idle => shown \subseteq PartsOf(parts, calc[th])

IInv == SoundRows(parts) /\ OneCalculation /\ ShownHere /\ ListsMatchTables

-----------------------------------------------------------------------------
(* Rebuilding *)

\* A tariff has starting points exactly if it has rows.
LEMMA StartsOfTarifs ==
  ASSUME NEW ps, SoundRows(ps), NEW t
  PROVE  (Starts(ps, t) # {}) <=> t \in Tarifs(ps)
<1>1. ASSUME t \in Tarifs(ps) PROVE Starts(ps, t) # {}
  <2>1. PICK i \in DOMAIN ps : ps[i].tarif = t
    BY <1>1 DEF Tarifs
  <2>2. PICK d \in Days : d \in ps[i].days
    BY <2>1 DEF SoundRows, Part
  <2>3. <<i, d>> \in {q \in PartsOf(ps, t) \X Days : q[2] \in ps[q[1]].days}
    BY <2>1, <2>2 DEF PartsOf
  <2> QED
    BY <2>3 DEF Starts
<1>2. ASSUME Starts(ps, t) # {} PROVE t \in Tarifs(ps)
  <2>1. PICK q \in PartsOf(ps, t) \X Days : TRUE
    BY <1>2 DEF Starts
  <2> QED
    BY <2>1 DEF PartsOf, Tarifs
<1> QED
  BY <1>1, <1>2

\* If only rows of tariff t changed, building its list again gives all lists.
LEMMA RebuildOne ==
  ASSUME NEW ps, NEW qs, SoundRows(ps), SoundRows(qs),
         lists = AllRebuilt(ps), NEW t \in Nat \ {0},
         \A u : u # t => Starts(qs, u) = Starts(ps, u)
  PROVE  CurrentRebuilt(qs, t) = AllRebuilt(qs)
<1> DEFINE some == IF Starts(qs, t) = {} THEN {} ELSE {t}
<1>1. Tarifs(qs) = (Tarifs(ps) \ {t}) \cup some
  <2>1. \A u : (Starts(qs, u) # {}) <=> u \in Tarifs(qs)
    BY StartsOfTarifs
  <2>2. \A u : (Starts(ps, u) # {}) <=> u \in Tarifs(ps)
    BY StartsOfTarifs
  <2> QED
    BY <2>1, <2>2
<1>2. DOMAIN lists = Tarifs(ps) /\ \A u \in Tarifs(ps) : lists[u] = Rebuilt(ps, u)
  BY DEF AllRebuilt
<1>3. \A u \in Tarifs(qs) :
        (IF u = t THEN Rebuilt(qs, t) ELSE lists[u]) = Rebuilt(qs, u)
  <2> SUFFICES ASSUME NEW u \in Tarifs(qs), u # t PROVE lists[u] = Rebuilt(qs, u)
    OBVIOUS
  <2>1. u \in Tarifs(ps)
    BY <1>1
  <2>2. Rebuilt(qs, u) = Rebuilt(ps, u)
    BY DEF Rebuilt
  <2> QED
    BY <1>2, <2>1, <2>2
<1>4. CurrentRebuilt(qs, t)
        = [u \in Tarifs(qs) |-> IF u = t THEN Rebuilt(qs, t) ELSE lists[u]]
  BY <1>1, <1>2, t # 0, t >= 1 DEF CurrentRebuilt
<1> QED
  BY <1>3, <1>4 DEF AllRebuilt

\* The starting points of a tariff are a matter of its own rows.
LEMMA SameStarts ==
  ASSUME NEW ps, NEW qs, NEW u, PartsOf(qs, u) = PartsOf(ps, u),
         \A i \in PartsOf(ps, u) : qs[i] = ps[i]
  PROVE  Starts(qs, u) = Starts(ps, u)
<1> DEFINE P == {q \in PartsOf(ps, u) \X Days : q[2] \in ps[q[1]].days}
           Q == {q \in PartsOf(qs, u) \X Days : q[2] \in qs[q[1]].days}
<1>1. P = Q /\ \A p \in P : qs[p[1]] = ps[p[1]]
  OBVIOUS
<1> QED
  BY <1>1 DEF Starts

LEMMA NewRowIsNew ==
  ASSUME NEW table, Numbered(table)
  PROVE  NewRow(table) \in Nat \ {0} /\ NewRow(table) \notin DOMAIN table
<1>1. PICK N \in Nat : DOMAIN table \subseteq 1 .. N
  BY DEF Numbered
<1> DEFINE ids == DOMAIN table
<1>2. ids \in SUBSET (0 .. N)
  BY <1>1
<1> HIDE DEF ids
<1>3. Largest(ids) \in Nat /\ \A y \in ids : Largest(ids) >= y /\ y \in Nat
  BY <1>2, LargestIn
<1>4. 1 + Largest(ids) \in Nat \ {0} /\ 1 + Largest(ids) \notin ids
  BY <1>3
<1> QED
  BY <1>4 DEF NewRow, ids

\* A table is numbered with one more id, and with fewer.
LEMMA NumberedMore ==
  ASSUME NEW table, Numbered(table), NEW n \in Nat \ {0}, NEW other,
         DOMAIN other \subseteq DOMAIN table \cup {n}
  PROVE  Numbered(other)
<1>1. PICK N \in Nat : DOMAIN table \subseteq 1 .. N
  BY DEF Numbered
<1>2. N + n \in Nat /\ n \in 1 .. N + n /\ \A k \in 1 .. N : k \in 1 .. N + n
  OBVIOUS
<1>3. DOMAIN other \subseteq 1 .. N + n
  BY <1>1, <1>2
<1> QED
  BY <1>2, <1>3 DEF Numbered

\* A row more of a tariff.
LEMMA RowAdded ==
  ASSUME NEW ps, SoundRows(ps), NEW row \in Part, row.tarif # 0, row.days # {}
  PROVE  /\ SoundRows(Extend(ps, row))
         /\ Tarifs(Extend(ps, row)) = Tarifs(ps) \cup {row.tarif}
         /\ \A u : u # row.tarif => Starts(Extend(ps, row), u) = Starts(ps, u)
<1> DEFINE qs == Extend(ps, row)
           n == NewRow(ps)
<1>1. /\ DOMAIN qs = DOMAIN ps \cup {n}
      /\ \A i \in DOMAIN ps : qs[i] = ps[i]
      /\ n \notin DOMAIN ps => qs[n] = row
  BY DEF Extend
<1>0. n \in Nat \ {0} /\ n \notin DOMAIN ps
  BY NewRowIsNew DEF SoundRows
<1> HIDE DEF qs, n
<1>2. SoundRows(qs)
  <2>1. \A i \in DOMAIN qs : qs[i] \in Part /\ qs[i].tarif # 0 /\ qs[i].days # {}
    BY <1>1 DEF SoundRows
  <2>2. PICK N \in Nat : Tarifs(ps) \subseteq 0 .. N
    BY DEF SoundRows
  <2>3. \A i \in DOMAIN qs : qs[i].tarif \in 0 .. N + row.tarif
    <3>1. row.tarif \in Nat /\ \A i \in DOMAIN ps : ps[i].tarif \in 0 .. N
      BY <2>2 DEF Tarifs, Part
    <3>2. \A k \in 0 .. N : k \in 0 .. N + row.tarif
      BY <3>1
    <3>3. row.tarif \in 0 .. N + row.tarif
      BY <3>1
    <3>4. \A i \in DOMAIN qs : i \in DOMAIN ps \/ (i = n /\ n \notin DOMAIN ps)
      BY <1>1
    <3> QED
      BY <1>1, <3>1, <3>2, <3>3, <3>4
  <2>4. Tarifs(qs) \subseteq 0 .. N + row.tarif
    BY <2>3 DEF Tarifs
  <2>5. N + row.tarif \in Nat
    BY DEF Part
  <2>6. Numbered(ps)
    BY DEF SoundRows
  <2>7. Numbered(qs)
    BY <1>0, <1>1, <2>6, NumberedMore
  <2> QED
    BY <2>1, <2>4, <2>5, <2>7 DEF SoundRows
<1>3. ASSUME NEW u, u # row.tarif PROVE Starts(qs, u) = Starts(ps, u)
  <2>1. PartsOf(qs, u) = PartsOf(ps, u)
    BY <1>1, <1>3 DEF PartsOf
  <2>2. \A i \in PartsOf(ps, u) : qs[i] = ps[i]
    BY <1>1 DEF PartsOf
  <2> QED
    BY <2>1, <2>2, SameStarts
<1>4. Tarifs(qs) = Tarifs(ps) \cup {row.tarif}
  BY <1>0, <1>1 DEF Tarifs
<1> QED
  BY <1>2, <1>3, <1>4 DEF qs

\* A row less.
LEMMA RowDropped ==
  ASSUME NEW ps, SoundRows(ps), NEW id \in DOMAIN ps
  PROVE  /\ SoundRows(Drop(ps, {id})) /\ Tarifs(Drop(ps, {id})) \subseteq Tarifs(ps)
         /\ \A u : u # ps[id].tarif => Starts(Drop(ps, {id}), u) = Starts(ps, u)
<1> DEFINE qs == Drop(ps, {id})
<1>1. DOMAIN qs = DOMAIN ps \ {id} /\ \A i \in DOMAIN qs : qs[i] = ps[i]
  BY DEF Drop
<1> HIDE DEF qs
<1>0. Tarifs(qs) \subseteq Tarifs(ps)
  BY <1>1 DEF Tarifs
<1>2. SoundRows(qs)
  <2>1. Numbered(qs)
    BY <1>1 DEF SoundRows, Numbered
  <2> QED
    BY <1>0, <1>1, <2>1 DEF SoundRows
<1>3. ASSUME NEW u, u # ps[id].tarif PROVE Starts(qs, u) = Starts(ps, u)
  <2>1. PartsOf(qs, u) = PartsOf(ps, u) /\ \A i \in PartsOf(ps, u) : qs[i] = ps[i]
    BY <1>1, <1>3 DEF PartsOf
  <2> QED
    BY <2>1, SameStarts
<1> QED
  BY <1>0, <1>2, <1>3 DEF qs

\* One row set anew, in the same tariff
OneRowSet(ps, id, qs) ==
  /\ DOMAIN qs = DOMAIN ps
  /\ \A i \in DOMAIN ps : i # id => qs[i] = ps[i]
  /\ qs[id] \in Part
  /\ qs[id].tarif = ps[id].tarif /\ qs[id].days # {}

LEMMA RowChanged ==
  ASSUME NEW ps, SoundRows(ps), NEW id \in DOMAIN ps, NEW qs, OneRowSet(ps, id, qs)
  PROVE  /\ SoundRows(qs) /\ Tarifs(qs) = Tarifs(ps)
         /\ \A u : PartsOf(qs, u) = PartsOf(ps, u)
         /\ \A u : u # ps[id].tarif => Starts(qs, u) = Starts(ps, u)
<1>. USE DEF OneRowSet
<1>1. \A i \in DOMAIN ps : qs[i].tarif = ps[i].tarif
  OBVIOUS
<1>2. Tarifs(qs) = Tarifs(ps)
  BY <1>1 DEF Tarifs
<1>3. SoundRows(qs)
  BY <1>1, <1>2 DEF SoundRows, Numbered
<1>4. \A u : PartsOf(qs, u) = PartsOf(ps, u)
  BY <1>1 DEF PartsOf
<1>5. ASSUME NEW u, u # ps[id].tarif PROVE Starts(qs, u) = Starts(ps, u)
  <2>1. \A i \in PartsOf(ps, u) : qs[i] = ps[i]
    BY <1>5 DEF PartsOf
  <2> QED
    BY <1>4, <2>1, SameStarts
<1> QED
  BY <1>2, <1>3, <1>4, <1>5

\* What the setters of onApplyChanges leave: the tariff, and some days.
LEMMA AppliedRow ==
  ASSUME NEW ps, SoundRows(ps), NEW id \in DOMAIN ps, NEW t, NEW days \in SUBSET Days,
         days # {}, NEW stime \in Nat, NEW h \in Nat, NEW fafter \in Nat
  PROVE  OneRowSet(ps, id, Applied(ps, id, t, days, stime, h, fafter))
<1> DEFINE p1 == [ps EXCEPT ![id].fafter = fafter]
           p2 == IF Conflicts(p1, t, p1[id].stime, days) # 0
                 THEN [p1 EXCEPT ![id].days = days] ELSE p1
           p3 == IF Conflicts(p2, t, stime, p2[id].days) \in {0, id}
                 THEN [p2 EXCEPT ![id].stime = stime] ELSE p2
           Same(s) == OneRowSet(ps, id, s)
<1> USE DEF OneRowSet
<1>1. Same(p1)
  BY DEF SoundRows, Part
<1> HIDE DEF p1
<1>2. Same(p2)
  BY <1>1 DEF Part
<1> HIDE DEF p2
<1>3. Same(p3)
  BY <1>2 DEF Part
<1> HIDE DEF p3
<1>4. Same([p3 EXCEPT ![id].hourprice = h])
  BY <1>3 DEF Part
<1> DEFINE p4 == [p3 EXCEPT ![id].hourprice = h]
<1>5. Applied(ps, id, t, days, stime, h, fafter) = p4
  BY DEF Applied, p1, p2, p3
<1> HIDE DEF p4
<1>6. Same(p4)
  BY <1>4 DEF p4
<1> QED
  BY <1>5, <1>6

-----------------------------------------------------------------------------
(* Every action keeps the invariant *)

LEMMA InitOK == Init => IInv
<1> SUFFICES ASSUME Init PROVE IInv
  OBVIOUS
<1>1. Placeholder(1) \in Part /\ Placeholder(1).tarif = 1 /\ Placeholder(1).days # {}
  BY WeekAssumption DEF Placeholder, Part
<1>2. DOMAIN parts = {1} /\ parts[1] = Placeholder(1)
  BY DEF Init
<1>3. Tarifs(parts) \subseteq 0 .. 1
  BY <1>1, <1>2 DEF Tarifs
<1>4. SoundRows(parts)
  <2>1. DOMAIN parts \subseteq 1 .. 1
    BY <1>2
  <2>2. Numbered(parts)
    BY <2>1 DEF Numbered
  <2> QED
    BY <1>1, <1>2, <1>3, <2>2 DEF SoundRows
<1>5. OneCalculation /\ ShownHere
  BY <1>1, <1>2 DEF Init, OneCalculation, ShownHere, PartsOf
<1> QED
  BY <1>4, <1>5 DEF Init, IInv, ListsMatchTables

\* A change to one row of the tariff in use, followed by a rebuild and a
\* reading, as the handlers of the tab make it.
LEMMA EditOK ==
  ASSUME IInv, ~Races, Alone, selected.tarif # 0, SoundRows(parts'),
         \A u : u # selected.tarif => Starts(parts', u) = Starts(parts, u),
         lists' = CurrentRebuilt(parts', selected.tarif),
         ReadTarif(selected, parts'), UNCHANGED calc
  PROVE  IInv'
<1>1. selected.tarif \in Nat \ {0}
  BY DEF IInv, OneCalculation
<1>2. ListsMatchTables'
  <2>1. lists = AllRebuilt(parts)
    BY DEF IInv, ListsMatchTables
  <2>2. SoundRows(parts)
    BY DEF IInv
  <2>3. CurrentRebuilt(parts', selected.tarif) = AllRebuilt(parts')
    BY <1>1, <2>1, <2>2, RebuildOne
  <2> QED
    BY <2>3 DEF ListsMatchTables
<1>3. selected'.tarif = selected.tarif
  BY DEF ReadTarif, AfterSet
<1>4. \A th \in Threads : calc[th] = Idle
  BY DEF Alone
<1>5. OneCalculation' /\ ShownHere'
  BY <1>1, <1>3, <1>4 DEF IInv, OneCalculation, ShownHere, ReadTarif
<1> QED
  BY <1>2, <1>5 DEF IInv

LEMMA AddPartOK ==
  ASSUME IInv, ~Races, NEW days \in (SUBSET Days) \ {{}}, NEW stime \in StartTimes,
         NEW h \in HourPrices, NEW rows, AddPart(days, stime, h, rows)
  PROVE  IInv'
<1> DEFINE row == [tarif |-> selected.tarif, days |-> days, stime |-> stime,
                   hourprice |-> h, fafter |-> 10]
<1>1. row \in Part /\ row.tarif = selected.tarif /\ row.tarif # 0 /\ row.days # {}
  BY TarifAssumption DEF AddPart, Part, IInv, OneCalculation
<1>2. parts' = Extend(parts, row)
  BY DEF AddPart
<1> HIDE DEF row
<1>3. SoundRows(parts') /\ \A u : u # selected.tarif => Starts(parts', u) = Starts(parts, u)
  BY <1>1, <1>2, RowAdded DEF IInv
<1>4. /\ lists' = CurrentRebuilt(parts', selected.tarif)
      /\ ReadTarif(selected, parts') /\ UNCHANGED calc /\ Alone
  BY DEF AddPart
<1> QED
  BY <1>1, <1>3, <1>4, EditOK

LEMMA DelPartOK ==
  ASSUME IInv, ~Races, NEW id \in DOMAIN parts, DelPart(id) PROVE IInv'
<1>1. parts[id].tarif = selected.tarif /\ selected.tarif # 0
  BY DEF DelPart, Alone, IInv, ShownHere, PartsOf, SoundRows
<1>2. parts' = Drop(parts, {id})
  BY DEF DelPart
<1>3. SoundRows(parts') /\ \A u : u # selected.tarif => Starts(parts', u) = Starts(parts, u)
  BY <1>1, <1>2, RowDropped DEF IInv
<1>4. /\ lists' = CurrentRebuilt(parts', selected.tarif)
      /\ ReadTarif(selected, parts') /\ UNCHANGED calc /\ Alone
  BY DEF DelPart
<1> QED
  BY <1>1, <1>3, <1>4, EditOK

LEMMA ApplyChangesOK ==
  ASSUME IInv, ~Races, ~StaleEdits, NEW days \in (SUBSET Days) \ {{}},
         NEW stime \in StartTimes, NEW h \in HourPrices, NEW fafter \in Fafters,
         NEW rows, ApplyChanges(days, stime, h, fafter, rows)
  PROVE  IInv'
<1>1. edited \in DOMAIN parts /\ parts[edited].tarif = selected.tarif
  BY DEF ApplyChanges
<1>2. parts' = Applied(parts, edited, selected.tarif, days, stime, h, fafter)
  BY <1>1 DEF ApplyChanges
<1>3. SoundRows(parts)
  BY DEF IInv
<1>4. stime \in Nat /\ h \in Nat /\ fafter \in Nat /\ days \in SUBSET Days /\ days # {}
  BY TarifAssumption
<1>5. OneRowSet(parts, edited, parts')
  BY <1>1, <1>2, <1>3, <1>4, AppliedRow
<1>6. SoundRows(parts') /\ \A u : u # selected.tarif => Starts(parts', u) = Starts(parts, u)
  BY <1>1, <1>3, <1>5, RowChanged
<1>7. selected.tarif # 0
  BY <1>1, <1>3 DEF SoundRows
<1>8. /\ lists' = CurrentRebuilt(parts', selected.tarif)
      /\ ReadTarif(selected, parts') /\ UNCHANGED calc /\ Alone
  BY <1>2 DEF ApplyChanges
<1> QED
  BY <1>6, <1>7, <1>8, EditOK

LEMMA NewTarifOK == ASSUME IInv, ~Races, NewTarif PROVE IInv'
<1> DEFINE t == 1 + Largest(Tarifs(parts))
<1>1. t \in Nat \ {0}
  <2>1. PICK N \in Nat : Tarifs(parts) \subseteq 0 .. N
    BY DEF IInv, SoundRows
  <2>2. Largest(Tarifs(parts)) \in Nat
    BY <2>1, LargestIn
  <2> QED
    BY <2>2
<1>2. parts' = Extend(parts, Placeholder(t)) /\ lists' = AllRebuilt(parts')
  BY DEF NewTarif
<1>3. ReadTarif(AfterSet(selected, parts', t), parts') /\ UNCHANGED calc /\ Alone
  BY DEF NewTarif
<1> HIDE DEF t
<1>4. Placeholder(t) \in Part /\ Placeholder(t).tarif # 0 /\ Placeholder(t).days # {}
  BY <1>1, WeekAssumption DEF Placeholder, Part
<1>5. SoundRows(parts')
  BY <1>2, <1>4, RowAdded DEF IInv
<1>6. selected'.tarif \in Nat /\ shown' = PartsOf(parts', selected'.tarif)
  BY <1>1, <1>3 DEF ReadTarif, AfterSet, IInv, OneCalculation
<1>7. \A th \in Threads : calc[th] = Idle
  BY <1>3 DEF Alone
<1>8. OneCalculation' /\ ShownHere'
  BY <1>3, <1>6, <1>7 DEF IInv, OneCalculation, ShownHere
<1> QED
  BY <1>2, <1>5, <1>8 DEF IInv, ListsMatchTables

\* The table the server starts with
LEMMA FirstPartsSound ==
  ASSUME NEW table, SoundRows(table) PROVE SoundRows(FirstParts(table))
<1> DEFINE ps == FirstParts(table)
<1>1. Placeholder(1) \in Part /\ Placeholder(1).tarif = 1 /\ Placeholder(1).days # {}
  BY WeekAssumption DEF Placeholder, Part
<1>2. CASE DOMAIN table = {}
  <2>1. DOMAIN ps = {1} /\ ps[1] = Placeholder(1)
    BY <1>2 DEF FirstParts
  <2>2. Tarifs(ps) \subseteq 0 .. 1
    BY <1>1, <2>1 DEF Tarifs
  <2>3. DOMAIN ps \subseteq 1 .. 1
    BY <2>1
  <2>4. Numbered(ps)
    BY <2>3 DEF Numbered
  <2> QED
    BY <1>1, <2>1, <2>2, <2>4 DEF SoundRows
<1>3. CASE DOMAIN table # {}
  BY <1>3 DEF FirstParts
<1> QED
  BY <1>2, <1>3

LEMMA RestartOK == ASSUME IInv, Restart PROVE IInv'
<1> DEFINE ps == FirstParts(parts)
<1>1. SoundRows(ps)
  BY FirstPartsSound DEF IInv
<1>2. /\ parts' = ps /\ lists' = AllRebuilt(ps)
      /\ ReadTarif(AfterSet([tarif |-> 0, perminafter |-> 10], ps, default), ps)
      /\ calc' = [th \in Threads |-> Idle]
  BY DEF Restart, Booted
<1> HIDE DEF ps
<1>3. \A i \in DOMAIN ps : ps[i].tarif \in Nat
  BY <1>1 DEF SoundRows, Part
<1>4. selected'.tarif \in Nat /\ shown' = PartsOf(ps, selected'.tarif)
  BY <1>2, <1>3 DEF ReadTarif, AfterSet, Tarifs
<1>5. OneCalculation' /\ ShownHere'
  BY <1>2, <1>4 DEF OneCalculation, ShownHere
<1> QED
  BY <1>1, <1>2, <1>5 DEF IInv, ListsMatchTables

LEMMA CalcBeginOK ==
  ASSUME IInv, ~Races, NEW th \in Threads, NEW t \in Nat, CalcBegin(th, t)
  PROVE  IInv'
<1>1. \A a \in Threads : calc[a] = Idle
  BY DEF CalcBegin, Alone
<1>2. calc' = [calc EXCEPT ![th] = selected.tarif] /\ selected' = AfterSet(selected, parts, t)
  BY DEF CalcBegin
<1>3. OneCalculation'
  BY <1>1, <1>2 DEF IInv, OneCalculation, AfterSet
<1>4. calc'[th] = selected.tarif /\ \A a \in Threads : a # th => calc'[a] = Idle
  BY <1>1, <1>2 DEF IInv, OneCalculation
<1>5. selected.tarif # Idle
  BY DEF IInv, OneCalculation, Idle
<1>6. ShownHere'
  BY <1>1, <1>4, <1>5 DEF IInv, ShownHere, CalcBegin
<1> QED
  BY <1>3, <1>6 DEF IInv, ListsMatchTables, CalcBegin

LEMMA CalcEndOK == ASSUME IInv, NEW th \in Threads, CalcEnd(th) PROVE IInv'
<1>1. calc' = [calc EXCEPT ![th] = Idle] /\ UNCHANGED <<parts, shown, lists>>
  BY DEF CalcEnd
<1>2. calc[th] # Idle /\ calc[th] \in Nat /\ \A a \in Threads : a # th => calc[a] = Idle
  BY DEF CalcEnd, IInv, OneCalculation
<1>3. selected'.tarif \in Nat
  BY <1>2 DEF CalcEnd, AfterSet, IInv, OneCalculation
<1>4. \A a \in Threads : calc'[a] = Idle
  BY <1>1, <1>2 DEF IInv, OneCalculation
<1>5. OneCalculation'
  BY <1>1, <1>3, <1>4 DEF IInv, OneCalculation
<1>6. shown \subseteq PartsOf(parts, calc[th])
  BY <1>2 DEF IInv, ShownHere
<1>7. shown # {} => selected'.tarif = calc[th]
  <2>1. ASSUME shown # {} PROVE calc[th] >= 1 /\ calc[th] \in Tarifs(parts)
    <3>1. PICK i \in DOMAIN parts : parts[i].tarif = calc[th]
      BY <1>6, <2>1 DEF PartsOf
    <3>2. calc[th] # 0
      BY <3>1 DEF IInv, SoundRows
    <3> QED
      BY <1>2, <3>1, <3>2 DEF Tarifs
  <2> QED
    BY <2>1 DEF CalcEnd, AfterSet
<1>8. ShownHere'
  BY <1>1, <1>4, <1>6, <1>7 DEF ShownHere
<1> QED
  BY <1>1, <1>5, <1>8 DEF IInv, ListsMatchTables

-----------------------------------------------------------------------------
(* The theorem *)

LEMMA NextOK == ASSUME ~Races, ~StaleEdits, IInv, [Next]_vars PROVE IInv'
<1>1. ASSUME NEW days \in (SUBSET Days) \ {{}}, NEW stime \in StartTimes,
             NEW h \in HourPrices, NEW rows \in Rows, AddPart(days, stime, h, rows)
      PROVE  IInv'
  BY <1>1, AddPartOK
<1>2. ASSUME NEW days \in (SUBSET Days) \ {{}}, NEW stime \in StartTimes,
             NEW h \in HourPrices, NEW rows \in Rows, NEW fafter \in Fafters,
             ApplyChanges(days, stime, h, fafter, rows)
      PROVE  IInv'
  BY <1>2, ApplyChangesOK
<1>3. ASSUME NEW id \in DOMAIN parts, DelPart(id) PROVE IInv'
  BY <1>3, DelPartOK
<1>4. ASSUME NEW id \in DOMAIN parts, SelectPart(id) PROVE IInv'
  BY <1>4 DEF SelectPart, IInv, OneCalculation, ShownHere, ListsMatchTables
<1>5. ASSUME NEW fafter \in Fafters, PerminSet(fafter) PROVE IInv'
  <2>1. selected' = [selected EXCEPT !.perminafter = fafter]
    BY <1>5 DEF PerminSet
  <2>2. selected'.tarif = selected.tarif
    BY <2>1
  <2> QED
    BY <1>5, <2>2 DEF PerminSet, IInv, OneCalculation, ShownHere, ListsMatchTables
<1>6. ASSUME NEW t \in Tarifs(parts), SetTarif(t) PROVE IInv'
  <2>1. selected'.tarif = t /\ shown' = PartsOf(parts, t) /\ t \in Nat
    BY <1>6 DEF SetTarif, ReadTarif, AfterSet, IInv, SoundRows, Tarifs, Part
  <2>2. \A th \in Threads : calc[th] = Idle
    BY <1>6 DEF SetTarif, Alone
  <2> QED
    BY <1>6, <2>1, <2>2 DEF SetTarif, IInv, OneCalculation, ShownHere, ListsMatchTables
<1>7. ASSUME NewTarif PROVE IInv'
  BY <1>7, NewTarifOK
<1>8. ASSUME NEW th \in Threads, NEW t \in 1 .. MaxTarif, CalcBegin(th, t) PROVE IInv'
  BY <1>8, CalcBeginOK, TarifAssumption
<1>9. ASSUME NEW th \in Threads, CalcEnd(th) PROVE IInv'
  BY <1>9, CalcEndOK
<1>10. ASSUME Restart PROVE IInv'
  BY <1>10, RestartOK
<1>11. ASSUME UNCHANGED vars PROVE IInv'
  BY <1>11 DEF vars, IInv, OneCalculation, ShownHere, ListsMatchTables
<1> QED
  BY <1>1, <1>2, <1>3, <1>4, <1>5, <1>6, <1>7, <1>8, <1>9, <1>10, <1>11 DEF Next, Tab

\* What is charged is what is stored: every list in memory is, at any time,
\* the one its rows give, if changes are only applied to parts of the tariff
\* shown and no calculation overlaps with a change or with another.
THEOREM ListsCurrent == ASSUME ~Races, ~StaleEdits PROVE Spec => []ListsMatchTables
<1>1. IInv /\ [Next]_vars => IInv'
  BY NextOK
<1>2. IInv => ListsMatchTables
  BY DEF IInv
<1> QED
  BY <1>1, <1>2, InitOK, PTL DEF Spec
-----------------------------------------------------------------------------
(* The list of a tariff: in order, and without a gap *)

Point == [id : Nat, stime : Nat, hprice : Nat]

\* Starting points of which no two come at the same place
Points(S) ==
  /\ IsFiniteSet(S) /\ S \subseteq Point
  /\ \A a, b \in S : a = b \/ Earlier(a, b) \/ Earlier(b, a)

IsFirst(S, s) == s \in S /\ \A q \in S : q = s \/ Earlier(s, q)
IsLast(S, s) == s \in S /\ \A q \in S : q = s \/ Earlier(q, s)

LEMMA EarlierOrder ==
  \A a, b, c \in Point : /\ ~Earlier(a, a)
                         /\ Earlier(a, b) /\ Earlier(b, c) => Earlier(a, c)
  BY DEF Point, Earlier

\* Some of the points are points.
LEMMA SomePoints ==
  ASSUME NEW S, Points(S), NEW T \in SUBSET S PROVE Points(T)
  BY FS_Subset DEF Points

\* How many come before is the place of a point: a list in order has each
\* point once, and every point comes after those before it.
LEMMA Sorted ==
  ASSUME NEW S, Points(S)
  PROVE  LET L == InOrder(S)
             len == Cardinality(S)
         IN  /\ len \in Nat /\ (S # {} => len >= 1)
             /\ L \in [1 .. len -> S]
             /\ \A s \in S : \E n \in 1 .. len : L[n] = s
             /\ \A i, j \in 1 .. len : i < j => Earlier(L[i], L[j])
<1> DEFINE Before(s) == {q \in S : Earlier(q, s)}
           rank == [s \in S |-> Cardinality(Before(s)) + 1]
           len == Cardinality(S)
           L == InOrder(S)
<1>1. IsFiniteSet(S) /\ len \in Nat /\ (S # {} => len >= 1)
  BY FS_CardinalityType, FS_EmptySet DEF Points
<1>2. \A s \in S : IsFiniteSet(Before(s)) /\ Cardinality(Before(s)) \in Nat
  BY <1>1, FS_Subset, FS_CardinalityType
<1>3. ASSUME NEW s \in S PROVE rank[s] \in 1 .. len
  <2>1. s \notin Before(s)
    BY EarlierOrder DEF Points
  <2>2. Before(s) \in SUBSET S /\ Before(s) # S
    BY <2>1
  <2>3. Cardinality(Before(s)) <= len /\ Cardinality(Before(s)) # len
    BY <1>1, <2>2, FS_Subset
  <2> QED
    BY <1>1, <1>2, <2>3
<1>4. ASSUME NEW a \in S, NEW b \in S, Earlier(a, b) PROVE rank[a] < rank[b]
  <2>1. a \in Before(b) /\ a \notin Before(a)
    BY <1>4, EarlierOrder DEF Points
  <2>2. Before(a) \in SUBSET Before(b) /\ Before(a) # Before(b)
    BY <1>4, <2>1, EarlierOrder DEF Points
  <2>3. Cardinality(Before(a)) <= Cardinality(Before(b))
        /\ Cardinality(Before(a)) # Cardinality(Before(b))
    BY <1>2, <2>2, FS_Subset
  <2> QED
    BY <1>2, <2>3
<1> HIDE DEF Before
<1>5. rank \in [S -> 1 .. len]
  BY <1>3
<1> HIDE DEF rank
<1>6. \A a, b \in S : rank[a] = rank[b] => a = b
  <2> SUFFICES ASSUME NEW a \in S, NEW b \in S, a # b PROVE rank[a] # rank[b]
    OBVIOUS
  <2>1. Earlier(a, b) \/ Earlier(b, a)
    BY DEF Points
  <2>2. rank[a] \in Nat /\ rank[b] \in Nat
    BY <1>1, <1>3
  <2> QED
    BY <1>4, <2>1, <2>2
<1>7. \A n \in 1 .. len : \E s \in S : rank[s] = n
  <2>1. rank \in Injection(S, 1 .. len)
    BY <1>5, <1>6 DEF Injection, IsInjective
  <2>2. IsFiniteSet(1 .. len) /\ Cardinality(1 .. len) = len
    BY <1>1, FS_Interval
  <2>3. rank \in Surjection(S, 1 .. len)
    BY <2>1, <2>2, FS_Injection
  <2> QED
    BY <2>3 DEF Surjection
<1>8. DOMAIN L = 1 .. len /\ \A n \in 1 .. len : L[n] \in S /\ rank[L[n]] = n
  <2>1. \A n \in 1 .. len : L[n] = CHOOSE s \in S : Cardinality(Before(s)) = n - 1
    BY DEF InOrder, Before
  <2>2. DOMAIN L = 1 .. len
    BY DEF InOrder
  <2> HIDE DEF L
  <2>3. ASSUME NEW n \in 1 .. len PROVE L[n] \in S /\ rank[L[n]] = n
    <3>1. PICK s \in S : rank[s] = n
      BY <1>7
    <3>2. \A q \in S : rank[q] = n <=> Cardinality(Before(q)) = n - 1
      BY <1>1, <1>2 DEF rank
    <3> QED
      BY <2>1, <3>1, <3>2
  <2> QED
    BY <2>2, <2>3
<1> HIDE DEF L
<1>9. L \in [1 .. len -> S]
  <2> DEFINE place(n) == CHOOSE s \in S : Cardinality({q \in S : Earlier(q, s)}) = n - 1
  <2>1. L = [n \in 1 .. len |-> place(n)]
    BY DEF L, InOrder
  <2> HIDE DEF place, len
  <2> QED
    BY <1>8, <2>1
<1>10. \A s \in S : \E n \in 1 .. len : L[n] = s
  BY <1>3, <1>6, <1>8
<1>11. ASSUME NEW i \in 1 .. len, NEW j \in 1 .. len, i < j PROVE Earlier(L[i], L[j])
  <2>1. L[i] \in S /\ L[j] \in S /\ rank[L[i]] = i /\ rank[L[j]] = j
    BY <1>8
  <2>2. L[i] # L[j] /\ ~Earlier(L[j], L[i])
    BY <1>1, <1>4, <1>11, <2>1
  <2> QED
    BY <2>1, <2>2 DEF Points
<1> QED
  BY <1>1, <1>9, <1>10, <1>11 DEF L

LEMMA FirstAndLast ==
  ASSUME NEW S, Points(S), S # {}
  PROVE  (\E s \in S : IsFirst(S, s)) /\ \E s \in S : IsLast(S, s)
<1> DEFINE L == InOrder(S)
           len == Cardinality(S)
<1>1. /\ len \in Nat /\ len >= 1 /\ L \in [1 .. len -> S]
      /\ \A s \in S : \E n \in 1 .. len : L[n] = s
      /\ \A i, j \in 1 .. len : i < j => Earlier(L[i], L[j])
  BY Sorted
<1> HIDE DEF L, len
<1>2. IsFirst(S, L[1])
  BY <1>1 DEF IsFirst
<1>3. IsLast(S, L[len])
  BY <1>1 DEF IsLast
<1> QED
  BY <1>1, <1>2, <1>3 DEF IsFirst, IsLast

\* Among the points up to some place, the last that is kept belongs to the
\* part of the last: what is removed only continues it.
LEMMA KeptContinues ==
  ASSUME NEW S, Points(S), NEW C \in SUBSET S, NEW b, IsLast(C, b),
         \A c \in C, q \in S : Earlier(q, c) => q \in C
  PROVE  \E d \in Merged(S) \cap C : d.id = b.id /\ IsLast(Merged(S) \cap C, d)
<1> DEFINE D == {q \in C : \A r \in S : /\ r = q \/ Earlier(q, r)
                                        /\ r = b \/ Earlier(r, b)
                                        => r.id = b.id}
<1>1. b \in C /\ \A q \in C : q = b \/ Earlier(q, b)
  BY DEF IsLast
<1>2. S \subseteq Point /\ \A p, q \in S : p = q \/ Earlier(p, q) \/ Earlier(q, p)
  BY DEF Points
<1>3. b \in D
  BY <1>1, <1>2, EarlierOrder
<1>4. PICK d \in D : \A q \in D : q = d \/ Earlier(d, q)
  BY <1>3, SomePoints, FirstAndLast DEF IsFirst
<1>5. d \in C /\ d.id = b.id
  BY <1>1
<1>6. \A r \in S : (r = d \/ Earlier(d, r)) /\ (r = b \/ Earlier(r, b)) => r.id = b.id
  OBVIOUS
<1>7. d \in Merged(S)
  <2> SUFFICES ASSUME NEW p \in S, p.id = d.id, JustBefore(S, p, d) PROVE FALSE
    BY <1>5 DEF Merged
  <2>1. Earlier(p, d) /\ \A q \in S : Earlier(p, q) => ~Earlier(q, d)
    BY DEF JustBefore
  <2>2. p \in C
    BY <1>5, <2>1
  <2>3. ASSUME NEW r \in S, r = p \/ Earlier(p, r), r = b \/ Earlier(r, b)
        PROVE  r.id = b.id
    BY <1>2, <1>5, <1>6, <2>1, <2>3
  <2>4. p \in D
    BY <2>2, <2>3
  <2> QED
    BY <1>2, <1>4, <1>5, <2>1, <2>4, EarlierOrder
<1>8. ASSUME NEW k \in Merged(S) \cap C, k # d PROVE Earlier(k, d)
  <2> SUFFICES ASSUME Earlier(d, k) PROVE FALSE
    BY <1>2, <1>5, <1>8 DEF Merged
  <2>1. k.id = b.id
    BY <1>1, <1>6
  <2> DEFINE P == {q \in S : Earlier(q, k)}
  <2>2. d \in P
    BY <1>5
  <2>3. PICK p \in P : \A q \in P : q = p \/ Earlier(q, p)
    BY <2>2, SomePoints, FirstAndLast DEF IsLast
  <2>4. d = p \/ Earlier(d, p)
    BY <2>2, <2>3
  <2>5. p \in C /\ (p = b \/ Earlier(p, b))
    BY <1>1, <2>3
  <2>6. p.id = b.id
    BY <1>6, <2>4, <2>5
  <2>7. JustBefore(S, p, k)
    BY <1>2, <2>3, EarlierOrder DEF JustBefore
  <2> QED
    BY <2>1, <2>3, <2>6, <2>7 DEF Merged
<1> QED
  BY <1>5, <1>7, <1>8 DEF IsLast

\* With a link for the start of the week, if there was none.
LEMMA WholeWeek ==
  ASSUME NEW S, Points(S), S # {}
  PROVE  LET M == Merged(S)
             W == FromSunday(M)
         IN  /\ Points(M) /\ Points(W)
             /\ M \subseteq W
             /\ \E s \in W : s.stime = 0
             /\ \A s \in W : s \in M \/ (/\ s.stime = 0 /\ IsFirst(W, s)
                                         /\ \E l : /\ IsLast(M, l) /\ s.id = l.id
                                                   /\ s.hprice = l.hprice)
<1> DEFINE M == Merged(S)
           l == LastOf(M)
           sunday == [l EXCEPT !.stime = 0]
           W == FromSunday(M)
<1>1. M \subseteq S /\ Points(M)
  BY SomePoints DEF Merged
<1>2. M # {}
  <2>1. PICK b \in S : IsLast(S, b)
    BY FirstAndLast
  <2>2. S \in SUBSET S /\ \A c \in S, q \in S : Earlier(q, c) => q \in S
    OBVIOUS
  <2>3. \E d \in Merged(S) \cap S : d.id = b.id /\ IsLast(Merged(S) \cap S, d)
    BY <2>1, <2>2, KeptContinues
  <2> QED
    BY <2>3
<1> HIDE DEF M
<1>3. IsLast(M, l)
  <2>1. \E s \in M : \A q \in M : q = s \/ Earlier(q, s)
    BY <1>1, <1>2, FirstAndLast DEF IsLast
  <2>2. l = CHOOSE s \in M : \A q \in M : q = s \/ Earlier(q, s)
    BY DEF LastOf
  <2> HIDE DEF l
  <2> QED
    BY <2>1, <2>2 DEF IsLast
<1>4. CASE \E s \in M : s.stime = 0
  <2>1. W = M
    BY <1>4 DEF FromSunday
  <2> QED
    BY <1>1, <1>4, <2>1 DEF M
<1>5. CASE ~\E s \in M : s.stime = 0
  <2>1. W = M \cup {sunday}
    BY <1>2, <1>5 DEF FromSunday
  <2> HIDE DEF W, l
  <2>2. M \subseteq Point /\ IsFiniteSet(M) /\ l \in Point
    BY <1>1, <1>3 DEF Points, IsLast
  <2>3. /\ sunday \in Point /\ sunday.stime = 0
        /\ sunday.id = l.id /\ sunday.hprice = l.hprice
    BY <2>2 DEF Point
  <2> HIDE DEF sunday
  <2>4. \A s \in M : Earlier(sunday, s)
    BY <1>5, <2>2, <2>3 DEF Point, Earlier
  <2>5. W \subseteq Point /\ IsFiniteSet(W)
    BY <2>1, <2>2, <2>3, FS_AddElement
  <2>6. Points(W)
    BY <1>1, <2>1, <2>4, <2>5 DEF Points
  <2>7. IsFirst(W, sunday)
    BY <2>1, <2>4 DEF IsFirst
  <2> QED
    BY <1>1, <1>3, <2>1, <2>3, <2>6, <2>7 DEF M, W
<1> QED
  BY <1>4, <1>5

\* The walk through a list in order that starts at midnight ends at the last
\* link that starts no later than the minute looked for.
LEMMA WalkEnds ==
  ASSUME NEW W, Points(W), \E s \in W : s.stime = 0, NEW m \in Nat
  PROVE  LET L == InOrder(W)
         IN  IsLast({s \in W : s.stime <= m}, L[LinkAt(L, 60 * m)])
<1> DEFINE L == InOrder(W)
           len == Cardinality(W)
           Stop(n) == /\ n < len => 60 * m < 60 * L[n + 1].stime
                      /\ \A k \in 1 .. n - 1 : 60 * m >= 60 * L[k + 1].stime
           at == LinkAt(L, 60 * m)
<1>1. /\ len \in Nat /\ len >= 1 /\ L \in [1 .. len -> W]
      /\ \A s \in W : \E n \in 1 .. len : L[n] = s
      /\ \A i, j \in 1 .. len : i < j => Earlier(L[i], L[j])
  BY Sorted
<1>2. Len(L) = len
  BY <1>1
<1>3. at = CHOOSE n \in 1 .. len : Stop(n)
  BY <1>2 DEF LinkAt
<1> HIDE DEF L, len, at
<1>4. \A n \in 1 .. len : L[n] \in W /\ L[n].stime \in Nat
  BY <1>1 DEF Points, Point
<1>5. \E n \in 1 .. len : Stop(n)
  <2> DEFINE D == {n \in Nat : n \in 1 .. len /\ (n < len => m < L[n + 1].stime)}
  <2>1. len \in D
    BY <1>1
  <2>2. PICK n \in D : \A k \in D : ~(k < n)
    <3>1. IsWellFoundedOn({p \in Nat \X Nat : p[1] < p[2]}, Nat)
      BY NatLessThanWellFounded DEF OpToRel
    <3>2. D \subseteq Nat
      OBVIOUS
    <3> HIDE DEF D
    <3>3. PICK n \in D : \A k \in D : <<k, n>> \notin {p \in Nat \X Nat : p[1] < p[2]}
      BY <2>1, <3>1, <3>2, WFMin, Zenon
    <3> QED
      BY <3>2, <3>3
  <2>3. ASSUME NEW k \in 1 .. n - 1 PROVE m >= L[k + 1].stime
    <3>1. k \in Nat /\ k \in 1 .. len /\ k < n /\ k < len /\ k + 1 \in 1 .. len
      BY <1>1, <2>2
    <3>2. k \notin D
      BY <2>2, <3>1
    <3> QED
      BY <1>4, <3>1, <3>2
  <2>4. n \in 1 .. len /\ (n < len => m < L[n + 1].stime /\ n + 1 \in 1 .. len)
    BY <1>1, <2>2
  <2>5. n < len => 60 * m < 60 * L[n + 1].stime
    BY <1>4, <2>4
  <2>6. \A k \in 1 .. n - 1 : 60 * m >= 60 * L[k + 1].stime
    <3> SUFFICES ASSUME NEW k \in 1 .. n - 1 PROVE 60 * m >= 60 * L[k + 1].stime
      OBVIOUS
    <3>1. k + 1 \in 1 .. len
      BY <1>1, <2>4
    <3> QED
      BY <1>4, <2>3, <3>1
  <2> QED
    BY <2>4, <2>5, <2>6
<1>6. at \in 1 .. len /\ Stop(at)
  <2> HIDE DEF Stop
  <2> QED
    BY <1>3, <1>5
<1>7. at < len => m < L[at + 1].stime
  BY <1>1, <1>4, <1>6
<1>8. L[at].stime <= m
  <2>1. CASE at = 1
    <3>1. PICK n \in 1 .. len : L[n].stime = 0
      BY <1>1
    <3>2. n = 1 \/ Earlier(L[1], L[n])
      BY <1>1
    <3>3. L[1].stime = 0
      BY <1>1, <1>4, <3>1, <3>2 DEF Earlier
    <3> QED
      BY <2>1, <3>3
  <2>2. CASE at # 1
    <3>1. at - 1 \in 1 .. at - 1 /\ (at - 1) + 1 = at
      BY <1>1, <1>6, <2>2
    <3>2. 60 * m >= 60 * L[at].stime
      BY <1>6, <3>1
    <3> QED
      BY <1>4, <1>6, <3>2
  <2> QED
    BY <2>1, <2>2
<1>9. ASSUME NEW s \in W, s.stime <= m PROVE s = L[at] \/ Earlier(s, L[at])
  <2>1. PICK n \in 1 .. len : L[n] = s
    BY <1>1
  <2>2. ~(at < n)
    <3> SUFFICES ASSUME at < n PROVE FALSE
      OBVIOUS
    <3>1. at < len /\ at + 1 \in 1 .. len /\ (n = at + 1 \/ at + 1 < n)
      BY <1>1, <1>6
    <3>2. L[at + 1].stime <= L[n].stime
      BY <1>1, <1>4, <3>1 DEF Earlier
    <3> QED
      BY <1>4, <1>7, <1>9, <2>1, <3>1, <3>2
  <2>3. n = at \/ n < at
    BY <1>1, <1>6, <2>2
  <2> QED
    BY <1>1, <1>6, <2>1, <2>3
<1> QED
  BY <1>4, <1>6, <1>8, <1>9 DEF IsLast, L, at

\* The starting points not after a minute, or all if there is none
Started(S, m) ==
  LET before == {s \in S : s.stime <= m}
  IN  IF before = {} THEN S ELSE before

\* At every minute the list finds the part of the last starting point, the
\* week taken round.
LEMMA ListFinds ==
  ASSUME NEW S, Points(S), NEW m \in Nat, NEW b, IsLast(Started(S, m), b)
  PROVE  Links(S)[LinkAt(Links(S), 60 * m)].id = b.id
<1> DEFINE M == Merged(S)
           W == FromSunday(M)
           before == {s \in S : s.stime <= m}
           reached == {s \in W : s.stime <= m}
           found == InOrder(W)[LinkAt(InOrder(W), 60 * m)]
<1>1. S # {} /\ S \subseteq Point /\ M \subseteq S
  BY DEF IsLast, Points, Merged, Started
<1>2. /\ Points(W) /\ M \subseteq W
      /\ \E s \in W : s.stime = 0
      /\ \A s \in W : s \in M \/ (/\ s.stime = 0 /\ IsFirst(W, s)
                                  /\ \E l : IsLast(M, l) /\ s.id = l.id)
  BY <1>1, WholeWeek
<1>3. IsLast(reached, found)
  BY <1>2, WalkEnds
<1>4. Links(S)[LinkAt(Links(S), 60 * m)] = found
  BY DEF Links
<1> HIDE DEF W, found
<1>5. CASE before = {}
  <2>1. IsLast(S, b)
    BY <1>5 DEF Started
  <2>2. PICK d \in M \cap S : d.id = b.id /\ IsLast(M \cap S, d)
    BY <2>1, KeptContinues
  <2>3. IsLast(M, d)
    BY <1>1, <2>2 DEF IsLast
  <2>4. found \in W /\ found.stime <= m
    BY <1>3 DEF IsLast
  <2>5. found \notin M
    BY <1>1, <1>5, <2>4
  <2>6. PICK l : IsLast(M, l) /\ found.id = l.id
    BY <1>2, <2>4, <2>5
  <2>7. l = d
    BY <1>1, <2>3, <2>6, EarlierOrder DEF IsLast
  <2> QED
    BY <1>4, <2>2, <2>6, <2>7
<1>6. CASE before # {}
  <2>1. IsLast(before, b)
    BY <1>6 DEF Started
  <2>2. \A c \in before, q \in S : Earlier(q, c) => q \in before
    BY <1>1 DEF Point, Earlier
  <2>3. PICK d \in M \cap before : d.id = b.id /\ IsLast(M \cap before, d)
    BY <2>1, <2>2, KeptContinues
  <2>4. d \in reached
    BY <1>2, <2>3
  <2>5. found \in W /\ found.stime <= m /\ (d = found \/ Earlier(d, found))
    BY <1>3, <2>4 DEF IsLast
  <2>6. W \subseteq Point
    BY <1>2 DEF Points
  <2>7. found = d
    <3>1. CASE found \in M
      <4>1. found \in M \cap before
        BY <1>1, <2>5, <3>1
      <4>2. found = d \/ Earlier(found, d)
        BY <2>3, <4>1 DEF IsLast
      <4>3. found \in Point /\ d \in Point
        BY <1>1, <2>3, <2>5, <2>6
      <4> QED
        BY <2>5, <4>2, <4>3, EarlierOrder
    <3>2. CASE found \notin M
      <4>1. IsFirst(W, found)
        BY <1>2, <2>5, <3>2
      <4> QED
        BY <2>4, <2>5, <2>6, <4>1, EarlierOrder DEF IsFirst
    <3> QED
      BY <3>1, <3>2
  <2> QED
    BY <1>4, <2>3, <2>7
<1> QED
  BY <1>5, <1>6

-----------------------------------------------------------------------------
(* What follows for the lists in memory *)

LEMMA StartsArePoints ==
  ASSUME NEW ps, SoundRows(ps), NEW t PROVE Points(Starts(ps, t))
<1> DEFINE Q == {q \in PartsOf(ps, t) \X Days : q[2] \in ps[q[1]].days}
           Start(p) == [id |-> p[1], stime |-> ps[p[1]].stime + p[2] * DayMinutes,
                        hprice |-> ps[p[1]].hourprice]
           S == Starts(ps, t)
<1>1. S = {Start(p) : p \in Q}
  BY DEF Starts
<1>2. IsFiniteSet(Q)
  <2>1. PICK N \in Nat : DOMAIN ps \subseteq 1 .. N
    BY DEF SoundRows, Numbered
  <2>2. IsFiniteSet(1 .. N)
    BY FS_Interval
  <2>3. PartsOf(ps, t) \in SUBSET (1 .. N)
    BY <2>1 DEF PartsOf
  <2>4. IsFiniteSet(PartsOf(ps, t))
    BY <2>2, <2>3, FS_Subset
  <2>5. IsFiniteSet(PartsOf(ps, t) \X Days)
    BY <2>4, FS_Product, WeekAssumption
  <2> QED
    BY <2>5, FS_Subset
<1>3. \A p \in Q : p[1] \in DOMAIN ps /\ p[1] \in Nat /\ p[2] \in Nat
  <2>1. \A d \in Days : d \in Nat
    <3>1. Cardinality(Days) \in Nat
      BY WeekAssumption, FS_CardinalityType
    <3> QED
      BY <3>1, WeekAssumption
  <2>2. PICK N \in Nat : DOMAIN ps \subseteq 1 .. N
    BY DEF SoundRows, Numbered
  <2> QED
    BY <2>1, <2>2 DEF PartsOf
<1>4. \A p \in Q : Start(p) \in Point
  <2> SUFFICES ASSUME NEW p \in Q PROVE Start(p) \in Point
    OBVIOUS
  <2>1. ps[p[1]].stime \in Nat /\ ps[p[1]].hourprice \in Nat /\ p[1] \in Nat
    BY <1>3 DEF SoundRows, Part
  <2>2. p[2] * DayMinutes \in Nat
    <3>1. \A a, b \in Nat : a * b \in Nat
      OBVIOUS
    <3> QED
      BY <1>3, <3>1, WeekAssumption
  <2> QED
    BY <2>1, <2>2 DEF Point
<1>5. \A a, b \in S : a = b \/ Earlier(a, b) \/ Earlier(b, a)
  <2> SUFFICES ASSUME NEW p \in Q, NEW q \in Q
               PROVE  LET a == Start(p)
                          b == Start(q)
                      IN  a = b \/ Earlier(a, b) \/ Earlier(b, a)
    BY <1>1
  <2>1. Start(p) \in Point /\ Start(q) \in Point
    BY <1>4
  <2>2. (p[1] = q[1] /\ Start(p).stime = Start(q).stime) => Start(p) = Start(q)
    OBVIOUS
  <2>3. Start(p).id = p[1] /\ Start(q).id = q[1]
    OBVIOUS
  <2> HIDE DEF Start
  <2> QED
    BY <2>1, <2>2, <2>3 DEF Point, Earlier
<1>6. IsFiniteSet(S)
  <2> DEFINE F == [p \in Q |-> Start(p)]
  <2>1. F \in Surjection(Q, S)
    BY <1>1 DEF Surjection
  <2> QED
    BY <1>2, <2>1, FS_Surjection
<1>7. S \subseteq Point
  BY <1>1, <1>4
<1> QED
  BY <1>5, <1>6, <1>7 DEF Points

\* The lists of all tariffs have links, and find what the rows say.
LEMMA ListsSound ==
  ASSUME SoundRows(parts), ListsMatchTables PROVE AssertionHolds /\ ListCoversWeek
<1>1. /\ DOMAIN lists = Tarifs(parts)
      /\ \A t \in Tarifs(parts) : lists[t] = Links(Starts(parts, t))
  BY DEF ListsMatchTables, AllRebuilt, Rebuilt
<1>2. \A t \in Tarifs(parts) : Points(Starts(parts, t)) /\ Starts(parts, t) # {}
  BY StartsArePoints, StartsOfTarifs
<1>3. AssertionHolds
  <2> SUFFICES ASSUME NEW t \in Tarifs(parts) PROVE lists[t] # <<>>
    BY <1>1 DEF AssertionHolds
  <2> DEFINE W == FromSunday(Merged(Starts(parts, t)))
             L == InOrder(W)
  <2>1. Points(W) /\ W # {}
    BY <1>2, WholeWeek
  <2> HIDE DEF W
  <2>2. Cardinality(W) \in Nat /\ Cardinality(W) >= 1 /\ L \in [1 .. Cardinality(W) -> W]
    BY <2>1, Sorted
  <2>3. lists[t] = L
    BY <1>1 DEF Links, W
  <2> QED
    BY <2>2, <2>3
<1>4. ListCoversWeek
  <2> SUFFICES ASSUME NEW t \in DOMAIN lists, NEW m \in 0 .. WeekMinutes - 1
               PROVE  LET starts == Starts(parts, t)
                          before == {s \in starts : s.stime <= m}
                          cand == IF before = {} THEN starts ELSE before
                          last == {s \in cand : \A q \in cand : q.stime <= s.stime}
                      IN  \E s \in last :
                            /\ \A q \in last : s.id <= q.id
                            /\ lists[t][LinkAt(lists[t], 60 * m)].id = s.id
    BY DEF ListCoversWeek
  <2> DEFINE starts == Starts(parts, t)
             before == {s \in starts : s.stime <= m}
             cand == IF before = {} THEN starts ELSE before
             last == {s \in cand : \A q \in cand : q.stime <= s.stime}
  <2>1. t \in Tarifs(parts) /\ Points(starts) /\ starts # {} /\ m \in Nat
    BY <1>1, <1>2
  <2> HIDE DEF starts
  <2>2. cand \in SUBSET starts /\ cand # {}
    BY <2>1
  <2>3. PICK b \in cand : IsLast(cand, b)
    BY <2>1, <2>2, SomePoints, FirstAndLast
  <2>4. Links(starts)[LinkAt(Links(starts), 60 * m)].id = b.id
    <3>1. cand = Started(starts, m)
      BY DEF Started
    <3> HIDE DEF cand
    <3> QED
      BY <2>1, <2>3, <3>1, ListFinds
  <2>5. lists[t] = Links(starts)
    BY <1>1, <2>1 DEF starts
  <2>6. \A q \in cand : q \in Point
    BY <2>1, <2>2 DEF Points
  <2> HIDE DEF cand
  <2>7. b \in last
    BY <2>3, <2>6 DEF IsLast, Earlier, Point
  <2>8. \A q \in last : b.id <= q.id
    <3> SUFFICES ASSUME NEW q \in last PROVE b.id <= q.id
      OBVIOUS
    <3>1. q \in cand /\ b.stime <= q.stime /\ (q = b \/ Earlier(q, b))
      BY <2>3 DEF IsLast
    <3> QED
      BY <2>3, <2>6, <3>1 DEF Earlier, Point
  <2> QED
    BY <2>4, <2>5, <2>7, <2>8 DEF cand, starts
<1> QED
  BY <1>3, <1>4

\* The assertion of CCL_tarif_set never fails: a tariff with rows has a list.
THEOREM AssertionNeverFails ==
  ASSUME ~Races, ~StaleEdits PROVE Spec => []AssertionHolds
<1>1. IInv /\ [Next]_vars => IInv'
  BY NextOK
<1>2. IInv => AssertionHolds
  BY ListsSound DEF IInv
<1> QED
  BY <1>1, <1>2, InitOK, PTL DEF Spec

\* At every minute of the week the list in memory finds the part that started
\* last by the rows, the week taken round.
THEOREM ListsCoverWeek ==
  ASSUME ~Races, ~StaleEdits PROVE Spec => []ListCoversWeek
<1>1. IInv /\ [Next]_vars => IInv'
  BY NextOK
<1>2. IInv => ListCoversWeek
  BY ListsSound DEF IInv
<1> QED
  BY <1>1, <1>2, InitOK, PTL DEF Spec

-----------------------------------------------------------------------------
(* Types, whatever the employee and the threads do *)

PricesSound(table) == Numbered(table) /\ \A r \in DOMAIN table : table[r] \in Price

TypesOfMemory ==
  /\ selected \in [tarif : Nat, perminafter : Nat]
  /\ default \in Nat /\ shown \subseteq Nat /\ edited \in Nat /\ chosen \in Nat
  /\ calc \in [Threads -> {Idle} \cup Nat]

TypeInv == SoundRows(parts) /\ PricesSound(prices) /\ TypesOfMemory

LEMMA TypeInvTypes == TypeInv => TypeOK
<1>1. Numbered(prices) => \A r \in DOMAIN prices : r \in Nat \ {0}
  BY DEF Numbered
<1>2. SoundRows(parts) => \A i \in DOMAIN parts : i \in Nat \ {0} /\ parts[i] \in Part
  BY DEF SoundRows, Numbered
<1> QED
  BY <1>1, <1>2 DEF TypeInv, TypeOK, PricesSound, TypesOfMemory

\* The first part of a tariff with parts is one of them.
LEMMA FirstPartIn ==
  ASSUME NEW ps, Numbered(ps), NEW t, t \in Tarifs(ps)
  PROVE  FirstPart(ps, t) \in PartsOf(ps, t)
<1> DEFINE P == PartsOf(ps, t)
<1>1. P \subseteq Nat /\ P # {}
  BY DEF Numbered, PartsOf, Tarifs
<1>2. \E i \in P : \A j \in P : i <= j
  <2>1. IsWellFoundedOn({p \in Nat \X Nat : p[1] < p[2]}, Nat)
    BY NatLessThanWellFounded DEF OpToRel
  <2> HIDE DEF P
  <2>2. PICK i \in P : \A j \in P : <<j, i>> \notin {p \in Nat \X Nat : p[1] < p[2]}
    BY <1>1, <2>1, WFMin, Zenon
  <2>3. ASSUME NEW j \in P PROVE i <= j
    <3>1. i \in Nat /\ j \in Nat /\ ~(j < i)
      BY <1>1, <2>2
    <3> QED
      BY <3>1
  <2> QED
    BY <2>3
<1>3. FirstPart(ps, t) = CHOOSE i \in P : \A j \in P : i <= j
  BY DEF FirstPart
<1> HIDE DEF P
<1> QED
  BY <1>2, <1>3 DEF P

LEMMA SetTyped ==
  ASSUME NEW ps, SoundRows(ps), NEW sel \in [tarif : Nat, perminafter : Nat], NEW t
  PROVE  AfterSet(sel, ps, t) \in [tarif : Nat, perminafter : Nat]
<1> SUFFICES ASSUME t \in Tarifs(ps)
             PROVE  t \in Nat /\ ps[FirstPart(ps, t)].fafter \in Nat
  BY DEF AfterSet
<1>1. FirstPart(ps, t) \in DOMAIN ps
  BY FirstPartIn DEF SoundRows, PartsOf
<1> QED
  BY <1>1 DEF SoundRows, Part, Tarifs

\* What the tab reads is typed; reading does not change the tariff in use.
LEMMA ReadTyped ==
  ASSUME NEW ps, SoundRows(ps), NEW sel \in [tarif : Nat, perminafter : Nat],
         ReadTarif(sel, ps)
  PROVE  /\ selected' \in [tarif : Nat, perminafter : Nat]
         /\ selected'.tarif = sel.tarif
         /\ shown' \subseteq Nat
<1>1. PartsOf(ps, sel.tarif) \subseteq Nat
  BY DEF SoundRows, Numbered, PartsOf
<1>2. selected' = AfterSet(sel, ps, sel.tarif) /\ shown' = PartsOf(ps, sel.tarif)
  BY DEF ReadTarif
<1> QED
  BY <1>1, <1>2, SetTyped DEF AfterSet

LEMMA PricesAdded ==
  ASSUME NEW table, PricesSound(table), NEW id \in Nat, NEW rows \in Rows
  PROVE  PricesSound(AddPrices(table, id, rows))
<1> DEFINE fresh == {row \in rows : \A r \in DOMAIN table :
                       ~(table[r].part = id /\ table[r].mins = row.mins)}
           upto(row) == {other \in fresh : other.mins <= row.mins}
           top == Largest(DOMAIN table)
           Id(row) == top + Cardinality(upto(row))
           typed(r) == CHOOSE row \in fresh : Id(row) = r
           new == AddPrices(table, id, rows)
<1> USE DEF PricesSound
<1>1. IsFiniteSet(fresh) /\ fresh \subseteq [mins : Nat, price : Nat]
  BY TarifAssumption, FS_Subset
<1>2. PICK N \in Nat : DOMAIN table \subseteq 1 .. N
  BY DEF Numbered
<1>3. top \in Nat
  <2> DEFINE ids == DOMAIN table
  <2>1. ids \in SUBSET (0 .. N)
    BY <1>2
  <2> HIDE DEF ids
  <2>2. Largest(ids) \in Nat
    BY <2>1, LargestIn
  <2> QED
    BY <2>2 DEF ids
<1>4. /\ DOMAIN new = DOMAIN table \cup {Id(row) : row \in fresh}
      /\ \A r \in DOMAIN new : new[r] =
           IF r \in DOMAIN table THEN table[r]
           ELSE [part |-> id, mins |-> typed(r).mins, price |-> typed(r).price]
  BY DEF AddPrices
<1> HIDE DEF fresh, top, new
<1> DEFINE most == top + Cardinality(fresh)
<1>5. Cardinality(fresh) \in Nat
  BY <1>1, FS_CardinalityType
<1>6. \A row \in fresh : Id(row) \in 1 .. most
  <2> SUFFICES ASSUME NEW row \in fresh PROVE Id(row) \in 1 .. most
    OBVIOUS
  <2>1. row \in upto(row) /\ upto(row) \in SUBSET fresh
    BY <1>1
  <2>2. IsFiniteSet(upto(row)) /\ Cardinality(upto(row)) <= Cardinality(fresh)
    BY <1>1, <2>1, FS_Subset
  <2>3. Cardinality(upto(row)) \in Nat /\ Cardinality(upto(row)) # 0
    BY <2>1, <2>2, FS_CardinalityType, FS_EmptySet
  <2> HIDE DEF upto
  <2> QED
    BY <1>3, <1>5, <2>2, <2>3
<1>7. \A r \in DOMAIN new \ DOMAIN table : typed(r) \in fresh
  BY <1>4
<1> HIDE DEF typed, Id
<1>8. \A r \in DOMAIN new : new[r] \in Price
  <2> SUFFICES ASSUME NEW r \in DOMAIN new PROVE new[r] \in Price
    OBVIOUS
  <2>1. CASE r \in DOMAIN table
    BY <1>4, <2>1
  <2>2. CASE r \notin DOMAIN table
    <3>1. typed(r).mins \in Nat /\ typed(r).price \in Nat
      BY <1>1, <1>7, <2>2
    <3>2. new[r] = [part |-> id, mins |-> typed(r).mins, price |-> typed(r).price]
      BY <1>4, <2>2
    <3> QED
      BY <3>1, <3>2 DEF Price
  <2> QED
    BY <2>1, <2>2
<1>9. Numbered(new)
  <2>1. most \in Nat /\ N + most \in Nat
    BY <1>3, <1>5
  <2>2. \A k \in 1 .. N : k \in 1 .. N + most
    BY <2>1
  <2>3. \A k \in 1 .. most : k \in 1 .. N + most
    BY <2>1
  <2> HIDE DEF most
  <2>4. DOMAIN new \subseteq 1 .. N + most
    BY <1>2, <1>4, <1>6, <2>2, <2>3
  <2> QED
    BY <2>1, <2>4 DEF Numbered
<1> QED
  BY <1>8, <1>9 DEF new

LEMMA PricesDropped ==
  ASSUME NEW table, PricesSound(table), NEW ids PROVE PricesSound(Drop(table, ids))
<1>1. /\ DOMAIN Drop(table, ids) \subseteq DOMAIN table
      /\ \A r \in DOMAIN Drop(table, ids) : Drop(table, ids)[r] = table[r]
  BY DEF Drop
<1> QED
  BY <1>1 DEF PricesSound, Numbered

LEMMA TypeInit == Init => TypeInv
<1> SUFFICES ASSUME Init PROVE TypeInv
  OBVIOUS
<1>1. SoundRows(parts)
  BY InitOK DEF IInv
<1>2. PricesSound(prices)
  <2>1. DOMAIN prices = {} /\ 0 \in Nat
    BY DEF Init
  <2> QED
    BY <2>1 DEF PricesSound, Numbered
<1>3. TypesOfMemory
  BY DEF Init, TypesOfMemory, Idle
<1> QED
  BY <1>1, <1>2, <1>3 DEF TypeInv

\* A part is added to the tariff in use, and some prices to the part.
LEMMA AddPartTyped ==
  ASSUME TypeInv, NEW days \in (SUBSET Days) \ {{}}, NEW stime \in StartTimes,
         NEW h \in HourPrices, NEW rows \in Rows, AddPart(days, stime, h, rows)
  PROVE  /\ TypeInv'
         /\ Tarifs(parts') = Tarifs(parts) \cup {selected.tarif}
         /\ selected'.tarif = selected.tarif
<1> DEFINE row == [tarif |-> selected.tarif, days |-> days, stime |-> stime,
                   hourprice |-> h, fafter |-> 10]
<1>1. SoundRows(parts) /\ PricesSound(prices) /\ TypesOfMemory
  BY DEF TypeInv
<1>2. row \in Part /\ row.tarif # 0 /\ row.days # {}
  BY <1>1, TarifAssumption DEF AddPart, Part, TypesOfMemory
<1>3. /\ parts' = Extend(parts, row)
      /\ prices' = AddPrices(prices, NewRow(parts), rows)
      /\ ReadTarif(selected, parts')
      /\ UNCHANGED <<default, edited, calc, chosen>>
  BY DEF AddPart
<1>4. row.tarif = selected.tarif
  OBVIOUS
<1> HIDE DEF row
<1>5. SoundRows(parts') /\ Tarifs(parts') = Tarifs(parts) \cup {selected.tarif}
  BY <1>1, <1>2, <1>3, <1>4, RowAdded
<1>6. PricesSound(prices')
  BY <1>1, <1>3, PricesAdded, NewRowIsNew DEF SoundRows
<1>7. TypesOfMemory' /\ selected'.tarif = selected.tarif
  BY <1>1, <1>3, <1>5, ReadTyped DEF TypesOfMemory
<1> QED
  BY <1>5, <1>6, <1>7 DEF TypeInv

LEMMA DelPartTyped ==
  ASSUME TypeInv, NEW id \in DOMAIN parts, DelPart(id)
  PROVE  /\ TypeInv'
         /\ Tarifs(parts') \subseteq Tarifs(parts)
         /\ selected'.tarif = selected.tarif
<1>1. SoundRows(parts) /\ PricesSound(prices) /\ TypesOfMemory
  BY DEF TypeInv
<1>2. /\ parts' = Drop(parts, {id}) /\ prices' = Drop(prices, {id})
      /\ ReadTarif(selected, parts')
      /\ UNCHANGED <<default, edited, calc, chosen>>
  BY DEF DelPart
<1>3. SoundRows(parts') /\ Tarifs(parts') \subseteq Tarifs(parts)
  BY <1>1, <1>2, RowDropped
<1>4. PricesSound(prices')
  BY <1>1, <1>2, PricesDropped
<1>5. TypesOfMemory' /\ selected'.tarif = selected.tarif
  BY <1>1, <1>2, <1>3, ReadTyped DEF TypesOfMemory
<1> QED
  BY <1>3, <1>4, <1>5 DEF TypeInv

LEMMA ApplyChangesTyped ==
  ASSUME TypeInv, NEW days \in (SUBSET Days) \ {{}}, NEW stime \in StartTimes,
         NEW h \in HourPrices, NEW fafter \in Fafters, NEW rows \in Rows,
         ApplyChanges(days, stime, h, fafter, rows)
  PROVE  /\ TypeInv'
         /\ Tarifs(parts') = Tarifs(parts)
         /\ selected'.tarif = selected.tarif
<1> DEFINE cleared == Drop(prices, {r \in DOMAIN prices : prices[r].part = edited})
<1>1. SoundRows(parts) /\ PricesSound(prices) /\ TypesOfMemory
  BY DEF TypeInv
<1>2. /\ parts' = IF edited \in DOMAIN parts
                  THEN Applied(parts, edited, selected.tarif, days, stime, h, fafter)
                  ELSE parts
      /\ prices' = IF edited \in DOMAIN parts THEN AddPrices(cleared, edited, rows)
                   ELSE prices
      /\ ReadTarif(selected, parts')
      /\ UNCHANGED <<default, edited, calc, chosen>>
  BY DEF ApplyChanges
<1>3. SoundRows(parts') /\ Tarifs(parts') = Tarifs(parts)
  <2>1. CASE edited \in DOMAIN parts
    <3>1. stime \in Nat /\ h \in Nat /\ fafter \in Nat /\ days \in SUBSET Days /\ days # {}
      BY TarifAssumption
    <3>2. OneRowSet(parts, edited, parts')
      BY <1>1, <1>2, <2>1, <3>1, AppliedRow
    <3> QED
      BY <1>1, <2>1, <3>2, RowChanged
  <2>2. CASE edited \notin DOMAIN parts
    BY <1>1, <1>2, <2>2
  <2> QED
    BY <2>1, <2>2
<1>4. PricesSound(prices')
  <2>1. PricesSound(cleared)
    BY <1>1, PricesDropped
  <2> HIDE DEF cleared
  <2>2. edited \in Nat
    BY <1>1 DEF TypesOfMemory
  <2> QED
    BY <1>1, <1>2, <2>1, <2>2, PricesAdded
<1>5. TypesOfMemory' /\ selected'.tarif = selected.tarif
  BY <1>1, <1>2, <1>3, ReadTyped DEF TypesOfMemory
<1> QED
  BY <1>3, <1>4, <1>5 DEF TypeInv

LEMMA SetTarifTyped ==
  ASSUME TypeInv, NEW t \in Tarifs(parts), SetTarif(t)
  PROVE  TypeInv' /\ selected'.tarif = t /\ chosen' = t /\ parts' = parts
<1> DEFINE sel == AfterSet(selected, parts, t)
<1>1. SoundRows(parts) /\ PricesSound(prices) /\ TypesOfMemory
  BY DEF TypeInv
<1>2. /\ ReadTarif(sel, parts) /\ default' = t /\ chosen' = t
      /\ UNCHANGED <<parts, prices, edited, calc>>
  BY DEF SetTarif
<1>3. sel \in [tarif : Nat, perminafter : Nat] /\ sel.tarif = t /\ t \in Nat
  BY <1>1, SetTyped DEF TypesOfMemory, AfterSet, SoundRows, Tarifs, Part
<1> HIDE DEF sel
<1>4. TypesOfMemory' /\ selected'.tarif = t
  BY <1>1, <1>2, <1>3, ReadTyped DEF TypesOfMemory
<1> QED
  BY <1>1, <1>2, <1>4 DEF TypeInv

LEMMA NewTarifTyped ==
  ASSUME TypeInv, NewTarif
  PROVE  /\ TypeInv'
         /\ selected'.tarif = chosen'
<1> DEFINE t == 1 + Largest(Tarifs(parts))
           sel == AfterSet(selected, parts', t)
<1>1. SoundRows(parts) /\ PricesSound(prices) /\ TypesOfMemory
  BY DEF TypeInv
<1>2. t \in Nat \ {0}
  <2>1. PICK N \in Nat : Tarifs(parts) \subseteq 0 .. N
    BY <1>1 DEF SoundRows
  <2>2. Largest(Tarifs(parts)) \in Nat
    BY <2>1, LargestIn
  <2> QED
    BY <2>2
<1>3. /\ parts' = Extend(parts, Placeholder(t))
      /\ ReadTarif(sel, parts') /\ chosen' = t
      /\ UNCHANGED <<prices, default, edited, calc>>
  BY DEF NewTarif
<1> HIDE DEF t
<1>4. /\ Placeholder(t) \in Part /\ Placeholder(t).tarif = t
      /\ Placeholder(t).tarif # 0 /\ Placeholder(t).days # {}
  BY <1>2, WeekAssumption DEF Placeholder, Part
<1>5. SoundRows(parts') /\ t \in Tarifs(parts')
  BY <1>1, <1>3, <1>4, RowAdded
<1>6. sel \in [tarif : Nat, perminafter : Nat] /\ sel.tarif = t
  BY <1>1, <1>5, SetTyped DEF TypesOfMemory, AfterSet
<1> HIDE DEF sel
<1>7. TypesOfMemory' /\ selected'.tarif = t
  BY <1>1, <1>2, <1>3, <1>5, <1>6, ReadTyped DEF TypesOfMemory
<1> QED
  BY <1>1, <1>3, <1>5, <1>7 DEF TypeInv

LEMMA RestartTyped ==
  ASSUME TypeInv, Restart
  PROVE  /\ TypeInv'
         /\ chosen' \in Tarifs(parts') => selected'.tarif = chosen'
         /\ calc' = [th \in Threads |-> Idle]
<1> DEFINE ps == FirstParts(parts)
           none == [tarif |-> 0, perminafter |-> 10]
           sel == AfterSet(none, ps, default)
<1>1. SoundRows(parts) /\ PricesSound(prices) /\ TypesOfMemory
  BY DEF TypeInv
<1>2. SoundRows(ps)
  BY <1>1, FirstPartsSound
<1>3. /\ parts' = ps /\ ReadTarif(sel, ps) /\ edited' = 0
      /\ chosen' = (IF default \in Tarifs(ps) THEN default ELSE 0)
      /\ calc' = [th \in Threads |-> Idle]
      /\ UNCHANGED <<prices, default>>
  BY DEF Restart, Booted
<1> HIDE DEF ps
<1>4. sel \in [tarif : Nat, perminafter : Nat]
      /\ (default \in Tarifs(ps) => sel.tarif = default)
  <2>1. none \in [tarif : Nat, perminafter : Nat]
    OBVIOUS
  <2> HIDE DEF none
  <2>2. sel \in [tarif : Nat, perminafter : Nat]
    BY <1>2, <2>1, SetTyped
  <2> QED
    BY <2>2 DEF AfterSet
<1> HIDE DEF sel
<1>5. /\ selected' \in [tarif : Nat, perminafter : Nat]
      /\ selected'.tarif = sel.tarif /\ shown' \subseteq Nat
  BY <1>2, <1>3, <1>4, ReadTyped
<1>6. TypesOfMemory'
  BY <1>1, <1>3, <1>5 DEF TypesOfMemory
<1>7. 0 \notin Tarifs(ps)
  BY <1>2 DEF SoundRows, Tarifs
<1> QED
  BY <1>1, <1>2, <1>3, <1>4, <1>5, <1>6, <1>7 DEF TypeInv

LEMMA CalcBeginTyped ==
  ASSUME TypeInv, NEW th \in Threads, NEW t, CalcBegin(th, t) PROVE TypeInv'
<1>1. SoundRows(parts) /\ PricesSound(prices) /\ TypesOfMemory
  BY DEF TypeInv
<1>2. /\ calc' = [calc EXCEPT ![th] = selected.tarif]
      /\ selected' = AfterSet(selected, parts, t)
      /\ UNCHANGED <<parts, prices, default, shown, edited, chosen>>
  BY DEF CalcBegin
<1>3. selected' \in [tarif : Nat, perminafter : Nat]
  BY <1>1, <1>2, SetTyped DEF TypesOfMemory
<1> QED
  BY <1>1, <1>2, <1>3 DEF TypeInv, TypesOfMemory

LEMMA CalcEndTyped ==
  ASSUME TypeInv, NEW th \in Threads, CalcEnd(th) PROVE TypeInv'
<1>1. SoundRows(parts) /\ PricesSound(prices) /\ TypesOfMemory
  BY DEF TypeInv
<1>2. /\ calc' = [calc EXCEPT ![th] = Idle]
      /\ selected' = (IF calc[th] >= 1 THEN AfterSet(selected, parts, calc[th])
                      ELSE selected)
      /\ UNCHANGED <<parts, prices, default, shown, edited, chosen>>
  BY DEF CalcEnd
<1>3. selected' \in [tarif : Nat, perminafter : Nat]
  BY <1>1, <1>2, SetTyped DEF TypesOfMemory
<1> QED
  BY <1>1, <1>2, <1>3 DEF TypeInv, TypesOfMemory

LEMMA TypeNext == ASSUME TypeInv, [Next]_vars PROVE TypeInv'
<1>1. ASSUME NEW days \in (SUBSET Days) \ {{}}, NEW stime \in StartTimes,
             NEW h \in HourPrices, NEW rows \in Rows,
             \/ AddPart(days, stime, h, rows)
             \/ \E fafter \in Fafters : ApplyChanges(days, stime, h, fafter, rows)
      PROVE  TypeInv'
  BY <1>1, AddPartTyped, ApplyChangesTyped
<1>2. ASSUME NEW id \in DOMAIN parts, DelPart(id) PROVE TypeInv'
  BY <1>2, DelPartTyped
<1>3. ASSUME NEW id \in DOMAIN parts, SelectPart(id) PROVE TypeInv'
  <2>1. id \in Nat
    BY DEF TypeInv, SoundRows, Numbered
  <2> QED
    BY <1>3, <2>1 DEF SelectPart, TypeInv, TypesOfMemory
<1>4. ASSUME NEW fafter \in Fafters, PerminSet(fafter) PROVE TypeInv'
  BY <1>4, TarifAssumption DEF PerminSet, TypeInv, TypesOfMemory
<1>5. ASSUME NEW t \in Tarifs(parts), SetTarif(t) PROVE TypeInv'
  BY <1>5, SetTarifTyped
<1>6. ASSUME NewTarif PROVE TypeInv'
  BY <1>6, NewTarifTyped
<1>7. ASSUME NEW th \in Threads, NEW t, CalcBegin(th, t) PROVE TypeInv'
  BY <1>7, CalcBeginTyped
<1>8. ASSUME NEW th \in Threads, CalcEnd(th) PROVE TypeInv'
  BY <1>8, CalcEndTyped
<1>9. ASSUME Restart PROVE TypeInv'
  BY <1>9, RestartTyped
<1>10. ASSUME UNCHANGED vars PROVE TypeInv'
  BY <1>10 DEF vars, TypeInv, TypesOfMemory
<1> QED
  BY <1>1, <1>2, <1>3, <1>4, <1>5, <1>6, <1>7, <1>8, <1>9, <1>10 DEF Next, Tab

\* Every row of both tables is a row of its table under an id of its own, and
\* what is in memory names tariffs and parts, whatever happens.
THEOREM TarifTypes == Spec => []TypeOK
<1>1. TypeInv /\ [Next]_vars => TypeInv'
  BY TypeNext
<1> QED
  BY <1>1, TypeInit, TypeInvTypes, PTL DEF Spec

-----------------------------------------------------------------------------
(* Numbers *)

\* Some natural numbers have a smallest.
LEMMA SmallestIn ==
  ASSUME NEW S \in SUBSET Nat, S # {}
  PROVE  \E n \in S : \A m \in S : n <= m
<1>1. IsWellFoundedOn({p \in Nat \X Nat : p[1] < p[2]}, Nat)
  BY NatLessThanWellFounded DEF OpToRel
<1>2. PICK n \in S : \A m \in S : <<m, n>> \notin {p \in Nat \X Nat : p[1] < p[2]}
  BY <1>1, WFMin, Zenon
<1>3. ASSUME NEW m \in S PROVE n <= m
  <2>1. ~(m < n)
    BY <1>2
  <2> QED
    BY <2>1
<1> QED
  BY <1>3

-----------------------------------------------------------------------------
(* Functions defined by recursion *)

\* A function that, where it is not given, is a value plus its own value at a
\* place of smaller measure, exists: how the price of some minutes, that of an
\* interval and a sum are defined.
Follows(f, D, B, v, w, nx, x) ==
  f[x] = IF x \in B THEN v[x] ELSE w[x] + f[nx[x]]

\* f follows the rule wherever the measure is below k.
FollowsTo(f, D, mu, B, v, w, nx, k) ==
  /\ f = [x \in D |-> f[x]]
  /\ \A x \in D : mu[x] < k => Follows(f, D, B, v, w, nx, x)

\* The rule can be followed as far as any measure.
LEMMA RecursionSteps ==
  ASSUME NEW D, NEW mu \in [D -> Nat], NEW B, NEW v, NEW w, NEW nx \in [D -> D],
         \A x \in D : x \notin B => mu[nx[x]] < mu[x],
         NEW k \in Nat
  PROVE  \E f : FollowsTo(f, D, mu, B, v, w, nx, k)
<1> DEFINE To(f, j) == FollowsTo(f, D, mu, B, v, w, nx, j)
           Bad == {j \in Nat : ~\E f : To(f, j)}
<1> SUFFICES ASSUME k \in Bad PROVE FALSE
  OBVIOUS
<1>1. PICK j \in Bad : \A i \in Bad : j <= i
  BY SmallestIn
<1>2. j # 0
  <2> DEFINE f == [x \in D |-> 0]
  <2>1. \A x \in D : ~(mu[x] < 0)
    OBVIOUS
  <2>2. f = [x \in D |-> f[x]]
    OBVIOUS
  <2>3. To(f, 0)
    BY <2>1, <2>2 DEF FollowsTo
  <2> QED
    BY <1>1, <2>3
<1>3. j - 1 \in Nat /\ ~(j <= j - 1)
  BY <1>1, <1>2
<1>4. PICK f : To(f, j - 1)
  BY <1>1, <1>3
<1> DEFINE g == [x \in D |-> IF x \in B THEN v[x] ELSE w[x] + f[nx[x]]]
<1>5. \A x \in D : mu[x] < j - 1 => g[x] = f[x]
  BY <1>4 DEF FollowsTo, Follows
<1>6. ASSUME NEW x \in D, mu[x] < j PROVE Follows(g, D, B, v, w, nx, x)
  <2>1. CASE x \in B
    BY <2>1 DEF Follows
  <2>2. CASE x \notin B
    <3>1. mu[nx[x]] < j - 1 /\ nx[x] \in D
      BY <1>1, <1>6, <2>2
    <3>2. g[nx[x]] = f[nx[x]]
      BY <1>5, <3>1
    <3> QED
      BY <2>2, <3>2 DEF Follows
  <2> QED
    BY <2>1, <2>2
<1>7. g = [x \in D |-> g[x]]
  OBVIOUS
<1> HIDE DEF g
<1>8. To(g, j)
  BY <1>6, <1>7 DEF FollowsTo
<1> QED
  BY <1>1, <1>8

\* Where two functions follow the rule they agree.
LEMMA RecursionAgrees ==
  ASSUME NEW D, NEW mu \in [D -> Nat], NEW B, NEW v, NEW w, NEW nx \in [D -> D],
         \A x \in D : x \notin B => mu[nx[x]] < mu[x],
         NEW i \in Nat, NEW f, FollowsTo(f, D, mu, B, v, w, nx, i),
         NEW j \in Nat, NEW g, FollowsTo(g, D, mu, B, v, w, nx, j),
         NEW x \in D, mu[x] < i, mu[x] < j
  PROVE  f[x] = g[x]
<1> DEFINE Bad == {k \in Nat : \E y \in D : /\ mu[y] = k /\ k < i /\ k < j
                                            /\ f[y] # g[y]}
<1> SUFFICES ASSUME f[x] # g[x] PROVE FALSE
  OBVIOUS
<1>1. mu[x] \in Bad
  OBVIOUS
<1>2. PICK k \in Bad : \A l \in Bad : k <= l
  BY <1>1, SmallestIn
<1>3. PICK y \in D : mu[y] = k /\ k < i /\ k < j /\ f[y] # g[y]
  BY <1>2
<1>4. /\ f[y] = (IF y \in B THEN v[y] ELSE w[y] + f[nx[y]])
      /\ g[y] = (IF y \in B THEN v[y] ELSE w[y] + g[nx[y]])
  BY <1>3 DEF FollowsTo, Follows
<1>5. y \notin B /\ f[nx[y]] # g[nx[y]]
  BY <1>3, <1>4
<1>6. nx[y] \in D /\ mu[nx[y]] < k /\ mu[nx[y]] \in Nat
  BY <1>3, <1>5
<1>7. mu[nx[y]] \in Bad
  BY <1>3, <1>5, <1>6
<1> QED
  BY <1>2, <1>6, <1>7

Defined(D, B, v, w, nx) ==
  \E f : f = [x \in D |-> IF x \in B THEN v[x] ELSE w[x] + f[nx[x]]]

\* A function that follows the rule everywhere exists.
LEMMA Recursion ==
  ASSUME NEW D, NEW mu \in [D -> Nat], NEW B, NEW v, NEW w, NEW nx \in [D -> D],
         \A x \in D : x \notin B => mu[nx[x]] < mu[x]
  PROVE  Defined(D, B, v, w, nx)
<1> DEFINE To(f, k) == FollowsTo(f, D, mu, B, v, w, nx, k)
           step == [k \in Nat |-> CHOOSE f : To(f, k)]
           F == [x \in D |-> step[mu[x] + 1][x]]
<1>1. \A k \in Nat : \E f : To(f, k)
  BY RecursionSteps
<1>2. \A k \in Nat : To(step[k], k)
  <2> HIDE DEF To
  <2> QED
    BY <1>1
<1> HIDE DEF step
<1>3. ASSUME NEW x \in D
      PROVE  F[x] = IF x \in B THEN v[x] ELSE w[x] + F[nx[x]]
  <2>1. mu[x] \in Nat /\ mu[x] + 1 \in Nat /\ mu[x] < mu[x] + 1
    OBVIOUS
  <2>2. F[x] = (IF x \in B THEN v[x] ELSE w[x] + step[mu[x] + 1][nx[x]])
    BY <1>2, <2>1 DEF FollowsTo, Follows
  <2>3. ASSUME x \notin B PROVE step[mu[x] + 1][nx[x]] = F[nx[x]]
    <3>1. nx[x] \in D /\ mu[nx[x]] \in Nat /\ mu[nx[x]] < mu[x]
      BY <2>3
    <3>2. mu[nx[x]] + 1 \in Nat /\ mu[nx[x]] < mu[nx[x]] + 1 /\ mu[nx[x]] < mu[x] + 1
      BY <2>1, <3>1
    <3>3. To(step[mu[x] + 1], mu[x] + 1) /\ To(step[mu[nx[x]] + 1], mu[nx[x]] + 1)
      BY <1>2, <2>1, <3>2
    <3>4. step[mu[x] + 1][nx[x]] = step[mu[nx[x]] + 1][nx[x]]
      <4> DEFINE y == nx[x]
                 i == mu[x] + 1
                 j == mu[y] + 1
                 a == step[i]
                 b == step[j]
      <4>1. /\ y \in D /\ mu[y] < i /\ mu[y] < j /\ i \in Nat /\ j \in Nat
            /\ FollowsTo(a, D, mu, B, v, w, nx, i)
            /\ FollowsTo(b, D, mu, B, v, w, nx, j)
        BY <2>1, <3>1, <3>2, <3>3
      <4> HIDE DEF y, i, j, a, b
      <4>2. a[y] = b[y]
        BY <4>1, RecursionAgrees
      <4> QED
        BY <4>2 DEF y, i, j, a, b
    <3> QED
      BY <3>1, <3>4
  <2> QED
    BY <2>2, <2>3
<1>4. F = [x \in D |-> IF x \in B THEN v[x] ELSE w[x] + F[nx[x]]]
  <2>1. F = [x \in D |-> F[x]]
    OBVIOUS
  <2> HIDE DEF F
  <2> QED
    BY <1>3, <2>1
<1> HIDE DEF F
<1> QED
  BY <1>4 DEF Defined

\* Induction over a set of natural numbers.
LEMMA Induct ==
  ASSUME NEW S, 0 \in S, \A n \in Nat : n \in S => n + 1 \in S
  PROVE  \A n \in Nat : n \in S
<1> DEFINE Bad == {n \in Nat : n \notin S}
<1> SUFFICES ASSUME Bad # {} PROVE FALSE
  OBVIOUS
<1>1. PICK n \in Bad : \A m \in Bad : n <= m
  BY SmallestIn
<1>2. n # 0 /\ n - 1 \in Nat /\ ~(n <= n - 1) /\ (n - 1) + 1 = n
  BY <1>1
<1>3. n - 1 \in S
  BY <1>1, <1>2
<1> QED
  BY <1>1, <1>2, <1>3

-----------------------------------------------------------------------------
(* Sums *)

\* A sum is its last term and the sum of the terms before it.
LEMMA TotalStep ==
  ASSUME NEW f
  PROVE  /\ Total(f, 0) = 0
         /\ \A n \in Nat : Total(f, n + 1) = f[n + 1] + Total(f, n)
<1> DEFINE sum == CHOOSE g : g = [k \in Nat |-> IF k = 0 THEN 0 ELSE f[k] + g[k - 1]]
           mu == [k \in Nat |-> k]
           v == [k \in Nat |-> 0]
           w == [k \in Nat |-> f[k]]
           nx == [k \in Nat |-> IF k = 0 THEN 0 ELSE k - 1]
           B == {0}
<1>1. \E g : g = [k \in Nat |-> IF k \in B THEN v[k] ELSE w[k] + g[nx[k]]]
  <2>1. mu \in [Nat -> Nat] /\ nx \in [Nat -> Nat]
    OBVIOUS
  <2>2. \A k \in Nat : k \notin B => mu[nx[k]] < mu[k]
    OBVIOUS
  <2> HIDE DEF mu, v, w, nx, B
  <2>3. Defined(Nat, B, v, w, nx)
    BY <2>1, <2>2, Recursion
  <2> QED
    BY <2>3 DEF Defined
<1>2. ASSUME NEW g
      PROVE  [k \in Nat |-> IF k \in B THEN v[k] ELSE w[k] + g[nx[k]]]
               = [k \in Nat |-> IF k = 0 THEN 0 ELSE f[k] + g[k - 1]]
  <2>1. \A k \in Nat : (IF k \in B THEN v[k] ELSE w[k] + g[nx[k]])
                         = IF k = 0 THEN 0 ELSE f[k] + g[k - 1]
    OBVIOUS
  <2> QED
    BY <2>1, Zenon
<1>3. sum = [k \in Nat |-> IF k = 0 THEN 0 ELSE f[k] + sum[k - 1]]
  <2>1. \E g : g = [k \in Nat |-> IF k = 0 THEN 0 ELSE f[k] + g[k - 1]]
    <3>1. PICK g : g = [k \in Nat |-> IF k \in B THEN v[k] ELSE w[k] + g[nx[k]]]
      BY <1>1
    <3>2. g = [k \in Nat |-> IF k = 0 THEN 0 ELSE f[k] + g[k - 1]]
      BY <1>2, <3>1
    <3> QED
      BY <3>2
  <2> QED
    BY <2>1
<1>4. \A n \in Nat : Total(f, n) = sum[n]
  BY DEF Total
<1> HIDE DEF sum
<1>5. \A n \in Nat : n + 1 \in Nat /\ n + 1 # 0 /\ (n + 1) - 1 = n
  OBVIOUS
<1> QED
  BY <1>3, <1>4, <1>5

\* Of integers it is an integer, and depends on no others.
LEMMA TotalInt ==
  ASSUME NEW n \in Nat, NEW f, \A k \in 1 .. n : f[k] \in Int
  PROVE  Total(f, n) \in Int
<1> DEFINE S == {m \in Nat : m <= n => Total(f, m) \in Int}
<1>1. 0 \in S
  BY TotalStep
<1>2. ASSUME NEW m \in Nat, m \in S PROVE m + 1 \in S
  <2> SUFFICES ASSUME m + 1 <= n PROVE Total(f, m + 1) \in Int
    OBVIOUS
  <2>1. m + 1 \in 1 .. n /\ Total(f, m) \in Int
    BY <1>2
  <2>2. Total(f, m + 1) = f[m + 1] + Total(f, m)
    BY TotalStep
  <2> QED
    BY <2>1, <2>2
<1> HIDE DEF S
<1>3. n \in S
  BY <1>1, <1>2, Induct
<1> QED
  BY <1>3 DEF S

\* A sum of terms that are not more is not more.
LEMMA TotalLeq ==
  ASSUME NEW n \in Nat, NEW f, NEW g,
         \A k \in 1 .. n : f[k] \in Int /\ g[k] \in Int /\ f[k] <= g[k]
  PROVE  Total(f, n) \in Int /\ Total(g, n) \in Int /\ Total(f, n) <= Total(g, n)
<1> DEFINE S == {m \in Nat : m <= n => /\ Total(f, m) \in Int /\ Total(g, m) \in Int
                                       /\ Total(f, m) <= Total(g, m)}
<1>1. 0 \in S
  BY TotalStep
<1>2. ASSUME NEW m \in Nat, m \in S PROVE m + 1 \in S
  <2> SUFFICES ASSUME m + 1 <= n
               PROVE  /\ Total(f, m + 1) \in Int /\ Total(g, m + 1) \in Int
                      /\ Total(f, m + 1) <= Total(g, m + 1)
    OBVIOUS
  <2>1. /\ m + 1 \in 1 .. n /\ Total(f, m) \in Int /\ Total(g, m) \in Int
        /\ Total(f, m) <= Total(g, m)
    BY <1>2
  <2>2. /\ Total(f, m + 1) = f[m + 1] + Total(f, m)
        /\ Total(g, m + 1) = g[m + 1] + Total(g, m)
    BY TotalStep
  <2>3. f[m + 1] \in Int /\ g[m + 1] \in Int /\ f[m + 1] <= g[m + 1]
    BY <2>1
  <2> QED
    BY <2>1, <2>2, <2>3
<1> HIDE DEF S
<1>3. n \in S
  BY <1>1, <1>2, Induct
<1> QED
  BY <1>3 DEF S

\* A sum is that of its terms.
LEMMA TotalSame ==
  ASSUME NEW n \in Nat, NEW f, NEW g, \A k \in 1 .. n : f[k] = g[k]
  PROVE  Total(f, n) = Total(g, n)
<1> DEFINE S == {m \in Nat : m <= n => Total(f, m) = Total(g, m)}
<1>1. 0 \in S
  BY TotalStep
<1>2. ASSUME NEW m \in Nat, m \in S PROVE m + 1 \in S
  <2> SUFFICES ASSUME m + 1 <= n PROVE Total(f, m + 1) = Total(g, m + 1)
    OBVIOUS
  <2>1. m + 1 \in 1 .. n /\ Total(f, m) = Total(g, m)
    BY <1>2
  <2>2. /\ Total(f, m + 1) = f[m + 1] + Total(f, m)
        /\ Total(g, m + 1) = g[m + 1] + Total(g, m)
    BY TotalStep
  <2> QED
    BY <2>1, <2>2
<1> HIDE DEF S
<1>3. n \in S
  BY <1>1, <1>2, Induct
<1> QED
  BY <1>3 DEF S

\* Each summand c times as large, the sum is.
LEMMA TotalScaled ==
  ASSUME NEW n \in Nat, NEW f, NEW g, NEW c \in Int,
         \A k \in 1 .. n : f[k] \in Int /\ g[k] = c * f[k]
  PROVE  Total(g, n) = c * Total(f, n)
<1> DEFINE S == {m \in Nat : m <= n => Total(f, m) \in Int /\ Total(g, m) = c * Total(f, m)}
<1>1. 0 \in S
  <2>1. Total(f, 0) = 0 /\ Total(g, 0) = 0
    BY TotalStep
  <2>2. c * 0 = 0
    OBVIOUS
  <2> QED
    BY <2>1, <2>2
<1>2. ASSUME NEW m \in Nat, m \in S PROVE m + 1 \in S
  <2> SUFFICES ASSUME m + 1 <= n
               PROVE  Total(f, m + 1) \in Int /\ Total(g, m + 1) = c * Total(f, m + 1)
    OBVIOUS
  <2> DEFINE a == f[m + 1]
             b == Total(f, m)
  <2>1. m + 1 \in 1 .. n /\ b \in Int /\ Total(g, m) = c * b
    BY <1>2
  <2>2. a \in Int /\ g[m + 1] = c * a
    BY <2>1
  <2>3. Total(f, m + 1) = a + b /\ Total(g, m + 1) = g[m + 1] + Total(g, m)
    BY TotalStep
  <2> HIDE DEF a, b
  <2>4. c * (a + b) = c * a + c * b
    BY <2>1, <2>2
  <2> QED
    BY <2>1, <2>2, <2>3, <2>4
<1> HIDE DEF S
<1>3. n \in S
  BY <1>1, <1>2, Induct
<1> QED
  BY <1>3 DEF S

\* A sum is that of its first summands and that of the others.
LEMMA TotalSplit ==
  ASSUME NEW n \in Nat, NEW d \in Nat, NEW f, NEW g,
         \A k \in 1 .. n + d : f[k] \in Int,
         \A k \in 1 .. d : g[k] = f[n + k]
  PROVE  Total(f, n + d) = Total(f, n) + Total(g, d)
<1> DEFINE S == {m \in Nat : m <= d => /\ Total(g, m) \in Int
                                       /\ Total(f, n + m) = Total(f, n) + Total(g, m)}
<1>0. Total(f, n) \in Int
  BY TotalInt
<1>1. 0 \in S
  <2>1. Total(g, 0) = 0 /\ n + 0 = n
    BY TotalStep
  <2> QED
    BY <1>0, <2>1
<1>2. ASSUME NEW m \in Nat, m \in S PROVE m + 1 \in S
  <2> SUFFICES ASSUME m + 1 <= d
               PROVE  /\ Total(g, m + 1) \in Int
                      /\ Total(f, n + (m + 1)) = Total(f, n) + Total(g, m + 1)
    OBVIOUS
  <2>1. /\ Total(g, m) \in Int /\ Total(f, n + m) = Total(f, n) + Total(g, m)
        /\ m + 1 \in 1 .. d /\ n + (m + 1) \in 1 .. n + d
        /\ n + m \in Nat /\ (n + m) + 1 = n + (m + 1)
    BY <1>2
  <2>2. g[m + 1] = f[n + (m + 1)] /\ f[n + (m + 1)] \in Int
    BY <2>1
  <2>3. Total(f, (n + m) + 1) = f[(n + m) + 1] + Total(f, n + m)
    BY <2>1, TotalStep
  <2>4. Total(g, m + 1) = g[m + 1] + Total(g, m)
    BY TotalStep
  <2> QED
    BY <1>0, <2>1, <2>2, <2>3, <2>4
<1> HIDE DEF S
<1>3. d \in S
  BY <1>1, <1>2, Induct
<1> QED
  BY <1>3 DEF S

-----------------------------------------------------------------------------
(* Quotients *)

\* A product with a natural number keeps an order.
LEMMA TimesMonotone ==
  ASSUME NEW a \in Nat, NEW x \in Int, NEW y \in Int, x <= y PROVE a * x <= a * y
<1>1. y - x \in Nat
  OBVIOUS
<1>2. a * (y - x) >= 0
  BY <1>1
<1>3. a * (y - x) = a * y - a * x
  OBVIOUS
<1> QED
  BY <1>2, <1>3

\* The quotient and the remainder, by any positive number.
LEMMA Divided ==
  ASSUME NEW a \in Int, NEW b \in Nat \ {0}
  PROVE  /\ a \div b \in Int /\ a % b \in 0 .. b - 1
         /\ a = b * (a \div b) + (a % b)
         /\ a \in Nat => a \div b \in Nat
<1>1. a \div b \in Int /\ a % b \in Int /\ a = b * (a \div b) + (a % b)
  OBVIOUS
<1>2. a % b >= 0 /\ a % b < b
  OBVIOUS
<1>3. ASSUME a \in Nat PROVE a \div b >= 0
  <2> SUFFICES ASSUME a \div b <= -1 PROVE FALSE
    BY <1>1
  <2>1. b * (a \div b) <= b * (-1)
    BY <1>1, TimesMonotone
  <2>2. b * (-1) = -b
    OBVIOUS
  <2> QED
    BY <1>1, <1>2, <1>3, <2>1, <2>2
<1> QED
  BY <1>1, <1>2, <1>3

\* There is only one quotient and remainder.
LEMMA DividedOnly ==
  ASSUME NEW b \in Nat \ {0}, NEW q \in Int, NEW r \in Int, 0 <= r, r < b
  PROVE  (b * q + r) \div b = q /\ (b * q + r) % b = r
<1> DEFINE a == b * q + r
           x == a \div b
           y == a % b
<1>1. a \in Int
  OBVIOUS
<1>2. x \in Int /\ y \in 0 .. b - 1 /\ a = b * x + y
  BY <1>1, Divided
<1>3. b * q + r = b * x + y
  BY <1>2
<1> HIDE DEF a, x, y
<1>4. x = q
  <2>1. CASE x < q
    <3>1. b * (x + 1) <= b * q
      BY <1>2, <2>1, TimesMonotone
    <3>2. b * (x + 1) = b * x + b
      BY <1>2
    <3> QED
      BY <1>2, <1>3, <3>1, <3>2
  <2>2. CASE q < x
    <3>1. b * (q + 1) <= b * x
      BY <1>2, <2>2, TimesMonotone
    <3>2. b * (q + 1) = b * q + b
      OBVIOUS
    <3> QED
      BY <1>2, <1>3, <3>1, <3>2
  <2> QED
    BY <1>2, <2>1, <2>2
<1>5. y = r
  BY <1>2, <1>3, <1>4
<1> QED
  BY <1>4, <1>5 DEF a, x, y

-----------------------------------------------------------------------------
(* Lists of a week *)

\* A list in order that starts with the week, and whose links start in it
WeekList(L) ==
  \E len \in Nat \ {0} :
    /\ L \in [1 .. len -> Point]
    /\ L[1].stime = 0
    /\ \A i, j \in 1 .. len : i < j => L[i].stime <= L[j].stime
    /\ \A i \in 1 .. len : L[i].stime < WeekMinutes

\* Link n is the one second u of the week falls to.
Falls(L, n, u) ==
  /\ n \in 1 .. Len(L)
  /\ 60 * L[n].stime <= u
  /\ n < Len(L) => u < 60 * L[n + 1].stime

\* A week has some minutes.
LEMMA Weeks ==
  WeekMinutes \in Nat \ {0} /\ WeekSeconds \in Nat \ {0} /\ WeekSeconds = 60 * WeekMinutes
<1>1. Cardinality(Days) \in Nat /\ Cardinality(Days) # 0
  BY WeekAssumption, FS_CardinalityType, FS_EmptySet
<1>2. \A a, b \in Nat \ {0} : a * b \in Nat \ {0}
  OBVIOUS
<1>3. WeekMinutes \in Nat \ {0}
  BY <1>1, <1>2, WeekAssumption DEF WeekMinutes
<1> QED
  BY <1>3 DEF WeekSeconds

\* What is known of the links of a list
LEMMA WeekListLinks ==
  ASSUME NEW L, WeekList(L)
  PROVE  /\ Len(L) \in Nat \ {0}
         /\ \A i \in 1 .. Len(L) : /\ L[i] \in Point /\ L[i].stime \in Nat /\ L[i].id \in Nat
                                   /\ L[i].hprice \in Nat
                                   /\ L[i].stime < WeekMinutes
         /\ L[1].stime = 0 /\ 1 \in 1 .. Len(L)
         /\ \A i, j \in 1 .. Len(L) : i < j => L[i].stime <= L[j].stime
         /\ L # <<>>
<1>1. PICK len \in Nat \ {0} :
        /\ L \in [1 .. len -> Point]
        /\ L[1].stime = 0
        /\ \A i, j \in 1 .. len : i < j => L[i].stime <= L[j].stime
        /\ \A i \in 1 .. len : L[i].stime < WeekMinutes
  BY DEF WeekList
<1>2. Len(L) = len /\ L \in Seq(Point)
  BY <1>1
<1> QED
  BY <1>1, <1>2 DEF Point

\* The walk ends at the link an instant falls to, and there is only one.
LEMMA Walk ==
  ASSUME NEW L, WeekList(L), NEW u \in Nat
  PROVE  /\ Falls(L, LinkAt(L, u), u)
         /\ \A n : Falls(L, n, u) => n = LinkAt(L, u)
<1> DEFINE len == Len(L)
           Stop(n) == /\ n < len => u < 60 * L[n + 1].stime
                      /\ \A k \in 1 .. n - 1 : u >= 60 * L[k + 1].stime
           at == LinkAt(L, u)
<1>1. /\ len \in Nat \ {0} /\ 1 \in 1 .. len /\ L[1].stime = 0
      /\ \A i \in 1 .. len : L[i].stime \in Nat
      /\ \A i, j \in 1 .. len : i < j => L[i].stime <= L[j].stime
  BY WeekListLinks
<1>2. at = CHOOSE n \in 1 .. len : Stop(n)
  BY DEF LinkAt
<1> HIDE DEF at, len
<1>3. \E n \in 1 .. len : Stop(n)
  <2> DEFINE D == {n \in Nat : n \in 1 .. len /\ (n < len => u < 60 * L[n + 1].stime)}
  <2>1. len \in D
    BY <1>1
  <2>2. PICK n \in D : \A k \in D : n <= k
    BY <2>1, SmallestIn
  <2>3. ASSUME NEW k \in 1 .. n - 1 PROVE u >= 60 * L[k + 1].stime
    <3>1. k \in Nat /\ k \in 1 .. len /\ k < n /\ k < len /\ k + 1 \in 1 .. len
      BY <1>1, <2>2
    <3>2. k \notin D
      BY <2>2, <3>1
    <3>3. L[k + 1].stime \in Nat
      BY <1>1, <3>1
    <3> QED
      BY <3>1, <3>2, <3>3
  <2> QED
    BY <2>2, <2>3
<1>4. at \in 1 .. len /\ Stop(at)
  <2> HIDE DEF Stop
  <2> QED
    BY <1>2, <1>3
<1>5. 60 * L[at].stime <= u
  <2>1. CASE at = 1
    BY <1>1, <2>1
  <2>2. CASE at # 1
    <3>1. at - 1 \in 1 .. at - 1 /\ (at - 1) + 1 = at
      BY <1>1, <1>4, <2>2
    <3>2. u >= 60 * L[(at - 1) + 1].stime
      BY <1>4, <3>1
    <3> QED
      BY <1>1, <1>4, <3>1, <3>2
  <2> QED
    BY <2>1, <2>2
<1>6. Falls(L, at, u)
  BY <1>4, <1>5 DEF Falls, len
<1>7. ASSUME NEW a, NEW b, Falls(L, a, u), Falls(L, b, u), a < b PROVE FALSE
  <2>1. /\ a \in 1 .. len /\ b \in 1 .. len /\ 60 * L[b].stime <= u
        /\ a < len => u < 60 * L[a + 1].stime
    BY <1>7 DEF Falls, len
  <2>2. a < len /\ a + 1 \in 1 .. len /\ (a + 1 = b \/ a + 1 < b)
    BY <1>1, <1>7, <2>1
  <2>3. L[a + 1].stime <= L[b].stime /\ L[a + 1].stime \in Nat /\ L[b].stime \in Nat
    BY <1>1, <2>1, <2>2
  <2> QED
    BY <2>1, <2>2, <2>3
<1>8. ASSUME NEW n, Falls(L, n, u) PROVE n = at
  <2>1. n \in 1 .. len /\ at \in 1 .. len
    BY <1>6, <1>8 DEF Falls, len
  <2>2. ~(n < at) /\ ~(at < n)
    BY <1>6, <1>7, <1>8
  <2> QED
    BY <1>1, <2>1, <2>2
<1> QED
  BY <1>6, <1>8 DEF at

\* The link an instant of any week falls to, and the end of what it charges
LinkOf(L, s) == LinkAt(L, s % WeekSeconds)
StopAt(L, s) == s - (s % WeekSeconds) + EndOf(L, LinkOf(L, s))

\* A minute, counted over the weeks, at which a link starts
Boundary(L, m) == \E n \in 1 .. Len(L) : L[n].stime = m % WeekMinutes

\* What link n charges goes on to the next boundary, and no further.
LEMMA StopAfter ==
  ASSUME NEW L, WeekList(L), NEW s \in Nat
  PROVE  /\ LinkOf(L, s) \in 1 .. Len(L)
         /\ StopAt(L, s) \in Nat /\ s < StopAt(L, s)
         /\ StopAt(L, s) % 60 = 0
         /\ Boundary(L, StopAt(L, s) \div 60)
         /\ \A t \in s .. StopAt(L, s) - 1 : LinkOf(L, t) = LinkOf(L, s)
<1> DEFINE W == WeekSeconds
           u == s % W
           q == s \div W
           n == LinkOf(L, s)
           stop == StopAt(L, s)
           next == EndOf(L, n)
           m == IF n < Len(L) THEN L[n + 1].stime ELSE 0
           M == IF n < Len(L) THEN L[n + 1].stime ELSE WeekMinutes
<1>1. W \in Nat \ {0} /\ WeekMinutes \in Nat \ {0} /\ W = 60 * WeekMinutes
  BY Weeks
<1> HIDE DEF W
<1>2. u \in Nat /\ u < W /\ q \in Nat /\ s = W * q + u
  <2>1. s \in Int /\ W \in Nat \ {0}
    BY <1>1
  <2>2. /\ q \in Int /\ u \in 0 .. W - 1 /\ s = W * q + u
        /\ s \in Nat => q \in Nat
    BY <2>1, Divided, Zenon
  <2> HIDE DEF u, q
  <2> QED
    BY <1>1, <2>2
<1>3. Falls(L, n, u)
  BY <1>2, Walk DEF LinkOf, W
<1>4. /\ Len(L) \in Nat \ {0} /\ L[1].stime = 0 /\ 1 \in 1 .. Len(L)
      /\ \A i \in 1 .. Len(L) : L[i].stime \in Nat /\ L[i].stime < WeekMinutes
  BY WeekListLinks
<1>5. stop = s - u + next
  BY DEF StopAt, W
<1> HIDE DEF u, q, n, stop, next, m, M
<1>6. /\ n \in 1 .. Len(L) /\ M \in Nat /\ M <= WeekMinutes
      /\ next = 60 * M /\ u < next
      /\ m \in Nat /\ m < WeekMinutes
      /\ \/ n < Len(L) /\ m = L[n + 1].stime /\ M = m /\ n + 1 \in 1 .. Len(L)
         \/ ~(n < Len(L)) /\ m = 0 /\ M = WeekMinutes
  <2>1. n \in 1 .. Len(L) /\ (n < Len(L) => u < 60 * L[n + 1].stime)
    BY <1>3 DEF Falls
  <2>2. next = IF n < Len(L) THEN 60 * L[n + 1].stime ELSE WeekSeconds
    BY DEF next, EndOf
  <2>3. CASE n < Len(L)
    <3>1. n + 1 \in 1 .. Len(L)
      BY <1>4, <2>1, <2>3
    <3>2. m = L[n + 1].stime /\ M = L[n + 1].stime
      BY <2>3 DEF m, M
    <3>3. next = 60 * L[n + 1].stime /\ u < 60 * L[n + 1].stime
      BY <2>1, <2>2, <2>3
    <3>4. L[n + 1].stime \in Nat /\ L[n + 1].stime < WeekMinutes /\ WeekMinutes \in Nat
      BY <1>1, <1>4, <3>1
    <3> HIDE DEF n, u, next, m, M
    <3> QED
      BY <2>1, <2>3, <3>1, <3>2, <3>3, <3>4
  <2>4. CASE ~(n < Len(L))
    BY <1>1, <1>2, <2>1, <2>2, <2>4 DEF W, m, M
  <2> QED
    BY <2>3, <2>4
<1> DEFINE z == WeekMinutes * q
<1>7. W * q = 60 * z /\ z \in Nat
  BY <1>1, <1>2
<1> HIDE DEF z
<1>8. stop = 60 * (z + M) /\ stop = W * q + next /\ W * q \in Nat
  <2> DEFINE y == W * q
  <2>1. y = 60 * z /\ z \in Nat /\ s = y + u /\ u \in Nat
    BY <1>2, <1>7
  <2>2. M \in Nat /\ next = 60 * M
    BY <1>6
  <2> HIDE DEF y
  <2>3. stop = y + next /\ stop = 60 * (z + M) /\ y \in Nat
    BY <1>5, <2>1, <2>2
  <2> QED
    BY <2>3 DEF y
<1>9. stop \in Nat /\ s < stop
  BY <1>2, <1>6, <1>7, <1>8
<1>10. stop % 60 = 0 /\ stop \div 60 = z + M
  BY <1>6, <1>7, <1>8
<1>11. Boundary(L, stop \div 60)
  <2>1. \E i \in 1 .. Len(L) : L[i].stime = m
    <3>1. CASE n < Len(L)
      BY <1>4, <1>6, <3>1
    <3>2. CASE ~(n < Len(L))
      BY <1>4, <1>6, <3>2
    <3> QED
      BY <3>1, <3>2
  <2>2. (z + M) % WeekMinutes = m
    <3>1. CASE n < Len(L)
      <4>1. z + M = WeekMinutes * q + m
        BY <1>6, <3>1 DEF z
      <4> QED
        <5>1. q \in Int /\ m \in Int /\ 0 <= m /\ m < WeekMinutes /\ WeekMinutes \in Nat \ {0}
          BY <1>1, <1>2, <1>6
        <5>2. (WeekMinutes * q + m) % WeekMinutes = m
          BY <5>1, DividedOnly, Zenon
        <5> QED
          BY <4>1, <5>2
    <3>2. CASE ~(n < Len(L))
      <4>1. WeekMinutes * (q + 1) = z + WeekMinutes
        BY <1>1, <1>2 DEF z
      <4>2. (WeekMinutes * (q + 1) + 0) % WeekMinutes = 0
        BY <1>1, <1>2, DividedOnly
      <4>3. WeekMinutes * (q + 1) + 0 = z + M /\ m = 0
        BY <1>1, <1>6, <1>7, <3>2, <4>1
      <4> QED
        BY <4>2, <4>3
    <3> QED
      BY <3>1, <3>2
  <2> QED
    BY <1>10, <2>1, <2>2 DEF Boundary
<1>12. ASSUME NEW t \in s .. stop - 1 PROVE LinkOf(L, t) = n
  <2> DEFINE v == u + (t - s)
  <2>1. /\ v \in Nat /\ u <= v /\ v < next /\ v < W /\ t = W * q + v
    <3> DEFINE wq == W * q
    <3>1. next <= W /\ next \in Nat /\ W \in Nat
      BY <1>1, <1>6
    <3>2. u \in Nat /\ wq \in Nat /\ s = wq + u /\ stop = wq + next
      BY <1>2, <1>8
    <3> HIDE DEF wq
    <3>3. v \in Nat /\ u <= v /\ v < next /\ v < W /\ t = wq + v
      BY <3>1, <3>2
    <3> QED
      BY <3>3 DEF wq
  <2> HIDE DEF v
  <2>2. t % W = v
    <3>1. v \in Int /\ 0 <= v /\ q \in Int
      BY <1>2, <2>1
    <3>2. (W * q + v) % W = v
      BY <1>1, <2>1, <3>1, DividedOnly
    <3> QED
      BY <2>1, <3>2
  <2>3. Falls(L, n, v)
    <3>1. /\ n \in 1 .. Len(L) /\ 60 * L[n].stime <= u /\ L[n].stime \in Nat
      BY <1>3, <1>4 DEF Falls
    <3>2. n < Len(L) => next = 60 * L[n + 1].stime
      BY <1>6
    <3> QED
      BY <1>2, <2>1, <3>1, <3>2 DEF Falls
  <2>4. n = LinkAt(L, v)
    BY <2>1, <2>3, Walk
  <2> QED
    BY <2>2, <2>4 DEF LinkOf, W
<1> QED
  BY <1>6, <1>9, <1>10, <1>11, <1>12 DEF n, stop

-----------------------------------------------------------------------------
(* The price per minute *)

\* What a link asks from an instant to another it charges
Fee(L, s, e) ==
  (L[LinkOf(L, s)].hprice * (AtLeastASecond(s, e) - s)) \div 3600

\* The price of an interval is that of its first piece and of the rest.
LEMMA PerMinuteStep ==
  ASSUME NEW L, WeekList(L), NEW e \in Nat, NEW s \in Nat
  PROVE  PerMinute(L, s, e) =
           IF AtLeastASecond(s, e) <= StopAt(L, s) THEN Fee(L, s, e)
           ELSE Fee(L, s, StopAt(L, s)) + PerMinute(L, StopAt(L, s), e)
<1> DEFINE Within(t) == AtLeastASecond(t, e) <= StopAt(L, t)
           body(f, t) == IF Within(t) THEN Fee(L, t, e)
                         ELSE Fee(L, t, StopAt(L, t)) + f[StopAt(L, t)]
           price == CHOOSE f : f = [t \in Nat |-> body(f, t)]
           B == {t \in Nat : Within(t)}
           mu == [t \in Nat |-> IF t < e THEN e - t ELSE 0]
           v == [t \in Nat |-> Fee(L, t, e)]
           w == [t \in Nat |-> Fee(L, t, StopAt(L, t))]
           nx == [t \in Nat |-> StopAt(L, t)]
<1>1. \A t \in Nat : StopAt(L, t) \in Nat /\ t < StopAt(L, t)
  BY StopAfter
<1>2. \E f : f = [t \in Nat |-> IF t \in B THEN v[t] ELSE w[t] + f[nx[t]]]
  <2>1. mu \in [Nat -> Nat] /\ nx \in [Nat -> Nat]
    BY <1>1
  <2>2. ASSUME NEW t \in Nat, t \notin B PROVE mu[nx[t]] < mu[t]
    <3>1. AtLeastASecond(t, e) > StopAt(L, t) /\ t < StopAt(L, t) /\ StopAt(L, t) \in Nat
      BY <1>1, <2>2 DEF AtLeastASecond
    <3>2. t < e /\ StopAt(L, t) < e
      BY <3>1 DEF AtLeastASecond
    <3> QED
      BY <3>1, <3>2
  <2> HIDE DEF mu, v, w, nx, B
  <2>3. Defined(Nat, B, v, w, nx)
    BY <2>1, <2>2, Recursion
  <2> QED
    BY <2>3 DEF Defined
<1>3. ASSUME NEW f, NEW t \in Nat
      PROVE  (IF t \in B THEN v[t] ELSE w[t] + f[nx[t]]) = body(f, t)
  OBVIOUS
<1> HIDE DEF B, v, w, nx
<1>4. price = [t \in Nat |-> body(price, t)]
  <2>1. PICK f : f = [t \in Nat |-> IF t \in B THEN v[t] ELSE w[t] + f[nx[t]]]
    BY <1>2
  <2>2. f = [t \in Nat |-> body(f, t)]
    <3>1. \A t \in Nat : (IF t \in B THEN v[t] ELSE w[t] + f[nx[t]]) = body(f, t)
      BY <1>3
    <3> HIDE DEF body
    <3> QED
      BY <2>1, <3>1
  <2> QED
    BY <2>2
<1>5. \A t \in Nat : PerMinute(L, t, e) = price[t]
  <2>1. L # <<>>
    BY WeekListLinks
  <2> QED
    BY <2>1 DEF PerMinute, Fee, StopAt, LinkOf
<1> HIDE DEF price
<1>6. PerMinute(L, s, e) = body(price, s)
  BY <1>4, <1>5
<1> QED
  BY <1>1, <1>5, <1>6

\* The same number n times is n times the number.
LEMMA TotalConst ==
  ASSUME NEW n \in Nat, NEW f, NEW c \in Int, \A k \in 1 .. n : f[k] = c
  PROVE  Total(f, n) = n * c
<1> DEFINE S == {m \in Nat : m <= n => Total(f, m) = m * c}
<1>1. 0 \in S
  BY TotalStep
<1>2. ASSUME NEW m \in Nat, m \in S PROVE m + 1 \in S
  <2> SUFFICES ASSUME m + 1 <= n PROVE Total(f, m + 1) = (m + 1) * c
    OBVIOUS
  <2>1. m + 1 \in 1 .. n /\ Total(f, m) = m * c
    BY <1>2
  <2>2. Total(f, m + 1) = c + Total(f, m)
    BY <2>1, TotalStep
  <2>3. (m + 1) * c = c + m * c
    OBVIOUS
  <2> QED
    BY <2>1, <2>2, <2>3
<1> HIDE DEF S
<1>3. n \in S
  BY <1>1, <1>2, Induct
<1> QED
  BY <1>3 DEF S

Between(L, s, e) == {m \in s \div 60 + 1 .. (e - 1) \div 60 : Boundary(L, m)}

\* The boundaries crossed are finitely many.
LEMMA CrossedCounts ==
  ASSUME NEW L, NEW s \in Nat, NEW e \in Nat
  PROVE  /\ IsFiniteSet(Between(L, s, e))
         /\ Crossed(L, s, e) = Cardinality(Between(L, s, e))
         /\ Crossed(L, s, e) \in Nat
<1> DEFINE I == s \div 60 + 1 .. (e - 1) \div 60
           X == {m \in I : Boundary(L, m)}
<1>1. s \div 60 + 1 \in Int /\ (e - 1) \div 60 \in Int
  OBVIOUS
<1>2. IsFiniteSet(I)
  BY <1>1, FS_Interval
<1>3. X \in SUBSET I
  OBVIOUS
<1> HIDE DEF I
<1>4. IsFiniteSet(X) /\ Cardinality(X) \in Nat
  BY <1>2, <1>3, FS_Subset, FS_CardinalityType
<1>5. Crossed(L, s, e) = Cardinality(X)
  BY DEF Crossed, Boundary, I
<1> QED
  BY <1>4, <1>5 DEF I, Between

\* A boundary between two instants is one more than those after it.
LEMMA CrossedMore ==
  ASSUME NEW L, NEW s \in Nat, NEW e \in Nat, NEW t \in Nat, s < t, t < e,
         t % 60 = 0, Boundary(L, t \div 60)
  PROVE  /\ Crossed(L, s, e) \in Nat /\ Crossed(L, t, e) \in Nat
         /\ Crossed(L, s, e) >= Crossed(L, t, e) + 1
<1> DEFINE A == Between(L, t, e)
           X == Between(L, s, e)
           b == t \div 60
<1>1. /\ IsFiniteSet(A) /\ Crossed(L, t, e) = Cardinality(A) /\ Crossed(L, t, e) \in Nat
      /\ IsFiniteSet(X) /\ Crossed(L, s, e) = Cardinality(X) /\ Crossed(L, s, e) \in Nat
  BY CrossedCounts
<1>2. b \in Int /\ t = 60 * b /\ s \div 60 + 1 <= b /\ b <= (e - 1) \div 60
  OBVIOUS
<1>3. b \in X /\ b \notin A
  BY <1>2 DEF Between
<1>4. A \subseteq X
  BY <1>2 DEF Between
<1> HIDE DEF A, X, b
<1>5. A \cup {b} \in SUBSET X
  BY <1>3, <1>4
<1>6. Cardinality(A \cup {b}) = Cardinality(A) + 1 /\ IsFiniteSet(A \cup {b})
  BY <1>1, <1>3, FS_AddElement
<1>7. Cardinality(A \cup {b}) <= Cardinality(X)
  BY <1>1, <1>5, FS_Subset
<1> QED
  BY <1>1, <1>6, <1>7

\* The rates asked for at each of K instants G apart, from s
RatesFrom(L, s, G, K) ==
  Total([k \in 1 .. K |-> L[LinkOf(L, s + (k - 1) * G)].hprice], K)

\* Within what one link charges they are the same.
LEMMA RatesOfPiece ==
  ASSUME NEW L, WeekList(L), NEW s \in Nat, NEW G \in Nat \ {0}, NEW K \in Nat,
         s + K * G <= StopAt(L, s)
  PROVE  RatesFrom(L, s, G, K) = K * L[LinkOf(L, s)].hprice
<1> DEFINE f == [k \in 1 .. K |-> L[LinkOf(L, s + (k - 1) * G)].hprice]
           h == L[LinkOf(L, s)].hprice
<1>1. /\ StopAt(L, s) \in Nat /\ LinkOf(L, s) \in 1 .. Len(L)
      /\ \A t \in s .. StopAt(L, s) - 1 : LinkOf(L, t) = LinkOf(L, s)
  BY StopAfter
<1>2. h \in Int
  BY <1>1, WeekListLinks
<1>3. ASSUME NEW k \in 1 .. K PROVE f[k] = h
  <2> DEFINE t == s + (k - 1) * G
  <2>1. (k - 1) * G \in Nat /\ (k - 1) * G + G = k * G
    BY <1>3
  <2>2. k * G <= K * G
    <3>1. G * k <= G * K
      BY TimesMonotone
    <3>2. G * k = k * G /\ G * K = K * G
      OBVIOUS
    <3> QED
      BY <3>1, <3>2
  <2> DEFINE x == (k - 1) * G
             y == k * G
             z == K * G
  <2>3. x \in Nat /\ x + G = y /\ y <= z /\ z \in Nat /\ s + z <= StopAt(L, s)
    BY <2>1, <2>2
  <2> HIDE DEF x, y, z
  <2>4. s + x \in s .. StopAt(L, s) - 1
    BY <1>1, <2>3
  <2>5. LinkOf(L, s + x) = LinkOf(L, s)
    BY <1>1, <2>4
  <2> QED
    BY <2>5 DEF x
<1> HIDE DEF f, h
<1>4. Total(f, K) = K * h
  BY <1>2, <1>3, TotalConst
<1> QED
  BY <1>4 DEF f, h, RatesFrom

\* The rates of an interval are those of its two parts.
LEMMA RatesSplit ==
  ASSUME NEW L, WeekList(L), NEW s \in Nat, NEW G \in Nat \ {0},
         NEW K \in Nat, NEW M \in Nat, NEW t, t = s + K * G
  PROVE  /\ RatesFrom(L, s, G, K + M) = RatesFrom(L, s, G, K) + RatesFrom(L, t, G, M)
         /\ RatesFrom(L, s, G, K) \in Int
<1> DEFINE rate(k) == L[LinkOf(L, s + (k - 1) * G)].hprice
           f == [k \in 1 .. K + M |-> rate(k)]
           a == [k \in 1 .. K |-> rate(k)]
           b == [k \in 1 .. M |-> L[LinkOf(L, t + (k - 1) * G)].hprice]
<1>1. ASSUME NEW k \in Nat \ {0} PROVE s + (k - 1) * G \in Nat
  <2>1. (k - 1) * G \in Nat
    OBVIOUS
  <2> QED
    BY <2>1
<1>2. \A k \in Nat \ {0} : rate(k) \in Int
  <2> SUFFICES ASSUME NEW k \in Nat \ {0}
               PROVE  rate(k) \in Int
    OBVIOUS
  <2> DEFINE r == s + (k - 1) * G
  <2>1. r \in Nat
    BY <1>1
  <2> HIDE DEF r
  <2>2. LinkOf(L, r) \in 1 .. Len(L)
    BY <2>1, StopAfter
  <2>3. L[LinkOf(L, r)].hprice \in Nat
    BY <2>2, WeekListLinks
  <2> QED
    BY <2>3 DEF r
<1>3. /\ \A k \in 1 .. K + M : f[k] \in Int
      /\ \A k \in 1 .. K : a[k] = f[k] /\ a[k] \in Int
  <2> HIDE DEF rate
  <2>1. \A k \in 1 .. K + M : k \in Nat \ {0}
    OBVIOUS
  <2>2. \A k \in 1 .. K : k \in 1 .. K + M
    OBVIOUS
  <2> QED
    BY <1>2, <2>1, <2>2
<1>4. ASSUME NEW k \in 1 .. M PROVE b[k] = f[K + k]
  <2>1. K + k \in 1 .. K + M
    OBVIOUS
  <2>2. t + (k - 1) * G = s + ((K + k) - 1) * G
    <3>1. ((K + k) - 1) * G = K * G + (k - 1) * G
      OBVIOUS
    <3>2. K * G \in Int /\ (k - 1) * G \in Int
      OBVIOUS
    <3> QED
      BY <3>1, <3>2
  <2> QED
    BY <2>1, <2>2
<1> HIDE DEF f, a, b
<1>5. Total(f, K + M) = Total(f, K) + Total(b, M)
  BY <1>3, <1>4, TotalSplit
<1>6. Total(a, K) = Total(f, K) /\ Total(a, K) \in Int
  BY <1>3, TotalSame, TotalInt
<1>7. /\ RatesFrom(L, s, G, K + M) = Total(f, K + M)
      /\ RatesFrom(L, s, G, K) = Total(a, K)
      /\ RatesFrom(L, t, G, M) = Total(b, M)
  BY DEF f, a, b, RatesFrom
<1> QED
  BY <1>5, <1>6, <1>7

\* An instant some grains after another, and of whole grains itself
GrainsOn(s, t, G) == t % G = 0 /\ \E K \in Nat \ {0} : t = s + K * G

\* A whole minute after an instant of whole grains is some grains after it.
LEMMA Grains ==
  ASSUME NEW G \in Nat \ {0}, 60 % G = 0, NEW s \in Nat, s % G = 0,
         NEW t \in Nat, t % 60 = 0, s < t
  PROVE  GrainsOn(s, t, G)
<1> DEFINE c == 60 \div G
           a == s \div G
           z == t \div 60
           b == c * z
<1>1. c \in Nat /\ 60 = G * c
  BY Divided
<1>2. a \in Nat /\ s = G * a
  BY Divided
<1>3. z \in Nat /\ t = 60 * z
  OBVIOUS
<1> HIDE DEF c, a, z
<1>4. b \in Nat /\ t = G * b
  <2>1. b \in Nat /\ (G * c) * z = G * b
    BY <1>1, <1>3
  <2> QED
    BY <1>1, <1>3, <2>1
<1> HIDE DEF b
<1>5. t % G = 0
  <2>1. (G * b + 0) % G = 0
    BY <1>4, DividedOnly
  <2>2. G * b + 0 = t
    BY <1>4
  <2> QED
    BY <2>1, <2>2
<1>6. a < b
  <2> SUFFICES ASSUME b <= a PROVE FALSE
    BY <1>2, <1>4
  <2>1. G * b <= G * a
    BY <1>2, <1>4, TimesMonotone
  <2> QED
    BY <1>2, <1>4, <2>1
<1>7. t = s + (b - a) * G /\ b - a \in Nat \ {0}
  <2>1. (b - a) * G = G * b - G * a
    BY <1>2, <1>4
  <2>2. G * b \in Int /\ G * a \in Int
    BY <1>2, <1>4
  <2> QED
    BY <1>2, <1>4, <1>6, <2>1, <2>2
<1> QED
  BY <1>5, <1>7 DEF GrainsOn

\* A fee is what d seconds cost at the rate of the link, rounded down.
FeeFor(L, s, e, d) ==
  LET h == L[LinkOf(L, s)].hprice
  IN  /\ h \in Nat /\ Fee(L, s, e) \in Nat
      /\ 3600 * Fee(L, s, e) <= h * d
      /\ h * d < 3600 * (Fee(L, s, e) + 1)

\* A fee is the exact price rounded down.
LEMMA FeeBounds ==
  ASSUME NEW L, WeekList(L), NEW s \in Nat, NEW e \in Nat, NEW d \in Nat,
         (s < e /\ d = e - s) \/ (s = e /\ d = 1)
  PROVE  FeeFor(L, s, e, d)
<1> DEFINE h == L[LinkOf(L, s)].hprice
           x == h * d
<1>1. h \in Nat
  BY StopAfter, WeekListLinks
<1>2. AtLeastASecond(s, e) - s = d
  BY DEF AtLeastASecond
<1>3. Fee(L, s, e) = x \div 3600
  BY <1>2 DEF Fee
<1> HIDE DEF h
<1>4. x \in Nat
  BY <1>1
<1> HIDE DEF x
<1>5. /\ Fee(L, s, e) \in Nat /\ 3600 * Fee(L, s, e) <= x
      /\ x < 3600 * (Fee(L, s, e) + 1)
  BY <1>3, <1>4
<1> QED
  BY <1>1, <1>5 DEF h, x, FeeFor

\* The price of K instants G apart, and the rates asked for at each
Bounded(L, s, G, K) ==
  LET e == s + K * G
      price == PerMinute(L, s, e)
      rates == G * RatesFrom(L, s, G, K)
  IN  /\ price \in Nat /\ rates \in Int
      /\ 3600 * price <= rates
      /\ rates < 3600 * (price + Crossed(L, s, e) + 1)

\* All inside what one link charges
LEMMA BoundedPiece ==
  ASSUME NEW L, WeekList(L), NEW s \in Nat, NEW G \in Nat \ {0}, NEW K \in Nat \ {0},
         s + K * G <= StopAt(L, s)
  PROVE  Bounded(L, s, G, K)
<1> DEFINE e == s + K * G
           h == L[LinkOf(L, s)].hprice
           price == PerMinute(L, s, e)
           rates == G * RatesFrom(L, s, G, K)
           cross == Crossed(L, s, e)
           d == e - s
<1>1. K * G \in Nat /\ K * G # 0
  OBVIOUS
<1>2. e \in Nat /\ s < e /\ K * G = e - s
  BY <1>1
<1>3. RatesFrom(L, s, G, K) = K * h
  BY RatesOfPiece
<1> HIDE DEF e
<1>4. AtLeastASecond(s, e) <= StopAt(L, s)
  BY <1>2 DEF AtLeastASecond, e
<1>5. price = Fee(L, s, e)
  BY <1>2, <1>4, PerMinuteStep
<1>6. /\ h \in Nat /\ d = e - s /\ Fee(L, s, e) \in Nat
      /\ 3600 * Fee(L, s, e) <= h * d /\ h * d < 3600 * (Fee(L, s, e) + 1)
  <2>1. d \in Nat
    BY <1>2
  <2>2. FeeFor(L, s, e, d)
    BY <1>2, <2>1, FeeBounds
  <2> QED
    BY <2>2 DEF FeeFor
<1>7. cross \in Nat
  BY <1>2, CrossedCounts
<1> HIDE DEF h, cross, d, price
<1>8. rates = h * d
  <2>1. G * (K * h) = h * (K * G)
    BY <1>6
  <2> QED
    BY <1>2, <1>3, <1>6, <2>1
<1>9. h * d \in Int
  BY <1>2, <1>6
<1> HIDE DEF rates
<1> DEFINE x == h * d
<1> HIDE DEF x
<1>10. price \in Nat /\ rates \in Int /\ 3600 * price <= rates
       /\ rates < 3600 * (price + cross + 1)
  <2>1. x \in Int /\ rates = x /\ 3600 * price <= x /\ x < 3600 * (price + 1) /\ price \in Nat
    BY <1>5, <1>6, <1>8, <1>9 DEF x
  <2> QED
    BY <1>7, <2>1
<1> QED
  BY <1>10 DEF Bounded, price, rates, cross, e

\* A piece and what comes after it
LEMMA BoundedMore ==
  ASSUME NEW L, WeekList(L), NEW s \in Nat, NEW G \in Nat \ {0},
         NEW K \in Nat \ {0}, NEW M \in Nat \ {0},
         StopAt(L, s) = s + K * G, Bounded(L, s + K * G, G, M)
  PROVE  Bounded(L, s, G, K + M)
<1> DEFINE t == s + K * G
           e == t + M * G
           h == L[LinkOf(L, s)].hprice
           fee == Fee(L, s, t)
           rest == PerMinute(L, t, e)
           price == PerMinute(L, s, e)
           rates1 == G * RatesFrom(L, s, G, K)
           rates2 == G * RatesFrom(L, t, G, M)
           rates == G * RatesFrom(L, s, G, K + M)
           cross1 == Crossed(L, t, e)
           cross == Crossed(L, s, e)
<1>1. K * G \in Nat /\ M * G \in Nat /\ M * G # 0 /\ (K + M) * G = K * G + M * G
  OBVIOUS
<1>2. /\ t \in Nat /\ e \in Nat /\ s < t /\ t < e /\ StopAt(L, s) = t
      /\ t % 60 = 0 /\ Boundary(L, t \div 60) /\ e = s + (K + M) * G
      /\ K * G = t - s
  <2> DEFINE x == K * G
             y == M * G
  <2>1. x \in Nat /\ y \in Nat /\ y # 0 /\ (K + M) * G = x + y
    BY <1>1
  <2> HIDE DEF x, y
  <2>2. StopAt(L, s) = s + x
    BY DEF x
  <2>3. StopAt(L, s) = t /\ s < t /\ t % 60 = 0 /\ Boundary(L, t \div 60)
    BY <2>2, StopAfter DEF x
  <2> QED
    BY <2>1, <2>3 DEF x, y
<1>3. RatesFrom(L, s, G, K) = K * h
  BY RatesOfPiece, <1>2, t <= StopAt(L, s)
<1>4. /\ RatesFrom(L, s, G, K + M) = RatesFrom(L, s, G, K) + RatesFrom(L, t, G, M)
      /\ RatesFrom(L, s, G, K) \in Int
  <2>1. K \in Nat /\ M \in Nat /\ t = s + K * G
    OBVIOUS
  <2> HIDE DEF t
  <2>2. RatesFrom(L, s, G, K) \in Int
    BY <2>1, RatesSplit
  <2>3. RatesFrom(L, s, G, K + M) = RatesFrom(L, s, G, K) + RatesFrom(L, t, G, M)
    BY <2>1, RatesSplit
  <2> QED
    BY <2>2, <2>3
<1>5. RatesFrom(L, t, G, M) \in Int
  BY <1>2, RatesSplit
<1>6. rates = rates1 + rates2 /\ rates1 \in Int /\ rates2 \in Int
  <2> DEFINE a == RatesFrom(L, s, G, K)
             b == RatesFrom(L, t, G, M)
  <2>1. a \in Int /\ b \in Int /\ RatesFrom(L, s, G, K + M) = a + b
    BY <1>4, <1>5
  <2> HIDE DEF a, b
  <2>2. G * (a + b) = G * a + G * b /\ G * a \in Int /\ G * b \in Int
    BY <2>1
  <2> QED
    BY <2>1, <2>2 DEF a, b
<1>7. /\ rest \in Nat /\ 3600 * rest <= rates2
      /\ rates2 < 3600 * (rest + cross1 + 1)
  BY DEF Bounded
<1> HIDE DEF e
<1>8. cross \in Nat /\ cross1 \in Nat /\ cross >= cross1 + 1
  BY <1>2, CrossedMore
<1>9. price = fee + rest
  <2>1. ~(AtLeastASecond(s, e) <= StopAt(L, s))
    BY <1>2 DEF AtLeastASecond
  <2>2. StopAt(L, s) = t
    BY <1>2
  <2> HIDE DEF t
  <2> QED
    BY <1>2, <2>1, <2>2, PerMinuteStep
<1>10. /\ fee \in Nat /\ 3600 * fee <= h * (t - s) /\ h * (t - s) < 3600 * (fee + 1)
       /\ h \in Nat
  <2>1. t - s \in Nat
    BY <1>2
  <2> HIDE DEF t
  <2>2. FeeFor(L, s, t, t - s)
    BY <1>2, <2>1, FeeBounds
  <2> QED
    BY <2>2 DEF FeeFor
<1>11. rates1 = h * (t - s)
  <2>1. G * (K * h) = h * (K * G)
    BY <1>10
  <2> QED
    BY <1>2, <1>3, <2>1
<1> HIDE DEF rates, rates1, rates2, fee, rest, price, cross, cross1
<1>12. 3600 * fee <= rates1 /\ rates1 < 3600 * (fee + 1)
  BY <1>10, <1>11
<1>13. /\ price \in Nat /\ rates \in Int /\ 3600 * price <= rates
       /\ rates < 3600 * (price + cross + 1)
  BY <1>6, <1>7, <1>8, <1>9, <1>10, <1>12
<1>14. /\ PerMinute(L, s, s + (K + M) * G) = price
       /\ G * RatesFrom(L, s, G, K + M) = rates
       /\ Crossed(L, s, s + (K + M) * G) = cross
  BY <1>2 DEF price, rates, cross
<1> QED
  BY <1>13, <1>14 DEF Bounded

\* The price per minute of any interval is the rates of its instants, but
\* for less than one per piece.
LEMMA PerMinuteBounds ==
  ASSUME NEW L, WeekList(L), NEW G \in Nat \ {0}, 60 % G = 0,
         NEW s \in Nat, s % G = 0, NEW K \in Nat \ {0}
  PROVE  Bounded(L, s, G, K)
<1> DEFINE S == {n \in Nat : \A i \in 1 .. n, r \in Nat : r % G = 0 => Bounded(L, r, G, i)}
<1>1. 0 \in S
  OBVIOUS
<1>2. ASSUME NEW n \in Nat, n \in S PROVE n + 1 \in S
  <2> SUFFICES ASSUME NEW r \in Nat, r % G = 0 PROVE Bounded(L, r, G, n + 1)
    <3>1. \A i \in 1 .. n + 1 : i \in 1 .. n \/ i = n + 1
      OBVIOUS
    <3> QED
      BY <1>2, <3>1
  <2>1. CASE r + (n + 1) * G <= StopAt(L, r)
    <3> DEFINE i == n + 1
    <3>1. i \in Nat \ {0} /\ r + i * G <= StopAt(L, r)
      BY <2>1
    <3> HIDE DEF i
    <3>2. Bounded(L, r, G, i)
      BY <3>1, BoundedPiece
    <3> QED
      BY <3>2 DEF i
  <2>2. CASE ~(r + (n + 1) * G <= StopAt(L, r))
    <3>1. StopAt(L, r) \in Nat /\ r < StopAt(L, r) /\ StopAt(L, r) % 60 = 0
      BY StopAfter
    <3>0. StopAt(L, r) % G = 0 /\ \E j \in Nat \ {0} : StopAt(L, r) = r + j * G
      <4> DEFINE t == StopAt(L, r)
      <4>1. t \in Nat /\ t % 60 = 0 /\ r < t
        BY <3>1
      <4> HIDE DEF t
      <4>2. GrainsOn(r, t, G)
        BY <4>1, Grains
      <4> QED
        BY <4>2 DEF GrainsOn, t
    <3>2. PICK j \in Nat \ {0} : StopAt(L, r) = r + j * G
      BY <3>0
    <3>3. StopAt(L, r) % G = 0
      BY <3>0
    <3>4. j < n + 1
      <4> SUFFICES ASSUME n + 1 <= j PROVE FALSE
        OBVIOUS
      <4>1. G * (n + 1) <= G * j
        BY TimesMonotone
      <4>2. G * (n + 1) = (n + 1) * G /\ G * j = j * G /\ (n + 1) * G \in Int /\ j * G \in Int
        OBVIOUS
      <4> DEFINE x == (n + 1) * G
                 y == j * G
      <4>3. x <= y /\ x \in Int /\ y \in Int /\ StopAt(L, r) = r + y /\ ~(r + x <= StopAt(L, r))
        BY <2>2, <3>2, <4>1, <4>2
      <4> HIDE DEF x, y
      <4> QED
        BY <4>3
    <3> DEFINE i == (n + 1) - j
    <3>5. i \in Nat \ {0} /\ i \in 1 .. n /\ n + 1 = j + i
      BY <3>4
    <3> HIDE DEF i
    <3>6. Bounded(L, StopAt(L, r), G, i)
      BY <1>2, <3>1, <3>3, <3>5
    <3> QED
      BY <3>2, <3>5, <3>6, BoundedMore
  <2> QED
    BY <2>1, <2>2
<1> HIDE DEF S
<1>3. K \in S
  BY <1>1, <1>2, Induct
<1> QED
  BY <1>3 DEF S

-----------------------------------------------------------------------------
(* The list of a session's tariff *)

\* Finitely many natural numbers have a bound.
LEMMA BoundedNats ==
  ASSUME NEW S, IsFiniteSet(S), S \subseteq Nat PROVE \E N \in Nat : S \subseteq 0 .. N
<1> DEFINE P(i) == [id |-> i, stime |-> 0, hprice |-> 0]
           T == {P(i) : i \in S}
<1>1. IsFiniteSet(T)
  <2> DEFINE F == [i \in S |-> P(i)]
  <2>1. F \in Surjection(S, T)
    BY DEF Surjection
  <2> QED
    BY <2>1, FS_Surjection
<1>2. \A i \in S : P(i) \in Point /\ P(i).id = i /\ P(i).stime = 0
  BY DEF Point
<1>3. \A a, b \in T : a = b \/ Earlier(a, b) \/ Earlier(b, a)
  <2> SUFFICES ASSUME NEW i \in S, NEW j \in S
               PROVE  P(i) = P(j) \/ Earlier(P(i), P(j)) \/ Earlier(P(j), P(i))
    OBVIOUS
  <2>1. i = j \/ i < j \/ j < i
    OBVIOUS
  <2> QED
    BY <2>1 DEF Earlier
<1>4. Points(T)
  BY <1>1, <1>2, <1>3 DEF Points
<1>5. CASE S = {}
  BY <1>5
<1>6. CASE S # {}
  <2>1. PICK s \in T : \A q \in T : q = s \/ Earlier(s, q)
    BY <1>4, <1>6, FirstAndLast DEF IsFirst
  <2>2. PICK i \in S : s = P(i)
    BY <2>1
  <2>3. ASSUME NEW j \in S PROVE j <= i
    <3>1. P(j) = P(i) \/ Earlier(P(i), P(j))
      BY <2>1, <2>2
    <3> QED
      BY <1>2, <2>2, <3>1 DEF Earlier
  <2> QED
    BY <2>3
<1> QED
  BY <1>5, <1>6

\* A tariff of a session is one whose rows are sound.
LEMMA TableSound ==
  ASSUME NEW tab \in Tables
  PROVE  /\ SoundRows(tab.parts) /\ 1 \in Tarifs(tab.parts)
         /\ \A i \in DOMAIN tab.parts : /\ tab.parts[i].stime < DayMinutes
                                        /\ tab.parts[i] \in Part
<1> DEFINE ps == tab.parts
<1>1. /\ IsFiniteSet(DOMAIN ps) /\ DOMAIN ps # {}
      /\ \A i \in DOMAIN ps :
            /\ i \in Nat \ {0} /\ ps[i] \in Part
            /\ ps[i].tarif = 1 /\ ps[i].days # {} /\ ps[i].stime < DayMinutes
  BY SessionAssumption
<1> HIDE DEF ps
<1>2. Numbered(ps)
  <2>1. PICK N \in Nat : DOMAIN ps \subseteq 0 .. N
    BY <1>1, BoundedNats
  <2>2. DOMAIN ps \subseteq 1 .. N
    BY <1>1, <2>1
  <2> QED
    BY <2>2 DEF Numbered
<1>3. Tarifs(ps) = {1}
  BY <1>1 DEF Tarifs
<1>4. SoundRows(ps)
  <2>1. Tarifs(ps) \subseteq 0 .. 1
    BY <1>3
  <2> QED
    BY <1>1, <1>2, <2>1 DEF SoundRows
<1> QED
  BY <1>1, <1>3, <1>4 DEF ps

\* The price per hour of a link is that of its part.
LEMMA LinksOfParts ==
  ASSUME NEW tab \in Tables
  PROVE  /\ WeekList(List(tab))
         /\ \A n \in 1 .. Len(List(tab)) :
              /\ List(tab)[n].id \in DOMAIN tab.parts
              /\ List(tab)[n].hprice = tab.parts[List(tab)[n].id].hourprice
<1> DEFINE ps == tab.parts
           S == Starts(ps, 1)
           M == Merged(S)
           W == FromSunday(M)
           len == Cardinality(W)
           L == InOrder(W)
<1>1. SoundRows(ps) /\ 1 \in Tarifs(ps)
  BY TableSound
<1>2. Points(S) /\ S # {}
  BY <1>1, StartsArePoints, StartsOfTarifs
<1>3. ASSUME NEW s \in S
      PROVE  /\ s.id \in DOMAIN ps /\ s.hprice = ps[s.id].hourprice
             /\ s.stime < WeekMinutes
  <2>1. PICK i \in DOMAIN ps, d \in Days :
          s = [id |-> i, stime |-> ps[i].stime + d * DayMinutes, hprice |-> ps[i].hourprice]
    BY <1>3 DEF Starts, PartsOf
  <2>2. ps[i].stime \in Nat /\ ps[i].stime < DayMinutes
    BY TableSound DEF Part
  <2>3. s.stime < WeekMinutes
    <3> DEFINE c == Cardinality(Days)
    <3>1. c \in Nat /\ DayMinutes \in Nat \ {0} /\ Days = 0 .. c - 1
      BY WeekAssumption, FS_CardinalityType
    <3>2. d \in Int /\ d + 1 <= c
      BY <3>1
    <3> HIDE DEF c
    <3>3. DayMinutes * (d + 1) <= DayMinutes * c
      BY <3>1, <3>2, TimesMonotone
    <3>4. DayMinutes * (d + 1) = d * DayMinutes + DayMinutes /\ DayMinutes * c = c * DayMinutes
          /\ d * DayMinutes \in Int /\ c * DayMinutes \in Int
      BY <3>1, <3>2
    <3>5. WeekMinutes = c * DayMinutes
      BY DEF WeekMinutes, c
    <3>6. s.stime = ps[i].stime + d * DayMinutes
      BY <2>1
    <3> QED
      BY <2>2, <3>1, <3>3, <3>4, <3>5, <3>6
  <2> QED
    BY <2>1, <2>3
<1>4. /\ Points(W) /\ \E s \in W : s.stime = 0
      /\ \A s \in W : s \in M \/ (/\ s.stime = 0 /\ IsFirst(W, s)
                                  /\ \E l : /\ IsLast(M, l) /\ s.id = l.id
                                            /\ s.hprice = l.hprice)
  BY <1>2, WholeWeek
<1>5. M \subseteq S
  BY DEF Merged
<1> HIDE DEF ps, S, M, W
<1>6. ASSUME NEW s \in W
      PROVE  /\ s.id \in DOMAIN ps /\ s.hprice = ps[s.id].hourprice
             /\ s.stime < WeekMinutes
  <2>1. CASE s \in M
    BY <1>3, <1>5, <2>1
  <2>2. CASE s \notin M
    <3>1. s.stime = 0
      BY <1>4, <2>2
    <3>2. PICK l : IsLast(M, l) /\ s.id = l.id /\ s.hprice = l.hprice
      BY <1>4, <2>2
    <3>3. l \in S
      BY <1>5, <3>2 DEF IsLast
    <3>4. l.id \in DOMAIN ps /\ l.hprice = ps[l.id].hourprice
      BY <1>3, <3>3
    <3>5. WeekMinutes > 0
      BY Weeks
    <3> QED
      BY <3>1, <3>2, <3>4, <3>5
  <2> QED
    BY <2>1, <2>2
<1>7. /\ len \in Nat /\ len >= 1 /\ L \in [1 .. len -> W]
      /\ \A s \in W : \E n \in 1 .. len : L[n] = s
      /\ \A i, j \in 1 .. len : i < j => Earlier(L[i], L[j])
  BY <1>4, Sorted
<1> HIDE DEF len, L
<1>8. W \subseteq Point
  BY <1>4 DEF Points
<1>9. \A i, j \in 1 .. len : i < j => L[i].stime <= L[j].stime
  <2>1. \A i \in 1 .. len : L[i].stime \in Nat
    BY <1>7, <1>8 DEF Point
  <2> SUFFICES ASSUME NEW i \in 1 .. len, NEW j \in 1 .. len, i < j
               PROVE  L[i].stime <= L[j].stime
    OBVIOUS
  <2>2. L[i].stime < L[j].stime \/ L[i].stime = L[j].stime
    BY <1>7 DEF Earlier
  <2> QED
    BY <2>1, <2>2
<1>10. L[1].stime = 0
  <2>1. PICK n \in 1 .. len : L[n].stime = 0
    BY <1>4, <1>7
  <2>2. n = 1 \/ L[1].stime <= L[n].stime
    BY <1>7, <1>9
  <2>3. L[1].stime \in Nat
    BY <1>7, <1>8 DEF Point
  <2> QED
    BY <2>1, <2>2, <2>3
<1>11. WeekList(L)
  <2>1. L \in [1 .. len -> Point] /\ len \in Nat \ {0}
    BY <1>7, <1>8
  <2>2. \A i \in 1 .. len : L[i].stime < WeekMinutes
    BY <1>6, <1>7
  <2> QED
    BY <1>9, <1>10, <2>1, <2>2 DEF WeekList
<1>12. Len(L) = len
  BY <1>7
<1>13. L = List(tab)
  BY DEF List, Links, L, W, M, S, ps
<1> QED
  BY <1>6, <1>7, <1>11, <1>12, <1>13 DEF ps

\* The rows give for a second the rate of the link the list has for it.
LEMMA RateOfLink ==
  ASSUME NEW tab \in Tables, NEW sec \in Nat
  PROVE  RateAt(tab.parts, sec) = List(tab)[LinkAt(List(tab), sec)].hprice
<1> DEFINE ps == tab.parts
           L == List(tab)
           S == Starts(ps, 1)
           m == sec \div 60
           before == {p \in S : 60 * p.stime <= sec}
           cand == IF before = {} THEN S ELSE before
           last == {p \in cand : \A q \in cand : q.stime <= p.stime}
<1>1. SoundRows(ps) /\ 1 \in Tarifs(ps)
  BY TableSound
<1>2. Points(S) /\ S # {}
  BY <1>1, StartsArePoints, StartsOfTarifs
<1>3. WeekList(L) /\ \A n \in 1 .. Len(L) : L[n].hprice = ps[L[n].id].hourprice
  BY LinksOfParts
<1>4. \A s \in S : s.hprice = ps[s.id].hourprice
  BY DEF Starts
<1>5. L = Links(S)
  BY DEF List
<1>6. RateAt(ps, sec) = (CHOOSE p \in last : \A q \in last : p.id <= q.id).hprice
  BY DEF RateAt
<1> HIDE DEF ps, S, L
<1>7. m \in Nat /\ 60 * m <= sec /\ sec < 60 * m + 60
  OBVIOUS
<1> HIDE DEF m
<1>8. \A p \in S : p \in Point /\ p.id \in Nat /\ p.stime \in Nat
  BY <1>2 DEF Points, Point
<1>9. before = {p \in S : p.stime <= m}
  BY <1>7, <1>8
<1>10. cand = Started(S, m) /\ cand \in SUBSET S /\ cand # {}
  BY <1>2, <1>9 DEF Started
<1> HIDE DEF before, cand
<1>11. PICK b \in cand : IsLast(cand, b)
  BY <1>2, <1>10, SomePoints, FirstAndLast
<1>12. L[LinkAt(L, 60 * m)].id = b.id
  BY <1>2, <1>5, <1>7, <1>10, <1>11, ListFinds
<1>13. b \in last /\ \A q \in last : b.id <= q.id
  <2>1. b \in last
    BY <1>8, <1>10, <1>11 DEF IsLast, Earlier
  <2>2. ASSUME NEW q \in last PROVE b.id <= q.id
    <3>1. q \in cand /\ b.stime <= q.stime /\ (q = b \/ Earlier(q, b))
      BY <1>11 DEF IsLast
    <3> QED
      BY <1>8, <1>10, <3>1 DEF Earlier
  <2> QED
    BY <2>1, <2>2
<1>14. \A p \in last : (\A q \in last : p.id <= q.id) => p = b
  <2> SUFFICES ASSUME NEW p \in last, \A q \in last : p.id <= q.id PROVE p = b
    OBVIOUS
  <2>1. p \in S /\ b \in S /\ p.id = b.id /\ p.stime = b.stime
    BY <1>8, <1>10, <1>13
  <2> QED
    BY <1>2, <1>8, <2>1 DEF Points, Earlier
<1>15. RateAt(ps, sec) = b.hprice
  <2> HIDE DEF last
  <2>1. (CHOOSE p \in last : \A q \in last : p.id <= q.id) = b
    BY <1>13, <1>14
  <2> QED
    BY <1>6, <2>1
<1>16. LinkAt(L, 60 * m) = LinkAt(L, sec)
  <2>1. 60 * m \in Nat
    BY <1>7
  <2>2. Falls(L, LinkAt(L, 60 * m), 60 * m)
    BY <1>3, <2>1, Walk
  <2> DEFINE n == LinkAt(L, 60 * m)
  <2>3. n \in 1 .. Len(L) /\ 60 * L[n].stime <= 60 * m
        /\ (n < Len(L) => 60 * m < 60 * L[n + 1].stime)
    BY <2>2 DEF Falls
  <2> HIDE DEF n
  <2>4. \A i \in 1 .. Len(L) : L[i].stime \in Nat
    BY <1>3, WeekListLinks
  <2>5. Len(L) \in Nat
    BY <1>3, WeekListLinks
  <2>6. 60 * L[n].stime <= sec
    BY <1>7, <2>3, <2>4
  <2>7. ASSUME n < Len(L) PROVE sec < 60 * L[n + 1].stime
    <3>1. n + 1 \in 1 .. Len(L)
      BY <2>3, <2>5, <2>7
    <3>2. L[n + 1].stime \in Nat /\ m < L[n + 1].stime
      BY <1>7, <2>3, <2>4, <2>7, <3>1
    <3> QED
      BY <1>7, <3>2
  <2>8. Falls(L, n, sec)
    BY <2>3, <2>6, <2>7 DEF Falls
  <2>9. n = LinkAt(L, sec)
    BY <1>3, <2>8, Walk
  <2> QED
    BY <2>9 DEF n
<1>17. LinkAt(L, sec) \in 1 .. Len(L)
  BY <1>3, Walk DEF Falls
<1>18. L[LinkAt(L, sec)].hprice = b.hprice
  BY <1>3, <1>4, <1>10, <1>12, <1>16, <1>17
<1> QED
  BY <1>15, <1>18 DEF ps, L

-----------------------------------------------------------------------------
(* The session *)

\* An interval, of whole grains
Interval ==
  {ival \in [stime : Nat, etime : Nat] :
     ival.stime <= ival.etime /\ ival.stime % Grain = 0 /\ ival.etime % Grain = 0}

\* The tariff stays in use, and the session is made of intervals.
SessionInv ==
  /\ tariff \in Tables
  /\ intervals \in Seq(Interval)
  /\ intervals # <<>>

\* Sums and multiples of multiples of a number are multiples of it.
LEMMA MultiplesAdd ==
  ASSUME NEW G \in Nat \ {0}, NEW a \in Nat, a % G = 0, NEW b \in Nat, b % G = 0
  PROVE  (a + b) % G = 0 /\ (b <= a => (a - b) % G = 0)
<1> DEFINE x == a \div G
           y == b \div G
<1>1. x \in Int /\ a = G * x
  BY Divided
<1>2. y \in Int /\ b = G * y
  BY Divided
<1> HIDE DEF x, y
<1>3. x + y \in Int /\ x - y \in Int /\ 0 \in Int
  BY <1>1, <1>2
<1>4. a + b = G * (x + y) + 0 /\ a - b = G * (x - y) + 0
  <2>1. G * (x + y) = G * x + G * y /\ G * (x - y) = G * x - G * y
        /\ G * x \in Int /\ G * y \in Int
    BY <1>1, <1>2
  <2> QED
    BY <1>1, <1>2, <2>1
<1>5. (G * (x + y) + 0) % G = 0 /\ (G * (x - y) + 0) % G = 0
  <2>1. \A q \in Int : (G * q + 0) % G = 0
    BY DividedOnly
  <2> QED
    BY <1>3, <2>1
<1> QED
  BY <1>4, <1>5

\* A multiple of a multiple is one too.
LEMMA MultiplesTimes ==
  ASSUME NEW G \in Nat \ {0}, NEW a \in Nat, a % G = 0, NEW k \in Nat
  PROVE  k * a \in Nat /\ (k * a) % G = 0
<1> DEFINE x == a \div G
<1>1. x \in Int /\ a = G * x
  BY Divided
<1> HIDE DEF x
<1>2. k * a = G * (k * x) + 0 /\ k * x \in Int
  BY <1>1
<1>3. (G * (k * x) + 0) % G = 0
  <2>1. \A q \in Int : (G * q + 0) % G = 0
    BY DividedOnly
  <2> QED
    BY <1>2, <2>1
<1>4. k * a \in Nat
  OBVIOUS
<1> QED
  BY <1>2, <1>3, <1>4

\* An instant of whole grains is so many grains into its week too.
LEMMA WeekOfGrains ==
  ASSUME NEW t \in Nat, t % Grain = 0
  PROVE  InWeek(t) \in Nat /\ InWeek(t) % Grain = 0 /\ InWeek(t) < WeekSeconds
<1> DEFINE W == WeekSeconds
           q == t \div W
           k == 60 \div Grain
           m == WeekMinutes
<1>1. W \in Nat \ {0} /\ m \in Nat \ {0} /\ W = 60 * m
  BY Weeks
<1>2. Grain \in Nat \ {0} /\ 60 % Grain = 0
  BY SessionAssumption
<1> HIDE DEF W, m
<1>3. q \in Nat /\ t % W \in 0 .. W - 1 /\ t = W * q + (t % W)
  <2>1. t \in Int /\ W \in Nat \ {0}
    BY <1>1
  <2>2. /\ t % W \in 0 .. W - 1 /\ t = W * (t \div W) + (t % W)
        /\ (t \in Nat => t \div W \in Nat)
    BY <2>1, Divided, Zenon
  <2> QED
    BY <2>2
<1> HIDE DEF q
<1>4. m * 60 \in Nat /\ (m * 60) % Grain = 0
  <2>1. 60 \in Nat
    OBVIOUS
  <2> QED
    BY <1>1, <1>2, <2>1, MultiplesTimes
<1>5. W % Grain = 0
  BY <1>1, <1>4
<1>6. q * W \in Nat /\ (q * W) % Grain = 0
  <2>1. W \in Nat /\ q \in Nat
    BY <1>1, <1>3
  <2> QED
    BY <1>2, <1>5, <2>1, MultiplesTimes
<1>7. t % W = t - q * W /\ q * W <= t
  <2>1. W * q = q * W /\ t % W \in Nat
    BY <1>1, <1>3
  <2> QED
    BY <1>3, <1>6, <2>1
<1>8. (t - q * W) % Grain = 0
  <2> DEFINE z == q * W
  <2>1. z \in Nat /\ z % Grain = 0 /\ z <= t
    BY <1>6, <1>7
  <2> HIDE DEF z
  <2>2. (t - z) % Grain = 0
    BY <1>2, <2>1, MultiplesAdd
  <2> QED
    BY <2>2 DEF z
<1>9. InWeek(t) = t % W
  BY DEF InWeek, W
<1> QED
  BY <1>1, <1>3, <1>7, <1>8, <1>9 DEF W

\* A session starts with an empty interval.
LEMMA SessionInvInit == SessionInit => SessionInv
<1> SUFFICES ASSUME SessionInit PROVE SessionInv
  OBVIOUS
<1>1. PICK s \in Starting : intervals = <<[stime |-> s, etime |-> s]>>
  BY DEF SessionInit
<1>2. s \in Nat /\ s % Grain = 0
  BY SessionAssumption
<1>3. [stime |-> s, etime |-> s] \in Interval
  BY <1>2 DEF Interval
<1> QED
  BY <1>1, <1>3 DEF SessionInit, SessionInv

\* A session stays made of intervals of whole grains: time passes by ticks,
\* and a pause lasts some.
LEMMA SessionInvNext == ASSUME SessionInv, [SessionNext]_sessionVars PROVE SessionInv'
<1> USE DEF SessionInv
<1>1. Grain \in Nat \ {0} /\ TickSecs \in Nat /\ TickSecs % Grain = 0
  BY SessionAssumption
<1>2. Len(intervals) \in Nat \ {0} /\ \A n \in 1 .. Len(intervals) : intervals[n] \in Interval
  OBVIOUS
<1> DEFINE len == Len(intervals)
           last == intervals[len]
<1>3. last \in Interval
  BY <1>2
<1>4. /\ last.stime \in Nat /\ last.etime \in Nat /\ last.stime <= last.etime
      /\ last.stime % Grain = 0 /\ last.etime % Grain = 0
      /\ last = [stime |-> last.stime, etime |-> last.etime]
  BY <1>3 DEF Interval
<1>5. CASE Tick
  <2> DEFINE e == last.etime + TickSecs
             new == [last EXCEPT !.etime = e]
  <2>1. e \in Nat /\ e % Grain = 0 /\ last.stime <= e
    <3> DEFINE a == last.etime
    <3>1. a \in Nat /\ a % Grain = 0 /\ last.stime <= a /\ last.stime \in Nat
      BY <1>4
    <3> HIDE DEF a, last
    <3>2. (a + TickSecs) % Grain = 0
      BY <1>1, <3>1, MultiplesAdd
    <3> QED
      BY <1>1, <3>1, <3>2 DEF a
  <2>2. intervals' = [intervals EXCEPT ![len] = new]
    BY <1>5 DEF Tick
  <2> HIDE DEF e
  <2>3. new \in Interval
    BY <1>4, <2>1 DEF Interval
  <2> HIDE DEF new, last
  <2>4. intervals' \in Seq(Interval) /\ intervals' # <<>>
    BY <1>2, <2>2, <2>3
  <2> QED
    BY <1>5, <2>4 DEF Tick
<1>6. CASE Pause
  BY <1>6 DEF Pause
<1>7. ASSUME NEW k \in 0 .. 1, Unpause(k) PROVE SessionInv'
  <2> DEFINE s == last.etime + k * TickSecs
             new == [stime |-> s, etime |-> s]
  <2>1. k \in Nat
    OBVIOUS
  <2>2. k * TickSecs \in Nat /\ (k * TickSecs) % Grain = 0
    BY <1>1, <2>1, MultiplesTimes
  <2>3. s \in Nat /\ s % Grain = 0
    <3> DEFINE z == k * TickSecs
    <3>1. z \in Nat /\ z % Grain = 0
      BY <2>2
    <3> HIDE DEF z
    <3> DEFINE a == last.etime
    <3>2. a \in Nat /\ a % Grain = 0
      BY <1>4
    <3> HIDE DEF a, last
    <3>3. a + z \in Nat /\ (a + z) % Grain = 0
      <4>1. (a + z) % Grain = 0
        BY <1>1, <3>1, <3>2, MultiplesAdd
      <4> QED
        BY <3>1, <3>2, <4>1
    <3>4. s = a + z
      BY DEF a, z
    <3> HIDE DEF s
    <3> QED
      BY <3>3, <3>4
  <2>4. intervals' = Append(intervals, new)
    BY <1>7 DEF Unpause, Now
  <2> HIDE DEF s
  <2>5. new \in Interval
    BY <2>3 DEF Interval
  <2> HIDE DEF new
  <2>6. intervals' \in Seq(Interval) /\ intervals' # <<>>
    BY <2>4, <2>5
  <2> QED
    BY <1>7, <2>6 DEF Unpause
<1>8. CASE UNCHANGED sessionVars
  BY <1>8 DEF sessionVars
<1> QED
  BY <1>5, <1>6, <1>7, <1>8 DEF SessionNext

\* The sum of the rates the rows give is that of the links.
LEMMA RatesOfLinks ==
  ASSUME NEW tab \in Tables, NEW s \in Nat, NEW K \in Nat \ {0}
  PROVE  Rates(tab.parts, s, K) = Grain * RatesFrom(List(tab), s, Grain, K)
<1> DEFINE L == List(tab)
           f == [k \in 1 .. K |-> RateAt(tab.parts, InWeek(s + (k - 1) * Grain))]
           g == [k \in 1 .. K |-> L[LinkOf(L, s + (k - 1) * Grain)].hprice]
<1>1. Grain \in Nat \ {0}
  BY SessionAssumption
<1>2. ASSUME NEW k \in 1 .. K PROVE f[k] = g[k]
  <2> DEFINE t == s + (k - 1) * Grain
             u == InWeek(t)
  <2>1. (k - 1) * Grain \in Nat
    BY <1>1
  <2>2. t \in Nat
    BY <2>1
  <2> HIDE DEF t
  <2>3. t % WeekSeconds \in Nat
    BY <2>2, Weeks, Divided
  <2>4. u \in Nat
    BY <2>3 DEF InWeek
  <2>5. RateAt(tab.parts, u) = L[LinkAt(L, u)].hprice
    BY <2>4, RateOfLink
  <2>6. LinkAt(L, u) = LinkOf(L, t)
    BY DEF InWeek, LinkOf
  <2>7. f[k] = RateAt(tab.parts, u) /\ g[k] = L[LinkOf(L, t)].hprice
    BY DEF t
  <2> QED
    BY <2>5, <2>6, <2>7
<1> HIDE DEF f, g
<1>3. Total(f, K) = Total(g, K)
  BY <1>2, TotalSame
<1>4. Rates(tab.parts, s, K) = Grain * Total(f, K)
  BY DEF Rates, f
<1>5. RatesFrom(L, s, Grain, K) = Total(g, K)
  BY DEF RatesFrom, g
<1> QED
  BY <1>3, <1>4, <1>5

\* An empty interval costs a second of the link it falls to.
LEMMA EmptyPrice ==
  ASSUME NEW tab \in Tables, NEW s \in Nat, s < WeekSeconds
  PROVE  LET price == PerMinute(List(tab), s, s)
             rate == RateAt(tab.parts, s)
         IN  /\ price \in Nat /\ rate \in Nat
             /\ 3600 * price <= rate /\ rate < 3600 * (price + 1)
<1> DEFINE L == List(tab)
           h == L[LinkOf(L, s)].hprice
<1>1. WeekList(L)
  BY LinksOfParts
<1>2. s < StopAt(L, s) /\ StopAt(L, s) \in Nat
  BY <1>1, StopAfter
<1>3. AtLeastASecond(s, s) = s + 1
  BY DEF AtLeastASecond
<1>4. PerMinute(L, s, s) = Fee(L, s, s)
  <2>1. AtLeastASecond(s, s) <= StopAt(L, s)
    BY <1>2, <1>3
  <2> QED
    BY <1>1, <2>1, PerMinuteStep
<1>5. 1 \in Nat /\ s = s
  OBVIOUS
<1>6. FeeFor(L, s, s, 1)
  BY <1>1, <1>5, FeeBounds
<1>7. h \in Nat /\ Fee(L, s, s) \in Nat /\ 3600 * Fee(L, s, s) <= h * 1
      /\ h * 1 < 3600 * (Fee(L, s, s) + 1)
  BY <1>6 DEF FeeFor
<1>8. RateAt(tab.parts, s) = h
  <2>1. s % WeekSeconds = s
    BY Weeks
  <2> QED
    BY <2>1, RateOfLink DEF LinkOf
<1> HIDE DEF h, L
<1> QED
  BY <1>4, <1>7, <1>8 DEF L

\* The price per minute of an interval is that of the rates of its seconds.
LEMMA IntervalAsRates ==
  ASSUME NEW tab \in Tables, NEW ival \in Interval
  PROVE  LET s == InWeek(ival.stime)
             secs == Secs(ival)
             exact == Rates(tab.parts, s, secs \div Grain)
             price == PerMinute(List(tab), s, s + secs)
         IN  /\ 3600 * price <= exact
             /\ exact < 3600 * (price + Crossed(List(tab), s, s + secs) + 1)
<1> DEFINE s == InWeek(ival.stime)
           secs == Secs(ival)
           K == secs \div Grain
           L == List(tab)
<1>1. Grain \in Nat \ {0} /\ 60 % Grain = 0
  BY SessionAssumption
<1>2. /\ ival.stime \in Nat /\ ival.etime \in Nat /\ ival.stime <= ival.etime
      /\ ival.stime % Grain = 0 /\ ival.etime % Grain = 0
  BY DEF Interval
<1>3. s \in Nat /\ s % Grain = 0 /\ s < WeekSeconds
  BY <1>2, WeekOfGrains
<1>4. secs \in Nat /\ secs % Grain = 0
  BY <1>1, <1>2, MultiplesAdd DEF Secs
<1> HIDE DEF s, secs
<1>5. K \in Nat /\ secs = Grain * K
  BY <1>1, <1>4, Divided
<1> HIDE DEF K
<1>6. WeekList(L)
  BY LinksOfParts
<1>7. CASE K = 0
  <2>1. secs = 0 /\ s + secs = s
    BY <1>1, <1>3, <1>5, <1>7
  <2>2. Rates(tab.parts, s, K) = RateAt(tab.parts, s)
    <3>1. InWeek(s) = s
      BY <1>3, Weeks DEF InWeek
    <3> QED
      BY <1>7, <3>1 DEF Rates
  <2>3. Crossed(L, s, s) \in Nat
    BY <1>3, CrossedCounts
  <2>4. /\ PerMinute(L, s, s) \in Nat /\ RateAt(tab.parts, s) \in Nat
        /\ 3600 * PerMinute(L, s, s) <= RateAt(tab.parts, s)
        /\ RateAt(tab.parts, s) < 3600 * (PerMinute(L, s, s) + 1)
    BY <1>3, EmptyPrice
  <2>5. RateAt(tab.parts, s) < 3600 * (PerMinute(L, s, s) + Crossed(L, s, s) + 1)
    BY <2>3, <2>4
  <2> QED
    BY <2>1, <2>2, <2>4, <2>5 DEF K, s, secs, L
<1>8. CASE K # 0
  <2>1. K \in Nat \ {0}
    BY <1>5, <1>8
  <2>2. Bounded(L, s, Grain, K)
    BY <1>1, <1>3, <1>6, <2>1, PerMinuteBounds
  <2>3. Rates(tab.parts, s, K) = Grain * RatesFrom(L, s, Grain, K)
    BY <1>3, <2>1, RatesOfLinks
  <2>4. s + K * Grain = s + secs
    BY <1>1, <1>5
  <2> QED
    BY <2>2, <2>3, <2>4 DEF Bounded, K, s, secs, L
<1> QED
  BY <1>7, <1>8

\* Whatever the intervals of a session, each is priced as its rates say.
LEMMA AsRates == SessionInv => PerMinuteAsRates
<1> SUFFICES ASSUME SessionInv, NEW n \in 1 .. Len(intervals)
             PROVE  LET s == InWeek(intervals[n].stime)
                        secs == Secs(intervals[n])
                        exact == Rates(tariff.parts, s, secs \div Grain)
                        price == PerMinute(List(tariff), s, s + secs)
                    IN  /\ 3600 * price <= exact
                        /\ exact < 3600 * (price + CrossedBy(intervals[n]) + 1)
  BY DEF PerMinuteAsRates
<1>1. intervals[n] \in Interval /\ tariff \in Tables
  BY DEF SessionInv
<1> QED
  BY <1>1, IntervalAsRates DEF CrossedBy

\* The invariant of the session
LEMMA SessionSound == SessionSpec => []SessionInv
<1>1. SessionInit => SessionInv
  BY SessionInvInit
<1>2. SessionInv /\ [SessionNext]_sessionVars => SessionInv'
  BY SessionInvNext
<1> QED
  BY <1>1, <1>2, PTL DEF SessionSpec

\* For every tariff, every week, every grain of time and any number of pauses:
\* an interval charged per minute costs the sum over its seconds of the rates
\* the rows of the tariff give, but for rounding down once per boundary crossed
\* (_tarif_rebuild with _CCL_tarif_realcalc).
THEOREM PricedAsRates == SessionSpec => []PerMinuteAsRates
<1>1. SessionInv => PerMinuteAsRates
  BY AsRates
<1> QED
  BY <1>1, SessionSound, PTL

-----------------------------------------------------------------------------
(* The table of prices *)

\* The rows of a table of prices, which has an end
TableEnds(rows) == \E N \in Nat : rows \subseteq [mins : 0 .. N, price : Nat]

\* The minutes the table, or the first hour, says the price of
Top(rows) == IF 60 > LastMins(rows) THEN 60 ELSE LastMins(rows)

Exact(rows, m) == {row \in rows : row.mins = m}
Above(rows, m) == {row \in rows : row.mins > m}
Least(S) == CHOOSE row \in S : \A other \in S : row.mins <= other.mins

Within(rows, m) == Exact(rows, m) # {} \/ m < LastMins(rows) \/ m <= 60

\* What they cost
OneRow(rows, h, m) ==
  IF Exact(rows, m) # {} THEN Least(Exact(rows, m)).price
  ELSE IF m < LastMins(rows) THEN Least(Above(rows, m)).price
  ELSE h

\* The longest row is one of the rows, unless there are none.
LEMMA LastRow ==
  ASSUME NEW rows, TableEnds(rows)
  PROVE  /\ LastMins(rows) \in Nat
         /\ \A row \in rows : /\ row.mins \in Nat /\ row.price \in Nat
                              /\ row.mins <= LastMins(rows)
         /\ rows # {} => \E row \in rows : row.mins = LastMins(rows)
<1>1. PICK N \in Nat : rows \subseteq [mins : 0 .. N, price : Nat]
  BY DEF TableEnds
<1> DEFINE S == {row.mins : row \in rows}
<1>2. S \in SUBSET (0 .. N)
  BY <1>1
<1>3. /\ Largest(S) \in Nat
      /\ S # {} => Largest(S) \in S /\ \A y \in S : Largest(S) >= y
  BY <1>2, LargestIn
<1>4. LastMins(rows) = Largest(S)
  BY DEF LastMins
<1>5. \A row \in rows : row.mins \in S /\ row.mins \in Nat /\ row.price \in Nat
  BY <1>1
<1>6. rows # {} => S # {}
  OBVIOUS
<1>7. \A y \in S : \E row \in rows : row.mins = y
  OBVIOUS
<1> HIDE DEF S
<1> QED
  BY <1>3, <1>4, <1>5, <1>6, <1>7

\* The recursion stops exactly at the minutes the table says the price of.
LEMMA TopCovers ==
  ASSUME NEW rows, TableEnds(rows)
  PROVE  /\ Top(rows) \in Nat /\ Top(rows) >= 60
         /\ \A m \in Nat : Within(rows, m) <=> m <= Top(rows)
<1>1. Top(rows) \in Nat /\ Top(rows) >= 60 /\ Top(rows) >= LastMins(rows)
      /\ (Top(rows) = 60 \/ (Top(rows) = LastMins(rows) /\ rows # {}))
  <2>1. rows = {} => LastMins(rows) = 0
    BY DEF LastMins, Largest
  <2> QED
    BY <2>1, LastRow DEF Top
<1>2. ASSUME NEW m \in Nat, Within(rows, m) PROVE m <= Top(rows)
  <2>1. Exact(rows, m) # {} => m <= LastMins(rows)
    BY LastRow DEF Exact
  <2> QED
    BY <1>1, <1>2, <2>1, LastRow DEF Within
<1>3. ASSUME NEW m \in Nat, m <= Top(rows) PROVE Within(rows, m)
  <2>1. CASE Top(rows) = 60
    BY <1>3, <2>1 DEF Within
  <2>2. CASE Top(rows) = LastMins(rows) /\ rows # {}
    <3>1. m < LastMins(rows) \/ m = LastMins(rows)
      BY <1>3, <2>2, LastRow
    <3>2. m = LastMins(rows) => Exact(rows, m) # {}
      BY <2>2, LastRow DEF Exact
    <3> QED
      BY <3>1, <3>2 DEF Within
  <2> QED
    BY <1>1, <2>1, <2>2
<1> QED
  BY <1>1, <1>2, <1>3

\* What a table costs: its rows, and what exceeds them as time of its own
LEMMA PriceGetStep ==
  ASSUME NEW rows, TableEnds(rows), NEW h, NEW m \in Nat
  PROVE  PriceGet(rows, h, m) =
           IF Within(rows, m) THEN OneRow(rows, h, m)
           ELSE PriceGet(rows, h, Top(rows)) + PriceGet(rows, h, m - Top(rows))
<1> DEFINE top == Top(rows)
           one(k) == OneRow(rows, h, k)
           body(f, k) == IF Within(rows, k) THEN one(k) ELSE f[top] + f[k - top]
           cost == CHOOSE f : f = [k \in Nat |-> body(f, k)]
           B == {k \in Nat : Within(rows, k)}
           mu == [k \in Nat |-> k]
           v == [k \in Nat |-> one(k)]
           w == [k \in Nat |-> one(top)]
           nx == [k \in Nat |-> IF k \in B THEN k ELSE k - top]
<1>1. /\ top \in Nat /\ top >= 60 /\ Within(rows, top)
      /\ \A k \in Nat : ~Within(rows, k) => k > top
  BY TopCovers
<1>2. \E f : f = [k \in Nat |-> IF k \in B THEN v[k] ELSE w[k] + f[nx[k]]]
  <2>1. mu \in [Nat -> Nat] /\ nx \in [Nat -> Nat]
    BY <1>1
  <2>2. ASSUME NEW k \in Nat, k \notin B PROVE mu[nx[k]] < mu[k]
    BY <1>1, <2>2
  <2> HIDE DEF mu, v, w, nx, B
  <2>3. Defined(Nat, B, v, w, nx)
    BY <2>1, <2>2, Recursion
  <2> QED
    BY <2>3 DEF Defined
<1>3. PICK f : f = [k \in Nat |-> IF k \in B THEN v[k] ELSE w[k] + f[nx[k]]]
  BY <1>2
<1>4. f[top] = one(top)
  <2>1. top \in B /\ v[top] = one(top) /\ top \in Nat
    BY <1>1
  <2> HIDE DEF B, v, w, nx, one, top
  <2> QED
    BY <1>3, <2>1
<1>5. ASSUME NEW k \in Nat
      PROVE  (IF k \in B THEN v[k] ELSE w[k] + f[nx[k]]) = body(f, k)
  BY <1>4
<1> HIDE DEF B, v, w, nx
<1>6. cost = [k \in Nat |-> body(cost, k)]
  <2>1. f = [k \in Nat |-> body(f, k)]
    <3>1. \A k \in Nat : (IF k \in B THEN v[k] ELSE w[k] + f[nx[k]]) = body(f, k)
      BY <1>5
    <3> HIDE DEF body
    <3> QED
      BY <1>3, <3>1
  <2> QED
    BY <2>1
<1>7. \A k \in Nat : PriceGet(rows, h, k) = cost[k]
  <2>1. ASSUME NEW g, NEW k \in Nat
        PROVE  body(g, k) =
                 IF Exact(rows, k) # {} THEN Least(Exact(rows, k)).price
                 ELSE IF k < LastMins(rows) THEN Least(Above(rows, k)).price
                 ELSE IF k <= 60 THEN h
                 ELSE g[top] + g[k - top]
    BY DEF Within, OneRow
  <2> DEFINE other(g, k) ==
                 IF Exact(rows, k) # {} THEN Least(Exact(rows, k)).price
                 ELSE IF k < LastMins(rows) THEN Least(Above(rows, k)).price
                 ELSE IF k <= 60 THEN h
                 ELSE g[top] + g[k - top]
  <2>2. cost = CHOOSE g : g = [k \in Nat |-> other(g, k)]
    <3>1. \A g : [k \in Nat |-> body(g, k)] = [k \in Nat |-> other(g, k)]
      BY <2>1
    <3> HIDE DEF body, other
    <3>2. \A g : (g = [k \in Nat |-> body(g, k)]) <=> (g = [k \in Nat |-> other(g, k)])
      BY <3>1
    <3> QED
      BY <3>2
  <2> HIDE DEF cost
  <2> QED
    BY <2>2 DEF PriceGet, Exact, Above, Least, Top
<1> HIDE DEF cost
<1>8. PriceGet(rows, h, m) = body(cost, m)
  BY <1>6, <1>7
<1>9. m \notin B => m - top \in Nat
  BY <1>1 DEF B
<1> QED
  BY <1>1, <1>7, <1>8, <1>9 DEF B

\* Row is the first one for so many minutes.
FirstFor(rows, m, row) ==
  /\ row \in rows /\ row.mins >= m
  /\ \A other \in rows : other.mins >= m => row.mins <= other.mins

\* Some rows have a shortest.
LEMMA LeastRow ==
  ASSUME NEW rows, TableEnds(rows), NEW S \in SUBSET rows, S # {}
  PROVE  Least(S) \in S /\ \A other \in S : Least(S).mins <= other.mins
<1>1. \A row \in rows : row.mins \in Nat
  BY LastRow
<1> DEFINE M == {row.mins : row \in S}
<1>2. M \in SUBSET Nat /\ M # {}
  BY <1>1
<1>3. PICK n \in M : \A k \in M : n <= k
  <2> HIDE DEF M
  <2> QED
    BY <1>2, SmallestIn
<1>4. PICK row \in S : row.mins = n
  BY <1>3
<1>5. \A other \in S : row.mins <= other.mins
  BY <1>3, <1>4
<1> QED
  BY <1>4, <1>5 DEF Least

\* The price is that of the first row for so many minutes, or, past the
\* table, the price of an hour.
LEMMA OneRowIs ==
  ASSUME NEW rows, TableEnds(rows), NEW h, NEW m \in Nat, Within(rows, m)
  PROVE  \/ \E row \in rows : FirstFor(rows, m, row) /\ OneRow(rows, h, m) = row.price
         \/ m <= 60 /\ OneRow(rows, h, m) = h /\ \A row \in rows : row.mins < m
<1>1. LastMins(rows) \in Nat /\ \A row \in rows : row.mins \in Nat
  BY LastRow
<1>2. CASE Exact(rows, m) # {}
  <2>1. Exact(rows, m) \in SUBSET rows
    BY DEF Exact
  <2>2. Least(Exact(rows, m)) \in Exact(rows, m)
    BY <1>2, <2>1, LeastRow
  <2>3. FirstFor(rows, m, Least(Exact(rows, m)))
    BY <1>1, <2>2 DEF FirstFor, Exact
  <2> QED
    BY <1>2, <2>3 DEF OneRow, FirstFor
<1>3. CASE Exact(rows, m) = {} /\ m < LastMins(rows)
  <2>1. Above(rows, m) \in SUBSET rows
    BY DEF Above
  <2>2. Above(rows, m) # {}
    <3>1. rows # {}
      BY <1>1, <1>3 DEF LastMins, Largest
    <3> QED
      BY <1>3, <3>1, LastRow DEF Above
  <2>3. /\ Least(Above(rows, m)) \in Above(rows, m)
        /\ \A other \in Above(rows, m) : Least(Above(rows, m)).mins <= other.mins
    BY <2>1, <2>2, LeastRow
  <2>4. \A other \in rows : other.mins >= m => other \in Above(rows, m)
    BY <1>1, <1>3 DEF Above, Exact
  <2>5. FirstFor(rows, m, Least(Above(rows, m)))
    BY <1>1, <2>3, <2>4 DEF FirstFor, Above
  <2> QED
    BY <1>3, <2>5 DEF OneRow, FirstFor
<1>4. CASE Exact(rows, m) = {} /\ ~(m < LastMins(rows))
  <2>1. OneRow(rows, h, m) = h
    BY <1>4 DEF OneRow
  <2>2. m <= 60
    BY <1>4 DEF Within
  <2>3. \A row \in rows : row.mins < m
    <3> SUFFICES ASSUME NEW row \in rows PROVE row.mins < m
      OBVIOUS
    <3>1. row.mins <= LastMins(rows) /\ row.mins # m
      BY <1>4, LastRow DEF Exact
    <3> QED
      BY <1>1, <1>4, <3>1
  <2> QED
    BY <2>1, <2>2, <2>3
<1> QED
  BY <1>2, <1>3, <1>4

\* The prices of a table rise with the minutes, and those for less than an
\* hour do not exceed the price of an hour.
Rising(rows, h) ==
  /\ TableEnds(rows) /\ h \in Nat
  /\ \A a, b \in rows : a.mins <= b.mins => a.price <= b.price
  /\ LastMins(rows) < 60 => \A row \in rows : row.price <= h

\* Within the table, prices rise with the minutes.
LEMMA OneRowRises ==
  ASSUME NEW rows, NEW h, Rising(rows, h), NEW a \in Nat, NEW b \in Nat, a <= b,
         Within(rows, a), Within(rows, b)
  PROVE  /\ OneRow(rows, h, a) \in Nat /\ OneRow(rows, h, b) \in Nat
         /\ OneRow(rows, h, a) <= OneRow(rows, h, b)
<1>1. TableEnds(rows) /\ h \in Nat
  BY DEF Rising
<1>2. /\ LastMins(rows) \in Nat
      /\ \A row \in rows : row.mins \in Nat /\ row.price \in Nat /\ row.mins <= LastMins(rows)
      /\ rows # {} => \E row \in rows : row.mins = LastMins(rows)
  BY <1>1, LastRow
<1> DEFINE Past(m) == m <= 60 /\ OneRow(rows, h, m) = h /\ \A row \in rows : row.mins < m
<1>3. (\E row \in rows : FirstFor(rows, a, row) /\ OneRow(rows, h, a) = row.price) \/ Past(a)
  BY <1>1, OneRowIs
<1>4. (\E row \in rows : FirstFor(rows, b, row) /\ OneRow(rows, h, b) = row.price) \/ Past(b)
  BY <1>1, OneRowIs
<1>5. CASE \E row \in rows : FirstFor(rows, b, row) /\ OneRow(rows, h, b) = row.price
  <2>1. PICK y \in rows : FirstFor(rows, b, y) /\ OneRow(rows, h, b) = y.price
    BY <1>5
  <2>2. y.mins >= b /\ y.mins >= a
    BY <1>2, <2>1 DEF FirstFor
  <2>3. ~Past(a)
    BY <1>2, <2>2
  <2>4. PICK x \in rows : FirstFor(rows, a, x) /\ OneRow(rows, h, a) = x.price
    BY <1>3, <2>3
  <2>5. x.mins <= y.mins
    BY <2>2, <2>4 DEF FirstFor
  <2> QED
    BY <1>2, <2>1, <2>4, <2>5 DEF Rising
<1>6. CASE Past(b)
  <2>1. ASSUME NEW row \in rows PROVE row.price <= h
    <3>1. LastMins(rows) < 60
      <4>1. PICK r \in rows : r.mins = LastMins(rows)
        BY <1>2
      <4>2. r.mins < b /\ b <= 60
        BY <1>6
      <4> QED
        BY <1>2, <4>1, <4>2
    <3> QED
      BY <3>1 DEF Rising
  <2>2. CASE Past(a)
    BY <1>1, <1>6, <2>2
  <2>3. CASE \E row \in rows : FirstFor(rows, a, row) /\ OneRow(rows, h, a) = row.price
    BY <1>1, <1>2, <1>6, <2>1, <2>3
  <2> QED
    BY <1>3, <2>2, <2>3
<1> QED
  BY <1>4, <1>5, <1>6

\* More minutes never cost less.
LEMMA PriceRises ==
  ASSUME NEW rows, NEW h, Rising(rows, h), NEW a \in Nat, NEW b \in Nat, a <= b
  PROVE  /\ PriceGet(rows, h, a) \in Nat /\ PriceGet(rows, h, b) \in Nat
         /\ PriceGet(rows, h, a) <= PriceGet(rows, h, b)
<1> DEFINE P(m) == PriceGet(rows, h, m)
           top == Top(rows)
           Risen(x, y) == P(x) \in Nat /\ P(y) \in Nat /\ P(x) <= P(y)
           S == {n \in Nat : \A y \in 0 .. n : \A x \in 0 .. y : Risen(x, y)}
<1>1. TableEnds(rows)
  BY DEF Rising
<1>2. top \in Nat /\ top >= 60 /\ \A m \in Nat : Within(rows, m) <=> m <= top
  BY <1>1, TopCovers
<1>3. \A m \in Nat : P(m) = IF Within(rows, m) THEN OneRow(rows, h, m)
                            ELSE P(top) + P(m - top)
  BY <1>1, PriceGetStep
<1>4. ASSUME NEW x \in Nat, NEW y \in Nat, x <= y, y <= top PROVE Risen(x, y)
  <2>1. Within(rows, x) /\ Within(rows, y)
    BY <1>2, <1>4
  <2>2. /\ OneRow(rows, h, x) \in Nat /\ OneRow(rows, h, y) \in Nat
        /\ OneRow(rows, h, x) <= OneRow(rows, h, y)
    BY <1>4, <2>1, OneRowRises
  <2>3. P(x) = OneRow(rows, h, x) /\ P(y) = OneRow(rows, h, y)
    BY <1>3, <2>1
  <2> QED
    BY <2>2, <2>3
<1>5. \A m \in Nat : m > top => P(m) = P(top) + P(m - top)
  BY <1>2, <1>3
<1> HIDE DEF P, top
<1>6. P(top) \in Nat
  BY <1>2, <1>4
<1>7. 0 \in S
  <2>1. Risen(0, 0)
    BY <1>2, <1>4
  <2> QED
    BY <2>1
<1>8. ASSUME NEW n \in Nat, n \in S PROVE n + 1 \in S
  <2>1. ASSUME NEW x \in 0 .. n + 1 PROVE Risen(x, n + 1)
    <3> DEFINE y == n + 1
    <3>1. CASE y <= top
      BY <1>4, <3>1
    <3>2. CASE y > top /\ x <= top
      <4>1. Risen(x, top)
        BY <1>2, <1>4, <3>2
      <4>2. y - top \in 0 .. n /\ y - top \in 0 .. y - top
        BY <1>2, <3>2
      <4>3. P(y - top) \in Nat
        BY <1>8, <4>2
      <4>4. P(y) = P(top) + P(y - top)
        BY <1>5, <3>2
      <4> QED
        BY <1>6, <4>1, <4>3, <4>4
    <3>3. CASE y > top /\ x > top
      <4>1. y - top \in 0 .. n /\ x - top \in 0 .. y - top
        BY <1>2, <3>3
      <4>2. Risen(x - top, y - top)
        BY <1>8, <4>1
      <4>3. P(y) = P(top) + P(y - top) /\ P(x) = P(top) + P(x - top)
        BY <1>5, <3>3
      <4> QED
        BY <1>6, <4>2, <4>3
    <3>4. y \in Nat /\ x \in Nat
      OBVIOUS
    <3> HIDE DEF y
    <3>5. y <= top \/ (y > top /\ x <= top) \/ (y > top /\ x > top)
      BY <1>2, <3>4
    <3> QED
      BY <3>1, <3>2, <3>3, <3>5
  <2> HIDE DEF Risen
  <2>2. \A y \in 0 .. n + 1 : y \in 0 .. n \/ y = n + 1
    OBVIOUS
  <2> QED
    BY <1>8, <2>1, <2>2
<1>9. b \in S
  <2> HIDE DEF S
  <2> QED
    BY <1>7, <1>8, Induct
<1> QED
  BY <1>9 DEF P

-----------------------------------------------------------------------------
(* The price of an interval under a tariff of one part *)

\* The minutes of the rows are finitely many, the rows of a part end.
LEMMA RowsEnd ==
  ASSUME NEW tab \in Tables
  PROVE  /\ TableEnds(RowsOf(tab.prices, 1))
         /\ \A r \in DOMAIN tab.prices : tab.prices[r].mins \in Nat
<1> DEFINE pr == tab.prices
           M == {pr[r].mins : r \in DOMAIN pr}
           F == [r \in DOMAIN pr |-> pr[r].mins]
<1>1. IsFiniteSet(DOMAIN pr) /\ \A r \in DOMAIN pr : pr[r] \in Price
  BY SessionAssumption
<1>2. \A r \in DOMAIN pr : pr[r].mins \in Nat /\ pr[r].price \in Nat
  BY <1>1 DEF Price
<1>3. IsFiniteSet(M)
  <2>1. F \in Surjection(DOMAIN pr, M)
    BY DEF Surjection
  <2> QED
    BY <1>1, <2>1, FS_Surjection
<1>4. M \subseteq Nat
  BY <1>2
<1>5. PICK N \in Nat : M \subseteq 0 .. N
  <2> HIDE DEF M
  <2> QED
    BY <1>3, <1>4, BoundedNats
<1>6. RowsOf(pr, 1) \subseteq [mins : 0 .. N, price : Nat]
  BY <1>2, <1>5 DEF RowsOf
<1> QED
  BY <1>2, <1>6 DEF TableEnds

\* The nearest row is not before the minutes asked for, and not further for
\* fewer minutes.
LEMMA NearestRow ==
  ASSUME NEW pr, \A r \in DOMAIN pr : pr[r].mins \in Nat /\ pr[r].mins > 0,
         NEW pma \in Nat, NEW m \in Nat, NEW k \in Nat, m <= k, k < pma
  PROVE  /\ Nearest(pr, pma, m) \in Nat \ {0} /\ Nearest(pr, pma, m) >= m
         /\ Nearest(pr, pma, k) \in Nat \ {0}
         /\ Nearest(pr, pma, m) <= Nearest(pr, pma, k)
<1> DEFINE more == {pr[r].mins : r \in DOMAIN pr}
           reach(x) == {y \in more : y >= x}
           first(x) == CHOOSE y \in reach(x) : \A z \in reach(x) : y <= z
           near(x) == Nearest(pr, pma, x)
<1>1. more \subseteq Nat /\ \A y \in more : y > 0
  OBVIOUS
<1>2. \A x \in Nat : x < pma =>
        near(x) = LET one == IF reach(x) = {} THEN 0 ELSE first(x)
                  IN  IF one = 0 THEN pma ELSE one
  BY DEF Nearest
<1> HIDE DEF more, near
<1>3. ASSUME NEW x \in Nat, reach(x) # {}
      PROVE  first(x) \in reach(x) /\ \A z \in reach(x) : first(x) <= z
  <2> DEFINE S == reach(x)
  <2>1. S \in SUBSET Nat
    BY <1>1
  <2>2. \E y \in S : \A z \in S : y <= z
    <3> HIDE DEF S
    <3>1. S # {}
      BY <1>3 DEF S
    <3> QED
      BY <2>1, <3>1, SmallestIn
  <2> QED
    BY <2>2
<1>7. /\ \A x \in Nat : \A y \in reach(x) : y \in Nat \ {0} /\ y >= x
      /\ \A y \in reach(k) : y \in reach(m)
      /\ \A y \in reach(m) : y \in reach(k) \/ y < k
  BY <1>1
<1> HIDE DEF reach, first
<1>4. ASSUME NEW x \in Nat, x < pma
      PROVE  /\ near(x) \in Nat \ {0} /\ near(x) >= x
             /\ reach(x) # {} => near(x) \in reach(x) /\ \A z \in reach(x) : near(x) <= z
             /\ reach(x) = {} => near(x) = pma
  <2>1. CASE reach(x) = {}
    <3>1. near(x) = pma
      BY <1>2, <1>4, <2>1
    <3> QED
      BY <1>4, <2>1, <3>1
  <2>2. CASE reach(x) # {}
    <3>1. first(x) \in reach(x) /\ \A z \in reach(x) : first(x) <= z
      BY <1>3, <2>2
    <3>2. first(x) \in Nat \ {0} /\ first(x) >= x
      BY <1>7, <3>1
    <3>3. near(x) = first(x)
      BY <1>2, <1>4, <2>2, <3>2
    <3> QED
      BY <2>2, <3>1, <3>2, <3>3
  <2> QED
    BY <2>1, <2>2
<1>5. m < pma
  OBVIOUS
<1>6. near(m) <= near(k)
  <2>1. CASE reach(k) # {}
    <3>1. near(k) \in reach(k)
      BY <1>4, <2>1
    <3>2. near(k) \in reach(m)
      BY <1>7, <3>1
    <3> QED
      BY <1>4, <1>5, <3>2
  <2>2. CASE reach(k) = {} /\ reach(m) # {}
    <3>1. near(m) \in reach(m) /\ near(m) \notin reach(k)
      BY <1>4, <1>5, <2>2
    <3>2. near(m) < k
      BY <1>7, <3>1
    <3>3. near(k) = pma
      BY <1>4, <2>2
    <3>4. near(m) \in Nat
      BY <1>4, <1>5
    <3> QED
      BY <3>2, <3>3, <3>4
  <2>3. CASE reach(k) = {} /\ reach(m) = {}
    BY <1>4, <1>5, <2>3
  <2> QED
    BY <2>1, <2>2, <2>3
<1> QED
  BY <1>4, <1>5, <1>6 DEF near

\* Under a tariff of one part every link asks for the price of that part.
LEMMA OnePart ==
  ASSUME NEW tab \in Tables, DOMAIN tab.parts = {1}
  PROVE  /\ WeekList(List(tab)) /\ tab.parts[1].hourprice \in Nat
         /\ \A n \in 1 .. Len(List(tab)) : /\ List(tab)[n].id = 1
                                           /\ List(tab)[n].hprice = tab.parts[1].hourprice
<1>1. tab.parts[1] \in Part
  BY TableSound
<1> QED
  BY <1>1, LinksOfParts DEF Part

\* The time an interval is charged for
Duration(secs) == AtLeastASecond(0, secs)

\* At one price per hour, an interval costs what its time costs.
Measured(L, h, s, secs) ==
  LET price == PerMinute(L, s, s + secs)
      cross == Crossed(L, s, s + secs)
  IN  /\ price \in Nat /\ cross \in Nat
      /\ 3600 * price <= h * Duration(secs)
      /\ h * Duration(secs) < 3600 * (price + cross + 1)

\* Seconds at one rate, however many boundaries cut the interval
LEMMA OnePartPerMinute ==
  ASSUME NEW tab \in Tables, DOMAIN tab.parts = {1}, NEW s \in Nat, NEW secs \in Nat
  PROVE  Measured(List(tab), tab.parts[1].hourprice, s, secs)
<1> DEFINE L == List(tab)
           h == tab.parts[1].hourprice
<1>1. WeekList(L) /\ h \in Nat /\ \A n \in 1 .. Len(L) : L[n].hprice = h
  BY OnePart
<1> HIDE DEF L, h
<1>2. \A t \in Nat : L[LinkOf(L, t)].hprice = h
  BY <1>1, StopAfter
<1>3. Crossed(L, s, s + secs) \in Nat
  BY CrossedCounts
<1>4. CASE secs = 0
  <2>1. s + secs = s /\ Duration(secs) = 1 /\ h * 1 = h
    BY <1>1, <1>4 DEF Duration, AtLeastASecond
  <2>2. s < StopAt(L, s) /\ StopAt(L, s) \in Nat
    BY <1>1, StopAfter
  <2>3. AtLeastASecond(s, s) <= StopAt(L, s)
    BY <2>2 DEF AtLeastASecond
  <2>4. PerMinute(L, s, s) = Fee(L, s, s)
    BY <1>1, <2>3, PerMinuteStep
  <2>5. FeeFor(L, s, s, 1)
    <3>1. 1 \in Nat /\ s = s
      OBVIOUS
    <3> QED
      BY <1>1, <3>1, FeeBounds
  <2>6. /\ Fee(L, s, s) \in Nat /\ 3600 * Fee(L, s, s) <= h * 1
        /\ h * 1 < 3600 * (Fee(L, s, s) + 1)
    BY <1>2, <2>5 DEF FeeFor
  <2>7. /\ PerMinute(L, s, s + secs) \in Nat
        /\ 3600 * PerMinute(L, s, s + secs) <= h
        /\ h < 3600 * (PerMinute(L, s, s + secs) + 1)
    BY <2>1, <2>4, <2>6
  <2> QED
    BY <1>1, <1>3, <2>1, <2>7 DEF Measured, L, h
<1>5. CASE secs # 0
  <2>1. secs \in Nat \ {0} /\ 1 \in Nat \ {0} /\ 60 % 1 = 0 /\ s % 1 = 0
    BY <1>5
  <2>2. Bounded(L, s, 1, secs)
    BY <1>1, <2>1, PerMinuteBounds
  <2>3. RatesFrom(L, s, 1, secs) = secs * h
    <3> DEFINE f == [k \in 1 .. secs |-> L[LinkOf(L, s + (k - 1) * 1)].hprice]
    <3>1. ASSUME NEW k \in 1 .. secs PROVE f[k] = h
      <4>1. s + (k - 1) * 1 \in Nat
        OBVIOUS
      <4> QED
        BY <1>2, <4>1
    <3> HIDE DEF f
    <3>2. Total(f, secs) = secs * h
      BY <1>1, <3>1, TotalConst
    <3> QED
      BY <3>2 DEF RatesFrom, f
  <2>4. s + secs * 1 = s + secs /\ Duration(secs) = secs
        /\ 1 * RatesFrom(L, s, 1, secs) = h * secs
    <3>1. secs * h = h * secs /\ h * secs \in Nat
      BY <1>1
    <3> QED
      BY <1>5, <2>3, <3>1 DEF Duration, AtLeastASecond
  <2> QED
    BY <1>1, <1>3, <2>2, <2>4 DEF Bounded, Measured, L, h
<1> QED
  BY <1>4, <1>5

\* What the table of a tariff of one part says for so many minutes
TablePrice(tab, mins) == PriceGet(RowsOf(tab.prices, 1), tab.parts[1].hourprice, mins)

NearestPrice(tab, mins) == TablePrice(tab, Nearest(tab.prices, tab.perminafter, mins))

\* What the table takes for an interval
TableCost(tab, s, secs) ==
  ByTable(tab.parts, tab.prices, tab.perminafter, List(tab), s, s + secs)

\* The two shares of an interval that crosses a boundary are one price again.
LEMMA SharesJoin ==
  ASSUME NEW p \in Nat, NEW whole \in Nat \ {0}, NEW a \in Int, NEW b \in Int, a + b = whole
  PROVE  (p * a + p * b) \div whole = p
<1>1. p * a + p * b = whole * p + 0
  <2>1. p * a + p * b = p * (a + b)
    OBVIOUS
  <2>2. p * (a + b) = p * whole /\ p * whole = whole * p /\ whole * p \in Int
    OBVIOUS
  <2> QED
    BY <2>1, <2>2
<1>2. (whole * p + 0) \div whole = p
  <2>1. p \in Int /\ 0 \in Int /\ 0 <= 0 /\ 0 < whole
    OBVIOUS
  <2> QED
    BY <2>1, DividedOnly, Zenon
<1> QED
  BY <1>1, <1>2

\* Under a tariff that rises, more minutes by the table never cost less.
LEMMA RisingTable ==
  ASSUME NEW tab \in Tables, Rises(tab), NEW a \in Nat, NEW b \in Nat, a <= b
  PROVE  /\ TablePrice(tab, a) \in Nat /\ TablePrice(tab, b) \in Nat
         /\ TablePrice(tab, a) <= TablePrice(tab, b)
<1>1. DOMAIN tab.parts = {1}
  BY DEF Rises
<1>2. tab.parts[1].hourprice \in Nat
  BY <1>1, OnePart
<1>3. Rising(RowsOf(tab.prices, 1), tab.parts[1].hourprice)
  BY <1>2, RowsEnd DEF Rises, Rising
<1> QED
  BY <1>3, PriceRises DEF TablePrice

\* Nor does the nearest row, and it does not cost less than the minutes.
LEMMA NearestRises ==
  ASSUME NEW tab \in Tables, Rises(tab), NEW m \in Nat, NEW k \in Nat, m <= k,
         k < tab.perminafter
  PROVE  /\ Nearest(tab.prices, tab.perminafter, m) \in Nat \ {0}
         /\ TablePrice(tab, m) \in Nat /\ NearestPrice(tab, m) \in Nat
         /\ NearestPrice(tab, k) \in Nat
         /\ TablePrice(tab, m) <= NearestPrice(tab, m)
         /\ NearestPrice(tab, m) <= NearestPrice(tab, k)
<1> DEFINE x == Nearest(tab.prices, tab.perminafter, m)
           y == Nearest(tab.prices, tab.perminafter, k)
<1>1. \A r \in DOMAIN tab.prices : tab.prices[r].mins \in Nat /\ tab.prices[r].mins > 0
  BY RowsEnd DEF Rises
<1>2. tab.perminafter \in Nat
  BY SessionAssumption
<1>3. x \in Nat \ {0} /\ x >= m /\ y \in Nat \ {0} /\ x <= y
  BY <1>1, <1>2, NearestRow
<1> HIDE DEF x, y
<1>4. m <= x /\ x \in Nat /\ y \in Nat
  BY <1>3
<1>5. /\ TablePrice(tab, m) \in Nat /\ TablePrice(tab, x) \in Nat
      /\ TablePrice(tab, m) <= TablePrice(tab, x)
  BY <1>4, RisingTable
<1>6. TablePrice(tab, y) \in Nat /\ TablePrice(tab, x) <= TablePrice(tab, y)
  BY <1>3, <1>4, RisingTable
<1> QED
  BY <1>3, <1>5, <1>6 DEF NearestPrice, x, y

\* By the table an interval costs what the table says for its minutes, and
\* what it says for the nearest row where a boundary is crossed.
LEMMA OnePartByTable ==
  ASSUME NEW tab \in Tables, Rises(tab), NEW s \in Nat, s < WeekSeconds, NEW secs \in Nat,
         Duration(secs) \div 60 < tab.perminafter
  PROVE  \/ /\ s + Duration(secs) <= StopAt(List(tab), s)
            /\ TableCost(tab, s, secs) = TablePrice(tab, Duration(secs) \div 60)
         \/ /\ s + Duration(secs) > StopAt(List(tab), s)
            /\ TableCost(tab, s, secs) = NearestPrice(tab, Duration(secs) \div 60)
            /\ Crossed(List(tab), s, s + secs) >= 1
<1> DEFINE L == List(tab)
           D == Duration(secs)
           e == s + D
           n == LinkAt(L, s)
           other == IF n < Len(L) THEN n + 1 ELSE 1
           stop == EndOf(L, n)
           near == Nearest(tab.prices, tab.perminafter, D \div 60)
           whole == 60 * near
           price(k, t) == PartPrice(tab.parts, tab.prices, L[k].id, t \div 60)
<1>1. /\ WeekList(L) /\ DOMAIN tab.parts = {1}
      /\ \A k \in 1 .. Len(L) : L[k].id = 1
  BY OnePart DEF Rises
<1>2. L # <<>> /\ Len(L) \in Nat \ {0}
  BY <1>1, WeekListLinks
<1>3. D \in Nat \ {0} /\ (D = secs \/ (secs = 0 /\ D = 1)) /\ AtLeastASecond(s, s + secs) = e
  BY DEF Duration, AtLeastASecond
<1>4. n = LinkOf(L, s) /\ stop = StopAt(L, s)
  <2>1. s % WeekSeconds = s
    BY Weeks
  <2>2. n = LinkOf(L, s)
    BY <2>1 DEF LinkOf
  <2>3. EndOf(L, n) \in Int
    <3>1. n \in 1 .. Len(L)
      BY <1>1, <2>2, StopAfter
    <3> QED
      BY <1>1, <3>1, Weeks, WeekListLinks DEF EndOf
  <2> QED
    BY <2>1, <2>2, <2>3 DEF StopAt
<1>5. /\ n \in 1 .. Len(L) /\ stop \in Nat /\ s < stop
      /\ stop % 60 = 0 /\ Boundary(L, stop \div 60)
  <2>1. /\ LinkOf(L, s) \in 1 .. Len(L) /\ StopAt(L, s) \in Nat /\ s < StopAt(L, s)
        /\ StopAt(L, s) % 60 = 0 /\ Boundary(L, StopAt(L, s) \div 60)
    BY <1>1, StopAfter
  <2> HIDE DEF n, stop
  <2> QED
    BY <1>4, <2>1
<1>6. other \in 1 .. Len(L)
  BY <1>2, <1>5
<1>7. TableCost(tab, s, secs) =
        IF e <= stop THEN price(n, e - s)
        ELSE (price(n, whole) * (stop - s) + price(other, whole) * (s + whole - stop)) \div whole
  <2>1. TableCost(tab, s, secs) =
          LET x == AtLeastASecond(s, s + secs)
              w == 60 * Nearest(tab.prices, tab.perminafter, (x - s) \div 60)
          IN  IF x <= stop THEN price(n, x - s)
              ELSE (price(n, w) * (stop - s) + price(other, w) * (s + w - stop)) \div w
    BY <1>2 DEF TableCost, ByTable
  <2>2. e - s = D
    BY <1>3
  <2> HIDE DEF e, n, other, stop, price
  <2> QED
    BY <1>3, <2>1, <2>2
<1> HIDE DEF n, other, stop
<1>8. ASSUME NEW k \in 1 .. Len(L), NEW t \in Nat
      PROVE  price(k, t) = TablePrice(tab, t \div 60)
  BY <1>1 DEF PartPrice, TablePrice
<1>9. CASE e <= stop
  <2>1. e - s = D /\ D \in Nat
    BY <1>3
  <2>2. price(n, D) = TablePrice(tab, D \div 60)
    BY <1>5, <1>8, <2>1
  <2>3. TableCost(tab, s, secs) = TablePrice(tab, D \div 60)
    BY <1>7, <1>9, <2>1, <2>2
  <2> QED
    BY <1>4, <1>9, <2>3
<1>10. CASE e > stop
  <2>1. D \div 60 \in Nat /\ D \div 60 <= D \div 60
    BY <1>3
  <2>2. near \in Nat \ {0} /\ NearestPrice(tab, D \div 60) \in Nat
    BY <2>1, NearestRises
  <2> DEFINE p == NearestPrice(tab, D \div 60)
  <2>3. p = TablePrice(tab, near)
    BY DEF NearestPrice
  <2> HIDE DEF p, near, D
  <2>4. whole \in Nat \ {0} /\ whole \div 60 = near
    BY <2>2
  <2> HIDE DEF whole
  <2>5. price(n, whole) = p /\ price(other, whole) = p
    BY <1>5, <1>6, <1>8, <2>3, <2>4
  <2>6. (stop - s) + (s + whole - stop) = whole /\ stop - s \in Int /\ s + whole - stop \in Int
    BY <1>5, <2>4
  <2>7. p \in Nat
    BY <2>2 DEF p
  <2> HIDE DEF price
  <2>8. (p * (stop - s) + p * (s + whole - stop)) \div whole = p
    BY <2>4, <2>6, <2>7, SharesJoin
  <2>9. ~(e <= stop)
    BY <1>3, <1>5, <1>10 DEF D
  <2>10. TableCost(tab, s, secs) = p
    BY <1>7, <2>5, <2>8, <2>9
  <2>11. Crossed(L, s, s + secs) >= 1
    <3>1. s < stop /\ stop < s + secs /\ s + secs \in Nat
      BY <1>3, <1>5, <1>10 DEF D
    <3>2. /\ Crossed(L, s, s + secs) \in Nat /\ Crossed(L, stop, s + secs) \in Nat
          /\ Crossed(L, s, s + secs) >= Crossed(L, stop, s + secs) + 1
      BY <1>5, <3>1, CrossedMore
    <3> QED
      BY <3>2
  <2> QED
    BY <1>4, <1>10, <2>10, <2>11 DEF D, p
<1> QED
  BY <1>3, <1>5, <1>9, <1>10

-----------------------------------------------------------------------------
(* What a session costs *)

Stretch == {ival \in [stime : Nat, etime : Nat] : ival.stime <= ival.etime}

\* What an interval adds to the charge
Cost(tab, ival, time) ==
  LET s == InWeek(ival.stime)
  IN  IF PerMin(tab, time) THEN PerMinute(List(tab), s, s + Secs(ival))
      ELSE (TableCost(tab, s, Secs(ival)) * Secs(ival)) \div time

\* The boundaries an interval crosses
Crossings(tab, ival) ==
  Crossed(List(tab), InWeek(ival.stime), InWeek(ival.stime) + Secs(ival))

\* A charge is the sum of what the intervals add to it.
LEMMA ChargeOf ==
  ASSUME NEW tab, NEW ivals, NEW time
  PROVE  Charge(tab, ivals, time) =
           Total([n \in 1 .. Len(ivals) |-> Cost(tab, ivals[n], time)], Len(ivals))
BY DEF Charge, Calc, Cost, TableCost

\* A sum of one
LEMMA TotalOne ==
  ASSUME NEW f, f[1] \in Int
  PROVE  Total(f, 1) = f[1]
<1>1. Total(f, 0) = 0 /\ Total(f, 0 + 1) = f[0 + 1] + Total(f, 0)
  <2>1. 0 \in Nat
    OBVIOUS
  <2> QED
    BY <2>1, TotalStep
<1>2. 0 + 1 = 1
  OBVIOUS
<1> QED
  BY <1>1, <1>2

\* What is known of the price of an interval under a tariff of one part
Priced(tab, ival) ==
  LET s == InWeek(ival.stime)
      u == Secs(ival)
      D == Duration(u)
  IN  /\ u \in Nat /\ D \in Nat \ {0} /\ u <= D /\ (u > 0 => D = u)
      /\ Measured(List(tab), tab.parts[1].hourprice, s, u)
      /\ D \div 60 < tab.perminafter =>
           /\ TableCost(tab, s, u) \in Nat
           /\ TablePrice(tab, D \div 60) \in Nat
           /\ NearestPrice(tab, D \div 60) \in Nat
           /\ TablePrice(tab, D \div 60) <= TableCost(tab, s, u)
           /\ TableCost(tab, s, u) <= NearestPrice(tab, D \div 60)
           /\ Crossings(tab, ival) = 0 => TableCost(tab, s, u) = TablePrice(tab, D \div 60)
           /\ \/ s + D <= StopAt(List(tab), s)
                 /\ TableCost(tab, s, u) = TablePrice(tab, D \div 60)
              \/ s + D > StopAt(List(tab), s)
                 /\ TableCost(tab, s, u) = NearestPrice(tab, D \div 60)

\* The price of any interval, per minute and by the table
LEMMA StretchPriced ==
  ASSUME NEW tab \in Tables, Rises(tab), NEW ival \in Stretch
  PROVE  Priced(tab, ival)
<1> DEFINE s == InWeek(ival.stime)
           u == Secs(ival)
           D == Duration(u)
           m == D \div 60
<1>1. ival.stime \in Nat /\ ival.etime \in Nat /\ ival.stime <= ival.etime
  BY DEF Stretch
<1>2. s \in Nat /\ s < WeekSeconds
  <2>1. \A t \in Nat, w \in Nat \ {0} : t % w \in Nat /\ t % w < w
    OBVIOUS
  <2> QED
    BY <1>1, <2>1, Weeks DEF InWeek
<1>3. u \in Nat
  BY <1>1 DEF Secs
<1>4. DOMAIN tab.parts = {1}
  BY DEF Rises
<1>5. Crossings(tab, ival) = Crossed(List(tab), s, s + u)
  BY DEF Crossings
<1> HIDE DEF s, u
<1>6. D \in Nat \ {0} /\ u <= D /\ (u > 0 => D = u)
  BY <1>3 DEF Duration, AtLeastASecond
<1>7. Measured(List(tab), tab.parts[1].hourprice, s, u)
  BY <1>2, <1>3, <1>4, OnePartPerMinute
<1>8. ASSUME m < tab.perminafter
      PROVE  /\ TableCost(tab, s, u) \in Nat
             /\ TablePrice(tab, m) \in Nat /\ NearestPrice(tab, m) \in Nat
             /\ TablePrice(tab, m) <= TableCost(tab, s, u)
             /\ TableCost(tab, s, u) <= NearestPrice(tab, m)
             /\ Crossings(tab, ival) = 0 => TableCost(tab, s, u) = TablePrice(tab, m)
             /\ \/ s + D <= StopAt(List(tab), s)
                   /\ TableCost(tab, s, u) = TablePrice(tab, m)
                \/ s + D > StopAt(List(tab), s)
                   /\ TableCost(tab, s, u) = NearestPrice(tab, m)
  <2>1. m \in Nat /\ m <= m
    BY <1>6
  <2>2. /\ TablePrice(tab, m) \in Nat /\ NearestPrice(tab, m) \in Nat
        /\ TablePrice(tab, m) <= NearestPrice(tab, m)
    BY <1>8, <2>1, NearestRises
  <2>3. \/ s + D <= StopAt(List(tab), s) /\ TableCost(tab, s, u) = TablePrice(tab, m)
        \/ /\ s + D > StopAt(List(tab), s)
           /\ TableCost(tab, s, u) = NearestPrice(tab, m)
           /\ Crossed(List(tab), s, s + u) >= 1
    BY <1>2, <1>3, <1>8, OnePartByTable
  <2> HIDE DEF m, D
  <2>4. Crossings(tab, ival) = 0 => TableCost(tab, s, u) = TablePrice(tab, m)
    BY <1>5, <2>3
  <2> QED
    BY <2>2, <2>3, <2>4
<1> QED
  BY <1>3, <1>6, <1>7, <1>8 DEF Priced, s, u

\* What the table can ask for at all is reached by the price per minute at
\* the change to it.
LEMMA ChangeOver ==
  ASSUME NEW tab \in Tables, Rises(tab), NEW m \in Nat, m < tab.perminafter,
         NEW ival \in Stretch, 60 * tab.perminafter <= Secs(ival)
  PROVE  LET s == InWeek(ival.stime)
             price == PerMinute(List(tab), s, s + Secs(ival))
         IN  /\ NearestPrice(tab, m) \in Nat /\ price \in Nat
             /\ NearestPrice(tab, m) <= price + Crossings(tab, ival)
<1> DEFINE s == InWeek(ival.stime)
           u == Secs(ival)
           price == PerMinute(List(tab), s, s + u)
           X == Crossings(tab, ival)
           pma == tab.perminafter
           h == tab.parts[1].hourprice
           Q == NearestPrice(tab, pma - 1)
           q == NearestPrice(tab, m)
<1>1. pma \in Nat
  BY SessionAssumption
<1>2. DOMAIN tab.parts = {1} /\ h \in Nat
  BY OnePart DEF Rises
<1>3. 60 * Q <= h * pma
  <2>1. pma > 0
    BY <1>1
  <2> QED
    BY <2>1 DEF Rises, NearestPrice, TablePrice
<1>4. q \in Nat /\ Q \in Nat /\ q <= Q
  <2>1. pma - 1 \in Nat /\ m <= pma - 1 /\ pma - 1 < pma
    BY <1>1
  <2> QED
    BY <2>1, NearestRises
<1>5. u \in Nat /\ Duration(u) = u /\ Measured(List(tab), h, s, u)
  <2>1. Priced(tab, ival)
    BY StretchPriced
  <2>2. u \in Nat /\ (u > 0 => Duration(u) = u) /\ Measured(List(tab), h, s, u)
    BY <2>1 DEF Priced
  <2>3. u > 0
    BY <1>1, <2>2
  <2> QED
    BY <2>2, <2>3
<1>6. price \in Nat /\ X \in Nat /\ h * u < 3600 * (price + X + 1)
  BY <1>5 DEF Measured, Crossings
<1>7. 60 * pma <= u
  OBVIOUS
<1> HIDE DEF price, X, pma, h, Q, q, u, s
<1>8. h * (60 * pma) <= h * u
  <2>1. 60 * pma \in Int /\ u \in Int
    BY <1>1, <1>5
  <2> QED
    BY <1>2, <1>7, <2>1, TimesMonotone
<1> DEFINE y == h * pma
           z == h * u
<1>9. h * (60 * pma) = 60 * y /\ y \in Nat /\ z \in Nat
  BY <1>1, <1>2, <1>5
<1> HIDE DEF y, z
<1>10. 60 * Q <= y /\ 60 * y <= z /\ z < 3600 * (price + X + 1)
  BY <1>3, <1>6, <1>8, <1>9 DEF y, z
<1>11. q <= price + X
  BY <1>4, <1>6, <1>9, <1>10
<1> QED
  BY <1>4, <1>6, <1>11 DEF price, X, q, u, s

\* What an interval costs alone
CostAlone(tab, ival) == Charge(tab, <<ival>>, TimeUsed(<<ival>>))

\* Alone, an interval costs its whole price: its share is all of it.
LEMMA AloneCosts ==
  ASSUME NEW tab \in Tables, Rises(tab), NEW ival \in Stretch, Secs(ival) > 0
  PROVE  LET s == InWeek(ival.stime)
             u == Secs(ival)
         IN  /\ CostAlone(tab, ival) =
                  IF PerMin(tab, u) THEN PerMinute(List(tab), s, s + u)
                  ELSE TableCost(tab, s, u)
             /\ CostAlone(tab, ival) \in Nat
             /\ TimeUsed(<<ival>>) = u
<1> DEFINE s == InWeek(ival.stime)
           u == Secs(ival)
           cost == IF PerMin(tab, u) THEN PerMinute(List(tab), s, s + u)
                   ELSE TableCost(tab, s, u)
<1>1. Priced(tab, ival)
  BY StretchPriced
<1>2. u \in Nat /\ u > 0 /\ Duration(u) = u /\ PerMinute(List(tab), s, s + u) \in Nat
      /\ (u \div 60 < tab.perminafter => TableCost(tab, s, u) \in Nat)
  BY <1>1 DEF Priced, Measured
<1>3. tab.perminafter \in Nat
  BY SessionAssumption
<1>4. cost \in Nat
  BY <1>2, <1>3 DEF PerMin
<1>5. TimeUsed(<<ival>>) = u
  <2> DEFINE f == [n \in 1 .. Len(<<ival>>) |-> Secs(<<ival>>[n])]
  <2>1. f[1] = u /\ Len(<<ival>>) = 1
    OBVIOUS
  <2>2. TimeUsed(<<ival>>) = Total(f, 1)
    BY <2>1 DEF TimeUsed
  <2> HIDE DEF f
  <2> QED
    BY <1>2, <2>1, <2>2, TotalOne
<1>6. Cost(tab, ival, u) = cost
  <2>1. CASE PerMin(tab, u)
    BY <2>1 DEF Cost
  <2>2. CASE ~PerMin(tab, u)
    <3> DEFINE b == TableCost(tab, s, u)
    <3>1. b \in Nat
      BY <1>2, <1>3, <2>2 DEF PerMin
    <3>2. Cost(tab, ival, u) = (b * u) \div u
      BY <2>2 DEF Cost
    <3> HIDE DEF b, u
    <3>3. b * u = u * b + 0 /\ u \in Nat \ {0} /\ b \in Int /\ 0 \in Int /\ 0 <= 0 /\ 0 < u
      BY <1>2, <3>1
    <3>4. (u * b + 0) \div u = b
      BY <3>3, DividedOnly, Zenon
    <3> QED
      BY <2>2, <3>2, <3>3, <3>4 DEF b
  <2> QED
    BY <2>1, <2>2
<1>7. CostAlone(tab, ival) = cost
  <2> DEFINE f == [n \in 1 .. Len(<<ival>>) |-> Cost(tab, <<ival>>[n], u)]
  <2>1. f[1] = Cost(tab, ival, u) /\ Len(<<ival>>) = 1
    OBVIOUS
  <2>2. CostAlone(tab, ival) = Total(f, 1)
    BY <1>5, <2>1, ChargeOf DEF CostAlone
  <2> HIDE DEF f, cost
  <2>3. f[1] \in Int
    BY <1>4, <1>6, <2>1
  <2> QED
    BY <1>6, <2>1, <2>2, <2>3, TotalOne
<1> QED
  BY <1>4, <1>5, <1>7

\* A longer interval from the same start costs no less, but for rounding down
\* at the boundaries it crosses.
LEMMA LongerCostsMore ==
  ASSUME NEW tab \in Tables, Rises(tab), NEW ival \in Stretch, NEW jval \in Stretch,
         ival.stime = jval.stime, Secs(ival) > 0, Secs(ival) <= Secs(jval)
  PROVE  CostAlone(tab, jval) + Crossings(tab, jval) >= CostAlone(tab, ival)
<1> DEFINE s == InWeek(ival.stime)
           u == Secs(ival)
           w == Secs(jval)
           L == List(tab)
           h == tab.parts[1].hourprice
           pma == tab.perminafter
           X == Crossings(tab, jval)
           early == PerMinute(L, s, s + u)
           late == PerMinute(L, s, s + w)
           a == CostAlone(tab, ival)
           b == CostAlone(tab, jval)
<1>1. pma \in Nat /\ h \in Nat
  BY SessionAssumption, OnePart DEF Rises
<1>2. Priced(tab, ival) /\ Priced(tab, jval)
  BY StretchPriced
<1>3. u \in Nat /\ w \in Nat /\ 0 < u /\ u <= w
  BY <1>2 DEF Priced
<1>4. Duration(u) = u /\ Duration(w) = w
  BY <1>2, <1>3 DEF Priced
<1>5. Measured(L, h, s, u) /\ Measured(L, h, s, w)
  BY <1>2 DEF Priced
<1>6. X = Crossed(L, s, s + w) /\ X \in Nat
  BY <1>5 DEF Crossings, Measured
<1>7. a = (IF PerMin(tab, u) THEN early ELSE TableCost(tab, s, u)) /\ a \in Nat
  BY <1>3, AloneCosts
<1>8. b = (IF PerMin(tab, w) THEN late ELSE TableCost(tab, s, w)) /\ b \in Nat
  <2>1. InWeek(jval.stime) = s /\ Secs(jval) > 0
    BY <1>3
  <2>2. /\ b = (IF PerMin(tab, w)
                 THEN PerMinute(L, InWeek(jval.stime), InWeek(jval.stime) + w)
                 ELSE TableCost(tab, InWeek(jval.stime), w))
        /\ b \in Nat
    BY <2>1, AloneCosts
  <2> HIDE DEF s, w, b, L
  <2> QED
    BY <2>1, <2>2
<1>9. u \div 60 \in Nat /\ w \div 60 \in Nat /\ u \div 60 <= w \div 60
  BY <1>3
<1>10. CASE PerMin(tab, u)
  <2>1. PerMin(tab, w)
    BY <1>1, <1>9, <1>10 DEF PerMin
  <2>2. /\ early \in Nat /\ late \in Nat
        /\ 3600 * early <= h * u /\ h * w < 3600 * (late + X + 1)
    BY <1>4, <1>5, <1>6 DEF Measured
  <2> HIDE DEF early, late, X, h, u, w
  <2>3. h * u <= h * w
    BY <1>1, <1>3, TimesMonotone
  <2> DEFINE y == h * u
             z == h * w
  <2>4. y \in Nat /\ z \in Nat
    BY <1>1, <1>3
  <2>5. y <= z /\ 3600 * early <= y /\ z < 3600 * (late + X + 1)
    BY <2>2, <2>3
  <2> HIDE DEF y, z
  <2>6. early <= late + X
    BY <1>6, <2>2, <2>4, <2>5
  <2>7. a = early /\ b = late
    BY <1>7, <1>8, <1>10, <2>1 DEF u, w
  <2> HIDE DEF a, b
  <2> QED
    BY <1>6, <2>2, <2>6, <2>7 DEF a, b, X
<1>11. CASE ~PerMin(tab, u) /\ PerMin(tab, w)
  <2> DEFINE m == u \div 60
  <2>1. m \in Nat /\ m < pma
    BY <1>1, <1>9, <1>11 DEF PerMin
  <2>2. 60 * pma <= w
    BY <1>1, <1>3, <1>11 DEF PerMin
  <2>3. /\ NearestPrice(tab, m) \in Nat /\ late \in Nat
        /\ NearestPrice(tab, m) <= late + X
    <3>1. InWeek(jval.stime) = s
      OBVIOUS
    <3> HIDE DEF m, s
    <3> QED
      BY <2>1, <2>2, <3>1, ChangeOver
  <2>4. TableCost(tab, s, u) \in Nat /\ TableCost(tab, s, u) <= NearestPrice(tab, m)
    BY <1>2, <1>4, <2>1 DEF Priced
  <2> HIDE DEF a, b, X
  <2> QED
    BY <1>6, <1>7, <1>8, <1>11, <2>3, <2>4 DEF a, b, X
<1>12. CASE ~PerMin(tab, u) /\ ~PerMin(tab, w)
  <2> DEFINE m == u \div 60
             k == w \div 60
             p == TableCost(tab, s, u)
             q == TableCost(tab, s, w)
  <2>1. m \in Nat /\ k \in Nat /\ m <= k /\ k < pma /\ m < pma
    BY <1>1, <1>9, <1>12 DEF PerMin
  <2>2. /\ p \in Nat /\ p <= NearestPrice(tab, m)
        /\ \/ s + u <= StopAt(L, s) /\ p = TablePrice(tab, m)
           \/ s + u > StopAt(L, s) /\ p = NearestPrice(tab, m)
    BY <1>2, <1>4, <2>1 DEF Priced
  <2>3. /\ q \in Nat /\ TablePrice(tab, k) <= q
        /\ \/ s + w <= StopAt(L, s) /\ q = TablePrice(tab, k)
           \/ s + w > StopAt(L, s) /\ q = NearestPrice(tab, k)
    BY <1>2, <1>4, <2>1 DEF Priced
  <2> HIDE DEF m, k
  <2>4. /\ TablePrice(tab, m) \in Nat /\ TablePrice(tab, k) \in Nat
        /\ TablePrice(tab, m) <= TablePrice(tab, k)
    BY <2>1, RisingTable
  <2>5. /\ NearestPrice(tab, m) \in Nat /\ NearestPrice(tab, k) \in Nat
        /\ NearestPrice(tab, m) <= NearestPrice(tab, k)
    BY <2>1, NearestRises
  <2>6. s \in Nat /\ StopAt(L, s) \in Nat
    <3>1. s \in Nat
      <4>1. \A t \in Nat, x \in Nat \ {0} : t % x \in Nat
        OBVIOUS
      <4>2. ival.stime \in Nat
        BY DEF Stretch
      <4> QED
        BY <4>1, <4>2, Weeks DEF InWeek
    <3>2. WeekList(L)
      BY OnePart DEF Rises
    <3> HIDE DEF s, L
    <3> QED
      BY <3>1, <3>2, StopAfter
  <2> HIDE DEF p, q, s, u, w, L, X, a, b
  <2>7. p <= q
    BY <1>3, <2>2, <2>3, <2>4, <2>5, <2>6
  <2>8. a = p /\ b = q
    BY <1>7, <1>8, <1>12 DEF p, q
  <2> QED
    BY <1>6, <2>2, <2>3, <2>7, <2>8 DEF a, b, X
<1> QED
  BY <1>10, <1>11, <1>12

\* Intervals of whole grains are intervals.
LEMMA StretchOf == Interval \subseteq Stretch
BY DEF Interval, Stretch

\* An uninterrupted session goes on.
LEMMA OneGoesOn ==
  ASSUME SessionInv, SessionNext, Len(intervals') = 1
  PROVE  /\ tariff \in Tables
         /\ \E ival, jval \in Stretch :
              /\ intervals = <<ival>> /\ intervals' = <<jval>>
              /\ ival.stime = jval.stime /\ Secs(ival) <= Secs(jval)
<1> DEFINE i == intervals[1]
<1>1. TickSecs \in Nat
  BY SessionAssumption
<1>2. Len(intervals) \in Nat \ {0} /\ intervals \in Seq(Interval)
  BY DEF SessionInv
<1>3. CASE Tick
  <2>1. Len(intervals) = 1
    BY <1>2, <1>3 DEF Tick
  <2>2. intervals = <<i>> /\ i \in Stretch
    BY <1>2, <2>1, StretchOf
  <2> DEFINE j == [i EXCEPT !.etime = @ + TickSecs]
  <2>3. intervals' = <<j>>
    BY <1>2, <1>3, <2>1, <2>2 DEF Tick
  <2>4. j \in Stretch /\ i.stime = j.stime /\ Secs(i) <= Secs(j)
    BY <1>1, <2>2 DEF Stretch, Secs
  <2> HIDE DEF i, j
  <2> QED
    BY <2>2, <2>3, <2>4 DEF SessionInv
<1>4. CASE Pause
  <2>1. intervals' = intervals /\ Len(intervals) = 1
    BY <1>4 DEF Pause
  <2>2. intervals = <<i>> /\ i \in Stretch
    BY <1>2, <2>1, StretchOf
  <2>3. Secs(i) <= Secs(i)
    BY <2>2 DEF Stretch, Secs
  <2> HIDE DEF i
  <2> QED
    BY <2>1, <2>2, <2>3 DEF SessionInv
<1>5. ASSUME NEW k \in 0 .. 1, Unpause(k) PROVE FALSE
  <2>1. PICK x : intervals' = Append(intervals, x)
    BY <1>5 DEF Unpause
  <2>2. Len(intervals') = Len(intervals) + 1
    <3> DEFINE S == Interval \cup {x}
               s == intervals
    <3>1. s \in Seq(S) /\ x \in S
      BY <1>2
    <3> HIDE DEF S, i, s
    <3>2. Len(Append(s, x)) = Len(s) + 1
      BY <3>1
    <3> QED
      BY <2>1, <3>2 DEF s
  <2> QED
    BY <1>2, <2>2
<1> QED
  BY <1>3, <1>4, <1>5 DEF SessionNext

\* No step of an uninterrupted session lowers the charge.
LEMMA OwedStep ==
  ASSUME SessionInv, SessionNext
  PROVE  (Rises(tariff) /\ Len(intervals') = 1 /\ TimeUsed(intervals) > 0)
           => Cash(intervals') + CrossedBy(intervals'[1]) >= Cash(intervals)
<1> SUFFICES ASSUME Rises(tariff), Len(intervals') = 1, TimeUsed(intervals) > 0
             PROVE  Cash(intervals') + CrossedBy(intervals'[1]) >= Cash(intervals)
  OBVIOUS
<1>1. PICK ival \in Stretch, jval \in Stretch :
        /\ intervals = <<ival>> /\ intervals' = <<jval>>
        /\ ival.stime = jval.stime /\ Secs(ival) <= Secs(jval)
  BY OneGoesOn
<1>2. tariff \in Tables
  BY DEF SessionInv
<1>3. Secs(ival) > 0
  <2> DEFINE f == [n \in 1 .. Len(<<ival>>) |-> Secs(<<ival>>[n])]
  <2>1. f[1] = Secs(ival) /\ Len(<<ival>>) = 1
    OBVIOUS
  <2>2. TimeUsed(intervals) = Total(f, 1)
    BY <1>1, <2>1 DEF TimeUsed
  <2>3. Secs(ival) \in Int
    BY DEF Stretch, Secs
  <2> HIDE DEF f
  <2>4. Total(f, 1) = Secs(ival)
    BY <2>1, <2>3, TotalOne
  <2> QED
    BY <2>2, <2>4
<1>4. CostAlone(tariff, jval) + Crossings(tariff, jval) >= CostAlone(tariff, ival)
  BY <1>1, <1>2, <1>3, LongerCostsMore
<1>5. Cash(intervals) = CostAlone(tariff, ival)
  BY <1>1 DEF Cash, CostAlone
<1>6. Cash(intervals') = CostAlone(tariff, jval)
  BY <1>1 DEF Cash, CostAlone
<1>7. CrossedBy(intervals'[1]) = Crossings(tariff, jval)
  <2>1. intervals'[1] = jval
    BY <1>1
  <2> QED
    BY <2>1 DEF CrossedBy, Crossings
<1> QED
  BY <1>4, <1>5, <1>6, <1>7

\* For every tariff of one part whose prices rise: the charge for an
\* uninterrupted session never falls while it goes on, through the change from
\* the table to the price per minute too, but for what rounding down at each
\* boundary loses (CCL_client_owed_terminal).
THEOREM ChargeNeverFalls == SessionSpec => OwedNeverFalls
<1>1. SessionInv /\ [SessionNext]_sessionVars =>
        [(Rises(tariff) /\ Len(intervals') = 1 /\ TimeUsed(intervals) > 0)
           => Cash(intervals') + CrossedBy(intervals'[1]) >= Cash(intervals)]_sessionVars
  BY OwedStep
<1> QED
  BY <1>1, SessionSound, PTL DEF SessionSpec, OwedNeverFalls

\* A term of a sum of natural numbers is not more than the sum.
LEMMA TermLeq ==
  ASSUME NEW n \in Nat, NEW f, \A k \in 1 .. n : f[k] \in Nat, NEW i \in 1 .. n
  PROVE  Total(f, n) \in Nat /\ f[i] <= Total(f, n)
<1> DEFINE S == {m \in Nat : m <= n => /\ Total(f, m) \in Nat
                                       /\ \A k \in 1 .. m : f[k] <= Total(f, m)}
<1>1. 0 \in S
  BY TotalStep
<1>2. ASSUME NEW m \in Nat, m \in S PROVE m + 1 \in S
  <2> SUFFICES ASSUME m + 1 <= n
               PROVE  /\ Total(f, m + 1) \in Nat
                      /\ \A k \in 1 .. m + 1 : f[k] <= Total(f, m + 1)
    OBVIOUS
  <2>1. Total(f, m) \in Nat /\ \A k \in 1 .. m : f[k] <= Total(f, m)
    BY <1>2
  <2>2. Total(f, m + 1) = f[m + 1] + Total(f, m)
    BY TotalStep
  <2>3. \A k \in 1 .. m + 1 : k \in 1 .. n /\ (k \in 1 .. m \/ k = m + 1)
    OBVIOUS
  <2>4. f[m + 1] \in Nat
    OBVIOUS
  <2> QED
    BY <2>1, <2>2, <2>3, <2>4
<1> HIDE DEF S
<1>3. n \in S
  BY <1>1, <1>2, Induct
<1> QED
  BY <1>3 DEF S

\* Prices not above a bound, shared out in proportion to the time, do not
\* come to more than the bound.
LEMMA SharesBounded ==
  ASSUME NEW N \in Nat, NEW R \in Nat, NEW used \in Nat \ {0}, NEW sec, NEW price, NEW cost,
         used = Total(sec, N),
         \A n \in 1 .. N : /\ sec[n] \in Nat /\ price[n] \in Nat /\ price[n] <= R
                           /\ cost[n] = (price[n] * sec[n]) \div used
  PROVE  Total(cost, N) \in Int /\ Total(cost, N) <= R
<1> DEFINE times == [n \in 1 .. N |-> used * cost[n]]
           most == [n \in 1 .. N |-> R * sec[n]]
<1>1. ASSUME NEW n \in 1 .. N
      PROVE  /\ cost[n] \in Int /\ used * cost[n] \in Int /\ R * sec[n] \in Int
             /\ used * cost[n] <= R * sec[n]
  <2> DEFINE x == price[n] * sec[n]
             c == x \div used
             b == sec[n]
  <2>1. b \in Nat /\ price[n] \in Nat /\ price[n] <= R
    OBVIOUS
  <2>2. x \in Nat
    BY <2>1
  <2>3. price[n] * b <= R * b
    <3> DEFINE a == price[n]
    <3>1. a \in Int /\ R \in Int /\ a <= R
      BY <2>1
    <3> HIDE DEF a, b
    <3>2. b * a <= b * R
      BY <2>1, <3>1, TimesMonotone
    <3>3. b * a = a * b /\ b * R = R * b
      BY <2>1, <3>1
    <3>4. a * b <= R * b
      BY <3>2, <3>3
    <3> QED
      BY <3>4 DEF a
  <2>4. cost[n] = c
    OBVIOUS
  <2>5. x <= R * b /\ R * b \in Nat
    BY <2>1, <2>3
  <2> HIDE DEF x, b
  <2>6. c \in Int /\ x % used \in 0 .. used - 1 /\ x = used * c + (x % used)
    <3>1. x \in Int
      BY <2>2
    <3> QED
      BY <3>1, Divided, Zenon
  <2> HIDE DEF c
  <2>7. used * c \in Int /\ used * c <= x
    <3> DEFINE r == x % used
               y == used * c
    <3>1. r \in Nat /\ y \in Int /\ x = y + r
      BY <2>6
    <3> HIDE DEF r, y
    <3>2. y <= x
      BY <3>1
    <3> QED
      BY <3>1, <3>2 DEF y
  <2> DEFINE y == used * c
             z == R * b
  <2>8. y \in Int /\ z \in Int /\ y <= x /\ x <= z /\ x \in Nat
    BY <2>2, <2>5, <2>7
  <2> HIDE DEF y, z
  <2>9. y <= z
    BY <2>8
  <2> QED
    BY <2>4, <2>6, <2>8, <2>9 DEF y, z, b
<1>2. \A n \in 1 .. N : times[n] \in Int /\ most[n] \in Int /\ times[n] <= most[n]
  BY <1>1
<1>3. \A n \in 1 .. N : cost[n] \in Int /\ times[n] = used * cost[n]
  BY <1>1
<1>4. \A n \in 1 .. N : sec[n] \in Int /\ most[n] = R * sec[n]
  OBVIOUS
<1> HIDE DEF times, most
<1>5. Total(times, N) <= Total(most, N)
  BY <1>2, TotalLeq
<1>6. Total(times, N) = used * Total(cost, N)
  <2>1. used \in Int
    OBVIOUS
  <2> QED
    BY <1>3, <2>1, TotalScaled
<1>7. Total(most, N) = R * used
  <2>1. R \in Int
    OBVIOUS
  <2>2. Total(most, N) = R * Total(sec, N)
    BY <1>4, <2>1, TotalScaled
  <2> QED
    BY <2>2
<1> DEFINE t == Total(cost, N)
<1>8. t \in Int
  BY <1>3, TotalInt
<1> HIDE DEF t
<1>9. used * t <= R * used
  BY <1>5, <1>6, <1>7 DEF t
<1>10. t <= R
  <2> SUFFICES ASSUME R + 1 <= t PROVE FALSE
    BY <1>8
  <2>1. used * (R + 1) <= used * t
    BY <1>8, TimesMonotone
  <2>2. used * (R + 1) = R * used + used /\ R * used \in Int /\ used * t \in Int
    BY <1>8
  <2> QED
    BY <1>9, <2>1, <2>2
<1> QED
  BY <1>8, <1>10 DEF t

\* A price per minute and the time it is asked for
Metered(h, cost, dur, n) ==
  cost[n] \in Nat /\ dur[n] \in Nat /\ 3600 * cost[n] <= h * dur[n]

MeteredSum(h, cost, dur, N) ==
  /\ Total(cost, N) \in Int
  /\ 3600 * Total(cost, N) <= h * Total(dur, N)

\* A sum of prices per minute and the time they are asked for
LEMMA MeasuredTotal ==
  ASSUME NEW N \in Nat, NEW h \in Nat, NEW dur, NEW cost,
         \A n \in 1 .. N : Metered(h, cost, dur, n)
  PROVE  MeteredSum(h, cost, dur, N)
<1> DEFINE times == [n \in 1 .. N |-> 3600 * cost[n]]
           most == [n \in 1 .. N |-> h * dur[n]]
<1> USE DEF Metered
<1>1. \A n \in 1 .. N : times[n] \in Int /\ most[n] \in Int /\ times[n] <= most[n]
  OBVIOUS
<1>2. \A n \in 1 .. N : cost[n] \in Int /\ times[n] = 3600 * cost[n]
  OBVIOUS
<1>3. \A n \in 1 .. N : dur[n] \in Int /\ most[n] = h * dur[n]
  OBVIOUS
<1>4. h \in Int /\ 3600 \in Int
  OBVIOUS
<1> HIDE DEF times, most
<1>5. Total(times, N) <= Total(most, N)
  BY <1>1, TotalLeq
<1>6. Total(times, N) = 3600 * Total(cost, N)
  BY <1>2, <1>4, TotalScaled
<1>7. Total(most, N) = h * Total(dur, N)
  BY <1>3, <1>4, TotalScaled
<1>8. Total(cost, N) \in Int
  BY <1>2, TotalInt
<1> QED
  BY <1>5, <1>6, <1>7, <1>8 DEF MeteredSum

\* The time of a session, and the time it is charged for
Lasting(ivals) == Total([n \in 1 .. Len(ivals) |-> Duration(Secs(ivals[n]))], Len(ivals))

\* The uninterrupted session from the same start that lasts as long
Uninterrupted(ivals) ==
  [stime |-> ivals[1].stime, etime |-> ivals[1].stime + Lasting(ivals)]

\* A session is charged for at least the time it used, none of its intervals
\* for more than that, and one piece of that length is an interval.
LEMMA TimesOfSession ==
  ASSUME NEW ivals \in Seq(Interval), ivals # <<>>, TimeUsed(ivals) > 0
  PROVE  /\ TimeUsed(ivals) \in Nat \ {0} /\ Lasting(ivals) \in Nat
         /\ TimeUsed(ivals) <= Lasting(ivals)
         /\ \A n \in 1 .. Len(ivals) :
              /\ ivals[n] \in Stretch
              /\ Secs(ivals[n]) \in Nat /\ Duration(Secs(ivals[n])) \in Nat
              /\ Duration(Secs(ivals[n])) <= TimeUsed(ivals)
              /\ Duration(Secs(ivals[n])) <= Lasting(ivals)
         /\ Uninterrupted(ivals) \in Stretch
         /\ Secs(Uninterrupted(ivals)) = Lasting(ivals)
<1> DEFINE N == Len(ivals)
           sec == [n \in 1 .. N |-> Secs(ivals[n])]
           dur == [n \in 1 .. N |-> Duration(Secs(ivals[n]))]
           used == TimeUsed(ivals)
           lasting == Lasting(ivals)
<1>1. N \in Nat \ {0} /\ \A n \in 1 .. N : ivals[n] \in Interval
  OBVIOUS
<1>2. \A n \in 1 .. N : ivals[n] \in Stretch
  BY <1>1, StretchOf
<1>3. \A n \in 1 .. N : Secs(ivals[n]) \in Nat
  BY <1>2 DEF Stretch, Secs
<1>4. \A n \in 1 .. N : /\ dur[n] \in Nat /\ sec[n] \in Nat /\ sec[n] <= dur[n]
                        /\ dur[n] = sec[n] \/ dur[n] = 1
  BY <1>3 DEF Duration, AtLeastASecond
<1>5. used = Total(sec, N) /\ lasting = Total(dur, N)
  BY DEF TimeUsed, Lasting
<1>6. \A n \in 1 .. N : sec[n] = Secs(ivals[n]) /\ dur[n] = Duration(Secs(ivals[n]))
  OBVIOUS
<1> HIDE DEF sec, dur, N
<1>7. /\ used \in Nat /\ \A n \in 1 .. N : sec[n] <= used
      /\ lasting \in Nat /\ \A n \in 1 .. N : dur[n] <= lasting
  <2>1. 1 \in 1 .. N
    BY <1>1
  <2>2. \A n \in 1 .. N : Total(sec, N) \in Nat /\ sec[n] <= Total(sec, N)
    BY <1>1, <1>4, TermLeq
  <2>3. \A n \in 1 .. N : Total(dur, N) \in Nat /\ dur[n] <= Total(dur, N)
    BY <1>1, <1>4, TermLeq
  <2> QED
    BY <1>5, <2>1, <2>2, <2>3
<1>8. used <= lasting
  <2>1. \A n \in 1 .. N : sec[n] \in Int /\ dur[n] \in Int /\ sec[n] <= dur[n]
    BY <1>4
  <2> QED
    BY <1>1, <1>5, <2>1, TotalLeq
<1>9. used > 0
  OBVIOUS
<1> HIDE DEF used, lasting
<1>10. \A n \in 1 .. N : dur[n] <= used
  BY <1>4, <1>7, <1>9
<1>11. Uninterrupted(ivals) \in Stretch /\ Secs(Uninterrupted(ivals)) = lasting
  <2>1. ivals[1].stime \in Nat
    BY <1>1, <1>2 DEF Stretch
  <2>2. Uninterrupted(ivals) = [stime |-> ivals[1].stime, etime |-> ivals[1].stime + lasting]
    BY DEF Uninterrupted, lasting
  <2> DEFINE t == ivals[1].stime
  <2> HIDE DEF t
  <2>3. t \in Nat /\ Uninterrupted(ivals) = [stime |-> t, etime |-> t + lasting]
    BY <2>1, <2>2 DEF t
  <2> QED
    BY <1>7, <2>3 DEF Stretch, Secs
<1> QED
  BY <1>2, <1>4, <1>6, <1>7, <1>8, <1>9, <1>10, <1>11 DEF N, used, lasting

\* Charged per minute, the intervals cost no more than they do in one piece.
LEMMA PausesPerMinute ==
  ASSUME NEW tab \in Tables, Rises(tab), NEW ivals \in Seq(Interval), ivals # <<>>,
         TimeUsed(ivals) > 0, PerMin(tab, TimeUsed(ivals))
  PROVE  Charge(tab, ivals, TimeUsed(ivals))
           <= CostAlone(tab, Uninterrupted(ivals)) + Crossings(tab, Uninterrupted(ivals))
<1> DEFINE N == Len(ivals)
           used == TimeUsed(ivals)
           lasting == Lasting(ivals)
           one == Uninterrupted(ivals)
           s == InWeek(one.stime)
           h == tab.parts[1].hourprice
           L == List(tab)
           X == Crossings(tab, one)
           price == PerMinute(L, s, s + lasting)
           cost == [n \in 1 .. N |-> Cost(tab, ivals[n], used)]
           dur == [n \in 1 .. N |-> Duration(Secs(ivals[n]))]
<1>1. /\ used \in Nat \ {0} /\ lasting \in Nat /\ used <= lasting
      /\ one \in Stretch /\ Secs(one) = lasting
      /\ \A n \in 1 .. N : ivals[n] \in Stretch
  BY TimesOfSession
<1>2. h \in Nat /\ tab.perminafter \in Nat
  BY SessionAssumption, OnePart DEF Rises
<1>3. ASSUME NEW n \in 1 .. N
      PROVE  Metered(h, cost, dur, n)
  <2>1. Priced(tab, ivals[n])
    BY <1>1, StretchPriced
  <2> DEFINE r == InWeek(ivals[n].stime)
             u == Secs(ivals[n])
  <2>2. cost[n] = PerMinute(L, r, r + u) /\ dur[n] = Duration(u)
    BY DEF Cost
  <2>3. Measured(L, h, r, u) /\ Duration(u) \in Nat
    BY <2>1 DEF Priced
  <2> HIDE DEF cost, dur, r, u, L, h
  <2> QED
    BY <2>2, <2>3 DEF Measured, Metered
<1>4. Charge(tab, ivals, used) = Total(cost, N) /\ lasting = Total(dur, N) /\ N \in Nat
  BY ChargeOf DEF Lasting
<1> DEFINE all == Charge(tab, ivals, used)
<1>5. all \in Int /\ 3600 * all <= h * lasting
  <2> HIDE DEF all, cost, dur, N, h, lasting, used
  <2>1. MeteredSum(h, cost, dur, N)
    <3>1. \A n \in 1 .. N : Metered(h, cost, dur, n)
      BY <1>3
    <3>2. h \in Nat
      BY <1>2
    <3>3. N \in Nat
      BY <1>4
    <3> QED
      BY <3>1, <3>2, <3>3, MeasuredTotal
  <2>2. Total(cost, N) \in Int
    BY <2>1 DEF MeteredSum
  <2>3. h \in Int /\ Total(dur, N) \in Int
    BY <1>1, <1>2, <1>4
  <2> DEFINE c == Total(cost, N)
             d == Total(dur, N)
  <2>4. c \in Int /\ d \in Int
    BY <2>2, <2>3
  <2>5. MeteredSum(h, cost, dur, N) => 3600 * c <= h * d
    BY DEF MeteredSum
  <2>6. all = c /\ lasting = d
    BY <1>4 DEF all
  <2> HIDE DEF c, d
  <2>7. 3600 * c <= h * d
    BY <2>1, <2>5
  <2> QED
    BY <2>3, <2>4, <2>6, <2>7
<1>6. lasting > 0 /\ PerMin(tab, lasting)
  <2>1. \A a, b \in Nat : a <= b => a \div 60 <= b \div 60 /\ a \div 60 \in Nat /\ b \div 60 \in Nat
    OBVIOUS
  <2> HIDE DEF lasting
  <2>2. used \div 60 <= lasting \div 60 /\ used \div 60 \in Nat /\ lasting \div 60 \in Nat
    BY <1>1, <2>1
  <2> QED
    BY <1>1, <1>2, <2>2 DEF PerMin
<1>7. CostAlone(tab, one) = price
  <2>1. Secs(one) > 0 /\ PerMin(tab, Secs(one))
    BY <1>1, <1>6
  <2> HIDE DEF one, lasting
  <2>2. CostAlone(tab, one) = PerMinute(List(tab), InWeek(one.stime),
                                        InWeek(one.stime) + Secs(one))
    BY <1>1, <2>1, AloneCosts
  <2> QED
    BY <1>1, <2>2
<1>8. price \in Nat /\ X \in Nat /\ h * lasting < 3600 * (price + X + 1)
  <2> HIDE DEF one, lasting
  <2>1. Priced(tab, one)
    BY <1>1, StretchPriced
  <2>2. Measured(L, h, s, lasting) /\ Duration(lasting) = lasting
    BY <1>1, <1>6, <2>1 DEF Priced
  <2>3. X = Crossed(L, s, s + lasting)
    BY <1>1 DEF Crossings
  <2> HIDE DEF X, h, s, L
  <2> QED
    BY <2>2, <2>3 DEF Measured, price
<1> DEFINE y == h * lasting
<1>9. y \in Nat
  <2> HIDE DEF h, lasting
  <2> QED
    BY <1>1, <1>2
<1> HIDE DEF y, all, price, X, one
<1>10. 3600 * all <= y /\ y < 3600 * (price + X + 1)
  BY <1>5, <1>8 DEF y
<1>11. all <= price + X
  BY <1>5, <1>8, <1>9, <1>10
<1> QED
  BY <1>7, <1>11 DEF all, X, one

\* Charged by the table without crossing a boundary, too
LEMMA PausesByTable ==
  ASSUME NEW tab \in Tables, Rises(tab), NEW ivals \in Seq(Interval), ivals # <<>>,
         TimeUsed(ivals) > 0, ~PerMin(tab, TimeUsed(ivals)),
         \A n \in 1 .. Len(ivals) : Crossings(tab, ivals[n]) = 0
  PROVE  Charge(tab, ivals, TimeUsed(ivals))
           <= CostAlone(tab, Uninterrupted(ivals)) + Crossings(tab, Uninterrupted(ivals))
<1> DEFINE N == Len(ivals)
           used == TimeUsed(ivals)
           lasting == Lasting(ivals)
           one == Uninterrupted(ivals)
           m == used \div 60
           k == lasting \div 60
           pma == tab.perminafter
           mins(n) == Duration(Secs(ivals[n])) \div 60
           sec == [n \in 1 .. N |-> Secs(ivals[n])]
           price == [n \in 1 .. N |-> TablePrice(tab, mins(n))]
           cost == [n \in 1 .. N |-> Cost(tab, ivals[n], used)]
           all == Charge(tab, ivals, used)
           X == Crossings(tab, one)
<1>1. /\ used \in Nat \ {0} /\ lasting \in Nat /\ used <= lasting
      /\ one \in Stretch /\ Secs(one) = lasting
      /\ \A n \in 1 .. N : /\ ivals[n] \in Stretch
                           /\ Secs(ivals[n]) \in Nat /\ Duration(Secs(ivals[n])) \in Nat
                           /\ Duration(Secs(ivals[n])) <= used
  BY TimesOfSession
<1>2. pma \in Nat
  BY SessionAssumption
<1>3. \A a, b \in Nat : a <= b => a \div 60 <= b \div 60 /\ a \div 60 \in Nat /\ b \div 60 \in Nat
  OBVIOUS
<1>4. m \in Nat /\ k \in Nat /\ m <= k /\ m < pma
  <2> HIDE DEF used, lasting
  <2>1. m \in Nat /\ k \in Nat /\ m <= k
    BY <1>1, <1>3
  <2> QED
    BY <1>2, <2>1 DEF PerMin, used
<1>5. ASSUME NEW n \in 1 .. N
      PROVE  /\ mins(n) \in Nat /\ mins(n) <= m /\ sec[n] \in Nat /\ price[n] \in Nat
             /\ price[n] <= TablePrice(tab, m) /\ TablePrice(tab, m) \in Nat
             /\ cost[n] = (price[n] * sec[n]) \div used
  <2>1. mins(n) \in Nat /\ mins(n) <= m
    <3> DEFINE d == Duration(Secs(ivals[n]))
    <3>1. d \in Nat /\ d <= used /\ used \in Nat
      BY <1>1
    <3> HIDE DEF d, used
    <3> QED
      BY <1>3, <3>1 DEF d
  <2>2. mins(n) < pma
    BY <1>2, <1>4, <2>1
  <2> DEFINE r == InWeek(ivals[n].stime)
             u == Secs(ivals[n])
  <2>3. TableCost(tab, r, u) = TablePrice(tab, mins(n))
    <3>1. Priced(tab, ivals[n])
      BY <1>1, StretchPriced
    <3>2. Crossings(tab, ivals[n]) = 0
      OBVIOUS
    <3> QED
      BY <2>2, <3>1, <3>2 DEF Priced
  <2>4. cost[n] = (TableCost(tab, r, u) * u) \div used
    BY DEF Cost
  <2>5. sec[n] = u /\ price[n] = TablePrice(tab, mins(n)) /\ u \in Nat
    BY <1>1
  <2> HIDE DEF r, u, mins, used, m, sec, price, cost
  <2>6. /\ TablePrice(tab, mins(n)) \in Nat /\ TablePrice(tab, m) \in Nat
        /\ TablePrice(tab, mins(n)) <= TablePrice(tab, m)
    BY <1>4, <2>1, RisingTable
  <2> QED
    BY <2>1, <2>3, <2>4, <2>5, <2>6
<1>6. all = Total(cost, N) /\ used = Total(sec, N) /\ N \in Nat \ {0}
  BY ChargeOf DEF TimeUsed
<1>7. TablePrice(tab, m) \in Nat
  <2>1. 1 \in 1 .. N
    BY <1>6
  <2> QED
    BY <1>5, <2>1
<1> DEFINE R == TablePrice(tab, m)
<1>8. all \in Int /\ all <= R
  <2> HIDE DEF all, cost, sec, price, R, used, mins, N, m
  <2>1. used \in Nat \ {0} /\ R \in Nat /\ N \in Nat
    BY <1>1, <1>6, <1>7 DEF R
  <2>2. \A n \in 1 .. N : /\ sec[n] \in Nat /\ price[n] \in Nat /\ price[n] <= R
                          /\ cost[n] = (price[n] * sec[n]) \div used
    BY <1>5 DEF R
  <2>3. Total(cost, N) \in Int /\ Total(cost, N) <= R
    BY <1>6, <2>1, <2>2, SharesBounded
  <2> QED
    BY <1>6, <2>3
<1> HIDE DEF all, cost, sec, price, mins, used, m
<1>9. Secs(one) > 0
  <2> HIDE DEF one, lasting
  <2> QED
    BY <1>1
<1> HIDE DEF one
<1>10. Priced(tab, one)
  BY <1>1, StretchPriced
<1> DEFINE s == InWeek(one.stime)
<1>11. X \in Nat
  BY <1>10 DEF Priced, Measured, Crossings
<1>12. CASE PerMin(tab, lasting)
  <2>1. CostAlone(tab, one) = PerMinute(List(tab), s, s + Secs(one))
    BY <1>1, <1>9, <1>12, AloneCosts
  <2>2. 60 * pma <= Secs(one)
    <3> HIDE DEF lasting
    <3> QED
      BY <1>1, <1>2, <1>12 DEF PerMin
  <2>3. /\ NearestPrice(tab, m) \in Nat
        /\ PerMinute(List(tab), s, s + Secs(one)) \in Nat
        /\ NearestPrice(tab, m) <= PerMinute(List(tab), s, s + Secs(one)) + X
    BY <1>1, <1>4, <2>2, ChangeOver
  <2>4. R <= NearestPrice(tab, m)
    <3>1. m <= m
      BY <1>4
    <3> QED
      BY <1>4, <3>1, NearestRises
  <2> HIDE DEF s, X, R
  <2> QED
    BY <1>7, <1>8, <1>11, <2>1, <2>3, <2>4 DEF all, used, one, X, R
<1>13. CASE ~PerMin(tab, lasting)
  <2>1. CostAlone(tab, one) = TableCost(tab, s, lasting)
    BY <1>1, <1>9, <1>13, AloneCosts
  <2>2. Duration(Secs(one)) = lasting /\ k < pma
    <3>1. Duration(Secs(one)) = Secs(one)
      BY <1>9, <1>10 DEF Priced
    <3>2. k < pma
      BY <1>2, <1>4, <1>13 DEF PerMin
    <3> QED
      BY <1>1, <3>1, <3>2
  <2>3. TableCost(tab, s, lasting) \in Nat /\ TablePrice(tab, k) <= TableCost(tab, s, lasting)
        /\ TablePrice(tab, k) \in Nat
    BY <1>1, <1>10, <2>2 DEF Priced
  <2> HIDE DEF lasting, k, s
  <2>4. R <= TablePrice(tab, k)
    BY <1>4, RisingTable
  <2> HIDE DEF X, R
  <2> QED
    BY <1>7, <1>8, <1>11, <2>1, <2>3, <2>4 DEF all, used, one, X, R
<1> QED
  BY <1>12, <1>13

\* Whatever the intervals of a session, pausing it was free.
LEMMA PausesFree == SessionInv => PausesAreFree
<1> SUFFICES ASSUME SessionInv, Rises(tariff), TimeUsed(intervals) > 0,
                    \/ PerMin(tariff, TimeUsed(intervals))
                    \/ \A n \in 1 .. Len(intervals) : CrossedBy(intervals[n]) = 0
             PROVE  Cash(intervals) <= Cash(<<Uninterrupted(intervals)>>)
                                         + CrossedBy(Uninterrupted(intervals))
  BY DEF PausesAreFree, Uninterrupted, Lasting, Duration
<1>1. tariff \in Tables /\ intervals \in Seq(Interval) /\ intervals # <<>>
  BY DEF SessionInv
<1>2. /\ Cash(intervals) = Charge(tariff, intervals, TimeUsed(intervals))
      /\ Cash(<<Uninterrupted(intervals)>>) = CostAlone(tariff, Uninterrupted(intervals))
      /\ \A ival : CrossedBy(ival) = Crossings(tariff, ival)
  BY DEF Cash, CostAlone, CrossedBy, Crossings
<1>3. CASE PerMin(tariff, TimeUsed(intervals))
  BY <1>1, <1>2, <1>3, PausesPerMinute
<1>4. CASE ~PerMin(tariff, TimeUsed(intervals))
  <2>1. \A n \in 1 .. Len(intervals) : Crossings(tariff, intervals[n]) = 0
    BY <1>2, <1>4
  <2> QED
    BY <1>1, <1>2, <1>4, <2>1, PausesByTable
<1> QED
  BY <1>3, <1>4

\* For every such tariff and any number of pauses: the charge is no more than
\* that for one piece of the same length, but for what rounding down at its
\* boundaries loses (CCL_client_owed_terminal, the shares of the intervals).
THEOREM PausesCostNothing == SessionSpec => []PausesAreFree
<1>1. SessionInv => PausesAreFree
  BY PausesFree
<1> QED
  BY <1>1, SessionSound, PTL
=============================================================================
