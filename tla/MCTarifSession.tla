--------------------------- MODULE MCTarifSession ---------------------------
(* Weeks of two days of two hours, and tariffs whose parts, table and price *)
(* per minute meet within a session of some hours.                          *)
EXTENDS TarifSession

SomeDays == {0, 1}

APart(days, stime, hourprice, fafter) ==
  [tarif |-> 1, days |-> days, stime |-> stime, hourprice |-> hourprice,
   fafter |-> fafter]

ATable(parts, rows, perminafter) ==
  [parts |-> parts, perminafter |-> perminafter,
   prices |-> [r \in 1 .. Len(rows) |->
                 [part |-> rows[r][1], mins |-> rows[r][2], price |-> rows[r][3]]]]

AllWeek == APart({0, 1}, 0, 6001, 60)
Morning == APart({0, 1}, 30, 6001, 60)
Evening == APart({1}, 80, 7500, 60)
Sunday == APart({0}, 80, 3000, 60)

SomeTables ==
  { ATable(<<AllWeek>>, <<>>, 60),
    ATable(<<AllWeek>>, <<<<1, 15, 1500>>, <<1, 30, 3000>>>>, 60),
    ATable(<<AllWeek>>, <<<<1, 30, 3000>>, <<1, 90, 8000>>>>, 180),
    ATable(<<AllWeek>>, <<>>, 10),
    ATable(<<Morning>>, <<>>, 20),
    ATable(<<Morning>>, <<<<1, 15, 1500>>, <<1, 40, 3000>>>>, 60),
    ATable(<<Morning, Evening>>, <<<<1, 30, 3000>>, <<2, 30, 1000>>>>, 30),
    ATable(<<Morning, Evening, Sunday>>, <<<<1, 15, 1500>>>>, 0) }

SomeStarts == {0, 1710, 4770, 9030, 14370}
=============================================================================
