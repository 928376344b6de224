----------------------------- MODULE StockProofs -----------------------------
(***************************************************************************)
(* Proofs about the products (Stock), for any workstations, products and   *)
(* bounds.  Every variable is typed, whatever mishaps a café admits.  As   *)
(* long as no ended session moves to another workstation and no two        *)
(* sessions of a workstation have the same times, a session's row is found *)
(* again by them: no product of a session or of a sale is in the log       *)
(* twice, and none is listed with another session.  The stock adds up if,  *)
(* besides, nothing runs between the reading of a number and its use, no   *)
(* paused session is reset, and products are given out at sessions in use  *)
(* and accounted to somebody.                                              *)
(***************************************************************************)
EXTENDS Stock, CafeLemmas

-----------------------------------------------------------------------------
(* Types *)

\* A dialog about a product and, unless it is about the stock, about a
\* workstation or the sale; the items of a sale are finitely many.
DialogShape ==
  /\ dialog.kind # "none" => dialog.product \in Products
  /\ dialog.kind \in {"add", "sub"} => dialog.client \in Clients \cup {0}

\* A workstation in use has a session, a session has a time at which it began,
\* and the log is finite.
LogShape ==
  /\ \A c \in active : session[c] # 0
  /\ \A c \in Clients : session[c] = 0 <=> times[c].stime = 0
  /\ \A row \in logged : row.stime # 0
  /\ now # 0
  /\ IsFiniteSet(logged)

TypeInv == TypeOK /\ DialogShape /\ LogShape /\ IsFiniteSet(DOMAIN items)

LEMMA Times == ASSUME NEW a \in Nat, NEW b \in Nat PROVE a * b \in Nat
  OBVIOUS

LEMMA RowsTyped ==
  ASSUME TypeInv, NEW id \in Nat, NEW c \in Clients, NEW products \in [Products -> Nat]
  PROVE  RowsOf(id, c, products) \subseteq Row
<1>1. ASSUME NEW p \in Products PROVE UnitPrice[p] * products[p] \in Nat
  <2>1. UnitPrice[p] \in Nat /\ products[p] \in Nat
    BY AmountsAssumption
  <2> QED
    BY <2>1, Times
<1>2. session[c] \in Nat
  BY DEF TypeInv, TypeOK
<1> QED
  BY <1>1, <1>2 DEF RowsOf, Row

LEMMA NextIdPositive ==
  ASSUME NEW rows, IsFiniteSet(rows), \A row \in rows : row.id \in Nat
  PROVE  /\ NextId(rows) \in Nat \ {0}
         /\ \A r \in rows : r.id < NextId(rows)
<1> DEFINE zero == [id |-> 0]
           more == rows \cup {zero}
<1>1. NextId(rows) \in Nat /\ \A r \in rows : r.id < NextId(rows)
  BY NextIdIsNew DEF NextId
<1>2. {row.id : row \in more} \cup {0} = {row.id : row \in rows} \cup {0}
  OBVIOUS
<1>3. IsFiniteSet(more) /\ \A row \in more : row.id \in Nat
  BY FS_AddElement
<1>4. zero \in more /\ zero.id = 0
  OBVIOUS
<1> HIDE DEF more, zero
<1>5. \A r \in more : r.id < 1 + Max({row.id : row \in more} \cup {0})
  BY <1>3, NextIdIsNew
<1>6. 0 < NextId(rows)
  BY <1>2, <1>4, <1>5 DEF NextId
<1> QED
  BY <1>1, <1>6

\* The row of sessionslog that is written, and the products' rows beside those
\* that stay
LEMMA LogTypes ==
  ASSUME TypeInv, NEW c \in Clients, session[c] # 0, NEW flag \in {"NOTPAID", "PAID"},
         NEW rows \in SUBSET logged, NEW entries \in SUBSET sold,
         NEW products \in [Products -> Nat], LogSession(c, flag, rows, entries, products)
  PROVE  /\ times' \in [Clients -> [stime : Nat, etime : Nat]]
         /\ \A d \in Clients : times'[d].stime = times[d].stime
         /\ logged' \subseteq Logged /\ IsFiniteSet(logged')
         /\ \A row \in logged' : row.stime # 0
         /\ sold' \subseteq Row
<1> DEFINE id == NextId(rows)
<1>1. /\ times' = [times EXCEPT ![c].etime = now]
      /\ logged' = rows \cup {SessionRow(id, c, flag)}
      /\ sold' = entries \cup RowsOf(id, c, products)
  BY DEF LogSession
<1>2. /\ times \in [Clients -> [stime : Nat, etime : Nat]] /\ now \in Nat
      /\ session[c] \in Nat \ {0} /\ logged \subseteq Logged /\ sold \subseteq Row
      /\ IsFiniteSet(logged)
  BY DEF TypeInv, TypeOK, LogShape
<1>3. id \in Nat \ {0} /\ IsFiniteSet(rows)
  <2>1. IsFiniteSet(rows) /\ \A row \in rows : row.id \in Nat
    BY <1>2, FS_Subset DEF Logged
  <2> QED
    BY <2>1, NextIdPositive
<1> HIDE DEF id
<1>4. times[c].stime \in Nat
  BY <1>2
<1>5. SessionRow(id, c, flag) \in Logged
  BY <1>2, <1>3, <1>4 DEF SessionRow, Logged
<1>6. RowsOf(id, c, products) \subseteq Row
  BY <1>3, RowsTyped
<1>7. IsFiniteSet(logged')
  BY <1>1, <1>3, FS_AddElement
<1>8. /\ times' \in [Clients -> [stime : Nat, etime : Nat]]
      /\ \A d \in Clients : times'[d].stime = times[d].stime
  BY <1>1, <1>2
<1>9. \A row \in logged' : row.stime # 0
  <2>1. times[c].stime # 0 /\ SessionRow(id, c, flag).stime = times[c].stime
    BY DEF TypeInv, LogShape, SessionRow
  <2> QED
    BY <1>1, <2>1 DEF TypeInv, LogShape
<1> QED
  BY <1>1, <1>2, <1>5, <1>6, <1>7, <1>8, <1>9

LEMMA InitTypes == ASSUME Init PROVE TypeInv
<1>1. DOMAIN items = {} /\ IsFiniteSet({})
  BY FS_EmptySet DEF Init, NoItems
<1>2. /\ known \subseteq Products
      /\ stock \in [Products -> Int] /\ supplied \in [Products -> Int]
      /\ session \in [Clients -> Nat] /\ cart \in [Clients -> [Products -> Nat]]
      /\ times \in [Clients -> [stime : Nat, etime : Nat]]
  BY DEF Init, NoProducts, NoTimes
<1>3. dialog \in DialogState /\ DialogShape
  BY DEF Init, NoDialog, DialogState, DialogShape
<1>4. /\ active = {} /\ paused = {} /\ logged = {} /\ sold = {} /\ now = 1
      /\ selected = -1 /\ onsale = FALSE
      /\ cashing = -1 /\ report = <<>> /\ pid = 0 /\ sessions = 0 /\ sales = 0
  BY DEF Init
<1>5. report \in Seq(Line)
  BY <1>4
<1>6. \A c \in Clients : session[c] = 0 <=> times[c].stime = 0
  BY DEF Init, NoTimes
<1>7. LogShape
  <2>1. IsFiniteSet(logged) /\ now # 0
    BY <1>1, <1>4
  <2> QED
    BY <1>4, <1>6, <2>1 DEF LogShape
<1>8. TypeOK
  BY <1>1, <1>2, <1>3, <1>4, <1>5 DEF TypeOK
<1> QED
  BY <1>1, <1>3, <1>7, <1>8 DEF TypeInv

\* The prices of some of the items, added up
LEMMA PricesTyped ==
  ASSUME TypeInv, NEW S \in SUBSET DOMAIN items
  PROVE  SumFunction([p \in S |-> items[p].price]) \in Nat
<1>1. IsFiniteSet(S)
  BY FS_Subset DEF TypeInv
<1> DEFINE f == [p \in S |-> items[p].price]
<1>2. (\A p \in S : f[p] \in Nat) /\ DOMAIN f = S
  BY DEF TypeInv, TypeOK, Item
<1> HIDE DEF f
<1>3. Nat \in {Nat, Int}
  OBVIOUS
<1>4. SumFunctionOnSet(f, S) \in Nat
  BY <1>1, <1>2, <1>3, SumTyped
<1> QED
  BY <1>2, <1>4 DEF SumFunction, f

\* ProductAdd and ProductSub, which both tell the record's number and the stock
LEMMA CartTypes ==
  ASSUME TypeInv, NEW c \in Clients \cup {0}, NEW p \in Products, NEW n \in Quantities,
         ProductAdd(c, p, n) \/ ProductSub(c, p, n)
  PROVE  cart' \in [Clients -> [Products -> Nat]] /\ stock' \in [Products -> Int]
<1>1. n \in Nat
  BY AmountsAssumption
<1>2. cart \in [Clients -> [Products -> Nat]] /\ stock \in [Products -> Int]
  BY DEF TypeInv, TypeOK
<1>3. c # 0 => c \in Clients /\ cart[c] \in [Products -> Nat] /\ cart[c][p] \in Nat
  BY <1>2
<1>4. CASE ProductAdd(c, p, n)
  BY <1>1, <1>2, <1>3, <1>4 DEF ProductAdd
<1>5. CASE ProductSub(c, p, n)
  <2> DEFINE k == Returned(c, p, n)
  <2>1. k \in Nat /\ (c # 0 => cart[c][p] - k \in Nat)
    BY <1>1, <1>3 DEF Returned
  <2>2. /\ cart' = IF c = 0 THEN cart ELSE [cart EXCEPT ![c][p] = @ - k]
        /\ stock' = [stock EXCEPT ![p] = @ + k]
    BY <1>5 DEF ProductSub
  <2> HIDE DEF k
  <2> QED
    BY <1>2, <1>3, <2>1, <2>2
<1> QED
  BY <1>4, <1>5

LEMMA SaleTypes ==
  ASSUME TypeInv, NEW p \in Products, NEW n \in Quantities, SaleAdd(p, n) \/ SaleSub(p, n)
  PROVE  /\ DOMAIN items' \subseteq Products /\ IsFiniteSet(DOMAIN items')
         /\ \A q \in DOMAIN items' : items'[q] \in Item
<1>1. n \in Nat
  BY AmountsAssumption
<1>2. /\ DOMAIN items \subseteq Products /\ IsFiniteSet(DOMAIN items)
      /\ \A q \in DOMAIN items : items[q] \in Item
  BY DEF TypeInv, TypeOK
<1>3. CASE SaleAdd(p, n)
  <2> DEFINE more == Amount(p) + n
             item == [amount |-> more, price |-> UnitPrice[p] * more]
  <2>1. items' = [q \in DOMAIN items \cup {p} |-> IF q = p THEN item ELSE items[q]]
    BY <1>3 DEF SaleAdd, WithItem
  <2>2. more \in Nat
    BY <1>1, <1>2 DEF Amount, Item
  <2>3. item \in Item
    BY <2>2, AmountsAssumption, Times DEF Item
  <2> HIDE DEF item
  <2>4. IsFiniteSet(DOMAIN items \cup {p})
    BY <1>2, FS_AddElement
  <2> QED
    BY <1>2, <2>1, <2>3, <2>4
<1>4. CASE SaleSub(p, n)
  <2>1. CASE p \in DOMAIN items
    <3> DEFINE left == IF n >= items[p].amount THEN 0 ELSE items[p].amount - n
    <3>1. items' = [items EXCEPT ![p].amount = left]
      BY <1>4, <2>1 DEF SaleSub
    <3>2. left \in Nat
      BY <1>1, <1>2, <2>1 DEF Item
    <3> HIDE DEF left
    <3>3. DOMAIN items' = DOMAIN items
      BY <3>1
    <3>4. \A q \in DOMAIN items : items'[q] \in Item
      <4>1. ASSUME NEW q \in DOMAIN items PROVE items'[q] \in Item
        <5>1. items[q] \in Item
          BY <1>2
        <5>2. items'[q] = IF q = p THEN [items[q] EXCEPT !.amount = left] ELSE items[q]
          BY <3>1
        <5> QED
          BY <3>2, <5>1, <5>2 DEF Item
      <4> QED
        BY <4>1
    <3> QED
      BY <1>2, <3>3, <3>4
  <2>2. CASE p \notin DOMAIN items
    BY <1>2, <1>4, <2>2 DEF SaleSub
  <2> QED
    BY <2>1, <2>2
<1> QED
  BY <1>3, <1>4

\* The row that is found for a workstation is one of those that have its times.
LEMMA FindIsRow ==
  ASSUME TypeInv, NEW c \in Clients, NEW row \in logged, row.id = Find(c)
  PROVE  \E x \in logged : /\ x.id = Find(c) /\ x.client = c
                           /\ x.stime = times[c].stime /\ x.etime = times[c].etime
<1> DEFINE found == {y.id : y \in {x \in logged : /\ x.client = c
                                                 /\ x.stime = times[c].stime
                                                 /\ x.etime = times[c].etime}}
<1>1. Find(c) = IF found = {} THEN -1 ELSE Min(found)
  BY DEF Find
<1>2. found \subseteq Nat /\ row.id \in Nat
  BY DEF TypeInv, TypeOK, Logged
<1>3. found # {} /\ Find(c) = Min(found)
  BY <1>1, <1>2
<1>4. Min(found) \in found
  BY <1>2, <1>3, LeastNat DEF Min
<1> QED
  BY <1>3, <1>4

LEMMA UnpaidSession ==
  ASSUME TypeInv, NEW c \in Clients, Unpaid(c)
  PROVE  session[c] # 0
<1>1. PICK row \in logged : row.id = Find(c)
  BY DEF Unpaid
<1>2. \E x \in logged : x.stime = times[c].stime
  BY <1>1, FindIsRow
<1> QED
  BY <1>2 DEF TypeInv, LogShape

\* A line of the report handled, for a workstation in use or not
LEMMA ChargeTypes ==
  ASSUME TypeInv, NEW c \in Clients \cup {0}, NEW p \in Products, NEW n \in Quantities,
         Charge(c, p, n)
  PROVE  /\ cart' \in [Clients -> [Products -> Nat]] /\ stock' \in [Products -> Int]
         /\ times' \in [Clients -> [stime : Nat, etime : Nat]]
         /\ \A d \in Clients : times'[d].stime = times[d].stime
         /\ logged' \subseteq Logged /\ IsFiniteSet(logged')
         /\ \A row \in logged' : row.stime # 0
         /\ sold' \subseteq Row
<1>1. /\ cart \in [Clients -> [Products -> Nat]] /\ stock \in [Products -> Int]
      /\ times \in [Clients -> [stime : Nat, etime : Nat]]
      /\ logged \subseteq Logged /\ IsFiniteSet(logged) /\ sold \subseteq Row
      /\ \A row \in logged : row.stime # 0
  BY DEF TypeInv, TypeOK, LogShape
<1>2. CASE ProductAdd(c, p, n) /\ UNCHANGED <<times, logged, sold>>
  BY <1>1, <1>2, CartTypes
<1>3. CASE /\ c \in Clients \ active /\ Unpaid(c)
           /\ ProductAdd(c, p, n)
           /\ LogSession(c, "NOTPAID", SessionsBut(Find(c)), ProductsBut(Find(c)), cart'[c])
  <2>1. cart' \in [Clients -> [Products -> Nat]] /\ stock' \in [Products -> Int]
    BY <1>3, CartTypes
  <2>2. /\ SessionsBut(Find(c)) \in SUBSET logged /\ ProductsBut(Find(c)) \in SUBSET sold
        /\ cart'[c] \in [Products -> Nat] /\ session[c] # 0 /\ c \in Clients
    BY <1>3, <2>1, UnpaidSession DEF SessionsBut, ProductsBut
  <2> QED
    BY <1>3, <2>1, <2>2, LogTypes
<1>4. CASE UNCHANGED <<cart, stock, times, logged, sold>>
  BY <1>1, <1>4
<1> QED
  BY <1>2, <1>3, <1>4 DEF Charge

\* CCL_client_swap: every record is one of the records before.
LEMMA SwapTypes ==
  ASSUME TypeInv, NEW c \in Clients, NEW d \in Clients, Swap(c, d)
  PROVE  TypeInv'
<1> DEFINE other(x) == IF x = c THEN d ELSE IF x = d THEN c ELSE x
<1>1. /\ active' = {x \in Clients : other(x) \in active}
      /\ paused' = {x \in Clients : other(x) \in paused}
      /\ times' = [x \in Clients |-> times[other(x)]]
      /\ cart' = [x \in Clients |-> cart[other(x)]]
      /\ session' = [x \in Clients |-> session[other(x)]]
      /\ selected' = d /\ onsale' = FALSE
      /\ UNCHANGED <<known, stock, supplied, sessions, logged, sold, sales, items, cashing,
                     dialog, report, pid, now>>
  BY DEF Swap, table, log, printing
<1>2. \A x \in Clients : other(x) \in Clients
  OBVIOUS
<1> HIDE DEF other
<1>3. /\ active' \subseteq Clients /\ paused' \subseteq active'
      /\ times' \in [Clients -> [stime : Nat, etime : Nat]]
      /\ cart' \in [Clients -> [Products -> Nat]] /\ session' \in [Clients -> Nat]
  BY <1>1, <1>2 DEF TypeInv, TypeOK
<1>4. /\ \A x \in active' : session'[x] # 0
      /\ \A x \in Clients : session'[x] = 0 <=> times'[x].stime = 0
  BY <1>1, <1>2 DEF TypeInv, LogShape
<1> QED
  BY <1>1, <1>3, <1>4 DEF TypeInv, TypeOK, DialogShape, LogShape

LEMMA SessionTypes ==
  ASSUME TypeInv, Session
  PROVE  TypeInv'
<1>1. ASSUME NEW c \in Clients, Start(c) PROVE TypeInv'
  <2>1. /\ active' = active \cup {c} /\ sessions' = sessions + 1
        /\ session' = [session EXCEPT ![c] = sessions + 1]
        /\ cart' = [cart EXCEPT ![c] = NoProducts]
        /\ times' = [times EXCEPT ![c] = [stime |-> now, etime |-> 0]]
        /\ UNCHANGED <<known, stock, supplied, paused, logged, sold, sales, selected, onsale,
                       items, cashing, dialog, report, pid, now>>
    BY <1>1 DEF Start, table, log, frames, printing
  <2>2. NoProducts \in [Products -> Nat]
    BY DEF NoProducts
  <2>3. /\ \A x \in active' : session'[x] # 0
        /\ \A x \in Clients : session'[x] = 0 <=> times'[x].stime = 0
    <3>1. session'[c] # 0 /\ times'[c].stime # 0
      BY <2>1 DEF TypeInv, TypeOK, LogShape
    <3>2. \A x \in Clients : x # c => session'[x] = session[x] /\ times'[x] = times[x]
      BY <2>1 DEF TypeInv, TypeOK
    <3> QED
      BY <2>1, <3>1, <3>2 DEF TypeInv, TypeOK, LogShape
  <2>4. LogShape'
    BY <2>1, <2>3 DEF TypeInv, LogShape
  <2>5. /\ times' \in [Clients -> [stime : Nat, etime : Nat]]
        /\ session' \in [Clients -> Nat] /\ cart' \in [Clients -> [Products -> Nat]]
    BY <2>1, <2>2 DEF TypeInv, TypeOK
  <2> QED
    BY <2>1, <2>4, <2>5 DEF TypeInv, TypeOK, DialogShape
<1>2. ASSUME NEW c \in Clients, Unstop(c) PROVE TypeInv'
  <2>1. /\ active' = active \cup {c} /\ session[c] # 0
        /\ times' = [times EXCEPT ![c].etime = 0]
        /\ logged' \subseteq logged /\ sold' \subseteq sold
        /\ UNCHANGED <<known, stock, supplied, paused, cart, session, sessions, sales,
                       selected, onsale, items, cashing, dialog, report, pid, now>>
    BY <1>2 DEF Unstop, SessionsBut, ProductsBut, table, frames, printing
  <2>2. /\ times' \in [Clients -> [stime : Nat, etime : Nat]]
        /\ \A x \in Clients : times'[x].stime = times[x].stime
    BY <2>1 DEF TypeInv, TypeOK
  <2>3. IsFiniteSet(logged')
    BY <2>1, FS_Subset DEF TypeInv, LogShape
  <2> QED
    BY <2>1, <2>2, <2>3 DEF TypeInv, TypeOK, DialogShape, LogShape
<1>3. ASSUME NEW c \in Clients, NEW flag \in {"NOTPAID", "PAID"}, Stop(c, flag)
      PROVE  TypeInv'
  <2>1. /\ c \in active \ paused /\ active' = active \ {c}
        /\ LogSession(c, flag, logged, sold, cart[c])
        /\ UNCHANGED <<known, stock, supplied, paused, cart, session, sessions, sales,
                       selected, onsale, items, cashing, dialog, report, pid, now>>
    BY <1>3 DEF Stop, table, frames, printing
  <2>2. session[c] # 0 /\ cart[c] \in [Products -> Nat]
    BY <2>1 DEF TypeInv, TypeOK, LogShape
  <2>3. /\ times' \in [Clients -> [stime : Nat, etime : Nat]]
        /\ \A d \in Clients : times'[d].stime = times[d].stime
        /\ logged' \subseteq Logged /\ IsFiniteSet(logged')
        /\ \A row \in logged' : row.stime # 0
        /\ sold' \subseteq Row
    BY <2>1, <2>2, LogTypes
  <2> QED
    BY <2>1, <2>3 DEF TypeInv, TypeOK, DialogShape, LogShape
<1>4. ASSUME NEW c \in Clients, ExitReset(c) PROVE TypeInv'
  <2>1. /\ active' = active \ {c} /\ paused' = paused \ {c}
        /\ times' = [times EXCEPT ![c] = NoTimes]
        /\ cart' = [cart EXCEPT ![c] = NoProducts]
        /\ session' = [session EXCEPT ![c] = 0]
        /\ UNCHANGED <<known, stock, supplied, sessions, logged, sold, sales, selected,
                       onsale, items, cashing, dialog, report, pid, now>>
    BY <1>4 DEF ExitReset, table, log, frames, printing
  <2>2. /\ NoProducts \in [Products -> Nat]
        /\ NoTimes \in [stime : Nat, etime : Nat] /\ NoTimes.stime = 0
    BY DEF NoProducts, NoTimes
  <2> QED
    BY <2>1, <2>2 DEF TypeInv, TypeOK, DialogShape, LogShape
<1>5. ASSUME NEW c \in Clients, Pause(c) \/ Resume(c) PROVE TypeInv'
  BY <1>5 DEF Pause, Resume, TypeInv, TypeOK, DialogShape, LogShape, table, log, frames,
     printing
<1>6. ASSUME NEW c \in Clients, Select(c) PROVE TypeInv'
  BY <1>6 DEF Select, TypeInv, TypeOK, DialogShape, LogShape, table, clients, log, printing
<1> QED
  BY <1>1, <1>2, <1>3, <1>4, <1>5, <1>6, SwapTypes DEF Session

LEMMA DialogTypes ==
  ASSUME TypeInv, Dialog
  PROVE  TypeInv'
<1>1. ASSUME NEW p \in Products, NEW kind \in {"add", "sub"}, OpenDialog(kind, p)
      PROVE  TypeInv'
  <2>1. /\ dialog' = [kind |-> kind, product |-> p, old |-> 0,
                      client |-> IF onsale THEN 0 ELSE selected]
        /\ onsale \/ selected # -1
        /\ UNCHANGED <<known, stock, supplied, active, paused, times, session, cart,
                       sessions, logged, sold, sales, now, selected, onsale, items, cashing, report, pid>>
    BY <1>1 DEF OpenDialog, table, clients, log, frames, printing
  <2>2. (IF onsale THEN 0 ELSE selected) \in Clients \cup {0}
    BY <2>1 DEF TypeInv, TypeOK
  <2>3. dialog' \in DialogState
    BY <2>1, <2>2 DEF DialogState
  <2> QED
    BY <2>1, <2>2, <2>3 DEF TypeInv, TypeOK, DialogShape, LogShape
<1>2. ASSUME NEW p \in Products, OpenStock(p) PROVE TypeInv'
  <2>1. /\ dialog' = [kind |-> "stock", product |-> p, client |-> -1, old |-> stock[p]]
        /\ UNCHANGED <<known, stock, supplied, active, paused, times, session, cart,
                       sessions, logged, sold, sales, now, selected, onsale, items, cashing, report, pid>>
    BY <1>2 DEF OpenStock, table, clients, log, frames, printing
  <2>2. dialog' \in DialogState
    BY <2>1 DEF DialogState, TypeInv, TypeOK
  <2> QED
    BY <2>1, <2>2 DEF TypeInv, TypeOK, DialogShape, LogShape
<1>3. NoDialog \in DialogState /\ NoDialog.kind = "none"
  BY DEF NoDialog, DialogState
<1>4. ASSUME NEW n \in Quantities, Add(n) \/ Sub(n) PROVE TypeInv'
  <2> DEFINE p == dialog.product
             c == dialog.client
  <2>1. /\ dialog.kind \in {"add", "sub"} /\ dialog' = NoDialog
        /\ UNCHANGED <<known, supplied, active, paused, times, session, sessions, logged,
                       sold, sales, now, selected, onsale, cashing, report, pid>>
        /\ \/ (SaleAdd(p, n) \/ SaleSub(p, n)) /\ UNCHANGED <<cart, stock>>
           \/ (ProductAdd(c, p, n) \/ ProductSub(c, p, n)) /\ UNCHANGED items
    BY <1>4 DEF Add, Sub, log, printing
  <2>2. p \in Products /\ c \in Clients \cup {0}
    BY <2>1 DEF TypeInv, DialogShape
  <2> HIDE DEF p, c
  <2>3. /\ cart' \in [Clients -> [Products -> Nat]] /\ stock' \in [Products -> Int]
        /\ DOMAIN items' \subseteq Products /\ IsFiniteSet(DOMAIN items')
        /\ \A q \in DOMAIN items' : items'[q] \in Item
    <3>1. CASE (SaleAdd(p, n) \/ SaleSub(p, n)) /\ UNCHANGED <<cart, stock>>
      BY <2>2, <3>1, SaleTypes DEF TypeInv, TypeOK
    <3>2. CASE (ProductAdd(c, p, n) \/ ProductSub(c, p, n)) /\ UNCHANGED items
      BY <2>2, <3>2, CartTypes DEF TypeInv, TypeOK
    <3> QED
      BY <2>1, <3>1, <3>2
  <2> QED
    BY <1>3, <2>1, <2>3 DEF TypeInv, TypeOK, DialogShape, LogShape
<1>5. ASSUME NEW n \in Quantities, SetStock(n) PROVE TypeInv'
  <2> DEFINE p == dialog.product
  <2>1. /\ dialog.kind = "stock" /\ dialog' = NoDialog
        /\ stock' = [stock EXCEPT ![p] = dialog.old + n]
        /\ supplied' = [supplied EXCEPT ![p] = @ + n]
        /\ UNCHANGED <<known, active, paused, times, session, cart, sessions, logged,
                       sold, sales, now, selected, onsale, items, cashing, report, pid>>
    BY <1>5 DEF SetStock, NewStock, clients, log, frames, printing
  <2>2. n \in Int /\ dialog.old \in Int /\ p \in Products
    BY <2>1, AmountsAssumption DEF TypeInv, TypeOK, DialogShape, DialogState
  <2>3. stock \in [Products -> Int] /\ supplied \in [Products -> Int]
    BY DEF TypeInv, TypeOK
  <2> HIDE DEF p
  <2>4. stock' \in [Products -> Int] /\ supplied' \in [Products -> Int]
    BY <2>1, <2>2, <2>3
  <2> QED
    BY <1>3, <2>1, <2>4 DEF TypeInv, TypeOK, DialogShape, LogShape
<1>6. CASE CancelDialog
  BY <1>3, <1>6 DEF CancelDialog, TypeInv, TypeOK, DialogShape, LogShape, table, clients, log, frames,
     printing
<1> QED
  BY <1>1, <1>2, <1>4, <1>5, <1>6 DEF Dialog

LEMMA ItemsTyped ==
  ASSUME TypeInv
  PROVE  /\ sales + 1 \in Nat
         /\ \A p \in DOMAIN items :
              p \in Products /\ items[p].amount \in Nat /\ items[p].price \in Nat
<1>1. sales \in Nat /\ DOMAIN items \subseteq Products
  BY DEF TypeInv, TypeOK
<1>2. \A p \in DOMAIN items : items[p] \in Item
  BY DEF TypeInv, TypeOK
<1> QED
  BY <1>1, <1>2 DEF Item

LEMMA SaleFrameTypes ==
  ASSUME TypeInv, Sale
  PROVE  TypeInv'
<1>1. CASE NewSale
  <2>1. DOMAIN items' = {} /\ IsFiniteSet({})
    BY <1>1, FS_EmptySet DEF NewSale, NoItems
  <2> QED
    BY <1>1, <2>1 DEF NewSale, TypeInv, TypeOK, DialogShape, LogShape, table, clients, log, printing
<1>2. CASE CompleteSale
  <2>1. Shown \in Nat
    BY PricesTyped DEF Shown
  <2> QED
    BY <1>2, <2>1 DEF CompleteSale, TypeInv, TypeOK, DialogShape, LogShape, table, clients, log, printing
<1>3. CASE CashSale
  <2> DEFINE new == {[row |-> 0, session |-> 0, sale |-> sales + 1, client |-> 0, product |-> p,
                      amount |-> items[p].amount, price |-> items[p].price] :
                     p \in DOMAIN items}
  <2>1. /\ sold' = sold \cup new /\ sales' = sales + 1 /\ cashing' = -1
        /\ stock' = [p \in Products |-> stock[p] - Amount(p)]
        /\ UNCHANGED <<known, supplied, active, paused, times, session, cart, sessions,
                       logged, selected, onsale, items, dialog, report, pid, now>>
    BY <1>3 DEF CashSale, clients, printing
  <2>2. new \subseteq Row
    BY ItemsTyped DEF Row
  <2>3. \A p \in Products : stock[p] \in Int /\ Amount(p) \in Int
    BY DEF TypeInv, TypeOK, Item, Amount
  <2> HIDE DEF new
  <2>4. /\ sold' \subseteq Row /\ sales' \in Nat /\ cashing' \in Nat \cup {-1}
        /\ stock' \in [Products -> Int]
    BY <2>1, <2>2, <2>3 DEF TypeInv, TypeOK
  <2>5. DialogShape' /\ LogShape' /\ IsFiniteSet(DOMAIN items')
    BY <2>1 DEF TypeInv, DialogShape, LogShape
  <2> QED
    BY <2>1, <2>4, <2>5 DEF TypeInv, TypeOK
<1>4. CASE CancelSale
  BY <1>4 DEF CancelSale, TypeInv, TypeOK, DialogShape, LogShape, table, clients, log, printing
<1> QED
  BY <1>1, <1>2, <1>3, <1>4 DEF Sale

LEMMA PrintTypes ==
  ASSUME TypeInv, PrintServer
  PROVE  TypeInv'
<1>1. report' \in Seq(Line)
  <2>1. ASSUME NEW k \in 1..MaxLines, NEW lines \in [1..k -> Line], Report(lines)
        PROVE  report' \in Seq(Line)
    <3>1. k \in Nat /\ lines \in Seq(Line)
      BY AmountsAssumption
    <3> QED
      BY <2>1, <3>1 DEF Report
  <2>2. CASE PrintLine
    BY <2>2 DEF PrintLine, TypeInv, TypeOK
  <2> QED
    BY <2>1, <2>2 DEF PrintServer
<1>2. ASSUME NEW lines, Report(lines) PROVE TypeInv'
  BY <1>1, <1>2 DEF Report, TypeInv, TypeOK, DialogShape, LogShape, table, clients, log, frames
<1>3. CASE PrintLine
  <2> DEFINE l == Head(report)
             p == IF l.printer \in known \/ pid = 0 THEN l.printer ELSE pid
  <2>1. l \in Line
    BY <1>3 DEF PrintLine, TypeInv, TypeOK
  <2>2. /\ l.client \in Clients \cup {0} /\ l.pages \in Quantities
        /\ p \in Products
    BY <2>1, IdsAssumption DEF Line, TypeInv, TypeOK
  <2>3. /\ pid' = p /\ known' = known \cup {p} /\ Charge(l.client, p, l.pages)
        /\ onsale' \in BOOLEAN
        /\ UNCHANGED <<supplied, active, paused, session, sessions, sales, selected, items,
                       cashing, dialog, now>>
    BY <1>3 DEF PrintLine
  <2> HIDE DEF l, p
  <2>4. /\ cart' \in [Clients -> [Products -> Nat]] /\ stock' \in [Products -> Int]
        /\ times' \in [Clients -> [stime : Nat, etime : Nat]]
        /\ \A d \in Clients : times'[d].stime = times[d].stime
        /\ \A row \in logged' : row.stime # 0
        /\ logged' \subseteq Logged /\ IsFiniteSet(logged')
        /\ sold' \subseteq Row
    BY <2>2, <2>3, ChargeTypes
  <2> QED
    BY <1>1, <2>2, <2>3, <2>4 DEF TypeInv, TypeOK, DialogShape, LogShape
<1> QED
  BY <1>2, <1>3 DEF PrintServer

LEMMA NextTypes ==
  ASSUME TypeInv, [Next]_vars
  PROVE  TypeInv'
<1>1. CASE UNCHANGED vars
  BY <1>1 DEF vars, TypeInv, TypeOK, DialogShape, LogShape, table, clients, log, frames,
     printing
<1>2. ASSUME NEW x \in logged, Pay(x) PROVE TypeInv'
  <2> DEFINE f == [row \in logged |-> IF row.id = x.id THEN [row EXCEPT !.flag = "PAID"] ELSE row]
  <2>1. logged' = {f[row] : row \in logged}
    BY <1>2 DEF Pay
  <2>2. \A row \in logged : f[row] \in Logged /\ f[row].stime # 0
    <3>1. \A row \in logged : row \in Logged /\ row.stime # 0
      BY DEF TypeInv, TypeOK, LogShape
    <3> QED
      BY <3>1 DEF Logged
  <2> HIDE DEF f
  <2>3. logged' \subseteq Logged /\ IsFiniteSet(logged') /\ \A row \in logged' : row.stime # 0
    BY <2>1, <2>2, ImageFinite DEF TypeInv, LogShape
  <2> QED
    BY <1>2, <2>3 DEF Pay, TypeInv, TypeOK, DialogShape, LogShape, table, clients, printing
<1>3. CASE Tick
  BY <1>3 DEF Tick, TypeInv, TypeOK, DialogShape, LogShape, table, clients, log, frames,
     printing
<1>4. CASE Session \/ Dialog \/ Sale \/ PrintServer
  BY <1>4, SessionTypes, DialogTypes, SaleFrameTypes, PrintTypes
<1> QED
  BY <1>1, <1>2, <1>3, <1>4 DEF Next, Counter

\* Types, for any café: no quantity of a record or of a row is ever negative, a
\* return takes no more than is there, a sale's total is a number and a session's
\* row has an id above zero, whatever mishaps happen and however a print job comes
\* between.
THEOREM StockTypes == Spec => []TypeOK
<1>1. Init => TypeInv
  BY InitTypes
<1>2. TypeInv /\ [Next]_vars => TypeInv'
  BY NextTypes
<1>3. TypeInv => TypeOK
  BY DEF TypeInv
<1> QED
  BY <1>1, <1>2, <1>3, PTL DEF Spec

-----------------------------------------------------------------------------
(* The log *)

\* No ended session moves, and no two of a workstation have the same times.
Orderly == Mishaps \cap {"quick", "moved"} = {}

Unlisted(rows, s) == \A row \in rows : row.session # s
But(rows, s) == {row \in rows : row.session # s}

SessionsNumbered ==
  \A c, d \in Clients :
    /\ session[c] <= sessions
    /\ c # d /\ session[c] # 0 => session[c] # session[d]

SameTimes(x, y) == x.client = y.client /\ x.stime = y.stime /\ x.etime = y.etime

\* No two rows of sessionslog have the same id, session or times.
LoggedApart ==
  \A x, y \in logged :
    /\ x.session <= sessions
    /\ x.id = y.id \/ x.session = y.session \/ SameTimes(x, y) => x = y

\* A session in use is not in the log.
InUseUnlogged ==
  \A c \in active : Unlisted(logged, session[c]) /\ Unlisted(sold, session[c])

\* One that has ended is, with the times of its record.
IsOf(x, c) ==
  /\ x.session = session[c] /\ x.client = c
  /\ x.stime = times[c].stime /\ x.etime = times[c].etime
EndedLogged ==
  \A c \in Clients \ active : session[c] # 0 => \E x \in logged : IsOf(x, c)

\* The products' rows are those of a session in the log, or of a sale.
SoldListed ==
  \A r \in sold :
    IF r.sale = 0
    THEN \E x \in logged : x.id = r.row /\ x.session = r.session
    ELSE r.row = 0 /\ r.session = 0 /\ r.sale <= sales

Inv ==
  /\ SessionsNumbered /\ LoggedApart
  /\ InUseUnlogged /\ EndedLogged
  /\ SoldListed /\ LoggedOnce

\* What the lookup finds of a session that has ended are its own rows.
LEMMA FindOwn ==
  ASSUME TypeInv, Inv, NEW c \in Clients \ active, session[c] # 0
  PROVE  /\ SessionsBut(Find(c)) = But(logged, session[c])
         /\ ProductsBut(Find(c)) = But(sold, session[c])
<1> DEFINE s == session[c]
           matching == {x \in logged : /\ x.client = c
                                      /\ x.stime = times[c].stime
                                      /\ x.etime = times[c].etime}
           found == {y.id : y \in matching}
<1>1. PICK x \in logged : IsOf(x, c)
  BY DEF Inv, EndedLogged
<1>2. \A y \in logged : y.id = x.id \/ y.session = x.session \/ SameTimes(y, x) => y = x
  BY DEF Inv, LoggedApart
<1>3. matching = {x}
  BY <1>1, <1>2 DEF IsOf, SameTimes
<1>4. Find(c) = IF found = {} THEN -1 ELSE Min(found)
  BY DEF Find
<1>5. found = {x.id} /\ x.id \in Nat \ {0}
  BY <1>3 DEF TypeInv, TypeOK, Logged
<1> HIDE DEF found
<1>6. Find(c) = x.id
  BY <1>4, <1>5 DEF Min
<1>7. SessionsBut(Find(c)) = But(logged, s)
  BY <1>1, <1>2, <1>6 DEF SessionsBut, But, IsOf
<1>8. \A r \in sold : r.row = x.id <=> r.session = s
  <2> SUFFICES ASSUME NEW r \in sold PROVE r.row = x.id <=> r.session = s
    OBVIOUS
  <2>1. CASE r.sale = 0
    <3>1. PICK y \in logged : y.id = r.row /\ y.session = r.session
      BY <2>1 DEF Inv, SoldListed
    <3> QED
      BY <1>1, <1>2, <3>1 DEF IsOf
  <2>2. CASE r.sale # 0
    BY <1>5, <2>2 DEF Inv, SoldListed
  <2> QED
    BY <2>1, <2>2
<1>9. ProductsBut(Find(c)) = But(sold, s)
  BY <1>6, <1>8 DEF ProductsBut, But
<1> QED
  BY <1>7, <1>9

LEMMA UnlistedBut == ASSUME NEW rows, NEW s, Unlisted(rows, s) PROVE But(rows, s) = rows
  BY DEF Unlisted, But

LEMMA RowsOfSession ==
  ASSUME NEW id, NEW c, NEW products
  PROVE  /\ \A r \in RowsOf(id, c, products) :
              r.row = id /\ r.session = session[c] /\ r.sale = 0
         /\ \A r1, r2 \in RowsOf(id, c, products) : r1.product = r2.product => r1 = r2
  BY DEF RowsOf

\* CCL_client_stop and CCL_log_session of a session whose rows, if it had any, were
\* cleared
LEMMA LogInv ==
  ASSUME TypeInv, Inv, Orderly, NEW c \in Clients, session[c] # 0,
         NEW flag \in {"NOTPAID", "PAID"}, NEW products,
         OwnTimes(c, But(logged, session[c])),
         LogSession(c, flag, But(logged, session[c]), But(sold, session[c]), products),
         active' = active \ {c}, UNCHANGED <<session, sessions, sales>>
  PROVE  Inv'
<1> DEFINE s == session[c]
           rows == But(logged, s)
           entries == But(sold, s)
           id == NextId(rows)
           new == RowsOf(id, c, products)
<1>0. PICK x : x = SessionRow(id, c, flag)
  OBVIOUS
<1>1. /\ times' = [times EXCEPT ![c].etime = now]
      /\ logged' = rows \cup {x}
      /\ sold' = entries \cup new
  BY <1>0 DEF LogSession
<1>2. \A y \in rows : y.id < id /\ y.id \in Nat /\ id \in Nat
  <2>1. IsFiniteSet(rows) /\ \A y \in rows : y.id \in Nat
    <3>1. rows \subseteq logged
      BY DEF But
    <3> QED
      BY <3>1, FS_Subset DEF TypeInv, TypeOK, LogShape, Logged
  <2> HIDE DEF rows
  <2> QED
    BY <2>1, NextIdPositive
<1>3. /\ x.id = id /\ x.session = s /\ x.client = c
      /\ x.stime = times[c].stime /\ x.etime = now
  BY <1>0 DEF SessionRow
<1>4. /\ \A r \in new : r.row = id /\ r.session = s /\ r.sale = 0
      /\ \A r1, r2 \in new : r1.product = r2.product => r1 = r2
  BY RowsOfSession
<1>5. /\ \A y \in rows : y \in logged /\ y.session # s
      /\ \A y \in logged : y.session # s => y \in rows
      /\ \A r \in entries : r \in sold /\ r.session # s
  BY DEF But
<1>6. /\ times \in [Clients -> [stime : Nat, etime : Nat]]
      /\ times'[c].stime = times[c].stime /\ times'[c].etime = now
      /\ \A d \in Clients : d # c => times'[d] = times[d]
  BY <1>1 DEF TypeInv, TypeOK
<1>7. \A y \in rows : ~SameTimes(x, y) /\ ~SameTimes(y, x)
  BY <1>3 DEF OwnTimes, Orderly, SameTimes
<1> HIDE DEF id, new, rows, entries, s
<1>8. SessionsNumbered'
  BY DEF Inv, SessionsNumbered
<1>9. LoggedApart'
  <2>1. \A y \in rows : y.id # x.id /\ y.session # x.session
    BY <1>2, <1>3, <1>5
  <2>2. x.session <= sessions
    BY <1>3 DEF Inv, SessionsNumbered, s
  <2> QED
    BY <1>1, <1>5, <1>7, <2>1, <2>2 DEF Inv, LoggedApart, SameTimes
<1>10. InUseUnlogged'
  <2>1. \A d \in active' : d \in active /\ session[d] # s
    BY DEF Inv, SessionsNumbered, TypeInv, TypeOK, s
  <2> QED
    BY <1>1, <1>3, <1>4, <1>5, <2>1 DEF Inv, InUseUnlogged, Unlisted
<1>11. EndedLogged'
  <2>1. IsOf(x, c)'
    BY <1>3, <1>6 DEF IsOf, s
  <2>2. ASSUME NEW d \in Clients \ active', session'[d] # 0, d # c
        PROVE  \E y \in logged' : IsOf(y, d)'
    <3>1. session[d] # s /\ d \in Clients \ active
      BY <2>2 DEF Inv, SessionsNumbered, s
    <3>2. PICK y \in logged : IsOf(y, d)
      BY <2>2, <3>1 DEF Inv, EndedLogged
    <3> QED
      BY <1>1, <1>5, <1>6, <2>2, <3>1, <3>2 DEF IsOf
  <2> QED
    BY <1>1, <2>1, <2>2 DEF EndedLogged
<1>12. SoldListed'
  BY <1>1, <1>3, <1>4, <1>5 DEF Inv, SoldListed
<1>13. LoggedOnce'
  BY <1>1, <1>4, <1>5 DEF Inv, LoggedOnce
<1> QED
  BY <1>8, <1>9, <1>10, <1>11, <1>12, <1>13 DEF Inv

LEMMA StopInv ==
  ASSUME TypeInv, Inv, Orderly, NEW c \in Clients, NEW flag \in {"NOTPAID", "PAID"},
         Stop(c, flag)
  PROVE  Inv'
<1>1. /\ c \in active /\ OwnTimes(c, logged) /\ active' = active \ {c}
      /\ LogSession(c, flag, logged, sold, cart[c])
      /\ UNCHANGED <<session, sessions, sales>>
  BY DEF Stop
<1>2. session[c] # 0
  BY <1>1 DEF TypeInv, LogShape
<1>3. But(logged, session[c]) = logged /\ But(sold, session[c]) = sold
  BY <1>1, UnlistedBut DEF Inv, InUseUnlogged
<1> QED
  BY <1>1, <1>2, <1>3, LogInv

\* CCL_client_start: the new session is in no row.
LEMMA StartInv ==
  ASSUME TypeInv, Inv, NEW c \in Clients, Start(c)
  PROVE  Inv'
<1>1. /\ c \notin active /\ active' = active \cup {c}
      /\ times' = [times EXCEPT ![c] = [stime |-> now, etime |-> 0]]
      /\ sessions' = sessions + 1
      /\ session' = [session EXCEPT ![c] = sessions + 1]
      /\ UNCHANGED <<logged, sold, sales>>
  BY DEF Start, log
<1>2. /\ times \in [Clients -> [stime : Nat, etime : Nat]]
      /\ session \in [Clients -> Nat] /\ sessions \in Nat /\ active \subseteq Clients
      /\ \A x \in logged : x.session \in Nat \ {0}
  BY DEF TypeInv, TypeOK, Logged
<1>3. /\ \A d \in Clients : session[d] <= sessions
      /\ \A x \in logged : x.session <= sessions
  BY DEF Inv, SessionsNumbered, LoggedApart
<1>4. \A r \in sold : r.session \in Nat /\ r.session <= sessions
  <2> SUFFICES ASSUME NEW r \in sold PROVE r.session \in Nat /\ r.session <= sessions
    OBVIOUS
  <2>1. r.session = 0 \/ \E x \in logged : x.session = r.session
    BY DEF Inv, SoldListed
  <2> QED
    BY <1>2, <1>3, <2>1
<1>5. /\ session'[c] = sessions + 1
      /\ \A d \in Clients : d # c => session'[d] = session[d] /\ times'[d] = times[d]
  BY <1>1, <1>2
<1>6. SessionsNumbered'
  BY <1>1, <1>2, <1>3, <1>5 DEF Inv, SessionsNumbered
<1>7. LoggedApart'
  BY <1>1, <1>2, <1>3 DEF Inv, LoggedApart, SameTimes
<1>8. InUseUnlogged'
  <2>1. Unlisted(logged, sessions + 1) /\ Unlisted(sold, sessions + 1)
    BY <1>2, <1>3, <1>4 DEF Unlisted
  <2> QED
    BY <1>1, <1>2, <1>5, <2>1 DEF Inv, InUseUnlogged
<1>9. EndedLogged'
  BY <1>1, <1>5 DEF Inv, EndedLogged, IsOf
<1>10. SoldListed' /\ LoggedOnce'
  BY <1>1 DEF Inv, SoldListed, LoggedOnce
<1> QED
  BY <1>6, <1>7, <1>8, <1>9, <1>10 DEF Inv

\* CCL_client_unstop, CCL_log_session_clear
LEMMA UnstopInv ==
  ASSUME TypeInv, Inv, NEW c \in Clients, Unstop(c)
  PROVE  Inv'
<1> DEFINE s == session[c]
<1>1. /\ c \notin active /\ s # 0 /\ active' = active \cup {c}
      /\ times' = [times EXCEPT ![c].etime = 0]
      /\ logged' = But(logged, s) /\ sold' = But(sold, s)
      /\ UNCHANGED <<session, sessions, sales>>
  BY FindOwn DEF Unstop
<1>2. /\ \A x : x \in logged' <=> x \in logged /\ x.session # s
      /\ \A r : r \in sold' <=> r \in sold /\ r.session # s
  BY <1>1 DEF But
<1>3. \A d \in Clients : d # c => times'[d] = times[d] /\ session[d] # s
  BY <1>1 DEF TypeInv, TypeOK, Inv, SessionsNumbered
<1> HIDE DEF s
<1>4. SessionsNumbered'
  BY <1>1 DEF Inv, SessionsNumbered
<1>5. LoggedApart'
  BY <1>1, <1>2 DEF Inv, LoggedApart, SameTimes
<1>6. InUseUnlogged'
  BY <1>1, <1>2 DEF Inv, InUseUnlogged, Unlisted, s
<1>7. EndedLogged'
  <2> SUFFICES ASSUME NEW d \in Clients \ active', session'[d] # 0
               PROVE  \E x \in logged' : IsOf(x, d)'
    BY DEF EndedLogged
  <2>1. d # c /\ d \in Clients \ active
    BY <1>1
  <2>2. PICK x \in logged : IsOf(x, d)
    BY <1>1, <2>1 DEF Inv, EndedLogged
  <2> QED
    BY <1>1, <1>2, <1>3, <2>1, <2>2 DEF IsOf
<1>8. SoldListed'
  BY <1>1, <1>2 DEF Inv, SoldListed
<1>9. LoggedOnce'
  BY <1>2 DEF Inv, LoggedOnce
<1> QED
  BY <1>4, <1>5, <1>6, <1>7, <1>8, <1>9 DEF Inv

\* CCL_client_reset
LEMMA ResetInv ==
  ASSUME TypeInv, Inv, NEW c \in Clients, ExitReset(c)
  PROVE  Inv'
<1>1. /\ active' = active \ {c}
      /\ times' = [times EXCEPT ![c] = NoTimes]
      /\ session' = [session EXCEPT ![c] = 0]
      /\ UNCHANGED <<logged, sold, sales, sessions>>
  BY DEF ExitReset, log
<1>2. /\ session'[c] = 0
      /\ \A d \in Clients : d # c => session'[d] = session[d] /\ times'[d] = times[d]
  BY <1>1 DEF TypeInv, TypeOK
<1>3. SessionsNumbered'
  <2>1. 0 <= sessions
    BY DEF TypeInv, TypeOK
  <2> QED
    BY <1>1, <1>2, <2>1 DEF Inv, SessionsNumbered
<1>4. InUseUnlogged'
  BY <1>1, <1>2 DEF Inv, InUseUnlogged, TypeInv, TypeOK
<1>5. EndedLogged'
  BY <1>1, <1>2 DEF Inv, EndedLogged, IsOf
<1>6. LoggedApart' /\ SoldListed' /\ LoggedOnce'
  BY <1>1 DEF Inv, LoggedApart, SameTimes, SoldListed, LoggedOnce
<1> QED
  BY <1>3, <1>4, <1>5, <1>6 DEF Inv

\* CCL_client_swap of sessions in use, or none
LEMMA SwapInv ==
  ASSUME TypeInv, Inv, Orderly, NEW c \in Clients, NEW d \in Clients, Swap(c, d)
  PROVE  Inv'
<1> DEFINE other(x) == IF x = c THEN d ELSE IF x = d THEN c ELSE x
<1>1. /\ ~Ended(c) /\ ~Ended(d)
      /\ active' = {x \in Clients : other(x) \in active}
      /\ times' = [x \in Clients |-> times[other(x)]]
      /\ session' = [x \in Clients |-> session[other(x)]]
      /\ UNCHANGED <<logged, sold, sales, sessions>>
  BY DEF Swap, log, Orderly
<1>2. /\ \A x \in Clients : other(x) \in Clients
      /\ \A x, y \in Clients : x # y => other(x) # other(y)
      /\ \A x \in Clients : other(x) = x \/ ~Ended(other(x))
  BY <1>1
<1> HIDE DEF other
<1>3. SessionsNumbered'
  BY <1>1, <1>2 DEF Inv, SessionsNumbered
<1>4. InUseUnlogged'
  BY <1>1, <1>2 DEF Inv, InUseUnlogged
<1>5. EndedLogged'
  <2> SUFFICES ASSUME NEW x \in Clients \ active', session'[x] # 0
               PROVE  \E y \in logged' : IsOf(y, x)'
    BY DEF EndedLogged
  <2>1. other(x) \notin active /\ session[other(x)] # 0
    BY <1>1
  <2>2. other(x) = x
    BY <1>2, <2>1 DEF Ended
  <2> QED
    BY <1>1, <2>1, <2>2 DEF Inv, EndedLogged, IsOf
<1>6. LoggedApart' /\ SoldListed' /\ LoggedOnce'
  BY <1>1 DEF Inv, LoggedApart, SameTimes, SoldListed, LoggedOnce
<1> QED
  BY <1>3, <1>4, <1>5, <1>6 DEF Inv

\* A session that is paid keeps its row.
LEMMA PayInv ==
  ASSUME TypeInv, Inv, NEW x \in logged, Pay(x)
  PROVE  Inv'
<1> DEFINE f(row) == IF row.id = x.id THEN [row EXCEPT !.flag = "PAID"] ELSE row
<1>1. /\ logged' = {f(row) : row \in logged}
      /\ UNCHANGED <<active, times, session, sessions, sold, sales>>
  BY DEF Pay, clients
<1>2. \A row \in logged :
        /\ f(row).id = row.id /\ f(row).session = row.session /\ f(row).client = row.client
        /\ f(row).stime = row.stime /\ f(row).etime = row.etime
  BY DEF TypeInv, TypeOK, Logged
<1> HIDE DEF f
<1>3. LoggedApart'
  BY <1>1, <1>2 DEF Inv, LoggedApart, SameTimes
<1>4. InUseUnlogged'
  BY <1>1, <1>2 DEF Inv, InUseUnlogged, Unlisted
<1>5. EndedLogged'
  BY <1>1, <1>2 DEF Inv, EndedLogged, IsOf
<1>6. SoldListed'
  BY <1>1, <1>2 DEF Inv, SoldListed
<1>7. SessionsNumbered' /\ LoggedOnce'
  BY <1>1 DEF Inv, SessionsNumbered, LoggedOnce
<1> QED
  BY <1>3, <1>4, <1>5, <1>6, <1>7 DEF Inv

\* A sale has a number of its own.
LEMMA CashInv ==
  ASSUME TypeInv, Inv, CashSale
  PROVE  Inv'
<1> DEFINE new == {[row |-> 0, session |-> 0, sale |-> sales + 1, client |-> 0, product |-> p,
                    amount |-> items[p].amount, price |-> items[p].price] :
                   p \in DOMAIN items}
<1>1. /\ sold' = sold \cup new /\ sales' = sales + 1
      /\ UNCHANGED <<active, times, session, sessions, logged>>
  BY DEF CashSale, clients
<1>2. /\ sales \in Nat
      /\ \A r \in new : r.row = 0 /\ r.session = 0 /\ r.sale = sales + 1
      /\ \A r1, r2 \in new : r1.product = r2.product => r1 = r2
  BY DEF TypeInv, TypeOK
<1>3. \A r \in sold : r.sale \in Nat /\ r.sale <= sales
  BY DEF TypeInv, TypeOK, Row, Inv, SoldListed
<1> HIDE DEF new
<1>4. InUseUnlogged'
  BY <1>1, <1>2 DEF Inv, InUseUnlogged, Unlisted, TypeInv, LogShape
<1>5. SoldListed'
  BY <1>1, <1>2, <1>3 DEF Inv, SoldListed
<1>6. LoggedOnce'
  BY <1>1, <1>2, <1>3 DEF Inv, LoggedOnce
<1>7. SessionsNumbered' /\ LoggedApart' /\ EndedLogged'
  BY <1>1 DEF Inv, SessionsNumbered, LoggedApart, SameTimes, EndedLogged, IsOf
<1> QED
  BY <1>4, <1>5, <1>6, <1>7 DEF Inv

LEMMA InvKept ==
  ASSUME Inv, UNCHANGED <<active, times, session, sessions, logged, sold, sales>>
  PROVE  Inv'
  BY DEF Inv, SessionsNumbered, LoggedApart, SameTimes, InUseUnlogged, Unlisted,
     EndedLogged, IsOf, SoldListed, LoggedOnce

\* A line of the report: the session in use, or the ended one logged again
LEMMA PrintInv ==
  ASSUME TypeInv, Inv, Orderly, PrintLine
  PROVE  Inv'
<1> DEFINE c == Head(report).client
<1>1. UNCHANGED <<active, session, sessions, sales>>
  BY DEF PrintLine
<1>2. \/ UNCHANGED <<times, logged, sold>>
      \/ /\ c \in Clients \ active /\ Unpaid(c)
         /\ OwnTimes(c, SessionsBut(Find(c)))
         /\ LogSession(c, "NOTPAID", SessionsBut(Find(c)), ProductsBut(Find(c)), cart'[c])
  BY DEF PrintLine, Charge
<1> HIDE DEF c
<1>3. CASE UNCHANGED <<times, logged, sold>>
  BY <1>1, <1>3, InvKept
<1>4. CASE /\ c \in Clients \ active /\ Unpaid(c)
           /\ OwnTimes(c, SessionsBut(Find(c)))
           /\ LogSession(c, "NOTPAID", SessionsBut(Find(c)), ProductsBut(Find(c)), cart'[c])
  <2>1. session[c] # 0
    BY <1>4, UnpaidSession
  <2>2. /\ SessionsBut(Find(c)) = But(logged, session[c])
        /\ ProductsBut(Find(c)) = But(sold, session[c])
    BY <1>4, <2>1, FindOwn
  <2>3. active' = active \ {c}
    BY <1>1, <1>4
  <2> QED
    BY <1>1, <1>4, <2>1, <2>2, <2>3, LogInv
<1> QED
  BY <1>2, <1>3, <1>4

LEMMA InvStep ==
  ASSUME TypeInv, Inv, Orderly, [Next]_vars
  PROVE  Inv'
<1>1. CASE UNCHANGED vars \/ Tick
  BY <1>1, InvKept DEF vars, Tick, clients, log
<1>2. CASE Session
  <2>1. ASSUME NEW c \in Clients, Pause(c) \/ Resume(c) \/ Select(c) PROVE Inv'
    BY <2>1, InvKept DEF Pause, Resume, Select, clients, log
  <2> QED
    BY <1>2, <2>1, StartInv, StopInv, UnstopInv, ResetInv, SwapInv DEF Session
<1>3. CASE Dialog
  BY <1>3, InvKept DEF Dialog, OpenDialog, OpenStock, Add, Sub, SetStock, CancelDialog,
     clients, log
<1>4. CASE NewSale \/ CompleteSale \/ CancelSale
  BY <1>4, InvKept DEF NewSale, CompleteSale, CancelSale, clients, log
<1>5. ASSUME NEW lines, Report(lines) PROVE Inv'
  BY <1>5, InvKept DEF Report, clients, log
<1> QED
  BY <1>1, <1>2, <1>3, <1>4, <1>5, PayInv, CashInv, PrintInv
  DEF Next, Counter, Sale, PrintServer

LEMMA InitInv == ASSUME Init PROVE Inv
  BY DEF Init, Inv, SessionsNumbered, LoggedApart, InUseUnlogged, EndedLogged, SoldListed,
     LoggedOnce

\* The log, for any café in which no ended session moves to another workstation and
\* no two sessions of a workstation have the same times: a session that is stopped,
\* undone, moved while it runs and logged anew by a late print job is still charged
\* once for each product.
THEOREM ProductsLoggedOnce ==
  ASSUME Mishaps \cap {"quick", "moved"} = {}
  PROVE  Spec => []LoggedOnce
<1>1. Init => TypeInv /\ Inv
  BY InitTypes, InitInv
<1>2. TypeInv /\ Inv /\ [Next]_vars => (TypeInv /\ Inv)'
  BY NextTypes, InvStep DEF Orderly
<1>3. Inv => LoggedOnce
  BY DEF Inv
<1> QED
  BY <1>1, <1>2, <1>3, PTL DEF Spec

\* In such a café the products listed under the id of a session are its own,
\* however many ids were cleared and given again: what is taken up again takes its
\* own products' rows with it, and no other's.
THEOREM ProductsNotMixed ==
  ASSUME Mishaps \cap {"quick", "moved"} = {}
  PROVE  Spec => []ProductsOfSession
<1>1. Init => TypeInv /\ Inv
  BY InitTypes, InitInv
<1>2. TypeInv /\ Inv /\ [Next]_vars => (TypeInv /\ Inv)'
  BY NextTypes, InvStep DEF Orderly
<1>3. Inv => ProductsOfSession
  <2> SUFFICES ASSUME Inv, NEW r \in sold, r.sale = 0
               PROVE  {x.session : x \in {y \in logged : y.id = r.row}} = {r.session}
    BY DEF ProductsOfSession
  <2>1. PICK x \in logged : x.id = r.row /\ x.session = r.session
    BY DEF Inv, SoldListed
  <2>2. \A y \in logged : y.id = r.row => y = x
    BY <2>1 DEF Inv, LoggedApart
  <2> QED
    BY <2>1, <2>2
<1> QED
  BY <1>1, <1>2, <1>3, PTL DEF Spec

-----------------------------------------------------------------------------
(* The stock *)

\* What is out of the stock: with the workstations in act, and in the log's rows
OfProduct(rows, p) == {row \in rows : row.product = p}
Held(products, act, p) == SumFunctionOnSet([c \in Clients |-> products[c][p]], act)
Amounts == [row \in Row |-> row.amount]
SoldOf(rows, p) == SumFunctionOnSet(Amounts, OfProduct(rows, p))

LEMMA SumsNamed ==
  ASSUME TypeInv, IsFiniteSet(active), NEW p \in Products, IsFiniteSet(OfProduct(sold, p))
  PROVE  InCarts(p) = Held(cart, active, p) /\ InLog(p) = SoldOf(sold, p)
<1>1. InCarts(p) = Held(cart, active, p)
  <2> DEFINE f == [c \in active |-> cart[c][p]]
             g == [c \in Clients |-> cart[c][p]]
  <2>1. DOMAIN f = active /\ \A c \in active : f[c] = g[c]
    BY DEF TypeInv, TypeOK
  <2> HIDE DEF f, g
  <2>2. SumFunctionOnSet(f, active) = SumFunctionOnSet(g, active)
    BY <2>1, SumSame
  <2> QED
    BY <2>1, <2>2 DEF InCarts, Held, SumFunction, f, g
<1>2. InLog(p) = SoldOf(sold, p)
  <2> DEFINE S == OfProduct(sold, p)
             f == [row \in S |-> row.amount]
  <2>1. DOMAIN f = S /\ \A row \in S : f[row] = Amounts[row]
    BY DEF TypeInv, TypeOK, Amounts, OfProduct
  <2>2. InLog(p) = SumFunction(f)
    BY DEF InLog, OfProduct
  <2> HIDE DEF f, S
  <2>3. IsFiniteSet(S)
    BY DEF S
  <2>4. SumFunctionOnSet(f, S) = SumFunctionOnSet(Amounts, S)
    BY <2>1, <2>3, SumSame
  <2> QED
    BY <2>1, <2>2, <2>4 DEF SoldOf, SumFunction, S
<1> QED
  BY <1>1, <1>2

LEMMA SumsTyped ==
  ASSUME TypeInv, NEW p \in Products
  PROVE  /\ \A act \in SUBSET Clients : IsFiniteSet(act) => Held(cart, act, p) \in Int
         /\ \A rows \in SUBSET Row : IsFiniteSet(OfProduct(rows, p)) => SoldOf(rows, p) \in Int
<1>1. Int \in {Nat, Int}
  OBVIOUS
<1>2. ASSUME NEW act \in SUBSET Clients, IsFiniteSet(act) PROVE Held(cart, act, p) \in Int
  <2> DEFINE f == [c \in Clients |-> cart[c][p]]
  <2>1. \A c \in act : f[c] \in Int
    BY DEF TypeInv, TypeOK
  <2> HIDE DEF f
  <2> QED
    BY <1>1, <1>2, <2>1, SumTyped DEF Held, f
<1>3. ASSUME NEW rows \in SUBSET Row, IsFiniteSet(OfProduct(rows, p))
      PROVE  SoldOf(rows, p) \in Int
  <2>1. \A row \in OfProduct(rows, p) : Amounts[row] \in Int
    BY DEF Amounts, OfProduct, Row
  <2> QED
    BY <1>1, <1>3, <2>1, SumTyped DEF SoldOf
<1> QED
  BY <1>2, <1>3

\* One workstation more, with what it has
LEMMA HeldWith ==
  ASSUME NEW products \in [Clients -> [Products -> Nat]], NEW act \in SUBSET Clients,
         IsFiniteSet(act), NEW c \in Clients, c \notin act, NEW p \in Products
  PROVE  /\ Held(products, act \cup {c}, p) = Held(products, act, p) + products[c][p]
         /\ Held(products, act, p) \in Int
<1> DEFINE f == [d \in Clients |-> products[d][p]]
<1>1. (\A d \in act \cup {c} : f[d] \in Int) /\ f[c] = products[c][p] /\ Int \in {Nat, Int}
  OBVIOUS
<1> HIDE DEF f
<1>2. SumFunctionOnSet(f, act \cup {c}) = SumFunctionOnSet(f, act) + f[c]
  BY <1>1, SumWith
<1>3. SumFunctionOnSet(f, act) \in Int
  BY <1>1, SumTyped
<1> QED
  BY <1>1, <1>2, <1>3 DEF Held, f

\* The products of a workstation that is not among those
LEMMA HeldSame ==
  ASSUME NEW products, NEW more, NEW act \in SUBSET Clients, IsFiniteSet(act),
         NEW p, \A c \in act : more[c][p] = products[c][p]
  PROVE  Held(more, act, p) = Held(products, act, p)
<1> DEFINE f == [c \in Clients |-> products[c][p]]
           g == [c \in Clients |-> more[c][p]]
<1>1. \A c \in act : g[c] = f[c]
  OBVIOUS
<1> HIDE DEF f, g
<1> QED
  BY <1>1, SumSame DEF Held, f, g

\* The products of one workstation among those changed by d
LEMMA HeldChanged ==
  ASSUME NEW products \in [Clients -> [Products -> Nat]], NEW more,
         NEW act \in SUBSET Clients, IsFiniteSet(act), NEW c \in act, NEW p \in Products,
         NEW d \in Int, more[c][p] = products[c][p] + d,
         \A e \in act : e # c => more[e][p] = products[e][p]
  PROVE  Held(more, act, p) = Held(products, act, p) + d
<1> DEFINE f == [e \in Clients |-> products[e][p]]
           g == [e \in Clients |-> more[e][p]]
<1>1. /\ \A e \in act : f[e] \in Int
      /\ g[c] = f[c] + d
      /\ \A e \in act : e # c => g[e] = f[e]
  OBVIOUS
<1> HIDE DEF f, g
<1>2. SumFunctionOnSet(g, act) = SumFunctionOnSet(f, act) + d
  BY <1>1, SumChanged
<1> QED
  BY <1>2 DEF Held, f, g

\* What one workstation adds to the sum over those in act
Part(products, act, c, p) == IF c \in act THEN products[c][p] ELSE 0

LEMMA HeldPart ==
  ASSUME NEW products \in [Clients -> [Products -> Nat]], NEW act \in SUBSET Clients,
         IsFiniteSet(act), NEW c \in Clients, NEW p \in Products
  PROVE  /\ IsFiniteSet(act \ {c})
         /\ Held(products, act \ {c}, p) \in Int
         /\ Held(products, act, p) = Held(products, act \ {c}, p) + Part(products, act, c, p)
<1>1. IsFiniteSet(act \ {c}) /\ act \ {c} \in SUBSET Clients
  BY FS_Subset
<1>2. c \notin act \ {c} /\ (act \ {c}) \cup {c} = act \cup {c}
  OBVIOUS
<1>3. /\ Held(products, act \cup {c}, p) = Held(products, act \ {c}, p) + products[c][p]
      /\ Held(products, act \ {c}, p) \in Int
  <2> DEFINE rest == act \ {c}
  <2>1. rest \in SUBSET Clients /\ IsFiniteSet(rest) /\ c \notin rest
    BY <1>1, <1>2
  <2>2. rest \cup {c} = act \cup {c}
    BY <1>2
  <2> HIDE DEF rest
  <2>3. /\ Held(products, rest \cup {c}, p) = Held(products, rest, p) + products[c][p]
        /\ Held(products, rest, p) \in Int
    BY <2>1, HeldWith
  <2> QED
    BY <2>2, <2>3 DEF rest
<1>4. CASE c \in act
  <2>1. act \cup {c} = act
    BY <1>4
  <2> QED
    BY <1>1, <1>3, <1>4, <2>1 DEF Part
<1>5. CASE c \notin act
  <2>1. act \ {c} = act
    BY <1>5
  <2>2. Held(products, act \ {c}, p) = Held(products, act, p)
    BY <2>1
  <2>3. Part(products, act, c, p) = 0
    BY <1>5 DEF Part
  <2> QED
    BY <1>1, <1>3, <2>2, <2>3
<1> QED
  BY <1>4, <1>5

AreRows(rows) == rows \subseteq Row
OnlyRow(rows, p, row) == OfProduct(rows, p) = {row}
SoldMore(rows, new, p, row) ==
  /\ IsFiniteSet(OfProduct(rows \cup new, p))
  /\ SoldOf(rows \cup new, p) = SoldOf(rows, p) + Amounts[row]

\* A row of product p more
LEMMA SoldWith ==
  ASSUME NEW rows, NEW new, AreRows(rows), AreRows(new), NEW p \in Products,
         IsFiniteSet(OfProduct(rows, p)),
         NEW row \in Row, row \notin rows, OnlyRow(new, p, row)
  PROVE  SoldMore(rows, new, p, row)
<1> DEFINE S == OfProduct(rows, p)
<1>1. OfProduct(rows \cup new, p) = S \cup {row} /\ row \notin S
  BY DEF OfProduct, OnlyRow
<1>2. (\A r \in S \cup {row} : Amounts[r] \in Int) /\ Amounts[row] = row.amount
  BY DEF AreRows, OfProduct, Amounts, Row
<1>3. IsFiniteSet(S \cup {row})
  BY FS_AddElement
<1> HIDE DEF S
<1>4. SumFunctionOnSet(Amounts, S \cup {row}) = SumFunctionOnSet(Amounts, S) + Amounts[row]
  BY <1>1, <1>2, SumWith DEF S
<1> QED
  BY <1>1, <1>2, <1>3, <1>4 DEF SoldMore, SoldOf, S

\* None more
LEMMA SoldSame ==
  ASSUME NEW rows, NEW new, NEW p, OfProduct(new, p) = {}
  PROVE  OfProduct(rows \cup new, p) = OfProduct(rows, p) /\ SoldOf(rows \cup new, p) = SoldOf(rows, p)
<1>1. OfProduct(rows \cup new, p) = OfProduct(rows, p)
  BY DEF OfProduct
<1> QED
  BY <1>1 DEF SoldOf

AreQuantities(products) == products \in [Products -> Nat]
WithSession(rows, id, c, products) == rows \cup RowsOf(id, c, products)
SoldAfter(rows, after, p, n) ==
  /\ IsFiniteSet(OfProduct(after, p))
  /\ SoldOf(after, p) = SoldOf(rows, p) + n
  /\ SoldOf(rows, p) \in Int

\* The rows of a session that has none say what its record says.
LEMMA SessionSold ==
  ASSUME TypeInv, NEW rows, AreRows(rows), NEW id \in Nat, NEW c \in Clients,
         NEW products, AreQuantities(products), NEW p \in Products,
         Unlisted(rows, session[c]), IsFiniteSet(OfProduct(rows, p))
  PROVE  SoldAfter(rows, WithSession(rows, id, c, products), p, products[p])
<1> DEFINE s == session[c]
           new == RowsOf(id, c, products)
           row == [row |-> id, session |-> s, sale |-> 0, client |-> c, product |-> p,
                   amount |-> products[p], price |-> UnitPrice[p] * products[p]]
<1>1. AreRows(new)
  BY RowsTyped DEF AreRows, AreQuantities
<1>2. SoldOf(rows, p) \in Int
  <2>1. \A r \in OfProduct(rows, p) : Amounts[r] \in Int
    BY DEF AreRows, Amounts, OfProduct, Row
  <2>2. Int \in {Nat, Int}
    OBVIOUS
  <2> QED
    BY <2>1, <2>2, SumTyped DEF SoldOf
<1>3. CASE products[p] > 0
  <2>1. OnlyRow(new, p, row)
    BY <1>3 DEF OnlyRow, OfProduct, RowsOf
  <2>2. row \in new /\ row.session = s /\ row.amount = products[p]
    BY <1>3 DEF RowsOf
  <2> HIDE DEF row, new
  <2>3. row \in Row /\ row \notin rows
    BY <1>1, <2>2 DEF AreRows, Unlisted
  <2>4. SoldMore(rows, new, p, row)
    BY <1>1, <2>1, <2>3, SoldWith
  <2>5. SoldOf(rows \cup new, p) = SoldOf(rows, p) + Amounts[row]
        /\ IsFiniteSet(OfProduct(rows \cup new, p))
    BY <2>4 DEF SoldMore
  <2>6. Amounts[row] = products[p]
    BY <2>2, <2>3 DEF Amounts
  <2> QED
    BY <1>2, <2>5, <2>6 DEF new, WithSession, SoldAfter
<1>4. CASE products[p] = 0
  <2>1. OfProduct(new, p) = {}
    BY <1>4 DEF OfProduct, RowsOf
  <2> HIDE DEF new
  <2> QED
    BY <1>2, <1>4, <2>1, SoldSame DEF new, WithSession, AreQuantities, SoldAfter
<1> QED
  BY <1>3, <1>4 DEF AreQuantities

Careful == Mishaps \cap {"late", "aside", "idle", "reset", "moved", "quick"} = {}

\* The products' rows of session s, as RowsOf has them for the session of c
RowsFor(id, s, c, products) ==
  {[row |-> id, session |-> s, sale |-> 0, client |-> c, product |-> p,
    amount |-> products[p], price |-> UnitPrice[p] * products[p]] :
   p \in {q \in Products : products[q] > 0}}
SoldIn(rows, s) == {row \in rows : row.session = s}

\* The rows of a session that has ended are those of its record, which is still there.
StoppedLogged ==
  \A c \in Clients \ active :
    session[c] # 0 =>
      \E id \in Nat : SoldIn(sold, session[c]) = RowsFor(id, session[c], c, cart[c])

LEMMA RowsForSession ==
  ASSUME NEW id, NEW c, NEW products
  PROVE  RowsOf(id, c, products) = RowsFor(id, session[c], c, products)
  BY DEF RowsOf, RowsFor

Balanced ==
  \A p \in Products : stock[p] + Held(cart, active, p) + SoldOf(sold, p) = supplied[p]

Tables ==
  /\ IsFiniteSet(active)
  /\ \A p \in Products : IsFiniteSet(OfProduct(sold, p))
  /\ StoppedLogged
  /\ Balanced

\* What was read before a dialog still is the stock when it closes.
ReadStock == dialog.kind = "stock" => dialog.old = stock[dialog.product]

\* Every page is printed by some workstation.
NamedLines == \A i \in 1..Len(report) : report[i].client # 0

LEMMA LoggedKept ==
  ASSUME Tables, NEW d \in Clients \ active, session[d] # 0,
         session'[d] = session[d], cart'[d] = cart[d],
         SoldIn(sold', session[d]) = SoldIn(sold, session[d])
  PROVE  \E id \in Nat : SoldIn(sold', session'[d]) = RowsFor(id, session'[d], d, cart'[d])
  BY DEF Tables, StoppedLogged

LEMMA TablesKept ==
  ASSUME Tables, UNCHANGED <<stock, supplied, active, session, cart, sold>>
  PROVE  Tables'
  BY DEF Tables, StoppedLogged, Balanced

\* What is known of the numbers before a step
LEMMA Numbers ==
  ASSUME TypeInv, Tables, NEW p \in Products
  PROVE  /\ stock[p] \in Int /\ supplied[p] \in Int
         /\ Held(cart, active, p) \in Int /\ SoldOf(sold, p) \in Int
         /\ stock[p] + Held(cart, active, p) + SoldOf(sold, p) = supplied[p]
<1>1. /\ active \in SUBSET Clients /\ sold \in SUBSET Row
      /\ stock[p] \in Int /\ supplied[p] \in Int
  BY DEF TypeInv, TypeOK
<1> QED
  BY <1>1, SumsTyped DEF Tables, Balanced

\* CCL_client_start: the new session has nothing yet.
LEMMA StartTables ==
  ASSUME TypeInv, Inv, Tables, NEW c \in Clients, Start(c)
  PROVE  Tables'
<1>1. /\ c \notin active /\ active' = active \cup {c}
      /\ session' = [session EXCEPT ![c] = sessions + 1]
      /\ cart' = [cart EXCEPT ![c] = NoProducts]
      /\ UNCHANGED <<stock, supplied, sold>>
  BY DEF Start, table, log
<1>2. /\ active \in SUBSET Clients /\ cart \in [Clients -> [Products -> Nat]]
      /\ session \in [Clients -> Nat] /\ IsFiniteSet(active)
  BY DEF TypeInv, TypeOK, Tables
<1>3. NoProducts \in [Products -> Nat] /\ \A p \in Products : NoProducts[p] = 0
  BY DEF NoProducts
<1> HIDE DEF NoProducts
<1>4. cart' \in [Clients -> [Products -> Nat]] /\ cart'[c] = NoProducts
  BY <1>1, <1>2, <1>3
<1>5. ASSUME NEW p \in Products
      PROVE  stock'[p] + Held(cart', active', p) + SoldOf(sold', p) = supplied'[p]
  <2>1. Held(cart', active, p) = Held(cart, active, p)
    <3>1. \A d \in active : cart'[d][p] = cart[d][p]
      BY <1>1, <1>2
    <3> QED
      BY <1>2, <3>1, HeldSame
  <2>2. Held(cart', active \cup {c}, p) = Held(cart', active, p) + cart'[c][p]
    <3>1. c \notin active
      BY <1>1
    <3> QED
      BY <1>2, <1>4, <3>1, HeldWith
  <2>3. cart'[c][p] = 0
    BY <1>3, <1>4
  <2> QED
    BY <1>1, <2>1, <2>2, <2>3, Numbers
<1>6. StoppedLogged'
  <2>1. ASSUME NEW d \in Clients \ active', session'[d] # 0
        PROVE  \E id \in Nat : SoldIn(sold', session'[d])
                              = RowsFor(id, session'[d], d, cart'[d])
    <3>1. d \in Clients \ active /\ session'[d] = session[d] /\ cart'[d] = cart[d]
      BY <1>1, <1>2
    <3> QED
      BY <1>1, <2>1, <3>1, LoggedKept
  <2> QED
    BY <2>1 DEF StoppedLogged
<1>7. IsFiniteSet(active')
  BY <1>1, <1>2, FS_AddElement
<1> QED
  BY <1>1, <1>5, <1>6, <1>7 DEF Tables, Balanced

\* CCL_log_session: what the workstation held is in the log.
LEMMA StopTables ==
  ASSUME TypeInv, Inv, Tables, NEW c \in Clients, NEW flag \in {"NOTPAID", "PAID"},
         Stop(c, flag)
  PROVE  Tables'
<1> DEFINE s == session[c]
           id == NextId(logged)
           new == RowsOf(id, c, cart[c])
<1>1. /\ c \in active /\ active' = active \ {c} /\ sold' = sold \cup new
      /\ UNCHANGED <<stock, supplied, session, cart>>
  BY DEF Stop, LogSession, table
<1>0. id \in Nat
  <2>1. IsFiniteSet(logged) /\ \A row \in logged : row.id \in Nat
    BY DEF TypeInv, TypeOK, LogShape, Logged
  <2> QED
    BY <2>1, NextIdPositive
<1> HIDE DEF id
<1>2. /\ active \in SUBSET Clients /\ cart \in [Clients -> [Products -> Nat]]
      /\ AreRows(sold) /\ s \in Nat /\ cart[c] \in [Products -> Nat]
      /\ IsFiniteSet(active)
  BY DEF TypeInv, TypeOK, Tables, AreRows
<1>3. s # 0 /\ Unlisted(sold, s)
  BY <1>1 DEF Inv, InUseUnlogged, TypeInv, LogShape
<1>4. active' \in SUBSET Clients /\ IsFiniteSet(active') /\ c \notin active'
      /\ active = active' \cup {c}
  BY <1>1, <1>2, FS_RemoveElement
<1>5. ASSUME NEW p \in Products
      PROVE  /\ IsFiniteSet(OfProduct(sold', p))
             /\ stock'[p] + Held(cart', active', p) + SoldOf(sold', p) = supplied'[p]
  <2>1. IsFiniteSet(OfProduct(sold, p))
    BY DEF Tables
  <2> DEFINE after == WithSession(sold, id, c, cart[c])
  <2>2. IsFiniteSet(OfProduct(after, p)) /\ SoldOf(after, p) = SoldOf(sold, p) + cart[c][p]
    <3>1. AreQuantities(cart[c]) /\ AreRows(sold)
      BY <1>2 DEF AreQuantities
    <3>2. SoldAfter(sold, after, p, cart[c][p])
      BY <1>0, <1>3, <2>1, <3>1, SessionSold
    <3> QED
      BY <3>2 DEF SoldAfter
  <2>3. /\ Held(cart, active, p) = Held(cart, active', p) + cart[c][p]
        /\ Held(cart, active', p) \in Int
    BY <1>2, <1>4, HeldWith
  <2>4. cart[c][p] \in Int
    BY <1>2
  <2>5. sold' = after
    BY <1>1 DEF WithSession
  <2> HIDE DEF new, after
  <2>6. SoldOf(sold', p) = SoldOf(sold, p) + cart[c][p] /\ IsFiniteSet(OfProduct(sold', p))
    BY <2>2, <2>5
  <2>7. /\ Held(cart', active', p) = Held(cart, active', p)
        /\ stock'[p] = stock[p] /\ supplied'[p] = supplied[p]
    BY <1>1
  <2> QED
    BY <2>3, <2>4, <2>6, <2>7, Numbers
<1>6. StoppedLogged'
  <2>1. (\A row \in new : row.session = s) /\ new = RowsFor(id, s, c, cart[c])
    BY RowsOfSession, RowsForSession
  <2>2. ASSUME NEW d \in Clients \ active', session'[d] # 0
        PROVE  \E k \in Nat : SoldIn(sold', session'[d]) = RowsFor(k, session'[d], d, cart'[d])
    <3>1. CASE d = c
      <4> HIDE DEF new
      <4>1. SoldIn(sold', s) = new
        BY <1>1, <1>3, <2>1 DEF Unlisted, SoldIn
      <4> QED
        BY <1>0, <1>1, <2>1, <3>1, <4>1
    <3>2. CASE d # c
      <4>1. d \in Clients \ active /\ session[d] # s
        BY <1>1, <1>2, <1>3, <3>2 DEF Inv, SessionsNumbered
      <4> HIDE DEF new
      <4>2. SoldIn(sold', session[d]) = SoldIn(sold, session[d])
        BY <1>1, <2>1, <4>1 DEF SoldIn
      <4> QED
        BY <1>1, <2>2, <4>1, <4>2, LoggedKept
    <3> QED
      BY <3>1, <3>2
  <2> HIDE DEF new
  <2> QED
    BY <2>2 DEF StoppedLogged
<1> QED
  BY <1>4, <1>5, <1>6 DEF Tables, Balanced

\* What a session has in the log while it has ended, and all the rest
LEMMA StoppedSold ==
  ASSUME TypeInv, Inv, Tables, NEW c \in Clients \ active, session[c] # 0, NEW p \in Products
  PROVE  /\ AreRows(But(sold, session[c]))
         /\ Unlisted(But(sold, session[c]), session[c])
         /\ IsFiniteSet(OfProduct(But(sold, session[c]), p))
         /\ SoldOf(sold, p) = SoldOf(But(sold, session[c]), p) + cart[c][p]
         /\ SoldOf(But(sold, session[c]), p) \in Int
<1>0. PICK id \in Nat : SoldIn(sold, session[c]) = RowsFor(id, session[c], c, cart[c])
  BY DEF Tables, StoppedLogged
<1> DEFINE s == session[c]
           rest == But(sold, s)
           new == RowsOf(id, c, cart[c])
<1>1. /\ sold \in SUBSET Row /\ s \in Nat /\ cart[c] \in [Products -> Nat]
      /\ IsFiniteSet(OfProduct(sold, p))
  BY DEF TypeInv, TypeOK, Tables
<1>2. AreRows(rest) /\ Unlisted(rest, s)
  BY <1>1 DEF But, Unlisted, AreRows
<1>3. IsFiniteSet(OfProduct(rest, p))
  <2>1. OfProduct(rest, p) \subseteq OfProduct(sold, p)
    BY DEF OfProduct, But
  <2> QED
    BY <1>1, <2>1, FS_Subset
<1>4. sold = rest \cup new
  <2>1. SoldIn(sold, s) = new
    BY <1>0, RowsForSession
  <2>2. sold = But(sold, s) \cup SoldIn(sold, s)
    BY DEF But, SoldIn
  <2> HIDE DEF new
  <2> QED
    BY <2>1, <2>2
<1> HIDE DEF rest
<1> DEFINE all == WithSession(rest, id, c, cart[c])
<1>5. SoldOf(all, p) = SoldOf(rest, p) + cart[c][p] /\ SoldOf(rest, p) \in Int
  <2>1. c \in Clients /\ AreQuantities(cart[c])
    BY <1>1 DEF AreQuantities
  <2> QED
    BY <1>2, <1>3, <2>1, SessionSold DEF SoldAfter
<1>6. all = rest \cup new
  BY DEF WithSession
<1> HIDE DEF new, all
<1>7. SoldOf(sold, p) = SoldOf(rest, p) + cart[c][p]
  BY <1>4, <1>5, <1>6
<1> QED
  BY <1>2, <1>3, <1>5, <1>7 DEF rest

\* CCL_log_session_clear: what the log said the workstation holds again.
LEMMA UnstopTables ==
  ASSUME TypeInv, Inv, Tables, NEW c \in Clients, Unstop(c)
  PROVE  Tables'
<1> DEFINE s == session[c]
<1>1. /\ c \notin active /\ active' = active \cup {c} /\ s # 0 /\ sold' = But(sold, s)
      /\ UNCHANGED <<stock, supplied, session, cart>>
  BY FindOwn DEF Unstop, table
<1>2. /\ active \in SUBSET Clients /\ cart \in [Clients -> [Products -> Nat]]
      /\ IsFiniteSet(active)
  BY DEF TypeInv, TypeOK, Tables
<1>3. IsFiniteSet(active')
  BY <1>1, <1>2, FS_AddElement
<1>4. ASSUME NEW p \in Products
      PROVE  /\ IsFiniteSet(OfProduct(sold', p))
             /\ stock'[p] + Held(cart', active', p) + SoldOf(sold', p) = supplied'[p]
  <2>1. /\ IsFiniteSet(OfProduct(sold', p))
        /\ SoldOf(sold, p) = SoldOf(sold', p) + cart[c][p] /\ SoldOf(sold', p) \in Int
    BY <1>1, StoppedSold
  <2>2. Held(cart, active', p) = Held(cart, active, p) + cart[c][p]
    BY <1>1, <1>2, HeldWith
  <2>3. cart[c][p] \in Int
    BY <1>2
  <2> QED
    BY <1>1, <2>1, <2>2, <2>3, Numbers
<1>5. StoppedLogged'
  <2>1. ASSUME NEW d \in Clients \ active', session'[d] # 0
        PROVE  \E id \in Nat : SoldIn(sold', session'[d])
                              = RowsFor(id, session'[d], d, cart'[d])
    <3>1. d \in Clients \ active /\ session[d] # s
      BY <1>1, <2>1 DEF Inv, SessionsNumbered
    <3>2. SoldIn(sold', session[d]) = SoldIn(sold, session[d])
      BY <1>1, <3>1 DEF But, SoldIn
    <3> QED
      BY <1>1, <2>1, <3>1, <3>2, LoggedKept
  <2> QED
    BY <2>1 DEF StoppedLogged
<1> QED
  BY <1>3, <1>4, <1>5 DEF Tables, Balanced

\* CCL_client_reset of a workstation that is not in use
LEMMA ResetTables ==
  ASSUME TypeInv, Inv, Tables, Careful, NEW c \in Clients, ExitReset(c)
  PROVE  Tables'
<1>1. /\ c \notin active /\ active' = active
      /\ session' = [session EXCEPT ![c] = 0]
      /\ cart' = [cart EXCEPT ![c] = NoProducts]
      /\ UNCHANGED <<stock, supplied, sold>>
  BY DEF ExitReset, table, log, Careful
<1>2. /\ active \in SUBSET Clients /\ IsFiniteSet(active)
      /\ \A d \in Clients : d # c => cart'[d] = cart[d] /\ session'[d] = session[d]
      /\ session'[c] = 0
  BY <1>1 DEF TypeInv, TypeOK, Tables
<1>3. ASSUME NEW p \in Products
      PROVE  stock'[p] + Held(cart', active', p) + SoldOf(sold', p) = supplied'[p]
  <2>1. \A d \in active : cart'[d][p] = cart[d][p]
    BY <1>1, <1>2
  <2>2. Held(cart', active, p) = Held(cart, active, p)
    BY <1>2, <2>1, HeldSame
  <2> QED
    BY <1>1, <2>2, Numbers
<1>4. StoppedLogged'
  <2> SUFFICES ASSUME NEW d \in Clients \ active', session'[d] # 0
               PROVE  \E id \in Nat : SoldIn(sold', session'[d])
                                     = RowsFor(id, session'[d], d, cart'[d])
    BY DEF StoppedLogged
  <2>1. d \in Clients \ active /\ session'[d] = session[d] /\ cart'[d] = cart[d]
    BY <1>1, <1>2
  <2> QED
    BY <1>1, <2>1, LoggedKept
<1> QED
  BY <1>1, <1>2, <1>3, <1>4 DEF Tables, Balanced

LEMMA Exchanged ==
  ASSUME NEW h \in Int, NEW a \in Int, NEW b \in Int
  PROVE  (h + a) + b = (h + b) + a
  OBVIOUS

\* CCL_client_swap: what two workstations in use hold changes places.
LEMMA SwapTables ==
  ASSUME TypeInv, Inv, Tables, Careful, NEW c \in Clients, NEW d \in Clients, Swap(c, d)
  PROVE  Tables'
<1> DEFINE other(x) == IF x = c THEN d ELSE IF x = d THEN c ELSE x
<1>1. /\ ~Ended(c) /\ ~Ended(d)
      /\ active' = {x \in Clients : other(x) \in active}
      /\ cart' = [x \in Clients |-> cart[other(x)]]
      /\ session' = [x \in Clients |-> session[other(x)]]
      /\ UNCHANGED <<stock, supplied, sold>>
  BY DEF Swap, table, log, Careful
<1>2. /\ active \in SUBSET Clients /\ IsFiniteSet(active)
      /\ cart \in [Clients -> [Products -> Nat]]
  BY DEF TypeInv, TypeOK, Tables
<1>3. /\ \A x \in Clients : other(x) \in Clients
      /\ \A x \in Clients : x # c /\ x # d => other(x) = x
      /\ other(c) = d /\ other(d) = c
  OBVIOUS
<1> HIDE DEF other
<1>4. /\ active' \in SUBSET Clients /\ cart' \in [Clients -> [Products -> Nat]]
      /\ IsFiniteSet(active')
  <2>1. active' \subseteq active \cup {c, d}
    BY <1>1, <1>3
  <2>2. IsFiniteSet((active \cup {c}) \cup {d})
    BY <1>2, FS_AddElement
  <2>3. active' \subseteq (active \cup {c}) \cup {d}
    BY <2>1
  <2>4. IsFiniteSet(active')
    BY <2>2, <2>3, FS_Subset
  <2> QED
    BY <1>1, <1>2, <1>3, <2>4
<1>5. ASSUME NEW p \in Products
      PROVE  Held(cart', active', p) = Held(cart, active, p)
  <2>1. CASE c = d
    <3>1. active' = active /\ \A x \in active : cart'[x][p] = cart[x][p]
      BY <1>1, <1>2, <1>3, <2>1
    <3> QED
      BY <1>2, <3>1, HeldSame
  <2>2. CASE c # d
    <3> DEFINE rest == (active \ {c}) \ {d}
    <3>1. /\ Held(cart, active, p)
              = Held(cart, active \ {c}, p) + Part(cart, active, c, p)
          /\ Held(cart, active \ {c}, p)
              = Held(cart, rest, p) + Part(cart, active \ {c}, d, p)
          /\ Held(cart, rest, p) \in Int /\ IsFiniteSet(rest)
      <4>1. active \ {c} \in SUBSET Clients /\ IsFiniteSet(active \ {c})
        BY <1>2, FS_Subset
      <4> QED
        BY <1>2, <4>1, HeldPart
    <3>2. /\ Held(cart', active', p)
              = Held(cart', active' \ {c}, p) + Part(cart', active', c, p)
          /\ Held(cart', active' \ {c}, p)
              = Held(cart', (active' \ {c}) \ {d}, p) + Part(cart', active' \ {c}, d, p)
      <4>1. active' \ {c} \in SUBSET Clients /\ IsFiniteSet(active' \ {c})
        BY <1>4, FS_Subset
      <4> QED
        BY <1>4, <4>1, HeldPart
    <3>3. (active' \ {c}) \ {d} = rest
      BY <1>1, <1>2, <1>3
    <3>4. Held(cart', rest, p) = Held(cart, rest, p)
      <4>1. rest \in SUBSET Clients /\ \A x \in rest : cart'[x][p] = cart[x][p]
        BY <1>1, <1>2, <1>3
      <4> HIDE DEF rest
      <4> QED
        BY <3>1, <4>1, HeldSame
    <3>5. /\ Part(cart', active', c, p) = Part(cart, active \ {c}, d, p)
          /\ Part(cart', active' \ {c}, d, p) = Part(cart, active, c, p)
          /\ Part(cart, active, c, p) \in Int /\ Part(cart, active \ {c}, d, p) \in Int
      BY <1>1, <1>2, <1>3, <2>2 DEF Part
    <3> HIDE DEF rest
    <3>6. Held(cart', active', p)
            = (Held(cart, rest, p) + Part(cart, active, c, p)) + Part(cart, active \ {c}, d, p)
      BY <3>2, <3>3, <3>4, <3>5
    <3>7. Held(cart, active, p)
            = (Held(cart, rest, p) + Part(cart, active \ {c}, d, p)) + Part(cart, active, c, p)
      BY <3>1
    <3> QED
      BY <3>1, <3>5, <3>6, <3>7, Exchanged
  <2> QED
    BY <2>1, <2>2
<1>6. StoppedLogged'
  <2> SUFFICES ASSUME NEW x \in Clients \ active', session'[x] # 0
               PROVE  \E id \in Nat : SoldIn(sold', session'[x])
                                     = RowsFor(id, session'[x], x, cart'[x])
    BY DEF StoppedLogged
  <2>1. other(x) \notin active /\ session[other(x)] # 0
    BY <1>1
  <2>2. other(x) = x
    BY <1>1, <1>3, <2>1 DEF Ended
  <2>3. x \in Clients \ active /\ session'[x] = session[x] /\ cart'[x] = cart[x]
    BY <1>1, <2>1, <2>2
  <2> QED
    BY <1>1, <2>3, LoggedKept
<1>7. Balanced'
  BY <1>1, <1>5, Numbers DEF Balanced
<1> QED
  BY <1>1, <1>4, <1>6, <1>7 DEF Tables

\* d units of a product given out (or taken back) at a workstation
Moved(c, p, d) ==
  /\ cart' = [cart EXCEPT ![c][p] = @ + d]
  /\ stock' = [stock EXCEPT ![p] = @ - d]

LEMMA CartTables ==
  ASSUME TypeInv, Tables, NEW c \in active, NEW p \in Products, NEW d \in Int,
         Moved(c, p, d), UNCHANGED <<supplied, active, session, sold>>
  PROVE  Tables'
<1>1. /\ active \in SUBSET Clients /\ cart \in [Clients -> [Products -> Nat]]
      /\ stock \in [Products -> Int] /\ IsFiniteSet(active) /\ c \in Clients
  BY DEF TypeInv, TypeOK, Tables
<1>2. ASSUME NEW q \in Products
      PROVE  stock'[q] + Held(cart', active', q) + SoldOf(sold', q) = supplied'[q]
  <2>1. CASE q = p
    <3>1. cart'[c][p] = cart[c][p] + d /\ \A e \in active : e # c => cart'[e][p] = cart[e][p]
      BY <1>1 DEF Moved
    <3>2. Held(cart', active, p) = Held(cart, active, p) + d
      <4>1. /\ cart \in [Clients -> [Products -> Nat]] /\ active \in SUBSET Clients
            /\ IsFiniteSet(active)
        BY <1>1
      <4> QED
        BY <3>1, <4>1, HeldChanged
    <3>3. stock'[p] = stock[p] - d
      BY <1>1 DEF Moved
    <3> QED
      BY <2>1, <3>2, <3>3, Numbers
  <2>2. CASE q # p
    <3>1. \A e \in active : cart'[e][q] = cart[e][q]
      BY <1>1, <2>2 DEF Moved
    <3>2. Held(cart', active, q) = Held(cart, active, q)
      <4>1. active \in SUBSET Clients /\ IsFiniteSet(active)
        BY <1>1
      <4> QED
        BY <3>1, <4>1, HeldSame
    <3>3. stock'[q] = stock[q]
      BY <1>1, <2>2 DEF Moved
    <3> QED
      BY <3>2, <3>3, Numbers
  <2> QED
    BY <2>1, <2>2
<1>3. StoppedLogged'
  <2>1. \A e \in Clients \ active : cart'[e] = cart[e]
    BY <1>1 DEF Moved
  <2> QED
    BY <2>1 DEF Tables, StoppedLogged
<1> QED
  BY <1>2, <1>3 DEF Tables, Balanced

\* The session of a workstation logged again, with n units of a product more
LEMMA RelogTables ==
  ASSUME TypeInv, Inv, Tables, NEW c \in Clients \ active, session[c] # 0,
         NEW p \in Products, NEW n \in Nat, ProductAdd(c, p, n),
         NEW id \in Nat, sold' = But(sold, session[c]) \cup RowsOf(id, c, cart'[c]),
         UNCHANGED <<supplied, active, session>>
  PROVE  Tables'
<1> DEFINE s == session[c]
           rest == But(sold, s)
           new == RowsOf(id, c, cart'[c])
<1>1. /\ active \in SUBSET Clients /\ cart \in [Clients -> [Products -> Nat]]
      /\ stock \in [Products -> Int] /\ IsFiniteSet(active) /\ c \in Clients /\ c # 0
      /\ s \in Nat
  BY IdsAssumption DEF TypeInv, TypeOK, Tables
<1>2. /\ cart' = [cart EXCEPT ![c][p] = @ + n] /\ stock' = [stock EXCEPT ![p] = @ - n]
      /\ sold' = rest \cup new
  BY <1>1 DEF ProductAdd
<1>3. cart'[c] \in [Products -> Nat] /\ \A e \in Clients : e # c => cart'[e] = cart[e]
  BY <1>1, <1>2
<1>4. ASSUME NEW q \in Products
      PROVE  /\ IsFiniteSet(OfProduct(sold', q))
             /\ stock'[q] + Held(cart', active', q) + SoldOf(sold', q) = supplied'[q]
  <2>1. /\ AreRows(rest) /\ Unlisted(rest, s)
        /\ IsFiniteSet(OfProduct(rest, q))
        /\ SoldOf(sold, q) = SoldOf(rest, q) + cart[c][q] /\ SoldOf(rest, q) \in Int
    BY StoppedSold
  <2> HIDE DEF rest
  <2> DEFINE after == WithSession(rest, id, c, cart'[c])
  <2>2. IsFiniteSet(OfProduct(after, q)) /\ SoldOf(after, q) = SoldOf(rest, q) + cart'[c][q]
    <3>1. c \in Clients /\ AreQuantities(cart'[c])
      BY <1>1, <1>3 DEF AreQuantities
    <3> QED
      BY <2>1, <3>1, SessionSold DEF SoldAfter
  <2>3. Held(cart', active, q) = Held(cart, active, q)
    <3>1. \A e \in active : cart'[e][q] = cart[e][q]
      BY <1>1, <1>3
    <3> QED
      BY <1>1, <3>1, HeldSame
  <2>4. stock'[q] + cart'[c][q] = stock[q] + cart[c][q]
    BY <1>1, <1>2
  <2>5. cart[c][q] \in Int /\ cart'[c][q] \in Int /\ stock'[q] \in Int
    BY <1>1, <1>2, <1>3
  <2> HIDE DEF new
  <2> QED
    <3>1. sold' = after
      BY <1>2 DEF new, WithSession
    <3> HIDE DEF after
    <3>2. SoldOf(sold', q) = SoldOf(rest, q) + cart'[c][q]
      BY <2>2, <3>1
    <3>3. Held(cart', active', q) = Held(cart, active, q) /\ supplied'[q] = supplied[q]
      BY <2>3
    <3>4. IsFiniteSet(OfProduct(sold', q))
      BY <2>2, <3>1
    <3>5. /\ stock[q] \in Int /\ Held(cart, active, q) \in Int
          /\ stock[q] + Held(cart, active, q) + SoldOf(sold, q) = supplied[q]
      BY Numbers
    <3>6. SoldOf(rest, q) \in Int /\ SoldOf(sold, q) = SoldOf(rest, q) + cart[c][q]
      BY <2>1
    <3> DEFINE held == Held(cart, active, q)
               left == SoldOf(rest, q)
    <3>7. stock'[q] + held + (left + cart'[c][q]) = stock[q] + held + (left + cart[c][q])
      <4>1. PICK h \in Int, l \in Int : h = held /\ l = left
        BY <3>5, <3>6
      <4> HIDE DEF held, left
      <4>2. PICK a \in Int, b \in Int, x \in Int, y \in Int :
              a = stock'[q] /\ b = cart'[c][q] /\ x = stock[q] /\ y = cart[c][q]
        BY <2>5, <3>5
      <4>3. a + h + (l + b) = x + h + (l + y)
        BY <2>4, <4>2
      <4> QED
        BY <4>1, <4>2, <4>3
    <3> QED
      BY <3>2, <3>3, <3>4, <3>5, <3>6, <3>7
<1>5. StoppedLogged'
  <2>1. (\A row \in new : row.session = s) /\ new = RowsFor(id, s, c, cart'[c])
    BY RowsOfSession, RowsForSession
  <2>2. ASSUME NEW d \in Clients \ active', session'[d] # 0
        PROVE  \E k \in Nat : SoldIn(sold', session'[d]) = RowsFor(k, session'[d], d, cart'[d])
    <3>1. CASE d = c
      <4> HIDE DEF new
      <4>1. SoldIn(sold', s) = new
        BY <1>2, <2>1 DEF But, SoldIn
      <4> QED
        BY <2>1, <3>1, <4>1
    <3>2. CASE d # c
      <4>1. session[d] # s /\ d \in Clients \ active
        BY <2>2, <3>2 DEF Inv, SessionsNumbered
      <4> HIDE DEF new
      <4>2. SoldIn(sold', session[d]) = SoldIn(sold, session[d])
        BY <1>2, <2>1, <4>1 DEF But, SoldIn
      <4> QED
        BY <1>3, <2>2, <3>2, <4>1, <4>2, LoggedKept
    <3> QED
      BY <3>1, <3>2
  <2> HIDE DEF new
  <2> QED
    BY <2>2 DEF StoppedLogged
<1> QED
  BY <1>1, <1>4, <1>5 DEF Tables, Balanced

\* CCL_product_sell: what leaves the stock is what the sale's rows say.
LEMMA CashTables ==
  ASSUME TypeInv, Inv, Tables, CashSale
  PROVE  Tables'
<1> DEFINE row(p) == [row |-> 0, session |-> 0, sale |-> sales + 1, client |-> 0, product |-> p,
                      amount |-> items[p].amount, price |-> items[p].price]
           new == {row(p) : p \in DOMAIN items}
<1>1. /\ sold' = sold \cup new
      /\ stock' = [p \in Products |-> stock[p] - Amount(p)]
      /\ UNCHANGED <<supplied, active, session, cart>>
  BY DEF CashSale, clients
<1>2. AreRows(sold) /\ AreRows(new)
  <2>1. AreRows(sold)
    BY DEF AreRows, TypeInv, TypeOK
  <2>2. AreRows(new)
    BY ItemsTyped DEF AreRows, Row
  <2> QED
    BY <2>1, <2>2
<1>3. \A p \in DOMAIN items : row(p) \notin sold
  <2>1. sales \in Nat /\ \A r \in sold : r.sale \in Nat /\ r.sale <= sales
    BY DEF Inv, SoldListed, TypeInv, TypeOK, Row
  <2> QED
    BY <2>1
<1>4. ASSUME NEW p \in Products
      PROVE  /\ IsFiniteSet(OfProduct(sold', p))
             /\ stock'[p] + Held(cart', active', p) + SoldOf(sold', p) = supplied'[p]
  <2>1. IsFiniteSet(OfProduct(sold, p))
    BY DEF Tables
  <2>2. stock'[p] = stock[p] - Amount(p) /\ Amount(p) \in Int
    BY <1>1 DEF Amount, TypeInv, TypeOK, Item
  <2>3. IsFiniteSet(OfProduct(sold \cup new, p))
        /\ SoldOf(sold \cup new, p) = SoldOf(sold, p) + Amount(p)
    <3>1. CASE p \in DOMAIN items
      <4>1. OnlyRow(new, p, row(p))
        BY <3>1 DEF OnlyRow, OfProduct
      <4>2. row(p) \in Row /\ row(p) \notin sold /\ Amounts[row(p)] = Amount(p)
        BY <1>2, <1>3, <3>1 DEF Amount, Amounts, AreRows
      <4> HIDE DEF new, row
      <4>3. SoldOf(sold \cup new, p) = SoldOf(sold, p) + Amounts[row(p)]
            /\ IsFiniteSet(OfProduct(sold \cup new, p))
        BY <1>2, <2>1, <4>1, <4>2, SoldWith DEF SoldMore
      <4> QED
        BY <4>2, <4>3
    <3>2. CASE p \notin DOMAIN items
      <4>1. OfProduct(new, p) = {}
        BY <3>2 DEF OfProduct
      <4>2. Amount(p) = 0
        BY <3>2 DEF Amount
      <4> HIDE DEF new
      <4>3. OfProduct(sold \cup new, p) = OfProduct(sold, p) /\ SoldOf(sold \cup new, p) = SoldOf(sold, p)
        BY <4>1, SoldSame
      <4> QED
        BY <2>1, <4>2, <4>3, Numbers
    <3> QED
      BY <3>1, <3>2
  <2> HIDE DEF new
  <2>4. SoldOf(sold', p) = SoldOf(sold, p) + Amount(p) /\ IsFiniteSet(OfProduct(sold', p))
    BY <1>1, <2>3
  <2>5. Held(cart', active', p) = Held(cart, active, p) /\ supplied'[p] = supplied[p]
    BY <1>1
  <2> QED
    BY <2>2, <2>4, <2>5, Numbers
<1>5. StoppedLogged'
  <2>1. \A r \in new : r.session = 0
    OBVIOUS
  <2> HIDE DEF new
  <2>2. ASSUME NEW d \in Clients \ active', session'[d] # 0
        PROVE  \E id \in Nat : SoldIn(sold', session'[d])
                              = RowsFor(id, session'[d], d, cart'[d])
    <3>1. SoldIn(sold', session[d]) = SoldIn(sold, session[d])
      BY <1>1, <2>1, <2>2 DEF SoldIn
    <3> QED
      BY <1>1, <2>2, <3>1, LoggedKept
  <2> QED
    BY <2>2 DEF StoppedLogged
<1> HIDE DEF new
<1> QED
  BY <1>1, <1>4, <1>5 DEF Tables, Balanced

\* What is put on stock is added to what the stock still is.
LEMMA SupplyTables ==
  ASSUME TypeInv, Tables, ReadStock, NEW n \in Quantities, SetStock(n)
  PROVE  Tables'
<1> DEFINE p == dialog.product
<1>1. /\ stock' = [stock EXCEPT ![p] = stock[p] + n]
      /\ supplied' = [supplied EXCEPT ![p] = @ + n]
      /\ UNCHANGED <<active, session, cart, sold>>
  BY DEF SetStock, NewStock, ReadStock, clients, log
<1>2. n \in Int /\ stock \in [Products -> Int] /\ supplied \in [Products -> Int]
  BY AmountsAssumption DEF TypeInv, TypeOK
<1>3. ASSUME NEW q \in Products
      PROVE  stock'[q] + Held(cart', active', q) + SoldOf(sold', q) = supplied'[q]
  <2>1. CASE q = p
    <3>1. stock'[q] = stock[q] + n /\ supplied'[q] = supplied[q] + n
      BY <1>1, <1>2, <2>1
    <3> QED
      BY <1>1, <1>2, <3>1, Numbers
  <2>2. CASE q # p
    <3>1. stock'[q] = stock[q] /\ supplied'[q] = supplied[q]
      BY <1>1, <1>2, <2>2
    <3> QED
      BY <1>1, <3>1, Numbers
  <2> QED
    BY <2>1, <2>2
<1>4. StoppedLogged'
  BY <1>1 DEF Tables, StoppedLogged
<1> QED
  BY <1>1, <1>3, <1>4 DEF Tables, Balanced

\* The dialogs of onAddProduct and onSubProduct
LEMMA AddTables ==
  ASSUME TypeInv, Tables, Careful, NEW n \in Quantities, Add(n) \/ Sub(n)
  PROVE  Tables'
<1> DEFINE p == dialog.product
           c == dialog.client
<1>1. /\ dialog.kind \in {"add", "sub"}
      /\ UNCHANGED <<supplied, active, session, sold>>
      /\ \/ UNCHANGED <<cart, stock>>
         \/ c \in active /\ (ProductAdd(c, p, n) \/ ProductSub(c, p, n))
  BY DEF Add, Sub, log, Careful
<1>2. CASE UNCHANGED <<cart, stock>>
  BY <1>1, <1>2, TablesKept
<1>3. CASE c \in active /\ (ProductAdd(c, p, n) \/ ProductSub(c, p, n))
  <2>1. /\ p \in Products /\ n \in Int /\ c \in Clients /\ c # 0
        /\ cart \in [Clients -> [Products -> Nat]] /\ stock \in [Products -> Int]
    BY <1>1, <1>3, AmountsAssumption, IdsAssumption DEF TypeInv, TypeOK, DialogShape
  <2>2. CASE ProductAdd(c, p, n)
    <3>1. Moved(c, p, n)
      BY <2>1, <2>2 DEF ProductAdd, Moved
    <3> QED
      BY <1>1, <1>3, <2>1, <3>1, CartTables
  <2>3. CASE ProductSub(c, p, n)
    <3> DEFINE k == Returned(c, p, n)
    <3>1. k \in Int
      BY <2>1 DEF Returned
    <3>2. cart' = [cart EXCEPT ![c][p] = @ - k] /\ stock' = [stock EXCEPT ![p] = @ + k]
      BY <2>1, <2>3 DEF ProductSub
    <3> HIDE DEF k, c, p
    <3>3. cart[c][p] - k = cart[c][p] + (-k) /\ stock[p] + k = stock[p] - (-k) /\ -k \in Int
      BY <2>1, <3>1
    <3>4. Moved(c, p, -k)
      BY <3>2, <3>3 DEF Moved
    <3> QED
      BY <1>1, <1>3, <2>1, <3>3, <3>4, CartTables
  <2> QED
    BY <1>3, <2>2, <2>3
<1> QED
  BY <1>1, <1>2, <1>3

\* A line of the report: its workstation's session is in use, or logged again, or
\* paid, and then nothing happens.
LEMMA PrintTables ==
  ASSUME TypeInv, Inv, Tables, NamedLines, PrintLine
  PROVE  Tables'
<1> DEFINE l == Head(report)
           c == l.client
           n == l.pages
           p == IF l.printer \in known \/ pid = 0 THEN l.printer ELSE pid
<1>1. l \in Line /\ c # 0
  <2>1. report # <<>> /\ report \in Seq(Line)
    BY DEF PrintLine, TypeInv, TypeOK
  <2> QED
    BY <2>1 DEF NamedLines
<1>2. c \in Clients /\ n \in Nat /\ p \in Products
  BY <1>1, IdsAssumption, AmountsAssumption DEF Line, TypeInv, TypeOK
<1>3. Charge(c, p, n) /\ UNCHANGED <<supplied, active, session>>
  BY DEF PrintLine
<1> HIDE DEF l, c, n, p
<1>4. CASE c \in active /\ ProductAdd(c, p, n) /\ UNCHANGED sold
  <2>1. Moved(c, p, n)
    BY <1>1, <1>4 DEF ProductAdd, Moved
  <2> QED
    BY <1>2, <1>3, <1>4, <2>1, CartTables
<1>5. CASE /\ c \in Clients \ active /\ Unpaid(c)
           /\ ProductAdd(c, p, n)
           /\ LogSession(c, "NOTPAID", SessionsBut(Find(c)), ProductsBut(Find(c)), cart'[c])
  <2> DEFINE id == NextId(SessionsBut(Find(c)))
  <2>1. session[c] # 0
    BY <1>5, UnpaidSession
  <2>2. ProductsBut(Find(c)) = But(sold, session[c])
    BY <1>5, <2>1, FindOwn
  <2>3. sold' = But(sold, session[c]) \cup RowsOf(id, c, cart'[c])
    BY <1>5, <2>2 DEF LogSession
  <2>4. id \in Nat
    <3>1. SessionsBut(Find(c)) \subseteq logged
      BY DEF SessionsBut
    <3>2. /\ IsFiniteSet(SessionsBut(Find(c)))
          /\ \A row \in SessionsBut(Find(c)) : row.id \in Nat
      BY <3>1, FS_Subset DEF TypeInv, TypeOK, LogShape, Logged
    <3> QED
      BY <3>2, NextIdPositive
  <2> HIDE DEF id
  <2> QED
    BY <1>2, <1>3, <1>5, <2>1, <2>3, <2>4, RelogTables
<1>6. CASE UNCHANGED <<cart, stock, sold>>
  BY <1>3, <1>6, TablesKept
<1> QED
  BY <1>1, <1>3, <1>4, <1>5, <1>6 DEF Charge

LEMMA TablesStep ==
  ASSUME TypeInv, Inv, Tables, ReadStock, NamedLines, Careful, [Next]_vars
  PROVE  Tables'
<1>1. CASE UNCHANGED vars \/ Tick
  BY <1>1, TablesKept DEF vars, Tick, table, clients, log
<1>2. CASE Session
  <2>1. ASSUME NEW c \in Clients, Pause(c) \/ Resume(c) \/ Select(c) PROVE Tables'
    BY <2>1, TablesKept DEF Pause, Resume, Select, table, clients, log
  <2> QED
    BY <1>2, <2>1, StartTables, StopTables, UnstopTables, ResetTables, SwapTables
    DEF Session
<1>3. ASSUME NEW x \in logged, Pay(x) PROVE Tables'
  BY <1>3, TablesKept DEF Pay, table, clients
<1>4. CASE Dialog
  <2>1. ASSUME NEW p, \/ \E kind : OpenDialog(kind, p)
                      \/ OpenStock(p) \/ CancelDialog
        PROVE  Tables'
    BY <2>1, TablesKept DEF OpenDialog, OpenStock, CancelDialog, table, clients, log
  <2> QED
    BY <1>4, <2>1, AddTables, SupplyTables DEF Dialog
<1>5. CASE NewSale \/ CompleteSale \/ CancelSale
  BY <1>5, TablesKept DEF NewSale, CompleteSale, CancelSale, table, clients, log
<1>6. CASE CashSale
  BY <1>6, CashTables
<1>7. ASSUME NEW lines, Report(lines) PROVE Tables'
  BY <1>7, TablesKept DEF Report, table, clients, log
<1>8. CASE PrintLine
  BY <1>8, PrintTables
<1> QED
  BY <1>1, <1>2, <1>3, <1>4, <1>5, <1>6, <1>7, <1>8 DEF Next, Counter, Sale, PrintServer

\* The dialogs are modal, and the print server's thread waits for one that shows
\* a stock.
LEMMA ReadStockStep ==
  ASSUME TypeInv, ReadStock, Careful, [Next]_vars
  PROVE  ReadStock'
<1>1. NoDialog.kind # "stock"
  BY DEF NoDialog
<1>2. CASE UNCHANGED vars \/ Tick \/ \E lines : Report(lines)
  BY <1>2 DEF ReadStock, Report, Tick, vars, table
<1>3. CASE Session \/ \E x \in logged : Pay(x)
  BY <1>3 DEF ReadStock, Session, Start, Stop, ExitReset, Unstop, Pause, Resume, Swap,
     Select, Pay, table
<1>4. CASE Dialog
  BY <1>1, <1>4 DEF ReadStock, Dialog, OpenDialog, OpenStock, Add, Sub, SetStock,
     CancelDialog, table
<1>5. CASE Sale
  BY <1>1, <1>5 DEF ReadStock, Sale, NewSale, CompleteSale, CashSale, CancelSale, table
<1>6. CASE PrintLine
  BY <1>6 DEF ReadStock, PrintLine, Unaware, Careful
<1> QED
  BY <1>2, <1>3, <1>4, <1>5, <1>6 DEF Next, Counter, PrintServer

LEMMA NamedLinesStep ==
  ASSUME TypeInv, NamedLines, Careful, [Next]_vars
  PROVE  NamedLines'
<1>1. CASE UNCHANGED report
  BY <1>1 DEF NamedLines
<1>2. ASSUME NEW lines, Report(lines) PROVE NamedLines'
  BY <1>2 DEF NamedLines, Report, ReportLine, Careful
<1>3. CASE PrintLine
  <2>1. report' = Tail(report) /\ report # <<>> /\ report \in Seq(Line)
    BY <1>3 DEF PrintLine, TypeInv, TypeOK
  <2> QED
    BY <2>1 DEF NamedLines
<1> QED
  BY <1>1, <1>2, <1>3 DEF Next, Counter, Tick, Session, Dialog, Sale, PrintServer, vars, printing,
     Start, Stop, ExitReset, Unstop, Pause, Resume, Swap, Select, Pay, OpenDialog, OpenStock, Add, Sub, SetStock,
     CancelDialog, NewSale, CompleteSale, CashSale, CancelSale

LEMMA InitTables == ASSUME Init PROVE Tables /\ ReadStock /\ NamedLines
<1>1. /\ stock = NoProducts /\ supplied = NoProducts /\ active = {} /\ sold = {}
      /\ session = [c \in Clients |-> 0] /\ report = <<>> /\ dialog.kind = "none"
  BY DEF Init, NoDialog
<1>2. \A p : OfProduct({}, p) = {}
  BY DEF OfProduct
<1>3. \A p : Held(cart, {}, p) = 0 /\ SoldOf({}, p) = 0
  BY <1>2, SumOfNone DEF Held, SoldOf
<1>4. \A p \in Products : stock[p] = 0 /\ supplied[p] = 0
  BY <1>1 DEF NoProducts
<1>5. Tables
  <2>1. Balanced
    BY <1>1, <1>3, <1>4 DEF Balanced
  <2>2. StoppedLogged
    BY <1>1 DEF StoppedLogged
  <2>3. IsFiniteSet(active) /\ \A p \in Products : IsFiniteSet(OfProduct(sold, p))
    BY <1>1, <1>2, FS_EmptySet
  <2> QED
    BY <2>1, <2>2, <2>3 DEF Tables
<1>6. NamedLines
  BY <1>1 DEF NamedLines
<1> QED
  BY <1>1, <1>5, <1>6 DEF ReadStock

\* The books of the stock, for any café in which nothing runs between the reading of
\* a number and its use, no paused session is reset, products are given out at
\* sessions in use, pages belong to a workstation, and a session's rows are found by
\* its times: whatever is given out, taken back, stopped, undone, moved, printed, put
\* on stock or sold, each product's stock is what was supplied less what the sessions
\* hold and the log says was sold.
THEOREM StockBalances ==
  ASSUME Mishaps \cap {"late", "aside", "idle", "reset", "moved", "quick"} = {}
  PROVE  Spec => []StockAddsUp
<1> DEFINE All == Tables /\ ReadStock /\ NamedLines
<1>1. Careful /\ Orderly
  BY DEF Careful, Orderly
<1>2. Init => TypeInv /\ Inv /\ All
  BY InitTypes, InitInv, InitTables
<1>3. TypeInv /\ Inv /\ All /\ [Next]_vars => (TypeInv /\ Inv)'
  BY <1>1, NextTypes, InvStep
<1>4. TypeInv /\ Inv /\ All /\ [Next]_vars => All'
  BY <1>1, TablesStep, ReadStockStep, NamedLinesStep
<1>5. TypeInv /\ All => StockAddsUp
  <2> SUFFICES ASSUME TypeInv, All, NEW p \in Products
               PROVE  stock[p] + InCarts(p) + InLog(p) = supplied[p]
    BY DEF StockAddsUp
  <2>1. InCarts(p) = Held(cart, active, p) /\ InLog(p) = SoldOf(sold, p)
    BY SumsNamed DEF Tables
  <2> QED
    BY <2>1, Numbers
<1> HIDE DEF All
<1> QED
  BY <1>2, <1>3, <1>4, <1>5, PTL DEF Spec

=============================================================================
