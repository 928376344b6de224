-------------------------------- MODULE Stock --------------------------------
(***************************************************************************)
(* The products of the café: the stock in the products table, the products *)
(* of each workstation's session (client.c), the rows of sessionslog and   *)
(* productslog (logging.c), the sale to a customer without a workstation   *)
(* (ProductsFrame.cpp and CashingFrame.cpp) and the pages a print server   *)
(* reports (CC_USERPRINTED, CCLWin.cpp).                                   *)
(*                                                                         *)
(* Three kinds of actors interleave: the employee in the GUI thread, whose *)
(* dialogs are modal, so that nothing else happens in that thread until    *)
(* they close again; the threads of the workstations, where customers log  *)
(* in, exit and run out of credit whenever they like; and the thread of    *)
(* the print server's connection, which handles a report line by line.     *)
(* Each step of each runs alone, which no lock guarantees.                 *)
(*                                                                         *)
(* What a café may do that loses track of products is listed in Mishaps:   *)
(*   "late"    a line is handled while a dialog is open that uses what was *)
(*             read before it                                              *)
(*   "aside"   a page is printed by no workstation                         *)
(*   "idle"    products are given out at a workstation whose session ended *)
(*   "reset"   a workstation whose session is paused exits                 *)
(*   "moved"   a session that has ended moves to another workstation       *)
(*   "quick"   a session begins and ends when another session of the same  *)
(*             workstation did, to the second                              *)
(*   "return"  a product is returned within a sale                         *)
(*   "reopen"  a new sale begins while the last one waits to be cashed     *)
(***************************************************************************)
EXTENDS Integers, Sequences, FiniteSetsExt, Functions

CONSTANTS Clients,     \* ids of the workstations
          Products,    \* ids of the products, the printers' pages included
          Printers,    \* the products that are a printer's pages
          UnitPrice,   \* the price of a product
          Quantities,  \* the quantities entered or printed at once
          Mishaps,     \* see above
          MaxTime,     \* bound: the clock stops here
          MaxSessions, \* bound: sessions ever started
          MaxRows,     \* bound: the last id of sessionslog
          MaxSales,    \* bound: sales cashed
          MaxAmount,   \* bound: units of a product given out beyond the stock, or
                       \* in a sale
          MaxSupply,   \* bound: units of a product ever put on stock
          MaxLines     \* bound: lines of a report

ASSUME IdsAssumption ==
  /\ Clients \subseteq Nat \ {0}
  /\ Products \subseteq Nat \ {0}
  /\ Printers \subseteq Products
ASSUME AmountsAssumption ==
  /\ UnitPrice \in [Products -> Nat]
  /\ Quantities \subseteq Nat \ {0}
  /\ MaxTime \in Nat /\ MaxRows \in Nat
  /\ MaxSessions \in Nat /\ MaxSales \in Nat /\ MaxAmount \in Nat /\ MaxSupply \in Nat
  /\ MaxLines \in Nat
ASSUME MishapsAssumption ==
  Mishaps \subseteq {"late", "aside", "idle", "reset", "moved", "quick", "return", "reopen"}

VARIABLES known,     \* the products that have a row in the products table
          stock,     \* column stock
          active,    \* the workstations in use: ACTIVE, or PAUSED
          paused,    \* those of them whose status is PAUSED
          times,     \* when each workstation's session began and, unless it is
                     \* in use, ended: the ends of its intervals
          cart,      \* the products of each workstation's session
          logged,    \* the sessionslog table
          sold,      \* the productslog table; row is its column session, the id
                     \* of a row of sessionslog or 0 for a sale
          selected,  \* the workstation selected in the main window, or -1
          onsale,    \* a sale is being put together
          items,     \* ProductsFrame's array products, without its order
          cashing,   \* the total of the sale in the cashing frame, or -1
          dialog,    \* the open dialog and what was read before it opened
          report,    \* what is left of the report of the print server
          pid,       \* the product the thread found last in that report
          now,       \* time(NULL)
          session,   \* auxiliary: numbers the session of each workstation, 0 for none
          sessions,  \* auxiliary: how many sessions were ever started
          sales,     \* auxiliary: how many sales were ever cashed
          supplied   \* auxiliary: what was ever put on stock

table == <<known, stock, supplied>>
clients == <<active, paused, times, cart, session, sessions>>
log == <<logged, sold, sales>>
frames == <<selected, onsale, items, cashing>>
printing == <<report, pid>>
vars == <<table, clients, log, frames, dialog, printing, now>>

NoDialog == [kind |-> "none", product |-> 0, client |-> -1, old |-> 0]
NoProducts == [p \in Products |-> 0]
NoTimes == [stime |-> 0, etime |-> 0]
NoItems == [p \in {} |-> [amount |-> 0, price |-> 0]]

Init ==
  /\ known = Products \ Printers
  /\ stock = NoProducts
  /\ supplied = NoProducts
  /\ active = {}
  /\ paused = {}
  /\ times = [c \in Clients |-> NoTimes]
  /\ session = [c \in Clients |-> 0]
  /\ cart = [c \in Clients |-> NoProducts]
  /\ logged = {}
  /\ sold = {}
  /\ selected = -1
  /\ onsale = FALSE
  /\ items = NoItems
  /\ cashing = -1
  /\ dialog = NoDialog
  /\ report = <<>>
  /\ pid = 0
  /\ now = 1
  /\ sessions = 0
  /\ sales = 0

\* Bound: so many units of p are out at most.
Available(p, n) == stock[p] - n >= -MaxAmount

-----------------------------------------------------------------------------
(* The session log *)

\* Mutant: ids are the number of the rows plus one.
NextIdCounted(rows) == 1 + Cardinality(rows)

\* 1 + _highest_logged_session_id()
NextId(rows) == 1 + Max({row.id : row \in rows} \cup {0})

\* CCL_log_session: a row for every product, for the row id of sessionslog
RowsOf(id, c, products) ==
  {[row |-> id, session |-> session[c], sale |-> 0, client |-> c, product |-> p,
    amount |-> products[p], price |-> UnitPrice[p] * products[p]] :
   p \in {q \in Products : products[q] > 0}}

SessionRow(id, c, flag) ==
  [id |-> id, session |-> session[c], client |-> c,
   stime |-> times[c].stime, etime |-> now, flag |-> flag]

\* CCL_client_stop and CCL_log_session of c with these products, beside the rows
\* of both tables given
LogSession(c, flag, rows, entries, products) ==
  LET id == NextId(rows)
  IN  /\ id <= MaxRows
      /\ times' = [times EXCEPT ![c].etime = now]
      /\ logged' = rows \cup {SessionRow(id, c, flag)}
      /\ sold' = entries \cup RowsOf(id, c, products)

\* Mutant: the first row of the workstation, whenever its session was.
FindClient(c) ==
  LET found == {row.id : row \in {x \in logged : x.client = c}}
  IN  IF found = {} THEN -1 ELSE Min(found)

\* CCL_log_session_find with the times of c: -1 or the first row that has them
Find(c) ==
  LET found == {row.id : row \in {x \in logged : /\ x.client = c
                                                /\ x.stime = times[c].stime
                                                /\ x.etime = times[c].etime}}
  IN  IF found = {} THEN -1 ELSE Min(found)

\* CCL_log_session_clear: the rows it leaves in sessionslog and in productslog
SessionsBut(id) == {row \in logged : row.id # id}

\* Mutant: only the row of sessionslog is deleted.
ProductsKept(id) == sold

ProductsBut(id) == {row \in sold : row.row # id}

\* Unless a session may be "quick", one that ends now does not have the times of
\* another row of its workstation.
OwnTimes(c, rows) ==
  \/ "quick" \in Mishaps
  \/ \A row \in rows :
       row.client = c => <<row.stime, row.etime>> # <<times[c].stime, now>>

-----------------------------------------------------------------------------
(* The session of a workstation: by its own thread, or by the employee *)

\* CCL_client_start, which empties the record
Start(c) ==
  /\ c \notin active
  /\ sessions < MaxSessions
  /\ active' = active \cup {c}
  /\ times' = [times EXCEPT ![c] = [stime |-> now, etime |-> 0]]
  /\ cart' = [cart EXCEPT ![c] = NoProducts]
  /\ sessions' = sessions + 1
  /\ session' = [session EXCEPT ![c] = sessions + 1]
  /\ UNCHANGED <<table, paused, log, frames, dialog, printing, now>>

\* CC_USEREXIT, the end of a member's credit, ID_STOP: NOTPAID, or PAID from an
\* account.  No other status than ACTIVE is stopped.
Stop(c, flag) ==
  /\ c \in active \ paused
  /\ OwnTimes(c, logged)
  /\ active' = active \ {c}
  /\ LogSession(c, flag, logged, sold, cart[c])
  /\ UNCHANGED <<table, paused, cart, session, sessions, sales, frames, dialog, printing,
                 now>>

\* CC_USEREXIT of a workstation that is not ACTIVE: CCL_client_reset
ExitReset(c) ==
  /\ c \notin active \/ (c \in paused /\ "reset" \in Mishaps)
  /\ active' = active \ {c}
  /\ paused' = paused \ {c}
  /\ times' = [times EXCEPT ![c] = NoTimes]
  /\ cart' = [cart EXCEPT ![c] = NoProducts]
  /\ session' = [session EXCEPT ![c] = 0]
  /\ UNCHANGED <<table, sessions, log, frames, dialog, printing, now>>

\* CCL_client_unstop, whether the session is paid or not: by the employee or by a
\* ticket's customer.
Unstop(c) ==
  /\ c \notin active
  /\ session[c] # 0
  /\ active' = active \cup {c}
  /\ times' = [times EXCEPT ![c].etime = 0]
  /\ logged' = SessionsBut(Find(c))
  /\ sold' = ProductsBut(Find(c))
  /\ UNCHANGED <<table, paused, cart, session, sessions, sales, frames, dialog, printing,
                 now>>

\* CCL_client_pause
Pause(c) ==
  /\ dialog = NoDialog
  /\ c \in active \ paused
  /\ paused' = paused \cup {c}
  /\ UNCHANGED <<table, active, times, cart, session, sessions, log, frames, dialog,
                 printing, now>>

\* CCL_client_start and CCL_client_unpause of a paused session
Resume(c) ==
  /\ c \in paused
  /\ paused' = paused \ {c}
  /\ UNCHANGED <<table, active, times, cart, session, sessions, log, frames, dialog,
                 printing, now>>

\* A session that has ended and is still in the record
Ended(c) == c \notin active /\ session[c] # 0

\* CCL_client_swap, after which d is the workstation selected
Swap(c, d) ==
  LET other(x) == IF x = c THEN d ELSE IF x = d THEN c ELSE x
  IN  /\ dialog = NoDialog
      /\ Ended(c) \/ Ended(d) => "moved" \in Mishaps
      /\ active' = {x \in Clients : other(x) \in active}
      /\ paused' = {x \in Clients : other(x) \in paused}
      /\ times' = [x \in Clients |-> times[other(x)]]
      /\ cart' = [x \in Clients |-> cart[other(x)]]
      /\ session' = [x \in Clients |-> session[other(x)]]
      /\ selected' = d
      /\ onsale' = FALSE
      /\ UNCHANGED <<table, sessions, log, items, cashing, dialog, printing, now>>

\* CashingFrame::onCash of a session of the unpaid list
Pay(x) ==
  /\ dialog = NoDialog
  /\ x.flag = "NOTPAID"
  /\ logged' = {IF row.id = x.id THEN [row EXCEPT !.flag = "PAID"] ELSE row :
                row \in logged}
  /\ cashing' = -1
  /\ UNCHANGED <<table, clients, sold, sales, selected, onsale, items, dialog, printing,
                 now>>

\* updateClientProducts, which the selection of a workstation leads to, ends a
\* sale that was being put together.
Select(c) ==
  /\ dialog = NoDialog
  /\ selected' = c
  /\ onsale' = FALSE
  /\ UNCHANGED <<table, clients, log, items, cashing, dialog, printing, now>>

-----------------------------------------------------------------------------
(* Adding and returning products *)

\* Before the dialog of onAddProduct and onSubProduct: the workstation is read.
OpenDialog(kind, p) ==
  /\ dialog = NoDialog
  /\ p \in known
  /\ onsale \/ selected # -1
  /\ dialog' = [kind |-> kind, product |-> p, old |-> 0,
                client |-> IF onsale THEN 0 ELSE selected]
  /\ UNCHANGED <<table, clients, log, frames, printing, now>>

\* CCL_client_product_add; client 0 has no record, and only its stock falls.
ProductAdd(c, p, n) ==
  /\ Available(p, n)
  /\ cart' = IF c = 0 THEN cart ELSE [cart EXCEPT ![c][p] = @ + n]
  /\ stock' = [stock EXCEPT ![p] = @ - n]

\* Mutant: what was not there is taken back as well.
ReturnedAll(c, p, n) == n

\* CCL_client_product_sub takes back no more than is there.
Returned(c, p, n) ==
  LET amount == IF c = 0 THEN 0 ELSE cart[c][p]
  IN  IF n >= amount THEN amount ELSE n

ProductSub(c, p, n) ==
  LET k == Returned(c, p, n)
  IN  /\ cart' = IF c = 0 THEN cart ELSE [cart EXCEPT ![c][p] = @ - k]
      /\ stock' = [stock EXCEPT ![p] = @ + k]

Amount(p) == IF p \in DOMAIN items THEN items[p].amount ELSE 0

WithItem(p, item) ==
  [q \in DOMAIN items \cup {p} |-> IF q = p THEN item ELSE items[q]]

\* The item of a sale: its price is that of all its units.
SaleAdd(p, n) ==
  /\ Amount(p) + n <= MaxAmount
  /\ items' = WithItem(p, [amount |-> Amount(p) + n,
                           price |-> UnitPrice[p] * (Amount(p) + n)])

\* A return within a sale leaves the price as it is, and an item of which
\* nothing is left in its place.
SaleSub(p, n) ==
  /\ "return" \in Mishaps
  /\ items' = IF p \in DOMAIN items
              THEN [items EXCEPT ![p].amount = IF n >= @ THEN 0 ELSE @ - n]
              ELSE items

\* After the dialog: onsale is read again.
Add(n) ==
  /\ dialog.kind = "add"
  /\ IF onsale
     THEN SaleAdd(dialog.product, n) /\ UNCHANGED <<cart, stock>>
     ELSE /\ dialog.client \in active \/ "idle" \in Mishaps
          /\ ProductAdd(dialog.client, dialog.product, n)
          /\ UNCHANGED items
  /\ dialog' = NoDialog
  /\ UNCHANGED <<known, supplied, active, paused, times, session, sessions, log, selected,
                 onsale, cashing, printing, now>>

Sub(n) ==
  /\ dialog.kind = "sub"
  /\ IF onsale
     THEN SaleSub(dialog.product, n) /\ UNCHANGED <<cart, stock>>
     ELSE /\ dialog.client \in active \/ "idle" \in Mishaps
          /\ ProductSub(dialog.client, dialog.product, n)
          /\ UNCHANGED items
  /\ dialog' = NoDialog
  /\ UNCHANGED <<known, supplied, active, paused, times, session, sessions, log, selected,
                 onsale, cashing, printing, now>>

CancelDialog ==
  /\ dialog # NoDialog
  /\ dialog' = NoDialog
  /\ UNCHANGED <<table, clients, log, frames, printing, now>>

-----------------------------------------------------------------------------
(* The stock *)

\* onSetStock reads the stock and asks for the quantity to add
OpenStock(p) ==
  /\ dialog = NoDialog
  /\ p \in known
  /\ dialog' = [kind |-> "stock", product |-> p, client |-> -1, old |-> stock[p]]
  /\ UNCHANGED <<table, clients, log, frames, printing, now>>

\* Mutant: the quantity is taken for the new stock.
NewStockSet(n) == n

NewStock(n) == dialog.old + n

SetStock(n) ==
  LET p == dialog.product
  IN  /\ dialog.kind = "stock"
      /\ supplied[p] + n <= MaxSupply
      /\ stock' = [stock EXCEPT ![p] = NewStock(n)]
      /\ supplied' = [supplied EXCEPT ![p] = @ + n]
      /\ dialog' = NoDialog
      /\ UNCHANGED <<known, clients, log, frames, printing, now>>

-----------------------------------------------------------------------------
(* A sale *)

\* onNewSale, whose button is off during a sale; the cashing frame goes on
\* pointing to the array.
NewSale ==
  /\ dialog = NoDialog
  /\ ~onsale
  /\ sales < MaxSales
  /\ cashing # -1 => "reopen" \in Mishaps
  /\ onsale' = TRUE
  /\ items' = NoItems
  /\ UNCHANGED <<table, clients, log, selected, cashing, dialog, printing, now>>

\* setProductsSale: what is shown is the sum over the items there is something of.
Shown ==
  SumFunction([p \in {q \in DOMAIN items : items[q].amount > 0} |-> items[p].price])

\* onCompleteSale
CompleteSale ==
  /\ dialog = NoDialog
  /\ onsale
  /\ onsale' = FALSE
  /\ cashing' = IF items = NoItems THEN -1 ELSE Shown
  /\ UNCHANGED <<table, clients, log, selected, items, dialog, printing, now>>

\* onCash of a sale: CCL_product_sell for every item there now is
CashSale ==
  /\ dialog = NoDialog
  /\ cashing # -1
  /\ sales < MaxSales
  /\ \A p \in DOMAIN items : Available(p, items[p].amount)
  /\ sold' = sold \cup
       {[row |-> 0, session |-> 0, sale |-> sales + 1, client |-> 0, product |-> p,
         amount |-> items[p].amount, price |-> items[p].price] : p \in DOMAIN items}
  /\ stock' = [p \in Products |-> stock[p] - Amount(p)]
  /\ sales' = sales + 1
  /\ cashing' = -1
  /\ UNCHANGED <<known, supplied, clients, logged, selected, onsale, items, dialog,
                 printing, now>>

\* onCancelSale
CancelSale ==
  /\ dialog = NoDialog
  /\ cashing # -1
  /\ cashing' = -1
  /\ UNCHANGED <<table, clients, log, selected, onsale, items, dialog, printing, now>>

-----------------------------------------------------------------------------
(* The thread of the print server's connection *)

\* A line of the report: the printer, the workstation (0 if none is found by its
\* address) and the pages
Line == [printer : Printers, client : Clients \cup {0}, pages : Quantities]
ReportLine(l) == l.client # 0 \/ "aside" \in Mishaps

Report(lines) ==
  /\ report = <<>>
  /\ lines # <<>>
  /\ \A i \in 1..Len(lines) : ReportLine(lines[i])
  /\ report' = lines
  /\ pid' = 0
  /\ UNCHANGED <<table, clients, log, frames, dialog, now>>

\* notpaidframe->isUnpaid of the row that is found for c
Unpaid(c) == \E row \in logged : row.id = Find(c) /\ row.flag = "NOTPAID"

\* The pages of workstation c, 0 for none: added to the session in use, or to the
\* ended one as long as it is unpaid, which is taken up, stopped and logged again.
Charge(c, p, n) ==
  \/ /\ c \in active \cup {0}
     /\ ProductAdd(c, p, n)
     /\ UNCHANGED <<times, logged, sold>>
  \/ /\ c \in Clients \ active
     /\ Unpaid(c)
     /\ OwnTimes(c, SessionsBut(Find(c)))
     /\ ProductAdd(c, p, n)
     /\ LogSession(c, "NOTPAID", SessionsBut(Find(c)), ProductsBut(Find(c)), cart'[c])
  \/ /\ c \in Clients \ active
     /\ ~Unpaid(c)
     /\ UNCHANGED <<cart, stock, times, logged, sold>>

\* Dialogs that use what was read before they opened
Unaware == dialog.kind = "stock" \/ (dialog.kind # "none" /\ dialog.client = 0)

\* One line.  The product of a printer that has none is made, unless one was
\* found for an earlier line: then that one stays.
PrintLine ==
  LET l == Head(report)
      p == IF l.printer \in known \/ pid = 0 THEN l.printer ELSE pid
  IN  /\ report # <<>>
      /\ ~Unaware \/ "late" \in Mishaps
      /\ report' = Tail(report)
      /\ pid' = p
      /\ known' = known \cup {p}
      /\ Charge(l.client, p, l.pages)
      /\ onsale' = (onsale /\ l.client # selected)
      /\ UNCHANGED <<supplied, active, paused, session, sessions, sales, selected, items,
                     cashing, dialog, now>>

-----------------------------------------------------------------------------

Tick ==
  /\ now < MaxTime
  /\ now' = now + 1
  /\ UNCHANGED <<table, clients, log, frames, dialog, printing>>

Session ==
  \E c \in Clients :
    \/ Start(c) \/ ExitReset(c) \/ Unstop(c) \/ Pause(c) \/ Resume(c) \/ Select(c)
    \/ \E flag \in {"NOTPAID", "PAID"} : Stop(c, flag)
    \/ \E d \in Clients : Swap(c, d)

Dialog ==
  \/ \E p \in Products :
       \/ \E kind \in {"add", "sub"} : OpenDialog(kind, p)
       \/ OpenStock(p)
  \/ \E n \in Quantities : Add(n) \/ Sub(n) \/ SetStock(n)
  \/ CancelDialog

Sale == NewSale \/ CompleteSale \/ CashSale \/ CancelSale

Counter == (\E x \in logged : Pay(x)) \/ Dialog \/ Sale

PrintServer ==
  \/ \E k \in 1..MaxLines : \E lines \in [1..k -> Line] : Report(lines)
  \/ PrintLine

Next == Session \/ Counter \/ PrintServer \/ Tick

Spec == Init /\ [][Next]_vars

-----------------------------------------------------------------------------
(* Properties *)

Logged == [id : Nat \ {0}, session : Nat \ {0}, client : Clients, stime : Nat, etime : Nat,
           flag : {"NOTPAID", "PAID"}]
Row == [row : Nat, session : Nat, sale : Nat, client : Clients \cup {0}, product : Products,
        amount : Nat, price : Nat]
DialogState == [kind : {"none", "add", "sub", "stock"}, product : Products \cup {0},
                client : Clients \cup {0, -1}, old : Int]
Item == [amount : Nat, price : Nat]

\* What the tables, the records and the windows hold: a quantity is never
\* negative, the stock may be.
TypeOK ==
  /\ known \subseteq Products
  /\ stock \in [Products -> Int]
  /\ supplied \in [Products -> Int]
  /\ paused \subseteq active /\ active \subseteq Clients
  /\ times \in [Clients -> [stime : Nat, etime : Nat]]
  /\ session \in [Clients -> Nat]
  /\ cart \in [Clients -> [Products -> Nat]]
  /\ logged \subseteq Logged
  /\ sold \subseteq Row
  /\ selected \in Clients \cup {-1}
  /\ onsale \in BOOLEAN
  /\ DOMAIN items \subseteq Products
  /\ \A p \in DOMAIN items : items[p] \in Item
  /\ cashing \in Nat \cup {-1}
  /\ dialog \in DialogState
  /\ report \in Seq(Line)
  /\ pid \in Products \cup {0}
  /\ now \in Nat
  /\ sessions \in Nat
  /\ sales \in Nat

InCarts(p) == SumFunction([c \in active |-> cart[c][p]])
InLog(p) == SumFunction([row \in {r \in sold : r.product = p} |-> row.amount])

\* Nothing gets lost between the shelf, the sessions and the log: whatever is
\* stopped, undone, printed, returned or sold, the stock of a product is what was
\* supplied less what sessions in use hold and the log says was sold.  While a
\* dialog is open the stock may not have changed behind it.
StockAddsUp ==
  \A p \in Products : stock[p] + InCarts(p) + InLog(p) = supplied[p]

\* A product of a session, or of a sale, has one row in the log, however often
\* the session is stopped, moved to another workstation, taken up again by the
\* employee or by a print job, and logged anew, although its rows are looked up by
\* workstation and times: the customer is not billed for it twice.
LoggedOnce ==
  \A r1, r2 \in sold :
    /\ r1.session = r2.session
    /\ r1.sale = r2.sale
    /\ r1.product = r2.product
    => r1 = r2

\* Ids of sessionslog are used again once their row is cleared, and productslog
\* knows its session by the id alone: whatever was cleared and logged meanwhile,
\* the products listed under a session's id are that session's, so that the
\* cashing frame never asks one customer for another one's.
ProductsOfSession ==
  \A r \in sold :
    r.sale = 0 => {x.session : x \in {y \in logged : y.id = r.row}} = {r.session}

\* What a sale is logged for is what the cashing frame asked the customer for,
\* although the frame reads the array of the products frame again at the end.  The
\* code does otherwise once a product was returned or another sale begun.
ShownIsSold ==
  cashing # -1 => cashing = SumFunction([p \in DOMAIN items |-> items[p].price])
=============================================================================
