# A verification of the café server

The program runs an internet café. A server (`mkahawa-srv`, on the library
`libccls`) keeps a record for every workstation, bills the sessions on it and
tells the workstation what to do; a program on each workstation
(`mkahawa-client`, on `libcclc`) locks the screen, shows time and money and
sends what the customer asks for; employees work at the server's window. This
directory models that in TLA+, checks it with TLC and proves the central facts
with TLAPS.

## 1. The parts of the system

| part | source | state | operations | modelled by |
|---|---|---|---|---|
| client records | `libccls/src/client.c` | per workstation: status, intervals, timeout, member, products, flags; the `clients` table | start, stop, unstop, pause, unpause, reset, swap, the setters, store, restore | `ClientRecord`, `ClientTable`; the products in `Stock` |
| session log | `libccls/src/logging.c` | `sessionslog`, `productslog` | log, find, clear, set price and flags | `ClientTable`, `Billing`, `Stock`; searches for reports are not |
| billing | `mkahawa-srv/src/CCLWin.cpp`, `CashingFrame.cpp`, `NotpaidFrame.cpp`, `MembersFrame.cpp`, `CCL_pay_account` in `ccl.c` | block and allow flags, settings, the session in the cashing frame | one handler per request of a workstation, one per command of the employee | `Billing`, but for discounts and edited prices |
| tariffs | `libccls/src/tarif.c`, `mkahawa-srv/src/TarifFrame.cpp` | `tarifs` and `prices` tables, the sorted lists built from them, the tariff in use | edit, rebuild, switch, price of an interval | `TarifPrice`, `Tarif`, `TarifSession` |
| server networking | `libccls/src/ccl.c`, `client.c`, `util.c` | socket and BIO in each record, an accepting thread, one reading thread per connection | accept, hand-shake, name, replace or refuse, read a frame, close | `Connection`, `Wire` |
| client networking | `libcclc/src/cclc.c`, `util.c` | one socket | connect, say the name, send, read frames, shut down | `Connection`, `Wire`, `Station` |
| client program | `mkahawa-client/src/cclcfox.cpp`, `locker.cpp`, `gui.cpp` | session shown or not, screen locked or not, clock, limit, login modes | commands of the server, timer, the customer's buttons | `Station` command by command, `Billing` in one step |
| accounts | `libccls/src/member.c` | credit, tariff, flags | credit get and set, flags, tickets | credit and flags in `Billing` |
| products and stock | `ccl.c`, `client.c`, `logging.c`, `ProductsFrame.cpp`, `CashingFrame.cpp` | stock, the products of a session and their rows in both logs, the sale being put together | add, return, sell, supply, log, clear, swap | `Stock` |
| printing | `mkahawa-printer/`, `CCLWin.cpp` 1288-1483 | pages per workstation | the lines of a report | the server's side in `Stock` and `Billing`; the parser of CUPS logs is left out |
| update of the client program | `CCLWin.cpp` 2890-2935, `cclcfox.cpp` | the file, the position | blocks | not modelled |
| employees | `libccls/src/employee.c`, `EmployeesFrame.cpp` | permissions | log in, edit | not modelled: a permission only disables an action |
| attached data, reports, settings, receipts, messages, pictures | `data.c`, the other frames | windows and settings | show and edit | not modelled: presentation |
| second client program | `gtk-mkahawa-client/` | | | not modelled: an unfinished rewrite |

How they interact. The client program and the server exchange frames
(command, size, data) over one connection per workstation. The server reads
every connection in a thread of its own, which calls `onEventCallback`; that
function changes records, accounts and log and sends commands back. The
employee's clicks run `CCLWin::onCommand` and the frames' handlers in the GUI
thread, on the same data. Everything a call of `libccls` changes is written to
SQLite at once, and read back when the server starts.

What is hard about it:

- *Three kinds of actors share the records without a lock*: the threads of the
  connections, the GUI thread, and, through requests sent earlier, the
  customers. A request is handled in a state its sender did not see.
- *Every request may end a session*: `onEventCallback` first checks the
  credit of the member on the workstation, also for a request that is about
  something else.
- *A session can be ended in five ways* (exit, stop, credit used up, reset,
  start of the next), each with its own code for record, log, account, flags
  and screen, and be taken up again in three (unstop, login of the same
  member, start of a paused one).
- *The log is joined to the records by workstation and times*, not by an id.
- *Only the workstation watches its time limit.* Its clock is set by commands
  that may be lost, and its exit may be lost too.
- *A frame is several writes and several reads*, and a connection's thread
  names its client by an id that a later connection shares.
- *The tariff in use is one variable of the program*, which the price of a
  member's session switches and switches back.
- *Crashes* between two writes of one call, and lost connections.

## 2. What must be right

- Records: the shape a status promises, memory equal to database, one session
  in one record, no time lost.
- Log: what was charged stays charged, once.
- Accounts: what was paid in is what is left and what was charged; an account
  is marked as in use exactly while it is.
- Workstations: no use without charge; once all messages have arrived both ends
  agree on screen, session and limit; a session whose time is up ends.
- Network: a frame is handed over whole, once and in order, or the end of the
  connection is; a client has one reader, of its own connection; whoever
  connects is served or hung up on.
- Tariffs: the lists in memory are those of the tables; the price of an interval
  is that of its parts; a customer who stays longer does not owe less, and one
  who pauses does not owe more. (That the employee's tariff is in use when nobody
  calculates does not hold: section 5.)
- Stock: what is on the shelf, in the sessions and in the log is what was
  supplied; nothing is billed twice, or to the customer of another session. (That
  what is cashed is what was shown does not hold: section 5.)

## 3. The modules

Which module uses which: `ClientRecord` is extended by `ClientTable` and
`Billing`; `TarifPrice` by `Tarif` and `TarifSession`. Two modules say what a
component promises, and are implemented (`INSTANCE`): `Accounts` by
`Billing`, `Channel` by `Wire`. `Connection`, `Station` and `Stock` stand alone.
Each component has a module `MC...` where a constant needs a definition, and a
module `...Proofs` where theorems are proved about it; `CafeLemmas` has what those
share. Operators marked as
mutants change one definition the way a plausible bug would; nothing uses them,
they are there to be substituted, to see that a property notices.

### `ClientRecord` - one record

A record is `status`, `intervals` (a sequence of start and end times, an end of
0 meaning "running"), `timeout`, `member`, and an auxiliary `session` number
that identifies what a customer would call his session; the code has no such
id. The functions of `client.c` are operators from records to records
(`StartRecord` for `CCL_client_start`, ...), so that both state machines below
use one translation. `WellFormed` is the shape a record must have.

### `ClientTable` - all records, in memory and in the database

`clients` is `ccl->clients`, `stored` the `clients` table, `log` the
`sessionslog` table, `now` the clock. One action per call of `client.c` and for
`CCL_log_session`; the caller may make any call at any time, which is more than
`CCLWin.cpp` does. Each `_CCL_client_store` is one autocommitted statement, so
every call that writes more than once (`start`, `unstop`, `swap`) also has an
action for dying between its writes (`CrashInStart`, `CrashInUnstop`,
`CrashInSwap`) and reading the tables back.

### `Billing` - server windows, accounts, log and workstations

The variables, and what they are in the code:

| variable | code |
|---|---|
| `clients` | the records (from `ClientRecord`); durability is left to `ClientTable` |
| `userstop`, `blocked`, `allowed` | the flags USERSTOP, CLIENT_BLOCKED and ALLOW...LOGIN of a client |
| `settings` | its entry `client_settings` |
| `credit`, `loggedIn` | the members' credit and MEMBER_LOGGEDIN |
| `log` | `sessionslog`; `payer` and `session` of a row are auxiliary |
| `cashing` | `csession`, `cclient`, `cprice` of the cashing frame |
| `app` | `active`, the locker, `stime`, `client_timeout` of the client program |
| `requests`, `handling` | what is in a connection, and the request whose thread is past the credit check |
| `sessions`, `deposited` | auxiliary: sessions ever started, money ever paid in |

A request is taken up in two actions: `Receive` is the part of
`onEventCallback` before its switch (credit check, and the settlement of a
session that is used up), `HandleExit`, `HandleLogin` and `HandleOwed` are the
cases (and `HandleStatus`). Between the two the employee and the other threads may do anything: the
code reads the member and the credit before the switch and the status in it.
The employee's commands are one action each (`EmployeeStart`, `EmployeePause`,
`EmployeeStop`, `EmployeeUnstop`, `SetMember`, `SetTimeout`, `ToggleAllow`), as
are the two buttons of the cashing frame and the payments. The customer can
log in (only in a mode his locker shows), leave, or let the timer run, which
asks what is owed and, while the timeout is over, leaves again on every tick.
`Reconnect` loses what was on its way. `Printed` is the print server's report of a
job for a workstation whose session is already stopped and unpaid.

`Commands` and `Modes` select the employees' commands and the login modes in
use, so that one can ask which properties hold of a café that never uses, say,
the continue button. Several properties hold only so: see section 5.

What is abstracted, and why it may be:

- *Each action runs alone.* The code has no lock, so two threads can interleave
  inside one handler. `Billing` states what the handlers do when they do not.
  No counterexample of `Billing` depends on finer steps.
- *Commands arrive at once, requests do not* (`Station` drops this). The client
  program reads commands in order and changes nothing but `app` with them. A request that was sent
  after the server changed its mind and before the command arrived is the same
  behaviour as that request sent just before the change, which the model has.
- *One unit of time costs one unit of money.* Only sums and comparisons of
  prices matter here; what a session costs is `TarifSession`.
- *Passwords are right, `confirmLogin` says yes, permissions are given.* Each
  of these only takes a step away. The administrator's own password, which
  unlocks a screen locally and is checked by the client program alone, is
  left out: `NoFreeUse` is about customers.
- A workstation that is receiving a program update refuses commands
  (`curUpdClient`); that only takes steps away too.

### `Accounts` - what the owner of an account is promised

Two actions: `Pay` puts money into an account or takes it out, but no more than is
there (`CCL_pay_account`); `Charge` takes the price of a session from an account
that is not overdrawn and adds it to the bill. The refinement mapping
(`ImplementsAccounts` in `Billing`) takes `credit` and `deposited` as they are and,
for the bill of an account, the sum of the prices of its rows in the log
(`Charged`); amounts are those of the counter, prices what a `guint` holds. So a
step that takes credit without logging, logs without taking, charges twice at once,
or logs a negative credit as a price near 2^32 is no step of `Accounts`.

### `TarifPrice`, `Tarif`, `TarifSession` - what a session costs

`TarifPrice` has the pure part of `tarif.c`: a tariff's rows (`parts`, with days,
starting minute, price per hour; `prices`, what some number of minutes costs),
the sorted list of starting points a rebuild makes of them (`Links`), the search
in it, the price of a number of minutes (`PriceGet`), of an interval charged
per minute (`PerMinute`) or by the table, and `Calc` that chooses. Instants are
seconds since the start of a week of `Cardinality(Days)` days of `DayMinutes`
minutes; an interval may end in a later week.

`Tarif` is the state around it: both tables, `lists` (`ccl->tarifs`), `selected`
(`ccl->tarif_id` and `ccl->perminafter`), the stored default, the part selected
in the tab, and for each network thread the tariff it will restore. One action
per handler of `TarifFrame` (`AddPart`, `DelPart`, `SelectPart`, `ApplyChanges`,
`PerminSet`, `SetTarif`, `NewTarif`), the two halves of the calculation of a
member's price (`CalcBegin`, `CalcEnd`), and `Restart`, which builds all lists
from the tables. `StaleEdits` and `Races` say whether the employee changes a part
of a tariff that is not shown, and whether a price is calculated meanwhile.

`TarifSession` is one session under one tariff: it starts at some second of the
week, runs, is paused and resumed, and `Owed` is what `CCL_client_owed_terminal`
says at every moment. `RateAt` is the independent reading of the tables that
`PerMinuteAsRates` compares it with, summed over the seconds of an interval by
`Rates`; `Crossed` counts the boundaries at which a charge is cut and rounded down,
which is all the slack the properties allow. `Rises` is the premise of the other
two: a tariff of one part, whose prices rise with the minutes and do not exceed
what the hour costs where the price per minute takes over. Quotients of doubles are exact here, and
daylight saving, which `_weekstart` ignores, is left out.

### `Channel` and `Wire` - one direction of a connection

`Channel` is the promise: events come out in the order in which frames went in,
whole and once, until the connection ends; the last event may be a frame of
which only a part was read, or no command at all (`on_event` is called with cmd 0
when a connection is closed). `Wire` is the code: `Send` and `Write` are the
calls of `BIO_write` of `CCL_client_send_cmd`, `Arrive` and `Break` the network,
`ReadWord` and `ReadShort` the loop of `do_cnxn_proc`, which takes any short read for
the end of the connection. Data of `Limit` (256) bytes and more is not read.
The words on the wire carry their place in their frame, which nothing reads: it
is there for the properties and the proof. `Wire` implements `Channel` with the
variables of the same name (`ImplementsChannel`), and under fairness
(`NothingHangs`). One event need not be a frame: when the connection ends before the
next command, the server's loop hands over the command it still holds from the frame
before, its bytes swapped once more, or 0 if there was none (`NoCommands`).
`onEventCallback` drops 0 and whatever is above CC_MAXCMDNR (`CCLWin.cpp:1060`), and
a command of one byte that is swapped always is.

### `Connection` - how connections begin and end

`accepting` is the accepting thread with its place in `do_ccl_server`, `thread`
the reading threads with theirs in `do_cnxn_proc`, `record` the fields `bio` and
`sockfd` of each client. A name is what the server reads of it: the client
program sends the length of the text "server:port" for the length of its name
(`cclc.c`), so two workstations may be one to the server, and the size is sent in
the workstation's byte order, so the server clips it and reads what is there
(`NameTaken`). `_shutdown_connection` is two steps (`Free`, `Forget`), with the
accepting thread between them; a thread finds its client by the id, so `Free`
frees what the record holds by then. `shown` is the mark CLIENT_CONNECTED of the
main window, which a new thread sets and an old one takes away. The uninitialised time limit of the check
before the hand-shake is a choice: the connection passes, or is freed if it has
said nothing. `Silence` allows a workstation to be gone without notice; `Full`
that a connection takes no more data (then the accepting thread frees it under
its reader).

### `Station` - one workstation and its server, command by command

Server: the record's status, times and limit, the block flag, and `telling`, what
`updateClientStatus` has read and not yet sent. Client program: `app`. Between
them `toClient` and `toServer`, both lost when the connection breaks. One action
for each request, each button, each command obeyed (`CheckEvents`), the timer
with and without a connection. Clocks are counted to `Cap`, past which nothing
compares differently, so time never stops and liveness can be asked.
`Anytime` lets the employee press buttons that make no sense for the
workstation's status (none is ever disabled), `Atomic = FALSE` lets the GUI
thread act between the reading and the sending of `updateClientStatus`.

### `Stock` - products

| variable | code |
|---|---|
| `known`, `stock` | the products table |
| `active`, `paused`, `times` | status and first and last time of each record |
| `cart` | the products of each record |
| `logged`, `sold` | `sessionslog` and `productslog`; `row` is the id that joins them |
| `selected`, `onsale`, `items` | the workstation, the sale and the array of the products frame |
| `cashing` | the total of the sale in the cashing frame, which points into that array |
| `dialog` | the modal dialog that is open, and what was read before it opened |
| `report`, `pid` | what is left of the print server's report, the product found last |
| `now` | the clock |
| `session`, `sessions`, `sales`, `supplied` | auxiliary: numbers of sessions and sales, what was ever supplied |

Rows are found and cleared as the code does it: `Find` looks for the workstation
and the times its record has now (`CCL_log_session_find`), may find nothing, and what it
finds is cleared by its id in both tables; ids are used again (`NextId`). The session
number is written beside each row, where only the properties read it; that it is 0
stands for a record without intervals. `Stop`,
`ExitReset`, `Unstop`, `Pause`, `Resume` and `Swap` are what the workstation's thread and
the employee do to a session, with its products. The GUI thread opens one
modal dialog at a time: `Add`, `Sub` and `SetStock` run when it closes, and the threads
of the workstations and of the print server's connection (`Report`, `PrintLine`) may
run in between. Each step runs alone; the code has no lock, so its statements can
interleave finer than that. `Mishaps` names the ways in which the code loses track of
products (section 5); with none of them, everything adds up.

## 4. The runs

### Bounds

`ClientTable` and `Billing`: the clock (`MaxTime`), the sessions ever started
(`MaxSession`), the intervals of one (`MaxIntervals`), requests on their way per
workstation (`MaxInFlight`), what is paid into an account (`MaxCredit`) and the
row ids up to which a session may be taken up again (`MaxRows`) are bounded in
the guards. Two workstations and one account show every conflict about an
account; two sessions show a charge that meets the wrong one; two intervals show
a stop that is undone and a pause; a clock of 3 gives a session a price, a
timeout that has passed and a credit that is used up. `UInts` is 64 instead of
2^32: no sum of the model reaches it, so only a price below zero wraps, as in
the code. The two workstations are symmetric (neither is distinguished in a
constant), so the runs with two use symmetry; no liveness is checked there.

`Tarif`: two tariffs, three parts, one price row, a week of two days. A clash, a
part of another tariff, an id used again and a tariff that loses its last part all
happen with that. `TarifSession`: eight tariffs with and without a price table,
weeks of two days of two hours, starts before a part, at its edge, and at the end
of the week, ten ticks of ten minutes and three intervals: every kind of boundary is
crossed, some by one tick.

`Wire`: three frames of zero, one and two words, with the limit just above; each
can be cut at each word. `Connection`: two workstations with one name and three
connections: the new one meets the old one accepted, refused, being closed and
closed. `Station`: one limit of 1 and `Cap` 2 (not reached, reached, exceeded), one
request and two batches of commands on their way, one break. `Stock`: two workstations,
two sessions, a clock of 2, two row ids, a product that is a printer's page, one sale and
reports of one line: a row is cleared and its id used again by the other workstation, a
stop is undone and made again by a print job, a session in use is moved, and the sale
takes the product that the sessions have. `CHECK_DEADLOCK FALSE` stands in the cfgs of
the systems whose bounds or whose nature lets them stop: tariffs that nobody
edits, frames that were all sent, connections that were all used.

### Runs that pass

| run | what it asks | properties |
|---|---|---|
| `client_table` | Is the table right under every order of calls, with a crash at every write? | `TypeOK`, `AllWellFormed`, `Durable`, `SessionHeldOnce`, `BilledWithinSpan`, `TimeNeverLost` |
| `billing_selfservice` | Two workstations, one member, no employee at the main window: do threads and late requests keep the money right? | `NoFreeUse`, `BooksBalance`, `LoggedInIsInUse` |
| `billing_counter` | One workstation with start, stop, undone stops and print jobs, and the cashing frame | `ChargedOnce`, `CashingShowsUnpaid`, `NoSessionLost` |
| `billing_ticket` | A prepaid ticket and a timeout, two requests on their way: does every step keep what `Accounts` promises? | `ImplementsAccounts` |
| `billing_all` | All commands at once: what holds whatever is done? | `TypeOK`, `RowsKept` |
| `tarif` | Editing, switching, restarting, with prices calculated in between: are the lists those of the tables? | `TypeOK`, `ListsMatchTables`, `AssertionHolds`, `ListCoversWeek` |
| `tarif_session` | What is owed, at every moment of a session | `PerMinuteAsRates`, `PausesAreFree`, `OwedNeverFalls` |
| `wire` | One sending thread, frames cut and broken off anywhere | `TypeOK`, `ImplementsChannel`, `NothingHangs` |
| `connection` | Connections made, refused, ended in any order | `TypeOK`, `OneReader`, `ShownIsConnected`, `NobodyHangs` |
| `station` | Commands and requests on their way, a connection that breaks | `TypeOK`, `ScreenFollowsSession`, `LimitKnown`, `NeverTooEarly`, `ExpiredSessionEnds` |
| `stock` | Sessions paused, stopped, undone, moved and printed for, with row ids used again, beside deliveries and a sale | `TypeOK`, `StockAddsUp`, `LoggedOnce`, `ProductsOfSession` |

`BooksBalance` is conservation: deposits = credit + prices of the rows paid from
it; `ImplementsAccounts` says so step by step. `ChargedOnce` ties rows to sessions through the auxiliary session number.
`NoSessionLost` and `RowsKept` are action properties: a session with a price
never disappears from both record and log, and a row never disappears unless
its session goes on where it was. `PausesAreFree` holds per minute for every
session; by the table it excepts intervals that cross a boundary, where
`_CCL_tarif_realcalc` charges by the nearest price row (`tarif.c:1358`) and an uncut
session may be cheaper.

`connection_silence` is expected to fail: with `Silence`, `NobodyHangs` is
refuted. The check before the hand-shake, whose comment says "I dont want to block
forever, if the connection is not valid" (`ccl.c:777`), passes a connection that
says nothing, and the accepting thread then waits for the size of its name.

### Fairness

- `Wire`: a thread that began a frame writes on, what was written arrives unless
  the connection breaks, and the reading loop runs (`do_cnxn_proc` blocks in
  nothing but the read). That frames are sent is not assumed.
- `Connection`: both kinds of threads run; what a workstation says arrives, and its
  program notices within a tenth of a second that the server hung up
  (`onCheckEvents` adds itself again). That anybody connects or leaves is not
  assumed, and with `Silence` not even that the server hears of it.
- `Station`: the timers of the client program add themselves again at their end
  (`onTimer`, `onCheckEvents`), the thread of a connection handles what comes, time
  goes on. No fairness for customers, employees, or the network's breaks, of which
  there are `MaxBreaks`.

All fairness is weak: none of these steps is disabled by another actor except
for good.

## 5. What does not hold

Each of these configurations lets TLC find a short behaviour of the code that
breaks the named property; they stay beside the runs so that the behaviours can be
looked at (`tlc -config X.cfg MCModule`, with `-continue` where there are several
properties).

| configuration (module) | property | behaviour | what the code says |
|---|---|---|---|
| `ClientTableUnstop.cfg` (`MCClientTable`) | `UnstopRemovesEntry` | stop, log, swap, unstop: the entry stays, since it is looked up under the wrong workstation (`client.c:293`) | "removes the entry from the log, so everything is left as if you never stopped it" (`client.c:271`) |
| `ClientTableSwap.cfg` (`MCClientTable`) | `HeldOnce` | the server dies between the two stores of a swap: one session on two workstations (`client.c:404`); hence `torn` in `SessionHeldOnce` | - |
| `BillingBlocked.cfg` (`MCBilling`) | `BlockedUntilPaid` | a login that crosses the stop starts a session on the blocked workstation (`CCLWin.cpp:1148`; the test at 1140 is commented out) | "Block session - until paid or specifically allowed" (`CCLWin.cpp:1118`, 1634) |
| `BillingPaused.cfg` (`MCBilling`) | `ExitResetsIdle` | the timeout passes during a pause: the paused session is reset unbilled (`CCLWin.cpp:1134`) | "starting up the client" (`CCLWin.cpp:1133`) |
| `BillingPaused.cfg` (`MCBilling`) | `StopStops` | stop on a paused session does nothing to it (`CCLWin.cpp:1939`) | "Stop Session" (`CCLWin.cpp:241`); "status is INACTIVE" (1939) |
| `BillingPaused.cfg` (`MCBilling`) | `UsedUpStops` | a paused member's credit is used up: emptied, not logged, session left (`CCLWin.cpp:1081`) | "used up the time so stop the station" (`CCLWin.cpp:1080`) |
| `BillingSetMember.cfg` (`MCBilling`) | `MemberHasCredit` | credit minus debt as an unsigned number (`CCLWin.cpp:710`) | "check for enough credit" (`CCLWin.cpp:711`) |
| `BillingUnstopMember.cfg` (`MCBilling`) | `BooksBalance` | stop charges the account, its undoing does not give back (`CCLWin.cpp:1955`) | "as if you never stopped it" (`client.c:272`) |
| `BillingStopOverdrawn.cfg` (`MCBilling`) | `BooksBalance` | stop charges a member more than he has and leaves him attached; the next request settles the negative credit, as an unsigned price, in a second row of the session (`CCLWin.cpp:1925-1933`, 1080-1088) | "used up the time so stop the station" (`CCLWin.cpp:1080`) |
| `BillingSharedTicket.cfg` (`MCBilling`) | `BooksBalance` | one ticket at two workstations: the second session overdraws it, the next request at the first settles what is left, a negative number, as a price (`CCLWin.cpp:1252`) | "check balance" (`CCLWin.cpp:1251`) |
| `BillingTwoAccounts.cfg` (`MCBilling`) | `LoggedInIsInUse` | a second account logs in before the first one's login was handled; the first stays marked as logged in (`CCLWin.cpp:1181-1201`) | "mark as logged in" (`CCLWin.cpp:1199`) |
| `TarifStale.cfg` (`MCTarif`) | `ListsMatchTables` | changes go to a part of a tariff that is not in use, whose list is not rebuilt | "should be used after you are done modifying the tarif" (`tarif.c:145`) |
| `TarifOthers.cfg` (`MCTarif`) | `OtherTarifsUntouched` | deleting a part deletes the price row that has the part's id, of any tariff (`tarif.c:405`) | "Deletes a part from the current tarif" (`tarif.c:397`) |
| `TarifRaces.cfg` (`MCTarif`) | `TarifRestored` | the employee puts another tariff in use while a price is calculated; the old one comes back | "Restore previous tarif" (`client.c`, `CCL_client_owed_terminal`) |
| `TarifReprice.cfg` (`MCTarifSession`) | `RepriceAgrees` | the cashing frame prices a session of two intervals by the time of the last one (`CashingFrame.cpp:787`, `=` for `+=`) | "Sum the time" (`CashingFrame.cpp:785`) |
| `WireCommands.cfg` (`MCWire`) | `OnlySentCommands` | two threads of the server write to one workstation: a word of one frame is read as part of another (`client.c:1022`) | "Send a command to client" (`client.c:1003`) |
| `ConnectionMark.cfg` (`MCConnection`) | `ConnectedIsShown` | the thread of a workstation's last connection takes the mark CLIENT_CONNECTED off after the workstation has connected again (`CCLWin.cpp:1592`); `ShownIsConnected` is the direction that holds | "client is connected" (`cclfox.h:20`) |
| `StationThreads.cfg` (`Station`) | `ScreenFollowsSession` | `updateClientStatus` finds the session active, the employee stops it, and then the screen is opened (`CCLWin.cpp:1494`) | - |
| `StationAnytime.cfg` (`Station`) | `ScreenFollowsSession` | continue on a workstation without a session opens its screen (`CCLWin.cpp:1960`) | - |
| `StationAnytime.cfg` (`Station`) | `LimitKnown` | start on a workstation in use clears the limit there, not in the record (`CCLWin.cpp:1912`) | - |
| `StockLate.cfg` (`MCStock`) | `StockAddsUp` | a page is printed while the employee enters a delivery: the stock is set to what was read before (`ProductsFrame.cpp:451`) | "Quantity to add:" (`ProductsFrame.cpp:433`) |
| `StockReturn.cfg` (`MCStock`) | `ShownIsSold` | a return within a sale leaves the price of the item, and the cashing frame reads the array again (`ProductsFrame.cpp:540`, `CashingFrame.cpp:235`) | - |

Facts that explain a choice of constants in a passing run:

- The stop of a member's session leaves the account marked as logged in
  (`CCLWin.cpp:1924-1933`), so `LoggedInIsInUse` is asked without `stop`;
  `StationAnytime.cfg` is why `NoFreeUse` is asked without `unstop`.
- A print job for a stopped, unpaid session takes the session up and stops it
  again, so the time since its first stop is billed as well (`CCLWin.cpp:1344-1348`).
- On the first connection of a workstation `unBlockClient` reads the missing
  setting as -1, so all three login modes are allowed and become the setting
  (`CCLWin.cpp:1607-1625`, then 1540-1551): `Init` of `Billing`.
- When a member is set by hand on a stopped, unpaid session, his login undoes the
  stop (`CCLWin.cpp:1191`) and, unlike the button (1950-1953), does not clear the
  cashing frame: `CashingShowsUnpaid` is asked without `member`.
- A session that goes on after a pause or a stop is not told its limit
  (`CCLWin.cpp:1947-1960`), and the record drops one that has passed: hence
  `continued` in `LimitKnown` and `ExpiredSessionEnds`.
- `Full`: when the old connection takes no more data, the accepting thread frees it
  under its reading thread, which then closes the client's new connection
  (`ccl.c:829`, 723); `OneReader` is asked without it.
- `Mishaps` of `Stock`: pages no workstation printed lower the stock and are
  billed to nobody (`CCLWin.cpp:1357`, "aside"); a print job while the employee's
  dialog is open ends the sale, and the product is given to client 0 ("late");
  products given out at a workstation whose session ended are lost at the next
  start ("idle"), as are those of a paused session whose workstation exits
  (`CCLWin.cpp:1134`, "reset"); the rows of an ended session that moves to another
  workstation are not found again (`client.c:293`, "moved"), and those of two sessions
  with the same times are not told apart (`logging.c:195`, "quick"). A return within a
  sale leaves the price ("return") and a new sale reuses the array of the one being
  cashed ("reopen"). `stock` has none of these; the theorems about rows and stock allow
  the last two, which break what is charged and not what is on the shelf.
- The tariffs: `CCL_tarifpart_days_set` tests the opposite of what its comment says
  (`tarif.c:621`), so parts may overlap; `Applied` has it as it is.

## 6. Proofs

The theorems are about every number of workstations, accounts, requests, tariffs,
frames and products, and every bound. The assumptions on the
constants are the named `ASSUME`s of the modules (accounts are positive numbers,
the commands are those modelled, timeouts are natural numbers), which TLC
evaluates on every run. A theorem that needs more says so in its own `ASSUME`: it
names the commands, mishaps or interleavings without which the property holds, and
for each of them section 5 has the behaviour that breaks it.

### `CafeLemmas`

What the proofs about records, log and stock share.

*Sums.* Time used, what an account was charged, and products held are sums over
finite sets (`SumFunctionOnSet`), and the theorems about them come down to four
facts: the sum over no element (`SumOfNone`), with one more (`SumWith`), one less
(`SumWithout`) and one changed (`SumChanged`). The community modules' own lemmas
rest on an induction that takes the property as a parameter, so they are proved
here by a smallest counterexample instead (`LeastNat`): of the finite sets on which
no function obeys the recursive definition of the fold, take one with the fewest
elements, and leave one out (`SumsExist`, `SumsAgree`).

*Records.* One lemma per call of `client.c`: applied to a typed, well-formed
record it returns one (`Good`). The two central ones are `CloseGood` (stop and
pause end the last interval at the present) and `ReopenGood` (unstop and unpause
open it again, which is harmless because no interval follows it); `AppendGood` is
the one where a new interval must start after the end of the last, and needs that
no end lies in the future.

*Times.* What each call does to `TimeUsed` (`UsedClose`, `UsedReopen`, `UsedAppend`,
`UsedLater`: it never falls), that it fits between the first start and the last end
(`UsedWithinSpan`), and what becomes of these two (`StopTimes`, `UnstopTimes`, ...).

### `ClientTableProofs`

The inductive invariant `TableInv` is `RecordsOK /\ AllWellFormed /\ Durable /\
SessionsKnown /\ SessionHeldOnce`. Why each part is there: a call's result is
good only if its argument was (`RecordsOK`, `AllWellFormed`); a restart reads
`stored`, so without `Durable` nothing would be known of what it restores; the
session that a start creates is different from all others only because no
record names one that was not yet started (`SessionsKnown`). `SessionHeldOnce`
excepts the sessions in `torn`, those of a swap that died between its two
writes. `LogInv` adds the log: it is finite, so its next id is a number.

| theorem | for all instances |
|---|---|
| `RecordsTypeCorrect` | the records, in memory and in the database, are typed |
| `RecordsWellFormed` | `AllWellFormed` |
| `MemoryIsDurable` | `Durable` |
| `SessionsNotDuplicated` | `SessionHeldOnce` |
| `TableTypes` | `TypeOK` |
| `ChargedWithinSpan` | `BilledWithinSpan` |
| `TimeIsKept` | `TimeNeverLost` |

`TimeIsKept` is about steps: a call stores one record, of the session it had with no
less time, or of a session nobody holds (`StoreKept`), or moves the records between
workstations (`MovedKept`). A crash may bring back what was stored, which `Durable`
says is what was in memory, except for the one record whose call it cut in two.

### `BillingProofs`

`CafeInv` is the base: records typed and well formed, requests typed (the
account of a login ends up in a record, so the one needs the other), the clock
and the session counter natural numbers. `CafeTypes` adds the log, the accounts,
the flags, the cashing frame and the client programs. The prices need the records
there: what is owed is a time that was used, which is not negative and not more
than the clock.

| theorem | under | says |
|---|---|---|
| `CafeInvariant` | - | `CafeInv` |
| `CafeTypesCorrect` | - | `TypeOK` |
| `UseIsCharged` | no `unstop` | `NoFreeUse` |
| `CashingIsUnpaid` | no `member` | `CashingShowsUnpaid` |
| `FlagSaysWhoIsIn` | no `pause`, `stop`, `member`; `[]OneAccount` | `LoggedInIsInUse` |
| `BooksAreKept` | no `pause`, `stop`, `unstop`, `member`; numbers within a `guint`; `[]TicketsNotShared` | `BooksBalance` |
| `BillingImplementsAccounts` | the same | `ImplementsAccounts` |
| `SessionsChargedOnce` | no accounts, or no `stop` and `member`; `[]TicketsNotShared` | `ChargedOnce` |
| `ChargesAreKept` | the same, and the clock within a `guint` | `RowsKept` |
| `SessionsAreKept` | no `pause` | `NoSessionLost` |

`UseIsCharged` strengthens `NoFreeUse` by `AppOK`, the shape of what a client
program keeps. Every action is one of three: it locks the screen (`LockStep`),
it tells the workstation what its record says (`UpdateStep`), or it leaves the
screen and every ACTIVE record alone (`QuietStep`); the start button is the one
that unlocks by itself, and a start always ends ACTIVE. The step lemma `UseNext`
covers the continue button as well, on a workstation that has a session: the
empty one is the only exception, and TLC shows that it is a real one.

`CashingIsUnpaid` needs that a workstation whose customer left by himself has no
member (`LeftUnattached`): that is what the login of a member looks at before it
undoes a stop, so without the dialog that sets members no login ever removes an
entry. What is left are the two places that remove one, the continue button and
the print server, and both clear the frame.

`FlagSaysWhoIsIn` is about three actors, and its hypothesis about the customers
was found by trying to prove it: the flag says who is in only while no second
account logs in at a workstation in use (`OneAccount`), which the locked screen
prevents, but not for a login that is already on its way (`BillingTwoAccounts.cfg`).
The invariant adds that an idle workstation has no account (`IdleUnattached`) and
that a member is at one workstation at most (`OneHolder`), which the flag itself
sees to.

`BooksAreKept` and the refinement share one analysis. Of the accounts a step is one
of four: nothing changes and everybody stays (`Keeps`), somebody pays (`Pays`), an
account is charged and leaves a workstation (`Leaves`), an account comes to one
(`Enters`). `BooksInv` is `BooksBalance` with what makes every charge one of these:
an account on a workstation is not overdrawn (`Solvent`), because it came with
credit and a charge takes it off; that no second workstation holds it is `OneHolder`
for members and `TicketsNotShared` for tickets, whose login does not ask. Without
`Solvent`, the settlement of a used-up session would log a negative number
as a price near 2^32, and that is what happens after `stop`, which leaves the
account where it is (`BillingStopOverdrawn.cfg`), and with a shared ticket
(`BillingSharedTicket.cfg`). The step `Leaves` is `Charge` of `Accounts`, `Pays` is
`Pay`, the other two are stutters (`StepPromised`).

`SessionsChargedOnce` and `ChargesAreKept` are about rows found without an id. The
invariant `Once` says why the right one is found: a row is of a session of its
workstation that was started (`RowsKnown`); sessions of one workstation follow each
other, so rows that span some time have different times (`RowsInOrder`); the row of
the session that a workstation shows has the times of its record (`RowsInLine`); and
there is one such row per session (`OneRow`). It takes records and rows as arguments
because a print job takes up a session and stops it again in one step, so the
lemmas about the two halves are applied to a state in between. With accounts it
needs `FairInv`: what `onEventCallback` takes from an account that is used up is a
price, no more than the time of the session, and the workstation is left without an
account; a member stopped by the employee stays attached, and is settled a second time.

`SessionsAreKept` needs no invariant about the log: whoever ends a session logs it in
the same handler, except that an exit resets one that is paused.

### `TarifProofs`

`TarifTypes` (`TypeOK`) holds whatever is done.

`ListsCurrent`: without `Races` and `StaleEdits`, `ListsMatchTables`. A rebuild after
a change builds the list of the tariff in use only, so the proof has to show that
every change was to a part of that tariff: `ShownHere` says that what the tab lists
are parts of the tariff in use, or, while a member's price is being calculated, of
the one that will be restored (`OneCalculation`). `RebuildOne` is the central lemma:
if the starting points of all other tariffs are the same, building one list gives
what building all gives. `RowAdded`, `RowDropped` and `RowChanged` show that of the
three ways in which a row changes.

Under the same conditions, `AssertionNeverFails` (`AssertionHolds`) and
`ListsCoverWeek` (`ListCoversWeek`). The second is about `_tarif_rebuild`: the order in
which the links are sorted is total on the starting points of a tariff, a finite set
of them has a first and a last, leaving out links that continue the part before them
leaves a set with the same part in force at every minute, and the link at the start
of the week is there or is put there.

The rest is about `TarifSession`, for any tariffs, any grain of time, any length
of a session and any number of pauses.

| theorem | says |
|---|---|
| `PricedAsRates` | `PerMinuteAsRates`: per minute, every second is charged at the rate the rows give for it |
| `ChargeNeverFalls` | `OwedNeverFalls`: under a tariff of one part whose prices rise, who stays longer owes no less |
| `PausesCostNothing` | `PausesAreFree`: under such a tariff, who pauses owes no more, per minute always, by the table where no interval crosses a boundary |

The state hardly matters here (`SessionInv`: the tariff is one of the constant, the
intervals are of whole grains); the work is in the pure functions, which the code
computes by recursion (`_CCL_tarif_realcalc`, `CCL_tarifpart_price_get`) and by
loops.

*Recursion and sums.* `Recursion` proves that a recursive function on the natural
numbers exists and obeys its equation, if each value rests on smaller arguments only:
the initial pieces that obey it agree (`RecursionAgrees`) and can be extended
(`RecursionSteps`). `PerMinuteStep` and `PriceGetStep` are the equations of the two
functions, and the `Total` lemmas what sums bound and how they split. `Induct` is
induction for one set at a time.

*Per minute.* For an instant of the week, `Walk` finds the link of the list that
charges it and `StopAfter` where that link ends, round the week. `RateOfLink` says
that this link has the rate of the rows (`RateAt`), which rests on `ListsCoverWeek`'s
lemmas about sorting and merging. So a piece up to a boundary costs the sum of its
seconds but for one rounding (`BoundedPiece`); each boundary adds one
(`BoundedMore`); and `PerMinuteBounds` follows by induction over the length of the
interval.

*By the table.* Under `Rises` the price of some minutes is no less for more minutes
(`PriceRises`), the case where the longest row is split off included; the nearest row
is never below the minutes used (`NearestRow`); and up to the change to the price per
minute, no price is above what the hour costs there (`ChangeOver`). With these,
`LongerCostsMore` compares an interval with a longer one in the three cases: both by
the table, both per minute, and the second only.

*Pauses.* By the table each interval gets its share of one price, and shares rounded
down add up to no more than the whole (`SharesBounded`). Per minute the times of the
intervals add up (`MeasuredTotal`), an empty one counting for a second.

The assumptions are `SessionAssumption` (typed tariffs, parts that start within a
day, at least one part, instants of whole grains that divide a minute) and
`WeekAssumption`. Prices, minutes and `perminafter` are any natural numbers.

### `WireProofs`

For one sending thread (`OneThread`) and data below the limit (`AllRead`):
`TypeCorrect` (`TypeOK`) and `WireImplementsChannel` (`ImplementsChannel`). The
invariant is about places: the word after each word on the wire is the next of its
frame or the first of the next one (`WireOK`), the first unread word is the one the
reading loop expects, and what the loop holds is the frame's so far (`ReaderOK`).
From it every step of `Wire` is a `Send`, a `Deliver`, the `End` or a stutter of
`Channel` (`StepImplements`). The liveness half of the refinement is checked by TLC.

### `ConnectionProofs`

As long as no connection takes no more data (`~Full`), for any workstations, names
and number of connections: `ConnectionTypes` (`TypeOK`), `OneReaderPerClient`
(`OneReader`) and `ShownAreConnected` (`ShownIsConnected`), with `Silence` or
without. The invariant follows a connection through the server. Those that wait and
the one being accepted are different and untouched (`BacklogOK`, `AcceptingOK`);
from the moment one is registered until its own thread frees it, the record of its
client names it and nobody has freed it (`HoldersOK`); after that, until the
descriptor is forgotten, the descriptor alone still keeps others away. So no two
connections are one client's at once (`OneOwner`), a thread touches no record but
its own (`ThreadKeeps`), and closing "the client" by its id closes the right
connection. With `Full` this chain breaks at the registration, which is how
`OneReader` fails there.

### `StationProofs`

`StationTypes` (`TypeOK`) holds with every button. `ScreenInStep`
(`ScreenFollowsSession`), `LimitInStep` (`LimitKnown`) and `NoEarlyEnd`
(`NeverTooEarly`) hold without `Anytime` and with `Atomic`, for any number of
commands, requests and breaks; `StationAnytime.cfg` and
`StationThreads.cfg` show why.

The properties speak of the moment when everything has arrived, so the invariant has
to speak of all moments before it (`Agreed`). The client program keeps five things
that the server decides: screen, session, login modes, limit, and when the session
began. For each, the last command about it on its way (`toClient`, then what
`updateClientStatus` has yet to send) agrees with the record; if none is on its way,
the client program has it already. Then a handler only has to end with a command that
agrees, and obeying a command only moves it from the first case to the second. Two
facts keep that true: an opening command is followed by one about the screen
(`Followed`), and the screen a customer locked himself is explained by his request to
leave, which is on its way to the server (`Leaving`).

### `StockProofs`

| theorem | under | says |
|---|---|---|
| `StockTypes` | - | `TypeOK` |
| `ProductsLoggedOnce` | mishaps without `quick`, `moved` | `LoggedOnce` |
| `ProductsNotMixed` | mishaps without `quick`, `moved` | `ProductsOfSession` |
| `StockBalances` | mishaps without `late`, `aside`, `idle`, `reset`, `moved`, `quick` | `StockAddsUp` |

The first question is why a row found by workstation and times is the right one. The
invariant (`Inv`) says: the sessions of the workstations are numbered and different
(`SessionsNumbered`); rows of one workstation have different times and ids
(`LoggedApart`); a session in use has no row (`InUseUnlogged`); one that ended and is still
in its record is logged with the times the record has (`EndedLogged`); and each row of
`productslog` has the session of the row its id names (`SoldListed`). So what `Find`
finds for an ended session is its one row, and nothing else is cleared with it, although
ids are used again. Without `quick` and `moved` there is no `EndedLogged`.

`StockBalances` counts each product in three places (`Balanced`). When a session
ends its products move to the log without the stock, so a stopped session's rows must
be those of its record (`StoppedLogged`), or undoing the stop would create or lose
some; and what a dialog read before it opened must still be true when it closes
(`ReadStock`), which the print server's thread breaks (`StockLate.cfg`). A swap of two
workstations in use changes the sum over carts only in its order.

### What is checked by TLC only

Every safety property of a passing run is stated by a theorem, some of them under
the conditions given above. What remains:

- Liveness: `NothingHangs`, `NobodyHangs`, `ExpiredSessionEnds`.
- Section 5: a counterexample is its own proof.

## 7. What is not modelled, and the next steps

- The update of the client program, reports and log windows, settings, receipts,
  messages, pictures, employees, attached data: see the table in section 1. Most
  of the repository's lines are of this kind (the two tables of pixels alone are a
  third of it), or dialogs and SQL that read.
- SSL: it sits between the writes of `Wire` and the network and keeps their order.
- Undefined behaviour after memory was freed under another thread (the sender
  that looks at `sockfd` between `Free` and `Forget`).
- Arithmetic that stops the program: `owed_val / (hourrate/60)` divides by zero for
  a price between 1 and 59 per hour (`CCLWin.cpp:1078`, 1522).
- The fall-through from CS_SETADMINPASS into CS_SETPOLLINTERVAL
  (`cclcfox.cpp:694`): the commands of the administrator are not in `Station`.

Next, in this order:

1. `BillingThreads`: the handlers of `Billing` in the steps at which two threads
   can interleave (read credit, write credit; switch tariff, calculate).
2. Proofs: wider conditions for the theorems about `Billing` and `Station`; a
   condition under which `OwedNeverFalls` and `PausesAreFree` hold for tariffs of
   several parts.
3. Discounts and edited prices of the cashing frame; the swap with its commands to
   both workstations (records and products are in `ClientTable` and `Stock`).
4. `Stock` in the statements of `logging.c`, between which two threads that log at
   once can take the same row id.
