\* Counterexample: the stop of a member's session charges more than there is and
\* leaves him attached; the next request settles the negative credit as a price.
SPECIFICATION Spec
CONSTANTS
  Clients = {c1}
  Members = {1}
  Tickets = {}
  Modes = {"user", "member", "ticket"}
  Commands = {"stop"}
  Timeouts = {1}
  Deposits <- OneDeposit
  MinCredit = 0
  UInts = 64
  MaxTime = 4
  MaxSession = 2
  MaxIntervals = 2
  MaxInFlight = 1
  MaxCredit = 2
  MaxRows = 4
INVARIANT BooksBalance
