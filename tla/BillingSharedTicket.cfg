\* Counterexample: a ticket is used at two workstations at once, and what the
\* second session overdraws becomes a price.
SPECIFICATION Spec
CONSTANTS
  Clients = {c1, c2}
  Members = {1}
  Tickets = {1}
  Modes = {"user", "member", "ticket"}
  Commands = {}
  Timeouts = {1}
  Deposits <- OneDeposit
  MinCredit = 0
  UInts = 64
  MaxTime = 4
  MaxSession = 2
  MaxIntervals = 2
  MaxInFlight = 1
  MaxCredit = 2
  MaxRows = 4
INVARIANT BooksBalance
