\* Counterexample: the stop of a member's session is undone, what it took from
\* the account is not given back.
SPECIFICATION Spec
CONSTANTS
  Clients = {c1}
  Members = {1}
  Tickets = {}
  Modes = {"user", "member"}
  Commands = {"stop", "unstop"}
  Timeouts = {}
  Deposits <- SomeDeposits
  MinCredit = 0
  UInts = 64
  MaxTime = 5
  MaxSession = 2
  MaxIntervals = 2
  MaxInFlight = 2
  MaxCredit = 3
  MaxRows = 3
INVARIANTS BooksBalance
