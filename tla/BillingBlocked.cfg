\* Counterexample: a login that was on its way when the employee stopped the
\* session starts a session on the blocked workstation.
SPECIFICATION Spec
CONSTANTS
  Clients = {c1}
  Members = {}
  Tickets = {}
  Modes = {"user"}
  Commands = {"stop"}
  Timeouts = {}
  Deposits <- SomeDeposits
  MinCredit = 0
  UInts = 64
  MaxTime = 3
  MaxSession = 2
  MaxIntervals = 2
  MaxInFlight = 2
  MaxCredit = 3
  MaxRows = 3
PROPERTIES BlockedUntilPaid
