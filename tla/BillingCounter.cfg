SPECIFICATION Spec
CONSTANTS
  Clients = {c1}
  Members = {}
  Tickets = {}
  Modes = {"user"}
  Commands = {"start", "stop", "unstop", "print"}
  Timeouts = {}
  Deposits <- SomeDeposits
  MinCredit = 0
  UInts = 64
  MaxTime = 3
  MaxSession = 2
  MaxIntervals = 2
  MaxInFlight = 1
  MaxCredit = 3
  MaxRows = 4
INVARIANTS ChargedOnce CashingShowsUnpaid
PROPERTIES NoSessionLost
