SPECIFICATION Spec
CONSTANTS
  Clients = {c1}
  Members = {1}
  Tickets = {1}
  Modes = {"user", "ticket"}
  Commands = {"start", "timeout"}
  Timeouts = {1}
  Deposits <- SomeDeposits
  MinCredit = 0
  UInts = 64
  MaxTime = 3
  MaxSession = 2
  MaxIntervals = 1
  MaxInFlight = 2
  MaxCredit = 3
  MaxRows = 1
PROPERTY ImplementsAccounts
