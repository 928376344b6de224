SPECIFICATION Spec
CONSTANTS
  Clients = {c1}
  Members = {1}
  Tickets = {}
  Modes = {"user", "member"}
  Commands = {"start", "pause", "stop", "unstop", "member", "timeout", "allow", "print"}
  Timeouts = {1}
  Deposits <- OneDeposit
  MinCredit = 0
  UInts = 64
  MaxTime = 3
  MaxSession = 1
  MaxIntervals = 2
  MaxInFlight = 1
  MaxCredit = 1
  MaxRows = 1
INVARIANTS TypeOK
PROPERTIES RowsKept
