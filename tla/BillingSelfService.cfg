SPECIFICATION Spec
CONSTANTS
  Clients = {c1, c2}
  Members = {1}
  Tickets = {}
  Modes = {"user", "member"}
  Commands = {}
  Timeouts = {}
  Deposits <- OneDeposit
  MinCredit = 0
  UInts = 64
  MaxTime = 3
  MaxSession = 2
  MaxIntervals = 1
  MaxInFlight = 1
  MaxCredit = 2
  MaxRows = 4
SYMMETRY Workstations
INVARIANTS NoFreeUse BooksBalance LoggedInIsInUse
