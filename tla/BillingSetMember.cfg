\* Counterexample: a member with less credit than the session costs is set on
\* its workstation.
SPECIFICATION Spec
CONSTANTS
  Clients = {c1}
  Members = {1}
  Tickets = {}
  Modes = {"user", "member"}
  Commands = {"member"}
  Timeouts = {}
  Deposits <- SomeDeposits
  MinCredit = 0
  UInts = 64
  MaxTime = 5
  MaxSession = 2
  MaxIntervals = 2
  MaxInFlight = 2
  MaxCredit = 3
  MaxRows = 3
PROPERTIES MemberHasCredit
