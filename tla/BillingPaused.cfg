\* Counterexamples: what befalls a session that is paused when its workstation
\* exits, when the employee stops it, and when the credit is used up.
SPECIFICATION Spec
CONSTANTS
  Clients = {c1}
  Members = {1}
  Tickets = {}
  Modes = {"user", "member"}
  Commands = {"pause", "stop", "timeout"}
  Timeouts = {1}
  Deposits <- OneDeposit
  MinCredit = 0
  UInts = 64
  MaxTime = 3
  MaxSession = 1
  MaxIntervals = 2
  MaxInFlight = 1
  MaxCredit = 1
  MaxRows = 1
PROPERTIES ExitResetsIdle StopStops UsedUpStops
