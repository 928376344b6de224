\* Counterexample: a second account logs in at a workstation in use while the
\* first one's login was on its way; the first account stays marked as logged in.
SPECIFICATION Spec
CONSTANTS
  Clients = {c1, c2}
  Members = {1, 2}
  Tickets = {}
  Modes = {"user", "member", "ticket"}
  Commands = {}
  Timeouts = {1}
  Deposits <- OneDeposit
  MinCredit = 0
  UInts = 64
  MaxTime = 2
  MaxSession = 2
  MaxIntervals = 2
  MaxInFlight = 1
  MaxCredit = 2
  MaxRows = 4
INVARIANT LoggedInIsInUse
