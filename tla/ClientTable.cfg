\* Two workstations, two sessions: enough for a swap, a stop and an unstop of
\* one session while the other is started, stopped or logged.
SPECIFICATION Spec
CONSTANTS
  Clients = {c1, c2}
  Members = {}
  Timeouts <- SomeTimeouts
  MaxTime = 2
  MaxSession = 2
  MaxIntervals = 2
  MaxRows = 1
SYMMETRY Workstations
INVARIANTS TypeOK AllWellFormed Durable SessionHeldOnce BilledWithinSpan
PROPERTY TimeNeverLost
