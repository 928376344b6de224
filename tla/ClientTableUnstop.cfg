\* Counterexample: a session is swapped after it was stopped, and the stop is
\* undone: its row stays in the log.
SPECIFICATION Spec
CONSTANTS
  Clients = {c1, c2}
  Members = {}
  Timeouts <- SomeTimeouts
  MaxTime = 2
  MaxSession = 2
  MaxIntervals = 2
  MaxRows = 1
SYMMETRY Workstations

PROPERTY UnstopRemovesEntry
