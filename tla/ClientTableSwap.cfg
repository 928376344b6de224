\* Counterexample: the server dies between the two stores of a swap, and one
\* session is on both workstations.
SPECIFICATION Spec
CONSTANTS
  Clients = {c1, c2}
  Members = {}
  Timeouts <- SomeTimeouts
  MaxTime = 2
  MaxSession = 2
  MaxIntervals = 2
  MaxRows = 1
SYMMETRY Workstations
INVARIANT HeldOnce
