\* Counterexample: a workstation whose connection breaks and that connects again before
\* the thread of its last connection has taken the mark off.
SPECIFICATION Spec
CONSTANTS
  Stations = {"pc1"}
  Names <- Heard
  Unnamed = "unnamed"
  Silence = FALSE
  Full = FALSE
  MaxConns = 2
INVARIANTS ConnectedIsShown
CHECK_DEADLOCK FALSE
