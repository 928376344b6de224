\* Two workstations that are one to the server and come and go as long as there
\* are connections to make; then everything may stop.
SPECIFICATION FairSpec
CONSTANTS
  Stations = {"bar", "bart"}
  Names <- Heard
  Unnamed = "unnamed"
  Silence = FALSE
  Full = FALSE
  MaxConns = 3
INVARIANTS TypeOK OneReader ShownIsConnected
PROPERTIES NobodyHangs
CHECK_DEADLOCK FALSE
