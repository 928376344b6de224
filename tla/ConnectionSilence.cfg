\* A workstation may lose its power before it has said its name.
SPECIFICATION FairSpec
CONSTANTS
  Stations = {"pc1", "bar"}
  Names <- Heard
  Unnamed = "unnamed"
  Silence = TRUE
  Full = FALSE
  MaxConns = 2
PROPERTIES NobodyHangs
CHECK_DEADLOCK FALSE
