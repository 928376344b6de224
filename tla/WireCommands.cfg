\* Counterexample: two threads of the server write frames to one workstation,
\* and the words of the frames mix.
SPECIFICATION Spec
CONSTANTS
  Threads = {gui, connection}
  Frames <- CommandsDef
  Limit = 1000
  MaxFrames = 2
INVARIANT OnlySentCommands
CHECK_DEADLOCK FALSE
