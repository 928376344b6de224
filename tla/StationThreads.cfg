\* Counterexample: updateClientStatus decides what to send, the employee stops
\* the session, and the workstation is told to open its screen.
SPECIFICATION Spec
CONSTANTS
  Limits = {1}
  Cap = 2
  Commands = {"start", "stop", "unblock"}
  Anytime = FALSE
  Atomic = FALSE
  MaxWaiting = 1
  MaxAsked = 1
  MaxBreaks = 0
INVARIANT ScreenFollowsSession
