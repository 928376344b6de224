\* Counterexamples: buttons that make no sense for the workstation's status, Start
\* on one in use and Continue on one without a session.
SPECIFICATION Spec
CONSTANTS
  Limits = {1}
  Cap = 2
  Commands = {"start", "unstop", "time"}
  Anytime = TRUE
  Atomic = TRUE
  MaxWaiting = 1
  MaxAsked = 1
  MaxBreaks = 0
INVARIANTS ScreenFollowsSession LimitKnown
