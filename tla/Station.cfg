SPECIFICATION FairSpec
CONSTANTS
  Limits = {1}
  Cap = 2
  Commands = {"start", "stop", "pause", "unstop", "time", "more", "unblock"}
  Anytime = FALSE
  Atomic = TRUE
  MaxWaiting = 1
  MaxAsked = 1
  MaxBreaks = 1
INVARIANTS TypeOK ScreenFollowsSession LimitKnown
PROPERTIES NeverTooEarly ExpiredSessionEnds
