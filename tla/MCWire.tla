------------------------------- MODULE MCWire -------------------------------
(***************************************************************************)
(* Frames without data, with one word and with two.                        *)
(***************************************************************************)
EXTENDS Wire, TLC

FramesDef ==
  {[cmd |-> 1, data |-> <<>>],      \* CC_USEREXIT
   [cmd |-> 8, data |-> <<2>>],     \* CC_MEMBERLOGIN, shortened
   [cmd |-> 10, data |-> <<1, 3>>]} \* CC_MEMBERLOGINWITHNAME, shortened

\* CS_SETTIME, CS_STOP and CS_LOCKSCREEN of two threads of the server
CommandsDef ==
  {[cmd |-> 9, data |-> <<600>>], [cmd |-> 1, data |-> <<>>], [cmd |-> 15, data |-> <<>>]}
=============================================================================
