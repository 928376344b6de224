------------------------------ MODULE Station ------------------------------
(***************************************************************************)
(* One workstation and the server's record of it, with the commands and    *)
(* requests between them on their way.  The server tells the workstation   *)
(* what to do in single commands (CCLWin.cpp), the client program obeys    *)
(* them one by one (cclcfox.cpp, execCommand), asks for logins and exits,  *)
(* and ends a session whose time is up by itself: nothing on the server    *)
(* does.  When the connection breaks what is on its way is lost, and the   *)
(* timer of the client program connects again.                             *)
(*                                                                         *)
(* Sessions without an account; who pays is the business of Billing.  Time *)
(* is counted up to Cap, beyond which only comparisons with Limits would   *)
(* matter: it never stops.                                                 *)
(***************************************************************************)
EXTENDS Integers, Sequences

CONSTANTS Limits,      \* the session lengths the employee sets
          Cap,         \* times at and above it are the same
          Commands,    \* the buttons the employee uses
          Anytime,     \* also while they make no sense: no button is ever disabled
          Atomic,      \* but not while updateClientStatus is at work
          MaxWaiting,  \* bound: commands on their way when another is given or
                       \* the customer asks for one
          MaxAsked,    \* bound: requests on their way when the customer asks again
          MaxBreaks    \* bound: how often the connection breaks

ASSUME LimitsAssumption ==
  /\ Limits \subseteq Nat /\ Cap \in Nat \ {0}
  /\ \A l \in Limits : l < Cap
ASSUME CommandsAssumption ==
  Commands \subseteq {"start", "stop", "pause", "unstop", "time", "more", "unblock"}
ASSUME BoundsAssumption ==
  /\ Anytime \in BOOLEAN /\ Atomic \in BOOLEAN
  /\ {MaxWaiting, MaxAsked, MaxBreaks} \subseteq Nat

VARIABLES session,    \* the record of the workstation: its status and times
          blocked,    \* flag CLIENT_BLOCKED; the ALLOW flags are off exactly then
          telling,    \* what updateClientStatus decided to send and has not sent
          app,        \* the client program
          up,         \* the connection stands
          greeted,    \* on_connect has run for it
          toServer,   \* requests on their way
          toClient,   \* commands on their way
          breaks,     \* how often the connection broke
          continued   \* auxiliary: the session went on after a pause or a stop,
                      \* and the limit was not sent since

server == <<session, blocked, telling, continued>>
channels == <<up, greeted, toServer, toClient, breaks>>
vars == <<server, app, channels>>

Least(a, b) == IF a < b THEN a ELSE b
Time(n) == Least(n, Cap)

\* before: the intervals that ended, last: since the last one began, held: its
\* length once it has ended
NoSession ==
  [status |-> "INACTIVE", exists |-> FALSE, before |-> 0, last |-> 0, held |-> 0, limit |-> 0]

Init ==
  /\ session = NoSession
  /\ blocked = FALSE
  /\ telling = <<>>
  /\ app = [active |-> FALSE, locked |-> TRUE, elapsed |-> 0, limit |-> 0, allow |-> FALSE]
  /\ up = FALSE
  /\ greeted = FALSE
  /\ toServer = <<>>
  /\ toClient = <<>>
  /\ breaks = 0
  /\ continued = FALSE

-----------------------------------------------------------------------------
(* The record: CCL_client_start, stop, pause, unstop and unpause *)

\* CCL_client_time_used
Used(s) == Time(s.before + IF s.status = "ACTIVE" THEN s.last ELSE s.held)

\* Mutant: the new session gets no interval.
StartedEmpty(s) ==
  CASE s.status = "INACTIVE" -> [NoSession EXCEPT !.status = "ACTIVE"]
    [] s.status = "PAUSED" -> [s EXCEPT !.status = "ACTIVE", !.before = Used(s), !.last = 0, !.held = 0]
    [] OTHER -> s

Started(s) ==
  CASE s.status = "INACTIVE" -> [NoSession EXCEPT !.status = "ACTIVE", !.exists = TRUE]
    [] s.status = "PAUSED" -> [s EXCEPT !.status = "ACTIVE", !.before = Used(s), !.last = 0, !.held = 0]
    [] OTHER -> s

Ended(s, status) ==
  IF s.status = "ACTIVE" THEN [s EXCEPT !.status = status, !.held = s.last] ELSE s
Stopped(s) == Ended(s, "INACTIVE")
Paused(s) == Ended(s, "PAUSED")

Unstopped(s) ==
  IF s.status = "INACTIVE" /\ s.exists
  THEN [s EXCEPT !.status = "ACTIVE", !.held = 0, !.limit = IF Used(s) > @ THEN 0 ELSE @]
  ELSE s
Unpaused(s) ==
  IF s.status = "PAUSED" THEN [s EXCEPT !.status = "ACTIVE", !.held = 0] ELSE s

-----------------------------------------------------------------------------
(* The commands *)

Cmd(c) == [cmd |-> c, value |-> 0]
CmdWith(c, v) == [cmd |-> c, value |-> v]
Number(b) == IF b THEN 1 ELSE 0

\* CCL_client_send_cmd sends nothing over a connection that does not stand.
Sent(messages) == IF up THEN toClient \o messages ELSE toClient

\* Mutant: the limit is not sent.
UpdateNoLimit(s) ==
  (IF s.status = "ACTIVE"
   THEN <<Cmd("START"), CmdWith("SETTIME", Used(s)), Cmd("UNLOCK")>>
   ELSE <<Cmd("STOP"), Cmd("LOCK")>>)
  \o <<CmdWith("ALLOW", Number(~blocked))>>

\* updateClientStatus, what it decides to send
Update(s) ==
  (IF s.status = "ACTIVE"
   THEN <<Cmd("START"), CmdWith("SETTIME", Used(s)), CmdWith("SETTIMEOUT", s.limit),
          Cmd("UNLOCK")>>
   ELSE <<Cmd("STOP"), Cmd("LOCK")>>)
  \o <<CmdWith("ALLOW", Number(~blocked))>>

\* It sends later than it decides.
Tell(messages) == telling' = messages /\ UNCHANGED toClient

SendUpdate ==
  /\ telling # <<>>
  /\ toClient' = Sent(telling)
  /\ telling' = <<>>
  /\ UNCHANGED <<session, blocked, continued, app, up, greeted, toServer, breaks>>

-----------------------------------------------------------------------------
(* The connection's thread on the server *)

\* onConnectCallback
Greet ==
  /\ up /\ ~greeted /\ telling = <<>>
  /\ greeted' = TRUE
  /\ Tell((IF blocked THEN <<>> ELSE <<CmdWith("ALLOW", 1)>>) \o Update(session))
  /\ continued' = FALSE
  /\ UNCHANGED <<session, blocked, app, up, toServer, breaks>>

Receive(request) ==
  /\ greeted /\ telling = <<>>
  /\ toServer # <<>>
  /\ Head(toServer) = request
  /\ toServer' = Tail(toServer)
  /\ UNCHANGED <<app, up, greeted, breaks>>

\* CC_GETSTATUS
HandleStatus ==
  /\ Receive("GETSTATUS")
  /\ Tell(Update(session))
  /\ continued' = FALSE
  /\ UNCHANGED <<session, blocked>>

\* CC_USERLOGIN
HandleLogin ==
  /\ Receive("USERLOGIN")
  /\ session' = Started(session)
  /\ Tell(Update(Started(session)))
  /\ continued' = FALSE
  /\ UNCHANGED blocked

\* CC_USEREXIT: the session is logged as unpaid and the workstation blocked.
HandleExit ==
  /\ Receive("USEREXIT")
  /\ IF session.status = "ACTIVE"
     THEN /\ session' = Stopped(session)
          /\ blocked' = TRUE
          /\ toClient' = Sent(<<CmdWith("ALLOW", 0), Cmd("LOCK"), Cmd("STOP")>>)
     ELSE session' = NoSession /\ UNCHANGED <<blocked, toClient>>
  /\ UNCHANGED <<telling, continued>>

Handle == HandleStatus \/ HandleLogin \/ HandleExit

-----------------------------------------------------------------------------
(* The employee: CCLWin::onCommand and onTime *)

\* Whether a command is for a workstation like this
Fits(command, s) ==
  CASE command = "start" -> s.status # "ACTIVE"
    [] command \in {"stop", "pause"} -> s.status = "ACTIVE"
    [] command = "unstop" -> s.status = "PAUSED" \/ (s.status = "INACTIVE" /\ s.exists)
    [] OTHER -> TRUE

Give(command) ==
  /\ command \in Commands
  /\ Anytime \/ Fits(command, session)
  /\ Atomic => telling = <<>>
  /\ Len(toClient) <= MaxWaiting
  /\ UNCHANGED <<telling, app, up, greeted, toServer, breaks>>

\* ID_START: the workstation starts over even if the record does not.
EmployeeStart ==
  /\ Give("start")
  /\ session' = Started(session)
  /\ continued' = (continued \/ session.status = "PAUSED")
  /\ toClient' = Sent(<<Cmd("START"), Cmd("UNLOCK")>>)
  /\ UNCHANGED blocked

\* Mutant: the screen of the stopped workstation stays open.
StopOpen ==
  /\ Give("stop")
  /\ session' = Stopped(session)
  /\ IF session.status = "ACTIVE"
     THEN /\ blocked' = TRUE
          /\ toClient' = Sent(<<CmdWith("ALLOW", 0), Cmd("STOP")>>)
     ELSE /\ toClient' = Sent(<<Cmd("STOP")>>)
          /\ UNCHANGED blocked
  /\ UNCHANGED continued

\* ID_STOP
EmployeeStop ==
  /\ Give("stop")
  /\ session' = Stopped(session)
  /\ IF session.status = "ACTIVE"
     THEN /\ blocked' = TRUE
          /\ toClient' = Sent(<<CmdWith("ALLOW", 0), Cmd("STOP"), Cmd("LOCK")>>)
     ELSE /\ toClient' = Sent(<<Cmd("STOP"), Cmd("LOCK")>>)
          /\ UNCHANGED blocked
  /\ UNCHANGED continued

\* ID_PAUSE: the client program knows no CS_PAUSE.
EmployeePause ==
  /\ Give("pause")
  /\ session' = Paused(session)
  /\ toClient' = Sent(<<Cmd("PAUSE"), Cmd("LOCK")>>)
  /\ UNCHANGED <<blocked, continued>>

\* ID_UNSTOP: the time is read before the session goes on, its limit is not sent.
EmployeeUnstop ==
  /\ Give("unstop")
  /\ session' = Unpaused(Unstopped(session))
  /\ continued' = (continued \/ session' # session)
  /\ toClient' = Sent(<<Cmd("RESUME"), CmdWith("SETTIME", Used(session)), Cmd("UNLOCK")>>)
  /\ UNCHANGED blocked

\* onTime
EmployeeTime ==
  /\ Give("time")
  /\ \E l \in Limits :
       /\ session' = [session EXCEPT !.limit = l]
       /\ toClient' = Sent(<<CmdWith("SETTIMEOUT", l)>>)
  /\ continued' = FALSE
  /\ UNCHANGED blocked

\* ID_10MIN to ID_60MIN: starts the workstation first if it is not in use
EmployeeMore ==
  /\ Give("more")
  /\ LET new == session.status = "INACTIVE"
         base == IF new THEN Started(session) ELSE session
     IN  \E l \in {x \in Limits : x > base.limit} :
           /\ session' = [base EXCEPT !.limit = l]
           /\ toClient' = Sent((IF new THEN <<Cmd("START"), Cmd("UNLOCK")>> ELSE <<>>)
                               \o <<CmdWith("SETTIMEOUT", l)>>)
  /\ continued' = FALSE
  /\ UNCHANGED blocked

\* unBlockClient, when the session is paid or the employee allows logins again
EmployeeUnblock ==
  /\ Give("unblock")
  /\ blocked
  /\ blocked' = FALSE
  /\ toClient' = Sent(<<CmdWith("ALLOW", 1)>>)
  /\ UNCHANGED <<session, continued>>

Employee ==
  \/ EmployeeStart \/ EmployeeStop \/ EmployeePause \/ EmployeeUnstop
  \/ EmployeeTime \/ EmployeeMore \/ EmployeeUnblock

-----------------------------------------------------------------------------
(* The client program *)

\* execCommand
Obeyed(a, m) ==
  CASE m.cmd = "START" -> [a EXCEPT !.active = TRUE, !.elapsed = 0, !.limit = 0]
    [] m.cmd = "STOP" -> [a EXCEPT !.active = FALSE]
    [] m.cmd = "RESUME" -> [a EXCEPT !.active = TRUE]
    [] m.cmd = "SETTIME" -> [a EXCEPT !.elapsed = m.value]
    [] m.cmd = "SETTIMEOUT" -> [a EXCEPT !.limit = m.value]
    [] m.cmd = "UNLOCK" -> [a EXCEPT !.locked = FALSE]
    [] m.cmd = "LOCK" -> [a EXCEPT !.locked = TRUE]
    [] m.cmd = "ALLOW" -> [a EXCEPT !.allow = (m.value = 1)]
    [] OTHER -> a

\* onCheckEvents, one command at a time
CheckEvents ==
  /\ up /\ toClient # <<>>
  /\ app' = Obeyed(app, Head(toClient))
  /\ toClient' = Tail(toClient)
  /\ UNCHANGED <<server, up, greeted, toServer, breaks>>

Asked(request) == IF up THEN Append(toServer, request) ELSE toServer

\* Locker::onButtonRelease, the button of CC_USERLOGIN
CustomerLogin ==
  /\ app.locked /\ app.allow
  /\ Len(toServer) < MaxAsked /\ Len(toClient) <= MaxWaiting
  /\ toServer' = Asked("USERLOGIN")
  /\ UNCHANGED <<server, app, up, greeted, toClient, breaks>>

\* userExit, the requests it leaves on their way after others
ExitAsked(requests) == IF app.active THEN Append(requests, "USEREXIT") ELSE requests

\* ClientWin's exit button
CustomerExit ==
  /\ ~app.locked
  /\ Len(toServer) < MaxAsked
  /\ app' = [app EXCEPT !.locked = TRUE]
  /\ toServer' = IF up THEN ExitAsked(toServer) ELSE toServer
  /\ UNCHANGED <<server, up, greeted, toClient, breaks>>

\* Mutant: the limit is reached one moment too early.
ExpiredEarly(a) == a.active /\ 0 < a.limit /\ a.elapsed >= a.limit

Expired(a) == a.active /\ 0 < a.limit /\ a.elapsed > a.limit

\* The rest of onTimer once it is connected or not: requests are those on their
\* way by then.
TimerExit(connected, requests) ==
  IF Expired(app)
  THEN /\ app' = [app EXCEPT !.locked = TRUE]
       /\ toServer' = IF connected THEN Append(requests, "USEREXIT") ELSE requests
  ELSE UNCHANGED app /\ toServer' = requests

\* onTimer; it adds itself again at its end.
TimerTick ==
  /\ up /\ Expired(app)
  /\ Len(toServer) < MaxAsked
  /\ TimerExit(TRUE, toServer)
  /\ UNCHANGED <<server, up, greeted, toClient, breaks>>

\* onTimer without a connection: initNetworking first, which asks for the status.
TimerConnects ==
  /\ ~up
  /\ up' = TRUE
  /\ TimerExit(TRUE, <<"GETSTATUS">>)
  /\ UNCHANGED <<server, greeted, toClient, breaks>>

\* The server is not reached.
TimerFails ==
  /\ ~up
  /\ breaks < MaxBreaks
  /\ breaks' = breaks + 1
  /\ TimerExit(FALSE, toServer)
  /\ UNCHANGED <<server, up, greeted, toClient>>

OnTimer == TimerTick \/ TimerConnects \/ TimerFails

-----------------------------------------------------------------------------

\* The connection breaks.  What was on its way is lost, and both ends find out
\* at once: a command sent in between would be lost too.
Disconnect ==
  /\ up
  /\ breaks < MaxBreaks
  /\ breaks' = breaks + 1
  /\ up' = FALSE
  /\ greeted' = FALSE
  /\ toServer' = <<>>
  /\ toClient' = <<>>
  /\ UNCHANGED <<server, app>>

Tick ==
  /\ session' = [session EXCEPT !.last = IF session.exists THEN Time(@ + 1) ELSE @]
  /\ app' = [app EXCEPT !.elapsed = Time(@ + 1)]
  /\ UNCHANGED <<blocked, telling, continued, channels>>

Next ==
  \/ Greet \/ Handle \/ SendUpdate
  \/ Employee
  \/ CheckEvents \/ CustomerLogin \/ CustomerExit \/ OnTimer
  \/ Disconnect \/ Tick

Spec == Init /\ [][Next]_vars

\* Both timers of the client program add themselves again whenever they have
\* run, the thread of a connection waits for nothing else, and time goes on.
Fairness ==
  /\ WF_vars(Greet) /\ WF_vars(Handle) /\ WF_vars(SendUpdate)
  /\ WF_vars(CheckEvents)
  /\ WF_vars(TimerTick) /\ WF_vars(TimerConnects)
  /\ WF_vars(Tick)

FairSpec == Spec /\ Fairness

-----------------------------------------------------------------------------
(* Properties *)

Record ==
  [status : {"INACTIVE", "ACTIVE", "PAUSED"}, exists : BOOLEAN,
   before : 0..Cap, last : 0..Cap, held : 0..Cap, limit : Limits \cup {0}]
App ==
  [active : BOOLEAN, locked : BOOLEAN, elapsed : 0..Cap, limit : Limits \cup {0},
   allow : BOOLEAN]
Command ==
  {"START", "STOP", "PAUSE", "RESUME", "SETTIME", "SETTIMEOUT", "UNLOCK", "LOCK", "ALLOW"}
Message ==
  {m \in [cmd : Command, value : 0..Cap] : m.cmd = "SETTIMEOUT" => m.value \in Limits \cup {0}}

\* The state of both ends and of the channels; a session that is in use or
\* paused has an interval.
TypeOK ==
  /\ session \in Record
  /\ session.status # "INACTIVE" => session.exists
  /\ blocked \in BOOLEAN /\ up \in BOOLEAN /\ greeted \in BOOLEAN /\ continued \in BOOLEAN
  /\ app \in App
  /\ toServer \in Seq({"GETSTATUS", "USERLOGIN", "USEREXIT"})
  /\ telling \in Seq(Message)
  /\ toClient \in Seq(Message)
  /\ breaks \in 0..MaxBreaks

\* Nothing is on its way and nobody is at work.
Quiet == up /\ greeted /\ telling = <<>> /\ toServer = <<>> /\ toClient = <<>>

\* Whatever the employee, the customer and the network did meanwhile: once
\* everything has arrived, the screen is open exactly while the session is
\* counted (CCLWin.cpp, onCommand and onEventCallback; cclcfox.cpp).
ScreenFollowsSession == Quiet => (app.locked <=> session.status # "ACTIVE")

\* Then the workstation also knows the limit of its session and the modes it may
\* offer; not the limit of a session that went on after a pause or a stop.
LimitKnown ==
  Quiet =>
    /\ app.allow # blocked
    /\ session.status = "ACTIVE" /\ ~continued => app.active /\ app.limit = session.limit

\* The timer of the client program never ends a session before its time
\* (onTimer): delays and lost commands are the customer's gain.
NeverTooEarly ==
  [][Quiet /\ session.status = "ACTIVE" /\ ~continued /\ toServer' = <<"USEREXIT">>
       /\ ~app.locked /\ Expired(app)
     => Used(session) > session.limit]_vars

\* A session whose time is up ends, though only the workstation watches the
\* time, its request may be lost, and it may be told to open the screen again.
Due == session.status = "ACTIVE" /\ 0 < session.limit /\ Used(session) > session.limit
ExpiredSessionEnds == (Due /\ ~continued) ~> (~Due \/ continued)
=============================================================================
