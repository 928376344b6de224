------------------------------- MODULE Billing -------------------------------
(***************************************************************************)
(* The café: what the main window of the server (CCLWin.cpp) and the       *)
(* cashing frame (CashingFrame.cpp) do with the records, the accounts and  *)
(* the session log, and what the client program of each workstation        *)
(* (cclcfox.cpp, locker.cpp) asks for.                                     *)
(*                                                                         *)
(* Three kinds of actors interleave.  The customer at a workstation makes  *)
(* the client program send requests; one thread of the server per          *)
(* workstation takes them up one at a time (onEventCallback) in two steps, *)
(* the check of a member's credit that comes before every request and the  *)
(* request itself; the employee gives commands in the GUI thread at any    *)
(* moment, also between those two steps.  The code takes no lock: that     *)
(* each step and each command runs alone is an assumption of this module.  *)
(*                                                                         *)
(* Requests are delayed, commands to a workstation are not: the client     *)
(* program's part of the state changes with the command.  A request sent   *)
(* after the server changed its mind and before the command arrived is the *)
(* same behaviour as that request sent just before the change.             *)
(*                                                                         *)
(* A unit of time costs a unit of money; Tarif prices are another module's *)
(* business.                                                               *)
(***************************************************************************)
EXTENDS ClientRecord

CONSTANTS Clients,      \* ids of the workstations
          Members,      \* ids of the accounts
          Tickets,      \* the accounts that are prepaid tickets
          Modes,        \* the login modes this café's customers use
          Commands,     \* the commands this café's employees use, and "print"
                        \* if it has a print server
          Timeouts,     \* the session lengths they set
          Deposits,     \* the amounts paid into an account
          MinCredit,    \* MINCREDIT, what an account must exceed to be used
          UInts,        \* 2^32: the number of values of a guint
          MaxTime,      \* bound: the clock stops here
          MaxSession,   \* bound: number of sessions ever started
          MaxIntervals, \* bound: intervals of one session
          MaxInFlight,  \* bound: requests of one workstation on their way
          MaxCredit,    \* bound: what is ever paid into one account, and how far
                        \* below zero its sessions still go on
          MaxRows       \* bound: the row id up to which sessions go on again
                        \* or get a member

ASSUME AccountsAssumption ==
  /\ Members \subseteq Nat \ {0}
  /\ Tickets \subseteq Members
ASSUME CommandsAssumption ==
  /\ Commands \subseteq {"start", "pause", "stop", "unstop", "member", "timeout",
                     "allow", "print"}
  /\ Modes \subseteq {"user", "member", "ticket"}
ASSUME NumbersAssumption ==
  /\ Timeouts \subseteq Nat /\ Deposits \subseteq Int
  /\ MinCredit \in Nat /\ UInts \in Nat \ {0}
  /\ {MaxTime, MaxSession, MaxIntervals, MaxInFlight, MaxCredit, MaxRows} \subseteq Nat

VARIABLES clients,   \* the records (ClientRecord); .member is CCL_client_member_get
          userstop,  \* the workstations with flag USERSTOP
          blocked,   \* the workstations with flag CLIENT_BLOCKED
          allowed,   \* the login modes whose ALLOW flag is on, by workstation
          settings,  \* "client_settings": the modes the employee allows
          credit,    \* the accounts' credit
          loggedIn,  \* the accounts with flag MEMBER_LOGGEDIN
          log,       \* the sessionslog table
          cashing,   \* the session in the cashing frame
          app,       \* the client program of each workstation
          requests,  \* what it sent and the server has not read
          handling,  \* the request whose thread is past the credit check
          now,       \* time(NULL)
          sessions,  \* auxiliary: how many sessions were ever started
          deposited  \* auxiliary: what was paid into each account

records  == <<clients, userstop>>
logins   == <<blocked, allowed, settings>>
money    == <<credit, loggedIn, log>>
network  == <<requests, handling>>
auxiliary == <<sessions, deposited>>
vars == <<records, logins, money, cashing, app, network, now, auxiliary>>

\* No request, and no session in the cashing frame (csession = -1)
NoRequest == [cmd |-> "none", member |-> 0]
NoSession == [row |-> -1, client |-> 0, price |-> 0]

\* The client program after its start: the screen locked, nobody at work.
IdleApp == [active |-> FALSE, locked |-> TRUE, stime |-> 0, timeout |-> 0]

Init ==
  /\ clients = [c \in Clients |-> EmptyRecord]
  /\ userstop = {}
  /\ blocked = {}
  /\ allowed = [c \in Clients |-> Modes]
  /\ settings = [c \in Clients |-> Modes]
  /\ credit = [m \in Members |-> 0]
  /\ loggedIn = {}
  /\ log = {}
  /\ cashing = NoSession
  /\ app = [c \in Clients |-> IdleApp]
  /\ requests = [c \in Clients |-> <<>>]
  /\ handling = [c \in Clients |-> NoRequest]
  /\ now = 1
  /\ sessions = 0
  /\ deposited = [m \in Members |-> 0]

-----------------------------------------------------------------------------
(* The money side of a record *)

\* CCL_client_owed_terminal, at a unit of money per unit of time
Owed(c) == TimeUsed(clients[c], now)

\* Mutant: a price below zero is logged as it is.
SignedPrice(n) == n

\* What is left of an integer in a guint.
Unsigned(n) == n % UInts

\* 1 + _highest_logged_session_id()
NextRowId(rows) == 1 + Max({row.id : row \in rows} \cup {0})

\* CCL_log_session: refused (g_return_val_if_fail) unless the record r of c is
\* INACTIVE.  payer is auxiliary: the account the price was taken from, or 0.
LoggedAfter(rows, c, r, price, flag, payer) ==
  IF r.status = "INACTIVE"
  THEN rows \cup {[id |-> NextRowId(rows), client |-> c, session |-> r.session,
                   member |-> r.member, payer |-> payer,
                   stime |-> STime(r), etime |-> ETime(r),
                   price |-> Unsigned(price), flag |-> flag]}
  ELSE rows
Logged(c, r, price, flag, payer) == LoggedAfter(log, c, r, price, flag, payer)

\* Mutant: the first row of the workstation, whenever its session was.
RowOfClient(c, r) ==
  LET found == {row.id : row \in {x \in log : x.client = c}}
  IN  IF found = {} THEN -1 ELSE Min(found)

\* CCL_log_session_find: -1 or the first row of c with the times of record r
RowOf(c, r) ==
  LET found == {row.id : row \in {x \in log : /\ x.client = c
                                             /\ x.stime = STime(r)
                                             /\ x.etime = ETime(r)}}
  IN  IF found = {} THEN -1 ELSE Min(found)

\* Mutant: the row of the session that goes on stays in the log.
UnloggedKept(c, r) == log

\* CCL_client_unstop, its effect on the log
Unlogged(c, r) ==
  IF r.status = "INACTIVE" /\ HasSession(r)
  THEN {row \in log : row.id # RowOf(c, r)}
  ELSE log

\* What a call of CCL_client_start on c counts as started
Started(c) ==
  sessions' = IF clients[c].status = "INACTIVE" THEN sessions + 1 ELSE sessions

-----------------------------------------------------------------------------
(* The commands to a workstation *)

\* Mutant: the screen is not locked.
AppStoppedOpen(c) == [app EXCEPT ![c].active = FALSE]

\* CS_STOP and CS_LOCKSCREEN
AppStopped(c) == [app EXCEPT ![c].active = FALSE, ![c].locked = TRUE]

\* updateClientStatus: a workstation in use is started with the time and the
\* timeout of its record r, any other is stopped.
AppUpdated(c, r) ==
  IF r.status = "ACTIVE"
  THEN [app EXCEPT ![c] = [active |-> TRUE, locked |-> FALSE,
                           stime |-> now - TimeUsed(r, now), timeout |-> r.timeout]]
  ELSE AppStopped(c)

\* blockClient
Block(c) ==
  /\ blocked' = blocked \cup {c}
  /\ allowed' = [allowed EXCEPT ![c] = {}]
  /\ UNCHANGED settings

\* unBlockClient: the modes of client_settings are allowed again
Unblock(c) ==
  /\ blocked' = blocked \ {c}
  /\ allowed' = [allowed EXCEPT ![c] = @ \cup settings[c]]
  /\ UNCHANGED settings

-----------------------------------------------------------------------------
(* The workstation: the customer and the client program *)

Request(c, req) ==
  /\ Len(requests[c]) < MaxInFlight
  /\ requests' = [requests EXCEPT ![c] = Append(@, req)]

\* Bound: the logins on their way could start no more than MaxSession sessions.
LoginPending(c) ==
  Len(SelectSeq(Append(requests[c], handling[c]), LAMBDA q : q.cmd = "login"))
RoomForSession ==
  sessions + MapThenSumSet(LoginPending, Clients) < MaxSession

\* Locker::onButtonRelease and its keys: a login in a mode the locker shows
Login(c, mode, m) ==
  /\ app[c].locked
  /\ mode \in allowed[c]
  /\ RoomForSession
  /\ Request(c, [cmd |-> "login", member |-> m])
  /\ UNCHANGED <<records, logins, money, cashing, app, handling, now, auxiliary>>

\* The three modes' requests: CC_USERLOGIN names no account, CC_MEMBERLOGIN a
\* member's and CC_TICKETLOGIN a ticket's.
CustomerLogin(c) ==
  \/ Login(c, "user", 0)
  \/ \E m \in Members \ Tickets : Login(c, "member", m)
  \/ \E m \in Tickets : Login(c, "ticket", m)

Expired(a) == a.timeout > 0 /\ now - a.stime > a.timeout

\* CCLCFox::userExit: the exit button, or onTimer at each tick on which the
\* timeout has passed, which goes on while the screen is locked.
CustomerExit(c) ==
  /\ app[c].active
  /\ ~app[c].locked \/ Expired(app[c])
  /\ Request(c, [cmd |-> "exit", member |-> 0])
  /\ app' = [app EXCEPT ![c].locked = TRUE]
  /\ UNCHANGED <<records, logins, money, cashing, handling, now, auxiliary>>

\* onTimer of a workstation in use asks what is owed (CC_GETOWED).
Poll(c) ==
  /\ app[c].active
  /\ Request(c, [cmd |-> "owed", member |-> 0])
  /\ UNCHANGED <<records, logins, money, cashing, app, handling, now, auxiliary>>

\* The connection breaks and is made again: what was on its way is lost,
\* onConnectCallback tells the workstation where it stands, and the client
\* program asks for it (initNetworking).  The thread of the old connection ends
\* with the request it is at; that it may do so beside the new one's is left to
\* the model of the connections.
Reconnect(c) ==
  /\ requests' = [requests EXCEPT ![c] = <<[cmd |-> "status", member |-> 0]>>]
  /\ IF c \in blocked THEN UNCHANGED logins ELSE Unblock(c)
  /\ app' = AppUpdated(c, clients[c])
  /\ UNCHANGED <<records, money, cashing, handling, now, auxiliary>>

-----------------------------------------------------------------------------
(* The thread of a connection: onEventCallback *)

\* A member whose credit does not cover what he owes
UsedUp(c) ==
  /\ clients[c].member # 0
  /\ credit[clients[c].member] - Owed(c) <= 0

\* Mutant: the account is emptied, and nothing says for what.
SettleUnlogged(c) ==
  LET m == clients[c].member
      r == MemberRecord(StopRecord(clients[c], now), 0)
  IN  /\ clients' = [clients EXCEPT ![c] = r]
      /\ app' = AppStopped(c)
      /\ credit' = [credit EXCEPT ![m] = 0]
      /\ loggedIn' = loggedIn \ {m}
      /\ UNCHANGED log

\* The session is stopped and what is left of the credit is its price.
Settle(c) ==
  LET m == clients[c].member
      r == MemberRecord(StopRecord(clients[c], now), 0)
  IN  /\ clients' = [clients EXCEPT ![c] = r]
      /\ app' = AppStopped(c)
      /\ log' = Logged(c, r, credit[m], "PAID", m)
      /\ credit' = [credit EXCEPT ![m] = 0]
      /\ loggedIn' = loggedIn \ {m}

\* The beginning of onEventCallback, for every request
Receive(c) ==
  /\ handling[c] = NoRequest
  /\ requests[c] # <<>>
  /\ handling' = [handling EXCEPT ![c] = Head(requests[c])]
  /\ requests' = [requests EXCEPT ![c] = Tail(@)]
  /\ IF UsedUp(c) THEN Settle(c) ELSE UNCHANGED <<clients, money, app>>
  /\ UNCHANGED <<userstop, logins, cashing, now, auxiliary>>

Handled(c) == handling' = [handling EXCEPT ![c] = NoRequest]

\* CC_GETOWED: only answers
HandleOwed(c) ==
  /\ handling[c].cmd = "owed"
  /\ Handled(c)
  /\ UNCHANGED <<records, logins, money, cashing, app, requests, now, auxiliary>>

\* CC_GETSTATUS
HandleStatus(c) ==
  /\ handling[c].cmd = "status"
  /\ app' = AppUpdated(c, clients[c])
  /\ Handled(c)
  /\ UNCHANGED <<records, logins, money, cashing, requests, now, auxiliary>>

\* CC_USEREXIT of a session without an account: to be paid at the counter
ExitPostpaid(c) ==
  LET r == StopRecord(clients[c], now)
  IN  /\ clients[c].status = "ACTIVE"
      /\ clients[c].member = 0
      /\ clients' = [clients EXCEPT ![c] = r]
      /\ log' = Logged(c, r, Owed(c), "NOTPAID", 0)
      /\ Block(c)
      /\ app' = AppStopped(c)
      /\ UNCHANGED <<credit, loggedIn>>

\* Mutant: the member is charged and stays marked as logged in.
ExitMemberStillIn(c) ==
  LET m == clients[c].member
      r == StopRecord(clients[c], now)
  IN  /\ clients[c].status = "ACTIVE"
      /\ m # 0
      /\ clients' = [clients EXCEPT ![c] = MemberRecord(r, 0)]
      /\ log' = Logged(c, r, Owed(c), "PAID", m)
      /\ credit' = [credit EXCEPT ![m] = @ - Owed(c)]
      /\ app' = AppStopped(c)
      /\ UNCHANGED <<logins, loggedIn>>

\* Mutant: the member stays attached to the stopped session.
ExitMemberAttached(c) ==
  LET m == clients[c].member
      r == StopRecord(clients[c], now)
  IN  /\ clients[c].status = "ACTIVE"
      /\ m # 0
      /\ clients' = [clients EXCEPT ![c] = r]
      /\ log' = Logged(c, r, Owed(c), "PAID", m)
      /\ credit' = [credit EXCEPT ![m] = @ - Owed(c)]
      /\ loggedIn' = loggedIn \ {m}
      /\ app' = AppStopped(c)
      /\ UNCHANGED logins

\* CC_USEREXIT of a session with an account: paid from the credit
ExitMember(c) ==
  LET m == clients[c].member
      r == StopRecord(clients[c], now)
  IN  /\ clients[c].status = "ACTIVE"
      /\ m # 0
      /\ clients' = [clients EXCEPT ![c] = MemberRecord(r, 0)]
      /\ log' = Logged(c, r, Owed(c), "PAID", m)
      /\ credit' = [credit EXCEPT ![m] = @ - Owed(c)]
      /\ loggedIn' = loggedIn \ {m}
      /\ app' = AppStopped(c)
      /\ UNCHANGED logins

\* CC_USEREXIT otherwise: taken for a workstation that is starting up
ExitIdle(c) ==
  /\ clients[c].status # "ACTIVE"
  /\ clients' = [clients EXCEPT ![c] = ResetRecord(@)]
  /\ UNCHANGED <<logins, money, app>>

HandleExit(c) ==
  /\ handling[c].cmd = "exit"
  /\ ExitPostpaid(c) \/ ExitMember(c) \/ ExitIdle(c)
  /\ userstop' = userstop \cup {c}
  /\ Handled(c)
  /\ UNCHANGED <<cashing, requests, now, auxiliary>>

\* The session that the login m (0 for none) starts or goes on with.
LoginRecord(c, m) ==
  IF m # 0 /\ c \in userstop /\ clients[c].member = m
  THEN UnstopRecord(clients[c], now)
  ELSE StartRecord(clients[c], now, sessions + 1)

\* CC_USERLOGIN: confirmLogin says yes, and no flag is asked.
LoginUser(c) ==
  /\ handling[c].member = 0
  /\ clients' = [clients EXCEPT ![c] = LoginRecord(c, 0)]
  /\ app' = AppUpdated(c, LoginRecord(c, 0))
  /\ Started(c)
  /\ UNCHANGED money

\* The conditions of CC_MEMBERLOGIN (the password is right) and CC_TICKETLOGIN
MayLogin(c, m) ==
  /\ (IF m \in Tickets THEN "ticket" ELSE "member") \in allowed[c]
  /\ m \in Tickets \/ m \notin loggedIn
  /\ credit[m] > MinCredit

LoginMember(c, m) ==
  LET r == MemberRecord(LoginRecord(c, m), m)
      undo == c \in userstop /\ clients[c].member = m
  IN  /\ MayLogin(c, m)
      /\ clients' = [clients EXCEPT ![c] = r]
      /\ IF undo THEN log' = Unlogged(c, clients[c]) /\ UNCHANGED sessions
                 ELSE Started(c) /\ UNCHANGED log
      /\ loggedIn' = loggedIn \cup {m}
      /\ app' = AppUpdated(c, r)
      /\ UNCHANGED credit

HandleLogin(c) ==
  /\ handling[c].cmd = "login"
  /\ LET m == handling[c].member
     IN  \/ LoginUser(c) /\ userstop' = userstop \ {c}
         \/ m # 0 /\ LoginMember(c, m) /\ userstop' = userstop \ {c}
         \/ m # 0 /\ ~MayLogin(c, m) /\ UNCHANGED <<records, money, app, sessions>>
  /\ Handled(c)
  /\ UNCHANGED <<logins, cashing, requests, now, deposited>>

-----------------------------------------------------------------------------
(* The thread of the print server's connection *)

\* CC_USERPRINTED, a job of workstation c whose session is stopped and unpaid:
\* the session is taken up, gets the pages, is stopped and logged again.  (The
\* pages of any other session only go to its products.)
Printed(c) ==
  LET r == clients[c]
      again == StopRecord(UnstopRecord(r, now), now)
  IN  /\ "print" \in Commands
      /\ r.status = "INACTIVE"
      /\ \E row \in log : row.id = RowOf(c, r) /\ row.flag = "NOTPAID"
      /\ NextRowId(log) <= MaxRows
      /\ clients' = [clients EXCEPT ![c] = again]
      /\ log' = LoggedAfter(Unlogged(c, r), c, again, TimeUsed(again, now), "NOTPAID", 0)
      /\ cashing' = IF cashing.row = RowOf(c, r) THEN NoSession ELSE cashing
      /\ UNCHANGED <<userstop, logins, credit, loggedIn, app, network, now, auxiliary>>

-----------------------------------------------------------------------------
(* The employee at the main window: CCLWin::onCommand and the dialogs *)

\* ID_START
EmployeeStart(c) ==
  /\ "start" \in Commands
  /\ clients[c].status = "INACTIVE" => RoomForSession
  /\ clients' = [clients EXCEPT ![c] = StartRecord(@, now, sessions + 1)]
  /\ Started(c)
  /\ userstop' = userstop \ {c}
  /\ app' = [app EXCEPT ![c] = [active |-> TRUE, locked |-> FALSE,
                                stime |-> now, timeout |-> 0]]
  /\ UNCHANGED <<logins, money, cashing, network, now, deposited>>

\* ID_PAUSE.  The client program has no case for CS_PAUSE: it locks the screen
\* and goes on as before.
EmployeePause(c) ==
  /\ "pause" \in Commands
  /\ Len(clients[c].intervals) < MaxIntervals
  /\ clients' = [clients EXCEPT ![c] = PauseRecord(@, now)]
  /\ app' = [app EXCEPT ![c].locked = TRUE]
  /\ UNCHANGED <<userstop, logins, money, cashing, network, now, auxiliary>>

\* ID_STOP of a session with an account, which stays attached
StopMember(c) ==
  LET m == clients[c].member
      r == StopRecord(clients[c], now)
  IN  /\ clients[c].status = "ACTIVE"
      /\ m # 0
      /\ clients' = [clients EXCEPT ![c] = r]
      /\ credit' = [credit EXCEPT ![m] = @ - Owed(c)]
      /\ log' = Logged(c, r, Owed(c), "PAID", m)
      /\ UNCHANGED <<userstop, logins, loggedIn>>

\* Mutant: the stopped session is not put on the unpaid list.
StopPostpaidUnlogged(c) ==
  /\ clients[c].status = "ACTIVE"
  /\ clients[c].member = 0
  /\ clients' = [clients EXCEPT ![c] = StopRecord(@, now)]
  /\ Block(c)
  /\ UNCHANGED <<userstop, money>>

\* ID_STOP of a session without one
StopPostpaid(c) ==
  LET r == StopRecord(clients[c], now)
  IN  /\ clients[c].status = "ACTIVE"
      /\ clients[c].member = 0
      /\ clients' = [clients EXCEPT ![c] = r]
      /\ log' = Logged(c, r, Owed(c), "NOTPAID", 0)
      /\ Block(c)
      /\ UNCHANGED <<userstop, credit, loggedIn>>

\* ID_STOP otherwise
StopIdle(c) ==
  /\ clients[c].status # "ACTIVE"
  /\ userstop' = userstop \ {c}
  /\ UNCHANGED <<clients, logins, money>>

EmployeeStop(c) ==
  /\ "stop" \in Commands
  /\ StopMember(c) \/ StopPostpaid(c) \/ StopIdle(c)
  /\ app' = AppStopped(c)
  /\ UNCHANGED <<cashing, network, now, auxiliary>>

\* Mutant: the stopped session stays in the cashing frame.
UncashedStale(c) == UNCHANGED cashing

\* The session that is about to go on is taken out of the cashing frame.
Uncashed(c) ==
  cashing' = IF /\ clients[c].status = "INACTIVE"
                /\ cashing.row = RowOf(c, clients[c])
             THEN NoSession ELSE cashing

\* ID_UNSTOP: unstop, unpause, and the workstation is told to go on.
EmployeeUnstop(c) ==
  LET r == clients[c]
  IN  /\ "unstop" \in Commands
      /\ NextRowId(log) <= MaxRows
      /\ \A m \in Members : credit[m] >= -MaxCredit  \* bound
      /\ Uncashed(c)
      /\ clients' = [clients EXCEPT ![c] = UnpauseRecord(UnstopRecord(r, now))]
      /\ log' = Unlogged(c, r)
      /\ userstop' = userstop \ {c}
      /\ app' = [app EXCEPT ![c].active = TRUE, ![c].locked = FALSE,
                            ![c].stime = now - TimeUsed(r, now)]
      /\ UNCHANGED <<logins, credit, loggedIn, network, now, auxiliary>>

\* setClientMember: the credit left is compared as a guint.
SetMember(c, m) ==
  /\ "member" \in Commands
  /\ NextRowId(log) <= MaxRows
  /\ Unsigned(credit[m] - Owed(c)) > MinCredit
  /\ clients' = [clients EXCEPT ![c] = MemberRecord(@, m)]
  /\ UNCHANGED <<userstop, logins, money, cashing, app, network, now, auxiliary>>

\* onTime
SetTimeout(c, t) ==
  /\ "timeout" \in Commands
  /\ clients' = [clients EXCEPT ![c] = TimeoutRecord(@, t)]
  /\ app' = [app EXCEPT ![c].timeout = t]
  /\ UNCHANGED <<userstop, logins, money, cashing, network, now, auxiliary>>

\* onAllowUserLogin, onAllowMemberLogin, onAllowTicketLogin: the setting is
\* turned over (toggleClientSetting) and the flag follows it.
ToggleAllow(c, mode) ==
  LET on == mode \notin settings[c]
  IN  /\ "allow" \in Commands
      /\ settings' = [settings EXCEPT ![c] = IF on THEN @ \cup {mode} ELSE @ \ {mode}]
      /\ allowed' = [allowed EXCEPT ![c] = IF on THEN @ \cup {mode} ELSE @ \ {mode}]
      /\ UNCHANGED <<records, blocked, money, cashing, app, network, now, auxiliary>>

-----------------------------------------------------------------------------
(* The employee at the counter: NotpaidFrame, CashingFrame, MembersFrame *)

\* NotpaidFrame::onSelected and CashingFrame::setSession
Select(row) ==
  /\ row.flag = "NOTPAID"
  /\ cashing' = [row |-> row.id, client |-> row.client, price |-> row.price]
  /\ UNCHANGED <<records, logins, money, app, network, now, auxiliary>>

\* The frame shows something else: a sale, or a session of the log to look at.
ShowOther ==
  /\ cashing' = NoSession
  /\ UNCHANGED <<records, logins, money, app, network, now, auxiliary>>

\* Mutant: a settled session is taken off the list.
SettledDeletes(flag) ==
  /\ cashing # NoSession
  /\ userstop' = userstop \ {cashing.client}
  /\ Unblock(cashing.client)
  /\ log' = {row \in log : row.id # cashing.row}
  /\ cashing' = NoSession
  /\ UNCHANGED <<clients, credit, loggedIn, app, network, now, auxiliary>>

\* onCash and onCancel of a session, and clear
Settled(flag) ==
  /\ cashing # NoSession
  /\ userstop' = userstop \ {cashing.client}
  /\ Unblock(cashing.client)
  /\ log' = {IF row.id = cashing.row
             THEN [row EXCEPT !.price = cashing.price, !.flag = flag]
             ELSE row : row \in log}
  /\ cashing' = NoSession
  /\ UNCHANGED <<clients, credit, loggedIn, app, network, now, auxiliary>>

Cash == Settled("PAID")
Cancel == Settled("CANCELED")

\* onAddCredit and onSubCredit: CCL_pay_account, which refuses a refund of
\* more than there is
PayAccount(m, amount) ==
  /\ credit[m] + amount >= 0
  /\ deposited[m] + amount <= MaxCredit
  /\ credit' = [credit EXCEPT ![m] = @ + amount]
  /\ deposited' = [deposited EXCEPT ![m] = @ + amount]
  /\ UNCHANGED <<records, logins, loggedIn, log, cashing, app, network, now, sessions>>

Tick ==
  /\ now < MaxTime
  /\ now' = now + 1
  /\ UNCHANGED <<records, logins, money, cashing, app, network, auxiliary>>

-----------------------------------------------------------------------------
Workstation(c) ==
  CustomerLogin(c) \/ CustomerExit(c) \/ Poll(c) \/ Reconnect(c)

Thread(c) ==
  Receive(c) \/ HandleOwed(c) \/ HandleStatus(c) \/ HandleExit(c) \/ HandleLogin(c)

Employee(c) ==
  \/ EmployeeStart(c) \/ EmployeePause(c) \/ EmployeeStop(c) \/ EmployeeUnstop(c)
  \/ \E m \in Members \ Tickets : SetMember(c, m)
  \/ \E t \in Timeouts : SetTimeout(c, t)
  \/ \E mode \in Modes : ToggleAllow(c, mode)

Counter ==
  \/ \E row \in log : Select(row)
  \/ Cash \/ Cancel \/ ShowOther
  \/ \E m \in Members, amount \in Deposits : PayAccount(m, amount)

Next ==
  \/ Tick \/ Counter
  \/ \E c \in Clients : Workstation(c) \/ Thread(c) \/ Printed(c) \/ Employee(c)

Spec == Init /\ [][Next]_vars

-----------------------------------------------------------------------------
(* Properties *)

SessionRow ==
  [id : Nat, client : Clients, session : Nat, member : Members \cup {0},
   payer : Members \cup {0}, stime : Nat, etime : Nat, price : Nat,
   flag : {"NOTPAID", "PAID", "CANCELED"}]

\* Every variable has its type.
TypeOK ==
  /\ clients \in [Clients -> Record(Members)]
  /\ userstop \subseteq Clients /\ blocked \subseteq Clients
  /\ allowed \in [Clients -> SUBSET Modes] /\ settings \in [Clients -> SUBSET Modes]
  /\ credit \in [Members -> Int] /\ deposited \in [Members -> Nat]
  /\ loggedIn \subseteq Members
  /\ log \subseteq SessionRow
  /\ cashing \in [row : Nat, client : Clients, price : Nat] \cup {NoSession}
  /\ app \in [Clients -> [active : BOOLEAN, locked : BOOLEAN, stime : Nat, timeout : Nat]]

\* No use without charge: a workstation whose screen is not locked is charging
\* for it.  The screen is unlocked by one handler and the record started by
\* another call of it, and each of the two has its own way back.
NoFreeUse == \A c \in Clients : ~app[c].locked => clients[c].status = "ACTIVE"

\* No charged time is lost: a session that somebody has used is, after every
\* step, still on its workstation, or on the list of sessions that were paid
\* for or are to be paid.
NoSessionLost ==
  [][\A c \in Clients :
       clients[c].status # "INACTIVE" /\ Owed(c) > 0
       => \/ /\ clients'[c].status # "INACTIVE"
             /\ clients'[c].session = clients[c].session
          \/ \E row \in log' : row.session = clients[c].session]_vars

\* What was charged for stays in the log: a session is charged for less than
\* before only because it goes on, on the workstation it was used on.  Rows are
\* found by their times and get ids that were used before.
RowsKept ==
  [][\A row \in log :
       row.price > 0 /\ (\A r \in log' : r.session = row.session => r.price < row.price)
       => /\ clients'[row.client].session = row.session
          /\ clients'[row.client].status = "ACTIVE"]_vars

\* Nobody is charged twice: no two rows with a price are for one session.
ChargedOnce ==
  \A r, s \in log : r.session = s.session /\ r.price > 0 /\ s.price > 0 => r = s

\* The books balance: what was paid into an account is its credit and the
\* prices of the sessions that were paid from it.
Charged(m) ==
  SumFunction([row \in {r \in log : r.payer = m} |-> row.price])
BooksBalance == \A m \in Members : deposited[m] = credit[m] + Charged(m)

\* What the café promises the owners of the accounts is kept: the bill of an
\* account is the rows of the log that were paid from it.
Bills == [m \in Members |-> Charged(m)]
Accounts ==
  INSTANCE Accounts WITH Amounts <- Deposits, Prices <- 0..(UInts - 1),
    credit <- credit, deposited <- deposited, charged <- Bills
ImplementsAccounts == Accounts!Spec

\* The flag that keeps an account from being used twice says so exactly while
\* a workstation is in use on it (tickets are not asked for the flag).
LoggedInIsInUse ==
  \A m \in Members \ Tickets :
    m \in loggedIn <=> \E c \in Clients : /\ clients[c].member = m
                                         /\ clients[c].status = "ACTIVE"

\* What the employee is about to take money for is on the unpaid list, with
\* the workstation and the price shown.
CashingShowsUnpaid ==
  cashing # NoSession =>
    \E row \in log : /\ row.id = cashing.row
                     /\ row.client = cashing.client
                     /\ row.price = cashing.price
                     /\ row.flag = "NOTPAID"

-----------------------------------------------------------------------------
(* What comments of the code say, and the runs show otherwise *)

\* CCLWin.cpp:1118 and 1634, "Block session - until paid or specifically
\* allowed": no customer starts a session at a blocked workstation.
BlockedUntilPaid ==
  [][\A c \in Clients :
       c \in blocked /\ HandleLogin(c) => clients'[c].session = clients[c].session]_vars

\* CCLWin.cpp:1133, "starting up the client": the record that a CC_USEREXIT
\* resets is one that no session is on.
ExitResetsIdle ==
  [][\A c \in Clients :
       HandleExit(c) /\ ExitIdle(c) => clients[c].status = "INACTIVE"]_vars

\* CCLWin.cpp:1939, "status is INACTIVE" on the other branch of the stop button:
\* after it the workstation's session is not going on.
StopStops ==
  [][\A c \in Clients : EmployeeStop(c) => clients'[c].status = "INACTIVE"]_vars

\* CCLWin.cpp:1080, "used up the time so stop the station": the record of a
\* member whose credit is used up is stopped.
UsedUpStops ==
  [][\A c \in Clients :
       Receive(c) /\ UsedUp(c) => clients'[c].status = "INACTIVE"]_vars

\* CCLWin.cpp:711, "check for enough credit": a member is set on a workstation
\* only when his credit exceeds what is owed there by MINCREDIT.
MemberHasCredit ==
  [][\A c \in Clients, m \in Members :
       SetMember(c, m) => credit[m] - Owed(c) > MinCredit]_vars
=============================================================================
