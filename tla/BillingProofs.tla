---------------------------- MODULE BillingProofs ----------------------------
(***************************************************************************)
(* Theorems about Billing, for any number of workstations, accounts and    *)
(* requests on their way, and for every choice of commands that the        *)
(* theorem allows.                                                         *)
(*                                                                         *)
(* CafeInv is the inductive invariant all of them rest on: the records are *)
(* typed and well formed, and so are the requests, since a login's account *)
(* ends up in a record.  Then come, each with an invariant of its own, the *)
(* workstations (UseInv), the cashing frame (CashInv), the types of all    *)
(* variables (CafeTypes), who is marked as logged in (LoginInv), the       *)
(* accounts (BooksInv) and what is promised of them (Accounts), and the    *)
(* rows of the log: one for each session (Once), kept (ChargesStay), and   *)
(* none missing (SessionsStay).                                            *)
(***************************************************************************)
EXTENDS Billing, CafeLemmas

Req == [cmd : {"none", "login", "exit", "owed", "status"}, member : Members \cup {0}]

NetworkOK ==
  /\ requests \in [Clients -> Seq(Req)]
  /\ handling \in [Clients -> Req]

RecordsGood ==
  /\ clients \in [Clients -> Record(Members)]
  /\ \A c \in Clients : WellFormed(clients[c], now)

CafeInv ==
  /\ RecordsGood
  /\ NetworkOK
  /\ now \in Nat /\ now > 0 /\ sessions \in Nat

\* Init: empty records, no request
LEMMA InitCafe == Init => CafeInv
  <1> SUFFICES ASSUME Init PROVE CafeInv
    OBVIOUS
  <1>1. \A c \in Clients : clients[c] = EmptyRecord
    BY DEF Init
  <1>2. EmptyRecord \in Record(Members) /\ WellFormed(EmptyRecord, now)
    BY EmptyGood DEF Good
  <1>3. RecordsGood
    BY <1>1, <1>2 DEF Init, RecordsGood
  <1>4. NetworkOK
    BY DEF Init, NetworkOK, NoRequest, Req
  <1>5. QED
    BY <1>3, <1>4 DEF Init, CafeInv

\* A step that gives one workstation a good record keeps the records good.
LEMMA RecordStep ==
  ASSUME CafeInv, NEW c \in Clients, NEW r, Good(r, Members, now),
         clients' = [clients EXCEPT ![c] = r], now' = now
  PROVE  RecordsGood'
  BY DEF CafeInv, RecordsGood, Good

\* What each call makes of a record of this café.
LEMMA CallsGood ==
  ASSUME CafeInv, NEW c \in Clients
  PROVE  /\ clients[c] \in Record(Members)
         /\ Good(clients[c], Members, now)
         /\ Good(EmptyRecord, Members, now)
         /\ Good(StartRecord(clients[c], now, sessions + 1), Members, now)
         /\ Good(StopRecord(clients[c], now), Members, now)
         /\ Good(PauseRecord(clients[c], now), Members, now)
         /\ Good(UnstopRecord(clients[c], now), Members, now)
         /\ Good(UnpauseRecord(UnstopRecord(clients[c], now)), Members, now)
         /\ Good(StopRecord(UnstopRecord(clients[c], now), now), Members, now)
  <1> DEFINE r == clients[c]
             u == UnstopRecord(r, now)
  <1>1. r \in Record(Members) /\ WellFormed(r, now)
        /\ now \in Nat /\ now > 0 /\ sessions + 1 \in Nat
    BY DEF CafeInv, RecordsGood
  <1>2. u \in Record(Members) /\ WellFormed(u, now)
    BY <1>1, UnstopGood DEF Good
  <1>3. Good(StartRecord(r, now, sessions + 1), Members, now)
    BY <1>1, StartGood
  <1>4. Good(StopRecord(r, now), Members, now) /\ Good(PauseRecord(r, now), Members, now)
    BY <1>1, StopGood
  <1>5. Good(UnpauseRecord(u), Members, now) /\ Good(StopRecord(u, now), Members, now)
    BY <1>1, <1>2, StopGood, UnstopGood
  <1>6. QED
    BY <1>1, <1>2, <1>3, <1>4, <1>5, EmptyGood DEF Good

\* Setting the member of a good record, or its timeout
LEMMA SetGood ==
  ASSUME NEW r, Good(r, Members, now), NEW m \in Members \cup {0}, NEW t \in Int
  PROVE  Good(MemberRecord(r, m), Members, now) /\ Good(TimeoutRecord(r, t), Members, now)
  BY SettersGood DEF Good

-----------------------------------------------------------------------------
(* The inductive invariant *)

\* Requests are typed: what the customers send, and what the threads take up.
LEMMA NetworkNext == NetworkOK /\ [Next]_vars => NetworkOK'
  <1> SUFFICES ASSUME NetworkOK, [Next]_vars PROVE NetworkOK'
    OBVIOUS
  <1>1. ASSUME UNCHANGED network PROVE NetworkOK'
    BY <1>1 DEF NetworkOK, network
  <1>2. ASSUME NEW c \in Clients, NEW q \in Req, Request(c, q), UNCHANGED handling
        PROVE  NetworkOK'
    BY <1>2 DEF NetworkOK, Request
  <1>3. ASSUME NEW c \in Clients, Handled(c), UNCHANGED requests PROVE NetworkOK'
    BY <1>3 DEF NetworkOK, Handled, NoRequest, Req
  <1>4. ASSUME NEW c \in Clients, Workstation(c) PROVE NetworkOK'
    <2>1. CASE CustomerLogin(c)
      <3>1. PICK m \in Members \cup {0} : \E mode \in {"user", "member", "ticket"} :
              Login(c, mode, m)
        BY <2>1, AccountsAssumption DEF CustomerLogin
      <3>2. [cmd |-> "login", member |-> m] \in Req
        BY DEF Req
      <3>3. QED
        BY <1>2, <3>1, <3>2 DEF Login
    <2>2. CASE CustomerExit(c) \/ Poll(c)
      <3>1. /\ [cmd |-> "exit", member |-> 0] \in Req
            /\ [cmd |-> "owed", member |-> 0] \in Req
        BY DEF Req
      <3>2. QED
        BY <1>2, <2>2, <3>1 DEF CustomerExit, Poll
    <2>3. CASE Reconnect(c)
      <3>1. <<[cmd |-> "status", member |-> 0]>> \in Seq(Req)
        BY DEF Req
      <3>2. QED
        BY <2>3, <3>1 DEF Reconnect, NetworkOK
    <2>4. QED
      BY <1>4, <2>1, <2>2, <2>3 DEF Workstation
  <1>5. ASSUME NEW c \in Clients, Thread(c) PROVE NetworkOK'
    <2>1. CASE Receive(c)
      <3>1. requests[c] \in Seq(Req) /\ requests[c] # <<>>
        BY <2>1 DEF Receive, NetworkOK
      <3>2. Head(requests[c]) \in Req /\ Tail(requests[c]) \in Seq(Req)
        BY <3>1
      <3>3. QED
        BY <2>1, <3>2 DEF Receive, NetworkOK
    <2>2. QED
      BY <1>3, <1>5, <2>1
         DEF Thread, HandleOwed, HandleStatus, HandleExit, HandleLogin
  <1>6. ASSUME NEW c \in Clients, Printed(c) \/ Employee(c) PROVE NetworkOK'
    BY <1>1, <1>6
       DEF Printed, Employee, EmployeeStart, EmployeePause, EmployeeStop,
           EmployeeUnstop, SetMember, SetTimeout, ToggleAllow
  <1>7. CASE Tick \/ Counter
    BY <1>1, <1>7
       DEF Tick, Counter, Select, Cash, Cancel, Settled, ShowOther, PayAccount
  <1>8. QED
    BY <1>1, <1>4, <1>5, <1>6, <1>7 DEF Next, vars

\* What a step makes of the records is good.
LEMMA RecordsNext == CafeInv /\ [Next]_vars => RecordsGood'
  <1> SUFFICES ASSUME CafeInv, [Next]_vars PROVE RecordsGood'
    OBVIOUS
  <1>1. ASSUME UNCHANGED <<clients, now>> PROVE RecordsGood'
    BY <1>1 DEF CafeInv, RecordsGood
  <1>2. \A c \in Clients : handling[c].member \in Members \cup {0}
    BY DEF CafeInv, NetworkOK, Req
  <1>3. ASSUME NEW c \in Clients, NEW m \in Members \cup {0}
        PROVE  Good(LoginRecord(c, m), Members, now)
    BY CallsGood DEF LoginRecord
  <1>4. ASSUME NEW c \in Clients, Thread(c) PROVE RecordsGood'
    <2>1. CASE Receive(c)
      <3>1. CASE UsedUp(c)
        <4>1. Good(MemberRecord(StopRecord(clients[c], now), 0), Members, now)
          BY CallsGood, SetGood
        <4>2. QED
          BY <2>1, <3>1, <4>1, RecordStep DEF Receive, Settle
      <3>2. CASE ~UsedUp(c)
        BY <1>1, <2>1, <3>2 DEF Receive
      <3>3. QED
        BY <3>1, <3>2
    <2>2. CASE HandleOwed(c) \/ HandleStatus(c)
      BY <1>1, <2>2 DEF HandleOwed, HandleStatus, records
    <2>3. CASE HandleExit(c)
      <3>1. now' = now
        BY <2>3 DEF HandleExit
      <3>2. CASE ExitPostpaid(c)
        BY <3>1, <3>2, CallsGood, RecordStep DEF ExitPostpaid
      <3>3. CASE ExitMember(c)
        <4>1. Good(MemberRecord(StopRecord(clients[c], now), 0), Members, now)
          BY CallsGood, SetGood
        <4>2. QED
          BY <3>1, <3>3, <4>1, RecordStep DEF ExitMember
      <3>4. CASE ExitIdle(c)
        <4>1. Good(EmptyRecord, Members, now)
          BY CallsGood
        <4>2. QED
          BY <3>1, <3>4, <4>1, RecordStep DEF ExitIdle, ResetRecord
      <3>5. QED
        BY <2>3, <3>2, <3>3, <3>4 DEF HandleExit
    <2>4. CASE HandleLogin(c)
      <3> DEFINE m == handling[c].member
      <3>1. now' = now /\ m \in Members \cup {0}
        BY <1>2, <2>4 DEF HandleLogin
      <3>2. CASE LoginUser(c)
        BY <1>3, <3>1, <3>2, RecordStep DEF LoginUser
      <3>3. CASE LoginMember(c, m)
        <4>1. Good(MemberRecord(LoginRecord(c, m), m), Members, now)
          BY <1>3, <3>1, SetGood
        <4> HIDE DEF m
        <4>2. QED
          BY <3>1, <3>3, <4>1, RecordStep DEF LoginMember
      <3>4. CASE UNCHANGED records
        BY <1>1, <3>1, <3>4 DEF records
      <3>5. QED
        BY <2>4, <3>2, <3>3, <3>4 DEF HandleLogin
    <2>5. QED
      BY <1>4, <2>1, <2>2, <2>3, <2>4 DEF Thread
  <1>5. ASSUME NEW c \in Clients, Employee(c) PROVE RecordsGood'
    <2>1. CASE EmployeeStart(c) \/ EmployeePause(c)
      BY <2>1, CallsGood, RecordStep DEF EmployeeStart, EmployeePause
    <2>2. CASE EmployeeStop(c)
      <3>1. now' = now
        BY <2>2 DEF EmployeeStop
      <3>2. CASE StopMember(c) \/ StopPostpaid(c)
        BY <3>1, <3>2, CallsGood, RecordStep DEF StopMember, StopPostpaid
      <3>3. CASE StopIdle(c)
        BY <1>1, <3>1, <3>3 DEF StopIdle
      <3>4. QED
        BY <2>2, <3>2, <3>3 DEF EmployeeStop
    <2>3. CASE EmployeeUnstop(c)
      BY <2>3, CallsGood, RecordStep DEF EmployeeUnstop
    <2>4. ASSUME NEW m \in Members \ Tickets, SetMember(c, m) PROVE RecordsGood'
      <3>1. Good(MemberRecord(clients[c], m), Members, now)
        BY CallsGood, SetGood
      <3>2. QED
        BY <2>4, <3>1, RecordStep DEF SetMember
    <2>5. ASSUME NEW t \in Timeouts, SetTimeout(c, t) PROVE RecordsGood'
      <3>1. Good(TimeoutRecord(clients[c], t), Members, now)
        BY CallsGood, SetGood, NumbersAssumption
      <3>2. QED
        BY <2>5, <3>1, RecordStep DEF SetTimeout
    <2>6. ASSUME NEW mode \in Modes, ToggleAllow(c, mode) PROVE RecordsGood'
      BY <1>1, <2>6 DEF ToggleAllow, records
    <2>7. QED
      BY <1>5, <2>1, <2>2, <2>3, <2>4, <2>5, <2>6 DEF Employee
  <1>6. ASSUME NEW c \in Clients, Printed(c) PROVE RecordsGood'
    BY <1>6, CallsGood, RecordStep DEF Printed
  <1>7. ASSUME NEW c \in Clients, Workstation(c) PROVE RecordsGood'
    BY <1>1, <1>7
       DEF Workstation, CustomerLogin, Login, CustomerExit, Poll, Reconnect, records
  <1>8. CASE Counter
    BY <1>1, <1>8
       DEF Counter, Select, Cash, Cancel, Settled, ShowOther, PayAccount, records
  <1>9. CASE Tick
    BY <1>9, LaterGood DEF Tick, records, CafeInv, RecordsGood
  <1>10. QED
    BY <1>1, <1>4, <1>5, <1>6, <1>7, <1>8, <1>9 DEF Next, vars, records

\* Which steps move the clock, start a session or pay into an account
LEMMA WhichSteps ==
  ASSUME [Next]_vars
  PROVE  /\ UNCHANGED now \/ Tick
         /\ UNCHANGED sessions \/ \E c \in Clients : Started(c)
         /\ UNCHANGED deposited
            \/ \E m \in Members, amount \in Deposits : PayAccount(m, amount)
  <1> DEFINE Goal == /\ UNCHANGED now \/ Tick
                     /\ UNCHANGED sessions \/ \E c \in Clients : Started(c)
                     /\ UNCHANGED deposited
                        \/ \E m \in Members, amount \in Deposits : PayAccount(m, amount)
  <1>1. ASSUME NEW c \in Clients, Workstation(c) PROVE Goal
    BY <1>1 DEF Workstation, CustomerLogin, Login, CustomerExit, Poll, Reconnect, auxiliary
  <1>2. ASSUME NEW c \in Clients, Thread(c) PROVE Goal
    <2>1. CASE HandleLogin(c)
      BY <2>1 DEF HandleLogin, LoginUser, LoginMember
    <2>2. QED
      BY <1>2, <2>1 DEF Thread, Receive, HandleOwed, HandleStatus, HandleExit, auxiliary
  <1>3. ASSUME NEW c \in Clients, Employee(c) \/ Printed(c) PROVE Goal
    <2>1. CASE EmployeeStart(c)
      BY <2>1 DEF EmployeeStart
    <2>2. CASE EmployeePause(c) \/ EmployeeStop(c) \/ EmployeeUnstop(c) \/ Printed(c)
      BY <2>2 DEF EmployeePause, EmployeeStop, EmployeeUnstop, Printed, auxiliary
    <2>3. QED
      BY <1>3, <2>1, <2>2 DEF Employee, SetMember, SetTimeout, ToggleAllow, auxiliary
  <1>4. CASE Counter
    <2>1. CASE \E m \in Members, amount \in Deposits : PayAccount(m, amount)
      BY <2>1 DEF PayAccount
    <2>2. QED
      BY <1>4, <2>1 DEF Counter, Select, Cash, Cancel, Settled, ShowOther, auxiliary
  <1>5. CASE Tick \/ UNCHANGED vars
    BY <1>5 DEF Tick, vars, auxiliary
  <1>6. QED
    BY <1>1, <1>2, <1>3, <1>4, <1>5 DEF Next

\* Every step keeps the invariant.
LEMMA CafeNext == CafeInv /\ [Next]_vars => CafeInv'
  <1> SUFFICES ASSUME CafeInv, [Next]_vars PROVE CafeInv'
    OBVIOUS
  <1>1. RecordsGood' /\ NetworkOK'
    BY RecordsNext, NetworkNext DEF CafeInv
  <1>2. now' \in Nat /\ now' > 0
    <2>1. now' = now \/ now' = now + 1
      BY WhichSteps DEF Tick
    <2>2. QED
      BY <2>1 DEF CafeInv
  <1>3. sessions' \in Nat
    <2>1. UNCHANGED sessions \/ \E c \in Clients : Started(c)
      BY WhichSteps
    <2>2. QED
      BY <2>1 DEF CafeInv, Started
  <1>4. QED
    BY <1>1, <1>2, <1>3 DEF CafeInv

\* Whatever the customers, the threads and the employees do, every record of the
\* server is one that client.c can go on from: typed, with only the last interval
\* of an ACTIVE one open and the intervals in order; and every request names an
\* account or none.
THEOREM CafeInvariant == Spec => []CafeInv
  <1>1. Init => CafeInv
    BY InitCafe
  <1>2. CafeInv /\ [Next]_vars => CafeInv'
    BY CafeNext
  <1>3. QED
    BY <1>1, <1>2, PTL DEF Spec

-----------------------------------------------------------------------------
(* No workstation is used without charge.  What the client programs keep is *)
(* a record of four fields, of which only the lock matters here; its start  *)
(* time comes from a sum over the intervals and its type is not needed.     *)

AppRecord(a) ==
  /\ a = [active |-> a.active, locked |-> a.locked,
          stime |-> a.stime, timeout |-> a.timeout]
  /\ a.locked \in BOOLEAN

AppOK ==
  /\ app = [c \in Clients |-> app[c]]
  /\ \A c \in Clients : AppRecord(app[c])

UseInv == AppOK /\ NoFreeUse

\* A step that concerns one workstation
LEMMA UseStep ==
  ASSUME UseInv, NEW c \in Clients, NEW a, AppRecord(a),
         app' = [app EXCEPT ![c] = a],
         \A d \in Clients : d # c => clients'[d] = clients[d],
         ~a.locked => clients'[c].status = "ACTIVE"
  PROVE  UseInv'
  <1>1. app' = [d \in Clients |-> app'[d]]
    BY DEF UseInv, AppOK
  <1>2. app'[c] = a /\ \A d \in Clients : d # c => app'[d] = app[d]
    BY DEF UseInv, AppOK
  <1>3. \A d \in Clients : AppRecord(app'[d])
    BY <1>2 DEF UseInv, AppOK
  <1>4. NoFreeUse'
    BY <1>2 DEF UseInv, NoFreeUse
  <1>5. QED
    BY <1>1, <1>3, <1>4 DEF UseInv, AppOK

\* Setting one field of what a client program keeps
LEMMA AppFields ==
  ASSUME NEW a, AppRecord(a), NEW x
  PROVE  /\ [a EXCEPT !.active = x] = [active |-> x, locked |-> a.locked,
                                       stime |-> a.stime, timeout |-> a.timeout]
         /\ [a EXCEPT !.locked = x] = [active |-> a.active, locked |-> x,
                                       stime |-> a.stime, timeout |-> a.timeout]
         /\ [a EXCEPT !.stime = x] = [active |-> a.active, locked |-> a.locked,
                                      stime |-> x, timeout |-> a.timeout]
         /\ [a EXCEPT !.timeout = x] = [active |-> a.active, locked |-> a.locked,
                                        stime |-> a.stime, timeout |-> x]
  <1>1. PICK act, lk, st, t :
          a = [active |-> act, locked |-> lk, stime |-> st, timeout |-> t]
    BY DEF AppRecord
  <1>2. QED
    BY <1>1

\* The screen is locked (CS_LOCKSCREEN), with or without CS_STOP.  (The SMT
\* backend cannot take a Boolean constant in an EXCEPT: hence yes and no.)
LEMMA LockApp ==
  ASSUME AppOK, NEW c \in Clients
  PROVE  /\ [app EXCEPT ![c].locked = TRUE]
              = [app EXCEPT ![c] = [active |-> app[c].active, locked |-> TRUE,
                                    stime |-> app[c].stime, timeout |-> app[c].timeout]]
         /\ AppStopped(c)
              = [app EXCEPT ![c] = [active |-> FALSE, locked |-> TRUE,
                                    stime |-> app[c].stime, timeout |-> app[c].timeout]]
  <1>1. PICK yes : yes = TRUE
    OBVIOUS
  <1>2. PICK no : no = FALSE
    OBVIOUS
  <1> DEFINE a == app[c]
             o == [a EXCEPT !.active = no]
             f == [app EXCEPT ![c] = o]
             l == [active |-> a.active, locked |-> yes, stime |-> a.stime, timeout |-> a.timeout]
             s == [active |-> no, locked |-> yes, stime |-> a.stime, timeout |-> a.timeout]
  <1>3. AppRecord(a) /\ app = [d \in Clients |-> app[d]]
    BY DEF AppOK
  <1>4. [a EXCEPT !.locked = yes] = l
    BY <1>3, AppFields
  <1>5. [o EXCEPT !.locked = yes] = s
    <2>1. o = [active |-> no, locked |-> a.locked, stime |-> a.stime, timeout |-> a.timeout]
      BY <1>3, AppFields
    <2> HIDE DEF o
    <2>2. AppRecord(o)
      BY <1>3, <2>1 DEF AppRecord
    <2>3. [o EXCEPT !.locked = yes] = [active |-> o.active, locked |-> yes,
                                       stime |-> o.stime, timeout |-> o.timeout]
      BY <2>2, AppFields
    <2>4. o.active = no /\ o.stime = a.stime /\ o.timeout = a.timeout
      BY <2>1
    <2>5. QED
      BY <2>3, <2>4
  <1>6. [app EXCEPT ![c].locked = yes] = [app EXCEPT ![c] = l]
    BY <1>4
  <1>7. [f EXCEPT ![c] = [f[c] EXCEPT !.locked = yes]] = [app EXCEPT ![c] = s]
    <2>1. f[c] = o /\ [f EXCEPT ![c] = s] = [app EXCEPT ![c] = s]
      BY <1>3
    <2>2. QED
      BY <1>5, <2>1
  <1>8. AppStopped(c) = [f EXCEPT ![c] = [f[c] EXCEPT !.locked = yes]]
    BY <1>1, <1>2 DEF AppStopped
  <1>9. QED
    BY <1>1, <1>2, <1>6, <1>7, <1>8

LEMMA LockStep ==
  ASSUME UseInv, NEW c \in Clients,
         \/ app' = AppStopped(c)
         \/ app' = [app EXCEPT ![c].locked = TRUE],
         \A d \in Clients : d # c => clients'[d] = clients[d]
  PROVE  UseInv'
  <1> DEFINE l == [active |-> app[c].active, locked |-> TRUE,
                   stime |-> app[c].stime, timeout |-> app[c].timeout]
             s == [active |-> FALSE, locked |-> TRUE,
                   stime |-> app[c].stime, timeout |-> app[c].timeout]
  <1>1. app' = [app EXCEPT ![c] = l] \/ app' = [app EXCEPT ![c] = s]
    BY LockApp DEF UseInv
  <1>2. AppRecord(l) /\ l.locked /\ AppRecord(s) /\ s.locked
    BY DEF AppRecord
  <1> HIDE DEF l, s
  <1>3. QED
    BY <1>1, <1>2, UseStep

\* ID_UNSTOP sets three fields.
AppContinued(c, t) ==
  [app EXCEPT ![c].active = TRUE, ![c].locked = FALSE, ![c].stime = t]

\* What it leaves is again a record of the four fields.
LEMMA ContinueApp ==
  ASSUME AppOK, NEW c \in Clients, NEW t
  PROVE  \E a : /\ AppRecord(a) /\ AppContinued(c, t) = [app EXCEPT ![c] = a]
               /\ a.active /\ a.stime = t /\ a.timeout = app[c].timeout
  <1>1. PICK yes : yes = TRUE
    OBVIOUS
  <1>2. PICK no : no = FALSE
    OBVIOUS
  <1> DEFINE a == app[c]
             x == [a EXCEPT !.active = yes]
             y == [x EXCEPT !.locked = no]
             z == [y EXCEPT !.stime = t]
             f == [app EXCEPT ![c] = x]
             g == [app EXCEPT ![c] = y]
  <1>3. AppRecord(a) /\ app = [d \in Clients |-> app[d]]
    BY DEF AppOK
  <1>4. x = [active |-> yes, locked |-> a.locked, stime |-> a.stime, timeout |-> a.timeout]
    BY <1>3, AppFields
  <1>5. AppRecord(x)
    <2> HIDE DEF x
    <2>1. QED
      BY <1>3, <1>4 DEF AppRecord
  <1>6. y = [active |-> x.active, locked |-> no, stime |-> x.stime, timeout |-> x.timeout]
    <2> HIDE DEF x
    <2>1. QED
      BY <1>5, AppFields
  <1>7. AppRecord(y)
    <2> HIDE DEF y
    <2>1. QED
      BY <1>2, <1>6 DEF AppRecord
  <1>8. z = [active |-> y.active, locked |-> y.locked, stime |-> t, timeout |-> y.timeout]
    <2> HIDE DEF y
    <2>1. QED
      BY <1>7, AppFields
  <1>9. AppRecord(z)
    <2> HIDE DEF z
    <2>1. QED
      BY <1>7, <1>8 DEF AppRecord
  <1>10. AppContinued(c, t) = [app EXCEPT ![c] = z]
    <2>1. [app EXCEPT ![c].active = yes] = f /\ f[c] = x
      BY <1>3
    <2>2. [f EXCEPT ![c].locked = no] = [f EXCEPT ![c] = y]
      BY <2>1
    <2>3. [f EXCEPT ![c] = y] = g /\ g[c] = y
      BY <1>3
    <2>4. [g EXCEPT ![c].stime = t] = [g EXCEPT ![c] = z]
      BY <2>3
    <2>5. [g EXCEPT ![c] = z] = [app EXCEPT ![c] = z]
      BY <1>3
    <2>6. QED
      BY <1>1, <1>2, <2>1, <2>2, <2>3, <2>4, <2>5 DEF AppContinued
  <1>11. z.active = yes /\ z.stime = t /\ z.timeout = a.timeout
    <2>1. x.active = yes /\ x.timeout = a.timeout
      BY <1>4
    <2>2. y.active = yes /\ y.timeout = a.timeout
      <3> HIDE DEF x, y
      <3>1. QED
        BY <1>6, <2>1
    <2> HIDE DEF y, z
    <2>3. QED
      BY <1>8, <2>2
  <1> HIDE DEF z
  <1>12. QED
    BY <1>1, <1>9, <1>10, <1>11

\* updateClientStatus with the record the workstation has after the step
LEMMA UpdateStep ==
  ASSUME UseInv, NEW c \in Clients, app' = AppUpdated(c, clients'[c]),
         \A d \in Clients : d # c => clients'[d] = clients[d]
  PROVE  UseInv'
  <1>1. CASE clients'[c].status = "ACTIVE"
    <2> DEFINE a == [active |-> TRUE, locked |-> FALSE,
                     stime |-> now - TimeUsed(clients'[c], now),
                     timeout |-> clients'[c].timeout]
    <2>1. app' = [app EXCEPT ![c] = a] /\ AppRecord(a)
      BY <1>1 DEF AppUpdated, AppRecord
    <2> HIDE DEF a
    <2>2. QED
      BY <1>1, <2>1, UseStep
  <1>2. CASE clients'[c].status # "ACTIVE"
    BY <1>2, LockStep DEF AppUpdated
  <1>3. QED
    BY <1>1, <1>2

\* A step that leaves the client programs and the records in use alone
LEMMA QuietStep ==
  ASSUME UseInv, UNCHANGED app,
         \A c \in Clients : clients[c].status = "ACTIVE" => clients'[c].status = "ACTIVE"
  PROVE  UseInv'
  BY DEF UseInv, AppOK, NoFreeUse

\* What the calls make of the status of a record
LEMMA StatusOf ==
  ASSUME NEW r \in Record(Members), NEW t \in Nat, NEW m, NEW n
  PROVE  /\ StartRecord(r, t, n).status = "ACTIVE"
         /\ MemberRecord(r, m).status = r.status
         /\ TimeoutRecord(r, n).status = r.status
         /\ HasSession(r) => UnpauseRecord(UnstopRecord(r, t)).status = "ACTIVE"
  <1>1. r.status \in Status
    BY DEF Record
  <1>2. StartRecord(r, t, n).status = "ACTIVE"
    BY <1>1 DEF StartRecord, ResetRecord, EmptyRecord, Record, Status
  <1>3. MemberRecord(r, m).status = r.status /\ TimeoutRecord(r, n).status = r.status
    BY DEF MemberRecord, TimeoutRecord, Record
  <1>4. ASSUME HasSession(r)
        PROVE  UnpauseRecord(UnstopRecord(r, t)).status = "ACTIVE"
    <2> DEFINE u == UnstopRecord(r, t)
    <2>1. CASE r.status = "INACTIVE"
      <3>1. u.status = "ACTIVE"
        BY <1>4, <2>1 DEF UnstopRecord, TimeoutRecord, Record
      <3> HIDE DEF u
      <3>2. UnpauseRecord(u) = u
        BY <3>1 DEF UnpauseRecord
      <3>3. QED
        BY <3>1, <3>2 DEF u
    <2>2. CASE r.status # "INACTIVE"
      <3>1. u = r
        BY <2>2 DEF UnstopRecord
      <3>2. UnpauseRecord(r).status = "ACTIVE"
        BY <1>1, <1>4, <2>2 DEF UnpauseRecord, Record, Status
      <3>3. QED
        BY <3>1, <3>2
    <2>3. QED
      BY <2>1, <2>2
  <1>5. QED
    BY <1>2, <1>3, <1>4

\* Every step that does not continue a workstation without a session keeps
\* every unlocked workstation charging.
LEMMA UseNext ==
  ASSUME CafeInv, UseInv, [Next]_vars,
         \A c \in Clients : EmployeeUnstop(c) => HasSession(clients[c])
  PROVE  UseInv'
  <1>1. \A c \in Clients : clients[c] \in Record(Members)
    BY DEF CafeInv, RecordsGood
  <1>2. now \in Nat /\ clients = [c \in Clients |-> clients[c]]
    BY DEF CafeInv, RecordsGood
  <1>3. ASSUME UNCHANGED <<app, clients>> PROVE UseInv'
    BY <1>3, QuietStep
  <1>4. ASSUME NEW c \in Clients, Workstation(c) PROVE UseInv'
    <2>1. CASE CustomerLogin(c) \/ Poll(c)
      BY <1>3, <2>1 DEF CustomerLogin, Login, Poll, records
    <2>2. CASE CustomerExit(c)
      BY <2>2, LockStep DEF CustomerExit, records
    <2>3. CASE Reconnect(c)
      BY <2>3, UpdateStep DEF Reconnect, records
    <2>4. QED
      BY <1>4, <2>1, <2>2, <2>3 DEF Workstation
  <1>5. ASSUME NEW c \in Clients, Thread(c) PROVE UseInv'
    <2>1. CASE Receive(c)
      <3>1. CASE UsedUp(c)
        BY <1>2, <2>1, <3>1, LockStep DEF Receive, Settle
      <3>2. CASE ~UsedUp(c)
        BY <1>3, <2>1, <3>2 DEF Receive
      <3>3. QED
        BY <3>1, <3>2
    <2>2. CASE HandleOwed(c)
      BY <1>3, <2>2 DEF HandleOwed, records
    <2>3. CASE HandleStatus(c)
      BY <2>3, UpdateStep DEF HandleStatus, records
    <2>4. CASE HandleExit(c)
      <3>1. CASE ExitPostpaid(c)
        BY <1>2, <3>1, LockStep DEF ExitPostpaid
      <3>2. CASE ExitMember(c)
        BY <1>2, <3>2, LockStep DEF ExitMember
      <3>3. CASE ExitIdle(c)
        BY <1>2, <3>3, QuietStep DEF ExitIdle
      <3>4. QED
        BY <2>4, <3>1, <3>2, <3>3 DEF HandleExit
    <2>5. CASE HandleLogin(c)
      <3>1. CASE LoginUser(c)
        BY <1>2, <3>1, UpdateStep DEF LoginUser
      <3>2. CASE LoginMember(c, handling[c].member)
        BY <1>2, <3>2, UpdateStep DEF LoginMember
      <3>3. CASE UNCHANGED <<records, money, app, sessions>>
        BY <1>3, <3>3 DEF records
      <3>4. QED
        BY <2>5, <3>1, <3>2, <3>3 DEF HandleLogin
    <2>6. QED
      BY <1>5, <2>1, <2>2, <2>3, <2>4, <2>5 DEF Thread
  <1>6. ASSUME NEW c \in Clients, Printed(c) PROVE UseInv'
    BY <1>2, <1>6, QuietStep DEF Printed
  <1>7. ASSUME NEW c \in Clients, Employee(c) PROVE UseInv'
    <2> DEFINE r == clients[c]
    <2>1. CASE EmployeeStart(c)
      <3> DEFINE a == [active |-> TRUE, locked |-> FALSE, stime |-> now, timeout |-> 0]
      <3>1. /\ clients'[c].status = "ACTIVE"
            /\ \A d \in Clients : d # c => clients'[d] = clients[d]
        BY <1>1, <1>2, <2>1, StatusOf DEF EmployeeStart
      <3>2. app' = [app EXCEPT ![c] = a] /\ AppRecord(a)
        BY <2>1 DEF EmployeeStart, AppRecord
      <3> HIDE DEF a
      <3>3. QED
        BY <3>1, <3>2, UseStep
    <2>2. CASE EmployeePause(c)
      BY <1>2, <2>2, LockStep DEF EmployeePause
    <2>3. CASE EmployeeStop(c)
      <3>1. \A d \in Clients : d # c => clients'[d] = clients[d]
        BY <1>2, <2>3 DEF EmployeeStop, StopMember, StopPostpaid, StopIdle
      <3>2. QED
        BY <2>3, <3>1, LockStep DEF EmployeeStop
    <2>4. CASE EmployeeUnstop(c)
      <3>1. /\ clients'[c].status = "ACTIVE"
            /\ \A d \in Clients : d # c => clients'[d] = clients[d]
        BY <1>1, <1>2, <2>4, StatusOf DEF EmployeeUnstop
      <3> DEFINE t == now - TimeUsed(r, now)
      <3>2. app' = AppContinued(c, t)
        BY <2>4 DEF EmployeeUnstop, AppContinued
      <3>3. PICK a : AppRecord(a) /\ AppContinued(c, t) = [app EXCEPT ![c] = a]
        BY ContinueApp DEF UseInv
      <3>4. QED
        BY <3>1, <3>2, <3>3, UseStep
    <2>5. ASSUME NEW m, SetMember(c, m) PROVE UseInv'
      <3>1. \A d \in Clients : clients'[d].status = clients[d].status
        BY <1>1, <1>2, <2>5, StatusOf DEF SetMember
      <3>2. QED
        BY <2>5, <3>1, QuietStep DEF SetMember
    <2>6. ASSUME NEW t, SetTimeout(c, t) PROVE UseInv'
      <3> DEFINE a == [app[c] EXCEPT !.timeout = t]
      <3>1. /\ clients'[c].status = r.status
            /\ \A d \in Clients : d # c => clients'[d] = clients[d]
        BY <1>1, <1>2, <2>6, StatusOf DEF SetTimeout
      <3>2. AppRecord(app[c])
        BY DEF UseInv, AppOK
      <3>3. a = [active |-> app[c].active, locked |-> app[c].locked,
                 stime |-> app[c].stime, timeout |-> t]
        BY <3>2, AppFields
      <3>4. app' = [app EXCEPT ![c] = a]
        BY <2>6 DEF SetTimeout
      <3> HIDE DEF a
      <3>5. AppRecord(a) /\ a.locked = app[c].locked
        BY <3>2, <3>3 DEF AppRecord
      <3>6. QED
        BY <3>1, <3>4, <3>5, UseStep DEF UseInv, NoFreeUse
    <2>7. ASSUME NEW mode, ToggleAllow(c, mode) PROVE UseInv'
      BY <1>3, <2>7 DEF ToggleAllow, records
    <2>8. QED
      BY <1>7, <2>1, <2>2, <2>3, <2>4, <2>5, <2>6, <2>7 DEF Employee
  <1>8. CASE Tick \/ Counter
    BY <1>3, <1>8
       DEF Tick, Counter, Select, Cash, Cancel, Settled, ShowOther, PayAccount, records
  <1>9. QED
    BY <1>3, <1>4, <1>5, <1>6, <1>7, <1>8 DEF Next, vars, records
\* In a café whose employees do not use the Continue button (onCommand,
\* ID_UNSTOP), a workstation whose screen is not locked is charging for it.
\* With the button it is not: on a workstation without a session it unlocks the
\* screen and starts nothing, and UseNext says that this is the only way.
THEOREM UseIsCharged ==
  ASSUME "unstop" \notin Commands
  PROVE  Spec => []NoFreeUse
  <1>1. Init => UseInv
    <2>1. AppRecord(IdleApp) /\ IdleApp.locked
      BY DEF AppRecord, IdleApp
    <2>2. ASSUME Init PROVE UseInv
      <3>1. app = [c \in Clients |-> app[c]] /\ \A c \in Clients : app[c] = IdleApp
        BY <2>2 DEF Init
      <3>2. QED
        BY <2>1, <3>1 DEF UseInv, AppOK, NoFreeUse
    <2>3. QED
      BY <2>2
  <1>2. CafeInv /\ UseInv /\ [Next]_vars => UseInv'
    BY UseNext DEF EmployeeUnstop
  <1>3. UseInv => NoFreeUse
    BY DEF UseInv
  <1>4. QED
    BY <1>1, <1>2, <1>3, CafeInvariant, PTL DEF Spec

-----------------------------------------------------------------------------
(* The cashing frame shows what is on the unpaid list.                     *)

\* The customer who left a workstation by himself is no longer attached to it
\* as a member: onEventCallback never takes a session up again by itself.
LeftUnattached == \A c \in userstop : c \in Clients => clients[c].member = 0

CashInv == LeftUnattached /\ CashingShowsUnpaid

\* A step that keeps the row the frame shows, and the frame
LEMMA RowsStay ==
  ASSUME CashingShowsUnpaid, UNCHANGED cashing,
         \A row \in log : row.id = cashing.row => row \in log'
  PROVE  CashingShowsUnpaid'
  BY DEF CashingShowsUnpaid

\* CCL_log_session only adds.
LEMMA LoggedStays ==
  ASSUME NEW rows, NEW c, NEW r, NEW price, NEW flag, NEW payer
  PROVE  rows \subseteq LoggedAfter(rows, c, r, price, flag, payer)
  BY DEF LoggedAfter

\* A row leaves the log only with its session, and the frame with it.
LEMMA UncashedStays ==
  ASSUME CashingShowsUnpaid, NEW c \in Clients, NEW out, out \in BOOLEAN,
         cashing' = (IF out /\ cashing.row = RowOf(c, clients[c]) THEN NoSession ELSE cashing),
         \A row \in log : (out /\ row.id = RowOf(c, clients[c])) \/ row \in log'
  PROVE  CashingShowsUnpaid'
  BY DEF CashingShowsUnpaid

\* The member of a record after a call
LEMMA MemberOf ==
  ASSUME NEW r \in Record(Members), NEW t \in Nat, NEW n
  PROVE  /\ r.member = 0 => StartRecord(r, t, n).member = 0
         /\ StopRecord(r, t).member = r.member
         /\ PauseRecord(r, t).member = r.member
         /\ UnstopRecord(r, t).member = r.member
         /\ TimeoutRecord(r, n).member = r.member
         /\ MemberRecord(r, n).member = n
  BY DEF StartRecord, ResetRecord, EmptyRecord, StopRecord, PauseRecord,
         UnstopRecord, TimeoutRecord, MemberRecord, Record

\* A step that concerns one workstation
LEMMA UnattachedStep ==
  ASSUME LeftUnattached, NEW c \in Clients,
         \A d \in Clients : d # c => clients'[d] = clients[d],
         userstop' \subseteq userstop \cup {c},
         c \in userstop' => clients'[c].member = 0
  PROVE  LeftUnattached'
  BY DEF LeftUnattached
\* Without the dialog that sets a member, nobody is attached to a workstation
\* that its customer left.
LEMMA UnattachedNext ==
  ASSUME "member" \notin Commands, CafeInv, LeftUnattached, [Next]_vars
  PROVE  LeftUnattached'
  <1>1. \A c \in Clients : clients[c] \in Record(Members)
    BY DEF CafeInv, RecordsGood
  <1>2. now \in Nat /\ clients = [c \in Clients |-> clients[c]]
    BY DEF CafeInv, RecordsGood
  <1>3. ASSUME UNCHANGED clients, userstop' \subseteq userstop PROVE LeftUnattached'
    BY <1>3 DEF LeftUnattached
  <1>4. ASSUME NEW c \in Clients, Thread(c) PROVE LeftUnattached'
    <2>1. CASE Receive(c)
      <3>1. userstop' = userstop
        BY <2>1 DEF Receive
      <3>2. CASE UsedUp(c)
        <4>1. /\ clients' = [clients EXCEPT ![c] = MemberRecord(StopRecord(@, now), 0)]
              /\ MemberRecord(StopRecord(clients[c], now), 0).member = 0
          <5>1. Good(StopRecord(clients[c], now), Members, now)
            BY CallsGood
          <5>2. QED
            BY <1>2, <2>1, <3>2, <5>1, MemberOf DEF Receive, Settle, Good
        <4>2. QED
          BY <1>2, <3>1, <4>1, UnattachedStep
      <3>3. CASE ~UsedUp(c)
        BY <1>3, <2>1, <3>1, <3>3 DEF Receive
      <3>4. QED
        BY <3>2, <3>3
    <2>2. CASE HandleOwed(c) \/ HandleStatus(c)
      BY <1>3, <2>2 DEF HandleOwed, HandleStatus, records
    <2>3. CASE HandleExit(c)
      <3>1. /\ userstop' = userstop \cup {c}
            /\ \A d \in Clients : d # c => clients'[d] = clients[d]
        BY <1>2, <2>3 DEF HandleExit, ExitPostpaid, ExitMember, ExitIdle
      <3>2. clients'[c].member = 0
        <4>1. CASE ExitPostpaid(c)
          BY <1>1, <1>2, <4>1, MemberOf DEF ExitPostpaid
        <4>2. CASE ExitMember(c)
          <5>1. Good(StopRecord(clients[c], now), Members, now)
            BY CallsGood
          <5>2. QED
            BY <1>2, <4>2, <5>1, MemberOf DEF ExitMember, Good
        <4>3. CASE ExitIdle(c)
          BY <1>2, <4>3 DEF ExitIdle, ResetRecord, EmptyRecord
        <4>4. QED
          BY <2>3, <4>1, <4>2, <4>3 DEF HandleExit
      <3>3. QED
        BY <3>1, <3>2, UnattachedStep
    <2>4. CASE HandleLogin(c)
      <3>1. CASE UNCHANGED records
        BY <1>3, <3>1 DEF records
      <3>2. CASE /\ userstop' = userstop \ {c}
                 /\ LoginUser(c) \/ LoginMember(c, handling[c].member)
        <4>1. \A d \in Clients : d # c => clients'[d] = clients[d]
          BY <1>2, <3>2 DEF LoginUser, LoginMember
        <4>2. QED
          BY <3>2, <4>1, UnattachedStep
      <3>3. QED
        BY <2>4, <3>1, <3>2 DEF HandleLogin
    <2>5. QED
      BY <1>4, <2>1, <2>2, <2>3, <2>4 DEF Thread
  <1>5. ASSUME NEW c \in Clients, Employee(c) PROVE LeftUnattached'
    <2>1. CASE EmployeeStart(c) \/ EmployeeUnstop(c)
      <3>1. /\ userstop' = userstop \ {c}
            /\ \A d \in Clients : d # c => clients'[d] = clients[d]
        BY <1>2, <2>1 DEF EmployeeStart, EmployeeUnstop
      <3>2. QED
        BY <3>1, UnattachedStep
    <2>2. CASE EmployeePause(c)
      <3>1. /\ userstop' = userstop /\ clients'[c].member = clients[c].member
            /\ \A d \in Clients : d # c => clients'[d] = clients[d]
        BY <1>1, <1>2, <2>2, MemberOf DEF EmployeePause
      <3>2. QED
        BY <3>1, UnattachedStep DEF LeftUnattached
    <2>3. CASE EmployeeStop(c)
      <3>1. CASE StopMember(c) \/ StopPostpaid(c)
        <4>1. /\ userstop' = userstop /\ clients'[c].member = clients[c].member
              /\ \A d \in Clients : d # c => clients'[d] = clients[d]
          BY <1>1, <1>2, <3>1, MemberOf DEF StopMember, StopPostpaid
        <4>2. QED
          BY <4>1, UnattachedStep DEF LeftUnattached
      <3>2. CASE StopIdle(c)
        BY <1>3, <3>2 DEF StopIdle
      <3>3. QED
        BY <2>3, <3>1, <3>2 DEF EmployeeStop
    <2>4. ASSUME NEW t, SetTimeout(c, t) PROVE LeftUnattached'
      <3>1. /\ userstop' = userstop /\ clients'[c].member = clients[c].member
            /\ \A d \in Clients : d # c => clients'[d] = clients[d]
        BY <1>1, <1>2, <2>4, MemberOf DEF SetTimeout
      <3>2. QED
        BY <3>1, UnattachedStep DEF LeftUnattached
    <2>5. ASSUME NEW mode, ToggleAllow(c, mode) PROVE LeftUnattached'
      BY <1>3, <2>5 DEF ToggleAllow, records
    <2>6. QED
      BY <1>5, <2>1, <2>2, <2>3, <2>4, <2>5 DEF Employee, SetMember
  <1>6. ASSUME NEW c \in Clients, Printed(c) PROVE LeftUnattached'
    <2> DEFINE u == UnstopRecord(clients[c], now)
    <2>1. u \in Record(Members) /\ u.member = clients[c].member
      BY <1>1, <1>2, CallsGood, MemberOf DEF Good
    <2> HIDE DEF u
    <2>2. StopRecord(u, now).member = clients[c].member
      BY <1>2, <2>1, MemberOf
    <2>3. /\ userstop' = userstop /\ clients'[c] = StopRecord(u, now)
          /\ \A d \in Clients : d # c => clients'[d] = clients[d]
      BY <1>2, <1>6 DEF Printed, u
    <2>4. QED
      BY <2>2, <2>3, UnattachedStep DEF LeftUnattached
  <1>7. ASSUME NEW c \in Clients, Workstation(c) PROVE LeftUnattached'
    BY <1>3, <1>7
       DEF Workstation, CustomerLogin, Login, CustomerExit, Poll, Reconnect, records
  <1>8. CASE Tick \/ Counter
    BY <1>3, <1>8
       DEF Tick, Counter, Select, Cash, Cancel, Settled, ShowOther, PayAccount, records
  <1>9. QED
    BY <1>3, <1>4, <1>5, <1>6, <1>7, <1>8 DEF Next, vars, records

\* The rows that stay when a session goes on
LEMMA UnloggedRows ==
  ASSUME NEW c, NEW r
  PROVE  /\ \A row \in log : row.id = RowOf(c, r) \/ row \in Unlogged(c, r)
         /\ r.status # "INACTIVE" => Unlogged(c, r) = log
  BY DEF Unlogged

\* Every step keeps what the cashing frame shows on the unpaid list.
LEMMA CashNext ==
  ASSUME CashInv, [Next]_vars
  PROVE  CashingShowsUnpaid'
  <1>1. ASSUME UNCHANGED cashing, log \subseteq log' PROVE CashingShowsUnpaid'
    BY <1>1, RowsStay DEF CashInv
  <1>2. ASSUME NEW c \in Clients, Workstation(c) PROVE CashingShowsUnpaid'
    BY <1>1, <1>2
       DEF Workstation, CustomerLogin, Login, CustomerExit, Poll, Reconnect, money
  <1>3. ASSUME NEW c \in Clients, Thread(c) PROVE CashingShowsUnpaid'
    <2>1. UNCHANGED cashing
      BY <1>3 DEF Thread, Receive, HandleOwed, HandleStatus, HandleExit, HandleLogin
    <2>2. CASE Receive(c)
      BY <1>1, <2>1, <2>2, LoggedStays DEF Receive, Settle, Logged, money
    <2>3. CASE HandleOwed(c) \/ HandleStatus(c)
      BY <1>1, <2>1, <2>3 DEF HandleOwed, HandleStatus, money
    <2>4. CASE HandleExit(c)
      BY <1>1, <2>1, <2>4, LoggedStays
         DEF HandleExit, ExitPostpaid, ExitMember, ExitIdle, Logged, money
    <2>5. CASE HandleLogin(c)
      <3> DEFINE m == handling[c].member
      <3>1. ASSUME m # 0, LoginMember(c, m) PROVE log' = log
        <4>1. ~(c \in userstop /\ clients[c].member = m)
          BY <3>1 DEF CashInv, LeftUnattached
        <4>2. QED
          BY <3>1, <4>1 DEF LoginMember
      <3>2. log' = log
        BY <2>5, <3>1 DEF HandleLogin, LoginUser, money
      <3>3. QED
        BY <1>1, <2>1, <3>2
    <2>6. QED
      BY <1>3, <2>2, <2>3, <2>4, <2>5 DEF Thread
  <1>4. ASSUME NEW c \in Clients, Printed(c) PROVE CashingShowsUnpaid'
    <2>1. cashing' = (IF TRUE /\ cashing.row = RowOf(c, clients[c]) THEN NoSession ELSE cashing)
      BY <1>4 DEF Printed
    <2>2. \A row \in log : row.id = RowOf(c, clients[c]) \/ row \in log'
      BY <1>4, LoggedStays, UnloggedRows DEF Printed
    <2>3. QED
      BY <2>1, <2>2, UncashedStays DEF CashInv
  <1>5. ASSUME NEW c \in Clients, Employee(c) PROVE CashingShowsUnpaid'
    <2>1. CASE EmployeeUnstop(c)
      <3> DEFINE out == clients[c].status = "INACTIVE"
      <3>1. cashing' = (IF out /\ cashing.row = RowOf(c, clients[c]) THEN NoSession ELSE cashing)
        BY <2>1 DEF EmployeeUnstop, Uncashed
      <3>2. \A row \in log : (out /\ row.id = RowOf(c, clients[c])) \/ row \in log'
        BY <2>1, UnloggedRows DEF EmployeeUnstop
      <3>3. out \in BOOLEAN
        OBVIOUS
      <3> HIDE DEF out
      <3>4. QED
        BY <3>1, <3>2, <3>3, UncashedStays DEF CashInv
    <2>2. CASE EmployeeStop(c)
      BY <1>1, <2>2, LoggedStays
         DEF EmployeeStop, StopMember, StopPostpaid, StopIdle, Logged, money
    <2>3. CASE ~EmployeeUnstop(c) /\ ~EmployeeStop(c)
      BY <1>1, <1>5, <2>3
         DEF Employee, EmployeeStart, EmployeePause, SetMember, SetTimeout,
             ToggleAllow, money
    <2>4. QED
      BY <2>1, <2>2, <2>3
  <1>6. CASE Counter
    <2>1. CASE \E row \in log : Select(row)
      <3>1. PICK row \in log : Select(row)
        BY <2>1
      <3>2. row \in log' /\ row.flag = "NOTPAID"
            /\ cashing' = [row |-> row.id, client |-> row.client, price |-> row.price]
        BY <3>1 DEF Select, money
      <3>3. QED
        BY <3>2 DEF CashingShowsUnpaid
    <2>2. CASE Cash \/ Cancel \/ ShowOther
      BY <2>2 DEF Cash, Cancel, Settled, ShowOther, CashingShowsUnpaid, NoSession
    <2>3. CASE \E m \in Members, amount \in Deposits : PayAccount(m, amount)
      BY <1>1, <2>3 DEF PayAccount
    <2>4. QED
      BY <1>6, <2>1, <2>2, <2>3 DEF Counter
  <1>7. CASE Tick
    BY <1>1, <1>7 DEF Tick, money
  <1>8. QED
    BY <1>1, <1>2, <1>3, <1>4, <1>5, <1>6, <1>7 DEF Next, vars, money

\* In a café whose employees do not set members by hand (setClientMember), the
\* cashing frame (CashingFrame::setSession to onCash) always shows a session of
\* the unpaid list, with its workstation and its price, whatever the customers,
\* the threads and the other dialogs do meanwhile.
THEOREM CashingIsUnpaid ==
  ASSUME "member" \notin Commands
  PROVE  Spec => []CashingShowsUnpaid
  <1>1. Init => CashInv
    BY DEF Init, CashInv, LeftUnattached, CashingShowsUnpaid
  <1>2. CafeInv /\ CashInv /\ [Next]_vars => CashInv'
    BY CashNext, UnattachedNext DEF CashInv
  <1>3. CashInv => CashingShowsUnpaid
    BY DEF CashInv
  <1>4. QED
    BY <1>1, <1>2, <1>3, CafeInvariant, PTL DEF Spec

-----------------------------------------------------------------------------
(* The types of the café's other variables.  No account has more credit    *)
(* than was paid into it, so no refund makes the sum of its payments       *)
(* negative.  No two rows of the log have one id, and what is to be paid at *)
(* the counter was not taken from an account.                              *)

IdsDiffer(rows) == \A x, y \in rows : x.id = y.id => x = y

UnpaidIsNobodys(rows) == \A row \in rows : row.flag = "NOTPAID" => row.payer = 0

RowsOK(rows) ==
  /\ rows \subseteq SessionRow /\ IsFiniteSet(rows)
  /\ IdsDiffer(rows) /\ UnpaidIsNobodys(rows)

LogOK == RowsOK(log)

AccountsOK ==
  /\ credit \in [Members -> Int] /\ deposited \in [Members -> Nat]
  /\ \A m \in Members : credit[m] <= deposited[m]
  /\ loggedIn \subseteq Members

FlagsOK ==
  /\ userstop \subseteq Clients /\ blocked \subseteq Clients
  /\ allowed \in [Clients -> SUBSET Modes] /\ settings \in [Clients -> SUBSET Modes]

CashingOK == cashing \in [row : Nat, client : Clients, price : Nat] \cup {NoSession}

\* What is owed is a number of minutes, and at most all that have passed.
LEMMA OwedTyped ==
  ASSUME CafeInv, NEW c \in Clients
  PROVE  Owed(c) \in Nat /\ Owed(c) <= now
  BY UsedWithinSpan DEF CafeInv, RecordsGood, Owed

\* The row that CCL_log_session adds
NewRow(rows, c, r, price, flag, payer) ==
  [id |-> NextRowId(rows), client |-> c, session |-> r.session,
   member |-> r.member, payer |-> payer, stime |-> STime(r), etime |-> ETime(r),
   price |-> Unsigned(price), flag |-> flag]

\* What CCL_log_session writes is a row, and a new one.
LEMMA LoggedTyped ==
  ASSUME NEW rows, RowsOK(rows),
         NEW c \in Clients, NEW r \in Record(Members), NEW price \in Int,
         NEW flag \in {"NOTPAID", "PAID", "CANCELED"}, NEW payer \in Members \cup {0},
         flag = "NOTPAID" => payer = 0
  PROVE  /\ RowsOK(LoggedAfter(rows, c, r, price, flag, payer))
         /\ NewRow(rows, c, r, price, flag, payer) \in SessionRow \ rows
         /\ \A x \in rows : x.id < NextRowId(rows)
  <1> DEFINE row == NewRow(rows, c, r, price, flag, payer)
  <1>1. NextRowId(rows) \in Nat /\ \A x \in rows : x.id < NextRowId(rows)
    <2>1. \A x \in rows : x.id \in Nat
      BY DEF SessionRow, RowsOK
    <2>2. QED
      BY <2>1, NextIdIsNew DEF NextRowId, RowsOK
  <1>2. Unsigned(price) \in Nat
    BY NumbersAssumption DEF Unsigned
  <1>3. r.session \in Nat /\ r.member \in Members \cup {0}
    BY DEF Record
  <1>4. STime(r) \in Nat /\ ETime(r) \in Nat
    BY TimesTyped
  <1>5. row \in SessionRow
    BY <1>1, <1>2, <1>3, <1>4 DEF SessionRow, NewRow
  <1>6. row.id = NextRowId(rows) /\ row.flag = flag /\ row.payer = payer
    BY DEF NewRow
  <1>7. LoggedAfter(rows, c, r, price, flag, payer) \in {rows, rows \cup {row}}
    BY DEF LoggedAfter, NewRow
  <1> HIDE DEF row
  <1>8. \A x \in rows : x.id # row.id
    <2>1. \A x \in rows : x.id \in Nat
      BY DEF SessionRow, RowsOK
    <2>2. QED
      BY <1>1, <1>6, <2>1
  <1>9. RowsOK(rows \cup {row})
    <2>1. IsFiniteSet(rows \cup {row}) /\ rows \cup {row} \subseteq SessionRow
      BY <1>5, FS_AddElement DEF RowsOK
    <2>2. IdsDiffer(rows \cup {row})
      BY <1>8 DEF RowsOK, IdsDiffer
    <2>3. UnpaidIsNobodys(rows \cup {row})
      BY <1>6 DEF RowsOK, UnpaidIsNobodys
    <2>4. QED
      BY <2>1, <2>2, <2>3 DEF RowsOK
  <1>10. row \notin rows
    BY <1>8
  <1>11. QED
    BY <1>1, <1>5, <1>7, <1>9, <1>10 DEF row

\* Fewer rows are rows.
LEMMA FewerRows ==
  ASSUME LogOK, NEW rows, rows \subseteq log
  PROVE  RowsOK(rows)
  BY FS_Subset DEF LogOK, RowsOK, IdsDiffer, UnpaidIsNobodys

\* What a settled session leaves in the log
LEMMA SettledTyped ==
  ASSUME LogOK, CashingOK, cashing # NoSession, NEW flag \in {"PAID", "CANCELED"},
         NEW rows, rows = {IF row.id = cashing.row
                           THEN [row EXCEPT !.price = cashing.price, !.flag = flag]
                           ELSE row : row \in log}
  PROVE  RowsOK(rows)
  <1> DEFINE f == [row \in log |-> IF row.id = cashing.row
                   THEN [row EXCEPT !.price = cashing.price, !.flag = flag] ELSE row]
  <1>1. cashing.price \in Nat
    BY DEF CashingOK
  <1>2. ASSUME NEW row \in log
        PROVE  /\ f[row] \in SessionRow /\ f[row].id = row.id
               /\ f[row] = row \/ f[row].flag # "NOTPAID"
    <2>1. row \in SessionRow
      BY DEF LogOK, RowsOK
    <2> DEFINE s == [row EXCEPT !.price = cashing.price, !.flag = flag]
    <2>2. s \in SessionRow /\ s.id = row.id /\ s.flag = flag
      BY <1>1, <2>1 DEF SessionRow
    <2>3. f[row] = row \/ f[row] = s
      OBVIOUS
    <2> HIDE DEF s, f
    <2>4. QED
      BY <2>1, <2>2, <2>3
  <1>3. rows = {f[row] : row \in log}
    OBVIOUS
  <1> HIDE DEF f
  <1>4. IsFiniteSet(rows)
    <2>1. IsFiniteSet(log)
      BY DEF LogOK, RowsOK
    <2>2. IsFiniteSet({f[row] : row \in log})
      BY <2>1, ImageFinite
    <2>3. QED
      BY <1>3, <2>2
  <1>5. rows \subseteq SessionRow
    BY <1>2, <1>3
  <1>6. IdsDiffer(rows)
    <2>1. ASSUME NEW x \in log, NEW y \in log, f[x].id = f[y].id PROVE f[x] = f[y]
      <3>1. x.id = y.id
        BY <1>2, <2>1
      <3>2. QED
        BY <3>1 DEF LogOK, RowsOK, IdsDiffer
    <2>2. ASSUME NEW p \in rows, NEW q \in rows, p.id = q.id PROVE p = q
      <3>1. PICK x \in log : p = f[x]
        BY <1>3
      <3>2. PICK y \in log : q = f[y]
        BY <1>3
      <3>3. QED
        BY <2>1, <2>2, <3>1, <3>2
    <2>3. QED
      BY <2>2 DEF IdsDiffer
  <1>7. UnpaidIsNobodys(rows)
    BY <1>2, <1>3 DEF LogOK, RowsOK, UnpaidIsNobodys
  <1>8. QED
    BY <1>4, <1>5, <1>6, <1>7 DEF RowsOK

LEMMA LogNext == CafeInv /\ AccountsOK /\ CashingOK /\ LogOK /\ [Next]_vars => LogOK'
  <1> SUFFICES ASSUME CafeInv, AccountsOK, CashingOK, LogOK, [Next]_vars PROVE LogOK'
    OBVIOUS
  <1>1. ASSUME log' \subseteq log PROVE LogOK'
    BY <1>1, FewerRows DEF LogOK
  <1>2. ASSUME NEW rows, rows \subseteq log, NEW c \in Clients, NEW r \in Record(Members),
               NEW price \in Int, NEW flag \in {"NOTPAID", "PAID", "CANCELED"},
               NEW payer \in Members \cup {0}, flag = "NOTPAID" => payer = 0,
               log' = LoggedAfter(rows, c, r, price, flag, payer)
        PROVE  LogOK'
    BY <1>2, FewerRows, LoggedTyped DEF LogOK
  <1>3. \A c \in Clients :
          /\ clients[c] \in Record(Members)
          /\ clients[c].member \in Members \cup {0}
          /\ StopRecord(clients[c], now) \in Record(Members)
          /\ MemberRecord(StopRecord(clients[c], now), 0) \in Record(Members)
          /\ StopRecord(UnstopRecord(clients[c], now), now) \in Record(Members)
          /\ TimeUsed(StopRecord(UnstopRecord(clients[c], now), now), now) \in Int
          /\ Owed(c) \in Int
    <2> SUFFICES ASSUME NEW c \in Clients
                 PROVE  /\ clients[c] \in Record(Members)
                        /\ clients[c].member \in Members \cup {0}
                        /\ StopRecord(clients[c], now) \in Record(Members)
                        /\ MemberRecord(StopRecord(clients[c], now), 0) \in Record(Members)
                        /\ StopRecord(UnstopRecord(clients[c], now), now) \in Record(Members)
                        /\ TimeUsed(StopRecord(UnstopRecord(clients[c], now), now), now) \in Int
                        /\ Owed(c) \in Int
      OBVIOUS
    <2>1. /\ clients[c] \in Record(Members)
          /\ Good(StopRecord(clients[c], now), Members, now)
          /\ Good(StopRecord(UnstopRecord(clients[c], now), now), Members, now)
          /\ now \in Nat
      BY CallsGood DEF CafeInv
    <2>2. Good(MemberRecord(StopRecord(clients[c], now), 0), Members, now)
      BY <2>1, SetGood
    <2>3. TimeUsed(StopRecord(UnstopRecord(clients[c], now), now), now) \in Int
      BY <2>1, UsedTyped DEF Good
    <2>4. clients[c].member \in Members \cup {0}
      BY <2>1 DEF Record
    <2>5. Owed(c) \in Int
      BY OwedTyped
    <2>6. QED
      BY <2>1, <2>2, <2>3, <2>4, <2>5 DEF Good
  <1>4. ASSUME NEW c \in Clients, Thread(c) PROVE LogOK'
    <2>1. CASE Receive(c)
      <3> DEFINE m == clients[c].member
                 r == MemberRecord(StopRecord(clients[c], now), 0)
      <3>1. CASE UsedUp(c)
        <4>1. m \in Members /\ credit[m] \in Int /\ r \in Record(Members)
          BY <1>3, <3>1 DEF UsedUp, AccountsOK
        <4>2. log' = LoggedAfter(log, c, r, credit[m], "PAID", m)
          BY <2>1, <3>1 DEF Receive, Settle, Logged
        <4> HIDE DEF r, m
        <4>3. QED
          BY <1>2, <4>1, <4>2
      <3>2. QED
        BY <1>1, <2>1, <3>1 DEF Receive, money
    <2>2. CASE HandleExit(c)
      <3>1. CASE ExitPostpaid(c)
        <4>1. log' = LoggedAfter(log, c, StopRecord(clients[c], now), Owed(c), "NOTPAID", 0)
          BY <3>1 DEF ExitPostpaid, Logged
        <4>2. QED
          BY <1>2, <1>3, <4>1
      <3>2. CASE ExitMember(c)
        <4>1. log' = LoggedAfter(log, c, StopRecord(clients[c], now), Owed(c), "PAID",
                                 clients[c].member)
          BY <3>2 DEF ExitMember, Logged
        <4>2. QED
          BY <1>2, <1>3, <4>1
      <3>3. CASE ExitIdle(c)
        BY <1>1, <3>3 DEF ExitIdle, money
      <3>4. QED
        BY <2>2, <3>1, <3>2, <3>3 DEF HandleExit
    <2>3. CASE HandleLogin(c)
      BY <1>1, <2>3 DEF HandleLogin, LoginUser, LoginMember, Unlogged, money
    <2>4. QED
      BY <1>1, <1>4, <2>1, <2>2, <2>3 DEF Thread, HandleOwed, HandleStatus, money
  <1>5. ASSUME NEW c \in Clients, Employee(c) PROVE LogOK'
    <2>1. CASE EmployeeStop(c)
      <3>1. CASE StopPostpaid(c)
        <4>1. log' = LoggedAfter(log, c, StopRecord(clients[c], now), Owed(c), "NOTPAID", 0)
          BY <3>1 DEF StopPostpaid, Logged
        <4>2. QED
          BY <1>2, <1>3, <4>1
      <3>2. CASE StopMember(c)
        <4>1. log' = LoggedAfter(log, c, StopRecord(clients[c], now), Owed(c), "PAID",
                                 clients[c].member)
          BY <3>2 DEF StopMember, Logged
        <4>2. QED
          BY <1>2, <1>3, <4>1
      <3>3. CASE StopIdle(c)
        BY <1>1, <3>3 DEF StopIdle, money
      <3>4. QED
        BY <2>1, <3>1, <3>2, <3>3 DEF EmployeeStop
    <2>2. QED
      BY <1>1, <1>5, <2>1
         DEF Employee, EmployeeStart, EmployeePause, EmployeeUnstop, SetMember, SetTimeout,
             ToggleAllow, Unlogged, money
  <1>6. ASSUME NEW c \in Clients, Printed(c) PROVE LogOK'
    <2> DEFINE again == StopRecord(UnstopRecord(clients[c], now), now)
    <2>1. log' = LoggedAfter(Unlogged(c, clients[c]), c, again, TimeUsed(again, now),
                             "NOTPAID", 0)
      BY <1>6 DEF Printed
    <2>2. Unlogged(c, clients[c]) \subseteq log
      BY DEF Unlogged
    <2>3. again \in Record(Members) /\ TimeUsed(again, now) \in Int
      BY <1>3
    <2> HIDE DEF again
    <2>4. QED
      BY <1>2, <2>1, <2>2, <2>3
  <1>7. CASE Counter
    <2>1. ASSUME NEW flag \in {"PAID", "CANCELED"}, Settled(flag) PROVE LogOK'
      BY <2>1, SettledTyped DEF Settled, LogOK
    <2>2. QED
      BY <1>1, <1>7, <2>1 DEF Counter, Select, Cash, Cancel, ShowOther, PayAccount, money
  <1>8. ASSUME NEW c \in Clients, Workstation(c) PROVE LogOK'
    BY <1>1, <1>8
       DEF Workstation, CustomerLogin, Login, CustomerExit, Poll, Reconnect, money
  <1>9. CASE Tick \/ UNCHANGED vars
    BY <1>1, <1>9 DEF Tick, vars, money
  <1>10. QED
    BY <1>4, <1>5, <1>6, <1>7, <1>8, <1>9 DEF Next

\* Credit is only taken for time that was used, and a refund needs the credit.
LEMMA AccountsNext == CafeInv /\ AccountsOK /\ [Next]_vars => AccountsOK'
  <1> SUFFICES ASSUME CafeInv, AccountsOK, [Next]_vars PROVE AccountsOK'
    OBVIOUS
  <1>1. ASSUME UNCHANGED <<credit, deposited>>, loggedIn' \subseteq Members
        PROVE  AccountsOK'
    BY <1>1 DEF AccountsOK
  <1>2. ASSUME NEW m \in Members, NEW n \in Int, n <= deposited[m],
               credit' = [credit EXCEPT ![m] = n], UNCHANGED deposited,
               loggedIn' \subseteq Members
        PROVE  AccountsOK'
    BY <1>2 DEF AccountsOK
  <1>3. \A m \in Members : credit[m] \in Int /\ deposited[m] \in Nat /\ credit[m] <= deposited[m]
    BY DEF AccountsOK
  <1>4. \A c \in Clients : Owed(c) \in Nat /\ clients[c].member \in Members \cup {0}
                           /\ handling[c].member \in Members \cup {0}
    BY OwedTyped DEF CafeInv, RecordsGood, NetworkOK, Record, Req
  <1>5. ASSUME NEW c \in Clients, Receive(c) PROVE AccountsOK'
    <2>1. CASE UsedUp(c)
      <3> DEFINE m == clients[c].member
      <3>1. m \in Members
        BY <1>4, <2>1 DEF UsedUp
      <3>2. /\ credit' = [credit EXCEPT ![m] = 0] /\ UNCHANGED deposited
            /\ loggedIn' = loggedIn \ {m}
        BY <1>5, <2>1 DEF Receive, Settle, auxiliary
      <3> HIDE DEF m
      <3>3. QED
        BY <1>2, <1>3, <3>1, <3>2 DEF AccountsOK
    <2>2. QED
      BY <1>1, <1>5, <2>1 DEF Receive, money, auxiliary, AccountsOK
  <1>6. ASSUME NEW c \in Clients, clients[c].member # 0,
               credit' = [credit EXCEPT ![clients[c].member] = @ - Owed(c)],
               UNCHANGED deposited, loggedIn' \subseteq loggedIn
        PROVE  AccountsOK'
    <2> DEFINE m == clients[c].member
               n == credit[m] - Owed(c)
    <2>1. m \in Members /\ n \in Int /\ n <= deposited[m]
      BY <1>3, <1>4, <1>6
    <2>2. credit' = [credit EXCEPT ![m] = n]
      BY <1>6
    <2>3. loggedIn' \subseteq Members
      BY <1>6 DEF AccountsOK
    <2> HIDE DEF m, n
    <2>4. QED
      BY <1>2, <1>6, <2>1, <2>2, <2>3
  <1>7. ASSUME NEW c \in Clients, HandleExit(c) PROVE AccountsOK'
    BY <1>1, <1>6, <1>7
       DEF HandleExit, ExitPostpaid, ExitMember, ExitIdle, money, auxiliary, AccountsOK
  <1>8. ASSUME NEW c \in Clients, HandleLogin(c) PROVE AccountsOK'
    BY <1>1, <1>4, <1>8 DEF HandleLogin, LoginUser, LoginMember, money, AccountsOK
  <1>9. ASSUME NEW c \in Clients, Thread(c) PROVE AccountsOK'
    BY <1>1, <1>5, <1>7, <1>8, <1>9
       DEF Thread, HandleOwed, HandleStatus, money, auxiliary, AccountsOK
  <1>10. ASSUME NEW c \in Clients, Employee(c) PROVE AccountsOK'
    <2>1. CASE EmployeeStop(c)
      BY <1>1, <1>6, <2>1
         DEF EmployeeStop, StopMember, StopPostpaid, StopIdle, money, auxiliary, AccountsOK
    <2>2. QED
      BY <1>1, <1>10, <2>1
         DEF Employee, EmployeeStart, EmployeePause, EmployeeUnstop, SetMember, SetTimeout,
             ToggleAllow, money, auxiliary, AccountsOK
  <1>11. CASE Counter
    <2>1. ASSUME NEW m \in Members, NEW amount \in Deposits, PayAccount(m, amount)
          PROVE  AccountsOK'
      <3>1. /\ amount \in Int /\ credit[m] + amount >= 0
            /\ credit' = [credit EXCEPT ![m] = @ + amount]
            /\ deposited' = [deposited EXCEPT ![m] = @ + amount] /\ loggedIn' = loggedIn
        BY <2>1, NumbersAssumption DEF PayAccount
      <3>2. credit[m] + amount \in Int /\ deposited[m] + amount \in Nat
            /\ credit[m] + amount <= deposited[m] + amount
        BY <1>3, <3>1
      <3>3. /\ credit' = [x \in Members |-> IF x = m THEN credit[m] + amount ELSE credit[x]]
            /\ deposited' = [x \in Members |-> IF x = m THEN deposited[m] + amount
                                               ELSE deposited[x]]
        BY <3>1 DEF AccountsOK
      <3>4. QED
        BY <1>3, <3>1, <3>2, <3>3 DEF AccountsOK
    <2>2. QED
      BY <1>1, <1>11, <2>1
         DEF Counter, Select, Cash, Cancel, Settled, ShowOther, money, auxiliary, AccountsOK
  <1>12. ASSUME NEW c \in Clients, Workstation(c) \/ Printed(c) PROVE AccountsOK'
    BY <1>1, <1>12
       DEF Workstation, CustomerLogin, Login, CustomerExit, Poll, Reconnect, Printed, money,
           auxiliary, AccountsOK
  <1>13. CASE Tick \/ UNCHANGED vars
    BY <1>1, <1>13 DEF Tick, vars, money, auxiliary, AccountsOK
  <1>14. QED
    BY <1>9, <1>10, <1>11, <1>12, <1>13 DEF Next

\* The cashing frame shows a row of the log.
LEMMA CashingNext == LogOK /\ CashingOK /\ [Next]_vars => CashingOK'
  <1> SUFFICES ASSUME LogOK, CashingOK, [Next]_vars PROVE CashingOK'
    OBVIOUS
  <1>1. ASSUME cashing' \in {cashing, NoSession} PROVE CashingOK'
    BY <1>1 DEF CashingOK
  <1>2. ASSUME NEW row \in log, Select(row) PROVE CashingOK'
    BY <1>2 DEF Select, CashingOK, LogOK, RowsOK, SessionRow
  <1>3. CASE Counter
    BY <1>1, <1>2, <1>3 DEF Counter, Cash, Cancel, Settled, ShowOther, PayAccount
  <1>4. ASSUME NEW c \in Clients, Workstation(c) \/ Thread(c) PROVE CashingOK'
    BY <1>1, <1>4
       DEF Workstation, CustomerLogin, Login, CustomerExit, Poll, Reconnect, Thread, Receive,
           HandleOwed, HandleStatus, HandleExit, HandleLogin
  <1>5. ASSUME NEW c \in Clients, Printed(c) \/ Employee(c) PROVE CashingOK'
    BY <1>1, <1>5
       DEF Printed, Employee, EmployeeStart, EmployeePause, EmployeeStop, EmployeeUnstop,
           Uncashed, SetMember, SetTimeout, ToggleAllow
  <1>6. CASE Tick \/ UNCHANGED vars
    BY <1>1, <1>6 DEF Tick, vars
  <1>7. QED
    BY <1>3, <1>4, <1>5, <1>6 DEF Next

\* The flags are those of this café's workstations and modes.
LEMMA FlagsNext == CashingOK /\ FlagsOK /\ [Next]_vars => FlagsOK'
  <1> SUFFICES ASSUME CashingOK, FlagsOK, [Next]_vars PROVE FlagsOK'
    OBVIOUS
  <1>1. ASSUME UNCHANGED logins, userstop' \subseteq Clients PROVE FlagsOK'
    BY <1>1 DEF FlagsOK, logins
  <1>2. ASSUME NEW c \in Clients, Block(c) \/ Unblock(c), userstop' \subseteq Clients
        PROVE  FlagsOK'
    BY <1>2 DEF FlagsOK, Block, Unblock
  <1>3. userstop \subseteq Clients
    BY DEF FlagsOK
  <1>4. ASSUME NEW c \in Clients, Workstation(c) PROVE FlagsOK'
    BY <1>1, <1>2, <1>3, <1>4
       DEF Workstation, CustomerLogin, Login, CustomerExit, Poll, Reconnect, records
  <1>5. ASSUME NEW c \in Clients, Thread(c) PROVE FlagsOK'
    <2>1. CASE HandleExit(c)
      BY <1>1, <1>2, <1>3, <2>1 DEF HandleExit, ExitPostpaid, ExitMember, ExitIdle
    <2>2. CASE HandleLogin(c)
      BY <1>1, <1>3, <2>2 DEF HandleLogin, records
    <2>3. QED
      BY <1>1, <1>3, <1>5, <2>1, <2>2 DEF Thread, Receive, HandleOwed, HandleStatus, records
  <1>6. ASSUME NEW c \in Clients, Employee(c) PROVE FlagsOK'
    <2>1. CASE EmployeeStop(c)
      BY <1>1, <1>2, <1>3, <2>1 DEF EmployeeStop, StopMember, StopPostpaid, StopIdle
    <2>2. ASSUME NEW mode \in Modes, ToggleAllow(c, mode) PROVE FlagsOK'
      BY <1>3, <2>2 DEF ToggleAllow, FlagsOK, records
    <2>3. QED
      BY <1>1, <1>3, <1>6, <2>1, <2>2
         DEF Employee, EmployeeStart, EmployeePause, EmployeeUnstop, SetMember, SetTimeout
  <1>7. CASE Counter
    <2>1. ASSUME NEW flag, Settled(flag) PROVE FlagsOK'
      <3>1. cashing.client \in Clients
        BY <2>1 DEF Settled, CashingOK
      <3>2. QED
        BY <1>2, <1>3, <2>1, <3>1 DEF Settled
    <2>2. QED
      BY <1>1, <1>3, <1>7, <2>1
         DEF Counter, Select, Cash, Cancel, ShowOther, PayAccount, records
  <1>8. ASSUME NEW c \in Clients, Printed(c) PROVE FlagsOK'
    BY <1>1, <1>3, <1>8 DEF Printed
  <1>9. CASE Tick \/ UNCHANGED vars
    BY <1>1, <1>3, <1>9 DEF Tick, vars, records
  <1>10. QED
    BY <1>4, <1>5, <1>6, <1>7, <1>8, <1>9 DEF Next

AppState == [active : BOOLEAN, locked : BOOLEAN, stime : Nat, timeout : Nat]

AppTyped == app \in [Clients -> AppState]

LEMMA TypedStep ==
  ASSUME AppTyped, NEW c \in Clients, NEW a \in AppState, app' = [app EXCEPT ![c] = a]
  PROVE  AppTyped'
  BY DEF AppTyped

\* What a typed client program keeps is the record of four fields.
LEMMA TypedIsRecord ==
  ASSUME AppTyped
  PROVE  /\ AppOK
         /\ \A c \in Clients : /\ app[c].active \in BOOLEAN /\ app[c].locked \in BOOLEAN
                               /\ app[c].stime \in Nat /\ app[c].timeout \in Nat
  <1>1. \A c \in Clients : app[c] \in AppState
    BY DEF AppTyped
  <1>2. \A a \in AppState : AppRecord(a)
    BY DEF AppState, AppRecord
  <1>3. app = [c \in Clients |-> app[c]]
    BY DEF AppTyped
  <1>4. \A a \in AppState : a.active \in BOOLEAN /\ a.locked \in BOOLEAN
                            /\ a.stime \in Nat /\ a.timeout \in Nat
    BY DEF AppState
  <1>5. QED
    BY <1>1, <1>2, <1>3, <1>4 DEF AppOK

\* The commands CS_STOP, CS_LOCKSCREEN, CS_START and those of updateClientStatus
LEMMA LockTyped ==
  ASSUME AppTyped, NEW c \in Clients,
         app' = AppStopped(c) \/ app' = [app EXCEPT ![c].locked = TRUE]
  PROVE  AppTyped'
  <1> DEFINE l == [active |-> app[c].active, locked |-> TRUE,
                   stime |-> app[c].stime, timeout |-> app[c].timeout]
             s == [active |-> FALSE, locked |-> TRUE,
                   stime |-> app[c].stime, timeout |-> app[c].timeout]
  <1>1. app' = [app EXCEPT ![c] = l] \/ app' = [app EXCEPT ![c] = s]
    BY LockApp, TypedIsRecord
  <1>2. l \in AppState /\ s \in AppState
    BY TypedIsRecord DEF AppState
  <1> HIDE DEF l, s
  <1>3. QED
    BY <1>1, <1>2, TypedStep

LEMMA StartTyped ==
  ASSUME AppTyped, NEW c \in Clients, NEW s \in Nat, NEW t \in Nat,
         app' = [app EXCEPT ![c] = [active |-> TRUE, locked |-> FALSE,
                                    stime |-> s, timeout |-> t]]
  PROVE  AppTyped'
  <1> DEFINE a == [active |-> TRUE, locked |-> FALSE, stime |-> s, timeout |-> t]
  <1>1. a \in AppState
    BY DEF AppState
  <1>2. app' = [app EXCEPT ![c] = a]
    OBVIOUS
  <1> HIDE DEF a
  <1>3. QED
    BY <1>1, <1>2, TypedStep

LEMMA UpdateTyped ==
  ASSUME AppTyped, now \in Nat, NEW c \in Clients, NEW r, Good(r, Members, now),
         app' = AppUpdated(c, r)
  PROVE  AppTyped'
  <1>1. CASE r.status = "ACTIVE"
    <2>1. TimeUsed(r, now) \in Nat /\ TimeUsed(r, now) <= now /\ r.timeout \in Nat
      BY UsedWithinSpan DEF Good, Record
    <2>2. now - TimeUsed(r, now) \in Nat
      BY <2>1
    <2>3. app' = [app EXCEPT ![c] = [active |-> TRUE, locked |-> FALSE,
                                     stime |-> now - TimeUsed(r, now), timeout |-> r.timeout]]
      BY <1>1 DEF AppUpdated
    <2>4. QED
      BY <2>1, <2>2, <2>3, StartTyped
  <1>2. CASE r.status # "ACTIVE"
    BY <1>2, LockTyped DEF AppUpdated
  <1>3. QED
    BY <1>1, <1>2

LEMMA AppNext == CafeInv /\ AppTyped /\ [Next]_vars => AppTyped'
  <1> SUFFICES ASSUME CafeInv, AppTyped, [Next]_vars PROVE AppTyped'
    OBVIOUS
  <1>1. ASSUME UNCHANGED app PROVE AppTyped'
    BY <1>1 DEF AppTyped
  <1>2. now \in Nat
    BY DEF CafeInv
  <1>3. \A c \in Clients : Good(clients[c], Members, now)
    BY CallsGood
  <1>4. ASSUME NEW c \in Clients, NEW m \in Members \cup {0}
        PROVE  /\ Good(LoginRecord(c, m), Members, now)
               /\ Good(MemberRecord(LoginRecord(c, m), m), Members, now)
    <2>1. Good(LoginRecord(c, m), Members, now)
      BY CallsGood DEF LoginRecord
    <2>2. QED
      BY <2>1, SetGood
  <1>5. ASSUME NEW c \in Clients, Workstation(c) PROVE AppTyped'
    <2>1. CASE CustomerExit(c)
      BY <2>1, LockTyped DEF CustomerExit
    <2>2. CASE Reconnect(c)
      BY <1>2, <1>3, <2>2, UpdateTyped DEF Reconnect
    <2>3. QED
      BY <1>1, <1>5, <2>1, <2>2 DEF Workstation, CustomerLogin, Login, Poll
  <1>6. ASSUME NEW c \in Clients, Thread(c) PROVE AppTyped'
    <2>1. CASE Receive(c)
      BY <1>1, <2>1, LockTyped DEF Receive, Settle
    <2>2. CASE HandleStatus(c)
      BY <1>2, <1>3, <2>2, UpdateTyped DEF HandleStatus
    <2>3. CASE HandleExit(c)
      BY <1>1, <2>3, LockTyped DEF HandleExit, ExitPostpaid, ExitMember, ExitIdle
    <2>4. CASE HandleLogin(c)
      <3> DEFINE m == handling[c].member
      <3>1. m \in Members \cup {0}
        BY DEF CafeInv, NetworkOK, Req
      <3> HIDE DEF m
      <3>2. CASE LoginUser(c)
        BY <1>2, <1>4, <3>2, UpdateTyped DEF LoginUser
      <3>3. CASE LoginMember(c, m)
        BY <1>2, <1>4, <3>1, <3>3, UpdateTyped DEF LoginMember
      <3>4. QED
        BY <1>1, <2>4, <3>2, <3>3 DEF HandleLogin, m
    <2>5. QED
      BY <1>1, <1>6, <2>1, <2>2, <2>3, <2>4 DEF Thread, HandleOwed
  <1>7. ASSUME NEW c \in Clients, Employee(c) PROVE AppTyped'
    <2>1. CASE EmployeeStart(c)
      BY <1>2, <2>1, StartTyped DEF EmployeeStart
    <2>2. CASE EmployeePause(c) \/ EmployeeStop(c)
      BY <2>2, LockTyped DEF EmployeePause, EmployeeStop
    <2>3. CASE EmployeeUnstop(c)
      <3> DEFINE t == now - TimeUsed(clients[c], now)
      <3>1. t \in Nat
        BY <1>2, <1>3, UsedWithinSpan DEF Good
      <3>2. app' = AppContinued(c, t)
        BY <2>3 DEF EmployeeUnstop, AppContinued
      <3> HIDE DEF t
      <3>3. PICK a : /\ AppRecord(a) /\ AppContinued(c, t) = [app EXCEPT ![c] = a]
                     /\ a.active /\ a.stime = t /\ a.timeout = app[c].timeout
        BY TypedIsRecord, ContinueApp
      <3>4. /\ a = [active |-> a.active, locked |-> a.locked,
                    stime |-> a.stime, timeout |-> a.timeout]
            /\ a.locked \in BOOLEAN /\ a.stime \in Nat /\ a.timeout \in Nat
        BY <3>1, <3>3, TypedIsRecord DEF AppRecord
      <3>5. \E yes : yes = TRUE /\ \A lk \in BOOLEAN, s \in Nat, u \in Nat :
              [active |-> yes, locked |-> lk, stime |-> s, timeout |-> u] \in AppState
        BY DEF AppState
      <3>6. a \in AppState
        BY <3>3, <3>4, <3>5
      <3>7. QED
        BY <3>2, <3>3, <3>6, TypedStep
    <2>4. ASSUME NEW t \in Timeouts, SetTimeout(c, t) PROVE AppTyped'
      <3> DEFINE a == [app[c] EXCEPT !.timeout = t]
      <3>1. t \in Nat
        BY NumbersAssumption
      <3>2. a \in AppState
        BY <3>1 DEF AppTyped, AppState
      <3>3. app' = [app EXCEPT ![c] = a]
        BY <2>4 DEF SetTimeout
      <3> HIDE DEF a
      <3>4. QED
        BY <3>2, <3>3, TypedStep
    <2>5. QED
      BY <1>1, <1>7, <2>1, <2>2, <2>3, <2>4 DEF Employee, SetMember, ToggleAllow
  <1>8. CASE Tick \/ Counter \/ UNCHANGED vars
    BY <1>1, <1>8
       DEF Tick, Counter, Select, Cash, Cancel, Settled, ShowOther, PayAccount, vars
  <1>9. ASSUME NEW c \in Clients, Printed(c) PROVE AppTyped'
    BY <1>1, <1>9 DEF Printed
  <1>10. QED
    BY <1>5, <1>6, <1>7, <1>8, <1>9 DEF Next

\* Everything the café's server and its client programs keep
CafeTypes ==
  CafeInv /\ LogOK /\ AccountsOK /\ FlagsOK /\ CashingOK /\ AppTyped

LEMMA InitTypes == Init => CafeTypes
  <1> SUFFICES ASSUME Init PROVE CafeTypes
    OBVIOUS
  <1>1. LogOK
    BY FS_EmptySet DEF Init, LogOK, RowsOK, IdsDiffer, UnpaidIsNobodys
  <1>2. AccountsOK /\ FlagsOK /\ CashingOK
    BY DEF Init, AccountsOK, FlagsOK, CashingOK
  <1>3. IdleApp \in AppState
    BY DEF IdleApp, AppState
  <1>4. AppTyped
    BY <1>3 DEF Init, AppTyped
  <1>5. QED
    BY <1>1, <1>2, <1>4, InitCafe DEF CafeTypes

LEMMA TypesInvariant == Spec => []CafeTypes
  <1>1. CafeTypes /\ [Next]_vars => CafeTypes'
    BY CafeNext, LogNext, AccountsNext, FlagsNext, CashingNext, AppNext DEF CafeTypes
  <1>2. QED
    BY <1>1, InitTypes, PTL DEF Spec

\* Every variable has its type, for every café: above all no price and no
\* number of minutes the server works with is negative.
THEOREM CafeTypesCorrect == Spec => []TypeOK
  <1>1. CafeTypes => TypeOK
    BY DEF CafeTypes, CafeInv, RecordsGood, LogOK, RowsOK, AccountsOK, FlagsOK, CashingOK,
           AppTyped, AppState, TypeOK
  <1>2. QED
    BY <1>1, TypesInvariant, PTL

-----------------------------------------------------------------------------
(* The flag MEMBER_LOGGEDIN.  Two accounts on one workstation break it: the *)
(* second login takes the record over and leaves the first account marked  *)
(* as logged in.  OneAccount says that this does not happen.               *)

OneAccount ==
  \A c \in Clients :
    handling[c].cmd = "login" /\ handling[c].member # 0 /\ clients[c].status = "ACTIVE"
    => clients[c].member \in {0, handling[c].member}

\* An account is attached to a workstation only while it is in use.
IdleUnattached == \A c \in Clients : clients[c].status # "ACTIVE" => clients[c].member = 0

\* The login of a member is refused while he is on another workstation.
OneHolder ==
  \A c, d \in Clients :
    clients[c].member = clients[d].member /\ clients[c].member \notin Tickets \cup {0}
    => c = d

LoginInv ==
  loggedIn \subseteq Members /\ LoggedInIsInUse /\ IdleUnattached /\ OneHolder

\* A step that concerns workstation c and leaves it in use if it was used on
\* an account
LEMMA KeepStep ==
  ASSUME LoginInv, NEW c \in Clients, UNCHANGED loggedIn,
         \A d \in Clients : d # c => clients'[d] = clients[d],
         clients'[c].member = clients[c].member,
         clients[c].member # 0 => clients'[c].status = "ACTIVE"
  PROVE  LoginInv'
  <1>1. IdleUnattached' /\ OneHolder'
    BY DEF LoginInv, IdleUnattached, OneHolder
  <1>2. \A m \in Members : m # 0
    BY AccountsAssumption
  <1>3. \A d \in Clients, m \in Members :
          (clients'[d].member = m /\ clients'[d].status = "ACTIVE")
          <=> (clients[d].member = m /\ clients[d].status = "ACTIVE")
    BY <1>2 DEF LoginInv, IdleUnattached
  <1>4. LoggedInIsInUse'
    BY <1>3 DEF LoginInv, LoggedInIsInUse
  <1>5. QED
    BY <1>1, <1>4 DEF LoginInv

\* The account leaves workstation c.
LEMMA LeaveStep ==
  ASSUME LoginInv, NEW c \in Clients, loggedIn' = loggedIn \ {clients[c].member},
         \A d \in Clients : d # c => clients'[d] = clients[d],
         clients'[c].member = 0
  PROVE  LoginInv'
  <1>1. IdleUnattached' /\ OneHolder'
    BY DEF LoginInv, IdleUnattached, OneHolder
  <1>2. \A m \in Members : m # 0
    BY AccountsAssumption
  <1>3. ASSUME NEW m \in Members \ Tickets
        PROVE  m \in loggedIn' <=> \E d \in Clients : /\ clients'[d].member = m
                                                    /\ clients'[d].status = "ACTIVE"
    <2>1. CASE clients[c].member = m
      <3>1. \A d \in Clients : clients'[d].member = m => d = c
        BY <1>2, <2>1 DEF LoginInv, OneHolder
      <3>2. QED
        BY <1>2, <2>1, <3>1
    <2>2. CASE clients[c].member # m
      BY <1>2, <2>2 DEF LoginInv, LoggedInIsInUse
    <2>3. QED
      BY <2>1, <2>2
  <1>4. QED
    BY <1>1, <1>3 DEF LoginInv, LoggedInIsInUse

\* Account m logs in at workstation c.
LEMMA EnterStep ==
  ASSUME LoginInv, NEW c \in Clients, NEW m \in Members, loggedIn' = loggedIn \cup {m},
         \A d \in Clients : d # c => clients'[d] = clients[d],
         clients'[c].member = m, clients'[c].status = "ACTIVE",
         m \in Tickets \/ m \notin loggedIn, clients[c].member \in {0, m}
  PROVE  LoginInv'
  <1>1. \A x \in Members : x # 0
    BY AccountsAssumption
  <1>2. IdleUnattached'
    BY DEF LoginInv, IdleUnattached
  <1>3. m \notin Tickets => \A d \in Clients : clients[d].member # m
    BY <1>1 DEF LoginInv, IdleUnattached, LoggedInIsInUse
  <1>4. OneHolder'
    BY <1>3 DEF LoginInv, OneHolder
  <1>5. ASSUME NEW x \in Members \ Tickets
        PROVE  x \in loggedIn' <=> \E d \in Clients : /\ clients'[d].member = x
                                                    /\ clients'[d].status = "ACTIVE"
    <2>1. CASE x # m
      BY <1>1, <2>1 DEF LoginInv, LoggedInIsInUse
    <2>2. QED
      BY <2>1
  <1>6. QED
    BY <1>2, <1>4, <1>5 DEF LoginInv, LoggedInIsInUse

\* What the calls make of the status of a record in use
LEMMA CallsInUse ==
  ASSUME NEW r \in Record(Members), NEW t \in Nat, NEW n
  PROVE  /\ StartRecord(r, t, n).status = "ACTIVE"
         /\ r.status = "ACTIVE" => UnpauseRecord(UnstopRecord(r, t)) = r
         /\ r.status = "ACTIVE" => UnstopRecord(r, t) = r
         /\ UnstopRecord(r, t) \in Record(Members)
            => UnpauseRecord(UnstopRecord(r, t)).member = r.member
  <1>1. StartRecord(r, t, n).status = "ACTIVE"
    BY StatusOf
  <1>2. /\ r.status = "ACTIVE" => UnstopRecord(r, t) = r
        /\ r.status = "ACTIVE" => UnpauseRecord(r) = r
    BY DEF UnstopRecord, UnpauseRecord
  <1>3. UnstopRecord(r, t) \in Record(Members)
        => UnpauseRecord(UnstopRecord(r, t)).member = UnstopRecord(r, t).member
    BY DEF UnpauseRecord, Record
  <1>4. UnstopRecord(r, t).member = r.member
    BY MemberOf
  <1>5. QED
    BY <1>1, <1>2, <1>3, <1>4

\* A start of a record without an account leaves it without one.
LEMMA StartMember ==
  ASSUME NEW r \in Record(Members), NEW t \in Nat, NEW n,
         r.status # "ACTIVE" => r.member = 0
  PROVE  StartRecord(r, t, n).member = r.member
  BY DEF StartRecord, ResetRecord, EmptyRecord, Record, Status

\* Without the commands that pause, stop or set a member by hand, every step
\* keeps the flag.
LEMMA LoginNext ==
  ASSUME Commands \cap {"pause", "stop", "member"} = {}, CafeInv, OneAccount, LoginInv,
         [Next]_vars
  PROVE  LoginInv'
  <1>1. \A c \in Clients : clients[c] \in Record(Members) /\ clients[c].status \in Status
    BY DEF CafeInv, RecordsGood, Record
  <1>2. now \in Nat /\ clients = [c \in Clients |-> clients[c]]
    BY DEF CafeInv, RecordsGood
  <1>3. \A c \in Clients : clients[c].status # "ACTIVE" => clients[c].member = 0
    BY DEF LoginInv, IdleUnattached
  <1>4. ASSUME UNCHANGED <<clients, loggedIn>> PROVE LoginInv'
    BY <1>4 DEF LoginInv, LoggedInIsInUse, IdleUnattached, OneHolder
  <1>5. ASSUME NEW c \in Clients, Thread(c) PROVE LoginInv'
    <2>1. CASE Receive(c)
      <3>1. CASE UsedUp(c)
        <4>1. /\ loggedIn' = loggedIn \ {clients[c].member}
              /\ \A d \in Clients : d # c => clients'[d] = clients[d]
              /\ clients'[c] = MemberRecord(StopRecord(clients[c], now), 0)
          BY <1>2, <2>1, <3>1 DEF Receive, Settle
        <4>2. StopRecord(clients[c], now) \in Record(Members)
          BY CallsGood DEF Good
        <4>3. clients'[c].member = 0
          BY <4>1, <4>2 DEF MemberRecord, Record
        <4>4. QED
          BY <4>1, <4>3, LeaveStep
      <3>2. QED
        BY <1>4, <2>1, <3>1 DEF Receive, money
    <2>2. CASE HandleOwed(c) \/ HandleStatus(c)
      BY <1>4, <2>2 DEF HandleOwed, HandleStatus, records, money
    <2>3. CASE HandleExit(c)
      <3>1. CASE ExitPostpaid(c)
        <4>1. /\ UNCHANGED loggedIn /\ clients[c].member = 0
              /\ \A d \in Clients : d # c => clients'[d] = clients[d]
              /\ clients'[c] = StopRecord(clients[c], now)
          BY <1>2, <3>1 DEF ExitPostpaid
        <4>2. StopRecord(clients[c], now).member = clients[c].member
          BY <1>1, <1>2, MemberOf
        <4>3. QED
          BY <4>1, <4>2, KeepStep
      <3>2. CASE ExitMember(c)
        <4>1. /\ loggedIn' = loggedIn \ {clients[c].member}
              /\ \A d \in Clients : d # c => clients'[d] = clients[d]
              /\ clients'[c] = MemberRecord(StopRecord(clients[c], now), 0)
          BY <1>2, <3>2 DEF ExitMember
        <4>2. StopRecord(clients[c], now) \in Record(Members)
          BY CallsGood DEF Good
        <4>3. clients'[c].member = 0
          BY <4>1, <4>2 DEF MemberRecord, Record
        <4>4. QED
          BY <4>1, <4>3, LeaveStep
      <3>3. CASE ExitIdle(c)
        <4>1. /\ UNCHANGED loggedIn /\ clients[c].member = 0 /\ clients'[c] = EmptyRecord
              /\ \A d \in Clients : d # c => clients'[d] = clients[d]
          BY <1>2, <1>3, <3>3 DEF ExitIdle, ResetRecord, money
        <4>2. EmptyRecord.member = 0
          BY DEF EmptyRecord
        <4>3. QED
          BY <4>1, <4>2, KeepStep
      <3>4. QED
        BY <2>3, <3>1, <3>2, <3>3 DEF HandleExit
    <2>4. CASE HandleLogin(c)
      <3> DEFINE m == handling[c].member
      <3>1. m \in Members \cup {0} /\ handling[c].cmd = "login"
        BY <2>4 DEF CafeInv, NetworkOK, Req, HandleLogin
      <3>2. CASE LoginUser(c)
        <4>1. /\ UNCHANGED loggedIn
              /\ clients'[c] = StartRecord(clients[c], now, sessions + 1)
              /\ \A d \in Clients : d # c => clients'[d] = clients[d]
          BY <1>2, <3>2 DEF LoginUser, LoginRecord, money
        <4>2. /\ StartRecord(clients[c], now, sessions + 1).status = "ACTIVE"
              /\ StartRecord(clients[c], now, sessions + 1).member = clients[c].member
          BY <1>1, <1>2, <1>3, CallsInUse, StartMember
        <4>3. QED
          BY <4>1, <4>2, KeepStep
      <3>3. CASE m # 0 /\ LoginMember(c, m)
        <4>1. /\ loggedIn' = loggedIn \cup {m} /\ (m \in Tickets \/ m \notin loggedIn)
              /\ clients'[c] = MemberRecord(LoginRecord(c, m), m)
              /\ \A d \in Clients : d # c => clients'[d] = clients[d]
          BY <1>2, <3>3 DEF LoginMember, MayLogin
        <4>2. clients[c].member \in {0, m}
          BY <1>3, <3>1, <3>3 DEF OneAccount
        <4>3. LoginRecord(c, m) \in Record(Members) /\ LoginRecord(c, m).status = "ACTIVE"
          <5>1. CASE m # 0 /\ c \in userstop /\ clients[c].member = m
            BY <1>1, <1>2, <1>3, <5>1, CallsInUse DEF LoginRecord
          <5>2. CASE ~(m # 0 /\ c \in userstop /\ clients[c].member = m)
            <6>1. LoginRecord(c, m) = StartRecord(clients[c], now, sessions + 1)
              BY <5>2 DEF LoginRecord
            <6>2. QED
              BY <1>1, <1>2, <6>1, CallsInUse, CallsGood DEF Good
          <5>3. QED
            BY <5>1, <5>2
        <4>4. clients'[c].member = m /\ clients'[c].status = "ACTIVE"
          BY <4>1, <4>3 DEF MemberRecord, Record
        <4> HIDE DEF m
        <4>5. QED
          BY <3>1, <3>3, <4>1, <4>2, <4>4, EnterStep
      <3>4. QED
        BY <1>4, <2>4, <3>2, <3>3 DEF HandleLogin, records, money
    <2>5. QED
      BY <1>5, <2>1, <2>2, <2>3, <2>4 DEF Thread
  <1>6. ASSUME NEW c \in Clients, Employee(c) PROVE LoginInv'
    <2>1. CASE EmployeeStart(c)
      <3>1. /\ UNCHANGED loggedIn
            /\ clients'[c] = StartRecord(clients[c], now, sessions + 1)
            /\ \A d \in Clients : d # c => clients'[d] = clients[d]
        BY <1>2, <2>1 DEF EmployeeStart, money
      <3>2. /\ StartRecord(clients[c], now, sessions + 1).status = "ACTIVE"
            /\ StartRecord(clients[c], now, sessions + 1).member = clients[c].member
        BY <1>1, <1>2, <1>3, CallsInUse, StartMember
      <3>3. QED
        BY <3>1, <3>2, KeepStep
    <2>2. CASE EmployeeUnstop(c)
      <3>1. /\ UNCHANGED loggedIn
            /\ clients'[c] = UnpauseRecord(UnstopRecord(clients[c], now))
            /\ \A d \in Clients : d # c => clients'[d] = clients[d]
        BY <1>2, <2>2 DEF EmployeeUnstop
      <3>2. /\ clients'[c].member = clients[c].member
            /\ clients[c].member # 0 => clients'[c].status = "ACTIVE"
        BY <1>1, <1>2, <1>3, <3>1, CallsInUse, CallsGood DEF Good
      <3>3. QED
        BY <3>1, <3>2, KeepStep
    <2>3. ASSUME NEW t \in Timeouts, SetTimeout(c, t) PROVE LoginInv'
      <3>1. /\ UNCHANGED loggedIn /\ clients'[c] = TimeoutRecord(clients[c], t)
            /\ \A d \in Clients : d # c => clients'[d] = clients[d]
        BY <1>2, <2>3 DEF SetTimeout, money
      <3>2. /\ TimeoutRecord(clients[c], t).member = clients[c].member
            /\ TimeoutRecord(clients[c], t).status = clients[c].status
        BY <1>1, <1>2, StatusOf, MemberOf
      <3>3. QED
        BY <1>3, <3>1, <3>2, KeepStep
    <2>4. ASSUME NEW mode, ToggleAllow(c, mode) PROVE LoginInv'
      BY <1>4, <2>4 DEF ToggleAllow, records, money
    <2>5. ~EmployeePause(c) /\ ~EmployeeStop(c) /\ \A m : ~SetMember(c, m)
      BY <1>6 DEF EmployeePause, EmployeeStop, SetMember
    <2>6. QED
      BY <1>6, <2>1, <2>2, <2>3, <2>4, <2>5 DEF Employee
  <1>7. ASSUME NEW c \in Clients, Printed(c) PROVE LoginInv'
    <2> DEFINE u == UnstopRecord(clients[c], now)
    <2>1. u \in Record(Members) /\ u.member = clients[c].member
      BY <1>1, <1>2, CallsGood, MemberOf DEF Good
    <2> HIDE DEF u
    <2>2. StopRecord(u, now).member = clients[c].member
      BY <1>2, <2>1, MemberOf
    <2>3. /\ clients'[c] = StopRecord(u, now) /\ clients[c].status = "INACTIVE"
          /\ \A d \in Clients : d # c => clients'[d] = clients[d]
          /\ UNCHANGED loggedIn
      BY <1>2, <1>7 DEF Printed, u
    <2>4. QED
      BY <1>3, <2>2, <2>3, KeepStep
  <1>8. ASSUME NEW c \in Clients, Workstation(c) PROVE LoginInv'
    BY <1>4, <1>8
       DEF Workstation, CustomerLogin, Login, CustomerExit, Poll, Reconnect, records, money
  <1>9. CASE Tick \/ Counter \/ UNCHANGED vars
    BY <1>4, <1>9
       DEF Tick, Counter, Select, Cash, Cancel, Settled, ShowOther, PayAccount, records,
           money, vars
  <1>10. QED
    BY <1>5, <1>6, <1>7, <1>8, <1>9 DEF Next

\* The flag that onEventCallback asks before a member logs in says exactly who
\* is at a workstation, as long as no employee suspends or ends a session or
\* sets a member by hand (ID_PAUSE, ID_STOP, setClientMember: none of them
\* touches the flag), and no second account logs in at a workstation in use.
THEOREM FlagSaysWhoIsIn ==
  ASSUME Commands \cap {"pause", "stop", "member"} = {}
  PROVE  Spec /\ []OneAccount => []LoggedInIsInUse
  <1>1. Init => LoginInv
    <2>1. ASSUME Init PROVE LoginInv
      <3>1. \A c \in Clients : clients[c].member = 0 /\ clients[c].status = "INACTIVE"
        BY <2>1 DEF Init, EmptyRecord
      <3>2. QED
        BY <2>1, <3>1, AccountsAssumption
           DEF Init, LoginInv, LoggedInIsInUse, IdleUnattached, OneHolder
    <2>2. QED
      BY <2>1
  <1>2. CafeInv /\ OneAccount /\ LoginInv /\ [Next]_vars => LoginInv'
    BY LoginNext
  <1>3. LoginInv => LoggedInIsInUse
    BY DEF LoginInv
  <1>4. QED
    BY <1>1, <1>2, <1>3, CafeInvariant, PTL DEF Spec

-----------------------------------------------------------------------------
(* The books balance.  An account is charged when it leaves a workstation, *)
(* and the row that says so gets the price as a guint: the price must not   *)
(* be negative.  So nobody who is attached to a workstation may be          *)
(* overdrawn, and that holds because he is attached to one only, which the  *)
(* flag ensures for members, and nothing for tickets.                       *)

\* A prepaid ticket is used at one workstation at a time.
TicketsNotShared ==
  \A c, d \in Clients :
    clients[c].member = clients[d].member /\ clients[c].member \in Tickets => c = d

HolderIsIn ==
  \A c \in Clients : clients[c].member \notin Tickets \cup {0} => clients[c].member \in loggedIn

Solvent == \A c \in Clients : clients[c].member # 0 => credit[clients[c].member] >= 0

WithinBounds == now <= MaxTime /\ \A m \in Members : deposited[m] <= MaxCredit

BooksInv == IdleUnattached /\ OneHolder /\ HolderIsIn /\ Solvent /\ BooksBalance

RowsOf(rows, m) == {row \in rows : row.payer = m}

\* What an account was charged is a number, the same while its rows are.
LEMMA ChargedTyped ==
  ASSUME LogOK, NEW m
  PROVE  /\ Charged(m) \in Nat
         /\ RowsOf(log', m) = RowsOf(log, m) => Charged(m)' = Charged(m)
  <1> DEFINE f == [row \in RowsOf(log, m) |-> row.price]
  <1>1. IsFiniteSet(RowsOf(log, m)) /\ \A row \in RowsOf(log, m) : f[row] \in Nat
    BY FS_Subset DEF LogOK, RowsOK, SessionRow, RowsOf
  <1>2. Charged(m) = SumFunctionOnSet(f, RowsOf(log, m))
    BY DEF Charged, SumFunction, RowsOf
  <1> HIDE DEF f
  <1>3. Charged(m) \in Nat
    BY <1>1, <1>2, SumTyped
  <1>4. QED
    BY <1>3 DEF Charged, RowsOf

\* One row more
LEMMA ChargedMore ==
  ASSUME LogOK, NEW row \in SessionRow, row \notin log, log' = log \cup {row}
  PROVE  /\ Charged(row.payer)' = Charged(row.payer) + row.price
         /\ \A m : m # row.payer => Charged(m)' = Charged(m)
  <1> DEFINE m == row.payer
             S == RowsOf(log, m)
             T == S \cup {row}
             f == [x \in S |-> x.price]
             e == [x \in T |-> x.price]
  <1>1. \A n : n # m => RowsOf(log', n) = RowsOf(log, n)
    BY DEF RowsOf
  <1>2. RowsOf(log', m) = T
    BY DEF RowsOf
  <1>3. /\ IsFiniteSet(S) /\ row \notin S
        /\ \A x \in T : e[x] \in Int
        /\ \A x \in S : f[x] = e[x]
        /\ e[row] = row.price
    BY FS_Subset DEF LogOK, RowsOK, SessionRow, RowsOf
  <1>4. /\ Charged(m) = SumFunctionOnSet(f, S)
        /\ Charged(m)' = SumFunctionOnSet(e, T)
    BY <1>2 DEF Charged, SumFunction, RowsOf
  <1> HIDE DEF f, e, S
  <1>5. SumFunctionOnSet(e, T) = SumFunctionOnSet(e, S) + e[row]
    BY <1>3, SumWith
  <1>6. SumFunctionOnSet(f, S) = SumFunctionOnSet(e, S)
    BY <1>3, SumSame
  <1>7. QED
    BY <1>1, <1>3, <1>4, <1>5, <1>6, ChargedTyped

\* The four kinds of steps.  Nothing of an account changes, and everybody stays
\* where he is;
Keeps ==
  /\ UNCHANGED <<credit, deposited, loggedIn>>
  /\ \A m \in Members : RowsOf(log', m) = RowsOf(log, m)
  /\ \A d \in Clients : /\ clients'[d].member = clients[d].member
                        /\ clients[d].member # 0 => clients'[d].status = "ACTIVE"

\* somebody pays into an account, or takes out of it;
Pays ==
  /\ UNCHANGED <<clients, loggedIn, log>>
  /\ \E m \in Members, amount \in Deposits :
       /\ credit[m] + amount >= 0
       /\ credit' = [credit EXCEPT ![m] = @ + amount]
       /\ deposited' = [deposited EXCEPT ![m] = @ + amount]

\* account m is charged with a price, and leaves workstation c;
Leaves(c, m, row) ==
  /\ m \in Members /\ clients[c].member = m /\ clients'[c].member = 0
  /\ \A d \in Clients : d # c => clients'[d] = clients[d]
  /\ loggedIn' = loggedIn \ {m}
  /\ row \in SessionRow \ log /\ row.payer = m /\ row.price \in 0..(UInts - 1)
  /\ log' = log \cup {row}
  /\ credit' = [credit EXCEPT ![m] = @ - row.price]
  /\ UNCHANGED deposited

\* account m logs in at workstation c.
Enters(c, m) ==
  /\ m \in Members /\ clients'[c].member = m /\ clients'[c].status = "ACTIVE"
  /\ \A d \in Clients : d # c => clients'[d] = clients[d]
  /\ loggedIn' = loggedIn \cup {m}
  /\ m \notin Tickets => m \notin loggedIn
  /\ credit[m] >= 0
  /\ UNCHANGED <<credit, deposited, log>>

LEMMA KeepsBooks ==
  ASSUME LogOK, AccountsOK, BooksInv, Keeps
  PROVE  BooksInv'
  <1>1. IdleUnattached' /\ OneHolder' /\ HolderIsIn' /\ Solvent'
    BY DEF BooksInv, Keeps, IdleUnattached, OneHolder, HolderIsIn, Solvent
  <1>2. \A m \in Members : Charged(m)' = Charged(m)
    BY ChargedTyped DEF Keeps
  <1>3. BooksBalance'
    BY <1>2 DEF BooksInv, Keeps, BooksBalance
  <1>4. QED
    BY <1>1, <1>3 DEF BooksInv

LEMMA PaysBooks ==
  ASSUME LogOK, AccountsOK, BooksInv, Pays, CafeInv
  PROVE  BooksInv'
  <1>1. PICK m \in Members, amount \in Deposits :
          /\ amount \in Int /\ credit[m] + amount >= 0
          /\ credit' = [credit EXCEPT ![m] = @ + amount]
          /\ deposited' = [deposited EXCEPT ![m] = @ + amount]
    BY NumbersAssumption DEF Pays
  <1>2. \A x \in Members :
          /\ credit'[x] = IF x = m THEN credit[x] + amount ELSE credit[x]
          /\ deposited'[x] = IF x = m THEN deposited[x] + amount ELSE deposited[x]
          /\ credit[x] \in Int /\ deposited[x] \in Nat
          /\ Charged(x) \in Nat /\ Charged(x)' = Charged(x)
    BY <1>1, ChargedTyped DEF AccountsOK, Pays
  <1>3. BooksBalance'
    <2>1. ASSUME NEW x \in Members PROVE deposited'[x] = credit'[x] + Charged(x)'
      <3>1. deposited[x] = credit[x] + Charged(x)
        BY DEF BooksInv, BooksBalance
      <3>2. QED
        BY <1>1, <1>2, <3>1
    <2>2. QED
      BY <2>1 DEF BooksBalance
  <1>4. \A c \in Clients : clients[c].member \in Members \cup {0}
    BY DEF CafeInv, RecordsGood, Record
  <1>5. Solvent'
    <2>1. ASSUME NEW c \in Clients, clients[c].member # 0
          PROVE  credit'[clients[c].member] >= 0
      <3>1. clients[c].member \in Members /\ credit[clients[c].member] >= 0
        BY <1>4, <2>1 DEF BooksInv, Solvent
      <3>2. QED
        BY <1>1, <1>2, <3>1
    <2>2. QED
      BY <2>1 DEF Solvent, Pays
  <1>6. IdleUnattached' /\ OneHolder' /\ HolderIsIn'
    BY DEF BooksInv, Pays, IdleUnattached, OneHolder, HolderIsIn
  <1>7. QED
    BY <1>3, <1>5, <1>6 DEF BooksInv

LEMMA LeavesBooks ==
  ASSUME LogOK, AccountsOK, BooksInv, TicketsNotShared, CafeInv,
         NEW c \in Clients, NEW m, NEW row, Leaves(c, m, row)
  PROVE  BooksInv'
  <1>1. m \in Members /\ m # 0 /\ clients[c].member = m /\ clients'[c].member = 0
    BY AccountsAssumption DEF Leaves
  <1>2. \A d \in Clients : clients[d].member = m => d = c
    BY <1>1 DEF BooksInv, OneHolder, TicketsNotShared
  <1>3. \A d \in Clients : d # c => clients'[d] = clients[d] /\ clients'[d].member # m
    BY <1>2 DEF Leaves
  <1>4. row \in SessionRow /\ row \notin log /\ log' = log \cup {row} /\ row.payer = m
        /\ row.price \in Nat
    BY DEF Leaves, SessionRow
  <1>5. \A x \in Members :
          /\ credit'[x] = IF x = m THEN credit[x] - row.price ELSE credit[x]
          /\ credit[x] \in Int /\ deposited[x] \in Nat /\ deposited'[x] = deposited[x]
    BY DEF AccountsOK, Leaves
  <1>6. \A x \in Members :
          /\ Charged(x) \in Nat
          /\ Charged(x)' = IF x = m THEN Charged(x) + row.price ELSE Charged(x)
    BY <1>4, ChargedTyped, ChargedMore
  <1>7. BooksBalance'
    <2>1. ASSUME NEW x \in Members PROVE deposited'[x] = credit'[x] + Charged(x)'
      <3>1. deposited[x] = credit[x] + Charged(x)
        BY DEF BooksInv, BooksBalance
      <3>2. QED
        BY <1>4, <1>5, <1>6, <3>1
    <2>2. QED
      BY <2>1 DEF BooksBalance
  <1>8. \A d \in Clients : clients[d].member \in Members \cup {0}
    BY DEF CafeInv, RecordsGood, Record
  <1>9. Solvent'
    BY <1>1, <1>3, <1>5, <1>8 DEF BooksInv, Solvent
  <1>10. HolderIsIn'
    BY <1>1, <1>3 DEF BooksInv, HolderIsIn, Leaves
  <1>11. IdleUnattached' /\ OneHolder'
    BY <1>1, <1>3 DEF BooksInv, IdleUnattached, OneHolder
  <1>12. QED
    BY <1>7, <1>9, <1>10, <1>11 DEF BooksInv

LEMMA EntersBooks ==
  ASSUME LogOK, AccountsOK, BooksInv, NEW c \in Clients, NEW m, Enters(c, m)
  PROVE  BooksInv'
  <1>1. m \in Members /\ m # 0 /\ clients'[c].member = m /\ clients'[c].status = "ACTIVE"
    BY AccountsAssumption DEF Enters
  <1>2. \A d \in Clients : d # c => clients'[d] = clients[d]
    BY DEF Enters
  <1>3. m \notin Tickets => \A d \in Clients : clients[d].member # m
    BY <1>1 DEF BooksInv, HolderIsIn, Enters
  <1>4. IdleUnattached' /\ OneHolder'
    BY <1>1, <1>2, <1>3 DEF BooksInv, IdleUnattached, OneHolder
  <1>5. HolderIsIn' /\ Solvent'
    BY <1>1, <1>2 DEF BooksInv, HolderIsIn, Solvent, Enters
  <1>6. RowsOf(log', m) = RowsOf(log, m) /\ \A x \in Members : Charged(x)' = Charged(x)
    BY ChargedTyped DEF Enters
  <1>7. BooksBalance'
    BY <1>6 DEF BooksInv, BooksBalance, Enters
  <1>8. QED
    BY <1>4, <1>5, <1>7 DEF BooksInv

\* A row that no account paid for changes no account's rows: a session logged
\* as unpaid,
LEMMA UnpaidRows ==
  ASSUME NEW m \in Members, NEW rows, NEW c, NEW r, NEW price, NEW flag
  PROVE  RowsOf(LoggedAfter(rows, c, r, price, flag, 0), m) = RowsOf(rows, m)
  <1> DEFINE row == NewRow(rows, c, r, price, flag, 0)
  <1>1. LoggedAfter(rows, c, r, price, flag, 0) \in {rows, rows \cup {row}}
    BY DEF LoggedAfter, NewRow
  <1>2. row.payer # m
    BY AccountsAssumption DEF NewRow
  <1> HIDE DEF row
  <1>3. QED
    BY <1>1, <1>2 DEF RowsOf

\* one that goes on,
LEMMA ReopenedRows ==
  ASSUME LogOK, NEW m \in Members, NEW id,
         \E row \in log : row.id = id /\ row.flag = "NOTPAID"
  PROVE  RowsOf({row \in log : row.id # id}, m) = RowsOf(log, m)
  <1>1. \A row \in log : row.id = id => row.payer = 0
    BY DEF LogOK, RowsOK, IdsDiffer, UnpaidIsNobodys
  <1>2. QED
    BY <1>1, AccountsAssumption DEF RowsOf

\* and one that is settled.
SettledLog(id, price, flag) ==
  {IF row.id = id THEN [row EXCEPT !.price = price, !.flag = flag] ELSE row : row \in log}

LEMMA SettledRows ==
  ASSUME LogOK, NEW m \in Members, NEW id, NEW price, NEW flag,
         \E row \in log : row.id = id /\ row.flag = "NOTPAID"
  PROVE  RowsOf(SettledLog(id, price, flag), m) = RowsOf(log, m)
  <1> DEFINE rows == SettledLog(id, price, flag)
             f == [row \in log |->
                     IF row.id = id THEN [row EXCEPT !.price = price, !.flag = flag] ELSE row]
  <1>1. \A row \in log : row.id = id => row.payer = 0
    BY DEF LogOK, RowsOK, IdsDiffer, UnpaidIsNobodys
  <1>2. rows = {f[row] : row \in log}
    BY DEF SettledLog
  <1>3. ASSUME NEW row \in log, row.id = id PROVE f[row].payer = 0
    <2>1. row \in SessionRow /\ row.payer = 0
      BY <1>1, <1>3 DEF LogOK, RowsOK
    <2>2. [row EXCEPT !.price = price, !.flag = flag].payer = 0
      BY <2>1 DEF SessionRow
    <2>3. QED
      BY <1>3, <2>2
  <1>4. \A row \in log : row.id # id => f[row] = row
    OBVIOUS
  <1> HIDE DEF f, rows
  <1>5. m # 0
    BY AccountsAssumption
  <1>6. \A row \in RowsOf(rows, m) : row \in RowsOf(log, m)
    BY <1>2, <1>3, <1>4, <1>5 DEF RowsOf
  <1>7. \A row \in RowsOf(log, m) : row \in RowsOf(rows, m)
    BY <1>1, <1>2, <1>4, <1>5 DEF RowsOf
  <1>8. RowsOf(rows, m) = RowsOf(log, m)
    BY <1>6, <1>7
  <1>9. QED
    BY <1>8 DEF rows

\* A step that concerns workstation c and leaves who is there
LEMMA KeepsAt ==
  ASSUME BooksInv, NEW c \in Clients, UNCHANGED <<credit, deposited, loggedIn>>,
         \A m \in Members : RowsOf(log', m) = RowsOf(log, m),
         \A d \in Clients : d # c => clients'[d] = clients[d],
         clients'[c].member = clients[c].member,
         clients[c].member # 0 => clients'[c].status = "ACTIVE"
  PROVE  Keeps
  BY DEF BooksInv, IdleUnattached, Keeps

\* The record of a stopped session, its account taken off it, is logged.
LEMMA StoppedIsLogged ==
  ASSUME CafeInv, NEW c \in Clients, clients[c].status = "ACTIVE"
  PROVE  /\ StopRecord(clients[c], now) \in Record(Members)
         /\ MemberRecord(StopRecord(clients[c], now), 0) \in Record(Members)
         /\ MemberRecord(StopRecord(clients[c], now), 0).member = 0
         /\ StopRecord(clients[c], now).status = "INACTIVE"
         /\ MemberRecord(StopRecord(clients[c], now), 0).status = "INACTIVE"
  <1> DEFINE r == StopRecord(clients[c], now)
  <1>1. /\ clients[c] \in Record(Members) /\ WellFormed(clients[c], now)
        /\ Good(r, Members, now)
    BY CallsGood DEF CafeInv, RecordsGood
  <1>2. HasSession(clients[c])
    BY <1>1 DEF WellFormed, UsedHasIntervals
  <1>3. r.status = "INACTIVE"
    BY <1>1, <1>2 DEF StopRecord, Record
  <1>4. Good(MemberRecord(r, 0), Members, now)
    BY <1>1, SetGood
  <1> HIDE DEF r
  <1>5. MemberRecord(r, 0).status = "INACTIVE" /\ MemberRecord(r, 0).member = 0
    BY <1>1, <1>3 DEF MemberRecord, Record, Good
  <1>6. QED
    BY <1>1, <1>3, <1>4, <1>5 DEF r, Good

\* What a charged account leaves behind in the log: the price as it is, when it
\* is a guint.
LEMMA ChargeLeaves ==
  ASSUME LogOK, NEW c \in Clients, NEW r \in Record(Members), r.status = "INACTIVE",
         NEW price \in 0..(UInts - 1), NEW m \in Members,
         clients[c].member = m, clients'[c].member = 0,
         \A d \in Clients : d # c => clients'[d] = clients[d],
         loggedIn' = loggedIn \ {m}, UNCHANGED deposited,
         log' = LoggedAfter(log, c, r, price, "PAID", m),
         credit' = [credit EXCEPT ![m] = @ - price]
  PROVE  \E row : Leaves(c, m, row)
  <1> DEFINE row == NewRow(log, c, r, price, "PAID", m)
  <1>1. row \in SessionRow \ log
    BY LoggedTyped DEF LogOK
  <1>2. Unsigned(price) = price
    BY NumbersAssumption DEF Unsigned
  <1>3. row.payer = m /\ row.price = price
    BY <1>2 DEF NewRow
  <1>4. log' = log \cup {row}
    BY DEF LoggedAfter, NewRow
  <1> HIDE DEF row
  <1>5. Leaves(c, m, row)
    BY <1>1, <1>3, <1>4 DEF Leaves
  <1>6. QED
    BY <1>5

\* Every step is of one of the four kinds.
LEMMA StepKinds ==
  ASSUME Commands \cap {"pause", "stop", "unstop", "member"} = {},
         MaxTime < UInts, MaxCredit < UInts,
         CafeInv, LogOK, AccountsOK, CashInv, BooksInv, WithinBounds, [Next]_vars
  PROVE  \/ Keeps \/ Pays
         \/ \E c \in Clients : \E m, row : Leaves(c, m, row)
         \/ \E c \in Clients : \E m : Enters(c, m)
  <1> DEFINE Goal == \/ Keeps \/ Pays
                     \/ \E c \in Clients : \E m, row : Leaves(c, m, row)
                     \/ \E c \in Clients : \E m : Enters(c, m)
  <1>1. \A c \in Clients :
          /\ clients[c] \in Record(Members) /\ clients[c].status \in Status
          /\ clients[c].member \in Members \cup {0}
          /\ clients[c].status # "ACTIVE" => clients[c].member = 0
    BY DEF CafeInv, RecordsGood, Record, BooksInv, IdleUnattached
  <1>2. now \in Nat /\ clients = [c \in Clients |-> clients[c]]
    BY DEF CafeInv, RecordsGood
  <1>3. ASSUME UNCHANGED <<clients, credit, deposited, loggedIn>>,
               \A m \in Members : RowsOf(log', m) = RowsOf(log, m)
        PROVE  Goal
    BY <1>1, <1>3 DEF Keeps
  <1>4. \A m : log' = log => RowsOf(log', m) = RowsOf(log, m)
    OBVIOUS
  <1>5. UNCHANGED <<clients, money, deposited>> => Goal
    BY <1>3 DEF money
  <1>6. \A c \in Clients : Owed(c) \in 0..(UInts - 1)
    <2>1. UInts \in Nat /\ MaxTime \in Nat
      BY NumbersAssumption
    <2>2. QED
      BY <1>2, <2>1, OwedTyped DEF WithinBounds
  <1>7. \A m \in Members : credit[m] \in Int /\ credit[m] < UInts
    <2>1. UInts \in Nat /\ MaxCredit \in Nat
      BY NumbersAssumption
    <2>2. QED
      BY <2>1 DEF AccountsOK, WithinBounds
  <1>8. ASSUME NEW c \in Clients, Receive(c) PROVE Goal
    <2>1. CASE UsedUp(c)
      <3> DEFINE m == clients[c].member
                 r == MemberRecord(StopRecord(clients[c], now), 0)
                 price == credit[m]
      <3>1. m \in Members /\ clients[c].status = "ACTIVE"
        BY <1>1, <2>1 DEF UsedUp
      <3>2. price \in 0..(UInts - 1)
        <4>1. price >= 0
          BY <2>1 DEF UsedUp, BooksInv, Solvent
        <4>2. price \in Int /\ price < UInts /\ UInts \in Nat
          BY <1>7, <3>1, NumbersAssumption
        <4> HIDE DEF price
        <4>3. QED
          BY <4>1, <4>2
      <3>3. r \in Record(Members) /\ r.status = "INACTIVE" /\ r.member = 0
        BY <3>1, StoppedIsLogged
      <3>4. /\ clients' = [clients EXCEPT ![c] = r]
            /\ log' = LoggedAfter(log, c, r, price, "PAID", m)
            /\ credit' = [credit EXCEPT ![m] = 0]
            /\ loggedIn' = loggedIn \ {m} /\ UNCHANGED deposited
        BY <1>8, <2>1 DEF Receive, Settle, Logged, auxiliary
      <3>5. credit' = [credit EXCEPT ![m] = @ - price]
        <4>1. credit[m] - price = 0
          BY <1>7, <3>1
        <4>2. QED
          BY <3>4, <4>1
      <3>6. clients'[c].member = 0 /\ \A d \in Clients : d # c => clients'[d] = clients[d]
        BY <1>2, <3>3, <3>4
      <3>7. clients[c].member = m
        OBVIOUS
      <3> HIDE DEF m, r, price
      <3>8. \E row : Leaves(c, m, row)
        BY <3>1, <3>2, <3>3, <3>4, <3>5, <3>6, <3>7, ChargeLeaves
      <3>9. QED
        BY <3>8
    <2>2. QED
      BY <1>5, <1>8, <2>1 DEF Receive, auxiliary
  <1>9. ASSUME NEW c \in Clients, HandleExit(c) PROVE Goal
    <2>1. UNCHANGED deposited
      BY <1>9 DEF HandleExit, auxiliary
    <2>2. CASE ExitPostpaid(c)
      <3>1. /\ UNCHANGED <<credit, loggedIn>> /\ clients[c].member = 0
            /\ log' = LoggedAfter(log, c, StopRecord(clients[c], now), Owed(c), "NOTPAID", 0)
            /\ clients'[c] = StopRecord(clients[c], now)
            /\ \A d \in Clients : d # c => clients'[d] = clients[d]
        BY <1>2, <2>2 DEF ExitPostpaid, Logged
      <3>2. clients'[c].member = clients[c].member
        BY <1>1, <1>2, <3>1, MemberOf
      <3>3. \A m \in Members : RowsOf(log', m) = RowsOf(log, m)
        BY <3>1, UnpaidRows
      <3>4. QED
        BY <2>1, <3>1, <3>2, <3>3, KeepsAt
    <2>3. CASE ExitMember(c)
      <3> DEFINE m == clients[c].member
                 r == StopRecord(clients[c], now)
                 price == Owed(c)
      <3>1. m \in Members /\ clients[c].status = "ACTIVE" /\ price \in 0..(UInts - 1)
        BY <1>1, <1>6, <2>3 DEF ExitMember
      <3>2. /\ r \in Record(Members) /\ r.status = "INACTIVE"
            /\ MemberRecord(r, 0).member = 0
        BY <3>1, StoppedIsLogged
      <3>3. /\ clients' = [clients EXCEPT ![c] = MemberRecord(r, 0)]
            /\ log' = LoggedAfter(log, c, r, price, "PAID", m)
            /\ credit' = [credit EXCEPT ![m] = @ - price]
            /\ loggedIn' = loggedIn \ {m}
        BY <2>3 DEF ExitMember, Logged
      <3>4. clients'[c].member = 0 /\ \A d \in Clients : d # c => clients'[d] = clients[d]
        BY <1>2, <3>2, <3>3
      <3>5. clients[c].member = m
        OBVIOUS
      <3> HIDE DEF m, r, price
      <3>6. \E row : Leaves(c, m, row)
        BY <2>1, <3>1, <3>2, <3>3, <3>4, <3>5, ChargeLeaves
      <3>7. QED
        BY <3>6
    <2>4. CASE ExitIdle(c)
      <3>1. /\ UNCHANGED <<credit, loggedIn, log>> /\ clients[c].member = 0
            /\ clients'[c] = EmptyRecord
            /\ \A d \in Clients : d # c => clients'[d] = clients[d]
        BY <1>1, <1>2, <2>4 DEF ExitIdle, ResetRecord, money
      <3>2. clients'[c].member = clients[c].member
        BY <3>1 DEF EmptyRecord
      <3>3. QED
        BY <1>4, <2>1, <3>1, <3>2, KeepsAt
    <2>5. QED
      BY <1>9, <2>2, <2>3, <2>4 DEF HandleExit
  <1>10. ASSUME NEW c \in Clients, UNCHANGED <<credit, deposited, loggedIn, log>>,
                clients'[c] = StartRecord(clients[c], now, sessions + 1),
                \A d \in Clients : d # c => clients'[d] = clients[d]
         PROVE  Goal
    <2>1. clients'[c].member = clients[c].member /\ clients'[c].status = "ACTIVE"
      BY <1>1, <1>2, <1>10, CallsInUse, StartMember
    <2>2. QED
      BY <1>4, <1>10, <2>1, KeepsAt
  <1>11. ASSUME NEW c \in Clients, HandleLogin(c) PROVE Goal
    <2> DEFINE m == handling[c].member
    <2>1. m \in Members \cup {0} /\ UNCHANGED deposited
      BY <1>11 DEF CafeInv, NetworkOK, Req, HandleLogin
    <2>2. CASE LoginUser(c)
      <3>1. /\ UNCHANGED <<credit, loggedIn, log>>
            /\ clients'[c] = StartRecord(clients[c], now, sessions + 1)
            /\ \A d \in Clients : d # c => clients'[d] = clients[d]
        BY <1>2, <2>2 DEF LoginUser, LoginRecord, money
      <3>2. QED
        BY <1>10, <2>1, <3>1
    <2>3. CASE m # 0 /\ LoginMember(c, m)
      <3>1. ~(c \in userstop /\ clients[c].member = m)
        BY <2>3 DEF CashInv, LeftUnattached
      <3>2. LoginRecord(c, m) = StartRecord(clients[c], now, sessions + 1)
        BY <3>1 DEF LoginRecord
      <3>3. /\ loggedIn' = loggedIn \cup {m} /\ (m \in Tickets \/ m \notin loggedIn)
            /\ credit[m] > MinCredit /\ UNCHANGED <<log, credit>>
            /\ clients'[c] = MemberRecord(LoginRecord(c, m), m)
            /\ \A d \in Clients : d # c => clients'[d] = clients[d]
        BY <1>2, <2>3, <3>1 DEF LoginMember, MayLogin
      <3>4. LoginRecord(c, m) \in Record(Members) /\ LoginRecord(c, m).status = "ACTIVE"
        BY <1>1, <1>2, <3>2, CallsInUse, CallsGood DEF Good
      <3>5. clients'[c].member = m /\ clients'[c].status = "ACTIVE"
        BY <3>3, <3>4 DEF MemberRecord, Record
      <3>6. credit[m] >= 0 /\ m \in Members
        BY <1>7, <2>1, <2>3, <3>3, NumbersAssumption
      <3> HIDE DEF m
      <3>7. Enters(c, m)
        BY <2>1, <3>3, <3>5, <3>6 DEF Enters
      <3>8. QED
        BY <3>7
    <2>4. QED
      BY <1>5, <1>11, <2>1, <2>2, <2>3 DEF HandleLogin, records
  <1>12. ASSUME NEW c \in Clients, Thread(c) PROVE Goal
    BY <1>5, <1>8, <1>9, <1>11, <1>12
       DEF Thread, HandleOwed, HandleStatus, records, auxiliary
  <1>13. ASSUME NEW c \in Clients, Employee(c) PROVE Goal
    <2>1. CASE EmployeeStart(c)
      <3>1. /\ UNCHANGED <<credit, deposited, loggedIn, log>>
            /\ clients'[c] = StartRecord(clients[c], now, sessions + 1)
            /\ \A d \in Clients : d # c => clients'[d] = clients[d]
        BY <1>2, <2>1 DEF EmployeeStart, money
      <3>2. QED
        BY <1>10, <3>1
    <2>2. ASSUME NEW t \in Timeouts, SetTimeout(c, t) PROVE Goal
      <3>1. /\ UNCHANGED <<credit, deposited, loggedIn, log>>
            /\ clients'[c] = TimeoutRecord(clients[c], t)
            /\ \A d \in Clients : d # c => clients'[d] = clients[d]
        BY <1>2, <2>2 DEF SetTimeout, money, auxiliary
      <3>2. /\ TimeoutRecord(clients[c], t).member = clients[c].member
            /\ TimeoutRecord(clients[c], t).status = clients[c].status
        BY <1>1, <1>2, StatusOf, MemberOf
      <3>3. QED
        BY <1>1, <1>4, <3>1, <3>2, KeepsAt
    <2>3. ASSUME NEW mode, ToggleAllow(c, mode) PROVE Goal
      BY <1>5, <2>3 DEF ToggleAllow, records, auxiliary
    <2>4. ~EmployeePause(c) /\ ~EmployeeStop(c) /\ ~EmployeeUnstop(c) /\ \A m : ~SetMember(c, m)
      BY DEF EmployeePause, EmployeeStop, EmployeeUnstop, SetMember
    <2>5. QED
      BY <1>13, <2>1, <2>2, <2>3, <2>4 DEF Employee
  <1>14. ASSUME NEW c \in Clients, Printed(c) PROVE Goal
    <2> DEFINE u == UnstopRecord(clients[c], now)
               rows == {row \in log : row.id # RowOf(c, clients[c])}
    <2>1. u \in Record(Members) /\ u.member = clients[c].member
      BY <1>1, <1>2, CallsGood, MemberOf DEF Good
    <2>2. /\ clients'[c] = StopRecord(u, now) /\ clients[c].status = "INACTIVE"
          /\ \A d \in Clients : d # c => clients'[d] = clients[d]
          /\ UNCHANGED <<credit, loggedIn, deposited>>
      BY <1>2, <1>14 DEF Printed, auxiliary
    <2>3. \A m \in Members : RowsOf(rows, m) = RowsOf(log, m)
      BY <1>14, ReopenedRows DEF Printed
    <2>4. Unlogged(c, clients[c]) \in {log, rows}
      BY DEF Unlogged
    <2>5. log' = LoggedAfter(Unlogged(c, clients[c]), c, StopRecord(u, now),
                             TimeUsed(StopRecord(u, now), now), "NOTPAID", 0)
      BY <1>14 DEF Printed
    <2> HIDE DEF u, rows
    <2>6. \A m \in Members : RowsOf(log', m) = RowsOf(log, m)
      BY <2>3, <2>4, <2>5, UnpaidRows
    <2>7. StopRecord(u, now).member = clients[c].member
      BY <1>2, <2>1, MemberOf
    <2>8. QED
      BY <1>1, <2>2, <2>6, <2>7, KeepsAt
  <1>15. ASSUME NEW c \in Clients, Workstation(c) PROVE Goal
    BY <1>5, <1>15
       DEF Workstation, CustomerLogin, Login, CustomerExit, Poll, Reconnect, records,
           auxiliary
  <1>16. CASE Counter
    <2>1. ASSUME NEW m \in Members, NEW amount \in Deposits, PayAccount(m, amount) PROVE Goal
      <3>1. Pays
        BY <2>1 DEF PayAccount, Pays, records
      <3>2. QED
        BY <3>1
    <2>2. ASSUME NEW flag, Settled(flag) PROVE Goal
      <3>1. \E row \in log : row.id = cashing.row /\ row.flag = "NOTPAID"
        BY <2>2 DEF Settled, CashInv, CashingShowsUnpaid
      <3>2. \A m \in Members : RowsOf(log', m) = RowsOf(log, m)
        <4>1. log' = SettledLog(cashing.row, cashing.price, flag)
          BY <2>2 DEF Settled, SettledLog
        <4>2. QED
          BY <3>1, <4>1, SettledRows
      <3>3. UNCHANGED <<clients, credit, deposited, loggedIn>>
        BY <2>2 DEF Settled, auxiliary
      <3>4. QED
        BY <1>3, <3>2, <3>3
    <2>3. CASE ShowOther \/ \E row \in log : Select(row)
      BY <1>5, <2>3 DEF ShowOther, Select, records, auxiliary
    <2>4. QED
      BY <1>16, <2>1, <2>2, <2>3 DEF Counter, Cash, Cancel
  <1>17. CASE Tick \/ UNCHANGED vars
    BY <1>5, <1>17 DEF Tick, vars, records, auxiliary
  <1>18. QED
    BY <1>12, <1>13, <1>14, <1>15, <1>16, <1>17 DEF Next

\* The model's bounds hold: Tick and PayAccount ask for them.
LEMMA BoundsNext == CafeInv /\ AccountsOK /\ WithinBounds /\ [Next]_vars => WithinBounds'
  <1> SUFFICES ASSUME CafeInv, AccountsOK, WithinBounds, [Next]_vars PROVE WithinBounds'
    OBVIOUS
  <1>1. UNCHANGED now \/ (now < MaxTime /\ now' = now + 1)
    BY WhichSteps DEF Tick
  <1>2. now' <= MaxTime
    <2>1. now \in Nat /\ MaxTime \in Nat /\ now <= MaxTime
      BY NumbersAssumption DEF CafeInv, WithinBounds
    <2>2. QED
      BY <1>1, <2>1
  <1>3. \/ UNCHANGED deposited
        \/ \E m \in Members, amount \in Deposits :
             /\ deposited[m] + amount <= MaxCredit
             /\ deposited' = [deposited EXCEPT ![m] = @ + amount]
    BY WhichSteps DEF PayAccount
  <1>4. \A m \in Members : deposited'[m] <= MaxCredit
    BY <1>3 DEF AccountsOK, WithinBounds
  <1>5. QED
    BY <1>2, <1>4 DEF WithinBounds

LEMMA InitBounds == ASSUME Init, 0 < MaxTime PROVE WithinBounds
  <1>1. MaxTime \in Nat /\ MaxCredit \in Nat
    BY NumbersAssumption
  <1>2. QED
    BY <1>1 DEF Init, WithinBounds

LEMMA InitBooks == ASSUME Init, 0 < MaxTime PROVE BooksInv /\ WithinBounds
  <1>1. \A c \in Clients : clients[c].member = 0 /\ clients[c].status = "INACTIVE"
    BY DEF Init, EmptyRecord
  <1>2. IdleUnattached /\ OneHolder /\ HolderIsIn /\ Solvent
    BY <1>1 DEF IdleUnattached, OneHolder, HolderIsIn, Solvent
  <1>3. ASSUME NEW m \in Members PROVE deposited[m] = credit[m] + Charged(m)
    <2> DEFINE f == [row \in {r \in log : r.payer = m} |-> row.price]
    <2>1. DOMAIN f = {}
      BY DEF Init
    <2>2. Charged(m) = SumFunctionOnSet(f, DOMAIN f)
      BY DEF Charged, SumFunction
    <2> HIDE DEF f
    <2>3. Charged(m) = 0
      BY <2>1, <2>2, SumOfNone
    <2>4. deposited[m] = 0 /\ credit[m] = 0
      BY DEF Init
    <2>5. QED
      BY <2>3, <2>4
  <1>4. WithinBounds
    BY InitBounds
  <1>5. QED
    BY <1>2, <1>3, <1>4 DEF BooksInv, BooksBalance

LEMMA BooksInvariant ==
  ASSUME Commands \cap {"pause", "stop", "unstop", "member"} = {},
         0 < MaxTime, MaxTime < UInts, MaxCredit < UInts
  PROVE  Spec /\ []TicketsNotShared => [](BooksInv /\ WithinBounds /\ CashInv)
  <1>1. Init => BooksInv /\ WithinBounds
    BY InitBooks
  <1>2. Init => CashInv
    BY DEF Init, CashInv, LeftUnattached, CashingShowsUnpaid
  <1>3. CafeInv /\ CashInv /\ [Next]_vars => CashInv'
    BY CashNext, UnattachedNext DEF CashInv
  <1>4. CafeTypes => CafeInv /\ LogOK /\ AccountsOK
    BY DEF CafeTypes
  <1>5. CafeInv /\ LogOK /\ AccountsOK /\ CashInv /\ BooksInv /\ WithinBounds
        /\ TicketsNotShared /\ [Next]_vars => BooksInv' /\ WithinBounds'
    BY StepKinds, KeepsBooks, PaysBooks, LeavesBooks, EntersBooks, BoundsNext
  <1>6. QED
    BY <1>1, <1>2, <1>3, <1>4, <1>5, TypesInvariant, PTL DEF Spec

\* What was paid into an account is its credit and the prices of the sessions
\* that were paid from it (CCL_credit_set beside CCL_log_session, in the two ways
\* onEventCallback charges an account), however the requests of the workstations,
\* the sessions started by hand, the print server and the counter interleave: as
\* long as amounts and times fit into a guint, the employees do not suspend, end
\* or take up a session or set a member by hand, and no ticket is used at two
\* workstations at once.  Each of the last two conditions is needed.
THEOREM BooksAreKept ==
  ASSUME Commands \cap {"pause", "stop", "unstop", "member"} = {},
         0 < MaxTime, MaxTime < UInts, MaxCredit < UInts
  PROVE  Spec /\ []TicketsNotShared => []BooksBalance
  <1>1. BooksInv => BooksBalance
    BY DEF BooksInv
  <1>2. QED
    BY <1>1, BooksInvariant, PTL

\* Each of the four kinds of steps is one of Accounts, or none.
LEMMA StepPromised ==
  ASSUME Keeps \/ Pays \/ (\E c \in Clients : \E m, row : Leaves(c, m, row))
         \/ (\E c \in Clients : \E m : Enters(c, m)),
         CafeInv, LogOK, AccountsOK, BooksInv
  PROVE  [Accounts!Next]_(Accounts!vars)
  <1>1. ASSUME \A m \in Members : RowsOf(log', m) = RowsOf(log, m) PROVE Bills' = Bills
    <2>1. \A m \in Members : Charged(m)' = Charged(m)
      BY <1>1, ChargedTyped
    <2>2. QED
      BY <2>1 DEF Bills
  <1>2. CASE Keeps \/ \E c \in Clients : \E m : Enters(c, m)
    <2>1. UNCHANGED <<credit, deposited>> /\ \A m \in Members : RowsOf(log', m) = RowsOf(log, m)
      BY <1>2 DEF Keeps, Enters, RowsOf
    <2>2. QED
      BY <1>1, <2>1 DEF Accounts!vars
  <1>3. CASE Pays
    <2>1. PICK m \in Members, amount \in Deposits :
            /\ credit[m] + amount >= 0
            /\ credit' = [credit EXCEPT ![m] = @ + amount]
            /\ deposited' = [deposited EXCEPT ![m] = @ + amount]
      BY <1>3 DEF Pays
    <2>2. Bills' = Bills
      BY <1>1, <1>3 DEF Pays, RowsOf
    <2>3. Accounts!Pay(m, amount)
      BY <2>1, <2>2 DEF Accounts!Pay
    <2>4. QED
      BY <2>3 DEF Accounts!Next
  <1>4. ASSUME NEW c \in Clients, NEW m, NEW row, Leaves(c, m, row)
        PROVE  Accounts!Next
    <2>1. /\ m \in Members /\ row.payer = m /\ row.price \in 0..(UInts - 1)
          /\ credit' = [credit EXCEPT ![m] = @ - row.price] /\ UNCHANGED deposited
          /\ row \in SessionRow /\ row \notin log /\ log' = log \cup {row}
      BY <1>4 DEF Leaves
    <2>2. credit[m] >= 0
      BY <1>4, <2>1, AccountsAssumption DEF Leaves, BooksInv, Solvent
    <2>3. /\ Charged(m)' = Charged(m) + row.price
          /\ \A x \in Members : x # m => Charged(x)' = Charged(x)
      BY <2>1, ChargedMore
    <2>4. Bills' = [Bills EXCEPT ![m] = @ + row.price]
      BY <2>1, <2>3 DEF Bills
    <2>5. Accounts!Charge(m, row.price)
      BY <2>1, <2>2, <2>4 DEF Accounts!Charge
    <2>6. QED
      BY <2>1, <2>5 DEF Accounts!Next
  <1>5. QED
    BY <1>2, <1>3, <1>4

\* Under the conditions under which the books balance, the café keeps what Accounts
\* promises the owners of the accounts: credit goes only to pay for a session that
\* is put on record with its price (CCL_credit_set beside CCL_log_session), no
\* session is charged to an account that is overdrawn, and no payment back makes
\* one so (CCL_pay_account).
THEOREM BillingImplementsAccounts ==
  ASSUME Commands \cap {"pause", "stop", "unstop", "member"} = {},
         0 < MaxTime, MaxTime < UInts, MaxCredit < UInts
  PROVE  Spec /\ []TicketsNotShared => ImplementsAccounts
  <1>1. Init => Accounts!Init
    <2>1. ASSUME Init PROVE \A m \in Members : Charged(m) = 0
      <3>1. BooksInv
        BY <2>1, InitBooks
      <3>2. \A m \in Members : Charged(m) \in Nat
        BY <2>1, InitTypes, ChargedTyped DEF CafeTypes
      <3>3. QED
        BY <2>1, <3>1, <3>2 DEF Init, BooksInv, BooksBalance
    <2>2. QED
      BY <2>1 DEF Init, Accounts!Init, Bills
  <1>2. CafeTypes => CafeInv /\ LogOK /\ AccountsOK
    BY DEF CafeTypes
  <1>3. CafeInv /\ LogOK /\ AccountsOK /\ BooksInv /\ WithinBounds /\ CashInv /\ [Next]_vars
        => [Accounts!Next]_(Accounts!vars)
    BY StepKinds, StepPromised
  <1>4. QED
    BY <1>1, <1>2, <1>3, BooksInvariant, TypesInvariant, PTL
       DEF Spec, ImplementsAccounts, Accounts!Spec

-----------------------------------------------------------------------------
(* Nobody is charged twice, and nothing that was charged for is lost.  The *)
(* rows of the log are found by workstation and times.  Two sessions of a   *)
(* workstation follow each other, so rows that span some time have         *)
(* different times; a row with a price spans the time it was charged for.  *)
(* So the row found for a stopped session that has a price is its own.      *)
(* (These definitions take the records cl, the rows, the number of          *)
(* sessions n and the time t as arguments: a print job takes up a session   *)
(* and stops it again in one step.)                                         *)

Spans(x) == x.stime < x.etime

\* The workstations' sessions are different, and no session has a number yet
\* to be given.
SessionsDiffer(cl, n) ==
  /\ \A c \in Clients : cl[c].session <= n /\ (HasSession(cl[c]) <=> cl[c].session # 0)
  /\ \A c, d \in Clients : cl[c].session = cl[d].session /\ HasSession(cl[c]) => c = d

\* A row is about a session of its workstation.
RowsKnown(cl, rows, n, t) ==
  \A x \in rows : /\ 0 < x.session /\ x.session <= n /\ 0 < x.stime /\ x.etime <= t
                  /\ x.price > 0 => Spans(x)
                  /\ \A c \in Clients : cl[c].session = x.session => c = x.client

\* The session of a row was over when the next one started.
RowsInOrder(cl, rows) ==
  \A x \in rows : HasSession(cl[x.client]) /\ x.session # cl[x.client].session
                  => x.etime <= STime(cl[x.client])

\* The row of the session that a workstation shows has its times.
RowsInLine(cl, rows, t) ==
  \A x \in rows :
    Spans(x) /\ x.session = cl[x.client].session =>
      /\ cl[x.client].status = "INACTIVE"
      /\ x.stime = STime(cl[x.client]) /\ x.etime = ETime(cl[x.client])
      /\ x.price <= TimeUsed(cl[x.client], t)

OneRow(rows) ==
  \A x, y \in rows : Spans(x) /\ Spans(y) /\ x.session = y.session => x = y

Typed(cl, rows, n, t) ==
  /\ cl \in [Clients -> Record(Members)] /\ rows \subseteq SessionRow
  /\ n \in Nat /\ t \in Nat /\ t > 0

Once(cl, rows, n, t) ==
  /\ Typed(cl, rows, n, t)
  /\ SessionsDiffer(cl, n) /\ RowsKnown(cl, rows, n, t)
  /\ RowsInOrder(cl, rows) /\ RowsInLine(cl, rows, t) /\ OneRow(rows)

\* The workstations other than c
Others(cl, dl, c) ==
  /\ dl \in [Clients -> Record(Members)]
  /\ \A d \in Clients : d # c => dl[d] = cl[d]

NoRow(rows, s) == \A x \in rows : Spans(x) => x.session # s

LEMMA FewerOnce ==
  ASSUME NEW cl, NEW rows, NEW n, NEW t, Once(cl, rows, n, t), NEW some, some \subseteq rows
  PROVE  Once(cl, some, n, t)
  BY DEF Once, Typed, RowsKnown, RowsInOrder, RowsInLine, OneRow

\* The record of c changes, not its session.
LEMMA SameOnce ==
  ASSUME NEW cl, NEW rows, NEW n, NEW t, Once(cl, rows, n, t),
         NEW dl, NEW c \in Clients, Others(cl, dl, c), SameSession(dl[c], cl[c])
  PROVE  Once(dl, rows, n, t)
  <1>1. \A d \in Clients :
          /\ dl[d].session = cl[d].session /\ dl[d].status = cl[d].status
          /\ HasSession(dl[d]) <=> HasSession(cl[d])
          /\ STime(dl[d]) = STime(cl[d]) /\ ETime(dl[d]) = ETime(cl[d])
          /\ TimeUsed(dl[d], t) = TimeUsed(cl[d], t)
    BY DEF Others, SameSession, HasSession, STime, ETime, TimeUsed
  <1>2. \A x \in rows : x.client \in Clients
    BY DEF Once, Typed, SessionRow
  <1>3. Typed(dl, rows, n, t)
    BY DEF Once, Typed, Others
  <1>4. SessionsDiffer(dl, n) /\ RowsKnown(dl, rows, n, t)
    BY <1>1 DEF Once, SessionsDiffer, RowsKnown
  <1>5. RowsInOrder(dl, rows) /\ RowsInLine(dl, rows, t)
    BY <1>1, <1>2 DEF Once, RowsInOrder, RowsInLine
  <1>6. QED
    BY <1>3, <1>4, <1>5 DEF Once

\* The session of c goes on.
LEMMA GoesOnOnce ==
  ASSUME NEW cl, NEW rows, NEW n, NEW t, Once(cl, rows, n, t),
         NEW dl, NEW c \in Clients, Others(cl, dl, c), GoesOn(dl[c], cl[c]),
         NoRow(rows, cl[c].session)
  PROVE  Once(dl, rows, n, t)
  <1>1. \A d \in Clients :
          /\ dl[d].session = cl[d].session
          /\ HasSession(dl[d]) <=> HasSession(cl[d])
          /\ STime(dl[d]) = STime(cl[d])
    BY DEF Others, GoesOn
  <1>2. \A x \in rows : x.client \in Clients
    BY DEF Once, Typed, SessionRow
  <1>3. Typed(dl, rows, n, t)
    BY DEF Once, Typed, Others
  <1>4. SessionsDiffer(dl, n) /\ RowsKnown(dl, rows, n, t)
    BY <1>1 DEF Once, SessionsDiffer, RowsKnown
  <1>5. RowsInOrder(dl, rows)
    BY <1>1, <1>2 DEF Once, RowsInOrder
  <1>6. RowsInLine(dl, rows, t)
    <2>1. ASSUME NEW x \in rows, Spans(x), x.session = dl[x.client].session
          PROVE  x.client # c
      BY <1>1, <2>1 DEF NoRow
    <2>2. \A d \in Clients : d # c => dl[d] = cl[d]
      BY DEF Others
    <2>3. QED
      BY <1>1, <1>2, <2>1, <2>2 DEF Once, RowsInLine
  <1>7. QED
    BY <1>3, <1>4, <1>5, <1>6 DEF Once

\* The record of c is reset.
LEMMA ResetOnce ==
  ASSUME NEW cl, NEW rows, NEW n, NEW t, Once(cl, rows, n, t),
         NEW dl, NEW c \in Clients, Others(cl, dl, c), dl[c] = EmptyRecord
  PROVE  Once(dl, rows, n, t)
  <1>1. dl[c].session = 0 /\ ~HasSession(dl[c])
    BY DEF EmptyRecord, HasSession
  <1>2. \A d \in Clients : d # c => dl[d] = cl[d]
    BY DEF Others
  <1>3. \A x \in rows : x.client \in Clients /\ x.session # 0
    BY DEF Once, Typed, SessionRow, RowsKnown
  <1>4. Typed(dl, rows, n, t) /\ n \in Nat
    BY DEF Once, Typed, Others
  <1>5. SessionsDiffer(dl, n)
    BY <1>1, <1>2, <1>4 DEF Once, SessionsDiffer
  <1>6. RowsKnown(dl, rows, n, t)
    BY <1>1, <1>2, <1>3 DEF Once, RowsKnown
  <1>7. RowsInOrder(dl, rows) /\ RowsInLine(dl, rows, t)
    BY <1>1, <1>2, <1>3 DEF Once, RowsInOrder, RowsInLine
  <1>8. QED
    BY <1>4, <1>5, <1>6, <1>7 DEF Once

\* A new session starts at c.
LEMMA FreshOnce ==
  ASSUME NEW cl, NEW rows, NEW n, NEW t, Once(cl, rows, n, t),
         NEW dl, NEW c \in Clients, Others(cl, dl, c),
         dl[c].session = n + 1, HasSession(dl[c]), STime(dl[c]) = t
  PROVE  Once(dl, rows, n + 1, t)
  <1>1. \A d \in Clients : d # c => dl[d] = cl[d]
    BY DEF Others
  <1>2. \A x \in rows : /\ x.client \in Clients /\ x.session \in Nat /\ x.session # 0
                        /\ x.session <= n /\ x.etime <= t
    BY DEF Once, Typed, SessionRow, RowsKnown
  <1>3. Typed(dl, rows, n + 1, t) /\ n \in Nat
    BY DEF Once, Typed, Others
  <1>4. \A d \in Clients : cl[d].session \in Nat /\ cl[d].session <= n
    BY DEF Once, Typed, Record, SessionsDiffer
  <1>5. SessionsDiffer(dl, n + 1)
    <2>1. \A d \in Clients : dl[d].session <= n + 1 /\ (HasSession(dl[d]) <=> dl[d].session # 0)
      BY <1>1, <1>3, <1>4 DEF Once, SessionsDiffer
    <2>2. \A d \in Clients : d # c => dl[d].session # dl[c].session
      BY <1>1, <1>3, <1>4
    <2>3. \A d, e \in Clients : dl[d].session = dl[e].session /\ HasSession(dl[d]) => d = e
      BY <1>1, <2>2 DEF Once, SessionsDiffer
    <2>4. QED
      BY <2>1, <2>3 DEF SessionsDiffer
  <1>6. RowsKnown(dl, rows, n + 1, t)
    <2>1. \A x \in rows : x.session <= n + 1 /\ x.session # dl[c].session
      BY <1>2, <1>3
    <2>2. QED
      BY <1>1, <2>1 DEF Once, RowsKnown
  <1>7. RowsInOrder(dl, rows)
    BY <1>1, <1>2 DEF Once, RowsInOrder
  <1>8. RowsInLine(dl, rows, t)
    <2>1. \A x \in rows : x.session # dl[c].session
      BY <1>2, <1>3
    <2>2. QED
      BY <1>1, <1>2, <2>1 DEF Once, RowsInLine
  <1>9. QED
    BY <1>3, <1>5, <1>6, <1>7, <1>8 DEF Once

\* The session of c ends, and a row is written about it.
LEMMA StopOnce ==
  ASSUME NEW cl, NEW rows, NEW n, NEW t, Once(cl, rows, n, t),
         NEW dl, NEW c \in Clients, Others(cl, dl, c), NoRow(rows, cl[c].session),
         HasSession(cl[c]), dl[c].session = cl[c].session, dl[c].status = "INACTIVE",
         HasSession(dl[c]), STime(dl[c]) = STime(cl[c]), ETime(dl[c]) = t,
         WellFormed(dl[c], t),
         NEW row \in SessionRow, row.client = c, row.session = cl[c].session,
         row.stime = STime(dl[c]), row.etime = t, row.price <= TimeUsed(dl[c], t)
  PROVE  Once(dl, rows \cup {row}, n, t)
  <1> DEFINE all == rows \cup {row}
  <1>1. \A d \in Clients :
          /\ dl[d].session = cl[d].session
          /\ HasSession(dl[d]) <=> HasSession(cl[d])
          /\ STime(dl[d]) = STime(cl[d])
    BY DEF Others
  <1>2. \A d \in Clients : d # c => dl[d] = cl[d]
    BY DEF Others
  <1>3. \A x \in rows : x.client \in Clients
    BY DEF Once, Typed, SessionRow
  <1>4. Typed(dl, all, n, t) /\ t \in Nat
    BY DEF Once, Typed, Others
  <1>5. SessionsDiffer(dl, n)
    BY <1>1 DEF Once, SessionsDiffer
  <1>6. row.price > 0 => Spans(row)
    <2>1. dl[c] \in Record(Members)
      BY DEF Others
    <2>2. TimeUsed(dl[c], t) \in Nat /\ TimeUsed(dl[c], t) <= t - STime(dl[c])
      BY <1>4, <2>1, UsedWithinSpan
    <2>3. row.price \in Nat /\ row.stime \in Nat
      BY DEF SessionRow
    <2>4. QED
      BY <1>4, <2>2, <2>3 DEF Spans
  <1>7. RowsKnown(dl, all, n, t)
    <2>1. 0 < row.session /\ row.session <= n /\ row.etime <= t
      BY <1>4 DEF Once, SessionsDiffer, SessionRow
    <2>5. 0 < row.stime
      <3>1. dl[c] \in Record(Members)
        BY DEF Others
      <3>2. Len(dl[c].intervals) \in Nat /\ Len(dl[c].intervals) > 0
            /\ Head(dl[c].intervals) = dl[c].intervals[1]
        BY <3>1, IntervalsTyped DEF HasSession
      <3>3. 0 < dl[c].intervals[1].stime
        BY <3>2 DEF WellFormed, IntervalsInOrder
      <3>4. QED
        BY <3>2, <3>3 DEF STime
    <2>2. \A d \in Clients : dl[d].session = row.session => d = row.client
      BY <1>1 DEF Once, SessionsDiffer
    <2>3. \A x \in rows : /\ 0 < x.session /\ x.session <= n /\ 0 < x.stime /\ x.etime <= t
                          /\ x.price > 0 => Spans(x)
                          /\ \A d \in Clients : dl[d].session = x.session => d = x.client
      BY <1>1 DEF Once, RowsKnown
    <2>4. QED
      BY <1>6, <2>1, <2>2, <2>3, <2>5 DEF RowsKnown
  <1>8. RowsInOrder(dl, all)
    BY <1>1, <1>3 DEF Once, RowsInOrder
  <1>9. RowsInLine(dl, all, t)
    <2>1. \A x \in rows : Spans(x) /\ x.session = dl[x.client].session => x.client # c
      BY <1>1 DEF NoRow
    <2>2. \A x \in rows : Spans(x) /\ x.session = dl[x.client].session =>
            /\ dl[x.client].status = "INACTIVE"
            /\ x.stime = STime(dl[x.client]) /\ x.etime = ETime(dl[x.client])
            /\ x.price <= TimeUsed(dl[x.client], t)
      BY <1>2, <1>3, <2>1 DEF Once, RowsInLine
    <2>3. QED
      BY <2>2 DEF RowsInLine
  <1>10. OneRow(all)
    BY DEF Once, OneRow, NoRow
  <1>11. QED
    BY <1>4, <1>5, <1>7, <1>8, <1>9, <1>10 DEF Once

\* A minute later
LEMMA LaterOnce ==
  ASSUME NEW cl, NEW rows, NEW n, NEW t, Once(cl, rows, n, t),
         \A c \in Clients : WellFormed(cl[c], t)
  PROVE  Once(cl, rows, n, t + 1)
  <1>1. Typed(cl, rows, n, t + 1) /\ t \in Nat
    BY DEF Once, Typed
  <1>2. \A c \in Clients : TimeUsed(cl[c], t) <= TimeUsed(cl[c], t + 1)
                           /\ TimeUsed(cl[c], t) \in Int /\ TimeUsed(cl[c], t + 1) \in Int
    <2> SUFFICES ASSUME NEW c \in Clients
                 PROVE  TimeUsed(cl[c], t) <= TimeUsed(cl[c], t + 1)
                        /\ TimeUsed(cl[c], t) \in Int /\ TimeUsed(cl[c], t + 1) \in Int
      OBVIOUS
    <2>1. cl[c] \in Record(Members) /\ t + 1 \in Nat
      BY <1>1 DEF Typed
    <2>2. TimeUsed(cl[c], t) \in Int /\ TimeUsed(cl[c], t + 1) \in Int
      BY <1>1, <2>1, UsedTyped
    <2>3. TimeUsed(cl[c], t + 1) >= TimeUsed(cl[c], t)
      BY <1>1, <2>1, UsedLater
    <2>4. QED
      BY <2>2, <2>3
  <1>3. \A x \in rows : x.client \in Clients /\ x.etime \in Nat /\ x.price \in Nat
    BY DEF Once, Typed, SessionRow
  <1>4. RowsKnown(cl, rows, n, t + 1)
    <2>1. \A x \in rows : x.etime <= t + 1
      BY <1>1, <1>3 DEF Once, RowsKnown
    <2>2. QED
      BY <2>1 DEF Once, RowsKnown
  <1>5. RowsInLine(cl, rows, t + 1)
    <2>1. \A x \in rows : x.price <= TimeUsed(cl[x.client], t)
                          => x.price <= TimeUsed(cl[x.client], t + 1)
      BY <1>2, <1>3
    <2>2. QED
      BY <2>1 DEF Once, RowsInLine
  <1>6. QED
    BY <1>1, <1>4, <1>5 DEF Once

\* CCL_log_session_find: the row of a stopped session that spans some time is
\* found, and what is found with a price is a row of this session.
LEMMA OwnRow ==
  ASSUME LogOK, Once(clients, log, sessions, now), NEW c \in Clients, HasSession(clients[c])
  PROVE  /\ \A x \in log : Spans(x) /\ x.session = clients[c].session
                           => x.id = RowOf(c, clients[c])
         /\ \A x \in log : x.price > 0 /\ x.id = RowOf(c, clients[c])
                           => x.client = c /\ x.session = clients[c].session
  <1> DEFINE r == clients[c]
             T == {x \in log : /\ x.client = c /\ x.stime = STime(r) /\ x.etime = ETime(r)}
             found == {x.id : x \in T}
  <1>1. \A x \in log : x.id \in Nat /\ x.stime \in Nat /\ x.etime \in Nat
    BY DEF LogOK, RowsOK, SessionRow
  <1>2. \A x \in T : Spans(x) => x.session = r.session
    BY <1>1 DEF Once, RowsInOrder, Spans
  <1>3. RowOf(c, r) = IF found = {} THEN -1 ELSE Min(found)
    BY DEF RowOf
  <1>4. \A x \in log : x \in T <=> x.client = c /\ x.stime = STime(r) /\ x.etime = ETime(r)
    OBVIOUS
  <1>5. found # {} => \E y \in T : y.id = RowOf(c, r)
    <2>1. ASSUME found # {} PROVE Min(found) \in found
      <3>1. found \in SUBSET Nat
        BY <1>1
      <3> HIDE DEF found
      <3>2. QED
        BY <2>1, <3>1, LeastNat DEF Min
    <2>2. QED
      BY <1>3, <2>1
  <1>6. \A x \in T : found # {}
    OBVIOUS
  <1>7. T \subseteq log
    OBVIOUS
  <1> HIDE DEF found, T
  <1>8. ASSUME NEW x \in log, Spans(x), x.session = r.session PROVE x.id = RowOf(c, r)
    <2>1. x.client = c /\ x.stime = STime(r) /\ x.etime = ETime(r)
      BY <1>8 DEF Once, RowsKnown, RowsInLine
    <2>2. x \in T
      BY <1>4, <2>1
    <2>3. PICK y \in T : y.id = RowOf(c, r)
      BY <1>5, <1>6, <2>2
    <2>4. Spans(y)
      BY <1>4, <1>7, <1>8, <2>1 DEF Spans
    <2>5. y.session = r.session
      BY <1>2, <2>4
    <2>6. y = x
      BY <1>7, <1>8, <2>4, <2>5 DEF Once, OneRow
    <2>7. QED
      BY <2>3, <2>6
  <1>9. ASSUME NEW x \in log, x.price > 0, x.id = RowOf(c, r)
        PROVE  x.client = c /\ x.session = r.session
    <2>1. found # {}
      BY <1>1, <1>3, <1>9
    <2>2. PICK y \in T : y.id = RowOf(c, r)
      BY <1>5, <2>1
    <2>3. y = x
      BY <1>7, <1>9, <2>2 DEF LogOK, RowsOK, IdsDiffer
    <2>4. Spans(x)
      BY <1>9 DEF Once, RowsKnown
    <2>5. QED
      BY <1>2, <1>4, <2>2, <2>3, <2>4
  <1>10. QED
    BY <1>8, <1>9 DEF r

\* A session that goes on has no row any more.
LEMMA UnloggedOnce ==
  ASSUME LogOK, Once(clients, log, sessions, now), NEW c \in Clients,
         clients[c].status = "INACTIVE", HasSession(clients[c])
  PROVE  /\ Unlogged(c, clients[c]) \subseteq log
         /\ NoRow(Unlogged(c, clients[c]), clients[c].session)
         /\ \A x \in log : x.price > 0 /\ x \notin Unlogged(c, clients[c])
                           => x.client = c /\ x.session = clients[c].session
  <1>1. Unlogged(c, clients[c]) = {x \in log : x.id # RowOf(c, clients[c])}
    BY DEF Unlogged
  <1>2. QED
    BY <1>1, OwnRow DEF NoRow

\* A session in use has no row yet.
LEMMA InUseOnce ==
  ASSUME Once(clients, log, sessions, now), NEW c \in Clients, clients[c].status # "INACTIVE"
  PROVE  NoRow(log, clients[c].session)
  BY DEF Once, RowsKnown, RowsInLine, NoRow

\* What is settled is the price shown, and that is the row's.
LEMMA SettledOnce ==
  ASSUME LogOK, Once(clients, log, sessions, now), NEW id, NEW price,
         NEW flag \in {"PAID", "CANCELED"}, \A x \in log : x.id = id => x.price = price
  PROVE  /\ Once(clients, SettledLog(id, price, flag), sessions, now)
         /\ \A x \in log : \E y \in SettledLog(id, price, flag) :
              y.session = x.session /\ y.price = x.price
  <1> DEFINE rows == SettledLog(id, price, flag)
             f == [row \in log |->
                     IF row.id = id THEN [row EXCEPT !.price = price, !.flag = flag] ELSE row]
  <1>1. rows = {f[x] : x \in log}
    BY DEF SettledLog
  <1>2. ASSUME NEW x \in log
        PROVE  /\ f[x] \in SessionRow /\ f[x].client = x.client /\ f[x].session = x.session
               /\ f[x].stime = x.stime /\ f[x].etime = x.etime /\ f[x].price = x.price
    <2>1. x \in SessionRow
      BY DEF LogOK, RowsOK
    <2> DEFINE y == [x EXCEPT !.price = price, !.flag = flag]
    <2>2. f[x] = IF x.id = id THEN y ELSE x
      OBVIOUS
    <2>3. x.id = id => price \in Nat
      BY <2>1 DEF SessionRow
    <2>4. x.id = id =>
            /\ y \in SessionRow /\ y.client = x.client /\ y.session = x.session
            /\ y.stime = x.stime /\ y.etime = x.etime /\ y.price = x.price
      BY <2>1, <2>3 DEF SessionRow
    <2> HIDE DEF y, f
    <2>5. QED
      BY <2>1, <2>2, <2>4
  <1> HIDE DEF f, rows
  <1>3. \A x \in log : Spans(f[x]) <=> Spans(x)
    BY <1>2 DEF Spans
  <1>4. Typed(clients, rows, sessions, now)
    BY <1>1, <1>2 DEF Once, Typed
  <1>5. RowsKnown(clients, rows, sessions, now)
    <2>1. ASSUME NEW x \in log
          PROVE  /\ 0 < f[x].session /\ f[x].session <= sessions
                 /\ 0 < f[x].stime /\ f[x].etime <= now
                 /\ f[x].price > 0 => Spans(f[x])
                 /\ \A c \in Clients : clients[c].session = f[x].session => c = f[x].client
      BY <1>2, <1>3 DEF Once, RowsKnown
    <2>2. QED
      BY <1>1, <2>1 DEF RowsKnown
  <1>6. RowsInOrder(clients, rows)
    BY <1>1, <1>2 DEF Once, RowsInOrder
  <1>7. RowsInLine(clients, rows, now)
    <2>1. ASSUME NEW x \in log, Spans(f[x]), f[x].session = clients[f[x].client].session
          PROVE  /\ clients[f[x].client].status = "INACTIVE"
                 /\ f[x].stime = STime(clients[f[x].client])
                 /\ f[x].etime = ETime(clients[f[x].client])
                 /\ f[x].price <= TimeUsed(clients[f[x].client], now)
      BY <1>2, <1>3, <2>1 DEF Once, RowsInLine
    <2>2. QED
      BY <1>1, <2>1 DEF RowsInLine
  <1>8. OneRow(rows)
    <2>1. ASSUME NEW x \in log, NEW y \in log, Spans(f[x]), Spans(f[y]),
                 f[x].session = f[y].session
          PROVE  f[x] = f[y]
      <3>1. x = y
        BY <1>2, <1>3, <2>1 DEF Once, OneRow
      <3>2. QED
        BY <3>1
    <2>2. QED
      BY <1>1, <2>1 DEF OneRow
  <1>9. Once(clients, rows, sessions, now)
    BY <1>4, <1>5, <1>6, <1>7, <1>8 DEF Once
  <1>10. \A x \in log : \E y \in rows : y.session = x.session /\ y.price = x.price
    BY <1>1, <1>2
  <1>11. QED
    BY <1>9, <1>10 DEF rows

\* A record that is about the same session as another one, over or not as it is
LEMMA SameTimes ==
  ASSUME NEW q, NEW r, SameSession(q, r)
  PROVE  /\ q.session = r.session /\ q.status = r.status
         /\ HasSession(q) <=> HasSession(r)
         /\ STime(q) = STime(r) /\ ETime(q) = ETime(r)
         /\ \A t : TimeUsed(q, t) = TimeUsed(r, t)
         /\ \A p : GoesOn(r, p) => GoesOn(q, p)
  BY DEF SameSession, HasSession, STime, ETime, TimeUsed, GoesOn

\* A guint holds no more than the number it is made of.
LEMMA UnsignedLess == ASSUME NEW n \in Nat PROVE Unsigned(n) \in Nat /\ Unsigned(n) <= n
  <1>1. UInts \in Nat /\ UInts > 0
    BY NumbersAssumption
  <1>2. CASE n < UInts
    BY <1>1, <1>2 DEF Unsigned
  <1>3. CASE n >= UInts
    <2>1. n % UInts \in 0..(UInts - 1)
      BY <1>1
    <2>2. QED
      BY <1>1, <1>3, <2>1 DEF Unsigned
  <1>4. QED
    BY <1>1, <1>2, <1>3

\* CCL_client_stop and CCL_log_session: the session of c is over, and has a row.
LEMMA StopLogged ==
  ASSUME NEW cl, NEW rows, Once(cl, rows, sessions, now), RowsOK(rows),
         NEW c \in Clients, cl[c].status = "ACTIVE", WellFormed(cl[c], now),
         NoRow(rows, cl[c].session),
         NEW q \in Record(Members), SameSession(q, StopRecord(cl[c], now)),
         NEW dl, Others(cl, dl, c), SameSession(dl[c], StopRecord(cl[c], now)),
         WellFormed(dl[c], now),
         NEW price \in Nat, price <= TimeUsed(cl[c], now),
         NEW flag \in {"NOTPAID", "PAID", "CANCELED"}, NEW payer \in Members \cup {0},
         flag = "NOTPAID" => payer = 0
  PROVE  /\ Once(dl, LoggedAfter(rows, c, q, price, flag, payer), sessions, now)
         /\ rows \subseteq LoggedAfter(rows, c, q, price, flag, payer)
         /\ \E x \in LoggedAfter(rows, c, q, price, flag, payer) :
              x.session = cl[c].session /\ x.price = Unsigned(price)
  <1> DEFINE r == cl[c]
             row == NewRow(rows, c, q, price, flag, payer)
             again == StopRecord(r, now)
  <1>1. r \in Record(Members) /\ now \in Nat /\ now > 0 /\ dl[c] \in Record(Members)
    BY DEF Once, Typed, Others
  <1>2. HasSession(r)
    BY DEF WellFormed, UsedHasIntervals
  <1>3. /\ again.session = r.session /\ again.status = "INACTIVE" /\ HasSession(again)
        /\ STime(again) = STime(r) /\ ETime(again) = now
    BY <1>1, <1>2, StopTimes
  <1>4. TimeUsed(again, now) = TimeUsed(r, now)
    BY <1>1, UsedClose
  <1> HIDE DEF again
  <1>5. /\ dl[c].session = r.session /\ dl[c].status = "INACTIVE" /\ HasSession(dl[c])
        /\ STime(dl[c]) = STime(r) /\ ETime(dl[c]) = now
        /\ TimeUsed(dl[c], now) = TimeUsed(r, now)
    BY <1>3, <1>4, SameTimes DEF again
  <1>6. /\ q.session = r.session /\ q.status = "INACTIVE"
        /\ STime(q) = STime(r) /\ ETime(q) = now
    BY <1>3, SameTimes DEF again
  <1>7. row \in SessionRow
    BY LoggedTyped
  <1>8. /\ row.client = c /\ row.session = r.session /\ row.stime = STime(dl[c])
        /\ row.etime = now /\ row.price = Unsigned(price)
    BY <1>5, <1>6 DEF NewRow
  <1>9. LoggedAfter(rows, c, q, price, flag, payer) = rows \cup {row}
    BY <1>6 DEF LoggedAfter, NewRow
  <1>10. row.price <= TimeUsed(dl[c], now)
    <2>1. Unsigned(price) \in Nat /\ Unsigned(price) <= price
      BY UnsignedLess
    <2>2. TimeUsed(r, now) \in Int
      BY <1>1, UsedTyped
    <2>3. QED
      BY <1>5, <1>8, <2>1, <2>2
  <1> HIDE DEF row
  <1>11. Once(dl, rows \cup {row}, sessions, now)
    BY <1>2, <1>5, <1>7, <1>8, <1>10, StopOnce
  <1>12. QED
    BY <1>8, <1>9, <1>11

OnceNow == Once(clients, log, sessions, now)

\* Nobody who is attached to a workstation is overdrawn, and a session that is
\* over has no account any more: what onEventCallback takes from an account that
\* is used up is a price, and the price of the time used.
FairPrices ==
  \A c \in Clients :
    clients[c].member # 0 =>
      clients[c].status # "INACTIVE" /\ credit[clients[c].member] >= 0

\* What was charged for stays, or the session goes on.
ChargesStay ==
  \A x \in log :
    x.price > 0 =>
      \/ \E y \in log' : y.session = x.session /\ y.price >= x.price
      \/ clients'[x.client].session = x.session /\ clients'[x.client].status = "ACTIVE"

\* Every step charges a session at most once, and loses no charge.
LEMMA OnceNext ==
  ASSUME CafeInv, CafeInv', LogOK, AccountsOK, CashInv, FairPrices, OnceNow, [Next]_vars
  PROVE  OnceNow' /\ (now < UInts => ChargesStay)
  <1> DEFINE Goal == OnceNow' /\ (now < UInts => ChargesStay)
  <1>1. /\ now \in Nat /\ now > 0 /\ sessions \in Nat /\ sessions + 1 \in Nat
        /\ clients = [c \in Clients |-> clients[c]]
        /\ \A c \in Clients : /\ clients[c] \in Record(Members)
                              /\ WellFormed(clients[c], now)
                              /\ clients[c].status \in Status
                              /\ clients[c].status # "INACTIVE" => HasSession(clients[c])
    BY DEF CafeInv, RecordsGood, Record, WellFormed, UsedHasIntervals
  <1>2. /\ clients' \in [Clients -> Record(Members)]
        /\ \A c \in Clients : WellFormed(clients'[c], now')
    BY DEF CafeInv, RecordsGood
  <1>3. log \subseteq log' => ChargesStay
    <2>1. \A x \in log : x.price >= x.price
      BY DEF LogOK, RowsOK, SessionRow
    <2>2. QED
      BY <2>1 DEF ChargesStay
  <1>4. UNCHANGED <<clients, log, sessions, now>> => Goal
    BY <1>3 DEF OnceNow
  <1>5. ASSUME NEW c \in Clients, \A d \in Clients : d # c => clients'[d] = clients[d]
        PROVE  Others(clients, clients', c)
    BY <1>2, <1>5 DEF Others
  <1>6. ASSUME NEW c \in Clients, UNCHANGED <<log, sessions, now>>,
               \A d \in Clients : d # c => clients'[d] = clients[d],
               \/ SameSession(clients'[c], clients[c])
               \/ clients'[c] = EmptyRecord
               \/ GoesOn(clients'[c], clients[c]) /\ clients[c].status # "INACTIVE"
        PROVE  Goal
    <2>1. Others(clients, clients', c)
      BY <1>5, <1>6
    <2>2. Once(clients', log, sessions, now)
      BY <1>6, <2>1, SameOnce, ResetOnce, GoesOnOnce, InUseOnce DEF OnceNow
    <2>3. QED
      BY <1>3, <1>6, <2>2 DEF OnceNow
  <1>7. ASSUME NEW c \in Clients, UNCHANGED <<log, now>>, Started(c),
               \A d \in Clients : d # c => clients'[d] = clients[d],
               SameSession(clients'[c], StartRecord(clients[c], now, sessions + 1))
        PROVE  Goal
    <2> DEFINE q == StartRecord(clients[c], now, sessions + 1)
    <2>1. /\ clients[c].status # "INACTIVE" => GoesOn(q, clients[c])
          /\ clients[c].status = "INACTIVE" =>
               q.session = sessions + 1 /\ HasSession(q) /\ STime(q) = now
      BY <1>1, StartTimes
    <2> HIDE DEF q
    <2>2. CASE clients[c].status # "INACTIVE"
      <3>1. GoesOn(clients'[c], clients[c])
        BY <1>7, <2>1, <2>2, SameTimes DEF q
      <3>2. sessions' = sessions
        BY <1>7, <2>2 DEF Started
      <3>3. QED
        BY <1>6, <1>7, <2>2, <3>1, <3>2
    <2>3. CASE clients[c].status = "INACTIVE"
      <3>1. /\ clients'[c].session = sessions + 1 /\ HasSession(clients'[c])
            /\ STime(clients'[c]) = now
        BY <1>7, <2>1, <2>3, SameTimes DEF q
      <3>2. sessions' = sessions + 1
        BY <1>7, <2>3 DEF Started
      <3>3. Others(clients, clients', c)
        BY <1>5, <1>7
      <3>4. Once(clients', log, sessions + 1, now)
        BY <3>1, <3>3, FreshOnce DEF OnceNow
      <3>5. QED
        BY <1>3, <1>7, <3>2, <3>4 DEF OnceNow
    <2>4. QED
      BY <2>2, <2>3
  <1>8. ASSUME NEW c \in Clients, UNCHANGED <<sessions, now>>, clients[c].status = "ACTIVE",
               \A d \in Clients : d # c => clients'[d] = clients[d],
               SameSession(clients'[c], StopRecord(clients[c], now)),
               NEW q \in Record(Members), SameSession(q, StopRecord(clients[c], now)),
               NEW price \in Nat, price <= Owed(c),
               NEW flag \in {"NOTPAID", "PAID"}, NEW payer \in Members \cup {0},
               flag = "NOTPAID" => payer = 0,
               log' = LoggedAfter(log, c, q, price, flag, payer)
        PROVE  Goal
    <2>1. Others(clients, clients', c)
      BY <1>5, <1>8
    <2>2. NoRow(log, clients[c].session)
      BY <1>8, InUseOnce DEF OnceNow
    <2>3. WellFormed(clients[c], now) /\ WellFormed(clients'[c], now)
      BY <1>1, <1>2, <1>8
    <2>4. price <= TimeUsed(clients[c], now)
      BY <1>8 DEF Owed
    <2>5. Once(clients', log', sessions, now) /\ log \subseteq log'
      BY <1>8, <2>1, <2>2, <2>3, <2>4, StopLogged DEF OnceNow, LogOK
    <2>6. QED
      BY <1>3, <1>8, <2>5 DEF OnceNow
  <1>9. \A c \in Clients :
          /\ StopRecord(clients[c], now) \in Record(Members)
          /\ MemberRecord(StopRecord(clients[c], now), 0) \in Record(Members)
          /\ SameSession(MemberRecord(StopRecord(clients[c], now), 0),
                         StopRecord(clients[c], now))
          /\ SameSession(StopRecord(clients[c], now), StopRecord(clients[c], now))
          /\ Owed(c) \in Nat /\ Owed(c) <= Owed(c)
          /\ clients[c].member \in Members \cup {0}
    <2> SUFFICES ASSUME NEW c \in Clients
                 PROVE  /\ StopRecord(clients[c], now) \in Record(Members)
                        /\ MemberRecord(StopRecord(clients[c], now), 0) \in Record(Members)
                        /\ SameSession(MemberRecord(StopRecord(clients[c], now), 0),
                                       StopRecord(clients[c], now))
                        /\ SameSession(StopRecord(clients[c], now),
                                       StopRecord(clients[c], now))
                        /\ Owed(c) \in Nat /\ Owed(c) <= Owed(c)
                        /\ clients[c].member \in Members \cup {0}
      OBVIOUS
    <2>1. Good(StopRecord(clients[c], now), Members, now) /\ clients[c] \in Record(Members)
      BY CallsGood
    <2>2. Good(MemberRecord(StopRecord(clients[c], now), 0), Members, now)
      BY <2>1, SetGood
    <2>3. SameSession(MemberRecord(StopRecord(clients[c], now), 0),
                      StopRecord(clients[c], now))
      BY <2>1, SetTimes DEF Good
    <2>4. Owed(c) \in Nat
      BY OwedTyped
    <2>5. clients[c].member \in Members \cup {0}
      BY <2>1 DEF Record
    <2>6. QED
      BY <2>1, <2>2, <2>3, <2>4, <2>5 DEF Good, SameSession
  <1>10. ASSUME NEW c \in Clients, Receive(c) PROVE Goal
    <2>1. UNCHANGED <<sessions, now>>
      BY <1>10 DEF Receive, auxiliary
    <2>2. CASE UsedUp(c)
      <3> DEFINE m == clients[c].member
                 r == MemberRecord(StopRecord(clients[c], now), 0)
                 price == credit[m]
      <3>1. m \in Members /\ price \in Nat /\ price <= Owed(c)
            /\ clients[c].status # "INACTIVE"
        <4>1. m \in Members /\ price \in Int /\ Owed(c) \in Nat /\ price - Owed(c) <= 0
          BY <1>9, <2>2 DEF UsedUp, AccountsOK
        <4>2. price >= 0 /\ clients[c].status # "INACTIVE"
          BY <2>2 DEF UsedUp, FairPrices
        <4> HIDE DEF price
        <4>3. price \in Nat /\ price <= Owed(c)
          BY <4>1, <4>2
        <4>4. QED
          BY <4>1, <4>2, <4>3
      <3>2. /\ clients'[c] = r /\ \A d \in Clients : d # c => clients'[d] = clients[d]
            /\ log' = LoggedAfter(log, c, r, price, "PAID", m)
        BY <1>1, <1>10, <2>2 DEF Receive, Settle, Logged
      <3>3. r \in Record(Members) /\ SameSession(r, StopRecord(clients[c], now))
        BY <1>9
      <3> HIDE DEF m, r, price
      <3>4. CASE clients[c].status = "ACTIVE"
        BY <1>8, <2>1, <3>1, <3>2, <3>3, <3>4
      <3>5. CASE clients[c].status = "PAUSED"
        <4>1. StopRecord(clients[c], now) = clients[c]
          BY <3>5 DEF StopRecord
        <4>2. SameSession(r, clients[c]) /\ r.status # "INACTIVE"
          BY <3>3, <3>5, <4>1 DEF SameSession
        <4>3. log' = log
          BY <3>2, <4>2 DEF LoggedAfter
        <4>4. QED
          BY <1>6, <2>1, <3>2, <4>2, <4>3
      <3>6. QED
        BY <1>1, <3>1, <3>4, <3>5 DEF Status
    <2>3. QED
      BY <1>4, <1>10, <2>1, <2>2 DEF Receive, money
  <1>11. ASSUME NEW c \in Clients, HandleExit(c) PROVE Goal
    <2>1. UNCHANGED <<sessions, now>>
      BY <1>11 DEF HandleExit, auxiliary
    <2>2. CASE ExitPostpaid(c)
      <3>1. /\ clients[c].status = "ACTIVE" /\ clients'[c] = StopRecord(clients[c], now)
            /\ \A d \in Clients : d # c => clients'[d] = clients[d]
            /\ log' = LoggedAfter(log, c, StopRecord(clients[c], now), Owed(c), "NOTPAID", 0)
        BY <1>1, <2>2 DEF ExitPostpaid, Logged
      <3>2. QED
        BY <1>8, <1>9, <2>1, <3>1
    <2>3. CASE ExitMember(c)
      <3>1. /\ clients[c].status = "ACTIVE"
            /\ clients'[c] = MemberRecord(StopRecord(clients[c], now), 0)
            /\ \A d \in Clients : d # c => clients'[d] = clients[d]
            /\ log' = LoggedAfter(log, c, StopRecord(clients[c], now), Owed(c), "PAID",
                                  clients[c].member)
        BY <1>1, <2>3 DEF ExitMember, Logged
      <3>2. QED
        BY <1>8, <1>9, <2>1, <3>1
    <2>4. CASE ExitIdle(c)
      <3>1. /\ clients'[c] = EmptyRecord /\ log' = log
            /\ \A d \in Clients : d # c => clients'[d] = clients[d]
        BY <1>1, <2>4 DEF ExitIdle, ResetRecord, money
      <3>2. QED
        BY <1>6, <2>1, <3>1
    <2>5. QED
      BY <1>11, <2>2, <2>3, <2>4 DEF HandleExit
  <1>12. ASSUME NEW c \in Clients, HandleLogin(c) PROVE Goal
    <2> DEFINE m == handling[c].member
               q == StartRecord(clients[c], now, sessions + 1)
    <2>1. m \in Members \cup {0} /\ now' = now
      BY <1>12 DEF CafeInv, NetworkOK, Req, HandleLogin
    <2>2. CASE LoginUser(c)
      <3>1. /\ clients'[c] = q /\ \A d \in Clients : d # c => clients'[d] = clients[d]
            /\ log' = log /\ Started(c)
        BY <1>1, <2>2 DEF LoginUser, LoginRecord, money
      <3>2. SameSession(q, q)
        BY DEF SameSession
      <3>3. QED
        BY <1>7, <2>1, <3>1, <3>2
    <2>3. CASE m # 0 /\ LoginMember(c, m)
      <3>1. ~(c \in userstop /\ clients[c].member = m)
        BY <2>3 DEF CashInv, LeftUnattached
      <3>2. LoginRecord(c, m) = q
        BY <3>1 DEF LoginRecord
      <3>3. /\ clients'[c] = MemberRecord(q, m) /\ log' = log /\ Started(c)
            /\ \A d \in Clients : d # c => clients'[d] = clients[d]
        BY <1>1, <2>3, <3>1, <3>2 DEF LoginMember
      <3>4. q \in Record(Members)
        BY CallsGood DEF Good
      <3> HIDE DEF q
      <3>5. SameSession(clients'[c], q)
        BY <3>3, <3>4, SetTimes
      <3>6. QED
        BY <1>7, <2>1, <3>3, <3>5 DEF q
    <2>4. QED
      BY <1>4, <1>12, <2>1, <2>2, <2>3 DEF HandleLogin, records, money
  <1>13. ASSUME NEW c \in Clients, Thread(c) PROVE Goal
    BY <1>4, <1>10, <1>11, <1>12, <1>13
       DEF Thread, HandleOwed, HandleStatus, records, money, auxiliary
  <1>14. ASSUME NEW c \in Clients, clients[c].status = "INACTIVE", HasSession(clients[c])
         PROVE  LET u == UnstopRecord(clients[c], now)
                    mid == [clients EXCEPT ![c] = u]
                IN  /\ u \in Record(Members) /\ WellFormed(u, now)
                    /\ u.status = "ACTIVE" /\ u.session = clients[c].session
                    /\ Unlogged(c, clients[c]) \subseteq log
                    /\ NoRow(Unlogged(c, clients[c]), u.session)
                    /\ Once(mid, Unlogged(c, clients[c]), sessions, now)
                    /\ \A x \in log : x.price > 0 /\ x \notin Unlogged(c, clients[c])
                                      => x.client = c /\ x.session = u.session
    <2> DEFINE u == UnstopRecord(clients[c], now)
               mid == [clients EXCEPT ![c] = u]
               rows == Unlogged(c, clients[c])
    <2>1. u \in Record(Members) /\ WellFormed(u, now)
      BY CallsGood DEF Good
    <2>2. GoesOn(u, clients[c]) /\ u.status = "ACTIVE"
      BY <1>1, <1>14, UnstopTimes
    <2>3. u.session = clients[c].session
      BY <2>2 DEF GoesOn
    <2>4. /\ rows \subseteq log /\ NoRow(rows, clients[c].session)
          /\ \A x \in log : x.price > 0 /\ x \notin rows
                            => x.client = c /\ x.session = clients[c].session
      BY <1>14, UnloggedOnce DEF OnceNow
    <2> HIDE DEF u, rows
    <2>5. Once(clients, rows, sessions, now)
      BY <2>4, FewerOnce DEF OnceNow
    <2>6. Others(clients, mid, c) /\ mid[c] = u
      <3>1. clients \in [Clients -> Record(Members)]
        BY DEF CafeInv, RecordsGood
      <3>2. QED
        BY <2>1, <3>1 DEF Others
    <2> HIDE DEF mid
    <2>7. Once(mid, rows, sessions, now)
      BY <2>2, <2>4, <2>5, <2>6, GoesOnOnce
    <2>8. QED
      BY <2>1, <2>2, <2>3, <2>4, <2>7 DEF u, mid, rows
  <1>15. ASSUME NEW c \in Clients, EmployeeUnstop(c) PROVE Goal
    <2> DEFINE u == UnstopRecord(clients[c], now)
    <2>1. /\ clients' = [clients EXCEPT ![c] = UnpauseRecord(u)]
          /\ clients'[c] = UnpauseRecord(u)
          /\ \A d \in Clients : d # c => clients'[d] = clients[d]
          /\ log' = Unlogged(c, clients[c]) /\ UNCHANGED <<sessions, now>>
      BY <1>1, <1>15 DEF EmployeeUnstop, auxiliary
    <2>2. CASE clients[c].status = "INACTIVE" /\ HasSession(clients[c])
      <3>1. /\ u \in Record(Members) /\ u.status = "ACTIVE"
            /\ Once([clients EXCEPT ![c] = u], log', sessions, now)
            /\ \A x \in log : x.price > 0 /\ x \notin log'
                              => x.client = c /\ x.session = u.session
        BY <1>14, <2>1, <2>2
      <3>2. UnpauseRecord(u) = u
        BY <3>1 DEF UnpauseRecord
      <3> HIDE DEF u
      <3>3. OnceNow'
        BY <2>1, <3>1, <3>2 DEF OnceNow
      <3>4. \A x \in log : x.price >= x.price
        BY DEF LogOK, RowsOK, SessionRow
      <3>5. ChargesStay
        BY <2>1, <3>1, <3>2, <3>4 DEF ChargesStay
      <3>6. QED
        BY <3>3, <3>5
    <2>3. CASE ~(clients[c].status = "INACTIVE" /\ HasSession(clients[c]))
      <3>1. u = clients[c] /\ log' = log
        BY <2>1, <2>3 DEF UnstopRecord, Unlogged
      <3>2. \/ UnpauseRecord(clients[c]) = clients[c]
            \/ GoesOn(UnpauseRecord(clients[c]), clients[c]) /\ clients[c].status = "PAUSED"
        BY <1>1, PauseTimes
      <3>3. \/ SameSession(clients'[c], clients[c])
            \/ GoesOn(clients'[c], clients[c]) /\ clients[c].status # "INACTIVE"
        BY <2>1, <3>1, <3>2 DEF SameSession
      <3>4. QED
        BY <1>6, <2>1, <3>1, <3>3
    <2>4. QED
      BY <2>2, <2>3
  <1>16. ASSUME NEW c \in Clients, Printed(c) PROVE Goal
    <2> DEFINE r == clients[c]
               u == UnstopRecord(r, now)
               again == StopRecord(u, now)
               mid == [clients EXCEPT ![c] = u]
               rows == Unlogged(c, r)
               price == TimeUsed(again, now)
    <2>1. /\ clients' = [clients EXCEPT ![c] = again] /\ clients'[c] = again
          /\ log' = LoggedAfter(rows, c, again, price, "NOTPAID", 0)
          /\ r.status = "INACTIVE" /\ UNCHANGED <<sessions, now>>
          /\ \E row \in log : row.id = RowOf(c, r)
      BY <1>1, <1>16 DEF Printed, auxiliary
    <2>2. HasSession(r)
      <3>1. SUFFICES ASSUME ~HasSession(r) PROVE FALSE
        OBVIOUS
      <3>2. STime(r) = 0
        BY <3>1 DEF STime
      <3>3. \A x \in log : x.stime # STime(r) /\ x.id \in Nat
        BY <3>2 DEF OnceNow, Once, RowsKnown, LogOK, RowsOK, SessionRow
      <3> HIDE DEF r
      <3>4. RowOf(c, r) = -1
        BY <3>3 DEF RowOf
      <3>5. QED
        BY <2>1, <3>3, <3>4
    <2>3. /\ u \in Record(Members) /\ WellFormed(u, now)
          /\ u.status = "ACTIVE" /\ u.session = r.session
          /\ rows \subseteq log /\ NoRow(rows, u.session)
          /\ Once(mid, rows, sessions, now)
          /\ \A x \in log : x.price > 0 /\ x \notin rows
                            => x.client = c /\ x.session = u.session
      BY <1>14, <2>1, <2>2
    <2>4. again \in Record(Members)
      BY CallsGood DEF Good
    <2>5. price \in Nat /\ price = TimeUsed(u, now) /\ price <= now
      BY <1>1, <2>3, UsedClose, UsedWithinSpan
    <2>6. price >= TimeUsed(r, now) /\ TimeUsed(r, now) \in Int
      BY <1>1, <2>5, UsedReopen, UsedTyped
    <2>7. mid[c] = u /\ Others(mid, clients', c)
      BY <1>1, <1>2, <2>1 DEF Others
    <2>8. RowsOK(rows)
      BY <2>3, FewerRows
    <2>9. WellFormed(clients'[c], now)
      BY <1>2, <2>1
    <2>10. /\ u = mid[c] /\ SameSession(again, StopRecord(mid[c], now))
           /\ SameSession(clients'[c], StopRecord(mid[c], now))
      BY <2>1, <2>7 DEF SameSession
    <2> HIDE DEF r, u, mid, rows, again, price
    <2>11. /\ Once(clients', log', sessions, now) /\ rows \subseteq log'
           /\ \E x \in log' : x.session = u.session /\ x.price = Unsigned(price)
      <3>1. /\ mid[c].status = "ACTIVE" /\ WellFormed(mid[c], now)
            /\ NoRow(rows, mid[c].session) /\ price <= TimeUsed(mid[c], now)
        BY <2>3, <2>5, <2>7
      <3>2. "NOTPAID" \in {"NOTPAID", "PAID", "CANCELED"} /\ 0 \in Members \cup {0}
        OBVIOUS
      <3>3. /\ Once(clients', LoggedAfter(rows, c, again, price, "NOTPAID", 0), sessions, now)
            /\ rows \subseteq LoggedAfter(rows, c, again, price, "NOTPAID", 0)
            /\ \E x \in LoggedAfter(rows, c, again, price, "NOTPAID", 0) :
                 x.session = mid[c].session /\ x.price = Unsigned(price)
        BY <2>3, <2>4, <2>5, <2>7, <2>8, <2>9, <2>10, <3>1, <3>2, StopLogged
      <3>4. QED
        BY <2>1, <2>7, <3>3
    <2>12. ASSUME now < UInts PROVE ChargesStay
      <3>1. Unsigned(price) = price
        BY <1>1, <2>5, <2>12, NumbersAssumption DEF Unsigned
      <3>2. ASSUME NEW x \in log, x.price > 0
            PROVE  \E y \in log' : y.session = x.session /\ y.price >= x.price
        <4>1. CASE x \in rows
          BY <2>11, <4>1 DEF LogOK, RowsOK, SessionRow
        <4>2. CASE x \notin rows
          <5>1. x.client = c /\ x.session = u.session /\ Spans(x)
            BY <2>3, <3>2, <4>2 DEF OnceNow, Once, RowsKnown
          <5>2. x.price <= TimeUsed(r, now) /\ x.price \in Nat
            BY <2>3, <5>1 DEF OnceNow, Once, RowsInLine, r, LogOK, RowsOK, SessionRow
          <5>3. QED
            BY <2>5, <2>6, <2>11, <3>1, <5>1, <5>2
        <4>3. QED
          BY <4>1, <4>2
      <3>3. QED
        BY <3>2 DEF ChargesStay
    <2>13. QED
      BY <2>1, <2>11, <2>12 DEF OnceNow
  <1>17. ASSUME NEW c \in Clients, EmployeeStop(c) PROVE Goal
    <2>1. UNCHANGED <<sessions, now>>
      BY <1>17 DEF EmployeeStop, auxiliary
    <2>2. CASE StopMember(c)
      <3>1. /\ clients[c].status = "ACTIVE" /\ clients'[c] = StopRecord(clients[c], now)
            /\ \A d \in Clients : d # c => clients'[d] = clients[d]
            /\ log' = LoggedAfter(log, c, StopRecord(clients[c], now), Owed(c), "PAID",
                                  clients[c].member)
        BY <1>1, <2>2 DEF StopMember, Logged
      <3>2. QED
        BY <1>8, <1>9, <2>1, <3>1
    <2>3. CASE StopPostpaid(c)
      <3>1. /\ clients[c].status = "ACTIVE" /\ clients'[c] = StopRecord(clients[c], now)
            /\ \A d \in Clients : d # c => clients'[d] = clients[d]
            /\ log' = LoggedAfter(log, c, StopRecord(clients[c], now), Owed(c), "NOTPAID", 0)
        BY <1>1, <2>3 DEF StopPostpaid, Logged
      <3>2. QED
        BY <1>8, <1>9, <2>1, <3>1
    <2>4. CASE StopIdle(c)
      BY <1>4, <2>1, <2>4 DEF StopIdle, money
    <2>5. QED
      BY <1>17, <2>2, <2>3, <2>4 DEF EmployeeStop
  <1>18. ASSUME NEW c \in Clients, Employee(c) PROVE Goal
    <2>1. CASE EmployeeStart(c)
      <3> DEFINE q == StartRecord(clients[c], now, sessions + 1)
      <3>1. /\ clients'[c] = q /\ \A d \in Clients : d # c => clients'[d] = clients[d]
            /\ UNCHANGED <<log, now>> /\ Started(c)
        BY <1>1, <2>1 DEF EmployeeStart, money
      <3>2. SameSession(q, q)
        BY DEF SameSession
      <3>3. QED
        BY <1>7, <3>1, <3>2
    <2>2. CASE EmployeePause(c)
      <3>1. /\ clients'[c] = PauseRecord(clients[c], now)
            /\ \A d \in Clients : d # c => clients'[d] = clients[d]
            /\ UNCHANGED <<log, sessions, now>>
        BY <1>1, <2>2 DEF EmployeePause, money, auxiliary
      <3>2. \/ SameSession(clients'[c], clients[c])
            \/ GoesOn(clients'[c], clients[c]) /\ clients[c].status # "INACTIVE"
        BY <1>1, <3>1, PauseTimes DEF SameSession
      <3>3. QED
        BY <1>6, <3>1, <3>2
    <2>3. ASSUME NEW m, SetMember(c, m) PROVE Goal
      <3>1. /\ clients'[c] = MemberRecord(clients[c], m)
            /\ \A d \in Clients : d # c => clients'[d] = clients[d]
            /\ UNCHANGED <<log, sessions, now>>
        BY <1>1, <2>3 DEF SetMember, money, auxiliary
      <3>2. QED
        BY <1>1, <1>6, <3>1, SetTimes
    <2>4. ASSUME NEW t, SetTimeout(c, t) PROVE Goal
      <3>1. /\ clients'[c] = TimeoutRecord(clients[c], t)
            /\ \A d \in Clients : d # c => clients'[d] = clients[d]
            /\ UNCHANGED <<log, sessions, now>>
        BY <1>1, <2>4 DEF SetTimeout, money, auxiliary
      <3>2. QED
        BY <1>1, <1>6, <3>1, SetTimes
    <2>5. ASSUME NEW mode, ToggleAllow(c, mode) PROVE Goal
      BY <1>4, <2>5 DEF ToggleAllow, records, money, auxiliary
    <2>6. QED
      BY <1>15, <1>17, <1>18, <2>1, <2>2, <2>3, <2>4, <2>5 DEF Employee
  <1>19. ASSUME NEW c \in Clients, Workstation(c) PROVE Goal
    BY <1>4, <1>19
       DEF Workstation, CustomerLogin, Login, CustomerExit, Poll, Reconnect, records,
           money, auxiliary
  <1>20. ASSUME NEW flag \in {"PAID", "CANCELED"}, Settled(flag) PROVE Goal
    <2>1. /\ log' = SettledLog(cashing.row, cashing.price, flag)
          /\ UNCHANGED <<clients, sessions, now>> /\ cashing # NoSession
      BY <1>20 DEF Settled, SettledLog, auxiliary
    <2>2. \A x \in log : x.id = cashing.row => x.price = cashing.price
      BY <2>1 DEF CashInv, CashingShowsUnpaid, LogOK, RowsOK, IdsDiffer
    <2>3. /\ Once(clients, log', sessions, now)
          /\ \A x \in log : \E y \in log' : y.session = x.session /\ y.price = x.price
      BY <2>1, <2>2, SettledOnce DEF OnceNow
    <2>4. \A x \in log : x.price >= x.price
      BY DEF LogOK, RowsOK, SessionRow
    <2>5. ChargesStay
      BY <2>3, <2>4 DEF ChargesStay
    <2>6. QED
      BY <2>1, <2>3, <2>5 DEF OnceNow
  <1>21. CASE Counter
    BY <1>4, <1>20, <1>21
       DEF Counter, Cash, Cancel, Select, ShowOther, PayAccount, records, money, auxiliary
  <1>22. CASE Tick
    <2>1. UNCHANGED <<clients, log, sessions>> /\ now' = now + 1
      BY <1>22 DEF Tick, records, money, auxiliary
    <2>2. Once(clients, log, sessions, now + 1)
      BY <1>1, LaterOnce DEF OnceNow
    <2>3. QED
      BY <1>3, <2>1, <2>2 DEF OnceNow
  <1>23. CASE UNCHANGED vars
    BY <1>4, <1>23 DEF vars, records, money, auxiliary
  <1>24. QED
    BY <1>13, <1>16, <1>18, <1>19, <1>21, <1>22, <1>23 DEF Next

-----------------------------------------------------------------------------
(* When prices are fair: nobody is attached to two workstations, so that   *)
(* nobody is charged at one while he is at the other.                      *)

FairInv == OneHolder /\ HolderIsIn /\ FairPrices

\* Three kinds of steps at workstation c: who is there stays,
LEMMA StaysFair ==
  ASSUME FairInv, NEW c \in Clients, UNCHANGED <<credit, loggedIn>>,
         \A d \in Clients : d # c => clients'[d] = clients[d],
         clients'[c].member = clients[c].member,
         clients[c].member # 0 => clients'[c].status # "INACTIVE"
  PROVE  FairInv'
  BY DEF FairInv, OneHolder, HolderIsIn, FairPrices

\* or leaves, and at most his own credit changes,
LEMMA LeavesFair ==
  ASSUME FairInv, TicketsNotShared, NEW c \in Clients,
         \A d \in Clients : d # c => clients'[d] = clients[d],
         clients'[c].member = 0, loggedIn \ {clients[c].member} \subseteq loggedIn',
         \A m : m # clients[c].member => credit'[m] = credit[m]
  PROVE  FairInv'
  <1>1. \A d \in Clients : d # c /\ clients[d].member # 0
                           => clients[d].member # clients[c].member
    BY DEF FairInv, OneHolder, TicketsNotShared
  <1>2. OneHolder'
    BY DEF FairInv, OneHolder
  <1>3. HolderIsIn' /\ FairPrices'
    BY <1>1 DEF FairInv, HolderIsIn, FairPrices
  <1>4. QED
    BY <1>2, <1>3 DEF FairInv

\* or account m logs in.
LEMMA EntersFair ==
  ASSUME FairInv, NEW c \in Clients, NEW m, m # 0,
         \A d \in Clients : d # c => clients'[d] = clients[d],
         clients'[c].member = m, clients'[c].status = "ACTIVE",
         loggedIn' = loggedIn \cup {m}, m \in Tickets \/ m \notin loggedIn,
         UNCHANGED credit, credit[m] >= 0
  PROVE  FairInv'
  <1>1. m \notin Tickets => \A d \in Clients : clients[d].member # m
    BY DEF FairInv, HolderIsIn
  <1>2. OneHolder'
    BY <1>1 DEF FairInv, OneHolder
  <1>3. HolderIsIn' /\ FairPrices'
    BY DEF FairInv, HolderIsIn, FairPrices
  <1>4. QED
    BY <1>2, <1>3 DEF FairInv

\* Without the commands that stop a session or set a member by hand, every step
\* keeps prices fair.
LEMMA FairNext ==
  ASSUME Commands \cap {"stop", "member"} = {}, CafeInv, AccountsOK, CashInv,
         TicketsNotShared, FairInv, [Next]_vars
  PROVE  FairInv'
  <1>1. /\ now \in Nat /\ sessions + 1 \in Nat /\ clients = [c \in Clients |-> clients[c]]
        /\ \A c \in Clients :
             /\ clients[c] \in Record(Members) /\ clients[c].status \in Status
             /\ clients[c].member \in Members \cup {0}
             /\ clients[c].member # 0 => clients[c].status # "INACTIVE"
    BY DEF CafeInv, RecordsGood, Record, FairInv, FairPrices
  <1>2. UNCHANGED <<clients, credit, loggedIn>> => FairInv'
    BY DEF FairInv, OneHolder, HolderIsIn, FairPrices
  <1>3. ASSUME NEW c \in Clients, UNCHANGED <<credit, loggedIn>>,
               clients'[c] = StartRecord(clients[c], now, sessions + 1),
               \A d \in Clients : d # c => clients'[d] = clients[d]
        PROVE  FairInv'
    <2>1. /\ StartRecord(clients[c], now, sessions + 1).status = "ACTIVE"
          /\ StartRecord(clients[c], now, sessions + 1).member = clients[c].member
      BY <1>1 DEF StartRecord, ResetRecord, EmptyRecord, Record, Status
    <2>2. QED
      BY <1>3, <2>1, StaysFair
  <1>4. ASSUME NEW c \in Clients, Receive(c) PROVE FairInv'
    <2>1. CASE UsedUp(c)
      <3>1. StopRecord(clients[c], now) \in Record(Members)
        BY CallsGood DEF Good
      <3>2. MemberRecord(StopRecord(clients[c], now), 0).member = 0
        BY <1>1, <3>1, MemberOf
      <3>3. /\ clients'[c].member = 0 /\ \A d \in Clients : d # c => clients'[d] = clients[d]
            /\ credit' = [credit EXCEPT ![clients[c].member] = 0]
            /\ loggedIn' = loggedIn \ {clients[c].member}
        BY <1>1, <1>4, <2>1, <3>2 DEF Receive, Settle
      <3>4. \A m : m # clients[c].member => credit'[m] = credit[m]
        BY <3>3
      <3>5. QED
        BY <3>3, <3>4, LeavesFair
    <2>2. QED
      BY <1>2, <1>4, <2>1 DEF Receive, money
  <1>5. ASSUME NEW c \in Clients, HandleExit(c) PROVE FairInv'
    <2>1. \A d \in Clients : d # c => clients'[d] = clients[d]
      BY <1>1, <1>5 DEF HandleExit, ExitPostpaid, ExitMember, ExitIdle
    <2>2. StopRecord(clients[c], now) \in Record(Members)
          /\ StopRecord(clients[c], now).member = clients[c].member
      BY <1>1, CallsGood, MemberOf DEF Good
    <2>3. clients'[c].member = 0
      <3>1. CASE ExitPostpaid(c)
        BY <1>1, <2>2, <3>1 DEF ExitPostpaid
      <3>2. CASE ExitMember(c)
        BY <1>1, <2>2, <3>2, MemberOf DEF ExitMember
      <3>3. CASE ExitIdle(c)
        BY <1>1, <3>3 DEF ExitIdle, ResetRecord, EmptyRecord
      <3>4. QED
        BY <1>5, <3>1, <3>2, <3>3 DEF HandleExit
    <2>4. /\ loggedIn \ {clients[c].member} \subseteq loggedIn'
          /\ \A m : m # clients[c].member => credit'[m] = credit[m]
      <3>1. CASE ExitPostpaid(c) \/ ExitIdle(c)
        BY <3>1 DEF ExitPostpaid, ExitIdle, money
      <3>2. CASE ExitMember(c)
        <4>1. /\ credit' = [credit EXCEPT ![clients[c].member] = @ - Owed(c)]
              /\ loggedIn' = loggedIn \ {clients[c].member}
          BY <3>2 DEF ExitMember
        <4>2. QED
          BY <4>1
      <3>3. QED
        BY <1>5, <3>1, <3>2 DEF HandleExit
    <2>5. QED
      BY <2>1, <2>3, <2>4, LeavesFair
  <1>6. ASSUME NEW c \in Clients, HandleLogin(c) PROVE FairInv'
    <2> DEFINE m == handling[c].member
    <2>1. m \in Members \cup {0}
      BY DEF CafeInv, NetworkOK, Req
    <2>2. CASE LoginUser(c)
      <3>1. /\ UNCHANGED <<credit, loggedIn>>
            /\ clients'[c] = StartRecord(clients[c], now, sessions + 1)
            /\ \A d \in Clients : d # c => clients'[d] = clients[d]
        BY <1>1, <2>2 DEF LoginUser, LoginRecord, money
      <3>2. QED
        BY <1>3, <3>1
    <2>3. CASE m # 0 /\ LoginMember(c, m)
      <3>1. LoginRecord(c, m) = StartRecord(clients[c], now, sessions + 1)
        BY <2>3 DEF CashInv, LeftUnattached, LoginRecord
      <3>2. /\ loggedIn' = loggedIn \cup {m} /\ (m \in Tickets \/ m \notin loggedIn)
            /\ credit[m] > MinCredit /\ UNCHANGED credit
            /\ clients'[c] = MemberRecord(LoginRecord(c, m), m)
            /\ \A d \in Clients : d # c => clients'[d] = clients[d]
        BY <1>1, <2>3 DEF LoginMember, MayLogin
      <3>3. LoginRecord(c, m) \in Record(Members) /\ LoginRecord(c, m).status = "ACTIVE"
        BY <1>1, <3>1, CallsInUse, CallsGood DEF Good
      <3>4. clients'[c].member = m /\ clients'[c].status = "ACTIVE"
        BY <3>2, <3>3 DEF MemberRecord, Record
      <3>5. credit[m] >= 0
        <4>1. credit[m] \in Int /\ MinCredit \in Nat
          BY <2>1, <2>3, NumbersAssumption DEF AccountsOK
        <4>2. QED
          BY <3>2, <4>1
      <3> HIDE DEF m
      <3>6. QED
        BY <2>3, <3>2, <3>4, <3>5, EntersFair
    <2>4. QED
      BY <1>2, <1>6, <2>1, <2>2, <2>3 DEF HandleLogin, records, money
  <1>7. ASSUME NEW c \in Clients, Thread(c) PROVE FairInv'
    BY <1>2, <1>4, <1>5, <1>6, <1>7 DEF Thread, HandleOwed, HandleStatus, records, money
  <1>8. ASSUME NEW c \in Clients, Employee(c) PROVE FairInv'
    <2>1. CASE EmployeeStart(c)
      <3>1. /\ UNCHANGED <<credit, loggedIn>>
            /\ clients'[c] = StartRecord(clients[c], now, sessions + 1)
            /\ \A d \in Clients : d # c => clients'[d] = clients[d]
        BY <1>1, <2>1 DEF EmployeeStart, money
      <3>2. QED
        BY <1>3, <3>1
    <2>2. CASE EmployeePause(c)
      <3>1. /\ UNCHANGED <<credit, loggedIn>>
            /\ clients'[c] = PauseRecord(clients[c], now)
            /\ \A d \in Clients : d # c => clients'[d] = clients[d]
        BY <1>1, <2>2 DEF EmployeePause, money
      <3>2. /\ PauseRecord(clients[c], now).member = clients[c].member
            /\ PauseRecord(clients[c], now) = clients[c]
               \/ PauseRecord(clients[c], now).status # "INACTIVE"
        BY <1>1, MemberOf, PauseTimes DEF GoesOn
      <3>3. clients[c].member # 0 => clients'[c].status # "INACTIVE"
        BY <1>1, <3>1, <3>2
      <3>4. QED
        BY <3>1, <3>2, <3>3, StaysFair
    <2>3. CASE EmployeeUnstop(c)
      <3> DEFINE u == UnstopRecord(clients[c], now)
      <3>1. u \in Record(Members) /\ u.member = clients[c].member
            /\ (u = clients[c] \/ u.status # "INACTIVE")
        BY <1>1, CallsGood, MemberOf, UnstopTimes DEF Good
      <3>2. /\ UNCHANGED <<credit, loggedIn>> /\ clients'[c] = UnpauseRecord(u)
            /\ \A d \in Clients : d # c => clients'[d] = clients[d]
        BY <1>1, <2>3 DEF EmployeeUnstop
      <3> HIDE DEF u
      <3>3. UnpauseRecord(u) = u \/ UnpauseRecord(u).status = "ACTIVE"
        BY <1>1, <3>1, PauseTimes
      <3>4. UnpauseRecord(u).member = clients[c].member
        BY <3>1 DEF UnpauseRecord, Record
      <3>5. clients[c].member # 0 => clients'[c].status # "INACTIVE"
        BY <1>1, <3>1, <3>2, <3>3
      <3>6. QED
        BY <3>2, <3>4, <3>5, StaysFair
    <2>4. ASSUME NEW t, SetTimeout(c, t) PROVE FairInv'
      <3>1. /\ UNCHANGED <<credit, loggedIn>>
            /\ clients'[c] = TimeoutRecord(clients[c], t)
            /\ \A d \in Clients : d # c => clients'[d] = clients[d]
        BY <1>1, <2>4 DEF SetTimeout, money
      <3>2. /\ TimeoutRecord(clients[c], t).member = clients[c].member
            /\ TimeoutRecord(clients[c], t).status = clients[c].status
        BY <1>1, StatusOf, MemberOf
      <3>3. QED
        BY <1>1, <3>1, <3>2, StaysFair
    <2>5. ASSUME NEW mode, ToggleAllow(c, mode) PROVE FairInv'
      BY <1>2, <2>5 DEF ToggleAllow, records, money
    <2>6. ~EmployeeStop(c) /\ \A m : ~SetMember(c, m)
      BY DEF EmployeeStop, SetMember
    <2>7. QED
      BY <1>8, <2>1, <2>2, <2>3, <2>4, <2>5, <2>6 DEF Employee
  <1>9. ASSUME NEW c \in Clients, Printed(c) PROVE FairInv'
    <2> DEFINE u == UnstopRecord(clients[c], now)
    <2>1. u \in Record(Members) /\ u.member = clients[c].member
      BY <1>1, CallsGood, MemberOf DEF Good
    <2>2. /\ clients'[c] = StopRecord(u, now) /\ clients[c].status = "INACTIVE"
          /\ \A d \in Clients : d # c => clients'[d] = clients[d]
          /\ UNCHANGED <<credit, loggedIn>>
      BY <1>1, <1>9 DEF Printed
    <2> HIDE DEF u
    <2>3. StopRecord(u, now).member = clients[c].member
      BY <1>1, <2>1, MemberOf
    <2>4. QED
      BY <1>1, <2>2, <2>3, StaysFair
  <1>10. ASSUME NEW m \in Members, NEW amount, PayAccount(m, amount) PROVE FairInv'
    <2>1. /\ UNCHANGED <<clients, loggedIn>> /\ credit[m] + amount >= 0
          /\ credit' = [credit EXCEPT ![m] = credit[m] + amount]
      BY <1>10 DEF PayAccount, records
    <2>2. credit'[m] >= 0 /\ \A x : x # m => credit'[x] = credit[x]
      BY <2>1 DEF AccountsOK
    <2>3. FairPrices'
      BY <2>1, <2>2 DEF FairInv, FairPrices
    <2>4. QED
      BY <2>1, <2>3 DEF FairInv, OneHolder, HolderIsIn
  <1>11. CASE Counter
    BY <1>2, <1>10, <1>11
       DEF Counter, Cash, Cancel, Settled, Select, ShowOther, records, money
  <1>12. ASSUME NEW c \in Clients, Workstation(c) PROVE FairInv'
    BY <1>2, <1>12
       DEF Workstation, CustomerLogin, Login, CustomerExit, Poll, Reconnect, records, money
  <1>13. CASE Tick \/ UNCHANGED vars
    BY <1>2, <1>13 DEF Tick, vars, records, money
  <1>14. QED
    BY <1>7, <1>8, <1>9, <1>11, <1>12, <1>13 DEF Next

\* Prices are fair, and the cashing frame shows what is on the unpaid list, in a
\* café without accounts, and in one whose employees do not stop sessions or set
\* members by hand.
LEMMA FairInvariant ==
  ASSUME Members = {} \/ Commands \cap {"stop", "member"} = {}
  PROVE  Spec /\ []TicketsNotShared => [](FairPrices /\ CashInv)
  <1>1. CafeTypes => CafeInv /\ LogOK /\ AccountsOK
    BY DEF CafeTypes
  <1>2. Init => CashInv
    BY DEF Init, CashInv, LeftUnattached, CashingShowsUnpaid
  <1>3. CASE Members = {}
    <2>1. CafeInv => FairPrices /\ LeftUnattached
      BY <1>3 DEF CafeInv, RecordsGood, Record, FairPrices, LeftUnattached
    <2>2. CafeInv' => LeftUnattached'
      BY <1>3 DEF CafeInv, RecordsGood, Record, LeftUnattached
    <2>3. CafeInv' /\ CashInv /\ [Next]_vars => CashInv'
      BY <2>2, CashNext DEF CashInv
    <2>4. QED
      BY <1>2, <2>1, <2>3, CafeInvariant, PTL DEF Spec
  <1>4. CASE Commands \cap {"stop", "member"} = {}
    <2>1. CafeInv /\ CashInv /\ [Next]_vars => CashInv'
      BY <1>4, CashNext, UnattachedNext DEF CashInv
    <2>2. Init => FairInv
      BY DEF Init, EmptyRecord, FairInv, OneHolder, HolderIsIn, FairPrices
    <2>3. CafeInv /\ AccountsOK /\ CashInv /\ TicketsNotShared /\ FairInv /\ [Next]_vars
          => FairInv'
      BY <1>4, FairNext
    <2>4. FairInv => FairPrices
      BY DEF FairInv
    <2>5. QED
      BY <1>1, <1>2, <2>1, <2>2, <2>3, <2>4, TypesInvariant, PTL DEF Spec
  <1>5. QED
    BY <1>3, <1>4

LEMMA OnceInvariant ==
  ASSUME Members = {} \/ Commands \cap {"stop", "member"} = {}
  PROVE  Spec /\ []TicketsNotShared => []OnceNow
  <1>1. Init => OnceNow
    <2>1. ASSUME Init PROVE Once(clients, {}, 0, 1)
      <3>1. CafeTypes
        BY <2>1, InitTypes
      <3>2. Typed(clients, {}, 0, 1)
        BY <3>1 DEF Typed, CafeTypes, CafeInv, RecordsGood
      <3>3. \A c \in Clients : clients[c].session = 0 /\ ~HasSession(clients[c])
        BY <2>1 DEF Init, EmptyRecord, HasSession
      <3>4. QED
        BY <3>2, <3>3
           DEF Once, SessionsDiffer, RowsKnown, RowsInOrder, RowsInLine, OneRow
    <2>2. QED
      BY <2>1 DEF Init, OnceNow
  <1>2. CafeTypes => CafeInv /\ LogOK /\ AccountsOK
    BY DEF CafeTypes
  <1>3. CafeInv /\ CafeInv' /\ LogOK /\ AccountsOK /\ CashInv /\ FairPrices /\ OnceNow
        /\ [Next]_vars => OnceNow'
    BY OnceNext
  <1>4. QED
    BY <1>1, <1>2, <1>3, FairInvariant, TypesInvariant, PTL DEF Spec

\* Nobody is charged twice for a session, whatever the customers, the threads, the
\* print server, the counter and the employees do, in a café without accounts, and
\* in one with accounts whose employees leave stopping to the customers, set no
\* member by hand, and whose tickets are not shared: although CCL_client_unstop
\* finds the row it takes back by workstation and times only, and ids are used again.
THEOREM SessionsChargedOnce ==
  ASSUME Members = {} \/ Commands \cap {"stop", "member"} = {}
  PROVE  Spec /\ []TicketsNotShared => []ChargedOnce
  <1>1. OnceNow => ChargedOnce
    BY DEF OnceNow, Once, RowsKnown, OneRow, ChargedOnce
  <1>2. QED
    BY <1>1, OnceInvariant, PTL

\* What was charged for stays in the log, in the same cafés: a row is taken back,
\* or replaced by a cheaper one, only when its session goes on at its workstation.
THEOREM ChargesAreKept ==
  ASSUME Members = {} \/ Commands \cap {"stop", "member"} = {},
         0 < MaxTime, MaxTime < UInts
  PROVE  Spec /\ []TicketsNotShared => RowsKept
  <1> DEFINE Kept ==
        \A row \in log :
          row.price > 0 /\ (\A r \in log' : r.session = row.session => r.price < row.price)
          => /\ clients'[row.client].session = row.session
             /\ clients'[row.client].status = "ACTIVE"
  <1>1. /\ CafeTypes => CafeInv /\ LogOK /\ AccountsOK
        /\ CafeInv /\ WithinBounds => now < UInts
    BY NumbersAssumption DEF CafeTypes, CafeInv, WithinBounds
  <1>2. Init => WithinBounds
    BY InitBounds
  <1>3. CafeInv /\ AccountsOK /\ WithinBounds /\ [Next]_vars => WithinBounds'
    BY BoundsNext
  <1>4. CafeInv /\ CafeInv' /\ LogOK /\ AccountsOK /\ CashInv /\ FairPrices /\ OnceNow
        /\ now < UInts /\ [Next]_vars => ChargesStay
    BY OnceNext
  <1>5. LogOK /\ LogOK' /\ ChargesStay => Kept
    <2>1. ASSUME LogOK, LogOK', NEW x \in log, NEW y \in log', y.price >= x.price
          PROVE  ~(y.price < x.price)
      BY <2>1 DEF LogOK, RowsOK, SessionRow
    <2>2. QED
      BY <2>1 DEF ChargesStay
  <1>6. CafeTypes /\ CafeTypes' /\ CashInv /\ FairPrices /\ OnceNow /\ WithinBounds
        /\ [Next]_vars => [Kept]_vars
    BY <1>1, <1>4, <1>5 DEF CafeTypes
  <1>7. RowsKept <=> [][Kept]_vars
    BY DEF RowsKept
  <1> HIDE DEF Kept
  <1>8. QED
    BY <1>1, <1>2, <1>3, <1>6, <1>7, FairInvariant, OnceInvariant, TypesInvariant, PTL
       DEF Spec

-----------------------------------------------------------------------------
(* No session is lost.  Where nobody suspends sessions, a session that is   *)
(* going on ends only by a stop, and every stop writes a row.               *)

NoneSuspended == \A c \in Clients : clients[c].status # "PAUSED"

\* A session that is going on stays on its workstation, or has a row.
SessionsStay ==
  \A c \in Clients :
    clients[c].status # "INACTIVE"
    => \/ clients'[c].status # "INACTIVE" /\ clients'[c].session = clients[c].session
       \/ \E row \in log' : row.session = clients[c].session

\* What the calls make of a record that is not suspended
LEMMA CallsStay ==
  ASSUME NEW r \in Record(Members), r.status # "PAUSED", NEW t, NEW n, NEW m
  PROVE  /\ StartRecord(r, t, n).status = "ACTIVE"
         /\ r.status = "ACTIVE" => StartRecord(r, t, n) = r /\ UnstopRecord(r, t) = r
         /\ UnstopRecord(r, t).status # "PAUSED"
         /\ StopRecord(r, t).status # "PAUSED" /\ StopRecord(r, t).session = r.session
         /\ UnpauseRecord(r) = r
         /\ MemberRecord(r, m).status = r.status /\ MemberRecord(r, m).session = r.session
         /\ TimeoutRecord(r, n).status = r.status /\ TimeoutRecord(r, n).session = r.session
  <1>1. r.status \in {"ACTIVE", "INACTIVE"}
    BY DEF Record, Status
  <1>2. /\ StartRecord(r, t, n).status = "ACTIVE"
        /\ r.status = "ACTIVE" => StartRecord(r, t, n) = r /\ UnstopRecord(r, t) = r
        /\ UnpauseRecord(r) = r
    BY <1>1 DEF StartRecord, ResetRecord, EmptyRecord, UnstopRecord, UnpauseRecord
  <1>3. UnstopRecord(r, t).status # "PAUSED"
    BY <1>1 DEF UnstopRecord, TimeoutRecord, Record
  <1>4. StopRecord(r, t).status # "PAUSED" /\ StopRecord(r, t).session = r.session
    BY <1>1 DEF StopRecord, Record
  <1>5. /\ MemberRecord(r, m).status = r.status /\ MemberRecord(r, m).session = r.session
        /\ TimeoutRecord(r, n).status = r.status /\ TimeoutRecord(r, n).session = r.session
    BY DEF MemberRecord, TimeoutRecord, Record
  <1>6. QED
    BY <1>2, <1>3, <1>4, <1>5

\* CCL_log_session of a stopped session leaves a row about it.
LEMMA LoggedHasRow ==
  ASSUME NEW rows, NEW c, NEW r, NEW price, NEW flag, NEW payer, r.status = "INACTIVE"
  PROVE  \E row \in LoggedAfter(rows, c, r, price, flag, payer) : row.session = r.session
  <1> DEFINE row == NewRow(rows, c, r, price, flag, payer)
  <1>1. row.session = r.session
    BY DEF NewRow
  <1>2. row \in LoggedAfter(rows, c, r, price, flag, payer)
    BY DEF LoggedAfter, NewRow
  <1> HIDE DEF row
  <1>3. QED
    BY <1>1, <1>2

LEMMA StayNext ==
  ASSUME "pause" \notin Commands, CafeInv, NoneSuspended, [Next]_vars
  PROVE  NoneSuspended' /\ SessionsStay
  <1> DEFINE Goal == NoneSuspended' /\ SessionsStay
  <1>1. /\ now \in Nat /\ clients = [c \in Clients |-> clients[c]]
        /\ \A c \in Clients : clients[c] \in Record(Members) /\ clients[c].status # "PAUSED"
    BY DEF CafeInv, RecordsGood, NoneSuspended
  <1>2. UNCHANGED clients => Goal
    BY DEF NoneSuspended, SessionsStay
  <1>3. ASSUME NEW c \in Clients, \A d \in Clients : d # c => clients'[d] = clients[d],
               clients'[c].status # "PAUSED",
               clients[c].status = "ACTIVE" =>
                 \/ clients'[c].status # "INACTIVE"
                    /\ clients'[c].session = clients[c].session
                 \/ \E row \in log' : row.session = clients[c].session
        PROVE  Goal
    <2>1. clients[c].status \in {"ACTIVE", "INACTIVE"}
      BY <1>1 DEF Record, Status
    <2>2. NoneSuspended' /\ SessionsStay
      BY <1>1, <1>3, <2>1 DEF NoneSuspended, SessionsStay
    <2>3. QED
      BY <2>2
  <1>4. ASSUME NEW c \in Clients, clients[c].status = "ACTIVE",
               \A d \in Clients : d # c => clients'[d] = clients[d],
               clients'[c] \in {StopRecord(clients[c], now),
                                MemberRecord(StopRecord(clients[c], now), 0)},
               NEW r \in {StopRecord(clients[c], now),
                          MemberRecord(StopRecord(clients[c], now), 0)},
               NEW price, NEW flag, NEW payer,
               log' = LoggedAfter(log, c, r, price, flag, payer)
        PROVE  Goal
    <2>1. /\ StopRecord(clients[c], now) \in Record(Members)
          /\ StopRecord(clients[c], now).status = "INACTIVE"
          /\ StopRecord(clients[c], now).session = clients[c].session
      BY <1>1, <1>4, StoppedIsLogged, CallsStay
    <2>2. /\ r.status = "INACTIVE" /\ r.session = clients[c].session
          /\ clients'[c].status = "INACTIVE"
      BY <1>4, <2>1, CallsStay
    <2>3. \E row \in log' : row.session = clients[c].session
      BY <1>4, <2>2, LoggedHasRow
    <2>4. QED
      BY <1>3, <1>4, <2>2, <2>3
  <1>5. ASSUME NEW c \in Clients, Receive(c) PROVE Goal
    <2>1. CASE UsedUp(c)
      <3> DEFINE r == MemberRecord(StopRecord(clients[c], now), 0)
      <3>1. /\ clients'[c] = r /\ \A d \in Clients : d # c => clients'[d] = clients[d]
            /\ log' = LoggedAfter(log, c, r, credit[clients[c].member], "PAID",
                                  clients[c].member)
        BY <1>1, <1>5, <2>1 DEF Receive, Settle, Logged
      <3>2. CASE clients[c].status = "ACTIVE"
        BY <1>4, <3>1, <3>2
      <3>3. CASE clients[c].status # "ACTIVE"
        <4>1. StopRecord(clients[c], now) = clients[c]
          BY <3>3 DEF StopRecord
        <4>2. r.status = clients[c].status
          BY <1>1, <4>1, CallsStay
        <4>3. QED
          BY <1>1, <1>3, <3>1, <3>3, <4>2
      <3>4. QED
        BY <3>2, <3>3
    <2>2. QED
      BY <1>2, <1>5, <2>1 DEF Receive
  <1>6. ASSUME NEW c \in Clients, HandleExit(c) PROVE Goal
    <2>1. CASE ExitPostpaid(c)
      <3>1. /\ clients[c].status = "ACTIVE" /\ clients'[c] = StopRecord(clients[c], now)
            /\ \A d \in Clients : d # c => clients'[d] = clients[d]
            /\ log' = LoggedAfter(log, c, StopRecord(clients[c], now), Owed(c), "NOTPAID", 0)
        BY <1>1, <2>1 DEF ExitPostpaid, Logged
      <3>2. QED
        BY <1>4, <3>1
    <2>2. CASE ExitMember(c)
      <3>1. /\ clients[c].status = "ACTIVE"
            /\ clients'[c] = MemberRecord(StopRecord(clients[c], now), 0)
            /\ \A d \in Clients : d # c => clients'[d] = clients[d]
            /\ log' = LoggedAfter(log, c, StopRecord(clients[c], now), Owed(c), "PAID",
                                  clients[c].member)
        BY <1>1, <2>2 DEF ExitMember, Logged
      <3>2. QED
        BY <1>4, <3>1
    <2>3. CASE ExitIdle(c)
      <3>1. /\ clients[c].status # "ACTIVE" /\ clients'[c].status = "INACTIVE"
            /\ \A d \in Clients : d # c => clients'[d] = clients[d]
        BY <1>1, <2>3 DEF ExitIdle, ResetRecord, EmptyRecord
      <3>2. QED
        BY <1>3, <3>1
    <2>4. QED
      BY <1>6, <2>1, <2>2, <2>3 DEF HandleExit
  <1>7. ASSUME NEW c \in Clients, \A d \in Clients : d # c => clients'[d] = clients[d],
               NEW q \in {StartRecord(clients[c], now, sessions + 1),
                          UnstopRecord(clients[c], now)},
               NEW m \in Members, clients'[c] \in {q, MemberRecord(q, m)}
        PROVE  Goal
    <2>1. q.status # "PAUSED" /\ (clients[c].status = "ACTIVE" => q = clients[c])
      BY <1>1, <1>7, CallsStay
    <2>2. q \in Record(Members)
      BY <1>7, CallsGood DEF Good
    <2>3. clients'[c].status = q.status /\ clients'[c].session = q.session
      BY <1>7, <2>1, <2>2, CallsStay
    <2>4. QED
      BY <1>3, <1>7, <2>1, <2>3
  <1>8. ASSUME NEW c \in Clients, \A d \in Clients : d # c => clients'[d] = clients[d],
               clients'[c] = StartRecord(clients[c], now, sessions + 1)
        PROVE  Goal
    <2>1. /\ clients'[c].status = "ACTIVE"
          /\ clients[c].status = "ACTIVE" => clients'[c] = clients[c]
      BY <1>1, <1>8, CallsStay
    <2>2. QED
      BY <1>3, <1>8, <2>1
  <1>9. ASSUME NEW c \in Clients, HandleLogin(c) PROVE Goal
    <2> DEFINE m == handling[c].member
    <2>1. m \in Members \cup {0}
      BY DEF CafeInv, NetworkOK, Req
    <2>2. CASE LoginUser(c)
      BY <1>1, <1>8, <2>2 DEF LoginUser, LoginRecord
    <2>3. CASE m # 0 /\ LoginMember(c, m)
      <3>1. /\ clients'[c] = MemberRecord(LoginRecord(c, m), m)
            /\ \A d \in Clients : d # c => clients'[d] = clients[d]
        BY <1>1, <2>3 DEF LoginMember
      <3>2. LoginRecord(c, m) \in {StartRecord(clients[c], now, sessions + 1),
                                   UnstopRecord(clients[c], now)}
        BY DEF LoginRecord
      <3> HIDE DEF m
      <3>3. QED
        BY <1>7, <2>1, <2>3, <3>1, <3>2
    <2>4. QED
      BY <1>2, <1>9, <2>1, <2>2, <2>3 DEF HandleLogin, records
  <1>10. ASSUME NEW c \in Clients, Thread(c) PROVE Goal
    BY <1>2, <1>5, <1>6, <1>9, <1>10 DEF Thread, HandleOwed, HandleStatus, records
  <1>11. ASSUME NEW c \in Clients, EmployeeStop(c) PROVE Goal
    <2>1. CASE StopMember(c)
      <3>1. /\ clients[c].status = "ACTIVE" /\ clients'[c] = StopRecord(clients[c], now)
            /\ \A d \in Clients : d # c => clients'[d] = clients[d]
            /\ log' = LoggedAfter(log, c, StopRecord(clients[c], now), Owed(c), "PAID",
                                  clients[c].member)
        BY <1>1, <2>1 DEF StopMember, Logged
      <3>2. QED
        BY <1>4, <3>1
    <2>2. CASE StopPostpaid(c)
      <3>1. /\ clients[c].status = "ACTIVE" /\ clients'[c] = StopRecord(clients[c], now)
            /\ \A d \in Clients : d # c => clients'[d] = clients[d]
            /\ log' = LoggedAfter(log, c, StopRecord(clients[c], now), Owed(c), "NOTPAID", 0)
        BY <1>1, <2>2 DEF StopPostpaid, Logged
      <3>2. QED
        BY <1>4, <3>1
    <2>3. QED
      BY <1>2, <1>11, <2>1, <2>2 DEF EmployeeStop, StopIdle
  <1>12. ASSUME NEW c \in Clients, EmployeeUnstop(c) PROVE Goal
    <2> DEFINE u == UnstopRecord(clients[c], now)
    <2>1. /\ u \in Record(Members) /\ u.status # "PAUSED"
          /\ clients[c].status = "ACTIVE" => u = clients[c]
      <3>1. u \in Record(Members)
        BY CallsGood DEF Good
      <3>2. clients[c] \in Record(Members) /\ clients[c].status # "PAUSED"
        BY <1>1
      <3>3. QED
        BY <3>1, <3>2, CallsStay
    <2>2. clients'[c] = UnpauseRecord(u) /\ \A d \in Clients : d # c => clients'[d] = clients[d]
      BY <1>1, <1>12 DEF EmployeeUnstop
    <2> HIDE DEF u
    <2>3. clients'[c] = u
      BY <2>1, <2>2, CallsStay
    <2>4. QED
      BY <1>3, <2>1, <2>2, <2>3
  <1>13. ASSUME NEW c \in Clients, Employee(c) PROVE Goal
    <2>1. CASE EmployeeStart(c)
      BY <1>1, <1>8, <2>1 DEF EmployeeStart
    <2>2. ASSUME NEW m, NEW t, SetMember(c, m) \/ SetTimeout(c, t) PROVE Goal
      <3>1. /\ clients'[c] \in {MemberRecord(clients[c], m), TimeoutRecord(clients[c], t)}
            /\ \A d \in Clients : d # c => clients'[d] = clients[d]
        BY <1>1, <2>2 DEF SetMember, SetTimeout
      <3>2. clients'[c].status = clients[c].status /\ clients'[c].session = clients[c].session
        BY <1>1, <3>1, CallsStay
      <3>3. QED
        BY <1>1, <1>3, <3>1, <3>2
    <2>3. ASSUME NEW mode, ToggleAllow(c, mode) PROVE Goal
      BY <1>2, <2>3 DEF ToggleAllow, records
    <2>4. ~EmployeePause(c)
      BY DEF EmployeePause
    <2>5. QED
      BY <1>11, <1>12, <1>13, <2>1, <2>2, <2>3, <2>4 DEF Employee
  <1>14. ASSUME NEW c \in Clients, Printed(c) PROVE Goal
    <2> DEFINE u == UnstopRecord(clients[c], now)
    <2>1. u \in Record(Members) /\ u.status # "PAUSED"
      <3>1. u \in Record(Members)
        BY CallsGood DEF Good
      <3>2. clients[c] \in Record(Members) /\ clients[c].status # "PAUSED"
        BY <1>1
      <3>3. QED
        BY <3>1, <3>2, CallsStay
    <2>2. /\ clients'[c] = StopRecord(u, now) /\ clients[c].status = "INACTIVE"
          /\ \A d \in Clients : d # c => clients'[d] = clients[d]
      BY <1>1, <1>14 DEF Printed
    <2> HIDE DEF u
    <2>3. clients'[c].status # "PAUSED"
      BY <2>1, <2>2, CallsStay
    <2>4. QED
      BY <1>3, <2>2, <2>3
  <1>15. ASSUME NEW c \in Clients, Workstation(c) PROVE Goal
    BY <1>2, <1>15
       DEF Workstation, CustomerLogin, Login, CustomerExit, Poll, Reconnect, records
  <1>16. CASE Counter
    BY <1>2, <1>16
       DEF Counter, Cash, Cancel, Settled, Select, ShowOther, PayAccount, records
  <1>17. CASE Tick \/ UNCHANGED vars
    BY <1>2, <1>17 DEF Tick, vars, records
  <1>18. QED
    BY <1>10, <1>13, <1>14, <1>15, <1>16, <1>17 DEF Next

\* No charged time is lost: where nobody suspends sessions, one that is going on is
\* after every step still on its workstation, or in the log (CCL_log_session after
\* each CCL_client_stop), whichever commands and requests interleave.  A suspended
\* one is lost by its customer's exit.
THEOREM SessionsAreKept ==
  ASSUME "pause" \notin Commands
  PROVE  Spec => NoSessionLost
  <1> DEFINE Kept ==
        \A c \in Clients :
          clients[c].status # "INACTIVE" /\ Owed(c) > 0
          => \/ /\ clients'[c].status # "INACTIVE"
                /\ clients'[c].session = clients[c].session
             \/ \E row \in log' : row.session = clients[c].session
  <1>1. Init => NoneSuspended
    BY DEF Init, EmptyRecord, NoneSuspended
  <1>2. CafeInv /\ NoneSuspended /\ [Next]_vars => NoneSuspended' /\ [Kept]_vars
    BY StayNext DEF SessionsStay
  <1>3. NoSessionLost <=> [][Kept]_vars
    BY DEF NoSessionLost
  <1> HIDE DEF Kept
  <1>4. QED
    BY <1>1, <1>2, <1>3, CafeInvariant, PTL DEF Spec
=============================================================================
