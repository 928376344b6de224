----------------------------- MODULE ClientTable -----------------------------
(***************************************************************************)
(* The client table and the session log of libccls: client.c, logging.c    *)
(* and the two tables of ccl.db behind them.                               *)
(*                                                                         *)
(* Every call of client.c changes a record in memory and then writes it    *)
(* back (_CCL_client_store), one autocommitted UPDATE per record.  A call  *)
(* that makes one such write is one action.  A call that makes several     *)
(* has, besides the action for the whole call, an action for each point    *)
(* at which the server can die with only some of the writes made; the      *)
(* restart that follows reads the records back (_CCL_client_restore).      *)
(***************************************************************************)
EXTENDS ClientRecord

CONSTANTS Clients,      \* ids of the workstations
          Members,      \* ids of the members a session can be charged to
          Timeouts,     \* the values the callers pass to CCL_client_timeout_set
          MaxTime,      \* bound: the clock stops here
          MaxSession,   \* bound: number of sessions ever started
          MaxIntervals, \* bound: intervals of one session
          MaxRows       \* bound: rows of the log

ASSUME BoundsAssumption ==
  /\ MaxTime \in Nat /\ MaxTime > 0
  /\ MaxSession \in Nat
  /\ MaxIntervals \in Nat
  /\ MaxRows \in Nat
ASSUME TimeoutsAssumption == Timeouts \subseteq Int
ASSUME MembersAssumption == Members \subseteq Nat \ {0}

VARIABLES clients,   \* ccl->clients, the records in memory
          stored,    \* the clients table of the database
          log,       \* the sessionslog table: a set of rows
          now,       \* time(NULL)
          sessions,  \* auxiliary: how many sessions were ever started
          torn       \* auxiliary: the sessions a half-written swap put in two
                     \* records or in none

vars == <<clients, stored, log, now, sessions, torn>>

Init ==
  /\ clients = [c \in Clients |-> EmptyRecord]
  /\ stored = clients
  /\ log = {}
  /\ now = 1
  /\ sessions = 0
  /\ torn = {}

-----------------------------------------------------------------------------
(* What the calls share *)

\* _CCL_client_store after one record was changed
Store(c, r) ==
  /\ clients' = [clients EXCEPT ![c] = r]
  /\ stored' = [stored EXCEPT ![c] = r]

\* The server dies having written s, and starts again from it.
CrashWith(s) ==
  /\ stored' = s
  /\ clients' = s

\* 1 + _highest_logged_session_id()
NextRowId == 1 + Max({row.id : row \in log} \cup {0})

\* CCL_log_session_find: a row of this client with these times
Found(c, stime, etime) ==
  {row \in log : row.client = c /\ row.stime = stime /\ row.etime = etime}

LogRow(c) ==
  [id |-> NextRowId, client |-> c, session |-> clients[c].session,
   member |-> clients[c].member,
   stime |-> STime(clients[c]), etime |-> ETime(clients[c]),
   time |-> TimeUsed(clients[c], now)]

-----------------------------------------------------------------------------
(* The calls *)

Start(c) ==
  /\ clients[c].status # "ACTIVE"
  /\ IF clients[c].status = "INACTIVE"
     THEN sessions < MaxSession /\ sessions' = sessions + 1
     ELSE Len(clients[c].intervals) < MaxIntervals /\ UNCHANGED sessions
  /\ Store(c, StartRecord(clients[c], now, sessions + 1))
  /\ UNCHANGED <<log, now, torn>>

Stop(c) ==
  /\ Store(c, StopRecord(clients[c], now))
  /\ UNCHANGED <<log, now, sessions, torn>>

Pause(c) ==
  /\ Store(c, PauseRecord(clients[c], now))
  /\ UNCHANGED <<log, now, sessions, torn>>

Unpause(c) ==
  /\ Store(c, UnpauseRecord(clients[c]))
  /\ UNCHANGED <<log, now, sessions, torn>>

Reset(c) ==
  /\ Store(c, ResetRecord(clients[c]))
  /\ UNCHANGED <<log, now, sessions, torn>>

\* Mutant: the new timeout is not written to the database.
TimeoutSetUnstored(c, t) ==
  /\ clients' = [clients EXCEPT ![c] = TimeoutRecord(@, t)]
  /\ UNCHANGED <<stored, log, now, sessions, torn>>

TimeoutSet(c, t) ==
  /\ Store(c, TimeoutRecord(clients[c], t))
  /\ UNCHANGED <<log, now, sessions, torn>>

MemberSet(c, m) ==
  /\ Store(c, MemberRecord(clients[c], m))
  /\ UNCHANGED <<log, now, sessions, torn>>

\* The rows of the stopped session are looked up by client and times, and the
\* first one found is deleted (CCL_log_session_find, CCL_log_session_clear).
ClearLogged(c) ==
  LET found == Found(c, STime(clients[c]), ETime(clients[c]))
  IN  IF found = {} THEN UNCHANGED log
      ELSE \E row \in found : log' = log \ {row}

Unstop(c) ==
  /\ clients[c].status = "INACTIVE"
  /\ HasSession(clients[c])
  /\ ClearLogged(c)
  /\ Store(c, UnstopRecord(clients[c], now))
  /\ UNCHANGED <<now, sessions, torn>>

\* Mutant: the right record is overwritten before it was saved.
SwappedUnsaved(l, r) == [clients EXCEPT ![l] = clients[r]]

\* status, intervals, timeout and member change places.
Swapped(l, r) == [clients EXCEPT ![l] = clients[r], ![r] = clients[l]]

Swap(l, r) ==
  /\ clients' = Swapped(l, r)
  /\ stored' = [stored EXCEPT ![l] = clients[r], ![r] = clients[l]]
  /\ UNCHANGED <<log, now, sessions, torn>>

\* CCL_log_session
Log(c) ==
  /\ clients[c].status = "INACTIVE"
  /\ NextRowId <= MaxRows
  /\ log' = log \cup {LogRow(c)}
  /\ UNCHANGED <<clients, stored, now, sessions, torn>>

-----------------------------------------------------------------------------
(* The environment: the clock, and the server dying *)

Tick ==
  /\ now < MaxTime
  /\ now' = now + 1
  /\ UNCHANGED <<clients, stored, log, sessions, torn>>

Restart ==
  /\ CrashWith(stored)
  /\ UNCHANGED <<log, now, sessions, torn>>

\* Start from INACTIVE stores the cleared record, then the running one.
CrashInStart(c) ==
  /\ clients[c].status = "INACTIVE"
  /\ CrashWith([stored EXCEPT ![c] = ResetRecord(clients[c])])
  /\ UNCHANGED <<log, now, sessions, torn>>

\* Unstop deletes the logged row, stores the timeout if it has expired, then
\* stores the running record.
CrashInUnstop(c) ==
  /\ clients[c].status = "INACTIVE"
  /\ HasSession(clients[c])
  /\ ClearLogged(c)
  /\ \E t \in {clients[c].timeout, UnstopRecord(clients[c], now).timeout} :
       CrashWith([stored EXCEPT ![c].timeout = t])
  /\ UNCHANGED <<now, sessions, torn>>

\* Swap stores the left record, then the right one.
CrashInSwap(l, r) ==
  /\ CrashWith([stored EXCEPT ![l] = Swapped(l, r)[l]])
  /\ torn' = IF l = r THEN torn
             ELSE torn \cup ({clients[l].session, clients[r].session} \ {0})
  /\ UNCHANGED <<log, now, sessions>>

Call(c) ==
  \/ Start(c) \/ Stop(c) \/ Pause(c) \/ Unpause(c) \/ Unstop(c)
  \/ Reset(c) \/ Log(c)
  \/ \E t \in Timeouts : TimeoutSet(c, t)
  \/ \E m \in Members \cup {0} : MemberSet(c, m)
  \/ \E r \in Clients : Swap(c, r)

Crash(c) ==
  \/ CrashInStart(c) \/ CrashInUnstop(c)
  \/ \E r \in Clients : CrashInSwap(c, r)

Next == Tick \/ Restart \/ \E c \in Clients : Call(c) \/ Crash(c)

Spec == Init /\ [][Next]_vars

-----------------------------------------------------------------------------
(* What the table guarantees *)

Row == [id : Nat, client : Clients, session : Nat, member : Members \cup {0},
        stime : Nat, etime : Nat, time : Int]

\* The records, the clock and the counters hold what the C types and the
\* callers can put there: above all no negative timeout, which
\* CCL_client_time_left would count from.
RecordsOK ==
  /\ clients \in [Clients -> Record(Members)]
  /\ stored \in [Clients -> Record(Members)]
  /\ now \in Nat /\ now > 0
  /\ sessions \in Nat
  /\ torn \subseteq Nat

\* Every variable has its type: the records and the rows of the log.
TypeOK == RecordsOK /\ log \subseteq Row

\* The records in memory are well formed (ClientRecord), and so are the
\* stored ones a restart comes back to, whatever write it died between.
AllWellFormed ==
  \A c \in Clients : WellFormed(clients[c], now) /\ WellFormed(stored[c], now)

\* Between two calls the database says what the memory says: every setter of
\* client.c stores, so that a restart between calls loses no session.
Durable == stored = clients

\* A session is held by one workstation.  Only a swap that the server did not
\* survive (client.c:404-405) puts one in two records.
SessionHeldOnce ==
  \A c, d \in Clients :
     /\ c # d
     /\ clients[c].session = clients[d].session
     /\ clients[c].session \notin torn
     => clients[c].session = 0

\* A session is held by one workstation whenever the server dies.  The code does
\* otherwise when it dies between the two stores of a swap.
HeldOnce ==
  \A c, d \in Clients :
     c # d /\ clients[c].session = clients[d].session => clients[c].session = 0

\* The time a session is charged for never shrinks while somebody holds it,
\* through stops, pauses, swaps between workstations and restarts (a session
\* that a half-written swap has torn is two sessions from then on).
TimeNeverLost ==
  [][\A c, d \in Clients :
       /\ clients[c].session \notin torn' \cup {0}
       /\ clients'[d].session = clients[c].session
       => TimeUsed(clients'[d], now') >= TimeUsed(clients[c], now)]_vars

\* A logged session was charged for no more than the time between its start
\* and its end, and ended in the past.
BilledWithinSpan ==
  \A row \in log :
    /\ 0 <= row.time /\ row.time <= row.etime - row.stime
    /\ row.etime <= now

\* client.c:271-272 on CCL_client_unstop: "it restores the state, and removes
\* the entry from the log, so everything is left as if you never stopped it".
\* After an unstop no row of the session that runs again is in the log.
UnstopRemovesEntry ==
  [][\A c \in Clients :
       Unstop(c) => \A row \in log' : row.session # clients[c].session]_vars
=============================================================================
