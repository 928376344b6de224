-------------------------- MODULE ClientTableProofs --------------------------
(***************************************************************************)
(* Theorems about ClientTable, for every number of workstations, sessions  *)
(* and intervals, and every clock.                                         *)
(*                                                                         *)
(* The inductive invariant TableInv says that every record is typed and    *)
(* well formed, that the database agrees with the memory, and that no      *)
(* record names a session that was not yet started.  The last part is what *)
(* makes the session of a new Start different from all the others, and the *)
(* second what makes a restart harmless; neither WellFormed nor            *)
(* SessionHeldOnce is inductive without them.  LogInv adds that the log is *)
(* finite and its next id a number; TimeKept is what a step does to the    *)
(* time of a session.                                                      *)
(***************************************************************************)
EXTENDS ClientTable, CafeLemmas

SessionsKnown == \A c \in Clients : clients[c].session <= sessions

TableInv ==
  /\ RecordsOK
  /\ AllWellFormed
  /\ Durable
  /\ SessionsKnown
  /\ SessionHeldOnce

AllGood == \A c \in Clients : Good(clients[c], Members, now)

\* The empty table
LEMMA InitInv == Init => TableInv
  <1> SUFFICES ASSUME Init PROVE TableInv
    OBVIOUS
  <1>1. \A c \in Clients : clients[c] = EmptyRecord /\ stored[c] = EmptyRecord
    BY DEF Init
  <1>2. EmptyRecord \in Record(Members) /\ WellFormed(EmptyRecord, now)
        /\ EmptyRecord.session = 0
    BY EmptyGood DEF Good, EmptyRecord
  <1>3. RecordsOK
    BY <1>2 DEF Init, RecordsOK
  <1>4. AllWellFormed /\ SessionsKnown /\ SessionHeldOnce /\ Durable
    BY <1>1, <1>2 DEF Init, AllWellFormed, SessionsKnown, SessionHeldOnce, Durable
  <1>5. QED
    BY <1>3, <1>4 DEF TableInv

\* A step that gives one workstation a good record of the session it had, or
\* of none, and stores it, keeps the invariant.
LEMMA StoreInv ==
  ASSUME TableInv, NEW c \in Clients, NEW r,
         Store(c, r), Good(r, Members, now),
         r.session = clients[c].session \/ r.session = 0,
         UNCHANGED <<now, sessions, torn>>
  PROVE  TableInv'
  <1>1. /\ clients' \in [Clients -> Record(Members)] /\ stored' = clients'
        /\ clients'[c] = r
        /\ \A d \in Clients : d # c => clients'[d] = clients[d]
    BY DEF TableInv, RecordsOK, Durable, Store, Good
  <1>2. RecordsOK' /\ Durable'
    BY <1>1 DEF TableInv, RecordsOK, Durable
  <1>3. AllWellFormed'
    BY <1>1 DEF TableInv, AllWellFormed, Good
  <1>4. SessionsKnown'
    BY <1>1 DEF TableInv, SessionsKnown, RecordsOK
  <1>5. SessionHeldOnce'
    BY <1>1 DEF TableInv, SessionHeldOnce
  <1>6. QED
    BY <1>2, <1>3, <1>4, <1>5 DEF TableInv

\* Every call, and every death between two writes of one, keeps the invariant.
LEMMA NextInv == TableInv /\ [Next]_vars => TableInv'
  <1> SUFFICES ASSUME TableInv, [Next]_vars PROVE TableInv'
    OBVIOUS
  <1>1. /\ clients \in [Clients -> Record(Members)] /\ stored = clients
        /\ now \in Nat /\ now > 0 /\ sessions \in Nat /\ torn \subseteq Nat
        /\ \A d \in Clients : WellFormed(clients[d], now)
    BY DEF TableInv, RecordsOK, Durable, AllWellFormed
  <1>2. ASSUME NEW c \in Clients, Start(c) PROVE TableInv'
    <2> DEFINE r == StartRecord(clients[c], now, sessions + 1)
    <2>1. Good(r, Members, now)
      BY <1>1, StartGood
    <2>2. CASE clients[c].status = "PAUSED"
      <3>1. r.session = clients[c].session
        BY <1>1, <2>2 DEF StartRecord, Record
      <3>2. QED
        BY <1>2, <2>1, <2>2, <3>1, StoreInv DEF Start
    <2>3. CASE clients[c].status = "INACTIVE"
      <3>1. r.session = sessions + 1
        BY <2>3 DEF StartRecord, ResetRecord, EmptyRecord
      <3> HIDE DEF r
      <3>2. /\ clients' \in [Clients -> Record(Members)] /\ stored' = clients'
            /\ clients'[c] = r
            /\ \A d \in Clients : d # c => clients'[d] = clients[d]
            /\ sessions' = sessions + 1 /\ UNCHANGED <<now, torn>>
        BY <1>1, <1>2, <2>1, <2>3 DEF Start, Store, Good, r
      <3>3. RecordsOK' /\ Durable' /\ AllWellFormed'
        BY <1>1, <2>1, <3>2 DEF RecordsOK, Durable, AllWellFormed, Good
      <3>4. \A d \in Clients : clients[d].session \in Nat /\ clients[d].session <= sessions
        BY <1>1 DEF TableInv, SessionsKnown, Record
      <3>5. SessionsKnown'
        BY <1>1, <3>1, <3>2, <3>4 DEF SessionsKnown
      <3>6. SessionHeldOnce'
        BY <1>1, <3>1, <3>2, <3>4 DEF TableInv, SessionHeldOnce
      <3>7. QED
        BY <3>3, <3>5, <3>6 DEF TableInv
    <2>4. QED
      BY <1>1, <1>2, <2>2, <2>3 DEF Start, Record, Status
  <1>3. ASSUME NEW c \in Clients,
               \/ Stop(c) \/ Pause(c) \/ Unpause(c) \/ Reset(c)
               \/ \E t \in Timeouts : TimeoutSet(c, t)
               \/ \E m \in Members \cup {0} : MemberSet(c, m)
               \/ Unstop(c)
        PROVE TableInv'
    <2> DEFINE q == clients[c]
    <2>1. q \in Record(Members) /\ WellFormed(q, now)
      BY <1>1
    <2>2. CASE Stop(c)
      <3>1. StopRecord(q, now).session = q.session
        BY <2>1 DEF StopRecord, Record
      <3>2. QED
        BY <1>1, <2>2, <3>1, StopGood, StoreInv DEF Stop
    <2>3. CASE Pause(c)
      <3>1. PauseRecord(q, now).session = q.session
        BY <2>1 DEF PauseRecord, Record
      <3>2. QED
        BY <1>1, <2>3, <3>1, StopGood, StoreInv DEF Pause
    <2>4. CASE Unpause(c)
      <3>1. UnpauseRecord(q).session = q.session
        BY <2>1 DEF UnpauseRecord, Record
      <3>2. QED
        BY <1>1, <2>4, <3>1, UnstopGood, StoreInv DEF Unpause
    <2>5. CASE Reset(c)
      <3>1. ResetRecord(q).session = 0
        BY DEF ResetRecord, EmptyRecord
      <3>2. QED
        BY <1>1, <2>5, <3>1, EmptyGood, StoreInv DEF Reset, ResetRecord
    <2>6. ASSUME NEW t \in Timeouts, TimeoutSet(c, t) PROVE TableInv'
      <3>1. TimeoutRecord(q, t).session = q.session /\ t \in Int
        BY <2>1, TimeoutsAssumption DEF TimeoutRecord, Record
      <3>2. QED
        BY <1>1, <2>6, <3>1, SettersGood, StoreInv DEF TimeoutSet
    <2>7. ASSUME NEW m \in Members \cup {0}, MemberSet(c, m) PROVE TableInv'
      <3>1. MemberRecord(q, m).session = q.session
        BY <2>1 DEF MemberRecord, Record
      <3>2. Good(MemberRecord(q, m), Members, now)
        BY <2>1, SettersGood
      <3>3. QED
        BY <2>7, <3>1, <3>2, StoreInv DEF MemberSet
    <2>8. CASE Unstop(c)
      <3>1. UnstopRecord(q, now).session = q.session
        BY <2>1 DEF UnstopRecord, TimeoutRecord, Record
      <3>2. QED
        BY <1>1, <2>8, <3>1, UnstopGood, StoreInv DEF Unstop
    <2>9. QED
      BY <1>3, <2>2, <2>3, <2>4, <2>5, <2>6, <2>7, <2>8
  <1>4. ASSUME NEW l \in Clients, NEW r \in Clients, Swap(l, r) PROVE TableInv'
    <2>1. /\ clients' = Swapped(l, r) /\ stored' = clients'
          /\ UNCHANGED <<now, sessions, torn>>
      BY <1>1, <1>4 DEF Swap, Swapped
    <2>2. \A d \in Clients :
            clients'[d] = clients[IF d = r THEN l ELSE IF d = l THEN r ELSE d]
      BY <1>1, <2>1 DEF Swapped
    <2>3. clients' \in [Clients -> Record(Members)]
      BY <1>1, <2>1 DEF Swapped
    <2>4. RecordsOK' /\ Durable' /\ AllWellFormed'
      BY <1>1, <2>1, <2>2, <2>3 DEF RecordsOK, Durable, AllWellFormed
    <2>5. SessionsKnown' /\ SessionHeldOnce'
      BY <2>1, <2>2 DEF TableInv, SessionsKnown, SessionHeldOnce
    <2>6. QED
      BY <2>4, <2>5 DEF TableInv
  <1>5. CASE Tick
    <2>1. clients' = clients /\ stored' = stored /\ now' = now + 1
          /\ sessions' = sessions /\ torn' = torn
      BY <1>5 DEF Tick
    <2>2. RecordsOK' /\ Durable' /\ SessionsKnown' /\ SessionHeldOnce'
      BY <2>1 DEF TableInv, RecordsOK, Durable, SessionsKnown, SessionHeldOnce
    <2>3. AllWellFormed'
      BY <1>1, <2>1, LaterGood DEF AllWellFormed
    <2>4. QED
      BY <2>2, <2>3 DEF TableInv
  <1>6. ASSUME NEW c \in Clients, CrashInStart(c) PROVE TableInv'
    <2>1. Store(c, ResetRecord(clients[c]))
      BY <1>1, <1>6 DEF CrashInStart, CrashWith, Store
    <2>2. QED
      BY <1>6, <2>1, EmptyGood, StoreInv DEF CrashInStart, ResetRecord, EmptyRecord
  <1>7. ASSUME NEW c \in Clients, CrashInUnstop(c) PROVE TableInv'
    <2>1. PICK t \in {clients[c].timeout, UnstopRecord(clients[c], now).timeout} :
             CrashWith([stored EXCEPT ![c].timeout = t])
      BY <1>7 DEF CrashInUnstop
    <2> DEFINE q == [clients[c] EXCEPT !.timeout = t]
    <2>2. t \in Nat
      <3>1. UnstopRecord(clients[c], now) \in Record(Members)
        BY <1>1, UnstopGood DEF Good
      <3>2. QED
        BY <1>1, <2>1, <3>1 DEF Record
    <2>3. /\ q \in Record(Members) /\ q.session = clients[c].session
          /\ q.status = clients[c].status /\ q.intervals = clients[c].intervals
      BY <1>1, <2>2 DEF Record
    <2>4. Store(c, q)
      BY <1>1, <2>1 DEF CrashWith, Store
    <2> HIDE DEF q
    <2>5. Good(q, Members, now)
      BY <1>1, <2>3 DEF Good, WellFormed, RunningIffActive, UsedHasIntervals,
                        IntervalsInOrder, HasSession
    <2>6. QED
      BY <1>7, <2>3, <2>4, <2>5, StoreInv DEF CrashInUnstop
  <1>8. ASSUME NEW l \in Clients, NEW r \in Clients, CrashInSwap(l, r) PROVE TableInv'
    <2>1. /\ clients' = [clients EXCEPT ![l] = clients[r]] /\ stored' = clients'
          /\ UNCHANGED <<now, sessions>>
      BY <1>1, <1>8 DEF CrashInSwap, CrashWith, Swapped
    <2>2. \A d \in Clients : clients'[d] = clients[IF d = l THEN r ELSE d]
      BY <1>1, <2>1
    <2>3. clients' \in [Clients -> Record(Members)]
      BY <1>1, <2>1
    <2>4. \A d \in Clients : clients[d].session \in Nat
      BY <1>1 DEF Record
    <2>5. torn \subseteq torn' /\ torn' \subseteq Nat
      BY <1>1, <1>8, <2>4 DEF CrashInSwap
    <2>6. RecordsOK' /\ Durable' /\ AllWellFormed' /\ SessionsKnown'
      BY <1>1, <2>1, <2>2, <2>3, <2>5
         DEF TableInv, RecordsOK, Durable, AllWellFormed, SessionsKnown
    <2>7. l = r \/ clients[r].session \in torn' \/ clients[r].session = 0
      BY <1>8 DEF CrashInSwap
    <2>8. SessionHeldOnce'
      <3>1. ASSUME NEW d \in Clients, NEW e \in Clients, d # e,
                   clients'[d].session = clients'[e].session, clients'[d].session \notin torn'
            PROVE  clients'[d].session = 0
        <4>1. CASE (d # l /\ e # l) \/ l = r
          BY <2>2, <2>5, <3>1, <4>1 DEF TableInv, SessionHeldOnce
        <4>2. CASE l # r /\ d = l
          BY <2>2, <2>5, <2>7, <3>1, <4>2
        <4>3. CASE l # r /\ e = l
          BY <2>2, <2>5, <2>7, <3>1, <4>3
        <4>4. QED
          BY <4>1, <4>2, <4>3
      <3>2. QED
        BY <3>1 DEF SessionHeldOnce
    <2>9. QED
      BY <2>6, <2>8 DEF TableInv
  <1>9. ASSUME UNCHANGED <<clients, stored, now, sessions, torn>> PROVE TableInv'
    BY <1>9 DEF TableInv, RecordsOK, AllWellFormed, Durable, SessionsKnown, SessionHeldOnce
  <1>10. CASE Restart
    BY <1>1, <1>9, <1>10 DEF Restart, CrashWith
  <1>11. ASSUME NEW c \in Clients, Log(c) PROVE TableInv'
    BY <1>9, <1>11 DEF Log
  <1>12. CASE UNCHANGED vars
    BY <1>9, <1>12 DEF vars
  <1>13. QED
    BY <1>2, <1>3, <1>4, <1>5, <1>6, <1>7, <1>8, <1>10, <1>11, <1>12
       DEF Next, Call, Crash

\* TableInv holds in every state the server reaches.
LEMMA TableInvariant == Spec => []TableInv
  BY InitInv, NextInv, PTL DEF Spec

\* The records in memory and in the database always have the type that the
\* rest of the server relies on: no negative timeout, no unknown status.
THEOREM RecordsTypeCorrect == Spec => []RecordsOK
  <1>1. TableInv => RecordsOK
    BY DEF TableInv
  <1>2. QED
    BY <1>1, TableInvariant, PTL

\* The time of a session is counted without a gap or an overlap: a workstation
\* is in use exactly while its last interval runs, also after a crash between
\* the writes of one call.
THEOREM RecordsWellFormed == Spec => []AllWellFormed
  <1>1. TableInv => AllWellFormed
    BY DEF TableInv
  <1>2. QED
    BY <1>1, TableInvariant, PTL

\* Between calls the database is the memory, so a restart loses no session.
THEOREM MemoryIsDurable == Spec => []Durable
  <1>1. TableInv => Durable
    BY DEF TableInv
  <1>2. QED
    BY <1>1, TableInvariant, PTL

\* No session is on two workstations unless the server died in the middle of
\* a swap.
THEOREM SessionsNotDuplicated == Spec => []SessionHeldOnce
  <1>1. TableInv => SessionHeldOnce
    BY DEF TableInv
  <1>2. QED
    BY <1>1, TableInvariant, PTL

-----------------------------------------------------------------------------
(* The log                                                                 *)

\* The log is a finite set of rows, each charged for what it shows.
LogInv == log \subseteq Row /\ IsFiniteSet(log) /\ BilledWithinSpan

\* A stopped session is logged with the time it was charged for.
LEMMA LogRowGood ==
  ASSUME TableInv, LogInv, NEW c \in Clients, clients[c].status = "INACTIVE"
  PROVE  /\ LogRow(c) \in Row
         /\ 0 <= LogRow(c).time /\ LogRow(c).time <= LogRow(c).etime - LogRow(c).stime
         /\ LogRow(c).etime <= now
  <1> DEFINE q == clients[c]
  <1>1. q \in Record(Members) /\ WellFormed(q, now) /\ now \in Nat
    BY DEF TableInv, RecordsOK, AllWellFormed
  <1>2. NextRowId \in Nat
    <2>1. \A row \in log : row.id \in Nat
      BY DEF LogInv, Row
    <2>2. QED
      BY <2>1, NextIdIsNew DEF LogInv, NextRowId
  <1>3. TimeUsed(q, now) \in Int /\ q.session \in Nat /\ q.member \in Members \cup {0}
    BY <1>1, UsedTyped DEF Record
  <1>4. STime(q) \in Nat /\ ETime(q) \in Nat
    BY <1>1, TimesTyped
  <1>5. /\ 0 <= TimeUsed(q, now) /\ TimeUsed(q, now) <= ETime(q) - STime(q)
        /\ ETime(q) <= now
    BY <1>1, UsedWithinSpan
  <1> HIDE DEF q
  <1>6. LogRow(c) = [id |-> NextRowId, client |-> c, session |-> q.session,
                     member |-> q.member, stime |-> STime(q), etime |-> ETime(q),
                     time |-> TimeUsed(q, now)]
    BY DEF LogRow, q
  <1>7. QED
    BY <1>2, <1>3, <1>4, <1>5, <1>6 DEF Row

\* Rows are only removed, but for the one that Log adds.
LEMMA NextLogInv == TableInv /\ LogInv /\ [Next]_vars => LogInv'
  <1> SUFFICES ASSUME TableInv, LogInv, [Next]_vars PROVE LogInv'
    OBVIOUS
  <1>1. now \in Nat /\ now' \in Nat /\ now <= now'
    <2>1. now \in Nat
      BY DEF TableInv, RecordsOK
    <2>2. now' = now \/ Tick
      BY DEF Next, vars, Call, Crash, Restart, Start, Stop, Pause, Unpause, Reset,
             TimeoutSet, MemberSet, Unstop, Swap, Log,
             CrashInStart, CrashInUnstop, CrashInSwap
    <2>3. QED
      BY <2>1, <2>2 DEF Tick
  <1>2. ASSUME log' \subseteq log PROVE LogInv'
    <2>1. IsFiniteSet(log') /\ log' \subseteq Row
      BY <1>2, FS_Subset DEF LogInv
    <2>2. ASSUME NEW row \in log'
          PROVE  /\ 0 <= row.time /\ row.time <= row.etime - row.stime
                 /\ row.etime <= now'
      <3>1. row \in log /\ row.etime \in Nat
        BY <1>2, <2>1, <2>2 DEF Row
      <3>2. QED
        BY <1>1, <3>1 DEF LogInv, BilledWithinSpan
    <2>3. QED
      BY <2>1, <2>2 DEF LogInv, BilledWithinSpan
  <1>3. ASSUME NEW c \in Clients, Log(c) PROVE LogInv'
    <2>1. /\ log' = log \cup {LogRow(c)} /\ now' = now
          /\ clients[c].status = "INACTIVE"
      BY <1>3 DEF Log
    <2>2. IsFiniteSet(log')
      BY <2>1, FS_AddElement DEF LogInv
    <2>3. QED
      BY <2>1, <2>2, LogRowGood DEF LogInv, BilledWithinSpan
  <1>4. ASSUME NEW c \in Clients, ClearLogged(c) PROVE LogInv'
    BY <1>2, <1>4 DEF ClearLogged
  <1>5. ASSUME NEW c \in Clients, Call(c) \/ Crash(c) PROVE LogInv'
    BY <1>2, <1>3, <1>4, <1>5
       DEF Call, Crash, Start, Stop, Pause, Unpause, Reset, TimeoutSet, MemberSet,
           Unstop, Swap, CrashInStart, CrashInUnstop, CrashInSwap
  <1>6. CASE Tick \/ Restart \/ UNCHANGED vars
    BY <1>2, <1>6 DEF Tick, Restart, vars
  <1>7. QED
    BY <1>5, <1>6 DEF Next

LEMMA LogInvariant == Spec => [](TableInv /\ LogInv)
  <1>1. Init => LogInv
    BY FS_EmptySet DEF Init, LogInv, BilledWithinSpan
  <1>2. QED
    BY <1>1, InitInv, NextInv, NextLogInv, PTL DEF Spec

\* The records and the rows of the log have their types.
THEOREM TableTypes == Spec => []TypeOK
  <1>1. TableInv /\ LogInv => TypeOK
    BY DEF TableInv, LogInv, TypeOK
  <1>2. QED
    BY <1>1, LogInvariant, PTL

\* No customer is charged for more time than passed between the start and the
\* end of the session, whatever it was paused, swapped or stopped and resumed.
THEOREM ChargedWithinSpan == Spec => []BilledWithinSpan
  <1>1. TableInv /\ LogInv => BilledWithinSpan
    BY DEF LogInv
  <1>2. QED
    BY <1>1, LogInvariant, PTL

-----------------------------------------------------------------------------
(* The time of a session                                                   *)

\* What TimeNeverLost says of one step
TimeKept ==
  \A c, d \in Clients :
    /\ clients[c].session \notin torn' \cup {0}
    /\ clients'[d].session = clients[c].session
    => TimeUsed(clients'[d], now') >= TimeUsed(clients[c], now)

\* A step that gives one workstation a record of the session it had, with no
\* less time, or of a session nobody holds, keeps the time of all the others.
LEMMA StoreKept ==
  ASSUME TableInv, NEW c \in Clients, NEW r, Store(c, r), UNCHANGED <<now, torn>>,
         \/ r.session = 0 \/ r.session > sessions
         \/ /\ r.session = clients[c].session
            /\ TimeUsed(r, now) >= TimeUsed(clients[c], now)
  PROVE  TimeKept
  <1>1. clients \in [Clients -> Record(Members)] /\ sessions \in Nat /\ now \in Nat
    BY DEF TableInv, RecordsOK
  <1>2. /\ clients'[c] = r /\ now' = now /\ torn' = torn
        /\ \A d \in Clients : d # c => clients'[d] = clients[d]
    BY <1>1 DEF Store
  <1>3. \A d \in Clients : clients[d].session \in Nat /\ clients[d].session <= sessions
    BY <1>1 DEF TableInv, SessionsKnown, Record
  <1> SUFFICES ASSUME NEW b \in Clients, NEW d \in Clients,
                      clients[b].session \notin torn \cup {0},
                      clients'[d].session = clients[b].session
               PROVE  TimeUsed(clients'[d], now) >= TimeUsed(clients[b], now)
    BY <1>2 DEF TimeKept
  <1>4. CASE d = c
    <2>1. ~(r.session > sessions) /\ r.session # 0
      BY <1>1, <1>2, <1>3, <1>4
    <2>2. clients[c].session = clients[b].session
      BY <1>2, <1>4, <2>1
    <2>3. c = b
      BY <2>2 DEF TableInv, SessionHeldOnce
    <2>4. QED
      BY <1>2, <1>4, <2>1, <2>3
  <1>5. CASE d # c
    <2>1. clients'[d] = clients[d]
      BY <1>2, <1>5
    <2>2. d = b
      BY <2>1 DEF TableInv, SessionHeldOnce
    <2>3. TimeUsed(clients[b], now) \in Int
      BY <1>1, UsedTyped
    <2>4. QED
      BY <2>1, <2>2, <2>3
  <1>6. QED
    BY <1>4, <1>5

\* A step after which every workstation has a record that some workstation had
LEMMA MovedKept ==
  ASSUME TableInv, NEW f \in [Clients -> Clients],
         \A d \in Clients : clients'[d] = clients[f[d]],
         torn \subseteq torn', now' = now
  PROVE  TimeKept
  <1>1. clients \in [Clients -> Record(Members)] /\ now \in Nat
    BY DEF TableInv, RecordsOK
  <1> SUFFICES ASSUME NEW b \in Clients, NEW d \in Clients,
                      clients[b].session \notin torn' \cup {0},
                      clients'[d].session = clients[b].session
               PROVE  TimeUsed(clients'[d], now') >= TimeUsed(clients[b], now)
    BY DEF TimeKept
  <1>2. f[d] = b
    BY DEF TableInv, SessionHeldOnce
  <1>3. TimeUsed(clients[b], now) \in Int
    BY <1>1, UsedTyped
  <1>4. QED
    BY <1>2, <1>3

LEMMA NextKept == TableInv /\ [Next]_vars => [TimeKept]_vars
  <1> SUFFICES ASSUME TableInv, Next PROVE TimeKept
    OBVIOUS
  <1>1. /\ clients \in [Clients -> Record(Members)] /\ stored = clients
        /\ now \in Nat /\ now > 0 /\ sessions \in Nat /\ torn \subseteq Nat
        /\ \A d \in Clients : WellFormed(clients[d], now)
    BY DEF TableInv, RecordsOK, Durable, AllWellFormed
  <1>2. ASSUME NEW c \in Clients, Start(c) PROVE TimeKept
    <2> DEFINE r == StartRecord(clients[c], now, sessions + 1)
    <2>1. Store(c, r) /\ UNCHANGED <<now, torn>> /\ clients[c].status # "ACTIVE"
      BY <1>2 DEF Start
    <2>2. CASE clients[c].status = "PAUSED"
      <3>1. r.session = clients[c].session
        BY <1>1, <2>2 DEF StartRecord, Record
      <3>2. TimeUsed(r, now) = TimeUsed(clients[c], now)
        BY <1>1, <2>2, UsedStart
      <3>3. TimeUsed(clients[c], now) \in Int
        BY <1>1, UsedTyped
      <3> HIDE DEF r
      <3>4. QED
        BY <2>1, <3>1, <3>2, <3>3, StoreKept
    <2>3. CASE clients[c].status = "INACTIVE"
      <3>1. r.session = sessions + 1
        BY <2>3 DEF StartRecord, ResetRecord, EmptyRecord
      <3> HIDE DEF r
      <3>2. QED
        BY <1>1, <2>1, <3>1, StoreKept
    <2>4. QED
      BY <1>1, <2>1, <2>2, <2>3 DEF Record, Status
  <1>3. ASSUME NEW c \in Clients, NEW r, Store(c, r), UNCHANGED <<now, torn>>,
               r.session = clients[c].session,
               r.intervals = clients[c].intervals
                 \/ TimeUsed(r, now) = TimeUsed(clients[c], now)
                 \/ TimeUsed(r, now) >= TimeUsed(clients[c], now)
        PROVE  TimeKept
    <2>1. TimeUsed(clients[c], now) \in Int
      BY <1>1, UsedTyped
    <2>2. r.intervals = clients[c].intervals => TimeUsed(r, now) = TimeUsed(clients[c], now)
      BY DEF TimeUsed
    <2>3. QED
      BY <1>3, <2>1, <2>2, StoreKept
  <1>4. ASSUME NEW c \in Clients, Stop(c) \/ Pause(c) \/ Unpause(c) \/ Unstop(c)
        PROVE  TimeKept
    <2> DEFINE q == clients[c]
    <2>1. q \in Record(Members) /\ WellFormed(q, now)
      BY <1>1
    <2>2. /\ StopRecord(q, now).session = q.session
          /\ PauseRecord(q, now).session = q.session
          /\ UnpauseRecord(q).session = q.session
          /\ UnstopRecord(q, now).session = q.session
      BY <2>1 DEF StopRecord, PauseRecord, UnpauseRecord, UnstopRecord, TimeoutRecord,
                  Record
    <2>3. /\ TimeUsed(StopRecord(q, now), now) = TimeUsed(q, now)
          /\ TimeUsed(PauseRecord(q, now), now) = TimeUsed(q, now)
          /\ TimeUsed(UnpauseRecord(q), now) >= TimeUsed(q, now)
          /\ TimeUsed(UnstopRecord(q, now), now) >= TimeUsed(q, now)
      BY <1>1, <2>1, UsedClose, UsedReopen
    <2>4. \/ Store(c, StopRecord(q, now)) \/ Store(c, PauseRecord(q, now))
          \/ Store(c, UnpauseRecord(q)) \/ Store(c, UnstopRecord(q, now))
      BY <1>4 DEF Stop, Pause, Unpause, Unstop
    <2>5. UNCHANGED <<now, torn>>
      BY <1>4 DEF Stop, Pause, Unpause, Unstop
    <2> HIDE DEF q
    <2>6. QED
      BY <1>3, <2>2, <2>3, <2>4, <2>5 DEF q
  <1>5. ASSUME NEW c \in Clients, Reset(c) \/ CrashInStart(c) PROVE TimeKept
    <2>1. Store(c, ResetRecord(clients[c])) /\ UNCHANGED <<now, torn>>
      BY <1>1, <1>5 DEF Reset, CrashInStart, CrashWith, Store
    <2>2. ResetRecord(clients[c]).session = 0
      BY DEF ResetRecord, EmptyRecord
    <2>3. QED
      BY <2>1, <2>2, StoreKept
  <1>6. ASSUME NEW c \in Clients, NEW t \in Timeouts, TimeoutSet(c, t) PROVE TimeKept
    <2>1. /\ TimeoutRecord(clients[c], t).session = clients[c].session
          /\ TimeoutRecord(clients[c], t).intervals = clients[c].intervals
      BY <1>1 DEF TimeoutRecord, Record
    <2>2. QED
      BY <1>3, <1>6, <2>1 DEF TimeoutSet
  <1>7. ASSUME NEW c \in Clients, NEW m \in Members \cup {0}, MemberSet(c, m)
        PROVE  TimeKept
    <2>1. /\ MemberRecord(clients[c], m).session = clients[c].session
          /\ MemberRecord(clients[c], m).intervals = clients[c].intervals
      BY <1>1 DEF MemberRecord, Record
    <2>2. QED
      BY <1>3, <1>7, <2>1 DEF MemberSet
  <1>8. ASSUME NEW c \in Clients, CrashInUnstop(c) PROVE TimeKept
    <2>1. PICK t : CrashWith([stored EXCEPT ![c].timeout = t])
      BY <1>8 DEF CrashInUnstop
    <2> DEFINE q == [clients[c] EXCEPT !.timeout = t]
    <2>2. q.session = clients[c].session /\ q.intervals = clients[c].intervals
      BY <1>1 DEF Record
    <2>3. Store(c, q) /\ UNCHANGED <<now, torn>>
      BY <1>1, <1>8, <2>1 DEF CrashWith, Store, CrashInUnstop
    <2> HIDE DEF q
    <2>4. QED
      BY <1>3, <2>2, <2>3
  <1>9. ASSUME NEW l \in Clients, NEW r \in Clients, Swap(l, r) PROVE TimeKept
    <2> DEFINE f == [d \in Clients |-> IF d = r THEN l ELSE IF d = l THEN r ELSE d]
    <2>1. f \in [Clients -> Clients] /\ torn \subseteq torn' /\ now' = now
          /\ clients' = Swapped(l, r)
      BY <1>9 DEF Swap
    <2>2. \A d \in Clients : clients'[d] = clients[f[d]]
      BY <1>1, <2>1 DEF Swapped
    <2> HIDE DEF f
    <2>3. QED
      BY <2>1, <2>2, MovedKept
  <1>10. ASSUME NEW l \in Clients, NEW r \in Clients, CrashInSwap(l, r) PROVE TimeKept
    <2> DEFINE f == [d \in Clients |-> IF d = l THEN r ELSE d]
    <2>1. f \in [Clients -> Clients] /\ torn \subseteq torn' /\ now' = now
          /\ clients' = [clients EXCEPT ![l] = clients[r]]
      BY <1>1, <1>10 DEF CrashInSwap, CrashWith, Swapped
    <2>2. \A d \in Clients : clients'[d] = clients[f[d]]
      BY <1>1, <2>1
    <2> HIDE DEF f
    <2>3. QED
      BY <2>1, <2>2, MovedKept
  <1>11. CASE Tick
    <2>1. clients' = clients /\ torn' = torn /\ now' = now + 1
      BY <1>11 DEF Tick
    <2> SUFFICES ASSUME NEW b \in Clients, NEW d \in Clients,
                        clients[b].session \notin torn \cup {0},
                        clients[d].session = clients[b].session
                 PROVE  TimeUsed(clients[d], now + 1) >= TimeUsed(clients[b], now)
      BY <2>1 DEF TimeKept
    <2>2. d = b
      BY DEF TableInv, SessionHeldOnce
    <2>3. QED
      BY <1>1, <2>2, UsedLater
  <1>12. ASSUME UNCHANGED <<clients, now, torn>> PROVE TimeKept
    <2> DEFINE f == [d \in Clients |-> d]
    <2>1. f \in [Clients -> Clients] /\ \A d \in Clients : clients'[d] = clients[f[d]]
      BY <1>12
    <2> HIDE DEF f
    <2>2. torn \subseteq torn' /\ now' = now
      BY <1>12
    <2>3. QED
      BY <2>1, <2>2, MovedKept
  <1>13. CASE Restart
    BY <1>1, <1>12, <1>13 DEF Restart, CrashWith
  <1>14. ASSUME NEW c \in Clients, Log(c) PROVE TimeKept
    BY <1>12, <1>14 DEF Log
  <1>15. QED
    BY <1>2, <1>4, <1>5, <1>6, <1>7, <1>8, <1>9, <1>10, <1>11, <1>13, <1>14
       DEF Next, Call, Crash

\* The time a session is charged for never shrinks in any step: not when it is
\* stopped, suspended, resumed or moved, nor when the server dies and comes back.
THEOREM TimeIsKept == Spec => TimeNeverLost
  <1>1. Spec => [][TimeKept]_vars
    BY TableInvariant, NextKept, PTL DEF Spec
  <1>2. QED
    BY <1>1, PTL DEF TimeNeverLost, TimeKept
=============================================================================
