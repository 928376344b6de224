-------------------------- MODULE ConnectionProofs --------------------------
(***************************************************************************)
(* Proofs about connections (Connection): as long as no connection is      *)
(* given up because it takes no more data (~Full), every client has one    *)
(* reader, of its own connection, and no workstation is shown as connected *)
(* that has none.  For any workstations, whatever the server reads of      *)
(* their names, and any number of connections.                             *)
(*                                                                         *)
(* The invariant follows a connection through the server: it waits, is     *)
(* accepted, is registered with its client, has a thread, and is freed.    *)
(***************************************************************************)
EXTENDS Connection, SequenceTheorems, TLAPS

\* Nothing has been done about a connection but that it was made.
Fresh(i) == line[i].is # "unused" /\ i \notin freed /\ thread[i] = NoThread

\* The connections that wait are different, and fresh.
BacklogOK ==
  /\ \A k \in 1..Len(backlog) : Fresh(backlog[k]) /\ backlog[k] # accepting.conn
  /\ \A k, l \in 1..Len(backlog) : backlog[k] = backlog[l] => k = l

\* So is the one that is being accepted.
AcceptingOK == accepting # Waiting => Fresh(accepting.conn)

\* A connection was made by a workstation, and the one a workstation has was made.
MadeOK ==
  /\ \A i \in Conns : line[i].is # "unused" => line[i].from \in Stations
  /\ \A s \in Stations : mine[s] # 0 => line[mine[s]].is # "unused"

UsedOK == \A i \in Conns : (i \in freed \/ thread[i] # NoThread) => line[i].is # "unused"

\* The accepting thread has registered the connection, and its thread is not
\* there yet.
Registered(i) == accepting.conn = i /\ accepting.step \in {"tell", "thread"}

\* The connection is its client's.
Holds(i) == /\ record[owner[i]] = [bio |-> i, sockfd |-> i]
            /\ i \notin freed

\* So it is from the time it is registered until its thread frees it.
ThreadOK(i) ==
  /\ thread[i].step \in {"start", "read", "free"} => Holds(i)
  /\ thread[i].step = "forget" => record[owner[i]] = [bio |-> 0, sockfd |-> i]
  /\ thread[i].step = "read" => thread[i].bio = i

HoldersOK == \A i \in Conns : (Registered(i) => Holds(i)) /\ ThreadOK(i)

Inv == TypeOK /\ MadeOK /\ BacklogOK /\ AcceptingOK /\ UsedOK /\ HoldersOK /\ ShownIsConnected

ThreadStates == {NoThread} \cup [step : ThreadSteps, bio : Conns \cup {0}]

-----------------------------------------------------------------------------
(* Facts about the helpers *)

LEMMA NameOK == Unnamed \in Clients /\ \A s \in Stations : Names[s] \in Clients
BY DEF Clients

LEMMA ConnsOK == Conns \subseteq Nat \ {0}
BY BoundAssumption DEF Conns

\* The accepting thread is at a step: it has a connection.
LEMMA AtStep ==
  ASSUME TypeOK, NEW step \in AcceptSteps, At(step)
  PROVE  /\ accepting.conn \in Conns
         /\ accepting = [conn |-> accepting.conn, step |-> step]
         /\ accepting # Waiting
<1>1. accepting \in [conn : Conns, step : AcceptSteps]
  BY DEF TypeOK, At, Waiting
<1> QED
  BY <1>1, ConnsOK DEF At, Waiting

\* A reading thread goes to another step and keeps its connection.
LEMMA ToStep ==
  ASSUME TypeOK, NEW i \in Conns, thread[i].step # "none", NEW step \in ThreadSteps, To(i, step)
  PROVE  /\ thread[i] \in [step : ThreadSteps, bio : Conns \cup {0}]
         /\ thread' \in [Conns -> ThreadStates]
         /\ thread'[i] = [step |-> step, bio |-> thread[i].bio]
         /\ \A j \in Conns : j # i => thread'[j] = thread[j]
<1>1. thread \in [Conns -> ThreadStates]
  BY DEF TypeOK, ThreadStates
<1>2. thread[i] \in [step : ThreadSteps, bio : Conns \cup {0}]
  BY <1>1 DEF ThreadStates, NoThread
<1>3. thread' = [thread EXCEPT ![i].step = step]
  BY DEF To
<1>4. [thread[i] EXCEPT !.step = step] = [step |-> step, bio |-> thread[i].bio]
  BY <1>2
<1> QED
  BY <1>1, <1>2, <1>3, <1>4 DEF ThreadStates

LEMMA InitInv == Init => Inv
<1> SUFFICES ASSUME Init PROVE Inv
  OBVIOUS
<1>1. TypeOK
  BY NameOK DEF Init, TypeOK, Waiting, NotConnected, NoThread, AcceptSteps, ThreadSteps
<1>2. MadeOK /\ BacklogOK /\ AcceptingOK /\ UsedOK /\ ShownIsConnected
  BY DEF Init, MadeOK, BacklogOK, AcceptingOK, UsedOK, ShownIsConnected, NoThread
<1>3. HoldersOK
  BY ConnsOK DEF Init, HoldersOK, ThreadOK, NoThread, Waiting, Registered
<1> QED
  BY <1>1, <1>2, <1>3 DEF Inv

-----------------------------------------------------------------------------
(* The client programs: the server's side of the invariant needs only that a  *)
(* connection that was made stays made.                                       *)

ServerSame == UNCHANGED <<accepting, record, owner, freed, thread, shown, told>>
LineType == [from : Stations \cup {Unnamed}, is : {"unused", "open", "lost", "closed"}]

LEMMA StationKeeps ==
  ASSUME Inv, ServerSame, UNCHANGED backlog, TypeOK', MadeOK',
         \A i \in Conns : line[i].is # "unused" => line'[i].is # "unused"
  PROVE  Inv'
<1>1. backlog \in Seq(Conns) /\ accepting \in {Waiting} \cup [conn : Conns, step : AcceptSteps]
  BY DEF Inv, TypeOK
<1>2. \A i \in Conns : Fresh(i) => Fresh(i)'
  BY DEF Fresh, ServerSame
<1>3. \A k \in 1..Len(backlog) : backlog[k] \in Conns
  BY <1>1
<1>4. BacklogOK'
  BY <1>1, <1>2, <1>3 DEF Inv, BacklogOK, ServerSame
<1>5. AcceptingOK'
  BY <1>1, <1>2 DEF Inv, AcceptingOK, ServerSame, Waiting
<1>6. UsedOK' /\ HoldersOK' /\ ShownIsConnected'
  BY DEF Inv, UsedOK, HoldersOK, ThreadOK, Holds, Registered, ShownIsConnected, ServerSame
<1> QED
  BY <1>4, <1>5, <1>6 DEF Inv

LEMMA ConnectInv == ASSUME Inv, NEW s \in Stations, NEW i \in Conns, Connect(s, i) PROVE Inv'
<1> DEFINE made == [from |-> s, is |-> "open"]
<1>1. /\ line[i].is = "unused" /\ line' = [line EXCEPT ![i] = made]
      /\ mine' = [mine EXCEPT ![s] = i]
      /\ backlog' = Append(backlog, i)
      /\ UNCHANGED <<said, taken>> /\ ServerSame
  BY DEF Connect, ServerSame
<1>2. line \in [Conns -> LineType] /\ line' \in [Conns -> LineType]
  BY <1>1 DEF Inv, TypeOK, LineType
<1>3. \A j \in Conns : line[j].is # "unused" => line'[j] = line[j]
  BY <1>1, <1>2
<1>4. line'[i].is = "open"
  BY <1>1, <1>2
<1>5. /\ backlog \in Seq(Conns) /\ backlog' \in Seq(Conns)
      /\ Len(backlog') = Len(backlog) + 1 /\ backlog'[Len(backlog) + 1] = i
      /\ \A k \in 1..Len(backlog) : backlog'[k] = backlog[k] /\ backlog[k] \in Conns
  BY <1>1, AppendProperties DEF Inv, TypeOK
<1>6. TypeOK'
  <2>1. mine' \in [Stations -> Conns \cup {0}]
    BY <1>1 DEF Inv, TypeOK
  <2> QED
    BY <1>1, <1>2, <1>5, <2>1 DEF Inv, TypeOK, ServerSame, LineType
<1>7. i \notin freed /\ thread[i] = NoThread /\ accepting.conn # i
      /\ \A k \in 1..Len(backlog) : backlog[k] # i
  <2>1. accepting.conn # i
    BY <1>1, ConnsOK DEF Inv, AcceptingOK, Fresh, Waiting
  <2> QED
    BY <1>1, <2>1 DEF Inv, UsedOK, BacklogOK, Fresh
<1>8. \A j \in Conns : Fresh(j) => Fresh(j)'
  BY <1>1, <1>3 DEF Fresh, ServerSame
<1>9. Fresh(i)'
  BY <1>1, <1>4, <1>7 DEF Fresh, ServerSame
<1>10. BacklogOK'
  BY <1>1, <1>5, <1>7, <1>8, <1>9 DEF Inv, BacklogOK, ServerSame
<1>11. AcceptingOK'
  BY <1>1, <1>8 DEF Inv, TypeOK, AcceptingOK, ServerSame, Waiting
<1>12. MadeOK'
  <2>1. \A j \in Conns : line'[j].is # "unused" => line'[j].from \in Stations
    BY <1>1, <1>2 DEF Inv, MadeOK
  <2>2. \A q \in Stations : mine'[q] # 0 => line'[mine'[q]].is # "unused"
    <3> SUFFICES ASSUME NEW q \in Stations, mine'[q] # 0 PROVE line'[mine'[q]].is # "unused"
      OBVIOUS
    <3>1. CASE q = s
      BY <1>1, <1>4, <3>1 DEF Inv, TypeOK
    <3>2. CASE q # s
      <4>1. mine'[q] = mine[q] /\ mine[q] \in Conns
        BY <1>1, <3>2 DEF Inv, TypeOK
      <4>2. line[mine[q]].is # "unused"
        BY <4>1 DEF Inv, MadeOK
      <4> QED
        BY <1>3, <4>1, <4>2
    <3> QED
      BY <3>1, <3>2
  <2> QED
    BY <2>1, <2>2 DEF MadeOK
<1>13. UsedOK' /\ HoldersOK' /\ ShownIsConnected'
  BY <1>1, <1>3 DEF Inv, UsedOK, HoldersOK, ThreadOK, Holds, Registered, ShownIsConnected, ServerSame
<1> QED
  BY <1>6, <1>10, <1>11, <1>12, <1>13 DEF Inv

LEMMA SayInv == ASSUME Inv, NEW s \in Stations, Say(s) PROVE Inv'
<1>1. /\ mine[s] \in Conns /\ said[mine[s]] < 3
      /\ said' = [said EXCEPT ![mine[s]] = @ + 1]
      /\ UNCHANGED <<mine, line, taken, backlog>> /\ ServerSame
  BY DEF Say, Inv, TypeOK, server, ServerSame
<1>2. said \in [Conns -> 0..3] /\ taken \in [Conns -> 0..3] /\ \A i \in Conns : taken[i] <= said[i]
  BY DEF Inv, TypeOK
<1>3. said' \in [Conns -> 0..3] /\ \A i \in Conns : said[i] <= said'[i]
  BY <1>1, <1>2
<1>4. taken' \in [Conns -> 0..3] /\ \A i \in Conns : taken'[i] <= said'[i]
  BY <1>1, <1>2, <1>3
<1>5. TypeOK'
  BY <1>1, <1>3, <1>4 DEF Inv, TypeOK, ServerSame
<1>6. MadeOK'
  BY <1>1 DEF Inv, MadeOK
<1> QED
  BY <1>1, <1>5, <1>6, StationKeeps

\* A workstation is without its connection.
LEMMA Parts ==
  ASSUME Inv, NEW s \in Stations, NEW how \in {"lost", "closed"}, mine[s] # 0,
         mine' = [mine EXCEPT ![s] = 0], line' = [line EXCEPT ![mine[s]].is = how],
         UNCHANGED <<said, taken, backlog>>, ServerSame
  PROVE  Inv'
<1>1. mine[s] \in Conns /\ line \in [Conns -> LineType]
  BY DEF Inv, TypeOK, LineType
<1>2. [line[mine[s]] EXCEPT !.is = how] = [from |-> line[mine[s]].from, is |-> how]
  BY <1>1 DEF LineType
<1>3. line' \in [Conns -> LineType]
  BY <1>1, <1>2 DEF LineType
<1>4. \A i \in Conns : line[i].is # "unused" => line'[i].is # "unused"
  BY <1>1, <1>2
<1>5. mine' \in [Stations -> Conns \cup {0}]
  BY DEF Inv, TypeOK
<1>6. TypeOK'
  BY <1>3, <1>5 DEF Inv, TypeOK, ServerSame, LineType
<1>7. MadeOK'
  <2>1. \A i \in Conns : line'[i].from = line[i].from
    BY <1>1, <1>2
  <2>2. \A i \in Conns : line'[i].is # "unused" => line[i].is # "unused"
    BY <1>1, <1>2 DEF Inv, MadeOK
  <2>3. \A q \in Stations : mine'[q] # 0 => mine'[q] = mine[q] /\ mine[q] \in Conns
    BY DEF Inv, TypeOK
  <2> QED
    BY <1>4, <2>1, <2>2, <2>3 DEF Inv, MadeOK
<1> QED
  BY <1>4, <1>6, <1>7, StationKeeps

LEMMA HungUpInv == ASSUME Inv, NEW s \in Stations, HungUp(s) PROVE Inv'
BY Parts DEF HungUp, server, ServerSame

LEMMA LeaveInv ==
  ASSUME Inv, NEW s \in Stations, NEW how \in {"closed", "lost"}, Leave(s, how) PROVE Inv'
BY Parts DEF Leave, server, ServerSame

-----------------------------------------------------------------------------
(* The accepting thread *)

\* One step for a connection that is not registered yet: only the connection itself
\* is touched.
LEMMA AcceptingKeeps ==
  ASSUME Inv, NEW i \in Conns, accepting # Waiting, accepting.conn = i, ~Registered(i),
         \/ accepting' = Waiting
         \/ accepting'.conn = i /\ accepting'.step \notin {"tell", "thread"} /\ freed' = freed,
         freed' \subseteq freed \cup {i}, freed \subseteq freed',
         \A j \in Conns : j # i => owner'[j] = owner[j],
         UNCHANGED <<mine, line, backlog, record, thread, shown>>, TypeOK'
  PROVE  Inv'
<1>1. Fresh(i) /\ thread[i] = NoThread
  BY DEF Inv, AcceptingOK, Fresh
<1>2. \A k \in 1..Len(backlog) : backlog[k] \in Conns \ {i}
  BY DEF Inv, TypeOK, BacklogOK
<1>3. \A j \in Conns : j # i /\ Fresh(j) => Fresh(j)'
  BY DEF Fresh
<1>4. BacklogOK'
  <2>1. accepting'.conn \in {0, i}
    BY DEF Waiting
  <2>2. \A k \in 1..Len(backlog) : (Fresh(backlog[k]) /\ backlog[k] # accepting.conn)'
    <3> SUFFICES ASSUME NEW k \in 1..Len(backlog)
                 PROVE  Fresh(backlog[k])' /\ backlog[k] # accepting'.conn
      OBVIOUS
    <3>1. backlog[k] \in Conns /\ backlog[k] # i /\ Fresh(backlog[k])
      BY <1>2 DEF Inv, BacklogOK
    <3>2. Fresh(backlog[k])'
      BY <1>3, <3>1 DEF Fresh
    <3> QED
      BY <2>1, <3>1, <3>2, ConnsOK
  <2> QED
    BY <2>2 DEF Inv, BacklogOK
<1>5. AcceptingOK'
  BY <1>1 DEF AcceptingOK, Fresh
<1>6. UsedOK'
  BY <1>1 DEF Inv, UsedOK, Fresh
<1>7. \A j \in Conns : ~Registered(j)'
  BY DEF Registered, Waiting
<1>8. HoldersOK'
  <2> SUFFICES ASSUME NEW j \in Conns
               PROVE  ThreadOK(j)'
    BY <1>7 DEF HoldersOK
  <2>1. CASE j = i
    BY <1>1, <2>1 DEF ThreadOK, NoThread
  <2>2. CASE j # i
    BY <2>2 DEF Inv, HoldersOK, ThreadOK, Holds
  <2> QED
    BY <2>1, <2>2
<1>9. ShownIsConnected'
  BY <1>1 DEF Inv, ShownIsConnected, NoThread
<1> QED
  BY <1>4, <1>5, <1>6, <1>8, <1>9 DEF Inv, MadeOK

LEMMA AcceptInv == ASSUME Inv, Accept PROVE Inv'
<1> DEFINE i == Head(backlog)
<1>1. /\ backlog # <<>> /\ backlog \in Seq(Conns) /\ accepting = Waiting
      /\ accepting' = [conn |-> i, step |-> "check"] /\ backlog' = Tail(backlog)
      /\ UNCHANGED <<workstations, taken, record, owner, freed, thread, shown, told>>
  BY DEF Accept, Inv, TypeOK
<1>2. /\ i \in Conns /\ i = backlog[1] /\ 1 \in 1..Len(backlog)
      /\ Tail(backlog) \in Seq(Conns) /\ Len(Tail(backlog)) = Len(backlog) - 1
      /\ \A k \in 1..Len(Tail(backlog)) : /\ Tail(backlog)[k] = backlog[k + 1]
                                          /\ k + 1 \in 1..Len(backlog)
  BY <1>1, HeadTailProperties
<1>3. TypeOK'
  BY <1>1, <1>2 DEF Inv, TypeOK, AcceptSteps, workstations
<1>4. \A j \in Conns : Fresh(j) => Fresh(j)'
  BY <1>1 DEF Fresh, workstations
<1>5. Fresh(i)
  BY <1>2 DEF Inv, BacklogOK
<1>6. \A k \in 1..Len(backlog') : /\ backlog'[k] = backlog[k + 1] /\ backlog[k + 1] \in Conns
                                  /\ Fresh(backlog[k + 1]) /\ backlog[k + 1] # i
  BY <1>1, <1>2 DEF Inv, BacklogOK
<1>7. BacklogOK'
  <2>1. \A k \in 1..Len(backlog') : (Fresh(backlog[k]) /\ backlog[k] # accepting.conn)'
    <3> SUFFICES ASSUME NEW k \in 1..Len(backlog') PROVE (Fresh(backlog[k]) /\ backlog[k] # accepting.conn)'
      OBVIOUS
    <3>1. backlog'[k] \in Conns /\ backlog'[k] # i /\ Fresh(backlog'[k])
      BY <1>6
    <3>2. accepting'.conn = i
      BY <1>1
    <3> QED
      BY <1>1, <3>1, <3>2 DEF Fresh, workstations
  <2>2. \A k, l \in 1..Len(backlog') : backlog'[k] = backlog'[l] => k = l
    BY <1>1, <1>2, <1>6 DEF Inv, BacklogOK
  <2> QED
    BY <2>1, <2>2 DEF BacklogOK
<1>8. AcceptingOK'
  BY <1>1, <1>2, <1>4, <1>5 DEF AcceptingOK
<1>9. UsedOK' /\ ShownIsConnected'
  BY <1>1 DEF Inv, UsedOK, ShownIsConnected, workstations
<1>10. \A j \in Conns : ~Registered(j)'
  BY <1>1 DEF Registered
<1>11. HoldersOK'
  BY <1>1, <1>10 DEF Inv, HoldersOK, ThreadOK, Holds
<1> QED
  BY <1>1, <1>3, <1>7, <1>8, <1>9, <1>11 DEF Inv, MadeOK, workstations

LEMMA CheckInv == ASSUME Inv, Check PROVE Inv'
<1> DEFINE i == accepting.conn
<1>1. i \in Conns /\ accepting = [conn |-> i, step |-> "check"] /\ accepting # Waiting
  BY AtStep DEF Inv, Check, AcceptSteps
<1>2. /\ \/ accepting' = [conn |-> i, step |-> "size"] /\ freed' = freed
         \/ accepting' = Waiting /\ freed' = freed \cup {i}
      /\ UNCHANGED <<mine, line, said, taken, backlog, record, owner, thread, shown, told>>
  BY <1>1 DEF Check, Goto, AcceptNext, workstations
<1>3. TypeOK'
  BY <1>1, <1>2 DEF Inv, TypeOK, AcceptSteps, Waiting
<1> QED
  BY <1>1, <1>2, <1>3, AcceptingKeeps DEF Registered

LEMMA ReadSizeInv == ASSUME Inv, ReadSize PROVE Inv'
<1> DEFINE i == accepting.conn
<1>1. i \in Conns /\ accepting = [conn |-> i, step |-> "size"] /\ accepting # Waiting
  BY AtStep DEF Inv, ReadSize, AcceptSteps
<1>2. /\ accepting' = [conn |-> i, step |-> "name"] \/ accepting' = Waiting
      /\ UNCHANGED <<mine, line, said, backlog, record, owner, freed, thread, shown, told>>
  BY <1>1 DEF ReadSize, Goto, AcceptNext, workstations
<1>3. taken' \in [Conns -> 0..3] /\ \A j \in Conns : taken'[j] <= said[j]
  <2>1. said \in [Conns -> 0..3] /\ taken \in [Conns -> 0..3] /\ \A j \in Conns : taken[j] <= said[j]
    BY DEF Inv, TypeOK
  <2>2. CASE taken' = taken
    BY <2>1, <2>2
  <2>3. CASE taken' # taken
    <3>0. taken' = [taken EXCEPT ![i] = IF Ended(i) THEN taken[i] ELSE 1] /\ Readable(i)
      BY DEF ReadSize
    <3>1. ~Ended(i)
      BY <1>1, <2>1, <2>3, <3>0
    <3>2. taken' = [taken EXCEPT ![i] = 1] /\ said[i] > taken[i]
      BY <3>0, <3>1 DEF Readable
    <3> QED
      BY <1>1, <2>1, <3>2
  <2> QED
    BY <2>2, <2>3
<1>4. TypeOK'
  BY <1>1, <1>2, <1>3 DEF Inv, TypeOK, AcceptSteps, Waiting
<1> QED
  BY <1>1, <1>2, <1>4, AcceptingKeeps DEF Registered

LEMMA ReadNameInv == ASSUME Inv, ReadName PROVE Inv'
<1> DEFINE i == accepting.conn
           name == IF Ended(i) THEN Unnamed ELSE Names[line[i].from]
<1>1. i \in Conns /\ accepting = [conn |-> i, step |-> "name"] /\ accepting # Waiting
  BY AtStep DEF Inv, ReadName, AcceptSteps
<1>2. /\ accepting' = [conn |-> i, step |-> "register"]
      /\ taken' = [taken EXCEPT ![i] = said[i]] /\ owner' = [owner EXCEPT ![i] = name]
      /\ UNCHANGED <<mine, line, said, backlog, record, freed, thread, shown, told>>
  BY <1>1 DEF ReadName, Goto, NameTaken, workstations
<1>3. name \in Clients
  <2>1. line[i].from \in Stations
    BY <1>1 DEF Inv, AcceptingOK, Fresh, MadeOK
  <2> QED
    BY <2>1, NameOK
<1>4. TypeOK'
  <2>1. said \in [Conns -> 0..3] /\ taken \in [Conns -> 0..3] /\ \A j \in Conns : taken[j] <= said[j]
    BY DEF Inv, TypeOK
  <2>2. taken' \in [Conns -> 0..3] /\ \A j \in Conns : taken'[j] <= said[j]
    BY <1>1, <1>2, <2>1
  <2>3. owner' \in [Conns -> Clients]
    BY <1>1, <1>2, <1>3 DEF Inv, TypeOK
  <2> QED
    BY <1>1, <1>2, <2>2, <2>3 DEF Inv, TypeOK, AcceptSteps, Waiting
<1>5. \A j \in Conns : j # i => owner'[j] = owner[j]
  BY <1>2 DEF Inv, TypeOK
<1> QED
  BY <1>1, <1>2, <1>4, <1>5, AcceptingKeeps DEF Registered

\* Two connections are not one client's at once.
LEMMA OneOwner ==
  ASSUME HoldersOK, NEW i \in Conns, record[owner[i]].sockfd = i, NEW j \in Conns, j # i,
         Registered(j) \/ thread[j].step \in {"start", "read", "free", "forget"}
  PROVE  owner[j] # owner[i]
<1>1. ThreadOK(j) /\ (Registered(j) => Holds(j))
  BY DEF HoldersOK
<1>2. record[owner[j]].sockfd = j
  BY <1>1 DEF ThreadOK, Holds
<1> QED
  BY <1>2

LEMMA RegisterInv == ASSUME Inv, ~Full, Register PROVE Inv'
<1> DEFINE i == accepting.conn
           c == owner[i]
           held == [bio |-> i, sockfd |-> i]
<1>1. i \in Conns /\ accepting = [conn |-> i, step |-> "register"] /\ accepting # Waiting
  BY AtStep DEF Inv, Register, AcceptSteps
<1>2. UNCHANGED <<mine, line, said, taken, backlog, owner, thread, shown, told>>
  BY DEF Register, workstations
<1>3. Freed(c) = {FALSE}
  BY DEF Freed
<1>4. CASE InUse(c)
  <2>1. record' = record /\ freed' = freed \cup {i} /\ accepting' = Waiting
    BY <1>3, <1>4 DEF Register, AcceptNext
  <2>2. TypeOK'
    BY <1>1, <1>2, <2>1 DEF Inv, TypeOK
  <2> QED
    BY <1>1, <1>2, <2>1, <2>2, AcceptingKeeps DEF Registered
<1>5. CASE ~InUse(c)
  <2>1. /\ record' = [record EXCEPT ![c] = held] /\ freed' = freed
        /\ accepting' = [conn |-> i, step |-> "tell"]
    <3>1. record' = [record EXCEPT ![c] = held] /\ freed' = freed /\ Goto("tell")
      BY <1>3, <1>5 DEF Register
    <3> QED
      BY <1>1, <3>1 DEF Goto
  <2>2. c \in Clients /\ record \in [Clients -> [bio : Conns \cup {0}, sockfd : Conns \cup {0}]]
    BY <1>1 DEF Inv, TypeOK
  <2>3. record'[c] = held /\ \A d \in Clients : d # c => record'[d] = record[d]
    BY <2>1, <2>2
  <2>4. record' \in [Clients -> [bio : Conns \cup {0}, sockfd : Conns \cup {0}]]
    BY <1>1, <2>1, <2>2
  <2>5. TypeOK'
    BY <1>1, <1>2, <2>1, <2>4 DEF Inv, TypeOK, AcceptSteps
  <2>6. Fresh(i) /\ \A j \in Conns : Fresh(j) => Fresh(j)'
    BY <1>1, <1>2, <2>1 DEF Inv, AcceptingOK, Fresh
  <2>7. BacklogOK'
    BY <1>1, <1>2, <2>1 DEF Inv, BacklogOK, Fresh
  <2>8. AcceptingOK'
    BY <2>1, <2>6, <1>1 DEF AcceptingOK
  <2>9. HoldersOK'
    <3> SUFFICES ASSUME NEW j \in Conns
                 PROVE  (Registered(j) => Holds(j))' /\ ThreadOK(j)'
      BY DEF HoldersOK
    <3>1. CASE j = i
      BY <1>1, <1>2, <2>1, <2>3, <2>6, <3>1 DEF Holds, ThreadOK, Fresh, NoThread
    <3>2. CASE j # i
      <4>1. ~Registered(j)'
        BY <2>1, <3>2 DEF Registered
      <4>2. owner[j] \in Clients
        BY DEF Inv, TypeOK
      <4>3. thread[j].step \in {"start", "read", "free", "forget"} => owner[j] # c
        <5> SUFFICES ASSUME thread[j].step \in {"start", "read", "free", "forget"} PROVE owner[j] # c
          OBVIOUS
        <5>1. ThreadOK(j)
          BY DEF Inv, HoldersOK
        <5>2. record[owner[j]].sockfd = j
          BY <5>1 DEF ThreadOK, Holds
        <5> QED
          BY <1>5, <5>2, ConnsOK DEF InUse
      <4> QED
        BY <1>2, <2>1, <2>3, <4>1, <4>2, <4>3 DEF Inv, HoldersOK, ThreadOK, Holds
    <3> QED
      BY <3>1, <3>2
  <2>10. UsedOK'
    BY <1>2, <2>1 DEF Inv, UsedOK
  <2>11. ShownIsConnected'
    <3> SUFFICES ASSUME NEW d \in shown
                 PROVE  \/ record'[d].sockfd # 0
                        \/ \E j \in Conns : owner[j] = d /\ thread[j].step = "disconnect"
      BY <1>2 DEF ShownIsConnected
    <3>1. d \in Clients
      BY DEF Inv, TypeOK
    <3>2. CASE d = c
      BY <1>1, <2>3, <3>2, ConnsOK
    <3>3. CASE d # c
      BY <2>3, <3>1, <3>3 DEF Inv, ShownIsConnected
    <3> QED
      BY <3>2, <3>3
  <2> QED
    BY <1>2, <2>5, <2>7, <2>8, <2>9, <2>10, <2>11 DEF Inv, MadeOK
<1> QED
  BY <1>4, <1>5

LEMMA TellInv == ASSUME Inv, Tell PROVE Inv'
<1> DEFINE i == accepting.conn
<1>1. i \in Conns /\ accepting = [conn |-> i, step |-> "tell"] /\ accepting # Waiting
  BY AtStep DEF Inv, Tell, AcceptSteps
<1>2. /\ accepting' = [conn |-> i, step |-> "thread"]
      /\ shown' = shown \cup {owner[i]} /\ told' = told \cup {record[owner[i]].bio}
      /\ UNCHANGED <<mine, line, said, taken, backlog, record, owner, freed, thread>>
  BY <1>1 DEF Tell, Goto, workstations
<1>3. record[owner[i]] = [bio |-> i, sockfd |-> i] /\ owner[i] \in Clients
  <2>1. Registered(i)
    BY <1>1 DEF Registered
  <2> QED
    BY <1>1, <2>1 DEF Inv, TypeOK, HoldersOK, Holds
<1>4. TypeOK'
  BY <1>1, <1>2, <1>3 DEF Inv, TypeOK, AcceptSteps
<1>5. BacklogOK'
  BY <1>1, <1>2 DEF Inv, BacklogOK, Fresh
<1>6. AcceptingOK'
  BY <1>1, <1>2 DEF Inv, AcceptingOK, Fresh
<1>7. HoldersOK'
  <2>1. \A j \in Conns : Registered(j)' => Registered(j)
    BY <1>1, <1>2 DEF Registered
  <2> QED
    BY <1>2, <2>1 DEF Inv, HoldersOK, ThreadOK, Holds
<1>8. ShownIsConnected'
  BY <1>1, <1>2, <1>3, ConnsOK DEF Inv, ShownIsConnected
<1> QED
  BY <1>2, <1>4, <1>5, <1>6, <1>7, <1>8 DEF Inv, MadeOK, UsedOK

LEMMA CreateThreadInv == ASSUME Inv, CreateThread PROVE Inv'
<1> DEFINE i == accepting.conn
           new == [step |-> "start", bio |-> 0]
<1>1. i \in Conns /\ accepting = [conn |-> i, step |-> "thread"] /\ accepting # Waiting
  BY AtStep DEF Inv, CreateThread, AcceptSteps
<1>2. Fresh(i) /\ thread[i] = NoThread
  BY <1>1 DEF Inv, AcceptingOK, Fresh
<1>3. /\ accepting' = Waiting
      /\ UNCHANGED <<mine, line, said, taken, backlog, record, owner, freed, shown, told>>
  BY DEF CreateThread, AcceptNext, workstations
<1>4. thread \in [Conns -> ThreadStates]
  BY DEF Inv, TypeOK, ThreadStates
<1>5. thread' = [thread EXCEPT ![i] = new]
  <2>1. [thread[i] EXCEPT !.step = "start"] = new
    BY <1>2 DEF NoThread
  <2>2. thread' = [thread EXCEPT ![i].step = "start"]
    BY DEF CreateThread
  <2> QED
    BY <2>1, <2>2
<1>6. /\ thread' \in [Conns -> ThreadStates] /\ thread'[i] = new
      /\ \A j \in Conns : j # i => thread'[j] = thread[j]
  BY <1>1, <1>4, <1>5 DEF ThreadStates, ThreadSteps
<1>7. TypeOK'
  BY <1>3, <1>6 DEF Inv, TypeOK, ThreadStates
<1>8. BacklogOK'
  <2>1. \A k \in 1..Len(backlog) : backlog[k] \in Conns \ {i} /\ Fresh(backlog[k])
    BY DEF Inv, TypeOK, BacklogOK
  <2>2. \A k \in 1..Len(backlog) : (Fresh(backlog[k]) /\ backlog[k] # accepting.conn)'
    BY <1>3, <1>6, <2>1, ConnsOK DEF Fresh, Waiting
  <2> QED
    BY <1>3, <2>2 DEF Inv, BacklogOK
<1>9. AcceptingOK'
  BY <1>3 DEF AcceptingOK
<1>10. UsedOK'
  BY <1>2, <1>3, <1>6 DEF Inv, UsedOK, Fresh
<1>11. HoldersOK'
  <2> SUFFICES ASSUME NEW j \in Conns
               PROVE  (Registered(j) => Holds(j))' /\ ThreadOK(j)'
    BY DEF HoldersOK
  <2>1. ~Registered(j)'
    BY <1>3 DEF Registered, Waiting
  <2>2. CASE j = i
    <3>1. Registered(i)
      BY <1>1 DEF Registered
    <3>2. Holds(i)
      BY <1>1, <3>1 DEF Inv, HoldersOK
    <3> QED
      BY <1>3, <1>6, <2>1, <2>2, <3>2 DEF ThreadOK, Holds
  <2>3. CASE j # i
    BY <1>3, <1>6, <2>1, <2>3 DEF Inv, HoldersOK, ThreadOK, Holds
  <2> QED
    BY <2>2, <2>3
<1>12. ShownIsConnected'
  BY <1>2, <1>3, <1>6 DEF Inv, ShownIsConnected, NoThread
<1> QED
  BY <1>3, <1>7, <1>8, <1>9, <1>10, <1>11, <1>12 DEF Inv, MadeOK

-----------------------------------------------------------------------------
(* The reading threads *)

\* A step of the thread of a connection touches no record but its client's, and
\* that only when the connection is the client's, and frees no other connection.
LEMMA ThreadKeeps ==
  ASSUME Inv, NEW i \in Conns, thread[i].step # "none",
         \A j \in Conns : j # i => thread'[j] = thread[j],
         record' = record \/ record[owner[i]].sockfd = i,
         \A c \in Clients : c # owner[i] => record'[c] = record[c],
         freed' \subseteq freed \cup {i},
         UNCHANGED <<mine, line, backlog, accepting, owner>>,
         TypeOK', ThreadOK(i)', ShownIsConnected'
  PROVE  Inv'
<1>1. thread[i] # NoThread
  BY DEF NoThread
<1>2. \A j \in Conns : Fresh(j) => j # i /\ Fresh(j)'
  BY <1>1 DEF Fresh
<1>3. BacklogOK'
  <2>1. \A k \in 1..Len(backlog) : backlog[k] \in Conns
    BY DEF Inv, TypeOK
  <2> QED
    BY <1>2, <2>1 DEF Inv, BacklogOK
<1>4. AcceptingOK'
  BY <1>2 DEF Inv, TypeOK, AcceptingOK, Waiting
<1>5. UsedOK'
  BY <1>1 DEF Inv, UsedOK
<1>6. HoldersOK'
  <2> SUFFICES ASSUME NEW j \in Conns
               PROVE  (Registered(j) => Holds(j))' /\ ThreadOK(j)'
    BY DEF HoldersOK
  <2>1. CASE j = i
    <3>1. ~Registered(i)
      BY <1>1, ConnsOK DEF Inv, AcceptingOK, Fresh, Registered, Waiting
    <3> QED
      BY <2>1, <3>1 DEF Registered
  <2>2. CASE j # i
    <3>1. Registered(j)' <=> Registered(j)
      BY DEF Registered
    <3>2. CASE Registered(j) \/ thread[j].step \in {"start", "read", "free", "forget"}
      <4>1. record'[owner[j]] = record[owner[j]]
        <5>1. CASE record' = record
          BY <5>1
        <5>2. CASE record[owner[i]].sockfd = i
          BY <2>2, <3>2, <5>2, OneOwner DEF Inv, TypeOK
        <5> QED
          BY <5>1, <5>2
      <4> QED
        BY <2>2, <3>1, <4>1 DEF Inv, HoldersOK, ThreadOK, Holds
    <3>3. CASE ~(Registered(j) \/ thread[j].step \in {"start", "read", "free", "forget"})
      BY <2>2, <3>1, <3>3 DEF ThreadOK
    <3> QED
      BY <3>2, <3>3
  <2> QED
    BY <2>1, <2>2
<1> QED
  BY <1>3, <1>4, <1>5, <1>6 DEF Inv, MadeOK

LEMMA BeginInv == ASSUME Inv, NEW i \in Conns, Begin(i) PROVE Inv'
<1> DEFINE at == [step |-> "read", bio |-> record[owner[i]].bio]
<1>1. /\ thread[i].step = "start" /\ thread' = [thread EXCEPT ![i] = at]
      /\ UNCHANGED <<mine, line, said, taken, backlog, accepting, record, owner, freed, shown, told>>
  BY DEF Begin, workstations, server
<1>2. Holds(i)
  <2>1. ThreadOK(i)
    BY DEF Inv, HoldersOK
  <2> QED
    BY <1>1, <2>1 DEF ThreadOK
<1>3. at = [step |-> "read", bio |-> i]
  BY <1>2 DEF Holds
<1>4. thread \in [Conns -> ThreadStates]
  BY DEF Inv, TypeOK, ThreadStates
<1>5. /\ thread' \in [Conns -> ThreadStates] /\ thread'[i] = [step |-> "read", bio |-> i]
      /\ \A j \in Conns : j # i => thread'[j] = thread[j]
  BY <1>1, <1>3, <1>4 DEF ThreadStates, ThreadSteps
<1>6. TypeOK'
  BY <1>1, <1>5 DEF Inv, TypeOK, ThreadStates
<1>7. ThreadOK(i)'
  BY <1>1, <1>2, <1>5 DEF ThreadOK, Holds
<1>8. ShownIsConnected'
  BY <1>1, <1>5 DEF Inv, ShownIsConnected
<1> QED
  BY <1>1, <1>5, <1>6, <1>7, <1>8, ThreadKeeps

LEMMA ReadInv == ASSUME Inv, NEW i \in Conns, Read(i) PROVE Inv'
<1>1. thread[i].step = "read" /\ thread[i].bio = i
  <2>1. ThreadOK(i)
    BY DEF Inv, HoldersOK
  <2> QED
    BY <2>1 DEF Read, ThreadOK
<1>2. /\ said[i] > taken[i] /\ taken' = [taken EXCEPT ![i] = @ + 1]
      /\ UNCHANGED <<mine, line, said, backlog, accepting, record, owner, freed, thread, shown, told>>
  BY <1>1 DEF Read, workstations, server
<1>3. taken' \in [Conns -> 0..3] /\ \A j \in Conns : taken'[j] <= said[j]
  <2>1. said \in [Conns -> 0..3] /\ taken \in [Conns -> 0..3] /\ \A j \in Conns : taken[j] <= said[j]
    BY DEF Inv, TypeOK
  <2> QED
    BY <1>2, <2>1
<1>4. TypeOK'
  BY <1>2, <1>3 DEF Inv, TypeOK
<1>5. ThreadOK(i)'
  BY <1>2 DEF Inv, HoldersOK, ThreadOK, Holds
<1>6. ShownIsConnected'
  BY <1>2 DEF Inv, ShownIsConnected
<1> QED
  BY <1>1, <1>2, <1>4, <1>5, <1>6, ThreadKeeps

LEMMA ReadEndInv == ASSUME Inv, NEW i \in Conns, ReadEnd(i) PROVE Inv'
<1>1. /\ thread[i].step = "read" /\ To(i, "free")
      /\ UNCHANGED <<mine, line, said, taken, backlog, accepting, record, owner, freed, shown, told>>
  BY DEF ReadEnd, workstations, server
<1>2. Holds(i)
  <2>1. ThreadOK(i)
    BY DEF Inv, HoldersOK
  <2> QED
    BY <1>1, <2>1 DEF ThreadOK
<1>3. /\ thread' \in [Conns -> ThreadStates] /\ thread'[i] = [step |-> "free", bio |-> thread[i].bio]
      /\ \A j \in Conns : j # i => thread'[j] = thread[j]
  BY <1>1, ToStep DEF Inv, ThreadSteps
<1>4. TypeOK'
  BY <1>1, <1>3 DEF Inv, TypeOK, ThreadStates
<1>5. ThreadOK(i)'
  BY <1>1, <1>2, <1>3 DEF ThreadOK, Holds
<1>6. ShownIsConnected'
  BY <1>1, <1>3 DEF Inv, ShownIsConnected
<1> QED
  BY <1>1, <1>3, <1>4, <1>5, <1>6, ThreadKeeps

RecordType == [bio : Conns \cup {0}, sockfd : Conns \cup {0}]

LEMMA FreeInv == ASSUME Inv, NEW i \in Conns, Free(i) PROVE Inv'
<1> DEFINE c == owner[i]
<1>1. /\ thread[i].step = "free" /\ To(i, "forget")
      /\ freed' = freed \cup ({record[c].bio} \ {0})
      /\ record' = [record EXCEPT ![c].bio = 0]
      /\ UNCHANGED <<mine, line, said, taken, backlog, accepting, owner, shown, told>>
  BY DEF Free, workstations, server
<1>2. record[c] = [bio |-> i, sockfd |-> i]
  <2>1. ThreadOK(i)
    BY DEF Inv, HoldersOK
  <2> QED
    BY <1>1, <2>1 DEF ThreadOK, Holds
<1>3. c \in Clients /\ record \in [Clients -> RecordType]
  BY DEF Inv, TypeOK, RecordType
<1>4. [record[c] EXCEPT !.bio = 0] = [bio |-> 0, sockfd |-> i]
  BY <1>2
<1>5. /\ record' \in [Clients -> RecordType] /\ record'[c] = [bio |-> 0, sockfd |-> i]
      /\ \A d \in Clients : d # c => record'[d] = record[d]
  BY <1>1, <1>3, <1>4 DEF RecordType
<1>6. freed' = freed \cup {i}
  BY <1>1, <1>2, ConnsOK
<1>7. /\ thread' \in [Conns -> ThreadStates] /\ thread'[i] = [step |-> "forget", bio |-> thread[i].bio]
      /\ \A j \in Conns : j # i => thread'[j] = thread[j]
  BY <1>1, ToStep DEF Inv, ThreadSteps
<1>8. TypeOK'
  BY <1>1, <1>5, <1>6, <1>7 DEF Inv, TypeOK, ThreadStates, RecordType
<1>9. ThreadOK(i)'
  BY <1>1, <1>5, <1>7 DEF ThreadOK
<1>10. ShownIsConnected'
  <2>1. \A d \in Clients : record'[d].sockfd = record[d].sockfd
    BY <1>2, <1>5
  <2>2. \A j \in Conns : thread[j].step = "disconnect" => thread'[j].step = "disconnect"
    BY <1>1, <1>7
  <2>3. shown' = shown /\ owner' = owner /\ shown \subseteq Clients
    BY <1>1 DEF Inv, TypeOK
  <2> QED
    BY <2>1, <2>2, <2>3 DEF Inv, ShownIsConnected
<1> QED
  BY <1>1, <1>2, <1>5, <1>6, <1>7, <1>8, <1>9, <1>10, ThreadKeeps

LEMMA ForgetInv == ASSUME Inv, NEW i \in Conns, Forget(i) PROVE Inv'
<1> DEFINE c == owner[i]
<1>1. /\ thread[i].step = "forget" /\ To(i, "disconnect")
      /\ record' = [record EXCEPT ![c].sockfd = 0]
      /\ UNCHANGED <<mine, line, said, taken, backlog, accepting, owner, freed, shown, told>>
  BY DEF Forget, workstations, server
<1>2. record[c] = [bio |-> 0, sockfd |-> i]
  <2>1. ThreadOK(i)
    BY DEF Inv, HoldersOK
  <2> QED
    BY <1>1, <2>1 DEF ThreadOK
<1>3. c \in Clients /\ record \in [Clients -> RecordType]
  BY DEF Inv, TypeOK, RecordType
<1>4. [record[c] EXCEPT !.sockfd = 0] = [bio |-> 0, sockfd |-> 0]
  BY <1>2
<1>5. /\ record' \in [Clients -> RecordType]
      /\ \A d \in Clients : d # c => record'[d] = record[d]
  BY <1>1, <1>3, <1>4 DEF RecordType
<1>6. /\ thread' \in [Conns -> ThreadStates] /\ thread'[i] = [step |-> "disconnect", bio |-> thread[i].bio]
      /\ \A j \in Conns : j # i => thread'[j] = thread[j]
  BY <1>1, ToStep DEF Inv, ThreadSteps
<1>7. TypeOK'
  BY <1>1, <1>5, <1>6 DEF Inv, TypeOK, ThreadStates, RecordType
<1>8. ThreadOK(i)'
  BY <1>1, <1>6 DEF ThreadOK
<1>9. ShownIsConnected'
  <2> SUFFICES ASSUME NEW d \in shown
               PROVE  \/ record'[d].sockfd # 0
                      \/ \E j \in Conns : owner[j] = d /\ thread'[j].step = "disconnect"
    BY <1>1 DEF ShownIsConnected
  <2>1. CASE d = c
    <3>1. thread'[i].step = "disconnect"
      BY <1>6
    <3> QED
      BY <2>1, <3>1
  <2>2. CASE d # c
    <3>1. record'[d] = record[d]
      BY <1>5, <2>2 DEF Inv, TypeOK
    <3> QED
      BY <1>6, <3>1 DEF Inv, ShownIsConnected
  <2> QED
    BY <2>1, <2>2
<1> QED
  BY <1>1, <1>2, <1>5, <1>6, <1>7, <1>8, <1>9, ThreadKeeps

LEMMA DisconnectInv == ASSUME Inv, NEW i \in Conns, Disconnect(i) PROVE Inv'
<1>1. /\ thread[i].step = "disconnect" /\ To(i, "ended") /\ shown' = shown \ {owner[i]}
      /\ UNCHANGED <<mine, line, said, taken, backlog, accepting, record, owner, freed, told>>
  BY DEF Disconnect, NoLongerShown, workstations, server
<1>2. /\ thread' \in [Conns -> ThreadStates] /\ thread'[i] = [step |-> "ended", bio |-> thread[i].bio]
      /\ \A j \in Conns : j # i => thread'[j] = thread[j]
  BY <1>1, ToStep DEF Inv, ThreadSteps
<1>3. TypeOK'
  BY <1>1, <1>2 DEF Inv, TypeOK, ThreadStates
<1>4. ThreadOK(i)'
  BY <1>1, <1>2 DEF ThreadOK
<1>5. ShownIsConnected'
  BY <1>1, <1>2 DEF Inv, ShownIsConnected
<1> QED
  BY <1>1, <1>2, <1>3, <1>4, <1>5, ThreadKeeps

-----------------------------------------------------------------------------
LEMMA NextInv == ASSUME ~Full PROVE Inv /\ [Step]_vars => Inv'
<1> SUFFICES ASSUME Inv, [Step]_vars PROVE Inv'
  OBVIOUS
<1>1. CASE UNCHANGED vars
  <2>1. UNCHANGED <<mine, line, said, taken, backlog, accepting, record, owner, freed, thread, shown, told>>
    BY <1>1 DEF vars, workstations, server
  <2>2. TypeOK' /\ MadeOK'
    BY <2>1 DEF Inv, TypeOK, MadeOK
  <2> QED
    BY <2>1, <2>2, StationKeeps DEF ServerSame
<1>2. ASSUME NEW s \in Stations, NEW i \in Conns, Connect(s, i) PROVE Inv'
  BY <1>2, ConnectInv
<1>3. ASSUME NEW s \in Stations, Say(s) PROVE Inv'
  BY <1>3, SayInv
<1>4. ASSUME NEW s \in Stations, HungUp(s) PROVE Inv'
  BY <1>4, HungUpInv
<1>5. ASSUME NEW s \in Stations, NEW how \in {"closed", "lost"}, Leave(s, how) PROVE Inv'
  BY <1>5, LeaveInv
<1>6. CASE Accepting
  BY <1>6, AcceptInv, CheckInv, ReadSizeInv, ReadNameInv, RegisterInv, TellInv, CreateThreadInv
     DEF Accepting
<1>7. ASSUME NEW i \in Conns, Reading(i) PROVE Inv'
  BY <1>7, BeginInv, ReadInv, ReadEndInv, FreeInv, ForgetInv, DisconnectInv DEF Reading
<1> QED
  BY <1>1, <1>2, <1>3, <1>4, <1>5, <1>6, <1>7 DEF Step

LEMMA SpecInv == ASSUME ~Full PROVE Spec => []Inv
BY InitInv, NextInv, PTL DEF Spec

\* The variables keep their types, and the server reads nothing that has not
\* arrived.
THEOREM ConnectionTypes == ASSUME ~Full PROVE Spec => []TypeOK
<1>1. Inv => TypeOK
  BY DEF Inv
<1> QED
  BY <1>1, SpecInv, PTL

\* Every client has at most one reading thread; it reads the connection in the
\* client's record, its own, and nobody has freed that (do_cnxn_proc, CCL_client_new).
THEOREM OneReaderPerClient == ASSUME ~Full PROVE Spec => []OneReader
<1>1. Inv => OneReader
  BY DEF Inv, HoldersOK, ThreadOK, Holds, OneReader
<1> QED
  BY <1>1, SpecInv, PTL

\* The main window shows no workstation as connected that has no connection, but
\* for the moment before its last thread takes the mark away
\* (onConnectCallback, onDisconnectCallback).
THEOREM ShownAreConnected == ASSUME ~Full PROVE Spec => []ShownIsConnected
<1>1. Inv => ShownIsConnected
  BY DEF Inv
<1> QED
  BY <1>1, SpecInv, PTL
=============================================================================
