----------------------------- MODULE Connection -----------------------------
(***************************************************************************)
(* How connections begin and end: the thread that accepts them             *)
(* (do_ccl_server, ccl.c), one reading thread per connection               *)
(* (do_cnxn_proc), the fields bio and sockfd of a workstation's record     *)
(* (client.c), which both kinds of threads write without a lock, the mark  *)
(* of the main window that says whether a workstation is connected         *)
(* (CCLWin.cpp), and the client program that connects, says its name and   *)
(* connects again when the server hangs up (cclc.c, cclcfox.cpp).          *)
(*                                                                         *)
(* A workstation says three things: the size of its name, its name and the *)
(* request CC_GETSTATUS.  The size is sent in the workstation's byte order *)
(* and read in the network's, so on a PC the server reads a number far     *)
(* beyond 256, clips it and takes whatever has arrived for the name, the   *)
(* request too when it has come.  The name is sent with the length of the  *)
(* text "server:port": two workstations may be the same one to the server. *)
(*                                                                         *)
(* The time limit and the descriptor set of the check before the           *)
(* hand-shake are uninitialised: the check waits or does not, and may let  *)
(* a connection pass that said nothing.                                    *)
(***************************************************************************)
EXTENDS Integers, Sequences

CONSTANTS Stations,  \* the workstations
          Names,     \* the name of each as the server reads it
          Unnamed,   \* the name that was not read
          Silence,   \* a workstation may be gone without any notice
          Full,      \* the connection to a workstation may take no more data
          MaxConns   \* bound: connections ever made

Clients == {Names[s] : s \in Stations} \cup {Unnamed}   \* one record for each name

ASSUME NamesAssumption == Unnamed \notin {Names[s] : s \in Stations}
ASSUME BoundAssumption == MaxConns \in Nat
ASSUME SettingsAssumption == Silence \in BOOLEAN /\ Full \in BOOLEAN

Conns == 1..MaxConns

VARIABLES mine,      \* the connection each client program has, or 0
          line,      \* connections: the workstation that made it, and whether it is
                     \* open, lost (gone without notice) or closed by it
          said,      \* how many of the three things have arrived
          taken,     \* how many of them the server has read
          backlog,   \* connections made and not accepted yet
          accepting, \* the connection the accepting thread is at, and its next step
          record,    \* bio and sockfd of each client
          owner,     \* the client a connection was taken for
          freed,     \* the connections that BIO_free ended
          thread,    \* the reading threads: next step, and the connection read
          shown,     \* the clients shown as connected, with flag CLIENT_CONNECTED
          told       \* the connections over which on_connect sent the status

workstations == <<mine, line, said>>
server == <<backlog, accepting>>
vars == <<workstations, taken, server, record, owner, freed, thread, shown, told>>

Waiting == [conn |-> 0, step |-> "accept"]
NotConnected == [bio |-> 0, sockfd |-> 0]
NoThread == [step |-> "none", bio |-> 0]

Init ==
  /\ mine = [s \in Stations |-> 0]
  /\ line = [i \in Conns |-> [from |-> Unnamed, is |-> "unused"]]
  /\ said = [i \in Conns |-> 0]
  /\ taken = [i \in Conns |-> 0]
  /\ backlog = <<>>
  /\ accepting = Waiting
  /\ record = [c \in Clients |-> NotConnected]
  /\ owner = [i \in Conns |-> Unnamed]
  /\ freed = {}
  /\ thread = [i \in Conns |-> NoThread]
  /\ shown = {}
  /\ told = {}

-----------------------------------------------------------------------------
(* The client program *)

\* CCLC_networking_init, from the start or from onTimer as long as there is no
\* connection
Connect(s, i) ==
  /\ mine[s] = 0
  /\ line[i].is = "unused"
  /\ \A j \in 1..(i - 1) : line[j].is # "unused"
  /\ mine' = [mine EXCEPT ![s] = i]
  /\ line' = [line EXCEPT ![i] = [from |-> s, is |-> "open"]]
  /\ backlog' = Append(backlog, i)
  /\ UNCHANGED <<said, taken, accepting, record, owner, freed, thread, shown, told>>

\* The size, the name and CC_GETSTATUS
Say(s) ==
  LET i == mine[s]
  IN  /\ i # 0
      /\ said[i] < 3
      /\ said' = [said EXCEPT ![i] = @ + 1]
      /\ UNCHANGED <<mine, line, taken, server, record, owner, freed, thread, shown, told>>

\* CCLC_check_events finds the connection closed by the server:
\* CCLC_networking_shutdown, then onTimer connects again.
HungUp(s) ==
  LET i == mine[s]
  IN  /\ i # 0
      /\ i \in freed
      /\ mine' = [mine EXCEPT ![s] = 0]
      /\ line' = [line EXCEPT ![i].is = "closed"]
      /\ UNCHANGED <<said, taken, server, record, owner, freed, thread, shown, told>>

\* The client program ends or its connection breaks; when the power goes the server
\* hears nothing of it.
Leave(s, how) ==
  LET i == mine[s]
  IN  /\ i # 0
      /\ how = "lost" => Silence
      /\ mine' = [mine EXCEPT ![s] = 0]
      /\ line' = [line EXCEPT ![i].is = how]
      /\ UNCHANGED <<said, taken, server, record, owner, freed, thread, shown, told>>

-----------------------------------------------------------------------------
(* The accepting thread: do_ccl_server *)

Goto(step) == accepting' = [accepting EXCEPT !.step = step]
At(step) == accepting.conn # 0 /\ accepting.step = step
AcceptNext == accepting' = Waiting

Ended(i) == line[i].is = "closed" /\ taken[i] = said[i]

Readable(i) == said[i] > taken[i] \/ Ended(i)

Accept ==
  /\ accepting = Waiting
  /\ backlog # <<>>
  /\ accepting' = [conn |-> Head(backlog), step |-> "check"]
  /\ backlog' = Tail(backlog)
  /\ UNCHANGED <<workstations, taken, record, owner, freed, thread, shown, told>>

\* select: the connection passes, or has said nothing for some time and is freed.
Check ==
  LET i == accepting.conn
  IN  /\ At("check")
      /\ \/ Goto("size") /\ UNCHANGED freed
         \/ ~Readable(i) /\ AcceptNext /\ freed' = freed \cup {i}
      /\ UNCHANGED <<workstations, taken, backlog, record, owner, thread, shown, told>>

\* Mutant: the size is asked for again when the connection has ended.
ReadSizeAgain ==
  LET i == accepting.conn
  IN  /\ At("size")
      /\ Readable(i)
      /\ IF Ended(i) THEN UNCHANGED accepting ELSE Goto("name")
      /\ taken' = [taken EXCEPT ![i] = IF Ended(i) THEN @ ELSE 1]
      /\ UNCHANGED <<workstations, backlog, record, owner, freed, thread, shown, told>>

\* BIO_read of the size waits for it.  If the connection ends there, nothing more is
\* done about it, and it is never freed.
ReadSize ==
  LET i == accepting.conn
  IN  /\ At("size")
      /\ Readable(i)
      /\ IF Ended(i) THEN AcceptNext ELSE Goto("name")
      /\ taken' = [taken EXCEPT ![i] = IF Ended(i) THEN @ ELSE 1]
      /\ UNCHANGED <<workstations, backlog, record, owner, freed, thread, shown, told>>

\* Mutant: the name is taken for read when the connection has ended before it.
NameSupposed(i) == 2

NameTaken(i) == said[i]

\* BIO_read of the name takes what has arrived; its result is not looked at, and
\* when the connection has ended the name is empty.  CCL_client_new finds or makes
\* the client.
ReadName ==
  LET i == accepting.conn
  IN  /\ At("name")
      /\ Readable(i)
      /\ taken' = [taken EXCEPT ![i] = NameTaken(i)]
      /\ owner' = [owner EXCEPT ![i] = IF Ended(i) THEN Unnamed ELSE Names[line[i].from]]
      /\ Goto("register")
      /\ UNCHANGED <<workstations, backlog, record, freed, thread, shown, told>>

\* Mutant: a client's new connection takes the place of the one it has.
InUseReplaced(c) == FALSE

\* A client with a connection keeps it
InUse(c) == record[c].sockfd # 0

\* unless that takes no more data: then it is freed, and its thread goes on.
Freed(c) == {FALSE} \cup (IF Full /\ InUse(c) THEN {TRUE} ELSE {})

Register ==
  LET i == accepting.conn
      c == owner[i]
  IN  /\ At("register")
      /\ \E full \in Freed(c) :
           LET refused == InUse(c) /\ ~full
           IN  /\ record' = IF refused THEN record
                            ELSE [record EXCEPT ![c] = [bio |-> i, sockfd |-> i]]
               /\ freed' = freed \cup (IF refused THEN {i} ELSE {})
                                 \cup (IF full THEN {record[c].bio} \ {0} ELSE {})
               /\ IF refused THEN AcceptNext ELSE Goto("tell")
      /\ UNCHANGED <<workstations, taken, backlog, owner, thread, shown, told>>

\* on_connect: setClientDisconnected(client, FALSE) and updateClientStatus
Tell ==
  LET i == accepting.conn
  IN  /\ At("tell")
      /\ shown' = shown \cup {owner[i]}
      /\ told' = told \cup {record[owner[i]].bio}
      /\ Goto("thread")
      /\ UNCHANGED <<workstations, taken, backlog, record, owner, freed, thread>>

CreateThread ==
  /\ At("thread")
  /\ thread' = [thread EXCEPT ![accepting.conn].step = "start"]
  /\ AcceptNext
  /\ UNCHANGED <<workstations, taken, backlog, record, owner, freed, shown, told>>

-----------------------------------------------------------------------------
(* The reading threads: do_cnxn_proc, each for one client id *)

To(i, step) == thread' = [thread EXCEPT ![i].step = step]

\* The thread takes the connection from the client's record.
Begin(i) ==
  /\ thread[i].step = "start"
  /\ thread' = [thread EXCEPT ![i] = [step |-> "read", bio |-> record[owner[i]].bio]]
  /\ UNCHANGED <<workstations, taken, server, record, owner, freed, shown, told>>

\* A command, unless the name has taken it
Read(i) ==
  LET bio == thread[i].bio
  IN  /\ thread[i].step = "read"
      /\ bio # 0 /\ bio \notin freed
      /\ said[bio] > taken[bio]
      /\ taken' = [taken EXCEPT ![bio] = @ + 1]
      /\ UNCHANGED <<workstations, server, record, owner, freed, thread, shown, told>>

\* The connection has ended, or another thread has freed it.
ReadEnd(i) ==
  LET bio == thread[i].bio
  IN  /\ thread[i].step = "read"
      /\ bio = 0 \/ bio \in freed \/ Ended(bio)
      /\ To(i, "free")
      /\ UNCHANGED <<workstations, taken, server, record, owner, freed, shown, told>>

\* _shutdown_client_connection frees the connection the client has by now
Free(i) ==
  LET c == owner[i]
  IN  /\ thread[i].step = "free"
      /\ freed' = freed \cup ({record[c].bio} \ {0})
      /\ record' = [record EXCEPT ![c].bio = 0]
      /\ To(i, "forget")
      /\ UNCHANGED <<workstations, taken, server, owner, shown, told>>

\* and then its descriptor,
Forget(i) ==
  /\ thread[i].step = "forget"
  /\ record' = [record EXCEPT ![owner[i]].sockfd = 0]
  /\ To(i, "disconnect")
  /\ UNCHANGED <<workstations, taken, server, owner, freed, shown, told>>

\* Mutant: on_disconnect shows nothing.
StillShown(c) == shown

NoLongerShown(c) == shown \ {c}

\* on_disconnect: setClientDisconnected(client, TRUE), and the thread ends.
Disconnect(i) ==
  /\ thread[i].step = "disconnect"
  /\ shown' = NoLongerShown(owner[i])
  /\ To(i, "ended")
  /\ UNCHANGED <<workstations, taken, server, record, owner, freed, told>>

-----------------------------------------------------------------------------
Accepting == Accept \/ Check \/ ReadSize \/ ReadName \/ Register \/ Tell \/ CreateThread

Reading(i) == Begin(i) \/ Read(i) \/ ReadEnd(i) \/ Free(i) \/ Forget(i) \/ Disconnect(i)

Step ==
  \/ \E s \in Stations : \/ \E i \in Conns : Connect(s, i)
                         \/ Say(s)
                         \/ HungUp(s)
                         \/ \E how \in {"closed", "lost"} : Leave(s, how)
  \/ Accepting
  \/ \E i \in Conns : Reading(i)

Spec == Init /\ [][Step]_vars

\* The threads run, what is sent arrives, and a workstation notices within a tenth
\* of a second that the server hung up.  That a workstation connects or leaves is
\* not assumed, nor that the server ever hears of one that is lost: it sets no
\* keep-alive and no time limit.
FairSpec ==
  /\ Spec
  /\ WF_vars(Accepting)
  /\ \A i \in Conns : WF_vars(Reading(i))
  /\ \A s \in Stations : WF_vars(Say(s)) /\ WF_vars(HungUp(s))

-----------------------------------------------------------------------------
AcceptSteps == {"check", "size", "name", "register", "tell", "thread"}
ThreadSteps == {"start", "read", "free", "forget", "disconnect", "ended"}

\* The types of the variables; the server reads nothing that has not arrived, and a
\* connection is never waiting and taken at once.
TypeOK ==
  /\ mine \in [Stations -> Conns \cup {0}]
  /\ line \in [Conns -> [from : Stations \cup {Unnamed},
                         is : {"unused", "open", "lost", "closed"}]]
  /\ said \in [Conns -> 0..3]
  /\ taken \in [Conns -> 0..3]
  /\ \A i \in Conns : taken[i] <= said[i]
  /\ backlog \in Seq(Conns)
  /\ accepting \in {Waiting} \cup [conn : Conns, step : AcceptSteps]
  /\ record \in [Clients -> [bio : Conns \cup {0}, sockfd : Conns \cup {0}]]
  /\ owner \in [Conns -> Clients]
  /\ freed \subseteq Conns
  /\ thread \in [Conns -> {NoThread} \cup [step : ThreadSteps, bio : Conns \cup {0}]]
  /\ shown \subseteq Clients
  /\ told \subseteq Conns \cup {0}

\* A thread that reads commands reads the connection its client has, and nobody has
\* freed it: neither the accepting thread when the workstation comes back nor the
\* thread of an earlier connection, which closes the client by its id
\* (do_cnxn_proc).  So every client has at most one reader.
OneReader ==
  \A i \in Conns : thread[i].step = "read" =>
    /\ thread[i].bio = i /\ i \notin freed
    /\ record[owner[i]] = [bio |-> i, sockfd |-> i]

\* A workstation shown as connected has a connection, or the thread of its last one
\* is about to take the mark away (onConnectCallback, onDisconnectCallback).
ShownIsConnected ==
  \A c \in shown : \/ record[c].sockfd # 0
                   \/ \E i \in Conns : owner[i] = c /\ thread[i].step = "disconnect"

\* A workstation with an open connection, whose commands are read, is shown as
\* connected (cclfox.h: CLIENT_CONNECTED, "client is connected"; the programs of
\* workstations without the mark cannot be updated).  The code does otherwise when the
\* workstation is back before the thread of its last connection takes the mark away.
ConnectedIsShown ==
  \A i \in Conns : thread[i].step = "read" /\ line[i].is = "open" => owner[i] \in shown

\* A workstation that has connected is served: the server tells it its status, or
\* hangs up so that it connects again, or the workstation itself has left.  The
\* accepting thread is never stuck with another one (do_ccl_server: "I dont want to
\* block forever, if the connection is not valid").
NobodyHangs ==
  \A i \in Conns : line[i].is = "open" ~> (i \in told \/ line[i].is # "open")
=============================================================================
