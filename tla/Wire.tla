-------------------------------- MODULE Wire --------------------------------
(***************************************************************************)
(* One direction of a connection.  CCL_client_send_cmd (client.c) and      *)
(* CCLC_send_cmd (cclc.c) write a frame in two or three calls of BIO_write *)
(* and take no lock; do_cnxn_proc (ccl.c) and CCLC_check_events (cclc.c)   *)
(* read it in as many calls of BIO_read, and take a call that returns      *)
(* less than it asked for as the end of the connection (util.c).           *)
(*                                                                         *)
(* A word is four bytes, a size counts words.  A word that arrived in part *)
(* reads as 0: the high bytes come first and are 0 in every command and    *)
(* every size below Limit.  A read is word by word here and stops short    *)
(* wherever the call may: only this thread reads.                          *)
(*                                                                         *)
(* wire is all that was ever written, with the place each word has in its  *)
(* frame, which nobody looks at; what the network lost is what never       *)
(* arrives.                                                                *)
(***************************************************************************)
EXTENDS Integers, Sequences

CONSTANTS Threads,   \* the threads that send over the connection
          Frames,    \* what they send
          Limit,     \* MAX_CLIENT_PACKET_SIZE: from here on data is not read;
                     \* the client program has no limit
          MaxFrames  \* bound: frames ever sent

ASSUME FramesAssumption == Frames \subseteq [cmd : Nat \ {0}, data : Seq(Nat)]
ASSUME LimitsAssumption == Limit \in Nat /\ MaxFrames \in Nat

VARIABLES sent,       \* the frames, in the order in which writing them began
          pen,        \* the word of which frame each thread is to write next
          wire,       \* the words written
          arrived,    \* how many of them are there to read
          broken,     \* the connection is broken or was closed by the sender
          consumed,   \* how many words were read
          reader,     \* cmd, size and data of the reading loop
          delivered,  \* the events handed to on_event
          cut         \* the event of the read that came short

network == <<wire, arrived, broken>>
reading == <<consumed, reader, delivered, cut>>
vars == <<sent, pen, network, reading>>

Channel == INSTANCE Channel WITH sent <- sent, delivered <- delivered, cut <- cut

Idle == [frame |-> 0, at |-> 0]
Reading(part, cmd, size, data) ==
  [part |-> part, cmd |-> cmd, size |-> size, data |-> data]
NextFrame == Reading("cmd", 0, 0, <<>>)

Init ==
  /\ sent = <<>>
  /\ pen = [t \in Threads |-> Idle]
  /\ wire = <<>>
  /\ arrived = 0
  /\ broken = FALSE
  /\ consumed = 0
  /\ reader = NextFrame
  /\ delivered = <<>>
  /\ cut = Channel!NoCut

-----------------------------------------------------------------------------
(* Sending *)

\* A frame is its command, the size of its data and, if there is any, the data.
Words(f) == 2 + Len(f.data)
WordOf(f, k) == IF k = 1 THEN f.cmd ELSE IF k = 2 THEN Len(f.data) ELSE f.data[k - 2]

\* send_cmd is called.
Send(t, f) ==
  /\ pen[t] = Idle
  /\ Len(sent) < MaxFrames
  /\ sent' = Append(sent, f)
  /\ pen' = [pen EXCEPT ![t] = [frame |-> Len(sent) + 1, at |-> 1]]
  /\ UNCHANGED <<network, reading>>

\* _sendall: the data goes out in one call, but between two calls of one thread
\* another thread's may come.
Write(t) ==
  LET f == sent[pen[t].frame]
      k == pen[t].at
  IN  /\ pen[t] # Idle
      /\ \A u \in Threads \ {t} : pen[u].at <= 3
      /\ wire' = Append(wire, [frame |-> pen[t].frame, at |-> k, value |-> WordOf(f, k)])
      /\ pen' = [pen EXCEPT ![t] = IF k < Words(f)
                                   THEN [frame |-> pen[t].frame, at |-> k + 1] ELSE Idle]
      /\ UNCHANGED <<sent, arrived, broken, reading>>

-----------------------------------------------------------------------------
(* The network *)

Arrive ==
  /\ ~broken
  /\ arrived < Len(wire)
  /\ arrived' = arrived + 1
  /\ UNCHANGED <<sent, pen, wire, broken, reading>>

Break ==
  /\ ~broken
  /\ broken' = TRUE
  /\ UNCHANGED <<sent, pen, wire, arrived, reading>>

-----------------------------------------------------------------------------
(* Reading *)

\* on_event, and the next turn of the loop
Event(r) ==
  /\ delivered' = Append(delivered, [cmd |-> r.cmd, data |-> r.data])
  /\ reader' = NextFrame

\* Mutant: no data is read for a size of 1.
DataFollowsSome(cmd, size) == 0 < cmd /\ 1 < size /\ size < Limit

\* Whether the loop reads data after this command and size
DataFollows(cmd, size) == 0 < cmd /\ 0 < size /\ size < Limit

ReadCmd(v) ==
  /\ reader.part = "cmd"
  /\ reader' = Reading("size", v, 0, <<>>)
  /\ UNCHANGED delivered

ReadSize(v) ==
  /\ reader.part = "size"
  /\ IF DataFollows(reader.cmd, v)
     THEN /\ reader' = Reading("data", reader.cmd, v, <<>>)
          /\ UNCHANGED delivered
     ELSE Event(reader)

\* Mutant: one word more is read than there is room for.
ReadDataPast(v) ==
  LET r == Reading("data", reader.cmd, reader.size, Append(reader.data, v))
  IN  /\ reader.part = "data"
      /\ IF Len(r.data) <= r.size
         THEN reader' = r /\ UNCHANGED delivered
         ELSE Event(r)

ReadData(v) ==
  LET r == Reading("data", reader.cmd, reader.size, Append(reader.data, v))
  IN  /\ reader.part = "data"
      /\ IF Len(r.data) < r.size
         THEN reader' = r /\ UNCHANGED delivered
         ELSE Event(r)

ReadWord ==
  /\ cut = Channel!NoCut
  /\ consumed < arrived
  /\ consumed' = consumed + 1
  /\ LET v == wire[consumed + 1].value
     IN  ReadCmd(v) \/ ReadSize(v) \/ ReadData(v)
  /\ UNCHANGED <<sent, pen, network, cut>>

\* Mutant: a connection closed by the other end is not noticed.
ShortUnlessClosed == arrived < Len(wire) \/ reader.data # <<>>

\* _recvall may return less than it was asked for: nothing more can come, a part
\* of a word is there, or some of the words of the data.
Short == broken \/ arrived < Len(wire) \/ reader.data # <<>>

\* connection_closed: the handler is called all the same, with what was read.  If
\* that was no command, do_cnxn_proc hands over the one it has from the turn before,
\* and swaps it again; a part of a word makes it 0, as it always is in
\* CCLC_check_events.
ReadShort ==
  /\ cut = Channel!NoCut
  /\ consumed = arrived
  /\ Short
  /\ cut' \in IF reader.part = "cmd" THEN Channel!NoCommands
              ELSE {[cmd |-> reader.cmd, data |-> reader.data]}
  /\ UNCHANGED <<sent, pen, network, consumed, reader, delivered>>

-----------------------------------------------------------------------------

Thread(t) == Write(t) \/ \E f \in Frames : Send(t, f)
Network == Arrive \/ Break
Read == ReadWord \/ ReadShort

Next == (\E t \in Threads : Thread(t)) \/ Network \/ Read

Spec == Init /\ [][Next]_vars

\* A thread that began a frame goes on writing it, what was written arrives
\* unless the connection breaks, and the reading thread is blocked only while
\* there is nothing to read.
Fairness ==
  /\ \A t \in Threads : WF_vars(Write(t))
  /\ WF_vars(Arrive)
  /\ WF_vars(Read)

FairSpec == Spec /\ Fairness

-----------------------------------------------------------------------------
(* Properties *)

Pen == [frame : Nat, at : Nat]
Word == [frame : Nat, at : Nat, value : Nat]
LoopState == [part : {"cmd", "size", "data"}, cmd : Nat, size : Nat, data : Seq(Nat)]
AnEvent == [cmd : Nat, data : Seq(Nat)]

\* What is read fits into what was allocated for it, and that is below the limit.
InBuffer ==
  reader.part = "data" => Len(reader.data) < reader.size /\ reader.size < Limit

\* The state of both ends and of the network, whose sizes the reading loop takes
\* from the other end.
TypeOK ==
  /\ sent \in Seq(Frames)
  /\ pen \in [Threads -> Pen]
  /\ wire \in Seq(Word)
  /\ arrived \in 0..Len(wire)
  /\ broken \in BOOLEAN
  /\ consumed \in 0..arrived
  /\ reader \in LoopState /\ InBuffer
  /\ delivered \in Seq(AnEvent)
  /\ cut \in AnEvent \cup {Channel!NoCut}

\* The words on the wire, however the network cuts and delays them, come out of
\* the reading loop as the frames that were sent: the connection implements
\* Channel.  Holds for one sending thread and data below the limit, which is the
\* direction from the workstation to the server.
ImplementsChannel == Channel!Spec

\* The reading loop never hangs: what was sent is handed over or the connection
\* ends, and when the connection breaks the handlers are told of it, whatever
\* part of a frame was lost with it.
NothingHangs ==
  /\ Channel!FairSpec
  /\ broken ~> cut # Channel!NoCut

\* The handler acts only on commands that were sent, with the data they were sent
\* with (client.c:1003, "Send a command to client").
OnlySentCommands ==
  \A i \in 1..Len(delivered) :
    delivered[i].cmd # 0 => \E j \in 1..Len(sent) : delivered[i] = Channel!Event(sent[j])
=============================================================================
