--------------------------- MODULE StationProofs ---------------------------
(***************************************************************************)
(* Proofs about a workstation and its server (Station): when everything    *)
(* has arrived, both ends agree on the session, the screen, the modes of   *)
(* login and the limit, and the timer of the client program ends no        *)
(* session early.  They hold for any limits and any number of commands,    *)
(* requests and breaks, as long as the employee presses no button that     *)
(* makes no sense (~Anytime) and none while updateClientStatus is at work  *)
(* (Atomic).                                                               *)
(*                                                                         *)
(* The invariant is about what is on its way.  For each thing that the     *)
(* client program keeps, the last command about it says what the server's  *)
(* record says; if there is none, the client program has it already.       *)
(***************************************************************************)
EXTENDS Station, SequenceTheorems, TLAPS

\* Some command of K is among the messages m.
Decided(m, K) == \E k \in 1..Len(m) : m[k].cmd \in K

\* The last one is in G: after each, or at it, there is one in G.
LastIn(m, K, G) ==
  \A k \in 1..Len(m) : m[k].cmd \in K =>
    \E j \in k..Len(m) : m[j].cmd \in K /\ m[j] \in G

Locking == {"LOCK", "UNLOCK"}
Running == {"START", "STOP", "RESUME"}
Opening == {"START", "RESUME"}
Allowing == {"ALLOW"}
Limiting == {"START", "SETTIMEOUT"}
Timing == {"START", "SETTIME"}

\* Commands on their way, those that updateClientStatus has not sent yet the last.
Pending == toClient \o telling

\* The messages that agree with the record s and the flag b
SameScreen(s) == {m \in Message : m.cmd = IF s.status = "ACTIVE" THEN "UNLOCK" ELSE "LOCK"}
Opens == {m \in Message : m.cmd \in Opening}
SameModes(b) == {m \in Message : m.value = Number(~b)}
SameLimit(s) == {m \in Message : s.limit = IF m.cmd = "START" THEN 0 ELSE m.value}
NotAhead(s) == {m \in Message : m.cmd = "START" \/ m.value <= Used(s)}

\* The customer has asked to leave, and this is on its way.
Leaving(r) == \E k \in 1..Len(r) : r[k] = "USEREXIT"

\* What the messages m and the client program a make of the record.  The customer
\* may have locked the screen himself: then his request to leave is among r.
ScreenAgrees(m, s, a, r) ==
  /\ LastIn(m, Locking, SameScreen(s))
  /\ ~Decided(m, Locking) =>
       IF s.status = "ACTIVE"
       THEN a.locked => Leaving(r)
       ELSE a.locked

RunAgrees(m, s, a) ==
  s.status = "ACTIVE" =>
    /\ LastIn(m, Running, Opens)
    /\ ~Decided(m, Running) => a.active

ModesAgree(m, b, a) ==
  /\ LastIn(m, Allowing, SameModes(b))
  /\ ~Decided(m, Allowing) => a.allow = ~b

LimitAgrees(m, s, c, a) ==
  s.status = "ACTIVE" /\ ~c =>
    /\ LastIn(m, Limiting, SameLimit(s))
    /\ ~Decided(m, Limiting) => a.limit = s.limit

\* The workstation counts no more time than the server.
TimeAgrees(m, s, a) ==
  s.status = "ACTIVE" =>
    /\ LastIn(m, Timing, NotAhead(s))
    /\ ~Decided(m, Timing) => a.elapsed <= Used(s)

Agreed(m, s, b, c, a, r) ==
  /\ ScreenAgrees(m, s, a, r) /\ RunAgrees(m, s, a) /\ ModesAgree(m, b, a)
  /\ LimitAgrees(m, s, c, a) /\ TimeAgrees(m, s, a)

InStep == Agreed(Pending, session, blocked, continued, app, toServer)

\* The screen is not left to itself after a session was opened: a command about it
\* follows.
Followed(m) ==
  \A k \in 1..Len(m) : m[k].cmd \in Opening =>
    \E j \in k..Len(m) : m[j].cmd \in Locking

TypeInv == TypeOK /\ session.held <= session.last

Inv ==
  /\ TypeInv
  /\ greeted => up
  /\ Followed(toClient) /\ Followed(telling)
  /\ greeted => InStep

-----------------------------------------------------------------------------
(* Messages in a row *)

LEMMA MessagesConcat ==
  ASSUME NEW p \in Seq(Message), NEW q \in Seq(Message)
  PROVE  /\ p \o q \in Seq(Message)
         /\ Len(p) \in Nat /\ Len(q) \in Nat /\ Len(p \o q) = Len(p) + Len(q)
         /\ \A k \in 1..Len(p) : k \in 1..Len(p \o q) /\ (p \o q)[k] = p[k]
         /\ \A k \in 1..Len(q) : /\ Len(p) + k \in 1..Len(p \o q)
                                 /\ (p \o q)[Len(p) + k] = q[k]
         /\ \A k \in 1..Len(p \o q) : k \in 1..Len(p) \/ k - Len(p) \in 1..Len(q)
BY ConcatProperties, LenProperties

LEMMA DecidedConcat ==
  ASSUME NEW p \in Seq(Message), NEW q \in Seq(Message), NEW K
  PROVE  Decided(p \o q, K) <=> Decided(p, K) \/ Decided(q, K)
<1>1. ASSUME Decided(p \o q, K) PROVE Decided(p, K) \/ Decided(q, K)
  <2>1. PICK k \in 1..Len(p \o q) : (p \o q)[k].cmd \in K
    BY <1>1 DEF Decided
  <2>2. CASE k \in 1..Len(p)
    BY <2>1, <2>2, MessagesConcat DEF Decided
  <2>3. CASE k - Len(p) \in 1..Len(q)
    <3>1. (p \o q)[Len(p) + (k - Len(p))] = q[k - Len(p)] /\ Len(p) + (k - Len(p)) = k
      BY <2>3, MessagesConcat
    <3> QED
      BY <2>1, <2>3, <3>1 DEF Decided
  <2> QED
    BY <2>2, <2>3, MessagesConcat
<1>2. ASSUME Decided(p, K) PROVE Decided(p \o q, K)
  BY <1>2, MessagesConcat DEF Decided
<1>3. ASSUME Decided(q, K) PROVE Decided(p \o q, K)
  <2>1. PICK k \in 1..Len(q) : q[k].cmd \in K
    BY <1>3 DEF Decided
  <2>2. Len(p) + k \in 1..Len(p \o q) /\ (p \o q)[Len(p) + k].cmd \in K
    BY <2>1, MessagesConcat
  <2> QED
    BY <2>2 DEF Decided
<1> QED
  BY <1>1, <1>2, <1>3

\* More messages that say something of a thing say the last of it,
LEMMA LastInSaid ==
  ASSUME NEW p \in Seq(Message), NEW q \in Seq(Message), NEW K, NEW G,
         Decided(q, K), LastIn(q, K, G)
  PROVE  LastIn(p \o q, K, G)
<1>1. PICK d \in 1..Len(q) : q[d].cmd \in K
  BY DEF Decided
<1>2. \A k \in 1..Len(q) : q[k].cmd \in K => \E j \in k..Len(q) : q[j].cmd \in K /\ q[j] \in G
  BY DEF LastIn
<1> SUFFICES ASSUME NEW k \in 1..Len(p \o q), (p \o q)[k].cmd \in K
             PROVE  \E j \in k..Len(p \o q) : (p \o q)[j].cmd \in K /\ (p \o q)[j] \in G
  BY DEF LastIn
<1>3. CASE k \in 1..Len(p)
  <2>1. PICK j \in d..Len(q) : q[j].cmd \in K /\ q[j] \in G
    BY <1>1, <1>2
  <2>2. j \in 1..Len(q) /\ Len(p) + j \in k..Len(p \o q) /\ (p \o q)[Len(p) + j] = q[j]
    BY <1>3, <2>1, MessagesConcat
  <2> QED
    BY <2>1, <2>2
<1>4. CASE k - Len(p) \in 1..Len(q)
  <2> DEFINE l == k - Len(p)
  <2>1. (p \o q)[Len(p) + l] = q[l] /\ Len(p) + l = k
    <3>1. l \in 1..Len(q) /\ Len(p) \in Nat /\ Len(p) + l = k
      BY <1>4, MessagesConcat
    <3> QED
      BY <3>1, MessagesConcat
  <2>2. PICK j \in l..Len(q) : q[j].cmd \in K /\ q[j] \in G
    BY <1>2, <1>4, <2>1
  <2>3. j \in 1..Len(q) /\ Len(p) + j \in k..Len(p \o q) /\ (p \o q)[Len(p) + j] = q[j]
    BY <1>4, <2>2, MessagesConcat
  <2> QED
    BY <2>2, <2>3
<1> QED
  BY <1>3, <1>4, MessagesConcat

\* and others say nothing of it.
LEMMA LastInUnsaid ==
  ASSUME NEW p \in Seq(Message), NEW q \in Seq(Message), NEW K, NEW G,
         ~Decided(q, K), LastIn(p, K, G)
  PROVE  LastIn(p \o q, K, G)
<1> SUFFICES ASSUME NEW k \in 1..Len(p \o q), (p \o q)[k].cmd \in K
             PROVE  \E j \in k..Len(p \o q) : (p \o q)[j].cmd \in K /\ (p \o q)[j] \in G
  BY DEF LastIn
<1>1. CASE k \in 1..Len(p)
  <2>1. PICK j \in k..Len(p) : p[j].cmd \in K /\ p[j] \in G
    BY <1>1, MessagesConcat DEF LastIn
  <2>2. j \in 1..Len(p) /\ j \in k..Len(p \o q) /\ (p \o q)[j] = p[j]
    BY <1>1, <2>1, MessagesConcat
  <2> QED
    BY <2>1, <2>2
<1>2. CASE k - Len(p) \in 1..Len(q)
  <2>1. (p \o q)[Len(p) + (k - Len(p))] = q[k - Len(p)] /\ Len(p) + (k - Len(p)) = k
    BY <1>2, MessagesConcat
  <2> QED
    BY <1>2, <2>1 DEF Decided
<1> QED
  BY <1>1, <1>2, MessagesConcat

LEMMA LastInWeaker ==
  ASSUME NEW m, NEW K, NEW G, NEW H, LastIn(m, K, G), G \subseteq H
  PROVE  LastIn(m, K, H)
BY DEF LastIn

LEMMA FollowedConcat ==
  ASSUME NEW p \in Seq(Message), NEW q \in Seq(Message), Followed(p), Followed(q)
  PROVE  Followed(p \o q)
<1> SUFFICES ASSUME NEW k \in 1..Len(p \o q), (p \o q)[k].cmd \in Opening
             PROVE  \E j \in k..Len(p \o q) : (p \o q)[j].cmd \in Locking
  BY DEF Followed
<1>1. CASE k \in 1..Len(p)
  <2>1. PICK j \in k..Len(p) : p[j].cmd \in Locking
    BY <1>1, MessagesConcat DEF Followed
  <2>2. j \in 1..Len(p) /\ j \in k..Len(p \o q) /\ (p \o q)[j] = p[j]
    BY <1>1, <2>1, MessagesConcat
  <2> QED
    BY <2>1, <2>2
<1>2. CASE k - Len(p) \in 1..Len(q)
  <2> DEFINE l == k - Len(p)
  <2>1. (p \o q)[Len(p) + l] = q[l] /\ Len(p) + l = k
    BY <1>2, MessagesConcat
  <2>2. PICK j \in l..Len(q) : q[j].cmd \in Locking
    BY <1>2, <2>1 DEF Followed
  <2>3. j \in 1..Len(q) /\ Len(p) + j \in k..Len(p \o q) /\ (p \o q)[Len(p) + j] = q[j]
    BY <1>2, <2>2, MessagesConcat
  <2> QED
    BY <2>2, <2>3
<1> QED
  BY <1>1, <1>2, MessagesConcat

\* When the first has been obeyed
LEMMA MessagesTail ==
  ASSUME NEW p \in Seq(Message), p # <<>>
  PROVE  /\ Tail(p) \in Seq(Message) /\ Head(p) \in Message /\ Head(p) = p[1]
         /\ Len(p) \in Nat /\ 1 \in 1..Len(p) /\ Len(Tail(p)) = Len(p) - 1
         /\ \A k \in 1..Len(Tail(p)) : k + 1 \in 1..Len(p) /\ Tail(p)[k] = p[k + 1]
         /\ \A k \in 1..Len(p) : k = 1 \/ (k - 1 \in 1..Len(Tail(p)) /\ Tail(p)[k - 1] = p[k])
BY HeadTailProperties, LenProperties, EmptySeq

LEMMA DecidedTail ==
  ASSUME NEW p \in Seq(Message), p # <<>>, NEW K
  PROVE  Decided(p, K) <=> Head(p).cmd \in K \/ Decided(Tail(p), K)
BY MessagesTail DEF Decided

LEMMA LastInTail ==
  ASSUME NEW p \in Seq(Message), p # <<>>, NEW K, NEW G, LastIn(p, K, G)
  PROVE  /\ LastIn(Tail(p), K, G)
         /\ Head(p).cmd \in K /\ ~Decided(Tail(p), K) => Head(p) \in G
<1>1. ASSUME NEW k \in 1..Len(Tail(p)), Tail(p)[k].cmd \in K
      PROVE  \E j \in k..Len(Tail(p)) : Tail(p)[j].cmd \in K /\ Tail(p)[j] \in G
  <2>1. PICK j \in (k + 1)..Len(p) : p[j].cmd \in K /\ p[j] \in G
    BY <1>1, MessagesTail DEF LastIn
  <2>2. j - 1 \in k..Len(Tail(p)) /\ Tail(p)[j - 1] = p[j]
    BY <2>1, MessagesTail
  <2> QED
    BY <2>1, <2>2
<1>2. ASSUME Head(p).cmd \in K, ~Decided(Tail(p), K) PROVE Head(p) \in G
  <2>1. PICK j \in 1..Len(p) : p[j].cmd \in K /\ p[j] \in G
    BY <1>2, MessagesTail DEF LastIn
  <2>2. ASSUME j # 1 PROVE FALSE
    <3>1. j - 1 \in 1..Len(Tail(p)) /\ Tail(p)[j - 1] = p[j]
      BY <2>2, MessagesTail
    <3> QED
      BY <1>2, <2>1, <3>1 DEF Decided
  <2> QED
    BY <2>1, <2>2, MessagesTail
<1> QED
  BY <1>1, <1>2 DEF LastIn

LEMMA FollowedTail ==
  ASSUME NEW p \in Seq(Message), p # <<>>, Followed(p)
  PROVE  Followed(Tail(p))
<1> SUFFICES ASSUME NEW k \in 1..Len(Tail(p)), Tail(p)[k].cmd \in Opening
             PROVE  \E j \in k..Len(Tail(p)) : Tail(p)[j].cmd \in Locking
  BY DEF Followed
<1>1. PICK j \in (k + 1)..Len(p) : p[j].cmd \in Locking
  BY MessagesTail DEF Followed
<1>2. j - 1 \in k..Len(Tail(p)) /\ Tail(p)[j - 1] = p[j]
  BY <1>1, MessagesTail
<1> QED
  BY <1>1, <1>2

LEMMA TailConcat ==
  ASSUME NEW p \in Seq(Message), NEW q \in Seq(Message), p # <<>>
  PROVE  /\ p \o q # <<>> /\ Head(p \o q) = Head(p)
         /\ Tail(p \o q) = Tail(p) \o q
<1>1. p \o q \in Seq(Message) /\ p \o q # <<>>
  BY MessagesConcat, MessagesTail, EmptySeq
<1>2. Tail(p \o q) \in Seq(Message) /\ Tail(p) \o q \in Seq(Message)
      /\ Len(Tail(p \o q)) = Len(Tail(p) \o q)
  BY <1>1, MessagesConcat, MessagesTail
<1>3. Head(p \o q) = Head(p)
  BY <1>1, MessagesConcat, MessagesTail
<1>4. \A k \in 1..Len(Tail(p \o q)) : Tail(p \o q)[k] = (Tail(p) \o q)[k]
  <2> SUFFICES ASSUME NEW k \in 1..Len(Tail(p \o q)) PROVE Tail(p \o q)[k] = (Tail(p) \o q)[k]
    OBVIOUS
  <2>0. Tail(p) \in Seq(Message) /\ Len(Tail(p)) = Len(p) - 1 /\ Len(p) \in Nat /\ Len(q) \in Nat
        /\ Len(Tail(p \o q)) = Len(p) + Len(q) - 1 /\ Len(p) >= 1
    BY <1>1, MessagesTail, MessagesConcat
  <2>1. Tail(p \o q)[k] = (p \o q)[k + 1]
    BY <1>1, MessagesTail
  <2>2. CASE k <= Len(Tail(p))
    <3>1. k + 1 \in 1..Len(p) /\ k \in 1..Len(Tail(p)) /\ Tail(p)[k] = p[k + 1]
      BY <2>0, <2>2, MessagesTail
    <3> QED
      BY <2>0, <2>1, <3>1, MessagesConcat
  <2>3. CASE k > Len(Tail(p))
    <3>1. k + 1 \in 1..Len(p) + Len(q) /\ k \in 1..Len(Tail(p)) + Len(q)
      BY <2>0
    <3>2. (p \o q)[k + 1] = q[k + 1 - Len(p)]
      BY <2>0, <2>3, <3>1, ConcatProperties
    <3>3. (Tail(p) \o q)[k] = q[k - Len(Tail(p))]
      BY <2>0, <2>3, <3>1, ConcatProperties
    <3> QED
      BY <2>0, <2>1, <3>2, <3>3
  <2> QED
    BY <2>0, <2>2, <2>3
<1> QED
  BY <1>1, <1>2, <1>3, <1>4, SeqEqual

\* A few messages
LEMMA FewMessages ==
  ASSUME NEW K, NEW a \in Message, NEW b \in Message, NEW c \in Message, NEW d \in Message
  PROVE  /\ <<a>> \in Seq(Message) /\ <<a, b>> \in Seq(Message)
         /\ <<a, b, c>> \in Seq(Message) /\ <<a, b, c, d>> \in Seq(Message)
         /\ Decided(<<a>>, K) <=> a.cmd \in K
         /\ Decided(<<a, b>>, K) <=> a.cmd \in K \/ b.cmd \in K
         /\ Decided(<<a, b, c>>, K) <=> a.cmd \in K \/ b.cmd \in K \/ c.cmd \in K
         /\ Decided(<<a, b, c, d>>, K) <=>
              a.cmd \in K \/ b.cmd \in K \/ c.cmd \in K \/ d.cmd \in K
BY DEF Decided

LEMMA OneMessage ==
  ASSUME NEW K, NEW G, NEW a
  PROVE  LastIn(<<a>>, K, G) <=> (a.cmd \in K => a \in G)
BY DEF LastIn

LEMMA TwoMessages ==
  ASSUME NEW K, NEW G, NEW a, NEW b,
         IF b.cmd \in K THEN b \in G ELSE a.cmd \in K => a \in G
  PROVE  LastIn(<<a, b>>, K, G)
BY DEF LastIn

LEMMA ThreeMessages ==
  ASSUME NEW K, NEW G, NEW a, NEW b, NEW c,
         IF c.cmd \in K THEN c \in G
         ELSE IF b.cmd \in K THEN b \in G ELSE a.cmd \in K => a \in G
  PROVE  LastIn(<<a, b, c>>, K, G)
BY DEF LastIn

LEMMA FourMessages ==
  ASSUME NEW K, NEW G, NEW a, NEW b, NEW c, NEW d,
         IF d.cmd \in K THEN d \in G
         ELSE IF c.cmd \in K THEN c \in G
         ELSE IF b.cmd \in K THEN b \in G ELSE a.cmd \in K => a \in G
  PROVE  LastIn(<<a, b, c, d>>, K, G)
BY DEF LastIn

-----------------------------------------------------------------------------
(* Types *)

LEMMA NumbersOK ==
  /\ Cap \in Nat \ {0} /\ Limits \cup {0} \subseteq 0..Cap /\ 0..Cap \subseteq Nat
  /\ \A b \in BOOLEAN : Number(b) \in 0..Cap
BY LimitsAssumption DEF Number

LEMMA UsedOK == ASSUME NEW s \in Record PROVE Used(s) \in 0..Cap
BY NumbersOK DEF Used, Time, Least, Record

\* The commands
LEMMA CommandsOK ==
  ASSUME NEW v \in 0..Cap, NEW l \in Limits \cup {0}
  PROVE  /\ Cmd("START") \in Message /\ Cmd("START").cmd = "START"
         /\ Cmd("STOP") \in Message /\ Cmd("STOP").cmd = "STOP"
         /\ Cmd("PAUSE") \in Message /\ Cmd("PAUSE").cmd = "PAUSE"
         /\ Cmd("RESUME") \in Message /\ Cmd("RESUME").cmd = "RESUME"
         /\ Cmd("LOCK") \in Message /\ Cmd("LOCK").cmd = "LOCK"
         /\ Cmd("UNLOCK") \in Message /\ Cmd("UNLOCK").cmd = "UNLOCK"
         /\ Cmd("START").value = 0
         /\ CmdWith("ALLOW", v) \in Message
         /\ CmdWith("ALLOW", v).cmd = "ALLOW" /\ CmdWith("ALLOW", v).value = v
         /\ CmdWith("SETTIME", v) \in Message
         /\ CmdWith("SETTIME", v).cmd = "SETTIME" /\ CmdWith("SETTIME", v).value = v
         /\ CmdWith("SETTIMEOUT", l) \in Message
         /\ CmdWith("SETTIMEOUT", l).cmd = "SETTIMEOUT" /\ CmdWith("SETTIMEOUT", l).value = l
<1>1. v \in 0..Cap /\ l \in 0..Cap /\ 0 \in 0..Cap
  BY NumbersOK
<1>2. /\ Cmd("START") \in Message /\ Cmd("STOP") \in Message /\ Cmd("PAUSE") \in Message
      /\ Cmd("RESUME") \in Message /\ Cmd("LOCK") \in Message /\ Cmd("UNLOCK") \in Message
  BY <1>1, NumbersOK DEF Cmd, Message, Command
<1>3. CmdWith("ALLOW", v) \in Message /\ CmdWith("SETTIME", v) \in Message
  BY <1>1, NumbersOK DEF CmdWith, Message, Command
<1>4. CmdWith("SETTIMEOUT", l) \in Message
  BY <1>1, NumbersOK DEF CmdWith, Message, Command
<1> QED
  BY <1>2, <1>3, <1>4 DEF Cmd, CmdWith

\* What a record that is used or paused has: an interval
Lived(s) == s.status # "INACTIVE" => s.exists

LEMMA NoSessionOK == NoSession \in Record /\ Lived(NoSession) /\ NoSession.held <= NoSession.last
BY NumbersOK DEF NoSession, Record, Lived

LEMMA StartedOK ==
  ASSUME NEW s \in Record, Lived(s), s.held <= s.last
  PROVE  /\ Started(s) \in Record /\ Lived(Started(s)) /\ Started(s).held <= Started(s).last
         /\ Started(s).status = "ACTIVE"
         /\ s.status = "INACTIVE" => Started(s).limit = 0
         /\ s.status = "ACTIVE" => Started(s) = s
<1>1. CASE s.status = "INACTIVE"
  <2>1. Started(s) = [status |-> "ACTIVE", exists |-> TRUE, before |-> 0, last |-> 0, held |-> 0,
                      limit |-> 0]
    BY <1>1 DEF Started, NoSession
  <2> QED
    BY <1>1, <2>1, NumbersOK DEF Record, Lived
<1>2. CASE s.status = "PAUSED"
  <2>1. Started(s) = [status |-> "ACTIVE", exists |-> s.exists, before |-> Used(s), last |-> 0,
                      held |-> 0, limit |-> s.limit]
    BY <1>2 DEF Started, Record
  <2> QED
    BY <1>2, <2>1, UsedOK, NumbersOK DEF Record, Lived
<1>3. CASE s.status = "ACTIVE"
  <2>1. Started(s) = s
    BY <1>3 DEF Started
  <2> QED
    BY <1>3, <2>1
<1> QED
  BY <1>1, <1>2, <1>3 DEF Record

LEMMA EndedOK ==
  ASSUME NEW s \in Record, Lived(s), s.held <= s.last, NEW status \in {"INACTIVE", "PAUSED"}
  PROVE  /\ Ended(s, status) \in Record /\ Lived(Ended(s, status))
         /\ Ended(s, status).held <= Ended(s, status).last
         /\ s.status = "ACTIVE" => Ended(s, status).status = status
         /\ s.status # "ACTIVE" => Ended(s, status) = s
<1>1. CASE s.status = "ACTIVE"
  <2>1. Ended(s, status) = [status |-> status, exists |-> s.exists, before |-> s.before,
                            last |-> s.last, held |-> s.last, limit |-> s.limit]
    BY <1>1 DEF Ended, Record
  <2> QED
    BY <1>1, <2>1, NumbersOK DEF Record, Lived
<1>2. CASE s.status # "ACTIVE"
  BY <1>2 DEF Ended
<1> QED
  BY <1>1, <1>2

Resumed(s) == Unpaused(Unstopped(s))

LEMMA ResumedOK ==
  ASSUME NEW s \in Record, Lived(s), s.held <= s.last
  PROVE  /\ Resumed(s) \in Record /\ Lived(Resumed(s)) /\ Resumed(s).held <= Resumed(s).last
         /\ Fits("unstop", s) =>
              /\ Resumed(s).status = "ACTIVE" /\ s.status # "ACTIVE"
              /\ Used(s) <= Used(Resumed(s))
<1>1. CASE s.status = "INACTIVE" /\ s.exists
  <2> DEFINE limit == IF Used(s) > s.limit THEN 0 ELSE s.limit
  <2>1. Unstopped(s) = [status |-> "ACTIVE", exists |-> s.exists, before |-> s.before,
                        last |-> s.last, held |-> 0, limit |-> limit]
    BY <1>1 DEF Unstopped, Record
  <2>2. Resumed(s) = Unstopped(s)
    BY <2>1 DEF Resumed, Unpaused
  <2>3. limit \in Limits \cup {0}
    BY DEF Record
  <2>4. Resumed(s) \in Record /\ Lived(Resumed(s)) /\ Resumed(s).held <= Resumed(s).last
    BY <1>1, <2>1, <2>2, <2>3, NumbersOK DEF Record, Lived
  <2>5. Used(s) <= Used(Resumed(s))
    BY <1>1, <2>1, <2>2, NumbersOK DEF Used, Time, Least, Record
  <2> QED
    BY <1>1, <2>1, <2>2, <2>4, <2>5
<1>2. CASE s.status = "PAUSED"
  <2>1. Unstopped(s) = s
    BY <1>2 DEF Unstopped
  <2>2. Resumed(s) = [status |-> "ACTIVE", exists |-> s.exists, before |-> s.before,
                      last |-> s.last, held |-> 0, limit |-> s.limit]
    BY <1>2, <2>1 DEF Resumed, Unpaused, Record
  <2>3. Resumed(s) \in Record /\ Lived(Resumed(s)) /\ Resumed(s).held <= Resumed(s).last
    BY <1>2, <2>2, NumbersOK DEF Record, Lived
  <2>4. Used(s) <= Used(Resumed(s))
    BY <1>2, <2>2, NumbersOK DEF Used, Time, Least, Record
  <2> QED
    BY <1>2, <2>2, <2>3, <2>4
<1>3. CASE s.status # "PAUSED" /\ ~(s.status = "INACTIVE" /\ s.exists)
  <2>1. Resumed(s) = s /\ ~Fits("unstop", s)
    BY <1>3 DEF Resumed, Unstopped, Unpaused, Fits
  <2> QED
    BY <2>1
<1> QED
  BY <1>1, <1>2, <1>3

\* The record goes on counting.
LEMMA TickedOK ==
  ASSUME NEW s \in Record, Lived(s), s.held <= s.last, NEW r,
         r = [s EXCEPT !.last = IF s.exists THEN Time(@ + 1) ELSE @]
  PROVE  /\ r \in Record /\ Lived(r) /\ r.held <= r.last
         /\ r.status = s.status /\ r.limit = s.limit
         /\ Used(s) <= Used(r)
         /\ s.status = "ACTIVE" => \A e \in 0..Cap : e <= Used(s) => Time(e + 1) <= Used(r)
<1> DEFINE last == IF s.exists THEN Time(s.last + 1) ELSE s.last
<1>1. r = [status |-> s.status, exists |-> s.exists, before |-> s.before, last |-> last,
           held |-> s.held, limit |-> s.limit]
  BY DEF Record
<1>2. last \in 0..Cap /\ s.last <= last
  BY NumbersOK DEF Time, Least, Record
<1>3. r \in Record /\ Lived(r) /\ r.held <= r.last /\ r.status = s.status /\ r.limit = s.limit
  BY <1>1, <1>2, NumbersOK DEF Record, Lived
<1>4. Used(s) <= Used(r)
  BY <1>1, <1>2, NumbersOK DEF Used, Time, Least, Record
<1>5. ASSUME s.status = "ACTIVE", NEW e \in 0..Cap, e <= Used(s)
      PROVE  Time(e + 1) <= Used(r)
  <2>1. last = Time(s.last + 1)
    BY <1>5 DEF Lived, Record
  <2> QED
    BY <1>1, <1>5, <2>1, NumbersOK DEF Used, Time, Least, Record
<1> QED
  BY <1>3, <1>4, <1>5

LEMMA LimitedOK ==
  ASSUME NEW s \in Record, Lived(s), s.held <= s.last, NEW l \in Limits
  PROVE  LET r == [s EXCEPT !.limit = l]
         IN  /\ r \in Record /\ Lived(r) /\ r.held <= r.last
             /\ r.status = s.status /\ r.limit = l /\ Used(r) = Used(s)
<1>1. [s EXCEPT !.limit = l] = [status |-> s.status, exists |-> s.exists, before |-> s.before,
                                last |-> s.last, held |-> s.held, limit |-> l]
  BY DEF Record
<1> QED
  BY <1>1, NumbersOK DEF Record, Lived, Used

LEMMA UpdateOK ==
  ASSUME NEW s \in Record, blocked \in BOOLEAN
  PROVE  Update(s) \in Seq(Message)
<1> DEFINE first == IF s.status = "ACTIVE"
                    THEN <<Cmd("START"), CmdWith("SETTIME", Used(s)), CmdWith("SETTIMEOUT", s.limit),
                           Cmd("UNLOCK")>>
                    ELSE <<Cmd("STOP"), Cmd("LOCK")>>
           modes == CmdWith("ALLOW", Number(~blocked))
<1>1. Used(s) \in 0..Cap /\ s.limit \in Limits \cup {0} /\ s.limit \in 0..Cap
  BY UsedOK, NumbersOK DEF Record
<1>2. /\ {Cmd("START"), Cmd("UNLOCK"), Cmd("STOP"), Cmd("LOCK")} \subseteq Message
      /\ CmdWith("SETTIME", Used(s)) \in Message /\ CmdWith("SETTIMEOUT", s.limit) \in Message
  BY <1>1, CommandsOK
<1>5. modes \in Message
  <2>1. Number(~blocked) \in 0..Cap
    BY NumbersOK DEF Number
  <2> QED
    BY <2>1, <1>1, CommandsOK
<1>3. first \in Seq(Message) /\ <<modes>> \in Seq(Message)
  BY <1>2, <1>5, FewMessages
<1>4. Update(s) = first \o <<modes>>
  BY DEF Update
<1> QED
  BY <1>3, <1>4, MessagesConcat

LEMMA SentOK ==
  ASSUME TypeOK, NEW q \in Seq(Message)
  PROVE  Sent(q) \in Seq(Message)
BY MessagesConcat DEF Sent, TypeOK

LEMMA ObeyedOK ==
  ASSUME NEW a \in App, NEW m \in Message
  PROVE  Obeyed(a, m) \in App
<1>1. m.value \in 0..Cap /\ (m.cmd = "SETTIMEOUT" => m.value \in Limits \cup {0})
  BY DEF Message
<1>2. m.cmd = "START" => [a EXCEPT !.active = TRUE, !.elapsed = 0, !.limit = 0] \in App
  BY NumbersOK DEF App
<1>3. [a EXCEPT !.active = FALSE] \in App /\ [a EXCEPT !.active = TRUE] \in App
  BY DEF App
<1>4. [a EXCEPT !.elapsed = m.value] \in App /\ [a EXCEPT !.allow = (m.value = 1)] \in App
  BY <1>1 DEF App
<1>5. m.cmd = "SETTIMEOUT" => [a EXCEPT !.limit = m.value] \in App
  BY <1>1 DEF App
<1>6. [a EXCEPT !.locked = FALSE] \in App /\ [a EXCEPT !.locked = TRUE] \in App
  BY DEF App
<1> QED
  BY <1>2, <1>3, <1>4, <1>5, <1>6 DEF Obeyed

Request == {"GETSTATUS", "USERLOGIN", "USEREXIT"}

LEMMA TypeInit == Init => TypeInv
<1> SUFFICES ASSUME Init PROVE TypeInv
  OBVIOUS
<1>1. session \in Record /\ Lived(session) /\ session.held <= session.last
  BY NoSessionOK DEF Init
<1>2. app \in App
  BY NumbersOK DEF Init, App
<1>3. blocked = FALSE /\ telling = <<>> /\ up = FALSE /\ greeted = FALSE /\ toServer = <<>>
      /\ toClient = <<>> /\ breaks = 0 /\ continued = FALSE /\ breaks \in 0..MaxBreaks
  BY BoundsAssumption DEF Init
<1> QED
  BY <1>1, <1>2, <1>3, EmptySeq DEF TypeInv, TypeOK, Lived

\* The actions of the server's threads leave the client program and the connection
\* alone.
LEMMA ServerTypes ==
  ASSUME TypeInv, UNCHANGED <<app, up, breaks>>,
         session' \in Record, Lived(session'), session'.held <= session'.last,
         blocked' \in BOOLEAN, greeted' \in BOOLEAN, continued' \in BOOLEAN,
         toServer' \in Seq(Request), telling' \in Seq(Message), toClient' \in Seq(Message)
  PROVE  TypeInv'
BY DEF TypeInv, TypeOK, Lived, Request

LEMMA TypeParts ==
  ASSUME TypeInv
  PROVE  /\ session \in Record /\ Lived(session) /\ session.held <= session.last
         /\ blocked \in BOOLEAN /\ up \in BOOLEAN /\ greeted \in BOOLEAN /\ continued \in BOOLEAN
         /\ app \in App /\ toServer \in Seq(Request)
         /\ telling \in Seq(Message) /\ toClient \in Seq(Message) /\ breaks \in 0..MaxBreaks
BY DEF TypeInv, TypeOK, Lived, Request

LEMMA GreetTypes == ASSUME TypeInv, Greet PROVE TypeInv'
<1> DEFINE hello == IF blocked THEN <<>> ELSE <<CmdWith("ALLOW", 1)>>
<1>1. hello \in Seq(Message)
  <2>1. CmdWith("ALLOW", 1) \in Message
    BY CommandsOK, NumbersOK
  <2> QED
    BY <2>1, FewMessages, EmptySeq
<1>2. telling' = hello \o Update(session) /\ UNCHANGED <<app, up, breaks, session, blocked, toServer, toClient>>
      /\ greeted' = TRUE /\ continued' = FALSE
  BY DEF Greet, Tell
<1>3. telling' \in Seq(Message)
  BY <1>1, <1>2, UpdateOK, MessagesConcat, TypeParts
<1> QED
  BY <1>2, <1>3, ServerTypes, TypeParts

LEMMA HandleTypes == ASSUME TypeInv, Handle PROVE TypeInv'
<1>1. /\ toServer' \in Seq(Request)
      /\ UNCHANGED <<app, up, greeted, breaks>>
  <2>1. toServer' = Tail(toServer) /\ toServer # <<>> /\ UNCHANGED <<app, up, greeted, breaks>>
    BY DEF Handle, HandleStatus, HandleLogin, HandleExit, Receive
  <2> QED
    BY <2>1, HeadTailProperties, TypeParts
<1>2. CASE HandleStatus
  <2>1. telling' = Update(session) /\ UNCHANGED <<toClient, session, blocked>> /\ continued' = FALSE
    BY <1>2 DEF HandleStatus, Tell
  <2> QED
    BY <1>1, <2>1, UpdateOK, ServerTypes, TypeParts
<1>3. CASE HandleLogin
  <2>1. /\ telling' = Update(Started(session)) /\ session' = Started(session)
        /\ UNCHANGED <<toClient, blocked>> /\ continued' = FALSE
    BY <1>3 DEF HandleLogin, Tell
  <2>2. /\ Started(session) \in Record /\ Lived(Started(session))
        /\ Started(session).held <= Started(session).last
    BY StartedOK, TypeParts
  <2>3. telling' \in Seq(Message)
    BY <2>1, <2>2, UpdateOK, TypeParts
  <2> QED
    BY <1>1, <2>1, <2>2, <2>3, ServerTypes, TypeParts
<1>4. CASE HandleExit
  <2> DEFINE q == <<CmdWith("ALLOW", 0), Cmd("LOCK"), Cmd("STOP")>>
  <2>1. q \in Seq(Message)
    <3>1. {CmdWith("ALLOW", 0), Cmd("LOCK"), Cmd("STOP")} \subseteq Message
      BY CommandsOK, NumbersOK
    <3> QED
      BY <3>1, FewMessages
  <2>2. /\ \/ session' = Stopped(session) /\ blocked' = TRUE /\ toClient' = Sent(q)
           \/ session' = NoSession /\ blocked' = blocked /\ toClient' = toClient
        /\ UNCHANGED <<telling, continued>>
    BY <1>4 DEF HandleExit
  <2>3. session' \in Record /\ Lived(session') /\ session'.held <= session'.last
    BY <2>2, EndedOK, NoSessionOK, TypeParts DEF Stopped
  <2>4. toClient' \in Seq(Message)
    BY <2>1, <2>2, SentOK, TypeParts DEF TypeInv
  <2> QED
    BY <1>1, <2>2, <2>3, <2>4, ServerTypes, TypeParts
<1> QED
  BY <1>2, <1>3, <1>4 DEF Handle

LEMMA SendUpdateTypes == ASSUME TypeInv, SendUpdate PROVE TypeInv'
<1>1. /\ toClient' = Sent(telling) /\ telling' = <<>>
      /\ UNCHANGED <<session, blocked, continued, app, up, greeted, toServer, breaks>>
  BY DEF SendUpdate
<1>2. toClient' \in Seq(Message) /\ telling' \in Seq(Message)
  BY <1>1, SentOK, EmptySeq, TypeParts DEF TypeInv
<1> QED
  BY <1>1, <1>2, ServerTypes, TypeParts

\* What the buttons send
StartButton == <<Cmd("START"), Cmd("UNLOCK")>>
ExitSent == <<CmdWith("ALLOW", 0), Cmd("LOCK"), Cmd("STOP")>>
StopButton == <<CmdWith("ALLOW", 0), Cmd("STOP"), Cmd("LOCK")>>
StopAgain == <<Cmd("STOP"), Cmd("LOCK")>>
PauseButton == <<Cmd("PAUSE"), Cmd("LOCK")>>
UnstopButton(s) == <<Cmd("RESUME"), CmdWith("SETTIME", Used(s)), Cmd("UNLOCK")>>
TimeButton(l) == <<CmdWith("SETTIMEOUT", l)>>
UnblockButton == <<CmdWith("ALLOW", 1)>>

LEMMA ButtonsOK ==
  /\ StartButton \in Seq(Message) /\ ExitSent \in Seq(Message) /\ StopButton \in Seq(Message)
  /\ StopAgain \in Seq(Message) /\ PauseButton \in Seq(Message) /\ UnblockButton \in Seq(Message)
  /\ \A s \in Record : UnstopButton(s) \in Seq(Message)
  /\ \A l \in Limits : TimeButton(l) \in Seq(Message)
<1>1. /\ Cmd("START") \in Message /\ Cmd("UNLOCK") \in Message /\ Cmd("LOCK") \in Message
      /\ Cmd("STOP") \in Message /\ Cmd("PAUSE") \in Message /\ Cmd("RESUME") \in Message
      /\ CmdWith("ALLOW", 0) \in Message /\ CmdWith("ALLOW", 1) \in Message
  BY CommandsOK, NumbersOK
<1>2. ASSUME NEW s \in Record PROVE UnstopButton(s) \in Seq(Message)
  <2>1. CmdWith("SETTIME", Used(s)) \in Message
    BY CommandsOK, NumbersOK, UsedOK
  <2> QED
    BY <1>1, <2>1, FewMessages DEF UnstopButton
<1>3. ASSUME NEW l \in Limits PROVE TimeButton(l) \in Seq(Message)
  <2>1. CmdWith("SETTIMEOUT", l) \in Message
    BY CommandsOK, NumbersOK
  <2> QED
    BY <2>1, FewMessages DEF TimeButton
<1> QED
  BY <1>1, <1>2, <1>3, FewMessages
     DEF StartButton, ExitSent, StopButton, StopAgain, PauseButton, UnblockButton

LEMMA EmployeeTypes == ASSUME TypeInv, Employee PROVE TypeInv'
<1>1. UNCHANGED <<telling, app, up, greeted, toServer, breaks>>
  BY DEF Employee, EmployeeStart, EmployeeStop, EmployeePause, EmployeeUnstop, EmployeeTime,
     EmployeeMore, EmployeeUnblock, Give
<1> SUFFICES /\ session' \in Record /\ Lived(session') /\ session'.held <= session'.last
             /\ blocked' \in BOOLEAN /\ continued' \in BOOLEAN /\ toClient' \in Seq(Message)
  BY <1>1, ServerTypes, TypeParts
<1>2. ASSUME NEW q \in Seq(Message), toClient' = Sent(q) PROVE toClient' \in Seq(Message)
  BY <1>2, SentOK DEF TypeInv
<1>3. CASE EmployeeStart
  <2>1. /\ session' = Started(session) /\ toClient' = Sent(StartButton) /\ UNCHANGED blocked
        /\ continued' = (continued \/ session.status = "PAUSED")
    BY <1>3 DEF EmployeeStart, StartButton
  <2> QED
    BY <2>1, <1>2, ButtonsOK, StartedOK, TypeParts
<1>4. CASE EmployeeStop
  <2>1. /\ session' = Stopped(session) /\ UNCHANGED continued
        /\ blocked' = TRUE \/ UNCHANGED blocked
        /\ toClient' = Sent(StopButton) \/ toClient' = Sent(StopAgain)
    BY <1>4 DEF EmployeeStop, StopButton, StopAgain
  <2>2. session' \in Record /\ Lived(session') /\ session'.held <= session'.last
    BY <2>1, EndedOK, TypeParts DEF Stopped
  <2> QED
    BY <2>1, <2>2, <1>2, ButtonsOK, TypeParts
<1>5. CASE EmployeePause
  <2>1. /\ session' = Paused(session) /\ toClient' = Sent(PauseButton)
        /\ UNCHANGED <<blocked, continued>>
    BY <1>5 DEF EmployeePause, PauseButton
  <2>2. session' \in Record /\ Lived(session') /\ session'.held <= session'.last
    BY <2>1, EndedOK, TypeParts DEF Paused
  <2> QED
    BY <2>1, <2>2, <1>2, ButtonsOK, TypeParts
<1>6. CASE EmployeeUnstop
  <2>1. /\ session' = Resumed(session) /\ toClient' = Sent(UnstopButton(session))
        /\ UNCHANGED blocked /\ continued' = (continued \/ session' # session)
    BY <1>6 DEF EmployeeUnstop, Resumed, UnstopButton
  <2> QED
    BY <2>1, <1>2, ButtonsOK, ResumedOK, TypeParts
<1>7. CASE EmployeeTime
  <2>1. PICK l \in Limits : session' = [session EXCEPT !.limit = l] /\ toClient' = Sent(TimeButton(l))
    BY <1>7 DEF EmployeeTime, TimeButton
  <2>2. session' \in Record /\ Lived(session') /\ session'.held <= session'.last
    BY <2>1, LimitedOK, TypeParts
  <2>3. continued' = FALSE /\ UNCHANGED blocked
    BY <1>7 DEF EmployeeTime
  <2> QED
    BY <2>1, <2>2, <2>3, <1>2, ButtonsOK, TypeParts
<1>8. CASE EmployeeMore
  <2> DEFINE base == IF session.status = "INACTIVE" THEN Started(session) ELSE session
  <2>1. PICK l \in Limits :
          /\ session' = [base EXCEPT !.limit = l]
          /\ toClient' = Sent((IF session.status = "INACTIVE" THEN StartButton ELSE <<>>)
                              \o TimeButton(l))
    BY <1>8 DEF EmployeeMore, TimeButton, StartButton
  <2>2. base \in Record /\ Lived(base) /\ base.held <= base.last
    BY StartedOK, TypeParts
  <2>3. session' \in Record /\ Lived(session') /\ session'.held <= session'.last
    BY <2>1, <2>2, LimitedOK
  <2>4. continued' = FALSE /\ UNCHANGED blocked
    BY <1>8 DEF EmployeeMore
  <2>5. (IF session.status = "INACTIVE" THEN StartButton ELSE <<>>) \o TimeButton(l) \in Seq(Message)
    BY ButtonsOK, MessagesConcat, EmptySeq, TypeParts
  <2> QED
    BY <2>1, <2>3, <2>4, <2>5, <1>2, TypeParts
<1>9. CASE EmployeeUnblock
  <2>1. /\ blocked' = FALSE /\ toClient' = Sent(UnblockButton) /\ UNCHANGED <<session, continued>>
    BY <1>9 DEF EmployeeUnblock, UnblockButton
  <2>2. UnblockButton \in Seq(Message)
    BY FewMessages, CommandsOK, NumbersOK DEF UnblockButton
  <2> QED
    BY <2>1, <2>2, <1>2, TypeParts
<1> QED
  BY <1>3, <1>4, <1>5, <1>6, <1>7, <1>8, <1>9 DEF Employee

\* The client program and the network leave the server alone.
LEMMA ClientTypes ==
  ASSUME TypeInv, UNCHANGED server, app' \in App, up' \in BOOLEAN, greeted' \in BOOLEAN,
         toServer' \in Seq(Request), toClient' \in Seq(Message), breaks' \in 0..MaxBreaks
  PROVE  TypeInv'
BY DEF TypeInv, TypeOK, Request, server

LEMMA CheckEventsTypes == ASSUME TypeInv, CheckEvents PROVE TypeInv'
<1>1. /\ toClient # <<>> /\ app' = Obeyed(app, Head(toClient)) /\ toClient' = Tail(toClient)
      /\ UNCHANGED <<server, up, greeted, toServer, breaks>>
  BY DEF CheckEvents
<1>2. app' \in App /\ toClient' \in Seq(Message)
  BY <1>1, ObeyedOK, MessagesTail, TypeParts
<1> QED
  BY <1>1, <1>2, ClientTypes, TypeParts

LEMMA AskedOK ==
  ASSUME NEW r \in Seq(Request)
  PROVE  Append(r, "USERLOGIN") \in Seq(Request) /\ Append(r, "USEREXIT") \in Seq(Request)
<1>1. "USERLOGIN" \in Request /\ "USEREXIT" \in Request
  BY DEF Request
<1> QED
  BY <1>1, AppendProperties

LEMMA LockedOK == ASSUME NEW a \in App PROVE [a EXCEPT !.locked = TRUE] \in App
BY DEF App

LEMMA CustomerTypes == ASSUME TypeInv, CustomerLogin \/ CustomerExit PROVE TypeInv'
<1>1. UNCHANGED <<server, up, greeted, toClient, breaks>>
  BY DEF CustomerLogin, CustomerExit
<1>2. app' = app \/ app' = [app EXCEPT !.locked = TRUE]
  BY DEF CustomerLogin, CustomerExit
<1>3. \/ toServer' = toServer \/ toServer' = Append(toServer, "USERLOGIN")
      \/ toServer' = Append(toServer, "USEREXIT")
  BY DEF CustomerLogin, CustomerExit, Asked, ExitAsked
<1>4. toServer' \in Seq(Request)
  BY <1>3, AskedOK, TypeParts
<1>5. app' \in App
  BY <1>2, LockedOK, TypeParts
<1> QED
  BY <1>1, <1>4, <1>5, ClientTypes, TypeParts

LEMMA TimerTypes == ASSUME TypeInv, OnTimer PROVE TypeInv'
<1>1. ASSUME NEW requests \in Seq(Request), NEW connected \in BOOLEAN,
             TimerExit(connected, requests)
      PROVE  app' \in App /\ toServer' \in Seq(Request)
  <2>1. app' = app \/ app' = [app EXCEPT !.locked = TRUE]
    BY <1>1 DEF TimerExit
  <2>2. toServer' = requests \/ toServer' = Append(requests, "USEREXIT")
    BY <1>1 DEF TimerExit
  <2> QED
    BY <2>1, <2>2, LockedOK, AskedOK, TypeParts
<1>2. CASE TimerTick
  <2>1. TimerExit(TRUE, toServer) /\ UNCHANGED <<server, up, greeted, toClient, breaks>>
    BY <1>2 DEF TimerTick
  <2> QED
    BY <1>1, <2>1, ClientTypes, TypeParts
<1>3. CASE TimerConnects
  <2>1. /\ TimerExit(TRUE, <<"GETSTATUS">>) /\ up' = TRUE
        /\ UNCHANGED <<server, greeted, toClient, breaks>>
    BY <1>3 DEF TimerConnects
  <2>2. <<"GETSTATUS">> \in Seq(Request)
    BY DEF Request
  <2> QED
    BY <1>1, <2>1, <2>2, ClientTypes, TypeParts
<1>4. CASE TimerFails
  <2>1. /\ TimerExit(FALSE, toServer) /\ breaks < MaxBreaks /\ breaks' = breaks + 1
        /\ UNCHANGED <<server, up, greeted, toClient>>
    BY <1>4 DEF TimerFails
  <2>2. breaks' \in 0..MaxBreaks
    BY <2>1, TypeParts, BoundsAssumption
  <2> QED
    BY <1>1, <2>1, <2>2, ClientTypes, TypeParts
<1> QED
  BY <1>2, <1>3, <1>4 DEF OnTimer

LEMMA DisconnectTypes == ASSUME TypeInv, Disconnect PROVE TypeInv'
<1>1. /\ breaks < MaxBreaks /\ breaks' = breaks + 1 /\ up' = FALSE /\ greeted' = FALSE
      /\ toServer' = <<>> /\ toClient' = <<>> /\ UNCHANGED <<server, app>>
  BY DEF Disconnect
<1>2. breaks' \in 0..MaxBreaks
  BY <1>1, TypeParts, BoundsAssumption
<1> QED
  BY <1>1, <1>2, EmptySeq, ClientTypes, TypeParts

LEMMA TickTypes == ASSUME TypeInv, Tick PROVE TypeInv'
<1>1. /\ session' = [session EXCEPT !.last = IF session.exists THEN Time(@ + 1) ELSE @]
      /\ app' = [app EXCEPT !.elapsed = Time(@ + 1)]
      /\ UNCHANGED <<blocked, telling, continued, up, greeted, toServer, toClient, breaks>>
  BY DEF Tick, channels
<1>2. session' \in Record /\ Lived(session') /\ session'.held <= session'.last
  BY <1>1, TickedOK, TypeParts
<1>3. app' \in App
  <2>1. Time(app.elapsed + 1) \in 0..Cap
    BY NumbersOK, TypeParts DEF Time, Least, App
  <2> QED
    BY <1>1, <2>1, TypeParts DEF App
<1> QED
  BY <1>1, <1>2, <1>3, TypeParts DEF TypeInv, TypeOK, Lived

LEMMA TypeNext == ASSUME TypeInv, [Next]_vars PROVE TypeInv'
<1>1. CASE UNCHANGED vars
  BY <1>1 DEF vars, server, channels, TypeInv, TypeOK
<1>2. CASE Next
  BY <1>2, GreetTypes, HandleTypes, SendUpdateTypes, EmployeeTypes, CheckEventsTypes, CustomerTypes,
     TimerTypes, DisconnectTypes, TickTypes DEF Next
<1> QED
  BY <1>1, <1>2

\* The record, the client program and the messages on their way are what they are
\* taken for, a session in use or paused has an interval, and the workstation is
\* told only limits that were set (client.c, CCLWin.cpp, cclcfox.cpp).
THEOREM StationTypes == Spec => []TypeOK
<1>1. TypeInv => TypeOK
  BY DEF TypeInv
<1> QED
  BY TypeInit, TypeNext, <1>1, PTL DEF Spec

-----------------------------------------------------------------------------
(* What is said and what is not *)

LEMMA ScreenTold ==
  ASSUME NEW m \in Seq(Message), NEW q \in Seq(Message), NEW s, NEW a, NEW r,
         Decided(q, Locking), LastIn(q, Locking, SameScreen(s))
  PROVE  ScreenAgrees(m \o q, s, a, r)
BY LastInSaid, DecidedConcat DEF ScreenAgrees

LEMMA ScreenKept ==
  ASSUME NEW m \in Seq(Message), NEW q \in Seq(Message), NEW s, NEW s2, NEW a, NEW r,
         ~Decided(q, Locking), ScreenAgrees(m, s, a, r), s2.status = s.status
  PROVE  ScreenAgrees(m \o q, s2, a, r)
<1>1. SameScreen(s2) = SameScreen(s)
  BY DEF SameScreen
<1> QED
  BY <1>1, LastInUnsaid, DecidedConcat DEF ScreenAgrees

LEMMA RunTold ==
  ASSUME NEW m \in Seq(Message), NEW q \in Seq(Message), NEW s, NEW a,
         Decided(q, Running), LastIn(q, Running, Opens)
  PROVE  RunAgrees(m \o q, s, a)
BY LastInSaid, DecidedConcat DEF RunAgrees

LEMMA RunKept ==
  ASSUME NEW m \in Seq(Message), NEW q \in Seq(Message), NEW s, NEW s2, NEW a,
         ~Decided(q, Running), RunAgrees(m, s, a), s2.status = s.status
  PROVE  RunAgrees(m \o q, s2, a)
BY LastInUnsaid, DecidedConcat DEF RunAgrees

LEMMA ModesTold ==
  ASSUME NEW m \in Seq(Message), NEW q \in Seq(Message), NEW b, NEW a,
         Decided(q, Allowing), LastIn(q, Allowing, SameModes(b))
  PROVE  ModesAgree(m \o q, b, a)
BY LastInSaid, DecidedConcat DEF ModesAgree

LEMMA ModesKept ==
  ASSUME NEW m \in Seq(Message), NEW q \in Seq(Message), NEW b, NEW a,
         ~Decided(q, Allowing), ModesAgree(m, b, a)
  PROVE  ModesAgree(m \o q, b, a)
BY LastInUnsaid, DecidedConcat DEF ModesAgree

LEMMA LimitTold ==
  ASSUME NEW m \in Seq(Message), NEW q \in Seq(Message), NEW s, NEW c, NEW a,
         Decided(q, Limiting), LastIn(q, Limiting, SameLimit(s))
  PROVE  LimitAgrees(m \o q, s, c, a)
BY LastInSaid, DecidedConcat DEF LimitAgrees

LEMMA LimitKept ==
  ASSUME NEW m \in Seq(Message), NEW q \in Seq(Message), NEW s, NEW s2, NEW c, NEW a,
         ~Decided(q, Limiting), LimitAgrees(m, s, c, a),
         s2.status = s.status, s2.limit = s.limit
  PROVE  LimitAgrees(m \o q, s2, c, a)
<1>1. SameLimit(s2) = SameLimit(s)
  BY DEF SameLimit
<1> QED
  BY <1>1, LastInUnsaid, DecidedConcat DEF LimitAgrees

LEMMA TimeTold ==
  ASSUME NEW m \in Seq(Message), NEW q \in Seq(Message), NEW s, NEW a,
         Decided(q, Timing), LastIn(q, Timing, NotAhead(s))
  PROVE  TimeAgrees(m \o q, s, a)
BY LastInSaid, DecidedConcat DEF TimeAgrees

LEMMA TimeKept ==
  ASSUME NEW m \in Seq(Message), NEW q \in Seq(Message), NEW s, NEW s2, NEW a,
         ~Decided(q, Timing), TimeAgrees(m, s, a),
         s2.status = s.status, Used(s2) = Used(s)
  PROVE  TimeAgrees(m \o q, s2, a)
<1>1. NotAhead(s2) = NotAhead(s)
  BY DEF NotAhead
<1> QED
  BY <1>1, LastInUnsaid, DecidedConcat DEF TimeAgrees

\* Nothing is claimed of a session that is not counted.
LEMMA Idle ==
  ASSUME NEW m, NEW s, NEW a, s.status # "ACTIVE"
  PROVE  RunAgrees(m, s, a) /\ TimeAgrees(m, s, a) /\ \A c : LimitAgrees(m, s, c, a)
BY DEF RunAgrees, TimeAgrees, LimitAgrees

\* updateClientStatus says everything again, whatever was on its way.
LEMMA UpdateAgrees ==
  ASSUME blocked \in BOOLEAN, NEW m \in Seq(Message), NEW s \in Record, NEW c, NEW a, NEW r
  PROVE  /\ Update(s) \in Seq(Message) /\ Followed(Update(s))
         /\ Agreed(m \o Update(s), s, blocked, c, a, r)
<1> DEFINE start == Cmd("START")
           time == CmdWith("SETTIME", Used(s))
           limit == CmdWith("SETTIMEOUT", s.limit)
           unlock == Cmd("UNLOCK")
           stop == Cmd("STOP")
           lock == Cmd("LOCK")
           modes == CmdWith("ALLOW", Number(~blocked))
           first == IF s.status = "ACTIVE" THEN <<start, time, limit, unlock>> ELSE <<stop, lock>>
<1>1. Update(s) = first \o <<modes>>
  BY DEF Update
<1>2. Used(s) \in 0..Cap /\ s.limit \in Limits \cup {0} /\ Number(~blocked) \in 0..Cap
  BY UsedOK, NumbersOK DEF Record
<1>3. /\ start \in Message /\ start.cmd = "START" /\ unlock \in Message /\ unlock.cmd = "UNLOCK"
      /\ stop \in Message /\ stop.cmd = "STOP" /\ lock \in Message /\ lock.cmd = "LOCK"
      /\ time \in Message /\ time.cmd = "SETTIME" /\ time.value = Used(s)
      /\ limit \in Message /\ limit.cmd = "SETTIMEOUT" /\ limit.value = s.limit
  BY <1>2, CommandsOK
<1>4. modes \in Message /\ modes.cmd = "ALLOW" /\ modes.value = Number(~blocked)
  BY <1>2, CommandsOK
<1>12. /\ s.status = "ACTIVE" => first = <<start, time, limit, unlock>>
       /\ s.status # "ACTIVE" => first = <<stop, lock>>
  OBVIOUS
<1> HIDE DEF start, time, limit, unlock, stop, lock, modes
<1>5. first \in Seq(Message) /\ <<modes>> \in Seq(Message)
  BY <1>3, <1>4, FewMessages
<1> HIDE DEF first
<1>6. m \o Update(s) = (m \o first) \o <<modes>> /\ m \o first \in Seq(Message)
  BY <1>1, <1>5, ConcatAssociative, MessagesConcat
<1>7. /\ ~Decided(<<modes>>, Locking) /\ ~Decided(<<modes>>, Running)
      /\ ~Decided(<<modes>>, Limiting) /\ ~Decided(<<modes>>, Timing)
      /\ ~Decided(<<modes>>, Opening) /\ Decided(<<modes>>, Allowing)
  BY <1>4, FewMessages DEF Locking, Running, Opening, Allowing, Limiting, Timing
<1>8. LastIn(<<modes>>, Allowing, SameModes(blocked))
  BY <1>4, OneMessage DEF SameModes
<1>9. ModesAgree(m \o Update(s), blocked, a)
  BY <1>5, <1>6, <1>7, <1>8, ModesTold
<1>10. CASE s.status = "ACTIVE"
  <2>1. first = <<start, time, limit, unlock>>
    BY <1>10, <1>12
  <2>2. /\ Decided(first, Locking) /\ Decided(first, Running) /\ Decided(first, Limiting)
        /\ Decided(first, Timing)
    <3>1. /\ Len(first) = 4 /\ first[1].cmd = "START" /\ first[2].cmd = "SETTIME"
          /\ first[3].cmd = "SETTIMEOUT" /\ first[4].cmd = "UNLOCK"
      BY <1>3, <2>1
    <3> QED
      BY <3>1 DEF Decided, Locking, Running, Limiting, Timing
  <2>3. unlock \in SameScreen(s) /\ start \in Opens /\ limit \in SameLimit(s) /\ time \in NotAhead(s)
    BY <1>2, <1>3, <1>10, NumbersOK DEF SameScreen, Opens, Opening, SameLimit, NotAhead
  <2>4. /\ LastIn(first, Locking, SameScreen(s)) /\ LastIn(first, Running, Opens)
        /\ LastIn(first, Limiting, SameLimit(s)) /\ LastIn(first, Timing, NotAhead(s))
    BY <1>3, <2>1, <2>3, FourMessages DEF Locking, Running, Limiting, Timing
  <2>5. /\ ScreenAgrees(m \o first, s, a, r) /\ RunAgrees(m \o first, s, a)
        /\ LimitAgrees(m \o first, s, c, a) /\ TimeAgrees(m \o first, s, a)
    BY <1>5, <2>2, <2>4, ScreenTold, RunTold, LimitTold, TimeTold
  <2>6. Followed(first)
    BY <1>3, <2>1 DEF Followed, Locking
  <2>7. Followed(<<modes>>)
    BY <1>7 DEF Followed, Decided
  <2>8. Followed(Update(s)) /\ Update(s) \in Seq(Message)
    BY <1>1, <1>5, <2>6, <2>7, FollowedConcat, MessagesConcat
  <2> QED
    BY <1>5, <1>6, <1>7, <1>9, <2>5, <2>8, ScreenKept, RunKept, LimitKept, TimeKept DEF Agreed
<1>11. CASE s.status # "ACTIVE"
  <2>1. first = <<stop, lock>>
    BY <1>11, <1>12
  <2>2. Decided(first, Locking)
    BY <1>3, <2>1 DEF Decided, Locking
  <2>3. lock \in SameScreen(s)
    BY <1>3, <1>11 DEF SameScreen
  <2>4. LastIn(first, Locking, SameScreen(s))
    BY <1>3, <2>1, <2>3, TwoMessages DEF Locking
  <2>5. ScreenAgrees(m \o first, s, a, r)
    BY <1>5, <2>2, <2>4, ScreenTold
  <2>6. Followed(first)
    BY <1>3, <2>1 DEF Followed, Opening
  <2>7. Followed(<<modes>>)
    BY <1>7 DEF Followed, Decided
  <2>8. Followed(Update(s)) /\ Update(s) \in Seq(Message)
    BY <1>1, <1>5, <2>6, <2>7, FollowedConcat, MessagesConcat
  <2> QED
    BY <1>5, <1>6, <1>7, <1>9, <1>11, <2>5, <2>8, ScreenKept, Idle DEF Agreed
<1> QED
  BY <1>10, <1>11

\* No button leaves the screen to itself.
LEMMA ButtonsFollowed ==
  /\ Followed(<<>>) /\ Followed(StartButton) /\ Followed(ExitSent) /\ Followed(StopButton)
  /\ Followed(PauseButton) /\ Followed(UnblockButton)
  /\ \A s : Followed(UnstopButton(s))
  /\ \A l : Followed(TimeButton(l))
<1>1. /\ \A c : Cmd(c).cmd = c
      /\ \A c, v : CmdWith(c, v).cmd = c
  BY DEF Cmd, CmdWith
<1>2. Followed(<<>>)
  BY DEF Followed
<1>3. Followed(StartButton)
  BY <1>1 DEF Followed, StartButton, Locking
<1>4. Followed(ExitSent) /\ Followed(StopButton) /\ Followed(PauseButton) /\ Followed(UnblockButton)
  BY <1>1 DEF Followed, ExitSent, StopButton, PauseButton, UnblockButton, Opening
<1>5. ASSUME NEW s PROVE Followed(UnstopButton(s))
  BY <1>1 DEF Followed, UnstopButton, Locking
<1>6. ASSUME NEW l PROVE Followed(TimeButton(l))
  BY <1>1 DEF Followed, TimeButton, Opening
<1> QED
  BY <1>2, <1>3, <1>4, <1>5, <1>6

\* ID_START for a workstation that is not in use
LEMMA StartAgrees ==
  ASSUME NEW m \in Seq(Message), NEW s \in Record, Lived(s), s.held <= s.last,
         NEW b, NEW c \in BOOLEAN, NEW a, NEW r,
         s.status # "ACTIVE", Agreed(m, s, b, c, a, r)
  PROVE  Agreed(m \o StartButton, Started(s), b, c \/ s.status = "PAUSED", a, r)
<1> DEFINE start == Cmd("START")
           unlock == Cmd("UNLOCK")
           q == <<start, unlock>>
           s2 == Started(s)
<1>1. /\ start \in Message /\ start.cmd = "START"
      /\ unlock \in Message /\ unlock.cmd = "UNLOCK"
  BY CommandsOK, NumbersOK
<1>2. s2 \in Record /\ s2.status = "ACTIVE" /\ (s.status = "INACTIVE" => s2.limit = 0)
  BY StartedOK
<1>3. StartButton = q
  BY DEF StartButton
<1> HIDE DEF start, unlock, s2
<1>4. q \in Seq(Message)
  BY <1>1, FewMessages
<1>5. /\ Decided(q, Locking) /\ Decided(q, Running) /\ Decided(q, Limiting) /\ Decided(q, Timing)
      /\ ~Decided(q, Allowing)
  BY <1>1 DEF Decided, Locking, Running, Limiting, Timing, Allowing
<1>6. LastIn(q, Locking, SameScreen(s2)) /\ LastIn(q, Running, Opens) /\ LastIn(q, Timing, NotAhead(s2))
  <2>1. unlock \in SameScreen(s2) /\ start \in Opens /\ start \in NotAhead(s2)
    BY <1>1, <1>2 DEF SameScreen, Opens, Opening, NotAhead
  <2> QED
    BY <1>1, <2>1, TwoMessages DEF Locking, Running, Timing
<1>7. LimitAgrees(m \o q, s2, c \/ s.status = "PAUSED", a)
  <2>1. CASE s.status = "INACTIVE"
    <3>1. start \in SameLimit(s2)
      BY <1>1, <1>2, <2>1 DEF SameLimit
    <3>2. LastIn(q, Limiting, SameLimit(s2))
      BY <1>1, <3>1, TwoMessages DEF Limiting
    <3> QED
      BY <1>4, <1>5, <3>2, LimitTold
  <2>2. CASE s.status = "PAUSED"
    BY <2>2 DEF LimitAgrees
  <2> QED
    BY <2>1, <2>2 DEF Record
<1>8. ScreenAgrees(m \o q, s2, a, r) /\ RunAgrees(m \o q, s2, a) /\ TimeAgrees(m \o q, s2, a)
  BY <1>4, <1>5, <1>6, ScreenTold, RunTold, TimeTold
<1>9. ModesAgree(m \o q, b, a)
  BY <1>4, <1>5, ModesKept DEF Agreed
<1> QED
  BY <1>3, <1>7, <1>8, <1>9 DEF Agreed, s2

\* ID_STOP and CC_USEREXIT: in either order
LEMMA StopAgrees ==
  ASSUME NEW m \in Seq(Message), NEW s, s.status # "ACTIVE", NEW c, NEW a, NEW r
  PROVE  /\ Agreed(m \o StopButton, s, TRUE, c, a, r)
         /\ Agreed(m \o ExitSent, s, TRUE, c, a, r)
<1> DEFINE allow == CmdWith("ALLOW", 0)
           stop == Cmd("STOP")
           lock == Cmd("LOCK")
<1>1. /\ allow \in Message /\ allow.cmd = "ALLOW" /\ allow.value = 0
      /\ stop \in Message /\ stop.cmd = "STOP"
      /\ lock \in Message /\ lock.cmd = "LOCK"
  BY CommandsOK, NumbersOK
<1>2. StopButton = <<allow, stop, lock>> /\ ExitSent = <<allow, lock, stop>>
  BY DEF StopButton, ExitSent
<1> HIDE DEF allow, stop, lock
<1>3. StopButton \in Seq(Message) /\ ExitSent \in Seq(Message)
  BY ButtonsOK
<1>4. lock \in SameScreen(s) /\ allow \in SameModes(TRUE)
  BY <1>1 DEF SameScreen, SameModes, Number
<1>5. ASSUME NEW q, q = <<allow, stop, lock>> \/ q = <<allow, lock, stop>>
      PROVE  /\ Decided(q, Locking) /\ Decided(q, Allowing)
             /\ LastIn(q, Locking, SameScreen(s)) /\ LastIn(q, Allowing, SameModes(TRUE))
  <2>1. CASE q = <<allow, stop, lock>>
    <3>1. Decided(q, Locking) /\ Decided(q, Allowing)
      BY <1>1, <2>1 DEF Decided, Locking, Allowing
    <3>2. /\ LastIn(<<allow, stop, lock>>, Locking, SameScreen(s))
          /\ LastIn(<<allow, stop, lock>>, Allowing, SameModes(TRUE))
      BY <1>1, <1>4, ThreeMessages DEF Locking, Allowing
    <3> QED
      BY <2>1, <3>1, <3>2, Zenon
  <2>2. CASE q = <<allow, lock, stop>>
    <3>1. Decided(q, Locking) /\ Decided(q, Allowing)
      BY <1>1, <2>2 DEF Decided, Locking, Allowing
    <3>2. /\ LastIn(<<allow, lock, stop>>, Locking, SameScreen(s))
          /\ LastIn(<<allow, lock, stop>>, Allowing, SameModes(TRUE))
      BY <1>1, <1>4, ThreeMessages DEF Locking, Allowing
    <3> QED
      BY <2>2, <3>1, <3>2, Zenon
  <2> QED
    BY <1>5, <2>1, <2>2
<1>6. ASSUME NEW q \in Seq(Message), q = <<allow, stop, lock>> \/ q = <<allow, lock, stop>>
      PROVE  Agreed(m \o q, s, TRUE, c, a, r)
  <2>3. ScreenAgrees(m \o q, s, a, r) /\ ModesAgree(m \o q, TRUE, a)
    BY <1>5, <1>6, ScreenTold, ModesTold
  <2> QED
    BY <2>3, Idle DEF Agreed
<1> QED
  BY <1>2, <1>3, <1>6

\* ID_PAUSE
LEMMA PauseAgrees ==
  ASSUME NEW m \in Seq(Message), NEW s, NEW s2, s2.status # "ACTIVE",
         NEW b, NEW c, NEW a, NEW r, Agreed(m, s, b, c, a, r)
  PROVE  Agreed(m \o PauseButton, s2, b, c, a, r)
<1> DEFINE pause == Cmd("PAUSE")
           lock == Cmd("LOCK")
           q == <<pause, lock>>
<1>1. /\ pause \in Message /\ pause.cmd = "PAUSE"
      /\ lock \in Message /\ lock.cmd = "LOCK"
  BY CommandsOK, NumbersOK
<1>2. PauseButton = q /\ q \in Seq(Message)
  BY ButtonsOK DEF PauseButton
<1> HIDE DEF pause, lock
<1>3. Decided(q, Locking) /\ ~Decided(q, Allowing)
  BY <1>1 DEF Decided, Locking, Allowing
<1>4. LastIn(q, Locking, SameScreen(s2))
  <2>1. lock \in SameScreen(s2)
    BY <1>1 DEF SameScreen
  <2> QED
    BY <1>1, <2>1, TwoMessages DEF Locking
<1>5. ScreenAgrees(m \o q, s2, a, r) /\ ModesAgree(m \o q, b, a)
  BY <1>2, <1>3, <1>4, ScreenTold, ModesKept DEF Agreed
<1> QED
  BY <1>2, <1>5, Idle DEF Agreed

\* ID_UNSTOP
LEMMA UnstopAgrees ==
  ASSUME NEW m \in Seq(Message), NEW s \in Record, Lived(s), s.held <= s.last,
         NEW b, NEW c, NEW c2, NEW a, NEW r, Agreed(m, s, b, c, a, r), Fits("unstop", s), c2 = TRUE
  PROVE  Agreed(m \o UnstopButton(s), Resumed(s), b, c2, a, r)
<1> DEFINE resume == Cmd("RESUME")
           time == CmdWith("SETTIME", Used(s))
           unlock == Cmd("UNLOCK")
           q == <<resume, time, unlock>>
           s2 == Resumed(s)
<1>1. /\ resume \in Message /\ resume.cmd = "RESUME"
      /\ time \in Message /\ time.cmd = "SETTIME" /\ time.value = Used(s)
      /\ unlock \in Message /\ unlock.cmd = "UNLOCK"
  BY CommandsOK, NumbersOK, UsedOK
<1>2. s2.status = "ACTIVE" /\ Used(s) <= Used(s2)
  BY ResumedOK
<1>3. UnstopButton(s) = q /\ q \in Seq(Message)
  BY ButtonsOK DEF UnstopButton
<1> HIDE DEF resume, time, unlock, s2
<1>4. /\ Decided(q, Locking) /\ Decided(q, Running) /\ Decided(q, Timing)
      /\ ~Decided(q, Allowing)
  BY <1>1 DEF Decided, Locking, Running, Timing, Allowing
<1>5. unlock \in SameScreen(s2) /\ resume \in Opens /\ time \in NotAhead(s2)
  BY <1>1, <1>2 DEF SameScreen, Opens, Opening, NotAhead
<1>6. LastIn(q, Locking, SameScreen(s2)) /\ LastIn(q, Running, Opens) /\ LastIn(q, Timing, NotAhead(s2))
  BY <1>1, <1>5, ThreeMessages DEF Locking, Running, Timing
<1>7. /\ ScreenAgrees(m \o q, s2, a, r) /\ RunAgrees(m \o q, s2, a) /\ TimeAgrees(m \o q, s2, a)
      /\ ModesAgree(m \o q, b, a)
  BY <1>3, <1>4, <1>6, ScreenTold, RunTold, TimeTold, ModesKept DEF Agreed
<1>8. LimitAgrees(m \o q, s2, c2, a)
  BY DEF LimitAgrees
<1> QED
  BY <1>3, <1>7, <1>8 DEF Agreed, s2

\* onTime, and the end of ID_10MIN to ID_60MIN
LEMMA TimeButtonAgrees ==
  ASSUME NEW m \in Seq(Message), NEW s \in Record, Lived(s), s.held <= s.last, NEW l \in Limits,
         NEW s2, s2 = [s EXCEPT !.limit = l],
         NEW b, NEW c, NEW c2, NEW a, NEW r, Agreed(m, s, b, c, a, r)
  PROVE  Agreed(m \o TimeButton(l), s2, b, c2, a, r)
<1> DEFINE limit == CmdWith("SETTIMEOUT", l)
           q == <<limit>>
<1>1. limit \in Message /\ limit.cmd = "SETTIMEOUT" /\ limit.value = l
  BY CommandsOK, NumbersOK
<1>2. s2.status = s.status /\ s2.limit = l /\ Used(s2) = Used(s)
  BY LimitedOK
<1>3. TimeButton(l) = q /\ q \in Seq(Message)
  BY ButtonsOK DEF TimeButton
<1> HIDE DEF limit
<1>4. /\ ~Decided(q, Locking) /\ ~Decided(q, Running) /\ ~Decided(q, Timing)
      /\ ~Decided(q, Allowing) /\ Decided(q, Limiting)
  BY <1>1 DEF Decided, Locking, Running, Timing, Allowing, Limiting
<1>5. LastIn(q, Limiting, SameLimit(s2))
  <2>1. limit \in SameLimit(s2)
    BY <1>1, <1>2 DEF SameLimit
  <2> QED
    BY <2>1, OneMessage
<1>6. /\ ScreenAgrees(m \o q, s2, a, r) /\ RunAgrees(m \o q, s2, a) /\ TimeAgrees(m \o q, s2, a)
      /\ ModesAgree(m \o q, b, a) /\ LimitAgrees(m \o q, s2, c2, a)
  BY <1>2, <1>3, <1>4, <1>5, ScreenKept, RunKept, TimeKept, ModesKept, LimitTold DEF Agreed
<1> QED
  BY <1>3, <1>6 DEF Agreed

\* unBlockClient
LEMMA UnblockAgrees ==
  ASSUME NEW m \in Seq(Message), NEW s, NEW b, NEW c, NEW a, NEW r, Agreed(m, s, b, c, a, r)
  PROVE  Agreed(m \o UnblockButton, s, FALSE, c, a, r)
<1> DEFINE allow == CmdWith("ALLOW", 1)
           q == <<allow>>
<1>1. allow \in Message /\ allow.cmd = "ALLOW" /\ allow.value = 1
  BY CommandsOK, NumbersOK
<1>2. UnblockButton = q /\ q \in Seq(Message)
  BY ButtonsOK DEF UnblockButton
<1> HIDE DEF allow
<1>3. /\ ~Decided(q, Locking) /\ ~Decided(q, Running) /\ ~Decided(q, Timing)
      /\ Decided(q, Allowing) /\ ~Decided(q, Limiting)
  BY <1>1 DEF Decided, Locking, Running, Timing, Allowing, Limiting
<1>4. LastIn(q, Allowing, SameModes(FALSE))
  <2>1. allow \in SameModes(FALSE)
    BY <1>1 DEF SameModes, Number
  <2> QED
    BY <2>1, OneMessage
<1>5. /\ ScreenAgrees(m \o q, s, a, r) /\ RunAgrees(m \o q, s, a) /\ TimeAgrees(m \o q, s, a)
      /\ ModesAgree(m \o q, FALSE, a) /\ LimitAgrees(m \o q, s, c, a)
  BY <1>2, <1>3, <1>4, ScreenKept, RunKept, TimeKept, ModesTold, LimitKept DEF Agreed
<1> QED
  BY <1>2, <1>5 DEF Agreed

LEMMA ObeyedFields ==
  ASSUME NEW a \in App, NEW h \in Message
  PROVE  /\ h.cmd = "LOCK" => Obeyed(a, h).locked
         /\ h.cmd = "UNLOCK" => ~Obeyed(a, h).locked
         /\ h.cmd \notin Locking => Obeyed(a, h).locked = a.locked
         /\ h.cmd \in Opening => Obeyed(a, h).active
         /\ h.cmd \notin Running => Obeyed(a, h).active = a.active
         /\ h.cmd = "ALLOW" => Obeyed(a, h).allow = (h.value = 1)
         /\ h.cmd # "ALLOW" => Obeyed(a, h).allow = a.allow
         /\ h.cmd = "START" => Obeyed(a, h).limit = 0 /\ Obeyed(a, h).elapsed = 0
         /\ h.cmd = "SETTIMEOUT" => Obeyed(a, h).limit = h.value
         /\ h.cmd \notin Limiting => Obeyed(a, h).limit = a.limit
         /\ h.cmd = "SETTIME" => Obeyed(a, h).elapsed = h.value
         /\ h.cmd \notin Timing => Obeyed(a, h).elapsed = a.elapsed
<1> DEFINE o == Obeyed(a, h)
<1>1. h.cmd \in Command
  BY DEF Message
<1>2. h.cmd = "START" => o = [a EXCEPT !.active = TRUE, !.elapsed = 0, !.limit = 0]
  BY DEF Obeyed
<1>3. h.cmd = "STOP" => o = [a EXCEPT !.active = FALSE]
  BY DEF Obeyed
<1>4. h.cmd = "RESUME" => o = [a EXCEPT !.active = TRUE]
  BY DEF Obeyed
<1>5. h.cmd = "SETTIME" => o = [a EXCEPT !.elapsed = h.value]
  BY DEF Obeyed
<1>6. h.cmd = "SETTIMEOUT" => o = [a EXCEPT !.limit = h.value]
  BY DEF Obeyed
<1>7. h.cmd = "UNLOCK" => o = [a EXCEPT !.locked = FALSE]
  BY DEF Obeyed
<1>8. h.cmd = "LOCK" => o = [a EXCEPT !.locked = TRUE]
  BY DEF Obeyed
<1>9. h.cmd = "ALLOW" => o = [a EXCEPT !.allow = (h.value = 1)]
  BY DEF Obeyed
<1>10. h.cmd = "PAUSE" => o = a
  BY DEF Obeyed
<1> HIDE DEF o
<1>11. CASE h.cmd \in {"START", "STOP", "RESUME"}
  BY <1>2, <1>3, <1>4, <1>11 DEF App, Locking, Running, Opening, Limiting, Timing, o
<1>12. CASE h.cmd \in {"SETTIME", "SETTIMEOUT", "ALLOW", "PAUSE"}
  BY <1>5, <1>6, <1>9, <1>10, <1>12 DEF App, Locking, Running, Opening, Limiting, Timing, o
<1>13. CASE h.cmd \in {"LOCK", "UNLOCK"}
  BY <1>7, <1>8, <1>13 DEF App, Locking, Running, Opening, Limiting, Timing, o
<1> QED
  BY <1>1, <1>11, <1>12, <1>13 DEF Command

\* A command is obeyed.
LEMMA ObeyedAgrees ==
  ASSUME NEW m \in Seq(Message), m # <<>>, NEW s \in Record, NEW b \in BOOLEAN, NEW c,
         NEW a \in App, NEW r, Agreed(m, s, b, c, a, r)
  PROVE  Agreed(Tail(m), s, b, c, Obeyed(a, Head(m)), r)
<1> DEFINE h == Head(m)
           o == Obeyed(a, h)
<1>1. h \in Message
  BY MessagesTail
<1>2. \A K : Decided(m, K) <=> h.cmd \in K \/ Decided(Tail(m), K)
  BY DecidedTail
<1>3. \A K, G : LastIn(m, K, G) =>
        LastIn(Tail(m), K, G) /\ (h.cmd \in K /\ ~Decided(Tail(m), K) => h \in G)
  BY LastInTail
<1> HIDE DEF h, o
<1>4. ScreenAgrees(Tail(m), s, o, r)
  <2>1. LastIn(Tail(m), Locking, SameScreen(s))
    BY <1>3 DEF Agreed, ScreenAgrees
  <2>2. CASE h.cmd \in Locking /\ ~Decided(Tail(m), Locking)
    <3>1. h \in SameScreen(s)
      BY <1>3, <2>2 DEF Agreed, ScreenAgrees
    <3> QED
      BY <1>1, <2>1, <3>1, ObeyedFields DEF ScreenAgrees, SameScreen, o
  <2>3. CASE h.cmd \notin Locking
    <3>1. o.locked = a.locked
      BY <1>1, <2>3, ObeyedFields DEF o
    <3> QED
      BY <1>2, <2>1, <2>3, <3>1 DEF Agreed, ScreenAgrees
  <2>4. CASE Decided(Tail(m), Locking)
    BY <2>1, <2>4 DEF ScreenAgrees
  <2> QED
    BY <2>2, <2>3, <2>4
<1>5. RunAgrees(Tail(m), s, o)
  <2> SUFFICES ASSUME s.status = "ACTIVE"
               PROVE  LastIn(Tail(m), Running, Opens) /\ (~Decided(Tail(m), Running) => o.active)
    BY DEF RunAgrees
  <2>1. LastIn(Tail(m), Running, Opens)
    BY <1>3 DEF Agreed, RunAgrees
  <2>2. CASE h.cmd \in Running /\ ~Decided(Tail(m), Running)
    <3>1. h \in Opens
      BY <1>3, <2>2 DEF Agreed, RunAgrees
    <3> QED
      BY <1>1, <2>1, <3>1, ObeyedFields DEF Opens, o
  <2>3. CASE h.cmd \notin Running
    <3>1. o.active = a.active
      BY <1>1, <2>3, ObeyedFields DEF o
    <3> QED
      BY <1>2, <2>1, <2>3, <3>1 DEF Agreed, RunAgrees
  <2> QED
    BY <2>1, <2>2, <2>3
<1>6. ModesAgree(Tail(m), b, o)
  <2>1. LastIn(Tail(m), Allowing, SameModes(b))
    BY <1>3 DEF Agreed, ModesAgree
  <2>2. CASE h.cmd \in Allowing /\ ~Decided(Tail(m), Allowing)
    <3>1. h \in SameModes(b)
      BY <1>3, <2>2 DEF Agreed, ModesAgree
    <3>2. o.allow = (h.value = 1) /\ h.value = Number(~b)
      BY <1>1, <2>2, <3>1, ObeyedFields DEF SameModes, Allowing, o
    <3> QED
      BY <2>1, <3>2 DEF ModesAgree, Number
  <2>3. CASE h.cmd \notin Allowing
    <3>1. o.allow = a.allow
      BY <1>1, <2>3, ObeyedFields DEF o, Allowing
    <3> QED
      BY <1>2, <2>1, <2>3, <3>1 DEF Agreed, ModesAgree
  <2>4. CASE Decided(Tail(m), Allowing)
    BY <2>1, <2>4 DEF ModesAgree
  <2> QED
    BY <2>2, <2>3, <2>4
<1>7. LimitAgrees(Tail(m), s, c, o)
  <2> SUFFICES ASSUME s.status = "ACTIVE", ~c
               PROVE  /\ LastIn(Tail(m), Limiting, SameLimit(s))
                      /\ ~Decided(Tail(m), Limiting) => o.limit = s.limit
    BY DEF LimitAgrees
  <2>1. LastIn(Tail(m), Limiting, SameLimit(s))
    BY <1>3 DEF Agreed, LimitAgrees
  <2>2. CASE h.cmd \in Limiting /\ ~Decided(Tail(m), Limiting)
    <3>1. h \in SameLimit(s)
      BY <1>3, <2>2 DEF Agreed, LimitAgrees
    <3> QED
      BY <1>1, <2>1, <2>2, <3>1, ObeyedFields DEF SameLimit, Limiting, o
  <2>3. CASE h.cmd \notin Limiting
    <3>1. o.limit = a.limit
      BY <1>1, <2>3, ObeyedFields DEF o
    <3> QED
      BY <1>2, <2>1, <2>3, <3>1 DEF Agreed, LimitAgrees
  <2> QED
    BY <2>1, <2>2, <2>3
<1>8. TimeAgrees(Tail(m), s, o)
  <2> SUFFICES ASSUME s.status = "ACTIVE"
               PROVE  /\ LastIn(Tail(m), Timing, NotAhead(s))
                      /\ ~Decided(Tail(m), Timing) => o.elapsed <= Used(s)
    BY DEF TimeAgrees
  <2>1. LastIn(Tail(m), Timing, NotAhead(s))
    BY <1>3 DEF Agreed, TimeAgrees
  <2>2. CASE h.cmd \in Timing /\ ~Decided(Tail(m), Timing)
    <3>1. h \in NotAhead(s) /\ Used(s) \in 0..Cap
      BY <1>3, <2>2, UsedOK DEF Agreed, TimeAgrees
    <3>2. CASE h.cmd = "START"
      <4>1. o.elapsed = 0
        BY <1>1, <3>2, ObeyedFields DEF o
      <4> QED
        BY <2>1, <3>1, <4>1, NumbersOK
    <3>3. CASE h.cmd = "SETTIME"
      <4>1. o.elapsed = h.value /\ h.value <= Used(s)
        BY <1>1, <3>1, <3>3, ObeyedFields DEF o, NotAhead
      <4> QED
        BY <2>1, <4>1
    <3> QED
      BY <2>2, <3>2, <3>3 DEF Timing
  <2>3. CASE h.cmd \notin Timing
    <3>1. o.elapsed = a.elapsed
      BY <1>1, <2>3, ObeyedFields DEF o
    <3> QED
      BY <1>2, <2>1, <2>3, <3>1 DEF Agreed, TimeAgrees
  <2> QED
    BY <2>1, <2>2, <2>3
<1> QED
  BY <1>4, <1>5, <1>6, <1>7, <1>8 DEF Agreed, o, h

\* The screen is locked at the workstation.
LEMMA LockedAgrees ==
  ASSUME NEW m, NEW s, NEW b, NEW c, NEW a \in App, NEW r, NEW r2, Agreed(m, s, b, c, a, r),
         s.status = "ACTIVE" /\ ~Decided(m, Locking) => Leaving(r2)
  PROVE  Agreed(m, s, b, c, [a EXCEPT !.locked = TRUE], r2)
<1> DEFINE o == [a EXCEPT !.locked = TRUE]
<1>1. /\ o.locked = TRUE /\ o.active = a.active /\ o.allow = a.allow /\ o.limit = a.limit
      /\ o.elapsed = a.elapsed
  BY DEF App
<1> HIDE DEF o
<1>2. ScreenAgrees(m, s, o, r2)
  BY <1>1 DEF Agreed, ScreenAgrees
<1>3. RunAgrees(m, s, o) /\ ModesAgree(m, b, o) /\ LimitAgrees(m, s, c, o) /\ TimeAgrees(m, s, o)
  BY <1>1 DEF Agreed, RunAgrees, ModesAgree, LimitAgrees, TimeAgrees
<1> QED
  BY <1>2, <1>3 DEF Agreed, o

LEMMA AskedAgrees ==
  ASSUME NEW m, NEW s, NEW b, NEW c, NEW a, NEW r, NEW r2, Agreed(m, s, b, c, a, r),
         Leaving(r) => Leaving(r2)
  PROVE  Agreed(m, s, b, c, a, r2)
BY DEF Agreed, ScreenAgrees

\* Time passes on both sides.
LEMMA TickAgrees ==
  ASSUME NEW m, NEW s \in Record, Lived(s), s.held <= s.last, NEW s2,
         s2 = [s EXCEPT !.last = IF s.exists THEN Time(@ + 1) ELSE @],
         NEW b, NEW c, NEW a \in App, NEW r, Agreed(m, s, b, c, a, r)
  PROVE  Agreed(m, s2, b, c, [a EXCEPT !.elapsed = Time(@ + 1)], r)
<1> DEFINE o == [a EXCEPT !.elapsed = Time(@ + 1)]
<1>1. /\ s2 \in Record /\ s2.status = s.status /\ s2.limit = s.limit /\ Used(s) <= Used(s2)
      /\ s.status = "ACTIVE" => \A e \in 0..Cap : e <= Used(s) => Time(e + 1) <= Used(s2)
  BY TickedOK
<1>2. /\ o.locked = a.locked /\ o.active = a.active /\ o.allow = a.allow /\ o.limit = a.limit
      /\ o.elapsed = Time(a.elapsed + 1) /\ a.elapsed \in 0..Cap
  BY DEF App
<1> HIDE DEF o
<1>3. ScreenAgrees(m, s2, o, r) /\ RunAgrees(m, s2, o) /\ ModesAgree(m, b, o) /\ LimitAgrees(m, s2, c, o)
  <2>1. SameScreen(s2) = SameScreen(s) /\ SameLimit(s2) = SameLimit(s)
    BY <1>1 DEF SameScreen, SameLimit
  <2> QED
    BY <1>1, <1>2, <2>1 DEF Agreed, ScreenAgrees, RunAgrees, ModesAgree, LimitAgrees
<1>4. TimeAgrees(m, s2, o)
  <2>1. NotAhead(s) \subseteq NotAhead(s2)
    <3>1. \A h \in Message : h.value \in Nat
      BY NumbersOK DEF Message
    <3>2. Used(s) \in Nat /\ Used(s2) \in Nat
      BY <1>1, UsedOK, NumbersOK
    <3> QED
      BY <1>1, <3>1, <3>2 DEF NotAhead
  <2> QED
    BY <1>1, <1>2, <2>1, LastInWeaker DEF Agreed, TimeAgrees
<1> QED
  BY <1>3, <1>4 DEF Agreed, o

-----------------------------------------------------------------------------
(* The steps keep both ends in step *)

LEMMA PendingOK ==
  ASSUME TypeInv
  PROVE  /\ Pending \in Seq(Message)
         /\ telling = <<>> => Pending = toClient
BY TypeParts, MessagesConcat, ConcatEmptySeq DEF Pending

\* A step of the server that says q, at once or later
LEMMA SaidAgrees ==
  ASSUME Inv, telling = <<>>, TypeInv',
         UNCHANGED <<app, up>>, greeted' => up, NEW q \in Seq(Message), Followed(q),
         \/ toClient' = Sent(q) /\ telling' = <<>>
         \/ toClient' = toClient /\ telling' = q,
         greeted' => Agreed(Pending \o q, session', blocked', continued', app, toServer')
  PROVE  Inv'
<1>1. Followed(toClient') /\ Followed(telling')
  <2>1. Followed(<<>>)
    BY DEF Followed
  <2>2. CASE toClient' = Sent(q) /\ telling' = <<>>
    <3>1. toClient' = toClient \o q \/ toClient' = toClient
      BY <2>2 DEF Sent
    <3> QED
      BY <2>1, <2>2, <3>1, FollowedConcat, TypeParts DEF Inv
  <2>3. CASE toClient' = toClient /\ telling' = q
    BY <2>3 DEF Inv
  <2> QED
    BY <2>2, <2>3
<1>2. ASSUME greeted' PROVE Pending' = Pending \o q
  <2>1. Pending = toClient /\ up
    BY <1>2, PendingOK DEF Inv
  <2>2. Pending' = toClient' \o telling'
    BY DEF Pending
  <2>3. CASE toClient' = Sent(q) /\ telling' = <<>>
    <3>1. toClient' = toClient \o q /\ toClient \o q \in Seq(Message)
      BY <2>1, <2>3, MessagesConcat, TypeParts DEF Sent, Inv
    <3>2. Pending' = (toClient \o q) \o <<>>
      BY <2>2, <2>3, <3>1
    <3> QED
      BY <2>1, <3>1, <3>2, ConcatEmptySeq
  <2>4. CASE toClient' = toClient /\ telling' = q
    BY <2>1, <2>2, <2>4
  <2> QED
    BY <2>3, <2>4
<1>3. greeted' => InStep'
  BY <1>2 DEF InStep
<1>4. greeted' => up'
  OBVIOUS
<1> QED
  BY <1>1, <1>3, <1>4 DEF Inv

LEMMA InitInv == Init => Inv
<1> SUFFICES ASSUME Init PROVE Inv
  OBVIOUS
<1>1. Followed(<<>>)
  BY DEF Followed
<1>2. toClient = <<>> /\ telling = <<>> /\ greeted = FALSE
  BY DEF Init
<1> QED
  BY <1>1, <1>2, TypeInit DEF Inv

LEMMA GreetInv == ASSUME Inv, Greet PROVE Inv'
<1> DEFINE hello == IF blocked THEN <<>> ELSE <<CmdWith("ALLOW", 1)>>
           q == hello \o Update(session)
<1>1. /\ up /\ telling = <<>> /\ telling' = q /\ greeted' = TRUE /\ continued' = FALSE
      /\ UNCHANGED <<toClient, session, blocked, app, up, toServer>>
  BY DEF Greet, Tell
<1>2. TypeInv' /\ session \in Record /\ blocked \in BOOLEAN /\ Pending \in Seq(Message)
  BY GreetTypes, TypeParts, PendingOK DEF Inv
<1>3. hello \in Seq(Message) /\ Followed(hello)
  <2>1. hello = <<>> \/ hello = UnblockButton
    BY DEF UnblockButton
  <2> QED
    BY <2>1, ButtonsFollowed, ButtonsOK, EmptySeq
<1> HIDE DEF hello
<1>4. /\ Update(session) \in Seq(Message) /\ Followed(Update(session))
      /\ Agreed((Pending \o hello) \o Update(session), session, blocked, FALSE, app, toServer)
  BY <1>2, <1>3, MessagesConcat, UpdateAgrees
<1>5. Pending \o q = (Pending \o hello) \o Update(session)
  BY <1>2, <1>3, <1>4, ConcatAssociative
<1>6. q \in Seq(Message) /\ Followed(q)
  BY <1>3, <1>4, FollowedConcat, MessagesConcat
<1>7. Agreed(Pending \o q, session, blocked, FALSE, app, toServer)
  BY <1>4, <1>5
<1> QED
  BY <1>1, <1>2, <1>6, <1>7, SaidAgrees

LEMMA HandleInv == ASSUME Inv, Handle PROVE Inv'
<1>1. /\ telling = <<>> /\ greeted /\ up /\ UNCHANGED <<app, up, greeted, breaks>>
  BY DEF Inv, Handle, HandleStatus, HandleLogin, HandleExit, Receive
<1>2. /\ TypeInv' /\ session \in Record /\ Lived(session) /\ session.held <= session.last
      /\ blocked \in BOOLEAN /\ Pending \in Seq(Message)
  BY HandleTypes, TypeParts, PendingOK DEF Inv
<1>3. CASE HandleStatus
  <2>1. /\ telling' = Update(session) /\ UNCHANGED <<toClient, session, blocked>>
        /\ continued' = FALSE
    BY <1>3 DEF HandleStatus, Tell
  <2>2. /\ Update(session) \in Seq(Message) /\ Followed(Update(session))
        /\ Agreed(Pending \o Update(session), session, blocked, FALSE, app, toServer')
    BY <1>2, UpdateAgrees
  <2> QED
    BY <1>1, <1>2, <2>1, <2>2, SaidAgrees
<1>4. CASE HandleLogin
  <2> DEFINE s == Started(session)
  <2>1. /\ telling' = Update(s) /\ session' = s /\ UNCHANGED <<toClient, blocked>>
        /\ continued' = FALSE
    BY <1>4 DEF HandleLogin, Tell
  <2>2. s \in Record
    BY <1>2, StartedOK
  <2> HIDE DEF s
  <2>3. /\ Update(s) \in Seq(Message) /\ Followed(Update(s))
        /\ Agreed(Pending \o Update(s), s, blocked, FALSE, app, toServer')
    BY <1>2, <2>2, UpdateAgrees
  <2> QED
    BY <1>1, <1>2, <2>1, <2>3, SaidAgrees
<1>5. CASE HandleExit
  <2>1. UNCHANGED <<telling, continued>>
    BY <1>5 DEF HandleExit
  <2>2. CASE session.status = "ACTIVE"
    <3>1. session' = Stopped(session) /\ blocked' = TRUE /\ toClient' = Sent(ExitSent)
      BY <1>5, <2>2 DEF HandleExit, ExitSent
    <3>2. Stopped(session).status # "ACTIVE"
      BY <1>2, <2>2, EndedOK DEF Stopped
    <3>3. /\ ExitSent \in Seq(Message) /\ Followed(ExitSent)
          /\ Agreed(Pending \o ExitSent, Stopped(session), TRUE, continued, app, toServer')
      BY <1>2, <3>2, StopAgrees, ButtonsOK, ButtonsFollowed
    <3> QED
      BY <1>1, <1>2, <2>1, <3>1, <3>3, SaidAgrees
  <2>3. CASE session.status # "ACTIVE"
    <3>1. session' = NoSession /\ UNCHANGED <<blocked, toClient>>
      BY <1>5, <2>3 DEF HandleExit
    <3>2. Followed(<<>>) /\ <<>> \in Seq(Message) /\ Pending \o <<>> = Pending
      BY <1>2, ConcatEmptySeq, EmptySeq DEF Followed
    <3>3. Agreed(Pending, NoSession, blocked, continued, app, toServer')
      <4>1. NoSession.status = "INACTIVE" /\ SameScreen(NoSession) = SameScreen(session)
        BY <2>3 DEF NoSession, SameScreen
      <4>2. ScreenAgrees(Pending, session, app, toServer) /\ ModesAgree(Pending, blocked, app)
        BY <1>1 DEF Inv, InStep, Agreed
      <4>3. ScreenAgrees(Pending, NoSession, app, toServer')
        BY <2>3, <4>1, <4>2 DEF ScreenAgrees
      <4> QED
        BY <4>1, <4>2, <4>3, Idle DEF Agreed
    <3> QED
      BY <1>1, <1>2, <2>1, <3>1, <3>2, <3>3, SaidAgrees
  <2> QED
    BY <2>2, <2>3
<1> QED
  BY <1>3, <1>4, <1>5 DEF Handle

LEMMA SendUpdateInv == ASSUME Inv, SendUpdate PROVE Inv'
<1>1. /\ toClient' = Sent(telling) /\ telling' = <<>>
      /\ UNCHANGED <<session, blocked, continued, app, up, greeted, toServer>>
  BY DEF SendUpdate
<1>2. TypeInv' /\ Followed(<<>>)
  BY SendUpdateTypes DEF Inv, Followed
<1>3. Followed(toClient')
  <2>1. toClient' = toClient \o telling \/ toClient' = toClient
    BY <1>1 DEF Sent
  <2> QED
    BY <2>1, FollowedConcat, TypeParts DEF Inv
<1>4. ASSUME greeted' PROVE Pending' = Pending
  <2>1. toClient' = toClient \o telling /\ toClient' \in Seq(Message)
    BY <1>1, <1>2, <1>4, SentOK, TypeParts DEF Inv, Sent, TypeInv
  <2>2. Pending' = toClient' \o <<>>
    BY <1>1 DEF Pending
  <2> QED
    BY <2>1, <2>2, ConcatEmptySeq DEF Pending
<1>5. greeted' => InStep'
  BY <1>1, <1>4 DEF Inv, InStep
<1> QED
  BY <1>1, <1>2, <1>3, <1>5 DEF Inv

LEMMA EmployeeInv == ASSUME ~Anytime, Atomic, Inv, Employee PROVE Inv'
<1>1. /\ telling = <<>> /\ telling' = <<>> /\ UNCHANGED <<app, up, greeted, toServer>>
  BY DEF Employee, EmployeeStart, EmployeeStop, EmployeePause, EmployeeUnstop, EmployeeTime,
     EmployeeMore, EmployeeUnblock, Give
<1>2. /\ TypeInv' /\ session \in Record /\ Lived(session) /\ session.held <= session.last
      /\ blocked \in BOOLEAN /\ continued \in BOOLEAN /\ Pending \in Seq(Message)
      /\ greeted' => up
  BY <1>1, EmployeeTypes, TypeParts, PendingOK DEF Inv
<1>3. greeted' => Agreed(Pending, session, blocked, continued, app, toServer)
  BY <1>1 DEF Inv, InStep
<1>4. ASSUME NEW q \in Seq(Message), Followed(q), toClient' = Sent(q),
             greeted' => Agreed(Pending \o q, session', blocked', continued', app, toServer)
      PROVE  Inv'
  <2>1. greeted' => Agreed(Pending \o q, session', blocked', continued', app, toServer')
    BY <1>1, <1>4
  <2> QED
    BY <1>1, <1>2, <1>4, <2>1, SaidAgrees
<1>5. CASE EmployeeStart
  <2>1. /\ session' = Started(session) /\ toClient' = Sent(StartButton) /\ UNCHANGED blocked
        /\ continued' = (continued \/ session.status = "PAUSED") /\ Fits("start", session)
    BY <1>5 DEF EmployeeStart, StartButton, Give
  <2>2. session.status # "ACTIVE"
    BY <2>1 DEF Fits
  <2>3. Followed(StartButton) /\ StartButton \in Seq(Message)
    BY ButtonsOK, ButtonsFollowed
  <2>4. greeted' => Agreed(Pending \o StartButton, session', blocked', continued', app, toServer)
    BY <1>2, <1>3, <2>1, <2>2, StartAgrees
  <2> QED
    BY <1>4, <2>1, <2>3, <2>4
<1>6. CASE EmployeeStop
  <2>1. session' = Stopped(session) /\ UNCHANGED continued /\ Fits("stop", session)
    BY <1>6 DEF EmployeeStop, Give
  <2>2. session.status = "ACTIVE"
    BY <2>1 DEF Fits
  <2>3. blocked' = TRUE /\ toClient' = Sent(StopButton)
    BY <1>6, <2>2 DEF EmployeeStop, StopButton
  <2>4. Stopped(session).status # "ACTIVE"
    BY <1>2, <2>2, EndedOK DEF Stopped
  <2>5. /\ StopButton \in Seq(Message) /\ Followed(StopButton)
        /\ Agreed(Pending \o StopButton, Stopped(session), TRUE, continued, app, toServer)
    BY <1>2, <2>4, StopAgrees, ButtonsOK, ButtonsFollowed
  <2> QED
    BY <1>4, <2>1, <2>3, <2>5
<1>7. CASE EmployeePause
  <2>1. /\ session' = Paused(session) /\ toClient' = Sent(PauseButton)
        /\ UNCHANGED <<blocked, continued>> /\ Fits("pause", session)
    BY <1>7 DEF EmployeePause, PauseButton, Give
  <2>2. session.status = "ACTIVE"
    BY <2>1 DEF Fits
  <2>3. Paused(session).status # "ACTIVE"
    BY <1>2, <2>2, EndedOK DEF Paused
  <2>4. PauseButton \in Seq(Message) /\ Followed(PauseButton)
    BY ButtonsOK, ButtonsFollowed
  <2>5. greeted' => Agreed(Pending \o PauseButton, Paused(session), blocked, continued, app, toServer)
    BY <1>2, <1>3, <2>3, PauseAgrees
  <2> QED
    BY <1>4, <2>1, <2>4, <2>5
<1>8. CASE EmployeeUnstop
  <2>1. /\ session' = Resumed(session) /\ toClient' = Sent(UnstopButton(session))
        /\ UNCHANGED blocked /\ continued' = (continued \/ session' # session)
        /\ Fits("unstop", session)
    BY <1>8 DEF EmployeeUnstop, Resumed, UnstopButton, Give
  <2>2. continued' = TRUE
    BY <1>2, <2>1, ResumedOK
  <2>3. UnstopButton(session) \in Seq(Message) /\ Followed(UnstopButton(session))
    BY <1>2, ButtonsOK, ButtonsFollowed
  <2>4. greeted' =>
          Agreed(Pending \o UnstopButton(session), Resumed(session), blocked, continued', app, toServer)
    BY <1>2, <1>3, <2>1, <2>2, UnstopAgrees
  <2> QED
    BY <1>4, <2>1, <2>3, <2>4
<1>9. CASE EmployeeTime
  <2>1. PICK l \in Limits : session' = [session EXCEPT !.limit = l] /\ toClient' = Sent(TimeButton(l))
    BY <1>9 DEF EmployeeTime, TimeButton
  <2>2. continued' = FALSE /\ UNCHANGED blocked
    BY <1>9 DEF EmployeeTime
  <2>3. TimeButton(l) \in Seq(Message) /\ Followed(TimeButton(l))
    BY ButtonsOK, ButtonsFollowed
  <2>4. greeted' => Agreed(Pending \o TimeButton(l), session', blocked, FALSE, app, toServer)
    BY <1>2, <1>3, <2>1, TimeButtonAgrees
  <2> QED
    BY <1>4, <2>1, <2>2, <2>3, <2>4
<1>10. CASE EmployeeMore
  <2> DEFINE new == session.status = "INACTIVE"
             base == IF new THEN Started(session) ELSE session
             start == IF new THEN StartButton ELSE <<>>
  <2>1. PICK l \in Limits :
          session' = [base EXCEPT !.limit = l] /\ toClient' = Sent(start \o TimeButton(l))
    BY <1>10 DEF EmployeeMore, TimeButton, StartButton
  <2>2. continued' = FALSE /\ UNCHANGED blocked
    BY <1>10 DEF EmployeeMore
  <2>3. base \in Record /\ Lived(base) /\ base.held <= base.last
    BY <1>2, StartedOK
  <2>4. TimeButton(l) \in Seq(Message) /\ Followed(TimeButton(l))
    BY ButtonsOK, ButtonsFollowed
  <2>5. StartButton \in Seq(Message) /\ Followed(StartButton)
    BY ButtonsOK, ButtonsFollowed
  <2>6. start \in Seq(Message) /\ Followed(start)
    BY <2>5, EmptySeq DEF Followed
  <2>7. greeted' => \E c \in BOOLEAN : Agreed(Pending \o start, base, blocked, c, app, toServer)
    <3>1. CASE new
      BY <1>2, <1>3, <3>1, StartAgrees
    <3>2. CASE ~new
      <4>1. Pending \o start = Pending /\ base = session
        BY <1>2, <3>2, ConcatEmptySeq
      <4> QED
        BY <1>2, <1>3, <4>1
    <3> QED
      BY <3>1, <3>2
  <2> HIDE DEF new, base, start
  <2>8. Pending \o start \in Seq(Message)
    BY <1>2, <2>6, MessagesConcat
  <2>9. greeted' => Agreed((Pending \o start) \o TimeButton(l), session', blocked, FALSE, app, toServer)
    BY <2>1, <2>3, <2>7, <2>8, TimeButtonAgrees
  <2>10. start \o TimeButton(l) \in Seq(Message) /\ Followed(start \o TimeButton(l))
         /\ (Pending \o start) \o TimeButton(l) = Pending \o (start \o TimeButton(l))
    <3>1. start \o TimeButton(l) \in Seq(Message) /\ Followed(start \o TimeButton(l))
      BY <2>4, <2>6, FollowedConcat, MessagesConcat
    <3>2. (Pending \o start) \o TimeButton(l) = Pending \o (start \o TimeButton(l))
      BY <1>2, <2>4, <2>6, ConcatAssociative
    <3> QED
      BY <3>1, <3>2
  <2>11. greeted' => Agreed(Pending \o (start \o TimeButton(l)), session', blocked', continued', app, toServer)
    BY <2>2, <2>9, <2>10
  <2> QED
    BY <1>4, <2>1, <2>10, <2>11
<1>11. CASE EmployeeUnblock
  <2>1. /\ blocked' = FALSE /\ toClient' = Sent(UnblockButton) /\ UNCHANGED <<session, continued>>
    BY <1>11 DEF EmployeeUnblock, UnblockButton
  <2>2. UnblockButton \in Seq(Message) /\ Followed(UnblockButton)
    BY ButtonsOK, ButtonsFollowed
  <2>3. greeted' => Agreed(Pending \o UnblockButton, session, FALSE, continued, app, toServer)
    BY <1>2, <1>3, UnblockAgrees
  <2> QED
    BY <1>4, <2>1, <2>2, <2>3
<1> QED
  BY <1>5, <1>6, <1>7, <1>8, <1>9, <1>10, <1>11 DEF Employee

LEMMA CheckEventsInv == ASSUME Inv, CheckEvents PROVE Inv'
<1>1. /\ toClient # <<>> /\ app' = Obeyed(app, Head(toClient)) /\ toClient' = Tail(toClient)
      /\ UNCHANGED <<session, blocked, telling, continued, up, greeted, toServer>>
  BY DEF CheckEvents, server
<1>2. /\ TypeInv' /\ session \in Record /\ blocked \in BOOLEAN /\ app \in App
      /\ toClient \in Seq(Message) /\ telling \in Seq(Message) /\ Pending \in Seq(Message)
  BY CheckEventsTypes, TypeParts, PendingOK DEF Inv
<1>3. Pending # <<>> /\ Head(Pending) = Head(toClient) /\ Pending' = Tail(Pending)
  BY <1>1, <1>2, TailConcat DEF Pending
<1>4. greeted' => InStep'
  <2> SUFFICES ASSUME greeted' PROVE InStep'
    OBVIOUS
  <2>1. Agreed(Pending, session, blocked, continued, app, toServer)
    BY <1>1 DEF Inv, InStep
  <2>2. Agreed(Tail(Pending), session, blocked, continued, Obeyed(app, Head(Pending)), toServer)
    BY <1>2, <1>3, <2>1, ObeyedAgrees
  <2> QED
    BY <1>1, <1>3, <2>2 DEF InStep
<1>5. Followed(toClient') /\ Followed(telling') /\ (greeted' => up')
  BY <1>1, <1>2, FollowedTail DEF Inv
<1> QED
  BY <1>2, <1>4, <1>5 DEF Inv

\* A screen that is open to a session and that nothing on its way is about belongs to
\* a program that counts the session: the customer's exit is asked for.
LEMMA OpenIsActive ==
  ASSUME Inv, greeted, ~app.locked, session.status = "ACTIVE", ~Decided(Pending, Locking)
  PROVE  app.active
<1>1. Followed(Pending)
  BY FollowedConcat, TypeParts DEF Inv, Pending
<1>2. Pending \in Seq(Message) /\ Len(Pending) \in Nat
  BY PendingOK, LenProperties DEF Inv
<1>3. ASSUME Decided(Pending, Running) PROVE FALSE
  <2>1. PICK k \in 1..Len(Pending) : Pending[k].cmd \in Running
    BY <1>3 DEF Decided
  <2>2. PICK j \in k..Len(Pending) : Pending[j] \in Opens
    BY <2>1 DEF Inv, InStep, Agreed, RunAgrees, LastIn
  <2>3. j \in 1..Len(Pending) /\ Pending[j].cmd \in Opening
    BY <1>2, <2>2 DEF Opens
  <2>4. PICK i \in j..Len(Pending) : Pending[i].cmd \in Locking
    BY <1>1, <2>3 DEF Followed
  <2> QED
    BY <1>2, <2>3, <2>4 DEF Decided
<1> QED
  BY <1>3 DEF Inv, InStep, Agreed, RunAgrees

LEMMA LeavingAsked ==
  ASSUME NEW r \in Seq(Request)
  PROVE  /\ Leaving(Append(r, "USEREXIT"))
         /\ Leaving(r) => Leaving(Append(r, "USERLOGIN"))
<1>1. /\ Len(r) \in Nat
      /\ Len(Append(r, "USEREXIT")) = Len(r) + 1 /\ Append(r, "USEREXIT")[Len(r) + 1] = "USEREXIT"
      /\ Len(Append(r, "USERLOGIN")) = Len(r) + 1
      /\ \A k \in 1..Len(r) : Append(r, "USERLOGIN")[k] = r[k]
  <2>1. "USERLOGIN" \in Request /\ "USEREXIT" \in Request
    BY DEF Request
  <2> QED
    BY <2>1, AppendProperties, LenProperties
<1> QED
  BY <1>1 DEF Leaving

\* A step of the client program
LEMMA ClientAgrees ==
  ASSUME Inv, TypeInv', UNCHANGED <<server, greeted, toClient>>, greeted' => up',
         greeted => Agreed(Pending, session, blocked, continued, app', toServer')
  PROVE  Inv'
<1>1. UNCHANGED <<session, blocked, telling, continued>> /\ Pending' = Pending
  BY DEF server, Pending
<1>2. greeted' => InStep'
  BY <1>1 DEF InStep
<1> QED
  BY <1>1, <1>2 DEF Inv

LEMMA CustomerInv == ASSUME Inv, CustomerLogin \/ CustomerExit PROVE Inv'
<1>1. UNCHANGED <<server, up, greeted, toClient>> /\ TypeInv'
  BY CustomerTypes DEF Inv, CustomerLogin, CustomerExit
<1> SUFFICES ASSUME greeted PROVE Agreed(Pending, session, blocked, continued, app', toServer')
  BY <1>1, ClientAgrees DEF Inv
<1>2. up /\ toServer \in Seq(Request) /\ app \in App
      /\ Agreed(Pending, session, blocked, continued, app, toServer)
  BY TypeParts DEF Inv, InStep
<1>3. CASE CustomerLogin
  <2>1. app' = app /\ toServer' = Append(toServer, "USERLOGIN")
    BY <1>2, <1>3 DEF CustomerLogin, Asked
  <2> QED
    BY <1>2, <2>1, LeavingAsked, AskedAgrees
<1>4. CASE CustomerExit
  <2>1. ~app.locked /\ app' = [app EXCEPT !.locked = TRUE] /\ toServer' = ExitAsked(toServer)
    BY <1>2, <1>4 DEF CustomerExit
  <2>2. session.status = "ACTIVE" /\ ~Decided(Pending, Locking) => Leaving(toServer')
    BY <1>2, <2>1, OpenIsActive, LeavingAsked DEF ExitAsked
  <2> QED
    BY <1>2, <2>1, <2>2, LockedAgrees
<1> QED
  BY <1>3, <1>4

LEMMA TimerInv == ASSUME Inv, OnTimer PROVE Inv'
<1>1. TypeInv' /\ UNCHANGED <<server, greeted, toClient>> /\ (up => up')
  BY TimerTypes DEF Inv, OnTimer, TimerTick, TimerConnects, TimerFails
<1>2. greeted' => up'
  BY <1>1 DEF Inv
<1> SUFFICES ASSUME greeted PROVE Agreed(Pending, session, blocked, continued, app', toServer')
  BY <1>1, <1>2, ClientAgrees
<1>3. up /\ toServer \in Seq(Request) /\ app \in App
      /\ Agreed(Pending, session, blocked, continued, app, toServer)
  BY TypeParts DEF Inv, InStep
<1>4. app' = [app EXCEPT !.locked = TRUE] /\ toServer' = Append(toServer, "USEREXIT")
  BY <1>3 DEF OnTimer, TimerTick, TimerConnects, TimerFails, TimerExit
<1> QED
  BY <1>3, <1>4, LeavingAsked, LockedAgrees

LEMMA DisconnectInv == ASSUME Inv, Disconnect PROVE Inv'
<1>1. greeted' = FALSE /\ toClient' = <<>> /\ telling' = telling /\ TypeInv'
  BY DisconnectTypes DEF Inv, Disconnect, server
<1> QED
  BY <1>1 DEF Inv, Followed

LEMMA TickInv == ASSUME Inv, Tick PROVE Inv'
<1>1. /\ session' = [session EXCEPT !.last = IF session.exists THEN Time(@ + 1) ELSE @]
      /\ app' = [app EXCEPT !.elapsed = Time(@ + 1)]
      /\ UNCHANGED <<blocked, telling, continued, up, greeted, toServer, toClient>>
  BY DEF Tick, channels
<1>2. /\ TypeInv' /\ session \in Record /\ Lived(session) /\ session.held <= session.last
      /\ app \in App
  BY TickTypes, TypeParts DEF Inv
<1>3. Pending' = Pending
  BY <1>1 DEF Pending
<1>4. ASSUME greeted' PROVE InStep'
  <2>1. Agreed(Pending, session, blocked, continued, app, toServer)
    BY <1>1, <1>4 DEF Inv, InStep
  <2>2. Agreed(Pending, session', blocked, continued, app', toServer)
    BY <1>1, <1>2, <2>1, TickAgrees
  <2> QED
    BY <1>1, <1>3, <2>2 DEF InStep
<1>5. Followed(toClient') /\ Followed(telling') /\ (greeted' => up')
  BY <1>1 DEF Inv
<1> QED
  BY <1>2, <1>4, <1>5 DEF Inv

LEMMA NextInv == ASSUME ~Anytime, Atomic PROVE Inv /\ [Next]_vars => Inv'
<1> SUFFICES ASSUME Inv, [Next]_vars PROVE Inv'
  OBVIOUS
<1>1. CASE UNCHANGED vars
  <2>1. TypeInv'
    BY <1>1, TypeNext DEF Inv
  <2> QED
    BY <1>1, <2>1 DEF vars, server, channels, Inv, InStep, Pending
<1>2. CASE Next
  BY <1>2, GreetInv, HandleInv, SendUpdateInv, EmployeeInv, CheckEventsInv, CustomerInv, TimerInv,
     DisconnectInv, TickInv DEF Next
<1> QED
  BY <1>1, <1>2

-----------------------------------------------------------------------------
(* What follows *)

LEMMA QuietAgreed ==
  ASSUME Inv, Quiet
  PROVE  /\ app.locked <=> session.status # "ACTIVE"
         /\ app.allow = ~blocked
         /\ session.status = "ACTIVE" =>
              /\ app.active /\ app.elapsed <= Used(session)
              /\ ~continued => app.limit = session.limit
<1>1. Pending = <<>> /\ Agreed(Pending, session, blocked, continued, app, toServer)
  BY PendingOK DEF Inv, InStep, Quiet
<1>2. \A K : ~Decided(Pending, K)
  BY <1>1 DEF Decided
<1>3. ~Leaving(toServer)
  BY DEF Leaving, Quiet
<1> QED
  BY <1>1, <1>2, <1>3 DEF Agreed, ScreenAgrees, RunAgrees, ModesAgree, LimitAgrees, TimeAgrees

\* Once everything has arrived the screen is open exactly while the session is
\* counted, whatever was lost, whoever left and however often the connection broke
\* (CCLWin.cpp, onCommand, onEventCallback and updateClientStatus; cclcfox.cpp).
THEOREM ScreenInStep == ASSUME ~Anytime, Atomic PROVE Spec => []ScreenFollowsSession
<1>1. Inv => ScreenFollowsSession
  BY QuietAgreed DEF ScreenFollowsSession
<1> QED
  BY InitInv, NextInv, <1>1, PTL DEF Spec

\* Then the workstation offers the modes of login that the server allows, and knows
\* the limit of a session that went on neither after a pause nor after a stop.
THEOREM LimitInStep == ASSUME ~Anytime, Atomic PROVE Spec => []LimitKnown
<1>1. Inv => LimitKnown
  <2> SUFFICES ASSUME Inv, Quiet
               PROVE  /\ app.allow # blocked
                      /\ session.status = "ACTIVE" /\ ~continued => app.active /\ app.limit = session.limit
    BY DEF LimitKnown
  <2>1. blocked \in BOOLEAN
    BY TypeParts DEF Inv
  <2> QED
    BY <2>1, QuietAgreed
<1> QED
  BY InitInv, NextInv, <1>1, PTL DEF Spec

\* The timer of the client program ends no session before its time is up: the
\* workstation counts no more time than the server (onTimer).
THEOREM NoEarlyEnd == ASSUME ~Anytime, Atomic PROVE Spec => NeverTooEarly
<1>1. Inv => (Quiet /\ session.status = "ACTIVE" /\ ~continued /\ toServer' = <<"USEREXIT">>
                /\ ~app.locked /\ Expired(app)
              => Used(session) > session.limit)
  <2> SUFFICES ASSUME Inv, Quiet, session.status = "ACTIVE", ~continued, Expired(app)
               PROVE  Used(session) > session.limit
    OBVIOUS
  <2>1. app.elapsed <= Used(session) /\ app.limit = session.limit /\ app.elapsed > app.limit
    BY QuietAgreed DEF Expired
  <2>2. app.elapsed \in Nat /\ Used(session) \in Nat /\ session.limit \in Nat
    BY TypeParts, UsedOK, NumbersOK DEF Inv, App, Record
  <2> QED
    BY <2>1, <2>2
<1> QED
  BY InitInv, NextInv, <1>1, PTL DEF Spec, NeverTooEarly
=============================================================================
