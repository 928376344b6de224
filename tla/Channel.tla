------------------------------- MODULE Channel -------------------------------
(***************************************************************************)
(* What the two ends of a connection may rely on: frames are handed to the *)
(* event handler whole, once each and in the order in which they were      *)
(* sent, up to the end of the connection.  The end itself is handed over   *)
(* too, as one last event: that of the next frame with all of its data, a  *)
(* part of it or nothing of it missing, or one that is no command.         *)
(***************************************************************************)
EXTENDS Integers, Sequences

CONSTANTS Frames  \* what is ever sent: a command and its data

VARIABLES sent,       \* the frames sent, in this order
          delivered,  \* the events handed over while the connection was up
          cut         \* the last event, or NoCut as long as there is none

vars == <<sent, delivered, cut>>

Event(f) == [cmd |-> f.cmd, data |-> f.data]
NoCut == [cmd |-> -1, data |-> <<>>]

\* CCL_ntohl: the bytes of a word in the opposite order
Swapped(n) ==
  (n % 256) * 16777216 + ((n \div 256) % 256) * 65536
    + ((n \div 65536) % 256) * 256 + ((n \div 16777216) % 256)

\* What is handed over as no command: 0, or the last command with its bytes swapped,
\* which is above CC_MAXCMDNR for every command of one byte.
NoCommands ==
  {[cmd |-> n, data |-> <<>>] :
   n \in {0} \cup {Swapped(delivered[i].cmd) : i \in {Len(delivered)} \ {0}}}

\* What may be left of a frame when the connection ends
Remains(f) ==
  {[cmd |-> f.cmd, data |-> SubSeq(f.data, 1, k)] : k \in 0..Len(f.data)}

Init ==
  /\ sent = <<>>
  /\ delivered = <<>>
  /\ cut = NoCut

Send(f) ==
  /\ sent' = Append(sent, f)
  /\ UNCHANGED <<delivered, cut>>

Deliver ==
  /\ cut = NoCut
  /\ Len(delivered) < Len(sent)
  /\ delivered' = Append(delivered, Event(sent[Len(delivered) + 1]))
  /\ UNCHANGED <<sent, cut>>

End ==
  /\ cut = NoCut
  /\ \/ cut' \in NoCommands
     \/ Len(delivered) < Len(sent) /\ cut' \in Remains(sent[Len(delivered) + 1])
  /\ UNCHANGED <<sent, delivered>>

Next == (\E f \in Frames : Send(f)) \/ Deliver \/ End

Spec == Init /\ [][Next]_vars

\* As long as a frame is under way, it is delivered or the connection ends.
UnderWay == Len(delivered) < Len(sent)
FairSpec == Spec /\ WF_vars(UnderWay /\ (Deliver \/ End))
=============================================================================
