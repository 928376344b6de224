----------------------------- MODULE WireProofs -----------------------------
(***************************************************************************)
(* A connection over which one thread sends, and nothing the reading loop  *)
(* leaves unread, implements Channel, for all frames, all sizes below the  *)
(* limit and any number of frames.                                         *)
(*                                                                         *)
(* The invariant says where the words stand: the word after each word on   *)
(* the wire is the one After gives, the first unread one is the one the    *)
(* reading loop expects, and what the loop holds is the frame's so far.    *)
(***************************************************************************)
EXTENDS Wire, SequenceTheorems, TLAPS

OneThread == \E t : Threads = {t}
AllRead == \A f \in Frames : Len(f.data) < Limit

Writer == CHOOSE t : Threads = {t}

Place(w) == [frame |-> w.frame, at |-> w.at]
PenPlace == IF pen[Writer] = Idle THEN [frame |-> Len(sent) + 1, at |-> 1] ELSE pen[Writer]

\* The place of the i-th word that is or will be written
PlaceOf(i) == IF i <= Len(wire) THEN Place(wire[i]) ELSE PenPlace

After(p) == IF p.at < Words(sent[p.frame])
            THEN [frame |-> p.frame, at |-> p.at + 1]
            ELSE [frame |-> p.frame + 1, at |-> 1]

Reads == Len(delivered) + 1
Expected == [frame |-> Reads,
             at |-> IF reader.part = "cmd" THEN 1
                    ELSE IF reader.part = "size" THEN 2 ELSE 3 + Len(reader.data)]

PenOK ==
  pen[Writer] # Idle =>
    /\ pen[Writer].frame = Len(sent)
    /\ Len(sent) > 0
    /\ pen[Writer].at \in 1..Words(sent[Len(sent)])

WordOK(i) ==
  /\ wire[i].frame \in 1..Len(sent)
  /\ wire[i].at \in 1..Words(sent[wire[i].frame])
  /\ wire[i].value = WordOf(sent[wire[i].frame], wire[i].at)
  /\ PlaceOf(i + 1) = After(Place(wire[i]))
WireOK == \A i \in 1..Len(wire) : WordOK(i)

ReaderOK ==
  /\ reader.part = "cmd" => reader.cmd = 0 /\ reader.data = <<>>
  /\ reader.part = "size" => reader.data = <<>>
  /\ reader.part # "cmd" => Reads <= Len(sent) /\ reader.cmd = sent[Reads].cmd
  /\ reader.part = "data" =>
       /\ reader.size = Len(sent[Reads].data)
       /\ Len(reader.data) < reader.size
       /\ \A k \in 1..Len(reader.data) : reader.data[k] = sent[Reads].data[k]

Inv ==
  /\ TypeOK
  /\ PenOK
  /\ WireOK
  /\ PlaceOf(consumed + 1) = Expected
  /\ ReaderOK

-----------------------------------------------------------------------------
LEMMA WriterIs == ASSUME OneThread PROVE Threads = {Writer}
  BY DEF OneThread, Writer

LEMMA FrameType ==
  ASSUME NEW f \in Frames
  PROVE  /\ f = [cmd |-> f.cmd, data |-> f.data]
         /\ f.cmd \in Nat /\ f.cmd > 0
         /\ f.data \in Seq(Nat) /\ Len(f.data) \in Nat
         /\ Words(f) \in Nat /\ Words(f) >= 2
         /\ \A k \in 1..Words(f) : WordOf(f, k) \in Nat
  <1>1. f \in [cmd : Nat \ {0}, data : Seq(Nat)]
    BY FramesAssumption
  <1>2. /\ f = [cmd |-> f.cmd, data |-> f.data]
        /\ f.cmd \in Nat /\ f.cmd > 0
        /\ f.data \in Seq(Nat) /\ Len(f.data) \in Nat
    BY <1>1
  <1>3. \A k \in 1..(2 + Len(f.data)) : k > 2 => f.data[k - 2] \in Nat
    BY <1>2
  <1> QED
    BY <1>2, <1>3 DEF Words, WordOf

\* The initial state, and the types at every step.
LEMMA TypeInit == Init => TypeOK
  <1> SUFFICES ASSUME Init PROVE TypeOK
    OBVIOUS
  <1>1. pen \in [Threads -> Pen]
    BY DEF Init, Idle, Pen
  <1>2. reader \in LoopState /\ InBuffer
    BY DEF Init, NextFrame, Reading, LoopState, InBuffer
  <1>3. /\ arrived \in 0..Len(wire)
        /\ consumed \in 0..arrived
    BY DEF Init
  <1>5. broken \in BOOLEAN
    BY DEF Init
  <1>4. /\ sent \in Seq(Frames)
        /\ wire \in Seq(Word)
        /\ delivered \in Seq(AnEvent)
        /\ cut = Channel!NoCut
    BY DEF Init
  <1> QED
    BY <1>1, <1>2, <1>3, <1>4, <1>5 DEF TypeOK

\* The reading loop begins anew after an event.
LEMMA EventType ==
  ASSUME NEW r \in LoopState, Event(r), delivered \in Seq(AnEvent)
  PROVE  reader' \in LoopState /\ delivered' \in Seq(AnEvent) /\ InBuffer'
  <1>1. [cmd |-> r.cmd, data |-> r.data] \in AnEvent
    BY DEF LoopState, AnEvent
  <1>2. delivered' \in Seq(AnEvent)
    BY <1>1 DEF Event
  <1>3. reader' \in LoopState /\ InBuffer'
    BY DEF Event, NextFrame, Reading, LoopState, InBuffer
  <1> QED
    BY <1>2, <1>3

LEMMA SwappedType == ASSUME NEW n \in Nat PROVE Channel!Swapped(n) \in Nat
  BY DEF Channel!Swapped

LEMMA TypeStep ==
  ASSUME OneThread, PenOK, WireOK, TypeOK, [Next]_vars
  PROVE  TypeOK'
  <1>0. Threads = {Writer}
    BY WriterIs
  <1>1. ASSUME NEW t \in Threads, NEW f \in Frames, Send(t, f) PROVE TypeOK'
    <2>1. pen' \in [Threads -> Pen]
      BY <1>1 DEF Send, TypeOK, Pen
    <2>2. sent' \in Seq(Frames)
      BY <1>1 DEF Send, TypeOK
    <2>3. UNCHANGED <<wire, arrived, broken, consumed, reader, delivered, cut>>
      BY <1>1 DEF Send, network, reading
    <2> QED
      BY <2>1, <2>2, <2>3 DEF TypeOK, InBuffer
  <1>2. ASSUME NEW t \in Threads, Write(t) PROVE TypeOK'
    <2>1. t = Writer /\ pen[t] # Idle
      BY <1>0, <1>2 DEF Write
    <2> DEFINE g == sent[pen[t].frame]
               w == [frame |-> pen[t].frame, at |-> pen[t].at, value |-> WordOf(g, pen[t].at)]
    <2>2. /\ pen[t] \in Pen
          /\ pen[t].at \in 1..Words(g)
          /\ g \in Frames
      BY <2>1 DEF PenOK, TypeOK
    <2>3. w \in Word
      BY <2>2, FrameType DEF Word, Pen
    <2>4. wire' = Append(wire, w)
      BY <1>2 DEF Write
    <2>5. wire' \in Seq(Word) /\ Len(wire') = Len(wire) + 1
      BY <2>3, <2>4 DEF TypeOK
    <2>6. pen' \in [Threads -> Pen]
      BY <1>2, <2>2 DEF Write, TypeOK, Pen, Idle
    <2> QED
      BY <1>2, <2>5, <2>6 DEF Write, TypeOK, InBuffer, reading
  <1>3. CASE Network
    <2>1. CASE Arrive
      BY <2>1 DEF Arrive, TypeOK, InBuffer, reading
    <2>2. CASE Break
      <3>1. broken' \in BOOLEAN
        BY <2>2 DEF Break
      <3>2. UNCHANGED <<sent, pen, wire, arrived, consumed, reader, delivered, cut>>
        BY <2>2 DEF Break, reading
      <3> QED
        BY <3>1, <3>2 DEF TypeOK, InBuffer
    <2> QED
      BY <1>3, <2>1, <2>2 DEF Network
  <1>4. CASE ReadWord
    <2> DEFINE v == wire[consumed + 1].value
    <2>0. wire[consumed + 1] \in Word
      BY <1>4 DEF ReadWord, TypeOK
    <2>1. v \in Nat
      BY <2>0 DEF Word
    <2>2. /\ consumed' \in 0..arrived'
          /\ UNCHANGED <<sent, pen, wire, arrived, broken, cut>>
      BY <1>4 DEF ReadWord, TypeOK, network
    <2> HIDE DEF v
    <2>3. reader.cmd \in Nat /\ reader.data \in Seq(Nat) /\ reader.size \in Nat
      BY DEF TypeOK, LoopState
    <2>4. delivered \in Seq(AnEvent) /\ reader \in LoopState
      BY DEF TypeOK
    <2>5. CASE ReadCmd(v)
      <3>1. reader' \in LoopState /\ InBuffer' /\ UNCHANGED delivered
        BY <2>1, <2>5 DEF ReadCmd, Reading, LoopState, InBuffer
      <3> QED
        BY <2>2, <3>1 DEF TypeOK
    <2>6. CASE ReadSize(v)
      <3>1. CASE Event(reader)
        BY <2>2, <2>4, <3>1, EventType DEF TypeOK
      <3>2. CASE /\ DataFollows(reader.cmd, v) /\ UNCHANGED delivered
                 /\ reader' = Reading("data", reader.cmd, v, <<>>)
        <4>1. reader' \in LoopState /\ InBuffer'
          BY <2>1, <2>3, <3>2 DEF Reading, LoopState, InBuffer, DataFollows
        <4> QED
          BY <2>2, <3>2, <4>1 DEF TypeOK
      <3> QED
        BY <2>6, <3>1, <3>2 DEF ReadSize
    <2>7. CASE ReadData(v)
      <3> DEFINE r == Reading("data", reader.cmd, reader.size, Append(reader.data, v))
      <3>1. Append(reader.data, v) \in Seq(Nat)
        BY <2>1, <2>3
      <3>2. r \in LoopState
        BY <2>3, <3>1 DEF Reading, LoopState
      <3>3. \/ reader' = r /\ InBuffer' /\ UNCHANGED delivered
            \/ Event(r)
        <4>1. reader.part = "data" /\ reader.size < Limit
          BY <2>7 DEF ReadData, TypeOK, InBuffer
        <4>2. \/ reader' = r /\ Len(r.data) < r.size /\ UNCHANGED delivered
              \/ Event(r)
          BY <2>7 DEF ReadData
        <4> QED
          BY <4>1, <4>2 DEF InBuffer, Reading
      <3> HIDE DEF r
      <3>4. reader' \in LoopState /\ delivered' \in Seq(AnEvent) /\ InBuffer'
        BY <2>4, <3>2, <3>3, EventType
      <3> QED
        BY <2>2, <3>4 DEF TypeOK
    <2> QED
      BY <1>4, <2>5, <2>6, <2>7 DEF ReadWord, v
  <1>5. CASE ReadShort
    <2>1. cut' \in AnEvent
      <3>1. reader.cmd \in Nat /\ reader.data \in Seq(Nat)
        BY DEF TypeOK, LoopState
      <3>2. \A i \in {Len(delivered)} \ {0} : Channel!Swapped(delivered[i].cmd) \in Nat
        <4> SUFFICES ASSUME NEW i \in {Len(delivered)} \ {0}
                     PROVE  Channel!Swapped(delivered[i].cmd) \in Nat
          OBVIOUS
        <4>0. delivered \in Seq(AnEvent)
          BY DEF TypeOK
        <4>1. i \in 1..Len(delivered)
          BY <4>0
        <4>2. delivered[i] \in AnEvent
          BY <4>0, <4>1
        <4>3. delivered[i].cmd \in Nat
          BY <4>2 DEF AnEvent
        <4> QED
          BY <4>3, SwappedType
      <3>3. Channel!NoCommands \subseteq AnEvent
        <4> DEFINE S == {0} \cup {Channel!Swapped(delivered[i].cmd) : i \in {Len(delivered)} \ {0}}
        <4>1. S \subseteq Nat
          BY <3>2
        <4>2. Channel!NoCommands = {[cmd |-> n, data |-> <<>>] : n \in S}
          BY DEF Channel!NoCommands
        <4> HIDE DEF S
        <4>3. \A n \in S : [cmd |-> n, data |-> <<>>] \in AnEvent
          BY <4>1 DEF AnEvent
        <4> QED
          BY <4>2, <4>3
      <3>4. CASE reader.part = "cmd"
        BY <1>5, <3>3, <3>4 DEF ReadShort
      <3>5. CASE reader.part # "cmd"
        BY <1>5, <3>1, <3>5 DEF ReadShort, AnEvent
      <3> QED
        BY <3>4, <3>5
    <2>2. UNCHANGED <<sent, pen, wire, arrived, broken, consumed, reader, delivered>>
      BY <1>5 DEF ReadShort, network
    <2> QED
      BY <2>1, <2>2 DEF TypeOK, InBuffer
  <1>6. CASE UNCHANGED vars
    BY <1>6 DEF vars, network, reading, TypeOK, InBuffer
  <1> QED
    BY <1>1, <1>2, <1>3, <1>4, <1>5, <1>6 DEF Next, Thread, Read

-----------------------------------------------------------------------------
(* The places of the words *)

LEMMA InvInit == ASSUME OneThread, Init PROVE Inv
  <1>1. TypeOK
    BY TypeInit
  <1>2. pen[Writer] = Idle
    BY WriterIs DEF Init
  <1>3. PenOK /\ WireOK
    BY <1>2 DEF Init, PenOK, WireOK
  <1>4. PlaceOf(consumed + 1) = Expected
    BY <1>2 DEF Init, PlaceOf, PenPlace, Expected, Reads, NextFrame, Reading
  <1>5. ReaderOK
    BY DEF Init, ReaderOK, NextFrame, Reading
  <1> QED
    BY <1>1, <1>3, <1>4, <1>5 DEF Inv

\* What a new frame leaves as it is: every place is where it was.
LEMMA SendKeeps ==
  ASSUME OneThread, Inv, NEW t \in Threads, NEW f \in Frames, Send(t, f)
  PROVE  PenOK' /\ WireOK' /\ (PlaceOf(consumed + 1) = Expected)' /\ ReaderOK'
  <1>1. t = Writer /\ pen[Writer] = Idle /\ Threads = {Writer}
    BY WriterIs DEF Send
  <1>2. /\ sent \in Seq(Frames) /\ sent' = Append(sent, f)
        /\ pen' = [pen EXCEPT ![t] = [frame |-> Len(sent) + 1, at |-> 1]]
        /\ UNCHANGED <<wire, arrived, broken, consumed, reader, delivered, cut>>
    BY DEF Send, Inv, TypeOK, network, reading
  <1>3. /\ Len(sent') = Len(sent) + 1 /\ Len(sent) \in Nat
        /\ \A i \in 1..Len(sent) : sent'[i] = sent[i]
        /\ sent'[Len(sent')] = f
    BY <1>2
  <1>4. pen'[Writer] = [frame |-> Len(sent) + 1, at |-> 1] /\ pen'[Writer] # Idle
    BY <1>1, <1>2, <1>3 DEF Inv, TypeOK, Idle
  <1>5. PenPlace' = PenPlace
    BY <1>1, <1>4 DEF PenPlace
  <1>6. \A i : PlaceOf(i)' = PlaceOf(i)
    BY <1>2, <1>5 DEF PlaceOf
  <1>7. PenOK'
    BY <1>3, <1>4, FrameType DEF PenOK
  <1>8. ASSUME NEW i \in 1..Len(wire) PROVE WordOK(i)'
    <2>1. WordOK(i)
      BY DEF Inv, WireOK
    <2>2. sent'[wire[i].frame] = sent[wire[i].frame]
      BY <1>3, <2>1 DEF WordOK
    <2>3. After(Place(wire[i]))' = After(Place(wire[i]))
      BY <1>2, <2>2 DEF After, Place
    <2>4. PlaceOf(i + 1)' = PlaceOf(i + 1)
      BY <1>6
    <2> QED
      BY <1>2, <1>3, <2>1, <2>2, <2>3, <2>4 DEF WordOK
  <1>9. WireOK'
    BY <1>2, <1>8 DEF WireOK
  <1>10. ReaderOK'
    BY <1>2, <1>3 DEF Inv, ReaderOK, Reads, TypeOK
  <1>11. (PlaceOf(consumed + 1) = Expected)'
    BY <1>2, <1>6 DEF Inv, Expected, Reads
  <1> QED
    BY <1>7, <1>9, <1>10, <1>11

\* A word that is written stands where the pen was, and the pen after it.
LEMMA WriteKeeps ==
  ASSUME OneThread, Inv, NEW t \in Threads, Write(t)
  PROVE  PenOK' /\ WireOK' /\ (PlaceOf(consumed + 1) = Expected)' /\ ReaderOK'
  <1>1. t = Writer /\ pen[Writer] # Idle /\ Threads = {Writer}
    BY WriterIs DEF Write
  <1> DEFINE p == pen[Writer]
             g == sent[p.frame]
             w == [frame |-> p.frame, at |-> p.at, value |-> WordOf(g, p.at)]
             n == Len(wire)
  <1>2. /\ p \in Pen /\ p.frame = Len(sent) /\ p.frame \in 1..Len(sent)
        /\ p.at \in 1..Words(g) /\ g \in Frames
    BY <1>1 DEF Inv, TypeOK, PenOK
  <1>3. /\ wire' = Append(wire, w) /\ wire \in Seq(Word)
        /\ pen' = [pen EXCEPT ![Writer] = IF p.at < Words(g)
                        THEN [frame |-> p.frame, at |-> p.at + 1] ELSE Idle]
        /\ UNCHANGED <<sent, arrived, broken, consumed, reader, delivered, cut>>
    BY <1>1 DEF Write, Inv, TypeOK, reading
  <1>4. w \in Word
    BY <1>2, FrameType DEF Word, Pen
  <1> HIDE DEF w
  <1>5. /\ Len(wire') = n + 1 /\ n \in Nat
        /\ \A i \in 1..n : wire'[i] = wire[i]
        /\ wire'[n + 1] = w
    BY <1>3, <1>4
  <1>6. Words(g) \in Nat /\ Len(sent) \in Nat
    BY <1>2, FrameType DEF Inv, TypeOK
  <1>7. pen'[Writer] = IF p.at < Words(g) THEN [frame |-> p.frame, at |-> p.at + 1] ELSE Idle
    BY <1>1, <1>3 DEF Inv, TypeOK
  <1>8. p = [frame |-> p.frame, at |-> p.at] /\ p.at \in Nat
    BY <1>2 DEF Pen
  <1>9. Place(w) = p
    BY <1>8 DEF Place, w
  <1>10. PenPlace' = After(p)
    <2>1. CASE p.at < Words(g)
      <3>1. [frame |-> p.frame, at |-> p.at + 1] # Idle
        BY <1>2 DEF Idle
      <3> QED
        BY <1>7, <2>1, <3>1 DEF PenPlace, After
    <2>2. CASE ~(p.at < Words(g))
      BY <1>2, <1>3, <1>7, <2>2 DEF PenPlace, After
    <2> QED
      BY <2>1, <2>2
  <1>11. PenPlace = p
    BY <1>1 DEF PenPlace
  <1>12. \A i \in 1..(n + 1) : PlaceOf(i)' = PlaceOf(i)
    <2> SUFFICES ASSUME NEW i \in 1..(n + 1) PROVE PlaceOf(i)' = PlaceOf(i)
      OBVIOUS
    <2>1. CASE i <= n
      BY <1>5, <2>1 DEF PlaceOf, Place
    <2>2. CASE i = n + 1
      BY <1>5, <1>9, <1>11, <2>2 DEF PlaceOf, Place
    <2> QED
      BY <1>5, <2>1, <2>2
  <1>13. PenOK'
    BY <1>2, <1>3, <1>6, <1>7 DEF PenOK
  <1>14. ASSUME NEW i \in 1..(n + 1) PROVE WordOK(i)'
    <2>1. CASE i <= n
      <3>1. WordOK(i)
        BY <1>5, <2>1 DEF Inv, WireOK
      <3>2. PlaceOf(i + 1)' = PlaceOf(i + 1)
        BY <1>5, <1>12, <2>1
      <3>3. After(Place(wire[i]))' = After(Place(wire[i]))
        BY <1>3, <1>5, <2>1 DEF After, Place
      <3> QED
        BY <1>3, <1>5, <2>1, <3>1, <3>2, <3>3 DEF WordOK
    <2>2. CASE i = n + 1
      <3>1. PlaceOf(i + 1)' = PenPlace'
        BY <1>5, <2>2 DEF PlaceOf
      <3>2. After(Place(wire[i]))' = After(p)
        BY <1>3, <1>5, <1>9, <2>2 DEF After, Place
      <3>3. wire'[i].frame = p.frame /\ wire'[i].at = p.at /\ wire'[i].value = WordOf(g, p.at)
        BY <1>5, <2>2 DEF w
      <3> QED
        BY <1>2, <1>3, <1>10, <3>1, <3>2, <3>3 DEF WordOK
    <2> QED
      BY <1>5, <2>1, <2>2
  <1>15. WireOK'
    BY <1>5, <1>14 DEF WireOK
  <1>16. ReaderOK' /\ Expected' = Expected
    BY <1>3 DEF Inv, ReaderOK, Expected, Reads
  <1>17. consumed + 1 \in 1..(n + 1)
    BY <1>5 DEF Inv, TypeOK
  <1>18. (PlaceOf(consumed + 1) = Expected)'
    BY <1>3, <1>12, <1>16, <1>17 DEF Inv
  <1> QED
    BY <1>13, <1>15, <1>16, <1>18

\* What a step of the reading loop promises: the places stay right, and an event
\* that is handed over is that of the next frame.
Handed == delivered' = Append(delivered, Channel!Event(sent[Reads]))
Kept ==
  /\ (PlaceOf(consumed + 1) = Expected)'
  /\ ReaderOK'
  /\ Reads <= Len(sent)
  /\ UNCHANGED delivered \/ Handed

\* The word the loop reads next is the one it takes it for.
LEMMA NextWord ==
  ASSUME Inv, ReadWord
  PROVE  /\ Reads \in 1..Len(sent) /\ sent[Reads] \in Frames
         /\ Expected.at \in 1..Words(sent[Reads])
         /\ wire[consumed + 1].value = WordOf(sent[Reads], Expected.at)
         /\ PlaceOf(consumed + 1)' = After(Expected)
         /\ Len(delivered) \in Nat
         /\ UNCHANGED <<sent, pen, wire, arrived, broken, cut>>
  <1> DEFINE x == wire[consumed + 1]
  <1>1. /\ consumed' = consumed + 1
        /\ consumed + 1 \in 1..Len(wire)
        /\ UNCHANGED <<sent, pen, wire, arrived, broken, cut>>
    BY DEF ReadWord, Inv, TypeOK, network
  <1>2. WordOK(consumed + 1) /\ Place(x) = Expected
    BY <1>1 DEF Inv, WireOK, PlaceOf
  <1>3. x.frame = Reads /\ x.at = Expected.at
    BY <1>2 DEF Place, Expected
  <1>4. Reads \in 1..Len(sent) /\ sent[Reads] \in Frames
    BY <1>2, <1>3 DEF WordOK, Inv, TypeOK
  <1>5. PlaceOf(consumed + 2) = After(Expected)
    BY <1>1, <1>2 DEF WordOK, Inv, TypeOK
  <1>6. \A i : PlaceOf(i)' = PlaceOf(i)
    BY <1>1 DEF PlaceOf, PenPlace
  <1>7. consumed' + 1 = consumed + 2 /\ Len(delivered) \in Nat
    BY <1>1 DEF Inv, TypeOK
  <1>8. PlaceOf(consumed + 1)' = PlaceOf(consumed + 2)
    BY <1>1, <1>7 DEF PlaceOf, PenPlace
  <1>9. /\ Expected.at \in 1..Words(sent[Reads])
        /\ x.value = WordOf(sent[Reads], Expected.at)
    BY <1>2, <1>3 DEF WordOK
  <1> QED
    BY <1>1, <1>4, <1>5, <1>7, <1>8, <1>9

LEMMA ReadCmdKeeps ==
  ASSUME Inv, ReadWord, ReadCmd(wire[consumed + 1].value)
  PROVE  Kept
  <1> DEFINE f == sent[Reads]
             v == wire[consumed + 1].value
  <1>1. /\ reader' = Reading("size", v, 0, <<>>) /\ reader.part = "cmd" /\ UNCHANGED delivered
        /\ Reads' = Reads
    BY DEF ReadCmd, Reads
  <1>2. Expected = [frame |-> Reads, at |-> 1] /\ v = f.cmd /\ Words(f) >= 2 /\ Words(f) \in Nat
    BY <1>1, NextWord, FrameType DEF Expected, WordOf
  <1>3. After(Expected) = [frame |-> Reads, at |-> 2]
    BY <1>2 DEF After
  <1>4. Expected' = [frame |-> Reads, at |-> 2]
    BY <1>1 DEF Expected, Reading
  <1>5. ReaderOK'
    BY <1>1, <1>2, NextWord DEF ReaderOK, Reading
  <1> QED
    BY <1>1, <1>3, <1>4, <1>5, NextWord DEF Kept

LEMMA EventKeeps ==
  ASSUME Inv, ReadWord, NEW r \in LoopState, Event(r),
         r.cmd = sent[Reads].cmd, r.data = sent[Reads].data,
         After(Expected) = [frame |-> Reads + 1, at |-> 1]
  PROVE  Kept
  <1>1. Handed
    BY DEF Event, Handed, Channel!Event
  <1>2. Reads' = Reads + 1 /\ reader' = NextFrame
    BY <1>1 DEF Handed, Reads, Inv, TypeOK, Event
  <1>3. Expected' = [frame |-> Reads + 1, at |-> 1]
    BY <1>2 DEF Expected, NextFrame, Reading
  <1>4. ReaderOK'
    BY <1>2 DEF ReaderOK, NextFrame, Reading
  <1> QED
    BY <1>1, <1>3, <1>4, NextWord DEF Kept

LEMMA ReadSizeKeeps ==
  ASSUME AllRead, Inv, ReadWord, ReadSize(wire[consumed + 1].value)
  PROVE  Kept
  <1> DEFINE f == sent[Reads]
             v == wire[consumed + 1].value
  <1>1. /\ reader.part = "size" /\ reader.data = <<>> /\ reader.cmd = f.cmd
        /\ f \in Frames
    BY NextWord DEF ReadSize, Inv, ReaderOK
  <1>2. /\ Expected = [frame |-> Reads, at |-> 2] /\ v = Len(f.data) /\ Words(f) = 2 + v
        /\ v \in Nat /\ f.cmd \in Nat /\ f.cmd > 0 /\ v < Limit /\ f.data \in Seq(Nat)
    BY <1>1, NextWord, FrameType DEF Expected, WordOf, Words, AllRead
  <1>3. DataFollows(reader.cmd, v) <=> v > 0
    BY <1>1, <1>2, LimitsAssumption DEF DataFollows
  <1>4. CASE v > 0
    <2>1. reader' = Reading("data", reader.cmd, v, <<>>) /\ UNCHANGED delivered
      BY <1>3, <1>4 DEF ReadSize
    <2>2. After(Expected) = [frame |-> Reads, at |-> 3]
      BY <1>2, <1>4 DEF After
    <2>3. Reads' = Reads /\ Expected' = [frame |-> Reads, at |-> 3]
      BY <2>1 DEF Expected, Reading, Reads
    <2>4. ReaderOK'
      BY <1>1, <1>2, <1>4, <2>1, <2>3, NextWord DEF ReaderOK, Reading
    <2> QED
      BY <2>1, <2>2, <2>3, <2>4, NextWord DEF Kept
  <1>5. CASE v = 0
    <2>1. Event(reader)
      BY <1>2, <1>3, <1>5 DEF ReadSize
    <2>2. f.data = <<>>
      BY <1>2, <1>5, EmptySeq
    <2>3. After(Expected) = [frame |-> Reads + 1, at |-> 1]
      BY <1>2, <1>5 DEF After
    <2>4. reader \in LoopState
      BY DEF Inv, TypeOK
    <2>5. reader.cmd = sent[Reads].cmd /\ reader.data = sent[Reads].data
      BY <1>1, <2>2
    <2> QED
      BY <2>1, <2>3, <2>4, <2>5, EventKeeps
  <1> QED
    BY <1>2, <1>4, <1>5

LEMMA ReadDataKeeps ==
  ASSUME Inv, ReadWord, ReadData(wire[consumed + 1].value)
  PROVE  Kept
  <1> DEFINE f == sent[Reads]
             v == wire[consumed + 1].value
             d == Append(reader.data, v)
             n == Len(reader.data)
  <1>1. /\ reader.part = "data" /\ reader.cmd = f.cmd /\ f \in Frames
        /\ reader.size = Len(f.data) /\ n < reader.size
        /\ reader.data \in Seq(Nat) /\ n \in Nat
        /\ \A k \in 1..n : reader.data[k] = f.data[k]
    <2>1. reader.part = "data"
      BY DEF ReadData
    <2>2. reader.data \in Seq(Nat) /\ n \in Nat
      BY DEF Inv, TypeOK, LoopState
    <2>3. /\ reader.cmd = f.cmd /\ reader.size = Len(f.data) /\ n < reader.size
          /\ \A k \in 1..n : reader.data[k] = f.data[k]
          /\ Reads <= Len(sent)
      BY <2>1 DEF Inv, ReaderOK
    <2>4. f \in Frames
      BY <2>3 DEF Inv, TypeOK, Reads
    <2> QED
      BY <2>1, <2>2, <2>3, <2>4
  <1>2. /\ Expected = [frame |-> Reads, at |-> 3 + n]
        /\ f.data \in Seq(Nat) /\ Words(f) = 2 + Len(f.data) /\ Len(f.data) \in Nat
    BY <1>1, FrameType DEF Expected, Words
  <1>3. v = f.data[n + 1] /\ v \in Nat
    <2>1. v = WordOf(f, 3 + n)
      BY <1>2, NextWord
    <2>2. (3 + n) - 2 = n + 1 /\ 3 + n # 1 /\ 3 + n # 2 /\ n + 1 \in 1..Len(f.data)
      BY <1>1, <1>2
    <2>3. v = f.data[n + 1]
      BY <2>1, <2>2, Zenon DEF WordOf
    <2>4. f.data[n + 1] \in Nat
      BY <1>2, <2>2, ElementOfSeq
    <2> QED
      BY <2>3, <2>4
  <1> HIDE DEF v
  <1>4. /\ d \in Seq(Nat) /\ Len(d) = n + 1
        /\ \A k \in 1..(n + 1) : d[k] = f.data[k]
    <2>1. /\ d \in Seq(Nat) /\ Len(d) = n + 1
          /\ \A k \in 1..n : d[k] = reader.data[k]
          /\ d[n + 1] = v
      <3>1. reader.data \in Seq(Nat) /\ v \in Nat
        BY <1>1, <1>3
      <3> QED
        BY <3>1
    <2> HIDE DEF d
    <2> SUFFICES ASSUME NEW k \in 1..(n + 1) PROVE d[k] = f.data[k]
      BY <2>1
    <2>2. CASE k \in 1..n
      BY <1>1, <2>1, <2>2
    <2>3. CASE k = n + 1
      BY <1>3, <2>1, <2>3
    <2> QED
      BY <1>1, <2>2, <2>3
  <1> HIDE DEF d
  <1> DEFINE r == Reading("data", reader.cmd, reader.size, d)
  <1>5. r.data = d /\ r.cmd = reader.cmd /\ r.size = reader.size /\ r.part = "data"
    BY DEF Reading
  <1>6. IF Len(d) < reader.size THEN reader' = r /\ UNCHANGED delivered ELSE Event(r)
    BY <1>5 DEF ReadData, d, v
  <1> HIDE DEF r
  <1>7. CASE n + 1 < reader.size
    <2>1. reader' = r /\ UNCHANGED delivered
      BY <1>4, <1>6, <1>7
    <2>2. After(Expected) = [frame |-> Reads, at |-> 4 + n]
      BY <1>1, <1>2, <1>7 DEF After
    <2>3. reader'.part = "data" /\ reader'.cmd = f.cmd /\ reader'.size = Len(f.data)
          /\ reader'.data = d
      BY <1>1, <1>5, <2>1
    <2>4. UNCHANGED sent /\ Reads <= Len(sent) /\ Reads' = Reads
      BY <2>1, NextWord DEF Reads
    <2>5. 3 + Len(reader'.data) = 4 + n
      BY <1>1, <1>4, <2>3
    <2>6. Expected' = [frame |-> Reads, at |-> 4 + n]
      BY <2>3, <2>4, <2>5 DEF Expected
    <2>7. ReaderOK'
      BY <1>1, <1>4, <1>7, <2>3, <2>4 DEF ReaderOK
    <2>8. PlaceOf(consumed + 1)' = Expected'
      BY <2>2, <2>6, NextWord
    <2> QED
      BY <2>1, <2>4, <2>7, <2>8 DEF Kept
  <1>8. CASE n + 1 = reader.size
    <2>1. Event(r)
      BY <1>1, <1>4, <1>6, <1>8
    <2>2. d = f.data
      <3>1. d \in Seq(Nat) /\ f.data \in Seq(Nat) /\ Len(d) = Len(f.data)
        BY <1>1, <1>2, <1>4, <1>8
      <3>2. \A k \in 1..Len(d) : d[k] = f.data[k]
        BY <1>1, <1>4
      <3> QED
        BY <3>1, <3>2, SeqEqual
    <2>3. After(Expected) = [frame |-> Reads + 1, at |-> 1]
      BY <1>1, <1>2, <1>8 DEF After
    <2>4. r.cmd = sent[Reads].cmd /\ r.data = sent[Reads].data
      BY <1>1, <1>5, <2>2
    <2>5. r \in LoopState
      BY <1>1, <1>4 DEF r, Reading, LoopState, Inv, TypeOK
    <2> QED
      BY <2>1, <2>3, <2>4, <2>5, EventKeeps
  <1> QED
    BY <1>1, <1>7, <1>8

LEMMA ReadWordKeeps ==
  ASSUME AllRead, Inv, ReadWord
  PROVE  PenOK' /\ WireOK' /\ Kept
  <1>1. UNCHANGED <<sent, pen, wire>>
    BY DEF ReadWord, network
  <1>2. PenOK' /\ WireOK'
    BY <1>1 DEF Inv, PenOK, WireOK, WordOK, PlaceOf, PenPlace, After, Place
  <1>3. Kept
    BY ReadCmdKeeps, ReadSizeKeeps, ReadDataKeeps DEF ReadWord
  <1> QED
    BY <1>2, <1>3

\* Steps that neither write nor read a word
LEMMA QuietKeeps ==
  ASSUME Inv, UNCHANGED <<sent, pen, wire, consumed, reader, delivered>>
  PROVE  PenOK' /\ WireOK' /\ (PlaceOf(consumed + 1) = Expected)' /\ ReaderOK'
  BY DEF Inv, PenOK, WireOK, WordOK, PlaceOf, PenPlace, After, Place, ReaderOK, Expected, Reads

LEMMA InvStep ==
  ASSUME OneThread, AllRead, Inv, [Next]_vars
  PROVE  Inv'
  <1>1. TypeOK'
    BY TypeStep DEF Inv
  <1>2. PenOK' /\ WireOK' /\ (PlaceOf(consumed + 1) = Expected)' /\ ReaderOK'
    <2>1. ASSUME NEW t \in Threads, Thread(t)
          PROVE  PenOK' /\ WireOK' /\ (PlaceOf(consumed + 1) = Expected)' /\ ReaderOK'
      BY <2>1, SendKeeps, WriteKeeps DEF Thread
    <2>2. CASE Network
      BY <2>2, QuietKeeps DEF Network, Arrive, Break, reading
    <2>3. CASE ReadWord
      BY <2>3, ReadWordKeeps DEF Kept
    <2>4. CASE ReadShort
      BY <2>4, QuietKeeps DEF ReadShort, network
    <2>5. CASE UNCHANGED vars
      BY <2>5, QuietKeeps DEF vars, network, reading
    <2> QED
      BY <2>1, <2>2, <2>3, <2>4, <2>5 DEF Next, Read
  <1> QED
    BY <1>1, <1>2 DEF Inv

-----------------------------------------------------------------------------
(* The refinement *)

\* What the loop holds when a read comes short is what is left of a frame.
LEMMA StartOf ==
  ASSUME NEW s \in Seq(Nat), NEW n \in 0..Len(s)
  PROVE  /\ SubSeq(s, 1, n) \in Seq(Nat) /\ Len(SubSeq(s, 1, n)) = n
         /\ \A k \in 1..n : SubSeq(s, 1, n)[k] = s[k]
  <1>1. 1 \in Int /\ n \in Int /\ \A k \in 1..n : s[k] \in Nat
    OBVIOUS
  <1>2. /\ SubSeq(s, 1, n) \in Seq(Nat)
        /\ Len(SubSeq(s, 1, n)) = IF 1 <= n THEN n - 1 + 1 ELSE 0
        /\ \A k \in 1..n - 1 + 1 : SubSeq(s, 1, n)[k] = s[1 + k - 1]
    BY <1>1, SubSeqProperties
  <1>3. \A k \in 1..n : k \in 1..n - 1 + 1 /\ 1 + k - 1 = k
    OBVIOUS
  <1>4. \A k \in 1..n : SubSeq(s, 1, n)[k] = s[k]
    BY <1>2, <1>3
  <1> QED
    BY <1>2, <1>4

LEMMA ShortIsEnd == ASSUME Inv, ReadShort PROVE Channel!End
  <1> DEFINE f == sent[Reads]
             n == Len(reader.data)
  <1>1. cut = Channel!NoCut /\ UNCHANGED <<sent, delivered>>
    BY DEF ReadShort
  <1>2. CASE reader.part = "cmd"
    <2>1. cut' \in Channel!NoCommands
      BY <1>2 DEF ReadShort
    <2> QED
      BY <1>1, <2>1 DEF Channel!End
  <1>3. CASE reader.part # "cmd"
    <2>0. cut' = [cmd |-> reader.cmd, data |-> reader.data]
      BY <1>3 DEF ReadShort
    <2>1. /\ Reads \in 1..Len(sent) /\ f \in Frames /\ reader.cmd = f.cmd
          /\ Len(delivered) < Len(sent)
      BY <1>3 DEF Inv, ReaderOK, Reads, TypeOK
    <2>2. f.data \in Seq(Nat) /\ Len(f.data) \in Nat
      BY <2>1, FrameType
    <2>3. reader.data \in Seq(Nat) /\ n \in 0..Len(f.data)
          /\ \A k \in 1..n : reader.data[k] = f.data[k]
      <3>1. reader.data \in Seq(Nat) /\ reader.part \in {"cmd", "size", "data"}
        BY DEF Inv, TypeOK, LoopState
      <3>2. CASE reader.part = "size"
        BY <2>2, <3>1, <3>2, EmptySeq DEF Inv, ReaderOK
      <3>3. CASE reader.part = "data"
        <4>1. /\ n < reader.size /\ reader.size = Len(f.data)
              /\ \A k \in 1..n : reader.data[k] = f.data[k]
          BY <3>3 DEF Inv, ReaderOK
        <4>2. n \in Nat
          BY <3>1
        <4> QED
          BY <2>2, <3>1, <4>1, <4>2
      <3> QED
        BY <1>3, <3>1, <3>2, <3>3
    <2>4. /\ SubSeq(f.data, 1, n) \in Seq(Nat) /\ Len(SubSeq(f.data, 1, n)) = n
          /\ \A k \in 1..n : SubSeq(f.data, 1, n)[k] = f.data[k]
      BY <2>2, <2>3, StartOf
    <2>5. reader.data = SubSeq(f.data, 1, n)
      BY <2>3, <2>4, SeqEqual
    <2>6. cut' \in Channel!Remains(f)
      BY <2>0, <2>1, <2>3, <2>5 DEF Channel!Remains
    <2> QED
      BY <1>1, <2>1, <2>6 DEF Channel!End, Reads
  <1> QED
    BY <1>2, <1>3

LEMMA StepImplements ==
  ASSUME OneThread, AllRead, Inv, [Next]_vars
  PROVE  [Channel!Next]_(Channel!vars)
  <1>1. ASSUME NEW t \in Threads, NEW f \in Frames, Send(t, f)
        PROVE  Channel!Next
    BY <1>1 DEF Send, reading, Channel!Next, Channel!Send
  <1>2. ASSUME NEW t \in Threads, Write(t)
        PROVE  UNCHANGED Channel!vars
    BY <1>2 DEF Write, reading, Channel!vars
  <1>3. CASE Network
    BY <1>3 DEF Network, Arrive, Break, reading, Channel!vars
  <1>4. CASE ReadWord
    <2>1. cut = Channel!NoCut /\ UNCHANGED <<sent, cut>>
      BY <1>4 DEF ReadWord
    <2>2. Reads <= Len(sent) /\ (UNCHANGED delivered \/ Handed)
      BY <1>4, ReadWordKeeps DEF Kept
    <2>3. Len(delivered) < Len(sent)
      BY <2>2 DEF Reads, Inv, TypeOK
    <2> QED
      BY <2>1, <2>2, <2>3 DEF Channel!Next, Channel!Deliver, Channel!vars, Handed, Reads
  <1>5. CASE ReadShort
    BY <1>5, ShortIsEnd DEF Channel!Next
  <1>6. CASE UNCHANGED vars
    BY <1>6 DEF vars, reading, Channel!vars
  <1> QED
    BY <1>1, <1>2, <1>3, <1>4, <1>5, <1>6 DEF Next, Thread, Read

\* Inv holds in every state of a connection one thread sends over.
LEMMA InvHolds == ASSUME OneThread, AllRead PROVE Spec => []Inv
  <1>1. Init => Inv
    BY InvInit
  <1>2. Inv /\ [Next]_vars => Inv'
    BY InvStep
  <1> QED
    BY <1>1, <1>2, PTL DEF Spec

\* Whatever the frames, their number and the places where reads come short, the
\* state of both ends is typed: no read takes a size for more than it is.
THEOREM TypeCorrect == ASSUME OneThread, AllRead PROVE Spec => []TypeOK
  <1>1. Inv => TypeOK
    BY DEF Inv
  <1> QED
    BY <1>1, InvHolds, PTL

\* One sending thread and data below the limit: what is handed over is what was
\* sent, whole, once and in order, and the end of the connection hands over what
\* is left of one frame (ccl.c, do_cnxn_proc; cclc.c, CCLC_check_events).
THEOREM WireImplementsChannel == ASSUME OneThread, AllRead PROVE Spec => ImplementsChannel
  <1>1. Init => Channel!Init
    BY DEF Init, Channel!Init
  <1>2. Inv /\ [Next]_vars => [Channel!Next]_(Channel!vars)
    BY StepImplements
  <1> QED
    BY <1>1, <1>2, InvHolds, PTL DEF Spec, ImplementsChannel, Channel!Spec
=============================================================================
