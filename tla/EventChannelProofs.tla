------------------------- MODULE EventChannelProofs -------------------------
(***************************************************************************)
(* Proofs about EventChannel for every number of connections, every window *)
(* size, every modulus of the frame numbers and every queue size: types    *)
(* and window first, then what becomes of an event: the confirmations a    *)
(* peer may send are accepted, no event is lost silently, and the channel  *)
(* keeps the promise stated in AtLeastOnce.                                *)
(***************************************************************************)
EXTENDS EventChannel, TLAPS

\* What the frame numbers of a connection rest on: a successor is a frame number.
LEMMA NextSeqType == \A n \in SeqNo : NextSeq(n) \in SeqNo
  BY ChannelAssumption, SMT DEF NextSeq, SeqNo

\* So is a predecessor.
LEMMA PrevSeqType == \A n \in SeqNo : PrevSeq(n) \in SeqNo
  BY ChannelAssumption, SMT DEF PrevSeq, SeqNo

\* The elements of a sequence, as the provers need them.
LEMMA SeqElements ==
  ASSUME NEW S, NEW q \in Seq(S)
  PROVE  /\ Len(q) \in Nat
         /\ DOMAIN q = 1..Len(q)
         /\ q \in [1..Len(q) -> S]
         /\ \A i \in 1..Len(q) : q[i] \in S
  OBVIOUS

\* A function on an interval is a sequence.
LEMMA SeqOfFunction ==
  ASSUME NEW S, NEW n \in Nat, NEW f \in [1..n -> S]
  PROVE  f \in Seq(S)
  OBVIOUS

\* Putting entries back or marking one keeps a queue a queue.
LEMMA RequeuedType == \A q \in Seq(Entry) : Requeued(q) \in Seq(Entry)
<1> SUFFICES ASSUME NEW q \in Seq(Entry) PROVE Requeued(q) \in Seq(Entry)
  OBVIOUS
<1>1. DOMAIN q = 1..Len(q) /\ Len(q) \in Nat /\ \A i \in 1..Len(q) : q[i] \in Entry
  BY SeqElements
<1>2. \A e \in Entry : [e EXCEPT !.state = "waiting"] \in Entry
  BY DEF Entry, EntryState
<1>3. Requeued(q) \in [1..Len(q) -> Entry]
  BY <1>1, <1>2 DEF Requeued
<1> QED BY <1>1, <1>3, SeqOfFunction

\* Marking an entry as confirmed keeps a queue a queue.
LEMMA MarkConfirmedType ==
  \A q \in Seq(Entry), id \in EventId : MarkConfirmed(q, id) \in Seq(Entry)
<1> SUFFICES ASSUME NEW q \in Seq(Entry), NEW id \in EventId
             PROVE  MarkConfirmed(q, id) \in Seq(Entry)
  OBVIOUS
<1> DEFINE marked == [i \in DOMAIN q |->
              IF q[i].id = id THEN [q[i] EXCEPT !.state = "confirmed"] ELSE q[i]]
<1>1. DOMAIN q = 1..Len(q) /\ Len(q) \in Nat /\ \A i \in 1..Len(q) : q[i] \in Entry
  BY SeqElements
<1>2. \A e \in Entry : [e EXCEPT !.state = "confirmed"] \in Entry
  BY DEF Entry, EntryState
<1>3. marked \in [1..Len(q) -> Entry]
  BY <1>1, <1>2
<1>4. marked \in Seq(Entry)
  BY <1>1, <1>3, SeqOfFunction
<1>5. q # <<>> => Tail(q) \in Seq(Entry)
  OBVIOUS
<1> QED BY <1>4, <1>5 DEF MarkConfirmed

\* A connection's frame counters and buffers stay what they are when a frame is
\* sent, whether or not the write succeeds.
LEMMA SendFrameType ==
  ASSUME TypeOK, NEW c \in Conn, NEW id \in EventId \cup {NoEvent}, SendFrame(c, id)
  PROVE  /\ running' \in [Conn -> BOOLEAN]
         /\ sendCount' \in [Conn -> SeqNo]
         /\ kbuf' \in [Conn -> Seq(SentFrame)]
         /\ wire' \in [Conn -> Seq(Frame)]
<1>1. sendCount[c] \in SeqNo /\ NextSeq(sendCount[c]) \in SeqNo
  BY NextSeqType DEF TypeOK
<1>2. /\ [seq |-> NextSeq(sendCount[c]), id |-> id] \in SentFrame
      /\ [seq |-> sendCount[c], id |-> id] \in SentFrame
      /\ [ns |-> sendCount[c], id |-> id] \in Frame
  BY <1>1 DEF SentFrame, Frame
<1>3. kbuf[c] \in Seq(SentFrame) /\ wire[c] \in Seq(Frame)
  BY DEF TypeOK
<1>4. \A e \in SentFrame : Append(kbuf[c], e) \in Seq(SentFrame)
  BY <1>3
<1>5. \A e \in Frame : Append(wire[c], e) \in Seq(Frame)
  BY <1>3
<1>6. /\ kbuf \in [Conn -> Seq(SentFrame)] /\ wire \in [Conn -> Seq(Frame)]
      /\ running \in [Conn -> BOOLEAN] /\ sendCount \in [Conn -> SeqNo]
  BY DEF TypeOK
<1> QED BY <1>1, <1>2, <1>4, <1>5, <1>6 DEF SendFrame

\* Every step keeps every variable in its range.
LEMMA TypeStep == TypeOK /\ [Next]_vars => TypeOK'
<1> SUFFICES ASSUME TypeOK, [Next]_vars PROVE TypeOK'
  OBVIOUS
<1> USE DEF queueVars, peerVars
<1>1. CASE UNCHANGED vars
  BY <1>1 DEF TypeOK, vars
<1>2. CASE Enqueue
  <2>1. nextId \in EventId
    BY <1>2, ChannelAssumption DEF Enqueue, TypeOK, EventId
  <2>2. [id |-> nextId, state |-> "waiting"] \in Entry
    BY <2>1 DEF Entry, EntryState
  <2>3. Len(queue) = Cap => Head(queue) \in Entry /\ Tail(queue) \in Seq(Entry)
    BY ChannelAssumption DEF TypeOK
  <2>4. queue' \in Seq(Entry)
    BY <1>2, <2>2, <2>3 DEF Enqueue, TypeOK
  <2>5. lost' \in SUBSET EventId
    BY <1>2, <2>3 DEF Enqueue, TypeOK, Entry
  <2>6. nextId' \in 1..(MaxId + 1)
    BY <1>2, ChannelAssumption DEF Enqueue, TypeOK
  <2> QED BY <1>2, <2>4, <2>5, <2>6 DEF Enqueue, TypeOK
<1>3. ASSUME NEW c \in Conn, Accept(c) PROVE TypeOK'
  <2>1. 0 \in SeqNo /\ 0 \in 0..PrioCap
    BY ChannelAssumption DEF SeqNo
  <2> QED BY <1>3, <2>1 DEF Accept, Goto, TypeOK, Place
<1>4. ASSUME NEW c \in Conn,
             Reap(c) \/ NoMessage(c) \/ Fail(c) \/ StartDt(c) \/ StopDt(c)
      PROVE  TypeOK'
  BY <1>4 DEF Reap, NoMessage, Fail, StartDt, StopDt, Goto, TypeOK, Place
<1>5. ASSUME NEW c \in Conn, Activate(c) PROVE TypeOK'
  <2>1. 0 \in 0..PrioCap
    BY ChannelAssumption
  <2> QED BY <1>5, <2>1 DEF Activate, Goto, TypeOK, Place
<1>6. ASSUME NEW c \in Conn, RecvAck(c) PROVE TypeOK'
  <2>1. PICK j \in 0..Len(wire[c]), kind \in {"S", "I"} :
          LET n == PeerNumber(c, j)
          IN  /\ wire' = [wire EXCEPT ![c] = SubSeq(@, j + 1, Len(@))]
              /\ vr' = [vr EXCEPT ![c] = n]
              /\ delivered' = delivered \cup
                   ({wire[c][i].id : i \in 1..j} \ {NoEvent})
              /\ IF (kind = "S" /\ ~active[c]) \/ ~SeqNoIsValid(c, n)
                 THEN /\ running' = [running EXCEPT ![c] = FALSE]
                      /\ Goto(c, "check")
                      /\ UNCHANGED ack
                 ELSE /\ ack' = [ack EXCEPT ![c] =
                                   [n |-> n, overflow |-> Overflow(c),
                                    oldestValid |-> OldestValid(c), kind |-> kind]]
                      /\ Goto(c, "confirm")
                      /\ UNCHANGED running
    BY <1>6 DEF RecvAck
  <2>2. wire[c] \in Seq(Frame) /\ kbuf[c] \in Seq(SentFrame) /\ vr[c] \in SeqNo
    BY DEF TypeOK
  <2>3. /\ Len(wire[c]) \in Nat
        /\ \A i \in 1..Len(wire[c]) : wire[c][i] \in Frame
    BY <2>2, SeqElements
  <2>4. \A i \in 1..j : wire[c][i] \in Frame
    BY <2>3
  <2>5. PeerNumber(c, j) \in SeqNo
    BY <2>2, <2>4, NextSeqType DEF PeerNumber, Frame
  <2>6. SubSeq(wire[c], j + 1, Len(wire[c])) \in Seq(Frame)
    BY <2>2, <2>3
  <2>7. delivered' \in SUBSET EventId
    BY <2>1, <2>4 DEF Frame, TypeOK
  <2>8. OldestValid(c) \in SeqNo \cup {NoSeq}
    <3>1. kbuf[c] # <<>> => kbuf[c][1] \in SentFrame
      BY <2>2
    <3> QED BY <3>1, PrevSeqType DEF OldestValid, Oldest, SentFrame
  <2>9. Overflow(c) \in BOOLEAN
    BY DEF Overflow
  <2>10. [n |-> PeerNumber(c, j), overflow |-> Overflow(c),
          oldestValid |-> OldestValid(c), kind |-> kind] \in AckLocals
    BY <2>5, <2>8, <2>9 DEF AckLocals
  <2>11. /\ ack' \in [Conn -> AckLocals]
         /\ running' \in [Conn -> BOOLEAN]
         /\ pc' \in [Conn -> Place]
    BY <2>1, <2>10, ZenonT(40) DEF Goto, TypeOK, Place
  <2>12. wire' \in [Conn -> Seq(Frame)] /\ vr' \in [Conn -> SeqNo]
    BY <2>1, <2>5, <2>6 DEF TypeOK
  <2> QED BY <1>6, <2>7, <2>11, <2>12 DEF RecvAck, TypeOK
<1>7. ASSUME NEW c \in Conn, ConfirmStop(c) PROVE TypeOK'
  <2>1. NoAck \in AckLocals
    BY ChannelAssumption DEF NoAck, AckLocals, SeqNo
  <2> QED BY <1>7, <2>1 DEF ConfirmStop, Goto, AfterAck, TypeOK, Place
<1>8. ASSUME NEW c \in Conn, ConfirmNext(c) PROVE TypeOK'
  <2>1. NoAck \in AckLocals
    BY ChannelAssumption DEF NoAck, AckLocals, SeqNo
  <2>2. kbuf[c] \in Seq(SentFrame) /\ kbuf[c] # <<>>
    BY <1>8 DEF ConfirmNext, Covered, TypeOK
  <2>3. Oldest(c) \in SentFrame /\ Tail(kbuf[c]) \in Seq(SentFrame)
    BY <2>2 DEF Oldest
  <2>4. Oldest(c).id # NoEvent => Oldest(c).id \in EventId
    BY <2>3 DEF SentFrame
  <2>5. queue' \in Seq(Entry)
    BY <1>8, <2>4, MarkConfirmedType DEF ConfirmNext, TypeOK
  <2>6. pc' \in [Conn -> Place] /\ ack' \in [Conn -> AckLocals]
    BY <1>8, <2>1, ZenonT(40) DEF ConfirmNext, Goto, AfterAck, TypeOK, Place
  <2> QED BY <1>8, <2>3, <2>5, <2>6 DEF ConfirmNext, TypeOK
<1>9. ASSUME NEW c \in Conn, Command(c) PROVE TypeOK'
  BY <1>9 DEF Command, Goto, TypeOK, Place
<1>10. ASSUME NEW c \in Conn, Reply(c) PROVE TypeOK'
  <2>1. pc' \in [Conn -> Place]
    BY <1>10 DEF Reply, Goto, TypeOK, Place
  <2>2. prio' \in 0..PrioCap
    BY <1>10, ChannelAssumption DEF Reply, TypeOK
  <2>3. /\ running' \in [Conn -> BOOLEAN]
        /\ sendCount' \in [Conn -> SeqNo]
        /\ kbuf' \in [Conn -> Seq(SentFrame)]
        /\ wire' \in [Conn -> Seq(Frame)]
    <3>1. CASE SendFrame(c, NoEvent)
      BY <3>1, SendFrameType
    <3>2. CASE UNCHANGED <<running, sendCount, kbuf, wire>>
      BY <3>2 DEF TypeOK
    <3> QED BY <1>10, <3>1, <3>2 DEF Reply
  <2> QED BY <1>10, <2>1, <2>2, <2>3 DEF Reply, TypeOK
<1>11. ASSUME NEW c \in Conn, Check(c) PROVE TypeOK'
  BY <1>11 DEF Check, Goto, TypeOK, Place
<1>12. ASSUME NEW c \in Conn, SendHigh(c) PROVE TypeOK'
  <2>1. pc' \in [Conn -> Place]
    BY <1>12 DEF SendHigh, Goto, TypeOK, Place
  <2>2. prio' \in 0..PrioCap
    BY <1>12, ChannelAssumption DEF SendHigh, TypeOK
  <2>3. /\ running' \in [Conn -> BOOLEAN]
        /\ sendCount' \in [Conn -> SeqNo]
        /\ kbuf' \in [Conn -> Seq(SentFrame)]
        /\ wire' \in [Conn -> Seq(Frame)]
    <3>1. CASE SendFrame(c, NoEvent)
      BY <3>1, SendFrameType
    <3>2. CASE UNCHANGED <<running, sendCount, kbuf, wire>>
      BY <3>2 DEF TypeOK
    <3> QED BY <1>12, <3>1, <3>2 DEF SendHigh
  <2> QED BY <1>12, <2>1, <2>2, <2>3 DEF SendHigh, TypeOK
<1>13. ASSUME NEW c \in Conn, SendLow(c) PROVE TypeOK'
  <2>1. pc' \in [Conn -> Place]
    BY <1>13 DEF SendLow, Goto, TypeOK, Place
  <2>2. CASE UNCHANGED <<queue, running, sendCount, kbuf, wire>>
    BY <1>13, <2>1, <2>2 DEF SendLow, TypeOK
  <2>3. ASSUME NEW i \in DOMAIN queue,
               queue' = [queue EXCEPT ![i].state = "sent"],
               SendFrame(c, queue[i].id)
        PROVE  TypeOK'
    <3>1. /\ DOMAIN queue = 1..Len(queue) /\ Len(queue) \in Nat
          /\ \A k \in 1..Len(queue) : queue[k] \in Entry
      BY SeqElements DEF TypeOK
    <3>2. [queue[i] EXCEPT !.state = "sent"] \in Entry /\ queue[i].id \in EventId
      BY <2>3, <3>1 DEF Entry, EntryState
    <3>3. queue' \in [1..Len(queue) -> Entry]
      BY <2>3, <3>1, <3>2
    <3>4. queue' \in Seq(Entry)
      BY <3>1, <3>3, SeqOfFunction
    <3>5. /\ running' \in [Conn -> BOOLEAN]
          /\ sendCount' \in [Conn -> SeqNo]
          /\ kbuf' \in [Conn -> Seq(SentFrame)]
          /\ wire' \in [Conn -> Seq(Frame)]
      BY <2>3, <3>2, SendFrameType
    <3> QED BY <1>13, <2>1, <3>4, <3>5 DEF SendLow, TypeOK
  <2> QED BY <1>13, <2>2, <2>3 DEF SendLow
<1>14. ASSUME NEW c \in Conn, Close(c) PROVE TypeOK'
  <2>1. queue' \in Seq(Entry)
    BY <1>14, RequeuedType DEF Close, TypeOK
  <2> QED BY <1>14, <2>1 DEF Close, Goto, TypeOK, Place
<1> QED
  BY <1>1, <1>2, <1>3, <1>4, <1>5, <1>6, <1>7, <1>8, <1>9, <1>10, <1>11, <1>12,
     <1>13, <1>14 DEF Next, ThreadStep

\* Every variable of the channel stays in its range.
THEOREM TypeCorrect == Spec => []TypeOK
<1>1. Init => TypeOK
  <2>1. 0 \in SeqNo /\ 0 \in 0..PrioCap /\ 1 \in 1..(MaxId + 1)
    BY ChannelAssumption DEF SeqNo
  <2>2. NoAck \in AckLocals
    BY <2>1 DEF NoAck, AckLocals
  <2> QED BY <2>1, <2>2 DEF Init, TypeOK, Place
<1> QED BY <1>1, TypeStep, PTL DEF Spec

\* The next frame continues the numbers of the frames that are outstanding.
LEMMA SendFrameWindow ==
  ASSUME TypeOK, NEW c \in Conn, NEW id \in EventId \cup {NoEvent},
         SendFrame(c, id), Live(c) /\ running[c] => Window(c),
         Live(c), running'[c], ~WindowFull(c)
  PROVE  Window(c)'
<1>1. /\ kbuf[c] \in Seq(SentFrame) /\ sendCount[c] \in SeqNo
      /\ kbuf \in [Conn -> Seq(SentFrame)] /\ sendCount \in [Conn -> SeqNo]
      /\ running \in [Conn -> BOOLEAN]
  BY DEF TypeOK
<1> DEFINE f == [seq |-> NextSeq(sendCount[c]), id |-> id]
<1>2. f \in SentFrame /\ f.seq = NextSeq(sendCount[c])
  BY <1>1, NextSeqType DEF SentFrame
<1>3. /\ sendCount'[c] = NextSeq(sendCount[c])
      /\ kbuf'[c] = Append(kbuf[c], f)
      /\ running[c]
  BY <1>1 DEF SendFrame
<1>4. Len(kbuf[c]) \in Nat /\ Len(kbuf[c]) < K
  BY <1>1, ChannelAssumption DEF WindowFull
<1>5. /\ Len(kbuf'[c]) = Len(kbuf[c]) + 1
      /\ \A i \in 1..Len(kbuf[c]) : kbuf'[c][i] = kbuf[c][i]
      /\ kbuf'[c][Len(kbuf[c]) + 1] = f
  <2> HIDE DEF f
  <2> QED BY <1>1, <1>2, <1>3, <1>4
<1>6. Len(kbuf'[c]) <= K
  BY <1>4, <1>5, ChannelAssumption
<1>7. ASSUME NEW i \in 1..(Len(kbuf'[c]) - 1)
      PROVE  kbuf'[c][i + 1].seq = NextSeq(kbuf'[c][i].seq)
  <2>1. CASE i < Len(kbuf[c])
    <3>1. i \in 1..(Len(kbuf[c]) - 1) /\ i + 1 \in 1..Len(kbuf[c])
      BY <1>4, <1>5, <2>1
    <3> QED BY <1>3, <1>5, <3>1 DEF Window
  <2>2. CASE i = Len(kbuf[c])
    <3>1. kbuf[c] # <<>> /\ i \in 1..Len(kbuf[c])
      BY <1>1, <1>4, <1>5, <2>2
    <3>2. kbuf[c][i].seq = sendCount[c]
      BY <1>3, <2>2, <3>1 DEF Window, Newest
    <3> QED BY <1>2, <1>5, <2>2, <3>1, <3>2
  <2> QED BY <1>4, <1>5, <2>1, <2>2
<1>8. Newest(c)'.seq = sendCount'[c]
  BY <1>2, <1>3, <1>5 DEF Newest
<1> QED BY <1>6, <1>7, <1>8 DEF Window, NextSeq

\* Every step keeps the numbers of outstanding frames consecutive.
LEMMA WindowStep == TypeOK /\ WindowConsistent /\ [Next]_vars => WindowConsistent'
<1> SUFFICES ASSUME TypeOK, WindowConsistent, [Next]_vars,
                    NEW d \in Conn, Live(d)', running'[d]
             PROVE  Window(d)'
  BY DEF WindowConsistent
<1> USE DEF queueVars, peerVars
<1>0. /\ pc \in [Conn -> Place] /\ running \in [Conn -> BOOLEAN]
      /\ kbuf \in [Conn -> Seq(SentFrame)] /\ sendCount \in [Conn -> SeqNo]
  BY DEF TypeOK
<1>1. CASE UNCHANGED <<kbuf[d], sendCount[d]>> /\ Live(d) /\ running[d]
  BY <1>1 DEF WindowConsistent, Window, Newest, NextSeq
<1>2. CASE UNCHANGED vars
  BY <1>1, <1>2 DEF vars, Live
<1>3. CASE Enqueue
  BY <1>1, <1>3 DEF Enqueue, Live
<1>4. ASSUME NEW c \in Conn, Accept(c) PROVE Window(d)'
  <2>1. CASE c = d
    <3>1. kbuf'[d] = <<>>
      BY <1>0, <1>4, <2>1 DEF Accept
    <3> QED BY <3>1, ChannelAssumption DEF Window
  <2>2. CASE c # d
    BY <1>0, <1>1, <1>4, <2>2 DEF Accept, Goto, Live
  <2> QED BY <2>1, <2>2
<1>5. ASSUME NEW c \in Conn,
             Reap(c) \/ NoMessage(c) \/ Fail(c) \/ StartDt(c) \/ StopDt(c)
               \/ Activate(c) \/ ConfirmStop(c) \/ Command(c) \/ Check(c) \/ Close(c)
      PROVE  Window(d)'
  <2>1. UNCHANGED <<kbuf, sendCount>> /\ running[d] /\ Live(d)
    BY <1>0, <1>5 DEF Reap, NoMessage, Fail, StartDt, StopDt, Activate, ConfirmStop,
       Command, Check, Close, Goto, AfterAck, Live
  <2> QED BY <1>1, <2>1
<1>6. ASSUME NEW c \in Conn, RecvAck(c) PROVE Window(d)'
  <2>1. UNCHANGED <<kbuf, sendCount>> /\ running[d] /\ Live(d)
    BY <1>0, <1>6 DEF RecvAck, Goto, Live
  <2> QED BY <1>1, <2>1
<1>7. ASSUME NEW c \in Conn, ConfirmNext(c) PROVE Window(d)'
  <2>1. /\ UNCHANGED <<sendCount, running>> /\ Live(d)
        /\ kbuf' = [kbuf EXCEPT ![c] = Tail(@)]
        /\ kbuf[c] # <<>>
    BY <1>0, <1>7 DEF ConfirmNext, Covered, Goto, AfterAck, Live
  <2>2. CASE c # d
    BY <1>0, <1>1, <2>1, <2>2
  <2>3. CASE c = d
    <3>1. kbuf'[d] = Tail(kbuf[d]) /\ kbuf[d] \in Seq(SentFrame) /\ kbuf[d] # <<>>
      BY <1>0, <2>1, <2>3
    <3>2. /\ Len(kbuf'[d]) = Len(kbuf[d]) - 1 /\ Len(kbuf[d]) \in Nat
          /\ \A i \in 1..Len(kbuf'[d]) : kbuf'[d][i] = kbuf[d][i + 1]
          /\ kbuf'[d] # <<>> => Len(kbuf[d]) - 1 \in 1..(Len(kbuf[d]) - 1)
      BY <3>1
    <3>3. Window(d)
      BY <2>1 DEF WindowConsistent
    <3>4. Len(kbuf'[d]) <= K
      BY <3>2, <3>3, ChannelAssumption DEF Window
    <3>5. ASSUME NEW i \in 1..(Len(kbuf'[d]) - 1)
          PROVE  kbuf'[d][i + 1].seq = NextSeq(kbuf'[d][i].seq)
      <4>1. /\ i \in 1..Len(kbuf'[d]) /\ i + 1 \in 1..Len(kbuf'[d])
            /\ i + 1 \in 1..(Len(kbuf[d]) - 1)
        BY <3>2
      <4>2. kbuf[d][(i + 1) + 1].seq = NextSeq(kbuf[d][i + 1].seq)
        BY <3>3, <4>1 DEF Window
      <4> QED BY <3>2, <4>1, <4>2
    <3>6. kbuf'[d] # <<>> => Newest(d)'.seq = sendCount'[d]
      <4>1. kbuf'[d] # <<>> => Newest(d)' = Newest(d)
        BY <3>2 DEF Newest
      <4> QED BY <2>1, <3>1, <3>3, <4>1 DEF Window
    <3> QED BY <3>4, <3>5, <3>6 DEF Window, NextSeq
  <2> QED BY <2>2, <2>3
<1>8. ASSUME NEW c \in Conn, Reply(c) \/ SendHigh(c) \/ SendLow(c) PROVE Window(d)'
  <2>1. Live(d) /\ Live(c)
    BY <1>0, <1>8 DEF Reply, SendHigh, SendLow, Goto, Live
  <2>2. CASE UNCHANGED <<running, sendCount, kbuf, wire>>
    BY <1>1, <2>1, <2>2
  <2>3. ASSUME NEW id \in EventId \cup {NoEvent}, SendFrame(c, id), ~WindowFull(c)
        PROVE  Window(d)'
    <3>1. CASE c # d
      <4>1. running'[d] = running[d] /\ UNCHANGED <<kbuf[d], sendCount[d]>>
        BY <1>0, <2>3, <3>1 DEF SendFrame
      <4> QED BY <1>1, <2>1, <4>1
    <3>2. CASE c = d
      BY <2>1, <2>3, <3>2, SendFrameWindow DEF WindowConsistent
    <3> QED BY <3>1, <3>2
  <2>4. CASE SendFrame(c, NoEvent) /\ ~WindowFull(c)
    BY <2>3, <2>4
  <2>5. ASSUME NEW i \in DOMAIN queue, SendFrame(c, queue[i].id), ~WindowFull(c)
        PROVE  Window(d)'
    <3>1. queue[i] \in Entry
      BY <2>5, SeqElements DEF TypeOK
    <3> QED BY <2>3, <2>5, <3>1 DEF Entry
  <2> QED BY <1>8, <2>2, <2>4, <2>5 DEF Reply, SendHigh, SendLow
<1> QED
  BY <1>2, <1>3, <1>4, <1>5, <1>6, <1>7, <1>8 DEF Next, ThreadStep

\* The frames outstanding on a connection carry consecutive numbers that end at
\* the send counter, and there are never more of them than the window allows.
THEOREM WindowCorrect == Spec => []WindowConsistent
<1>1. Init => WindowConsistent
  BY DEF Init, WindowConsistent, Live
<1> QED BY <1>1, TypeCorrect, WindowStep, PTL DEF Spec

(***************************************************************************)
(* Frame numbers, counted back from the send counter                       *)
(***************************************************************************)
\* The frame number k before s.
Back(s, k) == IF s >= k THEN s - k ELSE s - k + SeqMod

\* Frame numbers are integers.
LEMMA SeqNoInt == SeqNo \subseteq Int
  BY ChannelAssumption DEF SeqNo

\* Counting back at most a window stays within the numbers, and numbers that
\* differ in their distance differ.
LEMMA BackType == \A s \in SeqNo, k \in 0..K : Back(s, k) \in SeqNo
  BY ChannelAssumption, SMT DEF Back, SeqNo

\* No step back leads nowhere else.
LEMMA BackZero == \A s \in SeqNo : Back(s, 0) = s
  BY ChannelAssumption, SMT DEF Back, SeqNo

\* Two frames of one window have different numbers.
LEMMA BackInjective ==
  \A s \in SeqNo, k \in 0..K, l \in 0..K : Back(s, k) = Back(s, l) => k = l
  BY ChannelAssumption, SMT DEF Back, SeqNo

\* One frame later everything is one further back.
LEMMA BackShift == \A s \in SeqNo, k \in 0..K : Back(NextSeq(s), k + 1) = Back(s, k)
  BY ChannelAssumption, SMT DEF Back, SeqNo, NextSeq

\* The successor of the frame k back is the frame k - 1 back.
LEMMA BackNext == \A s \in SeqNo, k \in 1..K : NextSeq(Back(s, k)) = Back(s, k - 1)
  BY ChannelAssumption, SMT DEF Back, SeqNo, NextSeq

\* The predecessor of the frame k - 1 back is the frame k back.
LEMMA BackPrev == \A s \in SeqNo, k \in 1..K : PrevSeq(Back(s, k - 1)) = Back(s, k)
  BY ChannelAssumption, SMT DEF Back, SeqNo, PrevSeq

\* The two range checks of checkSequenceNumber, before and after the wrap.
LEMMA BackBetween ==
  ASSUME NEW s \in SeqNo, NEW m \in 0..K, NEW k \in 0..m
  PROVE  /\ Back(s, m) <= s => Back(s, m) <= Back(s, k) /\ Back(s, k) <= s
         /\ Back(s, m) > s => Back(s, m) <= Back(s, k) \/ Back(s, k) <= s
  BY ChannelAssumption, SMT DEF Back, SeqNo

\* Without a wrap the numbers grow with the frames.
LEMMA BackOrdered ==
  ASSUME NEW s \in SeqNo, NEW m \in 0..K, NEW k \in 0..m, NEW l \in 0..k,
         Back(s, m) <= s
  PROVE  Back(s, k) <= Back(s, l)
  BY ChannelAssumption, SMT DEF Back, SeqNo

(***************************************************************************)
(* The frames under way.  Counted back from the send counter, the frames   *)
(* in the k-buffer and those on the wire carry the same numbers and the    *)
(* same events; while a confirmation is worked through, the k-buffer is    *)
(* ahead by the frames that are still to be confirmed.                     *)
(***************************************************************************)
\* Frames a confirmation that is being worked through has still to remove.
Due(c) == Len(kbuf[c]) - Len(wire[c])

Numbered(c) ==
  /\ Len(kbuf[c]) <= K
  /\ \A i \in 1..Len(kbuf[c]) : kbuf[c][i].seq = Back(sendCount[c], Len(kbuf[c]) - i)

UnderWay(c) ==
  /\ Len(wire[c]) <= Len(kbuf[c])
  /\ vr[c] = Back(sendCount[c], Len(wire[c]))
  /\ \A i \in 1..Len(wire[c]) :
       /\ wire[c][i].ns = Back(sendCount[c], Len(wire[c]) - i + 1)
       /\ wire[c][i].id = kbuf[c][Due(c) + i].id

Confirming(c) ==
  IF pc[c] # "confirm" THEN Due(c) = 0
  ELSE /\ ack[c].n = vr[c]
       /\ \A i \in 1..Due(c) :
            /\ ack[c].overflow \/ ack[c].n >= kbuf[c][i].seq
            /\ kbuf[c][i].id \in delivered \cup {NoEvent}
       /\ IF Due(c) = 0 THEN kbuf[c] = <<>> \/ ack[c].n = ack[c].oldestValid
                        ELSE ack[c].n # ack[c].oldestValid

Outstanding(c) == Numbered(c) /\ UnderWay(c) /\ Confirming(c)

FramesOutstanding ==
  /\ \A c \in Conn : pc[c] = "confirm" => running[c]
  /\ \A c \in Conn : Live(c) /\ running[c] => Outstanding(c)

\* The types of one connection's buffers, at hand for the steps below.
LEMMA ConnTypes ==
  ASSUME TypeOK, NEW c \in Conn
  PROVE  /\ kbuf[c] \in Seq(SentFrame) /\ Len(kbuf[c]) \in Nat
         /\ DOMAIN kbuf[c] = 1..Len(kbuf[c])
         /\ \A i \in 1..Len(kbuf[c]) : kbuf[c][i] \in SentFrame
         /\ wire[c] \in Seq(Frame) /\ Len(wire[c]) \in Nat
         /\ DOMAIN wire[c] = 1..Len(wire[c])
         /\ \A i \in 1..Len(wire[c]) : wire[c][i] \in Frame
         /\ sendCount[c] \in SeqNo /\ vr[c] \in SeqNo /\ ack[c] \in AckLocals
         /\ pc[c] \in Place /\ running[c] \in BOOLEAN
<1>1. kbuf[c] \in Seq(SentFrame) /\ wire[c] \in Seq(Frame)
  BY DEF TypeOK
<1>2. /\ sendCount[c] \in SeqNo /\ vr[c] \in SeqNo /\ ack[c] \in AckLocals
      /\ pc[c] \in Place /\ running[c] \in BOOLEAN
  BY DEF TypeOK
<1> QED BY <1>1, <1>2, SeqElements

\* A confirmation of frames that are under way passes the range check.
LEMMA LegalAck ==
  ASSUME TypeOK, NEW c \in Conn, Numbered(c), UnderWay(c), Due(c) = 0,
         NEW j \in 0..Len(wire[c])
  PROVE  /\ SeqNoIsValid(c, PeerNumber(c, j))
         /\ PeerNumber(c, j) = Back(sendCount[c], Len(wire[c]) - j)
<1> DEFINE s == sendCount[c]
           L == Len(kbuf[c])
           n == PeerNumber(c, j)
<1>1. /\ s \in SeqNo /\ L \in Nat /\ L = Len(wire[c]) /\ L \in 0..K /\ j \in 0..L
      /\ kbuf[c] = <<>> <=> L = 0
  <2>1. L \in Nat /\ Len(wire[c]) \in Nat /\ s \in SeqNo /\ kbuf[c] \in Seq(SentFrame)
    BY ConnTypes
  <2>2. L = Len(wire[c])
    BY <2>1 DEF Due
  <2> QED BY <2>1, <2>2, ChannelAssumption DEF Numbered
<1>2. n = Back(s, L - j)
  <2>1. CASE j = 0
    BY <1>1, <2>1 DEF PeerNumber, UnderWay
  <2>2. CASE j # 0
    <3>1. j \in 1..L /\ L - j + 1 \in 1..K /\ (L - j + 1) - 1 = L - j
      BY <1>1, <2>2, ChannelAssumption
    <3>2. wire[c][j].ns = Back(s, L - j + 1)
      BY <1>1, <3>1 DEF UnderWay
    <3>3. NextSeq(Back(s, L - j + 1)) = Back(s, L - j)
      BY <1>1, <3>1, BackNext
    <3> QED BY <2>2, <3>2, <3>3 DEF PeerNumber
  <2> QED BY <2>1, <2>2
<1>3. CASE L = 0
  <2>1. n = sendCount[c]
    BY <1>1, <1>2, <1>3, BackZero
  <2> QED BY <1>1, <1>2, <1>3, <2>1 DEF SeqNoIsValid
<1>4. CASE L # 0
  <2>1. L - 1 \in 0..K /\ L \in 1..K /\ L \in 1..L /\ 1 \in 1..L
    BY <1>1, <1>4, ChannelAssumption
  <2>2. Oldest(c).seq = Back(s, L - 1)
    BY <2>1 DEF Numbered, Oldest
  <2>3. Newest(c).seq = s
    <3>1. L - L = 0
      BY <1>1
    <3>2. kbuf[c][L].seq = Back(s, L - L)
      BY <2>1 DEF Numbered
    <3> QED BY <1>1, <3>1, <3>2, BackZero DEF Newest
  <2>4. CASE j = 0
    <3>1. n = Back(s, L)
      BY <1>1, <1>2, <2>4
    <3>2. PrevSeq(Back(s, L - 1)) = Back(s, L)
      BY <1>1, <2>1, BackPrev
    <3>3. n = OldestValid(c)
      BY <1>1, <1>4, <2>2, <3>1, <3>2 DEF OldestValid
    <3> QED BY <1>1, <1>2, <1>4, <3>3 DEF SeqNoIsValid
  <2>5. CASE j # 0
    <3>1. L - j \in 0..(L - 1)
      BY <1>1, <2>5
    <3>2. /\ Back(s, L - 1) <= s => Back(s, L - 1) <= n /\ n <= s
          /\ Back(s, L - 1) > s => Back(s, L - 1) <= n \/ n <= s
      BY <1>1, <1>2, <2>1, <3>1, BackBetween
    <3>3. Back(s, L - 1) \in Int /\ s \in Int
      BY <1>1, <2>1, BackType, ChannelAssumption DEF SeqNo
    <3>4. Overflow(c) <=> Back(s, L - 1) > s
      BY <1>1, <1>4, <2>2, <2>3 DEF Overflow
    <3>5. kbuf[c] # <<>>
      BY <1>1, <1>4
    <3>6. \/ ~Overflow(c) /\ Back(s, L - 1) <= n /\ n <= s
          \/ Overflow(c) /\ (Back(s, L - 1) <= n \/ n <= s)
      BY <3>2, <3>3, <3>4
    <3>7. SeqNoIsValid(c, n)
      BY <2>2, <2>3, <3>5, <3>6 DEF SeqNoIsValid
    <3> QED BY <1>1, <1>2, <3>7
  <2> QED BY <2>4, <2>5
<1> QED BY <1>3, <1>4

\* A step that leaves the frames of a connection alone.
LEMMA OutstandingKept ==
  ASSUME NEW d \in Conn, Outstanding(d),
         UNCHANGED <<kbuf[d], wire[d], sendCount[d], vr[d], ack[d]>>,
         pc[d] = "confirm" <=> pc'[d] = "confirm", delivered \subseteq delivered'
  PROVE  Outstanding(d)'
<1>1. Numbered(d)' /\ UnderWay(d)' /\ Due(d)' = Due(d)
  BY DEF Outstanding, Numbered, UnderWay, Due, Back
<1>2. Confirming(d)'
  BY <1>1 DEF Outstanding, Confirming
<1> QED BY <1>1, <1>2 DEF Outstanding

\* A frame that is sent joins the k-buffer and the wire.
LEMMA SendFrameOutstanding ==
  ASSUME TypeOK, NEW c \in Conn, NEW id \in EventId \cup {NoEvent},
         SendFrame(c, id), ~WindowFull(c), Outstanding(c), running'[c],
         UNCHANGED vr, pc[c] # "confirm", pc'[c] # "confirm"
  PROVE  Outstanding(c)'
<1> DEFINE s == sendCount[c]
           f == [seq |-> NextSeq(s), id |-> id]
           g == [ns |-> s, id |-> id]
<1>0. PICK L \in Nat : L = Len(kbuf[c])
  BY ConnTypes
<1>1. /\ kbuf \in [Conn -> Seq(SentFrame)] /\ wire \in [Conn -> Seq(Frame)]
      /\ running \in [Conn -> BOOLEAN] /\ sendCount \in [Conn -> SeqNo]
  BY DEF TypeOK
<1>2. /\ kbuf[c] \in Seq(SentFrame) /\ wire[c] \in Seq(Frame)
      /\ L \in Nat /\ s \in SeqNo /\ Len(wire[c]) = L
      /\ NextSeq(s) \in SeqNo
  BY <1>0, ConnTypes, NextSeqType DEF Outstanding, Confirming, Due
<1>3. L < K /\ L + 1 \in 0..K /\ L \in 0..K
  BY <1>0, <1>2, ChannelAssumption DEF WindowFull
<1>4. /\ f \in SentFrame /\ f.seq = NextSeq(s) /\ f.id = id
      /\ g \in Frame /\ g.ns = s /\ g.id = id
  BY <1>0, <1>2 DEF SentFrame, Frame
<1>5. /\ sendCount'[c] = NextSeq(s)
      /\ kbuf'[c] = Append(kbuf[c], f)
      /\ wire'[c] = Append(wire[c], g)
      /\ vr'[c] = vr[c]
  BY <1>1 DEF SendFrame
<1>6. /\ Len(kbuf'[c]) = L + 1 /\ Len(wire'[c]) = L + 1
      /\ \A i \in 1..L : kbuf'[c][i] = kbuf[c][i] /\ wire'[c][i] = wire[c][i]
      /\ kbuf'[c][L + 1] = f /\ wire'[c][L + 1] = g
  <2> HIDE DEF f, g
  <2> QED BY <1>0, <1>2, <1>4, <1>5
<1>7. Numbered(c)'
  <2> SUFFICES ASSUME NEW i \in 1..(L + 1)
               PROVE  kbuf'[c][i].seq = Back(NextSeq(s), L + 1 - i)
    BY <1>0, <1>2, <1>3, <1>5, <1>6, ChannelAssumption DEF Numbered, Back
  <2>1. CASE i \in 1..L
    <3>1. kbuf'[c][i].seq = Back(s, L - i)
      BY <1>0, <1>6, <2>1 DEF Outstanding, Numbered
    <3>2. L - i \in 0..K /\ L + 1 - i = (L - i) + 1
      BY <1>0, <1>2, <1>3, <2>1, ChannelAssumption
    <3> QED BY <1>0, <1>2, <3>1, <3>2, BackShift
  <2>2. CASE i = L + 1
    <3>1. L + 1 - i = 0
      BY <1>0, <1>2, <2>2
    <3> QED BY <1>0, <1>2, <1>4, <1>6, <2>2, <3>1, BackZero
  <2> QED BY <1>0, <1>2, <2>1, <2>2
<1>8. UnderWay(c)'
  <2>1. vr'[c] = Back(NextSeq(s), L + 1)
    BY <1>0, <1>2, <1>3, <1>5, BackShift DEF Outstanding, UnderWay
  <2>2. ASSUME NEW i \in 1..(L + 1)
        PROVE  /\ wire'[c][i].ns = Back(NextSeq(s), L + 1 - i + 1)
               /\ wire'[c][i].id = kbuf'[c][i].id
    <3>1. CASE i \in 1..L
      <4>1. /\ wire[c][i].ns = Back(s, L - i + 1)
            /\ wire[c][i].id = kbuf[c][Due(c) + i].id
        BY <1>0, <1>2, <3>1 DEF Outstanding, UnderWay
      <4>2. L - i + 1 \in 0..K /\ L + 1 - i + 1 = (L - i + 1) + 1 /\ Due(c) + i = i
        BY <1>0, <1>2, <1>3, <3>1, ChannelAssumption DEF Due
      <4> QED BY <1>0, <1>2, <1>6, <3>1, <4>1, <4>2, BackShift
    <3>2. CASE i = L + 1
      <4>1. L + 1 - i + 1 = 0 + 1 /\ 0 \in 0..K
        BY <1>0, <1>2, <3>2, ChannelAssumption
      <4>2. Back(NextSeq(s), 0 + 1) = Back(s, 0)
        BY <1>0, <1>2, <4>1, BackShift
      <4> QED BY <1>0, <1>2, <1>4, <1>6, <3>2, <4>1, <4>2, BackZero
    <3> QED BY <1>0, <1>2, <3>1, <3>2
  <2>4. \A i \in 1..(L + 1) : (L + 1) - (L + 1) + i = i
    BY <1>0, <1>2
  <2> SUFFICES /\ Len(wire'[c]) <= Len(kbuf'[c])
               /\ vr'[c] = Back(sendCount'[c], Len(wire'[c]))
               /\ \A i \in 1..Len(wire'[c]) :
                    /\ wire'[c][i].ns = Back(sendCount'[c], Len(wire'[c]) - i + 1)
                    /\ wire'[c][i].id
                         = kbuf'[c][Len(kbuf'[c]) - Len(wire'[c]) + i].id
    BY DEF UnderWay, Due, Back
  <2>5. Len(wire'[c]) <= Len(kbuf'[c]) /\ vr'[c] = Back(sendCount'[c], Len(wire'[c]))
    BY <1>0, <1>2, <1>5, <1>6, <2>1
  <2>6. ASSUME NEW i \in 1..Len(wire'[c])
        PROVE  /\ wire'[c][i].ns = Back(sendCount'[c], Len(wire'[c]) - i + 1)
               /\ wire'[c][i].id = kbuf'[c][Len(kbuf'[c]) - Len(wire'[c]) + i].id
    <3>1. i \in 1..(L + 1)
      BY <1>6
    <3>2. wire'[c][i].ns = Back(NextSeq(s), L + 1 - i + 1)
      BY <2>2, <3>1
    <3>3. wire'[c][i].id = kbuf'[c][i].id
      BY <2>2, <3>1
    <3>4. Len(kbuf'[c]) - Len(wire'[c]) + i = i
      BY <1>6, <2>4, <3>1
    <3>5. Len(wire'[c]) - i + 1 = L + 1 - i + 1
      BY <1>6, <3>1
    <3>6. wire'[c][i].ns = Back(sendCount'[c], Len(wire'[c]) - i + 1)
      BY <1>5, <3>2, <3>5
    <3>7. wire'[c][i].id = kbuf'[c][Len(kbuf'[c]) - Len(wire'[c]) + i].id
      BY <3>3, <3>4
    <3> QED BY <3>6, <3>7
  <2> QED BY <2>5, <2>6
<1>9. Due(c)' = 0
  BY <1>0, <1>2, <1>6 DEF Due
<1> QED BY <1>7, <1>8, <1>9 DEF Outstanding, Confirming

\* A confirmation that passed the range check covers exactly the frames that left
\* the wire with it.
LEMMA RecvAckOutstanding ==
  ASSUME TypeOK, NEW c \in Conn, RecvAck(c), Outstanding(c), running'[c]
  PROVE  pc'[c] = "confirm" /\ Outstanding(c)'
<1> DEFINE s == sendCount[c]
           L == Len(kbuf[c])
<1>1. PICK j \in 0..Len(wire[c]), kind \in {"S", "I"} :
        LET n == PeerNumber(c, j)
        IN  /\ wire' = [wire EXCEPT ![c] = SubSeq(@, j + 1, Len(@))]
            /\ vr' = [vr EXCEPT ![c] = n]
            /\ delivered' = delivered \cup
                 ({wire[c][i].id : i \in 1..j} \ {NoEvent})
            /\ IF (kind = "S" /\ ~active[c]) \/ ~SeqNoIsValid(c, n)
               THEN /\ running' = [running EXCEPT ![c] = FALSE]
                    /\ Goto(c, "check")
                    /\ UNCHANGED ack
               ELSE /\ ack' = [ack EXCEPT ![c] =
                                 [n |-> n, overflow |-> Overflow(c),
                                  oldestValid |-> OldestValid(c), kind |-> kind]]
                    /\ Goto(c, "confirm")
                    /\ UNCHANGED running
  BY DEF RecvAck
<1> DEFINE n == PeerNumber(c, j)
<1>2. /\ kbuf[c] \in Seq(SentFrame) /\ wire[c] \in Seq(Frame)
      /\ s \in SeqNo /\ L \in Nat /\ L <= K /\ L \in 0..K
      /\ Due(c) = 0 /\ L = Len(wire[c]) /\ j \in 0..L
      /\ pc[c] = "recv" /\ UNCHANGED <<kbuf, sendCount>>
  <2>1. Due(c) = 0 /\ L <= K /\ pc[c] = "recv" /\ UNCHANGED <<kbuf, sendCount>>
    BY DEF Outstanding, Numbered, Confirming, RecvAck
  <2>2. kbuf[c] \in Seq(SentFrame) /\ wire[c] \in Seq(Frame) /\ s \in SeqNo
    BY ConnTypes
  <2> QED BY <2>1, <2>2, ChannelAssumption DEF Due
<1>3. /\ wire \in [Conn -> Seq(Frame)] /\ vr \in [Conn -> SeqNo]
      /\ running \in [Conn -> BOOLEAN] /\ pc \in [Conn -> Place]
      /\ ack \in [Conn -> AckLocals]
  BY DEF TypeOK
<1>4. /\ wire'[c] = SubSeq(wire[c], j + 1, L)
      /\ vr'[c] = n
      /\ pc'[c] = "confirm"
      /\ ack'[c].n = n /\ ack'[c].overflow = Overflow(c)
      /\ ack'[c].oldestValid = OldestValid(c)
  BY <1>1, <1>2, <1>3 DEF Goto
<1>5. /\ Len(wire'[c]) = L - j
      /\ \A i \in 1..(L - j) : wire'[c][i] = wire[c][j + i]
      /\ Due(c)' = j
  <2>1. Len(wire'[c]) = L - j /\ \A i \in 1..(L - j) : wire'[c][i] = wire[c][j + i]
    BY <1>2, <1>4
  <2> QED BY <1>2, <2>1 DEF Due
<1>6. n = Back(s, L - j)
  BY <1>2, LegalAck DEF Outstanding
<1>7. Numbered(c)'
  BY <1>2 DEF Outstanding, Numbered, Back
<1>8. UnderWay(c)'
  <2>1. ASSUME NEW i \in 1..(L - j)
        PROVE  /\ wire'[c][i].ns = Back(s, (L - j) - i + 1)
               /\ wire'[c][i].id = kbuf[c][j + i].id
    <3>1. /\ j + i \in 1..L /\ L - (j + i) + 1 = (L - j) - i + 1
          /\ 0 + (j + i) = j + i
      BY <1>2
    <3>2. /\ wire[c][j + i].ns = Back(s, L - (j + i) + 1)
          /\ wire[c][j + i].id = kbuf[c][Due(c) + (j + i)].id
      BY <1>2, <3>1 DEF Outstanding, UnderWay
    <3> QED BY <1>2, <1>5, <3>1, <3>2
  <2>2. L - j <= L
    BY <1>2
  <2> QED BY <1>2, <1>4, <1>5, <1>6, <2>1, <2>2, ZenonT(40) DEF UnderWay, Due, Back
<1>9. ASSUME NEW i \in 1..j
      PROVE  /\ Overflow(c) \/ n >= kbuf[c][i].seq
             /\ kbuf[c][i].id \in delivered' \cup {NoEvent}
  <2>1. i \in 1..L /\ L - j \in 0..(L - 1) /\ L - i \in 0..(L - 1)
        /\ L - j \in 0..(L - i) /\ L - 1 \in 0..K /\ 1 \in 1..L /\ L \in 1..L
        /\ kbuf[c] # <<>>
    BY <1>2, ChannelAssumption
  <2>2. kbuf[c][i].seq = Back(s, L - i) /\ kbuf[c][1].seq = Back(s, L - 1)
        /\ kbuf[c][L].seq = Back(s, L - L)
    BY <2>1 DEF Outstanding, Numbered
  <2>3. kbuf[c][L].seq = s
    <3>1. L - L = 0
      BY <1>2
    <3> QED BY <1>2, <2>2, <3>1, BackZero
  <2>4. ~Overflow(c) => Back(s, L - 1) <= s
    <3>1. Back(s, L - 1) \in Int /\ s \in Int
      BY <1>2, <2>1, BackType, SeqNoInt
    <3> QED BY <2>1, <2>2, <2>3, <3>1 DEF Overflow, Oldest, Newest
  <2>5. ~Overflow(c) => n >= kbuf[c][i].seq
    <3>1. Back(s, L - 1) <= s => Back(s, L - i) <= Back(s, L - j)
      BY <1>2, <2>1, BackOrdered
    <3>2. Back(s, L - i) \in Int /\ Back(s, L - j) \in Int
      <4>1. L - i \in 0..K /\ L - j \in 0..K
        BY <1>2, <2>1, ChannelAssumption
      <4> QED BY <1>2, <4>1, BackType, SeqNoInt
    <3> QED BY <1>6, <2>2, <2>4, <3>1, <3>2
  <2>6. wire[c][i].id = kbuf[c][i].id
    <3>1. 0 + i = i
      BY <2>1
    <3>2. wire[c][i].id = kbuf[c][Due(c) + i].id
      BY <1>2, <2>1 DEF Outstanding, UnderWay
    <3> QED BY <1>2, <3>1, <3>2
  <2> QED BY <1>1, <2>5, <2>6
<1>10. IF j = 0 THEN kbuf[c] = <<>> \/ n = OldestValid(c) ELSE n # OldestValid(c)
  <2>1. CASE L = 0
    BY <1>2, <2>1
  <2>2. CASE L # 0
    <3>1. L - 1 \in 0..K /\ L \in 1..K /\ 1 \in 1..L /\ kbuf[c] # <<>> /\ L - j \in 0..K
      BY <1>2, <2>2, ChannelAssumption
    <3>2. kbuf[c][1].seq = Back(s, L - 1)
      BY <3>1 DEF Outstanding, Numbered
    <3>3. OldestValid(c) = Back(s, L)
      BY <1>2, <3>1, <3>2, BackPrev DEF OldestValid, Oldest
    <3>4. n = OldestValid(c) => L - j = L
      BY <1>2, <1>6, <3>1, <3>3, BackInjective
    <3>5. j = 0 => n = OldestValid(c)
      BY <1>2, <1>6, <3>3
    <3> QED BY <1>2, <3>4, <3>5
  <2> QED BY <2>1, <2>2
<1>11. Confirming(c)'
  BY <1>2, <1>4, <1>5, <1>9, <1>10 DEF Confirming
<1> QED BY <1>4, <1>7, <1>8, <1>11 DEF Outstanding

\* One round of the loop of checkSequenceNumber confirms a frame that left the
\* wire; the loop ends when the last of them is confirmed.
LEMMA ConfirmNextOutstanding ==
  ASSUME TypeOK, NEW c \in Conn, ConfirmNext(c), Outstanding(c)
  PROVE  /\ Oldest(c).id \in delivered \cup {NoEvent}
         /\ Outstanding(c)'
<1> DEFINE s == sendCount[c]
<1>0. PICK L \in Nat, W \in Nat : L = Len(kbuf[c]) /\ W = Len(wire[c])
  BY ConnTypes
<1>1. /\ kbuf \in [Conn -> Seq(SentFrame)] /\ pc \in [Conn -> Place]
      /\ ack \in [Conn -> AckLocals]
  BY DEF TypeOK
<1>2. s \in SeqNo
  BY ConnTypes
<1>3. /\ pc[c] = "confirm" /\ kbuf[c] # <<>> /\ ack[c].n # ack[c].oldestValid
      /\ kbuf'[c] = Tail(kbuf[c])
      /\ UNCHANGED <<sendCount, wire, vr, delivered>>
  BY <1>1 DEF ConfirmNext, Covered, peerVars
<1>4. L <= K /\ W <= L /\ Due(c) = L - W /\ L # W
  <2>1. Due(c) # 0
    BY <1>3 DEF Outstanding, Confirming
  <2> QED BY <1>0, <2>1 DEF Outstanding, Numbered, UnderWay, Due
<1>5. /\ L \in 1..K /\ 1 \in 1..L /\ 1 \in 1..(L - W) /\ L - 1 \in 0..K /\ W \in 0..K
      /\ L - W \in 1..L
  <2>1. L \in 1..K /\ 1 \in 1..L /\ L - 1 \in 0..K
    BY <1>2, <1>4, ChannelAssumption
  <2>2. W \in 0..K
    BY <1>2, <1>4, ChannelAssumption
  <2>3. 1 \in 1..(L - W)
    BY <1>4
  <2>4. L - W \in 1..L
    BY <1>4
  <2> QED BY <2>1, <2>2, <2>3, <2>4
<1>6. /\ Len(kbuf'[c]) = L - 1
      /\ \A i \in 1..(L - 1) : kbuf'[c][i] = kbuf[c][i + 1]
  BY <1>0, <1>3, ConnTypes
<1>7. Due(c)' = (L - W) - 1
  BY <1>0, <1>3, <1>6 DEF Due
<1>8. Oldest(c).id \in delivered \cup {NoEvent}
  BY <1>3, <1>4, <1>5 DEF Outstanding, Confirming, Oldest
<1>9. Numbered(c)'
  <2>1. ASSUME NEW i \in 1..(L - 1)
        PROVE  kbuf'[c][i].seq = Back(s, (L - 1) - i)
    <3>1. i + 1 \in 1..L /\ L - (i + 1) = (L - 1) - i
      BY <1>2
    <3>2. kbuf[c][i + 1].seq = Back(s, L - (i + 1))
      BY <1>0, <3>1 DEF Outstanding, Numbered
    <3> QED BY <1>6, <3>1, <3>2
  <2>2. L - 1 <= K
    BY <1>5, ChannelAssumption
  <2> QED BY <1>0, <1>3, <1>6, <2>1, <2>2 DEF Numbered, Back
<1>10. UnderWay(c)'
  <2>1. ASSUME NEW i \in 1..W
        PROVE  wire[c][i].id = kbuf'[c][(L - W - 1) + i].id
    <3>1. (L - W - 1) + i \in 1..(L - 1)
      BY <1>4
    <3>a. ((L - W - 1) + i) + 1 = (L - W) + i
      BY <1>2
    <3>2. wire[c][i].id = kbuf[c][Due(c) + i].id
      BY <1>0 DEF Outstanding, UnderWay
    <3> QED BY <1>4, <1>6, <3>1, <3>a, <3>2
  <2>2. W <= L - 1
    BY <1>4
  <2>3. /\ vr[c] = Back(s, W)
        /\ \A i \in 1..W : wire[c][i].ns = Back(s, W - i + 1)
    BY <1>0 DEF Outstanding, UnderWay
  <2> QED BY <1>0, <1>3, <1>6, <1>7, <2>1, <2>2, <2>3 DEF UnderWay, Back
<1>11. Oldest(c).seq = Back(s, L - 1) /\ ack[c].n = Back(s, W)
  BY <1>0, <1>3, <1>5 DEF Outstanding, Numbered, UnderWay, Confirming, Oldest
<1>12. Oldest(c).seq = ack[c].n <=> L - W = 1
  <2>1. Back(s, L - 1) = Back(s, W) => L - 1 = W
    BY <1>2, <1>5, BackInjective
  <2>2. L - 1 = W <=> L - W = 1
    BY <1>4
  <2> QED BY <1>11, <2>1, <2>2
<1>13. L = 1 => L - W = 1
  BY <1>2, <1>4, <1>5
<1>14. CASE L - W = 1
  <2>1. pc'[c] # "confirm"
    BY <1>1, <1>12, <1>14 DEF ConfirmNext, Goto, AfterAck
  <2> QED BY <1>7, <1>9, <1>10, <1>8, <1>14, <2>1 DEF Outstanding, Confirming
<1>15. CASE L - W # 1
  <2>1. pc' = pc /\ ack' = ack
    BY <1>0, <1>12, <1>13, <1>15 DEF ConfirmNext
  <2>2. ack'[c].n = vr'[c]
    BY <1>3, <2>1 DEF Outstanding, Confirming
  <2>3. ASSUME NEW i \in 1..(L - W - 1)
        PROVE  /\ ack[c].overflow \/ ack[c].n >= kbuf'[c][i].seq
               /\ kbuf'[c][i].id \in delivered \cup {NoEvent}
    <3>1. i + 1 \in 1..(L - W)
      BY <1>2
    <3>2. i \in 1..(L - 1)
      BY <1>4
    <3> QED BY <1>3, <1>4, <1>6, <3>1, <3>2 DEF Outstanding, Confirming
  <2>4. Due(c)' # 0
    BY <1>2, <1>5, <1>7, <1>15
  <2>5. Confirming(c)'
    BY <1>3, <1>7, <2>1, <2>2, <2>3, <2>4 DEF Confirming
  <2> QED BY <1>8, <1>9, <1>10, <2>5 DEF Outstanding
<1> QED BY <1>14, <1>15

\* The loop of checkSequenceNumber ends with nothing left to confirm.
LEMMA ConfirmStopDone ==
  ASSUME TypeOK, NEW c \in Conn, ConfirmStop(c), Outstanding(c)
  PROVE  Due(c) = 0
<1> SUFFICES ASSUME Due(c) # 0 PROVE FALSE
  OBVIOUS
<1>1. PICK L \in Nat, W \in Nat : L = Len(kbuf[c]) /\ W = Len(wire[c])
  BY ConnTypes
<1>2. pc[c] = "confirm" /\ ~Covered(c)
  BY DEF ConfirmStop
<1>3. Due(c) = L - W /\ W <= L
  BY <1>1 DEF Outstanding, UnderWay, Due
<1>4. 1 \in 1..(L - W) /\ L # 0
  BY <1>3
<1>5. /\ ack[c].overflow \/ ack[c].n >= kbuf[c][1].seq
      /\ ack[c].n # ack[c].oldestValid
  BY <1>2, <1>3, <1>4 DEF Outstanding, Confirming
<1>6. kbuf[c] # <<>>
  BY <1>1, <1>4, ConnTypes
<1> QED BY <1>2, <1>5, <1>6 DEF Covered, Oldest

\* Every step keeps what is outstanding on a running connection in order.
LEMMA FramesStep ==
  TypeOK /\ FramesOutstanding /\ [Next]_vars => FramesOutstanding'
<1> SUFFICES ASSUME TypeOK, FramesOutstanding, [Next]_vars, NEW d \in Conn
             PROVE  /\ pc'[d] = "confirm" => running'[d]
                    /\ Live(d)' /\ running'[d] => Outstanding(d)'
  BY DEF FramesOutstanding
<1> DEFINE Goal == /\ pc'[d] = "confirm" => running'[d]
                   /\ Live(d)' /\ running'[d] => Outstanding(d)'
<1> USE DEF queueVars, peerVars
<1>0. /\ pc \in [Conn -> Place] /\ running \in [Conn -> BOOLEAN]
      /\ kbuf \in [Conn -> Seq(SentFrame)] /\ sendCount \in [Conn -> SeqNo]
      /\ wire \in [Conn -> Seq(Frame)] /\ vr \in [Conn -> SeqNo]
      /\ ack \in [Conn -> AckLocals]
  BY DEF TypeOK
<1>1. ASSUME UNCHANGED <<kbuf[d], wire[d], sendCount[d], vr[d], ack[d]>>,
             pc[d] = "confirm" <=> pc'[d] = "confirm", delivered \subseteq delivered',
             pc'[d] = "confirm" => running'[d] = running[d],
             Live(d)' /\ running'[d] => Live(d) /\ running[d]
      PROVE  Goal
  BY <1>1, OutstandingKept DEF FramesOutstanding
<1>2. CASE UNCHANGED vars
  BY <1>1, <1>2 DEF vars, Live
<1>3. CASE Enqueue
  BY <1>1, <1>3 DEF Enqueue, Live
<1>4. ASSUME NEW c \in Conn, Accept(c) PROVE Goal
  <2>1. CASE c = d
    <3>1. /\ kbuf'[d] = <<>> /\ wire'[d] = <<>> /\ sendCount'[d] = 0 /\ vr'[d] = 0
          /\ pc'[d] = "recv"
      BY <1>0, <1>4, <2>1 DEF Accept, Goto
    <3>2. Numbered(d)'
      BY <3>1, ChannelAssumption DEF Numbered
    <3>3. Len(wire'[d]) = 0 /\ Len(kbuf'[d]) = 0 /\ vr'[d] = Back(sendCount'[d], 0)
      BY <3>1 DEF Back
    <3>4. UnderWay(d)'
      BY <3>3 DEF UnderWay, Back
    <3>5. Due(d)' = 0
      BY <3>3 DEF Due
    <3> QED BY <3>1, <3>2, <3>4, <3>5 DEF Outstanding, Confirming
  <2>2. CASE c # d
    BY <1>0, <1>1, <1>4, <2>2 DEF Accept, Goto, Live
  <2> QED BY <2>1, <2>2
<1>5. ASSUME NEW c \in Conn,
             Reap(c) \/ NoMessage(c) \/ Fail(c) \/ StartDt(c) \/ StopDt(c)
               \/ Activate(c) \/ Command(c) \/ Check(c) \/ Close(c)
      PROVE  Goal
  <2>1. UNCHANGED <<kbuf, sendCount, wire, vr, ack, delivered>>
    BY <1>5 DEF Reap, NoMessage, Fail, StartDt, StopDt, Activate, Command, Check, Close
  <2>2. /\ pc[d] = "confirm" <=> pc'[d] = "confirm"
        /\ pc'[d] = "confirm" => running'[d] = running[d]
        /\ Live(d)' /\ running'[d] => Live(d) /\ running[d]
    BY <1>0, <1>5 DEF Reap, NoMessage, Fail, StartDt, StopDt, Activate, Command, Check,
       Close, Goto, Live
  <2> QED BY <1>1, <2>1, <2>2
<1>6. ASSUME NEW c \in Conn, ConfirmStop(c) PROVE Goal
  <2>1. CASE c # d
    BY <1>0, <1>1, <1>6, <2>1 DEF ConfirmStop, Goto, Live
  <2>2. CASE c = d
    <3>1. /\ pc[d] = "confirm" /\ pc'[d] # "confirm" /\ Live(d)
          /\ UNCHANGED <<kbuf, wire, sendCount, vr, running>>
      BY <1>0, <1>6, <2>2 DEF ConfirmStop, Goto, AfterAck, Live
    <3>2. Outstanding(d)
      BY <3>1 DEF FramesOutstanding
    <3>3. Due(d) = 0
      BY <1>6, <2>2, <3>2, ConfirmStopDone
    <3>4. Numbered(d)' /\ UnderWay(d)' /\ Due(d)' = 0
      BY <3>1, <3>2, <3>3 DEF Outstanding, Numbered, UnderWay, Due, Back
    <3> QED BY <3>1, <3>4 DEF Outstanding, Confirming
  <2> QED BY <2>1, <2>2
<1>7. ASSUME NEW c \in Conn, RecvAck(c) PROVE Goal
  <2>1. CASE c # d
    BY <1>0, <1>1, <1>7, <2>1 DEF RecvAck, Goto, Live
  <2>2. CASE c = d
    <3>1. pc[d] = "recv" /\ running[d] /\ Live(d)
      BY <1>7, <2>2 DEF RecvAck, Live
    <3>2. pc'[d] = "confirm" => running'[d]
      BY <1>0, <1>7, <2>2, <3>1 DEF RecvAck, Goto
    <3>3. running'[d] => Outstanding(d)'
      BY <1>7, <2>2, <3>1, RecvAckOutstanding DEF FramesOutstanding
    <3> QED BY <3>2, <3>3
  <2> QED BY <2>1, <2>2
<1>8. ASSUME NEW c \in Conn, ConfirmNext(c) PROVE Goal
  <2>1. CASE c # d
    <3>1. pc'[d] = pc[d] /\ ack'[d] = ack[d] /\ kbuf'[d] = kbuf[d]
      BY <1>0, <1>8, <2>1 DEF ConfirmNext, Goto
    <3>2. UNCHANGED <<running, sendCount, wire, vr, delivered>>
      BY <1>8 DEF ConfirmNext
    <3> QED BY <1>1, <3>1, <3>2 DEF Live
  <2>2. CASE c = d
    <3>1. pc[d] = "confirm" /\ UNCHANGED running
      BY <1>8, <2>2 DEF ConfirmNext
    <3>2. running[d] /\ Outstanding(d)
      BY <3>1 DEF FramesOutstanding, Live
    <3> QED BY <1>8, <2>2, <3>1, <3>2, ConfirmNextOutstanding
  <2> QED BY <2>1, <2>2
<1>9. ASSUME NEW c \in Conn, Reply(c) \/ SendHigh(c) \/ SendLow(c) PROVE Goal
  <2>1. /\ Live(d)' => Live(d)
        /\ pc[d] = "confirm" <=> pc'[d] = "confirm"
        /\ UNCHANGED <<ack, vr, delivered>>
        /\ pc[c] # "confirm" /\ pc'[c] # "confirm" /\ Live(c)
    BY <1>0, <1>9 DEF Reply, SendHigh, SendLow, Goto, Live
  <2>2. CASE UNCHANGED <<running, sendCount, kbuf, wire>>
    BY <1>1, <2>1, <2>2
  <2>3. ASSUME NEW id \in EventId \cup {NoEvent}, SendFrame(c, id), ~WindowFull(c)
        PROVE  Goal
    <3>1. CASE c # d
      <4>1. UNCHANGED <<running[d], sendCount[d], kbuf[d], wire[d]>>
        BY <1>0, <2>3, <3>1 DEF SendFrame
      <4> QED BY <1>1, <2>1, <4>1
    <3>2. CASE c = d
      <4>1. running'[d] => running[d]
        BY <1>0, <2>3, <3>2 DEF SendFrame
      <4> QED BY <2>1, <2>3, <3>2, <4>1, SendFrameOutstanding DEF FramesOutstanding
    <3> QED BY <3>1, <3>2
  <2>4. CASE SendFrame(c, NoEvent) /\ ~WindowFull(c)
    BY <2>3, <2>4
  <2>5. ASSUME NEW i \in DOMAIN queue, SendFrame(c, queue[i].id), ~WindowFull(c)
        PROVE  Goal
    <3>1. queue[i] \in Entry
      BY <2>5, SeqElements DEF TypeOK
    <3> QED BY <2>3, <2>5, <3>1 DEF Entry
  <2> QED BY <1>9, <2>2, <2>4, <2>5 DEF Reply, SendHigh, SendLow
<1> QED
  BY <1>2, <1>3, <1>4, <1>5, <1>6, <1>7, <1>8, <1>9 DEF Next, ThreadStep

\* What is outstanding on a running connection: the frames of the k-buffer and of
\* the wire agree, up to those a confirmation has still to remove.
LEMMA FramesCorrect == Spec => []FramesOutstanding
<1>1. Init => FramesOutstanding
  BY DEF Init, FramesOutstanding, Live
<1> QED BY <1>1, TypeCorrect, FramesStep, PTL DEF Spec

\* Whatever a peer may confirm is accepted by the range check of
\* checkSequenceNumber, for every window and modulus: first, last and repeated
\* confirmations, with and without a wrap of the numbers.
THEOREM LegalAckCorrect == Spec => []LegalAckAccepted
<1>1. TypeOK /\ FramesOutstanding => LegalAckAccepted
  <2> SUFFICES ASSUME TypeOK, FramesOutstanding,
                      NEW c \in Conn, pc[c] = "recv", running[c],
                      NEW j \in 0..Len(wire[c])
               PROVE  SeqNoIsValid(c, PeerNumber(c, j))
    BY DEF LegalAckAccepted
  <2>1. Outstanding(c)
    BY DEF FramesOutstanding, Live
  <2>2. Numbered(c) /\ UnderWay(c) /\ Due(c) = 0
    BY <2>1 DEF Outstanding, Confirming
  <2> QED BY <2>2, LegalAck
<1> QED BY <1>1, TypeCorrect, FramesCorrect, PTL

(***************************************************************************)
(* The queue.  It holds the newest events in the order of their numbers,   *)
(* and no frame carries an event that does not exist yet.                  *)
(***************************************************************************)
QueueNumbered == \A i \in DOMAIN queue : queue[i].id = nextId - 1 - Len(queue) + i

FramesKnown ==
  \A c \in Conn : /\ \A i \in DOMAIN kbuf[c] : kbuf[c][i].id < nextId
                  /\ \A i \in DOMAIN wire[c] : wire[c][i].id < nextId

\* Entries after appending one, after dropping the first, and of a mapped queue.
LEMMA AppendElements ==
  ASSUME NEW S, NEW q \in Seq(S), NEW e \in S
  PROVE  /\ Append(q, e) \in Seq(S)
         /\ Len(Append(q, e)) = Len(q) + 1
         /\ DOMAIN Append(q, e) = 1..(Len(q) + 1)
         /\ \A i \in 1..Len(q) : Append(q, e)[i] = q[i]
         /\ Append(q, e)[Len(q) + 1] = e
  OBVIOUS

\* A queue without its first entry.
LEMMA TailElements ==
  ASSUME NEW S, NEW q \in Seq(S), q # <<>>
  PROVE  /\ Tail(q) \in Seq(S)
         /\ Len(q) \in Nat \ {0}
         /\ Len(Tail(q)) = Len(q) - 1
         /\ DOMAIN Tail(q) = 1..(Len(q) - 1)
         /\ \A i \in 1..(Len(q) - 1) : Tail(q)[i] = q[i + 1]
         /\ Head(q) = q[1]
  OBVIOUS

\* The length of a sequence given as a function.
LEMMA FunctionLength ==
  ASSUME NEW S, NEW n \in Nat, NEW f \in [1..n -> S]
  PROVE  Len(f) = n /\ DOMAIN f = 1..n
  OBVIOUS

\* What Enqueue makes of the queue: the new event comes last, the others stay
\* unless the queue is full and loses its first entry.
LEMMA EnqueueEntries ==
  ASSUME TypeOK, QueueNumbered, Enqueue
  PROVE  /\ QueueNumbered'
         /\ \E i \in DOMAIN queue' :
              queue'[i] = [id |-> nextId, state |-> "waiting"]
         /\ \A k \in DOMAIN queue :
              \/ \E i \in DOMAIN queue' : queue'[i] = queue[k]
              \/ k = 1 /\ Len(queue) = Cap /\ queue # <<>>
         /\ \A i \in DOMAIN queue' :
              \/ queue'[i] = [id |-> nextId, state |-> "waiting"]
              \/ \E k \in DOMAIN queue : queue'[i] = queue[k] /\ (Len(queue) = Cap => k # 1)
<1> DEFINE new == [id |-> nextId, state |-> "waiting"]
<1>1. /\ queue \in Seq(Entry) /\ nextId \in Nat /\ nextId' = nextId + 1
      /\ new \in Entry /\ new.id = nextId
  BY ChannelAssumption DEF TypeOK, Enqueue, Entry, EntryState, EventId
<1>2. PICK L \in Nat : L = Len(queue) /\ DOMAIN queue = 1..L
  BY <1>1, SeqElements
<1>3. \A i \in 1..L : queue[i].id = nextId - 1 - L + i
  BY <1>2 DEF QueueNumbered
<1> HIDE DEF new
<1>4. CASE L # Cap
  <2>1. queue' = Append(queue, new)
    BY <1>2, <1>4 DEF Enqueue, new
  <2>2. /\ Len(queue') = L + 1 /\ DOMAIN queue' = 1..(L + 1)
        /\ \A i \in 1..L : queue'[i] = queue[i]
        /\ queue'[L + 1] = new
    BY <1>1, <1>2, <2>1, AppendElements
  <2>3. \A i \in 1..(L + 1) : i \in 1..L \/ i = L + 1
    OBVIOUS
  <2>4. ASSUME NEW i \in 1..(L + 1) PROVE queue'[i].id = (nextId + 1) - 1 - (L + 1) + i
    BY <1>1, <1>3, <2>2, <2>3
  <2>5. QueueNumbered'
    BY <1>1, <2>2, <2>4 DEF QueueNumbered
  <2>6. L + 1 \in 1..(L + 1) /\ \A k \in 1..L : k \in 1..(L + 1)
    OBVIOUS
  <2> QED BY <1>2, <1>4, <2>2, <2>3, <2>5, <2>6 DEF new
<1>5. CASE L = Cap
  <2>1. queue # <<>> /\ L # 0
    BY <1>2, <1>5, ChannelAssumption
  <2>2. queue' = Append(Tail(queue), new)
    BY <1>2, <1>5 DEF Enqueue, new
  <2>3. /\ Tail(queue) \in Seq(Entry) /\ Len(Tail(queue)) = L - 1
        /\ \A i \in 1..(L - 1) : Tail(queue)[i] = queue[i + 1]
    BY <1>1, <1>2, <2>1, TailElements
  <2>4. /\ Len(queue') = (L - 1) + 1 /\ DOMAIN queue' = 1..((L - 1) + 1)
        /\ \A i \in 1..(L - 1) : queue'[i] = Tail(queue)[i]
        /\ queue'[(L - 1) + 1] = new
    BY <1>1, <2>2, <2>3, AppendElements
  <2>5. /\ Len(queue') = L /\ DOMAIN queue' = 1..L
        /\ \A i \in 1..(L - 1) : queue'[i] = queue[i + 1]
        /\ queue'[L] = new
    BY <2>3, <2>4
  <2>6. \A i \in 1..L : i \in 1..(L - 1) \/ i = L
    OBVIOUS
  <2>7. ASSUME NEW i \in 1..L PROVE queue'[i].id = (nextId + 1) - 1 - L + i
    <3>1. CASE i \in 1..(L - 1)
      <4>1. i + 1 \in 1..L
        BY <3>1
      <4>2. queue'[i].id = nextId - 1 - L + (i + 1)
        BY <1>3, <2>5, <3>1, <4>1
      <4> QED BY <1>1, <4>2
    <3>2. CASE i = L
      BY <1>1, <2>5, <3>2
    <3> QED BY <2>6, <3>1, <3>2
  <2>8. QueueNumbered'
    BY <1>1, <2>5, <2>7 DEF QueueNumbered
  <2>9. L \in 1..L
    BY <2>1
  <2>10. ASSUME NEW k \in 1..L, k # 1
         PROVE  \E i \in 1..L : queue'[i] = queue[k]
    <3>1. k - 1 \in 1..(L - 1) /\ k - 1 \in 1..L /\ (k - 1) + 1 = k
      BY <2>10
    <3> QED BY <2>5, <3>1
  <2>11. ASSUME NEW i \in 1..(L - 1)
         PROVE  \E k \in 1..L : queue'[i] = queue[k] /\ k # 1
    <3>1. i + 1 \in 1..L /\ i + 1 # 1
      OBVIOUS
    <3> QED BY <2>5, <3>1
  <2> QED BY <1>2, <1>5, <2>1, <2>5, <2>6, <2>8, <2>9, <2>10, <2>11 DEF new
<1> QED BY <1>4, <1>5

\* What a confirmation makes of the queue: the event is no longer held for
\* transmission, every other entry stays what it is.
LEMMA MarkConfirmedEntries ==
  ASSUME TypeOK, QueueNumbered, NEW id \in EventId,
         NEW q, q = MarkConfirmed(queue, id)
  PROVE  /\ \A i \in DOMAIN q : q[i].id = nextId - 1 - Len(q) + i
         /\ \A k \in DOMAIN queue :
              queue[k].id # id => \E i \in DOMAIN q : q[i] = queue[k]
         /\ \A i \in DOMAIN q : q[i].state # "confirmed" =>
              q[i].id # id /\ \E k \in DOMAIN queue : q[i] = queue[k]
<1>1. queue \in Seq(Entry) /\ nextId \in Nat /\ id \in Nat
  BY ChannelAssumption DEF TypeOK, EventId
<1>2. PICK L \in Nat : L = Len(queue) /\ DOMAIN queue = 1..L
  BY <1>1, SeqElements
<1>3. \A i \in 1..L : queue[i].id = nextId - 1 - L + i
  BY <1>2 DEF QueueNumbered
<1>4. CASE queue = <<>> \/ nextId - 1 - id >= Len(queue)
  <2>1. q = queue
    BY <1>4 DEF MarkConfirmed
  <2>2. ASSUME NEW i \in 1..L PROVE queue[i].id # id
    <3>1. nextId - 1 - id >= L
      BY <1>1, <1>2, <1>4
    <3>2. queue[i].id = nextId - 1 - L + i
      BY <1>3
    <3> QED BY <1>1, <3>1, <3>2
  <2> QED BY <1>2, <1>3, <2>1, <2>2
<1>5. CASE queue # <<>> /\ nextId - 1 - id < Len(queue) /\ Head(queue).id = id
  <2>1. q = Tail(queue)
    BY <1>1, <1>2, <1>5 DEF MarkConfirmed
  <2>2. /\ Len(q) = L - 1 /\ DOMAIN q = 1..(L - 1) /\ L # 0
        /\ \A i \in 1..(L - 1) : q[i] = queue[i + 1]
        /\ queue[1].id = id
    BY <1>1, <1>2, <1>5, <2>1, TailElements
  <2>3. id = nextId - 1 - L + 1
    <3>1. 1 \in 1..L
      BY <2>2
    <3> QED BY <1>3, <2>2, <3>1
  <2>4. ASSUME NEW i \in 1..(L - 1)
        PROVE  i + 1 \in 1..L /\ q[i].id = nextId - 1 - (L - 1) + i /\ q[i].id # id
    <3>1. i + 1 \in 1..L
      OBVIOUS
    <3>2. q[i].id = nextId - 1 - L + (i + 1)
      BY <1>3, <2>2, <3>1
    <3> QED BY <1>1, <2>3, <3>1, <3>2
  <2>5. ASSUME NEW k \in 1..L, queue[k].id # id
        PROVE  \E i \in 1..(L - 1) : q[i] = queue[k]
    <3>1. k # 1
      BY <2>2, <2>5
    <3>2. k - 1 \in 1..(L - 1) /\ (k - 1) + 1 = k
      BY <3>1
    <3> QED BY <2>2, <3>2
  <2>6. \A i \in 1..(L - 1) : \E k \in 1..L : q[i] = queue[k]
    BY <2>2, <2>4
  <2>7. \A i \in DOMAIN q : q[i].id = nextId - 1 - Len(q) + i
    <3> SUFFICES ASSUME NEW i \in DOMAIN q PROVE q[i].id = nextId - 1 - Len(q) + i
      OBVIOUS
    <3>1. q[i].id = nextId - 1 - (L - 1) + i
      BY <2>2, <2>4
    <3> QED BY <2>2, <3>1
  <2>8. \A i \in DOMAIN q : q[i].id # id
    BY <2>2, <2>4
  <2>9. \A k \in DOMAIN queue :
          queue[k].id # id => \E i \in DOMAIN q : q[i] = queue[k]
    BY <1>2, <2>2, <2>5
  <2>10. \A i \in DOMAIN q : \E k \in DOMAIN queue : q[i] = queue[k]
    BY <1>2, <2>2, <2>6
  <2> QED BY <2>7, <2>8, <2>9, <2>10
<1>6. CASE queue # <<>> /\ nextId - 1 - id < Len(queue) /\ Head(queue).id # id
  <2>1. q = [i \in DOMAIN queue |-> IF queue[i].id = id
                THEN [queue[i] EXCEPT !.state = "confirmed"] ELSE queue[i]]
    BY <1>1, <1>2, <1>6 DEF MarkConfirmed
  <2>2. \A i \in 1..L : queue[i] \in Entry
    BY <1>1, <1>2, SeqElements
  <2>3. \A e \in Entry : /\ [e EXCEPT !.state = "confirmed"] \in Entry
                         /\ [e EXCEPT !.state = "confirmed"].id = e.id
                         /\ [e EXCEPT !.state = "confirmed"].state = "confirmed"
    BY DEF Entry, EntryState
  <2>4. q \in [1..L -> Entry]
    BY <1>2, <2>1, <2>2, <2>3
  <2>5. Len(q) = L /\ DOMAIN q = 1..L
    BY <2>4, FunctionLength
  <2>6. \A i \in 1..L : /\ q[i].id = queue[i].id
                        /\ queue[i].id # id => q[i] = queue[i]
                        /\ queue[i].id = id => q[i].state = "confirmed"
    BY <1>2, <2>1, <2>2, <2>3
  <2> QED BY <1>2, <1>3, <2>5, <2>6
<1> QED BY <1>1, <1>2, <1>4, <1>5, <1>6

\* Sending marks one waiting entry, closing a connection unmarks those sent.
LEMMA MarkSentEntries ==
  ASSUME TypeOK, NEW i \in DOMAIN queue, queue' = [queue EXCEPT ![i].state = "sent"]
  PROVE  /\ Len(queue') = Len(queue) /\ DOMAIN queue' = DOMAIN queue
         /\ \A k \in DOMAIN queue : /\ queue'[k].id = queue[k].id
                                    /\ k # i => queue'[k] = queue[k]
         /\ queue'[i].state = "sent"
<1>1. PICK L \in Nat : L = Len(queue) /\ DOMAIN queue = 1..L
  BY SeqElements DEF TypeOK
<1>2. \A k \in 1..L : queue[k] \in Entry
  BY <1>1, SeqElements DEF TypeOK
<1>3. /\ [queue[i] EXCEPT !.state = "sent"] \in Entry
      /\ [queue[i] EXCEPT !.state = "sent"].id = queue[i].id
      /\ [queue[i] EXCEPT !.state = "sent"].state = "sent"
  BY <1>1, <1>2 DEF Entry, EntryState
<1>4. queue' \in [1..L -> Entry]
  BY <1>1, <1>2, <1>3
<1>5. Len(queue') = L /\ DOMAIN queue' = 1..L
  BY <1>4, FunctionLength
<1> QED BY <1>1, <1>2, <1>3, <1>5

\* Putting entries back changes no identifier, and none stays marked as sent.
LEMMA RequeuedEntries ==
  ASSUME TypeOK
  PROVE  /\ Len(Requeued(queue)) = Len(queue)
         /\ DOMAIN Requeued(queue) = DOMAIN queue
         /\ \A k \in DOMAIN queue :
              /\ Requeued(queue)[k].id = queue[k].id
              /\ Requeued(queue)[k].state # "sent"
              /\ queue[k].state = "confirmed" <=> Requeued(queue)[k].state = "confirmed"
<1>1. PICK L \in Nat : L = Len(queue) /\ DOMAIN queue = 1..L
  BY SeqElements DEF TypeOK
<1>2. \A k \in 1..L : queue[k] \in Entry
  BY <1>1, SeqElements DEF TypeOK
<1>3. \A e \in Entry : /\ [e EXCEPT !.state = "waiting"] \in Entry
                       /\ [e EXCEPT !.state = "waiting"].id = e.id
                       /\ [e EXCEPT !.state = "waiting"].state = "waiting"
  BY DEF Entry, EntryState
<1>4. Requeued(queue) \in [1..L -> Entry]
  BY <1>1, <1>2, <1>3 DEF Requeued
<1>5. Len(Requeued(queue)) = L /\ DOMAIN Requeued(queue) = 1..L
  BY <1>4, FunctionLength
<1> QED BY <1>1, <1>2, <1>3, <1>5 DEF Requeued

\* A frame that is sent, whether or not the write succeeds, is the last one in
\* the k-buffer; everything else stays where it was.
LEMMA SendFrameElements ==
  ASSUME TypeOK, NEW c \in Conn, NEW id \in EventId \cup {NoEvent}, SendFrame(c, id)
  PROVE  /\ \A d \in Conn : \A i \in DOMAIN kbuf[d] :
              i \in DOMAIN kbuf'[d] /\ kbuf'[d][i] = kbuf[d][i]
         /\ \A d \in Conn : \A i \in DOMAIN kbuf'[d] :
              \/ i \in DOMAIN kbuf[d] /\ kbuf'[d][i] = kbuf[d][i]
              \/ d = c /\ i = Len(kbuf[d]) + 1 /\ kbuf'[d][i].id = id
         /\ \A d \in Conn : \A i \in DOMAIN wire'[d] :
              \/ i \in DOMAIN wire[d] /\ wire'[d][i] = wire[d][i]
              \/ wire'[d][i].id = id
         /\ Len(kbuf[c]) + 1 \in DOMAIN kbuf'[c]
         /\ kbuf'[c][Len(kbuf[c]) + 1].id = id
<1>0. /\ kbuf \in [Conn -> Seq(SentFrame)] /\ wire \in [Conn -> Seq(Frame)]
      /\ sendCount[c] \in SeqNo /\ NextSeq(sendCount[c]) \in SeqNo
  BY NextSeqType DEF TypeOK
<1>1. PICK L \in Nat, W \in Nat :
        /\ L = Len(kbuf[c]) /\ DOMAIN kbuf[c] = 1..L
        /\ W = Len(wire[c]) /\ DOMAIN wire[c] = 1..W
  BY ConnTypes
<1>2. PICK e \in SentFrame : e.id = id /\ kbuf' = [kbuf EXCEPT ![c] = Append(@, e)]
  <2>1. /\ [seq |-> NextSeq(sendCount[c]), id |-> id] \in SentFrame
        /\ [seq |-> sendCount[c], id |-> id] \in SentFrame
    BY <1>0 DEF SentFrame
  <2> QED BY <2>1 DEF SendFrame
<1>3. /\ DOMAIN kbuf'[c] = 1..(L + 1)
      /\ \A i \in 1..L : kbuf'[c][i] = kbuf[c][i]
      /\ kbuf'[c][L + 1] = e
  <2>1. kbuf'[c] = Append(kbuf[c], e) /\ kbuf[c] \in Seq(SentFrame)
    BY <1>0, <1>2
  <2> QED BY <1>1, <2>1, AppendElements
<1>4. \A d \in Conn : d # c => kbuf'[d] = kbuf[d]
  BY <1>0, <1>2
<1>5. \A i \in 1..(L + 1) : i \in 1..L \/ i = L + 1
  OBVIOUS
<1>6. L + 1 \in 1..(L + 1) /\ \A i \in 1..L : i \in 1..(L + 1)
  OBVIOUS
<1>7. \A d \in Conn : \A i \in DOMAIN wire'[d] :
        \/ i \in DOMAIN wire[d] /\ wire'[d][i] = wire[d][i]
        \/ wire'[d][i].id = id
  <2>1. CASE wire' = wire
    BY <2>1
  <2>2. CASE wire' = [wire EXCEPT ![c] = Append(@, [ns |-> sendCount[c], id |-> id])]
    <3>1. PICK f \in Frame : f.id = id /\ wire' = [wire EXCEPT ![c] = Append(@, f)]
      BY <1>0, <2>2 DEF Frame
    <3>2. wire'[c] = Append(wire[c], f) /\ wire[c] \in Seq(Frame)
      BY <1>0, <3>1
    <3>3. /\ DOMAIN wire'[c] = 1..(W + 1)
          /\ \A i \in 1..W : wire'[c][i] = wire[c][i]
          /\ wire'[c][W + 1] = f
      BY <1>1, <3>2, AppendElements
    <3>4. \A i \in 1..(W + 1) : i \in 1..W \/ i = W + 1
      OBVIOUS
    <3>5. \A d \in Conn : d # c => wire'[d] = wire[d]
      BY <1>0, <3>1
    <3> QED BY <1>1, <3>1, <3>3, <3>4, <3>5
  <2> QED BY <2>1, <2>2 DEF SendFrame
<1>8. \A d \in Conn : \A i \in DOMAIN kbuf[d] :
        i \in DOMAIN kbuf'[d] /\ kbuf'[d][i] = kbuf[d][i]
  BY <1>1, <1>3, <1>4, <1>6
<1>9. \A d \in Conn : \A i \in DOMAIN kbuf'[d] :
        \/ i \in DOMAIN kbuf[d] /\ kbuf'[d][i] = kbuf[d][i]
        \/ d = c /\ i = Len(kbuf[d]) + 1 /\ kbuf'[d][i].id = id
  BY <1>1, <1>2, <1>3, <1>4, <1>5
<1>10. Len(kbuf[c]) + 1 \in DOMAIN kbuf'[c] /\ kbuf'[c][Len(kbuf[c]) + 1].id = id
  BY <1>1, <1>2, <1>3, <1>6
<1> QED BY <1>7, <1>8, <1>9, <1>10

\* Steps that touch neither the queue nor the k-buffers.
Quiet(c) ==
  \/ Reap(c) \/ NoMessage(c) \/ Fail(c) \/ StartDt(c) \/ StopDt(c) \/ Activate(c)
  \/ ConfirmStop(c) \/ Command(c) \/ Check(c)

\* Such a step touches neither queue nor k-buffer.
LEMMA QuietSteps ==
  ASSUME NEW c \in Conn, Quiet(c)
  PROVE  UNCHANGED <<queue, nextId, lost, kbuf, wire, delivered>>
  BY DEF Quiet, Reap, NoMessage, Fail, StartDt, StopDt, Activate, ConfirmStop, Command,
     Check, queueVars, peerVars

\* The ways a connection sends: a response, or the event at place i of the queue.
LEMMA SendingSteps ==
  ASSUME TypeOK, NEW c \in Conn, Reply(c) \/ SendHigh(c) \/ SendLow(c)
  PROVE  /\ UNCHANGED <<nextId, lost, delivered>>
         /\ \/ UNCHANGED <<queue, kbuf, wire>>
            \/ SendFrame(c, NoEvent) /\ UNCHANGED queue
            \/ \E i \in DOMAIN queue :
                 /\ queue[i].id \in EventId
                 /\ IsNextWaiting(queue, i)
                 /\ queue' = [queue EXCEPT ![i].state = "sent"]
                 /\ SendFrame(c, queue[i].id)
<1>1. \A i \in DOMAIN queue : queue[i].id \in EventId
  <2>1. \A i \in DOMAIN queue : queue[i] \in Entry
    BY SeqElements DEF TypeOK
  <2> QED BY <2>1 DEF Entry
<1> QED BY <1>1 DEF Reply, SendHigh, SendLow, queueVars

\* Every step keeps the queue in the order of the numbers.
LEMMA QueueStep == TypeOK /\ QueueNumbered /\ [Next]_vars => QueueNumbered'
<1> SUFFICES ASSUME TypeOK, QueueNumbered, [Next]_vars PROVE QueueNumbered'
  OBVIOUS
<1>1. CASE UNCHANGED <<queue, nextId>>
  BY <1>1 DEF QueueNumbered
<1>2. CASE UNCHANGED vars
  BY <1>1, <1>2 DEF vars
<1>3. CASE Enqueue
  BY <1>3, EnqueueEntries
<1>4. ASSUME NEW c \in Conn, Quiet(c) \/ Accept(c) \/ RecvAck(c) PROVE QueueNumbered'
  BY <1>1, <1>4, QuietSteps DEF Accept, RecvAck, queueVars
<1>5. ASSUME NEW c \in Conn, ConfirmNext(c) PROVE QueueNumbered'
  <2>1. CASE queue' = queue
    BY <1>1, <1>5, <2>1 DEF ConfirmNext
  <2>2. CASE Oldest(c).id # NoEvent
    <3>1. Oldest(c) \in SentFrame
      BY <1>5, ConnTypes DEF ConfirmNext, Covered, Oldest
    <3>2. Oldest(c).id \in EventId /\ queue' = MarkConfirmed(queue, Oldest(c).id)
      BY <1>5, <2>2, <3>1 DEF ConfirmNext, SentFrame
    <3>3. \A i \in DOMAIN queue' : queue'[i].id = nextId - 1 - Len(queue') + i
      BY <3>2, MarkConfirmedEntries
    <3> QED BY <1>5, <3>3 DEF ConfirmNext, QueueNumbered
  <2> QED BY <1>5, <2>1, <2>2 DEF ConfirmNext
<1>6. ASSUME NEW c \in Conn, Reply(c) \/ SendHigh(c) \/ SendLow(c) PROVE QueueNumbered'
  <2>1. ASSUME NEW i \in DOMAIN queue, queue' = [queue EXCEPT ![i].state = "sent"]
        PROVE  QueueNumbered'
    BY <1>6, <2>1, MarkSentEntries, SendingSteps DEF QueueNumbered
  <2> QED BY <1>1, <1>6, <2>1, SendingSteps
<1>7. ASSUME NEW c \in Conn, Close(c) PROVE QueueNumbered'
  <2>1. queue' = Requeued(queue) /\ nextId' = nextId
    BY <1>7 DEF Close
  <2> QED BY <2>1, RequeuedEntries DEF QueueNumbered
<1> QED BY <1>2, <1>3, <1>4, <1>5, <1>6, <1>7 DEF Next, ThreadStep, Quiet

\* Every step keeps the frames to events that exist.
LEMMA FramesKnownStep ==
  TypeOK /\ QueueNumbered /\ FramesKnown /\ [Next]_vars => FramesKnown'
<1> SUFFICES ASSUME TypeOK, QueueNumbered, FramesKnown, [Next]_vars, NEW d \in Conn
             PROVE  /\ \A i \in DOMAIN kbuf'[d] : kbuf'[d][i].id < nextId'
                    /\ \A i \in DOMAIN wire'[d] : wire'[d][i].id < nextId'
  BY DEF FramesKnown
<1> DEFINE Goal == /\ \A i \in DOMAIN kbuf'[d] : kbuf'[d][i].id < nextId'
                   /\ \A i \in DOMAIN wire'[d] : wire'[d][i].id < nextId'
<1>0. /\ kbuf \in [Conn -> Seq(SentFrame)] /\ wire \in [Conn -> Seq(Frame)]
      /\ nextId \in Nat \ {0}
  BY ChannelAssumption DEF TypeOK
<1>1. CASE UNCHANGED <<nextId, kbuf[d], wire[d]>>
  BY <1>1 DEF FramesKnown
<1>2. CASE UNCHANGED vars
  BY <1>1, <1>2 DEF vars
<1>3. CASE Enqueue
  <2>1. UNCHANGED <<kbuf, wire>> /\ nextId' = nextId + 1
    BY <1>3 DEF Enqueue, peerVars
  <2>2. /\ \A i \in DOMAIN kbuf[d] : kbuf[d][i].id \in Int
        /\ \A i \in DOMAIN wire[d] : wire[d][i].id \in Int
    BY ConnTypes, ChannelAssumption DEF SentFrame, Frame, EventId, NoEvent
  <2> QED BY <1>0, <2>1, <2>2 DEF FramesKnown
<1>4. ASSUME NEW c \in Conn, Quiet(c) \/ Close(c) PROVE Goal
  BY <1>1, <1>4, QuietSteps DEF Close, peerVars
<1>5. ASSUME NEW c \in Conn, Accept(c) PROVE Goal
  <2>1. CASE c = d
    <3>1. kbuf'[d] = <<>> /\ wire'[d] = <<>>
      BY <1>0, <1>5, <2>1 DEF Accept
    <3> QED BY <3>1
  <2>2. CASE c # d
    BY <1>0, <1>1, <1>5, <2>2 DEF Accept, queueVars
  <2> QED BY <2>1, <2>2
<1>6. ASSUME NEW c \in Conn, RecvAck(c) PROVE Goal
  <2>1. UNCHANGED <<nextId, kbuf>>
    BY <1>6 DEF RecvAck, queueVars
  <2>2. PICK j \in 0..Len(wire[c]) :
          wire' = [wire EXCEPT ![c] = SubSeq(@, j + 1, Len(@))]
    BY <1>6 DEF RecvAck
  <2>3. CASE c # d
    BY <1>0, <1>1, <2>1, <2>2, <2>3
  <2>4. CASE c = d
    <3>1. PICK W \in Nat : W = Len(wire[d]) /\ DOMAIN wire[d] = 1..W
      BY ConnTypes
    <3>2. wire'[d] = SubSeq(wire[d], j + 1, W) /\ wire[d] \in Seq(Frame) /\ j \in 0..W
      BY <1>0, <2>2, <2>4, <3>1
    <3>3. /\ DOMAIN wire'[d] = 1..(W - j)
          /\ \A i \in 1..(W - j) : wire'[d][i] = wire[d][j + i]
      BY <3>1, <3>2
    <3>4. \A i \in 1..(W - j) : j + i \in 1..W
      BY <3>2
    <3> QED BY <2>1, <3>1, <3>3, <3>4 DEF FramesKnown
  <2> QED BY <2>3, <2>4
<1>7. ASSUME NEW c \in Conn, ConfirmNext(c) PROVE Goal
  <2>1. /\ UNCHANGED <<nextId, wire>>
        /\ kbuf' = [kbuf EXCEPT ![c] = Tail(@)]
        /\ kbuf[c] # <<>>
    BY <1>7 DEF ConfirmNext, Covered, peerVars
  <2>2. CASE c # d
    BY <1>0, <1>1, <2>1, <2>2
  <2>3. CASE c = d
    <3>1. PICK L \in Nat : L = Len(kbuf[d]) /\ DOMAIN kbuf[d] = 1..L
      BY ConnTypes
    <3>2. kbuf'[d] = Tail(kbuf[d]) /\ kbuf[d] \in Seq(SentFrame)
      BY <1>0, <2>1, <2>3
    <3>3. /\ DOMAIN kbuf'[d] = 1..(L - 1)
          /\ \A i \in 1..(L - 1) : kbuf'[d][i] = kbuf[d][i + 1]
      BY <2>1, <2>3, <3>1, <3>2, TailElements
    <3>4. \A i \in 1..(L - 1) : i + 1 \in 1..L
      OBVIOUS
    <3> QED BY <2>1, <3>1, <3>3, <3>4 DEF FramesKnown
  <2> QED BY <2>2, <2>3
<1>8. ASSUME NEW c \in Conn, Reply(c) \/ SendHigh(c) \/ SendLow(c) PROVE Goal
  <2>1. nextId' = nextId
    BY <1>8, SendingSteps
  <2>2. ASSUME NEW id \in EventId \cup {NoEvent}, SendFrame(c, id), id < nextId
        PROVE  Goal
    BY <2>1, <2>2, SendFrameElements DEF FramesKnown
  <2>3. NoEvent < nextId /\ NoEvent \in EventId \cup {NoEvent}
    BY <1>0 DEF NoEvent
  <2>4. ASSUME NEW i \in DOMAIN queue PROVE queue[i].id < nextId
    <3>1. PICK L \in Nat : L = Len(queue) /\ DOMAIN queue = 1..L
      BY SeqElements DEF TypeOK
    <3>2. queue[i].id = nextId - 1 - L + i /\ i \in 1..L
      BY <3>1, <2>4 DEF QueueNumbered
    <3> QED BY <1>0, <3>2
  <2> QED BY <1>1, <1>8, <2>1, <2>2, <2>3, <2>4, SendingSteps
<1> QED BY <1>2, <1>3, <1>4, <1>5, <1>6, <1>7, <1>8 DEF Next, ThreadStep, Quiet

\* The shared queue is a stretch of the newest events, and what connections have
\* sent exists.
LEMMA QueueCorrect == Spec => [](QueueNumbered /\ FramesKnown)
<1>1. Init => QueueNumbered /\ FramesKnown
  BY DEF Init, QueueNumbered, FramesKnown
<1> QED BY <1>1, TypeCorrect, QueueStep, FramesKnownStep, PTL DEF Spec

(***************************************************************************)
(* No silent loss                                                          *)
(***************************************************************************)
\* The event a round of checkSequenceNumber confirms was received by a master.
LEMMA ConfirmedWasReceived ==
  ASSUME TypeOK, FramesOutstanding, NEW c \in Conn, ConfirmNext(c)
  PROVE  \/ queue' = queue
         \/ \E id \in EventId : id \in delivered /\ queue' = MarkConfirmed(queue, id)
<1>1. pc[c] = "confirm"
  BY DEF ConfirmNext
<1>2. Outstanding(c)
  BY <1>1 DEF FramesOutstanding, Live
<1>3. Oldest(c).id \in delivered \cup {NoEvent}
  BY <1>2, ConfirmNextOutstanding
<1>4. Oldest(c) \in SentFrame
  BY ConnTypes DEF ConfirmNext, Covered, Oldest
<1> QED BY <1>3, <1>4 DEF ConfirmNext, SentFrame

\* Every step accounts for every event.
LEMMA LossStep ==
  TypeOK /\ FramesOutstanding /\ QueueNumbered /\ NoSilentLoss /\ [Next]_vars
    => NoSilentLoss'
<1> SUFFICES ASSUME TypeOK, FramesOutstanding, QueueNumbered, NoSilentLoss, [Next]_vars,
                    NEW id \in 1..(nextId' - 1), id \notin delivered', id \notin lost'
             PROVE  \E i \in DOMAIN queue' :
                      queue'[i].id = id /\ queue'[i].state # "confirmed"
  BY DEF NoSilentLoss
<1> DEFINE Goal == \E i \in DOMAIN queue' :
                     queue'[i].id = id /\ queue'[i].state # "confirmed"
<1> USE DEF queueVars, peerVars
<1>0. nextId \in Nat
  BY ChannelAssumption DEF TypeOK
<1>1. ASSUME id \in 1..(nextId - 1), delivered \subseteq delivered', lost \subseteq lost'
      PROVE  \E i \in DOMAIN queue : queue[i].id = id /\ queue[i].state # "confirmed"
  BY <1>1 DEF NoSilentLoss
<1>2. CASE UNCHANGED <<queue, nextId, lost>> /\ delivered \subseteq delivered'
  BY <1>1, <1>2
<1>3. CASE UNCHANGED vars
  BY <1>2, <1>3 DEF vars
<1>4. CASE Enqueue
  <2>1. /\ delivered' = delivered /\ lost \subseteq lost' /\ nextId' = nextId + 1
        /\ Len(queue) = Cap /\ Head(queue).state # "confirmed"
             => Head(queue).id \in lost'
    BY <1>4 DEF Enqueue
  <2>2. CASE id = nextId
    BY <1>4, <2>2, EnqueueEntries
  <2>3. CASE id # nextId
    <3>1. id \in 1..(nextId - 1)
      BY <1>0, <2>1, <2>3
    <3>2. PICK k \in DOMAIN queue : queue[k].id = id /\ queue[k].state # "confirmed"
      BY <1>1, <2>1, <3>1
    <3>3. CASE \E i \in DOMAIN queue' : queue'[i] = queue[k]
      BY <3>2, <3>3
    <3>4. CASE k = 1 /\ Len(queue) = Cap /\ queue # <<>>
      BY <2>1, <3>2, <3>4, TailElements DEF TypeOK
    <3> QED BY <1>4, <3>3, <3>4, EnqueueEntries
  <2> QED BY <2>2, <2>3
<1>5. ASSUME NEW c \in Conn, Quiet(c) \/ Accept(c) \/ RecvAck(c) PROVE Goal
  BY <1>2, <1>5, QuietSteps DEF Accept, RecvAck
<1>6. ASSUME NEW c \in Conn, ConfirmNext(c) PROVE Goal
  <2>1. UNCHANGED <<nextId, lost, delivered>>
    BY <1>6 DEF ConfirmNext
  <2>2. CASE queue' = queue
    BY <1>2, <2>1, <2>2
  <2>3. ASSUME NEW n \in EventId, n \in delivered, queue' = MarkConfirmed(queue, n)
        PROVE  Goal
    <3>1. id # n
      BY <2>1, <2>3
    <3>2. PICK k \in DOMAIN queue : queue[k].id = id /\ queue[k].state # "confirmed"
      BY <1>1, <2>1
    <3>3. \E i \in DOMAIN queue' : queue'[i] = queue[k]
      BY <2>3, <3>1, <3>2, MarkConfirmedEntries
    <3> QED BY <3>2, <3>3
  <2> QED BY <1>6, <2>2, <2>3, ConfirmedWasReceived
<1>7. ASSUME NEW c \in Conn, Reply(c) \/ SendHigh(c) \/ SendLow(c) PROVE Goal
  <2>1. UNCHANGED <<nextId, lost, delivered>>
    BY <1>7, SendingSteps
  <2>2. ASSUME NEW j \in DOMAIN queue, queue' = [queue EXCEPT ![j].state = "sent"]
        PROVE  Goal
    <3>1. PICK k \in DOMAIN queue : queue[k].id = id /\ queue[k].state # "confirmed"
      BY <1>1, <2>1
    <3>2. k \in DOMAIN queue' /\ queue'[k].id = id /\ queue'[k].state # "confirmed"
      BY <2>2, <3>1, MarkSentEntries
    <3> QED BY <3>2
  <2> QED BY <1>2, <1>7, <2>1, <2>2, SendingSteps
<1>8. ASSUME NEW c \in Conn, Close(c) PROVE Goal
  <2>1. queue' = Requeued(queue) /\ UNCHANGED <<nextId, lost, delivered>>
    BY <1>8 DEF Close
  <2> QED BY <1>1, <2>1, RequeuedEntries
<1> QED BY <1>3, <1>4, <1>5, <1>6, <1>7, <1>8 DEF Next, ThreadStep, Quiet

\* An event that was enqueued was received by a master, or overwritten in a full
\* queue, or is still held for transmission: closed and switched connections,
\* retransmissions and late confirmations lose nothing.
THEOREM NoLossCorrect == Spec => []NoSilentLoss
<1>1. Init => NoSilentLoss
  BY DEF Init, NoSilentLoss
<1> QED BY <1>1, TypeCorrect, FramesCorrect, QueueCorrect, LossStep, PTL DEF Spec

(***************************************************************************)
(* An event marked as sent has an owner                                    *)
(***************************************************************************)
LEMMA OwnerStep ==
  TypeOK /\ QueueNumbered /\ SentHasOwner /\ [Next]_vars => SentHasOwner'
<1> SUFFICES ASSUME TypeOK, QueueNumbered, SentHasOwner, [Next]_vars,
                    NEW i \in DOMAIN queue', queue'[i].state = "sent"
             PROVE  \E d \in Conn :
                      /\ Live(d)'
                      /\ \E j \in DOMAIN kbuf'[d] : kbuf'[d][j].id = queue'[i].id
  BY DEF SentHasOwner
<1> DEFINE Owned(id) == \E d \in Conn : /\ Live(d)
                                        /\ \E j \in DOMAIN kbuf[d] : kbuf[d][j].id = id
           Goal == \E d \in Conn :
                     /\ Live(d)'
                     /\ \E j \in DOMAIN kbuf'[d] : kbuf'[d][j].id = queue'[i].id
<1> USE DEF queueVars, peerVars
<1>0. pc \in [Conn -> Place] /\ kbuf \in [Conn -> Seq(SentFrame)]
  BY DEF TypeOK
<1>1. ASSUME NEW k \in DOMAIN queue, queue[k].state = "sent", queue[k].id = queue'[i].id
      PROVE  Owned(queue'[i].id)
  BY <1>1 DEF SentHasOwner
<1>2. CASE UNCHANGED <<queue, kbuf>> /\ \A d \in Conn : Live(d) => Live(d)'
  BY <1>1, <1>2
<1>3. CASE UNCHANGED vars
  BY <1>2, <1>3 DEF vars, Live
<1>4. CASE Enqueue
  <2>1. UNCHANGED <<pc, kbuf>>
    BY <1>4 DEF Enqueue
  <2>2. \E k \in DOMAIN queue : queue'[i] = queue[k]
    BY <1>4, EnqueueEntries
  <2> QED BY <1>1, <2>1, <2>2 DEF Live
<1>5. ASSUME NEW c \in Conn, Quiet(c) \/ RecvAck(c) PROVE Goal
  <2>1. UNCHANGED <<queue, kbuf>>
    BY <1>5, QuietSteps DEF RecvAck
  <2>2. \A d \in Conn : Live(d) => Live(d)'
    BY <1>0, <1>5 DEF Quiet, Reap, NoMessage, Fail, StartDt, StopDt, Activate, ConfirmStop,
       Command, Check, RecvAck, Goto, AfterAck, Live
  <2> QED BY <1>2, <2>1, <2>2
<1>6. ASSUME NEW c \in Conn, Accept(c) PROVE Goal
  <2>1. queue' = queue /\ \A d \in Conn : d # c => kbuf'[d] = kbuf[d] /\ pc'[d] = pc[d]
    BY <1>0, <1>6 DEF Accept, Goto
  <2>2. ~Live(c)
    BY <1>6 DEF Accept, Live
  <2>3. Owned(queue'[i].id)
    BY <1>1, <2>1
  <2> QED BY <2>1, <2>2, <2>3 DEF Live
<1>7. ASSUME NEW c \in Conn, ConfirmNext(c) PROVE Goal
  <2>1. /\ kbuf[c] # <<>> /\ kbuf' = [kbuf EXCEPT ![c] = Tail(@)]
        /\ \A d \in Conn : Live(d) => Live(d)'
    BY <1>0, <1>7 DEF ConfirmNext, Covered, Goto, AfterAck, Live
  <2>2. Oldest(c) \in SentFrame
    BY <2>1, ConnTypes DEF Oldest
  <2>3. /\ queue'[i].id # Oldest(c).id
        /\ \E k \in DOMAIN queue : queue'[i] = queue[k]
    <3>1. CASE Oldest(c).id = NoEvent
      <4>1. queue' = queue /\ queue[i] \in Entry
        BY <1>7, <3>1, SeqElements DEF ConfirmNext, TypeOK
      <4> QED BY <3>1, <4>1 DEF Entry, EventId, NoEvent
    <3>2. CASE Oldest(c).id # NoEvent
      <4>1. Oldest(c).id \in EventId /\ queue' = MarkConfirmed(queue, Oldest(c).id)
        BY <1>7, <2>2, <3>2 DEF ConfirmNext, SentFrame
      <4> QED BY <4>1, MarkConfirmedEntries
    <3> QED BY <3>1, <3>2
  <2>a. PICK d \in Conn : /\ Live(d)
                          /\ \E j \in DOMAIN kbuf[d] : kbuf[d][j].id = queue'[i].id
    BY <1>1, <2>3
  <2>4. PICK j \in DOMAIN kbuf[d] : Live(d) /\ kbuf[d][j].id = queue'[i].id
    BY <2>a
  <2>5. CASE d # c
    BY <1>0, <2>1, <2>4, <2>5
  <2>6. CASE d = c
    <3>1. PICK L \in Nat : L = Len(kbuf[c]) /\ DOMAIN kbuf[c] = 1..L
      BY ConnTypes
    <3>2. kbuf'[c] = Tail(kbuf[c]) /\ kbuf[c] \in Seq(SentFrame)
      BY <1>0, <2>1
    <3>3. /\ DOMAIN kbuf'[c] = 1..(L - 1)
          /\ \A n \in 1..(L - 1) : kbuf'[c][n] = kbuf[c][n + 1]
      BY <2>1, <3>1, <3>2, TailElements
    <3>4. j # 1
      BY <2>3, <2>4, <2>6 DEF Oldest
    <3>5. j - 1 \in 1..(L - 1) /\ (j - 1) + 1 = j
      BY <2>6, <3>1, <3>4
    <3>6. kbuf'[c][j - 1].id = queue'[i].id
      BY <2>4, <2>6, <3>3, <3>5
    <3> QED BY <2>1, <2>4, <2>6, <3>3, <3>5, <3>6
  <2> QED BY <2>5, <2>6
<1>8. ASSUME NEW c \in Conn, Reply(c) \/ SendHigh(c) \/ SendLow(c) PROVE Goal
  <2>1. Live(c) /\ \A d \in Conn : Live(d) => Live(d)'
    BY <1>0, <1>8 DEF Reply, SendHigh, SendLow, Goto, Live
  <2>2. CASE UNCHANGED <<queue, kbuf, wire>>
    BY <1>2, <2>1, <2>2
  <2>3. CASE SendFrame(c, NoEvent) /\ UNCHANGED queue
    <3>1. Owned(queue'[i].id)
      BY <1>1, <2>3
    <3> QED BY <2>1, <2>3, <3>1, SendFrameElements
  <2>4. ASSUME NEW n \in DOMAIN queue, queue[n].id \in EventId,
               queue' = [queue EXCEPT ![n].state = "sent"], SendFrame(c, queue[n].id)
        PROVE  Goal
    <3>1. i \in DOMAIN queue /\ queue'[i].id = queue[i].id /\ (i # n => queue'[i] = queue[i])
      BY <2>4, MarkSentEntries
    <3>2. CASE i = n
      BY <2>1, <2>4, <3>1, <3>2, SendFrameElements
    <3>3. CASE i # n
      <4>1. Owned(queue'[i].id)
        BY <1>1, <3>1, <3>3
      <4> QED BY <2>1, <2>4, <4>1, SendFrameElements
    <3> QED BY <3>2, <3>3
  <2> QED BY <1>8, <2>2, <2>3, <2>4, SendingSteps
<1>9. ASSUME NEW c \in Conn, Close(c) PROVE Goal
  <2>1. queue' = Requeued(queue)
    BY <1>9 DEF Close
  <2> QED BY <2>1, RequeuedEntries
<1> QED BY <1>3, <1>4, <1>5, <1>6, <1>7, <1>8, <1>9 DEF Next, ThreadStep, Quiet

\* An event marked as sent is in the k-buffer of a connection whose thread still
\* runs, which will confirm it or put it back: no event waits for ever for a
\* confirmation nobody expects.
THEOREM OwnerCorrect == Spec => []SentHasOwner
<1>1. Init => SentHasOwner
  BY DEF Init, SentHasOwner
<1> QED BY <1>1, TypeCorrect, QueueCorrect, OwnerStep, PTL DEF Spec

(***************************************************************************)
(* The channel implements AtLeastOnce                                      *)
(***************************************************************************)
LEMMA KeptElements ==
  /\ \A id : id \in Kept <=>
       \E k \in DOMAIN queue : queue[k].id = id /\ queue[k].state # "confirmed"
  /\ \A id : id \in Kept' <=>
       \E k \in DOMAIN queue' : queue'[k].id = id /\ queue'[k].state # "confirmed"
  BY DEF Kept

\* Enqueue submits an event: at most the oldest one kept makes room.
LEMMA EnqueueSubmits ==
  ASSUME TypeOK, QueueNumbered, Enqueue
  PROVE  Promise!Submit
<1>1. /\ nextId <= MaxId /\ nextId' = nextId + 1 /\ delivered' = delivered
      /\ queue \in Seq(Entry) /\ nextId \in Nat
  BY ChannelAssumption DEF Enqueue, peerVars, TypeOK
<1>2. PICK L \in Nat : L = Len(queue) /\ DOMAIN queue = 1..L
  BY <1>1, SeqElements
<1>3. \A k \in 1..L : queue[k].id = nextId - 1 - L + k
  BY <1>2 DEF QueueNumbered
<1>4. nextId \in Kept' /\ nextId \notin Kept
  <2>1. nextId \in Kept'
    <3>1. PICK i \in DOMAIN queue' : queue'[i] = [id |-> nextId, state |-> "waiting"]
      BY EnqueueEntries
    <3>2. queue'[i].id = nextId /\ queue'[i].state # "confirmed"
      BY <3>1
    <3> QED BY <3>2, KeptElements
  <2>2. \A k \in 1..L : queue[k].id # nextId
    BY <1>1, <1>3
  <2> QED BY <1>2, <2>1, <2>2, KeptElements
<1>5. CASE \A k \in DOMAIN queue : \E i \in DOMAIN queue' : queue'[i] = queue[k]
  <2>1. Kept' = Kept \cup {nextId}
    <3>1. Kept \subseteq Kept'
      BY <1>5, KeptElements
    <3>2. ASSUME NEW id \in Kept' PROVE id \in Kept \/ id = nextId
      BY EnqueueEntries, KeptElements
    <3> QED BY <1>4, <3>1, <3>2
  <2> QED BY <1>1, <2>1 DEF Promise!Submit
<1>6. CASE \E k \in DOMAIN queue : \A i \in DOMAIN queue' : queue'[i] # queue[k]
  <2>1. Len(queue) = Cap /\ queue # <<>> /\ 1 \in 1..L
    BY <1>2, <1>6, EnqueueEntries
  <2> DEFINE old == queue[1].id
  <2>2. \A k \in 1..L : k # 1 => queue[k].id # old /\ old <= queue[k].id
    BY <1>1, <1>3, <2>1
  <2>3. old <= old
    BY <1>1, <1>3, <2>1
  <2>4. \A id \in Kept : old <= id
    BY <1>2, <2>2, <2>3, KeptElements
  <2>5. Kept' = (Kept \ {old}) \cup {nextId}
    <3>1. ASSUME NEW id \in Kept' PROVE id = nextId \/ (id \in Kept /\ id # old)
      BY <1>2, <2>1, <2>2, EnqueueEntries, KeptElements
    <3>2. ASSUME NEW id \in Kept, id # old PROVE id \in Kept'
      BY <3>2, EnqueueEntries, KeptElements
    <3> QED BY <1>4, <3>1, <3>2
  <2>6. CASE old \in Kept
    BY <1>1, <2>4, <2>5, <2>6 DEF Promise!Submit
  <2>7. CASE old \notin Kept
    <3>1. Kept' = Kept \cup {nextId}
      BY <2>5, <2>7
    <3> QED BY <1>1, <3>1 DEF Promise!Submit
  <2> QED BY <2>6, <2>7
<1> QED BY <1>5, <1>6

\* Every step of the channel is a step of AtLeastOnce or changes nothing it sees.
LEMMA PromiseStep ==
  TypeOK /\ FramesOutstanding /\ QueueNumbered /\ FramesKnown /\ [Next]_vars
    => [Promise!Next]_(Promise!vars)
<1> SUFFICES ASSUME TypeOK, FramesOutstanding, QueueNumbered, FramesKnown, [Next]_vars
             PROVE  Promise!Next \/ UNCHANGED <<nextId, Kept, delivered>>
  BY DEF Promise!vars
<1> DEFINE Goal == Promise!Next \/ UNCHANGED <<nextId, Kept, delivered>>
<1> USE DEF queueVars, peerVars
<1>1. CASE UNCHANGED <<queue, nextId, delivered>>
  BY <1>1 DEF Kept
<1>2. CASE UNCHANGED vars
  BY <1>1, <1>2 DEF vars
<1>3. CASE Enqueue
  BY <1>3, EnqueueSubmits DEF Promise!Next
<1>4. ASSUME NEW c \in Conn, Quiet(c) \/ Accept(c) PROVE Goal
  BY <1>1, <1>4, QuietSteps DEF Accept
<1>5. ASSUME NEW c \in Conn, RecvAck(c) PROVE Goal
  <2>1. PICK j \in 0..Len(wire[c]) :
          delivered' = delivered \cup ({wire[c][i].id : i \in 1..j} \ {NoEvent})
    BY <1>5 DEF RecvAck
  <2>2. UNCHANGED <<nextId, Kept>>
    BY <1>5 DEF RecvAck, Kept
  <2>3. ASSUME NEW i \in 1..j, wire[c][i].id # NoEvent
        PROVE  wire[c][i].id \in 1..(nextId - 1)
    <3>1. i \in DOMAIN wire[c] /\ wire[c][i] \in Frame
      BY ConnTypes
    <3>2. wire[c][i].id < nextId /\ wire[c][i].id \in EventId
      BY <2>3, <3>1 DEF FramesKnown, Frame
    <3>3. nextId \in Nat
      BY ChannelAssumption DEF TypeOK
    <3> QED BY <3>2, <3>3, ChannelAssumption DEF EventId
  <2>4. ({wire[c][i].id : i \in 1..j} \ {NoEvent}) \in SUBSET (1..(nextId - 1))
    BY <2>3
  <2> QED BY <2>1, <2>2, <2>4 DEF Promise!Next, Promise!Receive
<1>6. ASSUME NEW c \in Conn, ConfirmNext(c) PROVE Goal
  <2>1. UNCHANGED <<nextId, delivered>>
    BY <1>6 DEF ConfirmNext
  <2>2. CASE queue' = queue
    BY <1>1, <2>1, <2>2
  <2>3. ASSUME NEW n \in EventId, n \in delivered, queue' = MarkConfirmed(queue, n)
        PROVE  Goal
    <3>1. Kept' = Kept \ {n}
      <4>1. ASSUME NEW id \in Kept' PROVE id \in Kept /\ id # n
        BY <2>3, MarkConfirmedEntries, KeptElements
      <4>2. ASSUME NEW id \in Kept, id # n PROVE id \in Kept'
        BY <2>3, <4>2, MarkConfirmedEntries, KeptElements
      <4> QED BY <4>1, <4>2
    <3>2. CASE n \in Kept
      BY <2>1, <2>3, <3>1, <3>2 DEF Promise!Next, Promise!Release
    <3>3. CASE n \notin Kept
      BY <2>1, <3>1, <3>3
    <3> QED BY <3>2, <3>3
  <2> QED BY <1>6, <2>2, <2>3, ConfirmedWasReceived
<1>7. ASSUME NEW c \in Conn, Reply(c) \/ SendHigh(c) \/ SendLow(c) PROVE Goal
  <2>1. UNCHANGED <<nextId, delivered>>
    BY <1>7, SendingSteps
  <2>2. ASSUME NEW n \in DOMAIN queue, IsNextWaiting(queue, n),
               queue' = [queue EXCEPT ![n].state = "sent"]
        PROVE  Kept' = Kept
    <3>1. /\ DOMAIN queue' = DOMAIN queue
          /\ \A k \in DOMAIN queue :
               /\ queue'[k].id = queue[k].id
               /\ queue'[k].state # "confirmed" <=> queue[k].state # "confirmed"
      BY <2>2, MarkSentEntries DEF IsNextWaiting
    <3>2. \A id : id \in Kept' <=> id \in Kept
      BY <3>1, KeptElements
    <3> QED BY <3>2
  <2> QED BY <1>1, <1>7, <2>1, <2>2, SendingSteps
<1>8. ASSUME NEW c \in Conn, Close(c) PROVE Goal
  <2>1. queue' = Requeued(queue) /\ UNCHANGED <<nextId, delivered>>
    BY <1>8 DEF Close
  <2>2. /\ DOMAIN queue' = DOMAIN queue
        /\ \A k \in DOMAIN queue :
             /\ queue'[k].id = queue[k].id
             /\ queue'[k].state # "confirmed" <=> queue[k].state # "confirmed"
    BY <2>1, RequeuedEntries
  <2>3. \A id : id \in Kept' <=> id \in Kept
    BY <2>2, KeptElements
  <2>4. Kept' = Kept
    BY <2>3
  <2> QED BY <2>1, <2>4
<1> QED BY <1>2, <1>3, <1>4, <1>5, <1>6, <1>7, <1>8 DEF Next, ThreadStep, Quiet

\* The channel keeps its promise to the application: an event is kept until a
\* master has received it, and otherwise leaves only as the oldest one, when a new
\* event finds the queue full.
THEOREM PromiseCorrect == Spec => PromiseKept
<1>1. Init => Promise!Init
  BY DEF Init, Promise!Init, Kept
<1> QED
  BY <1>1, TypeCorrect, FramesCorrect, QueueCorrect, PromiseStep, PTL
     DEF Spec, PromiseKept, Promise!Spec

(***************************************************************************)
(* The order of events on a connection                                     *)
(***************************************************************************)
\* The events outstanding on a connection come before those that wait.
WaitingAreLater ==
  \A c \in Conn : Live(c) =>
    \A j \in DOMAIN kbuf[c], i \in DOMAIN queue :
      kbuf[c][j].id # NoEvent /\ queue[i].state = "waiting"
        => kbuf[c][j].id < queue[i].id

\* Every step keeps the order, with one connection.
LEMMA OrderStep ==
  ASSUME MaxConn = 1, TypeOK, QueueNumbered, FramesKnown, WaitingAreLater, SentInOrder,
         [Next]_vars
  PROVE  WaitingAreLater' /\ SentInOrder'
<1> DEFINE Later == \A j \in DOMAIN kbuf'[1], i \in DOMAIN queue' :
                      kbuf'[1][j].id # NoEvent /\ queue'[i].state = "waiting"
                        => kbuf'[1][j].id < queue'[i].id
           Order == \A i, j \in DOMAIN kbuf'[1] :
                      i < j /\ kbuf'[1][i].id # NoEvent /\ kbuf'[1][j].id # NoEvent
                        => kbuf'[1][i].id < kbuf'[1][j].id
<1>0. /\ Conn = {1} /\ pc \in [Conn -> Place] /\ kbuf \in [Conn -> Seq(SentFrame)]
      /\ nextId \in Nat
  BY ChannelAssumption DEF Conn, TypeOK
<1> SUFFICES ASSUME Live(1)' PROVE Later /\ Order
  BY <1>0 DEF WaitingAreLater, SentInOrder
<1> USE DEF queueVars, peerVars
<1>1. CASE /\ Live(1) /\ kbuf'[1] = kbuf[1]
           /\ \A i \in DOMAIN queue' : queue'[i].state = "waiting" =>
                \/ \E k \in DOMAIN queue : queue'[i] = queue[k]
                \/ \A j \in DOMAIN kbuf[1] : kbuf[1][j].id < queue'[i].id
  <2>1. Order
    BY <1>0, <1>1 DEF SentInOrder
  <2>2. Later
    BY <1>0, <1>1 DEF WaitingAreLater
  <2> QED BY <2>1, <2>2
<1>2. CASE UNCHANGED vars
  BY <1>1, <1>2 DEF vars, Live
<1>3. CASE Enqueue
  <2>1. UNCHANGED <<pc, kbuf>>
    BY <1>3 DEF Enqueue
  <2>2. \A j \in DOMAIN kbuf[1] : kbuf[1][j].id < nextId
    BY <1>0 DEF FramesKnown
  <2>3. Live(1)
    BY <2>1 DEF Live
  <2>4. \A i \in DOMAIN queue' :
          \/ \E k \in DOMAIN queue : queue'[i] = queue[k]
          \/ queue'[i].id = nextId
    BY <1>3, EnqueueEntries
  <2> QED BY <1>1, <2>1, <2>2, <2>3, <2>4
<1>4. ASSUME NEW c \in Conn, Quiet(c) \/ RecvAck(c) PROVE Later /\ Order
  <2>1. UNCHANGED <<queue, kbuf>>
    BY <1>4, QuietSteps DEF RecvAck
  <2>2. Live(1)
    BY <1>0, <1>4 DEF Quiet, Reap, NoMessage, Fail, StartDt, StopDt, Activate, ConfirmStop,
       Command, Check, RecvAck, Goto, AfterAck, Live
  <2> QED BY <1>1, <2>1, <2>2
<1>5. ASSUME NEW c \in Conn, Accept(c) PROVE Later /\ Order
  <2>1. kbuf'[1] = <<>>
    BY <1>0, <1>5 DEF Accept
  <2> QED BY <2>1
<1>6. ASSUME NEW c \in Conn, ConfirmNext(c) PROVE Later /\ Order
  <2>1. c = 1 /\ Live(1) /\ kbuf[1] # <<>> /\ kbuf'[1] = Tail(kbuf[1])
    BY <1>0, <1>6 DEF ConfirmNext, Covered, Live
  <2>2. PICK L \in Nat : L = Len(kbuf[1]) /\ DOMAIN kbuf[1] = 1..L
    BY <1>0, ConnTypes
  <2>3. /\ DOMAIN kbuf'[1] = 1..(L - 1)
        /\ \A n \in 1..(L - 1) : kbuf'[1][n] = kbuf[1][n + 1]
    BY <1>0, <2>1, <2>2, TailElements
  <2>4. \A n \in 1..(L - 1) : n + 1 \in 1..L
    OBVIOUS
  <2>5. \A i \in DOMAIN queue' : queue'[i].state = "waiting" =>
          \E k \in DOMAIN queue : queue'[i] = queue[k]
    <3>1. CASE queue' = queue
      BY <3>1
    <3>2. CASE Oldest(c).id # NoEvent
      <4>1. Oldest(c) \in SentFrame
        BY <1>0, <2>1, ConnTypes DEF Oldest
      <4>2. Oldest(c).id \in EventId /\ queue' = MarkConfirmed(queue, Oldest(c).id)
        BY <1>6, <3>2, <4>1 DEF ConfirmNext, SentFrame
      <4> QED BY <4>2, MarkConfirmedEntries
    <3> QED BY <1>6, <3>1, <3>2 DEF ConfirmNext
  <2>6. Later
    <3> SUFFICES ASSUME NEW j \in 1..(L - 1), NEW i \in DOMAIN queue',
                        kbuf'[1][j].id # NoEvent, queue'[i].state = "waiting"
                 PROVE  kbuf'[1][j].id < queue'[i].id
      BY <2>3
    <3>1. PICK k \in DOMAIN queue : queue'[i] = queue[k]
      BY <2>5
    <3>2. j + 1 \in DOMAIN kbuf[1] /\ kbuf'[1][j] = kbuf[1][j + 1]
      BY <2>2, <2>3, <2>4
    <3> QED BY <1>0, <2>1, <3>1, <3>2 DEF WaitingAreLater
  <2>7. Order
    <3> SUFFICES ASSUME NEW i \in 1..(L - 1), NEW j \in 1..(L - 1), i < j,
                        kbuf'[1][i].id # NoEvent, kbuf'[1][j].id # NoEvent
                 PROVE  kbuf'[1][i].id < kbuf'[1][j].id
      BY <2>3
    <3>1. i + 1 \in 1..L /\ j + 1 \in 1..L /\ i + 1 < j + 1
      BY <2>4
    <3> QED BY <1>0, <2>1, <2>2, <2>3, <3>1 DEF SentInOrder
  <2> QED BY <2>6, <2>7
<1>7. ASSUME NEW c \in Conn, Reply(c) \/ SendHigh(c) \/ SendLow(c) PROVE Later /\ Order
  <2>1. c = 1 /\ Live(1)
    BY <1>0, <1>7 DEF Reply, SendHigh, SendLow, Live
  <2>2. CASE UNCHANGED <<queue, kbuf, wire>>
    BY <1>1, <2>1, <2>2
  <2>3. PICK L \in Nat : L = Len(kbuf[1]) /\ DOMAIN kbuf[1] = 1..L
    BY <1>0, ConnTypes
  <2>4. ASSUME NEW id \in EventId \cup {NoEvent}, SendFrame(c, id),
               \A i \in DOMAIN queue' : queue'[i].state = "waiting" =>
                 i \in DOMAIN queue /\ queue'[i] = queue[i] /\ id < queue[i].id,
               id # NoEvent => \A j \in DOMAIN kbuf[1] :
                                 kbuf[1][j].id # NoEvent => kbuf[1][j].id < id
        PROVE  Later /\ Order
    <3>1. \A j \in DOMAIN kbuf'[1] :
            \/ j \in DOMAIN kbuf[1] /\ kbuf'[1][j] = kbuf[1][j]
            \/ j = L + 1 /\ kbuf'[1][j].id = id
      BY <1>0, <2>1, <2>3, <2>4, SendFrameElements
    <3>2. Later
      <4> SUFFICES ASSUME NEW j \in DOMAIN kbuf'[1], NEW i \in DOMAIN queue',
                          kbuf'[1][j].id # NoEvent, queue'[i].state = "waiting"
                   PROVE  kbuf'[1][j].id < queue'[i].id
        OBVIOUS
      <4>1. i \in DOMAIN queue /\ queue'[i] = queue[i] /\ id < queue[i].id
        BY <2>4
      <4> QED BY <1>0, <2>1, <3>1, <4>1 DEF WaitingAreLater
    <3>3. Order
      <4> SUFFICES ASSUME NEW i \in DOMAIN kbuf'[1], NEW j \in DOMAIN kbuf'[1], i < j,
                          kbuf'[1][i].id # NoEvent, kbuf'[1][j].id # NoEvent
                   PROVE  kbuf'[1][i].id < kbuf'[1][j].id
        OBVIOUS
      <4>1. CASE j \in DOMAIN kbuf[1] /\ kbuf'[1][j] = kbuf[1][j]
        <5>1. i # L + 1
          BY <2>3, <4>1
        <5>2. i \in DOMAIN kbuf[1] /\ kbuf'[1][i] = kbuf[1][i]
          BY <3>1, <5>1
        <5> QED BY <1>0, <2>1, <4>1, <5>2 DEF SentInOrder
      <4>2. CASE j = L + 1 /\ kbuf'[1][j].id = id
        <5>1. i \in DOMAIN kbuf[1] /\ kbuf'[1][i] = kbuf[1][i]
          BY <3>1, <4>2
        <5> QED BY <2>4, <4>2, <5>1
      <4> QED BY <3>1, <4>1, <4>2
    <3> QED BY <3>2, <3>3
  <2>5. CASE SendFrame(c, NoEvent) /\ UNCHANGED queue
    <3>1. \A i \in DOMAIN queue : NoEvent < queue[i].id
      <4>1. \A i \in DOMAIN queue : queue[i] \in Entry
        BY SeqElements DEF TypeOK
      <4> QED BY <4>1, ChannelAssumption DEF Entry, EventId, NoEvent
    <3> QED BY <2>4, <2>5, <3>1
  <2>6. ASSUME NEW n \in DOMAIN queue, queue[n].id \in EventId, IsNextWaiting(queue, n),
               queue' = [queue EXCEPT ![n].state = "sent"], SendFrame(c, queue[n].id)
        PROVE  Later /\ Order
    <3>1. PICK Q \in Nat : Q = Len(queue) /\ DOMAIN queue = 1..Q
      BY SeqElements DEF TypeOK
    <3>2. ASSUME NEW i \in DOMAIN queue', queue'[i].state = "waiting"
          PROVE  i \in DOMAIN queue /\ queue'[i] = queue[i] /\ queue[n].id < queue[i].id
      <4>1. i \in 1..Q /\ i # n /\ queue'[i] = queue[i]
        BY <2>6, <3>1, <3>2, MarkSentEntries
      <4>2. n < i
        <5>1. i < n => i \in 1..(n - 1)
          BY <3>1, <4>1
        <5>2. ~(i < n)
          BY <2>6, <3>2, <4>1, <5>1 DEF IsNextWaiting
        <5> QED BY <3>1, <4>1, <5>2
      <4>3. queue[n].id = nextId - 1 - Q + n /\ queue[i].id = nextId - 1 - Q + i
        BY <3>1, <4>1 DEF QueueNumbered
      <4>4. queue[n].id < queue[i].id
        BY <1>0, <3>1, <4>1, <4>2, <4>3
      <4> QED BY <3>1, <4>1, <4>4
    <3>3. \A j \in DOMAIN kbuf[1] : kbuf[1][j].id # NoEvent => kbuf[1][j].id < queue[n].id
      BY <1>0, <2>1, <2>6 DEF WaitingAreLater, IsNextWaiting
    <3> QED BY <2>4, <2>6, <3>2, <3>3
  <2> QED BY <1>7, <2>2, <2>5, <2>6, SendingSteps
<1>8. ASSUME NEW c \in Conn, Close(c) PROVE Later /\ Order
  <2>1. ~Live(1)'
    BY <1>0, <1>8 DEF Close, Goto, Live
  <2> QED BY <2>1
<1> QED BY <1>2, <1>3, <1>4, <1>5, <1>6, <1>7, <1>8 DEF Next, ThreadStep, Quiet

\* With one connection at a time events are outstanding in the order they were
\* enqueued, each of them once, whatever the window and over any sequence of
\* closed connections.  With two connections this fails: the closing of one puts
\* back what the other has sent (setWaitingForTransmissionWhenNotConfirmed).
THEOREM OrderCorrect ==
  ASSUME MaxConn = 1
  PROVE  Spec => []SentInOrder
<1>1. Init => WaitingAreLater /\ SentInOrder
  BY DEF Init, WaitingAreLater, SentInOrder, Live
<1>2. TypeOK /\ QueueNumbered /\ FramesKnown /\ WaitingAreLater /\ SentInOrder /\ [Next]_vars
        => WaitingAreLater' /\ SentInOrder'
  BY OrderStep
<1> QED BY <1>1, <1>2, TypeCorrect, QueueCorrect, PTL DEF Spec
=============================================================================
