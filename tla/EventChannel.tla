---------------------------- MODULE EventChannel ----------------------------
(***************************************************************************)
(* Event transmission of the CS 104 slave in the mode the server runs in,  *)
(* CS104_MODE_SINGLE_REDUNDANCY_GROUP (cs104_slave.c).  The application    *)
(* enqueues events into one queue shared by every connection; the thread   *)
(* of the active connection sends them as I frames through its k-buffer,   *)
(* and an event leaves the queue when the master confirms the frame.       *)
(*                                                                         *)
(* A connection thread is a sequential process; pc[c] is the place in its  *)
(* loop (connectionHandlingThread):                                        *)
(*    "free"     the connection object is not used                         *)
(*    "recv"     loop head: isRunning is read, the socket is polled        *)
(*    "activate" between the two halves of CS104_Slave_activate            *)
(*    "confirm"  in the loop of checkSequenceNumber                        *)
(*    "command"  an accepted I frame, isActive not yet read                *)
(*    "reply"    a handler answers: in sendASDUInternal, isActive was read *)
(*    "check"    end of the loop: isActive is read before sending          *)
(*    "send"     in sendWaitingASDUs                                       *)
(*    "ended"    the thread has returned and waits to be joined            *)
(*                                                                         *)
(* The byte ring of the queue is a sequence of entries here: Cap entries   *)
(* of one size.  The peer (master) and the TCP connection are external:    *)
(* frames arrive in order until the connection is lost, and the peer       *)
(* confirms what it received, now or later, in S or in I frames.  When it  *)
(* received a frame matters only once its confirmation is read, so that    *)
(* the two are one step of the model (RecvAck).                            *)
(***************************************************************************)
EXTENDS Integers, Sequences, FiniteSets

CONSTANTS
  MaxConn,    \* connection objects (CONFIG_CS104_MAX_CLIENT_CONNECTIONS)
  K,          \* size of a k-buffer (conParameters.k)
  SeqMod,     \* modulus of the frame numbers (32768)
  Cap,        \* entries the event queue holds
  PrioCap,    \* responses the high-priority queue holds
  MaxId       \* bound of the model: events ever enqueued

ASSUME ChannelAssumption ==
  /\ MaxConn \in Nat \ {0}
  /\ K \in Nat \ {0}
  /\ SeqMod \in Nat /\ K < SeqMod
  /\ Cap \in Nat \ {0}
  /\ PrioCap \in Nat
  /\ MaxId \in Nat

Conn == 1..MaxConn
SeqNo == 0..(SeqMod - 1)
EventId == 1..MaxId
NoSeq == -1          \* no frame number
NoEvent == 0         \* entryId of a frame that carries a response

EntryState == {"waiting", "sent", "confirmed"}
Entry == [id : EventId, state : EntryState]
\* SentASDUSlave: the number a confirmation of the frame carries, and the event.
SentFrame == [seq : SeqNo, id : EventId \cup {NoEvent}]
\* An I frame under way to the peer.
Frame == [ns : SeqNo, id : EventId \cup {NoEvent}]
\* Locals of checkSequenceNumber, and the kind of frame being handled.
AckLocals == [n : SeqNo, overflow : BOOLEAN, oldestValid : SeqNo \cup {NoSeq},
              kind : {"S", "I"}]
Place == {"free", "recv", "activate", "confirm", "command", "reply",
          "check", "send", "ended"}

VARIABLES
  queue,      \* the shared event queue, oldest first
  nextId,     \* entryId of the next event
  prio,       \* number of responses in the shared high-priority queue
  pc,         \* place of each connection thread
  running,    \* isRunning
  active,     \* isActive
  sendCount,  \* N(S) of the next I frame
  kbuf,       \* frames sent and not confirmed, oldest first
  ack,        \* locals of checkSequenceNumber while pc = "confirm"
  wire,       \* I frames sent and not covered by a confirmation that was read
  vr,         \* V(R) of the peer in the last confirmation that was read
  delivered,  \* history: events a master received and confirmed
  lost        \* history: unconfirmed events overwritten in a full queue

queueVars == <<queue, nextId, lost>>
peerVars == <<wire, vr, delivered>>
vars == <<queue, nextId, lost, prio, pc, running, active, sendCount, kbuf,
          ack, wire, vr, delivered>>

NoAck == [n |-> 0, overflow |-> FALSE, oldestValid |-> NoSeq, kind |-> "S"]

Init ==
  /\ queue = <<>>
  /\ nextId = 1
  /\ prio = 0
  /\ pc = [c \in Conn |-> "free"]
  /\ running = [c \in Conn |-> FALSE]
  /\ active = [c \in Conn |-> FALSE]
  /\ sendCount = [c \in Conn |-> 0]
  /\ kbuf = [c \in Conn |-> <<>>]
  /\ ack = [c \in Conn |-> NoAck]
  /\ wire = [c \in Conn |-> <<>>]
  /\ vr = [c \in Conn |-> 0]
  /\ delivered = {}
  /\ lost = {}

Goto(c, place) == pc' = [pc EXCEPT ![c] = place]

(***************************************************************************)
(* Frame numbers                                                           *)
(***************************************************************************)
\* Fault: the modulus is forgotten.
NextSeqUnwrapped(n) == n + 1

\* (n + 1) % 32768 and the number before n, both within 0..SeqMod-1.
NextSeq(n) == IF n = SeqMod - 1 THEN 0 ELSE n + 1
PrevSeq(n) == IF n = 0 THEN SeqMod - 1 ELSE n - 1

Oldest(c) == kbuf[c][1]
Newest(c) == kbuf[c][Len(kbuf[c])]

\* Fault: one frame too many fits.
WindowFullLate(c) == Len(kbuf[c]) > K

\* isSentBufferFull
WindowFull(c) == Len(kbuf[c]) >= K

\* counterOverflowDetected: the numbers in the k-buffer wrap around.
Overflow(c) == kbuf[c] # <<>> /\ Oldest(c).seq > Newest(c).seq

\* oldestValidSeqNo: a repetition of the last confirmation.
OldestValid(c) == IF kbuf[c] = <<>> THEN NoSeq ELSE PrevSeq(Oldest(c).seq)

\* Fault: a repeated confirmation is not recognised.
SeqNoIsValidOnce(c, n) ==
  \/ kbuf[c] = <<>> /\ n = sendCount[c]
  \/ /\ kbuf[c] # <<>>
     /\ \/ ~Overflow(c) /\ Oldest(c).seq <= n /\ n <= Newest(c).seq
        \/ Overflow(c) /\ (Oldest(c).seq <= n \/ n <= Newest(c).seq)

\* The range check of checkSequenceNumber.
SeqNoIsValid(c, n) ==
  \/ kbuf[c] = <<>> /\ n = sendCount[c]
  \/ /\ kbuf[c] # <<>>
     /\ \/ ~Overflow(c) /\ Oldest(c).seq <= n /\ n <= Newest(c).seq
        \/ Overflow(c) /\ (Oldest(c).seq <= n \/ n <= Newest(c).seq)
        \/ n = OldestValid(c)

(***************************************************************************)
(* The event queue                                                         *)
(***************************************************************************)
\* MessageQueue_enqueueASDU: a full queue loses its oldest entry.
Enqueue ==
  /\ nextId <= MaxId
  /\ LET new  == [id |-> nextId, state |-> "waiting"]
         full == Len(queue) = Cap
     IN  /\ queue' = Append(IF full THEN Tail(queue) ELSE queue, new)
         /\ lost' = IF full /\ Head(queue).state # "confirmed"
                    THEN lost \cup {Head(queue).id} ELSE lost
  /\ nextId' = nextId + 1
  /\ UNCHANGED <<prio, pc, running, active, sendCount, kbuf, ack, peerVars>>

\* Fault: any waiting entry is taken.
IsAnyWaiting(q, i) == q[i].state = "waiting"

\* MessageQueue_getNextWaitingASDU picks the oldest entry that waits.
IsNextWaiting(q, i) ==
  /\ q[i].state = "waiting"
  /\ \A j \in 1..(i - 1) : q[j].state # "waiting"

NothingWaiting(q) == \A i \in DOMAIN q : q[i].state # "waiting"

\* Faults: a closing connection puts nothing back, or confirmed entries as well.
RequeuedNever(q) == q

RequeuedAll(q) ==
  [i \in DOMAIN q |->
     IF q[i].state # "waiting" THEN [q[i] EXCEPT !.state = "waiting"] ELSE q[i]]

\* MessageQueue_setWaitingForTransmissionWhenNotConfirmed
Requeued(q) ==
  [i \in DOMAIN q |->
     IF q[i].state = "sent" THEN [q[i] EXCEPT !.state = "waiting"] ELSE q[i]]

\* Fault: a confirmation removes the first entry, whichever event it holds.
MarkConfirmedFirst(q, id) ==
  IF q = <<>> \/ nextId - 1 - id >= Len(q) THEN q ELSE Tail(q)

\* MessageQueue_markAsduAsConfirmed: only the first entry leaves the queue, any
\* other one is marked and stays.  The test on the entry id tells whether the
\* place in the ring still holds this event.
MarkConfirmed(q, id) ==
  IF q = <<>> \/ nextId - 1 - id >= Len(q) THEN q
  ELSE IF Head(q).id = id THEN Tail(q)
  ELSE [i \in DOMAIN q |->
          IF q[i].id = id THEN [q[i] EXCEPT !.state = "confirmed"] ELSE q[i]]

(***************************************************************************)
(* Sending an I frame: sendASDU and sendIMessage.  A write that fails      *)
(* leaves the send counter alone, ends the connection, and still puts the  *)
(* frame into the k-buffer.                                                *)
(***************************************************************************)
SendFrame(c, id) ==
  \/ /\ sendCount' = [sendCount EXCEPT ![c] = NextSeq(@)]
     /\ kbuf' = [kbuf EXCEPT ![c] =
                   Append(@, [seq |-> NextSeq(sendCount[c]), id |-> id])]
     /\ wire' = [wire EXCEPT ![c] =
                   Append(@, [ns |-> sendCount[c], id |-> id])]
     /\ UNCHANGED running
  \/ /\ kbuf' = [kbuf EXCEPT ![c] =
                   Append(@, [seq |-> sendCount[c], id |-> id])]
     /\ running' = [running EXCEPT ![c] = FALSE]
     /\ UNCHANGED <<sendCount, wire>>

(***************************************************************************)
(* Server thread: accept, and join of a connection that has ended          *)
(***************************************************************************)
\* getFreeConnection takes the first unused object; MasterConnection_init resets
\* it and the shared high-priority queue; MasterConnection_start runs the thread.
Accept(c) ==
  /\ pc[c] = "free"
  /\ \A d \in 1..(c - 1) : pc[d] # "free"
  /\ Goto(c, "recv")
  /\ running' = [running EXCEPT ![c] = TRUE]
  /\ active' = [active EXCEPT ![c] = FALSE]
  /\ sendCount' = [sendCount EXCEPT ![c] = 0]
  /\ kbuf' = [kbuf EXCEPT ![c] = <<>>]
  /\ prio' = 0
  /\ wire' = [wire EXCEPT ![c] = <<>>]
  /\ vr' = [vr EXCEPT ![c] = 0]
  /\ UNCHANGED <<queueVars, ack, delivered>>

\* The scan of serverThread stops at the first object in use (its "break").
Reap(c) ==
  /\ pc[c] = "ended"
  /\ \A d \in 1..(c - 1) : pc[d] = "free"
  /\ Goto(c, "free")
  /\ UNCHANGED <<queueVars, prio, running, active, sendCount, kbuf, ack, peerVars>>

(***************************************************************************)
(* Connection thread: receiving                                            *)
(***************************************************************************)
\* No message within the poll timeout, or one that changes nothing here
\* (TESTFR, or a frame that is ignored).
NoMessage(c) ==
  /\ pc[c] = "recv" /\ running[c]
  /\ Goto(c, "check")
  /\ UNCHANGED <<queueVars, prio, running, active, sendCount, kbuf, ack, peerVars>>

\* Socket error, peer closed the connection, frame refused, timeout t1 or t3.
Fail(c) ==
  /\ pc[c] = "recv" /\ running[c]
  /\ running' = [running EXCEPT ![c] = FALSE]
  /\ UNCHANGED <<queueVars, prio, pc, active, sendCount, kbuf, ack, peerVars>>

\* STARTDT_ACT, first half of CS104_Slave_activate, under openConnectionsLock.
StartDt(c) ==
  /\ pc[c] = "recv" /\ running[c]
  /\ active' = [d \in Conn |-> d = c /\ active[c]]
  /\ Goto(c, "activate")
  /\ UNCHANGED <<queueVars, prio, running, sendCount, kbuf, ack, peerVars>>

\* Second half: MasterConnection_activate after the lock has been released, then
\* the high-priority queue is reset.
Activate(c) ==
  /\ pc[c] = "activate"
  /\ active' = [active EXCEPT ![c] = TRUE]
  /\ prio' = 0
  /\ Goto(c, "check")
  /\ UNCHANGED <<queueVars, running, sendCount, kbuf, ack, peerVars>>

\* STOPDT_ACT
StopDt(c) ==
  /\ pc[c] = "recv" /\ running[c]
  /\ active' = [active EXCEPT ![c] = FALSE]
  /\ Goto(c, "check")
  /\ UNCHANGED <<queueVars, prio, running, sendCount, kbuf, ack, peerVars>>

\* The number a peer sends that received the first j frames of wire[c].
PeerNumber(c, j) == IF j = 0 THEN vr[c] ELSE NextSeq(wire[c][j].ns)

\* The peer received j more frames, and its confirmation arrives in an S or an I
\* frame.  An S frame is checked for activity first, an I frame only after its
\* confirmation was processed.
RecvAck(c) ==
  /\ pc[c] = "recv" /\ running[c]
  /\ \E j \in 0..Len(wire[c]), kind \in {"S", "I"} :
       LET n == PeerNumber(c, j)
       IN  /\ wire' = [wire EXCEPT ![c] = SubSeq(@, j + 1, Len(@))]
           /\ vr' = [vr EXCEPT ![c] = n]
           /\ delivered' = delivered \cup
                ({wire[c][i].id : i \in 1..j} \ {NoEvent})
           /\ IF (kind = "S" /\ ~active[c]) \/ ~SeqNoIsValid(c, n)
              THEN /\ running' = [running EXCEPT ![c] = FALSE]
                   /\ Goto(c, "check")
                   /\ UNCHANGED ack
              ELSE /\ ack' = [ack EXCEPT ![c] =
                                [n |-> n, overflow |-> Overflow(c),
                                 oldestValid |-> OldestValid(c), kind |-> kind]]
                   /\ Goto(c, "confirm")
                   /\ UNCHANGED running
  /\ UNCHANGED <<queueVars, prio, active, sendCount, kbuf>>

AfterAck(c) == IF ack[c].kind = "I" THEN "command" ELSE "check"

\* The oldest frame is covered by the number received.
Covered(c) ==
  /\ kbuf[c] # <<>>
  /\ ack[c].overflow \/ ack[c].n >= Oldest(c).seq
  /\ ack[c].n # ack[c].oldestValid

\* The loop of checkSequenceNumber finds nothing (more) to confirm.
ConfirmStop(c) ==
  /\ pc[c] = "confirm" /\ ~Covered(c)
  /\ ack' = [ack EXCEPT ![c] = NoAck]
  /\ Goto(c, AfterAck(c))
  /\ UNCHANGED <<queueVars, prio, running, active, sendCount, kbuf, peerVars>>

\* One round of the loop: the oldest frame is confirmed.
ConfirmNext(c) ==
  /\ pc[c] = "confirm" /\ Covered(c)
  /\ queue' = IF Oldest(c).id = NoEvent THEN queue
              ELSE MarkConfirmed(queue, Oldest(c).id)
  /\ kbuf' = [kbuf EXCEPT ![c] = Tail(@)]
  /\ IF Oldest(c).seq = ack[c].n \/ Len(kbuf[c]) = 1
     THEN Goto(c, AfterAck(c)) /\ ack' = [ack EXCEPT ![c] = NoAck]
     ELSE UNCHANGED <<pc, ack>>
  /\ UNCHANGED <<nextId, lost, prio, running, active, sendCount, peerVars>>

(***************************************************************************)
(* Connection thread: the handler of a command and its responses           *)
(***************************************************************************)
\* handleMessage closes a connection that receives an I frame and is not active;
\* otherwise the handler runs.  It sends any number of responses, each after
\* sendASDUInternal read isActive without a lock; "check" stands for a handler
\* that sends none (more), or finds the connection deactivated meanwhile.
Command(c) ==
  /\ pc[c] = "command"
  /\ \/ /\ active[c]
        /\ \E place \in {"reply", "check"} : Goto(c, place)
        /\ UNCHANGED running
     \/ /\ ~active[c]
        /\ Goto(c, "check")
        /\ running' = [running EXCEPT ![c] = FALSE]
  /\ UNCHANGED <<queueVars, prio, active, sendCount, kbuf, ack, peerVars>>

\* The response is sent when the window is open, else queued or dropped.
Reply(c) ==
  /\ pc[c] = "reply"
  /\ \E place \in {"check"} \cup (IF active[c] THEN {"reply"} ELSE {}) :
       Goto(c, place)
  /\ \/ /\ ~WindowFull(c)
        /\ SendFrame(c, NoEvent)
        /\ UNCHANGED prio
     \/ /\ WindowFull(c)
        /\ prio' = IF prio < PrioCap THEN prio + 1 ELSE prio
        /\ UNCHANGED <<running, sendCount, kbuf, wire>>
  /\ UNCHANGED <<queueVars, active, ack, vr, delivered>>

(***************************************************************************)
(* Connection thread: sending what waits                                   *)
(***************************************************************************)
Check(c) ==
  /\ pc[c] = "check"
  /\ Goto(c, IF running[c] /\ active[c] THEN "send" ELSE "recv")
  /\ UNCHANGED <<queueVars, prio, running, active, sendCount, kbuf, ack, peerVars>>

\* sendNextHighPriorityASDU, repeated while the queue holds responses; a full
\* window or a failed write leaves sendWaitingASDUs.
SendHigh(c) ==
  /\ pc[c] = "send" /\ prio > 0
  /\ \/ /\ WindowFull(c)
        /\ Goto(c, "recv")
        /\ UNCHANGED <<prio, running, sendCount, kbuf, wire>>
     \/ /\ ~WindowFull(c)
        /\ SendFrame(c, NoEvent)
        /\ prio' = prio - 1
        /\ Goto(c, IF running'[c] THEN "send" ELSE "recv")
  /\ UNCHANGED <<queueVars, active, ack, vr, delivered>>

\* sendNextLowPriorityASDU: one event for each round of the connection's loop.
SendLow(c) ==
  /\ pc[c] = "send" /\ prio = 0
  /\ Goto(c, "recv")
  /\ \/ /\ WindowFull(c) \/ NothingWaiting(queue)
        /\ UNCHANGED <<queue, running, sendCount, kbuf, wire>>
     \/ \E i \in DOMAIN queue :
          /\ ~WindowFull(c)
          /\ IsNextWaiting(queue, i)
          /\ queue' = [queue EXCEPT ![i].state = "sent"]
          /\ SendFrame(c, queue[i].id)
  /\ UNCHANGED <<nextId, lost, prio, active, ack, vr, delivered>>

\* The loop ends; what was sent and not confirmed, by whomever, waits again.
Close(c) ==
  /\ pc[c] = "recv" /\ ~running[c]
  /\ queue' = Requeued(queue)
  /\ Goto(c, "ended")
  /\ UNCHANGED <<nextId, lost, prio, running, active, sendCount, kbuf, ack, peerVars>>

----------------------------------------------------------------------------
\* Steps of the connection thread that need nobody else.
ThreadStep(c) ==
  \/ Activate(c) \/ ConfirmStop(c) \/ ConfirmNext(c) \/ Command(c)
  \/ Reply(c) \/ Check(c) \/ SendHigh(c) \/ SendLow(c) \/ Close(c)

Next ==
  \/ Enqueue
  \/ \E c \in Conn :
       \/ Accept(c) \/ Reap(c)
       \/ NoMessage(c) \/ Fail(c) \/ StartDt(c) \/ StopDt(c) \/ RecvAck(c)
       \/ ThreadStep(c)

Spec == Init /\ [][Next]_vars

\* Threads are scheduled; a handler sends finitely many responses; while a
\* connection is open TCP carries the frames both ways and the peer confirms what
\* it received.
Fairness ==
  \A c \in Conn :
    /\ WF_vars(ThreadStep(c) \/ NoMessage(c))
    /\ WF_vars(Reply(c) /\ pc'[c] = "check")
    /\ SF_vars(RecvAck(c) /\ wire'[c] = <<>>)

FairSpec == Spec /\ Fairness

----------------------------------------------------------------------------
TypeOK ==
  /\ queue \in Seq(Entry)
  /\ nextId \in 1..(MaxId + 1)
  /\ prio \in 0..PrioCap
  /\ pc \in [Conn -> Place]
  /\ running \in [Conn -> BOOLEAN]
  /\ active \in [Conn -> BOOLEAN]
  /\ sendCount \in [Conn -> SeqNo]
  /\ kbuf \in [Conn -> Seq(SentFrame)]
  /\ ack \in [Conn -> AckLocals]
  /\ wire \in [Conn -> Seq(Frame)]
  /\ vr \in [Conn -> SeqNo]
  /\ delivered \in SUBSET EventId
  /\ lost \in SUBSET EventId


\* A thread that is somewhere in its loop.
Live(c) == pc[c] \notin {"free", "ended"}

\* The numbers in the k-buffer follow each other up to the send counter, and
\* never more than K frames are outstanding: checkSequenceNumber compares a
\* received number with the first and the last stored one and takes whatever
\* lies between for a frame in the buffer.
Window(c) ==
  /\ Len(kbuf[c]) <= K
  /\ \A i \in 1..(Len(kbuf[c]) - 1) :
       kbuf[c][i + 1].seq = NextSeq(kbuf[c][i].seq)
  /\ kbuf[c] # <<>> => Newest(c).seq = sendCount[c]

WindowConsistent == \A c \in Conn : Live(c) /\ running[c] => Window(c)

\* Whatever a peer may legally confirm is accepted, also when the numbers wrap
\* around, when a confirmation repeats an older one, and while a former one left
\* part of the window open: a refusal would close a healthy connection.
LegalAckAccepted ==
  \A c \in Conn : pc[c] = "recv" /\ running[c] =>
    \A j \in 0..Len(wire[c]) : SeqNoIsValid(c, PeerNumber(c, j))

\* An event the queue no longer holds for transmission was received by some
\* master, or was overwritten in a full queue: over any sequence of switch-overs,
\* closed connections, retransmissions and late confirmations.
NoSilentLoss ==
  \A id \in 1..(nextId - 1) :
    \/ id \in delivered
    \/ id \in lost
    \/ \E i \in DOMAIN queue : queue[i].id = id /\ queue[i].state # "confirmed"

\* An event marked as sent is in the k-buffer of a connection whose thread still
\* runs: otherwise nobody would confirm it or put it back, and it would wait in
\* the queue for ever (setWaitingForTransmissionWhenNotConfirmed).
SentHasOwner ==
  \A i \in DOMAIN queue : queue[i].state = "sent" =>
    \E c \in Conn : /\ Live(c)
                    /\ \E j \in DOMAIN kbuf[c] : kbuf[c][j].id = queue[i].id

\* Events are outstanding on a connection in the order they were enqueued, each
\* of them once (user_guide.adoc of lib60870 calls the queue a FIFO).
SentInOrder ==
  \A c \in Conn : Live(c) =>
    \A i, j \in DOMAIN kbuf[c] :
      i < j /\ kbuf[c][i].id # NoEvent /\ kbuf[c][j].id # NoEvent
        => kbuf[c][i].id < kbuf[c][j].id

\* Only one connection of the single redundancy group is active (user_guide.adoc
\* of lib60870, "allows only a single active client connection").
SingleActive ==
  \A c, d \in Conn : Live(c) /\ Live(d) /\ active[c] /\ active[d] => c = d

\* A confirmed event leaves the queue: markAsduAsConfirmed reports anything else
\* as "message queue corrupted (not first in buffer)".
ConfirmedLeavesQueue == \A i \in DOMAIN queue : queue[i].state # "confirmed"

\* The channel keeps its promise to the application: every step of it is a step
\* of AtLeastOnce, where the events kept are those queued and not confirmed.
Kept == {queue[i].id : i \in {j \in DOMAIN queue : queue[j].state # "confirmed"}}

Promise == INSTANCE AtLeastOnce WITH pending <- Kept, received <- delivered

PromiseKept == Promise!Spec

\* While a connection stays open and active, every event reaches a master unless
\* the queue overflows, after any history of closed and switched connections.
\* Responses take precedence and share the window, whoever asked for them, so that
\* this is promised only while no handler is answering a command.
Serving(c) ==
  /\ Live(c) /\ running[c] /\ active[c]
  /\ \A d \in Conn : pc[d] # "reply"

EventsDelivered ==
  \A c \in Conn : (<>[]Serving(c)) =>
    \A id \in EventId : [](id < nextId => <>(id \in delivered \cup lost))

=============================================================================
