----------------------------- MODULE Cs104Client -----------------------------
(***************************************************************************)
(* The CS 104 master of lib60870 (cs104_connection.c) as the test client   *)
(* json-iec104-client.c uses it: one application thread that calls it, and *)
(* the thread of handleConnection.                                         *)
(*                                                                         *)
(* The two share conStateLock and sentASDUsLock.  socketWriteLock is only  *)
(* held for one write and left out, as is what a frame carries.  The peer  *)
(* is one that keeps to the protocol; what is written arrives, in order.   *)
(***************************************************************************)
EXTENDS Integers, Sequences

CONSTANTS
  ClientK, ClientW,  \* k and w of the APCI parameters
  SequenceRange,     \* 32768
  MaxConnects,       \* calls of connect
  MaxClientSends,    \* I frames of the client, over all connections
  MaxServerSends     \* I, S and U frames the peer sends of its own accord

ASSUME ClientAssumption ==
  /\ ClientK \in Nat \ {0} /\ ClientW \in Nat \ {0}
  /\ SequenceRange \in Nat /\ SequenceRange > ClientK + 1
  /\ {MaxConnects, MaxClientSends, MaxServerSends} \subseteq Nat

VARIABLES
  caller,         \* where the application is: "idle", or in a call
  handler,        \* where handleConnection is
  conStateLock, sentASDUsLock,  \* "free" or who holds it
  running, failure, close,      \* flags of the connection
  conState,
  receiveCount, sendCount, unconfirmedReceivedIMessages,
  sentASDUs,      \* the k-buffer: sequence numbers, oldest first
  outstandingTests, uMessageTimer,  \* outstandingTestFCConMessages, uMessageTimeout # 0
  looping,        \* loopRunning
  recvBuffer,       \* the frame receiveMessage put into recvBuffer
  toClient,       \* frames on their way to the client
  peer,         \* [open, got, acked, ns]: frames got, confirmed, and own N(S)
  budget,         \* what is left of the bounds: [connects, sends, served]
  refused         \* history: checkMessage turned a frame down
locks104 == <<conStateLock, sentASDUsLock>>
flags104 == <<running, failure, close>>
counters == <<receiveCount, sendCount, unconfirmedReceivedIMessages, sentASDUs>>
timers == <<outstandingTests, uMessageTimer>>
clientVars == <<caller, handler, locks104, flags104, conState, counters, timers, looping,
                recvBuffer, toClient, peer, budget, refused>>

NoFrame == [kind |-> "none", ns |-> 0, nr |-> 0]
IFrame(ns, nr) == [kind |-> "I", ns |-> ns, nr |-> nr]
SFrame(nr) == [kind |-> "S", ns |-> 0, nr |-> nr]
UFrame(name) == [kind |-> name, ns |-> 0, nr |-> 0]

\* createConnection
ClientInit ==
  /\ caller = "idle" /\ handler = "none"
  /\ conStateLock = "free" /\ sentASDUsLock = "free"
  /\ running = FALSE /\ failure = FALSE /\ close = FALSE /\ conState = "idle"
  /\ receiveCount = 0 /\ sendCount = 0 /\ unconfirmedReceivedIMessages = 0
  /\ sentASDUs = <<>> /\ outstandingTests = 0 /\ uMessageTimer = FALSE
  /\ looping = FALSE /\ recvBuffer = NoFrame /\ toClient = <<>>
  /\ peer = [open |-> FALSE, got |-> 0, acked |-> 0, ns |-> 0]
  /\ budget = [connects |-> MaxConnects, sends |-> MaxClientSends, served |-> MaxServerSends]
  /\ refused = FALSE

NextNumber(n) == (n + 1) % SequenceRange
Distance(from, to) == (to - from + SequenceRange) % SequenceRange
Reaching(frame) == IF peer.open THEN Append(toClient, frame) ELSE toClient

-----------------------------------------------------------------------------
\* The application's calls.  connectAsync joins the thread before, which has ended here.
Connect(waiting) ==
  /\ caller = "idle" /\ handler \in {"none", "ended"} /\ budget.connects > 0
  /\ budget' = [budget EXCEPT !.connects = @ - 1]
  /\ running' = FALSE /\ failure' = FALSE /\ close' = FALSE
  /\ handler' = "reset"
  /\ caller' = IF waiting THEN "connecting" ELSE "idle"
  /\ UNCHANGED <<locks104, conState, counters, timers, looping, recvBuffer, toClient, peer, refused>>

\* CS104_Connection_connect polls the flags; its lock around a look changes nothing it sees.
ConnectReturns ==
  /\ caller = "connecting" /\ (running \/ failure)
  /\ caller' = "idle"
  /\ UNCHANGED <<handler, locks104, flags104, conState, counters, timers, looping, recvBuffer, toClient,
                 peer, budget, refused>>

SendStartDT ==
  /\ caller = "idle" /\ running /\ conStateLock = "free" /\ Len(toClient) < 2
  /\ conState # "waitingForStartDT"
  /\ conState' = "waitingForStartDT"
  /\ toClient' = Reaching(UFrame("startDTCon"))
  /\ UNCHANGED <<caller, handler, locks104, flags104, counters, timers, looping, recvBuffer, peer,
                 budget, refused>>
SendStopDT ==
  /\ caller = "idle" /\ running /\ conStateLock = "free" /\ Len(toClient) < 2
  /\ conState = "active"
  /\ conState' = "waitingForStopDT" /\ unconfirmedReceivedIMessages' = 0
  /\ toClient' = Reaching(UFrame("stopDTCon"))
  /\ UNCHANGED <<caller, handler, locks104, flags104, receiveCount, sendCount, sentASDUs, timers,
                 looping, recvBuffer, peer, budget, refused>>

\* sendASDUInternal: running and room in the k-buffer are looked at without sentASDUsLock.
SendASDU ==
  /\ caller = "idle" /\ running /\ conStateLock = "free"
  /\ Len(sentASDUs) < ClientK /\ budget.sends > 0
  /\ budget' = [budget EXCEPT !.sends = @ - 1]
  /\ caller' = "sending"
  /\ UNCHANGED <<handler, locks104, flags104, conState, counters, timers, looping, recvBuffer,
                 toClient, peer, refused>>
\* sendIMessageAndUpdateSentASDUs takes sentASDUsLock, sendIMessage in it conStateLock.
TakeSentLock ==
  /\ caller = "sending" /\ sentASDUsLock = "free"
  /\ sentASDUsLock' = "caller" /\ caller' = "holding"
  /\ UNCHANGED <<handler, conStateLock, flags104, conState, counters, timers, looping, recvBuffer,
                 toClient, peer, budget, refused>>
WriteIMessage ==
  /\ caller = "holding" /\ conStateLock = "free"
  /\ conStateLock' = "caller" /\ caller' = "written"
  /\ peer' = IF peer.open THEN [peer EXCEPT !.got = NextNumber(@)] ELSE peer
  /\ UNCHANGED <<handler, sentASDUsLock, flags104, conState, counters, timers, looping, recvBuffer,
                 toClient, budget, refused>>
\* Mutant of RecordIMessage: the number from before the frame is remembered.
RecordIMessageOld ==
  /\ caller = "written"
  /\ sendCount' = NextNumber(sendCount) /\ unconfirmedReceivedIMessages' = 0
  /\ sentASDUs' = Append(sentASDUs, sendCount)
  /\ conStateLock' = "free" /\ sentASDUsLock' = "free" /\ caller' = "idle"
  /\ UNCHANGED <<handler, flags104, conState, receiveCount, timers, looping, recvBuffer, toClient,
                 peer, budget, refused>>

RecordIMessage ==
  /\ caller = "written"
  /\ sendCount' = NextNumber(sendCount) /\ unconfirmedReceivedIMessages' = 0
  /\ sentASDUs' = Append(sentASDUs, sendCount')
  /\ conStateLock' = "free" /\ sentASDUsLock' = "free" /\ caller' = "idle"
  /\ UNCHANGED <<handler, flags104, conState, receiveCount, timers, looping, recvBuffer, toClient,
                 peer, budget, refused>>

\* CS104_Connection_close sets the flag and joins the thread.
CloseConnection ==
  /\ caller = "idle" /\ handler # "none" /\ conStateLock = "free"
  /\ close' = TRUE /\ caller' = "joining"
  /\ UNCHANGED <<handler, locks104, running, failure, conState, counters, timers, looping, recvBuffer,
                 toClient, peer, budget, refused>>
Joined104 ==
  /\ caller = "joining" /\ handler = "ended"
  /\ caller' = "idle" /\ handler' = "none"
  /\ UNCHANGED <<locks104, flags104, conState, counters, timers, looping, recvBuffer, toClient, peer,
                 budget, refused>>

-----------------------------------------------------------------------------
\* handleConnection.  resetConnection clears close and failure once more.
ResetConnection ==
  /\ handler = "reset" /\ conStateLock = "free"
  /\ running' = FALSE /\ failure' = FALSE /\ close' = FALSE /\ conState' = "idle"
  /\ receiveCount' = 0 /\ sendCount' = 0 /\ unconfirmedReceivedIMessages' = 0
  /\ sentASDUs' = <<>> /\ outstandingTests' = 0 /\ uMessageTimer' = FALSE
  /\ handler' = "connect"
  /\ UNCHANGED <<caller, locks104, looping, recvBuffer, toClient, peer, budget, refused>>

\* TcpSocket_create fails: the thread ends and says nothing.
NoSocket ==
  /\ handler = "connect" /\ handler' = "ended"
  /\ UNCHANGED <<caller, locks104, flags104, conState, counters, timers, looping, recvBuffer, toClient,
                 peer, budget, refused>>
SocketConnect ==
  /\ handler = "connect" /\ conStateLock = "free"
  /\ \/ /\ running' = TRUE /\ failure' = failure /\ handler' = "opened" /\ looping' = TRUE
        /\ peer' = [open |-> TRUE, got |-> 0, acked |-> 0, ns |-> 0] /\ toClient' = <<>>
     \/ /\ failure' = TRUE /\ running' = running /\ handler' = "leave"
        /\ UNCHANGED <<looping, peer, toClient>>
  /\ UNCHANGED <<caller, locks104, close, conState, counters, timers, recvBuffer, budget, refused>>
SetInactive ==
  /\ handler = "opened" /\ conStateLock = "free"
  /\ conState' = "inactive" /\ handler' = "poll"
  /\ UNCHANGED <<caller, locks104, flags104, counters, timers, looping, recvBuffer, toClient, peer,
                 budget, refused>>

\* Handleset_waitReady and receiveMessage.
ReceiveMessage ==
  /\ handler = "poll" /\ toClient # <<>>
  /\ recvBuffer' = Head(toClient) /\ toClient' = Tail(toClient)
  /\ handler' = "message"
  /\ UNCHANGED <<caller, locks104, flags104, conState, counters, timers, looping, peer, budget,
                 refused>>
ReceiveError ==
  /\ handler = "poll" /\ toClient = <<>> /\ ~peer.open /\ conStateLock = "free"
  /\ failure' = TRUE /\ looping' = FALSE /\ handler' = "confirm"
  /\ UNCHANGED <<caller, locks104, running, close, conState, counters, timers, recvBuffer, toClient,
                 peer, budget, refused>>
NothingReady ==
  /\ handler = "poll" /\ toClient = <<>> /\ peer.open
  /\ handler' = "timeouts"
  /\ UNCHANGED <<caller, locks104, flags104, conState, counters, timers, looping, recvBuffer, toClient,
                 peer, budget, refused>>

LockForMessage ==
  /\ handler = "message" /\ conStateLock = "free"
  /\ conStateLock' = "handler" /\ handler' = "check"
  /\ UNCHANGED <<caller, sentASDUsLock, flags104, conState, counters, timers, looping, recvBuffer,
                 toClient, peer, budget, refused>>

\* checkSequenceNumber
Oldest104 == Head(sentASDUs)
Newest104 == sentASDUs[Len(sentASDUs)]
OldestValid == (Oldest104 - 1 + SequenceRange) % SequenceRange
SeqNoIsValid(nr) ==
  IF sentASDUs = <<>> THEN nr = sendCount
  ELSE \/ nr = OldestValid
       \/ IF Oldest104 <= Newest104 THEN nr \in Oldest104 .. Newest104
          ELSE nr >= Oldest104 \/ nr <= Newest104
AfterConfirmation(nr) ==
  IF sentASDUs = <<>> \/ nr = OldestValid THEN sentASDUs
  ELSE SubSeq(sentASDUs, Distance(Oldest104, nr) + 2, Len(sentASDUs))

\* checkMessage with conStateLock held; I and S frames take sentASDUsLock in it.
CheckNumbered ==
  /\ handler = "check" /\ recvBuffer.kind \in {"I", "S"} /\ sentASDUsLock = "free"
  /\ LET inOrder == recvBuffer.kind = "I" => recvBuffer.ns = receiveCount
         good == inOrder /\ SeqNoIsValid(recvBuffer.nr)
     IN /\ sentASDUs' = IF good THEN AfterConfirmation(recvBuffer.nr) ELSE sentASDUs
        /\ IF good /\ recvBuffer.kind = "I"
             THEN /\ receiveCount' = NextNumber(receiveCount)
                  /\ unconfirmedReceivedIMessages' = unconfirmedReceivedIMessages + 1
             ELSE UNCHANGED <<receiveCount, unconfirmedReceivedIMessages>>
        /\ looping' = good /\ failure' = ~good /\ refused' = (refused \/ ~good)
  /\ conStateLock' = "free" /\ handler' = "confirm" /\ recvBuffer' = NoFrame
  /\ UNCHANGED <<caller, sentASDUsLock, running, close, conState, sendCount, timers, toClient,
                 peer, budget>>
\* Mutant of CheckUnnumbered: conStateLock is not released.
CheckUnnumberedLocked ==
  /\ handler = "check" /\ recvBuffer.kind \notin {"I", "S"}
  /\ uMessageTimer' = FALSE
  /\ outstandingTests' = IF recvBuffer.kind = "testCon" THEN 0 ELSE outstandingTests
  /\ conState' = CASE recvBuffer.kind = "startDTCon" -> "active"
                   [] recvBuffer.kind = "stopDTCon"  -> "inactive"
                   [] OTHER                        -> conState
  /\ handler' = "confirm" /\ recvBuffer' = NoFrame
  /\ UNCHANGED <<caller, locks104, flags104, counters, looping, toClient, peer, budget, refused>>

CheckUnnumbered ==
  /\ handler = "check" /\ recvBuffer.kind \notin {"I", "S"}
  /\ uMessageTimer' = FALSE
  /\ outstandingTests' = IF recvBuffer.kind = "testCon" THEN 0 ELSE outstandingTests
  /\ conState' = CASE recvBuffer.kind = "startDTCon" -> "active"
                   [] recvBuffer.kind = "stopDTCon"  -> "inactive"
                   [] OTHER                        -> conState
  /\ conStateLock' = "free" /\ handler' = "confirm" /\ recvBuffer' = NoFrame
  /\ UNCHANGED <<caller, sentASDUsLock, flags104, counters, looping, toClient, peer, budget,
                 refused>>

\* The test after a message, which is not under conStateLock.
ConfirmReceived ==
  /\ handler = "confirm" /\ handler' = "timeouts"
  /\ unconfirmedReceivedIMessages' =
       IF unconfirmedReceivedIMessages >= ClientW \/ conState = "waitingForStopDT"
         THEN 0 ELSE unconfirmedReceivedIMessages
  /\ UNCHANGED <<caller, locks104, flags104, conState, receiveCount, sendCount, sentASDUs, timers,
                 looping, recvBuffer, toClient, peer, budget, refused>>

\* handleTimeouts: T3 (a test, or the end after three without an answer), then T2, then T1
\* of a U frame; the rest needs sentASDUsLock as well.
HandleTimeouts ==
  /\ handler = "timeouts" /\ conStateLock = "free"
  /\ \E t3, t2, t1 \in BOOLEAN :
       /\ t1 => uMessageTimer /\ ~t3
       /\ t2 => unconfirmedReceivedIMessages > 0
       /\ t3 => Len(toClient) < 2
       /\ LET dead == t3 /\ outstandingTests > 2 IN
          /\ IF t3 /\ ~dead
               THEN /\ outstandingTests' = outstandingTests + 1 /\ uMessageTimer' = TRUE
                    /\ toClient' = Reaching(UFrame("testCon"))
               ELSE UNCHANGED <<timers, toClient>>
          /\ unconfirmedReceivedIMessages' =
               IF t2 /\ ~dead THEN 0 ELSE unconfirmedReceivedIMessages
          /\ IF dead \/ t1
               THEN looping' = FALSE /\ handler' = "closeCheck" /\ UNCHANGED conStateLock
               ELSE looping' = looping /\ handler' = "supervise" /\ conStateLock' = "handler"
  /\ UNCHANGED <<caller, sentASDUsLock, flags104, conState, receiveCount, sendCount, sentASDUs,
                 recvBuffer, peer, budget, refused>>
Supervise ==
  /\ handler = "supervise" /\ sentASDUsLock = "free"
  /\ looping' \in (IF sentASDUs = <<>> THEN {looping} ELSE {looping, FALSE})
  /\ conStateLock' = "free" /\ handler' = "closeCheck"
  /\ UNCHANGED <<caller, sentASDUsLock, flags104, conState, counters, timers, recvBuffer, toClient,
                 peer, budget, refused>>
CheckClose ==
  /\ handler = "closeCheck" /\ conStateLock = "free"
  /\ handler' = IF looping /\ ~close THEN "poll" ELSE "leave"
  /\ UNCHANGED <<caller, locks104, flags104, conState, counters, timers, looping, recvBuffer, toClient,
                 peer, budget, refused>>

\* The end: confirm what is unconfirmed, close the socket, and only then leave running.
LeaveConnection ==
  /\ handler = "leave" /\ conStateLock = "free"
  /\ unconfirmedReceivedIMessages' = 0 /\ conState' = "idle"
  /\ peer' = [peer EXCEPT !.open = FALSE] /\ toClient' = <<>> /\ looping' = FALSE
  /\ handler' = "stop"
  /\ UNCHANGED <<caller, locks104, flags104, receiveCount, sendCount, sentASDUs, timers, recvBuffer,
                 budget, refused>>
StopRunning ==
  /\ handler = "stop" /\ conStateLock = "free"
  /\ running' = FALSE /\ handler' = "ended"
  /\ UNCHANGED <<caller, locks104, failure, close, conState, counters, timers, looping, recvBuffer,
                 toClient, peer, budget, refused>>

-----------------------------------------------------------------------------
\* The peer: I frames and confirmations with any N(R) it may send, tests, or the end.
Served == /\ peer.open /\ budget.served > 0 /\ Len(toClient) < 2
          /\ budget' = [budget EXCEPT !.served = @ - 1]
ServerSends ==
  /\ Served
  /\ \/ \E n \in 0 .. Distance(peer.acked, peer.got) :
          LET nr == (peer.acked + n) % SequenceRange IN
          \/ /\ toClient' = Append(toClient, SFrame(nr))
             /\ peer' = [peer EXCEPT !.acked = nr]
          \/ /\ toClient' = Append(toClient, IFrame(peer.ns, nr))
             /\ peer' = [peer EXCEPT !.acked = nr, !.ns = NextNumber(@)]
     \/ toClient' = Append(toClient, UFrame("testAct")) /\ peer' = peer
     \/ peer' = [peer EXCEPT !.open = FALSE] /\ toClient' = toClient
  /\ UNCHANGED <<caller, handler, locks104, flags104, conState, counters, timers, looping, recvBuffer,
                 refused>>

CallerGoesOn ==
  ConnectReturns \/ TakeSentLock \/ WriteIMessage \/ RecordIMessage \/ Joined104
HandlerGoesOn ==
  \/ ResetConnection \/ NoSocket \/ SocketConnect \/ SetInactive \/ ReceiveMessage \/ ReceiveError
  \/ NothingReady \/ LockForMessage \/ CheckNumbered \/ CheckUnnumbered \/ ConfirmReceived
  \/ HandleTimeouts \/ Supervise \/ CheckClose \/ LeaveConnection \/ StopRunning
ClientNext ==
  \/ \E waiting \in BOOLEAN : Connect(waiting)
  \/ SendStartDT \/ SendStopDT \/ SendASDU \/ CloseConnection
  \/ CallerGoesOn \/ HandlerGoesOn \/ ServerSends
\* Both threads are scheduled.
ClientFairness == WF_clientVars(CallerGoesOn) /\ WF_clientVars(HandlerGoesOn)
ClientSpec == ClientInit /\ [][ClientNext]_clientVars /\ ClientFairness

-----------------------------------------------------------------------------
\* A peer that keeps to the protocol is never turned down: its confirmations are always
\* among the numbers in the k-buffer, however sending, receiving and wrap-around interleave.
ServerNeverRefused == ~refused

\* The k-buffer holds the numbers of the frames written and not yet confirmed, in order and
\* without a gap, and never more than k.
BufferHoldsUnconfirmed ==
  /\ Len(sentASDUs) <= ClientK
  /\ \A j \in DOMAIN sentASDUs :
       sentASDUs[j] = (sendCount - Len(sentASDUs) + j + SequenceRange) % SequenceRange

\* The two ends agree on the numbers: the buffer has those that the server may confirm, and
\* takes each confirmation of them.
NumbersAgree == ServerNeverRefused /\ BufferHoldsUnconfirmed

\* The ways a call hangs.  The caller holds sentASDUsLock and wants conStateLock, the
\* handler the other way round; or the thread's resetConnection came after close, which
\* waits for a thread that no longer knows that it is to end.
Crossed104 ==
  /\ caller = "holding" /\ conStateLock = "handler"
  /\ handler = "supervise" \/ (handler = "check" /\ recvBuffer.kind \in {"I", "S"})
CloseForgotten == caller = "joining" /\ ~close /\ handler # "ended"
\* connect polls two flags that a thread without a socket sets neither of; nor does one
\* that ended again between two looks.
ConnectUnanswered == caller = "connecting" /\ handler = "ended" /\ ~running /\ ~failure

\* Every call returns, but for those.
CallsReturn == []<>(caller = "idle" \/ Crossed104 \/ CloseForgotten \/ ConnectUnanswered)
=============================================================================
