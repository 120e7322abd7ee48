---------------------------- MODULE BalancedLink ----------------------------
(***************************************************************************)
(* The balanced link layer of link_layer.c, one direction of it: the       *)
(* primary of one station (LinkLayerPrimaryBalanced) and the secondary of  *)
(* the other (LinkLayerSecondaryBalanced) over a serial line that keeps the*)
(* order of frames and loses some (a frame whose checksum is wrong is      *)
(* dropped).  A time-out is too early when the answer is still to come.    *)
(***************************************************************************)
EXTENDS Integers, Sequences

CONSTANTS
  MaxMessages,   \* user data the application has for this direction
  MaxRepeats,    \* repetitions within timeoutRepeat
  MaxLosses,     \* frames the line loses
  MaxEarly,      \* time-outs that come before an answer
  MaxForeign     \* answers a secondary of another make gives

ASSUME LinkAssumption ==
  /\ MaxMessages \in Nat /\ MaxRepeats \in Nat
  /\ MaxLosses \in Nat /\ MaxEarly \in Nat /\ MaxForeign \in Nat

VARIABLES
  primaryState,  \* PLL_...
  linkState,     \* LL_STATE_..., what the application is told
  waiting,       \* waitingForResponse
  repeats,       \* repetitions since originalSendTime
  testing,       \* sendLinkLayerTestFunction
  nextFcb,
  lastSendAsdu,  \* number of the message that is repeated, 0: none yet
  nextMessage,   \* number of the message GetUserData gives next
  expectedFcb,   \* of the secondary
  toSecondary, toPrimary,      \* frames on the line
  losses, early, foreign,      \* how often each has happened
  received,      \* history: messages the secondary handed to its application
  acknowledged,  \* history: messages the primary took as confirmed
  service,       \* history: what the last SEND/CONFIRM service was started for
  replaced       \* history: messages that were repeated as a test function
history == <<service, replaced>>
primaryVars == <<primaryState, linkState, waiting, repeats, testing, nextFcb,
                 lastSendAsdu, nextMessage, acknowledged, history>>
secondaryVars == <<expectedFcb, received>>
faults == <<losses, early, foreign>>
linkVars == <<primaryVars, secondaryVars, toSecondary, toPrimary, faults>>

\* LinkLayerPrimaryBalanced_init, LinkLayerSecondaryBalanced_init.
LinkInit ==
  /\ primaryState = "idle" /\ linkState = "idle" /\ waiting = FALSE /\ repeats = 0
  /\ testing = FALSE /\ nextFcb = TRUE /\ lastSendAsdu = 0 /\ nextMessage = 1
  /\ expectedFcb = TRUE /\ toSecondary = <<>> /\ toPrimary = <<>>
  /\ losses = 0 /\ early = 0 /\ foreign = 0
  /\ received = <<>> /\ acknowledged = {} /\ service = "none" /\ replaced = {}

\* Frames: SendFixedFrame, SendVariableLengthFrame.
Fixed(fc)          == [fc |-> fc, fcv |-> FALSE, fcb |-> FALSE, message |-> 0]
Test(fcb)          == [fc |-> "test", fcv |-> TRUE, fcb |-> fcb, message |-> 0]
UserData(m, fcb)   == [fc |-> "userData", fcv |-> TRUE, fcb |-> fcb, message |-> m]
SendFrame(f)       == toSecondary' = Append(toSecondary, f)
Answer(fc)         == [fc |-> fc, dfc |-> FALSE]

-----------------------------------------------------------------------------
\* LinkLayerPrimaryBalanced_runStateMachine, one action per state it acts in.
RequestStatus ==
  /\ primaryState = "idle"
  /\ SendFrame(Fixed("requestStatus"))
  /\ testing' = FALSE /\ waiting' = TRUE /\ primaryState' = "requestStatus"
  /\ UNCHANGED <<linkState, repeats, nextFcb, lastSendAsdu, nextMessage, acknowledged, history,
                 secondaryVars, toPrimary, faults>>

\* LinkLayerBalanced_sendLinkLayerTestFunction: the application asks in any state, also
\* while user data is not confirmed yet.
AskForTest ==
  /\ ~testing /\ testing' = TRUE
  /\ UNCHANGED <<primaryState, linkState, waiting, repeats, nextFcb, lastSendAsdu, nextMessage,
                 acknowledged, history, secondaryVars, toSecondary, toPrimary, faults>>

\* In available: a test function when the link was idle or the application has asked for
\* it, or else the next user data.
SendTest ==
  /\ primaryState = "available"
  /\ SendFrame(Test(nextFcb))
  /\ testing' = TRUE /\ nextFcb' = ~nextFcb /\ repeats' = 0
  /\ primaryState' = "sendConfirm" /\ service' = "test"
  /\ UNCHANGED <<linkState, waiting, lastSendAsdu, nextMessage, acknowledged, replaced,
                 secondaryVars, toPrimary, faults>>
SendUserData ==
  /\ primaryState = "available" /\ ~testing /\ nextMessage <= MaxMessages
  /\ SendFrame(UserData(nextMessage, nextFcb))
  /\ lastSendAsdu' = nextMessage /\ nextMessage' = nextMessage + 1
  /\ nextFcb' = ~nextFcb /\ repeats' = 0 /\ waiting' = TRUE
  /\ primaryState' = "sendConfirm" /\ service' = "userData"
  /\ UNCHANGED <<linkState, testing, acknowledged, replaced, secondaryVars, toPrimary, faults>>

\* timeoutForAck passes; early when something is still on its way.
TimeoutForAck ==
  IF toSecondary = <<>> /\ toPrimary = <<>> THEN early' = early
  ELSE early < MaxEarly /\ early' = early + 1

\* Mutant of ConnectTimeout: none for the answer to a reset.
ConnectTimeoutStatusOnly ==
  /\ primaryState = "requestStatus" /\ waiting
  /\ TimeoutForAck
  /\ primaryState' = "idle"
  /\ UNCHANGED <<linkState, waiting, repeats, testing, nextFcb, lastSendAsdu, nextMessage,
                 acknowledged, history, secondaryVars, toSecondary, toPrimary, losses, foreign>>

ConnectTimeout ==
  /\ primaryState \in {"requestStatus", "resetLink"} /\ waiting
  /\ TimeoutForAck
  /\ IF primaryState = "resetLink" THEN waiting' = FALSE /\ linkState' = "error"
                                   ELSE UNCHANGED <<waiting, linkState>>
  /\ primaryState' = "idle"
  /\ UNCHANGED <<repeats, testing, nextFcb, lastSendAsdu, nextMessage, acknowledged, history,
                 secondaryVars, toSecondary, toPrimary, losses, foreign>>

\* A repetition looks at the flag, not at what was sent: user data the test function was
\* asked for meanwhile is repeated as a test, with its frame count bit.
Repeat ==
  /\ primaryState = "sendConfirm" /\ repeats < MaxRepeats
  /\ TimeoutForAck
  /\ SendFrame(IF testing THEN Test(~nextFcb) ELSE UserData(lastSendAsdu, ~nextFcb))
  /\ repeats' = repeats + 1
  /\ replaced' = IF testing /\ service = "userData" THEN replaced \cup {lastSendAsdu}
                 ELSE replaced
  /\ UNCHANGED <<primaryState, linkState, waiting, testing, nextFcb, lastSendAsdu, nextMessage,
                 acknowledged, service, secondaryVars, toPrimary, losses, foreign>>
GiveUp ==
  /\ primaryState = "sendConfirm" /\ repeats = MaxRepeats
  /\ TimeoutForAck
  /\ primaryState' = "idle" /\ linkState' = "error"
  /\ UNCHANGED <<waiting, repeats, testing, nextFcb, lastSendAsdu, nextMessage, acknowledged,
                 history, secondaryVars, toSecondary, toPrimary, losses, foreign>>

-----------------------------------------------------------------------------
\* LinkLayerPrimaryBalanced_handleMessage, by what it does to the state.
Become(p, l) == primaryState' = p /\ linkState' = l

BusyAnswer ==
  /\ linkState' = "busy"
  /\ primaryState' = CASE primaryState \in {"requestStatus", "resetLink"} -> "requestStatus"
                       [] primaryState \in {"sendConfirm", "busy"} -> "busy"
                       [] OTHER -> primaryState
  /\ UNCHANGED <<waiting, testing, acknowledged, toSecondary>>
AckAnswer ==
  /\ IF primaryState \in {"resetLink", "sendConfirm"} THEN Become("available", "available")
     ELSE UNCHANGED <<primaryState, linkState>>
  /\ waiting' = (waiting /\ primaryState = "requestStatus")
  /\ testing' = (testing /\ primaryState # "sendConfirm")
  /\ acknowledged' = IF primaryState = "sendConfirm" /\ service = "userData"
                       THEN acknowledged \cup {lastSendAsdu} ELSE acknowledged
  /\ UNCHANGED toSecondary
NackAnswer ==
  /\ IF primaryState = "sendConfirm" THEN Become("busy", "busy")
     ELSE UNCHANGED <<primaryState, linkState>>
  /\ UNCHANGED <<waiting, testing, acknowledged, toSecondary>>
StatusAnswer ==
  /\ IF primaryState = "requestStatus"
       THEN /\ SendFrame(Fixed("resetLink"))
            /\ waiting' = TRUE
            /\ Become("resetLink", "busy")
       ELSE /\ Become("idle", "error")
            /\ UNCHANGED <<waiting, toSecondary>>
  /\ UNCHANGED <<testing, acknowledged>>
DataAnswer ==
  /\ Become("idle", "error")
  /\ UNCHANGED <<waiting, testing, acknowledged, toSecondary>>
NotImplementedAnswer ==
  /\ testing' = FALSE
  /\ IF primaryState = "sendConfirm" THEN Become("available", "available")
     ELSE UNCHANGED <<primaryState, linkState>>
  /\ UNCHANGED <<waiting, acknowledged, toSecondary>>

PrimaryReceives ==
  /\ toPrimary # <<>> /\ toPrimary' = Tail(toPrimary)
  /\ LET f == Head(toPrimary) IN
     \/ f.dfc /\ BusyAnswer
     \/ ~f.dfc /\ f.fc = "ack" /\ AckAnswer
     \/ ~f.dfc /\ f.fc = "nack" /\ NackAnswer
     \/ ~f.dfc /\ f.fc = "status" /\ StatusAnswer
     \/ ~f.dfc /\ f.fc = "data" /\ DataAnswer
     \/ ~f.dfc /\ f.fc = "notImplemented" /\ NotImplementedAnswer
  /\ UNCHANGED <<repeats, nextFcb, lastSendAsdu, nextMessage, history, secondaryVars, faults>>

-----------------------------------------------------------------------------
\* Mutant of SecondaryReceives: the frame count bit is not looked at.
SecondaryTakesAll ==
  /\ toSecondary # <<>> /\ toSecondary' = Tail(toSecondary)
  /\ LET f == Head(toSecondary) IN
     /\ received' = IF f.fc = "userData" THEN Append(received, f.message) ELSE received
     /\ toPrimary' = Append(toPrimary,
                            Answer(IF f.fc = "requestStatus" THEN "status" ELSE "ack"))
  /\ UNCHANGED <<primaryVars, faults, expectedFcb>>

\* LinkLayerSecondaryBalanced_handleMessage: a frame whose FCB is not the expected one is
\* dropped without an answer.
SecondaryReceives ==
  /\ toSecondary # <<>> /\ toSecondary' = Tail(toSecondary)
  /\ LET f == Head(toSecondary)
         valid == ~f.fcv \/ f.fcb = expectedFcb
     IN /\ expectedFcb' = IF f.fc = "resetLink" THEN TRUE
                          ELSE IF f.fcv /\ valid THEN ~expectedFcb ELSE expectedFcb
        /\ received' = IF valid /\ f.fc = "userData" THEN Append(received, f.message)
                       ELSE received
        /\ toPrimary' = IF ~valid THEN toPrimary
                        ELSE Append(toPrimary,
                                    Answer(IF f.fc = "requestStatus" THEN "status" ELSE "ack"))
  /\ UNCHANGED <<primaryVars, faults>>

\* A secondary of another make, instead, does without the data and says so.
ForeignAnswers == {[fc |-> "ack", dfc |-> TRUE], Answer("nack"), Answer("data"),
                   Answer("notImplemented")}
ForeignAnswer ==
  /\ toSecondary # <<>> /\ foreign < MaxForeign
  /\ toSecondary' = Tail(toSecondary) /\ foreign' = foreign + 1
  /\ \E a \in ForeignAnswers : toPrimary' = Append(toPrimary, a)
  /\ UNCHANGED <<primaryVars, secondaryVars, losses, early>>

LoseFrame ==
  /\ losses < MaxLosses /\ losses' = losses + 1
  /\ \/ toSecondary # <<>> /\ toSecondary' = Tail(toSecondary) /\ UNCHANGED toPrimary
     \/ toPrimary # <<>> /\ toPrimary' = Tail(toPrimary) /\ UNCHANGED toSecondary
  /\ UNCHANGED <<primaryVars, secondaryVars, early, foreign>>

RunPrimary == RequestStatus \/ SendTest \/ SendUserData \/ ConnectTimeout \/ Repeat \/ GiveUp
LinkNext ==
  \/ RunPrimary \/ AskForTest \/ PrimaryReceives \/ SecondaryReceives
  \/ ForeignAnswer \/ LoseFrame
\* LinkLayerBalanced_run is called over and over by both stations.
LinkFairness ==
  /\ WF_linkVars(RunPrimary) /\ WF_linkVars(PrimaryReceives) /\ WF_linkVars(SecondaryReceives)
LinkSpec == LinkInit /\ [][LinkNext]_linkVars /\ LinkFairness

-----------------------------------------------------------------------------
\* The application of the other station gets the messages in order and never one twice,
\* whatever is lost, repeated, late or reset: the frame count bit is what this rests on.
ReceivedOnce ==
  \A j, k \in DOMAIN received : j < k => received[j] < received[k]

\* What the primary takes as confirmed was handed to the application of the other station,
\* whatever is lost and repeated, as long as answers come in time: after late ones the
\* acknowledgement of an earlier frame, a second reset or a test, is taken for that of the
\* message.  Without any late answer a message is excepted that was repeated as a test: the
\* other station confirms the test, and a message that was lost is taken for confirmed.
ConfirmedArrived ==
  early = 0 /\ foreign = 0 =>
    \A m \in acknowledged \ replaced : \E k \in DOMAIN received : received[k] = m

\* The service the link gives: nothing twice, and nothing confirmed that did not arrive,
\* but for these.
LinkDelivers == ReceivedOnce /\ ConfirmedArrived

\* The link comes back: the primary is again and again able to send, unless it was told
\* that the other station is busy, which no state machine step leads out of.
LinkRecovers == []<>(primaryState \in {"available", "sendConfirm", "busy"})
=============================================================================
