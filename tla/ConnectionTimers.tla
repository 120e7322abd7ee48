-------------------------- MODULE ConnectionTimers --------------------------
(***************************************************************************)
(* The supervision of one connection of the CS 104 slave: when received I  *)
(* frames are confirmed (w, t2), when a silent peer is tested (t3) and     *)
(* when the connection is closed (t1).  The connection thread loops over   *)
(* handleMessage and handleTimeouts; another thread may send on the same   *)
(* connection wherever the thread holds no lock; the system clock may be   *)
(* set in between.                                                         *)
(*                                                                         *)
(* A time stamp t is kept as its distance from the clock: sinceX is        *)
(* currentTime - t, untilX is t - currentTime.  One tick is longer than a  *)
(* round of the loop, which waits for at most 100 ms.                      *)
(***************************************************************************)
EXTENDS Integers, Sequences

CONSTANTS
  T1, T2, T3,   \* conParameters.t1, t2, t3, in ticks
  TimersK, TimersW,  \* conParameters.k, w
  Jumps,        \* by how much the clock may be set, back or forward
  MaxJumps      \* bound: how often the clock is set

ASSUME TimersAssumption ==
  /\ {T1, T2, T3, TimersK, TimersW} \subseteq Nat \ {0} /\ T1 > T2
  /\ Jumps \subseteq Int /\ MaxJumps \in Nat

VARIABLES
  place,              \* of the thread: "wait", "started", "counted", "handled", "storing",
                      \* "timeouts", "stuck" (it waits for the stateLock it holds), "closed"
  isRunning, isActive,
  unconfirmed,        \* unconfirmedReceivedIMessages
  timeoutT2Triggered,
  sinceConfirmation,  \* lastConfirmationTime
  untilT3,            \* nextT3Timeout
  waitingForTestFRcon,
  untilTestCon,       \* nextTestFRConTimeout
  sinceSent,          \* the sentTime of each frame in sentASDUs, oldest first
  word,               \* "storing": the flags as the thread read them, or NoWord
  checked,            \* a round was completed since the last tick
  owed,               \* history: ticks since each I frame not confirmed to the peer arrived
  overtaken,          \* history: a frame was sent between the start of t2 and the count
  silence,            \* history: ticks since the last frame of the peer
  unanswered,         \* history: ticks since TESTFR_ACT; since each frame in sinceSent
  jumped,             \* history: how often, how far back, whether forward
  closedBy            \* history: the timer that closed the connection, or "none"
receiving104 == <<unconfirmed, timeoutT2Triggered, sinceConfirmation, owed, overtaken>>
testing104   == <<untilT3, waitingForTestFRcon, untilTestCon>>
others104    == <<word, checked, silence, jumped, closedBy>>
timerVars == <<place, isRunning, isActive, receiving104, testing104, sinceSent, unanswered,
               others104>>
NoWord == [isRunning |-> FALSE, isActive |-> FALSE]

\* MasterConnection_init; connectionHandlingThread.
TimersInit ==
  /\ place = "wait" /\ isRunning = TRUE /\ isActive = FALSE
  /\ unconfirmed = 0 /\ timeoutT2Triggered = FALSE
  /\ sinceConfirmation = 0   \* UINT64_MAX: not used before it is set
  /\ untilT3 = T3 /\ waitingForTestFRcon = FALSE /\ untilTestCon = 0
  /\ sinceSent = <<>> /\ word = NoWord /\ checked = TRUE
  /\ owed = <<>> /\ overtaken = FALSE /\ silence = 0
  /\ unanswered = [test |-> 0, sent |-> <<>>] /\ closedBy = "none"
  /\ jumped = [times |-> 0, back |-> 0, forward |-> FALSE]

-----------------------------------------------------------------------------
\* Time.  A time stamp is compared with the clock only while its timer runs; here the others
\* stand still, or at 0, and no distance grows past Far, beyond every comparison.
Far == T1 + T2 + T3
Clamp(n) == IF n > Far THEN Far ELSE IF n < -Far THEN -Far ELSE n
Shift(d) ==
  /\ sinceConfirmation' = IF unconfirmed > 0 \/ place = "started"
                            THEN Clamp(sinceConfirmation + d) ELSE sinceConfirmation
  /\ untilT3' = IF waitingForTestFRcon THEN untilT3 ELSE Clamp(untilT3 - d)
  /\ untilTestCon' = IF waitingForTestFRcon THEN Clamp(untilTestCon - d) ELSE untilTestCon
  /\ sinceSent' = [i \in DOMAIN sinceSent |-> Clamp(sinceSent[i] + d)]

PassTime ==
  /\ place = "wait" /\ checked
  /\ checked' = FALSE /\ Shift(1)
  /\ owed' = [i \in DOMAIN owed |-> owed[i] + 1] /\ silence' = silence + 1
  /\ unanswered' = [test |-> IF waitingForTestFRcon THEN Clamp(unanswered.test + 1) ELSE 0,
                    sent |-> [i \in DOMAIN sinceSent |-> Clamp(unanswered.sent[i] + 1)]]
  /\ UNCHANGED <<place, isRunning, isActive, unconfirmed, timeoutT2Triggered, overtaken,
                 waitingForTestFRcon, word, jumped, closedBy>>

SetClock(d) ==
  /\ place = "wait" /\ jumped.times < MaxJumps
  /\ Shift(d)
  /\ jumped' = [times |-> jumped.times + 1, back |-> jumped.back + (IF d < 0 THEN -d ELSE 0),
                forward |-> jumped.forward \/ d > 0]
  /\ UNCHANGED <<place, isRunning, isActive, unconfirmed, timeoutT2Triggered, waitingForTestFRcon,
                 word, checked, owed, overtaken, silence, unanswered, closedBy>>

-----------------------------------------------------------------------------
\* N(R) confirms the frames that were counted: not the one that is being handled.
Confirmed ==
  /\ owed' = IF place = "started" THEN <<owed[Len(owed)]>> ELSE <<>>
  /\ overtaken' = (place = "started")

\* sendIMessage, of any thread: an answer, a waiting ASDU, a periodic value.
SendIMessage ==
  /\ place \in {"wait", "started", "counted", "handled", "storing", "timeouts"}
  /\ isRunning /\ isActive /\ Len(sinceSent) < TimersK
  /\ unconfirmed' = 0 /\ timeoutT2Triggered' = FALSE /\ Confirmed
  /\ sinceConfirmation' = IF place = "started" THEN sinceConfirmation ELSE 0
  /\ sinceSent' = Append(sinceSent, 0)
  /\ unanswered' = [unanswered EXCEPT !.sent = Append(@, 0)]
  /\ UNCHANGED <<place, isRunning, isActive, testing104, others104>>

\* The socket takes no frame; the I frame is recorded all the same.
SendFails ==
  /\ place \in {"wait", "started", "counted", "handled", "storing", "timeouts"}
  /\ isRunning /\ isActive /\ Len(sinceSent) < TimersK
  /\ isRunning' = FALSE /\ unconfirmed' = 0
  /\ sinceSent' = Append(sinceSent, 0)
  /\ unanswered' = [unanswered EXCEPT !.sent = Append(@, 0)]
  /\ UNCHANGED <<place, isActive, timeoutT2Triggered, sinceConfirmation, owed, overtaken,
                 testing104, others104>>

\* The thread is done with a message; ok is what handleMessage returned.
Handled(ok) ==
  /\ place' = "handled" /\ isRunning' = (isRunning /\ ok)
  /\ untilT3' = IF ok THEN T3 ELSE untilT3
  /\ silence' = IF ok THEN 0 ELSE silence

\* The first part of an I frame.
StartT2 ==
  /\ timeoutT2Triggered' = TRUE
  /\ sinceConfirmation' = IF timeoutT2Triggered THEN sinceConfirmation ELSE 0

\* Mutant of ReceiveI: every frame starts t2 again.
ReceiveIAlways ==
  /\ place = "wait"
  /\ timeoutT2Triggered' = TRUE /\ sinceConfirmation' = 0
  /\ place' = "started" /\ owed' = Append(owed, 0)
  /\ UNCHANGED <<isRunning, isActive, unconfirmed, overtaken, testing104, sinceSent,
                 unanswered, others104>>

ReceiveI ==
  /\ place = "wait" /\ StartT2
  /\ place' = "started" /\ owed' = Append(owed, 0)
  /\ UNCHANGED <<isRunning, isActive, unconfirmed, overtaken, testing104, sinceSent,
                 unanswered, others104>>

\* A wrong N(S): handleMessage returns with stateLock held.
WrongSendNumber ==
  /\ place = "started" /\ place' = "stuck"
  /\ UNCHANGED <<isRunning, isActive, receiving104, testing104, sinceSent, unanswered,
                 others104>>

\* checkSequenceNumber: N(R) confirms the oldest n frames (EventChannel has the numbers).
AcknowledgeSent(n) ==
  /\ sinceSent' = SubSeq(sinceSent, n + 1, Len(sinceSent))
  /\ unanswered' = [unanswered EXCEPT !.sent = SubSeq(@, n + 1, Len(@))]

WrongReceiveNumber ==
  /\ place = "started" /\ Handled(FALSE)
  /\ UNCHANGED <<isActive, receiving104, waitingForTestFRcon, untilTestCon, sinceSent, unanswered,
                 word, checked, jumped, closedBy>>

CountI ==
  /\ place = "started" /\ place' = "counted"
  /\ \E n \in 0..Len(sinceSent) : AcknowledgeSent(n)
  /\ unconfirmed' = unconfirmed + 1
  /\ UNCHANGED <<isRunning, isActive, timeoutT2Triggered, sinceConfirmation, owed, overtaken,
                 testing104, others104>>

\* The ASDU goes to handleASDU, which may refuse it; an inactive connection is closed.
HandleAsdu ==
  /\ place = "counted"
  /\ \E ok \in BOOLEAN : (ok => isActive) /\ Handled(ok)
  /\ UNCHANGED <<isActive, receiving104, waitingForTestFRcon, untilTestCon, sinceSent, unanswered,
                 word, checked, jumped, closedBy>>

ReceiveS ==
  /\ place = "wait"
  /\ \/ \E n \in 0..Len(sinceSent) : isActive /\ AcknowledgeSent(n) /\ Handled(TRUE)
     \/ Handled(FALSE) /\ UNCHANGED <<sinceSent, unanswered>>
  /\ UNCHANGED <<isActive, receiving104, waitingForTestFRcon, untilTestCon, word, checked,
                 jumped, closedBy>>

\* TESTFR_ACT, STARTDT_ACT and TESTFR_CON; the answer to the first two may fail.
ReceiveU ==
  /\ place = "wait"
  /\ \E frame \in {"TESTFR_ACT", "STARTDT_ACT", "TESTFR_CON"}, ok \in BOOLEAN :
       /\ (frame = "TESTFR_CON" => ok) /\ Handled(ok)
       /\ isActive' = (isActive \/ frame = "STARTDT_ACT")
       /\ waitingForTestFRcon' = (waitingForTestFRcon /\ frame # "TESTFR_CON")
       /\ untilTestCon' = IF frame = "TESTFR_CON" THEN 0 ELSE untilTestCon
       /\ unanswered' = IF frame = "TESTFR_CON" THEN [unanswered EXCEPT !.test = 0] ELSE unanswered
  /\ UNCHANGED <<receiving104, sinceSent, word, checked, jumped, closedBy>>

\* STOPDT_ACT: all that was received is confirmed with an S frame.
ReceiveStopDt ==
  /\ place = "wait" /\ \E ok \in BOOLEAN : Handled(ok)
  /\ isActive' = FALSE
  /\ unconfirmed' = 0 /\ timeoutT2Triggered' = FALSE /\ sinceConfirmation' = 0 /\ Confirmed
  /\ UNCHANGED <<waitingForTestFRcon, untilTestCon, sinceSent, unanswered, word, checked, jumped,
                 closedBy>>

\* The activation of another connection of the group takes this one out of service.
Deactivated ==
  /\ isActive /\ isActive' = FALSE
  /\ UNCHANGED <<place, isRunning, receiving104, testing104, sinceSent, unanswered,
                 others104>>

\* After the message: an S frame for w frames.  timeoutT2Triggered is cleared without the lock:
\* the word it shares with isRunning and isActive is read and stored again, over what another
\* thread stored in between.
ConfirmAtW ==
  /\ place = "handled"
  /\ IF unconfirmed >= TimersW
       THEN /\ place' = "storing" /\ word' = [isRunning |-> isRunning, isActive |-> isActive]
            /\ unconfirmed' = 0 /\ sinceConfirmation' = 0
       ELSE place' = "timeouts" /\ UNCHANGED <<word, unconfirmed, sinceConfirmation>>
  /\ UNCHANGED <<isRunning, isActive, timeoutT2Triggered, owed, overtaken, testing104, sinceSent,
                 unanswered, checked, silence, jumped, closedBy>>

ConfirmWithS ==
  /\ place = "storing" /\ place' = "timeouts"
  /\ timeoutT2Triggered' = FALSE /\ Confirmed
  /\ isActive' = word.isActive /\ word' = NoWord
  /\ \E written \in BOOLEAN : isRunning' = (word.isRunning /\ written)
  /\ UNCHANGED <<unconfirmed, sinceConfirmation, testing104, sinceSent, unanswered, checked,
                 silence, jumped, closedBy>>

-----------------------------------------------------------------------------
\* handleTimeouts: after a message, or when none came.  A time stamp further away than its
\* timer is long, or in the future, is set anew.
T3Left    == IF untilT3 > T3 THEN T3 ELSE untilT3
SendsTest == ~waitingForTestFRcon /\ T3Left < 0
TestLeft  == IF SendsTest \/ untilTestCon > T1 THEN T1 ELSE untilTestCon
TestTimeout == waitingForTestFRcon /\ TestLeft < 0
Since(n)  == IF n < 0 THEN 0 ELSE n
T2Timeout == unconfirmed > 0 /\ Since(sinceConfirmation) >= T2
T1Timeout == sinceSent # <<>> /\ Since(sinceSent[1]) >= T1

handleTimeouts ==
  /\ place \in {"timeouts", "wait"}
  /\ untilT3' = IF waitingForTestFRcon THEN untilT3 ELSE T3Left
  /\ waitingForTestFRcon' = (waitingForTestFRcon \/ SendsTest)
  /\ untilTestCon' = IF waitingForTestFRcon' THEN TestLeft ELSE untilTestCon
  /\ unanswered' = IF SendsTest THEN [unanswered EXCEPT !.test = 0] ELSE unanswered
  /\ IF T2Timeout
       THEN /\ unconfirmed' = 0 /\ timeoutT2Triggered' = FALSE /\ sinceConfirmation' = 0
            /\ Confirmed
       ELSE /\ sinceConfirmation' = IF unconfirmed > 0 THEN Since(sinceConfirmation)
                                    ELSE sinceConfirmation
            /\ UNCHANGED <<unconfirmed, timeoutT2Triggered, owed, overtaken>>
  /\ sinceSent' = [i \in DOMAIN sinceSent |-> IF i = 1 THEN Since(sinceSent[i]) ELSE sinceSent[i]]
  /\ \E written \in BOOLEAN :   \* TESTFR_ACT, the S frame
       /\ ~SendsTest /\ ~T2Timeout => written
       /\ isRunning' = (isRunning /\ written /\ ~TestTimeout /\ ~T1Timeout)
  /\ closedBy' = IF ~isRunning THEN closedBy
                 ELSE IF TestTimeout THEN "test" ELSE IF T1Timeout THEN "sent" ELSE closedBy
  /\ place' = (IF isRunning' THEN "wait" ELSE "closed") /\ checked' = TRUE
  /\ UNCHANGED <<isActive, word, silence, jumped>>

\* The loop ends or the socket fails, and the object is used for the next connection.
Reconnect104 ==
  /\ place \in {"wait", "closed"}
  /\ place' = "wait" /\ isRunning' = TRUE /\ isActive' = FALSE
  /\ unconfirmed' = 0 /\ timeoutT2Triggered' = FALSE /\ sinceConfirmation' = 0
  /\ untilT3' = T3 /\ waitingForTestFRcon' = FALSE /\ untilTestCon' = 0
  /\ sinceSent' = <<>> /\ word' = NoWord /\ checked' = TRUE
  /\ owed' = <<>> /\ overtaken' = FALSE /\ silence' = 0
  /\ unanswered' = [test |-> 0, sent |-> <<>>] /\ closedBy' = "none"
  /\ UNCHANGED jumped

TimersNext ==
  \/ PassTime \/ \E d \in Jumps : SetClock(d)
  \/ SendIMessage \/ SendFails
  \/ ReceiveI \/ WrongSendNumber \/ WrongReceiveNumber \/ CountI \/ HandleAsdu
  \/ ReceiveS \/ ReceiveU \/ ReceiveStopDt \/ Deactivated
  \/ ConfirmAtW \/ ConfirmWithS \/ handleTimeouts \/ Reconnect104

TimersSpec == TimersInit /\ [][TimersNext]_timerVars

-----------------------------------------------------------------------------
\* handleTimeouts: an I frame is confirmed t2 after it came, at the latest; when another
\* thread sent a frame just while it was counted the next frame starts t2 again, which costs
\* one more t2.  A clock that is set back costs no more than it was set back by.  Between two
\* rounds fewer than w frames wait.
ConfirmedInTime ==
  place # "stuck" =>
    /\ place # "closed" => \A i \in DOMAIN owed :
                            owed[i] <= T2 + (IF overtaken THEN T2 ELSE 0) + jumped.back
    /\ place = "wait" => Len(owed) < TimersW

\* checkT3Timeout: a peer that says nothing is tested and the connection closed.
SilentPeerClosed ==
  place \notin {"stuck", "closed"} => silence <= T3 + T1 + 2 + jumped.back

\* checkTestFRConTimeout: a peer that answers in time is not closed, unless the clock was set
\* forward.
ClosedRightly ==
  ~jumped.forward => /\ closedBy = "test" => unanswered.test >= T1
                     /\ closedBy = "sent" => unanswered.sent[1] >= T1

\* The three promises of the timers together.
TimersKept == ConfirmedInTime /\ SilentPeerClosed /\ ClosedRightly
=============================================================================
