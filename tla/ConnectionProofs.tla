--------------------------- MODULE ConnectionProofs ---------------------------
(***************************************************************************)
(* Proofs about the connections: SlaveLifecycle, for every number of       *)
(* connection objects and places of the client list; the two ends of an    *)
(* IEC 104 connection, ConnectionTimers, for all lengths of t1 > t2 and    *)
(* t3, all k and w, and a clock that is set by any amount any number of    *)
(* times, and Cs104Client, for any k and any range of sequence numbers     *)
(* above k + 1.                                                            *)
(***************************************************************************)
EXTENDS SlaveLifecycle, ConnectionTimers, Cs104Client, FiniteSetTheorems, SequenceTheorems,
        WellFoundedInduction, TLAPS

(***************************************************************************)
(* The inductive invariant of the slave's timers                           *)
(***************************************************************************)
\* Types.  A distance of a time stamp from the clock stays within Far.
Offsets == -Far..Far

Flags ==
  /\ place \in {"wait", "started", "counted", "handled", "storing", "timeouts", "stuck", "closed"}
  /\ isRunning \in BOOLEAN /\ isActive \in BOOLEAN /\ timeoutT2Triggered \in BOOLEAN
  /\ waitingForTestFRcon \in BOOLEAN /\ checked \in BOOLEAN /\ overtaken \in BOOLEAN
  /\ word \in [isRunning : BOOLEAN, isActive : BOOLEAN]
  /\ closedBy \in {"none", "test", "sent"}

Counters ==
  /\ unconfirmed \in Nat /\ silence \in Nat /\ owed \in Seq(Nat)
  /\ sinceConfirmation \in Offsets /\ untilT3 \in Offsets /\ untilTestCon \in Offsets
  /\ sinceSent \in Seq(Offsets)
  /\ unanswered \in [test : Nat, sent : Seq(Nat)]
  /\ jumped \in [times : Nat, back : Nat, forward : BOOLEAN]

TimersTypeOK == Flags /\ Counters

\* The connection goes on; the ticks since the last round of the loop; what a second start of
\* t2 costs a frame.
Open == place \notin {"stuck", "closed"}
Unchecked == IF checked THEN 0 ELSE 1
SecondStart == IF overtaken /\ timeoutT2Triggered THEN T2 ELSE 0

\* The counter of received frames is the number of frames not confirmed, but for the one that
\* is being handled, and below w between two rounds.
FramesCounted ==
  /\ place = "started" => owed # <<>> /\ owed[Len(owed)] = 0
  /\ place = "storing" => unconfirmed = 0
  /\ place = "wait" => Len(owed) < TimersW
  /\ isRunning /\ place = "timeouts" => Len(owed) < TimersW
  /\ isRunning /\ place \in {"wait", "counted", "handled", "timeouts"} => unconfirmed = Len(owed)
  /\ isRunning /\ place = "started" => unconfirmed + 1 = Len(owed)

\* A frame that waits is no older than t2 allows: t2 runs for it, from lastConfirmationTime,
\* which is no younger than the frame but for a second start and a clock that was set back.
FramesConfirmed ==
  /\ sinceConfirmation + jumped.back >= 0
  /\ owed # <<>> => timeoutT2Triggered \/ overtaken
  /\ Open => \A i \in 1..Len(owed) :
               owed[i] + 1 <= T2 + SecondStart + jumped.back + Unchecked
  /\ Open /\ isRunning /\ place # "storing" =>
       \A i \in 1..Len(owed) : owed[i] <= sinceConfirmation + SecondStart + jumped.back

\* The silence of the peer is bounded by what t3, or t3 and the test frame, have run.
SilenceBounded ==
  Open =>
    /\ ~waitingForTestFRcon => /\ silence <= T3 + jumped.back + Unchecked
                               /\ silence <= T3 + jumped.back - untilT3
    /\ waitingForTestFRcon => /\ silence <= T3 + T1 + 1 + jumped.back + Unchecked
                              /\ silence <= T3 + T1 + 1 + jumped.back - untilTestCon

\* Time stamps of sent frames are as old as the frames, at most.
SendsTimed ==
  /\ Len(unanswered.sent) = Len(sinceSent)
  /\ ~jumped.forward => \A i \in 1..Len(sinceSent) : sinceSent[i] <= unanswered.sent[i]

\* The test frame's timer ends t1 after the frame was sent, at the earliest.
TestTimed ==
  ~jumped.forward /\ Open /\ waitingForTestFRcon =>
    untilTestCon + Unchecked >= 0 /\ T1 <= unanswered.test + untilTestCon

\* Only a connection whose timer ran out is closed by it.
ClosedByTimer ==
  /\ closedBy # "none" => place = "closed"
  /\ ~jumped.forward => /\ closedBy = "test" => unanswered.test >= T1
                        /\ closedBy = "sent" => unanswered.sent[1] >= T1

\* The inductive invariant.
TimersInv ==
  /\ TimersTypeOK /\ FramesCounted /\ FramesConfirmed /\ SilenceBounded
  /\ SendsTimed /\ TestTimed /\ ClosedByTimer

-----------------------------------------------------------------------------
\* Lengths of the timers, and what Clamp does to a distance.
LEMMA TimerLengths ==
  /\ T1 \in Nat /\ T2 \in Nat /\ T3 \in Nat /\ T2 >= 1 /\ T1 > T2 /\ T3 >= 1
  /\ Far \in Nat /\ Far = T1 + T2 + T3 /\ TimersW \in Nat /\ TimersW >= 1 /\ Jumps \subseteq Int
BY TimersAssumption DEF TimersAssumption, Far

\* Clamp keeps a distance within Far and loses nothing below it.
LEMMA ClampKeeps ==
  ASSUME NEW n \in Int
  PROVE  /\ Clamp(n) \in -Far..Far
         /\ n <= Far => n <= Clamp(n)
         /\ n >= -Far => Clamp(n) <= n
         /\ n > Far => Clamp(n) = Far
         /\ n < -Far => Clamp(n) = -Far
BY TimerLengths DEF Clamp

LEMMA ClampOrder ==
  ASSUME NEW m \in Int, NEW n \in Int, m <= n
  PROVE  Clamp(m) <= Clamp(n)
BY TimerLengths DEF Clamp

\* What is left of a sequence.
LEMMA RestOf ==
  ASSUME NEW S, NEW s \in Seq(S), NEW n \in Nat, NEW k \in Nat, k = Len(s)
  PROVE  SubSeq(s, n + 1, k) \in Seq(S)
<1>1. \A i \in n + 1..k : s[i] \in S
  BY ElementOfSeq
<1> QED
  BY <1>1, SubSeqProperties

\* A time stamp in the future counts as now.
LEMMA SinceKeeps ==
  ASSUME NEW n \in -Far..Far
  PROVE  Since(n) \in -Far..Far /\ Since(n) >= n /\ Since(n) >= 0 /\ (n >= 0 => Since(n) = n)
BY TimerLengths DEF Since

\* The distances of the frames under way, moved one by one.
LEMMA MapSeq ==
  ASSUME NEW S, NEW T, NEW s \in Seq(S), NEW t, t = [i \in DOMAIN s |-> t[i]],
         \A i \in 1..Len(s) : t[i] \in T
  PROVE  t \in Seq(T) /\ Len(t) = Len(s) /\ DOMAIN s = 1..Len(s)
<1>1. PICK n \in Nat : n = Len(s)
  OBVIOUS
<1>2. DOMAIN s = 1..n
  BY <1>1
<1>3. t \in [1..n -> T]
  BY <1>1, <1>2
<1>4. t \in Seq(T)
  BY <1>3
<1>5. Len(t) = n
  BY <1>2, <1>4
<1> QED
  BY <1>1, <1>2, <1>4, <1>5

\* Every step keeps the types of the flags.
LEMMA FlagsStep ==
  ASSUME Flags, TimersNext
  PROVE  Flags'
<1> USE DEF Flags, receiving104, testing104, others104
<1>1. CASE PassTime
  BY <1>1 DEF PassTime
<1>2. ASSUME NEW d \in Jumps, SetClock(d)
      PROVE  Flags'
  BY <1>2 DEF SetClock
<1>3. CASE SendIMessage
  BY <1>3 DEF SendIMessage, Confirmed
<1>4. CASE SendFails
  BY <1>4 DEF SendFails
<1>5. CASE ReceiveI
  BY <1>5 DEF ReceiveI, StartT2
<1>6. CASE WrongSendNumber
  BY <1>6 DEF WrongSendNumber
<1>7. CASE WrongReceiveNumber
  BY <1>7 DEF WrongReceiveNumber, Handled
<1>8. CASE CountI
  BY <1>8 DEF CountI
<1>9. CASE HandleAsdu
  BY <1>9 DEF HandleAsdu, Handled
<1>10. CASE ReceiveS
  BY <1>10 DEF ReceiveS, Handled
<1>11. CASE ReceiveU
  BY <1>11 DEF ReceiveU, Handled
<1>12. CASE ReceiveStopDt
  BY <1>12 DEF ReceiveStopDt, Handled, Confirmed
<1>13. CASE Deactivated
  BY <1>13 DEF Deactivated
<1>14. CASE ConfirmAtW
  BY <1>14 DEF ConfirmAtW
<1>15. CASE ConfirmWithS
  BY <1>15 DEF ConfirmWithS, NoWord, Confirmed
<1>16. CASE handleTimeouts
  <2>1. timeoutT2Triggered' \in BOOLEAN /\ overtaken' \in BOOLEAN
    BY <1>16 DEF handleTimeouts, Confirmed
  <2>2. closedBy' \in {closedBy, "test", "sent"}
    BY <1>16 DEF handleTimeouts
  <2>3. /\ isRunning' \in BOOLEAN /\ waitingForTestFRcon' \in BOOLEAN /\ checked' \in BOOLEAN
        /\ place' \in {"wait", "closed"} /\ isActive' = isActive /\ word' = word
    BY <1>16 DEF handleTimeouts, SendsTest, TestTimeout, T1Timeout
  <2> QED
    BY <2>1, <2>2, <2>3
<1>17. CASE Reconnect104
  BY <1>17 DEF Reconnect104, NoWord
<1> QED
  BY <1>1, <1>2, <1>3, <1>4, <1>5, <1>6, <1>7, <1>8, <1>9, <1>10, <1>11, <1>12, <1>13, <1>14,
     <1>15, <1>16, <1>17 DEF TimersNext

\* What handleTimeouts does about the frames that are not confirmed.
LEMMA TimeoutsConfirm ==
  ASSUME handleTimeouts
  PROVE  /\ UNCHANGED <<silence, jumped>>
         /\ T2Timeout => /\ unconfirmed' = 0 /\ sinceConfirmation' = 0 /\ owed' = <<>>
                         /\ timeoutT2Triggered' = FALSE /\ overtaken' = FALSE
         /\ ~T2Timeout => /\ sinceConfirmation' = (IF unconfirmed > 0 THEN Since(sinceConfirmation)
                                                   ELSE sinceConfirmation)
                          /\ UNCHANGED <<unconfirmed, timeoutT2Triggered, owed, overtaken>>
         /\ owed' = <<>> \/ owed' = owed
         /\ unconfirmed' = 0 \/ unconfirmed' = unconfirmed
<1>1. place # "started" /\ UNCHANGED <<silence, jumped>>
  BY DEF handleTimeouts
<1>2. CASE T2Timeout
  BY <1>1, <1>2 DEF handleTimeouts, Confirmed
<1>3. CASE ~T2Timeout
  BY <1>1, <1>3 DEF handleTimeouts
<1> QED
  BY <1>1, <1>2, <1>3

\* Every step keeps the types of counters, time stamps and histories.
LEMMA CountersStep ==
  ASSUME Flags, Counters, FramesCounted, SendsTimed, TimersNext
  PROVE  Counters'
<1> USE DEF Counters, receiving104, testing104, others104
<1>a. 0 \in Offsets /\ T1 \in Offsets /\ T3 \in Offsets /\ Offsets \subseteq Int
  BY TimerLengths DEF Offsets
<1>b. \A n \in Int : Clamp(n) \in Offsets
  BY ClampKeeps DEF Offsets
<1>c. DOMAIN owed = 1..Len(owed) /\ DOMAIN sinceSent = 1..Len(sinceSent)
  OBVIOUS
<1>d. unanswered.sent \in Seq(Nat) /\ Append(unanswered.sent, 0) \in Seq(Nat)
  OBVIOUS
<1>e. [unanswered EXCEPT !.test = 0] \in [test : Nat, sent : Seq(Nat)]
  OBVIOUS
<1>0. /\ 0 \in Offsets /\ T1 \in Offsets /\ T3 \in Offsets
      /\ DOMAIN owed = 1..Len(owed) /\ DOMAIN sinceSent = 1..Len(sinceSent)
      /\ Offsets \subseteq Int /\ \A n \in Int : Clamp(n) \in Offsets
  BY <1>a, <1>b, <1>c
<1>1. ASSUME NEW d \in Int, Shift(d)
      PROVE  /\ sinceConfirmation' \in Offsets /\ untilT3' \in Offsets
             /\ untilTestCon' \in Offsets /\ sinceSent' \in Seq(Offsets)
  <2>1. sinceConfirmation' \in Offsets
    BY <1>0, <1>1 DEF Shift
  <2>2. untilT3' \in Offsets
    BY <1>0, <1>1 DEF Shift
  <2>3. untilTestCon' \in Offsets
    BY <1>0, <1>1 DEF Shift
  <2>4. /\ sinceSent' = [i \in DOMAIN sinceSent |-> sinceSent'[i]]
        /\ \A i \in 1..Len(sinceSent) : sinceSent'[i] = Clamp(sinceSent[i] + d)
    BY <1>0, <1>1 DEF Shift
  <2>5. ASSUME NEW i \in 1..Len(sinceSent)
        PROVE  sinceSent'[i] \in Offsets
    <3>1. sinceSent[i] \in Offsets
      OBVIOUS
    <3>2. sinceSent[i] \in Int
      BY <1>a, <3>1
    <3>3. Clamp(sinceSent[i] + d) \in Offsets
      BY <1>b, <3>2
    <3> QED
      BY <2>4, <3>3
  <2> QED
    BY <2>1, <2>2, <2>3, <2>4, <2>5, MapSeq
<1>2. CASE PassTime
  <2>1. /\ owed' = [i \in DOMAIN owed |-> owed'[i]]
        /\ \A i \in 1..Len(owed) : owed'[i] \in Nat
    BY <1>0, <1>2 DEF PassTime
  <2>2. owed' \in Seq(Nat)
    BY <2>1, MapSeq
  <2>3. /\ unanswered'.sent = [i \in DOMAIN sinceSent |-> unanswered'.sent[i]]
        /\ \A i \in 1..Len(sinceSent) : unanswered'.sent[i] = Clamp(unanswered.sent[i] + 1)
        /\ unanswered' = [test |-> unanswered'.test, sent |-> unanswered'.sent]
        /\ unanswered'.test \in {0, Clamp(unanswered.test + 1)}
    BY <1>0, <1>2 DEF PassTime
  <2>4. \A n \in Nat : Clamp(n + 1) \in Nat
    BY TimerLengths DEF Clamp
  <2>5. ASSUME NEW i \in 1..Len(sinceSent)
        PROVE  unanswered'.sent[i] \in Nat
    <3>1. i \in 1..Len(unanswered.sent)
      BY DEF SendsTimed
    <3>2. unanswered.sent[i] \in Nat
      BY <1>d, <3>1, ElementOfSeq
    <3> QED
      BY <2>3, <2>4, <3>2
  <2>6. unanswered'.sent \in Seq(Nat)
    BY <2>3, <2>5, MapSeq
  <2>7. unanswered' \in [test : Nat, sent : Seq(Nat)]
    BY <2>3, <2>4, <2>6
  <2>8. Shift(1) /\ 1 \in Int /\ UNCHANGED <<unconfirmed, jumped>> /\ silence' \in Nat
    BY <1>2 DEF PassTime
  <2> QED
    BY <1>1, <2>2, <2>7, <2>8
<1>3. ASSUME NEW d \in Jumps, SetClock(d)
      PROVE  Counters'
  <2>1. d \in Int /\ Shift(d)
    BY <1>3, TimerLengths DEF SetClock
  <2>2. jumped' \in [times : Nat, back : Nat, forward : BOOLEAN]
    BY <1>3, <2>1 DEF SetClock
  <2>3. UNCHANGED <<unconfirmed, silence, owed, unanswered>>
    BY <1>3 DEF SetClock
  <2> QED
    BY <1>1, <2>1, <2>2, <2>3
<1>4. CASE SendIMessage
  <2>1. /\ owed' \in Seq(Nat) /\ unconfirmed' \in Nat
        /\ UNCHANGED <<silence, untilT3, untilTestCon, jumped>>
    BY <1>4 DEF SendIMessage, Confirmed, FramesCounted
  <2>2. sinceSent' \in Seq(Offsets) /\ sinceConfirmation' \in Offsets
    BY <1>0, <1>4 DEF SendIMessage
  <2>3. unanswered' \in [test : Nat, sent : Seq(Nat)]
    BY <1>4, <1>d DEF SendIMessage
  <2> QED
    BY <2>1, <2>2, <2>3
<1>5. CASE SendFails
  <2>1. sinceSent' \in Seq(Offsets)
    BY <1>0, <1>5 DEF SendFails
  <2>2. unanswered' \in [test : Nat, sent : Seq(Nat)]
    BY <1>5, <1>d DEF SendFails
  <2>3. /\ unconfirmed' \in Nat
        /\ UNCHANGED <<silence, owed, sinceConfirmation, untilT3, untilTestCon, jumped>>
    BY <1>5 DEF SendFails
  <2> QED
    BY <2>1, <2>2, <2>3
<1>6. CASE ReceiveI
  BY <1>0, <1>6 DEF ReceiveI, StartT2
<1>7. CASE WrongSendNumber
  BY <1>7 DEF WrongSendNumber
<1>8. ASSUME NEW ok, Handled(ok)
      PROVE  untilT3' \in Offsets /\ silence' \in Nat
  BY <1>0, <1>8 DEF Handled
<1>9. CASE WrongReceiveNumber
  BY <1>8, <1>9 DEF WrongReceiveNumber
<1>10. ASSUME NEW n \in 0..Len(sinceSent), AcknowledgeSent(n)
      PROVE  sinceSent' \in Seq(Offsets) /\ unanswered' \in [test : Nat, sent : Seq(Nat)]
  <2>1. PICK k \in Nat, p \in Seq(Offsets), u \in Seq(Nat) :
          p = sinceSent /\ u = unanswered.sent /\ k = Len(p) /\ k = Len(u)
    BY <1>d DEF SendsTimed
  <2>2. SubSeq(p, n + 1, k) \in Seq(Offsets) /\ SubSeq(u, n + 1, k) \in Seq(Nat)
    <3>1. n \in Nat
      BY <2>1
    <3>2. SubSeq(p, n + 1, k) \in Seq(Offsets)
      BY <2>1, <3>1, RestOf
    <3>3. SubSeq(u, n + 1, k) \in Seq(Nat)
      BY <2>1, <3>1, RestOf
    <3> QED
      BY <3>2, <3>3
  <2>3. /\ sinceSent' = SubSeq(p, n + 1, k)
        /\ unanswered' = [unanswered EXCEPT !.sent = SubSeq(u, n + 1, k)]
    BY <1>10, <2>1 DEF AcknowledgeSent
  <2> QED
    BY <1>d, <2>2, <2>3
<1>11. CASE CountI
  <2>1. PICK n \in 0..Len(sinceSent) : AcknowledgeSent(n)
    BY <1>11 DEF CountI
  <2>2. /\ unconfirmed' \in Nat
        /\ UNCHANGED <<silence, owed, sinceConfirmation, untilT3, untilTestCon, jumped>>
    BY <1>11 DEF CountI
  <2> QED
    BY <1>10, <2>1, <2>2
<1>12. CASE HandleAsdu
  BY <1>8, <1>12 DEF HandleAsdu
<1>13. CASE ReceiveS
  <2>1. sinceSent' \in Seq(Offsets) /\ unanswered' \in [test : Nat, sent : Seq(Nat)]
    BY <1>10, <1>13 DEF ReceiveS
  <2>2. untilT3' \in Offsets /\ silence' \in Nat
    BY <1>8, <1>13 DEF ReceiveS
  <2>3. UNCHANGED <<unconfirmed, owed, sinceConfirmation, untilTestCon, jumped>>
    BY <1>13 DEF ReceiveS
  <2> QED
    BY <2>1, <2>2, <2>3
<1>14. CASE ReceiveU
  <2>1. unanswered' \in [test : Nat, sent : Seq(Nat)]
    BY <1>14, <1>e DEF ReceiveU
  <2>2. untilT3' \in Offsets /\ silence' \in Nat
    BY <1>8, <1>14 DEF ReceiveU
  <2>3. /\ untilTestCon' \in Offsets
        /\ UNCHANGED <<unconfirmed, owed, sinceConfirmation, sinceSent, jumped>>
    BY <1>0, <1>14 DEF ReceiveU
  <2> QED
    BY <2>1, <2>2, <2>3
<1>15. CASE ReceiveStopDt
  <2>1. untilT3' \in Offsets /\ silence' \in Nat
    BY <1>8, <1>15 DEF ReceiveStopDt
  <2>2. /\ owed' \in Seq(Nat) /\ unconfirmed' \in Nat /\ sinceConfirmation' \in Offsets
        /\ UNCHANGED <<untilTestCon, sinceSent, unanswered, jumped>>
    BY <1>0, <1>15 DEF ReceiveStopDt, Confirmed
  <2> QED
    BY <2>1, <2>2
<1>16. CASE Deactivated
  BY <1>16 DEF Deactivated
<1>17. CASE ConfirmAtW
  BY <1>0, <1>17 DEF ConfirmAtW
<1>18. CASE ConfirmWithS
  BY <1>18 DEF ConfirmWithS, Confirmed
<1>19. CASE handleTimeouts
  <2>1. \A n \in Offsets : Since(n) \in Offsets
    BY SinceKeeps DEF Offsets
  <2>2. /\ sinceSent' = [i \in DOMAIN sinceSent |-> sinceSent'[i]]
        /\ \A i \in 1..Len(sinceSent) : sinceSent'[i] \in Offsets
    BY <1>0, <1>19, <2>1, SMTT(30) DEF handleTimeouts
  <2>3. sinceSent' \in Seq(Offsets)
    BY <2>2, MapSeq
  <2>4. untilT3' \in Offsets /\ untilTestCon' \in Offsets
    BY <1>0, <1>19 DEF handleTimeouts, T3Left, TestLeft
  <2>5. sinceConfirmation' \in Offsets
    BY <1>0, <1>19, <2>1 DEF handleTimeouts
  <2>6. unanswered' \in [test : Nat, sent : Seq(Nat)]
    BY <1>19, <1>e DEF handleTimeouts
  <2>7. /\ owed' = <<>> \/ owed' = owed
        /\ unconfirmed' = 0 \/ unconfirmed' = unconfirmed
        /\ UNCHANGED <<silence, jumped>>
    BY <1>19, TimeoutsConfirm
  <2>8. owed' \in Seq(Nat)
    <3>1. <<>> \in Seq(Nat) /\ owed \in Seq(Nat)
      OBVIOUS
    <3> HIDE DEF Counters
    <3> QED
      BY <2>7, <3>1
  <2>9. unconfirmed' \in Nat
    BY <2>7
  <2> QED
    BY <2>3, <2>4, <2>5, <2>6, <2>7, <2>8, <2>9
<1>20. CASE Reconnect104
  BY <1>0, <1>20 DEF Reconnect104
<1> QED
  BY <1>2, <1>3, <1>4, <1>5, <1>6, <1>7, <1>9, <1>11, <1>12, <1>13, <1>14, <1>15, <1>16,
     <1>17, <1>18, <1>19, <1>20 DEF TimersNext

\* Every step keeps the count of received frames true: SendIMessage, STOPDT, w and t2 reset it,
\* and only CountI adds to it.
LEMMA CountedStep ==
  ASSUME TimersTypeOK, FramesCounted, TimersNext
  PROVE  FramesCounted'
<1> USE DEF FramesCounted, receiving104, testing104, others104
<1>0. PICK n \in Nat : n = Len(owed)
  BY DEF TimersTypeOK, Counters
<1>1. /\ unconfirmed \in Nat /\ owed \in Seq(Nat) /\ isRunning \in BOOLEAN
      /\ DOMAIN owed = 1..n /\ TimersW \in Nat /\ TimersW >= 1
  BY <1>0, TimerLengths DEF TimersTypeOK, Flags, Counters
<1>2. CASE PassTime
  <2>1. /\ owed' = [i \in DOMAIN owed |-> owed'[i]]
        /\ \A i \in 1..Len(owed) : owed'[i] \in Nat
    BY <1>0, <1>1, <1>2 DEF PassTime
  <2>2. Len(owed') = n
    BY <1>0, <1>1, <2>1, MapSeq
  <2>3. place = "wait" /\ UNCHANGED <<place, unconfirmed, isRunning>>
    BY <1>2 DEF PassTime
  <2> QED
    BY <1>0, <2>2, <2>3
<1>3. ASSUME NEW d \in Jumps, SetClock(d)
      PROVE  FramesCounted'
  BY <1>3 DEF SetClock
<1>4. CASE SendIMessage
  <2>1. /\ UNCHANGED <<place, isRunning>> /\ unconfirmed' = 0
        /\ place \in {"wait", "started", "counted", "handled", "storing", "timeouts"}
    BY <1>4 DEF SendIMessage
  <2>2. CASE place = "started"
    <3>1. owed' = <<owed[Len(owed)]>> /\ owed[Len(owed)] = 0
      BY <1>4, <2>2 DEF SendIMessage, Confirmed
    <3> QED
      BY <2>1, <2>2, <3>1
  <2>3. CASE place # "started"
    <3>1. owed' = <<>>
      BY <1>4, <2>3 DEF SendIMessage, Confirmed
    <3> QED
      BY <1>1, <2>1, <2>3, <3>1
  <2> QED
    BY <2>2, <2>3
<1>5. CASE SendFails
  BY <1>5 DEF SendFails
<1>6. CASE ReceiveI
  <2>1. Len(owed') = n + 1 /\ owed' # <<>> /\ owed'[Len(owed')] = 0
    BY <1>0, <1>1, <1>6 DEF ReceiveI
  <2>2. place = "wait" /\ place' = "started" /\ UNCHANGED <<isRunning, unconfirmed>>
    BY <1>6 DEF ReceiveI
  <2> QED
    BY <1>0, <1>1, <2>1, <2>2
<1>7. CASE WrongSendNumber
  BY <1>7 DEF WrongSendNumber
<1>8. CASE WrongReceiveNumber
  BY <1>8 DEF WrongReceiveNumber, Handled
<1>9. CASE CountI
  <2>1. /\ place = "started" /\ place' = "counted" /\ UNCHANGED <<isRunning, owed>>
        /\ unconfirmed' = unconfirmed + 1
    BY <1>9 DEF CountI
  <2> QED
    BY <1>0, <1>1, <2>1
<1>10. CASE HandleAsdu
  BY <1>10 DEF HandleAsdu, Handled
<1>11. CASE ReceiveS
  <2>1. /\ place = "wait" /\ place' = "handled" /\ UNCHANGED <<unconfirmed, owed>>
        /\ isRunning' => isRunning
    BY <1>11 DEF ReceiveS, Handled
  <2> QED
    BY <2>1
<1>12. CASE ReceiveU
  <2>1. /\ place = "wait" /\ place' = "handled" /\ UNCHANGED <<unconfirmed, owed>>
        /\ isRunning' => isRunning
    BY <1>12 DEF ReceiveU, Handled
  <2> QED
    BY <2>1
<1>13. CASE ReceiveStopDt
  <2>1. place = "wait" /\ place' = "handled" /\ unconfirmed' = 0 /\ owed' = <<>>
    BY <1>13 DEF ReceiveStopDt, Handled, Confirmed
  <2> QED
    BY <2>1
<1>14. CASE Deactivated
  BY <1>14 DEF Deactivated
<1>15. CASE ConfirmAtW
  <2>1. place = "handled" /\ UNCHANGED <<isRunning, owed>>
    BY <1>15 DEF ConfirmAtW
  <2>2. CASE unconfirmed >= TimersW
    <3>1. place' = "storing" /\ unconfirmed' = 0
      BY <1>15, <2>2 DEF ConfirmAtW
    <3> QED
      BY <3>1
  <2>3. CASE ~(unconfirmed >= TimersW)
    <3>1. place' = "timeouts" /\ unconfirmed' = unconfirmed
      BY <1>15, <2>3 DEF ConfirmAtW
    <3> QED
      BY <1>0, <1>1, <2>1, <2>3, <3>1
  <2> QED
    BY <2>2, <2>3
<1>16. CASE ConfirmWithS
  <2>1. place = "storing" /\ place' = "timeouts" /\ unconfirmed' = unconfirmed /\ owed' = <<>>
    BY <1>16 DEF ConfirmWithS, Confirmed
  <2> QED
    BY <1>1, <2>1
<1>17. CASE handleTimeouts
  <2>1. place \in {"timeouts", "wait"} /\ place' \in {"wait", "closed"}
    BY <1>17 DEF handleTimeouts
  <2>2. (place' = "wait" => isRunning) /\ (isRunning' => isRunning)
    BY <1>17 DEF handleTimeouts
  <2>3. CASE T2Timeout
    <3>1. unconfirmed' = 0 /\ owed' = <<>>
      BY <1>17, <2>3, TimeoutsConfirm
    <3> QED
      BY <1>1, <2>1, <3>1
  <2>4. CASE ~T2Timeout
    <3>1. UNCHANGED <<unconfirmed, owed>>
      BY <1>17, <2>4, TimeoutsConfirm
    <3> QED
      BY <2>1, <2>2, <3>1
  <2> QED
    BY <2>3, <2>4
<1>18. CASE Reconnect104
  <2>1. place' = "wait" /\ unconfirmed' = 0 /\ owed' = <<>>
    BY <1>18 DEF Reconnect104
  <2> QED
    BY <1>1, <2>1
<1> QED
  BY <1>2, <1>3, <1>4, <1>5, <1>6, <1>7, <1>8, <1>9, <1>10, <1>11, <1>12, <1>13, <1>14, <1>15,
     <1>16, <1>17, <1>18 DEF TimersNext

\* Every step keeps the age of the frames within t2: handleTimeouts confirms those t2 has run for,
\* and no tick passes without it.
LEMMA ConfirmedStep ==
  ASSUME TimersTypeOK, TimersTypeOK', FramesCounted, FramesConfirmed, TimersNext
  PROVE  FramesConfirmed'
<1> USE DEF FramesConfirmed, receiving104, testing104, others104
<1>0. PICK n \in Nat : n = Len(owed)
  BY DEF TimersTypeOK, Counters
<1>a. unconfirmed \in Nat /\ owed \in Seq(Nat) /\ DOMAIN owed = 1..n /\ jumped.back \in Nat
  BY <1>0 DEF TimersTypeOK, Counters
<1>b. \A i \in 1..n : owed[i] \in Nat
  BY <1>0, <1>a
<1>c. /\ sinceConfirmation \in Int /\ sinceConfirmation <= Far
      /\ T2 \in Nat /\ T2 >= 1 /\ Far \in Nat /\ Far >= T2
  BY TimerLengths DEF TimersTypeOK, Counters, Offsets
<1>1. /\ unconfirmed \in Nat /\ owed \in Seq(Nat) /\ DOMAIN owed = 1..n
      /\ \A i \in 1..n : owed[i] \in Nat
      /\ sinceConfirmation \in Int /\ sinceConfirmation <= Far /\ jumped.back \in Nat
      /\ T2 \in Nat /\ T2 >= 1 /\ Far \in Nat /\ Far >= T2
  BY <1>a, <1>b, <1>c
<1>t. /\ sinceConfirmation' \in Int /\ jumped'.back \in Nat
      /\ SecondStart \in Nat /\ Unchecked \in {0, 1} /\ SecondStart' \in Nat /\ Unchecked' \in {0, 1}
  BY <1>1 DEF TimersTypeOK, Counters, Offsets, SecondStart, Unchecked
<1>2. CASE PassTime
  <2>1. /\ owed' = [i \in DOMAIN owed |-> owed'[i]]
        /\ \A i \in 1..n : owed'[i] = owed[i] + 1
    BY <1>1, <1>2 DEF PassTime
  <2>2. Len(owed') = n
    BY <1>0, <1>1, <2>1, MapSeq
  <2>3. /\ place = "wait" /\ checked /\ ~checked'
        /\ UNCHANGED <<place, isRunning, unconfirmed, timeoutT2Triggered, overtaken, jumped>>
    BY <1>2 DEF PassTime
  <2>4. owed' # <<>> => owed # <<>>
    BY <1>0, <1>1, <2>2
  <2>5. /\ unconfirmed = 0 => sinceConfirmation' = sinceConfirmation
        /\ unconfirmed > 0 => sinceConfirmation' = Clamp(sinceConfirmation + 1)
    BY <1>1, <1>2, <2>3 DEF PassTime, Shift
  <2>6. /\ Clamp(sinceConfirmation + 1) >= sinceConfirmation
        /\ \/ Clamp(sinceConfirmation + 1) >= sinceConfirmation + 1
           \/ Clamp(sinceConfirmation + 1) = Far
    BY <1>1, ClampKeeps, SMTT(30)
  <2>7. sinceConfirmation' + jumped'.back >= 0
    BY <1>1, <1>t, <2>3, <2>5, <2>6
  <2>8. SecondStart' = SecondStart /\ SecondStart \in Nat
    BY <1>1, <2>3 DEF SecondStart
  <2>9. ASSUME NEW i \in 1..n
        PROVE  /\ owed'[i] + 1 <= T2 + SecondStart + jumped.back + 1
               /\ isRunning => owed'[i] <= sinceConfirmation' + SecondStart + jumped.back
    <3>a. Open /\ Unchecked = 0
      BY <2>3 DEF Open, Unchecked
    <3>b. owed[i] + 1 <= T2 + SecondStart + jumped.back + Unchecked
      BY <1>0, <3>a
    <3>c. owed[i] \in Nat /\ owed'[i] = owed[i] + 1
      BY <1>1, <2>1
    <3>1. owed[i] + 1 <= T2 + SecondStart + jumped.back
      BY <1>1, <1>t, <3>a, <3>b, <3>c
    <3>2. isRunning => owed[i] <= sinceConfirmation + SecondStart + jumped.back /\ unconfirmed > 0
      BY <1>0, <1>1, <2>3 DEF Open, FramesCounted
    <3>3. owed'[i] + 1 <= T2 + SecondStart + jumped.back + 1
      BY <1>1, <1>t, <3>1, <3>c
    <3>4. ASSUME isRunning
          PROVE  owed'[i] <= sinceConfirmation' + SecondStart + jumped.back
      <4>1. owed[i] <= sinceConfirmation + SecondStart + jumped.back /\ unconfirmed > 0
        BY <3>2, <3>4
      <4>2. sinceConfirmation' >= sinceConfirmation + 1 \/ sinceConfirmation' = Far
        BY <1>1, <2>5, <2>6, <4>1
      <4> HIDE DEF FramesConfirmed
      <4>3. CASE sinceConfirmation' >= sinceConfirmation + 1
        BY <1>1, <1>t, <3>c, <4>1, <4>3, SMTT(30)
      <4>4. CASE sinceConfirmation' = Far
        BY <1>1, <1>t, <3>c, <3>1, <4>4
      <4> QED
        BY <4>2, <4>3, <4>4
    <3> QED
      BY <3>3, <3>4
  <2> QED
    BY <1>0, <2>2, <2>3, <2>4, <2>7, <2>8, <2>9 DEF Unchecked
<1>3. ASSUME NEW d \in Jumps, SetClock(d)
      PROVE  FramesConfirmed'
  <2>1. /\ place = "wait"
        /\ UNCHANGED <<place, isRunning, unconfirmed, timeoutT2Triggered, owed, overtaken, checked>>
        /\ jumped'.back = jumped.back + (IF d < 0 THEN -d ELSE 0)
        /\ d \in Int
    BY <1>3, TimerLengths DEF SetClock
  <2>2. sinceConfirmation' \in {sinceConfirmation, Clamp(sinceConfirmation + d)}
    BY <1>3, <2>1 DEF SetClock, Shift
  <2>3. /\ sinceConfirmation' + jumped'.back >= sinceConfirmation + jumped.back
        /\ jumped'.back >= jumped.back /\ jumped'.back \in Nat /\ sinceConfirmation' \in Int
    <3>1. CASE d < 0
      <4>1. jumped'.back = jumped.back - d
        BY <1>1, <2>1, <3>1
      <4>2. sinceConfirmation' >= sinceConfirmation + d
        <5>1. Clamp(sinceConfirmation + d) >= sinceConfirmation + d
          BY <1>1, <2>1, <3>1, ClampKeeps
        <5> QED
          BY <1>1, <1>t, <2>1, <2>2, <3>1, <5>1
      <4> QED
        BY <1>1, <1>t, <2>1, <3>1, <4>1, <4>2
    <3>2. CASE ~(d < 0)
      <4>1. jumped'.back = jumped.back
        BY <1>1, <2>1, <3>2
      <4>2. sinceConfirmation' >= sinceConfirmation
        <5>1. Clamp(sinceConfirmation + d) >= sinceConfirmation
          <6>1. CASE sinceConfirmation + d <= Far
            <7>1. sinceConfirmation + d \in Int /\ sinceConfirmation + d >= sinceConfirmation
              BY <1>1, <2>1, <3>2
            <7>2. Clamp(sinceConfirmation + d) >= sinceConfirmation + d
              BY <6>1, <7>1, ClampKeeps
            <7> QED
              BY <1>1, <2>2, <7>1, <7>2, ClampKeeps
          <6>2. CASE sinceConfirmation + d > Far
            BY <1>1, <2>1, <6>2, ClampKeeps
          <6> QED
            BY <1>1, <2>1, <6>1, <6>2
        <5> QED
          BY <1>1, <1>t, <2>2, <5>1
      <4> QED
        BY <1>1, <1>t, <4>1, <4>2
    <3> QED
      BY <3>1, <3>2
  <2>4. /\ SecondStart' = SecondStart /\ Unchecked' = Unchecked
        /\ SecondStart \in Nat /\ Unchecked \in Nat
    BY <1>1, <2>1 DEF SecondStart, Unchecked
  <2>5. ASSUME NEW i \in 1..n
        PROVE  /\ owed[i] + 1 <= T2 + SecondStart + jumped'.back + Unchecked
               /\ isRunning => owed[i] <= sinceConfirmation' + SecondStart + jumped'.back
    <3>1. /\ owed[i] + 1 <= T2 + SecondStart + jumped.back + Unchecked
          /\ isRunning => owed[i] <= sinceConfirmation + SecondStart + jumped.back
      BY <1>0, <2>1 DEF Open
    <3>2. owed[i] \in Nat
      BY <1>1
    <3> HIDE DEF FramesConfirmed
    <3>3. owed[i] + 1 <= T2 + SecondStart + jumped'.back + Unchecked
      BY <1>1, <2>3, <2>4, <3>1, <3>2, SMTT(30)
    <3>4. ASSUME isRunning
          PROVE  owed[i] <= sinceConfirmation' + SecondStart + jumped'.back
      <4>1. owed[i] <= sinceConfirmation + SecondStart + jumped.back
        BY <3>1, <3>4
      <4> QED
        BY <1>1, <2>3, <2>4, <3>2, <4>1, SMTT(30)
    <3> QED
      BY <3>3, <3>4
  <2>6. sinceConfirmation' + jumped'.back >= 0
    BY <1>1, <2>3
  <2> QED
    BY <1>0, <2>1, <2>4, <2>5, <2>6
<1>4. CASE SendIMessage
  <2>1. /\ UNCHANGED <<place, isRunning, jumped, checked>> /\ timeoutT2Triggered' = FALSE
        /\ place \in {"wait", "started", "counted", "handled", "storing", "timeouts"}
    BY <1>4 DEF SendIMessage
  <2>2. SecondStart' = 0 /\ Unchecked' \in Nat
    BY <2>1 DEF SecondStart, Unchecked
  <2>3. CASE place = "started"
    <3>1. owed' = <<0>> /\ overtaken' /\ sinceConfirmation' = sinceConfirmation
      BY <1>4, <2>3 DEF SendIMessage, Confirmed, FramesCounted
    <3>2. Len(owed') = 1 /\ owed'[1] = 0
      BY <3>1
    <3> QED
      BY <1>1, <2>1, <2>2, <3>1, <3>2
  <2>4. CASE place # "started"
    <3>1. owed' = <<>> /\ sinceConfirmation' = 0
      BY <1>4, <2>4 DEF SendIMessage, Confirmed
    <3> QED
      BY <1>1, <2>1, <3>1
  <2> QED
    BY <2>3, <2>4
<1>5. CASE SendFails
  <2>1. /\ UNCHANGED <<place, timeoutT2Triggered, sinceConfirmation, owed, overtaken, jumped, checked>>
        /\ ~isRunning'
    BY <1>5 DEF SendFails
  <2> QED
    BY <2>1 DEF Open, SecondStart, Unchecked
<1>6. CASE ReceiveI
  <2>1. /\ place = "wait" /\ place' = "started" /\ timeoutT2Triggered'
        /\ UNCHANGED <<isRunning, overtaken, jumped, checked>>
        /\ sinceConfirmation' = (IF timeoutT2Triggered THEN sinceConfirmation ELSE 0)
    BY <1>6 DEF ReceiveI, StartT2
  <2>2. /\ Len(owed') = n + 1 /\ owed'[n + 1] = 0
        /\ \A i \in 1..n : owed'[i] = owed[i]
    BY <1>0, <1>1, <1>6 DEF ReceiveI
  <2>3. /\ SecondStart \in Nat /\ SecondStart' \in Nat /\ SecondStart <= SecondStart'
        /\ ~timeoutT2Triggered /\ overtaken => SecondStart = 0 /\ SecondStart' = T2
        /\ timeoutT2Triggered => SecondStart' = SecondStart
        /\ Unchecked' = Unchecked /\ Unchecked \in {0, 1}
    BY <1>1, <2>1 DEF SecondStart, Unchecked
  <2>4. ASSUME NEW i \in 1..n
        PROVE  /\ owed[i] + 1 <= T2 + SecondStart' + jumped.back + Unchecked
               /\ isRunning => owed[i] <= sinceConfirmation' + SecondStart' + jumped.back
    <3>1. /\ owed[i] + 1 <= T2 + SecondStart + jumped.back + Unchecked
          /\ isRunning => owed[i] <= sinceConfirmation + SecondStart + jumped.back
      BY <1>0, <2>1 DEF Open
    <3>2. timeoutT2Triggered \/ overtaken
      BY <1>0, <1>1
    <3>3. owed[i] \in Nat
      BY <1>1
    <3> HIDE DEF FramesConfirmed
    <3>4. owed[i] + 1 <= T2 + SecondStart' + jumped.back + Unchecked
      BY <1>1, <2>3, <3>1, <3>3, SMTT(30)
    <3>5. CASE timeoutT2Triggered
      BY <2>1, <2>3, <3>1, <3>4, <3>5
    <3>6. CASE ~timeoutT2Triggered
      <4>1. SecondStart = 0 /\ SecondStart' = T2 /\ sinceConfirmation' = 0
        BY <2>1, <2>3, <3>2, <3>6
      <4> QED
        BY <1>1, <2>3, <3>1, <3>3, <3>4, <4>1, SMTT(30)
    <3> QED
      BY <3>5, <3>6
  <2>5. sinceConfirmation' + jumped.back >= 0 /\ sinceConfirmation' \in Int
    BY <1>1, <2>1
  <2>6. ASSUME NEW i \in 1..Len(owed')
        PROVE  /\ owed'[i] + 1 <= T2 + SecondStart' + jumped.back + Unchecked
               /\ isRunning => owed'[i] <= sinceConfirmation' + SecondStart' + jumped.back
    <3>1. CASE i = n + 1
      BY <1>1, <2>2, <2>3, <2>5, <3>1
    <3>2. CASE i \in 1..n
      BY <2>2, <2>4, <3>2
    <3> QED
      BY <2>2, <3>1, <3>2
  <2> QED
    BY <2>1, <2>3, <2>5, <2>6
<1>7. CASE WrongSendNumber
  <2>1. /\ UNCHANGED <<timeoutT2Triggered, sinceConfirmation, owed, overtaken, jumped>>
        /\ place' = "stuck"
    BY <1>7 DEF WrongSendNumber
  <2> QED
    BY <2>1 DEF Open
<1>8. ASSUME place \in {"wait", "started", "counted", "handled", "storing", "timeouts"},
             place \in {"storing"} => ~isRunning',
             isRunning' => isRunning,
             UNCHANGED <<timeoutT2Triggered, sinceConfirmation, owed, overtaken, jumped, checked>>
      PROVE  FramesConfirmed'
  BY <1>8 DEF Open, SecondStart, Unchecked
<1>9. CASE WrongReceiveNumber
  BY <1>8, <1>9 DEF WrongReceiveNumber, Handled
<1>10. CASE CountI
  BY <1>8, <1>10 DEF CountI
<1>11. CASE HandleAsdu
  BY <1>8, <1>11 DEF HandleAsdu, Handled
<1>12. CASE ReceiveS
  BY <1>8, <1>12 DEF ReceiveS, Handled
<1>13. CASE ReceiveU
  BY <1>8, <1>13 DEF ReceiveU, Handled
<1>14. CASE ReceiveStopDt
  <2>1. owed' = <<>> /\ sinceConfirmation' = 0 /\ jumped' = jumped
    BY <1>14 DEF ReceiveStopDt, Confirmed
  <2> QED
    BY <1>1, <2>1
<1>15. CASE Deactivated
  BY <1>15 DEF Deactivated, Open, SecondStart, Unchecked
<1>16. CASE ConfirmAtW
  <2>1. /\ place = "handled"
        /\ UNCHANGED <<timeoutT2Triggered, owed, overtaken, jumped, checked, isRunning>>
    BY <1>16 DEF ConfirmAtW
  <2>2. CASE unconfirmed >= TimersW
    <3>1. place' = "storing" /\ sinceConfirmation' = 0
      BY <1>16, <2>2 DEF ConfirmAtW
    <3> QED
      BY <1>1, <2>1, <3>1 DEF Open, SecondStart, Unchecked
  <2>3. CASE ~(unconfirmed >= TimersW)
    <3>1. UNCHANGED sinceConfirmation
      BY <1>16, <2>3 DEF ConfirmAtW
    <3> QED
      BY <1>8, <2>1, <3>1
  <2> QED
    BY <2>2, <2>3
<1>17. CASE ConfirmWithS
  <2>1. owed' = <<>> /\ UNCHANGED <<sinceConfirmation, jumped>>
    BY <1>17 DEF ConfirmWithS, Confirmed
  <2> QED
    BY <2>1
<1>18. CASE handleTimeouts
  <2>1. place \in {"timeouts", "wait"} /\ place' \in {"wait", "closed"}
    BY <1>18 DEF handleTimeouts
  <2>2. (place' = "wait" => isRunning) /\ (isRunning' => isRunning) /\ checked'
    BY <1>18 DEF handleTimeouts
  <2>3. CASE T2Timeout
    <3>1. owed' = <<>> /\ sinceConfirmation' = 0 /\ jumped' = jumped
      BY <1>18, <2>3, TimeoutsConfirm
    <3> QED
      BY <1>1, <3>1
  <2>4. CASE ~T2Timeout
    <3>1. /\ UNCHANGED <<unconfirmed, timeoutT2Triggered, owed, overtaken, jumped>>
          /\ sinceConfirmation' = (IF unconfirmed > 0 THEN Since(sinceConfirmation)
                                   ELSE sinceConfirmation)
      BY <1>18, <2>4, TimeoutsConfirm
    <3>2. sinceConfirmation' >= sinceConfirmation /\ sinceConfirmation' \in Int
      BY <1>1, <3>1 DEF Since
    <3>3. sinceConfirmation' + jumped.back >= 0
      BY <1>1, <3>2
    <3>4. SecondStart' = SecondStart /\ SecondStart \in Nat /\ Unchecked' = 0
      BY <1>1, <2>2, <3>1 DEF SecondStart, Unchecked
    <3>5. ASSUME NEW i \in 1..n, isRunning
          PROVE  /\ owed[i] + 1 <= T2 + SecondStart + jumped.back
                 /\ owed[i] <= sinceConfirmation' + SecondStart + jumped.back
      <4>1. owed[i] <= sinceConfirmation + SecondStart + jumped.back
        BY <1>0, <2>1, <3>5 DEF Open
      <4>2. unconfirmed > 0
        BY <1>0, <1>1, <2>1, <3>5 DEF FramesCounted
      <4>3. Since(sinceConfirmation) < T2 /\ Since(sinceConfirmation) \in Int
        BY <1>1, <2>4, <4>2 DEF T2Timeout, Since
      <4> QED
        BY <1>1, <3>1, <3>2, <3>4, <4>1, <4>2, <4>3, SMTT(30)
    <3> QED
      <4>1. isRunning => \A i \in 1..n : owed[i] + 1 <= T2 + SecondStart + jumped.back + 0
        BY <1>1, <1>t, <3>4, <3>5, SMTT(30)
      <4>2. isRunning => \A i \in 1..n : owed[i] <= sinceConfirmation' + SecondStart + jumped.back
        BY <3>5
      <4> QED
        BY <1>0, <2>1, <2>2, <3>1, <3>3, <3>4, <4>1, <4>2 DEF Open
  <2> QED
    BY <2>3, <2>4
<1>19. CASE Reconnect104
  <2>1. owed' = <<>> /\ sinceConfirmation' = 0 /\ jumped' = jumped
    BY <1>19 DEF Reconnect104
  <2> QED
    BY <1>1, <2>1
<1> QED
  BY <1>2, <1>3, <1>4, <1>5, <1>6, <1>7, <1>9, <1>10, <1>11, <1>12, <1>13, <1>14, <1>15, <1>16,
     <1>17, <1>18, <1>19 DEF TimersNext

\* Every step keeps the silence of the peer within t3 and t1.
LEMMA SilenceStep ==
  ASSUME TimersTypeOK, TimersTypeOK', SilenceBounded, TimersNext
  PROVE  SilenceBounded'
<1> USE DEF receiving104, testing104, others104
<1>a. /\ silence \in Nat /\ silence' \in Nat /\ jumped.back \in Nat /\ jumped'.back \in Nat
      /\ untilT3 \in Int /\ untilT3 >= -Far /\ untilT3' \in Int
      /\ untilTestCon \in Int /\ untilTestCon >= -Far /\ untilTestCon' \in Int
  BY TimerLengths DEF TimersTypeOK, Counters, Offsets
<1>b. /\ T1 \in Nat /\ T3 \in Nat /\ T1 >= 1 /\ T3 >= 1 /\ Far \in Nat /\ Far >= T1 + T3
      /\ Unchecked \in {0, 1} /\ Unchecked' \in {0, 1}
  BY TimerLengths DEF Unchecked
<1>1. \A n \in Int : /\ Clamp(n) \in Int
                     /\ Clamp(n) <= n \/ Clamp(n) = -Far
  BY TimerLengths DEF Clamp
<1>2. CASE PassTime
  <2>1. /\ place = "wait" /\ Unchecked = 0 /\ Unchecked' = 1 /\ silence' = silence + 1
        /\ UNCHANGED <<place, waitingForTestFRcon, jumped>> /\ Shift(1)
    BY <1>2 DEF PassTime, Unchecked
  <2>2. CASE waitingForTestFRcon
    <3>1. /\ silence <= T3 + T1 + 1 + jumped.back + Unchecked
          /\ silence <= T3 + T1 + 1 + jumped.back - untilTestCon
      BY <2>1, <2>2 DEF SilenceBounded, Open
    <3>2. untilTestCon' = Clamp(untilTestCon - 1)
      BY <2>1, <2>2 DEF Shift
    <3>3. untilTestCon' <= untilTestCon - 1 \/ untilTestCon' = -Far
      BY <1>a, <1>1, <3>2
    <3>4. /\ silence' <= T3 + T1 + 1 + jumped.back + Unchecked'
          /\ silence' <= T3 + T1 + 1 + jumped.back - untilTestCon'
      BY <1>a, <1>b, <2>1, <3>1, <3>3
    <3> QED
      BY <2>1, <2>2, <3>4 DEF SilenceBounded
  <2>3. CASE ~waitingForTestFRcon
    <3>1. /\ silence <= T3 + jumped.back + Unchecked
          /\ silence <= T3 + jumped.back - untilT3
      BY <2>1, <2>3 DEF SilenceBounded, Open
    <3>2. untilT3' = Clamp(untilT3 - 1)
      BY <2>1, <2>3 DEF Shift
    <3>3. untilT3' <= untilT3 - 1 \/ untilT3' = -Far
      BY <1>a, <1>1, <3>2
    <3>4. /\ silence' <= T3 + jumped.back + Unchecked'
          /\ silence' <= T3 + jumped.back - untilT3'
      BY <1>a, <1>b, <2>1, <3>1, <3>3
    <3> QED
      BY <2>1, <2>3, <3>4 DEF SilenceBounded
  <2> QED
    BY <2>2, <2>3
<1>3. ASSUME NEW d \in Jumps, SetClock(d)
      PROVE  SilenceBounded'
  <2>1. /\ place = "wait" /\ UNCHANGED <<place, waitingForTestFRcon, silence, checked>> /\ Shift(d)
        /\ jumped'.back = jumped.back + (IF d < 0 THEN -d ELSE 0) /\ d \in Int
    BY <1>3, TimerLengths DEF SetClock
  <2>2. jumped'.back >= jumped.back /\ jumped'.back >= jumped.back - d
    BY <1>a, <2>1
  <2>3. Unchecked' = Unchecked
    BY <2>1 DEF Unchecked
  <2>4. CASE waitingForTestFRcon
    <3>1. /\ silence <= T3 + T1 + 1 + jumped.back + Unchecked
          /\ silence <= T3 + T1 + 1 + jumped.back - untilTestCon
      BY <2>1, <2>4 DEF SilenceBounded, Open
    <3>2. untilTestCon' = Clamp(untilTestCon - d)
      BY <2>1, <2>4 DEF Shift
    <3>3. untilTestCon' <= untilTestCon - d \/ untilTestCon' = -Far
      BY <1>a, <1>1, <2>1, <3>2
    <3>4. /\ silence <= T3 + T1 + 1 + jumped'.back + Unchecked
          /\ silence <= T3 + T1 + 1 + jumped'.back - untilTestCon'
      BY <1>a, <1>b, <2>1, <2>2, <3>1, <3>3
    <3> QED
      BY <2>1, <2>3, <2>4, <3>4 DEF SilenceBounded
  <2>5. CASE ~waitingForTestFRcon
    <3>1. /\ silence <= T3 + jumped.back + Unchecked
          /\ silence <= T3 + jumped.back - untilT3
      BY <2>1, <2>5 DEF SilenceBounded, Open
    <3>2. untilT3' = Clamp(untilT3 - d)
      BY <2>1, <2>5 DEF Shift
    <3>3. untilT3' <= untilT3 - d \/ untilT3' = -Far
      BY <1>a, <1>1, <2>1, <3>2
    <3>4. /\ silence <= T3 + jumped'.back + Unchecked
          /\ silence <= T3 + jumped'.back - untilT3'
      BY <1>a, <1>b, <2>1, <2>2, <3>1, <3>3
    <3> QED
      BY <2>1, <2>3, <2>5, <3>4 DEF SilenceBounded
  <2> QED
    BY <2>4, <2>5
<1>4. ASSUME place \notin {"stuck", "closed"},
             UNCHANGED <<testing104, silence, jumped, checked>>
      PROVE  SilenceBounded'
  BY <1>4 DEF SilenceBounded, Open, Unchecked
<1>5. CASE SendIMessage
  BY <1>4, <1>5 DEF SendIMessage
<1>6. CASE SendFails
  BY <1>4, <1>6 DEF SendFails
<1>7. CASE ReceiveI
  BY <1>4, <1>7 DEF ReceiveI
<1>8. CASE WrongSendNumber
  BY <1>8 DEF WrongSendNumber, SilenceBounded, Open
<1>9. CASE CountI
  BY <1>4, <1>9 DEF CountI
<1>10. ASSUME NEW ok \in BOOLEAN, Handled(ok), place \notin {"stuck", "closed"},
              UNCHANGED <<jumped, checked>>,
              waitingForTestFRcon' => waitingForTestFRcon /\ untilTestCon' = untilTestCon,
              ok \/ waitingForTestFRcon' = waitingForTestFRcon
       PROVE  SilenceBounded'
  <2>1. Unchecked' = Unchecked
    BY <1>10 DEF Unchecked
  <2>2. CASE ok
    <3>1. silence' = 0 /\ untilT3' = T3 /\ jumped' = jumped
      BY <1>10, <2>2 DEF Handled
    <3>2. ASSUME ~waitingForTestFRcon'
          PROVE  /\ silence' <= T3 + jumped'.back + Unchecked'
                 /\ silence' <= T3 + jumped'.back - untilT3'
      BY <1>a, <1>b, <3>1
    <3>3. ASSUME waitingForTestFRcon'
          PROVE  /\ silence' <= T3 + T1 + 1 + jumped'.back + Unchecked'
                 /\ silence' <= T3 + T1 + 1 + jumped'.back - untilTestCon'
      <4>1. silence <= T3 + T1 + 1 + jumped.back - untilTestCon /\ untilTestCon' = untilTestCon
        BY <1>10, <3>3 DEF SilenceBounded, Open
      <4> QED
        BY <1>a, <1>b, <3>1, <4>1
    <3> QED
      BY <3>2, <3>3 DEF SilenceBounded
  <2>3. CASE ~ok
    <3>1. silence' = silence /\ untilT3' = untilT3 /\ waitingForTestFRcon' = waitingForTestFRcon
      BY <1>10, <2>3 DEF Handled
    <3> QED
      BY <1>10, <2>1, <3>1 DEF SilenceBounded, Open
  <2> QED
    BY <2>2, <2>3
<1>11. CASE WrongReceiveNumber
  BY <1>10, <1>11 DEF WrongReceiveNumber
<1>12. CASE HandleAsdu
  BY <1>10, <1>12 DEF HandleAsdu
<1>13. CASE ReceiveS
  BY <1>10, <1>13 DEF ReceiveS
<1>14. CASE ReceiveU
  <2>1. PICK frame \in {"TESTFR_ACT", "STARTDT_ACT", "TESTFR_CON"}, ok \in BOOLEAN :
          /\ (frame = "TESTFR_CON" => ok) /\ Handled(ok)
          /\ waitingForTestFRcon' = (waitingForTestFRcon /\ frame # "TESTFR_CON")
          /\ untilTestCon' = IF frame = "TESTFR_CON" THEN 0 ELSE untilTestCon
    BY <1>14 DEF ReceiveU
  <2>2. place = "wait" /\ UNCHANGED <<jumped, checked>> /\ waitingForTestFRcon \in BOOLEAN
    BY <1>14 DEF ReceiveU, TimersTypeOK, Flags
  <2>3. waitingForTestFRcon' => waitingForTestFRcon /\ untilTestCon' = untilTestCon
    BY <2>1
  <2>4. ok \/ waitingForTestFRcon' = waitingForTestFRcon
    BY <2>1, <2>2
  <2> QED
    BY <1>10, <2>1, <2>2, <2>3, <2>4
<1>15. CASE ReceiveStopDt
  BY <1>10, <1>15 DEF ReceiveStopDt
<1>16. CASE Deactivated
  BY <1>16 DEF Deactivated, SilenceBounded, Open, Unchecked
<1>17. CASE ConfirmAtW
  BY <1>4, <1>17 DEF ConfirmAtW
<1>18. CASE ConfirmWithS
  BY <1>4, <1>18 DEF ConfirmWithS
<1>19. CASE handleTimeouts
  <2>1. /\ place \in {"timeouts", "wait"} /\ silence' = silence /\ jumped' = jumped /\ checked'
        /\ untilT3' = (IF waitingForTestFRcon THEN untilT3 ELSE T3Left)
        /\ waitingForTestFRcon' = (waitingForTestFRcon \/ SendsTest)
        /\ untilTestCon' = (IF waitingForTestFRcon' THEN TestLeft ELSE untilTestCon)
    BY <1>19 DEF handleTimeouts
  <2>2. place' = "closed" \/ (place' = "wait" /\ ~TestTimeout)
    BY <1>19 DEF handleTimeouts
  <2>3. Unchecked' = 0
    BY <2>1 DEF Unchecked
  <2>4. CASE place' = "closed"
    BY <2>4 DEF SilenceBounded, Open
  <2>5. CASE waitingForTestFRcon /\ ~TestTimeout
    <3>1. /\ silence <= T3 + T1 + 1 + jumped.back - untilTestCon
          /\ waitingForTestFRcon' /\ untilTestCon' = (IF untilTestCon > T1 THEN T1 ELSE untilTestCon)
          /\ ~(untilTestCon' < 0)
      BY <2>1, <2>5 DEF SilenceBounded, Open, SendsTest, TestLeft, TestTimeout
    <3>2. /\ silence' <= T3 + T1 + 1 + jumped'.back + Unchecked'
          /\ silence' <= T3 + T1 + 1 + jumped'.back - untilTestCon'
      BY <1>a, <1>b, <2>1, <2>3, <3>1
    <3> QED
      BY <3>1, <3>2 DEF SilenceBounded
  <2>6. CASE SendsTest
    <3>1. /\ silence <= T3 + jumped.back + Unchecked
          /\ waitingForTestFRcon' /\ untilTestCon' = T1
      BY <2>1, <2>6 DEF SilenceBounded, Open, SendsTest, TestLeft
    <3>2. /\ silence' <= T3 + T1 + 1 + jumped'.back + Unchecked'
          /\ silence' <= T3 + T1 + 1 + jumped'.back - untilTestCon'
      BY <1>a, <1>b, <2>1, <2>3, <3>1
    <3> QED
      BY <3>1, <3>2 DEF SilenceBounded
  <2>7. CASE ~waitingForTestFRcon /\ ~SendsTest
    <3>1. /\ silence <= T3 + jumped.back - untilT3 /\ silence <= T3 + jumped.back + Unchecked
          /\ ~waitingForTestFRcon' /\ untilT3' = (IF untilT3 > T3 THEN T3 ELSE untilT3)
          /\ ~(untilT3' < 0)
      BY <2>1, <2>7 DEF SilenceBounded, Open, SendsTest, T3Left
    <3>2. /\ silence' <= T3 + jumped'.back + Unchecked'
          /\ silence' <= T3 + jumped'.back - untilT3'
      BY <1>a, <1>b, <2>1, <2>3, <3>1
    <3> QED
      BY <3>1, <3>2 DEF SilenceBounded
  <2> QED
    BY <2>2, <2>4, <2>5, <2>6, <2>7
<1>20. CASE Reconnect104
  <2>1. /\ silence' = 0 /\ untilT3' = T3 /\ ~waitingForTestFRcon'
    BY <1>20 DEF Reconnect104
  <2>2. /\ silence' <= T3 + jumped'.back + Unchecked'
        /\ silence' <= T3 + jumped'.back - untilT3'
    BY <1>a, <1>b, <2>1
  <2> QED
    BY <2>1, <2>2 DEF SilenceBounded
<1> QED
  BY <1>2, <1>3, <1>5, <1>6, <1>7, <1>8, <1>9, <1>11, <1>12, <1>13, <1>14, <1>15, <1>16,
     <1>17, <1>18, <1>19, <1>20 DEF TimersNext

\* A frame is added to those under way.
LEMMA AppendedTo ==
  ASSUME NEW S, NEW s \in Seq(S), NEW e \in S, NEW k \in Nat, k = Len(s)
  PROVE  /\ Len(Append(s, e)) = k + 1 /\ Append(s, e)[k + 1] = e
         /\ \A i \in 1..k : Append(s, e)[i] = s[i]
OBVIOUS

\* Every step keeps one time stamp for each frame under way, none older than the frame.
LEMMA SendsStep ==
  ASSUME TimersTypeOK, TimersTypeOK', SendsTimed, TimersNext
  PROVE  SendsTimed'
<1> USE DEF receiving104, testing104, others104
<1>a. unanswered \in [test : Nat, sent : Seq(Nat)] /\ sinceSent \in Seq(Offsets) /\ Offsets \subseteq Int
  BY TimerLengths DEF TimersTypeOK, Counters, Offsets
<1>b. PICK k \in Nat : k = Len(sinceSent) /\ k = Len(unanswered.sent)
  BY <1>a DEF SendsTimed
<1>c. unanswered.sent \in Seq(Nat)
  BY <1>a
<1>d. /\ DOMAIN sinceSent = 1..k /\ DOMAIN unanswered.sent = 1..k
      /\ \A i \in 1..k : sinceSent[i] \in Offsets /\ unanswered.sent[i] \in Nat
  BY <1>a, <1>b, <1>c, LenProperties, ElementOfSeq
<1>e. \A i \in 1..k : sinceSent[i] \in Int /\ sinceSent[i] <= Far /\ sinceSent[i] >= -Far
  BY <1>d, TimerLengths DEF Offsets
<1>1. ASSUME UNCHANGED <<sinceSent, unanswered>>, jumped'.forward = jumped.forward
      PROVE  SendsTimed'
  BY <1>1 DEF SendsTimed
<1>2. CASE PassTime
  <2>1. /\ sinceSent' = [i \in DOMAIN sinceSent |-> Clamp(sinceSent[i] + 1)]
        /\ unanswered'.sent = [i \in DOMAIN sinceSent |-> Clamp(unanswered.sent[i] + 1)]
        /\ jumped' = jumped
    BY <1>2 DEF PassTime, Shift
  <2>2. /\ Len(sinceSent') = k /\ Len(unanswered'.sent) = k
        /\ \A i \in 1..k : /\ sinceSent'[i] = Clamp(sinceSent[i] + 1)
                           /\ unanswered'.sent[i] = Clamp(unanswered.sent[i] + 1)
    <3>1. sinceSent' \in Seq(Offsets) /\ unanswered'.sent \in Seq(Nat)
      BY DEF TimersTypeOK, Counters
    <3>2. DOMAIN sinceSent' = 1..k /\ DOMAIN unanswered'.sent = 1..k
      BY <1>d, <2>1
    <3>3. Len(sinceSent') = k /\ Len(unanswered'.sent) = k
      BY <1>b, <3>1, <3>2
    <3> QED
      BY <1>d, <2>1, <3>3
  <2>3. ASSUME NEW i \in 1..k, ~jumped.forward
        PROVE  Clamp(sinceSent[i] + 1) <= Clamp(unanswered.sent[i] + 1)
    <3>1. sinceSent[i] <= unanswered.sent[i]
      BY <1>b, <2>3 DEF SendsTimed
    <3>2. sinceSent[i] + 1 \in Int /\ unanswered.sent[i] + 1 \in Int
          /\ sinceSent[i] + 1 <= unanswered.sent[i] + 1
      BY <1>d, <1>e, <3>1
    <3> QED
      BY <3>2, ClampOrder
  <2> QED
    BY <2>1, <2>2, <2>3 DEF SendsTimed
<1>3. ASSUME NEW d \in Jumps, SetClock(d)
      PROVE  SendsTimed'
  <2>1. /\ sinceSent' = [i \in DOMAIN sinceSent |-> Clamp(sinceSent[i] + d)]
        /\ unanswered' = unanswered /\ jumped'.forward = (jumped.forward \/ d > 0)
    BY <1>3 DEF SetClock, Shift
  <2>2. /\ Len(sinceSent') = k
        /\ \A i \in 1..k : sinceSent'[i] = Clamp(sinceSent[i] + d)
    <3>1. sinceSent' \in Seq(Offsets)
      BY DEF TimersTypeOK, Counters
    <3>2. DOMAIN sinceSent' = 1..k
      BY <1>d, <2>1
    <3>3. Len(sinceSent') = k
      BY <1>b, <3>1, <3>2
    <3> QED
      BY <1>d, <2>1, <3>3
  <2>3. ASSUME NEW i \in 1..k, ~jumped'.forward
        PROVE  Clamp(sinceSent[i] + d) <= unanswered.sent[i]
    <3>1. sinceSent[i] <= unanswered.sent[i]
      BY <1>b, <2>1, <2>3 DEF SendsTimed
    <3>2. d \in Int /\ ~(d > 0)
      BY <2>1, <2>3, TimerLengths
    <3> QED
      BY <1>d, <1>e, <3>1, <3>2, TimerLengths DEF Clamp
  <2> QED
    BY <1>b, <2>1, <2>2, <2>3 DEF SendsTimed
<1>4. ASSUME sinceSent' = Append(sinceSent, 0), jumped' = jumped,
             unanswered' = [unanswered EXCEPT !.sent = Append(@, 0)]
      PROVE  SendsTimed'
  <2>1. unanswered'.sent = Append(unanswered.sent, 0)
    BY <1>4, <1>a
  <2>a. /\ Len(Append(sinceSent, 0)) = k + 1 /\ Append(sinceSent, 0)[k + 1] = 0
        /\ \A i \in 1..k : Append(sinceSent, 0)[i] = sinceSent[i]
    <3>1. 0 \in Offsets
      BY TimerLengths DEF Offsets
    <3>2. sinceSent \in Seq(Offsets) /\ k \in Nat /\ k = Len(sinceSent)
      BY <1>a, <1>b
    <3> QED
      BY <3>1, <3>2, AppendedTo
  <2>b. /\ Len(Append(unanswered.sent, 0)) = k + 1 /\ Append(unanswered.sent, 0)[k + 1] = 0
        /\ \A i \in 1..k : Append(unanswered.sent, 0)[i] = unanswered.sent[i]
    BY <1>b, <1>c, AppendedTo
  <2>2. Len(sinceSent') = k + 1 /\ Len(unanswered'.sent) = k + 1
    BY <1>4, <2>1, <2>a, <2>b
  <2>3. ASSUME NEW i \in 1..(k + 1), ~jumped.forward
        PROVE  sinceSent'[i] <= unanswered'.sent[i]
    <3>1. CASE i = k + 1
      <4>1. sinceSent'[i] = 0 /\ unanswered'.sent[i] = 0
        BY <1>4, <2>1, <2>a, <2>b, <3>1
      <4> QED
        BY <4>1
    <3>2. CASE i \in 1..k
      <4>1. sinceSent'[i] = sinceSent[i] /\ unanswered'.sent[i] = unanswered.sent[i]
        BY <1>4, <2>1, <2>a, <2>b, <3>2
      <4> QED
        BY <1>b, <2>3, <3>2, <4>1 DEF SendsTimed
    <3> QED
      BY <3>1, <3>2
  <2> QED
    BY <1>4, <2>2, <2>3 DEF SendsTimed
<1>5. CASE SendIMessage
  BY <1>4, <1>5 DEF SendIMessage
<1>6. CASE SendFails
  BY <1>4, <1>6 DEF SendFails
<1>7. CASE ReceiveI
  BY <1>1, <1>7 DEF ReceiveI
<1>8. CASE WrongSendNumber
  BY <1>1, <1>8 DEF WrongSendNumber
<1>9. CASE WrongReceiveNumber
  BY <1>1, <1>9 DEF WrongReceiveNumber
<1>10. ASSUME NEW n \in 0..Len(sinceSent), AcknowledgeSent(n), jumped' = jumped
       PROVE  SendsTimed'
  <2>1. /\ sinceSent' = SubSeq(sinceSent, n + 1, k)
        /\ unanswered'.sent = SubSeq(unanswered.sent, n + 1, k)
    BY <1>a, <1>b, <1>10 DEF AcknowledgeSent
  <2>2. n \in 0..k
    BY <1>b
  <2>3. /\ Len(SubSeq(sinceSent, n + 1, k)) = k - n
        /\ \A i \in 1..(k - n) : SubSeq(sinceSent, n + 1, k)[i] = sinceSent[i + n]
    <3>1. \A i \in n + 1..k : sinceSent[i] \in Offsets
      BY <1>d, <2>2
    <3>2. /\ Len(SubSeq(sinceSent, n + 1, k)) = (IF n + 1 <= k THEN k - (n + 1) + 1 ELSE 0)
          /\ \A i \in 1..k - (n + 1) + 1 : SubSeq(sinceSent, n + 1, k)[i] = sinceSent[n + 1 + i - 1]
      BY <1>b, <2>2, <3>1, SubSeqProperties
    <3> QED
      BY <2>2, <3>2
  <2>4. /\ Len(SubSeq(unanswered.sent, n + 1, k)) = k - n
        /\ \A i \in 1..(k - n) : SubSeq(unanswered.sent, n + 1, k)[i] = unanswered.sent[i + n]
    <3>1. \A i \in n + 1..k : unanswered.sent[i] \in Nat
      BY <1>d, <2>2
    <3>2. /\ Len(SubSeq(unanswered.sent, n + 1, k)) = (IF n + 1 <= k THEN k - (n + 1) + 1 ELSE 0)
          /\ \A i \in 1..k - (n + 1) + 1 :
               SubSeq(unanswered.sent, n + 1, k)[i] = unanswered.sent[n + 1 + i - 1]
      BY <1>b, <2>2, <3>1, SubSeqProperties
    <3> QED
      BY <2>2, <3>2
  <2>5. ASSUME NEW i \in 1..(k - n), ~jumped.forward
        PROVE  sinceSent'[i] <= unanswered'.sent[i]
    <3>1. i + n \in 1..k
      BY <2>2
    <3>2. sinceSent[i + n] <= unanswered.sent[i + n]
      BY <1>b, <2>5, <3>1 DEF SendsTimed
    <3> QED
      BY <2>1, <2>3, <2>4, <3>2
  <2> QED
    BY <1>10, <2>1, <2>3, <2>4, <2>5 DEF SendsTimed
<1>11. CASE CountI
  BY <1>10, <1>11 DEF CountI
<1>12. CASE HandleAsdu
  BY <1>1, <1>12 DEF HandleAsdu
<1>13. CASE ReceiveS
  BY <1>1, <1>10, <1>13 DEF ReceiveS
<1>14. ASSUME sinceSent' = sinceSent, unanswered'.sent = unanswered.sent, jumped' = jumped
       PROVE  SendsTimed'
  BY <1>14 DEF SendsTimed
<1>15. CASE ReceiveU
  <2>1. unanswered'.sent = unanswered.sent
    BY <1>a, <1>15 DEF ReceiveU
  <2> QED
    BY <1>14, <1>15, <2>1 DEF ReceiveU
<1>16. CASE ReceiveStopDt
  BY <1>1, <1>16 DEF ReceiveStopDt
<1>17. CASE Deactivated
  BY <1>1, <1>17 DEF Deactivated
<1>18. CASE ConfirmAtW
  BY <1>1, <1>18 DEF ConfirmAtW
<1>19. CASE ConfirmWithS
  BY <1>1, <1>19 DEF ConfirmWithS
<1>20. CASE handleTimeouts
  <2>1. /\ unanswered'.sent = unanswered.sent /\ jumped' = jumped
        /\ sinceSent' = [i \in DOMAIN sinceSent |-> IF i = 1 THEN Since(sinceSent[i]) ELSE sinceSent[i]]
    BY <1>a, <1>20 DEF handleTimeouts
  <2>2. Len(sinceSent') = k
    <3>1. sinceSent' \in Seq(Offsets)
      BY DEF TimersTypeOK, Counters
    <3>2. DOMAIN sinceSent' = 1..k
      BY <1>d, <2>1
    <3> QED
      BY <1>b, <3>1, <3>2
  <2>3. ASSUME NEW i \in 1..k, ~jumped.forward
        PROVE  sinceSent'[i] <= unanswered.sent[i]
    <3>1. sinceSent[i] <= unanswered.sent[i] /\ sinceSent[i] \in Int /\ unanswered.sent[i] \in Nat
      BY <1>b, <1>d, <1>e, <2>3 DEF SendsTimed
    <3>2. sinceSent'[i] = sinceSent[i] \/ sinceSent'[i] = Since(sinceSent[i])
      BY <1>d, <2>1
    <3> QED
      BY <3>1, <3>2 DEF Since
  <2> QED
    BY <1>b, <2>1, <2>2, <2>3 DEF SendsTimed
<1>21. CASE Reconnect104
  <2>1. sinceSent' = <<>> /\ unanswered'.sent = <<>>
    BY <1>21 DEF Reconnect104
  <2> QED
    BY <2>1 DEF SendsTimed
<1> QED
  BY <1>2, <1>3, <1>5, <1>6, <1>7, <1>8, <1>9, <1>11, <1>12, <1>13, <1>15, <1>16,
     <1>17, <1>18, <1>19, <1>20, <1>21 DEF TimersNext

\* Every step keeps the timer of the test frame from ending early.
LEMMA TestStep ==
  ASSUME TimersTypeOK, TimersTypeOK', TestTimed, TimersNext
  PROVE  TestTimed'
<1> USE DEF receiving104, testing104, others104
<1>a. /\ unanswered \in [test : Nat, sent : Seq(Nat)] /\ unanswered.test \in Nat
      /\ untilTestCon \in Int /\ untilTestCon <= Far /\ untilTestCon >= -Far
  BY TimerLengths DEF TimersTypeOK, Counters, Offsets
<1>b. Unchecked \in {0, 1} /\ Unchecked' \in {0, 1}
  BY DEF Unchecked
<1>1. ASSUME place \notin {"stuck", "closed"}, UNCHANGED <<jumped, checked>>,
             waitingForTestFRcon' => /\ waitingForTestFRcon /\ untilTestCon' = untilTestCon
                                     /\ unanswered'.test = unanswered.test
      PROVE  TestTimed'
  BY <1>1 DEF TestTimed, Open, Unchecked
<1>2. CASE PassTime
  <2>1. /\ place = "wait" /\ Unchecked = 0 /\ Unchecked' = 1 /\ Shift(1)
        /\ UNCHANGED <<place, waitingForTestFRcon, jumped>>
        /\ waitingForTestFRcon => unanswered'.test = Clamp(unanswered.test + 1)
    BY <1>2 DEF PassTime, Unchecked
  <2> SUFFICES ASSUME ~jumped.forward, waitingForTestFRcon
               PROVE  untilTestCon' + Unchecked' >= 0 /\ T1 <= unanswered'.test + untilTestCon'
    BY <2>1 DEF TestTimed
  <2>2. untilTestCon + Unchecked >= 0 /\ T1 <= unanswered.test + untilTestCon
    BY <2>1 DEF TestTimed, Open
  <2>3. untilTestCon' = Clamp(untilTestCon - 1) /\ unanswered'.test = Clamp(unanswered.test + 1)
    BY <2>1 DEF Shift
  <2>4. untilTestCon' = untilTestCon - 1
    BY <1>a, <2>1, <2>2, <2>3, TimerLengths DEF Clamp
  <2>5. unanswered'.test = unanswered.test + 1 \/ unanswered'.test = Far
    BY <1>a, <2>3, TimerLengths DEF Clamp
  <2> QED
    BY <1>a, <2>1, <2>2, <2>4, <2>5, TimerLengths
<1>3. ASSUME NEW d \in Jumps, SetClock(d)
      PROVE  TestTimed'
  <2>1. /\ place = "wait" /\ Shift(d)
        /\ UNCHANGED <<place, waitingForTestFRcon, unanswered, checked>>
        /\ jumped'.forward = (jumped.forward \/ d > 0)
    BY <1>3 DEF SetClock
  <2>2. PICK e \in Int : e = d
    BY TimerLengths
  <2>3. PICK u \in Int : u = untilTestCon /\ u <= Far /\ u >= -Far
    BY <1>a
  <2>4. PICK w \in {0, 1} : w = Unchecked
    BY <1>b
  <2>5. Unchecked' = w
    BY <2>1, <2>4 DEF Unchecked
  <2> SUFFICES ASSUME ~jumped.forward, ~(e > 0), waitingForTestFRcon
               PROVE  untilTestCon' + Unchecked' >= 0 /\ T1 <= unanswered.test + untilTestCon'
    BY <2>1, <2>2 DEF TestTimed
  <2>6. PICK x \in Nat : x = unanswered.test
    BY <1>a
  <2>7. /\ untilTestCon + Unchecked >= 0
        /\ T1 <= unanswered.test + untilTestCon
    BY <2>1 DEF TestTimed, Open
  <2>8. u + w >= 0
    BY <2>3, <2>4, <2>7
  <2>9. T1 <= x + u
    BY <2>3, <2>6, <2>7
  <2>10. untilTestCon' = Clamp(u - e)
    BY <2>1, <2>2, <2>3 DEF Shift
  <2>11. /\ Clamp(u - e) \in Int
         /\ Clamp(u - e) >= u
    BY <2>2, <2>3, TimerLengths DEF Clamp
  <2>12. PICK v \in Int : v = Clamp(u - e)
    BY <2>11
  <2>13. v >= u
    BY <2>11, <2>12
  <2>14. v + w >= 0
    BY <2>8, <2>13
  <2>15. T1 <= x + v
    BY <2>9, <2>13, TimerLengths
  <2> QED
    BY <2>5, <2>6, <2>10, <2>12, <2>14, <2>15
<1>5. CASE SendIMessage
  <2>1. unanswered'.test = unanswered.test
    BY <1>a, <1>5 DEF SendIMessage
  <2> QED
    BY <1>1, <1>5, <2>1 DEF SendIMessage
<1>6. CASE SendFails
  <2>1. unanswered'.test = unanswered.test
    BY <1>a, <1>6 DEF SendFails
  <2> QED
    BY <1>1, <1>6, <2>1 DEF SendFails
<1>7. CASE ReceiveI
  BY <1>1, <1>7 DEF ReceiveI
<1>8. CASE WrongSendNumber
  BY <1>8 DEF WrongSendNumber, TestTimed, Open
<1>9. CASE WrongReceiveNumber
  BY <1>1, <1>9 DEF WrongReceiveNumber
<1>10. ASSUME NEW n, AcknowledgeSent(n)
       PROVE  unanswered'.test = unanswered.test
  BY <1>a, <1>10 DEF AcknowledgeSent
<1>11. CASE CountI
  BY <1>1, <1>10, <1>11 DEF CountI
<1>12. CASE HandleAsdu
  BY <1>1, <1>12 DEF HandleAsdu
<1>13. CASE ReceiveS
  <2>1. unanswered'.test = unanswered.test
    BY <1>10, <1>13 DEF ReceiveS
  <2> QED
    BY <1>1, <1>13, <2>1 DEF ReceiveS
<1>15. CASE ReceiveU
  <2>1. waitingForTestFRcon' => /\ waitingForTestFRcon /\ untilTestCon' = untilTestCon
                                /\ unanswered' = unanswered
    BY <1>15 DEF ReceiveU
  <2> QED
    BY <1>1, <1>15, <2>1 DEF ReceiveU
<1>16. CASE ReceiveStopDt
  BY <1>1, <1>16 DEF ReceiveStopDt
<1>17. CASE Deactivated
  BY <1>17 DEF Deactivated, TestTimed, Open, Unchecked
<1>18. CASE ConfirmAtW
  BY <1>1, <1>18 DEF ConfirmAtW
<1>19. CASE ConfirmWithS
  BY <1>1, <1>19 DEF ConfirmWithS
<1>20. CASE handleTimeouts
  <2>1. /\ place \in {"timeouts", "wait"} /\ checked' /\ jumped' = jumped
        /\ waitingForTestFRcon' = (waitingForTestFRcon \/ SendsTest)
        /\ untilTestCon' = (IF waitingForTestFRcon' THEN TestLeft ELSE untilTestCon)
        /\ unanswered' = (IF SendsTest THEN [unanswered EXCEPT !.test = 0] ELSE unanswered)
    BY <1>20 DEF handleTimeouts
  <2>2. place' = "closed" \/ (place' = "wait" /\ ~TestTimeout)
    BY <1>20 DEF handleTimeouts
  <2>3. Unchecked' = 0
    BY <2>1 DEF Unchecked
  <2>4. CASE place' = "closed"
    BY <2>4 DEF TestTimed, Open
  <2>5. CASE SendsTest
    <3>1. untilTestCon' = T1 /\ unanswered'.test = 0
      BY <1>a, <2>1, <2>5 DEF TestLeft
    <3>2. untilTestCon' + Unchecked' >= 0 /\ T1 <= unanswered'.test + untilTestCon'
      BY <2>3, <3>1, TimerLengths
    <3> QED
      BY <3>2 DEF TestTimed
  <2>6. CASE ~SendsTest /\ waitingForTestFRcon /\ ~TestTimeout
    <3>1. /\ untilTestCon' = (IF untilTestCon > T1 THEN T1 ELSE untilTestCon)
          /\ ~(untilTestCon' < 0) /\ unanswered' = unanswered
      BY <2>1, <2>6 DEF TestLeft, TestTimeout
    <3>2. untilTestCon' + Unchecked' >= 0 /\ untilTestCon' \in Int
      BY <1>a, <2>3, <3>1, TimerLengths
    <3>3. ASSUME ~jumped.forward
          PROVE  T1 <= unanswered'.test + untilTestCon'
      <4>1. T1 <= unanswered.test + untilTestCon
        BY <2>1, <2>6, <3>3 DEF TestTimed, Open
      <4> QED
        BY <1>a, <3>1, <4>1, TimerLengths
    <3> QED
      BY <2>1, <3>2, <3>3 DEF TestTimed
  <2>7. CASE ~SendsTest /\ ~waitingForTestFRcon
    BY <2>1, <2>7 DEF TestTimed
  <2> QED
    BY <2>2, <2>4, <2>5, <2>6, <2>7
<1>21. CASE Reconnect104
  BY <1>21 DEF Reconnect104, TestTimed
<1> QED
  BY <1>2, <1>3, <1>5, <1>6, <1>7, <1>8, <1>9, <1>11, <1>12, <1>13, <1>15, <1>16,
     <1>17, <1>18, <1>19, <1>20, <1>21 DEF TimersNext

\* Only handleTimeouts closes a connection by a timer, and only after the timer's length.
LEMMA ClosedStep ==
  ASSUME TimersTypeOK, SendsTimed, TestTimed, ClosedByTimer, TimersNext
  PROVE  ClosedByTimer'
<1> USE DEF receiving104, testing104, others104
<1>1. CASE handleTimeouts
  <2>1. /\ closedBy = "none" /\ jumped' = jumped /\ place \in {"timeouts", "wait"}
        /\ closedBy' \in {"none", "test", "sent"}
    BY <1>1 DEF handleTimeouts, ClosedByTimer
  <2>2. closedBy' # "none" => isRunning /\ (TestTimeout \/ T1Timeout)
    BY <1>1, <2>1 DEF handleTimeouts
  <2>3. TestTimeout \/ T1Timeout => place' = "closed"
    BY <1>1 DEF handleTimeouts
  <2>4. ASSUME ~jumped.forward, closedBy' = "test"
        PROVE  unanswered'.test >= T1
    <3>1. TestTimeout
      BY <1>1, <2>1, <2>4 DEF handleTimeouts
    <3>2. waitingForTestFRcon /\ ~SendsTest /\ unanswered' = unanswered /\ TestLeft < 0
      BY <1>1, <3>1 DEF handleTimeouts, TestTimeout, SendsTest
    <3>3. T1 <= unanswered.test + untilTestCon
      BY <2>1, <2>4, <3>2 DEF TestTimed, Open
    <3>4. unanswered.test \in Nat /\ untilTestCon \in Int
      BY TimerLengths DEF TimersTypeOK, Counters, Offsets
    <3>5. untilTestCon < 0
      BY <3>2, <3>4, TimerLengths DEF TestLeft
    <3> QED
      BY <3>2, <3>3, <3>4, <3>5, TimerLengths
  <2>5. ASSUME ~jumped.forward, closedBy' = "sent"
        PROVE  unanswered'.sent[1] >= T1
    <3>1. sinceSent # <<>> /\ Since(sinceSent[1]) >= T1
      BY <1>1, <2>1, <2>5 DEF handleTimeouts, T1Timeout
    <3>2. /\ unanswered \in [test : Nat, sent : Seq(Nat)] /\ sinceSent \in Seq(Offsets)
          /\ Offsets \subseteq Int
      BY TimerLengths DEF TimersTypeOK, Counters, Offsets
    <3>3. unanswered'.sent = unanswered.sent
      BY <1>1, <3>2 DEF handleTimeouts
    <3>4. 1 \in 1..Len(sinceSent)
      BY <3>1, <3>2, EmptySeq
    <3>5. sinceSent[1] \in Int
      BY <3>2, <3>4, ElementOfSeq
    <3>6. unanswered.sent[1] \in Nat
      <4>1. unanswered.sent \in Seq(Nat)
        BY <3>2
      <4>2. 1 \in 1..Len(unanswered.sent)
        BY <3>4 DEF SendsTimed
      <4> QED
        BY <4>1, <4>2, ElementOfSeq
    <3>7. sinceSent[1] <= unanswered.sent[1]
      BY <2>5, <3>4 DEF SendsTimed
    <3> QED
      BY <3>1, <3>3, <3>5, <3>6, <3>7, TimerLengths DEF Since
  <2> QED
    BY <2>1, <2>2, <2>3, <2>4, <2>5 DEF ClosedByTimer
<1>2. CASE Reconnect104
  BY <1>2 DEF Reconnect104, ClosedByTimer
<1>3. CASE Deactivated
  BY <1>3 DEF Deactivated, ClosedByTimer
<1>4. ASSUME place # "closed", closedBy' = closedBy
      PROVE  ClosedByTimer'
  BY <1>4 DEF ClosedByTimer
<1>5. CASE PassTime \/ \E d \in Jumps : SetClock(d)
  BY <1>4, <1>5 DEF PassTime, SetClock
<1>6. CASE SendIMessage \/ SendFails \/ ReceiveI
  BY <1>4, <1>6 DEF SendIMessage, SendFails, ReceiveI
<1>7. CASE WrongSendNumber \/ WrongReceiveNumber \/ CountI \/ HandleAsdu
  BY <1>4, <1>7 DEF WrongSendNumber, WrongReceiveNumber, CountI, HandleAsdu
<1>8. CASE ReceiveS \/ ReceiveU \/ ReceiveStopDt
  BY <1>4, <1>8 DEF ReceiveS, ReceiveU, ReceiveStopDt
<1>9. CASE ConfirmAtW \/ ConfirmWithS
  BY <1>4, <1>9 DEF ConfirmAtW, ConfirmWithS
<1> QED
  BY <1>1, <1>2, <1>3, <1>5, <1>6, <1>7, <1>8, <1>9 DEF TimersNext

\* A new connection satisfies the invariant.
LEMMA TimersInvInit == TimersInit => TimersInv
<1> SUFFICES ASSUME TimersInit
             PROVE  TimersInv
  OBVIOUS
<1> USE DEF TimersInit
<1>1. Flags
  BY DEF Flags, NoWord
<1>2. Counters
  <2>1. 0 \in Offsets /\ T3 \in Offsets
    BY TimerLengths DEF Offsets
  <2> QED
    BY <2>1 DEF Counters
<1>3. FramesCounted
  BY TimerLengths DEF FramesCounted
<1>4. FramesConfirmed
  BY DEF FramesConfirmed
<1>5. SilenceBounded
  BY TimerLengths DEF SilenceBounded, Unchecked
<1>6. SendsTimed /\ TestTimed /\ ClosedByTimer
  BY DEF SendsTimed, TestTimed, ClosedByTimer
<1> QED
  BY <1>1, <1>2, <1>3, <1>4, <1>5, <1>6 DEF TimersInv, TimersTypeOK

\* Every step keeps the invariant.
LEMMA TimersInvStep == TimersInv /\ [TimersNext]_timerVars => TimersInv'
<1> SUFFICES ASSUME TimersInv, [TimersNext]_timerVars
             PROVE  TimersInv'
  OBVIOUS
<1>1. CASE UNCHANGED timerVars
  BY <1>1 DEF timerVars, receiving104, testing104, others104, TimersInv, TimersTypeOK, Flags,
              Counters, FramesCounted, FramesConfirmed, SilenceBounded, SendsTimed, TestTimed,
              ClosedByTimer, Open, Unchecked, SecondStart
<1>2. CASE TimersNext
  <2>1. TimersTypeOK'
    BY <1>2, FlagsStep, CountersStep DEF TimersInv, TimersTypeOK
  <2>2. FramesCounted' /\ FramesConfirmed' /\ SilenceBounded'
    BY <1>2, <2>1, CountedStep, ConfirmedStep, SilenceStep DEF TimersInv
  <2>3. SendsTimed' /\ TestTimed' /\ ClosedByTimer'
    BY <1>2, <2>1, SendsStep, TestStep, ClosedStep DEF TimersInv
  <2> QED
    BY <2>1, <2>2, <2>3 DEF TimersInv
<1> QED
  BY <1>1, <1>2

\* TimersKept: handleTimeouts and the confirmation at w keep the three promises of the timers,
\* for any t1 > t2, t3, k and w, and however far and often the clock is set.
THEOREM TimersCorrect == TimersSpec => []TimersKept
<1>1. TimersInv => TimersKept
  <2> SUFFICES ASSUME TimersInv
               PROVE  TimersKept
    OBVIOUS
  <2> USE DEF TimersInv
  <2>1. /\ owed \in Seq(Nat) /\ silence \in Nat /\ jumped.back \in Nat /\ untilTestCon \in Int
        /\ \A i \in 1..Len(owed) : owed[i] \in Nat
    BY TimerLengths DEF TimersTypeOK, Counters, Offsets
  <2>2. DOMAIN owed = 1..Len(owed)
    BY <2>1
  <2>3. ASSUME Open, NEW i \in DOMAIN owed
        PROVE  owed[i] <= T2 + (IF overtaken THEN T2 ELSE 0) + jumped.back
    <3>1. owed[i] + 1 <= T2 + SecondStart + jumped.back + Unchecked
      BY <2>2, <2>3 DEF FramesConfirmed
    <3>2. /\ SecondStart \in Nat /\ SecondStart <= (IF overtaken THEN T2 ELSE 0)
          /\ (IF overtaken THEN T2 ELSE 0) \in Nat
      BY TimerLengths DEF SecondStart
    <3>3. Unchecked \in {0, 1} /\ owed[i] \in Nat
      BY <2>1, <2>2, <2>3 DEF Unchecked
    <3> QED
      BY <2>1, <3>1, <3>2, <3>3, TimerLengths
  <2>4. ConfirmedInTime
    BY <2>3 DEF ConfirmedInTime, Open, FramesCounted
  <2>5. SilentPeerClosed
    <3> SUFFICES ASSUME Open
                 PROVE  silence <= T3 + T1 + 2 + jumped.back
      BY DEF SilentPeerClosed, Open
    <3>1. Unchecked \in {0, 1}
      BY DEF Unchecked
    <3>2. \/ silence <= T3 + jumped.back + Unchecked
          \/ silence <= T3 + T1 + 1 + jumped.back + Unchecked
      BY DEF SilenceBounded
    <3> QED
      BY <2>1, <3>1, <3>2, TimerLengths
  <2>6. ClosedRightly
    BY DEF ClosedRightly, ClosedByTimer
  <2> QED
    BY <2>4, <2>5, <2>6 DEF TimersKept
<1> QED
  BY <1>1, TimersInvInit, TimersInvStep, PTL DEF TimersSpec

(***************************************************************************)
(* The inductive invariant of the client                                   *)
(***************************************************************************)
\* The numbers and frames, and where the two threads are.
Numbers == 0..(SequenceRange - 1)
Frames104 == [kind : {"none", "I", "S", "startDTCon", "stopDTCon", "testCon", "testAct"},
              ns : Numbers, nr : Numbers]
Linked == {"opened", "poll", "message", "check", "confirm", "timeouts", "supervise", "closeCheck"}

ClientTypes ==
  /\ caller \in {"idle", "connecting", "joining", "sending", "holding", "written"}
  /\ handler \in {"none", "ended", "reset", "connect", "leave", "stop"} \cup Linked
  /\ running \in BOOLEAN /\ sendCount \in Numbers /\ receiveCount \in Numbers
  /\ sentASDUs \in Seq(Numbers) /\ toClient \in Seq(Frames104) /\ recvBuffer \in Frames104
  /\ peer \in [open : BOOLEAN, got : Numbers, acked : Numbers, ns : Numbers]

\* A call that is to send has room in the k-buffer; it holds sentASDUsLock from before the
\* frame is written until it is recorded.
RoomToSend ==
  /\ caller \in {"sending", "holding", "written"} => Len(sentASDUs) < ClientK
  /\ caller \in {"holding", "written"} => sentASDUsLock # "free"

\* Nothing is sent before the new connection is there, and it starts at zero.
StartsAtZero ==
  /\ handler \in {"reset", "connect"} => ~running /\ caller \in {"idle", "connecting", "joining"}
  /\ handler = "connect" => receiveCount = 0 /\ sendCount = 0 /\ sentASDUs = <<>>
  /\ handler \notin {"message", "check"} => recvBuffer = NoFrame

\* The number before the oldest one in the k-buffer, and how far a number is ahead of another.
Confirmed104 == IF sendCount >= Len(sentASDUs) THEN sendCount - Len(sentASDUs)
                ELSE sendCount - Len(sentASDUs) + SequenceRange
Ahead(base, n) == IF n >= base THEN n - base ELSE n - base + SequenceRange

Confirms(f) == f.kind \in {"I", "S"}
\* The frame f at hand and then those of q confirm ever more frames after base, up to acked,
\* and none that the peer has not got.
Ordered(base, f, q, acked, got) ==
  /\ Ahead(base, acked) <= Ahead(base, got)
  /\ Confirms(f) => Ahead(base, f.nr) <= Ahead(base, acked)
  /\ \A i \in 1..Len(q) : Confirms(q[i]) =>
       /\ Ahead(base, q[i].nr) <= Ahead(base, acked)
       /\ Confirms(f) => Ahead(base, f.nr) <= Ahead(base, q[i].nr)
       /\ \A j \in 1..Len(q) : i < j /\ Confirms(q[j]) =>
            Ahead(base, q[i].nr) <= Ahead(base, q[j].nr)

\* What the peer has got is in the k-buffer, or was written and is about to be recorded.
OnTheWay == Len(sentASDUs) + (IF caller = "written" THEN 1 ELSE 0)
ConfirmsInOrder ==
  handler \in Linked =>
    /\ Ordered(Confirmed104, recvBuffer, toClient, peer.acked, peer.got)
    /\ Ahead(Confirmed104, peer.got) <= OnTheWay
    /\ peer.open => Ahead(Confirmed104, peer.got) = OnTheWay

\* The number expected after a frame.
AfterFrame(n, f) == IF f.kind = "I" THEN NextNumber(n) ELSE n
InTurn(n, f) == f.kind = "I" => f.ns = n
\* The I frames at hand and in q have the numbers from n on, up to the next one, ns.
Turns(n, f, q, ns) ==
  /\ InTurn(n, f)
  /\ \E expected \in [1..(Len(q) + 1) -> Numbers] :
       /\ expected[1] = AfterFrame(n, f) /\ expected[Len(q) + 1] = ns
       /\ \A i \in 1..Len(q) :
            InTurn(expected[i], q[i]) /\ expected[i + 1] = AfterFrame(expected[i], q[i])
ArrivesInTurn ==
  handler \in Linked => Turns(receiveCount, recvBuffer, toClient, peer.ns)

ClientInv ==
  ClientTypes /\ RoomToSend /\ StartsAtZero /\ ConfirmsInOrder /\ ArrivesInTurn /\ NumbersAgree

\* The range of the numbers is larger than the k-buffer.
LEMMA RangeIs ==
  /\ ClientK \in Nat \ {0} /\ SequenceRange \in Nat /\ SequenceRange > ClientK + 1
  /\ \A n \in Numbers : n \in Nat /\ n < SequenceRange
  /\ 0 \in Numbers /\ NoFrame \in Frames104
BY ClientAssumption, SMTT(30) DEF Numbers, Frames104, NoFrame

\* A number that is reduced once at most.
LEMMA ModOnce ==
  ASSUME NEW x \in Nat, x < 2 * SequenceRange
  PROVE  x % SequenceRange = IF x < SequenceRange THEN x ELSE x - SequenceRange
<1>1. SequenceRange \in Nat /\ SequenceRange > 0
  BY RangeIs
<1>2. CASE x < SequenceRange
  BY <1>1, <1>2
<1>3. CASE x >= SequenceRange
  <2> DEFINE y == x - SequenceRange
  <2>1. y \in 0..(SequenceRange - 1) /\ x = 1 * SequenceRange + y
    BY <1>1, <1>3
  <2> QED
    BY <1>1, <1>3, <2>1
<1> QED
  BY <1>1, <1>2, <1>3

\* The number after one.
LEMMA NextIs ==
  ASSUME NEW n \in Numbers
  PROVE  /\ NextNumber(n) \in Numbers
         /\ NextNumber(n) = IF n + 1 = SequenceRange THEN 0 ELSE n + 1
<1>1. n \in Nat /\ n < SequenceRange /\ SequenceRange \in Nat
  BY RangeIs
<1> DEFINE x == n + 1
<1>2. x \in Nat /\ x < 2 * SequenceRange
  BY <1>1
<1>3. x % SequenceRange = IF x < SequenceRange THEN x ELSE x - SequenceRange
  BY <1>2, ModOnce
<1>4. NextNumber(n) = IF n + 1 = SequenceRange THEN 0 ELSE n + 1
  BY <1>1, <1>3 DEF NextNumber
<1> QED
  BY <1>1, <1>4 DEF Numbers

\* How far one number is from another.
LEMMA DistanceIs ==
  ASSUME NEW a \in Numbers, NEW b \in Numbers
  PROVE  /\ Distance(a, b) = IF b >= a THEN b - a ELSE b - a + SequenceRange
         /\ Distance(a, b) \in Nat
<1>1. a \in Nat /\ b \in Nat /\ a < SequenceRange /\ b < SequenceRange /\ SequenceRange \in Nat
  BY RangeIs
<1> DEFINE x == b - a + SequenceRange
<1>2. x \in Nat /\ x < 2 * SequenceRange
  BY <1>1
<1>3. x % SequenceRange = IF x < SequenceRange THEN x ELSE x - SequenceRange
  BY <1>2, ModOnce
<1>4. Distance(a, b) = IF b >= a THEN b - a ELSE b - a + SequenceRange
  BY <1>1, <1>3 DEF Distance
<1> QED
  BY <1>1, <1>4

\* A number is less than the range ahead of another.
LEMMA AheadIs ==
  ASSUME NEW b \in Numbers, NEW n \in Numbers
  PROVE  Ahead(b, n) \in 0..(SequenceRange - 1)
BY RangeIs DEF Ahead, Numbers

\* The number before the oldest in the k-buffer is a number.
LEMMA Confirmed104Is ==
  ASSUME ClientTypes, Len(sentASDUs) <= ClientK
  PROVE  Confirmed104 \in Numbers
<1>1. Len(sentASDUs) \in Nat /\ sendCount \in Numbers
  BY DEF ClientTypes
<1> QED
  BY <1>1, RangeIs DEF Confirmed104, Numbers

\* The numbers in the k-buffer, without the modulus.
LEMMA BufferIs ==
  ASSUME ClientTypes, BufferHoldsUnconfirmed
  PROVE  \A j \in 1..Len(sentASDUs) : sentASDUs[j] =
           IF sendCount - Len(sentASDUs) + j >= 0 THEN sendCount - Len(sentASDUs) + j
           ELSE sendCount - Len(sentASDUs) + j + SequenceRange
<1> TAKE j \in 1..Len(sentASDUs)
<1>1. PICK n \in Nat : n = Len(sentASDUs)
  BY DEF ClientTypes
<1>2. n <= ClientK /\ j \in DOMAIN sentASDUs
  BY <1>1 DEF BufferHoldsUnconfirmed, ClientTypes
<1>3. sentASDUs[j] = (sendCount - n + j + SequenceRange) % SequenceRange
  BY <1>1, <1>2 DEF BufferHoldsUnconfirmed
<1>4. sendCount \in Nat /\ sendCount < SequenceRange
  BY RangeIs DEF ClientTypes
<1> DEFINE x == sendCount - n + j + SequenceRange
<1>5. x \in Nat /\ x < 2 * SequenceRange
  BY <1>1, <1>2, <1>4, RangeIs
<1>6. x % SequenceRange = IF x < SequenceRange THEN x ELSE x - SequenceRange
  BY <1>5, ModOnce
<1> QED
  BY <1>1, <1>2, <1>3, <1>4, <1>6, RangeIs

\* And back: a buffer with these numbers is as BufferHoldsUnconfirmed says.
LEMMA BufferFrom ==
  ASSUME NEW q \in Seq(Numbers), NEW s \in Numbers, Len(q) <= ClientK,
         \A j \in 1..Len(q) : q[j] = IF s - Len(q) + j >= 0 THEN s - Len(q) + j
                                     ELSE s - Len(q) + j + SequenceRange
  PROVE  \A j \in DOMAIN q : q[j] = (s - Len(q) + j + SequenceRange) % SequenceRange
<1> TAKE j \in DOMAIN q
<1>1. PICK n \in Nat : n = Len(q)
  OBVIOUS
<1>2. j \in 1..n /\ n <= ClientK
  BY <1>1
<1>3. q[j] = IF s - n + j >= 0 THEN s - n + j ELSE s - n + j + SequenceRange
  BY <1>1, <1>2
<1>4. s \in Nat /\ s < SequenceRange
  BY RangeIs
<1> DEFINE x == s - n + j + SequenceRange
<1>5. x \in Nat /\ x < 2 * SequenceRange
  BY <1>1, <1>2, <1>4, RangeIs
<1>6. x % SequenceRange = IF x < SequenceRange THEN x ELSE x - SequenceRange
  BY <1>5, ModOnce
<1> QED
  BY <1>1, <1>2, <1>3, <1>4, <1>6, RangeIs

\* A confirmation that is not ahead of the k-buffer is accepted and removes what it confirms.
LEMMA Accepts ==
  ASSUME ClientTypes, BufferHoldsUnconfirmed, NEW nr \in Numbers,
         Ahead(Confirmed104, nr) <= Len(sentASDUs)
  PROVE  /\ SeqNoIsValid(nr)
         /\ AfterConfirmation(nr) =
              SubSeq(sentASDUs, Ahead(Confirmed104, nr) + 1, Len(sentASDUs))
<1>1. PICK n \in Nat : n = Len(sentASDUs)
  BY DEF ClientTypes
<1>2. n <= ClientK
  BY <1>1 DEF BufferHoldsUnconfirmed
<1>3. PICK b \in Numbers : b = Confirmed104
  BY <1>1, <1>2, Confirmed104Is
<1>4. PICK s \in Numbers : s = sendCount
  BY DEF ClientTypes
<1>5. PICK k \in 0..n : k = Ahead(b, nr)
  <2>1. Ahead(b, nr) \in 0..(SequenceRange - 1) /\ Ahead(b, nr) <= n
    BY <1>1, <1>3, AheadIs
  <2> QED
    BY <1>1, <2>1, RangeIs
<1>6. b = IF s >= n THEN s - n ELSE s - n + SequenceRange
  BY <1>1, <1>3, <1>4 DEF Confirmed104
<1>7. nr = IF b + k < SequenceRange THEN b + k ELSE b + k - SequenceRange
  BY <1>3, <1>5, RangeIs DEF Ahead, Numbers
<1>8. CASE n = 0
  <2>1. sentASDUs = <<>> /\ nr = sendCount
    <3>1. sentASDUs = <<>>
      <4>1. sentASDUs \in Seq(Numbers) /\ Len(sentASDUs) = 0
        BY <1>1, <1>8 DEF ClientTypes
      <4> QED
        BY <4>1
    <3>2. nr = s
      BY <1>4, <1>5, <1>6, <1>7, <1>8, RangeIs
    <3> QED
      BY <1>4, <3>1, <3>2
  <2>2. SubSeq(sentASDUs, 1, 0) = sentASDUs
    BY <2>1
  <2> QED
    BY <1>1, <1>3, <1>5, <1>8, <2>1, <2>2 DEF SeqNoIsValid, AfterConfirmation
<1>9. CASE n > 0
  <2>1. sentASDUs # <<>> /\ Oldest104 = sentASDUs[1] /\ Newest104 = sentASDUs[n]
        /\ 1 \in 1..n /\ n \in 1..n
    BY <1>1, <1>9 DEF Oldest104, Newest104, ClientTypes
  <2>2. PICK o \in Numbers, w \in Numbers : o = Oldest104 /\ w = Newest104
    BY <1>1, <2>1 DEF ClientTypes
  <2>3. /\ o = IF s - n + 1 >= 0 THEN s - n + 1 ELSE s - n + 1 + SequenceRange
        /\ w = IF s - n + n >= 0 THEN s - n + n ELSE s - n + n + SequenceRange
    BY <1>1, <1>4, <2>1, <2>2, BufferIs
  <2>4. w = s
    BY <1>4, <2>3, RangeIs
  <2>5. OldestValid = b
    <3> DEFINE x == o - 1 + SequenceRange
    <3>1. x \in Nat /\ x < 2 * SequenceRange
      BY <2>2, RangeIs
    <3>2. x % SequenceRange = IF x < SequenceRange THEN x ELSE x - SequenceRange
      BY <3>1, ModOnce
    <3>3. OldestValid = x % SequenceRange
      BY <2>2 DEF OldestValid
    <3>4. o = IF b + 1 < SequenceRange THEN b + 1 ELSE 0
      BY <1>2, <1>3, <1>4, <1>6, <1>9, <2>3, RangeIs
    <3> HIDE DEF x
    <3>5. x = IF b + 1 < SequenceRange THEN b + SequenceRange ELSE SequenceRange - 1
      BY <1>3, <3>4, RangeIs DEF x
    <3> QED
      BY <1>3, <3>2, <3>3, <3>5, RangeIs
  <2>6. k = 0 => nr = b
    BY <1>3, <1>7, RangeIs
  <2>7. k > 0 => nr # b /\ Distance(o, nr) = k - 1
    <3> SUFFICES ASSUME k > 0
                 PROVE  nr # b /\ Distance(o, nr) = k - 1
      OBVIOUS
    <3>1. Distance(o, nr) = IF nr >= o THEN nr - o ELSE nr - o + SequenceRange
      BY <2>2, DistanceIs
    <3> QED
      BY <1>2, <1>3, <1>4, <1>5, <1>6, <1>7, <1>9, <2>2, <2>3, <3>1, RangeIs, SMTT(30)
  <2>8. nr = b \/ IF o <= w THEN nr \in o..w ELSE nr >= o \/ nr <= w
    BY <1>2, <1>3, <1>4, <1>5, <1>6, <1>7, <1>9, <2>2, <2>3, <2>4, <2>6, RangeIs
  <2>9. SeqNoIsValid(nr)
    BY <2>1, <2>2, <2>5, <2>8 DEF SeqNoIsValid
  <2>10. SubSeq(sentASDUs, 1, n) = sentASDUs
    BY <1>1 DEF ClientTypes
  <2>11. AfterConfirmation(nr) = SubSeq(sentASDUs, k + 1, n)
    <3>1. CASE k = 0
      BY <1>1, <2>5, <2>6, <2>10, <3>1 DEF AfterConfirmation
    <3>2. CASE k > 0
      <4>1. Distance(o, nr) + 2 = k + 1
        BY <1>5, <2>7, <3>2
      <4> QED
        BY <1>1, <2>1, <2>2, <2>5, <2>7, <3>2, <4>1 DEF AfterConfirmation
    <3> QED
      BY <1>5, <3>1, <3>2
  <2> QED
    BY <1>1, <1>3, <1>5, <2>9, <2>11
<1> QED
  BY <1>8, <1>9

\* What is left of the k-buffer when the first k numbers go.
LEMMA Rest ==
  ASSUME NEW q \in Seq(Numbers), NEW k \in 0..Len(q)
  PROVE  /\ SubSeq(q, k + 1, Len(q)) \in Seq(Numbers)
         /\ Len(SubSeq(q, k + 1, Len(q))) = Len(q) - k
         /\ \A j \in 1..(Len(q) - k) : SubSeq(q, k + 1, Len(q))[j] = q[j + k]
OBVIOUS

\* What a frame on the line carries.
LEMMA FrameIs ==
  ASSUME NEW q \in Seq(Frames104), NEW i \in 1..Len(q)
  PROVE  q[i] \in Frames104 /\ q[i].nr \in Numbers
<1>1. q[i] \in Frames104
  OBVIOUS
<1>2. \A f \in Frames104 : f.nr \in Numbers
  BY DEF Frames104
<1> QED
  BY <1>1, <1>2

\* A frame that reaches the line behind the others.
LEMMA OrderedAppend ==
  ASSUME NEW b \in Numbers, NEW f \in Frames104, NEW q \in Seq(Frames104),
         NEW a \in Numbers, NEW g \in Numbers, Ordered(b, f, q, a, g),
         NEW x \in Frames104, NEW a2 \in Numbers,
         Ahead(b, a) <= Ahead(b, a2), Ahead(b, a2) <= Ahead(b, g),
         Confirms(x) => x.nr = a2
  PROVE  Ordered(b, f, Append(q, x), a2, g)
<1> DEFINE n == Len(q)
           r == Append(q, x)
<1>1. n \in Nat /\ Len(r) = n + 1 /\ r[n + 1] = x /\ \A i \in 1..n : r[i] = q[i]
  OBVIOUS
<1>2. \A i \in 1..n : q[i].nr \in Numbers
  BY FrameIs
<1>3. f.nr \in Numbers
  BY DEF Frames104
<1>4. \A m \in Numbers : Ahead(b, m) \in Int
  BY AheadIs, RangeIs
<1> HIDE DEF n, r
<1>5. /\ Confirms(f) => Ahead(b, f.nr) <= Ahead(b, a)
      /\ \A i \in 1..n : Confirms(q[i]) =>
           /\ Ahead(b, q[i].nr) <= Ahead(b, a)
           /\ Confirms(f) => Ahead(b, f.nr) <= Ahead(b, q[i].nr)
           /\ \A j \in 1..n : i < j /\ Confirms(q[j]) => Ahead(b, q[i].nr) <= Ahead(b, q[j].nr)
  BY DEF Ordered, n
<1>6. Confirms(f) => Ahead(b, f.nr) <= Ahead(b, a2)
  BY <1>3, <1>4, <1>5
<1>7. \A i \in 1..n : Confirms(q[i]) => Ahead(b, q[i].nr) <= Ahead(b, a2)
  BY <1>2, <1>4, <1>5
<1>8. \A i \in 1..(n + 1) : i \in 1..n \/ i = n + 1
  BY <1>1
<1>9. ASSUME NEW i \in 1..(n + 1), Confirms(r[i])
      PROVE  /\ Ahead(b, r[i].nr) <= Ahead(b, a2)
             /\ Confirms(f) => Ahead(b, f.nr) <= Ahead(b, r[i].nr)
             /\ \A j \in 1..(n + 1) : i < j /\ Confirms(r[j]) =>
                  Ahead(b, r[i].nr) <= Ahead(b, r[j].nr)
  <2>1. CASE i = n + 1
    <3>1. r[i].nr = a2 /\ Ahead(b, a2) <= Ahead(b, a2)
      BY <1>1, <1>4, <1>9, <2>1
    <3>2. \A j \in 1..(n + 1) : ~(i < j)
      BY <1>1, <2>1
    <3> QED
      BY <1>6, <3>1, <3>2
  <2>2. CASE i \in 1..n
    <3>1. r[i] = q[i] /\ Confirms(q[i])
      BY <1>1, <1>9, <2>2
    <3>2. ASSUME NEW j \in 1..(n + 1), i < j, Confirms(r[j])
          PROVE  Ahead(b, q[i].nr) <= Ahead(b, r[j].nr)
      <4>1. CASE j = n + 1
        <5>1. r[j].nr = a2
          BY <1>1, <3>2, <4>1
        <5> QED
          BY <1>7, <2>2, <3>1, <5>1
      <4>2. CASE j \in 1..n
        BY <1>1, <1>5, <2>2, <3>1, <3>2, <4>2
      <4> QED
        BY <1>8, <4>1, <4>2
    <3> QED
      BY <1>5, <1>7, <2>2, <3>1, <3>2
  <2> QED
    BY <1>8, <2>1, <2>2
<1> QED
  BY <1>1, <1>6, <1>9 DEF Ordered, r

\* The first frame of the line is taken.
LEMMA OrderedTake ==
  ASSUME NEW b \in Numbers, NEW q \in Seq(Frames104), q # <<>>, NEW a, NEW g,
         Ordered(b, NoFrame, q, a, g)
  PROVE  Ordered(b, Head(q), Tail(q), a, g)
<1> DEFINE n == Len(q)
           r == Tail(q)
<1>1. /\ n \in Nat /\ n >= 1 /\ Len(r) = n - 1 /\ Head(q) = q[1] /\ 1 \in 1..n
      /\ \A i \in 1..(n - 1) : r[i] = q[i + 1] /\ i + 1 \in 1..n /\ 1 < i + 1
  OBVIOUS
<1> HIDE DEF n, r
<1>2. /\ Ahead(b, a) <= Ahead(b, g)
      /\ \A i \in 1..n : Confirms(q[i]) =>
           /\ Ahead(b, q[i].nr) <= Ahead(b, a)
           /\ \A j \in 1..n : i < j /\ Confirms(q[j]) => Ahead(b, q[i].nr) <= Ahead(b, q[j].nr)
  BY DEF Ordered, n
<1>3. Confirms(q[1]) => Ahead(b, q[1].nr) <= Ahead(b, a)
  BY <1>1, <1>2
<1>4. ASSUME NEW i \in 1..(n - 1), Confirms(r[i])
      PROVE  /\ Ahead(b, r[i].nr) <= Ahead(b, a)
             /\ Confirms(q[1]) => Ahead(b, q[1].nr) <= Ahead(b, r[i].nr)
             /\ \A j \in 1..(n - 1) : i < j /\ Confirms(r[j]) =>
                  Ahead(b, r[i].nr) <= Ahead(b, r[j].nr)
  <2>1. r[i] = q[i + 1] /\ i + 1 \in 1..n /\ 1 < i + 1
    BY <1>1
  <2>2. \A j \in 1..(n - 1) : i < j => i + 1 < j + 1 /\ r[j] = q[j + 1] /\ j + 1 \in 1..n
    BY <1>1
  <2> QED
    BY <1>1, <1>2, <1>4, <2>1, <2>2
<1> QED
  BY <1>1, <1>2, <1>3, <1>4 DEF Ordered, r

\* The frame at hand is left aside.
LEMMA OrderedDrop ==
  ASSUME NEW b, NEW f, NEW q, NEW a, NEW g, Ordered(b, f, q, a, g)
  PROVE  Ordered(b, NoFrame, q, a, g)
BY DEF Ordered, NoFrame, Confirms

\* The frame at hand confirms: from then on numbers are ahead of its.
LEMMA OrderedConfirm ==
  ASSUME NEW b \in Numbers, NEW f \in Frames104, NEW q \in Seq(Frames104), NEW a \in Numbers,
         NEW g \in Numbers, Ordered(b, f, q, a, g), Confirms(f)
  PROVE  /\ Ordered(f.nr, NoFrame, q, a, g)
         /\ Ahead(f.nr, g) = Ahead(b, g) - Ahead(b, f.nr)
<1>1. PICK m \in Numbers : m = f.nr
  BY DEF Frames104
<1>2. ASSUME NEW x \in Numbers, Ahead(b, m) <= Ahead(b, x)
      PROVE  Ahead(m, x) = Ahead(b, x) - Ahead(b, m)
  BY <1>1, <1>2, RangeIs DEF Ahead
<1>3. Ahead(b, a) <= Ahead(b, g) /\ Ahead(b, m) <= Ahead(b, a)
  BY <1>1 DEF Ordered
<1>4. \A x \in Numbers : Ahead(b, x) \in Int
  BY AheadIs, RangeIs
<1>5. Ahead(b, m) <= Ahead(b, g)
  BY <1>1, <1>3, <1>4
<1>6. /\ Ahead(m, a) = Ahead(b, a) - Ahead(b, m) /\ Ahead(m, g) = Ahead(b, g) - Ahead(b, m)
      /\ Ahead(m, a) <= Ahead(m, g)
  BY <1>2, <1>3, <1>4, <1>5
<1>7. ASSUME NEW i \in 1..Len(q), Confirms(q[i])
      PROVE  /\ q[i].nr \in Numbers
             /\ Ahead(m, q[i].nr) = Ahead(b, q[i].nr) - Ahead(b, m)
             /\ Ahead(m, q[i].nr) <= Ahead(m, a)
  <2>1. q[i].nr \in Numbers
    BY FrameIs
  <2>2. Ahead(b, m) <= Ahead(b, q[i].nr) /\ Ahead(b, q[i].nr) <= Ahead(b, a)
    BY <1>1, <1>7 DEF Ordered
  <2>3. Ahead(m, q[i].nr) = Ahead(b, q[i].nr) - Ahead(b, m)
    BY <1>2, <2>1, <2>2
  <2> QED
    BY <1>4, <1>6, <2>1, <2>2, <2>3
<1>8. ASSUME NEW i \in 1..Len(q), Confirms(q[i]), NEW j \in 1..Len(q), i < j, Confirms(q[j])
      PROVE  Ahead(m, q[i].nr) <= Ahead(m, q[j].nr)
  <2>1. Ahead(b, q[i].nr) <= Ahead(b, q[j].nr)
    BY <1>8 DEF Ordered
  <2> QED
    BY <1>4, <1>7, <1>8, <2>1
<1> QED
  BY <1>1, <1>6, <1>7, <1>8 DEF Ordered, NoFrame, Confirms

\* The peer gets one more frame.
LEMMA OrderedGot ==
  ASSUME NEW b \in Numbers, NEW f \in Frames104, NEW q \in Seq(Frames104), NEW a \in Numbers,
         NEW g \in Numbers, Ordered(b, f, q, a, g), Ahead(b, g) + 1 < SequenceRange
  PROVE  /\ Ordered(b, f, q, a, NextNumber(g))
         /\ Ahead(b, NextNumber(g)) = Ahead(b, g) + 1
<1>1. Ahead(b, NextNumber(g)) = Ahead(b, g) + 1
  BY RangeIs, NextIs DEF Ahead
<1>2. Ahead(b, a) \in Int /\ Ahead(b, g) \in Int
  BY AheadIs, RangeIs
<1>3. Ahead(b, a) <= Ahead(b, g) + 1
  BY <1>2 DEF Ordered
<1> QED
  BY <1>1, <1>3 DEF Ordered

\* The same of the numbers of the I frames: one more on the line.
LEMMA TurnsAppend ==
  ASSUME NEW n \in Numbers, NEW f \in Frames104, NEW q \in Seq(Frames104), NEW ns \in Numbers,
         Turns(n, f, q, ns), NEW x \in Frames104, InTurn(ns, x)
  PROVE  Turns(n, f, Append(q, x), AfterFrame(ns, x))
<1>1. PICK l \in Nat : l = Len(q)
  OBVIOUS
<1>2. PICK e \in [1..(l + 1) -> Numbers] :
        /\ e[1] = AfterFrame(n, f) /\ e[l + 1] = ns
        /\ \A i \in 1..l : InTurn(e[i], q[i]) /\ e[i + 1] = AfterFrame(e[i], q[i])
  BY <1>1 DEF Turns
<1>3. AfterFrame(ns, x) \in Numbers
  BY NextIs DEF AfterFrame
<1> DEFINE r == Append(q, x)
<1>5. Len(r) = l + 1 /\ r[l + 1] = x /\ \A i \in 1..l : r[i] = q[i]
  BY <1>1
<1> HIDE DEF r
<1>6. PICK d \in [1..(l + 2) -> Numbers] :
        d[l + 2] = AfterFrame(ns, x) /\ \A i \in 1..(l + 1) : d[i] = e[i]
  <2> DEFINE d == [i \in 1..(l + 2) |-> IF i = l + 2 THEN AfterFrame(ns, x) ELSE e[i]]
  <2>1. l + 2 \in 1..(l + 2) /\ \A i \in 1..(l + 1) : i \in 1..(l + 2) /\ i # l + 2
    BY <1>1
  <2>2. \A i \in 1..(l + 2) : i = l + 2 \/ i \in 1..(l + 1)
    BY <1>1
  <2>3. d \in [1..(l + 2) -> Numbers]
    BY <1>2, <1>3, <2>2
  <2>4. d[l + 2] = AfterFrame(ns, x) /\ \A i \in 1..(l + 1) : d[i] = e[i]
    BY <2>1
  <2> QED
    BY <2>3, <2>4
<1>7. /\ 1 \in 1..(l + 1) /\ l + 1 \in 1..(l + 1) /\ l + 1 + 1 = l + 2
      /\ \A i \in 1..l : i \in 1..(l + 1) /\ i + 1 \in 1..(l + 1)
      /\ \A i \in 1..(l + 1) : i \in 1..l \/ i = l + 1
  BY <1>1
<1>8. d[1] = AfterFrame(n, f) /\ d[Len(r) + 1] = AfterFrame(ns, x)
  BY <1>2, <1>5, <1>6, <1>7
<1>9. ASSUME NEW i \in 1..(l + 1)
      PROVE  InTurn(d[i], r[i]) /\ d[i + 1] = AfterFrame(d[i], r[i])
  <2>1. CASE i = l + 1
    <3>1. d[i] = ns /\ r[i] = x /\ d[i + 1] = AfterFrame(ns, x)
      BY <1>2, <1>5, <1>6, <1>7, <2>1
    <3> QED
      BY <3>1
  <2>2. CASE i \in 1..l
    <3>1. d[i] = e[i] /\ d[i + 1] = e[i + 1] /\ r[i] = q[i]
      BY <1>5, <1>6, <1>7, <2>2
    <3> QED
      BY <1>2, <2>2, <3>1
  <2> QED
    BY <1>7, <2>1, <2>2
<1>10. d \in [1..(Len(r) + 1) -> Numbers]
  BY <1>5, <1>6, <1>7
<1>11. InTurn(n, f)
  BY DEF Turns
<1> QED
  BY <1>5, <1>8, <1>9, <1>10, <1>11 DEF Turns, r

\* The first one is taken.
LEMMA TurnsTake ==
  ASSUME NEW n \in Numbers, NEW q \in Seq(Frames104), q # <<>>, NEW ns \in Numbers,
         Turns(n, NoFrame, q, ns)
  PROVE  Turns(n, Head(q), Tail(q), ns)
<1>1. PICK l \in Nat : l = Len(q)
  OBVIOUS
<1>2. PICK e \in [1..(l + 1) -> Numbers] :
        /\ e[1] = AfterFrame(n, NoFrame) /\ e[l + 1] = ns
        /\ \A i \in 1..l : InTurn(e[i], q[i]) /\ e[i + 1] = AfterFrame(e[i], q[i])
  BY <1>1 DEF Turns
<1> DEFINE r == Tail(q)
<1>4. l >= 1 /\ Len(r) = l - 1 /\ Head(q) = q[1] /\ \A i \in 1..(l - 1) : r[i] = q[i + 1]
  BY <1>1
<1> HIDE DEF r
<1>5. /\ 1 \in 1..l /\ l - 1 + 1 = l /\ l \in 1..l
      /\ \A i \in 1..l : i + 1 \in 1..(l + 1)
      /\ \A i \in 1..(l - 1) : i \in 1..l /\ i + 1 \in 1..l
  BY <1>1, <1>4
<1>6. PICK d \in [1..l -> Numbers] : \A i \in 1..l : d[i] = e[i + 1]
  <2> DEFINE d == [i \in 1..l |-> e[i + 1]]
  <2>1. d \in [1..l -> Numbers] /\ \A i \in 1..l : d[i] = e[i + 1]
    BY <1>2, <1>5
  <2> QED
    BY <2>1
<1>7. e[1] = n
  BY <1>2 DEF AfterFrame, NoFrame
<1>8. InTurn(n, q[1]) /\ d[1] = AfterFrame(n, q[1]) /\ d[l] = ns
  BY <1>2, <1>5, <1>6, <1>7
<1>9. ASSUME NEW i \in 1..(l - 1)
      PROVE  InTurn(d[i], r[i]) /\ d[i + 1] = AfterFrame(d[i], r[i])
  <2>1. d[i] = e[i + 1] /\ r[i] = q[i + 1] /\ i + 1 \in 1..l /\ d[i + 1] = e[(i + 1) + 1]
    BY <1>4, <1>5, <1>6
  <2> QED
    BY <1>2, <2>1
<1>10. Len(r) + 1 = l
  BY <1>4, <1>5
<1> QED
  BY <1>4, <1>6, <1>8, <1>9, <1>10 DEF Turns, r

\* The frame at hand is done with: the number after it is expected.
LEMMA TurnsDone ==
  ASSUME NEW n, NEW f, NEW q, NEW ns, Turns(n, f, q, ns)
  PROVE  Turns(AfterFrame(n, f), NoFrame, q, ns)
BY DEF Turns, AfterFrame, InTurn, NoFrame

\* A new line is in order.
LEMMA FreshLine == Ordered(0, NoFrame, <<>>, 0, 0) /\ Turns(0, NoFrame, <<>>, 0)
<1>1. Ordered(0, NoFrame, <<>>, 0, 0)
  BY RangeIs DEF Ordered, Ahead, NoFrame, Confirms
<1>2. Turns(0, NoFrame, <<>>, 0)
  <2>1. PICK e \in [1..1 -> Numbers] : e[1] = 0
    <3> DEFINE e == [i \in 1..1 |-> 0]
    <3>1. e \in [1..1 -> Numbers] /\ e[1] = 0
      BY RangeIs
    <3> QED
      BY <3>1
  <2>2. AfterFrame(0, NoFrame) = 0 /\ InTurn(0, NoFrame)
    BY DEF AfterFrame, InTurn, NoFrame
  <2>3. Len(<<>>) = 0 /\ 1..0 = {} /\ 0 + 1 = 1
    OBVIOUS
  <2> QED
    BY <2>1, <2>2, <2>3, Zenon DEF Turns
<1> QED
  BY <1>1, <1>2

\* The frames of the client and of its peer are frames.
LEMMA FramesAre ==
  /\ NoFrame \in Frames104
  /\ UFrame("startDTCon") \in Frames104 /\ UFrame("stopDTCon") \in Frames104
  /\ UFrame("testCon") \in Frames104 /\ UFrame("testAct") \in Frames104
  /\ ~Confirms(NoFrame) /\ \A name \in {"startDTCon", "stopDTCon", "testCon", "testAct"} :
       UFrame(name).kind # "I" /\ ~Confirms(UFrame(name))
  /\ \A ns \in Numbers, nr \in Numbers :
       /\ SFrame(nr) \in Frames104 /\ SFrame(nr).kind # "I" /\ SFrame(nr).nr = nr
       /\ IFrame(ns, nr) \in Frames104 /\ IFrame(ns, nr).kind = "I"
       /\ IFrame(ns, nr).ns = ns /\ IFrame(ns, nr).nr = nr
BY RangeIs DEF Frames104, NoFrame, UFrame, SFrame, IFrame, Confirms

\* A frame of the client's own reaches the line, or not.
LEMMA ReachingIs ==
  ASSUME ClientTypes, NEW f \in Frames104
  PROVE  Reaching(f) \in Seq(Frames104)
BY DEF ClientTypes, Reaching

\* The numbers the peer may confirm.
LEMMA PeerConfirms ==
  ASSUME ClientTypes, NEW n \in 0..Distance(peer.acked, peer.got)
  PROVE  (peer.acked + n) % SequenceRange \in Numbers
<1>1. PICK a \in Numbers, g \in Numbers : a = peer.acked /\ g = peer.got
  BY DEF ClientTypes
<1>2. Distance(a, g) = IF g >= a THEN g - a ELSE g - a + SequenceRange
  BY DistanceIs
<1>3. n \in Nat /\ n < SequenceRange /\ a \in Nat /\ a < SequenceRange
  BY <1>1, <1>2, RangeIs
<1> DEFINE x == a + n
<1>4. x \in Nat /\ x < 2 * SequenceRange
  BY <1>3, RangeIs
<1>5. x % SequenceRange = IF x < SequenceRange THEN x ELSE x - SequenceRange
  BY <1>4, ModOnce
<1>6. x % SequenceRange \in Numbers
  BY <1>4, <1>5, RangeIs DEF Numbers
<1> QED
  BY <1>1, <1>6

\* Every step keeps the types.
LEMMA ClientTypesStep ==
  ASSUME ClientTypes, BufferHoldsUnconfirmed, ClientNext
  PROVE  ClientTypes'
<1> USE DEF locks104, flags104, counters, timers
<1>0. /\ <<>> \in Seq(Numbers) /\ <<>> \in Seq(Frames104) /\ 0 \in Numbers
      /\ [open |-> TRUE, got |-> 0, acked |-> 0, ns |-> 0]
           \in [open : BOOLEAN, got : Numbers, acked : Numbers, ns : Numbers]
  BY RangeIs
<1>1. CASE \E waiting \in BOOLEAN : Connect(waiting)
  BY <1>1 DEF Connect, ClientTypes
<1>2. CASE SendStartDT
  <2>1. toClient' \in Seq(Frames104)
    BY <1>2, FramesAre, ReachingIs DEF SendStartDT
  <2> QED
    BY <1>2, <2>1 DEF SendStartDT, ClientTypes
<1>3. CASE SendStopDT
  <2>1. toClient' \in Seq(Frames104)
    BY <1>3, FramesAre, ReachingIs DEF SendStopDT
  <2> QED
    BY <1>3, <2>1 DEF SendStopDT, ClientTypes
<1>4. CASE SendASDU \/ CloseConnection \/ ConnectReturns \/ TakeSentLock \/ Joined104
  BY <1>4 DEF SendASDU, CloseConnection, ConnectReturns, TakeSentLock, Joined104, ClientTypes
<1>5. CASE WriteIMessage
  <2>1. peer' \in [open : BOOLEAN, got : Numbers, acked : Numbers, ns : Numbers]
    BY <1>5, NextIs DEF WriteIMessage, ClientTypes
  <2> QED
    BY <1>5, <2>1 DEF WriteIMessage, ClientTypes
<1>6. CASE RecordIMessage
  <2>1. sendCount' \in Numbers
    BY <1>6, NextIs DEF RecordIMessage, ClientTypes
  <2>2. sentASDUs' \in Seq(Numbers)
    BY <1>6, <2>1 DEF RecordIMessage, ClientTypes
  <2> QED
    BY <1>6, <2>1, <2>2 DEF RecordIMessage, ClientTypes
<1>7. CASE ResetConnection
  BY <1>0, <1>7 DEF ResetConnection, ClientTypes, Linked
<1>8. CASE SocketConnect
  BY <1>0, <1>8 DEF SocketConnect, ClientTypes, Linked
<1>9. CASE ReceiveMessage
  <2>1. Head(toClient) \in Frames104 /\ Tail(toClient) \in Seq(Frames104)
    BY <1>9 DEF ReceiveMessage, ClientTypes
  <2> QED
    BY <1>9, <2>1 DEF ReceiveMessage, ClientTypes, Linked
<1>10. CASE CheckNumbered
  <2>1. receiveCount' \in Numbers
    BY <1>10, NextIs DEF CheckNumbered, ClientTypes
  <2>2. sentASDUs' \in Seq(Numbers)
    <3>1. PICK q \in Seq(Numbers) : q = sentASDUs
      BY DEF ClientTypes
    <3>2. \A k \in Nat : SubSeq(q, k + 2, Len(q)) \in Seq(Numbers)
      OBVIOUS
    <3>3. recvBuffer.nr \in Numbers /\ (q # <<>> => Oldest104 \in Numbers)
      BY <3>1 DEF ClientTypes, Oldest104, Frames104
    <3>4. q # <<>> => Distance(Oldest104, recvBuffer.nr) \in Nat
      BY <3>3, DistanceIs
    <3> QED
      BY <1>10, <3>1, <3>2, <3>4 DEF CheckNumbered, AfterConfirmation
  <2> QED
    BY <1>10, <2>1, <2>2, RangeIs DEF CheckNumbered, ClientTypes, Linked
<1>11. CASE CheckUnnumbered
  BY <1>11, RangeIs DEF CheckUnnumbered, ClientTypes, Linked
<1>12. CASE HandleTimeouts
  <2>1. toClient' \in Seq(Frames104)
    <3>1. toClient' = toClient \/ toClient' = Reaching(UFrame("testCon"))
      BY <1>12 DEF HandleTimeouts
    <3>2. Reaching(UFrame("testCon")) \in Seq(Frames104)
      BY FramesAre, ReachingIs
    <3> QED
      BY <3>1, <3>2 DEF ClientTypes
  <2>2. handler' \in {"closeCheck", "supervise"}
    BY <1>12 DEF HandleTimeouts
  <2> QED
    BY <1>12, <2>1, <2>2 DEF HandleTimeouts, ClientTypes, Linked
<1>13. CASE NoSocket \/ SetInactive \/ ReceiveError \/ NothingReady \/ LockForMessage
  BY <1>13 DEF NoSocket, SetInactive, ReceiveError, NothingReady, LockForMessage, ClientTypes,
               Linked
<1>14. CASE ConfirmReceived \/ Supervise \/ CheckClose \/ StopRunning
  BY <1>14 DEF ConfirmReceived, Supervise, CheckClose, StopRunning, ClientTypes, Linked
<1>15. CASE LeaveConnection
  BY <1>0, <1>15 DEF LeaveConnection, ClientTypes
<1>16. CASE ServerSends
  <2>1. CASE \E n \in 0..Distance(peer.acked, peer.got) :
               LET nr == (peer.acked + n) % SequenceRange IN
               \/ /\ toClient' = Append(toClient, SFrame(nr))
                  /\ peer' = [peer EXCEPT !.acked = nr]
               \/ /\ toClient' = Append(toClient, IFrame(peer.ns, nr))
                  /\ peer' = [peer EXCEPT !.acked = nr, !.ns = NextNumber(@)]
    <3>1. PICK nr \in Numbers :
            \/ toClient' = Append(toClient, SFrame(nr)) /\ peer' = [peer EXCEPT !.acked = nr]
            \/ /\ toClient' = Append(toClient, IFrame(peer.ns, nr))
               /\ peer' = [peer EXCEPT !.acked = nr, !.ns = NextNumber(@)]
      BY <2>1, PeerConfirms
    <3>2. peer.ns \in Numbers /\ NextNumber(peer.ns) \in Numbers
      BY NextIs DEF ClientTypes
    <3>3. SFrame(nr) \in Frames104 /\ IFrame(peer.ns, nr) \in Frames104
      BY <3>2, FramesAre
    <3>4. toClient' \in Seq(Frames104)
      BY <3>1, <3>3, SMTT(30) DEF ClientTypes
    <3>5. peer' \in [open : BOOLEAN, got : Numbers, acked : Numbers, ns : Numbers]
      BY <3>1, <3>2 DEF ClientTypes
    <3> QED
      BY <1>16, <3>4, <3>5 DEF ServerSends, ClientTypes
  <2>2. CASE toClient' = Append(toClient, UFrame("testAct")) /\ peer' = peer
    BY <1>16, <2>2, FramesAre DEF ServerSends, ClientTypes
  <2>3. CASE peer' = [peer EXCEPT !.open = FALSE] /\ toClient' = toClient
    BY <1>16, <2>3 DEF ServerSends, ClientTypes
  <2> QED
    BY <1>16, <2>1, <2>2, <2>3 DEF ServerSends
<1> QED
  BY <1>1, <1>2, <1>3, <1>4, <1>5, <1>6, <1>7, <1>8, <1>9, <1>10, <1>11, <1>12, <1>13, <1>14,
     <1>15, <1>16 DEF ClientNext, CallerGoesOn, HandlerGoesOn

\* What the confirmation of CheckNumbered leaves in the k-buffer; it is always accepted.
LEMMA ConfirmationIs ==
  ASSUME ClientInv, CheckNumbered
  PROVE  LET k == Ahead(Confirmed104, recvBuffer.nr)
         IN  /\ Confirms(recvBuffer) /\ recvBuffer.nr \in Numbers
             /\ k \in 0..Len(sentASDUs) /\ caller # "written"
             /\ sentASDUs' = SubSeq(sentASDUs, k + 1, Len(sentASDUs))
             /\ receiveCount' = AfterFrame(receiveCount, recvBuffer)
             /\ ~refused'
<1>1. /\ ClientTypes /\ BufferHoldsUnconfirmed /\ handler \in Linked /\ caller # "written"
      /\ Confirms(recvBuffer) /\ recvBuffer \in Frames104
  BY DEF ClientInv, CheckNumbered, RoomToSend, NumbersAgree, Linked, Confirms, ClientTypes
<1>2. PICK nr \in Numbers : nr = recvBuffer.nr
  BY <1>1 DEF Frames104
<1>3. PICK b \in Numbers : b = Confirmed104
  BY <1>1, Confirmed104Is DEF BufferHoldsUnconfirmed
<1>4. PICK n \in Nat : n = Len(sentASDUs)
  BY <1>1 DEF ClientTypes
<1>5. /\ Ordered(b, recvBuffer, toClient, peer.acked, peer.got)
      /\ Ahead(b, peer.got) <= n /\ InTurn(receiveCount, recvBuffer)
  BY <1>1, <1>3, <1>4 DEF ClientInv, ConfirmsInOrder, OnTheWay, ArrivesInTurn, Turns
<1>6. Ahead(b, nr) \in 0..n
  <2>1. /\ Ahead(b, nr) <= Ahead(b, peer.acked) /\ Ahead(b, peer.acked) <= Ahead(b, peer.got)
        /\ Ahead(b, peer.got) <= n
    BY <1>1, <1>2, <1>5 DEF Ordered
  <2>2. /\ Ahead(b, nr) \in 0..(SequenceRange - 1) /\ Ahead(b, peer.acked) \in 0..(SequenceRange - 1)
        /\ Ahead(b, peer.got) \in 0..(SequenceRange - 1)
    BY <1>1, AheadIs DEF ClientTypes
  <2> QED
    BY <2>1, <2>2, RangeIs
<1>7. SeqNoIsValid(nr) /\ AfterConfirmation(nr) = SubSeq(sentASDUs, Ahead(b, nr) + 1, n)
  BY <1>1, <1>3, <1>4, <1>6, Accepts
<1>8. recvBuffer.kind = "I" => recvBuffer.ns = receiveCount
  BY <1>5 DEF InTurn
<1>9. /\ sentASDUs' = AfterConfirmation(nr) /\ ~refused'
      /\ receiveCount' = AfterFrame(receiveCount, recvBuffer)
  <2> DEFINE good == (recvBuffer.kind = "I" => recvBuffer.ns = receiveCount)
                     /\ SeqNoIsValid(recvBuffer.nr)
  <2>1. good
    BY <1>2, <1>7, <1>8
  <2>2. /\ sentASDUs' = IF good THEN AfterConfirmation(recvBuffer.nr) ELSE sentASDUs
        /\ IF good /\ recvBuffer.kind = "I" THEN receiveCount' = NextNumber(receiveCount)
           ELSE receiveCount' = receiveCount
        /\ refused' = (refused \/ ~good)
    BY DEF CheckNumbered
  <2>3. ~refused
    BY DEF ClientInv, NumbersAgree, ServerNeverRefused
  <2> HIDE DEF good
  <2>4. ~refused'
    BY <2>1, <2>2, <2>3, Zenon
  <2> QED
    BY <1>2, <2>1, <2>2, <2>4 DEF AfterFrame
<1> QED
  BY <1>1, <1>2, <1>3, <1>4, <1>6, <1>7, <1>9

\* Every step keeps the room of a call that sends, and where the threads are at the start.
LEMMA PlacesStep ==
  ASSUME ClientInv, ClientNext
  PROVE  RoomToSend' /\ StartsAtZero'
<1> USE DEF locks104, flags104, counters, timers
<1>1. /\ ClientTypes /\ RoomToSend /\ StartsAtZero /\ Len(sentASDUs) \in Nat
      /\ ClientK \in Nat \ {0} /\ Len(<<>>) = 0
  BY RangeIs DEF ClientInv, ClientTypes
<1>2. CASE \/ \E waiting \in BOOLEAN : Connect(waiting)
           \/ SendStartDT \/ SendStopDT \/ CloseConnection \/ ConnectReturns \/ Joined104
  BY <1>1, <1>2 DEF Connect, SendStartDT, SendStopDT, CloseConnection, ConnectReturns, Joined104,
                    RoomToSend, StartsAtZero
<1>3. CASE SendASDU \/ TakeSentLock
  BY <1>1, <1>3 DEF SendASDU, TakeSentLock, RoomToSend, StartsAtZero
<1>4. CASE WriteIMessage \/ RecordIMessage
  BY <1>1, <1>4 DEF WriteIMessage, RecordIMessage, RoomToSend, StartsAtZero
<1>5. CASE ResetConnection \/ NoSocket \/ SocketConnect \/ SetInactive
  BY <1>1, <1>5 DEF ResetConnection, NoSocket, SocketConnect, SetInactive, RoomToSend, StartsAtZero
<1>6. CASE ReceiveMessage \/ ReceiveError \/ NothingReady \/ LockForMessage
  BY <1>1, <1>6 DEF ReceiveMessage, ReceiveError, NothingReady, LockForMessage, RoomToSend,
                    StartsAtZero
<1>7. CASE CheckNumbered
  <2>1. PICK q \in Seq(Numbers), n \in Nat : q = sentASDUs /\ n = Len(q)
    BY <1>1 DEF ClientTypes
  <2>2. PICK k \in 0..n : sentASDUs' = SubSeq(q, k + 1, n)
    BY <1>7, <2>1, ConfirmationIs
  <2>3. Len(sentASDUs') = n - k
    BY <2>1, <2>2, Rest
  <2>4. Len(sentASDUs') <= n /\ (n < ClientK => n - k < ClientK)
    BY <1>1, <2>1, <2>3
  <2> QED
    BY <1>1, <1>7, <2>1, <2>3, <2>4 DEF CheckNumbered, RoomToSend, StartsAtZero
<1>8. CASE CheckUnnumbered \/ ConfirmReceived \/ HandleTimeouts \/ Supervise
  BY <1>1, <1>8 DEF CheckUnnumbered, ConfirmReceived, HandleTimeouts, Supervise, RoomToSend,
                    StartsAtZero
<1>9. CASE CheckClose \/ LeaveConnection \/ StopRunning
  BY <1>1, <1>9 DEF CheckClose, LeaveConnection, StopRunning, RoomToSend, StartsAtZero
<1>10. CASE ServerSends
  <2>1. UNCHANGED <<caller, handler, sentASDUsLock, running, receiveCount, sendCount, sentASDUs,
                    recvBuffer>>
    BY <1>10 DEF ServerSends
  <2> QED
    BY <1>1, <2>1 DEF RoomToSend, StartsAtZero
<1> QED
  BY <1>2, <1>3, <1>4, <1>5, <1>6, <1>7, <1>8, <1>9, <1>10 DEF ClientNext, CallerGoesOn, HandlerGoesOn

Agreed == ConfirmsInOrder /\ ArrivesInTurn /\ NumbersAgree

\* A step that leaves the numbers and the frame at hand alone; the line may get a frame
\* without numbers.
LEMMA NumbersAlone ==
  ASSUME ClientInv, UNCHANGED <<sendCount, sentASDUs, receiveCount, recvBuffer, refused>>,
         caller' = "written" <=> caller = "written", handler' \in Linked => handler \in Linked,
         UNCHANGED <<peer.got, peer.acked, peer.ns>>, peer'.open => peer.open,
         \/ toClient' = toClient
         \/ \E x \in Frames104 : ~Confirms(x) /\ x.kind # "I" /\ toClient' = Append(toClient, x)
  PROVE  Agreed'
<1>1. /\ ClientTypes /\ BufferHoldsUnconfirmed /\ ~refused /\ ConfirmsInOrder /\ ArrivesInTurn
  BY DEF ClientInv, NumbersAgree, ServerNeverRefused
<1>2. NumbersAgree'
  BY <1>1 DEF NumbersAgree, ServerNeverRefused, BufferHoldsUnconfirmed
<1>3. CASE handler' \notin Linked
  BY <1>2, <1>3 DEF Agreed, ConfirmsInOrder, ArrivesInTurn
<1>4. CASE handler' \in Linked
  <2>1. PICK b \in Numbers, a \in Numbers, g \in Numbers, ns \in Numbers, n \in Numbers,
             f \in Frames104, q \in Seq(Frames104) :
          /\ b = Confirmed104 /\ a = peer.acked /\ g = peer.got /\ ns = peer.ns
          /\ n = receiveCount /\ f = recvBuffer /\ q = toClient
    BY <1>1, Confirmed104Is DEF ClientTypes, BufferHoldsUnconfirmed
  <2>2. Ordered(b, f, q, a, g) /\ Turns(n, f, q, ns)
    BY <1>1, <1>4, <2>1 DEF ConfirmsInOrder, ArrivesInTurn
  <2>3. Ordered(b, f, toClient', a, g) /\ Turns(n, f, toClient', ns)
    <3>1. CASE toClient' = q
      BY <2>2, <3>1
    <3>2. ASSUME NEW x \in Frames104, ~Confirms(x), x.kind # "I", toClient' = Append(q, x)
          PROVE  Ordered(b, f, toClient', a, g) /\ Turns(n, f, toClient', ns)
      <4>1. Ahead(b, a) <= Ahead(b, a) /\ Ahead(b, a) <= Ahead(b, g)
        BY <2>2, AheadIs, RangeIs DEF Ordered
      <4>2. Ordered(b, f, Append(q, x), a, g)
        BY <2>2, <3>2, <4>1, OrderedAppend
      <4>3. InTurn(ns, x) /\ AfterFrame(ns, x) = ns
        BY <3>2 DEF InTurn, AfterFrame
      <4>4. Turns(n, f, Append(q, x), ns)
        BY <2>2, <4>3, TurnsAppend
      <4> QED
        BY <3>2, <4>2, <4>4
    <3> QED
      BY <2>1, <3>1, <3>2
  <2>4. /\ Confirmed104' = b /\ peer'.acked = a /\ peer'.got = g /\ peer'.ns = ns
        /\ receiveCount' = n /\ recvBuffer' = f /\ OnTheWay' = OnTheWay
    BY <2>1 DEF Confirmed104, OnTheWay
  <2>5. ConfirmsInOrder'
    BY <1>1, <1>4, <2>1, <2>3, <2>4 DEF ConfirmsInOrder
  <2>6. ArrivesInTurn'
    BY <2>3, <2>4 DEF ArrivesInTurn
  <2> QED
    BY <1>2, <2>5, <2>6 DEF Agreed
<1> QED
  BY <1>3, <1>4

\* sendIMessage: the peer has got the frame that is about to be recorded.
LEMMA WriteStep ==
  ASSUME ClientInv, WriteIMessage
  PROVE  Agreed'
<1>1. /\ ClientTypes /\ BufferHoldsUnconfirmed /\ ~refused /\ ConfirmsInOrder /\ ArrivesInTurn
      /\ Len(sentASDUs) < ClientK /\ caller = "holding" /\ caller' = "written"
      /\ UNCHANGED <<handler, sendCount, sentASDUs, receiveCount, recvBuffer, refused, toClient>>
  BY DEF ClientInv, NumbersAgree, ServerNeverRefused, RoomToSend, WriteIMessage, counters
<1>2. NumbersAgree'
  BY <1>1 DEF NumbersAgree, ServerNeverRefused, BufferHoldsUnconfirmed
<1>3. CASE handler \notin Linked
  BY <1>1, <1>2, <1>3 DEF Agreed, ConfirmsInOrder, ArrivesInTurn
<1>4. CASE handler \in Linked
  <2>1. PICK b \in Numbers, a \in Numbers, g \in Numbers, ns \in Numbers, n \in Numbers,
             f \in Frames104, q \in Seq(Frames104) :
          /\ b = Confirmed104 /\ a = peer.acked /\ g = peer.got /\ ns = peer.ns
          /\ n = receiveCount /\ f = recvBuffer /\ q = toClient
    BY <1>1, Confirmed104Is DEF ClientTypes, BufferHoldsUnconfirmed
  <2>2. PICK l \in Nat : l = Len(sentASDUs)
    BY <1>1 DEF ClientTypes
  <2>3. /\ Ordered(b, f, q, a, g) /\ Turns(n, f, q, ns) /\ Ahead(b, g) <= l
        /\ peer.open => Ahead(b, g) = l
    BY <1>1, <1>4, <2>1, <2>2 DEF ConfirmsInOrder, ArrivesInTurn, OnTheWay
  <2>4. Ahead(b, g) \in Int /\ l < ClientK /\ Ahead(b, g) + 1 < SequenceRange
    <3>1. Ahead(b, g) \in 0..(SequenceRange - 1) /\ l < ClientK
      BY <1>1, <2>2, AheadIs
    <3> QED
      BY <2>2, <2>3, <3>1, RangeIs
  <2>5. /\ Confirmed104' = b /\ peer'.acked = a /\ peer'.ns = ns /\ peer'.open = peer.open
        /\ peer'.got = IF peer.open THEN NextNumber(g) ELSE g
    BY <1>1, <2>1 DEF Confirmed104, WriteIMessage, ClientTypes
  <2>6. OnTheWay' = l + 1
    BY <1>1, <2>2 DEF OnTheWay
  <2>7. Ordered(b, f, q, a, NextNumber(g)) /\ Ahead(b, NextNumber(g)) = Ahead(b, g) + 1
    BY <2>3, <2>4, OrderedGot
  <2>8. ConfirmsInOrder'
    <3>1. CASE peer.open
      BY <1>1, <2>1, <2>3, <2>4, <2>5, <2>6, <2>7, <3>1 DEF ConfirmsInOrder
    <3>2. CASE ~peer.open
      BY <1>1, <2>1, <2>3, <2>4, <2>5, <2>6, <3>2 DEF ConfirmsInOrder
    <3> QED
      BY <3>1, <3>2
  <2>9. ArrivesInTurn'
    BY <1>1, <2>1, <2>3, <2>5 DEF ArrivesInTurn
  <2> QED
    BY <1>2, <2>8, <2>9 DEF Agreed
<1> QED
  BY <1>3, <1>4

\* sendIMessageAndUpdateSentASDUs: the frame written has its number in the k-buffer.
LEMMA RecordStep ==
  ASSUME ClientInv, RecordIMessage
  PROVE  Agreed'
<1>1. /\ ClientTypes /\ BufferHoldsUnconfirmed /\ ~refused /\ ConfirmsInOrder /\ ArrivesInTurn
      /\ Len(sentASDUs) < ClientK /\ caller = "written" /\ caller' = "idle"
      /\ UNCHANGED <<handler, receiveCount, recvBuffer, refused, toClient, peer>>
      /\ sendCount' = NextNumber(sendCount) /\ sentASDUs' = Append(sentASDUs, NextNumber(sendCount))
  BY DEF ClientInv, NumbersAgree, ServerNeverRefused, RoomToSend, RecordIMessage
<1>2. PICK l \in Nat, s \in Numbers, p \in Seq(Numbers) :
        l = Len(sentASDUs) /\ s = sendCount /\ p = sentASDUs
  BY <1>1 DEF ClientTypes
<1>3. PICK t \in Numbers : t = NextNumber(s) /\ t = IF s + 1 = SequenceRange THEN 0 ELSE s + 1
  BY NextIs
<1>4. PICK b \in Numbers : b = Confirmed104
  BY <1>1, Confirmed104Is DEF BufferHoldsUnconfirmed
<1>5. /\ Append(p, t) \in Seq(Numbers) /\ Len(Append(p, t)) = l + 1 /\ Append(p, t)[l + 1] = t
      /\ \A j \in 1..l : Append(p, t)[j] = p[j]
  BY <1>2
<1>6. Confirmed104' = b
  <2>1. b = IF s >= l THEN s - l ELSE s - l + SequenceRange
    BY <1>2, <1>4 DEF Confirmed104
  <2>2. Confirmed104' = IF t >= l + 1 THEN t - (l + 1) ELSE t - (l + 1) + SequenceRange
    BY <1>1, <1>2, <1>3, <1>5 DEF Confirmed104
  <2> QED
    BY <1>1, <1>2, <1>3, <2>1, <2>2, RangeIs
<1>7. BufferHoldsUnconfirmed'
  <2>1. l + 1 <= ClientK
    BY <1>1, <1>2, RangeIs
  <2>2. \A j \in 1..(l + 1) : Append(p, t)[j] =
          IF t - (l + 1) + j >= 0 THEN t - (l + 1) + j ELSE t - (l + 1) + j + SequenceRange
    <3> TAKE j \in 1..(l + 1)
    <3>1. CASE j = l + 1
      BY <1>5, <3>1, RangeIs
    <3>2. CASE j \in 1..l
      <4>1. p[j] = IF s - l + j >= 0 THEN s - l + j ELSE s - l + j + SequenceRange
        BY <1>1, <1>2, <3>2, BufferIs
      <4>2. s \in Nat /\ s < SequenceRange /\ l < SequenceRange
        BY <2>1, RangeIs
      <4> QED
        BY <1>3, <1>5, <3>2, <4>1, <4>2, RangeIs
    <3> QED
      BY <1>2, <3>1, <3>2
  <2>3. PICK r \in Seq(Numbers) : r = Append(p, t)
    BY <1>5
  <2>4. Len(r) = l + 1 /\ Len(r) <= ClientK
        /\ \A j \in 1..Len(r) : r[j] = IF t - Len(r) + j >= 0 THEN t - Len(r) + j
                                      ELSE t - Len(r) + j + SequenceRange
    BY <1>5, <2>1, <2>2, <2>3
  <2>5. \A j \in DOMAIN r : r[j] = (t - Len(r) + j + SequenceRange) % SequenceRange
    BY <2>4, BufferFrom
  <2> QED
    BY <1>1, <1>2, <1>3, <2>3, <2>4, <2>5 DEF BufferHoldsUnconfirmed
<1>8. NumbersAgree'
  BY <1>1, <1>7 DEF NumbersAgree, ServerNeverRefused
<1>9. OnTheWay' = OnTheWay
  BY <1>1, <1>2, <1>3, <1>5 DEF OnTheWay
<1>10. ConfirmsInOrder'
  BY <1>1, <1>4, <1>6, <1>9 DEF ConfirmsInOrder
<1>11. ArrivesInTurn'
  BY <1>1 DEF ArrivesInTurn
<1> QED
  BY <1>8, <1>10, <1>11 DEF Agreed

\* receiveMessage: the first frame of the line is at hand.
LEMMA ReceiveStep ==
  ASSUME ClientInv, ReceiveMessage
  PROVE  Agreed'
<1>1. /\ ClientTypes /\ BufferHoldsUnconfirmed /\ ~refused /\ ConfirmsInOrder /\ ArrivesInTurn
      /\ handler \in Linked /\ recvBuffer = NoFrame /\ toClient # <<>>
      /\ UNCHANGED <<caller, receiveCount, refused, peer, sendCount, sentASDUs>>
      /\ recvBuffer' = Head(toClient) /\ toClient' = Tail(toClient)
  BY DEF ClientInv, NumbersAgree, ServerNeverRefused, StartsAtZero, ReceiveMessage, counters, Linked
<1>2. NumbersAgree'
  BY <1>1 DEF NumbersAgree, ServerNeverRefused, BufferHoldsUnconfirmed
<1>3. PICK b \in Numbers, ns \in Numbers, n \in Numbers, q \in Seq(Frames104) :
        b = Confirmed104 /\ ns = peer.ns /\ n = receiveCount /\ q = toClient
  BY <1>1, Confirmed104Is DEF ClientTypes, BufferHoldsUnconfirmed
<1>4. Ordered(b, Head(q), Tail(q), peer.acked, peer.got)
  BY <1>1, <1>3, OrderedTake DEF ConfirmsInOrder
<1>5. Turns(n, Head(q), Tail(q), ns)
  BY <1>1, <1>3, TurnsTake DEF ArrivesInTurn
<1>6. Confirmed104' = b /\ OnTheWay' = OnTheWay
  BY <1>1, <1>3 DEF Confirmed104, OnTheWay
<1>7. ConfirmsInOrder'
  BY <1>1, <1>3, <1>4, <1>6 DEF ConfirmsInOrder
<1>8. ArrivesInTurn'
  BY <1>1, <1>3, <1>5 DEF ArrivesInTurn
<1> QED
  BY <1>2, <1>7, <1>8 DEF Agreed

\* checkMessage: an I or S frame takes what it confirms out of the k-buffer.
LEMMA NumberedStep104 ==
  ASSUME ClientInv, CheckNumbered
  PROVE  Agreed'
<1>1. /\ ClientTypes /\ BufferHoldsUnconfirmed /\ ConfirmsInOrder /\ ArrivesInTurn
      /\ handler \in Linked /\ recvBuffer' = NoFrame
      /\ UNCHANGED <<caller, toClient, peer, sendCount>>
  BY DEF ClientInv, NumbersAgree, CheckNumbered, Linked
<1>2. PICK b \in Numbers, a \in Numbers, g \in Numbers, ns \in Numbers, s \in Numbers,
           f \in Frames104, q \in Seq(Frames104), p \in Seq(Numbers) :
        /\ b = Confirmed104 /\ a = peer.acked /\ g = peer.got /\ ns = peer.ns /\ s = sendCount
        /\ f = recvBuffer /\ q = toClient /\ p = sentASDUs
  BY <1>1, Confirmed104Is DEF ClientTypes, BufferHoldsUnconfirmed
<1>3. PICK l \in Nat : l = Len(p)
  BY <1>2
<1>4. PICK k \in 0..l : k = Ahead(b, f.nr)
  BY <1>2, <1>3, ConfirmationIs
<1>5. /\ Confirms(f) /\ f.nr \in Numbers /\ caller # "written" /\ ~refused'
      /\ sentASDUs' = SubSeq(p, k + 1, l) /\ receiveCount' = AfterFrame(receiveCount, f)
  BY <1>2, <1>3, <1>4, ConfirmationIs
<1>6. /\ sentASDUs' \in Seq(Numbers) /\ Len(sentASDUs') = l - k
      /\ \A j \in 1..(l - k) : sentASDUs'[j] = p[j + k]
  BY <1>3, <1>5, Rest
<1>7. l <= ClientK
  BY <1>1, <1>2, <1>3 DEF BufferHoldsUnconfirmed
<1>8. Confirmed104' = f.nr
  <2>1. b = IF s >= l THEN s - l ELSE s - l + SequenceRange
    BY <1>2, <1>3 DEF Confirmed104
  <2>2. Confirmed104' = IF s >= l - k THEN s - (l - k) ELSE s - (l - k) + SequenceRange
    BY <1>1, <1>2, <1>6 DEF Confirmed104
  <2>3. PICK m \in Numbers : m = f.nr
    BY <1>5
  <2>4. /\ m \in Nat /\ m < SequenceRange /\ b \in Nat /\ b < SequenceRange /\ s \in Nat
        /\ s < SequenceRange /\ l < SequenceRange /\ k \in Nat /\ k <= l
    BY <1>3, <1>7, RangeIs
  <2>5. k = IF m >= b THEN m - b ELSE m - b + SequenceRange
    BY <1>4, <2>3 DEF Ahead
  <2>6. (IF s >= l - k THEN s - (l - k) ELSE s - (l - k) + SequenceRange) = m
    <3>1. PICK r \in Nat : r = SequenceRange
      BY RangeIs
    <3>2. CASE s >= l
      <4>1. b = s - l /\ m >= b /\ k = m - b /\ s >= l - k
        BY <1>3, <2>1, <2>4, <2>5, <3>1, <3>2
      <4> QED
        BY <1>3, <2>4, <3>1, <4>1
    <3>3. CASE s < l /\ m >= b
      <4>0. s < l /\ ~(s >= l) /\ m >= b
        BY <2>4, <3>3
      <4>1. b = s - l + r /\ k = m - b
        <5>1. b = s - l + r
          BY <2>1, <3>1, <4>0
        <5>2. k = m - b
          BY <2>5, <3>1, <4>0
        <5> QED
          BY <5>1, <5>2
      <4>2. l - k = s + r - m /\ ~(s >= l - k)
        BY <1>3, <2>4, <3>1, <4>1
      <4> QED
        BY <1>3, <2>4, <3>1, <4>2
    <3>4. CASE s < l /\ m < b
      <4>0. s < l /\ ~(s >= l) /\ ~(m >= b)
        BY <2>4, <3>4
      <4>1. b = s - l + r /\ k = m - b + r
        <5>1. b = s - l + r
          BY <2>1, <3>1, <4>0
        <5>2. k = m - b + r
          BY <2>5, <3>1, <4>0
        <5> QED
          BY <5>1, <5>2
      <4>2. l - k = s - m /\ s >= l - k
        BY <1>3, <2>4, <3>1, <4>1
      <4> QED
        BY <1>3, <2>4, <3>1, <4>2
    <3> QED
      BY <1>3, <2>4, <3>2, <3>3, <3>4
  <2> QED
    BY <2>2, <2>3, <2>6
<1>9. BufferHoldsUnconfirmed'
  <2>1. l - k \in Nat /\ l - k <= ClientK
    BY <1>3, <1>7, RangeIs
  <2>2. PICK r \in Seq(Numbers) : r = sentASDUs'
    BY <1>6
  <2>3. \A j \in 1..Len(r) : r[j] =
          IF s - Len(r) + j >= 0 THEN s - Len(r) + j ELSE s - Len(r) + j + SequenceRange
    <3> TAKE j \in 1..Len(r)
    <3>1. Len(r) = l - k /\ j \in 1..(l - k) /\ j + k \in 1..l /\ r[j] = p[j + k]
      <4>1. Len(r) = l - k
        BY <1>6, <2>2
      <4>2. j \in 1..(l - k) /\ j + k \in 1..l
        BY <1>3, <2>1, <4>1
      <4> QED
        BY <1>6, <2>2, <4>1, <4>2
    <3>2. p[j + k] = IF s - l + (j + k) >= 0 THEN s - l + (j + k)
                     ELSE s - l + (j + k) + SequenceRange
      BY <1>1, <1>2, <1>3, <3>1, BufferIs
    <3>3. s - Len(r) + j = s - l + (j + k)
      BY <1>2, <1>3, <3>1, RangeIs
    <3> QED
      BY <3>1, <3>2, <3>3
  <2>4. \A j \in DOMAIN r : r[j] = (s - Len(r) + j + SequenceRange) % SequenceRange
    <3>1. Len(r) <= ClientK
      BY <1>6, <2>1, <2>2
    <3> QED
      BY <2>3, <3>1, BufferFrom
  <2> QED
    BY <1>1, <1>2, <1>6, <2>1, <2>2, <2>4 DEF BufferHoldsUnconfirmed
<1>10. NumbersAgree'
  BY <1>5, <1>9 DEF NumbersAgree, ServerNeverRefused
<1>11. /\ Ordered(b, f, q, a, g) /\ Ahead(b, g) <= l /\ (peer.open => Ahead(b, g) = l)
       /\ Turns(receiveCount, f, q, ns)
  BY <1>1, <1>2, <1>3, <1>5 DEF ConfirmsInOrder, ArrivesInTurn, OnTheWay
<1>12. Ordered(f.nr, NoFrame, q, a, g) /\ Ahead(f.nr, g) = Ahead(b, g) - k
  BY <1>4, <1>5, <1>11, OrderedConfirm
<1>13. OnTheWay' = l - k
  BY <1>1, <1>5, <1>6 DEF OnTheWay
<1>14. Ahead(b, g) \in Int
  BY AheadIs, RangeIs
<1>15. Ahead(f.nr, g) <= l - k /\ (peer.open => Ahead(f.nr, g) = l - k)
  BY <1>3, <1>11, <1>12, <1>14
<1>16. ConfirmsInOrder'
  BY <1>1, <1>2, <1>8, <1>12, <1>13, <1>15 DEF ConfirmsInOrder
<1>17. ArrivesInTurn'
  <2>1. Turns(AfterFrame(receiveCount, f), NoFrame, q, ns)
    BY <1>11, TurnsDone
  <2> QED
    BY <1>1, <1>2, <1>5, <2>1 DEF ArrivesInTurn
<1> QED
  BY <1>10, <1>16, <1>17 DEF Agreed

\* SocketConnect: both ends start at zero.
LEMMA SocketStep ==
  ASSUME ClientInv, SocketConnect
  PROVE  Agreed'
<1>1. /\ ClientTypes /\ BufferHoldsUnconfirmed /\ ~refused /\ recvBuffer = NoFrame
      /\ receiveCount = 0 /\ sendCount = 0 /\ sentASDUs = <<>> /\ caller # "written"
      /\ UNCHANGED <<caller, sendCount, sentASDUs, receiveCount, recvBuffer, refused>>
  BY DEF ClientInv, NumbersAgree, ServerNeverRefused, StartsAtZero, SocketConnect, counters
<1>2. NumbersAgree'
  BY <1>1 DEF NumbersAgree, ServerNeverRefused, BufferHoldsUnconfirmed
<1>3. CASE handler' \notin Linked
  BY <1>2, <1>3 DEF Agreed, ConfirmsInOrder, ArrivesInTurn
<1>4. CASE handler' \in Linked
  <2>1. toClient' = <<>> /\ peer' = [open |-> TRUE, got |-> 0, acked |-> 0, ns |-> 0]
    BY <1>4 DEF SocketConnect, Linked
  <2>2. Confirmed104' = 0 /\ OnTheWay' = 0
    <3>1. Len(sentASDUs') = 0 /\ sendCount' = 0 /\ caller' # "written"
      BY <1>1
    <3> QED
      BY <3>1 DEF Confirmed104, OnTheWay
  <2>3. Ahead(0, 0) = 0
    BY DEF Ahead
  <2>4. ConfirmsInOrder'
    BY <1>1, <2>1, <2>2, <2>3, FreshLine DEF ConfirmsInOrder
  <2>5. ArrivesInTurn'
    BY <1>1, <2>1, FreshLine DEF ArrivesInTurn
  <2> QED
    BY <1>2, <2>4, <2>5 DEF Agreed
<1> QED
  BY <1>3, <1>4

\* A step after which there is no connection.
LEMMA GoneStep ==
  ASSUME ClientInv, handler' \notin Linked, UNCHANGED refused,
         UNCHANGED <<sendCount, sentASDUs>> \/ sentASDUs' = <<>>
  PROVE  Agreed'
<1>1. BufferHoldsUnconfirmed /\ ~refused
  BY DEF ClientInv, NumbersAgree, ServerNeverRefused
<1>2. ~refused'
  BY <1>1
<1>3. BufferHoldsUnconfirmed'
  BY <1>1, RangeIs DEF BufferHoldsUnconfirmed
<1> QED
  BY <1>2, <1>3 DEF Agreed, ConfirmsInOrder, ArrivesInTurn, NumbersAgree, ServerNeverRefused

\* The peer's I and S frames, with any number it may confirm.
LEMMA ServerStep ==
  ASSUME ClientInv, ServerSends
  PROVE  Agreed'
<1>1. /\ ClientTypes /\ BufferHoldsUnconfirmed /\ ~refused /\ ConfirmsInOrder /\ ArrivesInTurn
      /\ UNCHANGED <<caller, handler, sendCount, sentASDUs, receiveCount, recvBuffer, refused>>
  BY DEF ClientInv, NumbersAgree, ServerNeverRefused, ServerSends, counters
<1>2. NumbersAgree'
  BY <1>1 DEF NumbersAgree, ServerNeverRefused, BufferHoldsUnconfirmed
<1>3. CASE handler \notin Linked
  BY <1>1, <1>2, <1>3 DEF Agreed, ConfirmsInOrder, ArrivesInTurn
<1>4. CASE /\ handler \in Linked
           /\ \/ toClient' = Append(toClient, UFrame("testAct")) /\ peer' = peer
              \/ peer' = [peer EXCEPT !.open = FALSE] /\ toClient' = toClient
  <2>1. /\ UNCHANGED <<peer.got, peer.acked, peer.ns>> /\ (peer'.open => peer.open)
    BY <1>1, <1>4 DEF ClientTypes
  <2>2. \/ toClient' = toClient
        \/ \E x \in Frames104 : ~Confirms(x) /\ x.kind # "I" /\ toClient' = Append(toClient, x)
    BY <1>4, FramesAre
  <2> QED
    BY <1>1, <2>1, <2>2, NumbersAlone
<1>5. ASSUME handler \in Linked, NEW d \in 0..Distance(peer.acked, peer.got),
             LET nr == (peer.acked + d) % SequenceRange IN
             \/ toClient' = Append(toClient, SFrame(nr)) /\ peer' = [peer EXCEPT !.acked = nr]
             \/ /\ toClient' = Append(toClient, IFrame(peer.ns, nr))
                /\ peer' = [peer EXCEPT !.acked = nr, !.ns = NextNumber(@)]
      PROVE  Agreed'
  <2>1. PICK b \in Numbers, a \in Numbers, g \in Numbers, ns \in Numbers, n \in Numbers,
             f \in Frames104, q \in Seq(Frames104) :
          /\ b = Confirmed104 /\ a = peer.acked /\ g = peer.got /\ ns = peer.ns
          /\ n = receiveCount /\ f = recvBuffer /\ q = toClient
    BY <1>1, Confirmed104Is DEF ClientTypes, BufferHoldsUnconfirmed
  <2>2. PICK m \in Numbers : m = (peer.acked + d) % SequenceRange
    BY <1>1, <1>5, PeerConfirms
  <2>3. \/ toClient' = Append(q, SFrame(m)) /\ peer' = [peer EXCEPT !.acked = m]
        \/ /\ toClient' = Append(q, IFrame(ns, m))
           /\ peer' = [peer EXCEPT !.acked = m, !.ns = NextNumber(ns)]
    BY <1>5, <2>1, <2>2
  <2>4. Ordered(b, f, q, a, g) /\ Turns(n, f, q, ns)
    BY <1>1, <1>5, <2>1 DEF ConfirmsInOrder, ArrivesInTurn
  <2>5. Ahead(b, a) <= Ahead(b, m) /\ Ahead(b, m) <= Ahead(b, g)
    <3>1. /\ a \in Nat /\ a < SequenceRange /\ g \in Nat /\ g < SequenceRange
          /\ b \in Nat /\ b < SequenceRange /\ m \in Nat /\ m < SequenceRange
      BY RangeIs
    <3>2. Distance(a, g) = IF g >= a THEN g - a ELSE g - a + SequenceRange
      BY DistanceIs
    <3>3. d \in Nat /\ d <= Distance(a, g)
      BY <1>5, <2>1, <3>2, DistanceIs
    <3>4. PICK x \in Nat : x = a + d
      BY <3>1, <3>3
    <3>5. x < 2 * SequenceRange
      BY <3>1, <3>2, <3>3, <3>4, RangeIs
    <3>6. m = IF a + d < SequenceRange THEN a + d ELSE a + d - SequenceRange
      <4>1. x % SequenceRange = IF x < SequenceRange THEN x ELSE x - SequenceRange
        BY <3>5, ModOnce
      <4>2. m = x % SequenceRange
        BY <2>1, <2>2, <3>4
      <4>3. m = IF x < SequenceRange THEN x ELSE x - SequenceRange
        BY <4>1, <4>2
      <4> QED
        BY <3>1, <3>3, <3>4, <4>3, RangeIs
    <3>7. Ahead(b, a) <= Ahead(b, g)
      BY <2>4 DEF Ordered
    <3>8. PICK range \in Nat : range = SequenceRange
      BY RangeIs
    <3>9. Ahead(b, m) = Ahead(b, a) + d
      BY <3>1, <3>2, <3>3, <3>6, <3>7, <3>8 DEF Ahead
    <3>10. Ahead(b, g) - Ahead(b, a) = Distance(a, g)
      BY <3>1, <3>2, <3>7, <3>8 DEF Ahead
    <3>11. Ahead(b, a) \in Int /\ Ahead(b, g) \in Int /\ Distance(a, g) \in Nat
      BY AheadIs, DistanceIs, RangeIs
    <3> QED
      BY <3>3, <3>9, <3>10, <3>11
  <2>6. PICK x \in Frames104 :
          /\ toClient' = Append(q, x) /\ (Confirms(x) => x.nr = m) /\ InTurn(ns, x)
          /\ peer'.ns = AfterFrame(ns, x)
    <3>1. CASE toClient' = Append(q, SFrame(m)) /\ peer' = [peer EXCEPT !.acked = m]
      <4>1. peer'.ns = ns
        BY <1>1, <2>1, <3>1 DEF ClientTypes
      <4>2. SFrame(m) \in Frames104 /\ SFrame(m).kind # "I" /\ SFrame(m).nr = m
        BY FramesAre, RangeIs
      <4> QED
        BY <3>1, <4>1, <4>2 DEF InTurn, AfterFrame
    <3>2. CASE /\ toClient' = Append(q, IFrame(ns, m))
               /\ peer' = [peer EXCEPT !.acked = m, !.ns = NextNumber(ns)]
      <4>1. peer'.ns = NextNumber(ns)
        BY <1>1, <3>2 DEF ClientTypes
      <4>2. IFrame(ns, m) \in Frames104 /\ IFrame(ns, m).kind = "I" /\ IFrame(ns, m).ns = ns
            /\ IFrame(ns, m).nr = m
        BY FramesAre
      <4> QED
        BY <3>2, <4>1, <4>2 DEF InTurn, AfterFrame
    <3> QED
      BY <2>3, <3>1, <3>2
  <2>7. Ordered(b, f, Append(q, x), m, g)
    BY <2>4, <2>5, <2>6, OrderedAppend
  <2>8. Turns(n, f, Append(q, x), AfterFrame(ns, x))
    BY <2>4, <2>6, TurnsAppend
  <2>9. /\ Confirmed104' = b /\ OnTheWay' = OnTheWay
        /\ peer'.acked = m /\ peer'.got = g /\ peer'.open = peer.open
    BY <1>1, <2>1, <2>3 DEF Confirmed104, OnTheWay, ClientTypes
  <2>10. ConfirmsInOrder'
    BY <1>1, <1>5, <2>1, <2>6, <2>7, <2>9 DEF ConfirmsInOrder
  <2>11. ArrivesInTurn'
    BY <1>1, <2>1, <2>6, <2>8 DEF ArrivesInTurn
  <2> QED
    BY <1>2, <2>10, <2>11 DEF Agreed
<1> QED
  BY <1>3, <1>4, <1>5 DEF ServerSends

\* checkMessage: a U frame confirms nothing.
LEMMA UnnumberedStep104 ==
  ASSUME ClientInv, CheckUnnumbered
  PROVE  Agreed'
<1>1. /\ ConfirmsInOrder /\ ArrivesInTurn /\ BufferHoldsUnconfirmed /\ ~refused
      /\ handler \in Linked /\ recvBuffer' = NoFrame /\ recvBuffer.kind # "I"
      /\ UNCHANGED <<caller, receiveCount, refused, peer, sendCount, sentASDUs, toClient>>
  BY DEF ClientInv, NumbersAgree, ServerNeverRefused, CheckUnnumbered, Linked, counters
<1>2. NumbersAgree'
  BY <1>1 DEF NumbersAgree, ServerNeverRefused, BufferHoldsUnconfirmed
<1>3. Confirmed104' = Confirmed104 /\ OnTheWay' = OnTheWay
  BY <1>1 DEF Confirmed104, OnTheWay
<1>4. /\ Ordered(Confirmed104, recvBuffer, toClient, peer.acked, peer.got)
      /\ Ahead(Confirmed104, peer.got) <= OnTheWay
      /\ peer.open => Ahead(Confirmed104, peer.got) = OnTheWay
  BY <1>1 DEF ConfirmsInOrder
<1>5. Ordered(Confirmed104, NoFrame, toClient, peer.acked, peer.got)
  BY <1>4, OrderedDrop
<1>6. Turns(receiveCount, NoFrame, toClient, peer.ns)
  <2>1. AfterFrame(receiveCount, recvBuffer) = receiveCount
    BY <1>1 DEF AfterFrame
  <2> QED
    BY <1>1, <2>1, TurnsDone DEF ArrivesInTurn
<1>7. ConfirmsInOrder'
  BY <1>1, <1>3, <1>4, <1>5 DEF ConfirmsInOrder
<1>8. ArrivesInTurn'
  BY <1>1, <1>6 DEF ArrivesInTurn
<1> QED
  BY <1>2, <1>7, <1>8 DEF Agreed

\* Every step keeps the invariant.
LEMMA ClientInvStep == ClientInv /\ [ClientNext]_clientVars => ClientInv'
<1> SUFFICES ASSUME ClientInv, [ClientNext]_clientVars
             PROVE  ClientInv'
  OBVIOUS
<1> USE DEF locks104, flags104, counters, timers
<1>1. CASE UNCHANGED clientVars
  <2>1. /\ ClientTypes' /\ RoomToSend' /\ StartsAtZero'
    BY <1>1 DEF clientVars, ClientInv, ClientTypes, RoomToSend, StartsAtZero
  <2>2. Agreed'
    BY <1>1, NumbersAlone DEF clientVars
  <2> QED
    BY <2>1, <2>2 DEF ClientInv, Agreed
<1>2. CASE ClientNext
  <2>1. ClientTypes' /\ RoomToSend' /\ StartsAtZero'
    BY <1>2, ClientTypesStep, PlacesStep DEF ClientInv, NumbersAgree
  <2>2. Agreed'
    <3>1. CASE \E waiting \in BOOLEAN : Connect(waiting)
      <4>1. handler' \notin Linked /\ UNCHANGED <<refused, sendCount, sentASDUs>>
        BY <3>1 DEF Connect, Linked
      <4> QED
        BY <4>1, GoneStep
    <3>2. CASE Joined104 \/ NoSocket \/ StopRunning \/ LeaveConnection \/ ResetConnection
      <4>1. /\ handler' \notin Linked /\ UNCHANGED refused
            /\ UNCHANGED <<sendCount, sentASDUs>> \/ sentASDUs' = <<>>
        BY <3>2 DEF Joined104, NoSocket, StopRunning, ResetConnection, LeaveConnection, Linked
      <4> QED
        BY <4>1, GoneStep
    <3>3. CASE \/ SendStartDT \/ SendStopDT \/ SendASDU \/ CloseConnection \/ ConnectReturns
               \/ TakeSentLock \/ SetInactive \/ ReceiveError \/ NothingReady \/ LockForMessage
               \/ ConfirmReceived \/ Supervise \/ CheckClose \/ HandleTimeouts
      <4>1. UNCHANGED <<sendCount, sentASDUs, receiveCount, recvBuffer, refused, peer>>
        BY <3>3 DEF SendStartDT, SendStopDT, SendASDU, CloseConnection, ConnectReturns,
          TakeSentLock, SetInactive, ReceiveError, NothingReady, LockForMessage, ConfirmReceived,
          Supervise, CheckClose, HandleTimeouts
      <4>2. (caller' = "written") <=> (caller = "written")
        BY <3>3 DEF SendStartDT, SendStopDT, SendASDU, CloseConnection, ConnectReturns,
          TakeSentLock, SetInactive, ReceiveError, NothingReady, LockForMessage, ConfirmReceived,
          Supervise, CheckClose, HandleTimeouts
      <4>3. handler' \in Linked => handler \in Linked
        BY <3>3 DEF SendStartDT, SendStopDT, SendASDU, CloseConnection, ConnectReturns,
          TakeSentLock, SetInactive, ReceiveError, NothingReady, LockForMessage, ConfirmReceived,
          Supervise, CheckClose, HandleTimeouts, Linked
      <4>4. \/ toClient' = toClient
            \/ \E x \in Frames104 : ~Confirms(x) /\ x.kind # "I" /\ toClient' = Append(toClient, x)
        BY <3>3, FramesAre DEF SendStartDT, SendStopDT, SendASDU, CloseConnection, ConnectReturns,
          TakeSentLock, SetInactive, ReceiveError, NothingReady, LockForMessage, ConfirmReceived,
          Supervise, CheckClose, HandleTimeouts, Reaching
      <4>5. UNCHANGED <<peer.got, peer.acked, peer.ns>> /\ (peer'.open => peer.open)
        BY <4>1
      <4> QED
        BY <4>1, <4>2, <4>3, <4>4, <4>5, NumbersAlone
    <3>4. CASE CheckUnnumbered
      BY <3>4, UnnumberedStep104
    <3> QED
      BY <1>2, <3>1, <3>2, <3>3, <3>4, WriteStep, RecordStep, ReceiveStep, NumberedStep104,
         SocketStep, ServerStep DEF ClientNext, CallerGoesOn, HandlerGoesOn
  <2> QED
    BY <2>1, <2>2 DEF ClientInv, Agreed
<1> QED
  BY <1>1, <1>2

\* NumbersAgree: with any k, any range of numbers above k + 1 and any order in which the two
\* threads of the client, its peer and the line go on, a peer that keeps to the protocol is
\* never turned down, and the k-buffer holds the numbers of the frames it has not confirmed.
THEOREM NumbersCorrect == ClientSpec => []NumbersAgree
<1>1. ClientInit => ClientInv
  <2> SUFFICES ASSUME ClientInit
               PROVE  ClientInv
    OBVIOUS
  <2>1. ClientTypes
    <3>1. <<>> \in Seq(Numbers) /\ <<>> \in Seq(Frames104)
      OBVIOUS
    <3> QED
      BY <3>1, RangeIs DEF ClientInit, ClientTypes
  <2>2. RoomToSend /\ StartsAtZero /\ ConfirmsInOrder /\ ArrivesInTurn
    BY DEF ClientInit, RoomToSend, StartsAtZero, ConfirmsInOrder, ArrivesInTurn, Linked
  <2>3. NumbersAgree
    BY RangeIs DEF ClientInit, NumbersAgree, ServerNeverRefused, BufferHoldsUnconfirmed
  <2> QED
    BY <2>1, <2>2, <2>3 DEF ClientInv
<1>2. ClientInv /\ [ClientNext]_clientVars => ClientInv'
  BY ClientInvStep
<1>3. ClientInv => NumbersAgree
  BY DEF ClientInv
<1> QED
  BY <1>1, <1>2, <1>3, PTL DEF ClientSpec

(***************************************************************************)
(* SlaveLifecycle: the inductive invariant                                 *)
(***************************************************************************)
MainPlaces == {"starting", "loop", "query", "cleanup", "joinPeriodic", "stop", "await",
               "joinServer", "lockAll", "close", "join", "lockAgain", "closeAgain", "freed",
               "ended"}
ServerPlaces == {"bind", "accept", "limit", "free", "take", "reap", "scan", "join", "done"}
PeriodicPlaces == {"off", "round", "query", "ended"}
ThreadPlaces == {"none", "opened", "loop", "recv", "startdt", "deactivate", "activate",
                 "failing", "closing", "ending", "ended"}

LifeTypeOK ==
  /\ main \in MainPlaces /\ server \in ServerPlaces /\ periodic \in PeriodicPlaces
  /\ thread \in [Object -> ThreadPlaces]
  /\ openConnectionsLock \in Object \cup {Nobody, MainThread, ServerThread}
  /\ stateLock \in [Object -> Object \cup {Nobody}]
  /\ openConnections \in Int
  /\ isUsed \in [Object -> BOOLEAN] /\ conRunning \in [Object -> BOOLEAN]
  /\ connectionThread \in SUBSET Object
  /\ candidate \in 0 .. MaxConnections + 1
  /\ clients \in [Slot -> Object \cup {Nobody}]
  /\ client_count \in Int

\* The lock of the connections is held where the code holds it, and nowhere else.
LockHeld ==
  /\ openConnectionsLock = ServerThread <=> server \in {"free", "scan", "join"}
  /\ openConnectionsLock = MainThread <=> main \in {"close", "join", "closeAgain"}
  /\ \A c \in Object : openConnectionsLock = c <=> thread[c] = "deactivate"

\* main takes the parts down in the order it depends on them.
Down      == {"lockAll", "close", "join", "lockAgain", "closeAgain", "freed", "ended"}
Closed    == {"close", "join", "lockAgain", "closeAgain", "freed", "ended"}
InOrder ==
  /\ main = "starting" => periodic = "off" /\ ~periodicRunning
  /\ main \in {"loop", "query"} => periodicRunning
  /\ main = "cleanup" => periodicRunning \/ periodic = "off"
  /\ main \in {"stop", "await", "joinServer"} \cup Down => periodic \in {"off", "ended"}
  /\ main \in Down => server = "done"
  /\ main \in {"close", "join"} => \A c \in Object : c < candidate => Joined(c)
  /\ main \in {"lockAgain", "closeAgain", "freed", "ended"} => \A c \in Object : Joined(c)
  /\ main = "join" => candidate \in Object
  /\ main \in {"close", "closeAgain"} => candidate > 0

\* An object with a thread is in use and has a handle; the server thread starts and reaps
\* the objects it found.
ObjectsInUse ==
  /\ \A c \in Object : thread[c] # "none" => isUsed[c]
  /\ \A c \in Object : c \notin connectionThread => Joined(c)
  /\ server \in {"take", "join"} => candidate \in Object /\ isUsed[candidate]
  /\ server = "take" => thread[candidate] = "none"
  /\ server = "join" => ~conRunning[candidate]

\* Until main closes the connections, a thread learns that it is to end in its loop only.
RunningSeen ==
  main \notin Closed =>
    \A c \in Object :
      thread[c] \in {"opened", "recv", "startdt", "deactivate", "activate", "failing"}
        => conRunning[c]

\* Until then the counter counts the objects in use.
Counted == main \notin Closed => openConnections = Cardinality(UsedObjects)

\* The list holds connections between their events only, each once, and all of them when
\* it has a place for every object.
ListCounts ==
  /\ Listed \subseteq Connected
  /\ \A s, t \in Slot : clients[s] = clients[t] /\ s # t => clients[s] = Nobody
  /\ client_count = Cardinality(Listed)
  /\ MaxClients >= MaxConnections => Connected \subseteq Listed

LifeInv ==
  /\ LifeTypeOK /\ LockHeld /\ InOrder /\ ObjectsInUse /\ RunningSeen /\ Counted /\ ListCounts

(***************************************************************************)
(* The parts of the invariant, one lemma each                              *)
(***************************************************************************)
\* Connection objects are numbered; the other owners of a lock have numbers of their own.
LEMMA ObjectIsNat ==
  /\ Object \subseteq Nat \ {0} /\ Nobody \notin Object
  /\ MainThread \notin Object /\ ServerThread \notin Object /\ MainThread # ServerThread
  /\ MainThread # Nobody /\ ServerThread # Nobody
BY LifeAssumption DEF Object, Nobody, MainThread, ServerThread

\* Every step keeps the types.
LEMMA TypeKept ==
  ASSUME LifeInv, [LifeNext]_lifeVars
  PROVE  LifeTypeOK'
<1> USE LifeAssumption, ObjectIsNat
    DEF LifeInv, LifeTypeOK, MainPlaces, ServerPlaces, PeriodicPlaces, ThreadPlaces,
        locks, flags, objects, list
<1>1. CASE Bind
  BY <1>1 DEF Bind
<1>2. CASE Poll
  BY <1>2 DEF Poll
<1>3. CASE CheckLimit
  BY <1>3 DEF CheckLimit
<1>4. CASE GetFreeConnection
  BY <1>4 DEF GetFreeConnection, FirstUnused, Object
<1>5. CASE StartConnection
  BY <1>5 DEF StartConnection, ObjectsInUse
<1>6. CASE LockForReap
  BY <1>6 DEF LockForReap
<1>7. CASE Scan
  BY <1>7 DEF Scan, FirstUsed, Object
<1>8. CASE Reap
  BY <1>8 DEF Reap, ObjectsInUse
<1>9. CASE PeriodicRound
  BY <1>9 DEF PeriodicRound
<1>10. CASE Started
  BY <1>10 DEF Started
<1>11. CASE MainLoop
  BY <1>11 DEF MainLoop
<1>12. CASE StopPeriodic
  BY <1>12 DEF StopPeriodic
<1>13. CASE StopServer
  BY <1>13 DEF StopServer
<1>14. CASE LockAll
  BY <1>14 DEF LockAll
<1>15. CASE CloseNext
  <2>1. candidate \in Object /\ candidate + 1 \in 0 .. MaxConnections + 1
    BY <1>15 DEF CloseNext, Object
  <2>2. main' \in MainPlaces /\ conRunning' \in [Object -> BOOLEAN]
    BY <1>15 DEF CloseNext
  <2>3. openConnections' \in Int
    BY <1>15 DEF CloseNext
  <2>4. candidate' \in 0 .. MaxConnections + 1
    BY <1>15, <2>1 DEF CloseNext
  <2> QED
    BY <1>15, <2>2, <2>3, <2>4 DEF CloseNext
<1>16. CASE JoinConnection
  BY <1>16 DEF JoinConnection, InOrder, Object
<1>17. CASE AllClosed
  BY <1>17 DEF AllClosed
<1>18. CASE Exit
  BY <1>18 DEF Exit
<1>19. ASSUME NEW c \in Object, Opened(c)  PROVE  LifeTypeOK'
  BY <1>19 DEF Opened, Goes
<1>20. ASSUME NEW c \in Object, Loop(c)  PROVE  LifeTypeOK'
  BY <1>20 DEF Loop, Goes
<1>21. ASSUME NEW c \in Object, Round(c)  PROVE  LifeTypeOK'
  BY <1>21 DEF Round, Goes
<1>22. ASSUME NEW c \in Object, LockForActivate(c)  PROVE  LifeTypeOK'
  BY <1>22 DEF LockForActivate, Goes
<1>23. ASSUME NEW c \in Object, DeactivateOthers(c)  PROVE  LifeTypeOK'
  BY <1>23 DEF DeactivateOthers, Goes
<1>24. ASSUME NEW c \in Object, ActivateSelf(c)  PROVE  LifeTypeOK'
  BY <1>24 DEF ActivateSelf, Goes
<1>25. ASSUME NEW c \in Object, Failing(c)  PROVE  LifeTypeOK'
  BY <1>25 DEF Failing, Goes
<1>26. ASSUME NEW c \in Object, Closing(c)  PROVE  LifeTypeOK'
  BY <1>26 DEF Closing, Goes
<1>27. ASSUME NEW c \in Object, Ending(c)  PROVE  LifeTypeOK'
  BY <1>27 DEF Ending, Goes
<1>28. ASSUME NEW c \in Object, SequenceError(c)  PROVE  LifeTypeOK'
  BY <1>28 DEF SequenceError, Goes
<1>29. CASE UNCHANGED lifeVars
  BY <1>29 DEF lifeVars
<1> QED
  BY <1>1, <1>2, <1>3, <1>4, <1>5, <1>6, <1>7, <1>8, <1>9, <1>10, <1>11, <1>12, <1>13, <1>14, <1>15,
     <1>16, <1>17, <1>18, <1>19, <1>20, <1>21, <1>22, <1>23, <1>24, <1>25, <1>26, <1>27,
     <1>28, <1>29
  DEF LifeNext, Server, Main, Thread

\* Every step leaves openConnectionsLock with a thread that is at a place where it holds it.
LEMMA LockKept ==
  ASSUME LifeInv, [LifeNext]_lifeVars
  PROVE  LockHeld'
<1> USE ObjectIsNat DEF LifeInv, LifeTypeOK, LockHeld, Free, locks, flags, objects, list
<1>1. CASE Bind
  BY <1>1 DEF Bind
<1>2. CASE Poll
  BY <1>2 DEF Poll
<1>3. CASE CheckLimit
  BY <1>3 DEF CheckLimit
<1>4. CASE GetFreeConnection
  BY <1>4 DEF GetFreeConnection
<1>5. CASE StartConnection
  BY <1>5 DEF StartConnection, ObjectsInUse
<1>6. CASE LockForReap
  BY <1>6 DEF LockForReap
<1>7. CASE Scan
  BY <1>7 DEF Scan
<1>8. CASE Reap
  BY <1>8 DEF Reap, ObjectsInUse, Joined
<1>9. CASE PeriodicRound
  BY <1>9 DEF PeriodicRound
<1>10. CASE Started
  BY <1>10 DEF Started
<1>11. CASE MainLoop
  BY <1>11 DEF MainLoop
<1>12. CASE StopPeriodic
  BY <1>12 DEF StopPeriodic
<1>13. CASE StopServer
  BY <1>13 DEF StopServer
<1>14. CASE LockAll
  BY <1>14 DEF LockAll
<1>15. CASE CloseNext
  BY <1>15 DEF CloseNext
<1>16. CASE JoinConnection
  BY <1>16 DEF JoinConnection
<1>17. CASE AllClosed
  BY <1>17 DEF AllClosed
<1>18. CASE Exit
  BY <1>18 DEF Exit
<1>19. ASSUME NEW c \in Object, Opened(c)  PROVE  LockHeld'
  BY <1>19 DEF Opened, Goes
<1>20. ASSUME NEW c \in Object, Loop(c)  PROVE  LockHeld'
  BY <1>20 DEF Loop, Goes
<1>21. ASSUME NEW c \in Object, Round(c)  PROVE  LockHeld'
  BY <1>21 DEF Round, Goes
<1>22. ASSUME NEW c \in Object, LockForActivate(c)  PROVE  LockHeld'
  BY <1>22 DEF LockForActivate, Goes
<1>23. ASSUME NEW c \in Object, DeactivateOthers(c)  PROVE  LockHeld'
  BY <1>23 DEF DeactivateOthers, Goes
<1>24. ASSUME NEW c \in Object, ActivateSelf(c)  PROVE  LockHeld'
  BY <1>24 DEF ActivateSelf, Goes
<1>25. ASSUME NEW c \in Object, Failing(c)  PROVE  LockHeld'
  BY <1>25 DEF Failing, Goes
<1>26. ASSUME NEW c \in Object, Closing(c)  PROVE  LockHeld'
  BY <1>26 DEF Closing, Goes
<1>27. ASSUME NEW c \in Object, Ending(c)  PROVE  LockHeld'
  BY <1>27 DEF Ending, Goes
<1>28. ASSUME NEW c \in Object, SequenceError(c)  PROVE  LockHeld'
  BY <1>28 DEF SequenceError, Goes
<1>29. CASE UNCHANGED lifeVars
  BY <1>29 DEF lifeVars
<1> QED
  BY <1>1, <1>2, <1>3, <1>4, <1>5, <1>6, <1>7, <1>8, <1>9, <1>10, <1>11, <1>12, <1>13, <1>14, <1>15,
     <1>16, <1>17, <1>18, <1>19, <1>20, <1>21, <1>22, <1>23, <1>24, <1>25, <1>26, <1>27,
     <1>28, <1>29
  DEF LifeNext, Server, Main, Thread

\* Every step keeps the order in which main takes the parts down.
LEMMA OrderKept ==
  ASSUME LifeInv, [LifeNext]_lifeVars
  PROVE  InOrder'
<1> USE LifeAssumption, ObjectIsNat
    DEF LifeInv, LifeTypeOK, InOrder, Down, Joined, locks, flags, objects, list
<1>1. CASE Bind
  BY <1>1 DEF Bind
<1>2. CASE Poll
  BY <1>2 DEF Poll
<1>3. CASE CheckLimit
  BY <1>3 DEF CheckLimit
<1>4. CASE GetFreeConnection
  BY <1>4 DEF GetFreeConnection
<1>5. CASE StartConnection
  BY <1>5 DEF StartConnection
<1>6. CASE LockForReap
  BY <1>6 DEF LockForReap
<1>7. CASE Scan
  BY <1>7 DEF Scan
<1>8. CASE Reap
  BY <1>8 DEF Reap
<1>9. CASE PeriodicRound
  BY <1>9 DEF PeriodicRound
<1>10. CASE Started
  BY <1>10 DEF Started
<1>11. CASE MainLoop
  BY <1>11 DEF MainLoop
<1>12. CASE StopPeriodic
  BY <1>12 DEF StopPeriodic
<1>13. CASE StopServer
  BY <1>13 DEF StopServer, LockHeld
<1>14. CASE LockAll
  BY <1>14 DEF LockAll, Object
<1>15. CASE CloseNext
  BY <1>15 DEF CloseNext, Object, ObjectsInUse
<1>16. CASE JoinConnection
  BY <1>16 DEF JoinConnection, Object, ObjectsInUse
<1>17. CASE AllClosed
  BY <1>17 DEF AllClosed, Object
<1>18. CASE Exit
  BY <1>18 DEF Exit
<1>19. ASSUME NEW c \in Object, Opened(c)  PROVE  InOrder'
  BY <1>19 DEF Opened, Goes
<1>20. ASSUME NEW c \in Object, Loop(c)  PROVE  InOrder'
  BY <1>20 DEF Loop, Goes
<1>21. ASSUME NEW c \in Object, Round(c)  PROVE  InOrder'
  BY <1>21 DEF Round, Goes
<1>22. ASSUME NEW c \in Object, LockForActivate(c)  PROVE  InOrder'
  BY <1>22 DEF LockForActivate, Goes
<1>23. ASSUME NEW c \in Object, DeactivateOthers(c)  PROVE  InOrder'
  BY <1>23 DEF DeactivateOthers, Goes
<1>24. ASSUME NEW c \in Object, ActivateSelf(c)  PROVE  InOrder'
  BY <1>24 DEF ActivateSelf, Goes
<1>25. ASSUME NEW c \in Object, Failing(c)  PROVE  InOrder'
  BY <1>25 DEF Failing, Goes
<1>26. ASSUME NEW c \in Object, Closing(c)  PROVE  InOrder'
  BY <1>26 DEF Closing, Goes
<1>27. ASSUME NEW c \in Object, Ending(c)  PROVE  InOrder'
  BY <1>27 DEF Ending, Goes
<1>28. ASSUME NEW c \in Object, SequenceError(c)  PROVE  InOrder'
  BY <1>28 DEF SequenceError, Goes
<1>29. CASE UNCHANGED lifeVars
  BY <1>29 DEF lifeVars
<1> QED
  BY <1>1, <1>2, <1>3, <1>4, <1>5, <1>6, <1>7, <1>8, <1>9, <1>10, <1>11, <1>12, <1>13, <1>14, <1>15,
     <1>16, <1>17, <1>18, <1>19, <1>20, <1>21, <1>22, <1>23, <1>24, <1>25, <1>26, <1>27,
     <1>28, <1>29
  DEF LifeNext, Server, Main, Thread

\* Every step keeps an object that has a thread in use.
LEMMA InUseKept ==
  ASSUME LifeInv, [LifeNext]_lifeVars
  PROVE  ObjectsInUse'
<1> USE ObjectIsNat DEF LifeInv, LifeTypeOK, ObjectsInUse, Joined, locks, flags, objects, list
<1>1. CASE Bind
  BY <1>1 DEF Bind
<1>2. CASE Poll
  BY <1>2 DEF Poll
<1>3. CASE CheckLimit
  BY <1>3 DEF CheckLimit
<1>4. CASE GetFreeConnection
  BY <1>4 DEF GetFreeConnection, FirstUnused
<1>5. CASE StartConnection
  BY <1>5 DEF StartConnection
<1>6. CASE LockForReap
  BY <1>6 DEF LockForReap
<1>7. CASE Scan
  BY <1>7 DEF Scan, FirstUsed
<1>8. CASE Reap
  BY <1>8 DEF Reap, LockHeld
<1>9. CASE PeriodicRound
  BY <1>9 DEF PeriodicRound
<1>10. CASE Started
  BY <1>10 DEF Started
<1>11. CASE MainLoop
  BY <1>11 DEF MainLoop
<1>12. CASE StopPeriodic
  BY <1>12 DEF StopPeriodic
<1>13. CASE StopServer
  BY <1>13 DEF StopServer
<1>14. CASE LockAll
  BY <1>14 DEF LockAll, InOrder, Down
<1>15. CASE CloseNext
  BY <1>15 DEF CloseNext, InOrder, Down, LockHeld
<1>16. CASE JoinConnection
  BY <1>16 DEF JoinConnection, InOrder, Down
<1>17. CASE AllClosed
  BY <1>17 DEF AllClosed
<1>18. CASE Exit
  BY <1>18 DEF Exit
<1>19. ASSUME NEW c \in Object, Opened(c)  PROVE  ObjectsInUse'
  BY <1>19 DEF Opened, Goes
<1>20. ASSUME NEW c \in Object, Loop(c)  PROVE  ObjectsInUse'
  BY <1>20 DEF Loop, Goes
<1>21. ASSUME NEW c \in Object, Round(c)  PROVE  ObjectsInUse'
  BY <1>21 DEF Round, Goes
<1>22. ASSUME NEW c \in Object, LockForActivate(c)  PROVE  ObjectsInUse'
  BY <1>22 DEF LockForActivate, Goes
<1>23. ASSUME NEW c \in Object, DeactivateOthers(c)  PROVE  ObjectsInUse'
  BY <1>23 DEF DeactivateOthers, Goes
<1>24. ASSUME NEW c \in Object, ActivateSelf(c)  PROVE  ObjectsInUse'
  BY <1>24 DEF ActivateSelf, Goes
<1>25. ASSUME NEW c \in Object, Failing(c)  PROVE  ObjectsInUse'
  BY <1>25 DEF Failing, Goes
<1>26. ASSUME NEW c \in Object, Closing(c)  PROVE  ObjectsInUse'
  BY <1>26 DEF Closing, Goes
<1>27. ASSUME NEW c \in Object, Ending(c)  PROVE  ObjectsInUse'
  BY <1>27 DEF Ending, Goes
<1>28. ASSUME NEW c \in Object, SequenceError(c)  PROVE  ObjectsInUse'
  BY <1>28 DEF SequenceError, Goes
<1>29. CASE UNCHANGED lifeVars
  BY <1>29 DEF lifeVars
<1> QED
  BY <1>1, <1>2, <1>3, <1>4, <1>5, <1>6, <1>7, <1>8, <1>9, <1>10, <1>11, <1>12, <1>13, <1>14, <1>15,
     <1>16, <1>17, <1>18, <1>19, <1>20, <1>21, <1>22, <1>23, <1>24, <1>25, <1>26, <1>27,
     <1>28, <1>29
  DEF LifeNext, Server, Main, Thread

\* Every step keeps the connection running while its thread has not left the loop.
LEMMA RunningKept ==
  ASSUME LifeInv, [LifeNext]_lifeVars
  PROVE  RunningSeen'
<1> USE ObjectIsNat DEF LifeInv, LifeTypeOK, RunningSeen, Closed, locks, flags, objects, list
<1>1. CASE Bind
  BY <1>1 DEF Bind
<1>2. CASE Poll
  BY <1>2 DEF Poll
<1>3. CASE CheckLimit
  BY <1>3 DEF CheckLimit
<1>4. CASE GetFreeConnection
  BY <1>4 DEF GetFreeConnection
<1>5. CASE StartConnection
  BY <1>5 DEF StartConnection, ObjectsInUse
<1>6. CASE LockForReap
  BY <1>6 DEF LockForReap
<1>7. CASE Scan
  BY <1>7 DEF Scan
<1>8. CASE Reap
  BY <1>8 DEF Reap
<1>9. CASE PeriodicRound
  BY <1>9 DEF PeriodicRound
<1>10. CASE Started
  BY <1>10 DEF Started
<1>11. CASE MainLoop
  BY <1>11 DEF MainLoop
<1>12. CASE StopPeriodic
  BY <1>12 DEF StopPeriodic
<1>13. CASE StopServer
  BY <1>13 DEF StopServer
<1>14. CASE LockAll
  BY <1>14 DEF LockAll
<1>15. CASE CloseNext
  BY <1>15 DEF CloseNext
<1>16. CASE JoinConnection
  BY <1>16 DEF JoinConnection
<1>17. CASE AllClosed
  BY <1>17 DEF AllClosed
<1>18. CASE Exit
  BY <1>18 DEF Exit
<1>19. ASSUME NEW c \in Object, Opened(c)  PROVE  RunningSeen'
  BY <1>19 DEF Opened, Goes
<1>20. ASSUME NEW c \in Object, Loop(c)  PROVE  RunningSeen'
  BY <1>20 DEF Loop, Goes
<1>21. ASSUME NEW c \in Object, Round(c)  PROVE  RunningSeen'
  BY <1>21 DEF Round, Goes
<1>22. ASSUME NEW c \in Object, LockForActivate(c)  PROVE  RunningSeen'
  BY <1>22 DEF LockForActivate, Goes
<1>23. ASSUME NEW c \in Object, DeactivateOthers(c)  PROVE  RunningSeen'
  BY <1>23 DEF DeactivateOthers, Goes
<1>24. ASSUME NEW c \in Object, ActivateSelf(c)  PROVE  RunningSeen'
  BY <1>24 DEF ActivateSelf, Goes
<1>25. ASSUME NEW c \in Object, Failing(c)  PROVE  RunningSeen'
  BY <1>25 DEF Failing, Goes
<1>26. ASSUME NEW c \in Object, Closing(c)  PROVE  RunningSeen'
  BY <1>26 DEF Closing, Goes
<1>27. ASSUME NEW c \in Object, Ending(c)  PROVE  RunningSeen'
  BY <1>27 DEF Ending, Goes
<1>28. ASSUME NEW c \in Object, SequenceError(c)  PROVE  RunningSeen'
  BY <1>28 DEF SequenceError, Goes
<1>29. CASE UNCHANGED lifeVars
  BY <1>29 DEF lifeVars
<1> QED
  BY <1>1, <1>2, <1>3, <1>4, <1>5, <1>6, <1>7, <1>8, <1>9, <1>10, <1>11, <1>12, <1>13, <1>14, <1>15,
     <1>16, <1>17, <1>18, <1>19, <1>20, <1>21, <1>22, <1>23, <1>24, <1>25, <1>26, <1>27,
     <1>28, <1>29
  DEF LifeNext, Server, Main, Thread

\* The objects in use can be counted.
LEMMA ObjectFinite ==
  ASSUME NEW S, S \subseteq Object
  PROVE  IsFiniteSet(S) /\ Cardinality(S) \in Nat /\ Cardinality(S) <= MaxConnections
<1>1. IsFiniteSet(Object) /\ Cardinality(Object) = MaxConnections
  BY LifeAssumption, FS_Interval DEF Object
<1> QED
  BY <1>1, FS_Subset, FS_CardinalityType

\* Every step keeps openConnections equal to the objects in use, when nobody changes it.
LEMMA CountKept ==
  ASSUME LifeInv, [LifeNext]_lifeVars
  PROVE  Counted'
<1> USE ObjectIsNat DEF LifeInv, LifeTypeOK, Counted, Closed, UsedObjects, locks, flags, objects, list
<1>0. IsFiniteSet(UsedObjects)
  BY ObjectFinite
<1>1. CASE Bind
  BY <1>1 DEF Bind
<1>2. CASE Poll
  BY <1>2 DEF Poll
<1>3. CASE CheckLimit
  BY <1>3 DEF CheckLimit
<1>4. CASE GetFreeConnection
  <2>1. PICK c \in FirstUnused : /\ isUsed' = [isUsed EXCEPT ![c] = TRUE]
                                 /\ openConnections' = openConnections + 1
    BY <1>4 DEF GetFreeConnection
  <2>2. c \in Object /\ c \notin UsedObjects /\ UsedObjects' = UsedObjects \cup {c}
    BY <2>1 DEF FirstUnused
  <2>3. Cardinality(UsedObjects \cup {c}) = Cardinality(UsedObjects) + 1
    BY <1>0, <2>2, FS_AddElement
  <2> QED
    BY <1>4, <2>1, <2>2, <2>3 DEF GetFreeConnection
<1>5. CASE StartConnection
  BY <1>5 DEF StartConnection
<1>6. CASE LockForReap
  BY <1>6 DEF LockForReap
<1>7. CASE Scan
  BY <1>7 DEF Scan
<1>8. CASE Reap
  <2>1. /\ candidate \in UsedObjects /\ UsedObjects' = UsedObjects \ {candidate}
    BY <1>8 DEF Reap, ObjectsInUse
  <2>2. Cardinality(UsedObjects \ {candidate}) = Cardinality(UsedObjects) - 1
    BY <1>0, <2>1, FS_RemoveElement
  <2> QED
    BY <1>8, <2>1, <2>2 DEF Reap
<1>9. CASE PeriodicRound
  BY <1>9 DEF PeriodicRound
<1>10. CASE Started
  BY <1>10 DEF Started
<1>11. CASE MainLoop
  BY <1>11 DEF MainLoop
<1>12. CASE StopPeriodic
  BY <1>12 DEF StopPeriodic
<1>13. CASE StopServer
  BY <1>13 DEF StopServer
<1>14. CASE LockAll
  BY <1>14 DEF LockAll
<1>15. CASE CloseNext
  BY <1>15 DEF CloseNext
<1>16. CASE JoinConnection
  BY <1>16 DEF JoinConnection
<1>17. CASE AllClosed
  BY <1>17 DEF AllClosed
<1>18. CASE Exit
  BY <1>18 DEF Exit
<1>19. ASSUME NEW c \in Object, Opened(c)  PROVE  Counted'
  BY <1>19 DEF Opened, Goes
<1>20. ASSUME NEW c \in Object, Loop(c)  PROVE  Counted'
  BY <1>20 DEF Loop, Goes
<1>21. ASSUME NEW c \in Object, Round(c)  PROVE  Counted'
  BY <1>21 DEF Round, Goes
<1>22. ASSUME NEW c \in Object, LockForActivate(c)  PROVE  Counted'
  BY <1>22 DEF LockForActivate, Goes
<1>23. ASSUME NEW c \in Object, DeactivateOthers(c)  PROVE  Counted'
  BY <1>23 DEF DeactivateOthers, Goes
<1>24. ASSUME NEW c \in Object, ActivateSelf(c)  PROVE  Counted'
  BY <1>24 DEF ActivateSelf, Goes
<1>25. ASSUME NEW c \in Object, Failing(c)  PROVE  Counted'
  BY <1>25 DEF Failing, Goes
<1>26. ASSUME NEW c \in Object, Closing(c)  PROVE  Counted'
  BY <1>26 DEF Closing, Goes
<1>27. ASSUME NEW c \in Object, Ending(c)  PROVE  Counted'
  BY <1>27 DEF Ending, Goes
<1>28. ASSUME NEW c \in Object, SequenceError(c)  PROVE  Counted'
  BY <1>28 DEF SequenceError, Goes
<1>29. CASE UNCHANGED lifeVars
  BY <1>29 DEF lifeVars
<1> QED
  BY <1>1, <1>2, <1>3, <1>4, <1>5, <1>6, <1>7, <1>8, <1>9, <1>10, <1>11, <1>12, <1>13, <1>14, <1>15,
     <1>16, <1>17, <1>18, <1>19, <1>20, <1>21, <1>22, <1>23, <1>24, <1>25, <1>26, <1>27,
     <1>28, <1>29
  DEF LifeNext, Server, Main, Thread

(***************************************************************************)
(* The list of clients                                                     *)
(***************************************************************************)
\* The loops of client_manager.c stop at a place that meets their condition.
LEMMA MinIsMember ==
  ASSUME NEW S, S \subseteq Slot, S # {}
  PROVE  Min(S) \in S
<1>1. S \subseteq Nat
  BY LifeAssumption DEF Slot
<1>2. PICK x \in S : \A y \in S : ~(<<y, x>> \in OpToRel(<, Nat))
  BY <1>1, NatLessThanWellFounded, WFMin
<1>3. \A y \in S : x <= y
  <2> TAKE y \in S
  <2>1. x \in Nat /\ y \in Nat
    BY <1>1
  <2>2. ~(y < x)
    BY <1>2, <2>1 DEF OpToRel
  <2> QED
    BY <2>1, <2>2
<1> QED
  BY <1>3 DEF Min

\* add_client puts a client that is not in the list into an empty place.
LEMMA Placed ==
  ASSUME LifeTypeOK, ListCounts, NEW c \in Object, c \notin Listed,
         NEW s \in Slot, clients[s] = Nobody,
         clients' = [clients EXCEPT ![s] = c], client_count' = client_count + 1
  PROVE  /\ Listed' = Listed \cup {c} /\ client_count' = Cardinality(Listed')
         /\ (\A u, t \in Slot : clients[u] = clients[t] /\ u # t => clients[u] = Nobody)'
<1> USE ObjectIsNat DEF LifeTypeOK, ListCounts
<1>1. \A t \in Slot : clients'[t] = IF t = s THEN c ELSE clients[t]
  OBVIOUS
<1>2. Listed' = Listed \cup {c}
  BY <1>1 DEF Listed
<1>3. IsFiniteSet(Listed)
  BY ObjectFinite DEF Listed
<1>4. Cardinality(Listed \cup {c}) = Cardinality(Listed) + 1
  BY <1>3, FS_AddElement
<1>5. \A t \in Slot : clients[t] # c
  BY DEF Listed
<1> QED
  BY <1>1, <1>2, <1>4, <1>5

\* remove_client empties the place of a client.
LEMMA Removed ==
  ASSUME LifeTypeOK, ListCounts, NEW c \in Object, NEW s \in Slot, clients[s] = c,
         clients' = [clients EXCEPT ![s] = Nobody], client_count' = client_count - 1
  PROVE  /\ Listed' = Listed \ {c} /\ client_count' = Cardinality(Listed')
         /\ (\A u, t \in Slot : clients[u] = clients[t] /\ u # t => clients[u] = Nobody)'
<1> USE ObjectIsNat DEF LifeTypeOK, ListCounts
<1>1. \A t \in Slot : clients'[t] = IF t = s THEN Nobody ELSE clients[t]
  OBVIOUS
<1>2. \A t \in Slot : t # s => clients[t] # c
  OBVIOUS
<1>3. Listed' = Listed \ {c} /\ c \in Listed
  BY <1>1, <1>2 DEF Listed
<1>4. IsFiniteSet(Listed)
  BY ObjectFinite DEF Listed
<1>5. Cardinality(Listed \ {c}) = Cardinality(Listed) - 1
  <2>1. Cardinality(Listed \ {c}) =
          IF c \in Listed THEN Cardinality(Listed) - 1 ELSE Cardinality(Listed)
    BY ONLY <1>4, FS_RemoveElement
  <2> QED
    BY <1>3, <2>1
<1> QED
  BY <1>1, <1>3, <1>5

\* A list with a place for every object has one for an object that is not in it.
LEMMA PlaceLeft ==
  ASSUME LifeTypeOK, ListCounts, MaxClients >= MaxConnections,
         NEW c \in Object, c \notin Listed
  PROVE  \E s \in Slot : clients[s] = Nobody
<1> USE DEF LifeTypeOK, ListCounts
<1> SUFFICES ASSUME \A s \in Slot : clients[s] # Nobody
             PROVE  FALSE
  OBVIOUS
<1>1. clients \in [Slot -> Object \ {c}]
  BY DEF Listed
<1>2. IsFiniteSet(Slot) /\ Cardinality(Slot) = MaxClients
  BY LifeAssumption, FS_Interval DEF Slot
<1>3. IsFiniteSet(Object) /\ Cardinality(Object) = MaxConnections
  BY LifeAssumption, FS_Interval DEF Object
<1>4. IsFiniteSet(Object \ {c}) /\ Cardinality(Object \ {c}) = MaxConnections - 1
  BY <1>3, FS_RemoveElement
<1>5. Cardinality(Object \ {c}) < Cardinality(Slot)
  BY <1>2, <1>4, LifeAssumption
<1>6. \E x, y \in Slot : x # y /\ clients[x] = clients[y]
  BY <1>1, <1>2, <1>4, <1>5, FS_PigeonHole
<1> QED
  BY <1>6

\* Every step keeps one place in the list for each client between its two events.
LEMMA ListKept ==
  ASSUME LifeInv, [LifeNext]_lifeVars
  PROVE  ListCounts'
<1> USE ObjectIsNat DEF LifeInv, LifeTypeOK, locks, flags, objects, list
<1>0. ASSUME UNCHANGED list, Connected' = Connected
      PROVE  ListCounts'
  BY <1>0 DEF ListCounts, Listed
<1>1. CASE Bind
  BY <1>1, <1>0 DEF Bind, Connected
<1>2. CASE Poll
  BY <1>2, <1>0 DEF Poll, Connected
<1>3. CASE CheckLimit
  BY <1>3, <1>0 DEF CheckLimit, Connected
<1>4. CASE GetFreeConnection
  BY <1>4, <1>0 DEF GetFreeConnection, Connected
<1>5. CASE StartConnection
  BY <1>5, <1>0 DEF StartConnection, Connected, ObjectsInUse
<1>6. CASE LockForReap
  BY <1>6, <1>0 DEF LockForReap, Connected
<1>7. CASE Scan
  BY <1>7, <1>0 DEF Scan, Connected
<1>8. CASE Reap
  BY <1>8, <1>0 DEF Reap, Connected, ObjectsInUse, Joined
<1>9. CASE PeriodicRound
  BY <1>9, <1>0 DEF PeriodicRound, Connected
<1>10. CASE Started
  BY <1>10, <1>0 DEF Started, Connected
<1>11. CASE MainLoop
  BY <1>11, <1>0 DEF MainLoop, Connected
<1>12. CASE StopPeriodic
  BY <1>12, <1>0 DEF StopPeriodic, Connected
<1>13. CASE StopServer
  BY <1>13, <1>0 DEF StopServer, Connected
<1>14. CASE LockAll
  BY <1>14, <1>0 DEF LockAll, Connected
<1>15. CASE CloseNext
  BY <1>15, <1>0 DEF CloseNext, Connected
<1>16. CASE JoinConnection
  BY <1>16, <1>0 DEF JoinConnection, Connected
<1>17. CASE AllClosed
  BY <1>17, <1>0 DEF AllClosed, Connected
<1>18. CASE Exit
  <2>1. Connected' = {}
    BY <1>18 DEF Exit, Connected, InOrder, Joined
  <2>2. Listed' = {} /\ client_count' = 0 /\ clients' = [s \in Slot |-> Nobody]
    BY <1>18 DEF Exit, Listed
  <2> QED
    BY <2>1, <2>2, FS_EmptySet DEF ListCounts
<1>19. ASSUME NEW c \in Object, Opened(c)  PROVE  ListCounts'
  <2>1. Connected' = Connected \cup {c} /\ c \notin Connected
    BY <1>19 DEF Opened, Goes, Connected
  <2>2. c \notin Listed
    BY <2>1 DEF ListCounts
  <2>3. CASE \A s \in Slot : clients[s] # Nobody
    <3>1. UNCHANGED list /\ Listed' = Listed
      BY <1>19, <2>3 DEF Opened, Listed
    <3>2. ~(MaxClients >= MaxConnections)
      BY <2>2, <2>3, PlaceLeft
    <3> QED
      BY <2>1, <3>1, <3>2 DEF ListCounts
  <2>4. CASE \E s \in Slot : clients[s] = Nobody
    <3> DEFINE s == Min({t \in Slot : clients[t] = Nobody})
    <3>1. s \in Slot /\ clients[s] = Nobody
      <4>1. s \in {t \in Slot : clients[t] = Nobody}
        BY <2>4, MinIsMember
      <4> QED
        BY <4>1
    <3>2. clients' = [clients EXCEPT ![s] = c] /\ client_count' = client_count + 1
      BY <1>19, <2>2, <2>4 DEF Opened, Listed
    <3> HIDE DEF s
    <3>3. /\ Listed' = Listed \cup {c} /\ client_count' = Cardinality(Listed')
          /\ (\A u, t \in Slot : clients[u] = clients[t] /\ u # t => clients[u] = Nobody)'
      BY <2>2, <3>1, <3>2, Placed
    <3> QED
      BY <2>1, <3>3 DEF ListCounts
  <2> QED
    BY <2>3, <2>4
<1>20. ASSUME NEW c \in Object, Loop(c)  PROVE  ListCounts'
  BY <1>20, <1>0 DEF Loop, Goes, Connected
<1>21. ASSUME NEW c \in Object, Round(c)  PROVE  ListCounts'
  BY <1>21, <1>0 DEF Round, Goes, Connected
<1>22. ASSUME NEW c \in Object, LockForActivate(c)  PROVE  ListCounts'
  BY <1>22, <1>0 DEF LockForActivate, Goes, Connected
<1>23. ASSUME NEW c \in Object, DeactivateOthers(c)  PROVE  ListCounts'
  BY <1>23, <1>0 DEF DeactivateOthers, Goes, Connected
<1>24. ASSUME NEW c \in Object, ActivateSelf(c)  PROVE  ListCounts'
  BY <1>24, <1>0 DEF ActivateSelf, Goes, Connected
<1>25. ASSUME NEW c \in Object, Failing(c)  PROVE  ListCounts'
  BY <1>25, <1>0 DEF Failing, Goes, Connected
<1>26. ASSUME NEW c \in Object, Closing(c)  PROVE  ListCounts'
  <2>1. Connected' = Connected \ {c}
    BY <1>26 DEF Closing, Goes, Connected
  <2>2. CASE c \notin Listed
    <3>1. UNCHANGED list /\ Listed' = Listed
      BY <1>26, <2>2 DEF Closing, Listed
    <3> QED
      BY <2>1, <2>2, <3>1 DEF ListCounts
  <2>3. CASE c \in Listed
    <3> DEFINE s == Min({t \in Slot : clients[t] = c})
    <3>1. s \in Slot /\ clients[s] = c
      <4>1. s \in {t \in Slot : clients[t] = c}
        BY <2>3, MinIsMember DEF Listed
      <4> QED
        BY <4>1
    <3>2. clients' = [clients EXCEPT ![s] = Nobody] /\ client_count' = client_count - 1
      BY <1>26, <2>3 DEF Closing, Listed
    <3> HIDE DEF s
    <3>3. /\ Listed' = Listed \ {c} /\ client_count' = Cardinality(Listed')
          /\ (\A u, t \in Slot : clients[u] = clients[t] /\ u # t => clients[u] = Nobody)'
      BY <3>1, <3>2, Removed
    <3> QED
      BY <2>1, <3>3 DEF ListCounts
  <2> QED
    BY <2>2, <2>3
<1>27. ASSUME NEW c \in Object, Ending(c)  PROVE  ListCounts'
  BY <1>27, <1>0 DEF Ending, Goes, Connected
<1>28. ASSUME NEW c \in Object, SequenceError(c)  PROVE  ListCounts'
  BY <1>28, <1>0 DEF SequenceError, Goes, Connected
<1>29. CASE UNCHANGED lifeVars
  BY <1>0, <1>29 DEF lifeVars, Connected
<1> QED
  BY <1>1, <1>2, <1>3, <1>4, <1>5, <1>6, <1>7, <1>8, <1>9, <1>10, <1>11, <1>12, <1>13, <1>14, <1>15,
     <1>16, <1>17, <1>18, <1>19, <1>20, <1>21, <1>22, <1>23, <1>24, <1>25, <1>26, <1>27,
     <1>28, <1>29
  DEF LifeNext, Server, Main, Thread

(***************************************************************************)
(* The invariant, and what follows from it                                 *)
(***************************************************************************)
\* A slave that was created satisfies the invariant.
LEMMA InitiallyInv == LifeInit => LifeInv
<1> SUFFICES ASSUME LifeInit PROVE LifeInv
  OBVIOUS
<1> USE LifeAssumption, ObjectIsNat DEF LifeInit
<1>1. LifeTypeOK
  BY DEF LifeTypeOK, MainPlaces, ServerPlaces, PeriodicPlaces, ThreadPlaces
<1>2. LockHeld /\ InOrder /\ ObjectsInUse /\ RunningSeen
  BY DEF LockHeld, InOrder, Down, ObjectsInUse, Joined, RunningSeen
<1>3. UsedObjects = {} /\ Listed = {} /\ Connected = {}
  BY DEF UsedObjects, Listed, Connected
<1>4. Counted
  BY <1>3, FS_EmptySet DEF Counted
<1>5. ListCounts
  BY <1>3, FS_EmptySet DEF ListCounts
<1> QED
  BY <1>1, <1>2, <1>4, <1>5 DEF LifeInv

\* The invariant holds throughout the life of the slave.
LEMMA LifeInvariant == LifeSpec => []LifeInv
<1>1. ASSUME LifeInv, [LifeNext]_lifeVars
      PROVE  LifeInv'
  BY <1>1, TypeKept, LockKept, OrderKept, InUseKept, RunningKept, CountKept, ListKept
  DEF LifeInv
<1> QED
  BY <1>1, InitiallyInv, PTL DEF LifeSpec

\* Whoever asks for the number of open connections while the lock of the connections is
\* free (is_client_connected for main and the periodic sender, the limit of the server
\* thread) gets the number of objects in use, for any number of objects.
THEOREM CountCorrect == LifeSpec => []CountSeen
<1>1. LifeInv => CountSeen
  BY DEF LifeInv, CountSeen, Counted, Closed, InOrder, Down
<1> QED
  BY <1>1, LifeInvariant, PTL

\* add_client and remove_client keep every connection between its two events in the list
\* exactly once, and count them, whatever the order of the events of several connections.
THEOREM ListCorrect == LifeSpec => []ListMatches
<1>1. LifeInv => ListMatches
  BY DEF LifeInv, ListMatches, ListCounts
<1> QED
  BY <1>1, LifeInvariant, PTL

\* No connection object is given to a new connection while a thread or the list still
\* holds it, and CS104_Slave_destroy frees the slave after the last thread has ended.
THEOREM FreeCorrect == LifeSpec => []NoUseAfterFree
<1>1. LifeInv => NoUseAfterFree
  BY DEF LifeInv, NoUseAfterFree, ObjectsInUse, InOrder, Down, ListCounts, Connected
<1> QED
  BY <1>1, LifeInvariant, PTL

\* No set of threads waits within itself, over the lock of the connections or a join, but
\* for the join of CS104_Slave_stop on a thread that is about to activate itself.
THEOREM WaitCorrect == LifeSpec => []NoCircularWait
<1>1. LifeInv => NoCircularWait
  <2> SUFFICES ASSUME LifeInv, ~StopHang,
                      NEW S \in SUBSET (1 .. PeriodicThread), S # {},
                      \A a \in S : WaitsFor[a] \in S
               PROVE  FALSE
    BY DEF NoCircularWait
  <2> USE LifeAssumption, ObjectIsNat DEF LifeInv, LifeTypeOK
  <2>1. /\ Nobody \notin S /\ S \subseteq Object \cup {MainThread, ServerThread, PeriodicThread}
        /\ Object \cup {MainThread, ServerThread, PeriodicThread} = 1 .. PeriodicThread
        /\ PeriodicThread \notin Object \cup {MainThread, ServerThread}
    BY DEF Object, MainThread, ServerThread, PeriodicThread, Nobody
  <2>2. \A c \in Object : c \in S => thread[c] = "startdt" /\ openConnectionsLock \in S
    BY <2>1 DEF WaitsFor
  <2>3. openConnectionsLock # MainThread \/ MainThread \notin S
    <3> SUFFICES ASSUME openConnectionsLock = MainThread, MainThread \in S
                 PROVE  FALSE
      OBVIOUS
    <3>1. main \in {"close", "join", "closeAgain"} /\ WaitsFor[MainThread] \in S
      BY DEF LockHeld
    <3>2. main = "join" /\ candidate \in S
      BY <2>1, <3>1 DEF WaitsFor
    <3>3. candidate \in Object
      BY <3>2 DEF InOrder
    <3> QED
      BY <2>2, <3>2, <3>3 DEF StopHang
  <2>4. openConnectionsLock # ServerThread \/ ServerThread \notin S
    <3> SUFFICES ASSUME openConnectionsLock = ServerThread, ServerThread \in S
                 PROVE  FALSE
      OBVIOUS
    <3>1. server \in {"free", "scan", "join"} /\ WaitsFor[ServerThread] \in S
      BY DEF LockHeld
    <3>2. server = "join" /\ candidate \in S
      BY <2>1, <3>1 DEF WaitsFor
    <3>3. candidate \in Object /\ ~conRunning[candidate] /\ main \notin Closed
      BY <3>2 DEF ObjectsInUse, InOrder, Down, Closed
    <3> QED
      BY <2>2, <3>2, <3>3 DEF RunningSeen
  <2>5. openConnectionsLock \notin S
    BY <2>1, <2>2, <2>3, <2>4 DEF LockHeld
  <2>6. S \cap Object = {}
    BY <2>2, <2>5
  <2>7. PeriodicThread \notin S
    BY <2>1, <2>5 DEF WaitsFor
  <2>8. ServerThread \notin S
    <3> SUFFICES ASSUME WaitsFor[ServerThread] \in S
                 PROVE  FALSE
      OBVIOUS
    <3>1. server = "join" /\ candidate \in S
      BY <2>1, <2>5 DEF WaitsFor
    <3> QED
      BY <2>6, <3>1 DEF ObjectsInUse
  <2>9. MainThread \notin S
    <3> SUFFICES ASSUME WaitsFor[MainThread] \in S
                 PROVE  FALSE
      OBVIOUS
    <3>1. main = "join" /\ candidate \in S
      BY <2>1, <2>5, <2>7, <2>8 DEF WaitsFor
    <3> QED
      BY <2>6, <3>1 DEF InOrder
  <2>10. PICK a : a \in S
    OBVIOUS
  <2>11. a \in Object \cup {MainThread, ServerThread, PeriodicThread}
    BY <2>1, <2>10
  <2> QED
    BY <2>6, <2>7, <2>8, <2>9, <2>10, <2>11
<1> QED
  BY <1>1, LifeInvariant, PTL
=============================================================================
