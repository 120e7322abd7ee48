----------------------------- MODULE LinkProofs -----------------------------
(***************************************************************************)
(* Proofs about the link layer of lib60870, balanced and unbalanced, for   *)
(* every number of messages, repetitions, losses and time-outs.            *)
(***************************************************************************)
EXTENDS BalancedLink, UnbalancedLink, TLAPS

(***************************************************************************)
(* Balanced: the inductive invariant                                       *)
(***************************************************************************)
Frame == [fc : {"requestStatus", "resetLink", "test", "userData"}, fcv : BOOLEAN,
          fcb : BOOLEAN, message : Nat]
Response == [fc : {"ack", "nack", "status", "data", "notImplemented"}, dfc : BOOLEAN]
PrimaryStates == {"idle", "requestStatus", "resetLink", "available", "sendConfirm", "busy"}
StateTypes ==
  /\ primaryState \in PrimaryStates
  /\ waiting \in BOOLEAN /\ testing \in BOOLEAN /\ nextFcb \in BOOLEAN /\ expectedFcb \in BOOLEAN
  /\ repeats \in Nat /\ early \in Nat /\ foreign \in Nat
  /\ nextMessage \in Nat \ {0} /\ lastSendAsdu \in Nat
LineTypes == toSecondary \in Seq(Frame) /\ toPrimary \in Seq(Response) /\ received \in Seq(Nat)
LinkTypeOK == StateTypes /\ LineTypes

\* The frames the secondary may still see: those on the line, and the one the primary may
\* repeat.
Repeating == primaryState = "sendConfirm" /\ ~testing
Coming == IF Repeating THEN Append(toSecondary, UserData(lastSendAsdu, ~nextFcb)) ELSE toSecondary
\* A message waits for its confirmation, and was not repeated as a test function.
Confirming == primaryState = "sendConfirm" /\ service = "userData"
Undisturbed == Confirming /\ lastSendAsdu \notin replaced

\* Messages come in order, the copies of one in a row.
CopiesInARow(q) ==
  \A i, j \in DOMAIN q : i < j /\ q[i].fc = "userData" /\ q[j].fc = "userData" =>
    /\ q[i].message <= q[j].message
    /\ q[i].message = q[j].message => q[i + 1] = q[i]
\* A copy of a message that was received comes next, and its frame count bit gives it away.
CopiesRefused(q, got, expected) ==
  \A j \in DOMAIN q : \A r \in DOMAIN got : q[j].fc = "userData" =>
    /\ got[r] <= q[j].message
    /\ got[r] = q[j].message =>
         q[1].fc = "userData" /\ q[1].message = q[j].message /\ q[1].fcb # expected
\* Numbers are used once.
FairFrame(f, next) ==
  /\ f.fc = "userData" => f.fcv /\ f.message < next
  /\ f.fc = "test" => f.fcv
  /\ f.fc \in {"requestStatus", "resetLink"} => ~f.fcv
FairLine(q, next) == \A j \in DOMAIN q : FairFrame(q[j], next)
Numbered ==
  /\ lastSendAsdu < nextMessage
  /\ \A r \in DOMAIN received : received[r] < nextMessage
  /\ FairLine(toSecondary, nextMessage)

\* In time, one frame or its answer is on the line, and none while the primary may send.
Arrived(m) == \E k \in DOMAIN received : received[k] = m
OneOnTheLine ==
  early = 0 /\ foreign = 0 =>
    /\ \/ toSecondary = <<>> /\ toPrimary = <<>>
       \/ toSecondary = <<>> /\ Len(toPrimary) = 1
       \/ Len(toSecondary) = 1 /\ toPrimary = <<>>
    /\ primaryState \in {"idle", "available"} => toSecondary = <<>> /\ toPrimary = <<>>
    /\ Undisturbed /\ toSecondary # <<>> => toSecondary[1] = UserData(lastSendAsdu, ~nextFcb)
    /\ Undisturbed /\ toPrimary # <<>> => Arrived(lastSendAsdu)
    /\ \A m \in acknowledged \ replaced : Arrived(m)

LinkInv ==
  /\ LinkTypeOK /\ Numbered /\ ReceivedOnce
  /\ CopiesInARow(Coming) /\ CopiesRefused(Coming, received, expectedFcb)
  /\ OneOnTheLine

Rises(got) == \A j, k \in DOMAIN got : j < k => got[j] < got[k]

\* What the lemmas use of the frames of a line.
LEMMA FrameFields ==
  ASSUME NEW q \in Seq(Frame), NEW i \in DOMAIN q
  PROVE  q[i] \in Frame /\ q[i].message \in Nat /\ q[i].fcb \in BOOLEAN
<1>1. q[i] \in Frame
  OBVIOUS
<1> QED
  BY <1>1 DEF Frame

\* A frame that is no user data may come after any others.
LEMMA OtherFrameAdded ==
  ASSUME NEW q \in Seq(Frame), NEW f \in Frame, f.fc # "userData",
         NEW got \in Seq(Nat), NEW expected \in BOOLEAN,
         CopiesInARow(q), CopiesRefused(q, got, expected)
  PROVE  CopiesInARow(Append(q, f)) /\ CopiesRefused(Append(q, f), got, expected)
<1>1. PICK n \in Nat : n = Len(q)
  OBVIOUS
<1>2. /\ DOMAIN q = 1 .. n /\ DOMAIN Append(q, f) = 1 .. n + 1
      /\ \A i \in 1 .. n : Append(q, f)[i] = q[i]
      /\ Append(q, f)[n + 1] = f
  BY <1>1
<1> QED
  BY <1>2 DEF CopiesInARow, CopiesRefused

\* So may a new message.
LEMMA NewMessageAdded ==
  ASSUME NEW q \in Seq(Frame), NEW f \in Frame,
         NEW got \in Seq(Nat), NEW expected \in BOOLEAN,
         \A i \in DOMAIN q : q[i].fc = "userData" => q[i].message < f.message,
         \A r \in DOMAIN got : got[r] < f.message,
         CopiesInARow(q), CopiesRefused(q, got, expected)
  PROVE  CopiesInARow(Append(q, f)) /\ CopiesRefused(Append(q, f), got, expected)
<1> DEFINE c == Append(q, f)
<1>1. PICK n \in Nat : n = Len(q)
  OBVIOUS
<1>2. /\ DOMAIN q = 1 .. n /\ DOMAIN c = 1 .. n + 1
      /\ \A i \in 1 .. n : c[i] = q[i]
      /\ c[n + 1] = f
  BY <1>1
<1> HIDE DEF c
<1>3. f.message \in Nat
  BY DEF Frame
<1>4. \A i \in 1 .. n : q[i].message \in Nat
  BY <1>2, FrameFields
<1>5. \A r \in DOMAIN got : got[r] \in Nat
  OBVIOUS
<1>6. CopiesInARow(c)
  BY <1>2, <1>3, <1>4, SMTT(30) DEF CopiesInARow
<1>7. CopiesRefused(c, got, expected)
  <2>1. SUFFICES ASSUME NEW j \in 1 .. n + 1, NEW r \in DOMAIN got, c[j].fc = "userData"
                 PROVE  /\ got[r] <= c[j].message
                        /\ got[r] = c[j].message =>
                             /\ c[1].fc = "userData" /\ c[1].message = c[j].message
                             /\ c[1].fcb # expected
    BY <1>2 DEF CopiesRefused
  <2>2. CASE j \in 1 .. n
    <3>1. c[1] = q[1]
      BY <1>2, <2>2
    <3> QED
      BY <1>2, <2>1, <2>2, <3>1 DEF CopiesRefused
  <2>3. CASE j = n + 1
    BY <1>2, <1>3, <1>5, <2>3
  <2> QED
    BY <2>2, <2>3
<1> QED
  BY <1>6, <1>7 DEF c

\* And one more copy of the frame that came last.
LEMMA CopyAdded ==
  ASSUME NEW q \in Seq(Frame), NEW f \in Frame,
         NEW got \in Seq(Nat), NEW expected \in BOOLEAN,
         CopiesInARow(Append(q, f)), CopiesRefused(Append(q, f), got, expected)
  PROVE  /\ CopiesInARow(Append(Append(q, f), f))
         /\ CopiesRefused(Append(Append(q, f), f), got, expected)
<1> DEFINE p == Append(q, f)
           c == Append(p, f)
<1>1. PICK n \in Nat : n = Len(q)
  OBVIOUS
<1>2. /\ DOMAIN p = 1 .. n + 1 /\ DOMAIN c = 1 .. n + 2
      /\ \A i \in 1 .. n + 1 : c[i] = p[i]
      /\ c[n + 1] = f /\ c[n + 2] = f /\ p[n + 1] = f
  BY <1>1
<1>3. CopiesInARow(p) /\ CopiesRefused(p, got, expected) /\ f.message \in Nat
  BY DEF Frame
<1> HIDE DEF p, c
<1>4. CopiesInARow(c)
  <2>1. SUFFICES ASSUME NEW i \in 1 .. n + 2, NEW j \in 1 .. n + 2, i < j,
                        c[i].fc = "userData", c[j].fc = "userData"
                 PROVE  /\ c[i].message <= c[j].message
                        /\ c[i].message = c[j].message => c[i + 1] = c[i]
    BY <1>2 DEF CopiesInARow
  <2>2. CASE j \in 1 .. n + 1
    <3>1. i \in 1 .. n + 1 /\ i + 1 \in 1 .. n + 1
      BY <2>1, <2>2
    <3> QED
      BY <1>2, <1>3, <2>1, <2>2, <3>1 DEF CopiesInARow
  <2>3. CASE j = n + 2 /\ i \in 1 .. n
    <3>1. i + 1 \in 1 .. n + 1 /\ i < n + 1 /\ i \in 1 .. n + 1 /\ n + 1 \in 1 .. n + 1
      BY <2>3
    <3>2. c[i] = p[i] /\ c[i + 1] = p[i + 1] /\ c[j] = p[n + 1]
      BY <1>2, <2>3, <3>1
    <3>3. i \in DOMAIN p /\ n + 1 \in DOMAIN p
      BY <1>2, <3>1
    <3>4. /\ p[i].message <= p[n + 1].message
          /\ p[i].message = p[n + 1].message => p[i + 1] = p[i]
      BY <1>3, <2>1, <3>1, <3>2, <3>3 DEF CopiesInARow
    <3> QED
      BY <3>2, <3>4
  <2>4. CASE j = n + 2 /\ i = n + 1
    BY <1>2, <1>3, <2>4
  <2>5. j \in 1 .. n + 1 \/ (j = n + 2 /\ i \in 1 .. n) \/ (j = n + 2 /\ i = n + 1)
    BY <2>1
  <2> QED
    BY <2>2, <2>3, <2>4, <2>5
<1>5. CopiesRefused(c, got, expected)
  BY <1>2, <1>3, SMTT(30) DEF CopiesRefused
<1> QED
  BY <1>4, <1>5 DEF c, p

\* A line that loses its last frame keeps what it promised.
LEMMA LastTaken ==
  ASSUME NEW q \in Seq(Frame), NEW f \in Frame,
         NEW got \in Seq(Nat), NEW expected \in BOOLEAN,
         CopiesInARow(Append(q, f)), CopiesRefused(Append(q, f), got, expected)
  PROVE  CopiesInARow(q) /\ CopiesRefused(q, got, expected)
<1>1. PICK n \in Nat : n = Len(q)
  OBVIOUS
<1>2. /\ DOMAIN q = 1 .. n /\ DOMAIN Append(q, f) = 1 .. n + 1
      /\ \A i \in 1 .. n : Append(q, f)[i] = q[i]
  BY <1>1
<1> DEFINE p == Append(q, f)
<1>3. CopiesInARow(p) /\ CopiesRefused(p, got, expected)
  OBVIOUS
<1> HIDE DEF p
<1>4. DOMAIN q = 1 .. n /\ DOMAIN p = 1 .. n + 1 /\ \A i \in 1 .. n : p[i] = q[i]
  BY <1>2 DEF p
<1>5. CopiesInARow(q)
  <2>1. SUFFICES ASSUME NEW i \in 1 .. n, NEW j \in 1 .. n, i < j,
                        q[i].fc = "userData", q[j].fc = "userData"
                 PROVE  /\ q[i].message <= q[j].message
                        /\ q[i].message = q[j].message => q[i + 1] = q[i]
    BY <1>4 DEF CopiesInARow
  <2>2. i + 1 \in 1 .. n /\ i \in DOMAIN p /\ j \in DOMAIN p
    BY <1>4, <2>1
  <2>3. p[i] = q[i] /\ p[j] = q[j] /\ p[i + 1] = q[i + 1]
    BY <1>4, <2>2
  <2> QED
    BY <1>3, <2>1, <2>2, <2>3 DEF CopiesInARow
<1>6. CopiesRefused(q, got, expected)
  <2>1. SUFFICES ASSUME NEW j \in 1 .. n, NEW r \in DOMAIN got, q[j].fc = "userData"
                 PROVE  /\ got[r] <= q[j].message
                        /\ got[r] = q[j].message =>
                             /\ q[1].fc = "userData" /\ q[1].message = q[j].message
                             /\ q[1].fcb # expected
    BY <1>4 DEF CopiesRefused
  <2>2. 1 \in 1 .. n /\ j \in DOMAIN p
    BY <1>4, <2>1
  <2>3. p[1] = q[1] /\ p[j] = q[j]
    BY <1>4, <2>2
  <2> QED
    BY <1>3, <2>1, <2>2, <2>3 DEF CopiesRefused
<1> QED
  BY <1>5, <1>6

\* The head of a line, taken by the secondary, or lost.
LEMMA HeadTaken ==
  ASSUME NEW q \in Seq(Frame), q # <<>>,
         NEW got \in Seq(Nat), NEW expected \in BOOLEAN,
         CopiesInARow(q), CopiesRefused(q, got, expected), Rises(got),
         NEW after, NEW next,
         \/ after = got /\ next = expected
         \/ q[1].fc # "userData" /\ after = got
         \/ /\ q[1].fc = "userData" /\ q[1].fcb = expected /\ after = Append(got, q[1].message)
            /\ next = ~expected
  PROVE  CopiesInARow(Tail(q)) /\ CopiesRefused(Tail(q), after, next) /\ Rises(after)
<1> DEFINE p == Tail(q)
<1>1. PICK n \in Nat : n + 1 = Len(q)
  <2>1. PICK m \in Nat : m = Len(q)
    OBVIOUS
  <2>2. m # 0
    BY <2>1
  <2>3. m - 1 \in Nat /\ (m - 1) + 1 = m
    BY <2>2
  <2> QED
    BY <2>1, <2>3
<1>2. /\ DOMAIN q = 1 .. n + 1 /\ DOMAIN p = 1 .. n
      /\ \A i \in 1 .. n : p[i] = q[i + 1]
  BY <1>1
<1> HIDE DEF p
<1>3. \A i \in 1 .. n + 1 : q[i].message \in Nat /\ q[i].fcb \in BOOLEAN
  BY <1>2, FrameFields
<1>4. \A r \in DOMAIN got : got[r] \in Nat
  OBVIOUS
<1>5. CopiesInARow(p)
  <2>1. SUFFICES ASSUME NEW i \in 1 .. n, NEW j \in 1 .. n, i < j,
                        p[i].fc = "userData", p[j].fc = "userData"
                 PROVE  /\ p[i].message <= p[j].message
                        /\ p[i].message = p[j].message => p[i + 1] = p[i]
    BY <1>2 DEF CopiesInARow
  <2>2. i + 1 \in 1 .. n /\ i + 1 \in 1 .. n + 1 /\ j + 1 \in 1 .. n + 1 /\ i + 1 < j + 1
    BY <2>1
  <2>3. p[i] = q[i + 1] /\ p[j] = q[j + 1] /\ p[i + 1] = q[(i + 1) + 1]
    BY <1>2, <2>2
  <2> QED
    BY <1>2, <2>1, <2>2, <2>3, ZenonT(40) DEF CopiesInARow
<1>6. ASSUME NEW j \in 1 .. n, p[j].fc = "userData"
      PROVE  /\ p[j] = q[j + 1] /\ j + 1 \in 1 .. n + 1 /\ p[j].message \in Nat
             /\ p[1] = q[2]
             /\ q[1].fc = "userData" =>
                  /\ q[1].message <= p[j].message
                  /\ q[1].message = p[j].message => q[2] = q[1]
             /\ \A r \in DOMAIN got : got[r] <= p[j].message
             /\ \A r \in DOMAIN got : got[r] = p[j].message =>
                  q[1].fc = "userData" /\ q[1].message = p[j].message /\ q[1].fcb # expected
  <2>1. p[j] = q[j + 1] /\ j + 1 \in 1 .. n + 1 /\ 1 < j + 1 /\ p[1] = q[2]
    <3>1. j + 1 \in 1 .. n + 1 /\ 1 < j + 1 /\ 1 \in 1 .. n /\ 1 + 1 = 2
      BY <1>2
    <3> QED
      BY <1>2, <3>1
  <2>2. p[j].message \in Nat
    BY <1>3, <2>1
  <2>3. q[1].fc = "userData" => /\ q[1].message <= p[j].message
                                /\ q[1].message = p[j].message => q[1 + 1] = q[1]
    <3>1. 1 \in DOMAIN q /\ j + 1 \in DOMAIN q /\ 1 < j + 1
      BY <1>2, <2>1
    <3> QED
      BY <1>6, <2>1, <3>1 DEF CopiesInARow
  <2>4. /\ \A r \in DOMAIN got : got[r] <= p[j].message
        /\ \A r \in DOMAIN got : got[r] = p[j].message =>
             q[1].fc = "userData" /\ q[1].message = p[j].message /\ q[1].fcb # expected
    BY <1>2, <1>6, <2>1 DEF CopiesRefused
  <2> QED
    BY <2>1, <2>2, <2>3, <2>4
<1>7. CASE after = got /\ next = expected
  <2>1. CopiesRefused(p, got, expected)
    BY <1>2, <1>6 DEF CopiesRefused
  <2> QED
    BY <1>5, <1>7, <2>1 DEF p
<1>8. CASE q[1].fc # "userData" /\ after = got
  <2>1. CopiesRefused(p, got, next)
    BY <1>2, <1>6, <1>8 DEF CopiesRefused
  <2> QED
    BY <1>5, <1>8, <2>1 DEF p
<1>9. CASE /\ q[1].fc = "userData" /\ q[1].fcb = expected /\ after = Append(got, q[1].message)
           /\ next = ~expected
  <2>1. PICK k \in Nat : k = Len(got)
    OBVIOUS
  <2>2. q[1].message \in Nat /\ 1 \in DOMAIN q
    BY <1>2, <1>3
  <2>3. /\ DOMAIN got = 1 .. k /\ DOMAIN after = 1 .. k + 1
        /\ \A r \in 1 .. k : after[r] = got[r] /\ got[r] \in Nat
        /\ after[k + 1] = q[1].message
    BY <1>9, <2>1, <2>2
  <2>4. \A r \in 1 .. k : got[r] < q[1].message
    <3>1. ASSUME NEW r \in 1 .. k
          PROVE  got[r] <= q[1].message /\ got[r] # q[1].message
      BY <1>9, <2>2, <2>3 DEF CopiesRefused
    <3> QED
      BY <2>2, <2>3, <3>1
  <2>5. Rises(after)
    <3>1. SUFFICES ASSUME NEW i \in 1 .. k + 1, NEW j \in 1 .. k + 1, i < j
                   PROVE  after[i] < after[j]
      BY <2>3 DEF Rises
    <3>2. i \in 1 .. k /\ after[i] = got[i] /\ i \in DOMAIN got
      BY <2>3, <3>1
    <3>3. CASE j \in 1 .. k
      <4>1. after[j] = got[j] /\ j \in DOMAIN got
        BY <2>3, <3>3
      <4> QED
        BY <3>1, <3>2, <4>1 DEF Rises
    <3>4. CASE j = k + 1
      BY <2>3, <2>4, <3>2, <3>4
    <3>5. j \in 1 .. k \/ j = k + 1
      BY <2>1
    <3> QED
      BY <3>3, <3>4, <3>5
  <2>6. CopiesRefused(p, after, next)
    <3>1. SUFFICES ASSUME NEW j \in 1 .. n, NEW r \in 1 .. k + 1, p[j].fc = "userData"
                   PROVE  /\ after[r] <= p[j].message
                          /\ after[r] = p[j].message =>
                               /\ p[1].fc = "userData" /\ p[1].message = p[j].message
                               /\ p[1].fcb # next
      BY <1>2, <2>3 DEF CopiesRefused
    <3>2. after[r] <= q[1].message /\ after[r] \in Nat
      BY <2>2, <2>3, <2>4, SMTT(30)
    <3>3. /\ q[1].message <= p[j].message /\ p[j].message \in Nat /\ p[1] = q[2]
          /\ q[1].message = p[j].message => q[2] = q[1]
      BY <1>6, <1>9, <3>1
    <3>4. after[r] <= p[j].message /\ (after[r] = p[j].message => q[1].message = p[j].message)
      BY <2>2, <3>2, <3>3
    <3>5. expected # next
      BY <1>9
    <3> QED
      BY <1>9, <3>3, <3>4, <3>5
  <2> QED
    BY <1>5, <2>5, <2>6 DEF p
<1> QED
  BY <1>7, <1>8, <1>9

(***************************************************************************)
(* Balanced: what the steps do                                             *)
(***************************************************************************)
LEMMA Typed ==
  ASSUME NEW S, NEW q \in Seq(S)
  PROVE  /\ q # <<>> => Tail(q) \in Seq(S)
         /\ \A x \in S : Append(q, x) \in Seq(S)
  OBVIOUS

\* The functions that build frames build frames.
LEMMA FramesAreFrames ==
  /\ Fixed("requestStatus") \in Frame /\ Fixed("resetLink") \in Frame
  /\ \A b \in BOOLEAN : Test(b) \in Frame
  /\ \A m \in Nat, b \in BOOLEAN : UserData(m, b) \in Frame
  BY DEF Fixed, Test, UserData, Frame

\* No answer makes the primary repeat a message, and one that confirms a message comes
\* while it may repeat it.
LEMMA AnswerHeard ==
  ASSUME LinkTypeOK, PrimaryReceives
  PROVE  /\ toPrimary # <<>> /\ toPrimary' = Tail(toPrimary)
         /\ UNCHANGED <<repeats, nextFcb, lastSendAsdu, nextMessage, replaced, expectedFcb,
                        received, losses, early, foreign>>
         /\ primaryState' \in PrimaryStates /\ primaryState' # "sendConfirm"
         /\ waiting' \in BOOLEAN /\ testing' \in BOOLEAN
         /\ \/ toSecondary' = toSecondary
            \/ toSecondary' = Append(toSecondary, Fixed("resetLink"))
               /\ primaryState' = "resetLink"
         /\ acknowledged' = acknowledged
            \/ (Confirming /\ acknowledged' = acknowledged \cup {lastSendAsdu})
<1> DEFINE State == primaryState' \in PrimaryStates /\ primaryState' # "sendConfirm"
           Flags == waiting' \in BOOLEAN /\ testing' \in BOOLEAN
           Line  == \/ toSecondary' = toSecondary
                    \/ toSecondary' = Append(toSecondary, Fixed("resetLink"))
                       /\ primaryState' = "resetLink"
           Taken == acknowledged' = acknowledged
                    \/ (Confirming /\ acknowledged' = acknowledged \cup {lastSendAsdu})
<1>1. /\ toPrimary # <<>> /\ toPrimary' = Tail(toPrimary)
      /\ UNCHANGED <<repeats, nextFcb, lastSendAsdu, nextMessage, replaced, expectedFcb,
                     received, losses, early, foreign>>
  BY DEF PrimaryReceives, history, secondaryVars, faults
<1>2. BusyAnswer \/ AckAnswer \/ NackAnswer \/ StatusAnswer \/ DataAnswer \/ NotImplementedAnswer
  BY DEF PrimaryReceives
<1>3. primaryState \in PrimaryStates /\ waiting \in BOOLEAN /\ testing \in BOOLEAN
  BY DEF LinkTypeOK, StateTypes
<1>4. ASSUME BusyAnswer  PROVE State /\ Flags /\ Line /\ Taken
  BY <1>3, <1>4 DEF BusyAnswer, PrimaryStates
<1>5. ASSUME AckAnswer  PROVE State /\ Flags /\ Line /\ Taken
  <2>1. State
    BY <1>3, <1>5 DEF AckAnswer, Become, PrimaryStates
  <2>2. Flags
    BY <1>5 DEF AckAnswer
  <2>3. Line /\ Taken
    BY <1>5 DEF AckAnswer, Confirming
  <2> QED
    BY <2>1, <2>2, <2>3
<1>6. ASSUME NackAnswer  PROVE State /\ Flags /\ Line /\ Taken
  BY <1>3, <1>6 DEF NackAnswer, Become, PrimaryStates
<1>7. ASSUME StatusAnswer  PROVE State /\ Flags /\ Line /\ Taken
  BY <1>3, <1>7 DEF StatusAnswer, Become, SendFrame, PrimaryStates
<1>8. ASSUME DataAnswer  PROVE State /\ Flags /\ Line /\ Taken
  BY <1>3, <1>8 DEF DataAnswer, Become, PrimaryStates
<1>9. ASSUME NotImplementedAnswer  PROVE State /\ Flags /\ Line /\ Taken
  BY <1>3, <1>9 DEF NotImplementedAnswer, Become, PrimaryStates
<1> HIDE DEF State, Flags, Line, Taken
<1>10. State /\ Flags /\ Line /\ Taken
  BY <1>2, <1>4, <1>5, <1>6, <1>7, <1>8, <1>9
<1> QED
  BY <1>1, <1>10 DEF State, Flags, Line, Taken

\* What the secondary makes of the head of its line.
LEMMA AfterFrame ==
  ASSUME LinkTypeOK, Numbered, SecondaryReceives, NEW f, f = toSecondary[1]
  PROVE  /\ toSecondary # <<>> /\ toSecondary' = Tail(toSecondary) /\ f \in Frame
         /\ UNCHANGED <<primaryVars, faults>> /\ expectedFcb' \in BOOLEAN
         /\ \/ toPrimary' = toPrimary
            \/ \E fc \in {"status", "ack"} : toPrimary' = Append(toPrimary, Answer(fc))
         /\ \/ f.fc # "userData" /\ received' = received
            \/ /\ f.fc = "userData" /\ f.fcb # expectedFcb
               /\ received' = received /\ expectedFcb' = expectedFcb /\ toPrimary' = toPrimary
            \/ /\ f.fc = "userData" /\ f.fcb = expectedFcb
               /\ received' = Append(received, f.message) /\ expectedFcb' = ~expectedFcb
<1>1. toSecondary # <<>> /\ f \in Frame /\ f = Head(toSecondary) /\ 1 \in DOMAIN toSecondary
  BY DEF SecondaryReceives, LinkTypeOK, LineTypes
<1>2. f.fc = "userData" => f.fcv
  BY <1>1 DEF Numbered, FairLine, FairFrame
<1>3. f.fcv \in BOOLEAN /\ f.fcb \in BOOLEAN /\ expectedFcb \in BOOLEAN
  BY <1>1 DEF Frame, LinkTypeOK, StateTypes
<1> QED
  BY <1>1, <1>2, <1>3 DEF SecondaryReceives

\* Answers are answers.
LEMMA RepliesAreReplies ==
  /\ Answer("status") \in Response /\ Answer("ack") \in Response
  /\ \A a \in ForeignAnswers : a \in Response
  BY DEF Answer, ForeignAnswers, Response

\* The frame a step of the primary sends, when it sends one.
Sends(f) ==
  \/ RequestStatus /\ f = Fixed("requestStatus")
  \/ SendTest /\ f = Test(nextFcb)
  \/ SendUserData /\ f = UserData(nextMessage, nextFcb)
  \/ Repeat /\ f = (IF testing THEN Test(~nextFcb) ELSE UserData(lastSendAsdu, ~nextFcb))

\* Such a step adds one frame to the line and changes nothing the secondary knows.
LEMMA PrimarySends ==
  ASSUME LinkTypeOK, NEW f, Sends(f)
  PROVE  /\ f \in Frame /\ toSecondary' = Append(toSecondary, f)
         /\ UNCHANGED <<toPrimary, received, expectedFcb, foreign, acknowledged>>
<1>1. nextFcb \in BOOLEAN /\ (~nextFcb) \in BOOLEAN /\ nextMessage \in Nat /\ lastSendAsdu \in Nat
  BY DEF LinkTypeOK, StateTypes
<1>2. f \in Frame
  BY <1>1, FramesAreFrames DEF Sends
<1>3. CASE RequestStatus
  BY <1>2, <1>3 DEF Sends, RequestStatus, SendTest, SendUserData, Repeat, SendFrame,
                    secondaryVars, faults
<1>4. CASE SendTest
  BY <1>2, <1>4 DEF Sends, RequestStatus, SendTest, SendUserData, Repeat, SendFrame,
                    secondaryVars, faults
<1>5. CASE SendUserData
  BY <1>2, <1>5 DEF Sends, RequestStatus, SendTest, SendUserData, Repeat, SendFrame,
                    secondaryVars, faults
<1>6. CASE Repeat
  BY <1>2, <1>6 DEF Sends, RequestStatus, SendTest, SendUserData, Repeat, SendFrame,
                    secondaryVars
<1> QED
  BY <1>3, <1>4, <1>5, <1>6 DEF Sends

\* Every step keeps the types.
LEMMA LinkTypesStep ==
  ASSUME LinkTypeOK, Numbered, [LinkNext]_linkVars
  PROVE  LinkTypeOK'
<1> USE DEF LinkTypeOK
<1>1. ASSUME NEW f, Sends(f)  PROVE LinkTypeOK'
  <2>1. LineTypes'
    <3>1. f \in Frame /\ toSecondary' = Append(toSecondary, f) /\ UNCHANGED <<toPrimary, received>>
      BY <1>1, PrimarySends
    <3>2. toSecondary' \in Seq(Frame)
      BY <3>1, Typed DEF LineTypes
    <3> QED
      BY <3>1, <3>2 DEF LineTypes
  <2>2. StateTypes'
    <3>1. CASE RequestStatus
      BY <3>1 DEF RequestStatus, StateTypes, PrimaryStates, secondaryVars, faults
    <3>2. CASE SendTest
      BY <3>2 DEF SendTest, StateTypes, PrimaryStates, secondaryVars, faults
    <3>3. CASE SendUserData
      BY <3>3 DEF SendUserData, StateTypes, PrimaryStates, secondaryVars, faults
    <3>4. CASE Repeat
      BY <3>4 DEF Repeat, TimeoutForAck, StateTypes, PrimaryStates, secondaryVars
    <3> QED
      BY <1>1, <3>1, <3>2, <3>3, <3>4 DEF Sends
  <2> QED
    BY <2>1, <2>2
<1>2. CASE ConnectTimeout
  <2>1. LineTypes'
    BY <1>2 DEF ConnectTimeout, secondaryVars, LineTypes
  <2>2. early' \in Nat
    BY <1>2 DEF ConnectTimeout, TimeoutForAck, StateTypes
  <2>4. waiting' \in BOOLEAN
    BY <1>2 DEF ConnectTimeout, StateTypes
  <2>3. primaryState' = "idle" /\ UNCHANGED <<repeats, testing, nextFcb, lastSendAsdu, nextMessage,
                                              secondaryVars, foreign>>
    BY <1>2 DEF ConnectTimeout
  <2> QED
    BY <2>1, <2>2, <2>3, <2>4 DEF secondaryVars, StateTypes, PrimaryStates
<1>3. CASE GiveUp
  BY <1>3 DEF GiveUp, TimeoutForAck, secondaryVars, LineTypes, StateTypes, PrimaryStates
<1>4. CASE PrimaryReceives
  <2>1. LineTypes'
    <3>1. toPrimary # <<>> /\ toPrimary' = Tail(toPrimary) /\ received' = received
          /\ (toSecondary' = toSecondary
              \/ toSecondary' = Append(toSecondary, Fixed("resetLink")))
      BY <1>4, AnswerHeard
    <3> QED
      BY <3>1, FramesAreFrames, Typed DEF LineTypes
  <2>2. StateTypes'
    BY <1>4, AnswerHeard DEF StateTypes
  <2> QED
    BY <2>1, <2>2
<1>5. CASE SecondaryReceives
  <2>1. PICK f : f = toSecondary[1]
    OBVIOUS
  <2>2. /\ f \in Frame /\ toSecondary # <<>> /\ toSecondary' = Tail(toSecondary)
        /\ UNCHANGED <<primaryVars, faults>> /\ expectedFcb' \in BOOLEAN
        /\ toPrimary' = toPrimary
           \/ \E fc \in {"status", "ack"} : toPrimary' = Append(toPrimary, Answer(fc))
        /\ received' = received \/ received' = Append(received, f.message)
    BY <1>5, <2>1, AfterFrame
  <2>3. f.message \in Nat
    BY <2>2 DEF Frame
  <2>4. toPrimary' \in Seq(Response)
    BY <2>2, RepliesAreReplies, Typed DEF LineTypes
  <2>5. received' \in Seq(Nat) /\ toSecondary' \in Seq(Frame)
    BY <2>2, <2>3, Typed DEF LineTypes
  <2>6. StateTypes'
    BY <2>2 DEF primaryVars, faults, StateTypes
  <2> QED
    BY <2>4, <2>5, <2>6 DEF LineTypes
<1>6. CASE ForeignAnswer
  <2>1. toPrimary' \in Seq(Response)
    BY <1>6, RepliesAreReplies DEF ForeignAnswer, LineTypes
  <2>2. toSecondary' \in Seq(Frame) /\ received' \in Seq(Nat)
    BY <1>6 DEF ForeignAnswer, LineTypes, secondaryVars
  <2>3. StateTypes'
    BY <1>6 DEF ForeignAnswer, primaryVars, secondaryVars, StateTypes
  <2> QED
    BY <2>1, <2>2, <2>3 DEF LineTypes
<1>7. CASE LoseFrame
  <2>1. LineTypes'
    BY <1>7, Typed DEF LoseFrame, secondaryVars, LineTypes
  <2>2. StateTypes'
    BY <1>7 DEF LoseFrame, primaryVars, secondaryVars, StateTypes
  <2> QED
    BY <2>1, <2>2
<1>8. CASE UNCHANGED linkVars
  BY <1>8 DEF linkVars, primaryVars, secondaryVars, faults, LineTypes, StateTypes
<1>9. RunPrimary => ConnectTimeout \/ GiveUp \/ \E f : Sends(f)
  BY DEF RunPrimary, Sends
<1>10. CASE AskForTest
  BY <1>10 DEF AskForTest, secondaryVars, faults, LineTypes, StateTypes
<1> QED
  BY <1>1, <1>2, <1>3, <1>4, <1>5, <1>6, <1>7, <1>8, <1>9, <1>10 DEF LinkNext

\* A line keeps its numbers when a frame with a fair number comes or the head goes.
LEMMA LineStaysFair ==
  ASSUME NEW q \in Seq(Frame), NEW next \in Nat, FairLine(q, next)
  PROVE  /\ FairLine(q, next + 1)
         /\ q # <<>> => FairLine(Tail(q), next)
         /\ \A f \in Frame : FairFrame(f, next) => FairLine(Append(q, f), next)
<1>1. PICK n \in Nat : n = Len(q)
  OBVIOUS
<1>2. DOMAIN q = 1 .. n
  BY <1>1
<1>3. FairLine(q, next + 1)
  <2>1. ASSUME NEW j \in DOMAIN q  PROVE FairFrame(q[j], next + 1)
    <3>1. FairFrame(q[j], next) /\ q[j].message \in Nat
      BY FrameFields DEF FairLine
    <3> QED
      BY <3>1 DEF FairFrame
  <2> QED
    BY <2>1 DEF FairLine
<1>4. ASSUME q # <<>>  PROVE FairLine(Tail(q), next)
  <2>1. \A j \in DOMAIN Tail(q) : Tail(q)[j] = q[j + 1] /\ j + 1 \in DOMAIN q
    BY <1>1, <1>2, <1>4
  <2> QED
    BY <2>1 DEF FairLine
<1>5. ASSUME NEW f \in Frame, FairFrame(f, next)  PROVE FairLine(Append(q, f), next)
  <2>1. \A j \in DOMAIN Append(q, f) :
          (j \in DOMAIN q /\ Append(q, f)[j] = q[j]) \/ Append(q, f)[j] = f
    BY <1>1, <1>2
  <2> QED
    BY <1>5, <2>1 DEF FairLine
<1> QED
  BY <1>3, <1>4, <1>5

\* Every step keeps the numbering of messages: none is received that was not sent.
LEMMA NumberedStep ==
  ASSUME LinkTypeOK, Numbered, [LinkNext]_linkVars
  PROVE  Numbered'
<1>0. /\ nextMessage \in Nat /\ lastSendAsdu \in Nat /\ nextFcb \in BOOLEAN
      /\ toSecondary \in Seq(Frame) /\ received \in Seq(Nat)
      /\ lastSendAsdu < nextMessage /\ FairLine(toSecondary, nextMessage)
      /\ \A r \in DOMAIN received : received[r] < nextMessage
  BY DEF LinkTypeOK, StateTypes, LineTypes, Numbered
<1>1. ASSUME UNCHANGED <<nextMessage, lastSendAsdu, received>>,
             FairLine(toSecondary', nextMessage)
      PROVE  Numbered'
  BY <1>0, <1>1 DEF Numbered
<1>2. ASSUME UNCHANGED <<nextMessage, lastSendAsdu, received>>,
             toSecondary' = toSecondary \/ (toSecondary # <<>> /\ toSecondary' = Tail(toSecondary))
      PROVE  Numbered'
  <2>1. FairLine(toSecondary', nextMessage)
    BY <1>0, <1>2, LineStaysFair
  <2> QED
    BY <1>1, <1>2, <2>1
<1>3. ASSUME NEW f \in Frame, FairFrame(f, nextMessage), toSecondary' = Append(toSecondary, f),
             UNCHANGED <<nextMessage, lastSendAsdu, received>>
      PROVE  Numbered'
  <2>1. FairLine(toSecondary', nextMessage)
    BY <1>0, <1>3, LineStaysFair
  <2> QED
    BY <1>1, <1>3, <2>1
<1>4. /\ FairFrame(Fixed("requestStatus"), nextMessage)
      /\ FairFrame(Fixed("resetLink"), nextMessage)
      /\ \A b \in BOOLEAN : FairFrame(Test(b), nextMessage)
      /\ \A b \in BOOLEAN : FairFrame(UserData(lastSendAsdu, b), nextMessage)
  BY <1>0 DEF FairFrame, Fixed, Test, UserData
<1>5. CASE RequestStatus
  BY <1>3, <1>4, <1>5, FramesAreFrames DEF RequestStatus, SendFrame, secondaryVars
<1>6. CASE SendTest
  BY <1>0, <1>3, <1>4, <1>6, FramesAreFrames DEF SendTest, SendFrame, secondaryVars
<1>7. CASE SendUserData
  <2> DEFINE f == UserData(nextMessage, nextFcb)
  <2>1. /\ toSecondary' = Append(toSecondary, f) /\ received' = received
        /\ nextMessage' = nextMessage + 1 /\ lastSendAsdu' = nextMessage
    BY <1>7 DEF SendUserData, SendFrame, secondaryVars
  <2>2. f \in Frame
    BY <1>0, FramesAreFrames
  <2>3. FairFrame(f, nextMessage + 1)
    BY <1>0 DEF FairFrame, UserData
  <2> HIDE DEF f
  <2>4. FairLine(toSecondary, nextMessage + 1) /\ nextMessage + 1 \in Nat
    BY <1>0, LineStaysFair
  <2>5. FairLine(Append(toSecondary, f), nextMessage + 1)
    BY <1>0, <2>2, <2>3, <2>4, LineStaysFair
  <2>6. \A r \in DOMAIN received : received[r] < nextMessage + 1
    BY <1>0
  <2> QED
    BY <1>0, <2>1, <2>5, <2>6 DEF Numbered
<1>8. CASE Repeat
  <2> DEFINE f == IF testing THEN Test(~nextFcb) ELSE UserData(lastSendAsdu, ~nextFcb)
  <2>1. f \in Frame /\ FairFrame(f, nextMessage)
    BY <1>0, <1>4, FramesAreFrames
  <2>2. toSecondary' = Append(toSecondary, f) /\ UNCHANGED <<nextMessage, lastSendAsdu, received>>
    BY <1>8 DEF Repeat, SendFrame, secondaryVars
  <2> QED
    BY <1>3, <2>1, <2>2
<1>9. CASE ConnectTimeout
  BY <1>2, <1>9 DEF ConnectTimeout, secondaryVars
<1>10. CASE GiveUp
  BY <1>2, <1>10 DEF GiveUp, secondaryVars
<1>11. CASE PrimaryReceives
  <2>1. /\ UNCHANGED <<nextMessage, lastSendAsdu, received>>
        /\ toSecondary' = toSecondary \/ toSecondary' = Append(toSecondary, Fixed("resetLink"))
    BY <1>11, AnswerHeard
  <2> QED
    BY <1>2, <1>3, <1>4, <2>1, FramesAreFrames
<1>12. CASE SecondaryReceives
  <2>1. PICK f : f = toSecondary[1]
    OBVIOUS
  <2>2. /\ f \in Frame /\ toSecondary # <<>> /\ toSecondary' = Tail(toSecondary)
        /\ UNCHANGED primaryVars
        /\ received' = received \/ (f.fc = "userData" /\ received' = Append(received, f.message))
    BY <1>12, <2>1, AfterFrame
  <2>3. FairLine(toSecondary', nextMessage)
    BY <1>0, <2>2, LineStaysFair
  <2>4. f.message \in Nat /\ (f.fc = "userData" => f.message < nextMessage)
    <3>1. 1 \in DOMAIN toSecondary
      BY <1>0, <2>2
    <3> QED
      BY <1>0, <2>1, <2>2, <3>1 DEF FairLine, FairFrame, Frame
  <2>5. \A r \in DOMAIN received' : received'[r] < nextMessage
    <3>1. PICK n \in Nat : n = Len(received)
      BY <1>0
    <3>2. DOMAIN received = 1 .. n
      BY <1>0, <3>1
    <3>3. CASE received' = received
      BY <1>0, <3>3
    <3>4. CASE f.fc = "userData" /\ received' = Append(received, f.message)
      <4>1. /\ DOMAIN received' = 1 .. n + 1 /\ received'[n + 1] = f.message
            /\ \A r \in 1 .. n : received'[r] = received[r]
        BY <1>0, <2>4, <3>1, <3>4
      <4> QED
        BY <1>0, <2>4, <3>2, <3>4, <4>1
    <3> QED
      BY <2>2, <3>3, <3>4
  <2> QED
    BY <1>0, <2>2, <2>3, <2>5 DEF Numbered, primaryVars
<1>13. CASE ForeignAnswer
  BY <1>2, <1>13 DEF ForeignAnswer, primaryVars, secondaryVars
<1>14. CASE LoseFrame
  BY <1>2, <1>14 DEF LoseFrame, primaryVars, secondaryVars
<1>15. CASE UNCHANGED linkVars
  BY <1>2, <1>15 DEF linkVars, primaryVars, secondaryVars
<1>16. CASE AskForTest
  BY <1>2, <1>16 DEF AskForTest, secondaryVars
<1> QED
  BY <1>5, <1>6, <1>7, <1>8, <1>9, <1>10, <1>11, <1>12, <1>13, <1>14, <1>15, <1>16
     DEF LinkNext, RunPrimary

\* A line whose next frame may be repeated holds what the line holds.
LEMMA ComingIsLine ==
  ASSUME LinkTypeOK
  PROVE  /\ UserData(lastSendAsdu, ~nextFcb) \in Frame /\ Coming \in Seq(Frame)
         /\ toSecondary # <<>> => /\ Coming # <<>> /\ Coming[1] = toSecondary[1]
                                  /\ Tail(Coming) = IF Repeating THEN
                                       Append(Tail(toSecondary), UserData(lastSendAsdu, ~nextFcb))
                                     ELSE Tail(toSecondary)
<1> DEFINE f == UserData(lastSendAsdu, ~nextFcb)
<1>1. toSecondary \in Seq(Frame) /\ f \in Frame
  BY FramesAreFrames DEF LinkTypeOK, LineTypes, StateTypes
<1> HIDE DEF f
<1>2. Coming = IF Repeating THEN Append(toSecondary, f) ELSE toSecondary
  BY DEF Coming, f
<1>3. Coming \in Seq(Frame)
  BY <1>1, <1>2, Typed
<1>4. ASSUME toSecondary # <<>>
      PROVE  /\ Append(toSecondary, f) # <<>> /\ Append(toSecondary, f)[1] = toSecondary[1]
             /\ Tail(Append(toSecondary, f)) = Append(Tail(toSecondary), f)
  BY <1>1, <1>4
<1> QED
  BY <1>1, <1>2, <1>3, <1>4 DEF f

\* Every step keeps the copies of a message together on the line, and a copy of what was
\* received refused.
LEMMA CopiesStep ==
  ASSUME LinkTypeOK, Numbered, ReceivedOnce,
         CopiesInARow(Coming), CopiesRefused(Coming, received, expectedFcb), [LinkNext]_linkVars
  PROVE  /\ ReceivedOnce'
         /\ CopiesInARow(Coming') /\ CopiesRefused(Coming', received', expectedFcb')
<1> DEFINE f == UserData(lastSendAsdu, ~nextFcb)
           Fine(q) == CopiesInARow(q) /\ CopiesRefused(q, received, expectedFcb)
<1>0. /\ toSecondary \in Seq(Frame) /\ received \in Seq(Nat) /\ expectedFcb \in BOOLEAN
      /\ nextFcb \in BOOLEAN /\ nextMessage \in Nat /\ f \in Frame /\ Coming \in Seq(Frame)
      /\ Rises(received)
  BY ComingIsLine DEF LinkTypeOK, StateTypes, LineTypes, ReceivedOnce, Rises
<1>1. Coming = IF Repeating THEN Append(toSecondary, f) ELSE toSecondary
  BY DEF Coming
<1>2. Fine(toSecondary)
  BY <1>0, <1>1, LastTaken
<1> HIDE DEF f
<1>3. ASSUME UNCHANGED <<received, expectedFcb>>, Fine(Coming')
      PROVE  /\ ReceivedOnce'
             /\ CopiesInARow(Coming') /\ CopiesRefused(Coming', received', expectedFcb')
  BY <1>3 DEF ReceivedOnce
<1>4. ASSUME UNCHANGED <<received, expectedFcb>>, Coming' = toSecondary
      PROVE  /\ ReceivedOnce'
             /\ CopiesInARow(Coming') /\ CopiesRefused(Coming', received', expectedFcb')
  BY <1>2, <1>3, <1>4
<1>5. ASSUME UNCHANGED <<received, expectedFcb>>,
             NEW g \in Frame, g.fc # "userData", Coming' = Append(toSecondary, g)
      PROVE  /\ ReceivedOnce'
             /\ CopiesInARow(Coming') /\ CopiesRefused(Coming', received', expectedFcb')
  <2>1. Fine(Coming')
    BY <1>0, <1>2, <1>5, OtherFrameAdded
  <2> QED
    BY <1>3, <1>5, <2>1
<1>6. /\ Fixed("requestStatus").fc # "userData" /\ Fixed("resetLink").fc # "userData"
      /\ \A b \in BOOLEAN : Test(b).fc # "userData"
  BY DEF Fixed, Test
<1>7. CASE RequestStatus
  <2>1. /\ UNCHANGED <<received, expectedFcb>> /\ ~Repeating'
        /\ toSecondary' = Append(toSecondary, Fixed("requestStatus"))
    BY <1>7 DEF RequestStatus, SendFrame, secondaryVars, Repeating
  <2> QED
    BY <1>5, <1>6, <2>1, FramesAreFrames DEF Coming
<1>8. CASE SendTest
  <2>1. /\ UNCHANGED <<received, expectedFcb>> /\ ~Repeating'
        /\ toSecondary' = Append(toSecondary, Test(nextFcb))
    BY <1>8 DEF SendTest, SendFrame, secondaryVars, Repeating
  <2> QED
    BY <1>0, <1>5, <1>6, <2>1, FramesAreFrames DEF Coming
<1>9. CASE SendUserData
  <2> DEFINE g == UserData(nextMessage, nextFcb)
  <2>1. /\ UNCHANGED <<received, expectedFcb>> /\ ~testing' /\ primaryState' = "sendConfirm"
        /\ toSecondary' = Append(toSecondary, g)
        /\ lastSendAsdu' = nextMessage /\ nextFcb' = ~nextFcb
    BY <1>9 DEF SendUserData, SendFrame, secondaryVars
  <2>2. UserData(lastSendAsdu', ~nextFcb') = g
    BY <1>0, <2>1
  <2>3. Coming' = Append(Append(toSecondary, g), g)
    BY <2>1, <2>2 DEF Coming, Repeating
  <2>4. g \in Frame /\ g.message = nextMessage
    BY <1>0, FramesAreFrames DEF UserData
  <2> HIDE DEF g
  <2>5. /\ \A i \in DOMAIN toSecondary : toSecondary[i].fc = "userData" =>
             toSecondary[i].message < g.message
        /\ \A r \in DOMAIN received : received[r] < g.message
    BY <2>4 DEF Numbered, FairLine, FairFrame
  <2>6. Fine(Append(toSecondary, g))
    BY <1>0, <1>2, <2>4, <2>5, NewMessageAdded
  <2>7. Fine(Coming')
    BY <1>0, <2>3, <2>4, <2>6, CopyAdded
  <2> QED
    BY <1>3, <2>1, <2>7
<1>10. CASE Repeat
  <2>1. /\ UNCHANGED <<received, expectedFcb, lastSendAsdu, nextFcb, primaryState, testing>>
        /\ primaryState = "sendConfirm"
        /\ toSecondary' = Append(toSecondary, IF testing THEN Test(~nextFcb) ELSE f)
    BY <1>10 DEF Repeat, SendFrame, secondaryVars, f
  <2>2. CASE testing
    <3>1. Coming' = Append(toSecondary, Test(~nextFcb))
      BY <2>1, <2>2 DEF Coming, Repeating
    <3> QED
      BY <1>0, <1>5, <1>6, <2>1, <3>1, FramesAreFrames
  <2>3. CASE ~testing
    <3>1. Coming = Append(toSecondary, f) /\ Coming' = Append(Append(toSecondary, f), f)
      BY <2>1, <2>3 DEF Coming, Repeating, f
    <3>2. Fine(Coming')
      BY <1>0, <3>1, CopyAdded
    <3> QED
      BY <1>3, <2>1, <3>2
  <2> QED
    BY <2>2, <2>3
<1>11. CASE ConnectTimeout
  <2>1. UNCHANGED <<received, expectedFcb, toSecondary>> /\ ~Repeating'
    BY <1>11 DEF ConnectTimeout, secondaryVars, Repeating
  <2> QED
    BY <1>4, <2>1 DEF Coming
<1>12. CASE GiveUp
  <2>1. UNCHANGED <<received, expectedFcb, toSecondary>> /\ ~Repeating'
    BY <1>12 DEF GiveUp, secondaryVars, Repeating
  <2> QED
    BY <1>4, <2>1 DEF Coming
<1>13. CASE PrimaryReceives
  <2>1. /\ UNCHANGED <<received, expectedFcb>> /\ primaryState' # "sendConfirm"
        /\ toSecondary' = toSecondary \/ toSecondary' = Append(toSecondary, Fixed("resetLink"))
    BY <1>13, AnswerHeard
  <2>2. Coming' = toSecondary'
    BY <2>1 DEF Coming, Repeating
  <2> QED
    BY <1>4, <1>5, <1>6, <2>1, <2>2, FramesAreFrames
<1>14. CASE SecondaryReceives
  <2>1. PICK g : g = toSecondary[1]
    OBVIOUS
  <2>2. /\ g \in Frame /\ toSecondary # <<>> /\ toSecondary' = Tail(toSecondary)
        /\ UNCHANGED primaryVars
        /\ \/ g.fc # "userData" /\ received' = received
           \/ received' = received /\ expectedFcb' = expectedFcb
           \/ /\ g.fc = "userData" /\ g.fcb = expectedFcb
              /\ received' = Append(received, g.message) /\ expectedFcb' = ~expectedFcb
    BY <1>14, <2>1, AfterFrame
  <2>3. Coming # <<>> /\ Coming[1] = g /\ Coming' = Tail(Coming)
    <3>1. Coming' = IF Repeating THEN Append(toSecondary', f) ELSE toSecondary'
      BY <2>2 DEF Coming, Repeating, primaryVars, f
    <3> QED
      BY <2>1, <2>2, <3>1, ComingIsLine DEF f
  <2>4. CopiesInARow(Coming') /\ CopiesRefused(Coming', received', expectedFcb') /\ Rises(received')
    BY <1>0, <2>2, <2>3, HeadTaken
  <2> QED
    BY <2>4 DEF ReceivedOnce, Rises
<1>15. ASSUME UNCHANGED <<primaryVars, secondaryVars>>,
              toSecondary # <<>> /\ toSecondary' = Tail(toSecondary)
       PROVE  /\ ReceivedOnce'
              /\ CopiesInARow(Coming') /\ CopiesRefused(Coming', received', expectedFcb')
  <2>1. Coming # <<>> /\ Coming' = Tail(Coming)
    <3>1. Coming' = IF Repeating THEN Append(toSecondary', f) ELSE toSecondary'
      BY <1>15 DEF Coming, Repeating, primaryVars, f
    <3> QED
      BY <1>15, <3>1, ComingIsLine DEF f
  <2>2. Fine(Tail(Coming))
    BY <1>0, <2>1, HeadTaken
  <2> QED
    BY <1>3, <1>15, <2>1, <2>2 DEF secondaryVars
<1>16. ASSUME UNCHANGED <<primaryVars, secondaryVars, toSecondary>>
       PROVE  /\ ReceivedOnce'
              /\ CopiesInARow(Coming') /\ CopiesRefused(Coming', received', expectedFcb')
  <2>1. Coming' = Coming
    BY <1>16 DEF Coming, Repeating, primaryVars
  <2> QED
    BY <1>3, <1>16, <2>1 DEF secondaryVars
<1>17. CASE ForeignAnswer
  BY <1>15, <1>17 DEF ForeignAnswer
<1>18. CASE LoseFrame
  BY <1>15, <1>16, <1>18 DEF LoseFrame
<1>19. CASE UNCHANGED linkVars
  BY <1>16, <1>19 DEF linkVars
<1>20. CASE AskForTest
  <2>1. UNCHANGED <<received, expectedFcb, toSecondary>> /\ ~Repeating'
    BY <1>20 DEF AskForTest, secondaryVars, Repeating
  <2> QED
    BY <1>4, <2>1 DEF Coming
<1> QED
  BY <1>7, <1>8, <1>9, <1>10, <1>11, <1>12, <1>13, <1>14, <1>17, <1>18, <1>19, <1>20
     DEF LinkNext, RunPrimary

\* One frame on an empty line.
LEMMA SingleFrame ==
  ASSUME NEW S, NEW q \in Seq(S), q = <<>>, NEW f \in S
  PROVE  Len(Append(q, f)) = 1 /\ Append(q, f)[1] = f /\ Append(q, f) # <<>>
  OBVIOUS

\* A line of no length is empty.
LEMMA NoneLeft ==
  ASSUME NEW S, NEW q \in Seq(S), Len(q) = 0
  PROVE  q = <<>>
  OBVIOUS

\* The only frame taken, the line is empty.
LEMMA SingleTaken ==
  ASSUME NEW S, NEW q \in Seq(S), Len(q) = 1
  PROVE  Tail(q) = <<>> /\ q # <<>>
<1>1. q # <<>>
  OBVIOUS
<1>2. Tail(q) \in Seq(S) /\ Len(Tail(q)) = 0
  BY <1>1
<1>3. Tail(q) = <<>>
  BY <1>2, NoneLeft
<1> QED
  BY <1>1, <1>3

\* Every step keeps one frame or answer on the line, if no answer came late.
LEMMA OneOnTheLineStep ==
  ASSUME LinkTypeOK, Numbered, OneOnTheLine, [LinkNext]_linkVars
  PROVE  OneOnTheLine'
<1> SUFFICES ASSUME early' = 0, foreign' = 0
             PROVE  /\ \/ toSecondary' = <<>> /\ toPrimary' = <<>>
                       \/ toSecondary' = <<>> /\ Len(toPrimary') = 1
                       \/ Len(toSecondary') = 1 /\ toPrimary' = <<>>
                    /\ primaryState' \in {"idle", "available"} =>
                         toSecondary' = <<>> /\ toPrimary' = <<>>
                    /\ Undisturbed' /\ toSecondary' # <<>> =>
                         toSecondary'[1] = UserData(lastSendAsdu', ~nextFcb')
                    /\ Undisturbed' /\ toPrimary' # <<>> => Arrived(lastSendAsdu)'
                    /\ \A m \in (acknowledged \ replaced)' : Arrived(m)'
  BY DEF OneOnTheLine
<1> DEFINE Empty == toSecondary = <<>> /\ toPrimary = <<>>
           Sound == \A m \in acknowledged \ replaced : Arrived(m)
           Goal  == /\ \/ toSecondary' = <<>> /\ toPrimary' = <<>>
                       \/ toSecondary' = <<>> /\ Len(toPrimary') = 1
                       \/ Len(toSecondary') = 1 /\ toPrimary' = <<>>
                    /\ primaryState' \in {"idle", "available"} =>
                         toSecondary' = <<>> /\ toPrimary' = <<>>
                    /\ Undisturbed' /\ toSecondary' # <<>> =>
                         toSecondary'[1] = UserData(lastSendAsdu', ~nextFcb')
                    /\ Undisturbed' /\ toPrimary' # <<>> => Arrived(lastSendAsdu)'
                    /\ \A m \in (acknowledged \ replaced)' : Arrived(m)'
<1>0. /\ nextFcb \in BOOLEAN /\ nextMessage \in Nat /\ lastSendAsdu \in Nat
      /\ early \in Nat /\ foreign \in Nat
      /\ toSecondary \in Seq(Frame) /\ toPrimary \in Seq(Response) /\ received \in Seq(Nat)
  BY DEF LinkTypeOK, StateTypes, LineTypes
<1>1. ASSUME early = 0, foreign = 0
      PROVE  /\ \/ Empty
                \/ toSecondary = <<>> /\ Len(toPrimary) = 1
                \/ Len(toSecondary) = 1 /\ toPrimary = <<>>
             /\ primaryState \in {"idle", "available"} => Empty
             /\ Undisturbed /\ toSecondary # <<>> =>
                  toSecondary[1] = UserData(lastSendAsdu, ~nextFcb)
             /\ Undisturbed /\ toPrimary # <<>> => Arrived(lastSendAsdu)
             /\ Sound
  BY <1>1 DEF OneOnTheLine
\* A step of the primary that sends a frame, on an empty line.
<1>2. ASSUME early = 0, foreign = 0, Empty, NEW f \in Frame,
             toSecondary' = Append(toSecondary, f),
             UNCHANGED <<toPrimary, received, acknowledged>>, replaced \subseteq replaced',
             primaryState' \notin {"idle", "available"},
             Undisturbed' => f = UserData(lastSendAsdu', ~nextFcb')
      PROVE  Goal
  <2>1. Len(toSecondary') = 1 /\ toSecondary'[1] = f /\ toPrimary' = <<>>
    BY <1>0, <1>2, SingleFrame
  <2>2. \A m \in (acknowledged \ replaced)' : Arrived(m)'
    BY <1>1, <1>2 DEF Arrived
  <2> QED
    BY <1>2, <2>1, <2>2
<1>3. CASE RequestStatus
  <2>1. /\ early = 0 /\ foreign = 0 /\ Empty /\ primaryState' = "requestStatus" /\ ~Undisturbed'
        /\ toSecondary' = Append(toSecondary, Fixed("requestStatus"))
        /\ UNCHANGED <<toPrimary, received, acknowledged, replaced>>
    BY <1>1, <1>3 DEF RequestStatus, SendFrame, history, secondaryVars, faults, Undisturbed,
                     Confirming
  <2> QED
    BY <1>2, <2>1, FramesAreFrames
<1>4. CASE SendTest
  <2>1. /\ early = 0 /\ foreign = 0 /\ Empty /\ primaryState' = "sendConfirm" /\ ~Undisturbed'
        /\ toSecondary' = Append(toSecondary, Test(nextFcb))
        /\ UNCHANGED <<toPrimary, received, acknowledged, replaced>>
    BY <1>1, <1>4 DEF SendTest, SendFrame, secondaryVars, faults, Undisturbed, Confirming
  <2> QED
    BY <1>0, <1>2, <2>1, FramesAreFrames
<1>5. CASE SendUserData
  <2>1. /\ early = 0 /\ foreign = 0 /\ Empty /\ primaryState' = "sendConfirm"
        /\ toSecondary' = Append(toSecondary, UserData(nextMessage, nextFcb))
        /\ lastSendAsdu' = nextMessage /\ nextFcb' = ~nextFcb
        /\ UNCHANGED <<toPrimary, received, acknowledged, replaced>>
    BY <1>1, <1>5 DEF SendUserData, SendFrame, secondaryVars, faults
  <2>2. UserData(lastSendAsdu', ~nextFcb') = UserData(nextMessage, nextFcb)
    BY <1>0, <2>1
  <2> QED
    BY <1>0, <1>2, <2>1, <2>2, FramesAreFrames
<1>6. CASE Repeat
  <2> DEFINE f == IF testing THEN Test(~nextFcb) ELSE UserData(lastSendAsdu, ~nextFcb)
  <2>1. early = 0 /\ foreign = 0 /\ Empty
    BY <1>0, <1>6 DEF Repeat, TimeoutForAck
  <2>2. /\ primaryState' = "sendConfirm" /\ toSecondary' = Append(toSecondary, f)
        /\ UNCHANGED <<toPrimary, received, acknowledged, lastSendAsdu, nextFcb, testing, service>>
        /\ replaced \subseteq replaced'
        /\ testing /\ service = "userData" => lastSendAsdu \in replaced'
    BY <1>6 DEF Repeat, SendFrame, secondaryVars
  <2>3. f \in Frame /\ (Undisturbed' => f = UserData(lastSendAsdu', ~nextFcb'))
    BY <1>0, <2>2, FramesAreFrames DEF Undisturbed, Confirming
  <2> HIDE DEF f
  <2> QED
    BY <1>2, <2>1, <2>2, <2>3
<1>7. CASE ConnectTimeout
  <2>1. early = 0 /\ foreign = 0 /\ Empty
    BY <1>0, <1>7 DEF ConnectTimeout, TimeoutForAck
  <2>2. /\ UNCHANGED <<toSecondary, toPrimary, received, acknowledged, replaced>>
        /\ primaryState' = "idle"
    BY <1>7 DEF ConnectTimeout, history, secondaryVars
  <2>3. \A m \in (acknowledged \ replaced)' : Arrived(m)'
    BY <1>1, <2>1, <2>2 DEF Arrived
  <2> QED
    BY <2>1, <2>2, <2>3 DEF Undisturbed, Confirming
<1>8. CASE GiveUp
  <2>1. early = 0 /\ foreign = 0 /\ Empty
    BY <1>0, <1>8 DEF GiveUp, TimeoutForAck
  <2>2. /\ UNCHANGED <<toSecondary, toPrimary, received, acknowledged, replaced>>
        /\ primaryState' = "idle"
    BY <1>8 DEF GiveUp, history, secondaryVars
  <2>3. \A m \in (acknowledged \ replaced)' : Arrived(m)'
    BY <1>1, <2>1, <2>2 DEF Arrived
  <2> QED
    BY <2>1, <2>2, <2>3 DEF Undisturbed, Confirming
<1>9. CASE PrimaryReceives
  <2>1. /\ early = 0 /\ foreign = 0 /\ toPrimary # <<>> /\ toPrimary' = Tail(toPrimary)
        /\ UNCHANGED <<received, replaced>> /\ ~Undisturbed'
        /\ \/ toSecondary' = toSecondary
           \/ toSecondary' = Append(toSecondary, Fixed("resetLink"))
              /\ primaryState' = "resetLink"
        /\ \/ acknowledged' = acknowledged
           \/ (Confirming /\ acknowledged' = acknowledged \cup {lastSendAsdu})
    BY <1>9, AnswerHeard DEF Undisturbed, Confirming
  <2>2. toSecondary = <<>> /\ Len(toPrimary) = 1
    BY <1>0, <1>1, <2>1
  <2>3. toPrimary' = <<>>
    BY <1>0, <2>1, <2>2, SingleTaken
  <2>4. \A m \in (acknowledged \ replaced)' : Arrived(m)'
    BY <1>1, <2>1 DEF Arrived, Undisturbed
  <2>5. Len(Append(toSecondary, Fixed("resetLink"))) = 1
    BY <1>0, <2>2, SingleFrame, FramesAreFrames
  <2> QED
    BY <2>1, <2>2, <2>3, <2>4, <2>5
<1>10. CASE SecondaryReceives
  <2>1. PICK g : g = toSecondary[1]
    OBVIOUS
  <2>2. /\ g \in Frame /\ toSecondary # <<>> /\ toSecondary' = Tail(toSecondary)
        /\ UNCHANGED <<primaryVars, early, foreign>>
        /\ \/ toPrimary' = toPrimary
           \/ \E fc \in {"status", "ack"} : toPrimary' = Append(toPrimary, Answer(fc))
        /\ received' = received \/ received' = Append(received, g.message)
        /\ g.fc = "userData" =>
             toPrimary' = toPrimary \/ received' = Append(received, g.message)
    BY <1>10, <2>1, AfterFrame DEF faults
  <2>3. early = 0 /\ foreign = 0 /\ Len(toSecondary) = 1 /\ toPrimary = <<>>
    BY <1>1, <2>2
  <2>4. toSecondary' = <<>>
    BY <1>0, <2>2, <2>3, SingleTaken
  <2>5. toPrimary' = <<>> \/ Len(toPrimary') = 1
    BY <1>0, <2>2, <2>3, SingleFrame, RepliesAreReplies
  <2>6. \A m : Arrived(m) => Arrived(m)'
    <3>1. \A k \in DOMAIN received : k \in DOMAIN received' /\ received'[k] = received[k]
      <4>1. g.message \in Nat
        BY <2>2 DEF Frame
      <4>2. PICK n \in Nat : n = Len(received)
        BY <1>0
      <4>3. CASE received' = Append(received, g.message)
        <5>1. /\ DOMAIN received = 1 .. n /\ DOMAIN received' = 1 .. n + 1
              /\ \A k \in 1 .. n : received'[k] = received[k]
          BY <1>0, <4>1, <4>2, <4>3
        <5> QED
          BY <5>1
      <4> QED
        BY <2>2, <4>3
    <3> QED
      BY <3>1 DEF Arrived
  <2>7. \A m \in (acknowledged \ replaced)' : Arrived(m)'
    BY <1>1, <2>2, <2>3, <2>6 DEF primaryVars, history
  <2>8. ASSUME Undisturbed', toPrimary' # <<>>  PROVE Arrived(lastSendAsdu)'
    <3>1. Undisturbed /\ lastSendAsdu' = lastSendAsdu
      BY <2>2, <2>8 DEF Undisturbed, Confirming, primaryVars, history
    <3>2. g = UserData(lastSendAsdu, ~nextFcb)
      BY <1>1, <2>1, <2>2, <2>3, <3>1
    <3>3. g.fc = "userData" /\ g.message = lastSendAsdu
      BY <3>2 DEF UserData
    <3>4. received' = Append(received, lastSendAsdu)
      BY <2>2, <2>3, <2>8, <3>3
    <3>5. Len(received) + 1 \in DOMAIN received' /\ received'[Len(received) + 1] = lastSendAsdu
      BY <1>0, <3>4
    <3> QED
      BY <3>1, <3>5 DEF Arrived
  <2>9. primaryState' \notin {"idle", "available"}
    BY <1>1, <2>2, <2>3 DEF primaryVars, history
  <2> QED
    BY <2>4, <2>5, <2>7, <2>8, <2>9
<1>11. CASE ForeignAnswer
  <2>1. FALSE
    BY <1>0, <1>11 DEF ForeignAnswer
  <2> QED
    BY <2>1
<1>12. CASE LoseFrame
  <2>1. /\ early = 0 /\ foreign = 0 /\ UNCHANGED <<primaryVars, secondaryVars>>
        /\ \/ toSecondary # <<>> /\ toSecondary' = Tail(toSecondary) /\ UNCHANGED toPrimary
           \/ toPrimary # <<>> /\ toPrimary' = Tail(toPrimary) /\ UNCHANGED toSecondary
    BY <1>12 DEF LoseFrame
  <2>2. toSecondary' = <<>> /\ toPrimary' = <<>>
    BY <1>0, <1>1, <2>1, SingleTaken
  <2>3. \A m \in (acknowledged \ replaced)' : Arrived(m)'
    BY <1>1, <2>1 DEF Arrived, primaryVars, history, secondaryVars
  <2> QED
    BY <2>2, <2>3
<1>13. CASE UNCHANGED linkVars
  BY <1>1, <1>13 DEF linkVars, primaryVars, history, secondaryVars, faults, Undisturbed,
                     Confirming, Arrived
<1>14. CASE AskForTest
  <2>1. UNCHANGED <<primaryState, nextFcb, lastSendAsdu, acknowledged, history, secondaryVars,
                    toSecondary, toPrimary, faults>>
    BY <1>14 DEF AskForTest
  <2> QED
    BY <1>1, <2>1 DEF secondaryVars, history, faults, Undisturbed, Confirming, Arrived
<1> QED
  BY <1>3, <1>4, <1>5, <1>6, <1>7, <1>8, <1>9, <1>10, <1>11, <1>12, <1>13, <1>14
     DEF LinkNext, RunPrimary

\* The link starts in the invariant.
LEMMA LinkInvInit == LinkInit => LinkInv
<1> SUFFICES ASSUME LinkInit  PROVE LinkInv
  OBVIOUS
<1>1. LinkTypeOK
  <2>1. primaryState \in PrimaryStates
    BY DEF LinkInit, PrimaryStates
  <2>2. waiting \in BOOLEAN /\ testing \in BOOLEAN /\ nextFcb \in BOOLEAN /\ expectedFcb \in BOOLEAN
    BY Zenon DEF LinkInit
  <2>3. repeats \in Nat /\ early \in Nat /\ foreign \in Nat /\ nextMessage \in Nat \ {0}
        /\ lastSendAsdu \in Nat
    BY DEF LinkInit
  <2>4. LineTypes
    BY DEF LinkInit, LineTypes
  <2> QED
    BY <2>1, <2>2, <2>3, <2>4, Zenon DEF LinkTypeOK, StateTypes
<1>2. DOMAIN toSecondary = {} /\ DOMAIN received = {}
  BY DEF LinkInit
<1>3. Coming = toSecondary
  BY DEF LinkInit, Coming, Repeating
<1>4. Numbered /\ ReceivedOnce
  BY <1>2 DEF LinkInit, Numbered, FairLine, ReceivedOnce
<1>5. CopiesInARow(Coming) /\ CopiesRefused(Coming, received, expectedFcb)
  BY <1>2, <1>3 DEF CopiesInARow, CopiesRefused
<1>6. OneOnTheLine
  BY DEF LinkInit, OneOnTheLine, Undisturbed, Confirming
<1> QED
  BY <1>1, <1>4, <1>5, <1>6 DEF LinkInv

\* Every step of the link keeps the invariant.
LEMMA LinkInvStep == LinkInv /\ [LinkNext]_linkVars => LinkInv'
<1> SUFFICES ASSUME LinkInv, [LinkNext]_linkVars  PROVE LinkInv'
  OBVIOUS
<1>1. /\ LinkTypeOK /\ Numbered /\ ReceivedOnce /\ OneOnTheLine
      /\ CopiesInARow(Coming) /\ CopiesRefused(Coming, received, expectedFcb)
  BY DEF LinkInv
<1>2. LinkTypeOK' /\ Numbered' /\ OneOnTheLine'
  BY <1>1, LinkTypesStep, NumberedStep, OneOnTheLineStep
<1>3. /\ ReceivedOnce'
      /\ CopiesInARow(Coming') /\ CopiesRefused(Coming', received', expectedFcb')
  BY <1>1, CopiesStep
<1> QED
  BY <1>2, <1>3 DEF LinkInv

\* Whatever is lost, repeated, late or reset, the other station gets no message twice and
\* none out of order; and with answers in time what is confirmed has arrived (LinkDelivers).
THEOREM LinkCorrect == LinkSpec => []LinkDelivers
<1>1. LinkInit => LinkInv
  BY LinkInvInit
<1>2. LinkInv /\ [LinkNext]_linkVars => LinkInv'
  BY LinkInvStep
<1>3. LinkInv => LinkDelivers
  BY DEF LinkInv, LinkDelivers, ConfirmedArrived, OneOnTheLine, Arrived
<1> QED
  BY <1>1, <1>2, <1>3, PTL DEF LinkSpec

(***************************************************************************)
(* Unbalanced: the inductive invariant                                     *)
(***************************************************************************)
\* The connections, and the frames either way.
SlaveConnection ==
  [pll : {"idle", "requestStatus", "resetLink", "available", "sendConfirm", "requestRespond",
          "timeout", "busy"},
   waiting : BOOLEAN, message : Nat, test : BOOLEAN, class1 : BOOLEAN, class2 : BOOLEAN,
   fcb : BOOLEAN, repeats : Nat]
Polls == [to : Addresses,
          fc : {"requestStatus", "resetLink", "test", "userData", "requestData"},
          fcv : BOOLEAN, fcb : BOOLEAN, message : Nat, class : 0..2]
Answers == [from : Addresses,
            fc : {"ack", "single", "nack", "status", "data", "noData", "notImplemented"},
            acd : BOOLEAN, dfc : BOOLEAN, data : Nat, class : 0..2]

FaultTypes(n) ==
  n \in [all : Nat, late : Nat, foreign : Nat] /\ (n.all = 0 => n.late = 0 /\ n.foreign = 0)
PrimaryTypes ==
  /\ connection \in [Addresses -> SlaveConnection]
  /\ currentSlave \in {0} \cup Addresses /\ currentIndex \in 1..Len(Slaves)
  /\ nextCommand \in [Addresses -> Nat \ {0}] /\ confirmedTo \in [Addresses -> SUBSET Nat]
  /\ gathered \in [Addresses -> [1..2 -> Seq(Nat)]]
  /\ FaultTypes(pollFaults)
SecondaryTypes ==
  /\ slaveFcb \in [Addresses -> BOOLEAN]
  /\ nextData \in [Addresses -> [1..2 -> Nat \ {0}]] /\ commanded \in [Addresses -> Seq(Nat)]
PollLine(q) == q \in Seq(Polls) /\ \A i \in 1..Len(q) : q[i].fc = "requestData" => q[i].class # 0
AnswerLine(q) == q \in Seq(Answers) /\ \A i \in 1..Len(q) : q[i].fc = "data" => q[i].class # 0
FrameTypes == PollLine(polls) /\ AnswerLine(answering)
PollTypes == PrimaryTypes /\ SecondaryTypes /\ FrameTypes

\* The messages for a slave, on the line q and in got, at its application, are in the order of
\* the calls, and older than the next one.
IsCommand(f, s) == f.to = s /\ f.fc = "userData"
Commands(q, s, got, next) ==
  /\ Rising(got) /\ \A k \in 1..Len(got) : got[k] < next
  /\ \A i \in 1..Len(q) : IsCommand(q[i], s) =>
       /\ q[i].message < next
       /\ \A k \in 1..Len(got) : got[k] <= q[i].message
       /\ \A j \in 1..Len(q) : i < j /\ IsCommand(q[j], s) => q[i].message <= q[j].message
\* The one that waits at the primary is the newest.
Waits(c, next) ==
  /\ c.message # 0 => c.message = next - 1
  /\ c.pll = "sendConfirm" => c.message # 0
CommandsInOrder ==
  \A s \in Addresses :
    /\ Waits(connection[s], nextCommand[s])
    /\ Commands(polls, s, commanded[s], nextCommand[s])

\* The user data of a class, on the line q and in got, at the master, is in order.
IsData(a, s, class) == a.from = s /\ a.fc = "data" /\ a.class = class
DataRises(q, s, class, got, next) ==
  /\ Rising(got) /\ \A k \in 1..Len(got) : got[k] < next
  /\ \A i \in 1..Len(q) : IsData(q[i], s, class) =>
       /\ q[i].data # 0 /\ q[i].data < next
       /\ \A k \in 1..Len(got) : got[k] < q[i].data
       /\ \A j \in 1..Len(q) : i < j /\ IsData(q[j], s, class) => q[i].data < q[j].data
DataInOrder ==
  \A s \in Addresses, class \in 1..2 :
    DataRises(answering, s, class, gathered[s][class], nextData[s][class])

\* While answers come in time and from slaves of this make, the primary waits for one slave,
\* and one frame at most is on the line, which is for it or from it.  But a slave that was
\* tested is not waited for, and asked for data with a frame count bit that it has had.
InTime == pollFaults.late = 0 /\ pollFaults.foreign = 0
Tested(c) == c.pll = "requestRespond" /\ ~c.waiting
Unheard(f) ==
  /\ f.fc = "requestData" /\ f.fcv /\ f.fcb # slaveFcb[f.to] /\ Tested(connection[f.to])
\* The frame is one that the primary sends in this state.
Asks(f, c) ==
  /\ f.fc \in {"requestStatus", "resetLink"} => ~f.fcv /\ c.pll = f.fc
  /\ f.fc \in {"test", "userData", "requestData"} => f.fcv /\ f.fcb # c.fcb
  /\ f.fc = "test" => c.pll \in {"requestRespond", "sendConfirm"}
  /\ f.fc = "userData" => c.pll = "sendConfirm" /\ f.message = c.message
  /\ f.fc = "requestData" => c.pll = "requestRespond"
\* The answer is one to a frame sent in this state.
Has(got, m) == \E k \in 1..Len(got) : got[k] = m
Fits(a, c, got, fcb) ==
  /\ ~a.dfc /\ a.fc # "nack"
  /\ a.fc = "status" => c.pll = "requestStatus"
  /\ a.fc \in {"data", "noData"} => c.pll = "requestRespond"
  /\ a.fc = "notImplemented" => c.pll \in {"requestRespond", "sendConfirm"} /\ fcb = c.fcb
  /\ a.fc \in {"ack", "single"} =>
       c.pll \in {"resetLink", "sendConfirm", "requestRespond"}
       /\ (c.pll = "sendConfirm" => Has(got, c.message))
WaitedFor(s) == s = currentSlave /\ connection[s].waiting
Asked(f) == WaitedFor(f.to) /\ Asks(f, connection[f.to])
Answered(a) ==
  WaitedFor(a.from) /\ Fits(a, connection[a.from], commanded[a.from], slaveFcb[a.from])

OneWaitedFor ==
  \A s \in Addresses :
    /\ connection[s].waiting => s = currentSlave
    /\ connection[s].pll = "sendConfirm" => connection[s].waiting
    /\ Tested(connection[s]) => slaveFcb[s] = connection[s].fcb
OneOnThePolledLine ==
  /\ \A i \in 1..Len(polls) :
       \/ Unheard(polls[i])
       \/ /\ Asked(polls[i]) /\ answering = <<>>
          /\ \A j \in 1..Len(polls) : j = i \/ Unheard(polls[j])
  /\ Len(answering) <= 1 /\ (answering # <<>> => Answered(answering[1]))
ConfirmedGot == \A s \in Addresses : \A m \in confirmedTo[s] : Has(commanded[s], m)
OneExchange == InTime => OneWaitedFor /\ OneOnThePolledLine /\ ConfirmedGot

\* Without a fault the master has all the user data that is not on the line.
AllGathered ==
  pollFaults.all = 0 =>
    \A s \in Addresses, class \in 1..2 :
      /\ \A k \in DOMAIN gathered[s][class] : gathered[s][class][k] = k
      /\ OnTheLine(s, class) = Len(gathered[s][class]) + 1 .. nextData[s][class] - 1

PollInv == PollTypes /\ CommandsInOrder /\ DataInOrder /\ OneExchange /\ AllGathered


(***************************************************************************)
(* Unbalanced: lines                                                       *)
(***************************************************************************)
\* The slaves are numbered; 0 is none.
LEMMA SlavesAre ==
  /\ Len(Slaves) \in Nat \ {0} /\ \A k \in 1..Len(Slaves) : Slaves[k] \in Addresses
  /\ 0 \notin Addresses /\ Used \subseteq Addresses
BY PollAssumption DEF Addresses

\* A line after a frame was added, and after the first one was taken.
LEMMA Added ==
  ASSUME NEW S, NEW q \in Seq(S), NEW x \in S
  PROVE  /\ Append(q, x) \in Seq(S) /\ Len(Append(q, x)) = Len(q) + 1
         /\ \A i \in 1..Len(q) : Append(q, x)[i] = q[i]
         /\ Append(q, x)[Len(q) + 1] = x
OBVIOUS
LEMMA FirstTaken ==
  ASSUME NEW S, NEW q \in Seq(S), q # <<>>
  PROVE  /\ Tail(q) \in Seq(S) /\ Len(Tail(q)) = Len(q) - 1 /\ Len(q) \in Nat \ {0}
         /\ \A i \in 1..Len(q) - 1 : Tail(q)[i] = q[i + 1]
         /\ Head(q) = q[1] /\ q[1] \in S
OBVIOUS

LEMMA PollFields ==
  ASSUME NEW f \in Polls
  PROVE  /\ f.to \in Addresses /\ f.message \in Nat /\ f.fcv \in BOOLEAN /\ f.fcb \in BOOLEAN
         /\ f.class \in 0..2
         /\ f.fc \in {"requestStatus", "resetLink", "test", "userData", "requestData"}
BY DEF Polls
LEMMA AnswerFields ==
  ASSUME NEW a \in Answers
  PROVE  /\ a.from \in Addresses /\ a.data \in Nat /\ a.acd \in BOOLEAN /\ a.dfc \in BOOLEAN
         /\ a.class \in 0..2
         /\ a.fc \in {"ack", "single", "nack", "status", "data", "noData", "notImplemented"}
BY DEF Answers

\* A greater number is appended.
LEMMA RisesOn ==
  ASSUME NEW q \in Seq(Nat), NEW m \in Nat, Rising(q), \A k \in 1..Len(q) : q[k] < m
  PROVE  /\ Append(q, m) \in Seq(Nat) /\ Len(Append(q, m)) = Len(q) + 1
         /\ Rising(Append(q, m))
         /\ \A k \in 1..Len(q) + 1 : Append(q, m)[k] = q[k] \/ Append(q, m)[k] = m
         /\ \A k \in 1..Len(q) : Append(q, m)[k] = q[k]
         /\ Append(q, m)[Len(q) + 1] = m
<1>1. /\ Append(q, m) \in Seq(Nat) /\ Len(Append(q, m)) = Len(q) + 1
      /\ \A k \in 1..Len(q) : Append(q, m)[k] = q[k]
      /\ Append(q, m)[Len(q) + 1] = m
  OBVIOUS
<1>0. PICK n \in Nat : n = Len(q)
  OBVIOUS
<1>2. PICK r \in Seq(Nat) : r = Append(q, m) /\ n = Len(q)
  BY <1>0, <1>1
<1>3. DOMAIN q = 1..n /\ DOMAIN r = 1..(n + 1)
  BY <1>1, <1>2
<1>4. \A j, k \in 1..(n + 1) : j < k => r[j] < r[k]
  <2> TAKE j, k \in 1..(n + 1)
  <2>1. CASE k = n + 1
    BY <1>1, <1>2, <2>1
  <2>2. CASE k \in 1..n
    BY <1>1, <1>2, <1>3, <2>2 DEF Rising
  <2> QED
    BY <2>1, <2>2
<1>5. Rising(r)
  BY <1>3, <1>4 DEF Rising
<1>6. \A k \in 1..Len(q) + 1 : Append(q, m)[k] = q[k] \/ Append(q, m)[k] = m
  BY <1>1
<1> QED
  BY <1>1, <1>2, <1>5, <1>6

\* A command is added: the newest.  Another frame is added.
LEMMA CommandAdded ==
  ASSUME NEW q \in Seq(Polls), NEW s, NEW got \in Seq(Nat), NEW next \in Nat \ {0},
         NEW f \in Polls, Commands(q, s, got, next),
         IsCommand(f, s) => f.message = next - 1
  PROVE  Commands(Append(q, f), s, got, next)
<1>a. PICK n \in Nat : n = Len(q)
  OBVIOUS
<1>b. PICK r \in Seq(Polls) : r = Append(q, f)
  BY Added
<1>1. /\ r = Append(q, f) /\ n = Len(q) /\ Len(r) = n + 1
      /\ (\A i \in 1..n : r[i] = q[i]) /\ r[n + 1] = f
  BY <1>a, <1>b
<1>2. Rising(got) /\ \A k \in 1..Len(got) : got[k] < next /\ got[k] \in Nat
  BY DEF Commands
<1>c. f.message \in Nat /\ \A i \in 1..n : q[i] \in Polls /\ q[i].message \in Nat
  BY <1>1, PollFields
<1>3. ASSUME NEW i \in 1..(n + 1), IsCommand(r[i], s)
      PROVE  /\ r[i].message < next
             /\ \A k \in 1..Len(got) : got[k] <= r[i].message
             /\ \A j \in 1..(n + 1) : i < j /\ IsCommand(r[j], s) => r[i].message <= r[j].message
  <2>1. CASE i = n + 1
    <3>1. r[i] = f /\ f.message = next - 1 /\ \A j \in 1..(n + 1) : ~(i < j)
      BY <1>1, <1>3, <2>1
    <3>2. f.message < next /\ \A k \in 1..Len(got) : got[k] <= f.message
      BY <1>2, <3>1
    <3> QED
      BY <3>1, <3>2
  <2>2. CASE i \in 1..n
    <3>1. /\ q[i].message < next /\ q[i].message \in Nat /\ r[i] = q[i]
          /\ \A k \in 1..Len(got) : got[k] <= q[i].message
          /\ \A j \in 1..n : i < j /\ IsCommand(q[j], s) => q[i].message <= q[j].message
      BY <1>1, <1>3, <1>c, <2>2 DEF Commands
    <3>2. ASSUME NEW j \in 1..(n + 1), i < j, IsCommand(r[j], s)
          PROVE  r[i].message <= r[j].message
      <4>1. CASE j = n + 1
        BY <1>1, <1>c, <2>2, <3>1, <3>2, <4>1
      <4>2. CASE j \in 1..n
        <5>1. r[j] = q[j]
          BY <1>1, <4>2
        <5> QED
          BY <3>1, <3>2, <4>2, <5>1
      <4> QED
        BY <1>1, <4>1, <4>2
    <3> QED
      BY <3>1, <3>2
  <2>3. i = n + 1 \/ i \in 1..n
    BY <1>3
  <2> QED
    BY <2>1, <2>2, <2>3
<1> QED
  BY <1>1, <1>2, <1>3 DEF Commands

\* A frame leaves the line; a command among those may be handed to the application.
LEMMA CommandTaken ==
  ASSUME NEW q \in Seq(Polls), NEW s, NEW got \in Seq(Nat), NEW next \in Nat \ {0},
         q # <<>>, Commands(q, s, got, next)
  PROVE  /\ Commands(Tail(q), s, got, next)
         /\ IsCommand(Head(q), s) /\ (got = <<>> \/ got[Len(got)] # Head(q).message) =>
              Commands(Tail(q), s, Append(got, Head(q).message), next)
<1>a. PICK n \in Nat \ {0} : n = Len(q)
  BY FirstTaken
<1>b. PICK r \in Seq(Polls) : r = Tail(q)
  BY FirstTaken
<1>1. /\ r = Tail(q) /\ n = Len(q) /\ Len(r) = n - 1 /\ Head(q) = q[1] /\ q[1] \in Polls
      /\ \A i \in 1..(n - 1) : r[i] = q[i + 1]
  BY <1>a, <1>b, FirstTaken
<1>c. \A i \in 1..n : q[i] \in Polls /\ q[i].message \in Nat
  BY <1>1, PollFields
<1>2. Rising(got) /\ \A k \in 1..Len(got) : got[k] < next /\ got[k] \in Nat
  BY DEF Commands
<1>3. ASSUME NEW i \in 1..(n - 1), IsCommand(r[i], s)
      PROVE  /\ r[i].message < next /\ r[i].message \in Nat
             /\ \A k \in 1..Len(got) : got[k] <= r[i].message
             /\ \A j \in 1..(n - 1) : i < j /\ IsCommand(r[j], s) => r[i].message <= r[j].message
             /\ IsCommand(q[1], s) => q[1].message <= r[i].message
  <2>1. i + 1 \in 1..n /\ r[i] = q[i + 1] /\ 1 \in 1..n /\ 1 < i + 1
    BY <1>1
  <2>2. /\ q[i + 1].message < next
        /\ \A k \in 1..Len(got) : got[k] <= q[i + 1].message
        /\ \A j \in 1..n : i + 1 < j /\ IsCommand(q[j], s) => q[i + 1].message <= q[j].message
    BY <1>1, <1>3, <2>1 DEF Commands
  <2>3. IsCommand(q[1], s) => q[1].message <= q[i + 1].message
    BY <1>1, <1>3, <2>1 DEF Commands
  <2>4. ASSUME NEW j \in 1..(n - 1), i < j, IsCommand(r[j], s)
        PROVE  r[i].message <= r[j].message
    <3>1. j + 1 \in 1..n /\ r[j] = q[j + 1] /\ i + 1 < j + 1
      BY <1>1, <2>4
    <3> QED
      BY <2>1, <2>2, <2>4, <3>1
  <2>5. r[i].message \in Nat
    BY <1>c, <2>1
  <2> QED
    BY <2>1, <2>2, <2>3, <2>4, <2>5
<1>4. Commands(r, s, got, next)
  BY <1>1, <1>2, <1>3 DEF Commands
<1>5. ASSUME IsCommand(q[1], s), got = <<>> \/ got[Len(got)] # q[1].message
      PROVE  Commands(r, s, Append(got, q[1].message), next)
  <2>1. PICK m \in Nat : m = q[1].message
    BY <1>1, <1>c
  <2>2. m < next /\ \A k \in 1..Len(got) : got[k] <= m
    BY <1>1, <1>5, <2>1 DEF Commands
  <2>3. \A k \in 1..Len(got) : got[k] < m
    <3> TAKE k \in 1..Len(got)
    <3>1. PICK l \in Nat \ {0} : l = Len(got) /\ got # <<>> /\ got[l] # m /\ DOMAIN got = 1..l
      BY <1>5, <2>1
    <3>2. got[l] < m /\ got[l] \in Nat /\ got[k] \in Nat
      BY <1>2, <2>2, <3>1
    <3>3. CASE k = l
      BY <3>2, <3>3
    <3>4. CASE k < l
      <4>1. got[k] < got[l]
        BY <1>2, <3>1, <3>4 DEF Rising
      <4> QED
        BY <3>2, <4>1
    <3> QED
      BY <3>1, <3>3, <3>4
  <2>a. PICK g \in Seq(Nat) : g = Append(got, m)
    BY Added
  <2>4. /\ g = Append(got, m) /\ Rising(g) /\ Len(g) = Len(got) + 1
        /\ \A k \in 1..Len(g) : (k \in 1..Len(got) /\ g[k] = got[k]) \/ g[k] = m
    <3>1. /\ Rising(g) /\ Len(g) = Len(got) + 1 /\ g[Len(got) + 1] = m
          /\ \A k \in 1..Len(got) : g[k] = got[k]
      BY <1>2, <2>3, <2>a, RisesOn
    <3> QED
      BY <2>a, <3>1
  <2>5. \A k \in 1..Len(g) : g[k] < next
    BY <1>2, <2>2, <2>4
  <2>6. ASSUME NEW i \in 1..(n - 1), IsCommand(r[i], s)
        PROVE  /\ r[i].message < next
               /\ \A k \in 1..Len(g) : g[k] <= r[i].message
               /\ \A j \in 1..(n - 1) : i < j /\ IsCommand(r[j], s) => r[i].message <= r[j].message
    BY <1>3, <1>5, <2>1, <2>4, <2>6
  <2>7. Commands(r, s, g, next)
    BY <1>1, <2>4, <2>5, <2>6 DEF Commands
  <2> QED
    BY <2>1, <2>4, <2>7
<1> QED
  BY <1>1, <1>4, <1>5

\* The next call.
LEMMA CommandsGrow ==
  ASSUME NEW q \in Seq(Polls), NEW s, NEW got \in Seq(Nat), NEW next \in Nat,
         Commands(q, s, got, next)
  PROVE  Commands(q, s, got, next + 1)
<1>1. Rising(got) /\ \A k \in 1..Len(got) : got[k] < next + 1
  BY DEF Commands
<1>2. \A i \in 1..Len(q) : IsCommand(q[i], s) => q[i].message < next + 1
  <2>1. \A i \in 1..Len(q) : q[i].message \in Nat
    BY PollFields
  <2> QED
    BY <2>1 DEF Commands
<1> QED
  BY <1>1, <1>2 DEF Commands

\* User data is given to the line, the next of its class.  Another answer is.
LEMMA DataGiven ==
  ASSUME NEW q \in Seq(Answers), NEW s, NEW class, NEW got \in Seq(Nat), NEW next \in Nat \ {0},
         NEW f \in Answers, DataRises(q, s, class, got, next)
  PROVE  /\ ~IsData(f, s, class) => DataRises(Append(q, f), s, class, got, next)
         /\ f.data = next => DataRises(Append(q, f), s, class, got, next + 1)
<1>a. PICK n \in Nat : n = Len(q)
  OBVIOUS
<1>b. PICK r \in Seq(Answers) : r = Append(q, f)
  BY Added
<1>1. /\ r = Append(q, f) /\ n = Len(q) /\ Len(r) = n + 1
      /\ (\A i \in 1..n : r[i] = q[i]) /\ r[n + 1] = f
  BY <1>a, <1>b
<1>2. Rising(got) /\ \A k \in 1..Len(got) : got[k] < next /\ got[k] \in Nat
  BY DEF DataRises
<1>3. f.data \in Nat /\ \A i \in 1..n : q[i] \in Answers /\ q[i].data \in Nat
  BY <1>1, AnswerFields
<1>4. ASSUME NEW i \in 1..n, IsData(q[i], s, class)
      PROVE  /\ q[i].data # 0 /\ q[i].data < next
             /\ \A k \in 1..Len(got) : got[k] < q[i].data
             /\ \A j \in 1..n : i < j /\ IsData(q[j], s, class) => q[i].data < q[j].data
  BY <1>1, <1>4 DEF DataRises
<1>5. ASSUME ~IsData(f, s, class)
      PROVE  DataRises(r, s, class, got, next)
  <2>1. ASSUME NEW i \in 1..(n + 1), IsData(r[i], s, class)
        PROVE  /\ r[i].data # 0 /\ r[i].data < next
               /\ \A k \in 1..Len(got) : got[k] < r[i].data
               /\ \A j \in 1..(n + 1) : i < j /\ IsData(r[j], s, class) => r[i].data < r[j].data
    <3>1. i \in 1..n /\ r[i] = q[i]
      BY <1>1, <1>5, <2>1
    <3>2. \A j \in 1..(n + 1) : IsData(r[j], s, class) => j \in 1..n /\ r[j] = q[j]
      BY <1>1, <1>5
    <3> QED
      BY <1>4, <2>1, <3>1, <3>2
  <2> QED
    BY <1>1, <1>2, <2>1 DEF DataRises
<1>6. ASSUME f.data = next
      PROVE  DataRises(r, s, class, got, next + 1)
  <2>1. ASSUME NEW i \in 1..(n + 1), IsData(r[i], s, class)
        PROVE  /\ r[i].data # 0 /\ r[i].data < next + 1
               /\ \A k \in 1..Len(got) : got[k] < r[i].data
               /\ \A j \in 1..(n + 1) : i < j /\ IsData(r[j], s, class) => r[i].data < r[j].data
    <3>1. CASE i = n + 1
      BY <1>1, <1>2, <1>6, <3>1
    <3>2. CASE i \in 1..n
      <4>1. /\ r[i] = q[i] /\ q[i].data \in Nat /\ q[i].data # 0 /\ q[i].data < next
            /\ \A k \in 1..Len(got) : got[k] < q[i].data
            /\ \A j \in 1..n : i < j /\ IsData(q[j], s, class) => q[i].data < q[j].data
        BY <1>1, <1>3, <1>4, <2>1, <3>2
      <4>2. ASSUME NEW j \in 1..(n + 1), i < j, IsData(r[j], s, class)
            PROVE  r[i].data < r[j].data
        <5>1. CASE j = n + 1
          BY <1>1, <1>6, <4>1, <5>1
        <5>2. CASE j \in 1..n
          BY <1>1, <4>1, <4>2, <5>2
        <5> QED
          BY <5>1, <5>2
      <4> QED
        BY <4>1, <4>2
    <3> QED
      BY <3>1, <3>2
  <2>2. \A k \in 1..Len(got) : got[k] < next + 1
    BY <1>2
  <2> QED
    BY <1>1, <1>2, <2>1, <2>2 DEF DataRises
<1> QED
  BY <1>1, <1>5, <1>6

\* An answer leaves the line; the master may take its user data.
LEMMA DataTaken ==
  ASSUME NEW q \in Seq(Answers), NEW s, NEW class, NEW got \in Seq(Nat), NEW next \in Nat \ {0},
         q # <<>>, DataRises(q, s, class, got, next)
  PROVE  /\ DataRises(Tail(q), s, class, got, next)
         /\ IsData(Head(q), s, class) =>
              DataRises(Tail(q), s, class, Append(got, Head(q).data), next)
<1>a. PICK n \in Nat \ {0} : n = Len(q)
  BY FirstTaken
<1>b. PICK r \in Seq(Answers) : r = Tail(q)
  BY FirstTaken
<1>1. /\ r = Tail(q) /\ n = Len(q) /\ Len(r) = n - 1 /\ Head(q) = q[1] /\ q[1] \in Answers
      /\ \A i \in 1..(n - 1) : r[i] = q[i + 1]
  BY <1>a, <1>b, FirstTaken
<1>2. Rising(got) /\ \A k \in 1..Len(got) : got[k] < next /\ got[k] \in Nat
  BY DEF DataRises
<1>c. \A i \in 1..n : q[i] \in Answers /\ q[i].data \in Nat
  BY <1>1, AnswerFields
<1>3. ASSUME NEW i \in 1..(n - 1), IsData(r[i], s, class)
      PROVE  /\ r[i].data # 0 /\ r[i].data < next /\ r[i].data \in Nat
             /\ \A k \in 1..Len(got) : got[k] < r[i].data
             /\ \A j \in 1..(n - 1) : i < j /\ IsData(r[j], s, class) => r[i].data < r[j].data
             /\ IsData(q[1], s, class) => q[1].data < r[i].data
  <2>1. i + 1 \in 1..n /\ r[i] = q[i + 1] /\ 1 \in 1..n /\ 1 < i + 1
    BY <1>1
  <2>2. /\ q[i + 1].data # 0 /\ q[i + 1].data < next
        /\ \A k \in 1..Len(got) : got[k] < q[i + 1].data
        /\ \A j \in 1..n : i + 1 < j /\ IsData(q[j], s, class) => q[i + 1].data < q[j].data
    BY <1>1, <1>3, <2>1 DEF DataRises
  <2>3. IsData(q[1], s, class) => q[1].data < q[i + 1].data
    BY <1>1, <1>3, <2>1 DEF DataRises
  <2>4. ASSUME NEW j \in 1..(n - 1), i < j, IsData(r[j], s, class)
        PROVE  r[i].data < r[j].data
    <3>1. j + 1 \in 1..n /\ r[j] = q[j + 1] /\ i + 1 < j + 1
      BY <1>1, <2>4
    <3> QED
      BY <2>1, <2>2, <2>4, <3>1
  <2>5. r[i].data \in Nat
    BY <1>c, <2>1
  <2> QED
    BY <2>1, <2>2, <2>3, <2>4, <2>5
<1>4. DataRises(r, s, class, got, next)
  BY <1>1, <1>2, <1>3 DEF DataRises
<1>5. ASSUME IsData(q[1], s, class)
      PROVE  DataRises(r, s, class, Append(got, q[1].data), next)
  <2>1. PICK m \in Nat : m = q[1].data
    BY <1>1, <1>c
  <2>2. m < next /\ \A k \in 1..Len(got) : got[k] < m
    <3>1. 1 \in 1..Len(q)
      BY <1>1
    <3> QED
      BY <1>5, <2>1, <3>1, ZenonT(40) DEF DataRises
  <2>a. PICK g \in Seq(Nat) : g = Append(got, m)
    BY Added
  <2>4. /\ g = Append(got, m) /\ Rising(g) /\ Len(g) = Len(got) + 1
        /\ \A k \in 1..Len(g) : (k \in 1..Len(got) /\ g[k] = got[k]) \/ g[k] = m
    <3>1. /\ Rising(g) /\ Len(g) = Len(got) + 1 /\ g[Len(got) + 1] = m
          /\ \A k \in 1..Len(got) : g[k] = got[k]
      BY <1>2, <2>2, <2>a, RisesOn
    <3> QED
      BY <2>a, <3>1
  <2>5. \A k \in 1..Len(g) : g[k] < next
    BY <1>2, <2>2, <2>4
  <2>6. ASSUME NEW i \in 1..(n - 1), IsData(r[i], s, class)
        PROVE  /\ r[i].data # 0 /\ r[i].data < next
               /\ \A k \in 1..Len(g) : g[k] < r[i].data
               /\ \A j \in 1..(n - 1) : i < j /\ IsData(r[j], s, class) => r[i].data < r[j].data
    BY <1>3, <1>5, <2>1, <2>4, <2>6
  <2>7. DataRises(r, s, class, g, next)
    BY <1>1, <2>4, <2>5, <2>6 DEF DataRises
  <2> QED
    BY <2>1, <2>4, <2>7
<1> QED
  BY <1>1, <1>4, <1>5


(***************************************************************************)
(* Unbalanced: what the steps do                                           *)
(***************************************************************************)
\* A run of the primary for the slave s takes its connection from c to d: without a frame, or
\* with the frame f.
Silent(c, d) ==
  /\ d.message = c.message /\ (d.waiting => c.waiting)
  /\ d.pll \notin {"requestStatus", "resetLink", "sendConfirm", "requestRespond"}
SendsPoll(s, c, d, f) ==
  /\ f.to = s /\ Asks(f, d) /\ d.message = c.message
  /\ f.fc = "requestData" => f.class # 0
  /\ d.pll = "sendConfirm" => c.pll = "sendConfirm" \/ c.message # 0
  /\ \/ d.waiting
     \/ /\ ~c.waiting /\ d.waiting = c.waiting /\ d.pll = c.pll /\ d.fcb = c.fcb
        /\ c.pll = "sendConfirm" \/ (c.pll = "requestRespond" /\ f.fc = "requestData")
\* In these states the primary goes on when an answer is overdue.
Expects(c) ==
  \/ c.pll \in {"requestStatus", "resetLink"} /\ c.waiting
  \/ c.pll \in {"sendConfirm", "requestRespond"}
RunsFor(s, c, d) ==
  /\ \/ polls' = polls /\ Silent(c, d)
     \/ \E f \in Polls : polls' = Append(polls, f) /\ SendsPoll(s, c, d, f)
  /\ AnsweredInTime \/ (pollFaults' = pollFaults /\ ~Expects(c))

LEMMA RunEffect ==
  ASSUME PollTypes, RunPolling
  PROVE  \E d \in SlaveConnection :
           /\ Scheduled \in Addresses /\ connection' = [connection EXCEPT ![Scheduled] = d]
           /\ RunsFor(Scheduled, connection[Scheduled], d)
<1>1. Scheduled \in Addresses /\ connection \in [Addresses -> SlaveConnection]
  BY SlavesAre DEF Scheduled, PollTypes, PrimaryTypes
<1>2. PICK s \in Addresses, c \in SlaveConnection : s = Scheduled /\ c = connection[Scheduled]
  BY <1>1
<1>3. SUFFICES \E d \in SlaveConnection : /\ connection' = [connection EXCEPT ![Scheduled] = d]
                                   /\ RunsFor(s, c, d)
  BY <1>1, <1>2
<1>4. ASSUME NEW d \in SlaveConnection, Set(d), Silent(c, d),
             AnsweredInTime \/ (pollFaults' = pollFaults /\ ~Expects(c))
      PROVE  \E e \in SlaveConnection : /\ connection' = [connection EXCEPT ![Scheduled] = e]
                                 /\ RunsFor(s, c, e)
  BY <1>4 DEF Set, RunsFor
<1>5. ASSUME NEW d \in SlaveConnection, NEW f \in Polls, PollStep(d, f), SendsPoll(s, c, d, f),
             AnsweredInTime \/ (pollFaults' = pollFaults /\ ~Expects(c))
      PROVE  \E e \in SlaveConnection : /\ connection' = [connection EXCEPT ![Scheduled] = e]
                                 /\ RunsFor(s, c, e)
  BY <1>5 DEF PollStep, RunsFor
<1>7. CASE RunIdleSlave(s, c)
  <2> DEFINE d == [c EXCEPT !.pll = "requestStatus", !.test = FALSE, !.waiting = TRUE]
             f == PollFrame(s, "requestStatus", FALSE, FALSE, 0, 0)
  <2>1. d \in SlaveConnection /\ f \in Polls
    <3>1. d \in SlaveConnection
      BY DEF SlaveConnection
    <3>2. f \in Polls
      BY DEF PollFrame, Polls
    <3> QED
      BY <3>1, <3>2
  <2>2. SendsPoll(s, c, d, f) /\ ~Expects(c)
    BY <1>7 DEF SendsPoll, Asks, PollFrame, RunIdleSlave, Expects, SlaveConnection
  <2> QED
    BY <1>5, <1>7, <2>1, <2>2 DEF RunIdleSlave
<1>8. CASE RunTimedOutSlave(s, c)
  <2>1. ASSUME NEW d \in {c, [c EXCEPT !.pll = "idle"]}
        PROVE  d \in SlaveConnection /\ Silent(c, d) /\ ~Expects(c)
    BY <1>8 DEF RunTimedOutSlave, Silent, Expects, SlaveConnection
  <2> QED
    BY <1>4, <1>8, <2>1 DEF RunTimedOutSlave
<1>9. CASE RunConnectingSlave(s, c)
  <2>1. CASE c.waiting
    <3> DEFINE d == [c EXCEPT !.pll = "timeout", !.waiting = FALSE]
    <3>1. d \in SlaveConnection /\ Silent(c, d)
      BY DEF Silent, SlaveConnection
    <3>2. AnsweredInTime /\ Set(d)
      BY <1>9, <2>1 DEF RunConnectingSlave
    <3> QED
      BY <1>4, <3>1, <3>2
  <2>2. CASE ~c.waiting /\ c.pll = "requestStatus"
    <3> DEFINE d == [c EXCEPT !.pll = "resetLink", !.waiting = TRUE, !.fcb = TRUE]
               f == PollFrame(s, "resetLink", FALSE, FALSE, 0, 0)
    <3>1. d \in SlaveConnection /\ f \in Polls
      <4>1. d \in SlaveConnection
        BY DEF SlaveConnection
      <4>2. f \in Polls
        BY DEF PollFrame, Polls
      <4> QED
        BY <4>1, <4>2
    <3>2. SendsPoll(s, c, d, f) /\ ~Expects(c)
      BY <2>2 DEF SendsPoll, Asks, PollFrame, Expects, SlaveConnection
    <3>3. PollStep(d, f) /\ pollFaults' = pollFaults
      BY <1>9, <2>2 DEF RunConnectingSlave
    <3> QED
      BY <1>5, <3>1, <3>2, <3>3
  <2>3. CASE ~c.waiting /\ c.pll # "requestStatus"
    <3> DEFINE d == [c EXCEPT !.pll = "available"]
    <3>1. d \in SlaveConnection /\ Silent(c, d)
      BY DEF Silent, SlaveConnection
    <3>2. Set(d) /\ pollFaults' = pollFaults /\ ~Expects(c)
      BY <1>9, <2>3 DEF RunConnectingSlave, Expects
    <3> QED
      BY <1>4, <3>1, <3>2
  <2> QED
    BY <2>1, <2>2, <2>3
<1>10. CASE RunAvailableSlave(s, c)
  <2> DEFINE sent == [c EXCEPT !.fcb = ~@, !.repeats = 0, !.waiting = TRUE]
  <2>1. /\ sent \in SlaveConnection /\ sent.fcb # c.fcb /\ sent.waiting /\ sent.message = c.message
        /\ c.fcb \in BOOLEAN /\ c.message \in Nat /\ c.pll = "available"
    BY <1>10 DEF SlaveConnection, RunAvailableSlave
  <2>2. pollFaults' = pollFaults /\ ~Expects(c)
    BY <1>10, <2>1 DEF RunAvailableSlave, Expects
  <2>3. CASE c.test
    <3> DEFINE d == [sent EXCEPT !.pll = "requestRespond"]
               f == PollFrame(s, "test", TRUE, c.fcb, 0, 0)
    <3>1. d \in SlaveConnection /\ f \in Polls
      <4>1. d \in SlaveConnection
        BY <2>1 DEF SlaveConnection
      <4>2. f \in Polls
        BY <2>1 DEF PollFrame, Polls
      <4> QED
        BY <4>1, <4>2
    <3>2. SendsPoll(s, c, d, f)
      BY <2>1 DEF SendsPoll, Asks, PollFrame, SlaveConnection
    <3>3. PollStep(d, f)
      BY <1>10, <2>3 DEF RunAvailableSlave
    <3> QED
      BY <1>5, <2>2, <3>1, <3>2, <3>3
  <2>4. CASE ~c.test /\ c.message # 0
    <3> DEFINE d == [sent EXCEPT !.pll = "sendConfirm"]
               f == PollFrame(s, "userData", TRUE, c.fcb, c.message, 0)
    <3>1. d \in SlaveConnection /\ f \in Polls
      <4>1. d \in SlaveConnection
        BY <2>1 DEF SlaveConnection
      <4>2. f \in Polls
        BY <2>1 DEF PollFrame, Polls
      <4> QED
        BY <4>1, <4>2
    <3>2. SendsPoll(s, c, d, f)
      BY <2>1, <2>4 DEF SendsPoll, Asks, PollFrame, SlaveConnection
    <3>3. PollStep(d, f)
      BY <1>10, <2>4 DEF RunAvailableSlave
    <3> QED
      BY <1>5, <2>2, <3>1, <3>2, <3>3
  <2>5. CASE ~c.test /\ c.message = 0 /\ c.class1
    <3> DEFINE d == [sent EXCEPT !.pll = "requestRespond", !.class1 = FALSE]
               f == PollFrame(s, "requestData", TRUE, c.fcb, 0, 1)
    <3>1. d \in SlaveConnection /\ f \in Polls
      <4>1. d \in SlaveConnection
        BY <2>1 DEF SlaveConnection
      <4>2. f \in Polls
        BY <2>1 DEF PollFrame, Polls
      <4> QED
        BY <4>1, <4>2
    <3>2. SendsPoll(s, c, d, f)
      BY <2>1 DEF SendsPoll, Asks, PollFrame, SlaveConnection
    <3>3. PollStep(d, f)
      BY <1>10, <2>5 DEF RunAvailableSlave
    <3> QED
      BY <1>5, <2>2, <3>1, <3>2, <3>3
  <2>6. CASE ~c.test /\ c.message = 0 /\ ~c.class1 /\ c.class2
    <3> DEFINE d == [sent EXCEPT !.pll = "requestRespond", !.class2 = FALSE]
               f == PollFrame(s, "requestData", TRUE, c.fcb, 0, 2)
    <3>1. d \in SlaveConnection /\ f \in Polls
      <4>1. d \in SlaveConnection
        BY <2>1 DEF SlaveConnection
      <4>2. f \in Polls
        BY <2>1 DEF PollFrame, Polls
      <4> QED
        BY <4>1, <4>2
    <3>2. SendsPoll(s, c, d, f)
      BY <2>1 DEF SendsPoll, Asks, PollFrame, SlaveConnection
    <3>3. PollStep(d, f)
      BY <1>10, <2>6 DEF RunAvailableSlave
    <3> QED
      BY <1>5, <2>2, <3>1, <3>2, <3>3
  <2>7. CASE ~c.test /\ c.message = 0 /\ ~c.class1 /\ ~c.class2
    <3>1. Set(c) /\ Silent(c, c)
      BY <1>10, <2>1, <2>7 DEF RunAvailableSlave, Silent
    <3> QED
      BY <1>4, <2>2, <3>1
  <2> QED
    BY <2>3, <2>4, <2>5, <2>6, <2>7
<1>11. CASE RunWaitingSlave(s, c)
  <2>1. /\ AnsweredInTime /\ c.pll \in {"sendConfirm", "requestRespond"}
        /\ c.fcb \in BOOLEAN /\ c.message \in Nat /\ c.repeats \in Nat
    BY <1>11 DEF RunWaitingSlave, SlaveConnection
  <2>2. CASE c.repeats < MaxPollRepeats
    <3> DEFINE d == [c EXCEPT !.repeats = @ + 1]
    <3>1. /\ d \in SlaveConnection /\ d.fcb = c.fcb /\ d.pll = c.pll
          /\ d.waiting = c.waiting /\ d.message = c.message
      BY <2>1 DEF SlaveConnection
    <3>2. CASE c.pll = "sendConfirm"
      <4> DEFINE f == PollFrame(s, IF c.test THEN "test" ELSE "userData", TRUE, ~c.fcb,
                                IF c.test THEN 0 ELSE c.message, 0)
      <4>1. f \in Polls
        BY <2>1 DEF PollFrame, Polls
      <4>2. SendsPoll(s, c, d, f)
        BY <2>1, <3>1, <3>2 DEF SendsPoll, Asks, PollFrame
      <4>3. PollStep(d, f)
        BY <1>11, <2>2, <3>2 DEF RunWaitingSlave
      <4> QED
        BY <1>5, <2>1, <3>1, <4>1, <4>2, <4>3
    <3>3. CASE c.pll = "requestRespond"
      <4> DEFINE f == PollFrame(s, "requestData", TRUE, ~c.fcb, 0, IF c.class1 THEN 1 ELSE 2)
      <4>1. f \in Polls
        BY <2>1 DEF PollFrame, Polls
      <4>2. SendsPoll(s, c, d, f)
        BY <2>1, <3>1, <3>3 DEF SendsPoll, Asks, PollFrame
      <4>3. PollStep(d, f)
        BY <1>11, <2>2, <3>3 DEF RunWaitingSlave
      <4> QED
        BY <1>5, <2>1, <3>1, <4>1, <4>2, <4>3
    <3> QED
      BY <2>1, <3>2, <3>3
  <2>3. CASE ~(c.repeats < MaxPollRepeats) /\ c.pll = "sendConfirm"
    <3> DEFINE d == [c EXCEPT !.pll = "timeout", !.waiting = FALSE]
    <3>1. d \in SlaveConnection /\ Silent(c, d)
      BY DEF Silent, SlaveConnection
    <3>2. Set(d)
      BY <1>11, <2>3 DEF RunWaitingSlave
    <3> QED
      BY <1>4, <2>1, <3>1, <3>2
  <2>4. CASE ~(c.repeats < MaxPollRepeats) /\ c.pll # "sendConfirm"
    <3> DEFINE d == [c EXCEPT !.pll = "idle", !.class1 = FALSE, !.class2 = FALSE]
    <3>1. d \in SlaveConnection /\ Silent(c, d)
      BY DEF Silent, SlaveConnection
    <3>2. Set(d)
      BY <1>11, <2>4 DEF RunWaitingSlave
    <3> QED
      BY <1>4, <2>1, <3>1, <3>2
  <2> QED
    BY <2>2, <2>3, <2>4
<1>12. CASE RunBusySlave(s, c)
  <2>1. Set(c) /\ Silent(c, c) /\ pollFaults' = pollFaults /\ ~Expects(c)
    BY <1>12 DEF RunBusySlave, Silent, Expects
  <2> QED
    BY <1>4, <2>1
<1> QED
  BY <1>2, <1>7, <1>8, <1>9, <1>10, <1>11, <1>12 DEF RunPolling

\* The answer a takes the connection from c to d.
Hears(a, c, d) ==
  /\ d.fcb = c.fcb /\ (d.message = c.message \/ (d.message = 0 /\ d.pll # "sendConfirm"))
  /\ d.pll = "sendConfirm" => c.pll = "sendConfirm"
  /\ ~a.dfc =>
       /\ a.fc = "status" /\ c.pll = "requestStatus" => d.pll = "resetLink" /\ d.waiting
       /\ a.fc \in {"ack", "single"} /\ c.pll \in {"resetLink", "sendConfirm", "requestRespond"} =>
            d.pll = "available" /\ ~d.waiting
       /\ a.fc \in {"data", "noData"} /\ c.pll = "requestRespond" =>
            d.pll = "available" /\ ~d.waiting
       /\ a.fc = "notImplemented" => d.pll # "sendConfirm" /\ ~d.waiting

LEMMA HearEffect ==
  ASSUME PollTypes, PrimaryHears, NEW a \in Answers, a = answering[1], NEW s \in Addresses,
         s = IF a.fc = "single" THEN currentSlave ELSE a.from
  PROVE  \E d \in SlaveConnection :
           connection' = [connection EXCEPT ![s] = d] /\ Hears(a, connection[s], d)
<1>1. PICK c \in SlaveConnection : c = connection[s]
  BY DEF PollTypes, PrimaryTypes
<1>2. Head(answering) = a /\ s # 0
  BY SlavesAre, FirstTaken DEF PollTypes, FrameTypes, PollLine, AnswerLine, PrimaryHears
<1> DEFINE b == [c EXCEPT !.class1 = @ \/ a.acd]
           d == AfterAnswer(a, c)
<1>3. connection' = [connection EXCEPT ![s] = d]
  BY <1>1, <1>2 DEF PrimaryHears
<1>4. /\ b \in SlaveConnection /\ b.fcb = c.fcb /\ b.message = c.message /\ b.pll = c.pll
      /\ b.waiting = c.waiting
  BY DEF SlaveConnection
<1>5. /\ a.dfc \in BOOLEAN
      /\ a.fc \in {"ack", "single", "nack", "status", "data", "noData", "notImplemented"}
  BY AnswerFields
<1> HIDE DEF b
<1>6. d \in SlaveConnection /\ Hears(a, c, d)
  <2>1. CASE a.dfc
    <3>1. d = AfterBusy(c)
      BY <2>1 DEF AfterAnswer, b
    <3>2. /\ AfterBusy(c) \in SlaveConnection /\ AfterBusy(c).fcb = c.fcb
          /\ AfterBusy(c).message = c.message /\ AfterBusy(c).pll # "sendConfirm"
      BY DEF AfterBusy, SlaveConnection
    <3> QED
      BY <2>1, <3>1, <3>2 DEF Hears
  <2>2. CASE ~a.dfc /\ a.fc \in {"ack", "single"}
    <3>1. d = AfterAck(b)
      BY <2>2 DEF AfterAnswer, b
    <3>2. AfterAck(b) \in SlaveConnection
      BY <1>4 DEF AfterAck, SlaveConnection
    <3>3. /\ AfterAck(b).fcb = c.fcb /\ AfterAck(b).pll # "sendConfirm" /\ ~AfterAck(b).waiting
          /\ AfterAck(b).message = c.message \/ AfterAck(b).message = 0
          /\ c.pll \in {"resetLink", "sendConfirm", "requestRespond"} =>
               AfterAck(b).pll = "available"
      BY <1>4 DEF AfterAck, SlaveConnection
    <3> QED
      BY <2>2, <3>1, <3>2, <3>3 DEF Hears
  <2>3. CASE ~a.dfc /\ a.fc = "nack"
    <3>1. d = AfterNack(b)
      BY <2>3 DEF AfterAnswer, b
    <3>2. /\ AfterNack(b) \in SlaveConnection /\ AfterNack(b).fcb = c.fcb
          /\ AfterNack(b).message = c.message /\ AfterNack(b).pll # "sendConfirm"
      BY <1>4 DEF AfterNack, SlaveConnection
    <3> QED
      BY <2>3, <3>1, <3>2 DEF Hears
  <2>4. CASE ~a.dfc /\ a.fc = "status"
    <3>1. d = AfterStatus(b)
      BY <2>4 DEF AfterAnswer, b
    <3>2. /\ AfterStatus(b) \in SlaveConnection /\ AfterStatus(b).fcb = c.fcb
          /\ AfterStatus(b).message = c.message /\ AfterStatus(b).pll # "sendConfirm"
          /\ c.pll = "requestStatus" => AfterStatus(b).pll = "resetLink" /\ AfterStatus(b).waiting
      BY <1>4 DEF AfterStatus, SlaveConnection
    <3> QED
      BY <2>4, <3>1, <3>2 DEF Hears
  <2>5. CASE ~a.dfc /\ a.fc \in {"data", "noData"}
    <3>1. PICK isData \in BOOLEAN : d = AfterData(b, isData)
      BY <2>5 DEF AfterAnswer, b
    <3>2. /\ AfterData(b, isData) \in SlaveConnection /\ AfterData(b, isData).fcb = c.fcb
          /\ AfterData(b, isData).message = c.message /\ AfterData(b, isData).pll # "sendConfirm"
          /\ ~AfterData(b, isData).waiting
          /\ c.pll = "requestRespond" => AfterData(b, isData).pll = "available"
      BY <1>4 DEF AfterData, SlaveConnection
    <3> QED
      BY <2>5, <3>1, <3>2 DEF Hears
  <2>6. CASE ~a.dfc /\ a.fc = "notImplemented"
    <3>1. d = AfterNotImplemented(b)
      BY <2>6 DEF AfterAnswer, b
    <3>2. /\ AfterNotImplemented(b) \in SlaveConnection /\ AfterNotImplemented(b).fcb = c.fcb
          /\ AfterNotImplemented(b).message = c.message
          /\ AfterNotImplemented(b).pll # "sendConfirm" /\ ~AfterNotImplemented(b).waiting
      BY <1>4 DEF AfterNotImplemented, SlaveConnection
    <3> QED
      BY <2>6, <3>1, <3>2 DEF Hears
  <2> QED
    BY <1>5, <2>1, <2>2, <2>3, <2>4, <2>5, <2>6
<1> HIDE DEF d
<1> QED
  BY <1>1, <1>3, <1>6

\* What a secondary does with the frame f: it answers with a, or does not.
Heeded(f) == f.to \in Present /\ (f.fcv => f.fcb = slaveFcb[f.to])
ReplyTo(f, a) ==
  /\ a.from = f.to /\ ~a.dfc /\ a.fc # "nack"
  /\ a.fc = "status" => f.fc = "requestStatus"
  /\ a.fc \in {"data", "noData"} => f.fc = "requestData"
  /\ a.fc = "notImplemented" => f.fc = "test"
  /\ a.fc = "ack" => f.fc \in {"resetLink", "userData"}
  /\ a.fc = "single" => f.fc \in {"resetLink", "userData", "requestData"}
NewCommand(f) ==
  /\ f.fc = "userData"
  /\ commanded[f.to] = <<>> \/ commanded[f.to][Len(commanded[f.to])] # f.message
LEMMA Responded ==
  ASSUME NEW f \in Polls, NEW n \in Nat, NEW acd \in BOOLEAN,
         f.fc = "requestData" => f.class # 0, f.fc # "requestData" => n = 0
  PROVE  \E a \in Answers :
           /\ a = ResponseTo(f, n, acd) /\ ReplyTo(f, a)
           /\ n = 0 => a.fc # "data"
           /\ n # 0 => a.fc = "data" /\ a.data = n /\ a.class = f.class /\ a.class # 0
<1>1. PICK s \in Addresses : s = f.to
  BY PollFields
<1>2. ASSUME NEW fc \in {"ack", "single", "nack", "status", "data", "noData", "notImplemented"},
             NEW x \in BOOLEAN
      PROVE  /\ Reply(s, fc, x) \in Answers /\ Reply(s, fc, x).from = s
             /\ Reply(s, fc, x).fc = fc /\ ~Reply(s, fc, x).dfc
  BY DEF Reply, Answers
<1>3. ASSUME NEW x \in BOOLEAN
      PROVE  \E fc \in {"ack", "single"} : \E y \in BOOLEAN : Acknowledge(s, x) = Reply(s, fc, y)
  BY DEF Acknowledge
<1>4. CASE f.fc = "test"
  <2>1. ResponseTo(f, n, acd) = Reply(s, "notImplemented", FALSE)
    BY <1>1, <1>4 DEF ResponseTo
  <2> QED
    BY <1>1, <1>2, <1>4, <2>1 DEF ReplyTo
<1>5. CASE f.fc = "requestStatus"
  <2>1. ResponseTo(f, n, acd) = Reply(s, "status", acd)
    BY <1>1, <1>5 DEF ResponseTo
  <2> QED
    BY <1>1, <1>2, <1>5, <2>1 DEF ReplyTo
<1>6. CASE f.fc \in {"resetLink", "userData"}
  <2>1. PICK x \in BOOLEAN : ResponseTo(f, n, acd) = Acknowledge(s, x)
    BY <1>1, <1>6 DEF ResponseTo
  <2>2. PICK fc \in {"ack", "single"}, y \in BOOLEAN : ResponseTo(f, n, acd) = Reply(s, fc, y)
    BY <1>3, <2>1
  <2> QED
    BY <1>1, <1>2, <1>6, <2>2 DEF ReplyTo
<1>7. CASE f.fc = "requestData" /\ n = 0
  <2>1. PICK fc \in {"single", "noData"}, y \in BOOLEAN : ResponseTo(f, n, acd) = Reply(s, fc, y)
    BY <1>1, <1>7 DEF ResponseTo
  <2> QED
    BY <1>1, <1>2, <1>7, <2>1 DEF ReplyTo
<1>8. CASE f.fc = "requestData" /\ n # 0
  <2>1. PICK class \in 1..2 : class = f.class
    BY <1>8, PollFields
  <2>2. ResponseTo(f, n, acd) =
          [from |-> s, fc |-> "data", acd |-> acd, dfc |-> FALSE, data |-> n, class |-> class]
    BY <1>1, <1>8, <2>1 DEF ResponseTo, Reply
  <2>a. [from |-> s, fc |-> "data", acd |-> acd, dfc |-> FALSE, data |-> n, class |-> class]
          \in Answers
    BY <2>1 DEF Answers
  <2>3. PICK a \in Answers :
          /\ a = ResponseTo(f, n, acd)
          /\ a = [from |-> s, fc |-> "data", acd |-> acd, dfc |-> FALSE, data |-> n,
                  class |-> class]
    BY <2>2, <2>a
  <2> QED
    BY <1>1, <1>8, <2>1, <2>3 DEF ReplyTo
<1> QED
  BY <1>4, <1>5, <1>6, <1>7, <1>8, PollFields

LEMMA SecondaryEffect ==
  ASSUME PollTypes, SecondaryHears, NEW f \in Polls, f = polls[1]
  PROVE  /\ polls # <<>> /\ polls' = Tail(polls)
         /\ slaveFcb' = [slaveFcb EXCEPT ![f.to] =
                           IF f.to \in Present /\ f.fc = "resetLink" THEN TRUE
                           ELSE IF Heeded(f) /\ f.fcv THEN ~@ ELSE @]
         /\ commanded' = IF Heeded(f) /\ NewCommand(f)
                           THEN [commanded EXCEPT ![f.to] = Append(@, f.message)] ELSE commanded
         /\ \/ ~Heeded(f) /\ UNCHANGED <<nextData, answering>>
            \/ \E a \in Answers :
                 /\ Heeded(f) /\ ReplyTo(f, a) /\ answering' = Append(answering, a)
                 /\ a.fc # "data" => nextData' = nextData
                 /\ a.fc = "data" =>
                      /\ a.class = f.class /\ a.class # 0 /\ a.data = nextData[f.to][f.class]
                      /\ nextData' = [nextData EXCEPT ![f.to][f.class] = @ + 1]
<1>1. PICK s \in Addresses : s = f.to
  BY PollFields
<1>2. Head(polls) = f /\ polls # <<>> /\ (f.fc = "requestData" => f.class \in 1..2)
  <2>1. polls # <<>> /\ polls \in Seq(Polls)
    BY DEF SecondaryHears, PollTypes, FrameTypes, PollLine, AnswerLine
  <2>2. 1 \in 1..Len(polls) /\ Head(polls) = f
    BY <2>1, FirstTaken
  <2> QED
    BY <2>1, <2>2, PollFields DEF PollTypes, FrameTypes, PollLine, AnswerLine
<1> DEFINE hasData == f.fc = "requestData" /\ HasData(nextData[s], f.class)
           valid == s \in Present /\ (f.fcv => f.fcb = slaveFcb[s])
<1>3. valid <=> Heeded(f)
  BY <1>1 DEF Heeded
<1>4. polls' = Tail(polls)
  BY DEF SecondaryHears
<1>5. slaveFcb' = [slaveFcb EXCEPT ![s] = IF s \in Present /\ f.fc = "resetLink" THEN TRUE
                                         ELSE IF valid /\ f.fcv THEN ~@ ELSE @]
  BY <1>1, <1>2 DEF SecondaryHears
<1>6. commanded' =
        IF valid /\ f.fc = "userData"
           /\ (commanded[s] = <<>> \/ commanded[s][Len(commanded[s])] # f.message)
          THEN [commanded EXCEPT ![s] = Append(@, f.message)] ELSE commanded
  BY <1>1, <1>2 DEF SecondaryHears
<1>7. nextData' = IF valid /\ hasData THEN [nextData EXCEPT ![s][f.class] = @ + 1] ELSE nextData
  BY <1>1, <1>2 DEF SecondaryHears
<1>8. valid \/ answering' = answering
  BY <1>1, <1>2 DEF SecondaryHears
<1>9. PICK n \in Nat : n = IF hasData THEN nextData[s][f.class] ELSE 0
  BY <1>2 DEF PollTypes, SecondaryTypes
<1>10. hasData => n # 0 /\ n = nextData[s][f.class]
  BY <1>2, <1>9 DEF PollTypes, SecondaryTypes
<1>11. ~hasData => n = 0
  BY <1>9
<1>12. PICK acd \in BOOLEAN : acd = HasData(nextData'[s], 1)
  <2>1. nextData[s] \in [1..2 -> Nat \ {0}] /\ MaxData \in Nat
    BY PollAssumption DEF PollTypes, SecondaryTypes
  <2>2. nextData'[s][1] \in Nat
    <3>1. CASE nextData' = nextData
      BY <2>1, <3>1
    <3>2. CASE nextData' = [nextData EXCEPT ![s][f.class] = @ + 1] /\ f.class \in 1..2
      BY <2>1, <3>2 DEF PollTypes, SecondaryTypes
    <3> QED
      BY <1>2, <1>7, <3>1, <3>2
  <2>3. HasData(nextData'[s], 1) \in BOOLEAN
    BY <2>1, <2>2 DEF HasData
  <2> QED
    BY <2>3
<1>13. valid => answering' = Append(answering, ResponseTo(f, n, acd))
  BY <1>1, <1>2, <1>9, <1>12 DEF SecondaryHears
<1>14. f.fc # "requestData" => n = 0
  BY <1>11
<1>15. PICK a \in Answers :
         /\ a = ResponseTo(f, n, acd) /\ ReplyTo(f, a)
         /\ n = 0 => a.fc # "data"
         /\ n # 0 => a.fc = "data" /\ a.data = n /\ a.class = f.class /\ a.class # 0
  BY <1>2, <1>14, Responded
<1> HIDE DEF hasData, valid
<1>16. CASE ~valid
  BY <1>1, <1>2, <1>3, <1>4, <1>5, <1>6, <1>7, <1>8, <1>16 DEF NewCommand
<1>17. CASE valid
  <2>1. Heeded(f) /\ ReplyTo(f, a) /\ answering' = Append(answering, a)
    BY <1>3, <1>13, <1>15, <1>17
  <2>2. a.fc # "data" => nextData' = nextData
    BY <1>7, <1>10, <1>15
  <2>3. a.fc = "data" =>
          /\ a.class = f.class /\ a.class # 0 /\ a.data = nextData[f.to][f.class]
          /\ nextData' = [nextData EXCEPT ![f.to][f.class] = @ + 1]
    BY <1>1, <1>7, <1>10, <1>11, <1>15, <1>17
  <2> QED
    BY <1>1, <1>2, <1>3, <1>4, <1>5, <1>6, <2>1, <2>2, <2>3 DEF NewCommand
<1> QED
  BY <1>16, <1>17

\* The calls of the application.
Calls(c, d) ==
  /\ d.pll = c.pll /\ d.waiting = c.waiting /\ d.fcb = c.fcb
LEMMA CallEffect ==
  ASSUME PollTypes, NEW s \in Addresses, SendConfirmed(s) \/ RequestClass2(s) \/ TestLink(s)
  PROVE  /\ \E d \in SlaveConnection :
              /\ connection' = [connection EXCEPT ![s] = d] /\ Calls(connection[s], d)
              /\ \/ d.message = connection[s].message /\ nextCommand' = nextCommand
                 \/ /\ connection[s].message = 0 /\ d.message = nextCommand[s]
                    /\ nextCommand' = [nextCommand EXCEPT ![s] = @ + 1]
         /\ UNCHANGED <<currentSlave, currentIndex, polls, answering, pollFaults, confirmedTo,
                        gathered, slaveVars>>
<1>1. PICK c \in SlaveConnection, n \in Nat : c = connection[s] /\ n = nextCommand[s]
  BY DEF PollTypes, PrimaryTypes
<1>2. CASE SendConfirmed(s)
  <2> DEFINE d == [c EXCEPT !.message = n]
  <2>1. d \in SlaveConnection /\ Calls(c, d) /\ d.message = n
    BY DEF SlaveConnection, Calls
  <2>2. /\ connection' = [connection EXCEPT ![s] = d] /\ c.message = 0
        /\ nextCommand' = [nextCommand EXCEPT ![s] = @ + 1]
    BY <1>1, <1>2 DEF SendConfirmed, PollTypes, PrimaryTypes
  <2> HIDE DEF d
  <2> QED
    BY <1>1, <1>2, <2>1, <2>2 DEF SendConfirmed
<1>3. CASE RequestClass2(s)
  <2> DEFINE d == [c EXCEPT !.class2 = TRUE]
  <2>1. d \in SlaveConnection /\ Calls(c, d) /\ d.message = c.message
    BY DEF SlaveConnection, Calls
  <2>2. connection' = [connection EXCEPT ![s] = d]
    BY <1>1, <1>3 DEF RequestClass2, PollTypes, PrimaryTypes
  <2> HIDE DEF d
  <2> QED
    BY <1>1, <1>3, <2>1, <2>2 DEF RequestClass2
<1>4. CASE TestLink(s)
  <2> DEFINE d == [c EXCEPT !.test = TRUE]
  <2>1. d \in SlaveConnection /\ Calls(c, d) /\ d.message = c.message
    BY DEF SlaveConnection, Calls
  <2>2. connection' = [connection EXCEPT ![s] = d]
    BY <1>1, <1>4 DEF TestLink, PollTypes, PrimaryTypes
  <2> HIDE DEF d
  <2> QED
    BY <1>1, <1>4, <2>1, <2>2 DEF TestLink
<1> QED
  BY <1>2, <1>3, <1>4

\* What else an answer does: to a status comes a reset, an acknowledgement confirms.
LEMMA HearFrames ==
  ASSUME PollTypes, PrimaryHears, NEW a \in Answers, a = answering[1], NEW s \in Addresses,
         s = IF a.fc = "single" THEN currentSlave ELSE a.from
  PROVE  /\ \/ polls' = polls /\ ~(~a.dfc /\ a.fc = "status" /\ connection[s].pll = "requestStatus")
            \/ \E f \in Polls :
                 /\ polls' = Append(polls, f) /\ f.to = s /\ f.fc = "resetLink" /\ ~f.fcv
                 /\ ~a.dfc /\ a.fc = "status" /\ connection[s].pll = "requestStatus"
         /\ \/ confirmedTo' = confirmedTo
            \/ /\ confirmedTo' = [confirmedTo EXCEPT ![s] = @ \cup {connection[s].message}]
               /\ a.fc \in {"ack", "single"} /\ connection[s].pll = "sendConfirm"
         /\ \/ /\ gathered' = gathered
               /\ a.fc = "data" => connection[s].pll # "requestRespond" \/ a.data = 0 \/ a.dfc
            \/ /\ gathered' = [gathered EXCEPT ![s][a.class] = Append(@, a.data)]
               /\ a.fc = "data" /\ s = a.from
<1>1. Head(answering) = a /\ s # 0
  BY SlavesAre, FirstTaken DEF PollTypes, FrameTypes, AnswerLine, PrimaryHears
<1>2. polls' = IF ~a.dfc /\ a.fc = "status" /\ connection[s].pll = "requestStatus"
                 THEN Append(polls, PollFrame(s, "resetLink", FALSE, FALSE, 0, 0)) ELSE polls
  BY <1>1 DEF PrimaryHears
<1>3. confirmedTo' =
        IF ~a.dfc /\ a.fc \in {"ack", "single"} /\ connection[s].pll = "sendConfirm"
          THEN [confirmedTo EXCEPT ![s] = @ \cup {connection[s].message}] ELSE confirmedTo
  BY <1>1 DEF PrimaryHears
<1>4. gathered' =
        IF ~a.dfc /\ a.fc = "data" /\ a.data # 0 /\ connection[s].pll = "requestRespond"
          THEN [gathered EXCEPT ![s][a.class] = Append(@, a.data)] ELSE gathered
  BY <1>1 DEF PrimaryHears
<1>5. \E f \in Polls : /\ f = PollFrame(s, "resetLink", FALSE, FALSE, 0, 0)
                       /\ f.to = s /\ f.fc = "resetLink" /\ ~f.fcv
  <2>1. PollFrame(s, "resetLink", FALSE, FALSE, 0, 0) \in Polls
    BY DEF PollFrame, Polls
  <2> QED
    BY <2>1 DEF PollFrame
<1> QED
  BY <1>2, <1>3, <1>4, <1>5

LEMMA HearNobody ==
  ASSUME PollTypes, PrimaryHears, NEW a \in Answers, a = answering[1],
         (IF a.fc = "single" THEN currentSlave ELSE a.from) \notin Addresses
  PROVE  UNCHANGED <<connection, polls, confirmedTo, gathered>> /\ currentSlave = 0
<1>1. Head(answering) = a
  BY SlavesAre, FirstTaken DEF PollTypes, FrameTypes, AnswerLine, PrimaryHears
<1>2. a.fc = "single" /\ currentSlave = 0
  BY AnswerFields DEF PollTypes, PrimaryTypes
<1>3. Head(answering).fc = "single" /\ currentSlave = 0
  BY <1>1, <1>2
<1>4. UNCHANGED <<connection, polls, confirmedTo, gathered>>
  BY <1>3 DEF PrimaryHears
<1> QED
  BY <1>2, <1>4

\* An answer of another make.
LEMMA ForeignEffect ==
  ASSUME PollTypes, ForeignReply
  PROVE  \E a \in Answers : a.fc # "data" /\ answering' = Append(answering, a)
<1>1. PICK s : s = Head(polls).to
  OBVIOUS
<1>2. s \in Addresses
  BY <1>1, FirstTaken, PollFields DEF PollTypes, FrameTypes, PollLine, ForeignReply
<1>3. PICK a \in ForeignReplies(s) : answering' = Append(answering, a)
  BY <1>1 DEF ForeignReply
<1>4. ASSUME NEW fc \in {"nack", "notImplemented", "ack"}, NEW b \in BOOLEAN
      PROVE  [from |-> s, fc |-> fc, acd |-> FALSE, dfc |-> b, data |-> 0, class |-> 0] \in Answers
  BY <1>2 DEF Answers
<1>5. \E fc \in {"nack", "notImplemented", "ack"}, b \in BOOLEAN :
        a = [from |-> s, fc |-> fc, acd |-> FALSE, dfc |-> b, data |-> 0, class |-> 0]
  BY <1>3 DEF ForeignReplies, Reply
<1>6. a \in Answers /\ a.fc # "data"
  BY <1>4, <1>5
<1> QED
  BY <1>3, <1>6

LEMMA FaultAdded ==
  ASSUME NEW n \in [all : Nat, late : Nat, foreign : Nat], NEW d
  PROVE  /\ d = [n EXCEPT !.all = @ + 1] =>
              /\ d \in [all : Nat, late : Nat, foreign : Nat] /\ d.all # 0
              /\ d.late = n.late /\ d.foreign = n.foreign
         /\ d = [n EXCEPT !.all = @ + 1, !.late = @ + 1] =>
              /\ d \in [all : Nat, late : Nat, foreign : Nat] /\ d.all # 0
              /\ d.late # 0 /\ d.foreign = n.foreign
         /\ d = [n EXCEPT !.all = @ + 1, !.foreign = @ + 1] =>
              /\ d \in [all : Nat, late : Nat, foreign : Nat] /\ d.all # 0
              /\ d.late = n.late /\ d.foreign # 0
<1>1. n.all + 1 \in Nat \ {0} /\ n.late + 1 \in Nat \ {0} /\ n.foreign + 1 \in Nat \ {0}
  OBVIOUS
<1>2. CASE d = [n EXCEPT !.all = @ + 1]
  <2>1. d.all = n.all + 1 /\ d.late = n.late /\ d.foreign = n.foreign
    BY <1>2
  <2>2. d \in [all : Nat, late : Nat, foreign : Nat]
    BY <1>1, <1>2
  <2> QED
    BY <1>1, <2>1, <2>2
<1>3. CASE d = [n EXCEPT !.all = @ + 1, !.late = @ + 1]
  <2>1. d.all = n.all + 1 /\ d.late = n.late + 1 /\ d.foreign = n.foreign
    BY <1>3
  <2>2. d \in [all : Nat, late : Nat, foreign : Nat]
    BY <1>1, <1>3
  <2> QED
    BY <1>1, <2>1, <2>2
<1>4. CASE d = [n EXCEPT !.all = @ + 1, !.foreign = @ + 1]
  <2>1. d.all = n.all + 1 /\ d.late = n.late /\ d.foreign = n.foreign + 1
    BY <1>4
  <2>2. d \in [all : Nat, late : Nat, foreign : Nat]
    BY <1>1, <1>4
  <2> QED
    BY <1>1, <2>1, <2>2
<1> QED
  BY <1>2, <1>3, <1>4

\* Faults are only counted up.
LEMMA FaultsCount ==
  ASSUME FaultTypes(pollFaults),
         \/ pollFaults' = pollFaults \/ AnsweredInTime
         \/ pollFaults' = [pollFaults EXCEPT !.all = @ + 1]
         \/ pollFaults' = [pollFaults EXCEPT !.all = @ + 1, !.foreign = @ + 1]
  PROVE  /\ FaultTypes(pollFaults)' /\ (InTime' => InTime)
         /\ pollFaults'.all = 0 => pollFaults.all = 0 /\ pollFaults' = pollFaults
         /\ AnsweredInTime /\ InTime' => polls = <<>> /\ answering = <<>>
         /\ pollFaults' = [pollFaults EXCEPT !.all = @ + 1, !.foreign = @ + 1] => ~InTime'
<1>1. PICK n \in [all : Nat, late : Nat, foreign : Nat] : n = pollFaults
  BY DEF FaultTypes
<1>2. PICK m : m = pollFaults'
  OBVIOUS
<1>3. AnsweredInTime =>
        (polls = <<>> /\ answering = <<>>) \/ m = [n EXCEPT !.all = @ + 1, !.late = @ + 1]
  BY <1>1, <1>2 DEF AnsweredInTime
<1>4. \/ m = n
      \/ m \in {[n EXCEPT !.all = @ + 1], [n EXCEPT !.all = @ + 1, !.late = @ + 1],
               [n EXCEPT !.all = @ + 1, !.foreign = @ + 1]}
  BY <1>1, <1>2 DEF AnsweredInTime
<1> QED
  <2>1. CASE m = n
    <3>1. AnsweredInTime /\ m.late = 0 => polls = <<>> /\ answering = <<>>
      BY <1>3, <2>1, FaultAdded
    <3>2. m # [n EXCEPT !.all = @ + 1, !.foreign = @ + 1]
      <4>1. [n EXCEPT !.all = @ + 1, !.foreign = @ + 1].all # n.all
        OBVIOUS
      <4> QED
        BY <2>1, <4>1
    <3> QED
      BY <1>1, <1>2, <2>1, <3>1, <3>2 DEF InTime
  <2>2. CASE m # n
    <3>1. /\ m \in [all : Nat, late : Nat, foreign : Nat] /\ m.all # 0
          /\ m.late = 0 => n.late = 0
          /\ m.foreign = 0 => n.foreign = 0
          /\ m = [n EXCEPT !.all = @ + 1, !.late = @ + 1] => m.late # 0
          /\ m = [n EXCEPT !.all = @ + 1, !.foreign = @ + 1] => m.foreign # 0
      BY <1>4, <2>2, FaultAdded
    <3>2. AnsweredInTime /\ m.late = 0 => polls = <<>> /\ answering = <<>>
      BY <1>3, <3>1
    <3> QED
      BY <1>1, <1>2, <3>1, <3>2 DEF FaultTypes, InTime
  <2> QED
    BY <2>1, <2>2

(***************************************************************************)
(* Unbalanced: the types                                                   *)
(***************************************************************************)
LEMMA PollLines ==
  ASSUME NEW q, PollLine(q)
  PROVE  /\ \A f \in Polls : (f.fc = "requestData" => f.class # 0) => PollLine(Append(q, f))
         /\ q # <<>> => PollLine(Tail(q)) /\ q[1] \in Polls
<1>1. q \in Seq(Polls) /\ \A i \in 1..Len(q) : q[i].fc = "requestData" => q[i].class # 0
  BY DEF PollLine
<1>2. ASSUME NEW f \in Polls, f.fc = "requestData" => f.class # 0
      PROVE  PollLine(Append(q, f))
  <2>1. /\ Append(q, f) \in Seq(Polls) /\ Len(Append(q, f)) = Len(q) + 1
        /\ \A i \in 1..Len(q) : Append(q, f)[i] = q[i]
        /\ Append(q, f)[Len(q) + 1] = f
    BY <1>1, Added
  <2>2. Len(q) \in Nat /\ \A i \in 1..Len(q) + 1 : i \in 1..Len(q) \/ i = Len(q) + 1
    BY <1>1
  <2> QED
    BY <1>1, <1>2, <2>1, <2>2 DEF PollLine
<1>3. ASSUME q # <<>> PROVE PollLine(Tail(q)) /\ q[1] \in Polls
  <2>1. /\ Tail(q) \in Seq(Polls) /\ Len(Tail(q)) = Len(q) - 1 /\ Len(q) \in Nat \ {0}
        /\ (\A i \in 1..Len(q) - 1 : Tail(q)[i] = q[i + 1]) /\ q[1] \in Polls
    BY <1>1, <1>3, FirstTaken
  <2>2. \A i \in 1..Len(q) - 1 : i + 1 \in 1..Len(q)
    BY <2>1
  <2> QED
    BY <1>1, <2>1, <2>2 DEF PollLine
<1> QED
  BY <1>2, <1>3
LEMMA AnswerLines ==
  ASSUME NEW q, AnswerLine(q)
  PROVE  /\ \A a \in Answers : (a.fc = "data" => a.class # 0) => AnswerLine(Append(q, a))
         /\ q # <<>> => /\ AnswerLine(Tail(q)) /\ q[1] \in Answers
                        /\ q[1].fc = "data" => q[1].class \in 1..2
<1>1. q \in Seq(Answers) /\ \A i \in 1..Len(q) : q[i].fc = "data" => q[i].class # 0
  BY DEF AnswerLine
<1>2. ASSUME NEW a \in Answers, a.fc = "data" => a.class # 0
      PROVE  AnswerLine(Append(q, a))
  <2>1. /\ Append(q, a) \in Seq(Answers) /\ Len(Append(q, a)) = Len(q) + 1
        /\ \A i \in 1..Len(q) : Append(q, a)[i] = q[i]
        /\ Append(q, a)[Len(q) + 1] = a
    BY <1>1, Added
  <2>2. Len(q) \in Nat /\ \A i \in 1..Len(q) + 1 : i \in 1..Len(q) \/ i = Len(q) + 1
    BY <1>1
  <2> QED
    BY <1>1, <1>2, <2>1, <2>2 DEF AnswerLine
<1>3. ASSUME q # <<>>
      PROVE  AnswerLine(Tail(q)) /\ q[1] \in Answers /\ (q[1].fc = "data" => q[1].class \in 1..2)
  <2>1. /\ Tail(q) \in Seq(Answers) /\ Len(Tail(q)) = Len(q) - 1 /\ Len(q) \in Nat \ {0}
        /\ (\A i \in 1..Len(q) - 1 : Tail(q)[i] = q[i + 1]) /\ q[1] \in Answers
    BY <1>1, <1>3, FirstTaken
  <2>2. 1 \in 1..Len(q) /\ \A i \in 1..Len(q) - 1 : i + 1 \in 1..Len(q)
    BY <2>1
  <2>3. q[1].fc = "data" => q[1].class \in 1..2
    BY <1>1, <2>1, <2>2, AnswerFields
  <2> QED
    BY <1>1, <2>1, <2>2, <2>3 DEF AnswerLine
<1> QED
  BY <1>2, <1>3

LEMMA TurnTypes ==
  ASSUME PollTypes, Schedule
  PROVE  currentSlave' \in Addresses /\ currentIndex' \in 1..Len(Slaves)
<1>1. currentSlave' \in Addresses
  BY SlavesAre DEF PollTypes, PrimaryTypes, Schedule, Scheduled
<1>2. ASSUME NEW n \in Nat \ {0}, NEW k \in 1..n PROVE (k % n) + 1 \in 1..n
  OBVIOUS
<1>3. currentIndex' \in 1..Len(Slaves)
  BY <1>2, SlavesAre DEF PollTypes, PrimaryTypes, Schedule
<1> QED
  BY <1>1, <1>3

LEMMA PollTypesKept ==
  ASSUME PollTypes, PollNext
  PROVE  PollTypes'
<1>0. /\ connection \in [Addresses -> SlaveConnection] /\ FaultTypes(pollFaults)
      /\ nextCommand \in [Addresses -> Nat \ {0}] /\ confirmedTo \in [Addresses -> SUBSET Nat]
      /\ gathered \in [Addresses -> [1..2 -> Seq(Nat)]]
      /\ currentSlave \in {0} \cup Addresses /\ currentIndex \in 1..Len(Slaves)
      /\ PollLine(polls) /\ AnswerLine(answering)
  BY DEF PollTypes, PrimaryTypes, FrameTypes
<1>1. ASSUME NEW s \in Used, SendConfirmed(s) \/ RequestClass2(s) \/ TestLink(s)
      PROVE  PollTypes'
  <2>1. PICK d \in SlaveConnection :
           /\ connection' = [connection EXCEPT ![s] = d]
           /\ \/ nextCommand' = nextCommand
              \/ nextCommand' = [nextCommand EXCEPT ![s] = @ + 1]
    BY <1>1, CallEffect, SlavesAre
  <2>2. UNCHANGED <<currentSlave, currentIndex, polls, answering, pollFaults, confirmedTo,
                    gathered, slaveVars>>
    BY <1>1, CallEffect, SlavesAre
  <2>3. connection' \in [Addresses -> SlaveConnection]
    BY <1>0, <2>1
  <2>4. nextCommand' \in [Addresses -> Nat \ {0}]
    <3>1. s \in Addresses /\ nextCommand[s] + 1 \in Nat \ {0}
      BY <1>0, SlavesAre
    <3> QED
      BY <1>0, <2>1, <3>1
  <2>5. PrimaryTypes'
    BY <1>0, <2>2, <2>3, <2>4 DEF PrimaryTypes
  <2> QED
    BY <2>2, <2>5 DEF PollTypes, SecondaryTypes, FrameTypes, slaveVars
<1>2. CASE RunPolling
  <2>1. PICK d \in SlaveConnection :
           /\ Scheduled \in Addresses /\ connection' = [connection EXCEPT ![Scheduled] = d]
           /\ RunsFor(Scheduled, connection[Scheduled], d)
    BY <1>2, RunEffect
  <2>2. UNCHANGED <<answering, applicationVars, slaveVars>> /\ Schedule
    BY <1>2 DEF RunPolling
  <2>3. PollLine(polls')
    <3>1. polls' = polls \/ \E f \in Polls : /\ polls' = Append(polls, f)
                                             /\ f.fc = "requestData" => f.class # 0
      BY <2>1 DEF RunsFor, SendsPoll
    <3> QED
      BY <1>0, <3>1, PollLines
  <2>4. FaultTypes(pollFaults')
    BY <1>0, <2>1, FaultsCount DEF RunsFor
  <2>5. connection' \in [Addresses -> SlaveConnection]
    BY <1>0, <2>1
  <2>6. PrimaryTypes'
    BY <1>0, <2>2, <2>4, <2>5, TurnTypes DEF PrimaryTypes, applicationVars
  <2> QED
    BY <1>0, <2>2, <2>3, <2>6 DEF PollTypes, SecondaryTypes, FrameTypes, slaveVars
<1>3. CASE PrimaryHears
  <2>1. /\ answering # <<>> /\ answering' = Tail(answering)
        /\ UNCHANGED <<currentSlave, currentIndex, pollFaults, nextCommand, requests, slaveVars>>
    BY <1>3 DEF PrimaryHears
  <2>2. PICK a \in Answers : a = answering[1]
    BY <1>0, <2>1, AnswerLines
  <2>3. PICK s : s = IF a.fc = "single" THEN currentSlave ELSE a.from
    OBVIOUS
  <2>4. AnswerLine(answering') /\ (a.fc = "data" => a.class \in 1..2)
    BY <1>0, <2>1, <2>2, AnswerLines
  <2>5. CASE s \in Addresses
    <3>1. PICK d \in SlaveConnection : connection' = [connection EXCEPT ![s] = d]
      BY <1>3, <2>2, <2>3, <2>5, HearEffect
    <3>2. connection' \in [Addresses -> SlaveConnection]
      BY <1>0, <3>1
    <3>3. polls' = polls \/ \E f \in Polls : polls' = Append(polls, f) /\ f.fc = "resetLink"
      BY <1>3, <2>2, <2>3, <2>5, HearFrames
    <3>4. PollLine(polls')
      BY <1>0, <3>3, PollLines
    <3>5. \/ confirmedTo' = confirmedTo
          \/ confirmedTo' = [confirmedTo EXCEPT ![s] = @ \cup {connection[s].message}]
      BY <1>3, <2>2, <2>3, <2>5, HearFrames
    <3>6. connection[s].message \in Nat
      BY <1>0, <2>5 DEF SlaveConnection
    <3>7. confirmedTo' \in [Addresses -> SUBSET Nat]
      <4>1. confirmedTo[s] \cup {connection[s].message} \in SUBSET Nat
        BY <1>0, <2>5, <3>6
      <4>2. ASSUME NEW m \in SUBSET Nat, confirmedTo' = [confirmedTo EXCEPT ![s] = m]
            PROVE  confirmedTo' \in [Addresses -> SUBSET Nat]
        BY <1>0, <4>2
      <4> QED
        BY <1>0, <3>5, <4>1, <4>2
    <3>8. \/ gathered' = gathered
          \/ /\ gathered' = [gathered EXCEPT ![s][a.class] = Append(@, a.data)]
             /\ a.fc = "data"
      BY <1>3, <2>2, <2>3, <2>5, HearFrames
    <3>9. gathered' \in [Addresses -> [1..2 -> Seq(Nat)]]
      <4>1. ASSUME a.fc = "data" PROVE Append(gathered[s][a.class], a.data) \in Seq(Nat)
        <5>1. gathered[s][a.class] \in Seq(Nat) /\ a.data \in Nat
          BY <1>0, <2>4, <2>5, <4>1, AnswerFields
        <5> QED
          BY <5>1
      <4>2. ASSUME NEW q \in Seq(Nat), NEW class \in 1..2,
                   gathered' = [gathered EXCEPT ![s][class] = q]
            PROVE  gathered' \in [Addresses -> [1..2 -> Seq(Nat)]]
        BY <1>0, <2>5, <4>2
      <4> QED
        BY <1>0, <2>4, <3>8, <4>1, <4>2
    <3>10. PrimaryTypes'
      BY <1>0, <2>1, <3>2, <3>7, <3>9 DEF PrimaryTypes
    <3> QED
      BY <2>1, <2>4, <3>4, <3>10 DEF PollTypes, SecondaryTypes, FrameTypes, slaveVars
  <2>6. CASE s \notin Addresses
    <3>1. UNCHANGED <<connection, polls, confirmedTo, gathered>>
      BY <1>3, <2>2, <2>3, <2>6, HearNobody
    <3>2. PrimaryTypes'
      BY <1>0, <2>1, <3>1 DEF PrimaryTypes
    <3> QED
      BY <1>0, <2>1, <2>4, <3>1, <3>2 DEF PollTypes, SecondaryTypes, FrameTypes, slaveVars
  <2> QED
    BY <2>5, <2>6
<1>4. CASE SecondaryHears
  <2>1. polls # <<>>
    BY <1>4 DEF SecondaryHears
  <2>2. PICK f \in Polls : f = polls[1]
    BY <1>0, <2>1, PollLines
  <2>3. PICK s \in Addresses, m \in Nat : s = f.to /\ m = f.message
    BY PollFields
  <2>4. /\ polls' = Tail(polls)
        /\ slaveFcb' = [slaveFcb EXCEPT ![s] =
                          IF s \in Present /\ f.fc = "resetLink" THEN TRUE
                          ELSE IF Heeded(f) /\ f.fcv THEN ~@ ELSE @]
        /\ \/ commanded' = commanded
           \/ commanded' = [commanded EXCEPT ![s] = Append(@, m)]
        /\ \/ UNCHANGED <<nextData, answering>>
           \/ \E a \in Answers :
                /\ answering' = Append(answering, a) /\ (a.fc = "data" => a.class # 0)
                /\ \/ nextData' = nextData
                   \/ /\ nextData' = [nextData EXCEPT ![s][a.class] = @ + 1]
                      /\ a.class \in 1..2
    <3>1. \A a \in Answers : a.class # 0 => a.class \in 1..2
      BY AnswerFields
    <3>2. /\ polls' = Tail(polls)
          /\ slaveFcb' = [slaveFcb EXCEPT ![s] =
                            IF s \in Present /\ f.fc = "resetLink" THEN TRUE
                            ELSE IF Heeded(f) /\ f.fcv THEN ~@ ELSE @]
          /\ \/ commanded' = commanded
             \/ commanded' = [commanded EXCEPT ![s] = Append(@, m)]
      BY <1>4, <2>2, <2>3, SecondaryEffect
    <3>3. \/ UNCHANGED <<nextData, answering>>
          \/ \E a \in Answers :
               /\ answering' = Append(answering, a)
               /\ a.fc # "data" => nextData' = nextData
               /\ a.fc = "data" => /\ a.class = f.class /\ a.class # 0
                                   /\ nextData' = [nextData EXCEPT ![s][f.class] = @ + 1]
      BY <1>4, <2>2, <2>3, SecondaryEffect
    <3> QED
      BY <3>1, <3>2, <3>3
  <2>5. UNCHANGED <<connection, currentSlave, currentIndex, pollFaults, applicationVars>>
    BY <1>4 DEF SecondaryHears
  <2>6. slaveFcb' \in [Addresses -> BOOLEAN]
    BY <2>4 DEF PollTypes, SecondaryTypes
  <2>7. commanded' \in [Addresses -> Seq(Nat)]
    <3>1. Append(commanded[s], m) \in Seq(Nat) /\ commanded \in [Addresses -> Seq(Nat)]
      <4>1. commanded \in [Addresses -> Seq(Nat)]
        BY DEF PollTypes, SecondaryTypes
      <4>2. commanded[s] \in Seq(Nat)
        BY <4>1
      <4> QED
        BY <4>1, <4>2
    <3> QED
      BY <2>4, <3>1
  <2>8. nextData' \in [Addresses -> [1..2 -> Nat \ {0}]]
    <3>1. nextData \in [Addresses -> [1..2 -> Nat \ {0}]]
      BY DEF PollTypes, SecondaryTypes
    <3>2. ASSUME NEW class \in 1..2, nextData' = [nextData EXCEPT ![s][class] = @ + 1]
          PROVE  nextData' \in [Addresses -> [1..2 -> Nat \ {0}]]
      <4>1. nextData[s][class] + 1 \in Nat \ {0}
        BY <3>1
      <4> QED
        BY <3>1, <3>2, <4>1
    <3> QED
      BY <2>4, <3>1, <3>2
  <2>9. PollLine(polls') /\ AnswerLine(answering')
    <3>1. PollLine(polls')
      BY <1>0, <2>1, <2>4, PollLines
    <3>2. AnswerLine(answering')
      <4>1. \/ answering' = answering
            \/ \E a \in Answers : /\ answering' = Append(answering, a)
                                  /\ a.fc = "data" => a.class # 0
        BY <2>4
      <4>2. CASE answering' = answering
        BY <1>0, <4>2
      <4>3. CASE answering' # answering
        <5>1. PICK a \in Answers : /\ answering' = Append(answering, a)
                                   /\ a.fc = "data" => a.class # 0
          BY <4>1, <4>3
        <5>2. AnswerLine(Append(answering, a))
          BY <1>0, <5>1, AnswerLines
        <5> QED
          BY <5>1, <5>2
      <4> QED
        BY <4>2, <4>3
    <3> QED
      BY <3>1, <3>2
  <2>10. PrimaryTypes'
    BY <1>0, <2>5 DEF PrimaryTypes, applicationVars
  <2> QED
    BY <2>6, <2>7, <2>8, <2>9, <2>10 DEF PollTypes, SecondaryTypes, FrameTypes
<1>5. CASE ForeignReply
  <2>1. PICK a \in Answers : a.fc # "data" /\ answering' = Append(answering, a)
    BY <1>5, ForeignEffect
  <2>2. /\ polls # <<>> /\ polls' = Tail(polls)
        /\ pollFaults' = [pollFaults EXCEPT !.all = @ + 1, !.foreign = @ + 1]
        /\ UNCHANGED <<connection, currentSlave, currentIndex, applicationVars, slaveVars>>
    BY <1>5 DEF ForeignReply
  <2>3. FaultTypes(pollFaults')
    BY <1>0, <2>2, FaultsCount
  <2>4. PollLine(polls') /\ AnswerLine(answering')
    <3>1. PollLine(polls')
      BY <1>0, <2>2, PollLines
    <3>2. AnswerLine(answering')
      BY <1>0, <2>1, AnswerLines
    <3> QED
      BY <3>1, <3>2
  <2>5. PrimaryTypes'
    BY <1>0, <2>2, <2>3 DEF PrimaryTypes, applicationVars
  <2> QED
    BY <2>2, <2>4, <2>5 DEF PollTypes, SecondaryTypes, FrameTypes, slaveVars
<1>6. CASE LosePollFrame
  <2>1. /\ \/ polls # <<>> /\ polls' = Tail(polls) /\ UNCHANGED answering
           \/ answering # <<>> /\ answering' = Tail(answering) /\ UNCHANGED polls
        /\ pollFaults' = [pollFaults EXCEPT !.all = @ + 1]
        /\ UNCHANGED <<connection, currentSlave, currentIndex, applicationVars, slaveVars>>
    BY <1>6 DEF LosePollFrame
  <2>2. FaultTypes(pollFaults')
    BY <1>0, <2>1, FaultsCount
  <2>3. PollLine(polls') /\ AnswerLine(answering')
    BY <1>0, <2>1, PollLines, AnswerLines
  <2>4. PrimaryTypes'
    BY <1>0, <2>1, <2>2 DEF PrimaryTypes, applicationVars
  <2> QED
    BY <2>1, <2>3, <2>4 DEF PollTypes, SecondaryTypes, FrameTypes, slaveVars
<1> QED
  BY <1>1, <1>2, <1>3, <1>4, <1>5, <1>6 DEF PollNext

(***************************************************************************)
(* Unbalanced: the order of messages and user data                         *)
(***************************************************************************)
LEMMA CommandsInOrderKept ==
  ASSUME PollTypes, PollTypes', CommandsInOrder, PollNext
  PROVE  CommandsInOrder'
<1>0. /\ connection \in [Addresses -> SlaveConnection] /\ nextCommand \in [Addresses -> Nat \ {0}]
      /\ commanded \in [Addresses -> Seq(Nat)] /\ polls \in Seq(Polls)
  BY DEF PollTypes, PrimaryTypes, SecondaryTypes, FrameTypes, PollLine
<1>1. \A s \in Addresses :
        /\ connection[s] \in SlaveConnection /\ nextCommand[s] \in Nat \ {0}
        /\ commanded[s] \in Seq(Nat)
        /\ Waits(connection[s], nextCommand[s])
        /\ Commands(polls, s, commanded[s], nextCommand[s])
  BY <1>0 DEF CommandsInOrder
<1>2. ASSUME UNCHANGED <<connection, nextCommand>>
      PROVE  \A s \in Addresses : Waits(connection[s], nextCommand[s])'
  BY <1>1, <1>2
<1>3. ASSUME UNCHANGED <<nextCommand, commanded>>,
             polls' = polls \/ (polls # <<>> /\ polls' = Tail(polls))
      PROVE  \A s \in Addresses : Commands(polls, s, commanded[s], nextCommand[s])'
  BY <1>0, <1>1, <1>3, CommandTaken
<1>4. ASSUME NEW u \in Used, SendConfirmed(u) \/ RequestClass2(u) \/ TestLink(u)
      PROVE  CommandsInOrder'
  <2>0. u \in Addresses
    BY SlavesAre
  <2>1. UNCHANGED <<polls, commanded>>
    BY <1>4, <2>0, CallEffect DEF slaveVars
  <2>2. PICK d \in SlaveConnection :
              /\ connection' = [connection EXCEPT ![u] = d] /\ Calls(connection[u], d)
              /\ \/ d.message = connection[u].message /\ nextCommand' = nextCommand
                 \/ /\ connection[u].message = 0 /\ d.message = nextCommand[u]
                    /\ nextCommand' = [nextCommand EXCEPT ![u] = @ + 1]
    BY <1>4, <2>0, CallEffect
  <2> SUFFICES ASSUME NEW s \in Addresses
               PROVE  /\ Waits(connection'[s], nextCommand'[s])
                      /\ Commands(polls, s, commanded[s], nextCommand'[s])
    BY <2>1 DEF CommandsInOrder
  <2>3. CASE d.message = connection[u].message /\ nextCommand' = nextCommand
    <3>1. CASE s = u
      <4>1. connection'[s] = d /\ d.pll = connection[s].pll /\ d.message = connection[s].message
        BY <1>0, <2>0, <2>2, <2>3, <3>1 DEF Calls
      <4>2. Waits(d, nextCommand[s])
        BY <1>1, <4>1 DEF Waits
      <4> QED
        BY <1>1, <2>3, <4>1, <4>2
    <3>2. CASE s # u
      BY <1>0, <1>1, <2>2, <2>3, <3>2
    <3> QED
      BY <3>1, <3>2
  <2>4. CASE /\ connection[u].message = 0 /\ d.message = nextCommand[u]
             /\ nextCommand' = [nextCommand EXCEPT ![u] = @ + 1]
    <3>1. CASE s = u
      <4>1. /\ connection'[s] = d /\ d.message = nextCommand[s]
            /\ nextCommand'[s] = nextCommand[s] + 1
            /\ connection[s].message = 0 /\ d.pll = connection[s].pll
        BY <1>0, <2>0, <2>2, <2>4, <3>1 DEF Calls
      <4>2. Waits(d, nextCommand[s] + 1)
        BY <1>1, <4>1 DEF Waits
      <4>3. Commands(polls, s, commanded[s], nextCommand[s] + 1)
        BY <1>0, <1>1, CommandsGrow
      <4> QED
        BY <4>1, <4>2, <4>3
    <3>2. CASE s # u
      BY <1>0, <1>1, <2>2, <2>4, <3>2
    <3> QED
      BY <3>1, <3>2
  <2> QED
    BY <2>2, <2>3, <2>4
<1>5. CASE RunPolling
  <2>1. PICK u \in Addresses, d \in SlaveConnection :
           connection' = [connection EXCEPT ![u] = d] /\ RunsFor(u, connection[u], d)
    BY <1>5, RunEffect
  <2>2. UNCHANGED <<nextCommand, commanded>>
    BY <1>5 DEF RunPolling, applicationVars, slaveVars
  <2>3. PICK c \in SlaveConnection : c = connection[u] /\ Waits(c, nextCommand[u])
    BY <1>1
  <2>4. d.message = c.message /\ (d.pll = "sendConfirm" => c.pll = "sendConfirm" \/ c.message # 0)
    BY <2>1, <2>3 DEF RunsFor, Silent, SendsPoll
  <2>5. Waits(d, nextCommand[u])
    BY <2>3, <2>4 DEF Waits
  <2>6. \A s \in Addresses : Waits(connection[s], nextCommand[s])'
    BY <1>0, <1>1, <2>1, <2>2, <2>5
  <2>7. ASSUME NEW f \in Polls, polls' = Append(polls, f), SendsPoll(u, c, d, f)
        PROVE  \A s \in Addresses : Commands(polls, s, commanded[s], nextCommand[s])'
    <3> SUFFICES ASSUME NEW s \in Addresses
                 PROVE  Commands(Append(polls, f), s, commanded[s], nextCommand[s])
      BY <2>2, <2>7
    <3>1. IsCommand(f, s) => f.message = nextCommand[s] - 1
      <4>1. IsCommand(f, s) => s = u /\ d.pll = "sendConfirm" /\ f.message = d.message
        BY <2>7 DEF IsCommand, SendsPoll, Asks
      <4> QED
        BY <2>5, <4>1 DEF Waits
    <3> QED
      BY <1>0, <1>1, <3>1, CommandAdded
  <2>8. \A s \in Addresses : Commands(polls, s, commanded[s], nextCommand[s])'
    <3>1. polls' = polls \/ \E f \in Polls : polls' = Append(polls, f) /\ SendsPoll(u, c, d, f)
      BY <2>1, <2>3 DEF RunsFor
    <3> QED
      BY <1>3, <2>2, <2>7, <3>1
  <2> QED
    BY <2>6, <2>8 DEF CommandsInOrder
<1>6. CASE PrimaryHears
  <2>1. UNCHANGED <<nextCommand, commanded>> /\ answering # <<>>
    BY <1>6 DEF PrimaryHears, slaveVars
  <2>2. PICK a \in Answers : a = answering[1]
    BY <2>1, AnswerLines DEF PollTypes, FrameTypes
  <2>3. PICK s : s = IF a.fc = "single" THEN currentSlave ELSE a.from
    OBVIOUS
  <2>4. CASE s \in Addresses
    <3>1. PICK d \in SlaveConnection : /\ connection' = [connection EXCEPT ![s] = d]
                                       /\ Hears(a, connection[s], d)
      BY <1>6, <2>2, <2>3, <2>4, HearEffect
    <3>2. Waits(d, nextCommand[s])
      BY <1>1, <2>4, <3>1 DEF Hears, Waits
    <3>3. \A u \in Addresses : Waits(connection[u], nextCommand[u])'
      BY <1>0, <1>1, <2>1, <2>4, <3>1, <3>2
    <3>4. ASSUME NEW f \in Polls, polls' = Append(polls, f), f.fc = "resetLink"
          PROVE  \A u \in Addresses : Commands(polls, u, commanded[u], nextCommand[u])'
      BY <1>0, <1>1, <2>1, <3>4, CommandAdded DEF IsCommand
    <3>5. \A u \in Addresses : Commands(polls, u, commanded[u], nextCommand[u])'
      <4>1. polls' = polls \/ \E f \in Polls : polls' = Append(polls, f) /\ f.fc = "resetLink"
        BY <1>6, <2>2, <2>3, <2>4, HearFrames
      <4> QED
        BY <1>3, <2>1, <3>4, <4>1
    <3> QED
      BY <3>3, <3>5 DEF CommandsInOrder
  <2>5. CASE s \notin Addresses
    <3>1. UNCHANGED <<connection, polls>>
      BY <1>6, <2>2, <2>3, <2>5, HearNobody
    <3> QED
      BY <1>2, <1>3, <2>1, <3>1 DEF CommandsInOrder
  <2> QED
    BY <2>4, <2>5
<1>7. CASE SecondaryHears
  <2>1. polls # <<>> /\ polls' = Tail(polls) /\ UNCHANGED <<connection, nextCommand>>
    BY <1>7 DEF SecondaryHears, applicationVars
  <2>2. PICK f \in Polls : f = polls[1] /\ f = Head(polls)
    BY <1>0, <2>1, FirstTaken
  <2>3. \/ commanded' = commanded
        \/ NewCommand(f) /\ commanded' = [commanded EXCEPT ![f.to] = Append(@, f.message)]
    BY <1>7, <2>2, SecondaryEffect
  <2>4. CASE commanded' = commanded
    BY <1>2, <1>3, <2>1, <2>4 DEF CommandsInOrder
  <2>5. CASE NewCommand(f) /\ commanded' = [commanded EXCEPT ![f.to] = Append(@, f.message)]
    <3>1. PICK u \in Addresses : u = f.to
      BY PollFields
    <3>2. IsCommand(f, u) /\ (commanded[u] = <<>> \/ commanded[u][Len(commanded[u])] # f.message)
      BY <2>5, <3>1 DEF IsCommand, NewCommand
    <3>3. Commands(Tail(polls), u, Append(commanded[u], f.message), nextCommand[u])
      BY <1>0, <1>1, <2>1, <2>2, <3>2, CommandTaken
    <3>4. \A s \in Addresses : Commands(Tail(polls), s, commanded[s], nextCommand[s])
      BY <1>0, <1>1, <2>1, CommandTaken
    <3>5. \A s \in Addresses :
            commanded'[s] = IF s = u THEN Append(commanded[s], f.message) ELSE commanded[s]
      BY <1>0, <2>5, <3>1
    <3>6. \A s \in Addresses : Commands(Tail(polls), s, commanded'[s], nextCommand[s])
      BY <3>3, <3>4, <3>5
    <3> QED
      BY <1>2, <2>1, <3>6 DEF CommandsInOrder
  <2> QED
    BY <2>3, <2>4, <2>5
<1>8. CASE ForeignReply \/ LosePollFrame
  <2>1. /\ UNCHANGED <<connection, nextCommand, commanded>>
        /\ polls' = polls \/ (polls # <<>> /\ polls' = Tail(polls))
    BY <1>8 DEF ForeignReply, LosePollFrame, applicationVars, slaveVars
  <2> QED
    BY <1>2, <1>3, <2>1 DEF CommandsInOrder
<1> QED
  BY <1>4, <1>5, <1>6, <1>7, <1>8 DEF PollNext

LEMMA DataInOrderKept ==
  ASSUME PollTypes, PollTypes', DataInOrder, PollNext
  PROVE  DataInOrder'
<1>0. /\ gathered \in [Addresses -> [1..2 -> Seq(Nat)]] /\ answering \in Seq(Answers)
      /\ nextData \in [Addresses -> [1..2 -> Nat \ {0}]]
  BY DEF PollTypes, PrimaryTypes, SecondaryTypes, FrameTypes, AnswerLine
<1>1. \A s \in Addresses, class \in 1..2 :
        /\ gathered[s][class] \in Seq(Nat) /\ nextData[s][class] \in Nat \ {0}
        /\ DataRises(answering, s, class, gathered[s][class], nextData[s][class])
  BY <1>0 DEF DataInOrder
<1>2. ASSUME UNCHANGED <<gathered, nextData>>,
             \/ answering' = answering \/ (answering # <<>> /\ answering' = Tail(answering))
             \/ \E a \in Answers : a.fc # "data" /\ answering' = Append(answering, a)
      PROVE  DataInOrder'
  <2>1. CASE answering' = answering
    BY <1>1, <1>2, <2>1 DEF DataInOrder
  <2>2. CASE answering # <<>> /\ answering' = Tail(answering)
    BY <1>0, <1>1, <1>2, <2>2, DataTaken DEF DataInOrder
  <2>3. CASE \E a \in Answers : a.fc # "data" /\ answering' = Append(answering, a)
    <3>1. PICK a \in Answers : a.fc # "data" /\ answering' = Append(answering, a)
      BY <2>3
    <3>2. \A s \in Addresses, class \in 1..2 :
            DataRises(Append(answering, a), s, class, gathered[s][class], nextData[s][class])
      BY <1>0, <1>1, <3>1, DataGiven DEF IsData
    <3> QED
      BY <1>2, <3>1, <3>2 DEF DataInOrder
  <2> QED
    BY <1>2, <2>1, <2>2, <2>3
<1>3. ASSUME NEW u \in Used, SendConfirmed(u) \/ RequestClass2(u) \/ TestLink(u)
      PROVE  DataInOrder'
  BY <1>2, <1>3, CallEffect, SlavesAre DEF slaveVars
<1>4. CASE RunPolling
  BY <1>2, <1>4 DEF RunPolling, applicationVars, slaveVars
<1>5. CASE PrimaryHears
  <2>1. answering # <<>> /\ answering' = Tail(answering) /\ nextData' = nextData
    BY <1>5 DEF PrimaryHears, slaveVars
  <2>2. PICK a \in Answers : /\ a = answering[1] /\ a = Head(answering)
                             /\ a.fc = "data" => a.class \in 1..2
    BY <1>0, <2>1, FirstTaken, AnswerLines DEF PollTypes, FrameTypes
  <2>3. PICK s : s = IF a.fc = "single" THEN currentSlave ELSE a.from
    OBVIOUS
  <2>4. \/ gathered' = gathered
        \/ /\ gathered' = [gathered EXCEPT ![a.from][a.class] = Append(@, a.data)]
           /\ a.fc = "data"
    <3>1. CASE s \in Addresses
      <4>1. \/ gathered' = gathered
            \/ /\ gathered' = [gathered EXCEPT ![s][a.class] = Append(@, a.data)]
               /\ a.fc = "data" /\ s = a.from
        BY <1>5, <2>2, <2>3, <3>1, HearFrames
      <4> QED
        BY <4>1
    <3>2. CASE s \notin Addresses
      BY <1>5, <2>2, <2>3, <3>2, HearNobody
    <3> QED
      BY <3>1, <3>2
  <2>5. CASE gathered' = gathered
    BY <1>2, <2>1, <2>5
  <2>6. CASE /\ gathered' = [gathered EXCEPT ![a.from][a.class] = Append(@, a.data)]
             /\ a.fc = "data"
    <3>1. PICK u \in Addresses, k \in 1..2 : u = a.from /\ k = a.class
      BY <2>2, <2>6, AnswerFields
    <3>2. \A t \in Addresses, class \in 1..2 :
            gathered'[t][class] = IF t = u /\ class = k THEN Append(gathered[t][class], a.data)
                                  ELSE gathered[t][class]
      <4>1. gathered' = [gathered EXCEPT ![u] = [gathered[u] EXCEPT ![k] = Append(@, a.data)]]
        BY <2>6, <3>1
      <4> QED
        BY <1>0, <4>1
    <3>3. IsData(a, u, k)
      BY <2>6, <3>1 DEF IsData
    <3>4. DataRises(Tail(answering), u, k, Append(gathered[u][k], a.data), nextData[u][k])
      BY <1>0, <1>1, <2>1, <2>2, <3>3, DataTaken
    <3>5. \A t \in Addresses, class \in 1..2 :
            DataRises(Tail(answering), t, class, gathered[t][class], nextData[t][class])
      BY <1>0, <1>1, <2>1, DataTaken
    <3>6. \A t \in Addresses, class \in 1..2 :
            DataRises(Tail(answering), t, class, gathered'[t][class], nextData[t][class])
      BY <3>2, <3>4, <3>5
    <3> QED
      BY <2>1, <3>6 DEF DataInOrder
  <2> QED
    BY <2>4, <2>5, <2>6
<1>6. CASE SecondaryHears
  <2>1. polls # <<>> /\ gathered' = gathered
    BY <1>6 DEF SecondaryHears, applicationVars
  <2>2. PICK f \in Polls : f = polls[1]
    BY <2>1, PollLines DEF PollTypes, FrameTypes
  <2>3. \/ UNCHANGED <<nextData, answering>>
        \/ \E a \in Answers :
             /\ ReplyTo(f, a) /\ answering' = Append(answering, a)
             /\ a.fc # "data" => nextData' = nextData
             /\ a.fc = "data" =>
                  /\ a.class = f.class /\ a.class # 0 /\ a.data = nextData[f.to][f.class]
                  /\ nextData' = [nextData EXCEPT ![f.to][f.class] = @ + 1]
    BY <1>6, <2>2, SecondaryEffect
  <2>4. CASE UNCHANGED <<nextData, answering>>
    BY <1>2, <2>1, <2>4
  <2>5. ASSUME NEW a \in Answers, ReplyTo(f, a), answering' = Append(answering, a),
               a.fc = "data", a.class = f.class, a.class # 0, a.data = nextData[f.to][f.class],
               nextData' = [nextData EXCEPT ![f.to][f.class] = @ + 1]
        PROVE  DataInOrder'
    <3>1. PICK u \in Addresses, k \in 1..2 : u = f.to /\ k = f.class
      BY <2>5, AnswerFields, PollFields
    <3>2. \A t \in Addresses, class \in 1..2 :
            nextData'[t][class] = IF t = u /\ class = k THEN nextData[t][class] + 1
                                  ELSE nextData[t][class]
      <4>1. nextData' = [nextData EXCEPT ![u] = [nextData[u] EXCEPT ![k] = @ + 1]]
        BY <2>5, <3>1
      <4> QED
        BY <1>0, <4>1
    <3>3. DataRises(Append(answering, a), u, k, gathered[u][k], nextData[u][k] + 1)
      BY <1>0, <1>1, <2>5, <3>1, DataGiven
    <3>4. \A t \in Addresses, class \in 1..2 :
            t # u \/ class # k =>
              DataRises(Append(answering, a), t, class, gathered[t][class], nextData[t][class])
      <4>1. \A t \in Addresses, class \in 1..2 : t # u \/ class # k => ~IsData(a, t, class)
        BY <2>5, <3>1 DEF IsData, ReplyTo
      <4> QED
        BY <1>0, <1>1, <4>1, DataGiven
    <3>5. \A t \in Addresses, class \in 1..2 :
            DataRises(Append(answering, a), t, class, gathered[t][class], nextData'[t][class])
      BY <3>2, <3>3, <3>4
    <3> QED
      BY <2>1, <2>5, <3>5 DEF DataInOrder
  <2> QED
    BY <1>2, <2>1, <2>3, <2>4, <2>5
<1>7. CASE ForeignReply
  <2>1. \E a \in Answers : a.fc # "data" /\ answering' = Append(answering, a)
    BY <1>7, ForeignEffect
  <2> QED
    BY <1>2, <1>7, <2>1 DEF ForeignReply, applicationVars, slaveVars
<1>8. CASE LosePollFrame
  BY <1>2, <1>8 DEF LosePollFrame, applicationVars, slaveVars
<1> QED
  BY <1>3, <1>4, <1>5, <1>6, <1>7, <1>8 DEF PollNext

(***************************************************************************)
(* Unbalanced: one exchange at a time                                      *)
(***************************************************************************)
\* Frames that nobody hears stay so when their connections and secondaries stay as they were.
LEMMA UnheardStays ==
  ASSUME NEW f, Unheard(f), connection'[f.to].pll = connection[f.to].pll,
         connection'[f.to].waiting = connection[f.to].waiting, slaveFcb'[f.to] = slaveFcb[f.to]
  PROVE  Unheard(f)'
BY DEF Unheard, Tested

\* The primary waits for the current slave, or for none; then the line is quiet.
Quiet == answering = <<>> /\ \A i \in 1..Len(polls) : Unheard(polls[i])
LEMMA AskedExpects ==
  ASSUME PollTypes, NEW s \in Addresses, WaitedFor(s), ~Expects(connection[s])
  PROVE  /\ \A f \in Polls : f.to = s => ~Asked(f)
         /\ \A a \in Answers : a.from = s => ~Answered(a)
<1>1. ASSUME NEW f \in Polls, f.to = s, Asked(f) PROVE FALSE
  BY <1>1, PollFields DEF Asked, Asks, WaitedFor, Expects
<1>2. ASSUME NEW a \in Answers, a.from = s, Answered(a) PROVE FALSE
  BY <1>2, AnswerFields DEF Answered, Fits, WaitedFor, Expects
<1> QED
  BY <1>1, <1>2

LEMMA QuietWhenRun ==
  ASSUME PollTypes, OneWaitedFor, OneOnThePolledLine, NEW s \in Addresses, s = Scheduled,
         (polls = <<>> /\ answering = <<>>) \/ ~Expects(connection[s])
  PROVE  /\ Quiet /\ (Tested(connection[s]) => polls = <<>>)
         /\ \A u \in Addresses \ {s} : ~connection[u].waiting
<1>0. /\ polls \in Seq(Polls) /\ answering \in Seq(Answers)
  BY DEF PollTypes, FrameTypes, PollLine, AnswerLine
<1>1. \A u \in Addresses : connection[u].waiting => u = currentSlave /\ s = currentSlave
  BY SlavesAre DEF OneWaitedFor, Scheduled
<1>2. ASSUME NEW u, u \in Addresses, WaitedFor(u) PROVE u = s
  BY <1>1, <1>2 DEF WaitedFor
<1>3. CASE polls = <<>> /\ answering = <<>>
  BY <1>1, <1>3 DEF Quiet
<1>4. CASE ~Expects(connection[s])
  <2>1. answering = <<>>
    <3>1. SUFFICES ASSUME answering # <<>> PROVE FALSE
      OBVIOUS
    <3>2. answering[1] \in Answers /\ Answered(answering[1])
      BY <1>0, <3>1, FirstTaken DEF OneOnThePolledLine
    <3>3. answering[1].from \in Addresses /\ WaitedFor(answering[1].from)
      BY <3>2, AnswerFields DEF Answered
    <3>4. answering[1].from = s
      BY <1>2, <3>3
    <3> QED
      BY <1>4, <3>2, <3>3, <3>4, AskedExpects
  <2>2. ASSUME NEW i \in 1..Len(polls) PROVE Unheard(polls[i])
    <3>1. SUFFICES ASSUME Asked(polls[i]) PROVE FALSE
      BY DEF OneOnThePolledLine
    <3>2. polls[i] \in Polls
      BY <1>0
    <3>3. polls[i].to \in Addresses /\ WaitedFor(polls[i].to)
      BY <3>1, <3>2, PollFields DEF Asked
    <3>4. polls[i].to = s
      BY <1>2, <3>3
    <3> QED
      BY <1>4, <3>1, <3>2, <3>3, <3>4, AskedExpects
  <2>3. ~Tested(connection[s])
    BY <1>4 DEF Tested, Expects
  <2> QED
    BY <1>1, <2>1, <2>2, <2>3 DEF Quiet
<1> QED
  BY <1>3, <1>4

\* A call leaves the state of the link as it is.
LEMMA ExchangeCall ==
  ASSUME PollTypes, CommandsInOrder, OneWaitedFor, OneOnThePolledLine, ConfirmedGot,
         NEW u \in Addresses, SendConfirmed(u) \/ RequestClass2(u) \/ TestLink(u)
  PROVE  (OneWaitedFor /\ OneOnThePolledLine /\ ConfirmedGot)'
<1>0. /\ connection \in [Addresses -> SlaveConnection]
      /\ polls \in Seq(Polls) /\ answering \in Seq(Answers)
  BY DEF PollTypes, PrimaryTypes, FrameTypes, PollLine, AnswerLine
<1>1. UNCHANGED <<currentSlave, polls, answering, confirmedTo, slaveFcb, commanded>>
  BY CallEffect DEF slaveVars
<1>2. PICK d \in SlaveConnection :
        /\ connection' = [connection EXCEPT ![u] = d] /\ Calls(connection[u], d)
        /\ d.message = connection[u].message \/ connection[u].message = 0
  BY CallEffect
<1>3. \A s \in Addresses :
        /\ connection'[s].pll = connection[s].pll /\ connection'[s].waiting = connection[s].waiting
        /\ connection'[s].fcb = connection[s].fcb
        /\ connection[s].pll = "sendConfirm" => connection'[s].message = connection[s].message
  BY <1>0, <1>2 DEF Calls, CommandsInOrder, Waits
<1>4. OneWaitedFor'
  BY <1>1, <1>3 DEF OneWaitedFor, Tested
<1>5. ASSUME NEW f \in Polls PROVE (Unheard(f) => Unheard(f)') /\ (Asked(f) => Asked(f)')
  <2>1. f.to \in Addresses
    BY PollFields
  <2> QED
    BY <1>1, <1>3, <2>1, UnheardStays DEF Asked, Asks, WaitedFor
<1>6. ASSUME NEW a \in Answers, Answered(a) PROVE Answered(a)'
  <2>1. a.from \in Addresses
    BY AnswerFields
  <2> QED
    BY <1>1, <1>3, <1>6, <2>1 DEF Answered, Fits, WaitedFor
<1>7. OneOnThePolledLine'
  <2>1. \A i \in 1..Len(polls) : polls[i] \in Polls
    BY <1>0
  <2>2. answering # <<>> => answering[1] \in Answers
    BY <1>0
  <2> QED
    BY <1>1, <1>5, <1>6, <2>1, <2>2 DEF OneOnThePolledLine
<1> QED
  BY <1>1, <1>4, <1>7 DEF ConfirmedGot

\* A run of the primary sends at most one frame, on a quiet line.
LEMMA ExchangeRun ==
  ASSUME PollTypes, OneWaitedFor, OneOnThePolledLine, ConfirmedGot, RunPolling,
         FaultTypes(pollFaults), InTime'
  PROVE  (OneWaitedFor /\ OneOnThePolledLine /\ ConfirmedGot)'
<1>0. connection \in [Addresses -> SlaveConnection] /\ polls \in Seq(Polls)
  BY DEF PollTypes, PrimaryTypes, FrameTypes, PollLine
<1>1. PICK s \in Addresses, d \in SlaveConnection :
         s = Scheduled /\ connection' = [connection EXCEPT ![s] = d] /\ RunsFor(s, connection[s], d)
  BY RunEffect
<1>2. PICK c \in SlaveConnection : c = connection[s]
  BY <1>0
<1>3. UNCHANGED <<answering, confirmedTo, slaveFcb, commanded>> /\ currentSlave' = s
  BY <1>1 DEF RunPolling, applicationVars, slaveVars, Schedule
<1>4. (polls = <<>> /\ answering = <<>>) \/ ~Expects(c)
  BY <1>1, <1>2, FaultsCount DEF RunsFor
<1>5. /\ Quiet /\ (Tested(c) => polls = <<>>)
      /\ \A u \in Addresses \ {s} : ~connection[u].waiting
  BY <1>1, <1>2, <1>4, QuietWhenRun
<1>6. connection'[s] = d /\ \A u \in Addresses \ {s} : connection'[u] = connection[u]
  BY <1>0, <1>1
<1>p. PICK p \in Seq(Polls), n \in Nat : p = polls /\ n = Len(polls)
  BY <1>0
<1>7. \A i \in 1..n : Unheard(p[i])'
  <2> TAKE i \in 1..n
  <2>1. p[i] \in Polls /\ p # <<>>
    BY <1>0, <1>p
  <2>2. Unheard(p[i]) /\ p[i].to \in Addresses
    BY <1>5, <1>p, <2>1, PollFields DEF Quiet
  <2>3. p[i].to # s
    BY <1>2, <1>5, <1>p, <2>1, <2>2 DEF Unheard
  <2> QED
    BY <1>3, <1>6, <2>2, <2>3, UnheardStays
<1>8. ASSUME Tested(d) => slaveFcb[s] = d.fcb, d.pll = "sendConfirm" => d.waiting
      PROVE  OneWaitedFor'
  <2>1. \A u \in Addresses \ {s} :
          /\ connection[u].pll # "sendConfirm"
          /\ Tested(connection[u]) => slaveFcb[u] = connection[u].fcb
    BY <1>5 DEF OneWaitedFor
  <2> QED
    BY <1>3, <1>5, <1>6, <1>8, <2>1 DEF OneWaitedFor
<1>9. CASE polls' = polls /\ Silent(c, d)
  <2>1. OneWaitedFor'
    BY <1>8, <1>9 DEF Silent, Tested
  <2>2. OneOnThePolledLine'
    BY <1>3, <1>5, <1>7, <1>9, <1>p DEF OneOnThePolledLine, Quiet
  <2> QED
    BY <1>3, <2>1, <2>2 DEF ConfirmedGot
<1>10. ASSUME NEW f \in Polls, polls' = Append(polls, f), SendsPoll(s, c, d, f)
       PROVE  (OneWaitedFor /\ OneOnThePolledLine /\ ConfirmedGot)'
  <2>1. PICK q \in Seq(Polls) : q = polls'
    BY <1>0, <1>10, Added
  <2>2. /\ Len(q) = n + 1 /\ q[n + 1] = f
        /\ \A i \in 1..n : q[i] = p[i] /\ Unheard(q[i])'
    BY <1>0, <1>7, <1>10, <1>p, <2>1, Added
  <2>3. \A i \in 1..(n + 1) : i \in 1..n \/ i = n + 1
    BY <1>p
  <2>4. CASE d.waiting
    <3>1. OneWaitedFor'
      BY <1>8, <2>4 DEF Tested
    <3>2. Asked(f)'
      BY <1>3, <1>6, <1>10, <2>4 DEF Asked, WaitedFor, SendsPoll
    <3>3. OneOnThePolledLine'
      BY <1>3, <1>5, <2>1, <2>2, <2>3, <3>2 DEF OneOnThePolledLine, Quiet
    <3> QED
      BY <1>3, <3>1, <3>3 DEF ConfirmedGot
  <2>5. CASE ~d.waiting
    <3>1. c.pll # "sendConfirm"
      <4>1. c.pll = "sendConfirm" => c.waiting
        BY <1>2 DEF OneWaitedFor
      <4> QED
        BY <1>10, <2>5, <4>1 DEF SendsPoll
    <3>2. Tested(c) /\ d.pll = c.pll /\ d.fcb = c.fcb /\ f.fc = "requestData" /\ Tested(d)
      BY <1>10, <2>5, <3>1 DEF SendsPoll, Tested
    <3>3. slaveFcb[s] = d.fcb
      BY <1>2, <3>2 DEF OneWaitedFor
    <3>4. f.to = s /\ f.fcv /\ f.fcb # d.fcb
      BY <1>10, <3>2 DEF SendsPoll, Asks
    <3>5. Unheard(f)'
      BY <1>3, <1>6, <3>2, <3>3, <3>4 DEF Unheard
    <3>6. OneWaitedFor'
      BY <1>8, <3>1, <3>2, <3>3
    <3>7. OneOnThePolledLine'
      BY <1>3, <1>5, <2>1, <2>2, <2>3, <3>5 DEF OneOnThePolledLine, Quiet
    <3> QED
      BY <1>3, <3>6, <3>7 DEF ConfirmedGot
  <2> QED
    BY <2>4, <2>5
<1> QED
  BY <1>1, <1>2, <1>9, <1>10 DEF RunsFor

\* The answer that is waited for ends the exchange, or begins the next with a reset.
LEMMA ExchangeHeard ==
  ASSUME PollTypes, OneWaitedFor, OneOnThePolledLine, ConfirmedGot, PrimaryHears
  PROVE  (OneWaitedFor /\ OneOnThePolledLine /\ ConfirmedGot)'
<1>0. /\ connection \in [Addresses -> SlaveConnection] /\ polls \in Seq(Polls)
      /\ answering \in Seq(Answers) /\ answering # <<>> /\ answering' = Tail(answering)
      /\ UNCHANGED <<currentSlave, slaveFcb, commanded>>
      /\ confirmedTo \in [Addresses -> SUBSET Nat]
  BY DEF PollTypes, PrimaryTypes, FrameTypes, PollLine, AnswerLine, PrimaryHears, slaveVars
<1>1. PICK a \in Answers : a = answering[1] /\ Answered(a)
  BY <1>0, FirstTaken DEF OneOnThePolledLine
<1>2. PICK s \in Addresses, c \in SlaveConnection :
        /\ s = a.from /\ s = currentSlave /\ c = connection[s] /\ c.waiting
        /\ Fits(a, c, commanded[s], slaveFcb[s])
  <2>1. a.from \in Addresses
    BY AnswerFields
  <2> QED
    BY <1>0, <1>1, <2>1 DEF Answered, WaitedFor
<1>3. s = IF a.fc = "single" THEN currentSlave ELSE a.from
  BY <1>2
<1>4. answering' = <<>>
  <2>1. Len(answering) <= 1
    BY DEF OneOnThePolledLine
  <2>2. Tail(answering) \in Seq(Answers) /\ Len(Tail(answering)) = Len(answering) - 1
        /\ Len(answering) \in Nat \ {0}
    BY <1>0, FirstTaken
  <2>3. Len(Tail(answering)) = 0
    BY <2>1, <2>2
  <2> QED
    BY <1>0, <2>2, <2>3
<1>5. PICK d \in SlaveConnection : connection' = [connection EXCEPT ![s] = d] /\ Hears(a, c, d)
  BY <1>1, <1>2, <1>3, HearEffect
<1>6. /\ connection'[s] = d
      /\ \A u \in Addresses \ {s} : connection'[u] = connection[u] /\ ~connection[u].waiting
  BY <1>0, <1>2, <1>5 DEF OneWaitedFor
<1>p. PICK p \in Seq(Polls), n \in Nat : p = polls /\ n = Len(polls)
  BY <1>0
<1>7. \A i \in 1..n : Unheard(p[i])'
  <2> TAKE i \in 1..n
  <2>1. Unheard(p[i]) /\ p[i] \in Polls
    BY <1>0, <1>p DEF OneOnThePolledLine
  <2>2. p[i].to \in Addresses /\ p[i].to # s
    BY <1>2, <2>1, PollFields DEF Unheard, Tested
  <2> QED
    BY <1>0, <1>6, <2>1, <2>2, UnheardStays
<1>8. d.pll # "sendConfirm" /\ (Tested(d) => slaveFcb[s] = d.fcb)
  <2>1. a.fc \in {"ack", "single", "status", "data", "noData", "notImplemented"} /\ ~a.dfc
    BY <1>2, AnswerFields DEF Fits
  <2>2. CASE a.fc \in {"ack", "single"}
    BY <1>2, <1>5, <2>1, <2>2 DEF Fits, Hears, Tested
  <2>3. CASE a.fc = "status"
    BY <1>2, <1>5, <2>1, <2>3 DEF Fits, Hears, Tested
  <2>4. CASE a.fc \in {"data", "noData"}
    BY <1>2, <1>5, <2>1, <2>4 DEF Fits, Hears, Tested
  <2>5. CASE a.fc = "notImplemented"
    BY <1>2, <1>5, <2>1, <2>5 DEF Fits, Hears, Tested
  <2> QED
    BY <2>1, <2>2, <2>3, <2>4, <2>5
<1>9. OneWaitedFor'
  <2>1. \A u \in Addresses \ {s} :
          /\ connection[u].pll # "sendConfirm"
          /\ Tested(connection[u]) => slaveFcb[u] = connection[u].fcb
    BY <1>6 DEF OneWaitedFor
  <2> QED
    BY <1>0, <1>2, <1>6, <1>8, <2>1 DEF OneWaitedFor
<1>10. OneOnThePolledLine'
  <2>1. CASE polls' = polls
    BY <1>4, <1>7, <1>p, <2>1 DEF OneOnThePolledLine
  <2>2. ASSUME NEW f \in Polls, polls' = Append(polls, f), f.to = s, f.fc = "resetLink", ~f.fcv,
               ~a.dfc, a.fc = "status", c.pll = "requestStatus"
        PROVE  OneOnThePolledLine'
    <3>1. d.pll = "resetLink" /\ d.waiting
      BY <1>5, <2>2 DEF Hears
    <3>2. Asked(f)'
      BY <1>0, <1>2, <1>6, <2>2, <3>1 DEF Asked, Asks, WaitedFor
    <3>3. PICK q \in Seq(Polls) : q = polls'
      <4>1. Append(polls, f) \in Seq(Polls)
        BY <1>0, Added
      <4> QED
        BY <2>2, <4>1
    <3>4. /\ Len(q) = n + 1 /\ q[n + 1] = f
          /\ \A i \in 1..n : q[i] = p[i] /\ Unheard(q[i])'
      BY <1>0, <1>7, <1>p, <2>2, <3>3, Added
    <3>5. \A i \in 1..(n + 1) : i \in 1..n \/ i = n + 1
      BY <1>p
    <3> QED
      BY <1>4, <3>2, <3>3, <3>4, <3>5 DEF OneOnThePolledLine
  <2>3. \/ polls' = polls
        \/ \E f \in Polls :
             /\ polls' = Append(polls, f) /\ f.to = s /\ f.fc = "resetLink" /\ ~f.fcv
             /\ ~a.dfc /\ a.fc = "status" /\ c.pll = "requestStatus"
    BY <1>1, <1>2, <1>3, HearFrames
  <2> QED
    BY <2>1, <2>2, <2>3
<1>11. ConfirmedGot'
  <2>1. \/ confirmedTo' = confirmedTo
        \/ /\ confirmedTo' = [confirmedTo EXCEPT ![s] = @ \cup {c.message}]
           /\ a.fc \in {"ack", "single"} /\ c.pll = "sendConfirm"
    BY <1>1, <1>2, <1>3, HearFrames
  <2>2. a.fc \in {"ack", "single"} /\ c.pll = "sendConfirm" => Has(commanded[s], c.message)
    BY <1>2 DEF Fits
  <2>3. \A u \in Addresses : \A m \in confirmedTo'[u] :
          m \in confirmedTo[u] \/ (u = s /\ m = c.message /\ Has(commanded[s], c.message))
    BY <1>0, <2>1, <2>2
  <2> QED
    BY <1>0, <2>3 DEF ConfirmedGot
<1> QED
  BY <1>9, <1>10, <1>11

\* The secondary answers the frame that is asked, and does not hear the others.
LEMMA ExchangeReply ==
  ASSUME PollTypes, OneWaitedFor, OneOnThePolledLine, ConfirmedGot, SecondaryHears
  PROVE  (OneWaitedFor /\ OneOnThePolledLine /\ ConfirmedGot)'
<1>0. /\ connection \in [Addresses -> SlaveConnection] /\ answering \in Seq(Answers)
      /\ commanded \in [Addresses -> Seq(Nat)] /\ slaveFcb \in [Addresses -> BOOLEAN]
      /\ polls \in Seq(Polls) /\ polls # <<>>
      /\ UNCHANGED <<connection, currentSlave, confirmedTo>>
  BY DEF PollTypes, PrimaryTypes, SecondaryTypes, FrameTypes, PollLine, AnswerLine, SecondaryHears,
         applicationVars
<1>1. PICK p \in Seq(Polls), n \in Nat \ {0}, f \in Polls :
        p = polls /\ n = Len(polls) /\ f = polls[1]
  BY <1>0, FirstTaken
<1>2. PICK r \in Seq(Polls) : r = polls'
  <2>1. Tail(polls) \in Seq(Polls) /\ polls' = Tail(polls)
    BY <1>0, <1>1, FirstTaken, SecondaryEffect
  <2> QED
    BY <2>1
<1>3. Len(r) = n - 1 /\ f = p[1] /\ \A i \in 1..(n - 1) : r[i] = p[i + 1]
  <2>1. polls' = Tail(polls)
    BY <1>1, SecondaryEffect
  <2> QED
    BY <1>0, <1>1, <1>2, <2>1, FirstTaken
<1>4. PICK s \in Addresses, m \in Nat : s = f.to /\ m = f.message
  BY PollFields
<1>5. /\ slaveFcb' = [slaveFcb EXCEPT ![s] = IF s \in Present /\ f.fc = "resetLink" THEN TRUE
                                            ELSE IF Heeded(f) /\ f.fcv THEN ~@ ELSE @]
      /\ commanded' = IF Heeded(f) /\ NewCommand(f)
                        THEN [commanded EXCEPT ![s] = Append(@, m)] ELSE commanded
      /\ \/ ~Heeded(f) /\ answering' = answering
         \/ \E a \in Answers : Heeded(f) /\ ReplyTo(f, a) /\ answering' = Append(answering, a)
  BY <1>1, <1>4, SecondaryEffect
<1>6. \A u \in Addresses \ {s} : slaveFcb'[u] = slaveFcb[u]
  BY <1>0, <1>5
<1>7. \A u \in Addresses : \A x : Has(commanded[u], x) => Has(commanded'[u], x)
  <2>1. CASE commanded' = commanded
    BY <2>1
  <2>2. CASE commanded' = [commanded EXCEPT ![s] = Append(@, m)]
    <3>1. /\ Len(Append(commanded[s], m)) = Len(commanded[s]) + 1 /\ Len(commanded[s]) \in Nat
          /\ \A k \in 1..Len(commanded[s]) : Append(commanded[s], m)[k] = commanded[s][k]
      BY <1>0, Added
    <3>2. \A x : Has(commanded[s], x) => Has(Append(commanded[s], m), x)
      BY <3>1 DEF Has
    <3>3. \A u \in Addresses :
            commanded'[u] = IF u = s THEN Append(commanded[u], m) ELSE commanded[u]
      BY <1>0, <2>2
    <3> QED
      BY <3>2, <3>3
  <2> QED
    BY <1>5, <2>1, <2>2
<1>8. ConfirmedGot'
  BY <1>0, <1>7 DEF ConfirmedGot
<1>9. CASE Unheard(f)
  <2>1. ~Heeded(f) /\ f.fc # "resetLink"
    BY <1>9 DEF Unheard, Heeded
  <2>2. answering' = answering /\ commanded' = commanded /\ slaveFcb' = slaveFcb
    BY <1>0, <1>5, <2>1
  <2>3. ASSUME NEW g \in Polls PROVE (Unheard(g) => Unheard(g)') /\ (Asked(g) => Asked(g)')
    BY <1>0, <2>2 DEF Unheard, Asked, WaitedFor
  <2>4. ASSUME NEW a \in Answers, Answered(a) PROVE Answered(a)'
    BY <1>0, <2>2, <2>4 DEF Answered, WaitedFor
  <2>5. \A i \in 1..n : p[i] \in Polls
    BY <1>1
  <2>6. \A i \in 1..(n - 1) : i + 1 \in 1..n /\ \A j \in 1..(n - 1) : j # i => j + 1 # i + 1
    BY <1>1
  <2>7. ASSUME NEW i \in 1..(n - 1)
        PROVE  \/ Unheard(r[i])'
               \/ /\ Asked(r[i])' /\ answering = <<>>
                  /\ \A j \in 1..(n - 1) : j = i \/ Unheard(r[j])'
    <3>1. r[i] = p[i + 1] /\ p[i + 1] \in Polls
      BY <1>3, <2>5, <2>6
    <3>2. \/ Unheard(p[i + 1])
          \/ /\ Asked(p[i + 1]) /\ answering = <<>>
             /\ \A j \in 1..n : j = i + 1 \/ Unheard(p[j])
      BY <1>1, <2>6 DEF OneOnThePolledLine
    <3>3. CASE Unheard(p[i + 1])
      BY <2>3, <3>1, <3>3
    <3>4. CASE /\ Asked(p[i + 1]) /\ answering = <<>>
               /\ \A j \in 1..n : j = i + 1 \/ Unheard(p[j])
      <4>1. \A j \in 1..(n - 1) :
              j = i \/ (Unheard(p[j + 1]) /\ r[j] = p[j + 1] /\ p[j + 1] \in Polls)
        BY <1>3, <2>5, <2>6, <3>4
      <4>2. \A j \in 1..(n - 1) : j = i \/ Unheard(r[j])'
        BY <2>3, <4>1
      <4> QED
        BY <2>3, <3>1, <3>4, <4>2
    <3> QED
      BY <3>2, <3>3, <3>4
  <2>8. answering # <<>> => answering[1] \in Answers /\ Answered(answering[1])
    BY <1>0, FirstTaken DEF OneOnThePolledLine
  <2>9. Len(answering) <= 1 /\ (answering # <<>> => Answered(answering[1])')
    <3>1. PICK w \in Seq(Answers) : w = answering /\ w = answering'
      BY <1>0, <2>2
    <3>2. w # <<>> => Answered(w[1])'
      BY <2>4, <2>8, <3>1
    <3> QED
      BY <3>1, <3>2 DEF OneOnThePolledLine
  <2>10. OneOnThePolledLine'
    BY <1>2, <1>3, <2>2, <2>7, <2>9 DEF OneOnThePolledLine
  <2>11. OneWaitedFor'
    BY <1>0, <2>2 DEF OneWaitedFor
  <2> QED
    BY <1>8, <2>10, <2>11
<1>10. CASE ~Unheard(f)
  <2>1. Asked(f) /\ answering = <<>> /\ \A j \in 1..n : j = 1 \/ Unheard(p[j])
    <3>1. 1 \in 1..n
      BY <1>1
    <3> QED
      BY <1>1, <1>3, <1>10, <3>1 DEF OneOnThePolledLine
  <2>2. PICK c \in SlaveConnection :
          c = connection[s] /\ c.waiting /\ Asks(f, c) /\ s = currentSlave
    BY <1>0, <1>4, <2>1 DEF Asked, WaitedFor
  <2>3. \A i \in 1..(n - 1) : Unheard(r[i])'
    <3> TAKE i \in 1..(n - 1)
    <3>1. i + 1 \in 1..n /\ i + 1 # 1 /\ r[i] = p[i + 1] /\ p[i + 1] \in Polls
      BY <1>1, <1>3
    <3>2. PICK g \in Polls : g = r[i] /\ Unheard(g)
      BY <2>1, <3>1
    <3>3. g.to \in Addresses /\ g.to # s
      BY <2>2, <3>2, PollFields DEF Unheard, Tested
    <3>4. Unheard(g)'
      BY <1>0, <1>6, <3>2, <3>3, UnheardStays
    <3> QED
      BY <3>2, <3>4
  <2>4. OneWaitedFor'
    <3>1. ~Tested(connection[s])
      BY <2>2 DEF Tested
    <3> QED
      BY <1>0, <1>6, <3>1 DEF OneWaitedFor
  <2>5. CASE answering' = answering
    <3>1. answering' = <<>> /\ Len(<<>>) = 0
      BY <2>1, <2>5
    <3> QED
      BY <1>2, <1>3, <1>8, <2>3, <2>4, <3>1 DEF OneOnThePolledLine
  <2>6. ASSUME NEW a \in Answers, Heeded(f), ReplyTo(f, a), answering' = Append(answering, a)
        PROVE  OneOnThePolledLine'
    <3>1. Len(answering') = 1 /\ answering'[1] = a
      BY <2>1, <2>6
    <3>2. c.pll = "sendConfirm" /\ a.fc \in {"ack", "single"} => Has(commanded'[s], c.message)
      <4> SUFFICES ASSUME c.pll = "sendConfirm", a.fc \in {"ack", "single"}
                   PROVE  Has(commanded'[s], c.message)
        OBVIOUS
      <4>1. f.fc = "userData" /\ m = c.message
        BY <1>4, <2>2, <2>6 DEF ReplyTo, Asks
      <4>2. commanded[s] \in Seq(Nat)
        BY <1>0
      <4>3. CASE NewCommand(f)
        <5>1. commanded'[s] = Append(commanded[s], m)
          BY <1>0, <1>5, <2>6, <4>3
        <5>2. /\ Len(Append(commanded[s], m)) = Len(commanded[s]) + 1 /\ Len(commanded[s]) \in Nat
              /\ Append(commanded[s], m)[Len(commanded[s]) + 1] = m
          BY <4>2, Added
        <5>3. Len(commanded[s]) + 1 \in 1..Len(commanded'[s])
          BY <5>1, <5>2
        <5> QED
          BY <4>1, <5>1, <5>2, <5>3 DEF Has
      <4>4. CASE ~NewCommand(f)
        <5>1. commanded[s] # <<>> /\ commanded[s][Len(commanded[s])] = m
          BY <1>4, <4>1, <4>4 DEF NewCommand
        <5>2. Len(commanded[s]) \in 1..Len(commanded[s])
          BY <4>2, <5>1
        <5>3. Has(commanded[s], m)
          BY <5>1, <5>2 DEF Has
        <5> QED
          BY <1>7, <4>1, <5>3
      <4> QED
        BY <4>3, <4>4
    <3>3. a.fc = "notImplemented" => slaveFcb'[s] = c.fcb
      <4> SUFFICES ASSUME a.fc = "notImplemented" PROVE slaveFcb'[s] = c.fcb
        OBVIOUS
      <4>1. f.fc = "test" /\ f.fcv /\ f.fcb # c.fcb /\ f.fcb = slaveFcb[s]
        BY <1>4, <2>2, <2>6 DEF ReplyTo, Asks, Heeded
      <4>2. slaveFcb'[s] = ~slaveFcb[s]
        BY <1>0, <1>5, <2>6, <4>1
      <4>3. c.fcb \in BOOLEAN /\ f.fcb \in BOOLEAN
        BY PollFields DEF SlaveConnection
      <4> QED
        BY <4>1, <4>2, <4>3
    <3>4. /\ a.from = s /\ ~a.dfc /\ a.fc # "nack"
          /\ a.fc = "status" => c.pll = "requestStatus"
          /\ a.fc \in {"data", "noData"} => c.pll = "requestRespond"
          /\ a.fc = "notImplemented" => c.pll \in {"requestRespond", "sendConfirm"}
          /\ a.fc \in {"ack", "single"} => c.pll \in {"resetLink", "sendConfirm", "requestRespond"}
      BY <1>4, <2>2, <2>6, AnswerFields DEF ReplyTo, Asks
    <3>5. Answered(a)'
      BY <1>0, <2>2, <3>2, <3>3, <3>4 DEF Answered, Fits, WaitedFor
    <3> QED
      BY <1>2, <1>3, <2>3, <3>1, <3>5 DEF OneOnThePolledLine
  <2> QED
    BY <1>5, <1>8, <2>4, <2>5, <2>6
<1> QED
  BY <1>9, <1>10

\* A frame is lost.
LEMMA ExchangeLost ==
  ASSUME PollTypes, OneWaitedFor, OneOnThePolledLine, ConfirmedGot, LosePollFrame
  PROVE  (OneWaitedFor /\ OneOnThePolledLine /\ ConfirmedGot)'
<1>0. /\ UNCHANGED <<connection, currentSlave, confirmedTo, commanded, slaveFcb>>
      /\ polls \in Seq(Polls) /\ answering \in Seq(Answers)
      /\ \/ polls # <<>> /\ polls' = Tail(polls) /\ UNCHANGED answering
         \/ answering # <<>> /\ answering' = Tail(answering) /\ UNCHANGED polls
  BY DEF PollTypes, FrameTypes, PollLine, AnswerLine, LosePollFrame, applicationVars, slaveVars
<1>1. OneWaitedFor' /\ ConfirmedGot'
  BY <1>0 DEF OneWaitedFor, ConfirmedGot
<1>2. ASSUME NEW g PROVE (Unheard(g)' <=> Unheard(g)) /\ (Asked(g)' <=> Asked(g))
  BY <1>0 DEF Unheard, Asked, WaitedFor
<1>3. ASSUME NEW a PROVE Answered(a)' <=> Answered(a)
  BY <1>0 DEF Answered, WaitedFor
<1>4. CASE polls # <<>> /\ polls' = Tail(polls) /\ UNCHANGED answering
  <2>1. PICK p \in Seq(Polls), r \in Seq(Polls), n \in Nat \ {0} :
          p = polls /\ r = polls' /\ n = Len(polls)
    BY <1>0, <1>4, FirstTaken
  <2>2. Len(r) = n - 1 /\ \A i \in 1..(n - 1) : r[i] = p[i + 1]
    BY <1>0, <1>4, <2>1, FirstTaken
  <2>3. \A i \in 1..(n - 1) : i + 1 \in 1..n /\ \A j \in 1..(n - 1) : j # i => j + 1 # i + 1
    BY <2>1
  <2>4. \A i \in 1..n : \/ Unheard(p[i])
                        \/ /\ Asked(p[i]) /\ answering = <<>>
                           /\ \A j \in 1..n : j = i \/ Unheard(p[j])
    BY <2>1 DEF OneOnThePolledLine
  <2>5. \A i \in 1..(n - 1) : \/ Unheard(r[i])
                              \/ /\ Asked(r[i]) /\ answering = <<>>
                                 /\ \A j \in 1..(n - 1) : j = i \/ Unheard(r[j])
    BY <2>2, <2>3, <2>4
  <2>6. \A i \in 1..(n - 1) : \/ Unheard(r[i])'
                              \/ /\ Asked(r[i])' /\ answering = <<>>
                                 /\ \A j \in 1..(n - 1) : j = i \/ Unheard(r[j])'
    BY <1>2, <2>5
  <2>7. PICK w \in Seq(Answers) : w = answering /\ w = answering'
    BY <1>0, <1>4
  <2>8. Len(w) <= 1 /\ (w # <<>> => Answered(w[1])')
    BY <1>3, <2>7 DEF OneOnThePolledLine
  <2>9. OneOnThePolledLine'
    BY <2>1, <2>2, <2>6, <2>7, <2>8 DEF OneOnThePolledLine
  <2> QED
    BY <1>1, <2>9
<1>5. CASE answering # <<>> /\ answering' = Tail(answering) /\ UNCHANGED polls
  <2>1. answering' = <<>>
    <3>1. Len(answering) <= 1
      BY DEF OneOnThePolledLine
    <3>2. /\ Tail(answering) \in Seq(Answers) /\ Len(Tail(answering)) = Len(answering) - 1
          /\ Len(answering) \in Nat \ {0}
      BY <1>0, <1>5, FirstTaken
    <3>3. Len(Tail(answering)) = 0
      BY <3>1, <3>2
    <3> QED
      BY <1>5, <3>2, <3>3
  <2>2. PICK p \in Seq(Polls) : p = polls /\ p = polls'
    BY <1>0, <1>5
  <2>3. \A i \in 1..Len(p) : Unheard(p[i])
    BY <1>5, <2>2 DEF OneOnThePolledLine
  <2>4. \A i \in 1..Len(p) : Unheard(p[i])'
    BY <1>2, <2>3
  <2>5. OneOnThePolledLine'
    BY <2>1, <2>2, <2>4 DEF OneOnThePolledLine
  <2> QED
    BY <1>1, <2>5
<1> QED
  BY <1>0, <1>4, <1>5

LEMMA OneExchangeKept ==
  ASSUME PollTypes, CommandsInOrder, OneExchange, PollNext
  PROVE  OneExchange'
<1>0. FaultTypes(pollFaults)
  BY DEF PollTypes, PrimaryTypes
<1>1. SUFFICES ASSUME InTime' PROVE (OneWaitedFor /\ OneOnThePolledLine /\ ConfirmedGot)'
  BY DEF OneExchange
<1>2. ASSUME InTime PROVE OneWaitedFor /\ OneOnThePolledLine /\ ConfirmedGot
  BY <1>2 DEF OneExchange
<1>3. ASSUME UNCHANGED pollFaults PROVE InTime
  BY <1>1, <1>3 DEF InTime
<1>4. ASSUME NEW u \in Used, SendConfirmed(u) \/ RequestClass2(u) \/ TestLink(u)
      PROVE  (OneWaitedFor /\ OneOnThePolledLine /\ ConfirmedGot)'
  BY <1>2, <1>3, <1>4, CallEffect, ExchangeCall, SlavesAre
<1>5. CASE RunPolling
  <2>1. pollFaults' = pollFaults \/ AnsweredInTime
    BY <1>5, RunEffect DEF RunsFor
  <2> QED
    BY <1>0, <1>1, <1>2, <1>5, <2>1, ExchangeRun, FaultsCount
<1>6. CASE PrimaryHears
  BY <1>2, <1>3, <1>6, ExchangeHeard DEF PrimaryHears
<1>7. CASE SecondaryHears
  BY <1>2, <1>3, <1>7, ExchangeReply DEF SecondaryHears
<1>8. CASE ForeignReply
  BY <1>0, <1>1, <1>8, FaultsCount DEF ForeignReply
<1>9. CASE LosePollFrame
  BY <1>0, <1>1, <1>2, <1>9, ExchangeLost, FaultsCount DEF LosePollFrame
<1> QED
  BY <1>4, <1>5, <1>6, <1>7, <1>8, <1>9 DEF PollNext

(***************************************************************************)
(* Unbalanced: without a fault nothing is missing                          *)
(***************************************************************************)
\* The data of a class on the line q; got is all that was given before next but the line.
Lined(q, s, class) == {q[k].data : k \in {j \in DOMAIN q : IsData(q[j], s, class)}}
Whole(got, next, line) ==
  (\A k \in DOMAIN got : got[k] = k) /\ line = Len(got) + 1 .. next - 1

LEMMA LinedOne ==
  ASSUME NEW q \in Seq(Answers), NEW s, NEW class
  PROVE  /\ q = <<>> => Lined(q, s, class) = {}
         /\ Len(q) = 1 => Lined(q, s, class) = IF IsData(q[1], s, class) THEN {q[1].data} ELSE {}
<1>1. q = <<>> => DOMAIN q = {}
  OBVIOUS
<1>2. Len(q) = 1 => DOMAIN q = {1}
  <2>1. DOMAIN q = 1..Len(q)
    OBVIOUS
  <2>2. 1..1 = {1}
    OBVIOUS
  <2> QED
    BY <2>1, <2>2
<1> QED
  BY <1>1, <1>2 DEF Lined

LEMMA GatheredMore ==
  ASSUME NEW got \in Seq(Nat), NEW next \in Nat, NEW d \in Nat, Whole(got, next, {d})
  PROVE  Whole(Append(got, d), next, {})
<1>1. PICK l \in Nat : l = Len(got) /\ DOMAIN got = 1..l
  OBVIOUS
<1>2. {d} = l + 1 .. next - 1 /\ \A k \in 1..l : got[k] = k
  BY <1>1 DEF Whole
<1>3. d = l + 1 /\ next = l + 2
  <2>1. d \in l + 1 .. next - 1
    BY <1>2
  <2>2. l + 1 \in l + 1 .. next - 1 /\ next - 1 \in l + 1 .. next - 1
    BY <2>1
  <2>3. l + 1 = d /\ next - 1 = d
    BY <1>2, <2>2
  <2> QED
    BY <2>3
<1>4. PICK g \in Seq(Nat) : g = Append(got, d)
  BY Added
<1>5. /\ Len(g) = l + 1 /\ DOMAIN g = 1..(l + 1) /\ g[l + 1] = d
      /\ \A k \in 1..l : g[k] = got[k]
  <2>1. Len(g) = l + 1 /\ g[l + 1] = d /\ \A k \in 1..l : g[k] = got[k]
    BY <1>1, <1>4, Added
  <2> QED
    BY <2>1
<1>6. \A k \in 1..(l + 1) : g[k] = k
  BY <1>2, <1>3, <1>5
<1>7. {} = (l + 1) + 1 .. next - 1
  BY <1>3
<1> QED
  BY <1>4, <1>5, <1>6, <1>7 DEF Whole

LEMMA GivenMore ==
  ASSUME NEW got \in Seq(Nat), NEW next \in Nat \ {0}, Whole(got, next, {}),
         \A k \in 1..Len(got) : got[k] < next
  PROVE  Whole(got, next + 1, {next})
<1>1. PICK l \in Nat : l = Len(got) /\ DOMAIN got = 1..l
  OBVIOUS
<1>2. {} = l + 1 .. next - 1 /\ \A k \in 1..l : got[k] = k /\ got[k] < next
  BY <1>1 DEF Whole
<1>3. next = l + 1
  <2>1. next - 1 \notin l + 1 .. next - 1
    BY <1>2
  <2>2. l < next
    <3>1. CASE l = 0
      BY <3>1
    <3>2. CASE l # 0
      <4>1. l \in 1..l
        BY <3>2
      <4> QED
        BY <1>2, <4>1
    <3> QED
      BY <3>1, <3>2
  <2> QED
    BY <2>1, <2>2
<1>4. {next} = l + 1 .. (next + 1) - 1
  BY <1>3
<1> QED
  BY <1>1, <1>2, <1>4 DEF Whole

LEMMA AllGatheredKept ==
  ASSUME PollTypes, DataInOrder, OneExchange, AllGathered, PollNext
  PROVE  AllGathered'
<1>0. /\ gathered \in [Addresses -> [1..2 -> Seq(Nat)]] /\ answering \in Seq(Answers)
      /\ nextData \in [Addresses -> [1..2 -> Nat \ {0}]] /\ FaultTypes(pollFaults)
  BY DEF PollTypes, PrimaryTypes, SecondaryTypes, FrameTypes, AnswerLine
<1>a. AllGathered <=> (pollFaults.all = 0 =>
        \A s \in Addresses, class \in 1..2 :
          Whole(gathered[s][class], nextData[s][class], Lined(answering, s, class)))
  BY DEF AllGathered, Whole, Lined, OnTheLine, IsData
<1>b. AllGathered' <=> (pollFaults'.all = 0 =>
        \A s \in Addresses, class \in 1..2 :
          Whole(gathered'[s][class], nextData'[s][class], Lined(answering', s, class)))
  BY DEF AllGathered, Whole, Lined, OnTheLine, IsData
<1> SUFFICES ASSUME pollFaults'.all = 0
             PROVE  \A s \in Addresses, class \in 1..2 :
                      Whole(gathered'[s][class], nextData'[s][class], Lined(answering', s, class))
  BY <1>b
<1>1. ASSUME pollFaults.all = 0
      PROVE  /\ OneWaitedFor /\ OneOnThePolledLine
             /\ \A s \in Addresses, class \in 1..2 :
                  Whole(gathered[s][class], nextData[s][class], Lined(answering, s, class))
  <2>1. InTime
    BY <1>0, <1>1 DEF FaultTypes, InTime
  <2> QED
    BY <1>1, <1>a, <2>1 DEF OneExchange
<1>2. CASE UNCHANGED <<gathered, nextData, answering>> /\ pollFaults.all = 0
  BY <1>1, <1>2
<1>3. ASSUME NEW u \in Used, SendConfirmed(u) \/ RequestClass2(u) \/ TestLink(u)
      PROVE  UNCHANGED <<gathered, nextData, answering, pollFaults>>
  BY <1>3, CallEffect, SlavesAre DEF slaveVars
<1>4. CASE RunPolling
  <2>1. pollFaults' = pollFaults \/ AnsweredInTime
    BY <1>4, RunEffect DEF RunsFor
  <2>2. pollFaults.all = 0
    BY <1>0, <2>1, FaultsCount
  <2> QED
    BY <1>2, <1>4, <2>2 DEF RunPolling, applicationVars, slaveVars
<1>5. CASE PrimaryHears
  <2>0. /\ pollFaults.all = 0 /\ answering # <<>>
        /\ answering' = Tail(answering) /\ nextData' = nextData
    BY <1>5 DEF PrimaryHears, slaveVars
  <2>1. PICK a \in Answers : a = answering[1] /\ Answered(a) /\ (a.fc = "data" => a.class \in 1..2)
    BY <1>1, <2>0, AnswerLines DEF OneOnThePolledLine, PollTypes, FrameTypes
  <2>2. PICK s \in Addresses :
          /\ s = a.from /\ s = currentSlave
          /\ ~a.dfc /\ (a.fc = "data" => connection[s].pll = "requestRespond")
    <3>1. a.from \in Addresses
      BY AnswerFields
    <3> QED
      BY <2>1, <3>1 DEF Answered, Fits, WaitedFor
  <2>3. Len(answering) = 1 /\ answering' = <<>>
    <3>1. Len(answering) <= 1
      BY <1>1, <2>0 DEF OneOnThePolledLine
    <3>2. /\ Tail(answering) \in Seq(Answers) /\ Len(Tail(answering)) = Len(answering) - 1
          /\ Len(answering) \in Nat \ {0}
      BY <1>0, <2>0, FirstTaken
    <3>3. Len(answering) = 1 /\ Len(Tail(answering)) = 0
      BY <3>1, <3>2
    <3> QED
      BY <2>0, <3>2, <3>3
  <2>4. \A t \in Addresses, class \in 1..2 :
          /\ Lined(answering', t, class) = {}
          /\ Lined(answering, t, class) = IF IsData(a, t, class) THEN {a.data} ELSE {}
    <3>1. <<>> \in Seq(Answers)
      OBVIOUS
    <3> QED
      BY <1>0, <2>1, <2>3, <3>1, LinedOne
  <2>5. CASE a.fc = "data"
    <3>1. PICK k \in 1..2 : k = a.class
      BY <2>1, <2>5
    <3>2. \A t \in Addresses, class \in 1..2 : IsData(a, t, class) <=> t = s /\ class = k
      BY <2>2, <2>5, <3>1 DEF IsData
    <3>3. a.data # 0
      <4>1. 1 \in 1..Len(answering)
        BY <2>3
      <4>2. IsData(answering[1], s, k)
        BY <2>1, <3>2
      <4> QED
        BY <2>1, <4>1, <4>2 DEF DataInOrder, DataRises
    <3>4. gathered' = [gathered EXCEPT ![s] = [gathered[s] EXCEPT ![k] = Append(@, a.data)]]
      <4>1. s = IF a.fc = "single" THEN currentSlave ELSE a.from
        BY <2>2
      <4>2. \/ /\ gathered' = gathered
               /\ a.fc = "data" => connection[s].pll # "requestRespond" \/ a.data = 0 \/ a.dfc
            \/ gathered' = [gathered EXCEPT ![s][a.class] = Append(@, a.data)]
        BY <1>5, <2>1, <4>1, HearFrames
      <4>3. connection[s].pll = "requestRespond" /\ a.data # 0 /\ ~a.dfc
        BY <2>2, <2>5, <3>3
      <4>4. gathered' = [gathered EXCEPT ![s][k] = Append(@, a.data)]
        BY <2>5, <3>1, <4>2, <4>3
      <4> QED
        BY <4>4
    <3>5. \A t \in Addresses, class \in 1..2 :
            gathered'[t][class] = IF t = s /\ class = k THEN Append(gathered[t][class], a.data)
                                  ELSE gathered[t][class]
      BY <1>0, <3>4
    <3>6. Whole(Append(gathered[s][k], a.data), nextData[s][k], {})
      <4>1. gathered[s][k] \in Seq(Nat) /\ nextData[s][k] \in Nat /\ a.data \in Nat
        BY <1>0, AnswerFields
      <4>2. Whole(gathered[s][k], nextData[s][k], {a.data})
        BY <1>1, <2>0, <2>4, <3>2
      <4> QED
        BY <4>1, <4>2, GatheredMore
    <3>7. \A t \in Addresses, class \in 1..2 :
            ~(t = s /\ class = k) => Whole(gathered[t][class], nextData[t][class], {})
      BY <1>1, <2>0, <2>4, <3>2
    <3>8. \A t \in Addresses, class \in 1..2 : Whole(gathered'[t][class], nextData[t][class], {})
      BY <3>5, <3>6, <3>7
    <3> QED
      BY <2>0, <2>4, <3>8
  <2>6. CASE a.fc # "data"
    <3>1. gathered' = gathered
      <4>1. s = IF a.fc = "single" THEN currentSlave ELSE a.from
        BY <2>2
      <4> QED
        BY <1>5, <2>1, <2>6, <4>1, HearFrames
    <3>2. \A t \in Addresses, class \in 1..2 : ~IsData(a, t, class)
      BY <2>6 DEF IsData
    <3> TAKE t \in Addresses, class \in 1..2
    <3>3. Lined(answering', t, class) = {} /\ Lined(answering, t, class) = {}
      BY <2>4, <3>2
    <3>4. Whole(gathered[t][class], nextData[t][class], {})
      BY <1>1, <2>0, <3>3
    <3> QED
      BY <2>0, <3>1, <3>3, <3>4
  <2> QED
    BY <2>5, <2>6
<1>6. CASE SecondaryHears
  <2>0. pollFaults.all = 0 /\ polls # <<>> /\ gathered' = gathered
    BY <1>6 DEF SecondaryHears, applicationVars
  <2>1. PICK f \in Polls : f = polls[1]
    BY <2>0, PollLines DEF PollTypes, FrameTypes
  <2>2. \/ UNCHANGED <<nextData, answering>>
        \/ \E a \in Answers :
             /\ Heeded(f) /\ ReplyTo(f, a) /\ answering' = Append(answering, a)
             /\ a.fc # "data" => nextData' = nextData
             /\ a.fc = "data" =>
                  /\ a.class = f.class /\ a.class # 0 /\ a.data = nextData[f.to][f.class]
                  /\ nextData' = [nextData EXCEPT ![f.to][f.class] = @ + 1]
    BY <1>6, <2>1, SecondaryEffect
  <2>3. CASE UNCHANGED <<nextData, answering>>
    BY <1>2, <2>0, <2>3
  <2>4. ASSUME NEW a \in Answers, Heeded(f), ReplyTo(f, a), answering' = Append(answering, a),
               a.fc # "data" => nextData' = nextData,
               a.fc = "data" =>
                 /\ a.class = f.class /\ a.class # 0 /\ a.data = nextData[f.to][f.class]
                 /\ nextData' = [nextData EXCEPT ![f.to][f.class] = @ + 1]
        PROVE  \A s \in Addresses, class \in 1..2 :
                 Whole(gathered'[s][class], nextData'[s][class], Lined(answering', s, class))
    <3>1. answering = <<>>
      <4>1. ~Unheard(f)
        BY <2>4 DEF Unheard, Heeded
      <4>2. 1 \in 1..Len(polls)
        BY <2>0, FirstTaken DEF PollTypes, FrameTypes, PollLine
      <4> QED
        BY <1>1, <2>0, <2>1, <4>1, <4>2 DEF OneOnThePolledLine
    <3>2. \A t \in Addresses, class \in 1..2 :
            /\ Lined(answering, t, class) = {}
            /\ Lined(answering', t, class) = IF IsData(a, t, class) THEN {a.data} ELSE {}
      <4>1. <<a>> \in Seq(Answers) /\ answering' = <<a>> /\ Len(<<a>>) = 1 /\ <<a>>[1] = a
        BY <2>4, <3>1
      <4> QED
        BY <1>0, <3>1, <4>1, LinedOne
    <3>3. CASE a.fc # "data"
      BY <1>1, <2>0, <2>4, <3>2, <3>3 DEF IsData
    <3>4. CASE a.fc = "data"
      <4>1. PICK u \in Addresses, k \in 1..2 : u = f.to /\ k = f.class
        BY <2>4, <3>4, AnswerFields, PollFields
      <4>2. a.from = u /\ a.class = k /\ a.data = nextData[u][k]
        BY <2>4, <3>4, <4>1 DEF ReplyTo
      <4>3. \A t \in Addresses, class \in 1..2 : IsData(a, t, class) <=> t = u /\ class = k
        BY <3>4, <4>2 DEF IsData
      <4>4. \A t \in Addresses, class \in 1..2 :
              nextData'[t][class] = IF t = u /\ class = k THEN nextData[t][class] + 1
                                    ELSE nextData[t][class]
        <5>1. nextData' = [nextData EXCEPT ![u] = [nextData[u] EXCEPT ![k] = @ + 1]]
          BY <2>4, <3>4, <4>1
        <5> QED
          BY <1>0, <5>1
      <4>5. Whole(gathered[u][k], nextData[u][k] + 1, {nextData[u][k]})
        <5>1. gathered[u][k] \in Seq(Nat) /\ nextData[u][k] \in Nat \ {0}
          BY <1>0
        <5>2. Whole(gathered[u][k], nextData[u][k], {})
          BY <1>1, <2>0, <3>2
        <5>3. \A j \in 1..Len(gathered[u][k]) : gathered[u][k][j] < nextData[u][k]
          BY DEF DataInOrder, DataRises
        <5> QED
          BY <5>1, <5>2, <5>3, GivenMore
      <4>6. \A t \in Addresses, class \in 1..2 : Whole(gathered[t][class], nextData[t][class], {})
        BY <1>1, <2>0, <3>2
      <4>7. \A t \in Addresses, class \in 1..2 :
              Whole(gathered[t][class], nextData'[t][class],
                    IF t = u /\ class = k THEN {nextData[u][k]} ELSE {})
        BY <4>4, <4>5, <4>6
      <4> TAKE t \in Addresses, class \in 1..2
      <4>8. CASE t = u /\ class = k
        <5>1. Lined(answering', t, class) = {nextData[u][k]}
          BY <3>2, <4>2, <4>3, <4>8
        <5> QED
          BY <2>0, <4>7, <4>8, <5>1
      <4>9. CASE ~(t = u /\ class = k)
        <5>1. Lined(answering', t, class) = {}
          BY <3>2, <4>3, <4>9
        <5> QED
          BY <2>0, <4>7, <4>9, <5>1
      <4> QED
        BY <4>8, <4>9
    <3> QED
      BY <3>3, <3>4
  <2> QED
    BY <2>2, <2>3, <2>4
<1>7. ~ForeignReply /\ ~LosePollFrame
  <2>1. ForeignReply \/ LosePollFrame => pollFaults'.all # 0
    <3>1. PICK n \in [all : Nat, late : Nat, foreign : Nat] : n = pollFaults
      BY <1>0 DEF FaultTypes
    <3>2. ForeignReply \/ LosePollFrame =>
            \/ pollFaults' = [n EXCEPT !.all = @ + 1]
            \/ pollFaults' = [n EXCEPT !.all = @ + 1, !.foreign = @ + 1]
      BY <3>1 DEF ForeignReply, LosePollFrame
    <3> QED
      BY <3>2, FaultAdded
  <2> QED
    BY <2>1
<1> QED
  BY <1>2, <1>3, <1>4, <1>5, <1>6, <1>7 DEF PollNext

-----------------------------------------------------------------------------
LEMMA PollInvInit == PollInit => PollInv
<1> SUFFICES ASSUME PollInit PROVE PollInv
  OBVIOUS
<1>0. \A s \in Addresses :
        /\ connection[s] = [pll |-> "idle", waiting |-> FALSE, message |-> 0, test |-> FALSE,
                            class1 |-> FALSE, class2 |-> FALSE, fcb |-> TRUE, repeats |-> 0]
        /\ nextCommand[s] = 1 /\ commanded[s] = <<>> /\ confirmedTo[s] = {}
  BY DEF PollInit
<1>1. PrimaryTypes
  <2>1. connection \in [Addresses -> SlaveConnection]
    <3>1. [pll |-> "idle", waiting |-> FALSE, message |-> 0, test |-> FALSE,
           class1 |-> FALSE, class2 |-> FALSE, fcb |-> TRUE, repeats |-> 0] \in SlaveConnection
      BY DEF SlaveConnection
    <3> QED
      BY <3>1 DEF PollInit
  <2>2. currentSlave = 0 /\ currentIndex \in 1..Len(Slaves)
    BY SlavesAre DEF PollInit
  <2>3. nextCommand \in [Addresses -> Nat \ {0}] /\ confirmedTo \in [Addresses -> SUBSET Nat]
    BY DEF PollInit
  <2>4. gathered \in [Addresses -> [1..2 -> Seq(Nat)]]
    <3>1. ASSUME NEW q \in Seq(Nat) PROVE <<q, q>> \in [1..2 -> Seq(Nat)]
      OBVIOUS
    <3>2. <<>> \in Seq(Nat)
      OBVIOUS
    <3> QED
      BY <3>1, <3>2 DEF PollInit
  <2>5. FaultTypes(pollFaults)
    BY DEF PollInit, FaultTypes
  <2> QED
    BY <2>1, <2>2, <2>3, <2>4, <2>5 DEF PrimaryTypes
<1>2. SecondaryTypes
  <2>1. nextData \in [Addresses -> [1..2 -> Nat \ {0}]]
    <3>1. <<1, 1>> \in [1..2 -> Nat \ {0}]
      OBVIOUS
    <3> QED
      BY <3>1 DEF PollInit
  <2>2. commanded \in [Addresses -> Seq(Nat)] /\ slaveFcb \in [Addresses -> BOOLEAN]
    BY DEF PollInit
  <2> QED
    BY <2>1, <2>2 DEF SecondaryTypes
<1>3. polls = <<>> /\ answering = <<>> /\ 1..0 = {} /\ Len(<<>>) = 0
  BY DEF PollInit
<1>4. FrameTypes
  BY <1>3 DEF FrameTypes, PollLine, AnswerLine
<1>5. CommandsInOrder
  <2>1. Rising(<<>>)
    BY DEF Rising
  <2>2. ASSUME NEW s \in Addresses
        PROVE  /\ Waits(connection[s], nextCommand[s])
               /\ Commands(polls, s, commanded[s], nextCommand[s])
    BY <1>0, <1>3, <2>1 DEF Waits, Commands
  <2> QED
    BY <2>2 DEF CommandsInOrder
<1>6. \A s \in Addresses, class \in 1..2 : gathered[s][class] = <<>> /\ nextData[s][class] = 1
  BY DEF PollInit
<1>7. DataInOrder
  <2>1. Rising(<<>>)
    BY DEF Rising
  <2> QED
    BY <1>3, <1>6, <2>1 DEF DataInOrder, DataRises
<1>8. OneExchange
  BY <1>0, <1>3 DEF OneExchange, OneWaitedFor, OneOnThePolledLine, ConfirmedGot, Tested
<1>9. AllGathered
  <2>1. \A s \in Addresses, class \in 1..2 : OnTheLine(s, class) = {}
    BY <1>3 DEF OnTheLine
  <2>2. {} = 0 + 1 .. 1 - 1 /\ DOMAIN <<>> = {}
    OBVIOUS
  <2> QED
    BY <1>3, <1>6, <2>1, <2>2 DEF AllGathered
<1> QED
  BY <1>1, <1>2, <1>4, <1>5, <1>7, <1>8, <1>9 DEF PollInv, PollTypes

LEMMA PollInvStutters == PollInv /\ UNCHANGED pollVars => PollInv'
<1> SUFFICES ASSUME PollInv, UNCHANGED pollVars PROVE PollInv'
  OBVIOUS
<1>1. PollTypes'
  BY DEF pollVars, applicationVars, slaveVars, PollInv, PollTypes, PrimaryTypes, SecondaryTypes,
         FrameTypes
<1>2. CommandsInOrder'
  BY DEF pollVars, applicationVars, slaveVars, PollInv, CommandsInOrder
<1>3. DataInOrder'
  BY DEF pollVars, applicationVars, slaveVars, PollInv, DataInOrder
<1>4. OneExchange'
  BY DEF pollVars, applicationVars, slaveVars, PollInv, OneExchange, InTime, OneWaitedFor,
         OneOnThePolledLine, ConfirmedGot, Unheard, Asked, Answered, WaitedFor
<1>5. AllGathered'
  BY DEF pollVars, applicationVars, slaveVars, PollInv, AllGathered, OnTheLine
<1> QED
  BY <1>1, <1>2, <1>3, <1>4, <1>5 DEF PollInv

LEMMA PollInvDelivers == PollInv => PollsDeliver
<1> SUFFICES ASSUME PollInv PROVE GatheredOnce /\ CommandsArrive
  BY DEF PollsDeliver
<1>1. GatheredOnce
  BY DEF PollInv, DataInOrder, DataRises, AllGathered, GatheredOnce
<1>2. ASSUME NEW s \in Addresses PROVE DOMAIN commanded[s] = 1..Len(commanded[s])
  BY DEF PollInv, PollTypes, SecondaryTypes
<1>3. CommandsArrive
  BY <1>2 DEF PollInv, CommandsInOrder, Commands, OneExchange, InTime, ConfirmedGot, Has,
              CommandsArrive
<1> QED
  BY <1>1, <1>3

\* The polled line of UnbalancedLink keeps its service, PollsDeliver, for any slaves: user data
\* comes in order and once, all of it while there is no fault; messages arrive in order, and
\* those that are confirmed did arrive as long as answers come in time.
THEOREM PollsCorrect == PollSpec => []PollsDeliver
<1>1. PollInv /\ [PollNext]_pollVars => PollInv'
  BY PollInvStutters, PollTypesKept, CommandsInOrderKept, DataInOrderKept, OneExchangeKept,
     AllGatheredKept DEF PollInv
<1> QED
  BY <1>1, PollInvInit, PollInvDelivers, PTL DEF PollSpec
=============================================================================
