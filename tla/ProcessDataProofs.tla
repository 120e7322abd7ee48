-------------------------- MODULE ProcessDataProofs --------------------------
(***************************************************************************)
(* Proofs about the process image of the modular server and the picture    *)
(* the station has of it, for every set of objects, values, deadband,      *)
(* offline period and queue length.                                        *)
(***************************************************************************)
EXTENDS ProcessData, WellFoundedInduction, TLAPS

(***************************************************************************)
(* The inductive invariant                                                 *)
(***************************************************************************)
Event == UNION {[told -> Nat] : told \in SUBSET Ioa}

\* An object whose picture is claimed to be right.
Claimed(a) == a \notin silent /\ ~InFlight(a)

\* The last event that tells of an object is within the deadband of the image, and so is
\* what the station knows when no event does.
PictureFromQueue ==
  \A a \in Ioa : Claimed(a) =>
    \A i \in DOMAIN queue :
      a \in DOMAIN queue[i] /\ ~Tells(i + 1, a) => WithinDeadband(a, value[a], queue[i][a])
\* On a connection it need only be told by what was sent already: the station has that.
Known(a) == IF link = "up" THEN ~Tells(sent + 1, a) ELSE ~Tells(1, a)
PictureFromSeen ==
  \A a \in Ioa : Claimed(a) /\ Known(a) /\ seen[a] # NoData =>
    WithinDeadband(a, value[a], seen[a])
\* The update on its way is the value of the image, unless a reset came in between.
PictureFromInput ==
  /\ input.pc = "decide" /\ input.ioa \notin silent => value[input.ioa] = input.value
  /\ input.pc = "enqueue" /\ input.ioa \notin silent =>
       WithinDeadband(input.ioa, value[input.ioa], input.value)
Picture ==
  /\ PictureFromQueue /\ PictureFromSeen /\ PictureFromInput
  /\ link = "none" => sent = 0

ImageTypes ==
  /\ value \in [Ioa -> Nat]
  /\ typed \in [Ioa -> BOOLEAN]
  /\ quality \in [Ioa -> Quality \cup {Good, Invalid}]
  /\ field \in [Ioa -> [value : Nat, quality : Quality] \cup {NoData}]
ThreadTypes ==
  /\ tracker \in [Ioa -> 0..Period]
  /\ input \in Update \cup {Idle}
  /\ handler \in [kind : {"interrogation", "reset"}, todo : SUBSET Configured]
                 \cup {NoHandler}
  /\ due \subseteq PeriodicTypes
  /\ link \in {"none", "up", "down"}
  /\ handler # NoHandler => link # "none"
QueueTypes ==
  /\ queue \in Seq(Event) /\ Len(queue) <= Cap /\ sent \in 0..Len(queue)
  /\ silent \subseteq Ioa
SeenTypes == seen \in [Ioa -> Nat \cup {NoData}]
Types == ImageTypes /\ ThreadTypes /\ QueueTypes /\ SeenTypes

ProcessInv == Types /\ Picture

(***************************************************************************)
(* Types                                                                   *)
(***************************************************************************)
\* The parts above are TypeOK, with the queue as a sequence.
LEMMA TypesOK == Types => TypeOK
<1> SUFFICES ASSUME Types  PROVE TypeOK
  OBVIOUS
<1>1. ASSUME NEW i \in 1 .. Len(queue)
      PROVE  IsEvent(queue[i])
  <2>1. queue[i] \in Event
    BY <1>1 DEF Types, QueueTypes
  <2>2. PICK told \in SUBSET Ioa : queue[i] \in [told -> Nat]
    BY <2>1 DEF Event
  <2> QED
    BY <2>2 DEF IsEvent
<1>2. QueueTypes /\ ImageTypes /\ ThreadTypes /\ SeenTypes
  BY DEF Types
<1>3. /\ Len(queue) <= Cap /\ \A i \in 1 .. Len(queue) : IsEvent(queue[i])
      /\ sent \in 0..Len(queue) /\ silent \subseteq Ioa
  BY <1>1, <1>2 DEF QueueTypes
<1> QED
  BY <1>2, <1>3 DEF TypeOK, ImageTypes, ThreadTypes, SeenTypes

\* An event of some objects.
LEMMA EventTyped ==
  ASSUME NEW e, NEW told \in SUBSET Ioa, e \in [told -> Nat]
  PROVE  e \in Event
  BY DEF Event

\* A queue without its first event.
LEMMA HeadTaken ==
  ASSUME NEW S, NEW q \in Seq(S), q # <<>>
  PROVE  /\ Tail(q) \in Seq(S) /\ Len(Tail(q)) = Len(q) - 1 /\ Head(q) \in S /\ Head(q) = q[1]
         /\ \A i \in 1 .. Len(q) - 1 : Tail(q)[i] = q[i + 1]
  OBVIOUS

\* The queue keeps its length and the place up to which it was sent.
LEMMA EnqueueTyped ==
  ASSUME QueueTypes, NEW e \in Event, NEW told, EnqueueEvent(e, told)
  PROVE  QueueTypes'
<1>1. queue \in Seq(Event) /\ Len(queue) <= Cap /\ sent \in 0 .. Len(queue) /\ silent \subseteq Ioa
  BY DEF QueueTypes
<1>2. Cap \in Nat \ {0}
  BY ProcessAssumption
<1>3. PICK n \in Nat : n = Len(queue)
  BY <1>1
<1>4. CASE n < Cap
  <2>1. queue' = Append(queue, e) /\ silent' \subseteq silent /\ sent' = sent
    BY <1>3, <1>4 DEF EnqueueEvent
  <2>2. queue' \in Seq(Event) /\ Len(queue') = n + 1
    BY <1>1, <1>3, <2>1
  <2> QED
    BY <1>1, <1>2, <1>3, <1>4, <2>1, <2>2 DEF QueueTypes
<1>5. CASE ~(n < Cap)
  <2>1. /\ queue' = Append(Tail(queue), e)
        /\ sent' = IF sent > 0 THEN sent - 1 ELSE 0
        /\ silent' \subseteq silent \cup DOMAIN Head(queue)
    BY <1>3, <1>5 DEF EnqueueEvent
  <2>2. n = Cap /\ queue # <<>>
    BY <1>1, <1>2, <1>3, <1>5
  <2>3. Tail(queue) \in Seq(Event) /\ Len(Tail(queue)) = n - 1 /\ Head(queue) \in Event
    BY <1>1, <1>3, <2>2, HeadTaken
  <2>4. queue' \in Seq(Event) /\ Len(queue') = n
    BY <1>2, <1>3, <2>1, <2>2, <2>3
  <2>5. DOMAIN Head(queue) \subseteq Ioa
    BY <2>3 DEF Event
  <2> QED
    BY <1>1, <1>2, <1>3, <2>1, <2>2, <2>4, <2>5 DEF QueueTypes
<1> QED
  BY <1>4, <1>5

\* Every step keeps the types of the image.
LEMMA ImageTypesStep ==
  ASSUME Types, [Next]_vars
  PROVE  ImageTypes'
<1>1. ImageTypes /\ input \in Update \cup {Idle}
  BY DEF Types, ThreadTypes
<1>2. CASE UNCHANGED <<image, field>>
  BY <1>1, <1>2 DEF ImageTypes, image
<1>3. CASE Store
  <2>1. input.ioa \in Ioa /\ input.value \in Nat /\ input.quality \in Quality
    BY <1>1, <1>3 DEF Store, Update, Idle
  <2> QED
    BY <1>1, <1>3, <2>1 DEF Store, ImageTypes, image
<1>4. ASSUME NEW t \in Configured, Reset(t)
      PROVE  ImageTypes'
  <2>1. \A a \in Ioa : IsBool(a) \in BOOLEAN
    BY DEF IsBool
  <2> QED
    BY <1>1, <1>4, <2>1 DEF Reset, ImageTypes
<1>5. CASE UNCHANGED vars
  BY <1>2, <1>5 DEF vars
<1> QED
  BY <1>2, <1>3, <1>4, <1>5 DEF Next, Line, Gate, Decide, EnqueueUpdate, Connect, Break, ThreadEnds,
     SendEvent, ConfirmEvent, Command, Answer, PeriodicRound, SkipPeriodic, SendPeriodic, Tick

\* Every step keeps the types of what the station saw.
LEMMA SeenTypesStep ==
  ASSUME Types, [Next]_vars
  PROVE  SeenTypes'
<1>1. SeenTypes /\ QueueTypes /\ ImageTypes
  BY DEF Types
<1>2. CASE UNCHANGED seen
  BY <1>1, <1>2 DEF SeenTypes
<1>3. ASSUME NEW e \in Event, Received(e)
      PROVE  SeenTypes'
  <2>1. \A a \in DOMAIN e : e[a] \in Nat
    BY DEF Event
  <2> QED
    BY <1>1, <1>3, <2>1 DEF Received, SeenTypes
<1>4. CASE SendEvent
  <2>1. queue[sent + 1] \in Event
    BY <1>1, <1>4 DEF SendEvent, QueueTypes
  <2> QED
    BY <1>2, <1>3, <1>4, <2>1 DEF SendEvent
<1>5. ASSUME NEW t \in Configured, Answer(t)
      PROVE  SeenTypes'
  <2>1. [a \in Objects(t) |-> value[a]] \in [Objects(t) -> Nat] /\ Objects(t) \in SUBSET Ioa
    BY <1>1 DEF Objects, ImageTypes
  <2>2. [a \in Objects(t) |-> value[a]] \in Event
    BY <2>1, EventTyped
  <2> QED
    BY <1>2, <1>3, <1>5, <2>2 DEF Answer
<1>6. CASE UNCHANGED vars
  BY <1>2, <1>6 DEF vars, slave
<1> QED
  BY <1>2, <1>4, <1>5, <1>6 DEF Next, Line, Gate, Store, Decide, EnqueueUpdate, Connect, Break,
     ThreadEnds, ConfirmEvent, Command, Reset, PeriodicRound, SkipPeriodic, SendPeriodic, Tick, slave

\* Every step keeps the types of the queue and the place up to which it was sent.
LEMMA QueueTypesStep ==
  ASSUME Types, [Next]_vars
  PROVE  QueueTypes'
<1>1. /\ queue \in Seq(Event) /\ Len(queue) <= Cap /\ sent \in 0 .. Len(queue)
      /\ silent \subseteq Ioa /\ ImageTypes /\ QueueTypes /\ input \in Update \cup {Idle}
  BY DEF Types, QueueTypes, ThreadTypes
<1>2. CASE UNCHANGED <<queue, sent>> /\ silent' \subseteq Ioa
  BY <1>1, <1>2 DEF QueueTypes
<1>3. CASE Store \/ Decide
  <2>1. input.pc = "decide" => input.ioa \in Ioa
    BY <1>1 DEF Update, Idle
  <2>2. silent' \subseteq Ioa
    BY <1>1, <1>3, <2>1 DEF Store, Decide
  <2> QED
    BY <1>2, <1>3, <2>2 DEF Store, Decide, slave
<1>4. CASE EnqueueUpdate
  <2>1. input.ioa \in Ioa /\ input.value \in Nat
    BY <1>1, <1>4 DEF EnqueueUpdate, Update, Idle
  <2>2. [b \in {input.ioa} |-> input.value] \in Event
    BY <2>1, EventTyped
  <2> QED
    BY <1>1, <1>4, <2>2, EnqueueTyped DEF EnqueueUpdate
<1>5. CASE ThreadEnds
  BY <1>1, <1>5 DEF ThreadEnds, QueueTypes
<1>6. CASE SendEvent
  BY <1>1, <1>6 DEF SendEvent, QueueTypes
<1>7. CASE ConfirmEvent
  <2>1. queue' = Tail(queue) /\ sent' = sent - 1 /\ sent > 0 /\ silent' = silent
    BY <1>7 DEF ConfirmEvent
  <2>2. PICK n \in Nat : n = Len(queue)
    BY <1>1
  <2>3. queue # <<>>
    BY <1>1, <2>1
  <2>4. queue' \in Seq(Event) /\ Len(queue') = n - 1
    BY <1>1, <2>1, <2>2, <2>3
  <2> QED
    BY <1>1, <2>1, <2>2, <2>4, ProcessAssumption DEF QueueTypes
<1>8. ASSUME NEW t \in Configured, Answer(t) \/ Reset(t)
      PROVE  QueueTypes'
  <2>1. silent' \subseteq Ioa
    BY <1>1, <1>8 DEF Answer, Reset, Objects
  <2> QED
    BY <1>2, <1>8, <2>1 DEF Answer, Reset, slave
<1>9. ASSUME NEW t \in PeriodicTypes, SendPeriodic(t)
      PROVE  QueueTypes'
  <2>1. [a \in Objects(t) |-> value[a]] \in [Objects(t) -> Nat] /\ Objects(t) \in SUBSET Ioa
    BY <1>1 DEF Objects, ImageTypes
  <2>2. [a \in Objects(t) |-> value[a]] \in Event
    BY <2>1, EventTyped
  <2> QED
    BY <1>1, <1>9, <2>2, EnqueueTyped DEF SendPeriodic
<1>10. CASE UNCHANGED <<slave, silent>>
  BY <1>1, <1>2, <1>10 DEF slave
<1>11. CASE UNCHANGED vars
  BY <1>10, <1>11 DEF vars
<1> QED
  BY <1>3, <1>4, <1>5, <1>6, <1>7, <1>8, <1>9, <1>10, <1>11 DEF Next, Line, Gate, Connect, Break,
     Command, PeriodicRound, SkipPeriodic, Tick

\* Every step keeps the types of the threads.
LEMMA ThreadTypesStep ==
  ASSUME Types, [Next]_vars
  PROVE  ThreadTypes'
<1>1. /\ tracker \in [Ioa -> 0..Period] /\ input \in Update \cup {Idle}
      /\ handler \in [kind : {"interrogation", "reset"}, todo : SUBSET Configured] \cup {NoHandler}
      /\ due \subseteq PeriodicTypes /\ link \in {"none", "up", "down"}
      /\ handler # NoHandler => link # "none"
  BY DEF Types, ThreadTypes
<1>2. Period \in Nat \ {0} /\ \A a \in Ioa : Value[a] \subseteq Nat
  BY ProcessAssumption
<1>3. ASSUME NEW a \in Ioa, NEW q \in Quality, NEW v \in Value[a], Line(a, v, q)
      PROVE  ThreadTypes'
  <2>1. v \in Nat
    BY <1>2
  <2>2. input' \in Update
    BY <1>3, <2>1 DEF Line, Update
  <2> QED
    BY <1>1, <1>3, <2>2 DEF Line, ThreadTypes
<1>4. CASE Gate
  <2>1. input \in Update /\ input.ioa \in Ioa
    BY <1>1, <1>4 DEF Gate, Update, Idle
  <2>2. \E allowed \in BOOLEAN : input' = [input EXCEPT !.pc = "store", !.offline = allowed]
    <3>1. (DeadbandPassed(input.ioa, input.value) /\ tracker[input.ioa] = Period) \in BOOLEAN
      OBVIOUS
    <3> QED
      BY <1>4, <3>1 DEF Gate
  <2>3. input' \in Update
    BY <2>1, <2>2 DEF Update
  <2>4. tracker' \in [Ioa -> 0 .. Period]
    BY <1>1, <1>2, <1>4, <2>1 DEF Gate
  <2> QED
    BY <1>1, <1>4, <2>3, <2>4 DEF Gate, ThreadTypes
<1>5. CASE Store
  <2>1. input \in Update
    BY <1>1, <1>5 DEF Store, Idle
  <2>2. input' \in Update \cup {Idle}
    BY <1>5, <2>1 DEF Store, Update
  <2> QED
    BY <1>1, <1>5, <2>2 DEF Store, ThreadTypes
<1>6. CASE Decide
  <2>1. input \in Update
    BY <1>1, <1>6 DEF Decide, Idle
  <2>2. input' \in Update \cup {Idle}
    BY <1>6, <2>1 DEF Decide, Update
  <2>3. tracker' = [tracker EXCEPT ![input.ioa] = 0] \/ tracker' = tracker
    BY <1>6 DEF Decide
  <2>4. tracker' \in [Ioa -> 0 .. Period]
    BY <1>1, <1>2, <2>3
  <2> QED
    BY <1>1, <1>6, <2>2, <2>4 DEF Decide, ThreadTypes
<1>7. CASE EnqueueUpdate
  BY <1>1, <1>7 DEF EnqueueUpdate, ThreadTypes
<1>8. CASE Connect \/ Break \/ ThreadEnds
  BY <1>1, <1>8 DEF Connect, Break, ThreadEnds, ThreadTypes
<1>9. ASSUME NEW kind \in {"interrogation", "reset"}, Command(kind)
      PROVE  ThreadTypes'
  BY <1>1, <1>9 DEF Command, ThreadTypes
<1>10. ASSUME NEW t \in Configured, Answer(t) \/ Reset(t)
       PROVE  ThreadTypes'
  <2>1. handler \in [kind : {"interrogation", "reset"}, todo : SUBSET Configured]
    BY <1>1, <1>10 DEF Answer, Reset, NoHandler
  <2>2. /\ handler' \in [kind : {"interrogation", "reset"}, todo : SUBSET Configured]
                        \cup {NoHandler}
        /\ UNCHANGED <<tracker, input, due, link>>
    BY <1>10, <2>1 DEF Answer, Reset, HandlerDone
  <2>3. handler # NoHandler
    BY <1>10 DEF Answer, Reset, NoHandler
  <2> QED
    BY <1>1, <2>2, <2>3 DEF ThreadTypes
<1>11. CASE PeriodicRound \/ \E t \in PeriodicTypes : SkipPeriodic(t) \/ SendPeriodic(t)
  BY <1>1, <1>11 DEF PeriodicRound, SkipPeriodic, SendPeriodic, ThreadTypes
<1>12. CASE Tick
  <2>1. tracker' \in [Ioa -> 0 .. Period]
    BY <1>1, <1>2, <1>12 DEF Tick
  <2> QED
    BY <1>1, <1>12, <2>1 DEF Tick, ThreadTypes
<1>13. CASE SendEvent \/ ConfirmEvent \/ UNCHANGED vars
  BY <1>1, <1>13 DEF SendEvent, ConfirmEvent, vars, ThreadTypes
<1> QED
  BY <1>3, <1>4, <1>5, <1>6, <1>7, <1>8, <1>9, <1>10, <1>11, <1>12, <1>13 DEF Next

(***************************************************************************)
(* The picture                                                             *)
(***************************************************************************)
\* A value is within the deadband of itself.
LEMMA DeadbandReflexive ==
  ASSUME NEW a \in Ioa, NEW v \in Nat
  PROVE  WithinDeadband(a, v, v)
<1>1. Deadband \in Nat
  BY ProcessAssumption
<1>2. Distance(v, v) = 0
  BY DEF Distance
<1>3. v * Deadband \in Nat
  BY <1>1
<1>4. 100 * Distance(v, v) <= v * Deadband
  BY <1>2, <1>3
<1> QED
  BY <1>4 DEF WithinDeadband

PictureKept == PictureFromQueue /\ PictureFromSeen /\ (link = "none" => sent = 0)

\* A step that leaves the queue, the station and what they claim to know as they are.
LEMMA CalmStep ==
  ASSUME PictureKept, UNCHANGED <<queue, seen>>,
         \A a \in Ioa : Claimed(a)' => Claimed(a) /\ value'[a] = value[a],
         \A a \in Ioa : Known(a)' => Known(a),
         link' = "none" => sent' = 0
  PROVE  PictureKept'
<1>1. \A i, a : Tells(i, a)' <=> Tells(i, a)
  BY DEF Tells
<1>2. PictureFromQueue'
  BY <1>1 DEF PictureKept, PictureFromQueue, WithinDeadband
<1>3. PictureFromSeen'
  BY DEF PictureKept, PictureFromSeen, WithinDeadband
<1> QED
  BY <1>2, <1>3 DEF PictureKept

\* An event is put into the queue; what it tells is within the deadband.
LEMMA EnqueueStep ==
  ASSUME QueueTypes, link \in {"none", "up", "down"}, PictureKept,
         NEW e \in Event, NEW told \in SUBSET DOMAIN e, EnqueueEvent(e, told),
         UNCHANGED <<value, seen, link>>,
         \A a \in DOMAIN e : Claimed(a)' => WithinDeadband(a, value[a], e[a]),
         \A a \in Ioa \ DOMAIN e : InFlight(a) => InFlight(a)'
  PROVE  PictureKept'
<1>1. queue \in Seq(Event) /\ Len(queue) <= Cap /\ sent \in 0 .. Len(queue) /\ silent \subseteq Ioa
  BY DEF QueueTypes
<1>2. Cap \in Nat \ {0}
  BY ProcessAssumption
<1>3. PICK n \in Nat : n = Len(queue)
  BY <1>1
<1>4. DOMAIN queue = 1 .. n /\ sent \in 0 .. n
  BY <1>1, <1>3
<1>5. DOMAIN e \subseteq Ioa
  BY DEF Event
<1>6. CASE n < Cap
  <2>1. queue' = Append(queue, e) /\ silent' = silent \ told /\ sent' = sent
    BY <1>3, <1>6 DEF EnqueueEvent
  <2>2. /\ Len(queue') = n + 1 /\ DOMAIN queue' = 1 .. n + 1
        /\ \A j \in 1 .. n : queue'[j] = queue[j]
        /\ queue'[n + 1] = e
    BY <1>1, <1>3, <2>1
  <2>3. ASSUME NEW a \in Ioa \ DOMAIN e
        PROVE  Claimed(a)' => Claimed(a)
    BY <2>1, <2>3 DEF Claimed
  <2>4. ASSUME NEW a \in DOMAIN e, NEW i \in Int, i <= n + 1
        PROVE  Tells(i, a)'
    <3>1. n + 1 \in i .. Len(queue') /\ a \in DOMAIN queue'[n + 1]
      BY <2>2, <2>4
    <3> QED
      BY <3>1 DEF Tells
  <2>5. ASSUME NEW a, NEW i \in Nat \ {0}, Tells(i, a)
        PROVE  Tells(i, a)'
    <3>1. PICK j \in i .. n : a \in DOMAIN queue[j]
      BY <1>3, <2>5 DEF Tells
    <3>2. j \in i .. Len(queue') /\ queue'[j] = queue[j]
      BY <2>2
    <3> QED
      BY <3>1, <3>2 DEF Tells
  <2>6. PictureFromQueue'
    <3>1. SUFFICES ASSUME NEW a \in Ioa, Claimed(a)', NEW i \in 1 .. n + 1,
                          a \in DOMAIN queue'[i], ~Tells(i + 1, a)'
                   PROVE  WithinDeadband(a, value[a], queue'[i][a])
      BY <2>2 DEF PictureFromQueue, WithinDeadband
    <3>2. CASE a \in DOMAIN e
      <4>1. i = n + 1
        BY <2>4, <3>1, <3>2
      <4> QED
        BY <2>2, <3>1, <3>2, <4>1
    <3>3. CASE a \notin DOMAIN e
      <4>1. i \in 1 .. n /\ queue'[i] = queue[i]
        BY <2>2, <3>1, <3>3
      <4>2. Claimed(a) /\ ~Tells(i + 1, a)
        BY <2>3, <2>5, <3>1, <3>3, <4>1
      <4> QED
        BY <1>4, <3>1, <4>1, <4>2 DEF PictureKept, PictureFromQueue
    <3> QED
      BY <3>2, <3>3
  <2>7. PictureFromSeen'
    <3>1. SUFFICES ASSUME NEW a \in Ioa, Claimed(a)', Known(a)', seen[a] # NoData
                   PROVE  WithinDeadband(a, value[a], seen[a])
      BY DEF PictureFromSeen, WithinDeadband
    <3>2. a \notin DOMAIN e
      BY <1>4, <2>1, <2>4, <3>1 DEF Known
    <3>3. Claimed(a) /\ Known(a)
      BY <1>4, <2>1, <2>3, <2>5, <3>1, <3>2 DEF Known
    <3> QED
      BY <3>1, <3>3 DEF PictureKept, PictureFromSeen
  <2> QED
    BY <2>1, <2>6, <2>7 DEF PictureKept
<1>7. CASE ~(n < Cap)
  <2>1. /\ queue' = Append(Tail(queue), e)
        /\ sent' = IF sent > 0 THEN sent - 1 ELSE 0
        /\ silent' = (silent \cup
             (IF sent > 0 /\ link = "up" THEN {}
              ELSE {a \in DOMAIN Head(queue) : ~Tells(2, a) /\ a \notin DOMAIN e})) \ told
    BY <1>3, <1>7 DEF EnqueueEvent
  <2>2. queue # <<>> /\ n \in Nat \ {0}
    BY <1>1, <1>2, <1>3, <1>7
  <2>3. /\ Tail(queue) \in Seq(Event) /\ Len(Tail(queue)) = n - 1 /\ Head(queue) = queue[1]
        /\ \A j \in 1 .. n - 1 : Tail(queue)[j] = queue[j + 1]
    BY <1>1, <1>3, <2>2, HeadTaken
  <2>4. /\ Len(queue') = n /\ DOMAIN queue' = 1 .. n /\ queue'[n] = e
        /\ \A j \in 1 .. n - 1 : queue'[j] = queue[j + 1]
    BY <2>1, <2>2, <2>3
  <2>5. ASSUME NEW a \in Ioa \ DOMAIN e, Claimed(a)'
        PROVE  /\ Claimed(a)
               /\ ~(sent > 0 /\ link = "up") /\ a \in DOMAIN queue[1] => Tells(2, a)
    BY <2>1, <2>3, <2>5 DEF Claimed
  <2>6. ASSUME NEW a \in DOMAIN e, NEW i \in Int, i <= n
        PROVE  Tells(i, a)'
    <3>1. n \in i .. Len(queue') /\ a \in DOMAIN queue'[n]
      BY <2>4, <2>6
    <3> QED
      BY <3>1 DEF Tells
  <2>7. ASSUME NEW a, NEW i \in Nat \ {0}, Tells(i + 1, a)
        PROVE  Tells(i, a)'
    <3>1. PICK j \in i + 1 .. n : a \in DOMAIN queue[j]
      BY <1>3, <2>7 DEF Tells
    <3>2. j - 1 \in 1 .. n - 1 /\ j - 1 \in i .. Len(queue')
      BY <2>4
    <3>3. queue'[j - 1] = queue[j]
      BY <2>4, <3>2
    <3> QED
      BY <3>1, <3>2, <3>3 DEF Tells
  <2>8. PictureFromQueue'
    <3>1. SUFFICES ASSUME NEW a \in Ioa, Claimed(a)', NEW i \in 1 .. n,
                          a \in DOMAIN queue'[i], ~Tells(i + 1, a)'
                   PROVE  WithinDeadband(a, value[a], queue'[i][a])
      BY <2>4 DEF PictureFromQueue, WithinDeadband
    <3>2. CASE a \in DOMAIN e
      <4>1. i = n
        BY <2>6, <3>1, <3>2
      <4> QED
        BY <2>4, <3>1, <3>2, <4>1
    <3>3. CASE a \notin DOMAIN e
      <4>1. i \in 1 .. n - 1 /\ i + 1 \in 1 .. n /\ queue'[i] = queue[i + 1]
        BY <2>4, <3>1, <3>3
      <4>2. Claimed(a) /\ ~Tells(i + 1 + 1, a)
        BY <2>5, <2>7, <3>1, <3>3, <4>1
      <4> QED
        BY <1>4, <3>1, <4>1, <4>2 DEF PictureKept, PictureFromQueue
    <3> QED
      BY <3>2, <3>3
  <2>9. PictureFromSeen'
    <3>1. SUFFICES ASSUME NEW a \in Ioa, Claimed(a)', Known(a)', seen[a] # NoData
                   PROVE  WithinDeadband(a, value[a], seen[a])
      BY DEF PictureFromSeen, WithinDeadband
    <3>2. sent' \in 0 .. n - 1
      BY <1>4, <2>1, <2>2
    <3>3. a \notin DOMAIN e
      BY <2>2, <2>6, <3>1, <3>2 DEF Known
    <3>4. Claimed(a)
      BY <2>5, <3>1, <3>3
    <3>5. CASE sent > 0 /\ link = "up"
      <4>1. PICK s \in Nat \ {0} : s = sent /\ sent' + 1 = s
        BY <1>4, <2>1, <3>5
      <4>2. ~Tells(s, a)'
        BY <3>1, <3>5, <4>1 DEF Known
      <4>3. ~Tells(sent + 1, a)
        BY <2>7, <4>1, <4>2
      <4> QED
        BY <3>1, <3>4, <3>5, <4>3 DEF PictureKept, PictureFromSeen, Known
    <3>6. CASE ~(sent > 0 /\ link = "up")
      <4>1. ~Tells(1, a)'
        <5>1. sent' = 0 \/ link' # "up"
          BY <1>4, <2>1, <3>6
        <5>2. link' # "up" => ~Tells(1, a)'
          BY <3>1 DEF Known
        <5>3. CASE sent' = 0 /\ link' = "up"
          <6>1. (sent + 1)' = 1
            BY <5>3
          <6> QED
            BY <3>1, <5>3, <6>1 DEF Known, Tells
        <5> QED
          BY <5>1, <5>2, <5>3
      <4>2. ~Tells(2, a) /\ a \notin DOMAIN queue[1]
        <5>1. ~Tells(1 + 1, a)
          BY <2>7, <4>1
        <5>2. ~Tells(2, a)
          BY <5>1
        <5> QED
          BY <2>5, <3>1, <3>3, <3>6, <5>2
      <4>3. ~Tells(1, a)
        <5>1. \A j \in 1 .. n : j = 1 \/ j \in 2 .. n
          OBVIOUS
        <5> QED
          BY <1>3, <4>2, <5>1 DEF Tells
      <4>4. Known(a)
        BY <1>4, <3>6, <4>3 DEF Known
      <4> QED
        BY <3>1, <3>4, <4>4 DEF PictureKept, PictureFromSeen
    <3> QED
      BY <3>5, <3>6
  <2>10. link' = "none" => sent' = 0
    BY <2>1 DEF PictureKept
  <2> QED
    BY <2>8, <2>9, <2>10 DEF PictureKept
<1> QED
  BY <1>6, <1>7

\* An event that is sent takes its value from the queue to the station.
LEMMA SendStep ==
  ASSUME QueueTypes, PictureKept, SendEvent
  PROVE  PictureKept'
<1>1. /\ link # "none" /\ UNCHANGED <<value, queue, silent, input, link>> /\ sent' = sent + 1
      /\ IF link = "up" THEN Received(queue[sent + 1]) ELSE UNCHANGED seen
  BY DEF SendEvent, ClientConnected, image
<1>2. PICK s \in Nat : s = sent /\ sent + 1 = s + 1 /\ s + 1 \in DOMAIN queue
  BY DEF SendEvent, QueueTypes
<1>3. \A a : Claimed(a)' <=> Claimed(a)
  BY <1>1 DEF Claimed, InFlight
<1>4. \A i, a : Tells(i, a)' <=> Tells(i, a)
  BY <1>1 DEF Tells
<1>5. PictureFromQueue'
  BY <1>1, <1>3, <1>4 DEF PictureKept, PictureFromQueue, WithinDeadband
<1>6. PictureFromSeen'
  <2>1. SUFFICES ASSUME NEW a \in Ioa, Claimed(a), Known(a)', seen'[a] # NoData
                 PROVE  WithinDeadband(a, value[a], seen'[a])
    BY <1>1, <1>3 DEF PictureFromSeen, WithinDeadband
  <2>2. CASE link = "up"
    <3>1. ~Tells(s + 1 + 1, a)
      BY <1>1, <1>2, <1>4, <2>1, <2>2 DEF Known
    <3>2. CASE a \in DOMAIN queue[s + 1]
      <4>1. seen'[a] = queue[s + 1][a]
        BY <1>1, <1>2, <2>2, <3>2 DEF Received
      <4> QED
        BY <1>2, <2>1, <3>1, <3>2, <4>1 DEF PictureKept, PictureFromQueue
    <3>3. CASE a \notin DOMAIN queue[s + 1]
      <4>1. seen'[a] = seen[a]
        BY <1>1, <1>2, <2>2, <3>3 DEF Received
      <4>2. ~Tells(s + 1, a)
        <5>1. \A j \in s + 1 .. Len(queue) : j = s + 1 \/ j \in s + 1 + 1 .. Len(queue)
          BY DEF QueueTypes
        <5> QED
          BY <3>1, <3>3, <5>1 DEF Tells
      <4>3. Known(a)
        BY <1>2, <2>2, <4>2 DEF Known
      <4> QED
        BY <2>1, <4>1, <4>3 DEF PictureKept, PictureFromSeen
    <3> QED
      BY <3>2, <3>3
  <2>3. CASE link # "up"
    <3>1. Known(a) /\ seen' = seen
      BY <1>1, <1>4, <2>1, <2>3 DEF Known
    <3> QED
      BY <2>1, <3>1 DEF PictureKept, PictureFromSeen
  <2> QED
    BY <2>2, <2>3
<1> QED
  BY <1>1, <1>5, <1>6 DEF PictureKept

\* A confirmed event was seen before it leaves the queue.
LEMMA ConfirmStep ==
  ASSUME QueueTypes, PictureKept, ConfirmEvent
  PROVE  PictureKept'
<1>1. /\ link = "up" /\ UNCHANGED <<value, seen, silent, input, link>>
      /\ queue' = Tail(queue) /\ sent' = sent - 1
  BY DEF ConfirmEvent, image
<1>2. PICK n \in Nat : n = Len(queue)
  BY DEF QueueTypes
<1>3. PICK s \in Nat \ {0} : s = sent /\ s <= n /\ sent' + 1 = s
  BY <1>1, <1>2 DEF ConfirmEvent, QueueTypes
<1>4. queue # <<>> /\ queue \in Seq(Event) /\ DOMAIN queue = 1 .. n
  BY <1>2, <1>3 DEF QueueTypes
<1>5. /\ Len(queue') = n - 1 /\ DOMAIN queue' = 1 .. n - 1
      /\ \A j \in 1 .. n - 1 : queue'[j] = queue[j + 1]
  BY <1>1, <1>2, <1>3, <1>4, HeadTaken
<1>6. \A a : Claimed(a)' <=> Claimed(a)
  BY <1>1 DEF Claimed, InFlight
<1>7. ASSUME NEW a, NEW i \in Nat \ {0}, Tells(i + 1, a)
      PROVE  Tells(i, a)'
  <2>1. PICK j \in i + 1 .. n : a \in DOMAIN queue[j]
    BY <1>2, <1>7 DEF Tells
  <2>2. j - 1 \in 1 .. n - 1 /\ j - 1 \in i .. Len(queue')
    BY <1>5
  <2>3. queue'[j - 1] = queue[j]
    BY <1>5, <2>2
  <2> QED
    BY <2>1, <2>2, <2>3 DEF Tells
<1>8. PictureFromQueue'
  <2>1. SUFFICES ASSUME NEW a \in Ioa, Claimed(a), NEW i \in 1 .. n - 1,
                        a \in DOMAIN queue'[i], ~Tells(i + 1, a)'
                 PROVE  WithinDeadband(a, value[a], queue'[i][a])
    BY <1>1, <1>5, <1>6 DEF PictureFromQueue, WithinDeadband
  <2>2. i + 1 \in 1 .. n /\ queue'[i] = queue[i + 1]
    BY <1>5
  <2>3. ~Tells(i + 1 + 1, a)
    BY <1>7, <2>1
  <2> QED
    BY <1>4, <2>1, <2>2, <2>3 DEF PictureKept, PictureFromQueue
<1>9. PictureFromSeen'
  <2>1. SUFFICES ASSUME NEW a \in Ioa, Claimed(a), Known(a)', seen[a] # NoData
                 PROVE  WithinDeadband(a, value[a], seen[a])
    BY <1>1, <1>6 DEF PictureFromSeen, WithinDeadband
  <2>2. ~Tells(s, a)'
    BY <1>1, <1>3, <2>1 DEF Known
  <2>3. ~Tells(s + 1, a)
    BY <1>7, <2>2
  <2>4. Known(a)
    BY <1>1, <1>3, <2>3 DEF Known
  <2> QED
    BY <2>1, <2>4 DEF PictureKept, PictureFromSeen
<1> QED
  BY <1>1, <1>8, <1>9 DEF PictureKept

\* The answer to an interrogation shows the image as it is.
LEMMA AnswerStep ==
  ASSUME Types, PictureKept, NEW t \in Configured, Answer(t)
  PROVE  PictureKept'
<1>1. UNCHANGED <<value, queue, sent, input, link>>
  BY DEF Answer, image
<1>2. \A i, a : Tells(i, a)' <=> Tells(i, a)
  BY <1>1 DEF Tells
<1>3. \A a : Known(a)' <=> Known(a)
  BY <1>1, <1>2 DEF Known
<1>4. CASE link = "up"
  <2>1. /\ seen' = [a \in Ioa |-> IF a \in Objects(t) THEN value[a] ELSE seen[a]]
        /\ silent' = silent \ {a \in Objects(t) : ~InFlight(a) /\ ~Tells(1, a)}
    BY <1>4 DEF Answer, Received
  <2>2. PictureFromQueue'
    <3>1. SUFFICES ASSUME NEW a \in Ioa, Claimed(a)', NEW i \in DOMAIN queue,
                          a \in DOMAIN queue[i], ~Tells(i + 1, a)
                   PROVE  WithinDeadband(a, value[a], queue[i][a])
      BY <1>1, <1>2 DEF PictureFromQueue, WithinDeadband
    <3>2. Tells(1, a)
      BY <3>1 DEF Tells, Types, QueueTypes
    <3>3. Claimed(a)
      BY <1>1, <2>1, <3>1, <3>2 DEF Claimed, InFlight
    <3> QED
      BY <3>1, <3>3 DEF PictureKept, PictureFromQueue
  <2>3. PictureFromSeen'
    <3>1. SUFFICES ASSUME NEW a \in Ioa, Claimed(a)', Known(a), seen'[a] # NoData
                   PROVE  WithinDeadband(a, value[a], seen'[a])
      BY <1>1, <1>3 DEF PictureFromSeen, WithinDeadband
    <3>2. CASE a \in Objects(t)
      <4>1. seen'[a] = value[a] /\ value[a] \in Nat
        BY <2>1, <3>2 DEF Types, ImageTypes
      <4> QED
        BY <4>1, DeadbandReflexive
    <3>3. CASE a \notin Objects(t)
      <4>1. seen'[a] = seen[a] /\ Claimed(a)
        BY <1>1, <2>1, <3>1, <3>3 DEF Claimed, InFlight
      <4> QED
        BY <3>1, <4>1 DEF PictureKept, PictureFromSeen
    <3> QED
      BY <3>2, <3>3
  <2> QED
    BY <1>1, <2>2, <2>3 DEF PictureKept
<1>5. CASE link # "up"
  <2>1. UNCHANGED <<seen, silent>>
    BY <1>5 DEF Answer
  <2>2. \A a \in Ioa : Claimed(a)' => Claimed(a) /\ value'[a] = value[a]
    BY <1>1, <2>1 DEF Claimed, InFlight
  <2>3. UNCHANGED <<queue, seen>> /\ (link' = "none" => sent' = 0)
    BY <1>1, <2>1 DEF PictureKept
  <2> QED
    BY <1>3, <2>2, <2>3, CalmStep
<1> QED
  BY <1>4, <1>5

\* Every step keeps the picture of the station, with what is queued, within the deadband.
LEMMA PictureStep ==
  ASSUME Types, Picture, [Next]_vars
  PROVE  PictureKept'
<1>1. /\ QueueTypes /\ ImageTypes /\ PictureKept /\ PictureFromInput
      /\ link \in {"none", "up", "down"} /\ input \in Update \cup {Idle}
  BY DEF Types, ThreadTypes, Picture, PictureKept
<1>2. ASSUME UNCHANGED <<slave, link>>,
             \A a \in Ioa : Claimed(a)' => Claimed(a) /\ value'[a] = value[a]
      PROVE  PictureKept'
  <2>1. UNCHANGED <<queue, seen, sent, link>>
    BY <1>2 DEF slave
  <2>2. \A a \in Ioa : Known(a)' => Known(a)
    BY <2>1 DEF Known, Tells
  <2>3. link' = "none" => sent' = 0
    BY <1>1, <2>1 DEF PictureKept
  <2> QED
    BY <1>1, <1>2, <2>1, <2>2, <2>3, CalmStep
<1>3. CASE UNCHANGED <<slave, link, value, silent, input>>
  <2>1. \A a \in Ioa : Claimed(a)' => Claimed(a) /\ value'[a] = value[a]
    BY <1>3 DEF Claimed, InFlight
  <2> QED
    BY <1>2, <1>3, <2>1
<1>4. ASSUME NEW a \in Ioa, NEW q \in Quality, NEW v \in Value[a], Line(a, v, q)
      PROVE  PictureKept'
  <2>1. UNCHANGED <<slave, link, value, silent>> /\ input = Idle
    BY <1>4 DEF Line, image
  <2>2. \A b \in Ioa : Claimed(b)' => Claimed(b) /\ value'[b] = value[b]
    BY <2>1 DEF Claimed, InFlight, Idle
  <2> QED
    BY <1>2, <2>1, <2>2
<1>5. CASE Gate
  <2>1. UNCHANGED <<slave, link, value, silent>> /\ input.pc = "gate"
    BY <1>5 DEF Gate, image
  <2>2. \A b \in Ioa : Claimed(b)' => Claimed(b) /\ value'[b] = value[b]
    BY <2>1 DEF Claimed, InFlight
  <2> QED
    BY <1>2, <2>1, <2>2
<1>6. CASE Store
  <2>1. input \in Update /\ input.pc = "store" /\ UNCHANGED <<slave, link>>
    BY <1>1, <1>6 DEF Store, Idle
  <2>2. \A b \in Ioa : ~InFlight(b)
    BY <2>1 DEF InFlight
  <2>3. CASE UNCHANGED <<image, silent>>
    <3>1. \A b \in Ioa : Claimed(b)' => Claimed(b) /\ value'[b] = value[b]
      BY <2>2, <2>3 DEF Claimed, image
    <3> QED
      BY <1>2, <2>1, <3>1
  <2>4. CASE /\ value' = [value EXCEPT ![input.ioa] = input.value]
             /\ silent' = silent \ {input.ioa} /\ input' = [input EXCEPT !.pc = "decide"]
    <3>1. input'.pc = "decide" /\ input'.ioa = input.ioa
      BY <2>1, <2>4 DEF Update
    <3>2. InFlight(input.ioa)'
      BY <3>1 DEF InFlight
    <3>3. \A b \in Ioa : Claimed(b)' => b # input.ioa
      BY <3>1 DEF Claimed, InFlight
    <3>4. \A b \in Ioa : Claimed(b)' => Claimed(b) /\ value'[b] = value[b]
      BY <1>1, <2>2, <2>4, <3>3 DEF Claimed, ImageTypes
    <3> QED
      BY <1>2, <2>1, <3>4
  <2> QED
    BY <1>6, <2>3, <2>4 DEF Store
<1>7. CASE Decide
  <2>1. input \in Update /\ input.pc = "decide" /\ UNCHANGED <<slave, link, value>>
    BY <1>1, <1>7 DEF Decide, Idle, image
  <2>2. \/ input' = [input EXCEPT !.pc = "enqueue"] /\ silent' = silent
        \/ silent' = silent \cup {input.ioa}
    BY <1>7 DEF Decide
  <2>3. \A b \in Ioa : Claimed(b)' => Claimed(b) /\ value'[b] = value[b]
    BY <2>1, <2>2 DEF Claimed, InFlight, Update
  <2> QED
    BY <1>2, <2>1, <2>3
<1>8. CASE EnqueueUpdate
  <2>1. /\ input \in Update /\ input.pc = "enqueue" /\ UNCHANGED <<value, seen, link>>
        /\ input' = Idle /\ input.ioa \in Ioa /\ input.value \in Nat
    BY <1>1, <1>8 DEF EnqueueUpdate, Idle, image, Update
  <2> DEFINE e == [b \in {input.ioa} |-> input.value]
  <2>2. e \in Event /\ DOMAIN e = {input.ioa} /\ e[input.ioa] = input.value
    BY <2>1, EventTyped
  <2>3. EnqueueEvent(e, {})
    BY <1>8 DEF EnqueueUpdate
  <2>4. silent \subseteq silent'
    BY <2>3 DEF EnqueueEvent
  <2>5. \A a \in DOMAIN e : Claimed(a)' => WithinDeadband(a, value[a], e[a])
    BY <1>1, <2>1, <2>2, <2>4 DEF Claimed, PictureFromInput
  <2>6. \A a \in Ioa \ DOMAIN e : InFlight(a) => InFlight(a)'
    BY <2>2 DEF InFlight
  <2> HIDE DEF e
  <2> QED
    BY <1>1, <2>1, <2>2, <2>3, <2>5, <2>6, EnqueueStep
<1>9. CASE Connect \/ Break \/ ThreadEnds
  <2>1. UNCHANGED <<queue, seen, value, silent, input>>
    BY <1>9 DEF Connect, Break, ThreadEnds, image, slave
  <2>2. \A a \in Ioa : Claimed(a)' => Claimed(a) /\ value'[a] = value[a]
    BY <2>1 DEF Claimed, InFlight
  <2>3. \A i, a : Tells(i, a)' <=> Tells(i, a)
    BY <2>1 DEF Tells
  <2>4. link' = "none" => sent' = 0
    BY <1>9 DEF Connect, Break, ThreadEnds
  <2>5. ASSUME NEW a \in Ioa, Known(a)'
        PROVE  Known(a)
    <3>1. CASE Connect
      <4>1. sent' = 0 /\ link = "none" /\ link' = "up"
        BY <1>1, <3>1 DEF Connect, PictureKept, slave
      <4>2. (sent + 1)' = 1
        BY <4>1
      <4> QED
        BY <2>1, <2>5, <4>1, <4>2 DEF Known, Tells
    <3>2. CASE Break
      <4>1. link = "up" /\ ~Tells(1, a)
        BY <2>3, <2>5, <3>2 DEF Break, Known
      <4>2. ~Tells(sent + 1, a)
        BY <1>1, <4>1 DEF Tells, QueueTypes
      <4> QED
        BY <4>1, <4>2 DEF Known
    <3>3. CASE ThreadEnds
      BY <2>3, <2>5, <3>3 DEF ThreadEnds, Known
    <3> QED
      BY <1>9, <3>1, <3>2, <3>3
  <2> QED
    BY <1>1, <2>1, <2>2, <2>4, <2>5, CalmStep
<1>10. CASE SendEvent \/ ConfirmEvent
  BY <1>1, <1>10, SendStep, ConfirmStep
<1>11. ASSUME NEW t \in Configured, Answer(t)
       PROVE  PictureKept'
  BY <1>1, <1>11, AnswerStep
<1>12. ASSUME NEW t \in Configured, Reset(t)
       PROVE  PictureKept'
  <2>1. /\ UNCHANGED <<slave, link, input>>
        /\ value' = [a \in Ioa |-> IF TypeOf[a] = t THEN 0 ELSE value[a]]
        /\ silent' = silent \cup {a \in Objects(t) : value[a] # 0}
    BY <1>12 DEF Reset
  <2>2. \A a \in Ioa : Claimed(a)' => Claimed(a) /\ value'[a] = value[a]
    BY <2>1 DEF Claimed, InFlight, Objects
  <2> QED
    BY <1>2, <2>1, <2>2
<1>13. ASSUME NEW t \in PeriodicTypes, SendPeriodic(t)
       PROVE  PictureKept'
  <2>1. UNCHANGED <<value, input, link, seen>>
    BY <1>13 DEF SendPeriodic, image
  <2> DEFINE e == [a \in Objects(t) |-> value[a]]
             told == {a \in Objects(t) : ~InFlight(a)}
  <2>2. e \in [Objects(t) -> Nat] /\ Objects(t) \in SUBSET Ioa
    BY <1>1 DEF Objects, ImageTypes
  <2>3. e \in Event /\ DOMAIN e = Objects(t) /\ told \in SUBSET DOMAIN e
    BY <2>2, EventTyped
  <2>4. EnqueueEvent(e, told)
    BY <1>13 DEF SendPeriodic
  <2>5. \A a \in DOMAIN e : a \in Ioa /\ e[a] = value[a] /\ value[a] \in Nat
    BY <1>1, <2>2 DEF ImageTypes
  <2>6. \A a \in DOMAIN e : Claimed(a)' => WithinDeadband(a, value[a], e[a])
    BY <2>5, DeadbandReflexive
  <2>7. \A a \in Ioa \ DOMAIN e : InFlight(a) => InFlight(a)'
    BY <2>1 DEF InFlight
  <2> HIDE DEF e, told
  <2> QED
    BY <1>1, <2>1, <2>3, <2>4, <2>6, <2>7, EnqueueStep
<1>14. CASE UNCHANGED vars
  BY <1>3, <1>14 DEF vars, image
<1> QED
  BY <1>3, <1>4, <1>5, <1>6, <1>7, <1>8, <1>9, <1>10, <1>11, <1>12, <1>13, <1>14
     DEF Next, Command, PeriodicRound, SkipPeriodic, Tick, image

\* The update on its way.
LEMMA InputStep ==
  ASSUME Types, Picture, [Next]_vars
  PROVE  PictureFromInput'
<1>1. /\ QueueTypes /\ ImageTypes /\ PictureFromInput /\ input \in Update \cup {Idle}
  BY DEF Types, ThreadTypes, Picture
<1>2. ASSUME UNCHANGED input,
             \A a : InFlight(a) /\ a \notin silent' => a \notin silent /\ value'[a] = value[a]
      PROVE  PictureFromInput'
  BY <1>1, <1>2 DEF PictureFromInput, InFlight, WithinDeadband
<1>3. CASE UNCHANGED <<input, value, silent>>
  BY <1>2, <1>3
<1>4. CASE input'.pc \notin {"decide", "enqueue"}
  BY <1>4 DEF PictureFromInput
<1>5. ASSUME NEW a \in Ioa, NEW q \in Quality, NEW v \in Value[a], Line(a, v, q)
      PROVE  PictureFromInput'
  <2>1. input'.pc \in {"gate", "store"}
    BY <1>5 DEF Line
  <2> QED
    BY <1>4, <2>1
<1>6. CASE Gate
  <2>1. input \in Update
    BY <1>1, <1>6 DEF Gate, Idle
  <2>2. input'.pc = "store"
    BY <1>6, <2>1 DEF Gate, Update
  <2> QED
    BY <1>4, <2>2
<1>7. CASE Store
  <2>1. input \in Update
    BY <1>1, <1>7 DEF Store, Idle
  <2>2. CASE ~ValuesEqual(input.ioa, input.value)
    <3>1. /\ value' = [value EXCEPT ![input.ioa] = input.value]
          /\ input' = [input EXCEPT !.pc = "decide"]
      BY <1>7, <2>2 DEF Store
    <3>2. input'.pc = "decide" /\ input'.ioa = input.ioa /\ input'.value = input.value
          /\ input.ioa \in Ioa
      BY <2>1, <3>1 DEF Update
    <3>3. value'[input'.ioa] = input'.value
      BY <1>1, <3>1, <3>2 DEF ImageTypes
    <3> QED
      BY <3>2, <3>3 DEF PictureFromInput
  <2>3. CASE ValuesEqual(input.ioa, input.value)
    <3>1. UNCHANGED <<value, silent>>
          /\ (input' = [input EXCEPT !.pc = "enqueue"] \/ input' = Idle)
      BY <1>7, <2>3 DEF Store, image
    <3>2. CASE input' = Idle
      BY <1>4, <3>2 DEF Idle
    <3>3. CASE input' = [input EXCEPT !.pc = "enqueue"]
      <4>1. input'.pc = "enqueue" /\ input'.ioa = input.ioa /\ input'.value = input.value
        BY <2>1, <3>3 DEF Update
      <4>2. WithinDeadband(input.ioa, value[input.ioa], input.value)
        BY <2>3 DEF ValuesEqual
      <4> QED
        BY <3>1, <4>1, <4>2 DEF PictureFromInput, WithinDeadband
    <3> QED
      BY <3>1, <3>2, <3>3
  <2> QED
    BY <2>2, <2>3
<1>8. CASE Decide
  <2>1. input \in Update /\ input.pc = "decide" /\ value' = value
    BY <1>1, <1>8 DEF Decide, Idle, image
  <2>2. \/ input' = Idle
        \/ input' = [input EXCEPT !.pc = "enqueue"] /\ silent' = silent
    BY <1>8 DEF Decide
  <2>3. CASE input' = Idle
    BY <1>4, <2>3 DEF Idle
  <2>4. CASE input' = [input EXCEPT !.pc = "enqueue"] /\ silent' = silent
    <3>1. input'.pc = "enqueue" /\ input'.ioa = input.ioa /\ input'.value = input.value
          /\ input.ioa \in Ioa /\ input.value \in Nat
      BY <2>1, <2>4 DEF Update
    <3>2. input.ioa \notin silent => WithinDeadband(input.ioa, value[input.ioa], input.value)
      BY <1>1, <2>1, <3>1, DeadbandReflexive DEF PictureFromInput
    <3> QED
      BY <2>1, <2>4, <3>1, <3>2 DEF PictureFromInput, WithinDeadband
  <2> QED
    BY <2>2, <2>3, <2>4
<1>9. CASE EnqueueUpdate
  BY <1>4, <1>9 DEF EnqueueUpdate, Idle
<1>10. ASSUME NEW t \in Configured, Answer(t)
       PROVE  PictureFromInput'
  <2>1. /\ UNCHANGED <<input, value>>
        /\ \/ silent' = silent \ {a \in Objects(t) : ~InFlight(a) /\ ~Tells(1, a)}
           \/ silent' = silent
    BY <1>10 DEF Answer, image
  <2> QED
    BY <1>2, <2>1
<1>11. ASSUME NEW t \in Configured, Reset(t)
       PROVE  PictureFromInput'
  <2>1. /\ UNCHANGED input
        /\ value' = [a \in Ioa |-> IF TypeOf[a] = t THEN 0 ELSE value[a]]
        /\ silent' = silent \cup {a \in Objects(t) : value[a] # 0}
    BY <1>11 DEF Reset
  <2>2. \A a : InFlight(a) => a \in Ioa
    BY <1>1 DEF InFlight, Update, Idle
  <2> QED
    BY <1>2, <2>1, <2>2 DEF Objects
<1>12. ASSUME NEW t \in PeriodicTypes, SendPeriodic(t)
       PROVE  PictureFromInput'
  <2>1. UNCHANGED <<input, value>>
    BY <1>12 DEF SendPeriodic, image
  <2>2. \A a : InFlight(a) /\ a \notin silent' => a \notin silent
    BY <1>12 DEF SendPeriodic, EnqueueEvent
  <2> QED
    BY <1>2, <2>1, <2>2
<1>13. CASE UNCHANGED vars
  BY <1>3, <1>13 DEF vars, image
<1> QED
  BY <1>3, <1>5, <1>6, <1>7, <1>8, <1>9, <1>10, <1>11, <1>12, <1>13 DEF Next, Connect, Break,
     ThreadEnds, SendEvent, ConfirmEvent, Command, PeriodicRound, SkipPeriodic, Tick, image

(***************************************************************************)
(* The invariant, and what follows from it                                 *)
(***************************************************************************)
LEMMA ProcessInvInit == Init => ProcessInv
<1> SUFFICES ASSUME Init  PROVE ProcessInv
  OBVIOUS
<1>1. Period \in Nat \ {0} /\ Cap \in Nat \ {0}
  BY ProcessAssumption
<1>2. ImageTypes
  BY DEF Init, ImageTypes
<1>3. ThreadTypes
  BY <1>1 DEF Init, ThreadTypes
<1>4. queue \in Seq(Event) /\ Len(queue) = 0 /\ DOMAIN queue = {}
  BY DEF Init
<1>5. QueueTypes
  BY <1>1, <1>4 DEF Init, QueueTypes
<1>6. SeenTypes
  BY DEF Init, SeenTypes
<1>7. PictureFromQueue
  BY <1>4 DEF PictureFromQueue
<1>8. PictureFromSeen
  BY DEF Init, PictureFromSeen
<1>9. PictureFromInput
  BY DEF Init, PictureFromInput, Idle
<1>10. link = "none" => sent = 0
  BY DEF Init
<1> QED
  BY <1>2, <1>3, <1>5, <1>6, <1>7, <1>8, <1>9, <1>10 DEF ProcessInv, Types, Picture

\* Every step keeps the invariant.
LEMMA ProcessInvStep == ProcessInv /\ [Next]_vars => ProcessInv'
<1> SUFFICES ASSUME ProcessInv, [Next]_vars  PROVE ProcessInv'
  OBVIOUS
<1>1. Types /\ Picture
  BY DEF ProcessInv
<1>2. ImageTypes' /\ ThreadTypes' /\ QueueTypes' /\ SeenTypes'
  BY <1>1, ImageTypesStep, ThreadTypesStep, QueueTypesStep, SeenTypesStep
<1>3. PictureKept' /\ PictureFromInput'
  BY <1>1, PictureStep, InputStep
<1> QED
  BY <1>2, <1>3 DEF ProcessInv, Types, Picture, PictureKept

\* There is a last event that tells of an object, if there is one at all.
LEMMA LastOne ==
  ASSUME QueueTypes, NEW a, Tells(1, a)
  PROVE  \E i \in 1 .. Len(queue) : a \in DOMAIN queue[i] /\ ~Tells(i + 1, a)
<1>1. PICK n \in Nat : n = Len(queue)
  BY DEF QueueTypes
<1> DEFINE after == {k \in 0 .. n : n - k \in 1 .. n /\ a \in DOMAIN queue[n - k]}
<1>2. after \subseteq Nat
  OBVIOUS
<1>3. after # {}
  <2>1. PICK j \in 1 .. n : a \in DOMAIN queue[j]
    BY <1>1 DEF Tells
  <2>2. n - j \in 0 .. n /\ n - (n - j) = j
    OBVIOUS
  <2> QED
    BY <2>1, <2>2
<1>4. PICK k \in after : \A l \in after : ~(<<l, k>> \in OpToRel(<, Nat))
  BY <1>2, <1>3, NatLessThanWellFounded, WFMin
<1>5. ASSUME NEW l \in after, l < k
      PROVE  FALSE
  BY <1>2, <1>4, <1>5 DEF OpToRel
<1>6. k \in 0 .. n /\ n - k \in 1 .. n /\ a \in DOMAIN queue[n - k]
  BY <1>4
<1>7. ~Tells(n - k + 1, a)
  <2>1. SUFFICES ASSUME NEW j \in n - k + 1 .. n, a \in DOMAIN queue[j]
                 PROVE  FALSE
    BY <1>1 DEF Tells
  <2>2. n - j \in 0 .. n /\ n - (n - j) = j /\ j \in 1 .. n /\ n - j < k
    BY <1>6
  <2>3. n - j \in after
    BY <2>1, <2>2
  <2> QED
    BY <1>5, <2>2, <2>3
<1> QED
  BY <1>1, <1>6, <1>7

\* The invariant gives the picture.
LEMMA PictureFollowsInv == ProcessInv => PictureCurrent
<1> SUFFICES ASSUME ProcessInv, NEW a \in Ioa, Claimed(a), LastTold(a) # NoData
             PROVE  WithinDeadband(a, value[a], LastTold(a))
  BY DEF PictureCurrent, Claimed
<1>1. QueueTypes /\ PictureFromQueue /\ PictureFromSeen /\ (link = "none" => sent = 0)
  BY DEF ProcessInv, Types, Picture
<1>2. CASE Tells(1, a)
  <2>1. \E i \in 1 .. Len(queue) : a \in DOMAIN queue[i] /\ ~Tells(i + 1, a)
    BY <1>1, <1>2, LastOne
  <2>2. PICK i \in 1 .. Len(queue) :
          a \in DOMAIN queue[i] /\ ~Tells(i + 1, a) /\ LastTold(a) = queue[i][a]
    BY <1>2, <2>1 DEF LastTold
  <2>3. i \in DOMAIN queue
    BY <1>1 DEF QueueTypes
  <2> QED
    BY <1>1, <2>2, <2>3 DEF PictureFromQueue
<1>3. CASE ~Tells(1, a)
  <2>1. LastTold(a) = seen[a]
    BY <1>3 DEF LastTold
  <2>2. Known(a)
    BY <1>1, <1>3 DEF Known, Tells, QueueTypes
  <2> QED
    BY <1>1, <2>1, <2>2 DEF PictureFromSeen
<1> QED
  BY <1>2, <1>3

\* The state of the image, its three threads and the queue has the types it is meant to have.
THEOREM ProcessTypes == Spec => []TypeOK
<1>1. ProcessInv => TypeOK
  BY TypesOK DEF ProcessInv
<1> QED
  BY <1>1, ProcessInvInit, ProcessInvStep, PTL DEF Spec

\* Once the events that wait have reached it, what the station knows of an object is within
\* the deadband of the image, whatever interrogations, resets, periodic events, lost
\* connections and full queues came in between; but for a change that was withheld.
THEOREM PictureCorrect == Spec => []PictureCurrent
<1>1. ProcessInv => PictureCurrent
  BY PictureFollowsInv
<1> QED
  BY <1>1, ProcessInvInit, ProcessInvStep, PTL DEF Spec
=============================================================================
