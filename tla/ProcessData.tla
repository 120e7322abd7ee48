----------------------------- MODULE ProcessData -----------------------------
(***************************************************************************)
(* The process image of the modular server and the station that follows    *)
(* it: updates read from stdin (input_handler.c, data_manager.c), station  *)
(* interrogation and process reset (interrogation.c, command_handler.c)    *)
(* and the periodic sender (periodic_sender.c).                            *)
(*                                                                         *)
(* Three threads share the image: the main thread handles one line at a    *)
(* time, the connection's thread runs the handlers, the periodic sender    *)
(* its loop.  Each access to the objects of one type is a critical section *)
(* of that type's mutex, but what a thread decides from it, and the event  *)
(* it enqueues, comes later.  CS104_Slave_getOpenConnections is asked      *)
(* several times for one line, and for one round of the periodic sender.   *)
(*                                                                         *)
(* The slave is what EventChannel promises for one connection: events are  *)
(* received in order, those not confirmed are sent again on the next       *)
(* connection, and a full queue loses its oldest one; responses of a       *)
(* handler precede the events that wait.  One station connects, loses the  *)
(* connection and returns.  Numbers stand for the values of every type, a  *)
(* real number of the code being a multiple of some unit.                  *)
(***************************************************************************)
EXTENDS Integers, Sequences, FiniteSets

CONSTANTS
  Ioa,       \* configured information objects
  TypeOf,    \* their type identifiers
  Value,     \* values of each object in the updates
  Quality,   \* qualities in the updates
  Deadband,  \* deadband_M_ME_NC_1_percent
  Period,    \* offline_udt_time, in steps of the clock
  Enabled,   \* types the configuration has enabled for the periodic sender
  Cap,       \* events the queue of the slave holds
  NoData     \* no value is known

\* DATA_TYPE_TABLE: the row of each type, in the order the handlers go through.
Row == [M_SP_TB_1 |-> 1, M_DP_TB_1 |-> 2, M_ME_TD_1 |-> 3, M_IT_TB_1 |-> 4,
        M_SP_NA_1 |-> 5, M_DP_NA_1 |-> 6, M_ME_NA_1 |-> 7, M_ME_NB_1 |-> 8,
        M_ME_NC_1 |-> 9, M_ME_ND_1 |-> 10]

\* Columns of DATA_TYPE_TABLE.
HasTimeTag(a) == TypeOf[a] \in {"M_SP_TB_1", "M_DP_TB_1", "M_ME_TD_1", "M_IT_TB_1"}
IsBool(a) == TypeOf[a] \in {"M_SP_TB_1", "M_SP_NA_1"}
IsFloat(a) == TypeOf[a] \in {"M_ME_TD_1", "M_ME_NA_1", "M_ME_NC_1", "M_ME_ND_1"}
HasOffline(a) == TypeOf[a] # "M_ME_ND_1"

\* One type: one DataTypeContext with one mutex.
Objects(t) == {a \in Ioa : TypeOf[a] = t}
Configured == {TypeOf[a] : a \in Ioa}
PeriodicTypes == Configured \cap Enabled

\* The next type of a handler, and of the periodic sender.
IsFirst(t, todo) == t \in todo /\ \A u \in todo : Row[t] <= Row[u]
IsLast(t, todo) == t \in todo /\ \A u \in todo : Row[u] <= Row[t]

ASSUME ProcessAssumption ==
  /\ TypeOf \in [Ioa -> DOMAIN Row]
  /\ Value \in [Ioa -> SUBSET Nat]
  /\ Deadband \in 0..100
  /\ Period \in Nat \ {0}
  /\ Enabled \subseteq {"M_ME_NC_1", "M_SP_TB_1"}
  /\ Cap \in Nat \ {0}
  /\ NoData \notin Nat

Good == "good"
Invalid == "invalid"

VARIABLES
  value,    \* value of each object
  typed,    \* the entry's type is the type of its object (reset clears it)
  quality,  \* quality of each object
  tracker,  \* age of the offline event of each object, Period if it is older
  input,    \* the line the main thread handles, and how far it is
  handler,  \* the handler the connection's thread runs, and types left to do
  due,      \* types the periodic sender has still to send in this round
  link,     \* "none", "up", or "down": lost, and its thread not ended
  queue,    \* events enqueued and not confirmed, oldest first
  sent,     \* events of them sent on this connection
  seen,     \* what the station received last for each object
  silent,   \* history: objects that changed and no event told so, until an
            \* interrogation or a periodic event does
  field     \* history: last value and quality read for each object

image == <<value, typed, quality>>
slave == <<queue, sent, seen>>
vars == <<image, tracker, input, handler, due, link, slave, silent, field>>

Idle == [pc |-> "idle"]
NoHandler == [kind |-> "none", todo |-> {}]

Init ==
  /\ value = [a \in Ioa |-> 0]
  /\ typed = [a \in Ioa |-> TRUE]
  /\ quality = [a \in Ioa |-> Invalid]
  /\ tracker = [a \in Ioa |-> Period]
  /\ input = Idle
  /\ handler = NoHandler
  /\ due = {}
  /\ link = "none"
  /\ queue = <<>>
  /\ sent = 0
  /\ seen = [a \in Ioa |-> NoData]
  /\ silent = {}
  /\ field = [a \in Ioa |-> NoData]

\* is_client_connected: a connection counts until its thread has ended.
ClientConnected == link # "none"

Distance(v, w) == IF v < w THEN w - v ELSE v - w

\* The comparison of values_equal, v being the stored value.  A difference of less
\* than 0.0001 is none, and a deadband of zero means the same.
WithinDeadband(a, v, w) ==
  IF TypeOf[a] = "M_ME_NC_1"
  THEN 100 * Distance(v, w) <= v * Deadband
  ELSE v = w

\* values_equal: an entry that a reset left without its type equals nothing.
ValuesEqual(a, v) == typed[a] /\ WithinDeadband(a, value[a], v)

\* deadband_passed of input_handler.c, which applies to every float type and
\* includes the limit.
DeadbandPassed(a, v) ==
  IsFloat(a) =>
    /\ v # value[a]
    /\ 100 * Distance(value[a], v) >= Deadband * value[a]

\* Some event from place i on tells of the object.
Tells(i, a) == \E j \in i..Len(queue) : a \in DOMAIN queue[j]

InFlight(a) == input.pc \in {"decide", "enqueue"} /\ input.ioa = a

\* Fault: the queue grows.
EnqueueEventAlways(e, told) ==
  /\ queue' = Append(queue, e)
  /\ silent' = silent \ told
  /\ UNCHANGED sent

(***************************************************************************)
(* CS104_Slave_enqueueASDU; an event lost from the full queue leaves its   *)
(* objects untold unless the station received it or a later event tells of *)
(* them.  told: objects whose stored value the event carries.              *)
(***************************************************************************)
EnqueueEvent(e, told) ==
  IF Len(queue) < Cap
  THEN /\ queue' = Append(queue, e)
       /\ silent' = silent \ told
       /\ UNCHANGED sent
  ELSE /\ queue' = Append(Tail(queue), e)
       /\ sent' = IF sent > 0 THEN sent - 1 ELSE 0
       /\ silent' = (silent \cup
            (IF sent > 0 /\ link = "up" THEN {}
             ELSE {a \in DOMAIN Head(queue) : ~Tells(2, a) /\ a \notin DOMAIN e}))
            \ told

(***************************************************************************)
(* Main thread: input_handler_process_line                                 *)
(***************************************************************************)
\* A line for a configured object.  Without a client, a type without time tag
\* takes the offline path.
Line(a, v, q) ==
  /\ input = Idle
  /\ input' = [pc |-> IF ~HasTimeTag(a) /\ HasOffline(a) /\ ~ClientConnected
                      THEN "gate" ELSE "store",
               ioa |-> a, value |-> v, quality |-> q, offline |-> FALSE]
  /\ UNCHANGED <<image, tracker, handler, due, link, slave, silent, field>>

\* offline_enqueue: at most one event per object and period, and the period starts
\* even if the value turns out not to be new.
Gate ==
  /\ input.pc = "gate"
  /\ LET a == input.ioa
         allowed == DeadbandPassed(a, input.value) /\ tracker[a] = Period
     IN  /\ input' = [input EXCEPT !.pc = "store", !.offline = allowed]
         /\ tracker' = IF allowed THEN [tracker EXCEPT ![a] = 0] ELSE tracker
  /\ UNCHANGED <<image, handler, due, link, slave, silent, field>>

\* Critical section of update_data: the quality alone is no change.
Store ==
  /\ input.pc = "store"
  /\ LET a == input.ioa
     IN  /\ field' = [field EXCEPT ![a] =
                        [value |-> input.value, quality |-> input.quality]]
         /\ \/ /\ ~ValuesEqual(a, input.value)
               /\ value' = [value EXCEPT ![a] = input.value]
               /\ typed' = [typed EXCEPT ![a] = TRUE]
               /\ quality' = [quality EXCEPT ![a] = input.quality]
               /\ silent' = silent \ {a}
               /\ input' = [input EXCEPT !.pc = "decide"]
            \/ /\ ValuesEqual(a, input.value)
               /\ input' = IF input.offline THEN [input EXCEPT !.pc = "enqueue"]
                           ELSE Idle
               /\ UNCHANGED <<image, silent>>
  /\ UNCHANGED <<tracker, handler, due, link, slave>>

\* The end of update_data and should_enqueue: a changed value is sent to a client,
\* or else, with a time tag, when the last offline event is old enough, or else
\* when the offline path said so.
Decide ==
  /\ input.pc = "decide"
  /\ LET a == input.ioa
         limited == tracker[a] < Period
         send == ClientConnected \/ (HasTimeTag(a) /\ ~limited)
     IN  /\ tracker' = IF ~ClientConnected /\ send THEN [tracker EXCEPT ![a] = 0]
                       ELSE tracker
         /\ IF send \/ input.offline
            THEN /\ input' = [input EXCEPT !.pc = "enqueue"]
                 /\ UNCHANGED silent
            ELSE /\ input' = Idle
                 /\ silent' = silent \cup {a}
  /\ UNCHANGED <<image, handler, due, link, slave, field>>

EnqueueUpdate ==
  /\ input.pc = "enqueue"
  /\ EnqueueEvent([b \in {input.ioa} |-> input.value], {})
  /\ input' = Idle
  /\ UNCHANGED <<image, tracker, handler, due, link, seen, field>>

(***************************************************************************)
(* Connection and its thread                                               *)
(***************************************************************************)
Connect ==
  /\ link = "none"
  /\ link' = "up"
  /\ UNCHANGED <<image, tracker, input, handler, due, slave, silent, field>>

Break ==
  /\ link = "up"
  /\ link' = "down"
  /\ UNCHANGED <<image, tracker, input, handler, due, slave, silent, field>>

\* Fault: events sent and not confirmed are not sent again.
ThreadEndsKeeping ==
  /\ link = "down" /\ handler = NoHandler
  /\ link' = "none"
  /\ UNCHANGED <<image, tracker, input, handler, due, slave, silent, field>>

\* What was sent and not confirmed waits again.
ThreadEnds ==
  /\ link = "down" /\ handler = NoHandler
  /\ link' = "none"
  /\ sent' = 0
  /\ UNCHANGED <<image, tracker, input, handler, due, queue, seen, silent, field>>

Received(e) ==
  seen' = [a \in Ioa |-> IF a \in DOMAIN e THEN e[a] ELSE seen[a]]

\* The thread sends the next event, between two handlers; nobody receives it when
\* the connection is lost.
SendEvent ==
  /\ ClientConnected /\ handler = NoHandler
  /\ sent < Len(queue)
  /\ sent' = sent + 1
  /\ IF link = "up" THEN Received(queue[sent + 1]) ELSE UNCHANGED seen
  /\ UNCHANGED <<image, tracker, input, handler, due, link, queue, silent, field>>

ConfirmEvent ==
  /\ link = "up" /\ handler = NoHandler
  /\ sent > 0
  /\ queue' = Tail(queue)
  /\ sent' = sent - 1
  /\ UNCHANGED <<image, tracker, input, handler, due, link, seen, silent, field>>

\* interrogationHandler with QOI 20, or handle_reset_process_command with QRP 1.
Command(kind) ==
  /\ link = "up" /\ handler = NoHandler
  /\ handler' = [kind |-> kind, todo |-> Configured]
  /\ UNCHANGED <<image, tracker, input, due, link, slave, silent, field>>

HandlerDone(t) ==
  handler' = IF handler.todo = {t} THEN NoHandler
             ELSE [handler EXCEPT !.todo = @ \ {t}]

\* send_interrogation_for_type, the whole of it in one critical section.
Answer(t) ==
  /\ handler.kind = "interrogation" /\ IsFirst(t, handler.todo)
  /\ HandlerDone(t)
  /\ IF link = "up"
     THEN /\ Received([a \in Objects(t) |-> value[a]])
          /\ silent' = silent \ {a \in Objects(t) : ~InFlight(a) /\ ~Tells(1, a)}
     ELSE UNCHANGED <<seen, silent>>
  /\ UNCHANGED <<image, tracker, input, due, link, queue, sent, field>>

\* One round of reset_all_data: the whole array of a type is zeroed, its qualities
\* (0 is GOOD) and types (0 is BOOL) with it, and no event is enqueued.
Reset(t) ==
  /\ handler.kind = "reset" /\ IsFirst(t, handler.todo)
  /\ HandlerDone(t)
  /\ value' = [a \in Ioa |-> IF TypeOf[a] = t THEN 0 ELSE value[a]]
  /\ typed' = [a \in Ioa |-> IF TypeOf[a] = t THEN IsBool(a) ELSE typed[a]]
  /\ quality' = [a \in Ioa |-> IF TypeOf[a] = t THEN Good ELSE quality[a]]
  /\ silent' = silent \cup {a \in Objects(t) : value[a] # 0}
  /\ field' = [a \in Ioa |-> IF TypeOf[a] = t THEN NoData ELSE field[a]]
  /\ UNCHANGED <<tracker, input, due, link, slave>>

(***************************************************************************)
(* Periodic sender, and the clock                                          *)
(***************************************************************************)
PeriodicRound ==
  /\ due = {} /\ ClientConnected
  /\ due' = PeriodicTypes
  /\ UNCHANGED <<image, tracker, input, handler, link, slave, silent, field>>

\* send_periodic_data_for_type: its period has not passed, ...
SkipPeriodic(t) ==
  /\ IsLast(t, due)
  /\ due' = due \ {t}
  /\ UNCHANGED <<image, tracker, input, handler, link, slave, silent, field>>

\* ... or every value is enqueued in one critical section.
SendPeriodic(t) ==
  /\ IsLast(t, due)
  /\ due' = due \ {t}
  /\ EnqueueEvent([a \in Objects(t) |-> value[a]],
                  {a \in Objects(t) : ~InFlight(a)})
  /\ UNCHANGED <<image, tracker, input, handler, link, seen, field>>

Tick ==
  /\ tracker' = [a \in Ioa |-> IF tracker[a] < Period THEN tracker[a] + 1 ELSE Period]
  /\ UNCHANGED <<image, input, handler, due, link, slave, silent, field>>

----------------------------------------------------------------------------
Next ==
  \/ \E a \in Ioa, q \in Quality : \E v \in Value[a] : Line(a, v, q)
  \/ Gate \/ Store \/ Decide \/ EnqueueUpdate
  \/ Connect \/ Break \/ ThreadEnds \/ SendEvent \/ ConfirmEvent
  \/ \E kind \in {"interrogation", "reset"} : Command(kind)
  \/ \E t \in Configured : Answer(t) \/ Reset(t)
  \/ PeriodicRound
  \/ \E t \in PeriodicTypes : SkipPeriodic(t) \/ SendPeriodic(t)
  \/ Tick

Spec == Init /\ [][Next]_vars

----------------------------------------------------------------------------
Update == [pc : {"gate", "store", "decide", "enqueue"}, ioa : Ioa, value : Nat,
           quality : Quality, offline : BOOLEAN]
IsEvent(e) == DOMAIN e \subseteq Ioa /\ \A a \in DOMAIN e : e[a] \in Nat

TypeOK ==
  /\ value \in [Ioa -> Nat]
  /\ typed \in [Ioa -> BOOLEAN]
  /\ quality \in [Ioa -> Quality \cup {Good, Invalid}]
  /\ tracker \in [Ioa -> 0..Period]
  /\ input \in Update \cup {Idle}
  /\ handler \in [kind : {"interrogation", "reset"}, todo : SUBSET Configured]
                 \cup {NoHandler}
  /\ due \subseteq PeriodicTypes
  /\ link \in {"none", "up", "down"}
  /\ handler # NoHandler => link # "none"
  /\ Len(queue) <= Cap /\ \A i \in 1..Len(queue) : IsEvent(queue[i])
  /\ sent \in 0..Len(queue)
  /\ seen \in [Ioa -> Nat \cup {NoData}]
  /\ silent \subseteq Ioa
  /\ field \in [Ioa -> [value : Nat, quality : Quality] \cup {NoData}]

\* What the station knows of an object once every event has reached it.
LastTold(a) ==
  IF Tells(1, a)
  THEN queue[CHOOSE i \in 1..Len(queue) :
               a \in DOMAIN queue[i] /\ ~Tells(i + 1, a)][a]
  ELSE seen[a]

\* The station's picture follows the image: once the events that wait have reached
\* it, what it knows of an object is within the deadband of the image, whatever
\* interrogations, resets, periodic events, lost connections and retransmissions
\* came in between.  Objects are left out while a line for them is handled, and
\* while a change was withheld: by the offline period, by a reset, or with an
\* event that was overwritten.
PictureCurrent ==
  \A a \in Ioa :
    a \notin silent /\ ~InFlight(a) /\ LastTold(a) # NoData
      => WithinDeadband(a, value[a], LastTold(a))

\* An object for which good data has arrived is not invalid (config_parser.c: "Set
\* default quality to INVALID until first real data arrives").
InvalidUntilData ==
  \A a \in Ioa :
    field[a] # NoData => (field[a].quality = Good => quality[a] # Invalid)

\* A change is withheld only while an offline event of the object is younger than
\* the period (data_manager.c: "send if (client_connected OR
\* offline_update_allowed)").
WithheldOnlyWhenLimited ==
  [][input.pc = "decide" /\ input' = Idle /\ HasOffline(input.ioa)
       => tracker[input.ioa] < Period]_vars

=============================================================================
