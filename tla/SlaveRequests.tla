---------------------------- MODULE SlaveRequests ----------------------------
(***************************************************************************)
(* What a slave does with a received ASDU: handleASDU of cs104_slave.c and *)
(* that of cs101_slave.c with the two queues its answers and the           *)
(* application's data wait in (cs101_queue.c) until the link layer asks.   *)
(*                                                                         *)
(* An ASDU is its type, its cause, whether its information object can be   *)
(* parsed, and what the handlers of the application will say to it.        *)
(***************************************************************************)
EXTENDS Integers, Sequences

CONSTANTS
  QueueSizes,    \* <<class1QueueSize, class2QueueSize>>
  MaxEnqueued    \* entries the queues of class 1 and 2 take altogether

ASSUME QueueAssumption ==
  /\ QueueSizes \in (Nat \ {0}) \X (Nat \ {0}) /\ MaxEnqueued \in Nat

VARIABLES
  stack,       \* "cs101" or "cs104"
  installed,   \* types with a handler, "asdu" for asduHandler, "plugin"
  queues,      \* class -> [elements, first, last, count]: the userData queues
  outcome,     \* what became of the last ASDU: [sent, taken, valid, legal]
  waiting101,  \* history: class -> what waits to be gathered
  enqueued     \* entries so far; an entry is its number
requestVars == <<stack, installed, queues, outcome, waiting101, enqueued>>

Types == {"C_IC", "C_CI", "C_RD", "C_CS", "C_TS", "C_RP", "C_CD", "C_TS_TA", "other"}
Causes == {"ACTIVATION", "DEACTIVATION", "REQUEST", "SPONTANEOUS"}
LegalCauses == [C_IC |-> {"ACTIVATION", "DEACTIVATION"}, C_CI |-> {"ACTIVATION", "DEACTIVATION"},
                C_RD |-> {"REQUEST"}, C_CS |-> {"ACTIVATION"}, C_TS |-> {"ACTIVATION"},
                C_RP |-> {"ACTIVATION"}, C_CD |-> {"ACTIVATION", "SPONTANEOUS"},
                C_TS_TA |-> {"ACTIVATION"}, other |-> Causes]
\* taker: the first of those asked, in their order, that would take the ASDU.
Asdus == [type : Types, cot : Causes, parsed : BOOLEAN,
          taker : {"plugin", "handler", "asduHandler", "nobody"}]

\* What a case of the switch does: the answers, who took the ASDU ("none": nobody, and it is
\* offered to asduHandler; "slave": the slave itself), and whether it ends there.
Case(sent, taken)  == [sent |-> sent, taken |-> taken, ends |-> FALSE]
Invalid            == [sent |-> <<>>, taken |-> "none", ends |-> TRUE]

Legal(a)           == \/ a.cot \in LegalCauses[a.type]
                      \/ a.type = "C_TS_TA" /\ stack = "cs101"   \* which knows no such type
responseCOTUnknown == Case(<<"UNKNOWN_COT">>, "none")
Offered(a)         == Case(<<>>, IF a.taker = "handler" THEN "handler" ELSE "none")

\* The test commands: the only answer is the mirrored ASDU.
MirrorTestCommand(a) == Case(<<IF Legal(a) THEN "ACT_CON" ELSE "UNKNOWN_COT">>, "slave")

-----------------------------------------------------------------------------
\* handleASDU of cs104_slave.c.  An ASDU that cannot be parsed ends the connection.
InterrogationCommand104(a) ==
  IF ~Legal(a) THEN responseCOTUnknown
  ELSE IF a.type \notin installed THEN Case(<<>>, "none")
  ELSE IF ~a.parsed THEN Invalid ELSE Offered(a)
ReadCommand104(a)  == InterrogationCommand104(a)
ResetAndDelay104(a) == InterrogationCommand104(a)

\* Mutant of ClockSync104: a refused time is not marked as handled.
ClockSync104Refused(a) ==
  IF ~Legal(a) THEN responseCOTUnknown
  ELSE IF a.type \notin installed THEN Case(<<>>, "none")
  ELSE IF ~a.parsed THEN Invalid
  ELSE IF a.taker = "handler" THEN Case(<<"ACT_CON">>, "slave") ELSE Case(<<"ACT_CON-">>, "none")

\* Positive or negative, the slave confirms.
ClockSync104(a) ==
  IF ~Legal(a) THEN responseCOTUnknown
  ELSE IF a.type \notin installed THEN Case(<<>>, "none")
  ELSE IF ~a.parsed THEN Invalid
  ELSE Case(<<IF a.taker = "handler" THEN "ACT_CON" ELSE "ACT_CON-">>, "slave")

Switch104(a) ==
  CASE a.type \in {"C_IC", "C_CI"}    -> InterrogationCommand104(a)
    [] a.type = "C_RD"                -> ReadCommand104(a)
    [] a.type = "C_CS"                -> ClockSync104(a)
    [] a.type \in {"C_TS", "C_TS_TA"} -> MirrorTestCommand(a)
    [] a.type \in {"C_RP", "C_CD"}    -> ResetAndDelay104(a)
    [] OTHER                          -> Case(<<>>, "none")

\* handleASDU of cs101_slave.c.  An ASDU that cannot be parsed is only noted, except that a
\* counter interrogation ends there.
Guarded101(a) ==
  IF ~Legal(a) THEN responseCOTUnknown
  ELSE IF a.type \notin installed \/ ~a.parsed THEN Case(<<>>, "none") ELSE Offered(a)
InterrogationCommand101(a) ==
  IF a.type = "C_CI" /\ Legal(a) /\ "C_CI" \in installed /\ ~a.parsed THEN Invalid
  ELSE Guarded101(a)
ReadCommand101(a)   == Guarded101(a)
ResetAndDelay101(a) == Guarded101(a)

\* A refused time is offered to asduHandler.
ClockSync101(a) ==
  LET c == Guarded101(a)
  IN IF c.taken = "handler" THEN Case(<<"ACT_CON">>, "slave") ELSE c

Switch101(a) ==
  CASE a.type \in {"C_IC", "C_CI"} -> InterrogationCommand101(a)
    [] a.type = "C_RD"             -> ReadCommand101(a)
    [] a.type = "C_CS"             -> ClockSync101(a)
    [] a.type = "C_TS"             -> MirrorTestCommand(a)
    [] a.type \in {"C_RP", "C_CD"} -> ResetAndDelay101(a)
    [] OTHER                       -> Case(<<>>, "none")

\* Around the switch: the plugins first, asduHandler and the last answer after it.
PluginTakes(a) == "plugin" \in installed /\ a.taker = "plugin"
Finish(c, a) ==
  IF c.ends \/ c.taken # "none" THEN c
  ELSE IF "asdu" \in installed /\ a.taker = "asduHandler" THEN [c EXCEPT !.taken = "asduHandler"]
  ELSE [c EXCEPT !.sent = Append(@, "UNKNOWN_TYPE_ID")]
handleASDU104(a) == IF PluginTakes(a) THEN Case(<<>>, "plugin") ELSE Finish(Switch104(a), a)
handleASDU101(a) == IF PluginTakes(a) THEN Case(<<>>, "plugin") ELSE Finish(Switch101(a), a)

-----------------------------------------------------------------------------
\* The queues of the CS 101 slave.
CS101_Queue_initialize(size) ==
  [elements |-> [i \in 0..(size - 1) |-> 0], first |-> 0, last |-> 0, count |-> 0]
Capacity(c) == QueueSizes[c]
isFull(q, c) == q.count = Capacity(c)

\* Where the next entry goes.
NextIndex(q, c) == IF q.count = 0 \/ q.last + 1 = Capacity(c) THEN 0 ELSE q.last + 1
After101(i, c)  == IF i + 1 = Capacity(c) THEN 0 ELSE i + 1

\* Mutant of CS101_Queue_enqueue: the oldest entry is overwritten, and stays the first.
CS101_Queue_enqueueOver(q, c, entry) ==
  LET next == NextIndex(q, c) IN
  [elements |-> [q.elements EXCEPT ![next] = entry], last |-> next,
   first |-> IF q.count = 0 THEN 0 ELSE q.first,
   count |-> IF isFull(q, c) THEN q.count ELSE q.count + 1]

\* A full queue loses its oldest entry.
CS101_Queue_enqueue(q, c, entry) ==
  LET next == NextIndex(q, c) IN
  [elements |-> [q.elements EXCEPT ![next] = entry], last |-> next,
   first |-> CASE q.count = 0 -> 0 [] isFull(q, c) -> After101(next, c) [] OTHER -> q.first,
   count |-> IF isFull(q, c) THEN q.count ELSE q.count + 1]

CS101_Queue_dequeue(q, c) == [q EXCEPT !.first = (@ + 1) % Capacity(c), !.count = @ - 1]
CS101_Queue_flush(q)      == [q EXCEPT !.count = 0, !.first = 0, !.last = 0]
Newest(list, c)           == IF Len(list) > Capacity(c) THEN Tail(list) ELSE list

NoAsdu == [sent |-> <<>>, taken |-> "none", ends |-> FALSE, legal |-> TRUE, handled |-> FALSE]
RequestsInit ==
  /\ stack \in {"cs101", "cs104"}
  /\ installed \in {{"asdu"}, Types, Types \cup {"asdu", "plugin"}}
  /\ queues = [c \in 1..2 |-> CS101_Queue_initialize(QueueSizes[c])]
  /\ outcome = NoAsdu
  /\ waiting101 = [c \in 1..2 |-> <<>>] /\ enqueued = 0

\* n entries, one after the other, into the queue of class c: an ASDU has two answers at most.
Enqueue101(c, n) ==
  /\ n \in 0..2 /\ enqueued + n <= MaxEnqueued
  /\ LET put(q, k)     == CS101_Queue_enqueue(q, c, enqueued + k)
         keep(list, k) == Newest(Append(list, enqueued + k), c)
     IN /\ queues' = [queues EXCEPT ![c] =
                         CASE n = 0 -> @ [] n = 1 -> put(@, 1) [] n = 2 -> put(put(@, 1), 2)]
        /\ waiting101' = [waiting101 EXCEPT ![c] =
                         CASE n = 0 -> @ [] n = 1 -> keep(@, 1) [] n = 2 -> keep(keep(@, 1), 2)]
  /\ enqueued' = enqueued + n

Became(c, a) ==
  /\ ~outcome.handled
  /\ outcome' = [sent |-> c.sent, taken |-> c.taken, ends |-> c.ends,
                 legal |-> Legal(a), handled |-> TRUE]

\* CS 104: the answers are sent, or queued by sendASDUInternal (see EventChannel).
Handle104(a) ==
  /\ stack = "cs104" /\ Became(handleASDU104(a), a)
  /\ UNCHANGED <<stack, installed, queues, waiting101, enqueued>>

\* HandleReceivedData of CS 101: the answers go into the class 1 queue.
HandleReceivedData(a) ==
  /\ stack = "cs101" /\ Became(handleASDU101(a), a)
  /\ Enqueue101(1, Len(handleASDU101(a).sent))
  /\ UNCHANGED <<stack, installed>>

\* The ASDU is done with; the next one may come.
AsduDone ==
  /\ outcome.handled /\ outcome' = NoAsdu
  /\ UNCHANGED <<stack, installed, queues, waiting101, enqueued>>

\* The application: events and data, and the handlers' own answers, of either class.
EnqueueUserData(c) ==
  /\ stack = "cs101" /\ Enqueue101(c, 1)
  /\ UNCHANGED <<stack, installed, outcome>>
FlushQueues ==
  /\ stack = "cs101"
  /\ queues' = [c \in 1..2 |-> CS101_Queue_flush(queues[c])]
  /\ waiting101' = [c \in 1..2 |-> <<>>]
  /\ UNCHANGED <<stack, installed, outcome, enqueued>>

\* The link layer.
Gather(c) ==
  /\ stack = "cs101" /\ queues[c].count > 0
  /\ queues' = [queues EXCEPT ![c] = CS101_Queue_dequeue(@, c)]
  /\ waiting101' = [waiting101 EXCEPT ![c] = Tail(@)]
  /\ UNCHANGED <<stack, installed, outcome, enqueued>>
GetClass1Data == Gather(1)
GetClass2Data == Gather(2)
\* A balanced link layer asks for data of either class, class 1 first.
GetUserData ==
  \/ GetClass1Data
  \/ /\ queues[1].count = 0
     /\ GetClass2Data

RequestsNext ==
  \/ \E a \in Asdus : Handle104(a) \/ HandleReceivedData(a)
  \/ AsduDone
  \/ \E c \in 1..2 : EnqueueUserData(c)
  \/ FlushQueues \/ GetClass1Data \/ GetClass2Data \/ GetUserData

RequestsSpec == RequestsInit /\ [][RequestsNext]_requestVars

-----------------------------------------------------------------------------
\* handleASDU: no ASDU is left without an answer, unless a plugin or a handler took it or it
\* could not be parsed and the handling ended; and none is answered twice, except the one with
\* an unknown cause, which is answered UNKNOWN_COT and then handled like one nobody knows.
AnsweredOnce ==
  LET n == Len(outcome.sent) IN
  outcome.handled =>
    /\ n = 0 => outcome.ends \/ outcome.taken \in {"plugin", "handler", "asduHandler"}
    /\ outcome.legal => n + (IF outcome.taken \in {"none", "slave"} THEN 0 ELSE 1) <= 1
    /\ ~outcome.legal => outcome.taken = "plugin" \/ outcome.sent[1] = "UNKNOWN_COT"

\* The ring of each queue holds the newest entries that were not gathered, oldest first:
\* overwriting, emptying and flushing never mix up its indices.
QueueKeepsNewest ==
  \A c \in 1..2 :
    [i \in 1..queues[c].count |-> queues[c].elements[(queues[c].first + i - 1) % Capacity(c)]]
      = waiting101[c]
=============================================================================
