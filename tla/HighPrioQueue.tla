---------------------------- MODULE HighPrioQueue ----------------------------
(***************************************************************************)
(* HighPriorityASDUQueue of cs104_slave.c: the answers to commands as      *)
(* entries of different sizes in a byte buffer that wraps around.  Unlike  *)
(* the MessageQueue it refuses an entry it has no room for.                *)
(*                                                                         *)
(* Offsets and sizes count units; where tells which entry wrote each unit  *)
(* last, a header taking the first unit of its entry.                      *)
(***************************************************************************)
EXTENDS Integers, Sequences

CONSTANTS
  PrioSize,     \* size of the buffer
  PrioEntries,  \* sizes an entry may have, with its header
  MaxAnswers    \* bound: entries ever added

\* HighPriorityASDUQueue_create makes room for maxHighPrioQueueSize of the largest entries.
ASSUME PrioAssumption ==
  /\ PrioSize \in Nat /\ MaxAnswers \in Nat /\ PrioEntries \subseteq Nat \ {0}
  /\ \A s \in PrioEntries : 2 * s <= PrioSize

VARIABLES
  firstPrio, lastPrio, lastInPrio,  \* firstEntry, lastEntry, lastInBufferEntry: offsets or NoPrio
  prioCounter,   \* entryCounter
  where,         \* unit -> the entry that wrote it last, 0 for none
  sizes,         \* size of each entry ever added, in order
  queuedPrio,    \* history: the entries to be taken, in order
  taken,         \* history: the entry taken last, and whether it was read whole
  cramped        \* history: an entry was put at the start of the buffer a second time
prioVars == <<firstPrio, lastPrio, lastInPrio, prioCounter, where, sizes, queuedPrio, taken,
              cramped>>
NoPrio == -1
Largest == CHOOSE s \in PrioEntries : \A t \in PrioEntries : t <= s
SizeOf(o) == IF o \in DOMAIN where /\ where[o] # 0 THEN sizes[where[o]] ELSE 0

\* HighPriorityASDUQueue_create, HighPriorityASDUQueue_initialize.
PrioInit ==
  /\ firstPrio = NoPrio /\ lastPrio = NoPrio /\ lastInPrio = NoPrio /\ prioCounter = 0
  /\ where = [o \in 0..(PrioSize - 1) |-> 0] /\ sizes = <<>>
  /\ queuedPrio = <<>> /\ taken = [entry |-> 0, whole |-> TRUE] /\ cramped = FALSE

-----------------------------------------------------------------------------
\* HighPriorityASDUQueue_enqueue.  An entry goes behind the last one, or to the start of the
\* buffer when it does not fit before its end.
Following == IF prioCounter = 0 THEN 0 ELSE lastPrio + SizeOf(lastPrio)
Fits(s)   == Following + s <= PrioSize
Place(s)  == IF Fits(s) THEN Following ELSE 0
FirstNow  == IF prioCounter = 0 THEN 0 ELSE firstPrio
Wrapped   == prioCounter > 0 /\ lastPrio < firstPrio

\* Mutant of Accepted: only an entry that begins before the oldest can run into it.
AcceptedBefore(s) == prioCounter = 0 \/ Place(s) >= FirstNow \/ Place(s) + s <= FirstNow

Accepted(s) == prioCounter = 0 \/ Place(s) > FirstNow \/ Place(s) + s <= FirstNow

\* lastInBufferEntry changes also for an entry that is refused.
LastInNow(s) ==
  IF prioCounter > 0 /\ Place(s) > FirstNow THEN Place(s)
  ELSE IF ~Fits(s) THEN lastPrio ELSE IF prioCounter = 0 THEN 0 ELSE lastInPrio

EnqueuePrio(s) ==
  LET entry == Len(sizes) + 1 IN
  /\ Len(sizes) < MaxAnswers
  /\ firstPrio' = FirstNow /\ lastInPrio' = LastInNow(s)
  /\ IF Accepted(s)
       THEN /\ lastPrio' = Place(s) /\ prioCounter' = prioCounter + 1
            /\ where' = [o \in DOMAIN where |->
                           IF o \in Place(s)..(Place(s) + s - 1) THEN entry ELSE where[o]]
            /\ sizes' = Append(sizes, s) /\ queuedPrio' = Append(queuedPrio, entry)
            /\ cramped' = (cramped \/ (Wrapped /\ ~Fits(s)))
       ELSE UNCHANGED <<lastPrio, prioCounter, where, sizes, queuedPrio, cramped>>
  /\ UNCHANGED taken

\* HighPriorityASDUQueue_getNextASDU: the pointers stay when it was the last entry.
GetNextPrio ==
  LET entry == where[firstPrio]
      units == firstPrio..(firstPrio + SizeOf(firstPrio) - 1)
  IN
  /\ prioCounter > 0 /\ firstPrio \in DOMAIN where
  /\ prioCounter' = prioCounter - 1
  /\ taken' = [entry |-> entry, whole |-> entry = Head(queuedPrio)
                                            /\ \A o \in units : where[o] = entry]
  /\ queuedPrio' = Tail(queuedPrio)
  /\ IF prioCounter = 1 THEN UNCHANGED <<firstPrio, lastPrio, lastInPrio>>
     ELSE IF firstPrio = lastPrio
       THEN firstPrio' = NoPrio /\ lastPrio' = NoPrio /\ lastInPrio' = NoPrio
     ELSE IF firstPrio = lastInPrio
       THEN firstPrio' = 0 /\ lastInPrio' = lastPrio /\ UNCHANGED lastPrio
     ELSE firstPrio' = firstPrio + SizeOf(firstPrio) /\ UNCHANGED <<lastPrio, lastInPrio>>
  /\ UNCHANGED <<where, sizes, cramped>>

\* HighPriorityASDUQueue_resetConnectionQueue.
ResetPrio ==
  /\ firstPrio' = NoPrio /\ lastPrio' = NoPrio /\ lastInPrio' = NoPrio /\ prioCounter' = 0
  /\ queuedPrio' = <<>>
  /\ UNCHANGED <<where, sizes, taken, cramped>>

PrioNext == (\E s \in PrioEntries : EnqueuePrio(s)) \/ GetNextPrio \/ ResetPrio

PrioSpec == PrioInit /\ [][PrioNext]_prioVars

\* HighPriorityASDUQueue_isFull: no room for an entry of the largest size.
PrioFull ==
  LET next == IF Following + Largest > PrioSize THEN 0 ELSE Following
  IN prioCounter > 0 /\ next <= firstPrio /\ next + Largest > firstPrio

-----------------------------------------------------------------------------
\* Answers leave the queue in the order they were put in and whole; and a queue that says it
\* is not full takes the next answer.  Both fail when entries of different sizes leave, behind
\* the newest entry of a queue that has wrapped, too little room before the end of the buffer:
\* the next one is put at its start again, over answers that wait there.
AnswersWhole ==
  ~cramped =>
    /\ taken.whole
    /\ prioCounter > 0 => firstPrio \in DOMAIN where
    /\ ~PrioFull /\ ~(Wrapped /\ ~Fits(Largest)) => \A s \in PrioEntries : Accepted(s)
=============================================================================
