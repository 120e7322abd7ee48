------------------------------ MODULE EventFifo ------------------------------
(***************************************************************************)
(* What the event queue of the slave promises its callers: a list, oldest  *)
(* first, that gives up only its oldest entries.  This is the queue that   *)
(* EventChannel works with.                                                *)
(***************************************************************************)
EXTENDS Integers, Sequences

VARIABLES fifo,    \* sequence of [id, state], state as in QueueEntryState
          lastId,  \* number of the newest entry
          due      \* numbers of entries handed out whose confirmation may come

fifoVars == <<fifo, lastId, due>>

FifoInit == fifo = <<>> /\ lastId = 0 /\ due = {}

\* A new entry; some of the oldest ones may have to go.
Add ==
  /\ lastId' = lastId + 1
  /\ \E n \in 0 .. Len(fifo) :
       fifo' = Append(SubSeq(fifo, n + 1, Len(fifo)), [id |-> lastId', state |-> "waiting"])
  /\ UNCHANGED due

\* The oldest waiting entry is handed out.
HandOut ==
  /\ \E i \in 1 .. Len(fifo) :
       /\ fifo[i].state = "waiting"
       /\ \A j \in 1 .. i - 1 : fifo[j].state # "waiting"
       /\ fifo' = [fifo EXCEPT ![i].state = "sent"]
       /\ due' = due \cup {fifo[i].id}
  /\ UNCHANGED lastId

\* The confirmation of entry e: it leaves at the front, is marked behind it, and when it
\* is no longer in the list nothing happens to the others.
ConfirmedList(e) ==
  IF fifo # <<>> /\ fifo[1].id = e THEN Tail(fifo)
  ELSE [i \in 1 .. Len(fifo) |->
          IF fifo[i].id = e THEN [fifo[i] EXCEPT !.state = "confirmed"] ELSE fifo[i]]

\* Only an entry that was handed out is confirmed; once handed out twice, maybe twice.
Confirmed ==
  /\ \E e \in due : fifo' = ConfirmedList(e) /\ due' \in {due, due \ {e}}
  /\ UNCHANGED lastId

\* A connection ends: what was handed out waits again.  Confirmations of its own entries
\* will not come any more, those of entries other connections sent may.
PutBack ==
  /\ fifo' = [i \in 1 .. Len(fifo) |->
                IF fifo[i].state = "sent" THEN [fifo[i] EXCEPT !.state = "waiting"]
                ELSE fifo[i]]
  /\ due' \in SUBSET due
  /\ UNCHANGED lastId

Drop == fifo' = <<>> /\ UNCHANGED <<lastId, due>>

FifoSpec == FifoInit /\ [][Add \/ HandOut \/ Confirmed \/ PutBack \/ Drop]_fifoVars
=============================================================================
