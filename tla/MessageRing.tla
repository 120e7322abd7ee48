----------------------------- MODULE MessageRing -----------------------------
(***************************************************************************)
(* MessageQueue of cs104_slave.c: the events as entries of different sizes *)
(* in a byte buffer that wraps around, found by three pointers and the     *)
(* sizes in the headers.  An entry is written over whatever was there.     *)
(*                                                                         *)
(* Offsets and sizes count units; a header takes the first unit of its     *)
(* entry.  mem tells which entry wrote each unit last, so that a header is *)
(* readable as long as its unit is still its own.                          *)
(***************************************************************************)
EXTENDS Integers, Sequences, FiniteSets

CONSTANTS
  BufferSize,  \* size of the buffer
  EntrySizes,  \* sizes an entry may have, with its header
  MaxEntries   \* bound: entries ever added

\* MessageQueue_create makes room for maxQueueSize entries of the largest size; at
\* least two are needed: with one, the pointers do not survive the wrap-around of an
\* entry that stands alone at the start of the buffer.
ASSUME RingAssumption ==
  /\ BufferSize \in Nat /\ MaxEntries \in Nat
  /\ EntrySizes \subseteq Nat \ {0}
  /\ \A s \in EntrySizes : 2 * s <= BufferSize

Offset == 0 .. BufferSize - 1
Null   == -1
Entry  == 1 .. MaxEntries

VARIABLES
  firstEntry, lastEntry, lastInBufferEntry,  \* offsets or Null
  entryCounter,
  entryId,      \* number of the next entry
  mem,          \* unit -> the entry that wrote it last, 0 for none
  header,       \* entry -> what was written for it: place, size and state
  pending       \* entries handed out whose confirmation may come

ringVars == <<firstEntry, lastEntry, lastInBufferEntry, entryCounter, entryId, mem,
              header, pending>>
pointers == <<firstEntry, lastEntry, lastInBufferEntry, entryCounter>>

NoHeader == [at |-> 0, size |-> 1, state |-> "confirmed"]

RingInit ==
  /\ firstEntry = Null /\ lastEntry = Null /\ lastInBufferEntry = Null
  /\ entryCounter = 0 /\ entryId = 1
  /\ mem = [o \in Offset |-> 0]
  /\ header = [e \in Entry |-> NoHeader]
  /\ pending = {}

\* The header read at an offset; an overwritten one reads as garbage, here NoHeader.
HeaderAt(o) ==
  IF o \in Offset /\ mem[o] # 0 /\ header[mem[o]].at = o THEN header[mem[o]] ELSE NoHeader
SizeAt(o) == HeaderAt(o).size

\* The entry after the one at o, as every walk through the buffer finds it.
After(o, lastIn) == IF o = lastIn THEN 0 ELSE o + SizeAt(o)

\* The first n places a walk from the first entry visits.
Walk(n) ==
  LET place[i \in 1 .. n] ==
        IF i = 1 THEN firstEntry ELSE After(place[i - 1], lastInBufferEntry)
  IN place
Places == Walk(entryCounter)

\* MessageQueue_countEntriesUntilEndOfBuffer from the first entry, in entries that exist.
UntilEnd ==
  Cardinality({i \in 1 .. entryCounter :
                 \A j \in 1 .. i - 1 : Places[j] # lastInBufferEntry})

(***************************************************************************)
(* MessageQueue_enqueueASDU                                                *)
(***************************************************************************)
Rest(first, lastIn, count, done) ==
  [first |-> first, lastIn |-> lastIn, count |-> count, done |-> done]

\* Mutant of EvictOldest: one unit short.
EvictShort(p, s, r) ==
  IF r.done \/ p + s <= r.first + 1 \/ r.count = 0 THEN r
  ELSE IF r.first = r.lastIn THEN Rest(0, p, r.count - 1, TRUE)
  ELSE Rest(r.first + SizeAt(r.first), r.lastIn, r.count - 1, FALSE)

\* One round of the loop that removes the oldest entries until s units are free at place
\* p.  Past the end of the buffer it is done: the rest is given away at once.
EvictOldest(p, s, r) ==
  IF r.done \/ p + s <= r.first \/ r.count = 0 THEN r
  ELSE IF r.first = r.lastIn THEN Rest(0, p, r.count - 1, TRUE)
  ELSE Rest(r.first + SizeAt(r.first), r.lastIn, r.count - 1, FALSE)

\* The whole loop: a round for each entry there is, the state after k of them.
Evict(p, s, start) ==
  LET after[k \in 0 .. start.count] ==
        IF k = 0 THEN start ELSE EvictOldest(p, s, after[k - 1])
  IN after[start.count]

\* Where the new entry goes and what is left of the old ones: one that does not fit behind
\* the newest starts the buffer anew, and gives away what is left of its older part.
Placed(s) ==
  LET next   == lastEntry + SizeAt(lastEntry)
      fits   == next + s <= BufferSize
      anew   == ~fits /\ next <= firstEntry
      first  == IF anew THEN 0 ELSE firstEntry
      lastIn == IF ~fits /\ lastEntry > first THEN lastEntry ELSE lastInBufferEntry
      kept   == Rest(first, lastIn, IF anew THEN entryCounter - UntilEnd ELSE entryCounter,
                     FALSE)
      place  == IF fits THEN next ELSE 0
  IN IF entryCounter = 0 THEN [at |-> 0, ring |-> Rest(0, 0, 0, FALSE)]
     ELSE [at |-> place, ring |-> IF place <= first THEN Evict(place, s, kept) ELSE kept]

Enqueue(s) ==
  /\ entryId \in Entry
  /\ LET placed == Placed(s) IN
       /\ firstEntry' = placed.ring.first
       /\ lastEntry' = placed.at
       /\ lastInBufferEntry' = IF placed.at > placed.ring.lastIn THEN placed.at
                               ELSE placed.ring.lastIn
       /\ entryCounter' = placed.ring.count + 1
       /\ mem' = [o \in Offset |->
                    IF o \in placed.at .. placed.at + s - 1 THEN entryId ELSE mem[o]]
       /\ header' = [header EXCEPT ![entryId] =
                       [at |-> placed.at, size |-> s, state |-> "waiting"]]
  /\ entryId' = entryId + 1
  /\ UNCHANGED pending

(***************************************************************************)
(* Sending, confirming, putting back                                       *)
(***************************************************************************)
\* MessageQueue_getNextWaitingASDU: the walk stops at the first waiting entry.
GetNextWaiting ==
  /\ entryCounter # 0
  /\ \E i \in 1 .. entryCounter :
       /\ HeaderAt(Places[i]).state = "waiting"
       /\ \A j \in 1 .. i - 1 : HeaderAt(Places[j]).state # "waiting"
       /\ header' = [header EXCEPT ![mem[Places[i]]].state = "sent"]
       /\ pending' = pending \cup {mem[Places[i]]}
  /\ UNCHANGED <<pointers, entryId, mem>>

\* removeFirstEntry.
RemoveFirstEntry ==
  /\ IF firstEntry = lastInBufferEntry
       THEN IF firstEntry = lastEntry
              THEN firstEntry' = Null /\ lastEntry' = Null /\ lastInBufferEntry' = Null
              ELSE firstEntry' = 0 /\ lastInBufferEntry' = lastEntry /\ UNCHANGED lastEntry
       ELSE /\ firstEntry' = firstEntry + SizeAt(firstEntry)
            /\ UNCHANGED <<lastEntry, lastInBufferEntry>>
  /\ entryCounter' = entryCounter - 1

\* MessageQueue_markAsduAsConfirmed for an entry that was handed out: the number must
\* be among the newest entryCounter ones, and still be the one at its place.  One that
\* was put back while its connection lived on may have been handed out twice, and is then
\* confirmed twice.
Plausible(e) == entryCounter > 0 /\ entryId - 1 - e < entryCounter

\* Mutant of MarkAsConfirmed: what lies at the place now is confirmed, whatever it is.
MarkAnyAsConfirmed(e) ==
  /\ pending' \in {pending, pending \ {e}}
  /\ IF entryCounter > 0 /\ mem[header[e].at] # 0
       THEN /\ header' = [header EXCEPT ![mem[header[e].at]].state = "confirmed"]
            /\ IF header[e].at = firstEntry THEN RemoveFirstEntry ELSE UNCHANGED pointers
       ELSE UNCHANGED <<header, pointers>>
  /\ UNCHANGED <<entryId, mem>>

MarkAsConfirmed(e) ==
  /\ pending' \in {pending, pending \ {e}}
  /\ IF Plausible(e) /\ mem[header[e].at] = e
       THEN /\ header' = [header EXCEPT ![e].state = "confirmed"]
            /\ IF header[e].at = firstEntry THEN RemoveFirstEntry ELSE UNCHANGED pointers
       ELSE UNCHANGED <<header, pointers>>
  /\ UNCHANGED <<entryId, mem>>

\* MessageQueue_setWaitingForTransmissionWhenNotConfirmed, when a connection ends; its
\* own unconfirmed entries will not be confirmed any more, those of others may be.
SetWaiting ==
  /\ header' = [e \in Entry |->
                  IF (\E i \in 1 .. entryCounter : mem[Places[i]] = e) /\ header[e].state = "sent"
                    THEN [header[e] EXCEPT !.state = "waiting"] ELSE header[e]]
  /\ pending' \in SUBSET pending
  /\ UNCHANGED <<pointers, entryId, mem>>

\* MessageQueue_releaseAllQueuedASDUs.
ReleaseAll ==
  /\ firstEntry' = Null /\ lastEntry' = Null /\ lastInBufferEntry' = Null
  /\ entryCounter' = 0
  /\ UNCHANGED <<entryId, mem, header, pending>>

RingNext ==
  \/ \E s \in EntrySizes : Enqueue(s)
  \/ GetNextWaiting \/ SetWaiting \/ ReleaseAll
  \/ \E e \in pending : MarkAsConfirmed(e)

RingSpec == RingInit /\ [][RingNext]_ringVars

-----------------------------------------------------------------------------
\* The walk finds exactly the newest entryCounter entries, in order, up to lastEntry,
\* each one whole: no later entry was written over a part of it, wherever the buffer
\* wrapped and whatever had to be removed.
EntriesIntact ==
  entryCounter > 0 =>
    /\ Places[entryCounter] = lastEntry
    /\ \A i \in 1 .. entryCounter :
         LET e == entryId - 1 - entryCounter + i IN
         /\ e \in Entry /\ header[e].at = Places[i]
         /\ \A o \in Places[i] .. Places[i] + header[e].size - 1 :
              o \in Offset /\ mem[o] = e

\* The queue as its callers see it.
Content == [i \in 1 .. entryCounter |->
              [id |-> mem[Places[i]], state |-> HeaderAt(Places[i]).state]]

Fifo == INSTANCE EventFifo WITH
  fifo <- Content, lastId <- entryId - 1, due <- pending

\* The buffer is a list that gives up its oldest entries only: no other entry is lost or
\* reordered, the oldest waiting one is handed out, and a confirmation reaches the entry
\* it is about or none, whatever lies at that entry's place by now.
RingIsFifo == Fifo!FifoSpec
=============================================================================
