----------------------------- MODULE AtLeastOnce -----------------------------
(***************************************************************************)
(* What the event channel promises to the application that enqueues        *)
(* events: an event is kept for transmission until a master has received   *)
(* it, and the only other way to lose it is to be the oldest one kept when *)
(* a new event finds the queue full.  Nothing is said about duplicates.    *)
(***************************************************************************)
EXTENDS Integers

CONSTANT MaxId      \* bound of the model: events ever submitted

VARIABLES
  nextId,     \* number of the next event
  pending,    \* events kept for transmission
  received    \* events some master has received

vars == <<nextId, pending, received>>

Init ==
  /\ nextId = 1
  /\ pending = {}
  /\ received = {}

\* A new event is kept; at most the oldest one makes room for it.
Submit ==
  /\ nextId <= MaxId
  /\ nextId' = nextId + 1
  /\ \/ pending' = pending \cup {nextId}
     \/ \E old \in pending :
          /\ \A id \in pending : old <= id
          /\ pending' = (pending \ {old}) \cup {nextId}
  /\ UNCHANGED received

\* A master receives events, for the first time or again.
Receive ==
  /\ \E ids \in SUBSET (1..(nextId - 1)) : received' = received \cup ids
  /\ UNCHANGED <<nextId, pending>>

\* An event that was received is no longer kept.
Release ==
  /\ \E id \in pending \cap received : pending' = pending \ {id}
  /\ UNCHANGED <<nextId, received>>

Next == Submit \/ Receive \/ Release

Spec == Init /\ [][Next]_vars

=============================================================================
