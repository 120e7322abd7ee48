---------------------------- MODULE MCProcessData ----------------------------
(***************************************************************************)
(* ProcessData for TLC: one object with time tag and one float with a      *)
(* deadband, the two types that are also sent periodically.                *)
(***************************************************************************)
EXTENDS ProcessData

CONSTANTS single, float

Points == {single, float}

ObjectType == [a \in Points |-> IF a = single THEN "M_SP_TB_1" ELSE "M_ME_NC_1"]

\* From 10 to 11 is the deadband exactly, from 11 to 10 is within it.
ObjectValue == [a \in Points |-> IF a = single THEN {0, 1} ELSE {10, 11}]

\* Qualities and what was read last matter only to InvalidUntilData.
ImageView == <<value, typed, tracker, input, handler, due, link, queue, sent,
               seen, silent>>

=============================================================================
