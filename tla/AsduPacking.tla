---------------------------- MODULE AsduPacking -----------------------------
(***************************************************************************)
(* How the configured points are put into ASDUs: the answer to a station   *)
(* interrogation (interrogation.c) and the periodic transmission           *)
(* (periodic_sender.c), which have the same loop.                          *)
(*                                                                         *)
(* A type's list of addresses is cut into runs of consecutive addresses, a *)
(* run into chunks of as many objects as should fit, and a chunk is added  *)
(* object by object to an ASDU; what addInformationObject answers is not   *)
(* looked at.  The mutex of a type is held for its whole list.             *)
(***************************************************************************)
EXTENDS ObjectLayouts, FiniteSets, SequencesExt

CONSTANT Stations   \* configurations: [DataTypes -> sequences of addresses]

\* DATA_TYPE_TABLE, in order, with its sizes of an object and its address.
TypeOrder == <<"M_SP_TB_1", "M_DP_TB_1", "M_ME_TD_1", "M_IT_TB_1", "M_SP_NA_1",
               "M_DP_NA_1", "M_ME_NA_1", "M_ME_NB_1", "M_ME_NC_1", "M_ME_ND_1">>
DataTypes == {TypeOrder[k] : k \in 1 .. Len(TypeOrder)}
IoSize == [M_SP_TB_1 |-> 11, M_DP_TB_1 |-> 11, M_ME_TD_1 |-> 13, M_IT_TB_1 |-> 15,
           M_SP_NA_1 |-> 4, M_DP_NA_1 |-> 4, M_ME_NA_1 |-> 6, M_ME_NB_1 |-> 6,
           M_ME_NC_1 |-> 8, M_ME_ND_1 |-> 5]
PeriodicTypes == {"M_ME_NC_1", "M_SP_TB_1"}

ASSUME StationsAssumption ==
  \A s \in Stations : \A t \in DataTypes : s[t] \in Seq(Nat)

VARIABLES
  station,    \* the configuration
  request,    \* what is being answered: "none", "interrogation" or "periodic"
  current,    \* index in TypeOrder of the type being sent
  first,      \* i: where the run starts in the list of the type
  offset,     \* j: where the chunk starts in the run
  confirmed,  \* ACT_CON: "no", "positive" or "negative"
  sent        \* the ASDUs, oldest first: [type, sequence, ioas]
packVars == <<station, request, current, first, offset, confirmed, sent>>

PackInit ==
  /\ station \in Stations
  /\ request = "none" /\ current = 1 /\ first = 0 /\ offset = 0
  /\ confirmed = "no" /\ sent = <<>>

calcMaxIOAs_SQ0(t) == (MaxSizeOfASDU - 6) \div IoSize[t]
\* Mutant of calcMaxIOAs_SQ1: the first object is not counted.
calcMaxIOAs_Following(t) == (MaxSizeOfASDU - 6) \div (IoSize[t] - 3) + 1

calcMaxIOAs_SQ1(t) ==
  IF MaxSizeOfASDU <= 6 + IoSize[t] THEN 1
  ELSE (MaxSizeOfASDU - 6 - IoSize[t]) \div (IoSize[t] - 3) + 1

\* seq_len: how many consecutive addresses start at index i (from 0).
RunEnds(list) == {k \in 1 .. Len(list) : k < Len(list) => list[k + 1] # list[k] + 1}
RunLength(list, i) == Min({k \in RunEnds(list) : k > i}) - i

UseSequence(list, i) == RunLength(list, i) >= 3
MaxIOAs(t, list, i) ==
  IF UseSequence(list, i) THEN calcMaxIOAs_SQ1(t) ELSE calcMaxIOAs_SQ0(t)

\* How many of n objects of a type CS101_ASDU_addInformationObject takes.
Taken(t, sequence, n) ==
  LET c == ClassOf(t)
      size(k) == IF sequence /\ k > 0 THEN SizeOfIOA + k * ElementSize[t]
                 ELSE k * (SizeOfIOA + ElementSize[t])
  IN Cardinality({k \in 1 .. n : k <= 127 /\ HasSpace(c, size(k - 1), sequence /\ k > 1)})

-----------------------------------------------------------------------------
\* interrogationHandler, station interrogation (20) or another qualifier.
Interrogate(qoi) ==
  /\ request = "none"
  /\ IF qoi = 20 THEN request' = "interrogation" /\ confirmed' = "positive"
                 ELSE request' = request /\ confirmed' = "negative"
  /\ current' = 1 /\ first' = 0 /\ offset' = 0 /\ sent' = <<>>
  /\ UNCHANGED station

\* periodic_sender_thread, when the period of a type is over.
StartPeriodic(t) ==
  /\ request = "none" /\ station[t] # <<>>
  /\ request' = "periodic" /\ confirmed' = "no"
  /\ current' = CHOOSE k \in 1 .. Len(TypeOrder) : TypeOrder[k] = t
  /\ first' = 0 /\ offset' = 0 /\ sent' = <<>>
  /\ UNCHANGED station

\* One chunk of a run: send_interrogation_for_type, send_periodic_data_for_type.
SendChunk ==
  LET t == TypeOrder[current]
      list == station[t]
      run == RunLength(list, first)
      max == MaxIOAs(t, list, first)
      length == IF offset + max < run THEN max ELSE run - offset
      taken == Taken(t, UseSequence(list, first), length)
      start == first + offset
  IN /\ request # "none" /\ current <= Len(TypeOrder) /\ first < Len(list)
     /\ sent' = Append(sent, [type |-> t, sequence |-> UseSequence(list, first),
                              ioas |-> SubSeq(list, start + 1, start + taken)])
     /\ IF offset + max < run THEN offset' = offset + max /\ first' = first
                              ELSE offset' = 0 /\ first' = first + run
     /\ UNCHANGED <<station, request, current, confirmed>>

\* The next type of an interrogation.
NextType ==
  /\ request = "interrogation" /\ current <= Len(TypeOrder)
  /\ first = Len(station[TypeOrder[current]])
  /\ current' = current + 1 /\ first' = 0
  /\ UNCHANGED <<station, request, offset, confirmed, sent>>

\* sendACT_TERM, or the end of a periodic transmission.
Finished ==
  \/ request = "interrogation" /\ current > Len(TypeOrder)
  \/ request = "periodic" /\ first = Len(station[TypeOrder[current]])
Terminate ==
  /\ Finished
  /\ request' = "none"
  /\ UNCHANGED <<station, current, first, offset, confirmed, sent>>

PackNext ==
  \/ \E qoi \in {20, 21} : Interrogate(qoi)
  \/ \E t \in PeriodicTypes : StartPeriodic(t)
  \/ SendChunk
  \/ NextType
  \/ Terminate
PackSpec == PackInit /\ [][PackNext]_packVars

-----------------------------------------------------------------------------
\* Addresses answered for a type, in the order of the ASDUs.
Answered(t) ==
  FlattenSeq([k \in 1 .. Len(sent) |-> IF sent[k].type = t THEN sent[k].ioas ELSE <<>>])

\* Index p of a list is the 128th or a later object of an ASDU.
RunStart(list, p) == Max({0} \cup {k \in RunEnds(list) : k < p}) + 1
Overflows(t, p) ==
  LET s == RunStart(station[t], p) IN (p - s) % MaxIOAs(t, station[t], s - 1) >= 127

\* Of a type exactly some points of its list were answered, in order and once.
ExactlyAnswered(t, points) ==
  LET answered == Answered(t)
      rank(p) == Cardinality({q \in points : q <= p})
  IN /\ Len(answered) = Cardinality(points)
     /\ \A p \in points : answered[rank(p)] = station[t][p]
TypesAsked ==
  IF request = "interrogation" THEN DataTypes ELSE {TypeOrder[current]}

\* When an interrogation or a periodic transmission ends, every configured point it is
\* about was sent once and in order, whatever the gaps, the lengths of the runs and the
\* sizes; but not what addInformationObject refuses because an ASDU counts to 127.
OnlyCountLoses ==
  Finished => \A t \in TypesAsked :
    ExactlyAnswered(t, {p \in DOMAIN station[t] : ~Overflows(t, p)})

\* "Iterate through all data types and send their data": when the activation termination
\* is sent, every configured point was answered.
InterrogationComplete ==
  Finished /\ request = "interrogation" =>
    \A t \in DataTypes : Answered(t) = station[t]
=============================================================================
