-------------------------- MODULE MonolithPacking ---------------------------
(***************************************************************************)
(* The same for the single-file program (json-iec104-server.c), which puts *)
(* its points into ASDUs in other ways: the interrogation cuts the list of *)
(* a type into chunks of a size of its own, without looking at gaps, and a *)
(* periodic transmission puts the whole list into one ASDU.                *)
(***************************************************************************)
EXTENDS AsduPacking

\* interrogationHandler: the types in its order, with the size it takes an object for;
\* M_IT_TB_1 is not among them.
AnswerOrder == <<"M_SP_TB_1", "M_DP_TB_1", "M_ME_TD_1", "M_SP_NA_1", "M_DP_NA_1",
                 "M_ME_NA_1", "M_ME_NB_1", "M_ME_NC_1", "M_ME_ND_1">>
ObjectSize == [M_SP_TB_1 |-> 8, M_DP_TB_1 |-> 8, M_ME_TD_1 |-> 10, M_SP_NA_1 |-> 4,
               M_DP_NA_1 |-> 4, M_ME_NA_1 |-> 6, M_ME_NB_1 |-> 6, M_ME_NC_1 |-> 4,
               M_ME_ND_1 |-> 4]
calcMaxIOAs(t) == (MaxSizeOfASDU - 6) \div ObjectSize[t]

\* The ASDU made of the points of a list from index i on, n of them, as objects of a type.
AsduOf(type, list, i, n) ==
  [type |-> type, sequence |-> FALSE, ioas |-> SubSeq(list, i + 1, i + Taken(type, FALSE, n))]

AskMonolith(qoi) ==
  /\ request = "none" /\ sent' = <<>> /\ current' = 1 /\ offset' = 0
  /\ IF qoi = 20 THEN request' = "monolith" /\ confirmed' = "positive"
                 ELSE request' = request /\ confirmed' = "negative"
  /\ UNCHANGED <<station, first>>
\* Mutant of AnswerChunk: the next chunk starts one point too late.
AnswerChunkSkipping ==
  /\ request = "monolith" /\ current <= Len(AnswerOrder)
  /\ LET t == AnswerOrder[current]
         list == station[t]
         left == Len(list) - offset
     IN /\ left > 0
        /\ sent' = Append(sent, AsduOf(t, list, offset, IF left < calcMaxIOAs(t) THEN left
                                                        ELSE calcMaxIOAs(t)))
        /\ offset' = offset + calcMaxIOAs(t) + 1
  /\ UNCHANGED <<station, request, current, first, confirmed>>

\* One chunk of the answer, whatever addInformationObject takes of it.
AnswerChunk ==
  /\ request = "monolith" /\ current <= Len(AnswerOrder)
  /\ LET t == AnswerOrder[current]
         list == station[t]
         left == Len(list) - offset
     IN /\ left > 0
        /\ sent' = Append(sent, AsduOf(t, list, offset, IF left < calcMaxIOAs(t) THEN left
                                                        ELSE calcMaxIOAs(t)))
        /\ offset' = offset + calcMaxIOAs(t)
  /\ UNCHANGED <<station, request, current, first, confirmed>>
AnswerNextType ==
  /\ request = "monolith" /\ current <= Len(AnswerOrder)
  /\ offset >= Len(station[AnswerOrder[current]])
  /\ current' = current + 1 /\ offset' = 0
  /\ UNCHANGED <<station, request, first, confirmed, sent>>
EndAnswer ==
  /\ request = "monolith" /\ current > Len(AnswerOrder)
  /\ request' = "none"
  /\ UNCHANGED <<station, current, first, offset, confirmed, sent>>

\* SendPeriodicData: points of M_SP_TB_1 go out without their time.
SendPeriodicData(t) ==
  /\ request = "none" /\ station[t] # <<>>
  /\ sent' = <<AsduOf(IF t = "M_SP_TB_1" THEN "M_SP_NA_1" ELSE t, station[t], 0,
                      Len(station[t]))>>
  /\ UNCHANGED <<station, request, current, first, offset, confirmed>>

\* SendIntegratedTotalsPeriodic
SendTotals ==
  /\ request = "none" /\ station["M_IT_TB_1"] # <<>>
  /\ sent' = <<AsduOf("M_IT_NA_1", station["M_IT_TB_1"], 0, Len(station["M_IT_TB_1"]))>>
  /\ UNCHANGED <<station, request, current, first, offset, confirmed>>

MonolithPackNext ==
  \/ \E qoi \in {20, 21} : AskMonolith(qoi)
  \/ AnswerChunk \/ AnswerNextType \/ EndAnswer
  \/ \E t \in PeriodicTypes : SendPeriodicData(t)
  \/ SendTotals
MonolithPackSpec == PackInit /\ [][MonolithPackNext]_packVars

-----------------------------------------------------------------------------
\* At the end of an answer: of every chunk of a type's list the first points are answered, as
\* many as fit into an ASDU, in order and none twice; so that a type whose objects are not
\* larger than they are taken for is answered whole.
AnsweredAsFits ==
  request = "monolith" /\ current > Len(AnswerOrder) =>
    \A t \in DataTypes \ {"M_IT_TB_1"} :
      LET fits == Taken(t, FALSE, 127)
      IN /\ ExactlyAnswered(t, {p \in DOMAIN station[t] : (p - 1) % calcMaxIOAs(t) < fits})
         /\ ObjectSize[t] >= SizeOfIOA + ElementSize[t] => Answered(t) = station[t]
=============================================================================
