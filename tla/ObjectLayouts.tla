------------------------- MODULE ObjectLayouts ---------------------------
(***************************************************************************)
(* The information objects of lib60870 (cs101_information_objects.c) as    *)
(* layouts of fields: what each class writes, what it asks for before it   *)
(* writes or reads, and how getElement finds it in an ASDU.                *)
(***************************************************************************)
EXTENDS Integers, Sequences

CONSTANTS
  MaxSizeOfASDU,     \* parameters->maxSizeOfASDU
  SizeOfCOT, SizeOfCA, SizeOfIOA

ASSUME ParametersAssumption ==
  /\ SizeOfCOT \in 1 .. 2 /\ SizeOfCA \in 1 .. 2 /\ SizeOfIOA \in 1 .. 3
  /\ MaxSizeOfASDU \in 40 .. 254

HeaderLength == 2 + SizeOfCOT + SizeOfCA

\* FileSegment_GetMaxDataSize; segments are full here.
MaxSegment == MaxSizeOfASDU - HeaderLength - SizeOfIOA - 4

\* Bytes of a field, named as in the standard.
Width == [SIQ |-> 1, DIQ |-> 1, VTI |-> 1, QDS |-> 1, BSI |-> 4, NVA |-> 2, SVA |-> 2,
          R32 |-> 4, BCR |-> 5, SEP |-> 1, SPE |-> 1, QDP |-> 1, OCI |-> 1, SCD |-> 4,
          SCO |-> 1, DCO |-> 1, RCO |-> 1, QOS |-> 1, QPA |-> 1, COI |-> 1, QOI |-> 1,
          QCC |-> 1, FBP |-> 2, TSC |-> 2, QRP |-> 1, NOF |-> 2, LOF |-> 3, FRQ |-> 1,
          NOS |-> 1, SRQ |-> 1, SCQ |-> 1, LSQ |-> 1, CHS |-> 1, AFQ |-> 1, SOF |-> 1,
          LOS |-> 1, SEG |-> MaxSegment, CP16 |-> 2, CP24 |-> 3, CP56 |-> 7]

(***************************************************************************)
(* The classes.  space and spaceInSequence are what _encode asks for       *)
(* besides the address (if checked), fields is what it writes and what     *)
(* _getFromBuffer reads, needs is what the latter asks for.  indexed tells *)
(* how CS101_ASDU_getElementEx finds the element of an index: in both kinds*)
(* of ASDU, by whole objects, or always the first.                         *)
(***************************************************************************)
Class(type, n, fields, indexed) ==
  [type |-> type, fields |-> fields, space |-> n, spaceInSequence |-> n, checked |-> TRUE,
   needs |-> n, addressAlways |-> FALSE, indexed |-> indexed]
Monitored(type, n, fields) == Class(type, n, fields, "sequence")
Control(type, n, fields)   == Class(type, n, fields, "object")
Single(type, n, fields)    == Class(type, n, fields, "first")

\* The parameter classes are measured values under another type, read one by one.
Parameter(type, class) == [class EXCEPT !.type = type, !.indexed = "object"]

\* Monitoring direction
SinglePointInformation == Monitored("M_SP_NA_1", 1, <<"SIQ">>)
SinglePointWithCP24Time2a == Monitored("M_SP_TA_1", 4, <<"SIQ", "CP24">>)
DoublePointInformation == Monitored("M_DP_NA_1", 1, <<"DIQ">>)
DoublePointWithCP24Time2a == Monitored("M_DP_TA_1", 4, <<"DIQ", "CP24">>)
StepPositionInformation == Monitored("M_ST_NA_1", 2, <<"VTI", "QDS">>)
StepPositionWithCP24Time2a == Monitored("M_ST_TA_1", 5, <<"VTI", "QDS", "CP24">>)
BitString32 == Monitored("M_BO_NA_1", 5, <<"BSI", "QDS">>)
Bitstring32WithCP24Time2a == Monitored("M_BO_TA_1", 8, <<"BSI", "QDS", "CP24">>)
MeasuredValueNormalized == Monitored("M_ME_NA_1", 3, <<"NVA", "QDS">>)
MeasuredValueNormalizedWithCP24Time2a ==
  Monitored("M_ME_TA_1", 6, <<"NVA", "QDS", "CP24">>)
MeasuredValueScaled == Monitored("M_ME_NB_1", 3, <<"SVA", "QDS">>)
MeasuredValueScaledWithCP24Time2a == Monitored("M_ME_TB_1", 6, <<"SVA", "QDS", "CP24">>)
MeasuredValueShort == Monitored("M_ME_NC_1", 5, <<"R32", "QDS">>)
MeasuredValueShortWithCP24Time2a == Monitored("M_ME_TC_1", 8, <<"R32", "QDS", "CP24">>)
IntegratedTotals == Monitored("M_IT_NA_1", 5, <<"BCR">>)
IntegratedTotalsWithCP24Time2a == Monitored("M_IT_TA_1", 8, <<"BCR", "CP24">>)
EventOfProtectionEquipment == Monitored("M_EP_TA_1", 6, <<"SEP", "CP16", "CP24">>)
PackedStartEventsOfProtectionEquipment ==
  Monitored("M_EP_TB_1", 7, <<"SPE", "QDP", "CP16", "CP24">>)
PackedOutputCircuitInfo == Monitored("M_EP_TC_1", 7, <<"OCI", "QDP", "CP16", "CP24">>)
PackedSinglePointWithSCD == Monitored("M_PS_NA_1", 5, <<"SCD", "QDS">>)
MeasuredValueNormalizedWithoutQuality == Monitored("M_ME_ND_1", 2, <<"NVA">>)
SinglePointWithCP56Time2a == Monitored("M_SP_TB_1", 8, <<"SIQ", "CP56">>)
DoublePointWithCP56Time2a == Monitored("M_DP_TB_1", 8, <<"DIQ", "CP56">>)
StepPositionWithCP56Time2a == Monitored("M_ST_TB_1", 9, <<"VTI", "QDS", "CP56">>)
Bitstring32WithCP56Time2a == Monitored("M_BO_TB_1", 12, <<"BSI", "QDS", "CP56">>)
MeasuredValueNormalizedWithCP56Time2a ==
  Monitored("M_ME_TD_1", 10, <<"NVA", "QDS", "CP56">>)
MeasuredValueScaledWithCP56Time2a == Monitored("M_ME_TE_1", 10, <<"SVA", "QDS", "CP56">>)
MeasuredValueShortWithCP56Time2a == Monitored("M_ME_TF_1", 12, <<"R32", "QDS", "CP56">>)
IntegratedTotalsWithCP56Time2a == Monitored("M_IT_TB_1", 12, <<"BCR", "CP56">>)
EventOfProtectionEquipmentWithCP56Time2a ==
  Monitored("M_EP_TD_1", 10, <<"SEP", "CP16", "CP56">>)
PackedStartEventsOfProtectionEquipmentWithCP56Time2a ==
  Monitored("M_EP_TE_1", 11, <<"SPE", "QDP", "CP16", "CP56">>)
PackedOutputCircuitInfoWithCP56Time2a ==
  Monitored("M_EP_TF_1", 11, <<"OCI", "QDP", "CP16", "CP56">>)
FileDirectory ==
  [Monitored("F_DR_TA_1", 13, <<"NOF", "LOF", "SOF", "CP56">>) EXCEPT !.addressAlways = TRUE]

\* Control direction
SingleCommand == Control("C_SC_NA_1", 1, <<"SCO">>)
DoubleCommand == Control("C_DC_NA_1", 1, <<"DCO">>)
StepCommand == Control("C_RC_NA_1", 1, <<"RCO">>)
SetpointCommandNormalized == Control("C_SE_NA_1", 3, <<"NVA", "QOS">>)
SetpointCommandScaled == Control("C_SE_NB_1", 3, <<"SVA", "QOS">>)
SetpointCommandShort == Control("C_SE_NC_1", 5, <<"R32", "QOS">>)
Bitstring32Command ==
  [Control("C_BO_NA_1", 4, <<"BSI">>) EXCEPT !.space = 5, !.spaceInSequence = 5]
SingleCommandWithCP56Time2a == Control("C_SC_TA_1", 8, <<"SCO", "CP56">>)
DoubleCommandWithCP56Time2a == Control("C_DC_TA_1", 8, <<"DCO", "CP56">>)
StepCommandWithCP56Time2a == Control("C_RC_TA_1", 8, <<"RCO", "CP56">>)
SetpointCommandNormalizedWithCP56Time2a ==
  Control("C_SE_TA_1", 10, <<"NVA", "QOS", "CP56">>)
SetpointCommandScaledWithCP56Time2a == Control("C_SE_TB_1", 10, <<"SVA", "QOS", "CP56">>)
SetpointCommandShortWithCP56Time2a == Control("C_SE_TC_1", 12, <<"R32", "QOS", "CP56">>)
Bitstring32CommandWithCP56Time2a ==
  [Control("C_BO_TA_1", 11, <<"BSI", "CP56">>) EXCEPT !.space = 12, !.spaceInSequence = 12]
ParameterActivation == Control("P_AC_NA_1", 1, <<"QPA">>)
ParameterNormalizedValue == Parameter("P_ME_NA_1", MeasuredValueNormalized)
ParameterScaledValue == Parameter("P_ME_NB_1", MeasuredValueScaled)
ParameterFloatValue == Parameter("P_ME_NC_1", MeasuredValueShort)

\* System commands and files: getElement looks at the first object only.
EndOfInitialization == Single("M_EI_NA_1", 1, <<"COI">>)
InterrogationCommand == Single("C_IC_NA_1", 1, <<"QOI">>)
CounterInterrogationCommand == Single("C_CI_NA_1", 1, <<"QCC">>)
ReadCommand == Single("C_RD_NA_1", 0, <<>>)
ClockSynchronizationCommand == Single("C_CS_NA_1", 7, <<"CP56">>)
TestCommand == [Single("C_TS_NA_1", 2, <<"FBP">>) EXCEPT !.needs = 2 - SizeOfIOA]
ResetProcessCommand == Single("C_RP_NA_1", 1, <<"QRP">>)
DelayAcquisitionCommand == Single("C_CD_NA_1", 2, <<"CP16">>)
TestCommandWithCP56Time2a ==
  [Single("C_TS_TA_1", 9, <<"TSC", "CP56">>)
    EXCEPT !.needs = 9 - SizeOfIOA, !.spaceInSequence = 2]
FileReady ==
  [Single("F_FR_NA_1", 6, <<"NOF", "LOF", "FRQ">>)
    EXCEPT !.space = 1, !.spaceInSequence = 1]
SectionReady ==
  [Single("F_SR_NA_1", 7, <<"NOF", "NOS", "LOF", "SRQ">>)
    EXCEPT !.space = 1, !.spaceInSequence = 1]
FileCallOrSelect ==
  [Single("F_SC_NA_1", 4, <<"NOF", "NOS", "SCQ">>)
    EXCEPT !.space = 1, !.spaceInSequence = 1]
FileLastSegmentOrSection ==
  [Single("F_LS_NA_1", 5, <<"NOF", "NOS", "LSQ", "CHS">>) EXCEPT !.checked = FALSE]
FileACK == [Single("F_AF_NA_1", 4, <<"NOF", "NOS", "AFQ">>) EXCEPT !.checked = FALSE]
FileSegment ==
  [Single("F_SG_NA_1", 4, <<"NOF", "NOS", "LOS", "SEG">>) EXCEPT !.checked = FALSE]
QueryLog == Single("F_SC_NB_1", 16, <<"NOF", "CP56", "CP56">>)

Classes ==
  {SinglePointInformation, SinglePointWithCP24Time2a, DoublePointInformation,
   DoublePointWithCP24Time2a, StepPositionInformation, StepPositionWithCP24Time2a,
   BitString32, Bitstring32WithCP24Time2a, MeasuredValueNormalized,
   MeasuredValueNormalizedWithCP24Time2a, MeasuredValueScaled,
   MeasuredValueScaledWithCP24Time2a, MeasuredValueShort,
   MeasuredValueShortWithCP24Time2a, IntegratedTotals, IntegratedTotalsWithCP24Time2a,
   EventOfProtectionEquipment, PackedStartEventsOfProtectionEquipment,
   PackedOutputCircuitInfo, PackedSinglePointWithSCD,
   MeasuredValueNormalizedWithoutQuality, SinglePointWithCP56Time2a,
   DoublePointWithCP56Time2a, StepPositionWithCP56Time2a, Bitstring32WithCP56Time2a,
   MeasuredValueNormalizedWithCP56Time2a, MeasuredValueScaledWithCP56Time2a,
   MeasuredValueShortWithCP56Time2a, IntegratedTotalsWithCP56Time2a,
   EventOfProtectionEquipmentWithCP56Time2a,
   PackedStartEventsOfProtectionEquipmentWithCP56Time2a,
   PackedOutputCircuitInfoWithCP56Time2a, FileDirectory, SingleCommand, DoubleCommand,
   StepCommand, SetpointCommandNormalized, SetpointCommandScaled, SetpointCommandShort,
   Bitstring32Command, SingleCommandWithCP56Time2a, DoubleCommandWithCP56Time2a,
   StepCommandWithCP56Time2a, SetpointCommandNormalizedWithCP56Time2a,
   SetpointCommandScaledWithCP56Time2a, SetpointCommandShortWithCP56Time2a,
   Bitstring32CommandWithCP56Time2a, ParameterActivation, ParameterNormalizedValue,
   ParameterScaledValue, ParameterFloatValue, EndOfInitialization,
   InterrogationCommand, CounterInterrogationCommand, ReadCommand,
   ClockSynchronizationCommand, TestCommand, ResetProcessCommand,
   DelayAcquisitionCommand, TestCommandWithCP56Time2a, FileReady, SectionReady,
   FileCallOrSelect, FileLastSegmentOrSection, FileACK, FileSegment, QueryLog}

\* elementSize in CS101_ASDU_getElementEx, without the address.
MonitoredElementSize ==
  [M_SP_NA_1 |-> 1, M_SP_TA_1 |-> 4, M_DP_NA_1 |-> 1, M_DP_TA_1 |-> 4, M_ST_NA_1 |-> 2,
   M_ST_TA_1 |-> 5, M_BO_NA_1 |-> 5, M_BO_TA_1 |-> 8]
MeasuredElementSize ==
  [M_ME_NA_1 |-> 3, M_ME_TA_1 |-> 6, M_ME_NB_1 |-> 3, M_ME_TB_1 |-> 6, M_ME_NC_1 |-> 5,
   M_ME_TC_1 |-> 8, M_IT_NA_1 |-> 5, M_IT_TA_1 |-> 8]
ProtectionElementSize ==
  [M_EP_TA_1 |-> 6, M_EP_TB_1 |-> 7, M_EP_TC_1 |-> 7, M_PS_NA_1 |-> 5, M_ME_ND_1 |-> 2,
   M_SP_TB_1 |-> 8, M_DP_TB_1 |-> 8, M_ST_TB_1 |-> 9]
LongTimeElementSize ==
  [M_BO_TB_1 |-> 12, M_ME_TD_1 |-> 10, M_ME_TE_1 |-> 10, M_ME_TF_1 |-> 12,
   M_IT_TB_1 |-> 12, M_EP_TD_1 |-> 10, M_EP_TE_1 |-> 11, M_EP_TF_1 |-> 11]
ControlElementSize ==
  [C_SC_NA_1 |-> 1, C_DC_NA_1 |-> 1, C_RC_NA_1 |-> 1, C_SE_NA_1 |-> 3, C_SE_NB_1 |-> 3,
   C_SE_NC_1 |-> 5, C_BO_NA_1 |-> 4, C_SC_TA_1 |-> 8, C_DC_TA_1 |-> 8, C_RC_TA_1 |-> 8,
   C_SE_TA_1 |-> 10, C_SE_TB_1 |-> 10, C_SE_TC_1 |-> 12, C_BO_TA_1 |-> 11]
FileElementSize ==
  [P_ME_NA_1 |-> 3, P_ME_NB_1 |-> 3, P_ME_NC_1 |-> 5, P_AC_NA_1 |-> 1, F_DR_TA_1 |-> 13]
ElementSize ==
  [type \in DOMAIN MonitoredElementSize \cup DOMAIN MeasuredElementSize
             \cup DOMAIN ProtectionElementSize \cup DOMAIN LongTimeElementSize
             \cup DOMAIN ControlElementSize \cup DOMAIN FileElementSize |->
     IF type \in DOMAIN MonitoredElementSize THEN MonitoredElementSize[type]
     ELSE IF type \in DOMAIN MeasuredElementSize THEN MeasuredElementSize[type]
     ELSE IF type \in DOMAIN ProtectionElementSize THEN ProtectionElementSize[type]
     ELSE IF type \in DOMAIN LongTimeElementSize THEN LongTimeElementSize[type]
     ELSE IF type \in DOMAIN ControlElementSize THEN ControlElementSize[type]
     ELSE FileElementSize[type]]

ClassOf(type) == CHOOSE c \in Classes : c.type = type

\* The test at the start of _encode.
HasSpace(c, size, withoutAddress) ==
  c.checked => (IF withoutAddress THEN c.spaceInSequence ELSE SizeOfIOA + c.space)
               <= MaxSizeOfASDU - size - HeaderLength
=============================================================================
