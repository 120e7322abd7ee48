------------------------- MODULE InformationObjects -------------------------
(***************************************************************************)
(* The ASDU of lib60870 (cs101_asdu.c), which information objects are added*)
(* to and read from.                                                       *)
(*                                                                         *)
(* A byte of the payload is <<element, field, byte of the field>>, field 0 *)
(* being the information object address: a reader finds a field only where *)
(* exactly that field was written.                                         *)
(***************************************************************************)
EXTENDS ObjectLayouts

VARIABLES
  typeId,    \* asdu[0]
  vsq,       \* asdu[1]: number of elements, and 128 for a sequence
  payload,   \* bytes after the header
  added,     \* history: [type, address] of the elements, in order
  stride     \* distance of the addresses the caller uses

asduVars == <<typeId, vsq, payload, added, stride>>

FirstAddress == 10

\* CS101_ASDU_initializeStatic.
AsduInit ==
  /\ typeId = "none" /\ vsq \in {0, 128} /\ payload = <<>> /\ added = <<>>
  /\ stride \in {1, 2}

IsSequence       == vsq >= 128
NumberOfElements == vsq % 128

\* The bytes of element k, the address first unless it is left out.
Encoded(c, k, withAddress) ==
  LET field(j) == [b \in 1 .. Width[c.fields[j]] |-> <<k, j, b>>]
      upTo[j \in 0 .. Len(c.fields)] ==
        IF j > 0 THEN upTo[j - 1] \o field(j)
        ELSE IF withAddress THEN [b \in 1 .. SizeOfIOA |-> <<k, 0, b>>] ELSE <<>>
  IN upTo[Len(c.fields)]

\* Mutant of Accepts: any address is taken into a sequence.
AcceptsAnyAddress(c, address) ==
  LET n == NumberOfElements IN
  /\ n < 127
  /\ n > 0 => typeId = c.type
  /\ HasSpace(c, Len(payload), n > 0 /\ IsSequence)

\* CS101_ASDU_addInformationObject, when it returns true.
Accepts(c, address) ==
  LET n == NumberOfElements IN
  /\ n < 127
  /\ n > 0 => /\ typeId = c.type
              /\ IsSequence => address = added[1].address + n
  /\ HasSpace(c, Len(payload), n > 0 /\ IsSequence)

AddInformationObject(c) ==
  LET n == NumberOfElements
      address == FirstAddress + stride * n
  IN /\ typeId' = IF n = 0 THEN c.type ELSE typeId
     /\ IF Accepts(c, address)
          THEN /\ payload' = payload \o Encoded(c, n + 1, n = 0 \/ ~IsSequence)
               /\ vsq' = (vsq + 1) % 256
               /\ added' = Append(added, [type |-> c.type, address |-> address])
          ELSE UNCHANGED <<payload, vsq, added>>
     /\ UNCHANGED stride

\* CS101_ASDU_removeAllElements.
RemoveAllElements ==
  /\ vsq' = IF IsSequence THEN 128 ELSE 0
  /\ payload' = <<>> /\ added' = <<>>
  /\ UNCHANGED <<typeId, stride>>

\* Bound: of the objects of another type, all of which are refused, one is tried.
Tried == IF NumberOfElements = 0 THEN Classes
         ELSE {c \in Classes : c.type = typeId} \cup {CHOOSE c \in Classes : c.type # typeId}

AsduNext == (\E c \in Tried : AddInformationObject(c)) \/ RemoveAllElements

AsduSpec == AsduInit /\ [][AsduNext]_asduVars

\* CS101_ASDU_setSequence, setNumberOfElements and addPayload are used by clone only,
\* which copies all of it.

\* _getFromBuffer at a place of the payload: the address (unless the caller sets it) and
\* the number of the element whose fields were found, whole and in order.
Unreadable == [address |-> -1, element |-> 0]
Garbled    == [address |-> -2, element |-> 0]
GetFromBuffer(c, at, withAddress) ==
  LET skip  == IF withAddress THEN SizeOfIOA ELSE 0
      size  == Len(Encoded(c, 0, withAddress))
      k     == payload[at + 1][1]
  IN IF at + c.needs + (IF c.addressAlways THEN SizeOfIOA ELSE skip) > Len(payload)
       THEN Unreadable
     ELSE IF at + size <= Len(payload)
             /\ SubSeq(payload, at + 1, at + size) = Encoded(c, k, withAddress)
       THEN [address |-> IF withAddress THEN added[k].address ELSE 0, element |-> k]
     ELSE Garbled

\* CS101_ASDU_getElementEx.  In a sequence InformationObject_setObjectAddress writes to
\* what the decoder returned without a look at it: an element that cannot be read is NULL,
\* and the call does not return.
NullDereferenced == [address |-> -3, element |-> 0]
GetElement(i) ==
  LET c == ClassOf(typeId) IN
  CASE c.indexed = "first" -> GetFromBuffer(c, 0, TRUE)
    [] c.indexed = "sequence" /\ IsSequence ->
         LET e == GetFromBuffer(c, SizeOfIOA + i * ElementSize[typeId], FALSE) IN
         IF e = Unreadable THEN NullDereferenced
         ELSE [e EXCEPT !.address = added[1].address + i]
    [] OTHER -> GetFromBuffer(c, i * (SizeOfIOA + ElementSize[typeId]), TRUE)

-----------------------------------------------------------------------------
\* Elements that getElement finds: any for an index it follows, the first for the others;
\* not the last of a directory sent as a sequence, where FileDirectory_getFromBuffer asks
\* for the room of an address that is not there, and the call does not return.
Indexable(c) == c.indexed = "sequence" \/ (c.indexed = "object" /\ ~IsSequence)
Findable(i) ==
  LET c == ClassOf(typeId) IN
  /\ i = 0 \/ Indexable(c)
  /\ ~(IsSequence /\ c.addressAlways /\ i = NumberOfElements - 1)

\* Every element is read back where and as it was written, whatever its class, the kind
\* of ASDU and its place: the encoder, the size tests, the decoder and the table of element
\* sizes in getElement agree.  Behind the last the decoder finds nothing: the caller gets
\* NULL in an ASDU of single objects, but in a sequence the call does not return, although
\* iec60870_common.h:462 promises NULL where there is no object with the index.
ElementsReadBack ==
  NumberOfElements > 0 =>
    /\ NumberOfElements = Len(added)
    /\ \A i \in 0 .. NumberOfElements - 1 :
         Findable(i) => GetElement(i) = [address |-> added[i + 1].address, element |-> i + 1]
    /\ Indexable(ClassOf(typeId)) =>
         GetElement(NumberOfElements) = IF IsSequence THEN NullDereferenced ELSE Unreadable

\* Types whose encoder tests for less room than it takes, or for none.
FileTypes == {"F_FR_NA_1", "F_SR_NA_1", "F_SC_NA_1", "F_LS_NA_1", "F_AF_NA_1", "F_SG_NA_1"}

\* An ASDU never grows beyond maxSizeOfASDU, but for a second object of a file type and
\* for a test command with time in a sequence.
AsduWithinLimit ==
  \/ HeaderLength + Len(payload) <= MaxSizeOfASDU
  \/ NumberOfElements > 1 /\ typeId \in FileTypes
  \/ NumberOfElements > 1 /\ IsSequence /\ typeId = "C_TS_TA_1"

\* What is put into an ASDU fits there and is found again.
CodecAgrees == ElementsReadBack /\ AsduWithinLimit
=============================================================================
