--------------------------- MODULE MonolithProofs ---------------------------
(***************************************************************************)
(* Proofs about the two single-file servers: the command handler and the   *)
(* process image of json-iec104-server.c, for every number of connections, *)
(* commands, table entries, points and readings; and the descriptors of    *)
(* json-modbus-server.c, for every number of clients, faults and           *)
(* connections.                                                            *)
(***************************************************************************)
EXTENDS MonolithCommands, MonolithImage, ModbusServer, FiniteSetTheorems, WellFoundedInduction,
        TLAPS

(***************************************************************************)
(* Commands: the inductive invariant                                       *)
(***************************************************************************)
Entry  == 1 .. SelectEntries
Times  == 0 .. MaxTicks
Selection == Masters \X Commanded \X Times

CommandsTypeOK ==
  /\ selectTable \in [Entry -> [ioa : Commanded \cup {0}, connection : Masters \cup {"none"},
                                timestamp : Times, isSelected : BOOLEAN]]
  /\ command_mode \in {"direct", "sbo"}
  /\ handling \in [Masters -> {Resting} \cup
                     [step : {"clear", "execute"}, type : {"C_SC_NA_1", "C_DC_NA_1"},
                      ioa : Commanded, seen : Times]]
  /\ ticks \in Times
  /\ selections \in [Selection -> Int]

\* The entry i of a table is selected by connection c for address ioa.
By(table, i, c, ioa) ==
  table[i].isSelected /\ table[i].ioa = ioa /\ table[i].connection = c
\* The entries a selection left in a table, and what is the first one for c and ioa.
EntriesOf(table, k) == {i \in Entry : By(table, i, k[1], k[2]) /\ table[i].timestamp = k[3]}
FirstOf(table, i, c, ioa) == By(table, i, c, ioa) /\ \A j \in Entry : By(table, j, c, ioa) => i <= j

\* The command under way was checked against k, and has still to execute.
Promised(h, k) ==
  /\ h[k[1]].step = "execute" \/ (h[k[1]].step = "clear" /\ h[k[1]].type = "C_SC_NA_1")
  /\ h[k[1]].ioa = k[2] /\ h[k[1]].seen = k[3]
\* It has still to clear, and would clear the entry it was checked against, or a duplicate.
ToClear(table, h, k) ==
  /\ h[k[1]].step = "clear" \/ (h[k[1]].step = "execute" /\ h[k[1]].type # "C_SC_NA_1")
  /\ h[k[1]].ioa = k[2] /\ h[k[1]].seen = k[3]
  /\ \E i \in EntriesOf(table, k) : FirstOf(table, i, k[1], k[2])

\* Every entry, and every execution to come, stands on a selection of its own; the entry
\* that the command under way will clear may share the selection with its execution.
Backed ==
  \A k \in Selection :
    Cardinality(EntriesOf(selectTable, k)) + (IF Promised(handling, k) THEN 1 ELSE 0)
      <= selections[k] + (IF ToClear(selectTable, handling, k) THEN 1 ELSE 0)

CommandsInv == CommandsTypeOK /\ Backed

Tables == [Entry -> [ioa : Commanded \cup {0}, connection : Masters \cup {"none"},
                     timestamp : Times, isSelected : BOOLEAN]]

\* A command under way is not the resting one.
LEMMA NotResting == Resting \notin [step : {"clear", "execute"}, type : {"C_SC_NA_1", "C_DC_NA_1"},
                                    ioa : Commanded, seen : Times]
  BY DEF Resting

\* The entries of a selection can be counted, and taking one away counts.
LEMMA EntriesCounted ==
  ASSUME NEW table, NEW k
  PROVE  /\ IsFiniteSet(EntriesOf(table, k)) /\ Cardinality(EntriesOf(table, k)) \in Nat
         /\ EntriesOf(table, k) \subseteq Entry
<1>1. EntriesOf(table, k) \subseteq Entry
  BY DEF EntriesOf
<1>2. SelectEntries \in Int
  BY CommandsAssumption
<1>3. IsFiniteSet(Entry)
  BY <1>2, FS_Interval DEF Entry
<1> QED
  BY <1>1, <1>3, FS_Subset, FS_CardinalityType

\* A table with fewer entries of a selection counts fewer.
LEMMA FewerEntries ==
  ASSUME NEW table, NEW after, NEW k, EntriesOf(after, k) \subseteq EntriesOf(table, k)
  PROVE  /\ Cardinality(EntriesOf(after, k)) <= Cardinality(EntriesOf(table, k))
         /\ \A i \in EntriesOf(table, k) \ EntriesOf(after, k) :
              Cardinality(EntriesOf(after, k)) + 1 <= Cardinality(EntriesOf(table, k))
<1>1. Cardinality(EntriesOf(after, k)) <= Cardinality(EntriesOf(table, k))
  BY EntriesCounted, FS_Subset
<1>2. ASSUME NEW i \in EntriesOf(table, k), i \notin EntriesOf(after, k)
      PROVE  Cardinality(EntriesOf(after, k)) + 1 <= Cardinality(EntriesOf(table, k))
  <2>1. EntriesOf(after, k) # EntriesOf(table, k)
    BY <1>2
  <2>2. Cardinality(EntriesOf(after, k)) # Cardinality(EntriesOf(table, k))
    BY <2>1, EntriesCounted, FS_Subset
  <2> QED
    BY <1>1, <2>2, EntriesCounted
<1> QED
  BY <1>1, <1>2

\* One entry more counts one more.
LEMMA OneMoreEntry ==
  ASSUME NEW table, NEW after, NEW k, NEW s,
         EntriesOf(after, k) \subseteq EntriesOf(table, k) \cup {s}
  PROVE  Cardinality(EntriesOf(after, k)) <= Cardinality(EntriesOf(table, k)) + 1
<1>1. IsFiniteSet(EntriesOf(table, k)) /\ Cardinality(EntriesOf(table, k)) \in Nat
  BY EntriesCounted
<1>2. /\ IsFiniteSet(EntriesOf(table, k) \cup {s})
      /\ Cardinality(EntriesOf(table, k) \cup {s}) \in Nat
      /\ Cardinality(EntriesOf(table, k) \cup {s}) <= Cardinality(EntriesOf(table, k)) + 1
  BY <1>1, FS_AddElement
<1>3. Cardinality(EntriesOf(after, k)) <= Cardinality(EntriesOf(table, k) \cup {s})
  BY <1>2, FS_Subset
<1> QED
  BY <1>1, <1>2, <1>3, EntriesCounted

\* SelectedBy is the first entry of a connection for an address, or 0.
LEMMA FirstFound ==
  ASSUME NEW c, NEW ioa
  PROVE  \/ SelectedBy(ioa, c) = 0 /\ \A i \in Entry : ~By(selectTable, i, c, ioa)
         \/ SelectedBy(ioa, c) \in Entry /\ FirstOf(selectTable, SelectedBy(ioa, c), c, ioa)
<1> DEFINE hits == {i \in Entry : By(selectTable, i, c, ioa)}
<1>1. SelectedBy(ioa, c) = IF hits = {} THEN 0
                           ELSE CHOOSE i \in hits : \A j \in hits : i <= j
  BY DEF SelectedBy, FirstIndex, By, Entry
<1>2. CASE hits = {}
  BY <1>1, <1>2
<1>3. CASE hits # {}
  <2>1. hits \subseteq Nat
    BY CommandsAssumption DEF Entry
  <2>2. PICK x \in hits : \A y \in hits : ~(<<y, x>> \in OpToRel(<, Nat))
    BY <1>3, <2>1, NatLessThanWellFounded, WFMin
  <2>3. ASSUME NEW y \in hits  PROVE x <= y
    <3>1. ~(y < x)
      BY <2>1, <2>2 DEF OpToRel
    <3> QED
      BY <2>1, <3>1
  <2>4. SelectedBy(ioa, c) \in hits /\ \A j \in hits : SelectedBy(ioa, c) <= j
    BY <1>1, <1>3, <2>2, <2>3
  <2> QED
    BY <2>4 DEF FirstOf
<1> QED
  BY <1>2, <1>3

\* A first entry is the only first one.
LEMMA OneFirst ==
  ASSUME NEW table, NEW c, NEW ioa, NEW i \in Entry, NEW j \in Entry,
         FirstOf(table, i, c, ioa), FirstOf(table, j, c, ioa)
  PROVE  i = j
<1>1. i \in Nat /\ j \in Nat
  BY CommandsAssumption DEF Entry
<1>2. i <= j /\ j <= i
  BY DEF FirstOf
<1> QED
  BY <1>1, <1>2

\* Released takes one entry of one connection.
Freed(table, f) == [table EXCEPT ![f].isSelected = FALSE]

\* The entries of others stay.
LEMMA ReleasedEntry ==
  ASSUME NEW table \in Tables, NEW f \in Entry, NEW c, NEW ioa, FirstOf(table, f, c, ioa),
         NEW after, after = Freed(table, f), NEW k
  PROVE  /\ after \in Tables
         /\ EntriesOf(after, k) \subseteq EntriesOf(table, k) \ {f}
         /\ k[1] # c => ToClear(after, handling, k) = ToClear(table, handling, k)
                        /\ EntriesOf(after, k) = EntriesOf(table, k)
<1>1. after \in Tables /\ after[f].isSelected = FALSE
  BY DEF Tables, Freed
<1>2. \A i \in Entry : i # f => after[i] = table[i]
  BY DEF Tables, Freed
<1>3. EntriesOf(after, k) \subseteq EntriesOf(table, k) \ {f}
  BY <1>1, <1>2 DEF EntriesOf, By
<1>4. ASSUME k[1] # c
      PROVE  ToClear(after, handling, k) = ToClear(table, handling, k)
             /\ EntriesOf(after, k) = EntriesOf(table, k)
  <2>1. \A i \in Entry : By(after, i, k[1], k[2]) <=> By(table, i, k[1], k[2])
    BY <1>1, <1>2, <1>4 DEF By, FirstOf
  <2>2. \A i \in Entry : By(table, i, k[1], k[2]) => i # f
    BY <1>4 DEF By, FirstOf
  <2>3. EntriesOf(after, k) = EntriesOf(table, k)
    BY <1>2, <2>1, <2>2 DEF EntriesOf
  <2>4. \A i \in Entry : FirstOf(after, i, k[1], k[2]) <=> FirstOf(table, i, k[1], k[2])
    BY <2>1 DEF FirstOf
  <2>5. EntriesOf(table, k) \subseteq Entry
    BY EntriesCounted
  <2> QED
    BY <2>3, <2>4, <2>5 DEF ToClear
<1> QED
  BY <1>1, <1>3, <1>4

\* The balance of one selection: what CommandsInv says of it.
Balanced(table, h, sums, k) ==
  Cardinality(EntriesOf(table, k)) + (IF Promised(h, k) THEN 1 ELSE 0)
    <= sums[k] + (IF ToClear(table, h, k) THEN 1 ELSE 0)

\* A connection that handles no command owes nothing.
LEMMA IdleOwesNothing ==
  ASSUME NEW h, NEW table, NEW k, h[k[1]].step = "idle"
  PROVE  ~Promised(h, k) /\ ~ToClear(table, h, k)
  BY DEF Promised, ToClear

\* What a connection does for one command leaves the selections of the others alone, and
\* so does an entry that is lost.
LEMMA OtherKept ==
  ASSUME NEW table, NEW after, NEW h, NEW next, NEW sums, NEW k \in Selection,
         sums[k] \in Int, Balanced(table, h, sums, k), h[k[1]] = next[k[1]],
         EntriesOf(after, k) \subseteq EntriesOf(table, k),
         \/ ToClear(after, h, k)
         \/ ~ToClear(table, h, k)
         \/ EntriesOf(after, k) # EntriesOf(table, k)
  PROVE  Balanced(after, next, sums, k)
<1>1. /\ Promised(next, k) <=> Promised(h, k)
      /\ ToClear(after, next, k) <=> ToClear(after, h, k)
  BY DEF Promised, ToClear
<1>2. PICK m \in Nat, n \in Nat :
        /\ m = Cardinality(EntriesOf(table, k)) /\ n = Cardinality(EntriesOf(after, k))
        /\ n <= m /\ (EntriesOf(after, k) # EntriesOf(table, k) => n + 1 <= m)
  BY EntriesCounted, FewerEntries
<1> QED
  BY <1>1, <1>2 DEF Balanced

\* A select takes at most one place and counts one selection.
LEMMA SelectKeeps ==
  ASSUME CommandsTypeOK, Backed, NEW c \in Masters, NEW ioa \in Commanded, Select104(c, ioa)
  PROVE  CommandsTypeOK' /\ Backed'
<1> DEFINE s == SlotFor(ioa)
           e == [ioa |-> ioa, connection |-> c, timestamp |-> ticks, isSelected |-> TRUE]
<1>1. /\ selectTable' = IF s = 0 THEN selectTable ELSE [selectTable EXCEPT ![s] = e]
      /\ selections' = [selections EXCEPT ![<<c, ioa, ticks>>] = @ + 1]
      /\ UNCHANGED <<command_mode, handling, ticks>> /\ handling[c].step = "idle"
  BY DEF Select104, Receive104, Stored
<1> HIDE DEF s
<1>2. <<c, ioa, ticks>> \in Selection
  BY DEF Selection, CommandsTypeOK
<1>3. CommandsTypeOK'
  <2>1. selectTable' \in Tables
    BY <1>1 DEF CommandsTypeOK, Tables
  <2>2. selections' \in [Selection -> Int]
    BY <1>1, <1>2 DEF CommandsTypeOK
  <2> QED
    BY <1>1, <2>1, <2>2 DEF CommandsTypeOK, Tables
<1>4. \A i \in Entry : i # s => selectTable'[i] = selectTable[i]
  BY <1>1 DEF CommandsTypeOK
<1>5. s \in Entry /\ s # 0 => selectTable'[s] = e
  BY <1>1 DEF CommandsTypeOK
<1>6. s \notin Entry => selectTable' = selectTable
  BY <1>1 DEF CommandsTypeOK
<1>7. ASSUME NEW k \in Selection  PROVE Balanced(selectTable', handling, selections', k)
  <2>1. k \in Masters \X Commanded \X Times /\ k = <<k[1], k[2], k[3]>>
    BY DEF Selection
  <2>2. selections[k] \in Int /\ Balanced(selectTable, handling, selections, k)
    BY DEF CommandsTypeOK, Backed, Balanced
  <2>3. 0 \notin Entry
    BY DEF Entry
  <2>4. CASE k = <<c, ioa, ticks>>
    <3>1. selections'[k] = selections[k] + 1
      BY <1>1, <1>2, <2>4 DEF CommandsTypeOK
    <3>2. EntriesOf(selectTable', k) \subseteq EntriesOf(selectTable, k) \cup {s}
      BY <1>4 DEF EntriesOf, By
    <3>3. handling[k[1]].step = "idle"
      BY <1>1, <2>4
    <3>4. PICK m \in Nat, n \in Nat :
            /\ m = Cardinality(EntriesOf(selectTable, k))
            /\ n = Cardinality(EntriesOf(selectTable', k)) /\ n <= m + 1
      BY <3>2, EntriesCounted, OneMoreEntry
    <3>5. /\ ~Promised(handling, k) /\ ~ToClear(selectTable, handling, k)
          /\ ~ToClear(selectTable', handling, k)
      BY <3>3, IdleOwesNothing
    <3> QED
      BY <2>2, <3>1, <3>4, <3>5 DEF Balanced
  <2>5. CASE k # <<c, ioa, ticks>>
    <3>1. selections'[k] = selections[k]
      BY <1>1, <2>5 DEF CommandsTypeOK
    <3>2. ~(s \in EntriesOf(selectTable', k))
      <4>1. SUFFICES ASSUME s \in EntriesOf(selectTable', k)  PROVE FALSE
        OBVIOUS
      <4>2. s \in Entry
        BY <4>1, EntriesCounted
      <4>3. selectTable'[s] = e
        BY <4>2, <2>3, <1>5
      <4>4. k[1] = c /\ k[2] = ioa /\ k[3] = ticks
        BY <4>1, <4>3 DEF EntriesOf, By
      <4> QED
        BY <4>4, <2>1, <2>5
    <3>3. EntriesOf(selectTable', k) \subseteq EntriesOf(selectTable, k)
      BY <1>4, <3>2 DEF EntriesOf, By
    <3>4. CASE k[1] = c
      <4>1. ~ToClear(selectTable, handling, k)
        BY <1>1, <3>4, IdleOwesNothing
      <4>2. Balanced(selectTable', handling, selections, k)
        BY <2>2, <3>3, <4>1, OtherKept
      <4> QED
        BY <3>1, <4>2 DEF Balanced
    <3>5. CASE k[1] # c
      <4>1. \A i \in Entry : By(selectTable', i, k[1], k[2]) =>
                               i # s /\ By(selectTable, i, k[1], k[2])
        BY <1>4, <1>5, <2>3, <3>5 DEF By
      <4>2. ASSUME ToClear(selectTable, handling, k),
                   EntriesOf(selectTable', k) = EntriesOf(selectTable, k)
            PROVE  ToClear(selectTable', handling, k)
        <5>1. PICK i \in EntriesOf(selectTable, k) : FirstOf(selectTable, i, k[1], k[2])
          BY <4>2 DEF ToClear
        <5>2. i \in EntriesOf(selectTable', k)
          BY <4>2, <5>1
        <5>3. By(selectTable', i, k[1], k[2])
          BY <5>2 DEF EntriesOf
        <5>4. FirstOf(selectTable', i, k[1], k[2])
          BY <4>1, <5>1, <5>3 DEF FirstOf
        <5> QED
          BY <4>2, <5>2, <5>4 DEF ToClear
      <4>3. Balanced(selectTable', handling, selections, k)
        BY <2>2, <3>3, <4>2, OtherKept
      <4> QED
        BY <3>1, <4>3 DEF Balanced
    <3> QED
      BY <3>4, <3>5
  <2> QED
    BY <2>4, <2>5
<1>8. Backed'
  BY <1>1, <1>7 DEF Backed, Balanced
<1> QED
  BY <1>3, <1>8

\* An entry is released at its owner's hands, with f the entry.
LEMMA ReleaseKeeps ==
  ASSUME CommandsTypeOK, NEW c, NEW ioa, NEW after, after = Released(SelectedBy(ioa, c))
  PROVE  /\ after \in Tables
         /\ \A k \in Selection : EntriesOf(after, k) \subseteq EntriesOf(selectTable, k)
         /\ \A k \in Selection : k[1] # c =>
              /\ ToClear(after, handling, k) = ToClear(selectTable, handling, k)
              /\ EntriesOf(after, k) = EntriesOf(selectTable, k)
         /\ \A k \in Selection : \A i \in EntriesOf(selectTable, k) :
              FirstOf(selectTable, i, c, ioa) => i \notin EntriesOf(after, k)
<1> DEFINE f == SelectedBy(ioa, c)
<1>0. selectTable \in Tables
  BY DEF CommandsTypeOK, Tables
<1>1. CASE f = 0 /\ \A i \in Entry : ~By(selectTable, i, c, ioa)
  <2>1. after = selectTable
    BY <1>1 DEF Released
  <2> QED
    BY <1>0, <1>1, <2>1, EntriesCounted DEF FirstOf
<1>2. CASE f \in Entry /\ FirstOf(selectTable, f, c, ioa)
  <2>0. 0 \notin Entry
    BY DEF Entry
  <2>1. after = Freed(selectTable, f)
    BY <1>2, <2>0 DEF Released, Freed
  <2> HIDE DEF f
  <2>2. ASSUME NEW k
        PROVE  /\ after \in Tables
               /\ EntriesOf(after, k) \subseteq EntriesOf(selectTable, k) \ {f}
               /\ k[1] # c => ToClear(after, handling, k) = ToClear(selectTable, handling, k)
                              /\ EntriesOf(after, k) = EntriesOf(selectTable, k)
    BY <1>0, <1>2, <2>1, ReleasedEntry
  <2>3. ASSUME NEW k, NEW i \in EntriesOf(selectTable, k), FirstOf(selectTable, i, c, ioa)
        PROVE  i = f
    BY <1>2, <2>3, OneFirst, EntriesCounted
  <2> QED
    BY <2>2, <2>3
<1> QED
  BY <1>1, <1>2, FirstFound

\* The check of an execute marks what is to be executed.
LEMMA CheckKeeps ==
  ASSUME CommandsTypeOK, Backed, NEW c \in Masters, NEW ioa \in Commanded,
         NEW type \in {"C_SC_NA_1", "C_DC_NA_1"}, CheckSelected(c, type, ioa)
  PROVE  CommandsTypeOK' /\ Backed'
<1> DEFINE f == SelectedBy(ioa, c)
           seen == selectTable[f].timestamp
           start == [step |-> IF type = "C_SC_NA_1" THEN "clear" ELSE "execute", type |-> type,
                     ioa |-> ioa, seen |-> seen]
<1>1. /\ UNCHANGED <<command_mode, ticks, selections>> /\ handling[c].step = "idle"
      /\ selectTable' = IF InTime(ioa, c) THEN selectTable ELSE Released(f)
      /\ handling' = IF InTime(ioa, c) THEN [handling EXCEPT ![c] = start] ELSE handling
  BY DEF CheckSelected, Receive104, IsPreviouslySelected
<1>2. ASSUME NEW k \in Selection
      PROVE  selections[k] \in Int /\ Balanced(selectTable, handling, selections, k)
  BY DEF CommandsTypeOK, Backed, Balanced
<1>3. CASE InTime(ioa, c)
  <2>1. f \in Entry /\ FirstOf(selectTable, f, c, ioa)
    BY <1>3, FirstFound DEF InTime
  <2> HIDE DEF f
  <2>2. seen \in Times
    BY <2>1 DEF CommandsTypeOK
  <2>3. selectTable' = selectTable /\ handling' = [handling EXCEPT ![c] = start]
    BY <1>1, <1>3
  <2> HIDE DEF seen
  <2>4. start \in [step : {"clear", "execute"}, type : {"C_SC_NA_1", "C_DC_NA_1"},
                   ioa : Commanded, seen : Times]
    BY <2>2
  <2>5. CommandsTypeOK'
    BY <1>1, <2>3, <2>4 DEF CommandsTypeOK
  <2>6. ASSUME NEW k \in Selection  PROVE Balanced(selectTable, handling', selections, k)
    <3>1. CASE k[1] = c
      <4>1. handling'[k[1]] = start
        BY <2>3, <3>1 DEF CommandsTypeOK
      <4>2. ~Promised(handling, k) /\ ~ToClear(selectTable, handling, k)
        BY <1>1, <3>1, IdleOwesNothing
      <4>3. ASSUME Promised(handling', k)  PROVE ToClear(selectTable, handling', k)
        <5>1. k[2] = ioa /\ k[3] = seen
          BY <4>1, <4>3 DEF Promised
        <5>2. f \in EntriesOf(selectTable, k)
          BY <2>1, <3>1, <5>1 DEF EntriesOf, FirstOf, seen
        <5> QED
          BY <2>1, <3>1, <4>1, <5>1, <5>2 DEF ToClear
      <4> QED
        BY <1>2, <4>2, <4>3, EntriesCounted DEF Balanced
    <3>2. CASE k[1] # c
      <4>1. handling'[k[1]] = handling[k[1]]
        BY <2>3, <3>2 DEF CommandsTypeOK, Selection
      <4> QED
        BY <1>2, <4>1 DEF Balanced, Promised, ToClear
    <3> QED
      BY <3>1, <3>2
  <2> QED
    BY <1>1, <2>3, <2>5, <2>6 DEF Backed, Balanced
<1>4. CASE ~InTime(ioa, c)
  <2>1. selectTable' = Released(f) /\ handling' = handling
    BY <1>1, <1>4
  <2> HIDE DEF f
  <2>2. CommandsTypeOK'
    BY <1>1, <2>1, ReleaseKeeps DEF CommandsTypeOK, Tables, f
  <2>3. ASSUME NEW k \in Selection  PROVE Balanced(selectTable', handling, selections, k)
    <3>1. EntriesOf(selectTable', k) \subseteq EntriesOf(selectTable, k)
      BY <2>1, ReleaseKeeps DEF f
    <3>2. ToClear(selectTable', handling, k) \/ ~ToClear(selectTable, handling, k)
      <4>1. CASE k[1] = c
        BY <1>1, <4>1, IdleOwesNothing
      <4>2. CASE k[1] # c
        BY <2>1, <4>2, ReleaseKeeps DEF f
      <4> QED
        BY <4>1, <4>2
    <3> QED
      BY <1>2, <3>1, <3>2, OtherKept
  <2> QED
    BY <1>1, <2>1, <2>2, <2>3 DEF Backed, Balanced
<1> QED
  BY <1>3, <1>4

\* Clearing the entry pays for the execution.
LEMMA ClearKeeps ==
  ASSUME CommandsTypeOK, Backed, NEW c \in Masters, ClearSelection(c)
  PROVE  CommandsTypeOK' /\ Backed'
<1> DEFINE next == IF handling[c].type = "C_SC_NA_1" THEN [handling[c] EXCEPT !.step = "execute"]
                   ELSE Resting
<1>1. /\ UNCHANGED <<command_mode, ticks, selections>> /\ handling[c].step = "clear"
      /\ selectTable' = Released(SelectedBy(handling[c].ioa, c))
      /\ handling' = [handling EXCEPT ![c] = next]
  BY DEF ClearSelection, After104, ClearSelectState
<1>2. handling[c] \in [step : {"clear", "execute"}, type : {"C_SC_NA_1", "C_DC_NA_1"},
                       ioa : Commanded, seen : Times]
  BY <1>1 DEF CommandsTypeOK, Resting
<1>3. CommandsTypeOK'
  BY <1>1, <1>2, ReleaseKeeps DEF CommandsTypeOK, Tables
<1>4. ASSUME NEW k \in Selection  PROVE Balanced(selectTable', handling', selections, k)
  <2>1. selections[k] \in Int /\ Balanced(selectTable, handling, selections, k)
    BY DEF CommandsTypeOK, Backed, Balanced
  <2>2. EntriesOf(selectTable', k) \subseteq EntriesOf(selectTable, k)
    BY <1>1, ReleaseKeeps
  <2>3. CASE k[1] = c
    <3>1. handling'[k[1]] = next
      BY <1>1, <2>3 DEF CommandsTypeOK
    <3>2. ~ToClear(selectTable', handling', k)
      BY <1>2, <3>1 DEF ToClear, Resting
    <3>3. Promised(handling', k) <=> Promised(handling, k)
      BY <1>1, <1>2, <2>3, <3>1 DEF Promised, Resting
    <3>4. PICK m \in Nat, n \in Nat :
            /\ m = Cardinality(EntriesOf(selectTable, k))
            /\ n = Cardinality(EntriesOf(selectTable', k)) /\ n <= m
            /\ \A i \in EntriesOf(selectTable, k) \ EntriesOf(selectTable', k) : n + 1 <= m
      BY <2>2, EntriesCounted, FewerEntries
    <3>5. ASSUME ToClear(selectTable, handling, k)  PROVE n + 1 <= m
      <4>1. PICK i \in EntriesOf(selectTable, k) : FirstOf(selectTable, i, k[1], k[2])
        BY <3>5 DEF ToClear
      <4>2. k[2] = handling[c].ioa
        BY <2>3, <3>5 DEF ToClear
      <4>3. i \notin EntriesOf(selectTable', k)
        BY <1>1, <2>3, <4>1, <4>2, ReleaseKeeps
      <4> QED
        BY <3>4, <4>1, <4>3
    <3> QED
      BY <2>1, <3>2, <3>3, <3>4, <3>5 DEF Balanced
  <2>4. CASE k[1] # c
    <3>1. handling'[k[1]] = handling[k[1]]
      BY <1>1, <2>4 DEF CommandsTypeOK, Selection
    <3>2. ToClear(selectTable', handling, k) \/ ~ToClear(selectTable, handling, k)
      BY <1>1, <2>4, ReleaseKeeps
    <3> QED
      BY <2>1, <2>2, <3>1, <3>2, OtherKept
  <2> QED
    BY <2>3, <2>4
<1> QED
  BY <1>1, <1>3, <1>4 DEF Backed, Balanced

\* An execution uses up one selection.
LEMMA ExecuteKeeps ==
  ASSUME CommandsTypeOK, Backed, NEW c \in Masters, ExecuteSelected(c)
  PROVE  CommandsTypeOK' /\ Backed'
<1> DEFINE next == IF handling[c].type = "C_SC_NA_1" THEN Resting
                   ELSE [handling[c] EXCEPT !.step = "clear"]
           key == <<c, handling[c].ioa, handling[c].seen>>
<1>1. /\ UNCHANGED <<command_mode, ticks, selectTable>> /\ handling[c].step = "execute"
      /\ selections' = [selections EXCEPT ![key] = @ - 1]
      /\ handling' = [handling EXCEPT ![c] = next]
  BY DEF ExecuteSelected, After104
<1>2. handling[c] \in [step : {"clear", "execute"}, type : {"C_SC_NA_1", "C_DC_NA_1"},
                       ioa : Commanded, seen : Times]
  BY <1>1 DEF CommandsTypeOK, Resting
<1>3. key \in Selection
  BY <1>2 DEF Selection
<1>4. CommandsTypeOK'
  <2>1. selections' \in [Selection -> Int]
    BY <1>1, <1>3 DEF CommandsTypeOK
  <2>2. next \in {Resting} \cup [step : {"clear", "execute"}, type : {"C_SC_NA_1", "C_DC_NA_1"},
                                 ioa : Commanded, seen : Times]
    BY <1>2
  <2> QED
    BY <1>1, <2>1, <2>2 DEF CommandsTypeOK
<1>5. ASSUME NEW k \in Selection  PROVE Balanced(selectTable, handling', selections', k)
  <2>1. selections[k] \in Int /\ Balanced(selectTable, handling, selections, k)
    BY DEF CommandsTypeOK, Backed, Balanced
  <2>2. k \in Masters \X Commanded \X Times /\ k = <<k[1], k[2], k[3]>>
    BY DEF Selection
  <2>3. CASE k = key
    <3>1. handling'[k[1]] = next /\ k[1] = c /\ k[2] = handling[c].ioa /\ k[3] = handling[c].seen
      BY <1>1, <2>3 DEF CommandsTypeOK
    <3>2. selections'[k] = selections[k] - 1
      BY <1>1, <1>3, <2>3 DEF CommandsTypeOK
    <3>3. Promised(handling, k) /\ ~Promised(handling', k)
      BY <1>1, <1>2, <3>1 DEF Promised, Resting
    <3>4. ToClear(selectTable, handling', k) <=> ToClear(selectTable, handling, k)
      BY <1>1, <1>2, <3>1 DEF ToClear, Resting
    <3> QED
      BY <2>1, <3>2, <3>3, <3>4, EntriesCounted DEF Balanced
  <2>4. CASE k # key
    <3>1. selections'[k] = selections[k]
      BY <1>1, <2>4 DEF CommandsTypeOK
    <3>2. /\ Promised(handling', k) <=> Promised(handling, k)
          /\ ToClear(selectTable, handling', k) <=> ToClear(selectTable, handling, k)
      <4>1. CASE k[1] = c
        <5>1. k[2] # handling[c].ioa \/ k[3] # handling[c].seen
          BY <2>2, <2>4, <4>1
        <5>2. handling'[k[1]] = next
          BY <1>1, <4>1 DEF CommandsTypeOK
        <5> QED
          BY <1>2, <4>1, <5>1, <5>2 DEF Promised, ToClear, Resting
      <4>2. CASE k[1] # c
        <5>1. handling'[k[1]] = handling[k[1]]
          BY <1>1, <4>2 DEF CommandsTypeOK, Selection
        <5> QED
          BY <5>1 DEF Promised, ToClear
      <4> QED
        BY <4>1, <4>2
    <3> QED
      BY <2>1, <3>1, <3>2 DEF Balanced
  <2> QED
    BY <2>3, <2>4
<1> QED
  BY <1>1, <1>4, <1>5 DEF Backed, Balanced

\* The empty table satisfies the invariant.
LEMMA CommandsInvInit == CommandsInit => CommandsInv
<1> SUFFICES ASSUME CommandsInit  PROVE CommandsInv
  OBVIOUS
<1>1. CommandsTypeOK
  <2>1. 0 \in Times
    BY CommandsAssumption DEF Times
  <2> QED
    BY <2>1 DEF CommandsInit, CommandsTypeOK, NotSelected, Selection, Times, Entry
<1>2. ASSUME NEW k \in Selection
      PROVE  Balanced(selectTable, handling, selections, k)
  <2>1. EntriesOf(selectTable, k) = {}
    BY DEF CommandsInit, EntriesOf, By, NotSelected, Entry
  <2>2. selections[k] = 0 /\ handling[k[1]].step = "idle"
    BY DEF CommandsInit, Selection, Times, Resting
  <2>3. Cardinality(EntriesOf(selectTable, k)) = 0
    BY <2>1, FS_EmptySet
  <2> QED
    BY <2>2, <2>3, IdleOwesNothing DEF Balanced
<1> QED
  BY <1>1, <1>2 DEF CommandsInv, Backed, Balanced

\* Every step keeps the invariant.
LEMMA CommandsInvStep == CommandsInv /\ [CommandsNext]_commandVars => CommandsInv'
<1> SUFFICES ASSUME CommandsTypeOK, Backed, [CommandsNext]_commandVars
             PROVE  CommandsTypeOK' /\ Backed'
  BY DEF CommandsInv
<1>1. ASSUME UNCHANGED <<selectTable, handling, selections>>, command_mode' = command_mode,
             ticks' \in Times
      PROVE  CommandsTypeOK' /\ Backed'
  BY <1>1 DEF CommandsTypeOK, Backed
<1>2. ASSUME NEW c \in Masters, NEW ioa \in Commanded, Select104(c, ioa)
      PROVE  CommandsTypeOK' /\ Backed'
  BY <1>2, SelectKeeps
<1>3. ASSUME NEW c \in Masters, NEW ioa \in Commanded,
             NEW type \in {"C_SC_NA_1", "C_DC_NA_1"}, CheckSelected(c, type, ioa)
      PROVE  CommandsTypeOK' /\ Backed'
  BY <1>3, CheckKeeps
<1>4. ASSUME NEW c \in Masters, Unanswerable(c)  PROVE CommandsTypeOK' /\ Backed'
  BY <1>1, <1>4 DEF Unanswerable, CommandsTypeOK
<1>5. ASSUME NEW c \in Masters, ExecuteDirect(c)  PROVE CommandsTypeOK' /\ Backed'
  BY <1>1, <1>5 DEF ExecuteDirect, CommandsTypeOK
<1>6. ASSUME NEW c \in Masters, ClearSelection(c)  PROVE CommandsTypeOK' /\ Backed'
  BY <1>6, ClearKeeps
<1>7. ASSUME NEW c \in Masters, ExecuteSelected(c)  PROVE CommandsTypeOK' /\ Backed'
  BY <1>7, ExecuteKeeps
<1>8. CASE Tick104
  <2>1. ticks' \in Times
    BY <1>8, CommandsAssumption DEF Tick104, CommandsTypeOK, Times
  <2> QED
    BY <1>1, <1>8, <2>1 DEF Tick104
<1>9. CASE UNCHANGED commandVars
  BY <1>1, <1>9 DEF commandVars, CommandsTypeOK
<1> QED
  BY <1>2, <1>3, <1>4, <1>5, <1>6, <1>7, <1>8, <1>9 DEF CommandsNext

\* Selections that back every entry and every promise are never negative.
LEMMA BackedSuffices == CommandsInv => ExecutionUsesSelection
<1> SUFFICES ASSUME CommandsTypeOK, Backed, NEW k \in Selection  PROVE selections[k] >= 0
  BY DEF CommandsInv, ExecutionUsesSelection, CommandsTypeOK
<1>1. PICK m \in Nat : m = Cardinality(EntriesOf(selectTable, k))
  BY EntriesCounted
<1>2. ASSUME ToClear(selectTable, handling, k)  PROVE m >= 1
  <2>1. EntriesOf(selectTable, k) # {}
    BY <1>2 DEF ToClear
  <2>2. m # 0
    BY <1>1, <2>1, EntriesCounted, FS_EmptySet
  <2> QED
    BY <1>1, <2>2
<1>3. Balanced(selectTable, handling, selections, k) /\ selections[k] \in Int
  BY DEF Backed, Balanced, CommandsTypeOK
<1> QED
  BY <1>1, <1>2, <1>3 DEF Balanced

\* Every command executed in SBO mode uses up a selection of the same address by the same
\* connection (ExecutionUsesSelection), whatever the table loses and duplicates.
THEOREM ExecutionCorrect == CommandsSpec => []ExecutionUsesSelection
<1>1. CommandsInit => CommandsInv
  BY CommandsInvInit
<1>2. CommandsInv /\ [CommandsNext]_commandVars => CommandsInv'
  BY CommandsInvStep
<1>3. CommandsInv => ExecutionUsesSelection
  BY BackedSuffices
<1> QED
  BY <1>1, <1>2, <1>3, PTL DEF CommandsSpec

(***************************************************************************)
(* Process image: the inductive invariant                                  *)
(***************************************************************************)
Sample == [value : Nat, quality : Qualities \cup {"invalid", "good"}]
Update == [point : Points, reading : Sample, resetSince : BOOLEAN]

ImageTypeOK ==
  /\ image \in [Points -> Sample] /\ picture \in [Points -> Sample]
  /\ todo \in {NoUpdate} \cup Update
  /\ configured \subseteq Points /\ behind \subseteq Points

\* A sample that a master may hold for the one in the image.
Stands(p, sent, kept) ==
  /\ sent.quality = kept.quality
  /\ \/ sent.value = kept.value
     \/ TypeOf[p] = "M_ME_NC_1" /\ ~LeavesDeadband(kept.value, sent.value)

\* The update under way carries what the image holds, until a reset.
Follows ==
  /\ \A p \in Points \ behind : Stands(p, picture[p], image[p])
  /\ todo # NoUpdate /\ ~todo.resetSince => Stands(todo.point, todo.reading, image[todo.point])

\* What the periodic threads copied is what the image holds, of the points that have not
\* changed since.
CopiesTrue ==
  /\ copied = [s \in Senders |-> copied[s]] /\ outdated \in [Senders -> SUBSET Points]
  /\ \A s \in Senders : \A p \in DOMAIN copied[s] :
       /\ p \in Points /\ copied[s][p] \in Sample
       /\ p \notin outdated[s] => copied[s][p] = image[p]

ImageInv == ImageTypeOK /\ Follows /\ CopiesTrue

\* The value that stands for no update is none.
LEMMA NoUpdateIsNone == NoUpdate \notin Update
  BY DEF NoUpdate, Update

\* A change of the image outdates what was copied of it.
LEMMA CopiesOutdated ==
  ASSUME CopiesTrue, Outdate, copied' = copied
  PROVE  CopiesTrue'
<1>1. ASSUME NEW s \in Senders
      PROVE  /\ outdated'[s] = outdated[s] \cup {p \in DOMAIN copied[s] : image'[p] # image[p]}
             /\ outdated'[s] \in SUBSET Points
  BY DEF Outdate, CopiesTrue
<1>2. outdated' \in [Senders -> SUBSET Points]
  BY <1>1 DEF Outdate
<1>3. ASSUME NEW s \in Senders, NEW p \in DOMAIN copied[s], p \notin outdated'[s]
      PROVE  copied[s][p] = image'[p]
  BY <1>1, <1>3 DEF CopiesTrue
<1> QED
  BY <1>2, <1>3 DEF CopiesTrue

\* An update that stands for what it stored keeps the picture true.
LEMMA UpdateFollows ==
  ASSUME ImageTypeOK, Follows, NEW p \in Points, NEW r \in Sample, NEW stored \in Sample,
         UpdateWith(p, r, stored), Stands(p, r, stored)
  PROVE  ImageTypeOK' /\ Follows' /\ Outdate /\ copied' = copied
<1> DEFINE waits == [point |-> p, reading |-> r, resetSince |-> FALSE]
<1>1. waits \in Update
  BY DEF Update
<1>2. waits # NoUpdate
  BY <1>1, NoUpdateIsNone
<1>3. /\ todo = NoUpdate /\ image' = [image EXCEPT ![p] = stored]
      /\ UNCHANGED <<configured, picture, copied>> /\ Outdate
      /\ todo' = waits \/ todo' = NoUpdate
      /\ \/ behind' = behind \cup {p}
         \/ behind' = behind /\ stored = image[p]
  BY DEF UpdateWith, senderVars
<1> HIDE DEF waits
<1>4. ImageTypeOK'
  BY <1>1, <1>3 DEF ImageTypeOK
<1>5. ASSUME NEW q \in Points \ behind'  PROVE Stands(q, picture'[q], image'[q])
  <2>1. q # p \/ stored = image[p]
    BY <1>3, <1>5
  <2>2. image'[q] = image[q] /\ q \notin behind
    BY <1>3, <1>5, <2>1 DEF ImageTypeOK
  <2> QED
    BY <1>3, <2>2 DEF Follows
<1>6. ASSUME todo' # NoUpdate, ~todo'.resetSince
      PROVE  Stands(todo'.point, todo'.reading, image'[todo'.point])
  <2>1. todo' = waits
    BY <1>3, <1>6
  <2>2. todo'.point = p /\ todo'.reading = r
    BY <2>1 DEF waits
  <2>3. image'[p] = stored
    BY <1>3 DEF ImageTypeOK
  <2> QED
    BY <2>2, <2>3
<1> QED
  BY <1>3, <1>4, <1>5, <1>6 DEF Follows

\* The first image satisfies the invariant.
LEMMA ImageInvInit == MonolithInit => ImageInv
<1> SUFFICES ASSUME MonolithInit  PROVE ImageInv
  OBVIOUS
<1>1. Unknown \in Sample
  BY DEF Unknown, Sample
<1>2. ImageTypeOK
  BY <1>1, MonolithAssumption DEF MonolithInit, ImageTypeOK
<1>3. Follows
  BY DEF MonolithInit, Follows, Stands
<1>4. CopiesTrue
  BY DEF MonolithInit, CopiesTrue, NoValues
<1> QED
  BY <1>2, <1>3, <1>4 DEF ImageInv

\* Every step keeps the invariant.
LEMMA ImageInvStep == ImageInv /\ [MonolithNext]_monolithVars => ImageInv'
<1> SUFFICES ASSUME ImageTypeOK, Follows, CopiesTrue, [MonolithNext]_monolithVars
             PROVE  ImageTypeOK' /\ Follows' /\ CopiesTrue'
  BY DEF ImageInv
<1>0. configured \subseteq Points
  BY DEF ImageTypeOK
<1>1. ASSUME NEW p \in configured, NEW v \in Readings, NEW q \in Qualities,
             UpdatePlain(p, [value |-> v, quality |-> q])
      PROVE  ImageTypeOK' /\ Follows' /\ CopiesTrue'
  <2>1. [value |-> v, quality |-> q] \in Sample
    BY MonolithAssumption DEF Sample
  <2>2. Stands(p, [value |-> v, quality |-> q], [value |-> v, quality |-> q])
    BY DEF Stands
  <2>3. UpdateWith(p, [value |-> v, quality |-> q], [value |-> v, quality |-> q])
    BY <1>1 DEF UpdatePlain, StoredPlain
  <2> QED
    BY <1>0, <2>1, <2>2, <2>3, UpdateFollows, CopiesOutdated
<1>2. ASSUME NEW p \in configured, NEW v \in Readings, NEW q \in Qualities,
             UpdateShort(p, [value |-> v, quality |-> q])
      PROVE  ImageTypeOK' /\ Follows' /\ CopiesTrue'
  <2> DEFINE r == [value |-> v, quality |-> q]
  <2>1. r \in Sample
    BY MonolithAssumption DEF Sample
  <2>2. UpdateWith(p, r, StoredShort(p, r)) /\ TypeOf[p] = "M_ME_NC_1"
    BY <1>2 DEF UpdateShort
  <2>3. /\ StoredShort(p, r).quality = r.quality
        /\ StoredShort(p, r).value = IF LeavesDeadband(image[p].value, r.value) THEN r.value
                                     ELSE image[p].value
    BY DEF StoredShort
  <2>4. StoredShort(p, r) \in Sample
    <3>1. image[p].value \in Nat
      BY <1>0 DEF ImageTypeOK, Sample
    <3> QED
      BY <2>1, <3>1 DEF StoredShort, Sample
  <2>5. Stands(p, r, StoredShort(p, r))
    BY <2>2, <2>3 DEF Stands
  <2> QED
    BY <1>0, <2>1, <2>2, <2>4, <2>5, UpdateFollows, CopiesOutdated
<1>3. ASSUME NEW p \in configured, NEW v \in Readings, UpdateCounter(p, v)
      PROVE  ImageTypeOK' /\ Follows' /\ CopiesTrue'
  <2>1. /\ todo = NoUpdate /\ todo' = todo /\ behind' = behind \cup {p}
        /\ image' = [image EXCEPT ![p] = [image[p] EXCEPT !.value = v % CounterRange]]
        /\ UNCHANGED <<configured, picture, copied>> /\ Outdate
    BY <1>3 DEF UpdateCounter, senderVars
  <2>2. v % CounterRange \in Nat
    BY MonolithAssumption
  <2>3. [image[p] EXCEPT !.value = v % CounterRange] \in Sample
    BY <1>0, <2>2 DEF ImageTypeOK, Sample
  <2>4. ImageTypeOK'
    BY <1>0, <2>1, <2>3 DEF ImageTypeOK
  <2>5. ASSUME NEW q \in Points \ behind'  PROVE Stands(q, picture'[q], image'[q])
    BY <2>1 DEF Follows, ImageTypeOK
  <2> QED
    BY <2>1, <2>4, <2>5, CopiesOutdated DEF Follows
<1>4. CASE Announce
  <2> DEFINE p == todo.point
  <2>1. todo \in Update /\ todo # NoUpdate
    BY <1>4 DEF Announce, ImageTypeOK
  <2>2. p \in Points /\ todo.reading \in Sample
    BY <2>1 DEF Update
  <2>3. /\ todo' = NoUpdate /\ UNCHANGED <<configured, image>>
        /\ UNCHANGED <<copied, outdated>>
        /\ \/ /\ picture' = [picture EXCEPT ![p] = todo.reading]
              /\ behind' = IF todo.resetSince THEN behind \cup {p} ELSE behind \ {p}
           \/ picture' = picture /\ behind' = behind
    BY <1>4 DEF Announce, senderVars
  <2> HIDE DEF p
  <2>4. ImageTypeOK'
    BY <2>2, <2>3 DEF ImageTypeOK
  <2>5. ASSUME NEW q \in Points \ behind'  PROVE Stands(q, picture'[q], image[q])
    <3>1. CASE q = p /\ picture' = [picture EXCEPT ![p] = todo.reading]
      <4>1. picture'[q] = todo.reading
        BY <2>2, <3>1 DEF ImageTypeOK
      <4>2. ~todo.resetSince \/ picture' = picture
        BY <2>3, <2>5, <3>1
      <4>3. CASE ~todo.resetSince
        BY <2>1, <3>1, <4>1, <4>3 DEF Follows, p
      <4>4. CASE todo.resetSince
        BY <2>3, <2>5, <3>1, <4>4 DEF Follows
      <4> QED
        BY <4>3, <4>4
    <3>2. CASE ~(q = p /\ picture' = [picture EXCEPT ![p] = todo.reading])
      <4>1. picture'[q] = picture[q] /\ q \notin behind
        BY <2>3, <2>5, <3>2 DEF ImageTypeOK
      <4> QED
        BY <4>1 DEF Follows
    <3> QED
      BY <3>1, <3>2
  <2> QED
    BY <2>3, <2>4, <2>5 DEF Follows, CopiesTrue
<1>5. ASSUME UNCHANGED <<configured, image, picture, todo, behind, copied, outdated>>
      PROVE  ImageTypeOK' /\ Follows' /\ CopiesTrue'
  BY <1>5 DEF ImageTypeOK, Follows, CopiesTrue
<1>6. CASE ResetType
  <2> DEFINE points == OfType(Head(resetting))
             zero == [value |-> 0, quality |-> "good"]
  <2>1. /\ image' = [p \in Points |->
                      IF p \notin points THEN image[p]
                      ELSE IF TypeOf[p] = "M_IT_TB_1" THEN [image[p] EXCEPT !.value = 0]
                      ELSE zero]
        /\ behind' = behind \cup points /\ UNCHANGED <<configured, picture, copied>> /\ Outdate
        /\ todo' = IF todo # NoUpdate /\ todo.point \in points
                     THEN [todo EXCEPT !.resetSince = TRUE] ELSE todo
    BY <1>6 DEF ResetType, senderVars
  <2>2. points \subseteq Points
    BY <1>0 DEF OfType
  <2> HIDE DEF points
  <2>3. zero \in Sample /\ \A p \in Points : [image[p] EXCEPT !.value = 0] \in Sample
    BY DEF ImageTypeOK, Sample
  <2> HIDE DEF zero
  <2>4. CASE todo # NoUpdate /\ todo.point \in points
    <3>1. todo \in Update /\ todo' = [todo EXCEPT !.resetSince = TRUE]
      BY <2>1, <2>4 DEF ImageTypeOK
    <3>2. todo' \in Update /\ todo'.resetSince = TRUE /\ todo'.point = todo.point
      BY <3>1 DEF Update
    <3>3. ImageTypeOK'
      BY <2>1, <2>2, <2>3, <3>2 DEF ImageTypeOK
    <3>4. ASSUME NEW q \in Points \ behind'  PROVE Stands(q, picture'[q], image'[q])
      BY <2>1, <3>4 DEF Follows
    <3> QED
      BY <2>1, <3>2, <3>3, <3>4, CopiesOutdated DEF Follows
  <2>5. CASE ~(todo # NoUpdate /\ todo.point \in points)
    <3>1. todo' = todo
      BY <2>1, <2>5
    <3>2. ImageTypeOK'
      BY <2>1, <2>2, <2>3, <3>1 DEF ImageTypeOK
    <3>3. ASSUME NEW q \in Points \ behind'  PROVE Stands(q, picture'[q], image'[q])
      BY <2>1, <3>3 DEF Follows
    <3>4. ASSUME todo' # NoUpdate, ~todo'.resetSince
          PROVE  Stands(todo'.point, todo'.reading, image'[todo'.point])
      <4>1. todo.point \in Points \ points
        BY <2>5, <3>1, <3>4 DEF ImageTypeOK, Update
      <4>2. image'[todo.point] = image[todo.point]
        BY <2>1, <4>1
      <4> QED
        BY <3>1, <3>4, <4>2 DEF Follows
    <3> QED
      BY <2>1, <3>2, <3>3, <3>4, CopiesOutdated DEF Follows
  <2> QED
    BY <2>4, <2>5
<1>7. CASE AnswerType
  <2>1. PICK sent \in SUBSET OfType(Head(asking)) :
          /\ picture' = [p \in Points |-> IF p \in sent THEN image[p] ELSE picture[p]]
          /\ behind' = behind \ sent
    BY <1>7 DEF AnswerType
  <2>2. UNCHANGED <<image, todo, configured, copied, outdated>>
    BY <1>7 DEF AnswerType, senderVars
  <2>3. ImageTypeOK'
    BY <2>1, <2>2 DEF ImageTypeOK
  <2>4. ASSUME NEW q \in Points \ behind'  PROVE Stands(q, picture'[q], image[q])
    BY <2>1, <2>4 DEF Follows, Stands
  <2> QED
    BY <2>2, <2>3, <2>4 DEF Follows, CopiesTrue
<1>8. ASSUME NEW s \in Senders, CopyValues(s)
      PROVE  ImageTypeOK' /\ Follows' /\ CopiesTrue'
  <2>1. PICK points \in SUBSET OfType(Head(sending[s])) :
          copied' = [copied EXCEPT ![s] = [p \in points |-> image[p]]]
    BY <1>8 DEF CopyValues
  <2>2. /\ outdated' = [outdated EXCEPT ![s] = {}]
        /\ UNCHANGED <<configured, image, picture, todo, behind>>
    BY <1>8 DEF CopyValues
  <2>3. points \subseteq Points
    BY <1>0 DEF OfType
  <2>4. copied' = [u \in Senders |-> copied'[u]] /\ outdated' \in [Senders -> SUBSET Points]
    BY <2>1, <2>2 DEF CopiesTrue
  <2>5. ASSUME NEW u \in Senders, NEW p \in DOMAIN copied'[u]
        PROVE  /\ p \in Points /\ copied'[u][p] \in Sample
               /\ p \notin outdated'[u] => copied'[u][p] = image[p]
    <3>1. CASE u = s
      <4>1. copied'[u] = [r \in points |-> image[r]]
        BY <2>1, <3>1 DEF CopiesTrue
      <4> QED
        BY <2>3, <2>5, <4>1 DEF ImageTypeOK
    <3>2. CASE u # s
      <4>1. copied'[u] = copied[u] /\ outdated'[u] = outdated[u]
        BY <2>1, <2>2, <3>2 DEF CopiesTrue
      <4> QED
        BY <2>5, <4>1 DEF CopiesTrue
    <3> QED
      BY <3>1, <3>2
  <2> QED
    BY <2>2, <2>4, <2>5 DEF ImageTypeOK, Follows, CopiesTrue
<1>9. ASSUME NEW s \in Senders, EnqueueCopied(s)
      PROVE  ImageTypeOK' /\ Follows' /\ CopiesTrue'
  <2>1. /\ picture' = [p \in Points |-> IF p \in DOMAIN copied[s] THEN copied[s][p]
                                        ELSE picture[p]]
        /\ behind' = (behind \ DOMAIN copied[s]) \cup outdated[s]
        /\ copied' = [copied EXCEPT ![s] = NoValues]
        /\ outdated' = [outdated EXCEPT ![s] = {}]
        /\ UNCHANGED <<configured, image, todo>>
    BY <1>9 DEF EnqueueCopied
  <2>2. outdated[s] \subseteq Points
    BY DEF CopiesTrue
  <2>3. ImageTypeOK'
    BY <2>1, <2>2 DEF ImageTypeOK, CopiesTrue
  <2>4. ASSUME NEW q \in Points \ behind'  PROVE Stands(q, picture'[q], image[q])
    <3>1. CASE q \in DOMAIN copied[s]
      <4>1. picture'[q] = image[q]
        BY <2>1, <2>4, <3>1 DEF CopiesTrue
      <4> QED
        BY <4>1 DEF Stands
    <3>2. CASE q \notin DOMAIN copied[s]
      BY <2>1, <2>4, <3>2 DEF Follows
    <3> QED
      BY <3>1, <3>2
  <2>5. CopiesTrue'
    <3>1. copied' = [u \in Senders |-> copied'[u]] /\ outdated' \in [Senders -> SUBSET Points]
      BY <2>1 DEF CopiesTrue
    <3>2. ASSUME NEW u \in Senders, NEW p \in DOMAIN copied'[u]
          PROVE  u # s
      BY <2>1, <3>2 DEF CopiesTrue, NoValues
    <3> QED
      BY <2>1, <3>1, <3>2 DEF CopiesTrue
  <2> QED
    BY <2>1, <2>3, <2>4, <2>5 DEF Follows
<1>10. CASE Shutdown
  BY <1>5, <1>10 DEF Shutdown, senderVars
<1>11. CASE StartReset
  BY <1>5, <1>11 DEF StartReset, senderVars
<1>12. CASE StartInterrogation
  BY <1>5, <1>12 DEF StartInterrogation, senderVars
<1>13. CASE MasterConnects
  BY <1>5, <1>13 DEF MasterConnects, senderVars
<1>14. CASE Disconnect
  BY <1>5, <1>14 DEF Disconnect, senderVars
<1>15. CASE Tick
  BY <1>5, <1>15 DEF Tick, senderVars
<1>16. CASE UNCHANGED monolithVars
  BY <1>5, <1>16 DEF monolithVars, senderVars
<1>17. CASE StartPeriodicRound \/ StartTotalsRound
  BY <1>5, <1>17 DEF StartPeriodicRound, StartTotalsRound
<1> QED
  BY <1>1, <1>2, <1>3, <1>4, <1>6, <1>7, <1>8, <1>9, <1>10, <1>11, <1>12, <1>13, <1>14, <1>15,
     <1>16, <1>17 DEF MonolithNext

\* What was last sent or enqueued of a point is what the image holds of it (PictureFollows),
\* with the exceptions the property names, for any set of points, types and readings.
THEOREM PictureCorrect == MonolithSpec => []PictureFollows
<1>1. MonolithInit => ImageInv
  BY ImageInvInit
<1>2. ImageInv /\ [MonolithNext]_monolithVars => ImageInv'
  BY ImageInvStep
<1>3. ImageInv => PictureFollows
  BY DEF ImageInv, Follows, Stands, PictureFollows
<1> QED
  BY <1>1, <1>2, <1>3, PTL DEF MonolithSpec

(***************************************************************************)
(* The Modbus server: the inductive invariant                              *)
(***************************************************************************)
Places == {"select", "stdin", "start", "openRtu", "map", "cleanup", "accept", "clients", "rtu",
           "reconnect", "finish", "exited"}
Descriptor == Nat \ (0 .. 2)

ModbusTypeOK ==
  /\ at \in Places /\ enabled \subseteq {"tcp", "rtu"}
  /\ modbusRunning \in BOOLEAN /\ server_state \in {"running", "stopped"}
  /\ mb_mapping \in BOOLEAN /\ misread \in BOOLEAN /\ crashed \in BOOLEAN
  /\ tcp_listen_sock \in Descriptor \cup {-1} /\ ctx_rtu \in Descriptor \cup {-1}
  /\ tcp_conn_socks \in [TcpSlots -> Descriptor \cup {-1, Stdin}] /\ tcp_conn_count \in Int
  /\ opened \subseteq Descriptor /\ IsFiniteSet(opened)

\* The open descriptors: of clients, each in one slot, of the listener and the serial line, and
\* the orphans.
InSlots == {tcp_conn_socks[s] : s \in Clients}
Singles == {tcp_listen_sock, ctx_rtu} \ {-1}
EachOnce ==
  /\ opened = InSlots \cup Singles \cup orphans
  /\ InSlots \cap (Singles \cup orphans) = {} /\ Singles \cap orphans = {}
  /\ tcp_listen_sock = ctx_rtu => ctx_rtu = -1
  /\ \A s, t \in Clients : tcp_conn_socks[s] = tcp_conn_socks[t] => s = t
  /\ tcp_conn_count = Cardinality(Clients)

\* Without a mapping there is no client, and a serial line only just before it is made; past the
\* clean-up the mapping is there.
MappedFirst ==
  /\ ~mb_mapping => Clients = {} /\ (at = "map" \/ ctx_rtu = -1)
  /\ at \in {"openRtu", "map"} => ~mb_mapping
  /\ at \in {"accept", "clients", "rtu", "reconnect"} => mb_mapping
  /\ at = "cleanup" /\ server_state = "running" => mb_mapping

\* Until a descriptor is closed what select reported is open, so none of it is new.
ReadyIsOld ==
  /\ at \in {"stdin", "start", "openRtu", "map", "cleanup", "accept", "clients"}
       => ready \subseteq opened \cup {Stdin}
  /\ at \in {"stdin", "start", "openRtu", "map", "cleanup", "accept", "clients", "rtu"}
       => ready \cap fresh = {}

\* The slots are zero for good without TCP, and set before the loop first looks at them.
SlotsSet ==
  /\ "tcp" \notin enabled => tcp_listen_sock = -1 /\ Clients = {}
  /\ "tcp" \in enabled /\ (mb_mapping \/ at \in {"openRtu", "map"}) => TakenSlots = Clients

ModbusInv ==
  ModbusTypeOK /\ EachOnce /\ MappedFirst /\ SlotsSet /\ ReadyIsOld /\ ReadsWhatSelectSaw

\* A set of natural numbers that is not empty has a least member.
LEMMA LeastNumber ==
  ASSUME NEW S, S \subseteq Nat, S # {}
  PROVE  Min(S) \in S
<1>1. PICK x \in S : \A y \in S : ~(<<y, x>> \in OpToRel(<, Nat))
  BY NatLessThanWellFounded, WFMin
<1>2. \A y \in S : x <= y
  <2> TAKE y \in S
  <2>1. x \in Nat /\ y \in Nat
    OBVIOUS
  <2>2. ~(y < x)
    BY <1>1, <2>1 DEF OpToRel
  <2> QED
    BY <2>1, <2>2
<1> QED
  BY <1>2 DEF Min

\* The kernel's next descriptor is a new one.
LEMMA NewDescriptor ==
  ASSUME opened \subseteq Descriptor, IsFiniteSet(opened)
  PROVE  LowestFree \in Descriptor /\ LowestFree \notin opened /\ LowestFree # -1
<1>1. Cardinality(opened) \in Nat
  BY FS_CardinalityType
<1>2. PICK n \in Nat : n = Cardinality(opened)
  BY <1>1
<1>3. IsFiniteSet(3 .. 3 + n) /\ Cardinality(3 .. 3 + n) = n + 1
  BY FS_Interval
<1>4. ~(3 .. 3 + n \subseteq opened)
  <2>1. 3 .. 3 + n \subseteq opened => Cardinality(3 .. 3 + n) <= n
    BY <1>2, FS_Subset
  <2> QED
    BY <1>3, <2>1
<1>5. LowestFree \in (3 .. 3 + n) \ opened
  BY <1>2, <1>4, LeastNumber DEF LowestFree
<1> QED
  BY <1>5 DEF Descriptor

\* The clients can be counted.
LEMMA ClientsFinite ==
  /\ IsFiniteSet(Clients) /\ Cardinality(Clients) \in Nat /\ Clients \subseteq TcpSlots
  /\ IsFiniteSet(TcpSlots)
<1>1. IsFiniteSet(TcpSlots)
  BY ModbusAssumption, FS_Interval DEF TcpSlots
<1>2. Clients \in SUBSET TcpSlots
  BY DEF Clients
<1> QED
  BY <1>1, <1>2, FS_Subset, FS_CardinalityType

\* Clients with descriptors of their own are as many as the descriptors.
LEMMA SlotsCounted ==
  ASSUME \A s, t \in Clients : tcp_conn_socks[s] = tcp_conn_socks[t] => s = t
  PROVE  Cardinality(InSlots) = Cardinality(Clients)
<1> DEFINE f == [s \in Clients |-> tcp_conn_socks[s]]
<1>1. f \in Bijection(Clients, InSlots)
  BY DEF Bijection, Injection, Surjection, InSlots, IsInjective
<1>2. ExistsBijection(Clients, InSlots)
  BY <1>1 DEF ExistsBijection
<1> QED
  BY <1>2, ClientsFinite, FS_Bijection

\* A step that opens and closes nothing.
LEMMA SocketsStay ==
  ASSUME ModbusInv, UNCHANGED sockets
  PROVE  /\ EachOnce' /\ Clients' = Clients /\ TakenSlots' = TakenSlots
         /\ tcp_listen_sock' = tcp_listen_sock
         /\ tcp_listen_sock' \in Descriptor \cup {-1} /\ ctx_rtu' \in Descriptor \cup {-1}
         /\ tcp_conn_socks' \in [TcpSlots -> Descriptor \cup {-1, Stdin}] /\ tcp_conn_count' \in Int
         /\ opened' \subseteq Descriptor /\ IsFiniteSet(opened')
<1>1. /\ tcp_listen_sock' = tcp_listen_sock /\ ctx_rtu' = ctx_rtu /\ opened' = opened
      /\ tcp_conn_socks' = tcp_conn_socks /\ tcp_conn_count' = tcp_conn_count
      /\ orphans' = orphans
  BY DEF sockets
<1>2. Clients' = Clients /\ InSlots' = InSlots /\ Singles' = Singles /\ TakenSlots' = TakenSlots
  BY <1>1 DEF Clients, InSlots, Singles, TakenSlots
<1> QED
  BY <1>1, <1>2 DEF ModbusInv, ModbusTypeOK, EachOnce

\* The sockets of TCP, while they are looked at, are open.
LEMMA TcpSocketsOpen ==
  ASSUME ModbusInv
  PROVE  /\ TcpSockets \subseteq opened \cup {Stdin}
         /\ mb_mapping => TcpSockets = ({tcp_listen_sock} \ {-1}) \cup InSlots
<1>1. \A s \in TakenSlots : s \in Clients \/ tcp_conn_socks[s] = Stdin
  BY DEF TakenSlots, Clients
<1>2. {tcp_conn_socks[s] : s \in TakenSlots} \subseteq InSlots \cup {Stdin}
  BY <1>1 DEF InSlots
<1>3. \A s \in Clients : tcp_conn_socks[s] # -1
  BY DEF Clients
<1>4. CASE "tcp" \in enabled
  BY <1>2, <1>3, <1>4 DEF TcpSockets, ModbusInv, EachOnce, Singles, InSlots, SlotsSet
<1>5. CASE "tcp" \notin enabled
  BY <1>5 DEF TcpSockets, InSlots, ModbusInv, SlotsSet
<1> QED
  BY <1>4, <1>5

\* The steps between select and the listener.
LEMMA QuietStep ==
  ASSUME ModbusInv, Select \/ ReadStdin \/ SkipStart \/ MapRegisters \/ Signal
  PROVE  ModbusInv'
<1> USE SocketsStay DEF ModbusInv, ModbusTypeOK, MappedFirst, SlotsSet, ReadyIsOld,
                        ReadsWhatSelectSaw, Places, states, ghosts, Alive
<1>1. CASE Select
  <2>1. /\ UNCHANGED <<sockets, mb_mapping, server_state, enabled, modbusRunning, crashed, misread>>
        /\ fresh' = {} /\ at = "select"
        /\ \/ at' = "finish"
           \/ at' = "stdin" /\ ready' \subseteq opened \cup {Stdin}
    <3>1. {ctx_rtu} \ {-1} \subseteq opened
      BY DEF EachOnce, Singles
    <3>2. TcpSockets \cup ({ctx_rtu} \ {-1}) \subseteq opened \cup {Stdin}
      BY <3>1, TcpSocketsOpen
    <3> QED
      BY <1>1, <3>2 DEF Select
  <2>2. opened' = opened
    BY <2>1 DEF sockets
  <2> QED
    BY <2>1, <2>2 DEF sockets
<1>2. CASE ReadStdin
  <2>1. /\ UNCHANGED <<sockets, mb_mapping, enabled, ready, fresh, misread>>
        /\ at = "stdin" /\ at' = "start" /\ modbusRunning' \in BOOLEAN /\ crashed' \in BOOLEAN
        /\ server_state' \in {"running", "stopped"}
    BY <1>2 DEF ReadStdin, Stop
  <2> QED
    BY <2>1 DEF sockets
<1>3. CASE SkipStart
  BY <1>3 DEF SkipStart, NeedsStart, sockets
<1>4. CASE MapRegisters
  BY <1>4 DEF MapRegisters, sockets
<1>5. CASE Signal
  BY <1>5 DEF Signal, Stop, sockets
<1> QED
  BY <1>1, <1>2, <1>3, <1>4, <1>5

\* The listener opens only while no client is left over; or its descriptor becomes an orphan.
LEMMA ListenStep ==
  ASSUME ModbusInv, Listen
  PROVE  ModbusInv'
<1> USE DEF ModbusInv, ReadsWhatSelectSaw, states, ghosts, Alive
<1>1. at = "start" /\ ~mb_mapping /\ Clients = {} /\ ctx_rtu = -1 /\ server_state = "running"
  BY DEF Listen, NeedsStart, MappedFirst
<1>2. UNCHANGED <<enabled, modbusRunning, server_state, mb_mapping, crashed, misread, ready>>
  BY DEF Listen
<1>3. CASE UNCHANGED <<sockets, fresh>> /\ at' = "openRtu" /\ "tcp" \notin enabled
  BY <1>1, <1>2, <1>3, SocketsStay DEF ModbusTypeOK, MappedFirst, SlotsSet,
                                          ReadyIsOld, Places, sockets
<1>4. CASE /\ tcp_listen_sock = -1 /\ orphans = {} /\ orphans' = orphans /\ ctx_rtu' = ctx_rtu
           /\ "tcp" \in enabled
           /\ tcp_listen_sock' = LowestFree /\ opened' = opened \cup {LowestFree}
           /\ fresh' = fresh \cup {LowestFree} /\ tcp_conn_count' = 0
           /\ tcp_conn_socks' = [s \in TcpSlots |-> -1] /\ at' = "openRtu"
  <2>1. PICK n \in Descriptor : n = LowestFree /\ n \notin opened /\ n # -1 /\ n # Stdin
    BY NewDescriptor DEF ModbusTypeOK, Descriptor, Stdin
  <2>2. opened = {} /\ InSlots = {} /\ Singles = {}
    BY <1>1, <1>4 DEF EachOnce, InSlots, Singles
  <2>3. /\ Clients' = {} /\ TakenSlots' = {} /\ InSlots' = {} /\ Singles' = {n}
        /\ Cardinality({}) = 0
    BY <1>1, <1>4, <2>1, FS_EmptySet DEF Clients, TakenSlots, InSlots, Singles
  <2>4. EachOnce'
    BY <1>1, <1>4, <2>1, <2>2, <2>3 DEF EachOnce
  <2>5. ModbusTypeOK'
    BY <1>1, <1>2, <1>4, <2>1, FS_AddElement DEF ModbusTypeOK, Places, Descriptor
  <2>6. MappedFirst' /\ SlotsSet' /\ ReadyIsOld'
    BY <1>1, <1>2, <1>4, <2>1, <2>3 DEF MappedFirst, SlotsSet, ReadyIsOld
  <2> QED
    BY <1>2, <2>4, <2>5, <2>6
<1>5. CASE /\ orphans' = orphans \cup ({tcp_listen_sock} \ {-1}) /\ tcp_listen_sock' = -1
           /\ at' = "select" /\ UNCHANGED <<tcp_conn_socks, tcp_conn_count, ctx_rtu, opened, fresh>>
  <2>1. Clients' = {} /\ InSlots' = {} /\ InSlots = {} /\ Singles' = {}
    BY <1>1, <1>5 DEF Clients, InSlots, Singles
  <2>2. Singles = {tcp_listen_sock} \ {-1}
    BY <1>1 DEF Singles
  <2>3. EachOnce'
    BY <1>1, <1>5, <2>1, <2>2 DEF EachOnce
  <2> QED
    BY <1>1, <1>2, <1>5, <2>1, <2>3 DEF ModbusTypeOK, Places, MappedFirst, SlotsSet, ReadyIsOld
<1> QED
  BY <1>3, <1>4, <1>5 DEF Listen

\* The serial line is opened when there is none: at the start, and again after it failed.
LEMMA OpenedRtu ==
  ASSUME ModbusInv, ctx_rtu = -1, RtuOpens,
         UNCHANGED <<tcp_listen_sock, tcp_conn_socks, tcp_conn_count, orphans>>
  PROVE  /\ EachOnce' /\ Clients' = Clients /\ TakenSlots' = TakenSlots /\ ctx_rtu' \in Descriptor
         /\ opened' \subseteq Descriptor /\ IsFiniteSet(opened') /\ opened \subseteq opened'
         /\ fresh' = fresh \cup {ctx_rtu'} /\ ctx_rtu' \notin opened \cup {Stdin}
<1>1. PICK n \in Descriptor : n = LowestFree /\ n \notin opened /\ n # -1 /\ n # Stdin
  BY NewDescriptor DEF ModbusInv, ModbusTypeOK, Descriptor, Stdin
<1>2. ctx_rtu' = n /\ opened' = opened \cup {n} /\ fresh' = fresh \cup {n}
  BY <1>1 DEF RtuOpens
<1>3. /\ Clients' = Clients /\ TakenSlots' = TakenSlots /\ InSlots' = InSlots
      /\ Singles' = Singles \cup {n}
  BY <1>1, <1>2 DEF Clients, TakenSlots, InSlots, Singles
<1>4. tcp_listen_sock # n
  BY <1>1 DEF ModbusInv, EachOnce, Singles
<1>5. EachOnce'
  BY <1>1, <1>2, <1>3, <1>4 DEF ModbusInv, EachOnce
<1> QED
  BY <1>1, <1>2, <1>3, <1>5, FS_AddElement DEF ModbusInv, ModbusTypeOK

\* Both places where it is opened keep the invariant.
LEMMA RtuStep ==
  ASSUME ModbusInv, OpenRtu \/ Reconnect
  PROVE  ModbusInv'
<1> USE DEF ReadsWhatSelectSaw, states, ghosts, Alive
<1>1. /\ UNCHANGED <<enabled, modbusRunning, server_state, mb_mapping, crashed, misread, ready>>
      /\ UNCHANGED <<tcp_listen_sock, tcp_conn_socks, tcp_conn_count, orphans>>
  BY DEF OpenRtu, Reconnect
<1>2. \/ at = "openRtu" /\ at' \in {"map", "select"} /\ ctx_rtu = -1
      \/ at = "reconnect" /\ at' = "select" /\ mb_mapping
  BY DEF OpenRtu, Reconnect, ModbusInv, MappedFirst
<1>3. CASE UNCHANGED <<ctx_rtu, opened, fresh>>
  <2>1. UNCHANGED sockets
    BY <1>1, <1>3 DEF sockets
  <2> QED
    BY <1>1, <1>2, <1>3, <2>1, SocketsStay
       DEF ModbusInv, ModbusTypeOK, Places, MappedFirst, SlotsSet, ReadyIsOld
<1>4. CASE ctx_rtu = -1 /\ RtuOpens /\ (at' = "map" \/ mb_mapping)
  BY <1>1, <1>2, <1>4, OpenedRtu
     DEF ModbusInv, ModbusTypeOK, Places, MappedFirst, SlotsSet, ReadyIsOld
<1>5. RtuFails => UNCHANGED <<ctx_rtu, opened, fresh>>
  BY DEF RtuFails
<1> QED
  BY <1>2, <1>3, <1>4, <1>5 DEF OpenRtu, Reconnect

\* The clean-up closes everything but the orphans.
LEMMA CleanupStep ==
  ASSUME ModbusInv, CleanupWhenStopped \/ FinalCleanup
  PROVE  ModbusInv'
<1> USE DEF ReadsWhatSelectSaw, ghosts, Alive
<1>1. /\ UNCHANGED <<enabled, modbusRunning, server_state, ready, fresh, crashed, misread>>
      /\ \/ at = "cleanup" /\ at' = "accept" /\ server_state = "running" /\ ready # {}
         \/ at = "cleanup" /\ at' = "select"
         \/ at = "finish" /\ at' = "exited"
  BY DEF CleanupWhenStopped, FinalCleanup
<1>2. CASE UNCHANGED <<mb_mapping, sockets>>
  BY <1>1, <1>2, SocketsStay
     DEF ModbusInv, ModbusTypeOK, Places, MappedFirst, SlotsSet, ReadyIsOld, sockets
<1>3. CASE mb_mapping /\ CloseAll /\ at' # "accept"
  <2>1. /\ opened' = opened \ (TcpSockets \cup {ctx_rtu})
        /\ \/ "tcp" \in enabled /\ tcp_conn_socks' = [s \in TcpSlots |-> -1]
           \/ "tcp" \notin enabled /\ UNCHANGED tcp_conn_socks
        /\ tcp_conn_count' = IF "tcp" \in enabled THEN 0 ELSE tcp_conn_count
        /\ tcp_listen_sock' = IF "tcp" \in enabled THEN -1 ELSE tcp_listen_sock
        /\ ctx_rtu' = -1 /\ mb_mapping' = FALSE /\ orphans' = orphans
    BY <1>3 DEF CloseAll
  <2>2. opened' = opened \ (Singles \cup InSlots)
    BY <1>3, <2>1, TcpSocketsOpen DEF Singles, ModbusInv, ModbusTypeOK, Descriptor
  <2>3. Clients' = {} /\ InSlots' = {} /\ tcp_conn_count' = 0 /\ tcp_listen_sock' = -1
    <3>1. CASE "tcp" \in enabled
      BY <2>1, <3>1 DEF Clients, InSlots
    <3>2. CASE "tcp" \notin enabled
      <4>1. Clients = {} /\ tcp_listen_sock = -1 /\ tcp_conn_count = 0
        BY <3>2, FS_EmptySet DEF ModbusInv, SlotsSet, EachOnce
      <4> QED
        BY <2>1, <3>2, <4>1 DEF Clients, InSlots
    <3> QED
      BY <3>1, <3>2
  <2>4. EachOnce'
    <3>1. Singles' = {} /\ Cardinality({}) = 0
      BY <2>1, <2>3, FS_EmptySet DEF Singles
    <3> QED
      BY <2>1, <2>2, <2>3, <3>1 DEF ModbusInv, EachOnce
  <2>5. opened' \subseteq Descriptor /\ IsFiniteSet(opened')
    BY <2>1, FS_Subset DEF ModbusInv, ModbusTypeOK
  <2>6. tcp_conn_socks' \in [TcpSlots -> Descriptor \cup {-1, Stdin}] /\ tcp_conn_count' \in Int
    BY <2>1, <2>3 DEF ModbusInv, ModbusTypeOK
  <2>7. at' \in Places
    BY <1>1 DEF Places
  <2>8. ModbusTypeOK'
    BY <1>1, <2>1, <2>3, <2>5, <2>6, <2>7 DEF ModbusInv, ModbusTypeOK
  <2> QED
    BY <1>1, <1>3, <2>1, <2>3, <2>4, <2>8 DEF ModbusInv, MappedFirst, SlotsSet, ReadyIsOld
<1> QED
  BY <1>1, <1>2, <1>3 DEF CleanupWhenStopped, FinalCleanup, CloseAll

\* A client is put into an empty slot, with a descriptor that select has not seen.
LEMMA AcceptStep ==
  ASSUME ModbusInv, Accept
  PROVE  ModbusInv'
<1> USE DEF ReadsWhatSelectSaw, states, ghosts, Alive
<1>1. /\ UNCHANGED <<enabled, modbusRunning, server_state, mb_mapping, crashed, misread, ready>>
      /\ UNCHANGED <<tcp_listen_sock, ctx_rtu, orphans>> /\ at = "accept" /\ at' = "clients"
  BY DEF Accept
<1>2. CASE UNCHANGED <<tcp_conn_socks, tcp_conn_count, opened, fresh>>
  <2>1. UNCHANGED sockets
    BY <1>1, <1>2 DEF sockets
  <2> QED
    BY <1>1, <1>2, <2>1, SocketsStay
       DEF ModbusInv, ModbusTypeOK, Places, MappedFirst, SlotsSet, ReadyIsOld
<1>3. CASE /\ TakenSlots # TcpSlots /\ tcp_listen_sock \in ready
           /\ opened' = opened \cup {LowestFree}
           /\ tcp_conn_socks' = [tcp_conn_socks EXCEPT ![Min(TcpSlots \ TakenSlots)] = LowestFree]
           /\ tcp_conn_count' = tcp_conn_count + 1 /\ fresh' = fresh \cup {LowestFree}
  <2>1. PICK n \in Descriptor : n = LowestFree /\ n \notin opened /\ n # -1 /\ n # Stdin
    BY NewDescriptor DEF ModbusInv, ModbusTypeOK, Descriptor, Stdin
  <2>0. "tcp" \in enabled /\ TakenSlots = Clients
    <3>1. tcp_listen_sock # -1
      BY <1>1, <1>3 DEF ModbusInv, ModbusTypeOK, ReadyIsOld, Descriptor, Stdin
    <3> QED
      BY <1>1, <3>1 DEF ModbusInv, SlotsSet, MappedFirst
  <2>2. PICK m \in TcpSlots : m = Min(TcpSlots \ Clients) /\ m \notin Clients
    <3>1. TcpSlots \ Clients \subseteq Nat
      BY DEF TcpSlots
    <3>2. TcpSlots \ Clients # {}
      BY <1>3, <2>0, ClientsFinite
    <3> QED
      BY <3>1, <3>2, LeastNumber
  <2>3. tcp_conn_socks' = [tcp_conn_socks EXCEPT ![m] = n]
    BY <1>3, <2>0, <2>1, <2>2
  <2>4. /\ tcp_conn_socks' \in [TcpSlots -> Descriptor \cup {-1, Stdin}] /\ tcp_conn_socks'[m] = n
        /\ \A s \in TcpSlots \ {m} : tcp_conn_socks'[s] = tcp_conn_socks[s]
    BY <2>3 DEF ModbusInv, ModbusTypeOK
  <2>5. Clients' = Clients \cup {m} /\ TakenSlots' = TakenSlots \cup {m}
    BY <2>1, <2>4 DEF Clients, TakenSlots
  <2>6. InSlots' = InSlots \cup {n}
    <3>1. \A s \in Clients : s # m /\ tcp_conn_socks'[s] = tcp_conn_socks[s]
      BY <2>2, <2>4, ClientsFinite
    <3> QED
      BY <2>4, <2>5, <3>1 DEF InSlots
  <2>7. Singles' = Singles
    BY <1>1 DEF Singles
  <2>8. \A s \in Clients : tcp_conn_socks[s] # n
    BY <2>1 DEF ModbusInv, EachOnce, InSlots
  <2>9. \A s, t \in Clients' : tcp_conn_socks'[s] = tcp_conn_socks'[t] => s = t
    BY <2>2, <2>4, <2>5, <2>8, ClientsFinite DEF ModbusInv, EachOnce
  <2>10. tcp_conn_count' = Cardinality(Clients')
    BY <1>3, <2>2, <2>5, ClientsFinite, FS_AddElement DEF ModbusInv, EachOnce
  <2>11. EachOnce'
    BY <1>1, <1>3, <2>1, <2>6, <2>7, <2>9, <2>10 DEF ModbusInv, EachOnce
  <2>12. opened' \subseteq Descriptor /\ IsFiniteSet(opened')
    BY <1>3, <2>1, FS_AddElement DEF ModbusInv, ModbusTypeOK
  <2>13. tcp_conn_count' \in Int
    BY <1>3 DEF ModbusInv, ModbusTypeOK
  <2>14. ModbusTypeOK'
    BY <1>1, <2>4, <2>12, <2>13 DEF ModbusInv, ModbusTypeOK, Places
  <2>15. MappedFirst' /\ SlotsSet'
    BY <1>1, <2>0, <2>5 DEF ModbusInv, MappedFirst, SlotsSet
  <2>16. ReadyIsOld'
    BY <1>1, <1>3, <2>1 DEF ModbusInv, ReadyIsOld
  <2> QED
    BY <1>1, <2>11, <2>14, <2>15, <2>16 DEF ModbusInv
<1> QED
  BY <1>2, <1>3 DEF Accept

\* A client is heard when select reported it; those that are gone leave their slots.
LEMMA HandleClientsStep ==
  ASSUME ModbusInv, HandleClients
  PROVE  ModbusInv'
<1> USE DEF ReadsWhatSelectSaw, states, ghosts, Alive
<1> DEFINE heard == IF "tcp" \in enabled THEN {s \in TakenSlots : tcp_conn_socks[s] \in ready}
                    ELSE {}
<1>1. /\ UNCHANGED <<enabled, modbusRunning, server_state, mb_mapping, crashed, ready, fresh>>
      /\ UNCHANGED <<tcp_listen_sock, ctx_rtu, orphans>> /\ at = "clients" /\ at' = "rtu"
  BY DEF HandleClients
<1>2. PICK over \in SUBSET heard :
        /\ opened' = opened \ {tcp_conn_socks[s] : s \in over}
        /\ tcp_conn_socks' = [s \in TcpSlots |-> IF s \in over THEN -1 ELSE tcp_conn_socks[s]]
        /\ tcp_conn_count' = tcp_conn_count - Cardinality(over)
        /\ misread' = (misread \/ \E s \in heard : tcp_conn_socks[s] \in fresh \cup {Stdin})
  BY DEF HandleClients
<1>0. heard \subseteq {s \in Clients : tcp_conn_socks[s] \in ready}
  BY <1>1 DEF ModbusInv, MappedFirst, SlotsSet
<1>3. misread' = FALSE
  BY <1>0, <1>1, <1>2 DEF ModbusInv, ModbusTypeOK, ReadyIsOld, Clients
<1> HIDE DEF heard
<1>4. over \subseteq Clients /\ Clients \subseteq TcpSlots
  BY <1>0, <1>2, ClientsFinite
<1>5. /\ tcp_conn_socks' \in [TcpSlots -> Descriptor \cup {-1, Stdin}]
      /\ \A s \in over : tcp_conn_socks'[s] = -1
      /\ \A s \in TcpSlots \ over : tcp_conn_socks'[s] = tcp_conn_socks[s]
  BY <1>2, <1>4 DEF ModbusInv, ModbusTypeOK
<1>6. Clients' = Clients \ over /\ TakenSlots' = TakenSlots \ over
  BY <1>4, <1>5 DEF Clients, TakenSlots
<1>7. InSlots' = {tcp_conn_socks[s] : s \in Clients \ over}
  BY <1>4, <1>5, <1>6 DEF InSlots
<1>8. InSlots' = InSlots \ {tcp_conn_socks[s] : s \in over}
  BY <1>4, <1>7 DEF InSlots, ModbusInv, EachOnce
<1>9. Singles' = Singles
  BY <1>1 DEF Singles
<1>10. {tcp_conn_socks[s] : s \in over} \subseteq InSlots
  BY <1>4 DEF InSlots
<1>11. \A s, t \in Clients' : tcp_conn_socks'[s] = tcp_conn_socks'[t] => s = t
  BY <1>4, <1>5, <1>6 DEF ModbusInv, EachOnce
<1>12. Cardinality(Clients \ over) = Cardinality(Clients) - Cardinality(over)
  <2>1. Clients \cap over = over
    BY <1>4
  <2> QED
    BY <2>1, ClientsFinite, FS_Difference
<1>13. tcp_conn_count' = Cardinality(Clients')
  BY <1>2, <1>6, <1>12 DEF ModbusInv, EachOnce
<1>14. opened' = InSlots' \cup Singles' \cup orphans
  BY <1>2, <1>8, <1>9, <1>10 DEF ModbusInv, EachOnce
<1>15. EachOnce'
  BY <1>1, <1>8, <1>9, <1>11, <1>13, <1>14 DEF ModbusInv, EachOnce
<1>16. opened' \subseteq Descriptor /\ IsFiniteSet(opened')
  BY <1>2, FS_Subset DEF ModbusInv, ModbusTypeOK
<1>17. tcp_conn_count' \in Int
  <2>1. IsFiniteSet(over)
    BY <1>4, ClientsFinite, FS_Subset
  <2> QED
    BY <1>2, <2>1, FS_CardinalityType DEF ModbusInv, ModbusTypeOK
<1>18. ModbusTypeOK'
  BY <1>1, <1>3, <1>5, <1>16, <1>17 DEF ModbusInv, ModbusTypeOK, Places
<1>19. MappedFirst' /\ SlotsSet' /\ ReadyIsOld'
  BY <1>1, <1>6 DEF ModbusInv, MappedFirst, SlotsSet, ReadyIsOld
<1> QED
  BY <1>3, <1>15, <1>18, <1>19 DEF ModbusInv

\* The serial line is read when select reported it, and closed when it failed.
LEMMA HandleRtuStep ==
  ASSUME ModbusInv, HandleRtu
  PROVE  ModbusInv'
<1> USE DEF ReadsWhatSelectSaw, states, ghosts, Alive
<1>1. /\ UNCHANGED <<enabled, modbusRunning, server_state, mb_mapping, crashed, ready, fresh>>
      /\ UNCHANGED <<tcp_listen_sock, tcp_conn_socks, tcp_conn_count, orphans>>
      /\ at = "rtu" /\ at' = "reconnect"
  BY DEF HandleRtu
<1>2. misread' = FALSE
  BY DEF HandleRtu, ModbusInv, ModbusTypeOK, ReadyIsOld
<1>3. CASE UNCHANGED <<ctx_rtu, opened>>
  <2>1. UNCHANGED sockets
    BY <1>1, <1>3 DEF sockets
  <2> QED
    BY <1>1, <1>2, <1>3, <2>1, SocketsStay
       DEF ModbusInv, ModbusTypeOK, Places, MappedFirst, SlotsSet, ReadyIsOld
<1>4. CASE opened' = opened \ {ctx_rtu} /\ ctx_rtu' = -1
  <2>1. Clients' = Clients /\ TakenSlots' = TakenSlots /\ InSlots' = InSlots
    BY <1>1 DEF Clients, TakenSlots, InSlots
  <2>2. Singles' = Singles \ {ctx_rtu}
    BY <1>1, <1>4 DEF Singles, ModbusInv, EachOnce
  <2>3. ctx_rtu \in Singles \/ ctx_rtu \notin opened
    BY DEF Singles, ModbusInv, ModbusTypeOK, Descriptor
  <2>4. EachOnce'
    BY <1>1, <1>4, <2>1, <2>2, <2>3 DEF ModbusInv, EachOnce
  <2>5. opened' \subseteq Descriptor /\ IsFiniteSet(opened')
    BY <1>4, FS_Subset DEF ModbusInv, ModbusTypeOK
  <2>6. ModbusTypeOK'
    BY <1>1, <1>2, <1>4, <2>5 DEF ModbusInv, ModbusTypeOK, Places
  <2> QED
    BY <1>1, <1>2, <1>4, <2>1, <2>4, <2>6 DEF ModbusInv, MappedFirst, SlotsSet, ReadyIsOld
<1> QED
  BY <1>3, <1>4 DEF HandleRtu

\* The server starts with nothing open.
LEMMA ModbusInvInit == ModbusInit => ModbusInv
<1> SUFFICES ASSUME ModbusInit
             PROVE  ModbusInv
  OBVIOUS
<1>1. Clients = {} /\ InSlots = {} /\ Singles = {}
  BY DEF ModbusInit, Clients, InSlots, Singles
<1>2. ModbusTypeOK
  <2>1. opened \subseteq Descriptor /\ IsFiniteSet(opened)
    BY FS_EmptySet DEF ModbusInit
  <2>2. enabled \subseteq {"tcp", "rtu"}
    BY DEF ModbusInit
  <2>3. /\ tcp_conn_socks \in [TcpSlots -> Descriptor \cup {-1, Stdin}] /\ tcp_conn_count \in Int
        /\ tcp_listen_sock \in Descriptor \cup {-1} /\ ctx_rtu \in Descriptor \cup {-1}
    BY DEF ModbusInit
  <2> QED
    BY <2>1, <2>2, <2>3 DEF ModbusInit, ModbusTypeOK, Places
<1>3. EachOnce
  BY <1>1, FS_EmptySet DEF ModbusInit, EachOnce
<1> QED
  BY <1>1, <1>2, <1>3, FS_EmptySet
     DEF ModbusInit, ModbusInv, MappedFirst, SlotsSet, ReadyIsOld, ReadsWhatSelectSaw

\* Every step of the loop, and the signal handler between two, keeps the invariant.
LEMMA ModbusInvStep == ModbusInv /\ [ModbusNext]_modbusVars => ModbusInv'
<1> SUFFICES ASSUME ModbusInv, [ModbusNext]_modbusVars
             PROVE  ModbusInv'
  OBVIOUS
<1>1. CASE UNCHANGED modbusVars
  <2>1. /\ UNCHANGED sockets
        /\ UNCHANGED <<at, enabled, modbusRunning, server_state, mb_mapping, ready, fresh, crashed,
                       misread>>
    BY <1>1 DEF modbusVars, states, sockets, ghosts
  <2> QED
    BY <2>1, SocketsStay DEF ModbusInv, ModbusTypeOK, MappedFirst, SlotsSet, ReadyIsOld,
                             ReadsWhatSelectSaw, sockets
<1> QED
  BY <1>1, QuietStep, ListenStep, RtuStep, CleanupStep, AcceptStep, HandleClientsStep,
     HandleRtuStep DEF ModbusNext, ServerStep

\* DescriptorsKept: no receive is made on a socket that select has not seen in this round, and
\* every open descriptor is in one slot, one variable or an orphan; for any number of clients,
\* faults and connections.
THEOREM DescriptorsCorrect == ModbusSpec => []DescriptorsKept
<1>1. ModbusInv => DescriptorsKept
  BY SlotsCounted DEF ModbusInv, EachOnce, SlotsSet, DescriptorsKept, SlotsMatchSockets, InSlots,
                      Singles
<1> QED
  BY <1>1, ModbusInvInit, ModbusInvStep, PTL DEF ModbusSpec

=============================================================================
