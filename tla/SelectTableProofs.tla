-------------------------- MODULE SelectTableProofs --------------------------
(***************************************************************************)
(* Proofs about SelectTable for every set of connections and objects,      *)
(* every table size and every timeout.                                     *)
(***************************************************************************)
EXTENDS SelectTable, FiniteSetTheorems, TLAPS

\* An entry is at least as old as the last selection it can stem from.
AgeBound ==
  \A i \in Index : selectTable[i] # Free =>
    sinceSelect[selectTable[i].connection][selectTable[i].ioa] <= selectTable[i].age

\* The ranges of the variables; that `unused` never falls below zero is part of it.
Inv == TypeOK /\ OneOperatePerSelect

\* The entries of a selection can be counted.
LEMMA EntriesFinite ==
  ASSUME NEW c, NEW a
  PROVE  IsFiniteSet(Entries(c, a)) /\ Cardinality(Entries(c, a)) \in Nat
<1>1. IsFiniteSet(Index)
  BY SelectAssumption, FS_Interval DEF Index
<1>2. Entries(c, a) \in SUBSET Index
  BY DEF Entries
<1> QED BY <1>1, <1>2, FS_Subset, FS_CardinalityType

\* So can those after a step.
LEMMA EntriesFiniteNext ==
  ASSUME NEW c, NEW a
  PROVE  IsFiniteSet(Entries(c, a)') /\ Cardinality(Entries(c, a)') \in Nat
<1>1. IsFiniteSet(Index)
  BY SelectAssumption, FS_Interval DEF Index
<1>2. Entries(c, a)' \in SUBSET Index
  BY DEF Entries
<1> QED BY <1>1, <1>2, FS_Subset, FS_CardinalityType

\* What the three kinds of change to the table do to its entries.
LEMMA EntryIsNotFree == Free \notin SelectEntry
  BY SelectAssumption DEF SelectEntry, Age

\* Clearing an entry takes it from its selection only.
LEMMA ClearedEntry ==
  ASSUME TypeOK, NEW k \in Index, selectTable' = [selectTable EXCEPT ![k] = Free]
  PROVE  /\ selectTable' \in [Index -> SelectEntry \cup {Free}]
         /\ \A i, c, a : i \in Index => (Selects(i, c, a)' <=> i # k /\ Selects(i, c, a))
         /\ \A c, a : Entries(c, a)' = Entries(c, a) \ {k}
<1>1. selectTable' \in [Index -> SelectEntry \cup {Free}]
  BY DEF TypeOK
<1>2. \A i, c, a : i \in Index => (Selects(i, c, a)' <=> i # k /\ Selects(i, c, a))
  BY DEF TypeOK, Selects
<1>3. \A c, a : Entries(c, a)' = Entries(c, a) \ {k}
  BY <1>2 DEF Entries
<1> QED BY <1>1, <1>2, <1>3

\* Storing a selection adds its entry, and may take the place of one of the same object.
LEMMA StoredEntry ==
  ASSUME TypeOK, NEW k \in Index, NEW c \in Connection, NEW a \in Ioa, Takes(k, a),
         selectTable' = [selectTable EXCEPT ![k] =
                           [ioa |-> a, connection |-> c, age |-> 0]]
  PROVE  /\ selectTable' \in [Index -> SelectEntry \cup {Free}]
         /\ Selects(k, c, a)' /\ selectTable'[k].age = 0
         /\ \A i, d, b : i \in Index /\ i # k => (Selects(i, d, b)' <=> Selects(i, d, b))
         /\ \A d, b : ~(d = c /\ b = a) => ~Selects(k, d, b)'
         /\ \A d, b : Selects(k, d, b) => b = a
         /\ \A i \in 1..(k - 1) : ~Selects(i, c, a)
<1>1. 0 \in Age
  BY SelectAssumption DEF Age
<1>2. [ioa |-> a, connection |-> c, age |-> 0] \in SelectEntry
  BY <1>1 DEF SelectEntry
<1>3. [ioa |-> a, connection |-> c, age |-> 0] # Free
  BY <1>2, EntryIsNotFree
<1>4. selectTable'[k] = [ioa |-> a, connection |-> c, age |-> 0]
  BY DEF TypeOK
<1>5. selectTable' \in [Index -> SelectEntry \cup {Free}]
  BY <1>2 DEF TypeOK
<1>6. Selects(k, c, a)' /\ selectTable'[k].age = 0
  BY <1>3, <1>4 DEF Selects
<1>7. \A i, d, b : i \in Index /\ i # k => (Selects(i, d, b)' <=> Selects(i, d, b))
  BY DEF TypeOK, Selects
<1>8. \A d, b : ~(d = c /\ b = a) => ~Selects(k, d, b)'
  BY <1>4 DEF Selects
<1>9. \A d, b : Selects(k, d, b) => b = a
  BY DEF Selects, Takes
<1>10. \A i \in 1..(k - 1) : ~Selects(i, c, a)
  BY DEF Selects, Takes
<1> QED BY <1>5, <1>6, <1>7, <1>8, <1>9, <1>10

\* Time changes nothing but the ages.
LEMMA AgedEntries ==
  ASSUME TypeOK, Tick
  PROVE  /\ selectTable' \in [Index -> SelectEntry \cup {Free}]
         /\ \A i, c, a : i \in Index => (Selects(i, c, a)' <=> Selects(i, c, a))
         /\ \A i \in Index : selectTable[i] # Free =>
              selectTable'[i] # Free /\ selectTable'[i].age = Older(selectTable[i].age)
         /\ \A c, a : Entries(c, a)' = Entries(c, a)
<1>1. \A age \in Age : Older(age) \in Age
  BY SelectAssumption DEF Age, Older
<1>2. ASSUME NEW i \in Index, selectTable[i] # Free
      PROVE  /\ selectTable[i] \in SelectEntry
             /\ selectTable'[i] = [selectTable[i] EXCEPT !.age = Older(@)]
             /\ selectTable'[i] \in SelectEntry
             /\ selectTable'[i].age = Older(selectTable[i].age)
             /\ selectTable'[i].ioa = selectTable[i].ioa
             /\ selectTable'[i].connection = selectTable[i].connection
  <2>1. selectTable[i] \in SelectEntry
    BY <1>2 DEF TypeOK
  <2>2. selectTable'[i] = [selectTable[i] EXCEPT !.age = Older(@)]
    BY <1>2 DEF Tick
  <2> QED BY <1>1, <2>1, <2>2 DEF SelectEntry
<1>3. \A i \in Index : selectTable[i] = Free => selectTable'[i] = Free
  BY DEF Tick
<1>4. selectTable' \in [Index -> SelectEntry \cup {Free}]
  <2>1. selectTable' = [i \in Index |-> selectTable'[i]]
    BY DEF Tick
  <2> QED BY <1>2, <1>3, <2>1
<1>5. \A i, c, a : i \in Index => (Selects(i, c, a)' <=> Selects(i, c, a))
  BY <1>2, <1>3, EntryIsNotFree DEF Selects
<1>6. \A c, a : Entries(c, a)' = Entries(c, a)
  BY <1>5 DEF Entries
<1> QED BY <1>2, <1>4, <1>5, <1>6, EntryIsNotFree

\* Every step keeps the variables in their ranges and the entries of a connection
\* no more than its unused selections.
LEMMA InvStep == Inv /\ [Next]_vars => Inv'
<1> SUFFICES ASSUME Inv, [Next]_vars PROVE Inv'
  OBVIOUS
<1> USE DEF history
<1>0. /\ TypeOK /\ OneOperatePerSelect
      /\ executing \in [Connection -> Ioa \cup {NoIoa}]
      /\ unused \in [Connection -> [Ioa -> 0..MaxSelects]]
      /\ sinceSelect \in [Connection -> [Ioa -> Age]]
      /\ held \in [Connection -> SUBSET Ioa] /\ own \in [Connection -> SUBSET Ioa]
  BY DEF Inv, TypeOK
<1>1. CASE UNCHANGED vars
  BY <1>1 DEF Inv, TypeOK, OneOperatePerSelect, vars, Entries, Selects
<1>2. CASE Tick
  <2>1. TypeOK'
    <3>1. \A age \in Age : Older(age) \in Age
      BY SelectAssumption DEF Age, Older
    <3>2. sinceSelect' \in [Connection -> [Ioa -> Age]]
      BY <1>0, <1>2, <3>1 DEF Tick
    <3> QED BY <1>0, <1>2, <3>2, AgedEntries DEF Tick, TypeOK
  <2>2. OneOperatePerSelect'
    BY <1>0, <1>2, AgedEntries DEF Tick, OneOperatePerSelect
  <2> QED BY <2>1, <2>2 DEF Inv
<1>3. ASSUME NEW c \in Connection, NewMaster(c) PROVE Inv'
  BY <1>0, <1>3 DEF NewMaster, Inv, TypeOK, OneOperatePerSelect, Entries, Selects
<1>4. ASSUME NEW c \in Connection, NEW a \in Ioa, Select(c, a) PROVE Inv'
  <2>1. /\ unused' \in [Connection -> [Ioa -> 0..MaxSelects]]
        /\ unused'[c][a] = unused[c][a] + 1
        /\ \A d \in Connection, b \in Ioa : ~(d = c /\ b = a) => unused'[d][b] = unused[d][b]
    <3>1. unused[c][a] \in 0..MaxSelects /\ unused[c][a] + 1 \in 0..MaxSelects
      BY <1>0, <1>4, SelectAssumption DEF Select
    <3> QED BY <1>0, <1>4, <3>1 DEF Select
  <2>2. sinceSelect' \in [Connection -> [Ioa -> Age]]
    <3>1. 0 \in Age
      BY SelectAssumption DEF Age
    <3> QED BY <1>0, <1>4, <3>1 DEF Select
  <2>3. /\ held' \in [Connection -> SUBSET Ioa] /\ own' \in [Connection -> SUBSET Ioa]
        /\ executing' = executing
    BY <1>0, <1>4 DEF Select
  <2>4. ASSUME NEW k \in Index, Takes(k, a),
               selectTable' = [selectTable EXCEPT ![k] =
                                 [ioa |-> a, connection |-> c, age |-> 0]]
        PROVE  Inv'
    <3>1. TypeOK'
      BY <1>0, <2>1, <2>2, <2>3, <2>4, StoredEntry DEF TypeOK
    <3>2. ASSUME NEW d \in Connection, NEW b \in Ioa
          PROVE  Cardinality(Entries(d, b)') <= unused'[d][b]
      <4>1. Cardinality(Entries(d, b)) <= unused[d][b]
        BY <1>0 DEF OneOperatePerSelect
      <4>2. CASE d = c /\ b = a
        <5>1. Entries(d, b)' \in SUBSET (Entries(d, b) \cup {k})
          BY <1>0, <2>4, StoredEntry DEF Entries
        <5>2. /\ IsFiniteSet(Entries(d, b) \cup {k})
              /\ Cardinality(Entries(d, b) \cup {k}) <= Cardinality(Entries(d, b)) + 1
          <6>1. IsFiniteSet(Entries(d, b)) /\ Cardinality(Entries(d, b)) \in Nat
            BY EntriesFinite
          <6>2. /\ IsFiniteSet(Entries(d, b) \cup {k})
                /\ Cardinality(Entries(d, b) \cup {k}) =
                     IF k \in Entries(d, b) THEN Cardinality(Entries(d, b))
                     ELSE Cardinality(Entries(d, b)) + 1
            BY <6>1, FS_AddElement
          <6> QED BY <6>1, <6>2
        <5>3. Cardinality(Entries(d, b)') <= Cardinality(Entries(d, b) \cup {k})
          BY <5>1, <5>2, FS_Subset
        <5>4. /\ Cardinality(Entries(d, b) \cup {k}) \in Nat
              /\ Cardinality(Entries(d, b)) \in Nat
              /\ Cardinality(Entries(d, b)') \in Nat
              /\ unused[d][b] \in Nat
          BY <1>0, <5>2, EntriesFinite, EntriesFiniteNext, FS_CardinalityType, SelectAssumption
        <5>5. unused'[d][b] = unused[d][b] + 1
          BY <2>1, <4>2
        <5> QED BY <4>1, <5>2, <5>3, <5>4, <5>5
      <4>3. CASE ~(d = c /\ b = a)
        <5>1. Entries(d, b)' \in SUBSET Entries(d, b)
          <6>1. \A i \in Index : Selects(i, d, b)' => Selects(i, d, b)
            <7>1. \A i \in Index : i # k => (Selects(i, d, b)' <=> Selects(i, d, b))
              BY <1>0, <2>4, StoredEntry
            <7>2. ~Selects(k, d, b)'
              BY <1>0, <2>4, <4>3, StoredEntry
            <7> QED BY <7>1, <7>2
          <6> QED BY <6>1 DEF Entries
        <5>2. Cardinality(Entries(d, b)') <= Cardinality(Entries(d, b))
          BY <5>1, EntriesFinite, FS_Subset
        <5>3. /\ Cardinality(Entries(d, b)) \in Nat
              /\ Cardinality(Entries(d, b)') \in Nat
              /\ unused[d][b] \in Nat
          BY <1>0, EntriesFinite, EntriesFiniteNext, SelectAssumption
        <5>4. unused'[d][b] = unused[d][b]
          BY <2>1, <4>3
        <5> QED BY <4>1, <5>2, <5>3, <5>4
      <4> QED BY <4>2, <4>3
    <3>3. ASSUME NEW d \in Connection, NEW b \in Ioa, executing'[d] = b
          PROVE  unused'[d][b] > 0
      <4>1. unused[d][b] > 0 /\ unused[d][b] \in Nat
        BY <1>0, <2>3, <3>3, SelectAssumption DEF OneOperatePerSelect
      <4> QED BY <2>1, <4>1
    <3> QED BY <3>1, <3>2, <3>3 DEF Inv, OneOperatePerSelect
  <2>5. CASE UNCHANGED selectTable
    <3>1. TypeOK'
      BY <1>0, <2>1, <2>2, <2>3, <2>5 DEF TypeOK
    <3>2. \A d, b : Entries(d, b)' = Entries(d, b)
      BY <2>5 DEF Entries, Selects
    <3>3. ASSUME NEW d \in Connection, NEW b \in Ioa
          PROVE  unused'[d][b] >= unused[d][b] /\ unused[d][b] \in Nat /\ unused'[d][b] \in Nat
      BY <1>0, <2>1, SelectAssumption
    <3>4. ASSUME NEW d \in Connection, NEW b \in Ioa
          PROVE  /\ Cardinality(Entries(d, b)') <= unused'[d][b]
                 /\ executing'[d] = b => unused'[d][b] > 0
      BY <1>0, <2>3, <3>2, <3>3, EntriesFinite DEF OneOperatePerSelect
    <3> QED BY <3>1, <3>4 DEF Inv, OneOperatePerSelect
  <2> QED BY <1>4, <2>4, <2>5 DEF Select
<1>5. ASSUME NEW c \in Connection, NEW a \in Ioa, CheckSelected(c, a) PROVE Inv'
  <2>1. UNCHANGED <<unused, sinceSelect, held, own>>
    BY <1>5 DEF CheckSelected
  <2>2. ASSUME NEW k \in Index, IsFirstOf(k, c, a),
               executing' = [executing EXCEPT ![c] = a], UNCHANGED selectTable
        PROVE  Inv'
    <3>1. TypeOK'
      BY <1>0, <2>1, <2>2 DEF TypeOK
    <3>2. k \in Entries(c, a)
      BY <2>2 DEF IsFirstOf, Entries
    <3>3. Cardinality(Entries(c, a)) # 0
      BY <3>2, EntriesFinite, FS_EmptySet
    <3>4. unused[c][a] > 0
      BY <1>0, <3>3, EntriesFinite, SelectAssumption DEF OneOperatePerSelect
    <3>5. \A d, b : Entries(d, b)' = Entries(d, b)
      BY <2>2 DEF Entries, Selects
    <3> QED BY <1>0, <2>1, <2>2, <3>1, <3>4, <3>5 DEF Inv, OneOperatePerSelect
  <2>3. ASSUME NEW k \in Index,
               selectTable' = [selectTable EXCEPT ![k] = Free], UNCHANGED executing
        PROVE  Inv'
    <3>1. TypeOK'
      BY <1>0, <2>1, <2>3, ClearedEntry DEF TypeOK
    <3>2. ASSUME NEW d \in Connection, NEW b \in Ioa
          PROVE  Cardinality(Entries(d, b)') <= unused[d][b]
      <4>1. Entries(d, b)' = Entries(d, b) \ {k}
        BY <1>0, <2>3, ClearedEntry
      <4>2. Cardinality(Entries(d, b)') <= Cardinality(Entries(d, b))
        BY <4>1, EntriesFinite, FS_Subset
      <4> QED BY <1>0, <4>2, EntriesFinite, EntriesFiniteNext, SelectAssumption
              DEF OneOperatePerSelect
    <3> QED BY <1>0, <2>1, <2>3, <3>1, <3>2 DEF Inv, OneOperatePerSelect
  <2>4. CASE UNCHANGED <<selectTable, executing>>
    BY <1>0, <2>1, <2>4 DEF Inv, TypeOK, OneOperatePerSelect, Entries, Selects
  <2> QED BY <1>5, <2>2, <2>3, <2>4 DEF CheckSelected
<1>6. ASSUME NEW c \in Connection, Execute(c) PROVE Inv'
  <2> DEFINE a == executing[c]
  <2>1. a \in Ioa /\ unused[c][a] > 0 /\ unused[c][a] \in 0..MaxSelects
    BY <1>0, <1>6 DEF Execute, OneOperatePerSelect
  <2>2. /\ unused' = [unused EXCEPT ![c][a] = @ - 1]
        /\ executing' = [executing EXCEPT ![c] = NoIoa]
        /\ held' = [held EXCEPT ![c] = @ \ {a}]
        /\ UNCHANGED <<sinceSelect, own>>
    BY <1>6 DEF Execute
  <2> HIDE DEF a
  <2>3. /\ unused' \in [Connection -> [Ioa -> 0..MaxSelects]]
        /\ unused'[c][a] = unused[c][a] - 1
        /\ \A d \in Connection, b \in Ioa : ~(d = c /\ b = a) => unused'[d][b] = unused[d][b]
    <3>1. unused[c][a] - 1 \in 0..MaxSelects
      BY <2>1, SelectAssumption
    <3> QED BY <1>0, <2>1, <2>2, <3>1
  <2>4. selectTable' \in [Index -> SelectEntry \cup {Free}] =>  TypeOK'
    BY <1>0, <2>2, <2>3 DEF TypeOK
  <2>5. ASSUME NEW d \in Connection, NEW b \in Ioa, executing'[d] = b
        PROVE  unused'[d][b] > 0
    <3>1. d # c /\ executing[d] = b
      BY <1>0, <2>2, <2>5, SelectAssumption
    <3> QED BY <1>0, <2>3, <3>1 DEF OneOperatePerSelect
  <2>6. ASSUME NEW k \in Index, IsFirstOf(k, c, a),
               selectTable' = [selectTable EXCEPT ![k] = Free]
        PROVE  Inv'
    <3>1. TypeOK'
      BY <1>0, <2>4, <2>6, ClearedEntry
    <3>2. ASSUME NEW d \in Connection, NEW b \in Ioa
          PROVE  Cardinality(Entries(d, b)') <= unused'[d][b]
      <4>1. Entries(d, b)' = Entries(d, b) \ {k}
        BY <1>0, <2>6, ClearedEntry
      <4>2. Cardinality(Entries(d, b)) <= unused[d][b]
        BY <1>0 DEF OneOperatePerSelect
      <4>3. CASE d = c /\ b = a
        <5>1. k \in Entries(d, b)
          BY <2>6, <4>3 DEF IsFirstOf, Entries
        <5>2. Cardinality(Entries(d, b)') = Cardinality(Entries(d, b)) - 1
          BY <4>1, <5>1, EntriesFinite, FS_RemoveElement
        <5> QED BY <2>1, <2>3, <4>2, <4>3, <5>2, EntriesFinite
      <4>4. CASE ~(d = c /\ b = a)
        <5>1. Cardinality(Entries(d, b)') <= Cardinality(Entries(d, b))
          BY <4>1, EntriesFinite, FS_Subset
        <5> QED BY <1>0, <2>3, <4>2, <4>4, <5>1, EntriesFinite, EntriesFiniteNext,
                   SelectAssumption
      <4> QED BY <4>3, <4>4
    <3> QED BY <2>5, <3>1, <3>2 DEF Inv, OneOperatePerSelect
  <2>7. CASE NoEntry(c, a) /\ UNCHANGED selectTable
    <3>1. TypeOK'
      BY <1>0, <2>4, <2>7 DEF TypeOK
    <3>2. ASSUME NEW d \in Connection, NEW b \in Ioa
          PROVE  Cardinality(Entries(d, b)') <= unused'[d][b]
      <4>1. Entries(d, b)' = Entries(d, b)
        BY <2>7 DEF Entries, Selects
      <4>2. CASE d = c /\ b = a
        <5>1. Entries(d, b) = {}
          BY <2>7, <4>2 DEF NoEntry, Entries
        <5> QED BY <2>1, <2>3, <4>1, <4>2, <5>1, FS_EmptySet, SelectAssumption
      <4>3. CASE ~(d = c /\ b = a)
        BY <1>0, <2>3, <4>1, <4>3 DEF OneOperatePerSelect
      <4> QED BY <4>2, <4>3
    <3> QED BY <2>5, <3>1, <3>2 DEF Inv, OneOperatePerSelect
  <2> QED BY <1>6, <2>6, <2>7 DEF Execute, a
<1> QED BY <1>1, <1>2, <1>3, <1>4, <1>5, <1>6 DEF Next

\* The empty table satisfies the invariant.
LEMMA InvInit == Init => Inv
<1> SUFFICES ASSUME Init PROVE Inv
  OBVIOUS
<1>1. TypeOK
  BY SelectAssumption DEF Init, TypeOK, Age
<1>2. \A c \in Connection, a \in Ioa : Entries(c, a) = {}
  BY DEF Init, Entries, Selects
<1>3. OneOperatePerSelect
  <2>1. \A c \in Connection, a \in Ioa : Cardinality(Entries(c, a)) = 0
    BY <1>2, FS_EmptySet
  <2>2. \A c \in Connection, a \in Ioa : unused[c][a] = 0 /\ executing[c] # a
    BY SelectAssumption DEF Init
  <2> QED BY <2>1, <2>2 DEF OneOperatePerSelect
<1> QED BY <1>1, <1>3 DEF Inv

\* Every variable stays in its range: no command is carried out that was not
\* selected, which would make the count of unused selections negative.
THEOREM TypeCorrect == Spec => []TypeOK
<1>1. Spec => []Inv
  BY InvInit, InvStep, PTL DEF Spec
<1> QED BY <1>1, PTL DEF Inv

\* One selection allows one command at most.
THEOREM OneOperateCorrect == Spec => []OneOperatePerSelect
<1>1. Spec => []Inv
  BY InvInit, InvStep, PTL DEF Spec
<1> QED BY <1>1, PTL DEF Inv

\* How a select command and the clock move the age of the last selections.
LEMMA SinceOfSelect ==
  ASSUME TypeOK, NEW c \in Connection, NEW a \in Ioa, Select(c, a)
  PROVE  /\ sinceSelect'[c][a] = 0
         /\ \A d \in Connection, b \in Ioa :
              ~(d = c /\ b = a) => sinceSelect'[d][b] = sinceSelect[d][b]
  BY DEF Select, TypeOK

\* Time passes for every selection alike.
LEMMA SinceOfTick ==
  ASSUME TypeOK, Tick
  PROVE  \A d \in Connection, b \in Ioa : sinceSelect'[d][b] = Older(sinceSelect[d][b])
  BY DEF Tick, TypeOK

\* Ages grow together and stop at the timeout.
LEMMA OlderMonotone ==
  \A x, y \in Age : /\ x <= y => Older(x) <= Older(y)
                    /\ Older(x) < Timeout => x < Timeout
  BY SelectAssumption DEF Older, Age

\* AgeBound in terms of connections and objects.
LEMMA AgeBoundAlt ==
  ASSUME TypeOK
  PROVE  AgeBound <=> \A c \in Connection, a \in Ioa : \A i \in Index :
                        Selects(i, c, a) => sinceSelect[c][a] <= selectTable[i].age
  BY DEF AgeBound, Selects, TypeOK, SelectEntry

\* The same bound after a step.
LEMMA AgeBoundAltNext ==
  ASSUME TypeOK'
  PROVE  AgeBound' <=> \A c \in Connection, a \in Ioa : \A i \in Index :
                         Selects(i, c, a)' => sinceSelect'[c][a] <= selectTable'[i].age
  BY DEF AgeBound, Selects, TypeOK, SelectEntry

\* Every step keeps an entry as old as the last select of its object, at least.
LEMMA AgeBoundStep == TypeOK /\ TypeOK' /\ AgeBound /\ [Next]_vars => AgeBound'
<1> SUFFICES ASSUME TypeOK, TypeOK', AgeBound, [Next]_vars,
                    NEW d \in Connection, NEW b \in Ioa, NEW i \in Index,
                    Selects(i, d, b)'
             PROVE  sinceSelect'[d][b] <= selectTable'[i].age
  BY AgeBoundAltNext
<1> USE DEF history
<1>1. Selects(i, d, b) => sinceSelect[d][b] <= selectTable[i].age
  BY AgeBoundAlt
<1>2. CASE UNCHANGED <<selectTable, sinceSelect>>
  BY <1>1, <1>2 DEF Selects
<1>3. CASE Tick
  <2>1. Selects(i, d, b) /\ selectTable'[i].age = Older(selectTable[i].age)
    BY <1>3, AgedEntries DEF Selects
  <2>2. sinceSelect[d][b] \in Age /\ selectTable[i].age \in Age
    BY <2>1 DEF TypeOK, Selects, SelectEntry
  <2> QED BY <1>1, <1>3, <2>1, <2>2, OlderMonotone, SinceOfTick
<1>4. ASSUME NEW c \in Connection, NEW a \in Ioa, Select(c, a)
      PROVE  sinceSelect'[d][b] <= selectTable'[i].age
  <2>1. selectTable'[i] \in SelectEntry
    BY DEF TypeOK, Selects
  <2>2. selectTable'[i].age >= 0
    BY <2>1, SelectAssumption DEF SelectEntry, Age
  <2>3. CASE d = c /\ b = a
    BY <1>4, <2>2, <2>3, SinceOfSelect, <2>1, SelectAssumption DEF SelectEntry, Age
  <2>4. CASE ~(d = c /\ b = a)
    <3>1. sinceSelect'[d][b] = sinceSelect[d][b]
      BY <1>4, <2>4, SinceOfSelect
    <3>2. CASE UNCHANGED selectTable
      BY <1>1, <3>1, <3>2 DEF Selects
    <3>3. ASSUME NEW k \in Index, Takes(k, a),
                 selectTable' = [selectTable EXCEPT ![k] =
                                   [ioa |-> a, connection |-> c, age |-> 0]]
          PROVE  sinceSelect'[d][b] <= selectTable'[i].age
      <4>1. i # k
        <5>1. ~Selects(k, d, b)'
          BY <2>4, <3>3, StoredEntry
        <5> QED BY <5>1
      <4>2. selectTable'[i] = selectTable[i]
        BY <3>3, <4>1 DEF TypeOK
      <4> QED BY <1>1, <3>1, <4>2 DEF Selects
    <3> QED BY <1>4, <3>2, <3>3 DEF Select
  <2> QED BY <2>3, <2>4
<1>5. ASSUME NEW k \in Index, selectTable' = [selectTable EXCEPT ![k] = Free],
             UNCHANGED sinceSelect
      PROVE  sinceSelect'[d][b] <= selectTable'[i].age
  <2>1. i # k /\ Selects(i, d, b)
    BY <1>5, ClearedEntry
  <2>2. selectTable'[i] = selectTable[i]
    BY <1>5, <2>1 DEF TypeOK
  <2> QED BY <1>1, <1>5, <2>1, <2>2
<1>6. ASSUME NEW c \in Connection, NEW a \in Ioa, CheckSelected(c, a)
      PROVE  sinceSelect'[d][b] <= selectTable'[i].age
  BY <1>2, <1>5, <1>6 DEF CheckSelected
<1>7. ASSUME NEW c \in Connection, Execute(c)
      PROVE  sinceSelect'[d][b] <= selectTable'[i].age
  BY <1>2, <1>5, <1>7 DEF Execute
<1>8. ASSUME NEW c \in Connection, NewMaster(c)
      PROVE  sinceSelect'[d][b] <= selectTable'[i].age
  BY <1>2, <1>8 DEF NewMaster
<1>9. CASE UNCHANGED vars
  BY <1>2, <1>9 DEF vars
<1> QED BY <1>3, <1>4, <1>6, <1>7, <1>8, <1>9 DEF Next

\* A command that finds its selection has been selected within the timeout.
LEMMA FreshStep ==
  ASSUME TypeOK, AgeBound, [Next]_vars, NEW c \in Connection,
         executing[c] = NoIoa, executing'[c] # NoIoa
  PROVE  sinceSelect[c][executing'[c]] < Timeout
<1> USE DEF history
<1>1. executing \in [Connection -> Ioa \cup {NoIoa}]
  BY DEF TypeOK
<1>2. PICK d \in Connection, a \in Ioa : CheckSelected(d, a)
  BY <1>1 DEF Next, vars, Tick, NewMaster, Select, Execute
<1>3. PICK i \in Index : /\ IsFirstOf(i, d, a)
                         /\ IsFresh(selectTable[i].age)
                         /\ executing' = [executing EXCEPT ![d] = a]
  BY <1>2 DEF CheckSelected
<1>4. d = c /\ executing'[c] = a
  BY <1>1, <1>3
<1>5. Selects(i, c, a)
  BY <1>3, <1>4 DEF IsFirstOf
<1>6. sinceSelect[c][a] <= selectTable[i].age
  BY <1>5, AgeBoundAlt
<1>7. sinceSelect[c][a] \in Age /\ selectTable[i].age \in Age
  BY <1>5 DEF TypeOK, Selects, SelectEntry
<1> QED BY <1>3, <1>4, <1>6, <1>7, SelectAssumption DEF IsFresh, Age

\* A command is carried out only within the timeout after its connection selected
\* the object.
THEOREM FreshCorrect == Spec => OperateIsFresh
<1>1. Init => AgeBound
  BY DEF Init, AgeBound
<1>2. TypeOK /\ AgeBound /\ [Next]_vars =>
        [\A c \in Connection : executing[c] = NoIoa /\ executing'[c] # NoIoa
           => sinceSelect[c][executing'[c]] < Timeout]_vars
  BY FreshStep
<1>3. Spec => []AgeBound
  BY <1>1, TypeCorrect, AgeBoundStep, PTL DEF Spec
<1> QED BY <1>2, <1>3, TypeCorrect, PTL DEF Spec, OperateIsFresh

\* The witness of SelectionHonoured.
Finds(i, c, a) == IsFirstOf(i, c, a) /\ selectTable[i].age = sinceSelect[c][a]

\* Every step keeps the entry of a selection that was not used, cancelled or timed out.
LEMMA HonouredStep ==
  TypeOK /\ TypeOK' /\ SelectionHonoured /\ [Next]_vars => SelectionHonoured'
<1> SUFFICES ASSUME TypeOK, TypeOK', SelectionHonoured, [Next]_vars,
                    NEW d \in Connection, NEW b \in Ioa, b \in held'[d],
                    sinceSelect'[d][b] < Timeout
             PROVE  \E i \in Index : Finds(i, d, b)'
  BY DEF SelectionHonoured, Finds, TypeOK
<1> USE DEF history
<1>0. /\ sinceSelect[d][b] \in Age /\ held \in [Connection -> SUBSET Ioa]
      /\ \A k \in Index : 1..(k - 1) \subseteq Index
  BY SelectAssumption DEF TypeOK, Index
<1>1. ASSUME b \in held[d], sinceSelect[d][b] < Timeout
      PROVE  \E i \in Index : Finds(i, d, b)
  BY <1>1 DEF SelectionHonoured, Finds
<1>2. CASE UNCHANGED <<selectTable, sinceSelect>> /\ b \in held[d]
  BY <1>1, <1>2 DEF Finds, IsFirstOf, Selects
<1>3. CASE Tick
  <2>1. sinceSelect'[d][b] = Older(sinceSelect[d][b]) /\ b \in held[d]
    BY <1>3, SinceOfTick DEF Tick
  <2>2. PICK i \in Index : Finds(i, d, b)
    BY <1>0, <1>1, <2>1, OlderMonotone
  <2>3. IsFirstOf(i, d, b)'
    BY <1>0, <1>3, <2>2, AgedEntries DEF Finds, IsFirstOf
  <2>4. selectTable'[i].age = Older(selectTable[i].age)
    BY <1>3, <2>2, AgedEntries DEF Finds, IsFirstOf, Selects
  <2> QED BY <2>1, <2>2, <2>3, <2>4 DEF Finds
<1>4. ASSUME NEW c \in Connection, NEW a \in Ioa, Select(c, a)
      PROVE  \E i \in Index : Finds(i, d, b)'
  <2>1. ASSUME NEW k \in Index, Takes(k, a),
               selectTable' = [selectTable EXCEPT ![k] =
                                 [ioa |-> a, connection |-> c, age |-> 0]],
               held' = [e \in Connection |->
                          IF e = c THEN held[e] \cup {a} ELSE held[e] \ {a}]
        PROVE  \E i \in Index : Finds(i, d, b)'
    <3>1. CASE d = c /\ b = a
      <4>1. Selects(k, d, b)' /\ selectTable'[k].age = 0
        BY <2>1, <3>1, StoredEntry
      <4>2. sinceSelect'[d][b] = 0
        BY <1>4, <3>1, SinceOfSelect
      <4>3. ASSUME NEW j \in 1..(k - 1) PROVE ~Selects(j, d, b)'
        <5>1. ~Selects(j, d, b)
          BY <2>1, <3>1, StoredEntry
        <5>2. j \in Index /\ j # k
          BY SelectAssumption DEF Index
        <5> QED BY <2>1, <5>1, <5>2, StoredEntry
      <4> QED BY <4>1, <4>2, <4>3 DEF Finds, IsFirstOf
    <3>2. CASE ~(d = c /\ b = a)
      <4>1. b \in held[d] /\ b # a
        BY <2>1, <3>2
      <4>2. sinceSelect'[d][b] = sinceSelect[d][b]
        BY <1>4, <3>2, SinceOfSelect
      <4>3. PICK i \in Index : Finds(i, d, b)
        BY <1>1, <4>1, <4>2
      <4>4. i # k
        <5>1. Selects(i, d, b)
          BY <4>3 DEF Finds, IsFirstOf
        <5>2. ~Selects(k, d, b)
          BY <2>1, <4>1, StoredEntry
        <5> QED BY <5>1, <5>2
      <4>5. selectTable'[i] = selectTable[i] /\ Selects(i, d, b)'
        BY <2>1, <4>3, <4>4 DEF TypeOK, Finds, IsFirstOf, Selects
      <4>6. ASSUME NEW j \in 1..(i - 1) PROVE ~Selects(j, d, b)'
        <5>1. j \in Index /\ ~Selects(j, d, b)
          BY <4>3, SelectAssumption DEF Finds, IsFirstOf, Index
        <5>2. CASE j = k
          <6>1. ~Selects(k, d, b)'
            BY <2>1, <3>2, StoredEntry
          <6> QED BY <5>2, <6>1
        <5>3. CASE j # k
          BY <2>1, <5>1, <5>3, StoredEntry, ZenonT(40)
        <5> QED BY <5>2, <5>3
      <4> QED BY <4>2, <4>3, <4>5, <4>6 DEF Finds, IsFirstOf
    <3> QED BY <3>1, <3>2
  <2>2. CASE held' = [held EXCEPT ![c] = @ \ {a}] /\ UNCHANGED selectTable
    <3>1. b \in held[d] /\ ~(d = c /\ b = a)
      BY <1>0, <2>2
    <3>2. sinceSelect'[d][b] = sinceSelect[d][b]
      BY <1>4, <3>1, SinceOfSelect
    <3> QED BY <1>1, <2>2, <3>1, <3>2 DEF Finds, IsFirstOf, Selects
  <2> QED BY <1>4, <2>1, <2>2 DEF Select
<1>5. ASSUME NEW k \in Index, selectTable' = [selectTable EXCEPT ![k] = Free],
             UNCHANGED sinceSelect, b \in held[d], ~Finds(k, d, b)
      PROVE  \E i \in Index : Finds(i, d, b)'
  <2>1. PICK i \in Index : Finds(i, d, b)
    BY <1>1, <1>5
  <2>2. i # k
    BY <1>5, <2>1
  <2>3. selectTable'[i] = selectTable[i]
    BY <1>5, <2>2 DEF TypeOK
  <2>4. IsFirstOf(i, d, b)'
    BY <1>0, <1>5, <2>1, <2>2, ClearedEntry DEF Finds, IsFirstOf
  <2> QED BY <1>5, <2>1, <2>3, <2>4 DEF Finds
<1>6. ASSUME NEW c \in Connection, NEW a \in Ioa, CheckSelected(c, a)
      PROVE  \E i \in Index : Finds(i, d, b)'
  <2>1. UNCHANGED sinceSelect /\ b \in held[d]
    BY <1>6 DEF CheckSelected
  <2>2. CASE UNCHANGED selectTable
    BY <1>2, <2>1, <2>2
  <2>3. ASSUME NEW k \in Index, ~IsFresh(selectTable[k].age),
               selectTable' = [selectTable EXCEPT ![k] = Free]
        PROVE  \E i \in Index : Finds(i, d, b)'
    <3>1. ~Finds(k, d, b)
      BY <2>1, <2>3 DEF Finds, IsFresh
    <3> QED BY <1>5, <2>1, <2>3, <3>1
  <2> QED BY <1>6, <2>2, <2>3 DEF CheckSelected
<1>7. ASSUME NEW c \in Connection, Execute(c)
      PROVE  \E i \in Index : Finds(i, d, b)'
  <2>1. UNCHANGED sinceSelect /\ held' = [held EXCEPT ![c] = @ \ {executing[c]}]
    BY <1>7 DEF Execute
  <2>2. b \in held[d] /\ ~(d = c /\ b = executing[c])
    BY <1>0, <2>1
  <2>3. CASE UNCHANGED selectTable
    BY <1>2, <2>1, <2>2, <2>3
  <2>4. ASSUME NEW k \in Index, IsFirstOf(k, c, executing[c]),
               selectTable' = [selectTable EXCEPT ![k] = Free]
        PROVE  \E i \in Index : Finds(i, d, b)'
    <3>1. ~Finds(k, d, b)
      BY <2>2, <2>4 DEF Finds, IsFirstOf, Selects
    <3> QED BY <1>5, <2>1, <2>2, <2>4, <3>1
  <2> QED BY <1>7, <2>3, <2>4 DEF Execute
<1>8. ASSUME NEW c \in Connection, NewMaster(c)
      PROVE  \E i \in Index : Finds(i, d, b)'
  BY <1>2, <1>8 DEF NewMaster
<1>9. CASE UNCHANGED vars
  BY <1>2, <1>9 DEF vars
<1> QED BY <1>3, <1>4, <1>6, <1>7, <1>8, <1>9 DEF Next

\* A stored selection that nobody contends for is found while it is valid.
THEOREM HonouredCorrect == Spec => []SelectionHonoured
<1>1. Init => SelectionHonoured
  BY DEF Init, SelectionHonoured
<1> QED BY <1>1, TypeCorrect, HonouredStep, PTL DEF Spec

=============================================================================
