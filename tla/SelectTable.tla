----------------------------- MODULE SelectTable -----------------------------
(***************************************************************************)
(* Select-before-operate of the modular server (command_handler.c) with    *)
(* command_mode "sbo".  The table is shared by every connection and by     *)
(* C_SC_NA_1 and C_SE_NC_1 commands, which use it alike.  A connection's   *)
(* handler runs on the thread of that connection; each access to the table *)
(* is one critical section of selectTableMutex, and an execute command     *)
(* needs two of them.                                                      *)
(*                                                                         *)
(* A connection is the connection object of the slave, the pointer that    *)
(* the table stores: the same object serves a later master once the first  *)
(* one has left.  The timestamp of an entry is kept as its age, which      *)
(* stops at Timeout; the clock is assumed not to be set back.              *)
(***************************************************************************)
EXTENDS Integers, FiniteSets

CONSTANTS
  Connection, \* connection objects
  Ioa,        \* information object addresses of commands
  MaxEntries, \* MAX_SELECT_ENTRIES
  Timeout,    \* SELECT_TIMEOUT_MS, in steps of the clock
  MaxSelects, \* bound of the model: selections not yet used, of each kind
  NoIoa, Free \* no command in execution, unused entry

ASSUME SelectAssumption ==
  /\ MaxEntries \in Nat \ {0}
  /\ Timeout \in Nat \ {0}
  /\ MaxSelects \in Nat
  /\ NoIoa \notin Ioa
  /\ Free \notin [ioa : Ioa, connection : Connection, age : 0..Timeout]

Index == 1..MaxEntries
Age == 0..Timeout
SelectEntry == [ioa : Ioa, connection : Connection, age : Age]

VARIABLES
  selectTable,  \* the entries with isSelected set; Free stands for the others
  executing,    \* ioa of the execute command that found its selection
  unused,       \* history: selections confirmed minus commands executed
  sinceSelect,  \* history: age of the last selection, Timeout if there is none
  held,         \* history: a stored selection not executed, and no other
                \* connection has selected the same object since
  own           \* history: objects this master has selected

history == <<unused, sinceSelect, held, own>>
vars == <<selectTable, executing, history>>

Init ==
  /\ selectTable = [i \in Index |-> Free]
  /\ executing = [c \in Connection |-> NoIoa]
  /\ unused = [c \in Connection |-> [a \in Ioa |-> 0]]
  /\ sinceSelect = [c \in Connection |-> [a \in Ioa |-> Timeout]]
  /\ held = [c \in Connection |-> {}]
  /\ own = [c \in Connection |-> {}]

Selects(i, c, a) ==
  /\ selectTable[i] # Free
  /\ selectTable[i].ioa = a
  /\ selectTable[i].connection = c

\* The first entry of a connection for an object: where every search stops.
IsFirstOf(i, c, a) == Selects(i, c, a) /\ \A j \in 1..(i - 1) : ~Selects(j, c, a)

NoEntry(c, a) == \A i \in Index : ~Selects(i, c, a)

\* Fault: an entry that holds the object already is not used again.
TakesFree(i, a) ==
  /\ selectTable[i] = Free
  /\ \A j \in 1..(i - 1) : selectTable[j] # Free

\* The entry storeSelectState uses: the first that is free or holds the object,
\* whichever connection selected it.
Takes(i, a) ==
  LET usable(j) == selectTable[j] # Free => selectTable[j].ioa = a
  IN  usable(i) /\ \A j \in 1..(i - 1) : ~usable(j)

\* Fault: an entry of exactly the timeout's age still counts.
IsFreshLate(age) == age <= Timeout

IsFresh(age) == age < Timeout

\* The master leaves and the connection object serves another one: the table is
\* not told.
NewMaster(c) ==
  /\ executing[c] = NoIoa
  /\ own' = [own EXCEPT ![c] = {}]
  /\ UNCHANGED <<selectTable, executing, unused, sinceSelect, held>>

(***************************************************************************)
(* Commands                                                                *)
(***************************************************************************)
\* A select command: storeSelectState, and a positive confirmation even when the
\* table is full and nothing was stored.
Select(c, a) ==
  /\ executing[c] = NoIoa
  /\ unused[c][a] < MaxSelects
  /\ unused' = [unused EXCEPT ![c][a] = @ + 1]
  /\ sinceSelect' = [sinceSelect EXCEPT ![c][a] = 0]
  /\ own' = [own EXCEPT ![c] = @ \cup {a}]
  /\ \/ \E i \in Index :
          /\ Takes(i, a)
          /\ selectTable' = [selectTable EXCEPT ![i] =
                               [ioa |-> a, connection |-> c, age |-> 0]]
          /\ held' = [d \in Connection |->
                        IF d = c THEN held[d] \cup {a} ELSE held[d] \ {a}]
     \/ /\ \A i \in Index : ~Takes(i, a)
        /\ held' = [held EXCEPT ![c] = @ \ {a}]
        /\ UNCHANGED selectTable
  /\ UNCHANGED executing

\* Fault: the table is not searched.
CheckNothing(c, a) ==
  /\ executing[c] = NoIoa
  /\ executing' = [executing EXCEPT ![c] = a]
  /\ UNCHANGED <<selectTable, history>>

\* An execute command, isPreviouslySelected: an entry that is too old is cleared,
\* and the command is refused.
CheckSelected(c, a) ==
  /\ executing[c] = NoIoa
  /\ \/ \E i \in Index :
          /\ IsFirstOf(i, c, a)
          /\ \/ /\ IsFresh(selectTable[i].age)
                /\ executing' = [executing EXCEPT ![c] = a]
                /\ UNCHANGED selectTable
             \/ /\ ~IsFresh(selectTable[i].age)
                /\ selectTable' = [selectTable EXCEPT ![i] = Free]
                /\ UNCHANGED executing
     \/ NoEntry(c, a) /\ UNCHANGED <<selectTable, executing>>
  /\ UNCHANGED history

\* Fault: the selection is left in the table.
ExecuteKeeping(c) ==
  /\ executing[c] # NoIoa
  /\ executing' = [executing EXCEPT ![c] = NoIoa]
  /\ unused' = [unused EXCEPT ![c][executing[c]] = @ - 1]
  /\ held' = [held EXCEPT ![c] = @ \ {executing[c]}]
  /\ UNCHANGED <<selectTable, sinceSelect, own>>

\* clearSelectState, then the command is carried out and confirmed.  Another
\* connection may have taken the entry over in between.
Execute(c) ==
  LET a == executing[c]
  IN  /\ a # NoIoa
      /\ \/ \E i \in Index :
              /\ IsFirstOf(i, c, a)
              /\ selectTable' = [selectTable EXCEPT ![i] = Free]
         \/ NoEntry(c, a) /\ UNCHANGED selectTable
      /\ executing' = [executing EXCEPT ![c] = NoIoa]
      /\ unused' = [unused EXCEPT ![c][a] = @ - 1]
      /\ held' = [held EXCEPT ![c] = @ \ {a}]
      /\ UNCHANGED <<sinceSelect, own>>

Older(age) == IF age < Timeout THEN age + 1 ELSE age

Tick ==
  /\ selectTable' = [i \in Index |->
       IF selectTable[i] = Free THEN Free
       ELSE [selectTable[i] EXCEPT !.age = Older(@)]]
  /\ sinceSelect' = [c \in Connection |-> [a \in Ioa |-> Older(sinceSelect[c][a])]]
  /\ UNCHANGED <<executing, unused, held, own>>

----------------------------------------------------------------------------
Next ==
  \/ Tick
  \/ \E c \in Connection :
       \/ NewMaster(c) \/ Execute(c)
       \/ \E a \in Ioa : Select(c, a) \/ CheckSelected(c, a)

Spec == Init /\ [][Next]_vars

----------------------------------------------------------------------------
TypeOK ==
  /\ selectTable \in [Index -> SelectEntry \cup {Free}]
  /\ executing \in [Connection -> Ioa \cup {NoIoa}]
  /\ unused \in [Connection -> [Ioa -> 0..MaxSelects]]
  /\ sinceSelect \in [Connection -> [Ioa -> Age]]
  /\ held \in [Connection -> SUBSET Ioa]
  /\ own \in [Connection -> SUBSET Ioa]

Entries(c, a) == {i \in Index : Selects(i, c, a)}

\* One selection allows one command at most: the entries of a connection for an
\* object never outnumber its confirmed selections that were not used, although
\* the test and the clearing of a selection are two critical sections, and the
\* entry that was tested may have been taken over when it is cleared.
OneOperatePerSelect ==
  \A c \in Connection : \A a \in Ioa :
    /\ Cardinality(Entries(c, a)) <= unused[c][a]
    /\ executing[c] = a => unused[c][a] > 0

\* A command is carried out only if its connection has selected the object within
\* the timeout, whichever of several entries the search finds.
OperateIsFresh ==
  [][\A c \in Connection :
       executing[c] = NoIoa /\ executing'[c] # NoIoa
         => sinceSelect[c][executing'[c]] < Timeout]_vars

\* A selection that was stored and that nobody contended for is honoured: within
\* the timeout the search finds it, not an older entry or one of somebody else.
SelectionHonoured ==
  \A c \in Connection : \A a \in held[c] :
    sinceSelect[c][a] < Timeout =>
      \E i \in Index : IsFirstOf(i, c, a) /\ selectTable[i].age = sinceSelect[c][a]

\* A master operates only what it has selected itself (README.md, "SBO
\* (Select-Before-Operate) modes").
OperatorHasSelected ==
  \A c \in Connection : executing[c] # NoIoa => executing[c] \in own[c]

=============================================================================
