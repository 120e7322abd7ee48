--------------------------- MODULE MonolithCommands ---------------------------
(***************************************************************************)
(* The command handler of the monolithic server (json-iec104-server.c):    *)
(* selectTable and asduHandler, run by one thread per connection.          *)
(*                                                                         *)
(* A connection is the object lib60870 hands out: it outlives its client.  *)
(* The table is locked for one look or one change, never for both.         *)
(***************************************************************************)
EXTENDS Integers, Sequences

CONSTANTS
  Masters,          \* connection objects
  Commanded,        \* configured addresses of the commands
  SelectEntries,    \* MAX_SELECT_ENTRIES
  SelectTimeout,    \* SELECT_TIMEOUT_MS, in ticks
  MaxTicks,         \* the clock stops here
  MaxCommands104    \* commands received

ASSUME CommandsAssumption ==
  /\ SelectEntries \in Nat \ {0}
  /\ {SelectTimeout, MaxTicks, MaxCommands104} \subseteq Nat

NotSelected == [ioa |-> 0, connection |-> "none", timestamp |-> 0, isSelected |-> FALSE]

VARIABLES
  selectTable,
  command_mode,     \* "direct" or "sbo"
  handling,         \* per connection: the command under way, or a record with step "idle"
  replies,          \* per connection: the replies to its last command, <<COT, negative>>
  ticks,            \* Hal_getTimeInMs
  arrived,          \* commands received
  selections        \* history: confirmed selections less executions, per connection, ioa and time
commandVars == <<selectTable, command_mode, handling, replies, ticks, arrived, selections>>

Resting == [step |-> "idle", type |-> "none", ioa |-> 0, seen |-> 0]

CommandsInit ==
  /\ selectTable = [i \in 1 .. SelectEntries |-> NotSelected]
  /\ command_mode \in {"direct", "sbo"}
  /\ handling = [c \in Masters |-> Resting] /\ replies = [c \in Masters |-> <<>>]
  /\ ticks = 0 /\ arrived = 0
  /\ selections = [k \in Masters \X Commanded \X (0 .. MaxTicks) |-> 0]

FirstIndex(P(_)) ==
  LET hits == {i \in 1 .. SelectEntries : P(i)} IN
  IF hits = {} THEN 0 ELSE CHOOSE i \in hits : \A j \in hits : i <= j

\* storeSelectState: the first slot that is free or holds the address, whosever it is.
SlotFor(ioa) ==
  LET Fits(i) == ~selectTable[i].isSelected \/ selectTable[i].ioa = ioa IN FirstIndex(Fits)
Stored(ioa, c) ==
  IF SlotFor(ioa) = 0 THEN selectTable
  ELSE [selectTable EXCEPT ![SlotFor(ioa)] =
          [ioa |-> ioa, connection |-> c, timestamp |-> ticks, isSelected |-> TRUE]]

SelectedBy(ioa, c) ==
  LET Fits(i) == /\ selectTable[i].isSelected
                 /\ selectTable[i].ioa = ioa /\ selectTable[i].connection = c
  IN FirstIndex(Fits)
Released(i) == IF i = 0 THEN selectTable ELSE [selectTable EXCEPT ![i].isSelected = FALSE]

\* isPreviouslySelected: the first entry decides; one that is too old is cleared.
InTime(ioa, c) ==
  /\ SelectedBy(ioa, c) # 0
  /\ ticks - selectTable[SelectedBy(ioa, c)].timestamp < SelectTimeout
IsPreviouslySelected(ioa, c) == IF InTime(ioa, c) THEN selectTable ELSE Released(SelectedBy(ioa, c))
\* clearSelectState
ClearSelectState(ioa, c) == Released(SelectedBy(ioa, c))

Positive == <<<<"ACT_CON", FALSE>>>>
Executed == <<<<"ACT_CON", FALSE>>, <<"ACT_TERM", FALSE>>>>

\* A command, configured or not, arrives on a connection whose thread is idle.
Receive104(c) ==
  /\ handling[c].step = "idle" /\ arrived < MaxCommands104 /\ arrived' = arrived + 1
Select104(c, ioa) ==
  /\ Receive104(c)
  /\ selectTable' = Stored(ioa, c)
  /\ selections' = [selections EXCEPT ![<<c, ioa, ticks>>] = @ + 1]
  /\ replies' = [replies EXCEPT ![c] = Positive]
  /\ UNCHANGED <<command_mode, handling, ticks>>
Unanswerable(c) ==
  /\ Receive104(c)
  /\ \E cot \in {"UNKNOWN_IOA", "UNKNOWN_TYPE_ID", "UNKNOWN_COT"} :
       replies' = [replies EXCEPT ![c] = <<<<cot, cot = "UNKNOWN_IOA">>>>]
  /\ UNCHANGED <<selectTable, command_mode, handling, ticks, selections>>

\* Direct mode executes at once and looks at no selection.
ExecuteDirect(c) ==
  /\ Receive104(c) /\ command_mode = "direct"
  /\ replies' = [replies EXCEPT ![c] = Executed]
  /\ UNCHANGED <<selectTable, command_mode, handling, ticks, selections>>

\* SBO mode, an execute: a single command is refused with a negative confirmation, the others
\* with a negative termination.
CheckSelected(c, type, ioa) ==
  /\ Receive104(c) /\ command_mode = "sbo"
  /\ selectTable' = IsPreviouslySelected(ioa, c)
  /\ IF InTime(ioa, c)
       THEN /\ handling' = [handling EXCEPT ![c] =
                 [step |-> IF type = "C_SC_NA_1" THEN "clear" ELSE "execute", type |-> type,
                  ioa |-> ioa, seen |-> selectTable[SelectedBy(ioa, c)].timestamp]]
            /\ replies' = [replies EXCEPT ![c] = <<>>]
       ELSE /\ handling' = handling
            /\ replies' = [replies EXCEPT ![c] =
                 IF type = "C_SC_NA_1" THEN <<<<"ACT_CON", TRUE>>>> ELSE <<<<"ACT_TERM", TRUE>>>>]
  /\ UNCHANGED <<command_mode, ticks, selections>>

\* The single command clears first and executes then, the others the other way round.
After104(c, next) == handling' = [handling EXCEPT ![c] = IF next = "idle" THEN Resting
                                                         ELSE [@ EXCEPT !.step = next]]
\* Mutant of ClearSelection: the entry stays selected.
ClearSelectionNot(c) ==
  /\ handling[c].step = "clear"
  /\ After104(c, IF handling[c].type = "C_SC_NA_1" THEN "execute" ELSE "idle")
  /\ UNCHANGED <<selectTable, command_mode, replies, ticks, arrived, selections>>

ClearSelection(c) ==
  /\ handling[c].step = "clear"
  /\ selectTable' = ClearSelectState(handling[c].ioa, c)
  /\ After104(c, IF handling[c].type = "C_SC_NA_1" THEN "execute" ELSE "idle")
  /\ UNCHANGED <<command_mode, replies, ticks, arrived, selections>>
ExecuteSelected(c) ==
  /\ handling[c].step = "execute"
  /\ replies' = [replies EXCEPT ![c] = Executed]
  /\ selections' = [selections EXCEPT ![<<c, handling[c].ioa, handling[c].seen>>] = @ - 1]
  /\ After104(c, IF handling[c].type = "C_SC_NA_1" THEN "idle" ELSE "clear")
  /\ UNCHANGED <<selectTable, command_mode, ticks, arrived>>

Tick104 == ticks < MaxTicks /\ ticks' = ticks + 1
           /\ UNCHANGED <<selectTable, command_mode, handling, replies, arrived, selections>>

CommandsNext ==
  \/ \E c \in Masters :
       \/ \E ioa \in Commanded :
            \/ Select104(c, ioa)
            \/ \E type \in {"C_SC_NA_1", "C_DC_NA_1"} : CheckSelected(c, type, ioa)
       \/ Unanswerable(c) \/ ExecuteDirect(c) \/ ClearSelection(c) \/ ExecuteSelected(c)
  \/ Tick104
CommandsSpec == CommandsInit /\ [][CommandsNext]_commandVars

-----------------------------------------------------------------------------
\* Every command executed in SBO mode uses up a selection of the same address by the same
\* connection: whatever duplicates, overwritten entries and clears of the wrong entry the
\* table sees between the check and the clear, n selections never give n + 1 executions.
ExecutionUsesSelection == \A k \in DOMAIN selections : selections[k] >= 0
=============================================================================
