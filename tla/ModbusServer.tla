----------------------------- MODULE ModbusServer -----------------------------
(***************************************************************************)
(* The stand-alone Modbus server (json-modbus-server.c): one thread that   *)
(* turns in main's loop over stdin, a TCP listener with its clients and a  *)
(* serial line, and the signal handler that may come between any two steps.*)
(*                                                                         *)
(* Sockets are their descriptors: the kernel hands out the lowest free     *)
(* one, and libmodbus (external) opens and closes them.  What registers    *)
(* hold is left out, and so is an allocation that fails.                   *)
(***************************************************************************)
EXTENDS Integers, FiniteSets, FiniteSetsExt

CONSTANTS
  MaxTcpClients,    \* MAX_TCP_CLIENTS
  MaxFaults,        \* calls of libmodbus that fail
  MaxUpdates,       \* updates on stdin
  MaxOpened         \* connections ever accepted

ASSUME ModbusAssumption ==
  /\ MaxTcpClients \in Nat \ {0} /\ {MaxFaults, MaxUpdates, MaxOpened} \subseteq Nat

VARIABLES
  at,               \* where the loop is
  enabled,          \* enable_tcp, enable_rtu: a subset of {"tcp", "rtu"}
  modbusRunning,    \* running
  server_state,     \* "running" or "stopped"
  mb_mapping,       \* allocated
  tcp_listen_sock, tcp_conn_socks, tcp_conn_count, ctx_rtu,  \* descriptors, -1 for none
  opened,           \* descriptors open in the process
  orphans,          \* open listeners whose descriptor was overwritten
  ready,            \* what select reported in this round
  fresh,            \* opened since that select
  crashed,          \* the process is gone
  misread,          \* history: a receive from a socket select knew nothing of, or stdin
  left              \* what is left of the bounds: [faults, updates, opens]
modbusVars == <<at, enabled, modbusRunning, server_state, mb_mapping, tcp_listen_sock,
                tcp_conn_socks, tcp_conn_count, ctx_rtu, opened, orphans, ready, fresh, crashed,
                misread, left>>
states == <<modbusRunning, server_state, mb_mapping>>
sockets == <<tcp_listen_sock, tcp_conn_socks, tcp_conn_count, ctx_rtu, opened, orphans>>
ghosts == <<crashed, misread>>

TcpSlots == 1 .. MaxTcpClients
Stdin == 0
LowestFree == Min((3 .. 3 + Cardinality(opened)) \ opened)
\* Slots the loop takes for used, and those a client is in.  They are zero, the descriptor of
\* stdin, until main listens for the first time: for good in RTU mode.
TakenSlots == {s \in TcpSlots : tcp_conn_socks[s] # -1}
Clients == {s \in TcpSlots : tcp_conn_socks[s] \notin {-1, Stdin}}
TcpSockets ==
  IF "tcp" \in enabled
    THEN ({tcp_listen_sock} \cup {tcp_conn_socks[s] : s \in TakenSlots}) \ {-1}
    ELSE {}

ModbusInit ==
  /\ at = "select" /\ enabled \in (SUBSET {"tcp", "rtu"}) \ {{}}
  /\ modbusRunning = TRUE /\ server_state = "running" /\ mb_mapping = FALSE
  /\ tcp_listen_sock = -1 /\ tcp_conn_socks = [s \in TcpSlots |-> Stdin] /\ tcp_conn_count = 0
  /\ ctx_rtu = -1 /\ opened = {} /\ orphans = {} /\ ready = {} /\ fresh = {}
  /\ crashed = FALSE /\ misread = FALSE
  /\ left = [faults |-> MaxFaults, updates |-> MaxUpdates, opens |-> MaxOpened]

Alive(place) == at = place /\ ~crashed
Fault == left.faults > 0 /\ left' = [left EXCEPT !.faults = @ - 1]

\* select over stdin and, while running, all sockets; an interrupted one starts over.
Select ==
  /\ Alive("select")
  /\ IF modbusRunning
       THEN \E watched \in SUBSET ({Stdin} \cup
              (IF server_state = "running" THEN TcpSockets \cup ({ctx_rtu} \ {-1}) ELSE {})) :
              ready' = watched /\ fresh' = {} /\ at' = "stdin"
       ELSE ready' = {} /\ fresh' = {} /\ at' = "finish"
  /\ UNCHANGED <<enabled, states, sockets, ghosts, left>>

\* Mutant of Stop: running stays set.
StopServing == UNCHANGED modbusRunning /\ server_state' = "stopped"

\* What the stop command, the end of input and a signal do.
Stop == modbusRunning' = FALSE /\ server_state' = "stopped"

\* A line of JSON, or the end of input.  An update is checked against mb_mapping, which may
\* not be there yet; one of two words at the last register writes past the table.
ReadStdin ==
  /\ Alive("stdin") /\ at' = "start"
  /\ \/ /\ Stdin \notin ready /\ UNCHANGED <<modbusRunning, server_state, crashed, left>>
     \/ /\ Stdin \in ready
        /\ \/ Stop /\ UNCHANGED <<crashed, left>>
           \/ \* "start" after a signal of this round: the loop starts the server once more,
              \* and ends after the round, since running stays unset.
              /\ server_state = "stopped" /\ server_state' = "running"
              /\ UNCHANGED <<modbusRunning, crashed, left>>
           \/ \* "start" while running, "status", or a line that is refused
              UNCHANGED <<modbusRunning, server_state, crashed, left>>
           \/ /\ left.updates > 0 /\ left' = [left EXCEPT !.updates = @ - 1]
              /\ crashed' \in (IF mb_mapping THEN BOOLEAN ELSE {TRUE})
              /\ UNCHANGED <<modbusRunning, server_state>>
  /\ UNCHANGED <<enabled, mb_mapping, sockets, ready, fresh, misread>>

\* The start in the loop, one call after the other; a failure goes back to select.
NeedsStart == server_state = "running" /\ ~mb_mapping
SkipStart ==
  /\ Alive("start") /\ ~NeedsStart /\ at' = "cleanup"
  /\ UNCHANGED <<enabled, states, sockets, ready, fresh, ghosts, left>>
Listen ==
  /\ Alive("start") /\ NeedsStart
  /\ IF "tcp" \notin enabled
       THEN at' = "openRtu" /\ UNCHANGED <<sockets, fresh, left>>
       ELSE \* The port is taken while an older listener of the process is open.
            \/ /\ tcp_listen_sock = -1 /\ orphans = {}
               /\ tcp_listen_sock' = LowestFree /\ opened' = opened \cup {LowestFree}
               /\ fresh' = fresh \cup {LowestFree} /\ tcp_conn_count' = 0
               /\ tcp_conn_socks' = [s \in TcpSlots |-> -1]
               /\ at' = "openRtu" /\ UNCHANGED <<ctx_rtu, orphans, left>>
            \/ /\ IF tcp_listen_sock = -1 /\ orphans = {} THEN Fault ELSE left' = left
               /\ orphans' = orphans \cup ({tcp_listen_sock} \ {-1}) /\ tcp_listen_sock' = -1
               /\ at' = "select"
               /\ UNCHANGED <<tcp_conn_socks, tcp_conn_count, ctx_rtu, opened, fresh>>
  /\ UNCHANGED <<enabled, states, ready, ghosts>>

RtuOpens ==
  /\ ctx_rtu' = LowestFree /\ opened' = opened \cup {LowestFree}
  /\ fresh' = fresh \cup {LowestFree} /\ left' = left
RtuFails == Fault /\ UNCHANGED <<ctx_rtu, opened, fresh>>
OpenRtu ==
  /\ Alive("openRtu")
  /\ IF "rtu" \notin enabled THEN at' = "map" /\ UNCHANGED <<ctx_rtu, opened, fresh, left>>
     ELSE \/ RtuOpens /\ at' = "map"
          \/ RtuFails /\ at' = "select"
  /\ UNCHANGED <<enabled, states, tcp_listen_sock, tcp_conn_socks, tcp_conn_count, orphans, ready,
                 ghosts>>
MapRegisters ==
  /\ Alive("map") /\ mb_mapping' = TRUE /\ at' = "cleanup"
  /\ UNCHANGED <<enabled, modbusRunning, server_state, sockets, ready, fresh, ghosts, left>>

\* Everything is closed and freed when the mapping exists, in the loop or after it.
CloseAll ==
  IF mb_mapping
  THEN /\ opened' = opened \ (TcpSockets \cup {ctx_rtu})
       /\ IF "tcp" \in enabled
            THEN /\ tcp_conn_socks' = [s \in TcpSlots |-> -1] /\ tcp_conn_count' = 0
                 /\ tcp_listen_sock' = -1
            ELSE UNCHANGED <<tcp_conn_socks, tcp_conn_count, tcp_listen_sock>>
       /\ ctx_rtu' = -1 /\ mb_mapping' = FALSE /\ UNCHANGED orphans
  ELSE UNCHANGED <<mb_mapping, sockets>>
CleanupWhenStopped ==
  /\ Alive("cleanup")
  /\ IF server_state = "stopped" THEN CloseAll ELSE UNCHANGED <<mb_mapping, sockets>>
  /\ at' = IF server_state = "running" /\ ready # {} THEN "accept" ELSE "select"
  /\ UNCHANGED <<enabled, modbusRunning, server_state, ready, fresh, ghosts, left>>
FinalCleanup ==
  /\ Alive("finish") /\ CloseAll /\ at' = "exited"
  /\ UNCHANGED <<enabled, modbusRunning, server_state, ready, fresh, ghosts, left>>

\* Mutant of Accept: with all slots taken the new client replaces the first.
AcceptReplacing ==
  /\ Alive("accept") /\ at' = "clients"
  /\ IF tcp_listen_sock \in ready /\ left.opens > 0
       THEN LET slot == IF TakenSlots = TcpSlots THEN 1 ELSE Min(TcpSlots \ TakenSlots)
                closed == opened \ {tcp_conn_socks[slot]}
                socket == Min((3 .. 3 + Cardinality(closed)) \ closed)
            IN /\ tcp_conn_socks' = [tcp_conn_socks EXCEPT ![slot] = socket]
               /\ tcp_conn_count' = IF slot \in TakenSlots THEN tcp_conn_count
                                    ELSE tcp_conn_count + 1
               /\ opened' = closed \cup {socket} /\ fresh' = fresh \cup {socket}
               /\ left' = [left EXCEPT !.opens = @ - 1]
       ELSE UNCHANGED <<tcp_conn_socks, tcp_conn_count, opened, fresh, left>>
  /\ UNCHANGED <<enabled, states, tcp_listen_sock, ctx_rtu, orphans, ready, ghosts>>

\* A client beyond the tenth is accepted and closed again.
Accept ==
  /\ Alive("accept") /\ at' = "clients"
  /\ IF tcp_listen_sock \in ready /\ left.opens > 0 /\ TakenSlots # TcpSlots
       THEN LET slot == Min(TcpSlots \ TakenSlots) IN
            \/ /\ tcp_conn_socks' = [tcp_conn_socks EXCEPT ![slot] = LowestFree]
               /\ tcp_conn_count' = tcp_conn_count + 1 /\ opened' = opened \cup {LowestFree}
               /\ fresh' = fresh \cup {LowestFree} /\ left' = [left EXCEPT !.opens = @ - 1]
            \/ Fault /\ UNCHANGED <<tcp_conn_socks, tcp_conn_count, opened, fresh>>
       ELSE UNCHANGED <<tcp_conn_socks, tcp_conn_count, opened, fresh, left>>
  /\ UNCHANGED <<enabled, states, tcp_listen_sock, ctx_rtu, orphans, ready, ghosts>>

\* modbus_receive on every client select reported: a reply, or the end of the connection.
HandleClients ==
  /\ Alive("clients") /\ at' = "rtu"
  /\ LET heard == IF "tcp" \in enabled THEN {s \in TakenSlots : tcp_conn_socks[s] \in ready}
                  ELSE {} IN
     \E over \in SUBSET heard :
       /\ opened' = opened \ {tcp_conn_socks[s] : s \in over}
       /\ tcp_conn_socks' = [s \in TcpSlots |-> IF s \in over THEN -1 ELSE tcp_conn_socks[s]]
       /\ tcp_conn_count' = tcp_conn_count - Cardinality(over)
       /\ misread' = (misread \/ \E s \in heard : tcp_conn_socks[s] \in fresh \cup {Stdin})
  /\ UNCHANGED <<enabled, states, tcp_listen_sock, ctx_rtu, orphans, ready, fresh, crashed, left>>
HandleRtu ==
  /\ Alive("rtu") /\ at' = "reconnect"
  /\ misread' = (misread \/ (ctx_rtu \in ready /\ ctx_rtu \in fresh))
  /\ \/ UNCHANGED <<ctx_rtu, opened, left>>
     \/ ctx_rtu \in ready /\ Fault /\ opened' = opened \ {ctx_rtu} /\ ctx_rtu' = -1
  /\ UNCHANGED <<enabled, states, tcp_listen_sock, tcp_conn_socks, tcp_conn_count, orphans, ready,
                 fresh, crashed>>
Reconnect ==
  /\ Alive("reconnect") /\ at' = "select"
  /\ IF "rtu" \in enabled /\ ctx_rtu = -1 /\ server_state = "running"
       THEN RtuOpens \/ RtuFails
       ELSE UNCHANGED <<ctx_rtu, opened, fresh, left>>
  /\ UNCHANGED <<enabled, states, tcp_listen_sock, tcp_conn_socks, tcp_conn_count, orphans, ready,
                 ghosts>>

\* signal_handler
Signal ==
  /\ modbusRunning \/ server_state = "running"
  /\ at # "exited" /\ ~crashed /\ Stop
  /\ UNCHANGED <<at, enabled, mb_mapping, sockets, ready, fresh, ghosts, left>>

ServerStep ==
  \/ Select \/ ReadStdin \/ SkipStart \/ Listen \/ OpenRtu \/ MapRegisters \/ CleanupWhenStopped
  \/ Accept \/ HandleClients \/ HandleRtu \/ Reconnect \/ FinalCleanup
ModbusNext == ServerStep \/ Signal
ModbusFairness == WF_modbusVars(ServerStep)
ModbusSpec == ModbusInit /\ [][ModbusNext]_modbusVars /\ ModbusFairness

-----------------------------------------------------------------------------
\* A receive would block the whole server on a socket without input: none is ever made on a
\* socket opened after the select of the round, although the kernel reuses descriptors and
\* the loop keeps the old set; and none on stdin, the descriptor of the slots never set.
ReadsWhatSelectSaw == ~misread

\* Every open descriptor is in exactly one place, a slot, a variable or an orphan; there are
\* as many clients as tcp_conn_count says; and once there is a mapping, from when on slots are
\* looked at and closed, none of a TCP server is still zero.
SlotsMatchSockets ==
  LET inSlots == {tcp_conn_socks[s] : s \in Clients}
      single == {tcp_listen_sock, ctx_rtu} \ {-1}
  IN /\ opened = inSlots \cup single \cup orphans
     /\ inSlots \cap (single \cup orphans) = {} /\ single \cap orphans = {}
     /\ tcp_conn_count = Cardinality(Clients) /\ Cardinality(inSlots) = Cardinality(Clients)
     /\ "tcp" \in enabled /\ mb_mapping => TakenSlots = Clients

\* The descriptors of the loop are those that are open, and were looked at.
DescriptorsKept == ReadsWhatSelectSaw /\ SlotsMatchSockets

\* Once the faults are over the server comes up, unless a serial line that failed after the
\* listener was opened left that listener behind to hold the port; and a stop, from stdin or
\* by a signal at any point of the round, ends it.
ComesUpAndStops ==
  /\ []<>(mb_mapping \/ ~modbusRunning \/ crashed \/ orphans # {})
  /\ []<>(modbusRunning \/ at = "exited" \/ crashed)
=============================================================================
