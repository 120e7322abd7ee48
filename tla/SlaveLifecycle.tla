--------------------------- MODULE SlaveLifecycle ---------------------------
(***************************************************************************)
(* The threads of the server and the locks they share, from start to exit: *)
(* main (main.c), the server thread and the connection threads of          *)
(* cs104_slave.c, the periodic sender (periodic_sender.c), and the list of *)
(* clients kept by the connection events (client_manager.c).               *)
(*                                                                         *)
(* A step ends where a thread may have to wait: at a semaphore, at a join  *)
(* or at a poll.  The semaphore stateLock of a connection is released in   *)
(* the step that takes it, except on a wrong send sequence number, where   *)
(* handleMessage returns without releasing it.                             *)
(***************************************************************************)
EXTENDS Integers, FiniteSets, FiniteSetsExt

CONSTANTS
  MaxConnections,  \* CONFIG_CS104_MAX_CLIENT_CONNECTIONS, the connection objects
  MaxClients,      \* MAX_CLIENTS, the places of the client list
  MaxSessions      \* bound: connections accepted in a behaviour

ASSUME LifeAssumption ==
  /\ MaxConnections \in Nat \ {0}
  /\ MaxClients \in Nat \ {0}
  /\ MaxSessions \in Nat

Object == 1 .. MaxConnections
Slot   == 1 .. MaxClients
Nobody == 0                     \* the owner of a free lock, an empty slot

(* The threads as owners of locks: an object stands for its thread. *)
MainThread   == MaxConnections + 1
ServerThread == MaxConnections + 2

VARIABLES
  main, server, periodic,  \* where the three single threads are: main from "starting" over
                           \* "loop" and CS104_Slave_stop ("stop" to "closeAgain") to "ended",
                           \* server from "bind" to "done", periodic "off", "round", "query",
                           \* "ended"
  thread,                  \* where each connection thread is, "none" before it is started
  openConnectionsLock,     \* its owner
  stateLock,               \* the owner of the lock of each object
  slaveRunning,            \* isRunning of the slave
  stopRunning,
  openConnections,
  isUsed, conRunning,      \* isUsed and isRunning of each object
  connectionThread,        \* objects whose handle is not NULL
  candidate,               \* the object main or the server thread is at
  periodicRunning,         \* running of periodic_sender.c
  clients, client_count,   \* the list of client_manager.c
  sessions                 \* connections accepted so far

lifeVars == <<main, server, periodic, thread, openConnectionsLock, stateLock,
  slaveRunning, stopRunning, openConnections, isUsed, conRunning,
  connectionThread, candidate, periodicRunning, clients, client_count, sessions>>

locks   == <<openConnectionsLock, stateLock>>
flags   == <<slaveRunning, stopRunning>>
objects == <<openConnections, isUsed, conRunning, connectionThread, candidate>>
list    == <<clients, client_count>>

\* main has created everything and CS104_Slave_start has created the server thread.
LifeInit ==
  /\ main = "starting" /\ server = "bind" /\ periodic = "off"
  /\ thread = [c \in Object |-> "none"]
  /\ openConnectionsLock = Nobody /\ stateLock = [c \in Object |-> Nobody]
  /\ slaveRunning = FALSE /\ stopRunning = FALSE
  /\ openConnections = 0
  /\ isUsed = [c \in Object |-> FALSE] /\ conRunning = [c \in Object |-> FALSE]
  /\ connectionThread = {} /\ candidate = 0
  /\ periodicRunning = FALSE
  /\ clients = [s \in Slot |-> Nobody] /\ client_count = 0
  /\ sessions = 0

Free(lock)    == lock = Nobody
StateFree(S)  == \A c \in S : Free(stateLock[c])
UpTo(c)       == {d \in Object : d <= c}
FirstUsed     == {c \in Object : isUsed[c] /\ \A d \in Object : d < c => ~isUsed[d]}
FirstUnused   == {c \in Object : ~isUsed[c] /\ \A d \in Object : d < c => isUsed[d]}

(***************************************************************************)
(* The server thread                                                       *)
(***************************************************************************)
\* TcpServerSocket_create succeeds, or fails and the thread ends; isStarting, which
\* main waits for, is TRUE exactly while the thread is at "bind".
Bind ==
  /\ server = "bind"
  /\ \/ server' = "accept" /\ slaveRunning' = TRUE
     \/ server' = "done" /\ UNCHANGED slaveRunning
  /\ UNCHANGED <<main, periodic, thread, locks, stopRunning, objects,
                 periodicRunning, list, sessions>>

\* The head of the loop: leave when stopRunning is set, else a new socket or none.
Poll ==
  /\ server = "accept"
  /\ \/ /\ stopRunning
        /\ server' = "done" /\ slaveRunning' = FALSE /\ stopRunning' = FALSE
        /\ UNCHANGED sessions
     \/ /\ ~stopRunning
        /\ sessions < MaxSessions
        /\ server' = "limit" /\ sessions' = sessions + 1
        /\ UNCHANGED flags
     \/ /\ ~stopRunning
        /\ server' = "reap"
        /\ UNCHANGED <<flags, sessions>>
  /\ UNCHANGED <<main, periodic, thread, locks, objects, periodicRunning, list>>

\* CS104_Slave_getOpenConnections against maxOpenConnections; then the lock of
\* getFreeConnection.
CheckLimit ==
  /\ server = "limit"
  /\ Free(openConnectionsLock)
  /\ IF openConnections >= MaxConnections
       THEN server' = "reap" /\ UNCHANGED openConnectionsLock
       ELSE server' = "free" /\ openConnectionsLock' = ServerThread
  /\ UNCHANGED <<main, periodic, thread, stateLock, flags, objects, periodicRunning,
                 list, sessions>>

\* The search of getFreeConnection takes the lock of one object after the other;
\* isUsed changes in this thread only, so that the search is one step.  It finds one: the
\* limit is the number of objects, and CountSeen relates the two.
GetFreeConnection ==
  /\ server = "free"
  /\ \E c \in FirstUnused :
       /\ StateFree(UpTo(c))
       /\ isUsed' = [isUsed EXCEPT ![c] = TRUE]
       /\ openConnections' = openConnections + 1
       /\ candidate' = c
       /\ server' = "take"
  /\ openConnectionsLock' = Nobody
  /\ UNCHANGED <<main, periodic, thread, stateLock, flags, conRunning, connectionThread,
                 periodicRunning, list, sessions>>

\* MasterConnection_init, whose resetT3Timeout takes the lock, and MasterConnection_start.
StartConnection ==
  /\ server = "take"
  /\ Free(stateLock[candidate])
  /\ conRunning' = [conRunning EXCEPT ![candidate] = TRUE]
  /\ connectionThread' = connectionThread \cup {candidate}
  /\ thread' = [thread EXCEPT ![candidate] = "opened"]
  /\ server' = "reap"
  /\ UNCHANGED <<main, periodic, locks, flags, openConnections, isUsed, candidate,
                 periodicRunning, list, sessions>>

LockForReap ==
  /\ server = "reap"
  /\ Free(openConnectionsLock)
  /\ openConnectionsLock' = ServerThread
  /\ server' = "scan"
  /\ UNCHANGED <<main, periodic, thread, stateLock, flags, objects, periodicRunning,
                 list, sessions>>

\* Mutant of Scan: the first object in use is reaped although its thread runs.
ScanRunning ==
  /\ server = "scan"
  /\ \/ /\ FirstUsed = {} /\ StateFree(Object)
        /\ server' = "accept" /\ openConnectionsLock' = Nobody /\ UNCHANGED candidate
     \/ /\ \E c \in FirstUsed : StateFree(UpTo(c)) /\ candidate' = c
        /\ server' = "join" /\ UNCHANGED openConnectionsLock
  /\ UNCHANGED <<main, periodic, thread, stateLock, flags, openConnections, isUsed,
                 conRunning, connectionThread, periodicRunning, list, sessions>>

\* The scan stops at the first object in use, whether its thread runs or not.
Scan ==
  /\ server = "scan"
  /\ \/ /\ \E c \in FirstUsed : StateFree(UpTo(c)) /\ conRunning[c]
        /\ server' = "accept" /\ openConnectionsLock' = Nobody /\ UNCHANGED candidate
     \/ /\ FirstUsed = {} /\ StateFree(Object)
        /\ server' = "accept" /\ openConnectionsLock' = Nobody /\ UNCHANGED candidate
     \/ /\ \E c \in FirstUsed : StateFree(UpTo(c)) /\ ~conRunning[c] /\ candidate' = c
        /\ server' = "join" /\ UNCHANGED openConnectionsLock
  /\ UNCHANGED <<main, periodic, thread, stateLock, flags, openConnections, isUsed,
                 conRunning, connectionThread, periodicRunning, list, sessions>>

Joined(c) == thread[c] \in {"none", "ended"}

\* Mutant of Reap: the connection is not taken from the count.
ReapUncounted ==
  /\ server = "join"
  /\ Joined(candidate)
  /\ thread' = [thread EXCEPT ![candidate] = "none"]
  /\ connectionThread' = connectionThread \ {candidate}
  /\ isUsed' = [isUsed EXCEPT ![candidate] = FALSE]
  /\ openConnectionsLock' = Nobody
  /\ server' = "accept"
  /\ UNCHANGED <<main, periodic, stateLock, flags, openConnections, conRunning, candidate,
                 periodicRunning, list, sessions>>

\* Thread_destroy under openConnectionsLock, then the object is given back.
Reap ==
  /\ server = "join"
  /\ Joined(candidate)
  /\ thread' = [thread EXCEPT ![candidate] = "none"]
  /\ connectionThread' = connectionThread \ {candidate}
  /\ openConnections' = openConnections - 1
  /\ isUsed' = [isUsed EXCEPT ![candidate] = FALSE]
  /\ openConnectionsLock' = Nobody
  /\ server' = "accept"
  /\ UNCHANGED <<main, periodic, stateLock, flags, conRunning, candidate,
                 periodicRunning, list, sessions>>

Server == Bind \/ Poll \/ CheckLimit \/ GetFreeConnection \/ StartConnection
          \/ LockForReap \/ Scan \/ Reap

(***************************************************************************)
(* A connection thread                                                     *)
(***************************************************************************)
Goes(c, from, to) == thread[c] = from /\ thread' = [thread EXCEPT ![c] = to]

\* client_connection_event_handler on CONNECTION_OPENED: add_client.
Opened(c) ==
  /\ Goes(c, "opened", "loop")
  /\ IF (\E s \in Slot : clients[s] = c) \/ (\A s \in Slot : clients[s] # Nobody)
       THEN UNCHANGED list
       ELSE /\ clients' = [clients EXCEPT ![Min({s \in Slot : clients[s] = Nobody})] = c]
            /\ client_count' = client_count + 1
  /\ UNCHANGED <<main, server, periodic, locks, flags, objects, periodicRunning, sessions>>

\* The head of the loop: MasterConnection_isRunning.
Loop(c) ==
  /\ Free(stateLock[c])
  /\ Goes(c, "loop", IF conRunning[c] THEN "recv" ELSE "closing")
  /\ UNCHANGED <<main, server, periodic, locks, flags, objects, periodicRunning, list,
                 sessions>>

\* What a round may bring: nothing that matters here; STARTDT; a refused frame, a
\* failed write or a timeout, after which isRunning is cleared; a broken socket.
Round(c) ==
  /\ thread[c] = "recv"
  /\ \E to \in {"loop", "startdt", "failing", "closing"} : Goes(c, "recv", to)
  /\ UNCHANGED <<main, server, periodic, locks, flags, objects, periodicRunning, list,
                 sessions>>

\* A wrong N(S): handleMessage takes stateLock and returns without releasing it.
SequenceError(c) ==
  /\ Free(stateLock[c])
  /\ Goes(c, "recv", "failing")
  /\ stateLock' = [stateLock EXCEPT ![c] = c]
  /\ UNCHANGED <<main, server, periodic, openConnectionsLock, flags, objects,
                 periodicRunning, list, sessions>>

\* CS104_Slave_activate: all others are deactivated, each under its stateLock, while
\* openConnectionsLock is held; then the own activation.
LockForActivate(c) ==
  /\ Goes(c, "startdt", "deactivate")
  /\ Free(openConnectionsLock)
  /\ openConnectionsLock' = c
  /\ UNCHANGED <<main, server, periodic, stateLock, flags, objects, periodicRunning,
                 list, sessions>>

DeactivateOthers(c) ==
  /\ Goes(c, "deactivate", "activate")
  /\ StateFree(Object \ {c})
  /\ openConnectionsLock' = Nobody
  /\ UNCHANGED <<main, server, periodic, stateLock, flags, objects, periodicRunning,
                 list, sessions>>

ActivateSelf(c) ==
  /\ Goes(c, "activate", "loop")
  /\ Free(stateLock[c])
  /\ UNCHANGED <<main, server, periodic, locks, flags, objects, periodicRunning, list,
                 sessions>>

Failing(c) ==
  /\ Goes(c, "failing", "loop")
  /\ Free(stateLock[c])
  /\ conRunning' = [conRunning EXCEPT ![c] = FALSE]
  /\ UNCHANGED <<main, server, periodic, locks, flags, openConnections, isUsed,
                 connectionThread, candidate, periodicRunning, list, sessions>>

\* Mutant of Closing: remove_client counts but leaves the client in its place.
ClosingListed(c) ==
  /\ Goes(c, "closing", "ending")
  /\ client_count' = client_count - (IF \E s \in Slot : clients[s] = c THEN 1 ELSE 0)
  /\ UNCHANGED <<clients, main, server, periodic, locks, flags, objects, periodicRunning,
                 sessions>>

\* CONNECTION_CLOSED: remove_client.
Closing(c) ==
  /\ Goes(c, "closing", "ending")
  /\ IF \E s \in Slot : clients[s] = c
       THEN /\ clients' = [clients EXCEPT ![Min({s \in Slot : clients[s] = c})] = Nobody]
            /\ client_count' = client_count - 1
       ELSE UNCHANGED list
  /\ UNCHANGED <<main, server, periodic, locks, flags, objects, periodicRunning, sessions>>

Ending(c) ==
  /\ Goes(c, "ending", "ended")
  /\ Free(stateLock[c])
  /\ conRunning' = [conRunning EXCEPT ![c] = FALSE]
  /\ UNCHANGED <<main, server, periodic, locks, flags, openConnections, isUsed,
                 connectionThread, candidate, periodicRunning, list, sessions>>

Thread(c) == Opened(c) \/ Loop(c) \/ Round(c) \/ LockForActivate(c) \/ DeactivateOthers(c)
             \/ ActivateSelf(c) \/ Failing(c) \/ Closing(c) \/ Ending(c)

(***************************************************************************)
(* The periodic sender                                                     *)
(***************************************************************************)
\* The head of its loop, then is_client_connected under openConnectionsLock.
PeriodicRound ==
  /\ \/ periodic = "round" /\ periodic' = IF periodicRunning THEN "query" ELSE "ended"
     \/ periodic = "query" /\ Free(openConnectionsLock) /\ periodic' = "round"
  /\ UNCHANGED <<main, server, thread, locks, flags, objects, periodicRunning, list,
                 sessions>>

(***************************************************************************)
(* main                                                                    *)
(***************************************************************************)
\* After CS104_Slave_start: with a running slave the periodic sender is started, else
\* the program cleans up.
Started ==
  /\ main = "starting" /\ server # "bind"
  /\ IF slaveRunning
       THEN main' = "loop" /\ periodic' = "round" /\ periodicRunning' = TRUE
       ELSE main' = "cleanup" /\ UNCHANGED <<periodic, periodicRunning>>
  /\ UNCHANGED <<server, thread, locks, flags, objects, list, sessions>>

\* A line asks is_client_connected; a signal, or the shutdown line, ends the loop.
MainLoop ==
  /\ \/ main = "loop" /\ main' \in {"query", "cleanup"}
     \/ main = "query" /\ Free(openConnectionsLock) /\ main' = "loop"
  /\ UNCHANGED <<server, periodic, thread, locks, flags, objects, periodicRunning, list,
                 sessions>>

\* Mutant of StopPeriodic: the thread is told to end but not joined.
StopPeriodicUnjoined ==
  /\ main = "cleanup" /\ main' = "stop" /\ periodicRunning' = FALSE
  /\ UNCHANGED <<server, periodic, thread, locks, flags, objects, list, sessions>>

StopPeriodic ==
  /\ \/ /\ main = "cleanup"
        /\ main' = IF periodicRunning THEN "joinPeriodic" ELSE "stop"
        /\ periodicRunning' = FALSE
     \/ /\ main = "joinPeriodic" /\ periodic = "ended"
        /\ main' = "stop" /\ UNCHANGED periodicRunning
  /\ UNCHANGED <<server, periodic, thread, locks, flags, objects, list, sessions>>

\* CS104_Slave_stop up to the connections: ask the server thread, wait, join it.
StopServer ==
  /\ \/ main = "stop" /\ main' = "await" /\ stopRunning' = (slaveRunning \/ stopRunning)
     \/ main = "await" /\ ~slaveRunning /\ main' = "joinServer" /\ UNCHANGED stopRunning
     \/ main = "joinServer" /\ server = "done" /\ main' = "lockAll" /\ UNCHANGED stopRunning
  /\ UNCHANGED <<server, periodic, thread, locks, slaveRunning, objects, periodicRunning,
                 list, sessions>>

\* Its second half, once in CS104_Slave_stop and once more from CS104_Slave_destroy.
LockAll ==
  /\ main \in {"lockAll", "lockAgain"}
  /\ Free(openConnectionsLock)
  /\ openConnectionsLock' = MainThread
  /\ candidate' = 1
  /\ main' = IF main = "lockAll" THEN "close" ELSE "closeAgain"
  /\ UNCHANGED <<server, periodic, thread, stateLock, flags, openConnections, isUsed,
                 conRunning, connectionThread, periodicRunning, list, sessions>>

\* Mutant of CloseNext: a connection with a thread is joined without being closed.
CloseNextJoinOnly ==
  /\ main \in {"close", "closeAgain"}
  /\ candidate \in Object
  /\ Free(stateLock[candidate])
  /\ IF isUsed[candidate] /\ candidate \in connectionThread
       THEN main' = "join" /\ UNCHANGED <<openConnections, candidate>>
       ELSE /\ openConnections' = openConnections - (IF isUsed[candidate] THEN 1 ELSE 0)
            /\ candidate' = candidate + 1 /\ UNCHANGED main
  /\ UNCHANGED <<server, periodic, thread, locks, flags, isUsed, conRunning,
                 connectionThread, periodicRunning, list, sessions>>

\* One object: isUsed is read under its lock; a used one is closed.  The handle, the
\* join and the counter follow; isUsed stays set.
CloseNext ==
  /\ main \in {"close", "closeAgain"}
  /\ candidate \in Object
  /\ Free(stateLock[candidate])
  /\ IF isUsed[candidate]
       THEN /\ conRunning' = [conRunning EXCEPT ![candidate] = FALSE]
            /\ IF candidate \in connectionThread
                 THEN main' = "join" /\ UNCHANGED <<openConnections, candidate>>
                 ELSE /\ openConnections' = openConnections - 1
                      /\ candidate' = candidate + 1 /\ UNCHANGED main
       ELSE candidate' = candidate + 1 /\ UNCHANGED <<main, conRunning, openConnections>>
  /\ UNCHANGED <<server, periodic, thread, locks, flags, isUsed, connectionThread,
                 periodicRunning, list, sessions>>

JoinConnection ==
  /\ main = "join"
  /\ Joined(candidate)
  /\ connectionThread' = connectionThread \ {candidate}
  /\ openConnections' = openConnections - 1
  /\ candidate' = candidate + 1
  /\ main' = "close"
  /\ UNCHANGED <<server, periodic, thread, locks, flags, isUsed, conRunning,
                 periodicRunning, list, sessions>>

AllClosed ==
  /\ main \in {"close", "closeAgain"}
  /\ candidate \notin Object
  /\ openConnectionsLock' = Nobody
  /\ main' = IF main = "close" THEN "lockAgain" ELSE "freed"
  /\ UNCHANGED <<server, periodic, thread, stateLock, flags, objects, periodicRunning,
                 list, sessions>>

\* client_manager_cleanup, and main returns.
Exit ==
  /\ main = "freed"
  /\ main' = "ended"
  /\ clients' = [s \in Slot |-> Nobody] /\ client_count' = 0
  /\ UNCHANGED <<server, periodic, thread, locks, flags, objects, periodicRunning, sessions>>

Main == Started \/ MainLoop \/ StopPeriodic \/ StopServer \/ LockAll \/ CloseNext
        \/ JoinConnection \/ AllClosed \/ Exit

LifeNext ==
  \/ Server \/ PeriodicRound \/ Main
  \/ \E c \in Object : Thread(c) \/ SequenceError(c)

\* The scheduler runs every thread that can run; clients promise nothing.  What a thread
\* waits for may be taken again and again before it runs: that needs more than this.
LifeFairness ==
  /\ WF_lifeVars(Server) /\ WF_lifeVars(PeriodicRound) /\ WF_lifeVars(Main)
  /\ \A c \in Object : WF_lifeVars(Thread(c))

LifeSpec == LifeInit /\ [][LifeNext]_lifeVars /\ LifeFairness

-----------------------------------------------------------------------------
UsedObjects == {c \in Object : isUsed[c]}
Listed      == {clients[s] : s \in Slot} \ {Nobody}

\* Threads between their two connection events.
Connected == {c \in Object : thread[c] \notin {"none", "opened", "ending", "ended"}}

\* Whoever asks for the number of open connections (is_client_connected of main and of
\* the periodic sender, the limit of the server thread) gets the number of objects in
\* use: no reader sees the counter between isUsed and its change, nor what
\* CS104_Slave_stop and CS104_Slave_destroy leave in it.
CountSeen ==
  /\ Free(openConnectionsLock)
  /\ main = "query" \/ periodic = "query" \/ server = "limit"
  => openConnections = Cardinality(UsedObjects)

\* The list of clients holds every connection between its two events exactly once, and
\* nothing else; client_count is their number.
ListMatches ==
  MaxClients >= MaxConnections /\ main # "ended" =>
    /\ Listed = Connected
    /\ \A s, t \in Slot : clients[s] = clients[t] /\ s # t => clients[s] = Nobody
    /\ client_count = Cardinality(Listed)

\* Nothing is used after it was given back: an object that is not in use has no thread and
\* is in no list, so that the next connection cannot be given the object of a thread that
\* still runs; and the slave is freed only when no thread can use it any more.
NoUseAfterFree ==
  /\ \A c \in Object : ~isUsed[c] => thread[c] = "none" /\ c \notin Listed
  /\ main \in {"freed", "ended"} =>
       /\ server = "done" /\ periodic \in {"off", "ended"}
       /\ \A c \in Object : Joined(c)

\* The one lock that is never released, after a wrong sequence number, and the join, under
\* openConnectionsLock, of a thread that waits for it.
SequenceHang == \E c \in Object : stateLock[c] = c
StopHang     == main = "join" /\ thread[candidate] = "startdt"

\* Whom a thread waits for, Nobody when it can go on.
PeriodicThread == ServerThread + 1
WaitsFor ==
  [a \in 1 .. PeriodicThread |->
     IF a \in Object THEN IF thread[a] = "startdt" THEN openConnectionsLock ELSE Nobody
     ELSE IF a = MainThread THEN
       CASE main \in {"query", "lockAll", "lockAgain"} -> openConnectionsLock
         [] main = "joinPeriodic" /\ periodic # "ended"  -> PeriodicThread
         [] main \in {"await", "joinServer"} /\ server # "done" -> ServerThread
         [] main = "join" /\ ~Joined(candidate) -> candidate
         [] OTHER -> Nobody
     ELSE IF a = ServerThread THEN
       CASE server \in {"limit", "reap"} -> openConnectionsLock
         [] server = "join" /\ ~Joined(candidate) -> candidate
         [] OTHER -> Nobody
     ELSE IF periodic = "query" THEN openConnectionsLock ELSE Nobody]

\* No threads wait for one another in a circle, over the lock of the connections or a join,
\* but for that join: in every set of threads one waits for nobody of the set.
NoCircularWait ==
  \/ StopHang
  \/ \A S \in SUBSET (1 .. PeriodicThread) : S # {} => \E a \in S : WaitsFor[a] \notin S

\* CS104_Slave_stop does not close connections for ever, nor does main after it: the
\* program exits, whatever the clients do meanwhile, but for the hangs.
Stopping == main \in {"close", "join", "lockAgain", "closeAgain", "freed"}
ShutdownEnds == []<>(~Stopping \/ SequenceHang \/ StopHang)
=============================================================================
