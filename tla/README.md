# Verification of the IEC 60870-5-104 server

This directory holds TLA+ models of the modular IEC 104 server
(`src/json-iec104-server/src`), of the CS 104 slave of lib60870 below it
(`cs104_slave.c`), of the single-file server it grew out of, of the other parts
of lib60870 (client, link layers, codec, file server) and of the Modbus server,
the TLC runs that check them, and TLAPS proofs that most of the safety properties
hold for every size of the system.
All paths below are relative to the repository; `cs104_slave.c` stands for
`src/json-iec104-server/lib60870/lib60870-C/src/iec60870/cs104/cs104_slave.c`.

## 1. Inventory of the system

The program reads lines of JSON from stdin, keeps the last value of every
configured information object, tells connected control stations about changes,
answers interrogations and accepts commands, which it prints on stdout.

| Part | State | Operations | Hard behaviour | What makes it correct |
|---|---|---|---|---|
| Slave: event channel (`cs104_slave.c`) | shared event queue, shared high-priority queue, per connection: k-buffer, send counter, `isRunning`, `isActive` | enqueue, send, confirm, STARTDT, STOPDT, accept, close, join | one thread per connection, a server thread, main; frame numbers modulo 32768; switch-over; retransmission | no event disappears; a legal confirmation is accepted; events in order; everything is sent in the end |
| Slave: life cycle and locks | `openConnectionsLock`, `stateLock`, thread handles, `openConnections`, `isUsed` | start, stop, destroy, accept, reap, close of all connections | nested locks, joins under a lock, error paths | no deadlock; counters match the connections; nothing used after it was freed |
| Slave: timers and receive side | `receiveCount`, `unconfirmedReceivedIMessages`, T1, T2, T3, TESTFR | receive, S frame, TESTFR, timeout | a timeout racing a late answer; a clock that is set; bit-fields written without a lock | w and t2 respected; a dead peer is noticed, a live one kept |
| Slave: byte rings | `firstEntry`, `lastEntry`, `lastInBufferEntry`, `entryCounter` | enqueue with eviction or refusal, next, confirm, reset | wrap-around, entries of different sizes | a FIFO that drops its oldest; a FIFO that refuses |
| Slave: request dispatch (`handleASDU`), CS 101 queues (`cs101_queue.c`) | handlers, plugins; class 1 and class 2 rings | dispatch by type and cause; enqueue, dequeue, flush | the interplay of handlers, plugins and error answers; a full ring | one answer per request; the newest entries, in order |
| Process image (`data_manager.c`, `input_handler.c`) | `data_array` per type, two offline trackers | update, reset, `is_client_connected` | decision after the unlock, client that comes or goes in between | stations know the current value |
| Interrogation (`interrogation.c`) | none of its own | snapshot of each type, runs and chunks | overtakes waiting events; sizes of ASDUs | every point answered once |
| Commands (`command_handler.c`) | `selectTable` | select, execute, direct, reset | table shared by connections, timeout | one operate per select, by the one who selected |
| Periodic sender (`periodic_sender.c`) | `last_sent`, `running` | round, start, stop | own thread, stale test for a client | current values, one per period; ended before the slave is |
| Client registry (`client_manager.c`) | ten slots, counter | add, remove, list | more clients than slots | list matches the connections |
| Configuration (`config_parser.c`) | contexts, periods, deadband | parse | failure half-way | no partly filled context in use |
| Clock synchronisation, logger, error codes | none that matters | | | |
| Single-file server (`json-iec104-server.c`) | image per type, `selectTable`, `clientConnected` | updates, interrogation, reset, two periodic threads, commands | as the modular one, with other orders and sizes | stations know the current value; an execution uses a selection |
| ASDU and information objects (`cs101_asdu.c`, `cs101_information_objects.c`) | the octets of an ASDU | add an object, get an element; some 60 classes | sizes written, tested and read in three places | what was added is read back and fits |
| Time stamps, counter readings (`cpXXtime2a.c`, `cs101_bcr.c`) | packed octets | setters, getters, from and to milliseconds | fields that share octets, leap years, the century | fields do not disturb each other |
| CS 104 client (`cs104_connection.c`, `json-iec104-client.c`) | k-buffer, counters, `running`, `close`, `failure` | connect, STARTDT, STOPDT, send, receive, close | two threads and two locks taken in either order | numbers agree with the server's; every call returns |
| Link layers (`link_layer.c`) | states of primary and secondary, frame count bit, time stamps | reset, status, send, repeat, test, poll | lost and late frames, busy and absent slaves | nothing twice, nothing confirmed that did not arrive; the link comes back |
| File server (`file_server.c`) | one record: state, file, section, offset, checksums | select, call, section, segments, acknowledge, time-out | several masters, one record; given up half-way | checksums are those of what was sent |
| Modbus server (`src/modbus-server/json-modbus-server.c`) | server state, TCP slots, contexts, mapping | init, start, stop, accept, requests, reconnect | one select loop, a signal, partial failure of init, reuse of descriptors | every descriptor accounted for; comes up, ends |

How they interact: main calls `input_handler_process_line`, which updates the
image under the mutex of the type and calls `CS104_Slave_enqueueASDU`.  The
connection threads call back into interrogation and command handlers, which
read or reset the image under the same mutexes and answer through
`sendASDUInternal`.  The periodic sender does both from its own thread.
Everything meets in the event queue and in `CS104_Slave_getOpenConnections`.
The single-file server does the same in one file with threads of its own.  The
CS 101 slave, the link layers, the client and the file server are library code
that the servers' build compiles; the test client uses the CS 104 client.  The
Modbus server shares nothing with the rest.

`PROJECT.json` lists every component with its status, and under "hazards" what
is hard to test, at its line, with the property that covers it or the reason
why none does yet.

## 2. Modules

### EventChannel (and AtLeastOnce)

`EventChannel` models the slave as the server configures it
(`CS104_MODE_SINGLE_REDUNDANCY_GROUP`).  A connection thread is a process with
a program counter `pc[c]` that follows `connectionHandlingThread`; every
critical section and every unlocked read of a flag that another thread writes
is a step of its own.

| Action | Code |
|---|---|
| `Enqueue` | `MessageQueue_enqueueASDU`, dropping the oldest entry |
| `Accept`, `Reap` | `getFreeConnection` + `MasterConnection_init` + `_start`; the scan of `serverThread`, which stops at the first object in use |
| `NoMessage`, `Fail` | poll without effect; socket error, refused frame or timeout |
| `StartDt`, `Activate`, `StopDt` | the two halves of `CS104_Slave_activate`; deactivation |
| `RecvAck`, `ConfirmNext`, `ConfirmStop` | range check and loop of `checkSequenceNumber` |
| `Command`, `Reply` | handlers and `sendASDUInternal` |
| `Check`, `SendHigh`, `SendLow` | the end of the loop, `sendWaitingASDUs` |
| `Close` | leaving the loop: `setWaitingForTransmissionWhenNotConfirmed` |

The peer and TCP are external: frames arrive in order until the connection is
lost.  The peer's reception of a frame is merged with the reading of its
confirmation (`RecvAck`), since nothing in the slave depends on it earlier.

`AtLeastOnce` is the abstract promise: an event submitted is pending until it
is received; only the oldest pending one may be given up for a new one.
`PromiseKept` maps the events queued and not confirmed to `pending`.

### SelectTable

The table of `command_handler.c` with `command_mode` "sbo".  The test
(`CheckSelected`) and the clearing (`Execute`) of a selection are two critical
sections, as in the code.  A connection is the connection object, whose pointer
the table stores, so that `NewMaster` models its reuse.  History variables
record what the master did (`unused`, `sinceSelect`, `held`, `own`); they guard
nothing but the bound on `unused`.

### ProcessData

The image, the main thread handling a line in four steps (`Line` with the first
`is_client_connected`, `Gate` for the offline path, `Store` for the critical
section of `update_data`, `Decide` for the second `is_client_connected`,
`EnqueueUpdate`), the handlers (`Command`, then `Answer` or `Reset` once per
type), the periodic sender, and a station with an unreliable connection.  The
slave is reduced to what `EventChannel` shows for one connection: in order, at
least once, oldest dropped.  `DATA_TYPE_TABLE` is kept with its columns.
Values are natural numbers; the comparison with the deadband is the code's.

### SlaveLifecycle

The threads of the modular server as processes, with the places where each may
wait as values of `main`, `server`, `periodic` and `thread[c]`.

| Action | Code |
|---|---|
| `Bind`, `Poll`, `CheckLimit`, `GetFreeConnection`, `StartConnection` | `serverThread`: listen, accept, the limit, the free object, its thread |
| `LockForReap`, `Scan`, `Reap` | the scan for ended connections, `MasterConnection_close`, join, count |
| `Opened`, `Loop`, `Round` | `connectionHandlingThread`: OPENED event, `isRunning`, one round |
| `SequenceError` | the return of `handleMessage` that keeps `stateLock` |
| `LockForActivate`, `DeactivateOthers`, `ActivateSelf` | STARTDT, `CS104_Slave_activate` |
| `Closing`, `Ending` | CLOSED event with `remove_client`; the end of the thread |
| `PeriodicRound` | `periodic_sender.c`, `is_client_connected` and the sends |
| `Started`, `MainLoop`, `StopPeriodic`, `StopServer`, `LockAll`, `CloseNext`, `JoinConnection`, `AllClosed`, `Exit` | `main`, `CS104_Slave_stop`, `CS104_Slave_destroy` |

### MessageRing, EventFifo and HighPrioQueue

`MessageRing` is `MessageQueue` on its byte buffer: `Enqueue`, `GetNextWaiting`,
`MarkAsConfirmed`, `SetWaiting`, `ReleaseAll`.  The ghost `mem` tells which entry
wrote each unit last, so that an overwritten header is not readable.
`pending` has the entries handed out whose confirmation may come.
`EventFifo` is the sequence `EventChannel` works with, in which an entry is confirmed
only while its confirmation is due, leaves only at the front, and a confirmation of
an entry that is gone changes no other; `RingIsFifo` maps the walk over the ring to it.
`HighPrioQueue` is `HighPriorityASDUQueue` (`EnqueuePrio`,
`GetNextPrio`, `ResetPrio`, `PrioFull`), which refuses instead of evicting.

### ConnectionTimers

One connection; `place` is where its thread is.  `ReceiveI`, `CountI`,
`HandleAsdu`, `ReceiveS`, `ReceiveU`, `ReceiveStopDt`, `WrongSendNumber` and
`WrongReceiveNumber` are `handleMessage`; `handleTimeouts` is the function of that
name; `ConfirmAtW` and `ConfirmWithS` are the confirmation at w, whose store of
the bit-fields happens without a lock; `SendIMessage` and `SendFails` are sends
of other threads.  Time stamps are kept as distances from the clock; `PassTime`
moves it and `SetClock` sets it, forward or back.

### ObjectLayouts, InformationObjects and AsduPacking

`ObjectLayouts` is a table of the classes of information objects: the fields each
writes, the room it tests for and how `getElement` finds it.
`InformationObjects` adds objects to an ASDU and reads them back.  In a sequence,
`getElement` writes the address into what the decoder returned without a look at it:
`GetElement` is `NullDereferenced` where that is NULL.  `AsduPacking`
(`SendChunk`, `NextType`, `Terminate`) is the loop of `interrogation.c` and
`periodic_sender.c` over the configured addresses, with the real sizes and the
real limit of `addInformationObject`.

### MonolithPacking, MonolithImage and MonolithCommands

The single-file server: `AnswerChunk`, `SendPeriodicData`, `SendTotals` are its
ways of packing; `UpdatePlain`, `UpdateShort`, `UpdateCounter`, `Announce`,
`ResetType`, `AnswerType`, `Shutdown` its image with one mutex per type.  Each of
the two periodic threads (`StartPeriodicRound`, `StartTotalsRound`) copies the values of
a type under its mutex (`CopyValues`) and enqueues the ASDU after the release
(`EnqueueCopied`); `outdated` has what changed in between.  An ASDU takes any of the
points, since nobody looks at what `addInformationObject` refuses.
`Select104`, `CheckSelected`, `ClearSelection`,
`ExecuteSelected`, `ExecuteDirect` its command handler with both modes.

### BalancedLink and UnbalancedLink

Primary and secondary over a line that keeps the order, loses frames and lets a
time-out come before the answer.  In `BalancedLink` the application may ask for a
test of the link in any state (`AskForTest`), also while user data is under way, of
which a time-out then repeats the test (`replaced`).  The actions `RequestStatus`,
`SendTest`, `SendUserData`, `ConnectTimeout`, `Repeat`, `GiveUp` are
`LinkLayerPrimaryBalanced_runStateMachine`, the operators `AckAnswer` to
`NotImplementedAnswer` its `handleMessage` by function code.  In `UnbalancedLink`
the `Run...Slave` actions are `LinkLayerSlaveConnection_runStateMachine` by state
and `Schedule` the choice of the next slave.  `ForeignAnswer` and `ForeignReply`
are answers of a station of another make.

### Cs104Client

The application thread (`Connect`, `SendStartDT`, `SendStopDT`, `SendASDU` with
`TakeSentLock`, `WriteIMessage`, `RecordIMessage`, `CloseConnection`) and the
thread of `handleConnection` (`ResetConnection` to `StopRunning`), with the two
locks.  `ServerSends` is the peer, which keeps to the protocol; it is external.

### ModbusServer

`at` is the place in the loop of `main`: `Select`, `ReadStdin`, `SkipStart`,
`Listen`, `OpenRtu`, `MapRegisters`, `Accept`, `HandleClients`, `HandleRtu`,
`Reconnect`, and the two cleanups; `Signal` may come anywhere.  Descriptors are
numbers, of which the kernel hands out the lowest free one.  The slots of clients start
as zeros, the descriptor of stdin, and stay so without TCP; `TakenSlots` is what the
loop takes for used, `Clients` where a client is.

### FileServer

One action per message the plugin takes in the state it takes it (`...Received`,
`FileAcknowledged`, `SectionAcknowledged`, `SelectFile`, `SelectRefused`),
`MessageIgnored` for the rest, `sendSegment`, `sendLastSegment`,
`runTaskTimeout` for `runTask`.  Each handler is one step, as in the threadless
slave and in the CS 101 slave; with one thread per connection the record would
be shared without a lock, which is not modelled.

### EncodedTypes and SlaveRequests

`EncodedTypes` has the setters and getters of the packed types on their octets
and the conversions from and to a date.  A setter is called with any number it can
take: `Meaning` tells which bits of it a field has, `Carried` how seconds and
milliseconds, one number of 16 bits, change each other.  `SlaveRequests` has `handleASDU` of both
slaves (`Handle104`, `HandleReceivedData`) for every type, cause, set of
handlers, parse result and answer of a handler, and the rings of
`cs101_queue.c`.

### Modules with proofs

`EventChannelProofs`, `SelectTableProofs` and `ProcessDataProofs` extend the module
of that name.  `AnswerProofs` is about `SlaveRequests`, `FileServer`,
`HighPrioQueue` and `MessageRing`; `MonolithProofs` about `MonolithCommands`,
`MonolithImage` and `ModbusServer`; `LinkProofs` about both link layers;
`ConnectionProofs` about `ConnectionTimers`, `Cs104Client` and `SlaveLifecycle`;
`EncodingProofs` about what ends up in octets: `EncodedTypes`, `AsduPacking`,
`MonolithPacking` and `InformationObjects`.  The components of such a module share
no state, but for the two packings, and it has a section for each.  See section 4.

### MCParts

The union of these modules (all of the above from `SlaveLifecycle` on), which share
no state; the two packings use the same variables in turn.  `part` chooses, in
the initial state, the component that runs; all others rest.  The state space is the
sum of theirs and not the product.

## 3. Runs

| Run | Question | Result |
|---|---|---|
| `channel_window` | k-buffer and frame numbers over the wrap-around | holds |
| `channel_switchover` | two connections, overflow, failures: does an event disappear, does the channel implement `AtLeastOnce` | holds |
| `channel_serving` | is every event delivered | holds under `Fairness` |
| `channel_single_active` | one active connection (user guide of lib60870) | violated |
| `channel_confirmed` | a confirmed event is removed (diagnostic in the code) | violated |
| `select_table` | use of selections under contention, expiry and a full table | holds |
| `select_owner` | only the master that selected operates | violated |
| `process_picture` | does the station's picture follow the image | holds |
| `process_quality` | INVALID only until good data arrives (comment in the parser) | violated |
| `process_withheld` | withheld only within the offline period (comment in the code) | violated |
| `parts` | the components of `MCParts`, each for itself, with the properties below | holds |
| `interrogation_answer` | is every configured point answered (comment in the code) | violated |

The properties of `parts`:

| Property | Says | Excepts |
|---|---|---|
| `CountSeen` | whoever asks for the number of open connections gets the number of objects in use | |
| `ListMatches` | the client list holds every connection between its two events once | more connections than places |
| `NoUseAfterFree` | an object or the slave is given back only when no thread can use it | |
| `NoCircularWait` | no set of threads waits for its own members | `StopHang`, see below |
| `ShutdownEnds` | stop, destroy and main after it end | the two hangs |
| `EntriesIntact` | the walk over the ring finds the newest entries, each whole | |
| `RingIsFifo` | the ring implements `EventFifo`: none but the entry addressed is confirmed, none but the oldest given up | |
| `AnswersWhole` | answers leave the high-priority queue in order and whole; not full means the next is taken | `cramped`: too little room behind the newest entry after a wrap |
| `TimersKept` | an I frame is confirmed within t2 and at w; a silent peer is tested and closed; one that answers in time is not | what a set clock and a send in between cost, by name |
| `CodecAgrees` | an element is read back where and as it was written; an ASDU keeps within its size | a second object of a file type; `C_TS_TA_1` in a sequence; the last entry of a directory in a sequence |
| `OnlyCountLoses` | a point is answered once and in order, whatever gaps and sizes | the 128th object of an ASDU |
| `AnsweredAsFits` | single-file server: of every chunk of a list the points that fit into an ASDU, in order and once; so whole lists of types whose literal size is not too small | `M_SP_TB_1`, `M_DP_TB_1`, `M_ME_TD_1`, `M_ME_NC_1`, `M_ME_ND_1`: their literals are smaller than an object |
| `PictureFollows` | single-file server: the last value sent is the image's | `behind`: changes without a client in the offline time, a client that left between two looks, a reset, a count, a change between the copy and the enqueueing of a periodic ASDU |
| `ExecutionUsesSelection` | n selections never give n + 1 executions | |
| `LinkDelivers` | balanced: nothing delivered twice; nothing confirmed that did not arrive | the second after a late or foreign answer, or for a message replaced by a test, see below |
| `LinkComesBack` | balanced: the primary is again and again able to send | the other station is busy |
| `PollsDeliver` | unbalanced: data of each class once and in order, confirmed commands arrived | the second after a late or foreign answer |
| `NobodyStarves` | an absent slave does not keep the primary from the others | one that is busy |
| `NumbersAgree` | client: the k-buffer has the numbers the server may confirm, and accepts them | |
| `CallsReturn` | client: every call returns | three hangs, see below |
| `DescriptorsKept` | Modbus: every open descriptor is in one place, nothing is read that select did not see, and no slot of zero is taken for a client while slots are read or closed | |
| `ModbusComesUp` | Modbus: comes up after its faults, ends when stopped | a lost listener (`orphans`), a crash |
| `ChecksumsTrue` | file server: checksums are those of the octets sent | `disturbed`: given up between segments, a repeated section |
| `FieldsIndependent` | getters return what was last set, up to the bits of the field; a date is read as given | seconds and milliseconds carry into each other |
| `AnsweredOnce` | an ASDU is answered or taken, and not answered twice | an unknown cause |
| `QueueKeepsNewest` | CS 101 queues hold the newest entries not gathered, in order | |

What is excepted was met while modelling; each is in the code:

* `SequenceHang`: on a wrong N(S) `handleMessage` returns with `stateLock` held
  (`cs104_slave.c:2429`); the thread itself waits for it for ever when it is to
  note that it no longer runs, and so does everyone who joins it.
* `StopHang`: `CS104_Slave_stop` joins connection threads under
  `openConnectionsLock` (`cs104_slave.c:4069`), which a thread in STARTDT wants.
* Link layer: the answers carry no number.  After answers that came later than
  the time-out the primary takes each for the answer to the next frame.  One loss
  more, or three late answers without any loss (a status, a reset and a message,
  each repeated once), and a message is confirmed that has not arrived.
* Balanced link: `LinkLayerBalanced_sendLinkLayerTestFunction` sets its flag in any state
  (`link_layer.c:1306`).  Set while a message is under way, it makes the time-out repeat
  a test instead of the message, and the answer to that ends the service: a message
  that was lost is taken as sent, without any late answer.
* Codec: `iec60870_common.h:462` promises NULL for an index without an element.  In a
  sequence `CS101_ASDU_getElementEx` hands the NULL of the decoder to
  `InformationObject_setObjectAddress` (`cs101_asdu.c:461`), which writes through it;
  `CodecAgrees` says where (`NullDereferenced`).  The last entry of a file directory in a
  sequence fails the same way, since `FileDirectory_getFromBuffer` asks for the room of
  an address that is not there.
* Single-file server: the old value of a periodic ASDU that was built before a change
  and enqueued after it is the last one the station gets.
* Client: `Crossed104`, the two locks taken in opposite orders
  (`cs104_connection.c:844`); `CloseForgotten`, a close before the thread's
  `resetConnection`, which forgets it; `ConnectUnanswered`, `connect` waiting for
  flags that a thread without a socket never sets.

### Bounds

* `channel_window`: K = 3, modulus 4, queue of 3, five events.  The modulus is
  the smallest above K, so that the k-buffer spans the wrap at every offset and
  the repeated confirmation is next to the newest number.  One connection
  object, reused; `SentInOrder` is checked here only (see section 6).
* `channel_switchover`, `channel_serving`: two connections, K = 1, queue of 2,
  three and two events.  Two connections are enough for every pair of
  activations and closes; two queue places and three events give eviction of an
  entry that is under way.  `channel_serving` has no room in the high-priority
  queue, so that a response is sent at once or dropped.
* `select_table`: two connections, three objects, two entries, so that the table
  overflows; at most two unused selections of each kind, enough for a duplicate
  entry; a timeout of one step.  Symmetry in connections and objects; the view
  leaves out `own`, which no checked property reads.
* `process_picture`: `M_SP_TB_1` with {0, 1} and `M_ME_NC_1` with {10, 11} and a
  deadband of 10 %: 10 to 11 is the limit exactly; 0 arises initially and from a
  reset.  Queue of 2, period of one step, periodic sending of the float.  The
  view leaves out `quality` and `field`, which guard nothing.

* `interrogation_answer`: `MaxSizeOfASDU` is lib60870's 249.  240 objects of four
  octets fit an ASDU, 127 are taken.
* `parts`, by component, chosen so that the named cases occur:
  * `SlaveLifecycle`: two connection objects, two places in the list, three
    sessions, so that an object is reused while the other is being closed.
  * `MessageRing`, `HighPrioQueue`: six units and entries of one and three, the
    smallest in which a large entry evicts several, wraps and leaves a gap at the
    end.  `pending` keeps entries that are gone, so that late confirmations
    meet a reused place.  At least two of the largest entries must fit: with one, the pointers do
    not survive the wrap of an entry that stands alone (`RingAssumption`;
    the programs ask for 20000 and more).  Four entries, six answers.
  * `ConnectionTimers`: t1 = 2, t2 = t3 = 1, k = 1, w = 3, the clock set once by one
    tick.  Larger values (t1 = 3, t2 = t3 = 2, k = 2) were checked and hold too.
  * Codec and packing: ASDU of 150 octets, in which a type without time tag still
    passes 127 objects; lists with gaps, runs of 1, 2, 3, 6, 30, 80 and more,
    falling addresses.
  * `MonolithImage`: configurations {sp, it}, {nc}, {td} and none; `td` is of a type
    without an offline limit.  With {sp, nc} or {nc, it} the copies of both threads or
    of both periodic types are too many states; these are left to the proof.  The clock
    moves once, by the offline time; from 10 to 11 is within the deadband of 20 %, the
    steps from and to 0 are not.
    `MonolithCommands`: two connections, two addresses, two entries, four
    commands, so that the table is full and an entry is overwritten.
  * `BalancedLink`: three messages, one repetition, and one each of lost frame,
    early time-out and foreign answer: the frame count bit takes both values twice.
    `UnbalancedLink`: two slaves of which one is present.
  * `Cs104Client`: k = w = 2, numbers modulo four, four sends: they wrap once.
  * `ModbusServer`: two slots, three connections, two faults: a slot and a
    descriptor are reused, and one fault may follow from another.
  * `FileServer`: two masters, a section of two octets and one of one, each 128, so
    that checksums wrap at 256; segments of one octet.
  * `EncodedTypes`: the dates around leap years and the ends of the range; of each field
    the greatest value that fits and one that does not, milliseconds of 999 and of the
    24123 that `all_tests.c` uses.  `Bounded`: what was carried from the milliseconds into
    the seconds or beyond 16 bits is not carried into once more, unless the value
    it left is one of those set; the theorem has any set of values.
  * `SlaveRequests`: queues of two and one, four entries: both overflow and wrap.

### Fairness

All fairness in `parts` is weak and says that threads are scheduled and run
functions called over and over: `Server`, `PeriodicRound`, `Main` and each
`Thread` of the slave; primaries and secondaries of the link layers; the two
threads of the client; the loop of the Modbus server.  None is assumed of
clients, inputs, faults, signals or losses.  Of the event channel:


`Fairness` of `EventChannel` states: each connection thread is scheduled (weak
fairness of its own steps and of a poll without message, which is what the
timeout of the poll guarantees); a handler sends finitely many responses (they
loop over the configured objects); and while frames are exchanged for ever, the
peer confirms what it received (strong fairness of a confirmation of all
frames, the t2/w rule of the protocol, external here).  Nothing is assumed about
enqueueing, accepting, STARTDT or failures.  `EventsDelivered` is conditional on
a connection that stays active and on no handler answering for ever: responses
take precedence over events and share the window, and in a slave with two
active connections the commands of one can keep the other from sending events.

## 4. Proofs

TLAPS proves the theorems below for every value of the constants that satisfies
the named assumption of the module.  These assumptions say what kind of thing a
constant is and, in these places, what the code relies on:

* `ChannelAssumption`, `ClientAssumption`: the k-buffer is smaller than the range
  of the sequence numbers (the client's by two).  The code has 12 and 32768.
* `TimersAssumption`: t1 > t2, as the standard has it and the defaults do.
* `PrioAssumption`: two of the largest entries fit into the buffer.
* `RingAssumption`: the same for the buffer of the events.
* `ParametersAssumption`: the sizes of the fields of an ASDU that the standard has,
  and 40 to 254 octets for an ASDU, which is room for the largest object.
  `StationsAssumption`: a list of addresses is a list of numbers.
  `EncodedAssumption`: the setters get no negative number, no second or millisecond
  whose sum an `int` does not hold, and 0 or 1 for a flag; dates are of the years 2000
  to 2099.
* `FileAssumption`: a file has sections and a section has octets.
* `PollAssumption`: a slave has a number above 0, which stands for no slave.

Bounds such as `MaxId` or `MaxLosses` are any natural number: they end a
behaviour, and as each theorem holds for all of them it holds for behaviours of
any length.

Each safety theorem comes from an inductive invariant, which TLC checked on small
instances first; the module has a lemma for each conjunct, with a step for each
action that touches it, and the theorem puts these together.

### Event channel and select table

| Theorem | States | Invariant and argument |
|---|---|---|
| `TypeCorrect` (both) | `TypeOK` | itself |
| `WindowCorrect` | `WindowConsistent` | restricted to connections that live and run: a failed write stores a frame with an old number but ends the connection.  Only `SendFrame`, a confirmation and `Accept` touch the k-buffer |
| `LegalAckCorrect` | `LegalAckAccepted` | `FramesOutstanding`: the k-buffer is what a confirmation under way has still to remove, and then the frames of the wire (`Numbered`, `UnderWay`, `Confirming`).  Numbers are counted back from the send counter, so that the wrap needs one lemma only |
| `NoLossCorrect` | `NoSilentLoss` | with `QueueNumbered` (the queue is a stretch of the newest events) and `FramesKnown` (frames carry events that exist): a confirmed event was received before |
| `OwnerCorrect` | `SentHasOwner` | with the same; closing puts back exactly the entries of its own k-buffer |
| `PromiseCorrect` | `PromiseKept` | the refinement of `AtLeastOnce`: initial states map to initial states, and each step to `Submit`, `Receive`, `Release` or a stutter |
| `OrderCorrect` | `SentInOrder` | `WaitingAreLater`; assumes one connection (`MaxConn = 1`), see section 6 |
| `OneOperateCorrect` | `OneOperatePerSelect` | the number of entries of a connection and an object is compared with that of unused selections: storing adds at most one, taking over and clearing remove one |
| `FreshCorrect` | `OperateIsFresh`, an action property | no entry is younger than the last selection of its owner |
| `HonouredCorrect` | `SelectionHonoured` | the entry of a held selection comes first among those of its owner and object |

### Life cycle

`CountCorrect`, `ListCorrect`, `FreeCorrect` and `WaitCorrect` (`CountSeen`,
`ListMatches`, `NoUseAfterFree`, `NoCircularWait`) share `LifeInv`: who holds
`openConnectionsLock` (`LockHeld`), how far `main` has come compared with the
threads (`InOrder`), which object is in use while which thread or list entry
needs it (`ObjectsInUse`), that nobody but the thread, the reaper and the stop
touches `isRunning` (`RunningSeen`), and that counter and list are as many as the
objects (`Counted`, `ListCounts`).  No wait is circular because whoever owns the
lock in a join waits for a thread that does not want it: the one the reaper joins
has left its loop, and only in `StopHang` is the one `main` joins about to
activate itself.  So the owner waits for nobody of the set, hence no connection
thread of the set waits, nor the periodic sender, the server thread and `main`.

### Process image

`PictureCorrect` (`PictureCurrent`) of `ProcessData`: for each object, the last
event in the queue that tells of it is within the deadband of the image
(`PictureFromQueue`); what was sent tells the station (`PictureFromSeen`); and an
update on its way carries the value of the image (`PictureFromInput`).
`ProcessTypes` is its type correctness.  `PictureCorrect` of `MonolithProofs` is
the same of the single-file server (`PictureFollows`), with a further part for the copies
of the periodic threads: what was copied is the image, but for the points of `outdated`; and
`ExecutionCorrect` of
its commands (`ExecutionUsesSelection`): every entry, and every execution that
was tested and not carried out yet, stands on a selection of its own; the entry
that is about to be cleared may share it with its execution.

### Answers, queues, files

* `AnswerCorrect` (`AnsweredOnce`): the cases of both `handleASDU`, for any set of
  handlers and any results they have.
* `RingsCorrect` (`QueueKeepsNewest`): the ring of either class holds the list of
  the newest entries from its first index on, modulo its size.
* `AnswersCorrect` (`AnswersWhole`): entries lie one behind the other from
  `firstEntry` on, up to the one at `lastInBufferEntry`, and the others from the
  start of the buffer, before `firstEntry`.  An entry is accepted only where
  it overwrites none that waits.
* `ChecksumsCorrect` (`ChecksumsTrue`): the running sums are those of the octets
  before the cursor, modulo 256, unless a transmission was given up (`disturbed`).

### The byte buffer of the events

`BufferInOrder` proves the inductive invariant `BufferInv` of `MessageRing`: the
entries lie one behind the other from `firstEntry` up to the one at
`lastInBufferEntry`, the others from the start of the buffer, none over another,
and each pointer is the place of the entry it is named for.  An enqueue evicts the
oldest entries until the new one overwrites none, also where it wraps and where the
entries left over do; every case of the eviction loop is a lemma.

`EntriesStayIntact` (`EntriesIntact`) follows, since the walk goes from each header
to the next entry of that list.  The walk is a recursive function over the number
of entries: two functions that follow it agree, because the least index at which
they do not would have to follow one at which they do (`Descent`, `WalkIs`; the
same argument for the rounds of the eviction loop is `EvictIs`).

`RingImplementsFifo` (`RingIsFifo`): every step of the buffer is one of
`EventFifo`, which gives up its oldest entries only and confirms none but those handed
out, or leaves the list alone.  A confirmation names its entry by place and number:
where the place was written over, the number there is a later one (`Plausible`), and
the entries of the list have different numbers.
With it the list of events that `EventChannel` works with stands for the buffer.

### What ends up in octets

* `FieldsCorrect` (`FieldsIndependent`): each octet is a sum of fields in different
  powers of two (`MinuteBits` to `CounterBits`), so that setting one leaves the
  remainders and quotients that are the others, whatever the value (`LowBits`).
  Seconds and milliseconds are the quotient and the remainder of one number, and
  what exceeds it is carried or lost as `Carried` says (`SetShared`).  A time is read back because
  the days of the years before, of the months before and of the month add up to
  the number that the day was taken from: `DaysAgree` proves the recursion over
  years (`LeapsBefore`) and months (`NextMonth`) against the calendar.
* `OnlyTheCountLoses` (`OnlyCountLoses`): `PackInv` says that of the list so far
  exactly the points which an ASDU can still count were sent, in order (`Kept`).
  A chunk adds to both the same stretch (`KeptChunk`), whatever
  the runs of consecutive addresses; at the end the lists are as many as the
  points and each at its rank (`KeptRanked`).  `ChunkTaken` is where the sizes that
  the program reckons with and those that the encoder tests meet: what an ASDU
  is made for, it takes, up to 127.
* `MonolithAnswers` (`AnsweredAsFits`): the same with `MonoInv` for the single-file
  server, where an ASDU takes as many of a chunk as there is room for.
* `ElementsAreReadBack` (`CodecAgrees`): `AsduInv` says that the octets of an ASDU
  are its elements, one behind the other, each where `getElement` reckons it to be
  (`Holds`, `End`), with addresses that go up by one in a sequence.  `AllLaid`
  collects, class by class, what that needs of a class: that the encoder tests for
  what it writes, the decoder asks for no more, and the table of element sizes has
  the same size; the exceptions of the property are the classes for which this
  does not hold.  Behind the last element the decoder finds too little room, so that
  it returns NULL, which in a sequence is dereferenced.

### Connections

* `TimersCorrect` (`TimersKept`): the age of an unconfirmed frame is bounded by how
  long t2 has run, the silence of the peer by how long t3 and the test frame
  have, and every time stamp is at most as old as what it stands for, each up to
  what a set clock and a send between a frame's time stamp and its count cost.
* `NumbersCorrect` (`NumbersAgree`): the confirmations on the line are ever further
  ahead of the number before the oldest in the k-buffer and never beyond what the
  peer got (`ConfirmsInOrder`); the I frames of the peer have the next numbers
  (`ArrivesInTurn`); and what the peer got is in the k-buffer or about to be
  recorded by a call that holds `sentASDUsLock` and found room (`RoomToSend`).

### Link layers

* `LinkCorrect` (`LinkDelivers`): the copies of a message are together on the line
  (`CopiesInARow`), and the frame count bit of a copy of what was received is not
  the expected one (`CopiesRefused`).  With answers in time there is one frame or
  one answer on the line and none while the primary may send (`OneOnTheLine`); an
  acknowledgement then is for what was sent last, the message or the test that
  replaced it.
* `PollsCorrect` (`PollsDeliver`): a slave's messages are in the order of the calls
  over application, line and primary (`CommandsInOrder`), and so is its user data
  on its way back (`DataInOrder`).  A secondary toggles its bit for each frame it
  takes, so that no answer is given twice; it does not repeat its last answer
  either, so that what is lost is lost.  With answers in time the primary waits
  for one slave, and one frame or answer it may hear is on the line (`OneExchange`): frames that a
  secondary would refuse, such as the request after a link test, are left
  out.  `AllGathered` counts the data without a fault.

### Modbus server

`DescriptorsCorrect` (`DescriptorsKept`): a descriptor is in one slot, one variable
or an orphan (`EachOnce`); without a mapping there are no clients (`MappedFirst`);
what select reported is still open until it is read, so that no descriptor
that came since is among it (`ReadyIsOld`); and the slots of a TCP server are not
zero from the listen on that comes before the mapping, hence not while clients are
read or closed (`SlotsSet`).  That the kernel hands out the lowest
free one is a lemma about the least member of a set.

### Only model-checked

* Liveness and `ENABLED`: `EventsDelivered`, `ShutdownEnds`, `LinkComesBack`,
  `NobodyStarves`, `CallsReturn`, `ModbusComesUp`.  The prover has no rule for
  fairness that could be used here.

Each theorem is about a component's own specification; `MCParts`, which runs several
of them side by side to check them in one go, is not itself the subject of one.

Every safety property and every action property of the passing runs is stated by
a theorem, and so are both refinements.  Induction over data is done by the least
counterexample, since the library's induction theorems have a parameter that the
prover cannot instantiate: for a named function or sequence, the set of arguments
at which a claim fails has no least member and so is empty (`NoLeast` in
`EncodingProofs`, `Descent` in `AnswerProofs`).

## 5. What the violations show

* `channel_single_active`: `CS104_Slave_activate` sets its own flag after the
  lock was released; two masters sending STARTDT at the same time stay active.
* `channel_confirmed`: after a switch-over the second connection's event is
  confirmed while an older one is still held by the first; `markAsduAsConfirmed`
  marks the entry in the middle, and nothing removes it until it is evicted.
* `select_owner`: a connection object is reused within the timeout of a
  selection; the new master's execute command is accepted.
* `process_quality`: an update is compared by value only, so that a first good
  value equal to the default leaves the object INVALID.
* `process_withheld`: the two calls of `is_client_connected` for one line
  disagree; the change of an object without time tag is stored and never sent.

* `interrogation_answer`: chunks of a run of consecutive addresses are cut by size
  only; `CS101_ASDU_addInformationObject` refuses the 128th object, and its answer
  is not looked at.

## 6. Not modelled, and why

* `SentInOrder` does not hold with two connections: the one that closes puts back
  what the active one has under way.  The documentation promises no more than a
  FIFO, so that this is described here and not stated as a run.  `OrderCorrect`
  is therefore proved under `MaxConn = 1`.
* The content of ASDUs, JSON and logging: no property is about them.
* `PictureCurrent` leaves out objects whose change was withheld (`silent`): by the
  offline period, by a reset, which enqueues no event, and by an overwritten
  event.  An interrogation after which nothing older can follow, or a periodic
  event, brings them back.
* A positive confirmation of a selection that found no place in a full table is
  in `SelectTable` (`Select`), but no property forbids it.
* Time tags.  `CP56Time2a` is a pointer type and `convert_input_to_value` writes the
  time through an uninitialised one (`input_handler.c:27`); the models take that
  write to be harmless, and events differ by object and value only.
* The clock is set only in `ConnectionTimers`.
* The configuration parsers: they run once, before any thread, and what they
  leave is an initial state of the models.  A failure half-way leaves a partly
  filled context, which no property is about.
* Clock synchronisation (it sets the time in a build flag that no Makefile sets),
  logger and error codes; the test client's command line and output; reading of
  JSON in the single-file server; the contents of Modbus registers.
* The modular Modbus server: it is unfinished and does not link.
* cJSON, libmodbus, the CS 101 master, serial framing, sockets, TLS and threads of
  the HAL: external, taken as their callers use them.
* The coding of a value within its field (normalised and scaled values, quality
  bits), but for the packed types of `EncodedTypes`.
* Broadcasts and the link states reported to applications.
* Callbacks of the client that call its API, and a `connect` before the thread of the
  connection before has ended; lines on the stdin of the Modbus server that come in
  parts (`fgets` would block the loop).
* `stateLock` in the `WaitsFor` of `NoCircularWait`: the hang after a wrong N(S) is the
  named exception of `ShutdownEnds` instead; `EventChannel` takes it for a failure that
  ends the connection.
* `FileServer` with one thread per connection: see section 2.

## 7. What could follow

1. `ShutdownEnds` rests on `NoCircularWait`, which is proved, and on each step of
   the shutdown being possible when its turn comes.  The second half can be stated
   without `ENABLED`, as an invariant that names for each thread the lock it waits
   for and who will release it, and proved.
2. `FileServer` with one thread per connection, once the code guards its record.
3. A single proof that composes `EventChannel` with `MessageRing` through
   `EventFifo`; today the list is the interface, and each side is proved.
