--------------------------- MODULE MonolithImage ----------------------------
(***************************************************************************)
(* The process image of json-iec104-server.c, the single-file program: the *)
(* main thread takes updates from its input, connection threads answer     *)
(* interrogations and reset the process, two threads send periodically.    *)
(*                                                                         *)
(* Each type has a mutex of its own.  An update is decided in two steps:   *)
(* update_*_data stores it and asks whether a client is connected, and     *)
(* process_data_update asks again before it enqueues the event.  The two   *)
(* periodic threads copy the values under the mutex and enqueue the ASDU   *)
(* after its release; an interrogation is answered under the mutex.        *)
(***************************************************************************)
EXTENDS Integers, Sequences

CONSTANTS
  Points,        \* information objects
  Configurations, \* sets of points a configuration may have
  TypeOf,        \* [Points -> type]
  Readings,      \* values the input gives
  Qualities,     \* qualities the input gives, without "invalid"
  Deadband,      \* deadband_M_ME_NC_1_percent
  OfflineTime,   \* offline_udt_time, in units of the clock
  MaxClock,      \* bound of the clock
  CounterRange   \* UINT32_MAX, scaled down

\* The names process_json_input knows (GetDataTypeNumber); the rest count as 0.
InputTypes == {"M_SP_TB_1", "M_DP_TB_1", "M_ME_TD_1", "M_IT_TB_1", "M_ME_NC_1", "M_SP_NA_1"}
\* The order interrogationHandler answers in; M_IT_TB_1 is not answered.
InterrogationOrder ==
  <<"M_SP_TB_1", "M_DP_TB_1", "M_ME_TD_1", "M_SP_NA_1", "M_DP_NA_1", "M_ME_NA_1",
    "M_ME_NB_1", "M_ME_NC_1", "M_ME_ND_1">>
\* The order resetProcessHandler resets in; the other types keep their data.
ResetOrder == <<"M_SP_TB_1", "M_DP_TB_1", "M_ME_TD_1", "M_IT_TB_1", "M_SP_NA_1", "M_ME_NC_1">>
Plain == InputTypes \ {"M_IT_TB_1", "M_ME_NC_1"}
\* The types parse_config_from_json allocates a last_offline_update array for.
LimitedTypes == {"M_SP_TB_1", "M_DP_TB_1", "M_SP_NA_1", "M_ME_NA_1", "M_ME_NC_1"}
\* The order SendPeriodicData sends in.
PeriodicOrder == <<"M_ME_NC_1", "M_SP_TB_1">>
\* The threads SendPeriodicData and SendIntegratedTotalsPeriodic.
Senders == {"periodic", "totals"}
MonolithTypes == InputTypes \cup {InterrogationOrder[k] : k \in DOMAIN InterrogationOrder}

ASSUME MonolithAssumption ==
  /\ TypeOf \in [Points -> MonolithTypes] /\ Configurations \subseteq SUBSET Points
  /\ Readings \subseteq Nat /\ Deadband \in Nat /\ OfflineTime \in Nat /\ MaxClock \in Nat
  /\ CounterRange \in Nat \ {0}

VARIABLES
  configured,   \* the configured points
  image,        \* [Points -> [value, quality]]: the _data arrays
  lastOffline,  \* [Points -> time]: the last_offline_update arrays
  clock,        \* Hal_getTimeInMs
  open,         \* CS104_Slave_getOpenConnections > 0
  todo,         \* main thread: the update that update_*_data let through, or NoUpdate
  resetting,    \* types a running reset still has to reset
  asking,       \* types a running interrogation still has to answer
  serving,      \* running
  sending,      \* [Senders -> types its round still has to send]
  copied,        \* [Senders -> values in the ASDU it has built, by their points]
  picture,      \* history: [Points -> [value, quality]] as last sent or enqueued
  behind,       \* history: points whose picture need not be their image
  outdated      \* history: [Senders -> points that changed since their values were copied]
senderVars == <<sending, copied>>
monolithVars == <<configured, image, lastOffline, clock, open, todo, resetting, asking, serving,
                  senderVars, picture, behind, outdated>>

NoUpdate == [point |-> "none"]
Unknown  == [value |-> 0, quality |-> "invalid"]
NoValues == [p \in {} |-> Unknown]

\* parse_config_from_json: all values 0 and invalid, no offline update yet.
MonolithInit ==
  /\ configured \in Configurations
  /\ image = [p \in Points |-> Unknown] /\ picture = image
  /\ lastOffline = [p \in Points |-> 0] /\ clock = OfflineTime
  /\ open = FALSE /\ todo = NoUpdate /\ resetting = <<>> /\ asking = <<>>
  /\ serving = TRUE /\ behind = {}
  /\ sending = [s \in Senders |-> <<>>] /\ copied = [s \in Senders |-> NoValues]
  /\ outdated = [s \in Senders |-> {}]

OfType(t) == {p \in configured : TypeOf[p] = t}
Configured(order) == SelectSeq(order, LAMBDA t : OfType(t) # {})

-----------------------------------------------------------------------------
\* update_m_me_nc_1_data: the new value when it leaves the deadband around the old one.
LeavesDeadband(old, value) ==
  LET diff == IF old < value THEN value - old ELSE old - value IN
  /\ diff > 0
  /\ IF old > 0 THEN diff * 100 >= Deadband * old ELSE 100 >= Deadband

\* What update_*_data stores.
StoredPlain(p, r) == r
StoredShort(p, r) ==
  [value |-> IF LeavesDeadband(image[p].value, r.value) THEN r.value ELSE image[p].value,
   quality |-> r.quality]

\* allow_offline_update: always, when there is no array.
Limited(p) == TypeOf[p] \in LimitedTypes
AllowOffline(p) == Limited(p) => clock - lastOffline[p] >= OfflineTime

\* History: what changes now has changed since it was copied.
Outdate ==
  outdated' = [s \in Senders |->
                 outdated[s] \cup {p \in DOMAIN copied[s] : image'[p] # image[p]}]

\* Mutant of UpdateWith: the value is stored for a connected client only.
UpdateWithOpenOnly(p, r, stored) ==
  LET changed == stored # image[p] IN
  /\ serving /\ todo = NoUpdate
  /\ image' = IF open THEN [image EXCEPT ![p] = stored] ELSE image
  /\ lastOffline' = IF changed /\ ~open /\ AllowOffline(p) /\ Limited(p)
                      THEN [lastOffline EXCEPT ![p] = clock] ELSE lastOffline
  /\ todo' = IF changed /\ (open \/ AllowOffline(p))
               THEN [point |-> p, reading |-> r, resetSince |-> FALSE] ELSE todo
  /\ behind' = IF changed THEN behind \cup {p} ELSE behind
  /\ Outdate
  /\ UNCHANGED <<configured, clock, open, resetting, asking, serving, senderVars, picture>>

\* update_*_data of a type with events, on an input [value, quality].
UpdateWith(p, r, stored) ==
  LET changed == stored # image[p] IN
  /\ serving /\ todo = NoUpdate
  /\ image' = [image EXCEPT ![p] = stored]
  /\ lastOffline' = IF changed /\ ~open /\ AllowOffline(p) /\ Limited(p)
                      THEN [lastOffline EXCEPT ![p] = clock] ELSE lastOffline
  /\ todo' = IF changed /\ (open \/ AllowOffline(p))
               THEN [point |-> p, reading |-> r, resetSince |-> FALSE] ELSE todo
  /\ behind' = IF changed THEN behind \cup {p} ELSE behind
  /\ Outdate
  /\ UNCHANGED <<configured, clock, open, resetting, asking, serving, senderVars, picture>>

UpdatePlain(p, r) == TypeOf[p] \in Plain /\ UpdateWith(p, r, StoredPlain(p, r))
UpdateShort(p, r) == TypeOf[p] = "M_ME_NC_1" /\ UpdateWith(p, r, StoredShort(p, r))

\* update_m_it_tb_1_data: no event; the range is one short of the counter's.
UpdateCounter(p, value) ==
  /\ serving /\ todo = NoUpdate /\ TypeOf[p] = "M_IT_TB_1"
  /\ image' = [image EXCEPT ![p].value = value % CounterRange]
  /\ behind' = behind \cup {p} /\ Outdate
  /\ UNCHANGED <<configured, lastOffline, clock, open, todo, resetting, asking, serving,
                 senderVars, picture>>

\* process_data_update, second part: the event, when a client is connected; short floats
\* are enqueued with a time tag when there is none.
Announce ==
  /\ todo # NoUpdate
  /\ LET p == todo.point IN
     IF open \/ TypeOf[p] = "M_ME_NC_1"
       THEN /\ picture' = [picture EXCEPT ![p] = todo.reading]
            /\ behind' = IF todo.resetSince THEN behind \cup {p} ELSE behind \ {p}
       ELSE UNCHANGED <<picture, behind>>
  /\ todo' = NoUpdate
  /\ UNCHANGED <<configured, image, lastOffline, clock, open, resetting, asking, serving,
                 senderVars, outdated>>

\* run_server_loop on type 0 ("command", or any other name) with value 0.
Shutdown ==
  /\ serving /\ todo = NoUpdate
  /\ serving' = FALSE
  /\ UNCHANGED <<configured, image, lastOffline, clock, open, todo, resetting, asking,
                 senderVars, picture, behind, outdated>>

-----------------------------------------------------------------------------
\* resetProcessHandler, general reset (1): one type under its mutex.  Counters keep
\* their other fields, the rest is zeroed, which makes the quality good.
StartReset ==
  /\ open /\ resetting = <<>> /\ resetting' = Configured(ResetOrder)
  /\ UNCHANGED <<configured, image, lastOffline, clock, open, todo, asking, serving, senderVars,
                 picture, behind, outdated>>
ResetType ==
  /\ resetting # <<>>
  /\ LET points == OfType(Head(resetting)) IN
     /\ image' = [p \in Points |->
          IF p \notin points THEN image[p]
          ELSE IF TypeOf[p] = "M_IT_TB_1" THEN [image[p] EXCEPT !.value = 0]
          ELSE [value |-> 0, quality |-> "good"]]
     /\ behind' = behind \cup points /\ Outdate
     /\ todo' = IF todo # NoUpdate /\ todo.point \in points
                  THEN [todo EXCEPT !.resetSince = TRUE] ELSE todo
  /\ resetting' = Tail(resetting)
  /\ UNCHANGED <<configured, lastOffline, clock, open, asking, serving, senderVars, picture>>

\* interrogationHandler, one type under its mutex, in which the answers are sent as well.
\* CS101_ASDU_addInformationObject refuses some points, and nobody looks at its answer:
\* MonolithPacking tells which, here they are any.
StartInterrogation ==
  /\ open /\ asking = <<>> /\ asking' = Configured(InterrogationOrder)
  /\ UNCHANGED <<configured, image, lastOffline, clock, open, todo, resetting, serving,
                 senderVars, picture, behind, outdated>>
AnswerType ==
  /\ asking # <<>>
  /\ \E sent \in SUBSET OfType(Head(asking)) :
       /\ picture' = [p \in Points |-> IF p \in sent THEN image[p] ELSE picture[p]]
       /\ behind' = behind \ sent
  /\ asking' = Tail(asking)
  /\ UNCHANGED <<configured, image, lastOffline, clock, open, todo, resetting, serving,
                 senderVars, outdated>>

\* A round of SendPeriodicData, which the M_ME_NC_1 settings start: the types that are due.
StartPeriodicRound ==
  /\ serving /\ open /\ sending["periodic"] = <<>> /\ OfType("M_ME_NC_1") # {}
  /\ \E due \in SUBSET {"M_ME_NC_1", "M_SP_TB_1"} :
       sending' = [sending EXCEPT !["periodic"] =
                     SelectSeq(Configured(PeriodicOrder), LAMBDA t : t \in due)]
  /\ UNCHANGED <<configured, image, lastOffline, clock, open, todo, resetting, asking, serving,
                 copied, picture, behind, outdated>>

\* A round of SendIntegratedTotalsPeriodic, in second 1 of a minute; it does not look at
\* running.
StartTotalsRound ==
  /\ open /\ sending["totals"] = <<>> /\ OfType("M_IT_TB_1") # {}
  /\ sending' = [sending EXCEPT !["totals"] = <<"M_IT_TB_1">>]
  /\ UNCHANGED <<configured, image, lastOffline, clock, open, todo, resetting, asking, serving,
                 copied, picture, behind, outdated>>

\* One ASDU for all points of a type, as far as they go into it, built under the mutex.
CopyValues(s) ==
  /\ sending[s] # <<>> /\ copied[s] = NoValues
  /\ \E points \in (SUBSET OfType(Head(sending[s]))) \ {{}} :
       copied' = [copied EXCEPT ![s] = [p \in points |-> image[p]]]
  /\ outdated' = [outdated EXCEPT ![s] = {}]
  /\ UNCHANGED <<configured, image, lastOffline, clock, open, todo, resetting, asking, serving,
                 sending, picture, behind>>

\* It is enqueued after the release, whatever was stored and announced in between.
EnqueueCopied(s) ==
  /\ copied[s] # NoValues
  /\ picture' = [p \in Points |-> IF p \in DOMAIN copied[s] THEN copied[s][p] ELSE picture[p]]
  /\ behind' = (behind \ DOMAIN copied[s]) \cup outdated[s]
  /\ copied' = [copied EXCEPT ![s] = NoValues]
  /\ sending' = [sending EXCEPT ![s] = Tail(@)]
  /\ outdated' = [outdated EXCEPT ![s] = {}]
  /\ UNCHANGED <<configured, image, lastOffline, clock, open, todo, resetting, asking, serving>>

-----------------------------------------------------------------------------
MasterConnects == ~open /\ open' = TRUE
           /\ UNCHANGED <<configured, image, lastOffline, clock, todo, resetting, asking,
                          serving, senderVars, picture, behind, outdated>>
\* The handlers run in the connection's thread, which ends after them.
Disconnect == open /\ resetting = <<>> /\ asking = <<>> /\ open' = FALSE
              /\ UNCHANGED <<configured, image, lastOffline, clock, todo, resetting, asking,
                             serving, senderVars, picture, behind, outdated>>
Tick == clock < MaxClock /\ clock' = clock + 1
        /\ UNCHANGED <<configured, image, lastOffline, open, todo, resetting, asking, serving,
                       senderVars, picture, behind, outdated>>

MonolithNext ==
  \/ \E p \in configured, v \in Readings, q \in Qualities :
       \/ UpdatePlain(p, [value |-> v, quality |-> q])
       \/ UpdateShort(p, [value |-> v, quality |-> q])
  \/ \E p \in configured, v \in Readings : UpdateCounter(p, v)
  \/ Announce \/ Shutdown
  \/ StartReset \/ ResetType \/ StartInterrogation \/ AnswerType
  \/ StartPeriodicRound \/ StartTotalsRound
  \/ \E s \in Senders : CopyValues(s) \/ EnqueueCopied(s)
  \/ MasterConnects \/ Disconnect \/ Tick
MonolithSpec == MonolithInit /\ [][MonolithNext]_monolithVars

-----------------------------------------------------------------------------
\* What was last sent or enqueued of a point is its value and quality in the image (a
\* short float may be off by less than its deadband, because a change of the quality
\* sends a value that is not stored), whatever the order of updates, answers, periodic
\* transmissions, connects and disconnects.  Until its next transmission a point is
\* excepted (behind) while its change is not announced yet, and after one that came with no
\* client and within the offline time, or whose client left between the two looks; after a
\* reset and a new count, neither of which is announced; and after a periodic ASDU that was
\* built before a change and enqueued after it, so that the old value is sent last.
PictureFollows ==
  \A p \in Points \ behind :
    /\ picture[p].quality = image[p].quality
    /\ \/ picture[p].value = image[p].value
       \/ TypeOf[p] = "M_ME_NC_1" /\ ~LeavesDeadband(image[p].value, picture[p].value)
=============================================================================
