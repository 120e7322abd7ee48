------------------------------- MODULE MCParts -------------------------------
(***************************************************************************)
(* The components that share no state with the others, checked side by     *)
(* side: part says which one a behaviour is about, and the rest rests.     *)
(***************************************************************************)
EXTENDS SlaveLifecycle, MessageRing, InformationObjects, MCAsduPacking, MonolithPacking,
        MonolithImage, MonolithCommands, BalancedLink, UnbalancedLink, Cs104Client, ModbusServer,
        FileServer, EncodedTypes, SlaveRequests, HighPrioQueue, ConnectionTimers

VARIABLE part

Parts == {"life", "ring", "asdu", "packing", "monolith packing", "image", "commands",
          "balanced", "unbalanced", "client", "modbus",
          "files", "encoded", "requests", "high prio", "timers"}

MCTypeOf == [p \in Points |-> CASE p = "sp" -> "M_SP_TB_1" [] p = "nc" -> "M_ME_NC_1"
                                [] p = "td" -> "M_ME_TD_1" [] OTHER -> "M_IT_TB_1"]
MCSlaves == <<1, 2>>
MCContent == <<<<128, 128>>, <<128>>>>
\* The greatest value that fits and one that does not, which is read as zero but for a second
\* or a millisecond.
MCValues == [field \in {"elapsed"} \cup Fields56 \cup FieldsBCR |->
  CASE field = "elapsed"                 -> {255, 256, 65535, 65536}
    [] field = "millisecond"             -> {0, 999, 24123}
    [] field = "second"                  -> {0, 59, 66}
    [] field = "minute"                  -> {59, 64}
    [] field = "hour"                    -> {23, 32}
    [] field = "dayOfWeek"               -> {7, 8}
    [] field = "dayOfMonth"              -> {31, 32}
    [] field = "month"                   -> {12, 16}
    [] field = "year"                    -> {100, 2024}
    [] field = "value"                   -> {-2147483647 - 1, -1, 0, 65536, 2147483647}
    [] field = "sequenceNumber"          -> {31, 32}
    [] OTHER                             -> {0, 1}]
MCDayTimes == {<<0, 0, 0, 0>>, <<23, 59, 59, 999>>}
MCQueueSizes == <<2, 1>>
MCJumps == {-1, 1}
AnyStation == CHOOSE s \in Stations : TRUE

\* What an initial state chooses is chosen for the part that runs.
PartsInit ==
  /\ part \in Parts
  /\ LifeInit /\ RingInit
  /\ AsduInit /\ (part = "asdu" \/ (vsq = 0 /\ stride = 1))
  /\ PackInit /\ (part \in {"packing", "monolith packing"} \/ station = AnyStation)
  /\ MonolithInit /\ (part = "image" \/ configured = {})
  /\ CommandsInit /\ (part = "commands" \/ command_mode = "sbo")
  /\ LinkInit /\ PollInit /\ ClientInit
  /\ ModbusInit /\ (part = "modbus" \/ enabled = {"tcp"})
  /\ FileInit
  /\ EncodedInit /\ (part = "encoded" \/ kind = "CP16")
  /\ RequestsInit /\ (part = "requests" \/ (stack = "cs101" /\ installed = {"asdu"}))
  /\ PrioInit /\ TimersInit

PartsNext ==
  \/ /\ part = "life" /\ LifeNext
     /\ UNCHANGED <<ringVars, asduVars, packVars, monolithVars, commandVars, linkVars, pollVars,
                     clientVars, modbusVars, fileVars, encodedVars, requestVars, prioVars,
                     timerVars, part>>
  \/ /\ part = "ring" /\ RingNext
     /\ UNCHANGED <<lifeVars, asduVars, packVars, monolithVars, commandVars, linkVars, pollVars,
                     clientVars, modbusVars, fileVars, encodedVars, requestVars, prioVars,
                     timerVars, part>>
  \/ /\ part = "asdu" /\ AsduNext
     /\ UNCHANGED <<lifeVars, ringVars, packVars, monolithVars, commandVars, linkVars, pollVars,
                     clientVars, modbusVars, fileVars, encodedVars, requestVars, prioVars,
                     timerVars, part>>
  \/ /\ part = "packing" /\ PackNext
     /\ UNCHANGED <<lifeVars, ringVars, asduVars, monolithVars, commandVars, linkVars, pollVars,
                     clientVars, modbusVars, fileVars, encodedVars, requestVars, prioVars,
                     timerVars, part>>
  \/ /\ part = "monolith packing" /\ MonolithPackNext
     /\ UNCHANGED <<lifeVars, ringVars, asduVars, monolithVars, commandVars, linkVars, pollVars,
                     clientVars, modbusVars, fileVars, encodedVars, requestVars, prioVars,
                     timerVars, part>>
  \/ /\ part = "image" /\ MonolithNext
     /\ UNCHANGED <<lifeVars, ringVars, asduVars, packVars, commandVars, linkVars, pollVars,
                     clientVars, modbusVars, fileVars, encodedVars, requestVars, prioVars,
                     timerVars, part>>
  \/ /\ part = "commands" /\ CommandsNext
     /\ UNCHANGED <<lifeVars, ringVars, asduVars, packVars, monolithVars, linkVars, pollVars,
                     clientVars, modbusVars, fileVars, encodedVars, requestVars, prioVars,
                     timerVars, part>>
  \/ /\ part = "balanced" /\ LinkNext
     /\ UNCHANGED <<lifeVars, ringVars, asduVars, packVars, monolithVars, commandVars, pollVars,
                     clientVars, modbusVars, fileVars, encodedVars, requestVars, prioVars,
                     timerVars, part>>
  \/ /\ part = "unbalanced" /\ PollNext
     /\ UNCHANGED <<lifeVars, ringVars, asduVars, packVars, monolithVars, commandVars, linkVars,
                     clientVars, modbusVars, fileVars, encodedVars, requestVars, prioVars,
                     timerVars, part>>
  \/ /\ part = "client" /\ ClientNext
     /\ UNCHANGED <<lifeVars, ringVars, asduVars, packVars, monolithVars, commandVars, linkVars,
                     pollVars, modbusVars, fileVars, encodedVars, requestVars, prioVars,
                     timerVars, part>>
  \/ /\ part = "modbus" /\ ModbusNext
     /\ UNCHANGED <<lifeVars, ringVars, asduVars, packVars, monolithVars, commandVars, linkVars,
                     pollVars, clientVars, fileVars, encodedVars, requestVars, prioVars,
                     timerVars, part>>
  \/ /\ part = "files" /\ FileNext
     /\ UNCHANGED <<lifeVars, ringVars, asduVars, packVars, monolithVars, commandVars, linkVars,
                     pollVars, clientVars, modbusVars, encodedVars, requestVars, prioVars,
                     timerVars, part>>
  \/ /\ part = "encoded" /\ EncodedNext
     /\ UNCHANGED <<lifeVars, ringVars, asduVars, packVars, monolithVars, commandVars, linkVars,
                     pollVars, clientVars, modbusVars, fileVars, requestVars, prioVars, timerVars,
                     part>>
  \/ /\ part = "requests" /\ RequestsNext
     /\ UNCHANGED <<lifeVars, ringVars, asduVars, packVars, monolithVars, commandVars, linkVars,
                     pollVars, clientVars, modbusVars, fileVars, encodedVars, prioVars, timerVars,
                     part>>
  \/ /\ part = "high prio" /\ PrioNext
     /\ UNCHANGED <<lifeVars, ringVars, asduVars, packVars, monolithVars, commandVars, linkVars,
                     pollVars, clientVars, modbusVars, fileVars, encodedVars, requestVars,
                     timerVars, part>>
  \/ /\ part = "timers" /\ TimersNext
     /\ UNCHANGED <<lifeVars, ringVars, asduVars, packVars, monolithVars, commandVars, linkVars,
                     pollVars, clientVars, modbusVars, fileVars, encodedVars, requestVars,
                     prioVars, part>>

partsVars == <<part, lifeVars, ringVars, asduVars, packVars, monolithVars, commandVars, linkVars,
               pollVars, clientVars, modbusVars, fileVars, encodedVars, requestVars, prioVars,
               timerVars>>

PartsSpec ==
  /\ PartsInit /\ [][PartsNext]_partsVars
  /\ WF_lifeVars(part = "life" /\ Server)
  /\ WF_lifeVars(part = "life" /\ PeriodicRound) /\ WF_lifeVars(part = "life" /\ Main)
  /\ \A c \in Object : WF_lifeVars(part = "life" /\ Thread(c))
  /\ WF_linkVars(part = "balanced" /\ RunPrimary)
  /\ WF_linkVars(part = "balanced" /\ PrimaryReceives)
  /\ WF_linkVars(part = "balanced" /\ SecondaryReceives)
  /\ WF_pollVars(part = "unbalanced" /\ RunPolling)
  /\ WF_pollVars(part = "unbalanced" /\ PrimaryHears)
  /\ WF_pollVars(part = "unbalanced" /\ SecondaryHears)
  /\ WF_clientVars(part = "client" /\ CallerGoesOn)
  /\ WF_clientVars(part = "client" /\ HandlerGoesOn)
  /\ WF_modbusVars(part = "modbus" /\ ServerStep)

-----------------------------------------------------------------------------
\* The liveness properties of three parts, in the behaviours they are about.
\* BalancedLink: a link that is lost comes back.
LinkComesBack == LinkRecovers \/ []<>(part # "balanced")
\* UnbalancedLink: no slave is kept from the primary by another.
NobodyStarves == EverySlavePolled \/ []<>(part # "unbalanced")
\* ModbusServer: the server comes up, and ends when it is stopped.
ModbusComesUp == ComesUpAndStops \/ []<>(part # "modbus")
=============================================================================
