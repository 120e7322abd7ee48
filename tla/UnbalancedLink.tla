--------------------------- MODULE UnbalancedLink ---------------------------
(***************************************************************************)
(* The unbalanced link layer of link_layer.c: one primary that polls the   *)
(* slaves on a line one after the other (LinkLayerPrimaryUnbalanced with a *)
(* LinkLayerSlaveConnection each) and their secondaries                    *)
(* (LinkLayerSecondaryUnbalanced).  The state that is only reported to the  *)
(* applications (LL_STATE_...) and broadcasts are left out.                *)
(***************************************************************************)
EXTENDS Integers, Sequences

CONSTANTS
  Slaves,          \* sequence: the slave connections, in the order they were added
  Present,         \* the slaves that answer
  Used,            \* the slaves the application makes calls for
  SingleCharACK,   \* linkLayerParameters->useSingleCharACK
  MaxCommands,     \* messages the application sends to a slave
  MaxRequests,     \* its other calls: requests for class 2 data, tests of a link
  MaxData,         \* user data a slave has of each class
  MaxPollRepeats,  \* repetitions within timeoutRepeat
  MaxPollFaults,   \* frames lost, time-outs before an answer, answering of another make
  MaxPollForeign

ASSUME PollAssumption ==
  /\ Slaves \in Seq(Nat \ {0}) /\ Slaves # <<>>   \* 0 is no slave
  /\ Present \cup Used \subseteq {Slaves[k] : k \in DOMAIN Slaves}
  /\ SingleCharACK \in BOOLEAN
  /\ {MaxCommands, MaxRequests, MaxData, MaxPollRepeats, MaxPollFaults,
      MaxPollForeign} \subseteq Nat

Addresses == {Slaves[k] : k \in DOMAIN Slaves}

VARIABLES
  connection,     \* [Addresses -> LinkLayerSlaveConnection]
  currentSlave,   \* 0: NULL
  currentIndex,   \* currentSlaveIndex, from 1
  slaveFcb,       \* [Addresses -> BOOLEAN], of the secondaries
  nextCommand,    \* [Addresses -> number of the next message of the application]
  requests,       \* how many other calls there were
  nextData,       \* [Addresses -> [1 .. 2 -> number of the next user data of the class]]
  polls, answering,  \* frames on the line
  pollFaults,     \* [all, late, foreign]: how many there were, of answers that came too
                  \* late and from slaves of another make
  commanded,      \* history: [Addresses -> messages its application got, each once
                  \*           however often it came in a row]
  confirmedTo,    \* history: [Addresses -> messages taken as confirmed]
  gathered        \* history: [Addresses -> [1 .. 2 -> user data the master got]]
applicationVars == <<nextCommand, requests, confirmedTo, gathered>>
slaveVars == <<slaveFcb, nextData, commanded>>
pollVars == <<connection, currentSlave, currentIndex, polls, answering, pollFaults,
              applicationVars, slaveVars>>

\* LinkLayerSlaveConnection_create, LinkLayerSecondaryUnbalanced_create.
PollInit ==
  /\ connection = [s \in Addresses |->
       [pll |-> "idle", waiting |-> FALSE, message |-> 0, test |-> FALSE,
        class1 |-> FALSE, class2 |-> FALSE, fcb |-> TRUE, repeats |-> 0]]
  /\ currentSlave = 0 /\ currentIndex = 1
  /\ slaveFcb = [s \in Addresses |-> TRUE]
  /\ nextCommand = [s \in Addresses |-> 1]
  /\ requests = 0
  /\ nextData = [s \in Addresses |-> <<1, 1>>]
  /\ polls = <<>> /\ answering = <<>>
  /\ pollFaults = [all |-> 0, late |-> 0, foreign |-> 0]
  /\ commanded = [s \in Addresses |-> <<>>] /\ confirmedTo = [s \in Addresses |-> {}]
  /\ gathered = [s \in Addresses |-> <<<<>>, <<>>>>]

\* class is that of the user data asked for or given, 0 when there is none.
PollFrame(s, fc, fcv, fcb, message, class) ==
  [to |-> s, fc |-> fc, fcv |-> fcv, fcb |-> fcb, message |-> message, class |-> class]
Reply(s, fc, acd) ==
  [from |-> s, fc |-> fc, acd |-> acd, dfc |-> FALSE, data |-> 0, class |-> 0]

-----------------------------------------------------------------------------
\* The application's calls: sendConfirmed, requestClass2Data, sendLinkLayerTestFunction.
SendConfirmed(s) ==
  /\ connection[s].message = 0 /\ nextCommand[s] <= MaxCommands
  /\ connection' = [connection EXCEPT ![s].message = nextCommand[s]]
  /\ nextCommand' = [nextCommand EXCEPT ![s] = @ + 1]
  /\ UNCHANGED <<currentSlave, currentIndex, polls, answering, pollFaults, requests, confirmedTo,
                 gathered, slaveVars>>
RequestClass2(s) ==
  /\ ~connection[s].class2 /\ requests < MaxRequests
  /\ connection' = [connection EXCEPT ![s].class2 = TRUE]
  /\ requests' = requests + 1
  /\ UNCHANGED <<currentSlave, currentIndex, polls, answering, pollFaults, nextCommand, confirmedTo,
                 gathered, slaveVars>>

TestLink(s) ==
  /\ ~connection[s].test /\ requests < MaxRequests
  /\ connection' = [connection EXCEPT ![s].test = TRUE]
  /\ requests' = requests + 1
  /\ UNCHANGED <<currentSlave, currentIndex, polls, answering, pollFaults, nextCommand, confirmedTo,
                 gathered, slaveVars>>

\* LinkLayerPrimaryUnbalanced_runStateMachine takes the next slave in turn when it does
\* not wait for the current one.
Scheduled ==
  IF currentSlave # 0 /\ connection[currentSlave].waiting THEN currentSlave
  ELSE Slaves[currentIndex]
Schedule ==
  /\ currentSlave' = Scheduled
  /\ currentIndex' = IF currentSlave # 0 /\ connection[currentSlave].waiting
                       THEN currentIndex ELSE (currentIndex % Len(Slaves)) + 1

AnsweredInTime ==
  IF polls = <<>> /\ answering = <<>> THEN pollFaults' = pollFaults
  ELSE /\ pollFaults.all < MaxPollFaults
       /\ pollFaults' = [pollFaults EXCEPT !.all = @ + 1, !.late = @ + 1]

PollStep(c, frame) ==
  /\ connection' = [connection EXCEPT ![Scheduled] = c]
  /\ polls' = Append(polls, frame)
Set(c) == connection' = [connection EXCEPT ![Scheduled] = c] /\ UNCHANGED polls

\* LinkLayerSlaveConnection_runStateMachine for the scheduled slave, by its state.
RunIdleSlave(s, c) ==
  /\ c.pll = "idle"
  /\ PollStep([c EXCEPT !.pll = "requestStatus", !.test = FALSE, !.waiting = TRUE],
          PollFrame(s, "requestStatus", FALSE, FALSE, 0, 0))
  /\ UNCHANGED pollFaults
RunTimedOutSlave(s, c) ==   \* timeoutLinkState has passed, or not yet
  /\ c.pll = "timeout"
  /\ \/ Set([c EXCEPT !.pll = "idle"])
     \/ Set(c)
  /\ UNCHANGED pollFaults
\* Mutant of RunConnectingSlave: after a time-out an answer is still waited for.
RunConnectingSlaveWaiting(s, c) ==
  /\ c.pll \in {"requestStatus", "resetLink"}
  /\ IF c.waiting
       THEN AnsweredInTime /\ Set([c EXCEPT !.pll = "timeout"])
     ELSE IF c.pll = "requestStatus"
       THEN /\ PollStep([c EXCEPT !.pll = "resetLink", !.waiting = TRUE, !.fcb = TRUE],
                    PollFrame(s, "resetLink", FALSE, FALSE, 0, 0))
            /\ UNCHANGED pollFaults
     ELSE Set([c EXCEPT !.pll = "available"]) /\ UNCHANGED pollFaults
RunConnectingSlave(s, c) ==
  /\ c.pll \in {"requestStatus", "resetLink"}
  /\ IF c.waiting
       THEN AnsweredInTime /\ Set([c EXCEPT !.pll = "timeout", !.waiting = FALSE])
     ELSE IF c.pll = "requestStatus"
       THEN /\ PollStep([c EXCEPT !.pll = "resetLink", !.waiting = TRUE, !.fcb = TRUE],
                    PollFrame(s, "resetLink", FALSE, FALSE, 0, 0))
            /\ UNCHANGED pollFaults
     ELSE Set([c EXCEPT !.pll = "available"]) /\ UNCHANGED pollFaults
RunAvailableSlave(s, c) ==
  LET sent == [c EXCEPT !.fcb = ~@, !.repeats = 0, !.waiting = TRUE] IN
  /\ c.pll = "available"
  /\ IF c.test
       THEN PollStep([sent EXCEPT !.pll = "requestRespond"],
                 PollFrame(s, "test", TRUE, c.fcb, 0, 0))
     ELSE IF c.message # 0
       THEN PollStep([sent EXCEPT !.pll = "sendConfirm"],
                 PollFrame(s, "userData", TRUE, c.fcb, c.message, 0))
     ELSE IF c.class1
       THEN PollStep([sent EXCEPT !.pll = "requestRespond", !.class1 = FALSE],
                 PollFrame(s, "requestData", TRUE, c.fcb, 0, 1))
     ELSE IF c.class2
       THEN PollStep([sent EXCEPT !.pll = "requestRespond", !.class2 = FALSE],
                 PollFrame(s, "requestData", TRUE, c.fcb, 0, 2))
     ELSE Set(c)
  /\ UNCHANGED pollFaults
\* A repeated request is for class 2 unless new class 1 data was announced meanwhile.
RunWaitingSlave(s, c) ==
  /\ c.pll \in {"sendConfirm", "requestRespond"}
  /\ AnsweredInTime
  /\ IF c.repeats < MaxPollRepeats
       THEN PollStep([c EXCEPT !.repeats = @ + 1],
                 IF c.pll = "sendConfirm"
                   THEN PollFrame(s, IF c.test THEN "test" ELSE "userData", TRUE, ~c.fcb,
                                  IF c.test THEN 0 ELSE c.message, 0)
                 ELSE PollFrame(s, "requestData", TRUE, ~c.fcb, 0, IF c.class1 THEN 1 ELSE 2))
     ELSE IF c.pll = "sendConfirm"
       THEN Set([c EXCEPT !.pll = "timeout", !.waiting = FALSE])
     ELSE Set([c EXCEPT !.pll = "idle", !.class1 = FALSE, !.class2 = FALSE])
RunBusySlave(s, c) == c.pll = "busy" /\ Set(c) /\ UNCHANGED pollFaults

RunPolling ==
  /\ LET s == Scheduled
         c == connection[s]
     IN RunIdleSlave(s, c) \/ RunTimedOutSlave(s, c) \/ RunConnectingSlave(s, c)
        \/ RunAvailableSlave(s, c) \/ RunWaitingSlave(s, c) \/ RunBusySlave(s, c)
  /\ Schedule
  /\ UNCHANGED <<answering, applicationVars, slaveVars>>

-----------------------------------------------------------------------------
\* LinkLayerSlaveConnection_HandleMessage: the connection after an answer.
AfterBusy(c) ==
  [c EXCEPT !.pll = CASE @ \in {"requestStatus", "resetLink"} -> "requestStatus"
              [] @ \in {"sendConfirm", "busy"} -> "busy"
              [] OTHER -> @]
AfterAck(c) ==
  LET done == [c EXCEPT !.waiting = FALSE] IN
  IF c.pll \in {"resetLink", "requestRespond", "sendConfirm"}
    THEN [done EXCEPT !.pll = "available",
                      !.message = IF c.pll = "sendConfirm" /\ ~c.test THEN 0 ELSE @,
                      !.test = @ /\ c.pll # "sendConfirm"]
    ELSE done
AfterNack(c) ==
  IF c.pll = "sendConfirm" THEN [c EXCEPT !.waiting = FALSE, !.pll = "busy"]
  ELSE [c EXCEPT !.waiting = FALSE]
AfterStatus(c) ==
  IF c.pll = "requestStatus"
    THEN [c EXCEPT !.pll = "resetLink", !.waiting = TRUE]
    ELSE [c EXCEPT !.pll = "idle"]
AfterData(c, isData) ==
  LET done == [c EXCEPT !.waiting = FALSE] IN
  IF c.pll = "requestRespond"
    THEN [done EXCEPT !.pll = "available",
                      !.class1 = @ /\ ~isData, !.class2 = @ /\ ~isData]
    ELSE [done EXCEPT !.pll = "idle"]
AfterNotImplemented(c) ==
  IF c.pll = "sendConfirm"
    THEN [c EXCEPT !.waiting = FALSE, !.pll = "available"]
    ELSE [c EXCEPT !.waiting = FALSE]

\* The answer a to the connection c: one of a busy slave, another, which may announce data.
AfterAnswer(a, c) ==
  LET announced == [c EXCEPT !.class1 = @ \/ a.acd] IN
  IF a.dfc THEN AfterBusy(c)
  ELSE CASE a.fc \in {"ack", "single"}  -> AfterAck(announced)
         [] a.fc = "nack"               -> AfterNack(announced)
         [] a.fc = "status"             -> AfterStatus(announced)
         [] a.fc \in {"data", "noData"} -> AfterData(announced, a.fc = "data")
         [] a.fc = "notImplemented"     -> AfterNotImplemented(announced)

\* A single character has no address and counts for the current slave.
PrimaryHears ==
  /\ answering # <<>> /\ answering' = Tail(answering)
  /\ LET a == Head(answering)
         s == IF a.fc = "single" THEN currentSlave ELSE a.from
     IN IF s = 0 THEN UNCHANGED <<connection, polls, confirmedTo, gathered>>
        ELSE
        /\ connection' = [connection EXCEPT ![s] = AfterAnswer(a, connection[s])]
        /\ polls' = IF ~a.dfc /\ a.fc = "status" /\ connection[s].pll = "requestStatus"
                      THEN Append(polls, PollFrame(s, "resetLink", FALSE, FALSE, 0, 0))
                      ELSE polls
        /\ confirmedTo' =
             IF ~a.dfc /\ a.fc \in {"ack", "single"} /\ connection[s].pll = "sendConfirm"
               THEN [confirmedTo EXCEPT ![s] = @ \cup {connection[s].message}]
               ELSE confirmedTo
        /\ gathered' =
             IF ~a.dfc /\ a.fc = "data" /\ a.data # 0 /\ connection[s].pll = "requestRespond"
               THEN [gathered EXCEPT ![s][a.class] = Append(@, a.data)] ELSE gathered
  /\ UNCHANGED <<currentSlave, currentIndex, pollFaults, nextCommand, requests, slaveVars>>

-----------------------------------------------------------------------------
\* given is the numbers of the next user data of a slave.
HasData(given, class) == given[class] <= MaxData
Acknowledge(s, acd) ==
  IF SingleCharACK /\ ~acd THEN Reply(s, "single", FALSE) ELSE Reply(s, "ack", acd)

\* The answer to a frame; data is the user data it asks for, 0 when there is none.
ResponseTo(f, data, acd) ==
  CASE f.fc = "test"          -> Reply(f.to, "notImplemented", FALSE)
    [] f.fc = "requestStatus" -> Reply(f.to, "status", acd)
    [] f.fc = "resetLink"     -> Acknowledge(f.to, FALSE)
    [] f.fc = "userData"      -> Acknowledge(f.to, acd)
    [] f.fc = "requestData"   ->
         IF data # 0
           THEN [Reply(f.to, "data", acd) EXCEPT !.data = data, !.class = f.class]
         ELSE IF SingleCharACK /\ ~acd THEN Reply(f.to, "single", FALSE)
         ELSE Reply(f.to, "noData", acd)

\* Mutant of SecondaryHears: without class 1 data the single character answers every frame.
SecondarySaysSingle ==
  /\ polls # <<>> /\ polls' = Tail(polls)
  /\ LET f == Head(polls)
         s == f.to
         valid == s \in Present /\ (f.fcv => f.fcb = slaveFcb[s])
         hasData == f.fc = "requestData" /\ HasData(nextData[s], f.class)
         acd == HasData(nextData'[s], 1)
     IN
     /\ slaveFcb' = [slaveFcb EXCEPT ![s] =
                          IF s \in Present /\ f.fc = "resetLink" THEN TRUE
                          ELSE IF valid /\ f.fcv THEN ~@ ELSE @]
     /\ nextData' = IF valid /\ hasData THEN [nextData EXCEPT ![s][f.class] = @ + 1]
                    ELSE nextData
     /\ answering' =
          IF ~valid THEN answering
          ELSE Append(answering, IF f.fc = "requestStatus" THEN Reply(s, "status", acd)
                                 ELSE Acknowledge(s, acd))
  /\ UNCHANGED <<connection, currentSlave, currentIndex, pollFaults, applicationVars, commanded>>

\* LinkLayerSecondaryUnbalanced_handleMessage.  A frame with the other frame count bit
\* gets no answer; the response to the frame it repeats is not sent again.
SecondaryHears ==
  /\ polls # <<>> /\ polls' = Tail(polls)
  /\ LET f == Head(polls)
         s == f.to
         valid == s \in Present /\ (f.fcv => f.fcb = slaveFcb[s])
         hasData == f.fc = "requestData" /\ HasData(nextData[s], f.class)
     IN
     /\ slaveFcb' = [slaveFcb EXCEPT ![s] =
                          IF s \in Present /\ f.fc = "resetLink" THEN TRUE
                          ELSE IF valid /\ f.fcv THEN ~@ ELSE @]
     /\ commanded' =
          IF valid /\ f.fc = "userData"
             /\ (commanded[s] = <<>> \/ commanded[s][Len(commanded[s])] # f.message)
            THEN [commanded EXCEPT ![s] = Append(@, f.message)] ELSE commanded
     /\ nextData' = IF valid /\ hasData THEN [nextData EXCEPT ![s][f.class] = @ + 1]
                    ELSE nextData
     /\ answering' =
          IF ~valid THEN answering
          ELSE Append(answering, ResponseTo(f, IF hasData THEN nextData[s][f.class] ELSE 0,
                                            HasData(nextData'[s], 1)))
  /\ UNCHANGED <<connection, currentSlave, currentIndex, pollFaults, applicationVars>>

\* A slave of another make answering a poll with a NACK, or that it is busy, or cannot.
ForeignReplies(s) ==
  {Reply(s, "nack", FALSE), Reply(s, "notImplemented", FALSE),
   [Reply(s, "ack", FALSE) EXCEPT !.dfc = TRUE]}
ForeignReply ==
  /\ polls # <<>> /\ Head(polls).to \in Present
  /\ pollFaults.all < MaxPollFaults /\ pollFaults.foreign < MaxPollForeign
  /\ polls' = Tail(polls)
  /\ pollFaults' = [pollFaults EXCEPT !.all = @ + 1, !.foreign = @ + 1]
  /\ \E a \in ForeignReplies(Head(polls).to) : answering' = Append(answering, a)
  /\ UNCHANGED <<connection, currentSlave, currentIndex, applicationVars, slaveVars>>

LosePollFrame ==
  /\ pollFaults.all < MaxPollFaults
  /\ pollFaults' = [pollFaults EXCEPT !.all = @ + 1]
  /\ \/ polls # <<>> /\ polls' = Tail(polls) /\ UNCHANGED answering
     \/ answering # <<>> /\ answering' = Tail(answering) /\ UNCHANGED polls
  /\ UNCHANGED <<connection, currentSlave, currentIndex, applicationVars, slaveVars>>

PollNext ==
  \/ \E s \in Used : SendConfirmed(s) \/ RequestClass2(s) \/ TestLink(s)
  \/ RunPolling \/ PrimaryHears \/ SecondaryHears \/ ForeignReply \/ LosePollFrame
\* LinkLayerPrimaryUnbalanced_run and LinkLayerSecondaryUnbalanced_run, over and over.
PollFairness ==
  WF_pollVars(RunPolling) /\ WF_pollVars(PrimaryHears) /\ WF_pollVars(SecondaryHears)
PollSpec == PollInit /\ [][PollNext]_pollVars /\ PollFairness

-----------------------------------------------------------------------------
Rising(q) == \A j, k \in DOMAIN q : j < k => q[j] < q[k]

\* User data given to the line and not yet with the master.
OnTheLine(s, class) ==
  {answering[k].data : k \in {j \in DOMAIN answering : /\ answering[j].from = s
                                                      /\ answering[j].fc = "data"
                                                      /\ answering[j].class = class}}

\* The master's application gets the user data of each class of a slave in order and never
\* one twice, whatever is lost, late, repeated or taken up with another slave; and all that
\* the slave has given when no fault occurred.
GatheredOnce ==
  \A s \in Addresses, class \in 1 .. 2 :
    /\ Rising(gathered[s][class])
    /\ pollFaults.all = 0 =>
         /\ \A k \in DOMAIN gathered[s][class] : gathered[s][class][k] = k
         /\ OnTheLine(s, class) = Len(gathered[s][class]) + 1 .. nextData[s][class] - 1

\* What the master takes as confirmed was handed to the application of the slave it is
\* meant for, whatever is lost and repeated and however the polls of the slaves interleave,
\* as long as answers come in time: after a late one every later answer is taken for that to
\* the frame before.  A message may come more than once; not an older one after a newer.
CommandsArrive ==
  \A s \in Addresses :
    /\ Rising(commanded[s])
    /\ pollFaults.late = 0 /\ pollFaults.foreign = 0 =>
         \A m \in confirmedTo[s] : \E k \in DOMAIN commanded[s] : commanded[s][k] = m

\* The service of the polled line, in both directions.
PollsDeliver == GatheredOnce /\ CommandsArrive

\* A slave that does not answer does not keep the primary from the others, unless one says
\* that it is busy: then the primary waits for that one for ever.
EverySlavePolled ==
  \A s \in Addresses :
    []<>(currentSlave = s \/ \E b \in Addresses : connection[b].pll = "busy")
=============================================================================
