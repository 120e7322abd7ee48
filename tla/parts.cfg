SPECIFICATION PartsSpec
CONSTANTS
  MaxConnections = 2
  MaxClients = 2
  MaxSessions = 3
  BufferSize = 6
  EntrySizes = {1, 3}
  MaxEntries = 4
  MaxSizeOfASDU = 150
  SizeOfCOT = 2
  SizeOfCA = 2
  SizeOfIOA = 3
  Stations <- MCStations
  Points = {"sp", "nc", "it", "td"}
  Configurations = {{}, {"sp", "it"}, {"nc"}, {"td"}}
  TypeOf <- MCTypeOf
  Readings = {10, 11}
  Qualities = {"good"}
  Deadband = 20
  OfflineTime = 1
  MaxClock = 2
  CounterRange = 11
  Masters = {"m1", "m2"}
  Commanded = {1, 2}
  SelectEntries = 2
  SelectTimeout = 1
  MaxTicks = 1
  MaxCommands104 = 4
  MaxMessages = 3
  MaxRepeats = 1
  MaxLosses = 1
  MaxEarly = 1
  MaxForeign = 1
  Slaves <- MCSlaves
  Present = {1}
  Used = {1}
  SingleCharACK = TRUE
  MaxCommands = 2
  MaxRequests = 1
  MaxData = 1
  MaxPollRepeats = 1
  MaxPollFaults = 1
  MaxPollForeign = 1
  ClientK = 2
  ClientW = 2
  SequenceRange = 4
  MaxConnects = 1
  MaxClientSends = 4
  MaxServerSends = 1
  MaxTcpClients = 2
  MaxFaults = 2
  MaxUpdates = 1
  MaxOpened = 3
  FileMasters = {"a", "b"}
  FileContent <- MCContent
  SegmentSize = 1
  Years = {2000, 2001, 2023, 2024, 2099}
  Months = {1, 2, 3, 12}
  Days = {1, 28, 29, 31}
  Values <- MCValues
  DayTimes <- MCDayTimes
  QueueSizes <- MCQueueSizes
  MaxEnqueued = 4
  PrioSize = 6
  PrioEntries = {1, 3}
  MaxAnswers = 6
  T1 = 2
  T2 = 1
  T3 = 1
  TimersK = 1
  TimersW = 3
  Jumps <- MCJumps
  MaxJumps = 1
INVARIANTS
  CountSeen ListMatches NoUseAfterFree NoCircularWait
  EntriesIntact
  CodecAgrees
  OnlyCountLoses AnsweredAsFits
  PictureFollows ExecutionUsesSelection
  LinkDelivers PollsDeliver
  NumbersAgree
  DescriptorsKept
  ChecksumsTrue FieldsIndependent
  AnsweredOnce QueueKeepsNewest AnswersWhole
  TimersKept
PROPERTIES
  RingIsFifo
  ShutdownEnds LinkComesBack NobodyStarves CallsReturn ModbusComesUp
CHECK_DEADLOCK FALSE
