CONSTANTS
  MaxConn = 2
  K = 1
  SeqMod = 2
  Cap = 2
  PrioCap = 1
  MaxId = 3
SPECIFICATION Spec
VIEW ChannelView
INVARIANT
  ConfirmedLeavesQueue
