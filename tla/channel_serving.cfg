CONSTANTS
  MaxConn = 2
  K = 1
  SeqMod = 2
  Cap = 2
  PrioCap = 0
  MaxId = 2
SPECIFICATION FairSpec
PROPERTY
  EventsDelivered
