CONSTANTS
  MaxConn = 2
  K = 1
  SeqMod = 2
  Cap = 1
  PrioCap = 1
  MaxId = 2
SPECIFICATION Spec
INVARIANT
  SingleActive
