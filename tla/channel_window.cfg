CONSTANTS
  MaxConn = 1
  K = 3
  SeqMod = 4
  Cap = 3
  PrioCap = 2
  MaxId = 5
SPECIFICATION Spec
INVARIANTS
  WindowConsistent
  LegalAckAccepted
  SentInOrder
