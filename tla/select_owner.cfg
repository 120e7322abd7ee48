CONSTANTS
  Connection = {c1, c2}
  Ioa = {a1, a2}
  MaxEntries = 2
  Timeout = 1
  MaxSelects = 2
  NoIoa = NoIoa
  Free = Free
SPECIFICATION Spec
SYMMETRY Symmetry
INVARIANT
  OperatorHasSelected
