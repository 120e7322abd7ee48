CONSTANTS
  single = single
  float = float
  Ioa <- Points
  TypeOf <- ObjectType
  Value <- ObjectValue
  Quality = {"good"}
  Deadband = 10
  Period = 1
  Enabled = {"M_ME_NC_1"}
  Cap = 2
  NoData = NoData
SPECIFICATION Spec
INVARIANT InvalidUntilData
