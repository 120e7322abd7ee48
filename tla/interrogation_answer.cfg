SPECIFICATION PackSpec
CONSTANTS
  MaxSizeOfASDU = 249
  SizeOfCOT = 2
  SizeOfCA = 2
  SizeOfIOA = 3
  Stations <- MCStations
INVARIANT InterrogationComplete
