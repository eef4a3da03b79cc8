SPECIFICATION Spec
CONSTANTS
  Bad = Bad
  Idents <- MCIdents
  Devices <- MCDevices
  Elements <- MCElements
  MaxDevices = 3
  MaxElements = 2
  Size = 10
  Memories <- MCMemories
  Inputs <- MCInputs
INVARIANTS TypeOK NarrowestChosen NoNilCodec PanicsOnlyUnchecked RoundTrip NeighboursKept
CHECK_DEADLOCK FALSE
