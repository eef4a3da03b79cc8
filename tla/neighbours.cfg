SPECIFICATION Spec
CONSTANTS
  Bad = Bad
  Idents <- MCIdents
  Devices <- MCDevices
  Elements <- ListElements
  MaxDevices = 1
  MaxElements = 1
  Size = 10
  Memories <- MCMemories
  Inputs <- MCInputs
INVARIANT EncodesOnlyItsBits
CHECK_DEADLOCK FALSE
