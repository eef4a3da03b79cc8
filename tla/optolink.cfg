CONSTANTS
  Ids = {i1}
  NoId = NoId
  Issued <- Ops
  MaxFail = 1
  CanP300 = {TRUE}
  MaxWire = 3
  Units = 3
SPECIFICATION LinkFairSpec
INVARIANTS LinkTypeOK AnswerInStep
PROPERTIES ResetFollows
