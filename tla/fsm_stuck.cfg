CONSTANTS
  Ids = {i1}
  NoId = NoId
  Issued <- AnyCommand
  MaxFail = 4
  CanP300 = {TRUE}
SPECIFICATION FairSpec
PROPERTIES CallReturns
