CONSTANTS
  Ids = {i1, i2}
  NoId = NoId
  Issued <- AnyCommand
  MaxFail = 4
  CanP300 = {TRUE, FALSE}
SPECIFICATION FairSpec
INVARIANTS TypeOK HeldIffWaiting ResultForAsker
PROPERTIES StaysP300 Implements FramedCallReturns ErrorEnds ResetsEnd
