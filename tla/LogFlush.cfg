SPECIFICATION FairSpec
CONSTANTS
  Capacity = 2
  Files = {f1}
  NoFile = NoFile
  MaxMessages = 3
CHECK_DEADLOCK FALSE
PROPERTY FlushReturns
