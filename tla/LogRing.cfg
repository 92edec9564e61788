SPECIFICATION FairSpec
CONSTANTS
  Capacity = 2
  Files = {f1}
  NoFile = NoFile
  MaxMessages = 5
CHECK_DEADLOCK FALSE
INVARIANTS
  TypeOK
PROPERTIES
  NothingLostOrMoved
  AcceptedIsShown
  CallsReturn
