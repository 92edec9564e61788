SPECIFICATION FairSpec
CONSTANTS
  h1 = h1
  h2 = h2
  Main = Main
  Http <- TwoThreads
  MaxRequests = 2
  IdleSleep = TRUE
  PromptWakeups = TRUE
  SpuriousWakeups = TRUE
  Shutdowns = TRUE
CHECK_DEADLOCK FALSE
INVARIANTS
  TypeOK
  SleepsOnlyWhenDrained
  NoWaiterLeftBehind
PROPERTIES
  WaitersReturn
