SPECIFICATION FairSpec
CONSTANTS
  NThreads = 3
  Graphs <- SomeGraphs
  MaxGraphs = 2
  Callback = TRUE
  StartPaused = FALSE
  SpuriousWakeups = TRUE
CHECK_DEADLOCK FALSE
INVARIANTS
  TypeOK
  NoReaderBetweenGraphs
  OnlyTheTeamComputes
PROPERTIES
  ComputesInLockstep
  GraphReturns
  FreeReturns
  PauseRests
