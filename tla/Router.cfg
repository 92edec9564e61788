SPECIFICATION Spec
CONSTANTS
  m1 = m1
  m2 = m2
  c1 = c1
  c2 = c2
  c3 = c3
  Models <- TwoModels
  FirstFound <- BothFound
  Clients <- ThreeClients
  Ops <- Shared
  MaxOps <- OneEach
  MaxPipe = 1
  ModelsMax = 1
  PromptReap = TRUE
  Shutdowns = TRUE
CHECK_DEADLOCK FALSE
INVARIANTS
  TypeOK
  WithinModelsMax
  NoLiveInstanceLost
PROPERTIES
  StatusMoves
