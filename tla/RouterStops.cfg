SPECIFICATION FairSpec
CONSTANTS
  m1 = m1
  m2 = m2
  c1 = c1
  c2 = c2
  c3 = c3
  Models <- TwoModels
  FirstFound <- AnyFound
  Clients <- TwoClients
  Ops <- OneReloads
  MaxOps <- OneOfTwo
  MaxPipe = 1
  ModelsMax = 1
  PromptReap = TRUE
  Shutdowns = TRUE
CHECK_DEADLOCK FALSE
PROPERTIES
  UnloadEnds
  ReloadEnds
