SPECIFICATION FairSpec
CONSTANTS
  a = a
  b = b
  c = c
  t1 = t1
  t2 = t2
  t3 = t3
  t4 = t4
  NoTask = NoTask
  AnySlot = AnySlot
  Readers <- Abc
  Tasks <- T4
  Slots <- TwoSlots
  Owner <- MixedOwner
  Parent <- MixedParent
  Kind <- MixedKind
  Want <- MixedWant
  Batch <- MixedBatch
  MaxTokens = 1
  EmptyPrompt <- NoTasks
  LaunchFails = TRUE
  SlotFails = TRUE
  Leavers <- OnlyA
CHECK_DEADLOCK FALSE
INVARIANTS
  TypeOK
  PlacedOnce
  NeverStranded
  FinalIsLast
  NoOrphanResults
PROPERTIES
  ReleasedForAReason
