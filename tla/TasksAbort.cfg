SPECIFICATION Spec
CONSTANTS
  a = a
  b = b
  c = c
  t1 = t1
  t2 = t2
  t3 = t3
  t4 = t4
  NoTask = NoTask
  AnySlot = AnySlot
  Readers <- OnlyA
  Tasks <- T2
  Slots <- TwoSlots
  Owner <- PairOwner
  Parent <- PairParent
  Kind <- PairKind
  Want <- PairWant
  Batch <- PairBatch
  MaxTokens = 0
  EmptyPrompt <- NoTasks
  LaunchFails = FALSE
  SlotFails = TRUE
  Leavers <- Nobody
CHECK_DEADLOCK FALSE
INVARIANTS
  NeverAborts
