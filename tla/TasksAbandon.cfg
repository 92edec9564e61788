SPECIFICATION ChainSpec
CONSTANTS
  a = a
  b = b
  c = c
  t1 = t1
  t2 = t2
  t3 = t3
  t4 = t4
  NoTask = NoTask
  AnySlot = AnySlot
  Readers <- Ab
  Tasks <- T4
  Slots <- TwoSlots
  Owner <- ChainOwner
  Parent <- ChainParent
  Kind <- ChainKind
  Want <- ChainWant
  Batch <- ChainBatch
  MaxTokens = 0
  EmptyPrompt <- OnlyT4
  LaunchFails = TRUE
  SlotFails = TRUE
  Leavers <- OnlyB
CHECK_DEADLOCK FALSE
PROPERTIES
  RequestsEnd
  SlotsComeBack
