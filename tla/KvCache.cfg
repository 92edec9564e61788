SPECIFICATION Spec
CONSTANTS
  NCells = 3
  Seqs = {0, 1}
  MaxPos = 4
  NUbatch = 2
  MaxTokens = 3
  MaxCopies = 1
  Configs <- MCConfigs
CHECK_DEADLOCK FALSE
INVARIANTS
  TypeOK
  IndexAgrees
  DataFollowsCells
  SlotsStayUsable
PROPERTIES
  WindowKept
