CONSTANTS
  MaxResult = 3
  MaxErrors = 1
  MaxDrops = 1
  MaxMoves = 3
  Prompt = FALSE
SPECIFICATION Spec
CHECK_DEADLOCK FALSE
INVARIANTS PatchFits
PROPERTIES NeverBack Converges
