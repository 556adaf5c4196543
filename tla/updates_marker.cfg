CONSTANTS
  MaxResult = 2
  MaxErrors = 0
  MaxDrops = 0
  MaxMoves = 1
  Prompt = TRUE
SPECIFICATION Spec
CHECK_DEADLOCK FALSE
PROPERTIES Subscribed
