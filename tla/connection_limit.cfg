CONSTANTS
  a = a
  b = b
  c = c
  ch = ch
  Commands <- MCCommands
  Limit = 2
  Channels <- MCChannels
  MaxDrops = 1
  MaxBusy = 0
  MaxHard = 0
SPECIFICATION Spec
CHECK_DEADLOCK FALSE
INVARIANTS NothingLost
