CONSTANTS
  a = a
  b = b
  c = c
  ch = ch
  Commands <- TwoCommands
  Limit = 9
  Channels <- MCChannels
  MaxDrops = 2
  MaxBusy = 1
  MaxHard = 1
SPECIFICATION Spec
CHECK_DEADLOCK FALSE
INVARIANTS NothingLost IdleIsIdle
PROPERTIES AnsweredOnce Served
