CONSTANTS
  u = u
  Workers = 2
  RingLength = 3
  MaxReconn = 1
  Events <- OneEvent
  Triggers <- NoTrigger
  Spares = {1, 2}
  LateStore = FALSE
SPECIFICATION Spec
INVARIANTS TypeOK OneConsumer MissedWhenFull
PROPERTIES QueueServed Implements
