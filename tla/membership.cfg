\* Two clients, two subscriptions, unsubscriptions or faults between them.
CONSTANTS
  Clients = {a, b}
  MaxEvents = 2
SPECIFICATION Spec
CHECK_DEADLOCK FALSE
PROPERTIES RecordedIsServed Forgotten
