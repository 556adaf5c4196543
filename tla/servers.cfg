CONSTANTS
  c = c
  Clients <- MCClients
  MaxFaults = 2
SPECIFICATION Spec
INVARIANTS TypeOK StaysDown
PROPERTIES NotBack Found Answered Forgotten
CHECK_DEADLOCK FALSE
