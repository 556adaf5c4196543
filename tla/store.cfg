\* Three nodes below the root; a bidirectional field, a plain one; up to three arcs, four links and arcs.
CONSTANTS
  Ids = {0, 1, 2, 3}
  Root = 0
  Fields = {"one", "many", "plain"}
  Single = {"one"}
  Back <- MCBack
  Undeclared <- MCUndeclared
  MaxArcs = 3
  MaxSize = 4
SPECIFICATION Spec
CONSTRAINT Bounded
CHECK_DEADLOCK FALSE
INVARIANTS EdgesAgree Recoverable Kept
PROPERTIES HarmHasCause
