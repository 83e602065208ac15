SPECIFICATION Spec
CONSTANTS
  Query = {typed}
  Partial = {}
  MaxPlace = 1
  MaxIndex = 1
  MaxEvents = 1
INVARIANTS
  QueryAnswered
CHECK_DEADLOCK FALSE
