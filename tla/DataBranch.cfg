SPECIFICATION Spec
CONSTANTS
  Machine = {ci, laptop}
  PushAttempts = 2
  MaxRuns = 3
  ci = ci
  laptop = laptop
SYMMETRY Symmetry
INVARIANTS TypeOK CommittedOnce OneHistory PointerPublished
PROPERTIES NothingDropped PointerAdvances
CHECK_DEADLOCK FALSE
