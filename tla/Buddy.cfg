SPECIFICATION Spec
CONSTANTS
  MaxOrd = 3
  Orders = {0, 1, 2, 3}
INVARIANTS
  FreeListsCorrect
  InUseTakenByMisjudged
CHECK_DEADLOCK FALSE
