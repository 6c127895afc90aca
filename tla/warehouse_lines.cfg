SPECIFICATION Spec
CONSTANTS
  Received = 6
  Slots = {1, 2}
  NoSlot = 0
  Amounts = {1, 2}
  MaxLines = 3
INVARIANT EachLineCountsOnce
CHECK_DEADLOCK FALSE
