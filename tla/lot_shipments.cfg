\* Shipments of a total against other writes to the same lots; every request ends.
CONSTANTS
  k1 = k1
  k2 = k2
  nokey = nokey
  norequest = norequest
  MaxRow = 4
  Key = {k1, k2}
  NoKey = nokey
  NoRequest = norequest
  Request <- Shipments
  StartRow <- MCRow
  StartStock <- MCStock
  Handler = {h1, h2}
SPECIFICATION FairSpecWrites
CHECK_DEADLOCK FALSE
INVARIANTS NoDeadlock
PROPERTIES ImplementsRequests CappedWritesStayWithinStock EveryRequestEnds
