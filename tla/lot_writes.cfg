\* Three requests at once: losses, dispatches, recounts and the ends of a line.
CONSTANTS
  k1 = k1
  k2 = k2
  nokey = nokey
  norequest = norequest
  MaxRow = 4
  Key = {k1, k2}
  NoKey = nokey
  NoRequest = norequest
  Request <- Writes
  StartRow <- MCRow
  StartStock <- MCStock
  Handler = {h1, h2, h3}
SPECIFICATION SpecWrites
SYMMETRY Symmetry
CHECK_DEADLOCK FALSE
INVARIANTS TypeOKWrites
PROPERTIES ImplementsRequests RetriesGetTheRecord CappedWritesStayWithinStock
