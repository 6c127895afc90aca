\* One shipment posted twice.
CONSTANTS
  k1 = k1
  k2 = k2
  nokey = nokey
  norequest = norequest
  MaxRow = 4
  Key = {k1, k2}
  NoKey = nokey
  NoRequest = norequest
  Request <- OneShipment
  StartRow <- MCRow
  StartStock <- MCStock
  Handler = {h1, h2}
SPECIFICATION SpecWrites
CHECK_DEADLOCK FALSE
PROPERTIES RetriesGetTheRecord
