SPECIFICATION Spec
CONSTANTS
  A = A  B = B  none = none  f1 = f1  f2 = f2  nobody = nobody  m = m  n = n  x = x
  MaxSlots = 2
  MaxDocs = 4
  Names = {A, B}
  NoName = none
  Forms = {f1, f2}
  NoForm = nobody
  Materials = {m, n, x}
  Nameless = {x}
  Lease = 2
  Longest = 3
  Amounts = {1, 2}
  Cases <- McCases
INVARIANTS TypeOK SlotsAreSound ListsAgree
PROPERTY KeepsThePromise
CHECK_DEADLOCK FALSE
