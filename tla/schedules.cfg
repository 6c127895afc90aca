SPECIFICATION Spec
CONSTANTS
  W = W
  A = A
  Q = Q
  O = O
  Route <- McRoute
  Warehouse = W
  Outside = O
  DayLength = 2
  Dues = {2, 4}
  Amounts = {2}
  Forms <- McForms
  MaxNow = 5
  Cases <- McCases
INVARIANTS
  TypeOK
  PlansHangTogether
  AnswersAgree
PROPERTIES
  ApprovedAsReviewed
  EveryoneIsTold
CHECK_DEADLOCK FALSE
