\* From an empty table, or one of waiting exits: two teams, two sizes of lot, every
\* kind of document.
CONSTANTS
  wh = wh
  roll = roll
  qc = qc
  none = none
  Team = {wh, roll}
  NoTeam = none
  Warehouse = wh
  Inspection = qc
  Processing = {roll, qc}
  Splitting = {roll}
  Amounts <- SmallAmounts
  Counts <- SmallCounts
  History <- Histories
  MaxTransfer = 3
  MaxLoss = 1
  MaxAdjustment = 1
  MaxVersion = 2
  MaxLines = 2
SPECIFICATION Spec
CHECK_DEADLOCK FALSE
INVARIANTS TypeOK BalancesMatchDocuments BalanceChecksHold MaterialConserved LineageIsSound
PROPERTIES ClosedLotsAreEmpty
