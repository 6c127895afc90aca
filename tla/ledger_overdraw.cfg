\* May what a team has on hand become negative?
CONSTANTS
  wh = wh
  roll = roll
  qc = qc
  none = none
  Team = {wh, roll}
  NoTeam = none
  Warehouse = wh
  Inspection = qc
  Processing = {roll, qc}
  Splitting = {roll}
  Amounts <- SmallAmounts
  Counts <- SmallCounts
  History <- NoHistory
  MaxTransfer = 3
  MaxLoss = 1
  MaxAdjustment = 1
  MaxVersion = 2
  MaxLines = 2
SPECIFICATION Spec
CHECK_DEADLOCK FALSE
INVARIANT NoOverdraw
