\* From tables of earlier versions: batches confirmed as one, returned lines, handoffs
\* with remainders to correct, and lots an old inspection still holds.
CONSTANTS
  wh = wh
  roll = roll
  qc = qc
  none = none
  Team = {wh, roll, qc}
  NoTeam = none
  Warehouse = wh
  Inspection = qc
  Processing = {roll, qc}
  Splitting = {roll}
  Amounts <- SmallAmounts
  Counts <- SmallCounts
  History = {}
  MaxTransfer = 4
  MaxLoss = 1
  MaxAdjustment = 2
  MaxVersion = 3
  MaxLines = 2
  MaxInspection = 2
  TeamSets <- OneTeamEach
  Dispositions = {"rework", "other"}
  Proposable <- Corrections
  NoProposal = NoProposal
  Tolerance = 1
  Starts <- McStarts
SPECIFICATION SpecCare
CHECK_DEADLOCK FALSE
INVARIANTS BalancesMatchDocuments MaterialConserved ReturnedLinesWait ReportsAgree
PROPERTIES EveryEditRaisesVersion SettledDocumentsStay ApprovedAsProposed HoldsKeepMaterial
