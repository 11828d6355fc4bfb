SPECIFICATION Spec
CONSTANTS
  Expenses = {x1}
  Wages = {w1}
  MaxAmount = 1
  Begun <- ApprovedAndPaid
  Drifted <- ProjectOrReports
  Tables <- OneTableEach
  i1 = i1
  i2 = i2
  Runs <- TwoRuns
  MaxRevision = 1
\* records and revisions are bounded
CHECK_DEADLOCK FALSE
INVARIANTS
  TypeOK
  RepairComplete
PROPERTIES
  LedgerSpec
  SnapshotExact
  PostingResumes
