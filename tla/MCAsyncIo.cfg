\* Two descriptors on one board, two transfers.
CONSTANTS
  c1 = c1
  c2 = c2
  i1 = i1
  i2 = i2
  Confs = {c1, c2}
  Ids = {i1, i2}
  Nobody = Nobody
  FailedCreate = TRUE
  FailedLock = TRUE
SPECIFICATION FairSpec
CHECK_DEADLOCK FALSE
INVARIANTS TypeOK OneTransfer
PROPERTIES ReportsOutcome Returns
