SPECIFICATION FairSpec
CONSTANTS
  Creators = {c1, c2}
  Retriers = {u1}
  StageOrder <- TwoStages
  QuotaLimit = 2
  MaxTraces = 3
  MaxRuns = 3
  MaxCopies = 1
  MaxFailed = 2
  MaxFaults = 0
PROPERTY JobFinishes
CHECK_DEADLOCK FALSE
