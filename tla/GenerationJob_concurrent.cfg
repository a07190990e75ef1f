SPECIFICATION Spec
CONSTANTS
  Creators = {c1, c2}
  Retriers = {u1, u2}
  StageOrder <- TwoStages
  QuotaLimit = 2
  MaxTraces = 2
  MaxRuns = 2
  MaxCopies = 2
  MaxFailed = 2
  MaxFaults = 2
PROPERTIES JobIsSound KeepsLifecycle
CHECK_DEADLOCK FALSE
SYMMETRY RequestSymmetry
