SPECIFICATION FairSpec
CONSTANTS
  PaidMessages = {d1}
  RefundKeys = {r1}
  Repeated = {}
  RefundCopies = {}
  Kinds = {"supplier"}
  MaxFailed = 3
  MaxSilences = 1
  MaxCrashes = 0
PROPERTY PaidOrderSettles
CHECK_DEADLOCK FALSE
