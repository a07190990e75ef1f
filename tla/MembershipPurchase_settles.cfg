SPECIFICATION FairSpec
CONSTANTS
  Keys = {k1}
  MaxAttempts = 2
  Requests = {r1}
  Callbacks = {p1}
  NoticeStatuses = {"success"}
  MaxCrashes = 1
INVARIANT PurchaseIsSound
PROPERTY PurchaseSettles
CHECK_DEADLOCK FALSE
