SPECIFICATION FairSpec
CONSTANTS
  PaidMessages = {d1, d2}
  RefundKeys = {r1, r2}
  Repeated = {r1}
  RefundCopies = {1}
  Kinds = {"ticket", "supplier"}
  MaxFailed = 3
  MaxSilences = 1
  MaxCrashes = 1
INVARIANTS TradeIsSound RefundsAreSound
PROPERTY OrderSettles
CHECK_DEADLOCK FALSE
