SPECIFICATION Spec
CONSTANTS
  Keys = {k1, k2}
  Checkouts = {c1, c2}
  Queries = {q1}
  NoticeStatuses = {"success"}
INVARIANT OneActivePayment
