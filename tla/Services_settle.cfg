SPECIFICATION Services
CONSTANTS
  Parts = {"payment", "memory", "slow", "uploads", "exports", "planning", "accounts"}
  key1 = key1
  key2 = key2
  session1 = session1
  session2 = session2
  m1 = m1
  w1 = w1
  w2 = w2
  a1 = a1
  a2 = a2
  x1 = x1
  e1 = e1
  e2 = e2
  e3 = e3
  p1 = p1
  p2 = p2
  p3 = p3
  p4 = p4
  None = None
  Nobody = Nobody
  Accs = {user1, user2}
  Admins = {user1, user2}
  Clients = {user1}
  Changes = {change1, change2}
  Slots = {session1, session2}
  Life = 1
  Keys = {key1, key2}
  Checkouts = {checkout1}
  Queries = {query1, query2}
  Mems = {m1}
  Workers = {w1, w2}
  MaxVersion = 3
  MaxFaults = 2
  MaxSlow = 0
  Exports = {x1}
  Events = {e1, e2, e3}
  MaxTries = 3
  MaxCrashes = 1
  Pois = {p1, p2, p3, p4}
  Requested = "city"
  Areas = {"city", "district"}
  Adcode <- TheAdcode
  Reviewed <- TheReviewed
  Approved = {p2, p4}
  Wishes <- TheWishes
  Base <- TheBase
  MaxCost = 1
  MaxEvidence = 4
  NoticeStatuses = {"success", "closed"}
INVARIANTS ServicesTypeOK PaymentIsSound DeletedIsForgotten LinksWork PreviewIsGrounded AlwaysAnAdmin
PROPERTIES PaymentSettles StoresCatchUp CleanupIsThorough ExportSettles PlanningStops TokensFollowAccount
CHECK_DEADLOCK FALSE
