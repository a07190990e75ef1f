SPECIFICATION Travellers
CONSTANTS
  Parts = {"plans", "invites", "chat", "page", "knowledge", "deciders", "assistant", "experiences", "offers", "notes", "lists", "periods"}
  ann = ann
  bob = bob
  uma = uma
  vic = vic
  send1 = send1
  d1 = d1
  w1 = w1
  None = None
  Users = {h, ann, bob}
  Hosts = {h}
  Sizes = {2, 3}
  Foes <- TheFoes
  Invited = {}
  Requests = {r1}
  People = {uma, vic}
  Watchers = {}
  ChatFoes <- TheChatFoes
  ClientKeys = {1}
  Sends = {send1, send2}
  HistoryPage = 1
  MaxMessages = 2
  Desks = {d1, d2}
  Workers = {w1, w2}
  MaxPending = 1
  MaxFaults = 1
  AskRequests = {q1, q2}
  QuestionKeys = {k1}
  FreeLimit = 1
  MemberLimit = 2
  LastMonth = 1
  MaxLost = 1
  Nothing = Nothing
  Sessions = {x1}
  Travelers = {uma, vic}
  Editors = {e1, e2}
  MaxCapacity = 2
  MaxParty = 1
  Vacant = Vacant
  Searches = {x1}
  Journeys = {j1, j2}
  SeatsOnly = {j2}
  OrderKeys = {k1}
  Clicks = {c1, c2}
  Prices = {1, 2}
  MaxPassengers = 2
  MaxChanges = 2
  Nobody = Nobody
  Notes = {1}
  Copiers = {c1, c2}
  CopyKeys = {k1, k2}
  MaxCopies = 3
  Rows = {1, 2, 3}
  Lists = {"posts", "latest", "recommended", "comments", "favorites", "messages", "notifications", "users", "plans"}
  Page = 1
  MaxClock = 2
  MaxCopied = 1
  Purchases = {c1, c2, x1}
  Queued = {x1}
  Retried = {c1}
  GrantKeys = {k1}
  MaxToday = 1
  MaxDays = 2
  Unset = Unset
INVARIANTS TravellersTypeOK SeatsAreKept PlanCanBeUsed SentOnce KnowledgeIsReviewed WorkIsOnItsWay AnswersAreKept PlacesAreKept SoldAsOffered CopiesAreCounted PagesAreSound PaidTimeIsKept
PROPERTY OpeningClears
CHECK_DEADLOCK FALSE
