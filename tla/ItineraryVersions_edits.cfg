SPECIFICATION FairSpec
CONSTANTS
  p1 = p1
  Dates = {1, 2}
  Ranges <- OneRange
  Pois = {p1}
  Drafts <- JustPair
  Operations = {o1, o2, o3}
  Workers = {w1}
  MaxVersion = 4
  MaxStops = 2
  MaxCrashes = 1
INVARIANTS VersionsAreRecorded VersionsAreUsable
PROPERTY RouteSettles
CHECK_DEADLOCK FALSE
