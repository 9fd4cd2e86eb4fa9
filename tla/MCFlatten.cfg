SPECIFICATION FairSpec
CONSTANTS
  Setters = {p1, p2}
  Clients = {c1, c2}
  Getters = {c1}
  Sources = {s1, s2}
  First = s1
  None = None
  GenSpan = 4
  MaxSets = 4
CHECK_DEADLOCK FALSE
INVARIANTS TypeOK NoChangeUnnoticed SubscribedToCurrent WatcherIsTold
PROPERTIES ClientsCatchUp
