SPECIFICATION FairSpec
CONSTANTS
  Setters = {p1}
  Clients = {c1, c2}
  Getters = {c1, c2}
  Sources = {s1, s2}
  First = s1
  None = None
  GenSpan = 4
  MaxSets = 3
CHECK_DEADLOCK FALSE
INVARIANT NoChangeUnnoticed
