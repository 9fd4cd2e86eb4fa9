SPECIFICATION FairSpec
CONSTANTS
  n1 = n1
  n2 = n2
  s1 = s1
  l1 = l1
  l2 = l2
  l3 = l3
  Threads = {t1, t2}
  Notifiers = {n1, n2}
  Sinks = {s1}
  Links = {l1, l2, l3}
  From <- MCFrom
  To <- MCTo
  Rank <- MCRank
  Registered <- MCRegistered
  MaxLosses = 2
  None = None
PROPERTY CallsFinish
CHECK_DEADLOCK FALSE
INVARIANTS TypeOK LockOK SomebodyGoesOn Complete GateStopsLaterCalls
