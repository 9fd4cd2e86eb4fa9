SPECIFICATION FairSpec
CONSTANTS
  Senders = {p1, p2}
  Logs = {l1}
  Capacity = 3
  Batch = 2
  MaxPush = 4
  MaxGiven = 1
  Filters = {{1, 2, 3, 4}, {1, 2, 3}, {2, 3, 4}, {1, 3}, {4}, {}}
  None = None
CHECK_DEADLOCK FALSE
INVARIANTS TypeOK InOrderOnce DropDelivers
PROPERTIES FlushesEnd
