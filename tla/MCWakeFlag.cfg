SPECIFICATION FairSpec
CONSTANT
  Listeners = {l1, l2, l3}
CHECK_DEADLOCK FALSE
INVARIANTS TypeOK NoSleepOnMessage FalseMeansClosed ClosedNeverPends FalseIsFinalOnOneThread
PROPERTIES MessageEndsWait ClosingEndsWaitOnOneThread
