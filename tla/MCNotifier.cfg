SPECIFICATION FairSpec
CONSTANTS
  None = None
  MinCap = 1
  Threads = {t1, t2}
  Listeners = {l1, l2, l3}
CHECK_DEADLOCK FALSE
INVARIANTS TypeOK OneOwner NoAliveListenerLost WasAliveTracksReceive CapacityBounded CountExact
PROPERTIES ImplementsBroadcast CallsFinish
