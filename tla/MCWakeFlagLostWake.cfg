SPECIFICATION FairSpec
CONSTANT
  Listeners = {l1, l2}
CHECK_DEADLOCK FALSE
PROPERTIES ClosingEndsWait
