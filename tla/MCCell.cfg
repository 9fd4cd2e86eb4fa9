SPECIFICATION FairSpec
CONSTANTS
  f1 = f1
  f2 = f2
  v1 = v1
  v2 = v2
  v3 = v3
  Writers = {w1, w2}
  Flags = {f1, f2}
  Values = {v1, v2, v3}
  Initial = v1
  Through <- MCThrough
  None = None
CHECK_DEADLOCK FALSE
INVARIANTS TypeOK NoChangeUnnoticed NoticeOwed NoListenerRetained
PROPERTIES ReadersCatchUp
