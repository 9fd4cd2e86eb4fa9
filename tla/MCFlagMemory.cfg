SPECIFICATION Spec
CONSTANTS
  Writers = {w1, w2}
  Flags = {f1}
  Values = {a, b}
  Initial = a
  MaxWrites = 4
SYMMETRY Symmetry
CHECK_DEADLOCK FALSE
INVARIANTS TypeOK SeesWhatItWasTold NoChangeUnnoticed
