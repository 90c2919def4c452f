SPECIFICATION Spec
CONSTANTS
  RecvBytes = 64
  MaxStates = 16
  NumberBytes = 2
  NaN = NaN
  Percentages = {5000}
  Counts = {0, 1, 2, 4, 8, 16}
  Lengths = {4, 8, 12}
INVARIANT SentStatesActive
