SPECIFICATION Spec
CONSTANTS
  RecvBytes = 64
  MaxStates = 16
  NumberBytes = 2
  NaN = NaN
  Percentages = {0, 100, 200, 5000, 9900, 10000}
  Counts = {0}
  Lengths = {1}
INVARIANT WholePercentShown
