SPECIFICATION Spec
CONSTANTS
  Sizes = {2, 3, 5}
  BufferWords = 8
  Bursts = {13}
  MaxMessages = 4
INVARIANT AssertionsHold
