SPECIFICATION Spec
CONSTANTS
  Sizes = {2, 3, 4}
  BufferWords = 5
  MaxMessages = 2
INVARIANT PartialMessagesWait
