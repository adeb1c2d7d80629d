SPECIFICATION AllocatorsSpec
CONSTANTS
  NFrames = 24
  First = 8
  Need = 2
  PageWords = 12
  HeapPages = 50
  Sizes = {4, 594, 596, 606}
  MaxPlace = 3
  MaxSize = 616
  MaxGrowth = 2
INVARIANTS SearchSound ListWhole
PROPERTY MallocReturns
CHECK_DEADLOCK FALSE
