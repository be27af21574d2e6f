SPECIFICATION FairSpec
CONSTANTS
  k1 = k1
  k2 = k2
  u1 = u1
  Threads = {k1, k2}
  Programs = {u1}
  Sizes = {1, 3}
  Aligns = {1, 4}
  Increments <- Moves
  HEADER = 3
  HEADER_ALIGN = 2
  HEAP_SIZE = 16
  Exclusive = TRUE
  MaxHeld = 2
INVARIANTS  ListSound
PROPERTIES LargeEnough CallsReturn
