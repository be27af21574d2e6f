SPECIFICATION FairSpec
CONSTANTS
  p1 = p1
  p2 = p2
  Callers = {p1, p2}
  Masked = {}
  Requests <- Mixed
  Kinds = {"ata", "other", "none"}
  MayFail = TRUE
  LastLba = 2
  MAX_SECTORS_PER_TRANSFER = 2
INVARIANTS Released OneSectorAnswered
PROPERTIES TransfersExact CallsReturn
