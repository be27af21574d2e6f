SPECIFICATION Spec
SYMMETRY Alike

CONSTANTS
  A = A
  B = B
  long = long
  Names = {A, B, long}
  LongNames = {long}
  Chunks = {"x"}
  Data <- OneChunk
  LastCluster = 3
  LastEntry = 4
  ScanFits = TRUE
  FatSectors = 1
  IoErrors = TRUE
  PowerLoss <- Anywhere
  Calls <- FiveCalls
  MaxSize = 2
PROPERTIES EntriesSound
