SPECIFICATION Spec
SYMMETRY Alike

CONSTANTS
  A = A
  B = B
  long = long
  Names = {A, B}
  LongNames = {}
  Chunks = {"x", "y"}
  Data <- WithEmpty
  LastCluster = 4
  LastEntry = 4
  ScanFits = FALSE
  FatSectors = 2
  IoErrors = FALSE
  PowerLoss <- BeforeRoot
  Calls <- AllCalls
  MaxSize = 2

 
PROPERTIES OthersKept 
