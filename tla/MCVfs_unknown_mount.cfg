SPECIFICATION FairSpec
CONSTANTS
  p1 = p1
  p2 = p2
  p3 = p3
  NoProc = NoProc
  Procs = {p1, p2}
  Mounts = {"ram", "fat12"}
  FsType <- Drivers
  Names = {"a"}
  BootFiles <- OneFile
  Workloads <- UnknownMount
  MAX_MOUNTS = 8
  MAX_NODES = 4
  LastNodeId = 6
  MaxSize = 5
PROPERTY CallsReturn
CHECK_DEADLOCK FALSE
