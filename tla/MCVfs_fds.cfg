SPECIFICATION Spec
CONSTANTS
  p1 = p1
  p2 = p2
  p3 = p3
  NoProc = NoProc
  Procs = {p1, p2, p3}
  Mounts = {"ram", "fat12"}
  FsType <- Drivers
  Names = {"a", "b"}
  BootFiles <- Nothing
  Workloads <- UserPrograms
  MAX_MOUNTS = 8
  MAX_NODES = 3
  LastNodeId = 6
  MaxSize = 3
INVARIANTS FdOwnsNode NoNodeLeak
 
CHECK_DEADLOCK FALSE
