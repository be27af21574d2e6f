SPECIFICATION FairSpec
CONSTANTS
  p1 = p1
  p2 = p2
  p3 = p3
  NoProc = NoProc
  Procs = {p1, p2}
  Mounts = {"ram", "fat12"}
  FsType <- Drivers
  Names = {"a", "b"}
  BootFiles <- Nothing
  Workloads <- KernelThreads
  MAX_MOUNTS = 8
  MAX_NODES = 1
  LastNodeId = 4
  MaxSize = 1
INVARIANTS LockHeldInside
PROPERTIES CallsReturn
