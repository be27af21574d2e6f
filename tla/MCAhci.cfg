SPECIFICATION Spec
CONSTANTS
  c1 = c1
  c2 = c2
  Callers = {c1, c2}
  Ports = {0, 1}
  SLOTS = 2
  LastDevice = 1
  LastFunction = 2
  MAX_PCI_DEVICES = 8
  Machines <- SmallMachines
INVARIANTS LockBalanced FoundAll TrueMeansDone RunsOnOwn
PROPERTIES TableStable StartUpEnds CallsReturn
CHECK_DEADLOCK FALSE
