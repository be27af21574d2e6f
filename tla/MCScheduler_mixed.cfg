SPECIFICATION Spec
CONSTANTS
  MAX_PROCESSES = 4
  QUANTUM_TICKS = 2
  BootProcesses = 2
  SleepTicks = {1, 2}
  Program <- MixedProgram
INVARIANTS TypeOK RunningIsCurrent ContextIntegrity SleepNotEarly TableDense SomeoneToRun
