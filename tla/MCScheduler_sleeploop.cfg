SPECIFICATION SleepLoopSpec
CONSTANTS
  MAX_PROCESSES = 4
  QUANTUM_TICKS = 2
  BootProcesses = 3
  SleepTicks = {3}
  Program <- SleepLoopProgram
PROPERTIES RoundRobin SleepersWake
