SPECIFICATION KernelSpec
CONSTANTS
  NPROC = 8
  TICKS = 5
  SLEEP = 3
  CAP = 2
INVARIANTS SchedulerSound
PROPERTIES SleepLength KeyAnswered BothTasksRun
CHECK_DEADLOCK FALSE
