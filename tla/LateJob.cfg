SPECIFICATION Spec
CONSTANTS
  MAX_TASKS = 5
  SCHED_QUANTUM_TICKS = 1
  TASK_PRIORITY_MAX = 4
  TASK_PRIORITY_SHELL = 3
  TickMod = 16
  MAX_MUTEXES = 0
  MutexNames = {}
  InheritFlags = {}
  Priorities = {1}
  Periods = {1, 2}
  SleepTicks = {}
  KeyBuffer = 0
  Backgrounds = {TRUE, FALSE}
  Syscalls = {"run", "wait", "period", "wait_period"}
  InitPolicy = "edf"
  INIT_SLEEP = 0
  ShellMayFail = FALSE
  MaxTicks = 6
INVARIANTS
  EarliestDeadlineRuns
