SPECIFICATION Spec
CONSTANTS
  MAX_TASKS = 5
  SCHED_QUANTUM_TICKS = 1
  TASK_PRIORITY_MAX = 4
  TASK_PRIORITY_SHELL = 3
  TickMod = 4
  MAX_MUTEXES = 0
  MutexNames = {}
  InheritFlags = {}
  Priorities = {1, 2}
  Periods = {0, 1}
  SleepTicks = {1}
  KeyBuffer = 0
  Backgrounds = {TRUE, FALSE}
  Syscalls = {"run", "setprio", "sched", "period", "wait_period", "yield"}
  InitPolicy = "real_time"
  INIT_SLEEP = 0
  ShellMayFail = FALSE
  MaxTicks = 1
INVARIANTS
  MostImportantRuns
  EdfRanksKept
VIEW TimedView
