SPECIFICATION Spec
CONSTANTS
  MAX_TASKS = 5
  SCHED_QUANTUM_TICKS = 1
  TASK_PRIORITY_MAX = 4
  TASK_PRIORITY_SHELL = 3
  TickMod = 2
  MAX_MUTEXES = 0
  MutexNames = {}
  InheritFlags = {}
  Priorities = {1, 2}
  Periods = {}
  SleepTicks = {}
  KeyBuffer = 0
  Backgrounds = {TRUE, FALSE}
  Syscalls = {"spawn"}
  InitPolicy = "real_time"
  INIT_SLEEP = 0
  ShellMayFail = FALSE
  MaxTicks = 2
INVARIANTS
  ShellAboveUserTasks
