SPECIFICATION Spec
CONSTANTS
  MAX_TASKS = 5
  SCHED_QUANTUM_TICKS = 1
  TASK_PRIORITY_MAX = 4
  TASK_PRIORITY_SHELL = 3
  TickMod = 4
  MAX_MUTEXES = 0
  MutexNames = {}
  InheritFlags = {}
  Priorities = {1}
  Periods = {}
  SleepTicks = {1}
  KeyBuffer = 0
  Backgrounds = {TRUE, FALSE}
  Syscalls = {"run", "wait", "kill", "sleep", "exit"}
  InitPolicy = "round_robin"
  INIT_SLEEP = 1
  ShellMayFail = TRUE
  MaxTicks = 4
INVARIANTS
  ParentsLive
  WaitsForLiveChild
  SleepersInTime
VIEW View
