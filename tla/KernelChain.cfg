SPECIFICATION Spec
CONSTANTS
  MAX_TASKS = 5
  SCHED_QUANTUM_TICKS = 1
  TASK_PRIORITY_MAX = 4
  TASK_PRIORITY_SHELL = 3
  TickMod = 2
  MAX_MUTEXES = 2
  MutexNames = {m1, m2}
  InheritFlags = {TRUE}
  Priorities = {1}
  Periods = {}
  SleepTicks = {}
  KeyBuffer = 0
  Backgrounds = {TRUE}
  Syscalls = {"run", "mutex", "kill", "exit"}
  InitPolicy = "round_robin"
  INIT_SLEEP = 0
  ShellMayFail = FALSE
  MaxTicks = 2
INVARIANTS
  PriorityInherited
  MutexBooks
  BlockedHasOwner
  KilledIsAwake
PROPERTIES
  NoBarging
VIEW View
SYMMETRY NameSymmetry
