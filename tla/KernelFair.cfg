SPECIFICATION FairSpec
CONSTANTS
  MAX_TASKS = 4
  SCHED_QUANTUM_TICKS = 1
  TASK_PRIORITY_MAX = 4
  TASK_PRIORITY_SHELL = 3
  TickMod = 2
  MAX_MUTEXES = 0
  MutexNames = {}
  InheritFlags = {}
  Priorities = {1}
  Periods = {}
  SleepTicks = {}
  KeyBuffer = 2
  Backgrounds = {TRUE, FALSE}
  Syscalls = {"run", "kill", "spawn", "sched", "getchar", "ctrl_c", "ignore_ctrl_c"}
  InitPolicy = "real_time"
  INIT_SLEEP = 0
  ShellMayFail = FALSE
  MaxTicks = 2
INVARIANTS
  NoLostKey
PROPERTIES
  ReadyRuns
  KilledExits
  KilledNeverReturns
