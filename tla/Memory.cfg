SPECIFICATION Spec
CONSTANTS
  HEAP_BLOCKS = 19
  HEAP_BLOCK_SIZE = 4
  USER_CODE_ADDR = 16
  TOTAL_ENTRIES_PER_TABLE = 4
  USER_SPACE_TABLES = 2
  USER_STACK_SIZE = 4
  TASK_KERNEL_STACK_SIZE = 8
  Word = 128
  ALIGN = 2
  HEADER_SIZE = 2
  MAX_TASKS = 2
  Programs <- ProgramFiles
  Requests = {1, 4, 9}
  Counts <- CallocCounts
  KernelSizes = {8}
  KernelTables = 1
  MaxLive = 2
  MaxOther = 1
INVARIANTS
  AllAccounted
  ImageMapped
  BlocksTile
  PointersHeld
