SPECIFICATION Spec
CONSTANTS
  a = a
  b = b
  Tasks = {shell, t1, t2}
  Shell = shell
  Pipes = {p1}
  Handles = {h1, h2}
  Terminal = terminal
  NULL = null
  PIPE_SIZE = 2
  Bytes <- TwoBytes
  TASK_MAX_FDS = 3
  STD_FDS = 1
  ReadLens = {1, 2}
  Messages <- ShortMessages
INVARIANTS
  HandleBooks
  BlockedForReason
  PipeOutlivesCalls
PROPERTIES
  StreamsKeepOrder
VIEW View
SYMMETRY Symmetry
