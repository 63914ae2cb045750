SPECIFICATION Spec
CONSTANTS
  Limit = 4
  CLUSTER = 2
  PER_CLUSTER = 4
  ROOT_ENTRIES = 4
  Bytes = {1, 2, 3}
  Fits = {"longna~1"}
  Long = {"long name"}
  Fold <- FoldOf
  Aliases <- AliasesOf
  LfnCount <- LfnCountOf
  Dirs = {"longna~1"}
  Messages <- OneMessage
  ReadLens = {2}
  Descs = {f1, f2}
  Careful = FALSE
VIEW View
INVARIANTS
  FsckClean
SYMMETRY Symmetry
