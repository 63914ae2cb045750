SPECIFICATION Spec
CONSTANTS
  TERM_WIDTH = 3
  TERM_HEIGHT = 3
  SH_LINE_MAX = 4
  HISTORY_SIZE = 2
  Chars = {"a"}
  Names <- FileNames
  TypedAhead <- Ahead
  Dumb = {TRUE, FALSE}
  Lines <- RunLines
  DeletesLast = TRUE
  Racy = FALSE
INVARIANT LineShown
VIEW View
CHECK_DEADLOCK FALSE
