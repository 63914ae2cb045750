SPECIFICATION Spec
CONSTANTS
  EDIT_MAX = 3
  Chars = {"a", "-", " "}
  TypedChars = {"-"}
  Files <- SmallFiles
  OtherRegs <- Regs
  ClickModes = {"normal", "insert"}
  MaxCount = 0
  MaxChanges = 2
INVARIANT
  LastChangeNotForgotten
CHECK_DEADLOCK FALSE
VIEW View
