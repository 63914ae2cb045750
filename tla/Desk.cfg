CONSTANTS
    MAX_WINDOWS = 2
    MAX_FDS = 5
    Names <- MCNames
    KindOf <- MCKindOf
    Fixed = {"sh"}
    Written = {"txt"}
    Shells = {"shell1", "shell2"}
    Hasty = FALSE
SPECIFICATION Spec
CHECK_DEADLOCK FALSE
INVARIANTS WindowsLive DescriptorsMatch ShellsHaveWindows
PROPERTY ChangesAsked
