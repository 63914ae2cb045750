CONSTANTS
    Lines <- MCLines
    CharLines <- MCCharLines
    ParsedLines <- MCParsedLines
    Builtins <- MCBuiltins
    SH_MAX_STAGES = 3
    SH_MAX_ARGS = 2
    MAX_FDS = 4
    PIPE_SIZE = 1
    MaxPids = 3
    MaxPipes = 2
    MaxInput = 2
SPECIFICATION Spec
CHECK_DEADLOCK FALSE
INVARIANT FailedPipeToTerminal
