CONSTANTS
    none = none
    Nobody = none
    Hwm <- MCHwm
    Word = 16
    Upipes = {1, 2, 3}
    Writes <- MCWrites
    Hiccups = {2}
    MaxMessages <- MCMaxMessages
    MaxParts = 2
    MaxCommands = 2
SPECIFICATION Spec
INVARIANT TypeOK
INVARIANT NoAbort
INVARIANT NothingDangles
INVARIANT WithinHwm
PROPERTY NothingLeftBehind
PROPERTY WriterResumes
PROPERTY TerminationCompletes
CHECK_DEADLOCK FALSE
