SPECIFICATION Spec
CONSTANTS
    NR_ENTRIES = 4
    NR_CMDS = 5
    MAX_BACKLOG = 2
    WL_PAGES = 2
    WB_SIZE = 4
    WB_RELEASED = FALSE
    MAX_CLOCK = 1
INVARIANT BufferConserved
CHECK_DEADLOCK FALSE
