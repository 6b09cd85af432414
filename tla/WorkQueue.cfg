SPECIFICATION LoadSpec
CONSTANTS
    NR_ENTRIES = 5
    NR_CMDS = 4
    MAX_BACKLOG = 1
    WL_PAGES = 2
    WB_SIZE = 2
    WB_RELEASED = TRUE
    MAX_CLOCK = 1
INVARIANTS LoadTypeOK ListsIntact  
PROPERTY EveryoneServed
CHECK_DEADLOCK FALSE
