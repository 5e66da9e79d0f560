\* Memory, handshake, commands and refresh.
CONSTANTS
    NTags = 2
    NIdx = 4
    LineWords = 2
    Banks = 2
    Cols = 2
    Zero = 0
    Undef = Undef
    RefreshLimit = 60
    Val <- MCVal
    DramInit <- MCDramInit
    Requests <- MCRequests
    Timing <- MCTiming
    Wait <- MCWait
    Rest <- MCRest
    MaxResets = 0
SPECIFICATION Spec
INVARIANTS TypeOK RefreshBounded
PROPERTIES IsMemory
