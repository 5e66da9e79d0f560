\* One reset at any time; two cache lines in two banks.
CONSTANTS
    NTags = 2
    NIdx = 2
    LineWords = 2
    Banks = 2
    Cols = 1
    Zero = 0
    Undef = Undef
    RefreshLimit = 0
    Val <- MCVal
    DramInit <- MCDramInit
    Requests <- ResetRequests
    Timing <- MCTiming
    Wait <- ResetWait
    Rest <- MCRest
    MaxResets = 1
SPECIFICATION FairSpec
INVARIANTS OneCommand CommandLegal
PROPERTIES IsMemory Served
