\* Priorities in use and rewritten under way, one master using block cycles.
CONSTANTS
    N = 3
    RfSlave = 15
    Slaves <- MCSlaves
    Live <- MCLive
    PriSel <- MixedLevels
    Requests <- PrioRequests
    BlockMasters = {1}
SPECIFICATION Spec
INVARIANT TypeOK
PROPERTY PreemptOnlyInFirstCycle
