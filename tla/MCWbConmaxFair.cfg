\* Masters of one level sharing a device and the register file, one port dead.
CONSTANTS
    N = 3
    RfSlave = 15
    Slaves <- MCSlaves
    Live = {15}
    PriSel <- MCPriSel
    Requests <- MCRequests
    BlockMasters = {}
SPECIFICATION BypassFairSpec
INVARIANTS TransferIntact AckToRequester RfIntact BoundedBypass
PROPERTIES OwnerKeepsPort RfWriteAtAck RequestServed
