\* The clock and delays of the SoC; an S29GL064A (110 ns access, 90 ns to RY low).
CONSTANTS
    Word = {w0, w1}
    Requests <- AllRequests
    Period = 40
    ReadNs = 180
    WriteNs = 70
    AccessTime = 3
    BusyLag = 1
SPECIFICATION FairSpec
INVARIANTS ReadCorrect WriteExact AccessReady
PROPERTIES WriteHeld Turnaround Served
