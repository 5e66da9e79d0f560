CONSTANTS
  SYS_CLK = 2
  TickUsec = 4
  tickadj = 1
  Slew = 1
  Latency = 5
SPECIFICATION Spec
INVARIANTS NoTickLost 
