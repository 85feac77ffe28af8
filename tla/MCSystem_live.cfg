SPECIFICATION SysSpec
CONSTANTS
  Conn = c1
  Conns <- OneMiner
  Poller = Poller
  Accepter = Accepter
  None = None
  MaxBlocks = 0
  MaxTxs = 1
  MaxFinds = 1
  MaxFailures = 0
  MaxTicks = 1
  MayInterrupt = TRUE

CHECK_DEADLOCK FALSE
INVARIANTS WorksOnTheBlock
PROPERTIES SubmittedFits AskedIsServed StopReachesMiner
