SPECIFICATION Spec
CONSTANTS
  c1 = c1
  c2 = c2
  Conns <- TwoMiners
  Poller = Poller
  Accepter = Accepter
  None = None
  MaxBlocks = 0
  MaxTxs = 0
  MaxFinds = 1
  MaxFailures = 1
  MayInterrupt = FALSE
SYMMETRY Miners
CHECK_DEADLOCK FALSE
INVARIANTS TypeOK MinerUpToDate Attended JobsFollowAPoller
