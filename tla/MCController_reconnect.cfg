SPECIFICATION FairSpec
CONSTANTS
  c1 = c1
  c2 = c2
  Conns <- TwoMiners
  Poller = Poller
  Accepter = Accepter
  None = None
  MaxBlocks = 1
  MaxTxs = 0
  MaxFinds = 0
  MaxFailures = 0
  MayInterrupt = FALSE

CHECK_DEADLOCK FALSE
PROPERTIES TemplateReachesMiner DeadMinerDropped
