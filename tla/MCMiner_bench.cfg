SPECIFICATION FairSpec
CONSTANTS
  w1 = w1
  w2 = w2
  w3 = w3
  Workers <- Three
  NONCE_MAX = 3
  WORKER_RANGE_SZ = 2
  STRIDE = 1
  WithSocket = FALSE
  MaxJobs = 0
  MaxRolls = 2
  MaxInbox = 1
  SpuriousWakeups = FALSE
  PollMayFail = FALSE
CHECK_DEADLOCK FALSE
PROPERTIES AllUsedUp NeverDry
