SPECIFICATION Spec
CONSTANTS
  w1 = w1
  w2 = w2
  w3 = w3
  Workers <- Two
  NONCE_MAX = 2
  WORKER_RANGE_SZ = 2
  STRIDE = 1
  WithSocket = TRUE
  MaxJobs = 1
  MaxRolls = 1
  MaxInbox = 1
  SpuriousWakeups = FALSE
  PollMayFail = FALSE

CHECK_DEADLOCK FALSE
PROPERTIES AllUsedUp
