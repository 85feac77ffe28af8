SPECIFICATION CudaSpec
CONSTANTS
  gpu = gpu
  Workers <- OneWorker
  NONCE_MAX = 7
  WORKER_RANGE_SZ = 1
  STRIDE = 1
  THREADS_PER_BLOCK = 2
  SM_COUNT = 1
  BLOCKS_PER_SM = 2
  WithSocket = TRUE
  MaxJobs = 2
  MaxRolls = 1
  MaxInbox = 1
  SpuriousWakeups = TRUE
  PollMayFail = TRUE
CHECK_DEADLOCK FALSE
INVARIANTS KernelHasJob LaunchCovers SleepersAreOwed
