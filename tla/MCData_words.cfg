SPECIFICATION DataSpec
CONSTANTS
  BYTE = 1
  WORDS = 4
  Threads <- MCThreads
  UINT32_MAX = 1
  NOSWAP = TRUE
  Targets <- SmallTargets
  Hashes <- NearTarget
  Heights <- MCHeights
  Lengths <- MCLengths
  MaxTxids = 9
CHECK_DEADLOCK FALSE
INVARIANTS TargetIsRight Verdict ChecksAgree LaunchResult
           RoundsInStep SameDigest CoinbaseReadsBack RootCommits
