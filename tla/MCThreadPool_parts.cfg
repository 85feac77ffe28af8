CONSTANTS
  w1 = w1
  w2 = w2
  main = main
  None = None
  Attractor = main
  Workers <- One
  NONCES = 4
  PART = 2
  MaxRounds = 1
SPECIFICATION Spec
INVARIANTS PartsCover
CHECK_DEADLOCK FALSE
