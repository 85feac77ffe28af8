CONSTANTS
  w1 = w1
  w2 = w2
  main = main
  None = None
  Attractor = main
  Workers <- Two
  NONCES = 3
  PART = 1
  MaxRounds = 2
SPECIFICATION FairSpec
INVARIANTS TypeOK PrevHashCurrent
PROPERTIES NoStaleTask OneWinner RoundEnds
CHECK_DEADLOCK FALSE
