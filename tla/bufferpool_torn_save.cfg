\* .save after a crash: the smallest pool that can lose what it reports saved.
CONSTANTS
  POOL_SIZE = 2
  PAGES = 3
  MAX_TIME = 4
  Guards = {g1, g2}
  Content = {Zeros, Fresh, a}
  Zeros = Zeros
  Fresh = Fresh
SPECIFICATION TornSpec
SYMMETRY GuardSymmetry
PROPERTIES FlushReachesFile
