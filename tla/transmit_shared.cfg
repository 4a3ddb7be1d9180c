SPECIFICATION FairSpec
CONSTANTS
  Threads = {t1, t2, t3}
  Lengths = {4, 7}
  Modulus = 32
  MaxSends = 2
  MaxFailures = 1
PROPERTIES ReturnMeansSent AloneReturns
