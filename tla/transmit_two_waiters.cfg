SPECIFICATION FairSpec
CONSTANTS
  Threads = {t1, t2}
  Lengths = {4}
  Modulus = 32
  MaxSends = 1
  MaxFailures = 0
PROPERTY SenderReturns
