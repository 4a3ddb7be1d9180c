SPECIFICATION FairSpec
CONSTANTS
  Channels = {c1, c2}
  None = None
  MaxRounds = 2
  MaxReads = 2
  MaxFailures = 2
  MaxInterrupts = 1
INVARIANTS TypeOK NoLeak ReadKept FreedOnlyInRace ThreadStopped InterruptKept
PROPERTY CleanupReturns
