SPECIFICATION FairSpec
CONSTANTS
  Threads = {t1, t2}
  Vendors = {"TI", "ST"}
  Handles = {1, 2}
  Capacity <- MCCapacity
  ValueLengths = {1, 2}
  MaxOps <- MCMaxOps
  MaxLate = 1
  NoCall = NoCall
INVARIANTS TypeOK EntryIdle ResponseExpected OwnAnswer
PROPERTY OperationsReturn
