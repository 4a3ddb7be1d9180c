SPECIFICATION Spec
CONSTANTS
  NumSlots = 2
  Chips = {"TI", "ST", "other"}
  None = None
  MaxCalls = 3
  MaxLost = 1
  MaxLate = 1
  MaxOdd = 1
INVARIANTS TypeOK OkMeansDone RightVendor NoCrash NoStaleBuffer
