SPECIFICATION FairSpec
CONSTANTS
  Threads = {t1, t2}
  NumDevices = 8
  Links = {l1, l2}
  Invalid = Invalid
  MaxDevices = 2
  MaxOpens = 2
  MaxDrops = 2
  MaxFails = 1
  MaxLate = 1
  Nobody = Nobody  Reason = Reason
INVARIANTS TypeOK LinksOwned SteadyOpens
PROPERTIES LinkEventsHandled 
