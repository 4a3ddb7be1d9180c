SPECIFICATION Spec
CONSTANTS
  Threads = {t1}
  NumDevices = 8
  Links = {l1, l2}
  Invalid = Invalid
  MaxDevices = 1
  MaxOpens = 1
  MaxDrops = 1
  MaxFails = 0
  MaxLate = 0
  Nobody = Nobody  Reason = Reason
INVARIANT OpenGivesDevice
