SPECIFICATION Spec
CONSTANTS
  t1 = t1  t2 = t2
  version = version  reset = reset  scan = scan
  Threads = {t1, t2}
  NumSlots = 2
  Opcodes = {version, reset}
  OpcodesOf <- MCMixed
  WithResponse = {version}
  DoubleAck = {reset}
  Outcomes = {"ok"}
  MaxCalls = 2
  MaxTimeouts = 2
  MaxFailures = 0
  NoOpcode = NoOpcode  NoThread = NoThread  NoCall = NoCall  Busy = Busy
INVARIANTS TypeOK SlotExclusive LeakPerTimeout
