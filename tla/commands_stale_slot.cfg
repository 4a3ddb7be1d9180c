SPECIFICATION Spec
CONSTANTS
  t1 = t1  t2 = t2
  version = version  reset = reset  scan = scan
  Threads = {t1}
  NumSlots = 4
  Opcodes = {version}
  OpcodesOf <- MCShared
  WithResponse = {version}
  DoubleAck = {}
  Outcomes = {"ok", "failed"}
  MaxCalls = 2
  MaxTimeouts = 2
  MaxFailures = 0
  NoOpcode = NoOpcode  NoThread = NoThread  NoCall = NoCall  Busy = Busy
PROPERTY NoAnswerIgnored
