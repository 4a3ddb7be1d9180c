SPECIFICATION FairSpec
CONSTANTS
  t1 = t1  t2 = t2
  version = version  reset = reset  scan = scan
  Threads = {t1, t2}
  NumSlots = 2
  Opcodes = {version, reset, scan}
  OpcodesOf <- MCDisjoint
  WithResponse = {version, scan}
  DoubleAck = {}
  Outcomes = {"ok", "failed"}
  MaxCalls = 2
  MaxTimeouts = 0
  MaxFailures = 1
  NoOpcode = NoOpcode  NoThread = NoThread  NoCall = NoCall  Busy = Busy
INVARIANTS OwnReply NoAssertFailure BufferLive
PROPERTIES ServiceSpec CallsReturn
