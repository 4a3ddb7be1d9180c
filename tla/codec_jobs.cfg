SPECIFICATION Spec
CONSTANTS
  Jobs <- AllJobs
  CommandSize = 64
INVARIANTS TypeOK ToldAsSent CommandsFramed StaysInside
