SPECIFICATION FairSpec
CONSTANTS
  s1 = s1
  s2 = s2
  s3 = s3
  t1 = t1
  p1 = p1
  p2 = p2
  Foreign = Foreign
  None = None
  Starts <- ThreeStarts
  Stops <- OneStop
  Ports <- BothPorts
  PortOf <- OneOther
  Overlap = FALSE
  Prompt = TRUE
INVARIANTS
  OneServer
  UpIsRegistered
  ReportsAreTrue
PROPERTIES
  StopLeavesNoServer
  EveryCommandAnswers
CHECK_DEADLOCK FALSE
