SPECIFICATION Spec
CONSTANTS
  s1 = s1
  s2 = s2
  s3 = s3
  t1 = t1
  p1 = p1
  p2 = p2
  Foreign = Foreign
  None = None
  Starts <- TwoStarts
  Stops <- NoStop
  Ports <- BothPorts
  PortOf <- OneOther
  Overlap = TRUE
  Prompt = TRUE
PROPERTY StartTouchesNoLiveServer
CHECK_DEADLOCK FALSE
