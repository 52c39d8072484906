SPECIFICATION Spec
CONSTANTS
  l1 = l1
  l2 = l2
  v1 = v1
  None = None
  Launchers <- TwoRuns
  Versions <- OneVersion
  VersionOf <- SamePin
INVARIANT InterruptAlwaysCleansUp
CHECK_DEADLOCK FALSE
