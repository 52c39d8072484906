CONSTANTS
  mneme = mneme
  figura = figura
  e1 = e1
  e2 = e2
  NoEngine = NoEngine
  Bundles <- BothBundles
  Plugin <- mneme
  Engines <- TwoEngines
  MaxCommits = 4
SPECIFICATION Spec
INVARIANT EveryReleaseBumps
CHECK_DEADLOCK FALSE
