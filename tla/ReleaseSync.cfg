CONSTANTS
  mneme = mneme
  figura = figura
  e1 = e1
  e2 = e2
  NoEngine = NoEngine
  Bundles <- BothBundles
  Plugin <- mneme
  Engines <- TwoEngines
  MaxCommits = 4
  Lacking = Lacking
  KebabNames <- MCKebabNames
  Digests <- MCDigests
  Proposed <- MCProposed
  Payloads <- MCPayloads
  Published <- MCPublished
SPECIFICATION ReleaseSpec
SYMMETRY Symmetry
INVARIANT BotCommitsAreStamped
INVARIANT VersionsNeverGoBack
INVARIANT BumpLeavesNothingUnversioned
INVARIANT PluginChangesGetAVersion
INVARIANT GatedPinsInstall
CHECK_DEADLOCK FALSE
