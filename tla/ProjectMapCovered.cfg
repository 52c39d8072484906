SPECIFICATION MapSpec
CONSTANTS
  Projects <- MCCovered
  RoutesFile <- MCRoutesFile
  Underscore <- MCUnderscore
  ClassOf <- MCClassOf
  Params = {"7"}
  GroupDirectories <- MCGroups
  MaxGroupDepth = 1
  SmallClusterFiles = 2
  SeamsToMerge = 2
  MaxRounds = 2
  MaxAnchorFiles = 1
  MaxTerms = 2
  Changes <- MCChanges
  MaxIdLength = 3
  Names <- MCNames
  SlugOf <- MCSlugOf
INVARIANT CoveredIsDescribed
CHECK_DEADLOCK FALSE
