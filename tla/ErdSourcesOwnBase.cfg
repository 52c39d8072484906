SPECIFICATION MCErdSpec
CONSTANTS
  Sources <- MCOwnBase
  SingularOf <- MCSingular
  ModelRank <- MCRank
INVARIANT ReadsTheSame
CHECK_DEADLOCK FALSE
