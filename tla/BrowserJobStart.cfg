SPECIFICATION FairSpec
CONSTANTS
  Pages = 1
  PerPage = 1
  MaxId <- ExactMaxId
PROPERTY EveryJobEnds
CHECK_DEADLOCK FALSE
