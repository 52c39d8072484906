SPECIFICATION FairSpec
CONSTANTS
  Pages = 2
  PerPage = 2
  MaxId <- ExactMaxId
INVARIANTS
  TypeOK
  DeadlinesAreExact
  FailedSessionOwesNothing
  ActsOnLoadedPages
  EndsClean
PROPERTIES
  LoadIsNotMissed
  StartedJobEnds
CHECK_DEADLOCK FALSE
