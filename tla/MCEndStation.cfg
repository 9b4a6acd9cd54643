\* An entity without a second member of a type that is looked up by position;
\* one read by the application and one re-enumeration at any moment.
CONSTANTS
  Desc <- OneUnitDesc
  Lists <- OneUnit
  CurrentConfig = 0
  MaxAppReads = 1
  MaxReenumerate = 1
SPECIFICATION FairSpec
INVARIANTS NeverFailsAtFirst NothingForgotten CompletedMeansRead
PROPERTIES EnumerationEnds
CHECK_DEADLOCK FALSE
