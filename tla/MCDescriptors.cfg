\* Two calls of any kind; one change by others, one repeated read or one
\* re-enumeration at any moment (Bounded).
CONSTANTS
  Calls <- AllCalls
  Values = {1, 2}
  MaxCmds = 2
  MaxChanges = 1
  MaxReads = 1
  MaxReenumerate = 1
CONSTRAINT Bounded
SPECIFICATION CmdSpec
INVARIANTS CurrentWasTrue ReportedIsFresh SuccessMeansSetElsewhere FailsOnlyWhenReread
CHECK_DEADLOCK FALSE
