\* Setting the format of an output stream.
CONSTANTS
  Calls <- FormatCalls
  Values = {1, 2}
  MaxCmds = 2
  MaxChanges = 1
  MaxReads = 0
  MaxReenumerate = 0
CONSTRAINT Bounded
SPECIFICATION CmdSpec
INVARIANT SuccessMeansSet
CHECK_DEADLOCK FALSE
