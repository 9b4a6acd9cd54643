\* Three calls or internal commands with operations; a call may be rejected before
\* it is queued.  OPERATION_STATUS frames carry sequence id 3, which no command
\* uses.
CONSTANTS
  NotifyIds = {1, 2}
  Null = 0
  SeqIdMod = 4
  MsgTimeout = 0
  OpIds = {1}
  UnsolicitedSeqIds = {3}
  MaxCmds = 3
  MaxOps = 2
  MaxRejects = 1
SPECIFICATION SysSpec
INVARIANTS AssertsHold NoStrayPost WaiterGetsOwnOutcome
CHECK_DEADLOCK FALSE
