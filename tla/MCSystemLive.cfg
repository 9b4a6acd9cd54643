\* Every frame may be lost; one command may be rejected before it is queued.
CONSTANTS
  NotifyIds = {1, 2}
  Null = 0
  SeqIdMod = 4
  MsgTimeout = 0
  OpIds = {}
  UnsolicitedSeqIds = {}
  MaxCmds = 2
  MaxOps = 0
  MaxRejects = 1
SPECIFICATION SysFairSpec
PROPERTIES WaiterReleased EveryCommandEnds
CHECK_DEADLOCK FALSE
