\* One call whose response is faster than the calling thread.
CONSTANTS
  NotifyIds = {1}
  Null = 0
  SeqIdMod = 4
  MsgTimeout = 0
  OpIds = {}
  UnsolicitedSeqIds = {}
  MaxCmds = 1
  MaxOps = 0
  MaxRejects = 0
SPECIFICATION SysFairSpec
PROPERTY EveryWaitEnds
CHECK_DEADLOCK FALSE
