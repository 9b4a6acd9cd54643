\* Responses, unsolicited responses and operations; sequence ids wrap at 2.
CONSTANTS
  NotifyIds = {n1}
  Null = null
  SeqIdMod = 2
  MsgTimeout = 0
  OpIds = {1}
  UnsolicitedSeqIds = {0, 1}
  MaxCmds = 3
  MaxOps = 2
SPECIFICATION Spec
INVARIANTS TypeOK NeverAnothersResponse OperationOwner
PROPERTIES ImplementsLifecycle
CHECK_DEADLOCK FALSE
