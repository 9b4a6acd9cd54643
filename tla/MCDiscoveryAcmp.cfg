\* Two entities that advertise six times between them, under either valid time;
\* three commands of two kinds, whose sequence ids wrap at 2.
CONSTANTS
  Entities = {e1, e2}
  ValidTimes = {0, 1}
  Models = {m1, m2}
  MaxIndex = 1
  MaxAdpdus = 6
  MsgTypes <- Kinds
  acmp_cmd_to_timeout <- KindTimeout
  NotifyIds = {n1}
  SeqIdMod = 2
  OwnSeqIds = {0, 1}
  MaxCmds = 3
SPECIFICATION SumSpec
INVARIANTS TablesAgree EnumerationFollows NotGivenUpEarly NeverAnothersResponse
PROPERTIES ImplementsLifecycle NoEarlyDisconnect SilentAreDisconnected EveryCommandEnds
CHECK_DEADLOCK FALSE
