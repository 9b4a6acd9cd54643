\* log: log.cpp, to which the application thread and the poll thread post;
\* two of its calls may be under way at once, so that the two slots are filled out
\* of turn, reused and overrun.
\* notification: notification.cpp, to which the poll thread posts often enough for
\* the index of a message to wrap at 6, for a third message to be posted with two
\* unread (the space test is >, not >=) and for calls to be turned away.
\* linux: reads of two at a time, two enumerations; the pipe holds what a group, a
\* read of ENTITY and a command need and no more, and two commands that are not
\* waited for fill it up under the poll thread.
\* msvc: the same reads; the transmit queue is as long, and has one command, so
\* that it must not fill up.  The receive queue is always full or empty.
CONSTANTS
  Producers = {app, poll}
  BUF_COUNT = 2
  IndexMod = 6
  MaxPosts = 7
  Notifier = poll
  LogPosts = 3
  MaxBurst = 2
  MaxReads = 3
  MaxEntityReads = 2
  PipeSize = 4
  MaxCmds = 2
  MaxInterrupts = 1
  RxCount = 1
  TxCount = 4
  MaxFrames = 2
  MaxPushes = 1
SPECIFICATION SumSpec
INVARIANTS StopsOnlyWhenClosed IntactWithinCapacity ObjectsOutlivePoll NeverWaitsForItself QueuesIntact CommandsSentBeforeEnd
PROPERTIES EveryPostDelivered ClosingReturns
CHECK_DEADLOCK FALSE
