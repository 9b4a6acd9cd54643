----------------------------- MODULE MCThreads -----------------------------
(* Instances for TLC of the three ways the threads of the library meet: the *)
(* callback queue (EventQueue), the poll loop and the end of the Linux      *)
(* layer (SystemShutdown) and the threads of the Windows one (SystemMsvc).  *)
(* Each is independent of the others here, so a behaviour exercises one of  *)
(* them: part is the one chosen at the start.  The callback queue is that   *)
(* of the log, to which any thread posts, or that of the notifications, to  *)
(* which the poll thread posts.                                             *)
EXTENDS EventQueue, SystemShutdown, SystemMsvc

CONSTANTS
  Notifier,   \* the producer of notifications
  LogPosts    \* bound on the calls of post_log_msg; MaxPosts is the other queue's

VARIABLE part

sumVars == <<part, queueVars, shutVars, msvcVars, readVars>>

Posting(p) ==
  IF part = "log" THEN posts < LogPosts ELSE p = Notifier

InQueue(action) ==
  part \in {"log", "notification"} /\ action /\ UNCHANGED <<part, shutVars, msvcVars, readVars>>
InLinux(action) ==
  part = "linux" /\ action /\ UNCHANGED <<part, queueVars, msvcVars>>
InMsvc(action) ==
  part = "msvc" /\ action /\ UNCHANGED <<part, queueVars, shutVars>>

SumInit ==
  part \in {"log", "notification", "linux", "msvc"} /\ Init /\ ShutInit /\ MsvcInit

SumNext ==
  \/ \E p \in Producers : InQueue(Posting(p) /\ PostCheck(p))
  \/ \E p \in Producers : InQueue(PostClaim(p))
  \/ \E p \in Producers : InQueue(PostFill(p))
  \/ \E p \in Producers : InQueue(PostEvent(p))
  \/ InQueue(Close)
  \/ InQueue(Dispatch)
  \/ InLinux(ShutNext)
  \/ InMsvc(MsvcNext)

\* The fairness of each part; those of different parts are put together, since
\* a behaviour takes the steps of one part only.
SumSpec ==
  /\ SumInit /\ [][SumNext]_sumVars
  /\ WF_sumVars(InQueue(Dispatch) \/ InLinux(Poll) \/ InMsvc(PollThread))
  /\ \A p \in Producers :
       WF_sumVars(InQueue(PostClaim(p) \/ PostFill(p) \/ PostEvent(p)))
  /\ WF_sumVars(InLinux(DeleteSystem \/ DeleteOther)
                \/ InMsvc(app_thread # "run" /\ process_close))
  /\ WF_sumVars(InMsvc(WpcapThread))

\* On neither layer does the poll thread wait for space that only it can make, in
\* the pipe it alone reads (Linux) or the queue it alone empties (Windows), unless
\* commands the application does not wait for have filled all but a group of it.
NeverWaitsForItself == PollNeverBlocks /\ TxNeverBlocks

\* On either layer closing the system returns: destroy(), after which the
\* application deletes everything else (Linux), and process_close (Windows).
ClosingReturns == DestroyReturns /\ CloseReturns
=============================================================================
