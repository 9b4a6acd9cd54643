--------------------------- MODULE SystemShutdown ---------------------------
(***************************************************************************)
(* The poll loop, the transmit pipe and the end of the Linux system layer  *)
(* (linux/system_layer2_multithreaded_callback.cpp), as cmd_line uses it:  *)
(* the application thread queues commands, waits for them or not and, in   *)
(* the end, destroys the system, the controller and the network interface, *)
(* in that order.  SystemLayer2 has the wait itself.  The osx layer is the *)
(* same algorithm over kqueue, but that an interrupted wait ends the       *)
(* program there.                                                          *)
(*                                                                         *)
(* local_system is a plain global: the application thread clears it while  *)
(* the poll thread may be between testing it and calling through it in     *)
(* system_queue_tx.  Whether it is then loaded again is the compiler's     *)
(* choice.                                                                 *)
(***************************************************************************)
EXTENDS BackgroundReads

CONSTANTS
  PipeSize,      \* tx_data records the pipe holds
  MaxCmds,       \* bound on the commands of the application
  MaxInterrupts  \* bound on the calls of epoll_wait and sem_wait a signal ends

ASSUME ShutdownAssumption ==
  PipeSize \in Nat \ {0} /\ MaxCmds \in Nat /\ MaxInterrupts \in Nat

VARIABLES
  local_system,  \* not NULL
  objects,       \* objects not deleted yet
  shutdown_sem,
  tx_pipe,
  poll_pc,
  events,        \* what epoll_wait returned and is not handled yet
  interrupts,
  app_pc,
  cmds,          \* commands issued
  unwaited,      \* one of them without a wait
  abandoned      \* destroy() did not wait for the poll thread

shutVars == <<local_system, objects, shutdown_sem, tx_pipe, poll_pc, events,
              interrupts, app_pc, cmds, unwaited, abandoned>>
allShutVars == <<shutVars, readVars>>

Objects == {"system", "controller", "netif"}
Events  == {"timer", "netif", "tx"}
PollPcs == {"epoll_wait", "woken", "handle", "test", "call", "write",
            "ended", "failed", "crashed"}
AppPcs  == {"run", "wait", "sem_wait", "controller", "netif", "gone"}

QueuedReads    == CountOf(tx_pipe, "read")
QueuedCommands == CountOf(tx_pipe, "command")
-----------------------------------------------------------------------------
\* epoll_wait returns what is ready: the timer every 25 ms, the interface when
\* a frame came in.
EpollWait ==
  /\ poll_pc = "epoll_wait"
  /\ \E es \in SUBSET Events \ {{}} :
       /\ "tx" \in es => tx_pipe # <<>>
       /\ events' = es
  /\ poll_pc' = "woken"
  /\ UNCHANGED <<local_system, objects, shutdown_sem, tx_pipe, interrupts, app_pc,
                 cmds, unwaited, abandoned, readVars>>

\* A signal ends epoll_wait: res is -1.
EpollInterrupted ==
  /\ poll_pc = "epoll_wait"
  /\ interrupts < MaxInterrupts
  /\ interrupts' = interrupts + 1
  /\ events' = {}
  /\ poll_pc' = "woken"
  /\ UNCHANGED <<local_system, objects, shutdown_sem, tx_pipe, app_pc, cmds,
                 unwaited, abandoned, readVars>>

\* Mutant: the timer alone does not make the loop look at local_system.
EpollCheck_idle ==
  /\ poll_pc = "woken"
  /\ \/ /\ ~local_system
        /\ events # {"timer"}
        /\ shutdown_sem' = shutdown_sem + 1
        /\ poll_pc' = "ended"
     \/ /\ local_system \/ events = {"timer"}
        /\ poll_pc' = IF events = {} THEN "failed" ELSE "handle"
        /\ UNCHANGED shutdown_sem
  /\ UNCHANGED <<local_system, objects, tx_pipe, events, interrupts, app_pc,
                 cmds, unwaited, abandoned,
                 readVars>>

\* Shut down, failed, or events to handle.
EpollCheck ==
  /\ poll_pc = "woken"
  /\ \/ /\ ~local_system
        /\ shutdown_sem' = shutdown_sem + 1
        /\ poll_pc' = "ended"
     \/ /\ local_system
        /\ poll_pc' = IF events = {} THEN "failed" ELSE "handle"
        /\ UNCHANGED shutdown_sem
  /\ UNCHANGED <<local_system, objects, tx_pipe, events, interrupts, app_pc,
                 cmds, unwaited, abandoned,
                 readVars>>

\* The end of a handler that queues nothing, or what it has to queue.
Handled ==
  /\ poll_pc' = IF to_queue' # <<>> THEN "test"
                ELSE IF events' = {} THEN "epoll_wait" ELSE "handle"
  /\ UNCHANGED <<local_system, objects, shutdown_sem, interrupts, app_pc, cmds,
                 unwaited, abandoned>>

fn_tx ==
  /\ poll_pc = "handle"
  /\ "tx" \in events
  /\ events' = events \ {"tx"}
  /\ tx_pipe' = Tail(tx_pipe)
  /\ UNCHANGED readVars
  /\ Handled

\* rx_packet_event: a response to a read, the advertisement of an entity, or
\* something that makes it send nothing.
fn_netif ==
  /\ poll_pc = "handle"
  /\ "netif" \in events
  /\ events' = events \ {"netif"}
  /\ ReadAnswered(QueuedReads) \/ Enumerate \/ UNCHANGED readVars
  /\ UNCHANGED tx_pipe
  /\ Handled

fn_timer ==
  /\ poll_pc = "handle"
  /\ "timer" \in events
  /\ events' = events \ {"timer"}
  /\ ReadsTimedOut(QueuedReads)
  /\ UNCHANGED tx_pipe
  /\ Handled

\* system_queue_tx in the poll thread: if (local_system) ...
system_queue_tx_test ==
  /\ poll_pc = "test"
  /\ \/ /\ local_system
        /\ poll_pc' = "call"
        /\ UNCHANGED readVars
     \/ /\ ~local_system
        /\ ReadQueued
        /\ poll_pc' = IF to_queue' # <<>> THEN "test"
                      ELSE IF events = {} THEN "epoll_wait" ELSE "handle"
  /\ UNCHANGED <<local_system, objects, shutdown_sem, tx_pipe, events, interrupts,
                 app_pc, cmds, unwaited, abandoned>>

\* ... return local_system->queue_tx_frame(...)
system_queue_tx_call ==
  /\ poll_pc = "call"
  /\ \/ poll_pc' = "write"
     \/ ~local_system /\ poll_pc' = "crashed"
  /\ UNCHANGED <<local_system, objects, shutdown_sem, tx_pipe, events, interrupts,
                 app_pc, cmds, unwaited, abandoned, readVars>>

\* write() blocks while the pipe is full.
PollWrite ==
  /\ poll_pc = "write"
  /\ Len(tx_pipe) < PipeSize
  /\ tx_pipe' = Append(tx_pipe, Head(to_queue))
  /\ ReadQueued
  /\ UNCHANGED events
  /\ Handled

\* A signal ended destroy()'s wait: the thread goes on in what is deleted, if only
\* to post shutdown_sem, which is undefined.
PollUsesDeleted ==
  /\ objects # Objects
  /\ poll_pc \notin {"epoll_wait", "ended", "failed", "crashed"}
  /\ poll_pc' = "crashed"
  /\ UNCHANGED <<local_system, objects, shutdown_sem, tx_pipe, events, interrupts,
                 app_pc, cmds, unwaited, abandoned, readVars>>

Poll ==
  \/ EpollWait \/ EpollInterrupted \/ EpollCheck
  \/ fn_tx \/ fn_netif \/ fn_timer
  \/ system_queue_tx_test \/ system_queue_tx_call \/ PollWrite
  \/ PollUsesDeleted
-----------------------------------------------------------------------------
\* The application thread queues a command and waits for it, unless it is one of
\* those of cmd_show_connections, or the wait manager is primed for another id ...
AppQueue(waits) ==
  /\ app_pc = "run"
  /\ cmds < MaxCmds
  /\ Len(tx_pipe) < PipeSize
  /\ tx_pipe' = Append(tx_pipe, "command")
  /\ cmds' = cmds + 1
  /\ app_pc' = IF waits THEN "wait" ELSE "run"
  /\ unwaited' = (unwaited \/ ~waits)
  /\ UNCHANGED <<local_system, objects, shutdown_sem, poll_pc, events, interrupts,
                 abandoned, readVars>>

\* ... until a response or the timeout of the frame sent releases it, or that of
\* one sent before under the same id, which was not waited for.
AppReleased ==
  /\ app_pc = "wait"
  /\ unwaited \/ QueuedCommands = 0
  /\ poll_pc \notin {"ended", "failed", "crashed"}
  /\ app_pc' = "run"
  /\ UNCHANGED <<local_system, objects, shutdown_sem, tx_pipe, poll_pc, events,
                 interrupts, cmds, unwaited, abandoned, readVars>>

\* cmd_line::~cmd_line: process_close does nothing.
Destroy ==
  /\ app_pc = "run"
  /\ local_system' = FALSE
  /\ app_pc' = "sem_wait"
  /\ UNCHANGED <<objects, shutdown_sem, tx_pipe, poll_pc, events, interrupts,
                 cmds, unwaited, abandoned,
                 readVars>>

DeleteSystem_nowait ==                                           \* mutant
  /\ app_pc = "sem_wait"
  /\ objects' = objects \ {"system"}
  /\ app_pc' = "controller"
  /\ UNCHANGED <<local_system, shutdown_sem, tx_pipe, poll_pc, events, interrupts,
                 cmds, unwaited, abandoned, readVars>>

DeleteSystem ==
  /\ app_pc = "sem_wait"
  /\ shutdown_sem > 0
  /\ shutdown_sem' = shutdown_sem - 1
  /\ objects' = objects \ {"system"}
  /\ app_pc' = "controller"
  /\ UNCHANGED <<local_system, tx_pipe, poll_pc, events, interrupts, cmds,
                 unwaited, abandoned, readVars>>

\* sem_wait fails: destroy() prints that, and goes on.
DestroyInterrupted ==
  /\ app_pc = "sem_wait"
  /\ interrupts < MaxInterrupts
  /\ interrupts' = interrupts + 1
  /\ abandoned' = TRUE
  /\ objects' = objects \ {"system"}
  /\ app_pc' = "controller"
  /\ UNCHANGED <<local_system, shutdown_sem, tx_pipe, poll_pc, events, cmds,
                 unwaited,
                 readVars>>

\* controller_obj->destroy(), then netif->destroy().
DeleteOther ==
  /\ app_pc \in {"controller", "netif"}
  /\ objects' = objects \ {app_pc}
  /\ app_pc' = IF app_pc = "controller" THEN "netif" ELSE "gone"
  /\ UNCHANGED <<local_system, shutdown_sem, tx_pipe, poll_pc, events, interrupts,
                 cmds, unwaited, abandoned, readVars>>

App ==
  \/ \E waits \in BOOLEAN : AppQueue(waits)
  \/ AppReleased \/ Destroy \/ DeleteSystem \/ DestroyInterrupted \/ DeleteOther
-----------------------------------------------------------------------------
ShutInit ==
  /\ ReadsInit
  /\ local_system = TRUE
  /\ objects = Objects
  /\ shutdown_sem = 0
  /\ tx_pipe = <<>>
  /\ poll_pc = "epoll_wait"
  /\ events = {}
  /\ interrupts = 0
  /\ app_pc = "run"
  /\ cmds = 0
  /\ unwaited = FALSE
  /\ abandoned = FALSE

ShutNext == Poll \/ App

\* The poll thread runs (its timer ticks), and the application thread goes on
\* with what it has begun; it need not begin anything.
ShutFairness ==
  /\ WF_allShutVars(Poll)
  /\ WF_allShutVars(DeleteSystem \/ DeleteOther)

ShutSpec == ShutInit /\ [][ShutNext]_allShutVars /\ ShutFairness
-----------------------------------------------------------------------------
ShutTypeOK ==
  /\ ReadsTypeOK
  /\ local_system \in BOOLEAN
  /\ objects \subseteq Objects
  /\ shutdown_sem \in 0 .. 1
  /\ tx_pipe \in Seq(ReadFrames \cup {"command"})
  /\ poll_pc \in PollPcs
  /\ events \subseteq Events
  /\ interrupts \in 0 .. MaxInterrupts
  /\ app_pc \in AppPcs
  /\ cmds \in 0 .. MaxCmds
  /\ unwaited \in BOOLEAN
  /\ abandoned \in BOOLEAN

\* As long as the poll thread is in its loop no object it uses is deleted:
\* destroy() returns only when the loop has seen local_system cleared and will
\* touch nothing more, and the others are destroyed after it.  A destroy() that a
\* signal has taken out of its wait is excepted.
ObjectsOutlivePoll ==
  /\ ShutTypeOK
  /\ poll_pc \notin {"ended", "failed", "crashed"} /\ ~abandoned => objects = Objects

PollStuck == poll_pc = "write" /\ Len(tx_pipe) = PipeSize

\* The poll thread, the only reader of the pipe, waits for space in it only if
\* the application has queued commands without waiting, as many as there are
\* streams, and these have filled all of the pipe but a group of reads: a group is
\* queued when the one before is answered, so that one group, one read of ENTITY
\* and, of an application that waits, one command are all there can be.  A second
\* enumeration may overtake the reads queued by the first and is excepted.
PollNeverBlocks ==
  PollStuck /\ entity_reads <= 1 /\ PipeSize >= MaxBurst + 2 =>
    unwaited /\ QueuedCommands >= PipeSize - MaxBurst

\* destroy() returns and everything is deleted, though nothing wakes the poll
\* thread for it, unless the thread was lost before: to a signal during
\* epoll_wait, to a full pipe, or to local_system cleared under it.
DestroyReturns ==
  (app_pc = "sem_wait") ~>
    (app_pc = "gone" \/ poll_pc \in {"failed", "crashed"} \/ PollStuck)
=============================================================================
