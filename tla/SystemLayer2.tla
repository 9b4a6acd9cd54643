---------------------------- MODULE SystemLayer2 ----------------------------
(***************************************************************************)
(* The Linux system layer (linux/system_layer2_multithreaded_callback.cpp) *)
(* with the wait manager (cmd_wait_mgr.cpp), around the AECP controller    *)
(* state machine.                                                          *)
(*                                                                         *)
(* Two threads.  The application thread asks for a wait                    *)
(* (set_wait_for_next_cmd), hands a command to queue_tx_frame, which       *)
(* writes it to the tx pipe, and, if the wait was asked for, blocks on     *)
(* waiting_sem.  The poll thread serves the pipe (fn_tx), the network      *)
(* (fn_netif) and the 25 ms timer (fn_timer); it alone runs the state      *)
(* machine, and it posts waiting_sem when the command waited for has       *)
(* ended.  The state of the wait manager is written by the application     *)
(* thread only; completion_status is written by the poll thread.           *)
(*                                                                         *)
(* The pipe is first in, first out and fn_tx is the only caller of         *)
(* state_send_cmd, so a frame written when Len(pipe) frames are waiting    *)
(* becomes command Issued + Len(pipe) + 1.                                 *)
(***************************************************************************)
EXTENDS AecpController

CONSTANT MaxRejects   \* bound on the commands rejected before they are queued

ASSUME SystemAssumption == MaxRejects \in Nat /\ NotifyIds \subseteq Nat \ {0}

VARIABLES
  pipe,              \* tx_pipe: frames on their way to the poll thread
  wait_state,        \* cmd_wait_mgr::state
  notify_id,         \* cmd_wait_mgr::notify_id
  completion_status, \* cmd_wait_mgr::completion_status
  waiting_sem,       \* value of the semaphore
  resp_status,       \* resp_status_for_cmd: what get_last_resp_status returns
  app,               \* application thread: where it is, and its current call
  poll_pc,           \* poll thread: where it is
  rx,                \* locals of fn_netif: notification_id, rx_status
  notification_id_incomplete,  \* local of fn_timer
  post_status,       \* status about to be posted
  rejects            \* commands rejected so far

appVars  == <<wait_state, notify_id, resp_status, app, rejects>>
pollVars == <<poll_pc, rx, notification_id_incomplete, post_status>>
sysVars  == <<aecpVars, appVars, pollVars, pipe, completion_status, waiting_sem>>

\* A status is identified with what it reports: the response to a command
\* (0: to none), the timeout of the command waited for, or nothing yet.
NoStatus      == [kind |-> "none", cmd |-> 0]
TICK_TIMEOUT  == [kind |-> "TICK_TIMEOUT", cmd |-> 0]
Status(c)     == [kind |-> "response", cmd |-> c]
Statuses      == {NoStatus, TICK_TIMEOUT} \cup {Status(c) : c \in 0 .. MaxCmds}

TxData == [notification_id : Ids, notification_flag : Flags, op : OpIds \cup {NoOp}]

Queued == Issued + Len(pipe)

\* write(tx_pipe[PIPE_WR], ...)
WritePipe(id, flag, op) ==
  pipe' = Append(pipe, [notification_id |-> id, notification_flag |-> flag, op |-> op])
-----------------------------------------------------------------------------
(***************************************************************************)
(* cmd_wait_mgr.cpp.  Each set_ function returns -1 and does nothing in    *)
(* the wrong state.                                                        *)
(***************************************************************************)
set_primed_state(id) ==
  IF wait_state = "idle"
  THEN wait_state' = "primed" /\ notify_id' = id
  ELSE UNCHANGED <<wait_state, notify_id>>

set_active_state == wait_state = "primed" /\ wait_state' = "active"
set_idle_state   == wait_state = "active" /\ wait_state' = "idle"

match_id(id)  == id = notify_id
active_state  == wait_state = "active"
primed_state  == wait_state = "primed"
-----------------------------------------------------------------------------
(***************************************************************************)
(* The application thread.  app.id is the notification id of its current   *)
(* or last call, fresh for each call; app.wait says whether it asked for a *)
(* wait and app.cmd is the number of the command it queued (0: none).      *)
(***************************************************************************)
AppGoto(pc) == app' = [app EXCEPT !.pc = pc]

\* set_wait_for_next_cmd ignores a failing set_primed_state.
AppCall(wait) ==
  /\ app.pc = "run"
  /\ app.id + 1 \in NotifyIds
  /\ Queued < MaxCmds
  /\ IF wait THEN set_primed_state(app.id + 1)
             ELSE UNCHANGED <<wait_state, notify_id>>
  /\ app' = [pc |-> "calling", id |-> app.id + 1, wait |-> wait, cmd |-> 0]
  /\ UNCHANGED <<aecpVars, pollVars, pipe, completion_status, waiting_sem,
                 resp_status, rejects>>

\* The command function fails before it reaches system_queue_tx
\* (start_operation_cmd with an unknown operation type).
AppReject ==
  /\ app.pc = "calling"
  /\ rejects < MaxRejects
  /\ rejects' = rejects + 1
  /\ AppGoto("run")
  /\ UNCHANGED <<aecpVars, pollVars, pipe, completion_status, waiting_sem,
                 wait_state, notify_id, resp_status>>

\* queue_tx_frame, up to and including the write to the pipe.
AppWrite(op) ==
  /\ app.pc = "calling"
  /\ Queued < MaxCmds
  /\ WritePipe(app.id, CMD_WITH_NOTIFICATION, op)
  /\ app' = [app EXCEPT !.pc = "written", !.cmd = Queued + 1]
  /\ UNCHANGED <<aecpVars, pollVars, completion_status, waiting_sem,
                 wait_state, notify_id, resp_status, rejects>>

\* queue_tx_frame, the check after the write.  The poll thread writes neither
\* the state nor the id, so the check and set_active_state are one step.
AppCheck ==
  /\ app.pc = "written"
  /\ \/ /\ primed_state /\ match_id(app.id)
        /\ set_active_state
        /\ AppGoto("waiting")
     \/ /\ ~(primed_state /\ match_id(app.id))
        /\ UNCHANGED wait_state
        /\ AppGoto("run")
  /\ UNCHANGED <<aecpVars, pollVars, pipe, completion_status, waiting_sem,
                 notify_id, resp_status, rejects>>

\* sem_wait returns.
AppWake ==
  /\ app.pc = "waiting"
  /\ waiting_sem > 0
  /\ waiting_sem' = waiting_sem - 1
  /\ AppGoto("woken")
  /\ UNCHANGED <<aecpVars, pollVars, pipe, completion_status, wait_state,
                 notify_id, resp_status, rejects>>

AppGetStatus ==
  /\ app.pc = "woken"
  /\ resp_status' = completion_status
  /\ AppGoto("leaving")
  /\ UNCHANGED <<aecpVars, pollVars, pipe, completion_status, waiting_sem,
                 wait_state, notify_id, rejects>>

AppIdle ==
  /\ app.pc = "leaving"
  /\ set_idle_state
  /\ AppGoto("run")
  /\ UNCHANGED <<aecpVars, pollVars, pipe, completion_status, waiting_sem,
                 notify_id, resp_status, rejects>>
-----------------------------------------------------------------------------
(***************************************************************************)
(* The poll thread.                                                        *)
(***************************************************************************)
Poll(from, to) == poll_pc = from /\ poll_pc' = to

\* fn_tx
PollTx ==
  /\ Poll("poll", "poll")
  /\ pipe # <<>>
  /\ SendCmd(<<Head(pipe).notification_id, Head(pipe).notification_flag>>,
             Head(pipe).op)
  /\ pipe' = Tail(pipe)
  /\ UNCHANGED <<appVars, completion_status, waiting_sem, rx,
                 notification_id_incomplete, post_status>>

\* The command whose operation an OPERATION_STATUS is about; 0 if unknown.
OperationCmd(op) ==
  IF \E j \in DOMAIN active_operations : FirstWithOperationId(j, op)
  THEN active_operations[CHOOSE j \in DOMAIN active_operations :
                           FirstWithOperationId(j, op)].cmd
  ELSE 0

\* fn_netif up to the return of rx_packet_event.
PollRx ==
  /\ Poll("poll", "rx")
  /\ \E nid \in Ids :
       \/ \E c \in DOMAIN hist :
            /\ RcvdResp(c, nid) \/ RcvdStartOperationResp(c, nid)
            /\ rx' = [notification_id |-> nid, rx_status |-> Status(c)]
       \/ \E s \in UnsolicitedSeqIds :
            /\ RcvdUnsolicited(s, nid)
            /\ rx' = [notification_id |-> nid, rx_status |-> Status(0)]
       \/ \E s \in UnsolicitedSeqIds, op \in OpIds, fin \in BOOLEAN :
            /\ RcvdOperationStatus(s, op, fin, nid)
            /\ rx' = [notification_id |-> nid, rx_status |-> Status(OperationCmd(op))]
  /\ UNCHANGED <<appVars, pipe, completion_status, waiting_sem,
                 notification_id_incomplete, post_status>>

\* A response can make the background read queue its next read, and so can
\* the timer, in both cases before the handler looks at the wait manager.
\* Such a command carries no notification, and the poll thread does not wait.
PollQueueInternal ==
  /\ poll_pc \in {"rx", "ticked"}
  /\ Queued + (IF app.pc = "calling" THEN 1 ELSE 0) < MaxCmds
  /\ WritePipe(Null, CMD_WITHOUT_NOTIFICATION, NoOp)
  /\ UNCHANGED <<aecpVars, appVars, pollVars, completion_status, waiting_sem>>

\* The command or operation waited for has not ended.
Incomplete ==
  \/ is_inflight_cmd_with_notification_id(notify_id)
  \/ is_active_operation_with_notification_id(notify_id)

\* The poll thread goes on to post the status if the wait is over.
PostIf(from, done, status) ==
  /\ Poll(from, IF done THEN "post" ELSE "poll")
  /\ post_status' = IF done THEN status ELSE post_status
  /\ UNCHANGED <<aecpVars, appVars, pipe, completion_status, waiting_sem, rx,
                 notification_id_incomplete>>

\* Mutants: without active_state(); without the lookup of the operations.
RxCheck_primed ==
  PostIf("rx", match_id(rx.notification_id) /\ ~Incomplete, rx.rx_status)
RxCheck_started ==
  PostIf("rx", /\ active_state /\ match_id(rx.notification_id)
               /\ ~is_inflight_cmd_with_notification_id(notify_id), rx.rx_status)

\* fn_netif: the check after rx_packet_event.
RxCheck ==
  PostIf("rx", active_state /\ match_id(rx.notification_id) /\ ~Incomplete,
         rx.rx_status)

\* fn_timer, up to the start of tick().
TimerBegin ==
  /\ Poll("poll", "tick")
  /\ notification_id_incomplete' = (active_state /\ Incomplete)
  /\ TickBegin
  /\ UNCHANGED <<appVars, pipe, completion_status, waiting_sem, rx, post_status>>

TimerTick ==
  /\ \/ Poll("tick", "tick") /\ TickStep
     \/ Poll("tick", "ticked") /\ TickEnd
  /\ UNCHANGED <<appVars, pipe, completion_status, waiting_sem, rx,
                 notification_id_incomplete, post_status>>

\* Mutants: notification_id_incomplete is not consulted; it is taken after
\* the tick instead of before.
TimerCheck_nobefore == PostIf("ticked", active_state /\ ~Incomplete, TICK_TIMEOUT)
TimerCheck_late ==
  PostIf("ticked", active_state /\ Incomplete /\ ~Incomplete, TICK_TIMEOUT)

\* fn_timer after time_tick_event: is_timeout_for_waiting_notify_id.
TimerCheck ==
  PostIf("ticked", active_state /\ notification_id_incomplete /\ ~Incomplete,
         TICK_TIMEOUT)

\* set_completion_status and sem_post.
PollPost ==
  /\ Poll("post", "poll")
  /\ completion_status' = IF active_state THEN post_status ELSE completion_status
  /\ waiting_sem' = waiting_sem + 1
  /\ UNCHANGED <<aecpVars, appVars, pipe, rx, notification_id_incomplete, post_status>>

SysElapse ==
  /\ Elapse
  /\ UNCHANGED <<appVars, pollVars, pipe, completion_status, waiting_sem>>
-----------------------------------------------------------------------------
SysInit ==
  /\ Init
  /\ pipe = <<>>
  /\ wait_state = "idle"
  /\ notify_id = Null
  /\ completion_status = NoStatus
  /\ waiting_sem = 0
  /\ resp_status = NoStatus
  /\ app = [pc |-> "run", id |-> 0, wait |-> FALSE, cmd |-> 0]
  /\ poll_pc = "poll"
  /\ rx = [notification_id |-> Null, rx_status |-> NoStatus]
  /\ notification_id_incomplete = FALSE
  /\ post_status = NoStatus
  /\ rejects = 0

AppNext ==
  \/ \E wait \in BOOLEAN : AppCall(wait)
  \/ AppReject
  \/ \E op \in OpIds \cup {NoOp} : AppWrite(op)
  \/ AppCheck
  \/ AppWake
  \/ AppGetStatus
  \/ AppIdle

PollNext ==
  \/ PollTx
  \/ PollRx
  \/ PollQueueInternal
  \/ RxCheck
  \/ TimerBegin
  \/ TimerTick
  \/ TimerCheck
  \/ PollPost

SysNext == AppNext \/ PollNext \/ SysElapse

SysSpec == SysInit /\ [][SysNext]_sysVars

(***************************************************************************)
(* Each round of epoll_wait serves every descriptor that is ready, so the  *)
(* pipe and the timer are served again and again even while frames keep    *)
(* arriving (strong fairness).  The application thread is scheduled once   *)
(* it is inside a call; it need not make calls.  Nothing is assumed of the *)
(* network.                                                                *)
(***************************************************************************)
SysFairness ==
  /\ SF_sysVars(PollTx)
  /\ SF_sysVars(TimerBegin)
  /\ WF_sysVars(TimerTick)
  /\ WF_sysVars(TimerCheck)
  /\ WF_sysVars(RxCheck)
  /\ WF_sysVars(PollPost)
  /\ WF_sysVars(SysElapse)
  /\ WF_sysVars(AppCheck)
  /\ WF_sysVars(AppWake)
  /\ WF_sysVars(AppGetStatus)
  /\ WF_sysVars(AppIdle)

SysFairSpec == SysSpec /\ SysFairness
-----------------------------------------------------------------------------
SysTypeOK ==
  /\ pipe \in Seq(TxData)
  /\ wait_state \in {"idle", "primed", "active"}
  /\ notify_id \in Ids
  /\ completion_status \in Statuses
  /\ waiting_sem \in Nat
  /\ resp_status \in Statuses
  /\ app \in [pc : {"run", "calling", "written", "waiting", "woken", "leaving"},
              id : NotifyIds \cup {0}, wait : BOOLEAN, cmd : 0 .. MaxCmds]
  /\ poll_pc \in {"poll", "rx", "post", "tick", "ticked"}
  /\ rx \in [notification_id : Ids, rx_status : Statuses]
  /\ notification_id_incomplete \in BOOLEAN
  /\ post_status \in Statuses
  /\ rejects \in 0 .. MaxRejects

\* The state is one the code can name, and the asserts of fn_netif and fn_timer
\* hold: between the poll thread's check
\* that a wait is active and its set_completion_status and sem_post, the
\* application thread cannot have left the wait.
AssertsHold == SysTypeOK /\ (poll_pc = "post" => active_state)

\* A post reaches the wait it was meant for: outside a wait the semaphore is 0
\* and nobody is about to post it, so that no later wait returns at once.
NoStrayPost ==
  /\ waiting_sem <= 1
  /\ wait_state # "active" => waiting_sem = 0
  /\ app.pc \in {"woken", "leaving"} => waiting_sem = 0 /\ poll_pc # "post"

\* When a call that asked for a wait is over, get_last_resp_status returns the
\* outcome of that very command: its response, the final status of the
\* operation it started, or a timeout if and only if it timed out.  Not so while
\* the wait manager is still primed for a call that was rejected: then the wait
\* asked for is refused, nobody looks at that, and the call returns at once.
WaiterGetsOwnOutcome ==
  (app.pc = "run" /\ app.wait /\ app.cmd # 0 /\ wait_state = "idle") =>
    \E c \in DOMAIN hist \cap {app.cmd} :
      \E k \in DOMAIN hist[c].outcome :
        \/ /\ resp_status = Status(c)
           /\ hist[c].outcome[k].end = "RESPONSE_RECEIVED"
        \/ /\ resp_status = TICK_TIMEOUT
           /\ hist[c].outcome[k].end = "COMMAND_TIMEOUT"

\* The command the application waits for cannot end unnoticed any more: it is
\* on its way to the poll thread or the poll thread, not in the middle of a
\* tick that missed the wait, has it in flight.
WaitInTime ==
  /\ app.pc = "waiting"
  /\ \/ app.cmd > Issued /\ pipe[app.cmd - Issued].op = NoOp
     \/ /\ app.cmd \in DOMAIN hist
        /\ hist[app.cmd].op = NoOp
        /\ InFlight(app.cmd)
        /\ poll_pc \in {"tick", "ticked"} => notification_id_incomplete

\* A wait for a command that began in time ends, whatever the network loses.
\* (A wait for an operation has no timeout.)
WaiterReleased == WaitInTime ~> (app.pc = "run")

\* Every wait ends, with a response or with a timeout.
EveryWaitEnds == (app.pc = "waiting") ~> (app.pc = "run")
=============================================================================
