---------------------------- MODULE SystemProofs ----------------------------
(***************************************************************************)
(* The wait of the Linux system layer, for every value of the constants:   *)
(* the asserts of fn_netif and fn_timer hold, every post reaches the wait  *)
(* it was meant for, and a waiting call returns the outcome of its own     *)
(* command.                                                                *)
(*                                                                         *)
(* Every step of the system is a step of the AECP controller or leaves it  *)
(* alone, so its invariant RInv holds here as it does there.  The rest of  *)
(* the argument is about who may post and when:                            *)
(*                                                                         *)
(*   CallIds    the id of a call belongs to one command, the one the call  *)
(*              wrote to the pipe, and no older command has it;            *)
(*   WaitOrder  the wait manager is active exactly while the application   *)
(*              thread is between its check and its set_idle_state, and    *)
(*              then for the id of the current call;                       *)
(*   PostOnce   at most one post is on its way, and once it is, the        *)
(*              command waited for is no longer in flight nor active, so   *)
(*              that no response and no tick can find it again;            *)
(*   RxWaited,  what the poll thread read before it looks at the wait      *)
(*   TickWaited manager (the id found by rx_packet_event, the answer of    *)
(*              fn_timer before the tick) still entitles it to post: the   *)
(*              application thread cannot have been posted in between.     *)
(***************************************************************************)
EXTENDS SystemLayer2, AecpControllerProofs

PipeOrigins ==
  \A k \in DOMAIN pipe :
    <<pipe[k].notification_id, pipe[k].notification_flag>> \in Origins

\* Command c, given id, is not younger than the current call, and is the
\* current call's if it has its id.
NotLater(id, c) == id # Null => id <= app.id /\ (id = app.id => c = app.cmd)

CallIds ==
  /\ \A c \in DOMAIN hist : NotLater(hist[c].notification_id, c)
  /\ \A k \in DOMAIN pipe : NotLater(pipe[k].notification_id, Len(hist) + k)
  /\ app.pc = "calling" => app.cmd = 0

WaitOrder ==
  /\ active_state <=> app.pc \in {"waiting", "woken", "leaving"}
  /\ active_state => notify_id = app.id
  /\ app.pc # "run" => app.id \in NotifyIds
  /\ app.pc \in {"calling", "written"} /\ app.wait => primed_state

\* The current wait has been, or is about to be, ended by a post.
Posted ==
  waiting_sem > 0 \/ app.pc \in {"woken", "leaving"} \/ poll_pc = "post"

PostOnce ==
  /\ waiting_sem <= 1
  /\ waiting_sem > 0 => app.pc = "waiting" /\ poll_pc # "post"
  /\ poll_pc = "post" => app.pc = "waiting"
  /\ Posted => app.cmd \in DOMAIN hist /\ ~Incomplete

RxWaited ==
  poll_pc = "rx" /\ rx.notification_id # Null =>
    /\ \E c \in DOMAIN hist : hist[c].notification_id = rx.notification_id
    /\ active_state /\ match_id(rx.notification_id) => ~Posted

TickWaited ==
  poll_pc \in {"tick", "ticked"} /\ notification_id_incomplete =>
    active_state /\ ~Posted /\ app.cmd \in DOMAIN hist

SysInv ==
  /\ RInv /\ Issued <= MaxCmds
  /\ SysTypeOK
  /\ PipeOrigins
  /\ CallIds
  /\ WaitOrder
  /\ PostOnce
  /\ RxWaited
  /\ TickWaited
-----------------------------------------------------------------------------
(***************************************************************************)
(* The outcome of the wait.  Ended says how a command ended; Own is what   *)
(* WaiterGetsOwnOutcome promises of a status.                              *)
(***************************************************************************)
Ended(c, end) ==
  c \in DOMAIN hist /\ hist[c].outcome # <<>> /\ hist[c].outcome[1].end = end

Own(s) ==
  \/ s = Status(app.cmd) /\ Ended(app.cmd, "RESPONSE_RECEIVED")
  \/ s = TICK_TIMEOUT /\ Ended(app.cmd, "COMMAND_TIMEOUT")

\* No entity numbers an unsolicited response like a command in flight.
\* In the code such a response ends the command, with a status of its own.
UnsolicitedDistinct ==
  \A j \in DOMAIN inflight_cmds : inflight_cmds[j].seq_id \notin UnsolicitedSeqIds

\* An operation that reports under an id was started by the response that
\* ended its command.
OpsEnded ==
  \A j \in DOMAIN active_operations :
    active_operations[j].notification_id # Null =>
      Ended(active_operations[j].cmd, "RESPONSE_RECEIVED")

RxStatus ==
  poll_pc = "rx" /\ rx.notification_id # Null =>
    \E c \in DOMAIN hist :
      /\ hist[c].notification_id = rx.notification_id
      /\ rx.rx_status = Status(c)
      /\ Ended(c, "RESPONSE_RECEIVED")

TickOutcome ==
  poll_pc \in {"tick", "ticked"} /\ notification_id_incomplete =>
    Incomplete \/ Ended(app.cmd, "COMMAND_TIMEOUT")

WaitOutcome ==
  /\ poll_pc = "post" => Own(post_status)
  /\ waiting_sem > 0 \/ app.pc = "woken" => Own(completion_status)
  /\ app.pc = "leaving" => Own(resp_status)
  /\ app.pc = "run" /\ app.wait /\ app.cmd # 0 /\ wait_state = "idle" =>
       Own(resp_status)

OutcomeInv == OpsEnded /\ RxStatus /\ TickOutcome /\ WaitOutcome
-----------------------------------------------------------------------------
(***************************************************************************)
(* Every step of the system is a step of the AECP controller, or leaves it *)
(* alone.                                                                  *)
(***************************************************************************)
LEMMA ControllerStep ==
  ASSUME PipeOrigins, SysTypeOK, SysNext
  PROVE  Next \/ UNCHANGED aecpVars
<1>1. ASSUME AppNext
      PROVE  UNCHANGED aecpVars
  BY <1>1 DEF AppNext, AppCall, AppReject, AppWrite, AppCheck, AppWake, AppGetStatus,
              AppIdle
<1>2. ASSUME PollQueueInternal \/ RxCheck \/ TimerCheck \/ PollPost
      PROVE  UNCHANGED aecpVars
  BY <1>2 DEF PollQueueInternal, RxCheck, TimerCheck, PollPost, PostIf
<1>3. ASSUME PollTx
      PROVE  Next
  <2>1. /\ 1 \in DOMAIN pipe /\ Head(pipe) = pipe[1]
        /\ Head(pipe).op \in OpIds \cup {NoOp}
    <3>1. pipe \in Seq(TxData) /\ pipe # <<>>
      BY <1>3 DEF PollTx, SysTypeOK
    <3>2. 1 \in DOMAIN pipe /\ Head(pipe) = pipe[1] /\ pipe[1] \in TxData
      BY <3>1
    <3> QED
      BY <3>2 DEF TxData
  <2> DEFINE o == <<Head(pipe).notification_id, Head(pipe).notification_flag>>
  <2>2. o \in Origins
    BY <2>1 DEF PipeOrigins
  <2>3. SendCmd(o, Head(pipe).op)
    BY <1>3 DEF PollTx
  <2> QED
    BY <2>1, <2>2, <2>3 DEF Next
<1>4. ASSUME PollRx
      PROVE  Next
  BY <1>4 DEF PollRx, Next, Receive
<1>5. ASSUME TimerBegin \/ TimerTick \/ SysElapse
      PROVE  Next
  BY <1>5 DEF TimerBegin, TimerTick, SysElapse, Next
<1> QED
  BY <1>1, <1>2, <1>3, <1>4, <1>5 DEF SysNext, PollNext

\* A command keeps its place in the history and its id.
LEMMA HistKept ==
  ASSUME RInv, PipeOrigins, SysTypeOK, SysNext
  PROVE  \A c \in DOMAIN hist :
           c \in DOMAIN hist' /\ hist'[c].notification_id = hist[c].notification_id
BY ControllerStep, IdsKept DEF RInv, IInv, aecpVars

\* Every operation was active before, or was started just now by the response
\* to its command.
LEMMA OpSources ==
  ASSUME Core, OpsType, Next
  PROVE  \A k \in DOMAIN active_operations' :
           \/ \E j \in DOMAIN active_operations :
                active_operations'[k] = active_operations[j]
           \/ \E nid \in Ids, c \in DOMAIN hist :
                /\ RcvdStartOperationResp(c, nid)
                /\ active_operations'[k].cmd = c
                /\ active_operations'[k].notification_id = nid
<1>1. CASE UNCHANGED active_operations
  BY <1>1
<1>2. ASSUME NEW nid \in Ids, NEW c \in DOMAIN hist, RcvdStartOperationResp(c, nid)
      PROVE  \A k \in DOMAIN active_operations' :
               \/ \E j \in DOMAIN active_operations :
                    active_operations'[k] = active_operations[j]
               \/ /\ active_operations'[k].cmd = c
                  /\ active_operations'[k].notification_id = nid
  <2> DEFINE o == [operation_id |-> hist[c].op, notification_id |-> nid, cmd |-> c]
  <2>1. active_operations' = Append(active_operations, o)
    BY <1>2 DEF RcvdStartOperationResp, start_operation
  <2>2. o.notification_id = nid /\ o.cmd = c
    OBVIOUS
  <2> HIDE DEF o
  <2>3. \A k \in DOMAIN active_operations' :
          \/ k \in DOMAIN active_operations
               /\ active_operations'[k] = active_operations[k]
          \/ active_operations'[k] = o
    BY <2>1 DEF OpsType
  <2> QED
    BY <2>2, <2>3
<1>3. ASSUME NEW nid \in Ids, NEW s \in UnsolicitedSeqIds, NEW op \in OpIds,
             NEW fin \in BOOLEAN, RcvdOperationStatus(s, op, fin, nid)
      PROVE  \A k \in DOMAIN active_operations' : \E j \in DOMAIN active_operations :
               active_operations'[k] = active_operations[j]
  <2>1. \/ UNCHANGED active_operations
        \/ \E j \in DOMAIN active_operations :
             active_operations' = RemoveAt(active_operations, j)
    BY <1>3 DEF RcvdOperationStatus, update_operation_for_rcvd_resp
  <2>2. ASSUME NEW j \in DOMAIN active_operations,
               active_operations' = RemoveAt(active_operations, j)
        PROVE  \A k \in DOMAIN active_operations' : \E i \in DOMAIN active_operations :
                 active_operations'[k] = active_operations[i]
    <3>1. active_operations \in Seq(Operation)
      BY DEF OpsType
    <3>2. /\ Len(active_operations') = Len(active_operations) - 1
          /\ active_operations' \in Seq(Operation)
          /\ \A k \in DOMAIN active_operations' :
               active_operations'[k] = IF k < j THEN active_operations[k]
                                                ELSE active_operations[k + 1]
      BY <2>2, <3>1, RemoveAtProperties
    <3>3. \A k \in DOMAIN active_operations' :
            k \in DOMAIN active_operations /\ k + 1 \in DOMAIN active_operations
      BY <3>1, <3>2
    <3> QED
      BY <3>2, <3>3
  <2> QED
    BY <2>1, <2>2
<1>4. ASSUME NEW nid \in Ids,
             \/ \E c \in DOMAIN hist : RcvdResp(c, nid)
             \/ \E s \in UnsolicitedSeqIds : RcvdUnsolicited(s, nid)
      PROVE  UNCHANGED active_operations
  BY <1>4 DEF RcvdResp, RcvdUnsolicited
<1>5. ASSUME NEW o \in Origins, NEW op \in OpIds \cup {NoOp}, SendCmd(o, op)
      PROVE  UNCHANGED active_operations
  BY <1>5 DEF SendCmd, state_send_cmd, PushInflight
<1>6. TickBegin \/ TickStep \/ TickEnd \/ Elapse => UNCHANGED active_operations
  BY DEF TickBegin, TickStep, TickEnd, Elapse
<1> QED
  BY <1>1, <1>2, <1>3, <1>4, <1>5, <1>6 DEF Next, Receive

\* While nothing is sent, an entry in flight has the id of an entry there was,
\* and an operation the id of an operation or an entry there was, or none.
LEMMA IdSources ==
  ASSUME Core, OpsType, Next,
         \A o \in Origins, op \in OpIds \cup {NoOp} : ~SendCmd(o, op)
  PROVE  /\ \A k \in DOMAIN inflight_cmds' : \E j \in DOMAIN inflight_cmds :
              inflight_cmds'[k].notification_id = inflight_cmds[j].notification_id
         /\ \A k \in DOMAIN active_operations' :
              \/ active_operations'[k].notification_id = Null
              \/ \E j \in DOMAIN active_operations :
                   active_operations'[k] = active_operations[j]
              \/ \E j \in DOMAIN inflight_cmds :
                   active_operations'[k].notification_id
                     = inflight_cmds[j].notification_id
<1>1. /\ inflight_cmds \in Seq(Inflight)
      /\ \A j \in DOMAIN inflight_cmds : inflight_cmds[j] \in Inflight
  BY DEF Core, CoreType
<1>2. \A e \in Inflight :
        /\ Later(e).notification_id = e.notification_id
        /\ start_timer(e).notification_id = e.notification_id
  BY DEF Later, start_timer, Inflight
<1>3. \A k \in DOMAIN inflight_cmds' : \E j \in DOMAIN inflight_cmds :
        inflight_cmds'[k].notification_id = inflight_cmds[j].notification_id
  <2>1. CASE UNCHANGED inflight_cmds
    BY <2>1
  <2>2. CASE Elapse
    BY <2>2, <1>1, <1>2 DEF Elapse
  <2>3. ASSUME NEW j \in DOMAIN inflight_cmds, NEW end, NEW from,
               EraseInflight(j, end, from)
        PROVE  \A k \in DOMAIN inflight_cmds' : \E i \in DOMAIN inflight_cmds :
                 inflight_cmds'[k] = inflight_cmds[i]
    BY <2>3, EraseShape DEF EraseInflight
  <2>4. ASSUME NEW s, NEW c, tx_cmd_resend(s, c)
        PROVE  \A k \in DOMAIN inflight_cmds' : \E i \in DOMAIN inflight_cmds :
                 inflight_cmds'[k].notification_id = inflight_cmds[i].notification_id
    <3>1. PICK j \in DOMAIN inflight_cmds :
            inflight_cmds' = [inflight_cmds EXCEPT ![j] = start_timer(inflight_cmds[j])]
      BY <2>4 DEF tx_cmd_resend
    <3> QED
      BY <3>1, <1>1, <1>2
  <2> QED
    BY <2>1, <2>2, <2>3, <2>4, StepCases
<1>4. ASSUME NEW nid, NEW c \in DOMAIN hist, RcvdStartOperationResp(c, nid)
      PROVE  nid = Null \/ \E j \in DOMAIN inflight_cmds :
                             nid = inflight_cmds[j].notification_id
  <2>1. update_inflight_for_rcvd_resp(hist[c].seq_id, c, nid) /\ c \in Nat
    BY <1>4 DEF RcvdStartOperationResp, Core, CoreType
  <2> QED
    BY <2>1, RespCases
<1> QED
  BY <1>3, <1>4, OpSources

\* What is found in flight or active under an id belongs to a command that
\* was given the id.
LEMMA FoundIds ==
  ASSUME RInv, NEW id, id # Null,
         is_inflight_cmd_with_notification_id(id)
           \/ is_active_operation_with_notification_id(id)
  PROVE  \E c \in DOMAIN hist : hist[c].notification_id = id
<1>1. CASE is_inflight_cmd_with_notification_id(id)
  BY <1>1 DEF is_inflight_cmd_with_notification_id, RInv, IInv, Core, CoreType, Origin
<1>2. CASE is_active_operation_with_notification_id(id)
  BY <1>2 DEF is_active_operation_with_notification_id, RInv, OpsIssued, OperationOwner
<1> QED
  BY <1>1, <1>2

\* Nothing found under an id stays nothing found, unless it is sent.
LEMMA NotFoundAgain ==
  ASSUME RInv, Next, NEW id, id # Null,
         \A o \in Origins, op \in OpIds \cup {NoOp} : SendCmd(o, op) => o[1] # id,
         ~is_inflight_cmd_with_notification_id(id),
         ~is_active_operation_with_notification_id(id)
  PROVE  /\ ~is_inflight_cmd_with_notification_id(id)'
         /\ ~is_active_operation_with_notification_id(id)'
<1>1. ASSUME NEW o \in Origins, NEW op \in OpIds \cup {NoOp}, SendCmd(o, op)
      PROVE  /\ ~is_inflight_cmd_with_notification_id(id)'
             /\ ~is_active_operation_with_notification_id(id)'
  <2> DEFINE e == start_timer(NewInflight(o[1], o[2]))
  <2>1. /\ inflight_cmds' = Append(inflight_cmds, e)
        /\ inflight_cmds \in Seq(Inflight)
        /\ UNCHANGED active_operations
    BY <1>1 DEF SendCmd, state_send_cmd, PushInflight, RInv, IInv, Core, CoreType
  <2>2. e.notification_id # id
    BY <1>1 DEF start_timer, NewInflight
  <2> HIDE DEF e
  <2>3. \A k \in DOMAIN inflight_cmds' :
          \/ k \in DOMAIN inflight_cmds /\ inflight_cmds'[k] = inflight_cmds[k]
          \/ inflight_cmds'[k] = e
    BY <2>1
  <2> QED
    BY <2>1, <2>2, <2>3 DEF is_inflight_cmd_with_notification_id,
                            is_active_operation_with_notification_id
<1>2. CASE \A o \in Origins, op \in OpIds \cup {NoOp} : ~SendCmd(o, op)
  BY <1>2, IdSources DEF RInv, IInv, is_inflight_cmd_with_notification_id,
                         is_active_operation_with_notification_id
<1> QED
  BY <1>1, <1>2

\* The id found by rx_packet_event is that of a command in flight or of an
\* operation, or none.
LEMMA RxFinds ==
  ASSUME PollRx, RInv
  PROVE  LET id == rx'.notification_id
         IN  id # Null => \/ is_inflight_cmd_with_notification_id(id)
                          \/ is_active_operation_with_notification_id(id)
<1>1. PICK nid \in Ids :
        /\ \/ \E c \in DOMAIN hist : RcvdResp(c, nid) \/ RcvdStartOperationResp(c, nid)
           \/ \E s \in UnsolicitedSeqIds : RcvdUnsolicited(s, nid)
           \/ \E s \in UnsolicitedSeqIds, op \in OpIds, fin \in BOOLEAN :
                RcvdOperationStatus(s, op, fin, nid)
        /\ rx'.notification_id = nid
  BY DEF PollRx
<1>2. ASSUME NEW s, NEW from \in Nat, NEW n, update_inflight_for_rcvd_resp(s, from, n),
             n # Null
      PROVE  is_inflight_cmd_with_notification_id(n)
  BY <1>2, RespCases DEF is_inflight_cmd_with_notification_id
<1>3. Unsol \in Nat /\ \A c \in DOMAIN hist : c \in Nat
  BY DEF Unsol, RInv, IInv, Core, CoreType
<1>4. ASSUME NEW c \in DOMAIN hist, RcvdResp(c, nid) \/ RcvdStartOperationResp(c, nid),
             nid # Null
      PROVE  is_inflight_cmd_with_notification_id(nid)
  <2>1. update_inflight_for_rcvd_resp(hist[c].seq_id, c, nid)
    BY <1>4 DEF RcvdResp, RcvdStartOperationResp
  <2> QED
    BY <2>1, <1>2, <1>3, <1>4
<1>5. ASSUME NEW s \in UnsolicitedSeqIds, RcvdUnsolicited(s, nid), nid # Null
      PROVE  is_inflight_cmd_with_notification_id(nid)
  BY <1>2, <1>3, <1>5 DEF RcvdUnsolicited
<1>6. ASSUME NEW s \in UnsolicitedSeqIds, NEW op \in OpIds, NEW fin \in BOOLEAN,
             RcvdOperationStatus(s, op, fin, nid), nid # Null
      PROVE  \/ is_inflight_cmd_with_notification_id(nid)
             \/ is_active_operation_with_notification_id(nid)
  <2>1. PICK nid1 \in Ids : /\ update_inflight_for_rcvd_resp(s, Unsol, nid1)
                            /\ update_operation_for_rcvd_resp(op, fin, nid1, nid)
    BY <1>6 DEF RcvdOperationStatus
  <2>2. nid = nid1 \/ \E j \in DOMAIN active_operations :
                        nid = active_operations[j].notification_id
    BY <2>1 DEF update_operation_for_rcvd_resp
  <2> QED
    BY <2>1, <2>2, <1>2, <1>3, <1>6 DEF is_active_operation_with_notification_id
<1> QED
  BY <1>1, <1>4, <1>5, <1>6
-----------------------------------------------------------------------------
(***************************************************************************)
(* The steps of the application thread.                                    *)
(***************************************************************************)
SysRest == PipeOrigins /\ CallIds /\ WaitOrder /\ PostOnce /\ RxWaited /\ TickWaited

\* What the types say of the ids and the numbers.
LEMMA IdTypes ==
  ASSUME RInv, SysTypeOK
  PROVE  /\ app.id \in Nat /\ app.cmd \in 0 .. MaxCmds /\ app.wait \in BOOLEAN
         /\ app = [pc |-> app.pc, id |-> app.id, wait |-> app.wait, cmd |-> app.cmd]
         /\ \A c \in DOMAIN hist : hist[c].notification_id \in Ids
         /\ \A k \in DOMAIN pipe : pipe[k].notification_id \in Ids
         /\ Len(hist) \in Nat /\ DOMAIN hist = 1 .. Len(hist)
         /\ Len(pipe) \in Nat /\ DOMAIN pipe = 1 .. Len(pipe)
<1>1. app \in [pc : {"run", "calling", "written", "waiting", "woken", "leaving"},
              id : NotifyIds \cup {0}, wait : BOOLEAN, cmd : 0 .. MaxCmds]
  BY DEF SysTypeOK
<1>2. /\ app.id \in NotifyIds \cup {0} /\ app.cmd \in 0 .. MaxCmds
      /\ app.wait \in BOOLEAN
      /\ app = [pc |-> app.pc, id |-> app.id, wait |-> app.wait, cmd |-> app.cmd]
  BY <1>1
<1>3. app.id \in Nat
  BY <1>2, SystemAssumption
<1>4. hist \in Seq(CmdRecord) /\ \A c \in DOMAIN hist : hist[c] \in CmdRecord
  BY DEF RInv, IInv, Core, CoreType
<1>5. pipe \in Seq(TxData) /\ \A k \in DOMAIN pipe : pipe[k] \in TxData
  BY DEF SysTypeOK
<1> QED
  BY <1>2, <1>3, <1>4, <1>5 DEF CmdRecord, TxData

\* What the lookups of the wait manager find depends on three variables.
LEMMA SameIncomplete ==
  ASSUME UNCHANGED <<inflight_cmds, active_operations, notify_id>>
  PROVE  Incomplete' <=> Incomplete
BY DEF Incomplete, is_inflight_cmd_with_notification_id,
       is_active_operation_with_notification_id

LEMMA AppCallStep ==
  ASSUME SysInv, NEW wait \in BOOLEAN, AppCall(wait)
  PROVE  SysRest'
<1>1. /\ UNCHANGED <<hist, pipe, poll_pc, rx, notification_id_incomplete, waiting_sem>>
      /\ app.pc = "run"
      /\ app'.pc = "calling" /\ app'.id = app.id + 1 /\ app'.wait = wait /\ app'.cmd = 0
      /\ app.id + 1 \in NotifyIds
  BY DEF AppCall, aecpVars, pollVars
<1>2. app.id \in Nat
  BY IdTypes DEF SysInv
<1>3. ~active_state /\ poll_pc # "post" /\ waiting_sem = 0
  BY <1>1 DEF SysInv, WaitOrder, PostOnce, SysTypeOK
<1>4. /\ wait_state' # "active"
      /\ wait => wait_state' = "primed"
  BY <1>3 DEF AppCall, set_primed_state, active_state, SysInv, SysTypeOK
<1>5. PipeOrigins'
  BY <1>1 DEF SysInv, PipeOrigins
<1>6. CallIds'
  <2>1. ASSUME NEW id \in Ids, NEW c, NotLater(id, c), NEW d
        PROVE  NotLater(id, d)'
    BY <2>1, <1>1, <1>2, SystemAssumption DEF NotLater, Ids
  <2> QED
    BY <1>1, <2>1, IdTypes DEF CallIds, SysInv
<1>7. WaitOrder'
  BY <1>1, <1>4 DEF WaitOrder, active_state, primed_state
<1>8. ~Posted' /\ ~active_state'
  BY <1>1, <1>3, <1>4 DEF Posted, active_state
<1>9. PostOnce'
  BY <1>1, <1>3, <1>8 DEF PostOnce
<1>10. RxWaited'
  BY <1>1, <1>8 DEF SysInv, RxWaited
<1>11. TickWaited'
  BY <1>1, <1>3 DEF SysInv, TickWaited
<1> QED
  BY <1>5, <1>6, <1>7, <1>9, <1>10, <1>11 DEF SysRest

\* While the ids of the commands, the command and the place of the current
\* call do not change, nor the pipe, neither does whose id it is.
LEMMA SameCallIds ==
  ASSUME CallIds, UNCHANGED <<hist, pipe>>, app'.id = app.id, app'.cmd = app.cmd,
         app'.pc # "calling"
  PROVE  CallIds'
<1>1. ASSUME NEW id, NEW c, NotLater(id, c)
      PROVE  NotLater(id, c)'
  BY <1>1 DEF NotLater
<1> QED
  BY <1>1 DEF CallIds

LEMMA AppRejectStep ==
  ASSUME SysInv, AppReject
  PROVE  SysRest'
<1>1. /\ UNCHANGED <<inflight_cmds, active_operations, hist, pipe, poll_pc, rx,
                     notification_id_incomplete, waiting_sem, wait_state, notify_id>>
      /\ app.pc = "calling"
      /\ app'.pc = "run" /\ app'.id = app.id /\ app'.wait = app.wait
      /\ app'.cmd = app.cmd
  BY IdTypes DEF AppReject, AppGoto, aecpVars, pollVars, SysInv
<1>2. PipeOrigins' /\ CallIds'
  BY <1>1, SameCallIds DEF SysInv, PipeOrigins
<1>3. ~active_state /\ poll_pc # "post" /\ ~(waiting_sem > 0)
  BY <1>1 DEF SysInv, WaitOrder, PostOnce
<1>4. ~Posted' /\ ~active_state'
  BY <1>1, <1>3 DEF Posted, active_state
<1>5. WaitOrder'
  BY <1>1, <1>4 DEF WaitOrder
<1>6. PostOnce'
  BY <1>1, <1>3, <1>4 DEF PostOnce, SysInv
<1>7. RxWaited' /\ TickWaited'
  BY <1>1, <1>3, <1>4 DEF RxWaited, TickWaited, SysInv
<1> QED
  BY <1>2, <1>5, <1>6, <1>7 DEF SysRest

\* The frame written gets the id of the current call, which no other has.
LEMMA AppWriteStep ==
  ASSUME SysInv, NEW op, AppWrite(op)
  PROVE  SysRest'
<1> DEFINE e == [notification_id |-> app.id,
                 notification_flag |-> CMD_WITH_NOTIFICATION, op |-> op]
<1>1. /\ UNCHANGED <<inflight_cmds, active_operations, hist, poll_pc, rx,
                     notification_id_incomplete, waiting_sem, wait_state, notify_id>>
      /\ app.pc = "calling" /\ pipe' = Append(pipe, e)
      /\ app'.pc = "written" /\ app'.id = app.id /\ app'.wait = app.wait
      /\ app'.cmd = Len(hist) + Len(pipe) + 1
  BY IdTypes DEF AppWrite, WritePipe, aecpVars, pollVars, SysInv, Queued, Issued
<1>2. ~active_state /\ poll_pc # "post" /\ ~(waiting_sem > 0) /\ app.id \in NotifyIds
  BY <1>1 DEF SysInv, WaitOrder, PostOnce
<1>3. e.notification_id = app.id /\ e.notification_flag = CMD_WITH_NOTIFICATION
  OBVIOUS
<1> HIDE DEF e
<1>4. /\ Len(pipe) \in Nat /\ DOMAIN pipe = 1 .. Len(pipe)
      /\ DOMAIN pipe' = 1 .. Len(pipe) + 1
      /\ pipe'[Len(pipe) + 1] = e
      /\ \A k \in DOMAIN pipe : pipe'[k] = pipe[k]
  BY <1>1 DEF SysInv, SysTypeOK
<1>5. PipeOrigins'
  <2>1. <<app.id, CMD_WITH_NOTIFICATION>> \in Origins
    BY <1>2 DEF Origins
  <2> QED
    BY <2>1, <1>3, <1>4 DEF PipeOrigins, SysInv
<1>6. CallIds'
  <2>1. ASSUME NEW id \in Ids, NEW c, NEW d, NotLater(id, c), app.cmd = 0, c # 0
        PROVE  NotLater(id, d)'
    BY <2>1, <1>1, <1>2, SystemAssumption DEF NotLater, Ids
  <2>2. \A c \in DOMAIN hist : c # 0 /\ hist[c].notification_id \in Ids
    BY IdTypes DEF SysInv
  <2>3. \A k \in DOMAIN pipe : Len(hist) + k # 0 /\ pipe[k].notification_id \in Ids
    BY IdTypes DEF SysInv
  <2>4. app.cmd = 0
    BY <1>1 DEF SysInv, CallIds
  <2>5. ASSUME NEW c \in DOMAIN hist
        PROVE  NotLater(hist[c].notification_id, c)'
    <3>1. PICK id \in Ids : id = hist[c].notification_id
      BY <2>2
    <3>2. NotLater(id, c)'
      BY <2>1, <2>2, <2>4, <3>1 DEF SysInv, CallIds
    <3> QED
      BY <3>1, <3>2, <1>1 DEF NotLater
  <2>6. ASSUME NEW k \in DOMAIN pipe
        PROVE  NotLater(pipe[k].notification_id, Len(hist) + k)'
    <3>1. PICK id \in Ids : id = pipe[k].notification_id
      BY <2>3
    <3>2. PICK c : c = Len(hist) + k
      OBVIOUS
    <3>3. NotLater(id, c)'
      BY <2>1, <2>3, <2>4, <3>1, <3>2 DEF SysInv, CallIds
    <3> QED
      BY <3>1, <3>2, <3>3, <1>1, <1>4 DEF NotLater
  <2>7. NotLater(pipe[Len(pipe)].notification_id, Len(hist) + Len(pipe))'
    <3>1. /\ Len(hist) + (Len(pipe) + 1) = Len(hist) + Len(pipe) + 1
          /\ Len(pipe') = Len(pipe) + 1
      BY <1>1, <1>4, IdTypes DEF SysInv
    <3>2. app.id \in Nat
      BY IdTypes DEF SysInv
    <3> QED
      BY <3>1, <3>2, <1>1, <1>3, <1>4 DEF NotLater
  <2>8. ASSUME NEW k \in DOMAIN pipe'
        PROVE  NotLater(pipe[k].notification_id, Len(hist) + k)'
    <3>1. k \in DOMAIN pipe \/ k = Len(pipe')
      BY <1>1, <1>4
    <3> QED
      BY <3>1, <2>6, <2>7
  <2> QED
    BY <2>5, <2>8, <1>1 DEF CallIds
<1>7. ~Posted' /\ ~active_state'
  BY <1>1, <1>2 DEF Posted, active_state
<1>8. WaitOrder'
  BY <1>1, <1>2, <1>7 DEF WaitOrder, SysInv, primed_state
<1>9. PostOnce'
  BY <1>1, <1>2, <1>7 DEF PostOnce, SysInv
<1>10. RxWaited' /\ TickWaited'
  BY <1>1, <1>2, <1>7 DEF RxWaited, TickWaited, SysInv
<1> QED
  BY <1>5, <1>6, <1>8, <1>9, <1>10 DEF SysRest

\* The wait begins: nothing has been posted, the semaphore is 0.
LEMMA AppCheckStep ==
  ASSUME SysInv, AppCheck
  PROVE  SysRest'
<1>1. /\ UNCHANGED <<inflight_cmds, active_operations, hist, pipe, poll_pc, rx,
                     notification_id_incomplete, waiting_sem, notify_id>>
      /\ app.pc = "written"
      /\ app'.id = app.id /\ app'.wait = app.wait /\ app'.cmd = app.cmd
      /\ \/ /\ wait_state = "primed" /\ app.id = notify_id
            /\ wait_state' = "active" /\ app'.pc = "waiting"
         \/ wait_state' = wait_state /\ app'.pc = "run"
  BY IdTypes DEF AppCheck, AppGoto, aecpVars, pollVars, SysInv, set_active_state,
                 match_id, primed_state
<1>2. PipeOrigins' /\ CallIds'
  BY <1>1, SameCallIds DEF SysInv, PipeOrigins
<1>3. ~active_state /\ poll_pc # "post" /\ ~(waiting_sem > 0) /\ app.id \in NotifyIds
  BY <1>1 DEF SysInv, WaitOrder, PostOnce
<1>4. ~Posted'
  BY <1>1, <1>3 DEF Posted
<1>5. WaitOrder'
  BY <1>1, <1>3 DEF WaitOrder, active_state
<1>6. PostOnce'
  BY <1>1, <1>3, <1>4 DEF PostOnce, SysInv
<1>7. RxWaited' /\ TickWaited'
  BY <1>1, <1>3, <1>4 DEF RxWaited, TickWaited, SysInv
<1> QED
  BY <1>2, <1>5, <1>6, <1>7 DEF SysRest

\* The post is taken: the semaphore is 0 again and no other is on its way.
LEMMA AppWakeStep ==
  ASSUME SysInv, AppWake
  PROVE  SysRest'
<1>1. /\ UNCHANGED <<inflight_cmds, active_operations, hist, pipe, poll_pc, rx,
                     notification_id_incomplete, wait_state, notify_id>>
      /\ app.pc = "waiting" /\ app'.pc = "woken"
      /\ app'.id = app.id /\ app'.wait = app.wait /\ app'.cmd = app.cmd
      /\ waiting_sem > 0 /\ waiting_sem' = waiting_sem - 1
  BY IdTypes DEF AppWake, AppGoto, aecpVars, pollVars, SysInv
<1>2. PipeOrigins' /\ CallIds'
  BY <1>1, SameCallIds DEF SysInv, PipeOrigins
<1>3. waiting_sem \in Nat
  BY DEF SysInv, SysTypeOK
<1>4. waiting_sem' = 0 /\ poll_pc # "post" /\ Posted /\ app.id \in NotifyIds
  BY <1>1, <1>3 DEF SysInv, WaitOrder, PostOnce, Posted
<1>5. active_state' <=> active_state
  BY <1>1 DEF active_state
<1>6. WaitOrder'
  BY <1>1, <1>4, <1>5 DEF WaitOrder, SysInv
<1>7. PostOnce'
  <2>1. Incomplete' <=> Incomplete
    BY <1>1, SameIncomplete
  <2> QED
    BY <2>1, <1>1, <1>4 DEF PostOnce, SysInv
<1>8. RxWaited' /\ TickWaited'
  BY <1>1, <1>4, <1>5 DEF RxWaited, TickWaited, SysInv, match_id
<1> QED
  BY <1>2, <1>6, <1>7, <1>8 DEF SysRest

LEMMA AppGetStatusStep ==
  ASSUME SysInv, AppGetStatus
  PROVE  SysRest'
<1>1. /\ UNCHANGED <<inflight_cmds, active_operations, hist, pipe, poll_pc, rx,
                     notification_id_incomplete, wait_state, notify_id, waiting_sem>>
      /\ app.pc = "woken" /\ app'.pc = "leaving"
      /\ app'.id = app.id /\ app'.wait = app.wait /\ app'.cmd = app.cmd
  BY IdTypes DEF AppGetStatus, AppGoto, aecpVars, pollVars, SysInv
<1>2. PipeOrigins' /\ CallIds'
  BY <1>1, SameCallIds DEF SysInv, PipeOrigins
<1>3. poll_pc # "post" /\ ~(waiting_sem > 0) /\ Posted /\ app.id \in NotifyIds
  BY <1>1 DEF SysInv, WaitOrder, PostOnce, Posted
<1>4. active_state' <=> active_state
  BY <1>1 DEF active_state
<1>5. WaitOrder'
  BY <1>1, <1>3, <1>4 DEF WaitOrder, SysInv
<1>6. PostOnce'
  <2>1. Incomplete' <=> Incomplete
    BY <1>1, SameIncomplete
  <2> QED
    BY <2>1, <1>1, <1>3 DEF PostOnce, SysInv
<1>7. RxWaited' /\ TickWaited'
  BY <1>1, <1>3, <1>4 DEF RxWaited, TickWaited, SysInv, match_id
<1> QED
  BY <1>2, <1>5, <1>6, <1>7 DEF SysRest

LEMMA AppIdleStep ==
  ASSUME SysInv, AppIdle
  PROVE  SysRest'
<1>1. /\ UNCHANGED <<inflight_cmds, active_operations, hist, pipe, poll_pc, rx,
                     notification_id_incomplete, notify_id, waiting_sem>>
      /\ wait_state' = "idle"
      /\ app.pc = "leaving" /\ app'.pc = "run"
      /\ app'.id = app.id /\ app'.wait = app.wait /\ app'.cmd = app.cmd
  BY IdTypes DEF AppIdle, AppGoto, set_idle_state, aecpVars, pollVars, SysInv
<1>2. PipeOrigins' /\ CallIds'
  BY <1>1, SameCallIds DEF SysInv, PipeOrigins
<1>3. poll_pc # "post" /\ ~(waiting_sem > 0) /\ Posted
  BY <1>1 DEF SysInv, PostOnce, Posted
<1>4. ~active_state' /\ ~Posted'
  BY <1>1, <1>3 DEF active_state, Posted
<1>5. WaitOrder'
  BY <1>1, <1>4 DEF WaitOrder
<1>6. PostOnce'
  BY <1>1, <1>3, <1>4 DEF PostOnce, SysInv
<1>7. RxWaited' /\ TickWaited'
  BY <1>1, <1>3, <1>4 DEF RxWaited, TickWaited, SysInv
<1> QED
  BY <1>2, <1>5, <1>6, <1>7 DEF SysRest

LEMMA AppStep ==
  ASSUME SysInv, AppNext
  PROVE  SysRest'
BY AppCallStep, AppRejectStep, AppWriteStep, AppCheckStep, AppWakeStep,
   AppGetStatusStep, AppIdleStep DEF AppNext
-----------------------------------------------------------------------------
(***************************************************************************)
(* The steps of the poll thread.                                           *)
(***************************************************************************)
\* Intervals from 1 are equal only if they end at the same number.
LEMMA SameLast ==
  ASSUME NEW m \in Nat, NEW n \in Nat, 1 .. m = 1 .. n
  PROVE  m = n
<1>1. m # 0 => m \in 1 .. n
  <2>1. m # 0 => m \in 1 .. m
    OBVIOUS
  <2> QED
    BY <2>1
<1>2. n # 0 => n \in 1 .. m
  <2>1. n # 0 => n \in 1 .. n
    OBVIOUS
  <2> QED
    BY <2>1
<1> QED
  BY <1>1, <1>2

\* Only fn_tx sends: every other step leaves the number of commands alone.
LEMMA NothingSent ==
  ASSUME Core, Receive \/ TickBegin \/ TickStep \/ TickEnd \/ Elapse
  PROVE  /\ DOMAIN hist' = DOMAIN hist
         /\ \A o \in Origins, op \in OpIds \cup {NoOp} : ~SendCmd(o, op)
<1>1. DOMAIN hist' = DOMAIN hist
  <2>1. CASE Receive
    <3>1. ASSUME NEW s, NEW from, NEW nid, update_inflight_for_rcvd_resp(s, from, nid)
          PROVE  DOMAIN hist' = DOMAIN hist
      BY <3>1 DEF update_inflight_for_rcvd_resp, proc_resp, EraseInflight
    <3> QED
      BY <2>1, <3>1 DEF Receive, RcvdResp, RcvdStartOperationResp, RcvdUnsolicited,
                        RcvdOperationStatus
  <2>2. CASE TickStep
    BY <2>2 DEF TickStep, state_timeout, EraseInflight, tx_cmd_resend
  <2>3. CASE TickBegin \/ TickEnd \/ Elapse
    BY <2>3 DEF TickBegin, TickEnd, Elapse
  <2> QED
    BY <2>1, <2>2, <2>3
<1>2. ASSUME NEW o \in Origins, NEW op \in OpIds \cup {NoOp}, SendCmd(o, op)
      PROVE  FALSE
  <2>1. /\ DOMAIN hist = 1 .. Len(hist) /\ Len(hist) \in Nat
        /\ DOMAIN hist' = 1 .. Len(hist) + 1
    BY <1>2, SendHist
  <2>2. Len(hist) + 1 \in DOMAIN hist' /\ Len(hist) + 1 \notin DOMAIN hist
    BY <2>1
  <2> QED
    BY <2>2, <1>1
<1> QED
  BY <1>1, <1>2

\* A wait that has been posted is one of the current call.
LEMMA ActiveId ==
  ASSUME SysInv, active_state
  PROVE  notify_id = app.id /\ app.id \in NotifyIds /\ notify_id # Null
BY AecpAssumption DEF SysInv, WaitOrder

LEMMA PostedActive ==
  ASSUME SysInv, Posted
  PROVE  active_state
BY DEF SysInv, WaitOrder, PostOnce, Posted

\* The command with the id waited for is the one of the current call.
LEMMA WaitedCommand ==
  ASSUME SysInv, active_state, NEW c \in DOMAIN hist,
         hist[c].notification_id = notify_id
  PROVE  c = app.cmd
BY ActiveId DEF SysInv, CallIds, NotLater

LEMMA IncompleteCommand ==
  ASSUME SysInv, active_state, Incomplete
  PROVE  app.cmd \in DOMAIN hist
<1>1. notify_id # Null /\ RInv
  BY ActiveId DEF SysInv
<1>2. PICK c \in DOMAIN hist : hist[c].notification_id = notify_id
  BY <1>1, FoundIds DEF Incomplete
<1> QED
  BY <1>2, WaitedCommand

\* Once posted, the command waited for cannot be found again: it was issued
\* already, and no other command gets its id.
LEMMA StaysOver ==
  ASSUME SysInv, Posted, Next, UNCHANGED notify_id,
         \A o \in Origins, op \in OpIds \cup {NoOp} :
           SendCmd(o, op) => pipe # <<>> /\ o[1] = pipe[1].notification_id
  PROVE  app.cmd \in DOMAIN hist' /\ ~Incomplete'
<1>1. /\ active_state /\ notify_id = app.id /\ notify_id # Null
      /\ app.cmd \in DOMAIN hist /\ ~Incomplete
  BY PostedActive, ActiveId DEF SysInv, PostOnce
<1>2. app.cmd \in DOMAIN hist'
  BY <1>1, IdsKept DEF SysInv, RInv, IInv
<1>3. ASSUME pipe # <<>>
      PROVE  pipe[1].notification_id # notify_id
  <2>1. 1 \in DOMAIN pipe
    BY <1>3, IdTypes DEF SysInv, SysTypeOK
  <2>2. Len(hist) + 1 \notin DOMAIN hist
    BY IdTypes DEF SysInv
  <2>3. NotLater(pipe[1].notification_id, Len(hist) + 1)
    BY <2>1 DEF SysInv, CallIds
  <2> QED
    BY <2>2, <2>3, <1>1 DEF NotLater
<1>4. PICK id : id = notify_id
  OBVIOUS
<1>5. /\ ~is_inflight_cmd_with_notification_id(id)'
      /\ ~is_active_operation_with_notification_id(id)'
  BY <1>1, <1>3, <1>4, NotFoundAgain DEF SysInv, Incomplete
<1> QED
  BY <1>2, <1>4, <1>5 DEF Incomplete, is_inflight_cmd_with_notification_id,
                          is_active_operation_with_notification_id

\* What stays true when neither the application thread nor the semaphore
\* moves and the poll thread is not about to post, before or after.
LEMMA PollKeeps ==
  ASSUME SysInv, Next, poll_pc # "post", poll_pc' # "post",
         UNCHANGED <<appVars, waiting_sem>>,
         \A o \in Origins, op \in OpIds \cup {NoOp} :
           SendCmd(o, op) => pipe # <<>> /\ o[1] = pipe[1].notification_id
  PROVE  WaitOrder' /\ PostOnce' /\ (Posted' <=> Posted) /\ (active_state' <=> active_state)
<1>1. (Posted' <=> Posted) /\ (active_state' <=> active_state)
  BY DEF Posted, active_state, appVars
<1>2. WaitOrder'
  BY <1>1 DEF SysInv, WaitOrder, appVars, primed_state
<1>3. Posted => app.cmd \in DOMAIN hist' /\ ~Incomplete'
  BY StaysOver DEF appVars
<1>4. PostOnce'
  BY <1>1, <1>3 DEF SysInv, PostOnce, appVars
<1> QED
  BY <1>1, <1>2, <1>4

\* The ids of the commands and of the frames in the pipe are what they were.
LEMMA QuietCallIds ==
  ASSUME SysInv, UNCHANGED <<app, pipe>>,
         Receive \/ TickBegin \/ TickStep \/ TickEnd \/ Elapse
  PROVE  PipeOrigins' /\ CallIds'
<1>1. Core /\ Next
  BY DEF SysInv, RInv, IInv, Next
<1>2. /\ DOMAIN hist' = DOMAIN hist
      /\ \A c \in DOMAIN hist : hist'[c].notification_id = hist[c].notification_id
  BY <1>1, NothingSent, IdsKept
<1>3. Len(hist') = Len(hist)
  <2>1. hist \in Seq(CmdRecord) /\ hist' \in Seq(CmdRecord)
    BY <1>1, CoreStep DEF Core, CoreType
  <2>2. /\ Len(hist) \in Nat /\ DOMAIN hist = 1 .. Len(hist)
        /\ Len(hist') \in Nat /\ DOMAIN hist' = 1 .. Len(hist')
    BY <2>1
  <2> QED
    BY <2>2, <1>2, SameLast
<1>4. PipeOrigins'
  BY DEF SysInv, PipeOrigins
<1>5. CallIds'
  <2>1. ASSUME NEW c \in DOMAIN hist'
        PROVE  NotLater(hist[c].notification_id, c)'
    BY <1>2 DEF SysInv, CallIds, NotLater
  <2>2. ASSUME NEW k \in DOMAIN pipe'
        PROVE  NotLater(pipe[k].notification_id, Len(hist) + k)'
    BY <1>3 DEF SysInv, CallIds, NotLater
  <2> QED
    BY <2>1, <2>2 DEF SysInv, CallIds
<1> QED
  BY <1>4, <1>5

\* fn_tx moves the id of a frame from the pipe to the history.
LEMMA PollTxStep ==
  ASSUME SysInv, PollTx
  PROVE  SysRest'
<1> DEFINE o == <<Head(pipe).notification_id, Head(pipe).notification_flag>>
           op == Head(pipe).op
<1>1. /\ UNCHANGED appVars /\ UNCHANGED waiting_sem
      /\ poll_pc = "poll" /\ poll_pc' = "poll"
      /\ pipe # <<>> /\ pipe' = Tail(pipe) /\ SendCmd(o, op)
  BY DEF PollTx, Poll
<1>2. pipe \in Seq(TxData)
  BY DEF SysInv, SysTypeOK
<1>3. /\ Head(pipe) = pipe[1] /\ 1 \in DOMAIN pipe
      /\ \A k \in DOMAIN pipe' : k + 1 \in DOMAIN pipe /\ pipe'[k] = pipe[k + 1]
  BY <1>1, <1>2
<1>4. o \in Origins /\ op \in OpIds \cup {NoOp}
  <2>1. pipe[1] \in TxData
    BY <1>2, <1>3
  <2>2. op \in OpIds \cup {NoOp}
    BY <2>1, <1>3 DEF TxData
  <2> QED
    BY <2>2, <1>3 DEF SysInv, PipeOrigins
<1>5. Next /\ Core
  BY <1>1, <1>4 DEF Next, SysInv, RInv, IInv
<1>6. /\ Len(hist) \in Nat /\ DOMAIN hist = 1 .. Len(hist)
      /\ DOMAIN hist' = 1 .. Len(hist) + 1
      /\ hist'[Len(hist) + 1].notification_id = pipe[1].notification_id
      /\ \A d \in DOMAIN hist : hist'[d] = hist[d]
      /\ hist' \in Seq(CmdRecord)
  BY <1>1, <1>3, <1>4, <1>5, SendHist
<1>7. Len(hist') = Len(hist) + 1
  <2>1. Len(hist') \in Nat /\ DOMAIN hist' = 1 .. Len(hist')
    BY <1>6
  <2>2. PICK n \in Nat : n = Len(hist) + 1
    BY <1>6
  <2> QED
    BY <2>1, <2>2, <1>6, SameLast
<1>8. PipeOrigins'
  BY <1>3 DEF SysInv, PipeOrigins
<1>9. CallIds'
  <2>1. ASSUME NEW id, NEW c, NotLater(id, c)
        PROVE  NotLater(id, c)'
    BY <2>1, <1>1 DEF NotLater, appVars
  <2>2. ASSUME NEW c \in DOMAIN hist'
        PROVE  NotLater(hist[c].notification_id, c)'
    <3>1. PICK id : id = hist'[c].notification_id
      OBVIOUS
    <3>2. NotLater(id, c)
      <4>1. CASE c \in DOMAIN hist
        BY <4>1, <3>1, <1>6 DEF SysInv, CallIds
      <4>2. CASE c = Len(hist) + 1
        BY <4>2, <3>1, <1>3, <1>6 DEF SysInv, CallIds
      <4> QED
        BY <4>1, <4>2, <1>6
    <3> QED
      BY <3>1, <3>2, <2>1 DEF NotLater
  <2>3. ASSUME NEW k \in DOMAIN pipe'
        PROVE  NotLater(pipe[k].notification_id, Len(hist) + k)'
    <3>1. PICK id : id = pipe[k + 1].notification_id
      OBVIOUS
    <3>2. NotLater(id, Len(hist) + (k + 1))
      BY <3>1, <1>3 DEF SysInv, CallIds
    <3>3. Len(hist) + (k + 1) = Len(hist') + k
      <4>1. k \in Nat
        BY <1>1, <1>2
      <4> QED
        BY <4>1, <1>6, <1>7
    <3> QED
      BY <3>1, <3>2, <3>3, <1>1, <1>3 DEF NotLater, appVars
  <2>4. app.pc = "calling" => app.cmd = 0
    BY DEF SysInv, CallIds
  <2> QED
    BY <2>2, <2>3, <2>4, <1>1 DEF CallIds, appVars
<1>10. ASSUME NEW p \in Origins, NEW q \in OpIds \cup {NoOp}, SendCmd(p, q)
       PROVE  p[1] = pipe[1].notification_id
  BY <1>5, <1>6, <1>10, SendHist
<1>11. WaitOrder' /\ PostOnce'
  BY <1>1, <1>5, <1>10, PollKeeps
<1>12. RxWaited' /\ TickWaited'
  BY <1>1 DEF RxWaited, TickWaited
<1> QED
  BY <1>8, <1>9, <1>11, <1>12 DEF SysRest

\* An id found was in flight or active, so the wait for it was not over.
LEMMA PollRxStep ==
  ASSUME SysInv, PollRx
  PROVE  SysRest'
<1>1. /\ UNCHANGED appVars /\ UNCHANGED <<pipe, waiting_sem>>
      /\ poll_pc = "poll" /\ poll_pc' = "rx"
      /\ Receive
  BY DEF PollRx, Poll, Receive
<1>2. Next /\ Core /\ RInv
  BY <1>1 DEF Next, SysInv, RInv, IInv
<1>3. PipeOrigins' /\ CallIds'
  BY <1>1, QuietCallIds DEF appVars
<1>4. \A o \in Origins, op \in OpIds \cup {NoOp} : ~SendCmd(o, op)
  BY <1>1, <1>2, NothingSent
<1>5. WaitOrder' /\ PostOnce' /\ (Posted' <=> Posted) /\ (active_state' <=> active_state)
  BY <1>1, <1>2, <1>4, PollKeeps
<1>6. RxWaited'
  <2> SUFFICES ASSUME rx'.notification_id # Null
               PROVE  /\ \E c \in DOMAIN hist' :
                           hist'[c].notification_id = rx'.notification_id
                      /\ active_state' /\ match_id(rx.notification_id)' => ~Posted'
    BY DEF RxWaited
  <2>1. PICK id : id = rx'.notification_id
    OBVIOUS
  <2>2. \/ is_inflight_cmd_with_notification_id(id)
        \/ is_active_operation_with_notification_id(id)
    BY <2>1, <1>2, RxFinds
  <2>3. \E c \in DOMAIN hist : hist[c].notification_id = id
    BY <2>1, <2>2, <1>2, FoundIds
  <2>4. \E c \in DOMAIN hist' : hist'[c].notification_id = rx'.notification_id
    BY <2>1, <2>3, <1>2, IdsKept
  <2>5. ASSUME active_state', match_id(rx.notification_id)'
        PROVE  ~Posted'
    <3>1. id = notify_id
      BY <2>5, <2>1, <1>1 DEF match_id, appVars
    <3>2. Incomplete
      BY <3>1, <2>2 DEF Incomplete
    <3> QED
      BY <3>2, <1>5 DEF SysInv, PostOnce
  <2> QED
    BY <2>4, <2>5
<1>7. TickWaited'
  BY <1>1 DEF TickWaited
<1> QED
  BY <1>3, <1>5, <1>6, <1>7 DEF SysRest

\* The command queued for the background read carries no id.
LEMMA PollQueueInternalStep ==
  ASSUME SysInv, PollQueueInternal
  PROVE  SysRest'
<1> DEFINE e == [notification_id |-> Null,
                 notification_flag |-> CMD_WITHOUT_NOTIFICATION, op |-> NoOp]
<1>1. /\ UNCHANGED <<hist, inflight_cmds, active_operations>>
      /\ UNCHANGED <<app, wait_state, notify_id>> /\ UNCHANGED waiting_sem
      /\ UNCHANGED <<poll_pc, rx, notification_id_incomplete>>
      /\ pipe' = Append(pipe, e)
  BY DEF PollQueueInternal, WritePipe, aecpVars, appVars, pollVars
<1>2. /\ e.notification_id = Null
      /\ <<e.notification_id, e.notification_flag>> \in Origins
  BY DEF Origins
<1> HIDE DEF e
<1>3. \A k \in DOMAIN pipe' : \/ k \in DOMAIN pipe /\ pipe'[k] = pipe[k]
                              \/ pipe'[k] = e
  BY <1>1 DEF SysInv, SysTypeOK
<1>4. PipeOrigins'
  BY <1>2, <1>3 DEF SysInv, PipeOrigins
<1>5. CallIds'
  <2>1. ASSUME NEW c \in DOMAIN hist'
        PROVE  NotLater(hist[c].notification_id, c)'
    BY <1>1 DEF SysInv, CallIds, NotLater
  <2>2. ASSUME NEW k \in DOMAIN pipe'
        PROVE  NotLater(pipe[k].notification_id, Len(hist) + k)'
    BY <1>1, <1>2, <1>3 DEF SysInv, CallIds, NotLater
  <2> QED
    BY <2>1, <2>2, <1>1 DEF SysInv, CallIds
<1>6. /\ active_state' <=> active_state
      /\ Posted' <=> Posted
      /\ Incomplete' <=> Incomplete
  BY <1>1, SameIncomplete DEF active_state, Posted
<1>7. WaitOrder' /\ PostOnce'
  BY <1>1, <1>6 DEF SysInv, WaitOrder, PostOnce, primed_state
<1>8. RxWaited' /\ TickWaited'
  BY <1>1, <1>6 DEF SysInv, RxWaited, TickWaited, match_id
<1> QED
  BY <1>4, <1>5, <1>7, <1>8 DEF SysRest

\* What PostIf leaves alone.
LEMMA PostIfKeeps ==
  ASSUME SysInv, NEW from, NEW done, NEW status, PostIf(from, done, status)
  PROVE  /\ PipeOrigins' /\ CallIds' /\ WaitOrder'
         /\ (active_state' <=> active_state) /\ (Incomplete' <=> Incomplete)
         /\ RxWaited' /\ TickWaited'
         /\ UNCHANGED <<app, waiting_sem, hist>>
<1>1. /\ UNCHANGED <<hist, inflight_cmds, active_operations>>
      /\ UNCHANGED <<app, wait_state, notify_id>>
      /\ UNCHANGED <<waiting_sem, pipe, rx, notification_id_incomplete>>
      /\ poll_pc' \in {"post", "poll"}
  BY DEF PostIf, Poll, aecpVars, appVars
<1>2. PipeOrigins'
  BY <1>1 DEF SysInv, PipeOrigins
<1>3. CallIds'
  BY <1>1 DEF SysInv, CallIds, NotLater
<1>4. (active_state' <=> active_state) /\ (Incomplete' <=> Incomplete)
  BY <1>1, SameIncomplete DEF active_state
<1>5. WaitOrder'
  BY <1>1, <1>4 DEF SysInv, WaitOrder, primed_state
<1>6. RxWaited' /\ TickWaited'
  BY <1>1 DEF RxWaited, TickWaited
<1> QED
  BY <1>1, <1>2, <1>3, <1>4, <1>5, <1>6

\* The post that follows is the first of this wait, and the command is over.
LEMMA PostDecided ==
  ASSUME SysInv, active_state, ~Posted, ~Incomplete, app.cmd \in DOMAIN hist,
         UNCHANGED <<app, waiting_sem, hist>>, Incomplete' <=> Incomplete
  PROVE  PostOnce'
<1>1. app.pc = "waiting" /\ ~(waiting_sem > 0) /\ waiting_sem <= 1
  BY DEF SysInv, WaitOrder, PostOnce, Posted
<1> QED
  BY <1>1 DEF PostOnce, Posted

LEMMA RxCheckStep ==
  ASSUME SysInv, RxCheck
  PROVE  SysRest'
<1> DEFINE done == active_state /\ match_id(rx.notification_id) /\ ~Incomplete
<1>1. PostIf("rx", done, rx.rx_status)
  BY DEF RxCheck
<1>2. poll_pc = "rx" /\ poll_pc' = (IF done THEN "post" ELSE "poll")
  BY <1>1 DEF PostIf, Poll
<1> HIDE DEF done
<1>3. /\ PipeOrigins' /\ CallIds' /\ WaitOrder'
      /\ (active_state' <=> active_state) /\ (Incomplete' <=> Incomplete)
      /\ RxWaited' /\ TickWaited'
      /\ UNCHANGED <<app, waiting_sem, hist>>
  BY <1>1, PostIfKeeps
<1>4. CASE done
  <2>1. active_state /\ rx.notification_id = notify_id /\ ~Incomplete /\ notify_id # Null
    BY <1>4, ActiveId DEF done, match_id
  <2>2. PICK c \in DOMAIN hist : hist[c].notification_id = notify_id
    BY <2>1, <1>2 DEF SysInv, RxWaited
  <2>3. app.cmd \in DOMAIN hist /\ ~Posted
    BY <2>1, <2>2, <1>2, WaitedCommand DEF SysInv, RxWaited, match_id
  <2>4. PostOnce'
    BY <2>1, <2>3, <1>3, PostDecided
  <2> QED
    BY <2>4, <1>3 DEF SysRest
<1>5. CASE ~done
  <2>1. Posted' <=> Posted
    BY <1>2, <1>3, <1>5 DEF Posted
  <2>2. PostOnce'
    BY <2>1, <1>2, <1>3, <1>5 DEF SysInv, PostOnce
  <2> QED
    BY <2>2, <1>3 DEF SysRest
<1> QED
  BY <1>4, <1>5

LEMMA TimerCheckStep ==
  ASSUME SysInv, TimerCheck
  PROVE  SysRest'
<1> DEFINE done == active_state /\ notification_id_incomplete /\ ~Incomplete
<1>1. PostIf("ticked", done, TICK_TIMEOUT)
  BY DEF TimerCheck
<1>2. poll_pc = "ticked" /\ poll_pc' = (IF done THEN "post" ELSE "poll")
  BY <1>1 DEF PostIf, Poll
<1> HIDE DEF done
<1>3. /\ PipeOrigins' /\ CallIds' /\ WaitOrder'
      /\ (active_state' <=> active_state) /\ (Incomplete' <=> Incomplete)
      /\ RxWaited' /\ TickWaited'
      /\ UNCHANGED <<app, waiting_sem, hist>>
  BY <1>1, PostIfKeeps
<1>4. CASE done
  <2>1. active_state /\ ~Incomplete /\ app.cmd \in DOMAIN hist /\ ~Posted
    BY <1>4, <1>2 DEF done, SysInv, TickWaited
  <2>2. PostOnce'
    BY <2>1, <1>3, PostDecided
  <2> QED
    BY <2>2, <1>3 DEF SysRest
<1>5. CASE ~done
  <2>1. Posted' <=> Posted
    BY <1>2, <1>3, <1>5 DEF Posted
  <2>2. PostOnce'
    BY <2>1, <1>2, <1>3, <1>5 DEF SysInv, PostOnce
  <2> QED
    BY <2>2, <1>3 DEF SysRest
<1> QED
  BY <1>4, <1>5

\* fn_timer reads the wait manager and the lookups before the tick.
LEMMA TimerBeginStep ==
  ASSUME SysInv, TimerBegin
  PROVE  SysRest'
<1>1. /\ UNCHANGED appVars /\ UNCHANGED <<pipe, waiting_sem>>
      /\ poll_pc = "poll" /\ poll_pc' = "tick"
      /\ notification_id_incomplete' => active_state /\ Incomplete
      /\ TickBegin
  BY DEF TimerBegin, Poll
<1>2. Next /\ Core
  BY <1>1 DEF Next, SysInv, RInv, IInv
<1>3. PipeOrigins' /\ CallIds'
  BY <1>1, QuietCallIds DEF appVars
<1>4. \A o \in Origins, op \in OpIds \cup {NoOp} : ~SendCmd(o, op)
  BY <1>1, <1>2, NothingSent
<1>5. WaitOrder' /\ PostOnce' /\ (Posted' <=> Posted) /\ (active_state' <=> active_state)
  BY <1>1, <1>2, <1>4, PollKeeps
<1>6. RxWaited'
  BY <1>1 DEF RxWaited
<1>7. TickWaited'
  <2> SUFFICES ASSUME notification_id_incomplete'
               PROVE  active_state' /\ ~Posted' /\ app'.cmd \in DOMAIN hist'
    BY DEF TickWaited
  <2>1. active_state /\ Incomplete
    BY <1>1
  <2>2. ~Posted /\ app.cmd \in DOMAIN hist
    BY <2>1, IncompleteCommand DEF SysInv, PostOnce
  <2>3. app'.cmd \in DOMAIN hist'
    BY <2>2, <1>1, <1>2, IdsKept DEF appVars
  <2> QED
    BY <2>1, <2>2, <2>3, <1>5
<1> QED
  BY <1>3, <1>5, <1>6, <1>7 DEF SysRest

LEMMA TimerTickStep ==
  ASSUME SysInv, TimerTick
  PROVE  SysRest'
<1>1. /\ UNCHANGED appVars /\ UNCHANGED <<pipe, waiting_sem, notification_id_incomplete>>
      /\ poll_pc = "tick" /\ poll_pc' \in {"tick", "ticked"}
      /\ TickStep \/ TickEnd
  BY DEF TimerTick, Poll
<1>2. Next /\ Core
  BY <1>1 DEF Next, SysInv, RInv, IInv
<1>3. PipeOrigins' /\ CallIds'
  BY <1>1, QuietCallIds DEF appVars
<1>4. \A o \in Origins, op \in OpIds \cup {NoOp} : ~SendCmd(o, op)
  BY <1>1, <1>2, NothingSent
<1>5. WaitOrder' /\ PostOnce' /\ (Posted' <=> Posted) /\ (active_state' <=> active_state)
  BY <1>1, <1>2, <1>4, PollKeeps
<1>6. RxWaited'
  BY <1>1 DEF RxWaited
<1>7. TickWaited'
  <2>1. app.cmd \in DOMAIN hist => app'.cmd \in DOMAIN hist'
    BY <1>1, <1>2, IdsKept DEF appVars
  <2> QED
    BY <2>1, <1>1, <1>5 DEF TickWaited, SysInv
<1> QED
  BY <1>3, <1>5, <1>6, <1>7 DEF SysRest

\* The post: the semaphore was 0, and is now 1.
LEMMA PollPostStep ==
  ASSUME SysInv, PollPost
  PROVE  SysRest'
<1>1. /\ UNCHANGED <<hist, inflight_cmds, active_operations>>
      /\ UNCHANGED <<app, wait_state, notify_id>>
      /\ UNCHANGED <<pipe, rx, notification_id_incomplete>>
      /\ poll_pc = "post" /\ poll_pc' = "poll" /\ waiting_sem' = waiting_sem + 1
  BY DEF PollPost, Poll, aecpVars, appVars
<1>2. PipeOrigins'
  BY <1>1 DEF SysInv, PipeOrigins
<1>3. CallIds'
  BY <1>1 DEF SysInv, CallIds, NotLater
<1>4. (active_state' <=> active_state) /\ (Incomplete' <=> Incomplete)
  BY <1>1, SameIncomplete DEF active_state
<1>5. WaitOrder'
  BY <1>1, <1>4 DEF SysInv, WaitOrder, primed_state
<1>6. PostOnce'
  <2>1. waiting_sem \in Nat
    BY DEF SysInv, SysTypeOK
  <2>2. waiting_sem' = 1 /\ app.pc = "waiting" /\ Posted
    BY <2>1, <1>1 DEF SysInv, PostOnce, Posted
  <2> QED
    BY <2>2, <1>1, <1>4 DEF SysInv, PostOnce
<1>7. RxWaited' /\ TickWaited'
  BY <1>1 DEF RxWaited, TickWaited
<1> QED
  BY <1>2, <1>3, <1>5, <1>6, <1>7 DEF SysRest

LEMMA SysElapseStep ==
  ASSUME SysInv, SysElapse
  PROVE  SysRest'
<1>1. /\ UNCHANGED appVars /\ UNCHANGED pollVars /\ UNCHANGED <<pipe, waiting_sem, hist>>
      /\ Elapse
  BY DEF SysElapse, Elapse
<1>2. Next /\ Core
  BY <1>1 DEF Next, SysInv, RInv, IInv
<1>3. PipeOrigins' /\ CallIds'
  BY <1>1, QuietCallIds DEF appVars
<1>4. (Posted' <=> Posted) /\ (active_state' <=> active_state)
  BY <1>1 DEF Posted, active_state, appVars, pollVars
<1>5. WaitOrder'
  BY <1>1, <1>4 DEF SysInv, WaitOrder, appVars, primed_state
<1>6. PostOnce'
  <2>1. Posted => app.cmd \in DOMAIN hist' /\ ~Incomplete'
    BY <1>1, <1>2, NothingSent, StaysOver DEF appVars
  <2> QED
    BY <2>1, <1>1, <1>4 DEF SysInv, PostOnce, appVars, pollVars
<1>7. RxWaited' /\ TickWaited'
  BY <1>1, <1>4 DEF SysInv, RxWaited, TickWaited, match_id, appVars, pollVars
<1> QED
  BY <1>3, <1>5, <1>6, <1>7 DEF SysRest

LEMMA RestStep ==
  ASSUME SysInv, SysNext
  PROVE  SysRest'
BY AppStep, PollTxStep, PollRxStep, PollQueueInternalStep, RxCheckStep,
   TimerBeginStep, TimerTickStep, TimerCheckStep, PollPostStep, SysElapseStep
   DEF SysNext, PollNext
-----------------------------------------------------------------------------
(***************************************************************************)
(* The types.                                                              *)
(***************************************************************************)
LEMMA IssuedStep ==
  ASSUME SysInv, SysNext
  PROVE  Issued' <= MaxCmds
<1>1. CASE UNCHANGED aecpVars
  BY <1>1 DEF SysInv, Issued, aecpVars
<1>2. ASSUME Next
      PROVE  Issued' <= MaxCmds
  <2>1. hist \in Seq(CmdRecord) /\ Core
    BY DEF SysInv, RInv, IInv, Core, CoreType
  <2>2. ASSUME NEW o \in Origins, NEW op \in OpIds \cup {NoOp}, SendCmd(o, op)
        PROVE  Issued' <= MaxCmds
    <3>1. Len(hist) < MaxCmds
      BY <2>2 DEF SendCmd, Issued
    <3>2. hist' \in Seq(CmdRecord) /\ DOMAIN hist' = 1 .. Len(hist) + 1 /\ Len(hist) \in Nat
      BY <2>1, <2>2, SendHist
    <3>3. PICK n \in Nat : n = Len(hist) + 1
      BY <3>2
    <3>4. Len(hist') \in Nat /\ DOMAIN hist' = 1 .. Len(hist')
      BY <3>2
    <3>5. Len(hist') = n
      BY <3>2, <3>3, <3>4, SameLast
    <3> QED
      BY <3>1, <3>2, <3>3, <3>5, AecpAssumption DEF Issued
  <2>3. CASE Receive \/ TickBegin \/ TickStep \/ TickEnd \/ Elapse
    <3>1. DOMAIN hist' = DOMAIN hist /\ hist' \in Seq(CmdRecord)
      BY <2>1, <2>3, <1>2, NothingSent, CoreStep DEF Core, CoreType
    <3>2. /\ Len(hist') \in Nat /\ DOMAIN hist' = 1 .. Len(hist')
          /\ Len(hist) \in Nat /\ DOMAIN hist = 1 .. Len(hist)
      BY <2>1, <3>1
    <3>3. Len(hist') = Len(hist)
      BY <3>1, <3>2, SameLast
    <3> QED
      BY <3>3 DEF SysInv, Issued
  <2> QED
    BY <2>2, <2>3, <1>2 DEF Next
<1> QED
  BY <1>1, <1>2, ControllerStep DEF SysInv

\* The variables of the application thread and the semaphore.
AppTypeOK ==
  /\ wait_state \in {"idle", "primed", "active"}
  /\ notify_id \in Ids
  /\ completion_status \in Statuses
  /\ waiting_sem \in Nat
  /\ resp_status \in Statuses
  /\ app \in [pc : {"run", "calling", "written", "waiting", "woken", "leaving"},
              id : NotifyIds \cup {0}, wait : BOOLEAN, cmd : 0 .. MaxCmds]
  /\ rejects \in 0 .. MaxRejects

PollTypeOK ==
  /\ poll_pc \in {"poll", "rx", "post", "tick", "ticked"}
  /\ rx \in [notification_id : Ids, rx_status : Statuses]
  /\ notification_id_incomplete \in BOOLEAN
  /\ post_status \in Statuses

LEMMA SysTypeSplit == SysTypeOK <=> pipe \in Seq(TxData) /\ AppTypeOK /\ PollTypeOK
BY DEF SysTypeOK, AppTypeOK, PollTypeOK

LEMMA PipeTypeStep ==
  ASSUME SysInv, SysNext
  PROVE  pipe' \in Seq(TxData)
<1>1. pipe \in Seq(TxData) /\ app.id \in Ids \cup {0}
  <2>1. app \in [pc : {"run", "calling", "written", "waiting", "woken", "leaving"},
                 id : NotifyIds \cup {0}, wait : BOOLEAN, cmd : 0 .. MaxCmds]
    BY DEF SysInv, SysTypeOK
  <2>2. app.id \in NotifyIds \cup {0}
    BY <2>1
  <2> QED
    BY <2>2 DEF SysInv, SysTypeOK, Ids
<1>2. ASSUME NEW id \in Ids, NEW flag \in Flags, NEW op \in OpIds \cup {NoOp},
             WritePipe(id, flag, op)
      PROVE  pipe' \in Seq(TxData)
  <2> DEFINE e == [notification_id |-> id, notification_flag |-> flag, op |-> op]
  <2>1. e \in TxData /\ pipe' = Append(pipe, e)
    BY <1>2 DEF TxData, WritePipe
  <2> HIDE DEF e
  <2> QED
    BY <2>1, <1>1
<1>3. ASSUME NEW op \in OpIds \cup {NoOp}, AppWrite(op)
      PROVE  pipe' \in Seq(TxData)
  <2>1. app.id \in Ids
    BY <1>3 DEF AppWrite, SysInv, WaitOrder, Ids
  <2>2. CMD_WITH_NOTIFICATION \in Flags
    BY DEF Flags
  <2> QED
    BY <2>1, <2>2, <1>2, <1>3 DEF AppWrite
<1>4. ASSUME PollQueueInternal
      PROVE  pipe' \in Seq(TxData)
  <2>1. Null \in Ids /\ CMD_WITHOUT_NOTIFICATION \in Flags
    BY DEF Flags, Ids
  <2> QED
    BY <2>1, <1>2, <1>4 DEF PollQueueInternal
<1>5. ASSUME PollTx
      PROVE  pipe' \in Seq(TxData)
  BY <1>1, <1>5 DEF PollTx
<1>6. CASE UNCHANGED pipe
  BY <1>1, <1>6
<1>7. ASSUME AppNext, \A op \in OpIds \cup {NoOp} : ~AppWrite(op)
      PROVE  UNCHANGED pipe
  BY <1>7 DEF AppNext, AppCall, AppReject, AppCheck, AppWake, AppGetStatus, AppIdle
<1>8. ASSUME PollRx \/ RxCheck \/ TimerBegin \/ TimerTick \/ TimerCheck \/ PollPost
               \/ SysElapse
      PROVE  UNCHANGED pipe
  BY <1>8 DEF PollRx, RxCheck, TimerBegin, TimerTick, TimerCheck, PollPost, SysElapse,
              PostIf
<1> QED
  BY <1>3, <1>4, <1>5, <1>6, <1>7, <1>8 DEF SysNext, PollNext

LEMMA AppTypeStep ==
  ASSUME SysInv, SysNext
  PROVE  AppTypeOK'
<1> DEFINE Pcs  == {"run", "calling", "written", "waiting", "woken", "leaving"}
           Apps == [pc : Pcs, id : NotifyIds \cup {0}, wait : BOOLEAN, cmd : 0 .. MaxCmds]
<1>1. /\ wait_state \in {"idle", "primed", "active"} /\ notify_id \in Ids
      /\ completion_status \in Statuses /\ resp_status \in Statuses
      /\ post_status \in Statuses
      /\ waiting_sem \in Nat /\ app \in Apps /\ rejects \in 0 .. MaxRejects
  BY DEF SysInv, SysTypeOK
<1>2. ASSUME NEW pc \in Pcs, AppGoto(pc)
      PROVE  app' \in Apps
  BY <1>1, <1>2 DEF AppGoto
<1>3. CASE UNCHANGED <<wait_state, notify_id, completion_status, waiting_sem,
                       resp_status, app, rejects>>
  BY <1>1, <1>3 DEF AppTypeOK
<1>4. ASSUME NEW wait \in BOOLEAN, AppCall(wait)
      PROVE  AppTypeOK'
  <2>1. UNCHANGED <<completion_status, waiting_sem, resp_status, rejects>>
    BY <1>4 DEF AppCall
  <2>2. app' \in Apps
    BY <1>4, AecpAssumption DEF AppCall
  <2>3. wait_state' \in {"idle", "primed", "active"} /\ notify_id' \in Ids
    BY <1>1, <1>4 DEF AppCall, set_primed_state, Ids
  <2> QED
    BY <1>1, <2>1, <2>2, <2>3 DEF AppTypeOK
<1>5. ASSUME AppReject
      PROVE  AppTypeOK'
  <2>1. UNCHANGED <<wait_state, notify_id, completion_status, waiting_sem, resp_status>>
    BY <1>5 DEF AppReject
  <2>2. app' \in Apps
    BY <1>2, <1>5 DEF AppReject
  <2>3. rejects' \in 0 .. MaxRejects
    BY <1>1, <1>5, SystemAssumption DEF AppReject
  <2> QED
    BY <1>1, <2>1, <2>2, <2>3 DEF AppTypeOK
<1>6. ASSUME NEW op, AppWrite(op)
      PROVE  AppTypeOK'
  <2>1. UNCHANGED <<wait_state, notify_id, completion_status, waiting_sem, resp_status,
                    rejects>>
    BY <1>6 DEF AppWrite
  <2>2. Queued + 1 \in 0 .. MaxCmds
    <3>1. Queued \in Nat
      BY IdTypes DEF SysInv, Queued, Issued
    <3>2. Queued < MaxCmds
      BY <1>6 DEF AppWrite
    <3> QED
      BY <3>1, <3>2, AecpAssumption
  <2>3. PICK n \in 0 .. MaxCmds : n = Queued + 1
    BY <2>2
  <2>4. app' = [app EXCEPT !.pc = "written", !.cmd = n]
    BY <1>6, <2>3 DEF AppWrite
  <2>5. app' \in Apps
    BY <1>1, <2>4
  <2> QED
    BY <1>1, <2>1, <2>5 DEF AppTypeOK
<1>7. ASSUME AppCheck
      PROVE  AppTypeOK'
  <2>1. UNCHANGED <<notify_id, completion_status, waiting_sem, resp_status, rejects>>
    BY <1>7 DEF AppCheck
  <2>2. app' \in Apps
    BY <1>2, <1>7 DEF AppCheck
  <2>3. wait_state' \in {"idle", "primed", "active"}
    BY <1>1, <1>7 DEF AppCheck, set_active_state
  <2> QED
    BY <1>1, <2>1, <2>2, <2>3 DEF AppTypeOK
<1>8. ASSUME AppWake
      PROVE  AppTypeOK'
  <2>1. UNCHANGED <<wait_state, notify_id, completion_status, resp_status, rejects>>
    BY <1>8 DEF AppWake
  <2>2. app' \in Apps
    BY <1>2, <1>8 DEF AppWake
  <2>3. waiting_sem' \in Nat
    BY <1>1, <1>8 DEF AppWake
  <2> QED
    BY <1>1, <2>1, <2>2, <2>3 DEF AppTypeOK
<1>9. ASSUME AppGetStatus
      PROVE  AppTypeOK'
  <2>1. UNCHANGED <<wait_state, notify_id, completion_status, waiting_sem, rejects>>
    BY <1>9 DEF AppGetStatus
  <2>2. app' \in Apps
    BY <1>2, <1>9 DEF AppGetStatus
  <2>3. resp_status' \in Statuses
    BY <1>1, <1>9 DEF AppGetStatus
  <2> QED
    BY <1>1, <2>1, <2>2, <2>3 DEF AppTypeOK
<1>10. ASSUME AppIdle
       PROVE  AppTypeOK'
  <2>1. UNCHANGED <<notify_id, completion_status, waiting_sem, resp_status, rejects>>
    BY <1>10 DEF AppIdle
  <2>2. app' \in Apps
    BY <1>2, <1>10 DEF AppIdle
  <2>3. wait_state' \in {"idle", "primed", "active"}
    BY <1>10 DEF AppIdle, set_idle_state
  <2> QED
    BY <1>1, <2>1, <2>2, <2>3 DEF AppTypeOK
<1>11. ASSUME PollPost
       PROVE  AppTypeOK'
  <2>1. UNCHANGED <<wait_state, notify_id, resp_status, app, rejects>>
    BY <1>11 DEF PollPost, appVars
  <2>2. completion_status' \in Statuses
    BY <1>1, <1>11 DEF PollPost
  <2>3. waiting_sem' \in Nat
    BY <1>1, <1>11 DEF PollPost
  <2> QED
    BY <1>1, <2>1, <2>2, <2>3 DEF AppTypeOK
<1>12. ASSUME PollTx \/ PollRx \/ PollQueueInternal \/ RxCheck \/ TimerBegin \/ TimerTick
                \/ TimerCheck \/ SysElapse
       PROVE  UNCHANGED <<wait_state, notify_id, completion_status, waiting_sem,
                          resp_status, app, rejects>>
  BY <1>12 DEF PollTx, PollRx, PollQueueInternal, RxCheck, TimerBegin, TimerTick,
               TimerCheck, SysElapse, PostIf, appVars
<1> QED
  BY <1>3, <1>4, <1>5, <1>6, <1>7, <1>8, <1>9, <1>10, <1>11, <1>12
     DEF SysNext, AppNext, PollNext

\* The command of an operation known is one that was issued.
LEMMA OperationCmdType ==
  ASSUME SysInv, NEW op
  PROVE  OperationCmd(op) \in 0 .. MaxCmds
<1>1. CASE \E j \in DOMAIN active_operations : FirstWithOperationId(j, op)
  <2> DEFINE j == CHOOSE i \in DOMAIN active_operations : FirstWithOperationId(i, op)
  <2>1. j \in DOMAIN active_operations
    BY <1>1
  <2>2. OperationCmd(op) = active_operations[j].cmd
    BY <1>1 DEF OperationCmd
  <2>3. OperationCmd(op) \in DOMAIN hist
    BY <2>1, <2>2 DEF SysInv, RInv, OpsIssued
  <2> QED
    BY <2>3, IdTypes, AecpAssumption DEF SysInv, Issued
<1>2. CASE ~\E j \in DOMAIN active_operations : FirstWithOperationId(j, op)
  BY <1>2, AecpAssumption DEF OperationCmd
<1> QED
  BY <1>1, <1>2

LEMMA PollTypeStep ==
  ASSUME SysInv, SysNext
  PROVE  PollTypeOK'
<1> DEFINE Pcs == {"poll", "rx", "post", "tick", "ticked"}
           Rxs == [notification_id : Ids, rx_status : Statuses]
<1>1. /\ poll_pc \in Pcs /\ rx \in Rxs /\ post_status \in Statuses
      /\ notification_id_incomplete \in BOOLEAN /\ rx.rx_status \in Statuses
  <2>1. rx \in Rxs
    BY DEF SysInv, SysTypeOK
  <2>2. rx.rx_status \in Statuses
    BY <2>1
  <2> QED
    BY <2>1, <2>2 DEF SysInv, SysTypeOK
<1>2. ASSUME UNCHANGED pollVars
      PROVE  PollTypeOK'
  BY <1>1, <1>2 DEF PollTypeOK, pollVars
<1>3. ASSUME AppNext \/ PollQueueInternal \/ SysElapse
      PROVE  UNCHANGED pollVars
  BY <1>3 DEF AppNext, AppCall, AppReject, AppWrite, AppCheck, AppWake, AppGetStatus,
              AppIdle, PollQueueInternal, SysElapse
<1>4. ASSUME PollTx \/ TimerTick \/ PollPost
      PROVE  PollTypeOK'
  <2>1. UNCHANGED <<rx, notification_id_incomplete, post_status>> /\ poll_pc' \in Pcs
    BY <1>4 DEF PollTx, TimerTick, PollPost, Poll
  <2> QED
    BY <2>1, <1>1 DEF PollTypeOK
<1>5. ASSUME PollRx
      PROVE  PollTypeOK'
  <2>1. UNCHANGED <<notification_id_incomplete, post_status>> /\ poll_pc' \in Pcs
    BY <1>5 DEF PollRx, Poll
  <2>0. PICK nid \in Ids :
          \E c :
            /\ c \in DOMAIN hist \/ c = 0 \/ \E op \in OpIds : c = OperationCmd(op)
            /\ rx' = [notification_id |-> nid, rx_status |-> Status(c)]
    BY <1>5 DEF PollRx
  <2>2. PICK c :
          /\ c \in DOMAIN hist \/ c = 0 \/ \E op \in OpIds : c = OperationCmd(op)
          /\ rx' = [notification_id |-> nid, rx_status |-> Status(c)]
    BY <2>0
  <2>3. c \in 0 .. MaxCmds
    BY <2>2, OperationCmdType, IdTypes, AecpAssumption DEF SysInv, Issued
  <2>4. Status(c) \in Statuses
    BY <2>3 DEF Statuses
  <2>5. rx' \in Rxs
    BY <2>2, <2>4
  <2> QED
    BY <2>1, <2>5, <1>1 DEF PollTypeOK
<1>6. ASSUME NEW from, NEW done, NEW status \in Statuses, PostIf(from, done, status)
      PROVE  PollTypeOK'
  <2>1. UNCHANGED <<rx, notification_id_incomplete>> /\ poll_pc' \in Pcs
    BY <1>6 DEF PostIf, Poll
  <2>2. post_status' \in Statuses
    BY <1>1, <1>6 DEF PostIf
  <2> QED
    BY <2>1, <2>2, <1>1 DEF PollTypeOK
<1>7. ASSUME RxCheck \/ TimerCheck
      PROVE  PollTypeOK'
  <2>1. TICK_TIMEOUT \in Statuses
    BY DEF Statuses
  <2> QED
    BY <2>1, <1>1, <1>6, <1>7 DEF RxCheck, TimerCheck
<1>8. ASSUME TimerBegin
      PROVE  PollTypeOK'
  <2>1. UNCHANGED <<rx, post_status>> /\ poll_pc' \in Pcs
    BY <1>8 DEF TimerBegin, Poll
  <2>2. notification_id_incomplete' = (active_state /\ Incomplete)
    BY <1>8 DEF TimerBegin
  <2>3. notification_id_incomplete' \in BOOLEAN
    BY <2>2, Zenon
  <2> QED
    BY <2>1, <2>3, <1>1 DEF PollTypeOK
<1> QED
  BY <1>2, <1>3, <1>4, <1>5, <1>7, <1>8 DEF SysNext, PollNext
-----------------------------------------------------------------------------
THEOREM SysInvariant == SysSpec => []SysInv
<1>1. SysInit => SysInv
  <2> SUFFICES ASSUME SysInit
               PROVE  SysInv
    OBVIOUS
  <2>1. RInv
    BY InitInv DEF SysInit, Init, RInv, Origin, OpsIssued, OperationOwner
  <2>2. hist = <<>> /\ pipe = <<>> /\ Len(hist) = 0
    BY DEF SysInit, Init
  <2>3. SysTypeOK
    <3>1. AppTypeOK
      BY AecpAssumption, SystemAssumption DEF SysInit, AppTypeOK, Statuses, Ids
    <3>2. PollTypeOK
      BY DEF SysInit, PollTypeOK, Statuses, Ids
    <3> QED
      BY <2>2, <3>1, <3>2, SysTypeSplit
  <2>4. Issued <= MaxCmds
    BY <2>2, AecpAssumption DEF Issued
  <2>5. PipeOrigins /\ CallIds
    BY <2>2 DEF SysInit, PipeOrigins, CallIds
  <2>6. WaitOrder /\ PostOnce /\ RxWaited /\ TickWaited
    BY DEF SysInit, WaitOrder, PostOnce, RxWaited, TickWaited, Posted, active_state
  <2> QED
    BY <2>1, <2>3, <2>4, <2>5, <2>6 DEF SysInv
<1>2. SysInv /\ [SysNext]_sysVars => SysInv'
  <2>1. ASSUME SysInv, SysNext
        PROVE  SysInv'
    <3>1. RInv'
      <4>1. CASE Next
        BY <2>1, <4>1, NextInv, OriginStep, OwnerStep DEF SysInv, RInv, IInv
      <4>2. CASE UNCHANGED aecpVars
        BY <2>1, <4>2, NextInv DEF SysInv, RInv, Origin, OpsIssued, OperationOwner,
                                   aecpVars
      <4> QED
        BY <2>1, <4>1, <4>2, ControllerStep DEF SysInv
    <3>2. SysTypeOK'
      BY <2>1, PipeTypeStep, AppTypeStep, PollTypeStep
         DEF SysTypeOK, AppTypeOK, PollTypeOK
    <3> QED
      BY <2>1, <3>1, <3>2, IssuedStep, RestStep DEF SysInv, SysRest
  <2>2. ASSUME SysInv, UNCHANGED sysVars
        PROVE  SysInv'
    <3>1. RInv'
      BY <2>2, NextInv DEF SysInv, RInv, Origin, OpsIssued, OperationOwner,
                           aecpVars, sysVars
    <3>2. SysTypeOK'
      BY <2>2 DEF SysInv, SysTypeOK, sysVars, appVars, pollVars
    <3>3. UNCHANGED <<hist, inflight_cmds, active_operations, pipe, waiting_sem>>
            /\ UNCHANGED appVars /\ UNCHANGED pollVars
      BY <2>2 DEF sysVars, aecpVars
    <3>4. (Incomplete' <=> Incomplete) /\ (Posted' <=> Posted)
            /\ (active_state' <=> active_state)
      BY <3>3, SameIncomplete DEF appVars, pollVars, Posted, active_state
    <3>5. PipeOrigins' /\ CallIds'
      BY <2>2, <3>3 DEF SysInv, PipeOrigins, CallIds, NotLater, appVars
    <3>6. WaitOrder' /\ PostOnce' /\ RxWaited' /\ TickWaited' /\ Issued' <= MaxCmds
      BY <2>2, <3>3, <3>4 DEF SysInv, WaitOrder, PostOnce, RxWaited, TickWaited,
                              primed_state, match_id, appVars, pollVars, Issued
    <3> QED
      BY <3>1, <3>2, <3>5, <3>6 DEF SysInv
  <2> QED
    BY <2>1, <2>2
<1> QED
  BY <1>1, <1>2, PTL DEF SysSpec

\* The threads run the AECP controller as its specification has it: state_send_cmd
\* is called for what was written to the pipe, and no step of either thread, of the
\* wait manager or of a rejected call touches its tables otherwise.
THEOREM SystemRunsController == SysSpec => Spec
<1>1. SysInit => Init
  BY DEF SysInit
<1>2. SysInv /\ [SysNext]_sysVars => [Next]_aecpVars
  <2>1. SysInv /\ SysNext => [Next]_aecpVars
    BY ControllerStep DEF SysInv
  <2>2. UNCHANGED sysVars => UNCHANGED aecpVars
    BY DEF sysVars
  <2> QED
    BY <2>1, <2>2
<1> QED
  BY <1>1, <1>2, SysInvariant, PTL DEF SysSpec, Spec

\* So what is proved of the controller alone holds while calls, responses and
\* ticks interleave: a command lives as CommandLifecycle says, no response
\* completes another command's, and operations keep the id they were started under.
THEOREM SystemKeepsCommands ==
  SysSpec => ImplementsLifecycle /\ []NeverAnothersResponse /\ []OperationOwner
<1> QED
  BY SystemRunsController, ControllerImplements, NoCrossedResponse, OperationsKeepOwner, PTL

\* The asserts of fn_netif and fn_timer hold: between the check that a wait is
\* active and the post, the application thread does not leave the wait.
THEOREM AssertsAlwaysHold == SysSpec => []AssertsHold
<1>1. SysInv => AssertsHold
  BY DEF SysInv, AssertsHold, PostOnce, WaitOrder
<1> QED
  BY <1>1, SysInvariant, PTL

\* Every post is taken by the wait it was meant for: the semaphore of a call
\* that returns is 0, and nobody is about to post it.
THEOREM PostsReachTheirWait == SysSpec => []NoStrayPost
<1>1. SysInv => NoStrayPost
  <2> SUFFICES ASSUME SysInv
               PROVE  NoStrayPost
    OBVIOUS
  <2>1. waiting_sem \in Nat
    BY DEF SysInv, SysTypeOK
  <2>2. ~active_state => ~(waiting_sem > 0)
    BY DEF SysInv, PostOnce, WaitOrder
  <2>3. app.pc \in {"woken", "leaving"} => ~(waiting_sem > 0) /\ poll_pc # "post"
    BY DEF SysInv, PostOnce
  <2>4. ~(waiting_sem > 0) => waiting_sem = 0
    BY <2>1
  <2> QED
    BY <2>2, <2>3, <2>4 DEF NoStrayPost, active_state, SysInv, PostOnce
<1> QED
  BY <1>1, SysInvariant, PTL
-----------------------------------------------------------------------------
(***************************************************************************)
(* The outcome of the wait, as long as no unsolicited response has the     *)
(* sequence id of a command in flight.                                     *)
(***************************************************************************)
LEMMA EndedKept ==
  ASSUME SysInv, SysNext, NEW c, NEW end, Ended(c, end)
  PROVE  Ended(c, end)'
<1>1. Core /\ c \in DOMAIN hist /\ hist[c].outcome # <<>>
  BY DEF SysInv, RInv, IInv, Ended
<1>2. CASE UNCHANGED hist
  BY <1>2 DEF Ended
<1>3. ASSUME NEW o \in Origins, NEW op \in OpIds \cup {NoOp}, SendCmd(o, op)
      PROVE  Ended(c, end)'
  <2>1. c \in DOMAIN hist' /\ hist'[c] = hist[c]
    BY <1>1, <1>3, SendHist
  <2> QED
    BY <2>1 DEF Ended
<1>4. ASSUME NEW j \in DOMAIN inflight_cmds, NEW e \in Ends, NEW from \in Nat,
             EraseInflight(j, e, from)
      PROVE  Ended(c, end)'
  <2>1. c \in DOMAIN hist' /\ hist'[c] = hist[c]
    BY <1>1, <1>4, EraseHist
  <2> QED
    BY <2>1 DEF Ended
<1>5. ASSUME NEW j \in DOMAIN inflight_cmds, ~retried(inflight_cmds[j]),
             tx_cmd_resend(inflight_cmds[j].seq_id, inflight_cmds[j].cmd)
      PROVE  Ended(c, end)'
  <2>1. c \in DOMAIN hist' /\ hist'[c] = hist[c]
    BY <1>1, <1>5, ResendHist
  <2> QED
    BY <2>1 DEF Ended
<1>6. "COMMAND_TIMEOUT" \in Ends /\ Unsol \in Nat
  BY DEF Ends, Unsol
<1>7. Next \/ UNCHANGED hist
  BY ControllerStep DEF SysInv, aecpVars
<1> QED
  BY <1>1, <1>2, <1>3, <1>4, <1>5, <1>6, <1>7, StepCases

\* What a call was told stays true while it is the current call.
LEMMA OwnKept ==
  ASSUME SysInv, SysNext, app'.cmd = app.cmd, NEW s, Own(s)
  PROVE  Own(s)'
<1>1. PICK c : c = app.cmd
  OBVIOUS
<1>2. \A end : Ended(c, end) => Ended(c, end)'
  BY EndedKept
<1> QED
  BY <1>1, <1>2 DEF Own, Ended, Status, TICK_TIMEOUT

\* A response to a command still alive that finds an id ends that very
\* command, and it is reported.
LEMMA ResponseEnds ==
  ASSUME RInv, NEW c \in DOMAIN hist, FrameAlive(c), NEW nid, nid # Null,
         update_inflight_for_rcvd_resp(hist[c].seq_id, c, nid)
  PROVE  hist[c].notification_id = nid /\ Ended(c, "RESPONSE_RECEIVED")'
<1>1. Core /\ c \in Nat
  BY DEF RInv, IInv, Core, CoreType
<1>2. PICK j \in DOMAIN inflight_cmds :
        /\ inflight_cmds[j].seq_id = hist[c].seq_id
        /\ nid = inflight_cmds[j].notification_id
        /\ EraseInflight(j, callback(inflight_cmds[j].notification_flag), c)
  BY <1>1, RespCases
<1>3. inflight_cmds[j].cmd = c
  BY <1>1, <1>2, OwnEntry
<1>4. /\ hist[c].notification_id = nid
      /\ callback(inflight_cmds[j].notification_flag) = "RESPONSE_RECEIVED"
  BY <1>2, <1>3 DEF RInv, Origin, callback
<1>5. EraseInflight(j, "RESPONSE_RECEIVED", c)
  BY <1>2, <1>4
<1>6. "RESPONSE_RECEIVED" \in Ends
  BY DEF Ends
<1>7. /\ c \in DOMAIN hist'
      /\ hist'[c].outcome = <<[end |-> "RESPONSE_RECEIVED", from |-> c]>>
  BY <1>1, <1>3, <1>5, <1>6, EraseHist
<1> QED
  BY <1>4, <1>7 DEF Ended

LEMMA OpsEndedStep ==
  ASSUME SysInv, OpsEnded, SysNext
  PROVE  OpsEnded'
<1>1. ASSUME NEW j \in DOMAIN active_operations,
             active_operations[j].notification_id # Null
      PROVE  \A c : c = active_operations[j].cmd => Ended(c, "RESPONSE_RECEIVED")'
  BY <1>1, EndedKept DEF OpsEnded
<1>2. ASSUME NEW nid, NEW c \in DOMAIN hist, RcvdStartOperationResp(c, nid), nid # Null
      PROVE  Ended(c, "RESPONSE_RECEIVED")'
  BY <1>2, ResponseEnds DEF RcvdStartOperationResp, SysInv
<1>3. ASSUME NEW k \in DOMAIN active_operations',
             active_operations'[k].notification_id # Null
      PROVE  \A c : c = active_operations'[k].cmd => Ended(c, "RESPONSE_RECEIVED")'
  <2>1. CASE \E j \in DOMAIN active_operations :
               active_operations'[k] = active_operations[j]
    BY <2>1, <1>1, <1>3
  <2>2. CASE ~\E j \in DOMAIN active_operations :
               active_operations'[k] = active_operations[j]
    <3>1. Next
      BY <2>2, ControllerStep DEF SysInv, aecpVars
    <3>2. PICK nid \in Ids, c \in DOMAIN hist :
            /\ RcvdStartOperationResp(c, nid)
            /\ active_operations'[k].cmd = c
            /\ active_operations'[k].notification_id = nid
      BY <2>2, <3>1, OpSources DEF SysInv, RInv, IInv
    <3> QED
      BY <3>2, <1>2, <1>3
  <2> QED
    BY <2>1, <2>2
<1> QED
  BY <1>3 DEF OpsEnded, Ended

\* The status of rx_packet_event is that of the command whose id it found.
LEMMA RxStatusStep ==
  ASSUME SysInv, OpsEnded, RxStatus, UnsolicitedDistinct, SysNext
  PROVE  RxStatus'
<1>1. ASSUME NEW c \in DOMAIN hist, NEW id, NEW s, s = Status(c),
             hist[c].notification_id = id,
             Ended(c, "RESPONSE_RECEIVED") \/ Ended(c, "RESPONSE_RECEIVED")'
      PROVE  \E d \in DOMAIN hist' : /\ hist'[d].notification_id = id
                                     /\ s = Status(d)
                                     /\ Ended(d, "RESPONSE_RECEIVED")'
  <2>1. c \in DOMAIN hist' /\ hist'[c].notification_id = id
    BY <1>1, HistKept DEF SysInv
  <2>2. Ended(c, "RESPONSE_RECEIVED")'
    BY <1>1, EndedKept
  <2> QED
    BY <1>1, <2>1, <2>2
<1>2. CASE PollRx
  <2>1. PICK nid \in Ids :
          \/ \E c \in DOMAIN hist :
               /\ RcvdResp(c, nid) \/ RcvdStartOperationResp(c, nid)
               /\ rx' = [notification_id |-> nid, rx_status |-> Status(c)]
          \/ \E s \in UnsolicitedSeqIds :
               /\ RcvdUnsolicited(s, nid)
               /\ rx' = [notification_id |-> nid, rx_status |-> Status(0)]
          \/ \E s \in UnsolicitedSeqIds, op \in OpIds, fin \in BOOLEAN :
               /\ RcvdOperationStatus(s, op, fin, nid)
               /\ rx' = [notification_id |-> nid, rx_status |-> Status(OperationCmd(op))]
    BY <1>2 DEF PollRx
  <2> SUFFICES ASSUME nid # Null
               PROVE  \E c \in DOMAIN hist :
                        /\ hist[c].notification_id = nid
                        /\ rx' = [notification_id |-> nid, rx_status |-> Status(c)]
                        /\ Ended(c, "RESPONSE_RECEIVED") \/ Ended(c, "RESPONSE_RECEIVED")'
    <3>1. rx'.notification_id = nid
      BY <2>1
    <3> QED
      BY <3>1, <1>1 DEF RxStatus
  <2>2. ASSUME NEW s \in UnsolicitedSeqIds, NEW n, update_inflight_for_rcvd_resp(s, Unsol, n)
        PROVE  n = Null
    <3>1. Unsol \in Nat
      BY DEF Unsol
    <3> QED
      BY <2>2, <3>1, RespCases DEF UnsolicitedDistinct
  <2>3. ASSUME NEW c \in DOMAIN hist, RcvdResp(c, nid) \/ RcvdStartOperationResp(c, nid)
        PROVE  hist[c].notification_id = nid /\ Ended(c, "RESPONSE_RECEIVED")'
    <3>1. FrameAlive(c) /\ update_inflight_for_rcvd_resp(hist[c].seq_id, c, nid)
      BY <2>3 DEF RcvdResp, RcvdStartOperationResp
    <3> QED
      BY <3>1, ResponseEnds DEF SysInv
  <2>4. ASSUME NEW s \in UnsolicitedSeqIds, RcvdUnsolicited(s, nid)
        PROVE  FALSE
    BY <2>2, <2>4 DEF RcvdUnsolicited
  <2>5. ASSUME NEW s \in UnsolicitedSeqIds, NEW op \in OpIds, NEW fin \in BOOLEAN,
               RcvdOperationStatus(s, op, fin, nid)
        PROVE  LET c == OperationCmd(op)
               IN  /\ c \in DOMAIN hist /\ hist[c].notification_id = nid
                   /\ Ended(c, "RESPONSE_RECEIVED")
    <3>1. PICK nid1 \in Ids : /\ update_inflight_for_rcvd_resp(s, Unsol, nid1)
                              /\ update_operation_for_rcvd_resp(op, fin, nid1, nid)
      BY <2>5 DEF RcvdOperationStatus
    <3>2. nid1 = Null
      BY <2>2, <3>1
    <3>3. PICK j \in DOMAIN active_operations :
            /\ FirstWithOperationId(j, op)
            /\ nid = active_operations[j].notification_id
      BY <3>1, <3>2 DEF update_operation_for_rcvd_resp
    <3> DEFINE i == CHOOSE k \in DOMAIN active_operations : FirstWithOperationId(k, op)
    <3>4. i \in DOMAIN active_operations /\ FirstWithOperationId(i, op)
      BY <3>3
    <3>5. OperationCmd(op) = active_operations[i].cmd
      BY <3>3 DEF OperationCmd
    <3> HIDE DEF i
    <3>6. i = j
      <4>1. i \in Int /\ j \in Int /\ i >= 1 /\ j >= 1
        BY <3>3, <3>4 DEF SysInv, RInv, IInv, OpsType
      <4>2. ~(i < j) /\ ~(j < i)
        BY <4>1, <3>3, <3>4 DEF FirstWithOperationId
      <4> QED
        BY <4>1, <4>2
    <3>7. /\ active_operations[j].cmd \in DOMAIN hist
          /\ nid \in {hist[active_operations[j].cmd].notification_id, Null}
      BY <3>3 DEF SysInv, RInv, OpsIssued, OperationOwner
    <3> QED
      BY <3>3, <3>5, <3>6, <3>7 DEF OpsEnded
  <2> QED
    BY <2>1, <2>3, <2>4, <2>5
<1>3. CASE UNCHANGED rx /\ (poll_pc' = "rx" => poll_pc = "rx")
  <2> SUFFICES ASSUME poll_pc' = "rx", rx'.notification_id # Null
               PROVE  RxStatus'
    BY DEF RxStatus
  <2>1. PICK c \in DOMAIN hist : /\ hist[c].notification_id = rx.notification_id
                                 /\ rx.rx_status = Status(c)
                                 /\ Ended(c, "RESPONSE_RECEIVED")
    BY <1>3 DEF RxStatus
  <2> QED
    BY <2>1, <1>1, <1>3 DEF RxStatus
<1>4. AppNext \/ PollQueueInternal \/ SysElapse => UNCHANGED <<rx, poll_pc>>
  BY DEF AppNext, AppCall, AppReject, AppWrite, AppCheck, AppWake, AppGetStatus,
         AppIdle, PollQueueInternal, SysElapse, pollVars
<1>5. ASSUME PollTx \/ RxCheck \/ TimerBegin \/ TimerTick \/ TimerCheck \/ PollPost
      PROVE  UNCHANGED rx /\ poll_pc' # "rx"
  BY <1>5 DEF PollTx, RxCheck, TimerBegin, TimerTick, TimerCheck, PollPost, PostIf, Poll
<1> QED
  BY <1>2, <1>3, <1>4, <1>5 DEF SysNext, PollNext

\* Erasing an entry keeps the others.
LEMMA RemoveAtKeeps ==
  ASSUME NEW S, NEW s \in Seq(S), NEW i \in DOMAIN s, NEW j \in DOMAIN s, j # i
  PROVE  \E k \in DOMAIN RemoveAt(s, i) : RemoveAt(s, i)[k] = s[j]
<1>1. /\ RemoveAt(s, i) \in Seq(S) /\ Len(RemoveAt(s, i)) = Len(s) - 1
      /\ \A k \in DOMAIN RemoveAt(s, i) :
           RemoveAt(s, i)[k] = IF k < i THEN s[k] ELSE s[k + 1]
  BY RemoveAtProperties
<1>2. DOMAIN RemoveAt(s, i) = 1 .. Len(s) - 1 /\ Len(s) \in Nat
  BY <1>1
<1>3. i \in 1 .. Len(s) /\ j \in 1 .. Len(s)
  OBVIOUS
<1> HIDE DEF RemoveAt
<1>4. CASE j < i
  <2>1. j \in DOMAIN RemoveAt(s, i)
    BY <1>2, <1>3, <1>4
  <2> QED
    BY <2>1, <1>1, <1>4
<1>5. CASE j > i
  <2>1. PICK k \in Nat : k + 1 = j
    BY <1>3
  <2>2. k \in DOMAIN RemoveAt(s, i) /\ ~(k < i)
    BY <2>1, <1>2, <1>3, <1>5
  <2> QED
    BY <2>1, <2>2, <1>1
<1> QED
  BY <1>3, <1>4, <1>5

\* While fn_timer ticks for an active wait, the application thread is blocked.
LEMMA TickBlocks ==
  ASSUME SysInv, poll_pc \in {"tick", "ticked"}, notification_id_incomplete
  PROVE  ~AppNext
<1>1. active_state /\ ~Posted
  BY DEF SysInv, TickWaited
<1>2. app.pc = "waiting" /\ ~(waiting_sem > 0)
  BY <1>1 DEF SysInv, WaitOrder, Posted
<1> QED
  BY <1>2 DEF AppNext, AppCall, AppReject, AppWrite, AppCheck, AppWake, AppGetStatus,
              AppIdle

\* In a tick, the command waited for is found as before or has timed out.
LEMMA TickOutcomeStep ==
  ASSUME SysInv, TickOutcome, SysNext
  PROVE  TickOutcome'
<1>1. CASE TimerBegin
  <2>1. /\ notification_id_incomplete' => Incomplete
        /\ UNCHANGED <<inflight_cmds, active_operations, notify_id>>
    BY <1>1 DEF TimerBegin, TickBegin, appVars
  <2>2. Incomplete' <=> Incomplete
    BY <2>1, SameIncomplete
  <2> QED
    BY <2>1, <2>2 DEF TickOutcome
<1> SUFFICES ASSUME ~TimerBegin, poll_pc' \in {"tick", "ticked"},
                    notification_id_incomplete'
             PROVE  Incomplete' \/ Ended(app.cmd, "COMMAND_TIMEOUT")'
  BY <1>1 DEF TickOutcome
<1>2. ~(PollTx \/ PollRx \/ RxCheck \/ TimerCheck \/ PollPost)
  BY DEF PollTx, PollRx, RxCheck, TimerCheck, PollPost, PostIf, Poll
<1>3. poll_pc \in {"tick", "ticked"} /\ notification_id_incomplete
  <2>1. AppNext \/ PollQueueInternal \/ SysElapse
          => UNCHANGED <<notification_id_incomplete, poll_pc>>
    BY DEF AppNext, AppCall, AppReject, AppWrite, AppCheck, AppWake, AppGetStatus,
           AppIdle, PollQueueInternal, SysElapse, pollVars
  <2>2. TimerTick => UNCHANGED notification_id_incomplete /\ poll_pc = "tick"
    BY DEF TimerTick, Poll
  <2> QED
    BY <2>1, <2>2, <1>2 DEF SysNext, PollNext
<1>4. PollQueueInternal \/ TimerTick \/ SysElapse
  BY <1>2, <1>3, TickBlocks DEF SysNext, PollNext
<1>5. UNCHANGED <<app, notify_id>>
  BY <1>4 DEF PollQueueInternal, TimerTick, SysElapse, appVars
<1>6. PICK c : c = app.cmd
  OBVIOUS
<1>7. /\ active_state /\ notify_id = app.id /\ notify_id # Null
      /\ Core /\ Origin
      /\ inflight_cmds \in Seq(Inflight)
      /\ Incomplete \/ Ended(c, "COMMAND_TIMEOUT")
  BY <1>3, <1>6, ActiveId DEF SysInv, RInv, IInv, Core, CoreType, TickWaited, TickOutcome
<1>8. CASE Ended(c, "COMMAND_TIMEOUT")
  <2>1. Ended(c, "COMMAND_TIMEOUT")'
    BY <1>8, EndedKept
  <2> QED
    BY <2>1, <1>5, <1>6 DEF Ended
<1>9. CASE is_active_operation_with_notification_id(notify_id)
  <2>1. UNCHANGED active_operations
    BY <1>4 DEF PollQueueInternal, TimerTick, TickStep, TickEnd, SysElapse, Elapse,
                aecpVars
  <2> QED
    BY <2>1, <1>5, <1>9 DEF Incomplete, is_active_operation_with_notification_id
<1>10. CASE is_inflight_cmd_with_notification_id(notify_id)
  <2>1. PICK j \in DOMAIN inflight_cmds : inflight_cmds[j].notification_id = notify_id
    BY <1>10 DEF is_inflight_cmd_with_notification_id
  <2>2. ASSUME \E k \in DOMAIN inflight_cmds' :
                 inflight_cmds'[k].notification_id = inflight_cmds[j].notification_id
        PROVE  Incomplete'
    BY <2>1, <2>2, <1>5 DEF Incomplete, is_inflight_cmd_with_notification_id
  <2>3. \A e \in Inflight :
          /\ Later(e).notification_id = e.notification_id
          /\ start_timer(e).notification_id = e.notification_id
    BY DEF Later, start_timer, Inflight
  <2>4. CASE UNCHANGED inflight_cmds
    BY <2>2, <2>4
  <2>5. CASE SysElapse
    <3>1. inflight_cmds' = [i \in DOMAIN inflight_cmds |-> Later(inflight_cmds[i])]
      BY <2>5 DEF SysElapse, Elapse
    <3> QED
      BY <3>1, <2>2, <2>3, <1>7
  <2>6. ASSUME NEW i \in DOMAIN inflight_cmds,
               EraseInflight(i, "COMMAND_TIMEOUT", Unsol)
        PROVE  Incomplete' \/ Ended(app.cmd, "COMMAND_TIMEOUT")'
    <3>1. CASE i = j
      <4>1. "COMMAND_TIMEOUT" \in Ends /\ Unsol \in Nat
        BY DEF Ends, Unsol
      <4>2. PICK d \in DOMAIN hist : d = inflight_cmds[i].cmd
        BY <1>7 DEF Core, CoreType
      <4>3. /\ DOMAIN hist' = DOMAIN hist
            /\ hist'[d].outcome = <<[end |-> "COMMAND_TIMEOUT", from |-> Unsol]>>
        BY <2>6, <4>1, <4>2, <1>7, EraseHist
      <4>4. hist[d].notification_id = notify_id
        BY <2>1, <3>1, <4>2, <1>7 DEF Origin
      <4>5. d = app.cmd
        BY <4>4, <1>7, WaitedCommand
      <4> QED
        BY <4>3, <4>5, <1>5 DEF Ended
    <3>2. CASE i # j
      <4>1. inflight_cmds' = RemoveAt(inflight_cmds, i)
        BY <2>6 DEF EraseInflight
      <4>2. \E k \in DOMAIN RemoveAt(inflight_cmds, i) :
              RemoveAt(inflight_cmds, i)[k] = inflight_cmds[j]
        BY <3>2, <1>7, RemoveAtKeeps
      <4>3. \E k \in DOMAIN inflight_cmds' : inflight_cmds'[k] = inflight_cmds[j]
        BY <4>1, <4>2
      <4> QED
        BY <4>3, <2>2
    <3> QED
      BY <3>1, <3>2
  <2>7. ASSUME NEW s, NEW d, tx_cmd_resend(s, d)
        PROVE  Incomplete'
    <3>1. PICK i \in DOMAIN inflight_cmds :
            inflight_cmds' = [inflight_cmds EXCEPT ![i] = start_timer(inflight_cmds[i])]
      BY <2>7 DEF tx_cmd_resend
    <3> QED
      BY <3>1, <2>2, <2>3, <1>7
  <2>8. CASE PollQueueInternal \/ TimerTick
    BY <2>4, <2>6, <2>7, <2>8 DEF PollQueueInternal, TimerTick, TickStep, TickEnd,
                                  state_timeout, aecpVars
  <2> QED
    BY <2>5, <2>8, <1>4
<1> QED
  BY <1>7, <1>8, <1>9, <1>10 DEF Incomplete

LEMMA WaitOutcomeStep ==
  ASSUME SysInv, OutcomeInv, SysNext
  PROVE  WaitOutcome'
<1>1. ASSUME NEW s, Own(s), app'.cmd = app.cmd
      PROVE  Own(s)'
  BY <1>1, OwnKept
<1>2. ASSUME UNCHANGED <<app, wait_state, poll_pc, post_status, waiting_sem,
                         completion_status, resp_status>>
      PROVE  WaitOutcome'
  <2>1. PICK p, q, r : p = post_status /\ q = completion_status /\ r = resp_status
    OBVIOUS
  <2>2. /\ poll_pc' = "post" => Own(p)'
        /\ waiting_sem' > 0 \/ app'.pc = "woken" => Own(q)'
        /\ app'.pc = "leaving" => Own(r)'
        /\ app'.pc = "run" /\ app'.wait /\ app'.cmd # 0 /\ wait_state' = "idle" => Own(r)'
    BY <2>1, <1>1, <1>2 DEF OutcomeInv, WaitOutcome
  <2> QED
    BY <2>1, <2>2, <1>2 DEF WaitOutcome, Own
<1>3. CASE AppNext
  <2>1. UNCHANGED <<poll_pc, post_status, completion_status>>
    BY <1>3 DEF AppNext, AppCall, AppReject, AppWrite, AppCheck, AppWake, AppGetStatus,
                AppIdle, pollVars
  <2>2. ASSUME app.pc # "waiting"
        PROVE  poll_pc # "post" /\ ~(waiting_sem > 0)
    BY <2>2 DEF SysInv, PostOnce
  <2>3. CASE \E wait \in BOOLEAN : AppCall(wait)
    <3>1. app.pc = "run" /\ app'.pc = "calling" /\ UNCHANGED waiting_sem
      BY <2>3 DEF AppCall
    <3> QED
      BY <3>1, <2>1, <2>2 DEF WaitOutcome
  <2>4. CASE AppReject
    <3>1. /\ app.pc = "calling" /\ app'.pc = "run" /\ app'.cmd = app.cmd
          /\ UNCHANGED waiting_sem
      BY <2>4, IdTypes DEF AppReject, AppGoto, SysInv
    <3>2. app.cmd = 0
      BY <3>1 DEF SysInv, CallIds
    <3> QED
      BY <3>1, <3>2, <2>1, <2>2 DEF WaitOutcome
  <2>5. CASE \E op \in OpIds \cup {NoOp} : AppWrite(op)
    <3>1. app.pc = "calling" /\ app'.pc = "written" /\ UNCHANGED waiting_sem
      BY <2>5, IdTypes DEF AppWrite, SysInv
    <3> QED
      BY <3>1, <2>1, <2>2 DEF WaitOutcome
  <2>6. CASE AppCheck
    <3>1. /\ app.pc = "written" /\ UNCHANGED waiting_sem
          /\ \/ app'.pc = "waiting"
             \/ app'.pc = "run" /\ app'.wait = app.wait /\ wait_state' = wait_state
      BY <2>6, IdTypes DEF AppCheck, AppGoto, SysInv
    <3>2. app.wait => wait_state # "idle"
      BY <3>1 DEF SysInv, WaitOrder, primed_state
    <3> QED
      BY <3>1, <3>2, <2>1, <2>2 DEF WaitOutcome
  <2>7. CASE AppWake
    <3>1. /\ app.pc = "waiting" /\ app'.pc = "woken" /\ app'.cmd = app.cmd
          /\ waiting_sem > 0
      BY <2>7, IdTypes DEF AppWake, AppGoto, SysInv
    <3>2. PICK q : q = completion_status
      OBVIOUS
    <3>3. Own(q)'
      BY <3>1, <3>2, <1>1 DEF OutcomeInv, WaitOutcome
    <3>4. Own(completion_status)'
      BY <3>2, <3>3, <2>1 DEF Own
    <3>5. poll_pc # "post"
      BY <3>1 DEF SysInv, PostOnce
    <3> QED
      BY <3>1, <3>4, <3>5, <2>1 DEF WaitOutcome
  <2>8. CASE AppGetStatus
    <3>1. /\ app.pc = "woken" /\ app'.pc = "leaving" /\ app'.cmd = app.cmd
          /\ UNCHANGED waiting_sem /\ resp_status' = completion_status
      BY <2>8, IdTypes DEF AppGetStatus, AppGoto, SysInv
    <3>2. PICK q : q = completion_status
      OBVIOUS
    <3>3. Own(q)'
      BY <3>1, <3>2, <1>1 DEF OutcomeInv, WaitOutcome
    <3>4. Own(resp_status)'
      BY <3>1, <3>2, <3>3 DEF Own
    <3> QED
      BY <3>1, <3>4, <2>1, <2>2 DEF WaitOutcome
  <2>9. CASE AppIdle
    <3>1. /\ app.pc = "leaving" /\ app'.pc = "run" /\ app'.cmd = app.cmd
          /\ UNCHANGED <<waiting_sem, resp_status>>
      BY <2>9, IdTypes DEF AppIdle, AppGoto, SysInv
    <3>2. PICK r : r = resp_status
      OBVIOUS
    <3>3. Own(r)'
      BY <3>1, <3>2, <1>1 DEF OutcomeInv, WaitOutcome
    <3>4. Own(resp_status)'
      BY <3>1, <3>2, <3>3 DEF Own
    <3> QED
      BY <3>1, <3>4, <2>1, <2>2 DEF WaitOutcome
  <2> QED
    BY <1>3, <2>3, <2>4, <2>5, <2>6, <2>7, <2>8, <2>9 DEF AppNext
\* The semaphore and the statuses read by the application thread stay.
<1>4. ASSUME UNCHANGED <<app, wait_state, waiting_sem, completion_status, resp_status>>,
             poll_pc' = "post" => Own(post_status)'
      PROVE  WaitOutcome'
  <2>1. PICK q, r : q = completion_status /\ r = resp_status
    OBVIOUS
  <2>2. /\ waiting_sem' > 0 \/ app'.pc = "woken" => Own(q)'
        /\ app'.pc = "leaving" => Own(r)'
        /\ app'.pc = "run" /\ app'.wait /\ app'.cmd # 0 /\ wait_state' = "idle" => Own(r)'
    BY <2>1, <1>1, <1>4 DEF OutcomeInv, WaitOutcome
  <2> QED
    BY <2>1, <2>2, <1>4 DEF WaitOutcome, Own
<1>5. CASE PollTx \/ PollRx \/ TimerBegin \/ TimerTick
  <2>1. /\ UNCHANGED <<app, wait_state, waiting_sem, completion_status, resp_status>>
        /\ poll_pc' # "post"
    BY <1>5 DEF PollTx, PollRx, TimerBegin, TimerTick, Poll, appVars
  <2> QED
    BY <2>1, <1>4
<1>6. CASE PollQueueInternal \/ SysElapse
  BY <1>2, <1>6 DEF PollQueueInternal, SysElapse, appVars, pollVars
<1>7. ASSUME NEW from, NEW done, NEW status, PostIf(from, done, status),
             done => Own(status)
      PROVE  WaitOutcome'
  <2>1. /\ UNCHANGED <<app, wait_state, waiting_sem, completion_status, resp_status>>
        /\ poll_pc' = "post" => done /\ post_status' = status
    BY <1>7 DEF PostIf, Poll, appVars
  <2>2. done => Own(status)'
    BY <2>1, <1>1, <1>7
  <2> QED
    BY <2>1, <2>2, <1>4 DEF Own
<1>8. CASE RxCheck
  <2> DEFINE done == active_state /\ match_id(rx.notification_id) /\ ~Incomplete
  <2>1. PICK s : s = rx.rx_status
    OBVIOUS
  <2>2. PostIf("rx", done, s)
    BY <2>1, <1>8 DEF RxCheck
  <2>3. ASSUME done
        PROVE  Own(s)
    <3>1. active_state /\ rx.notification_id = notify_id /\ notify_id # Null
      BY <2>3, ActiveId DEF match_id
    <3>2. poll_pc = "rx"
      BY <2>2 DEF PostIf, Poll
    <3>3. PICK c \in DOMAIN hist : /\ hist[c].notification_id = notify_id
                                   /\ s = Status(c)
                                   /\ Ended(c, "RESPONSE_RECEIVED")
      BY <3>1, <3>2, <2>1 DEF OutcomeInv, RxStatus
    <3>4. c = app.cmd
      BY <3>1, <3>3, WaitedCommand
    <3> QED
      BY <3>3, <3>4 DEF Own
  <2> HIDE DEF done
  <2> QED
    BY <2>2, <2>3, <1>7
<1>9. CASE TimerCheck
  <2> DEFINE done == active_state /\ notification_id_incomplete /\ ~Incomplete
  <2>1. PostIf("ticked", done, TICK_TIMEOUT)
    BY <1>9 DEF TimerCheck
  <2>2. ASSUME done
        PROVE  Own(TICK_TIMEOUT)
    <3>1. poll_pc = "ticked"
      BY <2>1 DEF PostIf, Poll
    <3>2. Ended(app.cmd, "COMMAND_TIMEOUT")
      BY <3>1, <2>2 DEF OutcomeInv, TickOutcome
    <3> QED
      BY <3>2 DEF Own
  <2> HIDE DEF done
  <2>3. PICK s : s = TICK_TIMEOUT
    OBVIOUS
  <2> QED
    BY <2>1, <2>2, <2>3, <1>7
<1>10. CASE PollPost
  <2>1. /\ UNCHANGED <<app, wait_state, resp_status>>
        /\ poll_pc = "post" /\ poll_pc' = "poll"
        /\ active_state => completion_status' = post_status
    BY <1>10 DEF PollPost, Poll, appVars
  <2>2. app.pc = "waiting" /\ active_state
    BY <2>1 DEF SysInv, PostOnce, WaitOrder
  <2>3. PICK p : p = post_status
    OBVIOUS
  <2>4. Own(p)'
    BY <2>1, <2>3, <1>1 DEF OutcomeInv, WaitOutcome
  <2>5. Own(completion_status)'
    BY <2>1, <2>2, <2>3, <2>4 DEF Own
  <2> QED
    BY <2>1, <2>2, <2>5 DEF WaitOutcome
<1> QED
  BY <1>3, <1>5, <1>6, <1>8, <1>9, <1>10 DEF SysNext, PollNext

\* A wait that is over returned the outcome of its own command: its response,
\* the last status of its operation, or a timeout if and only if it timed out;
\* for every number of commands and every interleaving of the two threads, as
\* long as no unsolicited response has the sequence id of a command in flight.
THEOREM WaitReturnsOwnOutcome ==
  SysSpec /\ []UnsolicitedDistinct => []WaiterGetsOwnOutcome
<1>1. SysInit => OutcomeInv
  BY DEF SysInit, Init, OutcomeInv, OpsEnded, RxStatus, TickOutcome, WaitOutcome
<1>2. ASSUME SysInv, OutcomeInv, UnsolicitedDistinct, SysNext
      PROVE  OutcomeInv'
  BY <1>2, OpsEndedStep, RxStatusStep, TickOutcomeStep, WaitOutcomeStep DEF OutcomeInv
<1>3. ASSUME OutcomeInv, UNCHANGED sysVars
      PROVE  OutcomeInv'
  <2>1. /\ UNCHANGED <<hist, active_operations, inflight_cmds, completion_status,
                       waiting_sem>>
        /\ UNCHANGED appVars /\ UNCHANGED pollVars
    BY <1>3 DEF sysVars, aecpVars
  <2>2. OpsEnded'
    BY <2>1, <1>3 DEF OutcomeInv, OpsEnded, Ended
  <2>3. RxStatus'
    BY <2>1, <1>3 DEF OutcomeInv, RxStatus, Ended, pollVars
  <2>4. TickOutcome'
    BY <2>1, <1>3, SameIncomplete DEF OutcomeInv, TickOutcome, Ended, pollVars, appVars
  <2>5. WaitOutcome'
    BY <2>1, <1>3 DEF OutcomeInv, WaitOutcome, Own, Ended, pollVars, appVars
  <2> QED
    BY <2>2, <2>3, <2>4, <2>5 DEF OutcomeInv
<1>4. SysInv /\ OutcomeInv /\ UnsolicitedDistinct /\ [SysNext]_sysVars => OutcomeInv'
  BY <1>2, <1>3
<1>5. SysInv /\ OutcomeInv => WaiterGetsOwnOutcome
  <2> SUFFICES ASSUME SysInv, OutcomeInv, app.pc = "run", app.wait, app.cmd # 0,
                      wait_state = "idle"
               PROVE  \E c \in DOMAIN hist \cap {app.cmd} :
                        \E k \in DOMAIN hist[c].outcome :
                          \/ /\ resp_status = Status(c)
                             /\ hist[c].outcome[k].end = "RESPONSE_RECEIVED"
                          \/ /\ resp_status = TICK_TIMEOUT
                             /\ hist[c].outcome[k].end = "COMMAND_TIMEOUT"
    BY DEF WaiterGetsOwnOutcome
  <2>1. Own(resp_status)
    BY DEF OutcomeInv, WaitOutcome
  <2>2. PICK c \in DOMAIN hist : c = app.cmd /\ hist[c].outcome # <<>>
    BY <2>1 DEF Own, Ended
  <2>3. 1 \in DOMAIN hist[c].outcome
    <3>1. hist[c] \in CmdRecord
      BY DEF SysInv, RInv, IInv, Core, CoreType
    <3>2. hist[c].outcome \in Seq([end : Ends, from : Nat])
      BY <3>1 DEF CmdRecord
    <3> QED
      BY <3>2, <2>2
  <2> QED
    BY <2>1, <2>2, <2>3 DEF Own, Ended
<1> QED
  BY <1>1, <1>4, <1>5, SysInvariant, PTL DEF SysSpec
=============================================================================
