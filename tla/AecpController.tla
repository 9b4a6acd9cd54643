--------------------------- MODULE AecpController ---------------------------
(***************************************************************************)
(* The AECP controller state machine (aecp_controller_state_machine.cpp)   *)
(* with the in-flight records of inflight.h and the operations of          *)
(* operation.h.                                                            *)
(*                                                                         *)
(* All of it runs in the library's poll thread.  tick() is a loop that     *)
(* erases entries while it walks the vector, so it is modelled one loop    *)
(* iteration per step; every other entry point is one action and may not   *)
(* run while the loop does.                                                *)
(*                                                                         *)
(* A timer is the time elapsed since timer::start, saturated one unit past *)
(* the timeout: timeout() compares elapsed > count and nothing else reads  *)
(* the clock.                                                              *)
(*                                                                         *)
(* hist is a history variable.  It numbers the commands in the order they  *)
(* are issued and records, for each, the frame that went out, how often it *)
(* was sent and what ended it.                                             *)
(***************************************************************************)
EXTENDS Integers, Sequences, SequencesExt

CONSTANTS
  NotifyIds,         \* ids the application gives to its commands
  Null,              \* the id of a command the library issues for itself
  SeqIdMod,          \* number of sequence ids; 2^16 in the code (uint16_t)
  MsgTimeout,        \* AVDECC_MSG_TIMEOUT_MS, in units of model time
  OpIds,             \* non-zero operation ids used by entities
  UnsolicitedSeqIds, \* sequence ids entities put into unsolicited responses
  MaxCmds,           \* bound on the number of commands issued in a behaviour
  MaxOps             \* bound on the number of operations active at a time

ASSUME AecpAssumption ==
  /\ Null \notin NotifyIds
  /\ SeqIdMod \in Nat \ {0}
  /\ MsgTimeout \in Nat
  /\ OpIds \subseteq Nat \ {0}
  /\ UnsolicitedSeqIds \subseteq 0 .. SeqIdMod - 1
  /\ MaxCmds \in Nat
  /\ MaxOps \in Nat

VARIABLES
  aecp_seq_id,       \* next sequence id
  inflight_cmds,     \* commands waiting for a response, oldest first
  active_operations, \* operations started by an entity and not finished
  tick_pos,          \* 0, or the 1-based position of the loop in tick()
  hist               \* history of the commands issued

aecpVars == <<aecp_seq_id, inflight_cmds, active_operations, tick_pos, hist>>

CMD_WITHOUT_NOTIFICATION == "CMD_WITHOUT_NOTIFICATION"
CMD_WITH_NOTIFICATION    == "CMD_WITH_NOTIFICATION"
Flags == {CMD_WITHOUT_NOTIFICATION, CMD_WITH_NOTIFICATION}

\* The id and flag of a command: internal commands carry NULL and no
\* notification, commands of the application their own id and a notification.
Origins == {<<Null, CMD_WITHOUT_NOTIFICATION>>}
             \cup (NotifyIds \X {CMD_WITH_NOTIFICATION})

Ids       == NotifyIds \cup {Null}
NoOp      == 0
Unsol     == 0            \* "answered by" value of an unsolicited response

\* How a command can end: a response with or without a notification to the
\* application, or the timeout of its retry.
Ends == {"RESPONSE_RECEIVED", "logged", "COMMAND_TIMEOUT"}

Inflight == [cmd : Nat \ {0}, seq_id : 0 .. SeqIdMod - 1,
             notification_id : Ids, notification_flag : Flags,
             start_timer_cnt : Nat, elapsed : 0 .. MsgTimeout + 1]

Operation == [operation_id : OpIds, notification_id : Ids, cmd : Nat \ {0}]

CmdRecord == [seq_id : 0 .. SeqIdMod - 1, notification_id : Ids,
              op : OpIds \cup {NoOp}, sends : Nat,
              outcome : Seq([end : Ends, from : Nat])]

Issued == Len(hist)
-----------------------------------------------------------------------------
(***************************************************************************)
(* inflight.h                                                              *)
(***************************************************************************)
retried(e) == e.start_timer_cnt >= 2
timeout(e) == e.elapsed > MsgTimeout
start_timer(e) == [e EXCEPT !.start_timer_cnt = @ + 1, !.elapsed = 0]

\* Mutant: the oldest entry, whatever its sequence id.
FirstWithSeqId_oldest(j, s) == j = 1 /\ j \in DOMAIN inflight_cmds

\* The entry std::find_if(..., SeqIdComp(s)) stops at.
FirstWithSeqId(j, s) ==
  /\ j \in DOMAIN inflight_cmds
  /\ inflight_cmds[j].seq_id = s
  /\ \A k \in 1 .. j - 1 : inflight_cmds[k].seq_id # s

NoneWithSeqId(s) == \A j \in DOMAIN inflight_cmds : inflight_cmds[j].seq_id # s

is_inflight_cmd_with_notification_id(id) ==
  \E j \in DOMAIN inflight_cmds : inflight_cmds[j].notification_id = id

is_active_operation_with_notification_id(id) ==
  \E j \in DOMAIN active_operations : active_operations[j].notification_id = id

callback_always(flag) == "RESPONSE_RECEIVED"                      \* mutant

\* callback(): a response to a command sent with a notification is posted to
\* the application, any other is only logged.
callback(flag) ==
  IF flag = CMD_WITH_NOTIFICATION THEN "RESPONSE_RECEIVED" ELSE "logged"

\* erase entry j, which ended in the given way.
EraseInflight(j, end, from) ==
  /\ inflight_cmds' = RemoveAt(inflight_cmds, j)
  /\ hist' = [hist EXCEPT ![inflight_cmds[j].cmd].outcome =
                            Append(@, [end |-> end, from |-> from])]
-----------------------------------------------------------------------------
(***************************************************************************)
(* Issuing a command.  A command is numbered Issued + 1.  The uint16_t     *)
(* counter wraps; SeqWindow is the assumption that makes sequence ids      *)
(* usable at all: fewer than SeqIdMod commands are issued in the life of   *)
(* one command (65536 commands in the half second a command lives).        *)
(***************************************************************************)
SeqWindow ==
  \A j \in DOMAIN inflight_cmds : Issued + 1 - inflight_cmds[j].cmd < SeqIdMod

NewInflight(id, flag) ==
  [cmd |-> Issued + 1, seq_id |-> aecp_seq_id, notification_id |-> id,
   notification_flag |-> flag, start_timer_cnt |-> 0, elapsed |-> 0]

PushInflight(id, flag, op) ==
  /\ inflight_cmds' = Append(inflight_cmds, start_timer(NewInflight(id, flag)))
  /\ hist' = Append(hist, [seq_id |-> aecp_seq_id, notification_id |-> id,
                           op |-> op, sends |-> 1, outcome |-> <<>>])
  /\ UNCHANGED <<active_operations, tick_pos>>

\* Mutant: the counter does not wrap.
state_send_cmd_wide(id, flag, op) ==
  aecp_seq_id' = aecp_seq_id + 1 /\ PushInflight(id, flag, op)

state_send_cmd(id, flag, op) ==
  /\ aecp_seq_id' = (aecp_seq_id + 1) % SeqIdMod
  /\ PushInflight(id, flag, op)

\* op is the operation id the entity will answer with if the command is a
\* START_OPERATION, and NoOp for every other command.
SendCmd(origin, op) ==
  /\ tick_pos = 0
  /\ Issued < MaxCmds
  /\ SeqWindow
  /\ state_send_cmd(origin[1], origin[2], op)
-----------------------------------------------------------------------------
(***************************************************************************)
(* Receiving a response.  The network loses, delays, reorders and          *)
(* duplicates frames: a response to any command issued may arrive any      *)
(* number of times, as long as its sequence id is not yet in use again     *)
(* (FrameAlive).  nid is what the handler leaves in notification_id.       *)
(***************************************************************************)
FrameAlive(c) == Issued - c < SeqIdMod

proc_resp(s, from, nid) ==
  \/ \E j \in DOMAIN inflight_cmds :
       /\ FirstWithSeqId(j, s)
       /\ nid = inflight_cmds[j].notification_id
       /\ EraseInflight(j, callback(inflight_cmds[j].notification_flag), from)
  \/ /\ NoneWithSeqId(s)
     /\ nid = Null
     /\ UNCHANGED <<inflight_cmds, hist>>

\* With the u_field set, proc_unsolicited does nothing and the response is
\* then matched against the commands in flight like any other.
update_inflight_for_rcvd_resp(s, from, nid) == proc_resp(s, from, nid)

start_operation(nid, c) ==
  active_operations' = Append(active_operations,
    [operation_id |-> hist[c].op, notification_id |-> nid, cmd |-> c])

\* A response to command c other than the success of a START_OPERATION.
RcvdResp(c, nid) ==
  /\ tick_pos = 0
  /\ c \in DOMAIN hist
  /\ FrameAlive(c)
  /\ update_inflight_for_rcvd_resp(hist[c].seq_id, c, nid)
  /\ UNCHANGED <<aecp_seq_id, active_operations, tick_pos>>

\* A successful response to the START_OPERATION c: memory_object_descriptor
\* proc_start_operation_resp, then start_operation with the id found.
RcvdStartOperationResp(c, nid) ==
  /\ tick_pos = 0
  /\ c \in DOMAIN hist
  /\ hist[c].op # NoOp
  /\ FrameAlive(c)
  /\ Len(active_operations) < MaxOps
  /\ update_inflight_for_rcvd_resp(hist[c].seq_id, c, nid)
  /\ start_operation(nid, c)
  /\ UNCHANGED <<aecp_seq_id, tick_pos>>

\* An unsolicited response (u_field set), its sequence id the entity's own.
RcvdUnsolicited(s, nid) ==
  /\ tick_pos = 0
  /\ update_inflight_for_rcvd_resp(s, Unsol, nid)
  /\ UNCHANGED <<aecp_seq_id, active_operations, tick_pos>>

FirstWithOperationId(j, op) ==
  /\ j \in DOMAIN active_operations
  /\ active_operations[j].operation_id = op
  /\ \A k \in 1 .. j - 1 : active_operations[k].operation_id # op

\* finished stands for percent_complete = 0 or 1000.  nid1 is the id the
\* in-flight lookup found; an operation found overwrites it.
update_operation_for_rcvd_resp(op, finished, nid1, nid) ==
  \/ \E j \in DOMAIN active_operations :
       /\ FirstWithOperationId(j, op)
       /\ nid = active_operations[j].notification_id
       /\ active_operations' =
            IF finished THEN RemoveAt(active_operations, j) ELSE active_operations
  \/ /\ \A j \in DOMAIN active_operations : active_operations[j].operation_id # op
     /\ nid = nid1
     /\ UNCHANGED active_operations

\* proc_operation_status_resp: an OPERATION_STATUS response is unsolicited
\* and goes through the in-flight lookup before the operations.
RcvdOperationStatus(s, op, finished, nid) ==
  /\ tick_pos = 0
  /\ \E nid1 \in Ids :
       /\ update_inflight_for_rcvd_resp(s, Unsol, nid1)
       /\ update_operation_for_rcvd_resp(op, finished, nid1, nid)
  /\ UNCHANGED <<aecp_seq_id, tick_pos>>
-----------------------------------------------------------------------------
(***************************************************************************)
(* tick(): for(i = 0; i < inflight_cmds.size(); i++).  Erasing entry i     *)
(* moves its successor to i, and i++ then skips it until the next tick.    *)
(***************************************************************************)
TickBegin_from1 ==                                               \* mutant
  /\ tick_pos = 0
  /\ tick_pos' = 2
  /\ UNCHANGED <<aecp_seq_id, inflight_cmds, active_operations, hist>>

TickBegin ==
  /\ tick_pos = 0
  /\ tick_pos' = 1
  /\ UNCHANGED <<aecp_seq_id, inflight_cmds, active_operations, hist>>

\* tx_cmd with resend = true: the entry is looked up by its sequence id.
tx_cmd_resend(s, c) ==
  /\ \E j \in DOMAIN inflight_cmds :
       /\ FirstWithSeqId(j, s)
       /\ inflight_cmds' = [inflight_cmds EXCEPT ![j] = start_timer(@)]
  /\ hist' = [hist EXCEPT ![c].sends = @ + 1]

state_timeout(i) ==
  LET e == inflight_cmds[i]
  IN  \/ /\ retried(e)
         /\ EraseInflight(i, "COMMAND_TIMEOUT", Unsol)
      \/ /\ ~retried(e)
         /\ tx_cmd_resend(e.seq_id, e.cmd)

TickStep ==
  /\ tick_pos \in DOMAIN inflight_cmds
  /\ \/ /\ timeout(inflight_cmds[tick_pos])
        /\ state_timeout(tick_pos)
     \/ /\ ~timeout(inflight_cmds[tick_pos])
        /\ UNCHANGED <<inflight_cmds, hist>>
  /\ tick_pos' = tick_pos + 1
  /\ UNCHANGED <<aecp_seq_id, active_operations>>

TickEnd ==
  /\ tick_pos > Len(inflight_cmds)
  /\ tick_pos' = 0
  /\ UNCHANGED <<aecp_seq_id, inflight_cmds, active_operations, hist>>

\* One unit of time passes for every running timer.
Later(e) == [e EXCEPT !.elapsed = IF @ > MsgTimeout THEN @ ELSE @ + 1]

Elapse ==
  /\ \E j \in DOMAIN inflight_cmds : ~timeout(inflight_cmds[j])
  /\ inflight_cmds' = [j \in DOMAIN inflight_cmds |-> Later(inflight_cmds[j])]
  /\ UNCHANGED <<aecp_seq_id, active_operations, tick_pos, hist>>
-----------------------------------------------------------------------------
Init ==
  /\ aecp_seq_id = 0
  /\ inflight_cmds = <<>>
  /\ active_operations = <<>>
  /\ tick_pos = 0
  /\ hist = <<>>

Receive ==
  \E nid \in Ids :
    \/ \E c \in DOMAIN hist : RcvdResp(c, nid)
    \/ \E c \in DOMAIN hist : RcvdStartOperationResp(c, nid)
    \/ \E s \in UnsolicitedSeqIds : RcvdUnsolicited(s, nid)
    \/ \E s \in UnsolicitedSeqIds, op \in OpIds, fin \in BOOLEAN :
         RcvdOperationStatus(s, op, fin, nid)

Next ==
  \/ \E o \in Origins, op \in OpIds \cup {NoOp} : SendCmd(o, op)
  \/ Receive
  \/ TickBegin
  \/ TickStep
  \/ TickEnd
  \/ Elapse

Spec == Init /\ [][Next]_aecpVars

(***************************************************************************)
(* The poll thread keeps ticking (timerfd every 25 ms) and time passes.    *)
(* Nothing is assumed of the application or of the network.                *)
(***************************************************************************)
Fairness ==
  /\ WF_aecpVars(TickBegin)
  /\ WF_aecpVars(TickStep)
  /\ WF_aecpVars(TickEnd)
  /\ WF_aecpVars(Elapse)

FairSpec == Spec /\ Fairness
-----------------------------------------------------------------------------
TypeOK ==
  /\ aecp_seq_id \in 0 .. SeqIdMod - 1
  /\ inflight_cmds \in Seq(Inflight)
  /\ active_operations \in Seq(Operation)
  /\ tick_pos \in Nat
  /\ hist \in Seq(CmdRecord)
  /\ \A j \in DOMAIN inflight_cmds : inflight_cmds[j].cmd \in DOMAIN hist

\* Two commands in flight never share a sequence id, across wraps of the
\* uint16_t counter, so the find_if of proc_resp and of a resend can only
\* stop at the entry meant.
DistinctSeqIds ==
  \A j, k \in DOMAIN inflight_cmds :
    inflight_cmds[j].seq_id = inflight_cmds[k].seq_id => j = k

InFlight(c) == \E j \in DOMAIN inflight_cmds : inflight_cmds[j].cmd = c

\* Every command issued is either still in flight or has ended exactly once:
\* no response, duplicate, late response or timeout can end a command twice
\* or make it vanish without its notification.
EndsOnce ==
  \A c \in DOMAIN hist :
    Len(hist[c].outcome) = IF InFlight(c) THEN 0 ELSE 1

\* COMMAND_TIMEOUT is posted only for a command that was sent, timed out, was
\* sent once more and timed out again; nothing is ever sent a third time.
TimeoutAfterRetry ==
  \A c \in DOMAIN hist :
    /\ hist[c].sends \in 1 .. 2
    /\ \A k \in DOMAIN hist[c].outcome :
         hist[c].outcome[k].end = "COMMAND_TIMEOUT" => hist[c].sends = 2

\* A command is never ended by a response to another command, however late,
\* repeated or reordered responses are and wherever the sequence ids wrap.
NeverAnothersResponse ==
  \A c \in DOMAIN hist : \A k \in DOMAIN hist[c].outcome :
    hist[c].outcome[k].end # "COMMAND_TIMEOUT" => hist[c].outcome[k].from \in {c, Unsol}

\* An operation reports to the application under the id of the START_OPERATION
\* command that started it, or under none if that command had already ended
\* when its (duplicate or late) response arrived; never under another's id.
OperationOwner ==
  \A j \in DOMAIN active_operations :
    LET o == active_operations[j]
    IN  o.notification_id \in {hist[o.cmd].notification_id, Null}

\* Every command ends, although tick() skips the successor of each entry it
\* erases and although every frame may be lost.
EveryCommandEnds ==
  \A c \in 1 .. MaxCmds :
    (c \in DOMAIN hist /\ InFlight(c)) ~> (c \in DOMAIN hist /\ ~InFlight(c))
=============================================================================
