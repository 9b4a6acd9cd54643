--------------------------- MODULE AcmpController ---------------------------
(***************************************************************************)
(* The ACMP controller state machine (acmp_controller_state_machine.cpp),  *)
(* which connects and disconnects streams, with the in-flight records of   *)
(* inflight.h.  It differs from the AECP one in that every kind of command *)
(* has a timeout of its own, so that commands time out out of order, and   *)
(* in that responses are multicast: controller_imp::find_in_end_station    *)
(* drops those meant for other controllers, but lets those pass that an    *)
(* entity addresses to itself as its own controller.                       *)
(*                                                                         *)
(* All of it runs in the poll thread; the loop of tick() is one iteration  *)
(* per step, as in AecpController, and the timers are modelled likewise.   *)
(* A response for a stream whose descriptor is not known is dropped before *)
(* it gets here, like one that is lost.  Every command is issued by the    *)
(* application and carries a notification, and of the responses only those *)
(* of the five kinds the library asks for get here, so that callback       *)
(* always posts.                                                           *)
(*                                                                         *)
(* hist is history: for each command issued its id and frame, how often it *)
(* was sent, its age while in flight and what ended it.                    *)
(***************************************************************************)
EXTENDS Integers, Sequences, SequencesExt

CONSTANTS
  MsgTypes,        \* kinds of commands
  acmp_cmd_to_timeout, \* the timeout of each kind, in units of model time
  NotifyIds,       \* notification ids of the application
  SeqIdMod,        \* number of sequence ids; 2^16 in the code (uint16_t)
  OwnSeqIds,       \* sequence ids entities use as their own controllers
  MaxCmds          \* bound on the number of commands issued

ASSUME AcmpAssumption ==
  /\ acmp_cmd_to_timeout \in [MsgTypes -> Nat]
  /\ SeqIdMod \in Nat \ {0}
  /\ OwnSeqIds \subseteq 0 .. SeqIdMod - 1
  /\ MaxCmds \in Nat

VARIABLES
  acmp_seq_id,     \* next sequence id
  inflight_cmds,   \* commands waiting for a response, oldest first
  tick_pos,        \* 0, or the 1-based position of the loop in tick()
  hist

acmpVars == <<acmp_seq_id, inflight_cmds, tick_pos, hist>>

Foreign == 0      \* "answered by" value of an entity's response to itself

Ends == {"RESPONSE_RECEIVED", "timeout"}

Inflight == [cmd : Nat \ {0}, seq_id : 0 .. SeqIdMod - 1,
             notification_id : NotifyIds, timeout_ms : Nat,
             start_timer_cnt : 1 .. 2, elapsed : Nat]

CmdRecord == [notification_id : NotifyIds, seq_id : 0 .. SeqIdMod - 1,
              msg_type : MsgTypes, sends : 1 .. 2, age : Nat,
              outcome : Seq([end : Ends, from : Nat])]

Issued == Len(hist)
-----------------------------------------------------------------------------
(***************************************************************************)
(* inflight.h                                                              *)
(***************************************************************************)
retried(e) == e.start_timer_cnt >= 2
timeout(e) == e.elapsed > e.timeout_ms
start_timer(e) == [e EXCEPT !.start_timer_cnt = @ + 1, !.elapsed = 0]

\* Mutant: the oldest entry, whatever its sequence id.
FirstWithSeqId_oldest(j, s) == j = 1 /\ j \in DOMAIN inflight_cmds

\* The entry std::find_if(..., SeqIdComp(s)) stops at.
FirstWithSeqId(j, s) ==
  /\ j \in DOMAIN inflight_cmds
  /\ inflight_cmds[j].seq_id = s
  /\ \A k \in 1 .. j - 1 : inflight_cmds[k].seq_id # s

\* Mutant: the end is reported and the entry kept.
EraseInflight_kept(j, end, from) ==
  /\ UNCHANGED inflight_cmds
  /\ hist' = [hist EXCEPT ![inflight_cmds[j].cmd].outcome =
                            Append(@, [end |-> end, from |-> from])]

EraseInflight(j, end, from) ==
  /\ inflight_cmds' = RemoveAt(inflight_cmds, j)
  /\ hist' = [hist EXCEPT ![inflight_cmds[j].cmd].outcome =
                            Append(@, [end |-> end, from |-> from])]
-----------------------------------------------------------------------------
(***************************************************************************)
(* tx_cmd.  SeqWindow and FrameAlive are the assumption of AecpController: *)
(* fewer than SeqIdMod commands are issued in the life of a command or of  *)
(* a response.                                                             *)
(***************************************************************************)
SeqWindow ==
  \A j \in DOMAIN inflight_cmds : Issued + 1 - inflight_cmds[j].cmd < SeqIdMod
FrameAlive(c) == Issued - c < SeqIdMod

\* Mutant: every kind gets the shortest timeout of the table.
timeout_ms_shortest(t) ==
  CHOOSE n \in Range(acmp_cmd_to_timeout) :
    \A m \in Range(acmp_cmd_to_timeout) : n <= m
timeout_ms(t) == acmp_cmd_to_timeout[t]

NewInflight(id, t) ==
  [cmd |-> Issued + 1, seq_id |-> acmp_seq_id, notification_id |-> id,
   timeout_ms |-> timeout_ms(t), start_timer_cnt |-> 0, elapsed |-> 0]

PushInflight(id, t) ==
  /\ inflight_cmds' = Append(inflight_cmds, start_timer(NewInflight(id, t)))
  /\ hist' = Append(hist, [notification_id |-> id, seq_id |-> acmp_seq_id,
                           msg_type |-> t, sends |-> 1, age |-> 0,
                           outcome |-> <<>>])

\* state_command
StateCommand(id, t) ==
  /\ tick_pos = 0
  /\ Issued < MaxCmds
  /\ SeqWindow
  /\ acmp_seq_id' = (acmp_seq_id + 1) % SeqIdMod
  /\ PushInflight(id, t)
  /\ UNCHANGED tick_pos
-----------------------------------------------------------------------------
(***************************************************************************)
(* state_resp.  Responses may be lost, late, repeated and reordered.       *)
(***************************************************************************)
proc_resp(s, from) ==
  \/ \E j \in DOMAIN inflight_cmds :
       /\ FirstWithSeqId(j, s)
       /\ EraseInflight(j, "RESPONSE_RECEIVED", from)
  \/ /\ \A j \in DOMAIN inflight_cmds : inflight_cmds[j].seq_id # s
     /\ UNCHANGED <<inflight_cmds, hist>>

\* A response to command c, or to its resend.
StateResp(c) ==
  /\ tick_pos = 0
  /\ FrameAlive(c)
  /\ proc_resp(hist[c].seq_id, c)
  /\ UNCHANGED <<acmp_seq_id, tick_pos>>

\* A response of an entity to a command of its own: the controller entity id
\* is the entity's, which find_in_end_station accepts like ours.
StateRespOwn(s) ==
  /\ tick_pos = 0
  /\ proc_resp(s, Foreign)
  /\ UNCHANGED <<acmp_seq_id, tick_pos>>
-----------------------------------------------------------------------------
(***************************************************************************)
(* tick()                                                                  *)
(***************************************************************************)
TickBegin_from1 ==                                               \* mutant
  /\ tick_pos = 0
  /\ tick_pos' = 2
  /\ UNCHANGED <<acmp_seq_id, inflight_cmds, hist>>

TickBegin ==
  /\ tick_pos = 0
  /\ tick_pos' = 1
  /\ UNCHANGED <<acmp_seq_id, inflight_cmds, hist>>

\* tx_cmd with resend = true: the entry is looked up by its sequence id.
tx_cmd_resend(s, c) ==
  /\ \E j \in DOMAIN inflight_cmds :
       /\ FirstWithSeqId(j, s)
       /\ inflight_cmds' = [inflight_cmds EXCEPT ![j] = start_timer(@)]
  /\ hist' = [hist EXCEPT ![c].sends = @ + 1]

state_timeout(i) ==
  LET e == inflight_cmds[i]
  IN  \/ /\ retried(e)
         /\ EraseInflight(i, "timeout", e.cmd)
      \/ /\ ~retried(e)
         /\ tx_cmd_resend(e.seq_id, e.cmd)

TickStep ==
  /\ tick_pos \in DOMAIN inflight_cmds
  /\ \/ /\ timeout(inflight_cmds[tick_pos])
        /\ state_timeout(tick_pos)
     \/ /\ ~timeout(inflight_cmds[tick_pos])
        /\ UNCHANGED <<inflight_cmds, hist>>
  /\ tick_pos' = tick_pos + 1
  /\ UNCHANGED acmp_seq_id

TickEnd ==
  /\ tick_pos > Len(inflight_cmds)
  /\ tick_pos' = 0
  /\ UNCHANGED <<acmp_seq_id, inflight_cmds, hist>>

\* One unit of time passes; a timer is saturated one unit past its timeout.
Later(e) == [e EXCEPT !.elapsed = IF @ > e.timeout_ms THEN @ ELSE @ + 1]

InFlight(c) == \E j \in DOMAIN inflight_cmds : inflight_cmds[j].cmd = c

\* The least age at which a command can be given up.
TwoTimeouts(c) == 2 * (acmp_cmd_to_timeout[hist[c].msg_type] + 1)

Elapse ==
  /\ \E j \in DOMAIN inflight_cmds : ~timeout(inflight_cmds[j])
  /\ inflight_cmds' = [j \in DOMAIN inflight_cmds |-> Later(inflight_cmds[j])]
  /\ hist' = [c \in DOMAIN hist |->
                IF InFlight(c) /\ hist[c].age < TwoTimeouts(c)
                THEN [hist[c] EXCEPT !.age = @ + 1] ELSE hist[c]]
  /\ UNCHANGED <<acmp_seq_id, tick_pos>>
-----------------------------------------------------------------------------
Init ==
  /\ acmp_seq_id = 0
  /\ inflight_cmds = <<>>
  /\ tick_pos = 0
  /\ hist = <<>>

Next ==
  \/ \E id \in NotifyIds, t \in MsgTypes : StateCommand(id, t)
  \/ \E c \in DOMAIN hist : StateResp(c)
  \/ \E s \in OwnSeqIds : StateRespOwn(s)
  \/ TickBegin
  \/ TickStep
  \/ TickEnd
  \/ Elapse

Spec == Init /\ [][Next]_acmpVars

\* The poll thread keeps ticking and time passes; nothing is assumed of the
\* application or of the network.
Fairness ==
  /\ WF_acmpVars(TickBegin)
  /\ WF_acmpVars(TickStep)
  /\ WF_acmpVars(TickEnd)
  /\ WF_acmpVars(Elapse)

FairSpec == Spec /\ Fairness
-----------------------------------------------------------------------------
TypeOK ==
  /\ acmp_seq_id \in 0 .. SeqIdMod - 1
  /\ inflight_cmds \in Seq(Inflight)
  /\ tick_pos \in Nat
  /\ hist \in Seq(CmdRecord)

\* Every command is in flight or has ended exactly once (proc_resp,
\* state_timeout): the application is told once, whatever arrives when.
EndsOnce ==
  \A c \in DOMAIN hist :
    Len(hist[c].outcome) = IF InFlight(c) THEN 0 ELSE 1

\* A command is given up only after the timeout of its own kind has passed
\* twice, however many commands with shorter timeouts are given up around it.
NotGivenUpEarly ==
  /\ TypeOK
  /\ \A c \in DOMAIN hist : \A k \in DOMAIN hist[c].outcome :
       hist[c].outcome[k].end = "timeout" =>
         hist[c].age >= TwoTimeouts(c) /\ hist[c].sends = 2

\* No command is ended by the response to another command of this controller.
NeverAnothersResponse ==
  \A c \in DOMAIN hist : \A k \in DOMAIN hist[c].outcome :
    hist[c].outcome[k].from \in {c, Foreign}

\* Every command ends, although tick() skips the successor of an entry it
\* erases and every frame may be lost.
EveryCommandEnds == <>[](inflight_cmds = <<>>)
=============================================================================
