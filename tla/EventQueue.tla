----------------------------- MODULE EventQueue -----------------------------
(***************************************************************************)
(* The queue between the library and the application's callbacks:          *)
(* notification.cpp with linux/notification_imp.cpp.  log.cpp with         *)
(* linux/log_imp.cpp is the same queue, with the application thread and    *)
(* the poll thread both posting; notifications are posted by the poll      *)
(* thread only.                                                            *)
(*                                                                         *)
(* post_notification_msg tests for space, claims an index, fills the slot  *)
(* field by field and posts a semaphore, without a lock.  The dispatch     *)
(* thread waits for the semaphore, reads the slot field by field and calls *)
(* the application.  A slot is two fields here, head and tail, so that a   *)
(* half-written one can be seen.                                           *)
(*                                                                         *)
(* accepted, delivered, overflow and overlap are history: the messages in  *)
(* the order their index was claimed, what the callback was called with,   *)
(* whether an index was ever claimed while all the slots held unread       *)
(* messages, and whether two threads were ever inside a call at once.      *)
(***************************************************************************)
EXTENDS Integers, Sequences, FiniteSets

CONSTANTS
  Producers,   \* threads that post
  BUF_COUNT,   \* NOTIFICATION_BUF_COUNT, LOG_BUF_COUNT: 32
  IndexMod,    \* 2^32: the indices are uint32_t
  MaxPosts     \* bound on the number of calls of post_notification_msg

ASSUME QueueAssumption ==
  /\ IsFiniteSet(Producers)
  /\ BUF_COUNT \in Nat \ {0}
  /\ IndexMod \in Nat \ {0}
  /\ IndexMod > BUF_COUNT + Cardinality(Producers)
  /\ IndexMod % BUF_COUNT = 0
  /\ MaxPosts \in Nat

VARIABLES
  write_index,
  read_index,
  buf,            \* notification_buf
  waiting,        \* notify_waiting: value of the semaphore
  missed,         \* missed_notification_event_cnt
  prod,           \* each producer: where it is, its message, its index
  disp,           \* dispatch thread: where it is, the arguments it has read
  posts,          \* number of calls so far; the n-th call posts message n
  closed,         \* the destructor has posted without data
  accepted,
  delivered,
  overflow,
  overlap

queueVars == <<write_index, read_index, buf, waiting, missed, prod, disp,
               posts, closed, accepted, delivered, overflow, overlap>>

Indices  == 0 .. IndexMod - 1
Messages == 0 .. MaxPosts             \* 0: a slot never written
Slot     == [head : Messages, tail : Messages]
ProdPcs  == {"idle", "checked", "claimed", "half", "filled"}
DispPcs  == {"wait", "awake", "read", "half", "call", "done"}

\* write_index - read_index in uint32_t.
Outstanding == (write_index - read_index) % IndexMod

ProdGoto(p, pc) == prod' = [prod EXCEPT ![p].pc = pc]
DispGoto(pc)    == disp' = [disp EXCEPT !.pc = pc]
-----------------------------------------------------------------------------
(***************************************************************************)
(* post_notification_msg                                                   *)
(***************************************************************************)
PostCheck(p) ==
  /\ prod[p].pc = "idle"
  /\ posts < MaxPosts
  /\ ~closed
  /\ posts' = posts + 1
  /\ overlap' = (overlap \/ \E q \in Producers \ {p} : prod[q].pc # "idle")
  /\ \/ /\ Outstanding > BUF_COUNT
        /\ missed' = missed + 1
        /\ UNCHANGED prod
     \/ /\ ~(Outstanding > BUF_COUNT)
        /\ prod' = [prod EXCEPT ![p] = [pc |-> "checked", msg |-> posts + 1, index |-> 0]]
        /\ UNCHANGED missed
  /\ UNCHANGED <<write_index, read_index, buf, waiting, disp, closed, accepted, delivered, overflow>>

\* InterlockedExchangeAdd(&write_index, 1)
PostClaim(p) ==
  /\ prod[p].pc = "checked"
  /\ prod' = [prod EXCEPT ![p].pc = "claimed", ![p].index = write_index]
  /\ write_index' = (write_index + 1) % IndexMod
  /\ accepted' = Append(accepted, prod[p].msg)
  /\ overflow' = (overflow \/ Len(accepted) - Len(delivered) >= BUF_COUNT)
  /\ UNCHANGED <<read_index, buf, waiting, missed, disp, posts, closed, delivered,
                 overlap>>

PostFill(p) ==
  /\ \/ /\ prod[p].pc = "claimed"
        /\ buf' = [buf EXCEPT ![prod[p].index % BUF_COUNT].head = prod[p].msg]
        /\ ProdGoto(p, "half")
     \/ /\ prod[p].pc = "half"
        /\ buf' = [buf EXCEPT ![prod[p].index % BUF_COUNT].tail = prod[p].msg]
        /\ ProdGoto(p, "filled")
  /\ UNCHANGED <<write_index, read_index, waiting, missed, disp, posts, closed,
                 accepted, delivered, overflow, overlap>>

\* Mutant: post before the last field is filled.
PostEvent_early(p) ==
  /\ \/ /\ prod[p].pc = "half"
        /\ waiting' = waiting + 1
        /\ ProdGoto(p, "filled")
        /\ UNCHANGED buf
     \/ /\ prod[p].pc = "filled"
        /\ buf' = [buf EXCEPT ![prod[p].index % BUF_COUNT].tail = prod[p].msg]
        /\ ProdGoto(p, "idle")
        /\ UNCHANGED waiting
  /\ UNCHANGED <<write_index, read_index, missed, disp, posts, closed,
                 accepted, delivered, overflow, overlap>>

\* post_notification_event
PostEvent(p) ==
  /\ prod[p].pc = "filled"
  /\ waiting' = waiting + 1
  /\ ProdGoto(p, "idle")
  /\ UNCHANGED <<write_index, read_index, buf, missed, disp, posts, closed,
                 accepted, delivered, overflow, overlap>>

\* ~notification_imp: post without data, once nobody posts any more.
Close ==
  /\ ~closed
  /\ \A p \in Producers : prod[p].pc = "idle"
  /\ closed' = TRUE
  /\ waiting' = waiting + 1
  /\ UNCHANGED <<write_index, read_index, buf, missed, prod, disp, posts,
                 accepted, delivered, overflow, overlap>>
-----------------------------------------------------------------------------
(***************************************************************************)
(* dispatch_callbacks                                                      *)
(***************************************************************************)
\* Mutant: the semaphore is binary.
DispWait_all ==
  /\ disp.pc = "wait"
  /\ waiting > 0
  /\ waiting' = 0
  /\ DispGoto("awake")
  /\ UNCHANGED <<write_index, read_index, buf, missed, prod, posts, closed,
                 accepted, delivered, overflow, overlap>>

DispWait ==
  /\ disp.pc = "wait"
  /\ waiting > 0
  /\ waiting' = waiting - 1
  /\ DispGoto("awake")
  /\ UNCHANGED <<write_index, read_index, buf, missed, prod, posts, closed,
                 accepted, delivered, overflow, overlap>>

\* Mutant: the space test's comparison, copied to the dispatch thread.
DispCheck_morethanone ==
  /\ disp.pc = "awake"
  /\ DispGoto(IF Outstanding > 1 THEN "read" ELSE "done")
  /\ UNCHANGED <<write_index, read_index, buf, waiting, missed, prod, posts,
                 closed, accepted, delivered, overflow, overlap>>

DispCheck ==
  /\ disp.pc = "awake"
  /\ DispGoto(IF Outstanding > 0 THEN "read" ELSE "done")
  /\ UNCHANGED <<write_index, read_index, buf, waiting, missed, prod, posts,
                 closed, accepted, delivered, overflow, overlap>>

\* The arguments of the callback are evaluated one after the other.
DispRead ==
  /\ \/ /\ disp.pc = "read"
        /\ disp' = [disp EXCEPT !.pc = "half", !.head = buf[read_index % BUF_COUNT].head]
     \/ /\ disp.pc = "half"
        /\ disp' = [disp EXCEPT !.pc = "call", !.tail = buf[read_index % BUF_COUNT].tail]
  /\ UNCHANGED <<write_index, read_index, buf, waiting, missed, prod, posts,
                 closed, accepted, delivered, overflow, overlap>>

\* notification_callback(...); read_index++
DispCall ==
  /\ disp.pc = "call"
  /\ delivered' = Append(delivered, [head |-> disp.head, tail |-> disp.tail])
  /\ read_index' = (read_index + 1) % IndexMod
  /\ DispGoto("wait")
  /\ UNCHANGED <<write_index, buf, waiting, missed, prod, posts, closed, accepted, overflow, overlap>>
-----------------------------------------------------------------------------
Init ==
  /\ write_index = 0
  /\ read_index = 0
  /\ buf = [i \in 0 .. BUF_COUNT - 1 |-> [head |-> 0, tail |-> 0]]
  /\ waiting = 0
  /\ missed = 0
  /\ prod = [p \in Producers |-> [pc |-> "idle", msg |-> 0, index |-> 0]]
  /\ disp = [pc |-> "wait", head |-> 0, tail |-> 0]
  /\ posts = 0
  /\ closed = FALSE
  /\ accepted = <<>>
  /\ delivered = <<>>
  /\ overflow = FALSE
  /\ overlap = FALSE

Post(p) == PostCheck(p) \/ PostClaim(p) \/ PostFill(p) \/ PostEvent(p)
Dispatch == DispWait \/ DispCheck \/ DispRead \/ DispCall

Next ==
  \/ \E p \in Producers : Post(p)
  \/ Close
  \/ Dispatch

Spec == Init /\ [][Next]_queueVars

\* The dispatch thread is scheduled, and so is a thread inside a call; nobody
\* has to call.
Fairness ==
  /\ WF_queueVars(Dispatch)
  /\ \A p \in Producers : WF_queueVars(PostClaim(p) \/ PostFill(p) \/ PostEvent(p))

FairSpec == Spec /\ Fairness
-----------------------------------------------------------------------------
TypeOK ==
  /\ write_index \in Indices
  /\ read_index \in Indices
  /\ buf \in [0 .. BUF_COUNT - 1 -> Slot]
  /\ waiting \in Nat
  /\ missed \in Nat
  /\ prod \in [Producers -> [pc : ProdPcs, msg : Messages, index : Indices]]
  /\ disp \in [pc : DispPcs, head : Messages, tail : Messages]
  /\ posts \in 0 .. MaxPosts
  /\ closed \in BOOLEAN
  /\ accepted \in Seq(Messages)
  /\ delivered \in Seq(Slot)
  /\ overflow \in BOOLEAN
  /\ overlap \in BOOLEAN

\* The dispatch thread ends only after the destructor's post: a wake-up always
\* finds data, however posts and callbacks interleave and wherever the indices
\* wrap.
StopsOnlyWhenClosed == disp.pc = "done" => closed

\* When it ends it has called the application for every message accepted.
DrainedAtStop == disp.pc = "done" => Len(delivered) = Len(accepted)

\* A call that was not counted as missed owns an index, and more than
\* BUF_COUNT indices are outstanding only by the calls whose space test
\* overlapped: the uint32_t difference cannot wrap around.
OverflowBounded ==
  Len(accepted) - Len(delivered) <= BUF_COUNT + Cardinality(Producers)

\* What the callback was called with is what was posted, in the order the
\* indices were claimed.
DeliveredIntact ==
  \A k \in DOMAIN delivered :
    delivered[k] = [head |-> accepted[k], tail |-> accepted[k]]

\* As long as no index was claimed with every slot unread and no two threads
\* posted at once, messages are delivered intact and in order.
IntactWithinCapacity == ~overflow /\ ~overlap => DeliveredIntact

\* Every message accepted reaches the callback: once posting has stopped (after
\* MaxPosts calls at the latest) the backlog is worked off, and stays so.
EveryPostDelivered == <>[](Len(delivered) = Len(accepted))
=============================================================================
