----------------------------- MODULE SystemMsvc -----------------------------
(***************************************************************************)
(* The Windows system layer (msvc/system_layer2_multithreaded_callback.cpp *)
(* over msvc/system_message_queue.cpp): a capture thread fills rx_queue,   *)
(* the application thread and the poll thread itself fill tx_queue, and    *)
(* the poll thread waits for the first of four objects.  process_close     *)
(* ends the two threads.  The wait of a command is that of SystemLayer2.   *)
(*                                                                         *)
(* poll_thread.kill_sem is left out: it is an event, and process_close     *)
(* releases it as a semaphore, which fails, so that it is never signalled. *)
(*                                                                         *)
(* log is history: what was put into a queue and not taken out, in order.  *)
(***************************************************************************)
EXTENDS BackgroundReads

CONSTANTS
  RxCount, TxCount, \* entry_count of the two queues: 256
  MaxFrames,        \* bound on the frames captured
  MaxPushes         \* bound on the commands of the application

ASSUME MsvcAssumption ==
  /\ {RxCount, TxCount} \subseteq Nat \ {0}
  /\ {MaxFrames, MaxPushes} \subseteq Nat

VARIABLES
  rx_queue, tx_queue,
  rx_timeout,   \* poll_rx.timeout_event is set
  kill_all,     \* the KILL_ALL event is set
  rx_kill_sem,  \* poll_rx.queue_thread.kill_sem
  captured,     \* frames captured; the n-th is frame n
  rx_thread, poll_thread, app_thread, \* where each is, or "done"
  dwEvent,      \* what the poll thread was woken for
  pushes,       \* commands queued by the application
  unwaited_tx   \* one of them without a wait

msvcVars == <<rx_queue, tx_queue, rx_timeout, kill_all, rx_kill_sem, captured,
              rx_thread, poll_thread, app_thread, dwEvent, pushes, unwaited_tx>>
allMsvcVars == <<msvcVars, readVars>>

PushPcs == {"space", "store", "signal"}
TxKinds == ReadFrames \cup {"command"}
Frames  == 1 .. MaxFrames
-----------------------------------------------------------------------------
(***************************************************************************)
(* system_message_queue: a ring of entries and two semaphores, the free    *)
(* entries and the filled ones.                                            *)
(***************************************************************************)
NewQueue(count, unwritten) ==
  [buf |-> [k \in 0 .. count - 1 |-> unwritten], in_pos |-> 0, out_pos |-> 0,
   space_avail |-> count, data_avail |-> 0, log |-> <<>>]

EntryCount(q) == Cardinality(DOMAIN q.buf)

\* queue_push, from one wait or critical section to the next: where the thread
\* is and goes.
push_nowait(q, qNext, pc, pcNext, x) ==                          \* mutant
  \/ /\ pc = "space"
     /\ qNext = [q EXCEPT !.space_avail = Max({0, @ - 1})]
     /\ pcNext = "store"
  \/ /\ pc = "store"
     /\ qNext = [q EXCEPT !.buf[q.in_pos] = x, !.log = Append(@, x),
                          !.in_pos = (@ + 1) % EntryCount(q)]
     /\ pcNext = "signal"

push(q, qNext, pc, pcNext, x) ==
  \/ /\ pc = "space"
     /\ q.space_avail > 0
     /\ qNext = [q EXCEPT !.space_avail = @ - 1]
     /\ pcNext = "store"
  \/ /\ pc = "store"
     /\ qNext = [q EXCEPT !.buf[q.in_pos] = x, !.log = Append(@, x),
                          !.in_pos = (@ + 1) % EntryCount(q)]
     /\ pcNext = "signal"

signal(q) == [q EXCEPT !.data_avail = @ + 1]

\* queue_pop_nowait; WaitForMultipleObjects has taken the data semaphore.
queue_pop_nowait(q) ==
  [q EXCEPT !.out_pos = (@ + 1) % EntryCount(q), !.space_avail = @ + 1,
            !.log = Tail(@)]

\* The entries of the ring that are filled hold what was put in, in order.
Ring(q) == [k \in DOMAIN q.log |-> q.buf[(q.out_pos + k - 1) % EntryCount(q)]]
-----------------------------------------------------------------------------
(***************************************************************************)
(* proc_wpcap_thread                                                       *)
(***************************************************************************)
\* The kill semaphore ends the thread; otherwise a frame is captured, or none
\* came in.
RxLoop ==
  /\ rx_thread = "loop"
  /\ \/ /\ rx_kill_sem > 0
        /\ rx_kill_sem' = rx_kill_sem - 1
        /\ rx_thread' = "done"
        /\ UNCHANGED <<captured, rx_timeout>>
     \/ /\ rx_kill_sem = 0
        /\ captured < MaxFrames
        /\ captured' = captured + 1
        /\ rx_thread' = "space"
        /\ UNCHANGED <<rx_kill_sem, rx_timeout>>
     \/ /\ rx_kill_sem = 0
        /\ rx_timeout' = TRUE
        /\ UNCHANGED <<rx_kill_sem, captured, rx_thread>>
  /\ UNCHANGED <<rx_queue, tx_queue, kill_all, poll_thread, app_thread, dwEvent,
                 pushes, unwaited_tx, readVars>>

RxPush ==
  /\ \/ push(rx_queue, rx_queue', rx_thread, rx_thread', captured)
     \/ rx_thread = "signal" /\ rx_queue' = signal(rx_queue) /\ rx_thread' = "loop"
  /\ UNCHANGED <<tx_queue, rx_timeout, kill_all, rx_kill_sem, captured,
                 poll_thread,
                 app_thread, dwEvent, pushes, unwaited_tx, readVars>>

WpcapThread == RxLoop \/ RxPush
-----------------------------------------------------------------------------
(***************************************************************************)
(* poll_single, in the poll thread                                         *)
(***************************************************************************)
Signalled ==
  [WPCAP_TIMEOUT   |-> rx_timeout,
   WPCAP_RX_PACKET |-> rx_queue.data_avail > 0,
   WPCAP_TX_PACKET |-> tx_queue.data_avail > 0,
   KILL_ALL        |-> kill_all]

wpcap_events_killfirst ==                                        \* mutant
  <<"KILL_ALL", "WPCAP_TIMEOUT", "WPCAP_RX_PACKET", "WPCAP_TX_PACKET">>

wpcap_events ==
  <<"WPCAP_TIMEOUT", "WPCAP_RX_PACKET", "WPCAP_TX_PACKET", "KILL_ALL">>

\* WaitForMultipleObjects: of the objects signalled the first in the array is
\* taken, and reset.
WaitForMultipleObjects ==
  LET ready == {k \in DOMAIN wpcap_events : Signalled[wpcap_events[k]]}
      event == wpcap_events[Min(ready)]
  IN  /\ poll_thread = "wait"
      /\ ready # {}
      /\ dwEvent' = event
      /\ poll_thread' = "event"
      /\ rx_timeout' = (rx_timeout /\ event # "WPCAP_TIMEOUT")
      /\ kill_all' = (kill_all /\ event # "KILL_ALL")
      /\ rx_queue' = IF event = "WPCAP_RX_PACKET"
                     THEN [rx_queue EXCEPT !.data_avail = @ - 1] ELSE rx_queue
      /\ tx_queue' = IF event = "WPCAP_TX_PACKET"
                     THEN [tx_queue EXCEPT !.data_avail = @ - 1] ELSE tx_queue
      /\ UNCHANGED <<rx_kill_sem, captured, rx_thread, app_thread, pushes,
                     unwaited_tx, readVars>>

\* Reads of the list in flight that are still queued, or being queued.
QueuedTx == CountOf(tx_queue.log, "read")

\* Where the poll thread goes when it has queued the reads it decided on: from
\* the switch to the tick, from the tick to the next wait or out of the loop.
Then(after) ==
  CASE after = "next" -> "wait" [] after = "exit" -> "done" [] OTHER -> "tick"

Queues(after) == poll_thread' = IF to_queue' # <<>> THEN "space" ELSE Then(after)

\* The switch.  A frame received may answer a read or begin an enumeration.
HandleEvent ==
  /\ poll_thread = "event"
  /\ \/ /\ dwEvent = "WPCAP_RX_PACKET"
        /\ rx_queue' = queue_pop_nowait(rx_queue)
        /\ ReadAnswered(QueuedTx) \/ Enumerate \/ UNCHANGED readVars
        /\ UNCHANGED tx_queue
     \/ /\ dwEvent = "WPCAP_TX_PACKET"
        /\ tx_queue' = queue_pop_nowait(tx_queue)
        /\ UNCHANGED <<rx_queue, readVars>>
     \/ /\ dwEvent \in {"WPCAP_TIMEOUT", "KILL_ALL"}
        /\ UNCHANGED <<rx_queue, tx_queue, readVars>>
  /\ Queues(dwEvent)
  /\ UNCHANGED <<rx_timeout, kill_all, rx_kill_sem, captured, rx_thread,
                 app_thread,
                 dwEvent, pushes, unwaited_tx>>

\* if (tick_timer.timeout()) ..., and the loop of proc_poll_thread_callback.
TickTimer ==
  /\ poll_thread = "tick"
  /\ ReadsTimedOut(QueuedTx) \/ UNCHANGED readVars
  /\ dwEvent' = IF dwEvent = "KILL_ALL" THEN "exit" ELSE "next"
  /\ Queues(dwEvent')
  /\ UNCHANGED <<rx_queue, tx_queue, rx_timeout, kill_all, rx_kill_sem, captured,
                 rx_thread, app_thread, pushes, unwaited_tx>>

\* system_queue_tx in the poll thread.
PollPush ==
  /\ \/ /\ push(tx_queue, tx_queue', poll_thread, poll_thread', Head(to_queue))
        /\ UNCHANGED readVars
     \/ /\ poll_thread = "signal"
        /\ tx_queue' = signal(tx_queue)
        /\ ReadQueued
        /\ Queues(dwEvent)
  /\ UNCHANGED <<rx_queue, rx_timeout, kill_all, rx_kill_sem, captured, rx_thread,
                 app_thread, dwEvent, pushes, unwaited_tx>>

PollThread == WaitForMultipleObjects \/ HandleEvent \/ TickTimer \/ PollPush
-----------------------------------------------------------------------------
(***************************************************************************)
(* The application thread                                                  *)
(***************************************************************************)
\* A command, which it waits for or not.
AppCommand ==
  /\ app_thread = "run"
  /\ pushes < MaxPushes
  /\ pushes' = pushes + 1
  /\ app_thread' = "space"
  /\ UNCHANGED <<rx_queue, tx_queue, rx_timeout, kill_all, rx_kill_sem, captured,
                 rx_thread, poll_thread, dwEvent, unwaited_tx, readVars>>

AppPush ==
  /\ \/ /\ push(tx_queue, tx_queue', app_thread, app_thread', "command")
        /\ UNCHANGED unwaited_tx
     \/ /\ app_thread = "signal"
        /\ tx_queue' = signal(tx_queue)
        /\ app_thread' \in {"run", "waiting"}
        /\ unwaited_tx' = (unwaited_tx \/ app_thread' = "run")
  /\ UNCHANGED <<rx_queue, rx_timeout, kill_all, rx_kill_sem, captured, rx_thread,
                 poll_thread, dwEvent, pushes, readVars>>

\* waiting_sem: a response or the timeout of the command sent, or of one sent
\* before under the same id, which was not waited for.
AppWoken ==
  /\ app_thread = "waiting"
  /\ unwaited_tx \/ CountOf(tx_queue.log, "command") = 0
  /\ app_thread' = "run"
  /\ UNCHANGED <<rx_queue, tx_queue, rx_timeout, kill_all, rx_kill_sem, captured,
                 rx_thread, poll_thread, dwEvent, pushes, unwaited_tx, readVars>>

\* Mutant: the capture thread is told last.
process_close_swapped ==
  /\ \/ /\ app_thread = "run"
        /\ kill_all' = TRUE
        /\ app_thread' = "close"
        /\ UNCHANGED rx_kill_sem
     \/ /\ app_thread = "close"
        /\ rx_kill_sem' = rx_kill_sem + 1
        /\ app_thread' = "join rx"
        /\ UNCHANGED kill_all
     \/ /\ app_thread = "join rx" /\ rx_thread = "done" /\ app_thread' = "join poll"
        /\ UNCHANGED <<rx_kill_sem, kill_all>>
     \/ /\ app_thread = "join poll" /\ poll_thread = "done" /\ app_thread' = "done"
        /\ UNCHANGED <<rx_kill_sem, kill_all>>
  /\ UNCHANGED <<rx_queue, tx_queue, rx_timeout, captured, rx_thread, poll_thread,
                 dwEvent, pushes, unwaited_tx, readVars>>

\* Both threads are told to end, then waited for.
process_close ==
  /\ \/ /\ app_thread = "run"
        /\ rx_kill_sem' = rx_kill_sem + 1
        /\ app_thread' = "close"
        /\ UNCHANGED kill_all
     \/ /\ app_thread = "close"
        /\ kill_all' = TRUE
        /\ app_thread' = "join rx"
        /\ UNCHANGED rx_kill_sem
     \/ /\ app_thread = "join rx" /\ rx_thread = "done" /\ app_thread' = "join poll"
        /\ UNCHANGED <<rx_kill_sem, kill_all>>
     \/ /\ app_thread = "join poll" /\ poll_thread = "done" /\ app_thread' = "done"
        /\ UNCHANGED <<rx_kill_sem, kill_all>>
  /\ UNCHANGED <<rx_queue, tx_queue, rx_timeout, captured, rx_thread, poll_thread,
                 dwEvent, pushes, unwaited_tx, readVars>>

AppThread == AppCommand \/ AppPush \/ AppWoken \/ process_close
-----------------------------------------------------------------------------
MsvcInit ==
  /\ ReadsInit
  /\ rx_queue = NewQueue(RxCount, 0)
  /\ tx_queue = NewQueue(TxCount, "none")
  /\ rx_timeout = FALSE
  /\ kill_all = FALSE
  /\ rx_kill_sem = 0
  /\ captured = 0
  /\ rx_thread = "loop"
  /\ poll_thread = "wait"
  /\ app_thread = "run"
  /\ dwEvent = "next"
  /\ pushes = 0
  /\ unwaited_tx = FALSE

MsvcNext == WpcapThread \/ PollThread \/ AppThread

\* Both threads are scheduled, and process_close is carried through.
MsvcFairness ==
  /\ WF_allMsvcVars(WpcapThread)
  /\ WF_allMsvcVars(PollThread)
  /\ WF_allMsvcVars(app_thread # "run" /\ process_close)

MsvcSpec == MsvcInit /\ [][MsvcNext]_allMsvcVars /\ MsvcFairness
-----------------------------------------------------------------------------
QueueOf(count, entries, unwritten) ==
  [buf : [0 .. count - 1 -> entries \cup {unwritten}],
   in_pos : 0 .. count - 1, out_pos : 0 .. count - 1,
   space_avail : 0 .. count, data_avail : 0 .. count, log : Seq(entries)]

MsvcTypeOK ==
  /\ ReadsTypeOK
  /\ rx_queue \in QueueOf(RxCount, Frames, 0)
  /\ tx_queue \in QueueOf(TxCount, TxKinds, "none")
  /\ rx_timeout \in BOOLEAN
  /\ kill_all \in BOOLEAN
  /\ rx_kill_sem \in 0 .. 1
  /\ captured \in 0 .. MaxFrames
  /\ rx_thread \in PushPcs \cup {"loop", "done"}
  /\ poll_thread \in PushPcs \cup {"wait", "event", "tick", "done"}
  /\ app_thread \in PushPcs \cup {"run", "waiting", "close", "join rx",
                                  "join poll", "done"}
  /\ dwEvent \in DOMAIN Signalled \cup {"next", "exit"}
  /\ pushes \in 0 .. MaxPushes
  /\ unwaited_tx \in BOOLEAN

\* What the poll thread takes from a queue is what was put in first and not
\* taken out yet, whole: the semaphores keep the two threads that fill
\* tx_queue, and the capture thread, out of the entries still to be read.
QueuesIntact ==
  /\ MsvcTypeOK
  /\ Ring(rx_queue) = rx_queue.log
  /\ Ring(tx_queue) = tx_queue.log

TxStuck == poll_thread = "space" /\ tx_queue.space_avail = 0

\* Entries of tx_queue with a command of the application, or reserved for one.
CommandEntries ==
  CountOf(tx_queue.log, "command") + (IF app_thread = "store" THEN 1 ELSE 0)

\* The poll thread, which alone empties tx_queue, waits for space in it only if the
\* application has queued commands without waiting and these have filled all of it
\* but a group of reads: a group, the read of ENTITY and one command fit in
\* together.  A second enumeration may overtake the reads of the first.
TxNeverBlocks ==
  TxStuck /\ entity_reads <= 1 /\ TxCount >= MaxBurst + 2 =>
    unwaited_tx /\ CommandEntries >= TxCount - MaxBurst

\* KILL_ALL is last of the four objects: the poll thread ends only when it has
\* sent every command queued before process_close, waited for or not.
CommandsSentBeforeEnd ==
  poll_thread = "done" => \A k \in DOMAIN tx_queue.log : tx_queue.log[k] # "command"

\* process_close returns: the capture thread is not left waiting for space in
\* a queue nobody empties any more, nor is the poll thread left without a
\* signal; unless it was stuck with tx_queue full.
CloseReturns == (app_thread = "close") ~> (app_thread = "done" \/ TxStuck)
=============================================================================
