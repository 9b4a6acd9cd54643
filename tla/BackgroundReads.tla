-------------------------- MODULE BackgroundReads --------------------------
(***************************************************************************)
(* The commands the poll thread itself queues for transmission: the reads  *)
(* of one end station's enumeration (end_station_imp.cpp).  Which          *)
(* descriptors they are is the subject of EndStation; here only their      *)
(* number counts, for the bounded queues of the system layers.             *)
(*                                                                         *)
(* The handler of a response and the timer tick decide how many reads to   *)
(* queue; to_queue holds those not queued yet.  The first read, of ENTITY, *)
(* is sent when an entity is discovered or has to be enumerated anew, and  *)
(* is in no list; the others are in the list in flight from then on.       *)
(***************************************************************************)
EXTENDS Integers, Sequences, SequencesExt, FiniteSetsExt

CONSTANTS
  MaxBurst,       \* most descriptors of one type, which are read together
  MaxReads,       \* bound on the reads of an enumeration
  MaxEntityReads  \* bound on the number of enumerations begun

ASSUME ReadsAssumption ==
  MaxBurst \in Nat \ {0} /\ MaxReads \in Nat /\ MaxEntityReads \in Nat

VARIABLES
  to_queue,      \* reads the handler running has yet to queue
  read_inflight, \* number of entries of m_backbround_read_inflight
  reads_left,    \* reads that may still become pending
  entity_reads   \* number of reads of ENTITY so far

readVars == <<to_queue, read_inflight, reads_left, entity_reads>>

ReadFrames == {"ENTITY", "read"}

\* Entries of a queue that are frames of one kind.
CountOf(queue, frame) == Cardinality({k \in DOMAIN queue : queue[k] = frame})

ReadsInit ==
  /\ to_queue = <<>>
  /\ read_inflight = 0
  /\ reads_left = MaxReads
  /\ entity_reads = 0

\* Some of the entries in flight are answered or timed out.  Those whose frame
\* is still among the queued frames are not: it takes 750 ms for a read to
\* time out.  Only a response to a read of the same descriptor in an earlier
\* enumeration can remove such an entry.
Removable(queued) ==
  IF entity_reads <= 1 THEN read_inflight - queued ELSE read_inflight

\* Mutant: the next group does not wait for the one in flight.
background_read_submit_pending_any(inflight) ==
  \E n \in 0 .. Min({MaxBurst, reads_left}) : to_queue' = [k \in 1 .. n |-> "read"]

\* With nothing in flight all the pending reads of one type are queued.
background_read_submit_pending(inflight) ==
  \E n \in 0 .. Min({MaxBurst, reads_left}) :
    /\ n > 0 => inflight = 0 /\ entity_reads > 0
    /\ to_queue' = [k \in 1 .. n |-> "read"]

\* proc_read_desc_resp: every entry of the descriptor answered goes; each
\* enumeration lists a descriptor once.
ReadAnswered(queued) ==
  \E n \in 0 .. Min({entity_reads, Removable(queued)}) :
    /\ read_inflight' = read_inflight - n
    /\ background_read_submit_pending(read_inflight - n)
    /\ UNCHANGED <<reads_left, entity_reads>>

\* time_tick_event.
ReadsTimedOut(queued) ==
  \E n \in 0 .. Removable(queued) :
    /\ read_inflight' = read_inflight - n
    /\ background_read_submit_pending(read_inflight - n)
    /\ UNCHANGED <<reads_left, entity_reads>>

\* end_station_init of a new end station, end_station_reenumerate later: the
\* entries of the enumeration before stay in the lists.
Enumerate ==
  /\ entity_reads < MaxEntityReads
  /\ entity_reads' = entity_reads + 1
  /\ to_queue' = <<"ENTITY">>
  /\ UNCHANGED <<read_inflight, reads_left>>

\* read_desc_init has queued the next read, or failed to: it is in the list in
\* flight either way.
ReadQueued ==
  LET listed == IF Head(to_queue) = "read" THEN 1 ELSE 0
  IN  /\ to_queue' = Tail(to_queue)
      /\ read_inflight' = read_inflight + listed
      /\ reads_left' = reads_left - listed
      /\ UNCHANGED entity_reads

ReadsTypeOK ==
  /\ to_queue \in Seq(ReadFrames)
  /\ read_inflight \in 0 .. MaxReads
  /\ reads_left \in 0 .. MaxReads
  /\ entity_reads \in 0 .. MaxEntityReads
=============================================================================
