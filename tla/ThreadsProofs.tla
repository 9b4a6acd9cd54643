--------------------------- MODULE ThreadsProofs ---------------------------
(***************************************************************************)
(* What holds of the threads of the two system layers for every size of    *)
(* the pipe and of the queues, every number of reads, commands and frames. *)
(*                                                                         *)
(* Neither layer limits what the poll thread queues for itself: that the   *)
(* pipe it alone reads, or the queue it alone empties, never fills up is a *)
(* count.  The frames queued are of three kinds; reads are still in the    *)
(* list in flight, of which there are no more than one group, reads of     *)
(* ENTITY are as many as enumerations, and commands wait for the           *)
(* application's turn.                                                     *)
(***************************************************************************)
EXTENDS MCThreads, AvdeccLemmas, FiniteSetTheorems


-----------------------------------------------------------------------------
(***************************************************************************)
(* Counting the frames of one kind in a queue                              *)
(***************************************************************************)
LEMMA CountType ==
  ASSUME NEW S, NEW q \in Seq(S), NEW f
  PROVE  /\ IsFiniteSet({k \in DOMAIN q : q[k] = f})
         /\ CountOf(q, f) \in Nat
<1>1. Len(q) \in Nat /\ DOMAIN q = 1 .. Len(q)
  OBVIOUS
<1>2. IsFiniteSet(1 .. Len(q))
  BY <1>1, FS_Interval
<1>3. {k \in DOMAIN q : q[k] = f} \in SUBSET (1 .. Len(q))
  BY <1>1
<1>4. IsFiniteSet({k \in DOMAIN q : q[k] = f})
  BY <1>2, <1>3, FS_Subset
<1> QED
  BY <1>4, FS_CardinalityType DEF CountOf

LEMMA CountNone ==
  ASSUME NEW q, NEW f, \A k \in DOMAIN q : q[k] # f
  PROVE  CountOf(q, f) = 0
<1>1. {k \in DOMAIN q : q[k] = f} = {}
  OBVIOUS
<1> QED
  BY <1>1, FS_EmptySet DEF CountOf

LEMMA CountAppend ==
  ASSUME NEW S, NEW q \in Seq(S), NEW x \in S, NEW f
  PROVE  CountOf(Append(q, x), f) = CountOf(q, f) + (IF x = f THEN 1 ELSE 0)
<1> DEFINE n == Len(q)
           A == {k \in DOMAIN q : q[k] = f}
           B == {k \in DOMAIN Append(q, x) : Append(q, x)[k] = f}
<1>1. n \in Nat /\ DOMAIN q = 1 .. n /\ DOMAIN Append(q, x) = 1 .. n + 1
  OBVIOUS
<1>2. /\ \A k \in 1 .. n : Append(q, x)[k] = q[k]
      /\ Append(q, x)[n + 1] = x
  OBVIOUS
<1>3. \A k \in 1 .. n + 1 : k \in 1 .. n \/ k = n + 1
  BY <1>1
<1>4. 1 .. n \subseteq 1 .. n + 1 /\ n + 1 \in 1 .. n + 1 /\ n + 1 \notin 1 .. n
  BY <1>1
<1>5. IsFiniteSet(A) /\ Cardinality(A) \in Nat /\ n + 1 \notin A
  BY <1>1, <1>4, CountType DEF CountOf
<1>6. B = IF x = f THEN A \cup {n + 1} ELSE A
  <2> HIDE DEF n
  <2> QED
    BY <1>1, <1>2, <1>3, <1>4
<1>7. Cardinality(A \cup {n + 1}) = Cardinality(A) + 1
  BY <1>5, FS_AddElement
<1>8. CountOf(q, f) = Cardinality(A) /\ CountOf(Append(q, x), f) = Cardinality(B)
  BY DEF CountOf
<1> HIDE DEF A, B, n
<1> QED
  BY <1>5, <1>6, <1>7, <1>8

LEMMA CountTail ==
  ASSUME NEW S, NEW q \in Seq(S), q # <<>>, NEW f
  PROVE  CountOf(Tail(q), f) <= CountOf(q, f)
<1> DEFINE A == {k \in DOMAIN Tail(q) : Tail(q)[k] = f}
           B == {k \in DOMAIN q : q[k] = f}
           up == [k \in A |-> k + 1]
<1>1. /\ Len(q) \in Nat /\ DOMAIN q = 1 .. Len(q)
      /\ DOMAIN Tail(q) = 1 .. Len(q) - 1
      /\ \A k \in 1 .. Len(q) - 1 : Tail(q)[k] = q[k + 1]
  OBVIOUS
<1>2. \A k \in A : k \in Nat /\ k + 1 \in B
  BY <1>1
<1>3. up \in Injection(A, B)
  <2>1. up \in [A -> B]
    BY <1>2
  <2>2. \A k, l \in A : up[k] = up[l] => k = l
    BY <1>2
  <2> HIDE DEF A, B, up
  <2> QED
    BY <2>1, <2>2 DEF Injection, IsInjective
<1>4. IsFiniteSet(B)
  BY CountType
<1> HIDE DEF A, B, up
<1>5. Cardinality(A) <= Cardinality(B)
  BY <1>3, <1>4, FS_Injection
<1> QED
  BY <1>5 DEF CountOf, A, B

\* A queue holds no more frames than it holds of each kind.
LEMMA CountTotal ==
  ASSUME NEW q \in Seq(TxKinds)
  PROVE  Len(q) <= CountOf(q, "ENTITY") + CountOf(q, "read") + CountOf(q, "command")
<1> DEFINE E == {k \in DOMAIN q : q[k] = "ENTITY"}
           R == {k \in DOMAIN q : q[k] = "read"}
           C == {k \in DOMAIN q : q[k] = "command"}
<1>1. Len(q) \in Nat /\ DOMAIN q = 1 .. Len(q)
  OBVIOUS
<1>2. DOMAIN q = (E \cup R) \cup C
  <2>1. \A k \in DOMAIN q : q[k] \in {"ENTITY", "read", "command"}
    BY DEF TxKinds, ReadFrames
  <2> QED
    BY <2>1
<1>3. IsFiniteSet(E) /\ IsFiniteSet(R) /\ IsFiniteSet(C)
  BY CountType
<1>4. /\ Cardinality(E) \in Nat /\ Cardinality(R) \in Nat /\ Cardinality(C) \in Nat
      /\ Cardinality(E) = CountOf(q, "ENTITY") /\ Cardinality(R) = CountOf(q, "read")
      /\ Cardinality(C) = CountOf(q, "command")
  BY CountType DEF CountOf
<1> HIDE DEF E, R, C
<1>5. /\ IsFiniteSet(E \cup R)
      /\ Cardinality(E \cup R) = Cardinality(E) + Cardinality(R) - Cardinality(E \cap R)
  BY <1>3, FS_Union
<1>6. Cardinality((E \cup R) \cup C)
        = Cardinality(E \cup R) + Cardinality(C) - Cardinality((E \cup R) \cap C)
  BY <1>3, <1>5, FS_Union
<1>7. Cardinality(E \cap R) \in Nat /\ Cardinality((E \cup R) \cap C) \in Nat
      /\ Cardinality(E \cup R) \in Nat
  BY <1>3, <1>5, FS_Intersection, FS_CardinalityType
<1>8. Cardinality(DOMAIN q) = Len(q)
  BY <1>1, FS_Interval
<1> QED
  BY <1>2, <1>4, <1>5, <1>6, <1>7, <1>8
\* What one more frame changes.
LEMMA CountsOfAppend ==
  ASSUME NEW q \in Seq(TxKinds), NEW x \in TxKinds
  PROVE  /\ Append(q, x) \in Seq(TxKinds) /\ Append(q, x) # <<>>
         /\ \A f \in TxKinds :
              /\ CountOf(q, f) \in Nat /\ CountOf(Append(q, x), f) \in Nat
              /\ x = f => CountOf(Append(q, x), f) = CountOf(q, f) + 1
              /\ x # f => CountOf(Append(q, x), f) = CountOf(q, f)
<1>1. Append(q, x) \in Seq(TxKinds) /\ Append(q, x) # <<>>
  <2>1. Len(Append(q, x)) = Len(q) + 1 /\ Len(q) \in Nat
    OBVIOUS
  <2> QED
    BY <2>1
<1>2. ASSUME NEW f \in TxKinds
      PROVE  /\ CountOf(q, f) \in Nat /\ CountOf(Append(q, x), f) \in Nat
             /\ x = f => CountOf(Append(q, x), f) = CountOf(q, f) + 1
             /\ x # f => CountOf(Append(q, x), f) = CountOf(q, f)
  <2>1. CountOf(Append(q, x), f) = CountOf(q, f) + (IF x = f THEN 1 ELSE 0)
    BY CountAppend
  <2>2. CountOf(q, f) \in Nat
    BY CountType
  <2> QED
    BY <2>1, <2>2
<1> QED
  BY <1>1, <1>2
-----------------------------------------------------------------------------
(***************************************************************************)
(* The reads                                                               *)
(***************************************************************************)
\* Of what the handler has yet to queue, the reads that will be in flight, and
\* the read of ENTITY.
Pending       == IF to_queue = <<"ENTITY">> THEN 0 ELSE Len(to_queue)
PendingEntity == IF to_queue = <<"ENTITY">> THEN 1 ELSE 0

\* One group of reads is in flight or about to be.
ReadsInv ==
  /\ ReadsTypeOK
  /\ to_queue = <<"ENTITY">> \/ \A k \in DOMAIN to_queue : to_queue[k] = "read"
  /\ Pending <= reads_left
  /\ read_inflight + Pending <= MaxBurst
  /\ read_inflight + reads_left <= MaxReads

LEMMA ReadsInitInv == ReadsInit => ReadsInv /\ PendingEntity = 0
BY ReadsAssumption DEF ReadsInit, ReadsInv, ReadsTypeOK, Pending, PendingEntity

\* Everything a handler may decide about the reads.
Decided(queued) ==
  ReadAnswered(queued) \/ ReadsTimedOut(queued) \/ Enumerate \/ UNCHANGED readVars

LEMMA MinProperties ==
  ASSUME NEW a \in Int, NEW b \in Int
  PROVE  Min({a, b}) \in Int /\ Min({a, b}) <= a /\ Min({a, b}) <= b
<1>1. \E x \in {a, b} : \A y \in {a, b} : x =< y
  <2>1. a <= b \/ b <= a
    OBVIOUS
  <2> QED
    BY <2>1
<1>2. Min({a, b}) \in {a, b} /\ \A y \in {a, b} : Min({a, b}) =< y
  BY <1>1 DEF Min
<1> QED
  BY <1>2

LEMMA SubmitPending ==
  ASSUME ReadsTypeOK, read_inflight + reads_left <= MaxReads, NEW n \in Nat,
         n <= read_inflight, read_inflight <= MaxBurst,
         read_inflight' = read_inflight - n,
         background_read_submit_pending(read_inflight - n),
         UNCHANGED <<reads_left, entity_reads>>
  PROVE  ReadsInv' /\ PendingEntity' = 0
<1>1. PICK g \in 0 .. Min({MaxBurst, reads_left}) :
        /\ g > 0 => read_inflight - n = 0 /\ entity_reads > 0
        /\ to_queue' = [k \in 1 .. g |-> "read"]
  BY DEF background_read_submit_pending
<1>2. g \in Nat /\ g <= MaxBurst /\ g <= reads_left
  <2>1. MaxBurst \in Int /\ reads_left \in Int
    BY ReadsAssumption DEF ReadsTypeOK
  <2>2. Min({MaxBurst, reads_left}) \in Int /\ Min({MaxBurst, reads_left}) <= MaxBurst
        /\ Min({MaxBurst, reads_left}) <= reads_left
    BY <2>1, MinProperties
  <2> QED
    BY <2>1, <2>2
<1>3. /\ to_queue' \in Seq(ReadFrames) /\ Len(to_queue') = g
      /\ \A k \in DOMAIN to_queue' : to_queue'[k] = "read"
  BY <1>1, <1>2 DEF ReadFrames
<1>4. to_queue' # <<"ENTITY">>
  <2> SUFFICES ASSUME to_queue' = <<"ENTITY">> PROVE FALSE
    OBVIOUS
  <2>1. 1 \in DOMAIN to_queue' /\ to_queue'[1] = "ENTITY"
    OBVIOUS
  <2> QED
    BY <1>3, <2>1
<1>5. Pending' = g /\ PendingEntity' = 0
  BY <1>3, <1>4 DEF Pending, PendingEntity
<1>6. read_inflight' \in 0 .. MaxReads /\ (g > 0 => read_inflight' = 0)
      /\ read_inflight' <= MaxBurst
  BY <1>1, ReadsAssumption DEF ReadsTypeOK
<1>7. ReadsTypeOK'
  BY <1>3, <1>6 DEF ReadsTypeOK
<1>8. read_inflight' + g <= MaxBurst /\ read_inflight' + reads_left' <= MaxReads
  BY <1>2, <1>6, ReadsAssumption DEF ReadsTypeOK
<1> QED
  BY <1>2, <1>3, <1>5, <1>7, <1>8 DEF ReadsInv

\* A decision keeps to one group, and as long as there was one enumeration only
\* it removes no more reads from the list than have left the queue.
LEMMA ReadsDecided ==
  ASSUME ReadsInv, to_queue = <<>>, NEW queued \in Nat, Decided(queued)
  PROVE  /\ ReadsInv'
         /\ entity_reads' = entity_reads + PendingEntity'
         /\ entity_reads' <= 1 /\ queued <= read_inflight => queued <= read_inflight'
<1>0. /\ read_inflight \in Nat /\ entity_reads \in Nat /\ reads_left \in Nat
      /\ ReadsTypeOK /\ read_inflight + reads_left <= MaxReads
      /\ Pending = 0 /\ PendingEntity = 0
  BY DEF ReadsInv, ReadsTypeOK, Pending, PendingEntity
<1>1. read_inflight <= MaxBurst
  BY <1>0 DEF ReadsInv
<1>2. ASSUME NEW n \in 0 .. Removable(queued), read_inflight' = read_inflight - n,
             background_read_submit_pending(read_inflight - n),
             UNCHANGED <<reads_left, entity_reads>>
      PROVE  /\ ReadsInv'
             /\ entity_reads' = entity_reads + PendingEntity'
             /\ entity_reads' <= 1 /\ queued <= read_inflight => queued <= read_inflight'
  <2>1. n \in Nat /\ n <= read_inflight
        /\ (entity_reads <= 1 => n <= read_inflight - queued)
    BY <1>0 DEF Removable
  <2>2. ReadsInv' /\ PendingEntity' = 0
    BY <1>0, <1>1, <1>2, <2>1, SubmitPending
  <2> QED
    BY <1>0, <1>2, <2>1, <2>2
<1>3. CASE ReadAnswered(queued)
  <2>1. PICK n \in 0 .. Min({entity_reads, Removable(queued)}) :
          /\ read_inflight' = read_inflight - n
          /\ background_read_submit_pending(read_inflight - n)
          /\ UNCHANGED <<reads_left, entity_reads>>
    BY <1>3 DEF ReadAnswered
  <2>2. Removable(queued) \in Int /\ entity_reads \in Int
    BY <1>0 DEF Removable
  <2>3. Min({entity_reads, Removable(queued)}) <= Removable(queued)
        /\ Min({entity_reads, Removable(queued)}) \in Int
    BY <2>2, MinProperties
  <2>4. n \in 0 .. Removable(queued)
    BY <2>2, <2>3
  <2> QED
    BY <1>2, <2>1, <2>4
<1>4. CASE ReadsTimedOut(queued)
  BY <1>2, <1>4 DEF ReadsTimedOut
<1>5. CASE Enumerate
  <2>1. to_queue' = <<"ENTITY">> /\ Pending' = 0 /\ PendingEntity' = 1
    BY <1>5 DEF Enumerate, Pending, PendingEntity
  <2>2. to_queue' \in Seq(ReadFrames)
    BY <2>1 DEF ReadFrames
  <2>3. ReadsTypeOK'
    BY <1>0, <1>5, <2>2, ReadsAssumption DEF ReadsTypeOK, Enumerate
  <2>4. UNCHANGED <<read_inflight, reads_left>> /\ entity_reads' = entity_reads + 1
    BY <1>5 DEF Enumerate
  <2> QED
    BY <1>0, <1>1, <2>1, <2>3, <2>4 DEF ReadsInv
<1>6. CASE UNCHANGED readVars
  BY <1>0, <1>6 DEF readVars, ReadsInv, ReadsTypeOK, Pending, PendingEntity
<1> QED
  BY <1>3, <1>4, <1>5, <1>6 DEF Decided

\* The next frame to queue, and what is left when it is.
LEMMA ReadsQueued ==
  ASSUME ReadsInv, to_queue # <<>>
  PROVE  /\ Head(to_queue) \in TxKinds
         /\ Head(to_queue) = "ENTITY" => PendingEntity = 1 /\ Pending = 0
         /\ Head(to_queue) # "ENTITY" =>
              Head(to_queue) = "read" /\ PendingEntity = 0 /\ Pending > 0
         /\ ReadQueued =>
              /\ ReadsInv'
              /\ UNCHANGED entity_reads
              /\ PendingEntity' = 0
              /\ read_inflight' = read_inflight + (IF Head(to_queue) = "read" THEN 1 ELSE 0)
<1>0. /\ read_inflight \in Nat /\ reads_left \in Nat /\ to_queue \in Seq(ReadFrames)
      /\ MaxReads \in Nat
  BY ReadsAssumption DEF ReadsInv, ReadsTypeOK
<1>1. CASE to_queue = <<"ENTITY">>
  <2>1. Head(to_queue) = "ENTITY" /\ Tail(to_queue) = <<>> /\ Pending = 0
        /\ PendingEntity = 1
    BY <1>1 DEF Pending, PendingEntity
  <2>2. SUFFICES ASSUME ReadQueued
                 PROVE  /\ ReadsInv' /\ UNCHANGED entity_reads /\ PendingEntity' = 0
                        /\ read_inflight' = read_inflight
    BY <1>0, <2>1 DEF TxKinds, ReadFrames
  <2>3. /\ to_queue' = <<>> /\ UNCHANGED <<read_inflight, reads_left, entity_reads>>
    BY <1>0, <2>1, <2>2 DEF ReadQueued
  <2>4. Pending' = 0 /\ PendingEntity' = 0
    BY <2>3 DEF Pending, PendingEntity
  <2> QED
    BY <1>0, <2>1, <2>3, <2>4 DEF ReadsInv, ReadsTypeOK
<1>2. CASE to_queue # <<"ENTITY">>
  <2>1. /\ \A k \in DOMAIN to_queue : to_queue[k] = "read"
        /\ Pending = Len(to_queue) /\ PendingEntity = 0
    BY <1>2 DEF ReadsInv, Pending, PendingEntity
  <2>2. 1 \in DOMAIN to_queue /\ Len(to_queue) \in Nat /\ Len(to_queue) > 0
    BY <1>0
  <2>3. Head(to_queue) = "read"
    BY <1>0, <2>1, <2>2
  <2>4. SUFFICES ASSUME ReadQueued
                 PROVE  /\ ReadsInv' /\ UNCHANGED entity_reads /\ PendingEntity' = 0
                        /\ read_inflight' = read_inflight + 1
    BY <2>1, <2>2, <2>3 DEF TxKinds, ReadFrames
  <2>5. /\ to_queue' = Tail(to_queue) /\ read_inflight' = read_inflight + 1
        /\ reads_left' = reads_left - 1 /\ UNCHANGED entity_reads
    BY <2>3, <2>4 DEF ReadQueued
  <2>6. /\ to_queue' \in Seq(ReadFrames) /\ Len(to_queue') = Len(to_queue) - 1
        /\ \A k \in DOMAIN to_queue' : to_queue'[k] = "read"
    BY <1>0, <2>1, <2>2, <2>5
  <2>7. to_queue' # <<"ENTITY">>
    <3> SUFFICES ASSUME to_queue' = <<"ENTITY">> PROVE FALSE
      OBVIOUS
    <3>1. 1 \in DOMAIN to_queue' /\ to_queue'[1] = "ENTITY"
      OBVIOUS
    <3> QED
      BY <2>6, <3>1
  <2>8. Pending' = Pending - 1 /\ PendingEntity' = 0
    BY <2>1, <2>6, <2>7 DEF Pending, PendingEntity
  <2>9. /\ Pending <= reads_left /\ read_inflight + Pending <= MaxBurst
        /\ read_inflight + reads_left <= MaxReads /\ Pending \in Nat /\ Pending > 0
    BY <2>1, <2>2 DEF ReadsInv
  <2>10. ReadsTypeOK'
    BY <1>0, <2>5, <2>6, <2>9 DEF ReadsInv, ReadsTypeOK
  <2> QED
    BY <1>0, <2>5, <2>6, <2>8, <2>9, <2>10, ReadsAssumption DEF ReadsInv
<1> QED
  BY <1>1, <1>2
-----------------------------------------------------------------------------
(***************************************************************************)
(* SystemShutdown: the Linux poll loop                                     *)
(***************************************************************************)
\* local_system is cleared once, the semaphore posted once after that, and
\* nothing is deleted before it is taken or destroy() was interrupted.
ShutOrder ==
  /\ local_system <=> app_pc \in {"run", "wait"}
  /\ app_pc \in {"run", "wait", "sem_wait"} => objects = Objects /\ ~abandoned
  /\ app_pc \in {"controller", "netif", "gone"} => poll_pc = "ended" \/ abandoned
  /\ shutdown_sem > 0 => poll_pc = "ended" /\ (app_pc = "sem_wait" \/ abandoned)

QueuePcs == {"test", "call", "write", "crashed"}

\* What is in the pipe: each ENTITY read belongs to an enumeration, each read to
\* an entry in flight, and a command to an application that waits for it, or has
\* ceased to wait for each.
PipeInv ==
  /\ poll_pc \in {"test", "call", "write"} => to_queue # <<>>
  /\ to_queue # <<>> => poll_pc \in QueuePcs
  /\ "tx" \in events => tx_pipe # <<>>
  /\ CountOf(tx_pipe, "ENTITY") + PendingEntity <= entity_reads
  /\ entity_reads <= 1 => CountOf(tx_pipe, "read") <= read_inflight
  /\ unwaited \/ CountOf(tx_pipe, "command") <= IF app_pc = "wait" THEN 1 ELSE 0

ShutInv == ReadsInv /\ ShutTypeOK /\ ShutOrder /\ PipeInv

LEMMA ShutInitInv == ShutInit => ShutInv
<1> SUFFICES ASSUME ShutInit PROVE ShutInv
  OBVIOUS
<1>1. ReadsInv /\ PendingEntity = 0 /\ to_queue = <<>> /\ entity_reads = 0
  BY ReadsInitInv DEF ShutInit, ReadsInit
<1>2. \A f : CountOf(tx_pipe, f) = 0
  BY CountNone DEF ShutInit
<1>3. read_inflight = 0
  BY DEF ShutInit, ReadsInit
<1>4. ShutTypeOK
  <2>1. local_system \in BOOLEAN /\ unwaited \in BOOLEAN /\ abandoned \in BOOLEAN
    BY Zenon DEF ShutInit
  <2> QED
    BY <1>1, <2>1, ShutdownAssumption DEF ShutInit, ShutTypeOK, ReadsInv, PollPcs, AppPcs
<1> QED
  BY <1>1, <1>2, <1>3, <1>4 DEF ShutInit, ShutInv, ShutOrder, PipeInv, QueuePcs

\* A step that leaves the pipe, the reads and the application alone.
LEMMA PipeUnchanged ==
  ASSUME ShutInv, UNCHANGED <<tx_pipe, readVars, app_pc, unwaited>>,
         poll_pc' \in {"test", "call", "write"} => to_queue # <<>>,
         to_queue # <<>> => poll_pc' \in QueuePcs,
         "tx" \in events' => tx_pipe # <<>>
  PROVE  ReadsInv' /\ PipeInv'
BY DEF ShutInv, PipeInv, ReadsInv, ReadsTypeOK, readVars, Pending, PendingEntity

LEMMA EpollInv ==
  ASSUME ShutInv, EpollWait \/ EpollInterrupted \/ EpollCheck
  PROVE  ShutInv'
<1>1. UNCHANGED <<tx_pipe, readVars, app_pc, local_system, objects, cmds, unwaited,
                  abandoned>>
  BY DEF EpollWait, EpollInterrupted, EpollCheck
<1>2. to_queue = <<>> /\ poll_pc' \notin QueuePcs /\ poll_pc' \in PollPcs
      /\ poll_pc \in {"epoll_wait", "woken"}
  BY DEF ShutInv, PipeInv, EpollWait, EpollInterrupted, EpollCheck, QueuePcs, PollPcs
<1>3. "tx" \in events' => tx_pipe # <<>>
  BY DEF ShutInv, PipeInv, EpollWait, EpollInterrupted, EpollCheck
<1>4. ReadsInv' /\ PipeInv'
  BY <1>1, <1>2, <1>3, PipeUnchanged DEF QueuePcs
<1>5. ShutOrder' /\ shutdown_sem' \in 0 .. 1
  BY <1>1 DEF ShutInv, ShutOrder, ShutTypeOK, AppPcs, EpollWait, EpollInterrupted, EpollCheck
<1>6. events' \subseteq Events /\ interrupts' \in 0 .. MaxInterrupts
  BY ShutdownAssumption DEF ShutInv, ShutTypeOK, EpollWait, EpollInterrupted, EpollCheck
<1>7. ShutTypeOK'
  BY <1>1, <1>2, <1>4, <1>5, <1>6 DEF ShutInv, ShutTypeOK, ReadsInv
<1> QED
  BY <1>4, <1>5, <1>7 DEF ShutInv

\* A frame is sent: it is taken out of the pipe.
LEMMA SentInv ==
  ASSUME ShutInv, fn_tx
  PROVE  ShutInv'
<1>1. /\ UNCHANGED <<readVars, app_pc, local_system, objects, cmds, shutdown_sem,
                     interrupts, unwaited, abandoned>>
      /\ poll_pc = "handle" /\ tx_pipe # <<>> /\ tx_pipe' = Tail(tx_pipe)
      /\ events' = events \ {"tx"}
  BY DEF ShutInv, PipeInv, fn_tx, Handled
<1>2. to_queue = <<>> /\ to_queue' = <<>>
  BY <1>1 DEF ShutInv, PipeInv, QueuePcs, readVars
<1>3. poll_pc' \in {"epoll_wait", "handle"}
  BY <1>2 DEF fn_tx, Handled
<1>4. tx_pipe \in Seq(TxKinds) /\ tx_pipe' \in Seq(TxKinds)
  BY <1>1 DEF ShutInv, ShutTypeOK, TxKinds
<1>5. \A f : /\ CountOf(tx_pipe', f) <= CountOf(tx_pipe, f)
             /\ CountOf(tx_pipe', f) \in Nat /\ CountOf(tx_pipe, f) \in Nat
  BY <1>1, <1>4, CountTail, CountType
<1>6. ReadsInv' /\ PendingEntity' = PendingEntity /\ PendingEntity \in Nat
  BY <1>1 DEF ShutInv, ReadsInv, ReadsTypeOK, readVars, Pending, PendingEntity
<1>7. entity_reads \in Nat /\ read_inflight \in Nat
      /\ UNCHANGED <<entity_reads, read_inflight>>
  BY <1>1 DEF ShutInv, ReadsInv, ReadsTypeOK, readVars
<1>8. PipeInv'
  BY <1>1, <1>2, <1>3, <1>5, <1>6, <1>7 DEF ShutInv, PipeInv, QueuePcs
<1>9. ShutOrder'
  BY <1>1, <1>3 DEF ShutInv, ShutOrder
<1>10. ShutTypeOK'
  BY <1>1, <1>3, <1>4, <1>6 DEF ShutInv, ShutTypeOK, ReadsInv, PollPcs, TxKinds
<1> QED
  BY <1>6, <1>8, <1>9, <1>10 DEF ShutInv

\* A response, an advertisement or a tick of the timer decides on reads.
LEMMA HandlerInv ==
  ASSUME ShutInv, fn_netif \/ fn_timer
  PROVE  ShutInv'
<1>1. /\ UNCHANGED <<tx_pipe, app_pc, local_system, objects, cmds, shutdown_sem,
                     interrupts, unwaited, abandoned>>
      /\ poll_pc = "handle" /\ events' \subseteq events /\ Decided(QueuedReads)
  BY DEF fn_netif, fn_timer, Handled, Decided
<1>2. to_queue = <<>>
  BY <1>1 DEF ShutInv, PipeInv, QueuePcs
<1>3. poll_pc' = IF to_queue' # <<>> THEN "test"
                 ELSE IF events' = {} THEN "epoll_wait" ELSE "handle"
  BY DEF fn_netif, fn_timer, Handled
<1>4. tx_pipe \in Seq(TxKinds)
  BY DEF ShutInv, ShutTypeOK, TxKinds
<1>5. \A f : CountOf(tx_pipe, f) \in Nat
  BY <1>4, CountType
<1>6. /\ ReadsInv' /\ entity_reads' = entity_reads + PendingEntity'
      /\ entity_reads' <= 1 /\ QueuedReads <= read_inflight
           => QueuedReads <= read_inflight'
  BY <1>1, <1>2, <1>5, ReadsDecided DEF ShutInv, QueuedReads
<1>7. PendingEntity = 0 /\ PendingEntity' \in {0, 1} /\ entity_reads \in Nat
  BY <1>2 DEF ShutInv, ReadsInv, ReadsTypeOK, PendingEntity
<1>8. /\ CountOf(tx_pipe, "ENTITY") + PendingEntity' <= entity_reads'
      /\ entity_reads' <= 1 => CountOf(tx_pipe, "read") <= read_inflight'
  <2> DEFINE e == CountOf(tx_pipe, "ENTITY")
             r == CountOf(tx_pipe, "read")
  <2>1. e + 0 <= entity_reads /\ (entity_reads <= 1 => r <= read_inflight)
        /\ e \in Nat /\ r \in Nat
    BY <1>5, <1>7 DEF ShutInv, PipeInv
  <2>2. entity_reads' <= 1 /\ r <= read_inflight => r <= read_inflight'
    BY <1>6 DEF QueuedReads
  <2> HIDE DEF e, r
  <2>3. e + PendingEntity' <= entity_reads' /\ (entity_reads' <= 1 => r <= read_inflight')
    <3>1. PICK p \in {0, 1} : PendingEntity' = p
      BY <1>7
    <3>2. entity_reads' = entity_reads + p /\ p \in Nat
      BY <1>6, <3>1
    <3>3. entity_reads' \in Nat /\ e + p <= entity_reads'
          /\ (entity_reads' <= 1 => entity_reads <= 1)
      BY <1>7, <2>1, <3>2
    <3> QED
      BY <2>1, <2>2, <3>1, <3>3
  <2> QED
    BY <2>3 DEF e, r
<1>9. PipeInv'
  BY <1>1, <1>3, <1>8 DEF ShutInv, PipeInv, QueuePcs
<1>10. ShutOrder'
  BY <1>1 DEF ShutInv, ShutOrder
<1>11. ShutTypeOK'
  BY <1>1, <1>3, <1>6 DEF ShutInv, ShutTypeOK, ReadsInv, PollPcs
<1> QED
  BY <1>6, <1>9, <1>10, <1>11 DEF ShutInv

\* The poll thread queues a frame for itself, or drops it.
LEMMA QueueInvStep ==
  ASSUME ShutInv, system_queue_tx_test \/ system_queue_tx_call \/ PollWrite
  PROVE  ShutInv'
<1>1. /\ UNCHANGED <<app_pc, local_system, objects, cmds, shutdown_sem, interrupts, events,
                     unwaited, abandoned>>
      /\ poll_pc \in {"test", "call", "write"} /\ to_queue # <<>>
  BY DEF ShutInv, PipeInv, QueuePcs, system_queue_tx_test, system_queue_tx_call,
         PollWrite, Handled
<1>2. tx_pipe \in Seq(TxKinds)
  BY DEF ShutInv, ShutTypeOK, TxKinds
<1>3. ShutOrder'
  BY <1>1 DEF ShutInv, ShutOrder
<1>4. CASE UNCHANGED <<tx_pipe, readVars>> /\ poll_pc' \in {"call", "write", "crashed"}
  <2>1. ReadsInv' /\ PipeInv'
    BY <1>1, <1>4, PipeUnchanged DEF ShutInv, PipeInv, QueuePcs
  <2>2. ShutTypeOK'
    BY <1>1, <1>4, <2>1 DEF ShutInv, ShutTypeOK, ReadsInv, PollPcs
  <2> QED
    BY <1>3, <2>1, <2>2 DEF ShutInv
<1>5. CASE /\ ReadQueued
           /\ poll_pc' = IF to_queue' # <<>> THEN "test"
                         ELSE IF events = {} THEN "epoll_wait" ELSE "handle"
           /\ tx_pipe' = tx_pipe \/ tx_pipe' = Append(tx_pipe, Head(to_queue))
  <2>1. PICK x \in TxKinds : x = Head(to_queue)
    BY <1>1, ReadsQueued DEF ShutInv
  <2>2. /\ x = "ENTITY" => PendingEntity = 1
        /\ x # "ENTITY" => x = "read" /\ PendingEntity = 0
        /\ ReadsInv' /\ UNCHANGED entity_reads /\ PendingEntity' = 0
        /\ read_inflight' = read_inflight + (IF x = "read" THEN 1 ELSE 0)
    BY <1>1, <1>5, <2>1, ReadsQueued DEF ShutInv
  <2>3. /\ tx_pipe' \in Seq(TxKinds) /\ (tx_pipe # <<>> => tx_pipe' # <<>>)
        /\ \A f \in TxKinds :
             /\ CountOf(tx_pipe, f) \in Nat /\ CountOf(tx_pipe', f) \in Nat
             /\ x = f => CountOf(tx_pipe', f) <= CountOf(tx_pipe, f) + 1
             /\ x # f => CountOf(tx_pipe', f) = CountOf(tx_pipe, f)
    <3>1. CASE tx_pipe' = tx_pipe
      <4>1. \A f \in TxKinds : CountOf(tx_pipe, f) \in Nat
        BY <1>2, CountType
      <4> QED
        BY <1>2, <3>1, <4>1
    <3>2. CASE tx_pipe' = Append(tx_pipe, x)
      <4>1. \A f \in TxKinds :
             /\ CountOf(tx_pipe, f) \in Nat /\ CountOf(Append(tx_pipe, x), f) \in Nat
             /\ x = f => CountOf(Append(tx_pipe, x), f) = CountOf(tx_pipe, f) + 1
             /\ x # f => CountOf(Append(tx_pipe, x), f) = CountOf(tx_pipe, f)
        BY <1>2, CountsOfAppend
      <4>2. tx_pipe' \in Seq(TxKinds) /\ tx_pipe' # <<>>
        BY <1>2, <3>2, CountsOfAppend
      <4> QED
        BY <3>2, <4>1, <4>2
    <3> QED
      BY <1>5, <2>1, <3>1, <3>2
  <2>4. /\ CountOf(tx_pipe', "ENTITY") + PendingEntity' <= entity_reads'
        /\ entity_reads' <= 1 => CountOf(tx_pipe', "read") <= read_inflight'
        /\ CountOf(tx_pipe', "command") = CountOf(tx_pipe, "command")
    <3>1. entity_reads \in Nat /\ read_inflight \in Nat
      BY DEF ShutInv, ReadsInv, ReadsTypeOK
    <3>2. {"ENTITY", "read", "command"} \subseteq TxKinds
      BY DEF TxKinds, ReadFrames
    <3> QED
      BY SMTT(30), <2>2, <2>3, <3>1, <3>2 DEF ShutInv, PipeInv
  <2>5. PipeInv'
    BY <1>1, <1>5, <2>3, <2>4 DEF ShutInv, PipeInv, QueuePcs
  <2>6. ShutTypeOK'
    BY <1>1, <1>5, <2>2, <2>3 DEF ShutInv, ShutTypeOK, ReadsInv, PollPcs, TxKinds
  <2> QED
    BY <1>3, <2>2, <2>5, <2>6 DEF ShutInv
<1> QED
  BY <1>1, <1>4, <1>5 DEF system_queue_tx_test, system_queue_tx_call, PollWrite, Handled

\* The poll thread goes on in what an interrupted destroy() has deleted.
LEMMA DeletedInv ==
  ASSUME ShutInv, PollUsesDeleted
  PROVE  ShutInv'
<1>1. /\ UNCHANGED <<tx_pipe, readVars, app_pc, local_system, objects, cmds, shutdown_sem,
                     interrupts, events, unwaited, abandoned>>
      /\ poll_pc' = "crashed" /\ poll_pc # "ended" /\ objects # Objects
  BY DEF PollUsesDeleted
<1>2. ReadsInv' /\ PipeInv'
  BY <1>1, PipeUnchanged DEF ShutInv, PipeInv, QueuePcs
<1>3. ShutOrder'
  BY <1>1 DEF ShutInv, ShutOrder, ShutTypeOK, AppPcs
<1>4. ShutTypeOK'
  BY <1>1, <1>2 DEF ShutInv, ShutTypeOK, ReadsInv, PollPcs
<1> QED
  BY <1>2, <1>3, <1>4 DEF ShutInv

LEMMA AppInv ==
  ASSUME ShutInv, App
  PROVE  ShutInv'
<1>1. UNCHANGED <<poll_pc, events, readVars>>
  BY DEF App, AppQueue, AppReleased, Destroy, DeleteSystem, DestroyInterrupted, DeleteOther
<1>2. ReadsInv' /\ UNCHANGED <<to_queue, entity_reads, read_inflight>>
  BY <1>1 DEF ShutInv, ReadsInv, ReadsTypeOK, readVars, Pending
<1>3. tx_pipe \in Seq(TxKinds)
  BY DEF ShutInv, ShutTypeOK, TxKinds
<1>4. ShutOrder'
  BY <1>1 DEF ShutInv, ShutOrder, ShutTypeOK, AppPcs, App, AppQueue, AppReleased,
              Destroy, DeleteSystem, DestroyInterrupted, DeleteOther
<1>5. ASSUME NEW waits \in BOOLEAN, AppQueue(waits) PROVE ShutInv'
  <2>1. /\ tx_pipe' = Append(tx_pipe, "command") /\ app_pc = "run"
        /\ app_pc' = IF waits THEN "wait" ELSE "run"
        /\ unwaited' = (unwaited \/ ~waits)
        /\ {"ENTITY", "read", "command"} \subseteq TxKinds
        /\ "ENTITY" # "command" /\ "read" # "command"
    BY <1>5 DEF AppQueue, TxKinds, ReadFrames
  <2>2. /\ tx_pipe' \in Seq(TxKinds) /\ tx_pipe' # <<>>
        /\ CountOf(tx_pipe', "ENTITY") = CountOf(tx_pipe, "ENTITY")
        /\ CountOf(tx_pipe', "read") = CountOf(tx_pipe, "read")
        /\ CountOf(tx_pipe', "command") = CountOf(tx_pipe, "command") + 1
        /\ CountOf(tx_pipe, "command") \in Nat
    BY <1>3, <2>1, CountsOfAppend
  <2>3. unwaited' \/ CountOf(tx_pipe', "command") <= IF app_pc' = "wait" THEN 1 ELSE 0
    <3>1. CASE unwaited \/ ~waits
      BY Zenon, <2>1, <3>1
    <3>2. CASE ~unwaited /\ waits
      <4>1. CountOf(tx_pipe, "command") <= 0 /\ app_pc' = "wait"
        BY <2>1, <3>2 DEF ShutInv, PipeInv
      <4> QED
        BY <2>2, <4>1
    <3> QED
      BY <3>1, <3>2
  <2>30. PipeInv'
    BY <1>1, <1>2, <2>2, <2>3 DEF ShutInv, PipeInv, PendingEntity
  <2>4. ShutTypeOK'
    BY <1>1, <1>2, <1>5, <2>2, ShutdownAssumption
      DEF ShutInv, ShutTypeOK, ReadsInv, AppQueue, TxKinds, AppPcs
  <2> QED
    BY <1>2, <1>4, <2>30, <2>4 DEF ShutInv
<1>6. CASE AppReleased \/ Destroy \/ DeleteSystem \/ DestroyInterrupted \/ DeleteOther
  <2>1. UNCHANGED <<tx_pipe, unwaited>>
    BY <1>6 DEF AppReleased, Destroy, DeleteSystem, DestroyInterrupted, DeleteOther
  <2>2. unwaited \/ CountOf(tx_pipe, "command") <= IF app_pc' = "wait" THEN 1 ELSE 0
    <3>1. CASE AppReleased
      BY <3>1 DEF AppReleased, QueuedCommands
    <3>2. CASE Destroy \/ DeleteSystem \/ DestroyInterrupted \/ DeleteOther
      BY <3>2 DEF ShutInv, PipeInv, Destroy, DeleteSystem, DestroyInterrupted, DeleteOther
    <3> QED
      BY <1>6, <3>1, <3>2
  <2>3. PipeInv'
    BY <1>1, <1>2, <2>1, <2>2 DEF ShutInv, PipeInv, PendingEntity
  <2>4. /\ local_system' \in BOOLEAN /\ objects' \subseteq Objects /\ app_pc' \in AppPcs
        /\ shutdown_sem' \in 0 .. 1 /\ UNCHANGED cmds
        /\ interrupts' \in 0 .. MaxInterrupts /\ abandoned' \in BOOLEAN
    <3>1. /\ local_system \in BOOLEAN /\ objects \subseteq Objects
          /\ shutdown_sem \in 0 .. 1
          /\ interrupts \in 0 .. MaxInterrupts /\ abandoned \in BOOLEAN
      BY DEF ShutInv, ShutTypeOK
    <3>2. CASE AppReleased \/ Destroy
      BY <3>1, <3>2 DEF AppPcs, AppReleased, Destroy
    <3>3. CASE DeleteSystem
      BY <3>1, <3>3 DEF AppPcs, DeleteSystem
    <3>4. CASE DeleteOther
      BY <3>1, <3>4 DEF AppPcs, DeleteOther
    <3>5. CASE DestroyInterrupted
      BY <3>1, <3>5, ShutdownAssumption DEF AppPcs, DestroyInterrupted
    <3> QED
      BY <1>6, <3>2, <3>3, <3>4, <3>5
  <2>5. ShutTypeOK'
    BY <1>1, <1>2, <2>1, <2>4 DEF ShutInv, ShutTypeOK, ReadsInv
  <2> QED
    BY <1>2, <1>4, <2>3, <2>5 DEF ShutInv
<1> QED
  BY <1>5, <1>6 DEF App

LEMMA ShutNextInv == ShutInv /\ [ShutNext]_allShutVars => ShutInv'
<1> SUFFICES ASSUME ShutInv, [ShutNext]_allShutVars PROVE ShutInv'
  OBVIOUS
<1>1. CASE ShutNext
  BY <1>1, EpollInv, SentInv, HandlerInv, QueueInvStep, DeletedInv, AppInv
    DEF ShutNext, Poll
<1>2. CASE UNCHANGED allShutVars
  BY <1>2 DEF allShutVars, shutVars, readVars, ShutInv, ReadsInv, ReadsTypeOK, Pending,
              PendingEntity, ShutTypeOK, ShutOrder, PipeInv
<1> QED
  BY <1>1, <1>2

\* The order of the end of the system, and what the pipe holds.
THEOREM ShutInvariant == ShutSpec => []ShutInv
BY ShutInitInv, ShutNextInv, PTL DEF ShutSpec

\* No object is deleted while the poll thread is in its loop, wherever
\* local_system is cleared under it and whatever ends the loop, unless a signal
\* takes destroy() out of its wait.
THEOREM PollObjects == ShutSpec => []ObjectsOutlivePoll
<1>1. ShutInv => ObjectsOutlivePoll
  BY DEF ShutInv, ShutTypeOK, ShutOrder, AppPcs, ObjectsOutlivePoll
<1> QED
  BY <1>1, ShutInvariant, PTL

\* What fills the pipe up under the poll thread: a group of reads, a read of
\* ENTITY and a command always fit in, the rest are commands not waited for.
LEMMA PipeHasRoom == ShutInv => PollNeverBlocks
<1> SUFFICES ASSUME ShutInv, entity_reads <= 1, PipeSize >= MaxBurst + 2,
                    poll_pc = "write", Len(tx_pipe) = PipeSize
             PROVE  unwaited /\ CountOf(tx_pipe, "command") >= PipeSize - MaxBurst
  BY DEF PollNeverBlocks, PollStuck, QueuedCommands
<1> DEFINE e == CountOf(tx_pipe, "ENTITY")
           r == CountOf(tx_pipe, "read")
           c == CountOf(tx_pipe, "command")
<1>1. tx_pipe \in Seq(TxKinds)
  BY DEF ShutInv, ShutTypeOK, TxKinds
<1>2. /\ e \in Nat /\ r \in Nat /\ c \in Nat /\ Len(tx_pipe) \in Nat
      /\ Len(tx_pipe) <= e + r + c
  <2>0. Len(tx_pipe) \in Nat
    BY <1>1
  <2>1. e \in Nat /\ r \in Nat /\ c \in Nat
    BY <1>1, CountType
  <2>2. Len(tx_pipe) <= e + r + c
    BY <1>1, CountTotal
  <2> QED
    BY <2>0, <2>1, <2>2
<1>3. e + PendingEntity <= entity_reads /\ r <= read_inflight /\ (unwaited \/ c <= 1)
  <2>1. e + PendingEntity <= entity_reads /\ (entity_reads <= 1 => r <= read_inflight)
        /\ (unwaited \/ c <= IF app_pc = "wait" THEN 1 ELSE 0)
    BY DEF ShutInv, PipeInv
  <2> HIDE DEF e, r, c
  <2> QED
    BY <1>2, <2>1
<1>4. /\ MaxBurst \in Nat /\ PipeSize \in Nat /\ entity_reads \in Nat
      /\ read_inflight \in Nat
  BY ReadsAssumption, ShutdownAssumption DEF ShutInv, ReadsInv, ReadsTypeOK
<1>5. /\ to_queue # <<>> /\ ReadsInv /\ read_inflight + Pending <= MaxBurst
  BY DEF ShutInv, PipeInv, QueuePcs, ReadsInv
<1>6. \/ PendingEntity = 1 /\ Pending = 0
      \/ PendingEntity = 0 /\ Pending > 0 /\ Pending \in Nat
  BY <1>5 DEF ReadsInv, ReadsTypeOK, Pending, PendingEntity
<1>7. unwaited /\ c >= PipeSize - MaxBurst
  <2> HIDE DEF e, r, c
  <2> QED
    BY <1>2, <1>3, <1>4, <1>5, <1>6
<1> QED
  BY <1>7

\* On Linux the poll thread waits for space in the pipe it alone reads only when
\* commands the application does not wait for have filled all but a group of it.
THEOREM PollThreadNeverBlocks == ShutSpec => []PollNeverBlocks
BY PipeHasRoom, ShutInvariant, PTL
-----------------------------------------------------------------------------
(***************************************************************************)
(* SystemMsvc: the queues and threads of the Windows layer                 *)
(***************************************************************************)
At(thread, pc) == IF thread = pc THEN 1 ELSE 0

\* Whether the poll thread has taken the data semaphore of a queue, and not yet
\* what it stands for.
Taken(event) == IF poll_thread = "event" /\ dwEvent = event THEN 1 ELSE 0

\* A queue of N entries: the ring holds what was put in and not taken out; an
\* entry is free, filled or about to be filled by a thread that has taken the
\* space semaphore; a filled one is counted by the data semaphore, about to be,
\* or taken.
QueueInv(q, N, storing, signalling, taken) ==
  /\ q.in_pos = (q.out_pos + Len(q.log)) % N
  /\ \A k \in 1 .. Len(q.log) : q.buf[(q.out_pos + k - 1) % N] = q.log[k]
  /\ q.space_avail + Len(q.log) + storing = N
  /\ q.data_avail + signalling + taken = Len(q.log)

RxInv == QueueInv(rx_queue, RxCount, At(rx_thread, "store"), At(rx_thread, "signal"),
                  Taken("WPCAP_RX_PACKET"))

TxInv == QueueInv(tx_queue, TxCount,
                  At(poll_thread, "store") + At(app_thread, "store"),
                  At(poll_thread, "signal") + At(app_thread, "signal"),
                  Taken("WPCAP_TX_PACKET"))

Signals == {"WPCAP_TIMEOUT", "WPCAP_RX_PACKET", "WPCAP_TX_PACKET", "KILL_ALL"}
Closing == {"close", "join rx", "join poll", "done"}
Killing == {"KILL_ALL", "exit"}

\* Where the threads are and what they are there for.
MsvcPhases ==
  /\ rx_thread \in PushPcs => captured > 0
  /\ poll_thread \in PushPcs <=> to_queue # <<>>
  /\ poll_thread \in {"event", "tick"} => dwEvent \in Signals
  /\ poll_thread = "wait" => dwEvent = "next"
  /\ poll_thread = "done" => dwEvent = "exit"
  /\ rx_kill_sem + At(rx_thread, "done") = IF app_thread \in Closing THEN 1 ELSE 0

\* The poll thread is told to end after the last command, and takes that last.
KilledLast ==
  /\ kill_all \/ dwEvent \in Killing => app_thread \in Closing \ {"close"}
  /\ dwEvent \in Killing => CountOf(tx_queue.log, "command") = 0

\* A command in tx_queue or about to be put there is the one the application
\* queues or waits for, until it has ceased to wait for each.
Underway == IF app_thread \in PushPcs \cup {"waiting"} THEN 1 ELSE 0

CommandBound ==
  \/ unwaited_tx
  \/ CountOf(tx_queue.log, "command") + At(app_thread, "space") + At(app_thread, "store")
       <= Underway

\* What is in tx_queue, as in the pipe.
TxCounts ==
  /\ CountOf(tx_queue.log, "ENTITY")
       + (IF poll_thread = "signal" THEN 0 ELSE PendingEntity) <= entity_reads
  /\ entity_reads <= 1 =>
       CountOf(tx_queue.log, "read")
         <= read_inflight
            + (IF poll_thread = "signal" /\ Head(to_queue) = "read" THEN 1 ELSE 0)
  /\ CommandBound

MsvcInv ==
  /\ ReadsInv /\ MsvcTypeOK /\ RxInv /\ TxInv
  /\ MsvcPhases /\ KilledLast /\ TxCounts
-----------------------------------------------------------------------------
(***************************************************************************)
(* system_message_queue                                                    *)
(***************************************************************************)
LEMMA QueueFields ==
  ASSUME NEW N \in Nat \ {0}, NEW T, NEW u, NEW q \in QueueOf(N, T, u)
  PROVE  /\ q.buf \in [0 .. N - 1 -> T \cup {u}]
         /\ q.in_pos \in 0 .. N - 1 /\ q.out_pos \in 0 .. N - 1
         /\ q.space_avail \in 0 .. N /\ q.data_avail \in 0 .. N
         /\ q.log \in Seq(T) /\ Len(q.log) \in Nat
         /\ EntryCount(q) = N
<1>1. /\ q.buf \in [0 .. N - 1 -> T \cup {u}]
      /\ q.in_pos \in 0 .. N - 1 /\ q.out_pos \in 0 .. N - 1
      /\ q.space_avail \in 0 .. N /\ q.data_avail \in 0 .. N
      /\ q.log \in Seq(T)
  BY DEF QueueOf
<1>2. DOMAIN q.buf = 0 .. N - 1
  BY <1>1
<1>3. 0 \in Int /\ N - 1 \in Int /\ ~(0 > N - 1) /\ N - 1 - 0 + 1 = N
  OBVIOUS
<1>4. Cardinality(0 .. N - 1) = N
  BY <1>3, FS_Interval
<1> QED
  BY <1>1, <1>2, <1>4 DEF EntryCount

\* queue_push takes a free entry, or waits.
LEMMA SpaceStep ==
  ASSUME NEW N \in Nat \ {0}, NEW T, NEW u, NEW q \in QueueOf(N, T, u),
         NEW storing \in Nat, NEW signalling \in Nat, NEW taken \in Nat,
         QueueInv(q, N, storing, signalling, taken),
         q.space_avail > 0, NEW r, r = [q EXCEPT !.space_avail = @ - 1]
  PROVE  /\ r \in QueueOf(N, T, u) /\ r.log = q.log
         /\ QueueInv(r, N, storing + 1, signalling, taken)
<1>1. q.space_avail \in 0 .. N /\ Len(q.log) \in Nat
  BY QueueFields
<1>2. q.space_avail - 1 \in 0 .. N
  BY <1>1
<1>3. /\ r.buf = q.buf /\ r.in_pos = q.in_pos /\ r.out_pos = q.out_pos
      /\ r.space_avail = q.space_avail - 1 /\ r.data_avail = q.data_avail
      /\ r.log = q.log
  BY DEF QueueOf
<1>4. r \in QueueOf(N, T, u)
  BY <1>2 DEF QueueOf
<1>5. (q.space_avail - 1) + Len(q.log) + (storing + 1) = N
  <2>1. q.space_avail + Len(q.log) + storing = N
    BY DEF QueueInv
  <2> QED
    BY SMTT(30), <1>1, <2>1
<1> QED
  BY <1>3, <1>4, <1>5 DEF QueueInv

\* What push leaves behind its critical section.
Stored(q, x) == [q EXCEPT !.buf[q.in_pos] = x, !.log = Append(@, x),
                          !.in_pos = (@ + 1) % EntryCount(q)]

\* It fills the entry at in_pos, which is none of those still to be read.
LEMMA StoreStep ==
  ASSUME NEW N \in Nat \ {0}, NEW T, NEW u, NEW q \in QueueOf(N, T, u),
         NEW storing \in Nat, NEW signalling \in Nat, NEW taken \in Nat,
         QueueInv(q, N, storing, signalling, taken), storing > 0,
         NEW x \in T, NEW r, r = Stored(q, x)
  PROVE  /\ r \in QueueOf(N, T, u) /\ r.log = Append(q.log, x)
         /\ QueueInv(r, N, storing - 1, signalling + 1, taken)
<1> DEFINE n == Len(q.log)
           o == q.out_pos
           i == q.in_pos
<1>1. /\ q.buf \in [0 .. N - 1 -> T \cup {u}]
      /\ i \in 0 .. N - 1 /\ o \in 0 .. N - 1
      /\ q.space_avail \in 0 .. N /\ q.data_avail \in 0 .. N
      /\ q.log \in Seq(T) /\ n \in Nat /\ EntryCount(q) = N
  BY QueueFields
<1>2. i = (o + n) % N
  BY DEF QueueInv
<1>20. \A k \in 1 .. n : q.buf[(o + k - 1) % N] = q.log[k]
  BY DEF QueueInv
<1>21. /\ q.space_avail + n + storing = N
      /\ q.data_avail + signalling + taken = n
  BY DEF QueueInv
<1>22. q.space_avail \in Nat /\ q.data_avail \in Nat /\ n \in Nat /\ o \in Nat
  BY <1>1
<1>3. /\ r.buf = [q.buf EXCEPT ![i] = x] /\ r.in_pos = (i + 1) % N
      /\ r.out_pos = o /\ r.log = Append(q.log, x)
      /\ r.space_avail = q.space_avail /\ r.data_avail = q.data_avail
  BY <1>1 DEF QueueOf, Stored
<1>4. r.log \in Seq(T) /\ Len(r.log) = n + 1 /\ r.log[n + 1] = x
      /\ \A k \in 1 .. n : r.log[k] = q.log[k]
  BY <1>1, <1>3
<1> HIDE DEF n, o, i
<1>5. n < N
  BY <1>21, <1>22
<1>6. r.in_pos = (o + (n + 1)) % N /\ r.in_pos \in 0 .. N - 1
  <2>1. o + n \in Nat /\ o + (n + 1) = (o + n) + 1 /\ i + 1 \in Nat
    BY <1>1
  <2>2. (i + 1) % N = ((o + n) + 1) % N
    BY <1>2, <2>1, ModSucc
  <2> QED
    BY <1>3, <2>1, <2>2, DivMod
<1>7. r \in QueueOf(N, T, u)
  <2>1. [q.buf EXCEPT ![i] = x] \in [0 .. N - 1 -> T \cup {u}]
    BY <1>1
  <2>2. r = [buf |-> r.buf, in_pos |-> r.in_pos, out_pos |-> r.out_pos,
             space_avail |-> r.space_avail, data_avail |-> r.data_avail, log |-> r.log]
    BY DEF QueueOf, Stored
  <2> QED
    BY <1>1, <1>3, <1>4, <1>6, <2>1, <2>2 DEF QueueOf
<1>8. \A k \in 1 .. n + 1 : r.buf[(o + k - 1) % N] = r.log[k]
  <2>1. ASSUME NEW k \in 1 .. n
        PROVE  r.buf[(o + k - 1) % N] = r.log[k]
    <3>1. o + n \in Nat /\ o + k - 1 \in Nat /\ o + n >= o + k - 1
          /\ (o + n) - (o + k - 1) < N /\ o + n # o + k - 1
      BY <1>22, <1>5
    <3>2. (o + k - 1) % N # (o + n) % N
      BY <3>1, ModUnique
    <3>3. PICK j \in 0 .. N - 1 : j = (o + k - 1) % N
      BY <3>1, DivMod
    <3>4. q.buf[j] = q.log[k] /\ j # i
      BY <1>2, <1>20, <3>2, <3>3
    <3>5. r.buf[j] = q.buf[j]
      BY <1>1, <1>3, <3>4
    <3> QED
      BY <1>4, <3>3, <3>4, <3>5
  <2>2. r.buf[(o + (n + 1) - 1) % N] = r.log[n + 1]
    <3>1. o + (n + 1) - 1 = o + n
      BY <1>22
    <3>2. r.buf[i] = x
      BY <1>1, <1>3
    <3> QED
      BY <1>2, <1>4, <3>1, <3>2
  <2>3. \A k \in 1 .. n + 1 : k \in 1 .. n \/ k = n + 1
    BY <1>22
  <2> QED
    BY <2>1, <2>2, <2>3
<1>9. /\ r.space_avail + (n + 1) + (storing - 1) = N
      /\ r.data_avail + (signalling + 1) + taken = n + 1
  <2>1. r.space_avail = q.space_avail /\ r.data_avail = q.data_avail
    BY <1>3
  <2>2. q.space_avail + (n + 1) + (storing - 1) = N
    BY <1>21, <1>22
  <2>3. q.data_avail + (signalling + 1) + taken = n + 1
    BY <1>21, <1>22
  <2> QED
    BY <2>1, <2>2, <2>3
<1> QED
  BY <1>3, <1>4, <1>6, <1>7, <1>8, <1>9 DEF QueueInv

\* It posts the data semaphore.
LEMMA SignalStep ==
  ASSUME NEW N \in Nat \ {0}, NEW T, NEW u, NEW q \in QueueOf(N, T, u),
         NEW storing \in Nat, NEW signalling \in Nat, NEW taken \in Nat,
         QueueInv(q, N, storing, signalling, taken), signalling > 0,
         NEW r, r = signal(q)
  PROVE  /\ r \in QueueOf(N, T, u) /\ r.log = q.log
         /\ QueueInv(r, N, storing, signalling - 1, taken)
<1>1. q.space_avail \in 0 .. N /\ Len(q.log) \in Nat /\ q.data_avail \in 0 .. N
  BY QueueFields
<1>2. q.data_avail + 1 \in 0 .. N
  BY SMTT(30), <1>1 DEF QueueInv
<1>3. /\ r.buf = q.buf /\ r.in_pos = q.in_pos /\ r.out_pos = q.out_pos
      /\ r.space_avail = q.space_avail /\ r.data_avail = q.data_avail + 1
      /\ r.log = q.log
  BY DEF QueueOf, signal
<1>4. r \in QueueOf(N, T, u)
  BY <1>2 DEF QueueOf, signal
<1> QED
  BY <1>1, <1>3, <1>4 DEF QueueInv

\* WaitForMultipleObjects takes the data semaphore.
LEMMA TakeStep ==
  ASSUME NEW N \in Nat \ {0}, NEW T, NEW u, NEW q \in QueueOf(N, T, u),
         NEW storing \in Nat, NEW signalling \in Nat,
         QueueInv(q, N, storing, signalling, 0), q.data_avail > 0,
         NEW r, r = [q EXCEPT !.data_avail = @ - 1]
  PROVE  /\ r \in QueueOf(N, T, u) /\ r.log = q.log
         /\ QueueInv(r, N, storing, signalling, 1)
<1>1. q.space_avail \in 0 .. N /\ Len(q.log) \in Nat /\ q.data_avail \in 0 .. N
  BY QueueFields
<1>2. q.data_avail - 1 \in 0 .. N
  BY <1>1
<1>3. /\ r.buf = q.buf /\ r.in_pos = q.in_pos /\ r.out_pos = q.out_pos
      /\ r.space_avail = q.space_avail /\ r.data_avail = q.data_avail - 1
      /\ r.log = q.log
  BY DEF QueueOf
<1>4. r \in QueueOf(N, T, u)
  BY <1>2 DEF QueueOf
<1> QED
  BY <1>1, <1>3, <1>4 DEF QueueInv

\* queue_pop_nowait takes the oldest entry, which is there.
LEMMA PopStep ==
  ASSUME NEW N \in Nat \ {0}, NEW T, NEW u, NEW q \in QueueOf(N, T, u),
         NEW storing \in Nat, NEW signalling \in Nat,
         QueueInv(q, N, storing, signalling, 1),
         NEW r, r = queue_pop_nowait(q)
  PROVE  /\ r \in QueueOf(N, T, u) /\ q.log # <<>> /\ r.log = Tail(q.log)
         /\ QueueInv(r, N, storing, signalling, 0)
<1> DEFINE n == Len(q.log)
           o == q.out_pos
<1>1. /\ q.buf \in [0 .. N - 1 -> T \cup {u}]
      /\ q.in_pos \in 0 .. N - 1 /\ o \in 0 .. N - 1
      /\ q.space_avail \in 0 .. N /\ q.data_avail \in 0 .. N
      /\ q.log \in Seq(T) /\ n \in Nat /\ EntryCount(q) = N
  BY QueueFields
<1>2. q.in_pos = (o + n) % N
  BY DEF QueueInv
<1>20. \A k \in 1 .. n : q.buf[(o + k - 1) % N] = q.log[k]
  BY DEF QueueInv
<1>21. /\ q.space_avail + n + storing = N
      /\ q.data_avail + signalling + 1 = n
  BY DEF QueueInv
<1>22. q.space_avail \in Nat /\ q.data_avail \in Nat /\ n \in Nat /\ o \in Nat
  BY <1>1
<1>3. n > 0 /\ q.log # <<>>
  <2>1. n > 0
    BY <1>21, <1>22
  <2> QED
    BY <1>1, <2>1
<1>4. /\ r.buf = q.buf /\ r.in_pos = q.in_pos /\ r.out_pos = (o + 1) % N
      /\ r.space_avail = q.space_avail + 1 /\ r.data_avail = q.data_avail
      /\ r.log = Tail(q.log)
  BY <1>1 DEF QueueOf, queue_pop_nowait
<1>5. /\ r.log \in Seq(T) /\ Len(r.log) = n - 1
      /\ \A k \in 1 .. n - 1 : r.log[k] = q.log[k + 1]
  BY <1>1, <1>3, <1>4
<1>6. o + 1 \in Nat /\ r.out_pos \in 0 .. N - 1
  <2>1. o + 1 \in Nat
    BY <1>22
  <2>2. (o + 1) % N \in 0 .. N - 1
    BY <2>1, DivMod
  <2> QED
    BY <1>4, <2>1, <2>2
<1>7. r \in QueueOf(N, T, u)
  <2>1. r = [buf |-> r.buf, in_pos |-> r.in_pos, out_pos |-> r.out_pos,
             space_avail |-> r.space_avail, data_avail |-> r.data_avail, log |-> r.log]
    BY DEF QueueOf, queue_pop_nowait
  <2>2. q.space_avail + 1 \in 0 .. N
    BY SMTT(30), <1>21, <1>22, <1>3
  <2> QED
    BY <1>1, <1>4, <1>5, <1>6, <2>1, <2>2 DEF QueueOf
<1> HIDE DEF n, o
<1>8. r.in_pos = (r.out_pos + (n - 1)) % N
  <2>1. n - 1 \in Nat /\ (o + 1) + (n - 1) = o + n
    BY <1>22, <1>3
  <2>2. (((o + 1) % N) + (n - 1)) % N = ((o + 1) + (n - 1)) % N
    BY <1>6, <2>1, ModAdd
  <2> QED
    BY <1>2, <1>4, <2>1, <2>2
<1>9. \A k \in 1 .. n - 1 : r.buf[(r.out_pos + k - 1) % N] = r.log[k]
  <2> TAKE k \in 1 .. n - 1
  <2>1. /\ k - 1 \in Nat /\ k + 1 \in 1 .. n /\ (o + 1) + (k - 1) = o + (k + 1) - 1
        /\ r.out_pos + k - 1 = r.out_pos + (k - 1)
    BY <1>22, <1>6
  <2>2. (((o + 1) % N) + (k - 1)) % N = ((o + 1) + (k - 1)) % N
    BY <1>6, <2>1, ModAdd
  <2>3. (r.out_pos + k - 1) % N = (o + (k + 1) - 1) % N
    BY <1>4, <2>1, <2>2
  <2>4. q.buf[(o + (k + 1) - 1) % N] = q.log[k + 1]
    BY <1>20, <2>1
  <2> QED
    BY <1>4, <1>5, <2>3, <2>4
<1>10. /\ r.space_avail + (n - 1) + storing = N
       /\ r.data_avail + signalling + 0 = n - 1
  BY <1>21, <1>22, <1>4
<1> QED
  BY <1>3, <1>4, <1>5, <1>7, <1>8, <1>9, <1>10 DEF QueueInv

\* queue_push, up to the critical section in which the entry is filled.
LEMMA PushStep ==
  ASSUME NEW N \in Nat \ {0}, NEW T, NEW u, NEW q \in QueueOf(N, T, u),
         NEW storing \in Nat, NEW signalling \in Nat, NEW taken \in Nat,
         QueueInv(q, N, storing, signalling, taken),
         NEW x \in T, NEW r, NEW pc, NEW pcNext, push(q, r, pc, pcNext, x),
         pc = "store" => storing > 0
  PROVE  /\ r \in QueueOf(N, T, u)
         /\ \/ /\ pc = "space" /\ pcNext = "store" /\ r.log = q.log
               /\ QueueInv(r, N, storing + 1, signalling, taken)
            \/ /\ pc = "store" /\ pcNext = "signal" /\ r.log = Append(q.log, x)
               /\ QueueInv(r, N, storing - 1, signalling + 1, taken)
<1>1. CASE /\ pc = "space" /\ pcNext = "store" /\ q.space_avail > 0
           /\ r = [q EXCEPT !.space_avail = @ - 1]
  BY <1>1, SpaceStep
<1>2. CASE pc = "store" /\ pcNext = "signal" /\ r = Stored(q, x)
  <2>1. storing > 0
    BY <1>2
  <2>2. /\ r \in QueueOf(N, T, u) /\ r.log = Append(q.log, x)
        /\ QueueInv(r, N, storing - 1, signalling + 1, taken)
    BY <1>2, <2>1, StoreStep
  <2> QED
    BY <1>2, <2>2
<1> QED
  BY <1>1, <1>2 DEF push, Stored
-----------------------------------------------------------------------------
(***************************************************************************)
(* The capture thread                                                      *)
(***************************************************************************)
LEMMA SignalledDomain == DOMAIN Signalled = Signals
BY DEF Signalled, Signals

\* The types of everything but the reads and the queues.
MsvcScalars ==
  /\ rx_timeout \in BOOLEAN
  /\ kill_all \in BOOLEAN
  /\ rx_kill_sem \in 0 .. 1
  /\ captured \in 0 .. MaxFrames
  /\ rx_thread \in PushPcs \cup {"loop", "done"}
  /\ poll_thread \in PushPcs \cup {"wait", "event", "tick", "done"}
  /\ app_thread \in PushPcs \cup {"run", "waiting"} \cup Closing
  /\ dwEvent \in Signals \cup {"next", "exit"}
  /\ pushes \in 0 .. MaxPushes
  /\ unwaited_tx \in BOOLEAN

RxOK == rx_queue \in QueueOf(RxCount, Frames, 0) /\ RxInv
TxOK == tx_queue \in QueueOf(TxCount, TxKinds, "none") /\ TxInv

LEMMA MsvcParts ==
  MsvcInv <=> /\ ReadsInv /\ MsvcScalars /\ RxOK /\ TxOK
              /\ MsvcPhases /\ KilledLast /\ TxCounts
BY SignalledDomain DEF MsvcInv, MsvcTypeOK, MsvcScalars, RxOK, TxOK, ReadsInv, Closing

LEMMA MsvcAssembled ==
  /\ ReadsInv' /\ MsvcScalars' /\ RxOK' /\ TxOK'
  /\ MsvcPhases' /\ KilledLast' /\ TxCounts'
  => MsvcInv'
BY MsvcParts, PTL

LEMMA MsvcCounts ==
  /\ RxCount \in Nat \ {0} /\ TxCount \in Nat \ {0}
  /\ MaxFrames \in Nat /\ MaxPushes \in Nat
BY MsvcAssumption

\* A step of which the transmit queue, the reads and their threads see nothing.
LEMMA TxUnchanged ==
  ASSUME MsvcInv,
         UNCHANGED <<tx_queue, poll_thread, app_thread, dwEvent, kill_all, pushes,
                     unwaited_tx, readVars>>
  PROVE  ReadsInv' /\ TxOK' /\ KilledLast' /\ TxCounts'
BY MsvcParts DEF TxOK, TxInv, Taken, At, KilledLast, TxCounts, CommandBound, Underway,
   ReadsInv, ReadsTypeOK, readVars, Pending, PendingEntity

LEMMA RxLoopInv ==
  ASSUME MsvcInv, RxLoop
  PROVE  MsvcInv'
<1>1. UNCHANGED <<rx_queue, tx_queue, poll_thread, app_thread, dwEvent, kill_all, pushes,
                  unwaited_tx, readVars>>
  BY DEF RxLoop
<1>2. ReadsInv' /\ TxOK' /\ KilledLast' /\ TxCounts'
  BY <1>1, TxUnchanged
<1>3. rx_thread = "loop" /\ rx_thread' \in {"loop", "done", "space"}
  BY DEF RxLoop
<1>4. RxOK'
  BY <1>1, <1>3, MsvcParts DEF RxOK, RxInv, At, Taken
<1>5. MsvcScalars'
  <2>0. MsvcScalars
    BY MsvcParts
  <2>1. captured' \in 0 .. MaxFrames /\ rx_kill_sem' \in 0 .. 1
    BY <2>0, MsvcCounts DEF MsvcScalars, RxLoop
  <2>2. rx_timeout' \in BOOLEAN
    BY <2>0 DEF MsvcScalars, RxLoop
  <2> QED
    BY <1>1, <1>3, <2>0, <2>1, <2>2 DEF MsvcScalars, PushPcs
<1>6. MsvcPhases'
  BY <1>1, MsvcParts, MsvcCounts DEF MsvcPhases, MsvcScalars, RxLoop, PushPcs, At, readVars
<1> QED
  BY <1>2, <1>4, <1>5, <1>6, MsvcAssembled

LEMMA RxPushInv ==
  ASSUME MsvcInv, RxPush
  PROVE  MsvcInv'
<1>1. UNCHANGED <<tx_queue, rx_timeout, kill_all, rx_kill_sem, captured, poll_thread,
                  app_thread, dwEvent, pushes, unwaited_tx, readVars>>
  BY DEF RxPush
<1>2. ReadsInv' /\ TxOK' /\ KilledLast' /\ TxCounts'
  BY <1>1, TxUnchanged
<1>3. \/ rx_thread = "space" /\ rx_thread' = "store"
      \/ rx_thread = "store" /\ rx_thread' = "signal"
      \/ rx_thread = "signal" /\ rx_thread' = "loop"
  BY DEF RxPush, push
<1>4. RxOK'
  <2>1. PICK st \in Nat, sg \in Nat, tk \in Nat :
          /\ st = At(rx_thread, "store") /\ sg = At(rx_thread, "signal")
          /\ tk = Taken("WPCAP_RX_PACKET")
    BY DEF At, Taken
  <2>2. rx_queue \in QueueOf(RxCount, Frames, 0) /\ QueueInv(rx_queue, RxCount, st, sg, tk)
    BY <2>1, MsvcParts DEF RxOK, RxInv
  <2>3. RxCount \in Nat \ {0} /\ captured \in Frames
    BY <1>3, MsvcParts, MsvcCounts DEF MsvcPhases, MsvcScalars, PushPcs, Frames
  <2>4. Taken("WPCAP_RX_PACKET")' = tk
    BY <1>1, <2>1 DEF Taken
  <2>5. CASE push(rx_queue, rx_queue', rx_thread, rx_thread', captured)
    <3>1. rx_thread = "store" => st > 0
      BY <2>1 DEF At
    <3>2. /\ rx_queue' \in QueueOf(RxCount, Frames, 0)
          /\ \/ /\ rx_thread = "space" /\ rx_thread' = "store"
                /\ QueueInv(rx_queue', RxCount, st + 1, sg, tk)
             \/ /\ rx_thread = "store" /\ rx_thread' = "signal"
                /\ QueueInv(rx_queue', RxCount, st - 1, sg + 1, tk)
      BY <2>2, <2>3, <2>5, <3>1, PushStep
    <3>3. CASE rx_thread = "space" /\ rx_thread' = "store"
      <4>1. st + 1 = At(rx_thread', "store") /\ sg = At(rx_thread', "signal")
        BY <2>1, <3>3 DEF At
      <4> QED
        BY <2>4, <3>2, <3>3, <4>1 DEF RxOK, RxInv
    <3>4. CASE rx_thread = "store" /\ rx_thread' = "signal"
      <4>1. st - 1 = At(rx_thread', "store") /\ sg + 1 = At(rx_thread', "signal")
        BY <2>1, <3>4 DEF At
      <4> QED
        BY <2>4, <3>2, <3>4, <4>1 DEF RxOK, RxInv
    <3> QED
      BY <3>2, <3>3, <3>4
  <2>6. CASE rx_thread = "signal" /\ rx_queue' = signal(rx_queue) /\ rx_thread' = "loop"
    <3>1. sg > 0
      BY <2>1, <2>6 DEF At
    <3>2. /\ rx_queue' \in QueueOf(RxCount, Frames, 0)
          /\ QueueInv(rx_queue', RxCount, st, sg - 1, tk)
      BY <2>2, <2>3, <2>6, <3>1, SignalStep
    <3>3. st = At(rx_thread', "store") /\ sg - 1 = At(rx_thread', "signal")
      BY <2>1, <2>6 DEF At
    <3> QED
      BY <2>4, <3>2, <3>3 DEF RxOK, RxInv
  <2> QED
    BY <2>5, <2>6 DEF RxPush
<1>5. MsvcScalars'
  BY <1>1, <1>3, MsvcParts DEF MsvcScalars, PushPcs
<1>6. MsvcPhases'
  BY <1>1, <1>3, MsvcParts DEF MsvcPhases, MsvcScalars, PushPcs, At, readVars
<1> QED
  BY <1>2, <1>4, <1>5, <1>6, MsvcAssembled
-----------------------------------------------------------------------------
(***************************************************************************)
(* The poll thread                                                         *)
(***************************************************************************)
\* Of the objects signalled the first is taken: KILL_ALL when nothing else is.
LEMMA WaitEffect ==
  ASSUME WaitForMultipleObjects
  PROVE  \/ /\ dwEvent' = "WPCAP_TIMEOUT" /\ rx_timeout' = FALSE
            /\ kill_all' = (kill_all /\ TRUE) /\ UNCHANGED <<rx_queue, tx_queue>>
         \/ /\ dwEvent' = "WPCAP_RX_PACKET" /\ rx_queue.data_avail > 0
            /\ rx_queue' = [rx_queue EXCEPT !.data_avail = @ - 1]
            /\ rx_timeout' = (rx_timeout /\ TRUE) /\ kill_all' = (kill_all /\ TRUE)
            /\ UNCHANGED tx_queue
         \/ /\ dwEvent' = "WPCAP_TX_PACKET" /\ tx_queue.data_avail > 0
            /\ tx_queue' = [tx_queue EXCEPT !.data_avail = @ - 1]
            /\ rx_timeout' = (rx_timeout /\ TRUE) /\ kill_all' = (kill_all /\ TRUE)
            /\ UNCHANGED rx_queue
         \/ /\ dwEvent' = "KILL_ALL" /\ kill_all /\ ~(tx_queue.data_avail > 0)
            /\ rx_timeout' = (rx_timeout /\ TRUE) /\ kill_all' = FALSE
            /\ UNCHANGED <<rx_queue, tx_queue>>
<1> DEFINE ready == {k \in DOMAIN wpcap_events : Signalled[wpcap_events[k]]}
           first == Min(ready)
           event == wpcap_events[first]
<1>1. /\ DOMAIN wpcap_events = 1 .. 4
      /\ wpcap_events[1] = "WPCAP_TIMEOUT" /\ wpcap_events[2] = "WPCAP_RX_PACKET"
      /\ wpcap_events[3] = "WPCAP_TX_PACKET" /\ wpcap_events[4] = "KILL_ALL"
  BY DEF wpcap_events
<1>2. /\ Signalled["WPCAP_RX_PACKET"] <=> rx_queue.data_avail > 0
      /\ Signalled["WPCAP_TX_PACKET"] <=> tx_queue.data_avail > 0
      /\ Signalled["KILL_ALL"] <=> kill_all
  BY DEF Signalled
<1>3. ready # {} /\ ready \subseteq 1 .. 4
  BY <1>1 DEF WaitForMultipleObjects
<1>4. first \in ready /\ \A k \in ready : first <= k
  <2>1. \E x \in ready : \A y \in ready : x =< y
    <3> HIDE DEF ready
    <3>1. \A y \in ready : y = 1 \/ y = 2 \/ y = 3 \/ y = 4
      BY <1>3
    <3>2. 1 \in ready \/ 2 \in ready \/ 3 \in ready \/ 4 \in ready
      BY <1>3, <3>1
    <3> QED
      BY <3>1, <3>2
  <2> HIDE DEF ready
  <2> QED
    BY <2>1 DEF Min
<1>5. first \in {1, 2, 3, 4} /\ Signalled[event] /\ (first = 4 => 3 \notin ready)
  BY <1>1, <1>4
<1>6. /\ dwEvent' = event
      /\ rx_timeout' = (rx_timeout /\ event # "WPCAP_TIMEOUT")
      /\ kill_all' = (kill_all /\ event # "KILL_ALL")
      /\ rx_queue' = IF event = "WPCAP_RX_PACKET"
                     THEN [rx_queue EXCEPT !.data_avail = @ - 1] ELSE rx_queue
      /\ tx_queue' = IF event = "WPCAP_TX_PACKET"
                     THEN [tx_queue EXCEPT !.data_avail = @ - 1] ELSE tx_queue
  BY DEF WaitForMultipleObjects
<1>7. 3 \notin ready => ~(tx_queue.data_avail > 0)
  BY <1>1, <1>2
<1> HIDE DEF ready, first
<1>8. CASE first = 1
  BY <1>1, <1>6, <1>8
<1>9. CASE first = 2
  BY <1>1, <1>2, <1>5, <1>6, <1>9
<1>10. CASE first = 3
  BY <1>1, <1>2, <1>5, <1>6, <1>10
<1>11. CASE first = 4
  BY <1>1, <1>2, <1>5, <1>6, <1>7, <1>11
<1> QED
  BY <1>5, <1>8, <1>9, <1>10, <1>11

LEMMA WaitInv ==
  ASSUME MsvcInv, WaitForMultipleObjects
  PROVE  MsvcInv'
<1>1. /\ poll_thread = "wait" /\ poll_thread' = "event"
      /\ UNCHANGED <<rx_kill_sem, captured, rx_thread, app_thread, pushes, unwaited_tx,
                     readVars>>
  BY DEF WaitForMultipleObjects
<1>2. /\ ReadsInv /\ MsvcScalars /\ RxOK /\ TxOK /\ MsvcPhases /\ KilledLast /\ TxCounts
  BY MsvcParts
<1>3. ReadsInv'
  BY <1>1, <1>2 DEF ReadsInv, ReadsTypeOK, readVars, Pending
<1>4. dwEvent' \in Signals /\ rx_timeout' \in BOOLEAN /\ kill_all' \in BOOLEAN
      /\ (kill_all' => kill_all)
  BY <1>2, WaitEffect DEF Signals, MsvcScalars
<1>5. MsvcScalars'
  BY <1>1, <1>2, <1>4 DEF MsvcScalars
<1>6. MsvcPhases'
  BY <1>1, <1>2, <1>4 DEF MsvcPhases, PushPcs, At, readVars
<1>7. PICK st \in Nat, sg \in Nat :
        st = At(rx_thread, "store") /\ sg = At(rx_thread, "signal")
  BY DEF At
<1>8. QueueInv(rx_queue, RxCount, st, sg, 0)
  BY <1>1, <1>2, <1>7 DEF RxOK, RxInv, Taken
<1>9. RxOK'
  <2>1. CASE dwEvent' = "WPCAP_RX_PACKET"
    <3>1. /\ rx_queue.data_avail > 0
          /\ rx_queue' = [rx_queue EXCEPT !.data_avail = @ - 1]
      BY <2>1, WaitEffect
    <3>2. /\ rx_queue' \in QueueOf(RxCount, Frames, 0)
          /\ QueueInv(rx_queue', RxCount, st, sg, 1)
      BY <1>2, <1>8, <3>1, MsvcCounts, TakeStep DEF RxOK
    <3> QED
      BY <1>1, <1>7, <2>1, <3>2 DEF RxOK, RxInv, Taken, At
  <2>2. CASE dwEvent' # "WPCAP_RX_PACKET"
    <3>1. UNCHANGED rx_queue
      BY <2>2, WaitEffect
    <3> QED
      BY <1>1, <1>2, <1>7, <1>8, <2>2, <3>1 DEF RxOK, RxInv, Taken, At
  <2> QED
    BY <2>1, <2>2
<1> DEFINE ts == At(poll_thread, "store") + At(app_thread, "store")
           tg == At(poll_thread, "signal") + At(app_thread, "signal")
<1>10. /\ ts \in Nat /\ tg \in Nat
       /\ ts = At(poll_thread', "store") + At(app_thread', "store")
       /\ tg = At(poll_thread', "signal") + At(app_thread', "signal")
       /\ app_thread \in Closing => tg = 0
  <2>1. /\ At(poll_thread, "store") = 0 /\ At(poll_thread, "signal") = 0
        /\ At(poll_thread', "store") = 0 /\ At(poll_thread', "signal") = 0
    BY <1>1 DEF At
  <2>2. /\ At(app_thread, "store") \in Nat /\ At(app_thread, "signal") \in Nat
        /\ app_thread \in Closing => At(app_thread, "signal") = 0
    BY DEF At, Closing
  <2> QED
    BY <1>1, <2>1, <2>2
<1>11. QueueInv(tx_queue, TxCount, ts, tg, 0)
  BY <1>1, <1>2 DEF TxOK, TxInv, Taken
<1> HIDE DEF ts, tg
<1>12. TxOK' /\ tx_queue'.log = tx_queue.log
  <2>1. CASE dwEvent' = "WPCAP_TX_PACKET"
    <3>1. /\ tx_queue.data_avail > 0
          /\ tx_queue' = [tx_queue EXCEPT !.data_avail = @ - 1]
      BY <2>1, WaitEffect
    <3>2. /\ tx_queue' \in QueueOf(TxCount, TxKinds, "none")
          /\ tx_queue'.log = tx_queue.log
          /\ QueueInv(tx_queue', TxCount, ts, tg, 1)
      BY <1>2, <1>10, <1>11, <3>1, MsvcCounts, TakeStep DEF TxOK
    <3>3. Taken("WPCAP_TX_PACKET")' = 1
      BY <1>1, <2>1 DEF Taken
    <3> QED
      BY <1>10, <3>2, <3>3 DEF TxOK, TxInv
  <2>2. CASE dwEvent' # "WPCAP_TX_PACKET"
    <3>1. UNCHANGED tx_queue
      BY <2>2, WaitEffect
    <3>2. Taken("WPCAP_TX_PACKET")' = 0
      BY <1>1, <2>2 DEF Taken
    <3> QED
      BY <1>2, <1>10, <1>11, <3>1, <3>2 DEF TxOK, TxInv
  <2> QED
    BY <2>1, <2>2
<1>13. KilledLast'
  <2>1. CASE dwEvent' \in Killing
    <3>1. kill_all /\ ~(tx_queue.data_avail > 0)
      BY <2>1, WaitEffect DEF Killing
    <3>2. app_thread \in Closing \ {"close"} /\ tg = 0
      BY <1>2, <1>10, <3>1 DEF KilledLast
    <3>3. tx_queue.data_avail \in Nat /\ tx_queue.log \in Seq(TxKinds)
      BY <1>2, MsvcCounts, QueueFields DEF TxOK
    <3>4. tx_queue.data_avail + tg + 0 = Len(tx_queue.log)
      BY <1>11 DEF QueueInv
    <3>5. tx_queue.log = <<>>
      <4>1. Len(tx_queue.log) = 0
        BY <3>1, <3>2, <3>3, <3>4
      <4> QED
        BY <3>3, <4>1
    <3>6. CountOf(tx_queue'.log, "command") = 0
      BY <1>12, <3>5, CountNone
    <3> QED
      BY <1>1, <3>2, <3>6 DEF KilledLast
  <2>2. CASE dwEvent' \notin Killing
    BY <1>1, <1>2, <1>4, <2>2 DEF KilledLast
  <2> QED
    BY <2>1, <2>2
<1>14. TxCounts'
  BY <1>1, <1>2, <1>12 DEF TxCounts, CommandBound, Underway, readVars, PendingEntity
<1> QED
  BY <1>3, <1>5, <1>6, <1>9, <1>12, <1>13, <1>14, MsvcAssembled

\* Where the poll thread goes next.
LEMMA PollGoes ==
  ASSUME dwEvent' \in Signals \cup {"next", "exit"}, Queues(dwEvent')
  PROVE  /\ poll_thread' \in {"space", "tick", "wait", "done"}
         /\ poll_thread' = "space" <=> to_queue' # <<>>
         /\ poll_thread' = "tick" => dwEvent' \in Signals
         /\ poll_thread' = "wait" => dwEvent' = "next"
         /\ poll_thread' = "done" => dwEvent' = "exit"
BY DEF Queues, Then, Signals

\* A handler that decides on reads while the queue keeps or loses frames.
LEMMA DecidedCounts ==
  ASSUME MsvcInv, poll_thread \in {"event", "tick"}, Decided(QueuedTx),
         poll_thread' # "signal", UNCHANGED <<app_thread, unwaited_tx>>,
         \A f \in TxKinds : /\ CountOf(tx_queue'.log, f) \in Nat
                            /\ CountOf(tx_queue'.log, f) <= CountOf(tx_queue.log, f)
  PROVE  ReadsInv' /\ TxCounts'
<1> DEFINE e == CountOf(tx_queue.log, "ENTITY")
           r == CountOf(tx_queue.log, "read")
           c == CountOf(tx_queue.log, "command")
           eN == CountOf(tx_queue'.log, "ENTITY")
           rN == CountOf(tx_queue'.log, "read")
           cN == CountOf(tx_queue'.log, "command")
<1>1. ReadsInv /\ MsvcScalars /\ TxOK /\ MsvcPhases /\ TxCounts
  BY MsvcParts
<1>2. tx_queue.log \in Seq(TxKinds)
  BY <1>1, MsvcCounts, QueueFields DEF TxOK
<1>3. e \in Nat /\ r \in Nat /\ c \in Nat
  BY <1>2, CountType
<1>4. /\ eN \in Nat /\ rN \in Nat /\ cN \in Nat /\ eN <= e /\ rN <= r /\ cN <= c
  BY DEF TxKinds, ReadFrames
<1>5. to_queue = <<>> /\ poll_thread # "signal"
  BY <1>1 DEF MsvcPhases, PushPcs
<1>6. /\ ReadsInv' /\ entity_reads' = entity_reads + PendingEntity'
      /\ entity_reads' <= 1 /\ r <= read_inflight => r <= read_inflight'
  BY <1>1, <1>3, <1>5, ReadsDecided DEF QueuedTx
<1>7. PICK p \in {0, 1} : PendingEntity' = p
  BY DEF PendingEntity
<1>8. entity_reads \in Nat /\ PendingEntity = 0
  BY <1>1, <1>5 DEF ReadsInv, ReadsTypeOK, PendingEntity
<1>9. read_inflight \in Nat /\ read_inflight' \in Nat
  BY <1>1, <1>6 DEF ReadsInv, ReadsTypeOK
<1>10. e <= entity_reads /\ (entity_reads <= 1 => r <= read_inflight)
  <2>1. /\ e + PendingEntity <= entity_reads
        /\ entity_reads <= 1 => r <= read_inflight + 0
    BY <1>1, <1>5 DEF TxCounts
  <2> HIDE DEF e, r
  <2> QED
    BY <1>3, <1>8, <1>9, <2>1
<1>11. /\ At(app_thread, "space") \in Nat /\ At(app_thread, "store") \in Nat
       /\ unwaited_tx \/ c + At(app_thread, "space") + At(app_thread, "store") <= Underway
       /\ Underway \in Nat
  BY <1>1 DEF At, TxCounts, CommandBound, Underway
<1>12. entity_reads' = entity_reads + p
  BY <1>6, <1>7
<1> HIDE DEF e, r, c, eN, rN, cN
<1>13. eN + p <= entity_reads' /\ (entity_reads' <= 1 => rN <= read_inflight' + 0)
  <2>1. entity_reads' \in Nat /\ eN + p <= entity_reads'
        /\ (entity_reads' <= 1 => entity_reads <= 1)
    BY <1>3, <1>4, <1>8, <1>10, <1>12
  <2>2. entity_reads' <= 1 => r <= read_inflight'
    BY <1>6, <1>10, <2>1
  <2>3. ASSUME entity_reads' <= 1 PROVE rN <= read_inflight' + 0
    <3>1. r <= read_inflight'
      BY <2>2, <2>3
    <3>2. PICK i \in Nat : read_inflight' = i
      BY <1>9
    <3> QED
      BY <1>3, <1>4, <3>1, <3>2
  <2> QED
    BY <2>1, <2>3
<1>14. unwaited_tx \/ cN + At(app_thread, "space") + At(app_thread, "store") <= Underway
  BY <1>3, <1>4, <1>11
<1>140. CommandBound'
  BY <1>14 DEF CommandBound, Underway, cN
<1>15. TxCounts'
  BY <1>7, <1>13, <1>140 DEF TxCounts, eN, rN
<1> QED
  BY <1>6, <1>15

\* A frame is popped: the counts can only fall.
LEMMA CountsOfTail ==
  ASSUME NEW q \in Seq(TxKinds), q # <<>>
  PROVE  \A f \in TxKinds : /\ CountOf(Tail(q), f) \in Nat
                            /\ CountOf(Tail(q), f) <= CountOf(q, f)
<1>1. Tail(q) \in Seq(TxKinds)
  OBVIOUS
<1> QED
  BY <1>1, CountType, CountTail

LEMMA HandleInv ==
  ASSUME MsvcInv, HandleEvent
  PROVE  MsvcInv'
<1>1. /\ poll_thread = "event" /\ Queues(dwEvent')
      /\ UNCHANGED <<rx_timeout, kill_all, rx_kill_sem, captured, rx_thread, app_thread,
                     dwEvent, pushes, unwaited_tx>>
  BY DEF HandleEvent
<1>2. ReadsInv /\ MsvcScalars /\ RxOK /\ TxOK /\ MsvcPhases /\ KilledLast /\ TxCounts
  BY MsvcParts
<1>3. dwEvent' \in Signals /\ dwEvent' \in Signals \cup {"next", "exit"}
  BY <1>1, <1>2 DEF MsvcPhases
<1>4. /\ poll_thread' \in {"space", "tick", "wait", "done"}
      /\ poll_thread' = "space" <=> to_queue' # <<>>
      /\ poll_thread' = "tick" => dwEvent' \in Signals
      /\ poll_thread' = "wait" => dwEvent' = "next"
      /\ poll_thread' = "done" => dwEvent' = "exit"
  BY <1>1, <1>3, PollGoes
<1>5. /\ RxCount \in Nat \ {0} /\ TxCount \in Nat \ {0}
      /\ rx_queue \in QueueOf(RxCount, Frames, 0)
      /\ tx_queue \in QueueOf(TxCount, TxKinds, "none")
  BY <1>2, MsvcCounts DEF RxOK, TxOK
<1>6. tx_queue.log \in Seq(TxKinds)
  BY <1>5, QueueFields
<1> DEFINE st == At(rx_thread, "store")
           sg == At(rx_thread, "signal")
           ts == At(poll_thread, "store") + At(app_thread, "store")
           tg == At(poll_thread, "signal") + At(app_thread, "signal")
<1>7. st \in Nat /\ sg \in Nat /\ ts \in Nat /\ tg \in Nat
  BY DEF At
<1>8. /\ ts = At(poll_thread', "store") + At(app_thread', "store")
      /\ tg = At(poll_thread', "signal") + At(app_thread', "signal")
      /\ st = At(rx_thread', "store") /\ sg = At(rx_thread', "signal")
  <2>1. /\ At(poll_thread, "store") = 0 /\ At(poll_thread, "signal") = 0
        /\ At(poll_thread', "store") = 0 /\ At(poll_thread', "signal") = 0
    BY <1>1, <1>4 DEF At
  <2> QED
    BY <1>1, <2>1
<1>9. /\ Taken("WPCAP_RX_PACKET")' = 0 /\ Taken("WPCAP_TX_PACKET")' = 0
      /\ Taken("WPCAP_RX_PACKET") = (IF dwEvent = "WPCAP_RX_PACKET" THEN 1 ELSE 0)
      /\ Taken("WPCAP_TX_PACKET") = (IF dwEvent = "WPCAP_TX_PACKET" THEN 1 ELSE 0)
  BY <1>1, <1>4 DEF Taken
<1>10. /\ QueueInv(rx_queue, RxCount, st, sg, Taken("WPCAP_RX_PACKET"))
       /\ QueueInv(tx_queue, TxCount, ts, tg, Taken("WPCAP_TX_PACKET"))
  BY <1>2 DEF RxOK, RxInv, TxOK, TxInv
<1> HIDE DEF st, sg, ts, tg
<1>11. RxOK'
  <2>1. CASE dwEvent = "WPCAP_RX_PACKET"
    <3>1. rx_queue' = queue_pop_nowait(rx_queue)
      BY <2>1 DEF HandleEvent
    <3>2. QueueInv(rx_queue, RxCount, st, sg, 1)
      BY <1>9, <1>10, <2>1
    <3>3. /\ rx_queue' \in QueueOf(RxCount, Frames, 0)
          /\ QueueInv(rx_queue', RxCount, st, sg, 0)
      BY <1>5, <1>7, <3>1, <3>2, PopStep
    <3> QED
      BY <1>8, <1>9, <3>3 DEF RxOK, RxInv
  <2>2. CASE dwEvent # "WPCAP_RX_PACKET"
    <3>1. UNCHANGED rx_queue
      BY <2>2 DEF HandleEvent
    <3> QED
      BY <1>5, <1>8, <1>9, <1>10, <2>2, <3>1 DEF RxOK, RxInv
  <2> QED
    BY <2>1, <2>2
<1>12. /\ TxOK'
       /\ \A f \in TxKinds : /\ CountOf(tx_queue'.log, f) \in Nat
                             /\ CountOf(tx_queue.log, f) \in Nat
                             /\ CountOf(tx_queue'.log, f) <= CountOf(tx_queue.log, f)
  <2>1. \A f \in TxKinds : CountOf(tx_queue.log, f) \in Nat
    BY <1>6, CountType
  <2>2. CASE dwEvent = "WPCAP_TX_PACKET"
    <3>1. tx_queue' = queue_pop_nowait(tx_queue)
      BY <2>2 DEF HandleEvent
    <3>2. QueueInv(tx_queue, TxCount, ts, tg, 1)
      BY <1>9, <1>10, <2>2
    <3>3. /\ tx_queue' \in QueueOf(TxCount, TxKinds, "none")
          /\ tx_queue.log # <<>> /\ tx_queue'.log = Tail(tx_queue.log)
          /\ QueueInv(tx_queue', TxCount, ts, tg, 0)
      BY <1>5, <1>7, <3>1, <3>2, PopStep
    <3>4. \A f \in TxKinds : /\ CountOf(tx_queue'.log, f) \in Nat
                             /\ CountOf(tx_queue'.log, f) <= CountOf(tx_queue.log, f)
      BY <1>6, <3>3, CountsOfTail
    <3>5. TxOK'
      BY <1>8, <1>9, <3>3 DEF TxOK, TxInv
    <3> QED
      BY <2>1, <3>4, <3>5
  <2>3. CASE dwEvent # "WPCAP_TX_PACKET"
    <3>1. UNCHANGED tx_queue
      BY <2>3 DEF HandleEvent
    <3>2. TxOK'
      BY <1>5, <1>8, <1>9, <1>10, <2>3, <3>1 DEF TxOK, TxInv
    <3>3. \A f \in TxKinds : CountOf(tx_queue.log, f) <= CountOf(tx_queue.log, f)
      BY <2>1
    <3> QED
      BY <2>1, <3>1, <3>2, <3>3
  <2> QED
    BY <2>2, <2>3
<1>13. Decided(QueuedTx)
  BY DEF HandleEvent, Decided
<1>14. ReadsInv' /\ TxCounts'
  BY <1>1, <1>4, <1>12, <1>13, DecidedCounts
<1>15. MsvcScalars'
  BY <1>1, <1>2, <1>4 DEF MsvcScalars, PushPcs
<1>16. MsvcPhases'
  BY <1>1, <1>2, <1>4 DEF MsvcPhases, PushPcs, At
<1>17. KilledLast'
  <2>1. /\ CountOf(tx_queue'.log, "command") \in Nat /\ CountOf(tx_queue.log, "command") \in Nat
        /\ CountOf(tx_queue'.log, "command") <= CountOf(tx_queue.log, "command")
    BY <1>12 DEF TxKinds
  <2>2. CountOf(tx_queue.log, "command") = 0 => CountOf(tx_queue'.log, "command") = 0
    BY <2>1
  <2> QED
    BY <1>1, <1>2, <2>2 DEF KilledLast
<1> QED
  BY <1>11, <1>12, <1>14, <1>15, <1>16, <1>17, MsvcAssembled

LEMMA TickInv ==
  ASSUME MsvcInv, TickTimer
  PROVE  MsvcInv'
<1>1. /\ poll_thread = "tick" /\ Queues(dwEvent') /\ Decided(QueuedTx)
      /\ dwEvent' = IF dwEvent = "KILL_ALL" THEN "exit" ELSE "next"
      /\ UNCHANGED <<rx_queue, tx_queue, rx_timeout, kill_all, rx_kill_sem, captured,
                     rx_thread, app_thread, pushes, unwaited_tx>>
  BY DEF TickTimer, Decided
<1>2. ReadsInv /\ MsvcScalars /\ RxOK /\ TxOK /\ MsvcPhases /\ KilledLast /\ TxCounts
  BY MsvcParts
<1>3. dwEvent' \in Signals \cup {"next", "exit"}
  BY <1>1
<1>4. /\ poll_thread' \in {"space", "tick", "wait", "done"}
      /\ poll_thread' = "space" <=> to_queue' # <<>>
      /\ poll_thread' = "tick" => dwEvent' \in Signals
      /\ poll_thread' = "wait" => dwEvent' = "next"
      /\ poll_thread' = "done" => dwEvent' = "exit"
  BY <1>1, <1>3, PollGoes
<1>5. /\ At(poll_thread', "store") = At(poll_thread, "store")
      /\ At(poll_thread', "signal") = At(poll_thread, "signal")
  BY <1>1, <1>4 DEF At
<1>7. RxOK' /\ TxOK'
  <2>1. /\ Taken("WPCAP_RX_PACKET")' = Taken("WPCAP_RX_PACKET")
        /\ Taken("WPCAP_TX_PACKET")' = Taken("WPCAP_TX_PACKET")
    BY <1>1, <1>4 DEF Taken
  <2> QED
    BY <1>1, <1>2, <1>5, <2>1 DEF RxOK, RxInv, TxOK, TxInv
<1>8. tx_queue.log \in Seq(TxKinds)
  BY <1>2, MsvcCounts, QueueFields DEF TxOK
<1>9. \A f \in TxKinds : /\ CountOf(tx_queue'.log, f) \in Nat
                         /\ CountOf(tx_queue'.log, f) <= CountOf(tx_queue.log, f)
  <2>1. \A f \in TxKinds : CountOf(tx_queue.log, f) \in Nat
    BY <1>8, CountType
  <2> QED
    BY <1>1, <2>1
<1>10. ReadsInv' /\ TxCounts'
  BY <1>1, <1>4, <1>9, DecidedCounts
<1>11. MsvcScalars'
  BY <1>1, <1>2, <1>3, <1>4 DEF MsvcScalars, PushPcs
<1>12. MsvcPhases'
  BY <1>1, <1>2, <1>4 DEF MsvcPhases, PushPcs, At
<1>13. KilledLast'
  BY <1>1, <1>2 DEF KilledLast, Killing
<1> QED
  BY <1>7, <1>10, <1>11, <1>12, <1>13, MsvcAssembled

\* The poll thread queues a read.  Until the semaphore is posted the frame is in
\* the queue and not yet in the list in flight.
LEMMA PollPushInv ==
  ASSUME MsvcInv, PollPush
  PROVE  MsvcInv'
<1>1. /\ poll_thread \in PushPcs
      /\ UNCHANGED <<rx_queue, rx_timeout, kill_all, rx_kill_sem, captured, rx_thread,
                     app_thread, dwEvent, pushes, unwaited_tx>>
  BY DEF PollPush, push, PushPcs
<1>2. ReadsInv /\ MsvcScalars /\ RxOK /\ TxOK /\ MsvcPhases /\ KilledLast /\ TxCounts
  BY MsvcParts
<1>3. to_queue # <<>>
  BY <1>1, <1>2 DEF MsvcPhases
<1>4. PICK x \in TxKinds : x = Head(to_queue)
  BY <1>2, <1>3, ReadsQueued
<1>5. /\ x = "ENTITY" => PendingEntity = 1
      /\ x # "ENTITY" => x = "read" /\ PendingEntity = 0
  BY <1>2, <1>3, <1>4, ReadsQueued
<1>6. TxCount \in Nat \ {0} /\ tx_queue \in QueueOf(TxCount, TxKinds, "none")
  BY <1>2, MsvcCounts DEF TxOK
<1>7. tx_queue.log \in Seq(TxKinds)
  BY <1>6, QueueFields
<1>8. PICK as \in {0, 1}, ag \in {0, 1} :
        as = At(app_thread, "store") /\ ag = At(app_thread, "signal")
  BY DEF At
<1>9. /\ Taken("WPCAP_TX_PACKET") = 0 /\ Taken("WPCAP_RX_PACKET") = 0
  BY <1>1 DEF Taken, PushPcs
<1>10. QueueInv(tx_queue, TxCount, At(poll_thread, "store") + as,
                At(poll_thread, "signal") + ag, 0)
  BY <1>2, <1>8, <1>9 DEF TxOK, TxInv
<1>11. /\ \A f \in TxKinds : CountOf(tx_queue.log, f) \in Nat
       /\ {"ENTITY", "read", "command"} \subseteq TxKinds
       /\ entity_reads \in Nat /\ read_inflight \in Nat
  <2>1. \A f \in TxKinds : CountOf(tx_queue.log, f) \in Nat
    BY <1>7, CountType
  <2>2. {"ENTITY", "read", "command"} \subseteq TxKinds
    BY DEF TxKinds, ReadFrames
  <2>3. entity_reads \in Nat /\ read_inflight \in Nat
    BY <1>2 DEF ReadsInv, ReadsTypeOK
  <2> QED
    BY <2>1, <2>2, <2>3
<1>12. ASSUME poll_thread' # "event" PROVE RxOK'
  <2>1. Taken("WPCAP_RX_PACKET")' = 0
    BY <1>12 DEF Taken
  <2>2. QueueInv(rx_queue, RxCount, At(rx_thread, "store"), At(rx_thread, "signal"), 0)
    BY <1>2, <1>9 DEF RxOK, RxInv
  <2> QED
    BY <1>1, <1>2, <2>1, <2>2 DEF RxOK, RxInv, At
<1>13. CASE /\ push(tx_queue, tx_queue', poll_thread, poll_thread', x)
            /\ UNCHANGED readVars
  <2>1. PICK ps \in {0, 1}, pg \in {0, 1} :
          ps = At(poll_thread, "store") /\ pg = At(poll_thread, "signal")
    BY DEF At
  <2> DEFINE ts == ps + as
             tg == pg + ag
  <2>2. ts \in Nat /\ tg \in Nat /\ 0 \in Nat
    BY <1>8, <2>1
  <2>3. /\ ps = 1 => ts > 0 /\ ts - 1 = 0 + as
        /\ ps = 1 /\ pg = 0 => tg + 1 = 1 + ag
        /\ ps = 0 /\ pg = 0 => ts + 1 = 1 + as /\ tg = 0 + ag
    BY <1>8, <2>1
  <2>4. QueueInv(tx_queue, TxCount, ts, tg, 0) /\ (poll_thread = "store" => ps = 1)
    BY <1>10, <2>1 DEF At
  <2>5. poll_thread = "store" => ts > 0
    BY <2>3, <2>4
  <2> HIDE DEF ts, tg
  <2>6. /\ tx_queue' \in QueueOf(TxCount, TxKinds, "none")
        /\ \/ /\ poll_thread = "space" /\ poll_thread' = "store"
              /\ tx_queue'.log = tx_queue.log
              /\ QueueInv(tx_queue', TxCount, ts + 1, tg, 0)
           \/ /\ poll_thread = "store" /\ poll_thread' = "signal"
              /\ tx_queue'.log = Append(tx_queue.log, x)
              /\ QueueInv(tx_queue', TxCount, ts - 1, tg + 1, 0)
    BY <1>6, <1>13, <2>2, <2>5, <2>4, PushStep
  <2>7. ReadsInv' /\ UNCHANGED <<to_queue, entity_reads, read_inflight>>
        /\ PendingEntity' = PendingEntity
    BY <1>2, <1>13 DEF readVars, ReadsInv, ReadsTypeOK, Pending, PendingEntity
  <2>8. poll_thread' \in PushPcs /\ poll_thread' # "event" /\ RxOK'
    BY <1>12, <2>6 DEF PushPcs
  <2>9. MsvcScalars' /\ MsvcPhases'
    BY <1>1, <1>2, <1>3, <2>7, <2>8 DEF MsvcScalars, MsvcPhases, At, PushPcs
  <2>10. Taken("WPCAP_TX_PACKET")' = 0
    BY <2>8 DEF Taken
  <2>11. CASE poll_thread = "space"
    <3>1. /\ poll_thread' = "store" /\ tx_queue'.log = tx_queue.log
          /\ QueueInv(tx_queue', TxCount, ts + 1, tg, 0)
      BY <2>6, <2>11
    <3>2. /\ ts + 1 = At(poll_thread', "store") + At(app_thread', "store")
          /\ tg = At(poll_thread', "signal") + At(app_thread', "signal")
      <4>1. /\ At(poll_thread', "store") = 1 /\ At(poll_thread', "signal") = 0
            /\ At(app_thread', "store") = as /\ At(app_thread', "signal") = ag
            /\ ps = 0 /\ pg = 0
        BY <1>1, <1>8, <2>1, <2>11, <3>1 DEF At
      <4> QED
        BY <2>3, <4>1
    <3>3. TxOK'
      BY <2>6, <2>10, <3>1, <3>2 DEF TxOK, TxInv
    <3>4. TxCounts'
      BY <1>1, <1>2, <2>7, <2>11, <3>1 DEF TxCounts, CommandBound, Underway, At
    <3>5. KilledLast'
      BY <1>1, <1>2, <3>1 DEF KilledLast
    <3> QED
      BY <2>7, <2>8, <2>9, <3>3, <3>4, <3>5, MsvcAssembled
  <2>12. CASE poll_thread = "store"
    <3>1. /\ poll_thread' = "signal" /\ tx_queue'.log = Append(tx_queue.log, x)
          /\ QueueInv(tx_queue', TxCount, ts - 1, tg + 1, 0)
      BY <2>6, <2>12
    <3>2. /\ ts - 1 = At(poll_thread', "store") + At(app_thread', "store")
          /\ tg + 1 = At(poll_thread', "signal") + At(app_thread', "signal")
      <4>1. /\ At(poll_thread', "store") = 0 /\ At(poll_thread', "signal") = 1
            /\ At(app_thread', "store") = as /\ At(app_thread', "signal") = ag
            /\ ps = 1 /\ pg = 0
        BY <1>1, <1>8, <2>1, <2>12, <3>1 DEF At
      <4> QED
        BY <2>3, <4>1
    <3>3. TxOK'
      BY <2>6, <2>10, <3>1, <3>2 DEF TxOK, TxInv
    <3>4. \A f \in TxKinds :
            /\ x = f => CountOf(tx_queue'.log, f) = CountOf(tx_queue.log, f) + 1
            /\ x # f => CountOf(tx_queue'.log, f) = CountOf(tx_queue.log, f)
      <4>1. \A f \in TxKinds :
              /\ x = f => CountOf(Append(tx_queue.log, x), f) = CountOf(tx_queue.log, f) + 1
              /\ x # f => CountOf(Append(tx_queue.log, x), f) = CountOf(tx_queue.log, f)
        BY <1>7, CountsOfAppend
      <4> QED
        BY <3>1, <4>1
    <3>5. CountOf(tx_queue'.log, "command") = CountOf(tx_queue.log, "command")
      BY <1>5, <1>11, <3>4
    <3>6. TxCounts'
      <4> DEFINE e == CountOf(tx_queue.log, "ENTITY")
                 r == CountOf(tx_queue.log, "read")
                 eN == CountOf(tx_queue'.log, "ENTITY")
                 rN == CountOf(tx_queue'.log, "read")
      <4>1. e \in Nat /\ r \in Nat
        BY <1>11
      <4>2. /\ e + PendingEntity <= entity_reads
            /\ entity_reads <= 1 => r <= read_inflight + 0
        BY <1>2, <2>12 DEF TxCounts
      <4>3. /\ x = "ENTITY" => eN = e + 1 /\ rN = r
            /\ x # "ENTITY" => eN = e /\ rN = r + 1
        BY <1>5, <1>11, <3>4
      <4> HIDE DEF e, r, eN, rN
      <4>4. /\ eN + 0 <= entity_reads
            /\ entity_reads <= 1 => rN <= read_inflight + (IF x = "read" THEN 1 ELSE 0)
        <5>1. CASE x = "ENTITY"
          BY <1>5, <1>11, <4>1, <4>2, <4>3, <5>1
        <5>2. CASE x # "ENTITY"
          BY <1>5, <1>11, <4>1, <4>2, <4>3, <5>2
        <5> QED
          BY <5>1, <5>2
      <4>5. /\ CountOf(tx_queue'.log, "ENTITY") + 0 <= entity_reads'
            /\ entity_reads' <= 1 =>
                 CountOf(tx_queue'.log, "read")
                   <= read_inflight' + (IF Head(to_queue') = "read" THEN 1 ELSE 0)
        BY <1>4, <2>7, <4>4 DEF eN, rN
      <4>6. CommandBound'
        BY <1>1, <1>2, <3>5 DEF TxCounts, CommandBound, Underway
      <4> QED
        BY <3>1, <4>5, <4>6 DEF TxCounts
    <3>7. KilledLast'
      BY <1>1, <1>2, <3>5 DEF KilledLast
    <3> QED
      BY <2>7, <2>8, <2>9, <3>3, <3>6, <3>7, MsvcAssembled
  <2> QED
    BY <2>6, <2>11, <2>12
<1>14. CASE /\ poll_thread = "signal" /\ tx_queue' = signal(tx_queue)
            /\ ReadQueued /\ Queues(dwEvent)
  <2>1. /\ poll_thread' \in {"space", "tick", "wait", "done"}
        /\ poll_thread' = "space" <=> to_queue' # <<>>
        /\ poll_thread' = "tick" => dwEvent' \in Signals
        /\ poll_thread' = "wait" => dwEvent' = "next"
        /\ poll_thread' = "done" => dwEvent' = "exit"
    <3>1. dwEvent' \in Signals \cup {"next", "exit"} /\ Queues(dwEvent')
      BY <1>1, <1>2, <1>14 DEF MsvcScalars
    <3> QED
      BY <3>1, PollGoes
  <2>2. /\ ReadsInv' /\ UNCHANGED entity_reads /\ PendingEntity' = 0
        /\ read_inflight' = read_inflight + (IF x = "read" THEN 1 ELSE 0)
    BY <1>2, <1>3, <1>4, <1>14, ReadsQueued
  <2>3. /\ tx_queue' \in QueueOf(TxCount, TxKinds, "none") /\ tx_queue'.log = tx_queue.log
        /\ QueueInv(tx_queue', TxCount, as, ag, 0)
    <3>1. /\ At(poll_thread, "store") = 0 /\ At(poll_thread, "signal") = 1
      BY <1>14 DEF At
    <3> DEFINE tg == 1 + ag
    <3>2. tg \in Nat /\ as \in Nat /\ 0 \in Nat
      BY <1>8
    <3>3. tg > 0 /\ tg - 1 = ag /\ 0 + as = as
      BY <1>8
    <3>4. QueueInv(tx_queue, TxCount, as, tg, 0)
      BY <1>10, <3>1, <3>3
    <3>5. tg > 0 /\ tx_queue' = signal(tx_queue)
      BY <1>14, <3>3
    <3> HIDE DEF tg
    <3>6. /\ tx_queue' \in QueueOf(TxCount, TxKinds, "none") /\ tx_queue'.log = tx_queue.log
          /\ QueueInv(tx_queue', TxCount, as, tg - 1, 0)
      <4>1. PICK n \in Nat, s \in Nat, g \in Nat : n = 0 /\ s = as /\ g = tg
        BY <3>2
      <4>2. g > 0 /\ QueueInv(tx_queue, TxCount, s, g, n)
        BY <3>4, <3>5, <4>1
      <4>3. /\ tx_queue' \in QueueOf(TxCount, TxKinds, "none")
            /\ tx_queue'.log = tx_queue.log
            /\ QueueInv(tx_queue', TxCount, s, g - 1, n)
        BY <1>6, <3>5, <4>2, SignalStep
      <4> QED
        BY <4>1, <4>3
    <3> QED
      BY <3>3, <3>6
  <2>4. /\ At(poll_thread', "store") = 0 /\ At(poll_thread', "signal") = 0
        /\ Taken("WPCAP_TX_PACKET")' = 0 /\ poll_thread' # "signal"
    BY <2>1 DEF At, Taken
  <2>5. TxOK'
    <3>1. /\ as = At(poll_thread', "store") + At(app_thread', "store")
          /\ ag = At(poll_thread', "signal") + At(app_thread', "signal")
      BY <1>1, <1>8, <2>4
    <3> QED
      BY <2>3, <2>4, <3>1 DEF TxOK, TxInv
  <2>6. RxOK'
    BY <1>12, <2>1
  <2>7. MsvcScalars' /\ MsvcPhases'
    BY <1>1, <1>2, <2>1 DEF MsvcScalars, MsvcPhases, PushPcs, At
  <2>8. KilledLast'
    BY <1>1, <1>2, <2>3 DEF KilledLast
  <2>9. TxCounts'
    <3>1. /\ CountOf(tx_queue.log, "ENTITY") + 0 <= entity_reads
          /\ entity_reads <= 1 =>
               CountOf(tx_queue.log, "read") <= read_inflight + (IF x = "read" THEN 1 ELSE 0)
      BY <1>2, <1>4, <1>14 DEF TxCounts
    <3>2. PICK i \in Nat : i = read_inflight + (IF x = "read" THEN 1 ELSE 0)
      BY <1>11
    <3>3. read_inflight' = i /\ i + 0 = i
      BY <2>2, <3>2
    <3>4. /\ CountOf(tx_queue'.log, "ENTITY") + 0 <= entity_reads'
          /\ entity_reads' <= 1 => CountOf(tx_queue'.log, "read") <= read_inflight' + 0
      BY <2>2, <2>3, <3>1, <3>2, <3>3
    <3>5. CommandBound'
      BY <1>1, <1>2, <2>3 DEF TxCounts, CommandBound, Underway
    <3> QED
      BY <1>1, <1>2, <2>2, <2>3, <2>4, <3>4, <3>5 DEF TxCounts
  <2> QED
    BY <2>2, <2>5, <2>6, <2>7, <2>8, <2>9, MsvcAssembled
<1> QED
  BY <1>4, <1>13, <1>14 DEF PollPush
-----------------------------------------------------------------------------
(***************************************************************************)
(* The application thread                                                  *)
(***************************************************************************)
\* What a step of the application leaves alone.
LEMMA AppUnchanged ==
  ASSUME MsvcInv, UNCHANGED <<rx_queue, rx_thread, poll_thread, dwEvent, readVars>>
  PROVE  ReadsInv' /\ RxOK' /\ PendingEntity' = PendingEntity
BY MsvcParts DEF RxOK, RxInv, Taken, At, ReadsInv, ReadsTypeOK, readVars, Pending,
   PendingEntity

\* A step of the application that leaves the transmit queue alone.
LEMMA AppStepsInv ==
  ASSUME MsvcInv, AppCommand \/ AppWoken \/ process_close
  PROVE  MsvcInv'
<1>1. /\ UNCHANGED <<rx_queue, tx_queue, rx_timeout, captured, rx_thread, poll_thread,
                     dwEvent, unwaited_tx, readVars>>
      /\ app_thread \in {"run", "waiting"} \cup Closing
      /\ app_thread' \in {"space", "run"} \cup Closing
  BY DEF AppCommand, AppWoken, process_close, Closing
<1>2. ReadsInv /\ MsvcScalars /\ RxOK /\ TxOK /\ MsvcPhases /\ KilledLast /\ TxCounts
  BY MsvcParts
<1>3. ReadsInv' /\ RxOK' /\ PendingEntity' = PendingEntity
  BY <1>1, AppUnchanged
<1>4. /\ At(app_thread, "store") = 0 /\ At(app_thread, "signal") = 0
      /\ At(app_thread', "store") = 0 /\ At(app_thread', "signal") = 0
      /\ At(app_thread, "space") = 0
  BY <1>1 DEF At, Closing
<1>5. TxOK'
  BY <1>1, <1>2, <1>4 DEF TxOK, TxInv, Taken
<1>6. /\ rx_kill_sem' \in 0 .. 1 /\ kill_all' \in BOOLEAN /\ pushes' \in 0 .. MaxPushes
      /\ rx_kill_sem' + At(rx_thread', "done") = IF app_thread' \in Closing THEN 1 ELSE 0
  <2>1. /\ rx_kill_sem \in 0 .. 1 /\ kill_all \in BOOLEAN /\ pushes \in 0 .. MaxPushes
        /\ rx_kill_sem + At(rx_thread, "done") = IF app_thread \in Closing THEN 1 ELSE 0
        /\ MaxPushes \in Nat
    BY <1>2, MsvcCounts DEF MsvcScalars, MsvcPhases
  <2>2. PICK d \in {0, 1} : d = At(rx_thread, "done") /\ d = At(rx_thread', "done")
    BY <1>1 DEF At
  <2>3. CASE AppCommand \/ AppWoken
    <3>1. /\ app_thread \notin Closing /\ app_thread' \notin Closing
          /\ UNCHANGED <<rx_kill_sem, kill_all, rx_thread>>
      BY <2>3 DEF AppCommand, AppWoken, Closing
    <3>2. pushes' \in 0 .. MaxPushes
      BY <2>1, <2>3 DEF AppCommand, AppWoken
    <3> QED
      BY <2>1, <3>1, <3>2
  <2>4. CASE app_thread = "run" /\ rx_kill_sem' = rx_kill_sem + 1
             /\ app_thread' = "close" /\ UNCHANGED <<kill_all, pushes>>
    <3>1. rx_kill_sem + d = 0
      BY <2>1, <2>2, <2>4 DEF Closing
    <3> QED
      BY <2>1, <2>2, <2>4, <3>1 DEF Closing
  <2>5. CASE app_thread \in Closing /\ app_thread' \in Closing
             /\ kill_all' \in BOOLEAN /\ UNCHANGED <<rx_kill_sem, pushes>>
    BY <2>1, <2>2, <2>5
  <2> QED
    BY <2>1, <2>3, <2>4, <2>5 DEF AppCommand, AppWoken, process_close, Closing
<1>7. MsvcScalars' /\ MsvcPhases'
  BY <1>1, <1>2, <1>6 DEF MsvcScalars, MsvcPhases, PushPcs, readVars
<1>8. TxCounts'
  <2>1. PICK c \in Nat : c = CountOf(tx_queue.log, "command")
    <3>1. tx_queue.log \in Seq(TxKinds)
      BY <1>2, MsvcCounts, QueueFields DEF TxOK
    <3> QED
      BY <3>1, CountType
  <2>2. unwaited_tx \/ c + 0 + 0 <= Underway
    BY <1>2, <1>4, <2>1 DEF TxCounts, CommandBound
  <2>3. unwaited_tx \/ c + At(app_thread', "space") + 0 <= Underway'
    <3>1. CASE AppCommand
      <4>1. Underway = 0 /\ Underway' = 1 /\ At(app_thread', "space") = 1
        BY <3>1 DEF AppCommand, Underway, PushPcs, At
      <4> QED
        BY <2>1, <2>2, <4>1
    <3>2. CASE AppWoken
      <4>1. Underway' = 0 /\ At(app_thread', "space") = 0 /\ (unwaited_tx \/ c = 0)
        BY <2>1, <3>2 DEF AppWoken, Underway, PushPcs, At
      <4> QED
        BY <4>1
    <3>3. CASE process_close
      <4>1. Underway = 0 /\ Underway' = 0 /\ At(app_thread', "space") = 0
        BY <3>3 DEF process_close, Underway, PushPcs, At
      <4> QED
        BY <2>2, <4>1
    <3> QED
      BY <3>1, <3>2, <3>3
  <2>4. CommandBound'
    BY <1>1, <1>4, <2>1, <2>3 DEF CommandBound
  <2> QED
    BY <1>1, <1>2, <1>3, <1>4, <2>4 DEF TxCounts, readVars
<1>9. KilledLast'
  <2>1. /\ kill_all \/ dwEvent \in Killing => app_thread \in Closing \ {"close"}
        /\ dwEvent \in Killing => CountOf(tx_queue.log, "command") = 0
    BY <1>2 DEF KilledLast
  <2>2. CASE UNCHANGED kill_all /\ (app_thread \in Closing => app_thread' \in Closing \ {"close"})
    BY <1>1, <2>1, <2>2 DEF KilledLast
  <2>3. CASE app_thread' = "join rx"
    BY <1>1, <2>1, <2>3 DEF KilledLast, Closing
  <2> QED
    BY <2>2, <2>3 DEF AppCommand, AppWoken, process_close, Closing
<1> QED
  BY <1>3, <1>5, <1>7, <1>8, <1>9, MsvcAssembled

\* The application queues a command: it has not begun to close the system, so
\* that the poll thread has not been told to end.
LEMMA AppPushInv ==
  ASSUME MsvcInv, AppPush
  PROVE  MsvcInv'
<1>1. /\ app_thread \in PushPcs
      /\ UNCHANGED <<rx_queue, rx_timeout, kill_all, rx_kill_sem, captured, rx_thread,
                     poll_thread, dwEvent, pushes, readVars>>
  BY DEF AppPush, push, PushPcs
<1>2. ReadsInv /\ MsvcScalars /\ RxOK /\ TxOK /\ MsvcPhases /\ KilledLast /\ TxCounts
  BY MsvcParts
<1>3. ReadsInv' /\ RxOK' /\ PendingEntity' = PendingEntity
  BY <1>1, AppUnchanged
<1>4. TxCount \in Nat \ {0} /\ tx_queue \in QueueOf(TxCount, TxKinds, "none")
  BY <1>2, MsvcCounts DEF TxOK
<1>5. tx_queue.log \in Seq(TxKinds)
  BY <1>4, QueueFields
<1>6. PICK ps \in {0, 1}, pg \in {0, 1}, tk \in Nat :
        /\ ps = At(poll_thread, "store") /\ pg = At(poll_thread, "signal")
        /\ ps = At(poll_thread', "store") /\ pg = At(poll_thread', "signal")
        /\ tk = Taken("WPCAP_TX_PACKET") /\ tk = Taken("WPCAP_TX_PACKET")'
  BY <1>1 DEF At, Taken
<1>7. QueueInv(tx_queue, TxCount, ps + At(app_thread, "store"),
               pg + At(app_thread, "signal"), tk)
  BY <1>2, <1>6 DEF TxOK, TxInv
<1>8. \A f \in TxKinds : CountOf(tx_queue.log, f) \in Nat
  BY <1>5, CountType
<1>9. "command" \in TxKinds /\ "ENTITY" \in TxKinds /\ "read" \in TxKinds
  BY DEF TxKinds, ReadFrames
<1>10. app_thread \notin Closing /\ ~kill_all /\ dwEvent \notin Killing
  BY <1>1, <1>2 DEF KilledLast, PushPcs, Closing
<1>11. ASSUME app_thread' \in PushPcs \cup {"run", "waiting"}
       PROVE  MsvcScalars' /\ MsvcPhases' /\ KilledLast'
  <2>1. app_thread' \notin Closing
    BY <1>11 DEF PushPcs, Closing
  <2>2. MsvcScalars'
    <3>1. unwaited_tx' \in BOOLEAN
      BY Zenon, <1>2 DEF AppPush, MsvcScalars
    <3> QED
      BY <1>1, <1>2, <1>11, <3>1 DEF MsvcScalars
  <2>3. MsvcPhases'
    <3>1. to_queue' = to_queue /\ At(rx_thread, "done")' = At(rx_thread, "done")
      BY <1>1 DEF readVars, At
    <3> QED
      BY <1>1, <1>2, <1>10, <2>1, <3>1 DEF MsvcPhases
  <2>4. KilledLast'
    BY <1>1, <1>10, <2>1 DEF KilledLast
  <2> QED
    BY <2>2, <2>3, <2>4
<1>12. CASE push(tx_queue, tx_queue', app_thread, app_thread', "command")
  <2>1. PICK as \in {0, 1}, ag \in {0, 1} :
          as = At(app_thread, "store") /\ ag = At(app_thread, "signal")
    BY DEF At
  <2> DEFINE ts == ps + as
             tg == pg + ag
  <2>2. ts \in Nat /\ tg \in Nat
    BY <1>6, <2>1
  <2>3. /\ as = 1 => ts > 0 /\ ts - 1 = ps + 0
        /\ as = 1 /\ ag = 0 => tg + 1 = pg + 1
        /\ as = 0 /\ ag = 0 => ts + 1 = ps + 1 /\ tg = pg + 0
    BY <1>6, <2>1
  <2>4. QueueInv(tx_queue, TxCount, ts, tg, tk) /\ (app_thread = "store" => as = 1)
    BY <1>7, <2>1 DEF At
  <2>5. app_thread = "store" => ts > 0
    BY <2>3, <2>4
  <2> HIDE DEF ts, tg
  <2>6. /\ tx_queue' \in QueueOf(TxCount, TxKinds, "none")
        /\ \/ /\ app_thread = "space" /\ app_thread' = "store"
              /\ tx_queue'.log = tx_queue.log
              /\ QueueInv(tx_queue', TxCount, ts + 1, tg, tk)
           \/ /\ app_thread = "store" /\ app_thread' = "signal"
              /\ tx_queue'.log = Append(tx_queue.log, "command")
              /\ QueueInv(tx_queue', TxCount, ts - 1, tg + 1, tk)
    BY <1>4, <1>9, <1>12, <2>2, <2>4, <2>5, PushStep
  <2>7. MsvcScalars' /\ MsvcPhases' /\ KilledLast'
    BY <1>11, <2>6 DEF PushPcs
  <2>8. CASE app_thread = "space"
    <3>1. /\ app_thread' = "store" /\ tx_queue'.log = tx_queue.log
          /\ QueueInv(tx_queue', TxCount, ts + 1, tg, tk)
      BY <2>6, <2>8
    <3>2. /\ At(app_thread, "space") = 1 /\ At(app_thread, "store") = 0
          /\ At(app_thread', "space") = 0 /\ At(app_thread', "store") = 1
          /\ At(app_thread', "signal") = 0 /\ as = 0 /\ ag = 0
      BY <2>1, <2>8, <3>1 DEF At
    <3>3. QueueInv(tx_queue', TxCount, ps + 1, pg + 0, tk)
      BY <2>3, <3>1, <3>2
    <3>4. TxOK'
      BY <1>6, <2>6, <3>2, <3>3 DEF TxOK, TxInv
    <3>5. TxCounts'
      <4>1. unwaited_tx \/ CountOf(tx_queue.log, "command") + 1 + 0 <= 1
        BY <1>2, <2>8, <3>2 DEF TxCounts, CommandBound, Underway, PushPcs
      <4>2. unwaited_tx \/ CountOf(tx_queue.log, "command") + 0 + 1 <= 1
        BY <1>8, <1>9, <4>1
      <4>3. unwaited_tx' = unwaited_tx
        BY <1>10, <2>8 DEF AppPush
      <4>4. CommandBound'
        BY <3>1, <3>2, <4>2, <4>3 DEF CommandBound, Underway, PushPcs
      <4> QED
        BY <1>1, <1>2, <1>3, <3>1, <4>4 DEF TxCounts, readVars
    <3> QED
      BY <1>3, <2>7, <3>4, <3>5, MsvcAssembled
  <2>9. CASE app_thread = "store"
    <3>1. /\ app_thread' = "signal" /\ tx_queue'.log = Append(tx_queue.log, "command")
          /\ QueueInv(tx_queue', TxCount, ts - 1, tg + 1, tk)
      BY <2>6, <2>9
    <3>2. /\ At(app_thread, "space") = 0 /\ At(app_thread, "store") = 1
          /\ At(app_thread', "space") = 0 /\ At(app_thread', "store") = 0
          /\ At(app_thread', "signal") = 1 /\ as = 1 /\ ag = 0
      BY <2>1, <2>9, <3>1 DEF At
    <3>3. QueueInv(tx_queue', TxCount, ps + 0, pg + 1, tk)
      BY <2>3, <3>1, <3>2
    <3>4. TxOK'
      BY <1>6, <2>6, <3>2, <3>3 DEF TxOK, TxInv
    <3>5. /\ CountOf(tx_queue'.log, "ENTITY") = CountOf(tx_queue.log, "ENTITY")
          /\ CountOf(tx_queue'.log, "read") = CountOf(tx_queue.log, "read")
          /\ CountOf(tx_queue'.log, "command") = CountOf(tx_queue.log, "command") + 1
      <4>1. \A f \in TxKinds :
              /\ "command" = f => CountOf(Append(tx_queue.log, "command"), f)
                                    = CountOf(tx_queue.log, f) + 1
              /\ "command" # f => CountOf(Append(tx_queue.log, "command"), f)
                                    = CountOf(tx_queue.log, f)
        BY <1>5, <1>9, CountsOfAppend
      <4> QED
        BY <1>9, <3>1, <4>1
    <3>6. TxCounts'
      <4>1. unwaited_tx \/ CountOf(tx_queue.log, "command") + 0 + 1 <= 1
        BY <1>2, <2>9, <3>2 DEF TxCounts, CommandBound, Underway, PushPcs
      <4>2. unwaited_tx \/ (CountOf(tx_queue.log, "command") + 1) + 0 + 0 <= 1
        BY <1>8, <1>9, <4>1
      <4>3. unwaited_tx' = unwaited_tx
        BY <2>9 DEF AppPush
      <4>4. CommandBound'
        BY <3>1, <3>2, <3>5, <4>2, <4>3 DEF CommandBound, Underway, PushPcs
      <4> QED
        BY <1>1, <1>2, <1>3, <3>5, <4>4 DEF TxCounts, readVars
    <3> QED
      BY <1>3, <2>7, <3>4, <3>6, MsvcAssembled
  <2> QED
    BY <2>6, <2>8, <2>9
<1>13. CASE /\ app_thread = "signal" /\ tx_queue' = signal(tx_queue)
            /\ app_thread' \in {"run", "waiting"}
            /\ unwaited_tx' = (unwaited_tx \/ app_thread' = "run")
  <2>1. /\ At(app_thread, "store") = 0 /\ At(app_thread, "signal") = 1
        /\ At(app_thread', "store") = 0 /\ At(app_thread', "signal") = 0
        /\ At(app_thread, "space") = 0 /\ At(app_thread', "space") = 0
    BY <1>13 DEF At
  <2>2. PICK ts \in Nat, tg \in Nat : ts = ps + 0 /\ tg = pg + 1
    BY <1>6
  <2>3. QueueInv(tx_queue, TxCount, ts, tg, tk) /\ tg > 0 /\ tx_queue' = signal(tx_queue)
    BY <1>6, <1>7, <1>13, <2>1, <2>2
  <2>4. /\ tx_queue' \in QueueOf(TxCount, TxKinds, "none") /\ tx_queue'.log = tx_queue.log
        /\ QueueInv(tx_queue', TxCount, ts, tg - 1, tk)
    BY <1>4, <2>3, SignalStep
  <2>5. ts = ps + 0 /\ tg - 1 = pg + 0
    BY <1>6, <2>2
  <2>6. TxOK'
    BY <1>6, <2>1, <2>4, <2>5 DEF TxOK, TxInv
  <2>7. CommandBound'
    <3>1. CASE unwaited_tx \/ app_thread' = "run"
      <4>1. unwaited_tx'
        BY Zenon, <1>13, <3>1
      <4> QED
        BY <4>1 DEF CommandBound
    <3>2. CASE ~unwaited_tx /\ app_thread' = "waiting"
      <4>1. Underway = 1 /\ Underway' = 1
        BY <1>13, <3>2 DEF Underway, PushPcs
      <4>2. CountOf(tx_queue.log, "command") + 0 + 0 <= 1
        BY <1>2, <2>1, <3>2, <4>1 DEF TxCounts, CommandBound
      <4> QED
        BY <2>1, <2>4, <4>1, <4>2 DEF CommandBound
    <3> QED
      BY <1>13, <3>1, <3>2
  <2>8. TxCounts'
    BY <1>1, <1>2, <1>3, <2>4, <2>7 DEF TxCounts, readVars
  <2> QED
    BY <1>3, <1>11, <1>13, <2>6, <2>8, MsvcAssembled
<1> QED
  BY <1>12, <1>13 DEF AppPush
-----------------------------------------------------------------------------
LEMMA MsvcInitInv == MsvcInit => MsvcInv
<1> SUFFICES ASSUME MsvcInit PROVE MsvcInv
  OBVIOUS
<1>1. ReadsInv /\ PendingEntity = 0 /\ to_queue = <<>> /\ entity_reads = 0
      /\ read_inflight = 0
  BY ReadsInitInv DEF MsvcInit, ReadsInit
<1>2. ASSUME NEW N \in Nat \ {0}, NEW T, NEW u, NEW q, q = NewQueue(N, u)
      PROVE  q \in QueueOf(N, T, u) /\ q.log = <<>> /\ QueueInv(q, N, 0, 0, 0)
  <2>1. /\ q.buf = [k \in 0 .. N - 1 |-> u] /\ q.in_pos = 0 /\ q.out_pos = 0
        /\ q.space_avail = N /\ q.data_avail = 0 /\ q.log = <<>>
    BY <1>2 DEF NewQueue
  <2>2. 0 \in 0 .. N - 1 /\ N \in 0 .. N /\ 0 \in 0 .. N
    OBVIOUS
  <2>3. q \in QueueOf(N, T, u)
    BY <1>2, <2>2 DEF NewQueue, QueueOf
  <2>4. Len(q.log) = 0 /\ 0 + 0 = 0 /\ 0 % N = 0
    BY <2>1
  <2>5. \A k \in 1 .. Len(q.log) : q.buf[(q.out_pos + k - 1) % N] = q.log[k]
    BY <2>4
  <2>6. /\ q.in_pos = (q.out_pos + Len(q.log)) % N
        /\ q.space_avail + Len(q.log) + 0 = N
        /\ q.data_avail + 0 + 0 = Len(q.log)
    BY <2>1, <2>4
  <2> QED
    BY <2>1, <2>3, <2>5, <2>6 DEF QueueInv
<1>3. /\ At(rx_thread, "store") = 0 /\ At(rx_thread, "signal") = 0
      /\ At(poll_thread, "store") = 0 /\ At(poll_thread, "signal") = 0
      /\ At(app_thread, "store") = 0 /\ At(app_thread, "signal") = 0
      /\ At(app_thread, "space") = 0 /\ At(rx_thread, "done") = 0 /\ 0 + 0 = 0
      /\ Taken("WPCAP_RX_PACKET") = 0 /\ Taken("WPCAP_TX_PACKET") = 0
  BY DEF MsvcInit, At, Taken
<1>4. RxOK
  BY <1>2, <1>3, MsvcCounts DEF RxOK, RxInv, MsvcInit
<1>5. TxOK /\ tx_queue.log = <<>>
  BY <1>2, <1>3, MsvcCounts DEF TxOK, TxInv, MsvcInit
<1>6. MsvcScalars
  <2>1. captured \in 0 .. MaxFrames /\ pushes \in 0 .. MaxPushes /\ rx_kill_sem \in 0 .. 1
    BY MsvcCounts DEF MsvcInit
  <2>2. rx_timeout \in BOOLEAN /\ kill_all \in BOOLEAN /\ unwaited_tx \in BOOLEAN
    BY Zenon DEF MsvcInit
  <2> QED
    BY <2>1, <2>2 DEF MsvcScalars, MsvcInit
<1>7. MsvcPhases
  BY <1>1, <1>3 DEF MsvcPhases, MsvcInit, PushPcs, Closing
<1>8. \A f : CountOf(tx_queue.log, f) = 0
  BY <1>5, CountNone
<1>9. KilledLast
  BY DEF KilledLast, MsvcInit, Killing
<1>10. TxCounts
  BY <1>1, <1>3, <1>8 DEF TxCounts, CommandBound, Underway, PushPcs, MsvcInit
<1> QED
  BY <1>1, <1>4, <1>5, <1>6, <1>7, <1>9, <1>10, MsvcParts

LEMMA MsvcNextInv == MsvcInv /\ [MsvcNext]_allMsvcVars => MsvcInv'
<1> SUFFICES ASSUME MsvcInv, [MsvcNext]_allMsvcVars PROVE MsvcInv'
  OBVIOUS
<1>1. CASE MsvcNext
  BY <1>1, RxLoopInv, RxPushInv, WaitInv, HandleInv, TickInv, PollPushInv, AppStepsInv,
     AppPushInv
    DEF MsvcNext, WpcapThread, PollThread, AppThread
<1>2. CASE UNCHANGED allMsvcVars
  <2>1. /\ UNCHANGED <<rx_queue, tx_queue, rx_timeout, kill_all, rx_kill_sem, captured,
                       rx_thread, poll_thread, app_thread, dwEvent, pushes,
                       unwaited_tx, readVars>>
    BY <1>2 DEF allMsvcVars, msvcVars
  <2>2. ReadsInv' /\ TxOK' /\ KilledLast' /\ TxCounts'
    BY <2>1, TxUnchanged
  <2>3. RxOK'
    BY <2>1, MsvcParts DEF RxOK, RxInv, At, Taken
  <2>4. MsvcScalars' /\ MsvcPhases'
    BY <2>1, MsvcParts DEF MsvcScalars, MsvcPhases, At, readVars
  <2> QED
    BY <2>2, <2>3, <2>4, MsvcAssembled
<1> QED
  BY <1>1, <1>2

\* Where the threads of the Windows layer are, and what its queues hold.
THEOREM MsvcInvariant == MsvcSpec => []MsvcInv
BY MsvcInitInv, MsvcNextInv, PTL DEF MsvcSpec

\* What QueueInv says of the entries, as the ring holds them.
LEMMA QueueContents ==
  ASSUME NEW N \in Nat \ {0}, NEW T, NEW u, NEW q \in QueueOf(N, T, u),
         NEW storing, NEW signalling, NEW taken,
         QueueInv(q, N, storing, signalling, taken)
  PROVE  Ring(q) = q.log
<1>1. q.log \in Seq(T) /\ EntryCount(q) = N
  BY QueueFields
<1>2. DOMAIN q.log = 1 .. Len(q.log)
  BY <1>1
<1>3. \A k \in DOMAIN q.log : q.buf[(q.out_pos + k - 1) % EntryCount(q)] = q.log[k]
  BY <1>1, <1>2 DEF QueueInv
<1>4. q.log = [k \in DOMAIN q.log |-> q.log[k]]
  BY <1>1
<1> QED
  BY <1>3, <1>4 DEF Ring

\* Nothing put into a queue is lost, overtaken or overwritten before it is taken
\* out, though two threads fill tx_queue and fill and post in separate steps.
THEOREM QueuesStayIntact == MsvcSpec => []QueuesIntact
<1>1. MsvcInv => QueuesIntact
  <2> SUFFICES ASSUME MsvcInv PROVE QueuesIntact
    OBVIOUS
  <2>1. Ring(rx_queue) = rx_queue.log
    BY MsvcParts, MsvcCounts, QueueContents DEF RxOK, RxInv
  <2>2. Ring(tx_queue) = tx_queue.log
    BY MsvcParts, MsvcCounts, QueueContents DEF TxOK, TxInv
  <2> QED
    BY <2>1, <2>2 DEF MsvcInv, QueuesIntact
<1> QED
  BY <1>1, MsvcInvariant, PTL

\* The poll thread ends only when every command queued has been sent.
THEOREM CommandsSent == MsvcSpec => []CommandsSentBeforeEnd
<1>1. MsvcInv => CommandsSentBeforeEnd
  <2> SUFFICES ASSUME MsvcInv, poll_thread = "done",
                      NEW k \in DOMAIN tx_queue.log, tx_queue.log[k] = "command"
               PROVE  FALSE
    BY DEF CommandsSentBeforeEnd
  <2>1. CountOf(tx_queue.log, "command") = 0
    BY MsvcParts DEF MsvcPhases, KilledLast, Killing
  <2>2. tx_queue.log \in Seq(TxKinds)
    BY MsvcParts, MsvcCounts, QueueFields DEF TxOK
  <2>3. {j \in DOMAIN tx_queue.log : tx_queue.log[j] = "command"} = {}
    BY <2>1, <2>2, CountType, FS_EmptySet DEF CountOf
  <2> QED
    BY <2>3
<1> QED
  BY <1>1, MsvcInvariant, PTL

\* What fills the transmit queue up under the poll thread.
LEMMA TxHasRoom == MsvcInv => TxNeverBlocks
<1> SUFFICES ASSUME MsvcInv, entity_reads <= 1, TxCount >= MaxBurst + 2,
                    poll_thread = "space", tx_queue.space_avail = 0
             PROVE  unwaited_tx /\ CommandEntries >= TxCount - MaxBurst
  BY DEF TxNeverBlocks, TxStuck
<1>1. ReadsInv /\ MsvcScalars /\ TxOK /\ MsvcPhases /\ TxCounts
  BY MsvcParts
<1> DEFINE e == CountOf(tx_queue.log, "ENTITY")
           r == CountOf(tx_queue.log, "read")
           c == CountOf(tx_queue.log, "command")
           n == Len(tx_queue.log)
<1>2. PICK a \in {0, 1}, b \in {0, 1} :
        a = At(app_thread, "store") /\ b = At(app_thread, "space")
  BY DEF At
<1>3. tx_queue.log \in Seq(TxKinds) /\ n \in Nat
  BY <1>1, MsvcCounts, QueueFields DEF TxOK
<1>4. e \in Nat /\ r \in Nat /\ c \in Nat
  BY <1>3, CountType
<1>5. n <= e + r + c
  BY <1>3, CountTotal
<1>6. 0 + n + (0 + a) = TxCount
  <2>1. At(poll_thread, "store") = 0
    BY DEF At
  <2> QED
    BY <1>1, <1>2, <2>1 DEF TxOK, TxInv, QueueInv
<1>7. /\ e + PendingEntity <= entity_reads
      /\ r <= read_inflight + 0
      /\ unwaited_tx \/ c + b + a <= Underway
  BY <1>1, <1>2 DEF TxCounts, CommandBound
<1>8. to_queue # <<>> /\ read_inflight + Pending <= MaxBurst
  BY <1>1 DEF MsvcPhases, PushPcs, ReadsInv
<1>9. /\ MaxBurst \in Nat /\ TxCount \in Nat
      /\ entity_reads \in Nat /\ read_inflight \in Nat
      /\ Underway \in {0, 1} /\ CommandEntries = c + a
  <2>1. entity_reads \in Nat /\ read_inflight \in Nat
    BY <1>1 DEF ReadsInv, ReadsTypeOK
  <2>2. Underway \in {0, 1} /\ CommandEntries = c + a
    BY <1>2 DEF Underway, CommandEntries, At
  <2> QED
    BY <2>1, <2>2, MsvcCounts, ReadsAssumption
<1>10. \/ PendingEntity = 1 /\ Pending = 0
       \/ PendingEntity = 0 /\ Pending > 0 /\ Pending \in Nat
  BY <1>1, <1>8 DEF ReadsInv, ReadsTypeOK, Pending, PendingEntity
<1> HIDE DEF e, r, c, n
<1>11. CASE PendingEntity = 1 /\ Pending = 0
  <2>1. e + 1 <= entity_reads /\ read_inflight + 0 <= MaxBurst
    BY <1>7, <1>8, <1>11
  <2> QED
    BY <1>2, <1>4, <1>5, <1>6, <1>7, <1>9, <1>3, <2>1
<1>12. CASE PendingEntity = 0 /\ Pending > 0 /\ Pending \in Nat
  <2>1. PICK g \in Nat : g > 0 /\ read_inflight + g <= MaxBurst
    BY <1>8, <1>12
  <2>2. e + 0 <= entity_reads
    BY <1>7, <1>12
  <2> QED
    BY <1>2, <1>4, <1>5, <1>6, <1>7, <1>9, <1>3, <2>1, <2>2
<1> QED
  BY <1>10, <1>11, <1>12
-----------------------------------------------------------------------------
(***************************************************************************)
(* The instance TLC checks: each layer is taken through its own steps only.*)
(***************************************************************************)
SumInv ==
  /\ part \in {"log", "notification", "linux", "msvc"}
  /\ IF part = "linux" THEN ShutInv ELSE poll_pc = "epoll_wait"
  /\ IF part = "msvc" THEN MsvcInv ELSE poll_thread = "wait"

LEMMA SumInitInv == SumInit => SumInv
BY ShutInitInv, MsvcInitInv DEF SumInit, SumInv, ShutInit, MsvcInit

LEMMA SumNextInv == SumInv /\ [SumNext]_sumVars => SumInv'
<1> SUFFICES ASSUME SumInv, [SumNext]_sumVars PROVE SumInv'
  OBVIOUS
<1>1. CASE InLinux(ShutNext)
  BY <1>1, ShutNextInv DEF SumInv, InLinux, msvcVars
<1>2. CASE InMsvc(MsvcNext)
  BY <1>2, MsvcNextInv DEF SumInv, InMsvc, shutVars
<1>3. CASE UNCHANGED <<part, shutVars, msvcVars, readVars>>
  <2>1. UNCHANGED <<part, poll_pc, poll_thread>>
    BY <1>3 DEF shutVars, msvcVars
  <2>2. UNCHANGED allShutVars /\ UNCHANGED allMsvcVars
    BY <1>3 DEF allShutVars, allMsvcVars
  <2> QED
    BY <2>1, <2>2, ShutNextInv, MsvcNextInv DEF SumInv
<1>4. \/ InLinux(ShutNext) \/ InMsvc(MsvcNext)
      \/ UNCHANGED <<part, shutVars, msvcVars, readVars>>
  BY DEF SumNext, InQueue, sumVars
<1> QED
  BY <1>1, <1>2, <1>3, <1>4

\* On neither layer does the poll thread wait for space only it can make, unless
\* commands not waited for have filled all but a group of it.
THEOREM PollThreadsNeverBlock == SumSpec => []NeverWaitsForItself
<1>1. SumInv => NeverWaitsForItself
  <2> SUFFICES ASSUME SumInv PROVE NeverWaitsForItself
    OBVIOUS
  <2>1. PollNeverBlocks
    BY PipeHasRoom DEF SumInv, PollNeverBlocks, PollStuck
  <2>2. TxNeverBlocks
    BY TxHasRoom DEF SumInv, TxNeverBlocks, TxStuck
  <2> QED
    BY <2>1, <2>2 DEF NeverWaitsForItself
<1> QED
  BY <1>1, SumInitInv, SumNextInv, PTL DEF SumSpec
-----------------------------------------------------------------------------
(***************************************************************************)
(* What holds of the queue for every number of producers, every number of  *)
(* slots and every width of the indices.                                   *)
(*                                                                         *)
(* The indices are the lengths of accepted and delivered, wrapped, and the *)
(* two lengths are never IndexMod apart: so the wrapped difference is the  *)
(* true one.  Every accepted message that has not been delivered, and the  *)
(* destructor's post, is one token: still with its producer, in the        *)
(* semaphore, or with the dispatch thread.                                 *)
(***************************************************************************)

\* Messages that own an index and have not been delivered.
Backlog == Len(accepted) - Len(delivered)

Checked == {p \in Producers : prod[p].pc = "checked"}
FillPcs == {"claimed", "half", "filled"}
Filling == {p \in Producers : prod[p].pc \in FillPcs}

ReadPcs   == {"read", "half", "call"}
DispToken == IF disp.pc = "wait" THEN 0 ELSE 1
EndToken  == IF closed THEN 1 ELSE 0

Counters ==
  /\ write_index = Len(accepted) % IndexMod
  /\ read_index = Len(delivered) % IndexMod
  /\ Len(delivered) <= Len(accepted)

\* A call that has seen space may still claim an index.
Bound == Backlog + Cardinality(Checked) <= BUF_COUNT + Cardinality(Producers)

Tokens == waiting + Cardinality(Filling) + DispToken = Backlog + EndToken

Phases ==
  /\ disp.pc \in ReadPcs => Backlog > 0
  /\ disp.pc = "done" => closed /\ Backlog = 0
  /\ closed => \A p \in Producers : prod[p].pc = "idle"

IInv == TypeOK /\ Counters /\ Bound /\ Tokens /\ Phases
-----------------------------------------------------------------------------
(***************************************************************************)
(* The indices                                                             *)
(***************************************************************************)
LEMMA SetSizes ==
  ASSUME NEW S \in SUBSET Producers
  PROVE  /\ IsFiniteSet(S)
         /\ Cardinality(S) \in Nat
         /\ Cardinality(S) <= Cardinality(Producers)
         /\ Cardinality(Producers) \in Nat
BY QueueAssumption, FS_Subset, FS_CardinalityType

LEMMA BacklogBound ==
  ASSUME TypeOK, Counters, Bound
  PROVE  /\ Backlog \in 0 .. BUF_COUNT + Cardinality(Producers)
         /\ Backlog < IndexMod
<1>1. Checked \in SUBSET Producers
  BY DEF Checked
<1>2. Cardinality(Checked) \in Nat /\ Cardinality(Producers) \in Nat
  BY <1>1, SetSizes
<1>3. Len(accepted) \in Nat /\ Len(delivered) \in Nat
  BY DEF TypeOK
<1> QED
  BY <1>2, <1>3, QueueAssumption DEF Counters, Bound, Backlog

\* The wrapped difference the code computes is the backlog.
LEMMA OutstandingIsBacklog ==
  ASSUME TypeOK, Counters, Bound
  PROVE  Outstanding = Backlog
<1>1. Len(accepted) \in Nat /\ Len(delivered) \in Nat
  BY DEF TypeOK
<1>2. Len(accepted) >= Len(delivered) /\ Len(accepted) - Len(delivered) < IndexMod
  BY <1>1, BacklogBound DEF Counters, Backlog
<1>3. IndexMod \in Nat \ {0}
  BY QueueAssumption
<1> QED
  BY <1>1, <1>2, <1>3, ModDiff DEF Outstanding, Counters, Backlog
-----------------------------------------------------------------------------
(***************************************************************************)
(* Types                                                                   *)
(***************************************************************************)
LEMMA WrapType ==
  ASSUME NEW a \in Nat
  PROVE  a % IndexMod \in Indices
BY QueueAssumption, DivMod DEF Indices

\* The slot an index stands for.
LEMMA IndexSlot ==
  ASSUME NEW a \in Indices
  PROVE  a % BUF_COUNT \in 0 .. BUF_COUNT - 1
BY QueueAssumption, DivMod DEF Indices

LEMMA InitTypeOK == Init => TypeOK
<1> SUFFICES ASSUME Init PROVE TypeOK
  OBVIOUS
<1>1. 0 \in Indices /\ 0 \in Messages /\ 0 \in 0 .. MaxPosts
  BY QueueAssumption DEF Indices, Messages
<1>2. accepted \in Seq(Messages) /\ delivered \in Seq(Slot)
  BY DEF Init
<1>3. buf \in [0 .. BUF_COUNT - 1 -> Slot]
  BY <1>1 DEF Init, Slot
<1>4. prod \in [Producers -> [pc : ProdPcs, msg : Messages, index : Indices]]
  BY <1>1 DEF Init, ProdPcs
<1>5. disp \in [pc : DispPcs, head : Messages, tail : Messages]
  BY <1>1 DEF Init, DispPcs
<1> QED
  BY <1>1, <1>2, <1>3, <1>4, <1>5 DEF Init, TypeOK

LEMMA PostTypeOK ==
  ASSUME TypeOK, NEW p \in Producers, Post(p)
  PROVE  TypeOK'
<1> DEFINE P == [pc : ProdPcs, msg : Messages, index : Indices]
<1>0. prod \in [Producers -> P] /\ prod[p] \in P
  BY DEF TypeOK
<1>1. CASE PostCheck(p)
  <2>1. posts' \in 0 .. MaxPosts /\ posts + 1 \in Messages
    BY <1>1, QueueAssumption DEF PostCheck, TypeOK, Messages
  <2>2. [pc |-> "checked", msg |-> posts + 1, index |-> 0] \in P
    BY <2>1, QueueAssumption DEF ProdPcs, Indices
  <2>3. prod' \in [Producers -> P]
    BY <1>0, <1>1, <2>2 DEF PostCheck
  <2>4. missed' \in Nat
    BY <1>1 DEF PostCheck, TypeOK
  <2>5. overlap' \in BOOLEAN
    BY <1>1 DEF PostCheck, TypeOK
  <2> QED
    BY <1>1, <2>1, <2>3, <2>4, <2>5 DEF PostCheck, TypeOK
<1>2. CASE PostClaim(p)
  <2>1. write_index + 1 \in Nat
    BY DEF TypeOK, Indices
  <2>2. write_index' \in Indices
    BY <1>2, <2>1, WrapType DEF PostClaim
  <2>3. [prod[p] EXCEPT !.pc = "claimed", !.index = write_index] \in P
    BY <1>0 DEF TypeOK, ProdPcs
  <2>4. prod' \in [Producers -> P]
    BY <1>0, <1>2, <2>3 DEF PostClaim
  <2>5. accepted' \in Seq(Messages)
    BY <1>0, <1>2 DEF PostClaim, TypeOK
  <2>6. overflow' \in BOOLEAN
    BY <1>2 DEF PostClaim, TypeOK
  <2> QED
    BY <1>2, <2>2, <2>4, <2>5, <2>6 DEF PostClaim, TypeOK
<1>3. CASE PostFill(p)
  <2>1. prod' \in [Producers -> P]
    BY <1>0, <1>3 DEF PostFill, ProdGoto, ProdPcs
  <2> DEFINE i == prod[p].index % BUF_COUNT
  <2>2. \E v \in Slot : buf' = [buf EXCEPT ![i] = v]
    <3>1. i \in 0 .. BUF_COUNT - 1
      BY <1>0, IndexSlot
    <3> HIDE DEF i
    <3>2. buf[i] \in Slot /\ prod[p].msg \in Messages
      BY <1>0, <3>1 DEF TypeOK
    <3>3. CASE prod[p].pc = "claimed"
      <4>1. buf' = [buf EXCEPT ![i] = [buf[i] EXCEPT !.head = prod[p].msg]]
        BY <1>3, <3>3 DEF PostFill, i
      <4>2. [buf[i] EXCEPT !.head = prod[p].msg] \in Slot
        BY <3>2 DEF Slot
      <4> QED
        BY <4>1, <4>2
    <3>4. CASE prod[p].pc = "half"
      <4>1. buf' = [buf EXCEPT ![i] = [buf[i] EXCEPT !.tail = prod[p].msg]]
        BY <1>3, <3>4 DEF PostFill, i
      <4>2. [buf[i] EXCEPT !.tail = prod[p].msg] \in Slot
        BY <3>2 DEF Slot
      <4> QED
        BY <4>1, <4>2
    <3> QED
      BY <1>3, <3>3, <3>4 DEF PostFill
  <2>3. buf' \in [0 .. BUF_COUNT - 1 -> Slot]
    BY <2>2 DEF TypeOK
  <2> QED
    BY <1>3, <2>1, <2>3 DEF PostFill, TypeOK
<1>4. CASE PostEvent(p)
  <2>1. prod' \in [Producers -> P]
    BY <1>0, <1>4 DEF PostEvent, ProdGoto, ProdPcs
  <2>2. waiting' \in Nat
    BY <1>4 DEF PostEvent, TypeOK
  <2> QED
    BY <1>4, <2>1, <2>2 DEF PostEvent, TypeOK
<1> QED
  BY <1>1, <1>2, <1>3, <1>4 DEF Post

LEMMA CloseTypeOK ==
  ASSUME TypeOK, Close
  PROVE  TypeOK'
BY DEF Close, TypeOK

LEMMA ReadSlot ==
  ASSUME TypeOK
  PROVE  buf[read_index % BUF_COUNT] \in Slot
BY IndexSlot DEF TypeOK

LEMMA DispatchTypeOK ==
  ASSUME TypeOK, Dispatch
  PROVE  TypeOK'
<1> DEFINE R == [pc : DispPcs, head : Messages, tail : Messages]
<1>0. disp \in R
  BY DEF TypeOK
<1>1. CASE DispWait
  <2>1. disp' \in R
    BY <1>0, <1>1 DEF DispWait, DispGoto, DispPcs
  <2>2. waiting' \in Nat
    BY <1>1 DEF DispWait, TypeOK
  <2> QED
    BY <1>1, <2>1, <2>2 DEF DispWait, TypeOK
<1>2. CASE DispCheck
  <2>1. disp' \in R
    BY <1>0, <1>2 DEF DispCheck, DispGoto, DispPcs
  <2> QED
    BY <1>2, <2>1 DEF DispCheck, TypeOK
<1>3. CASE DispRead
  <2>1. disp' \in R
    BY <1>0, <1>3, ReadSlot DEF DispRead, DispPcs, Slot
  <2> QED
    BY <1>3, <2>1 DEF DispRead, TypeOK
<1>4. CASE DispCall
  <2>1. disp' \in R
    BY <1>0, <1>4 DEF DispCall, DispGoto, DispPcs
  <2>2. delivered' \in Seq(Slot)
    BY <1>0, <1>4 DEF DispCall, TypeOK, Slot
  <2>3. read_index + 1 \in Nat
    BY DEF TypeOK, Indices
  <2>4. read_index' \in Indices
    BY <1>4, <2>3, WrapType DEF DispCall
  <2> QED
    BY <1>4, <2>1, <2>2, <2>4 DEF DispCall, TypeOK
<1> QED
  BY <1>1, <1>2, <1>3, <1>4 DEF Dispatch
-----------------------------------------------------------------------------
(***************************************************************************)
(* The steps of a post                                                     *)
(***************************************************************************)
LEMMA InitIInv == Init => IInv
<1> SUFFICES ASSUME Init PROVE IInv
  OBVIOUS
<1>1. TypeOK
  BY InitTypeOK
<1>2. Len(accepted) = 0 /\ Len(delivered) = 0
  BY DEF Init
<1>3. 0 % IndexMod = 0
  BY QueueAssumption
<1>4. Checked = {} /\ Filling = {}
  BY DEF Init, Checked, Filling, FillPcs
<1>5. Cardinality(Checked) = 0 /\ Cardinality(Filling) = 0
  BY <1>4, FS_EmptySet
<1>6. Cardinality(Producers) \in Nat
  BY QueueAssumption, FS_CardinalityType
<1>7. Counters
  BY <1>2, <1>3 DEF Init, Counters
<1>8. Bound
  BY <1>2, <1>5, <1>6, QueueAssumption DEF Bound, Backlog
<1>9. Tokens
  BY <1>2, <1>5 DEF Init, Tokens, Backlog, DispToken, EndToken
<1>10. Phases
  BY DEF Init, Phases, ReadPcs
<1> QED
  BY <1>1, <1>7, <1>8, <1>9, <1>10 DEF IInv

\* Only the calling thread's place changes.
LEMMA ProdSets ==
  ASSUME TypeOK, NEW p \in Producers, NEW pc,
         \A q \in Producers : prod'[q].pc = IF q = p THEN pc ELSE prod[q].pc
  PROVE  /\ Checked' = IF pc = "checked" THEN Checked \cup {p} ELSE Checked \ {p}
         /\ Filling' = IF pc \in FillPcs THEN Filling \cup {p} ELSE Filling \ {p}
BY DEF Checked, Filling

LEMMA GotoPcs ==
  ASSUME TypeOK, NEW p \in Producers, NEW pc, ProdGoto(p, pc)
  PROVE  \A q \in Producers : prod'[q].pc = IF q = p THEN pc ELSE prod[q].pc
BY DEF TypeOK, ProdGoto

LEMMA OneMore ==
  ASSUME NEW S \in SUBSET Producers, NEW p \in Producers
  PROVE  Cardinality(S \cup {p}) =
           IF p \in S THEN Cardinality(S) ELSE Cardinality(S) + 1
BY SetSizes, FS_AddElement

LEMMA OneLess ==
  ASSUME NEW S \in SUBSET Producers, NEW p \in Producers
  PROVE  Cardinality(S \ {p}) =
           IF p \in S THEN Cardinality(S) - 1 ELSE Cardinality(S)
<1>1. IsFiniteSet(S)
  BY SetSizes
<1>2. CASE p \in S
  BY <1>1, <1>2, FS_RemoveElement
<1>3. CASE p \notin S
  <2>1. S \ {p} = S
    BY <1>3
  <2> QED
    BY <1>3, <2>1
<1> QED
  BY <1>2, <1>3

\* The space test: what it admits still fits once every thread has claimed.
LEMMA PostCheckIInv ==
  ASSUME IInv, NEW p \in Producers, PostCheck(p)
  PROVE  IInv'
<1>0. TypeOK /\ Counters /\ Bound /\ Tokens /\ Phases /\ TypeOK'
  BY PostTypeOK DEF IInv, Post
<1>1. /\ UNCHANGED <<write_index, read_index, waiting, disp, closed, accepted, delivered>>
      /\ ~closed
      /\ prod[p].pc = "idle"
  BY DEF PostCheck
<1>2. CASE Outstanding > BUF_COUNT /\ UNCHANGED prod
  BY <1>0, <1>1, <1>2 DEF IInv, Counters, Bound, Tokens, Phases, Backlog, Checked,
    Filling, DispToken, EndToken
<1>3. CASE ~(Outstanding > BUF_COUNT)
           /\ prod' = [prod EXCEPT ![p] = [pc |-> "checked", msg |-> posts + 1, index |-> 0]]
  <2>1. \A q \in Producers : prod'[q].pc = IF q = p THEN "checked" ELSE prod[q].pc
    BY <1>0, <1>3 DEF TypeOK
  <2>2. Checked' = Checked \cup {p} /\ Filling' = Filling \ {p}
    BY <1>0, <2>1, ProdSets DEF FillPcs
  <2>3. Filling' = Filling
    BY <1>1, <2>2 DEF Filling, FillPcs
  <2>4. Backlog <= BUF_COUNT /\ Backlog' = Backlog /\ Backlog \in Nat
    BY <1>0, <1>1, <1>3, OutstandingIsBacklog, BacklogBound, QueueAssumption DEF Backlog
  <2>5. Checked' \in SUBSET Producers
    BY <2>2 DEF Checked
  <2>6. /\ Cardinality(Checked') <= Cardinality(Producers)
        /\ Cardinality(Checked') \in Nat /\ Cardinality(Producers) \in Nat
    BY <2>5, SetSizes
  <2>7. Bound'
    BY <2>4, <2>6, QueueAssumption DEF Bound
  <2>8. Counters'
    BY <1>0, <1>1 DEF Counters
  <2>9. Tokens'
    BY <1>0, <1>1, <2>3, <2>4 DEF Tokens, DispToken, EndToken
  <2>10. Phases'
    BY <1>0, <1>1, <2>4 DEF Phases
  <2> QED
    BY <1>0, <2>7, <2>8, <2>9, <2>10 DEF IInv
<1> QED
  BY <1>2, <1>3 DEF PostCheck

\* The claim: the index is a message's, and the message is a token.
LEMMA PostClaimIInv ==
  ASSUME IInv, NEW p \in Producers, PostClaim(p)
  PROVE  IInv'
<1>0. TypeOK /\ Counters /\ Bound /\ Tokens /\ Phases /\ TypeOK'
  BY PostTypeOK DEF IInv, Post
<1>1. /\ UNCHANGED <<read_index, waiting, disp, closed, delivered>>
      /\ prod[p].pc = "checked"
      /\ ~closed
  BY <1>0 DEF PostClaim, Phases
<1>2. \A q \in Producers : prod'[q].pc = IF q = p THEN "claimed" ELSE prod[q].pc
  BY <1>0 DEF PostClaim, TypeOK
<1>3. Checked' = Checked \ {p} /\ Filling' = Filling \cup {p}
  BY <1>0, <1>2, ProdSets DEF FillPcs
<1>4. p \in Checked /\ p \notin Filling
  BY <1>1 DEF Checked, Filling, FillPcs
<1>5. Checked \in SUBSET Producers /\ Filling \in SUBSET Producers
  BY DEF Checked, Filling
<1>6. /\ Cardinality(Checked') = Cardinality(Checked) - 1
      /\ Cardinality(Filling') = Cardinality(Filling) + 1
      /\ Cardinality(Checked) \in Nat /\ Cardinality(Filling) \in Nat
      /\ Cardinality(Producers) \in Nat
  BY <1>3, <1>4, <1>5, OneMore, OneLess, SetSizes
<1>7. Len(accepted') = Len(accepted) + 1 /\ Len(accepted) \in Nat /\ Len(delivered) \in Nat
  BY <1>0 DEF PostClaim, TypeOK
<1>8. Backlog' = Backlog + 1 /\ Backlog \in Nat
  BY <1>0, <1>1, <1>7, BacklogBound, QueueAssumption DEF Backlog
<1>9. Counters'
  <2>1. write_index' = Len(accepted') % IndexMod
    <3>1. write_index' = ((Len(accepted) % IndexMod) + 1) % IndexMod
      BY <1>0 DEF PostClaim, Counters
    <3> QED
      BY <3>1, <1>7, ModSucc, QueueAssumption
  <2> QED
    BY <1>0, <1>1, <1>7, <2>1 DEF Counters
<1>10. Bound'
  BY <1>0, <1>6, <1>8, QueueAssumption DEF Bound
<1>11. Tokens'
  BY <1>0, <1>1, <1>6, <1>8 DEF Tokens, DispToken, EndToken, TypeOK
<1>12. Phases'
  BY <1>0, <1>1, <1>8 DEF Phases
<1> QED
  BY <1>0, <1>9, <1>10, <1>11, <1>12 DEF IInv

\* Filling the slot moves nothing.
LEMMA PostFillIInv ==
  ASSUME IInv, NEW p \in Producers, PostFill(p)
  PROVE  IInv'
<1>0. TypeOK /\ Counters /\ Bound /\ Tokens /\ Phases /\ TypeOK'
  BY PostTypeOK DEF IInv, Post
<1>1. UNCHANGED <<write_index, read_index, waiting, disp, closed, accepted, delivered>>
  BY DEF PostFill
<1>2. PICK pc \in {"half", "filled"} : prod[p].pc \in FillPcs /\ ProdGoto(p, pc)
  BY DEF PostFill, FillPcs
<1>3. \A q \in Producers : prod'[q].pc = IF q = p THEN pc ELSE prod[q].pc
  BY <1>0, <1>2, GotoPcs
<1>4. Checked' = Checked \ {p} /\ Filling' = Filling \cup {p}
  BY <1>0, <1>2, <1>3, ProdSets DEF FillPcs
<1>5. Checked' = Checked /\ Filling' = Filling
  BY <1>2, <1>4 DEF Checked, Filling, FillPcs
<1>6. Backlog' = Backlog
  BY <1>1 DEF Backlog
<1>7. ~closed
  BY <1>0, <1>2 DEF Phases, FillPcs
<1> QED
  BY <1>0, <1>1, <1>5, <1>6, <1>7 DEF IInv, Counters, Bound, Tokens, Phases,
    DispToken, EndToken

\* The post: the token passes to the semaphore.
LEMMA PostEventIInv ==
  ASSUME IInv, NEW p \in Producers, PostEvent(p)
  PROVE  IInv'
<1>0. TypeOK /\ Counters /\ Bound /\ Tokens /\ Phases /\ TypeOK'
  BY PostTypeOK DEF IInv, Post
<1>1. /\ UNCHANGED <<write_index, read_index, disp, closed, accepted, delivered>>
      /\ prod[p].pc = "filled"
      /\ waiting' = waiting + 1
      /\ ~closed
  BY <1>0 DEF PostEvent, Phases
<1>2. \A q \in Producers : prod'[q].pc = IF q = p THEN "idle" ELSE prod[q].pc
  BY <1>0, GotoPcs DEF PostEvent
<1>3. Checked' = Checked \ {p} /\ Filling' = Filling \ {p}
  BY <1>0, <1>2, ProdSets DEF FillPcs
<1>4. Checked' = Checked /\ p \in Filling /\ Filling \in SUBSET Producers
  BY <1>1, <1>3 DEF Checked, Filling, FillPcs
<1>5. Cardinality(Filling') = Cardinality(Filling) - 1 /\ Cardinality(Filling) \in Nat
  BY <1>3, <1>4, OneLess, SetSizes
<1>6. Backlog' = Backlog /\ Backlog \in Nat
  BY <1>0, <1>1, BacklogBound, QueueAssumption DEF Backlog
<1>7. Tokens'
  BY <1>0, <1>1, <1>5, <1>6 DEF Tokens, DispToken, EndToken, TypeOK
<1> QED
  BY <1>0, <1>1, <1>4, <1>6, <1>7 DEF IInv, Counters, Bound, Phases

\* The destructor's post is a token without a message.
LEMMA CloseIInv ==
  ASSUME IInv, Close
  PROVE  IInv'
<1>0. TypeOK /\ Counters /\ Bound /\ Tokens /\ Phases /\ TypeOK'
  BY CloseTypeOK DEF IInv
<1>1. /\ UNCHANGED <<write_index, read_index, prod, disp, accepted, delivered>>
      /\ waiting' = waiting + 1 /\ closed' /\ ~closed
      /\ \A p \in Producers : prod[p].pc = "idle"
  BY DEF Close
<1>2. Backlog' = Backlog /\ Checked' = Checked /\ Filling' = Filling
  BY <1>1 DEF Backlog, Checked, Filling
<1>3. Backlog \in Nat /\ waiting \in Nat
  BY <1>0, BacklogBound, QueueAssumption DEF TypeOK
<1>4. Cardinality(Filling) \in Nat
  BY SetSizes DEF Filling
<1>5. Tokens'
  <2>1. EndToken = 0 /\ EndToken' = 1
    BY <1>1 DEF EndToken
  <2>2. DispToken' = DispToken /\ DispToken \in Nat
    BY <1>1 DEF DispToken
  <2> QED
    BY <1>0, <1>1, <1>2, <1>3, <1>4, <2>1, <2>2 DEF Tokens
<1> QED
  BY <1>0, <1>1, <1>2, <1>5 DEF IInv, Counters, Bound, Phases, ReadPcs
-----------------------------------------------------------------------------
(***************************************************************************)
(* The steps of the dispatch thread                                        *)
(***************************************************************************)
LEMMA DispatchIInv ==
  ASSUME IInv, Dispatch
  PROVE  IInv'
<1>0. TypeOK /\ Counters /\ Bound /\ Tokens /\ Phases /\ TypeOK'
  BY DispatchTypeOK DEF IInv
<1>1. UNCHANGED <<write_index, prod, closed, accepted>>
  BY DEF Dispatch, DispWait, DispCheck, DispRead, DispCall
<1>2. Checked' = Checked /\ Filling' = Filling
  BY <1>1 DEF Checked, Filling
<1>3. /\ Cardinality(Filling) \in Nat /\ Cardinality(Checked) \in Nat
      /\ Cardinality(Producers) \in Nat
  BY SetSizes DEF Filling, Checked
<1>4. Backlog \in Nat /\ waiting \in Nat /\ Len(accepted) \in Nat /\ Len(delivered) \in Nat
  BY <1>0, BacklogBound, QueueAssumption DEF TypeOK
<1>5. CASE DispWait
  <2>1. /\ UNCHANGED <<read_index, delivered>>
        /\ waiting' = waiting - 1
        /\ disp.pc = "wait" /\ disp'.pc = "awake"
    BY <1>0, <1>5 DEF DispWait, DispGoto, TypeOK
  <2>2. Backlog' = Backlog
    BY <1>1, <2>1 DEF Backlog
  <2>3. Tokens'
    BY <1>0, <1>1, <1>2, <1>3, <1>4, <2>1, <2>2 DEF Tokens, DispToken, EndToken
  <2> QED
    BY <1>0, <1>1, <1>2, <2>1, <2>2, <2>3 DEF IInv, Counters, Bound, Phases, ReadPcs
<1>6. CASE DispCheck
  <2>1. /\ UNCHANGED <<read_index, delivered, waiting>>
        /\ disp.pc = "awake"
        /\ disp'.pc = IF Outstanding > 0 THEN "read" ELSE "done"
    BY <1>0, <1>6 DEF DispCheck, DispGoto, TypeOK
  <2>2. Backlog' = Backlog /\ Outstanding = Backlog
    BY <1>0, <1>1, <2>1, OutstandingIsBacklog DEF Backlog
  <2>3. Tokens'
    BY <1>0, <1>1, <1>2, <2>1, <2>2 DEF Tokens, DispToken, EndToken
  <2>4. Backlog = 0 => closed
    BY <1>0, <1>3, <1>4, <2>1 DEF Tokens, DispToken, EndToken
  <2>5. Phases'
    BY <1>0, <1>1, <1>4, <2>1, <2>2, <2>4 DEF Phases, ReadPcs
  <2> QED
    BY <1>0, <1>1, <1>2, <2>1, <2>2, <2>3, <2>5 DEF IInv, Counters, Bound
<1>7. CASE DispRead
  <2>1. /\ UNCHANGED <<read_index, delivered, waiting>>
        /\ disp.pc \in {"read", "half"} /\ disp'.pc \in {"half", "call"}
    BY <1>0, <1>7 DEF DispRead, TypeOK
  <2>2. Backlog' = Backlog
    BY <1>1, <2>1 DEF Backlog
  <2>3. Tokens'
    BY <1>0, <1>1, <1>2, <2>1, <2>2 DEF Tokens, DispToken, EndToken
  <2> QED
    BY <1>0, <1>1, <1>2, <2>1, <2>2, <2>3 DEF IInv, Counters, Bound, Phases, ReadPcs
<1>8. CASE DispCall
  <2>1. /\ UNCHANGED waiting
        /\ disp.pc = "call" /\ disp'.pc = "wait"
    BY <1>0, <1>8 DEF DispCall, DispGoto, TypeOK
  <2>2. Len(delivered') = Len(delivered) + 1
    BY <1>0, <1>8 DEF DispCall, TypeOK
  <2>3. Backlog' = Backlog - 1 /\ Backlog > 0
    BY <1>0, <1>1, <1>4, <2>1, <2>2 DEF Backlog, Phases, ReadPcs
  <2>4. Counters'
    <3>1. read_index' = Len(delivered') % IndexMod
      <4>1. read_index' = ((Len(delivered) % IndexMod) + 1) % IndexMod
        BY <1>0, <1>8 DEF DispCall, Counters
      <4>2. Len(delivered) \in Nat
        BY <1>0 DEF TypeOK
      <4> QED
        BY <4>1, <4>2, <2>2, ModSucc, QueueAssumption
    <3> QED
      BY <1>0, <1>1, <1>4, <2>2, <2>3, <3>1 DEF Counters, Backlog
  <2>5. Bound'
    BY <1>0, <1>2, <1>3, <1>4, <2>3, QueueAssumption DEF Bound
  <2>6. Tokens'
    BY <1>0, <1>1, <1>2, <1>3, <1>4, <2>1, <2>3 DEF Tokens, DispToken, EndToken
  <2>7. Phases'
    BY <1>0, <1>1, <2>1 DEF Phases, ReadPcs
  <2> QED
    BY <1>0, <2>4, <2>5, <2>6, <2>7 DEF IInv
<1> QED
  BY <1>5, <1>6, <1>7, <1>8 DEF Dispatch
-----------------------------------------------------------------------------
LEMMA NextIInv == IInv /\ [Next]_queueVars => IInv'
<1> SUFFICES ASSUME IInv, [Next]_queueVars PROVE IInv'
  OBVIOUS
<1>1. CASE \E p \in Producers : Post(p)
  BY <1>1, PostCheckIInv, PostClaimIInv, PostFillIInv, PostEventIInv DEF Post
<1>2. CASE Close
  BY <1>2, CloseIInv
<1>3. CASE Dispatch
  BY <1>3, DispatchIInv
<1>4. CASE UNCHANGED queueVars
  BY <1>4 DEF queueVars, IInv, TypeOK, Counters, Bound, Tokens, Phases, Backlog,
    Checked, Filling, DispToken, EndToken
<1> QED
  BY <1>1, <1>2, <1>3, <1>4 DEF Next

\* The invariant of the queue.
THEOREM Invariant == Spec => []IInv
<1>1. Init => IInv
  BY InitIInv
<1>2. IInv /\ [Next]_queueVars => IInv'
  BY NextIInv
<1> QED
  BY <1>1, <1>2, PTL DEF Spec

\* Every variable keeps its type.
THEOREM TypeCorrect == Spec => []TypeOK
<1>1. IInv => TypeOK
  BY DEF IInv
<1> QED
  BY <1>1, Invariant, PTL

\* The dispatch thread never takes a message's wake-up for the destructor's.
THEOREM NeverStopsEarly == Spec => []StopsOnlyWhenClosed
<1>1. IInv => StopsOnlyWhenClosed
  BY DEF IInv, Phases, StopsOnlyWhenClosed
<1> QED
  BY <1>1, Invariant, PTL

\* The destructor's post overtakes no message.
THEOREM NothingLostAtStop == Spec => []DrainedAtStop
<1>1. IInv => DrainedAtStop
  <2> SUFFICES ASSUME IInv, disp.pc = "done" PROVE Len(delivered) = Len(accepted)
    BY DEF DrainedAtStop
  <2>1. Len(accepted) \in Nat /\ Len(delivered) \in Nat
    BY DEF IInv, TypeOK
  <2> QED
    BY <2>1 DEF IInv, Phases, Backlog
<1> QED
  BY <1>1, Invariant, PTL

\* However many threads pass the space test at once, the queue holds at most
\* one message more for each of them.
THEOREM OverflowIsBounded == Spec => []OverflowBounded
<1>1. IInv => OverflowBounded
  <2> SUFFICES ASSUME IInv PROVE OverflowBounded
    OBVIOUS
  <2>1. Backlog \in 0 .. BUF_COUNT + Cardinality(Producers)
    BY BacklogBound DEF IInv
  <2> QED
    BY <2>1 DEF OverflowBounded, Backlog
<1> QED
  BY <1>1, Invariant, PTL
-----------------------------------------------------------------------------
(***************************************************************************)
(* What is delivered                                                       *)
(***************************************************************************)
\* The slot of the k-th message.
SlotOf(k) == buf[(k - 1) % BUF_COUNT]
Whole(m)  == [head |-> m, tail |-> m]

\* The k-th message is posted: no thread is still filling its slot.
Posted(k) == Filling # {} => k # Len(accepted)

Alone == \A p, q \in Producers : prod[p].pc # "idle" /\ prod[q].pc # "idle" => p = q

\* The thread that owns the last index fills its slot with its message.
FillingLast ==
  \A p \in Filling :
    /\ prod[p].index = (Len(accepted) - 1) % IndexMod
    /\ prod[p].msg = accepted[Len(accepted)]
    /\ prod[p].pc # "claimed" => SlotOf(Len(accepted)).head = accepted[Len(accepted)]
    /\ prod[p].pc = "filled"  => SlotOf(Len(accepted)).tail = accepted[Len(accepted)]

SlotsIntact ==
  \A k \in Len(delivered) + 1 .. Len(accepted) :
    Posted(k) => SlotOf(k) = Whole(accepted[k])

ReadIntact ==
  /\ disp.pc \in {"half", "call"} => disp.head = accepted[Len(delivered) + 1]
  /\ disp.pc = "call" => disp.tail = accepted[Len(delivered) + 1]

Intact ==
  Backlog <= BUF_COUNT /\ Alone /\ FillingLast /\ SlotsIntact /\ ReadIntact /\ DeliveredIntact

IntactInv == IInv /\ (~overflow /\ ~overlap => Intact)

LEMMA WrapSlot ==
  ASSUME NEW a \in Nat
  PROVE  (a % IndexMod) % BUF_COUNT = a % BUF_COUNT
BY QueueAssumption, ModMod

LEMMA Lengths ==
  ASSUME IInv
  PROVE  /\ Len(accepted) \in Nat /\ Len(delivered) \in Nat
         /\ Len(delivered) <= Len(accepted)
         /\ Backlog = Len(accepted) - Len(delivered)
         /\ Backlog \in Nat
         /\ DOMAIN accepted = 1 .. Len(accepted)
         /\ DOMAIN delivered = 1 .. Len(delivered)
BY DEF IInv, TypeOK, Counters, Backlog

\* A thread that is filling a slot is one message of the backlog, and the
\* message the dispatch thread reads is another.
LEMMA FillingBacklog ==
  ASSUME IInv, Filling # {}
  PROVE  /\ Backlog >= 1
         /\ disp.pc \in ReadPcs => Backlog >= 2
<1>1. Filling \in SUBSET Producers
  BY DEF Filling
<1>2. Cardinality(Filling) \in Nat /\ Cardinality(Filling) # 0
  BY <1>1, SetSizes, FS_EmptySet
<1>3. ~closed
  BY DEF IInv, Phases, Filling, FillPcs
<1>4. waiting \in Nat /\ Backlog \in Nat
  BY Lengths DEF IInv, TypeOK
<1>5. EndToken = 0 /\ DispToken \in Nat /\ (disp.pc \in ReadPcs => DispToken = 1)
  BY <1>3 DEF EndToken, DispToken, ReadPcs
<1>6. waiting + Cardinality(Filling) + DispToken = Backlog + EndToken
  BY DEF IInv, Tokens
<1> QED
  BY <1>2, <1>4, <1>5, <1>6

\* Two messages of a backlog that fits have different slots.
LEMMA SlotsApart ==
  ASSUME IInv, Backlog <= BUF_COUNT,
         NEW j \in Len(delivered) + 1 .. Len(accepted),
         NEW k \in Len(delivered) + 1 .. Len(accepted),
         (j - 1) % BUF_COUNT = (k - 1) % BUF_COUNT
  PROVE  j = k
<1>1. /\ j \in Nat /\ k \in Nat /\ j - 1 \in Nat /\ k - 1 \in Nat
      /\ BUF_COUNT \in Nat \ {0}
  BY Lengths, QueueAssumption
<1>2. CASE j >= k
  <2>1. (j - 1) >= (k - 1) /\ (j - 1) - (k - 1) < BUF_COUNT
    BY <1>1, <1>2, Lengths
  <2>2. j - 1 = k - 1
    BY <1>1, <2>1, ModUnique
  <2> QED
    BY <1>1, <2>2
<1>3. CASE k >= j
  <2>1. (k - 1) >= (j - 1) /\ (k - 1) - (j - 1) < BUF_COUNT
    BY <1>1, <1>3, Lengths
  <2>2. k - 1 = j - 1
    BY <1>1, <2>1, ModUnique
  <2> QED
    BY <1>1, <2>2
<1> QED
  BY <1>1, <1>2, <1>3

LEMMA InitIntact == Init => IntactInv
<1> SUFFICES ASSUME Init PROVE IntactInv
  OBVIOUS
<1>1. IInv
  BY InitIInv
<1>2. accepted = <<>> /\ delivered = <<>> /\ disp.pc = "wait" /\ Filling = {}
  BY DEF Init, Filling, FillPcs
<1>3. Backlog <= BUF_COUNT
  BY <1>2, QueueAssumption DEF Backlog
<1>4. Alone
  BY DEF Init, Alone
<1>5. FillingLast /\ SlotsIntact
  BY <1>2 DEF FillingLast, SlotsIntact
<1>6. ReadIntact /\ DeliveredIntact
  BY <1>2 DEF ReadIntact, DeliveredIntact
<1> QED
  BY <1>1, <1>3, <1>4, <1>5, <1>6 DEF IntactInv, Intact

LEMMA PostCheckIntact ==
  ASSUME IInv, Intact, NEW p \in Producers, PostCheck(p), ~overlap'
  PROVE  Intact'
<1>1. UNCHANGED <<buf, disp, accepted, delivered>>
  BY DEF PostCheck
<1>2. UNCHANGED prod \/ prod' = [prod EXCEPT ![p] = [pc |-> "checked", msg |-> posts + 1, index |-> 0]]
  BY DEF PostCheck
<1>3. \A q \in Producers \ {p} : prod[q].pc = "idle"
  BY DEF PostCheck
<1>4. \A q \in Producers : prod'[q] = prod[q] \/ (q = p /\ prod'[q].pc = "checked")
  BY <1>2 DEF IInv, TypeOK
<1>5. Filling' = {}
  BY <1>3, <1>4 DEF Filling, FillPcs, PostCheck
<1>6. Filling = {}
  BY <1>3 DEF Filling, FillPcs, PostCheck
<1>7. Alone'
  BY <1>3, <1>4 DEF Alone
<1>8. FillingLast'
  BY <1>5 DEF FillingLast
<1>9. SlotsIntact'
  BY <1>1, <1>5, <1>6 DEF Intact, SlotsIntact, SlotOf, Posted
<1> QED
  BY <1>1, <1>7, <1>8, <1>9 DEF Intact, Backlog, ReadIntact, DeliveredIntact

LEMMA PostClaimIntact ==
  ASSUME IInv, Intact, NEW p \in Producers, PostClaim(p), ~overflow'
  PROVE  Intact'
<1> DEFINE n == Len(accepted)
<1>0. TypeOK /\ Alone
  BY DEF IInv, Intact
<1>1. UNCHANGED <<buf, disp, delivered>> /\ prod[p].pc = "checked"
  BY DEF PostClaim
<1>2. /\ Len(accepted') = n + 1 /\ accepted'[n + 1] = prod[p].msg
      /\ \A k \in 1 .. n : accepted'[k] = accepted[k]
      /\ n \in Nat
  BY <1>0 DEF PostClaim, TypeOK
<1>3. \A q \in Producers : q # p => prod[q].pc = "idle" /\ prod'[q] = prod[q]
  BY <1>0, <1>1 DEF Alone, PostClaim, TypeOK
<1>4. prod'[p].pc = "claimed" /\ prod'[p].msg = prod[p].msg /\ prod'[p].index = write_index
  BY <1>0 DEF PostClaim, TypeOK
<1>5. Filling' = {p} /\ Filling = {}
  BY <1>1, <1>3, <1>4 DEF Filling, FillPcs
<1>6. Backlog' <= BUF_COUNT
  <2>1. ~(Backlog >= BUF_COUNT)
    BY DEF PostClaim, Backlog
  <2>2. Backlog' = Backlog + 1 /\ Backlog \in Nat
    BY <1>1, <1>2, Lengths DEF Backlog
  <2> QED
    BY <2>1, <2>2, QueueAssumption
<1>7. Alone'
  BY <1>3 DEF Alone
<1>8. FillingLast'
  <2>1. write_index = (Len(accepted') - 1) % IndexMod
    BY <1>2 DEF IInv, Counters
  <2> QED
    BY <1>2, <1>4, <1>5, <2>1 DEF FillingLast
<1>9. SlotsIntact'
  <2> SUFFICES ASSUME NEW k \in Len(delivered) + 1 .. n + 1, k # n + 1
               PROVE  SlotOf(k)' = Whole(accepted'[k])
    BY <1>1, <1>2, <1>5 DEF SlotsIntact, Posted
  <2>1. k \in Len(delivered) + 1 .. n /\ k \in 1 .. n
    BY <1>2, Lengths
  <2>2. SlotOf(k) = Whole(accepted[k])
    BY <1>5, <2>1 DEF Intact, SlotsIntact, Posted
  <2> QED
    BY <1>1, <1>2, <2>1, <2>2 DEF SlotOf
<1>10. ReadIntact'
  <2>1. disp.pc \in {"half", "call"} => Len(delivered) + 1 \in 1 .. n
    BY Lengths DEF IInv, Phases, ReadPcs
  <2> QED
    BY <1>1, <1>2, <2>1 DEF Intact, ReadIntact
<1>11. DeliveredIntact'
  <2>1. DOMAIN delivered \subseteq 1 .. n
    BY Lengths
  <2> QED
    BY <1>1, <1>2, <2>1 DEF Intact, DeliveredIntact
<1> QED
  BY <1>6, <1>7, <1>8, <1>9, <1>10, <1>11 DEF Intact

\* Only the last message's slot is written.
LEMMA PostFillIntact ==
  ASSUME IInv, Intact, NEW p \in Producers, PostFill(p)
  PROVE  Intact'
<1> DEFINE n == Len(accepted)
           i == (n - 1) % BUF_COUNT
           m == accepted[n]
<1>0. TypeOK /\ Alone /\ FillingLast
  BY DEF IInv, Intact
<1>1. UNCHANGED <<disp, accepted, delivered>>
  BY DEF PostFill
<1>2. PICK pc \in {"half", "filled"} : ProdGoto(p, pc) /\ prod[p].pc \in FillPcs
                                      /\ (pc = "half" <=> prod[p].pc = "claimed")
                                      /\ (pc = "filled" <=> prod[p].pc = "half")
  BY DEF PostFill, FillPcs
<1>3. \A q \in Producers : q # p => prod[q].pc = "idle" /\ prod'[q] = prod[q]
  BY <1>0, <1>2 DEF Alone, ProdGoto, TypeOK, FillPcs
<1>4. prod'[p].pc = pc /\ prod'[p].msg = prod[p].msg /\ prod'[p].index = prod[p].index
  BY <1>0, <1>2 DEF ProdGoto, TypeOK
<1>5. Filling' = {p} /\ Filling = {p}
  BY <1>2, <1>3, <1>4 DEF Filling, FillPcs
<1>6. n \in Nat /\ n >= 1 /\ n \in Len(delivered) + 1 .. n /\ Len(delivered) \in Nat
  BY <1>5, Lengths, FillingBacklog
<1>7. prod[p].index % BUF_COUNT = i /\ prod[p].msg = m
  <2>1. prod[p].index = (n - 1) % IndexMod /\ prod[p].msg = m
    BY <1>0, <1>5 DEF FillingLast
  <2>2. n - 1 \in Nat
    BY <1>6
  <2> QED
    BY <2>1, <2>2, WrapSlot
<1>8. i \in 0 .. BUF_COUNT - 1
  <2>1. n - 1 \in Nat /\ BUF_COUNT \in Nat \ {0}
    BY <1>6, QueueAssumption
  <2> QED
    BY <2>1, DivMod
<1> HIDE DEF i, m
<1>9. /\ \A j \in 0 .. BUF_COUNT - 1 : j # i => buf'[j] = buf[j]
      /\ pc = "half" => buf'[i].head = m
      /\ pc = "filled" => buf'[i].head = buf[i].head /\ buf'[i].tail = m
  <2>1. buf \in [0 .. BUF_COUNT - 1 -> Slot] /\ buf[i] \in Slot
    BY <1>0, <1>8 DEF TypeOK
  <2>2. CASE pc = "half"
    <3>1. buf' = [buf EXCEPT ![i] = [buf[i] EXCEPT !.head = m]]
      BY <1>2, <1>7, <2>2 DEF PostFill
    <3> QED
      BY <1>8, <2>1, <2>2, <3>1 DEF Slot
  <2>3. CASE pc = "filled"
    <3>1. buf' = [buf EXCEPT ![i] = [buf[i] EXCEPT !.tail = m]]
      BY <1>2, <1>7, <2>3 DEF PostFill
    <3> QED
      BY <1>8, <2>1, <2>3, <3>1 DEF Slot
  <2> QED
    BY <2>2, <2>3
<1>10. Backlog' <= BUF_COUNT
  BY <1>1 DEF Intact, Backlog
<1>11. Alone'
  BY <1>3 DEF Alone
<1>12. FillingLast'
  <2>1. pc = "filled" => buf[i].head = m
    BY <1>0, <1>2, <1>5 DEF FillingLast, SlotOf, i, m
  <2>2. SlotOf(n)' = buf'[i]
    BY <1>1 DEF SlotOf, i
  <2>3. prod[p].index = (n - 1) % IndexMod
    BY <1>0, <1>5 DEF FillingLast
  <2>4. SlotOf(n)'.head = m
    BY <1>9, <2>1, <2>2
  <2>5. pc = "filled" => SlotOf(n)'.tail = m
    BY <1>9, <2>2
  <2> QED
    BY <1>1, <1>4, <1>5, <1>7, <2>3, <2>4, <2>5 DEF FillingLast, m
<1>13. SlotsIntact'
  <2> SUFFICES ASSUME NEW k \in Len(delivered) + 1 .. n, k # n
               PROVE  SlotOf(k)' = Whole(accepted[k])
    BY <1>1, <1>5 DEF SlotsIntact, Posted
  <2>1. SlotOf(k) = Whole(accepted[k])
    BY DEF Intact, SlotsIntact, Posted
  <2>2. (k - 1) % BUF_COUNT # i
    BY <1>6, SlotsApart DEF Intact, i
  <2>3. (k - 1) % BUF_COUNT \in 0 .. BUF_COUNT - 1
    <3>1. k - 1 \in Nat /\ BUF_COUNT \in Nat \ {0}
      BY <1>6, QueueAssumption
    <3> QED
      BY <3>1, DivMod
  <2> QED
    BY <1>9, <2>1, <2>2, <2>3 DEF SlotOf
<1> QED
  BY <1>1, <1>10, <1>11, <1>12, <1>13 DEF Intact, ReadIntact, DeliveredIntact

LEMMA PostEventIntact ==
  ASSUME IInv, Intact, NEW p \in Producers, PostEvent(p)
  PROVE  Intact'
<1> DEFINE n == Len(accepted)
<1>0. TypeOK /\ Alone /\ FillingLast
  BY DEF IInv, Intact
<1>1. UNCHANGED <<buf, disp, accepted, delivered>> /\ prod[p].pc = "filled"
  BY DEF PostEvent
<1>2. \A q \in Producers : q # p => prod[q].pc = "idle" /\ prod'[q] = prod[q]
  BY <1>0, <1>1 DEF Alone, PostEvent, ProdGoto, TypeOK
<1>3. prod'[p].pc = "idle"
  BY <1>0 DEF PostEvent, ProdGoto, TypeOK
<1>4. Filling = {p} /\ Filling' = {}
  BY <1>1, <1>2, <1>3 DEF Filling, FillPcs
<1>5. SlotOf(n) = Whole(accepted[n])
  <2>1. SlotOf(n).head = accepted[n] /\ SlotOf(n).tail = accepted[n]
    BY <1>0, <1>1, <1>4 DEF FillingLast
  <2>2. SlotOf(n) \in Slot
    <3>1. n - 1 \in Nat /\ BUF_COUNT \in Nat \ {0}
      BY <1>4, Lengths, FillingBacklog, QueueAssumption
    <3>2. (n - 1) % BUF_COUNT \in 0 .. BUF_COUNT - 1
      BY <3>1, DivMod
    <3> QED
      BY <1>0, <3>2 DEF TypeOK, SlotOf
  <2> QED
    BY <2>1, <2>2 DEF Slot, Whole
<1>6. SlotsIntact'
  <2> SUFFICES ASSUME NEW k \in Len(delivered) + 1 .. n
               PROVE  SlotOf(k) = Whole(accepted[k])
    BY <1>1 DEF SlotsIntact, SlotOf
  <2> QED
    BY <1>5 DEF Intact, SlotsIntact, Posted
<1>7. Alone'
  BY <1>2, <1>3 DEF Alone
<1>8. FillingLast'
  BY <1>4 DEF FillingLast
<1> QED
  BY <1>1, <1>6, <1>7, <1>8 DEF Intact, Backlog, ReadIntact, DeliveredIntact

\* The dispatch thread reads the oldest slot, which nobody writes.
LEMMA DispatchIntact ==
  ASSUME IInv, Intact, Dispatch
  PROVE  Intact'
<1> DEFINE d == Len(delivered)
<1>0. TypeOK /\ ReadIntact /\ SlotsIntact
  BY DEF IInv, Intact
<1>1. UNCHANGED <<buf, prod, accepted>>
  BY DEF Dispatch, DispWait, DispCheck, DispRead, DispCall
<1>2. Filling' = Filling
  BY <1>1 DEF Filling
<1>3. CASE DispWait \/ DispCheck
  <2>1. UNCHANGED delivered /\ disp'.pc \notin {"half", "call"}
    BY <1>0, <1>3 DEF DispWait, DispCheck, DispGoto, TypeOK
  <2> QED
    BY <1>1, <1>2, <2>1 DEF Intact, Backlog, Alone, FillingLast, SlotsIntact, SlotOf,
      Posted, ReadIntact, DeliveredIntact
<1>4. CASE DispRead
  <2>1. UNCHANGED delivered /\ disp.pc \in {"read", "half"}
    BY <1>4 DEF DispRead
  <2>2. d + 1 \in d + 1 .. Len(accepted)
    BY <2>1, Lengths DEF IInv, Phases, ReadPcs
  <2>3. Posted(d + 1)
    <3> SUFFICES ASSUME Filling # {} PROVE d + 1 # Len(accepted)
      BY DEF Posted
    <3>1. Len(accepted) - d >= 2 /\ d \in Nat /\ Len(accepted) \in Nat
      BY <2>1, Lengths, FillingBacklog DEF ReadPcs
    <3> QED
      BY <3>1
  <2>4. SlotOf(d + 1) = Whole(accepted[d + 1])
    BY <1>0, <2>2, <2>3 DEF SlotsIntact
  <2>5. buf[read_index % BUF_COUNT] = Whole(accepted[d + 1])
    <3>1. read_index % BUF_COUNT = d % BUF_COUNT
      BY Lengths, WrapSlot DEF IInv, Counters
    <3>2. (d + 1) - 1 = d
      BY Lengths
    <3> QED
      BY <2>4, <3>1, <3>2 DEF SlotOf
  <2>6. ReadIntact'
    <3> DEFINE m == accepted[d + 1]
    <3>1. disp \in [pc : DispPcs, head : Messages, tail : Messages]
      BY <1>0 DEF TypeOK
    <3>2. CASE disp.pc = "read"
      <4>1. disp' = [disp EXCEPT !.pc = "half", !.head = m]
        BY <1>4, <2>5, <3>2 DEF DispRead, Whole
      <4>2. disp'.pc = "half" /\ disp'.head = m
        BY <3>1, <4>1
      <4> QED
        BY <1>1, <2>1, <4>2 DEF ReadIntact
    <3>3. CASE disp.pc = "half"
      <4>1. disp' = [disp EXCEPT !.pc = "call", !.tail = m]
        BY <1>4, <2>5, <3>3 DEF DispRead, Whole
      <4>2. disp.head = m
        BY <1>0, <3>3 DEF ReadIntact
      <4>3. disp'.pc = "call" /\ disp'.head = m /\ disp'.tail = m
        BY <3>1, <4>1, <4>2
      <4> QED
        BY <1>1, <2>1, <4>3 DEF ReadIntact
    <3> QED
      BY <2>1, <3>2, <3>3
  <2> QED
    BY <1>1, <1>2, <2>1, <2>6 DEF Intact, Backlog, Alone, FillingLast, SlotsIntact,
      SlotOf, Posted, DeliveredIntact
<1>5. CASE DispCall
  <2>1. disp.pc = "call" /\ disp'.pc = "wait"
    BY <1>0, <1>5 DEF DispCall, DispGoto, TypeOK
  <2>2. d \in Nat /\ Len(accepted) \in Nat /\ Len(delivered') = d + 1
    BY <1>0, <1>5 DEF DispCall, TypeOK
  <2>3. delivered'[d + 1] = Whole(accepted[d + 1])
    BY <1>0, <1>5, <2>1, <2>2 DEF DispCall, ReadIntact, Whole, TypeOK
  <2>4. DOMAIN delivered' = 1 .. d + 1 /\ \A k \in 1 .. d : delivered'[k] = delivered[k]
    BY <1>0, <1>5, <2>2 DEF DispCall, TypeOK
  <2>5. DeliveredIntact'
    <3>1. \A k \in 1 .. d : delivered[k] = Whole(accepted[k])
      BY Lengths DEF Intact, DeliveredIntact, Whole
    <3> SUFFICES ASSUME NEW k \in 1 .. d + 1 PROVE delivered'[k] = Whole(accepted[k])
      BY <1>1, <2>4 DEF DeliveredIntact, Whole
    <3>2. k \in 1 .. d \/ k = d + 1
      BY <2>2
    <3> HIDE DEF d
    <3> QED
      BY <2>3, <2>4, <3>1, <3>2
  <2>6. Backlog' <= BUF_COUNT
    BY <1>1, <2>2, QueueAssumption DEF Intact, Backlog
  <2>7. SlotsIntact'
    BY <1>0, <1>1, <1>2, <2>2 DEF SlotsIntact, SlotOf, Posted
  <2>8. ReadIntact'
    BY <2>1 DEF ReadIntact
  <2>9. Alone' /\ FillingLast'
    BY <1>1, <1>2 DEF Intact, Alone, FillingLast, SlotOf
  <2> QED
    BY <2>5, <2>6, <2>7, <2>8, <2>9 DEF Intact
<1> QED
  BY <1>3, <1>4, <1>5 DEF Dispatch

LEMMA NextIntact == IntactInv /\ [Next]_queueVars => IntactInv'
<1> SUFFICES ASSUME IntactInv, [Next]_queueVars PROVE IntactInv'
  OBVIOUS
<1>1. IInv /\ IInv'
  BY NextIInv DEF IntactInv
<1>2. (overflow => overflow') /\ (overlap => overlap')
  <2>1. ASSUME NEW p \in Producers, Post(p)
        PROVE  (overflow => overflow') /\ (overlap => overlap')
    <3>1. PostCheck(p) => UNCHANGED overflow /\ (overlap => overlap')
      BY DEF PostCheck
    <3>2. PostClaim(p) => (overflow => overflow') /\ UNCHANGED overlap
      BY DEF PostClaim
    <3>3. PostFill(p) \/ PostEvent(p) => UNCHANGED <<overflow, overlap>>
      BY DEF PostFill, PostEvent
    <3> QED
      BY <2>1, <3>1, <3>2, <3>3 DEF Post
  <2>2. Close \/ Dispatch \/ UNCHANGED queueVars => UNCHANGED <<overflow, overlap>>
    BY DEF Close, Dispatch, DispWait, DispCheck, DispRead, DispCall, queueVars
  <2> QED
    BY <2>1, <2>2 DEF Next
<1> SUFFICES ASSUME ~overflow', ~overlap' PROVE Intact'
  BY <1>1 DEF IntactInv
<1>3. Intact
  BY <1>2 DEF IntactInv
<1>4. CASE \E p \in Producers : Post(p)
  BY <1>1, <1>3, <1>4, PostCheckIntact, PostClaimIntact, PostFillIntact, PostEventIntact
    DEF Post
<1>5. CASE Dispatch
  BY <1>1, <1>3, <1>5, DispatchIntact
<1>6. CASE Close \/ UNCHANGED queueVars
  <2>1. UNCHANGED <<buf, prod, disp, accepted, delivered>>
    BY <1>6 DEF Close, queueVars
  <2> QED
    BY <1>3, <2>1 DEF Intact, Backlog, Alone, FillingLast, SlotsIntact, SlotOf, Posted,
      Filling, ReadIntact, DeliveredIntact
<1> QED
  BY <1>4, <1>5, <1>6 DEF Next

\* As long as no index is claimed with every slot unread and no two threads post
\* at once, what is delivered is what was posted, in order.
THEOREM IntactDelivery == Spec => []IntactWithinCapacity
<1>1. Init => IntactInv
  BY InitIntact
<1>2. IntactInv /\ [Next]_queueVars => IntactInv'
  BY NextIntact
<1>3. IntactInv => IntactWithinCapacity
  BY DEF IntactInv, Intact, IntactWithinCapacity
<1> QED
  BY <1>1, <1>2, <1>3, PTL DEF Spec
=============================================================================
