------------------------ MODULE AecpControllerProofs ------------------------
(***************************************************************************)
(* Proofs about AecpController for every value of its constants.           *)
(*                                                                         *)
(* The inductive invariant numbers the commands: the sequence id of        *)
(* command c is (c - 1) % SeqIdMod, the commands in flight are in the      *)
(* order they were issued and all belong to the last SeqIdMod issued.  Two *)
(* commands in flight are then less than SeqIdMod apart and cannot share a *)
(* sequence id, so that every lookup by sequence id finds the entry meant. *)
(***************************************************************************)
EXTENDS AecpRefinement, AvdeccLemmas

CoreType ==
  /\ aecp_seq_id \in 0 .. SeqIdMod - 1
  /\ inflight_cmds \in Seq(Inflight)
  /\ hist \in Seq(CmdRecord)
  /\ \A j \in DOMAIN inflight_cmds : inflight_cmds[j].cmd \in DOMAIN hist

\* Sequence ids are the command numbers, wrapped.
Numbered ==
  /\ aecp_seq_id = Len(hist) % SeqIdMod
  /\ \A c \in DOMAIN hist : hist[c].seq_id = (c - 1) % SeqIdMod
  /\ \A j \in DOMAIN inflight_cmds :
       inflight_cmds[j].seq_id = hist[inflight_cmds[j].cmd].seq_id

\* Only the last SeqIdMod commands can be in flight.
Window ==
  \A j \in DOMAIN inflight_cmds : Len(hist) - inflight_cmds[j].cmd < SeqIdMod

\* push_back and erase keep the commands in the order they were issued.
Ordered ==
  \A j, k \in DOMAIN inflight_cmds :
    j < k => inflight_cmds[j].cmd < inflight_cmds[k].cmd

\* The timer was started once for each time the frame was sent.
TimerCounts ==
  \A j \in DOMAIN inflight_cmds :
    /\ inflight_cmds[j].start_timer_cnt \in 1 .. 2
    /\ hist[inflight_cmds[j].cmd].sends = inflight_cmds[j].start_timer_cnt

Core == CoreType /\ Numbered /\ Window /\ Ordered /\ TimerCounts
          /\ EndsOnce /\ TimeoutAfterRetry

OpsType == active_operations \in Seq(Operation) /\ tick_pos \in Nat

IInv == Core /\ OpsType
-----------------------------------------------------------------------------
\* Commands in flight that are numbered, in order and in the window have
\* different sequence ids.
LEMMA CoreDistinct ==
  ASSUME Core
  PROVE  DistinctSeqIds
<1> SUFFICES ASSUME NEW j \in DOMAIN inflight_cmds, NEW k \in DOMAIN inflight_cmds,
                    inflight_cmds[j].seq_id = inflight_cmds[k].seq_id, j < k
             PROVE  FALSE
  <2>1. \A j, k \in DOMAIN inflight_cmds : j \in Int /\ k \in Int
    BY DEF Core, CoreType
  <2> QED
    BY <2>1 DEF DistinctSeqIds
<1> DEFINE a == inflight_cmds[k].cmd - 1
           b == inflight_cmds[j].cmd - 1
<1>1. /\ inflight_cmds[j] \in Inflight /\ inflight_cmds[k] \in Inflight
      /\ inflight_cmds[j].cmd \in DOMAIN hist
      /\ inflight_cmds[k].cmd \in DOMAIN hist
      /\ DOMAIN hist = 1 .. Len(hist) /\ Len(hist) \in Nat
  BY DEF Core, CoreType
<1>2. a \in Nat /\ b \in Nat
  BY <1>1 DEF Inflight
<1>3. a > b /\ a - b < SeqIdMod
  <2>1. inflight_cmds[j].cmd < inflight_cmds[k].cmd
    BY DEF Core, Ordered
  <2>2. Len(hist) - inflight_cmds[j].cmd < SeqIdMod
    BY DEF Core, Window
  <2>3. inflight_cmds[k].cmd <= Len(hist)
    BY <1>1
  <2>4. PICK x \in Nat : x = inflight_cmds[j].cmd
    BY <1>1
  <2>5. PICK y \in Nat : y = inflight_cmds[k].cmd
    BY <1>1
  <2>6. PICK n \in Nat : n = Len(hist)
    BY <1>1
  <2>7. x < y /\ n - x < SeqIdMod /\ y <= n
    BY <2>1, <2>2, <2>3, <2>4, <2>5, <2>6
  <2> QED
    BY <2>4, <2>5, <2>7, AecpAssumption
<1>4. a % SeqIdMod = b % SeqIdMod
  BY <1>1 DEF Core, Numbered
<1>5. SeqIdMod \in Nat \ {0} /\ a >= b
  BY <1>2, <1>3, AecpAssumption
<1> HIDE DEF a, b
<1>6. a = b
  BY <1>2, <1>3, <1>4, <1>5, ModUnique
<1> QED
  BY <1>2, <1>3, <1>6

\* What erasing an entry leaves of the vector: the same entries but one, in
\* the same order.
LEMMA EraseShape ==
  ASSUME Core, NEW i \in DOMAIN inflight_cmds,
         inflight_cmds' = RemoveAt(inflight_cmds, i)
  PROVE  /\ inflight_cmds' \in Seq(Inflight)
         /\ \A k \in DOMAIN inflight_cmds' :
              \E j \in DOMAIN inflight_cmds :
                /\ inflight_cmds'[k] = inflight_cmds[j]
                /\ j = (IF k < i THEN k ELSE k + 1)
         /\ \A j \in DOMAIN inflight_cmds :
              j # i => \E k \in DOMAIN inflight_cmds' :
                         inflight_cmds'[k] = inflight_cmds[j]
<1>1. inflight_cmds \in Seq(Inflight)
  BY DEF Core, CoreType
<1>2. /\ DOMAIN inflight_cmds = 1 .. Len(inflight_cmds)
      /\ Len(inflight_cmds) \in Nat
  BY <1>1
<1>3. /\ inflight_cmds' \in Seq(Inflight)
      /\ Len(inflight_cmds') = Len(inflight_cmds) - 1
      /\ \A k \in DOMAIN inflight_cmds' :
           inflight_cmds'[k] = IF k < i THEN inflight_cmds[k]
                                        ELSE inflight_cmds[k + 1]
  BY <1>1, RemoveAtProperties
<1>4. DOMAIN inflight_cmds' = 1 .. Len(inflight_cmds) - 1
  BY <1>3
<1>5. ASSUME NEW k \in DOMAIN inflight_cmds'
      PROVE  \E j \in DOMAIN inflight_cmds :
                /\ inflight_cmds'[k] = inflight_cmds[j]
                /\ j = (IF k < i THEN k ELSE k + 1)
  BY <1>2, <1>3, <1>4
<1>6. ASSUME NEW j \in DOMAIN inflight_cmds, j # i
      PROVE  \E k \in DOMAIN inflight_cmds' : inflight_cmds'[k] = inflight_cmds[j]
  <2>1. CASE j < i
    BY <2>1, <1>2, <1>3, <1>4
  <2>2. CASE j > i
    <3>1. j - 1 \in DOMAIN inflight_cmds' /\ ~(j - 1 < i) /\ (j - 1) + 1 = j
      BY <2>2, <1>2, <1>4
    <3> QED
      BY <3>1, <1>3
  <2> QED
    BY <2>1, <2>2, <1>2, <1>6
<1> QED
  BY <1>3, <1>5, <1>6

\* Ending a command keeps the invariant: the entry of exactly one command
\* leaves the vector and exactly that command gets its outcome.
LEMMA EraseCore ==
  ASSUME Core, NEW i \in DOMAIN inflight_cmds, NEW end \in Ends, NEW from \in Nat,
         end = "COMMAND_TIMEOUT" => inflight_cmds[i].start_timer_cnt = 2,
         EraseInflight(i, end, from), aecp_seq_id' = aecp_seq_id
  PROVE  Core'
<1>0. PICK c \in Nat : c = inflight_cmds[i].cmd
  <2>1. inflight_cmds[i] \in Inflight
    BY DEF Core, CoreType
  <2> QED
    BY <2>1 DEF Inflight
<1> DEFINE r == [end |-> end, from |-> from]
           h == [hist[c] EXCEPT !.outcome = Append(@, r)]
<1>1. /\ inflight_cmds \in Seq(Inflight) /\ hist \in Seq(CmdRecord)
      /\ c \in DOMAIN hist /\ i \in 1 .. Len(inflight_cmds)
      /\ inflight_cmds[i] \in Inflight
  BY <1>0 DEF Core, CoreType
<1>2. hist[c] \in CmdRecord /\ r \in [end : Ends, from : Nat]
  BY <1>1
<1>3. /\ h \in CmdRecord
      /\ h.seq_id = hist[c].seq_id /\ h.sends = hist[c].sends
      /\ h.outcome = Append(hist[c].outcome, r)
      /\ hist[c].outcome \in Seq([end : Ends, from : Nat])
  <2>1. hist[c].outcome \in Seq([end : Ends, from : Nat])
    BY <1>2 DEF CmdRecord
  <2>2. Append(hist[c].outcome, r) \in Seq([end : Ends, from : Nat])
    BY <2>1, <1>2, AppendProperties
  <2> HIDE DEF r
  <2> QED
    BY <2>1, <2>2, <1>2 DEF CmdRecord
<1>4. hist' = [hist EXCEPT ![c] = h]
  BY <1>0 DEF EraseInflight
<1>5. /\ hist' \in Seq(CmdRecord) /\ Len(hist') = Len(hist)
      /\ DOMAIN hist' = DOMAIN hist
      /\ hist'[c] = h
      /\ \A d \in DOMAIN hist : d # c => hist'[d] = hist[d]
  <2> HIDE DEF h
  <2> QED
    BY <1>1, <1>3, <1>4, ExceptProperties
<1>6. inflight_cmds' = RemoveAt(inflight_cmds, i)
  BY DEF EraseInflight
<1>7. /\ inflight_cmds' \in Seq(Inflight)
      /\ \A k \in DOMAIN inflight_cmds' : \E j \in DOMAIN inflight_cmds :
           inflight_cmds'[k] = inflight_cmds[j] /\ j = (IF k < i THEN k ELSE k + 1)
      /\ \A j \in DOMAIN inflight_cmds : j # i =>
           \E k \in DOMAIN inflight_cmds' : inflight_cmds'[k] = inflight_cmds[j]
  BY <1>6, EraseShape
<1>8. \A j \in DOMAIN inflight_cmds : j # i => inflight_cmds[j].cmd # c
  <2> SUFFICES ASSUME NEW j \in DOMAIN inflight_cmds, j # i
               PROVE  inflight_cmds[j].cmd # inflight_cmds[i].cmd
    BY <1>0
  <2>0. j \in 1 .. Len(inflight_cmds) /\ inflight_cmds[j] \in Inflight
    BY <1>1
  <2>1. /\ j < i \/ i < j
        /\ inflight_cmds[j].cmd \in Nat /\ inflight_cmds[i].cmd \in Nat
    BY <2>0, <1>1 DEF Inflight
  <2>2. /\ j < i => inflight_cmds[j].cmd < inflight_cmds[i].cmd
        /\ i < j => inflight_cmds[i].cmd < inflight_cmds[j].cmd
    BY DEF Core, Ordered
  <2> QED
    BY <2>1, <2>2
<1>9. \A k \in DOMAIN inflight_cmds' : \E j \in DOMAIN inflight_cmds :
        /\ inflight_cmds'[k] = inflight_cmds[j] /\ j # i
        /\ inflight_cmds[j].cmd # c
        /\ hist'[inflight_cmds[j].cmd] = hist[inflight_cmds[j].cmd]
        /\ inflight_cmds[j].cmd \in DOMAIN hist'
  <2> SUFFICES ASSUME NEW k \in DOMAIN inflight_cmds'
               PROVE  \E j \in DOMAIN inflight_cmds :
                        /\ inflight_cmds'[k] = inflight_cmds[j] /\ j # i
                        /\ inflight_cmds[j].cmd # c
                        /\ hist'[inflight_cmds[j].cmd] = hist[inflight_cmds[j].cmd]
                        /\ inflight_cmds[j].cmd \in DOMAIN hist'
    OBVIOUS
  <2>1. PICK j \in DOMAIN inflight_cmds :
          inflight_cmds'[k] = inflight_cmds[j] /\ j = (IF k < i THEN k ELSE k + 1)
    BY <1>7
  <2>2. j # i
    BY <2>1, <1>1, <1>7
  <2> HIDE DEF h
  <2>3. inflight_cmds[j].cmd \in DOMAIN hist
    BY DEF Core, CoreType
  <2> QED
    BY <2>1, <2>2, <2>3, <1>5, <1>8
<1> HIDE DEF h, r
<1>10. CoreType'
  BY <1>5, <1>7, <1>9 DEF Core, CoreType
<1>11. Numbered'
  <2>1. \A d \in DOMAIN hist' : hist'[d].seq_id = hist[d].seq_id
    BY <1>3, <1>5
  <2> QED
    BY <2>1, <1>5, <1>9 DEF Core, Numbered
<1>12. Window'
  BY <1>5, <1>9 DEF Core, Window
<1>13. Ordered'
  <2> SUFFICES ASSUME NEW k \in DOMAIN inflight_cmds', NEW l \in DOMAIN inflight_cmds',
                      k < l
               PROVE  inflight_cmds'[k].cmd < inflight_cmds'[l].cmd
    BY DEF Ordered
  <2>1. /\ (IF k < i THEN k ELSE k + 1) \in DOMAIN inflight_cmds
        /\ inflight_cmds'[k] = inflight_cmds[IF k < i THEN k ELSE k + 1]
        /\ (IF l < i THEN l ELSE l + 1) \in DOMAIN inflight_cmds
        /\ inflight_cmds'[l] = inflight_cmds[IF l < i THEN l ELSE l + 1]
    BY <1>7
  <2>2. (IF k < i THEN k ELSE k + 1) < (IF l < i THEN l ELSE l + 1)
    BY <1>1, <1>7
  <2> QED
    BY <2>1, <2>2 DEF Core, Ordered
<1>14. TimerCounts'
  BY <1>9 DEF Core, TimerCounts
<1>15. EndsOnce'
  <2>1. \A d \in DOMAIN hist : d # c => (InFlight(d)' <=> InFlight(d))
    <3> SUFFICES ASSUME NEW d \in DOMAIN hist, d # c
                 PROVE  InFlight(d)' <=> InFlight(d)
      OBVIOUS
    <3>1. InFlight(d)' => InFlight(d)
      BY <1>9 DEF InFlight
    <3>2. InFlight(d) => InFlight(d)'
      BY <1>0, <1>7 DEF InFlight
    <3> QED
      BY <3>1, <3>2
  <2>2. ~InFlight(c)'
    BY <1>9 DEF InFlight
  <2>3. InFlight(c)
    BY <1>0 DEF InFlight
  <2>4. Len(hist[c].outcome) = 0
    BY <2>3, <1>1 DEF Core, EndsOnce
  <2>5. Len(h.outcome) = 1
    BY <2>4, <1>2, <1>3
  <2>6. \A d \in DOMAIN hist :
          Len(hist'[d].outcome) = IF InFlight(d)' THEN 0 ELSE 1
    <3> SUFFICES ASSUME NEW d \in DOMAIN hist
                 PROVE  Len(hist'[d].outcome) = IF InFlight(d)' THEN 0 ELSE 1
      OBVIOUS
    <3>1. CASE d = c
      BY <3>1, <2>2, <2>5, <1>5
    <3>2. CASE d # c
      BY <3>2, <2>1, <1>5 DEF Core, EndsOnce
    <3> QED
      BY <3>1, <3>2
  <2> QED
    BY <2>6, <1>5 DEF EndsOnce
<1>16. TimeoutAfterRetry'
  <2>1. hist[c].sends = inflight_cmds[i].start_timer_cnt /\ hist[c].sends \in 1 .. 2
    BY <1>0 DEF Core, TimerCounts
  <2>2. Len(hist[c].outcome) = 0
    <3>1. InFlight(c)
      BY <1>0 DEF InFlight
    <3> QED
      BY <3>1, <1>1 DEF Core, EndsOnce
  <2>3. \A k \in DOMAIN h.outcome : h.outcome[k] = r
    BY <2>2, <1>2, <1>3
  <2>4. \A k \in DOMAIN h.outcome :
          h.outcome[k].end = "COMMAND_TIMEOUT" => h.sends = 2
    BY <2>1, <2>3, <1>3 DEF r
  <2>5. \A d \in DOMAIN hist :
          /\ hist'[d].sends \in 1 .. 2
          /\ \A k \in DOMAIN hist'[d].outcome :
               hist'[d].outcome[k].end = "COMMAND_TIMEOUT" => hist'[d].sends = 2
    BY <2>1, <2>4, <1>3, <1>5 DEF Core, TimeoutAfterRetry
  <2> QED
    BY <2>5, <1>5 DEF TimeoutAfterRetry
<1> QED
  BY <1>10, <1>11, <1>12, <1>13, <1>14, <1>15, <1>16 DEF Core

\* Issuing a command keeps the invariant: it takes the next number.
LEMMA SendCore ==
  ASSUME Core, SeqWindow, NEW id \in Ids, NEW flag \in Flags,
         NEW op \in OpIds \cup {NoOp}, state_send_cmd(id, flag, op)
  PROVE  Core'
<1> DEFINE e == start_timer(NewInflight(id, flag))
           r == [seq_id |-> aecp_seq_id, notification_id |-> id, op |-> op,
                 sends |-> 1, outcome |-> <<>>]
           n == Len(inflight_cmds)
           m == Len(hist)
<1>1. /\ inflight_cmds \in Seq(Inflight) /\ hist \in Seq(CmdRecord)
      /\ n \in Nat /\ m \in Nat
      /\ DOMAIN inflight_cmds = 1 .. n /\ DOMAIN hist = 1 .. m
      /\ aecp_seq_id \in 0 .. SeqIdMod - 1
  BY DEF Core, CoreType
<1>2. /\ e \in Inflight /\ e.cmd = m + 1 /\ e.seq_id = aecp_seq_id
      /\ e.start_timer_cnt = 1
  <2>1. e = [cmd |-> m + 1, seq_id |-> aecp_seq_id, notification_id |-> id,
             notification_flag |-> flag, start_timer_cnt |-> 1, elapsed |-> 0]
    <3> DEFINE f == NewInflight(id, flag)
    <3>1. f = [cmd |-> m + 1, seq_id |-> aecp_seq_id, notification_id |-> id,
               notification_flag |-> flag, start_timer_cnt |-> 0, elapsed |-> 0]
      BY DEF NewInflight, Issued
    <3>2. f.start_timer_cnt + 1 = 1
      BY <3>1
    <3>3. e = [f EXCEPT !.start_timer_cnt = 1, !.elapsed = 0]
      BY <3>2 DEF start_timer
    <3> HIDE DEF f, e, m
    <3> QED
      BY <3>1, <3>3
  <2>2. m + 1 \in Nat \ {0} /\ 0 \in 0 .. MsgTimeout + 1
    BY <1>1, AecpAssumption
  <2> HIDE DEF e, m
  <2> QED
    BY <1>1, <2>1, <2>2 DEF Inflight
<1>3. r \in CmdRecord /\ r.seq_id = aecp_seq_id /\ r.sends = 1 /\ r.outcome = <<>>
  BY <1>1 DEF CmdRecord
<1>4. inflight_cmds' = Append(inflight_cmds, e) /\ hist' = Append(hist, r)
  BY DEF state_send_cmd, PushInflight
<1> HIDE DEF e, r, n, m
<1>5. /\ inflight_cmds' \in Seq(Inflight) /\ DOMAIN inflight_cmds' = 1 .. n + 1
      /\ \A j \in 1 .. n : inflight_cmds'[j] = inflight_cmds[j]
      /\ inflight_cmds'[n + 1] = e
  BY <1>1, <1>2, <1>4 DEF n
<1>6. /\ hist' \in Seq(CmdRecord) /\ DOMAIN hist' = 1 .. m + 1 /\ Len(hist') = m + 1
      /\ \A c \in 1 .. m : hist'[c] = hist[c]
      /\ hist'[m + 1] = r
  BY <1>1, <1>3, <1>4 DEF m
<1>7. \A j \in 1 .. n : inflight_cmds[j].cmd \in 1 .. m /\ inflight_cmds[j] \in Inflight
  BY <1>1 DEF Core, CoreType
<1>8. aecp_seq_id' = (m + 1) % SeqIdMod /\ aecp_seq_id = m % SeqIdMod
  BY <1>1, ModSucc, AecpAssumption DEF Core, Numbered, state_send_cmd, m
<1>9. CoreType'
  <2>1. aecp_seq_id' \in 0 .. SeqIdMod - 1
    BY <1>1, <1>8, DivMod, AecpAssumption
  <2>2. \A j \in 1 .. n + 1 : inflight_cmds'[j].cmd \in 1 .. m + 1
    BY <1>1, <1>2, <1>5, <1>7
  <2> QED
    BY <2>1, <2>2, <1>5, <1>6 DEF CoreType
<1>10. Numbered'
  <2>1. \A c \in 1 .. m + 1 : hist'[c].seq_id = (c - 1) % SeqIdMod
    <3>1. \A c \in 1 .. m : hist'[c].seq_id = (c - 1) % SeqIdMod
      BY <1>1, <1>6 DEF Core, Numbered
    <3>2. hist'[m + 1].seq_id = ((m + 1) - 1) % SeqIdMod
      BY <1>1, <1>3, <1>6, <1>8
    <3> QED
      BY <3>1, <3>2, <1>1
  <2>2. \A j \in 1 .. n + 1 :
          inflight_cmds'[j].seq_id = hist'[inflight_cmds'[j].cmd].seq_id
    <3>1. \A j \in 1 .. n :
            inflight_cmds'[j].seq_id = hist'[inflight_cmds'[j].cmd].seq_id
      BY ZenonT(30), <1>1, <1>5, <1>6, <1>7 DEF Core, Numbered
    <3>2. inflight_cmds'[n + 1].seq_id = hist'[inflight_cmds'[n + 1].cmd].seq_id
      BY <1>2, <1>3, <1>5, <1>6
    <3> QED
      BY <3>1, <3>2, <1>1
  <2> QED
    BY <2>1, <2>2, <1>5, <1>6, <1>8 DEF Numbered
<1>11. Window'
  <2>0. \A j \in 1 .. n : m + 1 - inflight_cmds[j].cmd < SeqIdMod
    BY <1>1 DEF SeqWindow, Issued, m
  <2>1. \A j \in 1 .. n : (m + 1) - inflight_cmds'[j].cmd < SeqIdMod
    <3> TAKE j \in 1 .. n
    <3>1. inflight_cmds'[j] = inflight_cmds[j]
      BY <1>5
    <3> QED
      BY <2>0, <3>1, <1>1, <1>7
  <2>2. (m + 1) - inflight_cmds'[n + 1].cmd < SeqIdMod
    BY <1>1, <1>2, <1>5, AecpAssumption
  <2> QED
    BY <2>1, <2>2, <1>1, <1>5, <1>6 DEF Window
<1>12. Ordered'
  <2>1. \A j, k \in 1 .. n : j < k => inflight_cmds'[j].cmd < inflight_cmds'[k].cmd
    BY <1>1, <1>5 DEF Core, Ordered
  <2>2. \A j \in 1 .. n : inflight_cmds'[j].cmd < inflight_cmds'[n + 1].cmd
    BY <1>1, <1>2, <1>5, <1>7
  <2> QED
    BY <2>1, <2>2, <1>1, <1>5 DEF Ordered
<1>13. TimerCounts'
  <2>1. \A j \in 1 .. n :
          /\ inflight_cmds'[j].start_timer_cnt \in 1 .. 2
          /\ hist'[inflight_cmds'[j].cmd].sends = inflight_cmds'[j].start_timer_cnt
    BY <1>1, <1>5, <1>6, <1>7 DEF Core, TimerCounts
  <2>2. /\ inflight_cmds'[n + 1].start_timer_cnt \in 1 .. 2
        /\ hist'[inflight_cmds'[n + 1].cmd].sends = inflight_cmds'[n + 1].start_timer_cnt
    BY <1>2, <1>3, <1>5, <1>6
  <2> QED
    BY <2>1, <2>2, <1>1, <1>5 DEF TimerCounts
<1>14. EndsOnce'
  <2>1. \A c \in 1 .. m : InFlight(c)' <=> InFlight(c)
    <3> SUFFICES ASSUME NEW c \in 1 .. m
                 PROVE  InFlight(c)' <=> InFlight(c)
      OBVIOUS
    <3>1. e.cmd # c
      BY <1>1, <1>2
    <3>2. InFlight(c) => InFlight(c)'
      BY <1>1, <1>5 DEF InFlight
    <3>3. InFlight(c)' => InFlight(c)
      <4> SUFFICES ASSUME NEW j \in 1 .. n + 1, inflight_cmds'[j].cmd = c
                   PROVE  InFlight(c)
        BY <1>5 DEF InFlight
      <4>1. j \in 1 .. n
        BY <1>1, <1>5, <3>1
      <4> QED
        BY <4>1, <1>1, <1>5 DEF InFlight
    <3> QED
      BY <3>2, <3>3
  <2>2. ASSUME NEW c \in 1 .. m + 1
        PROVE  Len(hist'[c].outcome) = IF InFlight(c)' THEN 0 ELSE 1
    <3>1. CASE c \in 1 .. m
      BY <3>1, <2>1, <1>1, <1>6 DEF Core, EndsOnce
    <3>2. CASE c = m + 1
      <4>1. InFlight(c)'
        BY <3>2, <1>1, <1>2, <1>5 DEF InFlight
      <4> QED
        BY <4>1, <3>2, <1>3, <1>6
    <3> QED
      BY <3>1, <3>2, <1>1
  <2> QED
    BY <2>2, <1>6 DEF EndsOnce
<1>15. TimeoutAfterRetry'
  <2>1. \A c \in 1 .. m :
          /\ hist'[c].sends \in 1 .. 2
          /\ \A k \in DOMAIN hist'[c].outcome :
               hist'[c].outcome[k].end = "COMMAND_TIMEOUT" => hist'[c].sends = 2
    BY <1>1, <1>6 DEF Core, TimeoutAfterRetry
  <2>2. hist'[m + 1].sends \in 1 .. 2 /\ DOMAIN hist'[m + 1].outcome = {}
    BY <1>3, <1>6
  <2> QED
    BY <2>1, <2>2, <1>1, <1>6 DEF TimeoutAfterRetry
<1> QED
  BY <1>9, <1>10, <1>11, <1>12, <1>13, <1>14, <1>15 DEF Core

\* Resending a command keeps the invariant: the entry found by its sequence
\* id is the one that timed out, and its second sending is counted.
LEMMA ResendCore ==
  ASSUME Core, NEW i \in DOMAIN inflight_cmds, ~retried(inflight_cmds[i]),
         tx_cmd_resend(inflight_cmds[i].seq_id, inflight_cmds[i].cmd),
         aecp_seq_id' = aecp_seq_id
  PROVE  Core'
<1>1. /\ inflight_cmds \in Seq(Inflight) /\ hist \in Seq(CmdRecord)
      /\ inflight_cmds[i] \in Inflight
  BY DEF Core, CoreType
<1>2. PICK c \in DOMAIN hist : c = inflight_cmds[i].cmd
  BY DEF Core, CoreType
<1>3. inflight_cmds[i].start_timer_cnt = 1 /\ hist[c].sends = 1
  BY <1>1, <1>2 DEF Core, TimerCounts, retried
<1> DEFINE e == [inflight_cmds[i] EXCEPT !.start_timer_cnt = 2, !.elapsed = 0]
           h == [hist[c] EXCEPT !.sends = 2]
<1>4. inflight_cmds' = [inflight_cmds EXCEPT ![i] = e]
  <2>1. PICK j \in DOMAIN inflight_cmds :
          /\ FirstWithSeqId(j, inflight_cmds[i].seq_id)
          /\ inflight_cmds' = [inflight_cmds EXCEPT ![j] = start_timer(inflight_cmds[j])]
    BY DEF tx_cmd_resend
  <2>2. j = i
    BY <2>1, CoreDistinct DEF DistinctSeqIds, FirstWithSeqId
  <2>3. inflight_cmds[i].start_timer_cnt + 1 = 2
    BY <1>3
  <2>4. start_timer(inflight_cmds[i]) = e
    BY <2>3 DEF start_timer
  <2> HIDE DEF e
  <2> QED
    BY <2>1, <2>2, <2>4
<1>5. hist' = [hist EXCEPT ![c] = h]
  <2>1. hist' = [hist EXCEPT ![c] = [hist[c] EXCEPT !.sends = hist[c].sends + 1]]
    BY <1>2 DEF tx_cmd_resend
  <2>2. hist[c].sends + 1 = 2
    BY <1>3
  <2> QED
    BY <2>1, <2>2
<1>6. /\ e \in Inflight /\ e.cmd = c /\ e.seq_id = inflight_cmds[i].seq_id
      /\ e.start_timer_cnt = 2
  <2>1. 0 \in 0 .. MsgTimeout + 1
    BY AecpAssumption
  <2> QED
    BY <1>1, <1>2, <2>1 DEF Inflight
<1>7. /\ h \in CmdRecord /\ h.seq_id = hist[c].seq_id /\ h.sends = 2
      /\ h.outcome = hist[c].outcome
  <2>1. hist[c] \in CmdRecord
    BY <1>1, <1>2
  <2> QED
    BY <2>1 DEF CmdRecord
<1> HIDE DEF e, h
<1>8. /\ inflight_cmds' \in Seq(Inflight)
      /\ DOMAIN inflight_cmds' = DOMAIN inflight_cmds
      /\ inflight_cmds'[i] = e
      /\ \A j \in DOMAIN inflight_cmds : j # i => inflight_cmds'[j] = inflight_cmds[j]
  BY <1>1, <1>4, <1>6, ExceptProperties
<1>9. /\ hist' \in Seq(CmdRecord) /\ DOMAIN hist' = DOMAIN hist
      /\ Len(hist') = Len(hist) /\ hist'[c] = h
      /\ \A d \in DOMAIN hist : d # c => hist'[d] = hist[d]
  BY <1>1, <1>2, <1>5, <1>7, ExceptProperties
<1>10. \A j \in DOMAIN inflight_cmds :
         /\ inflight_cmds'[j].cmd = inflight_cmds[j].cmd
         /\ inflight_cmds'[j].seq_id = inflight_cmds[j].seq_id
  BY <1>2, <1>6, <1>8
<1>11. \A d \in DOMAIN hist :
         /\ hist'[d].seq_id = hist[d].seq_id /\ hist'[d].outcome = hist[d].outcome
         /\ hist'[d].sends = IF d = c THEN 2 ELSE hist[d].sends
  BY <1>7, <1>9
<1>12. CoreType'
  BY <1>8, <1>9, <1>10 DEF Core, CoreType
<1>13. Numbered' /\ Window' /\ Ordered'
  <2>1. \A j \in DOMAIN inflight_cmds : inflight_cmds[j].cmd \in DOMAIN hist
    BY DEF Core, CoreType
  <2>2. Numbered'
    <3>1. aecp_seq_id' = Len(hist') % SeqIdMod
      BY <1>9 DEF Core, Numbered
    <3>2. \A d \in DOMAIN hist : hist'[d].seq_id = (d - 1) % SeqIdMod
      BY <1>11 DEF Core, Numbered
    <3>3. \A j \in DOMAIN inflight_cmds :
            inflight_cmds'[j].seq_id = hist'[inflight_cmds'[j].cmd].seq_id
      BY <2>1, <1>10, <1>11 DEF Core, Numbered
    <3> QED
      BY <3>1, <3>2, <3>3, <1>8, <1>9 DEF Numbered
  <2>3. Window'
    BY <1>8, <1>9, <1>10 DEF Core, Window
  <2>4. Ordered'
    BY <1>8, <1>10 DEF Core, Ordered
  <2> QED
    BY <2>2, <2>3, <2>4
<1>14. TimerCounts'
  <2> SUFFICES ASSUME NEW j \in DOMAIN inflight_cmds
               PROVE  /\ inflight_cmds'[j].start_timer_cnt \in 1 .. 2
                      /\ hist'[inflight_cmds'[j].cmd].sends
                           = inflight_cmds'[j].start_timer_cnt
    BY <1>8 DEF TimerCounts
  <2>1. CASE j = i
    BY <2>1, <1>2, <1>6, <1>8, <1>9, <1>11
  <2>2. CASE j # i
    <3>1. inflight_cmds[j].cmd # c
      <4>1. /\ inflight_cmds[j].seq_id = hist[inflight_cmds[j].cmd].seq_id
            /\ inflight_cmds[i].seq_id = hist[c].seq_id
        BY <1>2 DEF Core, Numbered
      <4>2. inflight_cmds[j].seq_id # inflight_cmds[i].seq_id
        BY <2>2, CoreDistinct DEF DistinctSeqIds
      <4> QED
        BY <4>1, <4>2
    <3>2. inflight_cmds[j].cmd \in DOMAIN hist
      BY DEF Core, CoreType
    <3> QED
      BY <2>2, <3>1, <3>2, <1>8, <1>11 DEF Core, TimerCounts
  <2> QED
    BY <2>1, <2>2
<1>15. EndsOnce'
  <2>1. \A d \in DOMAIN hist : InFlight(d)' <=> InFlight(d)
    BY <1>8, <1>10 DEF InFlight
  <2> SUFFICES ASSUME NEW d \in DOMAIN hist
               PROVE  Len(hist'[d].outcome) = IF InFlight(d)' THEN 0 ELSE 1
    BY <1>9 DEF EndsOnce
  <2> QED
    BY <2>1, <1>11 DEF Core, EndsOnce
<1>16. TimeoutAfterRetry'
  <2>1. \A d \in DOMAIN hist :
          /\ hist'[d].sends \in 1 .. 2
          /\ \A k \in DOMAIN hist'[d].outcome :
               hist'[d].outcome[k].end = "COMMAND_TIMEOUT" => hist'[d].sends = 2
    BY <1>11 DEF Core, TimeoutAfterRetry
  <2> QED
    BY <2>1, <1>9 DEF TimeoutAfterRetry
<1> QED
  BY <1>12, <1>13, <1>14, <1>15, <1>16 DEF Core

\* Time passing keeps the invariant: it changes nothing but the clocks.
LEMMA ElapseCore ==
  ASSUME Core, Elapse
  PROVE  Core'
<1>1. /\ inflight_cmds \in Seq(Inflight) /\ hist' = hist
      /\ aecp_seq_id' = aecp_seq_id
      /\ inflight_cmds' = [j \in DOMAIN inflight_cmds |-> Later(inflight_cmds[j])]
  BY DEF Core, CoreType, Elapse
<1>2. \A e \in Inflight :
        /\ Later(e) \in Inflight /\ Later(e).cmd = e.cmd
        /\ Later(e).seq_id = e.seq_id
        /\ Later(e).start_timer_cnt = e.start_timer_cnt
  <2> TAKE e \in Inflight
  <2> DEFINE x == IF e.elapsed > MsgTimeout THEN e.elapsed ELSE e.elapsed + 1
  <2>1. x \in 0 .. MsgTimeout + 1
    BY AecpAssumption DEF Inflight
  <2>2. Later(e) = [e EXCEPT !.elapsed = x]
    BY DEF Later
  <2> HIDE DEF x
  <2> QED
    BY <2>1, <2>2 DEF Inflight
<1>3. \A j \in DOMAIN inflight_cmds : inflight_cmds[j] \in Inflight
  BY <1>1
<1>4. /\ inflight_cmds' \in Seq(Inflight)
      /\ DOMAIN inflight_cmds' = DOMAIN inflight_cmds
      /\ \A j \in DOMAIN inflight_cmds :
           /\ inflight_cmds'[j].cmd = inflight_cmds[j].cmd
           /\ inflight_cmds'[j].seq_id = inflight_cmds[j].seq_id
           /\ inflight_cmds'[j].start_timer_cnt = inflight_cmds[j].start_timer_cnt
  <2>1. inflight_cmds' \in [DOMAIN inflight_cmds -> Inflight]
    BY <1>1, <1>2, <1>3
  <2> QED
    BY <2>1, <1>1, <1>2, <1>3, MapProperties
<1>5. CoreType' /\ Numbered' /\ Window' /\ Ordered' /\ TimerCounts'
  <2>1. CoreType'
    BY <1>1, <1>4 DEF Core, CoreType
  <2>2. Numbered'
    BY <1>1, <1>4 DEF Core, Numbered
  <2>3. Window'
    BY <1>1, <1>4 DEF Core, Window
  <2>4. Ordered'
    BY <1>4 DEF Core, Ordered
  <2>5. TimerCounts'
    BY <1>1, <1>4 DEF Core, TimerCounts
  <2> QED
    BY <2>1, <2>2, <2>3, <2>4, <2>5
<1>6. EndsOnce' /\ TimeoutAfterRetry'
  <2>1. \A d \in DOMAIN hist : InFlight(d)' <=> InFlight(d)
    BY <1>4 DEF InFlight
  <2> QED
    BY <2>1, <1>1 DEF Core, EndsOnce, TimeoutAfterRetry
<1> QED
  BY <1>5, <1>6 DEF Core

LEMMA UnchangedCore ==
  ASSUME Core, UNCHANGED <<aecp_seq_id, inflight_cmds, hist>>
  PROVE  Core'
BY DEF Core, CoreType, Numbered, Window, Ordered, TimerCounts, EndsOnce,
       TimeoutAfterRetry, InFlight

\* Receiving a response, wanted or not, keeps the invariant.
LEMMA RespCore ==
  ASSUME Core, NEW s, NEW from \in Nat, NEW nid,
         update_inflight_for_rcvd_resp(s, from, nid), aecp_seq_id' = aecp_seq_id
  PROVE  Core'
<1>1. CASE \E j \in DOMAIN inflight_cmds :
             EraseInflight(j, callback(inflight_cmds[j].notification_flag), from)
  <2>1. PICK j \in DOMAIN inflight_cmds :
          EraseInflight(j, callback(inflight_cmds[j].notification_flag), from)
    BY <1>1
  <2>2. /\ callback(inflight_cmds[j].notification_flag) \in Ends
        /\ callback(inflight_cmds[j].notification_flag) # "COMMAND_TIMEOUT"
    BY DEF callback, Ends
  <2> HIDE DEF callback
  <2> QED
    BY <2>1, <2>2, EraseCore
<1>2. CASE UNCHANGED <<inflight_cmds, hist>>
  BY <1>2, UnchangedCore
<1> QED
  BY <1>1, <1>2 DEF update_inflight_for_rcvd_resp, proc_resp

\* One iteration of the loop in tick() keeps the invariant.
LEMMA TickCore ==
  ASSUME Core, TickStep
  PROVE  Core'
<1>1. CASE UNCHANGED <<inflight_cmds, hist>>
  BY <1>1, UnchangedCore DEF TickStep
<1>2. CASE /\ retried(inflight_cmds[tick_pos])
           /\ EraseInflight(tick_pos, "COMMAND_TIMEOUT", Unsol)
  <2>1. tick_pos \in DOMAIN inflight_cmds /\ aecp_seq_id' = aecp_seq_id
    BY DEF TickStep
  <2>2. inflight_cmds[tick_pos].start_timer_cnt = 2
    BY <1>2, <2>1 DEF retried, Core, TimerCounts
  <2> QED
    BY <1>2, <2>1, <2>2, EraseCore DEF Ends, Unsol
<1>3. CASE /\ ~retried(inflight_cmds[tick_pos])
           /\ tx_cmd_resend(inflight_cmds[tick_pos].seq_id,
                            inflight_cmds[tick_pos].cmd)
  <2>1. tick_pos \in DOMAIN inflight_cmds /\ aecp_seq_id' = aecp_seq_id
    BY DEF TickStep
  <2> QED
    BY <1>3, <2>1, ResendCore
<1> QED
  BY <1>1, <1>2, <1>3 DEF TickStep, state_timeout
-----------------------------------------------------------------------------
\* Every action keeps the invariant of the commands.
LEMMA CoreStep ==
  ASSUME Core, Next
  PROVE  Core'
<1>1. ASSUME NEW o \in Origins, NEW op \in OpIds \cup {NoOp}, SendCmd(o, op)
      PROVE  Core'
  <2>1. o[1] \in Ids /\ o[2] \in Flags
    BY DEF Origins, Ids, Flags
  <2> QED
    BY <1>1, <2>1, SendCore DEF SendCmd
<1>2. ASSUME NEW nid \in Ids, NEW c \in DOMAIN hist, RcvdResp(c, nid)
      PROVE  Core'
  <2>1. c \in Nat
    BY DEF Core, CoreType
  <2> QED
    BY <1>2, <2>1, RespCore DEF RcvdResp
<1>3. ASSUME NEW nid \in Ids, NEW c \in DOMAIN hist, RcvdStartOperationResp(c, nid)
      PROVE  Core'
  <2>1. c \in Nat
    BY DEF Core, CoreType
  <2> QED
    BY <1>3, <2>1, RespCore DEF RcvdStartOperationResp
<1>4. ASSUME NEW nid \in Ids, NEW s \in UnsolicitedSeqIds, RcvdUnsolicited(s, nid)
      PROVE  Core'
  BY <1>4, RespCore DEF RcvdUnsolicited, Unsol
<1>5. ASSUME NEW nid \in Ids, NEW s \in UnsolicitedSeqIds, NEW op \in OpIds,
             NEW fin \in BOOLEAN, RcvdOperationStatus(s, op, fin, nid)
      PROVE  Core'
  <2>1. PICK nid1 \in Ids : update_inflight_for_rcvd_resp(s, Unsol, nid1)
    BY <1>5 DEF RcvdOperationStatus
  <2> QED
    BY <1>5, <2>1, RespCore DEF RcvdOperationStatus, Unsol
<1>6. CASE TickBegin
  BY <1>6, UnchangedCore DEF TickBegin
<1>7. CASE TickStep
  BY <1>7, TickCore
<1>8. CASE TickEnd
  BY <1>8, UnchangedCore DEF TickEnd
<1>9. CASE Elapse
  BY <1>9, ElapseCore
<1> QED
  BY <1>1, <1>2, <1>3, <1>4, <1>5, <1>6, <1>7, <1>8, <1>9 DEF Next, Receive

\* Every action keeps the types of the operations and of the tick loop.
LEMMA OpsStep ==
  ASSUME Core, OpsType, Next
  PROVE  OpsType'
<1>1. CASE /\ UNCHANGED active_operations
           /\ tick_pos' \in Nat
  BY <1>1 DEF OpsType
<1>2. ASSUME NEW nid \in Ids, NEW c \in DOMAIN hist, RcvdStartOperationResp(c, nid)
      PROVE  OpsType'
  <2>1. hist[c].op \in OpIds /\ c \in Nat \ {0}
    <3>1. /\ hist \in Seq(CmdRecord) /\ hist[c] \in CmdRecord
          /\ hist[c].op # NoOp
      BY <1>2 DEF Core, CoreType, RcvdStartOperationResp
    <3>2. c \in Nat \ {0}
      BY <3>1
    <3>3. hist[c].op \in OpIds
      BY <3>1 DEF CmdRecord
    <3> QED
      BY <3>2, <3>3
  <2>2. [operation_id |-> hist[c].op, notification_id |-> nid, cmd |-> c] \in Operation
    BY <2>1 DEF Operation
  <2> QED
    BY <1>2, <2>2, AppendProperties
       DEF OpsType, RcvdStartOperationResp, start_operation
<1>3. ASSUME NEW nid \in Ids, NEW s \in UnsolicitedSeqIds, NEW op \in OpIds,
             NEW fin \in BOOLEAN, RcvdOperationStatus(s, op, fin, nid)
      PROVE  OpsType'
  <2>1. PICK nid1 \in Ids : update_operation_for_rcvd_resp(op, fin, nid1, nid)
    BY <1>3 DEF RcvdOperationStatus
  <2>2. \/ UNCHANGED active_operations
        \/ \E j \in DOMAIN active_operations :
             active_operations' = RemoveAt(active_operations, j)
    BY <2>1 DEF update_operation_for_rcvd_resp
  <2>3. active_operations' \in Seq(Operation)
    BY <2>2, RemoveAtProperties DEF OpsType
  <2> QED
    BY <1>3, <2>3 DEF OpsType, RcvdOperationStatus
<1>4. tick_pos \in Nat
  BY DEF OpsType
<1>5. ASSUME NEW o \in Origins, NEW op \in OpIds \cup {NoOp}, SendCmd(o, op)
      PROVE  OpsType'
  BY <1>1, <1>4, <1>5 DEF SendCmd, state_send_cmd, PushInflight
<1>6. ASSUME NEW nid \in Ids, NEW c \in DOMAIN hist, RcvdResp(c, nid)
      PROVE  OpsType'
  BY <1>1, <1>4, <1>6 DEF RcvdResp
<1>7. ASSUME NEW nid \in Ids, NEW s \in UnsolicitedSeqIds, RcvdUnsolicited(s, nid)
      PROVE  OpsType'
  BY <1>1, <1>4, <1>7 DEF RcvdUnsolicited
<1>8. TickBegin \/ TickStep \/ TickEnd \/ Elapse => OpsType'
  BY <1>1, <1>4 DEF TickBegin, TickStep, TickEnd, Elapse
<1> QED
  BY <1>2, <1>3, <1>5, <1>6, <1>7, <1>8 DEF Next, Receive

LEMMA InitInv == Init => IInv
<1> SUFFICES ASSUME Init
             PROVE  IInv
  OBVIOUS
<1>1. /\ aecp_seq_id = 0 /\ inflight_cmds = <<>> /\ hist = <<>>
      /\ active_operations = <<>> /\ tick_pos = 0
  BY DEF Init
<1>2. 0 % SeqIdMod = 0 /\ 0 \in 0 .. SeqIdMod - 1
  BY AecpAssumption
<1> QED
  BY <1>1, <1>2 DEF IInv, Core, CoreType, Numbered, Window, Ordered, TimerCounts,
                    EndsOnce, TimeoutAfterRetry, OpsType

LEMMA NextInv == IInv /\ [Next]_aecpVars => IInv'
<1>1. ASSUME IInv, Next
      PROVE  IInv'
  BY <1>1, CoreStep, OpsStep DEF IInv
<1>2. ASSUME IInv, UNCHANGED aecpVars
      PROVE  IInv'
  BY <1>2, UnchangedCore DEF IInv, OpsType, aecpVars
<1> QED
  BY <1>1, <1>2

THEOREM Invariant == Spec => []IInv
BY InitInv, NextInv, PTL DEF Spec

\* Every variable keeps its type: in particular the sequence id stays in
\* uint16_t's range and every entry in flight belongs to a command issued.
THEOREM TypeCorrect == Spec => []TypeOK
<1>1. IInv => TypeOK
  BY DEF IInv, Core, CoreType, OpsType, TypeOK
<1> QED
  BY <1>1, Invariant, PTL

\* Two commands in flight never share a sequence id.
THEOREM SeqIdsDistinct == Spec => []DistinctSeqIds
<1>1. IInv => DistinctSeqIds
  BY CoreDistinct DEF IInv
<1> QED
  BY <1>1, Invariant, PTL

\* Every command issued is in flight or has ended exactly once.
THEOREM CommandsEndOnce == Spec => []EndsOnce
<1>1. IInv => EndsOnce
  BY DEF IInv, Core
<1> QED
  BY <1>1, Invariant, PTL

\* COMMAND_TIMEOUT only ever ends a command that was sent twice, and no
\* command is sent a third time.
THEOREM TimeoutsAfterRetry == Spec => []TimeoutAfterRetry
<1>1. IInv => TimeoutAfterRetry
  BY DEF IInv, Core
<1> QED
  BY <1>1, Invariant, PTL
-----------------------------------------------------------------------------
\* A response to command c that is still alive can only find c in flight.
LEMMA OwnEntry ==
  ASSUME Core, NEW c \in DOMAIN hist, FrameAlive(c),
         NEW j \in DOMAIN inflight_cmds, inflight_cmds[j].seq_id = hist[c].seq_id
  PROVE  inflight_cmds[j].cmd = c
<1>1. PICK d \in DOMAIN hist : d = inflight_cmds[j].cmd
  BY DEF Core, CoreType
<1>2. /\ DOMAIN hist = 1 .. Len(hist) /\ Len(hist) \in Nat
      /\ SeqIdMod \in Nat \ {0}
  BY AecpAssumption DEF Core, CoreType
<1>3. Len(hist) - c < SeqIdMod /\ Len(hist) - d < SeqIdMod
  BY <1>1 DEF FrameAlive, Issued, Core, Window
<1>4. (c - 1) % SeqIdMod = (d - 1) % SeqIdMod
  BY <1>1 DEF Core, Numbered
<1>5. c - 1 \in Nat /\ d - 1 \in Nat
  BY <1>2
<1>6. CASE c >= d
  <2>1. c - 1 >= d - 1 /\ (c - 1) - (d - 1) < SeqIdMod
    BY <1>2, <1>3, <1>6
  <2>2. c - 1 = d - 1
    BY <1>2, <1>4, <1>5, <2>1, ModUnique
  <2> QED
    BY <1>1, <1>2, <2>2
<1>7. CASE d >= c
  <2>1. d - 1 >= c - 1 /\ (d - 1) - (c - 1) < SeqIdMod
    BY <1>2, <1>3, <1>7
  <2>2. d - 1 = c - 1
    BY <1>2, <1>4, <1>5, <2>1, ModUnique
  <2> QED
    BY <1>1, <1>2, <2>2
<1> QED
  BY <1>2, <1>6, <1>7

\* Erasing an entry keeps NeverAnothersResponse if a response that ends a
\* command is a response to that command or unsolicited.
LEMMA EraseAnswered ==
  ASSUME Core, NeverAnothersResponse, NEW j \in DOMAIN inflight_cmds,
         NEW end \in Ends, NEW from \in Nat,
         end # "COMMAND_TIMEOUT" => from \in {inflight_cmds[j].cmd, Unsol},
         EraseInflight(j, end, from)
  PROVE  NeverAnothersResponse'
<1> DEFINE r == [end |-> end, from |-> from]
<1>1. PICK c \in DOMAIN hist : c = inflight_cmds[j].cmd
  BY DEF Core, CoreType
<1>2. /\ hist \in Seq(CmdRecord) /\ hist[c] \in CmdRecord
      /\ hist[c].outcome \in Seq([end : Ends, from : Nat])
  <2>1. hist \in Seq(CmdRecord) /\ hist[c] \in CmdRecord
    BY DEF Core, CoreType
  <2>2. hist[c].outcome \in Seq([end : Ends, from : Nat])
    BY <2>1 DEF CmdRecord
  <2> QED
    BY <2>1, <2>2
<1>3. hist' = [hist EXCEPT ![c] = [hist[c] EXCEPT !.outcome = Append(@, r)]]
  BY <1>1 DEF EraseInflight
<1>4. /\ DOMAIN hist' = DOMAIN hist
      /\ hist'[c].outcome = Append(hist[c].outcome, r)
      /\ \A d \in DOMAIN hist : d # c => hist'[d] = hist[d]
  <2> HIDE DEF r
  <2> QED
    BY <1>2, <1>3 DEF CmdRecord
<1>5. r.end # "COMMAND_TIMEOUT" => r.from \in {c, Unsol}
  BY <1>1
<1> HIDE DEF r
<1>6. ASSUME NEW k \in DOMAIN hist'[c].outcome,
             hist'[c].outcome[k].end # "COMMAND_TIMEOUT"
      PROVE  hist'[c].outcome[k].from \in {c, Unsol}
  <2>1. /\ k \in 1 .. Len(hist[c].outcome) + 1
        /\ k \in 1 .. Len(hist[c].outcome) => hist'[c].outcome[k] = hist[c].outcome[k]
        /\ k = Len(hist[c].outcome) + 1 => hist'[c].outcome[k] = r
    BY <1>2, <1>4, <1>6
  <2>2. CASE k \in 1 .. Len(hist[c].outcome)
    BY <2>1, <2>2, <1>2, <1>6 DEF NeverAnothersResponse
  <2>3. CASE k = Len(hist[c].outcome) + 1
    BY <2>1, <2>3, <1>5, <1>6
  <2> QED
    BY <2>1, <2>2, <2>3, <1>2
<1> QED
  BY <1>4, <1>6 DEF NeverAnothersResponse

\* A command that ends with a response ends with a response to itself or with
\* an unsolicited one, never with a late response to another command.
THEOREM NoCrossedResponse == Spec => []NeverAnothersResponse
<1>1. ASSUME Core, NeverAnothersResponse, UNCHANGED hist
      PROVE  NeverAnothersResponse'
  BY <1>1 DEF NeverAnothersResponse
<1>2. ASSUME Core, NeverAnothersResponse, NEW s, NEW from \in Nat, NEW nid \in Ids,
             \A j \in DOMAIN inflight_cmds :
               inflight_cmds[j].seq_id = s => from \in {inflight_cmds[j].cmd, Unsol},
             update_inflight_for_rcvd_resp(s, from, nid)
      PROVE  NeverAnothersResponse'
  <2>1. CASE UNCHANGED hist
    BY <2>1, <1>1, <1>2
  <2>2. CASE \E j \in DOMAIN inflight_cmds :
               /\ FirstWithSeqId(j, s)
               /\ EraseInflight(j, callback(inflight_cmds[j].notification_flag), from)
    <3>1. PICK j \in DOMAIN inflight_cmds :
            /\ FirstWithSeqId(j, s)
            /\ EraseInflight(j, callback(inflight_cmds[j].notification_flag), from)
      BY <2>2
    <3>2. from \in {inflight_cmds[j].cmd, Unsol}
      BY <3>1, <1>2 DEF FirstWithSeqId
    <3>3. callback(inflight_cmds[j].notification_flag) \in Ends
      BY DEF callback, Ends
    <3> HIDE DEF callback
    <3> QED
      BY <3>1, <3>2, <3>3, <1>2, EraseAnswered
  <2> QED
    BY <1>2, <2>1, <2>2 DEF update_inflight_for_rcvd_resp, proc_resp
<1>2a. ASSUME Core, NeverAnothersResponse, NEW c \in DOMAIN hist, FrameAlive(c),
              NEW nid \in Ids, update_inflight_for_rcvd_resp(hist[c].seq_id, c, nid)
       PROVE  NeverAnothersResponse'
  <2>1. c \in Nat
    BY <1>2a DEF Core, CoreType
  <2>2. \A j \in DOMAIN inflight_cmds :
          inflight_cmds[j].seq_id = hist[c].seq_id => inflight_cmds[j].cmd = c
    BY <1>2a, OwnEntry
  <2> QED
    BY <2>1, <2>2, <1>2a, <1>2
<1>2b. ASSUME Core, NeverAnothersResponse, NEW s \in UnsolicitedSeqIds,
              NEW nid \in Ids, update_inflight_for_rcvd_resp(s, Unsol, nid)
       PROVE  NeverAnothersResponse'
  <2>1. Unsol \in Nat
    BY DEF Unsol
  <2> QED
    BY <2>1, <1>2b, <1>2
<1>3. ASSUME Core, NeverAnothersResponse, NEW o \in Origins,
             NEW op \in OpIds \cup {NoOp}, SendCmd(o, op)
      PROVE  NeverAnothersResponse'
  <2>1. /\ hist \in Seq(CmdRecord)
        /\ hist' = Append(hist, [seq_id |-> aecp_seq_id, notification_id |-> o[1],
                                 op |-> op, sends |-> 1, outcome |-> <<>>])
    BY <1>3 DEF Core, CoreType, SendCmd, state_send_cmd, PushInflight
  <2>2. /\ DOMAIN hist' = 1 .. Len(hist) + 1 /\ DOMAIN hist = 1 .. Len(hist)
        /\ \A c \in 1 .. Len(hist) : hist'[c] = hist[c]
        /\ hist'[Len(hist) + 1].outcome = <<>>
    BY <2>1
  <2>3. \A c \in DOMAIN hist' : c \in DOMAIN hist \/ c = Len(hist) + 1
    BY <2>1, <2>2
  <2> QED
    BY <1>3, <2>2, <2>3 DEF NeverAnothersResponse
<1>4. ASSUME Core, NeverAnothersResponse, TickStep
      PROVE  NeverAnothersResponse'
  <2>1. CASE UNCHANGED hist
    BY <2>1, <1>1, <1>4
  <2>2. CASE EraseInflight(tick_pos, "COMMAND_TIMEOUT", Unsol)
    BY <2>2, <1>4, EraseAnswered DEF TickStep, Ends, Unsol
  <2>3. CASE tx_cmd_resend(inflight_cmds[tick_pos].seq_id, inflight_cmds[tick_pos].cmd)
    <3>1. PICK c \in DOMAIN hist : c = inflight_cmds[tick_pos].cmd
      BY <1>4 DEF TickStep, Core, CoreType
    <3>2. hist' = [hist EXCEPT ![c] = [hist[c] EXCEPT !.sends = hist[c].sends + 1]]
      BY <2>3, <3>1 DEF tx_cmd_resend
    <3>3. /\ DOMAIN hist' = DOMAIN hist
          /\ \A d \in DOMAIN hist : hist'[d].outcome = hist[d].outcome
      <4>1. hist \in Seq(CmdRecord) /\ hist[c] \in CmdRecord
        BY <1>4 DEF Core, CoreType
      <4> QED
        BY <3>2, <4>1 DEF CmdRecord
    <3> QED
      BY <3>3, <1>4 DEF NeverAnothersResponse
  <2> QED
    BY <1>4, <2>1, <2>2, <2>3 DEF TickStep, state_timeout
<1>5. Init => NeverAnothersResponse
  BY DEF Init, NeverAnothersResponse
<1>6. IInv /\ NeverAnothersResponse /\ [Next]_aecpVars => NeverAnothersResponse'
  <2> SUFFICES ASSUME Core, NeverAnothersResponse, [Next]_aecpVars
               PROVE  NeverAnothersResponse'
    BY DEF IInv
  <2>1. CASE UNCHANGED aecpVars
    BY <2>1, <1>1 DEF aecpVars
  <2>2. CASE Receive
    <3> SUFFICES ASSUME NEW nid \in Ids,
                        \/ \E c \in DOMAIN hist : RcvdResp(c, nid)
                        \/ \E c \in DOMAIN hist : RcvdStartOperationResp(c, nid)
                        \/ \E s \in UnsolicitedSeqIds : RcvdUnsolicited(s, nid)
                        \/ \E s \in UnsolicitedSeqIds, op \in OpIds, fin \in BOOLEAN :
                             RcvdOperationStatus(s, op, fin, nid)
                 PROVE  NeverAnothersResponse'
      BY <2>2 DEF Receive
    <3>1. ASSUME NEW c \in DOMAIN hist, RcvdResp(c, nid) \/ RcvdStartOperationResp(c, nid)
          PROVE  NeverAnothersResponse'
      BY <3>1, <1>2a DEF RcvdResp, RcvdStartOperationResp
    <3>2. ASSUME NEW s \in UnsolicitedSeqIds, RcvdUnsolicited(s, nid)
          PROVE  NeverAnothersResponse'
      BY <3>2, <1>2b DEF RcvdUnsolicited
    <3>3. ASSUME NEW s \in UnsolicitedSeqIds, NEW op \in OpIds, NEW fin \in BOOLEAN,
                 RcvdOperationStatus(s, op, fin, nid)
          PROVE  NeverAnothersResponse'
      BY <3>3, <1>2b DEF RcvdOperationStatus
    <3> QED
      BY <3>1, <3>2, <3>3
  <2>3. CASE TickBegin \/ TickEnd \/ Elapse
    BY <2>3, <1>1 DEF TickBegin, TickEnd, Elapse
  <2> QED
    BY <2>1, <2>2, <2>3, <1>3, <1>4 DEF Next
<1> QED
  BY <1>5, <1>6, Invariant, PTL DEF Spec
-----------------------------------------------------------------------------
(***************************************************************************)
(* AecpController implements CommandLifecycle, and operations keep their   *)
(* owner.                                                                  *)
(*                                                                         *)
(* Both need Origin: what the entry in flight says of a command (the id it *)
(* was given, and whether the application is to be told of its end) is     *)
(* what was said when it was issued.  The rest is the inductive invariant  *)
(* above: an entry in flight has no outcome yet, its start count is the    *)
(* number of transmissions, and the lookup of a sequence id finds the      *)
(* command meant.                                                          *)
(***************************************************************************)
Origin ==
  \A j \in DOMAIN inflight_cmds :
    LET e == inflight_cmds[j]
    IN  /\ e.notification_id = hist[e.cmd].notification_id
        /\ e.notification_flag = CMD_WITH_NOTIFICATION <=> e.notification_id # Null

OpsIssued ==
  \A j \in DOMAIN active_operations : active_operations[j].cmd \in DOMAIN hist

RInv == IInv /\ Origin /\ OpsIssued /\ OperationOwner
-----------------------------------------------------------------------------
\* Erasing an entry changes the history of its command only: one outcome more,
\* and it is the first.
LEMMA EraseHist ==
  ASSUME Core, NEW j \in DOMAIN inflight_cmds, NEW end \in Ends, NEW from \in Nat,
         EraseInflight(j, end, from)
  PROVE  LET c == inflight_cmds[j].cmd
         IN  /\ c \in DOMAIN hist /\ hist[c].outcome = <<>>
             /\ DOMAIN hist' = DOMAIN hist
             /\ hist'[c].notification_id = hist[c].notification_id
             /\ hist'[c].sends = hist[c].sends
             /\ hist'[c].outcome = <<[end |-> end, from |-> from]>>
             /\ \A d \in DOMAIN hist : d # c => hist'[d] = hist[d]
<1> DEFINE r == [end |-> end, from |-> from]
<1>1. PICK c \in DOMAIN hist : c = inflight_cmds[j].cmd
  BY DEF Core, CoreType
<1>2. /\ hist \in Seq(CmdRecord) /\ hist[c] \in CmdRecord
      /\ hist[c].outcome \in Seq([end : Ends, from : Nat])
  <2>1. hist \in Seq(CmdRecord) /\ hist[c] \in CmdRecord
    BY DEF Core, CoreType
  <2> QED
    BY <2>1 DEF CmdRecord
<1>3. hist[c].outcome = <<>>
  <2>1. InFlight(c)
    BY <1>1 DEF InFlight
  <2>2. Len(hist[c].outcome) = 0
    BY <2>1 DEF Core, EndsOnce
  <2> QED
    BY <2>2, <1>2, EmptySeq
<1>4. hist' = [hist EXCEPT ![c] = [hist[c] EXCEPT !.outcome = Append(hist[c].outcome, r)]]
  BY <1>1 DEF EraseInflight
<1> HIDE DEF r
<1>5. Append(hist[c].outcome, r) = <<r>>
  BY <1>3
<1>6. hist' = [hist EXCEPT ![c] = [hist[c] EXCEPT !.outcome = <<r>>]]
  BY <1>4, <1>5
<1>7. /\ DOMAIN hist' = DOMAIN hist
      /\ hist'[c] = [hist[c] EXCEPT !.outcome = <<r>>]
      /\ \A d \in DOMAIN hist : d # c => hist'[d] = hist[d]
  BY <1>2, <1>6
<1>8. /\ hist'[c].notification_id = hist[c].notification_id
      /\ hist'[c].sends = hist[c].sends
      /\ hist'[c].outcome = <<r>>
  BY <1>2, <1>7 DEF CmdRecord
<1> QED
  BY <1>1, <1>3, <1>7, <1>8 DEF r

\* A resend changes the history of its command only: one transmission more,
\* the second, and the command has no outcome.
LEMMA ResendHist ==
  ASSUME Core, NEW i \in DOMAIN inflight_cmds, ~retried(inflight_cmds[i]),
         tx_cmd_resend(inflight_cmds[i].seq_id, inflight_cmds[i].cmd)
  PROVE  LET c == inflight_cmds[i].cmd
         IN  /\ c \in DOMAIN hist /\ hist[c].outcome = <<>> /\ hist[c].sends = 1
             /\ DOMAIN hist' = DOMAIN hist
             /\ hist'[c].notification_id = hist[c].notification_id
             /\ hist'[c].sends = 2
             /\ hist'[c].outcome = <<>>
             /\ \A d \in DOMAIN hist : d # c => hist'[d] = hist[d]
<1>1. PICK c \in DOMAIN hist : c = inflight_cmds[i].cmd
  BY DEF Core, CoreType
<1>2. hist \in Seq(CmdRecord) /\ hist[c] \in CmdRecord
  BY DEF Core, CoreType
<1>3. hist[c].outcome = <<>>
  <2>1. InFlight(c)
    BY <1>1 DEF InFlight
  <2>2. Len(hist[c].outcome) = 0
    BY <2>1 DEF Core, EndsOnce
  <2>3. hist[c].outcome \in Seq([end : Ends, from : Nat])
    BY <1>2 DEF CmdRecord
  <2> QED
    BY <2>2, <2>3, EmptySeq
<1>4. hist[c].sends = 1
  BY <1>1 DEF Core, TimerCounts, retried
<1>5. hist' = [hist EXCEPT ![c] = [hist[c] EXCEPT !.sends = 2]]
  BY <1>1, <1>4 DEF tx_cmd_resend
<1>6. /\ DOMAIN hist' = DOMAIN hist
      /\ hist'[c] = [hist[c] EXCEPT !.sends = 2]
      /\ \A d \in DOMAIN hist : d # c => hist'[d] = hist[d]
  BY <1>2, <1>5
<1>7. /\ hist'[c].notification_id = hist[c].notification_id
      /\ hist'[c].sends = 2
      /\ hist'[c].outcome = <<>>
  BY <1>2, <1>3, <1>6 DEF CmdRecord
<1> QED
  BY <1>1, <1>3, <1>4, <1>6, <1>7

\* Issuing a command adds one to the history and leaves the others alone.
LEMMA SendHist ==
  ASSUME Core, NEW o \in Origins, NEW op \in OpIds \cup {NoOp}, SendCmd(o, op)
  PROVE  LET n == Len(hist) + 1
         IN  /\ hist' \in Seq(CmdRecord)
             /\ DOMAIN hist = 1 .. Len(hist) /\ Len(hist) \in Nat
             /\ DOMAIN hist' = 1 .. n
             /\ hist'[n].notification_id = o[1]
             /\ hist'[n].sends = 1 /\ hist'[n].outcome = <<>>
             /\ \A d \in DOMAIN hist : hist'[d] = hist[d]
<1> DEFINE h == [seq_id |-> aecp_seq_id, notification_id |-> o[1], op |-> op,
                 sends |-> 1, outcome |-> <<>>]
<1>1. hist \in Seq(CmdRecord) /\ hist' = Append(hist, h)
  BY DEF Core, CoreType, SendCmd, state_send_cmd, PushInflight
<1>2. /\ h.notification_id = o[1] /\ h.sends = 1 /\ h.outcome = <<>>
      /\ h \in CmdRecord
  <2>1. o[1] \in Ids
    BY DEF Origins, Ids
  <2>2. aecp_seq_id \in 0 .. SeqIdMod - 1
    BY DEF Core, CoreType
  <2> QED
    BY <2>1, <2>2 DEF CmdRecord
<1> HIDE DEF h
<1>3. /\ hist' \in Seq(CmdRecord) /\ Len(hist') = Len(hist) + 1
      /\ hist'[Len(hist) + 1] = h
      /\ \A d \in 1 .. Len(hist) : hist'[d] = hist[d]
  BY <1>1, <1>2, AppendProperties
<1>4. /\ DOMAIN hist = 1 .. Len(hist) /\ Len(hist) \in Nat
      /\ DOMAIN hist' = 1 .. Len(hist) + 1
  BY <1>1, <1>3
<1> QED
  BY <1>2, <1>3, <1>4

\* A response either ends the first command in flight with its sequence id or
\* changes nothing.
LEMMA RespCases ==
  ASSUME NEW s, NEW from \in Nat, NEW nid, update_inflight_for_rcvd_resp(s, from, nid)
  PROVE  \/ \E j \in DOMAIN inflight_cmds :
              /\ inflight_cmds[j].seq_id = s
              /\ nid = inflight_cmds[j].notification_id
              /\ callback(inflight_cmds[j].notification_flag) \in Ends
              /\ EraseInflight(j, callback(inflight_cmds[j].notification_flag), from)
         \/ nid = Null /\ UNCHANGED <<inflight_cmds, hist>>
<1>1. \A flag : callback(flag) \in Ends
  BY DEF callback, Ends
<1> QED
  BY <1>1 DEF update_inflight_for_rcvd_resp, proc_resp, FirstWithSeqId

\* What the actions other than SendCmd do to the commands: one of them ends,
\* one of them is resent, or none is touched.
LEMMA StepCases ==
  ASSUME Core, Next,
         \A o \in Origins, op \in OpIds \cup {NoOp} : ~SendCmd(o, op)
  PROVE  \/ UNCHANGED hist /\ (Elapse \/ UNCHANGED inflight_cmds)
         \/ \E j \in DOMAIN inflight_cmds, from \in Nat :
              LET end == callback(inflight_cmds[j].notification_flag)
              IN  end \in Ends /\ EraseInflight(j, end, from)
         \/ \E j \in DOMAIN inflight_cmds :
              /\ retried(inflight_cmds[j])
              /\ EraseInflight(j, "COMMAND_TIMEOUT", Unsol)
         \/ \E j \in DOMAIN inflight_cmds :
              /\ ~retried(inflight_cmds[j])
              /\ tx_cmd_resend(inflight_cmds[j].seq_id, inflight_cmds[j].cmd)
<1>1. ASSUME NEW s, NEW from \in Nat, NEW nid,
             update_inflight_for_rcvd_resp(s, from, nid)
      PROVE  \/ UNCHANGED <<inflight_cmds, hist>>
             \/ \E j \in DOMAIN inflight_cmds, f \in Nat :
                  LET end == callback(inflight_cmds[j].notification_flag)
                  IN  end \in Ends /\ EraseInflight(j, end, f)
  BY <1>1, RespCases
<1>2. \A c \in DOMAIN hist : c \in Nat
  BY DEF Core, CoreType
<1>3. Unsol \in Nat
  BY DEF Unsol
<1>4. CASE Receive
  <2>1. PICK nid \in Ids :
          \/ \E c \in DOMAIN hist : RcvdResp(c, nid) \/ RcvdStartOperationResp(c, nid)
          \/ \E t \in UnsolicitedSeqIds : RcvdUnsolicited(t, nid)
          \/ \E t \in UnsolicitedSeqIds, op \in OpIds, fin \in BOOLEAN :
               RcvdOperationStatus(t, op, fin, nid)
    BY <1>4 DEF Receive
  <2>2. ASSUME NEW c \in DOMAIN hist, RcvdResp(c, nid) \/ RcvdStartOperationResp(c, nid)
        PROVE  update_inflight_for_rcvd_resp(hist[c].seq_id, c, nid)
    BY <2>2 DEF RcvdResp, RcvdStartOperationResp
  <2>3. ASSUME NEW t \in UnsolicitedSeqIds, RcvdUnsolicited(t, nid)
        PROVE  update_inflight_for_rcvd_resp(t, Unsol, nid)
    BY <2>3 DEF RcvdUnsolicited
  <2>4. ASSUME NEW t \in UnsolicitedSeqIds, NEW op \in OpIds, NEW fin \in BOOLEAN,
               RcvdOperationStatus(t, op, fin, nid)
        PROVE  \E nid1 : update_inflight_for_rcvd_resp(t, Unsol, nid1)
    BY <2>4 DEF RcvdOperationStatus
  <2> QED
    BY <2>1, <2>2, <2>3, <2>4, <1>1, <1>2, <1>3
<1>5. CASE TickStep
  BY <1>5 DEF TickStep, state_timeout
<1>6. CASE TickBegin \/ TickEnd \/ Elapse
  BY <1>6 DEF TickBegin, TickEnd, Elapse
<1> QED
  BY <1>4, <1>5, <1>6 DEF Next
-----------------------------------------------------------------------------
\* A command keeps the id it was issued with.
LEMMA IdsKept ==
  ASSUME Core, Next
  PROVE  \A c \in DOMAIN hist :
           c \in DOMAIN hist' /\ hist'[c].notification_id = hist[c].notification_id
<1>1. ASSUME NEW o \in Origins, NEW op \in OpIds \cup {NoOp}, SendCmd(o, op)
      PROVE  \A c \in DOMAIN hist : c \in DOMAIN hist' /\ hist'[c] = hist[c]
  BY <1>1, SendHist
<1>2. \A c \in DOMAIN hist : hist[c] \in CmdRecord
  BY DEF Core, CoreType
<1>3. ASSUME NEW j \in DOMAIN inflight_cmds, NEW from \in Nat, NEW end \in Ends,
             EraseInflight(j, end, from)
      PROVE  \A c \in DOMAIN hist :
               c \in DOMAIN hist' /\ hist'[c].notification_id = hist[c].notification_id
  BY <1>2, <1>3, EraseHist DEF CmdRecord
<1>4. ASSUME NEW j \in DOMAIN inflight_cmds, ~retried(inflight_cmds[j]),
             tx_cmd_resend(inflight_cmds[j].seq_id, inflight_cmds[j].cmd)
      PROVE  \A c \in DOMAIN hist :
               c \in DOMAIN hist' /\ hist'[c].notification_id = hist[c].notification_id
  BY <1>2, <1>4, ResendHist DEF CmdRecord
<1>5. "COMMAND_TIMEOUT" \in Ends /\ Unsol \in Nat
  BY DEF Ends, Unsol
<1> QED
  BY <1>1, <1>3, <1>4, <1>5, StepCases

\* Every entry pushed says what its command says, and keeps saying it.
LEMMA OriginStep ==
  ASSUME Core, Origin, Next
  PROVE  Origin'
<1>1. ASSUME NEW o \in Origins, NEW op \in OpIds \cup {NoOp}, SendCmd(o, op)
      PROVE  Origin'
  <2> DEFINE e == start_timer(NewInflight(o[1], o[2]))
  <2>1. /\ inflight_cmds' = Append(inflight_cmds, e)
        /\ inflight_cmds \in Seq(Inflight)
    BY <1>1 DEF SendCmd, state_send_cmd, PushInflight, Core, CoreType
  <2>2. /\ e.cmd = Len(hist) + 1 /\ e.notification_id = o[1]
        /\ e.notification_flag = o[2]
    BY DEF start_timer, NewInflight, Issued
  <2>3. o[2] = CMD_WITH_NOTIFICATION <=> o[1] # Null
    BY AecpAssumption DEF Origins, CMD_WITH_NOTIFICATION, CMD_WITHOUT_NOTIFICATION
  <2>4. /\ hist'[Len(hist) + 1].notification_id = o[1]
        /\ \A d \in DOMAIN hist : hist'[d] = hist[d]
    BY <1>1, SendHist
  <2> HIDE DEF e
  <2>5. \A k \in DOMAIN inflight_cmds' :
          \/ k \in DOMAIN inflight_cmds /\ inflight_cmds'[k] = inflight_cmds[k]
          \/ inflight_cmds'[k] = e
    BY <2>1
  <2>6. \A j \in DOMAIN inflight_cmds : inflight_cmds[j].cmd \in DOMAIN hist
    BY DEF Core, CoreType
  <2> QED
    BY <2>2, <2>3, <2>4, <2>5, <2>6 DEF Origin
<1>2. ASSUME \A k \in DOMAIN inflight_cmds' : \E j \in DOMAIN inflight_cmds :
               /\ inflight_cmds'[k].cmd = inflight_cmds[j].cmd
               /\ inflight_cmds'[k].notification_id = inflight_cmds[j].notification_id
               /\ inflight_cmds'[k].notification_flag = inflight_cmds[j].notification_flag
      PROVE  Origin'
  <2>1. \A j \in DOMAIN inflight_cmds : inflight_cmds[j].cmd \in DOMAIN hist
    BY DEF Core, CoreType
  <2> QED
    BY <1>2, <2>1, IdsKept DEF Origin
<1>3. CASE UNCHANGED inflight_cmds
  BY <1>2, <1>3
<1>4. ASSUME NEW j \in DOMAIN inflight_cmds, NEW end, NEW from,
             EraseInflight(j, end, from)
      PROVE  Origin'
  <2>1. inflight_cmds' = RemoveAt(inflight_cmds, j)
    BY <1>4 DEF EraseInflight
  <2>2. \A k \in DOMAIN inflight_cmds' : \E i \in DOMAIN inflight_cmds :
          inflight_cmds'[k] = inflight_cmds[i]
    BY <2>1, EraseShape
  <2> QED
    BY <2>2, <1>2
<1>5. \A e \in Inflight :
        /\ Later(e).cmd = e.cmd /\ start_timer(e).cmd = e.cmd
        /\ Later(e).notification_id = e.notification_id
        /\ start_timer(e).notification_id = e.notification_id
        /\ Later(e).notification_flag = e.notification_flag
        /\ start_timer(e).notification_flag = e.notification_flag
  BY DEF Later, start_timer, Inflight
<1>6. /\ inflight_cmds \in Seq(Inflight)
      /\ \A j \in DOMAIN inflight_cmds : inflight_cmds[j] \in Inflight
  BY DEF Core, CoreType
<1>7. CASE Elapse
  <2>1. inflight_cmds' = [j \in DOMAIN inflight_cmds |-> Later(inflight_cmds[j])]
    BY <1>7 DEF Elapse
  <2> QED
    BY <2>1, <1>2, <1>5, <1>6
<1>8. ASSUME NEW s, NEW c, tx_cmd_resend(s, c)
      PROVE  Origin'
  <2>1. PICK j \in DOMAIN inflight_cmds :
          inflight_cmds' = [inflight_cmds EXCEPT ![j] = start_timer(inflight_cmds[j])]
    BY <1>8 DEF tx_cmd_resend
  <2>2. /\ DOMAIN inflight_cmds' = DOMAIN inflight_cmds
        /\ inflight_cmds'[j] = start_timer(inflight_cmds[j])
        /\ \A k \in DOMAIN inflight_cmds : k # j => inflight_cmds'[k] = inflight_cmds[k]
    BY <2>1, <1>6
  <2> QED
    BY <2>2, <1>2, <1>5, <1>6
<1> QED
  BY <1>1, <1>3, <1>4, <1>7, <1>8, StepCases

\* An operation starts under the id of its own command or under none, because
\* the response that starts it can only have found its own command in flight.
LEMMA OwnerStep ==
  ASSUME Core, OpsType, Origin, OpsIssued, OperationOwner, Next
  PROVE  OpsIssued' /\ OperationOwner'
<1>1. \A c \in DOMAIN hist :
        c \in DOMAIN hist' /\ hist'[c].notification_id = hist[c].notification_id
  BY IdsKept
<1>2. ASSUME \A k \in DOMAIN active_operations' :
               \/ \E j \in DOMAIN active_operations :
                    active_operations'[k] = active_operations[j]
               \/ /\ active_operations'[k].cmd \in DOMAIN hist
                  /\ active_operations'[k].notification_id \in
                       {hist[active_operations'[k].cmd].notification_id, Null}
      PROVE  OpsIssued' /\ OperationOwner'
  BY <1>1, <1>2 DEF OpsIssued, OperationOwner
<1>3. CASE UNCHANGED active_operations
  BY <1>2, <1>3
<1>4. ASSUME NEW nid \in Ids, NEW c \in DOMAIN hist, RcvdStartOperationResp(c, nid)
      PROVE  OpsIssued' /\ OperationOwner'
  <2>1. /\ FrameAlive(c) /\ update_inflight_for_rcvd_resp(hist[c].seq_id, c, nid)
        /\ c \in Nat
    BY <1>4 DEF RcvdStartOperationResp, Core, CoreType
  <2>2. nid \in {hist[c].notification_id, Null}
    <3>1. CASE \E j \in DOMAIN inflight_cmds :
                 /\ inflight_cmds[j].seq_id = hist[c].seq_id
                 /\ nid = inflight_cmds[j].notification_id
      BY <3>1, <2>1, OwnEntry DEF Origin
    <3> QED
      BY <3>1, <2>1, RespCases
  <2> DEFINE o == [operation_id |-> hist[c].op, notification_id |-> nid, cmd |-> c]
  <2>3. active_operations' = Append(active_operations, o)
    BY <1>4 DEF RcvdStartOperationResp, start_operation
  <2>4. o.cmd = c /\ o.notification_id = nid
    OBVIOUS
  <2> HIDE DEF o
  <2>5. \A k \in DOMAIN active_operations' :
          \/ k \in DOMAIN active_operations
               /\ active_operations'[k] = active_operations[k]
          \/ active_operations'[k] = o
    BY <2>3 DEF OpsType
  <2> QED
    BY <2>2, <2>4, <2>5, <1>2
<1>5. ASSUME NEW nid \in Ids, NEW s \in UnsolicitedSeqIds, NEW op \in OpIds,
             NEW fin \in BOOLEAN, RcvdOperationStatus(s, op, fin, nid)
      PROVE  OpsIssued' /\ OperationOwner'
  <2>1. \/ UNCHANGED active_operations
        \/ \E j \in DOMAIN active_operations :
             active_operations' = RemoveAt(active_operations, j)
    BY <1>5 DEF RcvdOperationStatus, update_operation_for_rcvd_resp
  <2>2. ASSUME NEW j \in DOMAIN active_operations,
               active_operations' = RemoveAt(active_operations, j)
        PROVE  \A k \in DOMAIN active_operations' :
                 \E i \in DOMAIN active_operations :
                   active_operations'[k] = active_operations[i]
    <3>1. active_operations \in Seq(Operation)
      BY DEF OpsType
    <3>2. /\ Len(active_operations') = Len(active_operations) - 1
          /\ active_operations' \in Seq(Operation)
          /\ \A k \in DOMAIN active_operations' :
               active_operations'[k] = IF k < j THEN active_operations[k]
                                                ELSE active_operations[k + 1]
      BY <2>2, <3>1, RemoveAtProperties
    <3>3. \A k \in DOMAIN active_operations' :
            k \in DOMAIN active_operations /\ k + 1 \in DOMAIN active_operations
      BY <3>1, <3>2
    <3> QED
      BY <3>2, <3>3
  <2> QED
    BY <2>1, <2>2, <1>2, <1>3
<1>6. ASSUME NEW nid \in Ids, NEW c \in DOMAIN hist, RcvdResp(c, nid)
      PROVE  OpsIssued' /\ OperationOwner'
  BY <1>3, <1>6 DEF RcvdResp
<1>7. ASSUME NEW nid \in Ids, NEW s \in UnsolicitedSeqIds, RcvdUnsolicited(s, nid)
      PROVE  OpsIssued' /\ OperationOwner'
  BY <1>3, <1>7 DEF RcvdUnsolicited
<1>8. ASSUME NEW o \in Origins, NEW op \in OpIds \cup {NoOp}, SendCmd(o, op)
      PROVE  OpsIssued' /\ OperationOwner'
  BY <1>3, <1>8 DEF SendCmd, state_send_cmd, PushInflight
<1>9. TickBegin \/ TickStep \/ TickEnd \/ Elapse => OpsIssued' /\ OperationOwner'
  BY <1>3 DEF TickBegin, TickStep, TickEnd, Elapse
<1> QED
  BY <1>4, <1>5, <1>6, <1>7, <1>8, <1>9 DEF Next, Receive

THEOREM RefinementInvariant == Spec => []RInv
<1>1. Init => RInv
  BY InitInv DEF Init, RInv, Origin, OpsIssued, OperationOwner
<1>2. RInv /\ [Next]_aecpVars => RInv'
  <2>1. ASSUME RInv, Next
        PROVE  RInv'
    BY <2>1, NextInv, OriginStep, OwnerStep DEF RInv, IInv
  <2>2. ASSUME RInv, UNCHANGED aecpVars
        PROVE  RInv'
    BY <2>2, NextInv DEF RInv, Origin, OpsIssued, OperationOwner, aecpVars
  <2> QED
    BY <2>1, <2>2
<1> QED
  BY <1>1, <1>2, PTL DEF Spec

\* An operation reports under the id of the START_OPERATION command that
\* started it or under none, never under the id of another command.
THEOREM OperationsKeepOwner == Spec => []OperationOwner
<1>1. RInv => OperationOwner
  BY DEF RInv
<1> QED
  BY <1>1, RefinementInvariant, PTL
-----------------------------------------------------------------------------
\* The lives after a step: those of a history that changes at one command.
LEMMA LivesExcept ==
  ASSUME NEW c \in DOMAIN hist, NEW v,
         DOMAIN hist' = DOMAIN hist,
         LifeOf(c)' = v,
         \A d \in DOMAIN hist : d # c => hist'[d] = hist[d]
  PROVE  Lives' = [Lives EXCEPT ![c] = v]
<1>1. \A d \in DOMAIN hist : d # c => LifeOf(d)' = LifeOf(d)
  BY DEF LifeOf
<1> QED
  BY <1>1 DEF Lives

\* No outcome, and one outcome, as seen in a life.
LEMMA ToldOf ==
  /\ [k \in DOMAIN <<>> |-> <<>>[k].end] = <<>>
  /\ \A r : [k \in DOMAIN <<r>> |-> <<r>>[k].end] = <<r.end>>
OBVIOUS

\* The report of the end of a command in flight is a Tell of its life.
LEMMA EraseTells ==
  ASSUME Core, NEW j \in DOMAIN inflight_cmds, NEW end \in Ends, NEW from \in Nat,
         EraseInflight(j, end, from)
  PROVE  Lifecycle!Tell(inflight_cmds[j].cmd, end)
<1>1. PICK c : c = inflight_cmds[j].cmd
  OBVIOUS
<1> DEFINE r == [end |-> end, from |-> from]
<1>2. /\ c \in DOMAIN hist /\ hist[c].outcome = <<>>
      /\ DOMAIN hist' = DOMAIN hist
      /\ hist'[c].notification_id = hist[c].notification_id
      /\ hist'[c].sends = hist[c].sends
      /\ hist'[c].outcome = <<r>>
      /\ \A d \in DOMAIN hist : d # c => hist'[d] = hist[d]
  BY <1>1, EraseHist
<1>3. r.end = end
  OBVIOUS
<1> HIDE DEF r
<1>4. /\ LifeOf(c).told = <<>>
      /\ LifeOf(c)' = [LifeOf(c) EXCEPT !.told = <<end>>]
  BY <1>2, <1>3, ToldOf DEF LifeOf
<1>5. c \in DOMAIN Lives /\ Lives[c] = LifeOf(c)
  BY <1>2 DEF Lives
<1>6. Lives' = [Lives EXCEPT ![c] = [Lives[c] EXCEPT !.told = <<end>>]]
  BY <1>2, <1>4, <1>5, LivesExcept
<1> QED
  BY <1>1, <1>4, <1>5, <1>6 DEF Lifecycle!Tell, Lifecycle!Pending

\* Every step of the controller is a step of one life or stutters.
LEMMA StepImplements ==
  ASSUME RInv, Next
  PROVE  [Lifecycle!LifeNext]_Lives
<1> USE DEF RInv, IInv
<1>1. CASE UNCHANGED hist
  BY <1>1 DEF Lives, LifeOf
<1>2. ASSUME NEW o \in Origins, NEW op \in OpIds \cup {NoOp}, SendCmd(o, op)
      PROVE  Lifecycle!Issue(o[1])
  <2> DEFINE v == [id |-> o[1], sends |-> 1, told |-> <<>>]
  <2>0. PICK n \in Nat : n = Len(hist) + 1
    BY <1>2, SendHist
  <2>1. /\ DOMAIN hist = 1 .. Len(hist) /\ Len(hist) \in Nat
        /\ DOMAIN hist' = 1 .. n
        /\ hist'[n].notification_id = o[1]
        /\ hist'[n].sends = 1 /\ hist'[n].outcome = <<>>
        /\ \A d \in DOMAIN hist : hist'[d] = hist[d]
    BY <1>2, <2>0, SendHist
  <2>2. Lives = [d \in 1 .. Len(hist) |-> LifeOf(d)]
    BY <2>1 DEF Lives
  <2>3. Lives' = [d \in 1 .. n |-> LifeOf(d)']
    BY <2>1 DEF Lives
  <2>4. LifeOf(n)' = v
    BY <2>1, ToldOf DEF LifeOf
  <2>5. \A d \in 1 .. Len(hist) : LifeOf(d)' = LifeOf(d)
    BY <2>1 DEF LifeOf
  <2>6. Lives' = Append(Lives, v)
    <3> HIDE DEF v
    <3> QED
      BY <2>0, <2>1, <2>2, <2>3, <2>4, <2>5
  <2> QED
    BY <2>6 DEF Lifecycle!Issue
<1>3. ASSUME NEW j \in DOMAIN inflight_cmds, NEW from \in Nat,
             callback(inflight_cmds[j].notification_flag) \in Ends,
             EraseInflight(j, callback(inflight_cmds[j].notification_flag), from)
      PROVE  Lifecycle!Respond(inflight_cmds[j].cmd)
  <2>1. PICK c \in DOMAIN hist : c = inflight_cmds[j].cmd
    BY DEF Core, CoreType
  <2>2. Lives[c].id = inflight_cmds[j].notification_id
    BY <2>1 DEF Lives, LifeOf, Origin
  <2>3. callback(inflight_cmds[j].notification_flag) =
          IF Lives[c].id = Null THEN "logged" ELSE "RESPONSE_RECEIVED"
    BY <2>2 DEF callback, Origin
  <2>4. Lifecycle!Tell(c, callback(inflight_cmds[j].notification_flag))
    BY <1>3, <2>1, EraseTells
  <2> QED
    BY <2>1, <2>3, <2>4 DEF Lifecycle!Respond
<1>4. ASSUME NEW j \in DOMAIN inflight_cmds, retried(inflight_cmds[j]),
             EraseInflight(j, "COMMAND_TIMEOUT", Unsol)
      PROVE  Lifecycle!GiveUp(inflight_cmds[j].cmd)
  <2>1. PICK c \in DOMAIN hist : c = inflight_cmds[j].cmd
    BY DEF Core, CoreType
  <2>2. Lives[c].sends = 2
    BY <1>4, <2>1 DEF Lives, LifeOf, retried, Core, TimerCounts
  <2>3. Lifecycle!Tell(c, "COMMAND_TIMEOUT")
    BY <1>4, <2>1, EraseTells DEF Ends, Unsol
  <2> QED
    BY <2>1, <2>2, <2>3 DEF Lifecycle!GiveUp
<1>5. ASSUME NEW j \in DOMAIN inflight_cmds, ~retried(inflight_cmds[j]),
             tx_cmd_resend(inflight_cmds[j].seq_id, inflight_cmds[j].cmd)
      PROVE  Lifecycle!SendAgain(inflight_cmds[j].cmd)
  <2>1. PICK c : c = inflight_cmds[j].cmd
    OBVIOUS
  <2>2. /\ c \in DOMAIN hist /\ hist[c].outcome = <<>> /\ hist[c].sends = 1
        /\ DOMAIN hist' = DOMAIN hist
        /\ hist'[c].notification_id = hist[c].notification_id
        /\ hist'[c].sends = 2 /\ hist'[c].outcome = <<>>
        /\ \A d \in DOMAIN hist : d # c => hist'[d] = hist[d]
    BY <1>5, <2>1, ResendHist
  <2>3. /\ LifeOf(c).told = <<>> /\ LifeOf(c).sends = 1
        /\ LifeOf(c)' = [LifeOf(c) EXCEPT !.sends = 2]
    BY <2>2, ToldOf DEF LifeOf
  <2>4. c \in DOMAIN Lives /\ Lives[c] = LifeOf(c)
    BY <2>2 DEF Lives
  <2>5. Lives' = [Lives EXCEPT ![c] = [Lives[c] EXCEPT !.sends = 2]]
    BY <2>2, <2>3, <2>4, LivesExcept
  <2> QED
    BY <2>1, <2>3, <2>4, <2>5 DEF Lifecycle!SendAgain, Lifecycle!Pending
<1>6. /\ DOMAIN Lives = DOMAIN hist
      /\ \A j \in DOMAIN inflight_cmds : inflight_cmds[j].cmd \in DOMAIN hist
  BY DEF Lives, Core, CoreType
<1>7. \A o \in Origins : o[1] \in NotifyIds \cup {Null}
  BY DEF Origins
<1> QED
  BY <1>1, <1>2, <1>3, <1>4, <1>5, <1>6, <1>7, StepCases DEF Lifecycle!LifeNext

\* The controller implements the life cycle it promises of every command: for
\* any number of sequence ids, any timeout and any losses, duplicates and
\* delays, each command is sent at most twice and then reported exactly once,
\* to the application only if it is the application's.
THEOREM ControllerImplements == Spec => ImplementsLifecycle
<1>1. Init => Lifecycle!LifeInit
  BY DEF Init, Lives, Lifecycle!LifeInit
<1>2. RInv /\ [Next]_aecpVars => [Lifecycle!LifeNext]_Lives
  <2>1. ASSUME UNCHANGED aecpVars
        PROVE  UNCHANGED Lives
    BY <2>1 DEF aecpVars, Lives, LifeOf
  <2> QED
    BY <2>1, StepImplements
<1> QED
  BY <1>1, <1>2, RefinementInvariant, PTL
     DEF Spec, ImplementsLifecycle, Lifecycle!LifeSpec
=============================================================================
