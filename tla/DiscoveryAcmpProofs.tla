------------------------ MODULE DiscoveryAcmpProofs ------------------------
(***************************************************************************)
(* Proofs about Discovery and AcmpController, the two parts of the         *)
(* controller that are outside AECP, one after the other.  They share no   *)
(* state (MCDiscoveryAcmp); each theorem is about the specification of     *)
(* one.                                                                    *)
(***************************************************************************)
EXTENDS Discovery, AcmpRefinement, AvdeccLemmas

-----------------------------------------------------------------------------
(***************************************************************************)
(* Proofs about Discovery for any set of entities, valid times and models. *)
(*                                                                         *)
(* What ties entities_vec, status and posted together holds step by step   *)
(* only if every entity has one entry, and if that entry is the one that   *)
(* was restarted when the entity was last heard: the timer of an entry     *)
(* shows exactly how long ago that was (Timers).                           *)
(***************************************************************************)

\* The entry of an entity runs for twice the valid time it asked for last, and
\* has run since it was heard last.
Timers ==
  \A i \in DOMAIN entities_vec :
    LET h == heard[entities_vec[i].entity_id]
    IN  /\ entities_vec[i].timeout = 2 * h.valid_time
        /\ entities_vec[i].elapsed = h.ago

DiscInv == TablesAgree /\ Timers /\ EnumerationFollows
-----------------------------------------------------------------------------
\* The position of the entry of an entity that has one.
LEMMA IndexOfProperties ==
  ASSUME TablesAgree, NEW e \in Entities, HaveEntity(e)
  PROVE  IndexOf(e) \in DOMAIN entities_vec /\ entities_vec[IndexOf(e)].entity_id = e
<1>1. PICK i \in DOMAIN entities_vec : entities_vec[i].entity_id = e
  BY DEF HaveEntity
<1>2. \A k \in 1 .. i - 1 : entities_vec[k].entity_id # e
  <2>1. \A k \in 1 .. i - 1 : k \in DOMAIN entities_vec /\ k # i
    BY DEF TablesAgree, DiscTypeOK
  <2> QED
    BY <2>1, <1>1 DEF TablesAgree
<1> QED
  BY <1>1, <1>2 DEF IndexOf

\* Having been heard, an entity has one entry, with a fresh timer; every other
\* entity has the entries it had.
LEMMA AvailEffect ==
  ASSUME TablesAgree, NEW e \in Entities, NEW v \in ValidTimes, state_avail(e, v)
  PROVE  /\ entities_vec' \in Seq(Entry)
         /\ \E i \in DOMAIN entities_vec' :
              /\ entities_vec'[i] = NewEntry(e, v)
              /\ \A k \in DOMAIN entities_vec' : k # i =>
                   /\ k \in DOMAIN entities_vec
                   /\ entities_vec'[k] = entities_vec[k]
                   /\ entities_vec[k].entity_id # e
         /\ \A k \in DOMAIN entities_vec : entities_vec[k].entity_id # e =>
              k \in DOMAIN entities_vec' /\ entities_vec'[k] = entities_vec[k]
         /\ posted' = [posted EXCEPT ![e] = "END_STATION_CONNECTED"]
<1>1. entities_vec \in Seq(Entry)
  BY DEF TablesAgree, DiscTypeOK
<1>2. NewEntry(e, v) \in Entry /\ NewEntry(e, v).entity_id = e
  <2>1. 2 * v \in {2 * w : w \in ValidTimes} /\ v * 2 = 2 * v
    BY DiscoveryAssumption
  <2> QED
    BY <2>1 DEF NewEntry, Entry, Timeout
<1> DEFINE r == NewEntry(e, v)
<1> HIDE DEF r
<1>3. CASE HaveEntity(e)
  <2>1. PICK i \in DOMAIN entities_vec : i = IndexOf(e) /\ entities_vec[i].entity_id = e
    BY <1>3, IndexOfProperties
  <2>2. entities_vec' = [entities_vec EXCEPT ![i] = r]
    BY <1>3, <2>1 DEF state_avail, update_entity_timeout, r
  <2>3. /\ entities_vec' \in Seq(Entry) /\ DOMAIN entities_vec' = DOMAIN entities_vec
        /\ entities_vec'[i] = r
        /\ \A k \in DOMAIN entities_vec : k # i => entities_vec'[k] = entities_vec[k]
    BY <1>1, <1>2, <2>2, ExceptProperties DEF r
  <2>4. \A k \in DOMAIN entities_vec : k # i => entities_vec[k].entity_id # e
    BY <2>1 DEF TablesAgree
  <2>5. posted' = [posted EXCEPT ![e] = "END_STATION_CONNECTED"]
    <3>1. posted[e] = "END_STATION_CONNECTED" /\ posted' = posted
      BY <1>3 DEF TablesAgree, state_avail
    <3> QED
      BY <3>1 DEF TablesAgree, DiscTypeOK
  <2> QED
    BY <2>1, <2>3, <2>4, <2>5 DEF r
<1>4. CASE ~HaveEntity(e)
  <2>1. entities_vec' = Append(entities_vec, r)
    BY <1>4 DEF state_avail, r
  <2>2. /\ entities_vec' \in Seq(Entry) /\ Len(entities_vec) \in Nat
        /\ DOMAIN entities_vec' = 1 .. Len(entities_vec) + 1
        /\ DOMAIN entities_vec = 1 .. Len(entities_vec)
        /\ entities_vec'[Len(entities_vec) + 1] = r
        /\ \A k \in DOMAIN entities_vec : entities_vec'[k] = entities_vec[k]
    BY <1>1, <1>2, <2>1 DEF r
  <2>3. \A k \in DOMAIN entities_vec : entities_vec[k].entity_id # e
    BY <1>4 DEF HaveEntity
  <2>4. PICK n \in DOMAIN entities_vec' : n = Len(entities_vec) + 1
    BY <2>2
  <2>5. \A k \in DOMAIN entities_vec' : k # n => k \in DOMAIN entities_vec
    BY <2>2, <2>4
  <2>6. \A k \in DOMAIN entities_vec : k \in DOMAIN entities_vec'
    BY <2>2
  <2>7. posted' = [posted EXCEPT ![e] = "END_STATION_CONNECTED"]
    BY <1>4 DEF state_avail
  <2> QED
    BY <2>2, <2>3, <2>4, <2>5, <2>6, <2>7 DEF r
<1> QED
  BY <1>3, <1>4

\* An advertisement keeps the tables, the timers and the enumeration in
\* agreement, whether the entity is new, restarted or known.
LEMMA ConnectStep ==
  ASSUME DiscInv, NEW e \in Entities, NEW a \in Adp, NEW v \in ValidTimes,
         Connect(e, a, v),
         \/ enumerated' = [enumerated EXCEPT ![e] = a]
         \/ UNCHANGED enumerated /\ ~Reenumerates(e, a) /\ status[e] # "absent"
  PROVE  DiscInv'
<1>1. /\ DiscTypeOK /\ TablesAgree
      /\ status' = [status EXCEPT ![e] = "C"] /\ adp' = [adp EXCEPT ![e] = a]
      /\ heard' = [heard EXCEPT ![e] = [valid_time |-> v, ago |-> 0]]
      /\ first_tick' = first_tick /\ adpdus < MaxAdpdus /\ adpdus' = adpdus + 1
  BY DEF DiscInv, TablesAgree, Connect
<1>2. /\ entities_vec' \in Seq(Entry)
      /\ \E i \in DOMAIN entities_vec' :
           /\ entities_vec'[i] = NewEntry(e, v)
           /\ \A k \in DOMAIN entities_vec' : k # i =>
                /\ k \in DOMAIN entities_vec
                /\ entities_vec'[k] = entities_vec[k]
                /\ entities_vec[k].entity_id # e
      /\ \A k \in DOMAIN entities_vec : entities_vec[k].entity_id # e =>
           k \in DOMAIN entities_vec' /\ entities_vec'[k] = entities_vec[k]
      /\ posted' = [posted EXCEPT ![e] = "END_STATION_CONNECTED"]
  BY <1>1, AvailEffect DEF Connect
<1>3. PICK i \in DOMAIN entities_vec' :
        /\ entities_vec'[i] = NewEntry(e, v)
        /\ \A k \in DOMAIN entities_vec' : k # i =>
             /\ k \in DOMAIN entities_vec
             /\ entities_vec'[k] = entities_vec[k]
             /\ entities_vec[k].entity_id # e
  BY <1>2
<1>4. /\ entities_vec'[i].entity_id = e /\ entities_vec'[i].timeout = 2 * v
      /\ entities_vec'[i].elapsed = 0 /\ v \in Nat
  <2>1. v * 2 = 2 * v /\ v \in Nat
    BY DiscoveryAssumption
  <2> QED
    BY <1>3, <2>1 DEF NewEntry, Timeout
<1>5. /\ status'[e] = "C" /\ posted'[e] = "END_STATION_CONNECTED" /\ adp'[e] = a
      /\ heard'[e] = [valid_time |-> v, ago |-> 0]
      /\ \A f \in Entities : f # e =>
           /\ status'[f] = status[f] /\ posted'[f] = posted[f]
           /\ adp'[f] = adp[f] /\ heard'[f] = heard[f]
  BY <1>1, <1>2 DEF DiscTypeOK
<1>6. DiscTypeOK'
  <2>1. adpdus' \in 0 .. MaxAdpdus
    BY <1>1, DiscoveryAssumption DEF DiscTypeOK
  <2>2. heard' \in [Entities -> [valid_time : ValidTimes \cup {0}, ago : Nat]]
    <3>1. [valid_time |-> v, ago |-> 0] \in [valid_time : ValidTimes \cup {0}, ago : Nat]
      OBVIOUS
    <3> QED
      BY <1>1, <3>1 DEF DiscTypeOK
  <2>3. enumerated' \in [Entities -> Adp] /\ adp' \in [Entities -> Adp]
    BY <1>1 DEF DiscTypeOK
  <2>4. /\ status' \in [Entities -> {"absent", "C", "D"}]
        /\ posted' \in [Entities -> {"none", "END_STATION_CONNECTED",
                                     "END_STATION_DISCONNECTED"}]
        /\ first_tick' \in BOOLEAN
    BY <1>1, <1>2 DEF DiscTypeOK
  <2> QED
    BY <2>1, <2>2, <2>3, <2>4, <1>2 DEF DiscTypeOK
<1>7. TablesAgree'
  <2>1. \A f \in Entities : HaveEntity(f)' <=> (f = e \/ HaveEntity(f))
    <3> SUFFICES ASSUME NEW f \in Entities
                 PROVE  HaveEntity(f)' <=> (f = e \/ HaveEntity(f))
      OBVIOUS
    <3>1. CASE f = e
      BY <3>1, <1>4 DEF HaveEntity
    <3>2. CASE f # e
      BY <3>2, <1>2, <1>3, <1>4 DEF HaveEntity
    <3> QED
      BY <3>1, <3>2
  <2>2. \A f \in Entities : /\ HaveEntity(f)' <=> status'[f] = "C"
                            /\ status'[f] = "C" <=> posted'[f] = "END_STATION_CONNECTED"
    BY <2>1, <1>1, <1>5 DEF TablesAgree
  <2>3. \A j, k \in DOMAIN entities_vec' :
          entities_vec'[j].entity_id = entities_vec'[k].entity_id => j = k
    BY <1>1, <1>3, <1>4 DEF TablesAgree
  <2> QED
    BY <1>6, <2>2, <2>3 DEF TablesAgree
<1>8. Timers'
  <2> SUFFICES ASSUME NEW k \in DOMAIN entities_vec'
               PROVE  LET h == heard'[entities_vec'[k].entity_id]
                      IN  /\ entities_vec'[k].timeout = 2 * h.valid_time
                          /\ entities_vec'[k].elapsed = h.ago
    BY DEF Timers
  <2>1. CASE k = i
    BY <2>1, <1>4, <1>5
  <2>2. CASE k # i
    <3>1. entities_vec[k].entity_id \in Entities
      <4>1. entities_vec[k] \in Entry
        BY <2>2, <1>1, <1>3 DEF DiscTypeOK
      <4> QED
        BY <4>1 DEF Entry
    <3> QED
      BY <2>2, <3>1, <1>3, <1>5 DEF DiscInv, Timers
  <2> QED
    BY <2>1, <2>2
<1>9. EnumerationFollows'
  <2> SUFFICES ASSUME NEW f \in Entities, status'[f] # "absent"
               PROVE  /\ enumerated'[f].model = adp'[f].model
                      /\ enumerated'[f].available_index <= adp'[f].available_index
    BY DEF EnumerationFollows
  <2>1. CASE f # e
    <3>1. enumerated'[f] = enumerated[f]
      BY <2>1, <1>1 DEF DiscTypeOK
    <3> QED
      BY <2>1, <3>1, <1>5 DEF DiscInv, EnumerationFollows
  <2>2. CASE f = e /\ enumerated' = [enumerated EXCEPT ![e] = a]
    <3>1. enumerated'[e] = a
      BY <2>2, <1>1 DEF DiscTypeOK
    <3>2. a.available_index \in Nat
      BY DiscoveryAssumption DEF Adp
    <3> QED
      BY <2>2, <3>1, <3>2, <1>5
  <2>3. CASE f = e /\ UNCHANGED enumerated /\ ~Reenumerates(e, a) /\ status[e] # "absent"
    <3>1. /\ a.available_index \in Nat /\ adp[e].available_index \in Nat
          /\ enumerated[e].available_index \in Nat
      BY <1>1, DiscoveryAssumption DEF Adp, DiscTypeOK
    <3>2. a.available_index >= adp[e].available_index /\ a.model = adp[e].model
      BY <2>3, <3>1 DEF Reenumerates
    <3>3. /\ enumerated[e].model = adp[e].model
          /\ enumerated[e].available_index <= adp[e].available_index
      BY <2>3 DEF DiscInv, EnumerationFollows
    <3> QED
      BY <2>3, <3>1, <3>2, <3>3, <1>5
  <2> QED
    BY <2>1, <2>2, <2>3
<1> QED
  BY <1>7, <1>8, <1>9 DEF DiscInv

\* A tick that finds a silent entity erases its only entry and disconnects its
\* end station; the other entries move down.
LEMMA TickStepInv ==
  ASSUME DiscInv, DiscTick
  PROVE  DiscInv'
<1>1. /\ DiscTypeOK /\ TablesAgree /\ entities_vec \in Seq(Entry)
      /\ first_tick' = FALSE
      /\ adp' = adp /\ heard' = heard /\ enumerated' = enumerated /\ adpdus' = adpdus
  BY DEF DiscInv, TablesAgree, DiscTypeOK, DiscTick
<1>2. CASE UNCHANGED <<entities_vec, posted, status>>
  <2>1. DiscTypeOK'
    BY <1>1, <1>2 DEF DiscTypeOK
  <2>2. TablesAgree'
    BY <2>1, <1>1, <1>2 DEF TablesAgree, HaveEntity
  <2>3. Timers' /\ EnumerationFollows'
    BY <1>1, <1>2 DEF DiscInv, Timers, EnumerationFollows
  <2> QED
    BY <2>2, <2>3 DEF DiscInv
<1>3. ASSUME NEW i \in DOMAIN entities_vec, NEW e, e = entities_vec[i].entity_id,
             entities_vec' = RemoveAt(entities_vec, i),
             posted' = [posted EXCEPT ![e] = "END_STATION_DISCONNECTED"],
             status' = IF status[e] = "absent" THEN status
                       ELSE [status EXCEPT ![e] = "D"]
      PROVE  DiscInv'
  <2>1. /\ entities_vec[i] \in Entry /\ e \in Entities
        /\ DOMAIN entities_vec = 1 .. Len(entities_vec) /\ Len(entities_vec) \in Nat
        /\ HaveEntity(e) /\ status[e] = "C"
    <3>1. entities_vec[i] \in Entry
      BY <1>1
    <3>2. e \in Entities /\ HaveEntity(e)
      BY <1>3, <3>1 DEF Entry, HaveEntity
    <3> QED
      BY <1>1, <3>1, <3>2 DEF TablesAgree
  <2>2. /\ entities_vec' \in Seq(Entry)
        /\ Len(entities_vec') = Len(entities_vec) - 1
        /\ \A k \in DOMAIN entities_vec' :
             entities_vec'[k] = IF k < i THEN entities_vec[k] ELSE entities_vec[k + 1]
    BY <1>1, <1>3, RemoveAtProperties
  <2>3. DOMAIN entities_vec' = 1 .. Len(entities_vec) - 1
    BY <2>1, <2>2
  <2>4. \A k \in DOMAIN entities_vec' : \E j \in DOMAIN entities_vec :
          /\ entities_vec'[k] = entities_vec[j]
          /\ j = (IF k < i THEN k ELSE k + 1) /\ j # i
    BY <2>1, <2>2, <2>3
  <2>5. \A j \in DOMAIN entities_vec : j # i =>
          \E k \in DOMAIN entities_vec' : entities_vec'[k] = entities_vec[j]
    <3> SUFFICES ASSUME NEW j \in DOMAIN entities_vec, j # i
                 PROVE  \E k \in DOMAIN entities_vec' : entities_vec'[k] = entities_vec[j]
      OBVIOUS
    <3>1. CASE j < i
      BY <3>1, <2>1, <2>2, <2>3
    <3>2. CASE j > i
      <4>1. j - 1 \in DOMAIN entities_vec' /\ ~(j - 1 < i) /\ (j - 1) + 1 = j
        BY <3>2, <2>1, <2>3
      <4> QED
        BY <4>1, <2>2
    <3> QED
      BY <3>1, <3>2, <2>1
  <2>6. \A j \in DOMAIN entities_vec : j # i => entities_vec[j].entity_id # e
    BY <1>1, <1>3 DEF TablesAgree
  <2>7. \A f \in Entities : HaveEntity(f)' <=> (f # e /\ HaveEntity(f))
    <3> SUFFICES ASSUME NEW f \in Entities
                 PROVE  HaveEntity(f)' <=> (f # e /\ HaveEntity(f))
      OBVIOUS
    <3>1. HaveEntity(f)' => f # e /\ HaveEntity(f)
      BY <2>4, <2>6 DEF HaveEntity
    <3>2. f # e /\ HaveEntity(f) => HaveEntity(f)'
      BY <1>3, <2>5 DEF HaveEntity
    <3> QED
      BY <3>1, <3>2
  <2>8. /\ status' = [status EXCEPT ![e] = "D"]
        /\ status'[e] = "D" /\ posted'[e] = "END_STATION_DISCONNECTED"
        /\ \A f \in Entities : f # e => status'[f] = status[f] /\ posted'[f] = posted[f]
    BY <1>1, <1>3, <2>1 DEF DiscTypeOK
  <2>9. DiscTypeOK'
    <3>1. posted' \in [Entities -> {"none", "END_STATION_CONNECTED",
                                   "END_STATION_DISCONNECTED"}]
      BY <1>1, <1>3, <2>1 DEF DiscTypeOK
    <3>2. status' \in [Entities -> {"absent", "C", "D"}]
      BY <1>1, <2>1, <2>8 DEF DiscTypeOK
    <3> QED
      BY <1>1, <2>2, <3>1, <3>2 DEF DiscTypeOK
  <2>10. \A j, k \in DOMAIN entities_vec' :
           entities_vec'[j].entity_id = entities_vec'[k].entity_id => j = k
    <3> SUFFICES ASSUME NEW j \in DOMAIN entities_vec', NEW k \in DOMAIN entities_vec',
                        entities_vec'[j].entity_id = entities_vec'[k].entity_id
                 PROVE  j = k
      OBVIOUS
    <3>1. PICK x \in DOMAIN entities_vec :
            entities_vec'[j] = entities_vec[x] /\ x = (IF j < i THEN j ELSE j + 1)
      BY <2>4
    <3>2. PICK y \in DOMAIN entities_vec :
            entities_vec'[k] = entities_vec[y] /\ y = (IF k < i THEN k ELSE k + 1)
      BY <2>4
    <3>3. x = y
      BY <3>1, <3>2, <1>1 DEF TablesAgree
    <3> QED
      BY <3>1, <3>2, <3>3, <2>1, <2>3
  <2>11. TablesAgree'
    <3>1. \A f \in Entities : /\ HaveEntity(f)' <=> status'[f] = "C"
                              /\ status'[f] = "C" <=> posted'[f] = "END_STATION_CONNECTED"
      BY <1>1, <2>7, <2>8 DEF TablesAgree
    <3> QED
      BY <3>1, <2>9, <2>10 DEF TablesAgree
  <2>12. Timers'
    BY <1>1, <2>4 DEF DiscInv, Timers
  <2>13. EnumerationFollows'
    BY <1>1, <2>1, <2>8 DEF DiscInv, EnumerationFollows
  <2> QED
    BY <2>11, <2>12, <2>13 DEF DiscInv
<1> QED
  BY <1>2, <1>3 DEF DiscTick

\* Time passing advances the timer of an entry and the silence of its entity
\* alike, and stops both at the same point.
LEMMA ElapseStepInv ==
  ASSUME DiscInv, DiscElapse
  PROVE  DiscInv'
<1> DEFINE el(i) == IF entities_vec[i].elapsed > entities_vec[i].timeout
                    THEN entities_vec[i].elapsed ELSE entities_vec[i].elapsed + 1
           ag(e) == IF heard[e].ago > 2 * heard[e].valid_time
                    THEN heard[e].ago ELSE heard[e].ago + 1
<1>1. /\ DiscTypeOK /\ TablesAgree /\ entities_vec \in Seq(Entry)
      /\ \A i \in DOMAIN entities_vec : entities_vec[i] \in Entry
      /\ \A e \in Entities : heard[e] \in [valid_time : ValidTimes \cup {0}, ago : Nat]
  BY DEF DiscInv, TablesAgree, DiscTypeOK
<1>2. /\ entities_vec' = [i \in DOMAIN entities_vec |->
                            [entities_vec[i] EXCEPT !.elapsed = el(i)]]
      /\ heard' = [e \in Entities |-> [heard[e] EXCEPT !.ago = ag(e)]]
      /\ first_tick' = first_tick /\ status' = status /\ adp' = adp
      /\ posted' = posted /\ enumerated' = enumerated /\ adpdus' = adpdus
  BY DEF DiscElapse, DiscLater
<1>3. /\ \A i \in DOMAIN entities_vec : el(i) \in Nat
      /\ \A e \in Entities : ag(e) \in Nat
  BY <1>1 DEF Entry
<1> HIDE DEF el, ag
<1>4. /\ entities_vec' \in Seq(Entry) /\ DOMAIN entities_vec' = DOMAIN entities_vec
      /\ \A i \in DOMAIN entities_vec :
           /\ entities_vec'[i].entity_id = entities_vec[i].entity_id
           /\ entities_vec'[i].timeout = entities_vec[i].timeout
           /\ entities_vec'[i].elapsed = el(i)
  <2>1. entities_vec' \in [DOMAIN entities_vec -> Entry]
    BY <1>1, <1>2, <1>3 DEF Entry
  <2>2. entities_vec' \in Seq(Entry) /\ DOMAIN entities_vec' = DOMAIN entities_vec
    BY <1>1, <2>1, MapProperties
  <2>3. \A i \in DOMAIN entities_vec :
          /\ entities_vec'[i].entity_id = entities_vec[i].entity_id
          /\ entities_vec'[i].timeout = entities_vec[i].timeout
          /\ entities_vec'[i].elapsed = el(i)
    BY <1>1, <1>2 DEF Entry
  <2> QED
    BY <2>2, <2>3
<1>5. \A e \in Entities :
        heard'[e].valid_time = heard[e].valid_time /\ heard'[e].ago = ag(e)
  BY <1>1, <1>2
<1>6. DiscTypeOK'
  <2>1. heard' \in [Entities -> [valid_time : ValidTimes \cup {0}, ago : Nat]]
    BY <1>1, <1>2, <1>3
  <2> QED
    BY <2>1, <1>1, <1>2, <1>4 DEF DiscTypeOK
<1>7. TablesAgree'
  <2>1. \A e \in Entities : HaveEntity(e)' <=> HaveEntity(e)
    BY <1>4 DEF HaveEntity
  <2>2. \A e \in Entities : /\ HaveEntity(e)' <=> status'[e] = "C"
                            /\ status'[e] = "C" <=> posted'[e] = "END_STATION_CONNECTED"
    BY <2>1, <1>1, <1>2 DEF TablesAgree
  <2>3. \A i, k \in DOMAIN entities_vec' :
          entities_vec'[i].entity_id = entities_vec'[k].entity_id => i = k
    BY <1>1, <1>4 DEF TablesAgree
  <2> QED
    BY <2>2, <2>3, <1>6 DEF TablesAgree
<1>8. Timers'
  <2> SUFFICES ASSUME NEW i \in DOMAIN entities_vec,
                      NEW e, e = entities_vec[i].entity_id
               PROVE  /\ entities_vec'[i].timeout = 2 * heard'[e].valid_time
                      /\ entities_vec'[i].elapsed = heard'[e].ago
    BY <1>4 DEF Timers
  <2>1. e \in Entities
    BY <1>1 DEF Entry
  <2>2. /\ entities_vec[i].timeout = 2 * heard[e].valid_time
        /\ entities_vec[i].elapsed = heard[e].ago
    BY DEF DiscInv, Timers
  <2>3. el(i) = ag(e)
    BY <2>2 DEF el, ag
  <2> QED
    BY <2>1, <2>2, <2>3, <1>4, <1>5
<1>9. EnumerationFollows'
  BY <1>2 DEF DiscInv, EnumerationFollows
<1> QED
  BY <1>7, <1>8, <1>9 DEF DiscInv

LEMMA DiscInitInv == DiscInit => DiscInv
<1> SUFFICES ASSUME DiscInit
             PROVE  DiscInv
  OBVIOUS
<1>1. NoAdp \in Adp
  <2>1. (CHOOSE m \in Models : TRUE) \in Models
    BY DiscoveryAssumption
  <2>2. 0 \in 0 .. MaxIndex
    BY DiscoveryAssumption
  <2> QED
    BY <2>1, <2>2 DEF NoAdp, Adp
<1>2. /\ first_tick = TRUE /\ entities_vec = <<>> /\ adpdus = 0
      /\ status = [e \in Entities |-> "absent"] /\ adp = [e \in Entities |-> NoAdp]
      /\ posted = [e \in Entities |-> "none"]
      /\ heard = [e \in Entities |-> [valid_time |-> 0, ago |-> 1]]
      /\ enumerated = [e \in Entities |-> NoAdp]
  BY DEF DiscInit
<1>3. DiscTypeOK
  <2>1. adpdus \in 0 .. MaxAdpdus
    BY <1>2, DiscoveryAssumption
  <2> HIDE DEF NoAdp, Adp
  <2> QED
    BY <2>1, <1>1, <1>2 DEF DiscTypeOK
<1>4. \A e \in Entities : ~HaveEntity(e)
  BY <1>2 DEF HaveEntity
<1>5. TablesAgree
  BY <1>2, <1>3, <1>4 DEF TablesAgree
<1>6. Timers /\ EnumerationFollows
  BY <1>2 DEF Timers, EnumerationFollows
<1> QED
  BY <1>5, <1>6 DEF DiscInv

LEMMA DiscNextInv == DiscInv /\ [DiscNext]_discVars => DiscInv'
<1> SUFFICES ASSUME DiscInv, [DiscNext]_discVars
             PROVE  DiscInv'
  OBVIOUS
<1>1. ASSUME NEW e \in Entities, NEW a \in Adp, NEW v \in ValidTimes,
             RcvdNew(e, a, v) \/ RcvdRestarted(e, a, v) \/ RcvdAgain(e, a, v)
      PROVE  DiscInv'
  BY <1>1, ConnectStep DEF RcvdNew, RcvdRestarted, RcvdAgain
<1>2. CASE UNCHANGED discVars
  BY <1>2 DEF discVars, DiscInv, TablesAgree, DiscTypeOK, HaveEntity, Timers,
              EnumerationFollows
<1> QED
  BY <1>1, <1>2, TickStepInv, ElapseStepInv DEF DiscNext

\* The tables, the timers and the enumeration agree in every reachable state.
THEOREM DiscInvariant == DiscSpec => []DiscInv
BY DiscInitInv, DiscNextInv, PTL DEF DiscSpec

\* Every entity has one timer exactly while its end station is connected, and
\* the application was told so last, for any number of entities.
THEOREM DiscTablesAgree == DiscSpec => []TablesAgree
<1>1. DiscInv => TablesAgree
  BY DEF DiscInv
<1> QED
  BY <1>1, DiscInvariant, PTL

\* The descriptors read are those of the model an entity advertised last and of
\* no later start of it.
THEOREM DiscEnumerationFollows == DiscSpec => []EnumerationFollows
<1>1. DiscInv => EnumerationFollows
  BY DEF DiscInv
<1> QED
  BY <1>1, DiscInvariant, PTL

\* No step disconnects an entity heard within twice its valid time, whatever
\* the other entities do.
THEOREM DiscNoEarlyDisconnect == DiscSpec => NoEarlyDisconnect
<1> DEFINE Late == \A e \in Entities :
                     status[e] = "C" /\ status'[e] # "C" =>
                       heard[e].ago > 2 * heard[e].valid_time
<1>1. ASSUME DiscInv, [DiscNext]_discVars
      PROVE  [Late]_discVars
  <2> SUFFICES ASSUME NEW e \in Entities, status[e] = "C", status'[e] # "C"
               PROVE  heard[e].ago > 2 * heard[e].valid_time
    OBVIOUS
  <2>0. status \in [Entities -> {"absent", "C", "D"}] /\ entities_vec \in Seq(Entry)
    BY <1>1 DEF DiscInv, TablesAgree, DiscTypeOK
  <2>1. CASE DiscTick
    <3>1. PICK i \in DOMAIN entities_vec :
            /\ FirstTimedOut(i)
            /\ status' = IF status[entities_vec[i].entity_id] = "absent" THEN status
                         ELSE [status EXCEPT ![entities_vec[i].entity_id] = "D"]
      BY <2>1 DEF DiscTick
    <3>2. entities_vec[i].entity_id = e
      BY <2>0, <3>1
    <3>3. entities_vec[i].elapsed > entities_vec[i].timeout
      BY <3>1 DEF FirstTimedOut, TimedOut
    <3> QED
      BY <1>1, <3>2, <3>3 DEF DiscInv, Timers
  <2>2. ASSUME NEW f \in Entities, NEW a \in Adp, NEW v \in ValidTimes,
               RcvdNew(f, a, v) \/ RcvdRestarted(f, a, v) \/ RcvdAgain(f, a, v)
        PROVE  FALSE
    <3>1. status' = [status EXCEPT ![f] = "C"]
      BY <2>2 DEF RcvdNew, RcvdRestarted, RcvdAgain, Connect
    <3> QED
      BY <2>0, <3>1
  <2>3. ~DiscElapse /\ ~UNCHANGED discVars
    BY DEF DiscElapse, discVars
  <2> QED
    BY <1>1, <2>1, <2>2, <2>3 DEF DiscNext
<1> QED
  BY <1>1, DiscInvariant, PTL DEF DiscSpec, NoEarlyDisconnect
-----------------------------------------------------------------------------
(***************************************************************************)
(* Proofs about AcmpController for every value of its constants: any table *)
(* of timeouts, any number of sequence ids and of commands.                *)
(*                                                                         *)
(* The inductive invariant has the numbering of AecpControllerProofs, so   *)
(* that two commands in flight never share a sequence id, and the clocks:  *)
(* a command in flight is at least as old as its timer shows, and one      *)
(* timeout of its own kind older once it was resent.                       *)
(*                                                                         *)
(* For each operation on the vector a lemma states its effect entry by     *)
(* entry (EraseEffect, ResendEffect, ElapseEffect); the steps of the       *)
(* invariants are proved from those.                                       *)
(***************************************************************************)

CoreType ==
  /\ acmp_seq_id \in 0 .. SeqIdMod - 1
  /\ inflight_cmds \in Seq(Inflight)
  /\ hist \in Seq(CmdRecord)
  /\ \A j \in DOMAIN inflight_cmds : inflight_cmds[j].cmd \in DOMAIN hist

\* Sequence ids are the command numbers, wrapped.
Numbered ==
  /\ acmp_seq_id = Len(hist) % SeqIdMod
  /\ \A c \in DOMAIN hist : hist[c].seq_id = (c - 1) % SeqIdMod
  /\ \A j \in DOMAIN inflight_cmds :
       inflight_cmds[j].seq_id = hist[inflight_cmds[j].cmd].seq_id

\* Only the last SeqIdMod commands can be in flight.
Window ==
  \A j \in DOMAIN inflight_cmds : Len(hist) - inflight_cmds[j].cmd < SeqIdMod

\* push_back and erase keep the commands in the order they were issued.
Ordered ==
  \A j, k \in DOMAIN inflight_cmds :
    j < k => inflight_cmds[j].cmd < inflight_cmds[k].cmd

\* The timer was started once for each time the frame was sent.
TimerCounts ==
  \A j \in DOMAIN inflight_cmds :
    hist[inflight_cmds[j].cmd].sends = inflight_cmds[j].start_timer_cnt

\* A command has no outcome while it is in flight and one afterwards.
OneOutcome ==
  \A c \in DOMAIN hist : Len(hist[c].outcome) = IF InFlight(c) THEN 0 ELSE 1

\* The timer of an entry runs for the timeout of its kind, and the command is
\* as old as its timer, plus the timeout it waited before it was resent.
Clock(e, h) ==
  LET T == acmp_cmd_to_timeout[h.msg_type]
  IN  /\ e.timeout_ms = T
      /\ e.elapsed <= T + 1
      /\ h.age >= e.elapsed + (IF e.start_timer_cnt = 2 THEN T + 1 ELSE 0)

Clocks ==
  \A j \in DOMAIN inflight_cmds :
    Clock(inflight_cmds[j], hist[inflight_cmds[j].cmd])

Core == CoreType /\ Numbered /\ Window /\ Ordered /\ TimerCounts /\ OneOutcome
          /\ Clocks

IInv == Core /\ tick_pos \in Nat
-----------------------------------------------------------------------------
\* No two entries have the same sequence id, nor belong to the same command.
LEMMA CoreDistinct ==
  ASSUME Core, NEW j \in DOMAIN inflight_cmds, NEW k \in DOMAIN inflight_cmds,
         j # k
  PROVE  /\ inflight_cmds[j].seq_id # inflight_cmds[k].seq_id
         /\ inflight_cmds[j].cmd # inflight_cmds[k].cmd
<1>1. ASSUME NEW x \in DOMAIN inflight_cmds, NEW y \in DOMAIN inflight_cmds, x < y
      PROVE  /\ inflight_cmds[x].seq_id # inflight_cmds[y].seq_id
             /\ inflight_cmds[x].cmd # inflight_cmds[y].cmd
  <2> DEFINE a == inflight_cmds[y].cmd - 1
             b == inflight_cmds[x].cmd - 1
  <2>1. /\ inflight_cmds[x] \in Inflight /\ inflight_cmds[y] \in Inflight
        /\ inflight_cmds[x].cmd \in DOMAIN hist
        /\ inflight_cmds[y].cmd \in DOMAIN hist
        /\ DOMAIN hist = 1 .. Len(hist) /\ Len(hist) \in Nat
    BY DEF Core, CoreType
  <2>2. a \in Nat /\ b \in Nat
    BY <2>1 DEF Inflight
  <2>3. a > b /\ a - b < SeqIdMod
    BY <1>1, <2>1, AcmpAssumption DEF Core, Ordered, Window, Inflight
  <2>4. /\ inflight_cmds[x].seq_id = b % SeqIdMod
        /\ inflight_cmds[y].seq_id = a % SeqIdMod
    BY <2>1 DEF Core, Numbered
  <2>5. SeqIdMod \in Nat \ {0} /\ a >= b
    BY <2>2, <2>3, AcmpAssumption
  <2>6. a # b
    BY <2>2, <2>3
  <2>7. a % SeqIdMod # b % SeqIdMod
    <3> HIDE DEF a, b
    <3> QED
      BY <2>2, <2>3, <2>5, <2>6, ModUnique
  <2> QED
    BY <2>4, <2>6, <2>7
<1>2. j \in Int /\ k \in Int
  BY DEF Core, CoreType
<1>3. CASE j < k
  BY <1>1, <1>3
<1>4. CASE k < j
  BY <1>1, <1>4
<1> QED
  BY <1>2, <1>3, <1>4

\* Erasing entry i, which belongs to command c: the other entries stay, in
\* their order and with their history; c is out of flight and gets the outcome.
LEMMA EraseEffect ==
  ASSUME Core, NEW i \in DOMAIN inflight_cmds, NEW end \in Ends, NEW from \in Nat,
         EraseInflight(i, end, from), NEW c, c = inflight_cmds[i].cmd
  PROVE  /\ inflight_cmds' \in Seq(Inflight)
         /\ hist' \in Seq(CmdRecord) /\ Len(hist') = Len(hist)
         /\ c \in DOMAIN hist /\ DOMAIN hist' = DOMAIN hist
         /\ \A d \in DOMAIN hist : d # c => hist'[d] = hist[d]
         /\ hist'[c] = [hist[c] EXCEPT !.outcome = <<[end |-> end, from |-> from]>>]
         /\ \A k \in DOMAIN inflight_cmds' : \E j \in DOMAIN inflight_cmds :
              /\ inflight_cmds'[k] = inflight_cmds[j]
              /\ j = (IF k < i THEN k ELSE k + 1)
              /\ inflight_cmds[j].cmd # c
              /\ hist'[inflight_cmds[j].cmd] = hist[inflight_cmds[j].cmd]
         /\ ~InFlight(c)'
         /\ \A d \in DOMAIN hist : d # c => (InFlight(d)' <=> InFlight(d))
<1> DEFINE r == [end |-> end, from |-> from]
           h == [hist[c] EXCEPT !.outcome = <<r>>]
<1>1. /\ inflight_cmds \in Seq(Inflight) /\ hist \in Seq(CmdRecord)
      /\ c \in DOMAIN hist /\ i \in 1 .. Len(inflight_cmds)
      /\ Len(inflight_cmds) \in Nat
      /\ DOMAIN inflight_cmds = 1 .. Len(inflight_cmds)
  BY DEF Core, CoreType
<1>2. hist[c] \in CmdRecord /\ hist[c].outcome \in Seq([end : Ends, from : Nat])
  <2>1. hist[c] \in CmdRecord
    BY <1>1
  <2> QED
    BY <2>1 DEF CmdRecord
<1>3. hist[c].outcome = <<>>
  <2>1. InFlight(c)
    BY DEF InFlight
  <2>2. Len(hist[c].outcome) = 0
    BY <1>1, <2>1 DEF Core, OneOutcome
  <2> QED
    BY <1>2, <2>2
<1>4. hist' = [hist EXCEPT ![c] = h]
  BY <1>3 DEF EraseInflight
<1>5. h \in CmdRecord
  <2>1. r \in [end : Ends, from : Nat]
    OBVIOUS
  <2> HIDE DEF r
  <2>2. <<r>> \in Seq([end : Ends, from : Nat])
    BY <2>1
  <2> QED
    BY <1>2, <2>2 DEF CmdRecord
<1>6. /\ hist' \in Seq(CmdRecord) /\ Len(hist') = Len(hist)
      /\ DOMAIN hist' = DOMAIN hist /\ hist'[c] = h
      /\ \A d \in DOMAIN hist : d # c => hist'[d] = hist[d]
  <2> HIDE DEF h
  <2> QED
    BY <1>1, <1>4, <1>5, ExceptProperties
<1>7. /\ inflight_cmds' \in Seq(Inflight)
      /\ DOMAIN inflight_cmds' = 1 .. Len(inflight_cmds) - 1
      /\ \A k \in 1 .. Len(inflight_cmds) - 1 :
           inflight_cmds'[k] = IF k < i THEN inflight_cmds[k] ELSE inflight_cmds[k + 1]
  <2>1. inflight_cmds' = RemoveAt(inflight_cmds, i)
    BY DEF EraseInflight
  <2>2. /\ inflight_cmds' \in Seq(Inflight)
        /\ Len(inflight_cmds') = Len(inflight_cmds) - 1
        /\ \A k \in DOMAIN inflight_cmds' :
             inflight_cmds'[k] = IF k < i THEN inflight_cmds[k] ELSE inflight_cmds[k + 1]
    BY <2>1, <1>1, RemoveAtProperties
  <2> QED
    BY <2>2
<1> HIDE DEF h, r
<1>8. ASSUME NEW k \in DOMAIN inflight_cmds'
      PROVE  \E j \in DOMAIN inflight_cmds :
               /\ inflight_cmds'[k] = inflight_cmds[j]
               /\ j = (IF k < i THEN k ELSE k + 1)
               /\ inflight_cmds[j].cmd # c
               /\ hist'[inflight_cmds[j].cmd] = hist[inflight_cmds[j].cmd]
  <2>1. PICK j \in DOMAIN inflight_cmds :
          inflight_cmds'[k] = inflight_cmds[j] /\ j = (IF k < i THEN k ELSE k + 1)
    BY <1>1, <1>7
  <2>2. j # i
    BY <2>1, <1>1, <1>7
  <2>3. inflight_cmds[j].cmd # c
    BY <2>2, CoreDistinct
  <2>4. inflight_cmds[j].cmd \in DOMAIN hist
    BY DEF Core, CoreType
  <2> QED
    BY <2>1, <2>3, <2>4, <1>6
<1>9. ~InFlight(c)'
  BY <1>8 DEF InFlight
<1>10. ASSUME NEW d \in DOMAIN hist, d # c
       PROVE  InFlight(d)' <=> InFlight(d)
  <2>1. InFlight(d)' => InFlight(d)
    BY <1>8 DEF InFlight
  <2>2. ASSUME NEW j \in DOMAIN inflight_cmds, inflight_cmds[j].cmd = d
        PROVE  InFlight(d)'
    <3>1. j # i
      BY <2>2, <1>10
    <3>2. CASE j < i
      BY <3>2, <1>1, <1>7, <2>2 DEF InFlight
    <3>3. CASE j > i
      <4>1. j - 1 \in DOMAIN inflight_cmds' /\ ~(j - 1 < i) /\ (j - 1) + 1 = j
        BY <3>3, <1>1, <1>7
      <4>2. inflight_cmds'[j - 1] = inflight_cmds[j]
        BY <4>1, <1>7
      <4> QED
        BY <4>1, <4>2, <2>2 DEF InFlight
    <3> QED
      BY <3>1, <3>2, <3>3, <1>1
  <2> QED
    BY <2>1, <2>2 DEF InFlight
<1> QED
  BY <1>1, <1>6, <1>7, <1>8, <1>9, <1>10 DEF h, r


\* Resending the command of entry i: the entry found by its sequence id is i
\* itself, its timer starts again, and the second sending is counted.
LEMMA ResendEffect ==
  ASSUME Core, NEW i \in DOMAIN inflight_cmds, ~retried(inflight_cmds[i]),
         tx_cmd_resend(inflight_cmds[i].seq_id, inflight_cmds[i].cmd),
         NEW c, c = inflight_cmds[i].cmd
  PROVE  /\ inflight_cmds' \in Seq(Inflight) /\ hist' \in Seq(CmdRecord)
         /\ DOMAIN inflight_cmds' = DOMAIN inflight_cmds
         /\ DOMAIN hist' = DOMAIN hist /\ Len(hist') = Len(hist)
         /\ c \in DOMAIN hist
         /\ inflight_cmds'[i].cmd = c
         /\ inflight_cmds'[i].seq_id = inflight_cmds[i].seq_id
         /\ inflight_cmds'[i].timeout_ms = inflight_cmds[i].timeout_ms
         /\ inflight_cmds'[i].start_timer_cnt = 2 /\ inflight_cmds'[i].elapsed = 0
         /\ \A j \in DOMAIN inflight_cmds : j # i =>
              inflight_cmds'[j] = inflight_cmds[j] /\ inflight_cmds[j].cmd # c
         /\ hist'[c].notification_id = hist[c].notification_id
         /\ hist'[c].seq_id = hist[c].seq_id
         /\ hist'[c].msg_type = hist[c].msg_type
         /\ hist'[c].sends = 2 /\ hist'[c].age = hist[c].age
         /\ hist'[c].outcome = hist[c].outcome
         /\ \A d \in DOMAIN hist : d # c => hist'[d] = hist[d]
         /\ inflight_cmds[i].start_timer_cnt = 1
         /\ \A d : InFlight(d)' <=> InFlight(d)
<1> DEFINE e == [inflight_cmds[i] EXCEPT !.start_timer_cnt = 2, !.elapsed = 0]
           h == [hist[c] EXCEPT !.sends = 2]
<1>1. /\ inflight_cmds \in Seq(Inflight) /\ hist \in Seq(CmdRecord)
      /\ inflight_cmds[i] \in Inflight /\ c \in DOMAIN hist /\ hist[c] \in CmdRecord
  BY DEF Core, CoreType
<1>2. inflight_cmds[i].start_timer_cnt = 1 /\ hist[c].sends = 1
  BY <1>1 DEF Core, TimerCounts, retried, Inflight
<1>3. inflight_cmds' = [inflight_cmds EXCEPT ![i] = e]
  <2>1. PICK j \in DOMAIN inflight_cmds :
          /\ FirstWithSeqId(j, inflight_cmds[i].seq_id)
          /\ inflight_cmds' = [inflight_cmds EXCEPT ![j] = start_timer(inflight_cmds[j])]
    BY DEF tx_cmd_resend
  <2>2. j = i
    BY <2>1, CoreDistinct DEF FirstWithSeqId
  <2>3. inflight_cmds[i].start_timer_cnt + 1 = 2
    BY <1>2
  <2>4. start_timer(inflight_cmds[i]) = e
    BY <2>3 DEF start_timer
  <2> HIDE DEF e
  <2> QED
    BY <2>1, <2>2, <2>4
<1>4. hist' = [hist EXCEPT ![c] = h]
  <2>1. hist' = [hist EXCEPT ![c] = [hist[c] EXCEPT !.sends = hist[c].sends + 1]]
    BY DEF tx_cmd_resend
  <2>2. hist[c].sends + 1 = 2
    BY <1>2
  <2> QED
    BY <2>1, <2>2
<1>5. e \in Inflight /\ e.cmd = c
  <2>1. inflight_cmds[i] \in Inflight
    BY <1>1
  <2>2. e \in Inflight
    <3>1. PICK k \in 1 .. 2, z \in Nat : k = 2 /\ z = 0
      OBVIOUS
    <3>2. [inflight_cmds[i] EXCEPT !.start_timer_cnt = k, !.elapsed = z] \in Inflight
      BY <2>1 DEF Inflight
    <3> QED
      BY <3>1, <3>2
  <2> QED
    BY <2>1, <2>2 DEF Inflight
<1>6. h \in CmdRecord
  <2>1. hist[c] \in CmdRecord
    BY <1>1
  <2> QED
    BY <2>1 DEF CmdRecord
<1>7. /\ e.seq_id = inflight_cmds[i].seq_id
      /\ e.timeout_ms = inflight_cmds[i].timeout_ms
      /\ e.start_timer_cnt = 2 /\ e.elapsed = 0
      /\ h.notification_id = hist[c].notification_id
      /\ h.seq_id = hist[c].seq_id /\ h.msg_type = hist[c].msg_type
      /\ h.sends = 2 /\ h.age = hist[c].age /\ h.outcome = hist[c].outcome
  <2>1. inflight_cmds[i] \in Inflight /\ hist[c] \in CmdRecord
    BY <1>1
  <2> QED
    BY <2>1 DEF Inflight, CmdRecord
<1> HIDE DEF e, h
<1>8. /\ inflight_cmds' \in Seq(Inflight)
      /\ DOMAIN inflight_cmds' = DOMAIN inflight_cmds
      /\ inflight_cmds'[i] = e
      /\ \A j \in DOMAIN inflight_cmds : j # i => inflight_cmds'[j] = inflight_cmds[j]
  BY <1>1, <1>3, <1>5, ExceptProperties
<1>9. /\ hist' \in Seq(CmdRecord) /\ DOMAIN hist' = DOMAIN hist
      /\ Len(hist') = Len(hist) /\ hist'[c] = h
      /\ \A d \in DOMAIN hist : d # c => hist'[d] = hist[d]
  BY <1>1, <1>4, <1>6, ExceptProperties
<1>10. \A j \in DOMAIN inflight_cmds : inflight_cmds'[j].cmd = inflight_cmds[j].cmd
  BY <1>5, <1>8
<1>11. \A d : InFlight(d)' <=> InFlight(d)
  BY <1>8, <1>10 DEF InFlight
<1>12. \A j \in DOMAIN inflight_cmds : j # i => inflight_cmds[j].cmd # c
  BY CoreDistinct
<1> QED
  BY <1>1, <1>2, <1>5, <1>7, <1>8, <1>9, <1>11, <1>12

\* Time passing: every timer that has not run out advances, and the age of a
\* command in flight with it unless it is old enough to be given up.
LEMMA ElapseEffect ==
  ASSUME Core, Elapse
  PROVE  /\ inflight_cmds' \in Seq(Inflight) /\ hist' \in Seq(CmdRecord)
         /\ DOMAIN inflight_cmds' = DOMAIN inflight_cmds
         /\ DOMAIN hist' = DOMAIN hist /\ Len(hist') = Len(hist)
         /\ \A j \in DOMAIN inflight_cmds :
              inflight_cmds'[j] =
                [inflight_cmds[j] EXCEPT !.elapsed =
                   IF inflight_cmds[j].elapsed > inflight_cmds[j].timeout_ms
                   THEN inflight_cmds[j].elapsed ELSE inflight_cmds[j].elapsed + 1]
         /\ \A c \in DOMAIN hist :
              hist'[c] = [hist[c] EXCEPT !.age =
                            IF InFlight(c) /\ hist[c].age < TwoTimeouts(c)
                            THEN hist[c].age + 1 ELSE hist[c].age]
         /\ \A c : InFlight(c)' <=> InFlight(c)
<1> DEFINE el(j) == IF inflight_cmds[j].elapsed > inflight_cmds[j].timeout_ms
                    THEN inflight_cmds[j].elapsed ELSE inflight_cmds[j].elapsed + 1
           ag(c) == IF InFlight(c) /\ hist[c].age < TwoTimeouts(c)
                    THEN hist[c].age + 1 ELSE hist[c].age
<1>1. /\ inflight_cmds \in Seq(Inflight) /\ hist \in Seq(CmdRecord)
      /\ \A j \in DOMAIN inflight_cmds : inflight_cmds[j] \in Inflight
      /\ \A c \in DOMAIN hist : hist[c] \in CmdRecord
  BY DEF Core, CoreType
<1>2. inflight_cmds' = [j \in DOMAIN inflight_cmds |->
                          [inflight_cmds[j] EXCEPT !.elapsed = el(j)]]
  BY DEF Elapse, Later
<1>3. hist' = [c \in DOMAIN hist |-> [hist[c] EXCEPT !.age = ag(c)]]
  <2>1. hist' = [c \in DOMAIN hist |->
                   IF InFlight(c) /\ hist[c].age < TwoTimeouts(c)
                   THEN [hist[c] EXCEPT !.age = hist[c].age + 1] ELSE hist[c]]
    BY DEF Elapse
  <2>2. ASSUME NEW c \in DOMAIN hist
        PROVE  [hist[c] EXCEPT !.age = hist[c].age] = hist[c]
    BY <1>1 DEF CmdRecord
  <2>3. ASSUME NEW c \in DOMAIN hist
        PROVE  (IF InFlight(c) /\ hist[c].age < TwoTimeouts(c)
                THEN [hist[c] EXCEPT !.age = hist[c].age + 1] ELSE hist[c])
               = [hist[c] EXCEPT !.age = ag(c)]
    <3>1. CASE InFlight(c) /\ hist[c].age < TwoTimeouts(c)
      BY <3>1
    <3>2. CASE ~(InFlight(c) /\ hist[c].age < TwoTimeouts(c))
      BY <3>2, <2>2
    <3> QED
      BY <3>1, <3>2
  <2> QED
    BY <2>1, <2>3
<1>4. \A j \in DOMAIN inflight_cmds : el(j) \in Nat
  BY <1>1 DEF Inflight
<1>5. \A c \in DOMAIN hist : ag(c) \in Nat
  BY <1>1 DEF CmdRecord
<1> HIDE DEF el, ag
<1>6. inflight_cmds' \in [DOMAIN inflight_cmds -> Inflight]
  BY <1>1, <1>2, <1>4 DEF Inflight
<1>7. hist' \in [DOMAIN hist -> CmdRecord]
  BY <1>1, <1>3, <1>5 DEF CmdRecord
<1>8. /\ inflight_cmds' \in Seq(Inflight)
      /\ DOMAIN inflight_cmds' = DOMAIN inflight_cmds
  BY <1>1, <1>6, MapProperties
<1>9. /\ hist' \in Seq(CmdRecord) /\ DOMAIN hist' = DOMAIN hist
      /\ Len(hist') = Len(hist)
  BY <1>1, <1>7, MapProperties
<1>10. \A j \in DOMAIN inflight_cmds :
         inflight_cmds'[j] = [inflight_cmds[j] EXCEPT !.elapsed = el(j)]
  BY <1>2
<1>11. \A c \in DOMAIN hist : hist'[c] = [hist[c] EXCEPT !.age = ag(c)]
  BY <1>3
<1>12. \A j \in DOMAIN inflight_cmds : inflight_cmds'[j].cmd = inflight_cmds[j].cmd
  BY <1>1, <1>10 DEF Inflight
<1>13. \A c : InFlight(c)' <=> InFlight(c)
  BY <1>8, <1>12 DEF InFlight
<1> QED
  BY <1>8, <1>9, <1>10, <1>11, <1>13 DEF el, ag
-----------------------------------------------------------------------------
\* Ending a command keeps the invariant: the entry of exactly one command
\* leaves the vector and exactly that command gets its outcome.
LEMMA EraseCore ==
  ASSUME Core, NEW i \in DOMAIN inflight_cmds, NEW end \in Ends, NEW from \in Nat,
         EraseInflight(i, end, from), acmp_seq_id' = acmp_seq_id
  PROVE  Core'
<1>0. PICK c : c = inflight_cmds[i].cmd
  OBVIOUS
<1>1. /\ inflight_cmds' \in Seq(Inflight)
      /\ hist' \in Seq(CmdRecord) /\ Len(hist') = Len(hist)
      /\ c \in DOMAIN hist /\ DOMAIN hist' = DOMAIN hist
      /\ \A d \in DOMAIN hist : d # c => hist'[d] = hist[d]
      /\ hist'[c] = [hist[c] EXCEPT !.outcome = <<[end |-> end, from |-> from]>>]
      /\ \A k \in DOMAIN inflight_cmds' : \E j \in DOMAIN inflight_cmds :
           /\ inflight_cmds'[k] = inflight_cmds[j]
           /\ j = (IF k < i THEN k ELSE k + 1)
           /\ inflight_cmds[j].cmd # c
           /\ hist'[inflight_cmds[j].cmd] = hist[inflight_cmds[j].cmd]
      /\ ~InFlight(c)'
      /\ \A d \in DOMAIN hist : d # c => (InFlight(d)' <=> InFlight(d))
  BY <1>0, EraseEffect
<1>2. hist'[c].seq_id = hist[c].seq_id /\ Len(hist'[c].outcome) = 1
  <2>1. hist[c] \in CmdRecord
    BY <1>1 DEF Core, CoreType
  <2>2. Len(<<[end |-> end, from |-> from]>>) = 1
    OBVIOUS
  <2> QED
    BY <2>1, <2>2, <1>1 DEF CmdRecord
<1>3. \A j \in DOMAIN inflight_cmds : inflight_cmds[j].cmd \in DOMAIN hist
  BY DEF Core, CoreType
<1>4. CoreType'
  BY <1>1, <1>3 DEF Core, CoreType
<1>5. Numbered'
  <2>1. \A d \in DOMAIN hist' : hist'[d].seq_id = hist[d].seq_id
    BY <1>1, <1>2
  <2> QED
    BY <2>1, <1>1, <1>3 DEF Core, Numbered
<1>6. Window'
  BY <1>1 DEF Core, Window
<1>7. Ordered'
  <2> SUFFICES ASSUME NEW k \in DOMAIN inflight_cmds', NEW l \in DOMAIN inflight_cmds',
                      k < l
               PROVE  inflight_cmds'[k].cmd < inflight_cmds'[l].cmd
    BY DEF Ordered
  <2>1. PICK x \in DOMAIN inflight_cmds :
          inflight_cmds'[k] = inflight_cmds[x] /\ x = (IF k < i THEN k ELSE k + 1)
    BY <1>1
  <2>2. PICK y \in DOMAIN inflight_cmds :
          inflight_cmds'[l] = inflight_cmds[y] /\ y = (IF l < i THEN l ELSE l + 1)
    BY <1>1
  <2>3. k \in Int /\ l \in Int /\ i \in Int
    BY <1>1 DEF Core, CoreType
  <2>4. x < y
    BY <2>1, <2>2, <2>3
  <2> QED
    BY <2>1, <2>2, <2>4 DEF Core, Ordered
<1>8. TimerCounts'
  BY <1>1 DEF Core, TimerCounts
<1>9. OneOutcome'
  <2> SUFFICES ASSUME NEW d \in DOMAIN hist
               PROVE  Len(hist'[d].outcome) = IF InFlight(d)' THEN 0 ELSE 1
    BY <1>1 DEF OneOutcome
  <2>1. CASE d = c
    BY <2>1, <1>1, <1>2
  <2>2. CASE d # c
    BY <2>2, <1>1 DEF Core, OneOutcome
  <2> QED
    BY <2>1, <2>2
<1>10. Clocks'
  BY <1>1 DEF Core, Clocks
<1> QED
  BY <1>4, <1>5, <1>6, <1>7, <1>8, <1>9, <1>10 DEF Core

\* Issuing a command keeps the invariant: it takes the next number, and the
\* commands in flight are fewer than SeqIdMod away from it (SeqWindow).
LEMMA SendCore ==
  ASSUME Core, SeqWindow, NEW id \in NotifyIds, NEW t \in MsgTypes,
         PushInflight(id, t), acmp_seq_id' = (acmp_seq_id + 1) % SeqIdMod
  PROVE  Core'
<1>0. PICK n, m, f, g :
        /\ n = Len(inflight_cmds) /\ m = Len(hist)
        /\ f = [cmd |-> m + 1, seq_id |-> acmp_seq_id, notification_id |-> id,
                timeout_ms |-> acmp_cmd_to_timeout[t], start_timer_cnt |-> 1,
                elapsed |-> 0]
        /\ g = [notification_id |-> id, seq_id |-> acmp_seq_id, msg_type |-> t,
                sends |-> 1, age |-> 0, outcome |-> <<>>]
  OBVIOUS
<1>1. /\ n \in Nat /\ m \in Nat
      /\ DOMAIN inflight_cmds = 1 .. n /\ DOMAIN hist = 1 .. m
      /\ inflight_cmds' \in Seq(Inflight)
      /\ DOMAIN inflight_cmds' = 1 .. n + 1
      /\ \A j \in 1 .. n : inflight_cmds'[j] = inflight_cmds[j]
      /\ inflight_cmds'[n + 1] = f
      /\ hist' \in Seq(CmdRecord) /\ DOMAIN hist' = 1 .. m + 1
      /\ Len(hist') = m + 1
      /\ \A c \in 1 .. m : hist'[c] = hist[c]
      /\ hist'[m + 1] = g
      /\ \A j \in 1 .. n : inflight_cmds[j].cmd \in 1 .. m /\ inflight_cmds[j] \in Inflight
  <2>1. /\ inflight_cmds \in Seq(Inflight) /\ hist \in Seq(CmdRecord)
        /\ n \in Nat /\ m \in Nat
        /\ DOMAIN inflight_cmds = 1 .. n /\ DOMAIN hist = 1 .. m
        /\ acmp_seq_id \in 0 .. SeqIdMod - 1
    BY <1>0 DEF Core, CoreType
  <2>2. start_timer(NewInflight(id, t)) = f
    <3> DEFINE a == NewInflight(id, t)
    <3>1. a = [cmd |-> m + 1, seq_id |-> acmp_seq_id, notification_id |-> id,
               timeout_ms |-> acmp_cmd_to_timeout[t], start_timer_cnt |-> 0,
               elapsed |-> 0]
      BY <1>0 DEF NewInflight, Issued, timeout_ms
    <3>2. a.start_timer_cnt + 1 = 1
      BY <3>1
    <3>3. start_timer(a) = [a EXCEPT !.start_timer_cnt = 1, !.elapsed = 0]
      BY <3>2 DEF start_timer
    <3> HIDE DEF a
    <3>4. start_timer(a) = f
      BY <1>0, <3>1, <3>3
    <3> QED
      BY <3>4 DEF a
  <2>3. f \in Inflight /\ g \in CmdRecord
    <3>1. acmp_cmd_to_timeout[t] \in Nat /\ m + 1 \in Nat \ {0}
      BY <2>1, AcmpAssumption
    <3> QED
      BY <1>0, <2>1, <3>1 DEF Inflight, CmdRecord
  <2>4. inflight_cmds' = Append(inflight_cmds, f) /\ hist' = Append(hist, g)
    BY <1>0, <2>2 DEF PushInflight
  <2>5. /\ inflight_cmds' \in Seq(Inflight) /\ DOMAIN inflight_cmds' = 1 .. n + 1
        /\ \A j \in 1 .. n : inflight_cmds'[j] = inflight_cmds[j]
        /\ inflight_cmds'[n + 1] = f
    <3>1. n = Len(inflight_cmds)
      BY <1>0
    <3> QED
      BY <2>1, <2>3, <2>4, <3>1
  <2>6. /\ hist' \in Seq(CmdRecord) /\ DOMAIN hist' = 1 .. m + 1 /\ Len(hist') = m + 1
        /\ \A c \in 1 .. m : hist'[c] = hist[c]
        /\ hist'[m + 1] = g
    <3>1. m = Len(hist)
      BY <1>0
    <3> QED
      BY <2>1, <2>3, <2>4, <3>1
  <2>7. \A j \in 1 .. n : inflight_cmds[j].cmd \in 1 .. m /\ inflight_cmds[j] \in Inflight
    BY <2>1 DEF Core, CoreType
  <2> QED
    BY <2>1, <2>5, <2>6, <2>7
<1>2. /\ f.cmd = m + 1 /\ f.seq_id = acmp_seq_id /\ f.start_timer_cnt = 1
      /\ f.timeout_ms = acmp_cmd_to_timeout[t] /\ f.elapsed = 0
      /\ g.seq_id = acmp_seq_id /\ g.msg_type = t /\ g.sends = 1 /\ g.age = 0
      /\ g.outcome = <<>>
  BY <1>0
<1>3. \A j \in 1 .. n + 1 : j \in 1 .. n \/ j = n + 1
  BY <1>1
<1>4. \A c \in 1 .. m + 1 : c \in 1 .. m \/ c = m + 1
  BY <1>1
<1>5. acmp_seq_id' = (m + 1) % SeqIdMod /\ acmp_seq_id = m % SeqIdMod
  BY <1>0, <1>1, ModSucc, AcmpAssumption DEF Core, Numbered
<1>6. CoreType'
  <2>1. acmp_seq_id' \in 0 .. SeqIdMod - 1
    BY <1>1, <1>5, DivMod, AcmpAssumption
  <2>2. \A j \in 1 .. n : inflight_cmds'[j].cmd \in 1 .. m + 1
    BY <1>1
  <2>3. inflight_cmds'[n + 1].cmd \in 1 .. m + 1
    BY <1>1, <1>2
  <2>4. \A j \in 1 .. n + 1 : inflight_cmds'[j].cmd \in 1 .. m + 1
    BY <2>2, <2>3, <1>3
  <2> QED
    BY <2>1, <2>4, <1>1 DEF CoreType
<1>7. Numbered'
  <2>1. \A c \in 1 .. m : hist'[c].seq_id = (c - 1) % SeqIdMod
    BY <1>1 DEF Core, Numbered
  <2>2. hist'[m + 1].seq_id = ((m + 1) - 1) % SeqIdMod
    BY <1>1, <1>2, <1>5
  <2>3. \A j \in 1 .. n :
          inflight_cmds'[j].seq_id = hist'[inflight_cmds'[j].cmd].seq_id
    <3> SUFFICES ASSUME NEW j \in 1 .. n
                 PROVE  inflight_cmds'[j].seq_id = hist'[inflight_cmds'[j].cmd].seq_id
      OBVIOUS
    <3>1. inflight_cmds[j].seq_id = hist[inflight_cmds[j].cmd].seq_id
      BY <1>1 DEF Core, Numbered
    <3>2. inflight_cmds[j].cmd \in 1 .. m /\ inflight_cmds'[j] = inflight_cmds[j]
      BY <1>1
    <3>3. hist'[inflight_cmds[j].cmd] = hist[inflight_cmds[j].cmd]
      BY <1>1, <3>2
    <3> QED
      BY <3>1, <3>2, <3>3
  <2>4. inflight_cmds'[n + 1].seq_id = hist'[inflight_cmds'[n + 1].cmd].seq_id
    BY <1>1, <1>2
  <2> QED
    BY <2>1, <2>2, <2>3, <2>4, <1>1, <1>3, <1>4, <1>5 DEF Numbered
<1>8. Window'
  <2>1. \A j \in 1 .. n : m + 1 - inflight_cmds'[j].cmd < SeqIdMod
    BY <1>0, <1>1 DEF SeqWindow, Issued
  <2>2. m + 1 - inflight_cmds'[n + 1].cmd < SeqIdMod
    BY <1>1, <1>2, AcmpAssumption
  <2>3. \A j \in 1 .. n + 1 : m + 1 - inflight_cmds'[j].cmd < SeqIdMod
    BY <2>1, <2>2, <1>3
  <2> SUFFICES ASSUME NEW j \in 1 .. n + 1
               PROVE  Len(hist') - inflight_cmds'[j].cmd < SeqIdMod
    BY <1>1 DEF Window
  <2>4. Len(hist') = m + 1 /\ m \in Nat
    BY <1>1
  <2>5. m + 1 - inflight_cmds'[j].cmd < SeqIdMod
    BY <2>3
  <2>6. inflight_cmds'[j].cmd \in Nat /\ SeqIdMod \in Nat
    <3>1. inflight_cmds'[j] \in Inflight
      BY <1>1
    <3> QED
      BY <3>1, AcmpAssumption DEF Inflight
  <2> QED
    BY <2>4, <2>5, <2>6
<1>9. Ordered'
  <2>1. \A j, k \in 1 .. n : j < k => inflight_cmds'[j].cmd < inflight_cmds'[k].cmd
    BY <1>1 DEF Core, Ordered
  <2>2. \A j \in 1 .. n : inflight_cmds'[j].cmd < inflight_cmds'[n + 1].cmd
    BY <1>1, <1>2
  <2> QED
    BY <2>1, <2>2, <1>1, <1>3 DEF Ordered
<1>10. TimerCounts'
  <2>1. \A j \in 1 .. n :
          hist'[inflight_cmds'[j].cmd].sends = inflight_cmds'[j].start_timer_cnt
    BY <1>1 DEF Core, TimerCounts
  <2>2. hist'[inflight_cmds'[n + 1].cmd].sends = inflight_cmds'[n + 1].start_timer_cnt
    BY <1>1, <1>2
  <2> QED
    BY <2>1, <2>2, <1>1, <1>3 DEF TimerCounts
<1>11. OneOutcome'
  <2>1. ASSUME NEW c \in 1 .. m
        PROVE  InFlight(c)' <=> InFlight(c)
    <3>1. InFlight(c) => InFlight(c)'
      BY <1>1 DEF InFlight
    <3>2. ASSUME NEW j \in 1 .. n + 1, inflight_cmds'[j].cmd = c
          PROVE  InFlight(c)
      <4>1. j \in 1 .. n
        BY <1>1, <1>2, <3>2
      <4> QED
        BY <4>1, <3>2, <1>1 DEF InFlight
    <3> QED
      BY <3>1, <3>2, <1>1 DEF InFlight
  <2>2. InFlight(m + 1)'
    <3>1. n + 1 \in DOMAIN inflight_cmds' /\ inflight_cmds'[n + 1].cmd = m + 1
      BY <1>1, <1>2
    <3> QED
      BY <3>1 DEF InFlight
  <2>3. \A c \in 1 .. m : Len(hist'[c].outcome) = IF InFlight(c)' THEN 0 ELSE 1
    BY <2>1, <1>1 DEF Core, OneOutcome
  <2>4. Len(hist'[m + 1].outcome) = 0
    BY <1>1, <1>2
  <2>5. \A c \in 1 .. m + 1 : Len(hist'[c].outcome) = IF InFlight(c)' THEN 0 ELSE 1
    BY <2>2, <2>3, <2>4, <1>4
  <2> QED
    BY <2>5, <1>1 DEF OneOutcome
<1>12. Clocks'
  <2>1. \A j \in 1 .. n : Clock(inflight_cmds'[j], hist'[inflight_cmds'[j].cmd])
    BY <1>1 DEF Core, Clocks
  <2>2. Clock(f, g)
    <3>1. acmp_cmd_to_timeout[t] \in Nat
      BY AcmpAssumption
    <3> QED
      BY <3>1, <1>2 DEF Clock
  <2>3. Clock(inflight_cmds'[n + 1], hist'[inflight_cmds'[n + 1].cmd])
    BY <2>2, <1>1, <1>2
  <2>4. \A j \in 1 .. n + 1 : Clock(inflight_cmds'[j], hist'[inflight_cmds'[j].cmd])
    BY <2>1, <2>3, <1>3
  <2> QED
    BY <2>4, <1>1 DEF Clocks
<1> QED
  BY <1>6, <1>7, <1>8, <1>9, <1>10, <1>11, <1>12 DEF Core

\* Resending a command keeps the invariant: its timer had run out, so that it
\* is one timeout old when the timer starts again.
LEMMA ResendCore ==
  ASSUME Core, NEW i \in DOMAIN inflight_cmds, ~retried(inflight_cmds[i]),
         timeout(inflight_cmds[i]),
         tx_cmd_resend(inflight_cmds[i].seq_id, inflight_cmds[i].cmd),
         acmp_seq_id' = acmp_seq_id
  PROVE  Core'
<1>0. PICK c : c = inflight_cmds[i].cmd
  OBVIOUS
<1>1. /\ inflight_cmds' \in Seq(Inflight) /\ hist' \in Seq(CmdRecord)
      /\ DOMAIN inflight_cmds' = DOMAIN inflight_cmds
      /\ DOMAIN hist' = DOMAIN hist /\ Len(hist') = Len(hist)
      /\ c \in DOMAIN hist
      /\ inflight_cmds'[i].cmd = c
      /\ inflight_cmds'[i].seq_id = inflight_cmds[i].seq_id
      /\ inflight_cmds'[i].timeout_ms = inflight_cmds[i].timeout_ms
      /\ inflight_cmds'[i].start_timer_cnt = 2 /\ inflight_cmds'[i].elapsed = 0
      /\ \A j \in DOMAIN inflight_cmds : j # i =>
           inflight_cmds'[j] = inflight_cmds[j] /\ inflight_cmds[j].cmd # c
      /\ hist'[c].seq_id = hist[c].seq_id
      /\ hist'[c].msg_type = hist[c].msg_type
      /\ hist'[c].sends = 2 /\ hist'[c].age = hist[c].age
      /\ hist'[c].outcome = hist[c].outcome
      /\ \A d \in DOMAIN hist : d # c => hist'[d] = hist[d]
      /\ inflight_cmds[i].start_timer_cnt = 1
      /\ \A d : InFlight(d)' <=> InFlight(d)
  BY <1>0, ResendEffect
<1>2. /\ inflight_cmds[i] \in Inflight /\ hist[c] \in CmdRecord
      /\ \A j \in DOMAIN inflight_cmds : inflight_cmds[j].cmd \in DOMAIN hist
  BY <1>1 DEF Core, CoreType
<1>3. \A j \in DOMAIN inflight_cmds :
        /\ inflight_cmds'[j].cmd = inflight_cmds[j].cmd
        /\ inflight_cmds'[j].seq_id = inflight_cmds[j].seq_id
  BY <1>0, <1>1
<1>4. \A d \in DOMAIN hist :
        hist'[d].seq_id = hist[d].seq_id /\ hist'[d].outcome = hist[d].outcome
  BY <1>1
<1>5. CoreType'
  BY <1>1, <1>2, <1>3 DEF Core, CoreType
<1>6. Numbered'
  <2>1. \A j \in DOMAIN inflight_cmds :
          inflight_cmds'[j].seq_id = hist'[inflight_cmds'[j].cmd].seq_id
    BY <1>2, <1>3, <1>4 DEF Core, Numbered
  <2> QED
    BY <2>1, <1>1, <1>4 DEF Core, Numbered
<1>7. Window'
  BY <1>1, <1>3 DEF Core, Window
<1>8. Ordered'
  BY <1>1, <1>3 DEF Core, Ordered
<1>9. TimerCounts'
  <2> SUFFICES ASSUME NEW j \in DOMAIN inflight_cmds
               PROVE  hist'[inflight_cmds'[j].cmd].sends
                        = inflight_cmds'[j].start_timer_cnt
    BY <1>1 DEF TimerCounts
  <2>1. CASE j = i
    BY <2>1, <1>1
  <2>2. CASE j # i
    BY <2>2, <1>1, <1>2 DEF Core, TimerCounts
  <2> QED
    BY <2>1, <2>2
<1>10. OneOutcome'
  BY <1>1, <1>4 DEF Core, OneOutcome
<1>11. Clocks'
  <2> SUFFICES ASSUME NEW j \in DOMAIN inflight_cmds
               PROVE  Clock(inflight_cmds'[j], hist'[inflight_cmds'[j].cmd])
    BY <1>1 DEF Clocks
  <2>1. CASE j = i
    <3> DEFINE T == acmp_cmd_to_timeout[hist[c].msg_type]
    <3>1. T \in Nat /\ hist[c].age \in Nat /\ inflight_cmds[i].elapsed \in Nat
      BY <1>2, AcmpAssumption DEF CmdRecord, Inflight
    <3>2. /\ inflight_cmds[i].timeout_ms = T
          /\ hist[c].age >= inflight_cmds[i].elapsed
      BY <1>0, <1>1, <3>1 DEF Core, Clocks, Clock
    <3>3. inflight_cmds[i].elapsed > T
      BY <3>2 DEF timeout
    <3>4. hist[c].age >= T + 1
      BY <3>1, <3>2, <3>3
    <3> HIDE DEF T
    <3>5. /\ inflight_cmds'[i].timeout_ms = T /\ inflight_cmds'[i].elapsed <= T + 1
          /\ hist'[c].age >= inflight_cmds'[i].elapsed + (T + 1)
      BY <3>1, <3>2, <3>4, <1>1
    <3>6. Clock(inflight_cmds'[i], hist'[c])
      BY <3>5, <1>1 DEF Clock, T
    <3> QED
      BY <2>1, <3>6, <1>1
  <2>2. CASE j # i
    BY <2>2, <1>1, <1>2 DEF Core, Clocks
  <2> QED
    BY <2>1, <2>2
<1> QED
  BY <1>5, <1>6, <1>7, <1>8, <1>9, <1>10, <1>11 DEF Core

\* A field of an entry of the table, and of a record of the history, changes alone.
LEMMA ElapsedAlone ==
  ASSUME NEW e \in Inflight, NEW t, NEW f, f = [e EXCEPT !.elapsed = t]
  PROVE  /\ f.cmd = e.cmd /\ f.seq_id = e.seq_id /\ f.timeout_ms = e.timeout_ms
         /\ f.start_timer_cnt = e.start_timer_cnt /\ f.elapsed = t
  BY DEF Inflight

LEMMA AgeAlone ==
  ASSUME NEW r \in CmdRecord, NEW a, NEW s, s = [r EXCEPT !.age = a]
  PROVE  /\ s.seq_id = r.seq_id /\ s.msg_type = r.msg_type
         /\ s.sends = r.sends /\ s.outcome = r.outcome /\ s.age = a
  BY DEF CmdRecord

\* Time passing keeps the invariant: an age stops only where it already covers
\* both timeouts.
LEMMA ElapseCore ==
  ASSUME Core, Elapse
  PROVE  Core'
<1>1. /\ inflight_cmds' \in Seq(Inflight) /\ hist' \in Seq(CmdRecord)
      /\ DOMAIN inflight_cmds' = DOMAIN inflight_cmds
      /\ DOMAIN hist' = DOMAIN hist /\ Len(hist') = Len(hist)
      /\ \A j \in DOMAIN inflight_cmds :
           inflight_cmds'[j] =
             [inflight_cmds[j] EXCEPT !.elapsed =
                IF inflight_cmds[j].elapsed > inflight_cmds[j].timeout_ms
                THEN inflight_cmds[j].elapsed ELSE inflight_cmds[j].elapsed + 1]
      /\ \A c \in DOMAIN hist :
           hist'[c] = [hist[c] EXCEPT !.age =
                         IF InFlight(c) /\ hist[c].age < TwoTimeouts(c)
                         THEN hist[c].age + 1 ELSE hist[c].age]
      /\ \A c : InFlight(c)' <=> InFlight(c)
  BY ElapseEffect
<1>2. /\ \A j \in DOMAIN inflight_cmds : inflight_cmds[j] \in Inflight
      /\ \A c \in DOMAIN hist : hist[c] \in CmdRecord
      /\ \A j \in DOMAIN inflight_cmds : inflight_cmds[j].cmd \in DOMAIN hist
  BY DEF Core, CoreType
<1>3. \A j \in DOMAIN inflight_cmds :
        /\ inflight_cmds'[j].cmd = inflight_cmds[j].cmd
        /\ inflight_cmds'[j].seq_id = inflight_cmds[j].seq_id
        /\ inflight_cmds'[j].timeout_ms = inflight_cmds[j].timeout_ms
        /\ inflight_cmds'[j].start_timer_cnt = inflight_cmds[j].start_timer_cnt
        /\ inflight_cmds'[j].elapsed =
             IF inflight_cmds[j].elapsed > inflight_cmds[j].timeout_ms
             THEN inflight_cmds[j].elapsed ELSE inflight_cmds[j].elapsed + 1
  <2> TAKE j \in DOMAIN inflight_cmds
  <2>1. PICK t : t = IF inflight_cmds[j].elapsed > inflight_cmds[j].timeout_ms
                     THEN inflight_cmds[j].elapsed ELSE inflight_cmds[j].elapsed + 1
    OBVIOUS
  <2>2. PICK e : e = inflight_cmds[j]
    OBVIOUS
  <2>3. PICK f : f = inflight_cmds'[j]
    OBVIOUS
  <2>4. e \in Inflight /\ f = [e EXCEPT !.elapsed = t]
    BY <1>1, <1>2, <2>1, <2>2, <2>3
  <2>5. /\ f.cmd = e.cmd /\ f.seq_id = e.seq_id /\ f.timeout_ms = e.timeout_ms
        /\ f.start_timer_cnt = e.start_timer_cnt /\ f.elapsed = t
    BY <2>4, ElapsedAlone
  <2> QED
    BY <2>1, <2>2, <2>3, <2>5
<1>4. \A c \in DOMAIN hist :
        /\ hist'[c].seq_id = hist[c].seq_id /\ hist'[c].msg_type = hist[c].msg_type
        /\ hist'[c].sends = hist[c].sends /\ hist'[c].outcome = hist[c].outcome
        /\ hist'[c].age = IF InFlight(c) /\ hist[c].age < TwoTimeouts(c)
                          THEN hist[c].age + 1 ELSE hist[c].age
  <2> TAKE c \in DOMAIN hist
  <2>1. PICK a : a = IF InFlight(c) /\ hist[c].age < TwoTimeouts(c)
                     THEN hist[c].age + 1 ELSE hist[c].age
    OBVIOUS
  <2>2. PICK r : r = hist[c]
    OBVIOUS
  <2>3. PICK s : s = hist'[c]
    OBVIOUS
  <2>4. r \in CmdRecord /\ s = [r EXCEPT !.age = a]
    BY <1>1, <1>2, <2>1, <2>2, <2>3
  <2>5. /\ s.seq_id = r.seq_id /\ s.msg_type = r.msg_type
        /\ s.sends = r.sends /\ s.outcome = r.outcome /\ s.age = a
    BY <2>4, AgeAlone
  <2> QED
    BY <2>1, <2>2, <2>3, <2>5
<1>5. CoreType'
  BY <1>1, <1>2, <1>3 DEF Core, CoreType, Elapse
<1>6. Numbered'
  <2>1. \A j \in DOMAIN inflight_cmds :
          inflight_cmds'[j].seq_id = hist'[inflight_cmds'[j].cmd].seq_id
    BY <1>2, <1>3, <1>4 DEF Core, Numbered
  <2>2. \A c \in DOMAIN hist : hist'[c].seq_id = (c - 1) % SeqIdMod
    BY <1>4 DEF Core, Numbered
  <2>3. acmp_seq_id' = Len(hist') % SeqIdMod
    BY <1>1 DEF Core, Numbered, Elapse
  <2> QED
    BY <2>1, <2>2, <2>3, <1>1 DEF Numbered
<1>7. Window'
  BY <1>1, <1>3 DEF Core, Window
<1>8. Ordered'
  BY <1>1, <1>3 DEF Core, Ordered
<1>9. TimerCounts'
  BY <1>1, <1>2, <1>3, <1>4 DEF Core, TimerCounts
<1>10. OneOutcome'
  BY <1>1, <1>4 DEF Core, OneOutcome
<1>11. Clocks'
  <2> SUFFICES ASSUME NEW j \in DOMAIN inflight_cmds
               PROVE  Clock(inflight_cmds'[j], hist'[inflight_cmds'[j].cmd])
    BY <1>1 DEF Clocks
  <2>1. PICK c \in DOMAIN hist : c = inflight_cmds[j].cmd
    BY <1>2
  <2> DEFINE T == acmp_cmd_to_timeout[hist[c].msg_type]
             e == inflight_cmds[j]
  <2>2. /\ T \in Nat /\ hist[c].age \in Nat /\ e.elapsed \in Nat
        /\ e.start_timer_cnt \in 1 .. 2
    BY <1>2, AcmpAssumption DEF CmdRecord, Inflight
  <2>3. /\ e.timeout_ms = T /\ e.elapsed <= T + 1
        /\ hist[c].age >= e.elapsed + (IF e.start_timer_cnt = 2 THEN T + 1 ELSE 0)
    BY <2>1 DEF Core, Clocks, Clock
  <2>4. InFlight(c) /\ TwoTimeouts(c) = 2 * (T + 1)
    BY <2>1 DEF InFlight, TwoTimeouts
  <2>5. /\ inflight_cmds'[j].elapsed = (IF e.elapsed > T THEN e.elapsed ELSE e.elapsed + 1)
        /\ inflight_cmds'[j].timeout_ms = T
        /\ inflight_cmds'[j].start_timer_cnt = e.start_timer_cnt
        /\ hist'[c].age = (IF hist[c].age < 2 * (T + 1)
                           THEN hist[c].age + 1 ELSE hist[c].age)
        /\ hist'[c].msg_type = hist[c].msg_type
        /\ inflight_cmds'[j].cmd = c
    BY <2>1, <2>3, <2>4, <1>3, <1>4
  <2>6. T = acmp_cmd_to_timeout[hist'[c].msg_type]
    BY <2>5
  <2> HIDE DEF T, e
  <2>7. /\ inflight_cmds'[j].elapsed <= T + 1
        /\ hist'[c].age >= inflight_cmds'[j].elapsed
                             + (IF e.start_timer_cnt = 2 THEN T + 1 ELSE 0)
    BY <2>2, <2>3, <2>5
  <2> QED
    BY <2>5, <2>6, <2>7 DEF Clock
<1> QED
  BY <1>5, <1>6, <1>7, <1>8, <1>9, <1>10, <1>11 DEF Core

LEMMA UnchangedCore ==
  ASSUME Core, UNCHANGED <<acmp_seq_id, inflight_cmds, hist>>
  PROVE  Core'
BY DEF Core, CoreType, Numbered, Window, Ordered, TimerCounts, OneOutcome, Clocks,
       Clock, InFlight

\* Receiving a response, wanted or not, keeps the invariant.
LEMMA RespCore ==
  ASSUME Core, NEW s, NEW from \in Nat, proc_resp(s, from), acmp_seq_id' = acmp_seq_id
  PROVE  Core'
<1>1. CASE \E j \in DOMAIN inflight_cmds : EraseInflight(j, "RESPONSE_RECEIVED", from)
  BY <1>1, EraseCore DEF Ends
<1>2. CASE UNCHANGED <<inflight_cmds, hist>>
  BY <1>2, UnchangedCore
<1> QED
  BY <1>1, <1>2 DEF proc_resp

\* One iteration of the loop in tick() keeps the invariant.
LEMMA TickCore ==
  ASSUME Core, TickStep
  PROVE  Core'
<1>1. tick_pos \in DOMAIN inflight_cmds /\ acmp_seq_id' = acmp_seq_id
  BY DEF TickStep
<1>2. CASE UNCHANGED <<inflight_cmds, hist>>
  BY <1>1, <1>2, UnchangedCore
<1>3. CASE EraseInflight(tick_pos, "timeout", inflight_cmds[tick_pos].cmd)
  <2>1. inflight_cmds[tick_pos].cmd \in Nat
    BY SMTT(30), <1>1 DEF Core, CoreType, Inflight
  <2> QED
    BY <1>1, <1>3, <2>1, EraseCore DEF Ends
<1>4. CASE /\ timeout(inflight_cmds[tick_pos]) /\ ~retried(inflight_cmds[tick_pos])
           /\ tx_cmd_resend(inflight_cmds[tick_pos].seq_id, inflight_cmds[tick_pos].cmd)
  BY <1>1, <1>4, ResendCore
<1> QED
  BY <1>2, <1>3, <1>4 DEF TickStep, state_timeout

\* Every action keeps the invariant of the commands.
LEMMA CoreStep ==
  ASSUME Core, Next
  PROVE  Core'
<1>1. ASSUME NEW id \in NotifyIds, NEW t \in MsgTypes, StateCommand(id, t)
      PROVE  Core'
  BY <1>1, SendCore DEF StateCommand
<1>2. ASSUME NEW c \in DOMAIN hist, StateResp(c)
      PROVE  Core'
  <2>1. c \in Nat
    BY DEF Core, CoreType
  <2> QED
    BY <1>2, <2>1, RespCore DEF StateResp
<1>3. ASSUME NEW s \in OwnSeqIds, StateRespOwn(s)
      PROVE  Core'
  BY <1>3, RespCore DEF StateRespOwn, Foreign
<1>4. CASE TickBegin \/ TickEnd
  BY <1>4, UnchangedCore DEF TickBegin, TickEnd
<1> QED
  BY <1>1, <1>2, <1>3, <1>4, TickCore, ElapseCore DEF Next

LEMMA InitInv == Init => IInv
<1> SUFFICES ASSUME Init
             PROVE  IInv
  OBVIOUS
<1>1. acmp_seq_id = 0 /\ inflight_cmds = <<>> /\ hist = <<>> /\ tick_pos = 0
  BY DEF Init
<1>2. 0 % SeqIdMod = 0 /\ 0 \in 0 .. SeqIdMod - 1
  BY AcmpAssumption
<1> QED
  BY <1>1, <1>2 DEF IInv, Core, CoreType, Numbered, Window, Ordered, TimerCounts,
                    OneOutcome, Clocks

LEMMA NextInv == IInv /\ [Next]_acmpVars => IInv'
<1>1. ASSUME IInv, Next
      PROVE  IInv'
  <2>1. tick_pos' \in Nat
    BY <1>1 DEF IInv, Next, StateCommand, StateResp, StateRespOwn, TickBegin,
                TickStep, TickEnd, Elapse
  <2> QED
    BY <1>1, <2>1, CoreStep DEF IInv
<1>2. ASSUME IInv, UNCHANGED acmpVars
      PROVE  IInv'
  BY <1>2, UnchangedCore DEF IInv, acmpVars
<1> QED
  BY <1>1, <1>2

\* The numbering, the order, the outcomes and the clocks of the commands hold
\* in every reachable state.
THEOREM AcmpInvariant == Spec => []IInv
BY InitInv, NextInv, PTL DEF Spec

\* Every connect and disconnect command is in flight or has ended exactly once,
\* whichever responses are lost, late, repeated or meant for others; and every
\* variable keeps its type.
THEOREM AcmpCommandsEndOnce == Spec => []EndsOnce
<1>1. IInv => EndsOnce
  BY DEF IInv, Core, OneOutcome, EndsOnce
<1> QED
  BY <1>1, AcmpInvariant, PTL
-----------------------------------------------------------------------------
\* What the two properties of outcomes say of one of them.
Due(c, k) ==
  /\ hist[c].outcome[k].from \in {c, Foreign}
  /\ hist[c].outcome[k].end = "timeout" =>
       hist[c].age >= TwoTimeouts(c) /\ hist[c].sends = 2

AllDue == \A c \in DOMAIN hist : \A k \in DOMAIN hist[c].outcome : Due(c, k)

\* A step that leaves a command and what is recorded of it alone.
Kept(c) ==
  /\ c \in DOMAIN hist
  /\ hist'[c].outcome = hist[c].outcome /\ hist'[c].msg_type = hist[c].msg_type
  /\ hist'[c].age = hist[c].age /\ hist'[c].sends = hist[c].sends

\* A response to command c that is still alive can only find c in flight.
LEMMA OwnEntry ==
  ASSUME Core, NEW c \in DOMAIN hist, FrameAlive(c),
         NEW j \in DOMAIN inflight_cmds, inflight_cmds[j].seq_id = hist[c].seq_id
  PROVE  inflight_cmds[j].cmd = c
<1>1. PICK d \in DOMAIN hist : d = inflight_cmds[j].cmd
  BY DEF Core, CoreType
<1>2. /\ DOMAIN hist = 1 .. Len(hist) /\ Len(hist) \in Nat
      /\ SeqIdMod \in Nat \ {0}
  BY AcmpAssumption DEF Core, CoreType
<1>3. Len(hist) - c < SeqIdMod /\ Len(hist) - d < SeqIdMod
  BY <1>1 DEF FrameAlive, Issued, Core, Window
<1>4. (c - 1) % SeqIdMod = (d - 1) % SeqIdMod
  BY <1>1 DEF Core, Numbered
<1>5. c - 1 \in Nat /\ d - 1 \in Nat
  BY <1>2
<1>6. CASE c >= d
  <2>1. c - 1 >= d - 1 /\ (c - 1) - (d - 1) < SeqIdMod
    BY <1>2, <1>3, <1>6
  <2>2. c - 1 = d - 1
    BY <1>2, <1>4, <1>5, <2>1, ModUnique
  <2> QED
    BY <1>1, <1>2, <2>2
<1>7. CASE d >= c
  <2>1. d - 1 >= c - 1 /\ (d - 1) - (c - 1) < SeqIdMod
    BY <1>2, <1>3, <1>7
  <2>2. d - 1 = c - 1
    BY <1>2, <1>4, <1>5, <2>1, ModUnique
  <2> QED
    BY <1>1, <1>2, <2>2
<1> QED
  BY <1>2, <1>6, <1>7

\* Erasing an entry gives its command an outcome that is due, if what ends it
\* is a response to it or foreign, or the second time its timer ran out.
LEMMA EraseDue ==
  ASSUME Core, NEW i \in DOMAIN inflight_cmds, NEW end \in Ends, NEW from \in Nat,
         EraseInflight(i, end, from),
         from \in {inflight_cmds[i].cmd, Foreign},
         end = "timeout" => timeout(inflight_cmds[i]) /\ retried(inflight_cmds[i]),
         NEW d \in DOMAIN hist', NEW k \in DOMAIN hist'[d].outcome
  PROVE  Kept(d) \/ Due(d, k)'
<1>0. PICK c : c = inflight_cmds[i].cmd
  OBVIOUS
<1>1. /\ c \in DOMAIN hist /\ DOMAIN hist' = DOMAIN hist
      /\ \A x \in DOMAIN hist : x # c => hist'[x] = hist[x]
      /\ hist'[c] = [hist[c] EXCEPT !.outcome = <<[end |-> end, from |-> from]>>]
  BY <1>0, EraseEffect
<1>2. CASE d # c
  BY <1>1, <1>2 DEF Kept
<1>3. CASE d = c
  <2>1. hist[c] \in CmdRecord /\ inflight_cmds[i] \in Inflight
    BY <1>1 DEF Core, CoreType
  <2>2. /\ hist'[c].outcome = <<[end |-> end, from |-> from]>>
        /\ hist'[c].msg_type = hist[c].msg_type
        /\ hist'[c].age = hist[c].age /\ hist'[c].sends = hist[c].sends
    BY <1>1, <2>1 DEF CmdRecord
  <2>3. k = 1 /\ hist'[c].outcome[1] = [end |-> end, from |-> from]
    BY <1>3, <2>2
  <2>4. ASSUME end = "timeout"
        PROVE  hist[c].age >= TwoTimeouts(c) /\ hist[c].sends = 2
    <3> DEFINE T == acmp_cmd_to_timeout[hist[c].msg_type]
               e == inflight_cmds[i]
    <3>1. /\ T \in Nat /\ hist[c].age \in Nat /\ e.elapsed \in Nat
          /\ e.start_timer_cnt \in 1 .. 2
      BY <2>1, AcmpAssumption DEF CmdRecord, Inflight
    <3>2. e.start_timer_cnt = 2 /\ e.elapsed > e.timeout_ms
      BY <2>4, <3>1 DEF retried, timeout
    <3>3. e.timeout_ms = T /\ hist[c].age >= e.elapsed + (T + 1)
      BY <1>0, <3>2 DEF Core, Clocks, Clock
    <3>4. hist[c].sends = 2
      BY <1>0, <3>2 DEF Core, TimerCounts
    <3>5. TwoTimeouts(c) = 2 * (T + 1)
      BY DEF TwoTimeouts
    <3> HIDE DEF T, e
    <3>6. hist[c].age >= 2 * (T + 1)
      BY <3>1, <3>2, <3>3
    <3> QED
      BY <3>4, <3>5, <3>6
  <2>5. TwoTimeouts(c)' = TwoTimeouts(c)
    BY <2>2 DEF TwoTimeouts
  <2> QED
    BY <1>0, <1>3, <2>2, <2>3, <2>4, <2>5 DEF Due, Foreign
<1> QED
  BY <1>2, <1>3

\* A step keeps what a command ended with, or ends it as it is due.
LEMMA OutcomeStep ==
  ASSUME Core, Next, NEW d \in DOMAIN hist', NEW k \in DOMAIN hist'[d].outcome
  PROVE  Kept(d) \/ Due(d, k)'
<1>1. CASE hist' = hist
  BY <1>1 DEF Kept
<1>2. ASSUME NEW id \in NotifyIds, NEW t \in MsgTypes, StateCommand(id, t)
      PROVE  Kept(d)
  <2>1. /\ hist \in Seq(CmdRecord)
        /\ hist' = Append(hist, [notification_id |-> id, seq_id |-> acmp_seq_id,
                                 msg_type |-> t, sends |-> 1, age |-> 0,
                                 outcome |-> <<>>])
    BY <1>2 DEF Core, CoreType, StateCommand, PushInflight
  <2>2. /\ DOMAIN hist' = 1 .. Len(hist) + 1 /\ DOMAIN hist = 1 .. Len(hist)
        /\ \A c \in 1 .. Len(hist) : hist'[c] = hist[c]
        /\ hist'[Len(hist) + 1].outcome = <<>>
    BY <2>1
  <2>3. d # Len(hist) + 1
    BY <2>2
  <2>4. d \in DOMAIN hist
    BY <2>1, <2>2, <2>3
  <2> QED
    BY <2>2, <2>4 DEF Kept
<1>3. ASSUME NEW c \in DOMAIN hist, StateResp(c), hist' # hist
      PROVE  Kept(d) \/ Due(d, k)'
  <2>1. PICK j \in DOMAIN inflight_cmds :
          /\ FirstWithSeqId(j, hist[c].seq_id)
          /\ EraseInflight(j, "RESPONSE_RECEIVED", c)
    BY <1>3 DEF StateResp, proc_resp
  <2>2. inflight_cmds[j].cmd = c
    BY <1>3, <2>1, OwnEntry DEF StateResp, FirstWithSeqId
  <2>3. c \in Nat
    BY DEF Core, CoreType
  <2> QED
    BY <2>1, <2>2, <2>3, EraseDue DEF Ends
<1>4. ASSUME NEW s \in OwnSeqIds, StateRespOwn(s), hist' # hist
      PROVE  Kept(d) \/ Due(d, k)'
  <2>1. PICK j \in DOMAIN inflight_cmds : EraseInflight(j, "RESPONSE_RECEIVED", Foreign)
    BY <1>4 DEF StateRespOwn, proc_resp
  <2> QED
    BY <2>1, EraseDue DEF Ends, Foreign
<1>5. ASSUME TickStep, hist' # hist
      PROVE  Kept(d) \/ Due(d, k)'
  <2> DEFINE e == inflight_cmds[tick_pos]
  <2>1. tick_pos \in DOMAIN inflight_cmds /\ timeout(e) /\ e.cmd \in Nat
    BY SMTT(30), <1>5 DEF TickStep, Core, CoreType, Inflight
  <2>2. CASE retried(e) /\ EraseInflight(tick_pos, "timeout", e.cmd)
    BY <2>1, <2>2, EraseDue DEF Ends
  <2>3. CASE ~retried(e) /\ tx_cmd_resend(e.seq_id, e.cmd)
    <3>0. PICK c : c = e.cmd
      OBVIOUS
    <3>1. /\ c \in DOMAIN hist /\ DOMAIN hist' = DOMAIN hist
          /\ \A x \in DOMAIN hist : x # c => hist'[x] = hist[x]
          /\ hist'[c].outcome = hist[c].outcome
      BY <2>1, <2>3, <3>0, ResendEffect
    <3>2. InFlight(c)
      BY <2>1, <3>0 DEF InFlight
    <3>3. Len(hist[c].outcome) = 0 /\ hist[c].outcome \in Seq([end : Ends, from : Nat])
      <4>1. Len(hist[c].outcome) = 0
        BY <3>1, <3>2 DEF Core, OneOutcome
      <4>2. hist[c] \in CmdRecord
        BY <3>1 DEF Core, CoreType
      <4> QED
        BY <4>1, <4>2 DEF CmdRecord
    <3>4. d # c
      BY <3>1, <3>3
    <3> QED
      BY <3>1, <3>4 DEF Kept
  <2> QED
    BY <1>5, <2>2, <2>3 DEF TickStep, state_timeout
<1>6. ASSUME Elapse
      PROVE  Kept(d)
  <2>1. /\ DOMAIN hist' = DOMAIN hist
        /\ hist'[d] = [hist[d] EXCEPT !.age =
                         IF InFlight(d) /\ hist[d].age < TwoTimeouts(d)
                         THEN hist[d].age + 1 ELSE hist[d].age]
    BY <1>6, ElapseEffect
  <2>2. hist[d] \in CmdRecord
    BY <2>1 DEF Core, CoreType
  <2>3. /\ hist'[d].outcome = hist[d].outcome /\ hist'[d].msg_type = hist[d].msg_type
        /\ hist'[d].sends = hist[d].sends
        /\ ~InFlight(d) => hist'[d].age = hist[d].age
    BY <2>1, <2>2 DEF CmdRecord
  <2>4. Len(hist[d].outcome) # 0
    BY <2>2, <2>3 DEF CmdRecord
  <2>5. ~InFlight(d)
    BY <2>1, <2>4 DEF Core, OneOutcome
  <2> QED
    BY <2>1, <2>3, <2>5 DEF Kept
<1>7. TickBegin \/ TickEnd => hist' = hist
  BY DEF TickBegin, TickEnd
<1> QED
  BY <1>1, <1>2, <1>3, <1>4, <1>5, <1>6, <1>7 DEF Next

\* What a command ended with was due when it ended and stays as it is.
THEOREM OutcomesDue == Spec => []AllDue
<1>1. Init => AllDue
  BY DEF Init, AllDue
<1>2. ASSUME IInv, AllDue, [Next]_acmpVars
      PROVE  AllDue'
  <2> SUFFICES ASSUME NEW c \in DOMAIN hist', NEW k \in DOMAIN hist'[c].outcome
               PROVE  Due(c, k)'
    BY DEF AllDue
  <2>1. CASE Kept(c)
    <3>1. Due(c, k)
      BY <1>2, <2>1 DEF AllDue, Kept
    <3> QED
      BY <2>1, <3>1 DEF Due, Kept, TwoTimeouts
  <2>2. CASE UNCHANGED acmpVars
    BY <2>1, <2>2 DEF Kept, acmpVars
  <2> QED
    BY <1>2, <2>1, <2>2, OutcomeStep DEF IInv
<1> QED
  BY <1>1, <1>2, AcmpInvariant, PTL DEF Spec

\* No command is given up before the timeout of its own kind has passed twice
\* and it was sent twice, although commands with shorter timeouts issued later
\* are given up first and tick() skips entries when it erases one.
THEOREM AcmpNotGivenUpEarly == Spec => []NotGivenUpEarly
<1>1. IInv /\ AllDue => NotGivenUpEarly
  BY DEF IInv, Core, CoreType, TypeOK, AllDue, Due, NotGivenUpEarly
<1> QED
  BY <1>1, AcmpInvariant, OutcomesDue, PTL

\* No command is ended by the response to another command of this controller,
\* nor by the timeout of another one, while the sequence ids wrap.
THEOREM AcmpNoCrossedResponse == Spec => []NeverAnothersResponse
<1>1. AllDue => NeverAnothersResponse
  BY DEF AllDue, Due, NeverAnothersResponse
<1> QED
  BY <1>1, OutcomesDue, PTL
-----------------------------------------------------------------------------
(***************************************************************************)
(* AcmpController implements CommandLifecycle.                             *)
(***************************************************************************)

\* The lives after a step: those of a history that changes at one command.
LEMMA LivesExcept ==
  ASSUME NEW c \in DOMAIN hist, NEW v,
         DOMAIN hist' = DOMAIN hist,
         LifeOf(c)' = v,
         \A d \in DOMAIN hist : d # c => hist'[d] = hist[d]
  PROVE  Lives' = [Lives EXCEPT ![c] = v]
<1>1. \A d \in DOMAIN hist : d # c => LifeOf(d)' = LifeOf(d)
  BY DEF LifeOf
<1> QED
  BY <1>1 DEF Lives

\* What is told of a command without an outcome, and of one with one.
LEMMA ToldOf ==
  /\ [k \in DOMAIN <<>> |-> Told(<<>>[k].end)] = <<>>
  /\ \A r : [k \in DOMAIN <<r>> |-> Told(<<r>>[k].end)] = <<Told(r.end)>>
OBVIOUS

\* A command in flight has no outcome yet.
LEMMA PendingOutcome ==
  ASSUME Core, NEW j \in DOMAIN inflight_cmds, NEW c, c = inflight_cmds[j].cmd
  PROVE  c \in DOMAIN hist /\ hist[c] \in CmdRecord /\ hist[c].outcome = <<>>
<1>1. c \in DOMAIN hist /\ hist[c] \in CmdRecord
  BY DEF Core, CoreType
<1>2. Len(hist[c].outcome) = 0
  <2>1. InFlight(c)
    BY DEF InFlight
  <2> QED
    BY <1>1, <2>1 DEF Core, OneOutcome
<1>3. hist[c].outcome \in Seq([end : Ends, from : Nat])
  BY <1>1 DEF CmdRecord
<1> QED
  BY <1>1, <1>2, <1>3

\* The report of the end of a command in flight is a Tell of its life.
LEMMA EraseTells ==
  ASSUME Core, NEW j \in DOMAIN inflight_cmds, NEW end \in Ends, NEW from \in Nat,
         EraseInflight(j, end, from)
  PROVE  Lifecycle!Tell(inflight_cmds[j].cmd, Told(end))
<1>1. PICK c : c = inflight_cmds[j].cmd
  OBVIOUS
<1> DEFINE r == [end |-> end, from |-> from]
<1>2. c \in DOMAIN hist /\ hist[c] \in CmdRecord /\ hist[c].outcome = <<>>
  BY <1>1, PendingOutcome
<1>3. /\ DOMAIN hist' = DOMAIN hist
      /\ hist'[c] = [hist[c] EXCEPT !.outcome = <<r>>]
      /\ \A d \in DOMAIN hist : d # c => hist'[d] = hist[d]
  BY <1>1, EraseEffect
<1>4. r.end = end
  OBVIOUS
<1> HIDE DEF r
<1>5. /\ hist'[c].notification_id = hist[c].notification_id
      /\ hist'[c].sends = hist[c].sends /\ hist'[c].outcome = <<r>>
  BY <1>2, <1>3 DEF CmdRecord
<1>6. /\ LifeOf(c).told = <<>>
      /\ LifeOf(c)' = [LifeOf(c) EXCEPT !.told = <<Told(end)>>]
  BY <1>2, <1>4, <1>5, ToldOf DEF LifeOf
<1>7. c \in DOMAIN Lives /\ Lives[c] = LifeOf(c)
  BY <1>2 DEF Lives
<1>8. Lives' = [Lives EXCEPT ![c] = [Lives[c] EXCEPT !.told = <<Told(end)>>]]
  BY <1>2, <1>3, <1>6, <1>7, LivesExcept
<1> QED
  BY <1>1, <1>6, <1>7, <1>8 DEF Lifecycle!Tell, Lifecycle!Pending

\* What a step does to the history: nothing, one more command, one command
\* older, one ended by a response or given up, or one sent again.
LEMMA HistoryCases ==
  ASSUME Core, Next
  PROVE  \/ UNCHANGED hist
         \/ \E id \in NotifyIds, t \in MsgTypes : PushInflight(id, t)
         \/ Elapse
         \/ \E j \in DOMAIN inflight_cmds, from \in Nat :
              EraseInflight(j, "RESPONSE_RECEIVED", from)
         \/ \E j \in DOMAIN inflight_cmds, from \in Nat :
              /\ retried(inflight_cmds[j])
              /\ EraseInflight(j, "timeout", from)
         \/ \E j \in DOMAIN inflight_cmds :
              /\ ~retried(inflight_cmds[j])
              /\ tx_cmd_resend(inflight_cmds[j].seq_id, inflight_cmds[j].cmd)
<1>1. ASSUME NEW s, NEW from \in Nat, proc_resp(s, from)
      PROVE  \/ UNCHANGED hist
             \/ \E j \in DOMAIN inflight_cmds :
                  EraseInflight(j, "RESPONSE_RECEIVED", from)
  BY <1>1 DEF proc_resp
<1>2. ASSUME NEW c \in DOMAIN hist, StateResp(c)
      PROVE  \/ UNCHANGED hist
             \/ \E j \in DOMAIN inflight_cmds, from \in Nat :
                  EraseInflight(j, "RESPONSE_RECEIVED", from)
  <2>1. c \in Nat /\ proc_resp(hist[c].seq_id, c)
    BY <1>2 DEF StateResp, Core, CoreType
  <2> QED
    BY <1>1, <2>1
<1>3. ASSUME NEW s \in OwnSeqIds, StateRespOwn(s)
      PROVE  \/ UNCHANGED hist
             \/ \E j \in DOMAIN inflight_cmds, from \in Nat :
                  EraseInflight(j, "RESPONSE_RECEIVED", from)
  <2>1. Foreign \in Nat /\ proc_resp(s, Foreign)
    BY <1>3 DEF StateRespOwn, Foreign
  <2> QED
    BY <1>1, <2>1
<1>4. ASSUME TickStep, timeout(inflight_cmds[tick_pos])
      PROVE  /\ tick_pos \in DOMAIN inflight_cmds /\ inflight_cmds[tick_pos].cmd \in Nat
             /\ state_timeout(tick_pos)
  <2>1. tick_pos \in DOMAIN inflight_cmds /\ state_timeout(tick_pos)
    BY <1>4 DEF TickStep
  <2>2. inflight_cmds[tick_pos] \in Inflight
    BY <2>1 DEF Core, CoreType
  <2> QED
    BY <2>1, <2>2 DEF Inflight
<1>5. CASE TickStep
  <2>1. CASE timeout(inflight_cmds[tick_pos])
    BY <1>4, <1>5, <2>1 DEF state_timeout
  <2>2. CASE ~timeout(inflight_cmds[tick_pos])
    BY <1>5, <2>2 DEF TickStep
  <2> QED
    BY <2>1, <2>2
<1>6. ASSUME NEW id \in NotifyIds, NEW t \in MsgTypes, StateCommand(id, t)
      PROVE  PushInflight(id, t)
  BY <1>6 DEF StateCommand
<1>7. TickBegin \/ TickEnd => UNCHANGED hist
  BY DEF TickBegin, TickEnd
<1> QED
  BY <1>2, <1>3, <1>5, <1>6, <1>7 DEF Next

\* Every step of the controller is a step of one life or stutters.
LEMMA StepImplements ==
  ASSUME Core, Next
  PROVE  [Lifecycle!LifeNext]_Lives
<1>1. CASE UNCHANGED hist
  BY <1>1 DEF Lives, LifeOf
<1>2. ASSUME NEW id \in NotifyIds, NEW t \in MsgTypes, PushInflight(id, t)
      PROVE  Lifecycle!Issue(<<id>>)
  <2> DEFINE v == [id |-> <<id>>, sends |-> 1, told |-> <<>>]
             g == [notification_id |-> id, seq_id |-> acmp_seq_id, msg_type |-> t,
                   sends |-> 1, age |-> 0, outcome |-> <<>>]
  <2>0. PICK n \in Nat : n = Len(hist) + 1
    BY DEF Core, CoreType
  <2>1. hist \in Seq(CmdRecord) /\ hist' = Append(hist, g)
    BY <1>2 DEF PushInflight, Core, CoreType
  <2>2. g.notification_id = id /\ g.sends = 1 /\ g.outcome = <<>>
    OBVIOUS
  <2> HIDE DEF g
  <2>3. /\ DOMAIN hist = 1 .. Len(hist) /\ Len(hist) \in Nat
        /\ DOMAIN hist' = 1 .. n /\ hist'[n] = g
        /\ \A d \in DOMAIN hist : hist'[d] = hist[d]
    BY <2>0, <2>1
  <2>4. Lives = [d \in 1 .. Len(hist) |-> LifeOf(d)]
    BY <2>3 DEF Lives
  <2>5. Lives' = [d \in 1 .. n |-> LifeOf(d)']
    BY <2>3 DEF Lives
  <2>6. LifeOf(n)' = v
    BY <2>2, <2>3, ToldOf DEF LifeOf
  <2>7. \A d \in 1 .. Len(hist) : LifeOf(d)' = LifeOf(d)
    BY <2>3 DEF LifeOf
  <2>8. Lives' = Append(Lives, v)
    <3> HIDE DEF v
    <3> QED
      BY <2>0, <2>3, <2>4, <2>5, <2>6, <2>7
  <2> QED
    BY <2>8 DEF Lifecycle!Issue
<1>3. CASE Elapse
  <2>1. /\ DOMAIN hist' = DOMAIN hist /\ hist \in Seq(CmdRecord)
        /\ \A c \in DOMAIN hist :
             hist'[c] = [hist[c] EXCEPT !.age =
                           IF InFlight(c) /\ hist[c].age < TwoTimeouts(c)
                           THEN hist[c].age + 1 ELSE hist[c].age]
    BY <1>3, ElapseEffect DEF Core, CoreType
  <2>2. ASSUME NEW c \in DOMAIN hist
        PROVE  LifeOf(c)' = LifeOf(c)
    <3>1. hist[c] \in CmdRecord
      BY <2>1
    <3>2. /\ hist'[c].notification_id = hist[c].notification_id
          /\ hist'[c].sends = hist[c].sends /\ hist'[c].outcome = hist[c].outcome
      BY <2>1, <3>1 DEF CmdRecord
    <3> QED
      BY <3>2 DEF LifeOf
  <2> QED
    BY <2>1, <2>2 DEF Lives
<1>4. ASSUME NEW j \in DOMAIN inflight_cmds, NEW from \in Nat,
             EraseInflight(j, "RESPONSE_RECEIVED", from)
      PROVE  Lifecycle!Respond(inflight_cmds[j].cmd)
  <2>1. PICK c \in DOMAIN hist : c = inflight_cmds[j].cmd
    BY PendingOutcome
  <2>2. Lives[c].id # <<>>
    BY DEF Lives, LifeOf
  <2>3. Lifecycle!Tell(c, Told("RESPONSE_RECEIVED"))
    BY <1>4, <2>1, EraseTells DEF Ends
  <2>4. Told("RESPONSE_RECEIVED") = "RESPONSE_RECEIVED"
    BY DEF Told
  <2> QED
    BY <2>1, <2>2, <2>3, <2>4 DEF Lifecycle!Respond
<1>5. ASSUME NEW j \in DOMAIN inflight_cmds, NEW from \in Nat,
             retried(inflight_cmds[j]), EraseInflight(j, "timeout", from)
      PROVE  Lifecycle!GiveUp(inflight_cmds[j].cmd)
  <2>1. PICK c \in DOMAIN hist : c = inflight_cmds[j].cmd
    BY PendingOutcome
  <2>2. inflight_cmds[j].start_timer_cnt = 2
    <3>1. inflight_cmds[j] \in Inflight
      BY DEF Core, CoreType
    <3> QED
      BY <1>5, <3>1 DEF retried, Inflight
  <2>3. Lives[c].sends = 2
    BY <2>1, <2>2 DEF Lives, LifeOf, Core, TimerCounts
  <2>4. Lifecycle!Tell(c, Told("timeout"))
    BY <1>5, <2>1, EraseTells DEF Ends
  <2>5. Told("timeout") = "COMMAND_TIMEOUT"
    BY DEF Told
  <2> QED
    BY <2>1, <2>3, <2>4, <2>5 DEF Lifecycle!GiveUp
<1>6. ASSUME NEW j \in DOMAIN inflight_cmds, ~retried(inflight_cmds[j]),
             tx_cmd_resend(inflight_cmds[j].seq_id, inflight_cmds[j].cmd)
      PROVE  Lifecycle!SendAgain(inflight_cmds[j].cmd)
  <2>1. PICK c : c = inflight_cmds[j].cmd
    OBVIOUS
  <2>2. c \in DOMAIN hist /\ hist[c].outcome = <<>>
    BY <2>1, PendingOutcome
  <2>3. /\ DOMAIN hist' = DOMAIN hist
        /\ hist'[c].notification_id = hist[c].notification_id
        /\ hist'[c].sends = 2 /\ hist'[c].outcome = hist[c].outcome
        /\ \A d \in DOMAIN hist : d # c => hist'[d] = hist[d]
        /\ inflight_cmds[j].start_timer_cnt = 1
    BY <1>6, <2>1, ResendEffect
  <2>4. hist[c].sends = 1
    BY <2>1, <2>3 DEF Core, TimerCounts
  <2>5. /\ LifeOf(c).told = <<>> /\ LifeOf(c).sends = 1
        /\ LifeOf(c)' = [LifeOf(c) EXCEPT !.sends = 2]
    BY <2>2, <2>3, <2>4, ToldOf DEF LifeOf
  <2>6. c \in DOMAIN Lives /\ Lives[c] = LifeOf(c)
    BY <2>2 DEF Lives
  <2>7. Lives' = [Lives EXCEPT ![c] = [Lives[c] EXCEPT !.sends = 2]]
    BY <2>2, <2>3, <2>5, <2>6, LivesExcept
  <2> QED
    BY <2>1, <2>5, <2>6, <2>7 DEF Lifecycle!SendAgain, Lifecycle!Pending
<1>7. /\ DOMAIN Lives = DOMAIN hist
      /\ \A j \in DOMAIN inflight_cmds : inflight_cmds[j].cmd \in DOMAIN hist
  BY DEF Lives, Core, CoreType
<1>8. CASE \E id \in NotifyIds, t \in MsgTypes : PushInflight(id, t)
  BY <1>2, <1>8 DEF Lifecycle!LifeNext
<1>9. CASE \E j \in DOMAIN inflight_cmds, from \in Nat :
             EraseInflight(j, "RESPONSE_RECEIVED", from)
  BY <1>4, <1>7, <1>9 DEF Lifecycle!LifeNext
<1>10. CASE \E j \in DOMAIN inflight_cmds, from \in Nat :
              /\ retried(inflight_cmds[j])
              /\ EraseInflight(j, "timeout", from)
  BY <1>5, <1>7, <1>10 DEF Lifecycle!LifeNext
<1>11. CASE \E j \in DOMAIN inflight_cmds :
              /\ ~retried(inflight_cmds[j])
              /\ tx_cmd_resend(inflight_cmds[j].seq_id, inflight_cmds[j].cmd)
  BY <1>6, <1>7, <1>11 DEF Lifecycle!LifeNext
<1> QED
  BY <1>1, <1>3, <1>8, <1>9, <1>10, <1>11, HistoryCases

\* The ACMP controller implements the same life cycle as the AECP one, for any
\* table of timeouts, any number of sequence ids and whatever responses are lost,
\* late, repeated or addressed by an entity to itself: a command is sent, sent
\* once more if nothing came, and then told exactly one end.
THEOREM AcmpImplements == Spec => ImplementsLifecycle
<1>1. Init => Lifecycle!LifeInit
  BY DEF Init, Lives, Lifecycle!LifeInit
<1>2. IInv /\ [Next]_acmpVars => [Lifecycle!LifeNext]_Lives
  <2>1. ASSUME UNCHANGED acmpVars
        PROVE  UNCHANGED Lives
    BY <2>1 DEF acmpVars, Lives, LifeOf
  <2> QED
    BY <2>1, StepImplements DEF IInv
<1> QED
  BY <1>1, <1>2, AcmpInvariant, PTL
     DEF Spec, ImplementsLifecycle, Lifecycle!LifeSpec
=============================================================================
