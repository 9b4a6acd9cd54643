-------------------------- MODULE EndStationProofs --------------------------
(***************************************************************************)
(* Proofs about EndStation for every entity that has one descriptor of     *)
(* each type that is looked up by its position (OneOfEach): however often, *)
(* how late and in whatever order responses arrive, nothing listed is      *)
(* forgotten, READ_COMPLETED is posted when everything was read, and the   *)
(* poll thread does not fail until the end station is re-enumerated or the *)
(* answer for a descriptor that lists others is cut.  Two descriptors of   *)
(* such a type can be read in the wrong order, and then the poll thread    *)
(* fails (run end_station_ports).                                          *)
(*                                                                         *)
(* The inductive invariant adds to these properties the order in which     *)
(* descriptors can be stored at all: the configuration after the entity,   *)
(* the others after both, so that a response which is not stored is one    *)
(* that nothing stored lists, or one for a configuration there already.    *)
(***************************************************************************)
EXTENDS EndStation, AvdeccLemmas, FiniteSetTheorems

\* The device is in its first configuration, the one the library reads, and its
\* descriptors of the types that are looked up by position are the first ones.
OneOfEach ==
  /\ CurrentConfig = 0
  /\ \A d \in Desc : d[1] \in LooksUp => d[2] = 0

Indices(t) == {d[2] : d \in {x \in Desc : x[1] = t}}

\* The vectors hold descriptors that the entity has, each in that of its type.
VecsOK == \A t \in Types : desc_vec[t] \in Seq(Indices(t))

\* What must have been read before other descriptors can be stored.
ReadOrder ==
  /\ config_read => entity_read
  /\ \A t \in Types : desc_vec[t] # <<>> => config_read

\* READ_COMPLETED is posted with both lists empty.
Drained == completed => (failed = "no" => pending = <<>> /\ inflight = {})

\* Until the end station is re-enumerated nothing waits before the entity is read.
FirstTime ==
  reenumerates = 0 =>
    /\ ListsReadable => failed = "no"
    /\ ~entity_read => pending = <<>>

Handled(c) ==
  \/ IsStored(c) \/ c \in Range(pending) \/ c \in inflight
  \/ c \in gaveUp \cup unreadable

Followed ==
  failed = "no" =>
    \A d \in Desc : IsStored(d) => \A c \in Listed(d) : Handled(c)

EInv == TypeOK /\ VecsOK /\ ReadOrder /\ Drained /\ FirstTime /\ Followed
-----------------------------------------------------------------------------
\* The descriptors of a run, and those a descriptor lists, are in the entity.
LEMMA QueueForListed ==
  ASSUME NEW d \in Desc
  PROVE  /\ QueueFor(d) \in Seq(Desc)
         /\ Range(QueueFor(d)) = Listed(d)
         /\ Listed(d) \subseteq Desc
<1> DEFINE T == STRING \X Int
           R == [type : STRING, base : Nat, count : Nat]
           l == Lists[d]
           s == [j \in DOMAIN l |-> Requested(l[j])]
<1>1. l \in Seq(R)
  BY EndStationAssumption
<1>2. ASSUME NEW r \in R
      PROVE  Requested(r) \in Seq(T)
  <2>1. \A i \in 1 .. r.count : <<r.type, r.base + i - 1>> \in T
    OBVIOUS
  <2>2. r.count \in Nat
    OBVIOUS
  <2> QED
    BY <2>1, <2>2 DEF Requested
<1>3. s \in Seq(Seq(T)) /\ DOMAIN s = DOMAIN l
  <2>1. s \in [DOMAIN l -> Seq(T)]
    <3>1. \A j \in DOMAIN l : l[j] \in R
      <4> HIDE DEF l, R
      <4> QED
        BY <1>1
    <3> QED
      BY <1>2, <3>1
  <2> HIDE DEF s, T
  <2> QED
    BY <1>1, <2>1, MapProperties
<1>4. FlattenSeq(s) \in Seq(T) /\ Range(FlattenSeq(s)) = UNION {Range(s[j]) : j \in DOMAIN s}
  <2> HIDE DEF s, T
  <2> QED
    BY <1>3, FlattenSeqProperties
<1>5. QueueFor(d) = FlattenSeq(s)
  BY DEF QueueFor
<1>6. Listed(d) = UNION {Range(s[j]) : j \in DOMAIN s}
  BY DEF Listed
<1>7. Listed(d) \subseteq Desc
  BY EndStationAssumption
<1>8. QueueFor(d) \in Seq(Range(QueueFor(d)))
  BY <1>4, <1>5, SeqOfRange
<1>9. Range(QueueFor(d)) = Listed(d)
  BY <1>4, <1>5, <1>6
<1> HIDE DEF T, R, l, s
<1>10. PICK L : L = Listed(d)
  OBVIOUS
<1>11. QueueFor(d) \in Seq(L) /\ L \subseteq Desc
  BY <1>7, <1>8, <1>9, <1>10
<1>12. QueueFor(d) \in Seq(Desc)
  BY <1>11
<1> QED
  BY <1>7, <1>9, <1>12

\* Joining two lists, and cutting one in two, loses nothing.
LEMMA JoinLists ==
  ASSUME NEW S, NEW a \in Seq(S), NEW b \in Seq(S)
  PROVE  a \o b \in Seq(S) /\ Range(a \o b) = Range(a) \cup Range(b)
<1>1. a \o b \in Seq(S)
  BY ConcatProperties
<1> QED
  BY <1>1, RangeConcatenation

LEMMA CutList ==
  ASSUME NEW S, NEW p \in Seq(S), NEW n \in 0 .. Len(p)
  PROVE  /\ SubSeq(p, 1, n) \in Seq(S) /\ SubSeq(p, n + 1, Len(p)) \in Seq(S)
         /\ Range(p) = Range(SubSeq(p, 1, n)) \cup Range(SubSeq(p, n + 1, Len(p)))
         /\ Range(p) \subseteq S
<1> DEFINE a == SubSeq(p, 1, n)
           b == SubSeq(p, n + 1, Len(p))
<1>1. a \in Seq(S) /\ b \in Seq(S)
  OBVIOUS
<1>2. a \o b = SubSeq(p, 1, Len(p))
  <2>1. 1 \in 1 .. Len(p) + 1 /\ n \in 1 - 1 .. Len(p) /\ Len(p) \in n .. Len(p)
    OBVIOUS
  <2> QED
    BY <2>1, ConcatAdjacentSubSeq
<1>3. SubSeq(p, 1, Len(p)) = p
  BY SubSeqFull
<1>4. Range(p) \subseteq S
  BY RangeOfSeq
<1> HIDE DEF a, b
<1>5. Range(a \o b) = Range(a) \cup Range(b)
  BY <1>1, JoinLists
<1> QED
  BY <1>1, <1>2, <1>3, <1>4, <1>5 DEF a, b

\* Storing adds one index to a vector.
LEMMA StoredProperties ==
  ASSUME NEW S \in SUBSET Nat, NEW vec \in Seq(S), NEW i \in S, NEW t
  PROVE  /\ Stored(vec, t, i) \in Seq(S)
         /\ Range(Stored(vec, t, i)) = Range(vec) \cup {i}
<1> DEFINE less == {k \in DOMAIN vec : vec[k] < i}
           n == 1 + Cardinality(less)
<1>1. CASE t \in Unsorted
  <2>1. Range(Append(vec, i)) = Range(vec) \cup {i}
    <3>1. \A k \in 1 .. Len(vec) + 1 :
            Append(vec, i)[k] = IF k = Len(vec) + 1 THEN i ELSE vec[k]
      OBVIOUS
    <3>2. DOMAIN Append(vec, i) = 1 .. Len(vec) + 1 /\ DOMAIN vec = 1 .. Len(vec)
      OBVIOUS
    <3>3. PICK v : v = Append(vec, i)
      OBVIOUS
    <3>4. Len(vec) \in Nat
      OBVIOUS
    <3>5. ASSUME NEW x
          PROVE  x \in Range(v) <=> x \in Range(vec) \cup {i}
      BY <3>1, <3>2, <3>3, <3>4 DEF Range
    <3> QED
      BY <3>3, <3>5
  <2> QED
    BY <1>1, <2>1 DEF Stored
<1>2. CASE t \notin Unsorted /\ i \in Range(vec)
  BY <1>2 DEF Stored
<1>3. CASE t \notin Unsorted /\ i \notin Range(vec)
  <2>1. n \in 1 .. Len(vec) + 1
    <3>1. DOMAIN vec = 1 .. Len(vec) /\ Len(vec) \in Nat
      OBVIOUS
    <3>2. IsFiniteSet(1 .. Len(vec)) /\ Cardinality(1 .. Len(vec)) = Len(vec)
      <4>1. PICK m \in Nat : m = Len(vec)
        BY <3>1
      <4>2. IsFiniteSet(1 .. m) /\ Cardinality(1 .. m) = IF 1 > m THEN 0 ELSE m - 1 + 1
        BY FS_Interval
      <4>3. (IF 1 > m THEN 0 ELSE m - 1 + 1) = m
        OBVIOUS
      <4> QED
        BY <4>1, <4>2, <4>3
    <3>3. less \subseteq 1 .. Len(vec)
      BY <3>1
    <3> HIDE DEF less
    <3>4. IsFiniteSet(less) /\ Cardinality(less) <= Len(vec)
      BY <3>2, <3>3, FS_Subset
    <3>5. Cardinality(less) \in Nat
      BY <3>4, FS_CardinalityType
    <3> QED
      BY <3>1, <3>4, <3>5
  <2>2. Stored(vec, t, i) = InsertAt(vec, n, i)
    BY <1>3 DEF Stored
  <2> HIDE DEF n
  <2> DEFINE a == SubSeq(vec, 1, n - 1)
             b == SubSeq(vec, n, Len(vec))
  <2>3. a \in Seq(S) /\ b \in Seq(S) /\ <<i>> \in Seq(S)
    BY <2>1
  <2>4. Range(a) \cup Range(b) = Range(vec)
    <3>1. n - 1 \in 0 .. Len(vec) /\ (n - 1) + 1 = n
      BY <2>1
    <3> QED
      BY <3>1, CutList
  <2>5. Range(<<i>>) = {i}
    BY DEF Range
  <2>6. InsertAt(vec, n, i) = (a \o <<i>>) \o b
    BY DEF InsertAt
  <2> HIDE DEF a, b
  <2> DEFINE e == <<i>>
  <2>7. e \in Seq(S) /\ Range(e) = {i}
    BY <2>3, <2>5
  <2> HIDE DEF e
  <2>8. (a \o e) \o b \in Seq(S)
        /\ Range((a \o e) \o b) = Range(a) \cup {i} \cup Range(b)
    <3>1. a \o e \in Seq(S) /\ Range(a \o e) = Range(a) \cup Range(e)
      BY <2>3, <2>7, JoinLists
    <3>2. PICK c : c = a \o e
      OBVIOUS
    <3>3. c \o b \in Seq(S) /\ Range(c \o b) = Range(c) \cup Range(b)
      <4>1. c \in Seq(S)
        BY <3>1, <3>2
      <4>2. b \in Seq(S)
        BY <2>3
      <4> QED
        BY <4>1, <4>2, JoinLists
    <3> QED
      BY <2>7, <3>1, <3>2, <3>3
  <2>9. InsertAt(vec, n, i) = (a \o e) \o b
    BY <2>6 DEF e
  <2> QED
    BY <2>2, <2>4, <2>8, <2>9
<1> QED
  BY <1>1, <1>2, <1>3

\* The requests of one type at the front of the list: they end somewhere.
LEMMA SubmitLenType ==
  ASSUME NEW p \in Seq(Desc), p # <<>>
  PROVE  SubmitLen(p) \in 1 .. Len(p)
<1> DEFINE others == {k \in Nat : k \in 1 .. Len(p) /\ p[k][1] # p[1][1]}
<1>1. Len(p) \in Nat \ {0}
  OBVIOUS
<1>2. \E n \in 1 .. Len(p) :
        /\ \A k \in 1 .. n : p[k][1] = p[1][1]
        /\ n = Len(p) \/ p[n + 1][1] # p[1][1]
  <2>1. CASE others = {}
    <3>1. \A k \in 1 .. Len(p) : p[k][1] = p[1][1]
      BY <2>1
    <3> QED
      BY <1>1, <3>1
  <2>2. CASE others # {}
    <3>1. PICK m \in others : \A k \in others : m <= k
      <4> HIDE DEF others
      <4>1. others \in SUBSET Nat
        BY DEF others
      <4> QED
        BY <2>2, <4>1, LeastElement
    <3>2. m \in 2 .. Len(p) /\ m - 1 \in 1 .. Len(p) /\ (m - 1) + 1 = m
      BY <3>1
    <3>3. \A k \in 1 .. m - 1 : p[k][1] = p[1][1]
      BY <3>1, <3>2
    <3>4. p[(m - 1) + 1][1] # p[1][1]
      BY <3>1, <3>2
    <3> QED
      BY <3>2, <3>3, <3>4
  <2> QED
    BY <2>1, <2>2
<1> QED
  BY <1>2 DEF SubmitLen
-----------------------------------------------------------------------------
\* Sending reads moves them from one list to the other.
LEMMA SubmitEffect ==
  ASSUME NEW p \in Seq(Desc), NEW fl \in SUBSET Desc, NEW w \in [Desc -> Nat],
         SubmitPending(p, fl, w)
  PROVE  /\ pending' \in Seq(Desc) /\ inflight' \in SUBSET Desc
         /\ wire' \in [Desc -> Nat]
         /\ Range(pending') \cup inflight' = Range(p) \cup fl
         /\ p = <<>> => pending' = <<>> /\ inflight' = fl
<1>1. CASE ~Submits(p, fl)
  BY <1>1 DEF SubmitPending
<1>2. CASE Submits(p, fl)
  <2>1. PICK n : n = SubmitLen(p)
    OBVIOUS
  <2>2. p # <<>> /\ fl = {}
    BY <1>2 DEF Submits
  <2>3. n \in 1 .. Len(p)
    BY <2>1, <2>2, SubmitLenType
  <2>4. PICK sent : sent = Range(SubSeq(p, 1, n))
    OBVIOUS
  <2>5. /\ pending' = SubSeq(p, n + 1, Len(p))
        /\ inflight' = sent
        /\ wire' = Sent(w, sent)
    BY <1>2, <2>1, <2>4 DEF SubmitPending
  <2>6. /\ SubSeq(p, n + 1, Len(p)) \in Seq(Desc)
        /\ Range(p) = sent \cup Range(SubSeq(p, n + 1, Len(p)))
        /\ Range(p) \subseteq Desc
    <3>1. n \in 0 .. Len(p)
      BY <2>3
    <3> QED
      BY <2>4, <3>1, CutList
  <2>7. wire' \in [Desc -> Nat]
    BY <2>5 DEF Sent
  <2> QED
    BY <2>2, <2>5, <2>6, <2>7
<1> QED
  BY <1>1, <1>2

\* The end of the handler of a response: it throws, or the list has moved on.
LEMMA ProcessEffect ==
  ASSUME TypeOK, NEW d \in Desc, wire[d] > 0, NEW p \in Seq(Desc),
         NEW entity \in BOOLEAN, NEW config, Process(d, p, entity, config)
  PROVE  \/ /\ Fail("out_of_range")
            /\ ~entity /\ p # <<>>
         \/ /\ pending' \in Seq(Desc) /\ inflight' \in SUBSET Desc
            /\ wire' \in [Desc -> Nat]
            /\ Range(pending') \cup inflight' = Range(p) \cup UpdateInflight(d)
            /\ p = <<>> => pending' = <<>>
            /\ failed' = failed
            /\ completed' \in BOOLEAN
            /\ completed' => pending' = <<>> /\ inflight' = {}
<1>1. PICK fl, w : fl = UpdateInflight(d) /\ w = [wire EXCEPT ![d] = @ - 1]
  OBVIOUS
<1>2. fl \in SUBSET Desc /\ w \in [Desc -> Nat]
  <2>1. wire \in [Desc -> Nat] /\ inflight \in SUBSET Desc
    BY DEF TypeOK
  <2> QED
    BY <1>1, <2>1 DEF UpdateInflight
<1>3. CASE SubmitThrows(p, fl, entity)
  <2>1. Fail("out_of_range")
    BY <1>1, <1>3 DEF Process
  <2>2. ~entity /\ p # <<>>
    BY <1>3 DEF SubmitThrows, Submits
  <2> QED
    BY <2>1, <2>2
<1>4. CASE ~SubmitThrows(p, fl, entity)
  <2>1. /\ SubmitPending(p, fl, w)
        /\ completed' = ReadCompleted(entity, config, pending', inflight')
        /\ failed' = failed
    BY <1>1, <1>4 DEF Process
  <2>2. /\ pending' \in Seq(Desc) /\ inflight' \in SUBSET Desc
        /\ wire' \in [Desc -> Nat]
        /\ Range(pending') \cup inflight' = Range(p) \cup fl
        /\ p = <<>> => pending' = <<>>
    BY <1>2, <2>1, SubmitEffect
  <2>3. /\ completed' \in BOOLEAN
        /\ completed' => pending' = <<>> /\ inflight' = {}
    BY <2>1 DEF ReadCompleted
  <2> QED
    BY <1>1, <2>1, <2>2, <2>3
<1> QED
  BY <1>3, <1>4

\* The types as sets of descriptors.
LEMMA DescShape ==
  ASSUME NEW d \in Desc
  PROVE  /\ d = <<d[1], d[2]>> /\ d[1] \in Types /\ d[2] \in Indices(d[1])
         /\ Indices(d[1]) \in SUBSET Nat
         /\ d[2] \in {x[2] : x \in Desc}
<1>1. \A x \in Desc : x \in STRING \X Nat
  BY EndStationAssumption
<1>2. d = <<d[1], d[2]>>
  BY <1>1
<1>3. d[1] \in Types /\ d[2] \in Indices(d[1]) /\ d[2] \in {x[2] : x \in Desc}
  BY DEF Types, Indices
<1>4. Indices(d[1]) \in SUBSET Nat
  BY <1>1 DEF Indices
<1> QED
  BY <1>2, <1>3, <1>4

\* With one descriptor of each type that is looked up, what is looked up is the
\* descriptor that has just been read; the lookup fails if its vector is empty.
LEMMA LookupIsOwn ==
  ASSUME OneOfEach, NEW d \in Desc, NEW vecs, NEW config \in BOOLEAN,
         d = Entity \/ config,
         d[1] \in LooksUp => vecs[d[1]] \in Seq(Indices(d[1]))
  PROVE  /\ DeduceFails(d, vecs, config) => d[1] \in LooksUp /\ vecs[d[1]] = <<>>
         /\ d[1] \in LooksUp /\ vecs[d[1]] = <<>> => DeduceFails(d, vecs, config)
         /\ ~DeduceFails(d, vecs, config) => DeduceNext(d, vecs, config) = QueueFor(d)
<1>1. CASE d[1] \in LooksUp /\ vecs[d[1]] # <<>>
  <2>1. PICK vec : vec = vecs[d[1]]
    OBVIOUS
  <2>2. vec \in Seq(Indices(d[1])) /\ vec # <<>>
    BY <1>1, <2>1
  <2>3. \A i \in Indices(d[1]) : i = 0
    BY <1>1 DEF OneOfEach, Indices
  <2>4. d[2] = 0 /\ d = <<d[1], 0>>
    BY <1>1, DescShape DEF OneOfEach
  <2>5. 1 \in DOMAIN vec /\ vec[1] = 0
    BY <2>2, <2>3
  <2>6. Position(d) = 0
    BY <2>4 DEF Position
  <2>7. HasPosition(vecs, d[1], Position(d))
    BY <2>1, <2>5, <2>6 DEF HasPosition
  <2>8. AtPosition(vecs, d[1], Position(d)) = d
    BY <2>1, <2>4, <2>5, <2>6 DEF AtPosition
  <2>9. d # Entity
    BY <1>1 DEF Entity, LooksUp
  <2>10. ConfigFound(config)
    BY <2>9 DEF ConfigFound, OneOfEach
  <2> QED
    BY <1>1, <2>7, <2>8, <2>9, <2>10 DEF DeduceFails, DeduceNext
<1>2. CASE d[1] \in LooksUp /\ vecs[d[1]] = <<>>
  <2>1. d # Entity
    BY <1>2 DEF Entity, LooksUp
  <2>2. ConfigFound(config)
    BY <2>1 DEF ConfigFound, OneOfEach
  <2>3. ~HasPosition(vecs, d[1], Position(d))
    BY <1>2 DEF HasPosition
  <2> QED
    BY <1>2, <2>2, <2>3 DEF DeduceFails
<1>3. CASE d[1] \notin LooksUp
  <2>1. d = Entity \/ ConfigFound(config)
    BY DEF ConfigFound, OneOfEach
  <2>2. ~DeduceFails(d, vecs, config)
    BY <1>3 DEF DeduceFails
  <2>3. CASE d = Entity
    BY <1>3, <2>2, <2>3 DEF DeduceNext
  <2>4. CASE d # Entity
    BY <1>3, <2>1, <2>2, <2>4 DEF DeduceNext
  <2> QED
    BY <1>3, <2>2, <2>3, <2>4
<1> QED
  BY <1>1, <1>2, <1>3

\* The two descriptors that have no vector here.
LEMMA StoredHeads ==
  /\ IsStored(Entity) = entity_read /\ IsStored(Config) = config_read
  /\ IsStored(Entity)' = entity_read' /\ IsStored(Config)' = config_read'
<1>1. Entity # Config
  BY DEF Entity, Config
<1> QED
  BY <1>1 DEF IsStored

\* Storing a descriptor changes the vector of its type only.
LEMMA StoredVecs ==
  ASSUME TypeOK, VecsOK, NEW d \in Desc, NEW v,
         v = [desc_vec EXCEPT ![d[1]] = Stored(@, d[1], d[2])]
  PROVE  /\ v \in [Types -> Seq({x[2] : x \in Desc})]
         /\ \A t \in Types : v[t] \in Seq(Indices(t))
         /\ \A t \in Types : t # d[1] => v[t] = desc_vec[t]
         /\ v[d[1]] # <<>>
         /\ Range(v[d[1]]) = Range(desc_vec[d[1]]) \cup {d[2]}
<1>1. PICK t, i, s : t = d[1] /\ i = d[2] /\ s = desc_vec[t]
  OBVIOUS
<1>2. t \in Types /\ i \in Indices(t) /\ Indices(t) \in SUBSET Nat
  BY <1>1, DescShape
<1>3. desc_vec \in [Types -> Seq({x[2] : x \in Desc})]
  BY DEF TypeOK
<1>4. s \in Seq(Indices(t))
  BY <1>1, <1>2 DEF VecsOK
<1>5. PICK r : r = Stored(s, t, i)
  OBVIOUS
<1>6. r \in Seq(Indices(t)) /\ Range(r) = Range(s) \cup {i}
  <2>1. PICK S : S = Indices(t)
    OBVIOUS
  <2> QED
    BY <1>2, <1>4, <1>5, <2>1, StoredProperties
<1>7. r # <<>>
  BY <1>6 DEF Range
<1>8. v = [desc_vec EXCEPT ![t] = r]
  BY <1>1, <1>5
<1>9. \A u \in Types : v[u] = IF u = t THEN r ELSE desc_vec[u]
  BY <1>3, <1>8
<1>10. Indices(t) \subseteq {x[2] : x \in Desc}
  BY DEF Indices
<1>11. r \in Seq({x[2] : x \in Desc})
  BY <1>6, <1>10
<1>12. v \in [Types -> Seq({x[2] : x \in Desc})]
  <2>1. PICK Q : Q = Seq({x[2] : x \in Desc})
    OBVIOUS
  <2> QED
    BY <1>3, <1>8, <1>11, <2>1
<1>13. \A u \in Types : v[u] \in Seq(Indices(u))
  BY <1>6, <1>9 DEF VecsOK
<1> QED
  BY <1>1, <1>2, <1>6, <1>7, <1>9, <1>12, <1>13

\* The invariant when the poll thread dies, which it does not the first time as
\* long as what lists others can be read.
LEMMA FailInv ==
  ASSUME EInv, NEW how \in Failures \ {"no"}, Fail(how),
         reenumerates # 0 \/ ~ListsReadable',
         gaveUp' \in SUBSET Desc, unreadable' \in SUBSET Desc,
         UNCHANGED <<appReads, reenumerates>>
  PROVE  EInv'
<1>1. TypeOK /\ VecsOK /\ ReadOrder
  BY DEF EInv
<1>2. /\ UNCHANGED <<entity_read, config_read, desc_vec, pending, inflight, wire>>
      /\ failed' = how /\ completed' = FALSE
  BY DEF Fail, vecVars, listVars
<1>3. TypeOK'
  BY <1>1, <1>2 DEF TypeOK
<1>4. VecsOK' /\ ReadOrder'
  BY <1>1, <1>2 DEF VecsOK, ReadOrder
<1>5. Drained' /\ FirstTime' /\ Followed'
  <2>1. FirstTime
    BY DEF EInv
  <2>2. FirstTime'
    BY <1>2, <2>1 DEF FirstTime
  <2> QED
    BY <1>2, <2>2 DEF Drained, Followed
<1> QED
  BY <1>3, <1>4, <1>5 DEF EInv

\* What the handler of a response does to the history.
History(d, answer) ==
  /\ gaveUp' = IF answer = "refused" THEN gaveUp \cup {d} ELSE gaveUp
  /\ unreadable' = IF Cut(d, answer) THEN unreadable \cup {d} ELSE unreadable
  /\ UNCHANGED <<appReads, reenumerates>>

\* The types of the first two descriptors are theirs alone.
LEMMA HeadTypes ==
  ASSUME NEW d \in Desc
  PROVE  /\ d[1] = "ENTITY" <=> d = Entity
         /\ d[1] = "CONFIGURATION" <=> d = Config
         /\ d[1] \in Heads <=> d \in {Entity, Config}
<1>1. d[1] \in Heads <=> d \in {Entity, Config}
  BY EndStationAssumption
<1> QED
  BY <1>1 DEF Heads, Entity, Config

\* A response that is stored, or should have been: the poll thread dies only of a
\* descriptor that lists others and is cut.
LEMMA StoreFailsInv ==
  ASSUME OneOfEach, EInv, NEW d \in Desc, NEW answer \in Answers, Stores(d, answer),
         History(d, answer), Cut(d, answer), d[1] \in Heads \cup LooksUp,
         NEW how \in Failures \ {"no"}, Fail(how)
  PROVE  EInv'
<1>1. gaveUp \in SUBSET Desc /\ unreadable \in SUBSET Desc
  BY DEF EInv, TypeOK
<1>2. gaveUp' \in SUBSET Desc /\ unreadable' \in SUBSET Desc /\ d \in unreadable'
  BY <1>1 DEF History
<1>3. ~ListsReadable'
  BY <1>2 DEF ListsReadable
<1>4. UNCHANGED <<appReads, reenumerates>>
  BY DEF History
<1> QED
  BY <1>2, <1>3, <1>4, FailInv

\* A response that reaches the switch: what it lists joins the list.
LEMMA StoredInv ==
  ASSUME OneOfEach, EInv, NEW d \in Desc, NEW answer \in Answers, failed = "no",
         wire[d] > 0, ProcReadDescRespStored(d, answer), History(d, answer)
  PROVE  EInv'
<1>1. TypeOK /\ VecsOK /\ ReadOrder /\ Drained /\ FirstTime /\ Followed
  BY DEF EInv
<1>2. Stores(d, answer) /\ StoreDescriptor(d) /\ answer # "refused" /\ gaveUp' = gaveUp
  BY DEF ProcReadDescRespStored, Stores, History
<1>3. /\ d # Entity => entity_read
      /\ d \notin {Entity, Config} => config_read
  BY <1>2, HeadTypes DEF StoreDescriptor
<1>4. PICK entity, config, vecs :
        /\ entity = EntityAfter(d, answer) /\ config = ConfigAfter(d, answer)
        /\ vecs = VecsAfter(d, answer)
  OBVIOUS
<1>5. entity \in BOOLEAN /\ config \in BOOLEAN
  BY <1>1, <1>4 DEF EntityAfter, ConfigAfter, TypeOK
<1>6. d[1] \in LooksUp => d[1] \in Implemented /\ d \notin {Entity, Config}
  BY HeadTypes DEF LooksUp, Implemented, Heads
<1>7. /\ vecs \in [Types -> Seq({x[2] : x \in Desc})]
      /\ \A t \in Types : vecs[t] \in Seq(Indices(t))
      /\ \A t \in Types : t # d[1] => vecs[t] = desc_vec[t]
      /\ Adds(d, answer) /\ d[1] \notin Heads =>
           /\ vecs[d[1]] # <<>>
           /\ Range(vecs[d[1]]) = Range(desc_vec[d[1]]) \cup {d[2]}
      /\ ~(Adds(d, answer) /\ d[1] \notin Heads) => vecs = desc_vec
  <2>1. CASE Adds(d, answer) /\ d[1] \notin Heads
    <3>1. vecs = [desc_vec EXCEPT ![d[1]] = Stored(@, d[1], d[2])]
      BY <1>4, <2>1 DEF VecsAfter
    <3> QED
      BY <1>1, <2>1, <3>1, StoredVecs
  <2>2. CASE ~(Adds(d, answer) /\ d[1] \notin Heads)
    BY <1>1, <1>4, <2>2 DEF VecsAfter, TypeOK, VecsOK
  <2> QED
    BY <2>1, <2>2
<1>8. d[1] \in Types /\ d[2] \in {x[2] : x \in Desc}
  BY DescShape
<1>9. CASE StoreFails(d, answer) # "no"
  <2>1. Cut(d, answer) /\ d[1] \in Heads /\ StoreFails(d, answer) = "assertion"
    BY <1>9 DEF StoreFails, OneOfEach
  <2>2. Fail("assertion")
    BY <2>1 DEF ProcReadDescRespStored
  <2> QED
    BY <1>2, <2>1, <2>2, StoreFailsInv DEF Failures
<1>10. CASE StoreFails(d, answer) = "no" /\ DeduceFails(d, vecs, config)
  <2>1. d[1] \in LooksUp
    BY <1>10 DEF DeduceFails
  <2>2. config
    BY <1>3, <1>4, <1>6, <2>1 DEF ConfigAfter
  <2>3. vecs[d[1]] = <<>>
    BY <1>5, <1>7, <1>8, <1>10, <2>1, <2>2, LookupIsOwn
  <2>4. ~Adds(d, answer)
    BY <1>6, <1>7, <2>1, <2>3, HeadTypes
  <2>5. Cut(d, answer)
    <3>1. Builds(d, answer)
      BY <1>2, <1>6, <2>1 DEF Builds
    <3> QED
      BY <1>2, <2>4, <3>1 DEF Adds, Cut, Answers
  <2>6. Fail("null_pointer")
    BY <1>4, <1>10 DEF ProcReadDescRespStored
  <2> QED
    BY <1>2, <2>1, <2>5, <2>6, StoreFailsInv DEF Failures
<1>11. CASE StoreFails(d, answer) = "no" /\ ~DeduceFails(d, vecs, config)
  <2>1. /\ d \in {Entity, Config} => Adds(d, answer) \/ (d = Entity /\ entity_read)
        /\ entity /\ (d = Entity \/ config)
    <3>1. CASE d \in {Entity, Config}
      <4>1. d[1] \in Heads /\ d[1] \in Implemented
        BY <3>1, HeadTypes DEF Implemented
      <4>2. ~Cut(d, answer)
        BY <1>11, <4>1 DEF StoreFails
      <4>3. Adds(d, answer) \/ (d = Entity /\ entity_read)
        BY <1>2, <4>1, <4>2 DEF Adds, Cut, Builds, Answers
      <4> QED
        BY <1>3, <1>4, <3>1, <4>3 DEF EntityAfter, ConfigAfter
    <3>2. CASE d \notin {Entity, Config}
      BY <1>3, <1>4, <3>2 DEF EntityAfter, ConfigAfter
    <3> QED
      BY <3>1, <3>2
  <2>2. DeduceNext(d, vecs, config) = QueueFor(d)
    BY <1>5, <1>7, <1>8, <1>11, <2>1, LookupIsOwn
  <2>3. PICK p : p = pending \o QueueFor(d)
    OBVIOUS
  <2>4. p \in Seq(Desc) /\ Range(p) = Range(pending) \cup Listed(d)
    BY <1>1, <2>3, QueueForListed, JoinLists DEF TypeOK
  <2>5. /\ Process(d, p, entity, config)
        /\ failed' = "no" => entity_read' = entity /\ config_read' = config /\ desc_vec' = vecs
    BY <1>4, <1>11, <2>2, <2>3 DEF ProcReadDescRespStored
  <2>6. /\ pending' \in Seq(Desc) /\ inflight' \in SUBSET Desc
        /\ wire' \in [Desc -> Nat]
        /\ Range(pending') \cup inflight' = Range(p) \cup UpdateInflight(d)
        /\ failed' = "no"
        /\ completed' \in BOOLEAN
        /\ completed' => pending' = <<>> /\ inflight' = {}
    BY <1>1, <1>5, <2>1, <2>4, <2>5, ProcessEffect
  <2>7. entity_read' = TRUE /\ config_read' = config /\ desc_vec' = vecs
    BY <1>5, <2>1, <2>5, <2>6
  <2>8. ASSUME NEW x \in Desc
        PROVE  IsStored(x)' <=> IsStored(x) \/ (x = d /\ Adds(d, answer))
    <3>1. CASE x = Entity
      <4>1. entity_read \in BOOLEAN
        BY <1>1 DEF TypeOK
      <4> QED
        BY <1>3, <2>1, <2>7, <3>1, <4>1, StoredHeads
    <3>2. CASE x = Config
      <4>1. config_read \in BOOLEAN /\ (config <=> config_read \/ (Adds(d, answer) /\ d = Config))
        BY <1>1, <1>4 DEF TypeOK, ConfigAfter
      <4> QED
        BY <2>7, <3>2, <4>1, StoredHeads
    <3>3. CASE x \notin {Entity, Config}
      <4>1. IsStored(x) <=> x[2] \in Range(desc_vec[x[1]])
        BY <3>3 DEF IsStored
      <4>2. IsStored(x)' <=> x[2] \in Range(vecs[x[1]])
        BY <2>7, <3>3 DEF IsStored
      <4>3. x[1] \in Types /\ (x = d <=> x[1] = d[1] /\ x[2] = d[2])
        BY DescShape
      <4>4. CASE ~(Adds(d, answer) /\ d[1] \notin Heads)
        <5>1. ~(x = d /\ Adds(d, answer))
          BY <3>3, <4>4, HeadTypes
        <5> QED
          BY <1>7, <4>1, <4>2, <4>4, <5>1
      <4>5. CASE Adds(d, answer) /\ d[1] \notin Heads /\ x[1] = d[1]
        BY <1>7, <4>1, <4>2, <4>3, <4>5
      <4>6. CASE Adds(d, answer) /\ d[1] \notin Heads /\ x[1] # d[1]
        BY <1>7, <4>1, <4>2, <4>3, <4>6
      <4> QED
        BY <4>4, <4>5, <4>6
    <3> QED
      BY <3>1, <3>2, <3>3
  <2>9. d \in inflight \ UpdateInflight(d) => IsStored(d)' \/ d \in unreadable'
    <3>1. SUFFICES ASSUME d[1] \in Implemented
                   PROVE  IsStored(d)' \/ d \in unreadable'
      BY DEF UpdateInflight
    <3>2. Adds(d, answer) \/ Cut(d, answer) \/ (d = Entity /\ entity_read)
      BY <1>2, <3>1 DEF Adds, Cut, Builds, Answers
    <3>3. Cut(d, answer) => d \in unreadable'
      BY DEF History
    <3>4. d = Entity /\ entity_read => IsStored(d)
      BY StoredHeads
    <3> QED
      BY <2>8, <3>2, <3>3, <3>4
  <2>10. unreadable \subseteq unreadable' /\ unreadable' \in SUBSET Desc
    BY <1>1 DEF History, TypeOK
  <2>11. Followed'
    <3> SUFFICES ASSUME NEW x \in Desc, IsStored(x)', NEW c \in Listed(x)
                 PROVE  Handled(c)'
      BY DEF Followed
    <3>1. c \in Desc
      BY QueueForListed
    <3>2. c \in Range(p) \/ IsStored(c) \/ c \in inflight \/ c \in gaveUp \cup unreadable
      <4>1. CASE x = d
        BY <2>4, <4>1
      <4>2. CASE IsStored(x)
        <5>1. Handled(c)
          BY <1>1, <4>2 DEF Followed
        <5> QED
          BY <2>4, <5>1 DEF Handled
      <4> QED
        BY <2>8, <4>1, <4>2
    <3>3. c \in inflight => c \in UpdateInflight(d) \/ c = d
      BY DEF UpdateInflight
    <3> QED
      BY <1>2, <2>6, <2>8, <2>9, <2>10, <3>1, <3>2, <3>3 DEF Handled
  <2>12. TypeOK'
    BY <1>1, <1>2, <1>5, <1>7, <2>6, <2>7, <2>10 DEF TypeOK, Failures, History
  <2>13. VecsOK'
    BY <1>7, <2>7 DEF VecsOK
  <2>14. ReadOrder'
    <3>1. \A t \in Types : vecs[t] # <<>> => config
      <4>1. config_read => config
        BY <1>4 DEF ConfigAfter
      <4>2. d \notin {Entity, Config} => config
        BY <2>1
      <4>3. d \in {Entity, Config} => vecs = desc_vec
        BY <1>7, HeadTypes
      <4> QED
        BY <1>1, <4>1, <4>2, <4>3 DEF ReadOrder
    <3> QED
      BY <2>7, <3>1 DEF ReadOrder
  <2>15. Drained' /\ FirstTime'
    BY <2>6, <2>7 DEF Drained, FirstTime
  <2> QED
    BY <2>11, <2>12, <2>13, <2>14, <2>15 DEF EInv
<1> QED
  BY <1>9, <1>10, <1>11

\* What stays the same when nothing is stored.
LEMMA SameStored ==
  ASSUME NEW x, UNCHANGED vecVars
  PROVE  IsStored(x)' = IsStored(x)
BY DEF IsStored, vecVars

\* The invariant when the lists move on and nothing is stored: what leaves them
\* has been given up, or was not needed.
LEMMA ListsInv ==
  ASSUME OneOfEach, EInv, UNCHANGED vecVars, failed = "no", failed' = "no",
         NEW gone \in SUBSET inflight,
         pending' \in Seq(Desc), inflight' \in SUBSET Desc, wire' \in [Desc -> Nat],
         Range(pending') \cup inflight' = Range(pending) \cup (inflight \ gone),
         pending = <<>> => pending' = <<>>,
         completed' \in BOOLEAN,
         completed' => pending' = <<>> /\ inflight' = {},
         gaveUp' \in SUBSET Desc, gaveUp \subseteq gaveUp', unreadable' = unreadable,
         \A x \in Desc : IsStored(x) =>
           \A c \in gone \cap Listed(x) : IsStored(c) \/ c \in gaveUp',
         appReads' \in 0 .. MaxAppReads, reenumerates' = reenumerates
  PROVE  EInv'
<1>1. TypeOK /\ VecsOK /\ ReadOrder /\ Drained /\ FirstTime /\ Followed
  BY DEF EInv
<1>2. UNCHANGED <<entity_read, config_read, desc_vec>>
  BY DEF vecVars
<1>3. TypeOK'
  BY <1>1, <1>2 DEF TypeOK, Failures
<1>4. VecsOK' /\ ReadOrder'
  BY <1>1, <1>2 DEF VecsOK, ReadOrder
<1>5. Drained' /\ FirstTime'
  BY <1>1, <1>2 DEF Drained, FirstTime
<1>6. Followed'
  <2> SUFFICES ASSUME NEW x \in Desc, IsStored(x)', NEW c \in Listed(x)
               PROVE  Handled(c)'
    BY DEF Followed
  <2>1. IsStored(x) /\ IsStored(c)' = IsStored(c)
    BY SameStored
  <2>2. \/ IsStored(c) \/ c \in Range(pending) \/ c \in inflight
        \/ c \in gaveUp \cup unreadable
    BY <1>1, <2>1 DEF Followed, Handled
  <2>3. \/ IsStored(c) \/ c \in Range(pending') \/ c \in inflight'
        \/ c \in gaveUp' \cup unreadable'
    BY <2>1, <2>2
  <2> QED
    BY <2>1, <2>3 DEF Handled
<1> QED
  BY <1>3, <1>4, <1>5, <1>6 DEF EInv

\* A response that is not stored: refused, or nothing stored waits for it.
LEMMA IgnoredInv ==
  ASSUME OneOfEach, EInv, NEW d \in Desc, NEW answer \in Answers, failed = "no",
         wire[d] > 0, ProcReadDescRespIgnored(d, answer), History(d, answer)
  PROVE  EInv'
<1>1. TypeOK /\ VecsOK /\ ReadOrder /\ Drained /\ FirstTime /\ Followed
  BY DEF EInv
<1>2. Process(d, pending, entity_read, config_read) /\ ~Stores(d, answer)
  BY DEF ProcReadDescRespIgnored
<1>3. /\ gaveUp' \in SUBSET Desc /\ gaveUp \subseteq gaveUp'
      /\ unreadable' = unreadable /\ unreadable \in SUBSET Desc
      /\ UNCHANGED <<appReads, reenumerates>>
  BY <1>1, <1>2 DEF TypeOK, History, Cut, Builds
<1>4. CASE Fail("out_of_range") /\ ~entity_read /\ pending # <<>>
  <2>1. reenumerates # 0
    BY <1>1, <1>4 DEF FirstTime
  <2> QED
    BY <1>3, <1>4, <2>1, FailInv DEF Failures
<1>5. CASE ~(Fail("out_of_range") /\ ~entity_read /\ pending # <<>>)
  <2>1. /\ pending' \in Seq(Desc) /\ inflight' \in SUBSET Desc
        /\ wire' \in [Desc -> Nat]
        /\ Range(pending') \cup inflight' = Range(pending) \cup UpdateInflight(d)
        /\ pending = <<>> => pending' = <<>>
        /\ failed' = failed
        /\ completed' \in BOOLEAN
        /\ completed' => pending' = <<>> /\ inflight' = {}
    <3>1. entity_read \in BOOLEAN /\ pending \in Seq(Desc)
      BY <1>1 DEF TypeOK
    <3> QED
      BY <1>1, <1>2, <1>5, <3>1, ProcessEffect
  <2>2. UNCHANGED vecVars
    BY <2>1 DEF ProcReadDescRespIgnored
  <2>3. PICK gone : gone = inflight \ UpdateInflight(d)
    OBVIOUS
  <2>4. ASSUME NEW x \in Desc, IsStored(x), d \in Listed(x)
        PROVE  IsStored(d) \/ d \in gaveUp'
    <3>1. CASE answer = "refused"
      BY <3>1 DEF History
    <3>2. CASE answer # "refused"
      <4>1. ~StoreDescriptor(d)
        BY <1>2, <3>2 DEF Stores
      <4>2. d # Entity
        BY <4>1 DEF StoreDescriptor, Entity
      <4>3. entity_read /\ (x # Entity => config_read)
        <5>1. CASE x \in {Entity, Config}
          BY <1>1, <2>4, <5>1, StoredHeads DEF ReadOrder
        <5>2. CASE x \notin {Entity, Config}
          <6>1. x[2] \in Range(desc_vec[x[1]]) /\ x[1] \in Types
            BY <2>4, <5>2, DescShape DEF IsStored
          <6>2. desc_vec[x[1]] # <<>>
            BY <6>1 DEF Range
          <6> QED
            BY <1>1, <6>1, <6>2 DEF ReadOrder
        <5> QED
          BY <5>1, <5>2
      <4>4. CASE d = Config
        BY <4>1, <4>2, <4>3, <4>4, StoredHeads DEF StoreDescriptor, Config
      <4>5. CASE d # Config
        <5>1. d[1] # "CONFIGURATION"
          BY <4>5, HeadTypes
        <5>2. x # Entity
          BY <2>4, <4>5, EndStationAssumption
        <5> QED
          BY <4>1, <4>2, <4>3, <5>1, <5>2 DEF StoreDescriptor
      <4> QED
        BY <4>4, <4>5
    <3> QED
      BY <3>1, <3>2
  <2>5. appReads' \in 0 .. MaxAppReads /\ reenumerates' = reenumerates
    BY <1>1, <1>3 DEF TypeOK
  <2>6. gone \in SUBSET inflight /\ inflight \ gone = UpdateInflight(d) /\ gone \subseteq {d}
    BY <2>3 DEF UpdateInflight
  <2>7. \A x \in Desc : IsStored(x) =>
          \A c \in gone \cap Listed(x) : IsStored(c) \/ c \in gaveUp'
    BY <2>4, <2>6
  <2>8. failed' = "no"
    BY <2>1
  <2> QED
    BY <1>3, <2>1, <2>2, <2>5, <2>6, <2>7, <2>8, ListsInv
<1> QED
  BY <1>4, <1>5

\* Reads in flight that are late are given up, and the next ones are sent.
LEMMA TickInv ==
  ASSUME OneOfEach, EInv, NEW late, TimeTick(late)
  PROVE  EInv'
<1>1. TypeOK /\ VecsOK /\ ReadOrder /\ Drained /\ FirstTime /\ Followed
  BY DEF EInv
<1>2. /\ failed = "no" /\ late \in SUBSET inflight
      /\ gaveUp' = gaveUp \cup late /\ UNCHANGED <<appReads, reenumerates, unreadable>>
  BY DEF TimeTick
<1>3. gaveUp' \in SUBSET Desc /\ unreadable' \in SUBSET Desc
  BY <1>1, <1>2 DEF TypeOK
<1>4. CASE SubmitThrows(pending, inflight \ late, entity_read)
  <2>1. Fail("out_of_range") /\ ~entity_read /\ pending # <<>>
    BY <1>4 DEF TimeTick, SubmitThrows, Submits
  <2>2. reenumerates # 0
    BY <1>1, <2>1 DEF FirstTime
  <2> QED
    BY <1>2, <1>3, <2>1, <2>2, FailInv DEF Failures
<1>5. CASE ~SubmitThrows(pending, inflight \ late, entity_read)
  <2>1. /\ SubmitPending(pending, inflight \ late, wire)
        /\ completed' = FALSE /\ UNCHANGED vecVars /\ failed' = failed
    BY <1>5 DEF TimeTick
  <2>2. pending \in Seq(Desc) /\ inflight \ late \in SUBSET Desc /\ wire \in [Desc -> Nat]
    BY <1>1 DEF TypeOK
  <2>3. /\ pending' \in Seq(Desc) /\ inflight' \in SUBSET Desc
        /\ wire' \in [Desc -> Nat]
        /\ Range(pending') \cup inflight' = Range(pending) \cup (inflight \ late)
        /\ pending = <<>> => pending' = <<>>
    BY <2>1, <2>2, SubmitEffect
  <2>4. appReads' \in 0 .. MaxAppReads /\ reenumerates' = reenumerates
    BY <1>1, <1>2 DEF TypeOK
  <2> QED
    BY <1>2, <1>3, <2>1, <2>3, <2>4, ListsInv
<1> QED
  BY <1>4, <1>5

\* Re-enumeration: nothing is stored any more, and so nothing is listed.
LEMMA ReenumerateInv ==
  ASSUME EInv, Reenumerate
  PROVE  EInv'
<1>1. TypeOK
  BY DEF EInv
<1>2. /\ failed = "no" /\ reenumerates' = reenumerates + 1
      /\ entity_read' = FALSE /\ config_read' = FALSE /\ desc_vec' = NoVecs
      /\ wire' = Sent(wire, {Entity}) /\ gaveUp' = {} /\ unreadable' = {}
      /\ completed' = FALSE
      /\ UNCHANGED <<pending, inflight, failed, appReads>>
      /\ reenumerates < MaxReenumerate
  BY DEF Reenumerate, listVars
<1>3. \A t \in Types : desc_vec'[t] = <<>>
  BY <1>2 DEF NoVecs
<1>4. TypeOK'
  <2>1. desc_vec' \in [Types -> Seq({x[2] : x \in Desc})]
    BY <1>2 DEF NoVecs
  <2>2. wire' \in [Desc -> Nat]
    BY <1>1, <1>2 DEF TypeOK, Sent
  <2>3. reenumerates' \in 0 .. MaxReenumerate
    BY <1>1, <1>2, EndStationAssumption DEF TypeOK
  <2> QED
    BY <1>1, <1>2, <2>1, <2>2, <2>3 DEF TypeOK
<1>5. VecsOK' /\ ReadOrder'
  <2>1. \A t \in Types : <<>> \in Seq(Indices(t))
    OBVIOUS
  <2>2. VecsOK'
    BY <1>3, <2>1 DEF VecsOK
  <2> QED
    BY <1>2, <1>3, <2>2 DEF ReadOrder
<1>6. Drained' /\ FirstTime'
  BY <1>1, <1>2 DEF Drained, FirstTime, TypeOK
<1>7. \A x \in Desc : ~IsStored(x)'
  <2> TAKE x \in Desc
  <2>1. CASE x \in {Entity, Config}
    BY <1>2, <2>1, StoredHeads
  <2>2. CASE x \notin {Entity, Config}
    <3>1. IsStored(x)' <=> x[2] \in Range(desc_vec'[x[1]])
      BY <2>2 DEF IsStored
    <3>2. desc_vec'[x[1]] = <<>>
      BY <1>3, DescShape
    <3> QED
      BY <3>1, <3>2 DEF Range
  <2> QED
    BY <2>1, <2>2
<1>8. Followed'
  BY <1>7 DEF Followed
<1> QED
  BY <1>4, <1>5, <1>6, <1>8 DEF EInv
-----------------------------------------------------------------------------
LEMMA InitEInv ==
  ASSUME Init
  PROVE  EInv
<1>1. \A t \in Types : desc_vec[t] = <<>>
  BY DEF Init, NoVecs
<1>2. TypeOK
  <2>1. desc_vec \in [Types -> Seq({x[2] : x \in Desc})]
    BY DEF Init, NoVecs
  <2>2. wire \in [Desc -> Nat] /\ pending \in Seq(Desc)
    BY DEF Init
  <2>3. appReads \in 0 .. MaxAppReads /\ reenumerates \in 0 .. MaxReenumerate
    BY EndStationAssumption DEF Init
  <2> QED
    BY <2>1, <2>2, <2>3 DEF Init, TypeOK, Failures
<1>3. VecsOK /\ ReadOrder /\ Drained /\ FirstTime
  <2>1. \A t \in Types : <<>> \in Seq(Indices(t))
    OBVIOUS
  <2>2. VecsOK
    BY <1>1, <2>1 DEF VecsOK
  <2> QED
    BY <1>1, <2>2 DEF Init, ReadOrder, Drained, FirstTime
<1>4. \A x \in Desc : ~IsStored(x)
  <2> TAKE x \in Desc
  <2>1. CASE x \in {Entity, Config}
    BY <2>1, StoredHeads DEF Init
  <2>2. CASE x \notin {Entity, Config}
    <3>1. IsStored(x) <=> x[2] \in Range(desc_vec[x[1]])
      BY <2>2 DEF IsStored
    <3>2. desc_vec[x[1]] = <<>>
      BY <1>1, DescShape
    <3> QED
      BY <3>1, <3>2 DEF Range
  <2> QED
    BY <2>1, <2>2
<1> QED
  BY <1>2, <1>3, <1>4 DEF EInv, Followed

LEMMA NextEInv ==
  ASSUME OneOfEach, EInv, [Next]_esVars
  PROVE  EInv'
<1>1. TypeOK /\ VecsOK /\ ReadOrder /\ Drained /\ FirstTime /\ Followed
  BY DEF EInv
<1>2. ASSUME NEW d \in Desc, NEW answer \in Answers, RcvdReadDesc(d, answer)
      PROVE  EInv'
  BY <1>2, StoredInv, IgnoredInv DEF RcvdReadDesc, History
<1>3. ASSUME NEW d \in Desc, Lose(d) \/ AppRead(d)
      PROVE  EInv'
  <2>1. /\ UNCHANGED <<vecVars, pending, inflight, gaveUp, unreadable, reenumerates>>
        /\ failed = "no" /\ failed' = "no" /\ completed' = FALSE
    BY <1>3 DEF Lose, AppRead, listVars
  <2>2. wire' \in [Desc -> Nat]
    <3>1. CASE Lose(d)
      BY <1>1, <3>1 DEF Lose, TypeOK
    <3>2. CASE AppRead(d)
      BY <1>1, <3>2 DEF AppRead, TypeOK
    <3> QED
      BY <1>3, <3>1, <3>2
  <2>3. appReads' \in 0 .. MaxAppReads
    <3>1. appReads \in 0 .. MaxAppReads /\ MaxAppReads \in Nat
      BY <1>1, EndStationAssumption DEF TypeOK
    <3> QED
      BY <1>3, <3>1 DEF Lose, AppRead
  <2>4. pending \in Seq(Desc) /\ inflight \in SUBSET Desc /\ gaveUp \in SUBSET Desc
    BY <1>1 DEF TypeOK
  <2>5. PICK gone \in SUBSET inflight : gone = {}
    OBVIOUS
  <2> QED
    BY <2>1, <2>2, <2>3, <2>4, <2>5, ListsInv
<1>4. CASE Tick
  BY <1>4, TickInv DEF Tick
<1>5. CASE Reenumerate
  BY <1>5, ReenumerateInv
<1>6. CASE UNCHANGED esVars
  <2>1. UNCHANGED <<vecVars, pending, inflight, gaveUp, unreadable, reenumerates,
                    appReads, wire, failed, completed>>
    BY <1>6 DEF esVars, listVars, netVars
  <2>2. UNCHANGED <<entity_read, config_read, desc_vec>>
    BY <2>1 DEF vecVars
  <2>3. TypeOK' /\ VecsOK' /\ ReadOrder' /\ Drained' /\ FirstTime'
    BY <1>1, <2>1, <2>2 DEF TypeOK, VecsOK, ReadOrder, Drained, FirstTime, ListsReadable
  <2>4. Followed'
    BY <1>1, <2>1, SameStored DEF Followed, Handled
  <2> QED
    BY <2>3, <2>4 DEF EInv
<1> QED
  BY <1>2, <1>3, <1>4, <1>5, <1>6 DEF Next

\* The inductive invariant, for every entity with one descriptor of each type
\* that is looked up by position.
THEOREM EnumerationInvariant ==
  ASSUME OneOfEach
  PROVE  Spec => []EInv
<1>1. Init => EInv
  BY InitEInv
<1>2. EInv /\ [Next]_esVars => EInv'
  BY NextEInv
<1> QED
  BY <1>1, <1>2, PTL DEF Spec

\* Nothing that a stored descriptor lists is forgotten: it is stored, waits to be
\* read, is being read, was given up or came and could not be parsed, whatever is
\* lost, late or repeated.
THEOREM NothingIsForgotten ==
  ASSUME OneOfEach
  PROVE  Spec => []NothingForgotten
<1>1. EInv => NothingForgotten
  BY DEF EInv, Followed, Handled, NothingForgotten
<1> QED
  BY <1>1, EnumerationInvariant, PTL

\* END_STATION_READ_COMPLETED is posted only when everything that was listed is
\* stored, was given up, or came and could not be parsed.
THEOREM CompletedIsComplete ==
  ASSUME OneOfEach
  PROVE  Spec => []CompletedMeansRead
<1>1. EInv => CompletedMeansRead
  <2> SUFFICES ASSUME EInv, completed /\ failed = "no", NEW d \in Desc, IsStored(d),
                      NEW c \in Listed(d)
               PROVE  IsStored(c) \/ c \in gaveUp \cup unreadable
    BY DEF CompletedMeansRead
  <2>1. pending = <<>> /\ inflight = {}
    BY DEF EInv, Drained
  <2>2. Handled(c)
    BY DEF EInv, Followed
  <2> QED
    BY <2>1, <2>2 DEF Handled, Range
<1> QED
  BY <1>1, EnumerationInvariant, PTL

\* The first enumeration never looks up a descriptor that is not there, unless one
\* that lists others was too short to be parsed.
THEOREM FirstEnumerationNeverFails ==
  ASSUME OneOfEach
  PROVE  Spec => []NeverFailsAtFirst
<1>1. EInv => NeverFailsAtFirst
  BY DEF EInv, FirstTime, NeverFailsAtFirst, NeverFails
<1> QED
  BY <1>1, EnumerationInvariant, PTL
=============================================================================
