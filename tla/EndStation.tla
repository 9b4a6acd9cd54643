----------------------------- MODULE EndStation -----------------------------
(***************************************************************************)
(* The enumeration of one end station (end_station_imp.cpp), with the      *)
(* descriptor vectors of entity_descriptor_imp.cpp and                     *)
(* configuration_descriptor_imp.cpp.                                       *)
(*                                                                         *)
(* The library reads the ENTITY descriptor, and then every descriptor that *)
(* a descriptor already read lists: background_read_deduce_next queues the *)
(* reads, background_read_submit_pending sends them, one descriptor type   *)
(* at a time, and a read is given up after 750 ms.  When nothing is left   *)
(* END_STATION_READ_COMPLETED is posted.  All of it runs in the poll       *)
(* thread.                                                                 *)
(*                                                                         *)
(* The entity is the constant Lists: what each of its descriptors lists.   *)
(* Lost and late responses are modelled by wire, the responses that may    *)
(* still arrive.  An answer is good, refused, or cut: its status is        *)
(* SUCCESS and its type and index can be read, but it is too short for the *)
(* parser of its type.  gaveUp, unreadable and completed are history: the  *)
(* reads that timed out or were refused, those that were cut, and whether  *)
(* the last step posted READ_COMPLETED.  Assertions are compiled in, as    *)
(* they are unless the build type is Release or MinSizeRel.                *)
(***************************************************************************)
EXTENDS Integers, Sequences, FiniteSets, SequencesExt

CONSTANTS
  Desc,            \* the entity's descriptors, as <<type, index>>
  Lists,           \* [Desc -> Seq([type, base, count])]
  CurrentConfig,   \* current_configuration of the ENTITY descriptor
  MaxAppReads,     \* bound on responses nothing in the lists waits for
  MaxReenumerate   \* bound on calls of end_station_reenumerate

Entity == <<"ENTITY", 0>>
Config == <<"CONFIGURATION", 0>>
Types  == {d[1] : d \in Desc}

\* The types whose parser asserts that it succeeds; the others' throws.
Heads == {"ENTITY", "CONFIGURATION"}

\* Types whose children are looked up through the vector of the type.
LooksUp == {"AUDIO_UNIT", "STREAM_PORT_INPUT", "STREAM_PORT_OUTPUT", "LOCALE"}

\* The types that proc_read_desc_resp stores; another is "not yet implemented".
Implemented == Heads \cup LooksUp \cup
  {"STREAM_INPUT", "STREAM_OUTPUT", "JACK_INPUT", "JACK_OUTPUT", "AVB_INTERFACE",
   "CLOCK_SOURCE", "MEMORY_OBJECT", "STRINGS", "AUDIO_CLUSTER", "AUDIO_MAP",
   "CLOCK_DOMAIN", "CONTROL", "EXTERNAL_PORT_INPUT", "EXTERNAL_PORT_OUTPUT"}

Answers == {"good", "refused", "cut"}

\* The descriptors that a run of requests [type, base, count] names, in order.
Requested(r) == [i \in 1 .. r.count |-> <<r.type, r.base + i - 1>>]

Listed(d) == UNION {Range(Requested(Lists[d][j])) : j \in DOMAIN Lists[d]}

ASSUME EndStationAssumption ==
  /\ Desc \subseteq STRING \X Nat
  /\ Lists \in [Desc -> Seq([type : STRING, base : Nat, count : Nat])]
  /\ {Entity, Config} = {d \in Desc : d[1] \in Heads}
  /\ Listed(Entity) = {Config}
  /\ \A d \in Desc : Lists[d] # <<>> => d[1] \in Heads \cup LooksUp
  /\ \A d \in Desc : Listed(d) \subseteq Desc \ {Entity}
  /\ CurrentConfig \in Nat
  /\ MaxAppReads \in Nat
  /\ MaxReenumerate \in Nat

VARIABLES
  entity_read,   \* entity_desc_vec holds the ENTITY descriptor
  config_read,   \* config_desc_vec holds the CONFIGURATION descriptor
  desc_vec,      \* the other vectors: the indices stored, by type
  pending,       \* m_backbround_read_pending
  inflight,      \* m_backbround_read_inflight
  failed,        \* how the poll thread died, or "no"
  wire,          \* responses that may arrive, by descriptor
  appReads,      \* such responses so far
  reenumerates,  \* re-enumerations so far
  gaveUp,
  unreadable,
  completed

listVars == <<pending, inflight>>
vecVars  == <<entity_read, config_read, desc_vec>>
netVars  == <<wire, appReads, reenumerates>>
esVars   == <<vecVars, listVars, netVars, failed, gaveUp, unreadable, completed>>

Failures == {"no", "null_pointer", "out_of_range", "assertion"}

\* The vectors of stream ports are filled by push_back alone.
Unsorted == {"STREAM_PORT_INPUT", "STREAM_PORT_OUTPUT"}
NoVecs   == [t \in Types |-> <<>>]
-----------------------------------------------------------------------------
(***************************************************************************)
(* The descriptor vectors.                                                 *)
(***************************************************************************)
\* store_..._desc: add_or_replace_descriptor_and_sort, or push_back.
Stored(vec, t, i) ==
  IF t \in Unsorted THEN Append(vec, i)
  ELSE IF i \in Range(vec) THEN vec
  ELSE InsertAt(vec, 1 + Cardinality({k \in DOMAIN vec : vec[k] < i}), i)

\* Whether the response to d is stored, given what has been read.
StoreDescriptor(d) ==
  CASE d = Entity -> TRUE
    [] d[1] = "CONFIGURATION" -> entity_read /\ ~config_read
    [] OTHER -> entity_read /\ config_read

Stores(d, answer) == answer # "refused" /\ StoreDescriptor(d)

\* A case of the switch builds the descriptor, for ENTITY only the first time;
\* a type without a case is only logged.
Builds(d, answer) ==
  Stores(d, answer) /\ d[1] \in Implemented /\ ~(d = Entity /\ entity_read)

Adds(d, answer) == Builds(d, answer) /\ answer = "good"
Cut(d, answer)  == Builds(d, answer) /\ answer = "cut"

\* The constructor of the first two descriptors asserts; what the others throw
\* is caught, and the descriptor is not stored.  Storing goes through the
\* current configuration.
StoreFails(d, answer) ==
  CASE Cut(d, answer) /\ d[1] \in Heads -> "assertion"
    [] Adds(d, answer) /\ d[1] \notin Heads /\ CurrentConfig # 0 -> "null_pointer"
    [] OTHER -> "no"

\* The vectors after the switch.
EntityAfter(d, answer) == entity_read \/ (Adds(d, answer) /\ d = Entity)
ConfigAfter(d, answer) == config_read \/ (Adds(d, answer) /\ d = Config)
VecsAfter(d, answer) ==
  IF Adds(d, answer) /\ d[1] \notin Heads
  THEN [desc_vec EXCEPT ![d[1]] = Stored(@, d[1], d[2])]
  ELSE desc_vec

\* get_config_desc_by_index(current_config_desc): only CONFIGURATION 0 is read.
ConfigFound(config) == config /\ CurrentConfig = 0

\* The descriptor at a position of the vector of its type; none if too short.
HasPosition(vecs, t, pos) == pos + 1 \in DOMAIN vecs[t]
AtPosition(vecs, t, pos)  == <<t, vecs[t][pos + 1]>>
-----------------------------------------------------------------------------
(***************************************************************************)
(* Background reads.                                                       *)
(***************************************************************************)
\* Mutant: the loop ends one too early.
QueueFor_short(d) ==
  FlattenSeq([j \in DOMAIN Lists[d] |->
    Requested([Lists[d][j] EXCEPT !.count = @ - 1])])

\* queue_background_read_request for every run that descriptor d lists.
QueueFor(d) == FlattenSeq([j \in DOMAIN Lists[d] |-> Requested(Lists[d][j])])

\* The position looked at: the index just read, or 0 for a locale.
Position_onebased(d) == d[2] + 1                                 \* mutant
Position(d)  == IF d[1] = "LOCALE" THEN 0 ELSE d[2]

\* background_read_deduce_next, with the vectors as they are after the switch,
\* whether or not the descriptor was stored: it reads through a null pointer if
\* the vector is shorter than the index.
DeduceFails(d, vecs, config) ==
  /\ ConfigFound(config)
  /\ d[1] \in LooksUp
  /\ ~HasPosition(vecs, d[1], Position(d))

DeduceNext(d, vecs, config) ==
  CASE d # Entity /\ ~ConfigFound(config) -> <<>>
    [] ConfigFound(config) /\ d[1] \in LooksUp ->
         QueueFor(AtPosition(vecs, d[1], Position(d)))
    [] OTHER -> QueueFor(d)

\* background_read_submit_pending sends the requests at the front of the list
\* that have the type of the first, if nothing is in flight.
SubmitLen(p) ==
  CHOOSE n \in 1 .. Len(p) :
    /\ \A k \in 1 .. n : p[k][1] = p[1][1]
    /\ n = Len(p) \/ p[n + 1][1] # p[1][1]

Submits(p, fl) == fl = {} /\ p # <<>>

\* send_read_desc_cmd_with_flag asks entity_desc_vec.at(0) for the current
\* configuration, which throws if it is empty.
SubmitThrows(p, fl, entity) ==
  Submits(p, fl) /\ ~entity /\ p[1][1] # "CONFIGURATION"

\* A response to each read sent may arrive.
Sent(w, ds) == [d \in Desc |-> IF d \in ds THEN w[d] + 1 ELSE w[d]]

SubmitPending(p, fl, w) ==
  IF Submits(p, fl)
  THEN LET n == SubmitLen(p)
           sent == Range(SubSeq(p, 1, n))
       IN  /\ pending' = SubSeq(p, n + 1, Len(p))
           /\ inflight' = sent
           /\ wire' = Sent(w, sent)
  ELSE pending' = p /\ inflight' = fl /\ wire' = w

\* The process dies; what it leaves behind does not matter.
Fail(how) ==
  /\ failed' = how
  /\ completed' = FALSE
  /\ UNCHANGED <<vecVars, listVars, wire>>
-----------------------------------------------------------------------------
(***************************************************************************)
(* proc_read_desc_resp: one response, all in the poll thread.              *)
(***************************************************************************)
\* END_STATION_READ_COMPLETED is posted at the end of proc_read_desc_resp.
ReadCompleted_inflight(entity, config, p, fl) ==                 \* mutant
  entity /\ config /\ p = <<>>
ReadCompleted(entity, config, p, fl) ==
  entity /\ config /\ p = <<>> /\ fl = {}

\* background_read_update_inflight: desc_index_from_frame knows the index of the
\* types that are implemented only.
UpdateInflight(d) == IF d[1] \in Implemented THEN inflight \ {d} ELSE inflight

\* The list in flight is updated, the next reads are submitted and the application
\* is notified.
Process(d, p, entity, config) ==
  LET fl == UpdateInflight(d)
      w  == [wire EXCEPT ![d] = @ - 1]
  IN  IF SubmitThrows(p, fl, entity)
      THEN Fail("out_of_range")
      ELSE /\ SubmitPending(p, fl, w)
           /\ completed' = ReadCompleted(entity, config, pending', inflight')
           /\ UNCHANGED failed

\* store_descriptor is true: the switch, and what to read next.
ProcReadDescRespStored(d, answer) ==
  LET entity == EntityAfter(d, answer)
      config == ConfigAfter(d, answer)
      vecs   == VecsAfter(d, answer)
  IN  /\ Stores(d, answer)
      /\ IF StoreFails(d, answer) # "no" THEN Fail(StoreFails(d, answer))
         ELSE IF DeduceFails(d, vecs, config) THEN Fail("null_pointer")
         ELSE /\ Process(d, pending \o DeduceNext(d, vecs, config), entity, config)
              /\ failed' = "no" => /\ entity_read' = entity
                                  /\ config_read' = config
                                  /\ desc_vec' = vecs

ProcReadDescRespIgnored(d, answer) ==
  /\ ~Stores(d, answer)
  /\ Process(d, pending, entity_read, config_read)
  /\ failed' = "no" => UNCHANGED vecVars

RcvdReadDesc(d, answer) ==
  /\ failed = "no"
  /\ wire[d] > 0
  /\ ProcReadDescRespStored(d, answer) \/ ProcReadDescRespIgnored(d, answer)
  /\ gaveUp' = IF answer = "refused" THEN gaveUp \cup {d} ELSE gaveUp
  /\ unreadable' = IF Cut(d, answer) THEN unreadable \cup {d} ELSE unreadable
  /\ UNCHANGED <<appReads, reenumerates>>

\* The network loses a response.
Lose(d) ==
  /\ failed = "no"
  /\ wire[d] > 0
  /\ wire' = [wire EXCEPT ![d] = @ - 1]
  /\ completed' = FALSE
  /\ UNCHANGED <<vecVars, listVars, failed, appReads, reenumerates, gaveUp, unreadable>>

\* A response comes that nothing in the lists waits for: the application reads
\* a descriptor with send_read_desc_cmd, which needs the ENTITY descriptor for
\* the other types, or a command sent twice is answered twice.
AppRead(d) ==
  /\ failed = "no"
  /\ appReads < MaxAppReads
  /\ entity_read \/ d \in {Entity, Config}
  /\ appReads' = appReads + 1
  /\ wire' = [wire EXCEPT ![d] = @ + 1]
  /\ completed' = FALSE
  /\ UNCHANGED <<vecVars, listVars, failed, reenumerates, gaveUp, unreadable>>

\* Mutant: the timeouts are processed, the next reads not submitted.
TimeTick_nosubmit(late) ==
  /\ failed = "no"
  /\ late \subseteq inflight
  /\ inflight' = inflight \ late
  /\ gaveUp' = gaveUp \cup late
  /\ completed' = FALSE
  /\ UNCHANGED <<vecVars, pending, wire, failed, appReads, reenumerates, unreadable>>

\* time_tick_event: background_read_update_timeouts, of the reads that are
\* late, and background_read_submit_pending.
TimeTick(late) ==
  /\ failed = "no"
  /\ late \subseteq inflight
  /\ gaveUp' = gaveUp \cup late
  /\ IF SubmitThrows(pending, inflight \ late, entity_read)
     THEN Fail("out_of_range")
     ELSE /\ SubmitPending(pending, inflight \ late, wire)
          /\ completed' = FALSE
          /\ UNCHANGED <<vecVars, failed>>
  /\ UNCHANGED <<appReads, reenumerates, unreadable>>

\* end_station_reenumerate, called for an advertisement with a lower
\* available_index or another entity model.
Reenumerate ==
  /\ failed = "no"
  /\ reenumerates < MaxReenumerate
  /\ reenumerates' = reenumerates + 1
  /\ entity_read' = FALSE
  /\ config_read' = FALSE
  /\ desc_vec' = NoVecs
  /\ wire' = Sent(wire, {Entity})
  /\ gaveUp' = {}
  /\ unreadable' = {}
  /\ completed' = FALSE
  /\ UNCHANGED <<listVars, failed, appReads>>
-----------------------------------------------------------------------------
\* end_station_init: the read of ENTITY 0 is sent, and is in neither list.
Init ==
  /\ entity_read = FALSE
  /\ config_read = FALSE
  /\ desc_vec = NoVecs
  /\ pending = <<>>
  /\ inflight = {}
  /\ failed = "no"
  /\ wire = [d \in Desc |-> IF d = Entity THEN 1 ELSE 0]
  /\ appReads = 0
  /\ reenumerates = 0
  /\ gaveUp = {}
  /\ unreadable = {}
  /\ completed = FALSE

Tick == \E late \in SUBSET inflight : TimeTick(late)

Next ==
  \/ \E d \in Desc, answer \in Answers : RcvdReadDesc(d, answer)
  \/ \E d \in Desc : Lose(d)
  \/ \E d \in Desc : AppRead(d)
  \/ Tick
  \/ Reenumerate

Spec == Init /\ [][Next]_esVars

\* The poll thread keeps ticking and time passes, so a read in flight ends up
\* late.  Nothing is assumed of the network.
Fairness == WF_esVars(\E late \in SUBSET inflight \ {{}} : TimeTick(late))

FairSpec == Spec /\ Fairness
-----------------------------------------------------------------------------
TypeOK ==
  /\ entity_read \in BOOLEAN
  /\ config_read \in BOOLEAN
  /\ desc_vec \in [Types -> Seq({d[2] : d \in Desc})]
  /\ pending \in Seq(Desc)
  /\ inflight \subseteq Desc
  /\ failed \in Failures
  /\ wire \in [Desc -> Nat]
  /\ appReads \in 0 .. MaxAppReads
  /\ reenumerates \in 0 .. MaxReenumerate
  /\ gaveUp \subseteq Desc
  /\ unreadable \subseteq Desc
  /\ completed \in BOOLEAN

IsStored(d) ==
  CASE d = Entity -> entity_read
    [] d = Config -> config_read
    [] OTHER -> d[2] \in Range(desc_vec[d[1]])

\* In whatever order, how often and how late responses arrive, the poll thread
\* never looks up a descriptor that is not there.
NeverFails == failed = "no"

\* No descriptor was cut that lists others.
ListsReadable == \A d \in unreadable : d[1] \notin Heads \cup LooksUp

\* The same as long as the end station is not re-enumerated and no descriptor
\* that lists others was cut: the handler asserts on the first two, and looks up
\* the others although they were not stored.
NeverFailsAtFirst == reenumerates = 0 /\ ListsReadable => NeverFails

\* While the lists of reads drain, nothing listed is forgotten: a descriptor
\* that a stored one lists is stored, waiting to be read, being read, was given
\* up, or came and could not be parsed.  One of a type that is not implemented
\* is being read until it is given up, although it was answered.  No list holds a
\* descriptor that the entity does not have (TypeOK).
NothingForgotten ==
  /\ TypeOK
  /\ failed = "no" =>
       \A d \in Desc : IsStored(d) =>
         \A c \in Listed(d) :
           \/ IsStored(c) \/ c \in Range(pending) \/ c \in inflight
           \/ c \in gaveUp \cup unreadable

\* END_STATION_READ_COMPLETED means the enumeration is complete: everything a
\* stored descriptor lists is stored, was given up, or could not be parsed.
CompletedMeansRead ==
  completed /\ failed = "no" =>
    \A d \in Desc : IsStored(d) =>
      \A c \in Listed(d) : IsStored(c) \/ c \in gaveUp \cup unreadable

\* The enumeration ends: while the poll thread lives, every read is answered or
\* given up.
EnumerationEnds == <>[](failed = "no" => pending = <<>> /\ inflight = {})
=============================================================================
