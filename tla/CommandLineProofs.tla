------------------------- MODULE CommandLineProofs -------------------------
(***************************************************************************)
(* Proofs about the command line application, in two parts: what the       *)
(* handlers do, and what the parser makes of a line (further down).        *)
(*                                                                         *)
(* CommandLine: any number of end stations, configurations and lines,      *)
(* devices of any groups of descriptors, images of any length.             *)
(*                                                                         *)
(* The invariant has three parts.  CoreInv: the types, the ids of the wait *)
(* manager and what the handlers that check are held to; a handler's       *)
(* decision is summed up by Verdict, for every line.  ViewInv: a walk has  *)
(* shown what it was to show or has it before it.  CleanInv: as long as no *)
(* wait was asked for in vain and no id was shared, the last command is    *)
(* the one waited for, whatever was sent earlier under its id is over, and *)
(* the wait is released at most once, by that command.                     *)
(*                                                                         *)
(* Most steps of the thread only move it on (Moves) or hand over one more  *)
(* command (Adds); the parts are shown to survive these two, and then the  *)
(* steps that are different.                                               *)
(***************************************************************************)
EXTENDS CommandLine, CommandTree, AvdeccLemmas

\* What the variables hold.
Targets == DescriptorKinds \cup {"ENTITY"} \cup {line.args.kind : line \in Lines}
CommandCalls ==
  {"READ_DESCRIPTOR", "ACQUIRE_ENTITY", "LOCK_ENTITY", "ENTITY_AVAILABLE", "REBOOT",
   "CONTROLLER_AVAILABLE", "SET_STREAM_FORMAT", "GET_STREAM_FORMAT",
   "SET_STREAM_INFO", "GET_STREAM_INFO", "SET_SAMPLING_RATE", "GET_SAMPLING_RATE",
   "SET_CLOCK_SOURCE", "GET_CLOCK_SOURCE", "START_STREAMING", "STOP_STREAMING",
   "SET_CONTROL", "START_OPERATION", "ADDRESS_ACCESS", "CONNECT_RX",
   "DISCONNECT_RX", "GET_TX_STATE", "GET_RX_STATE", "GET_TX_CONNECTION"}
Commands == [es : Nat, kind : Targets, call : CommandCalls, talker : Nat]
Outcomes == {"pending", "operating", "success", "failed", "timeout"}
Paths == {"ok"} \cup {line.args.word : line \in Lines}
Settings == [log_level : Nat, log_path : Paths, output_redirected : BOOLEAN]
AppFields == {"pc", "line", "then", "id", "at", "es", "order", "shown", "due", "said",
              "renewed", "stale"}
AppPcs == {"prompt", "waiting", "returned", "walking", "inputs", "outputs", "asking",
           "fails", "quits"}

ReadTypes == /\ count \in 0 .. NumStations
             /\ progress \in [EndStations -> Nat]
             /\ descs \in [EndStations -> SUBSET DescriptorKinds]
UserTypes == /\ current_end_station \in EndStations
             /\ current_config \in [EndStations -> Nat]
             /\ settings \in Settings
WaitTypes == /\ notification_id \in Nat \ {0} /\ notify_id \in Nat
             /\ wait_state \in {"idle", "primed", "active"}
             /\ waiting_sem \in Nat
CmdTypes  == /\ sent \in Seq([cmd : Commands, id : Nat])
             /\ ended \in Seq(Outcomes) /\ Len(ended) = Len(sent)
             /\ taken \in 0 .. Len(sent)
\* A handler has stale pointers only after an end station was enumerated again.
Renewed(a) == a.renewed \in BOOLEAN /\ a.stale \in BOOLEAN /\ (a.stale => a.renewed)
AppTypes  == /\ DOMAIN app = AppFields /\ Renewed(app)
             /\ app.pc \in AppPcs
             /\ app.then \in {"prompt", "chunk", "inputs"}
             /\ app.id \in Nat /\ app.at \in Nat \ {0} /\ app.es \in Nat

\* The wait manager is active while a call is held; ids are new; the id of a wait
\* that was asked for and not used never comes.
IdsInv ==
  /\ wait_state = "active" <=> app.pc = "waiting"
  /\ notify_id < notification_id /\ app.id < notification_id
  /\ \A c \in 1 .. Len(sent) : sent[c].id < notification_id
  /\ wait_state = "primed" => notify_id # 0 /\ notify_id # app.id

CoreInv == /\ ReadTypes /\ UserTypes /\ WaitTypes /\ CmdTypes /\ AppTypes
           /\ IdsInv /\ CheckedNeverFail

\* A view has shown what it was to show or has it before it.
StillThere(r) == /\ r \in EndStations \X DescriptorKinds
                 /\ get_current_config_desc(r[1])
                 /\ r[2] \in Descs(r[1])
ViewAllInv ==
  /\ app.order = ViewOrder
  /\ app.at = 1 => ~app.stale
  /\ \A r \in app.due :
       /\ StillThere(r) /\ {"LOCALE", "STRINGS"} \subseteq Descs(r[1])
       /\ r[2] \in Range(ViewOrder)
       /\ \/ r \in app.shown
          \/ r[1] > app.es
          \/ r[1] = app.es /\ (app.at = 1 \/ \E j \in 1 .. Len(ViewOrder) :
                                 j >= app.at - 1 /\ ViewOrder[j] = r[2])
ViewDetailsInv ==
  /\ app.order = DetailsOrder
  /\ \A r \in app.due :
       /\ StillThere(r)
       /\ r[1] = current_end_station /\ r[1] = app.es
       /\ \/ r \in app.shown
          \/ \E j \in 1 .. Len(DetailsOrder) : j >= app.at /\ DetailsOrder[j] = r[2]
ViewInv ==
  /\ app.pc \notin {"walking", "fails"} => app.due \subseteq app.shown
  /\ app.pc = "walking" => /\ app.stale => \A r \in app.due : r[1] # app.es
                           /\ \/ app.line.handler = "view_all" /\ ViewAllInv
                              \/ app.line.handler = "view_details" /\ ViewDetailsInv

\* As long as no wait was asked for in vain and no id was shared.
Clean == wait_state # "primed" /\ ~SharedId

Finished(c) == ended[c] \in {"success", "failed", "timeout"}
EarlierOver(id) == \A d \in 1 .. Len(sent) - 1 : sent[d].id = id => Finished(d)
IsOwn(status) == /\ Len(sent) > 0 /\ Finished(Len(sent))
                 /\ status \in {TICK_TIMEOUT, StatusOf(Len(sent), ended[Len(sent)])}
                 /\ status.outcome = "timeout" <=> ended[Len(sent)] = "timeout"

WaitInv ==
  IF app.pc = "waiting"
  THEN /\ Len(sent) > 0
       /\ notify_id = sent[Len(sent)].id
       /\ EarlierOver(notify_id)
       /\ waiting_sem = 0 \/ (waiting_sem = 1 /\ IsOwn(completion_status))
  ELSE waiting_sem = 0
ReturnInv == app.pc = "returned" => IsOwn(resp_status)

\* The blocks written so far follow the erasing.
Written(first, n, es) ==
  /\ sent[first].cmd.call = "START_OPERATION" /\ sent[first].cmd.es = es
  /\ \A k \in 1 .. n : /\ sent[first + k].cmd.call = "ADDRESS_ACCESS"
                       /\ sent[first + k].cmd.talker = k
                       /\ sent[first + k].cmd.es = es
ChunkInv ==
  (app.then = "chunk" /\ app.pc \in {"waiting", "returned"}) =>
    LET n == Len(sent)
        first == n - (app.at - 1)
    IN  /\ first > 0
        /\ sent[n].id = app.id
        /\ EarlierOver(app.id)
        /\ Written(first, app.at - 1, current_end_station)
        /\ \A d \in first .. n - 1 : ended[d] = "success"

CleanInv == Clean => (WaitInv /\ ReturnInv /\ ChunkInv /\ UpgradedMeansWritten)

LineInv == CoreInv /\ ViewInv /\ CleanInv
-----------------------------------------------------------------------------
(***************************************************************************)
(* The orders of the views, and the descriptors that have been read.       *)
(***************************************************************************)
LEMMA RangeOfConcat ==
  ASSUME NEW S, NEW s \in Seq(S), NEW t \in Seq(S)
  PROVE  s \o t \in Seq(S) /\ Range(s \o t) = Range(s) \cup Range(t)
<1> DEFINE u == s \o t
<1>1. /\ u \in Seq(S) /\ Len(u) = Len(s) + Len(t)
      /\ \A i \in 1 .. Len(s) + Len(t) :
           u[i] = IF i <= Len(s) THEN s[i] ELSE t[i - Len(s)]
  BY ConcatProperties
<1>2. /\ Len(s) \in Nat /\ Len(t) \in Nat
      /\ DOMAIN s = 1 .. Len(s) /\ DOMAIN t = 1 .. Len(t) /\ DOMAIN u = 1 .. Len(u)
  BY <1>1
<1> HIDE DEF u
<1>3. Range(u) \subseteq Range(s) \cup Range(t)
  <2> SUFFICES ASSUME NEW i \in 1 .. Len(u)
               PROVE  u[i] \in Range(s) \cup Range(t)
    BY <1>2 DEF Range
  <2>1. CASE i <= Len(s)
    <3>1. i \in 1 .. Len(s) /\ u[i] = s[i]
      BY <2>1, <1>1, <1>2
    <3> QED  BY <3>1, <1>2 DEF Range
  <2>2. CASE i > Len(s)
    <3>1. i - Len(s) \in 1 .. Len(t) /\ u[i] = t[i - Len(s)]
      BY <2>2, <1>1, <1>2
    <3> QED  BY <3>1, <1>2 DEF Range
  <2> QED  BY <2>1, <2>2, <1>1, <1>2
<1>4. Range(s) \subseteq Range(u)
  <2> SUFFICES ASSUME NEW i \in 1 .. Len(s)
               PROVE  s[i] \in Range(u)
    BY <1>2 DEF Range
  <2>1. i \in 1 .. Len(u) /\ u[i] = s[i]
    BY <1>1, <1>2
  <2> QED  BY <2>1, <1>2 DEF Range
<1>5. Range(t) \subseteq Range(u)
  <2> SUFFICES ASSUME NEW i \in 1 .. Len(t)
               PROVE  t[i] \in Range(u)
    BY <1>2 DEF Range
  <2>1. i + Len(s) \in 1 .. Len(u) /\ u[i + Len(s)] = t[i]
    BY <1>1, <1>2
  <2> QED  BY <2>1, <1>2 DEF Range
<1> QED  BY <1>1, <1>3, <1>4, <1>5 DEF u

LEMMA RangeOfThree ==
  ASSUME NEW S, NEW s \in Seq(S), NEW t \in Seq(S), NEW u \in Seq(S)
  PROVE  /\ s \o t \o u \in Seq(S)
         /\ Range(s \o t \o u) = Range(s) \cup Range(t) \cup Range(u)
<1> DEFINE w == s \o t
<1>1. w \in Seq(S) /\ Range(w) = Range(s) \cup Range(t)
  BY RangeOfConcat
<1> HIDE DEF w
<1>2. w \o u \in Seq(S) /\ Range(w \o u) = Range(w) \cup Range(u)
  BY <1>1, RangeOfConcat
<1>3. w \o u \in Seq(S) /\ Range(w \o u) = Range(s) \cup Range(t) \cup Range(u)
  BY <1>1, <1>2
<1> QED  BY <1>3 DEF w

LEMMA RangeOfFour ==
  ASSUME NEW S, NEW s \in Seq(S), NEW t \in Seq(S), NEW u \in Seq(S), NEW v \in Seq(S)
  PROVE  /\ s \o t \o u \o v \in Seq(S)
         /\ Range(s \o t \o u \o v) = Range(s) \cup Range(t) \cup Range(u) \cup Range(v)
<1> DEFINE w == s \o t \o u
<1>1. w \in Seq(S) /\ Range(w) = Range(s) \cup Range(t) \cup Range(u)
  BY RangeOfThree
<1> HIDE DEF w
<1>2. w \o v \in Seq(S) /\ Range(w \o v) = Range(w) \cup Range(v)
  BY <1>1, RangeOfConcat
<1>3. /\ w \o v \in Seq(S)
      /\ Range(w \o v) = Range(s) \cup Range(t) \cup Range(u) \cup Range(v)
  BY <1>1, <1>2
<1> QED  BY <1>3 DEF w

\* The cases of the views, one after the other.
LEMMA ViewOrders ==
  /\ ViewOrder \in Seq(DescriptorKinds) /\ DetailsOrder \in Seq(DescriptorKinds)
  /\ DescriptorKinds \ {"STRINGS", "CONTROL"} \subseteq Range(ViewOrder)
  /\ DescriptorKinds \ {"MEMORY_OBJECT", "CONTROL"} \subseteq Range(DetailsOrder)
  /\ Range(DetailsOrder) \subseteq DetailedKinds
<1> DEFINE L == <<"LOCALE", "STREAM_PORT_INPUT", "STREAM_PORT_OUTPUT", "AUDIO_CLUSTER",
                  "AUDIO_MAP", "EXTERNAL_PORT_INPUT", "EXTERNAL_PORT_OUTPUT",
                  "CLOCK_DOMAIN">>
           J == <<"JACK_INPUT", "JACK_OUTPUT", "AVB_INTERFACE", "CLOCK_SOURCE">>
<1>1. /\ TopLevelKinds \in Seq(DescriptorKinds)
      /\ Range(TopLevelKinds) = {"AUDIO_UNIT", "STREAM_INPUT", "STREAM_OUTPUT"}
  BY DEF TopLevelKinds, DescriptorKinds, Range
<1>2. /\ JackToMemoryObject \in Seq(DescriptorKinds)
      /\ Range(JackToMemoryObject) = {"JACK_INPUT", "JACK_OUTPUT", "AVB_INTERFACE",
                                      "CLOCK_SOURCE", "MEMORY_OBJECT"}
  BY DEF JackToMemoryObject, DescriptorKinds, Range
<1>3. /\ LocaleToMap \in Seq(DescriptorKinds)
      /\ Range(LocaleToMap) = {"LOCALE", "STRINGS", "STREAM_PORT_INPUT",
                               "STREAM_PORT_OUTPUT", "AUDIO_CLUSTER", "AUDIO_MAP"}
  BY DEF LocaleToMap, DescriptorKinds, Range
<1>4. /\ ClockDomainAndPorts \in Seq(DescriptorKinds)
      /\ Range(ClockDomainAndPorts) =
           {"CLOCK_DOMAIN", "EXTERNAL_PORT_INPUT", "EXTERNAL_PORT_OUTPUT"}
  BY DEF ClockDomainAndPorts, DescriptorKinds, Range
<1>5. /\ L \in Seq(DescriptorKinds)
      /\ Range(L) = {"LOCALE", "STREAM_PORT_INPUT", "STREAM_PORT_OUTPUT",
                     "AUDIO_CLUSTER", "AUDIO_MAP", "EXTERNAL_PORT_INPUT",
                     "EXTERNAL_PORT_OUTPUT", "CLOCK_DOMAIN"}
  BY DEF DescriptorKinds, Range
<1>6. /\ J \in Seq(DescriptorKinds)
      /\ Range(J) = {"JACK_INPUT", "JACK_OUTPUT", "AVB_INTERFACE", "CLOCK_SOURCE"}
  BY DEF DescriptorKinds, Range
<1> HIDE DEF L, J
<1>7. /\ ViewOrder \in Seq(DescriptorKinds)
      /\ Range(ViewOrder) = Range(TopLevelKinds) \cup Range(JackToMemoryObject) \cup Range(L)
  <2>1. ViewOrder = TopLevelKinds \o JackToMemoryObject \o L
    BY DEF ViewOrder, L
  <2> QED  BY <2>1, <1>1, <1>2, <1>5, RangeOfThree
<1>8. /\ DetailsOrder \in Seq(DescriptorKinds)
      /\ Range(DetailsOrder) = Range(TopLevelKinds) \cup Range(J) \cup Range(LocaleToMap)
                                 \cup Range(ClockDomainAndPorts)
  <2>1. DetailsOrder = TopLevelKinds \o J \o LocaleToMap \o ClockDomainAndPorts
    BY DEF DetailsOrder, J
  <2>2. J \in Seq(DescriptorKinds)
    BY <1>6
  <2>3. /\ TopLevelKinds \o J \o LocaleToMap \o ClockDomainAndPorts \in Seq(DescriptorKinds)
        /\ Range(TopLevelKinds \o J \o LocaleToMap \o ClockDomainAndPorts)
             = Range(TopLevelKinds) \cup Range(J) \cup Range(LocaleToMap)
                 \cup Range(ClockDomainAndPorts)
    BY <1>1, <1>3, <1>4, <2>2, RangeOfFour, SMTT(30)
  <2> QED  BY <2>1, <2>3
<1>9. DetailedKinds = Range(TopLevelKinds) \cup Range(JackToMemoryObject)
                        \cup Range(LocaleToMap) \cup Range(ClockDomainAndPorts)
  BY <1>1, <1>2, <1>3, <1>4, RangeOfFour DEF DetailedKinds
<1> QED
  BY <1>1, <1>2, <1>3, <1>4, <1>5, <1>6, <1>7, <1>8, <1>9 DEF DescriptorKinds

LEMMA InRange ==
  ASSUME NEW S, NEW s \in Seq(S), NEW x \in Range(s)
  PROVE  \E j \in 1 .. Len(s) : s[j] = x
  BY DEF Range

LEMMA KindsTyped == Kinds \subseteq DescriptorKinds
<1> SUFFICES ASSUME NEW es \in EndStations, NEW g \in Range(DeviceOrder[es])
             PROVE  g \subseteq DescriptorKinds
  BY DEF Kinds
<1>1. DeviceOrder[es] \in Seq(SUBSET DescriptorKinds)
  BY LineAssumption DEF LineAssumption, EndStations
<1> QED  BY <1>1 DEF Range

\* What is there stays there, unless it is deleted.
Grows == /\ count' >= count
         /\ \A es \in EndStations :
              progress'[es] >= progress[es] /\ descs[es] \subseteq descs'[es]

LEMMA StillThereStays ==
  ASSUME ReadTypes, ReadTypes', UserTypes, UNCHANGED current_config,
         Grows
  PROVE  /\ \A r : StillThere(r) => StillThere(r)'
         /\ \A es \in EndStations : Descs(es) \subseteq Descs(es)'
<1>1. ASSUME NEW es \in EndStations
      PROVE  Descs(es) \subseteq Descs(es)'
  BY DEF Grows, Descs
<1>2. ASSUME NEW r, StillThere(r)
      PROVE  StillThere(r)'
  <2>1. r[1] \in EndStations
    BY <1>2 DEF StillThere
  <2>2. /\ progress[r[1]] \in Nat /\ progress'[r[1]] \in Nat
        /\ progress'[r[1]] >= progress[r[1]] /\ count' >= count
    BY <2>1 DEF ReadTypes, Grows
  <2>3. get_current_config_desc(r[1])'
    <3>1. /\ r[1] < count /\ progress[r[1]] > 0
          /\ current_config[r[1]] < config_desc_count(r[1])
      BY <1>2 DEF StillThere, get_current_config_desc, get_current_entity_and_descriptor,
                  entity_ready
    <3>2. r[1] < count'
      BY <3>1, <2>1, <2>2, LineAssumption DEF ReadTypes, EndStations, LineAssumption
    <3>3. /\ config_desc_count(r[1]) \in Nat /\ config_desc_count(r[1])' \in Nat
          /\ config_desc_count(r[1])' >= config_desc_count(r[1])
      BY <2>2, LineAssumption, SMTT(30) DEF config_desc_count, LineAssumption
    <3>4. current_config[r[1]] \in Nat
      BY <2>1 DEF UserTypes
    <3>5. current_config'[r[1]] < config_desc_count(r[1])'
      BY <3>1, <3>3, <3>4
    <3> QED
      BY <2>2, <3>1, <3>2, <3>5
         DEF get_current_config_desc, get_current_entity_and_descriptor, entity_ready
  <2>4. r[2] \in Descs(r[1])'
    BY <1>1, <1>2, <2>1 DEF StillThere
  <2> QED  BY <1>2, <2>3, <2>4 DEF StillThere
<1> QED  BY <1>1, <1>2
-----------------------------------------------------------------------------
(***************************************************************************)
(* What a handler may decide.                                              *)
(***************************************************************************)
Views == {"view_all", "view_details"}

Verdict(line, r) ==
  /\ r.does \in {"says", "shows", "quits", "fails", "sets", "selects", "primes",
                 "sends", "upgrades", "walks", "collects"}
  /\ r.does = "fails" => line.handler \in Unchecked
  /\ r.does = "sets" => r.settings \in Settings
  /\ r.does = "selects" => r.es \in EndStations /\ r.config \in Nat
  /\ r.does = "sends" => r.cmd \in Commands
  /\ r.does = "upgrades" =>
       r.cmd = Cmd(current_end_station, "MEMORY_OBJECT", "START_OPERATION")
  /\ r.does = "walks" =>
       \/ line.handler = "view_all" /\ r.es = 0 /\ r.order = ViewOrder
       \/ /\ line.handler = "view_details"
          /\ r.es = line.args.es /\ r.order = DetailsOrder
  /\ r.does # "walks" => Due(line) = {}

LEMMA NoneDue ==
  ASSUME NEW line, line.handler \notin Views
  PROVE  Due(line) = {}
  BY DEF Due, Views

LEMMA VerdictText ==
  ASSUME NEW line, Due(line) = {}, NEW text
  PROVE  Verdict(line, Says(text))
  BY DEF Verdict, Says

LEMMA VerdictSays ==
  ASSUME NEW line, line.handler \notin Views, NEW text
  PROVE  Verdict(line, Says(text))
  BY NoneDue, VerdictText

LEMMA VerdictSends ==
  ASSUME NEW line, line.handler \notin Views, NEW cmd \in Commands
  PROVE  Verdict(line, Sends(cmd))
  BY NoneDue DEF Verdict, Sends

LEMMA VerdictPrimes ==
  ASSUME NEW line, line.handler \notin Views
  PROVE  Verdict(line, Primes)
  BY NoneDue DEF Verdict, Primes

LEMMA VerdictFails ==
  ASSUME NEW line, line.handler \notin Views, line.handler \in Unchecked
  PROVE  Verdict(line, Fails)
  BY NoneDue DEF Verdict, Fails

LEMMA VerdictSets ==
  ASSUME NEW line, line.handler \notin Views, NEW to \in Settings
  PROVE  Verdict(line, Sets(to))
  BY NoneDue DEF Verdict, Sets

LEMMA CmdTyped ==
  ASSUME NEW es \in Nat, NEW kind \in Targets, NEW call \in CommandCalls
  PROVE  Cmd(es, kind, call) \in Commands
  BY DEF Cmd, Commands

\* The arguments of a line.
LEMMA LineTyped ==
  ASSUME NEW line \in Lines
  PROVE  /\ line.args.es \in Nat /\ line.args.idx \in Nat
         /\ line.args.es2 \in Nat /\ line.args.idx2 \in Nat
         /\ line.handler \in Handlers
         /\ line.args.word \in Paths
         /\ line.args.kind \in Targets
         /\ DescriptorKinds \cup {"ENTITY"} \subseteq Targets
<1>1. /\ line.handler \in Handlers
      /\ {line.args.es, line.args.idx, line.args.es2, line.args.idx2} \subseteq Nat
  BY LineAssumption DEF LineAssumption
<1> QED  BY <1>1 DEF Paths, Targets

\* The wrappers pass on the verdict of what they wrap.
LEMMA VerdictOnStation ==
  ASSUME NEW line, line.handler \notin Views, NEW r,
         current_end_station < count => Verdict(line, r)
  PROVE  Verdict(line, OnStation(r))
<1>1. Verdict(line, Says("No End Stations available"))
  BY VerdictSays
<1> QED  BY <1>1 DEF OnStation

LEMMA VerdictOnConfig ==
  ASSUME NEW line, line.handler \notin Views, NEW r, Verdict(line, r)
  PROVE  Verdict(line, OnConfig(r))
<1>1. Verdict(line, Says("Current End Station not fully enumerated"))
  BY VerdictSays
<1> QED  BY <1>1, VerdictOnStation DEF OnConfig

LEMMA VerdictOnDescriptor ==
  ASSUME NEW line, line.handler \notin Views, line.handler \in Unchecked,
         UserTypes, NEW kind \in Targets, NEW idx, NEW call \in CommandCalls
  PROVE  Verdict(line, OnDescriptor(kind, idx, call))
<1>1. current_end_station \in Nat
  BY LineAssumption DEF UserTypes, EndStations, LineAssumption
<1>2. Cmd(current_end_station, kind, call) \in Commands
  BY <1>1, CmdTyped
<1> QED  BY <1>2, VerdictSends, VerdictFails DEF OnDescriptor

LEMMA VerdictOnStream ==
  ASSUME NEW line \in Lines, line.handler \notin Views, line.handler \in Unchecked,
         UserTypes, NEW call \in CommandCalls
  PROVE  Verdict(line, OnConfig(OnStream(line.args, call)))
<1>1. Verdict(line, OnDescriptor(line.args.kind, line.args.idx, call))
  BY LineTyped, VerdictOnDescriptor
<1>2. Verdict(line, Says("error"))
  BY VerdictSays
<1>3. Verdict(line, OnStream(line.args, call))
  BY <1>1, <1>2 DEF OnStream
<1> QED  BY <1>3, VerdictOnConfig

LEMMA VerdictGetState ==
  ASSUME NEW line \in Lines, line.handler \notin Views,
         NEW kind \in Targets, NEW call \in CommandCalls
  PROVE  Verdict(line, GetState(line.args, kind, call))
<1>1. Verdict(line, Sends(Cmd(line.args.es, kind, call)))
  BY LineTyped, CmdTyped, VerdictSends
<1>2. Verdict(line, Says("Invalid"))
  BY VerdictSays
<1> QED  BY <1>1, <1>2 DEF GetState

\* What the handler of any line decides.
LEMMA RunVerdict ==
  ASSUME NEW line \in Lines, ReadTypes, UserTypes
  PROVE  Verdict(line, Run(line))
<1> DEFINE a == line.args
<1>t. /\ a.es \in Nat /\ a.idx \in Nat /\ a.es2 \in Nat /\ a.idx2 \in Nat
      /\ line.handler \in Handlers
      /\ a.word \in Paths
      /\ a.kind \in Targets
  BY LineTyped
<1>k. DescriptorKinds \cup {"ENTITY"} \subseteq Targets
  BY LineTyped
<1>s. {"AUDIO_UNIT", "STREAM_INPUT", "STREAM_OUTPUT", "CLOCK_DOMAIN", "MEMORY_OBJECT",
       "CONTROL", "ENTITY"} \subseteq Targets
  BY <1>k DEF DescriptorKinds
<1>n. current_end_station \in Nat /\ count \in Nat
  BY LineAssumption DEF ReadTypes, UserTypes, EndStations, LineAssumption
<1>e. \A es \in Nat : es < count => es \in EndStations
  BY LineAssumption DEF ReadTypes, EndStations, LineAssumption
<1> HIDE DEF a
<1>1. CASE line.handler = "select"
  <2>1. line.handler \notin Views
    BY <1>1 DEF Views
  <2>2. Run(line) = do_select(a)
    BY <1>1 DEF Run, a
  <2>3. Verdict(line, Says("Invalid new setting")) /\ Verdict(line, Says("Same setting"))
    BY <2>1, VerdictSays
  <2>4. ASSUME is_setting_valid(a.es, a.idx, a.idx2)
        PROVE  Verdict(line, Selects(a.es, a.idx2))
    <3>1. a.es \in EndStations
      BY <2>4, <1>t, <1>e DEF is_setting_valid
    <3> QED  BY <3>1, <1>t, <2>1, NoneDue DEF Verdict, Selects
  <2> QED  BY <2>2, <2>3, <2>4 DEF do_select
<1>2. CASE line.handler = "show_select"
  <2>1. line.handler \notin Views /\ line.handler \in Unchecked
    BY <1>2 DEF Views, Unchecked
  <2>2. Run(line) = cmd_show_select(a)
    BY <1>2 DEF Run, a
  <2>3. Verdict(line, Says("Current setting")) /\ Verdict(line, Fails)
    BY <2>1, VerdictSays, VerdictFails
  <2> QED  BY <2>1, <2>2, <2>3, VerdictOnStation DEF cmd_show_select
<1>3. CASE line.handler \in {"list", "version", "view_media_clock", "clr", "connect"}
  <2>1. line.handler \notin Views
    BY <1>3 DEF Views
  <2>2. \E text \in {"End Station | Name", "AVDECC Controller version",
                     "End Station | Descriptor Name", "nothing", "Instream, Outstream"} :
          Run(line) = Says(text)
    BY <1>3 DEF Run, cmd_list, cmd_version, cmd_view_media_clock, cmd_clr, cmd_connect
  <2> QED  BY <2>1, <2>2, VerdictSays
<1>4. CASE line.handler \in {"log_level", "log", "unlog", "set_path"}
  <2>1. line.handler \notin Views
    BY <1>4 DEF Views
  <2>2. /\ [settings EXCEPT !.log_level = a.idx] \in Settings
        /\ [settings EXCEPT !.output_redirected = TRUE] \in Settings
        /\ [settings EXCEPT !.output_redirected = FALSE] \in Settings
        /\ [settings EXCEPT !.log_path = a.word] \in Settings
    BY <1>t DEF UserTypes, Settings
  <2>3. \/ Run(line) = Says("Invalid new log level")
        \/ \E to \in Settings : Run(line) = Sets(to)
    BY <1>4, <2>2 DEF Run, cmd_log_level, cmd_log, cmd_unlog, cmd_set_path, a
  <2>4. Verdict(line, Says("Invalid new log level"))
    BY <2>1, VerdictSays
  <2> QED  BY <2>1, <2>3, <2>4, VerdictSets
<1>5. CASE line.handler = "show_path"
  <2>1. line.handler \notin Views
    BY <1>5 DEF Views
  <2>2. Run(line) = Says(settings.log_path)
    BY <1>5 DEF Run, cmd_show_path
  <2> QED  BY <2>1, <2>2, VerdictSays
<1>6. CASE line.handler = "quit"
  <2>1. line.handler \notin Views
    BY <1>6 DEF Views
  <2>2. Run(line) = Quits
    BY <1>6 DEF Run, cmd_quit
  <2> QED  BY <2>1, <2>2, NoneDue DEF Verdict, Quits
<1>7. CASE line.handler = "connect_dst"
  <2>1. line.handler \notin Views
    BY <1>7 DEF Views
  <2>2. Run(line) = cmd_connect_dst(a)
    BY <1>7 DEF Run, a
  <2>3. Verdict(line, Says("Outstream")) /\ Verdict(line, Says("Invalid Instream"))
    BY <2>1, VerdictSays
  <2> QED  BY <2>2, <2>3 DEF cmd_connect_dst
<1>8. CASE line.handler = "view_all"
  <2>1. Run(line) = Walks(0, ViewOrder)
    BY <1>8 DEF Run, cmd_view_all
  <2> QED  BY <2>1, <1>8 DEF Verdict, Walks
<1>9. CASE line.handler = "view_details"
  <2>1. Run(line) = cmd_view_details(a)
    BY <1>9 DEF Run, a
  <2>2. CASE get_current_config_desc(a.es)
    <3>1. ~(a.es >= count) /\ get_current_entity_and_descriptor(a.es)
      BY <2>2, <1>t, <1>n DEF get_current_config_desc
    <3>2. Run(line) = Walks(a.es, DetailsOrder)
      BY <2>1, <3>1, Zenon DEF cmd_view_details
    <3> QED  BY <3>2, <1>9 DEF Verdict, Walks, a
  <2>3. CASE ~get_current_config_desc(a.es)
    <3>1. Run(line) \in {Says("Invalid End Station"), Says("Current Entity not available")}
      <4>1. a.es >= count \/ ~get_current_entity_and_descriptor(a.es)
        BY <2>3, <1>t, <1>n DEF get_current_config_desc
      <4> QED  BY <2>1, <4>1, Zenon DEF cmd_view_details
    <3>2. Due(line) = {}
      <4>1. Due(line) = IF line.args.es = current_end_station
                        THEN {r \in EndStations \X (Kinds \ {"MEMORY_OBJECT", "CONTROL"}) :
                                /\ r[1] = line.args.es
                                /\ get_current_config_desc(r[1])
                                /\ r[2] \in Descs(r[1])}
                        ELSE {}
        BY <1>9 DEF Due
      <4> QED  BY <4>1, <2>3 DEF a
    <3>3. PICK text \in {"Invalid End Station", "Current Entity not available"} :
            Run(line) = Says(text)
      BY <3>1
    <3> QED  BY <3>2, <3>3, VerdictText
  <2> QED  BY <2>2, <2>3
<1>10. CASE line.handler = "view_descriptor"
  <2>1. line.handler \notin Views /\ line.handler \in Unchecked
    BY <1>10 DEF Views, Unchecked
  <2>2. Run(line) = do_view_descriptor(a.kind, a.idx)
    BY <1>10 DEF Run, a, cmd_view_descriptor
  <2>3. Verdict(line, Fails)
    BY <2>1, VerdictFails
  <2>4. \A rows : Verdict(line, Shows(rows))
    BY <2>1, NoneDue DEF Verdict, Shows
  <2> QED  BY <2>1, <2>2, <2>3, <2>4, VerdictOnStation DEF do_view_descriptor
<1>11. CASE line.handler = "read_descriptor"
  <2>1. line.handler \notin Views /\ line.handler \in Unchecked
    BY <1>11 DEF Views, Unchecked
  <2>2. Run(line) = cmd_read_descriptor(a)
    BY <1>11 DEF Run, a
  <2>3. Verdict(line, Says("error")) /\ Verdict(line, Fails)
    BY <2>1, VerdictSays, VerdictFails
  <2>4. Verdict(line, Sends(Cmd(current_end_station, a.kind, "READ_DESCRIPTOR")))
    BY <2>1, <1>t, <1>n, CmdTyped, VerdictSends DEF CommandCalls
  <2> QED  BY <2>1, <2>2, <2>3, <2>4, VerdictOnStation DEF cmd_read_descriptor
<1>12. CASE line.handler = "acquire_entity"
  <2>1. line.handler \notin Views /\ line.handler \in Unchecked
    BY <1>12 DEF Views, Unchecked
  <2>2. Run(line) = cmd_acquire_entity(a)
    BY <1>12 DEF Run, a
  <2> DEFINE entity == Sends(Cmd(current_end_station, "ENTITY", "ACQUIRE_ENTITY"))
             input == IF Has(current_end_station, a.kind, a.idx) THEN Primes ELSE Fails
             output == OnDescriptor(a.kind, a.idx, "GET_STREAM_FORMAT")
             other == Says("cmd_acquire_entity error")
             chosen == CASE a.kind = "ENTITY" -> entity
                         [] a.kind = "STREAM_INPUT" -> input
                         [] a.kind = "STREAM_OUTPUT" -> output
                         [] OTHER -> other
  <2>3. Verdict(line, entity)
    BY <2>1, <1>s, <1>n, CmdTyped, VerdictSends DEF CommandCalls
  <2>4. Verdict(line, input)
    BY <2>1, VerdictPrimes, VerdictFails
  <2>5. Verdict(line, output)
    BY <2>1, <1>t, VerdictOnDescriptor DEF CommandCalls
  <2>6. Verdict(line, other) /\ Verdict(line, Says("Invalid flag"))
    BY <2>1, VerdictSays
  <2>7. chosen \in {entity, input, output, other}
    <3> HIDE DEF entity, input, output, other
    <3> QED  OBVIOUS
  <2>8. Verdict(line, chosen)
    <3> HIDE DEF entity, input, output, other, chosen
    <3> QED  BY <2>3, <2>4, <2>5, <2>6, <2>7
  <2>9. cmd_acquire_entity(a) = IF a.word # "ok" THEN Says("Invalid flag")
                                ELSE OnConfig(chosen)
    BY DEF cmd_acquire_entity
  <2> HIDE DEF chosen
  <2> QED  BY <2>1, <2>2, <2>6, <2>8, <2>9, VerdictOnConfig
<1>13. CASE line.handler = "lock_entity"
  <2>1. line.handler \notin Views
    BY <1>13 DEF Views
  <2>2. Run(line) = cmd_lock_entity(a)
    BY <1>13 DEF Run, a
  <2>3. Verdict(line, Sends(Cmd(current_end_station, "ENTITY", "LOCK_ENTITY")))
    BY <2>1, <1>s, <1>n, CmdTyped, VerdictSends DEF CommandCalls
  <2>4. Verdict(line, Says("nothing")) /\ Verdict(line, Says("Invalid flag"))
    BY <2>1, VerdictSays
  <2> QED  BY <2>1, <2>2, <2>3, <2>4, VerdictOnConfig DEF cmd_lock_entity
<1>14. CASE line.handler \in {"entity_avail", "reboot"}
  <2>1. line.handler \notin Views
    BY <1>14 DEF Views
  <2>2. /\ Verdict(line, Sends(Cmd(current_end_station, "ENTITY", "ENTITY_AVAILABLE")))
        /\ Verdict(line, Sends(Cmd(current_end_station, "ENTITY", "REBOOT")))
    BY <2>1, <1>s, <1>n, CmdTyped, VerdictSends DEF CommandCalls
  <2>3. \/ Run(line) = cmd_entity_avail(a)
        \/ Run(line) = cmd_reboot(a)
    BY <1>14 DEF Run, a
  <2> QED
    BY <2>1, <2>2, <2>3, VerdictOnStation, VerdictOnConfig DEF cmd_entity_avail, cmd_reboot
<1>15. CASE line.handler = "controller_avail"
  <2>1. line.handler \notin Views /\ line.handler \in Unchecked
    BY <1>15 DEF Views, Unchecked
  <2>2. Run(line) = cmd_controller_avail(a)
    BY <1>15 DEF Run, a
  <2>3. Verdict(line, Sends(Cmd(current_end_station, "ENTITY", "CONTROLLER_AVAILABLE")))
    BY <2>1, <1>s, <1>n, CmdTyped, VerdictSends DEF CommandCalls
  <2> QED  BY <2>1, <2>2, <2>3, VerdictFails DEF cmd_controller_avail
<1>16. CASE line.handler \in {"set_stream_format", "get_stream_format", "get_stream_info",
                              "start_streaming", "stop_streaming"}
  <2>1. line.handler \notin Views /\ line.handler \in Unchecked
    BY <1>16 DEF Views, Unchecked
  <2>2. \E call \in {"SET_STREAM_FORMAT", "GET_STREAM_FORMAT", "GET_STREAM_INFO",
                     "START_STREAMING", "STOP_STREAMING"} :
          Run(line) = OnConfig(OnStream(line.args, call))
    BY <1>16 DEF Run, cmd_set_stream_format, cmd_get_stream_format, cmd_get_stream_info,
                 cmd_start_streaming, cmd_stop_streaming
  <2> QED  BY <2>1, <2>2, VerdictOnStream DEF CommandCalls
<1>17. CASE line.handler \in {"set_stream_info", "set_sampling_rate", "get_sampling_rate"}
  <2>1. line.handler \notin Views /\ line.handler \in Unchecked
    BY <1>17 DEF Views, Unchecked
  <2>2. \E call \in {"SET_STREAM_INFO", "SET_SAMPLING_RATE", "GET_SAMPLING_RATE"},
           text \in {"unsupported", "not implemented"} :
          Run(line) \in {OnConfig(OnDescriptor(a.kind, a.idx, call)), OnConfig(Says(text))}
    BY <1>17 DEF Run, a, cmd_set_stream_info, cmd_set_sampling_rate, cmd_get_sampling_rate
  <2>3. PICK call \in {"SET_STREAM_INFO", "SET_SAMPLING_RATE", "GET_SAMPLING_RATE"},
             text \in {"unsupported", "not implemented"} :
          Run(line) \in {OnConfig(OnDescriptor(a.kind, a.idx, call)), OnConfig(Says(text))}
    BY <2>2
  <2>4. call \in CommandCalls
    BY DEF CommandCalls
  <2>5. Verdict(line, OnConfig(OnDescriptor(a.kind, a.idx, call)))
    BY <2>1, <2>4, <1>t, VerdictOnDescriptor, VerdictOnConfig
  <2>6. Verdict(line, OnConfig(Says(text)))
    BY <2>1, VerdictSays, VerdictOnConfig
  <2> QED  BY <2>3, <2>5, <2>6
<1>18. CASE line.handler \in {"set_clock_source", "get_clock_source"}
  <2>1. line.handler \notin Views
    BY <1>18 DEF Views
  <2>2. \E call \in {"SET_CLOCK_SOURCE", "GET_CLOCK_SOURCE"} :
          Run(line) = OnConfig(OnClockDomain(a.idx, call))
    BY <1>18 DEF Run, a, cmd_set_clock_source, cmd_get_clock_source
  <2>3. \A call \in {"SET_CLOCK_SOURCE", "GET_CLOCK_SOURCE"} :
          Verdict(line, Sends(Cmd(current_end_station, "CLOCK_DOMAIN", call)))
    BY <2>1, <1>s, <1>n, CmdTyped, VerdictSends DEF CommandCalls
  <2>4. Verdict(line, Primes)
    BY <2>1, VerdictPrimes
  <2> QED  BY <2>1, <2>2, <2>3, <2>4, VerdictOnConfig DEF OnClockDomain
<1>19. CASE line.handler = "identify"
  <2>1. line.handler \notin Views /\ line.handler \in Unchecked
    BY <1>19 DEF Views, Unchecked
  <2>2. Run(line) = do_identify(a)
    BY <1>19 DEF Run, a
  <2>3. Verdict(line, Sends(Cmd(a.es, "CONTROL", "SET_CONTROL")))
    BY <2>1, <1>s, <1>t, CmdTyped, VerdictSends DEF CommandCalls
  <2> QED  BY <2>1, <2>2, <2>3, VerdictFails DEF do_identify
<1>20. CASE line.handler = "firmware_upgrade"
  <2>1. line.handler \notin Views /\ line.handler \in Unchecked
    BY <1>20 DEF Views, Unchecked
  <2>2. Run(line) = cmd_firmware_upgrade(a)
    BY <1>20 DEF Run, a
  <2>3. Verdict(line, Says("Unable to open upgrade image"))
    BY <2>1, VerdictSays
  <2>4. Verdict(line, Upgrades(Cmd(current_end_station, "MEMORY_OBJECT", "START_OPERATION")))
    BY <2>1, NoneDue DEF Verdict, Upgrades
  <2>5. Verdict(line, Fails)
    BY <2>1, VerdictFails
  <2> QED  BY <2>1, <2>2, <2>3, <2>4, <2>5, VerdictOnConfig DEF cmd_firmware_upgrade
<1>21. CASE line.handler \in {"connect_rx", "disconnect_rx"}
  <2>1. line.handler \notin Views
    BY <1>21 DEF Views
  <2>2. \A call \in {"CONNECT_RX", "DISCONNECT_RX"} : Verdict(line, Sends(Connection(a, call)))
    <3> SUFFICES ASSUME NEW call \in {"CONNECT_RX", "DISCONNECT_RX"}
                 PROVE  Verdict(line, Sends(Connection(a, call)))
      OBVIOUS
    <3>1. Connection(a, call) \in Commands
      BY <1>t, <1>s DEF Connection, Commands, CommandCalls
    <3> QED  BY <2>1, <3>1, VerdictSends
  <2>3. /\ Verdict(line, Says("Invalid ACMP Connection")) /\ Verdict(line, Says("Invalid Flag"))
        /\ Verdict(line, Says("Invalid ACMP Disconnection"))
    BY <2>1, VerdictSays
  <2>4. CASE line.handler = "connect_rx"
    <3>1. Run(line) = cmd_connect_rx(a)
      BY <2>4 DEF Run, a
    <3> QED  BY <3>1, <2>2, <2>3 DEF cmd_connect_rx
  <2>5. CASE line.handler = "disconnect_rx"
    <3>1. Run(line) = cmd_disconnect_rx(a)
      BY <2>5 DEF Run, a
    <3>2. Verdict(line, Fails)
      BY <2>1, <2>5, VerdictFails DEF Unchecked
    <3> QED  BY <3>1, <3>2, <2>2, <2>3 DEF cmd_disconnect_rx
  <2> QED  BY <1>21, <2>4, <2>5
<1>22. CASE line.handler \in {"get_tx_state", "get_rx_state", "get_tx_connection"}
  <2>1. line.handler \notin Views
    BY <1>22 DEF Views
  <2>2. \E kind \in {"STREAM_INPUT", "STREAM_OUTPUT"},
           call \in {"GET_TX_STATE", "GET_RX_STATE", "GET_TX_CONNECTION"} :
          Run(line) = GetState(line.args, kind, call)
    BY <1>22 DEF Run, cmd_get_tx_state, cmd_get_rx_state, cmd_get_tx_connection
  <2>3. /\ {"STREAM_INPUT", "STREAM_OUTPUT"} \subseteq Targets
        /\ {"GET_TX_STATE", "GET_RX_STATE", "GET_TX_CONNECTION"} \subseteq CommandCalls
    BY <1>s DEF CommandCalls
  <2> QED  BY <2>1, <2>2, <2>3, VerdictGetState
<1>23. CASE line.handler = "show_connections"
  <2>1. line.handler \notin Views
    BY <1>23 DEF Views
  <2>2. Run(line) = Collects
    BY <1>23 DEF Run, cmd_show_connections
  <2> QED  BY <2>1, <2>2, NoneDue DEF Verdict, Collects
<1> QED
  BY <1>t, <1>1, <1>2, <1>3, <1>4, <1>5, <1>6, <1>7, <1>8, <1>9, <1>10, <1>11, <1>12,
     <1>13, <1>14, <1>15, <1>16, <1>17, <1>18, <1>19, <1>20, <1>21, <1>22, <1>23
     DEF Handlers
-----------------------------------------------------------------------------
(***************************************************************************)
(* The effect of a command that is handed over and of a line that begins.  *)
(***************************************************************************)
LEMMA SentTyped ==
  ASSUME CmdTypes
  PROVE  /\ Len(sent) \in Nat /\ DOMAIN sent = 1 .. Len(sent)
         /\ \A c \in 1 .. Len(sent) : /\ sent[c] \in [cmd : Commands, id : Nat]
                                      /\ sent[c].id \in Nat /\ ended[c] \in Outcomes
<1>1. /\ sent \in Seq([cmd : Commands, id : Nat])
      /\ ended \in Seq(Outcomes) /\ Len(ended) = Len(sent)
  BY DEF CmdTypes
<1>2. /\ Len(sent) \in Nat /\ DOMAIN sent = 1 .. Len(sent)
      /\ DOMAIN ended = 1 .. Len(sent)
  BY <1>1
<1>3. ASSUME NEW c \in 1 .. Len(sent)
      PROVE  /\ sent[c] \in [cmd : Commands, id : Nat]
             /\ sent[c].id \in Nat /\ ended[c] \in Outcomes
  <2>1. sent[c] \in [cmd : Commands, id : Nat]
    BY <1>1, ElementOfSeq
  <2>2. ended[c] \in Outcomes
    BY <1>1, ElementOfSeq
  <2> QED  BY <2>1, <2>2
<1> QED  BY <1>2, <1>3

LEMMA IssueStep ==
  ASSUME WaitTypes, CmdTypes,
         NEW cmd \in Commands, NEW id \in Nat, NEW prime \in BOOLEAN, NEW next,
         DOMAIN next = AppFields, wait_state = "primed" => notify_id # id,
         Issue(cmd, id, prime, next)
  PROVE  /\ CmdTypes'
         /\ Len(sent') = Len(sent) + 1
         /\ \A d \in 1 .. Len(sent) : sent'[d] = sent[d] /\ ended'[d] = ended[d]
         /\ sent'[Len(sent) + 1] = [cmd |-> cmd, id |-> id]
         /\ ended'[Len(sent) + 1] = "pending"
         /\ DOMAIN app' = AppFields
         /\ \A f \in AppFields \ {"pc"} : app'[f] = next[f]
         /\ prime /\ wait_state = "idle" =>
              notify_id' = id /\ wait_state' = "active" /\ app'.pc = "waiting"
         /\ ~(prime /\ wait_state = "idle") =>
              notify_id' = notify_id /\ wait_state' = wait_state /\ app'.pc = next.pc
         /\ UNCHANGED <<taken, completion_status, waiting_sem, resp_status>>
<1> DEFINE rec == [cmd |-> cmd, id |-> id]
<1>1. rec \in [cmd : Commands, id : Nat]
  OBVIOUS
<1> HIDE DEF rec
<1>2. sent' = Append(sent, rec) /\ ended' = Append(ended, "pending")
  BY DEF Issue, rec
<1>3. /\ sent' \in Seq([cmd : Commands, id : Nat]) /\ Len(sent') = Len(sent) + 1
      /\ \A d \in 1 .. Len(sent) : sent'[d] = sent[d]
      /\ sent'[Len(sent) + 1] = rec
  BY <1>1, <1>2, AppendProperties DEF CmdTypes
<1>4. "pending" \in Outcomes
  BY DEF Outcomes
<1>5. /\ ended' \in Seq(Outcomes) /\ Len(ended') = Len(ended) + 1
      /\ \A d \in 1 .. Len(ended) : ended'[d] = ended[d]
      /\ ended'[Len(ended) + 1] = "pending"
  BY <1>2, <1>4, AppendProperties DEF CmdTypes
<1>6. /\ Len(ended) = Len(sent) /\ Len(sent) \in Nat
      /\ taken \in 0 .. Len(sent) /\ taken' = taken
  BY DEF CmdTypes, Issue
<1>7. CmdTypes'
  BY <1>3, <1>5, <1>6 DEF CmdTypes
<1> DEFINE held == \/ prime /\ wait_state = "idle"
                   \/ wait_state = "primed" /\ notify_id = id
<1>8. held <=> (prime /\ wait_state = "idle")
  OBVIOUS
<1>9. /\ notify_id' = IF prime /\ wait_state = "idle" THEN id ELSE notify_id
      /\ wait_state' = IF held THEN "active" ELSE wait_state
      /\ app' = [next EXCEPT !.pc = IF held THEN "waiting" ELSE next.pc]
      /\ UNCHANGED <<taken, completion_status, waiting_sem, resp_status>>
  BY DEF Issue
<1> HIDE DEF held
<1>10. /\ DOMAIN app' = AppFields
       /\ \A f \in AppFields \ {"pc"} : app'[f] = next[f]
       /\ app'.pc = IF held THEN "waiting" ELSE next.pc
  BY <1>9 DEF AppFields
<1>11. /\ prime /\ wait_state = "idle" =>
            notify_id' = id /\ wait_state' = "active" /\ app'.pc = "waiting"
       /\ ~(prime /\ wait_state = "idle") =>
            notify_id' = notify_id /\ wait_state' = wait_state /\ app'.pc = next.pc
  BY <1>8, <1>9, <1>10
<1> QED  BY <1>3, <1>5, <1>6, <1>7, <1>9, <1>10, <1>11 DEF rec

\* What the line just begun leaves in the thread, whatever it decided.
Begun(line, a) ==
  /\ DOMAIN a = AppFields /\ a.due = Due(line)
  /\ a.at = 1 /\ a.renewed = FALSE /\ a.stale = FALSE
  /\ a.said # "upgraded"

Quiet(line) ==
  /\ app'.pc = "prompt" /\ app'.then = "prompt" /\ app'.id = 0 /\ app'.es = 0
  /\ Due(line) = {}
  /\ UNCHANGED <<waitVars, cmdVars>>
Stops(line) ==
  /\ app'.pc \in {"fails", "quits"} /\ app'.line = line
  /\ app'.pc = "fails" => line.handler \in Unchecked
  /\ app'.then = "prompt" /\ app'.id = 0 /\ app'.es = 0
  /\ Due(line) = {}
  /\ UNCHANGED <<waitVars, cmdVars>>
AsksInVain(line) ==
  /\ app'.pc = "prompt" /\ app'.then = "prompt" /\ app'.id = 0 /\ app'.es = 0
  /\ Due(line) = {}
  /\ notification_id' = notification_id + 1
  /\ wait_state' = IF wait_state = "idle" THEN "primed" ELSE wait_state
  /\ notify_id' = IF wait_state = "idle" THEN notification_id ELSE notify_id
  /\ UNCHANGED <<completion_status, waiting_sem, resp_status, cmdVars>>
HandsOver(line, cmd, next) ==
  /\ Begun(line, next)
  /\ next.pc = "returned" /\ next.id = notification_id /\ next.es = 0
  /\ next.then \in {"prompt", "chunk"}
  /\ next.then = "chunk" =>
       cmd = Cmd(current_end_station, "MEMORY_OBJECT", "START_OPERATION")
  /\ Due(line) = {}
  /\ notification_id' = notification_id + 1
  /\ Issue(cmd, notification_id, TRUE, next)
  /\ UNCHANGED current_end_station
WalksOver(line) ==
  /\ app'.pc = "walking" /\ app'.line = line /\ app'.then = "prompt" /\ app'.id = 0
  /\ \/ line.handler = "view_all" /\ app'.es = 0 /\ app'.order = ViewOrder
     \/ /\ line.handler = "view_details"
        /\ app'.es = line.args.es /\ app'.order = DetailsOrder
  /\ UNCHANGED <<waitVars, cmdVars, current_end_station, current_config>>
CollectsAll(line) ==
  /\ app'.pc = "inputs" /\ app'.then = "prompt" /\ app'.id = notification_id
  /\ app'.es = 0 /\ Due(line) = {}
  /\ notification_id' = notification_id + 1
  /\ UNCHANGED <<wait_state, notify_id, completion_status, waiting_sem, resp_status,
                 cmdVars>>

LEMMA HandleCases ==
  ASSUME ReadTypes, UserTypes, NEW line \in Lines, Handle(line)
  PROVE  /\ app.pc = "prompt" /\ UNCHANGED readVars /\ UserTypes'
         /\ \/ Begun(line, app') /\ Quiet(line)
            \/ Begun(line, app') /\ Stops(line)
            \/ Begun(line, app') /\ AsksInVain(line)
            \/ \E cmd \in Commands : \E next : HandsOver(line, cmd, next)
            \/ Begun(line, app') /\ WalksOver(line)
            \/ Begun(line, app') /\ CollectsAll(line)
<1> DEFINE r == Run(line)
           begin == [Begin(line) EXCEPT !.due = Due(line)]
           over == [Begin(NoLine) EXCEPT !.due = Due(line)]
<1>v. Verdict(line, r)
  BY RunVerdict
<1>b. /\ DOMAIN begin = AppFields
      /\ begin.pc = "prompt" /\ begin.line = line /\ begin.then = "prompt"
      /\ begin.id = 0 /\ begin.at = 1 /\ begin.es = 0 /\ begin.due = Due(line)
      /\ begin.said = "nothing" /\ begin.renewed = FALSE /\ begin.stale = FALSE
  BY DEF Begin, AppFields
<1>o. /\ Begun(line, over) /\ over.pc = "prompt" /\ over.then = "prompt"
      /\ over.id = 0 /\ over.es = 0
  BY DEF Begun, Begin, AppFields
<1>g. app.pc = "prompt" /\ UNCHANGED readVars
  BY DEF Handle
<1>c. \/ /\ r.does \in {"says", "shows"}
         /\ app' = over
         /\ UNCHANGED <<waitVars, cmdVars, current_end_station, current_config, settings>>
      \/ /\ r.does \in {"fails", "quits"}
         /\ app' = [begin EXCEPT !.pc = r.does]
         /\ UNCHANGED <<waitVars, cmdVars, current_end_station, current_config, settings>>
      \/ /\ r.does = "sets"
         /\ settings' = r.settings
         /\ app' = over
         /\ UNCHANGED <<waitVars, cmdVars, current_end_station, current_config>>
      \/ /\ r.does = "selects"
         /\ current_end_station' = r.es
         /\ current_config' = [current_config EXCEPT ![r.es] = r.config]
         /\ app' = over
         /\ UNCHANGED <<waitVars, cmdVars, settings>>
      \/ /\ r.does = "primes"
         /\ notification_id' = notification_id + 1
         /\ wait_state' = IF wait_state = "idle" THEN "primed" ELSE wait_state
         /\ notify_id' = IF wait_state = "idle" THEN notification_id ELSE notify_id
         /\ app' = over
         /\ UNCHANGED <<completion_status, waiting_sem, resp_status, cmdVars,
                        current_end_station, current_config, settings>>
      \/ /\ r.does \in {"sends", "upgrades"}
         /\ notification_id' = notification_id + 1
         /\ Issue(r.cmd, notification_id, TRUE,
                  [begin EXCEPT !.pc = "returned", !.id = notification_id,
                     !.then = IF r.does = "sends" THEN "prompt" ELSE "chunk"])
         /\ UNCHANGED <<current_end_station, current_config, settings>>
      \/ /\ r.does = "walks"
         /\ app' = [begin EXCEPT !.pc = "walking", !.es = r.es, !.order = r.order]
         /\ UNCHANGED <<waitVars, cmdVars, current_end_station, current_config, settings>>
      \/ /\ r.does = "collects"
         /\ notification_id' = notification_id + 1
         /\ app' = [begin EXCEPT !.pc = "inputs", !.id = notification_id]
         /\ UNCHANGED <<wait_state, notify_id, completion_status, waiting_sem,
                        resp_status, cmdVars, current_end_station,
                        current_config, settings>>
  BY Zenon DEF Handle, get_next_notification_id
<1> HIDE DEF r, begin, over
<1>1. CASE r.does \in {"says", "shows"}
  <2>1. /\ app' = over
        /\ UNCHANGED <<waitVars, cmdVars, current_end_station, current_config, settings>>
    BY <1>c, <1>1
  <2>2. Due(line) = {}
    BY <1>v, <1>1 DEF Verdict
  <2>3. Begun(line, app') /\ Quiet(line)
    BY <1>o, <2>1, <2>2 DEF Quiet
  <2> QED  BY <1>g, <2>1, <2>3 DEF UserTypes
<1>3. CASE r.does \in {"fails", "quits"}
  <2>1. /\ app' = [begin EXCEPT !.pc = r.does]
        /\ UNCHANGED <<waitVars, cmdVars, current_end_station, current_config, settings>>
    BY <1>c, <1>3
  <2>2. Due(line) = {} /\ (r.does = "fails" => line.handler \in Unchecked)
    BY <1>v, <1>3 DEF Verdict
  <2>3. Begun(line, app') /\ Stops(line)
    BY <1>3, <1>b, <2>1, <2>2 DEF Begun, Stops, AppFields
  <2> QED  BY <1>g, <2>1, <2>3 DEF UserTypes
<1>4. CASE r.does \in {"sets", "selects"}
  <2>1. app' = over /\ UNCHANGED <<waitVars, cmdVars>>
    BY <1>c, <1>4
  <2>2. Due(line) = {}
    BY <1>v, <1>4 DEF Verdict
  <2>3. Begun(line, app') /\ Quiet(line)
    BY <1>o, <2>1, <2>2 DEF Quiet
  <2>4. UserTypes'
    <3>1. CASE r.does = "sets"
      <4>1. r.settings \in Settings
        BY <1>v, <3>1 DEF Verdict
      <4>2. settings' = r.settings /\ UNCHANGED <<current_end_station, current_config>>
        BY <1>c, <3>1
      <4> QED  BY <4>1, <4>2 DEF UserTypes
    <3>2. CASE r.does = "selects"
      <4>1. r.es \in EndStations /\ r.config \in Nat
        BY <1>v, <3>2 DEF Verdict
      <4>2. /\ current_end_station' = r.es
            /\ current_config' = [current_config EXCEPT ![r.es] = r.config]
            /\ settings' = settings
        BY <1>c, <3>2
      <4> QED  BY <4>1, <4>2 DEF UserTypes
    <3> QED  BY <1>4, <3>1, <3>2
  <2> QED  BY <1>g, <2>3, <2>4
<1>5. CASE r.does = "primes"
  <2>1. /\ notification_id' = notification_id + 1
        /\ wait_state' = IF wait_state = "idle" THEN "primed" ELSE wait_state
        /\ notify_id' = IF wait_state = "idle" THEN notification_id ELSE notify_id
        /\ app' = over
        /\ UNCHANGED <<completion_status, waiting_sem, resp_status, cmdVars,
                       current_end_station, current_config, settings>>
    BY <1>c, <1>5
  <2>2. Due(line) = {}
    BY <1>v, <1>5 DEF Verdict
  <2>3. Begun(line, app') /\ AsksInVain(line)
    BY <1>o, <2>1, <2>2 DEF AsksInVain
  <2> QED  BY <1>g, <2>1, <2>3 DEF UserTypes
<1>6. CASE r.does \in {"sends", "upgrades"}
  <2> DEFINE next == [begin EXCEPT !.pc = "returned", !.id = notification_id,
                        !.then = IF r.does = "sends" THEN "prompt" ELSE "chunk"]
  <2>1. /\ notification_id' = notification_id + 1
        /\ Issue(r.cmd, notification_id, TRUE, next)
        /\ UNCHANGED <<current_end_station, current_config, settings>>
    BY <1>c, <1>6
  <2>2. /\ Due(line) = {}
        /\ r.does = "sends" => r.cmd \in Commands
        /\ r.does = "upgrades" =>
             r.cmd = Cmd(current_end_station, "MEMORY_OBJECT", "START_OPERATION")
    BY <1>v, <1>6 DEF Verdict
  <2>3. Cmd(current_end_station, "MEMORY_OBJECT", "START_OPERATION") \in Commands
    <3>1. current_end_station \in Nat
      BY LineAssumption DEF UserTypes, EndStations, LineAssumption
    <3>2. "MEMORY_OBJECT" \in Targets /\ "START_OPERATION" \in CommandCalls
      BY DEF Targets, DescriptorKinds, CommandCalls
    <3> QED  BY <3>1, <3>2, CmdTyped
  <2>4. r.cmd \in Commands
    BY <1>6, <2>2, <2>3
  <2>5. /\ Begun(line, next)
        /\ next.pc = "returned" /\ next.id = notification_id /\ next.es = 0
        /\ next.then = IF r.does = "sends" THEN "prompt" ELSE "chunk"
    BY <1>b DEF Begun, AppFields
  <2> HIDE DEF next
  <2>6. HandsOver(line, r.cmd, next)
    BY <1>6, <2>1, <2>2, <2>5 DEF HandsOver
  <2> QED  BY <1>g, <2>1, <2>4, <2>6 DEF UserTypes
<1>7. CASE r.does = "walks"
  <2>1. /\ app' = [begin EXCEPT !.pc = "walking", !.es = r.es, !.order = r.order]
        /\ UNCHANGED <<waitVars, cmdVars, current_end_station, current_config, settings>>
    BY <1>c, <1>7
  <2>2. \/ line.handler = "view_all" /\ r.es = 0 /\ r.order = ViewOrder
        \/ /\ line.handler = "view_details"
           /\ r.es = line.args.es /\ r.order = DetailsOrder
    BY <1>v, <1>7 DEF Verdict
  <2>3. Begun(line, app') /\ WalksOver(line)
    BY <1>b, <2>1, <2>2 DEF Begun, WalksOver, AppFields
  <2> QED  BY <1>g, <2>1, <2>3 DEF UserTypes
<1>8. CASE r.does = "collects"
  <2>1. /\ notification_id' = notification_id + 1
        /\ app' = [begin EXCEPT !.pc = "inputs", !.id = notification_id]
        /\ UNCHANGED <<wait_state, notify_id, completion_status, waiting_sem,
                       resp_status, cmdVars, current_end_station,
                       current_config, settings>>
    BY <1>c, <1>8
  <2>2. Due(line) = {}
    BY <1>v, <1>8 DEF Verdict
  <2>3. Begun(line, app') /\ CollectsAll(line)
    BY <1>b, <2>1, <2>2 DEF Begun, CollectsAll, AppFields
  <2> QED  BY <1>g, <2>1, <2>3 DEF UserTypes
<1> QED  BY <1>c, <1>1, <1>3, <1>4, <1>5, <1>6, <1>7, <1>8
-----------------------------------------------------------------------------
(***************************************************************************)
(* Types, ids and the handlers that check (CoreInv).                       *)
(***************************************************************************)
LEMMA HandedOver ==
  ASSUME WaitTypes, CmdTypes, IdsInv, app.pc # "waiting",
         NEW cmd \in Commands, NEW id \in Nat, NEW prime \in BOOLEAN, NEW next,
         DOMAIN next = AppFields, next.pc \in AppPcs \ {"waiting"},
         next.then \in {"prompt", "chunk", "inputs"},
         next.id \in Nat, next.at \in Nat \ {0}, next.es \in Nat, Renewed(next),
         notification_id' \in Nat, notification_id' >= notification_id,
         id < notification_id', next.id < notification_id',
         wait_state = "primed" => notify_id # id /\ notify_id # next.id,
         Issue(cmd, id, prime, next)
  PROVE  WaitTypes' /\ CmdTypes' /\ AppTypes' /\ IdsInv' /\ app'.pc \in {"waiting", next.pc}
<1>1. /\ CmdTypes'
      /\ Len(sent') = Len(sent) + 1
      /\ \A d \in 1 .. Len(sent) : sent'[d] = sent[d] /\ ended'[d] = ended[d]
      /\ sent'[Len(sent) + 1] = [cmd |-> cmd, id |-> id]
      /\ DOMAIN app' = AppFields
      /\ \A f \in AppFields \ {"pc"} : app'[f] = next[f]
      /\ prime /\ wait_state = "idle" =>
           notify_id' = id /\ wait_state' = "active" /\ app'.pc = "waiting"
      /\ ~(prime /\ wait_state = "idle") =>
           notify_id' = notify_id /\ wait_state' = wait_state /\ app'.pc = next.pc
      /\ UNCHANGED <<taken, completion_status, waiting_sem, resp_status>>
  BY IssueStep
<1>2. /\ app'.then = next.then /\ app'.id = next.id /\ app'.at = next.at
      /\ app'.es = next.es /\ Renewed(app')
  BY <1>1 DEF AppFields, Renewed
<1>3. /\ notification_id \in Nat \ {0} /\ notify_id \in Nat
      /\ wait_state \in {"idle", "primed"} /\ waiting_sem \in Nat
  BY DEF WaitTypes, IdsInv
<1>4. WaitTypes'
  BY <1>1, <1>3 DEF WaitTypes
<1>5. AppTypes'
  <2>1. app'.pc \in AppPcs
    BY <1>1 DEF AppPcs
  <2> QED  BY <1>1, <1>2, <2>1 DEF AppTypes
<1>6. wait_state' = "active" <=> app'.pc = "waiting"
  BY <1>1, <1>3
<1>7. notify_id' < notification_id' /\ app'.id < notification_id'
  BY <1>1, <1>2, <1>3 DEF IdsInv
<1>8. \A c \in 1 .. Len(sent') : sent'[c].id < notification_id'
  <2> SUFFICES ASSUME NEW c \in 1 .. Len(sent')
               PROVE  sent'[c].id < notification_id'
    OBVIOUS
  <2>1. Len(sent) \in Nat
    BY DEF CmdTypes
  <2>2. CASE c = Len(sent) + 1
    BY <2>2, <1>1
  <2>3. CASE c # Len(sent) + 1
    <3>1. c \in 1 .. Len(sent) /\ sent'[c] = sent[c]
      BY <2>1, <2>3, <1>1
    <3>2. sent[c].id \in Nat /\ sent[c].id < notification_id
      BY <3>1, SentTyped DEF IdsInv
    <3> QED  BY <3>1, <3>2, <1>3
  <2> QED  BY <2>2, <2>3
<1>9. wait_state' = "primed" => notify_id' # 0 /\ notify_id' # app'.id
  BY <1>1, <1>2, <1>3 DEF IdsInv
<1> QED  BY <1>1, <1>4, <1>5, <1>6, <1>7, <1>8, <1>9 DEF IdsInv

LEMMA HandleCore ==
  ASSUME CoreInv, NEW line \in Lines, Handle(line)
  PROVE  CoreInv'
<1> USE DEF CoreInv
<1>1. /\ app.pc = "prompt" /\ UNCHANGED readVars /\ UserTypes'
      /\ \/ Begun(line, app') /\ Quiet(line)
         \/ Begun(line, app') /\ Stops(line)
         \/ Begun(line, app') /\ AsksInVain(line)
         \/ \E cmd \in Commands : \E next : HandsOver(line, cmd, next)
         \/ Begun(line, app') /\ WalksOver(line)
         \/ Begun(line, app') /\ CollectsAll(line)
  BY HandleCases
<1>2. ReadTypes'
  BY <1>1 DEF ReadTypes, readVars
<1>3. wait_state # "active"
  BY <1>1 DEF IdsInv
<1>e. line.args.es \in Nat
  BY LineTyped
<1>r. Begun(line, app') => Renewed(app')
  BY Zenon DEF Begun, Renewed
<1>4. CASE Begun(line, app') /\ (Quiet(line) \/ Stops(line))
  <2>1. AppTypes' /\ app'.id = 0 /\ app'.pc # "waiting"
    BY <1>4, <1>r DEF Begun, Quiet, Stops, AppTypes, AppPcs
  <2>2. UNCHANGED <<waitVars, cmdVars>>
    BY <1>4 DEF Quiet, Stops
  <2>3. WaitTypes' /\ CmdTypes'
    BY <2>2 DEF WaitTypes, CmdTypes, waitVars, cmdVars
  <2>4. IdsInv'
    BY <1>3, <2>1, <2>2 DEF IdsInv, WaitTypes, waitVars, cmdVars
  <2>5. CheckedNeverFail'
    BY <1>4 DEF CheckedNeverFail, Begun, Quiet, Stops
  <2> QED  BY <1>1, <1>2, <2>1, <2>3, <2>4, <2>5
<1>5. CASE Begun(line, app') /\ AsksInVain(line)
  <2>1. AppTypes' /\ app'.id = 0 /\ app'.pc = "prompt"
    BY <1>5, <1>r DEF Begun, AsksInVain, AppTypes, AppPcs
  <2>2. /\ notification_id' = notification_id + 1
        /\ wait_state' = IF wait_state = "idle" THEN "primed" ELSE wait_state
        /\ notify_id' = IF wait_state = "idle" THEN notification_id ELSE notify_id
        /\ UNCHANGED <<waiting_sem, cmdVars>>
    BY <1>5 DEF AsksInVain
  <2>3. WaitTypes' /\ CmdTypes'
    BY <2>2 DEF WaitTypes, CmdTypes, cmdVars
  <2>4. IdsInv'
    <3>1. \A c \in 1 .. Len(sent') : sent'[c].id < notification_id'
      <4>1. \A c \in 1 .. Len(sent) : sent[c].id \in Nat /\ sent[c].id < notification_id
        BY SentTyped DEF IdsInv
      <4>2. UNCHANGED sent /\ notification_id \in Nat
        BY <2>2 DEF cmdVars, WaitTypes
      <4> QED  BY <4>1, <4>2, <2>2
    <3> QED  BY <1>3, <2>1, <2>2, <3>1 DEF IdsInv, WaitTypes
  <2>5. CheckedNeverFail'
    BY <2>1 DEF CheckedNeverFail
  <2> QED  BY <1>1, <1>2, <2>1, <2>3, <2>4, <2>5
<1>6. CASE \E cmd \in Commands : \E next : HandsOver(line, cmd, next)
  <2>0. PICK cmd \in Commands : \E next : HandsOver(line, cmd, next)
    BY <1>6
  <2>1. PICK next : HandsOver(line, cmd, next)
    BY <2>0
  <2>2. /\ DOMAIN next = AppFields /\ next.pc = "returned"
        /\ next.then \in {"prompt", "chunk"}
        /\ next.id = notification_id /\ next.at = 1 /\ next.es = 0
        /\ notification_id' = notification_id + 1
        /\ Issue(cmd, notification_id, TRUE, next) /\ Renewed(next)
    BY <2>1 DEF HandsOver, Begun, Renewed
  <2>3. notification_id \in Nat \ {0} /\ notify_id \in Nat /\ notify_id < notification_id
    BY DEF WaitTypes, IdsInv
  <2>4. next.pc \in AppPcs \ {"waiting"}
    BY <2>2 DEF AppPcs
  <2>5. /\ notification_id \in Nat /\ notification_id' \in Nat
        /\ notification_id' >= notification_id /\ notification_id < notification_id'
        /\ next.id < notification_id'
        /\ wait_state = "primed" => notify_id # notification_id /\ notify_id # next.id
        /\ next.then \in {"prompt", "chunk", "inputs"}
        /\ next.id \in Nat /\ next.at \in Nat \ {0} /\ next.es \in Nat
    BY <2>2, <2>3
  <2>6. TRUE \in BOOLEAN /\ app.pc # "waiting"
    BY <1>1
  <2>7. WaitTypes /\ CmdTypes /\ IdsInv
    OBVIOUS
  <2> HIDE DEF CoreInv
  <2>8. WaitTypes' /\ CmdTypes' /\ AppTypes' /\ IdsInv' /\ app'.pc \in {"waiting", next.pc}
    BY <2>2, <2>4, <2>5, <2>6, <2>7, HandedOver
  <2> QED  BY <1>1, <1>2, <2>2, <2>8 DEF CheckedNeverFail, CoreInv
<1>7. CASE Begun(line, app') /\ WalksOver(line)
  <2>1. AppTypes' /\ app'.id = 0 /\ app'.pc = "walking"
    BY <1>7, <1>e, <1>r DEF Begun, WalksOver, AppTypes, AppPcs
  <2>2. UNCHANGED <<waitVars, cmdVars>>
    BY <1>7 DEF WalksOver
  <2>3. WaitTypes' /\ CmdTypes'
    BY <2>2 DEF WaitTypes, CmdTypes, waitVars, cmdVars
  <2>4. IdsInv'
    BY <1>3, <2>1, <2>2 DEF IdsInv, WaitTypes, waitVars, cmdVars
  <2> QED  BY <1>1, <1>2, <2>1, <2>3, <2>4 DEF CheckedNeverFail
<1>8. CASE Begun(line, app') /\ CollectsAll(line)
  <2>1. /\ app'.id = notification_id /\ app'.pc = "inputs"
        /\ notification_id' = notification_id + 1
        /\ UNCHANGED <<wait_state, notify_id, waiting_sem, cmdVars>>
    BY <1>8 DEF CollectsAll
  <2>2. AppTypes'
    BY <1>8, <1>r DEF Begun, CollectsAll, AppTypes, AppPcs, WaitTypes
  <2>3. WaitTypes' /\ CmdTypes'
    BY <2>1 DEF WaitTypes, CmdTypes, cmdVars
  <2>4. IdsInv'
    <3>1. \A c \in 1 .. Len(sent') : sent'[c].id < notification_id'
      <4>1. \A c \in 1 .. Len(sent) : sent[c].id \in Nat /\ sent[c].id < notification_id
        BY SentTyped DEF IdsInv
      <4>2. UNCHANGED sent /\ notification_id \in Nat
        BY <2>1 DEF cmdVars, WaitTypes
      <4> QED  BY <4>1, <4>2, <2>1
    <3> QED  BY <1>3, <2>1, <3>1 DEF IdsInv, WaitTypes
  <2> QED  BY <1>1, <1>2, <2>1, <2>2, <2>3, <2>4 DEF CheckedNeverFail
<1> QED  BY <1>1, <1>4, <1>5, <1>6, <1>7, <1>8

\* Steps that only move the thread on.
Moves ==
  /\ UNCHANGED <<readVars, userVars, waitVars, cmdVars>>
  /\ app.pc # "waiting" /\ app'.pc \in AppPcs \ {"waiting", "returned"}
  /\ DOMAIN app' = AppFields
  /\ app'.then \in {app.then, "prompt"} /\ app'.id \in {app.id, 0}
  /\ app'.due = app.due
  /\ app'.at \in Nat \ {0} /\ app'.es \in Nat /\ Renewed(app')
  /\ app'.pc = "fails" => app'.line.handler \in Unchecked \/ app'.renewed

LEMMA MovesCore ==
  ASSUME CoreInv, Moves
  PROVE  CoreInv'
<1>1. /\ ReadTypes' /\ UserTypes' /\ WaitTypes' /\ CmdTypes'
  BY DEF CoreInv, Moves, ReadTypes, UserTypes, WaitTypes, CmdTypes, readVars, userVars,
         waitVars, cmdVars
<1>2. AppTypes'
  BY DEF CoreInv, Moves, AppTypes
<1>3. IdsInv'
  BY DEF CoreInv, Moves, IdsInv, WaitTypes, waitVars, cmdVars
<1>4. CheckedNeverFail'
  BY DEF Moves, CheckedNeverFail
<1> QED  BY <1>1, <1>2, <1>3, <1>4 DEF CoreInv

\* The handler returns to the prompt.
LEMMA ReturnMoves ==
  ASSUME CoreInv, Return, app.pc # "waiting",
         UNCHANGED <<readVars, userVars, waitVars, cmdVars>>
  PROVE  Moves /\ app'.pc = "prompt" /\ app'.shown = app.shown /\ app'.said = "nothing"
<1>1. app' = [Begin(NoLine) EXCEPT !.due = app.due, !.shown = app.shown]
  BY DEF Return
<1>2. /\ DOMAIN app' = AppFields /\ app'.pc = "prompt" /\ app'.then = "prompt"
      /\ app'.id = 0 /\ app'.at = 1 /\ app'.es = 0 /\ app'.due = app.due
      /\ app'.shown = app.shown /\ app'.said = "nothing"
      /\ app'.renewed = FALSE /\ app'.stale = FALSE
  BY <1>1 DEF Begin, AppFields
<1>3. Renewed(app')
  BY <1>2, Zenon DEF Renewed
<1> QED  BY <1>2, <1>3 DEF Moves, AppPcs

LEMMA ReportMoves ==
  ASSUME CoreInv, Report
  PROVE  Moves /\ app'.pc = "prompt" /\ app'.shown = app.shown /\ app'.said = "nothing"
<1>1. app.pc # "waiting" /\ Return /\ UNCHANGED <<readVars, userVars, waitVars, cmdVars>>
  BY DEF Report
<1> QED  BY <1>1, ReturnMoves

LEMMA UsesDeletedMoves ==
  ASSUME CoreInv, UsesDeleted
  PROVE  Moves /\ app'.pc = "fails" /\ app'.said = app.said
<1>1. /\ app' = [app EXCEPT !.pc = "fails"] /\ app.stale
      /\ app.pc \in {"walking", "outputs", "returned"}
      /\ UNCHANGED <<readVars, userVars, waitVars, cmdVars>>
  BY DEF UsesDeleted, Goto
<1> QED  BY <1>1 DEF CoreInv, AppTypes, AppPcs, AppFields, Renewed, Moves

\* What a step of a walk keeps.
KeepsWalk == app'.line = app.line /\ app'.order = app.order
             /\ app'.stale = app.stale /\ app'.said = app.said

LEMMA WalkStationMoves ==
  ASSUME CoreInv, WalkStation
  PROVE  /\ Moves /\ app'.shown = app.shown /\ app'.said \in {app.said, "nothing"}
         /\ app'.pc # "prompt" => KeepsWalk
<1>1. app.es \in Nat /\ app.at = 1
  BY DEF CoreInv, AppTypes, WalkStation
<1>2. \/ Return
      \/ app' \in {[app EXCEPT !.at = 2], [app EXCEPT !.es = app.es + 1]}
  BY DEF WalkStation
<1>3. /\ app.pc = "walking"
      /\ UNCHANGED <<readVars, userVars, waitVars, cmdVars>>
  BY DEF WalkStation
<1>4. CASE Return
  BY <1>3, <1>4, ReturnMoves
<1>5. CASE app' \in {[app EXCEPT !.at = 2], [app EXCEPT !.es = app.es + 1]}
  BY <1>1, <1>3, <1>5
     DEF CoreInv, AppTypes, AppPcs, AppFields, Renewed, Moves, KeepsWalk
<1> QED  BY <1>2, <1>4, <1>5

LEMMA AppTyped ==
  ASSUME CoreInv
  PROVE  /\ DOMAIN app = AppFields /\ app.pc \in AppPcs /\ Renewed(app)
         /\ app.then \in {"prompt", "chunk", "inputs"}
         /\ app.id \in Nat /\ app.at \in Nat \ {0} /\ app.es \in Nat
  BY DEF CoreInv, AppTypes

LEMMA WalkKindMoves ==
  ASSUME CoreInv, WalkKind
  PROVE  /\ Moves /\ app'.pc = "walking" /\ app'.said = app.said
         /\ app'.line = app.line /\ app'.order = app.order
<1>1. /\ DOMAIN app = AppFields /\ app.es \in Nat /\ app.at \in Nat \ {0}
      /\ app.pc = "walking" /\ Renewed(app)
      /\ UNCHANGED <<readVars, userVars, waitVars, cmdVars>>
  BY AppTyped DEF WalkKind
<1>2. \/ app' = [app EXCEPT !.es = app.es + 1, !.at = 1, !.stale = FALSE]
      \/ \E s : app' = [app EXCEPT !.at = app.at + 1, !.shown = s]
  BY DEF WalkKind
<1>3. CASE app' = [app EXCEPT !.es = app.es + 1, !.at = 1, !.stale = FALSE]
  BY <1>1, <1>3 DEF AppPcs, AppFields, Renewed, Moves
<1>4. CASE \E s : app' = [app EXCEPT !.at = app.at + 1, !.shown = s]
  <2>1. PICK s : app' = [app EXCEPT !.at = app.at + 1, !.shown = s]
    BY <1>4
  <2> QED  BY <1>1, <2>1 DEF AppPcs, AppFields, Renewed, Moves
<1> QED  BY <1>2, <1>3, <1>4

LEMMA WalkDetailsMoves ==
  ASSUME CoreInv, WalkDetails
  PROVE  /\ Moves /\ app'.said \in {app.said, "nothing"}
         /\ app'.pc # "prompt" => KeepsWalk /\ app'.es = app.es
<1>1. /\ DOMAIN app = AppFields /\ app.es \in Nat /\ app.at \in Nat \ {0}
      /\ app.pc = "walking" /\ app.line.handler \in Unchecked /\ Renewed(app)
      /\ UNCHANGED <<readVars, userVars, waitVars, cmdVars>>
  BY AppTyped DEF WalkDetails, Unchecked
<1>2. \/ Return
      \/ app' = [app EXCEPT !.pc = "fails"]
      \/ app' = [app EXCEPT !.at = app.at + 1]
      \/ \E s : app' = [app EXCEPT !.at = app.at + 1, !.shown = s]
  BY DEF WalkDetails
<1>r. CASE Return
  BY <1>1, <1>r, ReturnMoves
<1>3. CASE app' = [app EXCEPT !.pc = "fails"]
  BY <1>1, <1>3 DEF AppPcs, AppFields, Renewed, Moves, KeepsWalk
<1>4. CASE app' = [app EXCEPT !.at = app.at + 1]
  BY <1>1, <1>4 DEF AppPcs, AppFields, Renewed, Moves, KeepsWalk
<1>5. CASE \E s : app' = [app EXCEPT !.at = app.at + 1, !.shown = s]
  <2>1. PICK s : app' = [app EXCEPT !.at = app.at + 1, !.shown = s]
    BY <1>5
  <2> QED  BY <1>1, <2>1 DEF AppPcs, AppFields, Renewed, Moves, KeepsWalk
<1> QED  BY <1>2, <1>r, <1>3, <1>4, <1>5

LEMMA CollectedMoves ==
  ASSUME CoreInv, Collected
  PROVE  Moves /\ app'.pc = "inputs" /\ app'.shown = app.shown /\ app'.said = app.said
<1>1. app.es \in Nat
  BY DEF CoreInv, AppTypes
<1>2. app' = [app EXCEPT !.pc = "inputs", !.es = app.es + 1, !.stale = FALSE]
  BY DEF Collected, NextStation
<1> QED
  BY <1>1, <1>2 DEF CoreInv, AppTypes, AppPcs, AppFields, Renewed, Moves, Collected

\* A later command of a handler: next is the thread if it is not held.
Adds(cmd, id, prime, next) ==
  /\ UNCHANGED <<readVars, userVars>>
  /\ app.pc # "waiting"
  /\ cmd \in Commands /\ id \in Nat /\ prime \in BOOLEAN
  /\ notification_id' \in Nat /\ notification_id' >= notification_id
  /\ id < notification_id' /\ next.id = app.id
  /\ wait_state = "primed" => notify_id # id
  /\ DOMAIN next = AppFields
  /\ next.pc \in {"returned", "inputs", "outputs"}
  /\ next.then \in {"prompt", "chunk", "inputs"}
  /\ next.at \in Nat \ {0} /\ next.es \in Nat /\ Renewed(next)
  /\ next.line = app.line /\ next.due = app.due /\ next.shown = app.shown
  /\ next.said = app.said
  /\ Issue(cmd, id, prime, next)

LEMMA AddsCore ==
  ASSUME CoreInv, NEW cmd, NEW id, NEW prime, NEW next, Adds(cmd, id, prime, next)
  PROVE  CoreInv' /\ app'.pc \in {"waiting", next.pc}
<1>1. WaitTypes /\ CmdTypes /\ IdsInv /\ AppTypes
  BY DEF CoreInv
<1>2. /\ app.pc # "waiting" /\ cmd \in Commands /\ id \in Nat /\ prime \in BOOLEAN
      /\ DOMAIN next = AppFields /\ next.pc \in AppPcs \ {"waiting"}
      /\ next.then \in {"prompt", "chunk", "inputs"}
      /\ next.at \in Nat \ {0} /\ next.es \in Nat /\ Renewed(next)
      /\ notification_id' \in Nat /\ notification_id' >= notification_id
      /\ id < notification_id'
      /\ Issue(cmd, id, prime, next)
  BY DEF Adds, AppPcs
<1>3. /\ next.id \in Nat /\ next.id < notification_id'
      /\ wait_state = "primed" => notify_id # id /\ notify_id # next.id
  BY <1>1 DEF Adds, AppTypes, IdsInv, WaitTypes
<1>4. WaitTypes' /\ CmdTypes' /\ AppTypes' /\ IdsInv' /\ app'.pc \in {"waiting", next.pc}
  BY <1>1, <1>2, <1>3, HandedOver
<1>5. ReadTypes' /\ UserTypes'
  BY DEF Adds, CoreInv, ReadTypes, UserTypes, readVars, userVars
<1>6. app'.pc # "fails"
  BY <1>4 DEF Adds
<1> QED  BY <1>4, <1>5, <1>6 DEF CoreInv, CheckedNeverFail

\* What is left of a handler's commands when one more is handed over.
LEMMA AddsStep ==
  ASSUME CoreInv, NEW cmd, NEW id, NEW prime, NEW next, Adds(cmd, id, prime, next)
  PROVE  /\ Len(sent') = Len(sent) + 1
         /\ \A d \in 1 .. Len(sent) : sent'[d] = sent[d] /\ ended'[d] = ended[d]
         /\ sent'[Len(sent) + 1] = [cmd |-> cmd, id |-> id]
         /\ prime /\ wait_state = "idle" =>
              notify_id' = id /\ wait_state' = "active" /\ app'.pc = "waiting"
         /\ ~(prime /\ wait_state = "idle") =>
              notify_id' = notify_id /\ wait_state' = wait_state /\ app'.pc = next.pc
         /\ UNCHANGED <<taken, completion_status, waiting_sem, resp_status>>
         /\ app'.then = next.then /\ app'.id = next.id /\ app'.at = next.at
         /\ app'.line = app.line /\ app'.due = app.due /\ app'.shown = app.shown
         /\ app'.said = app.said
<1>1. WaitTypes /\ CmdTypes
  BY DEF CoreInv
<1>2. /\ cmd \in Commands /\ id \in Nat /\ prime \in BOOLEAN
      /\ DOMAIN next = AppFields
      /\ wait_state = "primed" => notify_id # id
      /\ Issue(cmd, id, prime, next)
  BY DEF Adds
<1>3. /\ Len(sent') = Len(sent) + 1
      /\ \A d \in 1 .. Len(sent) : sent'[d] = sent[d] /\ ended'[d] = ended[d]
      /\ sent'[Len(sent) + 1] = [cmd |-> cmd, id |-> id]
      /\ \A f \in AppFields \ {"pc"} : app'[f] = next[f]
      /\ prime /\ wait_state = "idle" =>
           notify_id' = id /\ wait_state' = "active" /\ app'.pc = "waiting"
      /\ ~(prime /\ wait_state = "idle") =>
           notify_id' = notify_id /\ wait_state' = wait_state /\ app'.pc = next.pc
      /\ UNCHANGED <<taken, completion_status, waiting_sem, resp_status>>
  BY <1>1, <1>2, IssueStep
<1>4. /\ app'.then = next.then /\ app'.id = next.id /\ app'.at = next.at
      /\ app'.line = next.line /\ app'.due = next.due /\ app'.shown = next.shown
      /\ app'.said = next.said
  BY <1>3 DEF AppFields
<1>5. /\ next.line = app.line /\ next.due = app.due /\ next.shown = app.shown
      /\ next.said = app.said
  BY DEF Adds
<1> QED  BY <1>3, <1>4, <1>5

\* Stays(p): the thread goes on at p, keeps what was shown and says nothing new.
Stays(pcs) == /\ Moves /\ app'.pc \in pcs
              /\ app'.shown = app.shown /\ app'.said \in {app.said, "nothing"}

LEMMA CollectInputsAdds ==
  ASSUME CoreInv, CollectInputs
  PROVE  \/ Stays({"prompt", "inputs", "outputs"})
         \/ \E cmd, next :
              /\ Adds(cmd, app.id, FALSE, next)
              /\ cmd.call = "GET_RX_STATE" /\ next.pc = "outputs"
<1>1. /\ DOMAIN app = AppFields /\ app.then \in {"prompt", "chunk", "inputs"}
      /\ app.id \in Nat /\ app.at \in Nat \ {0} /\ app.es \in Nat /\ Renewed(app)
  BY AppTyped
<1>2. app.pc = "inputs" /\ UNCHANGED <<readVars, userVars>>
  BY DEF CollectInputs
<1> DEFINE moved == [app EXCEPT !.pc = "inputs", !.es = app.es + 1, !.stale = FALSE]
<1>3. \/ /\ Return \/ app' = [app EXCEPT !.pc = "outputs"] \/ app' = moved
         /\ UNCHANGED <<waitVars, cmdVars>>
      \/ /\ Issue(Cmd(app.es, "STREAM_INPUT", "GET_RX_STATE"), app.id, FALSE,
                  [app EXCEPT !.pc = "outputs"])
         /\ UNCHANGED notification_id
  BY DEF CollectInputs, Goto, NextStation
<1>4. CASE /\ Return \/ app' = [app EXCEPT !.pc = "outputs"] \/ app' = moved
           /\ UNCHANGED <<waitVars, cmdVars>>
  <2>1. CASE Return
    <3>1. Stays({"prompt", "inputs", "outputs"})
      BY <1>2, <1>4, <2>1, ReturnMoves DEF Stays
    <3> QED  BY <3>1
  <2>2. CASE app' = [app EXCEPT !.pc = "outputs"]
    <3>1. Stays({"prompt", "inputs", "outputs"})
      BY <1>1, <1>2, <1>4, <2>2 DEF Stays, Moves, AppPcs, AppFields, Renewed
    <3> QED  BY <3>1
  <2>3. CASE app' = moved
    <3>1. Stays({"prompt", "inputs", "outputs"})
      BY <1>1, <1>2, <1>4, <2>3 DEF Stays, Moves, AppPcs, AppFields, Renewed
    <3> QED  BY <3>1
  <2> QED  BY <1>4, <2>1, <2>2, <2>3
<1>5. CASE /\ Issue(Cmd(app.es, "STREAM_INPUT", "GET_RX_STATE"), app.id, FALSE,
                    [app EXCEPT !.pc = "outputs"])
           /\ UNCHANGED notification_id
  <2> DEFINE cmd == Cmd(app.es, "STREAM_INPUT", "GET_RX_STATE")
             next == [app EXCEPT !.pc = "outputs"]
  <2>1. /\ DOMAIN next = AppFields /\ next.pc = "outputs" /\ next.then = app.then
        /\ next.id = app.id /\ next.at = app.at /\ next.es = app.es
        /\ next.line = app.line /\ next.due = app.due /\ next.shown = app.shown
        /\ next.said = app.said /\ Renewed(next)
    BY <1>1 DEF AppFields, Renewed
  <2>2. cmd \in Commands /\ cmd.call = "GET_RX_STATE"
    <3>1. "STREAM_INPUT" \in Targets /\ "GET_RX_STATE" \in CommandCalls
      BY DEF Targets, DescriptorKinds, CommandCalls
    <3>2. cmd \in Commands
      BY <1>1, <3>1, CmdTyped
    <3> QED  BY <3>2 DEF Cmd
  <2>3. Issue(cmd, app.id, FALSE, next)
    BY <1>5
  <2> HIDE DEF cmd, next
  <2>4. /\ notification_id' \in Nat /\ notification_id' >= notification_id
        /\ app.id < notification_id' /\ FALSE \in BOOLEAN
        /\ wait_state = "primed" => notify_id # app.id
    BY <1>5 DEF CoreInv, WaitTypes, IdsInv
  <2>5. /\ app.pc # "waiting" /\ next.pc \in {"returned", "inputs", "outputs"}
        /\ next.then \in {"prompt", "chunk", "inputs"}
        /\ next.at \in Nat \ {0} /\ next.es \in Nat
    BY <1>1, <1>2, <2>1
  <2>6. Adds(cmd, app.id, FALSE, next)
    BY <1>1, <1>2, <2>1, <2>2, <2>3, <2>4, <2>5, Zenon DEF Adds
  <2> QED  BY <2>1, <2>2, <2>6
<1> QED  BY <1>3, <1>4, <1>5

LEMMA CollectOutputsAdds ==
  ASSUME CoreInv, CollectOutputs
  PROVE  \/ Stays({"inputs"})
         \/ \E cmd, prime, next :
              /\ Adds(cmd, app.id, prime, next)
              /\ cmd.call = "GET_TX_STATE"
              /\ prime => next.pc = "returned" /\ next.then = "inputs"
              /\ ~prime => next.pc = "inputs"
<1>1. /\ DOMAIN app = AppFields /\ app.then \in {"prompt", "chunk", "inputs"}
      /\ app.id \in Nat /\ app.at \in Nat \ {0} /\ app.es \in Nat /\ Renewed(app)
  BY AppTyped
<1>2. app.pc = "outputs" /\ UNCHANGED <<readVars, userVars>>
  BY DEF CollectOutputs
<1> DEFINE final == app.es = count - 1
           cmd == Cmd(app.es, "STREAM_OUTPUT", "GET_TX_STATE")
           moved == [app EXCEPT !.pc = "inputs", !.es = app.es + 1, !.stale = FALSE]
           next == IF final THEN [app EXCEPT !.pc = "returned", !.then = "inputs"]
                   ELSE moved
<1>3. \/ app' = moved /\ UNCHANGED <<waitVars, cmdVars>>
      \/ Issue(cmd, app.id, final, next) /\ UNCHANGED notification_id
  BY Zenon DEF CollectOutputs, NextStation
<1>4. CASE app' = moved /\ UNCHANGED <<waitVars, cmdVars>>
  BY <1>1, <1>2, <1>4 DEF Stays, Moves, AppPcs, AppFields, Renewed
<1>5. CASE Issue(cmd, app.id, final, next) /\ UNCHANGED notification_id
  <2>1. /\ DOMAIN next = AppFields /\ next.then \in {"prompt", "chunk", "inputs"}
        /\ next.id = app.id /\ next.at = app.at /\ next.es \in Nat
        /\ next.line = app.line /\ next.due = app.due /\ next.shown = app.shown
        /\ next.said = app.said
        /\ next.pc \in {"returned", "inputs"}
        /\ final => next.pc = "returned" /\ next.then = "inputs"
        /\ ~final => next.pc = "inputs"
        /\ next.renewed = app.renewed
        /\ next.stale = IF final THEN app.stale ELSE FALSE
    <3>1. CASE final
      BY <1>1, <3>1 DEF AppFields
    <3>2. CASE ~final
      BY <1>1, <3>2 DEF AppFields
    <3> QED  BY <3>1, <3>2
  <2>r. Renewed(next)
    <3> HIDE DEF next, final
    <3> QED  BY <1>1, <2>1 DEF Renewed
  <2>2. cmd \in Commands /\ cmd.call = "GET_TX_STATE"
    <3>1. "STREAM_OUTPUT" \in Targets /\ "GET_TX_STATE" \in CommandCalls
      BY DEF Targets, DescriptorKinds, CommandCalls
    <3>2. cmd \in Commands
      BY <1>1, <3>1, CmdTyped
    <3> QED  BY <3>2 DEF Cmd
  <2>3. final \in BOOLEAN
    OBVIOUS
  <2> HIDE DEF cmd, next, final
  <2>4. /\ notification_id' = notification_id /\ notification_id \in Nat
        /\ app.id < notification_id
        /\ wait_state = "primed" => notify_id # app.id
    BY <1>5 DEF CoreInv, WaitTypes, IdsInv
  <2>5. Adds(cmd, app.id, final, next)
    BY <1>1, <1>2, <1>5, <2>1, <2>r, <2>2, <2>3, <2>4 DEF Adds
  <2> QED  BY <2>1, <2>2, <2>5
<1> QED  BY <1>3, <1>4, <1>5

\* Why the upgrade goes on, ends or is given up.
Block == [es |-> current_end_station, kind |-> "MEMORY_OBJECT",
          call |-> "ADDRESS_ACCESS", talker |-> app.at]

LEMMA UpgradeAdds ==
  ASSUME CoreInv, Upgrade
  PROVE  /\ app.pc = "returned" /\ app.then = "chunk"
         /\ \/ /\ Moves /\ app'.pc = "prompt" /\ app'.shown = app.shown
               /\ app'.said = "nothing"
            \/ /\ resp_status.outcome = "success" /\ app.at > Chunks
               /\ Moves /\ app'.pc = "asking" /\ app'.shown = app.shown
            \/ \E next :
                 /\ resp_status.outcome = "success"
                 /\ Adds(Block, app.id, TRUE, next)
                 /\ next.pc = "returned" /\ next.then = "chunk"
                 /\ next.at = app.at + 1
<1>1. /\ DOMAIN app = AppFields /\ app.then \in {"prompt", "chunk", "inputs"}
      /\ app.id \in Nat /\ app.at \in Nat \ {0} /\ app.es \in Nat /\ Renewed(app)
  BY AppTyped
<1>2. /\ app.pc = "returned" /\ app.then = "chunk" /\ UNCHANGED <<readVars, userVars>>
  BY DEF Upgrade
<1> DEFINE next == [app EXCEPT !.at = app.at + 1]
<1>3. \/ /\ Return
         /\ UNCHANGED <<waitVars, cmdVars>>
      \/ /\ resp_status.outcome = "success" /\ app.at > Chunks
         /\ app' = [app EXCEPT !.pc = "asking", !.said = "upgraded"]
         /\ UNCHANGED <<waitVars, cmdVars>>
      \/ /\ resp_status.outcome = "success"
         /\ Issue(Block, app.id, TRUE, next)
         /\ UNCHANGED notification_id
  BY Zenon DEF Upgrade, UpgradeFails, Block
<1>4. CASE /\ Return
           /\ UNCHANGED <<waitVars, cmdVars>>
  <2>1. Moves /\ app'.pc = "prompt" /\ app'.shown = app.shown /\ app'.said = "nothing"
    BY <1>2, <1>4, ReturnMoves
  <2> QED  BY <1>2, <2>1
<1>5. CASE /\ resp_status.outcome = "success" /\ app.at > Chunks
           /\ app' = [app EXCEPT !.pc = "asking", !.said = "upgraded"]
           /\ UNCHANGED <<waitVars, cmdVars>>
  <2>1. Moves /\ app'.pc = "asking" /\ app'.shown = app.shown
    BY <1>1, <1>2, <1>5 DEF Moves, AppPcs, AppFields, Renewed
  <2> QED  BY <1>2, <1>5, <2>1
<1>6. CASE /\ resp_status.outcome = "success"
           /\ Issue(Block, app.id, TRUE, next)
           /\ UNCHANGED notification_id
  <2>1. /\ DOMAIN next = AppFields /\ next.pc = "returned" /\ next.then = "chunk"
        /\ next.id = app.id /\ next.at = app.at + 1 /\ next.es = app.es
        /\ next.line = app.line /\ next.due = app.due /\ next.shown = app.shown
        /\ next.said = app.said /\ Renewed(next)
    BY <1>1, <1>2 DEF AppFields, Renewed
  <2>2. Block \in Commands
    <3>1. "MEMORY_OBJECT" \in Targets /\ "ADDRESS_ACCESS" \in CommandCalls
      BY DEF Targets, DescriptorKinds, CommandCalls
    <3>2. current_end_station \in Nat
      BY LineAssumption DEF CoreInv, UserTypes, EndStations, LineAssumption
    <3> QED  BY <1>1, <3>1, <3>2 DEF Block, Commands
  <2> HIDE DEF next
  <2>3. Issue(Block, app.id, TRUE, next)
    BY <1>6
  <2>4. /\ notification_id' \in Nat /\ notification_id' >= notification_id
        /\ app.id < notification_id' /\ TRUE \in BOOLEAN
        /\ wait_state = "primed" => notify_id # app.id
    BY <1>6 DEF CoreInv, WaitTypes, IdsInv
  <2>5. /\ app.pc # "waiting" /\ next.pc \in {"returned", "inputs", "outputs"}
        /\ next.then \in {"prompt", "chunk", "inputs"}
        /\ next.at \in Nat \ {0} /\ next.es \in Nat
    BY <1>1, <1>2, <2>1
  <2>6. Adds(Block, app.id, TRUE, next)
    BY <1>1, <1>2, <2>1, <2>2, <2>3, <2>4, <2>5, Zenon DEF Adds
  <2> QED  BY <1>2, <1>6, <2>1, <2>6
<1> QED  BY <1>3, <1>4, <1>5, <1>6

LEMMA AnswerAdds ==
  ASSUME CoreInv, NEW yes \in BOOLEAN, Answer(yes)
  PROVE  /\ app.pc = "asking"
         /\ \/ Stays({"prompt"})
            \/ \E cmd, next :
                 /\ Adds(cmd, notification_id, TRUE, next)
                 /\ next.pc = "returned" /\ next.then = "prompt"
<1>1. /\ DOMAIN app = AppFields /\ app.then \in {"prompt", "chunk", "inputs"}
      /\ app.id \in Nat /\ app.at \in Nat \ {0} /\ app.es \in Nat /\ Renewed(app)
  BY AppTyped
<1>2. /\ app.pc = "asking" /\ UNCHANGED <<readVars, userVars>>
  BY DEF Answer
<1> DEFINE cmd == Cmd(current_end_station, "ENTITY", "REBOOT")
           next == [app EXCEPT !.pc = "returned", !.then = "prompt"]
           r == cmd_reboot(app.line.args)
<1>r. r.does = "sends" => r.cmd = cmd
  BY DEF cmd_reboot, OnConfig, OnStation, Says, Sends
<1> HIDE DEF r, cmd
<1>3. \/ Return /\ UNCHANGED <<waitVars, cmdVars>>
      \/ /\ notification_id' = notification_id + 1
         /\ Issue(cmd, notification_id, TRUE, next)
  <2>1. \/ Return /\ UNCHANGED <<waitVars, cmdVars>>
        \/ /\ r.does = "sends" /\ notification_id' = notification_id + 1
           /\ Issue(r.cmd, notification_id, TRUE, next)
    BY Zenon DEF Answer, get_next_notification_id, r
  <2> QED  BY <1>r, <2>1
<1>4. CASE Return /\ UNCHANGED <<waitVars, cmdVars>>
  BY <1>2, <1>4, ReturnMoves DEF Stays
<1>5. CASE /\ notification_id' = notification_id + 1
           /\ Issue(cmd, notification_id, TRUE, next)
  <2>1. /\ DOMAIN next = AppFields /\ next.pc = "returned" /\ next.then = "prompt"
        /\ next.id = app.id /\ next.at = app.at /\ next.es = app.es
        /\ next.line = app.line /\ next.due = app.due /\ next.shown = app.shown
        /\ next.said = app.said /\ Renewed(next)
    BY <1>1 DEF AppFields, Renewed
  <2>2. cmd \in Commands
    <3>1. "ENTITY" \in Targets /\ "REBOOT" \in CommandCalls
      BY DEF Targets, CommandCalls
    <3>2. current_end_station \in Nat
      BY LineAssumption DEF CoreInv, UserTypes, EndStations, LineAssumption
    <3> QED  BY <3>1, <3>2, CmdTyped DEF cmd
  <2> HIDE DEF next
  <2>4. /\ notification_id' \in Nat /\ notification_id' >= notification_id
        /\ notification_id \in Nat /\ notification_id < notification_id'
        /\ TRUE \in BOOLEAN
        /\ wait_state = "primed" => notify_id # notification_id
    BY <1>5 DEF CoreInv, WaitTypes, IdsInv
  <2>5. /\ app.pc # "waiting" /\ next.pc \in {"returned", "inputs", "outputs"}
        /\ next.then \in {"prompt", "chunk", "inputs"}
        /\ next.at \in Nat \ {0} /\ next.es \in Nat
    BY <1>1, <1>2, <2>1
  <2>6. Adds(cmd, notification_id, TRUE, next)
    BY <1>1, <1>2, <1>5, <2>1, <2>2, <2>4, <2>5, Zenon DEF Adds
  <2> QED  BY <1>2, <2>1, <2>6
<1> QED  BY <1>3, <1>4, <1>5

LEMMA WakeCore ==
  ASSUME CoreInv, Wake
  PROVE  /\ CoreInv' /\ app.pc = "waiting" /\ app'.pc = "returned"
         /\ wait_state' = "idle" /\ waiting_sem' = waiting_sem - 1
         /\ resp_status' = completion_status
         /\ UNCHANGED <<readVars, userVars, cmdVars, notify_id>>
         /\ app'.then = app.then /\ app'.id = app.id /\ app'.at = app.at
         /\ app'.due = app.due /\ app'.shown = app.shown /\ app'.said = app.said
<1>1. /\ DOMAIN app = AppFields /\ app.then \in {"prompt", "chunk", "inputs"}
      /\ app.id \in Nat /\ app.at \in Nat \ {0} /\ app.es \in Nat /\ Renewed(app)
  BY AppTyped
<1>2. /\ app.pc = "waiting" /\ waiting_sem > 0 /\ waiting_sem' = waiting_sem - 1
      /\ resp_status' = completion_status /\ wait_state' = "idle"
      /\ app' = [app EXCEPT !.pc = "returned"]
      /\ UNCHANGED <<readVars, userVars, cmdVars, notification_id, notify_id,
                     completion_status>>
  BY DEF Wake, Goto
<1>3. /\ DOMAIN app' = AppFields /\ app'.pc = "returned"
      /\ app'.then = app.then /\ app'.id = app.id /\ app'.at = app.at
      /\ app'.es = app.es
      /\ app'.due = app.due /\ app'.shown = app.shown /\ app'.said = app.said
      /\ Renewed(app')
  BY <1>1, <1>2 DEF AppFields, Renewed
<1>4. /\ ReadTypes' /\ UserTypes' /\ CmdTypes'
  BY <1>2 DEF CoreInv, ReadTypes, UserTypes, CmdTypes, readVars, userVars, cmdVars
<1>5. WaitTypes'
  BY <1>2 DEF CoreInv, WaitTypes
<1>6. AppTypes' /\ CheckedNeverFail'
  BY <1>1, <1>3 DEF AppTypes, CheckedNeverFail, AppPcs
<1>7. IdsInv'
  BY <1>2, <1>3 DEF CoreInv, IdsInv, cmdVars
<1> QED  BY <1>2, <1>3, <1>4, <1>5, <1>6, <1>7 DEF CoreInv

\* The poll thread reads on and sends.
ReadsOn ==
  \/ Discover
  \/ \E es \in EndStations : ReadNext(es) \/ ReadGroup(es)
  \/ SendNext

LEMMA ReadsCore ==
  ASSUME CoreInv, ReadsOn
  PROVE  CoreInv' /\ Grows /\ UNCHANGED <<userVars, waitVars, sent, ended, app>>
<1> USE DEF CoreInv
<1>n. /\ NumStations \in Nat /\ count \in Nat /\ progress \in [EndStations -> Nat]
      /\ descs \in [EndStations -> SUBSET DescriptorKinds]
  BY LineAssumption DEF LineAssumption, ReadTypes
<1>1. CASE Discover
  BY <1>1, <1>n DEF Discover, ReadTypes, UserTypes, WaitTypes, CmdTypes, AppTypes, IdsInv,
         CheckedNeverFail, Grows, userVars, waitVars, cmdVars
<1>2. CASE \E es \in EndStations : ReadNext(es) \/ ReadGroup(es)
  <2>1. PICK es \in EndStations : ReadNext(es) \/ ReadGroup(es)
    BY <1>2
  <2>2. UNCHANGED <<count, userVars, waitVars, cmdVars, app>>
    BY <2>1 DEF ReadNext, ReadGroup
  <2>3. /\ progress' \in [EndStations -> Nat]
        /\ descs' \in [EndStations -> SUBSET DescriptorKinds]
        /\ \A e \in EndStations : progress'[e] >= progress[e] /\ descs[e] \subseteq descs'[e]
    <3>1. CASE ReadNext(es)
      <4>1. progress' = [progress EXCEPT ![es] = progress[es] + 1] /\ descs' = descs
        BY <3>1 DEF ReadNext
      <4> QED  BY <1>n, <4>1
    <3>2. CASE ReadGroup(es)
      <4>1. progress' = progress
        BY <3>2 DEF ReadGroup
      <4>2. PICK k \in DOMAIN DeviceOrder[es] :
              descs' = [descs EXCEPT ![es] = descs[es] \cup DeviceOrder[es][k]]
        BY <3>2 DEF ReadGroup
      <4>3. DeviceOrder[es] \in Seq(SUBSET DescriptorKinds)
        BY LineAssumption DEF LineAssumption, EndStations
      <4>4. DeviceOrder[es][k] \subseteq DescriptorKinds
        BY <4>2, <4>3
      <4> QED  BY <1>n, <4>1, <4>2, <4>4
    <3> QED  BY <2>1, <3>1, <3>2
  <2>4. ReadTypes' /\ Grows
    BY <1>n, <2>2, <2>3 DEF ReadTypes, Grows
  <2>5. UserTypes' /\ WaitTypes'
    BY <2>2 DEF UserTypes, WaitTypes, userVars, waitVars
  <2>6. CmdTypes' /\ CheckedNeverFail'
    BY <2>2 DEF CmdTypes, CheckedNeverFail, cmdVars
  <2>7. AppTypes'
    BY <2>2 DEF AppTypes
  <2>8. IdsInv'
    BY <2>2 DEF IdsInv, waitVars, cmdVars
  <2>9. UNCHANGED <<userVars, waitVars, sent, ended, app>>
    BY <2>2 DEF cmdVars
  <2> QED  BY <2>4, <2>5, <2>6, <2>7, <2>8, <2>9
<1>3. CASE SendNext
  <2>1. /\ taken < Len(sent) /\ taken' = taken + 1
        /\ UNCHANGED <<readVars, userVars, waitVars, sent, ended, app>>
    BY <1>3 DEF SendNext
  <2>2. CmdTypes'
    BY <2>1 DEF CmdTypes
  <2> QED
    BY <1>n, <2>1, <2>2 DEF ReadTypes, UserTypes, WaitTypes, AppTypes, IdsInv,
       CheckedNeverFail, Grows, readVars, userVars, waitVars
<1> QED  BY <1>1, <1>2, <1>3 DEF ReadsOn

\* An end station is enumerated again: the thread stays where it is.
LEMMA ReenumerateStep ==
  ASSUME CoreInv, NEW es \in EndStations, Reenumerate(es)
  PROVE  /\ CoreInv'
         /\ UNCHANGED <<count, current_end_station, waitVars, sent, ended>>
         /\ \A e \in EndStations \ {es} :
              /\ progress'[e] = progress[e] /\ descs'[e] = descs[e]
              /\ current_config'[e] = current_config[e]
         /\ app'.pc = app.pc /\ app'.then = app.then /\ app'.id = app.id
         /\ app'.at = app.at /\ app'.es = app.es /\ app'.said = app.said
         /\ app'.line = app.line /\ app'.order = app.order
         /\ \/ app' = app /\ app.pc # "walking"
            \/ /\ app'.due = {r \in app.due : r[1] # es}
               /\ app'.shown = {r \in app.shown : r[1] # es}
               /\ app'.stale => app.stale \/ PointsInto(es)
<1> USE DEF CoreInv
<1>1. /\ progress' = [progress EXCEPT ![es] = 0] /\ descs' = [descs EXCEPT ![es] = {}]
      /\ current_config' = [current_config EXCEPT ![es] = 0]
      /\ UNCHANGED <<count, current_end_station, settings, waitVars, cmdVars>>
  BY DEF Reenumerate
<1> DEFINE pointed == app.stale \/ PointsInto(es)
           renewed == [app EXCEPT !.renewed = TRUE, !.stale = pointed,
                                  !.due = {r \in app.due : r[1] # es},
                                  !.shown = {r \in app.shown : r[1] # es}]
<1>p. pointed \in BOOLEAN
  BY AppTyped DEF Renewed, PointsInto
<1>2. app' = renewed \/ (app' = app /\ app.pc \in {"prompt", "fails", "quits"})
  BY DEF Reenumerate
<1>3. /\ DOMAIN renewed = AppFields
      /\ renewed.pc = app.pc /\ renewed.then = app.then /\ renewed.id = app.id
      /\ renewed.at = app.at /\ renewed.es = app.es /\ renewed.said = app.said
      /\ renewed.line = app.line /\ renewed.order = app.order
      /\ renewed.due = {r \in app.due : r[1] # es}
      /\ renewed.shown = {r \in app.shown : r[1] # es}
      /\ renewed.renewed = TRUE /\ renewed.stale = pointed
  BY AppTyped DEF AppFields
<1> HIDE DEF renewed
<1>4. /\ app'.pc = app.pc /\ app'.then = app.then /\ app'.id = app.id
      /\ app'.at = app.at /\ app'.es = app.es /\ app'.said = app.said
      /\ app'.line = app.line /\ app'.order = app.order
      /\ DOMAIN app' = AppFields /\ Renewed(app')
  BY <1>2, <1>3, <1>p, AppTyped DEF Renewed
<1>5. ReadTypes' /\ UserTypes'
  BY <1>1, LineAssumption DEF ReadTypes, UserTypes, LineAssumption
<1>6. WaitTypes' /\ CmdTypes'
  BY <1>1 DEF WaitTypes, CmdTypes, waitVars, cmdVars
<1>7. AppTypes'
  BY <1>4 DEF AppTypes
<1>8. IdsInv'
  BY <1>1, <1>4 DEF IdsInv, waitVars, cmdVars
<1>9. CheckedNeverFail'
  BY <1>2, <1>3 DEF CheckedNeverFail
<1>10. \A e \in EndStations \ {es} :
         /\ progress'[e] = progress[e] /\ descs'[e] = descs[e]
         /\ current_config'[e] = current_config[e]
  BY <1>1 DEF ReadTypes, UserTypes
<1> QED
  BY <1>1, <1>2, <1>3, <1>4, <1>5, <1>6, <1>7, <1>8, <1>9, <1>10 DEF cmdVars

\* A command ends, and the wait may be over.
EndsWith(c, how, status) ==
  /\ c \in 1 .. Len(sent) /\ c <= taken
  /\ ended[c] \in {"pending", "operating"}
  /\ how \in Outcomes \ {"pending"}
  /\ \/ how = "operating"
     \/ /\ status \in {TICK_TIMEOUT, StatusOf(c, how)}
        /\ status.outcome = "timeout" <=> how = "timeout"
  /\ Ends(c, how, status)

LEMMA EndsCases ==
  ASSUME CoreInv, NEW c \in DOMAIN sent,
         \/ \E outcome \in {"success", "operating"} : Answered(c, outcome)
         \/ Refused(c)
         \/ \E outcome \in {"success", "failed"} : OperationOver(c, outcome)
         \/ TimedOut(c)
  PROVE  \E how, status : EndsWith(c, how, status)
<1>1. c \in 1 .. Len(sent)
  BY SentTyped DEF CoreInv
<1>2. CASE \E outcome \in {"success", "operating"} : Answered(c, outcome)
  <2>1. PICK outcome \in {"success", "operating"} : Answered(c, outcome)
    BY <1>2
  <2>2. EndsWith(c, outcome, StatusOf(c, "success"))
    BY <1>1, <2>1 DEF Answered, EndsWith, Outcomes, StatusOf
  <2> QED  BY <2>2
<1>3. CASE Refused(c)
  <2>1. EndsWith(c, "failed", StatusOf(c, "failed"))
    BY <1>1, <1>3 DEF Refused, EndsWith, Outcomes, StatusOf
  <2> QED  BY <2>1
<1>4. CASE \E outcome \in {"success", "failed"} : OperationOver(c, outcome)
  <2>1. PICK outcome \in {"success", "failed"} : OperationOver(c, outcome)
    BY <1>4
  <2>2. EndsWith(c, outcome, StatusOf(c, outcome))
    BY <1>1, <2>1 DEF OperationOver, EndsWith, Outcomes, StatusOf
  <2> QED  BY <2>2
<1>5. CASE TimedOut(c)
  <2>1. EndsWith(c, "timeout", TICK_TIMEOUT)
    BY <1>1, <1>5 DEF TimedOut, EndsWith, Outcomes, TICK_TIMEOUT
  <2> QED  BY <2>1
<1> QED  BY <1>2, <1>3, <1>4, <1>5

LEMMA EndsStep ==
  ASSUME CoreInv, NEW c, NEW how, NEW status, EndsWith(c, how, status)
  PROVE  /\ ended' = [ended EXCEPT ![c] = how] /\ ended \in Seq(Outcomes)
         /\ DOMAIN ended = 1 .. Len(sent)
         /\ UNCHANGED <<readVars, userVars, notification_id, wait_state, notify_id,
                        resp_status, sent, taken, app>>
         /\ \/ /\ wait_state = "active" /\ sent[c].id = notify_id /\ how # "operating"
               /\ completion_status' = status /\ waiting_sem' = waiting_sem + 1
            \/ UNCHANGED <<completion_status, waiting_sem>>
<1>1. /\ ended \in Seq(Outcomes) /\ DOMAIN ended = 1 .. Len(sent)
      /\ taken \in Nat /\ c \in 1 .. Len(sent) /\ c <= taken /\ c \in 1 .. taken
  BY DEF CoreInv, CmdTypes, EndsWith
<1>2. /\ ended' = [ended EXCEPT ![c] = how]
      /\ Post([ended EXCEPT ![c] = how], c, status)
      /\ UNCHANGED <<readVars, userVars, notification_id, wait_state, notify_id,
                     resp_status, sent, taken, app>>
  BY DEF EndsWith, Ends
<1> DEFINE ends == [ended EXCEPT ![c] = how]
<1>3. ends[c] = how
  BY <1>1
<1> HIDE DEF ends
<1>4. \/ /\ wait_state = "active" /\ sent[c].id = notify_id
         /\ \A d \in 1 .. taken : sent[d].id = notify_id =>
              ends[d] \notin {"pending", "operating"}
         /\ completion_status' = status /\ waiting_sem' = waiting_sem + 1
      \/ UNCHANGED <<completion_status, waiting_sem>>
  <2>1. Post(ends, c, status)
    BY <1>2 DEF ends
  <2> QED  BY <2>1, Zenon DEF Post
<1> QED  BY <1>1, <1>2, <1>3, <1>4

LEMMA EndsCore ==
  ASSUME CoreInv, NEW c, NEW how, NEW status, EndsWith(c, how, status)
  PROVE  CoreInv'
<1>1. /\ ended' = [ended EXCEPT ![c] = how] /\ ended \in Seq(Outcomes)
      /\ DOMAIN ended = 1 .. Len(sent)
      /\ UNCHANGED <<readVars, userVars, notification_id, wait_state, notify_id,
                     resp_status, sent, taken, app>>
      /\ waiting_sem' \in {waiting_sem, waiting_sem + 1}
  BY EndsStep
<1>2. how \in Outcomes /\ c \in 1 .. Len(sent)
  BY DEF EndsWith
<1>3. CmdTypes'
  <2>1. ended' \in Seq(Outcomes) /\ Len(ended') = Len(ended)
    BY <1>1, <1>2
  <2> QED  BY <1>1, <2>1 DEF CoreInv, CmdTypes
<1>4. WaitTypes'
  BY <1>1 DEF CoreInv, WaitTypes
<1>5. ReadTypes' /\ UserTypes' /\ AppTypes' /\ IdsInv' /\ CheckedNeverFail'
  BY <1>1 DEF CoreInv, ReadTypes, UserTypes, AppTypes, IdsInv, CheckedNeverFail,
     readVars, userVars
<1> QED  BY <1>3, <1>4, <1>5 DEF CoreInv

LEMMA CoreInit ==
  ASSUME LineInit
  PROVE  CoreInv
<1> USE DEF LineInit
<1>1. ReadTypes /\ UserTypes
  BY LineAssumption DEF ReadTypes, UserTypes, Settings, Paths, EndStations, LineAssumption
<1>2. WaitTypes /\ CmdTypes
  BY DEF WaitTypes, CmdTypes
<1>3. /\ DOMAIN app = AppFields /\ app.pc = "prompt" /\ app.then = "prompt"
      /\ app.id = 0 /\ app.at = 1 /\ app.es = 0 /\ Renewed(app)
  BY DEF AppFields, Begin, Renewed
<1>4. AppTypes /\ IdsInv /\ CheckedNeverFail
  BY <1>3 DEF AppTypes, AppPcs, IdsInv, CheckedNeverFail
<1> QED  BY <1>1, <1>2, <1>4 DEF CoreInv

LEMMA CoreStep ==
  ASSUME CoreInv, [LineNext]_lineVars
  PROVE  CoreInv'
<1>1. CASE \E line \in Lines : Handle(line)
  BY <1>1, HandleCore
<1>2. CASE Wake
  BY <1>2, WakeCore
<1>3. CASE Report \/ UsesDeleted \/ WalkStation \/ WalkKind \/ WalkDetails \/ Collected
  BY <1>3, ReportMoves, UsesDeletedMoves, WalkStationMoves, WalkKindMoves,
     WalkDetailsMoves, CollectedMoves, MovesCore
<1>4. CASE CollectInputs
  BY <1>4, CollectInputsAdds, AddsCore, MovesCore DEF Stays
<1>5. CASE CollectOutputs
  BY <1>5, CollectOutputsAdds, AddsCore, MovesCore DEF Stays
<1>6. CASE Upgrade
  BY <1>6, UpgradeAdds, AddsCore, MovesCore
<1>7. CASE \E yes \in BOOLEAN : Answer(yes)
  BY <1>7, AnswerAdds, AddsCore, MovesCore DEF Stays
<1>8. CASE ReadsOn
  BY <1>8, ReadsCore
<1>e. CASE \E es \in EndStations : Reenumerate(es)
  BY <1>e, ReenumerateStep
<1>9. CASE \E c \in DOMAIN sent :
             \/ \E outcome \in {"success", "operating"} : Answered(c, outcome)
             \/ Refused(c)
             \/ \E outcome \in {"success", "failed"} : OperationOver(c, outcome)
             \/ TimedOut(c)
  BY <1>9, EndsCases, EndsCore
<1>10. CASE UNCHANGED lineVars
  BY <1>10 DEF CoreInv, ReadTypes, UserTypes, WaitTypes, CmdTypes, AppTypes, IdsInv,
         CheckedNeverFail, lineVars, readVars, userVars, waitVars, cmdVars
<1> QED
  BY <1>1, <1>2, <1>3, <1>4, <1>5, <1>6, <1>7, <1>8, <1>e, <1>9, <1>10
     DEF LineNext, AppNext, PollNext, ReadsOn
-----------------------------------------------------------------------------
(***************************************************************************)
(* The views.                                                              *)
(***************************************************************************)
LEMMA ThereKept ==
  ASSUME CoreInv, UNCHANGED <<readVars, current_config>>
  PROVE  /\ \A r : StillThere(r) => StillThere(r)'
         /\ \A es \in EndStations : Descs(es) \subseteq Descs(es)'
<1>1. ReadTypes /\ UserTypes /\ UNCHANGED <<count, progress, descs, current_config>>
  BY DEF CoreInv, readVars
<1>2. ReadTypes' /\ Grows
  BY <1>1, LineAssumption DEF ReadTypes, Grows, LineAssumption
<1> QED  BY <1>1, <1>2, StillThereStays

\* Steps of the thread that have nothing to do with a walk.
LEMMA ViewKept ==
  ASSUME ViewInv, app.pc \notin {"walking", "fails"}, app'.pc # "walking",
         app'.due = app.due, app'.shown = app.shown
  PROVE  ViewInv'
  BY DEF ViewInv

\* Reading on takes nothing away.
LEMMA ReadsView ==
  ASSUME CoreInv, CoreInv', ViewInv, UNCHANGED <<userVars, app>>, Grows
  PROVE  ViewInv'
<1>1. /\ \A r : StillThere(r) => StillThere(r)'
      /\ \A es \in EndStations : Descs(es) \subseteq Descs(es)'
  BY StillThereStays DEF CoreInv, userVars
<1>2. UNCHANGED <<app, current_end_station>>
  BY DEF userVars
<1>3. ViewAllInv => ViewAllInv'
  <2> SUFFICES ASSUME ViewAllInv
               PROVE  ViewAllInv'
    OBVIOUS
  <2>1. ASSUME NEW r \in app.due
        PROVE  StillThere(r)' /\ {"LOCALE", "STRINGS"} \subseteq Descs(r[1])'
    <3>1. StillThere(r) /\ {"LOCALE", "STRINGS"} \subseteq Descs(r[1])
      BY <2>1 DEF ViewAllInv
    <3>2. r[1] \in EndStations
      BY <3>1 DEF StillThere
    <3> QED  BY <1>1, <3>1, <3>2
  <2> QED  BY <1>2, <2>1 DEF ViewAllInv
<1>4. ViewDetailsInv => ViewDetailsInv'
  <2> SUFFICES ASSUME ViewDetailsInv
               PROVE  ViewDetailsInv'
    OBVIOUS
  <2>1. ASSUME NEW r \in app.due
        PROVE  StillThere(r)'
    BY <1>1, <2>1 DEF ViewDetailsInv
  <2> QED  BY <1>2, <2>1 DEF ViewDetailsInv
<1> QED  BY <1>2, <1>3, <1>4 DEF ViewInv

\* A view is not held to what was deleted.
LEMMA ReenumerateView ==
  ASSUME CoreInv, ViewInv, NEW es \in EndStations, Reenumerate(es)
  PROVE  ViewInv'
<1>1. /\ UNCHANGED <<count, current_end_station>>
      /\ \A e \in EndStations \ {es} :
           /\ progress'[e] = progress[e] /\ descs'[e] = descs[e]
           /\ current_config'[e] = current_config[e]
      /\ app'.pc = app.pc /\ app'.at = app.at /\ app'.es = app.es
      /\ app'.line = app.line /\ app'.order = app.order
      /\ \/ app' = app /\ app.pc # "walking"
         \/ /\ app'.due = {r \in app.due : r[1] # es}
            /\ app'.shown = {r \in app.shown : r[1] # es}
            /\ app'.stale => app.stale \/ PointsInto(es)
  BY ReenumerateStep
<1>2. CASE app.pc # "walking"
  BY <1>1, <1>2 DEF ViewInv
<1>3. CASE app.pc = "walking"
  <2>1. /\ app'.due = {r \in app.due : r[1] # es}
        /\ app'.shown = {r \in app.shown : r[1] # es}
        /\ app'.stale => app.stale \/ PointsInto(es)
    BY <1>1, <1>3
  <2>2. app'.stale => \A r \in app'.due : r[1] # app'.es
    <3>1. PointsInto(es) => app.es = es
      BY <1>3 DEF PointsInto
    <3> QED  BY <1>1, <1>3, <2>1, <3>1 DEF ViewInv
  <2>3. ASSUME NEW e \in EndStations, e # es
        PROVE  /\ get_current_config_desc(e) => get_current_config_desc(e)'
               /\ Descs(e)' = Descs(e)
    BY <1>1, <2>3
       DEF get_current_config_desc, get_current_entity_and_descriptor, entity_ready,
           config_desc_count, Descs
  <2>4. ASSUME NEW r \in app'.due, StillThere(r)
        PROVE  /\ StillThere(r)' /\ Descs(r[1])' = Descs(r[1])
               /\ r \in app.due /\ (r \in app.shown => r \in app'.shown)
    <3>1. r \in app.due /\ r[1] # es /\ r[1] \in EndStations
      BY <2>1, <2>4 DEF StillThere
    <3> QED  BY <2>1, <2>3, <2>4, <3>1 DEF StillThere
  <2>5. CASE app.line.handler = "view_all" /\ ViewAllInv
    <3>1. app.at = 1 => ~app'.stale
      BY <1>3, <2>1, <2>5 DEF PointsInto, ViewAllInv
    <3>2. ViewAllInv'
      BY <1>1, <2>1, <2>4, <2>5, <3>1 DEF ViewAllInv
    <3> QED  BY <1>1, <1>3, <2>2, <2>5, <3>2 DEF ViewInv
  <2>6. CASE app.line.handler = "view_details" /\ ViewDetailsInv
    <3>1. ViewDetailsInv'
      BY <1>1, <2>1, <2>4, <2>6 DEF ViewDetailsInv
    <3> QED  BY <1>1, <1>3, <2>2, <2>6, <3>1 DEF ViewInv
  <2> QED  BY <1>3, <2>5, <2>6 DEF ViewInv
<1> QED  BY <1>2, <1>3

LEMMA WalkStationView ==
  ASSUME CoreInv, ViewInv, WalkStation
  PROVE  ViewInv'
<1>1. /\ Moves /\ app'.shown = app.shown /\ app'.due = app.due
      /\ app'.pc # "prompt" =>
           app'.order = app.order /\ app'.line = app.line /\ app'.stale = app.stale
  BY WalkStationMoves DEF Moves, KeepsWalk
<1>2. /\ app.pc = "walking" /\ app.line.handler = "view_all" /\ app.at = 1
      /\ UNCHANGED <<readVars, current_config>>
  BY DEF WalkStation, userVars
<1>3. ViewAllInv
  BY <1>2 DEF ViewInv
<1>4. /\ \A r : StillThere(r) => StillThere(r)'
      /\ \A es \in EndStations : Descs(es) \subseteq Descs(es)'
  BY <1>2, ThereKept
<1>5. /\ DOMAIN app = AppFields /\ app.es \in Nat /\ count \in Nat
      /\ \A es \in EndStations : es \in Nat
  BY AppTyped, LineAssumption DEF CoreInv, ReadTypes, EndStations, LineAssumption
<1>6. ASSUME NEW r \in app.due
      PROVE  /\ StillThere(r)' /\ {"LOCALE", "STRINGS"} \subseteq Descs(r[1])'
             /\ r[2] \in Range(ViewOrder)
             /\ r[1] \in Nat /\ r[1] < count
             /\ get_current_config_desc(r[1]) /\ {"LOCALE", "STRINGS"} \subseteq Descs(r[1])
             /\ r \in app.shown \/ r[1] > app.es \/ r[1] = app.es
  <2>1. /\ StillThere(r) /\ {"LOCALE", "STRINGS"} \subseteq Descs(r[1])
        /\ r[2] \in Range(ViewOrder)
        /\ r \in app.shown \/ r[1] > app.es \/ r[1] = app.es
    BY <1>3 DEF ViewAllInv
  <2>2. r[1] \in EndStations /\ get_current_config_desc(r[1])
    BY <2>1 DEF StillThere
  <2> QED  BY <1>4, <1>5, <2>1, <2>2 DEF get_current_config_desc
<1>s. ~app.stale
  BY <1>2, <1>3 DEF ViewAllInv
<1>7. CASE app.es >= count
  <2>1. app' = [Begin(NoLine) EXCEPT !.due = app.due, !.shown = app.shown]
    BY <1>7 DEF WalkStation, Return
  <2>2. app'.pc = "prompt"
    BY <2>1 DEF Begin
  <2>3. app.due \subseteq app.shown
    BY <1>5, <1>6, <1>7
  <2> QED  BY <1>1, <2>2, <2>3 DEF ViewInv
<1>8. CASE /\ app.es < count /\ get_current_config_desc(app.es)
           /\ {"LOCALE", "STRINGS"} \subseteq Descs(app.es)
  <2>1. app' = [app EXCEPT !.at = 2]
    BY <1>5, <1>8 DEF WalkStation
  <2>2. app'.pc = "walking" /\ app'.at = 2 /\ app'.es = app.es
    BY <1>2, <1>5, <2>1 DEF AppFields
  <2>3. ASSUME NEW r \in app.due
        PROVE  \E j \in 1 .. Len(ViewOrder) : j >= app'.at - 1 /\ ViewOrder[j] = r[2]
    <3>1. PICK j \in 1 .. Len(ViewOrder) : ViewOrder[j] = r[2]
      BY <1>6, <2>3, ViewOrders, InRange
    <3> QED  BY <2>2, <3>1
  <2>4. ViewAllInv'
    BY <1>1, <1>3, <1>6, <2>2, <2>3 DEF ViewAllInv
  <2> QED  BY <1>1, <1>2, <1>s, <2>2, <2>4 DEF ViewInv
<1>9. CASE /\ app.es < count
           /\ ~(/\ get_current_config_desc(app.es)
                /\ {"LOCALE", "STRINGS"} \subseteq Descs(app.es))
  <2>1. app' = [app EXCEPT !.es = app.es + 1]
    BY <1>5, <1>9 DEF WalkStation
  <2>2. app'.pc = "walking" /\ app'.at = 1 /\ app'.es = app.es + 1
    BY <1>2, <1>5, <2>1 DEF AppFields
  <2>3. ASSUME NEW r \in app.due
        PROVE  r \in app.shown \/ r[1] > app'.es \/ r[1] = app'.es
    BY <1>5, <1>6, <1>9, <2>2, <2>3
  <2>4. ViewAllInv'
    BY <1>1, <1>3, <1>6, <1>s, <2>2, <2>3 DEF ViewAllInv
  <2> QED  BY <1>1, <1>2, <1>s, <2>2, <2>4 DEF ViewInv
<1> QED  BY <1>5, <1>7, <1>8, <1>9

LEMMA WalkKindView ==
  ASSUME CoreInv, ViewInv, WalkKind
  PROVE  ViewInv'
<1>1. /\ Moves /\ app'.order = app.order /\ app'.due = app.due /\ app'.line = app.line
      /\ app'.pc = "walking"
  BY WalkKindMoves DEF Moves
<1>2. /\ app.pc = "walking" /\ app.line.handler = "view_all" /\ app.at > 1
      /\ UNCHANGED <<readVars, current_config>>
  BY DEF WalkKind, userVars
<1>3. ViewAllInv /\ (app.stale => \A r \in app.due : r[1] # app.es)
  BY <1>2 DEF ViewInv
<1>4. /\ \A r : StillThere(r) => StillThere(r)'
      /\ \A es \in EndStations : Descs(es) \subseteq Descs(es)'
  BY <1>2, ThereKept
<1>5. /\ DOMAIN app = AppFields /\ app.es \in Nat /\ app.at \in Nat
      /\ \A es \in EndStations : es \in Nat
      /\ app.order = ViewOrder /\ Len(ViewOrder) \in Nat
  BY <1>3, AppTyped, ViewOrders, LineAssumption
     DEF EndStations, LineAssumption, ViewAllInv
<1>6. ASSUME NEW r \in app.due
      PROVE  /\ StillThere(r)' /\ {"LOCALE", "STRINGS"} \subseteq Descs(r[1])'
             /\ r[2] \in Range(ViewOrder) /\ r[2] \in Descs(r[1])
             /\ r[1] \in Nat /\ r = <<r[1], r[2]>>
             /\ \/ r \in app.shown
                \/ r[1] > app.es
                \/ r[1] = app.es /\ \E j \in 1 .. Len(ViewOrder) :
                                      j >= app.at - 1 /\ ViewOrder[j] = r[2]
  <2>1. /\ StillThere(r) /\ {"LOCALE", "STRINGS"} \subseteq Descs(r[1])
        /\ r[2] \in Range(ViewOrder)
        /\ \/ r \in app.shown
           \/ r[1] > app.es
           \/ r[1] = app.es /\ \E j \in 1 .. Len(ViewOrder) :
                                 j >= app.at - 1 /\ ViewOrder[j] = r[2]
    BY <1>2, <1>3 DEF ViewAllInv
  <2>2. r[1] \in EndStations /\ r[2] \in Descs(r[1]) /\ r = <<r[1], r[2]>>
    BY <2>1 DEF StillThere
  <2> QED  BY <1>4, <1>5, <2>1, <2>2
<1>7. CASE app.at > Len(ViewOrder) + 1
  <2>1. app' = [app EXCEPT !.es = app.es + 1, !.at = 1, !.stale = FALSE]
    BY <1>5, <1>7 DEF WalkKind
  <2>2. /\ app'.at = 1 /\ app'.es = app.es + 1 /\ app'.shown = app.shown
        /\ app'.stale = FALSE
    BY <1>5, <2>1 DEF AppFields
  <2>3. ASSUME NEW r \in app.due
        PROVE  r \in app.shown \/ r[1] > app'.es \/ r[1] = app'.es
    <3>1. ~(\E j \in 1 .. Len(ViewOrder) : j >= app.at - 1 /\ ViewOrder[j] = r[2])
      BY <1>5, <1>7
    <3> QED  BY <1>5, <1>6, <2>2, <2>3, <3>1
  <2>4. ViewAllInv'
    BY <1>1, <1>3, <1>6, <2>2, <2>3 DEF ViewAllInv
  <2> QED  BY <1>1, <1>2, <2>2, <2>4 DEF ViewInv
<1>8. CASE ~(app.at > Len(ViewOrder) + 1)
  <2> DEFINE rows == IF ~app.stale /\ app.order[app.at - 1] \in Descs(app.es)
                     THEN {<<app.es, app.order[app.at - 1]>>} ELSE {}
  <2>1. app' = [app EXCEPT !.at = app.at + 1, !.shown = app.shown \cup rows]
    BY <1>5, <1>8 DEF WalkKind
  <2>2. /\ app'.at = app.at + 1 /\ app'.es = app.es /\ app'.stale = app.stale
        /\ app'.shown = app.shown \cup rows
    BY <1>5, <2>1 DEF AppFields
  <2>3. ASSUME NEW r \in app.due
        PROVE  \/ r \in app'.shown
               \/ r[1] > app'.es
               \/ r[1] = app'.es /\ \E j \in 1 .. Len(ViewOrder) :
                                      j >= app'.at - 1 /\ ViewOrder[j] = r[2]
    <3>1. CASE r \in app.shown \/ r[1] > app.es
      BY <2>2, <3>1
    <3>2. CASE r[1] = app.es /\ \E j \in 1 .. Len(ViewOrder) :
                                  j >= app.at - 1 /\ ViewOrder[j] = r[2]
      <4>1. PICK j \in 1 .. Len(ViewOrder) : j >= app.at - 1 /\ ViewOrder[j] = r[2]
        BY <3>2
      <4>2. CASE j = app.at - 1
        <5>1. r \in rows
          BY <1>3, <1>5, <1>6, <2>3, <3>2, <4>1, <4>2
        <5> QED  BY <2>2, <5>1
      <4>3. CASE j # app.at - 1
        <5>1. j >= app'.at - 1
          BY <1>5, <2>2, <4>1, <4>3
        <5> QED  BY <2>2, <3>2, <4>1, <5>1
      <4> QED  BY <4>2, <4>3
    <3> QED  BY <1>6, <2>3, <3>1, <3>2
  <2> HIDE DEF rows
  <2>4. ViewAllInv'
    BY <1>1, <1>2, <1>5, <1>6, <2>2, <2>3 DEF ViewAllInv
  <2> QED  BY <1>1, <1>2, <1>3, <2>2, <2>4 DEF ViewInv
<1> QED  BY <1>7, <1>8

\* do_view_descriptor shows what it is given.
LEMMA ShownWhenDue ==
  ASSUME NEW kind \in DetailedKinds, current_end_station < count,
         get_current_entity_and_descriptor(current_end_station),
         kind \in Descs(current_end_station)
  PROVE  do_view_descriptor(kind, 0) = Shows({<<current_end_station, kind>>})
<1>1. Has(current_end_station, kind, 0)
  BY DEF Has
<1> QED  BY <1>1, Zenon DEF do_view_descriptor, OnStation

LEMMA WalkDetailsView ==
  ASSUME CoreInv, ViewInv, WalkDetails
  PROVE  ViewInv'
<1>1. /\ Moves /\ app'.due = app.due
      /\ app'.pc # "prompt" =>
           /\ app'.order = app.order /\ app'.line = app.line
           /\ app'.es = app.es /\ app'.stale = app.stale
  BY WalkDetailsMoves DEF Moves, KeepsWalk
<1>2. /\ app.pc = "walking" /\ app.line.handler = "view_details"
      /\ UNCHANGED <<readVars, current_config, current_end_station>>
  BY DEF WalkDetails, userVars
<1>3. ViewDetailsInv /\ (app.stale => \A r \in app.due : r[1] # app.es)
  BY <1>2 DEF ViewInv
<1>4. \A r : StillThere(r) => StillThere(r)'
  BY <1>2, ThereKept
<1>5. /\ DOMAIN app = AppFields /\ app.at \in Nat \ {0}
      /\ app.order = DetailsOrder /\ Len(DetailsOrder) \in Nat
  BY <1>3, AppTyped, ViewOrders DEF ViewDetailsInv
<1>6. ASSUME NEW r \in app.due
      PROVE  /\ StillThere(r) /\ StillThere(r)'
             /\ r[1] = current_end_station /\ r[1] = app.es
             /\ r = <<r[1], r[2]>>
             /\ \/ r \in app.shown
                \/ \E j \in 1 .. Len(DetailsOrder) :
                     j >= app.at /\ DetailsOrder[j] = r[2]
  <2>1. /\ StillThere(r) /\ r[1] = current_end_station /\ r[1] = app.es
        /\ \/ r \in app.shown
           \/ \E j \in 1 .. Len(DetailsOrder) : j >= app.at /\ DetailsOrder[j] = r[2]
    BY <1>3 DEF ViewDetailsInv
  <2>2. r = <<r[1], r[2]>>
    BY <2>1 DEF StillThere
  <2> QED  BY <1>4, <2>1, <2>2
<1>7. CASE app.at > Len(DetailsOrder)
  <2>1. app' = [Begin(NoLine) EXCEPT !.due = app.due, !.shown = app.shown]
    BY <1>5, <1>7 DEF WalkDetails, Return
  <2>2. app'.pc = "prompt" /\ app'.shown = app.shown
    BY <2>1 DEF Begin
  <2>3. app.due \subseteq app.shown
    <3> SUFFICES ASSUME NEW r \in app.due
                 PROVE  r \in app.shown
      OBVIOUS
    <3>1. ~(\E j \in 1 .. Len(DetailsOrder) : j >= app.at /\ DetailsOrder[j] = r[2])
      BY <1>5, <1>7
    <3> QED  BY <1>6, <3>1
  <2> QED  BY <1>1, <2>2, <2>3 DEF ViewInv
<1>8. CASE ~(app.at > Len(DetailsOrder))
  <2> DEFINE kind == DetailsOrder[app.at]
             r1 == do_view_descriptor(kind, 0)
  <2>1. \/ /\ ~app.stale /\ kind \in Descs(app.es)
           /\ app' = IF r1.does = "fails" THEN [app EXCEPT !.pc = "fails"]
                     ELSE [app EXCEPT !.at = app.at + 1, !.shown = app.shown \cup r1.rows]
        \/ /\ app.stale \/ kind \notin Descs(app.es)
           /\ app' = [app EXCEPT !.at = app.at + 1]
    BY <1>5, <1>8, Zenon DEF WalkDetails
  <2> HIDE DEF kind, r1
  <2>2. CASE app' = [app EXCEPT !.pc = "fails"]
    <3>1. app'.pc = "fails"
      BY <1>5, <2>2 DEF AppFields
    <3> QED  BY <3>1 DEF ViewInv
  <2>3. CASE /\ kind \in Descs(app.es)
             /\ app' = [app EXCEPT !.at = app.at + 1, !.shown = app.shown \cup r1.rows]
    <3>1. /\ app'.pc = "walking" /\ app'.at = app.at + 1
          /\ app'.shown = app.shown \cup r1.rows
      BY <1>2, <1>5, <2>3 DEF AppFields
    <3>2. ASSUME NEW r \in app.due
          PROVE  \/ r \in app'.shown
                 \/ \E j \in 1 .. Len(DetailsOrder) :
                      j >= app'.at /\ DetailsOrder[j] = r[2]
      <4>1. CASE r \in app.shown
        BY <3>1, <4>1
      <4>2. CASE \E j \in 1 .. Len(DetailsOrder) : j >= app.at /\ DetailsOrder[j] = r[2]
        <5>1. PICK j \in 1 .. Len(DetailsOrder) : j >= app.at /\ DetailsOrder[j] = r[2]
          BY <4>2
        <5>2. CASE j = app.at
          <6>1. r[2] = kind /\ StillThere(r) /\ r[1] = current_end_station
                /\ r = <<r[1], r[2]>>
            BY <1>6, <3>2, <5>1, <5>2 DEF kind
          <6>2. /\ current_end_station < count
                /\ get_current_entity_and_descriptor(current_end_station)
                /\ kind \in Descs(current_end_station)
            BY <6>1 DEF StillThere, get_current_config_desc
          <6>3. kind \in DetailedKinds
            <7>1. kind \in Range(DetailsOrder)
              BY <5>1, <5>2, ViewOrders DEF Range, kind
            <7> QED  BY <7>1, ViewOrders
          <6>4. r1 = Shows({<<current_end_station, kind>>})
            BY <6>2, <6>3, ShownWhenDue DEF r1
          <6>5. r \in r1.rows
            BY <6>1, <6>4 DEF Shows
          <6> QED  BY <3>1, <6>5
        <5>3. CASE j # app.at
          BY <1>5, <3>1, <5>1, <5>3
        <5> QED  BY <5>2, <5>3
      <4> QED  BY <1>6, <3>2, <4>1, <4>2
    <3>3. ViewDetailsInv'
      BY <1>1, <1>2, <1>5, <1>6, <3>1, <3>2 DEF ViewDetailsInv
    <3> QED  BY <1>1, <1>2, <1>3, <3>1, <3>3 DEF ViewInv
  <2>4. CASE /\ app.stale \/ kind \notin Descs(app.es)
             /\ app' = [app EXCEPT !.at = app.at + 1]
    <3>1. app'.pc = "walking" /\ app'.at = app.at + 1 /\ app'.shown = app.shown
      BY <1>2, <1>5, <2>4 DEF AppFields
    <3>2. ASSUME NEW r \in app.due
          PROVE  \/ r \in app'.shown
                 \/ \E j \in 1 .. Len(DetailsOrder) :
                      j >= app'.at /\ DetailsOrder[j] = r[2]
      <4>1. r[2] # kind
        BY <1>3, <1>6, <2>4, <3>2 DEF StillThere
      <4> QED  BY <1>5, <1>6, <3>1, <3>2, <4>1 DEF kind
    <3>3. ViewDetailsInv'
      BY <1>1, <1>2, <1>5, <1>6, <3>1, <3>2 DEF ViewDetailsInv
    <3> QED  BY <1>1, <1>2, <1>3, <3>1, <3>3 DEF ViewInv
  <2> QED  BY <2>1, <2>2, <2>3, <2>4
<1> QED  BY <1>5, <1>7, <1>8

\* What is left of a line's command when it is handed over.
LEMMA HandsOverStep ==
  ASSUME CoreInv, app.pc = "prompt", NEW line, NEW cmd \in Commands, NEW next,
         HandsOver(line, cmd, next)
  PROVE  /\ CmdTypes' /\ Len(sent') = Len(sent) + 1
         /\ \A d \in 1 .. Len(sent) : sent'[d] = sent[d] /\ ended'[d] = ended[d]
         /\ sent'[Len(sent) + 1] = [cmd |-> cmd, id |-> notification_id]
         /\ wait_state = "idle" =>
              /\ notify_id' = notification_id /\ wait_state' = "active"
              /\ app'.pc = "waiting"
         /\ wait_state # "idle" =>
              notify_id' = notify_id /\ wait_state' = wait_state /\ app'.pc = "returned"
         /\ UNCHANGED <<taken, completion_status, waiting_sem, resp_status>>
         /\ app'.then = next.then /\ app'.id = notification_id /\ app'.at = 1
         /\ app'.due = {} /\ app'.said # "upgraded"
<1>1. /\ WaitTypes /\ CmdTypes /\ notification_id \in Nat /\ TRUE \in BOOLEAN
      /\ wait_state = "primed" => notify_id # notification_id
  BY DEF CoreInv, WaitTypes, IdsInv
<1>2. /\ DOMAIN next = AppFields /\ next.pc = "returned" /\ next.id = notification_id
      /\ next.at = 1 /\ next.due = {} /\ next.said # "upgraded"
      /\ Issue(cmd, notification_id, TRUE, next)
  BY DEF HandsOver, Begun
<1>w. PICK id \in Nat, prime \in BOOLEAN :
             id = notification_id /\ prime /\ Issue(cmd, id, prime, next)
  BY <1>1, <1>2, Zenon
<1>x. wait_state = "primed" => notify_id # id
  BY <1>1, <1>w
<1>y. WaitTypes /\ CmdTypes /\ DOMAIN next = AppFields
  BY <1>1, <1>2
<1>z. Issue(cmd, id, prime, next)
  BY <1>w
<1>3. /\ CmdTypes' /\ Len(sent') = Len(sent) + 1
      /\ \A d \in 1 .. Len(sent) : sent'[d] = sent[d] /\ ended'[d] = ended[d]
      /\ sent'[Len(sent) + 1] = [cmd |-> cmd, id |-> id]
      /\ \A f \in AppFields \ {"pc"} : app'[f] = next[f]
      /\ prime /\ wait_state = "idle" =>
           notify_id' = id /\ wait_state' = "active" /\ app'.pc = "waiting"
      /\ ~(prime /\ wait_state = "idle") =>
           notify_id' = notify_id /\ wait_state' = wait_state /\ app'.pc = next.pc
      /\ UNCHANGED <<taken, completion_status, waiting_sem, resp_status>>
  BY <1>x, <1>y, <1>z, IssueStep
<1>4. /\ app'.then = next.then /\ app'.id = next.id /\ app'.at = next.at
      /\ app'.due = next.due /\ app'.said = next.said
  BY <1>3 DEF AppFields
<1> QED  BY <1>2, <1>w, <1>3, <1>4

LEMMA HandleView ==
  ASSUME CoreInv, NEW line \in Lines, Handle(line)
  PROVE  ViewInv'
<1>1. /\ app.pc = "prompt" /\ UNCHANGED readVars
      /\ \/ Begun(line, app') /\ Quiet(line)
         \/ Begun(line, app') /\ Stops(line)
         \/ Begun(line, app') /\ AsksInVain(line)
         \/ \E cmd \in Commands : \E next : HandsOver(line, cmd, next)
         \/ Begun(line, app') /\ WalksOver(line)
         \/ Begun(line, app') /\ CollectsAll(line)
  BY HandleCases DEF CoreInv
<1>2. CASE \/ Begun(line, app') /\ Quiet(line)
           \/ Begun(line, app') /\ Stops(line)
           \/ Begun(line, app') /\ AsksInVain(line)
           \/ Begun(line, app') /\ CollectsAll(line)
  <2>1. app'.due = {} /\ app'.pc # "walking"
    BY <1>2 DEF Begun, Quiet, Stops, AsksInVain, CollectsAll
  <2> QED  BY <2>1 DEF ViewInv
<1>3. CASE \E cmd \in Commands : \E next : HandsOver(line, cmd, next)
  <2>0. PICK cmd \in Commands : \E next : HandsOver(line, cmd, next)
    BY <1>3
  <2>1. PICK next : HandsOver(line, cmd, next)
    BY <2>0
  <2>2. app'.due = {} /\ app'.pc # "walking"
    BY <1>1, <2>1, HandsOverStep
  <2> QED  BY <2>2 DEF ViewInv
<1>4. CASE Begun(line, app') /\ WalksOver(line)
  <2>1. /\ app'.due = Due(line) /\ app'.at = 1 /\ app'.pc = "walking" /\ app'.line = line
        /\ app'.stale = FALSE
        /\ \/ line.handler = "view_all" /\ app'.es = 0 /\ app'.order = ViewOrder
           \/ /\ line.handler = "view_details"
              /\ app'.es = line.args.es /\ app'.order = DetailsOrder
        /\ UNCHANGED <<current_end_station, current_config>>
    BY <1>4 DEF Begun, WalksOver
  <2>2. /\ \A r : StillThere(r) => StillThere(r)'
        /\ \A es \in EndStations : Descs(es) \subseteq Descs(es)'
    BY <1>1, <2>1, ThereKept
  <2>3. CASE line.handler = "view_all" /\ app'.es = 0 /\ app'.order = ViewOrder
    <3>1. Due(line) = {r \in EndStations \X (Kinds \ {"STRINGS", "CONTROL"}) :
                         /\ get_current_config_desc(r[1])
                         /\ {r[2], "LOCALE", "STRINGS"} \subseteq Descs(r[1])}
      BY <2>3 DEF Due
    <3>2. ASSUME NEW r \in Due(line)
          PROVE  /\ StillThere(r)' /\ {"LOCALE", "STRINGS"} \subseteq Descs(r[1])'
                 /\ r[2] \in Range(ViewOrder)
                 /\ r[1] > 0 \/ r[1] = 0
      <4>1. /\ r \in EndStations \X (Kinds \ {"STRINGS", "CONTROL"})
            /\ get_current_config_desc(r[1])
            /\ {r[2], "LOCALE", "STRINGS"} \subseteq Descs(r[1])
        BY <3>1, <3>2
      <4>2. r \in EndStations \X (DescriptorKinds \ {"STRINGS", "CONTROL"})
        BY <4>1, KindsTyped
      <4>3. r[1] \in EndStations /\ r[2] \in DescriptorKinds \ {"STRINGS", "CONTROL"}
            /\ r \in EndStations \X DescriptorKinds
        BY <4>2
      <4>4. StillThere(r) /\ {"LOCALE", "STRINGS"} \subseteq Descs(r[1])
        BY <4>1, <4>3 DEF StillThere
      <4>5. r[2] \in Range(ViewOrder)
        BY <4>3, ViewOrders
      <4>6. r[1] > 0 \/ r[1] = 0
        BY <4>3, LineAssumption DEF EndStations, LineAssumption
      <4> QED  BY <2>2, <4>3, <4>4, <4>5, <4>6
    <3>3. ViewAllInv'
      BY <2>1, <2>3, <3>2 DEF ViewAllInv
    <3> QED  BY <2>1, <2>3, <3>3 DEF ViewInv
  <2>4. CASE line.handler = "view_details" /\ app'.es = line.args.es
             /\ app'.order = DetailsOrder
    <3>1. ASSUME NEW r \in Due(line)
          PROVE  /\ StillThere(r)'
                 /\ r[1] = current_end_station /\ r[1] = app'.es
                 /\ \E j \in 1 .. Len(DetailsOrder) : j >= 1 /\ DetailsOrder[j] = r[2]
      <4>1. /\ line.args.es = current_end_station
            /\ r \in {x \in EndStations \X (Kinds \ {"MEMORY_OBJECT", "CONTROL"}) :
                        /\ x[1] = line.args.es
                        /\ get_current_config_desc(x[1])
                        /\ x[2] \in Descs(x[1])}
        <5>1. Due(line) = IF line.args.es = current_end_station
                          THEN {x \in EndStations \X (Kinds \ {"MEMORY_OBJECT", "CONTROL"}) :
                                  /\ x[1] = line.args.es
                                  /\ get_current_config_desc(x[1])
                                  /\ x[2] \in Descs(x[1])}
                          ELSE {}
          BY <2>4 DEF Due
        <5> QED  BY <3>1, <5>1
      <4>2. /\ r \in EndStations \X (Kinds \ {"MEMORY_OBJECT", "CONTROL"})
            /\ r[1] = line.args.es /\ get_current_config_desc(r[1]) /\ r[2] \in Descs(r[1])
        BY <4>1
      <4>3. r \in EndStations \X (DescriptorKinds \ {"MEMORY_OBJECT", "CONTROL"})
        BY <4>2, KindsTyped
      <4>4. /\ r[2] \in DescriptorKinds \ {"MEMORY_OBJECT", "CONTROL"}
            /\ r \in EndStations \X DescriptorKinds
        BY <4>3
      <4>5. StillThere(r)
        BY <4>2, <4>4 DEF StillThere
      <4>6. PICK j \in 1 .. Len(DetailsOrder) : DetailsOrder[j] = r[2]
        BY <4>4, ViewOrders, InRange
      <4>7. j >= 1
        BY ViewOrders
      <4> QED  BY <2>2, <2>4, <4>1, <4>2, <4>5, <4>6, <4>7
    <3>2. ViewDetailsInv'
      BY <2>1, <2>4, <3>1 DEF ViewDetailsInv
    <3> QED  BY <2>1, <2>4, <3>2 DEF ViewInv
  <2> QED  BY <2>1, <2>3, <2>4
<1> QED  BY <1>1, <1>2, <1>3, <1>4

\* A later command of a handler is no walk.
LEMMA AddsView ==
  ASSUME CoreInv, ViewInv, app.pc \notin {"walking", "fails"},
         NEW cmd, NEW id, NEW prime, NEW next, Adds(cmd, id, prime, next)
  PROVE  ViewInv'
<1>1. app'.due = app.due /\ app'.shown = app.shown
  BY AddsStep
<1>2. app'.pc # "walking"
  BY AddsCore DEF Adds
<1> QED  BY <1>1, <1>2, ViewKept

LEMMA MovesView ==
  ASSUME CoreInv, ViewInv, app.pc \notin {"walking", "fails"}, Moves,
         app'.pc # "walking", app'.shown = app.shown
  PROVE  ViewInv'
  BY ViewKept DEF Moves

LEMMA ViewInit ==
  ASSUME LineInit
  PROVE  ViewInv
  BY DEF LineInit, Begin, ViewInv

LEMMA ViewStep ==
  ASSUME CoreInv, ViewInv, [LineNext]_lineVars
  PROVE  ViewInv'
<1>0. CoreInv'
  BY CoreStep
<1>1. CASE \E line \in Lines : Handle(line)
  BY <1>1, HandleView
<1>2. CASE Wake
  BY <1>2, WakeCore, ViewKept
<1>3. CASE WalkStation \/ WalkKind \/ WalkDetails
  BY <1>3, WalkStationView, WalkKindView, WalkDetailsView
<1>d. CASE UsesDeleted
  BY <1>d, UsesDeletedMoves DEF ViewInv
<1>4. CASE Report
  <2>1. Moves /\ app'.pc = "prompt" /\ app'.shown = app.shown /\ app.pc = "returned"
    BY <1>4, ReportMoves DEF Report
  <2> QED  BY <2>1, MovesView
<1>5. CASE Collected
  <2>1. Moves /\ app'.pc = "inputs" /\ app'.shown = app.shown /\ app.pc = "returned"
    BY <1>5, CollectedMoves DEF Collected
  <2> QED  BY <2>1, MovesView
<1>6. CASE CollectInputs
  <2>1. app.pc = "inputs"
    BY <1>6 DEF CollectInputs
  <2> QED  BY <1>6, <2>1, CollectInputsAdds, AddsView, MovesView DEF Stays
<1>7. CASE CollectOutputs
  <2>1. app.pc = "outputs"
    BY <1>7 DEF CollectOutputs
  <2> QED  BY <1>7, <2>1, CollectOutputsAdds, AddsView, MovesView DEF Stays
<1>8. CASE Upgrade
  BY <1>8, UpgradeAdds, AddsView, MovesView
<1>9. CASE \E yes \in BOOLEAN : Answer(yes)
  BY <1>9, AnswerAdds, AddsView, MovesView DEF Stays
<1>10. CASE ReadsOn
  BY <1>0, <1>10, ReadsCore, ReadsView
<1>e. CASE \E es \in EndStations : Reenumerate(es)
  BY <1>e, ReenumerateView
<1>11. CASE \E c \in DOMAIN sent :
              \/ \E outcome \in {"success", "operating"} : Answered(c, outcome)
              \/ Refused(c)
              \/ \E outcome \in {"success", "failed"} : OperationOver(c, outcome)
              \/ TimedOut(c)
  <2>1. UNCHANGED <<readVars, userVars, app>>
    BY <1>11, EndsCases, EndsStep
  <2>2. Grows
    BY <2>1, LineAssumption DEF CoreInv, ReadTypes, Grows, readVars, LineAssumption
  <2> QED  BY <1>0, <2>1, <2>2, ReadsView
<1>12. CASE UNCHANGED lineVars
  <2>1. UNCHANGED <<readVars, userVars, app>>
    BY <1>12 DEF lineVars
  <2>2. Grows
    BY <2>1, LineAssumption DEF CoreInv, ReadTypes, Grows, readVars, LineAssumption
  <2> QED  BY <1>0, <2>1, <2>2, ReadsView
<1> QED
  BY <1>1, <1>2, <1>3, <1>d, <1>4, <1>5, <1>6, <1>7, <1>8, <1>9, <1>10, <1>e, <1>11, <1>12
     DEF LineNext, AppNext, PollNext, ReadsOn
-----------------------------------------------------------------------------
(***************************************************************************)
(* The status that a handler looks at.                                     *)
(***************************************************************************)
\* The commands so far stay where they are.
KeepsSent == /\ Len(sent') >= Len(sent)
             /\ \A d \in 1 .. Len(sent) : sent'[d] = sent[d]

LEMMA SharedStays ==
  ASSUME CmdTypes, CmdTypes', KeepsSent, SharedId
  PROVE  SharedId'
<1>1. /\ Len(sent) \in Nat /\ DOMAIN sent = 1 .. Len(sent)
  BY SentTyped
<1>2. /\ Len(sent') \in Nat /\ DOMAIN sent' = 1 .. Len(sent')
  BY DEF CmdTypes
<1>3. PICK c, d \in DOMAIN sent :
        /\ c < d /\ sent[c].id = sent[d].id
        /\ sent[d].cmd.call \in {"GET_RX_STATE", "GET_TX_STATE"}
  BY DEF SharedId
<1>4. /\ c \in DOMAIN sent' /\ d \in DOMAIN sent'
      /\ sent'[c] = sent[c] /\ sent'[d] = sent[d]
  BY <1>1, <1>2, <1>3 DEF KeepsSent
<1> QED  BY <1>3, <1>4 DEF SharedId

\* What was said to be written was.
LEMMA UpgradedStays ==
  ASSUME CmdTypes, CmdTypes', KeepsSent, UpgradedMeansWritten, app'.said = app.said,
         \A d \in 1 .. Len(sent) : ended[d] = "success" => ended'[d] = "success"
  PROVE  UpgradedMeansWritten'
<1>1. /\ Len(sent) \in Nat /\ DOMAIN sent = 1 .. Len(sent)
  BY SentTyped
<1>2. /\ Len(sent') \in Nat /\ DOMAIN sent' = 1 .. Len(sent')
  BY DEF CmdTypes
<1>3. Chunks \in Nat
  BY LineAssumption DEF LineAssumption
<1> SUFFICES ASSUME app.said = "upgraded"
             PROVE  UpgradedMeansWritten'
  BY DEF UpgradedMeansWritten
<1>4. PICK first \in DOMAIN sent :
        /\ sent[first].cmd.call = "START_OPERATION" /\ ended[first] = "success"
        /\ Len(sent) >= first + Chunks
        /\ \A k \in 1 .. Chunks :
             /\ sent[first + k].cmd.call = "ADDRESS_ACCESS"
             /\ sent[first + k].cmd.talker = k
             /\ sent[first + k].cmd.es = sent[first].cmd.es
             /\ ended[first + k] = "success"
  BY DEF UpgradedMeansWritten
<1>5. /\ first \in DOMAIN sent' /\ sent'[first] = sent[first]
      /\ ended'[first] = "success" /\ Len(sent') >= first + Chunks
  BY <1>1, <1>2, <1>3, <1>4 DEF KeepsSent
<1>6. ASSUME NEW k \in 1 .. Chunks
      PROVE  /\ sent'[first + k].cmd.call = "ADDRESS_ACCESS"
             /\ sent'[first + k].cmd.talker = k
             /\ sent'[first + k].cmd.es = sent'[first].cmd.es
             /\ ended'[first + k] = "success"
  <2>1. first + k \in 1 .. Len(sent)
    BY <1>1, <1>3, <1>4
  <2>2. sent'[first + k] = sent[first + k] /\ ended'[first + k] = "success"
    BY <1>4, <2>1 DEF KeepsSent
  <2> QED  BY <1>4, <1>5, <2>2
<1>7. /\ sent'[first].cmd.call = "START_OPERATION" /\ ended'[first] = "success"
      /\ Len(sent') >= first + Chunks
      /\ \A k \in 1 .. Chunks :
           /\ sent'[first + k].cmd.call = "ADDRESS_ACCESS"
           /\ sent'[first + k].cmd.talker = k
           /\ sent'[first + k].cmd.es = sent'[first].cmd.es
           /\ ended'[first + k] = "success"
  BY <1>4, <1>5, <1>6
<1> QED  BY <1>5, <1>7, Zenon DEF UpgradedMeansWritten

LEMMA MovesClean ==
  ASSUME CoreInv, CoreInv', CleanInv, Moves, Clean => UpgradedMeansWritten'
  PROVE  CleanInv'
<1> SUFFICES ASSUME Clean'
             PROVE  (WaitInv /\ ReturnInv /\ ChunkInv /\ UpgradedMeansWritten)'
  BY DEF CleanInv
<1>1. /\ app.pc # "waiting" /\ app'.pc \notin {"waiting", "returned"}
      /\ UNCHANGED <<wait_state, waiting_sem, sent>>
  BY DEF Moves, waitVars, cmdVars
<1>2. Clean
  BY <1>1 DEF Clean, SharedId
<1>3. waiting_sem = 0
  BY <1>1, <1>2 DEF CleanInv, WaitInv
<1> QED  BY <1>1, <1>2, <1>3 DEF WaitInv, ReturnInv, ChunkInv

LEMMA MovesSaid ==
  ASSUME CoreInv, CoreInv', CleanInv, Moves, app'.said \in {app.said, "nothing"}
  PROVE  CleanInv'
<1>1. CmdTypes /\ CmdTypes' /\ KeepsSent
      /\ \A d \in 1 .. Len(sent) : ended[d] = "success" => ended'[d] = "success"
  <2>1. UNCHANGED <<sent, ended>> /\ Len(sent) \in Nat
    BY SentTyped DEF Moves, cmdVars, CoreInv
  <2> QED  BY <2>1 DEF CoreInv, KeepsSent
<1>2. Clean => UpgradedMeansWritten'
  <2>1. CASE app'.said = app.said
    BY <1>1, <2>1, UpgradedStays DEF CleanInv
  <2>2. CASE app'.said = "nothing"
    BY <2>2 DEF UpgradedMeansWritten
  <2> QED  BY <2>1, <2>2
<1> QED  BY <1>2, MovesClean

LEMMA AddsClean ==
  ASSUME CoreInv, CoreInv', CleanInv,
         NEW cmd, NEW id, NEW prime, NEW next, Adds(cmd, id, prime, next),
         ~prime => next.pc # "returned",
         (Clean /\ Clean' /\ prime) =>
            \A d \in 1 .. Len(sent) : sent[d].id = id => Finished(d),
         (Clean /\ prime /\ next.then = "chunk") => ChunkInv'
  PROVE  CleanInv'
<1>1. /\ Len(sent') = Len(sent) + 1
      /\ \A d \in 1 .. Len(sent) : sent'[d] = sent[d] /\ ended'[d] = ended[d]
      /\ sent'[Len(sent) + 1] = [cmd |-> cmd, id |-> id]
      /\ prime /\ wait_state = "idle" =>
           notify_id' = id /\ wait_state' = "active" /\ app'.pc = "waiting"
      /\ ~(prime /\ wait_state = "idle") =>
           notify_id' = notify_id /\ wait_state' = wait_state /\ app'.pc = next.pc
      /\ UNCHANGED <<taken, completion_status, waiting_sem, resp_status>>
      /\ app'.then = next.then /\ app'.said = app.said
  BY AddsStep
<1>2. /\ Len(sent) \in Nat /\ CmdTypes /\ CmdTypes'
      /\ app.pc # "waiting" /\ wait_state \in {"idle", "primed"}
      /\ next.pc # "waiting" /\ prime \in BOOLEAN
  BY SentTyped DEF CoreInv, Adds, IdsInv, WaitTypes
<1>3. KeepsSent
  BY <1>1, <1>2 DEF KeepsSent
<1> SUFFICES ASSUME Clean'
             PROVE  (WaitInv /\ ReturnInv /\ ChunkInv /\ UpgradedMeansWritten)'
  BY DEF CleanInv
<1>4. wait_state = "idle"
  BY <1>1, <1>2 DEF Clean
<1>5. Clean
  BY <1>2, <1>3, <1>4, SharedStays DEF Clean
<1>6. waiting_sem = 0 /\ waiting_sem' = 0
  BY <1>1, <1>2, <1>5 DEF CleanInv, WaitInv
<1>7. UpgradedMeansWritten'
  BY <1>1, <1>2, <1>3, <1>5, UpgradedStays DEF CleanInv
<1>8. CASE prime
  <2>1. notify_id' = id /\ app'.pc = "waiting"
    BY <1>1, <1>4, <1>8
  <2>2. /\ Len(sent') > 0 /\ sent'[Len(sent')].id = id
    BY <1>1, <1>2
  <2>3. ASSUME NEW d \in 1 .. Len(sent') - 1, sent'[d].id = notify_id'
        PROVE  Finished(d)'
    <3>1. d \in 1 .. Len(sent) /\ sent[d].id = id /\ ended'[d] = ended[d]
      BY <1>1, <1>2, <2>1, <2>3
    <3>2. Finished(d)
      BY <1>5, <1>8, <3>1
    <3> QED  BY <3>1, <3>2 DEF Finished
  <2>4. WaitInv'
    BY <1>6, <2>1, <2>2, <2>3 DEF WaitInv, EarlierOver
  <2>5. ReturnInv'
    BY <2>1 DEF ReturnInv
  <2>6. ChunkInv'
    <3>1. CASE next.then = "chunk"
      BY <1>5, <1>8, <3>1
    <3>2. CASE next.then # "chunk"
      BY <1>1, <3>2 DEF ChunkInv
    <3> QED  BY <3>1, <3>2
  <2> QED  BY <1>7, <2>4, <2>5, <2>6
<1>9. CASE ~prime
  <2>1. app'.pc = next.pc /\ app'.pc \notin {"waiting", "returned"}
    BY <1>1, <1>2, <1>9
  <2> QED  BY <1>6, <1>7, <2>1 DEF WaitInv, ReturnInv, ChunkInv
<1> QED  BY <1>2, <1>8, <1>9

\* A status of success is of a command that has ended with it.
LEMMA OwnSuccess ==
  ASSUME NEW status, IsOwn(status), status.outcome = "success"
  PROVE  ended[Len(sent)] = "success"
  BY DEF IsOwn, StatusOf, TICK_TIMEOUT

LEMMA CollectInputsClean ==
  ASSUME CoreInv, CoreInv', CleanInv, CollectInputs
  PROVE  CleanInv'
<1>1. CASE Stays({"prompt", "inputs", "outputs"})
  BY <1>1, MovesSaid DEF Stays
<1>2. CASE \E cmd, next : /\ Adds(cmd, app.id, FALSE, next)
                          /\ cmd.call = "GET_RX_STATE" /\ next.pc = "outputs"
  <2>1. PICK cmd, next : /\ Adds(cmd, app.id, FALSE, next)
                         /\ cmd.call = "GET_RX_STATE" /\ next.pc = "outputs"
    BY <1>2
  <2>2. PICK id, prime : id = app.id /\ prime = FALSE /\ Adds(cmd, id, prime, next)
    BY <2>1
  <2>3. prime = FALSE /\ Adds(cmd, id, prime, next) /\ next.pc # "returned"
    BY <2>1, <2>2
  <2> QED  BY <2>3, AddsClean
<1> QED  BY <1>1, <1>2, CollectInputsAdds

\* The states of the connections share an id, if more than one is asked for.
LEMMA CollectOutputsClean ==
  ASSUME CoreInv, CoreInv', CleanInv, CollectOutputs
  PROVE  CleanInv'
<1>1. CASE Stays({"inputs"})
  BY <1>1, MovesSaid DEF Stays
<1>2. CASE \E cmd, prime, next :
             /\ Adds(cmd, app.id, prime, next)
             /\ cmd.call = "GET_TX_STATE"
             /\ prime => next.pc = "returned" /\ next.then = "inputs"
             /\ ~prime => next.pc = "inputs"
  <2>1. PICK cmd, prime, next :
             /\ Adds(cmd, app.id, prime, next)
             /\ cmd.call = "GET_TX_STATE"
             /\ prime => next.pc = "returned" /\ next.then = "inputs"
             /\ ~prime => next.pc = "inputs"
    BY <1>2
  <2>2. PICK id : id = app.id
    OBVIOUS
  <2>3. Adds(cmd, id, prime, next)
    BY <2>1, <2>2
  <2>4. /\ Len(sent') = Len(sent) + 1
        /\ \A d \in 1 .. Len(sent) : sent'[d] = sent[d] /\ ended'[d] = ended[d]
        /\ sent'[Len(sent) + 1] = [cmd |-> cmd, id |-> id]
    BY <2>3, AddsStep
  <2>5. ASSUME Clean', NEW d \in 1 .. Len(sent), sent[d].id = id
        PROVE  FALSE
    <3>1. Len(sent) \in Nat /\ DOMAIN sent' = 1 .. Len(sent) + 1
      BY <2>4, SentTyped DEF CoreInv, CmdTypes
    <3>2. /\ d \in DOMAIN sent' /\ Len(sent) + 1 \in DOMAIN sent' /\ d < Len(sent) + 1
          /\ sent'[d].id = sent'[Len(sent) + 1].id
          /\ sent'[Len(sent) + 1].cmd.call = "GET_TX_STATE"
      BY <2>1, <2>4, <2>5, <3>1
    <3>3. SharedId'
      BY <3>2, Zenon DEF SharedId
    <3> QED  BY <2>5, <3>3 DEF Clean
  <2>6. /\ ~prime => next.pc # "returned"
        /\ prime => next.then # "chunk"
    BY <2>1
  <2> QED  BY <2>3, <2>5, <2>6, AddsClean
<1> QED  BY <1>1, <1>2, CollectOutputsAdds

LEMMA AnswerClean ==
  ASSUME CoreInv, CoreInv', CleanInv, NEW yes \in BOOLEAN, Answer(yes)
  PROVE  CleanInv'
<1>1. CASE Stays({"prompt"})
  BY <1>1, MovesSaid DEF Stays
<1>2. CASE \E cmd, next : /\ Adds(cmd, notification_id, TRUE, next)
                          /\ next.pc = "returned" /\ next.then = "prompt"
  <2>1. PICK cmd, next : /\ Adds(cmd, notification_id, TRUE, next)
                         /\ next.pc = "returned" /\ next.then = "prompt"
    BY <1>2
  <2>2. PICK id, prime : id = notification_id /\ prime = TRUE
                         /\ Adds(cmd, id, prime, next)
    BY <2>1
  <2>3. ASSUME NEW d \in 1 .. Len(sent)
        PROVE  sent[d].id # id
    <3>1. sent[d].id \in Nat /\ sent[d].id < notification_id /\ notification_id \in Nat
      BY <2>3, SentTyped DEF CoreInv, IdsInv, WaitTypes
    <3> QED  BY <2>2, <3>1
  <2>4. prime = TRUE /\ Adds(cmd, id, prime, next) /\ next.then # "chunk"
    BY <2>1, <2>2
  <2> QED  BY <2>3, <2>4, AddsClean
<1> QED  BY <1>1, <1>2, AnswerAdds

\* The last block of the upgrade has ended with success.
LEMMA UpgradeClean ==
  ASSUME CoreInv, CoreInv', CleanInv, Upgrade
  PROVE  CleanInv'
<1>0. app.pc = "returned" /\ app.then = "chunk"
  BY UpgradeAdds
<1> DEFINE n == Len(sent)
           first == n - (app.at - 1)
<1>c. /\ n \in Nat /\ app.at \in Nat \ {0} /\ Chunks \in Nat /\ CmdTypes
      /\ \A c \in 1 .. n : sent[c].id \in Nat
  BY AppTyped, SentTyped, LineAssumption DEF CoreInv, LineAssumption
<1>d. ASSUME Clean
      PROVE  /\ IsOwn(resp_status)
             /\ first > 0 /\ sent[n].id = app.id /\ EarlierOver(app.id)
             /\ Written(first, app.at - 1, current_end_station)
             /\ \A d \in first .. n - 1 : ended[d] = "success"
  BY <1>0, <1>d DEF CleanInv, ReturnInv, ChunkInv
<1> HIDE DEF n
<1>1. CASE /\ Moves /\ app'.pc = "prompt" /\ app'.shown = app.shown
           /\ app'.said = "nothing"
  <2>1. UpgradedMeansWritten'
    BY <1>1 DEF UpgradedMeansWritten
  <2> QED  BY <1>1, <2>1, MovesClean
<1>2. CASE /\ resp_status.outcome = "success" /\ app.at > Chunks
           /\ Moves /\ app'.pc = "asking" /\ app'.shown = app.shown
  <2>1. ASSUME Clean
        PROVE  UpgradedMeansWritten'
    <3>1. UNCHANGED <<sent, ended>> /\ DOMAIN sent = 1 .. n
      BY <1>2, <1>c DEF Moves, cmdVars, CmdTypes, n
    <3>2. ended[n] = "success" /\ n > 0
      BY <1>2, <1>d, <2>1, OwnSuccess DEF IsOwn, n
    <3>3. /\ first \in DOMAIN sent /\ n >= first + Chunks
          /\ \A k \in 1 .. Chunks : first + k \in first .. n
      BY <1>2, <1>c, <1>d, <2>1, <3>1
    <3>4. \A d \in first .. n : ended[d] = "success"
      BY <1>c, <1>d, <2>1, <3>2, <3>3
    <3>5. /\ sent[first].cmd.call = "START_OPERATION"
          /\ sent[first].cmd.es = current_end_station
          /\ \A k \in 1 .. Chunks :
               /\ sent[first + k].cmd.call = "ADDRESS_ACCESS"
               /\ sent[first + k].cmd.talker = k
               /\ sent[first + k].cmd.es = current_end_station
      BY <1>2, <1>c, <1>d, <2>1 DEF Written
    <3>6. ended[first] = "success"
      BY <1>c, <3>1, <3>3, <3>4
    <3> HIDE DEF first
    <3>7. \A k \in 1 .. Chunks :
            /\ sent[first + k].cmd.call = "ADDRESS_ACCESS"
            /\ sent[first + k].cmd.talker = k
            /\ sent[first + k].cmd.es = sent[first].cmd.es
            /\ ended[first + k] = "success"
      BY <3>3, <3>4, <3>5
    <3>8. UpgradedMeansWritten
      BY <3>3, <3>5, <3>6, <3>7, Zenon DEF UpgradedMeansWritten, n
    <3> QED  BY <3>1, <3>3, <3>5, <3>6, <3>7, Zenon DEF UpgradedMeansWritten, n
  <2> QED  BY <1>2, <2>1, MovesClean
<1>3. CASE \E next : /\ resp_status.outcome = "success"
                     /\ Adds(Block, app.id, TRUE, next)
                     /\ next.pc = "returned" /\ next.then = "chunk"
                     /\ next.at = app.at + 1
  <2>1. PICK next : /\ resp_status.outcome = "success"
                    /\ Adds(Block, app.id, TRUE, next)
                    /\ next.pc = "returned" /\ next.then = "chunk"
                    /\ next.at = app.at + 1
    BY <1>3
  <2>2. PICK cmd, id, prime : /\ cmd = Block /\ id = app.id /\ prime = TRUE
                              /\ Adds(cmd, id, prime, next)
    BY <2>1
  <2>a. Adds(cmd, id, prime, next)
    BY <2>2
  <2>3. /\ Len(sent') = n + 1
        /\ \A d \in 1 .. n : sent'[d] = sent[d] /\ ended'[d] = ended[d]
        /\ sent'[n + 1] = [cmd |-> cmd, id |-> id]
        /\ app'.at = next.at /\ app'.id = next.id
    BY <2>a, AddsStep DEF n
  <2>4. UNCHANGED current_end_station /\ next.id = app.id
    BY <2>2 DEF Adds, userVars
  <2>5. ASSUME Clean
        PROVE  \A d \in 1 .. n : sent[d].id = id => Finished(d)
    <3>1. Finished(n)
      BY <1>d, <2>5 DEF IsOwn, n
    <3>2. \A d \in 1 .. n - 1 : sent[d].id = id => Finished(d)
      BY <1>d, <2>2, <2>5 DEF EarlierOver, n
    <3> QED  BY <1>c, <3>1, <3>2
  <2>6. ASSUME Clean
        PROVE  ChunkInv'
    <3>1. /\ Len(sent') - (app'.at - 1) = first /\ first > 0 /\ first \in 1 .. n
          /\ sent'[Len(sent')].id = app'.id
          /\ app'.at - 1 = app.at /\ Len(sent') - 1 = n
      <4>1. first > 0
        BY <1>d, <2>6
      <4> QED  BY <1>c, <2>1, <2>2, <2>3, <2>4, <4>1
    <3>2. ASSUME NEW d \in 1 .. n, sent'[d].id = app'.id
          PROVE  Finished(d)'
      <4>1. Finished(d) /\ ended'[d] = ended[d]
        BY <2>2, <2>3, <2>4, <2>5, <2>6, <3>2
      <4> QED  BY <4>1 DEF Finished
    <3>3. ASSUME NEW d \in first .. n
          PROVE  ended'[d] = "success"
      <4>1. ended[n] = "success"
        BY <1>d, <2>1, <2>6, OwnSuccess DEF n
      <4>2. ended[d] = "success" /\ d \in 1 .. n
        BY <1>c, <1>d, <2>6, <3>1, <3>3, <4>1
      <4> QED  BY <2>3, <4>2
    <3>4. /\ sent'[first].cmd.call = "START_OPERATION"
          /\ sent'[first].cmd.es = current_end_station'
      BY <1>d, <2>3, <2>4, <2>6, <3>1 DEF Written
    <3>5. ASSUME NEW k \in 1 .. app.at
          PROVE  /\ sent'[first + k].cmd.call = "ADDRESS_ACCESS"
                 /\ sent'[first + k].cmd.talker = k
                 /\ sent'[first + k].cmd.es = current_end_station'
      <4>1. CASE k = app.at
        <5>1. first + k = n + 1
          BY <1>c, <4>1
        <5>2. sent'[n + 1].cmd = Block
          BY <2>2, <2>3
        <5>3. /\ Block.call = "ADDRESS_ACCESS" /\ Block.talker = app.at
              /\ Block.es = current_end_station
          BY DEF Block
        <5> QED  BY <2>4, <4>1, <5>1, <5>2, <5>3
      <4>2. CASE k # app.at
        <5>1. k \in 1 .. app.at - 1 /\ first + k \in 1 .. n
          <6>1. /\ k \in Int /\ 1 <= k /\ k <= app.at /\ k # app.at
                /\ first \in Int /\ 0 < first /\ first + app.at = n + 1
            BY <1>c, <3>1, <4>2
          <6>2. app.at \in Int /\ n \in Int
            BY <1>c
          <6> HIDE DEF first, n
          <6> QED  BY <6>1, <6>2
        <5>2. sent'[first + k] = sent[first + k]
          BY <2>3, <5>1
        <5>3. /\ sent[first + k].cmd.call = "ADDRESS_ACCESS"
              /\ sent[first + k].cmd.talker = k
              /\ sent[first + k].cmd.es = current_end_station
          BY <1>d, <2>6, <5>1 DEF Written
        <5> QED  BY <2>4, <5>2, <5>3
      <4> QED  BY <4>1, <4>2
    <3> HIDE DEF first
    <3> DEFINE m == Len(sent')
               f == m - (app'.at - 1)
    <3>6. /\ f = first /\ m - 1 = n /\ app'.at - 1 = app.at
      BY <3>1
    <3> HIDE DEF f, m
    <3>7. f > 0 /\ sent'[m].id = app'.id
      BY <3>1, <3>6 DEF m
    <3>8. \A d \in 1 .. m - 1 : sent'[d].id = app'.id => Finished(d)'
      BY <3>2, <3>6
    <3>9. \A d \in f .. m - 1 : ended'[d] = "success"
      BY <3>3, <3>6
    <3>10. /\ sent'[f].cmd.call = "START_OPERATION"
           /\ sent'[f].cmd.es = current_end_station'
           /\ \A k \in 1 .. app'.at - 1 :
                /\ sent'[f + k].cmd.call = "ADDRESS_ACCESS"
                /\ sent'[f + k].cmd.talker = k
                /\ sent'[f + k].cmd.es = current_end_station'
      BY <3>4, <3>5, <3>6
    <3> QED  BY <3>7, <3>8, <3>9, <3>10, Zenon DEF ChunkInv, Written, EarlierOver, f, m
  <2> QED  BY <2>2, <2>5, <2>6, AddsClean DEF n
<1> QED  BY <1>1, <1>2, <1>3, UpgradeAdds

LEMMA WakeClean ==
  ASSUME CoreInv, CoreInv', CleanInv, Wake
  PROVE  CleanInv'
<1>1. /\ app.pc = "waiting" /\ app'.pc = "returned"
      /\ waiting_sem' = waiting_sem - 1 /\ resp_status' = completion_status
      /\ UNCHANGED <<userVars, cmdVars>>
      /\ app'.then = app.then /\ app'.id = app.id /\ app'.at = app.at
      /\ app'.said = app.said
      /\ wait_state = "active" /\ waiting_sem > 0
  BY WakeCore DEF CoreInv, IdsInv, Wake
<1>2. UNCHANGED <<sent, ended, current_end_station>>
  BY <1>1 DEF userVars, cmdVars
<1> SUFFICES ASSUME Clean'
             PROVE  (WaitInv /\ ReturnInv /\ ChunkInv /\ UpgradedMeansWritten)'
  BY DEF CleanInv
<1>3. Clean
  BY <1>1, <1>2 DEF Clean, SharedId
<1>4. WaitInv /\ ChunkInv /\ UpgradedMeansWritten
  BY <1>3 DEF CleanInv
<1>5. waiting_sem = 1 /\ IsOwn(completion_status)
  BY <1>1, <1>4 DEF WaitInv
<1>6. WaitInv'
  BY <1>1, <1>5 DEF WaitInv
<1>7. ReturnInv'
  BY <1>1, <1>2, <1>5 DEF ReturnInv, IsOwn, Finished, StatusOf
<1>8. ChunkInv'
  BY <1>1, <1>2, <1>4 DEF ChunkInv, Written, EarlierOver, Finished
<1>9. UpgradedMeansWritten'
  BY <1>1, <1>2, <1>4 DEF UpgradedMeansWritten
<1> QED  BY <1>6, <1>7, <1>8, <1>9

\* Nothing that the waits depend on changes.
LEMMA SameClean ==
  ASSUME CleanInv, UNCHANGED <<current_end_station, waitVars, sent, ended>>,
         app'.pc = app.pc, app'.then = app.then, app'.id = app.id, app'.at = app.at,
         app'.said = app.said
  PROVE  CleanInv'
<1>1. UNCHANGED <<wait_state, notify_id, completion_status, waiting_sem, resp_status>>
  BY DEF waitVars
<1>2. Clean' => Clean
  BY <1>1 DEF Clean, SharedId
<1>3. /\ WaitInv => WaitInv'
      /\ ReturnInv => ReturnInv'
      /\ ChunkInv => ChunkInv'
  BY <1>1 DEF WaitInv, ReturnInv, ChunkInv, IsOwn, EarlierOver, Finished, Written, StatusOf
<1>4. UpgradedMeansWritten => UpgradedMeansWritten'
  BY DEF UpgradedMeansWritten
<1> QED  BY <1>2, <1>3, <1>4 DEF CleanInv

\* Only the end of the command that is waited for releases the wait.
LEMMA EndsClean ==
  ASSUME CoreInv, CoreInv', CleanInv,
         NEW c, NEW how, NEW status, EndsWith(c, how, status)
  PROVE  CleanInv'
<1> DEFINE n == Len(sent)
<1>1. /\ ended' = [ended EXCEPT ![c] = how] /\ ended \in Seq(Outcomes)
      /\ DOMAIN ended = 1 .. n
      /\ UNCHANGED <<userVars, wait_state, notify_id, resp_status, sent, app>>
      /\ \/ /\ wait_state = "active" /\ sent[c].id = notify_id /\ how # "operating"
            /\ completion_status' = status /\ waiting_sem' = waiting_sem + 1
         \/ UNCHANGED <<completion_status, waiting_sem>>
  BY EndsStep
<1>2. /\ c \in 1 .. n /\ ended[c] \in {"pending", "operating"} /\ ~Finished(c)
      /\ how \in {"operating", "success", "failed", "timeout"}
      /\ \/ how = "operating"
         \/ /\ status \in {TICK_TIMEOUT, StatusOf(c, how)}
            /\ status.outcome = "timeout" <=> how = "timeout"
  BY DEF EndsWith, Outcomes, Finished
<1>3. n \in Nat /\ CmdTypes /\ CmdTypes' /\ UNCHANGED current_end_station
  BY <1>1, SentTyped DEF CoreInv, userVars
<1> HIDE DEF n
<1>4. \A d \in 1 .. n : d # c => ended'[d] = ended[d]
  BY <1>1
<1>5. ended'[c] = how
  BY <1>1, <1>2
<1>6. \A d \in 1 .. n : Finished(d) => d # c /\ ended'[d] = ended[d] /\ Finished(d)'
  BY <1>2, <1>4 DEF Finished
<1>7. \A d \in 1 .. n : ended[d] = "success" => ended'[d] = "success"
  BY <1>2, <1>4
<1>8. \A id : EarlierOver(id) => EarlierOver(id)'
  <2> SUFFICES ASSUME NEW id, EarlierOver(id), NEW d \in 1 .. n - 1, sent[d].id = id
               PROVE  Finished(d)'
    BY <1>1 DEF EarlierOver, n
  <2>1. Finished(d) /\ d \in 1 .. n
    BY <1>3 DEF EarlierOver, n
  <2> QED  BY <1>6, <2>1
<1>9. \A s : IsOwn(s) => n # c /\ ended'[n] = ended[n]
  <2> SUFFICES ASSUME NEW s, IsOwn(s)
               PROVE  n # c /\ ended'[n] = ended[n]
    OBVIOUS
  <2>1. n > 0 /\ Finished(n)
    BY DEF IsOwn, n
  <2> QED  BY <1>3, <1>6, <2>1
<1> SUFFICES ASSUME Clean'
             PROVE  (WaitInv /\ ReturnInv /\ ChunkInv /\ UpgradedMeansWritten)'
  BY DEF CleanInv
<1>10. Clean
  BY <1>1 DEF Clean, SharedId
<1>11. WaitInv /\ ReturnInv /\ ChunkInv /\ UpgradedMeansWritten
  BY <1>10 DEF CleanInv
<1>12. WaitInv'
  <2>1. CASE app.pc = "waiting"
    <3>1. /\ n > 0 /\ notify_id = sent[n].id /\ EarlierOver(notify_id)
          /\ waiting_sem = 0 \/ (waiting_sem = 1 /\ IsOwn(completion_status))
      BY <1>11, <2>1 DEF WaitInv, n
    <3>2. EarlierOver(notify_id)'
      BY <1>1, <1>8, <3>1 DEF EarlierOver, Finished
    <3>3. \/ waiting_sem' = 0
          \/ waiting_sem' = 1 /\ IsOwn(completion_status)'
      <4>1. CASE /\ sent[c].id = notify_id /\ how # "operating"
                 /\ completion_status' = status /\ waiting_sem' = waiting_sem + 1
        <5>1. c = n
          <6>1. ~(c \in 1 .. n - 1)
            BY <1>2, <3>1, <4>1 DEF EarlierOver, n
          <6> QED  BY <1>2, <1>3, <6>1
        <5>2. waiting_sem = 0
          BY <1>9, <3>1, <5>1
        <5>3. /\ ended'[n] = how /\ status \in {TICK_TIMEOUT, StatusOf(n, how)}
              /\ status.outcome = "timeout" <=> how = "timeout"
              /\ how \in {"success", "failed", "timeout"}
          BY <1>2, <1>5, <4>1, <5>1
        <5> QED  BY <1>1, <3>1, <4>1, <5>2, <5>3 DEF IsOwn, Finished, StatusOf, n
      <4>2. CASE UNCHANGED <<completion_status, waiting_sem>>
        <5>1. CASE waiting_sem = 0
          BY <4>2, <5>1
        <5>2. CASE waiting_sem = 1 /\ IsOwn(completion_status)
          BY <1>1, <1>9, <4>2, <5>2 DEF IsOwn, Finished, StatusOf, n
        <5> QED  BY <3>1, <5>1, <5>2
      <4> QED  BY <1>1, <4>1, <4>2
    <3> QED  BY <1>1, <2>1, <3>1, <3>2, <3>3 DEF WaitInv, n
  <2>2. CASE app.pc # "waiting"
    <3>1. wait_state # "active" /\ waiting_sem = 0
      BY <1>11, <2>2 DEF CoreInv, IdsInv, WaitInv
    <3> QED  BY <1>1, <2>2, <3>1 DEF WaitInv
  <2> QED  BY <2>1, <2>2
<1>13. ReturnInv'
  BY <1>1, <1>9, <1>11 DEF ReturnInv, IsOwn, Finished, StatusOf, n
<1>14. ChunkInv'
  <2> SUFFICES ASSUME app.then = "chunk", app.pc \in {"waiting", "returned"}
               PROVE  ChunkInv'
    BY <1>1 DEF ChunkInv
  <2> DEFINE first == n - (app.at - 1)
  <2>1. /\ first > 0 /\ sent[n].id = app.id /\ EarlierOver(app.id)
        /\ Written(first, app.at - 1, current_end_station)
        /\ \A d \in first .. n - 1 : ended[d] = "success"
    BY <1>11 DEF ChunkInv, n
  <2>2. EarlierOver(app.id)'
    <3>1. PICK id : id = app.id
      OBVIOUS
    <3>2. EarlierOver(id)'
      BY <1>8, <2>1, <3>1
    <3> QED  BY <1>1, <3>1, <3>2 DEF EarlierOver
  <2>3. \A d \in first .. n - 1 : ended'[d] = "success"
    <3>1. app.at \in Nat
      BY AppTyped
    <3> QED  BY <1>3, <1>7, <2>1, <3>1
  <2>4. Written(first, app.at - 1, current_end_station)'
    BY <1>1, <1>3, <2>1 DEF Written, n
  <2> QED  BY <1>1, <1>3, <2>1, <2>2, <2>3, <2>4 DEF ChunkInv, n
<1>15. UpgradedMeansWritten'
  <2>1. KeepsSent /\ \A d \in 1 .. Len(sent) : ended[d] = "success" => ended'[d] = "success"
    BY <1>1, <1>3, <1>7 DEF KeepsSent, n
  <2> QED  BY <1>1, <1>3, <1>11, <2>1, UpgradedStays
<1> QED  BY <1>12, <1>13, <1>14, <1>15

LEMMA HandleClean ==
  ASSUME CoreInv, CoreInv', CleanInv, NEW line \in Lines, Handle(line)
  PROVE  CleanInv'
<1>1. /\ app.pc = "prompt" /\ UNCHANGED readVars
      /\ \/ Begun(line, app') /\ Quiet(line)
         \/ Begun(line, app') /\ Stops(line)
         \/ Begun(line, app') /\ AsksInVain(line)
         \/ \E cmd \in Commands : \E next : HandsOver(line, cmd, next)
         \/ Begun(line, app') /\ WalksOver(line)
         \/ Begun(line, app') /\ CollectsAll(line)
  BY HandleCases DEF CoreInv
<1>2. wait_state \in {"idle", "primed"} /\ CmdTypes /\ CmdTypes' /\ Len(sent) \in Nat
  BY <1>1, SentTyped DEF CoreInv, IdsInv, WaitTypes
<1> SUFFICES ASSUME Clean'
             PROVE  (WaitInv /\ ReturnInv /\ ChunkInv /\ UpgradedMeansWritten)'
  BY DEF CleanInv
<1>3. CASE Begun(line, app') /\ (Quiet(line) \/ Stops(line) \/ WalksOver(line)
                                 \/ CollectsAll(line))
  <2>1. /\ app'.pc \in {"prompt", "fails", "quits", "walking", "inputs"}
        /\ app'.said # "upgraded"
        /\ UNCHANGED <<wait_state, waiting_sem, sent>>
    BY <1>3 DEF Begun, Quiet, Stops, WalksOver, CollectsAll, waitVars, cmdVars
  <2>2. waiting_sem = 0
    <3>1. Clean
      BY <2>1 DEF Clean, SharedId
    <3> QED  BY <1>1, <3>1 DEF CleanInv, WaitInv
  <2> QED
    BY <2>1, <2>2 DEF WaitInv, ReturnInv, ChunkInv, UpgradedMeansWritten
<1>4. CASE Begun(line, app') /\ AsksInVain(line)
  <2>1. wait_state' = "primed"
    BY <1>2, <1>4 DEF AsksInVain
  <2> QED  BY <2>1 DEF Clean
<1>5. CASE \E cmd \in Commands : \E next : HandsOver(line, cmd, next)
  <2>0. PICK cmd \in Commands : \E next : HandsOver(line, cmd, next)
    BY <1>5
  <2>1. PICK next : HandsOver(line, cmd, next)
    BY <2>0
  <2>2. PICK id : id = notification_id
    OBVIOUS
  <2>3. /\ Len(sent') = Len(sent) + 1
        /\ \A d \in 1 .. Len(sent) : sent'[d] = sent[d] /\ ended'[d] = ended[d]
        /\ sent'[Len(sent) + 1] = [cmd |-> cmd, id |-> id]
        /\ wait_state = "idle" => notify_id' = id /\ app'.pc = "waiting"
        /\ wait_state # "idle" => wait_state' = wait_state
        /\ UNCHANGED waiting_sem
        /\ app'.then = next.then /\ app'.id = id /\ app'.at = 1
        /\ app'.said # "upgraded"
    BY <1>1, <2>1, <2>2, HandsOverStep
  <2>4. wait_state = "idle" /\ notify_id' = id /\ app'.pc = "waiting"
    BY <1>2, <2>3 DEF Clean
  <2>5. waiting_sem = 0
    <3>1. KeepsSent
      BY <1>2, <2>3 DEF KeepsSent
    <3>2. Clean
      BY <1>2, <2>4, <3>1, SharedStays DEF Clean
    <3> QED  BY <1>1, <3>2 DEF CleanInv, WaitInv
  <2> DEFINE n == Len(sent')
  <2>6. n > 0 /\ n - 1 = Len(sent) /\ sent'[n] = [cmd |-> cmd, id |-> id] /\ n \in Nat
    BY <1>2, <2>3
  <2> HIDE DEF n
  <2>7. EarlierOver(id)'
    <3>1. ASSUME NEW d \in 1 .. n - 1
          PROVE  sent'[d].id # id
      <4>1. /\ d \in 1 .. Len(sent) /\ sent'[d] = sent[d]
        BY <2>3, <2>6
      <4>2. sent[d].id \in Nat /\ sent[d].id < notification_id /\ notification_id \in Nat
        BY <4>1, SentTyped DEF CoreInv, IdsInv, WaitTypes
      <4> QED  BY <2>2, <4>1, <4>2
    <3> QED  BY <3>1 DEF EarlierOver, n
  <2>8. WaitInv'
    <3>1. EarlierOver(notify_id)'
      BY <2>4, <2>7 DEF EarlierOver
    <3>2. sent'[n].id = notify_id'
      BY <2>4, <2>6
    <3> QED  BY <2>3, <2>4, <2>5, <2>6, <3>1, <3>2 DEF WaitInv, n
  <2>9. ReturnInv'
    BY <2>4 DEF ReturnInv
  <2>10. ChunkInv'
    <3> SUFFICES ASSUME app'.then = "chunk"
                 PROVE  ChunkInv'
      BY DEF ChunkInv
    <3>1. /\ cmd = Cmd(current_end_station, "MEMORY_OBJECT", "START_OPERATION")
          /\ current_end_station' = current_end_station
      BY <2>1, <2>3 DEF HandsOver
    <3>2. /\ sent'[n].cmd.call = "START_OPERATION"
          /\ sent'[n].cmd.es = current_end_station'
      BY <2>6, <3>1 DEF Cmd
    <3> DEFINE first == n - (app'.at - 1)
    <3>3. first = n /\ app'.at - 1 = 0 /\ first > 0
      BY <2>3, <2>6
    <3> HIDE DEF first
    <3>4. /\ sent'[first].cmd.call = "START_OPERATION"
          /\ sent'[first].cmd.es = current_end_station'
          /\ \A k \in 1 .. app'.at - 1 :
               /\ sent'[first + k].cmd.call = "ADDRESS_ACCESS"
               /\ sent'[first + k].cmd.talker = k
               /\ sent'[first + k].cmd.es = current_end_station'
      BY <3>2, <3>3
    <3>5. \A d \in first .. n - 1 : ended'[d] = "success"
      BY <2>6, <3>3
    <3>6. EarlierOver(app.id)' /\ sent'[n].id = app'.id
      BY <2>3, <2>6, <2>7 DEF EarlierOver
    <3> QED  BY <3>3, <3>4, <3>5, <3>6, Zenon DEF ChunkInv, Written, first, n
  <2>11. UpgradedMeansWritten'
    BY <2>3 DEF UpgradedMeansWritten
  <2> QED  BY <2>8, <2>9, <2>10, <2>11
<1> QED  BY <1>1, <1>3, <1>4, <1>5

LEMMA CleanInit ==
  ASSUME LineInit
  PROVE  CleanInv
<1>1. app.pc = "prompt" /\ app.said = "nothing" /\ waiting_sem = 0
  BY DEF LineInit, Begin
<1> QED  BY <1>1 DEF CleanInv, WaitInv, ReturnInv, ChunkInv, UpgradedMeansWritten

LEMMA CleanStep ==
  ASSUME CoreInv, CleanInv, [LineNext]_lineVars
  PROVE  CleanInv'
<1>0. CoreInv'
  BY CoreStep
<1>1. CASE \E line \in Lines : Handle(line)
  BY <1>0, <1>1, HandleClean
<1>2. CASE Wake
  BY <1>0, <1>2, WakeClean
<1>4. CASE Report \/ UsesDeleted \/ WalkStation \/ WalkKind \/ WalkDetails \/ Collected
  <2>1. Moves /\ app'.said \in {app.said, "nothing"}
    BY <1>4, ReportMoves, UsesDeletedMoves, WalkStationMoves, WalkKindMoves,
       WalkDetailsMoves, CollectedMoves
  <2> QED  BY <1>0, <2>1, MovesSaid
<1>5. CASE CollectInputs
  BY <1>0, <1>5, CollectInputsClean
<1>6. CASE CollectOutputs
  BY <1>0, <1>6, CollectOutputsClean
<1>7. CASE Upgrade
  BY <1>0, <1>7, UpgradeClean
<1>8. CASE \E yes \in BOOLEAN : Answer(yes)
  BY <1>0, <1>8, AnswerClean
<1>9. CASE ReadsOn
  BY <1>9, ReadsCore, SameClean DEF userVars
<1>e. CASE \E es \in EndStations : Reenumerate(es)
  BY <1>e, ReenumerateStep, SameClean
<1>10. CASE \E c \in DOMAIN sent :
              \/ \E outcome \in {"success", "operating"} : Answered(c, outcome)
              \/ Refused(c)
              \/ \E outcome \in {"success", "failed"} : OperationOver(c, outcome)
              \/ TimedOut(c)
  BY <1>0, <1>10, EndsCases, EndsClean
<1>11. CASE UNCHANGED lineVars
  BY <1>11, SameClean DEF lineVars, userVars, cmdVars
<1> QED
  BY <1>1, <1>2, <1>4, <1>5, <1>6, <1>7, <1>8, <1>9, <1>e, <1>10, <1>11
     DEF LineNext, AppNext, PollNext, ReadsOn
-----------------------------------------------------------------------------
\* The types, the ids of the waits, the progress of the views and the state of the
\* wait hold together at every step.
THEOREM LineInvariant == LineSpec => []LineInv
<1>1. LineInit => LineInv
  BY CoreInit, ViewInit, CleanInit DEF LineInv
<1>2. LineInv /\ [LineNext]_lineVars => LineInv'
  BY CoreStep, ViewStep, CleanStep DEF LineInv
<1> QED  BY <1>1, <1>2, PTL DEF LineSpec

\* The handlers that look at the end station, the entity and the descriptor before
\* they use them never use one that is not there, for any lines, any end stations
\* and however far they have been read (get_current_end_station,
\* get_current_entity_and_descriptor), unless an end station was enumerated again,
\* and its descriptors deleted, between the look and a later use.
THEOREM ChecksHold == LineSpec => []CheckedNeverFail
<1>1. LineInv => CheckedNeverFail
  BY DEF LineInv, CoreInv
<1> QED  BY <1>1, LineInvariant, PTL

\* cmd_view_all and cmd_view_details show every descriptor that was there when they
\* began, though the poll thread adds end stations and descriptors while they walk and
\* deletes those of an end station that it enumerates again: of all other end stations
\* nothing is left out.
THEOREM ViewsComplete == LineSpec => []ViewsAreComplete
<1>1. LineInv => ViewsAreComplete
  BY DEF LineInv, ViewInv, ViewsAreComplete
<1> QED  BY <1>1, LineInvariant, PTL

\* When get_last_resp_status returns to a handler its command has ended and the
\* status is how, as long as no line asked for a wait in vain and no id was shared.
THEOREM StatusIsTheOwn == LineSpec => []StatusUsedIsOwn
<1>1. LineInv => StatusUsedIsOwn
  BY DEF LineInv, CleanInv, Clean, ReturnInv, IsOwn, StatusUsedIsOwn, StatusIsOwn
<1> QED  BY <1>1, LineInvariant, PTL

\* With the same provisos cmd_firmware_upgrade says that the image was upgraded only
\* when the erasing and, after it, the writing of every block have ended with
\* success, however long the image is.
THEOREM UpgradeWaits == LineSpec => []UpgradeWaitsForAll
<1>1. LineInv => UpgradeWaitsForAll
  BY DEF LineInv, CleanInv, Clean, UpgradeWaitsForAll
<1> QED  BY <1>1, LineInvariant, PTL

-----------------------------------------------------------------------------
(***************************************************************************)
(* CommandTree: any lines of any words.                                    *)
(*                                                                         *)
(* The loops and the descent of the parser are recursive functions.  That  *)
(* each exists is proved by induction on the turns, or the words left, it  *)
(* takes; what it computes then follows from an invariant of one turn,     *)
(* MatchInv for the loop that gives a format's arguments their words.  The *)
(* tables of cmd_line_commands_init are looked at once: GoodFormat and     *)
(* GoodNode sum up what the theorems need of them.                         *)
(***************************************************************************)
\* The arguments a format may have.
Arguments ==
  [kind : {"int", "end_station", "string"}, match_min : Nat, match_max : Nat]
ArgumentLists ==
  {args \in Seq(Arguments) : \A i \in DOMAIN args : args[i].match_min <= args[i].match_max}

\* Values of n arguments.
ValueLists(n) == {vals \in Seq(Seq(STRING)) : Len(vals) = n}

\* The first loop of a format's run_command, between its turns: nothing of the
\* line is lost or moved, the arguments passed have enough words, none has too
\* many and those not reached have none.
MatchStates(n) ==
  [i : 1 .. n + 1, count : Nat, words : Seq(STRING), ok : BOOLEAN, vals : ValueLists(n)]
MatchInv(args, words, m) ==
  /\ m \in MatchStates(Len(args))
  /\ FlattenSeq(m.vals) \o m.words = words
  /\ \A k \in 1 .. Len(args) :
       /\ k > m.i => m.vals[k] = <<>>
       /\ k = m.i => m.count = Len(m.vals[k])
       /\ k < m.i => args[k].match_min <= Len(m.vals[k])
       /\ Len(m.vals[k]) <= args[k].match_max

\* A list of arguments and the bounds in it.
LEMMA ArgumentFacts ==
  ASSUME NEW args, args \in ArgumentLists
  PROVE  /\ Len(args) \in Nat /\ DOMAIN args = 1 .. Len(args)
         /\ \A k \in 1 .. Len(args) : /\ args[k].match_min \in Nat
                                     /\ args[k].match_max \in Nat
                                     /\ args[k].match_min <= args[k].match_max
<1>1. args \in Seq(Arguments) /\ \A k \in DOMAIN args : args[k].match_min <= args[k].match_max
  BY DEF ArgumentLists
<1>2. Len(args) \in Nat /\ DOMAIN args = 1 .. Len(args)
  BY <1>1
<1>3. \A k \in 1 .. Len(args) : args[k] \in Arguments
  BY <1>1
<1>4. \A k \in 1 .. Len(args) : args[k].match_min \in Nat /\ args[k].match_max \in Nat
  BY <1>3 DEF Arguments
<1> QED
  BY <1>1, <1>2, <1>4

\* The loop starts so.
LEMMA MatchStartKeeps ==
  ASSUME NEW args \in ArgumentLists, NEW vals, NEW words \in Seq(STRING)
  PROVE  MatchInv(args, words, MatchStart(args, vals, words))
<1>1. PICK m : m = MatchStart(args, vals, words)
  OBVIOUS
<1>2. PICK n \in Nat : n = Len(args) /\ DOMAIN args = 1 .. n
  BY ArgumentFacts
<1>3. /\ m.i = 1 /\ m.count = 0 /\ m.words = words
      /\ m.vals = [i \in 1 .. n |-> <<>>]
  BY <1>1, <1>2 DEF MatchStart, clear_args
<1>4. m.vals \in ValueLists(n) /\ \A k \in 1 .. n : m.vals[k] = <<>>
  BY <1>2, <1>3 DEF ValueLists
<1>5. FlattenSeq(m.vals) = <<>>
  BY <1>4, FlattenSeqOfEmpty DEF ValueLists
<1>6. m \in MatchStates(n)
  <2>1. 1 \in 1 .. n + 1
    OBVIOUS
  <2>2. [i \in 1 .. n |-> <<>>] \in ValueLists(n)
    BY <1>3, <1>4
  <2> QED
    BY <1>1, <1>2, <2>1, <2>2 DEF MatchStart, clear_args, MatchStates
<1>7. \A k \in 1 .. n : args[k].match_max \in Nat
  BY <1>2, ArgumentFacts
<1>8. FlattenSeq(m.vals) \o m.words = words
  <2>1. <<>> \o words = words
    OBVIOUS
  <2> QED
    BY <1>3, <1>5, <2>1, Zenon
<1>9. \A k \in 1 .. n : Len(m.vals[k]) = 0
  BY <1>4
<1>10. \A k \in 1 .. n : /\ k > m.i => m.vals[k] = <<>>
                         /\ k = m.i => m.count = Len(m.vals[k])
                         /\ k < m.i => args[k].match_min <= Len(m.vals[k])
                         /\ Len(m.vals[k]) <= args[k].match_max
  BY <1>3, <1>4, <1>7, <1>9
<1>11. MatchInv(args, words, m)
  BY <1>2, <1>6, <1>8, <1>10 DEF MatchInv
<1> QED
  BY <1>1, <1>11

\* A turn that takes a word.
LEMMA TakingKeeps ==
  ASSUME NEW args \in ArgumentLists, NEW words \in Seq(STRING), NEW m,
         MatchInv(args, words, m), m.words # <<>>, m.i \in 1 .. Len(args),
         Len(m.vals[m.i]) < args[m.i].match_max
  PROVE  MatchInv(args, words,
                  [m EXCEPT
                    !.vals = [m.vals EXCEPT ![m.i] = Append(m.vals[m.i], Head(m.words))],
                    !.words = Tail(m.words), !.count = m.count + 1])
<1>1. PICK n \in Nat : n = Len(args)
  BY ArgumentFacts
<1>2. PICK w, rest, v, i : w = Head(m.words) /\ rest = Tail(m.words) /\ v = m.vals /\ i = m.i
  OBVIOUS
<1>3. m \in MatchStates(n) /\ i \in 1 .. n
  BY <1>1, <1>2 DEF MatchInv
<1>4. m.words \in Seq(STRING) /\ v \in Seq(Seq(STRING)) /\ Len(v) = n /\ m.count \in Nat
  BY <1>2, <1>3 DEF MatchStates, ValueLists
<1>5. w \in STRING /\ rest \in Seq(STRING) /\ m.words = <<w>> \o rest
  <2>1. PICK line : line = m.words
    OBVIOUS
  <2>2. line \in Seq(STRING) /\ line # <<>>
    BY <1>4, <2>1
  <2>3. w = Head(line) /\ rest = Tail(line)
    BY <1>2, <2>1
  <2>4. w \in STRING /\ rest \in Seq(STRING) /\ line = <<w>> \o rest
    BY <2>2, <2>3
  <2> QED
    BY <2>1, <2>4
<1>6. PICK v2 : v2 = [v EXCEPT ![i] = Append(v[i], w)]
  OBVIOUS
<1>7. v2 \in ValueLists(n)
  BY <1>3, <1>4, <1>5, <1>6 DEF ValueLists
<1>8. /\ \A k \in 1 .. n : k # i => v2[k] = v[k]
      /\ v2[i] = Append(v[i], w) /\ Len(v2[i]) = Len(v[i]) + 1
  BY <1>3, <1>4, <1>5, <1>6
<1>9. \A k \in 1 .. n : k > i => v[k] = <<>>
  BY <1>1, <1>2 DEF MatchInv
<1>10. FlattenSeq(v2) = Append(FlattenSeq(v), w)
  <2>1. v \in Seq(Seq(STRING)) /\ i \in 1 .. Len(v) /\ w \in STRING
    BY <1>3, <1>4, <1>5
  <2>2. \A k \in 1 .. Len(v) : k > i => v[k] = <<>>
    BY <1>4, <1>9
  <2>3. AppendedToLast(v2, v, i, w)
    BY <1>6, <2>2 DEF AppendedToLast
  <2> QED
    BY <2>1, <2>3, FlattenSeqAppend
<1>11. FlattenSeq(v2) \o rest = words
  <2>1. FlattenSeq(v) \in Seq(STRING)
    BY <1>4, FlattenSeqProperties
  <2>2. FlattenSeq(v) \o m.words = words
    BY <1>2 DEF MatchInv
  <2>3. PICK f : f = FlattenSeq(v)
    OBVIOUS
  <2>4. Append(f, w) \o rest = f \o (<<w>> \o rest)
    BY <1>5, <2>1, <2>3
  <2> QED
    BY <1>5, <1>10, <2>2, <2>3, <2>4
<1> DEFINE t == [m EXCEPT
                   !.vals = [m.vals EXCEPT ![m.i] = Append(m.vals[m.i], Head(m.words))],
                   !.words = Tail(m.words), !.count = m.count + 1]
<1>12. /\ t.i = i /\ t.count = m.count + 1 /\ t.words = rest /\ t.vals = v2 /\ t.ok = m.ok
       /\ t \in MatchStates(n)
  <2>1. t = [m EXCEPT !.vals = v2, !.words = rest, !.count = m.count + 1]
    BY <1>2, <1>6
  <2> HIDE DEF t
  <2>2. m.count + 1 \in Nat
    BY <1>4
  <2> QED
    BY <1>2, <1>3, <1>5, <1>7, <2>1, <2>2 DEF MatchStates
<1> HIDE DEF t
<1>13. \A k \in 1 .. n : /\ k = i => m.count = Len(v[k])
                         /\ k < i => args[k].match_min <= Len(v[k])
                         /\ Len(v[k]) <= args[k].match_max
                         /\ args[k].match_max \in Nat
  BY <1>1, <1>2, ArgumentFacts DEF MatchInv
<1>14. \A k \in 1 .. n :
         /\ k > t.i => t.vals[k] = <<>>
         /\ k = t.i => t.count = Len(t.vals[k])
         /\ k < t.i => args[k].match_min <= Len(t.vals[k])
         /\ Len(t.vals[k]) <= args[k].match_max
  <2> TAKE k \in 1 .. n
  <2>1. CASE k = i
    <3>1. Len(v[i]) < args[i].match_max /\ Len(v[i]) \in Nat
      BY <1>2, <1>3, <1>4, SMTT(30)
    <3>2. m.count = Len(v[i]) /\ args[i].match_max \in Nat
      BY <1>3, <1>13
    <3>3. t.i = i /\ t.count = m.count + 1 /\ Len(t.vals[i]) = Len(v[i]) + 1
      BY <1>8, <1>12
    <3>4. i \in Nat /\ Len(t.vals[i]) <= args[i].match_max
      BY <1>3, <3>1, <3>2, <3>3
    <3> QED
      BY <2>1, <3>2, <3>3, <3>4
  <2>2. CASE k # i
    BY <1>3, <1>8, <1>9, <1>12, <1>13, <2>2
  <2> QED
    BY <2>1, <2>2
<1>15. MatchInv(args, words, t)
  BY <1>1, <1>11, <1>12, <1>14 DEF MatchInv
<1> QED
  BY <1>15 DEF t

\* A turn that leaves an argument that has its words.
LEMMA NextArgumentKeeps ==
  ASSUME NEW args \in ArgumentLists, NEW words, NEW m,
         MatchInv(args, words, m), m.i \in 1 .. Len(args),
         args[m.i].match_min <= Len(m.vals[m.i])
  PROVE  MatchInv(args, words, NextArgument(m))
<1>1. PICK n \in Nat : n = Len(args)
  BY ArgumentFacts
<1>2. m \in MatchStates(n) /\ m.i \in 1 .. n
  BY <1>1 DEF MatchInv
<1>3. PICK t : t = NextArgument(m)
  OBVIOUS
<1>4. /\ t.i = m.i + 1 /\ t.count = 0 /\ t.words = m.words /\ t.vals = m.vals
      /\ t \in MatchStates(n)
  <2>1. m.i + 1 \in 1 .. n + 1
    BY <1>2
  <2> QED
    BY <1>2, <1>3, <2>1 DEF NextArgument, MatchStates
<1>5. \A k \in 1 .. n : /\ k > m.i => m.vals[k] = <<>>
                        /\ k < m.i => args[k].match_min <= Len(m.vals[k])
                        /\ Len(m.vals[k]) <= args[k].match_max
  BY <1>1 DEF MatchInv
<1>6. \A k \in 1 .. n : /\ k > t.i => t.vals[k] = <<>>
                        /\ k = t.i => t.count = Len(t.vals[k])
                        /\ k < t.i => args[k].match_min <= Len(t.vals[k])
                        /\ Len(t.vals[k]) <= args[k].match_max
  <2> TAKE k \in 1 .. n
  <2>1. k > m.i \/ k = m.i \/ k < m.i
    BY <1>2
  <2>2. k >= t.i => k > m.i
    BY <1>2, <1>4
  <2>3. k < t.i => k < m.i \/ k = m.i
    BY <1>2, <1>4
  <2> QED
    BY <1>2, <1>4, <1>5, <2>2, <2>3
<1>7. FlattenSeq(t.vals) \o t.words = words
  BY <1>4 DEF MatchInv
<1> QED
  BY <1>1, <1>3, <1>4, <1>6, <1>7 DEF MatchInv

\* Every turn of the loop.
LEMMA MatchWordKeeps ==
  ASSUME NEW args \in ArgumentLists, NEW words \in Seq(STRING), NEW m,
         MatchInv(args, words, m)
  PROVE  MatchInv(args, words, MatchWord(args, m))
<1> DEFINE fed == [m EXCEPT
                     !.vals = [m.vals EXCEPT ![m.i] = Append(m.vals[m.i], Head(m.words))],
                     !.words = Tail(m.words), !.count = m.count + 1]
           idle == m.words = <<>> \/ m.i > Len(args) \/ ~m.ok
           takes == set_value(args[m.i], m.vals[m.i], Head(m.words))
           full == args[m.i].match_max # UINT_MAX /\ fed.count >= args[m.i].match_max
           enough == m.count >= args[m.i].match_min
<1>1. MatchWord(args, m) = IF idle THEN m
                           ELSE IF takes
                           THEN IF full THEN NextArgument(fed) ELSE fed
                           ELSE IF enough THEN NextArgument(m)
                           ELSE [m EXCEPT !.ok = FALSE]
  BY DEF MatchWord
<1>2. CASE idle
  BY <1>1, <1>2
<1>3. ASSUME ~idle
      PROVE  MatchInv(args, words, MatchWord(args, m))
  <2>1. m.words # <<>> /\ m.i \in 1 .. Len(args) /\ m \in MatchStates(Len(args))
    BY <1>3 DEF MatchInv, MatchStates
  <2>2. /\ args[m.i].match_min \in Nat /\ args[m.i].match_max \in Nat
        /\ args[m.i].match_min <= args[m.i].match_max
    BY <2>1, ArgumentFacts
  <2>3. m.count = Len(m.vals[m.i])
    BY <2>1 DEF MatchInv
  <2>4. CASE takes
    <3>1. Len(m.vals[m.i]) < args[m.i].match_max
      BY <2>4 DEF set_value
    <3>2. MatchInv(args, words, fed)
      <4> HIDE DEF idle, takes, full, enough
      <4> QED
        BY <2>1, <3>1, TakingKeeps
    <3>3. fed.i = m.i
      BY <2>1 DEF MatchStates
    <3>4. CASE full
      <4>1. fed.count = Len(fed.vals[m.i])
        <5> HIDE DEF fed
        <5> QED
          BY <2>1, <3>2, <3>3 DEF MatchInv
      <4>2. args[m.i].match_min <= Len(fed.vals[m.i])
        <5>1. fed.count >= args[m.i].match_max
          BY <3>4
        <5> HIDE DEF fed
        <5>2. fed.vals[m.i] \in Seq(STRING)
          <6>1. fed \in MatchStates(Len(args))
            BY <3>2 DEF MatchInv
          <6>2. fed.vals \in ValueLists(Len(args))
            BY <6>1 DEF MatchStates
          <6> QED
            BY <2>1, <6>2 DEF ValueLists
        <5> QED
          BY <2>2, <4>1, <5>1, <5>2
      <4>3. MatchInv(args, words, NextArgument(fed))
        <5> HIDE DEF fed, idle, takes, full, enough
        <5> QED
          BY <2>1, <3>2, <3>3, <4>2, NextArgumentKeeps
      <4>4. MatchWord(args, m) = NextArgument(fed)
        <5> HIDE DEF fed, idle, takes, full, enough
        <5> QED
          BY <1>1, <1>3, <2>4, <3>4
      <4> QED
        BY <4>3, <4>4
    <3>5. CASE ~full
      <4>1. MatchWord(args, m) = fed
        <5> HIDE DEF fed, idle, takes, full, enough
        <5> QED
          BY <1>1, <1>3, <2>4, <3>5
      <4> QED
        BY <3>2, <4>1
    <3> QED
      BY <3>4, <3>5
  <2>5. CASE ~takes /\ enough
    <3>1. MatchInv(args, words, NextArgument(m))
      <4>1. args[m.i].match_min <= Len(m.vals[m.i])
        BY <2>2, <2>3, <2>5
      <4> HIDE DEF idle, takes, full, enough
      <4> QED
        BY <2>1, <4>1, NextArgumentKeeps
    <3>2. MatchWord(args, m) = NextArgument(m)
      <4> HIDE DEF fed, idle, takes, full, enough
      <4> QED
        BY <1>1, <1>3, <2>5
    <3> QED
      BY <3>1, <3>2
  <2>6. CASE ~takes /\ ~enough
    <3>1. PICK t : t = [m EXCEPT !.ok = FALSE]
      OBVIOUS
    <3>2. /\ t \in MatchStates(Len(args)) /\ t.i = m.i /\ t.count = m.count
          /\ t.words = m.words /\ t.vals = m.vals
      BY <2>1, <3>1 DEF MatchStates
    <3>3. MatchInv(args, words, t)
      BY <3>2 DEF MatchInv
    <3>4. MatchWord(args, m) = t
      <4> HIDE DEF fed, idle, takes, full, enough
      <4> QED
        BY <1>1, <1>3, <2>6, <3>1
    <3> QED
      BY <3>3, <3>4
  <2> QED
    BY <2>4, <2>5, <2>6
<1> QED
  BY <1>2, <1>3

\* The loop is defined by a recursive function, which exists because each of
\* its initial parts does.
MatchLoop(loop, args, start, turns) ==
  /\ loop[0] = start
  /\ \A n \in 1 .. turns : loop[n] = MatchWord(args, loop[n - 1])
  /\ MatchWords(args, start) = loop[turns]

\* By induction on the number of turns.
LEMMA MatchWordsUnfolds ==
  ASSUME NEW args, NEW start, NEW turns, turns \in Nat,
         turns = Len(args) + Len(start.words)
  PROVE  \E loop : MatchLoop(loop, args, start, turns)
<1> DEFINE Runs(f, m) ==
             f = [n \in 0 .. m |-> IF n = 0 THEN start ELSE MatchWord(args, f[n - 1])]
           loop == CHOOSE f : Runs(f, turns)
           S == {m \in Nat : \E f : Runs(f, m)}
<1>1. 0 \in S
  <2>1. Runs([n \in 0 .. 0 |-> start], 0)
    OBVIOUS
  <2> QED
    BY <2>1
<1>2. ASSUME NEW m \in Nat, m \in S
      PROVE  m + 1 \in S
  <2>1. PICK f : Runs(f, m)
    BY <1>2
  <2> DEFINE g == [n \in 0 .. m + 1 |-> IF n <= m THEN f[n] ELSE MatchWord(args, f[m])]
  <2>2. ASSUME NEW n \in 0 .. m + 1
        PROVE  g[n] = IF n = 0 THEN start ELSE MatchWord(args, g[n - 1])
    <3>1. CASE n = m + 1
      BY <3>1
    <3>2. CASE n \in 0 .. m
      <4>1. f[n] = IF n = 0 THEN start ELSE MatchWord(args, f[n - 1])
        BY <2>1, <3>2
      <4> QED
        BY <3>2, <4>1
    <3> QED
      BY <3>1, <3>2
  <2>3. Runs(g, m + 1)
    BY <2>2
  <2> HIDE DEF g, Runs
  <2>4. \E h : Runs(h, m + 1)
    BY <2>3
  <2> QED
    BY <2>4
<1>3. Nat \subseteq S
  <2> HIDE DEF S
  <2> QED
    BY <1>1, <1>2, InductionOnSet
<1>4. Runs(loop, turns)
  BY <1>3
<1>5. MatchWords(args, start) = loop[turns]
  BY DEF MatchWords
<1> HIDE DEF loop
<1>6. loop[0] = start /\ \A n \in 1 .. turns : loop[n] = MatchWord(args, loop[n - 1])
  <2>1. \A n \in 0 .. turns :
          loop[n] = IF n = 0 THEN start ELSE MatchWord(args, loop[n - 1])
    BY <1>4
  <2>2. 0 \in 0 .. turns /\ \A n \in 1 .. turns : n \in 0 .. turns /\ n # 0
    OBVIOUS
  <2> HIDE DEF Runs
  <2> QED
    BY <2>1, <2>2
<1>7. MatchLoop(loop, args, start, turns)
  BY <1>5, <1>6 DEF MatchLoop
<1> QED
  BY <1>7

\* The whole loop.
LEMMA MatchWordsKeeps ==
  ASSUME NEW args \in ArgumentLists, NEW vals, NEW words \in Seq(STRING)
  PROVE  MatchInv(args, words, MatchWords(args, MatchStart(args, vals, words)))
<1>1. PICK start : start = MatchStart(args, vals, words)
  OBVIOUS
<1>2. start.words = words
  BY <1>1 DEF MatchStart
<1>3. PICK turns \in Nat : turns = Len(args) + Len(start.words)
  <2>1. Len(args) \in Nat /\ Len(words) \in Nat
    BY ArgumentFacts
  <2> QED
    BY <1>2, <2>1
<1>4. PICK loop : MatchLoop(loop, args, start, turns)
  BY <1>3, MatchWordsUnfolds
<1> USE DEF MatchLoop
<1> DEFINE S == {n \in Nat : n <= turns => MatchInv(args, words, loop[n])}
<1>5. 0 \in S
  BY <1>1, <1>4, MatchStartKeeps
<1>6. ASSUME NEW n \in Nat, n \in S
      PROVE  n + 1 \in S
  <2> SUFFICES ASSUME n + 1 <= turns PROVE MatchInv(args, words, loop[n + 1])
    OBVIOUS
  <2>1. n + 1 \in 1 .. turns /\ (n + 1) - 1 = n /\ MatchInv(args, words, loop[n])
    BY <1>6
  <2>2. loop[n + 1] = MatchWord(args, loop[n])
    BY <1>4, <2>1
  <2> QED
    BY <2>1, <2>2, MatchWordKeeps
<1>7. Nat \subseteq S
  <2> HIDE DEF S
  <2> QED
    BY <1>5, <1>6, InductionOnSet
<1>8. MatchInv(args, words, loop[turns])
  BY <1>7
<1> QED
  BY <1>1, <1>4, <1>8

\* What a format leaves behind: values of its arguments, and where it matches
\* they are the words, each argument's as many as it is to have.
Matches(args, vals, words) ==
  /\ FlattenSeq(vals) = words
  /\ \A k \in 1 .. Len(args) : /\ args[k].match_min <= Len(vals[k])
                               /\ Len(vals[k]) <= args[k].match_max

\* It does so whatever values it starts from.
LEMMA FormatOutcome ==
  ASSUME NEW args, NEW vals, NEW words, args \in ArgumentLists, words \in Seq(STRING)
  PROVE  LET r == format_run_command(args, vals, words)
         IN  /\ r.ok \in BOOLEAN
             /\ r.vals \in ValueLists(Len(args))
             /\ r.ok => Matches(args, r.vals, words)
<1>1. PICK m : m = MatchWords(args, MatchStart(args, vals, words))
  OBVIOUS
<1>2. MatchInv(args, words, m)
  BY <1>1, MatchWordsKeeps
<1>3. PICK r : r = format_run_command(args, vals, words)
  OBVIOUS
<1>4. r.vals = m.vals /\ r.ok = (m.ok /\ m.words = <<>> /\ NoneLeftOver(args, m))
  BY <1>1, <1>3 DEF format_run_command
<1>5. PICK n \in Nat : n = Len(args) /\ DOMAIN args = 1 .. n
  BY ArgumentFacts
<1>6. m \in MatchStates(n)
  BY <1>2, <1>5 DEF MatchInv
<1>7. m.vals \in ValueLists(n) /\ m.i \in Nat /\ m.ok \in BOOLEAN
  BY <1>6 DEF MatchStates
<1>8. r.ok \in BOOLEAN
  BY <1>3 DEF format_run_command
<1>9. ASSUME r.ok PROVE Matches(args, r.vals, words)
  <2>1. m.words = <<>> /\ NoneLeftOver(args, m)
    BY <1>4, <1>9
  <2>2. FlattenSeq(m.vals) = words
    <3>1. FlattenSeq(m.vals) \in Seq(STRING)
      BY <1>7, FlattenSeqProperties DEF ValueLists
    <3>2. FlattenSeq(m.vals) \o m.words = words
      BY <1>2 DEF MatchInv
    <3>3. PICK f : f = FlattenSeq(m.vals)
      OBVIOUS
    <3>4. f \o <<>> = f
      BY <3>1, <3>3
    <3> QED
      BY <2>1, <3>2, <3>3, <3>4
  <2>3. \A k \in 1 .. n : k >= m.i => args[k].match_min <= Len(m.vals[k])
    BY <1>5, <2>1 DEF NoneLeftOver
  <2>4. \A k \in 1 .. n : /\ k < m.i => args[k].match_min <= Len(m.vals[k])
                          /\ Len(m.vals[k]) <= args[k].match_max
    BY <1>2, <1>5 DEF MatchInv
  <2>5. \A k \in 1 .. n : k >= m.i \/ k < m.i
    BY <1>7
  <2>6. \A k \in 1 .. n : args[k].match_min <= Len(m.vals[k])
    BY <2>3, <2>4, <2>5
  <2> QED
    BY <1>4, <1>5, <2>2, <2>4, <2>6 DEF Matches
<1> QED
  BY <1>3, <1>4, <1>5, <1>7, <1>8, <1>9

-----------------------------------------------------------------------------
(* What holds of the tables of cmd_line_commands_init. *)

\* What the handler asks of its arguments suits them.
Suits(args, reads) ==
  \A i \in DOMAIN reads :
    /\ i \in DOMAIN args
    /\ args[i].kind = Accessor(reads[i]).kind
    /\ Accessor(reads[i]).single => args[i].match_min = 1 /\ args[i].match_max = 1

\* An argument that offers completions takes one word, and is the first of its
\* format or comes after one end station and one number.
OffersEarly(args) ==
  \A i \in DOMAIN args : args[i].kind = "end_station" =>
    /\ args[i] = ES
    /\ i = 1 \/ (i = 3 /\ args[1] = ES /\ args[2] = Num)

WellFormed(args) == args \in ArgumentLists /\ OffersEarly(args)

\* The third offers nothing.
OffersFirst(args) == 3 \in DOMAIN args => args[3] # ES
OneOffer(args) == WellFormed(args) /\ OffersFirst(args)

GoodFormat(f, format) ==
  /\ f # "none"
  /\ WellFormed(format.args)
  /\ f \notin {"connect_rx_fmt", "disconnect_fmt"} => OffersFirst(format.args)
  /\ f # "param_fmt" => Suits(format.args, ReadsOf(format.action))

\* The arguments cmd_line_commands_init makes.
LEMMA ArgumentKinds ==
  /\ Num \in Arguments /\ Num.kind = "int" /\ Num.match_min = 1 /\ Num.match_max = 1
  /\ ES \in Arguments /\ ES.kind = "end_station" /\ ES.match_min = 1 /\ ES.match_max = 1
  /\ Str \in Arguments /\ Str.kind = "string" /\ Str.match_min = 1 /\ Str.match_max = 1
  /\ Strs(0) \in Arguments /\ Strs(0).kind = "string" /\ Strs(0).match_min = 0
  /\ Strs(1) \in Arguments /\ Strs(1).kind = "string" /\ Strs(1).match_min = 1
  /\ Strs(0).match_max = UINT_MAX /\ Strs(1).match_max = UINT_MAX /\ UINT_MAX >= 1
BY DEF Num, ES, Str, Strs, cli_argument, Arguments, UINT_MAX

\* The accessors of cli_argument.h.
LEMMA AccessorKinds ==
  /\ Accessor("int").kind = "int" /\ Accessor("uint").kind = "end_station"
  /\ Accessor("str").kind = "string" /\ Accessor("all_str").kind = "string"
  /\ Accessor("int").single = TRUE /\ Accessor("uint").single = TRUE
  /\ Accessor("str").single = TRUE /\ Accessor("all_str").single = FALSE
BY DEF Accessor

\* The lists of arguments there are.
LEMMA ListsOfArguments ==
  /\ OneOffer(<<>>)
  /\ OneOffer(<<ES>>)
  /\ OneOffer(<<Num>>)
  /\ OneOffer(<<Str>>)
  /\ OneOffer(<<ES, Num>>)
  /\ OneOffer(<<Strs(1)>>)
  /\ OneOffer(<<Str, Num>>)
  /\ OneOffer(<<ES, Num, Num>>)
  /\ OneOffer(<<Str, Num, Num>>)
  /\ OneOffer(<<Str, Num, Str>>)
  /\ OneOffer(<<Str, Str, Num>>)
  /\ WellFormed(<<ES, Num, ES, Num>>)
  /\ OneOffer(<<Str, Num, Str, Str>>)
  /\ OneOffer(<<ES, Num, Num, Str, Num>>)
  /\ WellFormed(<<ES, Num, ES, Num, Strs(0)>>)
<1> USE ArgumentKinds DEF OneOffer, WellFormed, ArgumentLists, OffersEarly, OffersFirst
<1>1. OneOffer(<<>>)
  OBVIOUS
<1>2. OneOffer(<<ES>>)
  OBVIOUS
<1>3. OneOffer(<<Num>>)
  OBVIOUS
<1>4. OneOffer(<<Str>>)
  OBVIOUS
<1>5. OneOffer(<<ES, Num>>)
  OBVIOUS
<1>6. OneOffer(<<Strs(1)>>)
  OBVIOUS
<1>7. OneOffer(<<Str, Num>>)
  OBVIOUS
<1>8. OneOffer(<<ES, Num, Num>>)
  OBVIOUS
<1>9. OneOffer(<<Str, Num, Num>>)
  OBVIOUS
<1>10. OneOffer(<<Str, Num, Str>>)
  OBVIOUS
<1>11. OneOffer(<<Str, Str, Num>>)
  OBVIOUS
<1>12. WellFormed(<<ES, Num, ES, Num>>)
  OBVIOUS
<1>13. OneOffer(<<Str, Num, Str, Str>>)
  OBVIOUS
<1>14. OneOffer(<<ES, Num, Num, Str, Num>>)
  OBVIOUS
<1>15. WellFormed(<<ES, Num, ES, Num, Strs(0)>>)
  <2>1. PICK any : any = Strs(0)
    OBVIOUS
  <2>2. any \in Arguments /\ any.kind = "string" /\ any.match_min <= any.match_max
    BY <2>1, ArgumentKinds DEF UINT_MAX
  <2>3. WellFormed(<<ES, Num, ES, Num, any>>)
    BY <2>2
  <2> QED
    BY <2>1, <2>3
<1> QED
  BY <1>1, <1>2, <1>3, <1>4, <1>5, <1>6, <1>7, <1>8, <1>9, <1>10, <1>11, <1>12,
     <1>13, <1>14, <1>15

\* The accessors handlers call on them.
LEMMA ListsSuit ==
  /\ Suits(<<>>, <<>>)
  /\ Suits(<<ES, Num, ES, Num, Strs(0)>>, <<"uint", "int", "uint", "int", "all_str">>)
  /\ Suits(<<ES, Num, ES, Num>>, <<"uint", "int", "uint", "int">>)
  /\ Suits(<<ES, Num, Num>>, <<"uint", "int", "int">>)
  /\ Suits(<<ES, Num>>, <<"uint", "int">>)
  /\ Suits(<<ES>>, <<"uint">>)
  /\ Suits(<<Num>>, <<"int">>)
  /\ Suits(<<Str, Num, Num>>, <<"str", "int", "int">>)
  /\ Suits(<<Str, Num, Str, Str>>, <<"str", "int", "str", "str">>)
  /\ Suits(<<Str, Num, Str>>, <<"str", "int", "str">>)
  /\ Suits(<<Str, Num>>, <<"str", "int">>)
  /\ Suits(<<Str, Str, Num>>, <<"str", "str", "int">>)
  /\ Suits(<<Str, Str, Num>>, <<"str", "str">>)
  /\ Suits(<<Str>>, <<"str">>)
  /\ Suits(<<Strs(1)>>, <<"all_str">>)
<1>1. Suits(<<>>, <<>>)
  BY ArgumentKinds, AccessorKinds DEF Suits
<1>2. Suits(<<ES, Num, ES, Num, Strs(0)>>, <<"uint", "int", "uint", "int", "all_str">>)
  BY ArgumentKinds, AccessorKinds DEF Suits
<1>3. Suits(<<ES, Num, ES, Num>>, <<"uint", "int", "uint", "int">>)
  BY ArgumentKinds, AccessorKinds DEF Suits
<1>4. Suits(<<ES, Num, Num>>, <<"uint", "int", "int">>)
  BY ArgumentKinds, AccessorKinds DEF Suits
<1>5. Suits(<<ES, Num>>, <<"uint", "int">>)
  BY ArgumentKinds, AccessorKinds DEF Suits
<1>6. Suits(<<ES>>, <<"uint">>)
  BY ArgumentKinds, AccessorKinds DEF Suits
<1>7. Suits(<<Num>>, <<"int">>)
  BY ArgumentKinds, AccessorKinds DEF Suits
<1>8. Suits(<<Str, Num, Num>>, <<"str", "int", "int">>)
  BY ArgumentKinds, AccessorKinds DEF Suits
<1>9. Suits(<<Str, Num, Str, Str>>, <<"str", "int", "str", "str">>)
  BY ArgumentKinds, AccessorKinds DEF Suits
<1>10. Suits(<<Str, Num, Str>>, <<"str", "int", "str">>)
  BY ArgumentKinds, AccessorKinds DEF Suits
<1>11. Suits(<<Str, Num>>, <<"str", "int">>)
  BY ArgumentKinds, AccessorKinds DEF Suits
<1>12. Suits(<<Str, Str, Num>>, <<"str", "str", "int">>)
  BY ArgumentKinds, AccessorKinds DEF Suits
<1>13. Suits(<<Str, Str, Num>>, <<"str", "str">>)
  BY ArgumentKinds, AccessorKinds DEF Suits
<1>14. Suits(<<Str>>, <<"str">>)
  BY ArgumentKinds, AccessorKinds DEF Suits
<1>15. Suits(<<Strs(1)>>, <<"all_str">>)
  BY ArgumentKinds, AccessorKinds DEF Suits
<1> QED
  BY <1>1, <1>2, <1>3, <1>4, <1>5, <1>6, <1>7, <1>8, <1>9, <1>10, <1>11, <1>12,
     <1>13, <1>14, <1>15

\* The formats, section by section.
LEMMA HelpToLogFormats ==
  \A f \in DOMAIN HelpToLog.calls : GoodFormat(f, HelpToLog.calls[f])
<1>1. /\ ReadsOf("cmd_help_one") = <<"all_str">>
      /\ ReadsOf("cmd_help_all") = <<>>
      /\ ReadsOf("cmd_version") = <<>>
      /\ ReadsOf("cmd_list") = <<>>
      /\ ReadsOf("cmd_select") = <<"uint", "int", "int">>
      /\ ReadsOf("cmd_show_select") = <<>>
      /\ ReadsOf("cmd_log") = <<"str">>
      /\ ReadsOf("cmd_log_level") = <<"int">>
      /\ ReadsOf("cmd_unlog") = <<>>
  BY DEF ReadsOf, Reads
<1>2. GoodFormat("help_one_fmt", Format("cmd_help_one", <<Strs(1)>>))
  BY <1>1, ListsOfArguments, ListsSuit DEF GoodFormat, OneOffer, Format
<1>3. GoodFormat("help_all_fmt", Format("cmd_help_all", <<>>))
  BY <1>1, ListsOfArguments, ListsSuit DEF GoodFormat, OneOffer, Format
<1>4. GoodFormat("version_format", Format("cmd_version", <<>>))
  BY <1>1, ListsOfArguments, ListsSuit DEF GoodFormat, OneOffer, Format
<1>5. GoodFormat("list_fmt", Format("cmd_list", <<>>))
  BY <1>1, ListsOfArguments, ListsSuit DEF GoodFormat, OneOffer, Format
<1>6. GoodFormat("select_fmt", Format("cmd_select", <<ES, Num, Num>>))
  BY <1>1, ListsOfArguments, ListsSuit DEF GoodFormat, OneOffer, Format
<1>7. GoodFormat("show_select_fmt", Format("cmd_show_select", <<>>))
  BY <1>1, ListsOfArguments, ListsSuit DEF GoodFormat, OneOffer, Format
<1>8. GoodFormat("log_fmt", Format("cmd_log", <<Str>>))
  BY <1>1, ListsOfArguments, ListsSuit DEF GoodFormat, OneOffer, Format
<1>9. GoodFormat("log_level_fmt", Format("cmd_log_level", <<Num>>))
  BY <1>1, ListsOfArguments, ListsSuit DEF GoodFormat, OneOffer, Format
<1>10. GoodFormat("unlog_fmt", Format("cmd_unlog", <<>>))
  BY <1>1, ListsOfArguments, ListsSuit DEF GoodFormat, OneOffer, Format
<1> QED
  BY <1>2, <1>3, <1>4, <1>5, <1>6, <1>7, <1>8, <1>9, <1>10 DEF HelpToLog

\* view, show, connect and disconnect.
LEMMA ViewToDisconnectFormats ==
  \A f \in DOMAIN ViewToDisconnect.calls : GoodFormat(f, ViewToDisconnect.calls[f])
<1>1. /\ ReadsOf("cmd_view_all") = <<>>
      /\ ReadsOf("cmd_view_media_clock") = <<>>
      /\ ReadsOf("cmd_view_details") = <<"uint">>
      /\ ReadsOf("cmd_view_descriptor") = <<"str", "int">>
      /\ ReadsOf("cmd_show_connections") = <<>>
      /\ ReadsOf("cmd_connect_rx") = <<"uint", "int", "uint", "int", "all_str">>
      /\ ReadsOf("cmd_connect_dst") = <<"uint", "int">>
      /\ ReadsOf("cmd_connect") = <<>>
      /\ ReadsOf("cmd_disconnect_rx") = <<"uint", "int", "uint", "int">>
  BY DEF ReadsOf, Reads
<1>2. GoodFormat("view_all_fmt", Format("cmd_view_all", <<>>))
  BY <1>1, ListsOfArguments, ListsSuit DEF GoodFormat, OneOffer, Format
<1>3. GoodFormat("view_media_clock_fmt", Format("cmd_view_media_clock", <<>>))
  BY <1>1, ListsOfArguments, ListsSuit DEF GoodFormat, OneOffer, Format
<1>4. GoodFormat("view_details_fmt", Format("cmd_view_details", <<ES>>))
  BY <1>1, ListsOfArguments, ListsSuit DEF GoodFormat, OneOffer, Format
<1>5. GoodFormat("view_descriptor_fmt", Format("cmd_view_descriptor", <<Str, Num>>))
  BY <1>1, ListsOfArguments, ListsSuit DEF GoodFormat, OneOffer, Format
<1>6. GoodFormat("show_connections_fmt", Format("cmd_show_connections", <<>>))
  BY <1>1, ListsOfArguments, ListsSuit DEF GoodFormat, OneOffer, Format
<1>7. GoodFormat("connect_rx_fmt", Format("cmd_connect_rx", <<ES, Num, ES, Num, Strs(0)>>))
  BY <1>1, ListsOfArguments, ListsSuit DEF GoodFormat, OneOffer, Format
<1>8. GoodFormat("connect_dst_fmt", Format("cmd_connect_dst", <<ES, Num>>))
  BY <1>1, ListsOfArguments, ListsSuit DEF GoodFormat, OneOffer, Format
<1>9. GoodFormat("connect_none_fmt", Format("cmd_connect", <<>>))
  BY <1>1, ListsOfArguments, ListsSuit DEF GoodFormat, OneOffer, Format
<1>10. GoodFormat("disconnect_fmt", Format("cmd_disconnect_rx", <<ES, Num, ES, Num>>))
  BY <1>1, ListsOfArguments, ListsSuit DEF GoodFormat, OneOffer, Format
<1> QED
  BY <1>2, <1>3, <1>4, <1>5, <1>6, <1>7, <1>8, <1>9, <1>10 DEF ViewToDisconnect

\* get rx and get tx.
LEMMA GetRxTxFormats ==
  \A f \in DOMAIN GetRxTx.calls : GoodFormat(f, GetRxTx.calls[f])
<1>1. /\ ReadsOf("cmd_get_rx_state") = <<"uint", "int">>
      /\ ReadsOf("cmd_get_tx_state") = <<"uint", "int">>
      /\ ReadsOf("cmd_get_tx_connection") = <<"uint", "int">>
  BY DEF ReadsOf, Reads
<1>2. GoodFormat("get_rx_state_fmt", Format("cmd_get_rx_state", <<ES, Num>>))
  BY <1>1, ListsOfArguments, ListsSuit DEF GoodFormat, OneOffer, Format
<1>3. GoodFormat("get_tx_state_fmt", Format("cmd_get_tx_state", <<ES, Num>>))
  BY <1>1, ListsOfArguments, ListsSuit DEF GoodFormat, OneOffer, Format
<1>4. GoodFormat("get_tx_connection_fmt", Format("cmd_get_tx_connection", <<ES, Num>>))
  BY <1>1, ListsOfArguments, ListsSuit DEF GoodFormat, OneOffer, Format
<1> QED
  BY <1>2, <1>3, <1>4 DEF GetRxTx

\* entity, acquire, lock, reboot, controller and read.
LEMMA EntityToReadFormats ==
  \A f \in DOMAIN EntityToRead.calls : GoodFormat(f, EntityToRead.calls[f])
<1>1. /\ ReadsOf("cmd_acquire_entity") = <<"str", "str", "int">>
      /\ ReadsOf("cmd_lock_entity") = <<"str", "str">>
      /\ ReadsOf("cmd_entity_avail") = <<>>
      /\ ReadsOf("cmd_reboot") = <<>>
      /\ ReadsOf("cmd_controller_avail") = <<>>
      /\ ReadsOf("cmd_read_descriptor") = <<"str", "int">>
  BY DEF ReadsOf, Reads
<1>2. GoodFormat("entity_acquire_fmt", Format("cmd_acquire_entity", <<Str, Str, Num>>))
  BY <1>1, ListsOfArguments, ListsSuit DEF GoodFormat, OneOffer, Format
<1>3. GoodFormat("entity_lock_fmt", Format("cmd_lock_entity", <<Str, Str, Num>>))
  BY <1>1, ListsOfArguments, ListsSuit DEF GoodFormat, OneOffer, Format
<1>4. GoodFormat("entity_available_fmt", Format("cmd_entity_avail", <<>>))
  BY <1>1, ListsOfArguments, ListsSuit DEF GoodFormat, OneOffer, Format
<1>5. GoodFormat("reboot_fmt", Format("cmd_reboot", <<>>))
  BY <1>1, ListsOfArguments, ListsSuit DEF GoodFormat, OneOffer, Format
<1>6. GoodFormat("controller_available_fmt", Format("cmd_controller_avail", <<>>))
  BY <1>1, ListsOfArguments, ListsSuit DEF GoodFormat, OneOffer, Format
<1>7. GoodFormat("read_descriptor_fmt", Format("cmd_read_descriptor", <<Str, Num>>))
  BY <1>1, ListsOfArguments, ListsSuit DEF GoodFormat, OneOffer, Format
<1> QED
  BY <1>2, <1>3, <1>4, <1>5, <1>6, <1>7 DEF EntityToRead

\* set and get.
LEMMA SetGetFormats ==
  \A f \in DOMAIN SetGet.calls : GoodFormat(f, SetGet.calls[f])
<1>1. /\ ReadsOf("cmd_set_stream_format") = <<"str", "int", "str">>
      /\ ReadsOf("cmd_get_stream_format") = <<"str", "int">>
      /\ ReadsOf("cmd_set_stream_info") = <<"str", "int", "str", "str">>
      /\ ReadsOf("cmd_get_stream_info") = <<"str", "int">>
      /\ ReadsOf("cmd_set_sampling_rate") = <<"str", "int", "int">>
      /\ ReadsOf("cmd_get_sampling_rate") = <<"str", "int">>
      /\ ReadsOf("cmd_set_clock_source") = <<"str", "int", "int">>
      /\ ReadsOf("cmd_get_clock_source") = <<"str", "int">>
  BY DEF ReadsOf, Reads
<1>2. GoodFormat("set_stream_format_fmt", Format("cmd_set_stream_format", <<Str, Num, Str>>))
  BY <1>1, ListsOfArguments, ListsSuit DEF GoodFormat, OneOffer, Format
<1>3. GoodFormat("get_stream_format_fmt", Format("cmd_get_stream_format", <<Str, Num>>))
  BY <1>1, ListsOfArguments, ListsSuit DEF GoodFormat, OneOffer, Format
<1>4. GoodFormat("set_stream_info_fmt", Format("cmd_set_stream_info", <<Str, Num, Str, Str>>))
  BY <1>1, ListsOfArguments, ListsSuit DEF GoodFormat, OneOffer, Format
<1>5. GoodFormat("get_stream_info_fmt", Format("cmd_get_stream_info", <<Str, Num>>))
  BY <1>1, ListsOfArguments, ListsSuit DEF GoodFormat, OneOffer, Format
<1>6. GoodFormat("set_sampling_rate_fmt", Format("cmd_set_sampling_rate", <<Str, Num, Num>>))
  BY <1>1, ListsOfArguments, ListsSuit DEF GoodFormat, OneOffer, Format
<1>7. GoodFormat("get_sampling_rate_fmt", Format("cmd_get_sampling_rate", <<Str, Num>>))
  BY <1>1, ListsOfArguments, ListsSuit DEF GoodFormat, OneOffer, Format
<1>8. GoodFormat("set_clock_source_fmt", Format("cmd_set_clock_source", <<Str, Num, Num>>))
  BY <1>1, ListsOfArguments, ListsSuit DEF GoodFormat, OneOffer, Format
<1>9. GoodFormat("get_clock_source_fmt", Format("cmd_get_clock_source", <<Str, Num>>))
  BY <1>1, ListsOfArguments, ListsSuit DEF GoodFormat, OneOffer, Format
<1> QED
  BY <1>2, <1>3, <1>4, <1>5, <1>6, <1>7, <1>8, <1>9 DEF SetGet

\* start, stop, identify, path, clr, quit, param and upgrade.
LEMMA StartToUpgradeFormats ==
  \A f \in DOMAIN StartToUpgrade.calls : GoodFormat(f, StartToUpgrade.calls[f])
<1>1. /\ ReadsOf("cmd_start_streaming") = <<"str", "int">>
      /\ ReadsOf("cmd_stop_streaming") = <<"str", "int">>
      /\ ReadsOf("cmd_identify_on") = <<"uint">>
      /\ ReadsOf("cmd_identify_off") = <<"uint">>
      /\ ReadsOf("cmd_set_path") = <<"str">>
      /\ ReadsOf("cmd_show_path") = <<>>
      /\ ReadsOf("cmd_clr") = <<>>
      /\ ReadsOf("cmd_quit") = <<>>
      /\ ReadsOf("cmd_connect_rx") = <<"uint", "int", "uint", "int", "all_str">>
      /\ ReadsOf("cmd_firmware_upgrade") = <<"str">>
  BY DEF ReadsOf, Reads
<1>2. GoodFormat("start_streaming_fmt", Format("cmd_start_streaming", <<Str, Num>>))
  BY <1>1, ListsOfArguments, ListsSuit DEF GoodFormat, OneOffer, Format
<1>3. GoodFormat("stop_streaming_fmt", Format("cmd_stop_streaming", <<Str, Num>>))
  BY <1>1, ListsOfArguments, ListsSuit DEF GoodFormat, OneOffer, Format
<1>4. GoodFormat("identify_on_fmt", Format("cmd_identify_on", <<ES>>))
  BY <1>1, ListsOfArguments, ListsSuit DEF GoodFormat, OneOffer, Format
<1>5. GoodFormat("identify_off_fmt", Format("cmd_identify_off", <<ES>>))
  BY <1>1, ListsOfArguments, ListsSuit DEF GoodFormat, OneOffer, Format
<1>6. GoodFormat("set_path_fmt", Format("cmd_set_path", <<Str>>))
  BY <1>1, ListsOfArguments, ListsSuit DEF GoodFormat, OneOffer, Format
<1>7. GoodFormat("show_path_fmt", Format("cmd_show_path", <<>>))
  BY <1>1, ListsOfArguments, ListsSuit DEF GoodFormat, OneOffer, Format
<1>8. GoodFormat("clr_fmt", Format("cmd_clr", <<>>))
  BY <1>1, ListsOfArguments, ListsSuit DEF GoodFormat, OneOffer, Format
<1>9. GoodFormat("quit_fmt", Format("cmd_quit", <<>>))
  BY <1>1, ListsOfArguments, ListsSuit DEF GoodFormat, OneOffer, Format
<1>10. GoodFormat("param_fmt", Format("cmd_connect_rx", <<ES, Num, Num, Str, Num>>))
  BY <1>1, ListsOfArguments, ListsSuit DEF GoodFormat, OneOffer, Format
<1>11. GoodFormat("upgrade_cmd_fmt", Format("cmd_firmware_upgrade", <<Str>>))
  BY <1>1, ListsOfArguments, ListsSuit DEF GoodFormat, OneOffer, Format
<1> QED
  BY <1>2, <1>3, <1>4, <1>5, <1>6, <1>7, <1>8, <1>9, <1>10, <1>11 DEF StartToUpgrade

\* Two sections as one.
LEMMA MergedFormats ==
  ASSUME NEW f, NEW g, \A x \in DOMAIN f : GoodFormat(x, f[x]),
         \A x \in DOMAIN g : GoodFormat(x, g[x])
  PROVE  \A x \in DOMAIN Merged(f, g) : GoodFormat(x, Merged(f, g)[x])
BY DEF Merged

\* All the sections.
LEMMA AllFormats == \A f \in DOMAIN Formats : GoodFormat(f, Formats[f])
<1>1. PICK a, b, c, d, e, f :
        /\ a = HelpToLog.calls /\ b = ViewToDisconnect.calls /\ c = GetRxTx.calls
        /\ d = EntityToRead.calls /\ e = SetGet.calls /\ f = StartToUpgrade.calls
  OBVIOUS
<1>2. \A x \in DOMAIN a : GoodFormat(x, a[x])
  BY <1>1, HelpToLogFormats
<1>3. \A x \in DOMAIN b : GoodFormat(x, b[x])
  BY <1>1, ViewToDisconnectFormats
<1>4. \A x \in DOMAIN c : GoodFormat(x, c[x])
  BY <1>1, GetRxTxFormats
<1>5. \A x \in DOMAIN d : GoodFormat(x, d[x])
  BY <1>1, EntityToReadFormats
<1>6. \A x \in DOMAIN e : GoodFormat(x, e[x])
  BY <1>1, SetGetFormats
<1>7. \A x \in DOMAIN f : GoodFormat(x, f[x])
  BY <1>1, StartToUpgradeFormats
<1>8. PICK ef : ef = Merged(e, f)
  OBVIOUS
<1>9. PICK df : df = Merged(d, ef)
  OBVIOUS
<1>10. PICK cf : cf = Merged(c, df)
  OBVIOUS
<1>11. PICK bf : bf = Merged(b, cf)
  OBVIOUS
<1>12. \A x \in DOMAIN ef : GoodFormat(x, ef[x])
  BY <1>6, <1>7, <1>8, MergedFormats
<1>13. \A x \in DOMAIN df : GoodFormat(x, df[x])
  BY <1>5, <1>9, <1>12, MergedFormats
<1>14. \A x \in DOMAIN cf : GoodFormat(x, cf[x])
  BY <1>4, <1>10, <1>13, MergedFormats
<1>15. \A x \in DOMAIN bf : GoodFormat(x, bf[x])
  BY <1>3, <1>11, <1>14, MergedFormats
<1>16. Formats = Merged(a, bf)
  BY <1>1, <1>8, <1>9, <1>10, <1>11 DEF Formats
<1> QED
  BY <1>2, <1>15, <1>16, MergedFormats

\* The formats that offer an end station as their third argument, and their
\* neighbours.
LEMMA ConnectFormats ==
  /\ Formats["connect_rx_fmt"].args = <<ES, Num, ES, Num, Strs(0)>>
  /\ Formats["connect_dst_fmt"].args = <<ES, Num>>
  /\ Formats["connect_none_fmt"].args = <<>>
  /\ Formats["disconnect_fmt"].args = <<ES, Num, ES, Num>>
<1> DEFINE These == {"connect_rx_fmt", "connect_dst_fmt", "connect_none_fmt", "disconnect_fmt"}
<1>1. These \subseteq DOMAIN ViewToDisconnect.calls
  BY DEF ViewToDisconnect
<1>2. \A x \in These : x \notin DOMAIN HelpToLog.calls
  BY DEF HelpToLog
<1>3. \A x \in These : Formats[x] = ViewToDisconnect.calls[x]
  BY <1>1, <1>2 DEF Formats, Merged
<1> QED
  BY <1>3 DEF ViewToDisconnect, Format

\* The formats of a node are formats, and those of two nodes are known.
GoodNode(fmts) ==
  /\ fmts \in Seq(DOMAIN Formats)
  /\ "connect_rx_fmt" \in Range(fmts)
       => fmts = <<"connect_rx_fmt", "connect_dst_fmt", "connect_none_fmt">>
  /\ "disconnect_fmt" \in Range(fmts) => fmts = <<"disconnect_fmt">>

\* Two sections as one.
LEMMA MergedNodes ==
  ASSUME NEW f, NEW g, \A x \in DOMAIN f : GoodNode(f[x]), \A x \in DOMAIN g : GoodNode(g[x])
  PROVE  \A x \in DOMAIN Merged(f, g) : GoodNode(Merged(f, g)[x])
BY DEF Merged

\* The formats of a section are formats.
LEMMA FormatsOfSections ==
  UNION {DOMAIN HelpToLog.calls, DOMAIN ViewToDisconnect.calls, DOMAIN GetRxTx.calls,
         DOMAIN EntityToRead.calls, DOMAIN SetGet.calls, DOMAIN StartToUpgrade.calls}
    \subseteq DOMAIN Formats
BY DEF Formats, Merged

\* The nodes, section by section.
LEMMA HelpToLogNodes == \A x \in DOMAIN HelpToLog.fmts : GoodNode(HelpToLog.fmts[x])
<1>1. {"help_all_fmt", "help_one_fmt", "list_fmt", "log_fmt", "log_level_fmt",
       "select_fmt", "show_select_fmt", "unlog_fmt", "version_format"}
      \subseteq DOMAIN Formats
  BY FormatsOfSections DEF HelpToLog
<1>2. GoodNode(<<"help_one_fmt", "help_all_fmt">>)
  BY <1>1 DEF GoodNode, Range
<1>3. GoodNode(<<"list_fmt">>)
  BY <1>1 DEF GoodNode, Range
<1>4. GoodNode(<<"log_fmt">>)
  BY <1>1 DEF GoodNode, Range
<1>5. GoodNode(<<"log_level_fmt">>)
  BY <1>1 DEF GoodNode, Range
<1>6. GoodNode(<<"select_fmt", "show_select_fmt">>)
  BY <1>1 DEF GoodNode, Range
<1>7. GoodNode(<<"unlog_fmt">>)
  BY <1>1 DEF GoodNode, Range
<1>8. GoodNode(<<"version_format">>)
  BY <1>1 DEF GoodNode, Range
<1> QED
  BY <1>2, <1>3, <1>4, <1>5, <1>6, <1>7, <1>8 DEF HelpToLog

\* view, show, connect and disconnect.
LEMMA ViewToDisconnectNodes ==
  \A x \in DOMAIN ViewToDisconnect.fmts : GoodNode(ViewToDisconnect.fmts[x])
<1>1. {"connect_dst_fmt", "connect_none_fmt", "connect_rx_fmt", "disconnect_fmt",
       "show_connections_fmt", "view_all_fmt", "view_descriptor_fmt",
       "view_details_fmt", "view_media_clock_fmt"}
      \subseteq DOMAIN Formats
  BY FormatsOfSections DEF ViewToDisconnect
<1>2. GoodNode(<<"connect_rx_fmt", "connect_dst_fmt", "connect_none_fmt">>)
  BY <1>1 DEF GoodNode, Range
<1>3. GoodNode(<<"disconnect_fmt">>)
  BY <1>1 DEF GoodNode, Range
<1>4. GoodNode(<<"show_connections_fmt">>)
  BY <1>1 DEF GoodNode, Range
<1>5. GoodNode(<<"view_all_fmt">>)
  BY <1>1 DEF GoodNode, Range
<1>6. GoodNode(<<"view_descriptor_fmt">>)
  BY <1>1 DEF GoodNode, Range
<1>7. GoodNode(<<"view_details_fmt">>)
  BY <1>1 DEF GoodNode, Range
<1>8. GoodNode(<<"view_media_clock_fmt">>)
  BY <1>1 DEF GoodNode, Range
<1> QED
  BY <1>2, <1>3, <1>4, <1>5, <1>6, <1>7, <1>8 DEF ViewToDisconnect

\* get rx and get tx.
LEMMA GetRxTxNodes == \A x \in DOMAIN GetRxTx.fmts : GoodNode(GetRxTx.fmts[x])
<1>1. {"get_rx_state_fmt", "get_tx_connection_fmt", "get_tx_state_fmt"}
      \subseteq DOMAIN Formats
  BY FormatsOfSections DEF GetRxTx
<1>2. GoodNode(<<"get_rx_state_fmt">>)
  BY <1>1 DEF GoodNode, Range
<1>3. GoodNode(<<"get_tx_state_fmt", "get_tx_connection_fmt">>)
  BY <1>1 DEF GoodNode, Range
<1> QED
  BY <1>2, <1>3 DEF GetRxTx

\* entity, acquire, lock, reboot, controller and read.
LEMMA EntityToReadNodes == \A x \in DOMAIN EntityToRead.fmts : GoodNode(EntityToRead.fmts[x])
<1>1. {"controller_available_fmt", "entity_acquire_fmt", "entity_available_fmt",
       "entity_lock_fmt", "read_descriptor_fmt", "reboot_fmt"}
      \subseteq DOMAIN Formats
  BY FormatsOfSections DEF EntityToRead
<1>2. GoodNode(<<"controller_available_fmt">>)
  BY <1>1 DEF GoodNode, Range
<1>3. GoodNode(<<"entity_acquire_fmt">>)
  BY <1>1 DEF GoodNode, Range
<1>4. GoodNode(<<"entity_available_fmt">>)
  BY <1>1 DEF GoodNode, Range
<1>5. GoodNode(<<"entity_lock_fmt">>)
  BY <1>1 DEF GoodNode, Range
<1>6. GoodNode(<<"read_descriptor_fmt">>)
  BY <1>1 DEF GoodNode, Range
<1>7. GoodNode(<<"reboot_fmt">>)
  BY <1>1 DEF GoodNode, Range
<1> QED
  BY <1>2, <1>3, <1>4, <1>5, <1>6, <1>7 DEF EntityToRead

\* set and get.
LEMMA SetGetNodes == \A x \in DOMAIN SetGet.fmts : GoodNode(SetGet.fmts[x])
<1>1. {"get_clock_source_fmt", "get_sampling_rate_fmt", "get_stream_format_fmt",
       "get_stream_info_fmt", "set_clock_source_fmt", "set_sampling_rate_fmt",
       "set_stream_format_fmt", "set_stream_info_fmt"}
      \subseteq DOMAIN Formats
  BY FormatsOfSections DEF SetGet
<1>2. GoodNode(<<"get_clock_source_fmt">>)
  BY <1>1 DEF GoodNode, Range
<1>3. GoodNode(<<"get_sampling_rate_fmt">>)
  BY <1>1 DEF GoodNode, Range
<1>4. GoodNode(<<"get_stream_format_fmt">>)
  BY <1>1 DEF GoodNode, Range
<1>5. GoodNode(<<"get_stream_info_fmt">>)
  BY <1>1 DEF GoodNode, Range
<1>6. GoodNode(<<"set_clock_source_fmt">>)
  BY <1>1 DEF GoodNode, Range
<1>7. GoodNode(<<"set_sampling_rate_fmt">>)
  BY <1>1 DEF GoodNode, Range
<1>8. GoodNode(<<"set_stream_format_fmt">>)
  BY <1>1 DEF GoodNode, Range
<1>9. GoodNode(<<"set_stream_info_fmt">>)
  BY <1>1 DEF GoodNode, Range
<1> QED
  BY <1>2, <1>3, <1>4, <1>5, <1>6, <1>7, <1>8, <1>9 DEF SetGet

\* start, stop, identify, path, clr, quit, param and upgrade.
LEMMA StartToUpgradeNodes ==
  \A x \in DOMAIN StartToUpgrade.fmts : GoodNode(StartToUpgrade.fmts[x])
<1>1. {"clr_fmt", "identify_off_fmt", "identify_on_fmt", "param_fmt", "quit_fmt",
       "set_path_fmt", "show_path_fmt", "start_streaming_fmt",
       "stop_streaming_fmt", "upgrade_cmd_fmt"}
      \subseteq DOMAIN Formats
  BY FormatsOfSections DEF StartToUpgrade
<1>2. GoodNode(<<"clr_fmt">>)
  BY <1>1 DEF GoodNode, Range
<1>3. GoodNode(<<"identify_off_fmt">>)
  BY <1>1 DEF GoodNode, Range
<1>4. GoodNode(<<"identify_on_fmt">>)
  BY <1>1 DEF GoodNode, Range
<1>5. GoodNode(<<"param_fmt">>)
  BY <1>1 DEF GoodNode, Range
<1>6. GoodNode(<<"quit_fmt">>)
  BY <1>1 DEF GoodNode, Range
<1>7. GoodNode(<<"set_path_fmt", "show_path_fmt">>)
  BY <1>1 DEF GoodNode, Range
<1>8. GoodNode(<<"start_streaming_fmt">>)
  BY <1>1 DEF GoodNode, Range
<1>9. GoodNode(<<"stop_streaming_fmt">>)
  BY <1>1 DEF GoodNode, Range
<1>10. GoodNode(<<"upgrade_cmd_fmt">>)
  BY <1>1 DEF GoodNode, Range
<1> QED
  BY <1>2, <1>3, <1>4, <1>5, <1>6, <1>7, <1>8, <1>9, <1>10 DEF StartToUpgrade

\* All the sections, and the nodes that have no format.
LEMMA AllNodes == \A node : GoodNode(FormatsOf(node))
<1>1. PICK a, b, c, d, e, f :
        /\ a = HelpToLog.fmts /\ b = ViewToDisconnect.fmts /\ c = GetRxTx.fmts
        /\ d = EntityToRead.fmts /\ e = SetGet.fmts /\ f = StartToUpgrade.fmts
  OBVIOUS
<1>2. \A x \in DOMAIN a : GoodNode(a[x])
  BY <1>1, HelpToLogNodes
<1>3. \A x \in DOMAIN b : GoodNode(b[x])
  BY <1>1, ViewToDisconnectNodes
<1>4. \A x \in DOMAIN c : GoodNode(c[x])
  BY <1>1, GetRxTxNodes
<1>5. \A x \in DOMAIN d : GoodNode(d[x])
  BY <1>1, EntityToReadNodes
<1>6. \A x \in DOMAIN e : GoodNode(e[x])
  BY <1>1, SetGetNodes
<1>7. \A x \in DOMAIN f : GoodNode(f[x])
  BY <1>1, StartToUpgradeNodes
<1>8. PICK ef : ef = Merged(e, f)
  OBVIOUS
<1>9. PICK df : df = Merged(d, ef)
  OBVIOUS
<1>10. PICK cf : cf = Merged(c, df)
  OBVIOUS
<1>11. PICK bf : bf = Merged(b, cf)
  OBVIOUS
<1>12. \A x \in DOMAIN ef : GoodNode(ef[x])
  BY <1>6, <1>7, <1>8, MergedNodes
<1>13. \A x \in DOMAIN df : GoodNode(df[x])
  BY <1>5, <1>9, <1>12, MergedNodes
<1>14. \A x \in DOMAIN cf : GoodNode(cf[x])
  BY <1>4, <1>10, <1>13, MergedNodes
<1>15. \A x \in DOMAIN bf : GoodNode(bf[x])
  BY <1>3, <1>11, <1>14, MergedNodes
<1>16. NodeFormats = Merged(a, bf)
  BY <1>1, <1>8, <1>9, <1>10, <1>11 DEF NodeFormats
<1>17. \A x \in DOMAIN NodeFormats : GoodNode(NodeFormats[x])
  BY <1>2, <1>15, <1>16, MergedNodes
<1>18. GoodNode(<<>>)
  BY DEF GoodNode, Range
<1> QED
  BY <1>17, <1>18 DEF FormatsOf

-----------------------------------------------------------------------------
(* The search for a format: the values are those of the format that matched, *)
(* of one of the lines it was tried on.                                      *)
TreeValues ==
  {vals \in [DOMAIN Formats -> Seq(Seq(STRING))] :
     \A f \in DOMAIN Formats : vals[f] \in ValueLists(Len(Formats[f].args))}

Matched(f, vals, lines) ==
  \E words \in lines : Matches(Formats[f].args, vals[f], words)

Outcome(r, lines) ==
  /\ r.vals \in TreeValues
  /\ r.handled \in BOOLEAN
  /\ r.fmt # "none" => r.handled /\ r.fmt \in DOMAIN Formats /\ Matched(r.fmt, r.vals, lines)

\* One format is tried.
LEMMA TryFormatOutcome ==
  ASSUME NEW f \in DOMAIN Formats, NEW words \in Seq(STRING), NEW tried, Outcome(tried, {words})
  PROVE  Outcome(TryFormat(f, words, tried), {words})
<1>1. CASE tried.handled
  <2>1. TryFormat(f, words, tried) = tried
    BY <1>1 DEF TryFormat
  <2> QED
    BY <2>1
<1>2. CASE ~tried.handled
  <2>1. PICK args : args = Formats[f].args
    OBVIOUS
  <2>2. args \in ArgumentLists /\ f # "none"
    BY <2>1, AllFormats DEF GoodFormat, WellFormed
  <2>3. PICK r : r = format_run_command(args, tried.vals[f], words)
    OBVIOUS
  <2>4. /\ r.ok \in BOOLEAN /\ r.vals \in ValueLists(Len(args))
        /\ r.ok => Matches(args, r.vals, words)
    BY <2>2, <2>3, FormatOutcome
  <2>5. PICK vals : vals = [tried.vals EXCEPT ![f] = r.vals]
    OBVIOUS
  <2>6. PICK t : t = [handled |-> r.ok, fmt |-> IF r.ok THEN f ELSE "none", vals |-> vals]
    OBVIOUS
  <2>7. TryFormat(f, words, tried) = t
    BY <1>2, <2>1, <2>3, <2>5, <2>6 DEF TryFormat
  <2>8. vals \in TreeValues /\ vals[f] = r.vals
    <3>1. tried.vals \in [DOMAIN Formats -> Seq(Seq(STRING))]
      BY DEF Outcome, TreeValues
    <3>2. r.vals \in Seq(Seq(STRING))
      BY <2>4 DEF ValueLists
    <3>3. vals \in [DOMAIN Formats -> Seq(Seq(STRING))] /\ vals[f] = r.vals
      BY <2>5, <3>1, <3>2
    <3>4. \A g \in DOMAIN Formats : g # f => vals[g] = tried.vals[g]
      BY <2>5, <3>1
    <3>5. \A g \in DOMAIN Formats : tried.vals[g] \in ValueLists(Len(Formats[g].args))
      BY DEF Outcome, TreeValues
    <3>6. \A g \in DOMAIN Formats : vals[g] \in ValueLists(Len(Formats[g].args))
      BY <2>1, <2>4, <3>3, <3>4, <3>5
    <3> QED
      BY <3>3, <3>6 DEF TreeValues
  <2>9. t.vals = vals /\ t.handled = r.ok /\ (t.fmt # "none" => r.ok /\ t.fmt = f)
    BY <2>6
  <2>10. r.ok => Matched(f, vals, {words})
    BY <2>1, <2>4, <2>8 DEF Matched
  <2>11. t.handled \in BOOLEAN
    BY <2>4, <2>9
  <2>12. Outcome(t, {words})
    BY <2>8, <2>9, <2>10, <2>11 DEF Outcome
  <2> QED
    BY <2>7, <2>12
<1> QED
  BY <1>1, <1>2

\* The loop over the formats of a node, like the loop over the words.
FormatLoop(try, fmts, words, vals) ==
  /\ try[0] = NoMatch(vals)
  /\ \A n \in 1 .. Len(fmts) : try[n] = TryFormat(fmts[n], words, try[n - 1])
  /\ TryFormats(fmts, words, vals) = try[Len(fmts)]

\* The loop over the formats of a node is defined like the one above.
LEMMA TryFormatsUnfolds ==
  ASSUME NEW fmts, NEW words, NEW vals, Len(fmts) \in Nat
  PROVE  \E try : FormatLoop(try, fmts, words, vals)
<1> DEFINE Runs(f, m) ==
             f = [n \in 0 .. m |-> IF n = 0 THEN NoMatch(vals)
                                   ELSE TryFormat(fmts[n], words, f[n - 1])]
           try == CHOOSE f : Runs(f, Len(fmts))
           S == {m \in Nat : \E f : Runs(f, m)}
<1>1. 0 \in S
  <2>1. Runs([n \in 0 .. 0 |-> NoMatch(vals)], 0)
    OBVIOUS
  <2> QED
    BY <2>1
<1>2. ASSUME NEW m \in Nat, m \in S
      PROVE  m + 1 \in S
  <2>1. PICK f : Runs(f, m)
    BY <1>2
  <2> DEFINE g == [n \in 0 .. m + 1 |-> IF n <= m THEN f[n]
                                        ELSE TryFormat(fmts[n], words, f[m])]
  <2>2. ASSUME NEW n \in 0 .. m + 1
        PROVE  g[n] = IF n = 0 THEN NoMatch(vals) ELSE TryFormat(fmts[n], words, g[n - 1])
    <3>1. CASE n = m + 1
      BY <3>1
    <3>2. CASE n \in 0 .. m
      <4>1. f[n] = IF n = 0 THEN NoMatch(vals) ELSE TryFormat(fmts[n], words, f[n - 1])
        BY <2>1, <3>2
      <4> QED
        BY <3>2, <4>1
    <3> QED
      BY <3>1, <3>2
  <2>3. Runs(g, m + 1)
    BY <2>2
  <2> HIDE DEF g, Runs
  <2>4. \E h : Runs(h, m + 1)
    BY <2>3
  <2> QED
    BY <2>4
<1>3. Nat \subseteq S
  <2> HIDE DEF S
  <2> QED
    BY <1>1, <1>2, InductionOnSet
<1>4. Runs(try, Len(fmts))
  BY <1>3
<1>5. TryFormats(fmts, words, vals) = try[Len(fmts)]
  BY DEF TryFormats
<1> HIDE DEF try
<1>6. /\ try[0] = NoMatch(vals)
      /\ \A n \in 1 .. Len(fmts) : try[n] = TryFormat(fmts[n], words, try[n - 1])
  BY <1>4
<1>7. FormatLoop(try, fmts, words, vals)
  BY <1>5, <1>6 DEF FormatLoop
<1> QED
  BY <1>7

\* All formats of a node are tried, until one matches.
LEMMA TryFormatsOutcome ==
  ASSUME NEW fmts, fmts \in Seq(DOMAIN Formats), NEW words, words \in Seq(STRING),
         NEW vals, vals \in TreeValues
  PROVE  Outcome(TryFormats(fmts, words, vals), {words})
<1>1. PICK n \in Nat : n = Len(fmts) /\ \A k \in 1 .. n : fmts[k] \in DOMAIN Formats
  OBVIOUS
<1>2. PICK try : FormatLoop(try, fmts, words, vals)
  BY <1>1, TryFormatsUnfolds
<1> DEFINE S == {m \in Nat : m <= n => Outcome(try[m], {words})}
<1>3. 0 \in S
  <2>1. Outcome(NoMatch(vals), {words})
    BY DEF NoMatch, Outcome
  <2> QED
    BY <1>2, <2>1 DEF FormatLoop
<1>4. ASSUME NEW m \in Nat, m \in S
      PROVE  m + 1 \in S
  <2> SUFFICES ASSUME m + 1 <= n PROVE Outcome(try[m + 1], {words})
    OBVIOUS
  <2>1. m + 1 \in 1 .. n /\ (m + 1) - 1 = m /\ Outcome(try[m], {words})
    BY <1>4
  <2>2. try[m + 1] = TryFormat(fmts[m + 1], words, try[m])
    BY <1>1, <1>2, <2>1 DEF FormatLoop
  <2>3. fmts[m + 1] \in DOMAIN Formats
    BY <1>1, <2>1
  <2> QED
    BY <2>1, <2>2, <2>3, TryFormatOutcome
<1>5. Nat \subseteq S
  <2> HIDE DEF S
  <2> QED
    BY <1>3, <1>4, InductionOnSet
<1>6. Outcome(try[n], {words})
  <2>1. n \in S
    <3> HIDE DEF S
    <3> QED
      BY <1>1, <1>5
  <2> QED
    BY <2>1
<1> QED
  BY <1>1, <1>2, <1>6 DEF FormatLoop

\* What a node makes of the words left keeps what its sub-command found.
LEMMA RunFormatsOutcome ==
  ASSUME NEW node, NEW words, words \in Seq(STRING), NEW lines, words \in lines,
         NEW sub, Outcome(sub, lines)
  PROVE  Outcome(run_formats(node, words, sub), lines)
<1>1. PICK own : own = TryFormats(FormatsOf(node), words, sub.vals)
  OBVIOUS
<1>2. sub.vals \in TreeValues
  BY DEF Outcome
<1>3. FormatsOf(node) \in Seq(DOMAIN Formats)
  BY AllNodes DEF GoodNode
<1>4. Outcome(own, {words})
  BY <1>1, <1>2, <1>3, TryFormatsOutcome
<1>5. Outcome(own, lines)
  BY <1>4 DEF Outcome, Matched
<1>6. Outcome(LeafHelp(own.vals), lines)
  BY <1>4 DEF Outcome, LeafHelp
<1> QED
  BY <1>1, <1>5, <1>6 DEF run_formats

\* What is left of a line once its first words are gone.
LEMMA SuffixFacts ==
  ASSUME NEW T, NEW words \in Seq(T)
  PROVE  /\ words \in Suffixes(words)
         /\ \A w \in Suffixes(words) :
              /\ w \in Seq(T) /\ Len(w) \in Nat
              /\ w # <<>> => /\ Tail(w) \in Suffixes(words)
                             /\ Len(Tail(w)) = Len(w) - 1 /\ Len(w) # 0
<1> DEFINE n == Len(words)
           From(l) == SubSeq(words, l, n)
<1>1. Suffixes(words) = {From(l) : l \in 1 .. n} \cup {<<>>}
  BY DEF Suffixes
<1>2. words \in Suffixes(words)
  <2>1. CASE n = 0
    BY <1>1, <2>1
  <2>2. CASE n # 0
    <3>1. From(1) = words /\ 1 \in 1 .. n
      BY <2>2
    <3> QED
      BY <1>1, <3>1
  <2> QED
    BY <2>1, <2>2
<1>3. ASSUME NEW l \in 1 .. n
      PROVE  /\ From(l) \in Seq(T) /\ Len(From(l)) = (n - l) + 1
             /\ Tail(From(l)) \in Suffixes(words) /\ Len(Tail(From(l))) = n - l
  <2>1. /\ From(l) \in Seq(T) /\ Len(From(l)) = (n - l) + 1
        /\ \A k \in 1 .. (n - l) + 1 : From(l)[k] = words[(l + k) - 1]
    OBVIOUS
  <2>2. PICK w : w = From(l)
    OBVIOUS
  <2>3. w \in Seq(T) /\ Len(w) = (n - l) + 1
    BY <2>1, <2>2
  <2>4. Tail(w) \in Seq(T) /\ Len(Tail(w)) = n - l
    BY <2>3
  <2>5. CASE l = n
    <3>1. Tail(w) = <<>>
      <4>1. PICK t : t = Tail(w)
        OBVIOUS
      <4>2. t \in Seq(T) /\ Len(t) = 0
        BY <2>4, <2>5, <4>1
      <4>3. t = <<>>
        BY <4>2
      <4> QED
        BY <4>1, <4>3
    <3> QED
      BY <1>1, <2>1, <2>2, <2>4, <3>1
  <2>6. CASE l < n
    <3>1. l + 1 \in 1 .. n
      BY <2>6
    <3>2. /\ From(l + 1) \in Seq(T) /\ Len(From(l + 1)) = n - l
          /\ \A k \in 1 .. n - l : From(l + 1)[k] = words[l + k]
      BY <3>1
    <3>3. \A k \in 1 .. n - l : Tail(w)[k] = words[l + k]
      BY <2>1, <2>2, <2>3
    <3>4. PICK t, u : t = Tail(w) /\ u = From(l + 1)
      OBVIOUS
    <3>5. t \in Seq(T) /\ u \in Seq(T) /\ Len(t) = Len(u) /\ \A k \in 1 .. Len(t) : t[k] = u[k]
      BY <2>4, <3>2, <3>3, <3>4
    <3>6. t = u
      BY <3>5
    <3> QED
      BY <1>1, <2>1, <2>2, <2>4, <3>1, <3>4, <3>6
  <2> QED
    BY <2>5, <2>6
<1>4. ASSUME NEW w \in Suffixes(words)
      PROVE  /\ w \in Seq(T) /\ Len(w) \in Nat
             /\ w # <<>> => /\ Tail(w) \in Suffixes(words)
                            /\ Len(Tail(w)) = Len(w) - 1 /\ Len(w) # 0
  <2>1. CASE w = <<>>
    BY <2>1
  <2>2. CASE w # <<>>
    <3>1. PICK l \in 1 .. n : w = From(l)
      BY <1>1, <2>2
    <3>2. n \in Nat /\ l \in Nat /\ l <= n
      OBVIOUS
    <3> HIDE DEF From, n
    <3> QED
      BY <1>3, <3>1, <3>2
  <2> QED
    BY <2>1, <2>2
<1> QED
  BY <1>2, <1>4

\* Being one of Suffixes is what IsSuffix says.
LEMMA SuffixIsSuffix ==
  ASSUME NEW T, NEW words \in Seq(T), NEW w \in Suffixes(words)
  PROVE  IsSuffix(w, words)
<1> DEFINE n == Len(words)
<1>1. w \in Seq(T) /\ Len(w) \in Nat
  BY SuffixFacts
<1>2. Len(w) <= n /\ \A k \in 1 .. Len(w) : w[k] = words[(n - Len(w)) + k]
  <2>1. CASE w = <<>>
    BY <2>1
  <2>2. CASE w # <<>>
    <3>1. PICK l \in 1 .. n : w = SubSeq(words, l, n)
      BY <2>2 DEF Suffixes
    <3>2. /\ Len(w) = (n - l) + 1
          /\ \A k \in 1 .. Len(w) : w[k] = words[(l + k) - 1]
      BY <3>1
    <3>3. n - Len(w) = l - 1
      BY <3>1, <3>2
    <3> QED
      BY <3>1, <3>2, <3>3
  <2> QED
    BY <2>1, <2>2
<1>3. PICK m \in Nat : m = Len(w)
  BY <1>1
<1>4. PICK a, b : a = Reverse(w) /\ b = Reverse(words)
  OBVIOUS
<1>5. /\ a \in Seq(T) /\ Len(a) = m /\ \A k \in 1 .. m : a[k] = w[(m - k) + 1]
  BY <1>1, <1>3, <1>4 DEF Reverse
<1>6. /\ b \in Seq(T) /\ Len(b) = n /\ \A k \in 1 .. n : b[k] = words[(n - k) + 1]
  BY <1>4 DEF Reverse
<1>7. n \in Nat /\ m <= n
  BY <1>2, <1>3
<1>8. \A k \in 1 .. m : a[k] = b[k]
  <2> TAKE k \in 1 .. m
  <2>1. (m - k) + 1 \in 1 .. m /\ k \in 1 .. n
    BY <1>7
  <2>2. w[(m - k) + 1] = words[(n - m) + ((m - k) + 1)]
    BY <1>2, <1>3, <2>1
  <2>3. (n - m) + ((m - k) + 1) = (n - k) + 1
    BY <1>7
  <2> QED
    BY <1>5, <1>6, <2>1, <2>2, <2>3
<1> HIDE DEF n
<1>9. PICK p, q : p = SubSeq(a, 1, m) /\ q = SubSeq(b, 1, m)
  OBVIOUS
<1>10. /\ p \in Seq(T) /\ Len(p) = m /\ \A k \in 1 .. m : p[k] = a[k]
       /\ q \in Seq(T) /\ Len(q) = m /\ \A k \in 1 .. m : q[k] = b[k]
  BY <1>5, <1>6, <1>7, <1>9
<1>11. p = q
  BY <1>8, <1>10
<1> QED
  BY <1>4, <1>5, <1>6, <1>7, <1>9, <1>11 DEF IsSuffix, IsPrefix

\* The search goes down to nodes.
LEMMA SubCommandsAreNodes ==
  ASSUME NEW node, NEW name, name \in get_sub_command_names(node)
  PROVE  sub_command(node, name) \in Nodes
<1>1. \E sub \in SubCommands : sub[1] = node /\ sub[2] = name
  BY DEF get_sub_command_names
<1>2. PICK s : s = CHOOSE sub \in SubCommands : sub[1] = node /\ sub[2] = name
  OBVIOUS
<1>3. s \in SubCommands
  BY <1>1, <1>2
<1> QED
  BY <1>2, <1>3 DEF sub_command, Nodes

\* One node's part of the search, given the function that searches the others.
RunAt(run, vals, at) ==
  IF at[2] # <<>> /\ Head(at[2]) \in get_sub_command_names(at[1])
  THEN run_formats(at[1], Tail(at[2]), run[<<sub_command(at[1], Head(at[2])), Tail(at[2])>>])
  ELSE run_formats(at[1], at[2], NoMatch(vals))

\* The recursive function exists: it is built up by the number of words left.
LEMMA RunUnfolds ==
  ASSUME NEW words, words \in Seq(STRING), NEW node, node \in Nodes, NEW vals
  PROVE  \E run : /\ \A at \in Nodes \X Suffixes(words) : run[at] = RunAt(run, vals, at)
                  /\ run_command(node, words, vals) = run[<<node, words>>]
<1>1. PICK D : D = Nodes \X Suffixes(words)
  OBVIOUS
<1> DEFINE Runs(f) == f = [at \in D |-> RunAt(f, vals, at)]
           run == CHOOSE f : Runs(f)
           Upto(f, k) == \A at \in D : Len(at[2]) <= k => f[at] = RunAt(f, vals, at)
           S == {k \in Nat : \E f : Upto(f, k)}
<1>2. ASSUME NEW at \in D, at[2] # <<>>, Head(at[2]) \in get_sub_command_names(at[1])
      PROVE  \E sub \in D : /\ sub = <<sub_command(at[1], Head(at[2])), Tail(at[2])>>
                            /\ Len(sub[2]) = Len(at[2]) - 1 /\ Len(at[2]) # 0
  <2>1. at[2] \in Suffixes(words)
    BY <1>1
  <2>2. PICK name, w : name = Head(at[2]) /\ w = at[2]
    OBVIOUS
  <2>3. Tail(w) \in Suffixes(words) /\ Len(Tail(w)) = Len(w) - 1 /\ Len(w) # 0
    BY <1>2, <2>1, <2>2, SuffixFacts
  <2>4. sub_command(at[1], name) \in Nodes
    BY <1>2, <2>2, SubCommandsAreNodes
  <2>5. PICK sub : sub = <<sub_command(at[1], name), Tail(w)>>
    OBVIOUS
  <2>6. sub \in D /\ sub[2] = Tail(w)
    BY <1>1, <2>3, <2>4, <2>5
  <2> QED
    BY <2>2, <2>3, <2>5, <2>6
<1>3. \A at \in D : Len(at[2]) \in Nat /\ (at[2] # <<>> => Len(at[2]) # 0)
  BY <1>1, SuffixFacts
<1>4. 0 \in S
  <2> DEFINE f == [at \in D |-> RunAt(<<>>, vals, at)]
  <2>1. ASSUME NEW at \in D, Len(at[2]) <= 0
        PROVE  f[at] = RunAt(f, vals, at)
    <3>1. at[2] = <<>>
      BY <1>3, <2>1
    <3> QED
      BY <3>1 DEF RunAt
  <2>2. Upto(f, 0)
    BY <2>1
  <2> HIDE DEF f, Upto
  <2> QED
    BY <2>2
<1>5. ASSUME NEW k \in Nat, k \in S
      PROVE  k + 1 \in S
  <2>1. PICK f : Upto(f, k)
    BY <1>5
  <2> DEFINE g == [at \in D |-> IF Len(at[2]) <= k THEN f[at] ELSE RunAt(f, vals, at)]
  <2>2. ASSUME NEW at \in D, Len(at[2]) <= k + 1
        PROVE  RunAt(f, vals, at) = RunAt(g, vals, at)
    <3>1. CASE at[2] # <<>> /\ Head(at[2]) \in get_sub_command_names(at[1])
      <4>1. PICK sub \in D : /\ sub = <<sub_command(at[1], Head(at[2])), Tail(at[2])>>
                             /\ Len(sub[2]) = Len(at[2]) - 1 /\ Len(at[2]) # 0
        BY <1>2, <3>1
      <4>2. Len(sub[2]) <= k
        BY <1>3, <2>2, <4>1
      <4>3. g[sub] = f[sub]
        BY <4>2
      <4> HIDE DEF g
      <4> QED
        BY <3>1, <4>1, <4>3 DEF RunAt
    <3>2. CASE ~(at[2] # <<>> /\ Head(at[2]) \in get_sub_command_names(at[1]))
      BY <3>2 DEF RunAt
    <3> QED
      BY <3>1, <3>2
  <2>3. ASSUME NEW at \in D, Len(at[2]) <= k + 1
        PROVE  g[at] = RunAt(g, vals, at)
    <3>1. g[at] = IF Len(at[2]) <= k THEN f[at] ELSE RunAt(f, vals, at)
      OBVIOUS
    <3>2. Len(at[2]) <= k => f[at] = RunAt(f, vals, at)
      BY <2>1
    <3> QED
      BY <2>2, <2>3, <3>1, <3>2
  <2>4. Upto(g, k + 1)
    BY <2>3
  <2> HIDE DEF g, Upto
  <2>5. \E h : Upto(h, k + 1)
    BY <2>4
  <2> QED
    BY <2>5
<1>6. Nat \subseteq S
  <2> HIDE DEF S
  <2> QED
    BY <1>4, <1>5, InductionOnSet
<1>7. words \in Suffixes(words) /\ Len(words) \in Nat
  BY SuffixFacts
<1>8. \A at \in D : Len(at[2]) <= Len(words)
  <2>1. \A w \in Suffixes(words) : Len(w) <= Len(words)
    BY DEF Suffixes
  <2> QED
    BY <1>1, <2>1
<1>9. PICK f : Upto(f, Len(words))
  BY <1>6, <1>7
<1>10. \A at \in D : f[at] = RunAt(f, vals, at)
  BY <1>8, <1>9
<1>11. Runs([at \in D |-> f[at]])
  <2> DEFINE g == [at \in D |-> f[at]]
  <2>1. ASSUME NEW at \in D PROVE RunAt(f, vals, at) = RunAt(g, vals, at)
    <3>1. CASE at[2] # <<>> /\ Head(at[2]) \in get_sub_command_names(at[1])
      <4>1. PICK sub \in D : sub = <<sub_command(at[1], Head(at[2])), Tail(at[2])>>
        BY <1>2, <3>1
      <4>2. g[sub] = f[sub]
        OBVIOUS
      <4> HIDE DEF g
      <4> QED
        BY <3>1, <4>1, <4>2 DEF RunAt
    <3>2. CASE ~(at[2] # <<>> /\ Head(at[2]) \in get_sub_command_names(at[1]))
      BY <3>2 DEF RunAt
    <3> QED
      BY <3>1, <3>2
  <2>2. \A at \in D : f[at] = RunAt(g, vals, at)
    BY <1>10, <2>1
  <2>3. [at \in D |-> f[at]] = [at \in D |-> RunAt(g, vals, at)]
    <3> HIDE DEF g
    <3> QED
      BY <2>2
  <2> QED
    BY <2>3
<1>12. Runs(run)
  BY <1>11
<1>13. run_command(node, words, vals) = run[<<node, words>>]
  BY <1>1 DEF run_command, RunAt
<1> HIDE DEF run
<1>14. \A at \in D : run[at] = RunAt(run, vals, at)
  BY <1>12
<1> QED
  BY <1>1, <1>13, <1>14

\* The whole search: by induction on the number of words left.
LEMMA RunOutcome ==
  ASSUME NEW words, words \in Seq(STRING), NEW node, node \in Nodes,
         NEW vals, vals \in TreeValues
  PROVE  Outcome(run_command(node, words, vals), Suffixes(words))
<1>1. PICK run : /\ \A at \in Nodes \X Suffixes(words) : run[at] = RunAt(run, vals, at)
                 /\ run_command(node, words, vals) = run[<<node, words>>]
  BY RunUnfolds
<1>2. PICK lines : lines = Suffixes(words)
  OBVIOUS
<1>3. /\ words \in lines
      /\ \A w \in lines : /\ w \in Seq(STRING) /\ Len(w) \in Nat
                          /\ w # <<>> => /\ Tail(w) \in lines
                                         /\ Len(Tail(w)) = Len(w) - 1 /\ Len(w) # 0
  BY <1>2, SuffixFacts
<1> DEFINE Good(k) == \A n \in Nodes, w \in lines : Len(w) <= k => Outcome(run[<<n, w>>], lines)
           S == {k \in Nat : Good(k)}
<1>4. Outcome(NoMatch(vals), lines)
  BY DEF Outcome, NoMatch
<1>5. ASSUME NEW n \in Nodes, NEW w \in lines,
             w # <<>> => \A sub \in Nodes : Outcome(run[<<sub, Tail(w)>>], lines)
      PROVE  Outcome(run[<<n, w>>], lines)
  <2>1. PICK at : at = <<n, w>>
    OBVIOUS
  <2>2. at \in Nodes \X lines /\ at[1] = n /\ at[2] = w
    BY <2>1
  <2>3. run[at] = RunAt(run, vals, at)
    BY <1>1, <1>2, <2>2
  <2>4. w \in Seq(STRING)
    BY <1>3
  <2>5. CASE w # <<>> /\ Head(w) \in get_sub_command_names(n)
    <3>1. PICK name, rest : name = Head(w) /\ rest = Tail(w)
      OBVIOUS
    <3>2. sub_command(n, name) \in Nodes
      BY <2>5, <3>1, SubCommandsAreNodes
    <3>3. Outcome(run[<<sub_command(n, name), rest>>], lines)
      BY <1>5, <2>5, <3>1, <3>2
    <3>4. rest \in lines /\ rest \in Seq(STRING)
      BY <1>3, <2>5, <3>1
    <3>5. run[at] = run_formats(n, rest, run[<<sub_command(n, name), rest>>])
      BY <2>2, <2>3, <2>5, <3>1 DEF RunAt
    <3> QED
      BY <2>1, <3>3, <3>4, <3>5, RunFormatsOutcome
  <2>6. CASE ~(w # <<>> /\ Head(w) \in get_sub_command_names(n))
    <3>1. run[at] = run_formats(n, w, NoMatch(vals))
      BY <2>2, <2>3, <2>6 DEF RunAt
    <3> QED
      BY <1>4, <2>1, <2>4, <3>1, RunFormatsOutcome
  <2> QED
    BY <2>5, <2>6
<1>6. 0 \in S
  <2>1. ASSUME NEW n \in Nodes, NEW w \in lines, Len(w) <= 0
        PROVE  Outcome(run[<<n, w>>], lines)
    <3>1. w = <<>>
      BY <1>3, <2>1
    <3> QED
      BY <1>5, <3>1
  <2> QED
    BY <2>1
<1>7. ASSUME NEW k \in Nat, k \in S
      PROVE  k + 1 \in S
  <2>1. ASSUME NEW n \in Nodes, NEW w \in lines, Len(w) <= k + 1
        PROVE  Outcome(run[<<n, w>>], lines)
    <3>1. w # <<>> => Tail(w) \in lines /\ Len(Tail(w)) <= k
      BY <1>3, <2>1
    <3>2. w # <<>> => \A sub \in Nodes : Outcome(run[<<sub, Tail(w)>>], lines)
      BY <1>7, <3>1
    <3> QED
      BY <1>5, <3>2
  <2> QED
    BY <2>1
<1>8. Nat \subseteq S
  <2> HIDE DEF S
  <2> QED
    BY <1>6, <1>7, InductionOnSet
<1>9. Len(words) \in S
  <2> HIDE DEF S
  <2> QED
    BY <1>3, <1>8
<1>10. Outcome(run[<<node, words>>], lines)
  BY <1>3, <1>9
<1> QED
  BY <1>1, <1>2, <1>10

-----------------------------------------------------------------------------
(* The parser's invariant. *)
TreeInv ==
  /\ values \in TreeValues
  /\ last.words \in Seq(STRING)
  /\ last.fmt # "none" =>
       last.fmt \in DOMAIN Formats /\ Matched(last.fmt, values, Suffixes(last.words))

\* Nothing typed yet.
LEMMA TreeInitInv == TreeInit => TreeInv
<1> SUFFICES ASSUME TreeInit PROVE TreeInv
  OBVIOUS
<1>1. values = [f \in DOMAIN Formats |-> [i \in DOMAIN Formats[f].args |-> <<>>]]
  BY DEF TreeInit
<1>2. last.words = <<>> /\ last.fmt = "none"
  BY DEF TreeInit, NothingTyped
<1>3. \A f \in DOMAIN Formats : values[f] \in ValueLists(Len(Formats[f].args))
  <2> TAKE f \in DOMAIN Formats
  <2>1. PICK args : args = Formats[f].args
    OBVIOUS
  <2>2. args \in ArgumentLists
    BY <2>1, AllFormats DEF GoodFormat, WellFormed
  <2>3. PICK n \in Nat : n = Len(args) /\ DOMAIN args = 1 .. n
    BY <2>2, ArgumentFacts
  <2>4. values[f] = [i \in 1 .. n |-> <<>>]
    BY <1>1, <2>1, <2>3
  <2>5. [i \in 1 .. n |-> <<>>] \in ValueLists(n)
    BY DEF ValueLists
  <2> QED
    BY <2>1, <2>3, <2>4, <2>5
<1>4. \A f \in DOMAIN Formats : values[f] \in Seq(Seq(STRING))
  BY <1>3 DEF ValueLists
<1>5. values \in TreeValues
  <2>1. values = [f \in DOMAIN Formats |-> values[f]]
    BY <1>1
  <2>2. values \in [DOMAIN Formats -> Seq(Seq(STRING))]
    BY <1>4, <2>1
  <2> QED
    BY <1>3, <2>2 DEF TreeValues
<1>6. <<>> \in Seq(STRING)
  OBVIOUS
<1> QED
  BY <1>2, <1>5, <1>6 DEF TreeInv

\* What main makes of a line.
LEMMA InputIsWords ==
  ASSUME NEW line \in Seq(STRING)
  PROVE  input_argv(line) \in Seq(STRING)
<1> DEFINE pieces == [n \in DOMAIN line |-> IF line[n] = "" THEN <<>> ELSE <<line[n]>>]
<1>1. DOMAIN line = 1 .. Len(line) /\ Len(line) \in Nat
  OBVIOUS
<1>2. \A n \in 1 .. Len(line) : pieces[n] \in Seq(STRING)
  <2> TAKE n \in 1 .. Len(line)
  <2>1. PICK w : w = line[n]
    OBVIOUS
  <2>2. w \in STRING
    BY <2>1
  <2>3. <<>> \in Seq(STRING)
    OBVIOUS
  <2>4. <<w>> \in Seq(STRING)
    BY <2>2, OneIsSeq
  <2> QED
    BY <1>1, <2>1, <2>3, <2>4
<1>3. pieces \in Seq(Seq(STRING))
  <2>1. pieces = [n \in 1 .. Len(line) |-> pieces[n]]
    BY <1>1
  <2> HIDE DEF pieces
  <2> QED
    BY <1>1, <1>2, <2>1
<1> HIDE DEF pieces
<1>4. FlattenSeq(pieces) \in Seq(STRING)
  BY <1>3, FlattenSeqProperties
<1> QED
  BY <1>4 DEF input_argv, pieces

\* A line handled.
LEMMA TreeStepInv == TreeInv /\ [TreeNext]_treeVars => TreeInv'
<1> SUFFICES ASSUME TreeInv, [TreeNext]_treeVars PROVE TreeInv'
  OBVIOUS
<1>1. ASSUME NEW line \in TreeLines, handle(line)
      PROVE  TreeInv'
  <2>1. line \in Seq(STRING)
    BY TreeAssumption
  <2>2. PICK words : words = input_argv(line)
    OBVIOUS
  <2>3. words \in Seq(STRING)
    BY <2>1, <2>2, InputIsWords
  <2>4. PICK r : r = run_command("commands", words, values)
    OBVIOUS
  <2>5. values' = r.vals /\ last' = [words |-> words, fmt |-> r.fmt, handled |-> r.handled]
    BY <1>1, <2>2, <2>4 DEF handle
  <2>6. "commands" \in Nodes /\ values \in TreeValues
    BY DEF Nodes, TreeInv
  <2>7. Outcome(r, Suffixes(words))
    BY <2>3, <2>4, <2>6, RunOutcome
  <2>8. (last')["words"] = words /\ (last')["fmt"] = r.fmt
    BY <2>5
  <2> QED
    BY <2>3, <2>5, <2>7, <2>8 DEF TreeInv, Outcome
<1>2. CASE UNCHANGED treeVars
  BY <1>2 DEF TreeInv, treeVars
<1> QED
  BY <1>1, <1>2 DEF TreeNext

\* The state of the parser is well formed, and where a line was handed to a
\* format the values of its arguments are the last words of that line.
THEOREM TreeInvariant == TreeSpec => []TreeInv
<1>1. TreeInit => TreeInv
  BY TreeInitInv
<1>2. TreeInv /\ [TreeNext]_treeVars => TreeInv'
  BY TreeStepInv
<1> QED
  BY <1>1, <1>2, PTL DEF TreeSpec

\* The values a handler is given are words of the line just typed, in order,
\* and all of them after some point: whatever was typed before.
THEOREM HandlersGetThisLine == TreeSpec => []FreshArguments
<1>1. TreeInv => FreshArguments
  <2> SUFFICES ASSUME TreeInv, last.fmt # "none"
               PROVE  IsSuffix(FlattenSeq(values[last.fmt]), last.words)
    BY DEF FreshArguments
  <2>1. PICK words \in Suffixes(last.words) :
          Matches(Formats[last.fmt].args, values[last.fmt], words)
    BY DEF TreeInv, Matched
  <2>2. FlattenSeq(values[last.fmt]) = words
    BY <2>1 DEF Matches
  <2>3. last.words \in Seq(STRING)
    BY DEF TreeInv
  <2> QED
    BY <2>2, <2>3, SuffixIsSuffix
<1> QED
  BY <1>1, TreeInvariant, PTL

\* No accessor a handler calls asserts, but for "param": every argument is of
\* the kind asked for and has its one value where one is asked for.
THEOREM AccessorsNeverAssert == TreeSpec => []AccessorsFit
<1>1. TreeInv => AccessorsFit
  <2> SUFFICES ASSUME TreeInv, last.fmt \notin {"none", "param_fmt"},
                      NEW i \in DOMAIN ReadsOf(Formats[last.fmt].action)
               PROVE  AccessorHolds(ReadsOf(Formats[last.fmt].action)[i],
                                    Formats[last.fmt].args[i], values[last.fmt][i])
    BY DEF AccessorsFit
  <2>1. PICK f, args, reads, vals : /\ f = last.fmt /\ args = Formats[f].args
                                    /\ reads = ReadsOf(Formats[f].action) /\ vals = values[f]
    OBVIOUS
  <2>2. f \in DOMAIN Formats /\ \E words : Matches(args, vals, words)
    BY <2>1 DEF TreeInv, Matched
  <2>3. GoodFormat(f, Formats[f])
    BY <2>2, AllFormats
  <2>4. args \in ArgumentLists /\ Suits(args, reads)
    BY <2>1, <2>3 DEF GoodFormat, WellFormed
  <2>5. /\ i \in DOMAIN args
        /\ args[i].kind = Accessor(reads[i]).kind
        /\ Accessor(reads[i]).single => args[i].match_min = 1 /\ args[i].match_max = 1
    BY <2>1, <2>4 DEF Suits
  <2>6. PICK n \in Nat : n = Len(args) /\ DOMAIN args = 1 .. n
    BY <2>4, ArgumentFacts
  <2>7. args[i].match_min <= Len(vals[i]) /\ Len(vals[i]) <= args[i].match_max
    BY <2>2, <2>5, <2>6 DEF Matches
  <2>8. Len(vals[i]) \in Nat
    <3>1. vals \in ValueLists(n)
      BY <2>1, <2>2, <2>6 DEF TreeInv, TreeValues
    <3>2. vals[i] \in Seq(STRING)
      BY <2>5, <2>6, <3>1 DEF ValueLists
    <3> QED
      BY <3>2
  <2>9. Accessor(reads[i]).single => Len(vals[i]) = 1
    <3>1. PICK len, arg : len = Len(vals[i]) /\ arg = args[i]
      OBVIOUS
    <3>2. len \in Nat /\ arg.match_min <= len /\ len <= arg.match_max
      BY <2>7, <2>8, <3>1
    <3>3. Accessor(reads[i]).single => arg.match_min = 1 /\ arg.match_max = 1
      BY <2>5, <3>1
    <3>4. Accessor(reads[i]).single => len = 1
      BY <3>2, <3>3
    <3> QED
      BY <3>1, <3>4
  <2> QED
    BY <2>1, <2>5, <2>9 DEF AccessorHolds
<1> QED
  BY <1>1, TreeInvariant, PTL

-----------------------------------------------------------------------------
(* Completion: how arguments of one value each take the words of a line.   *)

\* The turns to come start at argument k + 1, the first k words being taken.
Reached(words, m, k) ==
  /\ m.i = k + 1 /\ m.count = 0 /\ m.ok = TRUE
  /\ m.words \in Seq(STRING) /\ Len(m.words) = Len(words) - k
  /\ \A j \in 1 .. Len(words) - k : m.words[j] = words[k + j]

Singles(args, n) ==
  /\ n \in 0 .. Len(args)
  /\ \A k \in 1 .. n : args[k].match_min = 1 /\ args[k].match_max = 1

\* A turn takes the next word if it suits the argument reached, or gives up.
LEMMA SingleTurn ==
  ASSUME NEW args, args \in ArgumentLists, NEW words, words \in Seq(STRING),
         Singles(args, Len(words)), NEW m, MatchInv(args, words, m),
         NEW k, k \in 0 .. Len(words) - 1, Reached(words, m, k),
         NEW t, t = MatchWord(args, m)
  PROVE  /\ set_value(args[k + 1], <<>>, words[k + 1]) => Reached(words, t, k + 1)
         /\ ~set_value(args[k + 1], <<>>, words[k + 1]) => t.ok = FALSE
<1>1. PICK i, n, w, rest, v : i = k + 1 /\ n = Len(args) /\ w = Head(m.words)
                             /\ rest = Tail(m.words) /\ v = m.vals
  OBVIOUS
<1>2. n \in Nat /\ Len(words) \in 0 .. n /\ i \in 1 .. n /\ k \in Nat
  BY <1>1, ArgumentFacts DEF Singles
<1>3. m \in MatchStates(n) /\ m.i = i /\ m.count = 0 /\ m.ok = TRUE
  BY <1>1 DEF MatchInv, Reached
<1>4. args[i].match_min = 1 /\ args[i].match_max = 1
  BY <1>1, <1>2 DEF Singles
<1>5. /\ m.words # <<>> /\ w = words[i]
      /\ rest \in Seq(STRING) /\ Len(rest) = Len(words) - i
      /\ \A j \in 1 .. Len(words) - i : rest[j] = words[i + j]
  <2>1. PICK line : line = m.words
    OBVIOUS
  <2>2. /\ line \in Seq(STRING) /\ Len(line) = Len(words) - k
        /\ \A j \in 1 .. Len(words) - k : line[j] = words[k + j]
    BY <2>1 DEF Reached
  <2>3. w = Head(line) /\ rest = Tail(line)
    BY <1>1, <2>1
  <2>4. Len(words) \in Nat /\ Len(line) >= 1
    BY <2>2
  <2>5. line # <<>> /\ w = line[1]
    BY <2>2, <2>3, <2>4
  <2>6. rest \in Seq(STRING) /\ Len(rest) = Len(line) - 1
    BY <2>2, <2>3, <2>5
  <2>7. \A j \in 1 .. Len(words) - i : rest[j] = line[j + 1]
    <3> TAKE j \in 1 .. Len(words) - i
    <3>1. j \in 1 .. Len(line) - 1
      BY <1>1, <1>2, <2>2, <2>4
    <3> QED
      BY <2>2, <2>3, <2>5, <3>1
  <2>8. \A j \in 1 .. Len(words) - i : rest[j] = words[i + j]
    <3> TAKE j \in 1 .. Len(words) - i
    <3>1. j + 1 \in 1 .. Len(words) - k /\ k + (j + 1) = i + j
      BY <1>1, <1>2, <2>4
    <3> QED
      BY <2>2, <2>7, <3>1
  <2> QED
    BY <1>1, <1>2, <2>1, <2>2, <2>4, <2>5, <2>6, <2>8
<1>6. m.vals[i] = <<>>
  <2>1. m.count = Len(m.vals[i])
    BY <1>1, <1>2, <1>3 DEF MatchInv
  <2>2. v \in Seq(Seq(STRING)) /\ Len(v) = n
    BY <1>1, <1>3 DEF MatchStates, ValueLists
  <2>3. v[i] \in Seq(STRING) /\ Len(v[i]) = 0
    BY <1>1, <1>2, <1>3, <2>1, <2>2
  <2>4. PICK u : u = v[i]
    OBVIOUS
  <2>5. u = <<>>
    BY <2>3, <2>4
  <2> QED
    BY <1>1, <2>4, <2>5
<1>7. PICK v2 : v2 = [v EXCEPT ![i] = Append(v[i], w)]
  OBVIOUS
<1>8. PICK fed : fed = [m EXCEPT !.vals = v2, !.words = rest, !.count = m.count + 1]
  OBVIOUS
<1>9. ~(m.words = <<>> \/ m.i > Len(args) \/ ~m.ok)
  BY <1>1, <1>2, <1>3, <1>5
<1>10. t = IF set_value(args[i], <<>>, w)
           THEN IF args[i].match_max # UINT_MAX /\ fed.count >= args[i].match_max
                THEN NextArgument(fed) ELSE fed
           ELSE IF m.count >= args[i].match_min THEN NextArgument(m)
           ELSE [m EXCEPT !.ok = FALSE]
  BY <1>1, <1>3, <1>6, <1>7, <1>8, <1>9 DEF MatchWord
<1>11. ASSUME set_value(args[i], <<>>, w)
       PROVE  Reached(words, t, i)
  <2>1. fed.i = i /\ fed.count = 1 /\ fed.words = rest /\ fed.ok = TRUE
    BY <1>3, <1>8 DEF MatchStates
  <2>2. DOMAIN fed = {"i", "count", "words", "ok", "vals"}
    BY <1>3, <1>8 DEF MatchStates
  <2>3. t = NextArgument(fed)
    BY <1>4, <1>10, <1>11, <2>1 DEF UINT_MAX
  <2>4. t.i = i + 1 /\ t.count = 0 /\ t.words = rest /\ t.ok = TRUE
    BY <2>1, <2>2, <2>3 DEF NextArgument
  <2> QED
    BY <1>5, <2>4 DEF Reached
<1>12. ASSUME ~set_value(args[i], <<>>, w)
       PROVE  t.ok = FALSE
  <2>1. t = [m EXCEPT !.ok = FALSE]
    BY <1>3, <1>4, <1>10, <1>12
  <2> QED
    BY <1>3, <2>1 DEF MatchStates
<1> QED
  BY <1>1, <1>5, <1>11, <1>12

\* Once the loop is left it stays so.
Left(m) == m.words = <<>> \/ ~m.ok
LeftIn(loop, turns, m) == \E k \in 0 .. turns : m = loop[k] /\ Left(m)

LEMMA LoopStays ==
  ASSUME NEW args, NEW start, NEW turns, turns \in Nat, NEW loop,
         MatchLoop(loop, args, start, turns),
         NEW m, LeftIn(loop, turns, m)
  PROVE  MatchWords(args, start) = m
<1>0. PICK k \in 0 .. turns : m = loop[k] /\ Left(loop[k])
  BY DEF LeftIn
<1> DEFINE S == {n \in Nat : k + n <= turns => loop[k + n] = loop[k]}
<1>1. 0 \in S
  OBVIOUS
<1>2. ASSUME NEW n \in Nat, n \in S
      PROVE  n + 1 \in S
  <2> SUFFICES ASSUME k + (n + 1) <= turns PROVE loop[k + (n + 1)] = loop[k]
    OBVIOUS
  <2>1. PICK j : j = k + (n + 1)
    OBVIOUS
  <2>2. j \in 1 .. turns /\ j - 1 = k + n /\ loop[k + n] = loop[k]
    BY <1>2, <2>1
  <2>3. loop[j] = MatchWord(args, loop[k])
    BY <2>2 DEF MatchLoop
  <2>4. MatchWord(args, loop[k]) = loop[k]
    BY <1>0 DEF MatchWord, Left
  <2> QED
    BY <2>1, <2>3, <2>4
<1>3. Nat \subseteq S
  <2> HIDE DEF S
  <2> QED
    BY <1>1, <1>2, InductionOnSet
<1>4. turns - k \in Nat /\ k + (turns - k) = turns
  OBVIOUS
<1>5. turns - k \in S
  <2> HIDE DEF S
  <2> QED
    BY <1>3, <1>4
<1>6. loop[turns] = loop[k]
  BY <1>4, <1>5
<1> QED
  BY <1>0, <1>6 DEF MatchLoop

\* Arguments of one value each take as many words if and only if each word
\* suits its argument.
TakesAll(args, vals, words) ==
  LET m == MatchWords(args, MatchStart(args, vals, words)) IN m.ok /\ m.words = <<>>

EachSuits(args, words, n) == \A k \in 1 .. n : set_value(args[k], <<>>, words[k])

LEMMA SinglesTaken ==
  ASSUME NEW args, args \in ArgumentLists, NEW vals, NEW words, words \in Seq(STRING),
         Singles(args, Len(words))
  PROVE  TakesAll(args, vals, words) <=> EachSuits(args, words, Len(words))
<1>1. PICK start, n : start = MatchStart(args, vals, words) /\ n = Len(words)
  OBVIOUS
<1>2. /\ start.i = 1 /\ start.count = 0 /\ start.ok = TRUE /\ start.words = words
      /\ MatchInv(args, words, start) /\ n \in Nat
  BY <1>1, MatchStartKeeps DEF MatchStart
<1>3. PICK turns : turns = Len(args) + Len(start.words) /\ turns \in Nat /\ n <= turns
  BY <1>1, <1>2, ArgumentFacts
<1>4. PICK loop : MatchLoop(loop, args, start, turns)
  BY <1>3, MatchWordsUnfolds
<1> DEFINE Good(k) ==
             /\ MatchInv(args, words, loop[k])
             /\ EachSuits(args, words, k) => Reached(words, loop[k], k)
             /\ ~EachSuits(args, words, k) => loop[k].ok = FALSE
           S == {k \in Nat : k <= n => Good(k)}
<1>5. 0 \in S
  <2>1. loop[0] = start
    BY <1>4 DEF MatchLoop
  <2>2. Reached(words, start, 0)
    BY <1>2 DEF Reached
  <2>3. EachSuits(args, words, 0)
    BY DEF EachSuits
  <2> QED
    BY <1>2, <2>1, <2>2, <2>3
<1>6. ASSUME NEW k \in Nat, k \in S
      PROVE  k + 1 \in S
  <2> SUFFICES ASSUME k + 1 <= n
               PROVE  Good(k + 1)
    <3> HIDE DEF Good
    <3> QED
      OBVIOUS
  <2>0. Good(k)
    <3> HIDE DEF Good
    <3> QED
      BY <1>2, <1>6
  <2>1. PICK m, t : m = loop[k] /\ t = loop[k + 1]
    OBVIOUS
  <2>2. /\ MatchInv(args, words, m)
        /\ EachSuits(args, words, k) => Reached(words, m, k)
        /\ ~EachSuits(args, words, k) => m.ok = FALSE
    BY <2>0, <2>1
  <2>3. t = MatchWord(args, m)
    <3>1. k + 1 \in 1 .. turns /\ (k + 1) - 1 = k
      BY <1>2, <1>3
    <3>2. loop[k + 1] = MatchWord(args, loop[(k + 1) - 1])
      BY <1>4, <3>1 DEF MatchLoop
    <3> QED
      BY <2>1, <3>1, <3>2
  <2>4. MatchInv(args, words, t)
    BY <2>2, <2>3, MatchWordKeeps
  <2>5. EachSuits(args, words, k + 1) <=>
          EachSuits(args, words, k) /\ set_value(args[k + 1], <<>>, words[k + 1])
    <3>1. 1 .. k + 1 = (1 .. k) \cup {k + 1}
      OBVIOUS
    <3> QED
      BY <3>1, Zenon DEF EachSuits
  <2>6. CASE EachSuits(args, words, k)
    <3>1. k \in 0 .. Len(words) - 1
      BY <1>1, <1>2
    <3>2. Reached(words, m, k)
      BY <2>2, <2>6
    <3>3. /\ set_value(args[k + 1], <<>>, words[k + 1]) => Reached(words, t, k + 1)
          /\ ~set_value(args[k + 1], <<>>, words[k + 1]) => t.ok = FALSE
      BY <2>2, <2>3, <3>1, <3>2, SingleTurn
    <3> QED
      BY <2>1, <2>4, <2>5, <2>6, <3>3
  <2>7. CASE ~EachSuits(args, words, k)
    <3>1. MatchWord(args, m) = m
      BY <2>2, <2>7 DEF MatchWord
    <3> QED
      BY <2>1, <2>2, <2>3, <2>4, <2>5, <2>7, <3>1
  <2> QED
    BY <2>6, <2>7
<1>7. n \in S
  <2> HIDE DEF S
  <2>1. Nat \subseteq S
    BY <1>5, <1>6, InductionOnSet
  <2> QED
    BY <1>2, <2>1
<1>8. PICK m : m = loop[n]
  OBVIOUS
<1>9. /\ EachSuits(args, words, n) => Reached(words, m, n)
      /\ ~EachSuits(args, words, n) => m.ok = FALSE
  BY <1>2, <1>7, <1>8
<1>10. EachSuits(args, words, n) => m.words = <<>> /\ m.ok = TRUE
  <2> SUFFICES ASSUME Reached(words, m, n) PROVE m.words = <<>> /\ m.ok = TRUE
    BY <1>9
  <2>1. m.words \in Seq(STRING) /\ Len(m.words) = 0 /\ m.ok = TRUE
    BY <1>1, <1>2 DEF Reached
  <2>2. PICK line : line = m.words
    OBVIOUS
  <2>3. line = <<>>
    BY <2>1, <2>2
  <2> QED
    BY <2>1, <2>2, <2>3
<1>11. MatchWords(args, start) = m
  <2>1. n \in 0 .. turns
    BY <1>2, <1>3
  <2>2. LeftIn(loop, turns, m)
    BY <1>8, <1>9, <1>10, <2>1 DEF Left, LeftIn
  <2>3. turns \in Nat
    BY <1>3
  <2> QED
    BY <1>4, <2>2, <2>3, LoopStays
<1> QED
  BY <1>1, <1>9, <1>10, <1>11 DEF TakesAll

\* A format without arguments takes no words.
LEMMA NothingTaken ==
  ASSUME NEW vals, NEW words, words \in Seq(STRING), TakesAll(<<>>, vals, words)
  PROVE  words = <<>>
<1>1. PICK args, m : args = <<>> /\ m = MatchWords(args, MatchStart(args, vals, words))
  OBVIOUS
<1>2. args \in ArgumentLists /\ Len(args) = 0
  BY <1>1, ListsOfArguments DEF OneOffer, WellFormed
<1>3. MatchInv(args, words, m) /\ m.words = <<>>
  BY <1>1, <1>2, MatchWordsKeeps DEF TakesAll
<1>4. m.vals \in ValueLists(0) /\ FlattenSeq(m.vals) \o m.words = words
  BY <1>2, <1>3 DEF MatchInv, MatchStates
<1>5. FlattenSeq(m.vals) = <<>>
  BY <1>4, FlattenSeqOfEmpty DEF ValueLists
<1>6. <<>> \o <<>> = <<>>
  OBVIOUS
<1> QED
  BY <1>3, <1>4, <1>5, <1>6

\* Which words suit.
LEMMA SuitableWords ==
  \A w : /\ set_value(ES, <<>>, w) <=> w \in EntityIds \cup Ints
         /\ set_value(Num, <<>>, w) <=> w \in Ints
<1> TAKE w
<1>1. Len(<<>>) < 1
  OBVIOUS
<1>2. set_value(ES, <<>>, w) <=> w \in EntityIds \cup Ints
  BY <1>1, ArgumentKinds DEF set_value, set_value_end_station, get_end_station_index
<1>3. set_value(Num, <<>>, w) <=> w \in Ints
  BY <1>1, ArgumentKinds DEF set_value, set_value_int
<1> QED
  BY <1>2, <1>3

\* The walk of get_sub_command: it exists as the loops above do, and the words
\* left are words.
LEMMA WalkLeavesWords ==
  ASSUME NEW node, NEW words, words \in Seq(STRING)
  PROVE  get_sub_command(node, words).words \in Seq(STRING)
<1> DEFINE Runs(f, m) ==
             f = [n \in 0 .. m |-> IF n = 0 THEN [node |-> node, words |-> words]
                                   ELSE SubCommandStep(f[n - 1])]
           Place(at) == DOMAIN at = {"node", "words"} /\ at.words \in Seq(STRING)
           turns == Len(words)
           walk == CHOOSE f : Runs(f, turns)
           S == {m \in Nat : \E f : Runs(f, m) /\ \A n \in 0 .. m : Place(f[n])}
<1>1. 0 \in S
  <2>1. Runs([n \in 0 .. 0 |-> [node |-> node, words |-> words]], 0)
    OBVIOUS
  <2>2. Place([node |-> node, words |-> words])
    OBVIOUS
  <2> QED
    BY <2>1, <2>2
<1>2. ASSUME NEW at, Place(at)
      PROVE  Place(SubCommandStep(at))
  <2>1. PICK line : line = at.words
    OBVIOUS
  <2>2. line \in Seq(STRING)
    BY <1>2, <2>1
  <2>3. line # <<>> => Tail(line) \in Seq(STRING)
    BY <2>2
  <2>4. PICK rest : rest = Tail(line)
    OBVIOUS
  <2>5. SubCommandStep(at) \in {at, [at EXCEPT !.words = rest], [at EXCEPT !.node = "none"],
                                [node |-> sub_command(at.node, Head(at.words)), words |-> rest]}
    BY <2>1, <2>4 DEF SubCommandStep
  <2>6. CASE line = <<>>
    <3>1. SubCommandStep(at) = at
      BY <2>1, <2>6 DEF SubCommandStep
    <3> QED
      BY <1>2, <3>1
  <2>7. CASE line # <<>>
    <3>1. rest \in Seq(STRING)
      BY <2>3, <2>4, <2>7
    <3> QED
      BY <1>2, <2>5, <3>1, SMTT(30)
  <2> QED
    BY <2>6, <2>7
<1>3. ASSUME NEW m \in Nat, m \in S
      PROVE  m + 1 \in S
  <2>1. PICK f : Runs(f, m) /\ \A n \in 0 .. m : Place(f[n])
    BY <1>3
  <2> DEFINE g == [n \in 0 .. m + 1 |-> IF n <= m THEN f[n] ELSE SubCommandStep(f[m])]
  <2>2. ASSUME NEW n \in 0 .. m + 1
        PROVE  g[n] = IF n = 0 THEN [node |-> node, words |-> words]
                      ELSE SubCommandStep(g[n - 1])
    <3>1. CASE n = m + 1
      BY <3>1
    <3>2. CASE n \in 0 .. m
      <4>1. f[n] = IF n = 0 THEN [node |-> node, words |-> words] ELSE SubCommandStep(f[n - 1])
        BY <2>1, <3>2
      <4> QED
        BY <3>2, <4>1
    <3> QED
      BY <3>1, <3>2
  <2>3. Runs(g, m + 1)
    BY <2>2
  <2>4. \A n \in 0 .. m : g[n] = f[n]
    OBVIOUS
  <2>5. g[m + 1] = SubCommandStep(f[m])
    OBVIOUS
  <2>6. Place(g[m + 1])
    <3> HIDE DEF Place, g, Runs
    <3>1. Place(f[m])
      BY <2>1
    <3> QED
      BY <1>2, <2>5, <3>1
  <2>7. \A n \in 0 .. m + 1 : Place(g[n])
    <3> HIDE DEF Place, g, Runs
    <3>1. \A n \in 0 .. m + 1 : n = m + 1 \/ n \in 0 .. m
      OBVIOUS
    <3> QED
      BY <2>1, <2>4, <2>6, <3>1
  <2> HIDE DEF g, Runs, Place
  <2> QED
    BY <2>3, <2>7
<1>4. Nat \subseteq S
  <2> HIDE DEF S
  <2> QED
    BY <1>1, <1>3, InductionOnSet
<1>5. turns \in Nat
  OBVIOUS
<1>6. PICK f : Runs(f, turns) /\ \A n \in 0 .. turns : Place(f[n])
  <2> HIDE DEF turns, Runs, Place
  <2> QED
    BY <1>4, <1>5
<1>7. Runs(walk, turns)
  <2> HIDE DEF turns, Runs
  <2> QED
    BY <1>6
<1>8. get_sub_command(node, words) = walk[turns]
  BY DEF get_sub_command
<1> HIDE DEF walk
<1>9. /\ walk[0] = [node |-> node, words |-> words]
      /\ \A n \in 1 .. turns : walk[n] = SubCommandStep(walk[n - 1])
  BY <1>5, <1>7
<1> DEFINE T == {n \in Nat : n <= turns => Place(walk[n])}
<1>10. 0 \in T
  BY <1>9
<1>11. ASSUME NEW n \in Nat, n \in T
       PROVE  n + 1 \in T
  <2> HIDE DEF Place, turns
  <2> SUFFICES ASSUME n + 1 <= turns PROVE Place(walk[n + 1])
    OBVIOUS
  <2>1. n + 1 \in 1 .. turns /\ (n + 1) - 1 = n /\ Place(walk[n])
    BY <1>5, <1>11
  <2>2. walk[n + 1] = SubCommandStep(walk[n])
    BY <1>9, <2>1
  <2> QED
    BY <1>2, <2>1, <2>2
<1>12. turns \in T
  <2> HIDE DEF T
  <2>1. Nat \subseteq T
    BY <1>10, <1>11, InductionOnSet
  <2> QED
    BY <1>5, <2>1
<1>13. Place(walk[turns])
  <2> HIDE DEF Place, turns
  <2> QED
    BY <1>5, <1>12
<1> QED
  BY <1>8, <1>13

\* A word offered for an argument is one that some format takes there.
LEMMA OfferTaken ==
  ASSUME NEW node, NEW words, words \in Seq(STRING), Takes(node, words),
         NEW f, f \in Range(FormatsOf(node)), Len(words) < Len(Formats[f].args),
         NEW word, word \in get_completion_options(Formats[f].args[Len(words) + 1])
  PROVE  Takes(node, Append(words, word))
<1>1. PICK k, args, line : /\ k = Len(words) /\ args = Formats[f].args
                           /\ line = Append(words, word)
  OBVIOUS
<1>2. GoodNode(FormatsOf(node))
  BY AllNodes
<1>3. GoodFormat(f, Formats[f])
  <2>1. FormatsOf(node) \in Seq(DOMAIN Formats)
    BY <1>2 DEF GoodNode
  <2>2. f \in DOMAIN Formats
    BY <2>1 DEF Range
  <2> QED
    BY <2>2, AllFormats
<1>4. /\ args \in ArgumentLists /\ OffersEarly(args)
      /\ f \notin {"connect_rx_fmt", "disconnect_fmt"} => OffersFirst(args)
  BY <1>1, <1>3 DEF GoodFormat, WellFormed
<1>5. word \in EntityIds /\ args[k + 1].kind = "end_station"
  BY <1>1 DEF get_completion_options
<1>6. word \in STRING /\ word \in EntityIds \cup Ints
  BY <1>5, TreeAssumption
<1>7. k \in Nat /\ k + 1 \in 1 .. Len(args) /\ DOMAIN args = 1 .. Len(args) /\ Len(args) \in Nat
  BY <1>1, <1>4, ArgumentFacts
<1>8. args[k + 1] = ES /\ (k = 0 \/ (k = 2 /\ args[1] = ES /\ args[2] = Num))
  BY <1>4, <1>5, <1>7 DEF OffersEarly
<1>9. /\ line \in Seq(STRING) /\ Len(line) = k + 1 /\ line[k + 1] = word
      /\ \A j \in 1 .. k : line[j] = words[j]
  BY <1>1, <1>6
<1>10. Singles(args, Len(line))
  BY <1>7, <1>8, <1>9, ArgumentKinds DEF Singles
<1>11. set_value(ES, <<>>, word)
  BY <1>6, SuitableWords
<1>12. EachSuits(args, line, Len(line))
  <2>1. CASE k = 0
    BY <1>8, <1>9, <1>11, <2>1 DEF EachSuits
  <2>2. CASE k = 2
    <3>1. PICK g \in Range(FormatsOf(node)) : TakesAll(Formats[g].args, values[g], words)
      BY DEF Takes, TakesAll
    <3>2. f \in {"connect_rx_fmt", "disconnect_fmt"}
      BY <1>4, <1>7, <1>8, <2>2 DEF OffersFirst
    <3>3. g \in {"connect_rx_fmt", "connect_dst_fmt", "connect_none_fmt", "disconnect_fmt"}
      BY <1>2, <3>1, <3>2 DEF GoodNode, Range
    <3>4. PICK before : before = Formats[g].args
      OBVIOUS
    <3>5. TakesAll(before, values[g], words)
      BY <3>1, <3>4
    <3>6. before # <<>>
      <4> SUFFICES ASSUME before = <<>> PROVE FALSE
        OBVIOUS
      <4>1. words = <<>>
        BY <3>5, NothingTaken
      <4>2. Len(<<>>) = 0
        OBVIOUS
      <4>3. k = 0
        BY <1>1, <4>1, <4>2, Zenon
      <4> QED
        BY <2>2, <4>3
    <3>7. before \in {<<ES, Num, ES, Num, Strs(0)>>, <<ES, Num>>, <<ES, Num, ES, Num>>}
      BY <3>3, <3>4, <3>6, ConnectFormats
    <3>8. before \in ArgumentLists
      BY <3>7, ListsOfArguments DEF OneOffer, WellFormed
    <3>9. Len(before) >= 2 /\ before[1] = ES /\ before[2] = Num
      BY <3>7
    <3>10. Singles(before, Len(words))
      BY <1>1, <2>2, <3>8, <3>9, ArgumentFacts, ArgumentKinds DEF Singles
    <3>11. EachSuits(before, words, Len(words))
      BY <3>5, <3>8, <3>10, SinglesTaken
    <3>12. set_value(ES, <<>>, words[1]) /\ set_value(Num, <<>>, words[2])
      BY <1>1, <2>2, <3>9, <3>11 DEF EachSuits
    <3> QED
      BY <1>8, <1>9, <1>11, <2>2, <3>12 DEF EachSuits
  <2> QED
    BY <1>8, <2>1, <2>2
<1>13. TakesAll(args, values[f], line)
  BY <1>4, <1>9, <1>10, <1>12, SinglesTaken
<1> QED
  BY <1>1, <1>13 DEF Takes, TakesAll

\* Wherever TAB is pressed in the line last typed, a word offered for an
\* argument is one that a format of the command takes there, if one takes the
\* words before: command_completer's walk agrees with run_command's search.
THEOREM OffersTaken == TreeSpec => []OffersAreTaken
<1>1. TreeInv => OffersAreTaken
  <2> SUFFICES ASSUME TreeInv, NEW n \in 0 .. Len(last.words), NEW words,
                      words = SubSeq(last.words, 1, n), NEW at,
                      at = get_sub_command("commands", words),
                      NEW word, word \in command_completer(words),
                      get_sub_command_names(at.node) = {}, Takes(at.node, at.words)
               PROVE  Takes(at.node, Append(at.words, word))
    BY DEF OffersAreTaken
  <2>1. words \in Seq(STRING)
    <3>1. PICK line : line = last.words
      OBVIOUS
    <3>2. line \in Seq(STRING) /\ n \in 0 .. Len(line)
      BY <3>1 DEF TreeInv
    <3>3. SubSeq(line, 1, n) \in Seq(STRING)
      BY <3>2
    <3> QED
      BY <3>1, <3>3
  <2>2. at.words \in Seq(STRING)
    BY <2>1, WalkLeavesWords
  <2>3. PICK f \in Range(FormatsOf(at.node)) :
          /\ Len(at.words) < Len(Formats[f].args)
          /\ word \in get_completion_options(Formats[f].args[Len(at.words) + 1])
    BY DEF command_completer
  <2> QED
    BY <2>2, <2>3, OfferTaken
<1> QED
  BY <1>1, TreeInvariant, PTL
=============================================================================
