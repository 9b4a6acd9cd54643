---------------------------- MODULE CommandLine ----------------------------
(***************************************************************************)
(* The handlers of the command line application (cmd_line.cpp): what a     *)
(* line that CommandTree has matched does.                                 *)
(*                                                                         *)
(* A handler runs in the application thread.  It looks at the end stations *)
(* and descriptors that have been read so far, which the poll thread goes  *)
(* on adding to, and then, for most commands, asks for a wait, hands one   *)
(* command to the library, is held in that call until the command has      *)
(* ended, and asks for the status.  Four handlers are longer: two walk     *)
(* over all descriptors, one sends several commands and one sends a file   *)
(* piece by piece.                                                         *)
(*                                                                         *)
(* The library is seen from outside: queue_tx_frame, its wait and its      *)
(* release are a step each (their insides are SystemLayer2), a command in  *)
(* flight is answered or times out (AecpController, AcmpController), and   *)
(* there is at most one descriptor of a kind in a configuration, of index  *)
(* 0.  An end station's entity is read first, then its configurations, and *)
(* when configuration 0, the current one of the device, has been read, the *)
(* groups of its descriptors, in any order, as reads may be lost           *)
(* (EndStation).  An advertisement may have the poll thread delete it all  *)
(* and begin again, whatever pointers a handler has.                       *)
(*                                                                         *)
(* What a handler looks up before it sends or walks, and the first use of  *)
(* it, are one step.  A re-enumeration between the two would be like one   *)
(* before a later use, which is modelled: the properties except both.      *)
(***************************************************************************)
EXTENDS Naturals, Sequences, FiniteSets, SequencesExt

CONSTANTS
  NumStations,   \* end stations on the network
  NumConfigs,    \* configurations of each
  DeviceOrder,   \* kinds of descriptor each device has, in groups that are read
                 \* together
  MaxReenumerations, \* bound on the times an end station is enumerated again
  Chunks,        \* blocks of 256 bytes in a firmware image
  test_mode,     \* whether an end station may be connected to itself
  Lines,         \* the lines that may be typed
  MaxLines       \* bound on the lines typed

\* The handlers that a line may have, without those of the help.
Handlers ==
  {"select", "show_select", "list", "version", "view_media_clock", "log_level",
   "log", "unlog", "set_path", "show_path", "clr", "quit", "connect",
   "connect_dst", "view_all", "view_details", "view_descriptor",
   "read_descriptor", "acquire_entity", "lock_entity", "entity_avail", "reboot",
   "controller_avail", "set_stream_format", "get_stream_format",
   "set_stream_info", "get_stream_info", "set_sampling_rate",
   "get_sampling_rate", "set_clock_source", "get_clock_source",
   "start_streaming", "stop_streaming", "identify", "firmware_upgrade",
   "connect_rx", "disconnect_rx", "get_tx_state", "get_rx_state",
   "get_tx_connection", "show_connections"}

\* The kinds of descriptor a configuration keeps.
DescriptorKinds ==
  {"AUDIO_UNIT", "STREAM_INPUT", "STREAM_OUTPUT", "JACK_INPUT", "JACK_OUTPUT",
   "AVB_INTERFACE", "CLOCK_SOURCE", "MEMORY_OBJECT", "LOCALE", "STRINGS",
   "STREAM_PORT_INPUT", "STREAM_PORT_OUTPUT", "AUDIO_CLUSTER", "AUDIO_MAP",
   "CLOCK_DOMAIN", "CONTROL", "EXTERNAL_PORT_INPUT", "EXTERNAL_PORT_OUTPUT"}

ASSUME LineAssumption ==
  /\ NumStations \in Nat \ {0} /\ NumConfigs \in Nat \ {0}
  /\ DeviceOrder \in [0 .. NumStations - 1 -> Seq(SUBSET DescriptorKinds)]
  /\ Chunks \in Nat /\ MaxLines \in Nat /\ MaxReenumerations \in Nat
  /\ test_mode \in BOOLEAN
  /\ \A line \in Lines :
       /\ line.handler \in Handlers
       /\ {line.args.es, line.args.idx, line.args.es2, line.args.idx2} \subseteq Nat

EndStations == 0 .. NumStations - 1
Kinds == UNION {UNION Range(DeviceOrder[es]) : es \in EndStations}

VARIABLES
  count,                 \* controller: end stations found, the first of them
  progress,              \* of each end station: entity and configurations read
  descs,                 \* kinds of descriptor read of its configuration 0
  reenumerations,        \* times an end station was enumerated again
  current_end_station,
  current_config,        \* of each end station; the entity index is always 0
  settings,              \* log_level, log_path, output_redirected
  notification_id,
  wait_state, notify_id, \* the wait manager
  completion_status, waiting_sem,
  resp_status,           \* what get_last_resp_status returns
  sent,                  \* the commands handed to the library, in order
  taken,                 \* how many of them the poll thread has sent
  ended,                 \* how each of them ended so far
  app,                   \* the application thread
  typed                  \* lines typed

readVars == <<count, progress, descs, reenumerations>>
userVars == <<current_end_station, current_config, settings, typed>>
waitVars == <<notification_id, wait_state, notify_id, completion_status,
              waiting_sem, resp_status>>
cmdVars  == <<sent, taken, ended>>
lineVars == <<readVars, userVars, waitVars, cmdVars, app>>

\* A line as the tree hands it over: the handler and the arguments it reads.
Line(handler, args) == [handler |-> handler, args |-> args]
\* es and idx name a descriptor, es2 and idx2 another one; word stands for a
\* flag or field name; the handlers ignore what they do not read.
Args(es, kind, idx) ==
  [es |-> es, kind |-> kind, idx |-> idx, es2 |-> es, idx2 |-> 0, word |-> "ok"]

Cmd(es, kind, call) == [es |-> es, kind |-> kind, call |-> call, talker |-> es]
-----------------------------------------------------------------------------
(***************************************************************************)
(* What a handler decides to do, once it has looked around.                *)
(***************************************************************************)
Says(text) == [does |-> "says", text |-> text]
Sends(cmd) == [does |-> "sends", cmd |-> cmd]   \* and waits for the answer
Primes     == [does |-> "primes"]   \* asks for a wait and sends nothing
Fails      == [does |-> "fails"]    \* uses a descriptor that is not there
Shows(rows) == [does |-> "shows", rows |-> rows]
Sets(to)   == [does |-> "sets", settings |-> to]
Selects(es, config) == [does |-> "selects", es |-> es, config |-> config]
Walks(es, order)    == [does |-> "walks", es |-> es, order |-> order]
Collects   == [does |-> "collects"]
Upgrades(cmd) == [does |-> "upgrades", cmd |-> cmd]
Quits      == [does |-> "quits"]

\* get_current_entity_and_descriptor finds both.
entity_ready(es) == progress[es] > 0
config_desc_count(es) == IF progress[es] = 0 THEN 0 ELSE progress[es] - 1
get_current_entity_and_descriptor(es) ==
  entity_ready(es) /\ current_config[es] < config_desc_count(es)

\* controller_imp::get_current_config_desc is not NULL.
get_current_config_desc(es) ==
  es < count /\ get_current_entity_and_descriptor(es)

\* The descriptors of the current configuration.
Descs(es) == IF current_config[es] = 0 THEN descs[es] ELSE {}
Has(es, kind, idx) == idx = 0 /\ kind \in Descs(es)

\* get_current_end_station, without and with the entity and configuration.
OnStation(r) ==
  IF current_end_station < count THEN r ELSE Says("No End Stations available")
OnConfig(r) ==
  OnStation(IF get_current_entity_and_descriptor(current_end_station) THEN r
            ELSE Says("Current End Station not fully enumerated"))

\* The wait is asked for, then the descriptor fetched and used unchecked.
OnDescriptor(kind, idx, call) ==
  IF Has(current_end_station, kind, idx)
  THEN Sends(Cmd(current_end_station, kind, call)) ELSE Fails
OnStream(a, call) ==
  IF a.kind \in {"STREAM_INPUT", "STREAM_OUTPUT"}
  THEN OnDescriptor(a.kind, a.idx, call) ELSE Says("error")
-----------------------------------------------------------------------------
(***************************************************************************)
(* Selection, lists and settings.                                          *)
(***************************************************************************)
is_setting_valid(es, entity, config) ==
  /\ es < count
  /\ entity = 0 /\ entity_ready(es)
  /\ config < config_desc_count(es)

\* es: the end station, idx: the entity, idx2: the configuration.
do_select(a) ==
  IF ~is_setting_valid(a.es, a.idx, a.idx2) THEN Says("Invalid new setting")
  ELSE IF current_end_station = a.es /\ current_config[a.es] = a.idx2
  THEN Says("Same setting")
  ELSE Selects(a.es, a.idx2)

cmd_show_select(a) ==
  OnStation(IF entity_ready(current_end_station) THEN Says("Current setting")
            ELSE Fails)

cmd_list(a) == Says("End Station | Name")
cmd_version(a) == Says("AVDECC Controller version")
cmd_view_media_clock(a) == Says("End Station | Descriptor Name")

cmd_log_level(a) ==
  IF a.word = "ok" THEN Sets([settings EXCEPT !.log_level = a.idx])
  ELSE Says("Invalid new log level")
cmd_log(a)   == Sets([settings EXCEPT !.output_redirected = TRUE])
cmd_unlog(a) == Sets([settings EXCEPT !.output_redirected = FALSE])
cmd_set_path(a)  == Sets([settings EXCEPT !.log_path = a.word])
cmd_show_path(a) == Says(settings.log_path)
cmd_clr(a)   == Says("nothing")
cmd_quit(a)  == Quits

\* The lists that help the user to connect streams.
cmd_connect(a) == Says("Instream, Outstream")
cmd_connect_dst(a) ==
  IF get_current_config_desc(a.es) /\ Has(a.es, "STREAM_INPUT", a.idx)
  THEN Says("Outstream") ELSE Says("Invalid Instream")
-----------------------------------------------------------------------------
(***************************************************************************)
(* The views.  A walk visits one kind of descriptor after the other.       *)
(***************************************************************************)
\* Mutant: a case that ends in a break.
TopLevelKinds_break == <<"AUDIO_UNIT", "STREAM_INPUT">>

TopLevelKinds == <<"AUDIO_UNIT", "STREAM_INPUT", "STREAM_OUTPUT">>
JackToMemoryObject ==
  <<"JACK_INPUT", "JACK_OUTPUT", "AVB_INTERFACE", "CLOCK_SOURCE", "MEMORY_OBJECT">>
LocaleToMap ==
  <<"LOCALE", "STRINGS", "STREAM_PORT_INPUT", "STREAM_PORT_OUTPUT",
    "AUDIO_CLUSTER", "AUDIO_MAP">>
ClockDomainAndPorts ==
  <<"CLOCK_DOMAIN", "EXTERNAL_PORT_INPUT", "EXTERNAL_PORT_OUTPUT">>

\* The cases of cmd_view_all and cmd_view_details, which fall through.
ViewOrder ==
  TopLevelKinds \o JackToMemoryObject
    \o <<"LOCALE", "STREAM_PORT_INPUT", "STREAM_PORT_OUTPUT", "AUDIO_CLUSTER",
         "AUDIO_MAP", "EXTERNAL_PORT_INPUT", "EXTERNAL_PORT_OUTPUT",
         "CLOCK_DOMAIN">>
DetailsOrder ==
  TopLevelKinds
    \o <<"JACK_INPUT", "JACK_OUTPUT", "AVB_INTERFACE", "CLOCK_SOURCE">>
    \o LocaleToMap \o ClockDomainAndPorts

cmd_view_all(a) == Walks(0, ViewOrder)

cmd_view_details(a) ==
  IF a.es >= count THEN Says("Invalid End Station")
  ELSE IF get_current_entity_and_descriptor(a.es)
  THEN Walks(a.es, DetailsOrder)
  ELSE Says("Current Entity not available")

\* do_view_descriptor shows a descriptor of the selected end station.  A
\* missing one is passed over, but an external input port is not looked for.
DetailedKinds ==
  Range(TopLevelKinds \o JackToMemoryObject \o LocaleToMap \o ClockDomainAndPorts)
do_view_descriptor(kind, idx) ==
  OnStation(
    IF kind = "EXTERNAL_PORT_INPUT"
       /\ ~(get_current_entity_and_descriptor(current_end_station)
            /\ Has(current_end_station, kind, idx))
    THEN Fails
    ELSE Shows(IF kind \in DetailedKinds \cap Descs(current_end_station) /\ idx = 0
               THEN {<<current_end_station, kind>>} ELSE {}))

cmd_view_descriptor(a) == do_view_descriptor(a.kind, a.idx)
-----------------------------------------------------------------------------
(***************************************************************************)
(* Commands to a descriptor of the selected end station.                   *)
(***************************************************************************)
\* The descriptor is not looked up.  Any but an entity or configuration is read
\* with the current configuration of an entity that may not be there.
cmd_read_descriptor(a) ==
  OnStation(
    IF a.kind = "UNKNOWN" THEN Says("error")
    ELSE IF a.kind \in {"ENTITY", "CONFIGURATION"} \/ entity_ready(current_end_station)
    THEN Sends(Cmd(current_end_station, a.kind, "READ_DESCRIPTOR")) ELSE Fails)

\* An input stream has no such command: the call only logs, after the wait was
\* asked for.
cmd_acquire_entity(a) ==
  IF a.word # "ok" THEN Says("Invalid flag")
  ELSE OnConfig(
    CASE a.kind = "ENTITY" ->
           Sends(Cmd(current_end_station, "ENTITY", "ACQUIRE_ENTITY"))
      [] a.kind = "STREAM_INPUT" ->
           IF Has(current_end_station, a.kind, a.idx) THEN Primes ELSE Fails
      [] a.kind = "STREAM_OUTPUT" -> OnDescriptor(a.kind, a.idx, "GET_STREAM_FORMAT")
      [] OTHER -> Says("cmd_acquire_entity error"))

cmd_lock_entity(a) ==
  IF a.word # "ok" THEN Says("Invalid flag")
  ELSE OnConfig(IF a.kind = "ENTITY"
                THEN Sends(Cmd(current_end_station, "ENTITY", "LOCK_ENTITY"))
                ELSE Says("nothing"))

cmd_entity_avail(a) ==
  OnStation(Sends(Cmd(current_end_station, "ENTITY", "ENTITY_AVAILABLE")))

cmd_reboot(a) ==
  OnConfig(Sends(Cmd(current_end_station, "ENTITY", "REBOOT")))

cmd_controller_avail(a) ==
  IF current_end_station < count
  THEN Sends(Cmd(current_end_station, "ENTITY", "CONTROLLER_AVAILABLE"))
  ELSE Fails

cmd_set_stream_format(a) == OnConfig(OnStream(a, "SET_STREAM_FORMAT"))
cmd_get_stream_format(a) == OnConfig(OnStream(a, "GET_STREAM_FORMAT"))

cmd_set_stream_info(a) ==
  OnConfig(
    IF a.kind = "STREAM_OUTPUT" /\ a.word = "ok"
    THEN OnDescriptor(a.kind, a.idx, "SET_STREAM_INFO")
    ELSE Says("unsupported"))
cmd_get_stream_info(a) == OnConfig(OnStream(a, "GET_STREAM_INFO"))

cmd_set_sampling_rate(a) ==
  OnConfig(IF a.kind = "AUDIO_UNIT"
           THEN OnDescriptor(a.kind, a.idx, "SET_SAMPLING_RATE")
           ELSE Says("not implemented"))
cmd_get_sampling_rate(a) ==
  OnConfig(IF a.kind = "AUDIO_UNIT"
           THEN OnDescriptor(a.kind, a.idx, "GET_SAMPLING_RATE")
           ELSE Says("not implemented"))

\* A clock domain that is missing is noticed, after the wait was asked for.
OnClockDomain(idx, call) ==
  IF Has(current_end_station, "CLOCK_DOMAIN", idx)
  THEN Sends(Cmd(current_end_station, "CLOCK_DOMAIN", call)) ELSE Primes
cmd_set_clock_source(a) == OnConfig(OnClockDomain(a.idx, "SET_CLOCK_SOURCE"))
cmd_get_clock_source(a) == OnConfig(OnClockDomain(a.idx, "GET_CLOCK_SOURCE"))

cmd_start_streaming(a) == OnConfig(OnStream(a, "START_STREAMING"))
cmd_stop_streaming(a)  == OnConfig(OnStream(a, "STOP_STREAMING"))

\* An invalid End Station is reported and used nevertheless.
do_identify(a) ==
  IF a.es < count THEN Sends(Cmd(a.es, "CONTROL", "SET_CONTROL")) ELSE Fails

\* The image is erased first; word tells whether the file can be opened.
cmd_firmware_upgrade(a) ==
  IF a.word # "ok" THEN Says("Unable to open upgrade image")
  ELSE OnConfig(IF Has(current_end_station, "MEMORY_OBJECT", 0)
                THEN Upgrades(Cmd(current_end_station, "MEMORY_OBJECT",
                                  "START_OPERATION"))
                ELSE Fails)
-----------------------------------------------------------------------------
(***************************************************************************)
(* Commands between streams.  es, idx: the talker's stream; es2, idx2: the *)
(* listener's.                                                             *)
(***************************************************************************)
Connection(a, call) ==
  [es |-> a.es2, kind |-> "STREAM_INPUT", call |-> call, talker |-> a.es]

\* in_desc and out_desc are there and have the streams.
ValidStreams(a, in_es, out_es) ==
  /\ get_current_config_desc(in_es)
  /\ get_current_config_desc(out_es)
  /\ test_mode \/ a.es # a.es2
  /\ a.es < count
  /\ Has(in_es, "STREAM_INPUT", a.idx2)
  /\ Has(out_es, "STREAM_OUTPUT", a.idx)

cmd_connect_rx(a) ==
  IF ~ValidStreams(a, a.es2, a.es) THEN Says("Invalid ACMP Connection")
  ELSE IF a.word # "ok" THEN Says("Invalid Flag")
  ELSE Sends(Connection(a, "CONNECT_RX"))

\* The talker's stream is looked for in the listener's configuration; the
\* talker's entity may not be there.
cmd_disconnect_rx(a) ==
  IF ~ValidStreams(a, a.es2, a.es2) THEN Says("Invalid ACMP Disconnection")
  ELSE IF entity_ready(a.es) THEN Sends(Connection(a, "DISCONNECT_RX")) ELSE Fails

GetState(a, kind, call) ==
  IF get_current_config_desc(a.es) /\ Has(a.es, kind, a.idx)
  THEN Sends(Cmd(a.es, kind, call)) ELSE Says("Invalid")

\* Mutant: without the check of the configuration.
cmd_get_tx_state_unchecked(a) ==
  IF a.es < count /\ a.idx = 0
  THEN IF Has(a.es, "STREAM_OUTPUT", a.idx)
       THEN Sends(Cmd(a.es, "STREAM_OUTPUT", "GET_TX_STATE")) ELSE Fails
  ELSE Says("Invalid GET Talker Connection State")

cmd_get_tx_state(a) == GetState(a, "STREAM_OUTPUT", "GET_TX_STATE")
cmd_get_rx_state(a) == GetState(a, "STREAM_INPUT", "GET_RX_STATE")
cmd_get_tx_connection(a) == GetState(a, "STREAM_OUTPUT", "GET_TX_CONNECTION")

cmd_show_connections(a) == Collects

\* What the handler of a line decides.
Run(line) ==
  LET a == line.args
  IN  CASE line.handler = "select"    -> do_select(a)
        [] line.handler = "show_select" -> cmd_show_select(a)
        [] line.handler = "list"      -> cmd_list(a)
        [] line.handler = "version"   -> cmd_version(a)
        [] line.handler = "view_media_clock" -> cmd_view_media_clock(a)
        [] line.handler = "log_level" -> cmd_log_level(a)
        [] line.handler = "log"       -> cmd_log(a)
        [] line.handler = "unlog"     -> cmd_unlog(a)
        [] line.handler = "set_path"  -> cmd_set_path(a)
        [] line.handler = "show_path" -> cmd_show_path(a)
        [] line.handler = "clr"       -> cmd_clr(a)
        [] line.handler = "quit"      -> cmd_quit(a)
        [] line.handler = "connect"   -> cmd_connect(a)
        [] line.handler = "connect_dst" -> cmd_connect_dst(a)
        [] line.handler = "view_all"  -> cmd_view_all(a)
        [] line.handler = "view_details" -> cmd_view_details(a)
        [] line.handler = "view_descriptor" -> cmd_view_descriptor(a)
        [] line.handler = "read_descriptor" -> cmd_read_descriptor(a)
        [] line.handler = "acquire_entity" -> cmd_acquire_entity(a)
        [] line.handler = "lock_entity" -> cmd_lock_entity(a)
        [] line.handler = "entity_avail" -> cmd_entity_avail(a)
        [] line.handler = "reboot"    -> cmd_reboot(a)
        [] line.handler = "controller_avail" -> cmd_controller_avail(a)
        [] line.handler = "set_stream_format" -> cmd_set_stream_format(a)
        [] line.handler = "get_stream_format" -> cmd_get_stream_format(a)
        [] line.handler = "set_stream_info" -> cmd_set_stream_info(a)
        [] line.handler = "get_stream_info" -> cmd_get_stream_info(a)
        [] line.handler = "set_sampling_rate" -> cmd_set_sampling_rate(a)
        [] line.handler = "get_sampling_rate" -> cmd_get_sampling_rate(a)
        [] line.handler = "set_clock_source" -> cmd_set_clock_source(a)
        [] line.handler = "get_clock_source" -> cmd_get_clock_source(a)
        [] line.handler = "start_streaming" -> cmd_start_streaming(a)
        [] line.handler = "stop_streaming" -> cmd_stop_streaming(a)
        [] line.handler = "identify"  -> do_identify(a)
        [] line.handler = "firmware_upgrade" -> cmd_firmware_upgrade(a)
        [] line.handler = "connect_rx" -> cmd_connect_rx(a)
        [] line.handler = "disconnect_rx" -> cmd_disconnect_rx(a)
        [] line.handler = "get_tx_state" -> cmd_get_tx_state(a)
        [] line.handler = "get_rx_state" -> cmd_get_rx_state(a)
        [] line.handler = "get_tx_connection" -> cmd_get_tx_connection(a)
        [] line.handler = "show_connections" -> cmd_show_connections(a)
-----------------------------------------------------------------------------
(***************************************************************************)
(* The application thread.                                                 *)
(***************************************************************************)
Goto(pc) == app' = [app EXCEPT !.pc = pc]

NoStatus == [cmd |-> 0, outcome |-> "none"]
TICK_TIMEOUT == [cmd |-> 0, outcome |-> "timeout"]

get_next_notification_id == notification_id' = notification_id + 1

\* set_wait_for_next_cmd(id) unless there is none to wait for, then the send
\* with id up to the point where it is held or not.  set_primed_state does
\* nothing unless the wait manager is idle.
Issue(cmd, id, prime, next) ==
  LET primed == prime /\ wait_state = "idle"
      held   == primed \/ (wait_state = "primed" /\ notify_id = id)
  IN  /\ notify_id' = IF primed THEN id ELSE notify_id
      /\ wait_state' = IF held THEN "active" ELSE wait_state
      /\ sent' = Append(sent, [cmd |-> cmd, id |-> id])
      /\ ended' = Append(ended, "pending")
      /\ app' = [next EXCEPT !.pc = IF held THEN "waiting" ELSE @]
      /\ UNCHANGED <<taken, completion_status, waiting_sem, resp_status>>

\* What the lines and views since the prompt were about; renewed: an end station
\* was enumerated again since then; stale: the handler's pointers are to descriptors
\* deleted by that.
Begin(line) == [pc |-> "prompt", line |-> line, then |-> "prompt", id |-> 0,
                at |-> 1, es |-> 0, order |-> <<>>, shown |-> {}, due |-> {},
                said |-> "nothing", renewed |-> FALSE, stale |-> FALSE]
NoLine == Line("none", Args(0, "UNKNOWN", 0))

\* The handler has returned: of the line only what a view was to show is kept.
Return == app' = [Begin(NoLine) EXCEPT !.due = app.due, !.shown = app.shown]

\* Everything a view that begins now is to show: view_all needs the locale and
\* the strings, and leaves the strings out; view_details is documented for the
\* end station it names but shows the selected one, and no memory object.  Neither
\* has a case for controls.
Due(line) ==
  CASE line.handler = "view_all" ->
         {r \in EndStations \X (Kinds \ {"STRINGS", "CONTROL"}) :
            /\ get_current_config_desc(r[1])
            /\ {r[2], "LOCALE", "STRINGS"} \subseteq Descs(r[1])}
    [] line.handler = "view_details" /\ line.args.es = current_end_station ->
         {r \in EndStations \X (Kinds \ {"MEMORY_OBJECT", "CONTROL"}) :
            /\ r[1] = line.args.es
            /\ get_current_config_desc(r[1])
            /\ r[2] \in Descs(r[1])}
    [] OTHER -> {}

\* cmd_line::handle: a line runs its handler up to the first wait.
Handle(line) ==
  /\ app.pc = "prompt"
  /\ typed < MaxLines
  /\ typed' = typed + 1
  /\ LET r == Run(line)
         begin == [Begin(line) EXCEPT !.due = Due(line)]
         over  == [Begin(NoLine) EXCEPT !.due = Due(line)]
     IN  \/ /\ r.does \in {"says", "shows"}
            /\ app' = over
            /\ UNCHANGED <<waitVars, cmdVars, current_end_station,
                           current_config, settings>>
         \/ /\ r.does \in {"fails", "quits"}
            /\ app' = [begin EXCEPT !.pc = r.does]
            /\ UNCHANGED <<waitVars, cmdVars, current_end_station,
                           current_config, settings>>
         \/ /\ r.does = "sets"
            /\ settings' = r.settings
            /\ app' = over
            /\ UNCHANGED <<waitVars, cmdVars, current_end_station, current_config>>
         \/ /\ r.does = "selects"
            /\ current_end_station' = r.es
            /\ current_config' = [current_config EXCEPT ![r.es] = r.config]
            /\ app' = over
            /\ UNCHANGED <<waitVars, cmdVars, settings>>
         \/ /\ r.does = "primes"
            /\ get_next_notification_id
            /\ wait_state' = IF wait_state = "idle" THEN "primed" ELSE wait_state
            /\ notify_id' = IF wait_state = "idle" THEN notification_id ELSE notify_id
            /\ app' = over
            /\ UNCHANGED <<completion_status, waiting_sem, resp_status, cmdVars,
                           current_end_station, current_config, settings>>
         \/ /\ r.does \in {"sends", "upgrades"}
            /\ get_next_notification_id
            /\ Issue(r.cmd, notification_id, TRUE,
                     [begin EXCEPT !.pc = "returned", !.id = notification_id,
                        !.then = IF r.does = "sends" THEN "prompt" ELSE "chunk"])
            /\ UNCHANGED <<current_end_station, current_config, settings>>
         \/ /\ r.does = "walks"
            /\ app' = [begin EXCEPT !.pc = "walking", !.es = r.es, !.order = r.order]
            /\ UNCHANGED <<waitVars, cmdVars, current_end_station,
                           current_config, settings>>
         \/ /\ r.does = "collects"
            /\ get_next_notification_id
            /\ app' = [begin EXCEPT !.pc = "inputs", !.id = notification_id]
            /\ UNCHANGED <<wait_state, notify_id, completion_status, waiting_sem,
                           resp_status, cmdVars, current_end_station,
                           current_config, settings>>
  /\ UNCHANGED readVars

\* waiting_sem, get_completion_status and set_idle_state.
Wake ==
  /\ app.pc = "waiting"
  /\ waiting_sem > 0
  /\ waiting_sem' = waiting_sem - 1
  /\ resp_status' = completion_status
  /\ wait_state' = "idle"
  /\ Goto("returned")
  /\ UNCHANGED <<readVars, userVars, cmdVars, notification_id, notify_id,
                 completion_status>>

\* The handlers that show what the descriptor got with the answer.
ReadsAnswer ==
  {"get_tx_state", "get_rx_state", "get_tx_connection", "set_stream_format",
   "get_stream_format", "get_stream_info", "set_sampling_rate",
   "get_sampling_rate", "set_clock_source", "get_clock_source"}

\* The handler goes on to use descriptors of es that it has pointers to.
PointsInto(es) ==
  \/ /\ app.pc = "walking" /\ app.es = es
     /\ app.line.handler = "view_details" \/ app.at > 1
  \/ app.pc = "outputs" /\ app.es = es
  \/ /\ app.pc \in {"waiting", "returned"} /\ app.then = "prompt"
     /\ app.line.handler \in ReadsAnswer
     /\ sent[Len(sent)].cmd.es = es

\* What a deleted configuration still says of its descriptors is not known.
Sees(kind) == IF app.stale THEN BOOLEAN ELSE {kind \in Descs(app.es)}

\* The use of what was deleted can end the program.
UsesDeleted ==
  /\ app.stale
  /\ \/ app.pc \in {"walking", "outputs"}
     \/ /\ app.pc = "returned" /\ app.then = "prompt"
        /\ resp_status.outcome = "success" \/ app.line.handler = "get_clock_source"
  /\ Goto("fails")
  /\ UNCHANGED <<readVars, userVars, waitVars, cmdVars>>

\* A handler with one command shows the status and what came with it.
Report ==
  /\ app.pc = "returned" /\ app.then = "prompt"
  /\ Return
  /\ UNCHANGED <<readVars, userVars, waitVars, cmdVars>>
-----------------------------------------------------------------------------
(***************************************************************************)
(* The walks of cmd_view_all and cmd_view_details.  What they show of      *)
(* descriptors that were deleted under them is no row of what there is.    *)
(***************************************************************************)
\* An end station is passed over unless its locale and strings are there.
WalkStation ==
  /\ app.pc = "walking" /\ app.line.handler = "view_all"
  /\ app.at = 1
  /\ IF app.es >= count
     THEN Return
     ELSE IF get_current_config_desc(app.es)
             /\ {"LOCALE", "STRINGS"} \subseteq Descs(app.es)
     THEN app' = [app EXCEPT !.at = 2]
     ELSE app' = [app EXCEPT !.es = @ + 1]
  /\ UNCHANGED <<readVars, userVars, waitVars, cmdVars>>

WalkKind ==
  /\ app.pc = "walking" /\ app.line.handler = "view_all"
  /\ app.at > 1
  /\ IF app.at > Len(app.order) + 1
     THEN app' = [app EXCEPT !.es = @ + 1, !.at = 1, !.stale = FALSE]
     ELSE app' = [app EXCEPT !.at = @ + 1,
                    !.shown = @ \cup (IF ~app.stale /\ app.order[app.at - 1] \in Descs(app.es)
                                      THEN {<<app.es, app.order[app.at - 1]>>}
                                      ELSE {})]
  /\ UNCHANGED <<readVars, userVars, waitVars, cmdVars>>

\* Each descriptor of the end station named is given to do_view_descriptor.
WalkDetails ==
  /\ app.pc = "walking" /\ app.line.handler = "view_details"
  /\ IF app.at > Len(app.order)
     THEN Return
     ELSE IF ~app.stale /\ app.order[app.at] \in Descs(app.es)
     THEN LET r == do_view_descriptor(app.order[app.at], 0)
          IN  app' = IF r.does = "fails" THEN [app EXCEPT !.pc = "fails"]
                     ELSE [app EXCEPT !.at = @ + 1, !.shown = @ \cup r.rows]
     ELSE app' = [app EXCEPT !.at = @ + 1]
  /\ UNCHANGED <<readVars, userVars, waitVars, cmdVars>>
-----------------------------------------------------------------------------
(***************************************************************************)
(* cmd_show_connections: every stream is asked for its state under one     *)
(* id; only the last output of the last end station is waited for.         *)
(***************************************************************************)
NextStation == [app EXCEPT !.pc = "inputs", !.es = @ + 1, !.stale = FALSE]

CollectInputs ==
  /\ app.pc = "inputs"
  /\ \/ /\ app.es >= count
        /\ Return
        /\ UNCHANGED <<waitVars, cmdVars>>
     \/ /\ app.es < count
        /\ ~get_current_entity_and_descriptor(app.es)
        /\ app' = NextStation
        /\ UNCHANGED <<waitVars, cmdVars>>
     \/ /\ app.es < count
        /\ get_current_entity_and_descriptor(app.es)
        /\ IF "STREAM_INPUT" \in Descs(app.es)
           THEN /\ Issue(Cmd(app.es, "STREAM_INPUT", "GET_RX_STATE"), app.id,
                         FALSE, [app EXCEPT !.pc = "outputs"])
                /\ UNCHANGED notification_id
           ELSE /\ Goto("outputs")
                /\ UNCHANGED <<waitVars, cmdVars>>
  /\ UNCHANGED <<readVars, userVars>>

CollectOutputs ==
  /\ app.pc = "outputs"
  /\ \E there \in Sees("STREAM_OUTPUT") :
       LET last_command == app.es = count - 1
       IN  IF there
           THEN /\ Issue(Cmd(app.es, "STREAM_OUTPUT", "GET_TX_STATE"), app.id,
                         last_command,
                         IF last_command
                         THEN [app EXCEPT !.pc = "returned", !.then = "inputs"]
                         ELSE NextStation)
                /\ UNCHANGED notification_id
           ELSE /\ app' = NextStation
                /\ UNCHANGED <<waitVars, cmdVars>>
  /\ UNCHANGED <<readVars, userVars>>

Collected ==
  /\ app.pc = "returned" /\ app.then = "inputs"
  /\ app' = NextStation
  /\ UNCHANGED <<readVars, userVars, waitVars, cmdVars>>
-----------------------------------------------------------------------------
(***************************************************************************)
(* cmd_firmware_upgrade: once the image is erased it is written block by   *)
(* block, all under one id.                                                *)
(***************************************************************************)
\* Mutant: the status of a write is not looked at.
UpgradeFails_erase ==
  app.at = 1 /\ resp_status.outcome # "success"
UpgradeFails == resp_status.outcome # "success"

Upgrade ==
  /\ app.pc = "returned" /\ app.then = "chunk"
  /\ IF UpgradeFails
     THEN /\ Return
          /\ UNCHANGED <<waitVars, cmdVars>>
     ELSE IF app.at > Chunks
     THEN /\ app' = [app EXCEPT !.pc = "asking", !.said = "upgraded"]
          /\ UNCHANGED <<waitVars, cmdVars>>
     ELSE /\ Issue([es |-> current_end_station, kind |-> "MEMORY_OBJECT",
                    call |-> "ADDRESS_ACCESS", talker |-> app.at],
                   app.id, TRUE, [app EXCEPT !.at = @ + 1])
          /\ UNCHANGED notification_id
  /\ UNCHANGED <<readVars, userVars>>

\* Do you want to reboot the device? [y/n]  cmd_reboot looks the device up again.
Answer(yes) ==
  LET r == cmd_reboot(app.line.args)
  IN  /\ app.pc = "asking"
      /\ IF yes /\ r.does = "sends"
         THEN /\ get_next_notification_id
              /\ Issue(r.cmd, notification_id, TRUE,
                       [app EXCEPT !.pc = "returned", !.then = "prompt"])
         ELSE /\ Return
              /\ UNCHANGED <<waitVars, cmdVars>>
  /\ UNCHANGED <<readVars, userVars>>
-----------------------------------------------------------------------------
(***************************************************************************)
(* The poll thread, seen from outside.                                     *)
(***************************************************************************)
\* The background read goes on: the entity or the next configuration is stored, or
\* a group of descriptors.
Discover ==
  /\ count < NumStations
  /\ count' = count + 1
  /\ UNCHANGED <<progress, descs, reenumerations, userVars, waitVars, cmdVars, app>>

ReadNext(es) ==
  /\ es < count
  /\ progress[es] < 1 + NumConfigs
  /\ progress' = [progress EXCEPT ![es] = @ + 1]
  /\ UNCHANGED <<count, descs, reenumerations, userVars, waitVars, cmdVars, app>>

ReadGroup(es) ==
  /\ es < count
  /\ config_desc_count(es) > 0
  /\ \E k \in DOMAIN DeviceOrder[es] :
       /\ ~(DeviceOrder[es][k] \subseteq descs[es])
       /\ descs' = [descs EXCEPT ![es] = @ \cup DeviceOrder[es][k]]
  /\ UNCHANGED <<count, progress, reenumerations, userVars, waitVars, cmdVars, app>>

\* end_station_reenumerate, on an advertisement of a device that has restarted or
\* changed: the descriptors are deleted, though a handler may have pointers to
\* them, the configuration selected is forgotten and the entity is read again.
\* An end station of which nothing was read stays as it is.  A view is not held to
\* what was deleted.
Reenumerate(es) ==
  /\ es < count
  /\ progress[es] > 0
  /\ reenumerations < MaxReenumerations
  /\ reenumerations' = reenumerations + 1
  /\ progress' = [progress EXCEPT ![es] = 0]
  /\ descs' = [descs EXCEPT ![es] = {}]
  /\ current_config' = [current_config EXCEPT ![es] = 0]
  /\ app' = IF app.pc \in {"prompt", "fails", "quits"} THEN app
            ELSE [app EXCEPT !.renewed = TRUE,
                             !.stale = @ \/ PointsInto(es),
                             !.due = {r \in @ : r[1] # es},
                             !.shown = {r \in @ : r[1] # es}]
  /\ UNCHANGED <<count, current_end_station, settings, typed, waitVars, cmdVars>>

SendNext ==
  /\ taken < Len(sent)
  /\ taken' = taken + 1
  /\ UNCHANGED <<readVars, userVars, waitVars, sent, ended, app>>

Unfinished(c) == ended[c] \in {"pending", "operating"}

\* Mutant: an operation that goes on is not looked for.
Post_started(ends, c, status) ==
  IF /\ wait_state = "active"
     /\ sent[c].id = notify_id
     /\ \A d \in 1 .. taken : sent[d].id = notify_id => ends[d] # "pending"
  THEN /\ completion_status' = status
       /\ waiting_sem' = waiting_sem + 1
  ELSE UNCHANGED <<completion_status, waiting_sem>>

\* The wait is over if nothing sent under its id is in flight or an operation.
Post(ends, c, status) ==
  IF /\ wait_state = "active"
     /\ sent[c].id = notify_id
     /\ \A d \in 1 .. taken : sent[d].id = notify_id =>
          ends[d] \notin {"pending", "operating"}
  THEN /\ completion_status' = status
       /\ waiting_sem' = waiting_sem + 1
  ELSE UNCHANGED <<completion_status, waiting_sem>>

Ends(c, how, status) ==
  /\ ended' = [ended EXCEPT ![c] = how]
  /\ Post([ended EXCEPT ![c] = how], c, status)
  /\ UNCHANGED <<readVars, userVars, notification_id, wait_state, notify_id,
                 resp_status, sent, taken, app>>

\* The status that a response of c with an outcome leaves: that of a SET_CONTROL
\* is not looked at.
StatusOf(c, outcome) ==
  [cmd |-> c,
   outcome |-> IF sent[c].cmd.call = "SET_CONTROL" THEN "unset" ELSE outcome]

\* A response; a START_OPERATION can go on as an operation.
Answered(c, outcome) ==
  /\ c <= taken
  /\ ended[c] = "pending"
  /\ outcome = "operating" => sent[c].cmd.call = "START_OPERATION"
  /\ Ends(c, outcome, StatusOf(c, "success"))

Refused(c) ==
  /\ c <= taken
  /\ ended[c] = "pending"
  /\ Ends(c, "failed", StatusOf(c, "failed"))

OperationOver(c, outcome) ==
  /\ c <= taken
  /\ ended[c] = "operating"
  /\ Ends(c, outcome, StatusOf(c, outcome))

TimedOut(c) ==
  /\ c <= taken
  /\ ended[c] = "pending"
  /\ Ends(c, "timeout", TICK_TIMEOUT)
-----------------------------------------------------------------------------
LineInit ==
  /\ count = 0
  /\ progress = [es \in EndStations |-> 0]
  /\ descs = [es \in EndStations |-> {}]
  /\ reenumerations = 0
  /\ current_end_station = 0
  /\ current_config = [es \in EndStations |-> 0]
  /\ settings = [log_level |-> 0, log_path |-> "ok", output_redirected |-> FALSE]
  /\ notification_id = 1
  /\ wait_state = "idle"
  /\ notify_id = 0
  /\ completion_status = NoStatus
  /\ waiting_sem = 0
  /\ resp_status = NoStatus
  /\ sent = <<>>
  /\ taken = 0
  /\ ended = <<>>
  /\ app = Begin(NoLine)
  /\ typed = 0

AppNext ==
  \/ \E line \in Lines : Handle(line)
  \/ Wake
  \/ Report
  \/ UsesDeleted
  \/ WalkStation
  \/ WalkKind
  \/ WalkDetails
  \/ CollectInputs
  \/ CollectOutputs
  \/ Collected
  \/ Upgrade
  \/ \E yes \in BOOLEAN : Answer(yes)

PollNext ==
  \/ Discover
  \/ \E es \in EndStations : ReadNext(es) \/ ReadGroup(es) \/ Reenumerate(es)
  \/ SendNext
  \/ \E c \in DOMAIN sent :
       \/ \E outcome \in {"success", "operating"} : Answered(c, outcome)
       \/ Refused(c)
       \/ \E outcome \in {"success", "failed"} : OperationOver(c, outcome)
       \/ TimedOut(c)

LineNext == AppNext \/ PollNext

LineSpec == LineInit /\ [][LineNext]_lineVars
-----------------------------------------------------------------------------
\* When a call that was to be waited for has returned, the command has ended and
\* the status is how (system.h: "Wait for the response packet with the
\* corrsponding notifcation id to be received"); a response to SET_CONTROL has none.
StatusIsOwn ==
  app.pc = "returned" =>
    resp_status \in {TICK_TIMEOUT, StatusOf(Len(sent), ended[Len(sent)])}
    /\ (resp_status.outcome = "timeout" <=> ended[Len(sent)] = "timeout")

\* cmd_show_connections has run: commands under one id were in flight together.
\* The wait can then be released more than once, and later waits return at once.
SharedId ==
  \E c, d \in DOMAIN sent :
    /\ c < d /\ sent[c].id = sent[d].id
    /\ sent[d].cmd.call \in {"GET_RX_STATE", "GET_TX_STATE"}

\* The same for the handlers that look at the status, as long as no line asked
\* for a wait and sent nothing (the wait manager stays primed for an id that
\* never comes) and none showed the connections.
StatusUsedIsOwn == (wait_state # "primed" /\ ~SharedId) => StatusIsOwn

\* Handlers that do not check what they use.
Unchecked ==
  {"show_select", "view_descriptor", "view_details", "acquire_entity",
   "set_stream_format", "get_stream_format", "set_stream_info",
   "get_stream_info", "set_sampling_rate", "get_sampling_rate",
   "start_streaming", "stop_streaming", "identify", "firmware_upgrade",
   "controller_avail", "disconnect_rx", "read_descriptor"}

\* The other handlers never use an end station, an entity or a descriptor that
\* is not there, whatever the line says and however far the end stations have
\* been read, unless one was enumerated again while they ran.
CheckedNeverFail ==
  app.pc = "fails" => app.line.handler \in Unchecked \/ app.renewed

\* A view shows everything that was there when it began (Due), of the end stations
\* that were not enumerated again while it walked (Reenumerate), though descriptors
\* are added, of these and of the others anew.
ViewsAreComplete ==
  (app.pc = "prompt" /\ typed > 0) => app.due \subseteq app.shown

\* "Successfully upgraded image." is said only when the erasing has ended, with
\* success, and after it every block was written, in order and once.
UpgradedMeansWritten ==
  app.said = "upgraded" =>
    \E first \in DOMAIN sent :
      LET block(k) == sent[first + k]
      IN  /\ sent[first].cmd.call = "START_OPERATION" /\ ended[first] = "success"
          /\ Len(sent) >= first + Chunks
          /\ \A k \in 1 .. Chunks :
               /\ block(k).cmd.call = "ADDRESS_ACCESS"
               /\ block(k).cmd.talker = k
               /\ block(k).cmd.es = sent[first].cmd.es
               /\ ended[first + k] = "success"

\* The same with the provisos of StatusUsedIsOwn.
UpgradeWaitsForAll ==
  (wait_state # "primed" /\ ~SharedId) => UpgradedMeansWritten
=============================================================================
