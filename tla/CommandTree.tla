---------------------------- MODULE CommandTree ----------------------------
(***************************************************************************)
(* The command line's parser: the tree of commands that                    *)
(* cmd_line_commands_init builds (cmd_line.cpp), the search that runs the  *)
(* handler of the first format a line matches (cli_command.cpp,            *)
(* cli_command_format.cpp, cli_argument.cpp) and the loop that feeds it    *)
(* (cmd_line_main.cpp).                                                    *)
(*                                                                         *)
(* A node of the tree and a format are named after the variable that holds *)
(* them in cmd_line_commands_init.  Formats own their arguments and the    *)
(* arguments keep the values of the last line tried on them, which is why  *)
(* "values" is state: a format may hang below several nodes.               *)
(***************************************************************************)
EXTENDS Naturals, Sequences, FiniteSets, SequencesExt

CONSTANTS
  Ints,        \* words that atoi reads as a number: "0" or not 0
  EntityIds,   \* words that are the Entity ID of a known End Station
  TreeLines,       \* the lines the user may type: sequences of words, "" for a
               \* blank too many
  MaxTreeLines     \* bound on the lines typed

ASSUME TreeAssumption ==
  /\ Ints \cup EntityIds \subseteq STRING \ {""}
  /\ TreeLines \subseteq Seq(STRING)
  /\ MaxTreeLines \in Nat

UINT_MAX == 65535  \* stands for "no limit"
-----------------------------------------------------------------------------
(***************************************************************************)
(* cli_argument.cpp                                                        *)
(***************************************************************************)
cli_argument(kind, match_min, match_max) ==
  [kind |-> kind, match_min |-> match_min, match_max |-> match_max]

Num == cli_argument("int", 1, 1)
ES  == cli_argument("end_station", 1, 1)
Str == cli_argument("string", 1, 1)
Strs(match_min) == cli_argument("string", match_min, UINT_MAX)

\* get_end_station_index: an Entity ID that is known, else a decimal index.
get_end_station_index(word) == word \in EntityIds \cup Ints

set_value_int(word)         == word \in Ints
set_value_end_station(word) == get_end_station_index(word)
set_value_string(word)      == word # ""

\* set_value: whether the argument takes the word as one more value.
set_value(arg, vals, word) ==
  /\ Len(vals) < arg.match_max
  /\ CASE arg.kind = "int"         -> set_value_int(word)
       [] arg.kind = "end_station" -> set_value_end_station(word)
       [] arg.kind = "string"      -> set_value_string(word)

\* get_completion_options: only End Stations offer any.
get_completion_options(arg) == IF arg.kind = "end_station" THEN EntityIds ELSE {}

\* The accessors.  Called on an argument of another kind each is the base
\* class method, which asserts; those for one value assert that there is one.
Accessor(name) ==
  CASE name = "int"     -> [kind |-> "int", single |-> TRUE]
    [] name = "uint"    -> [kind |-> "end_station", single |-> TRUE]
    [] name = "str"     -> [kind |-> "string", single |-> TRUE]
    [] name = "all_str" -> [kind |-> "string", single |-> FALSE]

AccessorHolds(name, arg, vals) ==
  /\ arg.kind = Accessor(name).kind
  /\ Accessor(name).single => Len(vals) = 1
-----------------------------------------------------------------------------
(***************************************************************************)
(* cmd_line_commands_init, a section at a time: the sub-commands of each   *)
(* node, the formats of each node in order, and what each format calls.    *)
(***************************************************************************)
Format(action, args) == [action |-> action, args |-> args]

HelpToLog == [
  subs |->
   {<<"commands", "help", "help_cmd">>,
    <<"commands", "version", "version_cmd">>,
    <<"commands", "list", "list_cmd">>,
    <<"commands", "select", "select_cmd">>,
    <<"commands", "log", "log_cmd">>,
    <<"log_cmd", "level", "log_level_cmd">>,
    <<"commands", "unlog", "unlog_cmd">>},
  fmts |->
   [help_cmd |-> <<"help_one_fmt", "help_all_fmt">>,
    version_cmd |-> <<"version_format">>,
    list_cmd |-> <<"list_fmt">>,
    select_cmd |-> <<"select_fmt", "show_select_fmt">>,
    log_cmd |-> <<"log_fmt">>,
    log_level_cmd |-> <<"log_level_fmt">>,
    unlog_cmd |-> <<"unlog_fmt">>],
  calls |->
   [help_one_fmt |-> Format("cmd_help_one", <<Strs(1)>>),
    help_all_fmt |-> Format("cmd_help_all", <<>>),
    version_format |-> Format("cmd_version", <<>>),
    list_fmt |-> Format("cmd_list", <<>>),
    select_fmt |-> Format("cmd_select", <<ES, Num, Num>>),
    show_select_fmt |-> Format("cmd_show_select", <<>>),
    log_fmt |-> Format("cmd_log", <<Str>>),
    log_level_fmt |-> Format("cmd_log_level", <<Num>>),
    unlog_fmt |-> Format("cmd_unlog", <<>>)]]

ViewToDisconnect == [
  subs |->
   {<<"commands", "view", "view_cmd">>,
    <<"view_cmd", "all", "view_all_cmd">>,
    <<"view_cmd", "media", "view_media_cmd">>,
    <<"view_media_cmd", "clock", "view_media_clock_cmd">>,
    <<"view_cmd", "details", "view_details_cmd">>,
    <<"view_cmd", "descriptor", "view_descriptor_cmd">>,
    <<"commands", "show", "show_cmd">>,
    <<"show_cmd", "connections", "show_connections_cmd">>,
    <<"commands", "connect", "connect_cmd">>,
    <<"commands", "disconnect", "disconnect_cmd">>},
  fmts |->
   [view_all_cmd |-> <<"view_all_fmt">>,
    view_media_clock_cmd |-> <<"view_media_clock_fmt">>,
    view_details_cmd |-> <<"view_details_fmt">>,
    view_descriptor_cmd |-> <<"view_descriptor_fmt">>,
    show_connections_cmd |-> <<"show_connections_fmt">>,
    connect_cmd |-> <<"connect_rx_fmt", "connect_dst_fmt", "connect_none_fmt">>,
    disconnect_cmd |-> <<"disconnect_fmt">>],
  calls |->
   [view_all_fmt |-> Format("cmd_view_all", <<>>),
    view_media_clock_fmt |-> Format("cmd_view_media_clock", <<>>),
    view_details_fmt |-> Format("cmd_view_details", <<ES>>),
    view_descriptor_fmt |-> Format("cmd_view_descriptor", <<Str, Num>>),
    show_connections_fmt |-> Format("cmd_show_connections", <<>>),
    connect_rx_fmt |-> Format("cmd_connect_rx", <<ES, Num, ES, Num, Strs(0)>>),
    connect_dst_fmt |-> Format("cmd_connect_dst", <<ES, Num>>),
    connect_none_fmt |-> Format("cmd_connect", <<>>),
    disconnect_fmt |-> Format("cmd_disconnect_rx", <<ES, Num, ES, Num>>)]]

\* get_tx_connection_fmt hangs below "get tx state".
GetRxTx == [
  subs |->
   {<<"commands", "get", "get_cmd">>,
    <<"get_cmd", "rx", "get_rx_cmd">>,
    <<"get_rx_cmd", "state", "get_rx_state_cmd">>,
    <<"get_cmd", "tx", "get_tx_cmd">>,
    <<"get_tx_cmd", "state", "get_tx_state_cmd">>,
    <<"get_tx_cmd", "connection", "get_tx_connection_cmd">>},
  fmts |->
   [get_rx_state_cmd |-> <<"get_rx_state_fmt">>,
    get_tx_state_cmd |-> <<"get_tx_state_fmt", "get_tx_connection_fmt">>],
  calls |->
   [get_rx_state_fmt |-> Format("cmd_get_rx_state", <<ES, Num>>),
    get_tx_state_fmt |-> Format("cmd_get_tx_state", <<ES, Num>>),
    get_tx_connection_fmt |-> Format("cmd_get_tx_connection", <<ES, Num>>)]]

\* "entity lock" and "lock entity" share a node, "entity acquire" and "acquire
\* entity", "entity reboot" and "reboot entity" share their formats only.
EntityToRead == [
  subs |->
   {<<"commands", "entity", "entity_cmd">>,
    <<"entity_cmd", "acquire", "entity_acquire_cmd">>,
    <<"commands", "acquire", "acquire_cmd">>,
    <<"acquire_cmd", "entity", "acquire_entity_cmd">>,
    <<"entity_cmd", "lock", "entity_lock_cmd">>,
    <<"commands", "lock", "lock_cmd">>,
    <<"lock_cmd", "entity", "entity_lock_cmd">>,
    <<"entity_cmd", "available", "entity_available_cmd">>,
    <<"entity_cmd", "reboot", "entity_reboot_cmd">>,
    <<"commands", "reboot", "reboot_cmd">>,
    <<"reboot_cmd", "entity", "reboot_entity_cmd">>,
    <<"commands", "controller", "controller_cmd">>,
    <<"controller_cmd", "available", "controller_available_cmd">>,
    <<"commands", "read", "read_cmd">>,
    <<"read_cmd", "descriptor", "read_descriptor_cmd">>},
  fmts |->
   [entity_acquire_cmd |-> <<"entity_acquire_fmt">>,
    acquire_entity_cmd |-> <<"entity_acquire_fmt">>,
    entity_lock_cmd |-> <<"entity_lock_fmt">>,
    entity_available_cmd |-> <<"entity_available_fmt">>,
    entity_reboot_cmd |-> <<"reboot_fmt">>,
    reboot_entity_cmd |-> <<"reboot_fmt">>,
    controller_available_cmd |-> <<"controller_available_fmt">>,
    read_descriptor_cmd |-> <<"read_descriptor_fmt">>],
  calls |->
   [entity_acquire_fmt |-> Format("cmd_acquire_entity", <<Str, Str, Num>>),
    entity_lock_fmt |-> Format("cmd_lock_entity", <<Str, Str, Num>>),
    entity_available_fmt |-> Format("cmd_entity_avail", <<>>),
    reboot_fmt |-> Format("cmd_reboot", <<>>),
    controller_available_fmt |-> Format("cmd_controller_avail", <<>>),
    read_descriptor_fmt |-> Format("cmd_read_descriptor", <<Str, Num>>)]]

SetGet == [
  subs |->
   {<<"commands", "set", "set_cmd">>,
    <<"set_cmd", "stream_format", "set_stream_format_cmd">>,
    <<"get_cmd", "stream_format", "get_stream_format_cmd">>,
    <<"set_cmd", "stream_info", "set_stream_info_cmd">>,
    <<"get_cmd", "stream_info", "get_stream_info_cmd">>,
    <<"set_cmd", "sampling_rate", "set_sampling_rate_cmd">>,
    <<"get_cmd", "sampling_rate", "get_sampling_rate_cmd">>,
    <<"set_cmd", "clock_source", "set_clock_source_cmd">>,
    <<"get_cmd", "clock_source", "get_clock_source_cmd">>},
  fmts |->
   [set_stream_format_cmd |-> <<"set_stream_format_fmt">>,
    get_stream_format_cmd |-> <<"get_stream_format_fmt">>,
    set_stream_info_cmd |-> <<"set_stream_info_fmt">>,
    get_stream_info_cmd |-> <<"get_stream_info_fmt">>,
    set_sampling_rate_cmd |-> <<"set_sampling_rate_fmt">>,
    get_sampling_rate_cmd |-> <<"get_sampling_rate_fmt">>,
    set_clock_source_cmd |-> <<"set_clock_source_fmt">>,
    get_clock_source_cmd |-> <<"get_clock_source_fmt">>],
  calls |->
   [set_stream_format_fmt |-> Format("cmd_set_stream_format", <<Str, Num, Str>>),
    get_stream_format_fmt |-> Format("cmd_get_stream_format", <<Str, Num>>),
    set_stream_info_fmt |-> Format("cmd_set_stream_info", <<Str, Num, Str, Str>>),
    get_stream_info_fmt |-> Format("cmd_get_stream_info", <<Str, Num>>),
    set_sampling_rate_fmt |-> Format("cmd_set_sampling_rate", <<Str, Num, Num>>),
    get_sampling_rate_fmt |-> Format("cmd_get_sampling_rate", <<Str, Num>>),
    set_clock_source_fmt |-> Format("cmd_set_clock_source", <<Str, Num, Num>>),
    get_clock_source_fmt |-> Format("cmd_get_clock_source", <<Str, Num>>)]]

\* "stop" is given start_cmd; stop_cmd hangs nowhere.
StartToUpgrade == [
  subs |->
   {<<"commands", "start", "start_cmd">>,
    <<"start_cmd", "streaming", "start_streaming_cmd">>,
    <<"commands", "stop", "start_cmd">>,
    <<"stop_cmd", "streaming", "stop_streaming_cmd">>,
    <<"commands", "identify", "identify_cmd">>,
    <<"identify_cmd", "on", "identify_on_cmd">>,
    <<"identify_cmd", "off", "identify_off_cmd">>,
    <<"commands", "path", "path_cmd">>,
    <<"commands", "clr", "clr_cmd">>,
    <<"commands", "quit", "quit_cmd">>,
    <<"commands", "q", "quit_cmd">>,
    <<"commands", "param", "param_cmd">>,
    <<"commands", "upgrade", "upgrade_cmd">>},
  fmts |->
   [start_streaming_cmd |-> <<"start_streaming_fmt">>,
    stop_streaming_cmd |-> <<"stop_streaming_fmt">>,
    identify_on_cmd |-> <<"identify_on_fmt">>,
    identify_off_cmd |-> <<"identify_off_fmt">>,
    path_cmd |-> <<"set_path_fmt", "show_path_fmt">>,
    clr_cmd |-> <<"clr_fmt">>,
    quit_cmd |-> <<"quit_fmt">>,
    param_cmd |-> <<"param_fmt">>,
    upgrade_cmd |-> <<"upgrade_cmd_fmt">>],
  calls |->
   [start_streaming_fmt |-> Format("cmd_start_streaming", <<Str, Num>>),
    stop_streaming_fmt |-> Format("cmd_stop_streaming", <<Str, Num>>),
    identify_on_fmt |-> Format("cmd_identify_on", <<ES>>),
    identify_off_fmt |-> Format("cmd_identify_off", <<ES>>),
    set_path_fmt |-> Format("cmd_set_path", <<Str>>),
    show_path_fmt |-> Format("cmd_show_path", <<>>),
    clr_fmt |-> Format("cmd_clr", <<>>),
    quit_fmt |-> Format("cmd_quit", <<>>),
    param_fmt |-> Format("cmd_connect_rx", <<ES, Num, Num, Str, Num>>),
    upgrade_cmd_fmt |-> Format("cmd_firmware_upgrade", <<Str>>)]]

SubCommands ==
  HelpToLog.subs \cup ViewToDisconnect.subs \cup GetRxTx.subs
    \cup EntityToRead.subs \cup SetGet.subs \cup StartToUpgrade.subs

\* Two tables as one.
Merged(f, g) ==
  [x \in DOMAIN f \cup DOMAIN g |-> IF x \in DOMAIN f THEN f[x] ELSE g[x]]

NodeFormats ==
  Merged(HelpToLog.fmts, Merged(ViewToDisconnect.fmts, Merged(GetRxTx.fmts,
    Merged(EntityToRead.fmts, Merged(SetGet.fmts, StartToUpgrade.fmts)))))
Formats ==
  Merged(HelpToLog.calls, Merged(ViewToDisconnect.calls, Merged(GetRxTx.calls,
    Merged(EntityToRead.calls, Merged(SetGet.calls, StartToUpgrade.calls)))))

Nodes == {"commands"} \cup {sub[3] : sub \in SubCommands}

FormatsOf(node) == IF node \in DOMAIN NodeFormats THEN NodeFormats[node] ELSE <<>>
get_sub_command_names(node) == {sub[2] : sub \in {s \in SubCommands : s[1] = node}}
sub_command(node, name) ==
  (CHOOSE sub \in SubCommands : sub[1] = node /\ sub[2] = name)[3]

\* What each handler asks of its arguments, in order; the others read none.
Reads ==
 [cmd_help_one |-> <<"all_str">>,
  cmd_select |-> <<"uint", "int", "int">>,
  cmd_log_level |-> <<"int">>,
  cmd_log |-> <<"str">>,
  cmd_view_details |-> <<"uint">>,
  cmd_view_descriptor |-> <<"str", "int">>,
  cmd_read_descriptor |-> <<"str", "int">>,
  cmd_connect_dst |-> <<"uint", "int">>,
  cmd_connect_rx |-> <<"uint", "int", "uint", "int", "all_str">>,
  cmd_disconnect_rx |-> <<"uint", "int", "uint", "int">>,
  cmd_get_tx_state |-> <<"uint", "int">>,
  cmd_get_rx_state |-> <<"uint", "int">>,
  cmd_get_tx_connection |-> <<"uint", "int">>,
  cmd_acquire_entity |-> <<"str", "str", "int">>,
  cmd_lock_entity |-> <<"str", "str">>,
  cmd_set_stream_format |-> <<"str", "int", "str">>,
  cmd_get_stream_format |-> <<"str", "int">>,
  cmd_set_stream_info |-> <<"str", "int", "str", "str">>,
  cmd_get_stream_info |-> <<"str", "int">>,
  cmd_set_sampling_rate |-> <<"str", "int", "int">>,
  cmd_get_sampling_rate |-> <<"str", "int">>,
  cmd_set_clock_source |-> <<"str", "int", "int">>,
  cmd_get_clock_source |-> <<"str", "int">>,
  cmd_start_streaming |-> <<"str", "int">>,
  cmd_stop_streaming |-> <<"str", "int">>,
  cmd_firmware_upgrade |-> <<"str">>,
  cmd_identify_on |-> <<"uint">>,
  cmd_identify_off |-> <<"uint">>,
  cmd_set_path |-> <<"str">>]

ReadsOf(action) == IF action \in DOMAIN Reads THEN Reads[action] ELSE <<>>
-----------------------------------------------------------------------------
(***************************************************************************)
(* cli_command_format::run_command.  The state of its first loop: the      *)
(* argument being matched, how many words it took, the words left.         *)
(***************************************************************************)
\* Mutants: the values of the last line are kept; too few words are accepted.
clear_args_skipped(args, vals) == vals
NoneLeftOver_dropped(args, m) == TRUE

clear_args(args, vals) == [i \in DOMAIN args |-> <<>>]

\* Arguments from the one reached on that are not optional have their values.
NoneLeftOver(args, m) ==
  \A i \in DOMAIN args : i >= m.i => args[i].match_min <= Len(m.vals[i])

\* One turn of the first loop, nothing once the loop is left.
NextArgument(m) == [m EXCEPT !.i = m.i + 1, !.count = 0]

MatchWord(args, m) ==
  LET arg   == args[m.i]
      taken == [m EXCEPT !.vals = [m.vals EXCEPT ![m.i] = Append(m.vals[m.i], Head(m.words))],
                         !.words = Tail(m.words), !.count = m.count + 1]
  IN  IF m.words = <<>> \/ m.i > Len(args) \/ ~m.ok THEN m
      ELSE IF set_value(arg, m.vals[m.i], Head(m.words))
      THEN IF arg.match_max # UINT_MAX /\ taken.count >= arg.match_max
           THEN NextArgument(taken)
           ELSE taken
      ELSE IF m.count >= arg.match_min THEN NextArgument(m)
      ELSE [m EXCEPT !.ok = FALSE]

MatchStart(args, vals, words) ==
  [i |-> 1, count |-> 0, words |-> words, ok |-> TRUE, vals |-> clear_args(args, vals)]

\* The whole loop: each turn takes a word, leaves an argument or gives up.
MatchWords(args, start) ==
  LET turns == Len(args) + Len(start.words)
      loop[n \in 0 .. turns] == IF n = 0 THEN start ELSE MatchWord(args, loop[n - 1])
  IN  loop[turns]

\* The arguments' values afterwards, and whether the format matched.
format_run_command(args, vals, words) ==
  LET m == MatchWords(args, MatchStart(args, vals, words))
  IN  [vals |-> m.vals, ok |-> m.ok /\ m.words = <<>> /\ NoneLeftOver(args, m)]

(***************************************************************************)
(* cli_command::run_command: the outcome is the format that matched, the   *)
(* help of a leaf, or nothing.                                             *)
(***************************************************************************)
NoMatch(vals)  == [handled |-> FALSE, fmt |-> "none", vals |-> vals]
LeafHelp(vals) == [handled |-> TRUE, fmt |-> "none", vals |-> vals]

\* One turn of the loop over the formats, nothing once one has matched.
TryFormat(f, words, tried) ==
  LET r == format_run_command(Formats[f].args, tried.vals[f], words)
  IN  IF tried.handled THEN tried
      ELSE [handled |-> r.ok, fmt |-> IF r.ok THEN f ELSE "none",
            vals |-> [tried.vals EXCEPT ![f] = r.vals]]

TryFormats(fmts, words, vals) ==
  LET try[n \in 0 .. Len(fmts)] ==
        IF n = 0 THEN NoMatch(vals) ELSE TryFormat(fmts[n], words, try[n - 1])
  IN  try[Len(fmts)]

\* What a node makes of the words left, given what its sub-command made of them.
run_formats(node, words, sub) ==
  LET own == TryFormats(FormatsOf(node), words, sub.vals)
  IN  IF sub.handled THEN sub
      ELSE IF own.handled \/ FormatsOf(node) = <<>> THEN own
      ELSE LeafHelp(own.vals)

run_command(node, words, vals) ==
  LET run[at \in Nodes \X Suffixes(words)] ==
        IF at[2] # <<>> /\ Head(at[2]) \in get_sub_command_names(at[1])
        THEN run_formats(at[1], Tail(at[2]),
                         run[<<sub_command(at[1], Head(at[2])), Tail(at[2])>>])
        ELSE run_formats(at[1], at[2], NoMatch(vals))
  IN  run[<<node, words>>]

\* cli_command::print_help_all with unlimited depth: the paths of the leaves.
print_help_all[at \in Nodes \X Seq(STRING)] ==
  IF get_sub_command_names(at[1]) = {} THEN {at[2]}
  ELSE UNION {print_help_all[<<sub_command(at[1], name), Append(at[2], name)>>] :
                name \in get_sub_command_names(at[1])}

ListedCommands == print_help_all[<<"commands", <<>>>>]

\* cli_command::get_sub_command: the node a path leads to ("none": nowhere)
\* and the words left.
SubCommandStep(at) ==
  IF at.words = <<>> THEN at
  ELSE IF Head(at.words) = "" THEN [at EXCEPT !.words = Tail(@)]
  ELSE IF get_sub_command_names(at.node) = {} THEN at
  ELSE IF Head(at.words) \in get_sub_command_names(at.node)
  THEN [node |-> sub_command(at.node, Head(at.words)), words |-> Tail(at.words)]
  ELSE [at EXCEPT !.node = "none"]

get_sub_command(node, words) ==
  LET walk[n \in 0 .. Len(words)] ==
        IF n = 0 THEN [node |-> node, words |-> words] ELSE SubCommandStep(walk[n - 1])
  IN  walk[Len(words)]

\* Mutant: the argument after the one being completed.
command_completer_next(words) ==
  LET at == get_sub_command("commands", words)
  IN  IF at.node = "none" THEN {}
      ELSE UNION {get_completion_options(Formats[f].args[Len(at.words) + 2]) :
                    f \in {g \in Range(FormatsOf(at.node)) :
                             Len(at.words) + 1 < Len(Formats[g].args)}}

\* command_completer and command_generator: what TAB offers after the words.
command_completer(words) ==
  LET at == get_sub_command("commands", words)
  IN  IF at.node = "none" THEN {}
      ELSE IF get_sub_command_names(at.node) # {} THEN get_sub_command_names(at.node)
      ELSE UNION {get_completion_options(Formats[f].args[Len(at.words) + 1]) :
                    f \in {g \in Range(FormatsOf(at.node)) :
                             Len(at.words) < Len(Formats[g].args)}}
-----------------------------------------------------------------------------
VARIABLES
  values,   \* m_values of the arguments of each format
  last,     \* the last line handled: its words, the format run, whether handled
  lines_typed,   \* number of lines typed
  done      \* the application has left its loop

treeVars == <<values, last, lines_typed, done>>

NothingTyped == [words |-> <<>>, fmt |-> "none", handled |-> TRUE]

TreeInit ==
  /\ values = [f \in DOMAIN Formats |-> [i \in DOMAIN Formats[f].args |-> <<>>]]
  /\ last = NothingTyped
  /\ lines_typed = 0
  /\ done = FALSE

\* main: the line is cut at its blanks and the empty pieces are dropped.
input_argv(line) ==
  FlattenSeq([n \in DOMAIN line |-> IF line[n] = "" THEN <<>> ELSE <<line[n]>>])

\* cmd_line::handle.  An empty line is not handled.
handle(line) ==
  /\ ~done
  /\ lines_typed < MaxTreeLines
  /\ line # <<>>
  /\ \E r \in {run_command("commands", input_argv(line), values)} :
       /\ values' = r.vals
       /\ last' = [words |-> input_argv(line), fmt |-> r.fmt, handled |-> r.handled]
       /\ done' = (r.fmt # "none" /\ Formats[r.fmt].action = "cmd_quit")
  /\ lines_typed' = lines_typed + 1

TreeNext == \E line \in TreeLines : handle(line)

TreeSpec == TreeInit /\ [][TreeNext]_treeVars
-----------------------------------------------------------------------------
\* The values a handler is given are the words of this line and all of them,
\* in order: nothing is left from a line typed before, also when the format
\* hangs below two nodes or a sub-command was tried first.
FreshArguments ==
  last.fmt # "none" => IsSuffix(FlattenSeq(values[last.fmt]), last.words)

\* Each accessor a handler calls suits the argument it calls it on and finds
\* as many values as it asserts, for every line but those of "param".
AccessorsFit ==
  LET f == Formats[last.fmt]
  IN  (last.fmt \notin {"none", "param_fmt"}) =>
        \A i \in DOMAIN ReadsOf(f.action) :
          AccessorHolds(ReadsOf(f.action)[i], f.args[i], values[last.fmt][i])

\* Some format of the node takes all the words, be more needed or not.
Takes(node, words) ==
  \E f \in Range(FormatsOf(node)) :
    LET args == Formats[f].args
        m == MatchWords(args, MatchStart(args, values[f], words))
    IN  m.ok /\ m.words = <<>>

\* The completer's own walk of the tree agrees with the search that runs
\* commands: wherever the user presses TAB in a line without double blanks, a
\* value offered for an argument is one that some format takes there, given
\* that it takes the words before.
OffersAreTaken ==
  lines_typed > 0 => \A n \in 0 .. Len(last.words) :
    LET words == SubSeq(last.words, 1, n)
        at    == get_sub_command("commands", words)
    IN  (get_sub_command_names(at.node) = {} /\ Takes(at.node, at.words))
          => \A word \in command_completer(words) : Takes(at.node, Append(at.words, word))
=============================================================================
