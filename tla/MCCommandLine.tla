--------------------------- MODULE MCCommandLine ---------------------------
(* Instances of CommandLine for TLC.                                        *)
EXTENDS CommandLine

\* End station 0 has everything, end station 1 is a talker only.
MCDeviceOrder ==
  [es \in EndStations |->
     IF es = 0 THEN <<{"STREAM_INPUT", "LOCALE", "STRINGS"},
                      {"STREAM_OUTPUT", "CLOCK_DOMAIN", "MEMORY_OBJECT"}>>
     ELSE <<{"STREAM_OUTPUT"}>>]

\* Handlers that read no argument, or one that makes no difference.
NoArgs == {"show_select", "list", "version", "view_media_clock", "log", "unlog",
           "set_path", "show_path", "clr", "quit", "connect", "view_all",
           "entity_avail", "reboot", "controller_avail", "show_connections"}
OnKind == {"read_descriptor", "view_descriptor", "acquire_entity", "lock_entity",
           "set_stream_format", "get_stream_format", "set_stream_info",
           "get_stream_info", "set_sampling_rate", "get_sampling_rate",
           "start_streaming", "stop_streaming"}
OnStations == {"view_details", "connect_dst", "get_rx_state", "get_tx_state",
               "get_tx_connection", "identify", "select"}

MCLines ==
  {Line(h, Args(0, "ENTITY", 0)) : h \in NoArgs \cup {"firmware_upgrade"}}
  \cup {Line(h, Args(0, k, 0)) : h \in OnKind, k \in {"STREAM_OUTPUT", "ENTITY"}}
  \cup {Line("acquire_entity", Args(0, "STREAM_INPUT", 0))}
  \cup {Line(h, Args(es, "ENTITY", 0)) : h \in OnStations, es \in {0, 1}}
  \cup {Line(h, Args(0, "CLOCK_DOMAIN", i)) : i \in {0, 1},
          h \in {"set_clock_source", "get_clock_source", "log_level"}}
  \cup {Line(h, [Args(1, "ENTITY", i) EXCEPT !.es2 = 0]) : i \in {0, 1},
          h \in {"connect_rx", "disconnect_rx"}}

\* For the run on the firmware upgrade alone.
UpgradeLines ==
  {Line(h, Args(0, "ENTITY", 0)) : h \in {"show_connections", "firmware_upgrade"}}
=============================================================================
