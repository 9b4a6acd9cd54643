------------------------ MODULE DescriptorCommands ------------------------
(***************************************************************************)
(* The commands of the descriptors and of the end station, and what the    *)
(* library keeps of their responses.                                       *)
(*                                                                         *)
(* A send_..._cmd builds a frame and queues it; the caller waits (see      *)
(* SystemLayer2) and then asks the descriptor for the result.  A response  *)
(* is dispatched by its command type to proc_..._resp of the descriptor it *)
(* names, which keeps the whole response in a buffer of the descriptor,    *)
(* takes the command out of the commands in flight and, after a successful *)
(* SET, updates the descriptor.  The getters read the buffers and the      *)
(* descriptor, whenever they are called.                                   *)
(*                                                                         *)
(* One end station with one descriptor of each kind in the current         *)
(* configuration.  Commands have numbers for sequence ids; a command that  *)
(* is sent again may be carried out and answered again, and an answer may  *)
(* come late (AecpController, AcmpController).  A command of no interest   *)
(* beyond its end has the value 0.                                         *)
(***************************************************************************)
EXTENDS Naturals, Sequences, FiniteSets

CONSTANTS
  Calls,           \* <<kind, call>>: the calls the application makes
  Values,          \* what can be set
  MaxCmds,         \* bound on the calls
  MaxChanges,      \* bound on the changes made by others
  MaxReads,        \* bound on the repeated responses to READ_DESCRIPTOR
  MaxReenumerate   \* bound on the re-enumerations

\* The calls that send a command, through each kind of descriptor, the entity and
\* the end station.
Streams == {"STREAM_INPUT", "STREAM_OUTPUT"}
AllCalls ==
  (Streams \X {"SET_STREAM_FORMAT", "GET_STREAM_FORMAT", "SET_STREAM_INFO",
               "GET_STREAM_INFO", "START_STREAMING", "STOP_STREAMING",
               "ACQUIRE_ENTITY"})
  \cup ({"STREAM_INPUT"} \X {"CONNECT_RX", "DISCONNECT_RX", "GET_RX_STATE"})
  \cup ({"STREAM_OUTPUT"} \X {"GET_TX_STATE", "GET_TX_CONNECTION"})
  \cup ({"AUDIO_UNIT"} \X {"SET_SAMPLING_RATE", "GET_SAMPLING_RATE"})
  \cup ({"CLOCK_DOMAIN"} \X {"SET_CLOCK_SOURCE", "GET_CLOCK_SOURCE"})
  \cup ({"MEMORY_OBJECT"} \X {"START_OPERATION"})
  \cup ({"ENTITY"} \X {"ACQUIRE_ENTITY", "LOCK_ENTITY", "REBOOT"})
  \cup ({"END_STATION"} \X {"ENTITY_AVAILABLE", "CONTROLLER_AVAILABLE",
                            "SET_CONTROL", "ADDRESS_ACCESS"})

ASSUME CommandAssumption ==
  /\ Calls \subseteq AllCalls
  /\ Values \subseteq Nat \ {0} /\ 1 \in Values
  /\ {MaxCmds, MaxChanges, MaxReads, MaxReenumerate} \subseteq Nat

VARIABLES
  device,       \* the end station: the value of each field
  had,          \* the values each field has had
  requests,     \* number of a command -> times it may still be carried out
  replies,      \* responses on the network
  read,         \* descriptors read: 0 none, 1 entity, 2 configuration, 3 all
  current,      \* the descriptors' own fields
  buffers,      \* the responses kept by the descriptors
  generation,   \* how often the descriptor of a kind was deleted
  cmds,         \* the commands, with the status the caller is told
  app,          \* the application thread
  changes, reads, reenumerated,
  failed        \* what went wrong in the library

deviceVars == <<device, had, requests, replies, changes>>
descVars   == <<read, current, buffers, generation, reads, reenumerated>>
cmdVars    == <<deviceVars, descVars, cmds, app, failed>>

\* A frame on the wire: the command it really is, the descriptor, the value.
Frame(wire, kind, value) == [wire |-> wire, kind |-> kind, value |-> value]
Nothing == Frame("none", "none", 0)

\* What a handler of a response does: the status it hands on, the buffer it
\* fills, whether the response is taken for the descriptor's own field, and
\* the descriptors it relies on.
Completes(status, buffer, updates) ==
  [completes |-> TRUE, status |-> status, buffer |-> buffer,
   updates |-> updates, needs |-> 0]
Keeps(r, buffer) == Completes(r.status, buffer, FALSE)
Ignored == [completes |-> FALSE, status |-> "none", buffer |-> "none",
            updates |-> FALSE, needs |-> 0]
-----------------------------------------------------------------------------
(***************************************************************************)
(* Commands of an input stream.                                            *)
(***************************************************************************)
input_send_set_stream_format_cmd(v) == Frame("SET_STREAM_FORMAT", "STREAM_INPUT", v)

\* Mutant: the status is not looked at.
input_proc_set_stream_format_resp_any(r) ==
  Completes(r.status, "set_stream_format", TRUE)
input_proc_set_stream_format_resp(r) ==
  Completes(r.status, "set_stream_format", r.status = "success")

input_send_get_stream_format_cmd == Frame("GET_STREAM_FORMAT", "STREAM_INPUT", 0)
input_proc_get_stream_format_resp(r) == Keeps(r, "get_stream_format")

\* Not implemented: only logs.
input_send_set_stream_info_cmd == Nothing
input_proc_set_stream_info_resp(r) == Ignored

input_send_get_stream_info_cmd == Frame("GET_STREAM_INFO", "STREAM_INPUT", 0)
input_proc_get_stream_info_resp(r) == Keeps(r, "get_stream_info")

input_send_start_streaming_cmd == Frame("START_STREAMING", "STREAM_INPUT", 1)
input_proc_start_streaming_resp(r) == Keeps(r, "none")
input_send_stop_streaming_cmd == Frame("STOP_STREAMING", "STREAM_INPUT", 2)
input_proc_stop_streaming_resp(r) == Keeps(r, "none")

send_connect_rx_cmd == Frame("CONNECT_RX", "STREAM_INPUT", 1)
proc_connect_rx_resp(r) == Keeps(r, "connect_rx")
send_disconnect_rx_cmd == Frame("DISCONNECT_RX", "STREAM_INPUT", 2)
proc_disconnect_rx_resp(r) == Keeps(r, "disconnect_rx")
send_get_rx_state_cmd == Frame("GET_RX_STATE", "STREAM_INPUT", 0)
proc_get_rx_state_resp(r) == Keeps(r, "get_rx_state")

InputSends(call, v) ==
  CASE call = "SET_STREAM_FORMAT" -> input_send_set_stream_format_cmd(v)
    [] call = "GET_STREAM_FORMAT" -> input_send_get_stream_format_cmd
    [] call = "SET_STREAM_INFO"   -> input_send_set_stream_info_cmd
    [] call = "GET_STREAM_INFO"   -> input_send_get_stream_info_cmd
    [] call = "START_STREAMING"   -> input_send_start_streaming_cmd
    [] call = "STOP_STREAMING"    -> input_send_stop_streaming_cmd
    [] call = "CONNECT_RX"        -> send_connect_rx_cmd
    [] call = "DISCONNECT_RX"     -> send_disconnect_rx_cmd
    [] call = "GET_RX_STATE"      -> send_get_rx_state_cmd
-----------------------------------------------------------------------------
(***************************************************************************)
(* Commands of an output stream.                                           *)
(***************************************************************************)
\* The command type filled in is that of the GET.
output_send_set_stream_format_cmd(v) == Frame("GET_STREAM_FORMAT", "STREAM_OUTPUT", v)
output_proc_set_stream_format_resp(r) ==
  Completes(r.status, "set_stream_format", r.status = "success")

output_send_get_stream_format_cmd == Frame("GET_STREAM_FORMAT", "STREAM_OUTPUT", 0)
output_proc_get_stream_format_resp(r) == Keeps(r, "get_stream_format")

send_set_stream_info_vlan_id_cmd(v) == Frame("SET_STREAM_INFO", "STREAM_OUTPUT", v)
output_proc_set_stream_info_resp(r) == Keeps(r, "set_stream_info")

output_send_get_stream_info_cmd == Frame("GET_STREAM_INFO", "STREAM_OUTPUT", 0)

\* Mutant: the response is kept in the buffer of another command.
output_proc_get_stream_info_resp_other(r) == Keeps(r, "set_stream_info")
output_proc_get_stream_info_resp(r) == Keeps(r, "get_stream_info")

output_send_start_streaming_cmd == Frame("START_STREAMING", "STREAM_OUTPUT", 1)
output_proc_start_streaming_resp(r) == Keeps(r, "none")
output_send_stop_streaming_cmd == Frame("STOP_STREAMING", "STREAM_OUTPUT", 2)
output_proc_stop_streaming_resp(r) == Keeps(r, "none")

send_get_tx_state_cmd == Frame("GET_TX_STATE", "STREAM_OUTPUT", 0)
proc_get_tx_state_resp(r) == Keeps(r, "get_tx_state")
send_get_tx_connection_cmd == Frame("GET_TX_CONNECTION", "STREAM_OUTPUT", 0)
proc_get_tx_connection_resp(r) == Keeps(r, "get_tx_connection")

OutputSends(call, v) ==
  CASE call = "SET_STREAM_FORMAT" -> output_send_set_stream_format_cmd(v)
    [] call = "GET_STREAM_FORMAT" -> output_send_get_stream_format_cmd
    [] call = "SET_STREAM_INFO"   -> send_set_stream_info_vlan_id_cmd(v)
    [] call = "GET_STREAM_INFO"   -> output_send_get_stream_info_cmd
    [] call = "START_STREAMING"   -> output_send_start_streaming_cmd
    [] call = "STOP_STREAMING"    -> output_send_stop_streaming_cmd
    [] call = "GET_TX_STATE"      -> send_get_tx_state_cmd
    [] call = "GET_TX_CONNECTION" -> send_get_tx_connection_cmd
-----------------------------------------------------------------------------
(***************************************************************************)
(* Commands of an audio unit, a clock domain, a memory object, the entity  *)
(* and the end station.                                                    *)
(***************************************************************************)
send_set_sampling_rate_cmd(v) == Frame("SET_SAMPLING_RATE", "AUDIO_UNIT", v)
proc_set_sampling_rate_resp(r) ==
  Completes(r.status, "set_sampling_rate", r.status = "success")
send_get_sampling_rate_cmd == Frame("GET_SAMPLING_RATE", "AUDIO_UNIT", 0)
proc_get_sampling_rate_resp(r) == Keeps(r, "get_sampling_rate")

\* Mutant: the command type of the GET.
send_set_clock_source_cmd_get(v) == Frame("GET_CLOCK_SOURCE", "CLOCK_DOMAIN", v)
send_set_clock_source_cmd(v) == Frame("SET_CLOCK_SOURCE", "CLOCK_DOMAIN", v)
proc_set_clock_source_resp(r) ==
  Completes(r.status, "set_clock_source", r.status = "success")
send_get_clock_source_cmd == Frame("GET_CLOCK_SOURCE", "CLOCK_DOMAIN", 0)
proc_get_clock_source_resp(r) == Keeps(r, "get_clock_source")

\* START_OPERATION; the operation goes on in AecpController.
start_operation_cmd == Frame("START_OPERATION", "MEMORY_OBJECT", 0)
proc_start_operation_resp(r) == Keeps(r, "none")

\* descriptor_base_imp: a descriptor that overrides nothing only logs.
base_send_acquire_entity_cmd == Nothing
base_proc_acquire_entity_resp(r) == Ignored
base_proc_lock_entity_resp(r) == Ignored

default_send_acquire_entity_cmd(v) == Frame("ACQUIRE_ENTITY", "ENTITY", v)
default_proc_acquire_entity_resp(r) == Keeps(r, "acquire_entity")
default_send_lock_entity_cmd(v) == Frame("LOCK_ENTITY", "ENTITY", v)
default_proc_lock_entity_resp(r) == Keeps(r, "lock_entity")
default_send_reboot_cmd == Frame("REBOOT", "ENTITY", 0)
default_proc_reboot_resp(r) == Keeps(r, "reboot")

send_entity_avail_cmd == Frame("ENTITY_AVAILABLE", "END_STATION", 0)
proc_entity_avail_resp(r) == Keeps(r, "none")
send_controller_avail_cmd == Frame("CONTROLLER_AVAILABLE", "END_STATION", 0)
proc_controller_avail_resp(r) == Keeps(r, "none")
send_identify(v) == Frame("SET_CONTROL", "END_STATION", v)
\* The status of the response is not handed on: the caller is told -1.
proc_set_control_resp(r) == Completes("unset", "none", FALSE)
send_aecp_address_access_cmd == Frame("ADDRESS_ACCESS", "END_STATION", 0)
proc_rcvd_aecp_aa_resp(r) == Keeps(r, "none")

\* What a call puts on the wire.
Sends(kind, call, v) ==
  CASE kind = "STREAM_INPUT" /\ call # "ACQUIRE_ENTITY" -> InputSends(call, v)
    [] kind = "STREAM_OUTPUT" /\ call # "ACQUIRE_ENTITY" -> OutputSends(call, v)
    [] kind # "ENTITY" /\ call = "ACQUIRE_ENTITY" -> base_send_acquire_entity_cmd
    [] kind = "ENTITY" /\ call = "ACQUIRE_ENTITY" -> default_send_acquire_entity_cmd(v)
    [] call = "SET_SAMPLING_RATE" -> send_set_sampling_rate_cmd(v)
    [] call = "GET_SAMPLING_RATE" -> send_get_sampling_rate_cmd
    [] call = "SET_CLOCK_SOURCE"  -> send_set_clock_source_cmd(v)
    [] call = "GET_CLOCK_SOURCE"  -> send_get_clock_source_cmd
    [] call = "START_OPERATION"   -> start_operation_cmd
    [] call = "LOCK_ENTITY"       -> default_send_lock_entity_cmd(v)
    [] call = "REBOOT"            -> default_send_reboot_cmd
    [] call = "ENTITY_AVAILABLE"  -> send_entity_avail_cmd
    [] call = "CONTROLLER_AVAILABLE" -> send_controller_avail_cmd
    [] call = "SET_CONTROL"       -> send_identify(v)
    [] call = "ADDRESS_ACCESS"    -> send_aecp_address_access_cmd
-----------------------------------------------------------------------------
(***************************************************************************)
(* The dispatch of responses.                                              *)
(***************************************************************************)
OfEntity(h) == [h EXCEPT !.needs = 1]
OfDescriptor(h) == [h EXCEPT !.needs = 2]
OfStream(r, in, out) ==
  OfDescriptor(IF r.kind = "STREAM_INPUT" THEN in ELSE out)

rcvd_acquire_entity(r) ==
  IF r.kind = "ENTITY" THEN OfEntity(default_proc_acquire_entity_resp(r))
  ELSE OfDescriptor(base_proc_acquire_entity_resp(r))
rcvd_lock_entity(r) ==
  IF r.kind = "ENTITY" THEN OfEntity(default_proc_lock_entity_resp(r))
  ELSE OfDescriptor(base_proc_lock_entity_resp(r))
rcvd_set_stream_format(r) ==
  OfStream(r, input_proc_set_stream_format_resp(r), output_proc_set_stream_format_resp(r))
rcvd_get_stream_format(r) ==
  OfStream(r, input_proc_get_stream_format_resp(r), output_proc_get_stream_format_resp(r))
rcvd_set_stream_info(r) ==
  OfStream(r, input_proc_set_stream_info_resp(r), output_proc_set_stream_info_resp(r))
rcvd_get_stream_info(r) ==
  OfStream(r, input_proc_get_stream_info_resp(r), output_proc_get_stream_info_resp(r))
rcvd_set_sampling_rate(r) == OfDescriptor(proc_set_sampling_rate_resp(r))
rcvd_get_sampling_rate(r) == OfDescriptor(proc_get_sampling_rate_resp(r))
rcvd_set_clock_source(r) == OfDescriptor(proc_set_clock_source_resp(r))
rcvd_get_clock_source(r) == OfDescriptor(proc_get_clock_source_resp(r))
rcvd_start_streaming(r) ==
  OfStream(r, input_proc_start_streaming_resp(r), output_proc_start_streaming_resp(r))
rcvd_stop_streaming(r) ==
  OfStream(r, input_proc_stop_streaming_resp(r), output_proc_stop_streaming_resp(r))
rcvd_reboot(r) == OfEntity(default_proc_reboot_resp(r))
rcvd_start_operation(r) == OfDescriptor(proc_start_operation_resp(r))

\* Mutant: the descriptor of the entity is looked up first.
rcvd_entity_avail_of_entity(r) == OfEntity(proc_entity_avail_resp(r))
rcvd_entity_avail(r) == proc_entity_avail_resp(r)
rcvd_set_control(r) == proc_set_control_resp(r)

proc_rcvd_acmp_resp(r) ==
  OfDescriptor(
    CASE r.wire = "CONNECT_RX"    -> proc_connect_rx_resp(r)
      [] r.wire = "DISCONNECT_RX" -> proc_disconnect_rx_resp(r)
      [] r.wire = "GET_RX_STATE"  -> proc_get_rx_state_resp(r)
      [] r.wire = "GET_TX_STATE"  -> proc_get_tx_state_resp(r)
      [] r.wire = "GET_TX_CONNECTION" -> proc_get_tx_connection_resp(r))

proc_rcvd_aem_resp(r) ==
  CASE r.wire = "ACQUIRE_ENTITY"    -> rcvd_acquire_entity(r)
    [] r.wire = "LOCK_ENTITY"       -> rcvd_lock_entity(r)
    [] r.wire = "ENTITY_AVAILABLE"  -> rcvd_entity_avail(r)
    [] r.wire = "SET_STREAM_FORMAT" -> rcvd_set_stream_format(r)
    [] r.wire = "GET_STREAM_FORMAT" -> rcvd_get_stream_format(r)
    [] r.wire = "SET_STREAM_INFO"   -> rcvd_set_stream_info(r)
    [] r.wire = "GET_STREAM_INFO"   -> rcvd_get_stream_info(r)
    [] r.wire = "SET_SAMPLING_RATE" -> rcvd_set_sampling_rate(r)
    [] r.wire = "GET_SAMPLING_RATE" -> rcvd_get_sampling_rate(r)
    [] r.wire = "SET_CLOCK_SOURCE"  -> rcvd_set_clock_source(r)
    [] r.wire = "GET_CLOCK_SOURCE"  -> rcvd_get_clock_source(r)
    [] r.wire = "START_STREAMING"   -> rcvd_start_streaming(r)
    [] r.wire = "STOP_STREAMING"    -> rcvd_stop_streaming(r)
    [] r.wire = "REBOOT"            -> rcvd_reboot(r)
    [] r.wire = "START_OPERATION"   -> rcvd_start_operation(r)
    [] r.wire = "SET_CONTROL"       -> rcvd_set_control(r)

\* rx_packet_event: which dispatch a response is given to.
Handles(r) ==
  CASE r.wire = "CONTROLLER_AVAILABLE" -> proc_controller_avail_resp(r)
    [] r.wire = "ADDRESS_ACCESS" -> proc_rcvd_aecp_aa_resp(r)
    [] r.wire \in {"CONNECT_RX", "DISCONNECT_RX", "GET_RX_STATE", "GET_TX_STATE",
                   "GET_TX_CONNECTION"} -> proc_rcvd_acmp_resp(r)
    [] OTHER -> proc_rcvd_aem_resp(r)
-----------------------------------------------------------------------------
(***************************************************************************)
(* Fields of the device, and which of them a descriptor keeps.             *)
(***************************************************************************)
FieldOf(call) ==
  CASE call \in {"SET_STREAM_FORMAT", "GET_STREAM_FORMAT"} -> "format"
    [] call \in {"SET_STREAM_INFO", "GET_STREAM_INFO"}     -> "info"
    [] call \in {"START_STREAMING", "STOP_STREAMING"}      -> "streaming"
    [] call \in {"CONNECT_RX", "DISCONNECT_RX", "GET_RX_STATE",
                 "GET_TX_STATE", "GET_TX_CONNECTION"}      -> "connection"
    [] call \in {"SET_SAMPLING_RATE", "GET_SAMPLING_RATE"} -> "rate"
    [] call \in {"SET_CLOCK_SOURCE", "GET_CLOCK_SOURCE"}   -> "source"
    [] call = "ACQUIRE_ENTITY" -> "owner"
    [] call = "LOCK_ENTITY"    -> "lock"
    [] call = "SET_CONTROL"    -> "identify"
    [] OTHER -> "nothing"

Sets == {"SET_STREAM_FORMAT", "SET_STREAM_INFO", "START_STREAMING",
         "STOP_STREAMING", "CONNECT_RX", "DISCONNECT_RX", "SET_SAMPLING_RATE",
         "SET_CLOCK_SOURCE", "ACQUIRE_ENTITY", "LOCK_ENTITY", "SET_CONTROL"}
Fields == {<<c[1], FieldOf(c[2])>> : c \in Calls}
Current == {f \in Fields : f[2] \in {"format", "rate", "source"}}

\* The getter that belongs to a call reads this buffer.
BufferOf(call) ==
  CASE call = "SET_STREAM_FORMAT" -> "set_stream_format"
    [] call = "GET_STREAM_FORMAT" -> "get_stream_format"
    [] call = "GET_STREAM_INFO"   -> "get_stream_info"
    [] call = "GET_RX_STATE"      -> "get_rx_state"
    [] call = "GET_TX_STATE"      -> "get_tx_state"
    [] call = "GET_TX_CONNECTION" -> "get_tx_connection"
    [] call = "SET_SAMPLING_RATE" -> "set_sampling_rate"
    [] call = "GET_SAMPLING_RATE" -> "get_sampling_rate"
    [] call = "SET_CLOCK_SOURCE"  -> "set_clock_source"
    [] call = "GET_CLOCK_SOURCE"  -> "get_clock_source"
    [] call = "ACQUIRE_ENTITY"    -> "acquire_entity"
    [] call = "LOCK_ENTITY"       -> "lock_entity"
    [] OTHER -> "none"
Buffers == {<<c[1], BufferOf(c[2])>> : c \in Calls} \cup
           {<<"STREAM_INPUT", "connect_rx">>, <<"STREAM_INPUT", "disconnect_rx">>,
            <<"STREAM_OUTPUT", "set_stream_info">>, <<"ENTITY", "reboot">>}

Args(call) ==
  IF call \in Sets \ {"START_STREAMING", "STOP_STREAMING", "CONNECT_RX", "DISCONNECT_RX"}
  THEN Values ELSE {0}

\* Calls through the descriptors, the entity and the end station.
Kinds == {c[1] : c \in Calls}
OfConfiguration == Kinds \ {"END_STATION", "ENTITY"}
Needs(kind) == CASE kind = "END_STATION" -> 0 [] kind = "ENTITY" -> 1 [] OTHER -> 3
-----------------------------------------------------------------------------
NoneShown == [n |-> 0, status |-> "none", value |-> 0, current |-> 0]

\* A call: the frame is queued and the thread held, unless nothing is sent.
Call(kind, call, v) ==
  /\ app.pc = "idle" /\ failed = "no"
  /\ Len(cmds) < MaxCmds
  /\ read >= Needs(kind)
  /\ LET frame == Sends(kind, call, v)
     IN  IF frame = Nothing
         THEN /\ app' = [app EXCEPT !.shown = NoneShown]
              /\ UNCHANGED <<cmds, requests>>
         ELSE /\ cmds' = Append(cmds, [kind |-> kind, call |-> call, value |-> v,
                                       frame |-> frame, status |-> "pending", resent |-> FALSE,
                                       seen |-> {device[<<kind, FieldOf(call)>>]}])
              /\ requests' = Append(requests, 1)
              /\ app' = [pc |-> "waiting", generation |-> generation[kind],
                         shown |-> NoneShown]
  /\ UNCHANGED <<device, had, replies, changes, descVars, failed>>

\* The wait is over: the results are asked for through the same pointer.
Report ==
  /\ app.pc = "waiting" /\ failed = "no"
  /\ LET n == Len(cmds)
         c == cmds[n]
         key == <<c.kind, BufferOf(c.call)>>
         f   == <<c.kind, FieldOf(c.call)>>
     IN  /\ c.status # "pending"
         /\ IF app.generation # generation[c.kind]
            THEN /\ failed' = "deleted"
                 /\ UNCHANGED app
            ELSE /\ app' = [app EXCEPT !.pc = "idle",
                              !.shown = [n |-> n, status |-> c.status,
                                value |-> buffers[key],
                                current |-> IF f \in Current THEN current[f] ELSE 0]]
                 /\ UNCHANGED failed
  /\ UNCHANGED <<deviceVars, descVars, cmds>>

\* The field has a new value; what is asked for meanwhile may see it.
SetField(f, v) ==
  /\ device' = [device EXCEPT ![f] = v]
  /\ had' = [had EXCEPT ![f] = @ \cup {v}]
  /\ cmds' = [n \in DOMAIN cmds |->
                IF <<cmds[n].kind, FieldOf(cmds[n].call)>> = f
                   /\ cmds[n].status = "pending"
                THEN [cmds[n] EXCEPT !.seen = @ \cup {v}] ELSE cmds[n]]

\* The end station carries a command out, or refuses to, and answers.  A
\* refusal repeats the value that was asked for or tells the present one.
Reply(n, status, value) ==
  [n |-> n, copy |-> requests[n], wire |-> cmds[n].frame.wire,
   kind |-> cmds[n].frame.kind, status |-> status, value |-> value]
CarryOut(n) ==
  /\ requests[n] > 0
  /\ requests' = [requests EXCEPT ![n] = @ - 1]
  /\ LET frame == cmds[n].frame
         f == <<frame.kind, FieldOf(frame.wire)>>
     IN  IF frame.wire \in Sets
         THEN /\ SetField(f, frame.value)
              /\ replies' = replies \cup {Reply(n, "success", frame.value)}
         ELSE /\ replies' = replies \cup {Reply(n, "success", device[f])}
              /\ UNCHANGED <<device, had, cmds>>
  /\ UNCHANGED <<changes, descVars, app, failed>>
Refuse(n) ==
  /\ requests[n] > 0
  /\ requests' = [requests EXCEPT ![n] = @ - 1]
  /\ LET frame == cmds[n].frame
     IN  \E v \in {frame.value, device[<<frame.kind, FieldOf(frame.wire)>>]} :
           replies' = replies \cup {Reply(n, "failed", v)}
  /\ UNCHANGED <<device, had, cmds, changes, descVars, app, failed>>

\* Another controller, or the front panel.
Change(f, v) ==
  /\ changes < MaxChanges
  /\ changes' = changes + 1
  /\ device[f] # v
  /\ SetField(f, v)
  /\ UNCHANGED <<requests, replies, descVars, app, failed>>

\* A response comes in.  Without the descriptors that the dispatch relies on
\* it fails; a descriptor that is not there is only logged.
Receive(r) ==
  /\ failed = "no"
  /\ replies' = replies \ {r}
  /\ LET h == Handles(r)
         f == <<r.kind, FieldOf(r.wire)>>
     IN  IF read < h.needs
         THEN /\ failed' = "dispatch"
              /\ UNCHANGED <<current, buffers, cmds>>
         ELSE IF ~h.completes \/ (h.needs = 2 /\ read = 2)
         THEN UNCHANGED <<current, buffers, cmds, failed>>
         ELSE /\ buffers' = IF <<r.kind, h.buffer>> \in Buffers
                            THEN [buffers EXCEPT ![<<r.kind, h.buffer>>] = r.value]
                            ELSE buffers
              /\ current' = IF h.updates THEN [current EXCEPT ![f] = r.value]
                            ELSE current
              /\ cmds' = IF cmds[r.n].status = "pending"
                         THEN [cmds EXCEPT ![r.n].status = h.status] ELSE cmds
              /\ UNCHANGED failed
  /\ UNCHANGED <<device, had, requests, changes, read, generation, reads,
                 reenumerated, app>>

\* A command that is not answered in time is sent a second time, and given up
\* when that is not answered either.
Resend(n) ==
  /\ cmds[n].status = "pending" /\ ~cmds[n].resent
  /\ cmds' = [cmds EXCEPT ![n].resent = TRUE]
  /\ requests' = [requests EXCEPT ![n] = @ + 1]
  /\ UNCHANGED <<device, had, replies, changes, descVars, app, failed>>
TimeOut(n) ==
  /\ cmds[n].status = "pending" /\ cmds[n].resent
  /\ cmds' = [cmds EXCEPT ![n].status = "timeout"]
  /\ UNCHANGED <<deviceVars, descVars, app, failed>>

\* The descriptors of these kinds are made from what the device has.
Store(kinds) ==
  /\ current' = [f \in Current |-> IF f[1] \in kinds THEN device[f] ELSE current[f]]
  /\ buffers' = [b \in Buffers |-> IF b[1] \in kinds THEN 0 ELSE buffers[b]]

\* The background read.
ReadNext ==
  /\ read < 3 /\ failed = "no"
  /\ read' = read + 1
  /\ Store(CASE read = 0 -> {"ENTITY"} [] read = 1 -> {} [] read = 2 -> OfConfiguration)
  /\ UNCHANGED <<deviceVars, generation, reads, reenumerated, cmds, app, failed>>

\* A second response to READ_DESCRIPTOR: the descriptor is deleted and a new one
\* put in its place.
ReadAgain(kind) ==
  /\ read = 3 /\ failed = "no"
  /\ reads < MaxReads
  /\ reads' = reads + 1
  /\ Store({kind})
  /\ generation' = [generation EXCEPT ![kind] = @ + 1]
  /\ UNCHANGED <<deviceVars, read, reenumerated, cmds, app, failed>>

\* end_station_reenumerate: every descriptor is deleted.
Reenumerate ==
  /\ reenumerated < MaxReenumerate /\ failed = "no"
  /\ reenumerated' = reenumerated + 1
  /\ read' = 0
  /\ generation' = [k \in Kinds |-> IF read >= Needs(k) /\ k # "END_STATION"
                                    THEN generation[k] + 1 ELSE generation[k]]
  /\ UNCHANGED <<deviceVars, current, buffers, reads, cmds, app, failed>>
-----------------------------------------------------------------------------
CmdInit ==
  /\ device = [f \in Fields |-> 1]
  /\ had = [f \in Fields |-> {1}]
  /\ requests = <<>> /\ replies = {}
  /\ read = 0
  /\ current = [f \in Current |-> 0]
  /\ buffers = [b \in Buffers |-> 0]
  /\ generation = [k \in Kinds |-> 0]
  /\ cmds = <<>>
  /\ app = [pc |-> "idle", generation |-> 0, shown |-> NoneShown]
  /\ changes = 0 /\ reads = 0 /\ reenumerated = 0
  /\ failed = "no"

CmdNext ==
  \/ \E c \in Calls : \E v \in Args(c[2]) :
       Call(c[1], c[2], v)
  \/ Report
  \/ \E n \in DOMAIN cmds : CarryOut(n) \/ Refuse(n) \/ Resend(n) \/ TimeOut(n)
  \/ \E f \in Current : \E v \in Values : Change(f, v)
  \/ \E r \in replies : Receive(r)
  \/ ReadNext
  \/ \E kind \in OfConfiguration : ReadAgain(kind)
  \/ Reenumerate

CmdSpec == CmdInit /\ [][CmdNext]_cmdVars
-----------------------------------------------------------------------------
Shown == cmds[app.shown.n]
\* START, STOP, CONNECT and DISCONNECT ask for a value of their own.
Asked(c) ==
  CASE c.call \in {"START_STREAMING", "CONNECT_RX"}   -> 1
    [] c.call \in {"STOP_STREAMING", "DISCONNECT_RX"} -> 2
    [] OTHER -> c.value
NothingLate == \A n \in DOMAIN cmds : ~cmds[n].resent
NothingReread == reads + reenumerated = 0

\* What a descriptor shows as current, when it is there, is a value that the
\* device has had, although responses are refused, repeated and late.  (It need
\* not be the device's present value: a GET does not update it, nor does anything
\* another controller does.)
CurrentWasTrue ==
  read = 3 => \A f \in Current : current[f] \in had[f]

\* A result that is shown after success is one the device had between the call
\* and its answer, as long as no command had to be sent a second time and the
\* descriptors were not made anew (the answer to the other transmission, or to an
\* earlier command, could come after this one's and take its place).
ReportedIsFresh ==
  (/\ app.shown.status = "success" /\ NothingLate /\ NothingReread
   /\ BufferOf(Shown.call) # "none"
   /\ <<Shown.kind, Shown.call>> # <<"STREAM_OUTPUT", "SET_STREAM_FORMAT">>)
    => app.shown.value \in Shown.seen

\* Success of a call that sets something means that the device had the value
\* asked for after the call was made (stream_output_descriptor.h: "The new stream
\* format can be retrieved by calling the set_stream_format_stream_format function
\* after successfully receiving a response back for the SET_STREAM_FORMAT command
\* sent").
SuccessMeansSet ==
  (app.shown.status = "success" /\ Shown.call \in Sets)
    => Asked(Shown) \in Shown.seen

\* The same for every call but the one that puts a GET on the wire; and where the
\* descriptor keeps the field it shows the value, unless something came late.
SuccessMeansSetElsewhere ==
  (/\ app.shown.status = "success" /\ Shown.call \in Sets
   /\ <<Shown.kind, Shown.call>> # <<"STREAM_OUTPUT", "SET_STREAM_FORMAT">>)
    => /\ Asked(Shown) \in Shown.seen
       /\ (NothingLate /\ NothingReread /\ <<Shown.kind, FieldOf(Shown.call)>> \in Current)
            => app.shown.current = Asked(Shown)

\* The library uses a descriptor that it has deleted, or looks for one that is not
\* there, only when the descriptors were made anew under a command.
FailsOnlyWhenReread == failed # "no" => reads + reenumerated > 0
=============================================================================
