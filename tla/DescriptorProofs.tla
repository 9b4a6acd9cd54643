-------------------------- MODULE DescriptorProofs --------------------------
(***************************************************************************)
(* Proofs about DescriptorCommands, for any of the library's calls, any    *)
(* values, and however often is called, changed and read again.            *)
(*                                                                         *)
(* First the code's tables are brought to closed forms: what each call     *)
(* puts on the wire (SendsTable) and what each response does               *)
(* (HandlesTable).  The one call that breaks the pattern is Mistaken.      *)
(*                                                                         *)
(* The invariant is then about one command from its call to its report.    *)
(* A successful response is true of the device since the call              *)
(* (RepliesTrue); while nothing is sent twice there is one response to a   *)
(* command, and none is left when it has ended (AnsweredOnce), so that     *)
(* nothing can take the place of what it left in the buffer and in the     *)
(* descriptor before the application looks (ResultKept); and while nothing *)
(* is read again the descriptors a command went through stay (Steady).     *)
(***************************************************************************)
EXTENDS DescriptorCommands, AvdeccLemmas

\* The call that puts the command type of another on the wire, and what every
\* other call puts there, if it sends anything.
Mistaken == <<"STREAM_OUTPUT", "SET_STREAM_FORMAT">>

SentValue(call, v) ==
  IF call \in {"START_STREAMING", "CONNECT_RX"} THEN 1
  ELSE IF call \in {"STOP_STREAMING", "DISCONNECT_RX"} THEN 2
  ELSE IF call \in Sets THEN v ELSE 0

OnWire ==
  AllCalls \ ({Mistaken, <<"STREAM_INPUT", "SET_STREAM_INFO">>}
              \cup (Streams \X {"ACQUIRE_ENTITY"}))

\* What becomes of a response: the buffer filled, what is relied on.
Filled(wire) ==
  CASE wire = "CONNECT_RX"      -> "connect_rx"
    [] wire = "DISCONNECT_RX"   -> "disconnect_rx"
    [] wire = "SET_STREAM_INFO" -> "set_stream_info"
    [] wire = "REBOOT"          -> "reboot"
    [] OTHER -> BufferOf(wire)

ReliesOn(kind) == IF kind = "END_STATION" THEN 0 ELSE IF kind = "ENTITY" THEN 1 ELSE 2

\* Commands whose response updates the descriptor's own field.
Updating == {"SET_STREAM_FORMAT", "SET_SAMPLING_RATE", "SET_CLOCK_SOURCE"}

StreamCalls == {"SET_STREAM_FORMAT", "GET_STREAM_FORMAT", "SET_STREAM_INFO",
                "GET_STREAM_INFO", "START_STREAMING", "STOP_STREAMING", "ACQUIRE_ENTITY"}
InputCalls  == StreamCalls \cup {"CONNECT_RX", "DISCONNECT_RX", "GET_RX_STATE"}
OutputCalls == StreamCalls \cup {"GET_TX_STATE", "GET_TX_CONNECTION"}
-----------------------------------------------------------------------------
(***************************************************************************)
(* The tables of calls and responses.                                      *)
(***************************************************************************)
LEMMA CallsOfKinds ==
  ASSUME NEW kind, NEW call, <<kind, call>> \in AllCalls
  PROVE  \/ kind = "STREAM_INPUT" /\ call \in InputCalls
         \/ kind = "STREAM_OUTPUT" /\ call \in OutputCalls
         \/ kind = "AUDIO_UNIT" /\ call \in {"SET_SAMPLING_RATE", "GET_SAMPLING_RATE"}
         \/ kind = "CLOCK_DOMAIN" /\ call \in {"SET_CLOCK_SOURCE", "GET_CLOCK_SOURCE"}
         \/ kind = "MEMORY_OBJECT" /\ call = "START_OPERATION"
         \/ kind = "ENTITY" /\ call \in {"ACQUIRE_ENTITY", "LOCK_ENTITY", "REBOOT"}
         \/ kind = "END_STATION" /\ call \in {"ENTITY_AVAILABLE", "CONTROLLER_AVAILABLE",
                                              "SET_CONTROL", "ADDRESS_ACCESS"}
BY DEF AllCalls, Streams, InputCalls, OutputCalls, StreamCalls

LEMMA SendsTable ==
  ASSUME NEW kind, NEW call, <<kind, call>> \in AllCalls, NEW v
  PROVE  \/ Sends(kind, call, v) = Nothing
         \/ /\ <<kind, call>> = Mistaken
            /\ Sends(kind, call, v) = Frame("GET_STREAM_FORMAT", kind, v)
         \/ /\ <<kind, call>> \in OnWire
            /\ Sends(kind, call, v) = Frame(call, kind, SentValue(call, v))
<1>1. CASE kind = "STREAM_INPUT" /\ call \in InputCalls
  <2>1. CASE call = "ACQUIRE_ENTITY"
    BY <1>1, <2>1 DEF Sends, base_send_acquire_entity_cmd
  <2>2. CASE call = "SET_STREAM_INFO"
    <3>1. Sends(kind, call, v) = InputSends(call, v)
      BY <1>1, <2>2 DEF Sends
    <3> QED
      BY <2>2, <3>1 DEF InputSends, input_send_set_stream_info_cmd
  <2>3. CASE call \notin {"ACQUIRE_ENTITY", "SET_STREAM_INFO"}
    <3>1. Sends(kind, call, v) = InputSends(call, v)
      BY <1>1, <2>3 DEF Sends, InputCalls, StreamCalls
    <3>2. InputSends(call, v) = Frame(call, kind, SentValue(call, v))
      BY <1>1, <2>3 DEF InputSends, InputCalls, StreamCalls, SentValue, Sets,
        input_send_set_stream_format_cmd, input_send_get_stream_format_cmd,
        input_send_get_stream_info_cmd, input_send_start_streaming_cmd,
        input_send_stop_streaming_cmd, send_connect_rx_cmd, send_disconnect_rx_cmd,
        send_get_rx_state_cmd
    <3>3. <<kind, call>> \in OnWire
      BY <1>1, <2>3 DEF OnWire, Mistaken
    <3> QED
      BY <3>1, <3>2, <3>3
  <2> QED
    BY <2>1, <2>2, <2>3
<1>2. CASE kind = "STREAM_OUTPUT" /\ call \in OutputCalls
  <2>1. CASE call = "ACQUIRE_ENTITY"
    BY <1>2, <2>1 DEF Sends, base_send_acquire_entity_cmd
  <2>2. CASE call # "ACQUIRE_ENTITY"
    <3>1. Sends(kind, call, v) = OutputSends(call, v)
      BY <1>2, <2>2 DEF Sends, OutputCalls, StreamCalls
    <3>2. CASE call = "SET_STREAM_FORMAT"
      BY <1>2, <3>1, <3>2 DEF OutputSends, output_send_set_stream_format_cmd, Mistaken
    <3>3. CASE call # "SET_STREAM_FORMAT"
      <4>1. OutputSends(call, v) = Frame(call, kind, SentValue(call, v))
        BY <1>2, <2>2, <3>3 DEF OutputSends, OutputCalls, StreamCalls, SentValue, Sets,
          output_send_get_stream_format_cmd, send_set_stream_info_vlan_id_cmd,
          output_send_get_stream_info_cmd, output_send_start_streaming_cmd,
          output_send_stop_streaming_cmd, send_get_tx_state_cmd, send_get_tx_connection_cmd
      <4>2. <<kind, call>> \in OnWire
        BY <1>2, <2>2, <3>3 DEF OnWire, Mistaken
      <4> QED
        BY <3>1, <4>1, <4>2
    <3> QED
      BY <3>2, <3>3
  <2> QED
    BY <2>1, <2>2
<1>3. CASE kind \notin Streams
  <2>1. Sends(kind, call, v) = Frame(call, kind, SentValue(call, v))
    BY <1>3, CallsOfKinds DEF Sends, Streams, SentValue, Sets,
      default_send_acquire_entity_cmd, send_set_sampling_rate_cmd,
      send_get_sampling_rate_cmd, send_set_clock_source_cmd, send_get_clock_source_cmd,
      start_operation_cmd, default_send_lock_entity_cmd, default_send_reboot_cmd,
      send_entity_avail_cmd, send_controller_avail_cmd, send_identify,
      send_aecp_address_access_cmd
  <2>2. <<kind, call>> \in OnWire
    BY <1>3 DEF OnWire, Mistaken, Streams
  <2> QED
    BY <2>1, <2>2
<1> QED
  BY <1>1, <1>2, <1>3, CallsOfKinds DEF Streams

Handled(status, buffer, updates, needs) ==
  [completes |-> TRUE, status |-> status, buffer |-> buffer, updates |-> updates,
   needs |-> needs]

LEMMA HandledNeeds ==
  ASSUME NEW status, NEW buffer, NEW updates, NEW needs
  PROVE  [Handled(status, buffer, updates, 0) EXCEPT !.needs = needs]
           = Handled(status, buffer, updates, needs)
<1> DEFINE D == {"completes", "status", "buffer", "updates", "needs"}
<1>1. PICK h, k : h = Handled(status, buffer, updates, 0)
                  /\ k = Handled(status, buffer, updates, needs)
  OBVIOUS
<1>2. DOMAIN h = D /\ DOMAIN k = D
  BY <1>1 DEF Handled
<1>3. [h EXCEPT !.needs = needs] = [x \in D |-> IF x = "needs" THEN needs ELSE h[x]]
  BY <1>2
<1>4. k = [x \in D |-> k[x]]
  BY <1>1, <1>2 DEF Handled
<1>5. k["needs"] = needs
  BY <1>1 DEF Handled
<1>6. k["completes"] = h["completes"] /\ k["status"] = h["status"] /\ k["buffer"] = h["buffer"]
  BY <1>1 DEF Handled
<1>7. k["updates"] = h["updates"]
  BY <1>1 DEF Handled
<1>8. \A x \in D : k[x] = IF x = "needs" THEN needs ELSE h[x]
  BY <1>5, <1>6, <1>7
<1> QED
  BY <1>1, <1>3, <1>4, <1>8

LEMMA HandledForms ==
  ASSUME NEW status, NEW buffer, NEW updates
  PROVE  /\ Completes(status, buffer, updates) = Handled(status, buffer, updates, 0)
         /\ OfEntity(Completes(status, buffer, updates)) = Handled(status, buffer, updates, 1)
         /\ OfDescriptor(Completes(status, buffer, updates))
              = Handled(status, buffer, updates, 2)
<1>1. Completes(status, buffer, updates) = Handled(status, buffer, updates, 0)
  BY DEF Completes, Handled
<1> QED
  BY <1>1, HandledNeeds DEF OfEntity, OfDescriptor

\* Each response to a command of a stream.
LEMMA StreamResponses ==
  ASSUME NEW r, r.kind \in Streams
  PROVE  /\ rcvd_set_stream_format(r)
              = Handled(r.status, "set_stream_format", r.status = "success", 2)
         /\ rcvd_get_stream_format(r) = Handled(r.status, "get_stream_format", FALSE, 2)
         /\ r.kind = "STREAM_OUTPUT" =>
              rcvd_set_stream_info(r) = Handled(r.status, "set_stream_info", FALSE, 2)
         /\ rcvd_get_stream_info(r) = Handled(r.status, "get_stream_info", FALSE, 2)
         /\ rcvd_start_streaming(r) = Handled(r.status, "none", FALSE, 2)
         /\ rcvd_stop_streaming(r) = Handled(r.status, "none", FALSE, 2)
<1>1. \A in, out : OfStream(r, in, out) =
        IF r.kind = "STREAM_INPUT" THEN OfDescriptor(in) ELSE OfDescriptor(out)
  BY DEF OfStream
<1>2. rcvd_set_stream_format(r)
        = Handled(r.status, "set_stream_format", r.status = "success", 2)
  BY <1>1, HandledForms DEF rcvd_set_stream_format, input_proc_set_stream_format_resp,
    output_proc_set_stream_format_resp
<1>3. rcvd_get_stream_format(r) = Handled(r.status, "get_stream_format", FALSE, 2)
  BY <1>1, HandledForms DEF rcvd_get_stream_format, input_proc_get_stream_format_resp,
    output_proc_get_stream_format_resp, Keeps
<1>4. r.kind = "STREAM_OUTPUT" =>
        rcvd_set_stream_info(r) = Handled(r.status, "set_stream_info", FALSE, 2)
  <2> SUFFICES ASSUME r.kind = "STREAM_OUTPUT"
               PROVE  rcvd_set_stream_info(r)
                        = Handled(r.status, "set_stream_info", FALSE, 2)
    OBVIOUS
  <2>1. rcvd_set_stream_info(r) = OfDescriptor(output_proc_set_stream_info_resp(r))
    BY <1>1 DEF rcvd_set_stream_info
  <2>2. output_proc_set_stream_info_resp(r)
          = Completes(r.status, "set_stream_info", FALSE)
    BY DEF output_proc_set_stream_info_resp, Keeps
  <2> QED
    BY <2>1, <2>2, HandledForms
<1>5. rcvd_get_stream_info(r) = Handled(r.status, "get_stream_info", FALSE, 2)
  BY <1>1, HandledForms DEF rcvd_get_stream_info, input_proc_get_stream_info_resp,
    output_proc_get_stream_info_resp, Keeps
<1>6. rcvd_start_streaming(r) = Handled(r.status, "none", FALSE, 2)
  BY <1>1, HandledForms DEF rcvd_start_streaming, input_proc_start_streaming_resp,
    output_proc_start_streaming_resp, Keeps
<1>7. rcvd_stop_streaming(r) = Handled(r.status, "none", FALSE, 2)
  BY <1>1, HandledForms DEF rcvd_stop_streaming, input_proc_stop_streaming_resp,
    output_proc_stop_streaming_resp, Keeps
<1> QED
  BY <1>2, <1>3, <1>4, <1>5, <1>6, <1>7

\* Each response to another command, and each ACMP response.
LEMMA OtherResponses ==
  ASSUME NEW r
  PROVE  /\ rcvd_set_sampling_rate(r)
              = Handled(r.status, "set_sampling_rate", r.status = "success", 2)
         /\ rcvd_get_sampling_rate(r) = Handled(r.status, "get_sampling_rate", FALSE, 2)
         /\ rcvd_set_clock_source(r)
              = Handled(r.status, "set_clock_source", r.status = "success", 2)
         /\ rcvd_get_clock_source(r) = Handled(r.status, "get_clock_source", FALSE, 2)
         /\ rcvd_start_operation(r) = Handled(r.status, "none", FALSE, 2)
         /\ r.kind = "ENTITY" =>
              /\ rcvd_acquire_entity(r) = Handled(r.status, "acquire_entity", FALSE, 1)
              /\ rcvd_lock_entity(r) = Handled(r.status, "lock_entity", FALSE, 1)
         /\ rcvd_reboot(r) = Handled(r.status, "reboot", FALSE, 1)
         /\ rcvd_entity_avail(r) = Handled(r.status, "none", FALSE, 0)
         /\ rcvd_set_control(r) = Handled("unset", "none", FALSE, 0)
         /\ proc_controller_avail_resp(r) = Handled(r.status, "none", FALSE, 0)
         /\ proc_rcvd_aecp_aa_resp(r) = Handled(r.status, "none", FALSE, 0)
<1>1. /\ rcvd_set_sampling_rate(r)
           = Handled(r.status, "set_sampling_rate", r.status = "success", 2)
      /\ rcvd_get_sampling_rate(r) = Handled(r.status, "get_sampling_rate", FALSE, 2)
  BY HandledForms DEF rcvd_set_sampling_rate, rcvd_get_sampling_rate,
    proc_set_sampling_rate_resp, proc_get_sampling_rate_resp, Keeps
<1>2. /\ rcvd_set_clock_source(r)
           = Handled(r.status, "set_clock_source", r.status = "success", 2)
      /\ rcvd_get_clock_source(r) = Handled(r.status, "get_clock_source", FALSE, 2)
  BY HandledForms DEF rcvd_set_clock_source, rcvd_get_clock_source,
    proc_set_clock_source_resp, proc_get_clock_source_resp, Keeps
<1>3. rcvd_start_operation(r) = Handled(r.status, "none", FALSE, 2)
  BY HandledForms DEF rcvd_start_operation, proc_start_operation_resp, Keeps
<1>4. r.kind = "ENTITY" =>
        /\ rcvd_acquire_entity(r) = Handled(r.status, "acquire_entity", FALSE, 1)
        /\ rcvd_lock_entity(r) = Handled(r.status, "lock_entity", FALSE, 1)
  BY HandledForms DEF rcvd_acquire_entity, rcvd_lock_entity,
    default_proc_acquire_entity_resp, default_proc_lock_entity_resp, Keeps
<1>5. /\ rcvd_reboot(r) = Handled(r.status, "reboot", FALSE, 1)
      /\ rcvd_entity_avail(r) = Handled(r.status, "none", FALSE, 0)
      /\ rcvd_set_control(r) = Handled("unset", "none", FALSE, 0)
  BY HandledForms DEF rcvd_reboot, default_proc_reboot_resp, rcvd_entity_avail,
    proc_entity_avail_resp, rcvd_set_control, proc_set_control_resp, Keeps
<1>6. /\ proc_controller_avail_resp(r) = Handled(r.status, "none", FALSE, 0)
      /\ proc_rcvd_aecp_aa_resp(r) = Handled(r.status, "none", FALSE, 0)
  BY HandledForms DEF proc_controller_avail_resp, proc_rcvd_aecp_aa_resp, Keeps
<1> QED
  BY <1>1, <1>2, <1>3, <1>4, <1>5, <1>6

LEMMA AcmpResponses ==
  ASSUME NEW r
  PROVE  /\ r.wire = "CONNECT_RX" =>
              proc_rcvd_acmp_resp(r) = Handled(r.status, "connect_rx", FALSE, 2)
         /\ r.wire = "DISCONNECT_RX" =>
              proc_rcvd_acmp_resp(r) = Handled(r.status, "disconnect_rx", FALSE, 2)
         /\ r.wire = "GET_RX_STATE" =>
              proc_rcvd_acmp_resp(r) = Handled(r.status, "get_rx_state", FALSE, 2)
         /\ r.wire = "GET_TX_STATE" =>
              proc_rcvd_acmp_resp(r) = Handled(r.status, "get_tx_state", FALSE, 2)
         /\ r.wire = "GET_TX_CONNECTION" =>
              proc_rcvd_acmp_resp(r) = Handled(r.status, "get_tx_connection", FALSE, 2)
BY HandledForms DEF proc_rcvd_acmp_resp, proc_connect_rx_resp, proc_disconnect_rx_resp,
  proc_get_rx_state_resp, proc_get_tx_state_resp, proc_get_tx_connection_resp, Keeps

\* What is done with a response to a frame that a call puts on the wire.
LEMMA HandlesTable ==
  ASSUME NEW r, <<r.kind, r.wire>> \in OnWire
  PROVE  Handles(r) = Handled(IF r.wire = "SET_CONTROL" THEN "unset" ELSE r.status,
                              Filled(r.wire),
                              r.wire \in Updating /\ r.status = "success",
                              ReliesOn(r.kind))
<1>1. PICK kind, wire : kind = r.kind /\ wire = r.wire
  OBVIOUS
<1>2. <<kind, wire>> \in AllCalls /\ <<kind, wire>> \in OnWire
  BY <1>1 DEF OnWire
<1>3. CASE wire \in {"CONNECT_RX", "DISCONNECT_RX", "GET_RX_STATE", "GET_TX_STATE",
                     "GET_TX_CONNECTION"}
  <2>1. Handles(r) = proc_rcvd_acmp_resp(r)
    BY <1>1, <1>3 DEF Handles
  <2>2. kind \in Streams
    BY <1>2, <1>3, CallsOfKinds DEF Streams, InputCalls, OutputCalls, StreamCalls
  <2>3. ReliesOn(kind) = 2 /\ wire \notin Updating /\ wire # "SET_CONTROL"
    BY <1>3, <2>2 DEF ReliesOn, Streams, Updating
  <2>4. proc_rcvd_acmp_resp(r) = Handled(r.status, Filled(wire), FALSE, 2)
    BY <1>1, <1>3, AcmpResponses DEF Filled, BufferOf
  <2> QED
    BY <1>1, <2>1, <2>3, <2>4
<1>4. CASE kind \in Streams /\ wire \notin
             {"CONNECT_RX", "DISCONNECT_RX", "GET_RX_STATE", "GET_TX_STATE",
              "GET_TX_CONNECTION"}
  <2>1. wire \in {"SET_STREAM_FORMAT", "GET_STREAM_FORMAT", "SET_STREAM_INFO",
                  "GET_STREAM_INFO", "START_STREAMING", "STOP_STREAMING"}
        /\ (wire = "SET_STREAM_INFO" => kind = "STREAM_OUTPUT")
    BY <1>2, <1>4, CallsOfKinds DEF OnWire, Streams, InputCalls, OutputCalls, StreamCalls
  <2>2. Handles(r) = proc_rcvd_aem_resp(r)
    BY <1>1, <2>1 DEF Handles
  <2>3. ReliesOn(kind) = 2 /\ wire # "SET_CONTROL"
    BY <1>4, <2>1 DEF ReliesOn, Streams
  <2>4. CASE wire = "SET_STREAM_FORMAT"
    <3>1. proc_rcvd_aem_resp(r) = rcvd_set_stream_format(r)
      BY <1>1, <2>4 DEF proc_rcvd_aem_resp
    <3>2. (wire \in Updating /\ r.status = "success") = (r.status = "success")
      BY <2>4 DEF Updating
    <3>3. Filled(wire) = "set_stream_format"
      BY <2>4 DEF Filled, BufferOf
    <3> QED
      BY <1>1, <1>4, <2>2, <2>3, <3>1, <3>2, <3>3, StreamResponses
  <2>5. CASE wire # "SET_STREAM_FORMAT"
    <3>1. (wire \in Updating /\ r.status = "success") = FALSE
      BY <2>1, <2>5 DEF Updating
    <3>2. proc_rcvd_aem_resp(r) = Handled(r.status, Filled(wire), FALSE, 2)
      BY <1>1, <1>4, <2>1, <2>5, StreamResponses DEF proc_rcvd_aem_resp, Filled, BufferOf
    <3> QED
      BY <1>1, <2>2, <2>3, <3>1, <3>2
  <2> QED
    BY <2>4, <2>5
<1>5. CASE kind \notin Streams
  <2>1. \/ kind = "AUDIO_UNIT" /\ wire \in {"SET_SAMPLING_RATE", "GET_SAMPLING_RATE"}
        \/ kind = "CLOCK_DOMAIN" /\ wire \in {"SET_CLOCK_SOURCE", "GET_CLOCK_SOURCE"}
        \/ kind = "MEMORY_OBJECT" /\ wire = "START_OPERATION"
        \/ kind = "ENTITY" /\ wire \in {"ACQUIRE_ENTITY", "LOCK_ENTITY", "REBOOT"}
        \/ kind = "END_STATION" /\ wire \in {"ENTITY_AVAILABLE", "CONTROLLER_AVAILABLE",
                                             "SET_CONTROL", "ADDRESS_ACCESS"}
    BY <1>2, <1>5, CallsOfKinds DEF Streams
  <2>2. CASE wire \in {"SET_SAMPLING_RATE", "SET_CLOCK_SOURCE"}
    <3>1. Handles(r) = proc_rcvd_aem_resp(r)
      BY <1>1, <2>2 DEF Handles
    <3>2. ReliesOn(kind) = 2 /\ wire # "SET_CONTROL"
      BY <2>1, <2>2 DEF ReliesOn
    <3>3. (wire \in Updating /\ r.status = "success") = (r.status = "success")
      BY <2>2 DEF Updating
    <3>4. proc_rcvd_aem_resp(r) = Handled(r.status, Filled(wire), r.status = "success", 2)
      BY <1>1, <2>2, OtherResponses DEF proc_rcvd_aem_resp, Filled, BufferOf
    <3> QED
      BY <1>1, <3>1, <3>2, <3>3, <3>4
  <2>3. CASE wire \notin {"SET_SAMPLING_RATE", "SET_CLOCK_SOURCE"}
    <3>1. (wire \in Updating /\ r.status = "success") = FALSE
      BY <2>1, <2>3 DEF Updating
    <3>2. CASE wire \in {"CONTROLLER_AVAILABLE", "ADDRESS_ACCESS"}
      <4>1. kind = "END_STATION"
        BY <2>1, <3>2
      <4> QED
        BY <1>1, <3>1, <3>2, <4>1, OtherResponses DEF Handles, Filled, BufferOf, ReliesOn
    <3>3. CASE wire \notin {"CONTROLLER_AVAILABLE", "ADDRESS_ACCESS"}
      <4>1. Handles(r) = proc_rcvd_aem_resp(r)
        BY <1>1, <2>1, <3>3 DEF Handles
      <4>2. proc_rcvd_aem_resp(r)
              = Handled(IF wire = "SET_CONTROL" THEN "unset" ELSE r.status, Filled(wire),
                        FALSE, ReliesOn(kind))
        BY <1>1, <2>1, <2>3, <3>3, OtherResponses
        DEF proc_rcvd_aem_resp, Filled, BufferOf, ReliesOn
      <4> QED
        BY <1>1, <3>1, <4>1, <4>2
    <3> QED
      BY <3>2, <3>3
  <2> QED
    BY <2>2, <2>3
<1> QED
  BY <1>3, <1>4, <1>5
-----------------------------------------------------------------------------
(***************************************************************************)
(* The invariant.                                                          *)
(***************************************************************************)
Statuses == {"none", "pending", "success", "failed", "timeout", "unset"}

Wires == {c[2] : c \in AllCalls}

FrameType == [wire : Wires, kind : Kinds, value : Nat]

Cmd == [kind : Kinds, call : Wires, value : Nat, frame : FrameType,
        status : Statuses, resent : BOOLEAN, seen : SUBSET Nat]

Response == [n : Nat, copy : Nat, wire : Wires, kind : Kinds,
             status : {"success", "failed"}, value : Nat]

AppState == [pc : {"idle", "waiting"}, generation : Nat,
             shown : [n : Nat, status : Statuses, value : Nat, current : Nat]]

DType ==
  /\ device \in [Fields -> Nat]
  /\ had \in [Fields -> SUBSET Nat]
  /\ requests \in Seq(Nat)
  /\ cmds \in Seq(Cmd)
  /\ Len(requests) = Len(cmds)
  /\ replies \subseteq Response
  /\ read \in 0 .. 3
  /\ current \in [Current -> Nat]
  /\ buffers \in [Buffers -> Nat]
  /\ generation \in [Kinds -> Nat]
  /\ app \in AppState
  /\ changes \in Nat /\ reads \in Nat /\ reenumerated \in Nat
  /\ failed \in {"no", "deleted", "dispatch"}

FieldFor(c) == <<c.kind, FieldOf(c.call)>>

\* Every command is one of the calls, with the frame it puts on the wire, and
\* every response is the response to one.
CmdsSent ==
  \A n \in DOMAIN cmds :
    /\ <<cmds[n].kind, cmds[n].call>> \in Calls
    /\ cmds[n].frame = Sends(cmds[n].kind, cmds[n].call, cmds[n].value)
    /\ cmds[n].frame # Nothing

RepliesOwn ==
  \A r \in replies :
    /\ r.n \in DOMAIN cmds
    /\ r.wire = cmds[r.n].frame.wire
    /\ r.kind = cmds[r.n].frame.kind

\* What a successful response says was so, and of a command that waits for it
\* since it was called.
RepliesTrue ==
  \A r \in replies :
    r.status = "success" =>
      /\ r.wire \in Sets => /\ r.value = cmds[r.n].frame.value
                            /\ r.value \in had[<<r.kind, FieldOf(r.wire)>>]
      /\ cmds[r.n].status = "pending" => r.value \in cmds[r.n].seen

SeenPresent ==
  \A n \in DOMAIN cmds :
    cmds[n].status = "pending" => device[FieldFor(cmds[n])] \in cmds[n].seen

HadDevice == \A f \in Fields : device[f] \in had[f]

Succeeded ==
  \A n \in DOMAIN cmds :
    cmds[n].status = "success" /\ cmds[n].frame.wire \in Sets
      => cmds[n].frame.value \in cmds[n].seen

\* Only the last command can be without an outcome, and then it is waited for.
OneAtATime ==
  /\ app.pc = "waiting" => cmds # <<>>
  /\ \A n \in DOMAIN cmds :
       cmds[n].status = "pending" => app.pc = "waiting" /\ n = Len(cmds)

\* While nothing is read again, the descriptors a command was sent through stay.
Steady ==
  NothingReread =>
    /\ failed = "no"
    /\ \A k \in Kinds : generation[k] = 0
    /\ app.generation = 0
    /\ \A n \in DOMAIN cmds : read >= Needs(cmds[n].kind)

\* While nothing is sent twice, a command is answered once, before it ends.
AnsweredOnce ==
  NothingReread /\ NothingLate =>
    \A n \in DOMAIN cmds :
      /\ requests[n] <= 1
      /\ (cmds[n].status # "pending" \/ requests[n] = 1) => \A r \in replies : r.n # n
      /\ cmds[n].status # "pending" => requests[n] = 0
      /\ \A r1, r2 \in replies : r1.n = n /\ r2.n = n => r1 = r2

\* Then what the response left is there when the application looks.
ResultKept ==
  (/\ NothingReread /\ NothingLate
   /\ app.pc = "waiting" /\ cmds[Len(cmds)].status = "success"
   /\ <<cmds[Len(cmds)].kind, cmds[Len(cmds)].call>> # Mistaken)
    => LET c == cmds[Len(cmds)]
       IN  /\ BufferOf(c.call) # "none" => buffers[<<c.kind, BufferOf(c.call)>>] \in c.seen
           /\ (c.call \in Sets /\ FieldFor(c) \in Current)
                => current[FieldFor(c)] = Asked(c)

\* What is shown is the outcome of a command that has one.
ShownOwn ==
  app.shown.status # "none" =>
    /\ app.shown.n \in DOMAIN cmds
    /\ app.shown.status = Shown.status /\ Shown.status # "pending"

DInv ==
  /\ DType /\ CmdsSent /\ RepliesOwn /\ RepliesTrue /\ SeenPresent /\ HadDevice
  /\ Succeeded /\ CurrentWasTrue /\ OneAtATime /\ Steady /\ AnsweredOnce
  /\ ResultKept /\ ShownOwn /\ ReportedIsFresh /\ SuccessMeansSetElsewhere
-----------------------------------------------------------------------------
(***************************************************************************)
(* Commands and their frames.                                              *)
(***************************************************************************)
LEMMA CallFacts ==
  ASSUME NEW c \in Cmd, <<c.kind, c.call>> \in Calls,
         c.frame = Sends(c.kind, c.call, c.value), c.frame # Nothing
  PROVE  /\ FieldFor(c) \in Fields
         /\ <<c.kind, BufferOf(c.call)>> \in Buffers
         /\ c.frame.kind = c.kind
         /\ FieldOf(c.frame.wire) = FieldOf(c.call)
         /\ <<c.kind, c.frame.wire>> \in OnWire
         /\ <<c.kind, c.call>> # Mistaken => c.frame.wire = c.call
         /\ (<<c.kind, c.call>> # Mistaken /\ c.call \in Sets) => Asked(c) = c.frame.value
<1>1. PICK kind, call, v, frame :
        kind = c.kind /\ call = c.call /\ v = c.value /\ frame = c.frame
  OBVIOUS
<1>2. <<kind, call>> \in Calls /\ <<kind, call>> \in AllCalls
  BY <1>1, CommandAssumption
<1>3. FieldFor(c) \in Fields /\ <<c.kind, BufferOf(c.call)>> \in Buffers
  BY <1>1, <1>2 DEF FieldFor, Fields, Buffers
<1>4. CASE <<kind, call>> = Mistaken /\ frame = Frame("GET_STREAM_FORMAT", kind, v)
  <2>1. frame.kind = kind /\ frame.wire = "GET_STREAM_FORMAT"
    BY <1>4 DEF Frame
  <2>2. kind = "STREAM_OUTPUT" /\ call = "SET_STREAM_FORMAT"
    BY <1>4 DEF Mistaken
  <2>3. FieldOf("GET_STREAM_FORMAT") = FieldOf("SET_STREAM_FORMAT")
    BY DEF FieldOf
  <2>4. <<kind, "GET_STREAM_FORMAT">> \in OnWire
    BY <2>2 DEF OnWire, AllCalls, Streams, Mistaken
  <2> QED
    BY <1>1, <1>3, <1>4, <2>1, <2>2, <2>3, <2>4
<1>5. CASE <<kind, call>> \in OnWire /\ frame = Frame(call, kind, SentValue(call, v))
  <2>1. frame.kind = kind /\ frame.wire = call /\ frame.value = SentValue(call, v)
    BY <1>5 DEF Frame
  <2>2. call \in Sets => Asked(c) = SentValue(call, v)
    BY <1>1 DEF Asked, SentValue, Sets
  <2> QED
    BY <1>1, <1>3, <1>5, <2>1, <2>2
<1> QED
  BY <1>1, <1>2, <1>4, <1>5, SendsTable

LEMMA CmdFacts ==
  ASSUME DType, CmdsSent, NEW n \in DOMAIN cmds
  PROVE  /\ cmds[n] \in Cmd
         /\ <<cmds[n].kind, cmds[n].call>> \in Calls
         /\ FieldFor(cmds[n]) \in Fields
         /\ <<cmds[n].kind, BufferOf(cmds[n].call)>> \in Buffers
         /\ cmds[n].frame.kind = cmds[n].kind
         /\ FieldOf(cmds[n].frame.wire) = FieldOf(cmds[n].call)
         /\ <<cmds[n].kind, cmds[n].frame.wire>> \in OnWire
         /\ <<cmds[n].kind, cmds[n].call>> # Mistaken => cmds[n].frame.wire = cmds[n].call
         /\ (<<cmds[n].kind, cmds[n].call>> # Mistaken /\ cmds[n].call \in Sets)
              => Asked(cmds[n]) = cmds[n].frame.value
<1>1. PICK c : c = cmds[n]
  OBVIOUS
<1>2. c \in Cmd
  BY <1>1 DEF DType
<1>3. /\ <<c.kind, c.call>> \in Calls /\ c.frame = Sends(c.kind, c.call, c.value)
      /\ c.frame # Nothing
  BY <1>1 DEF CmdsSent
<1> QED
  BY <1>1, <1>2, <1>3, CallFacts

\* The descriptors a command is sent through are those its response relies on.
LEMMA NeedsEnough ==
  ASSUME NEW kind, NEW x \in 0 .. 3, x >= Needs(kind)
  PROVE  x >= ReliesOn(kind) /\ (ReliesOn(kind) = 2 => x = 3)
<1>1. Needs(kind) = IF kind = "END_STATION" THEN 0 ELSE IF kind = "ENTITY" THEN 1 ELSE 3
  BY DEF Needs
<1> QED
  BY <1>1 DEF ReliesOn

LEMMA ReplyFacts ==
  ASSUME DType, CmdsSent, RepliesOwn, NEW r \in replies
  PROVE  /\ r \in Response
         /\ r.n \in DOMAIN cmds
         /\ r.kind = cmds[r.n].kind
         /\ <<r.kind, r.wire>> \in OnWire
         /\ <<r.kind, FieldOf(r.wire)>> = FieldFor(cmds[r.n])
         /\ FieldFor(cmds[r.n]) \in Fields
<1>1. r \in Response /\ r.n \in DOMAIN cmds /\ r.wire = cmds[r.n].frame.wire
      /\ r.kind = cmds[r.n].frame.kind
  BY DEF DType, RepliesOwn
<1>2. PICK n \in DOMAIN cmds : n = r.n
  BY <1>1
<1>3. /\ FieldFor(cmds[n]) \in Fields
      /\ cmds[n].frame.kind = cmds[n].kind
      /\ FieldOf(cmds[n].frame.wire) = FieldOf(cmds[n].call)
      /\ <<cmds[n].kind, cmds[n].frame.wire>> \in OnWire
  BY CmdFacts
<1> QED
  BY <1>1, <1>2, <1>3 DEF FieldFor

LEMMA NotReread ==
  ASSUME DType
  PROVE  NothingReread <=> reads = 0 /\ reenumerated = 0
BY DEF DType, NothingReread
-----------------------------------------------------------------------------
(***************************************************************************)
(* Reading descriptors.                                                    *)
(***************************************************************************)
\* What holds of the commands is left alone; what the descriptors hold of a
\* command's field stays unless something is read again.
LEMMA ReadSideInv ==
  ASSUME DInv, UNCHANGED <<deviceVars, cmds, app, failed>>,
         read' \in 0 .. 3, current' \in [Current -> Nat], buffers' \in [Buffers -> Nat],
         generation' \in [Kinds -> Nat], reads' \in Nat, reenumerated' \in Nat,
         CurrentWasTrue',
         NothingReread' =>
           /\ NothingReread /\ read' >= read /\ generation' = generation
           /\ \A n \in DOMAIN cmds :
                LET c == cmds[n]
                IN  /\ buffers'[<<c.kind, BufferOf(c.call)>>]
                         = buffers[<<c.kind, BufferOf(c.call)>>]
                    /\ FieldFor(c) \in Current =>
                         current'[FieldFor(c)] = current[FieldFor(c)]
  PROVE  DInv'
<1>1. /\ DType /\ CmdsSent /\ RepliesOwn /\ RepliesTrue /\ SeenPresent /\ HadDevice
      /\ Succeeded /\ OneAtATime /\ Steady /\ AnsweredOnce /\ ResultKept /\ ShownOwn
      /\ ReportedIsFresh /\ SuccessMeansSetElsewhere
  BY DEF DInv
<1>2. UNCHANGED <<device, had, requests, replies, changes, cmds, app, failed>>
  BY DEF deviceVars
<1>3. DType'
  BY <1>1, <1>2 DEF DType
<1>4. CmdsSent' /\ RepliesOwn' /\ RepliesTrue' /\ SeenPresent' /\ HadDevice' /\ Succeeded'
  BY <1>1, <1>2 DEF CmdsSent, RepliesOwn, RepliesTrue, SeenPresent, HadDevice, Succeeded
<1>5. OneAtATime' /\ ShownOwn'
  BY <1>1, <1>2 DEF OneAtATime, ShownOwn, Shown
<1>6. NothingLate' = NothingLate
  BY <1>2 DEF NothingLate
<1>7. Steady'
  <2> SUFFICES ASSUME NothingReread'
               PROVE  /\ failed' = "no"
                      /\ \A k \in Kinds : generation'[k] = 0
                      /\ app.generation' = 0
                      /\ \A n \in DOMAIN cmds' : read' >= Needs(cmds'[n].kind)
    BY DEF Steady
  <2>1. /\ failed = "no" /\ generation' = generation /\ read' >= read
        /\ \A k \in Kinds : generation[k] = 0
        /\ app.generation = 0
        /\ \A n \in DOMAIN cmds : read >= Needs(cmds[n].kind)
    BY <1>1 DEF Steady
  <2>2. \A n \in DOMAIN cmds : Needs(cmds[n].kind) \in Nat
    BY DEF Needs
  <2>3. read \in Nat /\ read' \in Nat
    BY <1>1, <1>3 DEF DType
  <2> QED
    BY <1>2, <2>1, <2>2, <2>3
<1>8. AnsweredOnce'
  BY <1>1, <1>2, <1>6 DEF AnsweredOnce
<1>9. ResultKept'
  <2> SUFFICES ASSUME NothingReread', NothingLate', app.pc = "waiting",
                      cmds[Len(cmds)].status = "success",
                      <<cmds[Len(cmds)].kind, cmds[Len(cmds)].call>> # Mistaken,
                      NEW c, c = cmds[Len(cmds)]
               PROVE  /\ BufferOf(c.call) # "none" =>
                           buffers'[<<c.kind, BufferOf(c.call)>>] \in c.seen
                      /\ (c.call \in Sets /\ FieldFor(c) \in Current)
                           => current'[FieldFor(c)] = Asked(c)
    BY <1>2 DEF ResultKept
  <2>1. PICK n : n = Len(cmds) /\ n \in DOMAIN cmds
    <3>1. cmds # <<>> /\ cmds \in Seq(Cmd)
      BY <1>1 DEF OneAtATime, DType
    <3> QED
      BY <3>1
  <2>2. /\ BufferOf(c.call) # "none" => buffers[<<c.kind, BufferOf(c.call)>>] \in c.seen
        /\ (c.call \in Sets /\ FieldFor(c) \in Current) => current[FieldFor(c)] = Asked(c)
    BY <1>1, <1>6 DEF ResultKept
  <2> QED
    BY <2>1, <2>2
<1>10. ReportedIsFresh' /\ SuccessMeansSetElsewhere'
  BY <1>1, <1>2, <1>6 DEF ReportedIsFresh, SuccessMeansSetElsewhere, Shown
<1> QED
  BY <1>3, <1>4, <1>5, <1>7, <1>8, <1>9, <1>10 DEF DInv

\* Descriptors made from the device show what it has.
LEMMA StoreEffect ==
  ASSUME DInv, NEW kinds, Store(kinds)
  PROVE  /\ current' \in [Current -> Nat] /\ buffers' \in [Buffers -> Nat]
         /\ \A f \in Current : current'[f] = IF f[1] \in kinds THEN device[f] ELSE current[f]
         /\ \A b \in Buffers : buffers'[b] = IF b[1] \in kinds THEN 0 ELSE buffers[b]
         /\ \A f \in Current : device[f] \in had[f]
<1>1. DType /\ HadDevice
  BY DEF DInv
<1>2. Current \subseteq Fields
  BY DEF Current
<1>3. \A f \in Current : device[f] \in Nat /\ current[f] \in Nat
  BY <1>1, <1>2 DEF DType
<1>4. \A b \in Buffers : buffers[b] \in Nat
  BY <1>1 DEF DType
<1> QED
  BY <1>1, <1>2, <1>3, <1>4 DEF Store, HadDevice

\* Only descriptors of the configuration keep a field.
LEMMA CurrentKinds ==
  ASSUME NEW f \in Current
  PROVE  f \in Fields /\ f[1] \in OfConfiguration
<1>1. PICK c \in Calls : f = <<c[1], FieldOf(c[2])>>
  BY DEF Current, Fields
<1>2. PICK kind, call : kind = c[1] /\ call = c[2]
  OBVIOUS
<1>3. <<kind, call>> \in AllCalls
  <2>1. c \in AllCalls
    BY CommandAssumption
  <2>2. c = <<c[1], c[2]>>
    BY <2>1 DEF AllCalls
  <2> QED
    BY <1>2, <2>1, <2>2
<1>4. FieldOf(call) \in {"format", "rate", "source"}
  BY <1>1, <1>2 DEF Current
<1>5. kind \notin {"END_STATION", "ENTITY"}
  BY <1>3, <1>4, CallsOfKinds DEF FieldOf
<1>6. kind \in Kinds
  BY <1>2 DEF Kinds
<1> QED
  BY <1>1, <1>2, <1>5, <1>6 DEF OfConfiguration, Current

LEMMA ReadNextInv ==
  ASSUME DInv, ReadNext
  PROVE  DInv'
<1>1. /\ DType /\ CmdsSent /\ CurrentWasTrue /\ Steady
  BY DEF DInv
<1>2. PICK kinds : kinds = CASE read = 0 -> {"ENTITY"} [] read = 1 -> {}
                             [] read = 2 -> OfConfiguration
  OBVIOUS
<1>3. /\ read < 3 /\ read' = read + 1 /\ Store(kinds)
      /\ UNCHANGED <<deviceVars, generation, reads, reenumerated, cmds, app, failed>>
  BY <1>2 DEF ReadNext
<1>4. read \in 0 .. 2
  BY <1>1, <1>3 DEF DType
<1>5. \/ read = 0 /\ kinds = {"ENTITY"}
      \/ read = 1 /\ kinds = {}
      \/ read = 2 /\ kinds = OfConfiguration
  BY <1>2, <1>4
<1>6. /\ current' \in [Current -> Nat] /\ buffers' \in [Buffers -> Nat]
      /\ \A f \in Current : current'[f] = IF f[1] \in kinds THEN device[f] ELSE current[f]
      /\ \A b \in Buffers : buffers'[b] = IF b[1] \in kinds THEN 0 ELSE buffers[b]
      /\ \A f \in Current : device[f] \in had[f]
  BY <1>3, StoreEffect
<1>7. CurrentWasTrue'
  <2> SUFFICES ASSUME read' = 3, NEW f \in Current
               PROVE  current'[f] \in had'[f]
    BY DEF CurrentWasTrue
  <2>1. read = 2
    BY <1>3, <1>4
  <2>2. kinds = OfConfiguration /\ f[1] \in OfConfiguration
    BY <1>5, <2>1, CurrentKinds
  <2> QED
    BY <1>3, <1>6, <2>2 DEF deviceVars
<1>8. ASSUME NothingReread', NEW n \in DOMAIN cmds
      PROVE  cmds[n].kind \notin kinds
  <2>1. NothingReread
    BY <1>3, <1>8 DEF NothingReread
  <2>2. read >= Needs(cmds[n].kind)
    BY <1>1, <2>1 DEF Steady
  <2>3. PICK kind : kind = cmds[n].kind
    OBVIOUS
  <2>4. Needs(kind) = IF kind = "END_STATION" THEN 0 ELSE IF kind = "ENTITY" THEN 1 ELSE 3
    BY DEF Needs
  <2> QED
    BY <1>4, <1>5, <2>2, <2>3, <2>4 DEF OfConfiguration
<1>9. ASSUME NothingReread', NEW n \in DOMAIN cmds, NEW c, c = cmds[n]
      PROVE  /\ buffers'[<<c.kind, BufferOf(c.call)>>] = buffers[<<c.kind, BufferOf(c.call)>>]
             /\ FieldFor(c) \in Current => current'[FieldFor(c)] = current[FieldFor(c)]
  <2>1. <<c.kind, BufferOf(c.call)>> \in Buffers /\ c.kind \notin kinds
    BY <1>1, <1>8, <1>9, CmdFacts
  <2>2. FieldFor(c)[1] = c.kind /\ <<c.kind, BufferOf(c.call)>>[1] = c.kind
    BY DEF FieldFor
  <2> QED
    BY <1>6, <2>1, <2>2
<1>10. read' \in 0 .. 3 /\ read' >= read
  BY <1>3, <1>4
<1>11. generation' \in [Kinds -> Nat] /\ reads' \in Nat /\ reenumerated' \in Nat
       /\ generation' = generation /\ NothingReread' = NothingReread
       /\ UNCHANGED <<deviceVars, cmds, app, failed>>
  BY <1>1, <1>3 DEF DType, NothingReread
<1> QED
  BY <1>6, <1>7, <1>9, <1>10, <1>11, ReadSideInv

LEMMA ReadAgainInv ==
  ASSUME DInv, NEW kind \in OfConfiguration, ReadAgain(kind)
  PROVE  DInv'
<1>1. DType /\ CurrentWasTrue
  BY DEF DInv
<1>2. /\ read = 3 /\ reads' = reads + 1 /\ Store({kind})
      /\ generation' = [generation EXCEPT ![kind] = @ + 1]
      /\ UNCHANGED <<deviceVars, read, reenumerated, cmds, app, failed>>
  BY DEF ReadAgain
<1>3. /\ current' \in [Current -> Nat] /\ buffers' \in [Buffers -> Nat]
      /\ \A f \in Current : current'[f] = IF f[1] \in {kind} THEN device[f] ELSE current[f]
      /\ \A f \in Current : device[f] \in had[f]
  BY <1>2, StoreEffect
<1>4. CurrentWasTrue'
  BY <1>1, <1>2, <1>3 DEF CurrentWasTrue, deviceVars
<1>5. generation' \in [Kinds -> Nat]
  <2>1. generation \in [Kinds -> Nat] /\ kind \in Kinds
    BY <1>1 DEF DType, OfConfiguration
  <2>2. generation[kind] + 1 \in Nat
    BY <2>1
  <2> QED
    BY <1>2, <2>1, <2>2
<1>6. reads' \in Nat /\ reenumerated' \in Nat /\ read' \in 0 .. 3 /\ ~NothingReread'
  BY <1>1, <1>2 DEF DType, NothingReread
<1> QED
  BY <1>2, <1>3, <1>4, <1>5, <1>6, ReadSideInv

LEMMA ReenumerateInv ==
  ASSUME DInv, Reenumerate
  PROVE  DInv'
<1>1. DType /\ CurrentWasTrue
  BY DEF DInv
<1>2. /\ reenumerated' = reenumerated + 1 /\ read' = 0
      /\ generation' = [k \in Kinds |-> IF read >= Needs(k) /\ k # "END_STATION"
                                        THEN generation[k] + 1 ELSE generation[k]]
      /\ UNCHANGED <<deviceVars, current, buffers, reads, cmds, app, failed>>
  BY DEF Reenumerate
<1>3. generation' \in [Kinds -> Nat]
  BY <1>1, <1>2 DEF DType
<1>4. reads' \in Nat /\ reenumerated' \in Nat /\ read' \in 0 .. 3
      /\ current' \in [Current -> Nat] /\ buffers' \in [Buffers -> Nat]
  BY <1>1, <1>2 DEF DType
<1>5. CurrentWasTrue'
  BY <1>2 DEF CurrentWasTrue
<1>6. ~NothingReread'
  BY <1>1, <1>2 DEF DType, NothingReread
<1> QED
  BY <1>2, <1>3, <1>4, <1>5, <1>6, ReadSideInv
-----------------------------------------------------------------------------
(***************************************************************************)
(* The end station.                                                        *)
(***************************************************************************)
\* What the end station does to the commands: those that are waited for may see
\* another value.
SeesMore(c, d) ==
  /\ d.kind = c.kind /\ d.call = c.call /\ d.value = c.value /\ d.frame = c.frame
  /\ d.status = c.status /\ d.resent = c.resent
  /\ c.seen \subseteq d.seen
  /\ c.status # "pending" => d = c

Moves ==
  /\ device' \in [Fields -> Nat]
  /\ had' \in [Fields -> SUBSET Nat]
  /\ \A f \in Fields : had[f] \subseteq had'[f]
  /\ HadDevice'
  /\ cmds' \in Seq(Cmd) /\ Len(cmds') = Len(cmds)
  /\ \A n \in DOMAIN cmds : SeesMore(cmds[n], cmds'[n])
  /\ SeenPresent'

LEMMA StaysMoves ==
  ASSUME DInv, UNCHANGED <<device, had, cmds>>
  PROVE  Moves
BY DEF DInv, DType, Moves, SeesMore, HadDevice, SeenPresent

LEMMA SetFieldMoves ==
  ASSUME DInv, NEW f \in Fields, NEW v \in Nat, SetField(f, v)
  PROVE  /\ Moves
         /\ v \in had'[f] /\ device'[f] = v
         /\ \A n \in DOMAIN cmds :
              FieldFor(cmds[n]) = f /\ cmds[n].status = "pending" => v \in cmds'[n].seen
<1>1. DType /\ HadDevice /\ SeenPresent /\ CmdsSent
  BY DEF DInv
<1>2. /\ device \in [Fields -> Nat] /\ had \in [Fields -> SUBSET Nat]
      /\ cmds \in Seq(Cmd)
  BY <1>1 DEF DType
<1>3. /\ device' = [device EXCEPT ![f] = v]
      /\ had' = [had EXCEPT ![f] = @ \cup {v}]
  BY DEF SetField
<1>4. device' \in [Fields -> Nat] /\ \A g \in Fields : device'[g] = IF g = f THEN v ELSE device[g]
  BY <1>2, <1>3
<1>5. had' \in [Fields -> SUBSET Nat]
      /\ \A g \in Fields : had'[g] = IF g = f THEN had[g] \cup {v} ELSE had[g]
  <2>1. had[f] \cup {v} \in SUBSET Nat
    BY <1>2
  <2> QED
    BY <1>2, <1>3, <2>1
<1>6. cmds' = [n \in DOMAIN cmds |->
                 IF FieldFor(cmds[n]) = f /\ cmds[n].status = "pending"
                 THEN [cmds[n] EXCEPT !.seen = @ \cup {v}] ELSE cmds[n]]
  BY DEF SetField, FieldFor
<1>7. ASSUME NEW n \in DOMAIN cmds
      PROVE  /\ cmds'[n] \in Cmd
             /\ SeesMore(cmds[n], cmds'[n])
             /\ cmds'[n].seen = IF FieldFor(cmds[n]) = f /\ cmds[n].status = "pending"
                                THEN cmds[n].seen \cup {v} ELSE cmds[n].seen
  <2>1. PICK c, d : c = cmds[n] /\ d = [c EXCEPT !.seen = @ \cup {v}]
    OBVIOUS
  <2>2. c \in Cmd
    BY <1>2, <2>1
  <2>3. c.seen \cup {v} \in SUBSET Nat
    BY <2>2 DEF Cmd
  <2>4. d \in Cmd /\ d.kind = c.kind /\ d.call = c.call /\ d.value = c.value
        /\ d.frame = c.frame /\ d.status = c.status /\ d.resent = c.resent
        /\ d.seen = c.seen \cup {v}
    BY <2>1, <2>2, <2>3 DEF Cmd
  <2>5. cmds'[n] = IF FieldFor(c) = f /\ c.status = "pending" THEN d ELSE c
    BY <1>6, <2>1
  <2> QED
    BY <2>1, <2>2, <2>4, <2>5 DEF SeesMore
<1>8. cmds' \in Seq(Cmd) /\ Len(cmds') = Len(cmds) /\ DOMAIN cmds' = DOMAIN cmds
  <2>1. DOMAIN cmds = 1 .. Len(cmds) /\ Len(cmds) \in Nat
    BY <1>2
  <2>2. PICK k \in Nat : k = Len(cmds)
    BY <2>1
  <2>3. cmds' \in [1 .. k -> Cmd]
    BY <1>6, <1>7, <2>1, <2>2
  <2> QED
    BY <2>1, <2>2, <2>3
<1>9. HadDevice'
  BY <1>1, <1>4, <1>5 DEF HadDevice
<1>10. SeenPresent'
  <2> SUFFICES ASSUME NEW n \in DOMAIN cmds, cmds'[n].status = "pending"
               PROVE  device'[FieldFor(cmds'[n])] \in cmds'[n].seen
    BY <1>8 DEF SeenPresent
  <2>1. FieldFor(cmds[n]) \in Fields
    BY <1>1, CmdFacts
  <2>2. cmds[n].status = "pending" /\ FieldFor(cmds'[n]) = FieldFor(cmds[n])
    BY <1>7 DEF SeesMore, FieldFor
  <2>3. device[FieldFor(cmds[n])] \in cmds[n].seen
    BY <1>1, <2>2 DEF SeenPresent
  <2> QED
    BY <1>4, <1>7, <2>1, <2>2, <2>3
<1> QED
  BY <1>4, <1>5, <1>7, <1>8, <1>9, <1>10 DEF Moves

\* What a step of the end station does not touch.
LEMMA DeviceSideInv ==
  ASSUME DInv, Moves, UNCHANGED <<descVars, app, failed>>, changes' \in Nat,
         requests' \in Seq(Nat), Len(requests') = Len(requests), replies' \subseteq Response,
         RepliesOwn', RepliesTrue', AnsweredOnce'
  PROVE  DInv'
<1>1. /\ DType /\ CmdsSent /\ HadDevice /\ Succeeded /\ CurrentWasTrue /\ OneAtATime
      /\ Steady /\ ResultKept /\ ShownOwn /\ ReportedIsFresh /\ SuccessMeansSetElsewhere
  BY DEF DInv
<1>2. UNCHANGED <<read, current, buffers, generation, reads, reenumerated, app, failed>>
  BY DEF descVars
<1>3. /\ cmds' \in Seq(Cmd) /\ Len(cmds') = Len(cmds) /\ DOMAIN cmds' = DOMAIN cmds
      /\ \A n \in DOMAIN cmds : SeesMore(cmds[n], cmds'[n])
  <2>1. cmds \in Seq(Cmd)
    BY <1>1 DEF DType
  <2> QED
    BY <2>1 DEF Moves
<1>4. DType'
  BY <1>1, <1>2, <1>3 DEF DType, Moves
<1>5. CmdsSent' /\ Succeeded'
  BY <1>1, <1>3 DEF CmdsSent, Succeeded, SeesMore
<1>6. CurrentWasTrue'
  <2>1. \A f \in Current : f \in Fields
    BY DEF Current
  <2> QED
    BY <1>1, <1>2, <2>1 DEF CurrentWasTrue, Moves
<1>7. OneAtATime' /\ Steady'
  <2>1. OneAtATime'
    <3>1. cmds # <<>> => cmds' # <<>>
      BY <1>3
    <3> QED
      BY <1>1, <1>2, <1>3, <3>1 DEF OneAtATime, SeesMore
  <2>2. Steady'
    BY <1>1, <1>2, <1>3 DEF Steady, SeesMore, NothingReread
  <2> QED
    BY <2>1, <2>2
<1>8. NothingReread' = NothingReread /\ (NothingLate' <=> NothingLate)
  BY <1>2, <1>3 DEF NothingReread, NothingLate, SeesMore
<1>9. ResultKept'
  <2>1. app.pc = "waiting" => Len(cmds) \in DOMAIN cmds
    <3>1. cmds \in Seq(Cmd)
      BY <1>1 DEF DType
    <3> QED
      BY <1>1, <3>1 DEF OneAtATime
  <2>2. (app.pc = "waiting" /\ cmds'[Len(cmds)].status = "success")
          => cmds'[Len(cmds)] = cmds[Len(cmds)]
    BY <1>3, <2>1 DEF SeesMore
  <2> QED
    BY <1>1, <1>2, <1>3, <1>8, <2>2 DEF ResultKept
<1>10. app.shown.status # "none" =>
         /\ app.shown.n \in DOMAIN cmds
         /\ cmds'[app.shown.n] = cmds[app.shown.n]
  BY <1>1, <1>3 DEF ShownOwn, Shown, SeesMore
<1>11. ShownOwn' /\ ReportedIsFresh' /\ SuccessMeansSetElsewhere'
  BY <1>1, <1>2, <1>3, <1>8, <1>10
  DEF ShownOwn, Shown, ReportedIsFresh, SuccessMeansSetElsewhere
<1> QED
  BY <1>4, <1>5, <1>6, <1>7, <1>9, <1>11 DEF DInv, Moves

\* The end station answers the command n.
LEMMA AnswerInv ==
  ASSUME DInv, Moves, NEW n \in DOMAIN cmds, requests[n] > 0,
         requests' = [requests EXCEPT ![n] = @ - 1],
         NEW status \in {"success", "failed"}, NEW v \in Nat,
         replies' = replies \cup {Reply(n, status, v)},
         status = "success" =>
           /\ cmds[n].frame.wire \in Sets =>
                v = cmds[n].frame.value /\ v \in had'[FieldFor(cmds[n])]
           /\ cmds[n].status = "pending" => v \in cmds'[n].seen,
         UNCHANGED <<changes, descVars, app, failed>>
  PROVE  DInv'
<1>1. DType /\ CmdsSent /\ RepliesOwn /\ RepliesTrue /\ AnsweredOnce
  BY DEF DInv
<1>2. PICK a : a = Reply(n, status, v)
  OBVIOUS
<1>3. /\ requests \in Seq(Nat) /\ Len(requests) = Len(cmds)
      /\ DOMAIN requests = DOMAIN cmds /\ requests[n] \in Nat
  BY <1>1 DEF DType
<1>4. cmds[n] \in Cmd /\ cmds[n].frame.kind = cmds[n].kind
      /\ FieldOf(cmds[n].frame.wire) = FieldOf(cmds[n].call)
  BY <1>1, CmdFacts
<1>5. /\ a \in Response /\ a.n = n /\ a.status = status /\ a.value = v
      /\ a.wire = cmds[n].frame.wire /\ a.kind = cmds[n].frame.kind
  <2>1. n \in Nat
    BY <1>1 DEF DType
  <2>2. cmds[n].frame.wire \in Wires /\ cmds[n].frame.kind \in Kinds
    BY <1>4 DEF Cmd, FrameType
  <2> QED
    BY <1>2, <1>3, <2>1, <2>2 DEF Reply, Response
<1>6. /\ DOMAIN cmds' = DOMAIN cmds
      /\ \A k \in DOMAIN cmds : SeesMore(cmds[k], cmds'[k])
      /\ \A f \in Fields : had[f] \subseteq had'[f]
  BY <1>1 DEF DType, Moves
<1>7. requests' \in Seq(Nat) /\ Len(requests') = Len(requests)
      /\ \A k \in DOMAIN cmds : requests'[k] = IF k = n THEN requests[n] - 1 ELSE requests[k]
  <2>1. requests[n] - 1 \in Nat
    BY <1>3
  <2> QED
    BY <1>3, <2>1
<1>8. replies' = replies \cup {a} /\ replies' \subseteq Response
  BY <1>1, <1>2, <1>5 DEF DType
<1>9. RepliesOwn'
  BY <1>1, <1>5, <1>6, <1>8 DEF RepliesOwn, SeesMore
<1>10. RepliesTrue'
  <2> SUFFICES ASSUME NEW r \in replies', r.status = "success"
               PROVE  /\ r.wire \in Sets =>
                           /\ r.value = cmds'[r.n].frame.value
                           /\ r.value \in had'[<<r.kind, FieldOf(r.wire)>>]
                      /\ cmds'[r.n].status = "pending" => r.value \in cmds'[r.n].seen
    BY DEF RepliesTrue
  <2>1. CASE r \in replies
    <3>1. r.n \in DOMAIN cmds /\ <<r.kind, FieldOf(r.wire)>> = FieldFor(cmds[r.n])
          /\ FieldFor(cmds[r.n]) \in Fields
      BY <1>1, <2>1, ReplyFacts
    <3>2. /\ r.wire \in Sets => /\ r.value = cmds[r.n].frame.value
                                /\ r.value \in had[<<r.kind, FieldOf(r.wire)>>]
          /\ cmds[r.n].status = "pending" => r.value \in cmds[r.n].seen
      BY <1>1, <2>1 DEF RepliesTrue
    <3> QED
      BY <1>6, <3>1, <3>2 DEF SeesMore
  <2>2. CASE r = a
    <3>1. <<r.kind, FieldOf(r.wire)>> = FieldFor(cmds[n])
      BY <1>4, <1>5, <2>2 DEF FieldFor
    <3> QED
      BY <1>5, <1>6, <2>2, <3>1 DEF SeesMore
  <2> QED
    BY <1>8, <2>1, <2>2
<1>11. AnsweredOnce'
  <2> SUFFICES ASSUME NothingReread', NothingLate', NEW k \in DOMAIN cmds
               PROVE  /\ requests'[k] <= 1
                      /\ (cmds'[k].status # "pending" \/ requests'[k] = 1) =>
                           \A r \in replies' : r.n # k
                      /\ cmds'[k].status # "pending" => requests'[k] = 0
                      /\ \A r1, r2 \in replies' : r1.n = k /\ r2.n = k => r1 = r2
    BY <1>6 DEF AnsweredOnce
  <2>1. NothingReread /\ NothingLate
    BY <1>6 DEF NothingReread, NothingLate, descVars, SeesMore
  <2>2. /\ requests[k] <= 1
        /\ (cmds[k].status # "pending" \/ requests[k] = 1) => \A r \in replies : r.n # k
        /\ cmds[k].status # "pending" => requests[k] = 0
        /\ \A r1, r2 \in replies : r1.n = k /\ r2.n = k => r1 = r2
    BY <1>1, <2>1 DEF AnsweredOnce
  <2>3. cmds'[k].status = cmds[k].status
    BY <1>6 DEF SeesMore
  <2>4. CASE k # n
    BY <1>5, <1>7, <1>8, <2>2, <2>3, <2>4
  <2>5. CASE k = n
    <3>1. requests[n] = 1 /\ requests'[n] = 0 /\ cmds'[n].status = "pending"
      BY <1>3, <1>7, <2>2, <2>3, <2>5
    <3> QED
      BY <1>8, <2>2, <2>5, <3>1
  <2> QED
    BY <2>4, <2>5
<1>12. changes' \in Nat
  BY <1>1 DEF DType
<1> QED
  BY <1>7, <1>8, <1>9, <1>10, <1>11, <1>12, DeviceSideInv

LEMMA CarryOutInv ==
  ASSUME DInv, NEW n \in DOMAIN cmds, CarryOut(n)
  PROVE  DInv'
<1>1. DType /\ CmdsSent /\ SeenPresent
  BY DEF DInv
<1>2. PICK wire, kind, value, f :
        /\ wire = cmds[n].frame.wire /\ kind = cmds[n].frame.kind
        /\ value = cmds[n].frame.value /\ f = <<kind, FieldOf(wire)>>
  OBVIOUS
<1>3. f = FieldFor(cmds[n]) /\ f \in Fields /\ value \in Nat
  <2>1. /\ cmds[n] \in Cmd /\ FieldFor(cmds[n]) \in Fields
        /\ cmds[n].frame.kind = cmds[n].kind
        /\ FieldOf(cmds[n].frame.wire) = FieldOf(cmds[n].call)
    BY <1>1, CmdFacts
  <2>2. cmds[n].frame.value \in Nat
    BY <2>1 DEF Cmd, FrameType
  <2> QED
    BY <1>2, <2>1, <2>2 DEF FieldFor
<1>4. /\ requests[n] > 0 /\ requests' = [requests EXCEPT ![n] = @ - 1]
      /\ UNCHANGED <<changes, descVars, app, failed>>
  BY DEF CarryOut
<1>5. CASE wire \in Sets
  <2>1. SetField(f, value) /\ replies' = replies \cup {Reply(n, "success", value)}
    BY <1>2, <1>5 DEF CarryOut
  <2>2. Moves /\ value \in had'[f] /\ (cmds[n].status = "pending" => value \in cmds'[n].seen)
    BY <1>3, <2>1, SetFieldMoves
  <2> QED
    BY <1>2, <1>3, <1>4, <2>1, <2>2, AnswerInv
<1>6. CASE wire \notin Sets
  <2>1. UNCHANGED <<device, had, cmds>>
        /\ replies' = replies \cup {Reply(n, "success", device[f])}
    BY <1>2, <1>6 DEF CarryOut
  <2>2. Moves
    BY <2>1, StaysMoves
  <2>3. PICK v \in Nat : v = device[f]
    BY <1>1, <1>3 DEF DType
  <2>4. cmds[n].status = "pending" => v \in cmds'[n].seen
    BY <1>1, <1>3, <2>1, <2>3 DEF SeenPresent
  <2> QED
    BY <1>2, <1>4, <1>6, <2>1, <2>2, <2>3, <2>4, AnswerInv
<1> QED
  BY <1>5, <1>6

LEMMA RefuseInv ==
  ASSUME DInv, NEW n \in DOMAIN cmds, Refuse(n)
  PROVE  DInv'
<1>1. DType /\ CmdsSent
  BY DEF DInv
<1>2. /\ requests[n] > 0 /\ requests' = [requests EXCEPT ![n] = @ - 1]
      /\ UNCHANGED <<device, had, cmds, changes, descVars, app, failed>>
  BY DEF Refuse
<1>3. /\ cmds[n] \in Cmd /\ FieldFor(cmds[n]) \in Fields
      /\ cmds[n].frame.kind = cmds[n].kind
      /\ FieldOf(cmds[n].frame.wire) = FieldOf(cmds[n].call)
  BY <1>1, CmdFacts
<1>4. PICK v : /\ v \in {cmds[n].frame.value,
                         device[<<cmds[n].frame.kind, FieldOf(cmds[n].frame.wire)>>]}
               /\ replies' = replies \cup {Reply(n, "failed", v)}
  BY DEF Refuse
<1>5. v \in Nat
  <2>1. cmds[n].frame.value \in Nat
    BY <1>3 DEF Cmd, FrameType
  <2>2. device[FieldFor(cmds[n])] \in Nat
    BY <1>1, <1>3 DEF DType
  <2> QED
    BY <1>3, <1>4, <2>1, <2>2 DEF FieldFor
<1>6. Moves
  BY <1>2, StaysMoves
<1>7. "failed" \in {"success", "failed"} /\ "failed" # "success"
  OBVIOUS
<1> QED
  BY <1>2, <1>4, <1>5, <1>6, <1>7, AnswerInv

LEMMA ChangeInv ==
  ASSUME DInv, NEW f \in Current, NEW v \in Values, Change(f, v)
  PROVE  DInv'
<1>1. DType /\ CmdsSent /\ RepliesOwn /\ RepliesTrue /\ AnsweredOnce
  BY DEF DInv
<1>2. /\ changes' = changes + 1 /\ SetField(f, v)
      /\ UNCHANGED <<requests, replies, descVars, app, failed>>
  BY DEF Change
<1>3. f \in Fields /\ v \in Nat
  BY CurrentKinds, CommandAssumption
<1>4. Moves
  BY <1>2, <1>3, SetFieldMoves
<1>5. /\ DOMAIN cmds' = DOMAIN cmds
      /\ \A k \in DOMAIN cmds : SeesMore(cmds[k], cmds'[k])
      /\ \A g \in Fields : had[g] \subseteq had'[g]
  BY <1>1, <1>4 DEF DType, Moves
<1>6. RepliesOwn'
  BY <1>1, <1>2, <1>5 DEF RepliesOwn, SeesMore
<1>7. RepliesTrue'
  <2> SUFFICES ASSUME NEW r \in replies, r.status = "success"
               PROVE  /\ r.wire \in Sets =>
                           /\ r.value = cmds'[r.n].frame.value
                           /\ r.value \in had'[<<r.kind, FieldOf(r.wire)>>]
                      /\ cmds'[r.n].status = "pending" => r.value \in cmds'[r.n].seen
    BY <1>2 DEF RepliesTrue
  <2>1. r.n \in DOMAIN cmds /\ <<r.kind, FieldOf(r.wire)>> = FieldFor(cmds[r.n])
        /\ FieldFor(cmds[r.n]) \in Fields
    BY <1>1, ReplyFacts
  <2>2. /\ r.wire \in Sets => /\ r.value = cmds[r.n].frame.value
                              /\ r.value \in had[<<r.kind, FieldOf(r.wire)>>]
        /\ cmds[r.n].status = "pending" => r.value \in cmds[r.n].seen
    BY <1>1 DEF RepliesTrue
  <2> QED
    BY <1>5, <2>1, <2>2 DEF SeesMore
<1>8. AnsweredOnce'
  <2>1. NothingReread' => NothingReread
    BY <1>2 DEF NothingReread, descVars
  <2>2. NothingLate' => NothingLate
    BY <1>5 DEF NothingLate, SeesMore
  <2>3. \A k \in DOMAIN cmds : cmds'[k].status = cmds[k].status
    BY <1>5 DEF SeesMore
  <2> QED
    BY <1>1, <1>2, <1>5, <2>1, <2>2, <2>3 DEF AnsweredOnce
<1>9. changes' \in Nat /\ requests' \in Seq(Nat) /\ Len(requests') = Len(requests)
      /\ replies' \subseteq Response
  BY <1>1, <1>2 DEF DType
<1> QED
  BY <1>2, <1>4, <1>6, <1>7, <1>8, <1>9, DeviceSideInv
-----------------------------------------------------------------------------
(***************************************************************************)
(* Outcomes.                                                               *)
(***************************************************************************)
\* A command that is waited for is late: sent again, or given up.
LEMMA LateInv ==
  ASSUME DInv, NEW n \in DOMAIN cmds, cmds[n].status = "pending",
         NEW d \in Cmd, d.kind = cmds[n].kind, d.call = cmds[n].call,
         d.value = cmds[n].value, d.frame = cmds[n].frame, d.seen = cmds[n].seen,
         d.status \in {"pending", "timeout"}, d.resent,
         cmds' = [cmds EXCEPT ![n] = d],
         requests' \in Seq(Nat), Len(requests') = Len(requests),
         UNCHANGED <<device, had, replies, changes, descVars, app, failed>>
  PROVE  DInv'
<1>1. /\ DType /\ CmdsSent /\ RepliesOwn /\ RepliesTrue /\ SeenPresent /\ HadDevice
      /\ Succeeded /\ CurrentWasTrue /\ OneAtATime /\ Steady /\ ShownOwn
      /\ SuccessMeansSetElsewhere
  BY DEF DInv
<1>2. UNCHANGED <<device, had, replies, changes, read, current, buffers, generation, reads,
                  reenumerated, app, failed>>
  BY DEF descVars
<1>3. /\ cmds' \in Seq(Cmd) /\ Len(cmds') = Len(cmds) /\ DOMAIN cmds' = DOMAIN cmds
      /\ \A k \in DOMAIN cmds : cmds'[k] = IF k = n THEN d ELSE cmds[k]
  <2>1. cmds \in Seq(Cmd)
    BY <1>1 DEF DType
  <2> QED
    BY <2>1
<1>4. DType'
  BY <1>1, <1>2, <1>3 DEF DType
<1>5. CmdsSent' /\ RepliesOwn'
  BY <1>1, <1>2, <1>3 DEF CmdsSent, RepliesOwn
<1>6. RepliesTrue' /\ HadDevice' /\ SeenPresent' /\ Succeeded' /\ CurrentWasTrue'
  <2>1. RepliesTrue'
    BY <1>1, <1>2, <1>3 DEF RepliesTrue, RepliesOwn
  <2>2. SeenPresent'
    BY <1>1, <1>2, <1>3 DEF SeenPresent, FieldFor
  <2>3. Succeeded'
    BY <1>1, <1>3 DEF Succeeded
  <2> QED
    BY <1>1, <1>2, <2>1, <2>2, <2>3 DEF HadDevice, CurrentWasTrue
<1>7. OneAtATime'
  <2>1. cmds' # <<>>
    BY <1>3
  <2> QED
    BY <1>1, <1>2, <1>3, <2>1 DEF OneAtATime
<1>8. Steady'
  BY <1>1, <1>2, <1>3 DEF Steady, NothingReread
<1>9. ~NothingLate'
  BY <1>3 DEF NothingLate
<1>10. AnsweredOnce' /\ ResultKept' /\ ReportedIsFresh'
  BY <1>9 DEF AnsweredOnce, ResultKept, ReportedIsFresh
<1>11. app.shown.status # "none" =>
         app.shown.n \in DOMAIN cmds /\ cmds'[app.shown.n] = cmds[app.shown.n]
  BY <1>1, <1>3 DEF ShownOwn, Shown
<1>12. ShownOwn' /\ SuccessMeansSetElsewhere'
  BY <1>1, <1>2, <1>3, <1>9, <1>11 DEF ShownOwn, Shown, SuccessMeansSetElsewhere
<1> QED
  BY <1>4, <1>5, <1>6, <1>7, <1>8, <1>10, <1>12 DEF DInv

LEMMA ResendInv ==
  ASSUME DInv, NEW n \in DOMAIN cmds, Resend(n)
  PROVE  DInv'
<1>1. DType
  BY DEF DInv
<1>2. PICK d : d = [cmds[n] EXCEPT !.resent = TRUE]
  OBVIOUS
<1>3. /\ cmds[n].status = "pending" /\ cmds' = [cmds EXCEPT ![n] = d]
      /\ requests' = [requests EXCEPT ![n] = @ + 1]
      /\ UNCHANGED <<device, had, replies, changes, descVars, app, failed>>
  BY <1>2 DEF Resend
<1>4. cmds[n] \in Cmd
  BY <1>1 DEF DType
<1>5. /\ d \in Cmd /\ d.kind = cmds[n].kind /\ d.call = cmds[n].call
      /\ d.value = cmds[n].value /\ d.frame = cmds[n].frame /\ d.seen = cmds[n].seen
      /\ d.status = cmds[n].status /\ d.resent
  BY <1>2, <1>4 DEF Cmd
<1>6. requests' \in Seq(Nat) /\ Len(requests') = Len(requests)
  <2>1. requests \in Seq(Nat) /\ n \in DOMAIN requests /\ requests[n] + 1 \in Nat
    BY <1>1 DEF DType
  <2> QED
    BY <1>3, <2>1
<1> QED
  BY <1>3, <1>5, <1>6, LateInv

LEMMA TimeOutInv ==
  ASSUME DInv, NEW n \in DOMAIN cmds, TimeOut(n)
  PROVE  DInv'
<1>1. DType
  BY DEF DInv
<1>2. PICK d : d = [cmds[n] EXCEPT !.status = "timeout"]
  OBVIOUS
<1>3. /\ cmds[n].status = "pending" /\ cmds[n].resent
      /\ cmds' = [cmds EXCEPT ![n] = d]
      /\ UNCHANGED <<device, had, requests, replies, changes, descVars, app, failed>>
  BY <1>2 DEF TimeOut, deviceVars
<1>4. cmds[n] \in Cmd
  BY <1>1 DEF DType
<1>5. /\ d \in Cmd /\ d.kind = cmds[n].kind /\ d.call = cmds[n].call
      /\ d.value = cmds[n].value /\ d.frame = cmds[n].frame /\ d.seen = cmds[n].seen
      /\ d.status = "timeout" /\ d.resent
  BY <1>2, <1>3, <1>4 DEF Cmd, Statuses
<1>6. requests' \in Seq(Nat) /\ Len(requests') = Len(requests)
  BY <1>1, <1>3 DEF DType
<1> QED
  BY <1>3, <1>5, <1>6, LateInv

\* A response is lost on the library: it fails, or takes no notice.
LEMMA UnansweredInv ==
  ASSUME DInv, replies' \subseteq replies, failed' \in {"no", "deleted", "dispatch"},
         NothingReread => failed' = "no",
         UNCHANGED <<device, had, requests, changes, descVars, cmds, app>>
  PROVE  DInv'
<1>1. /\ DType /\ CmdsSent /\ RepliesOwn /\ RepliesTrue /\ SeenPresent /\ HadDevice
      /\ Succeeded /\ CurrentWasTrue /\ OneAtATime /\ Steady /\ AnsweredOnce
      /\ ResultKept /\ ShownOwn /\ ReportedIsFresh /\ SuccessMeansSetElsewhere
  BY DEF DInv
<1>2. UNCHANGED <<device, had, requests, changes, read, current, buffers, generation, reads,
                  reenumerated, cmds, app>>
  BY DEF descVars
<1>3. NothingReread' = NothingReread /\ NothingLate' = NothingLate
  BY <1>2 DEF NothingReread, NothingLate
<1>4. DType'
  BY <1>1, <1>2 DEF DType
<1>5. CmdsSent' /\ SeenPresent' /\ HadDevice' /\ Succeeded' /\ CurrentWasTrue' /\ OneAtATime'
  BY <1>1, <1>2 DEF CmdsSent, SeenPresent, HadDevice, Succeeded, CurrentWasTrue, OneAtATime
<1>6. RepliesOwn' /\ RepliesTrue'
  BY <1>1, <1>2 DEF RepliesOwn, RepliesTrue
<1>7. Steady'
  BY <1>1, <1>2, <1>3 DEF Steady
<1>8. AnsweredOnce'
  BY <1>1, <1>2, <1>3 DEF AnsweredOnce
<1>9. ResultKept' /\ ShownOwn'
  BY <1>1, <1>2, <1>3 DEF ResultKept, ShownOwn, Shown
<1>10. ReportedIsFresh' /\ SuccessMeansSetElsewhere'
  BY <1>1, <1>2, <1>3 DEF ReportedIsFresh, SuccessMeansSetElsewhere, Shown
<1> QED
  BY <1>4, <1>5, <1>6, <1>7, <1>8, <1>9, <1>10 DEF DInv

\* The buffer a getter reads is the one that the response to its call fills, and a
\* call that sets a field the descriptor keeps is one whose response updates it.
LEMMA BufferFilled ==
  ASSUME NEW call
  PROVE  /\ BufferOf(call) # "none" => Filled(call) = BufferOf(call)
         /\ (call \in Sets /\ FieldOf(call) \in {"format", "rate", "source"})
              => call \in Updating
         /\ Updating \subseteq Sets
<1>1. BufferOf(call) # "none" => Filled(call) = BufferOf(call)
  BY DEF BufferOf, Filled
<1>2. (call \in Sets /\ FieldOf(call) \in {"format", "rate", "source"}) => call \in Updating
  BY DEF Sets, FieldOf, Updating
<1>3. Updating \subseteq Sets
  BY DEF Sets, Updating
<1> QED
  BY <1>1, <1>2, <1>3

\* The response is taken: it goes to its buffer and, after success, to the field of
\* the descriptor, and the command that waits for it has an outcome.
LEMMA TakenInv ==
  ASSUME DInv, NEW r \in replies, NEW status \in {"success", "failed", "unset"},
         NEW updates \in BOOLEAN, NEW d,
         status = "success" => r.status = "success" ,
         updates => r.wire \in Updating /\ r.status = "success",
         r.wire \in Updating /\ status = "success" => updates,
         d = [cmds[r.n] EXCEPT !.status = status],
         replies' = replies \ {r},
         buffers' = IF <<r.kind, Filled(r.wire)>> \in Buffers
                    THEN [buffers EXCEPT ![<<r.kind, Filled(r.wire)>>] = r.value]
                    ELSE buffers,
         current' = IF updates THEN [current EXCEPT ![<<r.kind, FieldOf(r.wire)>>] = r.value]
                    ELSE current,
         cmds' = IF cmds[r.n].status = "pending" THEN [cmds EXCEPT ![r.n] = d] ELSE cmds,
         UNCHANGED <<device, had, requests, changes, read, generation, reads,
                     reenumerated, app, failed>>
  PROVE  DInv'
<1>1. /\ DType /\ CmdsSent /\ RepliesOwn /\ RepliesTrue /\ SeenPresent /\ HadDevice
      /\ Succeeded /\ CurrentWasTrue /\ OneAtATime /\ Steady /\ AnsweredOnce
      /\ ResultKept /\ ShownOwn /\ ReportedIsFresh /\ SuccessMeansSetElsewhere
  BY DEF DInv
<1>2. PICK n, f, b : n = r.n /\ f = <<r.kind, FieldOf(r.wire)>>
                     /\ b = <<r.kind, Filled(r.wire)>>
  OBVIOUS
<1>3. n \in DOMAIN cmds /\ cmds[n] \in Cmd /\ r \in Response /\ f = FieldFor(cmds[n])
      /\ f \in Fields /\ r.wire = cmds[n].frame.wire /\ r.kind = cmds[n].kind
  <2>1. n \in DOMAIN cmds /\ r \in Response /\ f = FieldFor(cmds[n]) /\ f \in Fields
        /\ r.kind = cmds[n].kind
    BY <1>1, <1>2, ReplyFacts
  <2> QED
    BY <1>1, <1>2, <2>1 DEF RepliesOwn, DType
<1>4. /\ d \in Cmd /\ d.kind = cmds[n].kind /\ d.call = cmds[n].call
      /\ d.value = cmds[n].value /\ d.frame = cmds[n].frame /\ d.seen = cmds[n].seen
      /\ d.status = status /\ d.resent = cmds[n].resent
  BY <1>2, <1>3 DEF Cmd, Statuses
<1>5. /\ cmds' \in Seq(Cmd) /\ Len(cmds') = Len(cmds) /\ DOMAIN cmds' = DOMAIN cmds
      /\ \A k \in DOMAIN cmds :
           cmds'[k] = IF k = n /\ cmds[n].status = "pending" THEN d ELSE cmds[k]
  <2>1. cmds \in Seq(Cmd)
    BY <1>1 DEF DType
  <2>2. CASE cmds[n].status = "pending"
    BY <1>2, <1>3, <1>4, <2>1, <2>2
  <2>3. CASE cmds[n].status # "pending"
    BY <1>2, <2>1, <2>3
  <2> QED
    BY <2>2, <2>3
<1>6. \A k \in DOMAIN cmds :
        /\ cmds'[k].kind = cmds[k].kind /\ cmds'[k].call = cmds[k].call
        /\ cmds'[k].value = cmds[k].value /\ cmds'[k].frame = cmds[k].frame
        /\ cmds'[k].seen = cmds[k].seen /\ cmds'[k].resent = cmds[k].resent
        /\ cmds[k].status # "pending" => cmds'[k] = cmds[k]
        /\ cmds'[k].status = "pending" => cmds[k].status = "pending" /\ k # n
        /\ cmds'[k].status = "success" => cmds[k].status = "success" \/ k = n
  BY <1>4, <1>5
<1>7. buffers' \in [Buffers -> Nat]
      /\ \A x \in Buffers : buffers'[x] = IF x = b THEN r.value ELSE buffers[x]
  <2>1. buffers \in [Buffers -> Nat] /\ r.value \in Nat
    BY <1>1, <1>3 DEF DType, Response
  <2> QED
    BY <1>2, <2>1
<1>8. current' \in [Current -> Nat]
      /\ \A x \in Current : current'[x] = IF x = f /\ updates THEN r.value ELSE current[x]
  <2>1. current \in [Current -> Nat] /\ r.value \in Nat
    BY <1>1, <1>3 DEF DType, Response
  <2> QED
    BY <1>2, <2>1
<1>9. DType'
  BY <1>1, <1>5, <1>7, <1>8 DEF DType
<1>10. CmdsSent' /\ RepliesOwn'
  BY <1>1, <1>5, <1>6 DEF CmdsSent, RepliesOwn
<1>11. RepliesTrue' /\ HadDevice' /\ SeenPresent'
  <2>1. RepliesTrue'
    BY <1>1, <1>6 DEF RepliesTrue, RepliesOwn
  <2>2. SeenPresent'
    BY <1>1, <1>5, <1>6 DEF SeenPresent, FieldFor
  <2> QED
    BY <1>1, <2>1, <2>2 DEF HadDevice
<1>12. cmds[n].status = "pending" /\ status = "success" =>
         /\ r.value \in cmds[n].seen
         /\ r.wire \in Sets => r.value = cmds[n].frame.value
  BY <1>1, <1>2 DEF RepliesTrue
<1>13. Succeeded'
  <2> SUFFICES ASSUME NEW k \in DOMAIN cmds, cmds'[k].status = "success",
                      cmds'[k].frame.wire \in Sets
               PROVE  cmds'[k].frame.value \in cmds'[k].seen
    BY <1>5 DEF Succeeded
  <2>1. CASE cmds[k].status = "success"
    BY <1>1, <1>6, <2>1 DEF Succeeded
  <2>2. CASE cmds[k].status # "success"
    <3>1. k = n /\ cmds[n].status = "pending" /\ status = "success"
      BY <1>4, <1>5, <1>6, <2>2
    <3> QED
      BY <1>3, <1>6, <1>12, <3>1
  <2> QED
    BY <2>1, <2>2
<1>14. CurrentWasTrue'
  <2>1. updates => r.value \in had[f]
    BY <1>1, <1>2, BufferFilled DEF RepliesTrue
  <2> QED
    BY <1>1, <1>8, <2>1 DEF CurrentWasTrue
<1>15. OneAtATime' /\ Steady'
  <2>1. cmds # <<>> => cmds' # <<>>
    BY <1>5
  <2>2. OneAtATime'
    BY <1>1, <1>5, <1>6, <2>1 DEF OneAtATime
  <2>3. Steady'
    BY <1>1, <1>5, <1>6 DEF Steady, NothingReread
  <2> QED
    BY <2>2, <2>3
<1>16. NothingReread' = NothingReread /\ (NothingLate' <=> NothingLate)
  BY <1>5, <1>6 DEF NothingReread, NothingLate
<1>17. ASSUME NothingReread, NothingLate
       PROVE  /\ cmds[n].status = "pending" /\ requests[n] = 0
              /\ \A r1 \in replies : r1.n = n => r1 = r
  <2>1. requests[n] \in Nat
    <3>1. requests \in Seq(Nat) /\ cmds \in Seq(Cmd) /\ Len(requests) = Len(cmds)
      BY <1>1 DEF DType
    <3>2. n \in DOMAIN requests
      BY <1>3, <3>1
    <3> QED
      BY <3>1, <3>2
  <2>2. /\ requests[n] <= 1
        /\ (cmds[n].status # "pending" \/ requests[n] = 1) => \A r1 \in replies : r1.n # n
        /\ \A r1, r2 \in replies : r1.n = n /\ r2.n = n => r1 = r2
    BY <1>1, <1>3, <1>17 DEF AnsweredOnce
  <2>3. cmds[n].status = "pending" /\ requests[n] # 1
    BY <1>2, <2>2
  <2> QED
    BY <1>2, <2>1, <2>2, <2>3
<1>18. AnsweredOnce'
  <2> SUFFICES ASSUME NothingReread, NothingLate, NEW k \in DOMAIN cmds
               PROVE  /\ requests[k] <= 1
                      /\ (cmds'[k].status # "pending" \/ requests[k] = 1) =>
                           \A r1 \in replies' : r1.n # k
                      /\ cmds'[k].status # "pending" => requests[k] = 0
                      /\ \A r1, r2 \in replies' : r1.n = k /\ r2.n = k => r1 = r2
    BY <1>5, <1>16 DEF AnsweredOnce
  <2>1. /\ requests[k] <= 1
        /\ (cmds[k].status # "pending" \/ requests[k] = 1) => \A r1 \in replies : r1.n # k
        /\ cmds[k].status # "pending" => requests[k] = 0
        /\ \A r1, r2 \in replies : r1.n = k /\ r2.n = k => r1 = r2
    BY <1>1 DEF AnsweredOnce
  <2>2. CASE k = n
    BY <1>17, <2>1, <2>2
  <2>3. CASE k # n
    BY <1>5, <2>1, <2>3
  <2> QED
    BY <2>2, <2>3
<1>19. ResultKept'
  <2> SUFFICES ASSUME NothingReread, NothingLate, app.pc = "waiting",
                      cmds'[Len(cmds)].status = "success",
                      <<cmds'[Len(cmds)].kind, cmds'[Len(cmds)].call>> # Mistaken,
                      NEW c, c = cmds'[Len(cmds)]
               PROVE  /\ BufferOf(c.call) # "none" =>
                           buffers'[<<c.kind, BufferOf(c.call)>>] \in c.seen
                      /\ (c.call \in Sets /\ FieldFor(c) \in Current)
                           => current'[FieldFor(c)] = Asked(c)
    BY <1>5, <1>16 DEF ResultKept
  <2>1. cmds[n].status = "pending" /\ n = Len(cmds) /\ c = d
    BY <1>1, <1>3, <1>5, <1>17 DEF OneAtATime
  <2>2. status = "success" /\ r.value \in cmds[n].seen
    BY <1>4, <1>12, <2>1
  <2>3. <<cmds[n].kind, cmds[n].call>> # Mistaken
    BY <1>4, <2>1
  <2>4. /\ <<cmds[n].kind, BufferOf(cmds[n].call)>> \in Buffers
        /\ r.wire = cmds[n].call
        /\ cmds[n].call \in Sets => Asked(cmds[n]) = cmds[n].frame.value
    BY <1>1, <1>3, <2>3, CmdFacts
  <2>5. BufferOf(c.call) # "none" => buffers'[<<c.kind, BufferOf(c.call)>>] \in c.seen
    <3>1. c.kind = r.kind /\ c.call = r.wire /\ c.seen = cmds[n].seen
          /\ <<r.kind, BufferOf(r.wire)>> \in Buffers
      BY <1>3, <1>4, <2>1, <2>4
    <3>2. BufferOf(r.wire) # "none" => b = <<r.kind, BufferOf(r.wire)>>
      BY <1>2, BufferFilled
    <3> QED
      BY <1>7, <2>2, <3>1, <3>2
  <2>6. Asked(c) = Asked(cmds[n]) /\ FieldFor(c) = f
    BY <1>3, <1>4, <2>1 DEF Asked, FieldFor
  <2>7. ASSUME c.call \in Sets, f \in Current
        PROVE  current'[f] = Asked(c)
    <3>1. FieldOf(cmds[n].call) \in {"format", "rate", "source"}
      BY <1>2, <2>4, <2>7 DEF Current
    <3>2. updates
      BY <1>4, <2>1, <2>2, <2>4, <2>7, <3>1, BufferFilled
    <3> QED
      BY <1>4, <1>8, <1>12, <2>1, <2>2, <2>4, <2>6, <2>7, <3>2
  <2> QED
    BY <2>5, <2>6, <2>7
<1>20. app.shown.status # "none" =>
         app.shown.n \in DOMAIN cmds /\ cmds'[app.shown.n] = cmds[app.shown.n]
  BY <1>1, <1>6 DEF ShownOwn, Shown
<1>21. ShownOwn' /\ ReportedIsFresh' /\ SuccessMeansSetElsewhere'
  BY <1>1, <1>5, <1>16, <1>20 DEF ShownOwn, Shown, ReportedIsFresh, SuccessMeansSetElsewhere
<1> QED
  BY <1>9, <1>10, <1>11, <1>13, <1>14, <1>15, <1>18, <1>19, <1>21 DEF DInv

LEMMA ReceiveInv ==
  ASSUME DInv, NEW r \in replies, Receive(r)
  PROVE  DInv'
<1>1. /\ DType /\ CmdsSent /\ RepliesOwn /\ Steady
  BY DEF DInv
<1>2. PICK h, status, updates :
        /\ h = Handles(r)
        /\ status = (IF r.wire = "SET_CONTROL" THEN "unset" ELSE r.status)
        /\ updates = (r.wire \in Updating /\ r.status = "success")
  OBVIOUS
<1>3. r \in Response /\ r.n \in DOMAIN cmds /\ r.kind = cmds[r.n].kind
      /\ <<r.kind, r.wire>> \in OnWire
  BY <1>1, ReplyFacts
<1>4. h = Handled(status, Filled(r.wire), updates, ReliesOn(r.kind))
  BY <1>2, <1>3, HandlesTable
<1>5. /\ h.completes /\ h.status = status /\ h.buffer = Filled(r.wire)
      /\ h.updates = updates /\ h.needs = ReliesOn(r.kind)
  BY <1>4 DEF Handled
<1>6. /\ failed = "no" /\ replies' = replies \ {r}
      /\ UNCHANGED <<device, had, requests, changes, read, generation, reads,
                     reenumerated, app>>
  BY DEF Receive
<1>7. NothingReread => read >= ReliesOn(r.kind)
  <2> SUFFICES ASSUME NothingReread
               PROVE  read >= ReliesOn(r.kind)
    OBVIOUS
  <2>1. read >= Needs(r.kind) /\ read \in 0 .. 3
    BY <1>1, <1>3 DEF Steady, DType
  <2> QED
    BY <2>1, NeedsEnough
<1>8. CASE read < ReliesOn(r.kind)
  <2>1. failed' = "dispatch" /\ UNCHANGED <<current, buffers, cmds>>
    BY <1>2, <1>5, <1>8 DEF Receive
  <2>2. ~NothingReread
    <3>1. read \in Nat /\ ReliesOn(r.kind) \in Nat
      BY <1>1 DEF DType, ReliesOn
    <3> QED
      BY <1>7, <1>8, <3>1
  <2> QED
    BY <1>6, <2>1, <2>2, UnansweredInv DEF descVars
<1>9. CASE ~(read < ReliesOn(r.kind)) /\ ReliesOn(r.kind) = 2 /\ read = 2
  <2>1. UNCHANGED <<current, buffers, cmds, failed>>
    BY <1>2, <1>5, <1>9 DEF Receive
  <2> QED
    BY <1>6, <2>1, UnansweredInv DEF descVars
<1>10. CASE ~(read < ReliesOn(r.kind)) /\ ~(ReliesOn(r.kind) = 2 /\ read = 2)
  <2>1. PICK d : d = [cmds[r.n] EXCEPT !.status = status]
    OBVIOUS
  <2>2. /\ buffers' = IF <<r.kind, Filled(r.wire)>> \in Buffers
                      THEN [buffers EXCEPT ![<<r.kind, Filled(r.wire)>>] = r.value]
                      ELSE buffers
        /\ current' = IF updates THEN [current EXCEPT ![<<r.kind, FieldOf(r.wire)>>] = r.value]
                      ELSE current
        /\ cmds' = IF cmds[r.n].status = "pending" THEN [cmds EXCEPT ![r.n].status = status]
                   ELSE cmds
        /\ UNCHANGED failed
    BY <1>2, <1>5, <1>10 DEF Receive
  <2>3. [cmds EXCEPT ![r.n].status = status] = [cmds EXCEPT ![r.n] = d]
    BY <2>1
  <2>4. status \in {"success", "failed", "unset"} /\ updates \in BOOLEAN
        /\ (status = "success" => r.status = "success")
        /\ (updates => r.wire \in Updating /\ r.status = "success")
        /\ (r.wire \in Updating /\ status = "success" => updates)
    BY <1>2, <1>3 DEF Response
  <2> QED
    BY <1>6, <2>1, <2>2, <2>3, <2>4, TakenInv
<1> QED
  BY <1>8, <1>9, <1>10
-----------------------------------------------------------------------------
(***************************************************************************)
(* The application.                                                        *)
(***************************************************************************)
\* Nothing is waited for when a call is made.
LEMMA NonePending ==
  ASSUME OneAtATime, app.pc = "idle", NEW n \in DOMAIN cmds
  PROVE  cmds[n].status # "pending"
BY DEF OneAtATime

\* A call that only logs.
LEMMA NothingSentInv ==
  ASSUME DInv, app.pc = "idle", app' = [app EXCEPT !.shown = NoneShown],
         UNCHANGED <<device, had, requests, replies, changes, descVars, cmds, failed>>
  PROVE  DInv'
<1>1. /\ DType /\ CmdsSent /\ RepliesOwn /\ RepliesTrue /\ SeenPresent /\ HadDevice
      /\ Succeeded /\ CurrentWasTrue /\ OneAtATime /\ Steady /\ AnsweredOnce
  BY DEF DInv
<1>2. UNCHANGED <<device, had, requests, replies, changes, read, current, buffers,
                  generation, reads, reenumerated, cmds, failed>>
  BY DEF descVars
<1>3. /\ app' \in AppState /\ app'.pc = "idle" /\ app'.generation = app.generation
      /\ app'.shown.status = "none"
  <2>1. app \in AppState
    BY <1>1 DEF DType
  <2> QED
    BY <2>1 DEF AppState, NoneShown, Statuses
<1>4. DType'
  BY <1>1, <1>2, <1>3 DEF DType
<1>5. CmdsSent' /\ RepliesOwn' /\ RepliesTrue' /\ SeenPresent' /\ HadDevice' /\ Succeeded'
      /\ CurrentWasTrue'
  BY <1>1, <1>2 DEF CmdsSent, RepliesOwn, RepliesTrue, SeenPresent, HadDevice, Succeeded,
    CurrentWasTrue
<1>6. OneAtATime' /\ Steady'
  BY <1>1, <1>2, <1>3 DEF OneAtATime, Steady, NothingReread
<1>7. AnsweredOnce'
  BY <1>1, <1>2 DEF AnsweredOnce, NothingReread, NothingLate
<1>8. ResultKept' /\ ShownOwn' /\ ReportedIsFresh' /\ SuccessMeansSetElsewhere'
  BY <1>3 DEF ResultKept, ShownOwn, ReportedIsFresh, SuccessMeansSetElsewhere
<1> QED
  BY <1>4, <1>5, <1>6, <1>7, <1>8 DEF DInv

\* A call whose command is queued and waited for.
LEMMA SentInv ==
  ASSUME DInv, app.pc = "idle", failed = "no", NEW c \in Cmd,
         <<c.kind, c.call>> \in Calls, c.frame = Sends(c.kind, c.call, c.value),
         c.frame # Nothing, c.status = "pending", ~c.resent,
         c.seen = {device[FieldFor(c)]}, read >= Needs(c.kind),
         cmds' = Append(cmds, c), requests' = Append(requests, 1),
         app' = [pc |-> "waiting", generation |-> generation[c.kind], shown |-> NoneShown],
         UNCHANGED <<device, had, replies, changes, descVars, failed>>
  PROVE  DInv'
<1>1. /\ DType /\ CmdsSent /\ RepliesOwn /\ RepliesTrue /\ SeenPresent /\ HadDevice
      /\ Succeeded /\ CurrentWasTrue /\ OneAtATime /\ Steady /\ AnsweredOnce
  BY DEF DInv
<1>2. UNCHANGED <<device, had, replies, changes, read, current, buffers, generation, reads,
                  reenumerated, failed>>
  BY DEF descVars
<1>3. PICK m \in Nat : m = Len(cmds) /\ DOMAIN cmds = 1 .. m /\ DOMAIN requests = 1 .. m
                       /\ Len(requests) = m
  BY <1>1 DEF DType
<1>4. /\ cmds' \in Seq(Cmd) /\ Len(cmds') = m + 1 /\ DOMAIN cmds' = 1 .. m + 1
      /\ cmds'[m + 1] = c /\ \A k \in DOMAIN cmds : cmds'[k] = cmds[k]
  <2>1. cmds \in Seq(Cmd)
    BY <1>1 DEF DType
  <2> QED
    BY <1>3, <2>1
<1>5. /\ requests' \in Seq(Nat) /\ Len(requests') = m + 1
      /\ requests'[m + 1] = 1 /\ \A k \in DOMAIN cmds : requests'[k] = requests[k]
  <2>1. requests \in Seq(Nat)
    BY <1>1 DEF DType
  <2> QED
    BY <1>3, <2>1
<1>6. \A k \in DOMAIN cmds' : k \in DOMAIN cmds \/ k = m + 1
  BY <1>3, <1>4
<1>7. c.kind \in Kinds
  BY DEF Cmd
<1>8. /\ app' \in AppState /\ app'.pc = "waiting" /\ app'.generation = generation[c.kind]
      /\ app'.shown.status = "none"
  <2>1. generation[c.kind] \in Nat
    BY <1>1, <1>7 DEF DType
  <2> QED
    BY <2>1 DEF AppState, NoneShown, Statuses
<1>9. DType'
  BY <1>1, <1>2, <1>4, <1>5, <1>8 DEF DType
<1>10. \A r \in replies : r.n \in DOMAIN cmds /\ r.n # m + 1
  BY <1>1, <1>3 DEF RepliesOwn
<1>11. DOMAIN cmds \subseteq DOMAIN cmds'
  BY <1>3, <1>4
<1>12. CmdsSent' /\ RepliesOwn' /\ RepliesTrue'
  <2>1. CmdsSent'
    BY <1>1, <1>4, <1>6 DEF CmdsSent
  <2>2. RepliesOwn'
    BY <1>1, <1>2, <1>4, <1>10, <1>11 DEF RepliesOwn
  <2>3. RepliesTrue'
    BY <1>1, <1>2, <1>4, <1>10 DEF RepliesTrue
  <2> QED
    BY <2>1, <2>2, <2>3
<1>13. SeenPresent' /\ HadDevice' /\ Succeeded' /\ CurrentWasTrue'
  <2>1. SeenPresent'
    BY <1>1, <1>2, <1>4, <1>6 DEF SeenPresent, FieldFor
  <2>2. Succeeded'
    BY <1>1, <1>4, <1>6 DEF Succeeded
  <2> QED
    BY <1>1, <1>2, <2>1, <2>2 DEF HadDevice, CurrentWasTrue
<1>14. OneAtATime'
  <2>1. cmds' # <<>>
    BY <1>4
  <2>2. \A k \in DOMAIN cmds : cmds'[k].status # "pending"
    BY <1>1, <1>4, NonePending
  <2> QED
    BY <1>4, <1>6, <1>8, <2>1, <2>2 DEF OneAtATime
<1>15. Steady'
  BY <1>1, <1>2, <1>4, <1>6, <1>7, <1>8 DEF Steady, NothingReread
<1>16. NothingReread' = NothingReread /\ (NothingLate' => NothingLate)
  BY <1>2, <1>4, <1>11 DEF NothingReread, NothingLate
<1>17. AnsweredOnce'
  <2> SUFFICES ASSUME NothingReread, NothingLate, NEW k \in DOMAIN cmds'
               PROVE  /\ requests'[k] <= 1
                      /\ (cmds'[k].status # "pending" \/ requests'[k] = 1) =>
                           \A r \in replies' : r.n # k
                      /\ cmds'[k].status # "pending" => requests'[k] = 0
                      /\ \A r1, r2 \in replies' : r1.n = k /\ r2.n = k => r1 = r2
    BY <1>16, Zenon DEF AnsweredOnce
  <2>1. CASE k \in DOMAIN cmds
    BY <1>1, <1>2, <1>4, <1>5, <2>1 DEF AnsweredOnce
  <2>2. CASE k = m + 1
    BY <1>2, <1>4, <1>5, <1>10, <2>2
  <2> QED
    BY <1>6, <2>1, <2>2
<1>18. ResultKept' /\ ShownOwn' /\ ReportedIsFresh' /\ SuccessMeansSetElsewhere'
  <2>1. cmds'[Len(cmds')].status = "pending"
    BY <1>4
  <2> QED
    BY <1>8, <2>1 DEF ResultKept, ShownOwn, ReportedIsFresh, SuccessMeansSetElsewhere
<1> QED
  BY <1>9, <1>12, <1>13, <1>14, <1>15, <1>17, <1>18 DEF DInv

LEMMA FrameOf ==
  ASSUME NEW kind, NEW call, <<kind, call>> \in Calls, NEW v \in Nat,
         Sends(kind, call, v) # Nothing
  PROVE  Sends(kind, call, v) \in FrameType /\ call \in Wires
<1>1. <<kind, call>> \in AllCalls
  BY CommandAssumption
<1>2. kind \in Kinds /\ call \in Wires
  BY <1>1 DEF Kinds, Wires
<1>3. SentValue(call, v) \in Nat
  BY DEF SentValue
<1>4. \A wire \in Wires, w \in Nat : Frame(wire, kind, w) \in FrameType
  BY <1>2 DEF Frame, FrameType
<1>5. "GET_STREAM_FORMAT" \in Wires
  <2>1. <<"STREAM_INPUT", "GET_STREAM_FORMAT">> \in AllCalls
    BY DEF AllCalls, Streams
  <2> QED
    BY <2>1 DEF Wires
<1> QED
  BY <1>1, <1>2, <1>3, <1>4, <1>5, SendsTable

LEMMA CallInv ==
  ASSUME DInv, NEW x \in Calls, NEW v \in Args(x[2]), Call(x[1], x[2], v)
  PROVE  DInv'
<1>1. DType
  BY DEF DInv
<1>2. PICK kind, call : kind = x[1] /\ call = x[2]
  OBVIOUS
<1>3. <<kind, call>> \in Calls /\ <<kind, call>> \in AllCalls /\ kind \in Kinds
  <2>1. x \in AllCalls
    BY CommandAssumption
  <2>2. x = <<x[1], x[2]>>
    BY <2>1 DEF AllCalls
  <2> QED
    BY <1>2, <2>1, <2>2 DEF Kinds
<1>4. v \in Nat
  <2>1. v \in Values \/ v = 0
    BY DEF Args
  <2>2. \A w \in Values : w \in Nat
    BY CommandAssumption
  <2>3. CASE v = 0
    BY <2>3
  <2> QED
    BY <2>1, <2>2, <2>3
<1>5. PICK frame : frame = Sends(kind, call, v)
  OBVIOUS
<1>6. /\ app.pc = "idle" /\ failed = "no" /\ read >= Needs(kind)
      /\ UNCHANGED <<device, had, replies, changes, descVars, failed>>
  BY <1>2 DEF Call
<1>7. CASE frame = Nothing
  <2>1. app' = [app EXCEPT !.shown = NoneShown] /\ UNCHANGED <<cmds, requests>>
    BY <1>2, <1>5, <1>7 DEF Call
  <2> QED
    BY <1>6, <2>1, NothingSentInv
<1>8. CASE frame # Nothing
  <2>1. PICK c : c = [kind |-> kind, call |-> call, value |-> v, frame |-> frame,
                      status |-> "pending", resent |-> FALSE,
                      seen |-> {device[<<kind, FieldOf(call)>>]}]
    OBVIOUS
  <2>2. /\ cmds' = Append(cmds, c) /\ requests' = Append(requests, 1)
        /\ app' = [pc |-> "waiting", generation |-> generation[kind], shown |-> NoneShown]
    BY <1>2, <1>5, <1>8, <2>1 DEF Call
  <2>3. frame \in FrameType /\ call \in Wires
    BY <1>3, <1>4, <1>5, <1>8, FrameOf
  <2>4. device[<<kind, FieldOf(call)>>] \in Nat
    <3>1. <<kind, FieldOf(call)>> \in Fields
      BY <1>3 DEF Fields
    <3> QED
      BY <1>1, <3>1 DEF DType
  <2>5. c \in Cmd
    BY <1>3, <1>4, <2>1, <2>3, <2>4 DEF Cmd, Statuses
  <2>6. /\ c.kind = kind /\ c.call = call /\ c.value = v /\ c.frame = frame
        /\ c.status = "pending" /\ ~c.resent /\ c.seen = {device[FieldFor(c)]}
    BY <2>1 DEF FieldFor
  <2> QED
    BY <1>3, <1>5, <1>6, <1>8, <2>2, <2>5, <2>6, SentInv
<1> QED
  BY <1>7, <1>8

LEMMA ReportInv ==
  ASSUME DInv, Report
  PROVE  DInv'
<1>1. /\ DType /\ CmdsSent /\ RepliesOwn /\ RepliesTrue /\ SeenPresent /\ HadDevice
      /\ Succeeded /\ CurrentWasTrue /\ OneAtATime /\ Steady /\ AnsweredOnce /\ ResultKept
  BY DEF DInv
<1>2. PICK n, c, key, f : /\ n = Len(cmds) /\ c = cmds[n]
                          /\ key = <<c.kind, BufferOf(c.call)>>
                          /\ f = <<c.kind, FieldOf(c.call)>>
  OBVIOUS
<1>3. /\ app.pc = "waiting" /\ failed = "no" /\ c.status # "pending"
      /\ UNCHANGED <<deviceVars, descVars, cmds>>
  BY <1>2 DEF Report
<1>4. UNCHANGED <<device, had, requests, replies, changes, read, current, buffers,
                  generation, reads, reenumerated, cmds>>
  BY <1>3 DEF deviceVars, descVars
<1>5. n \in DOMAIN cmds /\ n \in Nat
  <2>1. cmds \in Seq(Cmd) /\ cmds # <<>>
    BY <1>1, <1>3 DEF DType, OneAtATime
  <2> QED
    BY <1>2, <2>1
<1>6. /\ c \in Cmd /\ c.kind \in Kinds /\ f = FieldFor(c) /\ key \in Buffers
      /\ <<c.kind, c.call>> # Mistaken => c.frame.wire = c.call
      /\ (<<c.kind, c.call>> # Mistaken /\ c.call \in Sets) => Asked(c) = c.frame.value
  <2>1. c \in Cmd /\ key \in Buffers
        /\ (<<c.kind, c.call>> # Mistaken => c.frame.wire = c.call)
        /\ ((<<c.kind, c.call>> # Mistaken /\ c.call \in Sets) => Asked(c) = c.frame.value)
    BY <1>1, <1>2, <1>5, CmdFacts
  <2> QED
    BY <1>2, <2>1 DEF Cmd, FieldFor
<1>7. CASE app.generation # generation[c.kind]
  <2>1. failed' = "deleted" /\ UNCHANGED app
    BY <1>2, <1>7 DEF Report
  <2>2. ~NothingReread
    BY <1>1, <1>6, <1>7 DEF Steady
  <2> QED
    BY <1>4, <2>1, <2>2, UnansweredInv DEF descVars
<1>8. CASE app.generation = generation[c.kind]
  <2>1. PICK shown : shown = [n |-> n, status |-> c.status, value |-> buffers[key],
                              current |-> IF f \in Current THEN current[f] ELSE 0]
    OBVIOUS
  <2>2. app' = [app EXCEPT !.pc = "idle", !.shown = shown] /\ UNCHANGED failed
    BY <1>2, <1>8, <2>1 DEF Report
  <2>3. /\ buffers[key] \in Nat /\ (IF f \in Current THEN current[f] ELSE 0) \in Nat
        /\ c.status \in Statuses
    BY <1>1, <1>6 DEF DType, Cmd
  <2>4. /\ shown.n = n /\ shown.status = c.status /\ shown.value = buffers[key]
        /\ shown.current = (IF f \in Current THEN current[f] ELSE 0)
        /\ shown \in [n : Nat, status : Statuses, value : Nat, current : Nat]
    BY <1>5, <2>1, <2>3
  <2>5. /\ app' \in AppState /\ app'.pc = "idle" /\ app'.generation = app.generation
        /\ app'.shown = shown
    <3>1. app \in AppState
      BY <1>1 DEF DType
    <3> QED
      BY <2>2, <2>4, <3>1 DEF AppState
  <2>6. DType'
    BY <1>1, <1>4, <2>2, <2>5 DEF DType
  <2>7. CmdsSent' /\ RepliesOwn' /\ RepliesTrue' /\ SeenPresent' /\ HadDevice' /\ Succeeded'
        /\ CurrentWasTrue'
    BY <1>1, <1>4 DEF CmdsSent, RepliesOwn, RepliesTrue, SeenPresent, HadDevice, Succeeded,
      CurrentWasTrue
  <2>8. OneAtATime' /\ Steady' /\ AnsweredOnce' /\ ResultKept'
    <3>1. OneAtATime'
      BY <1>1, <1>2, <1>3, <1>4, <2>5 DEF OneAtATime
    <3>2. Steady'
      BY <1>1, <1>4, <2>2, <2>5 DEF Steady, NothingReread
    <3>3. AnsweredOnce'
      BY <1>1, <1>4 DEF AnsweredOnce, NothingReread, NothingLate
    <3>4. ResultKept'
      BY <2>5 DEF ResultKept
    <3> QED
      BY <3>1, <3>2, <3>3, <3>4
  <2>9. Shown' = c
    BY <1>2, <1>4, <2>4, <2>5 DEF Shown
  <2>10. ShownOwn'
    BY <1>3, <1>4, <1>5, <2>4, <2>5, <2>9 DEF ShownOwn
  <2>11. (NothingLate' => NothingLate) /\ (NothingReread' => NothingReread)
    BY <1>4 DEF NothingLate, NothingReread
  <2>12. ASSUME c.status = "success", NothingLate, NothingReread,
                <<c.kind, c.call>> # Mistaken
         PROVE  /\ BufferOf(c.call) # "none" => buffers[key] \in c.seen
                /\ (c.call \in Sets /\ f \in Current) => current[f] = Asked(c)
    BY <1>1, <1>2, <1>3, <1>6, <2>12 DEF ResultKept
  <2>13. ReportedIsFresh'
    <3> SUFFICES ASSUME shown.status = "success", NothingLate, NothingReread,
                        BufferOf(c.call) # "none", <<c.kind, c.call>> # Mistaken
                 PROVE  shown.value \in c.seen
      BY <2>5, <2>9, <2>11 DEF ReportedIsFresh, Mistaken
    <3> QED
      BY <2>4, <2>12
  <2>14. SuccessMeansSetElsewhere'
    <3> SUFFICES ASSUME shown.status = "success", c.call \in Sets,
                        <<c.kind, c.call>> # Mistaken
                 PROVE  /\ Asked(c) \in c.seen
                        /\ (NothingLate /\ NothingReread /\ f \in Current)
                             => shown.current = Asked(c)
      BY <1>6, <2>5, <2>9, <2>11 DEF SuccessMeansSetElsewhere, Mistaken, FieldFor
    <3>1. Asked(c) \in c.seen
      BY <1>1, <1>2, <1>5, <1>6, <2>4 DEF Succeeded
    <3> QED
      BY <2>4, <2>12, <3>1
  <2> QED
    BY <2>6, <2>7, <2>8, <2>10, <2>13, <2>14 DEF DInv
<1> QED
  BY <1>7, <1>8
-----------------------------------------------------------------------------
(***************************************************************************)
(* The theorems.                                                           *)
(***************************************************************************)
LEMMA InitDInv ==
  ASSUME CmdInit
  PROVE  DInv
<1>1. /\ cmds = <<>> /\ requests = <<>> /\ replies = {} /\ failed = "no"
      /\ reads = 0 /\ reenumerated = 0
      /\ app = [pc |-> "idle", generation |-> 0, shown |-> NoneShown]
  BY DEF CmdInit
<1>2. app \in AppState /\ app.pc = "idle" /\ app.generation = 0 /\ app.shown.status = "none"
  BY <1>1 DEF AppState, NoneShown, Statuses
<1>3. DType
  <2>1. cmds \in Seq(Cmd) /\ requests \in Seq(Nat) /\ Len(requests) = Len(cmds)
    BY <1>1
  <2>2. device \in [Fields -> Nat] /\ had \in [Fields -> SUBSET Nat]
    BY DEF CmdInit
  <2>3. current \in [Current -> Nat] /\ buffers \in [Buffers -> Nat]
        /\ generation \in [Kinds -> Nat] /\ read \in 0 .. 3 /\ changes \in Nat
    BY DEF CmdInit
  <2> QED
    BY <1>1, <1>2, <2>1, <2>2, <2>3 DEF DType
<1>4. DOMAIN cmds = {}
  BY <1>1
<1>5. CmdsSent /\ SeenPresent /\ Succeeded /\ AnsweredOnce
  BY <1>4 DEF CmdsSent, SeenPresent, Succeeded, AnsweredOnce
<1>6. RepliesOwn /\ RepliesTrue
  BY <1>1 DEF RepliesOwn, RepliesTrue
<1>7. HadDevice /\ CurrentWasTrue
  BY DEF CmdInit, HadDevice, CurrentWasTrue
<1>8. OneAtATime /\ Steady
  BY <1>1, <1>2, <1>4 DEF OneAtATime, Steady, CmdInit
<1>9. ResultKept /\ ShownOwn /\ ReportedIsFresh /\ SuccessMeansSetElsewhere
  BY <1>2 DEF ResultKept, ShownOwn, ReportedIsFresh, SuccessMeansSetElsewhere
<1> QED
  BY <1>3, <1>5, <1>6, <1>7, <1>8, <1>9 DEF DInv

LEMMA StutterInv ==
  ASSUME DInv, UNCHANGED cmdVars
  PROVE  DInv'
<1>1. UNCHANGED <<device, had, requests, replies, changes, descVars, cmds, app, failed>>
  BY DEF cmdVars, deviceVars
<1>2. DType /\ Steady
  BY DEF DInv
<1>3. failed' \in {"no", "deleted", "dispatch"} /\ (NothingReread => failed' = "no")
  BY <1>1, <1>2 DEF DType, Steady
<1> QED
  BY <1>1, <1>3, UnansweredInv

\* The invariant holds of every execution, for every set of calls and values and
\* however often is called, changed and read again.
THEOREM DescriptorInvariant == CmdSpec => []DInv
<1>1. CmdInit => DInv
  BY InitDInv
<1>2. DInv /\ [CmdNext]_cmdVars => DInv'
  <2> SUFFICES ASSUME DInv, [CmdNext]_cmdVars
               PROVE  DInv'
    OBVIOUS
  <2>1. ASSUME NEW x \in Calls, NEW v \in Args(x[2]), Call(x[1], x[2], v)
        PROVE  DInv'
    BY <2>1, CallInv
  <2>2. CASE Report
    BY <2>2, ReportInv
  <2>3. ASSUME NEW n \in DOMAIN cmds, CarryOut(n) \/ Refuse(n) \/ Resend(n) \/ TimeOut(n)
        PROVE  DInv'
    BY <2>3, CarryOutInv, RefuseInv, ResendInv, TimeOutInv
  <2>4. ASSUME NEW f \in Current, NEW v \in Values, Change(f, v)
        PROVE  DInv'
    BY <2>4, ChangeInv
  <2>5. ASSUME NEW r \in replies, Receive(r)
        PROVE  DInv'
    BY <2>5, ReceiveInv
  <2>6. CASE ReadNext
    BY <2>6, ReadNextInv
  <2>7. ASSUME NEW kind \in OfConfiguration, ReadAgain(kind)
        PROVE  DInv'
    BY <2>7, ReadAgainInv
  <2>8. CASE Reenumerate
    BY <2>8, ReenumerateInv
  <2>9. CASE UNCHANGED cmdVars
    BY <2>9, StutterInv
  <2> QED
    BY <2>1, <2>2, <2>3, <2>4, <2>5, <2>6, <2>7, <2>8, <2>9 DEF CmdNext
<1> QED
  BY <1>1, <1>2, PTL DEF CmdSpec

\* What a descriptor of a complete configuration shows as current is a value the
\* device has had (the proc_set_..._resp functions update it, whatever is refused,
\* repeated or late).
THEOREM CurrentIsTrue == CmdSpec => []CurrentWasTrue
<1>1. DInv => CurrentWasTrue
  BY DEF DInv
<1> QED
  BY <1>1, DescriptorInvariant, PTL

\* The result a getter gives after success is one the device had since the call,
\* unless something was sent twice or read again.
THEOREM ResultsAreFresh == CmdSpec => []ReportedIsFresh
<1>1. DInv => ReportedIsFresh
  BY DEF DInv
<1> QED
  BY <1>1, DescriptorInvariant, PTL

\* Success of a call that sets something, other than the one that puts a GET on the
\* wire, means that it was set.
THEOREM SuccessIsSet == CmdSpec => []SuccessMeansSetElsewhere
<1>1. DInv => SuccessMeansSetElsewhere
  BY DEF DInv
<1> QED
  BY <1>1, DescriptorInvariant, PTL

\* A dispatch without its descriptor, and a descriptor used after it was deleted,
\* come of reading the descriptors anew and of nothing else.
THEOREM FailureIsOfRereading == CmdSpec => []FailsOnlyWhenReread
<1>1. DInv => FailsOnlyWhenReread
  BY NotReread DEF DInv, DType, Steady, FailsOnlyWhenReread
<1> QED
  BY <1>1, DescriptorInvariant, PTL
=============================================================================
