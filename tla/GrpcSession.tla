---------------------------- MODULE GrpcSession -----------------------------
(***************************************************************************)
(* One gRPC connection (src/plugins/grpc/grpc_http2_session.cpp): the        *)
(* nghttp2 callbacks that collect requests, the sequential processing of the *)
(* streams that are complete, and the flush that pulls response data through *)
(* on_data_read.                                                             *)
(*                                                                           *)
(* One coroutine does all of it: read, callbacks of mem_recv, processing,    *)
(* flush.  The client and nghttp2 (framing, flow control, stream states) are *)
(* external: the client sends a request's bytes in DATA frames of any size,  *)
(* may reset a stream, may stop reading (window), may go away.               *)
(***************************************************************************)
EXTENDS GrpcEnvelope, SequencesExt

CONSTANTS Streams,                 \* bound: streams the client opens
          Requests,                \* what a client may send: headers and bytes
          Results,                 \* what a handler may return
          Known,                   \* keys of the MethodMap
          MaxMessage,              \* config_.max_message_size
          max_concurrent_streams,  \* config_.max_concurrent_streams
          Window                   \* bound: initial flow-control window

ASSUME SessionAssumption ==
    MaxMessage \in Nat \ {0} /\ max_concurrent_streams \in Nat \ {0} /\ Window \in Nat

Bytes     == Seq(0..(kOctets - 1))
FieldList == Seq([name : STRING, value : STRING])

(* Requests and results are lists of fields and of bytes; the length field of *)
(* the envelope can hold the length of the largest message.                   *)
ASSUME MessageAssumption ==
    /\ Streams # {}
    /\ \A req \in Requests : req \in [headers : FieldList, bytes : Bytes]
    /\ \A r \in Results : r \in [status : STRING, trailers : FieldList, payload : Bytes]
    /\ MaxMessage \div (kOctets * kOctets * kOctets) < kOctets

VARIABLES
    pc,        \* "read", "recv", "process", "handler", "flush", "ended"
    streams,   \* streams_: StreamState per stream id
    ready,     \* ready_streams_
    current,   \* the stream whose handler is awaited
    request,   \* per stream: what the client sends
    sent,      \* per stream: bytes of it already in DATA frames
    link,      \* per stream, in nghttp2: "idle", "open", "half" (client ended), "closed"
    window,    \* per stream: bytes nghttp2 may still send
    wire,      \* per stream: what went out
    broken,    \* the peer is gone: writes fail
    calls      \* history: handler calls <<stream, payload, metadata>>

vars == <<pc, streams, ready, current, request, sent, link, window, wire, broken, calls>>
client == <<request, sent, link, window>>

NoRequest == [headers |-> <<>>, bytes |-> <<>>]

StreamState == [known |-> FALSE, http_method |-> "", method |-> "", content_type |-> "",
                payload |-> <<>>, metadata |-> <<>>, early_status |-> "none",
                end_stream |-> FALSE, submitted |-> FALSE, response |-> <<>>, offset |-> 0,
                trailers |-> <<>>, trailers_submitted |-> FALSE]

Silent == [headers |-> FALSE, data |-> <<>>, trailers |-> <<>>]

Init ==
    /\ pc = "read"
    /\ streams = [s \in Streams |-> StreamState]
    /\ ready = <<>> /\ current = CHOOSE s \in Streams : TRUE
    /\ request = [s \in Streams |-> NoRequest] /\ sent = [s \in Streams |-> 0]
    /\ link = [s \in Streams |-> "idle"] /\ window = [s \in Streams |-> Window]
    /\ wire = [s \in Streams |-> Silent]
    /\ broken = FALSE /\ calls = <<>>

-----------------------------------------------------------------------------
(* The callbacks of nghttp2_session_mem_recv *)

is_reserved_metadata(name) ==
    name \in {"content-type", "te", "grpc-timeout", "grpc-encoding", "grpc-accept-encoding"}
is_pseudo(name)           == name \in {":method", ":path", ":scheme", ":authority"}
is_reserved_trailer(name) == name \in {"grpc-status", "grpc-message"}

(* What is told apart of the text functions: one name in another spelling, and  *)
(* one longer content type with the prefix.                                     *)
to_lower_ascii(name) == IF name = "Grpc-Status" THEN "grpc-status" ELSE name
starts_with_grpc_content_type(value) ==
    value \in {"application/grpc", "application/grpc+proto"}

on_header(state, h) ==
    IF h.name = ":method" THEN [state EXCEPT !.http_method = h.value]
    ELSE IF h.name = ":path" THEN [state EXCEPT !.method = h.value]
    ELSE IF h.name = "content-type" THEN [state EXCEPT !.content_type = h.value]
    ELSE IF is_pseudo(h.name) \/ is_reserved_metadata(h.name) THEN state
    ELSE [state EXCEPT !.metadata = Append(@, h)]

(* The callbacks run in the order of the headers. *)
on_begin_headers(headers) ==
    LET after[i \in 0..Len(headers)] ==
            IF i = 0 THEN [StreamState EXCEPT !.known = TRUE]
                     ELSE on_header(after[i - 1], headers[i])
    IN  after[Len(headers)]

(* END_STREAM queues the stream for processing. *)
on_frame_recv(state, end) == IF end THEN [state EXCEPT !.end_stream = TRUE] ELSE state

Headers(s, req, end) ==
    /\ pc = "recv"
    /\ link[s] = "idle"
    /\ Cardinality({t \in Streams : link[t] \in {"open", "half"}}) < max_concurrent_streams
    /\ end <=> (req.bytes = <<>>)
    /\ request' = [request EXCEPT ![s] = req]
    /\ link' = [link EXCEPT ![s] = IF end THEN "half" ELSE "open"]
    /\ streams' = [streams EXCEPT ![s] = on_frame_recv(on_begin_headers(req.headers), end)]
    /\ ready' = IF end THEN Append(ready, s) ELSE ready
    /\ UNCHANGED <<pc, current, sent, window, wire, broken, calls>>

(* Mutant: the limit forgets the envelope. *)
on_data_chunk_recv_NoEnvelope(state, chunk) ==
    IF Len(state.payload) + Len(chunk) > MaxMessage
    THEN [state EXCEPT !.early_status = "ResourceExhausted"]
    ELSE [state EXCEPT !.payload = @ \o chunk]

(* A chunk that would pass the limit is dropped and decides the status. *)
on_data_chunk_recv(state, chunk) ==
    IF Len(state.payload) + Len(chunk) > MaxMessage + kEnvelopeSize
    THEN [state EXCEPT !.early_status = "ResourceExhausted"]
    ELSE [state EXCEPT !.payload = @ \o chunk]

Data(s, n) ==
    /\ pc = "recv"
    /\ link[s] = "open"
    /\ n \in 1..(Len(request[s].bytes) - sent[s])
    /\ LET chunk == SubSeq(request[s].bytes, sent[s] + 1, sent[s] + n)
           end   == sent[s] + n = Len(request[s].bytes)
       IN  /\ streams' = [streams EXCEPT ![s] = on_frame_recv(on_data_chunk_recv(@, chunk), end)]
           /\ ready' = IF end THEN Append(ready, s) ELSE ready
           /\ link' = [link EXCEPT ![s] = IF end THEN "half" ELSE "open"]
    /\ sent' = [sent EXCEPT ![s] = @ + n]
    /\ UNCHANGED <<pc, current, request, window, wire, broken, calls>>

(* No callback is registered for these two: only nghttp2 learns of them. *)
RstStream(s) ==
    /\ pc = "recv"
    /\ link[s] \in {"open", "half"}
    /\ link' = [link EXCEPT ![s] = "closed"]
    /\ UNCHANGED <<pc, streams, ready, current, request, sent, window, wire, broken, calls>>

WindowUpdate(s) ==
    /\ pc = "recv"
    /\ link[s] \in {"open", "half"}
    /\ window[s] = 0
    /\ window' = [window EXCEPT ![s] = Window + 1]
    /\ UNCHANGED <<pc, streams, ready, current, request, sent, link, wire, broken, calls>>

-----------------------------------------------------------------------------
(* run(): read until the peer is gone or a frame is malformed *)

ReadSome ==
    /\ pc = "read" /\ ~broken
    /\ pc' = "recv"
    /\ UNCHANGED <<streams, ready, current, client, wire, broken, calls>>

ReadEnds ==
    /\ pc = "read"
    /\ pc' = "ended"
    /\ UNCHANGED <<streams, ready, current, client, wire, broken, calls>>

RecvFails ==
    /\ pc = "recv"
    /\ pc' = "ended"
    /\ UNCHANGED <<streams, ready, current, client, wire, broken, calls>>

RecvDone ==
    /\ pc = "recv"
    /\ pc' = "process"
    /\ UNCHANGED <<streams, ready, current, client, wire, broken, calls>>

-----------------------------------------------------------------------------
(* process_ready_streams *)

status_for_decode_error(error) ==
    IF error = "MessageTooLarge" THEN "ResourceExhausted"
    ELSE IF error = "CompressionUnsupported" THEN "Unimplemented" ELSE "Internal"

(* Mutant: the size verdict of the chunks is forgotten. *)
refusal_NoEarly(state) ==
    IF state.http_method # "POST" THEN "Internal"
    ELSE IF ~starts_with_grpc_content_type(state.content_type) THEN "Internal"
    ELSE IF state.method \notin Known THEN "Unimplemented"
    ELSE IF decode_error(state.payload, MaxMessage) = "none" THEN "none"
    ELSE status_for_decode_error(decode_error(state.payload, MaxMessage))

(* The first test that fails decides the status; "none" calls the handler. *)
refusal(state) ==
    IF state.early_status # "none" THEN state.early_status
    ELSE IF state.http_method # "POST" THEN "Internal"
    ELSE IF ~starts_with_grpc_content_type(state.content_type) THEN "Internal"
    ELSE IF state.method \notin Known THEN "Unimplemented"
    ELSE IF decode_error(state.payload, MaxMessage) = "none" THEN "none"
    ELSE status_for_decode_error(decode_error(state.payload, MaxMessage))

(* submit_response: the handler's trailers, the status and, for an error, its   *)
(* message; they replace any earlier ones.                                      *)
submit_response(state, status, metadata) ==
    LET own == [i \in DOMAIN metadata |-> [metadata[i] EXCEPT !.name = to_lower_ascii(@)]]
    IN  [state EXCEPT !.trailers =
             Append(own, [name |-> "grpc-status", value |-> status])
               \o (IF status = "Ok" THEN <<>> ELSE <<[name |-> "grpc-message", value |-> status]>>),
                      !.trailers_submitted = FALSE]

submit_status(state, status) ==
    submit_response([state EXCEPT !.response = <<>>, !.offset = 0], status, <<>>)

Process ==
    /\ pc = "process"
    /\ ready # <<>>
    /\ ready' = Tail(ready)
    /\ LET s     == Head(ready)
           state == [streams[s] EXCEPT !.submitted = TRUE]
       IN  IF streams[s].submitted \/ ~streams[s].end_stream
           THEN UNCHANGED <<streams, current, pc, calls>>
           ELSE IF refusal(state) # "none"
           THEN /\ streams' = [streams EXCEPT ![s] = submit_status(state, refusal(state))]
                /\ UNCHANGED <<current, pc, calls>>
           ELSE /\ streams' = [streams EXCEPT ![s] = state]
                /\ calls' = Append(calls, <<s, decode_unary_message(state.payload),
                                            state.metadata>>)
                /\ current' = s /\ pc' = "handler"
    /\ UNCHANGED <<client, wire, broken>>

ProcessDone ==
    /\ pc = "process"
    /\ ready = <<>>
    /\ pc' = "flush"
    /\ UNCHANGED <<streams, ready, current, client, wire, broken, calls>>

(* The handler's answer: an error status, a reserved trailer, a response that  *)
(* is too large, a thrown exception (status Unknown) or a response.            *)
answer(state, r) ==
    IF r.status # "Ok" THEN submit_status(state, r.status)
    ELSE IF \E i \in DOMAIN r.trailers : is_reserved_trailer(to_lower_ascii(r.trailers[i].name))
    THEN submit_status(state, "Internal")
    ELSE IF encode_error(r.payload, MaxMessage) # "none"
    THEN submit_status(state, status_for_decode_error(encode_error(r.payload, MaxMessage)))
    ELSE submit_response([state EXCEPT !.response = encode_unary_message(r.payload)],
                         "Ok", r.trailers)

HandlerReturns(r) ==
    /\ pc = "handler"
    /\ streams' = [streams EXCEPT ![current] = answer(@, r)]
    /\ pc' = "process"
    /\ UNCHANGED <<ready, current, client, wire, broken, calls>>

-----------------------------------------------------------------------------
(* flush(): nghttp2 pulls what it may send; each piece is written and awaited *)

Sendable(s) == streams[s].submitted /\ link[s] \in {"open", "half"} /\ ~broken

HeadersDue(s) == Sendable(s) /\ streams[s].trailers # <<>> /\ ~wire[s].headers
DataDue(s) ==
    /\ Sendable(s) /\ wire[s].headers /\ ~streams[s].trailers_submitted
    /\ window[s] > 0 \/ streams[s].response = <<>>
TrailersDue(s) == Sendable(s) /\ streams[s].trailers_submitted /\ wire[s].trailers = <<>>

SendHeaders(s) ==
    /\ pc = "flush" /\ HeadersDue(s)
    /\ wire' = [wire EXCEPT ![s].headers = TRUE]
    /\ UNCHANGED <<pc, streams, ready, current, client, broken, calls>>

(* Mutant: the trailers are submitted with the first piece. *)
on_data_read_Early(state, length) ==
    [state EXCEPT !.offset = @ + Min({length, Len(state.response) - state.offset}),
                  !.trailers_submitted = TRUE]

(* Mutant: a piece without bytes never ends the data. *)
on_data_read_NoEmpty(state, length) ==
    LET to_copy == Min({length, Len(state.response) - state.offset})
        offset  == state.offset + to_copy
    IN  [state EXCEPT !.offset = offset,
                      !.trailers_submitted = @ \/ (to_copy > 0 /\ offset >= Len(state.response))]

(* on_data_read fills at most `length` bytes; the last piece submits the trailers. *)
on_data_read(state, length) ==
    LET to_copy == Min({length, Len(state.response) - state.offset})
        offset  == state.offset + to_copy
    IN  [state EXCEPT !.offset = offset,
                      !.trailers_submitted = @ \/ offset >= Len(state.response)]

SendData(s) ==
    /\ pc = "flush" /\ DataDue(s)
    /\ LET next == on_data_read(streams[s], window[s])
           n    == next.offset - streams[s].offset
       IN  /\ streams' = [streams EXCEPT ![s] = next]
           /\ window' = [window EXCEPT ![s] = @ - n]
           /\ wire' = [wire EXCEPT ![s].data =
                         @ \o SubSeq(streams[s].response, next.offset - n + 1, next.offset)]
    /\ UNCHANGED <<pc, ready, current, request, sent, link, broken, calls>>

SendTrailers(s) ==
    /\ pc = "flush" /\ TrailersDue(s)
    /\ wire' = [wire EXCEPT ![s].trailers = streams[s].trailers]
    /\ link' = [link EXCEPT ![s] = "closed"]
    /\ UNCHANGED <<pc, streams, ready, current, request, sent, window, broken, calls>>

FlushDone ==
    /\ pc = "flush"
    /\ \A s \in Streams : ~HeadersDue(s) /\ ~DataDue(s) /\ ~TrailersDue(s)
    /\ pc' = "read"
    /\ UNCHANGED <<streams, ready, current, client, wire, broken, calls>>

(* A failed write ends this flush; run() notices at its next read. *)
PeerGone ==
    /\ pc = "flush" /\ ~broken
    /\ broken' = TRUE
    /\ UNCHANGED <<pc, streams, ready, current, client, wire, calls>>

-----------------------------------------------------------------------------
ClientStep ==
    \/ \E s \in Streams, req \in Requests, end \in BOOLEAN : Headers(s, req, end)
    \/ \E s \in Streams, n \in 1..(MaxMessage + kEnvelopeSize + 1) : Data(s, n)
    \/ \E s \in Streams : RstStream(s) \/ WindowUpdate(s)
    \/ PeerGone

ServerStep ==
    \/ RecvDone \/ Process \/ ProcessDone \/ FlushDone
    \/ \E r \in Results : HandlerReturns(r)
    \/ \E s \in Streams : SendHeaders(s) \/ SendData(s) \/ SendTrailers(s)

Next == ClientStep \/ ServerStep \/ ReadSome \/ ReadEnds \/ RecvFails

(* The coroutine goes on once it is resumed, handlers return; the client need *)
(* not send anything.                                                         *)
Spec == Init /\ [][Next]_vars /\ WF_vars(ServerStep)

-----------------------------------------------------------------------------
Ended(s) == streams[s].end_stream

(* What the client should be told, from its whole request and without regard  *)
(* to how it was cut into DATA frames: the reference for refusal().           *)
Header(req, name) ==
    LET at == {i \in DOMAIN req.headers : req.headers[i].name = name}
    IN  IF at = {} THEN "" ELSE req.headers[CHOOSE i \in at : \A j \in at : j <= i].value
Metadata(req) ==
    {h \in ToSet(req.headers) : ~is_pseudo(h.name) /\ ~is_reserved_metadata(h.name)}
Body(req)     == SubSeq(req.bytes, kEnvelopeSize + 1, Len(req.bytes))
Announced(req) ==   \* the length field, most significant byte first
    req.bytes[2] * (kOctets * kOctets * kOctets) + req.bytes[3] * (kOctets * kOctets)
      + req.bytes[4] * kOctets + req.bytes[5]
WellFormed(req) ==
    /\ req.bytes = encode_unary_message(Body(req))
    /\ Len(Body(req)) <= MaxMessage
Expected(req) ==
    IF Len(req.bytes) > MaxMessage + kEnvelopeSize THEN "ResourceExhausted"
    ELSE IF \/ Header(req, ":method") # "POST"
            \/ ~starts_with_grpc_content_type(Header(req, "content-type"))
    THEN "Internal"
    ELSE IF Header(req, ":path") \notin Known THEN "Unimplemented"
    ELSE IF WellFormed(req) THEN "none"
    ELSE IF Len(req.bytes) >= kEnvelopeSize /\ req.bytes[1] # 0 THEN "Unimplemented"
    ELSE IF Len(req.bytes) >= kEnvelopeSize /\ Announced(req) > MaxMessage
    THEN "ResourceExhausted"
    ELSE "Internal"

(* The handler of a stream is called at most once, only for a request that is *)
(* complete and well formed, and with exactly the bytes and metadata the      *)
(* client sent, in whatever pieces they came (no dropped chunk goes missing). *)
HandlerSeesRequest ==
    \A i \in DOMAIN calls :
        LET s == calls[i][1]
        IN  /\ Expected(request[s]) = "none"
            /\ calls[i][2] = Body(request[s])
            /\ ToSet(calls[i][3]) = Metadata(request[s])
            /\ \A j \in DOMAIN calls : calls[j][1] = s => j = i

(* The status lines of a stream's trailers. *)
StatusLines(s) == {i \in DOMAIN wire[s].trailers : wire[s].trailers[i].name = "grpc-status"}
Status(s) == wire[s].trailers[CHOOSE i \in StatusLines(s) : TRUE].value

(* A response is headers, then the whole encoded message, then the trailers   *)
(* with one status, and nothing after them; a refused request gets the status *)
(* its contents call for and no data.                                         *)
AnswerInOrder ==
    \A s \in Streams :
        /\ wire[s].data # <<>> => wire[s].headers /\ IsPrefix(wire[s].data, streams[s].response)
        /\ wire[s].trailers # <<>> =>
               /\ wire[s].headers /\ wire[s].data = streams[s].response
               /\ Cardinality(StatusLines(s)) = 1
               /\ Status(s) = "Ok" => decode_error(wire[s].data, MaxMessage) = "none"
               /\ Expected(request[s]) # "none" =>
                      Status(s) = Expected(request[s]) /\ wire[s].data = <<>>

(* Every request that is complete is answered, unless the client resets it,   *)
(* closes its window or the connection ends: no stream is forgotten behind    *)
(* another one's handler.                                                     *)
Answered ==
    \A s \in Streams :
        Ended(s) ~> \/ wire[s].trailers # <<>>
                    \/ link[s] = "closed" \/ window[s] = 0
                    \/ broken \/ pc = "ended"
=============================================================================
