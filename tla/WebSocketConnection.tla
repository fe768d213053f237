------------------------ MODULE WebSocketConnection ------------------------
(***************************************************************************)
(* A connection that asks for a WebSocket: the handler App::ws registers,  *)
(* Request::upgrade_websocket with the handshake, and the read loop of the *)
(* session over bytes that arrive in pieces cut anywhere.                  *)
(*                                                                         *)
(* The concurrency of the session (send queue, strand, waiter) is the      *)
(* subject of WebSocketSession; here a frame that is queued counts as      *)
(* written.  The application echoes every message with send_nowait.        *)
(***************************************************************************)
EXTENDS WebSocketFrame, Base64, FiniteSets

CONSTANTS Requests,     \* header lists a request may have: <<<<name, value>>, ...>>
          Streams,      \* sequences of frames the client may send after the 101
          MaxPayload,   \* max_body_size
          DigestOf      \* external: SHA-1 of the key and the GUID, as bytes

ClientFrame == [rsv : BOOLEAN, op : STRING, fin : BOOLEAN, masked : BOOLEAN, msb : BOOLEAN,
                len7 : 0..127, len : Nat, code : Nat]

VARIABLES
    headers,     \* the parsed headers of the request
    stream,      \* the frames the client sends
    pc,          \* the connection coroutine
    owner,       \* who holds the TcpStream
    rd,          \* the read loop: "none", "read", "parse", "ended"
    consumed,    \* bytes erased from the front of the accumulator
    received,    \* bytes read so far
    eof,         \* the client has closed its side
    handled,     \* frames handed to the switch of the read loop
    close_sent,  \* WebSocketSession::close_sent_
    session_closed, \* WebSocketSession::closed_
    out          \* what was written on the connection

connectionVars == <<headers, stream, pc, owner, rd, consumed, received, eof, handled,
                    close_sent, session_closed, out>>

http == <<headers, stream, pc, owner>>
readLoop == <<rd, consumed, received, handled, close_sent, session_closed>>

-----------------------------------------------------------------------------
(* The handshake.  Names and values of headers are compared without case:   *)
(* they are spelled in lower case here.                                      *)

\* The value of the first header with that name, or the empty string.
ws_find_header(hs, name) ==
    LET at == {k \in 1..Len(hs) : hs[k][1] = name} IN
    IF at = {} THEN "" ELSE hs[CHOOSE k \in at : \A j \in at : k <= j][2]

\* Connection values that contain the word upgrade.
icontains_upgrade(value) == value \in {"upgrade", "keep-alive, upgrade"}

\* validate: the three headers RFC 6455 asks for.
validate(hs) ==
    /\ ws_find_header(hs, "upgrade") = "websocket"
    /\ icontains_upgrade(ws_find_header(hs, "connection"))
    /\ ws_find_header(hs, "sec-websocket-key") # ""

is_websocket_upgrade(hs) ==
    /\ ws_find_header(hs, "upgrade") = "websocket"
    /\ icontains_upgrade(ws_find_header(hs, "connection"))
    /\ ws_find_header(hs, "sec-websocket-key") # ""

compute_accept_key(client_key) == base64_encode(DigestOf[client_key])

\* Frames have the fields of a frame, the top bit of the long length only in
\* its long form, and the digest of a key is bytes.
ConnectionTypes ==
    /\ MaxPayload \in Nat
    /\ \A s \in Streams : s \in Seq(ClientFrame)
    /\ \A s \in Streams : \A k \in 1..Len(s) : s[k].msb => s[k].len7 = kPayload64Marker
    /\ \A hs \in Requests :
           validate(hs) => DigestOf[ws_find_header(hs, "sec-websocket-key")] \in Seq(0..255)

ASSUME ConnectionAssumption == ConnectionTypes

kCloseProtocolError == 1002
kCloseMessageTooLarge == 1009
kWebSocketNormalClosureCode == 1000

Http(status, accept) == [what |-> "http", status |-> status, accept |-> accept]
OnWire(f, code) == [what |-> "frame", frame |-> f, code |-> code]

\* App::ws: a request without the headers is refused; the others are upgraded.
WsHandler ==
    /\ pc = "dispatch"
    /\ pc' = IF is_websocket_upgrade(headers) THEN "upgrade" ELSE "bad_request"
    /\ UNCHANGED <<headers, stream, owner, readLoop, eof, out>>

\* upgrade_websocket: validate again, write the 101, give the stream to a new
\* session; when the write fails the handler answers 400 on the same stream.
UpgradeWebSocket ==
    /\ pc = "upgrade"
    /\ \/ /\ validate(headers)
          /\ out' = Append(out, Http(101, compute_accept_key(
                                ws_find_header(headers, "sec-websocket-key"))))
          /\ owner' = "session" /\ pc' = "opened"
       \/ /\ ~validate(headers) \/ eof
          /\ pc' = "bad_request"
          /\ UNCHANGED <<owner, out>>
    /\ UNCHANGED <<headers, stream, readLoop, eof>>

\* on_open, start_read_loop, and the coroutine parks in wait_for_close.
StartReadLoop ==
    /\ pc = "opened"
    /\ rd' = "read" /\ pc' = "parked"
    /\ UNCHANGED <<headers, stream, owner, consumed, received, handled,
                   close_sent, session_closed, eof, out>>

\* Mutant: writes the dummy response like any other.
SwitchingProtocols_Written ==
    /\ pc = "parked" /\ rd = "ended"
    /\ pc' = "closed"
    /\ out' = Append(out, Http(101, <<>>))
    /\ UNCHANGED <<headers, stream, owner, readLoop, eof>>

\* The session has closed: the handler returns the dummy 101 and the loop of
\* the connection leaves without writing it.
SwitchingProtocols ==
    /\ pc = "parked" /\ rd = "ended"
    /\ pc' = "closed"
    /\ UNCHANGED <<headers, stream, owner, readLoop, eof, out>>

\* The 400 is written by the loop of the connection, on the stream it owns.
BadRequest ==
    /\ pc = "bad_request"
    /\ \/ out' = Append(out, Http(400, <<>>))
       \/ eof /\ UNCHANGED out
    /\ pc' = "closed"
    /\ UNCHANGED <<headers, stream, owner, readLoop, eof>>

-----------------------------------------------------------------------------
(* The bytes of the client. *)

\* The number of bytes before frame k.
StartOf(s, k) ==
    LET start[i \in 1..k] == IF i = 1 THEN 0 ELSE start[i - 1] + WireSize(s[i - 1])
    IN  start[k]

\* Where a read may end: anywhere in a header, around the first bytes of a
\* payload, and around its last byte.  A read that ends further inside a
\* payload differs from these in nothing the parser looks at.
Cuts(s) ==
    UNION { {StartOf(s, k) + o : o \in 1..(HeaderSize(s[k]) + (IF s[k].len > 0 THEN 1 ELSE 0))}
              \cup {StartOf(s, k) + WireSize(s[k]) - 1, StartOf(s, k) + WireSize(s[k])}
            : k \in 1..Len(s) }

\* The frame that starts at an offset; a byte inside a frame is not one.
FrameAt(offset) ==
    LET at == {k \in 1..Len(stream) : StartOf(stream, k) = offset} IN
    IF at = {} THEN [emit_frame("Text", TRUE, 0) EXCEPT !.rsv = TRUE]
    ELSE stream[CHOOSE k \in at : TRUE]

ClientCloses ==
    /\ ~eof /\ eof' = TRUE
    /\ UNCHANGED <<http, readLoop, out>>

-----------------------------------------------------------------------------
(* do_read_loop *)

\* stream_.read: some more bytes go to the accumulator.
ReadChunk ==
    /\ rd = "read"
    /\ \E c \in Cuts(stream) : c > received /\ received' = c
    /\ rd' = "parse"
    /\ UNCHANGED <<http, consumed, handled, close_sent, session_closed, eof, out>>

\* End of file or an I/O error.
ReadFails ==
    /\ rd = "read" /\ eof
    /\ rd' = "ended" /\ session_closed' = TRUE
    /\ UNCHANGED <<http, consumed, received, handled, close_sent, eof, out>>

\* A frame that is not complete, or nothing left: read on.
ParseIncomplete(r) ==
    /\ r.kind = "Incomplete"
    /\ rd' = "read"
    /\ UNCHANGED <<http, consumed, received, handled, close_sent, session_closed, eof, out>>

\* "Message too large" or "Protocol error", behind the code.
error_frame(kind) ==
    IF kind = "TooLarge" THEN OnWire(emit_close_frame(17), kCloseMessageTooLarge)
    ELSE OnWire(emit_close_frame(14), kCloseProtocolError)

\* A protocol error: one Close frame says which, and the session ends.
ParseError(r) ==
    /\ r.kind \in {"Protocol", "TooLarge"}
    /\ out' = IF close_sent THEN out ELSE Append(out, error_frame(r.kind))
    /\ close_sent' = TRUE /\ session_closed' = TRUE /\ rd' = "ended"
    /\ UNCHANGED <<http, consumed, received, handled, eof>>

\* The code of a Close frame, if it has one.
close_code(f) == IF f.len >= kCloseCodeBytes THEN f.code ELSE kWebSocketNormalClosureCode

\* What the switch over the opcode does with a frame.
Replies(f) ==
    IF f.op \in Data THEN <<OnWire(emit_frame("Text", TRUE, f.len), 0)>>
    ELSE IF f.op = "Ping" THEN <<OnWire(emit_frame("Pong", TRUE, f.len), 0)>>
    ELSE IF f.op = "Close" /\ ~close_sent
         THEN <<OnWire(emit_close_frame(0), close_code(f))>>
    ELSE <<>>

\* Mutant: back to read after one frame, whatever else the chunk held.
OnFrame_One(f, r) ==
    /\ r.kind = "Frame"
    /\ handled' = Append(handled, [op |-> r.op, payload |-> r.payload])
    /\ out' = out \o Replies(f)
    /\ consumed' = consumed + r.consumed
    /\ close_sent' = (close_sent \/ r.op = "Close")
    /\ session_closed' = (r.op = "Close")
    /\ rd' = IF r.op = "Close" THEN "ended" ELSE "read"
    /\ UNCHANGED <<http, received, eof>>

\* The consumed bytes leave the accumulator; a Close ends the session.
OnFrame(f, r) ==
    /\ r.kind = "Frame"
    /\ handled' = Append(handled, [op |-> r.op, payload |-> r.payload])
    /\ out' = out \o Replies(f)
    /\ consumed' = consumed + r.consumed
    /\ close_sent' = (close_sent \/ r.op = "Close")
    /\ session_closed' = (r.op = "Close")
    /\ rd' = IF r.op = "Close" THEN "ended" ELSE "parse"
    /\ UNCHANGED <<http, received, eof>>

\* One turn of the loop over the accumulator.
ParseFrame ==
    /\ rd = "parse"
    /\ \E f \in {FrameAt(consumed)} :
       \E r \in {parse_frame_detailed(f, received - consumed, MaxPayload, TRUE)} :
            ParseIncomplete(r) \/ ParseError(r) \/ OnFrame(f, r)

-----------------------------------------------------------------------------
ConnectionInit ==
    /\ headers \in Requests /\ stream \in Streams
    /\ pc = "dispatch" /\ owner = "http"
    /\ rd = "none" /\ consumed = 0 /\ received = 0 /\ eof = FALSE
    /\ handled = <<>> /\ close_sent = FALSE /\ session_closed = FALSE /\ out = <<>>

Serve ==
    \/ WsHandler \/ UpgradeWebSocket \/ StartReadLoop \/ SwitchingProtocols \/ BadRequest
    \/ ReadChunk \/ ReadFails \/ ParseFrame

ConnectionNext == Serve \/ ClientCloses

\* The executor resumes the connection and the read loop; the client need not
\* close, and everything it sent arrives.
ConnectionSpec ==
    ConnectionInit /\ [][ConnectionNext]_connectionVars /\ WF_connectionVars(Serve)

-----------------------------------------------------------------------------
(* Properties *)

\* What RFC 6455 calls a legal frame of a client, for a server without
\* extensions and, as documented, without fragmentation.
Legal(f) == f.op \in Control \cup Data /\ f.fin /\ ~f.rsv /\ f.masked /\ ~f.msb

\* The frames handled are the first ones sent, in order, each once and with
\* its payload unmasked, however the bytes were cut into reads; and the read
\* loop gives up with 1002 or 1009 only at a frame that is illegal or too
\* large, with everything before it handled (a Close that the client sends is
\* echoed with its own code, whatever that is).
FramesAsSent ==
    /\ Len(handled) <= Len(stream)
    /\ \A k \in 1..Len(handled) :
        /\ Legal(stream[k]) /\ stream[k].len <= MaxPayload
        /\ handled[k] = [op |-> stream[k].op, payload |-> Plain(stream[k].len)]
    /\ \A j \in 1..Len(out) :
        /\ out[j].what = "frame" /\ out[j].code \in {kCloseProtocolError, kCloseMessageTooLarge}
        /\ \A k \in 1..Len(handled) : handled[k].op # "Close"
        => LET f == stream[Len(handled) + 1] IN
            IF out[j].code = kCloseProtocolError THEN ~Legal(f)
            ELSE Legal(f) /\ f.len > MaxPayload

\* A client reads what the server writes; it takes any control frame, and
\* messages as large as those the server takes.
ReadsBack(f) ==
    parse_frame_detailed(f, WireSize(f), MaxPayload + kMaxControlPayloadBytes, FALSE)

\* Replies written for the first k frames: all but a Pong are answered.
Answers(k) == Cardinality({i \in 1..k : handled[i].op # "Pong"})

\* Every frame the server writes can be read back, and a Close frame is the
\* last one.  Behind the 101 stand the replies, one for each frame that is
\* answered and in that order: the echo of a message and the answer to a Ping
\* have the size that was put in, whatever length encoding it takes.
RepliesReadable ==
    /\ \A j \in 1..Len(out) :
        out[j].what = "frame" =>
            /\ ReadsBack(out[j].frame).kind = "Frame"
            /\ out[j].frame.op = "Close" => j = Len(out) /\ out[j].frame.len <= 125
    /\ \A k \in 1..Len(handled) :
        handled[k].op \in Data \cup {"Ping"} =>
            ReadsBack(out[1 + Answers(k)].frame).payload = handled[k].payload

\* One HTTP answer is written and it is the first thing on the wire: the 101
\* with the accept value of this request's key, if all three headers offer an
\* upgrade, and a 400 otherwise.  After the 101 only the session writes.
OneHttpAnswer ==
    \A j \in 1..Len(out) :
        out[j].what = "http" =>
            /\ j = 1
            /\ out[j].status = 101 =>
                /\ owner = "session"
                /\ base64_decode(out[j].accept)
                     = DigestOf[ws_find_header(headers, "sec-websocket-key")]
            /\ out[j].status = 400 => Len(out) = 1 /\ owner = "http"

\* Every frame that arrives is handled, also when several arrive in one read
\* and nothing follows them, unless the session ends before.
EveryFrameHandled ==
    \A k \in 1..2 : (rd # "none" /\ Len(stream) >= k)
                        ~> (Len(handled) >= k \/ session_closed)
=============================================================================
