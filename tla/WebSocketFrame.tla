--------------------------- MODULE WebSocketFrame ---------------------------
(***************************************************************************)
(* RFC 6455 frames (src/net/websocket_frame.cpp): the parser for frames    *)
(* that arrive in pieces, and the emitter of server frames.                *)
(*                                                                         *)
(* A frame on the wire is its header fields and the length of its payload; *)
(* what stands at each of its bytes is a token, so that a payload byte is  *)
(* recovered only if it is unmasked with the key byte it was masked with.  *)
(***************************************************************************)
EXTENDS Naturals, Sequences

kBaseHeaderBytes == 2
kMaskKeyBytes == 4
kPayload16Marker == 126
kPayload64Marker == 127
kMaxControlPayloadBytes == 125
kCloseCodeBytes == 2
kMaxUint16 == 65535

Control == {"Close", "Ping", "Pong"}
Data == {"Text", "Binary"}

\* The opcodes the parser knows; every other value is reserved.
is_known_opcode(raw) == raw \in Control \cup Data \cup {"Continuation"}

\* Bytes of the extended length that a 7-bit length announces.
ext_len_bytes(len7) ==
    IF len7 = kPayload16Marker THEN 2 ELSE IF len7 = kPayload64Marker THEN 8 ELSE 0

mask_bytes(f) == IF f.masked THEN kMaskKeyBytes ELSE 0

\* Header and whole length of a frame, as the sender laid it out.
HeaderSize(f) == kBaseHeaderBytes + ext_len_bytes(f.len7) + mask_bytes(f)
WireSize(f) == HeaderSize(f) + f.len

\* The byte at offset o of a frame: a byte of the key, or byte i of the
\* payload, masked with byte i % 4 of the key if the frame is masked.
Byte(f, o) ==
    LET key == kBaseHeaderBytes + ext_len_bytes(f.len7)
        i == o - HeaderSize(f)
    IN  IF o >= HeaderSize(f)
        THEN <<"payload", i, IF f.masked THEN i % kMaskKeyBytes ELSE kMaskKeyBytes>>
        ELSE IF f.masked /\ o >= key THEN <<"key", o - key>> ELSE <<"header">>

\* Payload bytes to look at: the first ones and the last.
Sample(len) == {i \in 0..4 : i < len} \cup (IF len > 0 THEN {len - 1} ELSE {})

\* XOR of a masked byte with a key byte gives the plain byte, or garbage.
Unmask(byte, key) ==
    IF Len(byte) = 3 /\ Len(key) = 2 /\ byte[3] = key[2] THEN <<"plain", byte[2]>> ELSE <<"garbage">>

Plain(len) == [i \in Sample(len) |-> <<"plain", i>>]

-----------------------------------------------------------------------------
\* Mutant: the key bytes are taken from right after the two base bytes.
payload_of_Key(f, ext, actual_header) ==
    [i \in Sample(f.len) |->
        LET byte == Byte(f, actual_header + i) IN
        IF f.masked THEN Unmask(byte, Byte(f, kBaseHeaderBytes + (i % kMaskKeyBytes)))
        ELSE <<"plain", byte[2]>>]

\* The masking key is read behind the length, the payload behind the key.
payload_of(f, ext, actual_header) ==
    LET mask_offset == kBaseHeaderBytes + ext IN
    [i \in Sample(f.len) |->
        LET byte == Byte(f, actual_header + i) IN
        IF f.masked THEN Unmask(byte, Byte(f, mask_offset + (i % kMaskKeyBytes)))
        ELSE IF Len(byte) = 3 THEN <<"plain", byte[2]>> ELSE <<"garbage">>]

Refused(kind) == [kind |-> kind, op |-> "none", consumed |-> 0, payload |-> <<>>]

\* The checks on the first two bytes, in the order the parser makes them.
check_base_header(f, expect_masked) ==
    IF \/ f.rsv
       \/ ~is_known_opcode(f.op)
       \/ f.op = "Continuation"
       \/ ~f.fin /\ f.op \in Control
       \/ ~f.fin /\ f.op \in Data
       \/ expect_masked /\ ~f.masked
       \/ ~expect_masked /\ f.masked
    THEN "Protocol" ELSE "ok"

\* The length of the payload can be read once its bytes are there.
check_length(f, size) ==
    IF size < kBaseHeaderBytes + ext_len_bytes(f.len7) THEN "Incomplete"
    ELSE IF f.len7 = kPayload64Marker /\ f.msb THEN "Protocol"
    ELSE "ok"

\* parse_frame_detailed on the first `size` bytes of frame f and what follows it.
parse_frame_detailed(f, size, max_payload_bytes, expect_masked) ==
    LET base == check_base_header(f, expect_masked)
        length == check_length(f, size)
        ext == ext_len_bytes(f.len7)
        actual_header == kBaseHeaderBytes + ext + mask_bytes(f)
        total_frame == actual_header + f.len
    IN  IF size < kBaseHeaderBytes THEN Refused("Incomplete")
        ELSE IF base # "ok" THEN Refused(base)
        ELSE IF length # "ok" THEN Refused(length)
        ELSE IF f.len > max_payload_bytes THEN Refused("TooLarge")
        ELSE IF size < total_frame THEN Refused("Incomplete")
        ELSE [kind |-> "Frame", op |-> f.op, consumed |-> total_frame,
              payload |-> payload_of(f, ext, actual_header)]

-----------------------------------------------------------------------------
\* Mutant: the 16-bit form is taken for 65536 too.
len7_of_OffByOne(payload_size) ==
    IF payload_size < kPayload16Marker THEN payload_size
    ELSE IF payload_size <= kMaxUint16 + 1 THEN kPayload16Marker ELSE kPayload64Marker

\* Byte 1 of an emitted frame.
len7_of(payload_size) ==
    IF payload_size < kPayload16Marker THEN payload_size
    ELSE IF payload_size <= kMaxUint16 THEN kPayload16Marker ELSE kPayload64Marker

\* The length that push_be16 or push_be64 can carry.
length_field(len7, payload_size) ==
    IF len7 = kPayload16Marker THEN payload_size % (kMaxUint16 + 1) ELSE payload_size

emit_frame(op, fin, payload_size) ==
    LET len7 == len7_of(payload_size) IN
    [rsv |-> FALSE, op |-> op, fin |-> fin, masked |-> FALSE, msb |-> FALSE,
     len7 |-> len7, len |-> length_field(len7, payload_size)]

\* A Close frame carries the code and at most 123 bytes of reason.
emit_close_frame(reason_size) ==
    LET room == kMaxControlPayloadBytes - kCloseCodeBytes
        reason_len == IF reason_size < room THEN reason_size ELSE room
    IN  emit_frame("Close", TRUE, kCloseCodeBytes + reason_len)
=============================================================================
