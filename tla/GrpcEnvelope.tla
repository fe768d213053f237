---------------------------- MODULE GrpcEnvelope ----------------------------
(***************************************************************************)
(* The five-byte envelope of a gRPC message: a compression flag and a        *)
(* big-endian 32-bit length (src/plugins/grpc/grpc_envelope.cpp).  Bytes are *)
(* the numbers 0..255.                                                       *)
(***************************************************************************)
EXTENDS Naturals, Sequences

kEnvelopeSize     == 5
kUncompressedFlag == 0
kOctets           == 256

read_big_endian_u32(b) == ((b[1] * kOctets + b[2]) * kOctets + b[3]) * kOctets + b[4]

append_big_endian_u32(out, value) ==
    out \o << (value \div (kOctets * kOctets * kOctets)) % kOctets,
              (value \div (kOctets * kOctets)) % kOctets,
              (value \div kOctets) % kOctets,
              value % kOctets >>

(* Mutant: a longer message than announced is accepted. *)
decode_error_Longer(bytes, max) ==
    IF Len(bytes) < kEnvelopeSize THEN "ProtocolError"
    ELSE IF bytes[1] # kUncompressedFlag THEN "CompressionUnsupported"
    ELSE IF read_big_endian_u32(SubSeq(bytes, 2, 5)) > max THEN "MessageTooLarge"
    ELSE IF Len(bytes) < kEnvelopeSize + read_big_endian_u32(SubSeq(bytes, 2, 5))
         THEN "ProtocolError"
    ELSE "none"

(* The tests in the order of the code; the last one rejects a message that is *)
(* shorter or longer than its envelope says.                                  *)
decode_error(bytes, max) ==
    IF Len(bytes) < kEnvelopeSize THEN "ProtocolError"
    ELSE IF bytes[1] # kUncompressedFlag THEN "CompressionUnsupported"
    ELSE IF read_big_endian_u32(SubSeq(bytes, 2, 5)) > max THEN "MessageTooLarge"
    ELSE IF Len(bytes) # kEnvelopeSize + read_big_endian_u32(SubSeq(bytes, 2, 5))
         THEN "ProtocolError"
    ELSE "none"

decode_unary_message(bytes) == SubSeq(bytes, kEnvelopeSize + 1, Len(bytes))

encode_error(payload, max) == IF Len(payload) > max THEN "MessageTooLarge" ELSE "none"

encode_unary_message(payload) ==
    append_big_endian_u32(<<kUncompressedFlag>>, Len(payload)) \o payload
=============================================================================
