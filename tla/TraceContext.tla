---------------------------- MODULE TraceContext ----------------------------
(***************************************************************************)
(* The traceparent header of a request (src/http/traceparent.hpp): its parts, *)
(* with hex digits in lower case.  A header value is a sequence of            *)
(* characters.                                                                *)
(***************************************************************************)
EXTENDS Naturals, Sequences, SequencesExt

kTraceParentLength == 55
kTraceIdStart      == 4       \* positions count from 1
kTraceIdLength     == 32
kParentIdStart     == 37
kParentIdLength    == 16
kTraceFlagsStart   == 54
kTraceFlagsLength  == 2
Separators         == {3, 36, 53}

Digits   == <<"0", "1", "2", "3", "4", "5", "6", "7", "8", "9", "a", "b", "c", "d", "e", "f">>
UpperHex == [c \in {"A", "B", "C", "D", "E", "F"} |->
                CASE c = "A" -> "a" [] c = "B" -> "b" [] c = "C" -> "c"
                  [] c = "D" -> "d" [] c = "E" -> "e" [] c = "F" -> "f"]

is_lower_hex(c) == c \in ToSet(Digits)
is_hex(c)       == is_lower_hex(c) \/ c \in DOMAIN UpperHex
lower(c)        == IF c \in DOMAIN UpperHex THEN UpperHex[c] ELSE c
hex_nibble(c)   == SelectInSeq(Digits, LAMBDA d : d = lower(c)) - 1

(* Mutant: the ids keep the case they were sent in. *)
Field_AsSent(header, start, length) == SubSeq(header, start, start + length - 1)

Field(header, start, length) == [i \in 1..length |-> lower(header[start + i - 1])]
all_zero(field)              == \A i \in DOMAIN field : field[i] = "0"
all_hex(field)               == \A i \in DOMAIN field : is_hex(field[i])

Invalid == [trace_id |-> <<>>, parent_id |-> <<>>, flags |-> 0]

(* Version 00, hex digits in every field, ids that are not all zero. *)
parse_traceparent(header) ==
    IF \/ Len(header) # kTraceParentLength
       \/ \E i \in Separators : header[i] # "-"
       \/ header[1] # "0" \/ header[2] # "0"
    THEN Invalid
    ELSE LET trace_id  == Field(header, kTraceIdStart, kTraceIdLength)
             parent_id == Field(header, kParentIdStart, kParentIdLength)
             flags     == Field(header, kTraceFlagsStart, kTraceFlagsLength)
         IN  IF \/ ~all_hex(trace_id) \/ all_zero(trace_id)
                \/ ~all_hex(parent_id) \/ all_zero(parent_id)
                \/ ~all_hex(flags)
             THEN Invalid
             ELSE [trace_id |-> trace_id, parent_id |-> parent_id,
                   flags |-> 16 * hex_nibble(flags[1]) + hex_nibble(flags[2])]
=============================================================================
