------------------------------- MODULE Base64 -------------------------------
(***************************************************************************)
(* base64_encode (src/net/base64.hpp) on sequences of bytes.  A character  *)
(* of the alphabet is its index 0..63; the padding character is 64.        *)
(***************************************************************************)
EXTENDS Naturals, Sequences, FiniteSets

Pad == 64

\* The four characters of a full group of three bytes.
full_group(a, b, c) ==
    LET trio == a * 65536 + b * 256 + c
    IN  <<trio \div 262144, (trio \div 4096) % 64, (trio \div 64) % 64, trio % 64>>

\* Mutant: the tail of two bytes is shifted as if it were one of three.
last_group_Shift(rest) ==
    IF Len(rest) = 1
    THEN <<rest[1] \div 4, (rest[1] * 16) % 64, Pad, Pad>>
    ELSE LET val == rest[1] * 256 + rest[2]
         IN  <<val \div 1024, (val \div 16) % 64, val % 64, Pad>>

\* One or two bytes are left: padded with zero bits and with '='.
last_group(rest) ==
    IF Len(rest) = 1
    THEN <<rest[1] \div 4, (rest[1] * 16) % 64, Pad, Pad>>
    ELSE LET val == rest[1] * 256 + rest[2]
         IN  <<val \div 1024, (val \div 16) % 64, (val * 4) % 64, Pad>>

base64_encode(input) ==
    LET in_size == Len(input)
        group(g) == IF 3 * g <= in_size
                    THEN full_group(input[3 * g - 2], input[3 * g - 1], input[3 * g])
                    ELSE last_group(SubSeq(input, 3 * g - 2, in_size))
    IN  [k \in 1..(((in_size + 2) \div 3) * 4) |->
            group(((k - 1) \div 4) + 1)[((k - 1) % 4) + 1]]

\* What RFC 4648 says the characters stand for: four of them are a word of
\* three bytes, and padding stands for bytes that are not there.
digit(c) == IF c = Pad THEN 0 ELSE c
word(chars, g) ==
    digit(chars[4 * g - 3]) * 262144 + digit(chars[4 * g - 2]) * 4096
      + digit(chars[4 * g - 1]) * 64 + digit(chars[4 * g])
octet(w, k) ==
    IF k % 3 = 1 THEN w \div 65536
    ELSE IF k % 3 = 2 THEN (w \div 256) % 256 ELSE w % 256

base64_decode(chars) ==
    LET size == (Len(chars) \div 4) * 3
                  - Cardinality({k \in 1..Len(chars) : chars[k] = Pad})
    IN  [k \in 1..size |-> octet(word(chars, ((k - 1) \div 3) + 1), k)]
=============================================================================
