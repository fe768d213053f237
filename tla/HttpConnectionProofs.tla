------------------------ MODULE HttpConnectionProofs ------------------------
(***************************************************************************)
(* TLAPS proofs about HttpConnection and TraceContext, for any limits of the *)
(* parser, any requests, any number of them and any way TCP cuts them, and   *)
(* about the static-file middleware (StaticFiles), for any root, request,    *)
(* configuration and file system.                                            *)
(***************************************************************************)
EXTENDS HttpConnection, StaticFiles, SequenceTheorems, WellFoundedInduction, TLAPS

-----------------------------------------------------------------------------
(* Trace context: what parse_traceparent accepts and returns. *)

(* Lower-casing a character keeps "0" and "-" apart from every other, and a    *)
(* character is a hex digit exactly when its lower-case form is.               *)
LEMMA LowerFacts ==
    ASSUME NEW c
    PROVE  /\ lower(c) = "0" <=> c = "0"
           /\ lower(c) = "-" <=> c = "-"
           /\ is_hex(lower(c)) <=> is_lower_hex(lower(c))
  <1>1. CASE c \in {"A", "B", "C", "D", "E", "F"}
    <2>1. lower(c) \in {"a", "b", "c", "d", "e", "f"}
      BY <1>1 DEF lower, UpperHex
    <2>2. lower(c) \notin DOMAIN UpperHex
      BY <2>1 DEF UpperHex
    <2>3. \A d : d \notin DOMAIN UpperHex => lower(d) = d /\ (is_hex(d) <=> is_lower_hex(d))
      BY DEF lower, is_hex, is_lower_hex
    <2>4. lower(c) \notin {"0", "-"} /\ c \notin {"0", "-"}
      BY <1>1, <2>1
    <2> QED
      BY <2>2, <2>3, <2>4
  <1>2. CASE c \notin {"A", "B", "C", "D", "E", "F"}
    <2>1. c \notin DOMAIN UpperHex
      BY <1>2 DEF UpperHex
    <2> QED
      BY <2>1 DEF lower, is_hex, is_lower_hex
  <1> QED
    BY <1>1, <1>2

(* The characters of a header's lower-case form. *)
Chars(v) == {Lower(v)[i] : i \in 1..Len(v)}

(* The lower-case form of a header, character by character. *)
LEMMA LowerHeader ==
    ASSUME NEW v \in Seq(STRING)
    PROVE  /\ Lower(v) \in Seq(Chars(v)) /\ Len(Lower(v)) = Len(v)
           /\ \A i \in 1..Len(v) : Lower(v)[i] = lower(v[i]) /\ Lower(v)[i] \in Chars(v)
  <1>1. /\ DOMAIN v = 1..Len(v) /\ Len(v) \in Nat
    OBVIOUS
  <1>2. \A i \in 1..Len(v) : Lower(v)[i] = lower(v[i]) /\ Lower(v)[i] \in Chars(v)
    BY <1>1 DEF Lower, Chars
  <1>3. Lower(v) = [i \in 1..Len(v) |-> lower(v[i])]
    BY <1>1 DEF Lower
  <1>4. Lower(v) \in [1..Len(v) -> Chars(v)]
    BY <1>2, <1>3
  <1> QED
    BY <1>1, <1>2, <1>4

(* y spells the m elements of w after the first n. *)
Spells(y, w, n, m) == Len(y) = m /\ \A i \in 1..m : y[i] = w[n + i]

(* A field is the part of the lower-case header it starts at. *)
LEMMA FieldElements ==
    ASSUME NEW v \in Seq(STRING), NEW a \in Nat, NEW n \in Nat,
           a > 0, n > 0, a + n - 1 <= Len(v)
    PROVE  /\ Field(v, a, n) \in Seq(Chars(v)) /\ Len(Field(v, a, n)) = n
           /\ DOMAIN Field(v, a, n) = 1..n
           /\ \A i \in 1..n : Field(v, a, n)[i] = Lower(v)[a + i - 1]
           /\ Field(v, a, n) # <<>>
           /\ \A b \in Nat : a = b + 1 => Spells(Field(v, a, n), Lower(v), b, n)
  <1> DEFINE F == Field(v, a, n)
  <1>1. \A i \in 1..n : a + i - 1 \in 1..Len(v)
    OBVIOUS
  <1>2. \A i \in 1..n : F[i] = Lower(v)[a + i - 1] /\ F[i] \in Chars(v)
    BY <1>1, LowerHeader DEF Field
  <1>3. F \in [1..n -> Chars(v)]
    BY <1>2 DEF Field
  <1>4. F \in Seq(Chars(v)) /\ Len(F) = n /\ DOMAIN F = 1..n
    BY <1>3
  <1>5. ASSUME NEW b \in Nat, a = b + 1 PROVE Spells(F, Lower(v), b, n)
    <2>1. \A i \in 1..n : a + i - 1 = b + i
      BY <1>5
    <2> HIDE DEF F
    <2> QED
      BY <1>2, <1>4, <2>1 DEF Spells
  <1> QED
    BY <1>2, <1>4, <1>5

(* The tests of a field are tests of that part of the lower-case header.       *)
LEMMA FieldTests ==
    ASSUME NEW v \in Seq(STRING), NEW a \in Nat, NEW n \in Nat, NEW e,
           a > 0, n > 0, e = a + n - 1, e <= Len(v)
    PROVE  /\ all_hex(Field(v, a, n)) <=> \A j \in a..e : is_lower_hex(Lower(v)[j])
           /\ all_zero(Field(v, a, n)) <=> \A j \in a..e : Lower(v)[j] = "0"
  <1> DEFINE F == Field(v, a, n)
  <1>1. \A i \in 1..n : a + i - 1 \in 1..Len(v)
    OBVIOUS
  <1>2. \A i \in 1..n : F[i] = Lower(v)[a + i - 1]
    BY FieldElements
  <1>4. DOMAIN F = 1..n
    BY FieldElements
  <1>5. \A i \in 1..n : is_hex(F[i]) <=> is_lower_hex(Lower(v)[a + i - 1])
    <2> TAKE i \in 1..n
    <2>1. a + i - 1 \in 1..Len(v)
      BY <1>1
    <2>2. F[i] = lower(v[a + i - 1])
      BY <1>2, <2>1, LowerHeader
    <2>3. Lower(v)[a + i - 1] = lower(v[a + i - 1])
      BY <2>1, LowerHeader
    <2>4. is_hex(lower(v[a + i - 1])) <=> is_lower_hex(lower(v[a + i - 1]))
      BY <2>2, LowerFacts
    <2> HIDE DEF F
    <2> QED
      BY <2>2, <2>3, <2>4
  <1>6. \A j \in a..e : j - a + 1 \in 1..n /\ a + (j - a + 1) - 1 = j
    OBVIOUS
  <1>7. \A i \in 1..n : a + i - 1 \in a..e
    OBVIOUS
  <1>8. all_hex(F) <=> \A j \in a..e : is_lower_hex(Lower(v)[j])
    <2> HIDE DEF F
    <2>1. all_hex(F) <=> \A i \in 1..n : is_hex(F[i])
      BY <1>4 DEF all_hex
    <2>2. ASSUME all_hex(F), NEW j \in a..e PROVE is_lower_hex(Lower(v)[j])
      BY <1>5, <1>6, <2>1, <2>2
    <2>3. ASSUME \A j \in a..e : is_lower_hex(Lower(v)[j]) PROVE all_hex(F)
      BY <1>5, <1>7, <2>1, <2>3
    <2> QED
      BY <2>2, <2>3
  <1>9. all_zero(F) <=> \A j \in a..e : Lower(v)[j] = "0"
    <2> HIDE DEF F
    <2>1. all_zero(F) <=> \A i \in 1..n : F[i] = "0"
      BY <1>4 DEF all_zero
    <2>2. ASSUME all_zero(F), NEW j \in a..e PROVE Lower(v)[j] = "0"
      BY <1>2, <1>6, <2>1, <2>2
    <2>3. ASSUME \A j \in a..e : Lower(v)[j] = "0" PROVE all_zero(F)
      BY <1>2, <1>7, <2>1, <2>3
    <2> QED
      BY <2>2, <2>3
  <1> QED
    BY <1>8, <1>9

(* Two pieces that spell one part of a sequence after the other spell both.    *)
LEMMA PiecesSpell ==
    ASSUME NEW S, NEW w, NEW x \in Seq(S), NEW y \in Seq(S), NEW n \in Nat, NEW m \in Nat,
           Spells(x, w, 0, n), Spells(y, w, n, m)
    PROVE  x \o y \in Seq(S) /\ Spells(x \o y, w, 0, n + m)
  <1>1. /\ Len(x) = n /\ Len(y) = m
        /\ \A i \in 1..n : x[i] = w[i]
        /\ \A i \in 1..m : y[i] = w[n + i]
    BY DEF Spells
  <1>2. /\ x \o y \in Seq(S) /\ Len(x \o y) = n + m
        /\ \A i \in 1..(n + m) : (x \o y)[i] = IF i <= n THEN x[i] ELSE y[i - n]
    BY <1>1, ConcatProperties
  <1>3. ASSUME NEW i \in 1..(n + m), i > n PROVE y[i - n] = w[i]
    BY <1>1, <1>3
  <1>4. \A i \in 1..(n + m) : (x \o y)[i] = w[0 + i]
    BY <1>1, <1>2, <1>3
  <1> QED
    BY <1>2, <1>4 DEF Spells

(* What spells the same is the same.                                           *)
LEMMA SameSpelling ==
    ASSUME NEW S, NEW w, NEW x \in Seq(S), NEW y \in Seq(S), NEW n,
           Spells(x, w, 0, n), Spells(y, w, 0, n)
    PROVE  x = y
  <1>1. Len(x) = Len(y) /\ \A i \in 1..Len(x) : x[i] = y[i]
    BY DEF Spells
  <1> QED
    BY <1>1, SeqEqual

(* parse_traceparent accepts exactly the headers of the grammar, and the parts *)
(* it returns are those of the header, in lower case: the W3C rules of         *)
(* traceparent.hpp, with upper-case digits admitted.                           *)
THEOREM ParseCorrect ==
    ASSUME NEW v \in Seq(STRING)
    PROVE  /\ parse_traceparent(v) # Invalid <=> IsTraceParent(v)
           /\ parse_traceparent(v) # Invalid => OwnTrace(v)
  <1> DEFINE low == Lower(v)
             tid == Field(v, 4, 32)
             pid == Field(v, 37, 16)
             flg == Field(v, 54, 2)
             Shape == Len(v) = 55 /\ (\A i \in {3, 36, 53} : v[i] = "-") /\ v[1] = "0" /\ v[2] = "0"
             Parts == all_hex(tid) /\ ~all_zero(tid) /\ all_hex(pid) /\ ~all_zero(pid) /\ all_hex(flg)
             Flags == 16 * hex_nibble(flg[1]) + hex_nibble(flg[2])
  <1>1. parse_traceparent(v) =
            IF ~Shape THEN Invalid
            ELSE IF ~Parts THEN Invalid
            ELSE [trace_id |-> tid, parent_id |-> pid, flags |-> Flags]
    BY DEF parse_traceparent, kTraceParentLength, kTraceIdStart, kTraceIdLength, kParentIdStart,
           kParentIdLength, kTraceFlagsStart, kTraceFlagsLength, Separators
  <1>2. CASE Len(v) # 55
    BY <1>1, <1>2 DEF IsTraceParent
  <1>3. CASE Len(v) = 55
    <2>1. /\ low \in Seq(Chars(v)) /\ Len(low) = 55
          /\ \A i \in 1..55 : low[i] = lower(v[i]) /\ low[i] \in Chars(v)
      BY <1>3, LowerHeader
    <2>2. Shape <=> (\A i \in {3, 36, 53} : low[i] = "-") /\ low[1] = "0" /\ low[2] = "0"
      <3>1. \A i \in 1..55 : (low[i] = "-" <=> v[i] = "-") /\ (low[i] = "0" <=> v[i] = "0")
        <4> TAKE i \in 1..55
        <4>1. (lower(v[i]) = "-" <=> v[i] = "-") /\ (lower(v[i]) = "0" <=> v[i] = "0")
          BY LowerFacts
        <4> HIDE DEF low
        <4> QED
          BY <2>1, <4>1
      <3> HIDE DEF low
      <3> QED
        BY <1>3, <3>1
    <2>3. tid \in Seq(Chars(v)) /\ tid # <<>> /\ Spells(tid, low, 3, 32)
      <3>1. /\ 4 + 32 - 1 <= Len(v) /\ 4 > 0 /\ 32 > 0 /\ 4 \in Nat /\ 32 \in Nat
            /\ 3 \in Nat /\ 4 = 3 + 1
        BY <1>3
      <3> QED
        BY <3>1, FieldElements, Zenon
    <2>13. /\ all_hex(tid) <=> \A j \in 4..35 : is_lower_hex(low[j])
           /\ all_zero(tid) <=> \A j \in 4..35 : low[j] = "0"
      <3>1. 35 = 4 + 32 - 1 /\ 35 <= Len(v) /\ 4 > 0 /\ 32 > 0 /\ 4 \in Nat /\ 32 \in Nat
        BY <1>3
      <3>2. all_hex(tid) <=> \A j \in 4..35 : is_lower_hex(low[j])
        BY <3>1, FieldTests, Zenon
      <3>3. all_zero(tid) <=> \A j \in 4..35 : low[j] = "0"
        BY <3>1, FieldTests, Zenon
      <3> QED
        BY <3>2, <3>3, Zenon
    <2>4. pid \in Seq(Chars(v)) /\ pid # <<>> /\ Spells(pid, low, 36, 16)
      <3>1. /\ 37 + 16 - 1 <= Len(v) /\ 37 > 0 /\ 16 > 0 /\ 37 \in Nat /\ 16 \in Nat
            /\ 36 \in Nat /\ 37 = 36 + 1
        BY <1>3
      <3> QED
        BY <3>1, FieldElements, Zenon
    <2>14. /\ all_hex(pid) <=> \A j \in 37..52 : is_lower_hex(low[j])
           /\ all_zero(pid) <=> \A j \in 37..52 : low[j] = "0"
      <3>1. 52 = 37 + 16 - 1 /\ 52 <= Len(v) /\ 37 > 0 /\ 16 > 0 /\ 37 \in Nat /\ 16 \in Nat
        BY <1>3
      <3>2. all_hex(pid) <=> \A j \in 37..52 : is_lower_hex(low[j])
        BY <3>1, FieldTests, Zenon
      <3>3. all_zero(pid) <=> \A j \in 37..52 : low[j] = "0"
        BY <3>1, FieldTests, Zenon
      <3> QED
        BY <3>2, <3>3, Zenon
    <2>5. /\ all_hex(flg) <=> \A j \in 54..55 : is_lower_hex(low[j])
          /\ all_zero(flg) <=> \A j \in 54..55 : low[j] = "0"
      <3>1. 55 = 54 + 2 - 1 /\ 55 <= Len(v) /\ 54 > 0 /\ 2 > 0 /\ 54 \in Nat /\ 2 \in Nat
        BY <1>3
      <3>2. all_hex(flg) <=> \A j \in 54..55 : is_lower_hex(low[j])
        BY <3>1, FieldTests, Zenon
      <3>3. all_zero(flg) <=> \A j \in 54..55 : low[j] = "0"
        BY <3>1, FieldTests, Zenon
      <3> QED
        BY <3>2, <3>3, Zenon
    <2>6. SubSeq(low, 1, 2) = <<"0", "0">> <=> low[1] = "0" /\ low[2] = "0"
      <3> HIDE DEF low
      <3>1. /\ SubSeq(low, 1, 2) \in Seq(Chars(v)) /\ Len(SubSeq(low, 1, 2)) = 2
            /\ SubSeq(low, 1, 2)[1] = low[1] /\ SubSeq(low, 1, 2)[2] = low[2]
        BY <2>1
      <3>2. ASSUME low[1] = "0", low[2] = "0" PROVE SubSeq(low, 1, 2) = <<"0", "0">>
        <4>1. "0" \in Chars(v)
          BY <2>1, <3>2
        <4>2. /\ <<"0", "0">> \in Seq(Chars(v)) /\ Len(<<"0", "0">>) = 2
              /\ <<"0", "0">>[1] = "0" /\ <<"0", "0">>[2] = "0"
          BY <4>1
        <4>3. \A i \in 1..2 : SubSeq(low, 1, 2)[i] = <<"0", "0">>[i]
          BY <3>1, <3>2, <4>2
        <4> QED
          BY <3>1, <4>2, <4>3, SeqEqual
      <3>3. ASSUME SubSeq(low, 1, 2) = <<"0", "0">> PROVE low[1] = "0" /\ low[2] = "0"
        <4>1. <<"0", "0">>[1] = "0" /\ <<"0", "0">>[2] = "0"
          OBVIOUS
        <4> QED
          BY <3>1, <3>3, <4>1
      <3> QED
        BY <3>2, <3>3
    <2>7. IsTraceParent(v) <=>
              /\ SubSeq(low, 1, 2) = <<"0", "0">>
              /\ \A i \in 1..55 : IF i \in {3, 36, 53} THEN low[i] = "-" ELSE is_lower_hex(low[i])
              /\ \E i \in 4..35 : low[i] # "0"
              /\ \E i \in 37..52 : low[i] # "0"
      BY <1>3 DEF IsTraceParent
    <2>8. is_lower_hex("0")
      <3>1. 1 \in DOMAIN Digits /\ Digits[1] = "0"
        BY DEF Digits
      <3> QED
        BY <3>1 DEF is_lower_hex, ToSet
    <2>9. Shape /\ Parts <=> IsTraceParent(v)
      <3> HIDE DEF low, tid, pid, flg
      <3>2. 1..55 = {1, 2, 3, 36, 53} \cup 4..35 \cup 37..52 \cup 54..55
        OBVIOUS
      <3>3. \A i \in 4..35 \cup 37..52 \cup 54..55 : i \notin {3, 36, 53}
        OBVIOUS
      <3>4. (\A i \in 1..55 : IF i \in {3, 36, 53} THEN low[i] = "-" ELSE is_lower_hex(low[i]))
            <=> /\ \A i \in {3, 36, 53} : low[i] = "-"
                /\ is_lower_hex(low[1]) /\ is_lower_hex(low[2])
                /\ \A i \in 4..35 : is_lower_hex(low[i])
                /\ \A i \in 37..52 : is_lower_hex(low[i])
                /\ \A i \in 54..55 : is_lower_hex(low[i])
        BY <3>2, <3>3
      <3>5. Parts <=> /\ \A i \in 4..35 : is_lower_hex(low[i])
                      /\ \A i \in 37..52 : is_lower_hex(low[i])
                      /\ \A i \in 54..55 : is_lower_hex(low[i])
                      /\ \E i \in 4..35 : low[i] # "0"
                      /\ \E i \in 37..52 : low[i] # "0"
        <4>1. all_hex(tid) /\ ~all_zero(tid) <=>
                  /\ \A i \in 4..35 : is_lower_hex(low[i])
                  /\ \E i \in 4..35 : low[i] # "0"
          BY <2>13, Zenon
        <4>2. all_hex(pid) /\ ~all_zero(pid) <=>
                  /\ \A i \in 37..52 : is_lower_hex(low[i])
                  /\ \E i \in 37..52 : low[i] # "0"
          BY <2>14, Zenon
        <4>3. all_hex(flg) <=> \A i \in 54..55 : is_lower_hex(low[i])
          BY <2>5, Zenon
        <4> QED
          BY <4>1, <4>2, <4>3, Zenon
      <3> HIDE DEF Shape, Parts
      <3> QED
        BY <2>2, <2>6, <2>7, <2>8, <3>4, <3>5
    <2>10. [trace_id |-> tid, parent_id |-> pid, flags |-> Flags] # Invalid
      BY <2>3 DEF Invalid
    <2>11. parse_traceparent(v) # Invalid <=> IsTraceParent(v)
      <3> HIDE DEF Shape, Parts, Flags, tid, pid
      <3> QED
        BY <1>1, <2>9, <2>10
    <2>12. ASSUME parse_traceparent(v) # Invalid
           PROVE  OwnTrace(v)
      <3>1. Shape /\ Parts
        BY <1>1, <2>12
      <3>2. parse_traceparent(v).trace_id = tid /\ parse_traceparent(v).parent_id = pid
        <4> HIDE DEF Shape, Parts, Flags, tid, pid
        <4> QED
          BY <1>1, <3>1
      <3>3. (\A i \in {3, 36, 53} : low[i] = "-") /\ low[1] = "0" /\ low[2] = "0"
        BY <2>2, <3>1
      <3> DEFINE a == <<"0", "0", "-">>
                 d == <<"-">>
      <3>4. "0" \in Chars(v) /\ "-" \in Chars(v)
        <4> HIDE DEF low
        <4> QED
          BY <2>1, <3>3
      <3>5. a \in Seq(Chars(v)) /\ Spells(a, low, 0, 3)
        <4> HIDE DEF low
        <4> QED
          BY <3>3, <3>4 DEF Spells
      <3>6. d \in Seq(Chars(v)) /\ Spells(d, low, 35, 1) /\ Spells(d, low, 52, 1)
        <4> HIDE DEF low
        <4> QED
          BY <3>3, <3>4 DEF Spells
      <3> HIDE DEF low, tid, pid, a, d, Shape, Parts
      <3>7. /\ 3 \in Nat /\ 32 \in Nat /\ 35 \in Nat /\ 1 \in Nat /\ 36 \in Nat
            /\ 16 \in Nat /\ 52 \in Nat
            /\ 3 + 32 = 35 /\ 35 + 1 = 36 /\ 36 + 16 = 52 /\ 52 + 1 = 53
        OBVIOUS
      <3>8. a \o tid \in Seq(Chars(v)) /\ Spells(a \o tid, low, 0, 3 + 32)
        BY <2>3, <3>5, <3>7, PiecesSpell, Zenon
      <3>9. (a \o tid) \o d \in Seq(Chars(v)) /\ Spells((a \o tid) \o d, low, 0, 35 + 1)
        BY <3>6, <3>7, <3>8, PiecesSpell, Zenon
      <3>11. /\ ((a \o tid) \o d) \o pid \in Seq(Chars(v))
             /\ Spells(((a \o tid) \o d) \o pid, low, 0, 36 + 16)
        BY <2>4, <3>7, <3>9, PiecesSpell, Zenon
      <3>12. /\ (((a \o tid) \o d) \o pid) \o d \in Seq(Chars(v))
             /\ Spells((((a \o tid) \o d) \o pid) \o d, low, 0, 52 + 1)
        BY <3>6, <3>7, <3>11, PiecesSpell, Zenon
      <3>13. SubSeq(low, 1, 53) \in Seq(Chars(v)) /\ Spells(SubSeq(low, 1, 53), low, 0, 53)
        BY <2>1 DEF Spells
      <3>10. (((a \o tid) \o d) \o pid) \o d = SubSeq(low, 1, 53)
        BY <3>7, <3>12, <3>13, SameSpelling, Zenon
      <3> QED
        BY <3>2, <3>10 DEF OwnTrace, low, tid, pid, a, d
    <2> QED
      BY <2>11, <2>12
  <1> QED
    BY <1>2, <1>3, LenProperties

-----------------------------------------------------------------------------
(* The connection: the inductive invariant. *)

Traces   == DOMAIN TraceHeaders \cup {NoTrace}
Kinds    == {"line", "header", "end_keep", "end_close", "body", "junk"}
Errors   == {"none", "TooManyHeaders", "TooLarge", "BadRequest"}
Statuses == {"none", "ok", "bad_request", "upgraded"}
Clients  == SUBSET (1..MaxRequests)
TokenSet == [kind : Kinds, req : 1..MaxRequests, last : BOOLEAN, trace : Traces]
Parsers  == [from : Clients, headers : Nat, open : BOOLEAN, body : Nat, keep : BOOLEAN,
             trace : Traces, complete : BOOLEAN, error : Errors]
Answers  == [status : Statuses, to : Clients, trace : Traces]

DataTypes ==
    /\ asked \in Seq(Shapes) /\ Len(asked) <= MaxRequests
    /\ socket \in Seq(TokenSet) /\ chunk \in Seq(TokenSet)
    /\ pc \in {"read", "feed", "dispatch", "write", "reset", "closed"}
    /\ parser \in Parsers
    /\ serving \in Clients /\ trace \in Traces /\ status \in Statuses
    /\ answers \in Seq(Answers)

FlagTypes == eof \in BOOLEAN /\ keep \in BOOLEAN

(* The buffer is empty outside feed(), and a parser without an error is within *)
(* its limits.                                                                 *)
Limits ==
    /\ chunk # <<>> => pc = "feed"
    /\ parser.headers <= MaxHeaders + 1 /\ parser.body <= MaxBody + 1
    /\ parser.error = "none" => parser.headers <= MaxHeaders /\ parser.body <= MaxBody

(* p is the parser after the first n tokens of request k, which has shape s.   *)
After(k, s, n, p) ==
    /\ p.from = IF n = 0 THEN {} ELSE {k}
    /\ p.error # "none" => n > 0 /\ ~Acceptable(s) /\ ~p.complete
    /\ p.error = "none" =>
           /\ p.complete <=> n = s.h + s.b + 2
           /\ s.junk => n <= 1
           /\ p.headers = IF n <= 1 THEN 0 ELSE IF n <= s.h + 1 THEN n - 2 ELSE s.h
           /\ p.open <=> n \in 2..(s.h + 1)
           /\ p.body = IF n <= s.h + 2 THEN 0 ELSE n - s.h - 2
           /\ p.keep <=> n >= s.h + 2 /\ s.keep
           /\ p.trace = IF n >= s.h + 1 THEN s.trace ELSE NoTrace

(* The request being answered, its tokens and how many the parser has seen.    *)
Newest == asked[Len(asked)]
Sent   == Tokens(Len(asked), Newest)
Seen   == Len(Sent) - Len(chunk) - Len(socket)

(* What the parser has not seen is in the buffer and the socket, in order.     *)
Unseen ==
    /\ Seen >= 0
    /\ \A i \in 1..Len(chunk) : chunk[i] = Sent[Seen + i]
    /\ \A i \in 1..Len(socket) : socket[i] = Sent[Seen + Len(chunk) + i]

(* The trace a handler should find.                                            *)
TraceOf(s) == IF s.trace = NoTrace THEN NoTrace
              ELSE IF IsTraceParent(TraceHeaders[s.trace]) THEN s.trace ELSE NoTrace

(* The Request of the last message and nothing else is being handled.          *)
Dispatched ==
    /\ chunk = <<>> /\ socket = <<>> /\ serving = {Len(asked)}
    /\ Acceptable(Newest) /\ trace = TraceOf(Newest)

Refused ==
    /\ serving = {Len(asked)} /\ ~Acceptable(Newest)
    /\ trace = NoTrace /\ ~keep

(* Between requests nothing is left of the last one. *)
Idle == Len(asked) = Len(answers) /\ pc # "closed" =>
    /\ socket = <<>> /\ chunk = <<>> /\ pc \in {"read", "reset"}
    /\ pc = "read" => parser = Fresh

(* With one request unanswered, every part of it is somewhere.                 *)
Busy == Len(asked) = Len(answers) + 1 =>
    /\ pc = "reset" => chunk = <<>> /\ socket = Sent
    /\ pc \in {"read", "feed"} => Unseen /\ After(Len(asked), Newest, Seen, parser)
    /\ pc = "dispatch" => Dispatched
    /\ pc = "write" => \/ status = "ok" /\ Dispatched
                       \/ status = "bad_request" /\ Refused

OneAtATime == Len(answers) <= Len(asked) /\ Len(asked) <= Len(answers) + 1

TypeInv == DataTypes /\ FlagTypes /\ Limits
IInv    == TypeInv /\ OneAtATime /\ Idle /\ Busy /\ RightAnswer

-----------------------------------------------------------------------------
(* The tokens of a request. *)

(* What the assumption says of a request. *)
LEMMA ShapeFacts ==
    ASSUME NEW s \in Shapes
    PROVE  /\ s.h \in Nat /\ s.b \in Nat /\ s.keep \in BOOLEAN /\ s.junk \in BOOLEAN
           /\ s.trace \in Traces
           /\ s.junk => s.h = 0 /\ s.b = 0
           /\ s.trace # NoTrace => s.h > 0
  BY HttpAssumption DEF Traces

(* The elements of a concatenation. *)
LEMMA ConcatAt ==
    ASSUME NEW S, NEW x \in Seq(S), NEW y \in Seq(S), NEW n, n = Len(x)
    PROVE  /\ x \o y \in Seq(S) /\ Len(x \o y) = n + Len(y)
           /\ \A i \in 1..n : (x \o y)[i] = x[i]
           /\ \A i \in (n + 1)..(n + Len(y)) : (x \o y)[i] = y[i - n]
  BY ConcatProperties

(* A single token as a sequence. *)
LEMMA OneToken ==
    ASSUME NEW t \in TokenSet
    PROVE  <<t>> \in Seq(TokenSet) /\ Len(<<t>>) = 1 /\ <<t>>[1] = t
  OBVIOUS

(* A token without a trace is a token. *)
LEMMA TokenType ==
    ASSUME NEW kind \in Kinds, NEW k \in 1..MaxRequests, NEW l \in BOOLEAN, NEW tr \in Traces
    PROVE  /\ Token(kind, k, l) \in TokenSet
           /\ [Token(kind, k, l) EXCEPT !.trace = tr] \in TokenSet
  BY DEF Token, TokenSet, Traces

(* A header line, with the traceparent it holds, if any. *)
HeaderToken(k, tr) == [Token("header", k, FALSE) EXCEPT !.trace = tr]

(* The tokens of request k, one by one: every one of them carries k, only the  *)
(* last one of a well-formed request ends the message.                         *)
LEMMA TokensAt ==
    ASSUME NEW k \in 1..MaxRequests, NEW s \in Shapes
    PROVE  /\ Tokens(k, s) \in Seq(TokenSet) /\ Len(Tokens(k, s)) = s.h + s.b + 2
           /\ Tokens(k, s)[1] = Token("line", k, FALSE)
           /\ s.junk => Tokens(k, s)[2] = Token("junk", k, FALSE)
           /\ ~s.junk =>
                /\ \A i \in 2..(s.h + 1) :
                      Tokens(k, s)[i] = HeaderToken(k, IF i = s.h + 1 THEN s.trace ELSE NoTrace)
                /\ Tokens(k, s)[s.h + 2] =
                      Token(IF s.keep THEN "end_keep" ELSE "end_close", k, s.b = 0)
                /\ \A i \in (s.h + 3)..(s.h + s.b + 2) :
                      Tokens(k, s)[i] = Token("body", k, i = s.h + s.b + 2)
  <1> USE DEF Kinds
  <1>0. /\ s.h \in Nat /\ s.b \in Nat /\ s.keep \in BOOLEAN /\ s.junk \in BOOLEAN
        /\ s.trace \in Traces /\ NoTrace \in Traces
        /\ s.junk => s.h = 0 /\ s.b = 0
    BY ShapeFacts DEF Traces
  <1>1. CASE s.junk
    <2> DEFINE x == Token("line", k, FALSE)
               y == Token("junk", k, FALSE)
    <2>1. x \in TokenSet /\ y \in TokenSet
      BY <1>0, TokenType
    <2>2. Tokens(k, s) = <<x, y>>
      BY <1>1 DEF Tokens
    <2> HIDE DEF x, y
    <2>3. <<x, y>> \in Seq(TokenSet) /\ Len(<<x, y>>) = 2 /\ <<x, y>>[1] = x /\ <<x, y>>[2] = y
      BY <2>1
    <2> QED
      <3>1. s.h + s.b + 2 = 2
        BY <1>0, <1>1
      <3> QED
        BY <1>1, <2>2, <2>3, <3>1 DEF x, y
  <1>2. CASE ~s.junk
    <2> DEFINE a == Token("line", k, FALSE)
               B == [i \in 1..s.h |-> HeaderToken(k, IF i = s.h THEN s.trace ELSE NoTrace)]
               c == Token(IF s.keep THEN "end_keep" ELSE "end_close", k, s.b = 0)
               D == [i \in 1..s.b |-> Token("body", k, i = s.b)]
    <2>1. Tokens(k, s) = ((<<a>> \o B) \o <<c>>) \o D
      BY <1>2 DEF Tokens, HeaderToken
    <2>2. <<a>> \in Seq(TokenSet) /\ Len(<<a>>) = 1 /\ <<a>>[1] = a
      <3>1. a \in TokenSet
        BY <1>0, TokenType
      <3> QED
        BY <3>1, OneToken
    <2>3. <<c>> \in Seq(TokenSet) /\ Len(<<c>>) = 1 /\ <<c>>[1] = c
      <3>1. c \in TokenSet
        BY <1>0, TokenType
      <3> QED
        BY <3>1, OneToken
    <2>4. B \in Seq(TokenSet) /\ Len(B) = s.h
      <3>1. \A i \in 1..s.h : B[i] \in TokenSet
        BY <1>0, TokenType DEF HeaderToken
      <3>2. B \in [1..s.h -> TokenSet]
        BY <3>1
      <3> HIDE DEF B
      <3> QED
        BY <1>0, <3>2
    <2>5. D \in Seq(TokenSet) /\ Len(D) = s.b
      <3>1. \A i \in 1..s.b : D[i] \in TokenSet
        BY <1>0, TokenType
      <3>2. D \in [1..s.b -> TokenSet]
        BY <3>1
      <3> HIDE DEF D
      <3> QED
        BY <1>0, <3>2
    <2>6. /\ \A i \in 1..s.h : B[i] = HeaderToken(k, IF i = s.h THEN s.trace ELSE NoTrace)
          /\ \A i \in 1..s.b : D[i] = Token("body", k, i = s.b)
      OBVIOUS
    <2> HIDE DEF a, B, c, D
    <2>7. /\ <<a>> \o B \in Seq(TokenSet) /\ Len(<<a>> \o B) = 1 + s.h
          /\ (<<a>> \o B)[1] = a
          /\ \A i \in 2..(s.h + 1) : (<<a>> \o B)[i] = B[i - 1]
      BY <1>0, <2>2, <2>4, ConcatProperties
    <2>8. /\ (<<a>> \o B) \o <<c>> \in Seq(TokenSet) /\ Len((<<a>> \o B) \o <<c>>) = s.h + 2
          /\ ((<<a>> \o B) \o <<c>>)[1] = a
          /\ \A i \in 2..(s.h + 1) : ((<<a>> \o B) \o <<c>>)[i] = B[i - 1]
          /\ ((<<a>> \o B) \o <<c>>)[s.h + 2] = c
      <3> DEFINE E == <<a>> \o B
      <3> HIDE DEF E
      <3>1. /\ E \in Seq(TokenSet) /\ Len(E) = 1 + s.h /\ E[1] = a
            /\ \A i \in 2..(s.h + 1) : E[i] = B[i - 1]
        BY <2>7 DEF E
      <3>2. /\ E \o <<c>> \in Seq(TokenSet) /\ Len(E \o <<c>>) = s.h + 2
            /\ (E \o <<c>>)[1] = a
            /\ \A i \in 2..(s.h + 1) : (E \o <<c>>)[i] = B[i - 1]
            /\ (E \o <<c>>)[s.h + 2] = c
        <4>1. /\ E \o <<c>> \in Seq(TokenSet) /\ Len(E \o <<c>>) = s.h + 1 + 1
              /\ \A i \in 1..(s.h + 1) : (E \o <<c>>)[i] = E[i]
              /\ \A i \in (s.h + 1 + 1)..(s.h + 1 + 1) : (E \o <<c>>)[i] = <<c>>[i - (s.h + 1)]
          <5>1. s.h + 1 = Len(E)
            BY <1>0, <3>1
          <5> QED
            BY <2>3, <3>1, <5>1, ConcatAt
        <4> DEFINE G == E \o <<c>>
        <4> HIDE DEF G
        <4>2. /\ G \in Seq(TokenSet) /\ Len(G) = s.h + 1 + 1
              /\ \A i \in 1..(s.h + 1) : G[i] = E[i]
              /\ G[s.h + 2] = c
          <5>1. s.h + 2 \in (s.h + 1 + 1)..(s.h + 1 + 1) /\ s.h + 2 - (s.h + 1) = 1
            BY <1>0
          <5>2. G[s.h + 2] = <<c>>[s.h + 2 - (s.h + 1)]
            BY <4>1, <5>1 DEF G
          <5> QED
            BY <2>3, <4>1, <5>1, <5>2 DEF G
        <4> QED
          BY <1>0, <3>1, <4>2 DEF G
      <3> QED
        BY <3>2 DEF E
    <2>9. /\ Tokens(k, s) \in Seq(TokenSet) /\ Len(Tokens(k, s)) = s.h + s.b + 2
          /\ Tokens(k, s)[1] = a
          /\ \A i \in 2..(s.h + 1) : Tokens(k, s)[i] = B[i - 1]
          /\ Tokens(k, s)[s.h + 2] = c
          /\ \A i \in (s.h + 3)..(s.h + s.b + 2) : Tokens(k, s)[i] = D[i - (s.h + 2)]
      <3> DEFINE E == (<<a>> \o B) \o <<c>>
      <3> HIDE DEF E
      <3>1. /\ E \in Seq(TokenSet) /\ Len(E) = s.h + 2 /\ E[1] = a
            /\ \A i \in 2..(s.h + 1) : E[i] = B[i - 1]
            /\ E[s.h + 2] = c
        BY <2>8 DEF E
      <3>2. /\ E \o D \in Seq(TokenSet) /\ Len(E \o D) = s.h + 2 + s.b
            /\ \A i \in 1..(s.h + 2) : (E \o D)[i] = E[i]
            /\ \A i \in (s.h + 3)..(s.h + s.b + 2) : (E \o D)[i] = D[i - (s.h + 2)]
        <4>1. s.h + 2 = Len(E)
          BY <3>1
        <4>2. /\ E \o D \in Seq(TokenSet) /\ Len(E \o D) = s.h + 2 + Len(D)
              /\ \A i \in 1..(s.h + 2) : (E \o D)[i] = E[i]
              /\ \A i \in (s.h + 2 + 1)..(s.h + 2 + Len(D)) : (E \o D)[i] = D[i - (s.h + 2)]
          <5>1. E \in Seq(TokenSet) /\ D \in Seq(TokenSet)
            BY <2>5, <3>1
          <5> HIDE DEF E, D
          <5>2. \A n : n = Len(E) =>
                    /\ E \o D \in Seq(TokenSet) /\ Len(E \o D) = n + Len(D)
                    /\ \A i \in 1..n : (E \o D)[i] = E[i]
                    /\ \A i \in (n + 1)..(n + Len(D)) : (E \o D)[i] = D[i - n]
            <6> TAKE n
            <6> HAVE n = Len(E)
            <6> QED
              BY <5>1, ConcatAt
          <5> QED
            BY <4>1, <5>2, Zenon
        <4>3. s.h + 2 + 1 = s.h + 3 /\ s.h + 2 + Len(D) = s.h + s.b + 2
          BY <1>0, <2>5
        <4> QED
          BY <2>5, <4>2, <4>3
      <3>3. Tokens(k, s) = E \o D
        BY <2>1 DEF E
      <3> DEFINE G == E \o D
      <3> HIDE DEF G
      <3>4. /\ G \in Seq(TokenSet) /\ Len(G) = s.h + 2 + s.b
            /\ \A i \in 1..(s.h + 2) : G[i] = E[i]
            /\ \A i \in (s.h + 3)..(s.h + s.b + 2) : G[i] = D[i - (s.h + 2)]
            /\ Tokens(k, s) = G
        BY <3>2, <3>3 DEF G
      <3>5. /\ 1 \in 1..(s.h + 2) /\ s.h + 2 \in 1..(s.h + 2)
            /\ \A i \in 2..(s.h + 1) : i \in 1..(s.h + 2)
            /\ s.h + 2 + s.b = s.h + s.b + 2
        BY <1>0
      <3> QED
        BY <3>1, <3>4, <3>5, Zenon
    <2>10. ASSUME NEW i \in 2..(s.h + 1)
           PROVE  Tokens(k, s)[i] = HeaderToken(k, IF i = s.h + 1 THEN s.trace ELSE NoTrace)
      <3>1. i - 1 \in 1..s.h /\ (i - 1 = s.h <=> i = s.h + 1)
        BY <1>0, <2>10
      <3>2. Tokens(k, s)[i] = B[i - 1]
        BY <2>9
      <3>3. (IF i - 1 = s.h THEN s.trace ELSE NoTrace) = (IF i = s.h + 1 THEN s.trace ELSE NoTrace)
        BY <3>1
      <3> QED
        BY <2>6, <3>1, <3>2, <3>3
    <2>11. ASSUME NEW i \in (s.h + 3)..(s.h + s.b + 2)
           PROVE  Tokens(k, s)[i] = Token("body", k, i = s.h + s.b + 2)
      <3>1. i - (s.h + 2) \in 1..s.b /\ (i - (s.h + 2) = s.b <=> i = s.h + s.b + 2)
        BY <1>0, <2>11
      <3>2. (i - (s.h + 2) = s.b) = (i = s.h + s.b + 2)
        BY <3>1
      <3> QED
        BY <2>6, <2>9, <3>1, <3>2
    <2> QED
      BY <1>2, <2>9, <2>10, <2>11 DEF a, c
  <1> QED
    BY <1>0, <1>1, <1>2

-----------------------------------------------------------------------------
(* One callback of the parser. *)

(* What a callback makes of the parser: the values of parser' in Callback. *)
Consume(q, t) ==
    [q EXCEPT !.from = @ \cup {t.req}, !.complete = t.last /\ q.error = "none"]
WithHeader(p, t) ==
    [CommitHeader(p) EXCEPT !.open = TRUE, !.trace = IF t.trace = NoTrace THEN @ ELSE t.trace]
WithEnd(p, t)  == [CommitHeader(p) EXCEPT !.keep = (t.kind = "end_keep")]
WithBody(p)    == [p EXCEPT !.body = @ + 1, !.error = IF p.body + 1 > MaxBody THEN "TooLarge" ELSE @]
WithJunk(p)    == [p EXCEPT !.error = "BadRequest"]

(* The parser that callback makes of p for token t. *)
Called(p, t) ==
    CASE t.kind = "line"                      -> p
      [] t.kind = "header"                    -> WithHeader(p, t)
      [] t.kind \in {"end_keep", "end_close"} -> WithEnd(p, t)
      [] t.kind = "body"                      -> WithBody(p)
      [] t.kind = "junk"                      -> WithJunk(p)

Callbacks == OnUrl \/ OnHeader \/ OnHeadersComplete \/ OnBody \/ OnSyntaxError

(* Every callback of llhttp takes the first token off the buffer. *)
LEMMA CallbackStep ==
    ASSUME Callbacks
    PROVE  /\ pc = "feed" /\ chunk # <<>> /\ ~parser.complete /\ parser.error = "none"
           /\ parser' = Consume(Called(parser, Head(chunk)), Head(chunk))
           /\ chunk' = Tail(chunk)
           /\ UNCHANGED <<client, pc, keep, serving, trace, status, answers>>
  <1>1. CASE OnUrl
    <2>1. Head(chunk).kind = "line"
      BY <1>1 DEF OnUrl, Callback
    <2>2. Called(parser, Head(chunk)) = parser
      BY <2>1 DEF Called
    <2> QED
      BY <1>1, <2>2 DEF OnUrl, Callback, Running, Consume
  <1>2. CASE OnHeader
    <2>1. Head(chunk).kind = "header"
      BY <1>2 DEF OnHeader, Callback
    <2>2. Called(parser, Head(chunk)) = WithHeader(parser, Head(chunk))
      BY <2>1 DEF Called
    <2> QED
      BY <1>2, <2>2 DEF OnHeader, Callback, Running, Consume, WithHeader
  <1>3. CASE OnHeadersComplete
    <2>1. Head(chunk).kind \in {"end_keep", "end_close"}
      BY <1>3 DEF OnHeadersComplete, Callback
    <2>2. Called(parser, Head(chunk)) = WithEnd(parser, Head(chunk))
      BY <2>1 DEF Called
    <2> QED
      BY <1>3, <2>2 DEF OnHeadersComplete, Callback, Running, Consume, WithEnd
  <1>4. CASE OnBody
    <2>1. Head(chunk).kind = "body"
      BY <1>4 DEF OnBody, Callback
    <2>2. Called(parser, Head(chunk)) = WithBody(parser)
      BY <2>1 DEF Called
    <2> QED
      BY <1>4, <2>2 DEF OnBody, Callback, Running, Consume, WithBody
  <1>5. CASE OnSyntaxError
    <2>1. Head(chunk).kind = "junk"
      BY <1>5 DEF OnSyntaxError, Callback
    <2>2. Called(parser, Head(chunk)) = WithJunk(parser)
      BY <2>1 DEF Called
    <2> QED
      BY <1>5, <2>2 DEF OnSyntaxError, Callback, Running, Consume, WithJunk
  <1> QED
    BY <1>1, <1>2, <1>3, <1>4, <1>5 DEF Callbacks

(* The fields of a parser. *)
LEMMA ParserFields ==
    ASSUME NEW p \in Parsers
    PROVE  /\ p.from \in Clients /\ p.headers \in Nat /\ p.open \in BOOLEAN /\ p.body \in Nat
           /\ p.keep \in BOOLEAN /\ p.trace \in Traces /\ p.complete \in BOOLEAN
           /\ p.error \in Errors
  BY DEF Parsers

(* commit_header counts an open header and reports one too many. *)
LEMMA CommitFacts ==
    ASSUME NEW p \in Parsers, p.error = "none"
    PROVE  /\ CommitHeader(p) \in Parsers
           /\ CommitHeader(p).headers = IF p.open THEN p.headers + 1 ELSE p.headers
           /\ CommitHeader(p).open = FALSE
           /\ CommitHeader(p).error = IF p.open /\ p.headers + 1 > MaxHeaders
                                      THEN "TooManyHeaders" ELSE "none"
           /\ CommitHeader(p).from = p.from /\ CommitHeader(p).body = p.body
           /\ CommitHeader(p).keep = p.keep /\ CommitHeader(p).trace = p.trace
           /\ CommitHeader(p).complete = p.complete
  <1>1. CASE ~p.open
    BY <1>1 DEF CommitHeader, Parsers, Errors
  <1>2. CASE p.open
    <2> DEFINE e == IF p.headers + 1 > MaxHeaders THEN "TooManyHeaders" ELSE p.error
    <2>1. CommitHeader(p) = [p EXCEPT !.headers = p.headers + 1, !.open = FALSE, !.error = e]
      BY <1>2 DEF CommitHeader
    <2>2. e \in Errors /\ p.headers + 1 \in Nat
      BY ParserFields DEF Errors
    <2>3. e = IF p.open /\ p.headers + 1 > MaxHeaders THEN "TooManyHeaders" ELSE "none"
      BY <1>2
    <2> HIDE DEF e
    <2> QED
      BY <1>2, <2>1, <2>2, <2>3 DEF Parsers
  <1> QED
    BY <1>1, <1>2

(* A callback makes a parser of a parser, within the limits while it has no    *)
(* error.                                                                      *)
LEMMA CalledType ==
    ASSUME NEW p \in Parsers, NEW t \in TokenSet,
           p.error = "none", p.headers <= MaxHeaders, p.body <= MaxBody
    PROVE  /\ Called(p, t) \in Parsers
           /\ Consume(Called(p, t), t) \in Parsers
           /\ Called(p, t).headers <= MaxHeaders + 1 /\ Called(p, t).body <= MaxBody + 1
           /\ Called(p, t).error = "none" =>
                  Called(p, t).headers <= MaxHeaders /\ Called(p, t).body <= MaxBody
           /\ Consume(Called(p, t), t).headers = Called(p, t).headers
           /\ Consume(Called(p, t), t).body = Called(p, t).body
           /\ Consume(Called(p, t), t).error = Called(p, t).error
  <1>0. /\ t.kind \in Kinds /\ t.req \in 1..MaxRequests /\ t.last \in BOOLEAN /\ t.trace \in Traces
        /\ MaxHeaders \in Nat /\ MaxBody \in Nat /\ p.headers \in Nat /\ p.body \in Nat
    BY HttpAssumption DEF TokenSet, Parsers
  <1> DEFINE q == Called(p, t)
             Fits == /\ q \in Parsers
                     /\ q.headers <= MaxHeaders + 1 /\ q.body <= MaxBody + 1
                     /\ q.error = "none" => q.headers <= MaxHeaders /\ q.body <= MaxBody
  <1>1. ASSUME t.kind = "line" PROVE Fits
    <2>1. q = p
      BY <1>1 DEF Called
    <2> QED
      BY <1>0, <2>1, ParserFields
  <1>2. ASSUME t.kind = "header" PROVE Fits
    <2>1. q = WithHeader(p, t)
      BY <1>2 DEF Called
    <2> DEFINE c == CommitHeader(p)
    <2>2. /\ c \in Parsers /\ c.body = p.body /\ c.headers \in Nat
          /\ c.headers <= MaxHeaders + 1
          /\ c.error = "none" => c.headers <= MaxHeaders
      <3>1. /\ c \in Parsers /\ c.body = p.body
            /\ c.headers = IF p.open THEN p.headers + 1 ELSE p.headers
            /\ c.error = IF p.open /\ p.headers + 1 > MaxHeaders THEN "TooManyHeaders" ELSE "none"
        BY CommitFacts
      <3> HIDE DEF c
      <3>2. c.headers \in Nat /\ c.headers <= MaxHeaders + 1
        BY <1>0, <3>1
      <3>3. c.error = "none" => c.headers <= MaxHeaders
        BY <1>0, <3>1
      <3> QED
        BY <3>1, <3>2, <3>3
    <2>3. q = [c EXCEPT !.open = TRUE, !.trace = IF t.trace = NoTrace THEN @ ELSE t.trace]
      BY <2>1 DEF WithHeader
    <2> HIDE DEF c
    <2>4. /\ q \in Parsers /\ q.headers = c.headers /\ q.body = c.body /\ q.error = c.error
      BY <1>0, <2>2, <2>3 DEF Parsers
    <2> HIDE DEF q
    <2> QED
      BY <1>0, <2>2, <2>4
  <1>3. ASSUME t.kind \in {"end_keep", "end_close"} PROVE Fits
    <2>1. q = WithEnd(p, t)
      BY <1>3 DEF Called
    <2> DEFINE c == CommitHeader(p)
    <2>2. /\ c \in Parsers /\ c.body = p.body /\ c.headers \in Nat
          /\ c.headers <= MaxHeaders + 1
          /\ c.error = "none" => c.headers <= MaxHeaders
      <3>1. /\ c \in Parsers /\ c.body = p.body
            /\ c.headers = IF p.open THEN p.headers + 1 ELSE p.headers
            /\ c.error = IF p.open /\ p.headers + 1 > MaxHeaders THEN "TooManyHeaders" ELSE "none"
        BY CommitFacts
      <3> HIDE DEF c
      <3>2. c.headers \in Nat /\ c.headers <= MaxHeaders + 1
        BY <1>0, <3>1
      <3>3. c.error = "none" => c.headers <= MaxHeaders
        BY <1>0, <3>1
      <3> QED
        BY <3>1, <3>2, <3>3
    <2>3. q = [c EXCEPT !.keep = (t.kind = "end_keep")]
      BY <2>1 DEF WithEnd
    <2> HIDE DEF c
    <2>4. /\ q \in Parsers /\ q.headers = c.headers /\ q.body = c.body /\ q.error = c.error
      BY <1>0, <2>2, <2>3 DEF Parsers
    <2> HIDE DEF q
    <2> QED
      BY <1>0, <2>2, <2>4
  <1>4. ASSUME t.kind = "body" PROVE Fits
    <2>1. q = WithBody(p)
      BY <1>4 DEF Called
    <2> HIDE DEF q
    <2>2. /\ q \in Parsers /\ q.headers = p.headers /\ q.body = p.body + 1
          /\ q.error = IF p.body + 1 > MaxBody THEN "TooLarge" ELSE "none"
      <3> DEFINE e == IF p.body + 1 > MaxBody THEN "TooLarge" ELSE p.error
      <3>1. q = [p EXCEPT !.body = p.body + 1, !.error = e]
        BY <2>1 DEF WithBody
      <3>2. e \in Errors /\ p.body + 1 \in Nat
        BY <1>0 DEF Errors
      <3>3. e = IF p.body + 1 > MaxBody THEN "TooLarge" ELSE "none"
        OBVIOUS
      <3> HIDE DEF e
      <3> QED
        BY <3>1, <3>2, <3>3 DEF Parsers
    <2> QED
      BY <1>0, <2>2, ParserFields
  <1>5. ASSUME t.kind = "junk" PROVE Fits
    <2>1. q = WithJunk(p)
      BY <1>5 DEF Called
    <2> HIDE DEF q
    <2>2. /\ q \in Parsers /\ q.headers = p.headers /\ q.body = p.body /\ q.error = "BadRequest"
      BY <2>1 DEF WithJunk, Parsers, Errors
    <2> QED
      BY <1>0, <2>2, ParserFields
  <1>6. Fits
    BY <1>0, <1>1, <1>2, <1>3, <1>4, <1>5 DEF Kinds
  <1> HIDE DEF q
  <1>7. /\ Consume(q, t) \in Parsers /\ Consume(q, t).headers = q.headers
        /\ Consume(q, t).body = q.body /\ Consume(q, t).error = q.error
    BY <1>0, <1>6 DEF Consume, Parsers, Clients
  <1> QED
    BY <1>6, <1>7 DEF q

-----------------------------------------------------------------------------
(* Types and limits, with or without pipelining. *)

LEMMA FreshType ==
    Fresh \in Parsers /\ Fresh.headers = 0 /\ Fresh.body = 0 /\ Fresh.error = "none"
  BY DEF Fresh, Parsers, Clients, Traces, Errors

LEMMA TypeInit == Init => TypeInv
  <1> SUFFICES ASSUME Init PROVE TypeInv
    OBVIOUS
  <1>1. FlagTypes
    BY Zenon DEF Init, FlagTypes
  <1>2. DataTypes
    BY HttpAssumption, FreshType DEF Init, DataTypes, Clients, Traces, Statuses
  <1>3. Limits
    BY HttpAssumption, FreshType DEF Init, Limits
  <1> QED
    BY <1>1, <1>2, <1>3 DEF TypeInv

LEMMA FlagStep ==
    ASSUME TypeInv, [Next]_vars
    PROVE  FlagTypes'
  <1>1. FlagTypes
    BY DEF TypeInv
  <1>2. parser.keep \in BOOLEAN
    BY DEF TypeInv, DataTypes, Parsers
  <1>3. eof' = eof \/ eof' = TRUE
    BY Zenon DEF Next, vars, client, ClientSend, ClientClose, Loop, Read, ReadEnds, Feed, Dispatch,
           Write, Reset, OnUrl, OnHeader, OnHeadersComplete, OnBody, OnSyntaxError, Callback
  <1>4. keep' = keep \/ keep' = FALSE \/ keep' = parser.keep
    BY Zenon DEF Next, vars, client, ClientSend, ClientClose, Loop, Read, ReadEnds, Feed, MakeRequest,
           Dispatch, Write, Reset, OnUrl, OnHeader, OnHeadersComplete, OnBody, OnSyntaxError, Callback
  <1> QED
    BY <1>1, <1>2, <1>3, <1>4, Zenon DEF FlagTypes

LEMMA TypeStep ==
    ASSUME TypeInv, [Next]_vars
    PROVE  TypeInv'
  <1>0. DataTypes /\ Limits /\ MaxHeaders \in Nat /\ MaxBody \in Nat /\ MaxRequests \in Nat
    BY HttpAssumption DEF TypeInv
  <1>1. ASSUME NEW s \in Shapes, ClientSend(s) PROVE DataTypes' /\ Limits'
    <2>1. Len(asked) + 1 \in 1..MaxRequests
      BY <1>0, <1>1 DEF ClientSend, DataTypes
    <2>2. Tokens(Len(asked) + 1, s) \in Seq(TokenSet)
      BY <2>1, TokensAt
    <2>3. socket' \in Seq(TokenSet)
      BY <1>0, <1>1, <2>2, ConcatProperties DEF ClientSend, DataTypes
    <2>4. asked' \in Seq(Shapes) /\ Len(asked') = Len(asked) + 1
      BY <1>0, <1>1 DEF ClientSend, DataTypes
    <2>5. UNCHANGED <<pc, chunk, parser, serving, trace, status, answers>>
      BY <1>1 DEF ClientSend
    <2> QED
      BY <1>0, <2>1, <2>3, <2>4, <2>5 DEF DataTypes, Limits
  <1>2. ASSUME ClientClose PROVE DataTypes' /\ Limits'
    BY <1>0, <1>2 DEF ClientClose, DataTypes, Limits
  <1>3. ASSUME Read PROVE DataTypes' /\ Limits'
    <2>1. PICK n \in 1..Len(socket) :
              /\ chunk' = SubSeq(socket, 1, n)
              /\ socket' = SubSeq(socket, n + 1, Len(socket))
      BY <1>3 DEF Read
    <2>2. \A i \in 1..Len(socket) : socket[i] \in TokenSet
      BY <1>0 DEF DataTypes
    <2>3. n \in Int /\ Len(socket) \in Int
      BY <1>0 DEF DataTypes
    <2>4. chunk' \in Seq(TokenSet) /\ socket' \in Seq(TokenSet)
      BY <2>1, <2>2, <2>3, SubSeqProperties
    <2>5. pc' = "feed" /\ UNCHANGED <<asked, parser, serving, trace, status, answers>>
      BY <1>3 DEF Read
    <2> QED
      BY <1>0, <2>4, <2>5 DEF DataTypes, Limits
  <1>4. ASSUME ReadEnds PROVE DataTypes' /\ Limits'
    BY <1>0, <1>4 DEF ReadEnds, client, DataTypes, Limits
  <1>5. ASSUME Feed PROVE DataTypes' /\ Limits'
    <2>1. /\ chunk' = <<>> /\ UNCHANGED <<client, parser, answers>>
          /\ pc' \in {"write", "dispatch", "read"}
      BY <1>5 DEF Feed
    <2>2. status' = status \/ status' = "bad_request"
      BY <1>5 DEF Feed
    <2>3. serving' \in {serving, parser.from} /\ trace' \in {trace, NoTrace, parser.trace}
      BY <1>5 DEF Feed, MakeRequest
    <2>4. parser.from \in Clients /\ parser.trace \in Traces
      BY <1>0 DEF DataTypes, Parsers
    <2> QED
      BY <1>0, <2>1, <2>2, <2>3, <2>4 DEF DataTypes, Limits, client, Statuses, Traces
  <1>6. ASSUME Dispatch PROVE DataTypes' /\ Limits'
    BY <1>0, <1>6 DEF Dispatch, client, DataTypes, Limits, Statuses
  <1>7. ASSUME Write PROVE DataTypes' /\ Limits'
    <2>1. /\ UNCHANGED <<client, chunk, parser, serving, trace, status>>
          /\ pc' \in {"reset", "closed"} /\ pc = "write"
      BY <1>7 DEF Write
    <2>2. answers' \in Seq(Answers)
      <3>1. [status |-> status, to |-> serving, trace |-> trace] \in Answers
        BY <1>0 DEF DataTypes, Answers
      <3>2. \/ answers' = Append(answers, [status |-> status, to |-> serving, trace |-> trace])
            \/ answers' = answers
        BY <1>7, Zenon DEF Write
      <3>3. answers \in Seq(Answers)
        BY <1>0 DEF DataTypes
      <3> QED
        BY <3>1, <3>2, <3>3, AppendProperties
    <2> QED
      BY <1>0, <2>1, <2>2 DEF DataTypes, Limits, client
  <1>8. ASSUME Reset PROVE DataTypes' /\ Limits'
    BY <1>0, <1>8, FreshType DEF Reset, client, DataTypes, Limits
  <1>9. ASSUME Callbacks PROVE DataTypes' /\ Limits'
    <2>1. /\ pc = "feed" /\ chunk # <<>> /\ parser.error = "none"
          /\ parser' = Consume(Called(parser, Head(chunk)), Head(chunk))
          /\ chunk' = Tail(chunk)
          /\ UNCHANGED <<client, pc, keep, serving, trace, status, answers>>
      BY <1>9, CallbackStep
    <2>2. Head(chunk) \in TokenSet /\ Tail(chunk) \in Seq(TokenSet)
      BY <1>0, <2>1 DEF DataTypes
    <2>3. parser \in Parsers /\ parser.headers <= MaxHeaders /\ parser.body <= MaxBody
      BY <1>0, <2>1 DEF DataTypes, Limits
    <2>4. /\ parser' \in Parsers
          /\ parser'.headers <= MaxHeaders + 1 /\ parser'.body <= MaxBody + 1
          /\ parser'.error = "none" => parser'.headers <= MaxHeaders /\ parser'.body <= MaxBody
      BY <2>1, <2>2, <2>3, CalledType
    <2> QED
      BY <1>0, <2>1, <2>2, <2>4 DEF DataTypes, Limits, client
  <1>10. ASSUME UNCHANGED vars PROVE DataTypes' /\ Limits'
    BY <1>0, <1>10 DEF vars, DataTypes, Limits
  <1>11. DataTypes' /\ Limits'
    BY <1>1, <1>2, <1>3, <1>4, <1>5, <1>6, <1>7, <1>8, <1>9, <1>10 DEF Next, Loop, Callbacks
  <1> QED
    BY <1>11, FlagStep DEF TypeInv

(* Every connection keeps its types, whatever the client sends and whether it  *)
(* waits for answers or not; no parser without an error is past its limits.    *)
THEOREM TypeInvariance == Spec => []TypeInv
  <1>1. TypeInv /\ [Next]_vars => TypeInv'
    BY TypeStep
  <1> QED
    BY <1>1, TypeInit, PTL DEF Spec

LEMMA TypeInvTypeOK == TypeInv => TypeOK
  <1> SUFFICES ASSUME TypeInv PROVE TypeOK
    OBVIOUS
  <1>1. eof \in BOOLEAN /\ keep \in BOOLEAN
    BY Zenon DEF TypeInv, FlagTypes
  <1>2. DataTypes /\ Limits
    BY DEF TypeInv
  <1>3. parser.headers \in 0..(MaxHeaders + 1) /\ parser.body \in 0..(MaxBody + 1)
    BY <1>2, HttpAssumption DEF DataTypes, Limits, Parsers
  <1>4. parser.from \subseteq 1..MaxRequests /\ serving \subseteq 1..MaxRequests
    BY <1>2 DEF DataTypes, Parsers, Clients
  <1>5. \A k \in 1..Len(asked) : asked[k] \in Shapes
    BY <1>2 DEF DataTypes
  <1> QED
    BY <1>1, <1>2, <1>3, <1>4, <1>5 DEF TypeOK, DataTypes, Limits, Statuses

-----------------------------------------------------------------------------
(* The parser follows the tokens of one request. *)

LEMMA ConsumeFields ==
    ASSUME NEW q \in Parsers, NEW t
    PROVE  /\ Consume(q, t).from = q.from \cup {t.req}
           /\ Consume(q, t).complete = (t.last /\ q.error = "none")
           /\ Consume(q, t).headers = q.headers /\ Consume(q, t).open = q.open
           /\ Consume(q, t).body = q.body /\ Consume(q, t).keep = q.keep
           /\ Consume(q, t).trace = q.trace /\ Consume(q, t).error = q.error
  BY DEF Consume, Parsers

LEMMA TokenFields ==
    ASSUME NEW kind, NEW k, NEW l
    PROVE  /\ Token(kind, k, l).kind = kind /\ Token(kind, k, l).req = k
           /\ Token(kind, k, l).last = l
  BY DEF Token

LEMMA HeaderFields ==
    ASSUME NEW k, NEW tr
    PROVE  /\ HeaderToken(k, tr).kind = "header" /\ HeaderToken(k, tr).req = k
           /\ ~HeaderToken(k, tr).last /\ HeaderToken(k, tr).trace = tr
  BY DEF Token, HeaderToken

(* What token t is, when it follows n others of a request of shape s.          *)
Follows(s, n, t) ==
    \/ n = 0 /\ t.kind = "line" /\ ~t.last
    \/ s.junk /\ n = 1 /\ t.kind = "junk" /\ ~t.last
    \/ /\ ~s.junk /\ n >= 1 /\ n <= s.h
       /\ t.kind = "header" /\ ~t.last
       /\ t.trace = IF n = s.h THEN s.trace ELSE NoTrace
    \/ /\ ~s.junk /\ n = s.h + 1
       /\ t.kind = (IF s.keep THEN "end_keep" ELSE "end_close") /\ t.last = (s.b = 0)
    \/ /\ ~s.junk /\ n >= s.h + 2
       /\ t.kind = "body" /\ t.last = (n = s.h + s.b + 1)

LEMMA TokenAt ==
    ASSUME NEW k \in 1..MaxRequests, NEW s \in Shapes, NEW n \in Nat, n <= s.h + s.b + 1,
           NEW t, t = Tokens(k, s)[n + 1]
    PROVE  t.req = k /\ Follows(s, n, t)
  <1>0. s.h \in Nat /\ s.b \in Nat /\ (s.junk => s.h = 0 /\ s.b = 0)
    BY ShapeFacts
  <1>1. CASE n = 0
    <2>0. Tokens(k, s)[1] = Token("line", k, FALSE)
      BY TokensAt, Zenon
    <2>1. t = Token("line", k, FALSE)
      <3>1. n + 1 = 1
        BY <1>1
      <3> QED
        BY <2>0, <3>1, Zenon
    <2>2. t.kind = "line" /\ t.req = k /\ ~t.last
      BY <2>1 DEF Token
    <2> QED
      BY <1>1, <2>2 DEF Follows
  <1>2. CASE n # 0 /\ s.junk
    <2>1. n = 1
      BY <1>0, <1>2
    <2>2. t = Token("junk", k, FALSE)
      <3>1. Tokens(k, s)[2] = Token("junk", k, FALSE)
        BY <1>2, TokensAt, Zenon
      <3>2. n + 1 = 2
        BY <2>1
      <3> QED
        BY <3>1, <3>2, Zenon
    <2>3. t.kind = "junk" /\ t.req = k /\ ~t.last
      BY <2>2 DEF Token
    <2> QED
      BY <1>2, <2>1, <2>3 DEF Follows
  <1>3. CASE n >= 1 /\ n <= s.h /\ ~s.junk
    <2> DEFINE tr == IF n + 1 = s.h + 1 THEN s.trace ELSE NoTrace
    <2>1. n + 1 \in 2..(s.h + 1)
      BY <1>0, <1>3
    <2>2. t = HeaderToken(k, tr)
      BY <1>3, <2>1, TokensAt, Zenon
    <2>3. tr = IF n = s.h THEN s.trace ELSE NoTrace
      BY <1>0
    <2> HIDE DEF tr
    <2>4. t.kind = "header" /\ t.req = k /\ ~t.last /\ t.trace = tr
      BY <2>2, HeaderFields
    <2> QED
      BY <1>3, <2>3, <2>4 DEF Follows
  <1>4. CASE n = s.h + 1 /\ ~s.junk
    <2>1. n + 1 = s.h + 2
      BY <1>0, <1>4
    <2>2. t = Token(IF s.keep THEN "end_keep" ELSE "end_close", k, s.b = 0)
      <3>1. Tokens(k, s)[s.h + 2] = Token(IF s.keep THEN "end_keep" ELSE "end_close", k, s.b = 0)
        BY <1>4, TokensAt, Zenon
      <3> QED
        BY <2>1, <3>1
    <2>3. /\ t.kind = (IF s.keep THEN "end_keep" ELSE "end_close") /\ t.req = k
          /\ t.last = (s.b = 0)
      BY <2>2, TokenFields
    <2> QED
      BY <1>4, <2>3 DEF Follows
  <1>5. CASE n >= s.h + 2 /\ ~s.junk
    <2>1. n + 1 \in (s.h + 3)..(s.h + s.b + 2)
      BY <1>0, <1>5
    <2>2. t = Token("body", k, n + 1 = s.h + s.b + 2)
      BY <1>5, <2>1, TokensAt
    <2>3. (n + 1 = s.h + s.b + 2) = (n = s.h + s.b + 1)
      BY <1>0
    <2>4. t.kind = "body" /\ t.req = k /\ t.last = (n + 1 = s.h + s.b + 2)
      BY <2>2, TokenFields
    <2> QED
      BY <1>5, <2>3, <2>4 DEF Follows
  <1>6. \/ n = 0
        \/ n # 0 /\ s.junk
        \/ n >= 1 /\ n <= s.h /\ ~s.junk
        \/ n = s.h + 1 /\ ~s.junk
        \/ n >= s.h + 2 /\ ~s.junk
    BY <1>0
  <1> QED
    BY <1>1, <1>2, <1>3, <1>4, <1>5, <1>6, Zenon

(* A callback takes the parser from one token of a request to the next.        *)
LEMMA AfterStep ==
    ASSUME NEW k \in 1..MaxRequests, NEW s \in Shapes, NEW n \in Nat, n <= s.h + s.b + 1,
           NEW p \in Parsers, p.error = "none", ~p.complete,
           p.headers <= MaxHeaders, p.body <= MaxBody,
           After(k, s, n, p),
           NEW t \in TokenSet, t = Tokens(k, s)[n + 1]
    PROVE  After(k, s, n + 1, Consume(Called(p, t), t))
  <1> DEFINE q == Called(p, t)
             r == Consume(q, t)
  <1>0. /\ s.h \in Nat /\ s.b \in Nat /\ s.keep \in BOOLEAN /\ s.junk \in BOOLEAN
        /\ s.junk => s.h = 0 /\ s.b = 0
        /\ s.trace # NoTrace => s.h > 0
        /\ MaxHeaders \in Nat /\ MaxBody \in Nat
    BY ShapeFacts, HttpAssumption
  <1>1. /\ p.from = IF n = 0 THEN {} ELSE {k}
        /\ s.junk => n <= 1
        /\ p.headers = IF n <= 1 THEN 0 ELSE IF n <= s.h + 1 THEN n - 2 ELSE s.h
        /\ p.open <=> n \in 2..(s.h + 1)
        /\ p.body = IF n <= s.h + 2 THEN 0 ELSE n - s.h - 2
        /\ p.keep <=> n >= s.h + 2 /\ s.keep
        /\ p.trace = IF n >= s.h + 1 THEN s.trace ELSE NoTrace
    BY DEF After
  <1>2. t.req = k /\ Follows(s, n, t)
    BY TokenAt
  <1>3. q \in Parsers
    BY CalledType
  <1>4. /\ r.from = q.from \cup {t.req} /\ r.complete = (t.last /\ q.error = "none")
        /\ r.headers = q.headers /\ r.open = q.open /\ r.body = q.body /\ r.keep = q.keep
        /\ r.trace = q.trace /\ r.error = q.error
    <2> HIDE DEF q
    <2> QED
      BY <1>3, ConsumeFields
  <1>5. q.from = p.from
    <2>1. CASE t.kind \in {"line", "body", "junk"}
      BY <2>1 DEF Called, WithBody, WithJunk, Parsers
    <2>2. CASE t.kind = "header"
      <3>1. q = WithHeader(p, t)
        BY <2>2 DEF Called
      <3>2. CommitHeader(p) \in Parsers /\ CommitHeader(p).from = p.from
        BY CommitFacts
      <3> QED
        BY <3>1, <3>2 DEF WithHeader, Parsers
    <2>3. CASE t.kind \in {"end_keep", "end_close"}
      <3>1. q = WithEnd(p, t)
        BY <2>3 DEF Called
      <3>2. CommitHeader(p) \in Parsers /\ CommitHeader(p).from = p.from
        BY CommitFacts
      <3> QED
        BY <3>1, <3>2 DEF WithEnd, Parsers
    <2>4. t.kind \in Kinds
      BY DEF TokenSet
    <2> QED
      BY <2>1, <2>2, <2>3, <2>4 DEF Kinds
  <1>6. r.from = {k}
    BY <1>1, <1>2, <1>4, <1>5
  <1>10. ASSUME n = 0, t.kind = "line", ~t.last
         PROVE  After(k, s, n + 1, r)
    <2>1. q = p
      BY <1>10 DEF Called
    <2> HIDE DEF q, r
    <2>2. ~r.complete
      BY <1>4, <1>10
    <2> QED
      BY <1>0, <1>1, <1>4, <1>6, <1>10, <2>1, <2>2 DEF After
  <1>11. ASSUME s.junk, n = 1, t.kind = "junk", ~t.last
         PROVE  After(k, s, n + 1, r)
    <2>1. q = WithJunk(p)
      BY <1>11 DEF Called
    <2>2. q.error = "BadRequest"
      BY <2>1 DEF WithJunk, Parsers
    <2> HIDE DEF q, r
    <2>3. ~r.complete /\ r.error = "BadRequest"
      BY <1>4, <1>11, <2>2
    <2> QED
      BY <1>6, <1>11, <2>3 DEF After, Acceptable
  <1>12. ASSUME ~s.junk, n >= 1, n <= s.h, t.kind = "header", ~t.last,
                t.trace = IF n = s.h THEN s.trace ELSE NoTrace
         PROVE  After(k, s, n + 1, r)
    <2> DEFINE c == CommitHeader(p)
    <2>1. q = [c EXCEPT !.open = TRUE, !.trace = IF t.trace = NoTrace THEN @ ELSE t.trace]
      BY <1>12 DEF Called, WithHeader
    <2>2. /\ c \in Parsers
          /\ c.headers = IF p.open THEN p.headers + 1 ELSE p.headers
          /\ c.error = IF p.open /\ p.headers + 1 > MaxHeaders THEN "TooManyHeaders" ELSE "none"
          /\ c.body = p.body /\ c.keep = p.keep /\ c.trace = p.trace
      BY CommitFacts
    <2> HIDE DEF c
    <2>3. /\ q.headers = c.headers /\ q.open = TRUE /\ q.error = c.error /\ q.body = c.body
          /\ q.keep = c.keep /\ q.trace = IF t.trace = NoTrace THEN c.trace ELSE t.trace
      BY <2>1, <2>2 DEF Parsers
    <2> HIDE DEF q, r
    <2>4. ~r.complete
      BY <1>4, <1>12
    <2>5. p.open <=> n >= 2
      BY <1>0, <1>1, <1>12
    <2>6. c.headers = n - 1
      BY <1>0, <1>1, <1>12, <2>2, <2>5
    <2>7. r.error # "none" => ~Acceptable(s)
      BY <1>0, <1>1, <1>4, <1>12, <2>2, <2>3, <2>5 DEF Acceptable
    <2>8. r.trace = IF n + 1 >= s.h + 1 THEN s.trace ELSE NoTrace
      BY <1>0, <1>1, <1>4, <1>12, <2>2, <2>3
    <2>9. ~r.keep
      BY <1>0, <1>1, <1>4, <1>12, <2>2, <2>3
    <2>10. r.body = 0 /\ r.headers = n - 1 /\ r.open = TRUE
      BY <1>0, <1>1, <1>4, <1>12, <2>2, <2>3, <2>6
    <2> QED
      BY <1>0, <1>6, <1>12, <2>4, <2>7, <2>8, <2>9, <2>10 DEF After
  <1>13. ASSUME ~s.junk, n = s.h + 1, t.kind = (IF s.keep THEN "end_keep" ELSE "end_close"),
                t.last = (s.b = 0)
         PROVE  After(k, s, n + 1, r)
    <2> DEFINE c == CommitHeader(p)
    <2>1. q = [c EXCEPT !.keep = (t.kind = "end_keep")]
      BY <1>13 DEF Called, WithEnd
    <2>2. /\ c \in Parsers
          /\ c.headers = IF p.open THEN p.headers + 1 ELSE p.headers
          /\ c.error = IF p.open /\ p.headers + 1 > MaxHeaders THEN "TooManyHeaders" ELSE "none"
          /\ c.open = FALSE /\ c.body = p.body /\ c.trace = p.trace
      BY CommitFacts
    <2> HIDE DEF c
    <2>3. /\ q.headers = c.headers /\ q.open = c.open /\ q.error = c.error /\ q.body = c.body
          /\ q.keep = (t.kind = "end_keep") /\ q.trace = c.trace
      BY <2>1, <2>2 DEF Parsers
    <2> HIDE DEF q, r
    <2>4. r.complete <=> (s.b = 0 /\ r.error = "none")
      BY <1>4, <1>13
    <2>5. p.open <=> s.h >= 1
      BY <1>0, <1>1, <1>13
    <2>6. c.headers = s.h
      BY <1>0, <1>1, <1>13, <2>2, <2>5
    <2>7. r.error # "none" => ~Acceptable(s)
      BY <1>0, <1>1, <1>4, <1>13, <2>2, <2>3, <2>5, <2>6 DEF Acceptable
    <2>8. r.trace = s.trace
      BY <1>0, <1>1, <1>4, <1>13, <2>2, <2>3
    <2>9. r.keep <=> s.keep
      BY <1>0, <1>4, <1>13, <2>3
    <2>10. r.body = 0 /\ r.headers = s.h /\ r.open = FALSE
      BY <1>0, <1>1, <1>4, <1>13, <2>2, <2>3, <2>6
    <2> QED
      BY <1>0, <1>6, <1>13, <2>4, <2>7, <2>8, <2>9, <2>10 DEF After
  <1>14. ASSUME ~s.junk, n >= s.h + 2, t.kind = "body", t.last = (n = s.h + s.b + 1)
         PROVE  After(k, s, n + 1, r)
    <2>1. q = WithBody(p)
      BY <1>14 DEF Called
    <2>2. /\ q.headers = p.headers /\ q.open = p.open /\ q.body = p.body + 1 /\ q.keep = p.keep
          /\ q.trace = p.trace
          /\ q.error = IF p.body + 1 > MaxBody THEN "TooLarge" ELSE p.error
      BY <2>1 DEF WithBody, Parsers
    <2> HIDE DEF q, r
    <2>4. r.complete <=> (n = s.h + s.b + 1 /\ r.error = "none")
      BY <1>4, <1>14
    <2>5. r.body = n + 1 - s.h - 2
      BY <1>0, <1>1, <1>4, <1>14, <2>2
    <2>6. r.error # "none" => ~Acceptable(s)
      BY <1>0, <1>1, <1>4, <1>14, <2>2 DEF Acceptable
    <2>7. r.headers = s.h /\ r.trace = s.trace /\ ~r.open /\ (r.keep <=> s.keep)
      BY <1>0, <1>1, <1>4, <1>14, <2>2
    <2> QED
      BY <1>0, <1>6, <1>14, <2>4, <2>5, <2>6, <2>7 DEF After
  <1> HIDE DEF q, r
  <1>15. After(k, s, n + 1, r)
    BY <1>2, <1>10, <1>11, <1>12, <1>13, <1>14, Zenon DEF Follows
  <1> QED
    BY <1>15 DEF q, r

-----------------------------------------------------------------------------
(* One request at a time: the client waits for answers. *)

LEMMA AfterFresh ==
    ASSUME NEW k \in 1..MaxRequests, NEW s \in Shapes
    PROVE  After(k, s, 0, Fresh)
  <1>1. s.h \in Nat /\ s.b \in Nat
    BY ShapeFacts
  <1>2. /\ Fresh.from = {} /\ Fresh.headers = 0 /\ ~Fresh.open /\ Fresh.body = 0 /\ ~Fresh.keep
        /\ Fresh.trace = NoTrace /\ ~Fresh.complete /\ Fresh.error = "none"
    BY DEF Fresh
  <1> QED
    BY <1>1, <1>2 DEF After

(* The request that is not answered yet, and its tokens. *)
LEMMA NewestFacts ==
    ASSUME TypeInv, Len(asked) = Len(answers) + 1
    PROVE  /\ Len(asked) \in 1..MaxRequests /\ Newest \in Shapes
           /\ Newest.h \in Nat /\ Newest.b \in Nat
           /\ Sent \in Seq(TokenSet) /\ Len(Sent) = Newest.h + Newest.b + 2
  <1>1. /\ asked \in Seq(Shapes) /\ Len(asked) <= MaxRequests
        /\ Len(answers) \in Nat /\ Len(asked) \in Nat /\ MaxRequests \in Nat
    BY HttpAssumption DEF TypeInv, DataTypes
  <1>2. Len(asked) \in 1..MaxRequests /\ Len(asked) \in 1..Len(asked)
    BY <1>1
  <1>3. Newest \in Shapes
    BY <1>1, <1>2 DEF Newest
  <1> QED
    BY <1>2, <1>3, TokensAt, ShapeFacts DEF Sent

(* A request is being read or handled exactly when it is not answered yet. *)
LEMMA BusyWhen ==
    ASSUME IInv, pc \in {"feed", "dispatch", "write"} \/ (pc = "read" /\ socket # <<>>)
    PROVE  Len(asked) = Len(answers) + 1
  <1>1. Len(asked) \in Nat /\ Len(answers) \in Nat
    BY DEF IInv, TypeInv, DataTypes
  <1> QED
    BY <1>1 DEF IInv, OneAtATime, Idle

(* What a handler finds of the traceparent of its request. *)
LEMMA TraceFound ==
    ASSUME NEW s \in Shapes, NEW tr,
           tr = IF s.trace # NoTrace => parse_traceparent(TraceHeaders[s.trace]) = Invalid
                THEN NoTrace ELSE s.trace
    PROVE  tr = TraceOf(s)
  <1>1. CASE s.trace = NoTrace
    BY <1>1 DEF TraceOf
  <1>2. CASE s.trace # NoTrace
    <2>1. TraceHeaders[s.trace] \in Seq(STRING)
      BY <1>2, ShapeFacts, HttpAssumption DEF Traces
    <2>2. parse_traceparent(TraceHeaders[s.trace]) # Invalid <=> IsTraceParent(TraceHeaders[s.trace])
      BY <2>1, ParseCorrect, Zenon
    <2> QED
      BY <1>2, <2>2 DEF TraceOf
  <1> QED
    BY <1>1, <1>2

LEMMA TraceIsOwn ==
    ASSUME NEW s \in Shapes, TraceOf(s) # NoTrace
    PROVE  OwnTrace(TraceHeaders[TraceOf(s)])
  <1>1. s.trace # NoTrace /\ TraceOf(s) = s.trace /\ IsTraceParent(TraceHeaders[s.trace])
    BY DEF TraceOf
  <1>2. TraceHeaders[s.trace] \in Seq(STRING)
    BY <1>1, ShapeFacts, HttpAssumption DEF Traces
  <1>3. OwnTrace(TraceHeaders[s.trace])
    BY <1>1, <1>2, ParseCorrect, Zenon
  <1> QED
    BY <1>1, <1>3

(* The k-th answer, as RightAnswer asks for it. *)
Right(a, k, s) ==
    /\ a.to = {k}
    /\ (a.status = "ok") <=> Acceptable(s)
    /\ a.status = "ok" => a.trace = TraceOf(s)
    /\ a.trace # NoTrace => OwnTrace(TraceHeaders[a.trace])

LEMMA RightAnswers == RightAnswer <=> \A k \in 1..Len(answers) : Right(answers[k], k, asked[k])
  BY DEF RightAnswer, Right, TraceOf

LEMMA SendStep ==
    ASSUME ~Pipelined, IInv, NEW s \in Shapes, ClientSend(s)
    PROVE  OneAtATime' /\ Idle' /\ Busy' /\ RightAnswer'
  <1>0. /\ asked \in Seq(Shapes) /\ answers \in Seq(Answers) /\ MaxRequests \in Nat
        /\ Len(asked) \in Nat
    BY HttpAssumption DEF IInv, TypeInv, DataTypes
  <1>1. /\ Len(answers) = Len(asked) /\ Len(asked) < MaxRequests /\ pc # "closed"
        /\ asked' = Append(asked, s) /\ socket' = socket \o Tokens(Len(asked) + 1, s)
        /\ UNCHANGED <<pc, chunk, parser, keep, serving, trace, status, answers>>
    BY DEF ClientSend
  <1>2. socket = <<>> /\ chunk = <<>> /\ pc \in {"read", "reset"} /\ (pc = "read" => parser = Fresh)
    BY <1>1 DEF IInv, Idle
  <1>3. /\ Len(asked') = Len(asked) + 1 /\ asked'[Len(asked')] = s
        /\ \A k \in 1..Len(asked) : asked'[k] = asked[k]
    BY <1>0, <1>1, AppendProperties
  <1>4. Len(asked') \in 1..MaxRequests
    BY <1>0, <1>1, <1>3
  <1>5. Newest' = s /\ Sent' = Tokens(Len(asked'), s)
    BY <1>3 DEF Newest, Sent
  <1>6. Sent' \in Seq(TokenSet) /\ Len(Sent') \in Nat
    <2>1. Sent' \in Seq(TokenSet)
      BY <1>4, <1>5, TokensAt
    <2> QED
      BY <2>1
  <1>7. socket' = Sent'
    <2>1. socket' = <<>> \o Sent'
      BY <1>1, <1>2, <1>3, <1>5
    <2> QED
      BY <1>6, <2>1, ConcatEmptySeq
  <1>8. chunk' = <<>> /\ Len(chunk') = 0
    BY <1>1, <1>2
  <1>9. Seen' = 0
    BY <1>6, <1>7, <1>8 DEF Seen
  <1>10. Unseen'
    BY <1>6, <1>7, <1>8, <1>9 DEF Unseen
  <1>11. pc' = "read" => After(Len(asked)', Newest', Seen', parser')
    BY <1>1, <1>2, <1>4, <1>5, <1>9, AfterFresh
  <1>12. Len(asked') = Len(answers') + 1
    BY <1>1, <1>3
  <1>13. OneAtATime' /\ Idle'
    BY <1>0, <1>1, <1>12 DEF OneAtATime, Idle
  <1>14. Busy'
    BY <1>1, <1>2, <1>7, <1>8, <1>10, <1>11 DEF Busy
  <1>15. RightAnswer'
    <2>1. \A k \in 1..Len(answers) : Right(answers[k], k, asked[k])
      BY RightAnswers DEF IInv
    <2>2. \A k \in 1..Len(answers') : Right(answers'[k], k, asked'[k])
      BY <1>1, <1>3, <2>1
    <2>3. RightAnswer' <=> \A k \in 1..Len(answers') : Right(answers'[k], k, asked'[k])
      BY DEF RightAnswer, Right, TraceOf
    <2> QED
      BY <2>2, <2>3
  <1> QED
    BY <1>13, <1>14, <1>15

(* Steps that leave the requests and the answers alone. *)
LEMMA AnswersKept ==
    ASSUME IInv, UNCHANGED <<asked, answers>>
    PROVE  /\ OneAtATime' /\ RightAnswer'
           /\ Newest' = Newest /\ Sent' = Sent
           /\ Len(asked') = Len(asked) /\ Len(answers') = Len(answers)
  BY DEF IInv, OneAtATime, RightAnswer, Newest, Sent

LEMMA ReadStep ==
    ASSUME IInv, Read
    PROVE  OneAtATime' /\ Idle' /\ Busy' /\ RightAnswer'
  <1>1. /\ pc = "read" /\ socket # <<>> /\ pc' = "feed"
        /\ UNCHANGED <<asked, parser, keep, serving, trace, status, answers>>
    BY DEF Read
  <1>2. PICK n \in 1..Len(socket) :
            /\ chunk' = SubSeq(socket, 1, n)
            /\ socket' = SubSeq(socket, n + 1, Len(socket))
    BY DEF Read
  <1>3. Len(asked) = Len(answers) + 1
    BY <1>1, BusyWhen
  <1>4. TypeInv /\ socket \in Seq(TokenSet) /\ Len(socket) \in Nat /\ chunk = <<>>
    BY <1>1 DEF IInv, TypeInv, DataTypes, Limits
  <1>5. /\ Len(chunk') = n /\ Len(socket') = Len(socket) - n
        /\ \A i \in 1..n : chunk'[i] = socket[i]
        /\ \A i \in 1..(Len(socket) - n) : socket'[i] = socket[n + i]
    BY <1>2, <1>4
  <1>6. Unseen /\ After(Len(asked), Newest, Seen, parser)
    BY <1>1, <1>3 DEF IInv, Busy
  <1>7. Len(Sent) \in Nat
    BY <1>3, <1>4, NewestFacts
  <1>8. Seen = Len(Sent) - Len(socket)
    BY <1>4, <1>7 DEF Seen
  <1>9. Newest' = Newest /\ Sent' = Sent /\ OneAtATime' /\ RightAnswer'
    BY <1>1, AnswersKept
  <1>10. Seen' = Seen
    BY <1>5, <1>4, <1>7, <1>8, <1>9 DEF Seen
  <1>11. Unseen'
    <2>1. Seen >= 0 /\ \A i \in 1..Len(socket) : socket[i] = Sent[Seen + i]
      <3>1. Len(chunk) = 0 /\ Len(socket) \in Nat /\ Seen \in Int
        BY <1>4, <1>7, <1>8
      <3>2. /\ Seen >= 0
            /\ \A i \in 1..Len(socket) : socket[i] = Sent[Seen + Len(chunk) + i]
        BY <1>6 DEF Unseen
      <3>3. \A i \in 1..Len(socket) : Seen + Len(chunk) + i = Seen + i
        BY <3>1
      <3> QED
        BY <3>2, <3>3
    <2>2. \A i \in 1..n : i \in 1..Len(socket)
      BY <1>4
    <2>3. \A i \in 1..(Len(socket) - n) : n + i \in 1..Len(socket) /\ Seen + n + i = Seen + (n + i)
      BY <1>4, <1>7, <1>8
    <2>4. \A i \in 1..Len(chunk') : chunk'[i] = Sent[Seen + i]
      BY <1>5, <2>1, <2>2
    <2>5. \A i \in 1..Len(socket') : socket'[i] = Sent[Seen + n + i]
      BY <1>5, <2>1, <2>3
    <2> QED
      BY <1>5, <1>9, <1>10, <2>1, <2>4, <2>5 DEF Unseen
  <1>12. Idle' /\ Busy'
    BY <1>1, <1>3, <1>4, <1>6, <1>9, <1>10, <1>11 DEF Idle, Busy, TypeInv, DataTypes
  <1> QED
    BY <1>9, <1>12

(* A parser that reports a complete message has seen all of a request that is  *)
(* well formed and within the limits.                                          *)
LEMMA CompleteMessage ==
    ASSUME IInv, pc = "feed", parser.error = "none", parser.complete
    PROVE  /\ chunk = <<>> /\ socket = <<>> /\ parser.from = {Len(asked)}
           /\ Acceptable(Newest) /\ parser.trace = Newest.trace
  <1>1. Len(asked) = Len(answers) + 1 /\ TypeInv
    BY BusyWhen DEF IInv
  <1>2. /\ Len(asked) \in 1..MaxRequests /\ Newest \in Shapes
        /\ Newest.h \in Nat /\ Newest.b \in Nat /\ Len(Sent) = Newest.h + Newest.b + 2
    BY <1>1, NewestFacts
  <1>3. After(Len(asked), Newest, Seen, parser)
    BY <1>1 DEF IInv, Busy
  <1>4. Seen = Newest.h + Newest.b + 2
    BY <1>3 DEF After
  <1>5. chunk \in Seq(TokenSet) /\ socket \in Seq(TokenSet) /\ parser \in Parsers
    BY <1>1 DEF TypeInv, DataTypes
  <1>6. Len(chunk) = 0 /\ Len(socket) = 0
    BY <1>2, <1>4, <1>5 DEF Seen
  <1>7. chunk = <<>> /\ socket = <<>>
    BY <1>5, <1>6
  <1>8. /\ Newest.junk => Seen <= 1
        /\ parser.headers = IF Seen <= 1 THEN 0 ELSE IF Seen <= Newest.h + 1 THEN Seen - 2 ELSE Newest.h
        /\ parser.body = IF Seen <= Newest.h + 2 THEN 0 ELSE Seen - Newest.h - 2
        /\ parser.trace = IF Seen >= Newest.h + 1 THEN Newest.trace ELSE NoTrace
        /\ parser.from = IF Seen = 0 THEN {} ELSE {Len(asked)}
    BY <1>3 DEF After
  <1>9. parser.headers <= MaxHeaders /\ parser.body <= MaxBody
    BY <1>1 DEF TypeInv, Limits
  <1>10. Acceptable(Newest)
    BY <1>2, <1>4, <1>8, <1>9 DEF Acceptable
  <1> QED
    BY <1>2, <1>4, <1>7, <1>8, <1>10

LEMMA FeedStep ==
    ASSUME IInv, Feed
    PROVE  OneAtATime' /\ Idle' /\ Busy' /\ RightAnswer'
  <1>1. /\ pc = "feed" /\ ~Running /\ chunk' = <<>>
        /\ UNCHANGED <<asked, socket, parser, answers>>
    BY DEF Feed, client
  <1>2. Len(asked) = Len(answers) + 1 /\ TypeInv
    BY <1>1, BusyWhen DEF IInv
  <1>3. /\ Len(asked) \in 1..MaxRequests /\ Newest \in Shapes
        /\ Newest.h \in Nat /\ Newest.b \in Nat /\ Len(Sent) = Newest.h + Newest.b + 2
    BY <1>2, NewestFacts
  <1>4. Unseen /\ After(Len(asked), Newest, Seen, parser)
    BY <1>1, <1>2 DEF IInv, Busy
  <1>5. /\ OneAtATime' /\ RightAnswer' /\ Newest' = Newest /\ Sent' = Sent
        /\ Len(asked') = Len(asked) /\ Len(answers') = Len(answers)
    BY <1>1, AnswersKept
  <1>6. Idle'
    <2>1. Len(answers) \in Nat
      BY <1>2 DEF TypeInv, DataTypes
    <2> QED
      BY <1>2, <1>5, <2>1 DEF Idle
  <1>7. CASE parser.error # "none"
    <2>1. /\ pc' = "write" /\ status' = "bad_request" /\ keep' = FALSE
          /\ serving' = parser.from /\ trace' = NoTrace
      BY <1>7, Zenon DEF Feed
    <2>2. Seen > 0 /\ ~Acceptable(Newest) /\ parser.from = IF Seen = 0 THEN {} ELSE {Len(asked)}
      BY <1>4, <1>7 DEF After
    <2>3. parser.from = {Len(asked)}
      BY <2>2
    <2>4. Refused'
      BY <1>5, <2>1, <2>2, <2>3 DEF Refused, Acceptable
    <2>5. Busy'
      BY <2>1, <2>4 DEF Busy
    <2> QED
      BY <1>5, <1>6, <2>5
  <1>8. CASE parser.error = "none" /\ parser.complete
    <2>1. pc' = "dispatch" /\ MakeRequest
      BY <1>8, Zenon DEF Feed
    <2>2. /\ chunk = <<>> /\ socket = <<>> /\ parser.from = {Len(asked)}
          /\ Acceptable(Newest) /\ parser.trace = Newest.trace
      BY <1>1, <1>8, CompleteMessage
    <2>3. serving' = {Len(asked)}
      BY <2>1, <2>2 DEF MakeRequest
    <2>4. trace' = TraceOf(Newest)
      <3>1. trace' = IF Newest.trace # NoTrace => parse_traceparent(TraceHeaders[Newest.trace]) = Invalid
                     THEN NoTrace ELSE Newest.trace
        BY <2>1, <2>2 DEF MakeRequest
      <3> QED
        BY <1>3, <3>1, TraceFound
    <2>5. Dispatched'
      BY <1>1, <1>5, <2>2, <2>3, <2>4 DEF Dispatched, Acceptable, TraceOf
    <2>6. Busy'
      BY <2>1, <2>5 DEF Busy
    <2> QED
      BY <1>5, <1>6, <2>6
  <1>9. CASE parser.error = "none" /\ ~parser.complete
    <2>1. pc' = "read"
      BY <1>9, Zenon DEF Feed
    <2>2. chunk = <<>>
      BY <1>1, <1>9 DEF Running
    <2>3. Seen' = Seen
      BY <1>1, <1>5, <2>2 DEF Seen
    <2>4. Unseen' /\ After(Len(asked'), Newest', Seen', parser')
      BY <1>1, <1>4, <1>5, <2>2, <2>3 DEF Unseen
    <2>5. Busy'
      BY <2>1, <2>4 DEF Busy
    <2> QED
      BY <1>5, <1>6, <2>5
  <1> QED
    BY <1>7, <1>8, <1>9

LEMMA DispatchStep ==
    ASSUME IInv, Dispatch
    PROVE  OneAtATime' /\ Idle' /\ Busy' /\ RightAnswer'
  <1>1. /\ pc = "dispatch" /\ UNCHANGED <<asked, socket, chunk, parser, keep, serving, trace, answers>>
        /\ (pc' = "write" /\ status' = "ok") \/ pc' = "closed"
    BY DEF Dispatch, client
  <1>2. Len(asked) = Len(answers) + 1 /\ TypeInv
    BY <1>1, BusyWhen DEF IInv
  <1>3. Dispatched
    BY <1>1, <1>2 DEF IInv, Busy
  <1>4. /\ OneAtATime' /\ RightAnswer' /\ Newest' = Newest
        /\ Len(asked') = Len(asked) /\ Len(answers') = Len(answers)
    BY <1>1, AnswersKept
  <1>5. Dispatched'
    BY <1>1, <1>3, <1>4 DEF Dispatched, Acceptable, TraceOf
  <1>6. Len(answers) \in Nat
    BY <1>2 DEF TypeInv, DataTypes
  <1> QED
    BY <1>1, <1>2, <1>4, <1>5, <1>6 DEF Idle, Busy

LEMMA WriteStep ==
    ASSUME IInv, Write
    PROVE  OneAtATime' /\ Idle' /\ Busy' /\ RightAnswer'
  <1> DEFINE a == [status |-> status, to |-> serving, trace |-> trace]
  <1>1. /\ pc = "write" /\ UNCHANGED <<asked, socket, chunk, parser, keep, serving, trace, status>>
        /\ \/ answers' = Append(answers, a) /\ pc' = IF keep THEN "reset" ELSE "closed"
           \/ answers' = answers /\ pc' = "closed"
    BY Zenon DEF Write, client
  <1>2. Len(asked) = Len(answers) + 1 /\ TypeInv
    BY <1>1, BusyWhen DEF IInv
  <1>3. \/ status = "ok" /\ Dispatched
        \/ status = "bad_request" /\ Refused
    BY <1>1, <1>2 DEF IInv, Busy
  <1>4. Newest \in Shapes
    BY <1>2, NewestFacts
  <1>5. answers \in Seq(Answers) /\ Len(answers) \in Nat /\ a \in Answers
    BY <1>2 DEF TypeInv, DataTypes, Answers
  <1>6. CASE answers' = answers /\ pc' = "closed"
    <2>1. OneAtATime' /\ RightAnswer'
      BY <1>1, <1>6, AnswersKept
    <2>2. Idle' /\ Busy'
      BY <1>6 DEF Idle, Busy
    <2> QED
      BY <2>1, <2>2
  <1>7. CASE answers' = Append(answers, a) /\ pc' = IF keep THEN "reset" ELSE "closed"
    <2>0. a.status = status /\ a.to = serving /\ a.trace = trace
      OBVIOUS
    <2> HIDE DEF a
    <2>1. /\ Len(answers') = Len(answers) + 1 /\ answers'[Len(answers) + 1] = a
          /\ \A k \in 1..Len(answers) : answers'[k] = answers[k]
      BY <1>5, <1>7, AppendProperties
    <2>2. Right(a, Len(asked), Newest)
      <3>1. CASE status = "ok" /\ Dispatched
        BY <1>4, <2>0, <3>1, TraceIsOwn DEF Dispatched, Right
      <3>2. CASE status = "bad_request" /\ Refused
        BY <2>0, <3>2 DEF Refused, Right
      <3> QED
        BY <1>3, <3>1, <3>2
    <2>3. \A k \in 1..Len(answers) : Right(answers[k], k, asked[k])
      BY RightAnswers DEF IInv
    <2>4. \A k \in 1..Len(answers') : Right(answers'[k], k, asked'[k])
      <3> TAKE k \in 1..Len(answers')
      <3>1. CASE k \in 1..Len(answers)
        BY <1>1, <2>1, <2>3, <3>1
      <3>2. CASE k = Len(answers) + 1
        BY <1>1, <1>2, <2>1, <2>2, <3>2 DEF Newest
      <3> QED
        BY <1>5, <2>1, <3>1, <3>2
    <2>5. RightAnswer'
      <3>1. RightAnswer' <=> \A k \in 1..Len(answers') : Right(answers'[k], k, asked'[k])
        BY DEF RightAnswer, Right, TraceOf
      <3> QED
        BY <2>4, <3>1
    <2>6. Len(asked') = Len(answers') /\ Len(asked') # Len(answers') + 1
      BY <1>1, <1>2, <1>5, <2>1
    <2>7. keep => socket = <<>> /\ chunk = <<>>
      BY <1>3 DEF Dispatched, Refused
    <2>8. OneAtATime' /\ Busy'
      BY <1>5, <2>1, <2>6 DEF OneAtATime, Busy
    <2>9. Idle'
      <3>1. CASE keep
        BY <1>1, <1>7, <2>7, <3>1 DEF Idle
      <3>2. CASE ~keep
        BY <1>7, <3>2 DEF Idle
      <3> QED
        BY <3>1, <3>2
    <2> QED
      BY <2>5, <2>8, <2>9
  <1> QED
    BY <1>1, <1>6, <1>7

LEMMA ResetStep ==
    ASSUME IInv, Reset
    PROVE  OneAtATime' /\ Idle' /\ Busy' /\ RightAnswer'
  <1>1. /\ pc = "reset" /\ parser' = Fresh /\ pc' = "read"
        /\ UNCHANGED <<asked, socket, chunk, answers>>
    BY DEF Reset, client
  <1>2. /\ OneAtATime' /\ RightAnswer' /\ Newest' = Newest /\ Sent' = Sent
        /\ Len(asked') = Len(asked) /\ Len(answers') = Len(answers)
    BY <1>1, AnswersKept
  <1>3. Idle'
    BY <1>1, <1>2 DEF IInv, Idle
  <1>4. ASSUME Len(asked) = Len(answers) + 1
        PROVE  Unseen' /\ After(Len(asked'), Newest', Seen', parser')
    <2>1. chunk = <<>> /\ socket = Sent
      BY <1>1, <1>4 DEF IInv, Busy
    <2>2. Len(asked) \in 1..MaxRequests /\ Newest \in Shapes /\ Sent \in Seq(TokenSet)
      BY <1>4, NewestFacts DEF IInv
    <2>3. Len(Sent) \in Nat /\ Len(chunk) = 0
      BY <2>1, <2>2
    <2>4. Seen' = 0
      BY <1>1, <1>2, <2>1, <2>3 DEF Seen
    <2>5. Unseen'
      BY <1>1, <1>2, <2>1, <2>3, <2>4 DEF Unseen
    <2> QED
      BY <1>1, <1>2, <2>2, <2>4, <2>5, AfterFresh
  <1>5. Busy'
    BY <1>1, <1>2, <1>4 DEF Busy
  <1> QED
    BY <1>2, <1>3, <1>5

LEMMA ParseStep ==
    ASSUME IInv, Callbacks
    PROVE  OneAtATime' /\ Idle' /\ Busy' /\ RightAnswer'
  <1> DEFINE t == Head(chunk)
  <1>1. /\ pc = "feed" /\ chunk # <<>> /\ ~parser.complete /\ parser.error = "none"
        /\ parser' = Consume(Called(parser, t), t)
        /\ chunk' = Tail(chunk)
        /\ UNCHANGED <<asked, socket, pc, answers>>
    BY CallbackStep DEF client
  <1>2. Len(asked) = Len(answers) + 1 /\ TypeInv
    BY <1>1, BusyWhen DEF IInv
  <1>3. /\ Len(asked) \in 1..MaxRequests /\ Newest \in Shapes
        /\ Newest.h \in Nat /\ Newest.b \in Nat /\ Len(Sent) = Newest.h + Newest.b + 2
    BY <1>2, NewestFacts
  <1>4. Unseen /\ After(Len(asked), Newest, Seen, parser)
    BY <1>1, <1>2 DEF IInv, Busy
  <1>5. /\ OneAtATime' /\ RightAnswer' /\ Newest' = Newest /\ Sent' = Sent
        /\ Len(asked') = Len(asked) /\ Len(answers') = Len(answers)
    BY <1>1, AnswersKept
  <1>6. /\ chunk \in Seq(TokenSet) /\ socket \in Seq(TokenSet) /\ parser \in Parsers
        /\ parser.headers <= MaxHeaders /\ parser.body <= MaxBody
    BY <1>1, <1>2 DEF TypeInv, DataTypes, Limits
  <1>7. /\ t \in TokenSet /\ t = chunk[1] /\ Len(chunk) \in Nat /\ Len(chunk) >= 1
        /\ Len(socket) \in Nat /\ Len(chunk') = Len(chunk) - 1
        /\ \A i \in 1..(Len(chunk) - 1) : chunk'[i] = chunk[i + 1]
    BY <1>1, <1>6
  <1> HIDE DEF t
  <1>8. Seen \in Nat /\ Seen <= Newest.h + Newest.b + 1
    BY <1>3, <1>4, <1>7 DEF Unseen, Seen
  <1>9. Seen' = Seen + 1
    BY <1>1, <1>3, <1>5, <1>7 DEF Seen
  <1>10. t = Tokens(Len(asked), Newest)[Seen + 1]
    BY <1>4, <1>7 DEF Unseen, Sent
  <1>11. After(Len(asked), Newest, Seen + 1, Consume(Called(parser, t), t))
    BY <1>1, <1>3, <1>4, <1>6, <1>7, <1>8, <1>10, AfterStep
  <1>12. Unseen'
    <2>1. /\ \A i \in 1..Len(chunk) : chunk[i] = Sent[Seen + i]
          /\ \A i \in 1..Len(socket) : socket[i] = Sent[Seen + Len(chunk) + i]
      BY <1>4 DEF Unseen
    <2>2. \A i \in 1..(Len(chunk) - 1) : i + 1 \in 1..Len(chunk) /\ Seen + (i + 1) = Seen + 1 + i
      BY <1>7, <1>8
    <2>3. \A i \in 1..Len(chunk') : chunk'[i] = Sent[Seen + 1 + i]
      BY <1>7, <2>1, <2>2
    <2>4. \A i \in 1..Len(socket) : Seen + 1 + Len(chunk') + i = Seen + Len(chunk) + i
      BY <1>7, <1>8
    <2>5. \A i \in 1..Len(socket) : socket[i] = Sent[Seen + 1 + Len(chunk') + i]
      BY <2>1, <2>4
    <2> QED
      BY <1>1, <1>5, <1>8, <1>9, <2>3, <2>5 DEF Unseen
  <1>13. Idle'
    <2>1. Len(answers) \in Nat
      BY <1>2 DEF TypeInv, DataTypes
    <2> QED
      BY <1>2, <1>5, <2>1 DEF Idle
  <1>14. Busy'
    BY <1>1, <1>5, <1>9, <1>11, <1>12 DEF Busy
  <1> QED
    BY <1>5, <1>13, <1>14

(* The invariant is inductive for a client that waits for its answers.         *)
LEMMA IInvInit == Init => IInv
  <1> SUFFICES ASSUME Init PROVE IInv
    OBVIOUS
  <1>1. Len(asked) = 0 /\ Len(answers) = 0
    BY DEF Init
  <1> QED
    BY <1>1, TypeInit DEF Init, IInv, OneAtATime, Idle, Busy, RightAnswer

LEMMA IInvStep ==
    ASSUME ~Pipelined, IInv, [Next]_vars
    PROVE  IInv'
  <1>1. TypeInv'
    BY TypeStep DEF IInv
  <1> DEFINE Goal == OneAtATime' /\ Idle' /\ Busy' /\ RightAnswer'
  <1>2. CASE \E s \in Shapes : ClientSend(s)
    BY <1>1, <1>2, SendStep DEF IInv
  <1>3. ASSUME ClientClose \/ ReadEnds \/ UNCHANGED vars PROVE Goal
    <2>1. /\ UNCHANGED <<asked, socket, chunk, parser, keep, serving, trace, status, answers>>
          /\ pc' = pc \/ pc' = "closed"
      BY <1>3 DEF ClientClose, ReadEnds, client, vars
    <2>2. OneAtATime' /\ RightAnswer'
      BY <2>1, AnswersKept
    <2>3. CASE pc' = pc
      BY <2>1, <2>2, <2>3 DEF IInv, Idle, Busy, Dispatched, Refused, Unseen, Seen, Sent, Newest
    <2>4. CASE pc' = "closed"
      BY <2>2, <2>4 DEF Idle, Busy
    <2> QED
      BY <2>1, <2>3, <2>4
  <1>4. CASE ClientClose \/ ReadEnds \/ UNCHANGED vars
    BY <1>1, <1>3, <1>4 DEF IInv
  <1>5. CASE Read
    BY <1>1, <1>5, ReadStep DEF IInv
  <1>6. CASE Feed
    BY <1>1, <1>6, FeedStep DEF IInv
  <1>7. CASE Dispatch
    BY <1>1, <1>7, DispatchStep DEF IInv
  <1>8. CASE Write
    BY <1>1, <1>8, WriteStep DEF IInv
  <1>9. CASE Reset
    BY <1>1, <1>9, ResetStep DEF IInv
  <1>10. CASE Callbacks
    BY <1>1, <1>10, ParseStep DEF IInv
  <1> QED
    BY <1>2, <1>4, <1>5, <1>6, <1>7, <1>8, <1>9, <1>10 DEF Next, Loop, Callbacks

(* For a client that waits for each answer before it sends the next request,   *)
(* the loop of App::listen's connection handler gives the k-th response to the *)
(* k-th request and to nothing else, however TCP cut the bytes: 400 exactly    *)
(* when that request is malformed or over a limit of the parser, and with the  *)
(* trace context of its own traceparent.                                       *)
THEOREM AnswersSoundHolds ==
    ASSUME ~Pipelined
    PROVE  Spec => []AnswersSound
  <1>1. IInv /\ [Next]_vars => IInv'
    BY IInvStep
  <1>2. IInv => AnswersSound
    BY TypeInvTypeOK DEF IInv, AnswersSound
  <1> QED
    BY <1>1, <1>2, IInvInit, PTL DEF Spec

-----------------------------------------------------------------------------
(***************************************************************************)
(* The static-file middleware (StaticFiles): whatever path is asked for and  *)
(* however the files change meanwhile, only files below the root are served. *)
(***************************************************************************)
LEMMA LeastNumber ==
    ASSUME NEW T, T \subseteq Nat, T # {}
    PROVE  \E k \in T : \A j \in T : k <= j
  <1> DEFINE R == OpToRel(<, Nat)
  <1>1. IsWellFoundedOn(R, Nat)
    BY NatLessThanWellFounded
  <1>2. \A i, j \in Nat : j < i => <<j, i>> \in R
    BY DEF OpToRel
  <1> HIDE DEF R
  <1>3. PICK i \in T : \A j \in T : ~(<<j, i>> \in R)
    BY <1>1, WFMin
  <1>4. ASSUME NEW j \in T PROVE i <= j
    <2>1. i \in Nat /\ j \in Nat
      OBVIOUS
    <2>2. ~(j < i)
      BY <1>2, <1>3, <2>1
    <2> QED
      BY <2>1, <2>2
  <1> QED
    BY <1>4

LEMMA GreatestNumber ==
    ASSUME NEW n \in Nat, NEW T, T \subseteq 1..n, T # {}
    PROVE  \E k \in T : \A j \in T : j <= k
  <1> DEFINE U == {n - k : k \in T}
  <1>1. U \subseteq Nat /\ U # {}
    <2>1. ASSUME NEW k \in T PROVE n - k \in Nat
      <3>1. k \in 1..n
        OBVIOUS
      <3> QED
        BY <3>1
    <2>2. PICK k \in T : TRUE
      OBVIOUS
    <2>3. n - k \in U
      BY <2>2
    <2> QED
      BY <2>1, <2>3
  <1> HIDE DEF U
  <1>2. PICK u \in U : \A v \in U : u <= v
    BY <1>1, LeastNumber
  <1>3. PICK k \in T : u = n - k
    BY DEF U
  <1>4. ASSUME NEW j \in T PROVE j <= k
    <2>1. n - j \in U
      BY DEF U
    <2>2. n - k <= n - j /\ j \in Nat /\ k \in Nat
      BY <1>2, <1>3, <2>1
    <2> QED
      BY <2>2
  <1> QED
    BY <1>4

(* Induction over 0..n. *)
LEMMA Upward ==
    ASSUME NEW n \in Nat, NEW T, 0 \in T, \A i \in 1..n : i - 1 \in T => i \in T
    PROVE  \A i \in 0..n : i \in T
  <1> SUFFICES ASSUME NEW m \in 0..n, m \notin T PROVE FALSE
    OBVIOUS
  <1> DEFINE Bad == {k \in Nat : k \in 0..n /\ k \notin T}
  <1>1. PICK k \in Bad : \A j \in Bad : k <= j
    <2>1. m \in Bad /\ Bad \subseteq Nat
      OBVIOUS
    <2> HIDE DEF Bad
    <2> QED
      BY <2>1, LeastNumber
  <1>2. k \in Nat /\ k \in 1..n /\ k \notin T
    OBVIOUS
  <1>3. k - 1 \in Nat /\ k - 1 \in 0..n /\ ~(k <= k - 1)
    BY <1>2
  <1>4. k - 1 \in T
    BY <1>1, <1>3
  <1> QED
    BY <1>2, <1>4

(* A loop over 1..n that keeps its accumulator in S. *)
LEMMA LoopExists ==
    ASSUME NEW S, NEW a \in S, NEW n \in Nat, NEW F \in [1..n -> [S -> S]]
    PROVE  \E g \in [0..n -> S] : g[0] = a /\ \A i \in 1..n : g[i] = F[i][g[i - 1]]
  <1> DEFINE Runs(g, k) == g[0] = a /\ \A i \in 1..k : g[i] = F[i][g[i - 1]]
             T == {k \in 0..n : \E g \in [0..k -> S] : Runs(g, k)}
  <1>1. 0 \in T
    <2> DEFINE g == [i \in 0..0 |-> a]
    <2>1. g \in [0..0 -> S] /\ Runs(g, 0)
      OBVIOUS
    <2> HIDE DEF g, Runs
    <2> QED
      BY <2>1
  <1>2. ASSUME NEW k \in 1..n, k - 1 \in T PROVE k \in T
    <2>1. PICK g \in [0..(k - 1) -> S] : Runs(g, k - 1)
      BY <1>2
    <2> DEFINE x == F[k][g[k - 1]]
               f == [i \in 0..k |-> IF i = k THEN x ELSE g[i]]
    <2>2. x \in S
      BY <2>1
    <2> HIDE DEF x
    <2>3. f \in [0..k -> S]
      BY <2>1, <2>2
    <2>4. f[0] = a
      BY <2>1
    <2>5. ASSUME NEW i \in 1..k PROVE f[i] = F[i][f[i - 1]]
      <3>1. i \in 0..k /\ i - 1 \in 0..k /\ i - 1 # k
        OBVIOUS
      <3>2. f[i - 1] = g[i - 1]
        BY <3>1
      <3>3. CASE i = k
        BY <3>1, <3>2, <3>3 DEF x
      <3>4. CASE i # k
        <4>1. i \in 1..(k - 1) /\ f[i] = g[i]
          BY <3>1, <3>4
        <4> QED
          BY <2>1, <3>2, <4>1
      <3> QED
        BY <3>3, <3>4
    <2> HIDE DEF f
    <2>6. Runs(f, k)
      BY <2>4, <2>5
    <2> HIDE DEF Runs
    <2> QED
      BY <2>3, <2>6
  <1> HIDE DEF T
  <1>3. \A i \in 0..n : i \in T
    BY <1>1, <1>2, Upward
  <1>4. n \in T
    BY <1>3
  <1>5. \E g \in [0..n -> S] : Runs(g, n)
    BY <1>4 DEF T
  <1> QED
    BY <1>5

Char == Seq(Nat)

(* Segments reads a string character by character.  Cuts is its loop: what   *)
(* it has made of the first i characters.                                    *)
Cuts(p) ==
    LET upto[i \in 0..Len(p)] ==
            IF i = 0 THEN <<<<>>>>
            ELSE IF p[i] = Slash THEN Append(upto[i - 1], <<>>)
            ELSE [upto[i - 1] EXCEPT ![Len(upto[i - 1])] = Append(@, p[i])]
    IN  upto

NextCut(x, ch) ==
    IF ch = Slash THEN Append(x, <<>>)
    ELSE [x EXCEPT ![Len(x)] = Append(@, ch)]

Pieces == {x \in Seq(Seq(Char)) : Len(x) > 0}

LEMMA SegmentsAreCuts ==
    ASSUME NEW p
    PROVE  Segments(p) = Cuts(p)[Len(p)]
  BY DEF Segments, Cuts

(* A slash begins a segment, any other character is added to the last one. *)
LEMMA NextCutSlash ==
    ASSUME NEW x \in Pieces, NEW ch \in Char, ch = Slash
    PROVE  /\ NextCut(x, ch) \in Pieces
           /\ Len(NextCut(x, ch)) = Len(x) + 1
           /\ \A m \in 1..Len(x) : NextCut(x, ch)[m] = x[m]
           /\ NextCut(x, ch)[Len(x) + 1] = <<>>
  <1> DEFINE y == NextCut(x, ch)
  <1>1. y = Append(x, <<>>)
    BY DEF NextCut
  <1>2. x \in Seq(Seq(Char)) /\ Len(x) \in Nat /\ <<>> \in Seq(Char)
    BY DEF Pieces
  <1> HIDE DEF y
  <1>3. y \in Seq(Seq(Char)) /\ Len(y) = Len(x) + 1
    BY <1>1, <1>2
  <1>4. \A m \in 1..Len(x) : y[m] = x[m]
    BY <1>1, <1>2
  <1>5. y[Len(x) + 1] = <<>>
    BY <1>1, <1>2
  <1>6. y \in Pieces
    BY <1>2, <1>3 DEF Pieces
  <1> QED
    BY <1>3, <1>4, <1>5, <1>6 DEF y

LEMMA NextCutOther ==
    ASSUME NEW x \in Pieces, NEW ch \in Char, ch # Slash
    PROVE  /\ NextCut(x, ch) \in Pieces
           /\ Len(NextCut(x, ch)) = Len(x)
           /\ \A m \in 1..(Len(x) - 1) : NextCut(x, ch)[m] = x[m]
           /\ NextCut(x, ch)[Len(x)] = Append(x[Len(x)], ch)
  <1> DEFINE y == NextCut(x, ch)
             z == Append(x[Len(x)], ch)
  <1>1. x \in Seq(Seq(Char)) /\ Len(x) \in Nat /\ Len(x) > 0 /\ Len(x) \in 1..Len(x)
    BY DEF Pieces
  <1>2. x[Len(x)] \in Seq(Char)
    BY <1>1
  <1>3. z \in Seq(Char)
    BY <1>2
  <1>4. y = [x EXCEPT ![Len(x)] = z]
    BY DEF NextCut
  <1> HIDE DEF z, y
  <1>5. y \in Seq(Seq(Char)) /\ Len(y) = Len(x)
    BY <1>1, <1>3, <1>4
  <1>6. ASSUME NEW m \in 1..Len(x) PROVE y[m] = IF m = Len(x) THEN z ELSE x[m]
    BY <1>1, <1>4
  <1>7. ASSUME NEW m \in 1..(Len(x) - 1) PROVE y[m] = x[m]
    <2>1. m \in 1..Len(x) /\ m # Len(x)
      BY <1>1
    <2> QED
      BY <1>6, <2>1
  <1>8. y[Len(x)] = z
    BY <1>1, <1>6
  <1>9. y \in Pieces
    BY <1>1, <1>5 DEF Pieces
  <1> QED
    BY <1>5, <1>7, <1>8, <1>9 DEF y, z

LEMMA NextCutType ==
    ASSUME NEW x \in Pieces, NEW ch \in Char
    PROVE  NextCut(x, ch) \in Pieces
  BY NextCutSlash, NextCutOther

(* The loop runs. *)
LEMMA CutsRun ==
    ASSUME NEW p \in Seq(Char)
    PROVE  /\ \A i \in 0..Len(p) : Cuts(p)[i] \in Pieces
           /\ Cuts(p)[0] = <<<<>>>>
           /\ \A i \in 1..Len(p) : Cuts(p)[i] = NextCut(Cuts(p)[i - 1], p[i])
  <1> DEFINE n == Len(p)
             a == <<<<>>>>
             Rec(f) == f = [i \in 0..n |-> IF i = 0 THEN a ELSE NextCut(f[i - 1], p[i])]
             c == CHOOSE f : Rec(f)
  <1>0. n \in Nat
    OBVIOUS
  <1>1. ASSUME NEW x \in Pieces, NEW i \in 1..n PROVE NextCut(x, p[i]) \in Pieces
    <2>1. p[i] \in Char
      OBVIOUS
    <2> QED
      BY <2>1, NextCutType
  <1>2. a \in Pieces
    BY DEF Pieces
  <1> DEFINE F == [i \in 1..n |-> [x \in Pieces |-> NextCut(x, p[i])]]
  <1>8. Cuts(p) = c
    BY DEF Cuts, NextCut
  <1> HIDE DEF n, a
  <1>3. F \in [1..n -> [Pieces -> Pieces]]
    BY <1>1
  <1> HIDE DEF F
  <1>4. PICK g \in [0..n -> Pieces] : g[0] = a /\ \A i \in 1..n : g[i] = F[i][g[i - 1]]
    <2> HIDE DEF Rec, c
    <2> QED
      BY <1>0, <1>2, <1>3, LoopExists
  <1>5. \A i \in 1..n : g[i] = NextCut(g[i - 1], p[i])
    <2> SUFFICES ASSUME NEW i \in 1..n PROVE g[i] = NextCut(g[i - 1], p[i])
      OBVIOUS
    <2>1. i - 1 \in 0..n /\ g[i - 1] \in Pieces
      BY <1>0
    <2> QED
      BY <1>4, <2>1 DEF F
  <1>6. Rec(g)
    <2>1. ASSUME NEW i \in 0..n PROVE g[i] = IF i = 0 THEN a ELSE NextCut(g[i - 1], p[i])
      <3>1. CASE i = 0
        BY <1>4, <3>1
      <3>2. CASE i # 0
        <4>1. i \in 1..n
          BY <1>0, <3>2
        <4> QED
          BY <1>5, <3>2, <4>1
      <3> QED
        BY <3>1, <3>2
    <2> QED
      BY <2>1
  <1>7. Rec(c)
    BY <1>6
  <1> HIDE DEF c
  <1>9. c[0] = a /\ \A i \in 1..n : c[i] = NextCut(c[i - 1], p[i])
    <2>1. \A i \in 0..n : c[i] = IF i = 0 THEN a ELSE NextCut(c[i - 1], p[i])
      BY <1>7
    <2> QED
      BY <1>0, <2>1
  <1> DEFINE T == {i \in 0..n : c[i] \in Pieces}
  <1>10. 0 \in T /\ \A i \in 1..n : i - 1 \in T => i \in T
    BY <1>0, <1>1, <1>2, <1>9
  <1> HIDE DEF T
  <1>11. \A i \in 0..n : i \in T
    BY <1>0, <1>10, Upward
  <1>12. \A i \in 0..n : c[i] \in Pieces
    BY <1>11 DEF T
  <1> QED
    BY <1>8, <1>9, <1>12 DEF n, a

(* The strings between the '/' of a string are strings. *)
LEMMA SegmentsType ==
    ASSUME NEW p \in Seq(Char)
    PROVE  Segments(p) \in Pieces
  <1>1. Len(p) \in 0..Len(p)
    OBVIOUS
  <1> QED
    BY <1>1, CutsRun, SegmentsAreCuts

(* The names of the path below the root are texts. *)
LEMMA SplitType ==
    ASSUME NEW p \in Seq(Char)
    PROVE  split_validated_segments(p) \in Seq(Seq(Char))
  <1> DEFINE segs == Segments(p)
             n == Len(segs)
             a == <<>>
             S == Seq(Seq(Char))
             Turn(x, i) == IF segs[i] = <<>> THEN x ELSE Append(x, segs[i])
             Rec(f) == f = [i \in 0..n |-> IF i = 0 THEN a ELSE Turn(f[i - 1], i)]
             c == CHOOSE f : Rec(f)
  <1>0. segs \in Seq(Seq(Char)) /\ n \in Nat
    BY SegmentsType DEF Pieces
  <1> HIDE DEF segs
  <1>13. n \in Nat
    BY <1>0
  <1>1. ASSUME NEW x \in S, NEW i \in 1..n PROVE Turn(x, i) \in S
    <2>1. segs[i] \in Seq(Char)
      BY <1>0
    <2> QED
      BY <2>1
  <1>2. a \in S
    OBVIOUS
  <1> DEFINE F == [i \in 1..n |-> [x \in S |-> Turn(x, i)]]
  <1> HIDE DEF S, Turn, n, a
  <1>3. F \in [1..n -> [S -> S]]
    BY <1>1
  <1> HIDE DEF F
  <1>4. PICK g \in [0..n -> S] : g[0] = a /\ \A i \in 1..n : g[i] = F[i][g[i - 1]]
    BY <1>13, <1>2, <1>3, LoopExists
  <1>5. \A i \in 1..n : g[i] = Turn(g[i - 1], i)
    <2> SUFFICES ASSUME NEW i \in 1..n PROVE g[i] = Turn(g[i - 1], i)
      OBVIOUS
    <2>1. i - 1 \in 0..n /\ g[i - 1] \in S
      BY <1>0
    <2> QED
      BY <1>4, <2>1 DEF F
  <1>6. Rec(g)
    <2>1. ASSUME NEW i \in 0..n PROVE g[i] = IF i = 0 THEN a ELSE Turn(g[i - 1], i)
      <3>1. CASE i = 0
        BY <1>4, <3>1
      <3>2. CASE i # 0
        <4>1. i \in 1..n
          BY <1>0, <3>2
        <4> QED
          BY <1>5, <3>2, <4>1
      <3> QED
        BY <3>1, <3>2
    <2> QED
      BY <2>1
  <1>7. Rec(c)
    BY <1>6
  <1>8. split_validated_segments(p) = c[n]
    BY DEF split_validated_segments, Turn, n, a, segs
  <1> HIDE DEF c
  <1>9. c[0] = a /\ \A i \in 1..n : c[i] = Turn(c[i - 1], i)
    <2>1. \A i \in 0..n : c[i] = IF i = 0 THEN a ELSE Turn(c[i - 1], i)
      BY <1>7
    <2> QED
      BY <1>0, <2>1
  <1> DEFINE T == {i \in 0..n : c[i] \in S}
  <1>10. 0 \in T /\ \A i \in 1..n : i - 1 \in T => i \in T
    BY <1>0, <1>1, <1>2, <1>9
  <1> HIDE DEF T
  <1>11. \A i \in 0..n : i \in T
    BY <1>0, <1>10, Upward
  <1>12. c[n] \in S
    BY <1>0, <1>11 DEF T
  <1> QED
    BY <1>8, <1>12 DEF S

(* The file system of the state: links resolve to canonical paths. *)
FsOK(tree) ==
    /\ tree = [p \in Paths |-> tree[p]]
    /\ \A p \in Paths : tree[p].kind = "link" => Canonical(tree, tree[p].to)

LEMMA CanonicalEmpty ==
    Canonical(fs, <<>>)
  BY DEF Canonical, Text

(* One more name: a link is replaced by its target, anything else is kept. *)
LEMMA FollowCanonical ==
    ASSUME FsOK(fs), NEW q, Canonical(fs, q), NEW s \in Seq(Char)
    PROVE  Canonical(fs, follow(Append(q, s)))
  <1> DEFINE r == Append(q, s)
  <1>1. q \in Seq(Seq(Char))
    BY DEF Canonical, Text, Char
  <1>2. r \in Seq(Seq(Char)) /\ Len(r) = Len(q) + 1 /\ Len(q) \in Nat
    BY <1>1
  <1>3. CASE Node(r).kind = "link"
    <2>1. r \in Paths
      <3>1. r \notin Paths => Node(r).kind = "none"
        BY DEF Node, None
      <3> QED
        BY <1>3, <3>1
    <2>2. Node(r) = fs[r]
      BY <2>1 DEF Node
    <2>3. follow(r) = fs[r].to
      BY <1>3, <2>2 DEF follow
    <2> QED
      BY <1>3, <2>1, <2>2, <2>3 DEF FsOK
  <1>4. CASE Node(r).kind # "link"
    <2>1. follow(r) = r
      BY <1>4 DEF follow
    <2>2. ASSUME NEW n \in 1..Len(r), SubSeq(r, 1, n) \in Paths
          PROVE  fs[SubSeq(r, 1, n)].kind # "link"
      <3>1. CASE n = Len(r)
        <4>1. SubSeq(r, 1, n) = r
          BY <1>2, <3>1
        <4> QED
          BY <1>4, <2>2, <4>1 DEF Node
      <3>2. CASE n # Len(r)
        <4>1. n \in 1..Len(q)
          BY <1>2, <3>2
        <4>2. SubSeq(r, 1, n) = SubSeq(q, 1, n)
          BY <1>1, <1>2, <4>1
        <4> QED
          BY <2>2, <4>1, <4>2 DEF Canonical
      <3> QED
        BY <3>1, <3>2
    <2>3. Canonical(fs, r)
      <3> HIDE DEF r
      <3> QED
        BY <1>2, <2>2 DEF Canonical, Text, Char
    <2> QED
      BY <2>1, <2>3
  <1> QED
    BY <1>3, <1>4

(* weakly_canonical follows the path name by name; what it returns lies      *)
(* behind no link.                                                           *)
LEMMA WeaklyCanonical ==
    ASSUME FsOK(fs), NEW p \in Seq(Seq(Char))
    PROVE  /\ Canonical(fs, weakly_canonical(p))
           /\ Canonical(fs, p) => weakly_canonical(p) = p
  <1> DEFINE n == Len(p)
             a == <<>>
             S == {q \in Seq(Seq(Char)) : Canonical(fs, q)}
             Turn(x, i) == follow(Append(x, p[i]))
             Rec(f) == f = [i \in 0..n |-> IF i = 0 THEN a ELSE Turn(f[i - 1], i)]
             c == CHOOSE f : Rec(f)
  <1>0. n \in Nat
    OBVIOUS
  <1>1. ASSUME NEW x \in S, NEW i \in 1..n PROVE Turn(x, i) \in S
    <2>1. p[i] \in Seq(Char) /\ Canonical(fs, x)
      OBVIOUS
    <2>2. Canonical(fs, Turn(x, i))
      BY <2>1, FollowCanonical
    <2> HIDE DEF Turn
    <2> QED
      BY <2>2 DEF Canonical, Text, Char
  <1>2. a \in S
    BY CanonicalEmpty
  <1> DEFINE F == [i \in 1..n |-> [x \in S |-> Turn(x, i)]]
  <1> HIDE DEF S, Turn, n, a
  <1>3. F \in [1..n -> [S -> S]]
    BY <1>1
  <1> HIDE DEF F
  <1>4. PICK g \in [0..n -> S] : g[0] = a /\ \A i \in 1..n : g[i] = F[i][g[i - 1]]
    <2> HIDE DEF Rec, c
    <2>1. \E g \in [0..n -> S] : g[0] = a /\ \A i \in 1..n : g[i] = F[i][g[i - 1]]
      BY <1>0, <1>2, <1>3, LoopExists, SMTT(60)
    <2> QED
      BY <2>1
  <1>5. \A i \in 1..n : g[i] = Turn(g[i - 1], i)
    <2> SUFFICES ASSUME NEW i \in 1..n PROVE g[i] = Turn(g[i - 1], i)
      OBVIOUS
    <2>1. i - 1 \in 0..n /\ g[i - 1] \in S
      BY <1>0
    <2> QED
      BY <1>4, <2>1 DEF F
  <1>6. Rec(g)
    <2>1. ASSUME NEW i \in 0..n PROVE g[i] = IF i = 0 THEN a ELSE Turn(g[i - 1], i)
      <3>1. CASE i = 0
        BY <1>4, <3>1
      <3>2. CASE i # 0
        <4>1. i \in 1..n
          BY <1>0, <3>2
        <4> QED
          BY <1>5, <3>2, <4>1
      <3> QED
        BY <3>1, <3>2
    <2> QED
      BY <2>1
  <1>7. Rec(c)
    BY <1>6
  <1>8. weakly_canonical(p) = c[n]
    BY DEF weakly_canonical, Turn, n, a
  <1> HIDE DEF c
  <1>9. c[0] = a /\ \A i \in 1..n : c[i] = Turn(c[i - 1], i)
    <2>1. \A i \in 0..n : c[i] = IF i = 0 THEN a ELSE Turn(c[i - 1], i)
      BY <1>7
    <2> QED
      BY <1>0, <2>1
  <1> DEFINE T == {i \in 0..n : c[i] \in S}
  <1>10. 0 \in T /\ \A i \in 1..n : i - 1 \in T => i \in T
    BY <1>0, <1>1, <1>2, <1>9
  <1> HIDE DEF T
  <1>11. \A i \in 0..n : i \in T
    BY <1>0, <1>10, Upward
  <1>12. c[n] \in S
    BY <1>0, <1>11 DEF T
  <1>13. ASSUME Canonical(fs, p) PROVE c[n] = p
    <2> DEFINE U == {i \in 0..n : c[i] = SubSeq(p, 1, i)}
    <2>1. 0 \in U
      <3>1. SubSeq(p, 1, 0) = <<>>
        OBVIOUS
      <3>2. 0 \in 0..n
        BY <1>0
      <3> QED
        BY <1>9, <3>1, <3>2 DEF a
    <2>2. ASSUME NEW i \in 1..n, i - 1 \in U PROVE i \in U
      <3> DEFINE q == SubSeq(p, 1, i)
      <3>1. q = Append(SubSeq(p, 1, i - 1), p[i])
        BY <1>0 DEF n
      <3>2. c[i] = follow(q)
        BY <1>9, <2>2, <3>1 DEF Turn
      <3>3. q \in Paths => fs[q].kind # "link"
        BY <1>13 DEF Canonical, n
      <3> HIDE DEF q
      <3>4. Node(q).kind # "link"
        BY <3>3 DEF Node, None
      <3>5. follow(q) = q
        BY <3>4 DEF follow
      <3> QED
        BY <3>2, <3>5 DEF q
    <2> HIDE DEF U
    <2>3. \A i \in 0..n : i \in U
      BY <1>0, <2>1, <2>2, Upward
    <2>4. c[n] = SubSeq(p, 1, n)
      BY <1>0, <2>3 DEF U
    <2> QED
      BY <2>4 DEF n
  <1> QED
    BY <1>8, <1>12, <1>13 DEF S

-----------------------------------------------------------------------------
(* The path of the request below the prefix is a text. *)
LEMMA PathView ==
    ASSUME NEW t \in Seq(Char)
    PROVE  path_view(t) \in Seq(Char)
  <1> DEFINE Q == QueryAt(t)
             k == CHOOSE i \in Q : \A j \in Q : i <= j
  <1>1. CASE Q = {}
    BY <1>1 DEF path_view
  <1>2. CASE Q # {}
    <2>1. Q \subseteq 1..Len(t) /\ Q \subseteq Nat
      BY DEF QueryAt
    <2>2. path_view(t) = SubSeq(t, 1, k - 1)
      BY <1>2 DEF path_view
    <2> HIDE DEF Q
    <2>3. k \in Q
      <3>1. \E i \in Q : \A j \in Q : i <= j
        BY <1>2, <2>1, LeastNumber
      <3> QED
        BY <3>1
    <2> HIDE DEF k
    <2>4. k \in 1..Len(t)
      BY <2>1, <2>3
    <2> QED
      BY <2>2, <2>4
  <1> QED
    BY <1>1, <1>2

LEMMA NormalizedPrefix ==
    ASSUME NEW p \in Seq(Char), p # <<>>
    PROVE  normalize_url_prefix(p) \in Seq(Char)
  <1> DEFINE K == {n \in 1..Len(p) : n = 1 \/ p[n] # Slash}
             k == CHOOSE n \in K : \A m \in K : m <= n
  <1>1. normalize_url_prefix(p) = SubSeq(p, 1, k)
    BY DEF normalize_url_prefix
  <1>2. K \subseteq 1..Len(p) /\ K # {} /\ Len(p) \in Nat
    <2>1. 1 \in 1..Len(p)
      OBVIOUS
    <2>2. 1 \in K
      BY <2>1
    <2> QED
      BY <2>2
  <1> HIDE DEF K
  <1>3. k \in K
    <2>1. \E n \in K : \A m \in K : m <= n
      BY <1>2, GreatestNumber
    <2> QED
      BY <2>1
  <1> HIDE DEF k
  <1>4. k \in 1..Len(p)
    BY <1>2, <1>3
  <1> QED
    BY <1>1, <1>4

LEMMA StripPrefix ==
    ASSUME NEW p \in Seq(Char), NEW prefix \in Seq(Char)
    PROVE  strip_prefix(p, prefix) \in Seq(Char)
  <1>1. <<Slash>> \in Seq(Char)
    BY DEF Slash, Char
  <1>2. SubSeq(p, Len(prefix) + 1, Len(p)) \in Seq(Char)
    <2>1. Len(prefix) \in Nat /\ Len(p) \in Nat
      OBVIOUS
    <2>2. \A i \in (Len(prefix) + 1)..Len(p) : i \in 1..Len(p)
      BY <2>1
    <2> QED
      BY <2>1, <2>2, SubSeqProperties
  <1> QED
    BY <1>1, <1>2 DEF strip_prefix

LEMMA PercentDecoded ==
    ASSUME NEW p \in Seq(Char)
    PROVE  percent_decode_path(p) \in Seq(Char)
  <1>1. ASSUME NEW t \in Char PROVE Decoded(t) \in Char
    <2>1. CASE Escape(t)
      <3>1. t[1] \in Nat /\ t[2] \in Nat
        <4>1. t \in Seq(Nat) /\ Len(t) = 2
          BY <2>1 DEF Escape, Char
        <4>2. 1 \in 1..Len(t) /\ 2 \in 1..Len(t)
          BY <4>1
        <4> QED
          BY <4>1, <4>2, ElementOfSeq
      <3>2. t[1] * 16 + t[2] \in Nat
        BY <3>1
      <3> QED
        BY <2>1, <3>2 DEF Decoded, Char
    <2>2. CASE ~Escape(t)
      BY <2>2 DEF Decoded
    <2> QED
      BY <2>1, <2>2
  <1>2. \A i \in 1..Len(p) : Decoded(p[i]) \in Char
    BY <1>1
  <1>3. percent_decode_path(p) = [i \in 1..Len(p) |-> Decoded(p[i])]
    BY DEF percent_decode_path
  <1> QED
    BY <1>2, <1>3, IsASeq

(* What the request names below the root is a sequence of texts. *)
LEMMA RequestSegments ==
    ASSUME StaticTypes, config \in Configs, request \in Requests,
           make_state_error(config) = "none"
    PROVE  request_segments \in Seq(Seq(Char))
  <1>1. request.target \in Seq(Char) /\ config.url_prefix \in Seq(Char)
    BY DEF StaticTypes, Text, Char
  <1>2. request_path \in Seq(Char)
    BY <1>1, PathView DEF request_path
  <1>3. config.url_prefix # <<>>
    <2>1. is_valid_url_prefix(config.url_prefix)
      BY DEF make_state_error
    <2> QED
      BY <2>1 DEF is_valid_url_prefix
  <1>4. state.url_prefix \in Seq(Char)
    <2>1. state.url_prefix = normalize_url_prefix(config.url_prefix)
      BY DEF state, make_state
    <2> QED
      BY <1>1, <1>3, <2>1, NormalizedPrefix
  <1> DEFINE s == strip_prefix(request_path, state.url_prefix)
             d == percent_decode_path(s)
  <1>5. s \in Seq(Char)
    BY <1>2, <1>4, StripPrefix
  <1>6. request_segments = split_validated_segments(d)
    BY DEF request_segments
  <1> HIDE DEF s
  <1>7. d \in Seq(Char)
    BY <1>5, PercentDecoded
  <1> HIDE DEF d
  <1> QED
    BY <1>6, <1>7, SplitType

(* Below the root, and behind no link. *)
Below(tree, p) == is_within_root(p) /\ Canonical(tree, p)

IsOk(code) == code = 200

Serving == {"is_directory", "is_regular_file", "file_size", "body"}

(* The resolved path is below the root as soon as there is one, and stays so *)
(* while the files change; a 200 is only answered with such a path.          *)
StaticInv ==
    /\ config \in Configs /\ request \in Requests
    /\ FsOK(fs)
    /\ step = "resolve" => make_state_error(config) = "none"
    /\ step \in Serving => Below(fs, path)
    /\ step \in {"write", "done"} /\ ~passed /\ IsOk(response.status) => Below(fs, path)
    /\ step = "done" => wire.status = response.status
    /\ step # "done" => ~IsOk(wire.status)

LEMMA RefusalStatus ==
    ASSUME NEW error \in {"NotFound", "Forbidden"}
    PROVE  ~IsOk(response_for_resolution_error(error).status)
  BY SMT DEF IsOk, response_for_resolution_error, Factory, Response

LEMMA MethodStatus ==
    ~IsOk(header(Factory("method_not_allowed", 0), Allow, "GET, HEAD").status)
  <1> DEFINE r == Factory("method_not_allowed", 0)
             h == header(r, Allow, "GET, HEAD").status
  <1>1. r = Response(405, 0, "text/plain")
    BY SMT DEF Factory
  <1> HIDE DEF r
  <1>2. h = 405
    BY <1>1, SMT DEF header, Response
  <1> HIDE DEF h
  <1>3. ~IsOk(h)
    BY <1>2, SMT DEF IsOk
  <1> QED
    BY <1>3 DEF h, r

LEMMA WireStatus ==
    ASSUME NEW r
    PROVE  serialize_response(r).status = r.status
  BY DEF serialize_response

LEMMA EmptyStatus ==
    ~IsOk(serialize_response(MovedFrom).status)
  <1>1. MovedFrom.status = 0
    BY DEF MovedFrom, Response
  <1> QED
    BY <1>1, WireStatus, SMT DEF IsOk

LEMMA StaticInvInit ==
    ASSUME StaticTypes, StaticInit
    PROVE  StaticInv
  <1>1. config \in Configs /\ request \in Requests /\ fs \in Trees /\ step = "match"
    BY DEF StaticInit
  <1>2. FsOK(fs)
    BY <1>1 DEF StaticTypes, FsOK
  <1>3. ~IsOk(wire.status)
    BY EmptyStatus DEF StaticInit
  <1> QED
    BY <1>1, <1>2, <1>3 DEF StaticInv, Serving

(* A request that is refused is not answered with 200. *)
LEMMA StaticRefuse ==
    ASSUME StaticInv, step # "done",
           NEW error \in {"NotFound", "Forbidden"}, Refuse(error)
    PROVE  StaticInv'
  <1>1. /\ step' = "write" /\ response' = response_for_resolution_error(error)
        /\ UNCHANGED <<config, request, fs, path, size, wire, passed, changes>>
    BY DEF Refuse, Finish
  <1>2. ~IsOk(response'.status)
    BY <1>1, RefusalStatus
  <1> QED
    BY <1>1, <1>2 DEF StaticInv, Serving

(* A candidate is looked at only below the root and behind its links. *)
LEMMA StaticCandidate ==
    ASSUME StaticInv, step # "done", NEW candidate \in Seq(Seq(Char)),
           NEW next \in Serving, resolve_candidate(candidate, next)
    PROVE  StaticInv'
  <1> DEFINE q == weakly_canonical(candidate)
  <1>1. Canonical(fs, q)
    BY WeaklyCanonical DEF StaticInv
  <1>2. CASE Refuse("NotFound") \/ Refuse("Forbidden")
    BY <1>2, StaticRefuse
  <1>3. CASE /\ is_within_root(q) /\ path' = q
             /\ Goto(next) /\ UNCHANGED size
    <2> HIDE DEF q
    <2>1. Below(fs, path)'
      BY <1>1, <1>3 DEF Below, is_within_root, Canonical, Goto
    <2> QED
      BY <1>3, <2>1 DEF StaticInv, Serving, Goto, Below
  <1> QED
    BY <1>2, <1>3 DEF resolve_candidate

LEMMA StaticMatch ==
    ASSUME StaticInv, Match
    PROVE  StaticInv'
  <1>1. step = "match" /\ make_state_error(config) = "none"
    BY DEF Match
  <1>2. CASE Goto("resolve") /\ UNCHANGED <<path, size>>
    <2>1. step' = "resolve" /\ UNCHANGED <<config, request, fs, path, response, wire, passed>>
      BY <1>2 DEF Goto
    <2>2. (make_state_error(config) = "none")'
      BY <1>1, <2>1 DEF make_state_error
    <2> QED
      BY <1>1, <2>1, <2>2 DEF StaticInv, Serving
  <1>3. CASE Finish(header(Factory("method_not_allowed", 0),
                                         Allow, "GET, HEAD"))
    <2>1. /\ step' = "write" /\ ~IsOk(response'.status)
          /\ UNCHANGED <<config, request, fs, path, size, wire, passed>>
      BY <1>3, MethodStatus DEF Finish
    <2> QED
      BY <1>1, <2>1 DEF StaticInv, Serving
  <1> QED
    BY <1>2, <1>3 DEF Match

LEMMA StaticResolve ==
    ASSUME StaticTypes, StaticInv, Resolve
    PROVE  StaticInv'
  <1>1. step = "resolve" /\ step # "done" /\ make_state_error(config) = "none"
    BY DEF Resolve, StaticInv
  <1>2. CASE Refuse("Forbidden")
    BY <1>1, <1>2, StaticRefuse
  <1>3. CASE resolve_candidate(Root \o request_segments, "is_directory")
    <2>1. request_segments \in Seq(Seq(Char))
      BY <1>1, RequestSegments DEF StaticInv
    <2>2. Root \in Seq(Seq(Char))
      BY DEF StaticTypes, Text, Char
    <2>3. Root \o request_segments \in Seq(Seq(Char))
      BY <2>1, <2>2
    <2> QED
      BY <1>1, <1>3, <2>3, StaticCandidate DEF Serving
  <1> QED
    BY <1>2, <1>3 DEF Resolve

LEMMA StaticIsDirectory ==
    ASSUME StaticTypes, StaticInv, IsDirectory
    PROVE  StaticInv'
  <1>1. step = "is_directory" /\ step # "done" /\ Below(fs, path)
    BY DEF IsDirectory, StaticInv, Serving
  <1>2. CASE Goto("is_regular_file") /\ UNCHANGED <<path, size>>
    BY <1>1, <1>2 DEF Goto, StaticInv, Serving
  <1>3. CASE Refuse("NotFound")
    BY <1>1, <1>3, StaticRefuse
  <1>4. CASE resolve_candidate(Append(path, state.index_file), "is_regular_file")
    <2>1. path \in Seq(Seq(Char))
      BY <1>1 DEF Below, Canonical, Text, Char
    <2>2. state.index_file \in Seq(Char)
      BY DEF state, make_state, StaticInv, StaticTypes, Text, Char
    <2>3. Append(path, state.index_file) \in Seq(Seq(Char))
      BY <2>1, <2>2
    <2> QED
      BY <1>1, <1>4, <2>3, StaticCandidate DEF Serving
  <1> QED
    BY <1>2, <1>3, <1>4 DEF IsDirectory

LEMMA StaticIsRegularFile ==
    ASSUME StaticInv, IsRegularFile
    PROVE  StaticInv'
  <1>1. step = "is_regular_file" /\ step # "done" /\ Below(fs, path)
    BY DEF IsRegularFile, StaticInv, Serving
  <1>2. CASE Refuse("NotFound") \/ Refuse("Forbidden")
    BY <1>1, <1>2, StaticRefuse
  <1>3. CASE Goto("file_size") /\ UNCHANGED <<path, size>>
    BY <1>1, <1>3 DEF Goto, StaticInv, Serving
  <1> QED
    BY <1>2, <1>3 DEF IsRegularFile

(* The response of a file, whatever its status, comes from a path below the root. *)
LEMMA StaticFinish ==
    ASSUME StaticInv, step \in Serving, NEW r, Finish(r)
    PROVE  StaticInv'
  <1>1. Below(fs, path) /\ step # "done"
    BY DEF StaticInv, Serving
  <1> QED
    BY <1>1 DEF Finish, StaticInv, Serving

LEMMA StaticReadFileSize ==
    ASSUME StaticInv, ReadFileSize
    PROVE  StaticInv'
  <1>1. step = "file_size" /\ step # "done" /\ step \in Serving /\ Below(fs, path)
    BY DEF ReadFileSize, StaticInv, Serving
  <1>2. CASE Refuse("NotFound") \/ Refuse("Forbidden")
    BY <1>1, <1>2, StaticRefuse
  <1>3. CASE Finish(FileResponse(0, Node(path).size))
    BY <1>1, <1>3, StaticFinish
  <1>4. CASE Goto("body") /\ UNCHANGED path
    BY <1>1, <1>4 DEF Goto, StaticInv, Serving
  <1> QED
    BY <1>2, <1>3, <1>4 DEF ReadFileSize

LEMMA StaticReadFileBody ==
    ASSUME StaticInv, ReadFileBody
    PROVE  StaticInv'
  <1>1. step = "body" /\ step # "done" /\ step \in Serving /\ Below(fs, path)
    BY DEF ReadFileBody, StaticInv, Serving
  <1>2. CASE Refuse("NotFound")
    BY <1>1, <1>2, StaticRefuse
  <1>3. CASE Finish(FileResponse(size, size))
    BY <1>1, <1>3, StaticFinish
  <1> QED
    BY <1>2, <1>3 DEF ReadFileBody

(* Links neither appear nor disappear: what was canonical stays canonical. *)
LEMMA StaticFsChange ==
    ASSUME StaticTypes, StaticInv,
           NEW p \in Paths, NEW node \in Nodes, FsChange(p, node)
    PROVE  StaticInv'
  <1>1. /\ step' = step /\ step # "done" /\ step # "write" /\ step # "match"
        /\ fs[p].kind # "link" /\ fs' = [fs EXCEPT ![p] = node]
        /\ UNCHANGED <<config, request, path, size, response, wire, passed>>
    BY DEF FsChange
  <1>2. node.kind # "link"
    BY DEF StaticTypes
  <1>3. fs = [q \in Paths |-> fs[q]] /\ DOMAIN fs = Paths
    BY DEF StaticInv, FsOK
  <1>4. fs' = [q \in Paths |-> fs'[q]]
    BY <1>1, <1>3
  <1>5. ASSUME NEW q \in Paths
        PROVE  /\ fs'[q].kind = "link" <=> fs[q].kind = "link"
               /\ fs[q].kind = "link" => fs'[q] = fs[q]
    BY <1>1, <1>2, <1>3
  <1>6. ASSUME NEW q, Canonical(fs, q) PROVE Canonical(fs', q)
    <2>1. q \in Seq(Text)
      BY <1>6 DEF Canonical
    <2>2. ASSUME NEW n \in 1..Len(q), SubSeq(q, 1, n) \in Paths
          PROVE  fs'[SubSeq(q, 1, n)].kind # "link"
      BY <1>5, <1>6, <2>2 DEF Canonical
    <2> QED
      BY <2>1, <2>2 DEF Canonical
  <1>7. FsOK(fs')
    <2>1. ASSUME NEW q \in Paths, fs'[q].kind = "link" PROVE Canonical(fs', fs'[q].to)
      <3>1. fs[q].kind = "link" /\ fs'[q] = fs[q]
        BY <1>5, <2>1
      <3>2. Canonical(fs, fs[q].to)
        BY <3>1 DEF StaticInv, FsOK
      <3> QED
        BY <1>6, <3>1, <3>2
    <2> QED
      BY <1>4, <2>1 DEF FsOK
  <1>8. Below(fs, path) => Below(fs', path)
    BY <1>6 DEF Below
  <1>9. (make_state_error(config))' = make_state_error(config)
    BY <1>1 DEF make_state_error
  <1> QED
    BY <1>1, <1>7, <1>8, <1>9 DEF StaticInv

LEMMA StaticWrite ==
    ASSUME StaticInv, WriteResponse
    PROVE  StaticInv'
  <1>1. /\ step = "write" /\ step' = "done" /\ wire' = serialize_response(response)
        /\ UNCHANGED <<config, request, fs, path, size, response, passed>>
    BY DEF WriteResponse
  <1>2. wire'.status = response'.status
    BY <1>1, WireStatus
  <1> QED
    BY <1>1, <1>2 DEF StaticInv, Serving

LEMMA StaticPass ==
    ASSUME StaticInv, NEW r, Pass(r)
    PROVE  StaticInv'
  <1>1. /\ step = "match" /\ step' = "write" /\ passed'
        /\ UNCHANGED <<config, request, fs, path, size, wire>>
    BY DEF Pass
  <1> QED
    BY <1>1 DEF StaticInv, Serving

(* StaticInv is an inductive invariant of the static-file middleware, for any *)
(* root, request, configuration and file system, and any changes of the files *)
(* between its system calls.                                                  *)
THEOREM StaticFilesInvariant == StaticSpec => []StaticInv
  <1> USE StaticFilesAssumption
  <1>1. StaticInit => StaticInv
    BY StaticInvInit
  <1>2. StaticInv /\ [StaticNext]_staticVars => StaticInv'
    <2> SUFFICES ASSUME StaticInv, [StaticNext]_staticVars PROVE StaticInv'
      OBVIOUS
    <2>1. CASE \E r \in Handled : Pass(r)
      BY <2>1, StaticPass
    <2>2. CASE Match
      BY <2>2, StaticMatch
    <2>3. CASE Resolve
      BY <2>3, StaticResolve
    <2>4. CASE IsDirectory
      BY <2>4, StaticIsDirectory
    <2>5. CASE IsRegularFile
      BY <2>5, StaticIsRegularFile
    <2>6. CASE ReadFileSize
      BY <2>6, StaticReadFileSize
    <2>7. CASE ReadFileBody
      BY <2>7, StaticReadFileBody
    <2>8. CASE WriteResponse
      BY <2>8, StaticWrite
    <2>9. CASE \E p \in Paths, node \in Nodes : FsChange(p, node)
      BY <2>9, StaticFsChange
    <2>10. CASE UNCHANGED staticVars
      <3>1. UNCHANGED <<step, config, request, fs, path, response, wire, passed>>
        BY <2>10 DEF staticVars
      <3>2. (make_state_error(config))' = make_state_error(config)
        BY <3>1 DEF make_state_error
      <3> QED
        BY <3>1, <3>2 DEF StaticInv
    <2> QED
      BY <2>1, <2>2, <2>3, <2>4, <2>5, <2>6, <2>7, <2>8, <2>9, <2>10 DEF StaticNext
  <1> QED
    BY <1>1, <1>2, PTL DEF StaticSpec

(* ServesRootOnly: whatever path is asked for and however the files change    *)
(* meanwhile, a file is served only from below the root, and without leaving  *)
(* it through a link.                                                         *)
THEOREM OnlyBelowRoot == StaticSpec => []ServesRootOnly
  <1> USE StaticFilesAssumption
  <1>1. StaticInv => ServesRootOnly
    <2> SUFFICES ASSUME StaticInv, FileServed
                 PROVE  IsPrefix(Root, path) /\ weakly_canonical(path) = path
      BY DEF ServesRootOnly
    <2>1. ~passed /\ IsOk(wire.status)
      BY DEF FileServed, IsOk
    <2>2. step = "done" /\ IsOk(response.status)
      BY <2>1 DEF StaticInv
    <2>3. Below(fs, path) /\ FsOK(fs)
      BY <2>1, <2>2 DEF StaticInv
    <2>4. path \in Seq(Seq(Char))
      BY <2>3 DEF Below, Canonical, Text, Char
    <2> QED
      BY <2>3, <2>4, WeaklyCanonical DEF Below, is_within_root
  <1> QED
    BY <1>1, StaticFilesInvariant, PTL

-----------------------------------------------------------------------------
(* Prefixes, compared by characters and by segments. *)

LEMMA PrefixPointwise ==
    ASSUME NEW X, NEW s \in Seq(X), NEW t \in Seq(X)
    PROVE  IsPrefix(s, t) <=> Len(s) <= Len(t) /\ \A i \in 1..Len(s) : s[i] = t[i]
  <1>1. Len(s) \in Nat /\ Len(t) \in Nat /\ SubSeq(s, 1, Len(s)) = s
    OBVIOUS
  <1>2. ASSUME Len(s) <= Len(t)
        PROVE  s = SubSeq(t, 1, Len(s)) <=> \A i \in 1..Len(s) : s[i] = t[i]
    <2> DEFINE u == SubSeq(t, 1, Len(s))
    <2>1. /\ u \in Seq(X) /\ Len(u) = Len(s)
          /\ \A i \in 1..Len(s) : u[i] = t[i]
      BY <1>1, <1>2
    <2> HIDE DEF u
    <2>2. (\A i \in 1..Len(s) : s[i] = u[i]) => s = u
      BY <2>1, SeqEqual
    <2>3. s = u => \A i \in 1..Len(s) : s[i] = t[i]
      BY <2>1
    <2> QED
      BY <2>1, <2>2, <2>3 DEF u
  <1> QED
    BY <1>1, <1>2 DEF IsPrefix

(* What has been cut of equal beginnings is equal. *)
LEMMA CutsAgree ==
    ASSUME NEW p \in Seq(Char), NEW q \in Seq(Char), NEW k \in Nat,
           k <= Len(p), k <= Len(q), \A i \in 1..k : p[i] = q[i]
    PROVE  Cuts(p)[k] = Cuts(q)[k]
  <1> DEFINE T == {i \in 0..k : Cuts(p)[i] = Cuts(q)[i]}
  <1>1. 0 \in T
    <2>1. Cuts(p)[0] = Cuts(q)[0]
      BY CutsRun
    <2> QED
      BY <2>1
  <1>2. ASSUME NEW i \in 1..k, i - 1 \in T PROVE i \in T
    <2>1. i \in 1..Len(p) /\ i \in 1..Len(q) /\ i \in 0..k /\ p[i] = q[i]
      OBVIOUS
    <2>2. /\ Cuts(p)[i] = NextCut(Cuts(p)[i - 1], p[i])
          /\ Cuts(q)[i] = NextCut(Cuts(q)[i - 1], q[i])
      BY <2>1, CutsRun
    <2>3. Cuts(p)[i - 1] = Cuts(q)[i - 1]
      BY <1>2
    <2> QED
      BY <2>1, <2>2, <2>3
  <1> HIDE DEF T
  <1>3. \A i \in 0..k : i \in T
    BY <1>1, <1>2, Upward
  <1> QED
    BY <1>3 DEF T

(* y continues x: segments before the last of x stay, the last may grow. *)
Continues(x, y) ==
    /\ Len(x) <= Len(y)
    /\ \A m \in 1..(Len(x) - 1) : y[m] = x[m]
    /\ Len(x[Len(x)]) <= Len(y[Len(x)])
    /\ \A c \in 1..Len(x[Len(x)]) : y[Len(x)][c] = x[Len(x)][c]

LEMMA ContinuesOnce ==
    ASSUME NEW x \in Pieces, NEW y \in Pieces, Continues(x, y), NEW ch \in Char
    PROVE  Continues(x, NextCut(y, ch))
  <1> DEFINE z == NextCut(y, ch)
  <1>1. /\ x \in Seq(Seq(Char)) /\ y \in Seq(Seq(Char)) /\ Len(x) \in Nat /\ Len(y) \in Nat
        /\ Len(x) \in 1..Len(x) /\ Len(x) \in 1..Len(y) /\ Len(x) > 0
    BY DEF Pieces, Continues
  <1>2. x[Len(x)] \in Seq(Char) /\ y[Len(x)] \in Seq(Char)
    BY <1>1
  <1>3. CASE ch = Slash
    <2>1. Len(z) = Len(y) + 1 /\ \A m \in 1..Len(y) : z[m] = y[m]
      BY <1>3, NextCutSlash
    <2> HIDE DEF z
    <2>2. \A m \in 1..Len(x) : z[m] = y[m]
      BY <1>1, <2>1
    <2>3. Len(x) <= Len(z) /\ z[Len(x)] = y[Len(x)]
      BY <1>1, <2>1, <2>2
    <2>4. ASSUME NEW m \in 1..(Len(x) - 1) PROVE z[m] = x[m]
      <3>1. m \in 1..Len(x)
        BY <1>1
      <3> QED
        BY <2>2, <3>1 DEF Continues
    <2> QED
      BY <2>3, <2>4 DEF Continues, z
  <1>4. CASE ch # Slash
    <2>1. /\ Len(z) = Len(y)
          /\ \A m \in 1..(Len(y) - 1) : z[m] = y[m]
          /\ z[Len(y)] = Append(y[Len(y)], ch)
      BY <1>4, NextCutOther
    <2> HIDE DEF z
    <2>2. ASSUME NEW m \in 1..(Len(x) - 1) PROVE z[m] = x[m]
      <3>1. m \in 1..(Len(y) - 1)
        BY <1>1
      <3> QED
        BY <2>1, <3>1 DEF Continues
    <2>3. CASE Len(x) = Len(y)
      <3>1. z[Len(x)] = Append(y[Len(x)], ch)
        BY <2>1, <2>3
      <3>2. Len(z[Len(x)]) = Len(y[Len(x)]) + 1 /\ Len(y[Len(x)]) \in Nat /\ Len(x[Len(x)]) \in Nat
        BY <1>2, <3>1
      <3>3. Len(x[Len(x)]) <= Len(z[Len(x)])
        BY <3>2 DEF Continues
      <3>4. ASSUME NEW c \in 1..Len(x[Len(x)]) PROVE z[Len(x)][c] = x[Len(x)][c]
        <4>1. c \in 1..Len(y[Len(x)])
          BY <3>2 DEF Continues
        <4>2. z[Len(x)][c] = y[Len(x)][c]
          BY <1>2, <3>1, <4>1
        <4> QED
          BY <4>2 DEF Continues
      <3> QED
        BY <2>1, <2>2, <2>3, <3>3, <3>4, <1>1 DEF Continues, z
    <2>4. CASE Len(x) # Len(y)
      <3>1. Len(x) \in 1..(Len(y) - 1)
        BY <1>1, <2>4
      <3>2. z[Len(x)] = y[Len(x)]
        BY <2>1, <3>1
      <3> QED
        BY <2>1, <2>2, <3>2 DEF Continues, z
    <2> QED
      BY <2>3, <2>4
  <1> QED
    BY <1>3, <1>4

LEMMA CutsGrow ==
    ASSUME NEW p \in Seq(Char), NEW i \in 0..Len(p)
    PROVE  Continues(Cuts(p)[i], Segments(p))
  <1> DEFINE n == Len(p)
             T == {d \in 0..(n - i) : Continues(Cuts(p)[i], Cuts(p)[i + d])}
  <1>0. n \in Nat /\ n - i \in Nat /\ i \in Nat
    OBVIOUS
  <1>1. 0 \in T
    <2>1. i + 0 = i /\ 0 \in 0..(n - i)
      BY <1>0
    <2>2. Continues(Cuts(p)[i], Cuts(p)[i])
      <3> DEFINE x == Cuts(p)[i]
      <3>1. x \in Pieces
        BY CutsRun
      <3> HIDE DEF x
      <3>2. Len(x) \in Nat /\ Len(x) \in 1..Len(x) /\ x \in Seq(Seq(Char))
        BY <3>1 DEF Pieces
      <3>3. x[Len(x)] \in Seq(Char)
        BY <3>2
      <3> QED
        BY <3>2, <3>3 DEF Continues, x
    <2> QED
      BY <2>1, <2>2
  <1>2. ASSUME NEW d \in 1..(n - i), d - 1 \in T PROVE d \in T
    <2>1. /\ i + d \in 1..n /\ (i + d) - 1 \in 0..n /\ (i + d) - 1 = i + (d - 1)
          /\ d \in 0..(n - i) /\ i \in 0..n
      BY <1>0
    <2>2. Continues(Cuts(p)[i], Cuts(p)[(i + d) - 1])
      BY <1>2, <2>1
    <2>3. Cuts(p)[i + d] = NextCut(Cuts(p)[(i + d) - 1], p[i + d])
      BY <2>1, CutsRun
    <2>4. p[i + d] \in Char /\ Cuts(p)[i] \in Pieces /\ Cuts(p)[(i + d) - 1] \in Pieces
      BY <2>1, CutsRun
    <2>5. Continues(Cuts(p)[i], Cuts(p)[i + d])
      BY <2>2, <2>3, <2>4, ContinuesOnce
    <2> QED
      BY <2>1, <2>5
  <1> HIDE DEF T
  <1>3. \A d \in 0..(n - i) : d \in T
    BY <1>0, <1>1, <1>2, Upward
  <1>4. n - i \in T /\ i + (n - i) = n
    BY <1>0, <1>3
  <1> QED
    BY <1>4, SegmentsAreCuts DEF T

(* What the next character does to the segments, seen in the end. *)
LEMMA AfterSlash ==
    ASSUME NEW x \in Pieces, NEW A \in Pieces, NEW ch \in Char, ch = Slash,
           Continues(NextCut(x, ch), A)
    PROVE  Len(A) >= Len(x) + 1 /\ \A m \in 1..Len(x) : A[m] = x[m]
  <1> DEFINE y == NextCut(x, ch)
  <1>1. Len(y) = Len(x) + 1 /\ \A m \in 1..Len(x) : y[m] = x[m]
    BY NextCutSlash
  <1>2. Len(y) <= Len(A) /\ \A m \in 1..(Len(y) - 1) : A[m] = y[m]
    BY DEF Continues
  <1>3. Len(x) \in Nat /\ Len(A) \in Nat
    BY DEF Pieces
  <1> HIDE DEF y
  <1>4. Len(y) - 1 = Len(x)
    BY <1>1, <1>3
  <1> QED
    BY <1>1, <1>2, <1>3, <1>4

LEMMA AfterOther ==
    ASSUME NEW x \in Pieces, NEW A \in Pieces, NEW ch \in Char, ch # Slash,
           Continues(NextCut(x, ch), A)
    PROVE  /\ Len(A) >= Len(x)
           /\ Len(A[Len(x)]) >= Len(x[Len(x)]) + 1
           /\ A[Len(x)][Len(x[Len(x)]) + 1] = ch
  <1> DEFINE y == NextCut(x, ch)
             s == x[Len(x)]
             t == Append(s, ch)
  <1>1. Len(y) = Len(x) /\ y[Len(x)] = t
    BY NextCutOther
  <1>2. /\ Len(y) <= Len(A) /\ Len(y[Len(y)]) <= Len(A[Len(y)])
        /\ \A c \in 1..Len(y[Len(y)]) : A[Len(y)][c] = y[Len(y)][c]
    BY DEF Continues
  <1>3. Len(x) \in Nat /\ Len(A) \in Nat /\ s \in Seq(Char) /\ Len(s) \in Nat
    <2>1. x \in Seq(Seq(Char)) /\ Len(x) \in 1..Len(x) /\ A \in Seq(Seq(Char))
      BY DEF Pieces
    <2> QED
      BY <2>1
  <1> HIDE DEF y, s
  <1>4. Len(t) = Len(s) + 1 /\ t[Len(s) + 1] = ch /\ Len(s) + 1 \in 1..Len(t)
    BY <1>3
  <1> HIDE DEF t
  <1>5. Len(A) >= Len(x)
    BY <1>1, <1>2, <1>3
  <1>6. A[Len(x)][Len(s) + 1] = ch
    BY <1>1, <1>2, <1>4
  <1>7. Len(t) <= Len(A[Len(x)])
    BY <1>1, <1>2
  <1>8. Len(A[Len(x)]) \in Nat
    <2>1. Len(x) \in 1..Len(A) /\ A \in Seq(Seq(Char))
      BY <1>3, <1>5 DEF Pieces
    <2>2. A[Len(x)] \in Seq(Char)
      BY <2>1
    <2> QED
      BY <2>2
  <1>9. Len(A[Len(x)]) >= Len(s) + 1
    BY <1>3, <1>4, <1>7, <1>8
  <1> QED
    BY <1>5, <1>6, <1>9 DEF s

(* The segments of q begin those of p exactly when q begins p and p ends or  *)
(* goes on with a slash there.                                               *)
LEMMA SegmentPrefixIf ==
    ASSUME NEW p \in Seq(Char), NEW q \in Seq(Char), IsPrefix(q, p),
           Len(p) > Len(q) => p[Len(q) + 1] = Slash
    PROVE  IsPrefix(Segments(q), Segments(p))
  <1> DEFINE k == Len(q)
             x == Cuts(q)[k]
             A == Segments(q)
             B == Segments(p)
  <1>0. k \in Nat /\ Len(p) \in Nat /\ k \in 0..k
    OBVIOUS
  <1>1. k <= Len(p) /\ \A i \in 1..k : q[i] = p[i]
    BY PrefixPointwise
  <1>2. x = Cuts(p)[k] /\ A = x
    BY <1>0, <1>1, CutsAgree, SegmentsAreCuts
  <1>3. x \in Pieces /\ B \in Pieces
    BY <1>0, CutsRun, SegmentsType
  <1>4. CASE Len(p) = k
    <2>1. B = A
      BY <1>2, <1>4, SegmentsAreCuts
    <2>2. x \in Seq(Seq(Char)) /\ Len(x) \in Nat
      <3> HIDE DEF x
      <3> QED
        BY <1>3 DEF Pieces
    <2>3. IsPrefix(x, x)
      <3> HIDE DEF x
      <3> QED
        BY <2>2, PrefixPointwise
    <2> QED
      BY <1>2, <2>1, <2>3
  <1>5. CASE Len(p) # k
    <2>1. k + 1 \in 1..Len(p) /\ p[k + 1] = Slash /\ (k + 1) - 1 = k /\ k + 1 \in 0..Len(p)
      BY <1>0, <1>1, <1>5
    <2>2. Cuts(p)[k + 1] = NextCut(x, p[k + 1])
      BY <1>2, <2>1, CutsRun
    <2>3. Continues(NextCut(x, p[k + 1]), B)
      BY <2>1, <2>2, CutsGrow
    <2>4. p[k + 1] \in Char
      BY <2>1
    <2> HIDE DEF B, A, x, k
    <2>5. Len(B) >= Len(x) + 1 /\ \A m \in 1..Len(x) : B[m] = x[m]
      BY <1>3, <2>1, <2>3, <2>4, AfterSlash
    <2>6. x \in Seq(Seq(Char)) /\ B \in Seq(Seq(Char)) /\ Len(x) \in Nat /\ Len(B) \in Nat
      BY <1>3 DEF Pieces
    <2>7. Len(x) <= Len(B) /\ \A m \in 1..Len(x) : x[m] = B[m]
      BY <2>5, <2>6
    <2>8. IsPrefix(x, B)
      BY <2>6, <2>7, PrefixPointwise
    <2> QED
      BY <1>2, <2>8 DEF A, B
  <1> QED
    BY <1>4, <1>5

LEMMA SegmentPrefixOnlyIf ==
    ASSUME NEW p \in Seq(Char), NEW q \in Seq(Char),
           IsPrefix(Segments(q), Segments(p))
    PROVE  /\ IsPrefix(q, p)
           /\ Len(p) > Len(q) => p[Len(q) + 1] = Slash
  <1> DEFINE A == Segments(q)
             B == Segments(p)
  <1>0. Len(q) \in Nat /\ Len(p) \in Nat
    OBVIOUS
  <1>1. /\ A \in Pieces /\ B \in Pieces /\ A \in Seq(Seq(Char)) /\ B \in Seq(Seq(Char))
        /\ Len(A) \in Nat /\ Len(B) \in Nat
    <2>1. A \in Pieces /\ B \in Pieces
      BY SegmentsType
    <2> HIDE DEF A, B
    <2> QED
      BY <2>1 DEF Pieces
  <1>2. Len(A) <= Len(B) /\ \A m \in 1..Len(A) : A[m] = B[m]
    BY <1>1, PrefixPointwise
  <1>3. \A i \in 0..Len(q) : Continues(Cuts(q)[i], A)
    BY CutsGrow
  <1>4. \A i \in 0..Len(p) : Continues(Cuts(p)[i], B)
    BY CutsGrow
  <1>5. B = Cuts(p)[Len(p)] /\ A = Cuts(q)[Len(q)]
    BY SegmentsAreCuts
  <1> HIDE DEF A, B
  <1> DEFINE Bad == {k \in Nat : k \in 1..Len(q) /\ (k > Len(p) \/ p[k] # q[k])}
  <1>6. Bad = {}
    <2> SUFFICES ASSUME Bad # {} PROVE FALSE
      OBVIOUS
    <2>1. PICK k \in Bad : \A j \in Bad : k <= j
      <3>1. Bad \subseteq Nat
        OBVIOUS
      <3> HIDE DEF Bad
      <3> QED
        BY <3>1, LeastNumber
    <2>2. k \in 1..Len(q) /\ (k > Len(p) \/ p[k] # q[k]) /\ k \in Nat /\ k - 1 \in Nat
      OBVIOUS
    <2>3. ASSUME NEW j \in 1..(k - 1) PROVE j <= Len(p) /\ p[j] = q[j]
      <3>1. j \in Nat /\ j \in 1..Len(q) /\ ~(k <= j)
        BY <1>0, <2>2
      <3>2. j \notin Bad
        BY <2>1, <3>1
      <3> QED
        BY <1>0, <3>1, <3>2
    <2> HIDE DEF Bad
    <2>4. k - 1 <= Len(p) /\ k - 1 <= Len(q)
      <3>1. CASE k = 1
        BY <1>0, <3>1
      <3>2. CASE k # 1
        <4>1. k - 1 \in 1..(k - 1)
          BY <2>2, <3>2
        <4> QED
          BY <1>0, <2>2, <2>3, <4>1
      <3> QED
        BY <3>1, <3>2
    <2> DEFINE x == Cuts(q)[k - 1]
               m == Len(x)
               s == x[m]
    <2>5. x = Cuts(p)[k - 1]
      BY <2>2, <2>3, <2>4, CutsAgree
    <2>6. x \in Pieces
      <3>1. k - 1 \in 0..Len(q)
        BY <1>0, <2>2
      <3> QED
        BY <3>1, CutsRun
    <2>7. Cuts(q)[k] = NextCut(x, q[k]) /\ q[k] \in Char /\ k \in 0..Len(q)
      BY <1>0, <2>2, CutsRun
    <2>8. Continues(NextCut(x, q[k]), A)
      BY <1>3, <2>7
    <2> HIDE DEF x
    <2>9. x \in Seq(Seq(Char)) /\ m \in Nat /\ m > 0 /\ s \in Seq(Char) /\ Len(s) \in Nat
      <3>1. x \in Seq(Seq(Char)) /\ m \in 1..m /\ m \in Nat /\ m > 0
        BY <2>6 DEF Pieces
      <3>2. s \in Seq(Char)
        BY <3>1
      <3> QED
        BY <3>1, <3>2
    <2>10. CASE k > Len(p)
      <3>1. B = x
        <4>1. k - 1 = Len(p)
          BY <1>0, <2>2, <2>4, <2>10
        <4> QED
          BY <1>5, <2>5, <4>1
      <3>2. CASE q[k] = Slash
        <4>1. Len(A) >= m + 1
          BY <1>1, <2>6, <2>7, <2>8, <3>2, AfterSlash
        <4> QED
          BY <1>1, <1>2, <2>9, <3>1, <4>1
      <3>3. CASE q[k] # Slash
        <4>1. Len(A) >= m /\ Len(A[m]) >= Len(s) + 1
          BY <1>1, <2>6, <2>7, <2>8, <3>3, AfterOther
        <4>2. m \in 1..Len(A)
          BY <1>1, <2>9, <4>1
        <4>3. A[m] = s
          BY <1>2, <3>1, <4>2
        <4> QED
          BY <2>9, <4>1, <4>3
      <3> QED
        BY <3>2, <3>3
    <2>11. CASE k <= Len(p)
      <3>1. /\ k \in 1..Len(p) /\ p[k] # q[k] /\ k \in 0..Len(p) /\ p[k] \in Char
        BY <1>0, <2>2, <2>11
      <3>2. Cuts(p)[k] = NextCut(x, p[k])
        BY <2>5, <3>1, CutsRun
      <3>3. Continues(NextCut(x, p[k]), B)
        BY <1>4, <3>1, <3>2
      <3>4. CASE q[k] = Slash
        <4>1. Len(A) >= m + 1 /\ \A j \in 1..m : A[j] = x[j]
          BY <1>1, <2>6, <2>7, <2>8, <3>4, AfterSlash
        <4>2. Len(B[m]) >= Len(s) + 1
          BY <1>1, <2>6, <3>1, <3>3, <3>4, AfterOther
        <4>3. m \in 1..Len(A) /\ m \in 1..m
          BY <1>1, <2>9, <4>1
        <4>4. B[m] = s
          BY <1>2, <4>1, <4>3
        <4> QED
          BY <2>9, <4>2, <4>4
      <3>5. CASE q[k] # Slash
        <4>1. Len(A) >= m /\ Len(A[m]) >= Len(s) + 1 /\ A[m][Len(s) + 1] = q[k]
          BY <1>1, <2>6, <2>7, <2>8, <3>5, AfterOther
        <4>2. m \in 1..Len(A) /\ m \in 1..m
          BY <1>1, <2>9, <4>1
        <4>3. A[m] = B[m]
          BY <1>2, <4>2
        <4>4. CASE p[k] = Slash
          <5>1. B[m] = s
            BY <1>1, <2>6, <3>1, <3>3, <4>2, <4>4, AfterSlash
          <5> QED
            BY <2>9, <4>1, <4>3, <5>1
        <4>5. CASE p[k] # Slash
          <5>1. B[m][Len(s) + 1] = p[k]
            BY <1>1, <2>6, <3>1, <3>3, <4>5, AfterOther
          <5> QED
            BY <3>1, <4>1, <4>3, <5>1
        <4> QED
          BY <4>4, <4>5
      <3> QED
        BY <3>4, <3>5
    <2> QED
      BY <1>0, <2>2, <2>10, <2>11
  <1>7. ASSUME NEW k \in 1..Len(q) PROVE k <= Len(p) /\ p[k] = q[k]
    <2>1. k \in Nat /\ k \notin Bad
      BY <1>6
    <2> QED
      BY <1>0, <2>1
  <1> HIDE DEF Bad
  <1>8. Len(q) <= Len(p)
    <2>1. CASE Len(q) = 0
      BY <1>0, <2>1
    <2>2. CASE Len(q) # 0
      <3>1. Len(q) \in 1..Len(q)
        BY <1>0, <2>2
      <3> QED
        BY <1>7, <3>1
    <2> QED
      BY <2>1, <2>2
  <1>9. IsPrefix(q, p)
    BY <1>7, <1>8, PrefixPointwise
  <1>10. ASSUME Len(p) > Len(q), p[Len(q) + 1] # Slash PROVE FALSE
    <2> DEFINE k == Len(q) + 1
               m == Len(A)
    <2>1. k \in 1..Len(p) /\ k - 1 = Len(q) /\ k \in 0..Len(p) /\ p[k] \in Char
      BY <1>0, <1>10
    <2>2. Cuts(p)[Len(q)] = A
      BY <1>0, <1>5, <1>7, <1>8, CutsAgree
    <2>3. Cuts(p)[k] = NextCut(A, p[k])
      BY <2>1, <2>2, CutsRun
    <2>4. Continues(NextCut(A, p[k]), B)
      BY <1>4, <2>1, <2>3
    <2>5. Len(B[m]) >= Len(A[m]) + 1
      BY <1>1, <1>10, <2>1, <2>4, AfterOther
    <2>6. m \in 1..Len(A)
      BY <1>1 DEF Pieces
    <2>7. A[m] \in Seq(Char)
      BY <1>1, <2>6
    <2>8. A[m] = B[m] /\ Len(A[m]) \in Nat
      BY <1>2, <2>6, <2>7
    <2> QED
      BY <2>5, <2>8
  <1> QED
    BY <1>9, <1>10

-----------------------------------------------------------------------------
(* The configured prefix: its trailing slashes go, by characters in           *)
(* normalize_url_prefix and by segments in Mount.                             *)

(* A slash at the end leaves an empty segment. *)
LEMMA TrailingSlashes ==
    ASSUME NEW u \in Seq(Char), NEW k \in 0..Len(u),
           \A i \in (k + 1)..Len(u) : u[i] = Slash
    PROVE  /\ Len(Segments(u)) >= Len(Cuts(u)[k])
           /\ \A m \in 1..Len(Cuts(u)[k]) : Segments(u)[m] = Cuts(u)[k][m]
           /\ \A m \in (Len(Cuts(u)[k]) + 1)..Len(Segments(u)) :
                  Segments(u)[m] = <<>>
  <1> DEFINE n == Len(u)
             x == Cuts(u)[k]
             Good(y) == /\ Len(y) >= Len(x)
                        /\ \A m \in 1..Len(x) : y[m] = x[m]
                        /\ \A m \in (Len(x) + 1)..Len(y) : y[m] = <<>>
             T == {d \in 0..(n - k) : Good(Cuts(u)[k + d])}
  <1>0. n \in Nat /\ n - k \in Nat /\ k \in Nat /\ x \in Pieces
    BY CutsRun
  <1>1. 0 \in T
    <2>1. k + 0 = k /\ 0 \in 0..(n - k)
      BY <1>0
    <2>2. Good(x)
      <3> HIDE DEF x
      <3>1. Len(x) \in Nat
        BY <1>0 DEF Pieces
      <3> QED
        BY <3>1
    <2> HIDE DEF Good
    <2> QED
      BY <2>1, <2>2
  <1>2. ASSUME NEW d \in 1..(n - k), d - 1 \in T PROVE d \in T
    <2>1. /\ k + d \in 1..n /\ (k + d) - 1 \in 0..n /\ (k + d) - 1 = k + (d - 1)
          /\ d \in 0..(n - k) /\ k + d \in (k + 1)..n
      BY <1>0
    <2> DEFINE y == Cuts(u)[(k + d) - 1]
               z == NextCut(y, u[k + d])
    <2>2. Good(y) /\ y \in Pieces
      BY <1>2, <2>1, CutsRun
    <2>3. Cuts(u)[k + d] = z /\ u[k + d] \in Char /\ u[k + d] = Slash
      BY <2>1, CutsRun
    <2> HIDE DEF x, y
    <2>4. /\ Len(z) = Len(y) + 1
          /\ \A m \in 1..Len(y) : z[m] = y[m]
          /\ z[Len(y) + 1] = <<>>
      BY <2>2, <2>3, NextCutSlash
    <2> HIDE DEF z
    <2>5. Len(x) \in Nat /\ Len(y) \in Nat
      BY <1>0, <2>2 DEF Pieces
    <2>6. Good(z)
      <3>1. Len(z) >= Len(x)
        BY <2>2, <2>4, <2>5
      <3>2. ASSUME NEW m \in 1..Len(x) PROVE z[m] = x[m]
        <4>1. m \in 1..Len(y)
          BY <2>2, <2>5
        <4> QED
          BY <2>2, <2>4, <4>1
      <3>3. ASSUME NEW m \in (Len(x) + 1)..Len(z) PROVE z[m] = <<>>
        <4>1. CASE m = Len(y) + 1
          BY <2>4, <4>1
        <4>2. CASE m # Len(y) + 1
          <5>1. m \in 1..Len(y) /\ m \in (Len(x) + 1)..Len(y)
            BY <2>4, <2>5, <4>2
          <5> QED
            BY <2>2, <2>4, <5>1
        <4> QED
          BY <4>1, <4>2
      <3> QED
        BY <3>1, <3>2, <3>3
    <2> HIDE DEF Good
    <2> QED
      BY <2>1, <2>3, <2>6
  <1> HIDE DEF T
  <1>3. \A d \in 0..(n - k) : d \in T
    BY <1>0, <1>1, <1>2, Upward
  <1>4. n - k \in T /\ k + (n - k) = n
    BY <1>0, <1>3
  <1>5. Good(Cuts(u)[n])
    BY <1>4 DEF T
  <1>6. Segments(u) = Cuts(u)[n]
    BY SegmentsAreCuts
  <1> QED
    BY <1>5, <1>6

(* Mount as a function of the configured prefix. *)
MountOf(u) ==
    SubSeq(Segments(u), 1,
           Max({n \in 1..Len(Segments(u)) : n = 1 \/ Segments(u)[n] # <<>>}))

LEMMA MountDef == Mount = MountOf(config.url_prefix)
  BY DEF Mount, MountOf

LEMMA GreatestIs ==
    ASSUME NEW S, S \subseteq Nat, NEW m \in S, \A j \in S : j <= m
    PROVE  Max(S) = m
  <1> DEFINE k == CHOOSE x \in S : \A y \in S : x >= y
  <1>1. \A y \in S : m >= y
    OBVIOUS
  <1>2. k \in S /\ \A y \in S : k >= y
    BY <1>1
  <1>3. Max(S) = k
    BY DEF Max
  <1> HIDE DEF k
  <1>4. k >= m /\ k <= m /\ k \in Nat /\ m \in Nat
    BY <1>2
  <1> QED
    BY <1>3, <1>4

(* A path lies below the prefix by characters exactly when it does by segments. *)
LEMMA PrefixMatches ==
    ASSUME NEW u \in Seq(Char), u # <<>>, u[1] = Slash, NEW p \in Seq(Char)
    PROVE  prefix_matches(p, normalize_url_prefix(u)) <=>
               p # <<>> /\ IsPrefix(MountOf(u), Segments(p))
  <1> DEFINE K == {n \in 1..Len(u) : n = 1 \/ u[n] # Slash}
             k == CHOOSE n \in K : \A m \in K : m <= n
             v == SubSeq(u, 1, k)
             segs == Segments(u)
             M == {n \in 1..Len(segs) : n = 1 \/ segs[n] # <<>>}
  <1>1. normalize_url_prefix(u) = v
    BY DEF normalize_url_prefix
  <1>2. K \subseteq 1..Len(u) /\ 1 \in K /\ Len(u) \in Nat
    <2>1. 1 \in 1..Len(u)
      OBVIOUS
    <2> QED
      BY <2>1
  <1>3. k \in K /\ \A m \in K : m <= k
    <2> HIDE DEF K
    <2>1. \E n \in K : \A m \in K : m <= n
      BY <1>2, GreatestNumber
    <2> QED
      BY <2>1
  <1>4. k \in 1..Len(u) /\ k \in 0..Len(u) /\ k \in Nat /\ (k = 1 \/ u[k] # Slash)
    <2> HIDE DEF k
    <2> QED
      BY <1>2, <1>3
  <1> HIDE DEF k
  <1>5. ASSUME NEW i \in (k + 1)..Len(u) PROVE u[i] = Slash
    <2>1. i \in 1..Len(u) /\ ~(i <= k)
      BY <1>2, <1>4
    <2>2. i \notin K
      BY <1>3, <2>1
    <2> QED
      BY <2>1, <2>2
  <1> HIDE DEF K
  <1> DEFINE x == Cuts(u)[k]
  <1>6. /\ Len(segs) >= Len(x)
        /\ \A m \in 1..Len(x) : segs[m] = x[m]
        /\ \A m \in (Len(x) + 1)..Len(segs) : segs[m] = <<>>
    BY <1>4, <1>5, TrailingSlashes
  <1>7. x \in Pieces /\ segs \in Pieces
    BY <1>4, CutsRun, SegmentsType
  <1>8. v \in Seq(Char) /\ Len(v) = k /\ \A i \in 1..k : v[i] = u[i]
    BY <1>4
  <1>9. MountOf(u) = SubSeq(segs, 1, Max(M))
    BY DEF MountOf
  <1>10. Segments(v) = x
    <2> HIDE DEF v
    <2>1. Segments(v) = Cuts(v)[k]
      BY <1>8, SegmentsAreCuts
    <2>2. k <= Len(v) /\ k <= Len(u)
      BY <1>4, <1>8
    <2> QED
      BY <1>4, <1>8, <2>1, <2>2, CutsAgree
  <1> HIDE DEF v, segs, x
  <1>11. /\ segs \in Seq(Seq(Char)) /\ x \in Seq(Seq(Char)) /\ Len(x) \in 1..Len(segs)
         /\ Len(segs) \in Nat /\ Len(x) \in Nat /\ Len(x) > 0
    BY <1>6, <1>7 DEF Pieces
  <1>12. CASE k = 1
    <2>1. v = <<Slash>>
      <3>1. v[1] = Slash
        BY <1>8, <1>12
      <3> QED
        BY <1>8, <1>12, <3>1
    <2>2. x = NextCut(<<<<>>>>, Slash)
      <3>1. 1 \in 1..Len(u) /\ 1 - 1 = 0
        BY <1>4, <1>12
      <3>2. Cuts(u)[1] = NextCut(Cuts(u)[1 - 1], u[1]) /\ Cuts(u)[0] = <<<<>>>>
        BY <3>1, CutsRun
      <3>3. x = Cuts(u)[1]
        BY <1>12 DEF x
      <3> QED
        BY <3>1, <3>2, <3>3
    <2>3. Len(x) = 2 /\ x[1] = <<>> /\ x[2] = <<>>
      BY <2>2 DEF NextCut
    <2>4. ASSUME NEW n \in 1..Len(segs) PROVE segs[n] = <<>>
      <3>1. CASE n \in 1..Len(x)
        BY <1>6, <2>3, <3>1
      <3>2. CASE n \notin 1..Len(x)
        <4>1. n \in (Len(x) + 1)..Len(segs)
          BY <1>11, <3>2
        <4> QED
          BY <1>6, <4>1
      <3> QED
        BY <3>1, <3>2
    <2>5. M = {1}
      <3>1. 1 \in 1..Len(segs)
        BY <1>11
      <3> QED
        BY <2>4, <3>1
    <2>6. Max(M) = 1
      <3>1. {1} \subseteq Nat /\ 1 \in {1} /\ \A j \in {1} : j <= 1
        OBVIOUS
      <3>2. Max({1}) = 1
        BY <3>1, GreatestIs
      <3> HIDE DEF M
      <3> QED
        BY <2>5, <3>2
    <2>7. MountOf(u) = <<<<>>>>
      <3>1. SubSeq(segs, 1, 1) = <<segs[1]>> /\ 1 \in 1..Len(segs)
        <4> DEFINE y == SubSeq(segs, 1, 1)
        <4>1. 1 \in 1..Len(segs)
          BY <1>11
        <4>2. y \in Seq(Seq(Char)) /\ Len(y) = 1 /\ y[1] = segs[1]
          BY <1>11, <4>1
        <4> HIDE DEF y
        <4>3. y = <<segs[1]>>
          BY <4>2
        <4> QED
          BY <4>1, <4>3 DEF y
      <3> HIDE DEF M
      <3> QED
        BY <1>9, <2>4, <2>6, <3>1
    <2>8. <<>> \in Seq(Char) /\ Len(<<>>) = 0
      OBVIOUS
    <2>9. Segments(<<>>) = <<<<>>>>
      BY <2>8, SegmentsAreCuts, CutsRun
    <2>10. IsPrefix(<<>>, p)
      <3>1. Len(<<>>) <= Len(p) /\ \A i \in 1..Len(<<>>) : <<>>[i] = p[i]
        BY <2>8
      <3> QED
        BY <2>8, <3>1, PrefixPointwise
    <2>11. IsPrefix(<<<<>>>>, Segments(p)) <=> (Len(p) > 0 => p[1] = Slash)
      <3>1. Len(<<>>) + 1 = 1
        BY <2>8
      <3>2. ASSUME Len(p) > 0 => p[1] = Slash
            PROVE  IsPrefix(<<<<>>>>, Segments(p))
        BY <2>8, <2>9, <2>10, <3>1, <3>2, SegmentPrefixIf
      <3>3. ASSUME IsPrefix(<<<<>>>>, Segments(p))
            PROVE  Len(p) > 0 => p[1] = Slash
        BY <2>8, <2>9, <3>1, <3>3, SegmentPrefixOnlyIf
      <3> QED
        BY <3>2, <3>3
    <2>12. p # <<>> <=> Len(p) > 0
      OBVIOUS
    <2>13. prefix_matches(p, v) <=> p # <<>> /\ p[1] = Slash
      BY <2>1 DEF prefix_matches
    <2> HIDE DEF M
    <2> QED
      BY <1>1, <2>7, <2>11, <2>12, <2>13
  <1>13. CASE k # 1
    <2>1. u[k] # Slash /\ k - 1 \in 0..Len(u) /\ k > 1 /\ u[k] \in Char
      BY <1>4, <1>13
    <2> DEFINE w == Cuts(u)[k - 1]
    <2>2. x = NextCut(w, u[k]) /\ w \in Pieces
      BY <1>4, <2>1, CutsRun DEF x
    <2> HIDE DEF w
    <2>3. Len(x) = Len(w) /\ x[Len(w)] = Append(w[Len(w)], u[k])
      BY <2>1, <2>2, NextCutOther
    <2>4. x[Len(x)] # <<>>
      <3>1. w \in Seq(Seq(Char)) /\ Len(w) \in 1..Len(w)
        BY <2>2 DEF Pieces
      <3>2. w[Len(w)] \in Seq(Char)
        BY <3>1
      <3>3. Append(w[Len(w)], u[k]) # <<>>
        <4> DEFINE t == w[Len(w)]
        <4>1. t \in Seq(Char) /\ Len(t) \in Nat
          BY <3>2
        <4> HIDE DEF t
        <4>2. Len(Append(t, u[k])) = Len(t) + 1
          BY <2>1, <4>1
        <4>3. Len(Append(t, u[k])) # 0
          BY <4>1, <4>2
        <4>4. Append(t, u[k]) # <<>>
          BY <4>3
        <4> QED
          BY <4>4 DEF t
      <3> QED
        BY <2>3, <3>3
    <2>5. M \subseteq Nat /\ Len(x) \in M /\ \A j \in M : j <= Len(x)
      <3>1. M \subseteq Nat
        OBVIOUS
      <3>2. Len(x) \in M
        <4>1. Len(x) \in 1..Len(x)
          BY <1>11
        <4>2. segs[Len(x)] = x[Len(x)]
          BY <1>6, <4>1
        <4> QED
          BY <1>11, <2>4, <4>2
      <3>3. ASSUME NEW j \in M PROVE j <= Len(x)
        <4>1. j \in 1..Len(segs) /\ j \in Nat /\ (j = 1 \/ segs[j] # <<>>)
          OBVIOUS
        <4>2. CASE j = 1
          BY <1>11, <4>2
        <4>3. CASE segs[j] # <<>>
          <5>1. j \notin (Len(x) + 1)..Len(segs)
            BY <1>6, <4>3
          <5> QED
            BY <1>11, <4>1, <5>1
        <4> QED
          BY <4>1, <4>2, <4>3
      <3> QED
        BY <3>1, <3>2, <3>3
    <2>6. Max(M) = Len(x)
      <3> HIDE DEF M
      <3> QED
        BY <2>5, GreatestIs
    <2> HIDE DEF M
    <2>7. MountOf(u) = x
      <3> DEFINE y == SubSeq(segs, 1, Len(x))
      <3>1. y \in Seq(Seq(Char)) /\ Len(y) = Len(x) /\ \A i \in 1..Len(x) : y[i] = segs[i]
        BY <1>11
      <3> HIDE DEF y
      <3>2. \A i \in 1..Len(x) : y[i] = x[i]
        BY <1>6, <3>1
      <3>3. y = x
        BY <1>11, <3>1, <3>2, SeqEqual
      <3> QED
        BY <1>9, <2>6, <3>3 DEF y
    <2>8. v # <<Slash>>
      BY <1>8, <1>13
    <2>9. prefix_matches(p, v) <=>
              IsPrefix(v, p) /\ (Len(p) > Len(v) => p[Len(v) + 1] = Slash)
      BY <2>8 DEF prefix_matches
    <2>10. prefix_matches(p, v) <=> IsPrefix(x, Segments(p))
      <3>1. ASSUME prefix_matches(p, v) PROVE IsPrefix(x, Segments(p))
        BY <1>8, <1>10, <2>9, <3>1, SegmentPrefixIf
      <3>2. ASSUME IsPrefix(x, Segments(p)) PROVE prefix_matches(p, v)
        BY <1>8, <1>10, <2>9, <3>2, SegmentPrefixOnlyIf
      <3> QED
        BY <3>1, <3>2
    <2>11. prefix_matches(p, v) => p # <<>>
      <3> SUFFICES ASSUME IsPrefix(v, p) PROVE p # <<>>
        BY <2>9
      <3>1. Len(v) <= Len(p)
        BY <1>8, PrefixPointwise
      <3> QED
        BY <1>4, <1>8, <3>1
    <2> QED
      BY <1>1, <2>7, <2>10, <2>11
  <1> QED
    BY <1>12, <1>13

Valid   == make_state_error(config) = "none"
Matches == prefix_matches(request_path, state.url_prefix)

(* Once the prefix has been compared, a request was passed on exactly when    *)
(* it does not match.                                                         *)
PrefixInv ==
    /\ config \in Configs /\ request \in Requests
    /\ step = "match" => ~passed
    /\ step # "match" /\ Valid => (~passed <=> Matches)

LEMMA SameRequest ==
    ASSUME config' = config, request' = request
    PROVE  Valid' = Valid /\ Matches' = Matches
  <1>1. Valid' = Valid
    BY DEF Valid, make_state_error
  <1>2. (request_path)' = request_path
    BY DEF request_path
  <1>3. (state)' = state
    BY DEF state
  <1> QED
    BY <1>1, <1>2, <1>3 DEF Matches

(* Only the first step decides whether the request is passed on. *)
LEMMA LaterSteps ==
    ASSUME step # "match",
           \/ Resolve \/ IsDirectory \/ IsRegularFile
           \/ ReadFileSize \/ ReadFileBody \/ WriteResponse
    PROVE  UNCHANGED <<config, request, passed>> /\ step' # "match"
  <1>1. ASSUME NEW r, Finish(r)
        PROVE  UNCHANGED <<config, request, passed>> /\ step' # "match"
    BY <1>1 DEF Finish
  <1>2. ASSUME NEW l, Goto(l), l # "match"
        PROVE  UNCHANGED <<config, request, passed>> /\ step' # "match"
    BY <1>2 DEF Goto
  <1>3. ASSUME NEW e, Refuse(e)
        PROVE  UNCHANGED <<config, request, passed>> /\ step' # "match"
    BY <1>1, <1>3 DEF Refuse
  <1>4. ASSUME NEW c, NEW l, l # "match", resolve_candidate(c, l)
        PROVE  UNCHANGED <<config, request, passed>> /\ step' # "match"
    BY <1>2, <1>3, <1>4 DEF resolve_candidate
  <1>5. CASE Resolve
    BY <1>3, <1>4, <1>5 DEF Resolve
  <1>6. CASE IsDirectory
    BY <1>2, <1>3, <1>4, <1>6 DEF IsDirectory
  <1>7. CASE IsRegularFile
    BY <1>2, <1>3, <1>7 DEF IsRegularFile
  <1>8. CASE ReadFileSize
    BY <1>1, <1>2, <1>3, <1>8 DEF ReadFileSize
  <1>9. CASE ReadFileBody
    BY <1>1, <1>3, <1>9 DEF ReadFileBody
  <1>10. CASE WriteResponse
    BY <1>10 DEF WriteResponse
  <1> QED
    BY <1>5, <1>6, <1>7, <1>8, <1>9, <1>10

LEMMA PrefixStep ==
    ASSUME PrefixInv, [StaticNext]_staticVars
    PROVE  PrefixInv'
  <1>1. CASE \E r \in Handled : Pass(r)
    <2>1. /\ step = "match" /\ step' = "write" /\ passed' = TRUE
          /\ UNCHANGED <<config, request>> /\ (~Valid \/ ~Matches)
      BY <1>1 DEF Pass, Valid, Matches
    <2> QED
      BY <2>1, SameRequest DEF PrefixInv
  <1>2. CASE Match
    <2>1. step = "match" /\ Valid /\ Matches
      BY <1>2 DEF Match, Valid, Matches
    <2>2. UNCHANGED <<config, request, passed>> /\ step' # "match"
      BY <1>2 DEF Match, Finish, Goto
    <2> QED
      BY <2>1, <2>2, SameRequest DEF PrefixInv
  <1>3. CASE \/ Resolve \/ IsDirectory \/ IsRegularFile
             \/ ReadFileSize \/ ReadFileBody \/ WriteResponse
    <2>1. step # "match"
      BY <1>3 DEF Resolve, IsDirectory, IsRegularFile,
                  ReadFileSize, ReadFileBody, WriteResponse
    <2>2. UNCHANGED <<config, request, passed>> /\ step' # "match"
      BY <1>3, <2>1, LaterSteps
    <2> QED
      BY <2>1, <2>2, SameRequest DEF PrefixInv
  <1>4. CASE \E p \in Paths, node \in Nodes : FsChange(p, node)
    <2>1. UNCHANGED <<config, request, passed, step>>
      BY <1>4 DEF FsChange
    <2> QED
      BY <2>1, SameRequest DEF PrefixInv
  <1>5. CASE UNCHANGED staticVars
    <2>1. UNCHANGED <<config, request, passed, step>>
      BY <1>5 DEF staticVars
    <2> QED
      BY <2>1, SameRequest DEF PrefixInv
  <1> QED
    BY <1>1, <1>2, <1>3, <1>4, <1>5 DEF StaticNext

(* HandlesItsPrefix: prefix_matches, which compares characters, answers        *)
(* exactly the paths at or below the configured directory, compared segment   *)
(* by segment, for every prefix static_files() accepts and every request.      *)
THEOREM AnswersItsPrefix == StaticSpec => []HandlesItsPrefix
  <1> USE StaticFilesAssumption
  <1>1. StaticInit => PrefixInv
    BY DEF StaticInit, PrefixInv
  <1>2. PrefixInv /\ [StaticNext]_staticVars => PrefixInv'
    BY PrefixStep
  <1>3. PrefixInv => HandlesItsPrefix
    <2> SUFFICES ASSUME PrefixInv, step = "done", Valid
                 PROVE  ~passed <=> /\ request_path # <<>>
                                    /\ IsPrefix(Mount,
                                                       Segments(request_path))
      BY DEF HandlesItsPrefix, Valid
    <2>1. ~passed <=> Matches
      BY DEF PrefixInv
    <2> DEFINE u == config.url_prefix
               p == request_path
    <2>2. request.target \in Seq(Char) /\ u \in Seq(Char)
      BY DEF PrefixInv, StaticTypes, Text, Char
    <2>3. p \in Seq(Char)
      BY <2>2, PathView DEF request_path
    <2>4. u # <<>> /\ u[1] = Slash
      <3>1. is_valid_url_prefix(u)
        BY DEF Valid, make_state_error
      <3> QED
        BY <3>1 DEF is_valid_url_prefix
    <2>5. state.url_prefix = normalize_url_prefix(u)
      BY DEF state, make_state
    <2>6. Mount = MountOf(u)
      BY MountDef
    <2> HIDE DEF u, p
    <2>7. prefix_matches(p, normalize_url_prefix(u)) <=>
              p # <<>> /\ IsPrefix(MountOf(u), Segments(p))
      BY <2>2, <2>3, <2>4, PrefixMatches
    <2> QED
      BY <2>1, <2>5, <2>6, <2>7 DEF Matches, p
  <1> QED
    BY <1>1, <1>2, <1>3, PTL DEF StaticSpec

-----------------------------------------------------------------------------
(* The message on the wire. *)

(* The names of headers h that are some spelling of a name. *)
Spelled(h, name) == {key \in DOMAIN h : key[1] = name[1]}

LEMMA NamesDiffer ==
    /\ ContentType[1] # ContentLength[1] /\ Allow[1] # ContentLength[1]
    /\ ContentType # ContentLength
  BY DEF ContentType, ContentLength, Allow

LEMMA SerializedFields ==
    ASSUME NEW r
    PROVE  LET generated == IF Spelled(r.headers, ContentLength) # {}
                            THEN {} ELSE {<<ContentLength, r.body, "generated">>}
               own == {<<name, r.headers[name], "own">> : name \in DOMAIN r.headers}
           IN  /\ serialize_response(r).lines = generated \cup own
               /\ serialize_response(r).body = r.body
  <1>1. has_header_case_insensitive(r.headers, ContentLength) <=> Spelled(r.headers, ContentLength) # {}
    BY DEF has_header_case_insensitive, ascii_equal_ignore_case, Spelled
  <1> QED
    BY <1>1, Zenon DEF serialize_response

(* A header with one spelling is one line. *)
LEMMA OwnLine ==
    ASSUME NEW r, NEW name, NEW x \in Spelled(r.headers, name),
           \A y \in Spelled(r.headers, name) : y = x
    PROVE  /\ Lines(serialize_response(r), name) = {<<x, r.headers[x], "own">>}
           /\ <<x, r.headers[x], "own">> \in serialize_response(r).lines
  <1> DEFINE S == Spelled(r.headers, ContentLength)
             generated == IF S # {} THEN {} ELSE {<<ContentLength, r.body, "generated">>}
             own == {<<key, r.headers[key], "own">> : key \in DOMAIN r.headers}
             m == serialize_response(r)
             l == <<x, r.headers[x], "own">>
  <1>1. m.lines = generated \cup own
    BY SerializedFields
  <1>2. x \in DOMAIN r.headers /\ x[1] = name[1]
    BY DEF Spelled
  <1>3. l \in own /\ l[1] = x
    BY <1>2
  <1>4. ASSUME NEW k \in own, k[1][1] = name[1] PROVE k = l
    <2>1. PICK key \in DOMAIN r.headers : k = <<key, r.headers[key], "own">>
      OBVIOUS
    <2>2. key \in Spelled(r.headers, name)
      BY <1>4, <2>1 DEF Spelled
    <2> QED
      BY <2>1, <2>2
  <1>5. ASSUME NEW k \in generated PROVE k[1][1] # name[1]
    <2>1. S = {} /\ k[1] = ContentLength
      BY <1>5
    <2>2. name[1] # ContentLength[1]
      <3> SUFFICES ASSUME name[1] = ContentLength[1] PROVE FALSE
        OBVIOUS
      <3>1. x \in S
        BY <1>2 DEF Spelled
      <3> QED
        BY <2>1, <3>1
    <2> QED
      BY <2>1, <2>2
  <1> HIDE DEF generated, own, m, l
  <1>6. l \in m.lines /\ l[1][1] = name[1]
    BY <1>1, <1>2, <1>3
  <1>7. \A k \in m.lines : k[1][1] = name[1] => k = l
    BY <1>1, <1>4, <1>5
  <1>8. Lines(m, name) = {l}
    BY <1>6, <1>7 DEF Lines
  <1> QED
    BY <1>6, <1>8 DEF m, l

(* A Response without Content-Length gets one line with the length of its body. *)
LEMMA GeneratedLine ==
    ASSUME NEW r, Spelled(r.headers, ContentLength) = {}
    PROVE  /\ Lines(serialize_response(r), ContentLength) = {<<ContentLength, r.body, "generated">>}
           /\ <<ContentLength, r.body, "generated">> \in serialize_response(r).lines
  <1> DEFINE own == {<<key, r.headers[key], "own">> : key \in DOMAIN r.headers}
             m == serialize_response(r)
             l == <<ContentLength, r.body, "generated">>
  <1>1. m.lines = {l} \cup own
    BY SerializedFields
  <1>2. ASSUME NEW k \in own PROVE k[1][1] # ContentLength[1]
    BY DEF Spelled
  <1>3. l[1] = ContentLength
    OBVIOUS
  <1> HIDE DEF own, m, l
  <1>4. Lines(m, ContentLength) = {l} /\ l \in m.lines
    BY <1>1, <1>2, <1>3 DEF Lines
  <1> QED
    BY <1>4 DEF m, l

IsResponse(r) == r = [status |-> r.status, body |-> r.body, headers |-> r.headers]

LEMMA HeaderAdded ==
    ASSUME NEW r, IsResponse(r), NEW name, NEW value, NEW q, q = header(r, name, value)
    PROVE  /\ IsResponse(q) /\ q.status = r.status /\ q.body = r.body
           /\ DOMAIN q.headers = DOMAIN r.headers \cup {name}
           /\ q.headers[name] = value
           /\ \A key \in DOMAIN r.headers : key # name => q.headers[key] = r.headers[key]
  <1> DEFINE D == DOMAIN r.headers
             h == [key \in D \cup {name} |-> IF key = name THEN value ELSE r.headers[key]]
  <1>1. q = [r EXCEPT !.headers = h]
    BY DEF header
  <1>2. /\ DOMAIN h = D \cup {name} /\ h[name] = value
        /\ \A key \in D : key # name => h[key] = r.headers[key]
    <2> HIDE DEF D
    <2> QED
      OBVIOUS
  <1> HIDE DEF h
  <1>3. q = [status |-> r.status, body |-> r.body, headers |-> h]
    BY <1>1 DEF IsResponse
  <1>4. q.status = r.status /\ q.body = r.body /\ q.headers = h
    BY <1>3
  <1>5. IsResponse(q)
    BY <1>3, <1>4 DEF IsResponse
  <1> QED
    BY <1>2, <1>4, <1>5

LEMMA ResponseMade ==
    ASSUME NEW code, NEW body, NEW q, q = Response(code, body, "text/plain")
    PROVE  IsResponse(q) /\ q.status = code /\ q.body = body /\ DOMAIN q.headers = {ContentType}
  <1> DEFINE D == IF "text/plain" = "" THEN {} ELSE {ContentType}
             h == [name \in D |-> "text/plain"]
  <1>1. D = {ContentType}
    BY Zenon
  <1>2. q = [status |-> code, body |-> body, headers |-> h]
    BY Zenon DEF Response
  <1> HIDE DEF D
  <1>3. DOMAIN h = {ContentType}
    BY <1>1
  <1> HIDE DEF h
  <1>4. q.status = code /\ q.body = body /\ q.headers = h
    BY <1>2
  <1>5. IsResponse(q)
    BY <1>2, <1>4 DEF IsResponse
  <1> QED
    BY <1>3, <1>4, <1>5

(* The response of a file. *)
LEMMA FileFields ==
    ASSUME NEW body, NEW length
    PROVE  LET q == FileResponse(body, length)
           IN  /\ IsOk(q.status) /\ q.body = body
               /\ DOMAIN q.headers = {ContentType, ContentLength}
               /\ q.headers[ContentType] = mime_type_for(path)
               /\ q.headers[ContentLength] = length
  <1> DEFINE a == Factory("ok", body)
             b == header(a, ContentType, mime_type_for(path))
             q == header(b, ContentLength, length)
             mime == mime_type_for(path)
  <1>1. a = Response(200, body, "text/plain")
    BY SMT DEF Factory
  <1>2. IsResponse(a) /\ IsOk(a.status) /\ a.body = body /\ DOMAIN a.headers = {ContentType}
    <2> HIDE DEF a
    <2> QED
      BY <1>1, ResponseMade, SMT DEF IsOk
  <1>3. FileResponse(body, length) = q
    BY Zenon DEF FileResponse, content_type
  <1>3a. b = header(a, ContentType, mime)
    OBVIOUS
  <1>3b. q = header(b, ContentLength, length)
    OBVIOUS
  <1> HIDE DEF a, mime, b, q
  <1>4. /\ IsResponse(b) /\ b.body = body /\ b.status = a.status
        /\ DOMAIN b.headers = {ContentType} /\ b.headers[ContentType] = mime
    <2>1. IsResponse(b) /\ b.body = body /\ b.status = a.status /\ DOMAIN b.headers = {ContentType} \cup {ContentType}
          /\ b.headers[ContentType] = mime
      BY <1>2, <1>3a, HeaderAdded
    <2> QED
      BY <2>1
  <1>5. /\ q.body = body /\ q.status = b.status /\ DOMAIN q.headers = {ContentType, ContentLength}
        /\ q.headers[ContentLength] = length /\ q.headers[ContentType] = mime
    BY <1>3b, <1>4, NamesDiffer, HeaderAdded
  <1> QED
    BY <1>2, <1>3, <1>4, <1>5 DEF mime

(* A refusal: no 200, and no length of its own. *)
Plain(r) == ~IsOk(r.status) /\ Spelled(r.headers, ContentLength) = {}

LEMMA RefusalPlain ==
    ASSUME NEW error \in {"NotFound", "Forbidden"}
    PROVE  Plain(response_for_resolution_error(error))
  <1> DEFINE r == response_for_resolution_error(error)
  <1>1. ~IsOk(r.status)
    BY RefusalStatus
  <1>2. r = Response(403, 0, "text/plain") \/ r = Response(404, 0, "text/plain")
    BY SMT DEF response_for_resolution_error, Factory
  <1>3. DOMAIN r.headers = {ContentType}
    <2> HIDE DEF r
    <2> QED
      BY <1>2, ResponseMade, SMT
  <1> HIDE DEF r
  <1>4. Spelled(r.headers, ContentLength) = {}
    BY <1>3, NamesDiffer DEF Spelled
  <1> QED
    BY <1>1, <1>4 DEF Plain, r

LEMMA MethodPlain ==
    Plain(header(Factory("method_not_allowed", 0), Allow, "GET, HEAD"))
  <1> DEFINE a == Factory("method_not_allowed", 0)
             value == "GET, HEAD"
             q == header(a, Allow, value)
  <1>1. ~IsOk(q.status)
    BY MethodStatus
  <1>2. a = Response(405, 0, "text/plain")
    BY SMT DEF Factory
  <1>3. IsResponse(a) /\ DOMAIN a.headers = {ContentType}
    <2> HIDE DEF a
    <2> QED
      BY <1>2, ResponseMade, SMT
  <1>3a. q = header(a, Allow, value)
    OBVIOUS
  <1> HIDE DEF a, value, q
  <1>4. DOMAIN q.headers = {ContentType} \cup {Allow}
    BY <1>3, <1>3a, HeaderAdded
  <1>5. Spelled(q.headers, ContentLength) = {}
    BY <1>4, NamesDiffer DEF Spelled
  <1>6. Plain(q)
    BY <1>1, <1>5 DEF Plain
  <1> QED
    BY <1>6 DEF q, a, value

-----------------------------------------------------------------------------
(* The extension of a file name, and the overrides that match it. *)

LowerOf(c) == IF c[1] \in 65..90 THEN <<c[1] + 32>> ELSE c

LEMMA LowerChar ==
    ASSUME NEW c \in Char
    PROVE  LowerOf(c) \in Char /\ (LowerOf(c) = Dot <=> c = Dot)
  <1>1. CASE c[1] \in 65..90
    <2>1. LowerOf(c) = <<c[1] + 32>> /\ c[1] + 32 \in Nat /\ c[1] + 32 # 46 /\ c[1] # 46
      BY <1>1 DEF LowerOf
    <2>2. LowerOf(c) \in Char
      BY <2>1 DEF Char
    <2>3. LowerOf(c)[1] # 46
      BY <2>1
    <2>4. Dot[1] = 46
      BY DEF Dot
    <2> QED
      BY <2>1, <2>2, <2>3, <2>4
  <1>2. CASE ~(c[1] \in 65..90)
    BY <1>2 DEF LowerOf
  <1> QED
    BY <1>1, <1>2

LEMMA LowerText ==
    ASSUME NEW s \in Seq(Char)
    PROVE  /\ lowercase_ascii(s) \in Seq(Char) /\ Len(lowercase_ascii(s)) = Len(s)
           /\ \A i \in 1..Len(s) : lowercase_ascii(s)[i] = LowerOf(s[i])
  <1>1. lowercase_ascii(s) = [i \in 1..Len(s) |-> LowerOf(s[i])]
    BY DEF lowercase_ascii, LowerOf
  <1>2. \A i \in 1..Len(s) : LowerOf(s[i]) \in Char
    BY LowerChar
  <1>3. Len(s) \in Nat
    OBVIOUS
  <1> QED
    BY <1>1, <1>2, <1>3

(* The extension, in lower case, is the key that overrides the name. *)
LEMMA OverrideIsExtension ==
    ASSUME NEW name \in Seq(Char), NEW key, Overrides(key, name)
    PROVE  lowercase_ascii(extension(name)) = key
  <1> DEFINE L == lowercase_ascii(name)
             n == Len(name)
             k == Len(key)
             b == n - k + 1
             dots == {i \in 2..n : name[i] = Dot}
             e == SubSeq(name, b, n)
             E == lowercase_ascii(e)
  <1>1. L \in Seq(Char) /\ Len(L) = n /\ \A i \in 1..n : L[i] = LowerOf(name[i])
    BY LowerText
  <1>2. n \in Nat /\ k \in 1..(n - 1)
    BY DEF Overrides
  <1>3. key = SubSeq(L, b, n) /\ \A i \in 1..k : key[i] = Dot <=> i = 1
    BY DEF Overrides
  <1>4. extension(name) = IF dots = {} THEN <<>>
                          ELSE SubSeq(name, CHOOSE i \in dots : \A j \in dots : j <= i, n)
    BY DEF extension
  <1> HIDE DEF L, n, k
  <1>5. b \in 2..n /\ b \in Nat /\ n - b + 1 = k
    BY <1>2
  <1>6. \A i \in b..n : key[i - b + 1] = L[i] /\ i - b + 1 \in 1..k /\ i \in 1..n
    BY <1>1, <1>2, <1>3, <1>5
  <1>7. \A i \in b..n : name[i] = Dot <=> i = b
    <2> TAKE i \in b..n
    <2>1. name[i] \in Char
      BY <1>6 DEF n
    <2>2. name[i] = Dot <=> L[i] = Dot
      BY <1>1, <1>6, <2>1, LowerChar
    <2>3. L[i] = Dot <=> i - b + 1 = 1
      BY <1>3, <1>6
    <2> QED
      BY <1>5, <2>2, <2>3
  <1> HIDE DEF b
  <1>8. b \in dots /\ \A j \in dots : j <= b
    <2>1. b \in dots
      BY <1>2, <1>5, <1>7
    <2>2. ASSUME NEW j \in dots PROVE j <= b
      <3> SUFFICES ASSUME b < j PROVE FALSE
        BY <1>2, <1>5
      <3>1. j \in b..n /\ name[j] = Dot
        BY <1>2, <1>5
      <3> QED
        BY <1>5, <1>7, <3>1
    <2> QED
      BY <2>1, <2>2
  <1>8a. dots \subseteq Nat
    BY <1>2
  <1> HIDE DEF dots
  <1>9. (CHOOSE i \in dots : \A j \in dots : j <= i) = b
    <2> DEFINE c == CHOOSE i \in dots : \A j \in dots : j <= i
    <2>1. c \in dots /\ \A j \in dots : j <= c
      BY <1>8
    <2> HIDE DEF c
    <2>2. c <= b /\ b <= c /\ c \in Nat
      BY <1>8, <1>8a, <2>1
    <2>3. c = b
      BY <1>5, <2>2
    <2> QED
      BY <2>3 DEF c
  <1>10. extension(name) = e
    BY <1>4, <1>8, <1>9
  <1>11. e \in Seq(Char) /\ Len(e) = k /\ \A i \in 1..k : e[i] = name[b + i - 1] /\ b + i - 1 \in 1..n
    <2>1. name \in Seq(Char) /\ Len(name) = n
      BY DEF n
    <2> QED
      BY <1>2, <1>5, <2>1
  <1> HIDE DEF e
  <1>12. E \in Seq(Char) /\ Len(E) = k /\ \A i \in 1..k : E[i] = LowerOf(e[i])
    BY <1>11, LowerText
  <1>13. key \in Seq(Char) /\ Len(key) = k /\ \A i \in 1..k : key[i] = L[b + i - 1]
    <2>1. key \in Seq(Char)
      BY <1>1, <1>2, <1>3, <1>5
    <2>2. \A i \in 1..k : key[i] = L[b + i - 1]
      BY <1>1, <1>2, <1>3, <1>5
    <2> QED
      BY <2>1, <2>2 DEF k
  <1> HIDE DEF E
  <1>14. \A i \in 1..k : E[i] = key[i]
    BY <1>1, <1>11, <1>12, <1>13
  <1>15. E = key
    BY <1>12, <1>13, <1>14
  <1> QED
    BY <1>10, <1>15 DEF E

-----------------------------------------------------------------------------
(* The response that is written. *)

(* The Response of a file, with its length unless only the head was asked for. *)
OfFile(r) ==
    /\ path # <<>>
    /\ \E body, length : /\ r = FileResponse(body, length)
                         /\ body = length \/ request_method = "HEAD"

Answer ==
    \/ passed /\ response \in Handled
    \/ ~passed /\ (Plain(response) \/ OfFile(response))

Answered == {"write", "done"}

(* "/" is never a file, a file that is being read therefore has a name, and    *)
(* what is written is what the handler, a refusal or the file gave.            *)
FrameInv ==
    /\ <<>> \in Paths => fs[<<>>].kind # "file"
    /\ step \in {"file_size", "body"} => path # <<>>
    /\ passed => step \in Answered
    /\ step \in Answered => Answer
    /\ step = "done" => wire = serialize_response(response)

LEMMA OfFileKept ==
    ASSUME NEW r, config' = config, request' = request, path' = path
    PROVE  OfFile(r)' <=> OfFile(r)
  <1>1. ASSUME NEW body, NEW length
        PROVE  FileResponse(body, length)' = FileResponse(body, length)
    BY DEF FileResponse, mime_type_for, state
  <1>2. (request_method)' = request_method
    BY DEF request_method
  <1> QED
    BY <1>1, <1>2 DEF OfFile

(* A step that answers the request. *)
LEMMA FrameFinish ==
    ASSUME FrameInv, step \notin Answered, NEW r, Finish(r), Plain(r) \/ OfFile(r)
    PROVE  FrameInv'
  <1>1. /\ step' = "write" /\ response' = r /\ ~passed
        /\ UNCHANGED <<config, request, fs, path, wire, passed>>
    BY DEF Finish, FrameInv
  <1>2. Plain(r) \/ OfFile(r)'
    BY <1>1, OfFileKept
  <1>3. Answer'
    <2>1. CASE Plain(r)
      BY <1>1, <2>1 DEF Answer, Plain
    <2>2. CASE OfFile(r)'
      BY <1>1, <2>2 DEF Answer, OfFile
    <2> QED
      BY <1>2, <2>1, <2>2
  <1> QED
    BY <1>1, <1>3 DEF FrameInv, Answered

LEMMA FrameRefuse ==
    ASSUME FrameInv, step \notin Answered,
           NEW error \in {"NotFound", "Forbidden"}, Refuse(error)
    PROVE  FrameInv'
  BY RefusalPlain, FrameFinish DEF Refuse

(* A step that goes on, to a file that has a name. *)
LEMMA FrameGoto ==
    ASSUME FrameInv, step \notin Answered, NEW next, next \notin Answered, Goto(next),
           next \in {"file_size", "body"} => path' # <<>>
    PROVE  FrameInv'
  BY DEF FrameInv, Goto, Answered

LEMMA FrameCandidate ==
    ASSUME FrameInv, step \notin Answered, NEW candidate,
           NEW next \in {"is_directory", "is_regular_file"}, resolve_candidate(candidate, next)
    PROVE  FrameInv'
  <1>1. CASE Refuse("NotFound") \/ Refuse("Forbidden")
    BY <1>1, FrameRefuse
  <1>2. CASE Goto(next)
    BY <1>2, FrameGoto DEF Answered
  <1> QED
    BY <1>1, <1>2 DEF resolve_candidate

(* What is a file has a name. *)
LEMMA FileNamed ==
    ASSUME FrameInv, Node(path).kind = "file"
    PROVE  path # <<>>
  BY DEF FrameInv, Node, None

LEMMA FrameReadFileSize ==
    ASSUME FrameInv, ReadFileSize
    PROVE  FrameInv'
  <1>1. step = "file_size" /\ step \notin Answered /\ path # <<>>
    BY DEF ReadFileSize, FrameInv, Answered
  <1>2. CASE Refuse("NotFound") \/ Refuse("Forbidden")
    BY <1>1, <1>2, FrameRefuse
  <1>3. CASE request_method = "HEAD" /\ Finish(FileResponse(0, Node(path).size))
    <2>1. OfFile(FileResponse(0, Node(path).size))
      BY <1>1, <1>3 DEF OfFile
    <2> QED
      BY <1>1, <1>3, <2>1, FrameFinish
  <1>4. CASE Goto("body") /\ UNCHANGED path
    BY <1>1, <1>4, FrameGoto DEF Answered
  <1> QED
    BY <1>2, <1>3, <1>4 DEF ReadFileSize

LEMMA FrameReadFileBody ==
    ASSUME FrameInv, ReadFileBody
    PROVE  FrameInv'
  <1>1. step = "body" /\ step \notin Answered /\ path # <<>>
    BY DEF ReadFileBody, FrameInv, Answered
  <1>2. CASE Refuse("NotFound")
    BY <1>1, <1>2, FrameRefuse
  <1>3. CASE Finish(FileResponse(size, size))
    <2>1. OfFile(FileResponse(size, size))
      BY <1>1 DEF OfFile
    <2> QED
      BY <1>1, <1>3, <2>1, FrameFinish
  <1> QED
    BY <1>2, <1>3 DEF ReadFileBody

(* The answer does not depend on what changes later. *)
LEMMA AnswerKept ==
    ASSUME Answer, UNCHANGED <<config, request, path, response, passed>>
    PROVE  Answer'
  <1>1. OfFile(response)' <=> OfFile(response)
    <2> DEFINE r == response
    <2>1. OfFile(r)' <=> OfFile(r)
      BY OfFileKept
    <2> QED
      BY <2>1
  <1>2. Plain(response)' <=> Plain(response)
    BY DEF Plain
  <1> QED
    BY <1>1, <1>2 DEF Answer

LEMMA FrameStep ==
    ASSUME StaticTypes, FrameInv, fs = [p \in Paths |-> fs[p]], [StaticNext]_staticVars
    PROVE  FrameInv'
  <1>1. ASSUME NEW r \in Handled, Pass(r) PROVE FrameInv'
    <2>1. /\ step' = "write" /\ response' = r /\ passed' = TRUE
          /\ UNCHANGED <<config, request, fs, path, wire>>
      BY <1>1 DEF Pass
    <2> QED
      BY <2>1 DEF FrameInv, Answer, Answered
  <1>2. CASE Match
    <2>1. step = "match" /\ step \notin Answered
      BY <1>2 DEF Match, Answered
    <2>2. CASE Finish(header(Factory("method_not_allowed", 0), Allow, "GET, HEAD"))
      BY <2>1, <2>2, MethodPlain, FrameFinish
    <2>3. CASE Goto("resolve")
      BY <2>1, <2>3, FrameGoto DEF Answered
    <2> QED
      BY <1>2, <2>2, <2>3 DEF Match
  <1>3. CASE Resolve
    <2>1. step \notin Answered
      BY <1>3 DEF Resolve, Answered
    <2> QED
      BY <1>3, <2>1, FrameRefuse, FrameCandidate DEF Resolve
  <1>4. CASE IsDirectory
    <2>1. step \notin Answered
      BY <1>4 DEF IsDirectory, Answered
    <2>2. CASE Goto("is_regular_file")
      BY <2>1, <2>2, FrameGoto DEF Answered
    <2> QED
      BY <1>4, <2>1, <2>2, FrameRefuse, FrameCandidate DEF IsDirectory
  <1>5. CASE IsRegularFile
    <2>1. step \notin Answered
      BY <1>5 DEF IsRegularFile, Answered
    <2>2. CASE Node(path).kind = "file" /\ Goto("file_size") /\ path' = path
      BY <2>1, <2>2, FileNamed, FrameGoto DEF Answered
    <2> QED
      BY <1>5, <2>1, <2>2, FrameRefuse DEF IsRegularFile
  <1>6. CASE ReadFileSize
    BY <1>6, FrameReadFileSize
  <1>7. CASE ReadFileBody
    BY <1>7, FrameReadFileBody
  <1>8. CASE WriteResponse
    <2>1. /\ step = "write" /\ step' = "done" /\ wire' = serialize_response(response)
          /\ UNCHANGED <<config, request, fs, path, response, passed>>
      BY <1>8 DEF WriteResponse
    <2>2. Answer'
      BY <2>1, AnswerKept DEF FrameInv, Answered
    <2> QED
      BY <2>1, <2>2 DEF FrameInv, Answered
  <1>9. ASSUME NEW p \in Paths, NEW node \in Nodes, FsChange(p, node) PROVE FrameInv'
    <2>1. /\ step' = step /\ step \notin Answered /\ p # <<>> /\ fs' = [fs EXCEPT ![p] = node]
          /\ UNCHANGED <<config, request, path, response, wire, passed>>
      BY <1>9 DEF FsChange, Answered
    <2>2. <<>> \in Paths => fs'[<<>>] = fs[<<>>]
      BY <2>1
    <2> QED
      BY <2>1, <2>2 DEF FrameInv, Answered
  <1>10. CASE UNCHANGED staticVars
    <2>1. UNCHANGED <<step, config, request, fs, path, response, wire, passed>>
      BY <1>10 DEF staticVars
    <2>2. Answer => Answer'
      BY <2>1, AnswerKept
    <2> QED
      BY <2>1, <2>2 DEF FrameInv
  <1> QED
    BY <1>1, <1>2, <1>3, <1>4, <1>5, <1>6, <1>7, <1>8, <1>9, <1>10 DEF StaticNext

(* One line of Content-Length, with the length of the body. *)
OneLength(r) ==
    \E line \in serialize_response(r).lines :
        /\ Lines(serialize_response(r), ContentLength) = {line}
        /\ line[2] = serialize_response(r).body

LEMMA GeneratedLength ==
    ASSUME NEW r, Spelled(r.headers, ContentLength) = {}
    PROVE  OneLength(r)
  <1> DEFINE l == <<ContentLength, r.body, "generated">>
  <1>1. l[2] = r.body
    OBVIOUS
  <1>2. l \in serialize_response(r).lines /\ Lines(serialize_response(r), ContentLength) = {l}
    BY GeneratedLine
  <1>3. serialize_response(r).body = r.body
    BY SerializedFields
  <1> HIDE DEF l
  <1> QED
    BY <1>1, <1>2, <1>3 DEF OneLength

LEMMA HandlerLength ==
    ASSUME StaticTypes, NEW r \in Handled
    PROVE  OneLength(r)
  <1>1. CASE Spelled(r.headers, ContentLength) = {}
    BY <1>1, GeneratedLength
  <1>2. ASSUME NEW x \in Spelled(r.headers, ContentLength) PROVE OneLength(r)
    <2> DEFINE l == <<x, r.headers[x], "own">>
    <2>1. \A y \in Spelled(r.headers, ContentLength) : y = x
      BY DEF Spelled, StaticTypes
    <2>2. r.headers[x] = r.body
      BY DEF Spelled, StaticTypes
    <2>3. l \in serialize_response(r).lines /\ Lines(serialize_response(r), ContentLength) = {l}
      BY <2>1, OwnLine
    <2>4. l[2] = serialize_response(r).body
      BY <2>2, SerializedFields
    <2> HIDE DEF l
    <2> QED
      BY <2>3, <2>4 DEF OneLength
  <1> QED
    BY <1>1, <1>2

(* The type of a file whose name ends with an overridden extension. *)
LEMMA OverrideTaken ==
    ASSUME path \in Seq(Seq(Char)), path # <<>>,
           NEW key \in DOMAIN config.mime_overrides, Overrides(key, Last(path))
    PROVE  mime_type_for(path) = config.mime_overrides[key]
  <1>1. Last(path) \in Seq(Char)
    BY DEF Last
  <1>2. lowercase_ascii(extension(Last(path))) = key
    BY <1>1, OverrideIsExtension
  <1>3. state.mime_overrides = config.mime_overrides
    BY DEF state, make_state
  <1> QED
    BY <1>2, <1>3 DEF mime_type_for

LEMMA FileFramed ==
    ASSUME NEW r, NEW body, NEW length, r = FileResponse(body, length)
    PROVE  LET m == serialize_response(r)
           IN  /\ IsOk(m.status) /\ m.body = body
               /\ \E line \in m.lines : Lines(m, ContentLength) = {line} /\ line[2] = length
               /\ \E line \in m.lines :
                      Lines(m, ContentType) = {line} /\ line[2] = mime_type_for(path)
  <1> DEFINE m == serialize_response(r)
             h == r.headers
             mime == mime_type_for(path)
             l == <<ContentLength, h[ContentLength], "own">>
             t == <<ContentType, h[ContentType], "own">>
  <1>1. /\ IsOk(r.status) /\ r.body = body /\ DOMAIN h = {ContentType, ContentLength}
        /\ h[ContentType] = mime /\ h[ContentLength] = length
    BY FileFields
  <1>2. m.status = r.status /\ m.body = r.body
    BY WireStatus, SerializedFields
  <1>3. /\ ContentLength \in Spelled(h, ContentLength)
        /\ \A y \in Spelled(h, ContentLength) : y = ContentLength
    BY <1>1, NamesDiffer DEF Spelled
  <1>4. /\ ContentType \in Spelled(h, ContentType)
        /\ \A y \in Spelled(h, ContentType) : y = ContentType
    BY <1>1, NamesDiffer DEF Spelled
  <1>5. l \in m.lines /\ Lines(m, ContentLength) = {l}
    BY <1>3, OwnLine
  <1>6. t \in m.lines /\ Lines(m, ContentType) = {t}
    BY <1>4, OwnLine
  <1>7. l[2] = length /\ t[2] = mime
    BY <1>1
  <1> HIDE DEF m, h, l, t, mime
  <1>8. /\ IsOk(m.status) /\ m.body = body
        /\ \E line \in m.lines : Lines(m, ContentLength) = {line} /\ line[2] = length
        /\ \E line \in m.lines : Lines(m, ContentType) = {line} /\ line[2] = mime
    BY <1>1, <1>2, <1>5, <1>6, <1>7
  <1> QED
    BY <1>8 DEF m, mime

LEMMA FramedWhenDone ==
    ASSUME StaticTypes, StaticInv, FrameInv
    PROVE  MessageFramed
  <1> SUFFICES ASSUME step = "done"
      PROVE /\ \E line \in wire.lines :
                   /\ Lines(wire, ContentLength) = {line}
                   /\ (FileServed /\ request_method = "HEAD") \/ line[2] = wire.body
            /\ FileServed =>
                   \E line \in wire.lines :
                       /\ Lines(wire, ContentType) = {line}
                       /\ \A key \in DOMAIN config.mime_overrides :
                              Overrides(key, Last(path)) => line[2] = config.mime_overrides[key]
    BY DEF MessageFramed
  <1>1. Answer /\ wire = serialize_response(response)
    BY DEF FrameInv, Answered
  <1>2. FileServed <=> ~passed /\ IsOk(wire.status)
    BY DEF FileServed, IsOk
  <1>3. wire.status = response.status
    BY <1>1, WireStatus
  <1>4. CASE passed /\ response \in Handled
    BY <1>1, <1>2, <1>4, HandlerLength DEF OneLength
  <1>5. CASE Plain(response)
    BY <1>1, <1>2, <1>3, <1>5, GeneratedLength DEF OneLength, Plain
  <1>6. CASE ~passed /\ OfFile(response)
    <2>1. PICK body, length : /\ response = FileResponse(body, length)
                              /\ body = length \/ request_method = "HEAD"
      BY <1>6 DEF OfFile
    <2>2. /\ IsOk(wire.status) /\ wire.body = body
          /\ \E line \in wire.lines : Lines(wire, ContentLength) = {line} /\ line[2] = length
          /\ \E line \in wire.lines :
                 Lines(wire, ContentType) = {line} /\ line[2] = mime_type_for(path)
      BY <1>1, <2>1, FileFramed
    <2>3. FileServed
      BY <1>2, <1>6, <2>2
    <2>4. path \in Seq(Seq(Char)) /\ path # <<>>
      BY <1>2, <1>3, <1>6, <2>3 DEF StaticInv, Below, Canonical, Text, Char, OfFile
    <2>5. \A key \in DOMAIN config.mime_overrides :
              Overrides(key, Last(path)) => mime_type_for(path) = config.mime_overrides[key]
      BY <2>4, OverrideTaken
    <2> QED
      BY <2>1, <2>2, <2>3, <2>5
  <1> QED
    BY <1>1, <1>4, <1>5, <1>6 DEF Answer

(* MessageFramed: whatever the handler, the request and the file system do,    *)
(* every response serialize_response writes has one Content-Length, which is   *)
(* the length of the body that follows unless a file was asked for with HEAD,  *)
(* and a file has one Content-Type, the application's where it overrides it.   *)
THEOREM MessagesFramed == StaticSpec => []MessageFramed
  <1> USE StaticFilesAssumption
  <1>1. StaticInit => FrameInv
    BY DEF StaticInit, FrameInv, StaticTypes, Answered
  <1>2. StaticInv /\ FrameInv /\ [StaticNext]_staticVars => FrameInv'
    <2>1. StaticInv => fs = [p \in Paths |-> fs[p]]
      BY DEF StaticInv, FsOK
    <2> QED
      BY <2>1, FrameStep
  <1>3. StaticInv /\ FrameInv => MessageFramed
    BY FramedWhenDone
  <1> QED
    BY <1>1, <1>2, <1>3, StaticFilesInvariant, PTL DEF StaticSpec
=============================================================================
