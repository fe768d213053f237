--------------------------- MODULE HttpConnection ---------------------------
(***************************************************************************)
(* One HTTP/1.1 connection: the loop of App::listen's connection handler     *)
(* (src/router/app_impl.cpp) over the incremental parser                     *)
(* (src/http/http_parser.cpp), with a client that sends requests which TCP   *)
(* cuts into pieces anywhere.                                                *)
(*                                                                           *)
(* A request is a sequence of tokens: the request line, header lines, the    *)
(* end of the headers, body units; or a request line and something that is   *)
(* not HTTP.  One header line may be a traceparent, named by its value.  A   *)
(* read returns any non-empty prefix of what is in the socket.              *)
(***************************************************************************)
EXTENDS TraceContext

CONSTANTS MaxHeaders,   \* ParserConfig::max_header_count
          MaxBody,      \* ParserConfig::max_body_bytes
          MaxRequests,  \* bound: requests of the client
          Shapes,       \* bound: the requests the client may send
          TraceHeaders, \* bound: values of traceparent headers, by name
          Pipelined     \* the client does not wait for answers

NoTrace == "none"

ASSUME HttpAssumption ==
    /\ Shapes \subseteq [h : Nat, b : Nat, keep : BOOLEAN, junk : BOOLEAN,
                         trace : DOMAIN TraceHeaders \cup {NoTrace}]
    /\ \A s \in Shapes : (s.junk => s.h = 0 /\ s.b = 0) /\ (s.trace # NoTrace => s.h > 0)
    /\ NoTrace \notin DOMAIN TraceHeaders
    /\ \A t \in DOMAIN TraceHeaders : TraceHeaders[t] \in Seq(STRING)
    /\ MaxHeaders \in Nat /\ MaxBody \in Nat /\ MaxRequests \in Nat /\ Pipelined \in BOOLEAN

VARIABLES
    asked,    \* history: the requests the client sent
    socket,   \* tokens sent and not read
    eof,      \* the client has closed its side
    pc,       \* the connection coroutine
    chunk,    \* buf
    parser,   \* HttpParser::Impl
    keep,     \* keep_alive of the request being handled
    serving,  \* the requests whose data is in the Request being handled
    trace,    \* the traceparent whose parts the Request carries
    status,   \* what the connection is about to write
    answers   \* responses written: status and the requests they answer

vars == <<asked, socket, eof, pc, chunk, parser, keep, serving, trace, status, answers>>

client == <<asked, socket, eof>>

(* A request has h headers, the last of them perhaps a traceparent, and b    *)
(* body units, or junk after its line.                                       *)
Token(kind, i, last) == [kind |-> kind, req |-> i, last |-> last, trace |-> NoTrace]

Tokens(i, s) ==
    IF s.junk THEN <<Token("line", i, FALSE), Token("junk", i, FALSE)>>
    ELSE <<Token("line", i, FALSE)>>
         \o [k \in 1..s.h |-> [Token("header", i, FALSE) EXCEPT
                                   !.trace = IF k = s.h THEN s.trace ELSE NoTrace]]
         \o <<Token(IF s.keep THEN "end_keep" ELSE "end_close", i, s.b = 0)>>
         \o [k \in 1..s.b |-> Token("body", i, k = s.b)]

-----------------------------------------------------------------------------
(* HttpParser *)

Fresh == [from |-> {}, headers |-> 0, open |-> FALSE, body |-> 0, keep |-> FALSE,
          trace |-> NoTrace, complete |-> FALSE, error |-> "none"]

Init ==
    /\ asked = <<>> /\ socket = <<>> /\ eof = FALSE
    /\ pc = "read" /\ chunk = <<>> /\ parser = Fresh
    /\ keep = FALSE /\ serving = {} /\ trace = NoTrace /\ status = "none" /\ answers = <<>>

(* commit_header: a header counts when the next one or the end arrives. *)
CommitHeader(p) ==
    IF ~p.open THEN p
    ELSE [p EXCEPT !.headers = @ + 1, !.open = FALSE,
                   !.error = IF p.headers + 1 > MaxHeaders THEN "TooManyHeaders" ELSE @]

(* llhttp_execute hands the next token to its callback, which makes q of the *)
(* parser; on_message_complete pauses after the last token of a message.     *)
Running == pc = "feed" /\ chunk # <<>> /\ ~parser.complete /\ parser.error = "none"

Callback(kinds, q) ==
    /\ Running
    /\ Head(chunk).kind \in kinds
    /\ parser' = [q EXCEPT !.from = @ \cup {Head(chunk).req},
                           !.complete = Head(chunk).last /\ q.error = "none"]
    /\ chunk' = Tail(chunk)
    /\ UNCHANGED <<client, pc, keep, serving, trace, status, answers>>

OnUrl == Callback({"line"}, parser)

OnHeader ==
    Callback({"header"}, [CommitHeader(parser) EXCEPT !.open = TRUE,
                             !.trace = IF Head(chunk).trace = NoTrace THEN @ ELSE Head(chunk).trace])

OnHeadersComplete ==
    Callback({"end_keep", "end_close"},
             [CommitHeader(parser) EXCEPT !.keep = (Head(chunk).kind = "end_keep")])

OnBody ==
    Callback({"body"}, [parser EXCEPT !.body = @ + 1,
                                      !.error = IF parser.body + 1 > MaxBody THEN "TooLarge"
                                                ELSE @])

OnSyntaxError == Callback({"junk"}, [parser EXCEPT !.error = "BadRequest"])

-----------------------------------------------------------------------------
(* The client and the network. *)

ClientSend(s) ==
    /\ ~eof /\ Len(asked) < MaxRequests
    /\ Pipelined \/ Len(answers) = Len(asked)
    /\ pc # "closed"
    /\ asked' = Append(asked, s)
    /\ socket' = socket \o Tokens(Len(asked) + 1, s)
    /\ UNCHANGED <<eof, pc, chunk, parser, keep, serving, trace, status, answers>>

ClientClose ==
    /\ ~eof /\ eof' = TRUE
    /\ UNCHANGED <<asked, socket, pc, chunk, parser, keep, serving, trace, status, answers>>

-----------------------------------------------------------------------------
(* The connection coroutine. *)

(* stream.read: any part of what has arrived. *)
Read ==
    /\ pc = "read" /\ socket # <<>>
    /\ \E n \in 1..Len(socket) :
          /\ chunk' = SubSeq(socket, 1, n)
          /\ socket' = SubSeq(socket, n + 1, Len(socket))
    /\ pc' = "feed"
    /\ UNCHANGED <<asked, eof, parser, keep, serving, trace, status, answers>>

(* End of file after everything has been read, or the client is gone. *)
ReadEnds ==
    /\ pc = "read" /\ eof
    /\ pc' = "closed"
    /\ UNCHANGED <<client, chunk, parser, keep, serving, trace, status, answers>>

(* The Request of a complete message; a traceparent that cannot be parsed is *)
(* as if it was not there.                                                   *)
MakeRequest ==
    /\ keep' = parser.keep /\ serving' = parser.from
    /\ trace' = IF parser.trace # NoTrace => parse_traceparent(TraceHeaders[parser.trace]) = Invalid
                THEN NoTrace ELSE parser.trace

(* Mutant: a protocol error is treated like an incomplete message. *)
Feed_IgnoresErrors ==
    /\ pc = "feed" /\ ~Running
    /\ chunk' = <<>>
    /\ IF parser.complete
       THEN pc' = "dispatch" /\ MakeRequest
       ELSE pc' = "read" /\ UNCHANGED <<keep, serving, trace>>
    /\ UNCHANGED <<client, parser, status, answers>>

(* Mutant: the unread rest of the chunk stays in the buffer. *)
Feed_KeepsChunk ==
    /\ pc = "feed" /\ ~Running
    /\ IF parser.complete
       THEN pc' = "dispatch" /\ MakeRequest
       ELSE pc' = "read" /\ UNCHANGED <<keep, serving, trace>>
    /\ UNCHANGED <<client, chunk, parser, status, answers>>

(* feed() returns: an error, a complete message, or Incomplete.  The chunk   *)
(* is gone, also the part of it that a paused parser has not looked at.      *)
Feed ==
    /\ pc = "feed" /\ ~Running
    /\ chunk' = <<>>
    /\ \/ /\ parser.error # "none"
          /\ pc' = "write" /\ status' = "bad_request" /\ keep' = FALSE
          /\ serving' = parser.from /\ trace' = NoTrace
       \/ /\ parser.error = "none" /\ parser.complete
          /\ pc' = "dispatch" /\ MakeRequest
          /\ UNCHANGED status
       \/ /\ parser.error = "none" /\ ~parser.complete
          /\ pc' = "read"
          /\ UNCHANGED <<keep, serving, trace, status>>
    /\ UNCHANGED <<client, parser, answers>>

(* The handler answers, or upgraded the connection (101: leave the loop).    *)
Dispatch ==
    /\ pc = "dispatch"
    /\ \/ pc' = "write" /\ status' = "ok"
       \/ pc' = "closed" /\ status' = "upgraded"
    /\ UNCHANGED <<client, chunk, parser, keep, serving, trace, answers>>

(* The write fails only when the client is gone. *)
Write ==
    /\ pc = "write"
    /\ \/ /\ answers' = Append(answers, [status |-> status, to |-> serving, trace |-> trace])
          /\ pc' = IF keep THEN "reset" ELSE "closed"
       \/ /\ eof
          /\ pc' = "closed"
          /\ UNCHANGED answers
    /\ UNCHANGED <<client, chunk, parser, keep, serving, trace, status>>

(* Mutant: reset() forgets the counters. *)
Reset_KeepsCounts ==
    /\ pc = "reset"
    /\ parser' = [Fresh EXCEPT !.headers = parser.headers, !.body = parser.body]
    /\ pc' = "read"
    /\ UNCHANGED <<client, chunk, keep, serving, trace, status, answers>>

Reset ==
    /\ pc = "reset"
    /\ parser' = Fresh
    /\ pc' = "read"
    /\ UNCHANGED <<client, chunk, keep, serving, trace, status, answers>>

Loop ==
    \/ Read \/ ReadEnds \/ Feed \/ Dispatch \/ Write \/ Reset
    \/ OnUrl \/ OnHeader \/ OnHeadersComplete \/ OnBody \/ OnSyntaxError

Next ==
    \/ \E s \in Shapes : ClientSend(s)
    \/ ClientClose
    \/ Loop

Spec == Init /\ [][Next]_vars

(* The executor resumes the connection and handlers return; clients need not *)
(* send or close.                                                            *)
FairSpec == Spec /\ WF_vars(Loop)

-----------------------------------------------------------------------------
(* Properties. *)

(* Every variable has its type. *)
TypeOK ==
    /\ \A k \in 1..Len(asked) : asked[k] \in Shapes
    /\ Len(asked) <= MaxRequests /\ eof \in BOOLEAN /\ keep \in BOOLEAN
    /\ pc \in {"read", "feed", "dispatch", "write", "reset", "closed"}
    /\ (chunk # <<>>) => pc = "feed"
    /\ parser.headers \in 0..(MaxHeaders + 1) /\ parser.body \in 0..(MaxBody + 1)
    /\ parser.from \subseteq 1..MaxRequests /\ serving \subseteq 1..MaxRequests
    /\ status \in {"none", "ok", "bad_request", "upgraded"}

Acceptable(s) == ~s.junk /\ s.h <= MaxHeaders /\ s.b <= MaxBody

Lower(value) == [i \in DOMAIN value |-> lower(value[i])]

(* The grammar of the header, with upper-case digits admitted. *)
IsTraceParent(value) ==
    LET low == Lower(value)
    IN  /\ Len(value) = 55
        /\ SubSeq(low, 1, 2) = <<"0", "0">>
        /\ \A i \in 1..55 : IF i \in {3, 36, 53} THEN low[i] = "-" ELSE is_lower_hex(low[i])
        /\ \E i \in 4..35 : low[i] # "0"
        /\ \E i \in 37..52 : low[i] # "0"

(* The ids of a request are those of its own header, in lower case. *)
OwnTrace(value) ==
    LET tp == parse_traceparent(value)
    IN  <<"0", "0", "-">> \o tp.trace_id \o <<"-">> \o tp.parent_id \o <<"-">>
            = SubSeq(Lower(value), 1, 53)

(* However requests are cut into pieces, the k-th response answers the k-th  *)
(* request and nothing else, and it is 400 exactly when that request is      *)
(* malformed or over a limit: nothing leaks from one request to the next,    *)
(* its trace context included, which a handler finds when its own request    *)
(* has a well-formed traceparent and only then.                              *)
RightAnswer ==
    \A k \in 1..Len(answers) :
        /\ answers[k].to = {k}
        /\ (answers[k].status = "ok") <=> Acceptable(asked[k])
        /\ answers[k].status = "ok" =>
               answers[k].trace = IF asked[k].trace = NoTrace THEN NoTrace
                                  ELSE IF IsTraceParent(TraceHeaders[asked[k].trace])
                                  THEN asked[k].trace ELSE NoTrace
        /\ answers[k].trace # NoTrace => OwnTrace(TraceHeaders[answers[k].trace])

(* The connection's state is consistent and its answers are right. *)
AnswersSound == TypeOK /\ RightAnswer

(* A connection that is still open answers every request. *)
AllAnswered == \A k \in 1..MaxRequests :
    (Len(asked) = k) ~> (Len(answers) >= k \/ pc = "closed")
=============================================================================
