-------------------------- MODULE MCHttpConnection --------------------------
(* The instance of HttpConnection that TLC checks. *)
EXTENDS HttpConnection

(* A traceparent whose ids are zero but for their last digits. *)
Value(version, t, p, flags) ==
    <<"0", version, "-">> \o [i \in 1..31 |-> "0"] \o <<t, "-">>
    \o [i \in 1..15 |-> "0"] \o <<p, "-", "0", flags>>

MCTraceHeaders ==
    ("good" :> Value("0", "B", "a", "1")) @@ ("zero" :> Value("0", "1", "0", "1"))
    @@ ("version" :> Value("1", "1", "1", "1")) @@ ("hex" :> Value("0", "1", "1", "g"))
    @@ ("short" :> Front(Value("0", "1", "1", "1")))

(* Every size up to one over each limit, a line with junk, and one request   *)
(* with each of the traceparents.                                            *)
MCShapes ==
    [h : 0..(MaxHeaders + 1), b : 0..(MaxBody + 1), keep : BOOLEAN, junk : {FALSE},
     trace : {NoTrace}]
    \cup [h : {0}, b : {0}, keep : {FALSE}, junk : {TRUE}, trace : {NoTrace}]
    \cup [h : {1}, b : {0}, keep : {TRUE}, junk : {FALSE}, trace : DOMAIN TraceHeaders]
=============================================================================
