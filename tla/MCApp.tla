------------------------------- MODULE MCApp --------------------------------
(* Two plugins, one thread that calls App::stop(), one valid and one invalid  *)
(* method name.                                                              *)
EXTENDS App

CONSTANT s1

MCPlugins  == {1, 2}
MCThreads  == {Main, s1}
MCMethods  == {<<"", "Echo", "Say">>, <<"Echo", "Say">>}
MCStoppers == {s1}

(* Files at and beyond every limit, and with two errors; the three that are    *)
(* accepted differ in their log destination.                                   *)
OkFile(values) == [status |-> "ok", values |-> values]
Num(n)  == <<"int", n>>
Text(s) == <<"string", s>>

Accepted == {
    [status |-> "no path", values |-> <<>>],
    OkFile([port |-> Num(65535), host |-> Text("::"), backlog |-> Num(1),
            max_body_size |-> Num(2097152), request_timeout |-> Num(3600),
            max_header_count |-> Num(1000), max_read_bytes |-> Num(512), unknown |-> <<"other">>]
           @@ ("executor" :> <<"table">>) @@ ("executor.thread_count" :> Num(0))
           @@ ("executor.cpu_pool_threads" :> Num(256)) @@ ("executor.drain_timeout" :> Num(1))
           @@ ("logging" :> <<"table">>) @@ ("logging.enabled" :> <<"bool", TRUE>>)
           @@ ("logging.level" :> Text("fatal")) @@ ("logging.format" :> Text("pretty"))
           @@ ("logging.destination" :> Text("file"))
           @@ ("logging.queue_capacity" :> Num(1048576))),
    OkFile(("logging.destination" :> Text("file")) @@ ("logging.file_path" :> Text("a.log")))}

Beyond(k) ==
    IF k \in DOMAIN Limits
    THEN {Num(n) : n \in {-1, Limits[k][2] + 1} \cup (0..(Limits[k][1] - 1) \ 1..510)}
    ELSE {<<"other">>} \cup (IF k = "host" THEN {Text("")} ELSE {})
         \cup (IF k \in DOMAIN Names THEN {Text("no such name")} ELSE {})

Refused ==
    {[status |-> st, values |-> <<>>] : st \in {"missing", "unreadable"}}
    \cup UNION {{OkFile(Keys[i] :> v) : v \in Beyond(Keys[i])} : i \in DOMAIN Keys}
    \cup {OkFile(Keys[i] :> <<"other">> @@ Keys[j] :> <<"other">>) :
            i \in DOMAIN Keys, j \in DOMAIN Keys}

MCFiles == Accepted \cup Refused
=============================================================================
