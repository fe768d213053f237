----------------------- MODULE MCWebSocketConnection -----------------------
(* WebSocketConnection with the lengths at which the encoding changes and    *)
(* one frame of every kind the parser refuses.                                *)
EXTENDS WebSocketConnection

F(op, len7, len) ==
    [rsv |-> FALSE, op |-> op, fin |-> TRUE, masked |-> TRUE, msb |-> FALSE,
     len7 |-> len7, len |-> len, code |-> 3000]

Good == { F("Text", 0, 0), F("Text", 5, 5), F("Binary", 125, 125), F("Text", 126, 126),
          F("Text", 126, 65535), F("Text", 127, 65536), F("Text", 127, 5),
          F("Ping", 125, 125), F("Pong", 0, 0), F("Close", 0, 0), F("Close", 2, 2),
          [F("Close", 2, 2) EXCEPT !.code = 1002] }

Bad == { [F("Text", 5, 5) EXCEPT !.rsv = TRUE], [F("Text", 5, 5) EXCEPT !.fin = FALSE],
         [F("Ping", 5, 5) EXCEPT !.fin = FALSE], [F("Text", 5, 5) EXCEPT !.masked = FALSE],
         F("Continuation", 5, 5), F("Reserved", 5, 5), F("Text", 127, 65537),
         [F("Text", 127, 5) EXCEPT !.msb = TRUE] }

MCStreams == {<<f, g>> : f \in Good, g \in Good \cup Bad} \cup {<<f>> : f \in Bad}

Plain101 == <<<<"upgrade", "websocket">>, <<"connection", "keep-alive, upgrade">>,
              <<"sec-websocket-key", "k1">>>>

MCRequests == { Plain101,
    <<<<"connection", "upgrade">>, <<"sec-websocket-key", "k2">>,
      <<"sec-websocket-key", "k1">>, <<"upgrade", "websocket">>>>,
    <<<<"upgrade", "websocket">>, <<"connection", "keep-alive">>, <<"sec-websocket-key", "k1">>>>,
    <<<<"upgrade", "h2c">>, <<"connection", "upgrade">>, <<"sec-websocket-key", "k1">>>>,
    <<<<"upgrade", "websocket">>, <<"connection", "upgrade">>>> }

\* Two digests of 20 bytes.
MCDigestOf == [key \in {"k1", "k2"} |->
    [i \in 1..20 |-> (i * (IF key = "k1" THEN 37 ELSE 91) + 250) % 256]]
=============================================================================
