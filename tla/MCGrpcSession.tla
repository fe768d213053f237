--------------------------- MODULE MCGrpcSession ----------------------------
(* Two streams, messages of at most two bytes, and one request for every      *)
(* reason to refuse one.                                                      *)
EXTENDS GrpcSession

H(n, v) == [name |-> n, value |-> v]
Post(path) == <<H(":method", "POST"), H(":path", path), H("te", "trailers"),
                H("content-type", "application/grpc"), H("x-id", "7")>>
Proto(path) == <<H(":method", "POST"), H(":path", path),
                 H("content-type", "application/grpc+proto")>>
Req(h, b) == [headers |-> h, bytes |-> b]

MCRequests == {
    Req(Post("/E/Say"), <<0, 0, 0, 0, 2, 8, 9>>),
    Req(Proto("/E/Say"), <<0, 0, 0, 0, 0>>),
    Req(Post("/E/Say"), <<0, 0, 0, 0, 2, 7, 8, 9>>),
    Req(Post("/E/Say"), <<0, 0, 0, 0, 3, 7>>),
    Req(Post("/E/Say"), <<0, 0, 0, 0, 1, 7, 8>>),
    Req(Post("/E/Say"), <<1, 0, 0, 0, 1, 7>>),
    Req(Post("/E/Say"), <<>>),
    Req(Post("/E/None"), <<0, 0, 0, 0, 0>>),
    Req(<<H(":method", "GET"), H(":path", "/E/Say"), H("content-type", "text/html")>>, <<>>)}

MCResults == {
    [status |-> "Ok", trailers |-> <<H("x-cost", "1")>>, payload |-> <<5>>],
    [status |-> "Ok", trailers |-> <<H("Grpc-Status", "0")>>, payload |-> <<>>],
    [status |-> "Ok", trailers |-> <<>>, payload |-> <<5, 6, 7>>],
    [status |-> "Unknown", trailers |-> <<>>, payload |-> <<>>]}

MCKnown == {"/E/Say"}
=============================================================================
