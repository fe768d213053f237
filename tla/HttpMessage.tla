---------------------------- MODULE HttpMessage -----------------------------
(***************************************************************************)
(* Request targets and methods (src/http/request_impl.hpp, request_impl.cpp),*)
(* Response objects (src/http/response_impl.cpp) and the bytes that          *)
(* serialize_response makes of them (src/router/app_impl.cpp).               *)
(*                                                                           *)
(* A header name is <<word, spelling>>: two spellings of one word are        *)
(* different keys of a Response's header map and the same header on the      *)
(* wire.  A body is its length.                                              *)
(***************************************************************************)
EXTENDS Naturals, Sequences, SequencesExt, TLC

(* The target is split at its first '?'. *)
QueryAt(target) == {i \in DOMAIN target : target[i] = <<63>>}

path_view(target) ==
    IF QueryAt(target) = {} THEN target
    ELSE SubSeq(target, 1, (CHOOSE i \in QueryAt(target) : \A j \in QueryAt(target) : i <= j) - 1)

(* Method names the enumeration does not know become one value. *)
HttpMethod(name) ==
    IF name \in {"GET", "POST", "PUT", "PATCH", "DELETE", "HEAD", "OPTIONS"}
    THEN name ELSE "UNKNOWN"

-----------------------------------------------------------------------------
(* Response *)

ContentType   == <<"content-type", "Content-Type">>
ContentLength == <<"content-length", "Content-Length">>
Allow         == <<"allow", "Allow">>

Response(status, body, type) ==
    [status |-> status, body |-> body,
     headers |-> [name \in IF type = "" THEN {} ELSE {ContentType} |-> type]]

(* header() overwrites the entry with exactly this spelling of the name. *)
header(resp, name, value) ==
    [resp EXCEPT !.headers =
        [key \in DOMAIN @ \cup {name} |-> IF key = name THEN value ELSE @[key]]]
content_type(resp, type) == header(resp, ContentType, type)

Factory(name, body) ==
    LET text(status) == Response(status, body, "text/plain")
    IN  CASE name = "ok"                 -> text(200)
          [] name = "created"            -> text(201)
          [] name = "not_found"          -> text(404)
          [] name = "bad_request"        -> text(400)
          [] name = "unauthorized"       -> text(401)
          [] name = "forbidden"          -> text(403)
          [] name = "method_not_allowed" -> text(405)
          [] name = "json"               -> Response(200, body, "application/json")
          [] name = "stream"             -> Response(200, 0, "text/event-stream")

(* A Response that was moved from has no Impl: no status, body or headers. *)
MovedFrom == Response(0, 0, "")

-----------------------------------------------------------------------------
(* Serialisation *)

ascii_equal_ignore_case(lhs, rhs) == lhs[1] = rhs[1]

(* Mutant: the name is compared as it is spelled. *)
has_header_case_insensitive_Exact(headers, name) == name \in DOMAIN headers

has_header_case_insensitive(headers, name) ==
    \E key \in DOMAIN headers : ascii_equal_ignore_case(key, name)

(* The generated Content-Length, if the Response has none, and its own lines, *)
(* in the order of an unordered map.  A line says where it comes from: the    *)
(* same line twice is two lines.                                              *)
serialize_response(resp) ==
    LET generated == IF has_header_case_insensitive(resp.headers, ContentLength)
                     THEN {} ELSE {<<ContentLength, resp.body, "generated">>}
        own == {<<name, resp.headers[name], "own">> : name \in DOMAIN resp.headers}
    IN  [status |-> resp.status, lines |-> generated \cup own, body |-> resp.body]

(* The lines a client finds for a header, whatever its spelling. *)
Lines(message, name) == {line \in message.lines : line[1][1] = name[1]}
=============================================================================
