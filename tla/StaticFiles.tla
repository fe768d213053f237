---------------------------- MODULE StaticFiles -----------------------------
(***************************************************************************)
(* The static-file middleware (src/http/static_files.cpp): validation of the *)
(* configuration, prefix matching, percent-decoding, resolution of the path  *)
(* below the root, and the response.                                         *)
(*                                                                           *)
(* A string is a sequence of characters <<code>> and, before decoding, of     *)
(* escapes <<high, low>> of hex digits (a digit above 15 stands for a         *)
(* character that is none, or for the end of the string).  A MIME type is a    *)
(* sequence of texts and "control" characters.  The file system               *)
(* is external: a node per path; it may change between any two system calls   *)
(* of one request, except that symbolic links stay as they are.               *)
(***************************************************************************)
EXTENDS HttpMessage

CONSTANTS Root,      \* canonical_root: a sequence of file names
          Paths,     \* bound: paths that exist or may come to exist
          Trees,     \* bound: the file systems a request may meet first
          Configs,   \* what the application passes to static_files()
          Requests,  \* method and path of the requests
          Handled,   \* responses of the application's handler
          Nodes,     \* bound: what a path may change to during a request
          MaxChanges \* bound: changes during a request

Text == Seq(Seq(Nat))

\* No link of tree lies on the way to p.
Canonical(tree, p) ==
    /\ p \in Seq(Text)
    /\ \A n \in 1..Len(p) : SubSeq(p, 1, n) \in Paths => tree[SubSeq(p, 1, n)].kind # "link"

\* Names are texts; a link gives the canonical path it resolves to, and links
\* are neither made nor removed while a request is served.  "/" is no file.  A
\* handler that sets Content-Length sets it in one spelling, to the length of
\* its body.
StaticTypes ==
    /\ MaxChanges \in Nat /\ Root \in Paths
    /\ \A p \in Paths : p \in Seq(Text)
    /\ \A r \in Requests : r.target \in Text
    /\ \A c \in Configs : c.url_prefix \in Text /\ c.index_file \in Text
    /\ \A n \in Nodes : n.kind # "link"
    /\ \A t \in Trees : /\ t = [p \in Paths |-> t[p]]
                        /\ \A p \in Paths : t[p].kind = "link" => Canonical(t, t[p].to)
                        /\ <<>> \in Paths => t[<<>>].kind # "file"
    /\ \A r \in Handled : \A x, y \in DOMAIN r.headers :
           x[1] = ContentLength[1] /\ y[1] = ContentLength[1] => x = y /\ r.headers[x] = r.body

ASSUME StaticFilesAssumption == StaticTypes

Slash     == <<47>>
Dot       == <<46>>
Colon     == <<58>>
Backslash == <<92>>

is_ascii_control(ch) == Len(ch) = 1 /\ (ch[1] < 32 \/ ch[1] = 127)

VARIABLES
    step,      \* next system call of the request, or "done"
    config,    \* the application's configuration
    request,
    fs,        \* the file system
    path,      \* resolved path
    size,      \* result of file_size
    response,  \* the Response of the middleware or of the handler after it
    wire,      \* the serialised response
    passed,    \* next(req) was called
    changes    \* changes of the file system so far

staticVars == <<step, config, request, fs, path, size, response, wire, passed, changes>>

-----------------------------------------------------------------------------
(* Validation of the configuration *)

Segments(p) ==   \* the strings between the '/' characters
    LET upto[i \in 0..Len(p)] ==
            IF i = 0 THEN <<<<>>>>
            ELSE IF p[i] = Slash THEN Append(upto[i - 1], <<>>)
            ELSE [upto[i - 1] EXCEPT ![Len(upto[i - 1])] = Append(@, p[i])]
    IN  upto[Len(p)]

is_dot_segment(s)        == s = <<Dot>> \/ s = <<Dot, Dot>>
has_path_dot_segment(p)  == \E i \in DOMAIN Segments(p) : is_dot_segment(Segments(p)[i])
has_invalid_url_path_char(p) ==
    \E i \in DOMAIN p : p[i] \in {<<63>>, <<35>>, Backslash} \/ is_ascii_control(p[i])

is_valid_url_prefix(p) ==
    /\ p # <<>> /\ p[1] = Slash
    /\ ~has_invalid_url_path_char(p) /\ ~has_path_dot_segment(p)

(* Mutant: the prefix is used as configured. *)
normalize_url_prefix_None(p) == p

(* Trailing slashes go, except for the prefix "/". *)
normalize_url_prefix(p) ==
    LET keep == {n \in 1..Len(p) : n = 1 \/ p[n] # Slash}
    IN  SubSeq(p, 1, CHOOSE n \in keep : \A m \in keep : m <= n)

is_valid_index_file(f) ==
    /\ ~is_dot_segment(f)
    /\ \A i \in DOMAIN f : f[i] \notin {Slash, Backslash, Colon} /\ ~is_ascii_control(f[i])

is_valid_mime_key(key) ==
    /\ Len(key) >= 2 /\ key[1] = Dot
    /\ \A i \in DOMAIN key : key[i][1] \in (97..122) \cup (48..57) \cup {46, 43, 45}

is_valid_mime_value(value) == value # <<>> /\ "control" \notin ToSet(value)

(* The first test that fails.  c.root says what the configured root is.         *)
make_state_error(c) ==
    IF c.root = "empty" THEN "RootEmpty"
    ELSE IF c.root = "relative" THEN "RootRelative"
    ELSE IF c.root = "missing" THEN "RootNotFound"
    ELSE IF c.root # "directory" THEN "RootNotDirectory"
    ELSE IF ~is_valid_url_prefix(c.url_prefix) THEN "InvalidUrlPrefix"
    ELSE IF ~is_valid_index_file(c.index_file) THEN "InvalidIndexFile"
    ELSE IF \E key \in DOMAIN c.mime_overrides :
                ~is_valid_mime_key(key) \/ ~is_valid_mime_value(c.mime_overrides[key])
    THEN "InvalidMimeOverride" ELSE "none"

make_state(c) ==
    [url_prefix |-> normalize_url_prefix(c.url_prefix), index_file |-> c.index_file,
     mime_overrides |-> c.mime_overrides]

state == make_state(config)

-----------------------------------------------------------------------------
(* From the request path to a candidate below the root *)

prefix_matches(p, prefix) ==
    IF prefix = <<Slash>> THEN p # <<>> /\ p[1] = Slash
    ELSE IsPrefix(prefix, p) /\ (Len(p) > Len(prefix) => p[Len(prefix) + 1] = Slash)

strip_prefix(p, prefix) ==
    IF prefix = <<Slash>> THEN p
    ELSE IF Len(p) = Len(prefix) THEN <<Slash>> ELSE SubSeq(p, Len(prefix) + 1, Len(p))

Escape(t)    == Len(t) = 2
BadEscape(t) == Escape(t) /\ (t[1] > 15 \/ t[2] > 15)
Decoded(t)   == IF Escape(t) THEN <<t[1] * 16 + t[2]>> ELSE t

percent_decodable(p) ==
    \A i \in DOMAIN p :
        /\ ~BadEscape(p[i])
        /\ Decoded(p[i]) \notin {Backslash, Colon} /\ ~is_ascii_control(Decoded(p[i]))

percent_decode_path(p) == [i \in DOMAIN p |-> Decoded(p[i])]

split_validated_segments(p) ==
    LET segs == Segments(p)
        upto[i \in 0..Len(segs)] ==
            IF i = 0 THEN <<>>
            ELSE IF segs[i] = <<>> THEN upto[i - 1] ELSE Append(upto[i - 1], segs[i])
    IN  upto[Len(segs)]

is_within_root(p) == IsPrefix(Root, p)

-----------------------------------------------------------------------------
(* The file system, external *)

None == [kind |-> "none", to |-> <<>>, size |-> 0, denied |-> FALSE]
Node(p) == IF p \in Paths THEN fs[p] ELSE None

(* Links in the existing part of the path are followed, the rest is kept. *)
follow(q) == IF Node(q).kind = "link" THEN Node(q).to ELSE q

weakly_canonical(p) ==
    LET upto[i \in 0..Len(p)] == IF i = 0 THEN <<>> ELSE follow(Append(upto[i - 1], p[i]))
    IN  upto[Len(p)]

(* A directory that may not be searched hides what is below it from stat(); a  *)
(* file that may not be read fails when it is opened.                          *)
stat_denied(p) == \E n \in 1..(Len(p) - 1) : Node(SubSeq(p, 1, n)).denied
open_denied(p) == stat_denied(p) \/ Node(p).denied

(* Another process replaces, truncates, removes or protects a file; before the *)
(* first system call that is a choice of the tree, after the last it is unseen. *)
FsChange(p, node) ==
    /\ step \notin {"match", "write", "done"} /\ changes < MaxChanges
    /\ changes' = changes + 1
    /\ fs[p].kind # "link" /\ node # fs[p] /\ p # <<>>
    /\ fs' = [fs EXCEPT ![p] = node]
    /\ UNCHANGED <<step, config, request, path, size, response, wire, passed>>

-----------------------------------------------------------------------------
(* The middleware *)

StaticInit ==
    /\ config \in Configs /\ request \in Requests /\ fs \in Trees
    /\ step = "match" /\ path = <<>> /\ size = 0
    /\ response = MovedFrom /\ wire = serialize_response(MovedFrom)
    /\ passed = FALSE /\ changes = 0

Finish(r) ==
    /\ step' = "write" /\ response' = r
    /\ UNCHANGED <<config, request, fs, path, size, wire, passed, changes>>
Goto(l) == step' = l /\ UNCHANGED <<config, request, fs, response, wire, passed, changes>>

request_path   == path_view(request.target)
request_method == HttpMethod(request.method)

(* A request that is not below the prefix goes to the next handler, and so do  *)
(* all when static_files() refused the configuration.                          *)
Pass(r) ==
    /\ step = "match"
    /\ \/ make_state_error(config) # "none"
       \/ ~prefix_matches(request_path, state.url_prefix)
    /\ step' = "write" /\ response' = r /\ passed' = TRUE
    /\ UNCHANGED <<config, request, fs, path, size, wire, changes>>

Match ==
    /\ step = "match"
    /\ make_state_error(config) = "none"
    /\ prefix_matches(request_path, state.url_prefix)
    /\ IF request_method \notin {"GET", "HEAD"}
       THEN Finish(header(Factory("method_not_allowed", 0), Allow, "GET, HEAD"))
       ELSE Goto("resolve") /\ UNCHANGED <<path, size>>

response_for_resolution_error(error) ==
    IF error = "Forbidden" THEN Factory("forbidden", 0) ELSE Factory("not_found", 0)
Refuse(error) == Finish(response_for_resolution_error(error))

request_segments ==
    split_validated_segments(
        percent_decode_path(strip_prefix(request_path, state.url_prefix)))

(* Mutant: the index file of a directory is taken without looking again. *)
resolve_candidate_Trust(candidate, next) ==
    IF stat_denied(candidate) THEN Refuse("NotFound")
    ELSE IF next = "is_directory" /\ ~is_within_root(weakly_canonical(candidate))
    THEN Refuse("Forbidden")
    ELSE /\ path' = weakly_canonical(candidate)
         /\ Goto(next) /\ UNCHANGED size

(* Not found when the path cannot be read, forbidden outside the root. *)
resolve_candidate(candidate, next) ==
    IF stat_denied(candidate) THEN Refuse("NotFound")
    ELSE IF ~is_within_root(weakly_canonical(candidate)) THEN Refuse("Forbidden")
    ELSE /\ path' = weakly_canonical(candidate)
         /\ Goto(next) /\ UNCHANGED size

Resolve ==
    /\ step = "resolve"
    /\ IF \/ ~percent_decodable(strip_prefix(request_path, state.url_prefix))
          \/ \E i \in DOMAIN request_segments : is_dot_segment(request_segments[i])
       THEN Refuse("Forbidden")
       ELSE resolve_candidate(Root \o request_segments, "is_directory")

(* is_directory: a directory is served through its index file, if there is one. *)
IsDirectory ==
    /\ step = "is_directory"
    /\ IF stat_denied(path) \/ Node(path).kind # "dir"
       THEN Goto("is_regular_file") /\ UNCHANGED <<path, size>>
       ELSE IF state.index_file = <<>> THEN Refuse("NotFound")
       ELSE resolve_candidate(Append(path, state.index_file), "is_regular_file")

IsRegularFile ==
    /\ step = "is_regular_file"
    /\ IF stat_denied(path) THEN Refuse("Forbidden")
       ELSE IF Node(path).kind # "file" THEN Refuse("NotFound")
       ELSE Goto("file_size") /\ UNCHANGED <<path, size>>

lowercase_ascii(text) ==
    [i \in DOMAIN text |-> IF text[i][1] \in 65..90 THEN <<text[i][1] + 32>> ELSE text[i]]

(* From the last dot of the file name, unless the name begins with it. *)
extension(name) ==
    LET dots == {i \in 2..Len(name) : name[i] = Dot}
    IN  IF dots = {} THEN <<>>
        ELSE SubSeq(name, CHOOSE i \in dots : \A j \in dots : j <= i, Len(name))

(* .html .htm, .css, .js .mjs, .json, .png, .jpg .jpeg, .gif, .svg, .ico, .woff2, .txt, .pdf *)
kDefaults ==
    {<<"text/html", <<104, 116, 109, 108>>>>,         <<"text/html", <<104, 116, 109>>>>,
     <<"text/css", <<99, 115, 115>>>>,
     <<"application/javascript", <<106, 115>>>>,      <<"application/javascript", <<109, 106, 115>>>>,
     <<"application/json", <<106, 115, 111, 110>>>>,  <<"image/png", <<112, 110, 103>>>>,
     <<"image/jpeg", <<106, 112, 103>>>>,             <<"image/jpeg", <<106, 112, 101, 103>>>>,
     <<"image/gif", <<103, 105, 102>>>>,              <<"image/svg+xml", <<115, 118, 103>>>>,
     <<"image/x-icon", <<105, 99, 111>>>>,            <<"font/woff2", <<119, 111, 102, 102, 50>>>>,
     <<"text/plain", <<116, 120, 116>>>>,             <<"application/pdf", <<112, 100, 102>>>>}

default_mime_type(ext) ==
    LET entries == {e \in kDefaults : ext = <<Dot>> \o [i \in DOMAIN e[2] |-> <<e[2][i]>>]}
    IN  IF entries = {} THEN "application/octet-stream" ELSE (CHOOSE e \in entries : TRUE)[1]

(* Mutant: the extension is looked up as it is spelled. *)
mime_type_for_Exact(p) ==
    LET ext == extension(Last(p))
    IN  IF ext \in DOMAIN state.mime_overrides THEN state.mime_overrides[ext]
        ELSE <<default_mime_type(ext)>>

(* The application's overrides come before the table. *)
mime_type_for(p) ==
    LET ext == lowercase_ascii(extension(Last(p)))
    IN  IF ext \in DOMAIN state.mime_overrides THEN state.mime_overrides[ext]
        ELSE <<default_mime_type(ext)>>

FileResponse(body, length) ==
    header(content_type(Factory("ok", body), mime_type_for(path)), ContentLength, length)

ReadFileSize ==
    /\ step = "file_size"
    /\ IF stat_denied(path) THEN Refuse("Forbidden")
       ELSE IF Node(path).kind # "file" THEN Refuse("NotFound")
       ELSE IF request_method = "HEAD"
       THEN Finish(FileResponse(0, Node(path).size))
       ELSE size' = Node(path).size /\ Goto("body") /\ UNCHANGED path

(* Mutant: what could be read is sent, whatever the size said. *)
ReadFileBody_Short ==
    /\ step = "body"
    /\ IF open_denied(path) \/ Node(path).kind # "file"
       THEN Refuse("NotFound")
       ELSE Finish(FileResponse(Node(path).size, size))

(* A file that cannot be opened or has become shorter is not found; one that   *)
(* has become longer is cut at the size read before.                           *)
ReadFileBody ==
    /\ step = "body"
    /\ IF open_denied(path) \/ Node(path).kind # "file" \/ Node(path).size < size
       THEN Refuse("NotFound")
       ELSE Finish(FileResponse(size, size))

(* The connection handler serialises the response and writes it. *)
WriteResponse ==
    /\ step = "write"
    /\ wire' = serialize_response(response)
    /\ step' = "done"
    /\ UNCHANGED <<config, request, fs, path, size, response, passed, changes>>

StaticNext ==
    \/ \E r \in Handled : Pass(r)
    \/ Match \/ Resolve \/ IsDirectory \/ IsRegularFile \/ ReadFileSize \/ ReadFileBody
    \/ WriteResponse
    \/ \E p \in Paths, node \in Nodes : FsChange(p, node)

StaticSpec == StaticInit /\ [][StaticNext]_staticVars

-----------------------------------------------------------------------------
FileServed == ~passed /\ wire.status = 200

(* Whatever the spelling of the request path (escapes, double slashes, dot    *)
(* segments) and however the files change meanwhile, a file that is served    *)
(* lies below the root and is reached without leaving it through a link.      *)
ServesRootOnly ==
    FileServed => IsPrefix(Root, path) /\ weakly_canonical(path) = path

(* A key with one dot, its first character, that is a proper suffix of the     *)
(* name, whatever its case.                                                    *)
Overrides(key, name) ==
    /\ Len(key) \in 1..(Len(name) - 1)
    /\ \A i \in 1..Len(key) : key[i] = Dot <=> i = 1
    /\ key = SubSeq(lowercase_ascii(name), Len(name) - Len(key) + 1, Len(name))

(* Every response on the wire carries one Content-Length, also when the        *)
(* handler spelled its own differently, and for anything but a file asked for  *)
(* with HEAD it is the length of the body that follows, also when the file     *)
(* grows or shrinks between file_size and read.  A served file has one         *)
(* Content-Type: when its name, in whatever case, ends with an extension the   *)
(* application overrides, the one it asked for.                                *)
MessageFramed ==
    step = "done" =>
        /\ \E line \in wire.lines :
               /\ Lines(wire, ContentLength) = {line}
               /\ (FileServed /\ request_method = "HEAD") \/ line[2] = wire.body
        /\ FileServed =>
               \E line \in wire.lines :
                   /\ Lines(wire, ContentType) = {line}
                   /\ \A key \in DOMAIN config.mime_overrides :
                          Overrides(key, Last(path)) => line[2] = config.mime_overrides[key]

(* The segments of the configured prefix, without the slashes at its end. *)
Mount ==
    LET segs == Segments(config.url_prefix)
    IN  SubSeq(segs, 1, Max({n \in 1..Len(segs) : n = 1 \/ segs[n] # <<>>}))

(* The middleware answers exactly the paths at or below the directory the     *)
(* application configured, compared segment by segment as they are spelled    *)
(* (a doubled slash is an empty segment), with or without slashes at the end  *)
(* of the prefix and whatever the query.                                      *)
HandlesItsPrefix ==
    step = "done" /\ make_state_error(config) = "none" =>
        (~passed <=> request_path # <<>> /\ IsPrefix(Mount, Segments(request_path)))
=============================================================================
