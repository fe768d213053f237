--------------------------- MODULE MCStaticFiles ----------------------------
(* A root with a file, a directory with an index file and a link that leaves  *)
(* the root; request paths of up to three pieces below the prefix.            *)
EXTENDS StaticFiles

a == <<<<97>>>>
b == <<<<98>>>>
l == <<<<108>>>>
R == <<<<114>>>>
O == <<<<111>>>>
Chars(codes) == [i \in DOMAIN codes |-> <<codes[i]>>]
JS  == Chars(<<46, 106, 115>>)        \* ".js"
js  == Chars(<<98, 46, 74, 83>>)      \* "b.JS"

MCRoot  == <<R>>
MCPaths == {<<R>>, <<R, a>>, <<R, a, b>>, <<R, l>>, <<R, js>>, <<O>>, <<O, b>>}

Dir   == [None EXCEPT !.kind = "dir"]
File(n) == [None EXCEPT !.kind = "file", !.size = n]
Link(p) == [None EXCEPT !.kind = "link", !.to = p]

Tree(ab, target) ==
    (<<R>> :> Dir) @@ (<<R, a>> :> Dir) @@ (<<R, a, b>> :> ab)
    @@ (<<R, l>> :> Link(target)) @@ (<<R, js>> :> File(1)) @@ (<<O>> :> Dir) @@ (<<O, b>> :> File(1))

MCTrees == {Tree(File(2), <<O>>), Tree(Link(<<O, b>>), <<R, a>>), Tree(None, <<O, b>>)}
MCNodes == {None, Dir, File(1), File(3), [File(2) EXCEPT !.denied = TRUE],
            [Dir EXCEPT !.denied = TRUE]}

Config(root, prefix, index, mime) ==
    [root |-> root, url_prefix |-> Chars(prefix), index_file |-> index,
     mime_overrides |-> mime]

MCConfigs == {
    Config("directory", <<47>>, b, JS :> <<"text/x">>),
    Config("directory", <<47>>, js, <<>>),
    Config("directory", <<47, 115>>, b, <<>>),
    Config("directory", <<47, 115, 47, 47>>, <<>>, <<>>),
    Config("directory", <<47, 47, 115>>, b, <<>>),
    Config("directory", <<47, 46, 46>>, b, <<>>),
    Config("directory", <<47, 115>>, Chars(<<46, 46>>), <<>>),
    Config("directory", <<47, 115>>, b, Chars(<<46, 74>>) :> <<"text/x">>),
    Config("directory", <<47, 115>>, b, JS :> <<"text", "control">>),
    Config("file", <<47, 115>>, b, <<>>)}

(* '/', 'a', 'b', 'l', '.', 's', "%2F", "%2E", "%5C" and "%2" at the end *)
Pieces == {<<47>>, <<97>>, <<98>>, <<108>>, <<46>>, <<115>>,
           <<2, 15>>, <<2, 14>>, <<5, 12>>, <<2, 99>>}
Long   == {Chars(<<97, 47, 98>>), Chars(<<108, 47, 98>>), Chars(<<97, 47, 47, 98>>), js,
           <<<<97>>, <<2, 15>>, <<98>>>>, <<<<46>>, <<2, 14>>, <<47>>, <<97>>>>}
Prefix == Chars(<<47, 115>>)

MCRequests ==
    [method : {"GET", "HEAD", "POST", "PURGE"},
     target : {<<Slash>> \o p : p \in {<<>>} \cup {<<x>> : x \in Pieces} \cup Long}
            \cup {Prefix \o <<Slash>> \o p : p \in Long} \cup {<<Slash>> \o Prefix \o <<Slash>> \o a}
            \cup {Prefix \o <<x, y>> : x \in {Slash, <<97>>, <<2, 15>>},
                                       y \in {<<97>>, <<108>>, <<46>>}}
            \cup {<<Slash>> \o Chars(<<97, 63, 47, 63>>), Prefix \o Chars(<<63, 47>>)}]

(* A handler that answers with some factory, one that sets its own             *)
(* Content-Length in lower case, and one that returns a moved-from Response.   *)
MCHandled ==
    {Factory(f, 2) : f \in {"ok", "created", "not_found", "bad_request", "unauthorized",
                            "forbidden", "method_not_allowed", "json", "stream"}}
    \cup {header(Factory("ok", 2), <<"content-length", "content-length">>, 2), MovedFrom}
=============================================================================
