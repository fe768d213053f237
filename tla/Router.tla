------------------------------- MODULE Router -------------------------------
(***************************************************************************)
(* Routing and the middleware pipeline: registration of routes, groups and   *)
(* middleware before App::listen(), then the path of one request through     *)
(* dispatch_with_pipeline, Router::dispatch and the wrapped handler          *)
(* (src/router/router_impl.cpp, handler_wrap.hpp, app_impl.cpp).             *)
(*                                                                           *)
(* Data.  A path "/t1/t2" is the sequence of its tokens; "" is the empty     *)
(* token that "//" or a trailing '/' leaves.  A pattern is the sequence of   *)
(* the strings between its '/' characters, each a sequence of pieces: the    *)
(* marks below, names and literals.  parse_pattern makes segments            *)
(* [kind, text] of it; text is the literal of a static segment and the name  *)
(* of a parameter or wildcard.  A trie node is identified by the edges       *)
(* that lead to it: a literal, param_child or wildcard_child.  A captured     *)
(* value is a sequence of tokens.                                            *)
(***************************************************************************)
EXTENDS Naturals, Sequences, FiniteSets, SequencesExt, TLC

CONSTANTS Routes,      \* [method, pattern, sig]: what get(), post()... may be called with
          GroupPrefixes, \* prefixes group() may be called with
          Scopes,      \* path prefixes use(prefix, mw) may be called with, as tokens
          Asked,       \* bound: methods of the requests
          Paths,       \* request paths, as tokens
          Numbers,     \* tokens that std::from_chars reads to their end
          MaxSteps     \* bound: registrations before listen()

\* The edges to TrieNode::param_child and TrieNode::wildcard_child.
param_child    == "{}"
wildcard_child == "{...}"

kMethodNames == <<"GET", "POST", "PUT", "PATCH", "DELETE", "HEAD", "OPTIONS">>
HttpMethods  == ToSet(kMethodNames)

\* Tokens of paths and prefixes and pieces of patterns are strings, and none of
\* them is spelled like the edges that stand for param_child and wildcard_child.
Texts == STRING \ {param_child, wildcard_child}
RouterTypes ==
    /\ MaxSteps \in Nat
    /\ \A p \in Paths \cup Scopes : p \in Seq(Texts)
    /\ \A r \in Routes : r.method \in HttpMethods /\ r.pattern \in Seq(Seq(Texts)) /\ r.sig \in Seq(STRING)
    /\ \A p \in GroupPrefixes : p \in Seq(Seq(Texts))

ASSUME RouterAssumption == RouterTypes

\* The numbers of K up to n, in ascending order.
Ascending(n, K) ==
    LET upto[i \in 0..n] ==
            IF i = 0 THEN <<>> ELSE IF i \in K THEN Append(upto[i - 1], i) ELSE upto[i - 1]
    IN  upto[n]

-----------------------------------------------------------------------------
(* Patterns *)

Marks      == {"{", "}", ":", "..."}
ParamTypes == {"int", "uint", "float", "double", "string"}

(* "{name}", "{name:type}" and "{name...}" are braced. *)
Braced(tok)     == Len(tok) >= 2 /\ Head(tok) = "{" /\ Last(tok) = "}"
Inner(tok)      == SubSeq(tok, 2, Len(tok) - 1)
IsWildcard(tok) == Braced(tok) /\ Inner(tok) # <<>> /\ Last(Inner(tok)) = "..."
ParamName(tok)  == IF Inner(tok) # <<>> /\ Inner(tok)[1] \notin Marks THEN Inner(tok)[1] ELSE ""
TypeSuffix(tok) ==
    LET colon == SelectInSeq(Inner(tok), LAMBDA x : x = ":")
    IN  IF colon = 0 THEN <<>> ELSE SubSeq(Inner(tok), colon, Len(Inner(tok)))

(* A type suffix is checked here and read nowhere else. *)
WellFormed(tok) ==
    IF ~Braced(tok) THEN ToSet(tok) \cap {"{", "}"} = {}
    ELSE /\ ParamName(tok) # ""
         /\ \/ IsWildcard(tok) \/ TypeSuffix(tok) = <<>>
            \/ \E type \in ParamTypes : TypeSuffix(tok) = <<":", type>>

(* The tokens of a pattern: empty ones are skipped. *)
PatternTokens(pattern) ==
    LET keep == Ascending(Len(pattern), {i \in 2..Len(pattern) : pattern[i] # <<>>})
    IN  [i \in 1..Len(keep) |-> pattern[keep[i]]]

(* parse_pattern calls std::terminate on any other string. *)
IsPattern(pattern) ==
    /\ Head(pattern) = <<>> /\ Len(pattern) >= 2
    /\ LET toks == PatternTokens(pattern)
       IN  \A i \in 1..Len(toks) : WellFormed(toks[i]) /\ (IsWildcard(toks[i]) => i = Len(toks))

Segment(tok) ==
    IF IsWildcard(tok) THEN [kind |-> wildcard_child, text |-> ParamName(tok)]
    ELSE IF Braced(tok) THEN [kind |-> param_child, text |-> ParamName(tok)]
    ELSE [kind |-> "static", text |-> Head(tok)]

parse_pattern(pattern) ==
    LET toks == PatternTokens(pattern) IN [i \in 1..Len(toks) |-> Segment(toks[i])]

-----------------------------------------------------------------------------
VARIABLES
    trie,      \* nodes by position: name of the node and handler per method
    routers,   \* insert_root_ of the application's router and of its groups
    globals,   \* global_middlewares
    scoped,    \* scoped_middlewares
    history,   \* what was registered, in order: routes and group prefixes
    phase,     \* "register", "terminated", "idle", "down" the pipeline, "up" again
    request,   \* the request being served
    chain,     \* middleware still to be entered
    entered,   \* middleware that called next() and waits for the response
    response

routerVars == <<trie, routers, globals, scoped, history, phase, request, chain, entered, response>>

regVars == <<trie, routers, globals, scoped, history>>

NoResponse == [status |-> 0, route |-> 0, args |-> <<>>, allow |-> <<>>]
EmptyNode(name) == [name |-> name, handlers |-> <<>>]

RouterInit ==
    /\ trie = [p \in {<<>>} |-> EmptyNode("")]
    /\ routers = <<<<>>>>
    /\ globals = <<>> /\ scoped = <<>> /\ history = <<>>
    /\ phase = "register"
    /\ request = [path |-> <<>>, method |-> "none"]
    /\ chain = <<>> /\ entered = <<>> /\ response = NoResponse

-----------------------------------------------------------------------------
(* Registration. *)

Edge(seg)    == IF seg.kind = "static" THEN seg.text ELSE seg.kind
Edges(segs)  == [i \in 1..Len(segs) |-> Edge(segs[i])]

(* Mutant: only the last node of the pattern is created. *)
EnsureChildren_LastOnly(base, segs) ==
    [p \in DOMAIN trie \cup {base \o Edges(segs)} |->
        IF p \in DOMAIN trie THEN trie[p] ELSE EmptyNode(segs[Len(p) - Len(base)].text)]

(* ensure_child along segs: a child that exists keeps its name.              *)
EnsureChildren(base, segs) ==
    [p \in DOMAIN trie \cup {base \o Edges(SubSeq(segs, 1, k)) : k \in 1..Len(segs)} |->
        IF p \in DOMAIN trie THEN trie[p] ELSE EmptyNode(segs[Len(p) - Len(base)].text)]

(* extract_param_names: of the pattern given, not of the group's prefix.     *)
ExtractParamNames(segs) ==
    LET named == Ascending(Len(segs), {i \in 1..Len(segs) : segs[i].kind # "static"})
    IN  [i \in 1..Len(named) |-> segs[named[i]].text]

Registering == phase = "register" /\ Len(history) + Len(globals) + Len(scoped) < MaxSteps

(* std::terminate ends the process. *)
TerminateOn(pattern) ==
    /\ Registering /\ ~IsPattern(pattern)
    /\ phase' = "terminated"
    /\ UNCHANGED <<regVars, request, chain, entered, response>>

(* insert: a handler registered again for a method replaces the first. *)
Insert(base, segs, method, h) ==
    [EnsureChildren(base, segs) EXCEPT ![base \o Edges(segs)].handlers =
        [m \in DOMAIN @ \cup {method} |-> IF m = method THEN h ELSE @[m]]]

(* get, post, put, patch, del, options on the application or on a group.     *)
RegisterRoute(base, r) ==
    /\ Registering /\ IsPattern(r.pattern)
    /\ LET segs == parse_pattern(r.pattern)
           h    == [id |-> Len(history) + 1, sig |-> r.sig, names |-> ExtractParamNames(segs)]
       IN  /\ trie' = Insert(base, segs, r.method, h)
           /\ history' = Append(history, [base |-> base, pattern |-> segs,
                                          method |-> r.method, sig |-> r.sig])
    /\ UNCHANGED <<routers, globals, scoped, phase, request, chain, entered, response>>

Group(base, prefix) ==
    /\ Registering /\ IsPattern(prefix)
    /\ LET segs == parse_pattern(prefix)
       IN  /\ trie' = EnsureChildren(base, segs)
           /\ routers' = Append(routers, base \o Edges(segs))
           /\ history' = Append(history, [base |-> base, pattern |-> segs,
                                          method |-> "none", sig |-> <<>>])
    /\ UNCHANGED <<globals, scoped, phase, request, chain, entered, response>>

Use ==
    /\ Registering
    /\ globals' = Append(globals, <<"global", Len(globals) + 1>>)
    /\ UNCHANGED <<trie, routers, scoped, history, phase, request, chain, entered, response>>

UseScoped(prefix) ==
    /\ Registering
    /\ scoped' = Append(scoped, [prefix |-> prefix, mw |-> <<"scoped", Len(scoped) + 1>>])
    /\ UNCHANGED <<trie, routers, globals, history, phase, request, chain, entered, response>>

ListenRoutes ==
    /\ phase = "register"
    /\ phase' = "idle"
    /\ UNCHANGED <<regVars, request, chain, entered, response>>

-----------------------------------------------------------------------------
(* Router::dispatch. *)

Has(pos, edge) == Append(pos, edge) \in DOMAIN trie
Name(pos, edge) == trie[Append(pos, edge)].name

(* The indexes of the non-empty tokens: empty segments are skipped. *)
Segments(path) == Ascending(Len(path), {i \in 1..Len(path) : path[i] # ""})

(* Take edge to a child, capturing value under the child's name. *)
Capture(w, edge, value, state) ==
    [pos |-> Append(w.pos, edge), state |-> state,
     captured |-> Append(w.captured, [name |-> Name(w.pos, edge), value |-> value])]

(* Mutant: the parameter child is tried before the static children. *)
Descend_ParamFirst(w, path, k) ==
    IF w.state # "walking" THEN w
    ELSE IF Has(w.pos, param_child) THEN Capture(w, param_child, <<path[k]>>, "walking")
    ELSE IF Has(w.pos, path[k]) THEN [w EXCEPT !.pos = Append(@, path[k])]
    ELSE IF Has(w.pos, wildcard_child)
         THEN Capture(w, wildcard_child, SubSeq(path, k, Len(path)), "wildcard")
    ELSE [w EXCEPT !.state = "lost"]

(* Mutant: a wildcard captures one segment only. *)
Descend_OneSegment(w, path, k) ==
    IF w.state # "walking" THEN w
    ELSE IF Has(w.pos, path[k]) THEN [w EXCEPT !.pos = Append(@, path[k])]
    ELSE IF Has(w.pos, param_child) THEN Capture(w, param_child, <<path[k]>>, "walking")
    ELSE IF Has(w.pos, wildcard_child) THEN Capture(w, wildcard_child, <<path[k]>>, "wildcard")
    ELSE [w EXCEPT !.state = "lost"]

(* One round of the loop: static, then parameter, then wildcard, which takes *)
(* the rest of the path as it stands; nothing is tried again later.          *)
Descend(w, path, k) ==
    IF w.state # "walking" THEN w
    ELSE IF Has(w.pos, path[k]) THEN [w EXCEPT !.pos = Append(@, path[k])]
    ELSE IF Has(w.pos, param_child) THEN Capture(w, param_child, <<path[k]>>, "walking")
    ELSE IF Has(w.pos, wildcard_child)
         THEN Capture(w, wildcard_child, SubSeq(path, k, Len(path)), "wildcard")
    ELSE [w EXCEPT !.state = "lost"]

(* The node reached, after the empty capture of an unused wildcard child.    *)
Walk(path) ==
    LET segs == Segments(path)
        w[i \in 0..Len(segs)] ==
            IF i = 0 THEN [pos |-> <<>>, captured |-> <<>>, state |-> "walking"]
                     ELSE Descend(w[i - 1], path, segs[i])
        last == w[Len(segs)]
    IN  IF last.state = "walking" /\ Has(last.pos, wildcard_child)
        THEN Capture(last, wildcard_child, <<>>, "wildcard") ELSE last

(* Request::param<T>: the first value captured under a name counts (emplace).*)
Convertible(type, value) == type = "string" \/ (Len(value) = 1 /\ value[1] \in Numbers)

(* normalise_handler: each argument by the name its own pattern gave it; an  *)
(* argument that is missing or does not convert is a 400.                    *)
Invoke(h, captured) ==
    LET name(j)  == IF j <= Len(h.names) THEN h.names[j] ELSE ""
        under(j) == {i \in 1..Len(captured) : captured[i].name = name(j)}
        value(j) == captured[Min(under(j))].value
        found(j) == under(j) # {} /\ Convertible(h.sig[j], value(j))
    IN  IF \A j \in 1..Len(h.sig) : found(j)
        THEN [status |-> 200, route |-> h.id, allow |-> <<>>,
              args |-> [j \in 1..Len(h.sig) |-> value(j)]]
        ELSE [NoResponse EXCEPT !.status = 400, !.route = h.id]

(* The methods of the mask, in the order of the enumeration. *)
build_allow_header(method_mask) ==
    LET set == Ascending(Len(kMethodNames), {i \in 1..Len(kMethodNames) : kMethodNames[i] \in method_mask})
    IN  [i \in 1..Len(set) |-> kMethodNames[set[i]]]

Dispatch(path, method) ==
    LET w == Walk(path)
        handlers == trie[w.pos].handlers
    IN  IF method \notin HttpMethods THEN [NoResponse EXCEPT !.status = 400]
        ELSE IF w.state = "lost" \/ DOMAIN handlers = {} THEN [NoResponse EXCEPT !.status = 404]
        ELSE IF method \in DOMAIN handlers THEN Invoke(handlers[method], w.captured)
        ELSE [NoResponse EXCEPT !.status = 405, !.allow = build_allow_header(DOMAIN handlers)]

-----------------------------------------------------------------------------
(* The pipeline.  "prefix is a prefix of the path and the path ends there or *)
(* goes on with '/'" is a prefix of the token sequence.                      *)

Matching(path) ==
    LET upto[i \in 0..Len(scoped)] ==
            IF i = 0 THEN <<>>
            ELSE IF IsPrefix(scoped[i].prefix, path) THEN Append(upto[i - 1], scoped[i].mw)
            ELSE upto[i - 1]
    IN  upto[Len(scoped)]

(* Mutant: the global middleware is wrapped first. *)
Pipeline_ScopedFirst(path) == Matching(path) \o globals

(* dispatch_with_pipeline wraps the router in the matching scoped middleware *)
(* and that in the global ones, each in reverse order of registration.       *)
Pipeline(path) == globals \o Matching(path)

Receive(path, method) ==
    /\ phase = "idle"
    /\ phase' = "down"
    /\ request' = [path |-> path, method |-> method]
    /\ chain' = Pipeline(path)
    /\ UNCHANGED <<regVars, entered, response>>

(* A middleware calls next(), or answers itself. *)
RunMiddleware ==
    /\ phase = "down" /\ chain # <<>>
    /\ \/ /\ entered' = Append(entered, Head(chain))
          /\ chain' = Tail(chain)
          /\ UNCHANGED <<phase, response>>
       \/ /\ phase' = "up"
          /\ response' = [NoResponse EXCEPT !.status = 401]
          /\ chain' = <<>>
          /\ UNCHANGED entered
    /\ UNCHANGED <<regVars, request>>

RunRouter ==
    /\ phase = "down" /\ chain = <<>>
    /\ response' = Dispatch(request.path, request.method)
    /\ phase' = "up"
    /\ UNCHANGED <<regVars, request, chain, entered>>

(* The rest of a middleware after next() returned. *)
UnwindLayer ==
    /\ phase = "up" /\ entered # <<>>
    /\ entered' = Front(entered)
    /\ UNCHANGED <<regVars, phase, request, chain, response>>

Respond ==
    /\ phase = "up" /\ entered = <<>>
    /\ phase' = "idle"
    /\ request' = [path |-> <<>>, method |-> "none"]
    /\ response' = NoResponse
    /\ UNCHANGED <<regVars, chain, entered>>

RouterNext ==
    \/ \E i \in 1..Len(routers) :
          \/ \E r \in Routes : RegisterRoute(routers[i], r)
          \/ \E p \in GroupPrefixes : Group(routers[i], p)
    \/ \E p \in {r.pattern : r \in Routes} \cup GroupPrefixes : TerminateOn(p)
    \/ Use \/ \E p \in Scopes : UseScoped(p)
    \/ ListenRoutes
    \/ \E p \in Paths, m \in Asked : Receive(p, m)
    \/ RunMiddleware \/ RunRouter \/ UnwindLayer \/ Respond

RouterSpec == RouterInit /\ [][RouterNext]_routerVars

-----------------------------------------------------------------------------
(* Properties.  They are stated over history, never over the trie.           *)

Full(e)    == e.base \o Edges(e.pattern)
Entries    == 1..Len(history)
Positions  == {<<>>} \cup UNION {{SubSeq(Full(history[i]), 1, k) : k \in 1..Len(Full(history[i]))} :
                                 i \in Entries}
Tokens     == LET segs == Segments(request.path)
              IN  [i \in 1..Len(segs) |-> request.path[segs[i]]]
Routed     == phase = "up" /\ response.status # 401

(* Every variable has its type and the trie is a tree: every node but the    *)
(* root has its parent.                                                      *)
RouterTypeOK ==
    /\ \A p \in DOMAIN trie : p = <<>> \/ Front(p) \in DOMAIN trie
    /\ \A i \in 1..Len(routers) : routers[i] \in DOMAIN trie
    /\ \A p \in DOMAIN trie : \A m \in DOMAIN trie[p].handlers :
           m \in HttpMethods /\ trie[p].handlers[m].id \in 1..Len(history)
    /\ phase \in {"register", "terminated", "idle", "down", "up"}
    /\ response.status \in {0, 200, 400, 401, 404, 405} /\ ToSet(response.allow) \subseteq HttpMethods
    /\ response.route \in 0..Len(history)

(* The position dispatch must end at: each of its edges is the most specific *)
(* one that was registered there and accepts the path's token, and a         *)
(* wildcard below the last node takes the empty rest.                        *)
Ends(p) ==
    LET n       == Len(Tokens)
        At(i)   == SubSeq(p, 1, i - 1)
        Open(i) == {e \in {Tokens[i], param_child, wildcard_child} : Append(At(i), e) \in Positions}
        Best(i) == IF Tokens[i] \in Open(i) THEN Tokens[i]
                   ELSE IF param_child \in Open(i) THEN param_child ELSE wildcard_child
        tail    == p # <<>> /\ p[Len(p)] = wildcard_child
    IN  /\ Len(p) <= n + 1
        /\ \A i \in 1..Len(p) : (p[i] = wildcard_child) => (i = Len(p))
        /\ \A i \in 1..Len(p) : (i <= n) => (p[i] = Best(i))
        /\ Len(p) = n + 1 => tail
        /\ Len(p) < n => tail
        /\ Len(p) = n /\ ~tail => Append(p, wildcard_child) \notin Positions

(* Router::dispatch answers as the registrations say, in whatever order and  *)
(* through whatever groups they were made: the handler registered last for   *)
(* the method at the most specific position; 405 and the methods registered  *)
(* there when it has others; 404 otherwise; 400 for an unknown method.       *)
RoutesBySpecificity ==
    Routed =>
        LET ends    == {p \in Positions : Ends(p)}
            there   == {i \in Entries : history[i].method # "none" /\ Full(history[i]) \in ends}
            mine    == {i \in there : history[i].method = request.method}
        IN  /\ \A p, q \in ends : p = q
            /\ IF request.method \notin HttpMethods
               THEN response.status = 400 /\ response.route = 0
               ELSE IF mine # {}
               THEN response.status \in {200, 400} /\ response.route = Max(mine)
               ELSE IF there # {}
               THEN /\ response.status = 405 /\ IsInjective(response.allow)
                    /\ ToSet(response.allow) = {history[i].method : i \in there}
               ELSE response.status = 404

(* The trie is closed under prefixes, and dispatch through it is right. *)
RoutingSound == RouterTypeOK /\ RoutesBySpecificity

(* The names given to the parameter or wildcard at position p. *)
NamesAt(p) ==
    {history[i].pattern[Len(p) - Len(history[i].base)].text :
        i \in {j \in Entries : Len(p) > Len(history[j].base) /\ IsPrefix(p, Full(history[j]))}}

(* All registrations agree on the names along a route, and no two of its     *)
(* parameters share one.                                                     *)
NamesAgree(full) ==
    LET open == {k \in 1..Len(full) : full[k] \in {param_child, wildcard_child}}
    IN  /\ \A k \in open : \A x, y \in NamesAt(SubSeq(full, 1, k)) : x = y
        /\ \A k, l \in open : k # l => NamesAt(SubSeq(full, 1, k)) # NamesAt(SubSeq(full, 1, l))

(* When the names agree, a handler with typed parameters gets the parts of   *)
(* the path at the parameters of its own pattern, left to right (a wildcard: *)
(* the rest of the path as sent), and the answer is 400 exactly when one of  *)
(* them is missing from the pattern or does not convert.                     *)
ArgumentsMatchPattern ==
    (Routed /\ response.route # 0) =>
        LET e       == history[response.route]
            segs    == Segments(request.path)
            own     == Ascending(Len(Full(e)), {k \in (Len(e.base) + 1)..Len(Full(e)) :
                                                    Full(e)[k] \in {param_child, wildcard_child}})
            value(k) == IF Full(e)[k] = param_child THEN <<request.path[segs[k]]>>
                        ELSE IF k > Len(segs) THEN <<>>
                        ELSE SubSeq(request.path, segs[k], Len(request.path))
            fits    == /\ Len(e.sig) <= Len(own)
                       /\ \A j \in 1..Len(e.sig) : Convertible(e.sig[j], value(own[j]))
        IN  NamesAgree(Full(e)) =>
                /\ (response.status = 200) <=> fits
                /\ fits => response.args = [j \in 1..Len(e.sig) |-> value(own[j])]

(* When the request reaches the router, exactly the global middleware and    *)
(* the scoped middleware covering the path have been entered: global before  *)
(* scoped, each in the order of registration.                                *)
PipelineOrder ==
    (phase = "down" /\ chain = <<>>) =>
        LET covers(q) == q = SubSeq(request.path, 1, Len(q))
        IN  /\ ToSet(entered) =
                   ToSet(globals) \cup {scoped[i].mw : i \in {j \in 1..Len(scoped) :
                       Len(scoped[j].prefix) <= Len(request.path) /\ covers(scoped[j].prefix)}}
            /\ \A i, j \in 1..Len(entered) : i < j =>
                   \/ entered[i][1] = "global" /\ entered[j][1] = "scoped"
                   \/ entered[i][1] = entered[j][1] /\ entered[i][2] < entered[j][2]
=============================================================================
