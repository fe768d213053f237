------------------------------ MODULE MCRouter ------------------------------
(* The instance of Router that TLC checks. *)
EXTENDS Router

A           == <<"a">>
B           == <<"b">>
X           == <<"{", "x", "}">>
Y           == <<"{", "y", ":", "int", "}">>
Rest        == <<"{", "rest", "...", "}">>
At(tokens)  == <<<<>>>> \o tokens

Route(m, tokens, sig) == [method |-> m, pattern |-> At(tokens), sig |-> sig]

(* Literals, parameters with and without a type, wildcards, a doubled and a   *)
(* trailing slash.                                                            *)
WellFormedRoutes ==
    {Route("GET", p, <<>>) : p \in {<<<<>>>>, <<A>>, <<A, <<>>, B>>, <<Rest>>, <<A, Rest>>}}
    \cup {Route("GET", <<p>>, <<"number">>) : p \in {X, Y}}
    \cup {Route("GET", <<X, Y>>, <<"string", "number">>),
          Route("GET", <<X, B, <<>>>>, <<"string", "string">>),
          Route("GET", <<X, Rest>>, <<"number", "string">>),
          Route("POST", <<A>>, <<>>), Route("POST", <<X>>, <<"string">>),
          Route("POST", <<A, Rest>>, <<"number">>)}

(* "", "a", "/{", "/a}", "/{}", "/{...}", "/{:int}", "/{x:}", "/{x:bool}" and   *)
(* "/{rest...}/a".                                                            *)
Malformed ==
    {<<<<>>>>, <<A>>} \cup
    {At(<<t>>) : t \in {<<"{">>, <<"a", "}">>, <<"{", "}">>, <<"{", "...", "}">>,
                       <<"{", ":", "int", "}">>, <<"{", "x", ":", "}">>,
                       <<"{", "x", ":", "bool", "}">>}}
    \cup {At(<<Rest, A>>)}

MCRoutes == WellFormedRoutes \cup {[method |-> "GET", pattern |-> p, sig |-> <<>>] : p \in Malformed}

MCPrefixes == {At(<<A>>), At(<<X, <<>>>>), At(<<Rest>>)}
MCScopes   == {<<"a">>, <<"a", "b">>, <<"">>}

MCPaths == {<<"">>, <<"a">>, <<"b">>, <<"7">>, <<"a", "b">>, <<"a", "7">>, <<"7", "b">>,
            <<"", "a">>, <<"a", "">>, <<"a", "", "b">>, <<"7", "7", "a">>, <<"a", "b", "7">>}
=============================================================================
