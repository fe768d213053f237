------------------------------ MODULE MCWhenAll ------------------------------
(* WhenAll with sub-tasks that return, throw, sleep and use the CPU pool.    *)
EXTENDS WhenAll

B(awaits, ends) == [awaits |-> awaits, ends |-> ends]

MCBodies == { B(<<>>, "return"), B(<<>>, "throw"), B(<<"pool">>, "return"),
              B(<<"pool_throws">>, "return"), B(<<"sleep", "pool">>, "throw") }
=============================================================================
