------------------------------- MODULE LogPipe -------------------------------
(***************************************************************************)
(* What the asynchronous logger promises: a bounded first-in first-out pipe *)
(* from log::write to the destination.  A record that was accepted comes    *)
(* out once, in the order of acceptance, or is given up when it is its turn *)
(* (the stream failed, or formatting threw); nothing else comes out.        *)
(***************************************************************************)
EXTENDS Naturals, Sequences

CONSTANTS Records,   \* what can be logged
          Bound      \* how many accepted records can be on their way

VARIABLES pending,   \* accepted, not yet out
          out        \* what came out

pipe == <<pending, out>>

Init == pending = <<>> /\ out = <<>>

Accept(r) ==
    /\ Len(pending) < Bound
    /\ pending' = Append(pending, r)
    /\ UNCHANGED out

Emit ==
    /\ pending # <<>>
    /\ out' = Append(out, Head(pending))
    /\ pending' = Tail(pending)

GiveUp ==
    /\ pending # <<>>
    /\ pending' = Tail(pending)
    /\ UNCHANGED out

Next == (\E r \in Records : Accept(r)) \/ Emit \/ GiveUp

Spec == Init /\ [][Next]_pipe
=============================================================================
