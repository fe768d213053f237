------------------------- MODULE ExecutorLifecycle --------------------------
(***************************************************************************)
(* What an executor promises to those who own one (App::listen, the gRPC     *)
(* plugin): five states, left in one direction only; I/O threads at work     *)
(* only while it runs or drains; and a run() that has served returns only    *)
(* after a stop() and when the last thread is done.                          *)
(***************************************************************************)
VARIABLES state,   \* Idle, Configured, Running, Draining, Stopped
          active   \* some I/O thread is at work

lifecycle == <<state, active>>

Init == state = "Idle" /\ active = FALSE

Listen == state = "Idle" /\ state' = "Configured" /\ UNCHANGED active

Run == state \in {"Idle", "Configured"} /\ state' = "Running" /\ UNCHANGED active

(* Also late, when stop() was faster than run(). *)
Begin == state \in {"Running", "Draining"} /\ active' = TRUE /\ UNCHANGED state

Stop ==
    /\ \/ state = "Running" /\ state' = "Draining"
       \/ state = "Configured" /\ state' = "Stopped"
    /\ UNCHANGED active

End == state = "Draining" /\ active' = FALSE /\ UNCHANGED state

Return == state = "Draining" /\ ~active /\ state' = "Stopped" /\ UNCHANGED active

Next == Listen \/ Run \/ Begin \/ Stop \/ End \/ Return

Spec == Init /\ [][Next]_lifecycle
=============================================================================
