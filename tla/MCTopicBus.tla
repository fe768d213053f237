----------------------------- MODULE MCTopicBus -----------------------------
(* TopicBus for TLC: threads, sessions and topics are interchangeable. *)
EXTENDS TopicBus, TLC

BusSymmetry == Permutations(Threads) \cup Permutations(Subs) \cup Permutations(Topics)
=============================================================================
