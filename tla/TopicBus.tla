------------------------------ MODULE TopicBus ------------------------------
(***************************************************************************)
(* The publish/subscribe registry (src/net/topic_bus.cpp) and the lifetime   *)
(* of the sessions registered in it.                                         *)
(*                                                                           *)
(* topics_ holds weak pointers.  A session lives while somebody owns it: the *)
(* connection (App), a thread inside subscribe() or publish() on behalf of   *)
(* the session ("call"), a thread that locked a weak pointer for a           *)
(* comparison ("tmp"), or one that has it in live_subs ("live").             *)
(* Whoever gives up the last reference runs ~WebSocketSession, and that      *)
(* calls unsubscribe(), which takes mutex_.                                  *)
(***************************************************************************)
EXTENDS Naturals, Sequences, FiniteSets

CONSTANTS Threads,  \* I/O threads
          Subs,     \* sessions
          Topics,   \* topic names
          MaxOps    \* bound: operations of one thread

ASSUME BusAssumption == IsFiniteSet(Threads) /\ MaxOps \in Nat

VARIABLES
    topics,     \* topics_: per topic the vector of (weak pointers to) sessions
    refs,       \* per session: who owns it
    destroyed,  \* sessions whose destructor has finished
    writer,     \* mutex_ held exclusively: {} or {thread}
    readers,    \* mutex_ held shared: threads
    pc,         \* per thread
    ret,        \* per thread: where it goes on after a destructor
    me,         \* per thread: the session it acts for, or {} ; a set of one
    dying,      \* per thread: the session it destroys, likewise
    topic,      \* per thread: argument of subscribe and publish
    todo,       \* per thread: entries <<topic, index>> still to visit
    gone,       \* per thread: entries to erase, or expired ones seen by publish
    cur,        \* per thread: the session whose weak pointer it has locked
    live,       \* per thread: live_subs
    unsent,     \* per thread: live_subs not yet delivered to
    ops         \* per thread: operations started

vars == <<topics, refs, destroyed, writer, readers, pc, ret, me, dying, topic, todo, gone,
          cur, live, unsent, ops>>

locks == <<writer, readers>>
args  == <<me, topic, ops>>
pubs  == <<live, unsent>>
scan  == <<todo, gone, cur>>

App    == <<"app", "own">>
Owners == {App} \cup (Threads \X {"call", "tmp", "live"})

Init ==
    /\ topics = [t \in Topics |-> <<>>]
    /\ refs = [s \in Subs |-> {App}]
    /\ destroyed = {}
    /\ writer = {} /\ readers = {}
    /\ pc = [h \in Threads |-> "idle"] /\ ret = [h \in Threads |-> "idle"]
    /\ me = [h \in Threads |-> {}] /\ dying = [h \in Threads |-> {}]
    /\ topic \in [Threads -> Topics]
    /\ todo = [h \in Threads |-> {}] /\ gone = [h \in Threads |-> {}]
    /\ cur = [h \in Threads |-> {}]
    /\ live = [h \in Threads |-> {}] /\ unsent = [h \in Threads |-> {}]
    /\ ops = [h \in Threads |-> 0]

Alive(s)     == refs[s] # {}
Entries(T)   == UNION {{<<t, k>> : k \in 1..Len(topics[t])} : t \in T}
Entry(e)     == topics[e[1]][e[2]]
Goto(h, l)   == pc' = [pc EXCEPT ![h] = l]

(* Thread h gives up a reference to s and goes to l.  The last reference     *)
(* runs the destructor first, and with mutex_ in hand asks for it again.     *)
LetGo(h, s, owner, l) ==
    /\ refs' = [refs EXCEPT ![s] = @ \ {owner}]
    /\ IF refs[s] = {owner}
       THEN /\ dying' = [dying EXCEPT ![h] = {s}]
            /\ ret' = [ret EXCEPT ![h] = l]
            /\ Goto(h, IF h \in writer THEN "relock" ELSE "unsubscribe")
       ELSE /\ Goto(h, l)
            /\ UNCHANGED <<dying, ret>>

-----------------------------------------------------------------------------
(* Calls: a callback of a session subscribes it or publishes; a connection   *)
(* that ends gives up its session.                                           *)

Call(h, op, s, t) ==
    /\ pc[h] = "idle" /\ ops[h] < MaxOps
    /\ App \in refs[s]
    /\ refs' = [refs EXCEPT ![s] = @ \cup {<<h, "call">>}]
    /\ me' = [me EXCEPT ![h] = {s}]
    /\ topic' = [topic EXCEPT ![h] = t]
    /\ ops' = [ops EXCEPT ![h] = @ + 1]
    /\ Goto(h, op)
    /\ UNCHANGED <<topics, destroyed, locks, ret, dying, scan, pubs>>

EndSession(h, s) ==
    /\ pc[h] = "idle" /\ ops[h] < MaxOps
    /\ App \in refs[s]
    /\ ops' = [ops EXCEPT ![h] = @ + 1]
    /\ LetGo(h, s, App, "idle")
    /\ UNCHANGED <<topics, destroyed, locks, me, topic, scan, pubs>>

Return(h) ==
    /\ pc[h] = "return"
    /\ \E s \in me[h] : LetGo(h, s, <<h, "call">>, "idle")
    /\ me' = [me EXCEPT ![h] = {}]
    /\ UNCHANGED <<topics, destroyed, locks, topic, scan, pubs, ops>>

-----------------------------------------------------------------------------
(* subscribe(): under the exclusive lock, look for the session among the     *)
(* entries (locking each weak pointer for the comparison), else append it.   *)

(* Mutant: subscribe() takes the lock while others hold it shared. *)
SubscribeLock_IgnoresReaders(h) ==
    /\ pc[h] = "subscribe"
    /\ writer = {} /\ writer' = {h}
    /\ todo' = [todo EXCEPT ![h] = Entries({topic[h]})]
    /\ Goto(h, "look")
    /\ UNCHANGED <<topics, refs, destroyed, readers, ret, dying, args, gone, cur, pubs>>

SubscribeLock(h) ==
    /\ pc[h] = "subscribe"
    /\ writer = {} /\ readers = {} /\ writer' = {h}
    /\ todo' = [todo EXCEPT ![h] = Entries({topic[h]})]
    /\ Goto(h, "look")
    /\ UNCHANGED <<topics, refs, destroyed, readers, ret, dying, args, gone, cur, pubs>>

(* Visit an entry: an expired one is skipped (subscribe) or erased.          *)
Visit(h, e) ==
    /\ pc[h] \in {"look", "erase"} /\ cur[h] = {} /\ e \in todo[h]
    /\ todo' = [todo EXCEPT ![h] = @ \ {e}]
    /\ IF Alive(Entry(e))
       THEN /\ refs' = [refs EXCEPT ![Entry(e)] = @ \cup {<<h, "tmp">>}]
            /\ cur' = [cur EXCEPT ![h] = {Entry(e)}]
            /\ UNCHANGED gone
       ELSE /\ gone' = [gone EXCEPT ![h] = @ \cup {e}]
            /\ UNCHANGED <<refs, cur>>
    /\ UNCHANGED <<topics, destroyed, locks, pc, ret, dying, args, pubs>>

(* Mutant: an existing entry does not end the search. *)
Found_Never(h, s) == FALSE

Found(h, s) == pc[h] = "look" /\ s \in me[h]

(* The comparison is over: the locked pointer goes out of scope. *)
Unvisit(h) ==
    /\ \E s \in cur[h] : LetGo(h, s, <<h, "tmp">>, IF Found(h, s) THEN "unlock" ELSE pc[h])
    /\ cur' = [cur EXCEPT ![h] = {}]
    /\ UNCHANGED <<topics, destroyed, locks, args, todo, gone, pubs>>

SubscribePush(h) ==
    /\ pc[h] = "look" /\ cur[h] = {} /\ todo[h] = {}
    /\ \E s \in me[h] : topics' = [topics EXCEPT ![topic[h]] = Append(@, s)]
    /\ Goto(h, "unlock")
    /\ UNCHANGED <<refs, destroyed, locks, ret, dying, args, scan, pubs>>

SubscribeUnlock(h) ==
    /\ pc[h] = "unlock"
    /\ writer' = {}
    /\ todo' = [todo EXCEPT ![h] = {}] /\ gone' = [gone EXCEPT ![h] = {}]
    /\ Goto(h, "return")
    /\ UNCHANGED <<topics, refs, destroyed, readers, ret, dying, args, cur, pubs>>

-----------------------------------------------------------------------------
(* ~WebSocketSession: unsubscribe() from every topic.                        *)

UnsubscribeLock(h) ==
    /\ pc[h] = "unsubscribe"
    /\ writer = {} /\ readers = {} /\ writer' = {h}
    /\ todo' = [todo EXCEPT ![h] = Entries(Topics)]
    /\ gone' = [gone EXCEPT ![h] = {}]
    /\ Goto(h, "erase")
    /\ UNCHANGED <<topics, refs, destroyed, readers, ret, dying, args, cur, pubs>>

(* What is left of a vector when the entries in G are erased: the others, in *)
(* their order, the one with j - 1 of them before it at position j.          *)
Kept(t, G)    == {k \in 1..Len(topics[t]) : <<t, k>> \notin G}
Place(K, k)   == Cardinality({i \in K : i <= k})
Without(t, G) ==
    [j \in 1..Cardinality(Kept(t, G)) |->
        topics[t][CHOOSE k \in Kept(t, G) : Place(Kept(t, G), k) = j]]

(* Mutant: only entries that compare equal are erased, not expired ones. *)
UnsubscribeErase_LiveOnly(h) ==
    /\ pc[h] = "erase" /\ cur[h] = {} /\ todo[h] = {}
    /\ writer' = {}
    /\ destroyed' = destroyed \cup dying[h]
    /\ dying' = [dying EXCEPT ![h] = {}]
    /\ gone' = [gone EXCEPT ![h] = {}]
    /\ Goto(h, ret[h])
    /\ UNCHANGED <<topics, refs, readers, ret, args, todo, cur, pubs>>

UnsubscribeErase(h) ==
    /\ pc[h] = "erase" /\ cur[h] = {} /\ todo[h] = {}
    /\ topics' = [t \in Topics |-> Without(t, gone[h])]
    /\ writer' = {}
    /\ destroyed' = destroyed \cup dying[h]
    /\ dying' = [dying EXCEPT ![h] = {}]
    /\ gone' = [gone EXCEPT ![h] = {}]
    /\ Goto(h, ret[h])
    /\ UNCHANGED <<refs, readers, ret, args, todo, cur, pubs>>

-----------------------------------------------------------------------------
(* publish() *)

PublishLock(h) ==
    /\ pc[h] = "publish"
    /\ writer = {} /\ readers' = readers \cup {h}
    /\ todo' = [todo EXCEPT ![h] = Entries({topic[h]})]
    /\ Goto(h, "snapshot")
    /\ UNCHANGED <<topics, refs, destroyed, writer, ret, dying, args, gone, cur, pubs>>

(* Mutant: the snapshot does not keep the subscribers alive. *)
Snapshot_Raw(h, e) ==
    /\ pc[h] = "snapshot" /\ e \in todo[h]
    /\ todo' = [todo EXCEPT ![h] = @ \ {e}]
    /\ IF Alive(Entry(e))
       THEN /\ live' = [live EXCEPT ![h] = @ \cup {Entry(e)}]
            /\ UNCHANGED gone
       ELSE /\ gone' = [gone EXCEPT ![h] = @ \cup {e}]
            /\ UNCHANGED live
    /\ UNCHANGED <<topics, refs, destroyed, locks, pc, ret, dying, args, cur, unsent>>

Snapshot(h, e) ==
    /\ pc[h] = "snapshot" /\ e \in todo[h]
    /\ todo' = [todo EXCEPT ![h] = @ \ {e}]
    /\ IF Alive(Entry(e))
       THEN /\ live' = [live EXCEPT ![h] = @ \cup {Entry(e)}]
            /\ refs' = [refs EXCEPT ![Entry(e)] = @ \cup {<<h, "live">>}]
            /\ UNCHANGED gone
       ELSE /\ gone' = [gone EXCEPT ![h] = @ \cup {e}]
            /\ UNCHANGED <<refs, live>>
    /\ UNCHANGED <<topics, destroyed, locks, pc, ret, dying, args, cur, unsent>>

(* has_dead decides whether the expired entries are collected. *)
PublishUnlock(h) ==
    /\ pc[h] = "snapshot" /\ todo[h] = {}
    /\ readers' = readers \ {h}
    /\ unsent' = [unsent EXCEPT ![h] = live[h] \ me[h]]
    /\ gone' = [gone EXCEPT ![h] = {}]
    /\ Goto(h, IF gone[h] = {} THEN "deliver" ELSE "collect")
    /\ UNCHANGED <<topics, refs, destroyed, writer, ret, dying, args, todo, cur, live>>

(* Mutant: the collection keeps what the snapshot saw alive. *)
Expired_NotInSnapshot(h, e) == Entry(e) \notin live[h]

Expired(h, e) == ~Alive(Entry(e))

Collect(h) ==
    /\ pc[h] = "collect"
    /\ writer = {} /\ readers = {}
    /\ LET t == topic[h]
       IN  topics' = [topics EXCEPT ![t] = Without(t, {e \in Entries({t}) : Expired(h, e)})]
    /\ Goto(h, "deliver")
    /\ UNCHANGED <<refs, destroyed, locks, ret, dying, args, scan, pubs>>

(* send_from_bus of one subscriber, outside any lock. *)
Deliver(h, s) ==
    /\ pc[h] = "deliver" /\ s \in unsent[h]
    /\ unsent' = [unsent EXCEPT ![h] = @ \ {s}]
    /\ UNCHANGED <<topics, refs, destroyed, locks, pc, ret, dying, args, scan, live>>

(* live_subs goes out of scope. *)
DropSnapshot(h) ==
    /\ pc[h] = "deliver" /\ unsent[h] = {}
    /\ \/ /\ live[h] = {} /\ Goto(h, "return")
          /\ UNCHANGED <<refs, ret, dying, live>>
       \/ \E s \in live[h] :
            /\ LetGo(h, s, <<h, "live">>, "deliver")
            /\ live' = [live EXCEPT ![h] = @ \ {s}]
    /\ UNCHANGED <<topics, destroyed, locks, args, scan, unsent>>

-----------------------------------------------------------------------------

Step(h) ==
    \/ Return(h) \/ SubscribeLock(h) \/ Unvisit(h) \/ SubscribePush(h) \/ SubscribeUnlock(h)
    \/ UnsubscribeLock(h) \/ UnsubscribeErase(h)
    \/ PublishLock(h) \/ PublishUnlock(h) \/ Collect(h) \/ DropSnapshot(h)
    \/ \E e \in todo[h] : Visit(h, e) \/ Snapshot(h, e)
    \/ \E s \in unsent[h] : Deliver(h, s)

Next ==
    \E h \in Threads :
        \/ Step(h)
        \/ \E s \in Subs : EndSession(h, s)
        \/ \E s \in Subs, t \in Topics, op \in {"subscribe", "publish"} : Call(h, op, s, t)

Spec == Init /\ [][Next]_vars

-----------------------------------------------------------------------------
(* Properties. *)

InTopic(t) == {topics[t][k] : k \in 1..Len(topics[t])}

Labels == {"idle", "return", "subscribe", "look", "unlock", "unsubscribe", "erase", "relock",
           "publish", "snapshot", "collect", "deliver"}
AtMostOne(S) == \A x, y \in S : x = y

BusTypeOK ==
    /\ topics \in [Topics -> Seq(Subs)]
    /\ refs \in [Subs -> SUBSET Owners]
    /\ destroyed \subseteq Subs
    /\ writer \subseteq Threads /\ readers \subseteq Threads
    /\ AtMostOne(writer) /\ (writer # {} => readers = {})

CallTypeOK ==
    /\ pc \in [Threads -> Labels] /\ ret \in [Threads -> Labels]
    /\ topic \in [Threads -> Topics]
    /\ ops \in [Threads -> 0..MaxOps]
    /\ todo \in [Threads -> SUBSET (Topics \X Nat)]
    /\ gone \in [Threads -> SUBSET (Topics \X Nat)]

HeldTypeOK ==
    /\ me \in [Threads -> SUBSET Subs] /\ dying \in [Threads -> SUBSET Subs]
    /\ cur \in [Threads -> SUBSET Subs]
    /\ live \in [Threads -> SUBSET Subs] /\ unsent \in [Threads -> SUBSET Subs]
    /\ \A h \in Threads : /\ AtMostOne(me[h]) /\ AtMostOne(dying[h]) /\ AtMostOne(cur[h])
                          /\ unsent[h] \subseteq live[h]

(* Every variable has its type; the lock is exclusive or shared. *)
TypeOK == BusTypeOK /\ CallTypeOK /\ HeldTypeOK

(* subscribe() is idempotent, also when two threads subscribe one session.   *)
NoDuplicates ==
    \A t \in Topics : \A j, k \in 1..Len(topics[t]) : topics[t][j] = topics[t][k] => j = k

(* publish() never delivers to a session that is being or has been destroyed, *)
(* though it delivers without the lock.                                      *)
DeliversToLiving == \A h \in Threads : \A s \in unsent[h] : Alive(s) /\ s \notin destroyed

(* A session that has been destroyed is in no topic any more.                *)
DestroyedIsForgotten == \A t \in Topics : InTopic(t) \cap destroyed = {}

(* The topics hold each subscriber once and no destroyed one, whichever thread *)
(* subscribes, publishes or gives up the last reference.                       *)
SubscriptionsSound == TypeOK /\ NoDuplicates /\ DestroyedIsForgotten

(* Neither the collection in publish() nor another session's unsubscribe()   *)
(* ever removes a session that is alive.                                     *)
LiveStays ==
    [][\A t \in Topics : \A s \in InTopic(t) : Alive(s) => s \in InTopic(t)']_vars

(* include/aevox/websocket.hpp on subscribe(): "Thread-safety: safe to call  *)
(* from any thread": no thread asks for mutex_ while it holds it.            *)
NoRelock == \A h \in Threads : pc[h] # "relock"
=============================================================================
