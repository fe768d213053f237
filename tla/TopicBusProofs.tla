--------------------------- MODULE TopicBusProofs ---------------------------
(***************************************************************************)
(* TLAPS proofs about TopicBus, for any finite set of I/O threads and any    *)
(* sets of sessions and topics.                                              *)
(***************************************************************************)
EXTENDS TopicBus, FiniteSetTheorems, TLAPS

Exclusive == {"look", "unlock", "erase", "relock"}

(* mutex_ is held exactly at the program points between lock and unlock, and *)
(* a destructor goes on where no lock is held.                               *)
LockInv ==
    \A h \in Threads :
        /\ h \in writer <=> pc[h] \in Exclusive
        /\ h \in readers <=> pc[h] = "snapshot"
        /\ pc[h] \in {"unsubscribe", "erase"} => ret[h] \in {"idle", "deliver"}
        /\ cur[h] # {} => pc[h] \in {"look", "erase"}

(* The references that calls and snapshots hold are counted. *)
RefInv ==
    \A h \in Threads :
        /\ \A s \in me[h] : <<h, "call">> \in refs[s]
        /\ \A s \in live[h] : <<h, "live">> \in refs[s]

(* A session in its destructor has lost its last reference for good. *)
DeadInv ==
    /\ \A h \in Threads : \A s \in dying[h] : refs[s] = {}
    /\ \A s \in destroyed : refs[s] = {}

IsEntry(e) == e[2] \in 1..Len(topics[e[1]])

(* A scan visits entries that exist; the ones to erase are dead.             *)
ScanInv ==
    \A h \in Threads :
        /\ pc[h] \in {"look", "erase", "snapshot"} => \A e \in todo[h] : IsEntry(e)
        /\ pc[h] = "erase" => \A e \in gone[h] : IsEntry(e) /\ refs[Entry(e)] = {}

(* The search in subscribe() has not passed over an entry of its session.    *)
LookInv ==
    \A h \in Threads : pc[h] = "look" =>
        \A s \in me[h] :
            \/ s \in cur[h]
            \/ \A k \in 1..Len(topics[topic[h]]) :
                   topics[topic[h]][k] = s => <<topic[h], k>> \in todo[h]

(* The scan in unsubscribe() misses no entry of the dying session.           *)
EraseInv ==
    \A h \in Threads : pc[h] = "erase" =>
        \A t \in Topics : \A k \in 1..Len(topics[t]) :
            topics[t][k] \in dying[h] => <<t, k>> \in todo[h] \cup gone[h]

(* The inductive invariant. *)
IInv ==
    /\ TypeOK
    /\ LockInv
    /\ RefInv
    /\ DeadInv
    /\ ScanInv
    /\ LookInv
    /\ EraseInv
    /\ NoDuplicates
    /\ DestroyedIsForgotten

USE DEF locks, args, pubs, scan, Goto, App

-----------------------------------------------------------------------------
(* What std::erase_if leaves of a vector. *)

(* The places of the kept indices are the positions 1, 2, ... without a gap:  *)
(* distinct indices have distinct places, and every place is taken.          *)
LEMMA PlaceBijection ==
    ASSUME NEW n \in Nat, NEW K \in SUBSET (1..n)
    PROVE  /\ Cardinality(K) \in Nat
           /\ \A k \in K : Place(K, k) \in 1..Cardinality(K)
           /\ \A j, k \in K : Place(K, j) = Place(K, k) => j = k
           /\ \A p \in 1..Cardinality(K) : \E k \in K : Place(K, k) = p
  <1> DEFINE Upto(k) == {i \in K : i <= k}
             f == [k \in K |-> Place(K, k)]
  <1>0. IsFiniteSet(1..n) /\ \A k \in K : k \in Nat
    BY FS_Interval
  <1>1. IsFiniteSet(K) /\ Cardinality(K) \in Nat
    BY <1>0, FS_Subset, FS_CardinalityType
  <1>2. ASSUME NEW k \in K
        PROVE  /\ IsFiniteSet(Upto(k)) /\ Cardinality(Upto(k)) \in Nat
               /\ Cardinality(Upto(k)) <= Cardinality(K)
    BY <1>1, FS_Subset, FS_CardinalityType
  <1>3. ASSUME NEW k \in K
        PROVE  Place(K, k) \in 1..Cardinality(K)
    <2>1. Upto(k) # {}
      OBVIOUS
    <2>2. Cardinality(Upto(k)) # 0
      BY <2>1, <1>2, FS_EmptySet
    <2> QED
      BY <1>1, <1>2, <2>2 DEF Place
  <1>4. ASSUME NEW j \in K, NEW k \in K, j < k
        PROVE  Place(K, j) # Place(K, k)
    <2>1. j \in Nat /\ k \in Nat /\ j <= k /\ k <= k /\ ~(k <= j)
      BY <1>0, <1>4
    <2>2. \A i \in K : i <= j => i <= k
      BY <1>0, <2>1
    <2>3. Upto(j) \in SUBSET Upto(k) /\ k \in Upto(k) /\ k \notin Upto(j)
      BY <2>1, <2>2, Zenon
    <2>4. Cardinality(Upto(j)) # Cardinality(Upto(k))
      BY <2>3, <1>2, FS_Subset
    <2> QED
      BY <2>4 DEF Place
  <1>5. \A j, k \in K : Place(K, j) = Place(K, k) => j = k
    BY <1>4
  <1>6. f \in Injection(K, 1..Cardinality(K))
    BY <1>3, <1>5 DEF Injection, IsInjective
  <1>7. IsFiniteSet(1..Cardinality(K)) /\ Cardinality(1..Cardinality(K)) = Cardinality(K)
    BY <1>1, FS_Interval
  <1>8. f \in Surjection(K, 1..Cardinality(K))
    BY <1>6, <1>7, FS_Injection
  <1>9. ASSUME NEW p \in 1..Cardinality(K)
        PROVE  \E k \in K : Place(K, k) = p
    BY <1>8, <1>9 DEF Surjection
  <1> QED
    BY <1>1, <1>3, <1>5, <1>9

(* Erasing keeps the other elements, adds none and puts none in twice.       *)
LEMMA WithoutLemma ==
    ASSUME NEW t \in Topics, NEW G, topics[t] \in Seq(Subs)
    PROVE  /\ Without(t, G) \in Seq(Subs)
           /\ \A k \in Kept(t, G) : \E j \in 1..Len(Without(t, G)) : Without(t, G)[j] = topics[t][k]
           /\ \A j \in 1..Len(Without(t, G)) : \E k \in Kept(t, G) :
                  Place(Kept(t, G), k) = j /\ Without(t, G)[j] = topics[t][k]
  <1> DEFINE K == Kept(t, G)
             At(j) == CHOOSE k \in K : Place(K, k) = j
             W == Without(t, G)
  <1>1. Len(topics[t]) \in Nat /\ K \in SUBSET (1..Len(topics[t]))
    BY DEF Kept
  <1>2. /\ Cardinality(K) \in Nat
        /\ \A k \in K : Place(K, k) \in 1..Cardinality(K)
        /\ \A j, k \in K : Place(K, j) = Place(K, k) => j = k
        /\ \A p \in 1..Cardinality(K) : \E k \in K : Place(K, k) = p
    BY <1>1, PlaceBijection
  <1>3. W = [j \in 1..Cardinality(K) |-> topics[t][At(j)]]
    BY DEF Without
  <1> HIDE DEF K, W
  <1>4. ASSUME NEW j \in 1..Cardinality(K)
        PROVE  At(j) \in K /\ Place(K, At(j)) = j
    BY <1>2
  <1>5. \A k \in K : At(Place(K, k)) = k
    BY <1>2, <1>4
  <1> HIDE DEF At
  <1>6. \A j \in 1..Cardinality(K) : topics[t][At(j)] \in Subs
    <2>1. \A k \in 1..Len(topics[t]) : topics[t][k] \in Subs
      OBVIOUS
    <2> QED
      BY <1>1, <1>4, <2>1
  <1>7. W \in Seq(Subs) /\ Len(W) = Cardinality(K)
    BY <1>2, <1>3, <1>6
  <1>8. \A k \in K : Place(K, k) \in 1..Len(W) /\ W[Place(K, k)] = topics[t][k]
    BY <1>2, <1>3, <1>5, <1>7
  <1>9. \A j \in 1..Len(W) : At(j) \in K /\ Place(K, At(j)) = j /\ W[j] = topics[t][At(j)]
    BY <1>3, <1>4, <1>7
  <1> QED
    BY <1>7, <1>8, <1>9 DEF K, W

-----------------------------------------------------------------------------
(* The invariant holds at first, and every step keeps it. *)

(* The initial state satisfies the inductive invariant. *)
LEMMA InitInv == Init => IInv
  BY BusAssumption
   DEF Init, IInv, TypeOK, BusTypeOK, CallTypeOK, HeldTypeOK, AtMostOne, Labels, Owners, LockInv,
       RefInv, DeadInv, ScanInv, LookInv, EraseInv, NoDuplicates, DestroyedIsForgotten, InTopic,
       Exclusive

(* What an entry is. *)
LEMMA EntriesLemma ==
    ASSUME NEW T
    PROVE  \A e : e \in Entries(T) <=> \E t \in T : \E k \in 1..Len(topics[t]) : e = <<t, k>>
  BY DEF Entries

(* The entries of some topics are pairs of a topic and an index.             *)
LEMMA EntriesType ==
    ASSUME NEW T \in SUBSET Topics, BusTypeOK
    PROVE  /\ Entries(T) \subseteq Topics \X Nat
           /\ \A e \in Entries(T) : IsEntry(e)
  <1> SUFFICES ASSUME NEW e \in Entries(T)
               PROVE  e \in Topics \X Nat /\ IsEntry(e)
    OBVIOUS
  <1>1. PICK t \in T : \E k \in 1..Len(topics[t]) : e = <<t, k>>
    BY EntriesLemma
  <1>2. PICK k \in 1..Len(topics[t]) : e = <<t, k>>
    BY <1>1
  <1>3. topics[t] \in Seq(Subs)
    BY DEF BusTypeOK
  <1> QED
    BY <1>2, <1>3 DEF IsEntry

(* An entry stands for a session. *)
LEMMA EntryType ==
    ASSUME BusTypeOK, NEW e \in Topics \X Nat, IsEntry(e)
    PROVE  Entry(e) \in Subs
  <1>1. topics[e[1]] \in Seq(Subs)
    BY DEF BusTypeOK
  <1> QED
    BY <1>1 DEF Entry, IsEntry

(* A session that a visited entry stands for. *)
LEMMA TodoType ==
    ASSUME IInv, NEW h \in Threads, pc[h] \in {"look", "erase", "snapshot"}, NEW e \in todo[h]
    PROVE  Entry(e) \in Subs /\ e \in Topics \X Nat
  <1>1. e \in Topics \X Nat /\ IsEntry(e)
    BY DEF IInv, TypeOK, CallTypeOK, ScanInv
  <1> QED
    BY <1>1, EntryType DEF IInv, TypeOK

(* Locks that exclude: who changes topics_ is alone with mutex_. *)
LEMMA Alone ==
    ASSUME IInv, NEW h \in Threads, NEW i \in Threads,
           pc[h] \in Exclusive, pc[i] \in Exclusive \cup {"snapshot"}
    PROVE  h = i
  BY DEF IInv, TypeOK, BusTypeOK, AtMostOne, LockInv, Exclusive

(* The program points follow the lock. *)
LEMMA LockStep ==
    ASSUME IInv, [Next]_vars
    PROVE  LockInv'
  <1>0. \A h \in Threads : pc[h] \in {"look", "erase", "snapshot"} =>
            \A e \in todo[h] : Entry(e) \in Subs
    BY TodoType
  <1> USE DEF IInv, TypeOK, BusTypeOK, CallTypeOK, LockInv, AtMostOne, Exclusive
  <1>1. ASSUME NEW h \in Threads, NEW s \in Subs, NEW t \in Topics,
               NEW op \in {"subscribe", "publish"}, Call(h, op, s, t)
        PROVE  LockInv'
    BY <1>1 DEF Call, Labels, HeldTypeOK
  <1>2. ASSUME NEW h \in Threads, NEW s \in Subs, EndSession(h, s)
        PROVE  LockInv'
    BY <1>2 DEF EndSession, LetGo, Labels, HeldTypeOK
  <1>3. ASSUME NEW h \in Threads, Return(h)
        PROVE  LockInv'
    BY <1>3 DEF Return, LetGo, Labels, HeldTypeOK
  <1>4. ASSUME NEW h \in Threads, SubscribeLock(h)
        PROVE  LockInv'
    BY <1>4 DEF SubscribeLock, Labels, HeldTypeOK
  <1>5. ASSUME NEW h \in Threads, SubscribeUnlock(h)
        PROVE  LockInv'
    BY <1>5 DEF SubscribeUnlock, Labels, HeldTypeOK
  <1>6. ASSUME NEW h \in Threads, NEW e \in todo[h], Visit(h, e)
        PROVE  LockInv'
    <2>1. CASE ~Alive(Entry(e))
      BY <1>6, <2>1 DEF Visit, Labels, HeldTypeOK
    <2>2. CASE Alive(Entry(e))
      <3> DEFINE x == Entry(e)
      <3>1. x \in Subs
        BY <1>0, <1>6 DEF Visit
      <3>2. refs[x] # {}
        BY <2>2 DEF Alive
      <3>3. /\ refs' = [refs EXCEPT ![x] = @ \cup {<<h, "tmp">>}]
            /\ cur' = [cur EXCEPT ![h] = {x}]
        BY <1>6, <2>2 DEF Visit
      <3> HIDE DEF x
      <3> QED
        BY <1>6, <3>1, <3>2, <3>3 DEF Visit, Labels, HeldTypeOK
    <2> QED
      BY <2>1, <2>2
  <1>7. ASSUME NEW h \in Threads, Unvisit(h)
        PROVE  LockInv'
    BY <1>7 DEF Unvisit, LetGo, Found, Labels, HeldTypeOK
  <1>8. ASSUME NEW h \in Threads, SubscribePush(h)
        PROVE  LockInv'
    BY <1>8 DEF SubscribePush, Labels, HeldTypeOK
  <1>9. ASSUME NEW h \in Threads, UnsubscribeLock(h)
        PROVE  LockInv'
    BY <1>9 DEF UnsubscribeLock, Labels, HeldTypeOK
  <1>10. ASSUME NEW h \in Threads, UnsubscribeErase(h)
        PROVE  LockInv'
    BY <1>10 DEF UnsubscribeErase, Labels, HeldTypeOK
  <1>11. ASSUME NEW h \in Threads, PublishLock(h)
        PROVE  LockInv'
    BY <1>11 DEF PublishLock, Labels, HeldTypeOK
  <1>12. ASSUME NEW h \in Threads, PublishUnlock(h)
        PROVE  LockInv'
    BY <1>12 DEF PublishUnlock, Labels, HeldTypeOK
  <1>13. ASSUME NEW h \in Threads, NEW e \in todo[h], Snapshot(h, e)
        PROVE  LockInv'
    <2>1. CASE ~Alive(Entry(e))
      BY <1>13, <2>1 DEF Snapshot, Labels, HeldTypeOK
    <2>2. CASE Alive(Entry(e))
      <3> DEFINE x == Entry(e)
      <3>1. x \in Subs
        BY <1>0, <1>13 DEF Snapshot
      <3>2. refs[x] # {}
        BY <2>2 DEF Alive
      <3>3. /\ refs' = [refs EXCEPT ![x] = @ \cup {<<h, "live">>}]
            /\ live' = [live EXCEPT ![h] = @ \cup {x}]
        BY <1>13, <2>2 DEF Snapshot
      <3> HIDE DEF x
      <3> QED
        BY <1>13, <3>1, <3>2, <3>3 DEF Snapshot, Labels, HeldTypeOK
    <2> QED
      BY <2>1, <2>2
  <1>14. ASSUME NEW h \in Threads, Collect(h)
        PROVE  LockInv'
    BY <1>14 DEF Collect, Labels, HeldTypeOK
  <1>15. ASSUME NEW h \in Threads, NEW s \in unsent[h], Deliver(h, s)
        PROVE  LockInv'
    BY <1>15 DEF Deliver, Labels, HeldTypeOK
  <1>16. ASSUME NEW h \in Threads, DropSnapshot(h)
        PROVE  LockInv'
    BY <1>16 DEF DropSnapshot, LetGo, Labels, HeldTypeOK
  <1>17. CASE UNCHANGED vars
    BY <1>17 DEF vars, Labels, HeldTypeOK
  <1> QED
    BY <1>1, <1>2, <1>3, <1>4, <1>5, <1>6, <1>7, <1>8, <1>9, <1>10, <1>11, <1>12, <1>13, <1>14, <1>15, <1>16, <1>17
       DEF Next, Step

(* The types of the calls and of the scans. *)
LEMMA CallTypeStep ==
    ASSUME IInv, [Next]_vars
    PROVE  CallTypeOK'
  <1> USE BusAssumption DEF IInv, TypeOK, CallTypeOK
  <1>1. ASSUME NEW h \in Threads, NEW s \in Subs, NEW t \in Topics,
               NEW op \in {"subscribe", "publish"}, Call(h, op, s, t)
        PROVE  CallTypeOK'
    BY <1>1 DEF Call, Labels, LockInv
  <1>2. ASSUME NEW h \in Threads, NEW s \in Subs, EndSession(h, s)
        PROVE  CallTypeOK'
    BY <1>2 DEF EndSession, LetGo, Labels, LockInv
  <1>3. ASSUME NEW h \in Threads, Return(h)
        PROVE  CallTypeOK'
    BY <1>3 DEF Return, LetGo, Labels, LockInv
  <1>4. ASSUME NEW h \in Threads, SubscribeLock(h)
        PROVE  CallTypeOK'
    <2>1. topic[h] \in Topics
      BY DEF CallTypeOK
    <2>2. Entries({topic[h]}) \subseteq Topics \X Nat /\ Entries(Topics) \subseteq Topics \X Nat
      BY <2>1, EntriesType
    <2> QED
      BY <1>4, <2>2 DEF SubscribeLock, Labels, LockInv
  <1>5. ASSUME NEW h \in Threads, SubscribeUnlock(h)
        PROVE  CallTypeOK'
    BY <1>5 DEF SubscribeUnlock, Labels, LockInv
  <1>6. ASSUME NEW h \in Threads, NEW e \in todo[h], Visit(h, e)
        PROVE  CallTypeOK'
    BY <1>6 DEF Visit, Alive, Labels, LockInv
  <1>7. ASSUME NEW h \in Threads, Unvisit(h)
        PROVE  CallTypeOK'
    BY <1>7 DEF Unvisit, LetGo, Found, Labels, LockInv
  <1>8. ASSUME NEW h \in Threads, SubscribePush(h)
        PROVE  CallTypeOK'
    BY <1>8 DEF SubscribePush, Labels, LockInv
  <1>9. ASSUME NEW h \in Threads, UnsubscribeLock(h)
        PROVE  CallTypeOK'
    <2>1. topic[h] \in Topics
      BY DEF CallTypeOK
    <2>2. Entries({topic[h]}) \subseteq Topics \X Nat /\ Entries(Topics) \subseteq Topics \X Nat
      BY <2>1, EntriesType
    <2> QED
      BY <1>9, <2>2 DEF UnsubscribeLock, Labels, LockInv
  <1>10. ASSUME NEW h \in Threads, UnsubscribeErase(h)
        PROVE  CallTypeOK'
    BY <1>10 DEF UnsubscribeErase, Labels, LockInv
  <1>11. ASSUME NEW h \in Threads, PublishLock(h)
        PROVE  CallTypeOK'
    <2>1. topic[h] \in Topics
      BY DEF CallTypeOK
    <2>2. Entries({topic[h]}) \subseteq Topics \X Nat /\ Entries(Topics) \subseteq Topics \X Nat
      BY <2>1, EntriesType
    <2> QED
      BY <1>11, <2>2 DEF PublishLock, Labels, LockInv
  <1>12. ASSUME NEW h \in Threads, PublishUnlock(h)
        PROVE  CallTypeOK'
    BY <1>12 DEF PublishUnlock, Labels, LockInv
  <1>13. ASSUME NEW h \in Threads, NEW e \in todo[h], Snapshot(h, e)
        PROVE  CallTypeOK'
    BY <1>13 DEF Snapshot, Alive, Labels, LockInv
  <1>14. ASSUME NEW h \in Threads, Collect(h)
        PROVE  CallTypeOK'
    BY <1>14 DEF Collect, Labels, LockInv
  <1>15. ASSUME NEW h \in Threads, NEW s \in unsent[h], Deliver(h, s)
        PROVE  CallTypeOK'
    BY <1>15 DEF Deliver, Labels, LockInv
  <1>16. ASSUME NEW h \in Threads, DropSnapshot(h)
        PROVE  CallTypeOK'
    BY <1>16 DEF DropSnapshot, LetGo, Labels, LockInv
  <1>17. CASE UNCHANGED vars
    BY <1>17 DEF vars, Labels, LockInv
  <1> QED
    BY <1>1, <1>2, <1>3, <1>4, <1>5, <1>6, <1>7, <1>8, <1>9, <1>10, <1>11, <1>12, <1>13, <1>14, <1>15, <1>16, <1>17
       DEF Next, Step

(* The types of what a thread holds. *)
LEMMA HeldTypeStep ==
    ASSUME IInv, [Next]_vars
    PROVE  HeldTypeOK'
  <1>0. \A h \in Threads : pc[h] \in {"look", "erase", "snapshot"} =>
            \A e \in todo[h] : Entry(e) \in Subs
    BY TodoType
  <1> USE DEF IInv, TypeOK, HeldTypeOK, AtMostOne
  <1>1. ASSUME NEW h \in Threads, NEW s \in Subs, NEW t \in Topics,
               NEW op \in {"subscribe", "publish"}, Call(h, op, s, t)
        PROVE  HeldTypeOK'
    BY <1>1 DEF Call
  <1>2. ASSUME NEW h \in Threads, NEW s \in Subs, EndSession(h, s)
        PROVE  HeldTypeOK'
    BY <1>2 DEF EndSession, LetGo
  <1>3. ASSUME NEW h \in Threads, Return(h)
        PROVE  HeldTypeOK'
    BY <1>3 DEF Return, LetGo
  <1>4. ASSUME NEW h \in Threads, SubscribeLock(h)
        PROVE  HeldTypeOK'
    BY <1>4 DEF SubscribeLock
  <1>5. ASSUME NEW h \in Threads, SubscribeUnlock(h)
        PROVE  HeldTypeOK'
    BY <1>5 DEF SubscribeUnlock
  <1>6. ASSUME NEW h \in Threads, NEW e \in todo[h], Visit(h, e)
        PROVE  HeldTypeOK'
    BY <1>0, <1>6 DEF Visit, Alive
  <1>7. ASSUME NEW h \in Threads, Unvisit(h)
        PROVE  HeldTypeOK'
    BY <1>7 DEF Unvisit, LetGo, Found
  <1>8. ASSUME NEW h \in Threads, SubscribePush(h)
        PROVE  HeldTypeOK'
    BY <1>8 DEF SubscribePush
  <1>9. ASSUME NEW h \in Threads, UnsubscribeLock(h)
        PROVE  HeldTypeOK'
    BY <1>9 DEF UnsubscribeLock
  <1>10. ASSUME NEW h \in Threads, UnsubscribeErase(h)
        PROVE  HeldTypeOK'
    BY <1>10 DEF UnsubscribeErase
  <1>11. ASSUME NEW h \in Threads, PublishLock(h)
        PROVE  HeldTypeOK'
    BY <1>11 DEF PublishLock
  <1>12. ASSUME NEW h \in Threads, PublishUnlock(h)
        PROVE  HeldTypeOK'
    BY <1>12 DEF PublishUnlock
  <1>13. ASSUME NEW h \in Threads, NEW e \in todo[h], Snapshot(h, e)
        PROVE  HeldTypeOK'
    BY <1>0, <1>13 DEF Snapshot, Alive
  <1>14. ASSUME NEW h \in Threads, Collect(h)
        PROVE  HeldTypeOK'
    BY <1>14 DEF Collect
  <1>15. ASSUME NEW h \in Threads, NEW s \in unsent[h], Deliver(h, s)
        PROVE  HeldTypeOK'
    BY <1>15 DEF Deliver
  <1>16. ASSUME NEW h \in Threads, DropSnapshot(h)
        PROVE  HeldTypeOK'
    BY <1>16 DEF DropSnapshot, LetGo
  <1>17. CASE UNCHANGED vars
    BY <1>17 DEF vars
  <1> QED
    BY <1>1, <1>2, <1>3, <1>4, <1>5, <1>6, <1>7, <1>8, <1>9, <1>10, <1>11, <1>12, <1>13, <1>14, <1>15, <1>16, <1>17
       DEF Next, Step

(* The types of the bus. *)
LEMMA BusTypeStep ==
    ASSUME IInv, [Next]_vars
    PROVE  BusTypeOK'
  <1>0. \A h \in Threads : pc[h] \in {"look", "erase", "snapshot"} =>
            \A e \in todo[h] : Entry(e) \in Subs
    BY TodoType
  <1> USE DEF IInv, TypeOK, BusTypeOK, AtMostOne
  <1>1. ASSUME NEW h \in Threads, NEW s \in Subs, NEW t \in Topics,
               NEW op \in {"subscribe", "publish"}, Call(h, op, s, t)
        PROVE  BusTypeOK'
    BY <1>1 DEF Call, Owners, LockInv, HeldTypeOK, CallTypeOK
  <1>2. ASSUME NEW h \in Threads, NEW s \in Subs, EndSession(h, s)
        PROVE  BusTypeOK'
    BY <1>2 DEF EndSession, LetGo, Owners, LockInv, HeldTypeOK, CallTypeOK
  <1>3. ASSUME NEW h \in Threads, Return(h)
        PROVE  BusTypeOK'
    BY <1>3 DEF Return, LetGo, Owners, LockInv, HeldTypeOK, CallTypeOK
  <1>4. ASSUME NEW h \in Threads, SubscribeLock(h)
        PROVE  BusTypeOK'
    BY <1>4 DEF SubscribeLock, Owners, LockInv, HeldTypeOK, CallTypeOK
  <1>5. ASSUME NEW h \in Threads, SubscribeUnlock(h)
        PROVE  BusTypeOK'
    BY <1>5 DEF SubscribeUnlock, Owners, LockInv, HeldTypeOK, CallTypeOK
  <1>6. ASSUME NEW h \in Threads, NEW e \in todo[h], Visit(h, e)
        PROVE  BusTypeOK'
    <2>1. CASE ~Alive(Entry(e))
      BY <1>6, <2>1 DEF Visit, Owners, LockInv, HeldTypeOK, CallTypeOK
    <2>2. CASE Alive(Entry(e))
      <3> DEFINE x == Entry(e)
      <3>1. x \in Subs
        BY <1>0, <1>6 DEF Visit
      <3>2. refs[x] # {}
        BY <2>2 DEF Alive
      <3>3. /\ refs' = [refs EXCEPT ![x] = @ \cup {<<h, "tmp">>}]
            /\ cur' = [cur EXCEPT ![h] = {x}]
        BY <1>6, <2>2 DEF Visit
      <3> HIDE DEF x
      <3> QED
        BY <1>6, <3>1, <3>2, <3>3 DEF Visit, Owners, LockInv, HeldTypeOK, CallTypeOK
    <2> QED
      BY <2>1, <2>2
  <1>7. ASSUME NEW h \in Threads, Unvisit(h)
        PROVE  BusTypeOK'
    BY <1>7 DEF Unvisit, LetGo, Found, Owners, LockInv, HeldTypeOK, CallTypeOK
  <1>8. ASSUME NEW h \in Threads, SubscribePush(h)
        PROVE  BusTypeOK'
    BY <1>8 DEF SubscribePush, Owners, LockInv, HeldTypeOK, CallTypeOK
  <1>9. ASSUME NEW h \in Threads, UnsubscribeLock(h)
        PROVE  BusTypeOK'
    BY <1>9 DEF UnsubscribeLock, Owners, LockInv, HeldTypeOK, CallTypeOK
  <1>10. ASSUME NEW h \in Threads, UnsubscribeErase(h)
        PROVE  BusTypeOK'
    <2>1. \A t \in Topics : Without(t, gone[h]) \in Seq(Subs)
      BY WithoutLemma
    <2> QED
      BY <1>10, <2>1 DEF UnsubscribeErase, Owners, LockInv, HeldTypeOK, CallTypeOK
  <1>11. ASSUME NEW h \in Threads, PublishLock(h)
        PROVE  BusTypeOK'
    BY <1>11 DEF PublishLock, Owners, LockInv, HeldTypeOK, CallTypeOK
  <1>12. ASSUME NEW h \in Threads, PublishUnlock(h)
        PROVE  BusTypeOK'
    BY <1>12 DEF PublishUnlock, Owners, LockInv, HeldTypeOK, CallTypeOK
  <1>13. ASSUME NEW h \in Threads, NEW e \in todo[h], Snapshot(h, e)
        PROVE  BusTypeOK'
    <2>1. CASE ~Alive(Entry(e))
      BY <1>13, <2>1 DEF Snapshot, Owners, LockInv, HeldTypeOK, CallTypeOK
    <2>2. CASE Alive(Entry(e))
      <3> DEFINE x == Entry(e)
      <3>1. x \in Subs
        BY <1>0, <1>13 DEF Snapshot
      <3>2. refs[x] # {}
        BY <2>2 DEF Alive
      <3>3. /\ refs' = [refs EXCEPT ![x] = @ \cup {<<h, "live">>}]
            /\ live' = [live EXCEPT ![h] = @ \cup {x}]
        BY <1>13, <2>2 DEF Snapshot
      <3> HIDE DEF x
      <3> QED
        BY <1>13, <3>1, <3>2, <3>3 DEF Snapshot, Owners, LockInv, HeldTypeOK, CallTypeOK
    <2> QED
      BY <2>1, <2>2
  <1>14. ASSUME NEW h \in Threads, Collect(h)
        PROVE  BusTypeOK'
    <2> DEFINE t == topic[h]
               W == Without(t, {e \in Entries({t}) : Expired(h, e)})
    <2>1. t \in Topics
      BY DEF CallTypeOK
    <2>2. W \in Seq(Subs)
      BY <2>1, WithoutLemma
    <2>3. topics' = [topics EXCEPT ![t] = W]
      BY <1>14 DEF Collect
    <2>4. UNCHANGED <<refs, destroyed, writer, readers>>
      BY <1>14 DEF Collect
    <2> HIDE DEF W, t
    <2> QED
      BY <2>1, <2>2, <2>3, <2>4 DEF Owners
  <1>15. ASSUME NEW h \in Threads, NEW s \in unsent[h], Deliver(h, s)
        PROVE  BusTypeOK'
    BY <1>15 DEF Deliver, Owners, LockInv, HeldTypeOK, CallTypeOK
  <1>16. ASSUME NEW h \in Threads, DropSnapshot(h)
        PROVE  BusTypeOK'
    <2>1. CASE live[h] = {} /\ UNCHANGED <<refs, ret, dying, live>>
      BY <1>16, <2>1 DEF DropSnapshot, Owners, LockInv, HeldTypeOK, CallTypeOK
    <2>2. CASE \E s \in live[h] : /\ LetGo(h, s, <<h, "live">>, "deliver")
                                  /\ live' = [live EXCEPT ![h] = @ \ {s}]
      <3>0. PICK s \in live[h] : /\ LetGo(h, s, <<h, "live">>, "deliver")
                                 /\ live' = [live EXCEPT ![h] = @ \ {s}]
        BY <2>2
      <3>1. s \in Subs
        BY DEF HeldTypeOK
      <3>2. CASE refs[s] = {<<h, "live">>}
        BY <1>16, <3>0, <3>1, <3>2 DEF DropSnapshot, LetGo, Owners, LockInv, HeldTypeOK, CallTypeOK
      <3>3. CASE refs[s] # {<<h, "live">>}
        BY <1>16, <3>0, <3>1, <3>3 DEF DropSnapshot, LetGo, Owners, LockInv, HeldTypeOK, CallTypeOK
      <3> QED
        BY <3>2, <3>3
    <2> QED
      BY <1>16, <2>1, <2>2 DEF DropSnapshot
  <1>17. CASE UNCHANGED vars
    BY <1>17 DEF vars, Owners, LockInv, HeldTypeOK, CallTypeOK
  <1> QED
    BY <1>1, <1>2, <1>3, <1>4, <1>5, <1>6, <1>7, <1>8, <1>9, <1>10, <1>11, <1>12, <1>13, <1>14, <1>15, <1>16, <1>17
       DEF Next, Step

(* References are counted. *)
LEMMA RefStep ==
    ASSUME IInv, [Next]_vars
    PROVE  RefInv'
  <1>0. \A h \in Threads : pc[h] \in {"look", "erase", "snapshot"} =>
            \A e \in todo[h] : Entry(e) \in Subs
    BY TodoType
  <1> USE DEF IInv, TypeOK, BusTypeOK, HeldTypeOK, AtMostOne, RefInv
  <1>1. ASSUME NEW h \in Threads, NEW s \in Subs, NEW t \in Topics,
               NEW op \in {"subscribe", "publish"}, Call(h, op, s, t)
        PROVE  RefInv'
    BY <1>1 DEF Call, Owners
  <1>2. ASSUME NEW h \in Threads, NEW s \in Subs, EndSession(h, s)
        PROVE  RefInv'
    BY <1>2 DEF EndSession, LetGo, Owners
  <1>3. ASSUME NEW h \in Threads, Return(h)
        PROVE  RefInv'
    BY <1>3 DEF Return, LetGo, Owners
  <1>4. ASSUME NEW h \in Threads, SubscribeLock(h)
        PROVE  RefInv'
    BY <1>4 DEF SubscribeLock, Owners
  <1>5. ASSUME NEW h \in Threads, SubscribeUnlock(h)
        PROVE  RefInv'
    BY <1>5 DEF SubscribeUnlock, Owners
  <1>6. ASSUME NEW h \in Threads, NEW e \in todo[h], Visit(h, e)
        PROVE  RefInv'
    <2>1. CASE ~Alive(Entry(e))
      BY <1>6, <2>1 DEF Visit, Owners
    <2>2. CASE Alive(Entry(e))
      <3> DEFINE x == Entry(e)
      <3>1. x \in Subs
        BY <1>0, <1>6 DEF Visit
      <3>2. refs[x] # {}
        BY <2>2 DEF Alive
      <3>3. /\ refs' = [refs EXCEPT ![x] = @ \cup {<<h, "tmp">>}]
            /\ cur' = [cur EXCEPT ![h] = {x}]
        BY <1>6, <2>2 DEF Visit
      <3> HIDE DEF x
      <3> QED
        BY <1>6, <3>1, <3>2, <3>3 DEF Visit, Owners
    <2> QED
      BY <2>1, <2>2
  <1>7. ASSUME NEW h \in Threads, Unvisit(h)
        PROVE  RefInv'
    BY <1>7 DEF Unvisit, LetGo, Found, Owners
  <1>8. ASSUME NEW h \in Threads, SubscribePush(h)
        PROVE  RefInv'
    BY <1>8 DEF SubscribePush, Owners
  <1>9. ASSUME NEW h \in Threads, UnsubscribeLock(h)
        PROVE  RefInv'
    BY <1>9 DEF UnsubscribeLock, Owners
  <1>10. ASSUME NEW h \in Threads, UnsubscribeErase(h)
        PROVE  RefInv'
    BY <1>10 DEF UnsubscribeErase, Owners
  <1>11. ASSUME NEW h \in Threads, PublishLock(h)
        PROVE  RefInv'
    BY <1>11 DEF PublishLock, Owners
  <1>12. ASSUME NEW h \in Threads, PublishUnlock(h)
        PROVE  RefInv'
    BY <1>12 DEF PublishUnlock, Owners
  <1>13. ASSUME NEW h \in Threads, NEW e \in todo[h], Snapshot(h, e)
        PROVE  RefInv'
    <2>1. CASE ~Alive(Entry(e))
      BY <1>13, <2>1 DEF Snapshot, Owners
    <2>2. CASE Alive(Entry(e))
      <3> DEFINE x == Entry(e)
      <3>1. x \in Subs
        BY <1>0, <1>13 DEF Snapshot
      <3>2. refs[x] # {}
        BY <2>2 DEF Alive
      <3>3. /\ refs' = [refs EXCEPT ![x] = @ \cup {<<h, "live">>}]
            /\ live' = [live EXCEPT ![h] = @ \cup {x}]
        BY <1>13, <2>2 DEF Snapshot
      <3> HIDE DEF x
      <3> QED
        BY <1>13, <3>1, <3>2, <3>3 DEF Snapshot, Owners
    <2> QED
      BY <2>1, <2>2
  <1>14. ASSUME NEW h \in Threads, Collect(h)
        PROVE  RefInv'
    BY <1>14 DEF Collect, Owners
  <1>15. ASSUME NEW h \in Threads, NEW s \in unsent[h], Deliver(h, s)
        PROVE  RefInv'
    BY <1>15 DEF Deliver, Owners
  <1>16. ASSUME NEW h \in Threads, DropSnapshot(h)
        PROVE  RefInv'
    <2>1. CASE live[h] = {} /\ UNCHANGED <<refs, ret, dying, live>>
      BY <1>16, <2>1 DEF DropSnapshot, Owners
    <2>2. CASE \E s \in live[h] : /\ LetGo(h, s, <<h, "live">>, "deliver")
                                  /\ live' = [live EXCEPT ![h] = @ \ {s}]
      <3>0. PICK s \in live[h] : /\ LetGo(h, s, <<h, "live">>, "deliver")
                                 /\ live' = [live EXCEPT ![h] = @ \ {s}]
        BY <2>2
      <3>1. s \in Subs
        BY DEF HeldTypeOK
      <3>2. refs' = [refs EXCEPT ![s] = @ \ {<<h, "live">>}] /\ me' = me
        BY <1>16, <3>0 DEF DropSnapshot, LetGo
      <3>3. ASSUME NEW i \in Threads, NEW r \in me'[i]
            PROVE  <<i, "call">> \in refs'[r]
        BY <3>1, <3>2, <3>3
      <3>4. ASSUME NEW i \in Threads, NEW r \in live'[i]
            PROVE  <<i, "live">> \in refs'[r]
        <4>1. r \in live[i] /\ (i = h => r # s)
          BY <3>0, <3>4
        <4>2. <<i, "live">> \in refs[r] /\ r \in Subs
          BY <4>1
        <4> QED
          BY <3>1, <3>2, <4>1, <4>2
      <3> QED
        BY <3>3, <3>4
    <2> QED
      BY <1>16, <2>1, <2>2 DEF DropSnapshot
  <1>17. CASE UNCHANGED vars
    BY <1>17 DEF vars, Owners
  <1> QED
    BY <1>1, <1>2, <1>3, <1>4, <1>5, <1>6, <1>7, <1>8, <1>9, <1>10, <1>11, <1>12, <1>13, <1>14, <1>15, <1>16, <1>17
       DEF Next, Step

(* The dead stay dead. *)
LEMMA DeadStep ==
    ASSUME IInv, [Next]_vars
    PROVE  DeadInv'
  <1>0. \A h \in Threads : pc[h] \in {"look", "erase", "snapshot"} =>
            \A e \in todo[h] : Entry(e) \in Subs
    BY TodoType
  <1> USE DEF IInv, TypeOK, BusTypeOK, HeldTypeOK, AtMostOne, DeadInv
  <1>1. ASSUME NEW h \in Threads, NEW s \in Subs, NEW t \in Topics,
               NEW op \in {"subscribe", "publish"}, Call(h, op, s, t)
        PROVE  DeadInv'
    BY <1>1 DEF Call, Owners, RefInv
  <1>2. ASSUME NEW h \in Threads, NEW s \in Subs, EndSession(h, s)
        PROVE  DeadInv'
    <2>1. CASE refs[s] = {App}
      BY <1>2, <2>1 DEF EndSession, LetGo, Owners
    <2>2. CASE refs[s] # {App}
      BY <1>2, <2>2 DEF EndSession, LetGo, Owners
    <2> QED
      BY <2>1, <2>2
  <1>3. ASSUME NEW h \in Threads, Return(h)
        PROVE  DeadInv'
    BY <1>3 DEF Return, LetGo, Owners, RefInv
  <1>4. ASSUME NEW h \in Threads, SubscribeLock(h)
        PROVE  DeadInv'
    BY <1>4 DEF SubscribeLock, Owners, RefInv
  <1>5. ASSUME NEW h \in Threads, SubscribeUnlock(h)
        PROVE  DeadInv'
    BY <1>5 DEF SubscribeUnlock, Owners, RefInv
  <1>6. ASSUME NEW h \in Threads, NEW e \in todo[h], Visit(h, e)
        PROVE  DeadInv'
    <2>1. CASE ~Alive(Entry(e))
      BY <1>6, <2>1 DEF Visit, Owners, RefInv
    <2>2. CASE Alive(Entry(e))
      <3> DEFINE x == Entry(e)
      <3>1. x \in Subs
        BY <1>0, <1>6 DEF Visit
      <3>2. refs[x] # {}
        BY <2>2 DEF Alive
      <3>3. /\ refs' = [refs EXCEPT ![x] = @ \cup {<<h, "tmp">>}]
            /\ cur' = [cur EXCEPT ![h] = {x}]
        BY <1>6, <2>2 DEF Visit
      <3> HIDE DEF x
      <3> QED
        BY <1>6, <3>1, <3>2, <3>3 DEF Visit, Owners, RefInv
    <2> QED
      BY <2>1, <2>2
  <1>7. ASSUME NEW h \in Threads, Unvisit(h)
        PROVE  DeadInv'
    BY <1>7 DEF Unvisit, LetGo, Found, Owners, RefInv
  <1>8. ASSUME NEW h \in Threads, SubscribePush(h)
        PROVE  DeadInv'
    BY <1>8 DEF SubscribePush, Owners, RefInv
  <1>9. ASSUME NEW h \in Threads, UnsubscribeLock(h)
        PROVE  DeadInv'
    BY <1>9 DEF UnsubscribeLock, Owners, RefInv
  <1>10. ASSUME NEW h \in Threads, UnsubscribeErase(h)
        PROVE  DeadInv'
    BY <1>10 DEF UnsubscribeErase, Owners, RefInv
  <1>11. ASSUME NEW h \in Threads, PublishLock(h)
        PROVE  DeadInv'
    BY <1>11 DEF PublishLock, Owners, RefInv
  <1>12. ASSUME NEW h \in Threads, PublishUnlock(h)
        PROVE  DeadInv'
    BY <1>12 DEF PublishUnlock, Owners, RefInv
  <1>13. ASSUME NEW h \in Threads, NEW e \in todo[h], Snapshot(h, e)
        PROVE  DeadInv'
    <2>1. CASE ~Alive(Entry(e))
      BY <1>13, <2>1 DEF Snapshot, Owners, RefInv
    <2>2. CASE Alive(Entry(e))
      <3> DEFINE x == Entry(e)
      <3>1. x \in Subs
        BY <1>0, <1>13 DEF Snapshot
      <3>2. refs[x] # {}
        BY <2>2 DEF Alive
      <3>3. /\ refs' = [refs EXCEPT ![x] = @ \cup {<<h, "live">>}]
            /\ live' = [live EXCEPT ![h] = @ \cup {x}]
        BY <1>13, <2>2 DEF Snapshot
      <3> HIDE DEF x
      <3> QED
        BY <1>13, <3>1, <3>2, <3>3 DEF Snapshot, Owners, RefInv
    <2> QED
      BY <2>1, <2>2
  <1>14. ASSUME NEW h \in Threads, Collect(h)
        PROVE  DeadInv'
    BY <1>14 DEF Collect, Owners, RefInv
  <1>15. ASSUME NEW h \in Threads, NEW s \in unsent[h], Deliver(h, s)
        PROVE  DeadInv'
    BY <1>15 DEF Deliver, Owners, RefInv
  <1>16. ASSUME NEW h \in Threads, DropSnapshot(h)
        PROVE  DeadInv'
    <2>1. CASE live[h] = {} /\ UNCHANGED <<refs, ret, dying, live>>
      BY <1>16, <2>1 DEF DropSnapshot, Owners, RefInv
    <2>2. CASE \E s \in live[h] : /\ LetGo(h, s, <<h, "live">>, "deliver")
                                  /\ live' = [live EXCEPT ![h] = @ \ {s}]
      <3>0. PICK s \in live[h] : /\ LetGo(h, s, <<h, "live">>, "deliver")
                                 /\ live' = [live EXCEPT ![h] = @ \ {s}]
        BY <2>2
      <3>1. s \in Subs
        BY DEF HeldTypeOK
      <3>2. CASE refs[s] = {<<h, "live">>}
        BY <1>16, <3>0, <3>1, <3>2 DEF DropSnapshot, LetGo, Owners, RefInv
      <3>3. CASE refs[s] # {<<h, "live">>}
        BY <1>16, <3>0, <3>1, <3>3 DEF DropSnapshot, LetGo, Owners, RefInv
      <3> QED
        BY <3>2, <3>3
    <2> QED
      BY <1>16, <2>1, <2>2 DEF DropSnapshot
  <1>17. CASE UNCHANGED vars
    BY <1>17 DEF vars, Owners, RefInv
  <1> QED
    BY <1>1, <1>2, <1>3, <1>4, <1>5, <1>6, <1>7, <1>8, <1>9, <1>10, <1>11, <1>12, <1>13, <1>14, <1>15, <1>16, <1>17
       DEF Next, Step


(* Whoever changes topics_ leaves nobody in the middle of a scan.            *)
LEMMA NobodyScans ==
    ASSUME IInv, NEW h \in Threads, SubscribePush(h) \/ UnsubscribeErase(h) \/ Collect(h)
    PROVE  \A i \in Threads : pc'[i] \notin {"look", "erase", "snapshot"}
  <1>1. CASE SubscribePush(h) \/ UnsubscribeErase(h)
    <2>1. pc[h] \in Exclusive /\ \A i \in Threads : i # h => pc'[i] = pc[i]
      BY <1>1 DEF SubscribePush, UnsubscribeErase, Exclusive, IInv, TypeOK, CallTypeOK
    <2>2. pc'[h] \notin {"look", "erase", "snapshot"}
      BY <1>1 DEF SubscribePush, UnsubscribeErase, IInv, TypeOK, CallTypeOK, LockInv
    <2> QED
      BY <2>1, <2>2, Alone DEF Exclusive
  <1>2. CASE Collect(h)
    BY <1>2 DEF Collect, IInv, TypeOK, CallTypeOK, LockInv, Exclusive
  <1> QED
    BY <1>1, <1>2

(* Only subscribe(), unsubscribe() and the collection in publish() change    *)
(* topics_.                                                                  *)
LEMMA TopicsChange ==
    ASSUME [Next]_vars
    PROVE  \/ UNCHANGED <<topics, destroyed>>
           \/ \E h \in Threads : SubscribePush(h) \/ UnsubscribeErase(h) \/ Collect(h)
  <1>1. ASSUME NEW h \in Threads,
               \/ Return(h) \/ SubscribeLock(h) \/ Unvisit(h) \/ SubscribeUnlock(h)
               \/ UnsubscribeLock(h) \/ PublishLock(h) \/ PublishUnlock(h) \/ DropSnapshot(h)
        PROVE  UNCHANGED <<topics, destroyed>>
    BY <1>1 DEF Return, SubscribeLock, Unvisit, SubscribeUnlock, UnsubscribeLock, PublishLock,
                PublishUnlock, DropSnapshot
  <1>2. ASSUME NEW h \in Threads, NEW e \in todo[h], Visit(h, e) \/ Snapshot(h, e)
        PROVE  UNCHANGED <<topics, destroyed>>
    BY <1>2 DEF Visit, Snapshot
  <1>3. ASSUME NEW h \in Threads, NEW s \in unsent[h], Deliver(h, s)
        PROVE  UNCHANGED <<topics, destroyed>>
    BY <1>3 DEF Deliver
  <1>4. ASSUME NEW h \in Threads, NEW s \in Subs,
               EndSession(h, s) \/ \E t \in Topics, op \in {"subscribe", "publish"} : Call(h, op, s, t)
        PROVE  UNCHANGED <<topics, destroyed>>
    BY <1>4 DEF EndSession, Call
  <1>5. CASE UNCHANGED vars
    BY <1>5 DEF vars
  <1> QED
    BY <1>1, <1>2, <1>3, <1>4, <1>5 DEF Next, Step

(* Erasing dead entries: nothing new, nothing twice, nothing alive lost.     *)
LEMMA Shrinks ==
    ASSUME IInv, NEW h \in Threads, UnsubscribeErase(h) \/ Collect(h), NEW t \in Topics
    PROVE  /\ \A j \in 1..Len(topics'[t]) : \E k \in 1..Len(topics[t]) : topics'[t][j] = topics[t][k]
           /\ \A j, k \in 1..Len(topics'[t]) : topics'[t][j] = topics'[t][k] => j = k
           /\ \A k \in 1..Len(topics[t]) : Alive(topics[t][k]) =>
                  \E j \in 1..Len(topics'[t]) : topics'[t][j] = topics[t][k]
  <1>1. topics[t] \in Seq(Subs) /\ topics \in [Topics -> Seq(Subs)] /\ topic[h] \in Topics
    BY DEF IInv, TypeOK, BusTypeOK, CallTypeOK
  <1>2. \A j, k \in 1..Len(topics[t]) : topics[t][j] = topics[t][k] => j = k
    BY DEF IInv, NoDuplicates
  <1>3. CASE topics'[t] = topics[t]
    BY <1>2, <1>3
  <1>4. ASSUME NEW G, topics'[t] = Without(t, G),
               \A k \in 1..Len(topics[t]) : <<t, k>> \in G => ~Alive(topics[t][k])
        PROVE  /\ \A j \in 1..Len(topics'[t]) :
                      \E k \in 1..Len(topics[t]) : topics'[t][j] = topics[t][k]
               /\ \A j, k \in 1..Len(topics'[t]) : topics'[t][j] = topics'[t][k] => j = k
               /\ \A k \in 1..Len(topics[t]) : Alive(topics[t][k]) =>
                      \E j \in 1..Len(topics'[t]) : topics'[t][j] = topics[t][k]
    <2> DEFINE K == Kept(t, G)
               W == Without(t, G)
    <2>1. /\ \A k \in K : \E j \in 1..Len(W) : W[j] = topics[t][k]
          /\ \A j \in 1..Len(W) : \E k \in K : Place(K, k) = j /\ W[j] = topics[t][k]
      BY <1>1, WithoutLemma
    <2>2. \A k : k \in K <=> k \in 1..Len(topics[t]) /\ <<t, k>> \notin G
      BY DEF Kept
    <2>3. topics'[t] = W
      BY <1>4
    <2> HIDE DEF K, W
    <2>4. ASSUME NEW i \in 1..Len(W), NEW j \in 1..Len(W), W[i] = W[j]
          PROVE  i = j
      <3>1. PICK k \in K : Place(K, k) = i /\ W[i] = topics[t][k]
        BY <2>1
      <3>2. PICK m \in K : Place(K, m) = j /\ W[j] = topics[t][m]
        BY <2>1
      <3>3. k = m
        BY <1>2, <2>2, <2>4, <3>1, <3>2
      <3> QED
        BY <3>1, <3>2, <3>3
    <2> QED
      BY <1>4, <2>1, <2>2, <2>3, <2>4
  <1>5. CASE UnsubscribeErase(h)
    <2>1. topics'[t] = Without(t, gone[h])
      BY <1>5 DEF UnsubscribeErase
    <2>2. \A e \in gone[h] : refs[Entry(e)] = {}
      BY <1>5 DEF UnsubscribeErase, IInv, ScanInv
    <2>3. \A k \in 1..Len(topics[t]) : <<t, k>> \in gone[h] => ~Alive(topics[t][k])
      BY <2>2 DEF Entry, Alive
    <2> QED
      BY <1>4, <2>1, <2>3
  <1>6. CASE Collect(h)
    <2> DEFINE G == {e \in Entries({topic[h]}) : Expired(h, e)}
    <2>1. CASE t # topic[h]
      BY <1>1, <1>3, <1>6, <2>1 DEF Collect
    <2>2. CASE t = topic[h]
      <3>1. topics'[t] = Without(t, G)
        BY <1>1, <1>6, <2>2 DEF Collect
      <3>2. \A k \in 1..Len(topics[t]) : <<t, k>> \in G => ~Alive(topics[t][k])
        BY DEF Expired, Entry
      <3> QED
        BY <1>4, <3>1, <3>2
    <2> QED
      BY <2>1, <2>2
  <1> QED
    BY <1>5, <1>6

-----------------------------------------------------------------------------
(* The scans.  A scan of one thread is disturbed by no other thread, since    *)
(* the vectors stay and the dead stay dead; so only the thread's own steps    *)
(* matter.                                                                    *)

Scanning == {"look", "erase", "snapshot"}
Move(h)  == \/ Step(h)
            \/ \E s \in Subs : EndSession(h, s)
            \/ \E s \in Subs, t \in Topics, op \in {"subscribe", "publish"} : Call(h, op, s, t)

(* A thread leaves the other threads' local state alone. *)
LEMMA OthersKeep ==
    ASSUME IInv, NEW h \in Threads, Move(h), NEW i \in Threads, i # h
    PROVE  /\ pc'[i] = pc[i] /\ todo'[i] = todo[i] /\ gone'[i] = gone[i] /\ cur'[i] = cur[i]
           /\ me'[i] = me[i] /\ dying'[i] = dying[i] /\ topic'[i] = topic[i]
  <1> USE DEF IInv, TypeOK, CallTypeOK, HeldTypeOK, LetGo
  <1>1. CASE \/ Return(h) \/ SubscribeLock(h) \/ Unvisit(h) \/ SubscribePush(h) \/ SubscribeUnlock(h)
    BY <1>1 DEF Return, SubscribeLock, Unvisit, SubscribePush, SubscribeUnlock
  <1>2. CASE \/ UnsubscribeLock(h) \/ UnsubscribeErase(h) \/ PublishLock(h) \/ PublishUnlock(h)
             \/ Collect(h) \/ DropSnapshot(h)
    BY <1>2 DEF UnsubscribeLock, UnsubscribeErase, PublishLock, PublishUnlock, Collect, DropSnapshot
  <1>3. CASE \E e \in todo[h] : Visit(h, e) \/ Snapshot(h, e)
    BY <1>3 DEF Visit, Snapshot
  <1>4. CASE \E s \in unsent[h] : Deliver(h, s)
    BY <1>4 DEF Deliver
  <1>5. CASE \E s \in Subs : EndSession(h, s)
    BY <1>5 DEF EndSession
  <1>6. CASE \E s \in Subs, t \in Topics, op \in {"subscribe", "publish"} : Call(h, op, s, t)
    BY <1>6 DEF Call
  <1> QED
    BY <1>1, <1>2, <1>3, <1>4, <1>5, <1>6 DEF Move, Step

(* No step gives a reference to a session that has none left.                *)
LEMMA DeadStays ==
    ASSUME IInv, NEW h \in Threads, Move(h), NEW r \in Subs, refs[r] = {}
    PROVE  refs'[r] = {}
  <1>0. refs \in [Subs -> SUBSET Owners]
    BY DEF IInv, TypeOK, BusTypeOK
  <1>1. ASSUME NEW s, NEW o, NEW l, LetGo(h, s, o, l)
        PROVE  refs'[r] = {}
    BY <1>0, <1>1 DEF LetGo
  <1>2. CASE \/ SubscribeLock(h) \/ SubscribePush(h) \/ SubscribeUnlock(h) \/ UnsubscribeLock(h)
             \/ UnsubscribeErase(h) \/ PublishLock(h) \/ PublishUnlock(h) \/ Collect(h)
    BY <1>2 DEF SubscribeLock, SubscribePush, SubscribeUnlock, UnsubscribeLock, UnsubscribeErase,
                PublishLock, PublishUnlock, Collect
  <1>3. CASE Return(h) \/ Unvisit(h) \/ DropSnapshot(h)
    BY <1>1, <1>3 DEF Return, Unvisit, DropSnapshot
  <1>4. ASSUME NEW e \in todo[h], Visit(h, e) \/ Snapshot(h, e)
        PROVE  refs'[r] = {}
    <2>1. CASE refs' = refs
      BY <2>1
    <2>2. CASE refs' # refs
      <3>1. PICK o : refs' = [refs EXCEPT ![Entry(e)] = @ \cup {o}]
        BY <1>4, <2>2 DEF Visit, Snapshot
      <3>2. refs[Entry(e)] # {}
        BY <1>4, <2>2 DEF Visit, Snapshot, Alive
      <3> QED
        BY <1>0, <3>1, <3>2
    <2> QED
      BY <2>1, <2>2
  <1>5. CASE \E s \in unsent[h] : Deliver(h, s)
    BY <1>5 DEF Deliver
  <1>6. CASE \E s \in Subs : EndSession(h, s)
    BY <1>1, <1>6 DEF EndSession
  <1>7. CASE \E s \in Subs, t \in Topics, op \in {"subscribe", "publish"} : Call(h, op, s, t)
    BY <1>0, <1>7 DEF Call
  <1> QED
    BY <1>2, <1>3, <1>4, <1>5, <1>6, <1>7 DEF Move, Step

(* The steps a thread takes into or within a scan.                           *)
LEMMA ScanMoves ==
    ASSUME IInv, NEW h \in Threads, Move(h), pc'[h] \in Scanning
    PROVE  /\ UNCHANGED topics
           /\ \/ SubscribeLock(h) \/ UnsubscribeLock(h) \/ PublishLock(h) \/ Unvisit(h)
              \/ \E e \in todo[h] : Visit(h, e) \/ Snapshot(h, e)
  <1> USE DEF IInv, TypeOK, CallTypeOK, LockInv, Exclusive, Scanning
  <1>1. CASE Return(h) \/ DropSnapshot(h)
    BY <1>1 DEF Return, DropSnapshot, LetGo
  <1>2. CASE SubscribePush(h) \/ SubscribeUnlock(h) \/ PublishUnlock(h) \/ Collect(h)
    BY <1>2 DEF SubscribePush, SubscribeUnlock, PublishUnlock, Collect
  <1>3. CASE UnsubscribeErase(h)
    BY <1>3 DEF UnsubscribeErase
  <1>4. CASE \E s \in unsent[h] : Deliver(h, s)
    BY <1>4 DEF Deliver
  <1>5. CASE \E s \in Subs : EndSession(h, s)
    BY <1>5 DEF EndSession, LetGo
  <1>6. CASE \E s \in Subs, t \in Topics, op \in {"subscribe", "publish"} : Call(h, op, s, t)
    BY <1>6 DEF Call
  <1>7. CASE \/ SubscribeLock(h) \/ UnsubscribeLock(h) \/ PublishLock(h) \/ Unvisit(h)
             \/ \E e \in todo[h] : Visit(h, e) \/ Snapshot(h, e)
    BY <1>7 DEF SubscribeLock, UnsubscribeLock, PublishLock, Unvisit, Visit, Snapshot
  <1> QED
    BY <1>1, <1>2, <1>3, <1>4, <1>5, <1>6, <1>7 DEF Move, Step

(* A scan that goes on goes on over the same vectors. *)
LEMMA SameVectors ==
    ASSUME IInv, NEW h \in Threads, Move(h), NEW i \in Threads, pc'[i] \in Scanning
    PROVE  UNCHANGED topics
  <1>1. [Next]_vars
    BY DEF Next, Move
  <1>2. ~(\E j \in Threads : SubscribePush(j) \/ UnsubscribeErase(j) \/ Collect(j))
    BY NobodyScans DEF Scanning
  <1> QED
    BY <1>1, <1>2, TopicsChange

(* Scans stay among the entries. *)
LEMMA ScanStep ==
    ASSUME IInv, NEW h \in Threads, Move(h)
    PROVE  ScanInv'
  <1> DEFINE Ok(i) == /\ pc[i] \in Scanning => \A e \in todo[i] : IsEntry(e)
                      /\ pc[i] = "erase" => \A e \in gone[i] : IsEntry(e) /\ refs[Entry(e)] = {}
  <1> SUFFICES ASSUME NEW i \in Threads, pc'[i] \in Scanning
               PROVE  Ok(i)'
    BY DEF ScanInv, Scanning
  <1>1. topics' = topics
    BY SameVectors
  <1>2. /\ todo \in [Threads -> SUBSET (Topics \X Nat)] /\ gone \in [Threads -> SUBSET (Topics \X Nat)]
        /\ pc \in [Threads -> Labels] /\ BusTypeOK /\ topic[h] \in Topics
    BY DEF IInv, TypeOK, CallTypeOK
  <1>3. ASSUME NEW e, IsEntry(e)
        PROVE  IsEntry(e)'
    BY <1>1, <1>3 DEF IsEntry
  <1>4. ASSUME NEW e \in Topics \X Nat, IsEntry(e), refs[Entry(e)] = {}
        PROVE  refs'[Entry(e)'] = {}
    <2>1. Entry(e)' = Entry(e)
      BY <1>1 DEF Entry
    <2> QED
      BY <1>2, <1>4, <2>1, EntryType, DeadStays
  <1>5. CASE i # h
    <2>1. pc'[i] = pc[i] /\ todo'[i] = todo[i] /\ gone'[i] = gone[i]
      BY <1>5, OthersKeep
    <2>2. /\ \A e \in todo[i] : IsEntry(e)
          /\ pc[i] = "erase" => \A e \in gone[i] : IsEntry(e) /\ refs[Entry(e)] = {}
      BY <2>1 DEF IInv, ScanInv, Scanning
    <2> QED
      BY <1>2, <1>3, <1>4, <2>1, <2>2
  <1>6. CASE i = h
    <2>0. \A e \in Entries({topic[h]}) \cup Entries(Topics) : IsEntry(e)
      BY <1>2, EntriesType
    <2>1. CASE SubscribeLock(h)
      BY <1>2, <1>3, <1>6, <2>0, <2>1 DEF SubscribeLock
    <2>2. CASE UnsubscribeLock(h)
      BY <1>2, <1>3, <1>6, <2>0, <2>2 DEF UnsubscribeLock
    <2>3. CASE PublishLock(h)
      BY <1>2, <1>3, <1>6, <2>0, <2>3 DEF PublishLock
    <2>4. ASSUME pc[h] = pc'[h], todo'[h] \subseteq todo[h],
                 \A e \in gone'[h] : e \in gone[h] \/ (e \in todo[h] /\ refs[Entry(e)] = {})
          PROVE  Ok(h)'
      <3>1. /\ \A e \in todo[h] : IsEntry(e)
            /\ pc[h] = "erase" => \A e \in gone[h] : IsEntry(e) /\ refs[Entry(e)] = {}
        BY <1>6, <2>4 DEF IInv, ScanInv, Scanning
      <3> QED
        BY <1>2, <1>3, <1>4, <2>4, <3>1
    <2>5. CASE Unvisit(h)
      <3>1. pc'[h] = pc[h] /\ todo' = todo /\ gone' = gone
        BY <1>2, <1>6, <2>5 DEF Unvisit, LetGo, Scanning, IInv, LockInv, Exclusive
      <3> QED
        BY <1>6, <2>4, <3>1
    <2>6. ASSUME NEW e \in todo[h], Visit(h, e) \/ Snapshot(h, e)
          PROVE  Ok(h)'
      <3>1. /\ pc' = pc /\ todo'[h] \subseteq todo[h]
            /\ \A x \in gone'[h] : x \in gone[h] \/ (x = e /\ refs[Entry(e)] = {})
        BY <1>2, <2>6 DEF Visit, Snapshot, Alive
      <3> QED
        BY <2>4, <3>1
    <2> QED
      BY <1>6, <2>1, <2>2, <2>3, <2>5, <2>6, ScanMoves
  <1> QED
    BY <1>5, <1>6

(* The search passes over no entry of its session. *)
LEMMA LookStep ==
    ASSUME IInv, NEW h \in Threads, Move(h)
    PROVE  LookInv'
  <1> DEFINE Here(t, s, D) == \A k \in 1..Len(topics[t]) : topics[t][k] = s => <<t, k>> \in D
  <1> SUFFICES ASSUME NEW i \in Threads, pc'[i] = "look", NEW s \in me'[i], s \notin cur'[i]
               PROVE  Here(topic[i], s, todo[i])'
    BY DEF LookInv
  <1>1. topics' = topics
    BY SameVectors DEF Scanning
  <1>2. /\ pc \in [Threads -> Labels] /\ me \in [Threads -> SUBSET Subs]
        /\ todo \in [Threads -> SUBSET (Topics \X Nat)] /\ cur \in [Threads -> SUBSET Subs]
        /\ topic \in [Threads -> Topics] /\ BusTypeOK
    BY DEF IInv, TypeOK, CallTypeOK, HeldTypeOK
  <1>3. ASSUME pc[i] = "look", me'[i] = me[i], topic'[i] = topic[i], s \notin cur[i],
               \A e \in todo[i] : e \in todo'[i] \/ Entry(e) # s
        PROVE  Here(topic[i], s, todo[i])'
    <2>1. Here(topic[i], s, todo[i])
      BY <1>3 DEF IInv, LookInv
    <2> QED
      BY <1>1, <1>3, <2>1 DEF Entry
  <1>4. CASE i # h
    BY <1>2, <1>3, <1>4, OthersKeep
  <1>5. CASE i = h
    <2>1. CASE SubscribeLock(h)
      <3>1. todo'[h] = Entries({topic[h]}) /\ topic' = topic
        BY <1>2, <2>1 DEF SubscribeLock
      <3> QED
        BY <1>1, <1>5, <3>1, EntriesLemma
    <2>2. CASE UnsubscribeLock(h) \/ PublishLock(h)
      BY <1>2, <1>5, <2>2 DEF UnsubscribeLock, PublishLock
    <2>3. CASE Unvisit(h)
      <3>1. PICK r \in cur[h] : LetGo(h, r, <<h, "tmp">>, IF Found(h, r) THEN "unlock" ELSE pc[h])
        BY <2>3 DEF Unvisit
      <3>2. pc[h] = "look" /\ ~Found(h, r)
        BY <1>2, <1>5, <3>1 DEF LetGo, IInv, LockInv, Exclusive
      <3>3. cur[h] = {r}
        BY <3>1 DEF IInv, TypeOK, HeldTypeOK, AtMostOne
      <3> QED
        BY <1>3, <1>5, <2>3, <3>2, <3>3 DEF Unvisit, Found
    <2>4. ASSUME NEW e \in todo[h], Visit(h, e)
          PROVE  Here(topic[i], s, todo[i])'
      <3>1. pc[h] = "look" /\ me' = me /\ topic' = topic /\ todo'[h] = todo[h] \ {e} /\ cur[h] = {}
        BY <1>2, <1>5, <2>4 DEF Visit
      <3>2. refs[s] # {}
        BY <1>5, <3>1 DEF IInv, RefInv
      <3>3. Entry(e) # s
        BY <1>2, <1>5, <2>4, <3>1, <3>2 DEF Visit, Alive
      <3> QED
        BY <1>3, <1>5, <3>1, <3>3
    <2>5. ASSUME NEW e \in todo[h], Snapshot(h, e)
          PROVE  FALSE
      BY <1>5, <2>5 DEF Snapshot
    <2> QED
      BY <1>5, <2>1, <2>2, <2>3, <2>4, <2>5, ScanMoves DEF Scanning
  <1> QED
    BY <1>4, <1>5

(* The scan for a dying session is complete. *)
LEMMA EraseStep ==
    ASSUME IInv, NEW h \in Threads, Move(h)
    PROVE  EraseInv'
  <1> SUFFICES ASSUME NEW i \in Threads, pc'[i] = "erase", NEW t \in Topics,
                      NEW k \in 1..Len(topics'[t]), topics'[t][k] \in dying'[i]
               PROVE  <<t, k>> \in todo'[i] \cup gone'[i]
    BY DEF EraseInv
  <1>1. topics' = topics
    BY SameVectors DEF Scanning
  <1>2. /\ pc \in [Threads -> Labels] /\ dying \in [Threads -> SUBSET Subs]
        /\ todo \in [Threads -> SUBSET (Topics \X Nat)] /\ cur \in [Threads -> SUBSET Subs]
        /\ gone \in [Threads -> SUBSET (Topics \X Nat)] /\ BusTypeOK
    BY DEF IInv, TypeOK, CallTypeOK, HeldTypeOK
  <1>3. ASSUME pc[i] = "erase", dying'[i] = dying[i], todo[i] \cup gone[i] \subseteq todo'[i] \cup gone'[i]
        PROVE  <<t, k>> \in todo'[i] \cup gone'[i]
    BY <1>1, <1>3 DEF IInv, EraseInv
  <1>4. CASE i # h
    BY <1>2, <1>3, <1>4, OthersKeep
  <1>5. CASE i = h
    <2>1. CASE UnsubscribeLock(h)
      <3>1. todo'[h] = Entries(Topics)
        BY <1>2, <2>1 DEF UnsubscribeLock
      <3> QED
        BY <1>1, <1>5, <3>1, EntriesLemma
    <2>2. CASE SubscribeLock(h) \/ PublishLock(h)
      BY <1>2, <1>5, <2>2 DEF SubscribeLock, PublishLock
    <2>3. CASE Unvisit(h)
      <3>1. pc[h] = "erase" /\ dying' = dying /\ todo' = todo /\ gone' = gone
        BY <1>2, <1>5, <2>3 DEF Unvisit, LetGo, IInv, LockInv, Exclusive
      <3> QED
        BY <1>3, <1>5, <3>1
    <2>4. ASSUME NEW e \in todo[h], Visit(h, e)
          PROVE  <<t, k>> \in todo'[i] \cup gone'[i]
      <3>1. pc[h] = "erase" /\ dying' = dying /\ todo'[h] = todo[h] \ {e}
        BY <1>2, <1>5, <2>4 DEF Visit
      <3>2. CASE Alive(Entry(e))
        <4>1. Entry(e) \notin dying[h]
          BY <3>2 DEF Alive, IInv, DeadInv
        <4>2. <<t, k>> # e
          BY <1>1, <1>5, <3>1, <4>1 DEF Entry
        <4>3. <<t, k>> \in todo[h] \cup gone[h] /\ gone' = gone
          BY <1>1, <1>5, <2>4, <3>1, <3>2 DEF IInv, EraseInv, Visit
        <4> QED
          BY <1>5, <3>1, <4>2, <4>3
      <3>3. CASE ~Alive(Entry(e))
        <4>1. gone'[h] = gone[h] \cup {e}
          BY <1>2, <2>4, <3>3 DEF Visit
        <4> QED
          BY <1>3, <1>5, <3>1, <4>1
      <3> QED
        BY <3>2, <3>3
    <2>5. ASSUME NEW e \in todo[h], Snapshot(h, e)
          PROVE  FALSE
      BY <1>5, <2>5 DEF Snapshot
    <2> QED
      BY <1>5, <2>1, <2>2, <2>3, <2>4, <2>5, ScanMoves DEF Scanning
  <1> QED
    BY <1>4, <1>5

-----------------------------------------------------------------------------
(* The topics. *)

(* subscribe() appends a session that lives and is not in the topic yet.     *)
LEMMA PushesNew ==
    ASSUME IInv, NEW h \in Threads, SubscribePush(h)
    PROVE  \E s \in Subs :
              /\ topic[h] \in Topics /\ topics[topic[h]] \in Seq(Subs)
              /\ topics' = [topics EXCEPT ![topic[h]] = Append(@, s)]
              /\ \A k \in 1..Len(topics[topic[h]]) : topics[topic[h]][k] # s
              /\ s \notin destroyed /\ destroyed' = destroyed
  <1>1. PICK s \in me[h] : topics' = [topics EXCEPT ![topic[h]] = Append(@, s)]
    BY DEF SubscribePush
  <1>2. s \in Subs /\ topic[h] \in Topics /\ topics[topic[h]] \in Seq(Subs)
    BY DEF IInv, TypeOK, BusTypeOK, CallTypeOK, HeldTypeOK
  <1>3. \A k \in 1..Len(topics[topic[h]]) : topics[topic[h]][k] # s
    BY DEF SubscribePush, IInv, LookInv
  <1>4. s \notin destroyed
    BY DEF IInv, RefInv, DeadInv
  <1> QED
    BY <1>1, <1>2, <1>3, <1>4 DEF SubscribePush

(* No topic holds a session twice. *)
LEMMA NoDuplicatesStep ==
    ASSUME IInv, [Next]_vars
    PROVE  NoDuplicates'
  <1>1. CASE UNCHANGED <<topics, destroyed>>
    BY <1>1 DEF IInv, NoDuplicates
  <1>2. ASSUME NEW h \in Threads, SubscribePush(h)
        PROVE  NoDuplicates'
    <2>1. PICK s \in Subs :
              /\ topic[h] \in Topics /\ topics[topic[h]] \in Seq(Subs)
              /\ topics' = [topics EXCEPT ![topic[h]] = Append(@, s)]
              /\ \A k \in 1..Len(topics[topic[h]]) : topics[topic[h]][k] # s
      BY <1>2, PushesNew
    <2>2. topics \in [Topics -> Seq(Subs)]
      BY DEF IInv, TypeOK, BusTypeOK
    <2>3. ASSUME NEW t \in Topics, NEW j \in 1..Len(topics'[t]), NEW k \in 1..Len(topics'[t]),
                 topics'[t][j] = topics'[t][k]
          PROVE  j = k
      <3>1. \A a, b \in 1..Len(topics[t]) : topics[t][a] = topics[t][b] => a = b
        BY DEF IInv, NoDuplicates
      <3>2. CASE t # topic[h]
        BY <2>1, <2>2, <2>3, <3>1, <3>2
      <3>3. CASE t = topic[h]
        <4>1. topics'[t] = Append(topics[t], s) /\ topics[t] \in Seq(Subs)
          BY <2>1, <2>2, <3>3
        <4>2. \A a \in 1..Len(topics[t]) : topics[t][a] # s
          BY <2>1, <3>3
        <4> QED
          BY <2>3, <3>1, <4>1, <4>2
      <3> QED
        BY <3>2, <3>3
    <2> QED
      BY <2>3 DEF NoDuplicates
  <1>3. ASSUME NEW h \in Threads, UnsubscribeErase(h) \/ Collect(h)
        PROVE  NoDuplicates'
    BY <1>3, Shrinks DEF NoDuplicates
  <1> QED
    BY <1>1, <1>2, <1>3, TopicsChange

(* A session leaves every topic before its destructor ends, and no topic     *)
(* takes it back.                                                            *)
LEMMA ForgottenStep ==
    ASSUME IInv, [Next]_vars
    PROVE  DestroyedIsForgotten'
  <1>0. \A t \in Topics : \A k \in 1..Len(topics[t]) : topics[t][k] \notin destroyed
    BY DEF IInv, DestroyedIsForgotten, InTopic
  <1>1. CASE UNCHANGED <<topics, destroyed>>
    BY <1>1 DEF IInv, DestroyedIsForgotten, InTopic
  <1>2. ASSUME NEW h \in Threads, SubscribePush(h)
        PROVE  DestroyedIsForgotten'
    <2>1. PICK s \in Subs :
              /\ topic[h] \in Topics /\ topics[topic[h]] \in Seq(Subs)
              /\ topics' = [topics EXCEPT ![topic[h]] = Append(@, s)]
              /\ s \notin destroyed /\ destroyed' = destroyed
      BY <1>2, PushesNew
    <2>2. topics \in [Topics -> Seq(Subs)]
      BY DEF IInv, TypeOK, BusTypeOK
    <2>3. ASSUME NEW t \in Topics, NEW k \in 1..Len(topics'[t])
          PROVE  topics'[t][k] \notin destroyed
      <3>1. CASE t # topic[h]
        BY <1>0, <2>1, <2>2, <3>1
      <3>2. CASE t = topic[h]
        <4>1. topics'[t] = Append(topics[t], s) /\ topics[t] \in Seq(Subs)
          BY <2>1, <2>2, <3>2
        <4> QED
          BY <1>0, <2>1, <4>1
      <3> QED
        BY <3>1, <3>2
    <2> QED
      BY <2>1, <2>3 DEF DestroyedIsForgotten, InTopic
  <1>3. ASSUME NEW h \in Threads, Collect(h)
        PROVE  DestroyedIsForgotten'
    <2>1. destroyed' = destroyed
      BY <1>3 DEF Collect
    <2> QED
      BY <1>0, <1>3, <2>1, Shrinks DEF DestroyedIsForgotten, InTopic
  <1>4. ASSUME NEW h \in Threads, UnsubscribeErase(h)
        PROVE  DestroyedIsForgotten'
    <2>1. destroyed' = destroyed \cup dying[h]
      BY <1>4 DEF UnsubscribeErase
    <2>2. ASSUME NEW t \in Topics, NEW j \in 1..Len(topics'[t])
          PROVE  topics'[t][j] \notin destroyed \cup dying[h]
      <3> DEFINE K == Kept(t, gone[h])
                 W == Without(t, gone[h])
      <3>1. topics[t] \in Seq(Subs) /\ topics'[t] = W
        BY <1>4 DEF UnsubscribeErase, IInv, TypeOK, BusTypeOK
      <3>2. \A n \in 1..Len(W) : \E k \in K : W[n] = topics[t][k]
        BY <3>1, WithoutLemma
      <3>3. PICK k \in K : topics'[t][j] = topics[t][k]
        BY <3>1, <3>2
      <3>4. k \in 1..Len(topics[t]) /\ <<t, k>> \notin gone[h]
        BY DEF Kept
      <3>5. topics[t][k] \notin dying[h]
        BY <1>4, <3>4 DEF UnsubscribeErase, IInv, EraseInv
      <3> QED
        BY <1>0, <3>3, <3>4, <3>5
    <2> QED
      BY <2>1, <2>2 DEF DestroyedIsForgotten, InTopic
  <1> QED
    BY <1>1, <1>2, <1>3, <1>4, TopicsChange

-----------------------------------------------------------------------------
(* The theorems. *)

(* The inductive invariant holds in every reachable state. *)
THEOREM Invariance == Spec => []IInv
  <1>1. IInv /\ [Next]_vars => IInv'
    <2> SUFFICES ASSUME IInv, [Next]_vars
                 PROVE  IInv'
      OBVIOUS
    <2>1. (ScanInv /\ LookInv /\ EraseInv)'
      <3>1. CASE UNCHANGED vars
        BY <3>1 DEF vars, IInv, ScanInv, LookInv, EraseInv, IsEntry, Entry
      <3>2. CASE Next
        <4>1. PICK h \in Threads : Move(h)
          BY <3>2 DEF Next, Move
        <4> QED
          BY <4>1, ScanStep, LookStep, EraseStep
      <3> QED
        BY <3>1, <3>2
    <2> QED
      BY <2>1, LockStep, CallTypeStep, HeldTypeStep, BusTypeStep, RefStep, DeadStep,
         NoDuplicatesStep, ForgottenStep
       DEF IInv, TypeOK
  <1> QED
    BY <1>1, InitInv, PTL DEF Spec

(* Whichever threads subscribe, publish or give up the last reference, each   *)
(* topic holds a session at most once, and none whose destructor has ended.   *)
THEOREM TopicsAreSound == Spec => []SubscriptionsSound
  <1>1. IInv => SubscriptionsSound
    BY DEF IInv, SubscriptionsSound
  <1> QED
    BY <1>1, Invariance, PTL

(* publish() delivers without the lock, yet never to a session that is being  *)
(* or has been destroyed.                                                     *)
THEOREM DeliveryIsSafe == Spec => []DeliversToLiving
  <1>1. IInv => DeliversToLiving
    BY DEF IInv, TypeOK, HeldTypeOK, RefInv, DeadInv, DeliversToLiving, Alive
  <1> QED
    BY <1>1, Invariance, PTL

(* No step of the bus takes a living session out of a topic. *)
THEOREM LiveSubscribersStay == Spec => LiveStays
  <1> DEFINE Stays == \A t \in Topics : \A s \in InTopic(t) : Alive(s) => s \in InTopic(t)'
  <1>1. IInv /\ [Next]_vars => [Stays]_vars
    <2> SUFFICES ASSUME IInv, [Next]_vars, NEW t \in Topics, NEW s \in InTopic(t), Alive(s)
                 PROVE  s \in InTopic(t)'
      OBVIOUS
    <2>0. PICK k \in 1..Len(topics[t]) : topics[t][k] = s
      BY DEF InTopic
    <2>1. CASE UNCHANGED <<topics, destroyed>>
      BY <2>1 DEF InTopic
    <2>2. ASSUME NEW h \in Threads, SubscribePush(h)
          PROVE  s \in InTopic(t)'
      <3>1. PICK r \in Subs :
              /\ topic[h] \in Topics /\ topics[topic[h]] \in Seq(Subs)
              /\ topics' = [topics EXCEPT ![topic[h]] = Append(@, r)]
        BY <2>2, PushesNew
      <3>2. topics \in [Topics -> Seq(Subs)]
        BY DEF IInv, TypeOK, BusTypeOK
      <3>3. k \in 1..Len(topics'[t]) /\ topics'[t][k] = s
        <4>1. CASE t # topic[h]
          BY <2>0, <3>1, <3>2, <4>1
        <4>2. CASE t = topic[h]
          <5>1. topics'[t] = Append(topics[t], r) /\ topics[t] \in Seq(Subs)
            BY <3>1, <3>2, <4>2
          <5> QED
            BY <2>0, <5>1
        <4> QED
          BY <4>1, <4>2
      <3> QED
        BY <3>3 DEF InTopic
    <2>3. ASSUME NEW h \in Threads, UnsubscribeErase(h) \/ Collect(h)
          PROVE  s \in InTopic(t)'
      BY <2>0, <2>3, Shrinks DEF InTopic
    <2> QED
      BY <2>1, <2>2, <2>3, TopicsChange
  <1> QED
    BY <1>1, Invariance, PTL DEF Spec, LiveStays

=============================================================================
