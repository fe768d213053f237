--------------------------- MODULE WhenAllProofs ---------------------------
(***************************************************************************)
(* TLAPS proofs about WhenAll, for any number of sub-tasks, any bodies and   *)
(* any pools of threads.                                                     *)
(***************************************************************************)
EXTENDS WhenAll, FiniteSetTheorems, TLAPS

Items(q) == {q[k] : k \in 1..Len(q)}
Fns == {Fn(i) : i \in Subs}
NoDup(q) == \A j, k \in 1..Len(q) : q[j] = q[k] => j = k
St(c) == frame[c].st
InPool(i) == Fn(i) \in Items(io) \cup Items(cpu)
Own(i) == {Drv(i), TaskOf(i), Call(i)}

Outcomes == {Unset, Void} \cup {Value(i) : i \in Subs} \cup {Thrown(i) : i \in Subs}
Finals   == Outcomes \cup {Tuple(r) : r \in [Subs -> Outcomes]}
Conts    == {<<>>} \cup {<<c>> : c \in Coroutines}
Stages   == {"none", "suspended", "running", "final", "destroyed"}
Frames   == [st : Stages, cont : Conts, out : Finals]
Places   == [do : {"idle", "run", "post"}, co : Coroutines, k : 0..N]

TypeInv ==
    /\ body \in [Subs -> Bodies]
    /\ io \in Seq(Coroutines \cup Fns) /\ cpu \in Seq(Fns)
    /\ timers \in SUBSET Subs
    /\ at \in [Threads -> Places]
    /\ frame \in [Coroutines -> Frames]
    /\ pc \in [Coroutines -> Nat]
    /\ pool_result \in [Subs -> Outcomes]
    /\ state \in [remaining : Nat, results : [Subs -> Outcomes], first_exception : Outcomes]
    /\ got \in Seq(Finals)

(* The queues hold every function once, and pool functions are in one of them. *)
QueueInv ==
    /\ NoDup(io) /\ NoDup(cpu)
    /\ CpuThreads = {} => cpu = <<>>
    /\ CpuThreads # {} => Items(io) \subseteq Coroutines

(* The running frames are those some thread runs, each by one. *)
RunInv ==
    /\ \A c \in Coroutines : St(c) = "running" => \E t \in Threads : Running(t, c)
    /\ \A t \in Threads : at[t].do = "run" => St(at[t].co) = "running"
    /\ \A t, u \in Threads : at[t].do = "run" /\ at[u].do = "run" /\ at[t].co = at[u].co => t = u

(* Where a sub-task is, from the frames of its driver, its task and the call   *)
(* its task awaits.                                                            *)
Away(i)     == St(Call(i)) \in {"none", "destroyed"}
Fresh(i)    == /\ St(Drv(i)) = "none" /\ St(TaskOf(i)) = "none" /\ St(Call(i)) = "none"
               /\ pc[Drv(i)] = 0 /\ pc[TaskOf(i)] = 0
Posted(i)   == /\ St(Drv(i)) \in {"suspended", "running"} /\ St(TaskOf(i)) = "suspended"
               /\ St(Call(i)) = "none" /\ pc[Drv(i)] = 0 /\ pc[TaskOf(i)] = 0
InBody(i)   == /\ St(Drv(i)) = "suspended" /\ St(TaskOf(i)) = "running"
               /\ Away(i) /\ pc[Drv(i)] = 1
InCall(i)   == /\ St(Drv(i)) = "suspended" /\ St(TaskOf(i)) = "suspended"
               /\ St(Call(i)) \in {"suspended", "running"} /\ pc[Drv(i)] = 1
               /\ pc[Call(i)] = 0 => St(Call(i)) = "running"
               /\ pc[Call(i)] \in {0, 1}
Returned(i) == /\ St(Drv(i)) = "suspended" /\ St(TaskOf(i)) = "running"
               /\ St(Call(i)) = "final" /\ pc[Drv(i)] = 1
Ended(i)    == /\ St(Drv(i)) = "running" /\ St(TaskOf(i)) = "final"
               /\ Away(i) /\ pc[Drv(i)] \in {1, 2}
Done(i)     == /\ St(Drv(i)) = "destroyed" /\ St(TaskOf(i)) = "destroyed"
               /\ Away(i) /\ pc[Drv(i)] = 3

PlaceInv(i) ==
    \/ Fresh(i) \/ Posted(i) \/ InBody(i) \/ InCall(i) \/ Returned(i) \/ Ended(i) \/ Done(i)

(* A frame is returned to by what it awaits. *)
ContInv(i) ==
    /\ St(TaskOf(i)) \in {"none", "destroyed"} \/ frame[TaskOf(i)].cont \in {<<>>, <<Drv(i)>>}
    /\ InBody(i) \/ InCall(i) \/ Returned(i) => frame[TaskOf(i)].cont = <<Drv(i)>>
    /\ InCall(i) => frame[Call(i)].cont = <<TaskOf(i)>>
    /\ frame[Drv(i)].cont = <<>>

(* A suspended call has one resumer: its function, its timer or its resumption. *)
TokenInv(i) ==
    /\ Drv(i) \in Items(io) => St(Drv(i)) = "suspended" /\ pc[Drv(i)] = 0
    /\ TaskOf(i) \notin Items(io)
    /\ InPool(i) \/ i \in timers \/ Call(i) \in Items(io) =>
           St(Call(i)) = "suspended" /\ pc[Call(i)] = 1
    /\ ~(InPool(i) /\ i \in timers)
    /\ ~(InPool(i) /\ Call(i) \in Items(io))
    /\ ~(i \in timers /\ Call(i) \in Items(io))

(* The outcome so far of what the body of a sub-task awaited.                  *)
Passed(i, n) == \A j \in 1..n : body[i].awaits[j] # "pool_throws"
Awaited(i) == body[i].awaits[pc[TaskOf(i)]]
Outcome(i) == IF Throwing(i) THEN Thrown(i) ELSE Value(i)

DataInv(i) ==
    /\ pc[TaskOf(i)] \in 0..Len(body[i].awaits)
    /\ Posted(i) \/ InBody(i) => Passed(i, pc[TaskOf(i)])
    /\ InCall(i) \/ Returned(i) => pc[TaskOf(i)] >= 1 /\ Passed(i, pc[TaskOf(i)] - 1)
    /\ /\ InCall(i) /\ Awaited(i) # "sleep"
       /\ Call(i) \in Items(io) \/ (St(Call(i)) = "running" /\ pc[Call(i)] = 1)
       => pool_result[i] = IF Awaited(i) = "pool" THEN Value(i) ELSE Thrown(i)
    /\ i \in timers => Awaited(i) = "sleep"
    /\ Returned(i) => frame[Call(i)].out =
           IF Awaited(i) = "sleep" THEN Void
           ELSE IF Awaited(i) = "pool" THEN Value(i) ELSE Thrown(i)
    /\ Ended(i) => frame[TaskOf(i)].out = Outcome(i)
    /\ pc[Drv(i)] >= 2 /\ ~Throwing(i) => state.results[i] = Value(i)

Sub(i) == PlaceInv(i) /\ ContInv(i) /\ TokenInv(i) /\ DataInv(i)
SubInv == \A i \in Subs : Sub(i)

(* The handler and when_all. *)
Left == {i \in Subs : pc[Drv(i)] # 3}
Result(o) == IF \E i \in Subs : Throwing(i) THEN \E i \in Subs : Throwing(i) /\ o = Thrown(i)
             ELSE o = Tuple([i \in Subs |-> Value(i)])

ChainInv ==
    /\ \/ /\ pc[Outer] = 0 /\ pc[All] = 0
          /\ St(Outer) \in {"suspended", "running"} /\ St(All) = "none"
       \/ pc[Outer] = 1 /\ pc[All] = 0 /\ St(Outer) = "suspended" /\ St(All) = "running"
       \/ /\ pc[Outer] = 1 /\ pc[All] = 1
          /\ St(Outer) = "suspended" /\ St(All) \in {"suspended", "running"}
       \/ pc[Outer] = 1 /\ pc[All] = 1 /\ St(Outer) = "running" /\ St(All) = "final"
       \/ pc[Outer] = 2 /\ pc[All] = 1 /\ St(Outer) = "final" /\ St(All) = "destroyed"
    /\ frame[Outer].cont = <<>>
    /\ pc[Outer] = 1 => frame[All].cont = <<Outer>>
    /\ Outer \in Items(io) => pc[Outer] = 0 /\ St(Outer) = "suspended"
    /\ All \in Items(io) => pc[Outer] = 1 /\ pc[All] = 1 /\ St(All) = "suspended" /\ Left = {}
    /\ pc[All] = 1 /\ St(All) # "suspended" => Left = {}
    /\ pc[All] = 0 => \A i \in Subs : Fresh(i)
    /\ St(All) = "final" => Result(frame[All].out)
    /\ IF pc[Outer] = 2 THEN Len(got) = 1 /\ Result(got[1]) ELSE got = <<>>

(* The thread inside await_suspend: the drivers it has not posted are not there. *)
PostInv ==
    /\ \A t \in Threads : at[t].do = "post" =>
           /\ at[t].k \in Subs /\ pc[All] = 1
           /\ \A i \in Subs : i >= at[t].k => Fresh(i)
    /\ \A t, u \in Threads : at[t].do = "post" /\ at[u].do = "post" => t = u

(* The shared state counts the drivers left and keeps an exception once a      *)
(* driver has stored one.                                                      *)
StateInv ==
    /\ pc[All] = 1 => state.remaining = Cardinality(Left)
    /\ state.first_exception # Unset =>
           \E i \in Subs : Throwing(i) /\ state.first_exception = Thrown(i)
    /\ \A i \in Subs : pc[Drv(i)] >= 2 /\ Throwing(i) => state.first_exception # Unset
    /\ pc[All] = 0 => state.first_exception = Unset

(* The inductive invariant. *)
IInv ==
    /\ TypeInv
    /\ QueueInv
    /\ RunInv
    /\ SubInv
    /\ ChainInv
    /\ PostInv
    /\ StateInv

-----------------------------------------------------------------------------
(* Names of coroutines, and queues *)

(* The coroutines and the pool functions are all different. *)
LEMMA Distinct ==
    /\ Outer \in Coroutines /\ All \in Coroutines /\ Outer # All
    /\ \A i \in Subs : Drv(i) \in Coroutines /\ TaskOf(i) \in Coroutines /\ Call(i) \in Coroutines
    /\ \A i \in Subs : /\ Drv(i) # Outer /\ TaskOf(i) # Outer /\ Call(i) # Outer
                       /\ Drv(i) # All /\ TaskOf(i) # All /\ Call(i) # All
    /\ \A i, j \in Subs : Drv(i) # TaskOf(j) /\ Drv(i) # Call(j) /\ TaskOf(i) # Call(j)
    /\ \A i, j \in Subs : i # j => /\ Drv(i) # Drv(j) /\ TaskOf(i) # TaskOf(j)
                                   /\ Call(i) # Call(j) /\ Fn(i) # Fn(j)
    /\ \A c \in Coroutines : c = Outer \/ c = All \/ \E i \in Subs : c \in Own(i)
  BY DEF Outer, All, Drv, TaskOf, Call, Fn, Coroutines, Own

(* A pool function is no coroutine, and names its sub-task. *)
LEMMA DistinctFn ==
    /\ \A i \in Subs : Fn(i) \notin Coroutines /\ Fn(i)[1] = "fn" /\ Fn(i)[2] = i
    /\ \A c \in Coroutines : c[1] # "fn"
    /\ \A x \in Coroutines \cup Fns : x[1] # "fn" => x \in Coroutines
    /\ \A x \in Coroutines \cup Fns : x[1] = "fn" => \E i \in Subs : x = Fn(i)
  BY DEF Outer, All, Drv, TaskOf, Call, Fn, Fns, Coroutines

(* push_back *)
LEMMA AppendItems ==
    ASSUME NEW S, NEW q \in Seq(S), NEW x \in S
    PROVE  /\ Append(q, x) \in Seq(S)
           /\ Items(Append(q, x)) = Items(q) \cup {x}
           /\ NoDup(q) /\ x \notin Items(q) => NoDup(Append(q, x))
  <1>1. /\ Append(q, x) \in Seq(S) /\ Len(Append(q, x)) = Len(q) + 1
        /\ Append(q, x)[Len(q) + 1] = x
        /\ \A k \in 1..Len(q) : Append(q, x)[k] = q[k]
        /\ \A k \in 1..(Len(q) + 1) : k \in 1..Len(q) \/ k = Len(q) + 1
        /\ \A k \in 1..Len(q) : k \in 1..(Len(q) + 1)
        /\ Len(q) + 1 \in 1..(Len(q) + 1)
    OBVIOUS
  <1>2. Items(Append(q, x)) = Items(q) \cup {x}
    BY <1>1 DEF Items
  <1>3. ASSUME NoDup(q), x \notin Items(q)
        PROVE  NoDup(Append(q, x))
    <2>1. \A k \in 1..Len(q) : q[k] # x
      BY <1>3 DEF Items
    <2> QED
      BY <1>1, <1>3, <2>1 DEF NoDup
  <1> QED
    BY <1>1, <1>2, <1>3

(* pop_front *)
LEMMA TailItems ==
    ASSUME NEW S, NEW q \in Seq(S), q # <<>>
    PROVE  /\ Tail(q) \in Seq(S) /\ Head(q) \in S /\ Head(q) \in Items(q)
           /\ NoDup(q) => NoDup(Tail(q)) /\ Items(Tail(q)) = Items(q) \ {Head(q)}
  <1>1. /\ Tail(q) \in Seq(S) /\ Len(Tail(q)) = Len(q) - 1 /\ Len(q) \in Nat
        /\ 1 \in 1..Len(q) /\ Head(q) = q[1] /\ Head(q) \in S
        /\ \A k \in 1..Len(Tail(q)) : k + 1 \in 1..Len(q) /\ Tail(q)[k] = q[k + 1]
    OBVIOUS
  <1>2. ASSUME NoDup(q)
        PROVE  NoDup(Tail(q))
    <2> SUFFICES ASSUME NEW j \in 1..Len(Tail(q)), NEW k \in 1..Len(Tail(q)),
                        Tail(q)[j] = Tail(q)[k]
                 PROVE  j = k
      BY DEF NoDup
    <2>1. j + 1 = k + 1
      BY <1>1, <1>2 DEF NoDup
    <2> QED
      BY <2>1
  <1>3. ASSUME NoDup(q), NEW x \in Items(Tail(q))
        PROVE  x \in Items(q) /\ x # Head(q)
    <2>1. PICK k \in 1..Len(Tail(q)) : Tail(q)[k] = x
      BY DEF Items
    <2>2. k + 1 # 1 /\ k + 1 \in 1..Len(q) /\ q[k + 1] = x
      BY <1>1, <2>1
    <2> QED
      BY <1>1, <1>3, <2>2 DEF Items, NoDup
  <1>4. ASSUME NEW x \in Items(q), x # Head(q)
        PROVE  x \in Items(Tail(q))
    <2>1. PICK k \in 1..Len(q) : q[k] = x
      BY DEF Items
    <2>2. k - 1 \in 1..Len(Tail(q)) /\ Tail(q)[k - 1] = x
      BY <1>1, <1>4, <2>1
    <2> QED
      BY <2>2 DEF Items
  <1> QED
    BY <1>1, <1>2, <1>3, <1>4 DEF Items

(* The empty queue has no items. *)
LEMMA EmptyItems == Items(<<>>) = {} /\ NoDup(<<>>)
  <1>1. Len(<<>>) = 0 /\ \A k \in 1..0 : FALSE
    OBVIOUS
  <1> QED
    BY <1>1 DEF Items, NoDup

(* The outcomes are told apart. *)
LEMMA OutcomesDiffer ==
    ASSUME NEW i \in Subs
    PROVE  /\ Threw(Thrown(i)) /\ ~Threw(Value(i)) /\ ~Threw(Void) /\ ~Threw(Unset)
           /\ Thrown(i) # Unset /\ Value(i) # Unset
           /\ Thrown(i) \in Outcomes /\ Value(i) \in Outcomes
           /\ Void \in Outcomes /\ Unset \in Outcomes
  <1>1. Threw(Thrown(i)) /\ ~Threw(Value(i))
    BY DEF Threw, Thrown, Value
  <1>2. ~Threw(Void) /\ ~Threw(Unset)
    BY DEF Threw, Void, Unset
  <1>3. Thrown(i) # Unset /\ Value(i) # Unset
    BY DEF Thrown, Value, Unset
  <1> QED
    BY <1>1, <1>2, <1>3 DEF Outcomes
-----------------------------------------------------------------------------
(* What a step leaves alone *)

(* A sub-task none of whose state changes is where it was. *)
SameQueues(c) == c \in Items(io') <=> c \in Items(io)
SameSub(j) ==
    /\ body' = body
    /\ \A c \in Own(j) : frame'[c] = frame[c] /\ pc'[c] = pc[c] /\ SameQueues(c)
    /\ InPool(j)' <=> InPool(j)
    /\ j \in timers' <=> j \in timers
    /\ pool_result'[j] = pool_result[j]
    /\ pc[Drv(j)] >= 2 => state'.results[j] = state.results[j]

LEMMA SubKeeps ==
    ASSUME NEW j \in Subs, Sub(j), SameSub(j)
    PROVE  Sub(j)' /\ (Fresh(j) => Fresh(j)')
  <1>1. /\ frame'[Drv(j)] = frame[Drv(j)] /\ frame'[TaskOf(j)] = frame[TaskOf(j)]
        /\ frame'[Call(j)] = frame[Call(j)]
        /\ pc'[Drv(j)] = pc[Drv(j)] /\ pc'[TaskOf(j)] = pc[TaskOf(j)] /\ pc'[Call(j)] = pc[Call(j)]
        /\ Drv(j) \in Items(io)' <=> Drv(j) \in Items(io)
        /\ TaskOf(j) \in Items(io)' <=> TaskOf(j) \in Items(io)
        /\ Call(j) \in Items(io)' <=> Call(j) \in Items(io)
        /\ InPool(j)' <=> InPool(j)
        /\ j \in timers' <=> j \in timers
        /\ pool_result'[j] = pool_result[j]
        /\ pc[Drv(j)] >= 2 => state'.results[j] = state.results[j]
        /\ body' = body
    BY DEF SameSub, Own, SameQueues
  <1>2. /\ Fresh(j)' <=> Fresh(j)
        /\ Posted(j)' <=> Posted(j)
        /\ InBody(j)' <=> InBody(j)
        /\ InCall(j)' <=> InCall(j)
        /\ Returned(j)' <=> Returned(j)
        /\ Ended(j)' <=> Ended(j)
        /\ Done(j)' <=> Done(j)
    BY <1>1 DEF Fresh, Posted, InBody, InCall, Returned, Ended, Done, Away, St
  <1>3. PlaceInv(j)' /\ ContInv(j)' /\ TokenInv(j)'
    BY <1>1, <1>2 DEF Sub, PlaceInv, ContInv, TokenInv, St
  <1>4. /\ Throwing(j)' <=> Throwing(j)
        /\ Outcome(j)' = Outcome(j) /\ Awaited(j)' = Awaited(j)
        /\ \A n : Passed(j, n)' <=> Passed(j, n)
    BY <1>1 DEF Throwing, Outcome, Awaited, Passed
  <1>5. DataInv(j)'
    BY <1>1, <1>2, <1>4 DEF Sub, DataInv, St
  <1> QED
    BY <1>2, <1>3, <1>5 DEF Sub

(* A thread goes from what it does to something else. *)
LEMMA RunMove ==
    ASSUME TypeInv, RunInv, NEW t \in Threads, NEW v \in Places,
           at' = [at EXCEPT ![t] = v],
           \A c \in Coroutines : St(c)' = "running" <=>
               \/ v.do = "run" /\ c = v.co
               \/ St(c) = "running" /\ ~Running(t, c),
           v.do = "run" => St(v.co) # "running" \/ Running(t, v.co)
    PROVE  RunInv'
  <1>1. /\ at \in [Threads -> Places] /\ at'[t] = v
        /\ \A u \in Threads : u # t => at'[u] = at[u]
    BY DEF TypeInv
  <1>2. \A u \in Threads : at[u].co \in Coroutines /\ at'[u].co \in Coroutines
    BY <1>1 DEF Places
  <1>3. ASSUME NEW c \in Coroutines, St(c)' = "running"
        PROVE  \E u \in Threads : Running(u, c)'
    BY <1>1, <1>3 DEF RunInv, Running
  <1>4. ASSUME NEW u \in Threads, at'[u].do = "run"
        PROVE  St(at[u].co)' = "running"
    <2>1. CASE u = t
      BY <1>1, <1>2, <1>4, <2>1
    <2>2. CASE u # t
      <3>1. St(at[u].co) = "running" /\ ~Running(t, at[u].co)
        BY <1>1, <1>4, <2>2 DEF RunInv, Running
      <3> QED
        BY <1>1, <1>2, <2>2, <3>1
    <2> QED
      BY <2>1, <2>2
  <1>5. ASSUME NEW u \in Threads, NEW w \in Threads,
               at'[u].do = "run", at'[w].do = "run", at'[u].co = at'[w].co
        PROVE  u = w
    <2>1. ASSUME NEW x \in Threads, x # t, at'[t].do = "run", at'[x].do = "run",
                 at'[t].co = at'[x].co
          PROVE  FALSE
      BY <1>1, <2>1 DEF RunInv, Running
    <2>2. CASE u # t /\ w # t
      BY <1>1, <1>5, <2>2 DEF RunInv
    <2> QED
      BY <1>5, <2>1, <2>2
  <1> QED
    BY <1>3, <1>4, <1>5 DEF RunInv

(* No thread changes what it does and no frame starts or stops running. *)
LEMMA RunKeeps ==
    ASSUME TypeInv, RunInv, at' = at,
           \A c \in Coroutines : St(c)' = "running" <=> St(c) = "running"
    PROVE  RunInv'
  <1>1. \A t \in Threads : at[t].co \in Coroutines
    BY DEF TypeInv, Places
  <1> QED
    BY <1>1 DEF RunInv, Running

(* The handler and when_all see nothing of a step inside a sub-task. *)
SameChain ==
    /\ body' = body /\ got' = got
    /\ \A c \in {Outer, All} : frame'[c] = frame[c] /\ pc'[c] = pc[c] /\ SameQueues(c)
    /\ Left' = Left
    /\ pc[All] = 0 => \A i \in Subs : Fresh(i)'

LEMMA ChainKeeps ==
    ASSUME ChainInv, SameChain
    PROVE  ChainInv'
  <1>1. /\ frame'[Outer] = frame[Outer] /\ pc'[Outer] = pc[Outer]
        /\ frame'[All] = frame[All] /\ pc'[All] = pc[All]
        /\ Outer \in Items(io)' <=> Outer \in Items(io)
        /\ All \in Items(io)' <=> All \in Items(io)
        /\ Left' = Left /\ got' = got /\ body' = body
        /\ pc[All] = 0 => \A i \in Subs : Fresh(i)'
    BY DEF SameChain, SameQueues
  <1>2. \A o : Result(o)' <=> Result(o)
    BY <1>1 DEF Result, Throwing
  <1> QED
    BY <1>1, <1>2 DEF ChainInv, St

(* Nothing is posted or completed in a step that keeps the drivers' places. *)
LEMMA StateKeeps ==
    ASSUME StateInv, body' = body, state' = state, Left' = Left, pc'[All] = pc[All],
           \A i \in Subs : pc'[Drv(i)] = pc[Drv(i)]
    PROVE  StateInv'
  BY DEF StateInv, Throwing

LEMMA PostKeeps ==
    ASSUME PostInv, pc'[All] = pc[All],
           \A u \in Threads : at'[u].do = "post" => at[u] = at'[u],
           \A i \in Subs : Fresh(i) => Fresh(i)'
    PROVE  PostInv'
  BY DEF PostInv

(* A step inside sub-task i. *)
Around(i) ==
    /\ body' = body /\ got' = got
    /\ \A c \in Coroutines \ Own(i) : frame'[c] = frame[c] /\ pc'[c] = pc[c] /\ SameQueues(c)
    /\ \A j \in Subs \ {i} : /\ InPool(j)' <=> InPool(j)
                             /\ j \in timers' <=> j \in timers
                             /\ pool_result'[j] = pool_result[j]
                             /\ state'.results[j] = state.results[j]
Elsewhere(i) ==
    /\ Around(i)
    /\ \A u \in Threads : at'[u].do = "post" => at[u] = at'[u]

LEMMA OthersKeep ==
    ASSUME SubInv, NEW i \in Subs, Around(i), Sub(i)'
    PROVE  SubInv' /\ \A j \in Subs : j # i => (Fresh(j) => Fresh(j)')
  <1>1. ASSUME NEW j \in Subs, j # i
        PROVE  SameSub(j)
    <2>1. Own(j) \subseteq Coroutines \ Own(i)
      BY <1>1, Distinct DEF Own
    <2>2. \A c \in Own(j) : frame'[c] = frame[c] /\ pc'[c] = pc[c] /\ SameQueues(c)
      BY <2>1, Zenon DEF Around
    <2>3. j \in Subs \ {i}
      BY <1>1
    <2> QED
      BY <2>2, <2>3, Zenon DEF SameSub, Around
  <1>2. ASSUME NEW j \in Subs, j # i
        PROVE  Sub(j)' /\ (Fresh(j) => Fresh(j)')
    BY <1>1, <1>2, SubKeeps DEF SubInv
  <1> QED
    BY <1>2 DEF SubInv

LEMMA SubStep ==
    ASSUME IInv, NEW i \in Subs, Elsewhere(i), ~Fresh(i),
           TypeInv', QueueInv', RunInv', Sub(i)', state' = state,
           pc'[Drv(i)] = pc[Drv(i)] \/ (pc[Drv(i)] = 0 /\ pc'[Drv(i)] = 1)
    PROVE  IInv'
  <1> USE DEF Elsewhere
  <1>1. SubInv' /\ \A j \in Subs : Fresh(j) => Fresh(j)'
    BY OthersKeep DEF IInv
  <1>2. \A c \in {Outer, All} : c \in Coroutines \ Own(i)
    BY Distinct DEF Own
  <1>3. \A j \in Subs : j # i => pc'[Drv(j)] = pc[Drv(j)]
    <2>1. \A j \in Subs : j # i => Drv(j) \in Coroutines \ Own(i)
      BY Distinct DEF Own
    <2> QED
      BY <2>1 DEF Elsewhere, Around
  <1>4. Left' = Left
    BY <1>3 DEF Left
  <1>5. ChainInv'
    <2>1. SameChain
      BY <1>1, <1>2, <1>4 DEF SameChain, Elsewhere, Around, IInv, ChainInv
    <2> QED
      BY <2>1, ChainKeeps DEF IInv
  <1>6. pc'[All] = pc[All]
    BY <1>2 DEF Elsewhere, Around
  <1>7. PostInv'
    BY <1>1, <1>6, PostKeeps DEF Elsewhere, Around, IInv
  <1>8. StateInv'
    <2>1. \A j \in Subs : pc'[Drv(j)] >= 2 => pc[Drv(j)] >= 2
      BY <1>3
    <2>2. body' = body
      BY DEF Elsewhere, Around
    <2> QED
      BY <1>4, <1>6, <2>1, <2>2 DEF StateInv, IInv, Throwing
  <1> QED
    BY <1>1, <1>5, <1>7, <1>8 DEF IInv

-----------------------------------------------------------------------------
(* Types *)

(* The frames and thread states the actions put in place. *)
LEMMA NewTypes ==
    /\ NewFrame \in Frames /\ Destroyed \in Frames /\ NoFrame \in Frames /\ Idle \in Places
    /\ \A c \in Coroutines : Run(c) \in Places /\ Run(c).do = "run" /\ Run(c).co = c
    /\ Idle.do = "idle"
    /\ \A f \in Frames, x \in Stages : [f EXCEPT !.st = x] \in Frames
    /\ \A f \in Frames, c \in Coroutines : [f EXCEPT !.cont = <<c>>] \in Frames
    /\ \A f \in Frames, o \in Finals : [f EXCEPT !.out = o] \in Frames
  <1>1. <<>> \in Conts /\ Unset \in Finals /\ Outer \in Coroutines /\ 0 \in 0..N
    BY WhenAllAssumption, Distinct DEF Conts, Finals, Outcomes
  <1>2. \A c \in Coroutines : <<c>> \in Conts
    BY DEF Conts
  <1>3. NewFrame \in Frames /\ Destroyed \in Frames /\ NoFrame \in Frames
    BY <1>1 DEF NewFrame, Destroyed, NoFrame, Frames, Stages
  <1>4. Idle \in Places /\ \A c \in Coroutines : Run(c) \in Places /\ Run(c).do = "run" /\ Run(c).co = c
    BY <1>1 DEF Idle, Run, Places
  <1>5. /\ \A f \in Frames, x \in Stages : [f EXCEPT !.st = x] \in Frames
        /\ \A f \in Frames, c \in Coroutines : [f EXCEPT !.cont = <<c>>] \in Frames
        /\ \A f \in Frames, o \in Finals : [f EXCEPT !.out = o] \in Frames
    BY <1>2 DEF Frames
  <1> QED
    BY <1>3, <1>4, <1>5 DEF Idle

(* Task::await_suspend, frame by frame. *)
LEMMA AwaitSuspend ==
    ASSUME TypeInv, NEW t \in Threads, NEW caller \in Coroutines, NEW task \in Coroutines,
           NEW f \in [Coroutines -> Frames], caller # task,
           await_suspend(t, caller, f, task)
    PROVE  /\ frame' \in [Coroutines -> Frames] /\ at' \in [Threads -> Places]
           /\ at' = [at EXCEPT ![t] = Run(task)]
           /\ \A c \in Coroutines : c # caller /\ c # task => frame'[c] = f[c]
           /\ frame'[task].cont = <<caller>> /\ frame'[task].st = "running"
           /\ frame'[caller].st = "suspended" /\ frame'[caller].cont = f[caller].cont
           /\ frame'[caller].out = f[caller].out
  <1> DEFINE g == [f EXCEPT ![task] = [f[task] EXCEPT !.cont = <<caller>>, !.st = "running"],
                            ![caller] = [f[caller] EXCEPT !.st = "suspended"]]
  <1>1. <<caller>> \in Conts
    BY DEF Conts
  <1>2. /\ [f[task] EXCEPT !.cont = <<caller>>, !.st = "running"] \in Frames
        /\ [f[caller] EXCEPT !.st = "suspended"] \in Frames
    BY <1>1 DEF Frames, Stages
  <1>3. frame' = g
    BY DEF await_suspend
  <1>4. at' \in [Threads -> Places]
    BY NewTypes DEF await_suspend, TypeInv
  <1>5. frame' \in [Coroutines -> Frames]
    BY <1>2, <1>3
  <1> QED
    BY <1>2, <1>3, <1>4, <1>5 DEF Frames, await_suspend

(* The end of a Task that is awaited, frame by frame. *)
LEMMA FinalSuspend ==
    ASSUME TypeInv, NEW t \in Threads, NEW c \in Coroutines, NEW d \in Coroutines, c # d,
           frame[c].cont = <<d>>, NEW out \in Finals, final_suspend(t, c, out)
    PROVE  /\ frame' \in [Coroutines -> Frames] /\ at' \in [Threads -> Places]
           /\ at' = [at EXCEPT ![t] = Run(d)]
           /\ \A e \in Coroutines : e # c /\ e # d => frame'[e] = frame[e]
           /\ frame'[c].st = "final" /\ frame'[c].out = out /\ frame'[c].cont = <<d>>
           /\ frame'[d].st = "running" /\ frame'[d].cont = frame[d].cont
           /\ frame'[d].out = frame[d].out
  <1>1. <<d>> # <<>> /\ <<d>>[1] = d
    OBVIOUS
  <1>2. /\ frame' = [frame EXCEPT ![c].st = "final", ![c].out = out, ![d].st = "running"]
        /\ at' = [at EXCEPT ![t] = Run(d)]
    BY <1>1 DEF final_suspend
  <1>3. frame \in [Coroutines -> Frames]
    BY DEF TypeInv
  <1> DEFINE a == [frame[c] EXCEPT !.st = "final", !.out = out]
             b == [frame[d] EXCEPT !.st = "running"]
  <1>4. a \in Frames /\ b \in Frames
    BY <1>3 DEF Frames, Stages
  <1>5. frame' = [frame EXCEPT ![c] = a, ![d] = b]
    BY <1>2, <1>3
  <1>6. at' \in [Threads -> Places]
    BY <1>2, NewTypes DEF TypeInv
  <1>7. /\ a.st = "final" /\ a.out = out /\ a.cont = frame[c].cont
        /\ b.st = "running" /\ b.out = frame[d].out /\ b.cont = frame[d].cont
    BY <1>3 DEF Frames
  <1> HIDE DEF a, b
  <1> QED
    BY <1>2, <1>3, <1>4, <1>5, <1>6, <1>7

(* handle.resume(), frame by frame. *)
LEMMA ResumeEffect ==
    ASSUME TypeInv, NEW t \in Threads, NEW c \in Coroutines, Resume(t, c)
    PROVE  /\ frame' \in [Coroutines -> Frames] /\ at' \in [Threads -> Places]
           /\ at' = [at EXCEPT ![t] = Run(c)]
           /\ \A d \in Coroutines : d # c => frame'[d] = frame[d]
           /\ frame'[c].st = "running" /\ frame'[c].cont = frame[c].cont
           /\ frame'[c].out = frame[c].out
  <1>1. [frame[c] EXCEPT !.st = "running"] \in Frames
    BY DEF TypeInv, Frames, Stages
  <1>2. at' \in [Threads -> Places]
    BY NewTypes DEF Resume, TypeInv
  <1> QED
    BY <1>1, <1>2 DEF Resume, TypeInv, Frames
-----------------------------------------------------------------------------
(* The steps of a sub-task *)

(* What a body is made of. *)
LEMMA BodyTypes ==
    ASSUME TypeInv, NEW i \in Subs
    PROVE  /\ body[i].awaits \in Seq({"pool", "pool_throws", "sleep"})
           /\ Len(body[i].awaits) \in Nat /\ pc[TaskOf(i)] \in Nat
           /\ body[i].ends \in {"return", "throw"}
  <1>1. body[i] \in Bodies
    BY DEF TypeInv
  <1>2. body[i].awaits \in Seq({"pool", "pool_throws", "sleep"}) /\ body[i].ends \in {"return", "throw"}
    BY <1>1, WhenAllAssumption
  <1>3. Len(body[i].awaits) \in Nat
    BY <1>2
  <1>4. pc[TaskOf(i)] \in Nat
    BY Distinct DEF TypeInv
  <1> QED
    BY <1>2, <1>3, <1>4

(* The shape of a running sub-task. *)
LEMMA WhereRunning ==
    ASSUME IInv, NEW i \in Subs, NEW t \in Threads
    PROVE  /\ Running(t, Drv(i)) => St(Drv(i)) = "running" /\ (Posted(i) \/ Ended(i))
           /\ Running(t, TaskOf(i)) => St(TaskOf(i)) = "running" /\ (InBody(i) \/ Returned(i))
           /\ Running(t, Call(i)) => St(Call(i)) = "running" /\ InCall(i)
  <1>1. \A c \in Coroutines : Running(t, c) => St(c) = "running"
    BY DEF IInv, RunInv, Running
  <1>2. /\ St(Drv(i)) = "running" => Posted(i) \/ Ended(i)
        /\ St(TaskOf(i)) = "running" => InBody(i) \/ Returned(i)
        /\ St(Call(i)) = "running" => InCall(i)
    BY DEF IInv, SubInv, Sub, PlaceInv, Fresh, Posted, InBody, InCall, Returned, Ended, Done, Away
  <1> QED
    BY <1>1, <1>2, Distinct

(* A step of thread t on the frames of sub-task i. *)
Moves(t, v, i) ==
    /\ body' = body /\ got' = got /\ state' = state
    /\ at' = [at EXCEPT ![t] = v] /\ v \in Places /\ v.do # "post"
    /\ frame' \in [Coroutines -> Frames] /\ pc' \in [Coroutines -> Nat]
    /\ \A c \in Coroutines \ Own(i) : frame'[c] = frame[c] /\ pc'[c] = pc[c]
    /\ pool_result' \in [Subs -> Outcomes]
    /\ \A j \in Subs \ {i} : pool_result'[j] = pool_result[j]

Quiet == UNCHANGED <<io, cpu, timers>>

LEMMA QuietKeeps ==
    ASSUME IInv, NEW i \in Subs, NEW t \in Threads, NEW v, Moves(t, v, i), Quiet
    PROVE  TypeInv' /\ QueueInv' /\ Elsewhere(i)
  <1>1. at \in [Threads -> Places] /\ at' \in [Threads -> Places]
    BY DEF IInv, TypeInv, Moves
  <1>2. TypeInv'
    BY <1>1 DEF IInv, TypeInv, Quiet, Moves
  <1>3. QueueInv'
    BY DEF IInv, QueueInv, Quiet
  <1>4. \A u \in Threads : at'[u].do = "post" => at[u] = at'[u]
    BY <1>1 DEF Moves
  <1> QED
    BY <1>2, <1>3, <1>4 DEF Elsewhere, Around, Quiet, Moves, SameQueues, InPool

(* when_all_subtask awaits its task. *)
LEMMA SubtaskAwaitsStep ==
    ASSUME IInv, NEW t \in Threads, NEW i \in Subs, SubtaskAwaits(t, i)
    PROVE  IInv'
  <1>1. Posted(i) /\ St(Drv(i)) = "running" /\ Running(t, Drv(i)) /\ pc[Drv(i)] = 0
    BY WhereRunning DEF SubtaskAwaits, Ended
  <1>2. /\ TypeInv /\ RunInv /\ Sub(i)
        /\ frame \in [Coroutines -> Frames] /\ pc \in [Coroutines -> Nat]
    BY DEF IInv, TypeInv, SubInv
  <1>3. /\ frame' \in [Coroutines -> Frames] /\ at' = [at EXCEPT ![t] = Run(TaskOf(i))]
        /\ \A c \in Coroutines : c # Drv(i) /\ c # TaskOf(i) => frame'[c] = frame[c]
        /\ frame'[TaskOf(i)].cont = <<Drv(i)>> /\ frame'[TaskOf(i)].st = "running"
        /\ frame'[Drv(i)].st = "suspended" /\ frame'[Drv(i)].cont = frame[Drv(i)].cont
    <2>1. Drv(i) \in Coroutines /\ TaskOf(i) \in Coroutines /\ Drv(i) # TaskOf(i)
      BY Distinct
    <2>2. await_suspend(t, Drv(i), frame, TaskOf(i))
      BY DEF SubtaskAwaits
    <2> QED
      BY <1>2, <2>1, <2>2, AwaitSuspend
  <1>4. /\ pc' \in [Coroutines -> Nat] /\ pc'[Drv(i)] = 1
        /\ \A c \in Coroutines : c # Drv(i) => pc'[c] = pc[c]
    BY <1>2, Distinct DEF SubtaskAwaits
  <1>5. Quiet /\ UNCHANGED <<body, pool_result, state, got>>
    BY DEF SubtaskAwaits, Quiet
  <1>6. Run(TaskOf(i)) \in Places /\ Run(TaskOf(i)).do = "run" /\ Run(TaskOf(i)).co = TaskOf(i)
    BY NewTypes, Distinct
  <1>7. TypeInv' /\ QueueInv' /\ Elsewhere(i)
    <2>1. Moves(t, Run(TaskOf(i)), i)
      BY <1>3, <1>4, <1>5, <1>6 DEF Own, Moves, IInv, TypeInv
    <2> QED
      BY <1>5, <2>1, QuietKeeps
  <1>8. RunInv'
    <2>1. \A c \in Coroutines : St(c)' = "running" <=>
              c = TaskOf(i) \/ (St(c) = "running" /\ ~Running(t, c))
      BY <1>1, <1>3, Distinct DEF St, Running
    <2>2. St(TaskOf(i)) # "running"
      BY <1>1 DEF Posted
    <2> QED
      BY <1>2, <1>3, <1>6, <2>1, <2>2, RunMove
  <1>9. Sub(i)'
    <2>1. /\ frame'[Call(i)] = frame[Call(i)] /\ pc'[Call(i)] = pc[Call(i)]
          /\ pc'[TaskOf(i)] = pc[TaskOf(i)]
      BY <1>3, <1>4, Distinct
    <2>2. InBody(i)'
      BY <1>1, <1>3, <1>4, <2>1 DEF InBody, Posted, Away, St
    <2>3. ~Posted(i)' /\ ~InCall(i)' /\ ~Returned(i)' /\ ~Ended(i)'
      BY <2>2 DEF InBody, Posted, InCall, Returned, Ended, Away
    <2>4. /\ Items(io)' = Items(io) /\ Items(cpu)' = Items(cpu) /\ timers' = timers /\ body' = body
      BY <1>5 DEF Quiet
    <2>5. /\ Drv(i) \notin Items(io) /\ TaskOf(i) \notin Items(io) /\ Call(i) \notin Items(io)
          /\ ~InPool(i) /\ i \notin timers
      BY <1>1, <1>2 DEF Sub, TokenInv, Posted
    <2>6. ContInv(i)'
      BY <1>2, <1>3, <2>3 DEF Sub, ContInv, St
    <2>7. TokenInv(i)'
      BY <2>4, <2>5 DEF TokenInv, InPool
    <2>8. Passed(i, pc[TaskOf(i)])' /\ pc[TaskOf(i)] \in 0..Len(body[i].awaits)
      BY <1>1, <1>2, <2>1, <2>4 DEF Sub, DataInv, Passed
    <2>9. DataInv(i)'
      BY <1>4, <2>1, <2>3, <2>4, <2>5, <2>8 DEF DataInv
    <2> QED
      BY <2>2, <2>6, <2>7, <2>9 DEF Sub, PlaceInv
  <1> QED
    <2>1. ~Fresh(i) /\ state' = state
      BY <1>1, <1>5 DEF Fresh, Posted, Quiet
    <2> QED
      BY <1>1, <1>4, <1>7, <1>8, <1>9, <2>1, SubStep

(* A sub-task awaits pool() or sleep(). *)
LEMMA BodyAwaitsStep ==
    ASSUME IInv, NEW t \in Threads, NEW i \in Subs, BodyAwaits(t, i)
    PROVE  IInv'
  <1> DEFINE f == [frame EXCEPT ![Call(i)] = NewFrame]
  <1>1. InBody(i) /\ St(TaskOf(i)) = "running" /\ Running(t, TaskOf(i))
    BY WhereRunning DEF BodyAwaits, Returned, St
  <1>2. /\ TypeInv /\ RunInv /\ Sub(i)
        /\ frame \in [Coroutines -> Frames] /\ pc \in [Coroutines -> Nat]
    BY DEF IInv, TypeInv, SubInv
  <1>3. /\ frame' \in [Coroutines -> Frames] /\ at' = [at EXCEPT ![t] = Run(Call(i))]
        /\ \A c \in Coroutines : c # Call(i) /\ c # TaskOf(i) => frame'[c] = frame[c]
        /\ frame'[Call(i)].cont = <<TaskOf(i)>> /\ frame'[Call(i)].st = "running"
        /\ frame'[TaskOf(i)].st = "suspended" /\ frame'[TaskOf(i)].cont = frame[TaskOf(i)].cont
    <2>1. Call(i) \in Coroutines /\ TaskOf(i) \in Coroutines /\ TaskOf(i) # Call(i)
      BY Distinct
    <2>2. await_suspend(t, TaskOf(i), f, Call(i))
      BY DEF BodyAwaits
    <2>3. /\ f \in [Coroutines -> Frames] /\ f[TaskOf(i)] = frame[TaskOf(i)]
          /\ \A c \in Coroutines : c # Call(i) => f[c] = frame[c]
      BY <1>2, <2>1, NewTypes
    <2> HIDE DEF f
    <2> QED
      BY <1>2, <2>1, <2>2, <2>3, AwaitSuspend
  <1>4. /\ pc' \in [Coroutines -> Nat] /\ pc'[TaskOf(i)] = pc[TaskOf(i)] + 1 /\ pc'[Call(i)] = 0
        /\ \A c \in Coroutines : c # TaskOf(i) /\ c # Call(i) => pc'[c] = pc[c]
    <2>1. Call(i) \in Coroutines /\ TaskOf(i) \in Coroutines /\ TaskOf(i) # Call(i)
      BY Distinct
    <2> QED
      BY <1>2, <2>1 DEF BodyAwaits
  <1>5. Quiet /\ UNCHANGED <<body, pool_result, state, got>>
    BY DEF BodyAwaits, Quiet
  <1>6. Run(Call(i)) \in Places /\ Run(Call(i)).do = "run" /\ Run(Call(i)).co = Call(i)
    BY NewTypes, Distinct
  <1>7. TypeInv' /\ QueueInv' /\ Elsewhere(i)
    <2>1. Moves(t, Run(Call(i)), i)
      BY <1>3, <1>4, <1>5, <1>6 DEF Own, Moves, IInv, TypeInv
    <2> QED
      BY <1>5, <2>1, QuietKeeps
  <1>8. RunInv'
    <2>1. \A c \in Coroutines : St(c)' = "running" <=>
              c = Call(i) \/ (St(c) = "running" /\ ~Running(t, c))
      BY <1>1, <1>3, Distinct DEF St, Running
    <2>2. St(Call(i)) # "running"
      BY <1>1 DEF InBody, Away
    <2> QED
      BY <1>2, <1>3, <1>6, <2>1, <2>2, RunMove
  <1>9. Sub(i)'
    <2>1. frame'[Drv(i)] = frame[Drv(i)] /\ pc'[Drv(i)] = pc[Drv(i)]
      BY <1>3, <1>4, Distinct
    <2>2. InCall(i)'
      BY <1>1, <1>3, <1>4, <2>1 DEF InCall, InBody, St
    <2>3. ~Posted(i)' /\ ~InBody(i)' /\ ~Returned(i)' /\ ~Ended(i)' /\ (St(Call(i)) # "suspended")'
      BY <1>3, <2>2 DEF InBody, Posted, InCall, Returned, Ended, Away, St
    <2>4. /\ Items(io)' = Items(io) /\ Items(cpu)' = Items(cpu) /\ timers' = timers /\ body' = body
      BY <1>5 DEF Quiet
    <2>5. /\ Drv(i) \notin Items(io) /\ TaskOf(i) \notin Items(io) /\ Call(i) \notin Items(io)
          /\ ~InPool(i) /\ i \notin timers
      BY <1>1, <1>2 DEF Sub, TokenInv, InBody, Away
    <2>6. ContInv(i)'
      BY <1>1, <1>2, <1>3, <2>1, <2>3 DEF Sub, ContInv, St
    <2>7. TokenInv(i)'
      BY <2>4, <2>5 DEF TokenInv, InPool
    <2>8. /\ pc'[TaskOf(i)] \in 0..Len(body'[i].awaits) /\ pc'[TaskOf(i)] >= 1
          /\ Passed(i, pc[TaskOf(i)] - 1)' /\ pc[TaskOf(i)] \in Nat
      <3>1. /\ Len(body[i].awaits) \in Nat /\ pc[TaskOf(i)] \in Nat
            /\ pc[TaskOf(i)] < Len(body[i].awaits)
        BY <1>2, BodyTypes DEF BodyAwaits
      <3>2. Passed(i, pc[TaskOf(i)])
        BY <1>1, <1>2 DEF Sub, DataInv
      <3>3. pc'[TaskOf(i)] - 1 = pc[TaskOf(i)]
        BY <1>4, <3>1
      <3> QED
        BY <1>4, <2>4, <3>1, <3>2, <3>3 DEF Passed
    <2>9. DataInv(i)'
      BY <1>1, <1>4, <2>1, <2>3, <2>4, <2>5, <2>8 DEF DataInv, InBody
    <2> QED
      BY <2>2, <2>6, <2>7, <2>9 DEF Sub, PlaceInv
  <1> QED
    <2>1. ~Fresh(i) /\ state' = state /\ pc'[Drv(i)] = pc[Drv(i)]
      BY <1>1, <1>4, <1>5, Distinct DEF Fresh, InBody
    <2> QED
      BY <1>7, <1>8, <1>9, <2>1, SubStep

(* The awaited call has ended, with or without an exception. *)
LEMMA BodyResumesStep ==
    ASSUME IInv, NEW t \in Threads, NEW i \in Subs, BodyResumes(t, i)
    PROVE  IInv'
  <1>1. Returned(i) /\ St(TaskOf(i)) = "running" /\ Running(t, TaskOf(i))
    BY WhereRunning DEF BodyResumes, InBody, Away, St
  <1>2. /\ TypeInv /\ RunInv /\ Sub(i) /\ at \in [Threads -> Places]
        /\ frame \in [Coroutines -> Frames] /\ pc \in [Coroutines -> Nat]
    BY DEF IInv, TypeInv, SubInv
  <1>3. /\ Call(i) \in Coroutines /\ TaskOf(i) \in Coroutines /\ Drv(i) \in Coroutines
        /\ TaskOf(i) # Call(i) /\ Drv(i) # TaskOf(i) /\ Drv(i) # Call(i)
    BY Distinct
  <1>4. Quiet /\ UNCHANGED <<body, pool_result, state, got, pc>>
    BY DEF BodyResumes, Quiet
  <1>5. ~Fresh(i) /\ pc'[Drv(i)] = pc[Drv(i)]
    BY <1>1, <1>4 DEF Fresh, Returned
  <1>6. /\ Items(io)' = Items(io) /\ Items(cpu)' = Items(cpu) /\ timers' = timers /\ body' = body
        /\ Drv(i) \notin Items(io) /\ TaskOf(i) \notin Items(io) /\ Call(i) \notin Items(io)
        /\ ~InPool(i) /\ i \notin timers
    BY <1>1, <1>2, <1>4 DEF Sub, TokenInv, Returned, Quiet
  <1>7. TokenInv(i)'
    BY <1>6 DEF TokenInv, InPool
  <1>8. /\ pc[TaskOf(i)] \in 0..Len(body[i].awaits) /\ pc[TaskOf(i)] >= 1
        /\ Passed(i, pc[TaskOf(i)] - 1) /\ Len(body[i].awaits) \in Nat
    BY <1>1, <1>2, BodyTypes DEF Sub, DataInv
  <1>9. frame[Call(i)].out = IF Awaited(i) = "sleep" THEN Void
                             ELSE IF Awaited(i) = "pool" THEN Value(i) ELSE Thrown(i)
    BY <1>1, <1>2 DEF Sub, DataInv
  <1>10. CASE Threw(frame[Call(i)].out)
    <2>1. /\ frame' = [frame EXCEPT ![Call(i)] = Destroyed,
                                    ![TaskOf(i)] = [frame[TaskOf(i)] EXCEPT !.st = "final", !.out = Thrown(i)],
                                    ![Drv(i)] = [frame[Drv(i)] EXCEPT !.st = "running"]]
          /\ at' = [at EXCEPT ![t] = Run(Drv(i))]
      BY <1>2, <1>3, <1>10 DEF BodyResumes, await_resume
    <2>2. /\ [frame[TaskOf(i)] EXCEPT !.st = "final", !.out = Thrown(i)] \in Frames
          /\ [frame[Drv(i)] EXCEPT !.st = "running"] \in Frames /\ Destroyed \in Frames
      <3>1. Thrown(i) \in Finals /\ Destroyed \in Frames
        BY OutcomesDiffer, NewTypes DEF Finals
      <3>2. frame[TaskOf(i)] \in Frames /\ frame[Drv(i)] \in Frames
        BY <1>2, <1>3
      <3> QED
        BY <3>1, <3>2 DEF Frames, Stages
    <2>3. /\ frame' \in [Coroutines -> Frames]
          /\ \A c \in Coroutines \ Own(i) : frame'[c] = frame[c]
          /\ frame'[Call(i)].st = "destroyed"
          /\ frame'[TaskOf(i)].st = "final" /\ frame'[TaskOf(i)].out = Thrown(i)
          /\ frame'[TaskOf(i)].cont = frame[TaskOf(i)].cont
          /\ frame'[Drv(i)].st = "running" /\ frame'[Drv(i)].cont = frame[Drv(i)].cont
      BY <1>2, <1>3, <2>1, <2>2 DEF Own, Destroyed, Frames
    <2>4. Run(Drv(i)) \in Places /\ Run(Drv(i)).do = "run" /\ Run(Drv(i)).co = Drv(i)
      BY <1>3, NewTypes
    <2>5. TypeInv' /\ QueueInv' /\ Elsewhere(i)
      <3>1. Moves(t, Run(Drv(i)), i)
        BY <1>2, <1>4, <2>1, <2>3, <2>4 DEF Moves, IInv, TypeInv
      <3> QED
        BY <1>4, <3>1, QuietKeeps
    <2>6. RunInv'
      <3>1. \A c \in Coroutines : St(c)' = "running" <=>
                c = Drv(i) \/ (St(c) = "running" /\ ~Running(t, c))
        BY <1>1, <1>3, <2>3 DEF St, Running, Own, Returned
      <3>2. St(Drv(i)) # "running"
        BY <1>1 DEF Returned
      <3> QED
        BY <1>2, <2>1, <2>4, <3>1, <3>2, RunMove
    <2>7. Ended(i)'
      BY <1>1, <1>4, <2>3 DEF Ended, Returned, Away, St
    <2>8. ~Posted(i)' /\ ~InBody(i)' /\ ~Returned(i)' /\ ~InCall(i)'
      BY <2>7 DEF InBody, Posted, InCall, Returned, Ended
    <2>9. ContInv(i)'
      BY <1>1, <1>2, <2>3, <2>8 DEF Sub, ContInv, Returned, St
    <2>10. Throwing(i) /\ Outcome(i)' = Thrown(i)
      <3>1. Awaited(i) # "sleep" /\ Awaited(i) # "pool"
        BY <1>9, <1>10, OutcomesDiffer
      <3>2. body[i].awaits \in Seq({"pool", "pool_throws", "sleep"})
        BY <1>2, BodyTypes
      <3>3. pc[TaskOf(i)] \in 1..Len(body[i].awaits) /\ Awaited(i) = "pool_throws"
        BY <1>8, <3>1, <3>2 DEF Awaited
      <3>4. Throwing(i)
        BY <3>3 DEF Throwing, Awaited
      <3> QED
        BY <1>6, <3>4 DEF Outcome, Throwing
    <2>11. DataInv(i)'
      BY <1>1, <1>4, <1>6, <1>8, <2>3, <2>8, <2>10 DEF DataInv, Returned
    <2> QED
      BY <1>4, <1>5, <1>7, <2>5, <2>6, <2>7, <2>9, <2>11, SubStep DEF Sub, PlaceInv
  <1>11. CASE ~Threw(frame[Call(i)].out)
    <2>1. frame' = [frame EXCEPT ![Call(i)] = Destroyed] /\ at' = at
      BY <1>11 DEF BodyResumes, await_resume
    <2>2. /\ frame' \in [Coroutines -> Frames]
          /\ \A c \in Coroutines \ Own(i) : frame'[c] = frame[c]
          /\ frame'[Call(i)].st = "destroyed"
          /\ frame'[TaskOf(i)] = frame[TaskOf(i)] /\ frame'[Drv(i)] = frame[Drv(i)]
      BY <1>2, <1>3, <2>1, NewTypes DEF Own, Destroyed
    <2>3. TypeInv' /\ QueueInv' /\ Elsewhere(i)
      <3>1. at' = [at EXCEPT ![t] = at[t]] /\ at[t] \in Places /\ at[t].do = "run"
        BY <1>1, <1>2, <2>1 DEF Running
      <3>2. Moves(t, at[t], i)
        BY <1>2, <1>4, <2>2, <3>1 DEF Moves, IInv, TypeInv
      <3> QED
        BY <1>4, <3>2, QuietKeeps
    <2>4. RunInv'
      <3>1. \A c \in Coroutines : St(c)' = "running" <=> St(c) = "running"
        BY <1>1, <1>3, <2>2 DEF St, Own, Returned
      <3> QED
        BY <1>2, <2>1, <3>1, RunKeeps
    <2>5. InBody(i)'
      BY <1>1, <1>4, <2>2 DEF InBody, Returned, Away, St
    <2>6. ~Posted(i)' /\ ~InCall(i)' /\ ~Returned(i)' /\ ~Ended(i)'
      BY <2>5 DEF InBody, Posted, InCall, Returned, Ended, Away
    <2>7. ContInv(i)'
      BY <1>1, <1>2, <2>2, <2>6 DEF Sub, ContInv, Returned, St
    <2>8. Passed(i, pc[TaskOf(i)])'
      <3>1. Awaited(i) # "pool_throws"
        BY <1>9, <1>11, OutcomesDiffer
      <3>2. Passed(i, pc[TaskOf(i)])
        BY <1>8, <3>1 DEF Passed, Awaited
      <3> QED
        BY <1>4, <3>2 DEF Passed
    <2>9. DataInv(i)'
      BY <1>1, <1>4, <1>6, <1>8, <2>2, <2>6, <2>8 DEF DataInv, Returned
    <2> QED
      BY <1>4, <1>5, <1>7, <2>3, <2>4, <2>5, <2>7, <2>9, SubStep DEF Sub, PlaceInv
  <1> QED
    BY <1>10, <1>11
(* The body of a sub-task returns or throws. *)
LEMMA BodyEndsStep ==
    ASSUME IInv, NEW t \in Threads, NEW i \in Subs, BodyEnds(t, i)
    PROVE  IInv'
  <1>1. InBody(i) /\ St(TaskOf(i)) = "running" /\ Running(t, TaskOf(i))
    BY WhereRunning DEF BodyEnds, Returned, St
  <1>2. /\ TypeInv /\ RunInv /\ Sub(i)
        /\ frame \in [Coroutines -> Frames] /\ pc \in [Coroutines -> Nat]
    BY DEF IInv, TypeInv, SubInv
  <1>3. /\ Call(i) \in Coroutines /\ TaskOf(i) \in Coroutines /\ Drv(i) \in Coroutines
        /\ TaskOf(i) # Call(i) /\ Drv(i) # TaskOf(i) /\ Drv(i) # Call(i)
    BY Distinct
  <1>4. Quiet /\ UNCHANGED <<body, pool_result, state, got, pc>>
    BY DEF BodyEnds, Quiet
  <1>5. Outcome(i) = (IF body[i].ends = "return" THEN Value(i) ELSE Thrown(i))
        /\ Outcome(i) \in Finals /\ Outcome(i)' = Outcome(i)
    <2>1. Passed(i, pc[TaskOf(i)]) /\ pc[TaskOf(i)] = Len(body[i].awaits)
      BY <1>1, <1>2 DEF Sub, DataInv, BodyEnds
    <2>2. Throwing(i) <=> body[i].ends = "throw"
      BY <2>1 DEF Throwing, Passed
    <2>3. Outcome(i) = (IF body[i].ends = "return" THEN Value(i) ELSE Thrown(i))
      BY <1>2, <2>2, BodyTypes DEF Outcome
    <2> QED
      BY <1>4, <2>3, OutcomesDiffer DEF Outcome, Throwing, Finals
  <1>6. /\ frame' \in [Coroutines -> Frames] /\ at' = [at EXCEPT ![t] = Run(Drv(i))]
        /\ \A c \in Coroutines : c # TaskOf(i) /\ c # Drv(i) => frame'[c] = frame[c]
        /\ frame'[TaskOf(i)].st = "final" /\ frame'[TaskOf(i)].out = Outcome(i)
        /\ frame'[TaskOf(i)].cont = <<Drv(i)>>
        /\ frame'[Drv(i)].st = "running" /\ frame'[Drv(i)].cont = frame[Drv(i)].cont
    <2>1. frame[TaskOf(i)].cont = <<Drv(i)>>
      BY <1>1, <1>2 DEF Sub, ContInv
    <2>2. final_suspend(t, TaskOf(i), Outcome(i))
      BY <1>5 DEF BodyEnds
    <2> QED
      BY <1>2, <1>3, <1>5, <2>1, <2>2, FinalSuspend
  <1>7. Run(Drv(i)) \in Places /\ Run(Drv(i)).do = "run" /\ Run(Drv(i)).co = Drv(i)
    BY <1>3, NewTypes
  <1>8. TypeInv' /\ QueueInv' /\ Elsewhere(i)
    <2>1. Moves(t, Run(Drv(i)), i)
      BY <1>2, <1>4, <1>6, <1>7 DEF Moves, Own, IInv, TypeInv
    <2> QED
      BY <1>4, <2>1, QuietKeeps
  <1>9. RunInv'
    <2>1. \A c \in Coroutines : St(c)' = "running" <=>
              c = Drv(i) \/ (St(c) = "running" /\ ~Running(t, c))
      BY <1>1, <1>3, <1>6 DEF St, Running
    <2>2. St(Drv(i)) # "running"
      BY <1>1 DEF InBody
    <2> QED
      BY <1>2, <1>6, <1>7, <2>1, <2>2, RunMove
  <1>10. Sub(i)'
    <2>1. frame'[Call(i)] = frame[Call(i)]
      BY <1>3, <1>6
    <2>2. Ended(i)'
      BY <1>1, <1>4, <1>6, <2>1 DEF Ended, InBody, Away, St
    <2>3. ~Posted(i)' /\ ~InBody(i)' /\ ~Returned(i)' /\ ~InCall(i)'
      BY <2>2 DEF InBody, Posted, InCall, Returned, Ended
    <2>4. /\ Items(io)' = Items(io) /\ Items(cpu)' = Items(cpu) /\ timers' = timers /\ body' = body
          /\ Drv(i) \notin Items(io) /\ TaskOf(i) \notin Items(io) /\ Call(i) \notin Items(io)
          /\ ~InPool(i) /\ i \notin timers
      BY <1>1, <1>2, <1>4 DEF Sub, TokenInv, InBody, Away, Quiet
    <2>5. TokenInv(i)'
      BY <2>4 DEF TokenInv, InPool
    <2>6. ContInv(i)'
      BY <1>2, <1>6, <2>3 DEF Sub, ContInv, St
    <2>7. pc[TaskOf(i)] \in 0..Len(body[i].awaits)
      BY <1>2 DEF Sub, DataInv
    <2>8. DataInv(i)'
      BY <1>1, <1>4, <1>5, <1>6, <2>3, <2>4, <2>7 DEF DataInv, InBody
    <2> QED
      BY <2>2, <2>5, <2>6, <2>8 DEF Sub, PlaceInv
  <1> QED
    <2>1. ~Fresh(i) /\ pc'[Drv(i)] = pc[Drv(i)]
      BY <1>1, <1>4 DEF Fresh, InBody
    <2> QED
      BY <1>4, <1>8, <1>9, <1>10, <2>1, SubStep

(* The coroutine of pool() or sleep() ends. *)
LEMMA CallEndStep ==
    ASSUME IInv, NEW t \in Threads, NEW i \in Subs, CallEnd(t, i)
    PROVE  IInv'
  <1>1. InCall(i) /\ St(Call(i)) = "running" /\ Running(t, Call(i)) /\ pc[Call(i)] = 1
    BY WhereRunning DEF CallEnd
  <1>2. /\ TypeInv /\ RunInv /\ Sub(i) /\ pool_result \in [Subs -> Outcomes]
        /\ frame \in [Coroutines -> Frames] /\ pc \in [Coroutines -> Nat]
    BY DEF IInv, TypeInv, SubInv
  <1>3. /\ Call(i) \in Coroutines /\ TaskOf(i) \in Coroutines /\ Drv(i) \in Coroutines
        /\ TaskOf(i) # Call(i) /\ Drv(i) # TaskOf(i) /\ Drv(i) # Call(i)
    BY Distinct
  <1>4. Quiet /\ UNCHANGED <<body, state, got, pc>>
    BY DEF CallEnd, Quiet
  <1>5. /\ pool_outcome(i) = (IF Awaited(i) = "sleep" THEN Void
                              ELSE IF Awaited(i) = "pool" THEN Value(i) ELSE Thrown(i))
        /\ pool_outcome(i) \in Finals
    <2>1. pool_outcome(i) = (IF Awaited(i) = "sleep" THEN Void
                            ELSE IF Awaited(i) = "pool" THEN Value(i) ELSE Thrown(i))
      BY <1>1, <1>2 DEF pool_outcome, Awaited, Sub, DataInv
    <2> QED
      BY <2>1, OutcomesDiffer DEF Finals
  <1>6. /\ frame' \in [Coroutines -> Frames] /\ at' = [at EXCEPT ![t] = Run(TaskOf(i))]
        /\ \A c \in Coroutines : c # Call(i) /\ c # TaskOf(i) => frame'[c] = frame[c]
        /\ frame'[Call(i)].st = "final" /\ frame'[Call(i)].out = pool_outcome(i)
        /\ frame'[TaskOf(i)].st = "running" /\ frame'[TaskOf(i)].cont = frame[TaskOf(i)].cont
    <2>1. frame[Call(i)].cont = <<TaskOf(i)>>
      BY <1>1, <1>2 DEF Sub, ContInv
    <2>2. final_suspend(t, Call(i), pool_outcome(i))
      BY DEF CallEnd
    <2> QED
      BY <1>2, <1>3, <1>5, <2>1, <2>2, FinalSuspend
  <1>7. Run(TaskOf(i)) \in Places /\ Run(TaskOf(i)).do = "run" /\ Run(TaskOf(i)).co = TaskOf(i)
    BY <1>3, NewTypes
  <1>8. TypeInv' /\ QueueInv' /\ Elsewhere(i)
    <2>1. /\ pool_result' \in [Subs -> Outcomes]
          /\ \A j \in Subs \ {i} : pool_result'[j] = pool_result[j]
      BY <1>2, OutcomesDiffer DEF CallEnd
    <2>2. Moves(t, Run(TaskOf(i)), i)
      BY <1>2, <1>4, <1>6, <1>7, <2>1 DEF Moves, Own
    <2> QED
      BY <1>4, <2>2, QuietKeeps
  <1>9. RunInv'
    <2>1. \A c \in Coroutines : St(c)' = "running" <=>
              c = TaskOf(i) \/ (St(c) = "running" /\ ~Running(t, c))
      BY <1>1, <1>3, <1>6 DEF St, Running
    <2>2. St(TaskOf(i)) # "running"
      BY <1>1 DEF InCall
    <2> QED
      BY <1>2, <1>6, <1>7, <2>1, <2>2, RunMove
  <1>10. Sub(i)'
    <2>1. frame'[Drv(i)] = frame[Drv(i)]
      BY <1>3, <1>6
    <2>2. Returned(i)'
      BY <1>1, <1>4, <1>6, <2>1 DEF InCall, Returned, St
    <2>3. ~Posted(i)' /\ ~InBody(i)' /\ ~Ended(i)' /\ ~InCall(i)'
      BY <2>2 DEF InBody, Posted, InCall, Returned, Ended, Away
    <2>4. /\ Items(io)' = Items(io) /\ Items(cpu)' = Items(cpu) /\ timers' = timers /\ body' = body
          /\ Drv(i) \notin Items(io) /\ TaskOf(i) \notin Items(io) /\ Call(i) \notin Items(io)
          /\ ~InPool(i) /\ i \notin timers
      BY <1>1, <1>2, <1>4 DEF Sub, TokenInv, InCall, Quiet
    <2>5. TokenInv(i)'
      BY <2>4 DEF TokenInv, InPool
    <2>6. ContInv(i)'
      BY <1>1, <1>2, <1>6, <2>1, <2>3 DEF Sub, ContInv, St
    <2>7. /\ pc[TaskOf(i)] \in 0..Len(body[i].awaits)
          /\ pc[TaskOf(i)] >= 1 /\ Passed(i, pc[TaskOf(i)] - 1)
      BY <1>1, <1>2 DEF Sub, DataInv
    <2>8. Awaited(i)' = Awaited(i) /\ Passed(i, pc[TaskOf(i)] - 1)'
      BY <1>4, <2>7 DEF Awaited, Passed
    <2>9. DataInv(i)'
      BY <1>1, <1>4, <1>5, <1>6, <2>3, <2>4, <2>7, <2>8 DEF DataInv, InCall
    <2> QED
      BY <2>2, <2>5, <2>6, <2>9 DEF Sub, PlaceInv
  <1> QED
    <2>1. ~Fresh(i) /\ pc'[Drv(i)] = pc[Drv(i)]
      BY <1>1, <1>4 DEF Fresh, InCall
    <2> QED
      BY <1>4, <1>8, <1>9, <1>10, <2>1, SubStep
-----------------------------------------------------------------------------
(* Steps that post and take functions *)

(* What a step on sub-task i may do to queues and timers. *)
QueueTypes == io' \in Seq(Coroutines \cup Fns) /\ cpu' \in Seq(Fns)
OtherQueues(i) ==
    /\ \A c \in Coroutines \ Own(i) : SameQueues(c)
    /\ \A j \in Subs \ {i} : InPool(j)' <=> InPool(j)

LEMMA MovesKeep ==
    ASSUME IInv, NEW i \in Subs, NEW t \in Threads, NEW v, Moves(t, v, i),
           QueueTypes, OtherQueues(i), timers' \in SUBSET Subs,
           \A j \in Subs \ {i} : j \in timers' <=> j \in timers
    PROVE  TypeInv' /\ Elsewhere(i)
  <1>1. at \in [Threads -> Places] /\ at' \in [Threads -> Places]
    BY DEF IInv, TypeInv, Moves
  <1>2. TypeInv'
    BY <1>1 DEF IInv, TypeInv, QueueTypes, Moves
  <1>3. \A u \in Threads : at'[u].do = "post" => at[u] = at'[u]
    BY <1>1 DEF Moves
  <1>4. \A j \in Subs \ {i} : state'.results[j] = state.results[j]
    BY DEF Moves
  <1>5. /\ \A c \in Coroutines \ Own(i) : frame'[c] = frame[c] /\ pc'[c] = pc[c]
        /\ \A j \in Subs \ {i} : pool_result'[j] = pool_result[j]
        /\ body' = body /\ got' = got
    BY DEF Moves
  <1> QED
    BY <1>2, <1>3, <1>4, <1>5, Zenon DEF Elsewhere, Around, OtherQueues

(* A pool function is posted. *)
LEMMA PostFn ==
    ASSUME IInv, NEW i \in Subs, ~InPool(i), tl_post_to_cpu(Fn(i))
    PROVE  /\ QueueTypes /\ QueueInv' /\ OtherQueues(i) /\ InPool(i)'
           /\ \A c \in Coroutines : SameQueues(c)
  <1>1. /\ io \in Seq(Coroutines \cup Fns) /\ cpu \in Seq(Fns) /\ QueueInv
        /\ Fn(i) \in Fns /\ Fn(i) \in Coroutines \cup Fns
        /\ Fn(i) \notin Items(io) /\ Fn(i) \notin Items(cpu)
    BY DEF IInv, TypeInv, Fns, InPool
  <1>2. \A c \in Coroutines : c # Fn(i)
    BY DistinctFn
  <1>3. \A j \in Subs \ {i} : Fn(j) # Fn(i)
    BY Distinct
  <1>4. CASE CpuThreads = {} /\ io' = Append(io, Fn(i)) /\ cpu' = cpu
    <2>1. /\ io' \in Seq(Coroutines \cup Fns) /\ Items(io') = Items(io) \cup {Fn(i)} /\ NoDup(io')
      BY <1>1, <1>4, AppendItems DEF QueueInv
    <2> QED
      BY <1>1, <1>2, <1>3, <1>4, <2>1 DEF QueueTypes, QueueInv, OtherQueues, SameQueues, InPool
  <1>5. CASE CpuThreads # {} /\ cpu' = Append(cpu, Fn(i)) /\ io' = io
    <2>1. /\ cpu' \in Seq(Fns) /\ Items(cpu') = Items(cpu) \cup {Fn(i)} /\ NoDup(cpu')
      BY <1>1, <1>5, AppendItems DEF QueueInv
    <2> QED
      BY <1>1, <1>2, <1>3, <1>5, <2>1 DEF QueueTypes, QueueInv, OtherQueues, SameQueues, InPool
  <1> QED
    BY <1>4, <1>5 DEF tl_post_to_cpu, PostIo

(* The resumption of a coroutine is posted. *)
LEMMA PostCo ==
    ASSUME IInv, NEW c \in Coroutines, c \notin Items(io), io' = Append(io, c), cpu' = cpu
    PROVE  /\ QueueTypes /\ QueueInv'
           /\ \A d \in Coroutines : d \in Items(io') <=> d \in Items(io) \/ d = c
           /\ \A j \in Subs : InPool(j)' <=> InPool(j)
  <1>1. /\ io \in Seq(Coroutines \cup Fns) /\ cpu \in Seq(Fns) /\ QueueInv
        /\ c \in Coroutines \cup Fns
    BY DEF IInv, TypeInv
  <1>2. \A j \in Subs : c # Fn(j)
    BY DistinctFn
  <1>3. io' \in Seq(Coroutines \cup Fns) /\ Items(io') = Items(io) \cup {c} /\ NoDup(io')
    BY <1>1, AppendItems DEF QueueInv
  <1> QED
    BY <1>1, <1>2, <1>3 DEF QueueTypes, QueueInv, InPool

(* A coroutine is taken from the queue of the I/O pool. *)
LEMMA TakeCo ==
    ASSUME IInv, io # <<>>, Head(io)[1] # "fn", io' = Tail(io), cpu' = cpu
    PROVE  /\ QueueTypes /\ QueueInv'
           /\ Head(io) \in Coroutines /\ Head(io) \in Items(io)
           /\ \A d \in Coroutines : d \in Items(io') <=> d \in Items(io) /\ d # Head(io)
           /\ \A j \in Subs : InPool(j)' <=> InPool(j)
  <1>1. io \in Seq(Coroutines \cup Fns) /\ cpu \in Seq(Fns) /\ QueueInv
    BY DEF IInv, TypeInv
  <1>2. /\ io' \in Seq(Coroutines \cup Fns) /\ Items(io') = Items(io) \ {Head(io)} /\ NoDup(io')
        /\ Head(io) \in Coroutines \cup Fns /\ Head(io) \in Items(io)
    BY <1>1, TailItems DEF QueueInv
  <1>3. Head(io) \in Coroutines /\ \A j \in Subs : Head(io) # Fn(j)
    BY <1>2, DistinctFn
  <1> QED
    BY <1>1, <1>2, <1>3 DEF QueueTypes, QueueInv, InPool

(* A pool function is taken and the resumption of its caller posted. *)
LEMMA TakeFn ==
    ASSUME IInv, NEW t \in Threads, TakeFunction(t)
    PROVE  \E i \in Subs :
               /\ PoolFunction(i) /\ InPool(i) /\ ~InPool(i)'
               /\ QueueTypes /\ QueueInv' /\ OtherQueues(i)
               /\ \A d \in Coroutines : d \in Items(io') <=> d \in Items(io) \/ d = Call(i)
  <1>1. io \in Seq(Coroutines \cup Fns) /\ cpu \in Seq(Fns) /\ QueueInv
    BY DEF IInv, TypeInv
  <1>2. CASE CpuThreads = {}
    <2>1. /\ io # <<>> /\ Head(io)[1] = "fn" /\ PoolFunction(Head(io)[2]) /\ cpu' = cpu
          /\ io' = Append(Tail(io), Call(Head(io)[2]))
      BY <1>2 DEF TakeFunction
    <2>2. /\ Tail(io) \in Seq(Coroutines \cup Fns) /\ Items(Tail(io)) = Items(io) \ {Head(io)}
          /\ NoDup(Tail(io)) /\ Head(io) \in Coroutines \cup Fns /\ Head(io) \in Items(io)
      BY <1>1, <2>1, TailItems DEF QueueInv
    <2>3. PICK i \in Subs : Head(io) = Fn(i)
      BY <2>1, <2>2, DistinctFn
    <2>4. /\ Head(io)[2] = i /\ Call(i) \in Coroutines /\ Call(i) \in Coroutines \cup Fns
          /\ \A c \in Coroutines : c # Fn(i)
          /\ \A j \in Subs : Fn(j) # Call(i)
          /\ \A j \in Subs \ {i} : Fn(j) # Fn(i) /\ Call(j) # Call(i)
      BY <2>3, Distinct, DistinctFn
    <2>5. InPool(i) /\ Items(cpu) = {}
      BY <1>1, <1>2, <2>2, <2>3, EmptyItems DEF InPool, QueueInv
    <2>6. Call(i) \notin Items(io)
      BY <2>5 DEF IInv, SubInv, Sub, TokenInv
    <2>7. /\ io' \in Seq(Coroutines \cup Fns) /\ NoDup(io')
          /\ Items(io') = (Items(io) \ {Fn(i)}) \cup {Call(i)}
      <3>1. io' = Append(Tail(io), Call(i)) /\ Call(i) \notin Items(Tail(io))
        BY <2>1, <2>2, <2>4, <2>6
      <3>2. Items(Tail(io)) = Items(io) \ {Fn(i)}
        BY <2>2, <2>3
      <3> DEFINE q == Tail(io)
      <3>3. /\ Append(q, Call(i)) \in Seq(Coroutines \cup Fns) /\ NoDup(Append(q, Call(i)))
            /\ Items(Append(q, Call(i))) = Items(q) \cup {Call(i)}
        <4>1. /\ q \in Seq(Coroutines \cup Fns) /\ NoDup(q) /\ Call(i) \notin Items(q)
              /\ Call(i) \in Coroutines \cup Fns
          BY <2>2, <2>4, <3>1
        <4> HIDE DEF q
        <4> QED
          BY <4>1, AppendItems
      <3> QED
        BY <3>1, <3>2, <3>3
    <2>8. QueueTypes /\ QueueInv'
      BY <1>1, <1>2, <2>1, <2>7 DEF QueueTypes, QueueInv
    <2>9. OtherQueues(i)
      BY <2>1, <2>4, <2>7 DEF OtherQueues, SameQueues, InPool, Own
    <2>10. ~InPool(i)'
      BY <2>1, <2>4, <2>5, <2>7 DEF InPool
    <2>11. \A d \in Coroutines : d \in Items(io') <=> d \in Items(io) \/ d = Call(i)
      BY <2>4, <2>7
    <2>12. PoolFunction(i)
      BY <2>1, <2>4
    <2> QED
      BY <2>5, <2>8, <2>9, <2>10, <2>11, <2>12
  <1>3. CASE CpuThreads # {}
    <2>1. /\ cpu # <<>> /\ Head(cpu)[1] = "fn" /\ PoolFunction(Head(cpu)[2]) /\ cpu' = Tail(cpu)
          /\ io' = Append(io, Call(Head(cpu)[2]))
      BY <1>3 DEF TakeFunction
    <2>2. /\ cpu' \in Seq(Fns) /\ Items(cpu') = Items(cpu) \ {Head(cpu)}
          /\ NoDup(cpu') /\ Head(cpu) \in Fns /\ Head(cpu) \in Items(cpu)
      BY <1>1, <2>1, TailItems DEF QueueInv
    <2>3. PICK i \in Subs : Head(cpu) = Fn(i)
      BY <2>2 DEF Fns
    <2>4. /\ Head(cpu)[2] = i /\ Call(i) \in Coroutines /\ Call(i) \in Coroutines \cup Fns
          /\ Fn(i) \notin Coroutines
          /\ \A j \in Subs : Fn(j) # Call(i)
          /\ \A j \in Subs \ {i} : Fn(j) # Fn(i) /\ Call(j) # Call(i)
      BY <2>3, Distinct, DistinctFn
    <2>5. InPool(i) /\ Items(io) \subseteq Coroutines
      BY <1>1, <1>3, <2>2, <2>3 DEF InPool, QueueInv
    <2>6. Call(i) \notin Items(io)
      BY <2>5 DEF IInv, SubInv, Sub, TokenInv
    <2>7. /\ io' \in Seq(Coroutines \cup Fns) /\ NoDup(io') /\ Items(io') = Items(io) \cup {Call(i)}
      <3>1. io' = Append(io, Call(i))
        BY <2>1, <2>4
      <3> QED
        BY <1>1, <2>4, <2>6, <3>1, AppendItems DEF QueueInv
    <2>8. QueueTypes /\ QueueInv'
      BY <1>3, <2>2, <2>4, <2>5, <2>7 DEF QueueTypes, QueueInv
    <2>9. OtherQueues(i)
      BY <2>2, <2>3, <2>4, <2>7 DEF OtherQueues, SameQueues, InPool, Own
    <2>10. ~InPool(i)'
      BY <2>2, <2>3, <2>4, <2>5, <2>7 DEF InPool
    <2>11. \A d \in Coroutines : d \in Items(io') <=> d \in Items(io) \/ d = Call(i)
      BY <2>7
    <2>12. PoolFunction(i)
      BY <2>1, <2>4
    <2> QED
      BY <2>5, <2>8, <2>9, <2>10, <2>11, <2>12
  <1> QED
    BY <1>2, <1>3

(* The coroutine of pool() or sleep() suspends: a function or a timer holds it. *)
LEMMA CallStartStep ==
    ASSUME IInv, NEW t \in Threads, NEW i \in Subs, CallStart(t, i)
    PROVE  IInv'
  <1>1. InCall(i) /\ St(Call(i)) = "running" /\ Running(t, Call(i)) /\ pc[Call(i)] = 0
    BY WhereRunning DEF CallStart
  <1>2. /\ TypeInv /\ RunInv /\ Sub(i) /\ QueueInv
        /\ frame \in [Coroutines -> Frames] /\ pc \in [Coroutines -> Nat]
        /\ timers \in SUBSET Subs /\ pool_result \in [Subs -> Outcomes]
        /\ io \in Seq(Coroutines \cup Fns) /\ cpu \in Seq(Fns)
    BY DEF IInv, TypeInv, SubInv
  <1>3. /\ Call(i) \in Coroutines /\ TaskOf(i) \in Coroutines /\ Drv(i) \in Coroutines
        /\ TaskOf(i) # Call(i) /\ Drv(i) # TaskOf(i) /\ Drv(i) # Call(i)
    BY Distinct
  <1>4. UNCHANGED <<body, pool_result, state, got>> /\ at' = [at EXCEPT ![t] = Idle]
    BY DEF CallStart
  <1>5. /\ pc' \in [Coroutines -> Nat] /\ pc'[Call(i)] = 1
        /\ \A c \in Coroutines : c # Call(i) => pc'[c] = pc[c]
    BY <1>2, <1>3 DEF CallStart
  <1>6. /\ frame' \in [Coroutines -> Frames] /\ frame'[Call(i)].st = "suspended"
        /\ frame'[Call(i)].cont = frame[Call(i)].cont
        /\ \A c \in Coroutines : c # Call(i) => frame'[c] = frame[c]
    <2>1. [frame[Call(i)] EXCEPT !.st = "suspended"] \in Frames
      BY <1>2, <1>3, NewTypes DEF Stages
    <2> QED
      BY <1>2, <1>3, <2>1 DEF CallStart, Frames
  <1>7. /\ Drv(i) \notin Items(io) /\ TaskOf(i) \notin Items(io) /\ Call(i) \notin Items(io)
        /\ ~InPool(i) /\ i \notin timers
    BY <1>1, <1>2 DEF Sub, TokenInv, InCall
  <1>8. /\ QueueTypes /\ QueueInv' /\ OtherQueues(i) /\ timers' \in SUBSET Subs
        /\ \A j \in Subs \ {i} : j \in timers' <=> j \in timers
        /\ \A c \in Coroutines : SameQueues(c)
        /\ ~(InPool(i)' /\ i \in timers')
        /\ i \in timers' => Awaited(i) = "sleep"
    <2>1. CASE /\ body[i].awaits[pc[TaskOf(i)]] = "sleep"
               /\ timers' = timers \cup {i} /\ UNCHANGED <<io, cpu>>
      <3>1. QueueTypes /\ QueueInv'
        BY <1>2, <2>1 DEF QueueTypes, QueueInv
      <3>2. OtherQueues(i) /\ (\A c \in Coroutines : SameQueues(c)) /\ ~InPool(i)'
        BY <1>7, <2>1 DEF OtherQueues, SameQueues, InPool
      <3> QED
        BY <1>2, <2>1, <3>1, <3>2 DEF Awaited
    <2>2. CASE tl_post_to_cpu(Fn(i)) /\ timers' = timers
      <3>1. /\ QueueTypes /\ QueueInv' /\ OtherQueues(i)
            /\ \A c \in Coroutines : SameQueues(c)
        BY <1>7, <2>2, PostFn
      <3> QED
        BY <1>2, <1>7, <2>2, <3>1
    <2> QED
      BY <2>1, <2>2 DEF CallStart
  <1>9. TypeInv' /\ Elsewhere(i)
    <2>1. Moves(t, Idle, i)
      BY <1>2, <1>4, <1>5, <1>6, NewTypes DEF Moves, Own
    <2> QED
      BY <1>8, <2>1, MovesKeep
  <1>10. RunInv'
    <2>1. \A c \in Coroutines : St(c)' = "running" <=> (St(c) = "running" /\ ~Running(t, c))
      BY <1>1, <1>6 DEF St, Running
    <2> QED
      BY <1>2, <1>4, <2>1, NewTypes, RunMove
  <1>11. Sub(i)'
    <2>1. /\ frame'[Drv(i)] = frame[Drv(i)] /\ frame'[TaskOf(i)] = frame[TaskOf(i)]
          /\ pc'[Drv(i)] = pc[Drv(i)] /\ pc'[TaskOf(i)] = pc[TaskOf(i)] /\ body' = body
      BY <1>3, <1>4, <1>5, <1>6
    <2>2. InCall(i)'
      BY <1>1, <1>5, <1>6, <2>1 DEF InCall, St
    <2>3. ~Posted(i)' /\ ~InBody(i)' /\ ~Returned(i)' /\ ~Ended(i)'
      BY <2>2 DEF InBody, Posted, InCall, Returned, Ended, Away
    <2>4. ContInv(i)'
      BY <1>1, <1>2, <1>6, <2>1 DEF Sub, ContInv, InCall, St
    <2>5. (Drv(i) \notin Items(io) /\ TaskOf(i) \notin Items(io) /\ Call(i) \notin Items(io))'
      BY <1>3, <1>7, <1>8 DEF SameQueues
    <2>6. TokenInv(i)'
      BY <1>5, <1>6, <1>8, <2>5 DEF TokenInv, St
    <2>7. /\ pc[TaskOf(i)] \in 0..Len(body[i].awaits)
          /\ pc[TaskOf(i)] >= 1 /\ Passed(i, pc[TaskOf(i)] - 1)
      BY <1>1, <1>2 DEF Sub, DataInv
    <2>8. Awaited(i)' = Awaited(i) /\ Passed(i, pc[TaskOf(i)] - 1)'
      BY <2>1, <2>7 DEF Awaited, Passed
    <2>9. DataInv(i)'
      BY <1>1, <1>6, <1>8, <2>1, <2>3, <2>5, <2>7, <2>8 DEF DataInv, InCall, St
    <2> QED
      BY <2>2, <2>4, <2>6, <2>9 DEF Sub, PlaceInv
  <1> QED
    <2>1. ~Fresh(i) /\ pc'[Drv(i)] = pc[Drv(i)]
      BY <1>1, <1>3, <1>5 DEF Fresh, InCall
    <2> QED
      BY <1>4, <1>8, <1>9, <1>10, <1>11, <2>1, SubStep

(* A suspended call whose resumption is posted, by a timer or a pool function. *)
LEMMA CallPosted ==
    ASSUME IInv, NEW i \in Subs, UNCHANGED <<body, at, frame, pc, state, got>>,
           i \in timers \/ InPool(i), i \notin timers', ~InPool(i)',
           \A d \in Coroutines : d \in Items(io') <=> d \in Items(io) \/ d = Call(i),
           \A j \in Subs : j # i => /\ InPool(j)' <=> InPool(j)
                                    /\ j \in timers' <=> j \in timers
                                    /\ pool_result'[j] = pool_result[j],
           QueueTypes, QueueInv', timers' \in SUBSET Subs, pool_result' \in [Subs -> Outcomes],
           InPool(i) => pool_result'[i] = IF Awaited(i) = "pool" THEN Value(i) ELSE Thrown(i)
    PROVE  IInv'
  <1>1. Sub(i) /\ RunInv /\ TypeInv /\ St(Call(i)) = "suspended" /\ pc[Call(i)] = 1
    BY DEF IInv, SubInv, Sub, TokenInv
  <1>2. InCall(i)
    BY <1>1 DEF Sub, PlaceInv, Fresh, Posted, InBody, InCall, Returned, Ended, Done, Away
  <1>3. /\ Call(i) \in Coroutines /\ TaskOf(i) \in Coroutines /\ Drv(i) \in Coroutines
        /\ TaskOf(i) # Call(i) /\ Drv(i) # TaskOf(i) /\ Drv(i) # Call(i)
    BY Distinct
  <1>4. TypeInv'
    BY <1>1 DEF TypeInv, QueueTypes
  <1>5. RunInv'
    BY <1>1, RunKeeps DEF St
  <1>6. Elsewhere(i)
    <2>1. \A c \in Coroutines \ Own(i) : SameQueues(c)
      BY DEF SameQueues, Own
    <2> QED
      BY <2>1 DEF Elsewhere, Around
  <1>7. Sub(i)'
    <2>1. InCall(i)' /\ ContInv(i)' /\ Awaited(i)' = Awaited(i)
      BY <1>1, <1>2 DEF InCall, Sub, ContInv, InBody, Returned, Away, St, Awaited
    <2>2. ~Posted(i)' /\ ~InBody(i)' /\ ~Returned(i)' /\ ~Ended(i)'
      BY <2>1 DEF InBody, Posted, InCall, Returned, Ended, Away
    <2>3. Drv(i) \notin Items(io) /\ TaskOf(i) \notin Items(io)
      BY <1>1, <1>2 DEF Sub, TokenInv, InCall
    <2>4. (Drv(i) \notin Items(io) /\ TaskOf(i) \notin Items(io))'
      BY <1>3, <2>3
    <2>5. TokenInv(i)'
      BY <1>1, <2>4 DEF TokenInv, St
    <2>6. /\ pc[TaskOf(i)] \in 0..Len(body[i].awaits)
          /\ pc[TaskOf(i)] >= 1 /\ Passed(i, pc[TaskOf(i)] - 1)
          /\ i \in timers => Awaited(i) = "sleep"
      BY <1>1, <1>2 DEF Sub, DataInv
    <2>7. Passed(i, pc[TaskOf(i)] - 1)'
      BY <2>6 DEF Passed
    <2>8. DataInv(i)'
      BY <1>2, <2>1, <2>2, <2>6, <2>7 DEF DataInv, InCall
    <2> QED
      BY <2>1, <2>5, <2>8 DEF Sub, PlaceInv
  <1> QED
    <2>1. ~Fresh(i) /\ pc'[Drv(i)] = pc[Drv(i)]
      BY <1>2 DEF Fresh, InCall
    <2> QED
      BY <1>4, <1>5, <1>6, <1>7, <2>1, SubStep

(* The timer of a sleep expires. *)
LEMMA TimerFiresStep ==
    ASSUME IInv, NEW i \in Subs, TimerFires(i)
    PROVE  IInv'
  <1>1. /\ i \in timers /\ timers' = timers \ {i} /\ io' = Append(io, Call(i)) /\ cpu' = cpu
        /\ UNCHANGED <<body, at, frame, pc, pool_result, state, got>>
    BY DEF TimerFires, PostIo
  <1>2. /\ ~InPool(i) /\ Call(i) \notin Items(io) /\ timers \in SUBSET Subs
        /\ pool_result \in [Subs -> Outcomes]
    BY <1>1 DEF IInv, TypeInv, SubInv, Sub, TokenInv
  <1>3. Call(i) \in Coroutines
    BY Distinct
  <1>4. /\ QueueTypes /\ QueueInv'
        /\ \A d \in Coroutines : d \in Items(io') <=> d \in Items(io) \/ d = Call(i)
        /\ \A j \in Subs : InPool(j)' <=> InPool(j)
    BY <1>1, <1>2, <1>3, PostCo
  <1> QED
    BY <1>1, <1>2, <1>4, CallPosted

(* A thread runs the function of a pool call. *)
LEMMA TakeFunctionStep ==
    ASSUME IInv, NEW t \in Threads, TakeFunction(t)
    PROVE  IInv'
  <1>1. PICK i \in Subs :
               /\ PoolFunction(i) /\ InPool(i) /\ ~InPool(i)'
               /\ QueueTypes /\ QueueInv' /\ OtherQueues(i)
               /\ \A d \in Coroutines : d \in Items(io') <=> d \in Items(io) \/ d = Call(i)
    BY TakeFn
  <1>2. /\ UNCHANGED <<body, at, frame, pc, state, got, timers>> /\ i \notin timers
        /\ timers \in SUBSET Subs /\ pool_result \in [Subs -> Outcomes]
    BY <1>1 DEF PoolFunction, IInv, TypeInv, SubInv, Sub, TokenInv
  <1>3. pool_result' = [pool_result EXCEPT ![i] = IF Awaited(i) = "pool" THEN Value(i) ELSE Thrown(i)]
    BY <1>1 DEF PoolFunction, Awaited
  <1>4. /\ pool_result' \in [Subs -> Outcomes]
        /\ pool_result'[i] = IF Awaited(i) = "pool" THEN Value(i) ELSE Thrown(i)
        /\ \A j \in Subs : j # i => pool_result'[j] = pool_result[j]
    BY <1>2, <1>3, OutcomesDiffer
  <1>5. \A j \in Subs : j # i => (InPool(j)' <=> InPool(j))
    BY <1>1 DEF OtherQueues
  <1> QED
    BY <1>1, <1>2, <1>4, <1>5, CallPosted

(* A step of the handler or of when_all that touches no sub-task. *)
LEMMA ChainStep ==
    ASSUME IInv, TypeInv', QueueInv', RunInv', ChainInv', PostInv',
           body' = body, state' = state, pc'[All] = pc[All],
           \A j \in Subs : SameSub(j)
    PROVE  IInv'
  <1>1. SubInv'
    BY SubKeeps DEF IInv, SubInv
  <1>2. \A i \in Subs : pc'[Drv(i)] = pc[Drv(i)]
    BY DEF SameSub, Own
  <1>3. Left' = Left
    BY <1>2 DEF Left
  <1>4. StateInv'
    BY <1>2, <1>3, StateKeeps DEF IInv
  <1> QED
    BY <1>1, <1>4 DEF IInv

(* Nothing of a sub-task changes when only Outer and All do. *)
LEMMA SubsUntouched ==
    ASSUME body' = body, pool_result' = pool_result, state' = state, timers' = timers,
           \A c \in Coroutines : c # Outer /\ c # All =>
               frame'[c] = frame[c] /\ pc'[c] = pc[c] /\ SameQueues(c),
           \A j \in Subs : InPool(j)' <=> InPool(j)
    PROVE  /\ \A j \in Subs : SameSub(j)
           /\ \A j \in Subs : Fresh(j)' <=> Fresh(j)
           /\ Left' = Left
  <1>1. \A j \in Subs : Own(j) \subseteq Coroutines /\ Outer \notin Own(j) /\ All \notin Own(j)
    BY Distinct DEF Own
  <1>2. ASSUME NEW j \in Subs
        PROVE  /\ frame'[Drv(j)] = frame[Drv(j)] /\ frame'[TaskOf(j)] = frame[TaskOf(j)]
               /\ frame'[Call(j)] = frame[Call(j)]
               /\ pc'[Drv(j)] = pc[Drv(j)] /\ pc'[TaskOf(j)] = pc[TaskOf(j)]
    BY Distinct
  <1>3. ASSUME NEW j \in Subs
        PROVE  SameSub(j)
    <2>1. \A c \in Own(j) : frame'[c] = frame[c] /\ pc'[c] = pc[c] /\ SameQueues(c)
      BY <1>1
    <2> QED
      BY <2>1 DEF SameSub
  <1>4. \A j \in Subs : Fresh(j)' <=> Fresh(j)
    BY <1>2 DEF Fresh, St
  <1>5. Left' = Left
    BY <1>2 DEF Left
  <1> QED
    BY <1>3, <1>4, <1>5

(* A thread of the I/O pool resumes a coroutine or starts a driver. *)
LEMMA TakeIoStep ==
    ASSUME IInv, NEW t \in Threads, TakeIo(t)
    PROVE  IInv'
  <1> DEFINE c == Head(io)
  <1>1. /\ at[t] = Idle /\ io # <<>> /\ c[1] # "fn" /\ io' = Tail(io) /\ Resume(t, c)
        /\ UNCHANGED <<body, cpu, timers, pc, pool_result, state, got>>
    BY DEF TakeIo
  <1>2. /\ TypeInv /\ RunInv /\ frame \in [Coroutines -> Frames] /\ pc \in [Coroutines -> Nat]
        /\ at \in [Threads -> Places] /\ PostInv /\ ChainInv
    BY DEF IInv, TypeInv
  <1>3. /\ QueueTypes /\ QueueInv' /\ c \in Coroutines /\ c \in Items(io)
        /\ \A d \in Coroutines : d \in Items(io') <=> d \in Items(io) /\ d # c
        /\ \A j \in Subs : InPool(j)' <=> InPool(j)
    BY <1>1, TakeCo
  <1> HIDE DEF c
  <1>4. /\ frame' \in [Coroutines -> Frames] /\ at' \in [Threads -> Places]
        /\ at' = [at EXCEPT ![t] = Run(c)]
        /\ \A d \in Coroutines : d # c => frame'[d] = frame[d]
        /\ frame'[c].st = "running" /\ frame'[c].cont = frame[c].cont
        /\ frame'[c].out = frame[c].out
    BY <1>1, <1>2, <1>3, ResumeEffect
  <1>5. TypeInv'
    BY <1>1, <1>2, <1>3, <1>4 DEF TypeInv, QueueTypes
  <1>6. Run(c) \in Places /\ Run(c).do = "run" /\ Run(c).co = c
    BY <1>3, NewTypes
  <1>7. ASSUME St(c) = "suspended"
        PROVE  RunInv'
    <2>1. \A d \in Coroutines : ~Running(t, d)
      BY <1>1, NewTypes DEF Running
    <2>2. \A d \in Coroutines : St(d)' = "running" <=> d = c \/ (St(d) = "running" /\ ~Running(t, d))
      BY <1>4, <2>1 DEF St
    <2> QED
      BY <1>2, <1>4, <1>6, <1>7, <2>2, RunMove
  <1>8. \A u \in Threads : at'[u].do = "post" => at[u] = at'[u]
    BY <1>2, <1>4, <1>6
  <1>9. CASE c = Outer \/ c = All
    <2>1. /\ (\A j \in Subs : SameSub(j)) /\ (\A j \in Subs : Fresh(j)' <=> Fresh(j)) /\ Left' = Left
      BY <1>1, <1>3, <1>4, <1>9, SubsUntouched DEF SameQueues
    <2>2. St(c) = "suspended"
      BY <1>2, <1>3, <1>9 DEF ChainInv
    <2>3. PostInv'
      BY <1>1, <1>2, <1>8, <2>1, PostKeeps
    <2>4. /\ Outer \in Coroutines /\ All \in Coroutines /\ Outer # All
      BY Distinct
    <2>5. \A o : Result(o)' <=> Result(o)
      BY <1>1 DEF Result, Throwing
    <2>6. ChainInv'
      <3>1. CASE c = Outer
        <4>1. frame'[All] = frame[All] /\ pc' = pc /\ got' = got /\ Left' = Left
          BY <1>1, <1>4, <2>1, <2>4, <3>1
        <4>2. (All \in Items(io') <=> All \in Items(io)) /\ Outer \notin Items(io')
          BY <1>3, <2>4, <3>1
        <4>3. pc[Outer] = 0 /\ frame'[Outer].st = "running" /\ frame'[Outer].cont = frame[Outer].cont
          BY <1>2, <1>3, <1>4, <3>1 DEF ChainInv
        <4> QED
          BY <1>2, <2>1, <2>5, <4>1, <4>2, <4>3 DEF ChainInv, St
      <3>2. CASE c = All
        <4>1. frame'[Outer] = frame[Outer] /\ pc' = pc /\ got' = got /\ Left' = Left
          BY <1>1, <1>4, <2>1, <2>4, <3>2
        <4>2. (Outer \in Items(io') <=> Outer \in Items(io)) /\ All \notin Items(io')
          BY <1>3, <2>4, <3>2
        <4>3. /\ pc[Outer] = 1 /\ pc[All] = 1 /\ Left = {} /\ St(All) = "suspended"
              /\ frame'[All].st = "running" /\ frame'[All].cont = frame[All].cont
          BY <1>2, <1>3, <1>4, <3>2 DEF ChainInv
        <4> QED
          BY <1>2, <2>1, <2>5, <4>1, <4>2, <4>3 DEF ChainInv, St
      <3> QED
        BY <1>9, <3>1, <3>2
    <2> QED
      BY <1>1, <1>3, <1>5, <1>7, <2>1, <2>2, <2>3, <2>6, ChainStep
  <1>10. ASSUME NEW i \in Subs, c \in Own(i)
         PROVE  IInv'
    <2>1. /\ Sub(i) /\ Call(i) \in Coroutines /\ TaskOf(i) \in Coroutines /\ Drv(i) \in Coroutines
          /\ TaskOf(i) # Call(i) /\ Drv(i) # TaskOf(i) /\ Drv(i) # Call(i)
      BY Distinct DEF IInv, SubInv
    <2>2. c # TaskOf(i)
      BY <1>3, <2>1 DEF Sub, TokenInv
    <2>3. Elsewhere(i)
      <3>1. \A d \in Coroutines \ Own(i) : frame'[d] = frame[d] /\ pc'[d] = pc[d] /\ SameQueues(d)
        BY <1>1, <1>3, <1>4, <1>10 DEF SameQueues
      <3> QED
        BY <1>1, <1>3, <1>8, <3>1 DEF Elsewhere, Around
    <2>4. /\ Awaited(i)' = Awaited(i) /\ body' = body /\ timers' = timers
          /\ \A n : Passed(i, n)' <=> Passed(i, n)
      BY <1>1 DEF Awaited, Passed
    <2>5. /\ pc[TaskOf(i)] \in 0..Len(body[i].awaits)
          /\ i \in timers => Awaited(i) = "sleep"
          /\ pc[Drv(i)] >= 2 /\ ~Throwing(i) => state.results[i] = Value(i)
      BY <2>1 DEF Sub, DataInv
    <2>6. CASE c = Drv(i)
      <3>1. Posted(i) /\ St(Drv(i)) = "suspended"
        BY <1>3, <2>1, <2>6
           DEF Sub, TokenInv, PlaceInv, Fresh, Posted, InBody, InCall, Returned, Ended, Done
      <3>2. /\ frame'[TaskOf(i)] = frame[TaskOf(i)] /\ frame'[Call(i)] = frame[Call(i)]
            /\ frame'[Drv(i)].st = "running" /\ frame'[Drv(i)].cont = frame[Drv(i)].cont
        BY <1>4, <2>1, <2>6
      <3>3. Posted(i)'
        BY <1>1, <3>1, <3>2 DEF Posted, St
      <3>4. ~InBody(i)' /\ ~InCall(i)' /\ ~Returned(i)' /\ ~Ended(i)'
        BY <3>3 DEF Posted, InBody, InCall, Returned, Ended
      <3>5. ContInv(i)'
        BY <2>1, <3>2, <3>4 DEF Sub, ContInv, St
      <3>6. /\ Drv(i) \notin Items(io') /\ TaskOf(i) \notin Items(io') /\ Call(i) \notin Items(io')
            /\ ~InPool(i)' /\ i \notin timers'
        BY <1>1, <1>3, <2>1, <2>6, <3>1 DEF Sub, TokenInv, Posted
      <3>7. TokenInv(i)'
        BY <3>6 DEF TokenInv
      <3>8. Passed(i, pc[TaskOf(i)])
        BY <2>1, <3>1 DEF Sub, DataInv
      <3>9. DataInv(i)'
        BY <1>1, <2>4, <2>5, <3>1, <3>4, <3>6, <3>8 DEF DataInv, Posted
      <3>10. Sub(i)' /\ ~Fresh(i) /\ pc'[Drv(i)] = pc[Drv(i)]
        BY <1>1, <3>1, <3>3, <3>5, <3>7, <3>9 DEF Sub, PlaceInv, Fresh, Posted
      <3> QED
        BY <1>1, <1>3, <1>5, <1>7, <2>3, <2>6, <3>1, <3>10, SubStep
    <2>7. CASE c = Call(i)
      <3>1. InCall(i) /\ St(Call(i)) = "suspended" /\ pc[Call(i)] = 1
        BY <1>3, <2>1, <2>7
           DEF Sub, TokenInv, PlaceInv, Fresh, Posted, InBody, InCall, Returned, Ended, Done, Away
      <3>2. /\ frame'[TaskOf(i)] = frame[TaskOf(i)] /\ frame'[Drv(i)] = frame[Drv(i)]
            /\ frame'[Call(i)].st = "running" /\ frame'[Call(i)].cont = frame[Call(i)].cont
        BY <1>4, <2>1, <2>7
      <3>3. InCall(i)'
        BY <1>1, <3>1, <3>2 DEF InCall, St
      <3>4. ~InBody(i)' /\ ~Posted(i)' /\ ~Returned(i)' /\ ~Ended(i)'
        BY <3>3 DEF Posted, InBody, InCall, Returned, Ended, Away
      <3>5. ContInv(i)'
        BY <2>1, <3>1, <3>2, <3>4 DEF Sub, ContInv, InCall, St
      <3>6. /\ Drv(i) \notin Items(io') /\ TaskOf(i) \notin Items(io') /\ Call(i) \notin Items(io')
            /\ ~InPool(i)' /\ i \notin timers'
        BY <1>1, <1>3, <2>1, <2>7, <3>1 DEF Sub, TokenInv, InCall
      <3>7. TokenInv(i)'
        BY <3>6 DEF TokenInv
      <3>8. /\ Passed(i, pc[TaskOf(i)] - 1) /\ pc[TaskOf(i)] >= 1
            /\ Awaited(i) # "sleep" =>
                   pool_result[i] = IF Awaited(i) = "pool" THEN Value(i) ELSE Thrown(i)
        BY <1>3, <2>1, <2>7, <3>1 DEF Sub, DataInv
      <3>9. DataInv(i)'
        BY <1>1, <2>4, <2>5, <3>1, <3>4, <3>6, <3>8 DEF DataInv, InCall
      <3>10. Sub(i)' /\ ~Fresh(i) /\ pc'[Drv(i)] = pc[Drv(i)]
        BY <1>1, <3>1, <3>3, <3>5, <3>7, <3>9 DEF Sub, PlaceInv, Fresh, InCall
      <3> QED
        BY <1>1, <1>3, <1>5, <1>7, <2>3, <2>7, <3>1, <3>10, SubStep
    <2> QED
      BY <1>10, <2>2, <2>6, <2>7 DEF Own
  <1> QED
    BY <1>3, <1>9, <1>10, Distinct
-----------------------------------------------------------------------------
(* The steps of the handler and of when_all *)

(* The handler and when_all, from who runs. *)
LEMMA ChainRunning ==
    ASSUME IInv, NEW t \in Threads
    PROVE  /\ Running(t, Outer) => St(Outer) = "running"
           /\ Running(t, All) => St(All) = "running"
           /\ pc[Outer] \in 0..2 /\ pc[All] \in {0, 1}
           /\ \A i \in Subs : ~Fresh(i) => pc[All] = 1
  <1>1. \A c \in Coroutines : Running(t, c) => St(c) = "running"
    BY DEF IInv, RunInv, Running
  <1>2. /\ pc[Outer] \in 0..2 /\ pc[All] \in {0, 1}
        /\ pc[All] = 0 => \A i \in Subs : Fresh(i)
    BY DEF IInv, ChainInv
  <1> QED
    BY <1>1, <1>2, Distinct

(* A step of thread t on the frames of the handler and of when_all. *)
ChainMoves(t, v) ==
    /\ UNCHANGED <<body, io, cpu, timers, pool_result, state>>
    /\ at' = [at EXCEPT ![t] = v] /\ v \in Places /\ v.do # "post"
    /\ frame' \in [Coroutines -> Frames] /\ pc' \in [Coroutines -> Nat] /\ pc'[All] = pc[All]
    /\ \A c \in Coroutines : c # Outer /\ c # All => frame'[c] = frame[c] /\ pc'[c] = pc[c]
    /\ got' \in Seq(Finals)

LEMMA ChainMovesKeep ==
    ASSUME IInv, NEW t \in Threads, NEW v, ChainMoves(t, v), RunInv',
           (\A j \in Subs : Fresh(j)' <=> Fresh(j)) /\ Left' = Left => ChainInv'
    PROVE  IInv'
  <1>1. at \in [Threads -> Places] /\ at' \in [Threads -> Places] /\ PostInv
    BY DEF IInv, TypeInv, ChainMoves
  <1>2. TypeInv'
    BY <1>1 DEF IInv, TypeInv, ChainMoves
  <1>3. QueueInv' /\ \A j \in Subs : InPool(j)' <=> InPool(j)
    BY DEF IInv, QueueInv, ChainMoves, InPool
  <1>4. \A c \in Coroutines : SameQueues(c)
    BY DEF SameQueues, ChainMoves
  <1>5. /\ (\A j \in Subs : SameSub(j)) /\ (\A j \in Subs : Fresh(j)' <=> Fresh(j)) /\ Left' = Left
    BY <1>3, <1>4, SubsUntouched DEF ChainMoves
  <1>6. \A u \in Threads : at'[u].do = "post" => at[u] = at'[u]
    BY <1>1 DEF ChainMoves
  <1>7. PostInv'
    BY <1>1, <1>5, <1>6, PostKeeps DEF ChainMoves
  <1> QED
    BY <1>2, <1>3, <1>5, <1>7, ChainStep DEF ChainMoves

(* The handler awaits when_all. *)
LEMMA OuterAwaitsStep ==
    ASSUME IInv, NEW t \in Threads, OuterAwaits(t)
    PROVE  IInv'
  <1> DEFINE f == [frame EXCEPT ![All] = NewFrame]
  <1>1. /\ TypeInv /\ RunInv /\ ChainInv /\ frame \in [Coroutines -> Frames]
        /\ pc \in [Coroutines -> Nat] /\ got \in Seq(Finals)
    BY DEF IInv, TypeInv
  <1>2. /\ Running(t, Outer) /\ pc[Outer] = 0 /\ St(Outer) = "running" /\ St(All) = "none"
        /\ pc[All] = 0
    BY <1>1, ChainRunning DEF OuterAwaits, ChainInv
  <1>3. Outer \in Coroutines /\ All \in Coroutines /\ Outer # All
    BY Distinct
  <1>4. /\ frame' \in [Coroutines -> Frames] /\ at' = [at EXCEPT ![t] = Run(All)]
        /\ \A c \in Coroutines : c # Outer /\ c # All => frame'[c] = frame[c]
        /\ frame'[All].cont = <<Outer>> /\ frame'[All].st = "running"
        /\ frame'[Outer].st = "suspended" /\ frame'[Outer].cont = frame[Outer].cont
    <2>1. await_suspend(t, Outer, f, All)
      BY DEF OuterAwaits
    <2>2. /\ f \in [Coroutines -> Frames] /\ f[Outer] = frame[Outer]
          /\ \A c \in Coroutines : c # All => f[c] = frame[c]
      BY <1>1, <1>3, NewTypes
    <2> HIDE DEF f
    <2> QED
      BY <1>1, <1>3, <2>1, <2>2, AwaitSuspend
  <1>5. /\ pc' \in [Coroutines -> Nat] /\ pc'[Outer] = 1
        /\ \A c \in Coroutines : c # Outer => pc'[c] = pc[c]
    BY <1>1, <1>3 DEF OuterAwaits
  <1>6. UNCHANGED <<body, io, cpu, timers, pool_result, state, got>>
    BY DEF OuterAwaits
  <1>7. Run(All) \in Places /\ Run(All).do = "run" /\ Run(All).co = All
    BY <1>3, NewTypes
  <1>8. ChainMoves(t, Run(All))
    BY <1>1, <1>3, <1>4, <1>5, <1>6, <1>7 DEF ChainMoves
  <1>9. RunInv'
    <2>1. \A c \in Coroutines : St(c)' = "running" <=>
              c = All \/ (St(c) = "running" /\ ~Running(t, c))
      BY <1>2, <1>3, <1>4 DEF St, Running
    <2> QED
      BY <1>1, <1>2, <1>4, <1>7, <2>1, RunMove
  <1>10. ASSUME \A j \in Subs : Fresh(j)' <=> Fresh(j), Left' = Left
         PROVE  ChainInv'
    <2>1. Outer \notin Items(io) /\ All \notin Items(io) /\ got = <<>> /\ frame[Outer].cont = <<>>
      BY <1>1, <1>2 DEF ChainInv
    <2>2. pc'[All] = 0 /\ got' = got /\ io' = io
      BY <1>2, <1>3, <1>5, <1>6
    <2>3. \A j \in Subs : Fresh(j)'
      BY <1>1, <1>2, <1>10 DEF ChainInv
    <2> QED
      BY <1>4, <1>5, <2>1, <2>2, <2>3 DEF ChainInv, St
  <1> QED
    BY <1>8, <1>9, <1>10, ChainMovesKeep

(* What await_resume returns once every driver has completed. *)
LEMMA TakeResults ==
    ASSUME IInv, Left = {}
    PROVE  Result(take_results) /\ take_results \in Finals
  <1>1. /\ state.results \in [Subs -> Outcomes] /\ state.first_exception \in Outcomes
        /\ SubInv /\ StateInv
    BY DEF IInv, TypeInv
  <1>2. \A i \in Subs : pc[Drv(i)] = 3
    BY DEF Left
  <1>3. CASE \E i \in Subs : Throwing(i)
    <2>1. state.first_exception # Unset
      BY <1>1, <1>2, <1>3 DEF StateInv
    <2>2. PICK i \in Subs : Throwing(i) /\ state.first_exception = Thrown(i)
      BY <1>1, <2>1 DEF StateInv
    <2>3. take_results = Thrown(i)
      BY <2>1, <2>2 DEF take_results
    <2> QED
      BY <2>2, <2>3, OutcomesDiffer DEF Result, Finals
  <1>4. CASE \A i \in Subs : ~Throwing(i)
    <2>1. state.first_exception = Unset
      BY <1>1, <1>4 DEF StateInv
    <2>2. \A i \in Subs : state.results[i] = Value(i)
      BY <1>1, <1>2, <1>4 DEF SubInv, Sub, DataInv
    <2>3. state.results = [i \in Subs |-> Value(i)]
      BY <1>1, <2>2
    <2>4. take_results = Tuple(state.results)
      BY <2>1 DEF take_results
    <2>5. take_results \in Finals
      BY <1>1, <2>4 DEF Finals
    <2> QED
      BY <1>4, <2>3, <2>4, <2>5 DEF Result
  <1> QED
    BY <1>3, <1>4

(* when_all returns the results or rethrows. *)
LEMMA AllEndsStep ==
    ASSUME IInv, NEW t \in Threads, AllEnds(t)
    PROVE  IInv'
  <1>1. /\ TypeInv /\ RunInv /\ ChainInv /\ frame \in [Coroutines -> Frames]
        /\ pc \in [Coroutines -> Nat] /\ got \in Seq(Finals)
    BY DEF IInv, TypeInv
  <1>2. /\ Running(t, All) /\ pc[All] = 1 /\ St(All) = "running" /\ pc[Outer] = 1
        /\ St(Outer) = "suspended" /\ frame[All].cont = <<Outer>> /\ Left = {}
    BY <1>1, ChainRunning DEF AllEnds, ChainInv
  <1>3. Outer \in Coroutines /\ All \in Coroutines /\ Outer # All
    BY Distinct
  <1>4. Result(take_results) /\ take_results \in Finals
    BY <1>2, TakeResults
  <1>5. /\ frame' \in [Coroutines -> Frames] /\ at' = [at EXCEPT ![t] = Run(Outer)]
        /\ \A c \in Coroutines : c # Outer /\ c # All => frame'[c] = frame[c]
        /\ frame'[All].st = "final" /\ frame'[All].out = take_results
        /\ frame'[All].cont = <<Outer>>
        /\ frame'[Outer].st = "running" /\ frame'[Outer].cont = frame[Outer].cont
    <2>1. final_suspend(t, All, take_results)
      BY DEF AllEnds
    <2> QED
      BY <1>1, <1>2, <1>3, <1>4, <2>1, FinalSuspend
  <1>6. UNCHANGED <<body, io, cpu, timers, pool_result, state, got, pc>>
    BY DEF AllEnds
  <1>7. Run(Outer) \in Places /\ Run(Outer).do = "run" /\ Run(Outer).co = Outer
    BY <1>3, NewTypes
  <1>8. ChainMoves(t, Run(Outer))
    BY <1>1, <1>3, <1>5, <1>6, <1>7 DEF ChainMoves
  <1>9. RunInv'
    <2>1. \A c \in Coroutines : St(c)' = "running" <=>
              c = Outer \/ (St(c) = "running" /\ ~Running(t, c))
      BY <1>2, <1>3, <1>5 DEF St, Running
    <2> QED
      BY <1>1, <1>2, <1>5, <1>7, <2>1, RunMove
  <1>10. ASSUME Left' = Left
         PROVE  ChainInv'
    <2>1. Outer \notin Items(io) /\ All \notin Items(io) /\ got = <<>> /\ frame[Outer].cont = <<>>
      BY <1>1, <1>2 DEF ChainInv
    <2>2. pc' = pc /\ got' = got /\ io' = io
      BY <1>6
    <2>3. Result(frame[All].out)'
      BY <1>4, <1>5, <1>6 DEF Result, Throwing
    <2> QED
      BY <1>2, <1>5, <1>10, <2>1, <2>2, <2>3 DEF ChainInv, St
  <1> QED
    BY <1>8, <1>9, <1>10, ChainMovesKeep

(* The handler takes what when_all returned. *)
LEMMA OuterResumesStep ==
    ASSUME IInv, NEW t \in Threads, OuterResumes(t)
    PROVE  IInv'
  <1>1. /\ TypeInv /\ RunInv /\ ChainInv /\ frame \in [Coroutines -> Frames]
        /\ pc \in [Coroutines -> Nat] /\ got \in Seq(Finals)
    BY DEF IInv, TypeInv
  <1>2. /\ Running(t, Outer) /\ pc[Outer] = 1 /\ St(Outer) = "running" /\ St(All) = "final"
        /\ pc[All] = 1 /\ Result(frame[All].out) /\ Left = {} /\ got = <<>>
        /\ frame[Outer].cont = <<>> /\ Outer \notin Items(io) /\ All \notin Items(io)
    BY <1>1, ChainRunning DEF OuterResumes, ChainInv
  <1>3. Outer \in Coroutines /\ All \in Coroutines /\ Outer # All
    BY Distinct
  <1>4. /\ frame' \in [Coroutines -> Frames] /\ frame'[All] = Destroyed
        /\ \A c \in Coroutines : c # Outer /\ c # All => frame'[c] = frame[c]
        /\ frame'[Outer].st = "final" /\ frame'[Outer].cont = frame[Outer].cont
    <2> DEFINE a == [frame[Outer] EXCEPT !.st = "final"]
    <2>1. a \in Frames /\ a.st = "final" /\ a.cont = frame[Outer].cont
      BY <1>1, <1>3 DEF Frames, Stages
    <2>2. frame' = [frame EXCEPT ![All] = Destroyed, ![Outer] = a]
      BY <1>1, <1>3 DEF OuterResumes
    <2> HIDE DEF a
    <2> QED
      BY <1>1, <1>3, <2>1, <2>2, NewTypes
  <1>5. /\ pc' \in [Coroutines -> Nat] /\ pc'[Outer] = 2
        /\ \A c \in Coroutines : c # Outer => pc'[c] = pc[c]
    BY <1>1, <1>3 DEF OuterResumes
  <1>6. UNCHANGED <<body, io, cpu, timers, pool_result, state>> /\ at' = [at EXCEPT ![t] = Idle]
    BY DEF OuterResumes
  <1>7. got' \in Seq(Finals) /\ Len(got') = 1 /\ got'[1] = frame[All].out
    <2>1. frame[All].out \in Finals
      BY <1>1, <1>3 DEF Frames
    <2>2. got' = Append(<<>>, frame[All].out)
      BY <1>2 DEF OuterResumes, await_resume
    <2> QED
      BY <2>1, <2>2
  <1>8. ChainMoves(t, Idle)
    BY <1>1, <1>3, <1>4, <1>5, <1>6, <1>7, NewTypes DEF ChainMoves
  <1>9. RunInv'
    <2>1. \A c \in Coroutines : St(c)' = "running" <=> (St(c) = "running" /\ ~Running(t, c))
      BY <1>2, <1>3, <1>4 DEF St, Running, Destroyed
    <2> QED
      BY <1>1, <1>6, <2>1, NewTypes, RunMove
  <1>10. ASSUME Left' = Left
         PROVE  ChainInv'
    <2>1. Result(got[1])'
      BY <1>2, <1>6, <1>7 DEF Result, Throwing
    <2>2. pc'[All] = 1 /\ io' = io /\ frame'[All].st = "destroyed"
      BY <1>2, <1>3, <1>4, <1>5, <1>6 DEF Destroyed
    <2> QED
      BY <1>2, <1>4, <1>5, <1>7, <1>10, <2>1, <2>2 DEF ChainInv, St
  <1> QED
    BY <1>8, <1>9, <1>10, ChainMovesKeep

(* The drivers left are a finite set. *)
LEMMA LeftFinite ==
    /\ IsFiniteSet(Subs) /\ Cardinality(Subs) = N
    /\ IsFiniteSet(Left) /\ Cardinality(Left) \in Nat
    /\ Cardinality(Left) = 0 <=> Left = {}
    /\ \A i \in Left : Cardinality(Left \ {i}) = Cardinality(Left) - 1 /\ IsFiniteSet(Left \ {i})
  <1>1. IsFiniteSet(Subs) /\ Cardinality(Subs) = N
    BY WhenAllAssumption, FS_Interval DEF Subs
  <1>2. IsFiniteSet(Left)
    BY <1>1, FS_Subset DEF Left
  <1>3. Cardinality(Left) \in Nat /\ (Cardinality(Left) = 0 <=> Left = {})
    BY <1>2, FS_CardinalityType, FS_EmptySet
  <1>4. \A i \in Left : Cardinality(Left \ {i}) = Cardinality(Left) - 1 /\ IsFiniteSet(Left \ {i})
    BY <1>2, FS_RemoveElement
  <1> QED
    BY <1>1, <1>2, <1>3, <1>4

(* await_suspend makes the shared state; no driver has been posted yet. *)
LEMMA AwaitSuspendBeginsStep ==
    ASSUME IInv, NEW t \in Threads, AwaitSuspendBegins(t)
    PROVE  IInv'
  <1> DEFINE v == [do |-> "post", co |-> All, k |-> 1]
  <1>1. /\ TypeInv /\ RunInv /\ ChainInv /\ PostInv /\ SubInv
        /\ frame \in [Coroutines -> Frames]
        /\ pc \in [Coroutines -> Nat] /\ at \in [Threads -> Places]
    BY DEF IInv, TypeInv
  <1>2. /\ Running(t, All) /\ pc[All] = 0 /\ St(All) = "running" /\ pc[Outer] = 1
        /\ St(Outer) = "suspended" /\ frame[All].cont = <<Outer>> /\ got = <<>>
        /\ frame[Outer].cont = <<>> /\ Outer \notin Items(io) /\ All \notin Items(io)
        /\ \A i \in Subs : Fresh(i)
    BY <1>1, ChainRunning DEF AwaitSuspendBegins, ChainInv
  <1>3. Outer \in Coroutines /\ All \in Coroutines /\ Outer # All /\ 1 \in Subs /\ N \in Nat
    BY Distinct, WhenAllAssumption DEF Subs
  <1>4. /\ frame' \in [Coroutines -> Frames]
        /\ \A c \in Coroutines : c # All => frame'[c] = frame[c]
        /\ frame'[All].st = "suspended" /\ frame'[All].cont = frame[All].cont
    <2> DEFINE a == [frame[All] EXCEPT !.st = "suspended"]
    <2>1. a \in Frames /\ a.st = "suspended" /\ a.cont = frame[All].cont
      BY <1>1, <1>3 DEF Frames, Stages
    <2>2. frame' = [frame EXCEPT ![All] = a]
      BY <1>1, <1>3 DEF AwaitSuspendBegins
    <2> HIDE DEF a
    <2> QED
      BY <1>1, <1>3, <2>1, <2>2
  <1>5. /\ pc' \in [Coroutines -> Nat] /\ pc'[All] = 1
        /\ \A c \in Coroutines : c # All => pc'[c] = pc[c]
    BY <1>1, <1>3 DEF AwaitSuspendBegins
  <1>6. UNCHANGED <<body, io, cpu, timers, pool_result, got>> /\ at' = [at EXCEPT ![t] = v]
    BY DEF AwaitSuspendBegins
  <1>7. v \in Places /\ v.do = "post" /\ v.k = 1
    BY <1>3, WhenAllAssumption DEF Places
  <1> HIDE DEF v
  <1>8. /\ state' \in [remaining : Nat, results : [Subs -> Outcomes], first_exception : Outcomes]
        /\ state'.remaining = N /\ state'.first_exception = Unset
    BY <1>3, OutcomesDiffer DEF AwaitSuspendBegins, WhenAllState
  <1>9. TypeInv' /\ QueueInv'
    <2>1. at' \in [Threads -> Places]
      BY <1>1, <1>6, <1>7
    <2> QED
      BY <1>1, <1>4, <1>5, <1>6, <1>8, <2>1 DEF TypeInv, IInv, QueueInv
  <1>10. RunInv'
    <2>1. \A c \in Coroutines : St(c)' = "running" <=> (St(c) = "running" /\ ~Running(t, c))
      BY <1>2, <1>3, <1>4 DEF St, Running
    <2> QED
      BY <1>1, <1>6, <1>7, <2>1, RunMove
  <1>11. /\ \A i \in Subs : /\ pc'[Drv(i)] = 0
                            /\ pc[Drv(i)] = 0
                            /\ Fresh(i)'
         /\ SubInv'
    <2>1. ASSUME NEW i \in Subs
          PROVE  /\ pc'[Drv(i)] = 0
                 /\ pc[Drv(i)] = 0
                 /\ SameSub(i)
      <3>1. pc[Drv(i)] = 0 /\ Own(i) \subseteq Coroutines /\ All \notin Own(i) /\ Drv(i) \in Own(i)
        BY <1>2, Distinct DEF Fresh, Own
      <3>2. \A c \in Own(i) : frame'[c] = frame[c] /\ pc'[c] = pc[c] /\ SameQueues(c)
        BY <1>4, <1>5, <1>6, <3>1 DEF SameQueues
      <3>3. InPool(i)' <=> InPool(i)
        BY <1>6 DEF InPool
      <3>4. ~(pc[Drv(i)] >= 2)
        BY <3>1
      <3> QED
        BY <1>6, <3>1, <3>2, <3>3, <3>4 DEF SameSub
    <2> QED
      BY <1>1, <1>2, <2>1, SubKeeps DEF SubInv
  <1>12. ChainInv'
    BY <1>2, <1>3, <1>4, <1>5, <1>6 DEF ChainInv, St
  <1>13. PostInv'
    <2>1. \A u \in Threads : at[u].do # "post"
      BY <1>1, <1>2 DEF PostInv
    <2>2. \A u \in Threads : u # t => at'[u].do # "post"
      BY <1>1, <1>6, <2>1
    <2>3. at'[t].k = 1
      BY <1>1, <1>6, <1>7
    <2> QED
      BY <1>3, <1>5, <1>11, <2>2, <2>3 DEF PostInv
  <1>14. StateInv'
    <2>1. Left' = Subs
      BY <1>11 DEF Left
    <2> QED
      BY <1>5, <1>8, <1>11, <2>1, LeftFinite DEF StateInv
  <1> QED
    BY <1>9, <1>10, <1>11, <1>12, <1>13, <1>14 DEF IInv

(* await_suspend posts the next driver, or the last one. *)
LEMMA AwaitSuspendPostsStep ==
    ASSUME IInv, NEW t \in Threads, AwaitSuspendPosts(t)
    PROVE  IInv'
  <1>1. /\ TypeInv /\ RunInv /\ ChainInv /\ PostInv /\ SubInv /\ StateInv
        /\ frame \in [Coroutines -> Frames]
        /\ pc \in [Coroutines -> Nat] /\ at \in [Threads -> Places]
    BY DEF IInv, TypeInv
  <1>2. PICK i \in Subs : /\ at[t].k = i /\ at[t].do = "post" /\ pc[All] = 1
                         /\ \A j \in Subs : j >= i => Fresh(j)
    BY <1>1 DEF AwaitSuspendPosts, PostInv
  <1>3. UNCHANGED <<body, cpu, timers, pc, pool_result, state, got>> /\ io' = Append(io, Drv(i))
    BY <1>2 DEF AwaitSuspendPosts, PostIo
  <1>4. PICK v :
            /\ at' = [at EXCEPT ![t] = v]
            /\ v = IF i < N THEN [at[t] EXCEPT !.k = i + 1] ELSE Idle
            /\ frame' = [frame EXCEPT ![Drv(i)] = NewFrame, ![TaskOf(i)] = NewFrame]
    BY <1>1, <1>2 DEF AwaitSuspendPosts
  <1>5. /\ v \in Places /\ v.do # "run"
        /\ v.do = "post" => i < N /\ v.k = i + 1
    <2>1. at[t] \in Places /\ i \in 1..N /\ N \in Nat
      BY <1>1, <1>2, WhenAllAssumption DEF Subs
    <2>2. CASE i < N
      <3>1. v = [at[t] EXCEPT !.k = i + 1] /\ i + 1 \in 0..N
        BY <1>4, <2>1, <2>2
      <3> QED
        BY <1>2, <2>1, <2>2, <3>1 DEF Places
    <2>3. CASE ~(i < N)
      BY <1>4, <2>3, NewTypes
    <2> QED
      BY <2>2, <2>3
  <1>6. /\ Call(i) \in Coroutines /\ TaskOf(i) \in Coroutines /\ Drv(i) \in Coroutines
        /\ TaskOf(i) # Call(i) /\ Drv(i) # TaskOf(i) /\ Drv(i) # Call(i)
    BY <1>2, Distinct
  <1>7. Fresh(i) /\ Sub(i)
    BY <1>1, <1>2 DEF SubInv, Subs
  <1>8. /\ frame' \in [Coroutines -> Frames] /\ frame'[Drv(i)] = NewFrame
        /\ frame'[TaskOf(i)] = NewFrame
        /\ \A c \in Coroutines : c # Drv(i) /\ c # TaskOf(i) => frame'[c] = frame[c]
    BY <1>1, <1>4, <1>6, NewTypes
  <1>9. /\ Drv(i) \notin Items(io) /\ TaskOf(i) \notin Items(io) /\ Call(i) \notin Items(io)
        /\ ~InPool(i) /\ i \notin timers
    BY <1>7 DEF Sub, TokenInv, Fresh
  <1>10. /\ QueueTypes /\ QueueInv'
         /\ \A d \in Coroutines : d \in Items(io') <=> d \in Items(io) \/ d = Drv(i)
         /\ \A j \in Subs : InPool(j)' <=> InPool(j)
    BY <1>3, <1>6, <1>9, PostCo
  <1>11. TypeInv'
    <2>1. at' \in [Threads -> Places]
      BY <1>1, <1>4, <1>5
    <2> QED
      BY <1>1, <1>3, <1>8, <1>10, <2>1 DEF TypeInv, QueueTypes
  <1>12. RunInv'
    <2>1. \A c \in Coroutines : ~Running(t, c)
      BY <1>2 DEF Running
    <2>2. \A c \in Coroutines : St(c)' = "running" <=> (St(c) = "running" /\ ~Running(t, c))
      BY <1>7, <1>8, <2>1 DEF St, NewFrame, Fresh
    <2> QED
      BY <1>1, <1>4, <1>5, <2>2, RunMove
  <1>13. Around(i)
    <2>1. \A c \in Coroutines \ Own(i) : frame'[c] = frame[c] /\ pc'[c] = pc[c] /\ SameQueues(c)
      BY <1>3, <1>8, <1>10 DEF SameQueues, Own
    <2> QED
      BY <1>3, <1>10, <2>1 DEF Around
  <1>14. Sub(i)'
    <2>1. /\ frame'[Call(i)] = frame[Call(i)] /\ frame'[Drv(i)].st = "suspended"
          /\ frame'[TaskOf(i)].st = "suspended" /\ frame'[TaskOf(i)].cont = <<>>
          /\ frame'[Drv(i)].cont = <<>>
      BY <1>6, <1>8 DEF NewFrame
    <2>2. Posted(i)'
      BY <1>3, <1>7, <2>1 DEF Posted, Fresh, St
    <2>3. ~InBody(i)' /\ ~InCall(i)' /\ ~Returned(i)' /\ ~Ended(i)'
      BY <2>2 DEF Posted, InBody, InCall, Returned, Ended
    <2>4. ContInv(i)'
      BY <2>1, <2>3 DEF ContInv, St
    <2>5. (TaskOf(i) \notin Items(io) /\ Call(i) \notin Items(io) /\ ~InPool(i) /\ i \notin timers)'
      BY <1>2, <1>3, <1>6, <1>9, <1>10
    <2>6. TokenInv(i)'
      BY <1>3, <1>7, <2>1, <2>5 DEF TokenInv, Fresh, St
    <2>7. pc'[TaskOf(i)] = 0 /\ pc'[Drv(i)] = 0 /\ pc[TaskOf(i)] \in 0..Len(body[i].awaits)
      BY <1>3, <1>7 DEF Fresh, Sub, DataInv
    <2>8. DataInv(i)'
      BY <1>3, <2>3, <2>5, <2>7 DEF DataInv, Passed
    <2> QED
      BY <2>2, <2>4, <2>6, <2>8 DEF Sub, PlaceInv
  <1>15. SubInv' /\ \A j \in Subs : j # i => (Fresh(j) => Fresh(j)')
    BY <1>1, <1>2, <1>13, <1>14, OthersKeep
  <1>16. pc' = pc /\ Left' = Left
    BY <1>3 DEF Left
  <1>17. ChainInv'
    <2>1. SameChain
      <3>1. \A c \in {Outer, All} : c \in Coroutines \ Own(i)
        BY <1>2, Distinct DEF Own
      <3> QED
        BY <1>2, <1>13, <1>16, <3>1 DEF SameChain, Around
    <2> QED
      BY <1>1, <2>1, ChainKeeps
  <1>18. PostInv'
    <2>1. \A u \in Threads : u # t => at'[u].do # "post"
      BY <1>1, <1>2, <1>4 DEF PostInv
    <2>2. at'[t] = v /\ i \in 1..N /\ N \in Nat
      BY <1>1, <1>2, <1>4, WhenAllAssumption DEF Subs
    <2>3. ASSUME v.do = "post"
          PROVE  v.k \in Subs /\ \A j \in Subs : j >= v.k => Fresh(j)'
      <3>1. v.k = i + 1 /\ i + 1 \in Subs
        BY <1>5, <2>2, <2>3 DEF Subs
      <3>2. \A j \in Subs : j >= v.k => j >= i /\ j # i
        BY <2>2, <3>1 DEF Subs
      <3> QED
        BY <1>2, <1>15, <3>1, <3>2
    <2> QED
      BY <1>2, <1>16, <2>1, <2>2, <2>3 DEF PostInv
  <1>19. StateInv'
    BY <1>1, <1>3, <1>16, StateKeeps
  <1> QED
    BY <1>10, <1>11, <1>12, <1>15, <1>17, <1>18, <1>19 DEF IInv
-----------------------------------------------------------------------------
(* The steps of a driver on the shared state *)

(* A driver stores the outcome of its task. *)
LEMMA SubtaskStoresStep ==
    ASSUME IInv, NEW t \in Threads, NEW i \in Subs, SubtaskStores(t, i)
    PROVE  IInv'
  <1>1. Ended(i) /\ St(Drv(i)) = "running" /\ pc[Drv(i)] = 1 /\ ~Fresh(i) /\ pc[All] = 1
    <2>1. Ended(i) /\ St(Drv(i)) = "running" /\ pc[Drv(i)] = 1
      BY WhereRunning DEF SubtaskStores, Posted
    <2>2. ~Fresh(i)
      BY <2>1 DEF Fresh
    <2> QED
      BY <2>1, <2>2, ChainRunning
  <1>2. /\ TypeInv /\ RunInv /\ Sub(i) /\ StateInv /\ SubInv /\ ChainInv /\ PostInv
        /\ pc \in [Coroutines -> Nat]
        /\ state \in [remaining : Nat, results : [Subs -> Outcomes], first_exception : Outcomes]
    BY DEF IInv, TypeInv, SubInv
  <1>3. /\ Call(i) \in Coroutines /\ TaskOf(i) \in Coroutines /\ Drv(i) \in Coroutines
        /\ TaskOf(i) # Call(i) /\ Drv(i) # TaskOf(i) /\ Drv(i) # Call(i)
    BY Distinct
  <1>4. UNCHANGED <<body, io, cpu, timers, at, frame, pool_result, got>>
    BY DEF SubtaskStores
  <1>5. /\ pc' \in [Coroutines -> Nat] /\ pc'[Drv(i)] = 2
        /\ \A c \in Coroutines : c # Drv(i) => pc'[c] = pc[c]
    BY <1>2, <1>3 DEF SubtaskStores
  <1>6. state' = IF Throwing(i) THEN capture_exception(Thrown(i)) ELSE store_result(i, Value(i))
    <2>1. await_resume(TaskOf(i)) = Outcome(i)
      BY <1>1, <1>2 DEF Sub, DataInv, await_resume
    <2>2. Threw(Outcome(i)) <=> Throwing(i)
      BY OutcomesDiffer DEF Outcome
    <2> QED
      BY <2>1, <2>2 DEF SubtaskStores, Outcome
  <1>7. /\ state' \in [remaining : Nat, results : [Subs -> Outcomes], first_exception : Outcomes]
        /\ state'.remaining = state.remaining
        /\ state'.first_exception =
               IF Throwing(i) /\ state.first_exception = Unset THEN Thrown(i) ELSE state.first_exception
        /\ ~Throwing(i) => state'.results[i] = Value(i)
        /\ \A j \in Subs \ {i} : state'.results[j] = state.results[j]
    <2>1. CASE Throwing(i)
      BY <1>2, <1>6, <2>1, OutcomesDiffer DEF capture_exception
    <2>2. CASE ~Throwing(i)
      BY <1>2, <1>6, <2>2, OutcomesDiffer DEF store_result
    <2> QED
      BY <2>1, <2>2
  <1>8. TypeInv' /\ QueueInv' /\ RunInv'
    <2>1. TypeInv'
      BY <1>2, <1>4, <1>5, <1>7 DEF TypeInv
    <2>2. QueueInv'
      BY <1>4 DEF IInv, QueueInv
    <2> QED
      BY <1>2, <1>4, <2>1, <2>2, RunKeeps DEF St
  <1>9. Around(i)
    <2>1. \A c \in Coroutines \ Own(i) : frame'[c] = frame[c] /\ pc'[c] = pc[c] /\ SameQueues(c)
      BY <1>4, <1>5 DEF SameQueues, Own
    <2> QED
      BY <1>4, <1>7, <2>1 DEF Around, InPool
  <1>10. Sub(i)'
    <2>1. Ended(i)'
      BY <1>1, <1>4, <1>5 DEF Ended, Away, St
    <2>2. ~Posted(i)' /\ ~InBody(i)' /\ ~InCall(i)' /\ ~Returned(i)'
      BY <2>1 DEF Posted, InBody, InCall, Returned, Ended
    <2>3. ContInv(i)'
      BY <1>2, <1>4, <2>2 DEF Sub, ContInv, St
    <2>4. /\ Drv(i) \notin Items(io) /\ TaskOf(i) \notin Items(io) /\ Call(i) \notin Items(io)
          /\ ~InPool(i) /\ i \notin timers
      BY <1>1, <1>2 DEF Sub, TokenInv, Ended, Away
    <2>5. TokenInv(i)'
      BY <1>4, <2>4 DEF TokenInv, InPool
    <2>6. /\ pc'[TaskOf(i)] = pc[TaskOf(i)] /\ pc[TaskOf(i)] \in 0..Len(body[i].awaits)
          /\ frame[TaskOf(i)].out = Outcome(i)
      BY <1>1, <1>2, <1>3, <1>5 DEF Sub, DataInv
    <2>7. Outcome(i)' = Outcome(i) /\ (Throwing(i)' <=> Throwing(i))
      BY <1>4 DEF Outcome, Throwing
    <2>8. DataInv(i)'
      BY <1>4, <1>7, <2>2, <2>4, <2>6, <2>7 DEF DataInv
    <2> QED
      BY <2>1, <2>3, <2>5, <2>8 DEF Sub, PlaceInv
  <1>11. SubInv' /\ \A j \in Subs : Fresh(j) => Fresh(j)'
    BY <1>1, <1>2, <1>9, <1>10, OthersKeep
  <1>12. /\ pc'[All] = pc[All]
         /\ \A j \in Subs : j # i => pc'[Drv(j)] = pc[Drv(j)]
    BY <1>5, Distinct
  <1>13. Left' = Left
    BY <1>1, <1>5, <1>12 DEF Left
  <1>14. ChainInv'
    <2>1. SameChain
      <3>1. \A c \in {Outer, All} : c \in Coroutines \ Own(i)
        BY Distinct DEF Own
      <3> QED
        BY <1>1, <1>9, <1>13, <3>1 DEF SameChain, Around
    <2> QED
      BY <1>2, <2>1, ChainKeeps
  <1>15. PostInv'
    BY <1>2, <1>4, <1>11, <1>12, PostKeeps
  <1>16. StateInv'
    <2>1. \A j \in Subs : Throwing(j)' <=> Throwing(j)
      BY <1>4 DEF Throwing
    <2>2. Thrown(i) # Unset
      BY OutcomesDiffer
    <2> QED
      BY <1>1, <1>2, <1>7, <1>12, <1>13, <2>1, <2>2 DEF StateInv
  <1> QED
    BY <1>8, <1>11, <1>14, <1>15, <1>16 DEF IInv

(* A driver counts itself off; the last one posts when_all. *)
LEMMA SubtaskCompletesStep ==
    ASSUME IInv, NEW t \in Threads, NEW i \in Subs, SubtaskCompletes(t, i)
    PROVE  IInv'
  <1>1. /\ Ended(i) /\ St(Drv(i)) = "running" /\ pc[Drv(i)] = 2 /\ ~Fresh(i) /\ pc[All] = 1
        /\ Running(t, Drv(i))
    <2>1. Ended(i) /\ St(Drv(i)) = "running" /\ pc[Drv(i)] = 2 /\ Running(t, Drv(i))
      BY WhereRunning DEF SubtaskCompletes, Posted
    <2>2. ~Fresh(i)
      BY <2>1 DEF Fresh
    <2> QED
      BY <2>1, <2>2, ChainRunning
  <1>2. /\ TypeInv /\ RunInv /\ Sub(i) /\ StateInv /\ SubInv /\ ChainInv /\ PostInv /\ QueueInv
        /\ pc \in [Coroutines -> Nat] /\ frame \in [Coroutines -> Frames]
        /\ io \in Seq(Coroutines \cup Fns) /\ cpu \in Seq(Fns) /\ at \in [Threads -> Places]
        /\ state \in [remaining : Nat, results : [Subs -> Outcomes], first_exception : Outcomes]
    BY DEF IInv, TypeInv, SubInv
  <1>3. /\ Call(i) \in Coroutines /\ TaskOf(i) \in Coroutines /\ Drv(i) \in Coroutines
        /\ TaskOf(i) # Call(i) /\ Drv(i) # TaskOf(i) /\ Drv(i) # Call(i)
        /\ Outer \in Coroutines /\ All \in Coroutines /\ Outer # All
        /\ All \notin Own(i) /\ Outer \notin Own(i)
    BY Distinct DEF Own
  <1>4. UNCHANGED <<body, cpu, timers, pool_result, got>> /\ at' = [at EXCEPT ![t] = Idle]
    BY DEF SubtaskCompletes
  <1>5. /\ pc' \in [Coroutines -> Nat] /\ pc'[Drv(i)] = 3
        /\ \A c \in Coroutines : c # Drv(i) => pc'[c] = pc[c]
    BY <1>2, <1>3 DEF SubtaskCompletes
  <1>6. /\ frame' \in [Coroutines -> Frames] /\ frame'[Drv(i)] = Destroyed
        /\ frame'[TaskOf(i)] = Destroyed
        /\ \A c \in Coroutines : c # Drv(i) /\ c # TaskOf(i) => frame'[c] = frame[c]
    BY <1>2, <1>3, NewTypes DEF SubtaskCompletes
  <1>7. /\ i \in Left /\ Left' = Left \ {i}
        /\ \A j \in Subs : j # i => pc'[Drv(j)] = pc[Drv(j)]
    <2>1. \A j \in Subs : j # i => pc'[Drv(j)] = pc[Drv(j)]
      BY <1>5, Distinct
    <2> QED
      BY <1>1, <1>5, <2>1 DEF Left
  <1>8. /\ state.remaining = Cardinality(Left) /\ Cardinality(Left) \in Nat
        /\ Cardinality(Left') = Cardinality(Left) - 1
        /\ Cardinality(Left) # 0
        /\ state.remaining = 1 => Left' = {}
    <2>1. state.remaining = Cardinality(Left) /\ Cardinality(Left) \in Nat /\ Cardinality(Left) # 0
      BY <1>1, <1>2, <1>7, LeftFinite DEF StateInv
    <2>2. Cardinality(Left') = Cardinality(Left) - 1 /\ IsFiniteSet(Left')
      BY <1>7, LeftFinite
    <2> QED
      BY <2>1, <2>2, FS_EmptySet
  <1>9. /\ state' \in [remaining : Nat, results : [Subs -> Outcomes], first_exception : Outcomes]
        /\ state'.remaining = Cardinality(Left') /\ state'.results = state.results
        /\ state'.first_exception = state.first_exception
    <2>1. state' = [state EXCEPT !.remaining = Cardinality(Left')]
      BY <1>8 DEF SubtaskCompletes
    <2>2. Cardinality(Left') \in Nat
      BY <1>8
    <2> QED
      BY <1>2, <2>1, <2>2
  <1>10. /\ St(All) = "suspended" /\ pc[Outer] = 1 /\ All \notin Items(io)
    BY <1>1, <1>2, <1>7 DEF ChainInv
  <1>11. /\ QueueTypes /\ QueueInv'
         /\ \A d \in Coroutines : d # All => (d \in Items(io') <=> d \in Items(io))
         /\ \A j \in Subs : InPool(j)' <=> InPool(j)
         /\ All \in Items(io') => Left' = {}
    <2>1. CASE state.remaining = 1
      <3>1. io' = Append(io, All) /\ cpu' = cpu
        BY <1>4, <2>1 DEF SubtaskCompletes, mark_one_complete, PostIo
      <3>2. /\ QueueTypes /\ QueueInv'
            /\ \A d \in Coroutines : d \in Items(io') <=> d \in Items(io) \/ d = All
            /\ \A j \in Subs : InPool(j)' <=> InPool(j)
        BY <1>3, <1>10, <3>1, PostCo
      <3> QED
        BY <1>8, <2>1, <3>2
    <2>2. CASE state.remaining # 1
      <3>1. io' = io /\ cpu' = cpu
        BY <1>4, <2>2 DEF SubtaskCompletes, mark_one_complete
      <3> QED
        BY <1>2, <1>10, <3>1 DEF QueueTypes, QueueInv, InPool
    <2> QED
      BY <2>1, <2>2
  <1>12. TypeInv'
    <2>1. at' \in [Threads -> Places]
      BY <1>2, <1>4, NewTypes
    <2> QED
      BY <1>2, <1>4, <1>5, <1>6, <1>9, <1>11, <2>1 DEF TypeInv, QueueTypes
  <1>13. RunInv'
    <2>1. \A c \in Coroutines : St(c)' = "running" <=> (St(c) = "running" /\ ~Running(t, c))
      BY <1>1, <1>6 DEF St, Running, Destroyed, Ended
    <2> QED
      BY <1>2, <1>4, <2>1, NewTypes, RunMove
  <1>14. Sub(i)'
    <2>1. /\ frame'[Call(i)] = frame[Call(i)] /\ frame'[Drv(i)].st = "destroyed"
          /\ frame'[TaskOf(i)].st = "destroyed" /\ frame'[Drv(i)].cont = <<>>
          /\ pc'[TaskOf(i)] = pc[TaskOf(i)]
      BY <1>3, <1>5, <1>6 DEF Destroyed
    <2>2. Done(i)'
      BY <1>1, <1>5, <2>1 DEF Done, Ended, Away, St
    <2>3. ~Posted(i)' /\ ~InBody(i)' /\ ~InCall(i)' /\ ~Returned(i)' /\ ~Ended(i)'
      BY <2>2 DEF Posted, InBody, InCall, Returned, Ended, Done
    <2>4. ContInv(i)'
      BY <2>1, <2>3 DEF ContInv, St
    <2>5. /\ Drv(i) \notin Items(io') /\ TaskOf(i) \notin Items(io') /\ Call(i) \notin Items(io')
          /\ ~InPool(i)' /\ i \notin timers'
      <3>1. /\ Drv(i) \notin Items(io) /\ TaskOf(i) \notin Items(io) /\ Call(i) \notin Items(io)
            /\ ~InPool(i) /\ i \notin timers
        BY <1>1, <1>2 DEF Sub, TokenInv, Ended, Away
      <3> QED
        BY <1>3, <1>4, <1>11, <3>1 DEF Own
    <2>6. TokenInv(i)'
      BY <2>5 DEF TokenInv
    <2>7. /\ pc[TaskOf(i)] \in 0..Len(body[i].awaits)
          /\ ~Throwing(i) => state.results[i] = Value(i)
      BY <1>1, <1>2 DEF Sub, DataInv
    <2>8. (Throwing(i)' <=> Throwing(i)) /\ body' = body
      BY <1>4 DEF Throwing
    <2>9. DataInv(i)'
      BY <1>9, <2>1, <2>3, <2>5, <2>7, <2>8 DEF DataInv
    <2> QED
      BY <2>2, <2>4, <2>6, <2>9 DEF Sub, PlaceInv
  <1>15. ASSUME NEW j \in Subs, j # i
         PROVE  Sub(j)' /\ (Fresh(j) => Fresh(j)')
    <2>1. /\ Own(j) \subseteq Coroutines /\ All \notin Own(j)
          /\ Drv(i) \notin Own(j) /\ TaskOf(i) \notin Own(j)
      BY <1>15, Distinct DEF Own
    <2>2. \A c \in Own(j) : frame'[c] = frame[c] /\ pc'[c] = pc[c] /\ SameQueues(c)
      <3> SUFFICES ASSUME NEW c \in Own(j) PROVE frame'[c] = frame[c] /\ pc'[c] = pc[c] /\ SameQueues(c)
        OBVIOUS
      <3>1. c \in Coroutines /\ c # All /\ c # Drv(i) /\ c # TaskOf(i)
        BY <2>1
      <3> QED
        BY <1>5, <1>6, <1>11, <3>1 DEF SameQueues
    <2>3. SameSub(j)
      BY <1>4, <1>9, <1>11, <2>2 DEF SameSub
    <2> QED
      BY <1>2, <2>3, SubKeeps DEF SubInv
  <1>16. SubInv' /\ \A j \in Subs : Fresh(j) => Fresh(j)'
    BY <1>1, <1>14, <1>15 DEF SubInv
  <1>17. ChainInv'
    <2>1. /\ frame'[Outer] = frame[Outer] /\ frame'[All] = frame[All]
          /\ pc'[Outer] = pc[Outer] /\ pc'[All] = pc[All]
      BY <1>3, <1>5, <1>6 DEF Own
    <2>2. Outer \in Items(io') <=> Outer \in Items(io)
      BY <1>3, <1>11
    <2> QED
      BY <1>1, <1>2, <1>4, <1>10, <1>11, <2>1, <2>2 DEF ChainInv, St
  <1>18. PostInv'
    <2>1. pc'[All] = pc[All]
      BY <1>3, <1>5 DEF Own
    <2>2. \A u \in Threads : at'[u].do = "post" => at[u] = at'[u]
      BY <1>2, <1>4, NewTypes
    <2> QED
      BY <1>2, <1>16, <2>1, <2>2, PostKeeps
  <1>19. StateInv'
    <2>1. pc'[All] = 1
      BY <1>1, <1>3, <1>5 DEF Own
    <2>2. \A j \in Subs : Throwing(j)' <=> Throwing(j)
      BY <1>4 DEF Throwing
    <2>3. \A j \in Subs : pc'[Drv(j)] >= 2 => pc[Drv(j)] >= 2
      BY <1>1, <1>7
    <2> QED
      BY <1>2, <1>9, <2>1, <2>2, <2>3 DEF StateInv
  <1> QED
    BY <1>11, <1>12, <1>13, <1>16, <1>17, <1>18, <1>19 DEF IInv
-----------------------------------------------------------------------------
(* The inductive invariant *)

(* Nothing has been posted but the handler. *)
LEMMA InitInv == Init => IInv
  <1> SUFFICES ASSUME Init PROVE IInv
    OBVIOUS
  <1>1. /\ Outer \in Coroutines /\ All \in Coroutines /\ Outer # All
        /\ \A i \in Subs : /\ Drv(i) \in Coroutines /\ TaskOf(i) \in Coroutines /\ Call(i) \in Coroutines
                           /\ Drv(i) # Outer /\ TaskOf(i) # Outer /\ Call(i) # Outer
                           /\ Drv(i) # All /\ TaskOf(i) # All /\ Call(i) # All
        /\ \A i \in Subs : Fn(i) # Outer
    BY Distinct, DistinctFn
  <1>2. /\ io = <<Outer>> /\ Items(io) = {Outer} /\ NoDup(io) /\ io \in Seq(Coroutines \cup Fns)
        /\ cpu = <<>> /\ Items(cpu) = {} /\ NoDup(cpu) /\ cpu \in Seq(Fns) /\ timers = {}
    BY <1>1, EmptyItems DEF Init, Items, NoDup
  <1>3. /\ frame = [c \in Coroutines |-> IF c = Outer THEN NewFrame ELSE NoFrame]
        /\ pc = [c \in Coroutines |-> 0] /\ at = [t \in Threads |-> Idle]
        /\ frame[Outer] = NewFrame /\ frame[All] = NoFrame /\ pc[Outer] = 0 /\ pc[All] = 0
        /\ got = <<>>
    BY <1>1 DEF Init
  <1>4. \A i \in Subs : /\ frame[Drv(i)] = NoFrame /\ frame[TaskOf(i)] = NoFrame
                        /\ frame[Call(i)] = NoFrame
                        /\ pc[Drv(i)] = 0 /\ pc[TaskOf(i)] = 0
                        /\ ~InPool(i) /\ i \notin timers
                        /\ Drv(i) \notin Items(io) /\ TaskOf(i) \notin Items(io)
                        /\ Call(i) \notin Items(io)
    BY <1>1, <1>2, <1>3 DEF InPool
  <1>5. /\ state \in [remaining : Nat, results : [Subs -> Outcomes], first_exception : Outcomes]
        /\ state.first_exception = Unset
    <2>1. Unset \in Outcomes
      BY DEF Outcomes
    <2> QED
      BY <2>1 DEF Init, WhenAllState
  <1>6. TypeInv
    <2>1. frame \in [Coroutines -> Frames] /\ at \in [Threads -> Places] /\ pc \in [Coroutines -> Nat]
      BY <1>3, NewTypes
    <2>2. pool_result \in [Subs -> Outcomes] /\ body \in [Subs -> Bodies]
      BY DEF Init, Outcomes
    <2> QED
      BY <1>2, <1>3, <1>5, <2>1, <2>2 DEF TypeInv
  <1>7. QueueInv
    BY <1>1, <1>2 DEF QueueInv
  <1>8. RunInv
    <2>1. \A c \in Coroutines : St(c) # "running"
      BY <1>3 DEF St, NewFrame, NoFrame
    <2>2. \A t \in Threads : at[t].do = "idle"
      BY <1>3 DEF Idle
    <2> QED
      BY <2>1, <2>2 DEF RunInv
  <1>9. \A i \in Subs : Fresh(i) /\ Sub(i)
    <2> SUFFICES ASSUME NEW i \in Subs PROVE Fresh(i) /\ Sub(i)
      OBVIOUS
    <2>1. Fresh(i) /\ frame[Drv(i)].cont = <<>>
      BY <1>4 DEF Fresh, St, NoFrame
    <2>2. ~Posted(i) /\ ~InBody(i) /\ ~InCall(i) /\ ~Returned(i) /\ ~Ended(i)
      BY <2>1 DEF Fresh, Posted, InBody, InCall, Returned, Ended
    <2>3. PlaceInv(i) /\ ContInv(i) /\ TokenInv(i)
      BY <1>4, <2>1, <2>2 DEF PlaceInv, ContInv, TokenInv, Fresh
    <2>4. Len(body[i].awaits) \in Nat /\ pc[TaskOf(i)] = 0 /\ pc[Drv(i)] = 0
      BY <1>4, <1>6, BodyTypes
    <2>5. DataInv(i)
      BY <1>4, <2>2, <2>4 DEF DataInv
    <2> QED
      BY <2>1, <2>3, <2>5 DEF Sub
  <1>10. ChainInv
    BY <1>1, <1>2, <1>3, <1>9 DEF ChainInv, St, NewFrame, NoFrame
  <1>11. PostInv
    <2>1. \A t \in Threads : at[t].do = "idle"
      BY <1>3 DEF Idle
    <2> QED
      BY <2>1 DEF PostInv
  <1>12. StateInv
    <2>1. pc[All] # 1 /\ \A i \in Subs : ~(pc[Drv(i)] >= 2)
      <3>1. pc[All] = 0 /\ \A i \in Subs : pc[Drv(i)] = 0
        BY <1>3, <1>4, Zenon
      <3> QED
        BY <3>1, SMT
    <2> QED
      BY <1>5, <2>1, Zenon DEF StateInv
  <1> QED
    BY <1>6, <1>7, <1>8, <1>9, <1>10, <1>11, <1>12 DEF IInv, SubInv

(* Every step keeps the invariant. *)
LEMMA StepInv == IInv /\ [Next]_vars => IInv'
  <1> SUFFICES ASSUME IInv, [Next]_vars PROVE IInv'
    OBVIOUS
  <1>1. CASE UNCHANGED vars
    <2>1. /\ TypeInv' /\ QueueInv' /\ Left' = Left
      BY <1>1 DEF IInv, TypeInv, QueueInv, vars, Left
    <2>2. RunInv'
      BY <1>1, RunKeeps DEF IInv, vars, St
    <2>3. \A i \in Subs : SameSub(i)
      BY <1>1 DEF SameSub, vars, SameQueues, InPool
    <2>4. SubInv' /\ \A i \in Subs : Fresh(i) => Fresh(i)'
      BY <2>3, SubKeeps DEF IInv, SubInv
    <2>5. ChainInv'
      <3>1. SameChain
        BY <1>1, <2>1, <2>4 DEF SameChain, vars, SameQueues, IInv, ChainInv
      <3> QED
        BY <3>1, ChainKeeps DEF IInv
    <2>6. PostInv'
      BY <1>1, <2>4, PostKeeps DEF IInv, vars
    <2>7. StateInv'
      BY <1>1, <2>1, StateKeeps DEF IInv, vars
    <2> QED
      BY <2>1, <2>2, <2>4, <2>5, <2>6, <2>7 DEF IInv
  <1>2. ASSUME NEW t \in Threads, Step(t)
        PROVE  IInv'
    <2>1. CASE \/ TakeIo(t) \/ TakeFunction(t) \/ OuterAwaits(t) \/ OuterResumes(t)
               \/ AwaitSuspendBegins(t) \/ AwaitSuspendPosts(t) \/ AllEnds(t)
      BY <2>1, TakeIoStep, TakeFunctionStep, OuterAwaitsStep, OuterResumesStep,
         AwaitSuspendBeginsStep, AwaitSuspendPostsStep, AllEndsStep
    <2>2. ASSUME NEW i \in Subs,
                 \/ SubtaskAwaits(t, i) \/ SubtaskStores(t, i) \/ SubtaskCompletes(t, i)
                 \/ BodyAwaits(t, i) \/ BodyResumes(t, i) \/ BodyEnds(t, i)
                 \/ CallStart(t, i) \/ CallEnd(t, i)
          PROVE  IInv'
      BY <2>2, SubtaskAwaitsStep, SubtaskStoresStep, SubtaskCompletesStep, BodyAwaitsStep,
         BodyResumesStep, BodyEndsStep, CallStartStep, CallEndStep
    <2> QED
      BY <1>2, <2>1, <2>2 DEF Step
  <1> QED
    BY <1>1, <1>2, TimerFiresStep DEF Next

(* The invariant holds in every state of when_all and its sub-tasks. *)
THEOREM Invariance == Spec => []IInv
  BY InitInv, StepInv, PTL DEF Spec

-----------------------------------------------------------------------------
(* The properties *)

(* co_await when_all(...) completes once, after every sub-task, with all the *)
(* results in their places or with the exception of a sub-task that threw.   *)
THEOREM AllOrExceptionHolds == Spec => []AllOrException
  <1>1. ASSUME IInv PROVE AllOrException
    <2>1. got # <<>> => pc[Outer] = 2
      BY <1>1 DEF IInv, ChainInv
    <2>2. Len(got) <= 1
      <3>1. Len(got) = 1 \/ got = <<>>
        BY <1>1 DEF IInv, ChainInv
      <3>2. CASE Len(got) = 1
        BY <3>2
      <3>3. CASE got = <<>>
        BY <3>3
      <3> QED
        BY <3>1, <3>2, <3>3
    <2>3. ASSUME got # <<>>, NEW i \in Subs
          PROVE  frame[TaskOf(i)].st = "destroyed"
      <3>1. Left = {}
        BY <1>1, <2>1, <2>3 DEF IInv, ChainInv
      <3>2. pc[Drv(i)] = 3
        BY <3>1 DEF Left
      <3> QED
        BY <1>1, <3>2 DEF IInv, SubInv, Sub, PlaceInv, Fresh, Posted, InBody, InCall, Returned,
                          Ended, Done, St
    <2>4. got # <<>> => Result(got[1])
      BY <1>1, <2>1 DEF IInv, ChainInv
    <2> QED
      BY <2>2, <2>3, <2>4 DEF AllOrException, Result
  <1> QED
    BY <1>1, Invariance, PTL

(* capture_exception keeps the first exception of all the sub-tasks. *)
THEOREM FirstExceptionIsKept == Spec => FirstExceptionKept
  <1>1. ASSUME IInv, [Next]_vars
        PROVE  [state.first_exception # Unset =>
                   state'.first_exception = state.first_exception]_vars
    <2> SUFFICES ASSUME state.first_exception # Unset, Next
                 PROVE  state'.first_exception = state.first_exception
      BY <1>1
    <2>1. /\ pc[All] # 0
          /\ state \in [remaining : Nat, results : [Subs -> Outcomes], first_exception : Outcomes]
      BY <1>1 DEF IInv, StateInv, TypeInv
    <2>2. ASSUME NEW t \in Threads, AwaitSuspendBegins(t)
          PROVE  FALSE
      BY <2>1, <2>2 DEF AwaitSuspendBegins
    <2>3. ASSUME NEW t \in Threads, NEW i \in Subs, SubtaskStores(t, i)
          PROVE  state'.first_exception = state.first_exception
      BY <2>1, <2>3 DEF SubtaskStores, capture_exception, store_result
    <2>4. ASSUME NEW t \in Threads, NEW i \in Subs, SubtaskCompletes(t, i)
          PROVE  state'.first_exception = state.first_exception
      BY <2>1, <2>4 DEF SubtaskCompletes
    <2>5. ASSUME NEW t \in Threads,
                 \/ TakeIo(t) \/ TakeFunction(t) \/ OuterAwaits(t) \/ OuterResumes(t)
                 \/ AwaitSuspendPosts(t) \/ AllEnds(t)
          PROVE  state' = state
      BY <2>5 DEF TakeIo, TakeFunction, PoolFunction, OuterAwaits, OuterResumes,
                  AwaitSuspendPosts, AllEnds
    <2>6. ASSUME NEW t \in Threads, NEW i \in Subs,
                 \/ SubtaskAwaits(t, i) \/ BodyAwaits(t, i) \/ BodyResumes(t, i)
                 \/ BodyEnds(t, i) \/ CallStart(t, i) \/ CallEnd(t, i)
          PROVE  state' = state
      BY <2>6 DEF SubtaskAwaits, BodyAwaits, BodyResumes, BodyEnds, CallStart, CallEnd
    <2>7. ASSUME NEW i \in Subs, TimerFires(i)
          PROVE  state' = state
      BY <2>7 DEF TimerFires
    <2> QED
      BY <2>2, <2>3, <2>4, <2>5, <2>6, <2>7 DEF Next, Step
  <1> QED
    BY <1>1, Invariance, PTL DEF Spec, FirstExceptionKept

(* Who will go on with coroutine c, and what is then known of its frame. *)
LEMMA ResumerFacts ==
    ASSUME IInv, NEW c \in Coroutines
    PROVE  /\ c \in Items(io) => St(c) = "suspended"
           /\ \A i \in Subs : c = Call(i) /\ (InPool(i) \/ i \in timers) => St(c) = "suspended"
           /\ \A d \in Coroutines : St(d) = "running" /\ frame[d].cont = <<c>> =>
                  /\ St(c) = "suspended" /\ c \notin Items(io)
                  /\ \/ d = All /\ c = Outer
                     \/ \E i \in Subs : \/ d = TaskOf(i) /\ c = Drv(i)
                                        \/ d = Call(i) /\ c = TaskOf(i)
  <1>1. SubInv /\ ChainInv /\ (c = Outer \/ c = All \/ \E i \in Subs : c \in Own(i))
    BY Distinct DEF IInv
  <1>2. c \in Items(io) => St(c) = "suspended"
    <2>1. \A i \in Subs : c \in Own(i) /\ c \in Items(io) => St(c) = "suspended"
      BY <1>1 DEF SubInv, Sub, TokenInv, Own
    <2> QED
      BY <1>1, <2>1 DEF ChainInv
  <1>3. \A i \in Subs : c = Call(i) /\ (InPool(i) \/ i \in timers) => St(c) = "suspended"
    BY <1>1 DEF SubInv, Sub, TokenInv
  <1>4. ASSUME NEW d \in Coroutines, St(d) = "running", frame[d].cont = <<c>>
        PROVE  /\ St(c) = "suspended" /\ c \notin Items(io)
               /\ \/ d = All /\ c = Outer
                  \/ \E i \in Subs : \/ d = TaskOf(i) /\ c = Drv(i)
                                     \/ d = Call(i) /\ c = TaskOf(i)
    <2>1. d = Outer \/ d = All \/ \E i \in Subs : d \in Own(i)
      BY Distinct
    <2>2. <<c>> # <<>> /\ \A e : <<c>> = <<e>> => c = e
      OBVIOUS
    <2>3. d # Outer
      BY <1>1, <1>4, <2>2 DEF ChainInv
    <2>4. CASE d = All
      BY <1>1, <1>4, <2>2, <2>4 DEF ChainInv
    <2>5. ASSUME NEW i \in Subs, d \in Own(i)
          PROVE  /\ St(c) = "suspended" /\ c \notin Items(io)
                 /\ (d = TaskOf(i) /\ c = Drv(i)) \/ (d = Call(i) /\ c = TaskOf(i))
      <3>1. Sub(i)
        BY <1>1 DEF SubInv
      <3>2. d # Drv(i)
        BY <1>4, <2>2, <3>1 DEF Sub, ContInv
      <3>3. CASE d = TaskOf(i)
        <4>1. InBody(i) \/ Returned(i)
          BY <1>4, <3>1, <3>3
             DEF Sub, PlaceInv, Fresh, Posted, InBody, InCall, Returned, Ended, Done
        <4>2. c = Drv(i)
          BY <1>4, <2>2, <3>1, <3>3, <4>1 DEF Sub, ContInv
        <4> QED
          BY <3>1, <3>3, <4>1, <4>2 DEF Sub, TokenInv, InBody, Returned
      <3>4. CASE d = Call(i)
        <4>1. InCall(i)
          BY <1>4, <3>1, <3>4
             DEF Sub, PlaceInv, Fresh, Posted, InBody, InCall, Returned, Ended, Done, Away
        <4>2. c = TaskOf(i)
          BY <1>4, <2>2, <3>1, <3>4, <4>1 DEF Sub, ContInv
        <4> QED
          BY <3>1, <3>4, <4>1, <4>2 DEF Sub, TokenInv, InCall
      <3> QED
        BY <2>5, <3>2, <3>3, <3>4 DEF Own
    <2> QED
      BY <2>1, <2>3, <2>4, <2>5
  <1> QED
    BY <1>2, <1>3, <1>4

(* A resumption is held by one holder at most. *)
LEMMA OneResumer ==
    ASSUME IInv, NEW c \in Coroutines, NEW x \in Resumers(c), NEW y \in Resumers(c)
    PROVE  x = y
  <1> DEFINE IoOf == {k \in 1..Len(io) : io[k] = c \/ \E i \in Subs : io[k] = Fn(i) /\ c = Call(i)}
             CpuOf == {k \in 1..Len(cpu) : \E i \in Subs : cpu[k] = Fn(i) /\ c = Call(i)}
             TimerOf == {k \in timers : c = Call(k)}
             ContOf == {e \in Coroutines : frame[e].st = "running" /\ frame[e].cont = <<c>>}
  <1>1. /\ QueueInv /\ SubInv /\ timers \in SUBSET Subs
        /\ \A i, j \in Subs : Call(i) = Call(j) => i = j
        /\ \A i \in Subs : c # Fn(i)
    BY Distinct, DistinctFn DEF IInv, TypeInv
  <1>2. \A j, k \in IoOf : j = k
    <2> SUFFICES ASSUME NEW j \in IoOf, NEW k \in IoOf PROVE j = k
      OBVIOUS
    <2>1. ASSUME io[j] = c, NEW i \in Subs, io[k] = Fn(i), c = Call(i) PROVE FALSE
      BY <1>1, <2>1 DEF SubInv, Sub, TokenInv, InPool, Items
    <2>2. ASSUME io[k] = c, NEW i \in Subs, io[j] = Fn(i), c = Call(i) PROVE FALSE
      BY <1>1, <2>2 DEF SubInv, Sub, TokenInv, InPool, Items
    <2>3. io[j] = io[k]
      BY <1>1, <2>1, <2>2
    <2> QED
      BY <1>1, <2>3 DEF QueueInv, NoDup
  <1>3. \A j, k \in CpuOf : j = k
    BY <1>1 DEF QueueInv, NoDup
  <1>4. \A j, k \in TimerOf : j = k
    BY <1>1
  <1>5. \A d, e \in ContOf : d = e
    <2>1. \A d \in ContOf : \/ d = All /\ c = Outer
                            \/ \E i \in Subs : \/ d = TaskOf(i) /\ c = Drv(i)
                                               \/ d = Call(i) /\ c = TaskOf(i)
      BY ResumerFacts DEF St
    <2>2. /\ \A i \in Subs : Drv(i) # Outer /\ TaskOf(i) # Outer
          /\ \A i, j \in Subs : /\ Drv(i) # TaskOf(j)
                                /\ Drv(i) = Drv(j) => i = j
                                /\ TaskOf(i) = TaskOf(j) => i = j
      BY Distinct
    <2> HIDE DEF ContOf
    <2> QED
      BY <2>1, <2>2
  <1>6. ~(IoOf # {} /\ CpuOf # {})
    <2> SUFFICES ASSUME NEW j \in IoOf, NEW k \in CpuOf PROVE FALSE
      OBVIOUS
    <2>1. PICK i \in Subs : cpu[k] = Fn(i) /\ c = Call(i)
      OBVIOUS
    <2>2. InPool(i) /\ CpuThreads # {}
      BY <1>1, <2>1, EmptyItems DEF InPool, Items, QueueInv
    <2>3. Call(i) \notin Items(io) /\ Items(io) \subseteq Coroutines
      BY <1>1, <2>2 DEF SubInv, Sub, TokenInv, QueueInv
    <2>4. io[j] \in Items(io)
      BY DEF Items
    <2> QED
      BY <2>1, <2>3, <2>4, DistinctFn
  <1>7. ~(IoOf # {} /\ TimerOf # {}) /\ ~(CpuOf # {} /\ TimerOf # {})
    <2>1. ASSUME NEW k \in TimerOf PROVE ~InPool(k) /\ Call(k) \notin Items(io) /\ c = Call(k) /\ k \in Subs
      BY <1>1 DEF SubInv, Sub, TokenInv
    <2>2. ASSUME NEW k \in TimerOf, NEW j \in IoOf PROVE FALSE
      BY <1>1, <2>1 DEF Items, InPool
    <2>3. ASSUME NEW k \in TimerOf, NEW j \in CpuOf PROVE FALSE
      BY <1>1, <2>1 DEF Items, InPool
    <2> QED
      BY <2>2, <2>3
  <1>8. ContOf # {} => IoOf = {} /\ CpuOf = {} /\ TimerOf = {}
    <2> SUFFICES ASSUME ContOf # {} PROVE IoOf = {} /\ CpuOf = {} /\ TimerOf = {}
      OBVIOUS
    <2>1. c \notin Items(io) /\ \A i \in Subs : c # Call(i)
      BY ResumerFacts, Distinct DEF St
    <2>2. \A k \in 1..Len(io) : io[k] # c
      BY <2>1 DEF Items
    <2> QED
      BY <1>1, <2>1, <2>2
  <1>9. /\ x \in {<<"io", j>> : j \in IoOf} \cup {<<"cpu", j>> : j \in CpuOf}
                   \cup {<<"timer", i>> : i \in TimerOf} \cup {<<"cont", d>> : d \in ContOf}
        /\ y \in {<<"io", j>> : j \in IoOf} \cup {<<"cpu", j>> : j \in CpuOf}
                   \cup {<<"timer", i>> : i \in TimerOf} \cup {<<"cont", d>> : d \in ContOf}
    BY DEF Resumers
  <1> HIDE DEF IoOf, CpuOf, TimerOf, ContOf
  <1> QED
    BY <1>2, <1>3, <1>4, <1>5, <1>6, <1>7, <1>8, <1>9

(* No frame is resumed twice, run by two threads, or used after it ended.    *)
THEOREM FramesAreSafe == Spec => []FramesUsedSafely
  <1>1. ASSUME IInv PROVE FramesUsedSafely
    <2>1. ASSUME NEW c \in Coroutines, NEW x \in Resumers(c)
          PROVE  St(c) = "suspended"
      <3>1. \/ \E k \in 1..Len(io) : io[k] = c \/ \E i \in Subs : io[k] = Fn(i) /\ c = Call(i)
            \/ \E k \in 1..Len(cpu) : \E i \in Subs : cpu[k] = Fn(i) /\ c = Call(i)
            \/ \E k \in timers : c = Call(k)
            \/ \E e \in Coroutines : frame[e].st = "running" /\ frame[e].cont = <<c>>
        BY DEF Resumers
      <3>2. \/ c \in Items(io)
            \/ \E i \in Subs : c = Call(i) /\ (InPool(i) \/ i \in timers)
            \/ \E e \in Coroutines : St(e) = "running" /\ frame[e].cont = <<c>>
        <4>1. timers \in SUBSET Subs
          BY <1>1 DEF IInv, TypeInv
        <4> QED
          BY <3>1, <4>1 DEF Items, InPool, St
      <3> QED
        BY <1>1, <3>2, ResumerFacts
    <2>2. \A c \in Coroutines : \A x, y \in Resumers(c) : x = y
      BY <1>1, OneResumer
    <2>3. \A c \in Coroutines : /\ (\E t \in Threads : Running(t, c)) <=> St(c) = "running"
                                /\ \A t, u \in Threads : Running(t, c) /\ Running(u, c) => t = u
      BY <1>1 DEF IInv, RunInv, Running
    <2>4. \A t \in Threads : at[t].do = "post" => St(All) = "suspended"
      <3> SUFFICES ASSUME NEW t \in Threads, at[t].do = "post" PROVE St(All) = "suspended"
        OBVIOUS
      <3>1. pc[All] = 1 /\ at[t].k \in Subs /\ Fresh(at[t].k)
        BY <1>1 DEF IInv, PostInv, Subs
      <3>2. at[t].k \in Left
        BY <3>1 DEF Fresh, Left
      <3> QED
        BY <1>1, <3>1, <3>2 DEF IInv, ChainInv
    <2> QED
      BY <2>1, <2>2, <2>3, <2>4 DEF FramesUsedSafely, St
  <1> QED
    BY <1>1, Invariance, PTL
=============================================================================
