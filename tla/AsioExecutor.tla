---------------------------- MODULE AsioExecutor ----------------------------
(***************************************************************************)
(* The executor's life cycle: listen, run, stop, the drain timer and the    *)
(* destructor (src/net/asio_executor.cpp), over an io_context that several   *)
(* I/O threads run.                                                          *)
(*                                                                           *)
(* The io_context is modelled by what run() can tell apart: handlers that    *)
(* are ready to run, asynchronous operations that are pending, what every    *)
(* I/O thread executes, the work guard and the stopped flag.  When nothing   *)
(* of this is outstanding the io_context stops and its threads leave run().  *)
(* Work on the CPU pool is NOT outstanding work of the io_context.           *)
(*                                                                           *)
(* Handlers are accept loops, connection coroutines (named by their id) and  *)
(* the posted closing of the acceptors.  Taking a handler and finishing it   *)
(* are two steps, so handlers overlap on different threads.                  *)
(***************************************************************************)
EXTENDS Naturals, FiniteSets

CONSTANTS IoThreads,  \* io_threads_
          Loops,      \* ports given to listen(): one accept loop each
          Stoppers,   \* threads (or signal handlers) that call stop() once
          Conns,      \* bound: connections clients open
          MaxAwaits   \* bound: times one connection coroutine suspends

CloseHandler == "close"
Handlers     == Loops \cup Conns \cup {CloseHandler}

(* Handlers are told apart from one another and from what a thread does        *)
(* without one.                                                                *)
ASSUME ExecutorAssumption ==
    /\ IoThreads # {} /\ IsFiniteSet(IoThreads)
    /\ IsFiniteSet(Loops) /\ IsFiniteSet(Conns)
    /\ MaxAwaits \in Nat
    /\ Loops \cap Conns = {} /\ CloseHandler \notin Loops \cup Conns
    /\ \A h \in {"none", "idle", "exited"} : h \notin Handlers

VARIABLES
    state,      \* state_
    guard,      \* work_guard_ is engaged
    ioStopped,  \* io_ctx_ is stopped
    ready,      \* handlers queued in io_ctx_
    pending,    \* handlers whose asynchronous operation has not completed
    exec,       \* per I/O thread: "none", "idle", "exited" or the handler it runs
    acceptor,   \* per loop: "none", "binding", "failed", "open", "closed"
    result,     \* per loop: outcome of its last async_accept
    cpuPool,    \* cpu_pool_ exists (cpu_pool_threads > 0)
    cpu,        \* connections whose pool() callable is on the CPU pool
    done,       \* connections whose coroutine ended
    awaits,     \* suspensions of each connection so far
    accepted,   \* connections that have been given an id from next_conn_id_
    drain,      \* drain_thread_: "none", "waiting", "exited", "joined"
    signaled,   \* drain_signaled_ and drain_signal_
    mainPc,     \* the thread that calls listen(), run() and the destructor
    current,    \* local of run()
    stopPc,     \* per Stopper
    began,      \* history: state_ when a Stopper called stop()
    forced      \* history: the drain timer stopped io_ctx_

vars == <<state, guard, ioStopped, ready, pending, exec, acceptor, result, cpuPool,
          cpu, done, awaits, accepted, drain, signaled, mainPc, current, stopPc, began, forced>>

io       == <<guard, ioStopped, ready, pending>>
accepts  == <<acceptor, result, accepted>>
conns    == <<cpuPool, cpu, done, awaits>>
drainer  == <<drain, signaled, forced>>
mainVars == <<mainPc, current>>
stopVars == <<stopPc, began>>

Init ==
    /\ state = "Idle"
    /\ guard = FALSE /\ ioStopped = FALSE /\ ready = {} /\ pending = {}
    /\ exec = [t \in IoThreads |-> "none"]
    /\ acceptor = [l \in Loops |-> "none"]
    /\ result = [l \in Loops |-> "none"]
    /\ cpuPool \in BOOLEAN
    /\ cpu = {} /\ done = {} /\ awaits = [c \in Conns |-> 0] /\ accepted = {}
    /\ drain = "none" /\ signaled = FALSE /\ forced = FALSE
    /\ mainPc = "ready" /\ current = "Idle"
    /\ stopPc = [s \in Stoppers |-> "idle"] /\ began = [s \in Stoppers |-> "Idle"]

-----------------------------------------------------------------------------
(* listen(): rejected unless Idle or Configured.  Binding takes a while and   *)
(* may fail; stop() can come between the test of state_ and the registration. *)

Binding == \E l \in Loops : acceptor[l] = "binding"

ListenTest(l) ==
    /\ mainPc = "ready" /\ ~Binding
    /\ acceptor[l] = "none"
    /\ acceptor' = [acceptor EXCEPT ![l] = IF state \in {"Idle", "Configured"}
                                           THEN "binding" ELSE "failed"]
    /\ UNCHANGED <<state, io, exec, result, accepted, conns, drainer, mainVars, stopVars>>

ListenBind(l) ==
    /\ acceptor[l] = "binding"
    /\ \/ /\ acceptor' = [acceptor EXCEPT ![l] = "open"]
          /\ state' = IF state = "Idle" THEN "Configured" ELSE state
       \/ /\ acceptor' = [acceptor EXCEPT ![l] = "failed"]
          /\ UNCHANGED state
    /\ UNCHANGED <<io, exec, result, accepted, conns, drainer, mainVars, stopVars>>

-----------------------------------------------------------------------------
(* run() *)

(* The first look at state_, then work_guard_.emplace. *)
RunLoad ==
    /\ mainPc = "ready" /\ ~Binding
    /\ current' = state
    /\ IF state \in {"Draining", "Stopped"}
       THEN state' = "Stopped" /\ mainPc' = "returned" /\ UNCHANGED guard
       ELSE guard' = TRUE /\ mainPc' = "cas" /\ UNCHANGED state
    /\ UNCHANGED <<ioStopped, ready, pending, exec, accepts, conns, drainer, stopVars>>

(* Mutant: run() stores Running without comparing. *)
RunCas_Store ==
    /\ mainPc = "cas"
    /\ state' = "Running" /\ mainPc' = "start"
    /\ UNCHANGED <<guard, ioStopped, ready, pending, exec, accepts, conns, drainer, current,
                   stopVars>>

(* compare_exchange current -> Running, or the state stop() left behind. *)
RunCas ==
    /\ mainPc = "cas"
    /\ IF state = current
       THEN state' = "Running" /\ mainPc' = "start" /\ UNCHANGED guard
       ELSE state' = "Stopped" /\ mainPc' = "returned" /\ guard' = FALSE
    /\ UNCHANGED <<ioStopped, ready, pending, exec, accepts, conns, drainer, current,
                   stopVars>>

StartThread(t) ==
    /\ mainPc = "start"
    /\ exec[t] = "none"
    /\ exec' = [exec EXCEPT ![t] = "idle"]
    /\ mainPc' = IF \E u \in IoThreads \ {t} : exec[u] = "none" THEN "start" ELSE "spawn"
    /\ UNCHANGED <<state, io, accepts, conns, drainer, current, stopVars>>

(* co_spawn of every registered accept loop; its first segment is posted. *)
Unspawned(l) == acceptor[l] \in {"open", "closed"} /\ result[l] = "none"

Spawn(l) ==
    /\ mainPc = "spawn"
    /\ Unspawned(l)
    /\ ready' = ready \cup {l}
    /\ result' = [result EXCEPT ![l] = "start"]
    /\ UNCHANGED <<state, guard, ioStopped, pending, exec, acceptor, accepted, conns,
                   drainer, mainVars, stopVars>>

(* Mutant: run() joins one I/O thread only. *)
RunJoin_First ==
    /\ mainPc = "spawn"
    /\ \A l \in Loops : ~Unspawned(l)
    /\ \E t \in IoThreads : exec[t] = "exited"
    /\ mainPc' = "joined"
    /\ UNCHANGED <<state, io, exec, accepts, conns, drainer, current, stopVars>>

RunJoin ==
    /\ mainPc = "spawn"
    /\ \A l \in Loops : ~Unspawned(l)
    /\ \A t \in IoThreads : exec[t] = "exited"
    /\ mainPc' = "joined"
    /\ UNCHANGED <<state, io, exec, accepts, conns, drainer, current, stopVars>>

(* Cancel the drain timer if there is one; state_ becomes Stopped at the end. *)
RunFinish ==
    /\ \/ /\ mainPc = "joined" /\ drain = "none"
          /\ state' = "Stopped" /\ mainPc' = "returned"
          /\ UNCHANGED <<drain, signaled>>
       \/ /\ mainPc = "joined" /\ drain # "none"
          /\ signaled' = TRUE /\ mainPc' = "join_drain"
          /\ UNCHANGED <<state, drain>>
       \/ /\ mainPc = "join_drain" /\ drain = "exited"
          /\ drain' = "joined"
          /\ state' = "Stopped" /\ mainPc' = "returned"
          /\ UNCHANGED signaled
    /\ UNCHANGED <<io, exec, accepts, conns, forced, current, stopVars>>

(* Mutant: the destructor does not join the drain thread. *)
Destroy_ForgetsDrain ==
    /\ \/ /\ mainPc \in {"ready", "returned"} /\ ~Binding
          /\ \A s \in Stoppers : stopPc[s] \in {"idle", "done"}
          /\ ioStopped' = TRUE
          /\ mainPc' = "dtor"
          /\ UNCHANGED <<drain, signaled>>
       \/ /\ mainPc = "dtor" /\ cpu = {}
          /\ mainPc' = "destroyed"
          /\ UNCHANGED <<ioStopped, drain, signaled>>
    /\ UNCHANGED <<state, guard, ready, pending, exec, accepts, conns, forced, current,
                   stopVars>>

(* ~AsioExecutor, once nobody is inside stop(). *)
Destroy ==
    /\ \/ /\ mainPc \in {"ready", "returned"} /\ ~Binding
          /\ \A s \in Stoppers : stopPc[s] \in {"idle", "done"}
          /\ ioStopped' = TRUE
          /\ mainPc' = "dtor"
          /\ UNCHANGED <<drain, signaled>>
       \/ /\ mainPc = "dtor" /\ cpu = {}
          /\ IF drain \in {"waiting", "exited"}
             THEN signaled' = TRUE /\ mainPc' = "dtor_drain"
             ELSE mainPc' = "destroyed" /\ UNCHANGED signaled
          /\ UNCHANGED <<ioStopped, drain>>
       \/ /\ mainPc = "dtor_drain" /\ drain = "exited"
          /\ drain' = "joined"
          /\ mainPc' = "destroyed"
          /\ UNCHANGED <<ioStopped, signaled>>
    /\ UNCHANGED <<state, guard, ready, pending, exec, accepts, conns, forced, current,
                   stopVars>>

-----------------------------------------------------------------------------
(* stop() *)

Usable == mainPc \notin {"dtor", "dtor_drain", "destroyed"}

(* Mutant: a second stop() drains again. *)
StopCas1_Again(s) ==
    /\ stopPc[s] = "idle" /\ Usable
    /\ began' = [began EXCEPT ![s] = state]
    /\ IF state \in {"Running", "Draining"}
       THEN state' = "Draining" /\ stopPc' = [stopPc EXCEPT ![s] = "post"]
       ELSE stopPc' = [stopPc EXCEPT ![s] = "cas2"] /\ UNCHANGED state
    /\ UNCHANGED <<io, exec, accepts, conns, drainer, mainVars>>

StopCas1(s) ==
    /\ stopPc[s] = "idle" /\ Usable
    /\ began' = [began EXCEPT ![s] = state]
    /\ IF state = "Running"
       THEN state' = "Draining" /\ stopPc' = [stopPc EXCEPT ![s] = "post"]
       ELSE stopPc' = [stopPc EXCEPT ![s] = "cas2"] /\ UNCHANGED state
    /\ UNCHANGED <<io, exec, accepts, conns, drainer, mainVars>>

StopCas2(s) ==
    /\ stopPc[s] = "cas2"
    /\ IF state = "Configured"
       THEN state' = "Stopped" /\ stopPc' = [stopPc EXCEPT ![s] = "close"]
       ELSE stopPc' = [stopPc EXCEPT ![s] = "done"] /\ UNCHANGED state
    /\ UNCHANGED <<io, exec, accepts, conns, drainer, mainVars, began>>

(* Configured -> Stopped: the caller closes the acceptors and stops io_ctx_. *)
StopClose(s) ==
    /\ stopPc[s] = "close"
    /\ acceptor' = [l \in Loops |-> IF acceptor[l] = "open" THEN "closed" ELSE acceptor[l]]
    /\ ioStopped' = TRUE
    /\ stopPc' = [stopPc EXCEPT ![s] = "done"]
    /\ UNCHANGED <<state, guard, ready, pending, exec, result, accepted, conns, drainer,
                   mainVars, began>>

(* Mutant: the closing waits like an asynchronous operation nobody completes. *)
StopPost_Deferred(s) ==
    /\ stopPc[s] = "post"
    /\ pending' = pending \cup {CloseHandler}
    /\ stopPc' = [stopPc EXCEPT ![s] = "reset"]
    /\ UNCHANGED <<state, guard, ioStopped, ready, exec, accepts, conns, drainer,
                   mainVars, began>>

StopPost(s) ==
    /\ stopPc[s] = "post"
    /\ ready' = ready \cup {CloseHandler}
    /\ stopPc' = [stopPc EXCEPT ![s] = "reset"]
    /\ UNCHANGED <<state, guard, ioStopped, pending, exec, accepts, conns, drainer,
                   mainVars, began>>

(* Mutant: stop() stops the io_context instead of releasing the guard. *)
StopReset_Stops(s) ==
    /\ stopPc[s] = "reset"
    /\ ioStopped' = TRUE
    /\ stopPc' = [stopPc EXCEPT ![s] = "arm"]
    /\ UNCHANGED <<state, guard, ready, pending, exec, accepts, conns, drainer,
                   mainVars, began>>

StopReset(s) ==
    /\ stopPc[s] = "reset"
    /\ guard' = FALSE
    /\ stopPc' = [stopPc EXCEPT ![s] = "arm"]
    /\ UNCHANGED <<state, ioStopped, ready, pending, exec, accepts, conns, drainer,
                   mainVars, began>>

StopArm(s) ==
    /\ stopPc[s] = "arm"
    /\ signaled' = FALSE
    /\ drain' = "waiting"
    /\ stopPc' = [stopPc EXCEPT ![s] = "done"]
    /\ UNCHANGED <<state, io, exec, accepts, conns, forced, mainVars, began>>

(* Mutant: an expired drain timer leaves the io_context running. *)
DrainTimer_NoStop ==
    /\ drain = "waiting"
    /\ drain' = "exited"
    /\ \/ ~signaled /\ UNCHANGED ioStopped /\ forced' = TRUE
       \/ signaled /\ UNCHANGED <<ioStopped, forced>>
    /\ UNCHANGED <<state, guard, ready, pending, exec, accepts, conns, signaled, mainVars,
                   stopVars>>

(* The drain thread: wait_for times out, or run()/the destructor signalled. *)
DrainTimer ==
    /\ drain = "waiting"
    /\ drain' = "exited"
    /\ \/ ~signaled /\ ioStopped' = TRUE /\ forced' = TRUE
       \/ signaled /\ UNCHANGED <<ioStopped, forced>>
    /\ UNCHANGED <<state, guard, ready, pending, exec, accepts, conns, signaled, mainVars,
                   stopVars>>

-----------------------------------------------------------------------------
(* io_context *)

NoWork ==
    /\ ~guard /\ ready = {} /\ pending = {}
    /\ \A t \in IoThreads : exec[t] \notin Handlers

Take(t, h) ==
    /\ exec[t] = "idle"
    /\ ~ioStopped
    /\ h \in ready
    /\ ready' = ready \ {h}
    /\ exec' = [exec EXCEPT ![t] = h]
    /\ UNCHANGED <<state, guard, ioStopped, pending, accepts, conns, drainer, mainVars,
                   stopVars>>

(* io_ctx_.run() returns: stopped, or out of work (which stops it). *)
ExitThread(t) ==
    /\ exec[t] = "idle"
    /\ ioStopped \/ NoWork
    /\ ioStopped' = TRUE
    /\ exec' = [exec EXCEPT ![t] = "exited"]
    /\ UNCHANGED <<state, guard, ready, pending, accepts, conns, drainer, mainVars,
                   stopVars>>

(* The posted closing of all acceptors: a pending async_accept is aborted. *)
CloseAcceptors(t) ==
    /\ exec[t] = CloseHandler
    /\ exec' = [exec EXCEPT ![t] = "idle"]
    /\ acceptor' = [l \in Loops |-> IF acceptor[l] = "open" THEN "closed" ELSE acceptor[l]]
    /\ result' = [l \in Loops |-> IF l \in pending THEN "aborted" ELSE result[l]]
    /\ ready' = ready \cup (pending \cap Loops)
    /\ pending' = pending \ Loops
    /\ UNCHANGED <<state, guard, ioStopped, accepted, conns, drainer, mainVars, stopVars>>

(* async_accept completes with a connection or with a transient error. *)
AcceptCompletes(l) ==
    /\ l \in pending
    /\ \E r \in {"ok", "error"} :
          /\ r = "ok" => Cardinality(accepted) + Cardinality({k \in Loops : result[k] = "ok"})
                           < Cardinality(Conns)
          /\ result' = [result EXCEPT ![l] = r]
    /\ pending' = pending \ {l}
    /\ ready' = ready \cup {l}
    /\ UNCHANGED <<state, guard, ioStopped, exec, acceptor, accepted, conns, drainer,
                   mainVars, stopVars>>

(* One pass of run_accept_loop: leave on an aborted accept; dispatch an      *)
(* accepted connection; start the next async_accept, which fails with        *)
(* bad_descriptor on a closed acceptor.                                      *)
AcceptLoop(t, l) ==
    /\ exec[t] = l
    /\ exec' = [exec EXCEPT ![t] = "idle"]
    /\ IF result[l] = "aborted"
       THEN UNCHANGED <<ready, pending, result, accepted>>
       ELSE \E new \in SUBSET (Conns \ accepted) :
            /\ Cardinality(new) = IF result[l] = "ok" THEN 1 ELSE 0
            /\ accepted' = accepted \cup new
            /\ IF acceptor[l] = "open"
               THEN /\ result' = [result EXCEPT ![l] = "start"]
                    /\ pending' = pending \cup {l}
                    /\ ready' = ready \cup new
               ELSE /\ result' = [result EXCEPT ![l] = "aborted"]
                    /\ ready' = ready \cup new \cup {l}
                    /\ UNCHANGED pending
    /\ UNCHANGED <<state, guard, ioStopped, acceptor, conns, drainer, mainVars, stopVars>>

(* A segment of a connection coroutine ends: the coroutine finishes, waits   *)
(* for I/O or a timer, or offloads to pool().  Without a CPU pool the        *)
(* callable is posted to the io_context itself.                              *)
ConnSegment(t, c) ==
    /\ exec[t] = c
    /\ exec' = [exec EXCEPT ![t] = "idle"]
    /\ \/ /\ done' = done \cup {c}
          /\ UNCHANGED <<ready, pending, cpu, awaits>>
       \/ /\ awaits[c] < MaxAwaits
          /\ awaits' = [awaits EXCEPT ![c] = @ + 1]
          /\ \/ pending' = pending \cup {c} /\ UNCHANGED <<ready, cpu>>
             \/ cpuPool /\ cpu' = cpu \cup {c} /\ UNCHANGED <<ready, pending>>
             \/ ~cpuPool /\ ready' = ready \cup {c} /\ UNCHANGED <<pending, cpu>>
          /\ UNCHANGED done
    /\ UNCHANGED <<state, guard, ioStopped, accepts, cpuPool, drainer, mainVars, stopVars>>

IoCompletes(c) ==
    /\ c \in pending
    /\ pending' = pending \ {c}
    /\ ready' = ready \cup {c}
    /\ UNCHANGED <<state, guard, ioStopped, exec, accepts, conns, drainer, mainVars,
                   stopVars>>

(* The pool() callable returns and posts the resumption to the io_context. *)
CpuCompletes(c) ==
    /\ c \in cpu
    /\ cpu' = cpu \ {c}
    /\ ready' = ready \cup {c}
    /\ UNCHANGED <<state, guard, ioStopped, pending, exec, accepts, cpuPool, done, awaits,
                   drainer, mainVars, stopVars>>

-----------------------------------------------------------------------------

MainStep ==
    \/ RunLoad \/ RunCas \/ RunJoin \/ RunFinish
    \/ \E t \in IoThreads : StartThread(t)
    \/ \E l \in Loops : Spawn(l)

StopStep(s) == \/ StopCas2(s) \/ StopClose(s) \/ StopPost(s) \/ StopReset(s) \/ StopArm(s)

ThreadStep(t) ==
    \/ ExitThread(t) \/ CloseAcceptors(t)
    \/ \E h \in Handlers : Take(t, h)
    \/ \E l \in Loops : AcceptLoop(t, l)
    \/ \E c \in Conns : ConnSegment(t, c)

Environment ==
    \/ \E l \in Loops : AcceptCompletes(l)
    \/ \E c \in Conns : IoCompletes(c)

Next ==
    \/ \E l \in Loops : ListenTest(l) \/ ListenBind(l)
    \/ MainStep \/ Destroy \/ DrainTimer \/ Environment
    \/ \E s \in Stoppers : StopCas1(s) \/ StopStep(s)
    \/ \E t \in IoThreads : ThreadStep(t)
    \/ \E c \in Conns : CpuCompletes(c)

Spec == Init /\ [][Next]_vars

(* Threads run, the drain timer expires, a pool() callable returns.  Nobody  *)
(* has to call stop(), and peers may keep a connection's I/O pending forever. *)
Fairness ==
    /\ WF_vars(MainStep)
    /\ WF_vars(DrainTimer)
    /\ \A s \in Stoppers : WF_vars(StopStep(s))
    /\ \A t \in IoThreads : WF_vars(ThreadStep(t))
    /\ \A c \in Conns : WF_vars(CpuCompletes(c))

FairSpec == Spec /\ Fairness

-----------------------------------------------------------------------------
(* Properties. *)

States == {"Idle", "Configured", "Running", "Draining", "Stopped"}
Over   == {"returned", "dtor", "dtor_drain", "destroyed"}

FlagTypeOK ==
    /\ guard \in BOOLEAN /\ ioStopped \in BOOLEAN
    /\ cpuPool \in BOOLEAN
    /\ signaled \in BOOLEAN /\ forced \in BOOLEAN

WorkTypeOK ==
    /\ state \in States /\ current \in States
    /\ ready \subseteq Handlers /\ pending \subseteq Handlers \ {CloseHandler}
    /\ exec \in [IoThreads -> Handlers \cup {"none", "idle", "exited"}]
    /\ acceptor \in [Loops -> {"none", "binding", "failed", "open", "closed"}]
    /\ result \in [Loops -> {"none", "start", "ok", "error", "aborted"}]
    /\ cpu \subseteq Conns /\ done \subseteq Conns
    /\ awaits \in [Conns -> 0..MaxAwaits] /\ accepted \subseteq Conns
    /\ drain \in {"none", "waiting", "exited", "joined"}
    /\ mainPc \in {"ready", "cas", "start", "spawn", "joined", "join_drain"} \cup Over
    /\ stopPc \in [Stoppers -> {"idle", "cas2", "close", "post", "reset", "arm", "done"}]
    /\ began \in [Stoppers -> States]

(* Every variable has its type. *)
TypeOK == FlagTypeOK /\ WorkTypeOK

(* state_ only moves forward, whatever listen(), run() and any number of     *)
(* stop() calls do at the same time; Stopped is final.                       *)
Rank == [Idle |-> 0, Configured |-> 1, Running |-> 2, Draining |-> 3, Stopped |-> 4]
LifecycleForward == [][Rank[state'] >= Rank[state]]_vars

AtWork    == \E t \in IoThreads : exec[t] \notin {"none", "exited"}
Lifecycle == INSTANCE ExecutorLifecycle WITH active <- AtWork

(* The executor implements ExecutorLifecycle, which App and GrpcPlugin rely    *)
(* on: in every interleaving of listen(), run() and any number of stop() calls *)
(* the state only moves forward, threads work only while it runs or drains,    *)
(* and run() ends a server only after a stop() and behind the last thread.     *)
ImplementsLifecycle == Lifecycle!Spec

(* drain_thread_ is assigned at most once (assigning over a joinable         *)
(* std::thread terminates the process).                                      *)
OneDrainThread ==
    /\ \A s \in Stoppers : stopPc[s] \in {"post", "reset", "arm"} => drain = "none"
    /\ Cardinality({s \in Stoppers : stopPc[s] \in {"post", "reset", "arm"}}) <= 1

(* When run() returns and the drain timer did not force it, every accepted   *)
(* connection has finished: the drain waited for the in-flight coroutines.   *)
(* With a CPU pool it does not wait for those inside pool(), which the       *)
(* io_context does not know of: they are still on the pool, or their         *)
(* resumption was posted to an io_context that nobody runs any more.         *)
GracefulDrain ==
    (mainPc = "returned" /\ ~forced) =>
        accepted \subseteq IF cpuPool THEN done \cup cpu \cup ready ELSE done

(* A destroyed executor leaves no thread behind that could touch it.         *)
NothingOutlives ==
    mainPc = "destroyed" =>
        /\ drain # "waiting" /\ drain # "exited"
        /\ cpu = {}
        /\ \A t \in IoThreads : exec[t] \in {"none", "exited"}

(* Stopped, reached by run() or by a stop() that came first, means that no   *)
(* I/O thread runs and none will be started.                                 *)
StoppedIsQuiet ==
    state = "Stopped" => \A t \in IoThreads : exec[t] \in {"none", "exited"}

(* A stop, in whatever state it finds the executor, ends it in good order: the *)
(* drain is armed once, it waits for the connections unless it is forced, and  *)
(* Stopped and destroyed mean that no thread is left.                          *)
OrderlyShutdown ==
    TypeOK /\ OneDrainThread /\ GracefulDrain /\ NothingOutlives /\ StoppedIsQuiet

(* A stop that moved the executor to Draining makes run() return, even when  *)
(* a connection never finishes.                                              *)
DrainTerminates == (state = "Draining") ~> (mainPc \in Over)

(* include/aevox/executor.hpp on stop(): after listen() but before run() it   *)
(* "causes the subsequent `run()` call to return without starting worker      *)
(* threads", and during run() it starts the drain: a stop() that began after  *)
(* listen() has taken effect when it returns.                                 *)
StopTakesEffect ==
    \A s \in Stoppers : (stopPc[s] = "done" /\ began[s] # "Idle") =>
        state \in {"Draining", "Stopped"}
=============================================================================
