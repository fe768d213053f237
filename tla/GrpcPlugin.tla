----------------------------- MODULE GrpcPlugin -----------------------------
(***************************************************************************)
(* The gRPC plugin object (src/plugins/grpc/grpc_plugin.cpp): registration   *)
(* of methods, install(), start() and stop().  stop() may be called by any   *)
(* thread; its look at joinable() and its join() are separate steps, as the  *)
(* code holds no lock.                                                       *)
(*                                                                           *)
(* The plugin's own executor is modelled by its state_ only (AsioExecutor    *)
(* models it in full): what listen(), run() and stop() do to that state and  *)
(* when run() returns.                                                       *)
(***************************************************************************)
EXTENDS Naturals, Sequences, FiniteSets

CONSTANTS Plugins,   \* the plugin objects of the process
          Threads,   \* threads that may call stop()
          Methods    \* method names: the strings between the '/' of a path

ASSUME PluginAssumption ==
    /\ IsFiniteSet(Plugins) /\ IsFiniteSet(Threads)
    /\ \A m \in Methods : m \in Seq(STRING)

VARIABLES
    configValid,  \* per plugin: config_ has a port, a stream limit and a size limit
    methods,      \* unary_methods_
    installed,    \* installed_
    running,      \* running_
    executor,     \* executor_: "null" or its state_
    runner,       \* runner_: "none", "started", "running", "exited", "joined"
    stopPc,       \* per thread: where it is in Plugin::stop()
    todo,         \* per thread: plugins it has still to stop, in order
    crashed       \* std::terminate, or two threads joined one thread object

pluginVars == <<configValid, methods, installed, running, executor, runner, stopPc,
                todo, crashed>>

PluginInit ==
    /\ configValid \in [Plugins -> BOOLEAN]
    /\ methods = [p \in Plugins |-> {}]
    /\ installed = [p \in Plugins |-> FALSE]
    /\ running = [p \in Plugins |-> FALSE]
    /\ executor = [p \in Plugins |-> "null"]
    /\ runner = [p \in Plugins |-> "none"]
    /\ stopPc = [t \in Threads |-> "idle"]
    /\ todo = [t \in Threads |-> <<>>]
    /\ crashed = FALSE

FlagTypeOK ==
    /\ configValid \in [Plugins -> BOOLEAN]
    /\ installed \in [Plugins -> BOOLEAN]
    /\ running \in [Plugins -> BOOLEAN]
    /\ crashed \in BOOLEAN

PluginTypeOK ==
    /\ methods \in [Plugins -> SUBSET Methods]
    /\ executor \in [Plugins -> {"null", "Configured", "Running", "Draining", "Stopped"}]
    /\ runner \in [Plugins -> {"none", "started", "running", "exited", "joined"}]
    /\ stopPc \in [Threads -> {"idle", "joinable", "join", "clear"}]
    /\ todo \in [Threads -> Seq(Plugins)]

-----------------------------------------------------------------------------
(* Registration *)

(* "/Service/Method": a leading '/', two non-empty parts, no third '/'. *)
is_valid_method(m) ==
    /\ Len(m) = 3
    /\ m[1] = "" /\ m[2] # "" /\ m[3] # ""

(* Mutant: registration is still open after install(). *)
add_unary_method_Late(p, m) ==
    /\ is_valid_method(m)
    /\ methods' = [methods EXCEPT ![p] = @ \cup {m}]
    /\ UNCHANGED <<configValid, installed, running, executor, runner, stopPc, todo, crashed>>

(* AlreadyInstalled, InvalidMethod and DuplicateMethod leave the map alone. *)
add_unary_method(p, m) ==
    /\ ~installed[p]
    /\ is_valid_method(m)
    /\ m \notin methods[p]
    /\ methods' = [methods EXCEPT ![p] = @ \cup {m}]
    /\ UNCHANGED <<configValid, installed, running, executor, runner, stopPc, todo, crashed>>

(* installed_.exchange(true); a rejected configuration takes it back. *)
install_result(p) ==
    IF installed[p] THEN "AlreadyInstalled"
    ELSE IF ~configValid[p] THEN "InvalidArgument" ELSE "ok"

install(p) ==
    /\ installed' = [installed EXCEPT ![p] = @ \/ configValid[p]]
    /\ UNCHANGED <<configValid, methods, running, executor, runner, stopPc, todo, crashed>>

-----------------------------------------------------------------------------
(* The plugin's executor: what stop() and run() do to state_. *)

ExecutorStop(state) ==
    IF state = "Running" THEN "Draining"
    ELSE IF state = "Configured" THEN "Stopped" ELSE state

(* runner_ calls run(): it returns at once when stop() came first. *)
RunnerRun(p) ==
    /\ runner[p] = "started"
    /\ IF executor[p] \in {"Draining", "Stopped"}
       THEN /\ executor' = [executor EXCEPT ![p] = "Stopped"]
            /\ runner' = [runner EXCEPT ![p] = "exited"]
       ELSE /\ executor' = [executor EXCEPT ![p] = "Running"]
            /\ runner' = [runner EXCEPT ![p] = "running"]
    /\ UNCHANGED <<configValid, methods, installed, running, stopPc, todo, crashed>>

(* run() returns once the sessions have drained or the drain timeout expired. *)
RunnerExit(p) ==
    /\ runner[p] = "running"
    /\ executor[p] = "Draining"
    /\ executor' = [executor EXCEPT ![p] = "Stopped"]
    /\ runner' = [runner EXCEPT ![p] = "exited"]
    /\ UNCHANGED <<configValid, methods, installed, running, stopPc, todo, crashed>>

-----------------------------------------------------------------------------
(* start(): running_ is claimed, then the executor is made and listens, then  *)
(* runner_ is started; App::stop() may come between any two of these steps.   *)

(* AlreadyRunning and an invalid configuration are early returns: listen(), the *)
(* only caller, starts each installed plugin once, and install() validated it. *)
start_claim(p) ==
    /\ ~running[p] /\ configValid[p]
    /\ running' = [running EXCEPT ![p] = TRUE]
    /\ UNCHANGED <<configValid, methods, installed, executor, runner, stopPc, todo, crashed>>

start_listen(p) ==
    /\ executor' = [executor EXCEPT ![p] = "Configured"]
    /\ UNCHANGED <<configValid, methods, installed, running, runner, stopPc, todo, crashed>>

start_listen_failed(p) ==
    /\ executor' = [executor EXCEPT ![p] = "null"]
    /\ running' = [running EXCEPT ![p] = FALSE]
    /\ UNCHANGED <<configValid, methods, installed, runner, stopPc, todo, crashed>>

start_runner(p) ==
    /\ runner' = [runner EXCEPT ![p] = "started"]
    /\ UNCHANGED <<configValid, methods, installed, running, executor, stopPc, todo, crashed>>

-----------------------------------------------------------------------------
(* stop(), by thread t on the next plugin of its list. *)

joinable(p) == runner[p] \in {"started", "running", "exited"}
Joiners(p)  == {t \in Threads : stopPc[t] = "join" /\ Head(todo[t]) = p}

stop_executor(t) ==
    /\ stopPc[t] = "idle" /\ todo[t] # <<>>
    /\ LET p == Head(todo[t])
       IN  executor' = [executor EXCEPT ![p] = ExecutorStop(@)]
    /\ stopPc' = [stopPc EXCEPT ![t] = "joinable"]
    /\ UNCHANGED <<configValid, methods, installed, running, runner, todo, crashed>>

(* Mutant: stop() does not wait for the runner. *)
stop_joinable_Detach(t) ==
    /\ stopPc[t] = "joinable"
    /\ stopPc' = [stopPc EXCEPT ![t] = "clear"]
    /\ UNCHANGED <<configValid, methods, installed, running, executor, runner, todo, crashed>>

stop_joinable(t) ==
    /\ stopPc[t] = "joinable"
    /\ stopPc' = [stopPc EXCEPT ![t] = IF joinable(Head(todo[t])) THEN "join" ELSE "clear"]
    /\ UNCHANGED <<configValid, methods, installed, running, executor, runner, todo, crashed>>

(* join(): alone it waits for the thread to exit; a second join() of the same *)
(* object is undefined, or throws out of a noexcept function.                 *)
stop_join(t) ==
    /\ stopPc[t] = "join"
    /\ LET p == Head(todo[t])
       IN  \/ /\ Joiners(p) = {t} /\ runner[p] = "exited"
              /\ runner' = [runner EXCEPT ![p] = "joined"]
              /\ stopPc' = [stopPc EXCEPT ![t] = "clear"]
              /\ UNCHANGED crashed
           \/ /\ Joiners(p) # {t} \/ ~joinable(p)
              /\ crashed' = TRUE
              /\ UNCHANGED <<runner, stopPc>>
    /\ UNCHANGED <<configValid, methods, installed, running, executor, todo>>

stop_clear(t) ==
    /\ stopPc[t] = "clear"
    /\ running' = [running EXCEPT ![Head(todo[t])] = FALSE]
    /\ todo' = [todo EXCEPT ![t] = Tail(@)]
    /\ stopPc' = [stopPc EXCEPT ![t] = "idle"]
    /\ UNCHANGED <<configValid, methods, installed, executor, runner, crashed>>

StopStep(t) == stop_executor(t) \/ stop_joinable(t) \/ stop_join(t) \/ stop_clear(t)

StopBegin(t, list) ==
    /\ todo' = [todo EXCEPT ![t] = list]
    /\ UNCHANGED <<configValid, methods, installed, running, executor, runner, stopPc, crashed>>
=============================================================================
