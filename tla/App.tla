-------------------------------- MODULE App ---------------------------------
(***************************************************************************)
(* The life cycle of an App (src/router/app_impl.cpp): create(), install(),  *)
(* listen(), stop(), the signal handler and the destructor, over its         *)
(* configuration (Config), the plugins it owns (GrpcPlugin) and its HTTP     *)
(* executor.                                                                 *)
(*                                                                           *)
(* listen() and the destructor run on the main thread; stop() is called by   *)
(* other threads, each once; signals arrive at any time while the file-scope *)
(* slot is set.  The HTTP executor is its state_ (AsioExecutor has the rest).*)
(***************************************************************************)
EXTENDS GrpcPlugin, Config, SequencesExt

CONSTANTS Main,       \* the thread that calls listen() and the destructor
          Stoppers,   \* threads that call App::stop()
          Files       \* configuration files App::create() may be given

ASSUME AppAssumption == Threads = {Main} \cup Stoppers /\ Main \notin Stoppers

(* What is at a file's path, if there is a path; an "int" is an integer. *)
ASSUME FilesAssumption ==
    \A f \in Files :
        /\ f.status \in {"no path", "missing", "unreadable", "ok"}
        /\ \A k \in DOMAIN f.values : f.values[k][1] = "int" => f.values[k][2] \in Int

VARIABLES
    file,         \* the configuration file
    created,      \* what App::create() returned
    plugins,      \* impl_->plugins
    started,      \* local started_plugins of listen()
    http,         \* state_ of impl_->executor; "null" once destroyed
    slot,         \* signal_executor() points at the executor
    logWriter,    \* impl_->log_writer: "none", "writer", "disabled"
    mainPc,
    callPc        \* per Stopper: "idle", "plugins", "done"

configVars == <<file, created>>
appVars == <<configVars, plugins, started, http, slot, logWriter, mainPc, callPc>>
vars    == <<pluginVars, appVars>>

Init ==
    /\ PluginInit
    /\ file \in Files /\ created = Failed("none", "")
    /\ plugins = <<>> /\ started = <<>>
    /\ http = "Idle" /\ slot = FALSE /\ logWriter = "none"
    /\ mainPc = "create"
    /\ callPc = [s \in Stoppers |-> "idle"]

Live(pc) == mainPc = pc /\ ~crashed

-----------------------------------------------------------------------------
(* Before listen() *)

(* App::create() or the constructor; a refused file leaves no App. *)
Create ==
    /\ Live("create")
    /\ created' = create(file, Defaults)
    /\ mainPc' = IF created'.error = "none" THEN "setup" ELSE "refused"
    /\ UNCHANGED <<pluginVars, file, plugins, started, http, slot, logWriter, callPc>>

AddMethod(p, m) ==
    /\ ~crashed
    /\ mainPc \notin {"create", "refused", "terminate", "destroyed"}
    /\ add_unary_method(p, m)
    /\ UNCHANGED appVars

(* App::install: the plugin joins the list only when its install() succeeded. *)
AppInstall(p) ==
    /\ Live("setup")
    /\ p \notin ToSet(plugins)
    /\ install(p)
    /\ plugins' = IF install_result(p) = "ok" THEN Append(plugins, p) ELSE plugins
    /\ UNCHANGED <<configVars, started, http, slot, logWriter, mainPc, callPc>>

-----------------------------------------------------------------------------
(* listen(): the plugins first, in order *)

Listen ==
    /\ Live("setup")
    /\ mainPc' = "start"
    /\ UNCHANGED <<pluginVars, configVars, plugins, started, http, slot, logWriter, callPc>>

Starting == plugins[Len(started) + 1]

StartClaim ==
    /\ Live("start")
    /\ Len(started) < Len(plugins)
    /\ start_claim(Starting)
    /\ mainPc' = "startListen"
    /\ UNCHANGED <<configVars, plugins, started, http, slot, logWriter, callPc>>

StartListen ==
    /\ Live("startListen")
    /\ start_listen(Starting)
    /\ mainPc' = "startRunner"
    /\ UNCHANGED <<configVars, plugins, started, http, slot, logWriter, callPc>>

(* A plugin that cannot start: the started ones are stopped, last one first. *)
StartFails ==
    /\ Live("startListen")
    /\ start_listen_failed(Starting)
    /\ mainPc' = "unwindBegin"
    /\ UNCHANGED <<configVars, plugins, started, http, slot, logWriter, callPc>>

(* Mutant: the plugin is not remembered as started. *)
StartRunner_Forgotten ==
    /\ Live("startRunner")
    /\ start_runner(Starting)
    /\ started' = Append(started, plugins[1])
    /\ mainPc' = "start"
    /\ UNCHANGED <<configVars, plugins, http, slot, logWriter, callPc>>

StartRunner ==
    /\ Live("startRunner")
    /\ start_runner(Starting)
    /\ started' = Append(started, Starting)
    /\ mainPc' = "start"
    /\ UNCHANGED <<configVars, plugins, http, slot, logWriter, callPc>>

Unwind ==
    /\ Live("unwindBegin")
    /\ StopBegin(Main, Reverse(started))
    /\ mainPc' = "unwind"
    /\ UNCHANGED <<configVars, plugins, started, http, slot, logWriter, callPc>>

Terminate ==
    /\ Live("unwind")
    /\ todo[Main] = <<>>
    /\ mainPc' = "terminate"
    /\ UNCHANGED <<pluginVars, configVars, plugins, started, http, slot, logWriter, callPc>>

-----------------------------------------------------------------------------
(* listen(): signal slot, logging, the HTTP port, run(), and the way out *)

ArmSignals ==
    /\ Live("start")
    /\ Len(started) = Len(plugins)
    /\ slot' = TRUE
    /\ mainPc' = "logging"
    /\ UNCHANGED <<pluginVars, configVars, plugins, started, http, logWriter, callPc>>

(* A sink that cannot be opened leaves a disabled writer installed. *)
StartLogging ==
    /\ Live("logging")
    /\ \/ destination_opens(created.config) /\ logWriter' = "writer"
       \/ destination_fails(created.config) /\ logWriter' = "disabled"
    /\ mainPc' = "bind"
    /\ UNCHANGED <<pluginVars, configVars, plugins, started, http, slot, callPc>>

(* Executor::listen fails when the port cannot be bound, or when stop() came first. *)
Bind ==
    /\ Live("bind")
    /\ \/ /\ http \in {"Idle", "Configured"}
          /\ http' = "Configured" /\ mainPc' = "run"
       \/ /\ mainPc' = "unwindBegin" /\ UNCHANGED http
    /\ UNCHANGED <<pluginVars, configVars, plugins, started, slot, logWriter, callPc>>

Run ==
    /\ Live("run")
    /\ IF http \in {"Draining", "Stopped"}
       THEN http' = "Stopped" /\ mainPc' = "flush"
       ELSE http' = "Running" /\ mainPc' = "running"
    /\ UNCHANGED <<pluginVars, configVars, plugins, started, slot, logWriter, callPc>>

RunReturns ==
    /\ Live("running")
    /\ http = "Draining"
    /\ http' = "Stopped" /\ mainPc' = "flush"
    /\ UNCHANGED <<pluginVars, configVars, plugins, started, slot, logWriter, callPc>>

(* Mutant: listen() leaves the plugins to the destructor. *)
Flush_KeepPlugins ==
    /\ Live("flush")
    /\ logWriter' = "none"
    /\ mainPc' = "stopPlugins"
    /\ UNCHANGED <<pluginVars, configVars, plugins, started, http, slot, callPc>>

(* flush(), reset_log_writer(), log_writer.reset(), then the plugins in reverse. *)
Flush ==
    /\ Live("flush")
    /\ logWriter' = "none"
    /\ StopBegin(Main, Reverse(plugins))
    /\ mainPc' = "stopPlugins"
    /\ UNCHANGED <<configVars, plugins, started, http, slot, callPc>>

Disarm ==
    /\ Live("stopPlugins")
    /\ todo[Main] = <<>>
    /\ slot' = FALSE
    /\ mainPc' = "returned"
    /\ UNCHANGED <<pluginVars, configVars, plugins, started, http, logWriter, callPc>>

-----------------------------------------------------------------------------
(* ~App(), never concurrent with stop(): plugins in order, executor, log writer. *)

Destroy ==
    /\ mainPc \in {"setup", "returned"} /\ ~crashed
    /\ \A s \in Stoppers : callPc[s] # "plugins"
    /\ StopBegin(Main, plugins)
    /\ mainPc' = "dtor"
    /\ UNCHANGED <<configVars, plugins, started, http, slot, logWriter, callPc>>

Destroyed ==
    /\ Live("dtor")
    /\ todo[Main] = <<>>
    /\ http' = "null" /\ logWriter' = "none"
    /\ mainPc' = "destroyed"
    /\ UNCHANGED <<pluginVars, configVars, plugins, started, slot, callPc>>

-----------------------------------------------------------------------------
(* App::stop() on another thread, and signals *)

StopCall(s) ==
    /\ ~crashed
    /\ mainPc \notin {"create", "refused", "setup", "dtor", "destroyed", "terminate"}
    /\ callPc[s] = "idle"
    /\ StopBegin(s, plugins)
    /\ callPc' = [callPc EXCEPT ![s] = "plugins"]
    /\ UNCHANGED <<configVars, plugins, started, http, slot, logWriter, mainPc>>

(* Mutant: App::stop() stops the plugins only. *)
StopHttp_None(s) ==
    /\ ~crashed
    /\ callPc[s] = "plugins" /\ todo[s] = <<>>
    /\ callPc' = [callPc EXCEPT ![s] = "done"]
    /\ UNCHANGED <<pluginVars, configVars, plugins, started, slot, logWriter, mainPc, http>>

StopHttp(s) ==
    /\ ~crashed
    /\ callPc[s] = "plugins" /\ todo[s] = <<>>
    /\ http' = ExecutorStop(http)
    /\ callPc' = [callPc EXCEPT ![s] = "done"]
    /\ UNCHANGED <<pluginVars, configVars, plugins, started, slot, logWriter, mainPc>>

handle_signal ==
    /\ ~crashed
    /\ mainPc \notin {"terminate", "destroyed"}
    /\ slot
    /\ http' = ExecutorStop(http)
    /\ UNCHANGED <<pluginVars, configVars, plugins, started, slot, logWriter, mainPc, callPc>>

-----------------------------------------------------------------------------
MainStep ==
    \/ StartClaim \/ StartListen \/ StartFails \/ StartRunner
    \/ Unwind \/ Terminate
    \/ ArmSignals \/ StartLogging \/ Bind \/ Run \/ RunReturns
    \/ Flush \/ Disarm \/ Destroyed

ThreadStep(t) == ~crashed /\ mainPc # "terminate" /\ StopStep(t) /\ UNCHANGED appVars
RunnerStep(p) ==
    /\ ~crashed /\ mainPc # "terminate"
    /\ RunnerRun(p) \/ RunnerExit(p)
    /\ UNCHANGED appVars

Next ==
    \/ \E p \in Plugins, m \in Methods : AddMethod(p, m)
    \/ \E p \in Plugins : AppInstall(p) \/ RunnerStep(p)
    \/ Create \/ Listen \/ MainStep \/ Destroy
    \/ \E t \in Threads : ThreadStep(t)
    \/ \E s \in Stoppers : StopCall(s) \/ StopHttp(s)
    \/ handle_signal

(* A thread that has begun a call goes on with it; nobody must call stop(). *)
Fairness ==
    /\ WF_vars(MainStep)
    /\ \A t \in Threads : WF_vars(ThreadStep(t))
    /\ \A p \in Plugins : WF_vars(RunnerStep(p))
    /\ \A s \in Stoppers : WF_vars(StopHttp(s))

Spec == Init /\ [][Next]_vars /\ Fairness

-----------------------------------------------------------------------------
AppTypeOK ==
    /\ plugins \in Seq(Plugins) /\ started \in Seq(Plugins)
    /\ http \in {"Idle", "Configured", "Running", "Draining", "Stopped", "null"}
    /\ logWriter \in {"none", "writer", "disabled"}
    /\ callPc \in [Stoppers -> {"idle", "plugins", "done"}]

TypeOK == FlagTypeOK /\ slot \in BOOLEAN /\ PluginTypeOK /\ AppTypeOK

(* Whichever way listen() ends (it returns, a plugin fails to start, the HTTP *)
(* port is taken), no plugin's runner thread is left and no plugin executor   *)
(* still listens, whatever App::stop() on another thread does meanwhile.      *)
NoWorkerLeftBehind ==
    mainPc \in {"returned", "terminate", "destroyed"} /\ ~crashed =>
        \A p \in Plugins : ~joinable(p) /\ executor[p] \in {"null", "Stopped"}

(* An App has for every key of the file the value written there, as its field *)
(* represents it, and the base's value for every other; a file with a value   *)
(* outside the documented range makes no App, and the error names the first   *)
(* such key in the order of validation.                                       *)
ConfigAsWritten ==
    LET value(k)   == file.values[k]
        written(k) == \/ value(k)[1] \in {"int", "bool"} /\ created.config[k] = value(k)[2]
                      \/ value(k)[1] = "string" /\ k \in DOMAIN Names
                           /\ created.config[k] = Names[k][value(k)[2]]
                      \/ value(k)[1] = "string" /\ k \notin DOMAIN Names
                           /\ created.config[k] = value(k)[2]
    IN  /\ mainPc \notin {"create", "refused"} =>
               \A k \in DOMAIN Defaults :
                   IF file.status = "ok" /\ k \in DOMAIN file.values
                   THEN written(k) ELSE created.config[k] = Defaults[k]
        /\ mainPc = "refused" /\ created.error = "InvalidValue" =>
               \A i \in DOMAIN Keys :
                   Keys[i] = created.key =>
                       /\ ~valid(Keys[i], value(Keys[i]))
                       /\ \A j \in 1..(i - 1) :
                              Keys[j] \in DOMAIN file.values => valid(Keys[j], value(Keys[j]))

(* HTTP connections are served only while every installed plugin has been     *)
(* started, its method map is frozen and its runner is not being started any  *)
(* more (listen() starts plugins before the HTTP executor).                   *)
PluginsBeforeHttp ==
    http = "Running" => \A p \in ToSet(plugins) : runner[p] # "none" /\ installed[p]

(* Plugins and the HTTP server live within each other's bounds, on every way    *)
(* through listen().                                                          *)
PluginLifetimes == TypeOK /\ NoWorkerLeftBehind /\ PluginsBeforeHttp

(* The method map that sessions read without a lock never changes once its    *)
(* plugin has an executor.                                                    *)
MethodsFrozen ==
    [][\A p \in Plugins : executor[p] # "null" => methods'[p] = methods[p]]_vars

(* App::stop() on thread s, before its first plugin. *)
StopBegun(s) == callPc[s] = "plugins" /\ todo[s] = plugins /\ stopPc[s] = "idle"

(* A stop() that begins while the server runs, or a signal, makes listen()    *)
(* return: the joins of the plugins' runners, the drain of the HTTP executor   *)
(* and the two threads never wait for each other (unless the process crashes   *)
(* on the double join that JoinedByOne is about).                              *)
StopEndsServer ==
    (mainPc = "running" /\ (http = "Draining" \/ \E s \in Stoppers : StopBegun(s)))
        ~> (mainPc = "returned" \/ crashed)

(* App::stop() is documented as callable from any thread and plugins' stop()  *)
(* as safe with it: no two threads ever join the same runner.                 *)
JoinedByOne == ~crashed
=============================================================================
