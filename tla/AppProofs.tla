----------------------------- MODULE AppProofs ------------------------------
(***************************************************************************)
(* TLAPS proofs about App, for any plugins, methods, callers of stop() and   *)
(* configuration files, and about the App's router and the middleware        *)
(* pipeline around it (Router), for any routes, groups, middleware, scopes   *)
(* and paths.                                                                *)
(***************************************************************************)
EXTENDS App, Router, SequenceTheorems, WellFoundedInduction, TLAPS

(* Nothing of the plugin runs. *)
Clean(p) == ~joinable(p) /\ executor[p] \in {"null", "Stopped"}

Before   == {"create", "refused", "setup"}
Complete == {"logging", "bind", "run", "running", "flush", "stopPlugins", "returned"}
Stopping == {"unwind", "stopPlugins"}
Over     == {"returned", "dtor", "terminate", "destroyed"}

(* The runner and the state of the plugin's executor agree. *)
RunnerInv ==
    \A p \in Plugins :
        /\ runner[p] = "none" => executor[p] \in {"null", "Configured", "Stopped"}
        /\ runner[p] = "started" => executor[p] \in {"Configured", "Stopped"}
        /\ runner[p] = "running" => executor[p] \in {"Running", "Draining"}
        /\ runner[p] \in {"exited", "joined"} => executor[p] = "Stopped"

(* The plugins are installed and listed once; the started ones come first.   *)
ListInv ==
    /\ \A i, j \in 1..Len(plugins) : plugins[i] = plugins[j] => i = j
    /\ \A i \in 1..Len(plugins) : installed[plugins[i]]
    /\ Len(started) <= Len(plugins)
    /\ \A i \in 1..Len(started) : started[i] = plugins[i]
    /\ mainPc \in Before => started = <<>>
    /\ mainPc \in {"startListen", "startRunner"} => Len(started) < Len(plugins)
    /\ mainPc \in Complete => Len(started) = Len(plugins)

(* A plugin has a runner once listen() has started it, and an executor from   *)
(* the step before.                                                           *)
StartInv ==
    /\ \A p \in Plugins :
           p \in ToSet(started) \/ /\ runner[p] = "none"
                                   /\ \/ executor[p] = "null"
                                      \/ mainPc = "startRunner" /\ p = Starting
    /\ \A p \in ToSet(started) : runner[p] # "none"
    /\ mainPc = "startRunner" => executor[Starting] # "null"

(* A thread with no plugin left to stop is not inside a stop(), and only the  *)
(* calls that stop plugins give it some.                                      *)
TodoInv ==
    /\ \A t \in Threads : todo[t] = <<>> => stopPc[t] = "idle"
    /\ mainPc \notin Stopping \cup {"dtor"} => todo[Main] = <<>>
    /\ \A s \in Stoppers : callPc[s] # "plugins" => todo[s] = <<>>

(* What the main thread has stopped stays stopped, whatever other threads do. *)
CleanInv ==
    /\ mainPc \in Stopping =>
           /\ \A p \in Plugins : Clean(p) \/ p \in ToSet(todo[Main])
           /\ stopPc[Main] \in {"joinable", "join"} =>
                  executor[Head(todo[Main])] \in {"null", "Draining", "Stopped"}
           /\ stopPc[Main] = "clear" => Clean(Head(todo[Main]))
    /\ mainPc \in Over => \A p \in Plugins : Clean(p)

(* The HTTP executor runs inside listen(). *)
HttpInv == http = "Running" => mainPc = "running"

(* What create() read is what the App has. *)
ConfigInv ==
    /\ file \in Files
    /\ mainPc # "create" => created = create(file, Defaults)
    /\ mainPc \notin {"create", "refused"} => created.error = "none"
    /\ mainPc = "refused" => created.error # "none"

(* The inductive invariant. *)
IInv ==
    /\ TypeOK
    /\ RunnerInv
    /\ ListInv
    /\ StartInv
    /\ TodoInv
    /\ CleanInv
    /\ HttpInv
    /\ ConfigInv

USE DEF pluginVars, configVars, appVars

-----------------------------------------------------------------------------
(* ToSet by index. *)
LEMMA InToSet ==
    ASSUME NEW q \in Seq(Plugins)
    PROVE  \A p : p \in ToSet(q) <=> \E i \in 1..Len(q) : q[i] = p
  <1>1. DOMAIN q = 1..Len(q)
    OBVIOUS
  <1> QED
    BY <1>1, Zenon DEF ToSet

(* The empty list. *)
LEMMA EmptyList == <<>> \in Seq(Plugins) /\ Len(<<>>) = 0 /\ ToSet(<<>>) = {}
  <1>1. <<>> \in Seq(Plugins) /\ Len(<<>>) = 0
    OBVIOUS
  <1>2. ~\E i \in 1..Len(<<>>) : TRUE
    BY <1>1
  <1>3. ASSUME NEW p PROVE p \notin ToSet(<<>>)
    BY <1>1, <1>2, InToSet
  <1> QED
    BY <1>1, <1>3

(* Reverse keeps the elements. *)
LEMMA ReverseElements ==
    ASSUME NEW q \in Seq(Plugins)
    PROVE  Reverse(q) \in Seq(Plugins) /\ ToSet(Reverse(q)) = ToSet(q)
  <1>1. Reverse(q) \in Seq(Plugins) /\ Len(Reverse(q)) = Len(q)
    BY DEF Reverse
  <1>2. ASSUME NEW i \in 1..Len(q)
        PROVE  /\ Len(q) - i + 1 \in 1..Len(q)
               /\ Reverse(q)[i] = q[Len(q) - i + 1]
               /\ Reverse(q)[Len(q) - i + 1] = q[i]
    BY DEF Reverse
  <1>3. ASSUME NEW p
        PROVE  p \in ToSet(Reverse(q)) <=> p \in ToSet(q)
    <2>1. ASSUME NEW i \in 1..Len(q), Reverse(q)[i] = p PROVE p \in ToSet(q)
      BY <1>2, <2>1, InToSet
    <2>2. ASSUME NEW i \in 1..Len(q), q[i] = p PROVE p \in ToSet(Reverse(q))
      <3>1. Len(q) - i + 1 \in 1..Len(Reverse(q)) /\ Reverse(q)[Len(q) - i + 1] = p
        BY <1>1, <1>2, <2>2
      <3> QED
        BY <1>1, <3>1, InToSet
    <2>3. p \in ToSet(Reverse(q)) => \E i \in 1..Len(q) : Reverse(q)[i] = p
      BY <1>1, InToSet
    <2>4. p \in ToSet(q) => \E i \in 1..Len(q) : q[i] = p
      BY InToSet
    <2> QED
      BY <2>1, <2>2, <2>3, <2>4
  <1> QED
    BY <1>1, <1>3

(* Tail takes away the head only. *)
LEMMA TailElements ==
    ASSUME NEW q \in Seq(Plugins), q # <<>>
    PROVE  /\ Tail(q) \in Seq(Plugins) /\ Head(q) \in Plugins
           /\ \A p \in ToSet(q) : p = Head(q) \/ p \in ToSet(Tail(q))
  <1>1. /\ Tail(q) \in Seq(Plugins) /\ Len(Tail(q)) = Len(q) - 1
        /\ Head(q) = q[1] /\ Len(q) >= 1
        /\ \A i \in 1..Len(Tail(q)) : Tail(q)[i] = q[i + 1]
    OBVIOUS
  <1>2. ASSUME NEW p \in ToSet(q), p # Head(q)
        PROVE  p \in ToSet(Tail(q))
    <2>1. PICK i \in 1..Len(q) : q[i] = p
      BY InToSet
    <2>2. i - 1 \in 1..Len(Tail(q)) /\ Tail(q)[i - 1] = p
      BY <1>1, <1>2, <2>1
    <2> QED
      BY <1>1, <2>2, InToSet
  <1> QED
    BY <1>1, <1>2

(* Append adds its element only. *)
LEMMA AppendElements ==
    ASSUME NEW q \in Seq(Plugins), NEW p \in Plugins
    PROVE  /\ Append(q, p) \in Seq(Plugins) /\ Len(Append(q, p)) = Len(q) + 1
           /\ \A i \in 1..Len(q) : Append(q, p)[i] = q[i]
           /\ Append(q, p)[Len(q) + 1] = p
           /\ ToSet(Append(q, p)) = ToSet(q) \cup {p}
  <1>1. /\ Append(q, p) \in Seq(Plugins) /\ Len(Append(q, p)) = Len(q) + 1
        /\ \A i \in 1..Len(q) : Append(q, p)[i] = q[i]
        /\ Append(q, p)[Len(q) + 1] = p
    OBVIOUS
  <1>2. \A r \in ToSet(Append(q, p)) : r \in ToSet(q) \/ r = p
    <2> SUFFICES ASSUME NEW r \in ToSet(Append(q, p)), r # p
                 PROVE  r \in ToSet(q)
      OBVIOUS
    <2>1. \E i \in 1..Len(Append(q, p)) : Append(q, p)[i] = r
      BY <1>1, InToSet
    <2>2. PICK i \in 1..(Len(q) + 1) : Append(q, p)[i] = r
      BY <1>1, <2>1
    <2>3. i \in 1..Len(q) /\ q[i] = r
      BY <1>1, <2>2
    <2> QED
      BY <2>3, InToSet
  <1>3. \A r \in ToSet(q) : r \in ToSet(Append(q, p))
    <2> SUFFICES ASSUME NEW r \in ToSet(q)
                 PROVE  r \in ToSet(Append(q, p))
      OBVIOUS
    <2>1. PICK i \in 1..Len(q) : q[i] = r
      BY InToSet
    <2>2. i \in 1..Len(Append(q, p)) /\ Append(q, p)[i] = r
      BY <1>1, <2>1
    <2> QED
      BY <1>1, <2>2, InToSet
  <1>4. p \in ToSet(Append(q, p))
    <2>1. Len(q) + 1 \in 1..Len(Append(q, p))
      BY <1>1
    <2> QED
      BY <1>1, <2>1, InToSet
  <1> QED
    BY <1>1, <1>2, <1>3, <1>4

(* The plugin listen() starts next is one that has not been started. *)
LEMMA StartingIsNew ==
    ASSUME TypeOK, ListInv, Len(started) < Len(plugins)
    PROVE  Starting \in Plugins /\ Starting \notin ToSet(started)
  <1> USE DEF TypeOK, AppTypeOK, ListInv, Starting
  <1>1. Len(started) + 1 \in 1..Len(plugins)
    OBVIOUS
  <1>2. ASSUME NEW i \in 1..Len(started), started[i] = plugins[Len(started) + 1]
        PROVE  FALSE
    BY <1>1, <1>2
  <1>3. started \in Seq(Plugins)
    OBVIOUS
  <1>4. plugins[Len(started) + 1] \in Plugins
    BY <1>1
  <1> QED
    BY <1>2, <1>3, <1>4, InToSet

(* Once all are started, the two lists have the same plugins. *)
LEMMA AllStarted ==
    ASSUME TypeOK, ListInv, Len(started) = Len(plugins)
    PROVE  ToSet(started) = ToSet(plugins)
  <1>1. started \in Seq(Plugins) /\ plugins \in Seq(Plugins)
    BY DEF TypeOK, AppTypeOK
  <1>2. \A i \in 1..Len(plugins) : started[i] = plugins[i]
    BY DEF ListInv
  <1>3. ASSUME NEW p PROVE p \in ToSet(started) <=> p \in ToSet(plugins)
    BY <1>1, <1>2, InToSet
  <1> QED
    BY <1>3

(* A thread inside stop() has a plugin in hand. *)
LEMMA HeadIsPlugin ==
    ASSUME IInv, NEW t \in Threads, stopPc[t] # "idle" \/ todo[t] # <<>>
    PROVE  /\ todo[t] # <<>> /\ Head(todo[t]) \in Plugins
           /\ Tail(todo[t]) \in Seq(Plugins)
  BY TailElements DEF IInv, TypeOK, PluginTypeOK, TodoInv

(* The initial state satisfies the inductive invariant. *)
LEMMA InitInv == Init => IInv
  <1> SUFFICES ASSUME Init PROVE IInv
    OBVIOUS
  <1> USE AppAssumption DEF Init, PluginInit
  <1>1. FlagTypeOK /\ slot \in BOOLEAN
    BY DEF FlagTypeOK
  <1>2. PluginTypeOK /\ AppTypeOK
    BY EmptyList DEF PluginTypeOK, AppTypeOK
  <1>3. RunnerInv /\ HttpInv
    BY DEF RunnerInv, HttpInv
  <1>4. ListInv
    <2>1. plugins = <<>> /\ started = <<>> /\ mainPc = "create"
      OBVIOUS
    <2>2. Len(plugins) = 0 /\ Len(started) = 0
      BY <2>1, Zenon, EmptyList
    <2> HIDE DEF Init
    <2>3. \A i \in 1..0 : FALSE
      OBVIOUS
    <2> QED
      BY <2>1, <2>2, <2>3 DEF ListInv, Before, Complete
  <1>5. StartInv
    BY EmptyList DEF StartInv
  <1>6. TodoInv
    BY DEF TodoInv
  <1>7. CleanInv
    BY DEF CleanInv, Stopping, Over
  <1>8. ConfigInv
    BY DEF ConfigInv
  <1> QED
    BY <1>1, <1>2, <1>3, <1>4, <1>5, <1>6, <1>7, <1>8 DEF IInv, TypeOK

(* The types of the flags. *)
LEMMA FlagTypeStep ==
    ASSUME IInv, [Next]_vars
    PROVE  (FlagTypeOK /\ slot \in BOOLEAN)'
  <1> USE AppAssumption DEF IInv, TypeOK, FlagTypeOK
  <1>1. ASSUME NEW p \in Plugins, NEW m \in Methods, AddMethod(p, m)
        PROVE  (FlagTypeOK /\ slot \in BOOLEAN)'
    BY <1>1 DEF AddMethod, add_unary_method
  <1>2. ASSUME NEW p \in Plugins, AppInstall(p)
        PROVE  (FlagTypeOK /\ slot \in BOOLEAN)'
    BY <1>2 DEF AppInstall, install, install_result, Live
  <1>3. ASSUME NEW p \in Plugins, RunnerStep(p)
        PROVE  (FlagTypeOK /\ slot \in BOOLEAN)'
    BY <1>3 DEF RunnerStep, RunnerRun, RunnerExit
  <1>4. CASE Create \/ Listen
    BY <1>4 DEF Create, Listen, Live
  <1>5. CASE Destroy
    BY <1>5 DEF Destroy, StopBegin
  <1>6. CASE StartClaim
    BY <1>6 DEF StartClaim, start_claim, Live
  <1>7. CASE StartListen
    BY <1>7 DEF StartListen, start_listen, Live
  <1>8. CASE StartFails
    BY <1>8 DEF StartFails, start_listen_failed, Live
  <1>9. CASE StartRunner
    BY <1>9 DEF StartRunner, start_runner, Live
  <1>10. CASE Unwind
    BY <1>10 DEF Unwind, StopBegin, Live
  <1>11. CASE Flush
    BY <1>11 DEF Flush, StopBegin, Live
  <1>12. CASE Terminate \/ ArmSignals \/ Disarm \/ Destroyed
    BY <1>12 DEF Terminate, ArmSignals, Disarm, Destroyed, Live
  <1>13. CASE StartLogging \/ Bind \/ Run \/ RunReturns
    BY <1>13 DEF StartLogging, Bind, Run, RunReturns, Live
  <1>14. ASSUME NEW t \in Threads, ThreadStep(t) /\ (stop_executor(t) \/ stop_joinable(t))
        PROVE  (FlagTypeOK /\ slot \in BOOLEAN)'
    BY <1>14 DEF ThreadStep, stop_executor, stop_joinable, ExecutorStop
  <1>15. ASSUME NEW t \in Threads, ThreadStep(t) /\ (stop_join(t) \/ stop_clear(t))
        PROVE  (FlagTypeOK /\ slot \in BOOLEAN)'
    BY <1>15 DEF ThreadStep, stop_join, stop_clear
  <1>16. ASSUME NEW s \in Stoppers, StopCall(s)
        PROVE  (FlagTypeOK /\ slot \in BOOLEAN)'
    BY <1>16 DEF StopCall, StopBegin
  <1>17. ASSUME NEW s \in Stoppers, StopHttp(s)
        PROVE  (FlagTypeOK /\ slot \in BOOLEAN)'
    BY <1>17 DEF StopHttp, ExecutorStop
  <1>18. CASE handle_signal
    BY <1>18 DEF handle_signal, ExecutorStop
  <1>19. CASE UNCHANGED vars
    BY <1>19 DEF vars
  <1> QED
    BY <1>1, <1>2, <1>3, <1>4, <1>5, <1>6, <1>7, <1>8, <1>9, <1>10, <1>11, <1>12, <1>13, <1>14, <1>15, <1>16, <1>17, <1>18, <1>19
       DEF Next, MainStep, ThreadStep, StopStep

(* The types of everything else. *)
LEMMA TypeStep ==
    ASSUME IInv, [Next]_vars
    PROVE  (PluginTypeOK /\ AppTypeOK)'
  <1> USE AppAssumption DEF IInv, TypeOK, PluginTypeOK, AppTypeOK
  <1>1. ASSUME NEW p \in Plugins, NEW m \in Methods, AddMethod(p, m)
        PROVE  (PluginTypeOK /\ AppTypeOK)'
    BY <1>1 DEF AddMethod, add_unary_method
  <1>2. ASSUME NEW p \in Plugins, AppInstall(p)
        PROVE  (PluginTypeOK /\ AppTypeOK)'
    BY <1>2 DEF AppInstall, install, install_result, Live
  <1>3. ASSUME NEW p \in Plugins, RunnerStep(p)
        PROVE  (PluginTypeOK /\ AppTypeOK)'
    BY <1>3 DEF RunnerStep, RunnerRun, RunnerExit
  <1>4. CASE Create \/ Listen
    BY <1>4 DEF Create, Listen, Live
  <1>5. CASE Destroy
    BY <1>5 DEF Destroy, StopBegin
  <1>6. CASE StartClaim
    BY <1>6 DEF StartClaim, start_claim, Live
  <1>7. CASE StartListen
    BY <1>7 DEF StartListen, start_listen, Live
  <1>8. CASE StartFails
    BY <1>8 DEF StartFails, start_listen_failed, Live
  <1>9. CASE StartRunner
    BY <1>9, StartingIsNew, AppendElements DEF StartRunner, start_runner, Live, ListInv
  <1>10. CASE Unwind
    BY <1>10, ReverseElements DEF Unwind, StopBegin, Live
  <1>11. CASE Flush
    BY <1>11, ReverseElements DEF Flush, StopBegin, Live
  <1>12. CASE Terminate \/ ArmSignals \/ Disarm \/ Destroyed
    BY <1>12 DEF Terminate, ArmSignals, Disarm, Destroyed, Live
  <1>13. CASE StartLogging \/ Bind \/ Run \/ RunReturns
    BY <1>13 DEF StartLogging, Bind, Run, RunReturns, Live
  <1>14. ASSUME NEW t \in Threads, ThreadStep(t) /\ (stop_executor(t) \/ stop_joinable(t))
        PROVE  (PluginTypeOK /\ AppTypeOK)'
    <2>1. CASE stop_executor(t)
      <3>1. Head(todo[t]) \in Plugins
        BY <2>1, TailElements DEF stop_executor
      <3>2. ExecutorStop(executor[Head(todo[t])]) \in
                {"null", "Configured", "Running", "Draining", "Stopped"}
        BY <3>1 DEF ExecutorStop
      <3> QED
        BY <1>14, <2>1, <3>1, <3>2 DEF ThreadStep, stop_executor
    <2>2. CASE stop_joinable(t)
      BY <1>14, <2>2 DEF ThreadStep, stop_joinable
    <2> QED
      BY <1>14, <2>1, <2>2
  <1>15. ASSUME NEW t \in Threads, ThreadStep(t) /\ (stop_join(t) \/ stop_clear(t))
        PROVE  (PluginTypeOK /\ AppTypeOK)'
    <2>1. todo[t] # <<>>
      BY <1>15 DEF TodoInv, stop_join, stop_clear
    <2>2. Head(todo[t]) \in Plugins /\ Tail(todo[t]) \in Seq(Plugins)
      BY <2>1, TailElements
    <2>3. CASE stop_join(t)
      BY <1>15, <2>2, <2>3 DEF ThreadStep, stop_join
    <2>4. CASE stop_clear(t)
      BY <1>15, <2>2, <2>4 DEF ThreadStep, stop_clear
    <2> QED
      BY <1>15, <2>3, <2>4
  <1>16. ASSUME NEW s \in Stoppers, StopCall(s)
        PROVE  (PluginTypeOK /\ AppTypeOK)'
    BY <1>16 DEF StopCall, StopBegin
  <1>17. ASSUME NEW s \in Stoppers, StopHttp(s)
        PROVE  (PluginTypeOK /\ AppTypeOK)'
    BY <1>17 DEF StopHttp, ExecutorStop
  <1>18. CASE handle_signal
    BY <1>18 DEF handle_signal, ExecutorStop
  <1>19. CASE UNCHANGED vars
    BY <1>19 DEF vars
  <1> QED
    BY <1>1, <1>2, <1>3, <1>4, <1>5, <1>6, <1>7, <1>8, <1>9, <1>10, <1>11, <1>12, <1>13, <1>14, <1>15, <1>16, <1>17, <1>18, <1>19
       DEF Next, MainStep, ThreadStep, StopStep

(* Runner and executor agree. *)
LEMMA RunnerStepInv ==
    ASSUME IInv, [Next]_vars
    PROVE  RunnerInv'
  <1> USE AppAssumption DEF IInv, TypeOK, PluginTypeOK, AppTypeOK, RunnerInv
  <1>1. ASSUME NEW p \in Plugins, NEW m \in Methods, AddMethod(p, m)
        PROVE  RunnerInv'
    BY <1>1 DEF AddMethod, add_unary_method, ListInv, StartInv, Starting
  <1>2. ASSUME NEW p \in Plugins, AppInstall(p)
        PROVE  RunnerInv'
    BY <1>2 DEF AppInstall, install, install_result, Live, ListInv, StartInv, Starting
  <1>3. ASSUME NEW p \in Plugins, RunnerStep(p)
        PROVE  RunnerInv'
    BY <1>3 DEF RunnerStep, RunnerRun, RunnerExit, ListInv, StartInv, Starting
  <1>4. CASE Create \/ Listen
    BY <1>4 DEF Create, Listen, Live, ListInv, StartInv, Starting
  <1>5. CASE Destroy
    BY <1>5 DEF Destroy, StopBegin, ListInv, StartInv, Starting
  <1>6. CASE StartClaim
    BY <1>6 DEF StartClaim, start_claim, Live, ListInv, StartInv, Starting
  <1>7. CASE StartListen
    BY <1>7, StartingIsNew DEF StartListen, start_listen, Live, ListInv, StartInv
  <1>8. CASE StartFails
    BY <1>8, StartingIsNew DEF StartFails, start_listen_failed, Live, ListInv, StartInv
  <1>9. CASE StartRunner
    BY <1>9, StartingIsNew DEF StartRunner, start_runner, Live, ListInv, StartInv
  <1>10. CASE Unwind
    BY <1>10 DEF Unwind, StopBegin, Live, ListInv, StartInv, Starting
  <1>11. CASE Flush
    BY <1>11 DEF Flush, StopBegin, Live, ListInv, StartInv, Starting
  <1>12. CASE Terminate \/ ArmSignals \/ Disarm \/ Destroyed
    BY <1>12 DEF Terminate, ArmSignals, Disarm, Destroyed, Live, ListInv, StartInv, Starting
  <1>13. CASE StartLogging \/ Bind \/ Run \/ RunReturns
    BY <1>13 DEF StartLogging, Bind, Run, RunReturns, Live, ListInv, StartInv, Starting
  <1>14. ASSUME NEW t \in Threads, ThreadStep(t) /\ (stop_executor(t) \/ stop_joinable(t))
        PROVE  RunnerInv'
    BY <1>14 DEF ThreadStep, stop_executor, stop_joinable, ExecutorStop, ListInv, StartInv, Starting
  <1>15. ASSUME NEW t \in Threads, ThreadStep(t) /\ (stop_join(t) \/ stop_clear(t))
        PROVE  RunnerInv'
    BY <1>15 DEF ThreadStep, stop_join, stop_clear, ListInv, StartInv, Starting
  <1>16. ASSUME NEW s \in Stoppers, StopCall(s)
        PROVE  RunnerInv'
    BY <1>16 DEF StopCall, StopBegin, ListInv, StartInv, Starting
  <1>17. ASSUME NEW s \in Stoppers, StopHttp(s)
        PROVE  RunnerInv'
    BY <1>17 DEF StopHttp, ExecutorStop, ListInv, StartInv, Starting
  <1>18. CASE handle_signal
    BY <1>18 DEF handle_signal, ExecutorStop, ListInv, StartInv, Starting
  <1>19. CASE UNCHANGED vars
    BY <1>19 DEF vars, ListInv, StartInv, Starting
  <1> QED
    BY <1>1, <1>2, <1>3, <1>4, <1>5, <1>6, <1>7, <1>8, <1>9, <1>10, <1>11, <1>12, <1>13, <1>14, <1>15, <1>16, <1>17, <1>18, <1>19
       DEF Next, MainStep, ThreadStep, StopStep

(* The lists of plugins. *)
LEMMA ListStep ==
    ASSUME IInv, [Next]_vars
    PROVE  ListInv'
  <1> USE AppAssumption DEF IInv, TypeOK, PluginTypeOK, AppTypeOK, ListInv
  <1>1. ASSUME NEW p \in Plugins, NEW m \in Methods, AddMethod(p, m)
        PROVE  ListInv'
    BY <1>1 DEF AddMethod, add_unary_method, Starting, Before, Complete
  <1>2. ASSUME NEW p \in Plugins, AppInstall(p)
        PROVE  ListInv'
    <2>1. CASE plugins' = Append(plugins, p) /\ installed'[p]
      <3>1. \A i \in 1..Len(plugins) : plugins[i] # p
        BY <1>2, InToSet DEF AppInstall
      <3>2. /\ Len(plugins') = Len(plugins) + 1 /\ plugins'[Len(plugins) + 1] = p
            /\ \A i \in 1..Len(plugins) : plugins'[i] = plugins[i]
        BY <2>1, AppendElements
      <3>3. \A i \in 1..Len(plugins) : installed'[plugins[i]]
        BY <1>2 DEF AppInstall, install, FlagTypeOK
      <3> QED
        <4>1. Len(started) = 0 /\ started' = started /\ mainPc' = "setup" /\ started = <<>>
          BY <1>2, EmptyList DEF AppInstall, Live, Before
        <4>2. ASSUME NEW i \in 1..(Len(plugins) + 1), NEW j \in 1..(Len(plugins) + 1),
                     plugins'[i] = plugins'[j]
              PROVE  i = j
          <5> DEFINE n == Len(plugins)
          <5>1. n \in Nat
            OBVIOUS
          <5>2. i \in 1..n \/ i = n + 1
            BY <5>1
          <5>3. j \in 1..n \/ j = n + 1
            BY <5>1
          <5> HIDE DEF n
          <5>4. \A a, b \in 1..n : plugins[a] = plugins[b] => a = b
            BY DEF n
          <5>5. /\ \A a \in 1..n : plugins[a] # p /\ plugins'[a] = plugins[a]
                /\ plugins'[n + 1] = p
            BY <3>1, <3>2 DEF n
          <5> QED
            BY <4>2, <5>2, <5>3, <5>4, <5>5
        <4>3. ASSUME NEW i \in 1..(Len(plugins) + 1) PROVE installed'[plugins'[i]]
          BY <2>1, <3>2, <3>3
        <4> QED
          BY <3>2, <4>1, <4>2, <4>3 DEF Before, Complete
    <2>2. CASE plugins' = plugins
      <3>1. \A i \in 1..Len(plugins) : installed'[plugins[i]]
        BY <1>2 DEF AppInstall, install, FlagTypeOK
      <3> QED
        BY <1>2, <2>2, <3>1 DEF AppInstall, Live, Before, Complete
    <2>3. install_result(p) = "ok" => installed'[p]
      BY <1>2 DEF AppInstall, install, install_result, FlagTypeOK
    <2> QED
      BY <1>2, <2>1, <2>2, <2>3 DEF AppInstall
  <1>3. ASSUME NEW p \in Plugins, RunnerStep(p)
        PROVE  ListInv'
    BY <1>3 DEF RunnerStep, RunnerRun, RunnerExit, Starting, Before, Complete
  <1>4. CASE Create \/ Listen
    BY <1>4 DEF Create, Listen, Live, Starting, Before, Complete
  <1>5. CASE Destroy
    BY <1>5 DEF Destroy, StopBegin, Starting, Before, Complete
  <1>6. CASE StartClaim
    BY <1>6 DEF StartClaim, start_claim, Live, Starting, Before, Complete
  <1>7. CASE StartListen
    BY <1>7 DEF StartListen, start_listen, Live, Starting, Before, Complete
  <1>8. CASE StartFails
    BY <1>8 DEF StartFails, start_listen_failed, Live, Starting, Before, Complete
  <1>9. CASE StartRunner
    BY <1>9 DEF StartRunner, start_runner, Live, Starting, Before, Complete
  <1>10. CASE Unwind
    BY <1>10 DEF Unwind, StopBegin, Live, Starting, Before, Complete
  <1>11. CASE Flush
    BY <1>11 DEF Flush, StopBegin, Live, Starting, Before, Complete
  <1>12. CASE Terminate \/ ArmSignals \/ Disarm \/ Destroyed
    BY <1>12 DEF Terminate, ArmSignals, Disarm, Destroyed, Live, Starting, Before, Complete
  <1>13. CASE StartLogging \/ Bind \/ Run \/ RunReturns
    BY <1>13 DEF StartLogging, Bind, Run, RunReturns, Live, Starting, Before, Complete
  <1>14. ASSUME NEW t \in Threads, ThreadStep(t) /\ (stop_executor(t) \/ stop_joinable(t))
        PROVE  ListInv'
    BY <1>14 DEF ThreadStep, stop_executor, stop_joinable, ExecutorStop, Starting, Before, Complete
  <1>15. ASSUME NEW t \in Threads, ThreadStep(t) /\ (stop_join(t) \/ stop_clear(t))
        PROVE  ListInv'
    BY <1>15 DEF ThreadStep, stop_join, stop_clear, Starting, Before, Complete
  <1>16. ASSUME NEW s \in Stoppers, StopCall(s)
        PROVE  ListInv'
    BY <1>16 DEF StopCall, StopBegin, Starting, Before, Complete
  <1>17. ASSUME NEW s \in Stoppers, StopHttp(s)
        PROVE  ListInv'
    BY <1>17 DEF StopHttp, ExecutorStop, Starting, Before, Complete
  <1>18. CASE handle_signal
    BY <1>18 DEF handle_signal, ExecutorStop, Starting, Before, Complete
  <1>19. CASE UNCHANGED vars
    BY <1>19 DEF vars, Starting, Before, Complete
  <1> QED
    BY <1>1, <1>2, <1>3, <1>4, <1>5, <1>6, <1>7, <1>8, <1>9, <1>10, <1>11, <1>12, <1>13, <1>14, <1>15, <1>16, <1>17, <1>18, <1>19
       DEF Next, MainStep, ThreadStep, StopStep

(* Only listen() starts plugins. *)
LEMMA StartStep ==
    ASSUME IInv, [Next]_vars
    PROVE  StartInv'
  <1> USE AppAssumption DEF IInv, TypeOK, PluginTypeOK, AppTypeOK, ListInv, StartInv
  <1>1. ASSUME NEW p \in Plugins, NEW m \in Methods, AddMethod(p, m)
        PROVE  StartInv'
    BY <1>1 DEF AddMethod, add_unary_method, Starting, Before, Complete
  <1>2. ASSUME NEW p \in Plugins, AppInstall(p)
        PROVE  StartInv'
    BY <1>2 DEF AppInstall, install, install_result, Live, Starting, Before, Complete
  <1>3. ASSUME NEW p \in Plugins, RunnerStep(p)
        PROVE  StartInv'
    <2>1. runner[p] # "none"
      BY <1>3 DEF RunnerStep, RunnerRun, RunnerExit
    <2>2. p \in ToSet(started)
      BY <2>1
    <2>3. mainPc = "startRunner" => Starting \notin ToSet(started) /\ Starting \in Plugins
      BY StartingIsNew
    <2>4. /\ runner'[p] # "none"
          /\ \A r \in Plugins : r # p => runner'[r] = runner[r] /\ executor'[r] = executor[r]
      BY <1>3 DEF RunnerStep, RunnerRun, RunnerExit
    <2>5. UNCHANGED <<plugins, started, mainPc>> /\ Starting' = Starting
      BY <1>3 DEF RunnerStep, Starting
    <2>6. ToSet(started) \subseteq Plugins /\ ToSet(started)' = ToSet(started)
      BY <2>5, InToSet
    <2> HIDE DEF ListInv
    <2> QED
      BY <2>2, <2>3, <2>4, <2>5, <2>6
  <1>4. CASE Create \/ Listen
    BY <1>4 DEF Create, Listen, Live, Starting, Before, Complete
  <1>5. CASE Destroy
    BY <1>5 DEF Destroy, StopBegin, Starting, Before, Complete
  <1>6. CASE StartClaim
    BY <1>6 DEF StartClaim, start_claim, Live, Starting, Before, Complete
  <1>7. CASE StartListen
    BY <1>7 DEF StartListen, start_listen, Live, Starting, Before, Complete
  <1>8. CASE StartFails
    BY <1>8 DEF StartFails, start_listen_failed, Live, Starting, Before, Complete
  <1>9. CASE StartRunner
    <2>1. Starting \in Plugins /\ ToSet(started') = ToSet(started) \cup {Starting}
      BY <1>9, StartingIsNew, AppendElements DEF StartRunner, Live
    <2> QED
      BY <1>9, <2>1 DEF StartRunner, start_runner, Live
  <1>10. CASE Unwind
    BY <1>10 DEF Unwind, StopBegin, Live, Starting, Before, Complete
  <1>11. CASE Flush
    BY <1>11 DEF Flush, StopBegin, Live, Starting, Before, Complete
  <1>12. CASE Terminate \/ ArmSignals \/ Disarm \/ Destroyed
    BY <1>12 DEF Terminate, ArmSignals, Disarm, Destroyed, Live, Starting, Before, Complete
  <1>13. CASE StartLogging \/ Bind \/ Run \/ RunReturns
    BY <1>13 DEF StartLogging, Bind, Run, RunReturns, Live, Starting, Before, Complete
  <1>14. ASSUME NEW t \in Threads, ThreadStep(t) /\ (stop_executor(t) \/ stop_joinable(t))
        PROVE  StartInv'
    BY <1>14 DEF ThreadStep, stop_executor, stop_joinable, ExecutorStop, Starting, Before, Complete
  <1>15. ASSUME NEW t \in Threads, ThreadStep(t) /\ (stop_join(t) \/ stop_clear(t))
        PROVE  StartInv'
    <2>1. Head(todo[t]) \in Plugins
      BY <1>15, HeadIsPlugin DEF stop_join, stop_clear
    <2>2. /\ executor' = executor
          /\ \A p \in Plugins : runner'[p] = "none" <=> runner[p] = "none"
      BY <1>15, <2>1 DEF stop_join, stop_clear
    <2>3. UNCHANGED <<plugins, started, mainPc>> /\ Starting' = Starting
      BY <1>15 DEF ThreadStep, Starting
    <2>4. ToSet(started) \subseteq Plugins /\ ToSet(started)' = ToSet(started)
      BY <2>3, InToSet
    <2> HIDE DEF ListInv
    <2> QED
      BY <2>2, <2>3, <2>4
  <1>16. ASSUME NEW s \in Stoppers, StopCall(s)
        PROVE  StartInv'
    BY <1>16 DEF StopCall, StopBegin, Starting, Before, Complete
  <1>17. ASSUME NEW s \in Stoppers, StopHttp(s)
        PROVE  StartInv'
    BY <1>17 DEF StopHttp, ExecutorStop, Starting, Before, Complete
  <1>18. CASE handle_signal
    BY <1>18 DEF handle_signal, ExecutorStop, Starting, Before, Complete
  <1>19. CASE UNCHANGED vars
    BY <1>19 DEF vars, Starting, Before, Complete
  <1> QED
    BY <1>1, <1>2, <1>3, <1>4, <1>5, <1>6, <1>7, <1>8, <1>9, <1>10, <1>11, <1>12, <1>13, <1>14, <1>15, <1>16, <1>17, <1>18, <1>19
       DEF Next, MainStep, ThreadStep, StopStep

(* Who stops plugins. *)
LEMMA TodoStep ==
    ASSUME IInv, [Next]_vars
    PROVE  TodoInv'
  <1> USE AppAssumption DEF IInv, TypeOK, PluginTypeOK, AppTypeOK, TodoInv
  <1>1. ASSUME NEW p \in Plugins, NEW m \in Methods, AddMethod(p, m)
        PROVE  TodoInv'
    BY <1>1 DEF AddMethod, add_unary_method, Stopping
  <1>2. ASSUME NEW p \in Plugins, AppInstall(p)
        PROVE  TodoInv'
    BY <1>2 DEF AppInstall, install, install_result, Live, Stopping
  <1>3. ASSUME NEW p \in Plugins, RunnerStep(p)
        PROVE  TodoInv'
    BY <1>3 DEF RunnerStep, RunnerRun, RunnerExit, Stopping
  <1>4. CASE Create \/ Listen
    BY <1>4 DEF Create, Listen, Live, Stopping
  <1>5. CASE Destroy
    BY <1>5 DEF Destroy, StopBegin, Stopping
  <1>6. CASE StartClaim
    BY <1>6 DEF StartClaim, start_claim, Live, Stopping
  <1>7. CASE StartListen
    BY <1>7 DEF StartListen, start_listen, Live, Stopping
  <1>8. CASE StartFails
    BY <1>8 DEF StartFails, start_listen_failed, Live, Stopping
  <1>9. CASE StartRunner
    BY <1>9 DEF StartRunner, start_runner, Live, Stopping
  <1>10. CASE Unwind
    BY <1>10 DEF Unwind, StopBegin, Live, Stopping
  <1>11. CASE Flush
    BY <1>11 DEF Flush, StopBegin, Live, Stopping
  <1>12. CASE Terminate \/ ArmSignals \/ Disarm \/ Destroyed
    BY <1>12 DEF Terminate, ArmSignals, Disarm, Destroyed, Live, Stopping
  <1>13. CASE StartLogging \/ Bind \/ Run \/ RunReturns
    BY <1>13 DEF StartLogging, Bind, Run, RunReturns, Live, Stopping
  <1>14. ASSUME NEW t \in Threads, ThreadStep(t) /\ (stop_executor(t) \/ stop_joinable(t))
        PROVE  TodoInv'
    BY <1>14 DEF ThreadStep, stop_executor, stop_joinable, ExecutorStop, Stopping
  <1>15. ASSUME NEW t \in Threads, ThreadStep(t) /\ (stop_join(t) \/ stop_clear(t))
        PROVE  TodoInv'
    BY <1>15 DEF ThreadStep, stop_join, stop_clear, Stopping
  <1>16. ASSUME NEW s \in Stoppers, StopCall(s)
        PROVE  TodoInv'
    BY <1>16 DEF StopCall, StopBegin, Stopping
  <1>17. ASSUME NEW s \in Stoppers, StopHttp(s)
        PROVE  TodoInv'
    BY <1>17 DEF StopHttp, ExecutorStop, Stopping
  <1>18. CASE handle_signal
    BY <1>18 DEF handle_signal, ExecutorStop, Stopping
  <1>19. CASE UNCHANGED vars
    BY <1>19 DEF vars, Stopping
  <1> QED
    BY <1>1, <1>2, <1>3, <1>4, <1>5, <1>6, <1>7, <1>8, <1>9, <1>10, <1>11, <1>12, <1>13, <1>14, <1>15, <1>16, <1>17, <1>18, <1>19
       DEF Next, MainStep, ThreadStep, StopStep

(* Stopped plugins stay stopped. *)
LEMMA CleanStep ==
    ASSUME IInv, [Next]_vars
    PROVE  CleanInv'
  <1> USE AppAssumption DEF IInv, TypeOK, PluginTypeOK, AppTypeOK, CleanInv, RunnerInv
  <1>1. ASSUME NEW p \in Plugins, NEW m \in Methods, AddMethod(p, m)
        PROVE  CleanInv'
    BY <1>1 DEF AddMethod, add_unary_method, Stopping, Over, Clean, joinable
  <1>2. ASSUME NEW p \in Plugins, AppInstall(p)
        PROVE  CleanInv'
    BY <1>2 DEF AppInstall, install, install_result, Live, Stopping, Over, Clean, joinable
  <1>3. ASSUME NEW p \in Plugins, RunnerStep(p)
        PROVE  CleanInv'
    <2>1. /\ runner[p] \in {"started", "running"}
          /\ \A r \in Plugins : r # p => runner'[r] = runner[r] /\ executor'[r] = executor[r]
          /\ executor[p] \in {"null", "Draining", "Stopped"} => executor'[p] = "Stopped"
      BY <1>3 DEF RunnerStep, RunnerRun, RunnerExit
    <2>2. ~Clean(p) /\ \A r \in Plugins : Clean(r) => Clean(r)'
      BY <2>1 DEF Clean, joinable
    <2>3. UNCHANGED <<todo, stopPc, mainPc>>
      BY <1>3 DEF RunnerStep, RunnerRun, RunnerExit
    <2>4. ToSet(todo[Main])' = ToSet(todo[Main])
      BY <2>3
    <2>5. stopPc[Main] # "idle" => Head(todo[Main]) \in Plugins
      BY HeadIsPlugin
    <2>6. stopPc[Main] \in {"joinable", "join"}
              /\ executor[Head(todo[Main])] \in {"null", "Draining", "Stopped"} =>
                  executor'[Head(todo[Main])] \in {"null", "Draining", "Stopped"}
      BY <2>1, <2>5
    <2> QED
      BY <2>2, <2>3, <2>4, <2>5, <2>6 DEF Stopping
  <1>4. CASE Create \/ Listen
    BY <1>4 DEF Create, Listen, Live, Stopping, Over, Clean, joinable
  <1>5. CASE Destroy
    BY <1>5, EmptyList DEF Destroy, StopBegin, ListInv, StartInv, TodoInv, Before, Stopping, Over, Clean, joinable
  <1>6. CASE StartClaim
    BY <1>6 DEF StartClaim, start_claim, Live, Stopping, Over, Clean, joinable
  <1>7. CASE StartListen
    BY <1>7 DEF StartListen, start_listen, Live, Stopping, Over, Clean, joinable
  <1>8. CASE StartFails
    BY <1>8 DEF StartFails, start_listen_failed, Live, Stopping, Over, Clean, joinable
  <1>9. CASE StartRunner
    BY <1>9 DEF StartRunner, start_runner, Live, Stopping, Over, Clean, joinable
  <1>10. CASE Unwind
    BY <1>10, ReverseElements DEF Unwind, StopBegin, Live, StartInv, TodoInv, Stopping, Over, Clean, joinable
  <1>11. CASE Flush
    BY <1>11, ReverseElements, AllStarted DEF Flush, StopBegin, Live, ListInv, StartInv, TodoInv, Complete, Stopping, Over, Clean, joinable
  <1>12. CASE Terminate \/ ArmSignals \/ Disarm \/ Destroyed
    BY <1>12, EmptyList DEF Terminate, ArmSignals, Disarm, Destroyed, Live, Stopping, Over, Clean, joinable
  <1>13. CASE StartLogging \/ Bind \/ Run \/ RunReturns
    BY <1>13 DEF StartLogging, Bind, Run, RunReturns, Live, Stopping, Over, Clean, joinable
  <1>14. ASSUME NEW t \in Threads, ThreadStep(t) /\ (stop_executor(t) \/ stop_joinable(t))
        PROVE  CleanInv'
    <2>1. Head(todo[t]) \in Plugins
      BY <1>14, HeadIsPlugin DEF stop_executor, stop_joinable
    <2>2. UNCHANGED <<runner, todo, mainPc>> /\ ToSet(todo[Main])' = ToSet(todo[Main])
      BY <1>14 DEF ThreadStep, stop_executor, stop_joinable
    <2>3. \A p \in Plugins :
              /\ executor[p] \in {"null", "Stopped"} => executor'[p] = executor[p]
              /\ executor[p] = "Draining" => executor'[p] = "Draining"
      BY <1>14, <2>1 DEF stop_executor, stop_joinable, ExecutorStop
    <2>4. \A p \in Plugins : Clean(p) => Clean(p)'
      BY <2>2, <2>3 DEF Clean, joinable
    <2>5. CASE t # Main
      <3>1. stopPc'[Main] = stopPc[Main]
        BY <1>14, <2>5 DEF stop_executor, stop_joinable
      <3>2. stopPc[Main] # "idle" => Head(todo[Main]) \in Plugins
        BY HeadIsPlugin
      <3> QED
        BY <2>2, <2>3, <2>4, <3>1, <3>2 DEF Stopping
    <2>6. CASE t = Main /\ stop_executor(t)
      <3>1. stopPc'[Main] = "joinable"
            /\ executor'[Head(todo[Main])] = ExecutorStop(executor[Head(todo[Main])])
        BY <2>1, <2>6 DEF stop_executor
      <3>2. executor'[Head(todo[Main])] \in {"null", "Draining", "Stopped"}
        BY <2>1, <2>6, <3>1 DEF ExecutorStop
      <3> QED
        BY <2>2, <2>4, <3>1, <3>2 DEF Stopping
    <2>7. CASE t = Main /\ stop_joinable(t)
      <3>1. /\ stopPc[Main] = "joinable" /\ executor' = executor
            /\ stopPc'[Main] = IF joinable(Head(todo[Main])) THEN "join" ELSE "clear"
        BY <2>7 DEF stop_joinable
      <3>2. mainPc \in Stopping /\ ~joinable(Head(todo[Main])) => Clean(Head(todo[Main]))
        BY <2>1, <2>7, <3>1 DEF Clean, joinable
      <3> QED
        BY <2>1, <2>2, <2>4, <2>7, <3>1, <3>2 DEF Stopping
    <2> QED
      BY <1>14, <2>5, <2>6, <2>7
  <1>15. ASSUME NEW t \in Threads, ThreadStep(t) /\ (stop_join(t) \/ stop_clear(t))
        PROVE  CleanInv'
    <2>1. todo[t] # <<>> /\ Head(todo[t]) \in Plugins
      BY <1>15, HeadIsPlugin DEF stop_join, stop_clear
    <2>2. mainPc' = mainPc /\ executor' = executor
      BY <1>15 DEF ThreadStep, stop_join, stop_clear
    <2>3. \A p \in Plugins : Clean(p) => Clean(p)'
      BY <1>15, <2>1, <2>2 DEF stop_join, stop_clear, Clean, joinable
    <2>4. CASE t # Main
      <3>1. stopPc'[Main] = stopPc[Main] /\ todo'[Main] = todo[Main]
        BY <1>15, <2>4 DEF stop_join, stop_clear
      <3>2. stopPc[Main] # "idle" => Head(todo[Main]) \in Plugins
        BY HeadIsPlugin
      <3> QED
        BY <2>2, <2>3, <3>1, <3>2 DEF Stopping
    <2>5. CASE t = Main /\ stop_join(t)
      <3>1. todo' = todo
        BY <2>5 DEF stop_join
      <3>2. CASE runner[Head(todo[Main])] = "exited"
                 /\ runner' = [runner EXCEPT ![Head(todo[Main])] = "joined"]
                 /\ stopPc' = [stopPc EXCEPT ![Main] = "clear"]
        <4>1. Clean(Head(todo[Main]))'
          BY <2>1, <2>2, <2>5, <3>1, <3>2 DEF Clean, joinable
        <4> QED
          BY <2>2, <2>3, <2>5, <3>1, <3>2, <4>1 DEF Stopping
      <3>3. CASE UNCHANGED <<runner, stopPc>>
        BY <2>1, <2>2, <2>3, <2>5, <3>1, <3>3 DEF Stopping
      <3> QED
        BY <2>5, <3>2, <3>3 DEF stop_join
    <2>6. CASE t = Main /\ stop_clear(t)
      <3>1. /\ stopPc[Main] = "clear" /\ stopPc'[Main] = "idle"
            /\ todo'[Main] = Tail(todo[Main])
        BY <2>6 DEF stop_clear
      <3>2. \A p \in ToSet(todo[Main]) : p = Head(todo[Main]) \/ p \in ToSet(todo'[Main])
        BY <2>1, <2>6, <3>1, TailElements
      <3> QED
        BY <2>2, <2>3, <2>6, <3>1, <3>2 DEF Stopping
    <2> QED
      BY <1>15, <2>4, <2>5, <2>6
  <1>16. ASSUME NEW s \in Stoppers, StopCall(s)
        PROVE  CleanInv'
    BY <1>16 DEF StopCall, StopBegin, Stopping, Over, Clean, joinable
  <1>17. ASSUME NEW s \in Stoppers, StopHttp(s)
        PROVE  CleanInv'
    BY <1>17 DEF StopHttp, ExecutorStop, Stopping, Over, Clean, joinable
  <1>18. CASE handle_signal
    BY <1>18 DEF handle_signal, ExecutorStop, Stopping, Over, Clean, joinable
  <1>19. CASE UNCHANGED vars
    BY <1>19 DEF vars, Stopping, Over, Clean, joinable
  <1> QED
    BY <1>1, <1>2, <1>3, <1>4, <1>5, <1>6, <1>7, <1>8, <1>9, <1>10, <1>11, <1>12, <1>13, <1>14, <1>15, <1>16, <1>17, <1>18, <1>19
       DEF Next, MainStep, ThreadStep, StopStep

(* The HTTP executor runs inside listen(). *)
LEMMA HttpStep ==
    ASSUME IInv, [Next]_vars
    PROVE  HttpInv'
  <1> USE AppAssumption DEF IInv, TypeOK, AppTypeOK, HttpInv
  <1>1. ASSUME NEW p \in Plugins, NEW m \in Methods, AddMethod(p, m)
        PROVE  HttpInv'
    BY <1>1 DEF AddMethod, add_unary_method
  <1>2. ASSUME NEW p \in Plugins, AppInstall(p)
        PROVE  HttpInv'
    BY <1>2 DEF AppInstall, install, install_result, Live
  <1>3. ASSUME NEW p \in Plugins, RunnerStep(p)
        PROVE  HttpInv'
    BY <1>3 DEF RunnerStep, RunnerRun, RunnerExit
  <1>4. CASE Create \/ Listen
    BY <1>4 DEF Create, Listen, Live
  <1>5. CASE Destroy
    BY <1>5 DEF Destroy, StopBegin
  <1>6. CASE StartClaim
    BY <1>6 DEF StartClaim, start_claim, Live
  <1>7. CASE StartListen
    BY <1>7 DEF StartListen, start_listen, Live
  <1>8. CASE StartFails
    BY <1>8 DEF StartFails, start_listen_failed, Live
  <1>9. CASE StartRunner
    BY <1>9 DEF StartRunner, start_runner, Live
  <1>10. CASE Unwind
    BY <1>10 DEF Unwind, StopBegin, Live
  <1>11. CASE Flush
    BY <1>11 DEF Flush, StopBegin, Live
  <1>12. CASE Terminate \/ ArmSignals \/ Disarm \/ Destroyed
    BY <1>12 DEF Terminate, ArmSignals, Disarm, Destroyed, Live
  <1>13. CASE StartLogging \/ Bind \/ Run \/ RunReturns
    BY <1>13 DEF StartLogging, Bind, Run, RunReturns, Live
  <1>14. ASSUME NEW t \in Threads, ThreadStep(t) /\ (stop_executor(t) \/ stop_joinable(t))
        PROVE  HttpInv'
    BY <1>14 DEF ThreadStep, stop_executor, stop_joinable, ExecutorStop
  <1>15. ASSUME NEW t \in Threads, ThreadStep(t) /\ (stop_join(t) \/ stop_clear(t))
        PROVE  HttpInv'
    BY <1>15 DEF ThreadStep, stop_join, stop_clear
  <1>16. ASSUME NEW s \in Stoppers, StopCall(s)
        PROVE  HttpInv'
    BY <1>16 DEF StopCall, StopBegin
  <1>17. ASSUME NEW s \in Stoppers, StopHttp(s)
        PROVE  HttpInv'
    BY <1>17 DEF StopHttp, ExecutorStop
  <1>18. CASE handle_signal
    BY <1>18 DEF handle_signal, ExecutorStop
  <1>19. CASE UNCHANGED vars
    BY <1>19 DEF vars
  <1> QED
    BY <1>1, <1>2, <1>3, <1>4, <1>5, <1>6, <1>7, <1>8, <1>9, <1>10, <1>11, <1>12, <1>13, <1>14, <1>15, <1>16, <1>17, <1>18, <1>19
       DEF Next, MainStep, ThreadStep, StopStep

(* The configuration is read once. *)
LEMMA ConfigStep ==
    ASSUME IInv, [Next]_vars
    PROVE  ConfigInv'
  <1> USE AppAssumption DEF IInv, ConfigInv
  <1>1. ASSUME NEW p \in Plugins, NEW m \in Methods, AddMethod(p, m)
        PROVE  ConfigInv'
    BY <1>1 DEF AddMethod, add_unary_method
  <1>2. ASSUME NEW p \in Plugins, AppInstall(p)
        PROVE  ConfigInv'
    BY <1>2 DEF AppInstall, install, install_result, Live
  <1>3. ASSUME NEW p \in Plugins, RunnerStep(p)
        PROVE  ConfigInv'
    BY <1>3 DEF RunnerStep, RunnerRun, RunnerExit
  <1>4. CASE Create \/ Listen
    BY <1>4 DEF Create, Listen, Live
  <1>5. CASE Destroy
    BY <1>5 DEF Destroy, StopBegin
  <1>6. CASE StartClaim
    BY <1>6 DEF StartClaim, start_claim, Live
  <1>7. CASE StartListen
    BY <1>7 DEF StartListen, start_listen, Live
  <1>8. CASE StartFails
    BY <1>8 DEF StartFails, start_listen_failed, Live
  <1>9. CASE StartRunner
    BY <1>9 DEF StartRunner, start_runner, Live
  <1>10. CASE Unwind
    BY <1>10 DEF Unwind, StopBegin, Live
  <1>11. CASE Flush
    BY <1>11 DEF Flush, StopBegin, Live
  <1>12. CASE Terminate \/ ArmSignals \/ Disarm \/ Destroyed
    BY <1>12 DEF Terminate, ArmSignals, Disarm, Destroyed, Live
  <1>13. CASE StartLogging \/ Bind \/ Run \/ RunReturns
    BY <1>13 DEF StartLogging, Bind, Run, RunReturns, Live
  <1>14. ASSUME NEW t \in Threads, ThreadStep(t) /\ (stop_executor(t) \/ stop_joinable(t))
        PROVE  ConfigInv'
    BY <1>14 DEF ThreadStep, stop_executor, stop_joinable, ExecutorStop
  <1>15. ASSUME NEW t \in Threads, ThreadStep(t) /\ (stop_join(t) \/ stop_clear(t))
        PROVE  ConfigInv'
    BY <1>15 DEF ThreadStep, stop_join, stop_clear
  <1>16. ASSUME NEW s \in Stoppers, StopCall(s)
        PROVE  ConfigInv'
    BY <1>16 DEF StopCall, StopBegin
  <1>17. ASSUME NEW s \in Stoppers, StopHttp(s)
        PROVE  ConfigInv'
    BY <1>17 DEF StopHttp, ExecutorStop
  <1>18. CASE handle_signal
    BY <1>18 DEF handle_signal, ExecutorStop
  <1>19. CASE UNCHANGED vars
    BY <1>19 DEF vars
  <1> QED
    BY <1>1, <1>2, <1>3, <1>4, <1>5, <1>6, <1>7, <1>8, <1>9, <1>10, <1>11, <1>12, <1>13, <1>14, <1>15, <1>16, <1>17, <1>18, <1>19
       DEF Next, MainStep, ThreadStep, StopStep

(* Every reachable state satisfies the inductive invariant. *)
THEOREM Invariance == Spec => []IInv
  <1>1. IInv /\ [Next]_vars => IInv'
    <2> SUFFICES ASSUME IInv, [Next]_vars PROVE IInv'
      OBVIOUS
    <2>1. TypeOK'
      BY FlagTypeStep, TypeStep DEF TypeOK
    <2> QED
      BY <2>1, RunnerStepInv, ListStep, StartStep, TodoStep, CleanStep, HttpStep, ConfigStep
         DEF IInv
  <1> QED
    BY InitInv, <1>1, PTL DEF Spec

(* Plugins and the HTTP server live within each other's bounds: however        *)
(* listen() ends no runner is left and no plugin executor listens, and HTTP    *)
(* connections are served only while every installed plugin has been started.  *)
THEOREM LifetimesHold == Spec => []PluginLifetimes
  <1>1. IInv => PluginLifetimes
    <2> SUFFICES ASSUME IInv PROVE PluginLifetimes
      OBVIOUS
    <2>1. NoWorkerLeftBehind
      BY DEF IInv, CleanInv, Clean, Over, NoWorkerLeftBehind
    <2>2. ASSUME http = "Running", NEW p \in ToSet(plugins)
          PROVE  runner[p] # "none" /\ installed[p]
      <3>1. p \in ToSet(started)
        BY <2>2, AllStarted DEF IInv, HttpInv, ListInv, Complete
      <3>2. PICK i \in 1..Len(plugins) : plugins[i] = p
        BY InToSet DEF IInv, TypeOK, AppTypeOK
      <3> QED
        BY <3>1, <3>2 DEF IInv, StartInv, ListInv
    <2> QED
      BY <2>1, <2>2 DEF PluginLifetimes, PluginsBeforeHttp, IInv
  <1> QED
    BY Invariance, <1>1, PTL

(* A plugin with an executor has been installed. *)
LEMMA ExecutorMeansInstalled ==
    ASSUME IInv, NEW p \in Plugins, executor[p] # "null"
    PROVE  installed[p]
  <1> USE DEF IInv, TypeOK, AppTypeOK
  <1>1. CASE p \in ToSet(started)
    <2>1. PICK i \in 1..Len(started) : started[i] = p
      BY <1>1, InToSet
    <2>2. i \in 1..Len(plugins) /\ plugins[i] = p
      BY <2>1 DEF ListInv
    <2> QED
      BY <2>2 DEF ListInv
  <1>2. CASE mainPc = "startRunner" /\ p = Starting
    <2>1. Len(started) + 1 \in 1..Len(plugins)
      BY <1>2 DEF ListInv
    <2> QED
      BY <1>2, <2>1 DEF ListInv, Starting
  <1> QED
    BY <1>1, <1>2 DEF StartInv

(* The method map that sessions read without a lock never changes once its    *)
(* plugin has an executor.                                                     *)
THEOREM MethodsAreFrozen == Spec => MethodsFrozen
  <1> DEFINE Frozen == \A p \in Plugins : executor[p] # "null" => methods'[p] = methods[p]
  <1>1. IInv /\ [Next]_vars => [Frozen]_vars
    <2> SUFFICES ASSUME IInv, Next PROVE Frozen
      OBVIOUS
    <2>1. ASSUME NEW p \in Plugins, NEW m \in Methods, AddMethod(p, m)
          PROVE  Frozen
      <3>1. executor[p] = "null"
        BY <2>1, ExecutorMeansInstalled DEF AddMethod, add_unary_method
      <3> QED
        BY <2>1, <3>1 DEF AddMethod, add_unary_method, IInv, TypeOK, PluginTypeOK
    <2>2. CASE methods' = methods
      BY <2>2
    <2>3. ASSUME NEW p \in Plugins, AppInstall(p) \/ RunnerStep(p) PROVE methods' = methods
      BY <2>3 DEF AppInstall, install, RunnerStep, RunnerRun, RunnerExit
    <2>4. CASE Create \/ Listen \/ MainStep \/ Destroy \/ handle_signal
      BY <2>2, <2>4 DEF Create, Listen, MainStep, Destroy, handle_signal, StartClaim,
         start_claim, StartListen, start_listen, StartFails, start_listen_failed,
         StartRunner, start_runner, Unwind, Terminate, ArmSignals, StartLogging, Bind, Run,
         RunReturns, Flush, Disarm, Destroyed, StopBegin
    <2>5. ASSUME NEW t \in Threads, ThreadStep(t) PROVE methods' = methods
      BY <2>5 DEF ThreadStep, StopStep, stop_executor, stop_joinable, stop_join, stop_clear
    <2>6. ASSUME NEW t \in Stoppers, StopCall(t) \/ StopHttp(t) PROVE methods' = methods
      BY <2>6 DEF StopCall, StopHttp, StopBegin
    <2> QED
      BY <2>1, <2>2, <2>3, <2>4, <2>5, <2>6 DEF Next
  <1> QED
    BY Invariance, <1>1, PTL DEF Spec, MethodsFrozen

-----------------------------------------------------------------------------
(* The configuration *)

(* The limits of the port. *)
LEMMA PortLimits == Limits["port"] = <<1, 65535>>
  BY DEF Limits, IntegerKeys

(* No key is validated twice. *)
LEMMA KeysDistinct ==
    DOMAIN Keys = 1..18 /\ \A i, j \in 1..18 : Keys[i] = Keys[j] => i = j
  BY DEF Keys

(* Every field has a key. *)
LEMMA KeysComplete == DOMAIN Defaults = Fields /\ \A k \in Fields : \E i \in 1..18 : Keys[i] = k
  BY DEF Keys, Defaults, Fields, IntegerKeys, Names

(* Sections of the file. *)
LEMMA Sections ==
    /\ TopLevelKeys = {"port", "host", "backlog", "max_body_size", "request_timeout",
                       "max_header_count", "max_read_bytes"}
    /\ ExecutorKeys = {"executor", "executor.thread_count", "executor.cpu_pool_threads",
                       "executor.drain_timeout"}
  BY DEF TopLevelKeys, ExecutorKeys, Keys

(* A set of places has a first one. *)
LEMMA FirstPlace ==
    ASSUME NEW S \in SUBSET (1..18), S # {}
    PROVE  \E i \in S : \A j \in S : i <= j
  <1> DEFINE R == OpToRel(<, Nat)
  <1>1. IsWellFoundedOn(R, Nat)
    BY NatLessThanWellFounded
  <1>2. \A i, j \in Nat : j < i => <<j, i>> \in R
    BY DEF OpToRel
  <1> HIDE DEF R
  <1>3. S \subseteq Nat
    OBVIOUS
  <1>4. PICK i \in S : \A j \in S : ~(<<j, i>> \in R)
    BY <1>1, <1>3, WFMin
  <1> QED
    BY <1>2, <1>3, <1>4

(* A valid value of a field is represented as it was written. *)
LEMMA FieldAsWritten ==
    ASSUME NEW k \in Fields, NEW v, valid(k, v), v[1] = "int" => v[2] \in Int
    PROVE  \/ v[1] \in {"int", "bool"} /\ field(k, v) = v[2]
           \/ v[1] = "string" /\ k \in DOMAIN Names /\ field(k, v) = Names[k][v[2]]
           \/ v[1] = "string" /\ k \notin DOMAIN Names /\ field(k, v) = v[2]
  <1>1. CASE k = "port"
    <2>1. v[1] = "int" /\ 1 <= v[2] /\ v[2] <= 65535
      BY <1>1, Sections, PortLimits DEF valid, valid_top_level, in_range
    <2> QED
      BY <1>1, <2>1 DEF field
  <1>2. CASE k # "port" /\ k \in IntegerKeys
    <2>1. v[1] = "int" /\ k \notin DOMAIN Names
      BY <1>2, Sections DEF valid, valid_top_level, valid_executor, valid_logging, in_range,
         IntegerKeys, Names
    <2> QED
      BY <1>2, <2>1 DEF field
  <1>3. CASE k \in {"host", "logging.enabled", "logging.file_path"}
    <2>1. v[1] \in {"string", "bool"} /\ k \notin DOMAIN Names
      BY <1>3, Sections DEF valid, valid_top_level, valid_executor, valid_logging, Names
    <2> QED
      BY <1>3, <2>1 DEF field
  <1>4. CASE k \in DOMAIN Names
    <2>1. k \in {"logging.level", "logging.format", "logging.destination"}
      BY <1>4 DEF Names
    <2>2. v[1] = "string"
      BY <1>4, <2>1, Sections DEF valid, valid_logging
    <2> QED
      BY <1>4, <2>1, <2>2 DEF field
  <1> QED
    BY <1>1, <1>2, <1>3, <1>4 DEF Fields

(* What create() returns for a file. *)
LEMMA CreateResult ==
    ASSUME NEW f \in Files
    PROVE  LET c == create(f, Defaults)
               value(k) == f.values[k]
           IN  /\ c.error = "none" => \A k \in Fields :
                      IF f.status = "ok" /\ k \in DOMAIN f.values
                      THEN valid(k, value(k)) /\ c.config[k] = field(k, value(k))
                      ELSE c.config[k] = Defaults[k]
               /\ c.error = "InvalidValue" => \E i \in 1..18 :
                      /\ c.key = Keys[i] /\ ~valid(Keys[i], value(Keys[i]))
                      /\ \A j \in 1..(i - 1) :
                             Keys[j] \in DOMAIN f.values => valid(Keys[j], value(Keys[j]))
  <1> DEFINE c == create(f, Defaults)
             bad == {i \in {j \in DOMAIN Keys : Keys[j] \in DOMAIN f.values} :
                         ~valid(Keys[i], f.values[Keys[i]])}
             first == CHOOSE i \in bad : \A j \in bad : i <= j
             value(k) == f.values[k]
             Loaded == [error |-> "none", key |-> "",
                        config |-> [k \in Fields |->
                            IF k \in DOMAIN f.values THEN field(k, f.values[k]) ELSE Defaults[k]]]
             Good == \A k \in Fields :
                         IF f.status = "ok" /\ k \in DOMAIN f.values
                         THEN valid(k, value(k)) /\ c.config[k] = field(k, value(k))
                         ELSE c.config[k] = Defaults[k]
             Named == \E i \in 1..18 :
                         /\ c.key = Keys[i] /\ ~valid(Keys[i], value(Keys[i]))
                         /\ \A j \in 1..(i - 1) :
                                Keys[j] \in DOMAIN f.values => valid(Keys[j], value(Keys[j]))
  <1>1. CASE f.status = "no path"
    BY <1>1 DEF create
  <1>2. CASE f.status \in {"missing", "unreadable"}
    BY <1>2 DEF create, load_toml_config, Failed
  <1>3. CASE f.status = "ok" /\ bad # {}
    <2>1. c = Failed("InvalidValue", Keys[first])
      BY <1>3 DEF create, load_toml_config
    <2>2. bad \in SUBSET (1..18)
      BY KeysDistinct
    <2>3. first \in bad /\ \A j \in bad : first <= j
      BY <1>3, <2>2, FirstPlace
    <2>4. c.error = "InvalidValue" /\ c.key = Keys[first]
      BY <2>1 DEF Failed
    <2>5. first \in 1..18 /\ ~valid(Keys[first], value(Keys[first]))
      BY <2>2, <2>3
    <2>6. ASSUME NEW j \in 1..(first - 1), Keys[j] \in DOMAIN f.values
          PROVE  valid(Keys[j], value(Keys[j]))
      <3> HIDE DEF first
      <3>1. j \in 1..18 /\ j < first
        BY <2>5
      <3>2. j \notin bad
        <4> HIDE DEF bad
        <4> QED
          BY <2>3, <2>5, <3>1
      <3> QED
        BY <2>6, <3>1, <3>2, KeysDistinct
    <2>7. Named
      <3> HIDE DEF first, c
      <3> QED
        BY <2>4, <2>5, <2>6
    <2> QED
      BY <2>4, <2>7
  <1>4. CASE f.status = "ok" /\ bad = {}
    <2>1. c = Loaded
      BY <1>4, KeysComplete DEF create, load_toml_config
    <2>2. c.error = "none" /\ \A k \in Fields : c.config[k] =
              IF k \in DOMAIN f.values THEN field(k, f.values[k]) ELSE Defaults[k]
      <3> HIDE DEF c
      <3> QED
        BY <2>1
    <2>3. ASSUME NEW k \in Fields, k \in DOMAIN f.values PROVE valid(k, value(k))
      BY <1>4, <2>3, KeysComplete, KeysDistinct
    <2>4. Good
      <3> HIDE DEF c
      <3> QED
        BY <1>4, <2>2, <2>3
    <2> QED
      BY <2>2, <2>4
  <1> QED
    BY <1>1, <1>2, <1>3, <1>4, FilesAssumption

(* An App has the configuration its file describes, and a file with a value   *)
(* that is out of range makes none and is refused for the first such value.   *)
THEOREM ConfigIsAsWritten == Spec => []ConfigAsWritten
  <1> DEFINE value(k) == file.values[k]
             written(k) == \/ value(k)[1] \in {"int", "bool"} /\ created.config[k] = value(k)[2]
                           \/ value(k)[1] = "string" /\ k \in DOMAIN Names
                                /\ created.config[k] = Names[k][value(k)[2]]
                           \/ value(k)[1] = "string" /\ k \notin DOMAIN Names
                                /\ created.config[k] = value(k)[2]
  <1>1. ConfigInv => ConfigAsWritten
    <2> SUFFICES ASSUME ConfigInv PROVE ConfigAsWritten
      OBVIOUS
    <2>1. ASSUME mainPc \notin {"create", "refused"}, NEW k \in Fields
          PROVE  IF file.status = "ok" /\ k \in DOMAIN file.values
                 THEN written(k) ELSE created.config[k] = Defaults[k]
      <3>1. /\ file \in Files /\ created.error = "none" /\ created = create(file, Defaults)
        BY <2>1 DEF ConfigInv
      <3>2. IF file.status = "ok" /\ k \in DOMAIN file.values
            THEN valid(k, value(k)) /\ created.config[k] = field(k, value(k))
            ELSE created.config[k] = Defaults[k]
        BY <3>1, CreateResult
      <3>3. k \in DOMAIN file.values => (value(k)[1] = "int" => value(k)[2] \in Int)
        BY <3>1, FilesAssumption
      <3> QED
        BY <3>2, <3>3, FieldAsWritten
    <2>2. ASSUME mainPc = "refused", created.error = "InvalidValue",
                 NEW i \in 1..18, Keys[i] = created.key
          PROVE  /\ ~valid(Keys[i], value(Keys[i]))
                 /\ \A j \in 1..(i - 1) :
                        Keys[j] \in DOMAIN file.values => valid(Keys[j], value(Keys[j]))
      <3>1. file \in Files /\ created = create(file, Defaults)
        BY <2>2 DEF ConfigInv
      <3>2. PICK n \in 1..18 :
                /\ created.key = Keys[n] /\ ~valid(Keys[n], value(Keys[n]))
                /\ \A j \in 1..(n - 1) :
                       Keys[j] \in DOMAIN file.values => valid(Keys[j], value(Keys[j]))
        BY <2>2, <3>1, CreateResult
      <3>3. i = n
        BY <2>2, <3>2, KeysDistinct
      <3> QED
        BY <3>2, <3>3
    <2> QED
      BY <2>1, <2>2, KeysDistinct, KeysComplete DEF ConfigAsWritten
  <1> QED
    BY Invariance, <1>1, PTL DEF IInv

-----------------------------------------------------------------------------
(***************************************************************************)
(* The router of the application and its middleware (Router): the order in   *)
(* which a request passes the layers, for any middleware and any paths.      *)
(***************************************************************************)
(* Pipeline as a function of what is registered. *)
Layers(gs, sc, path) ==
    LET upto[i \in 0..Len(sc)] ==
            IF i = 0 THEN <<>>
            ELSE IF IsPrefix(sc[i].prefix, path) THEN Append(upto[i - 1], sc[i].mw)
            ELSE upto[i - 1]
    IN  gs \o upto[Len(sc)]

Middleware == {"global", "scoped"} \X Nat
Scope == [prefix : Scopes, mw : Middleware]

(* Layers are numbered in the order of registration.  On the way down, what   *)
(* was entered and what is to come make up the pipeline of the path.          *)
PipelineInv ==
    /\ globals \in Seq(Middleware) /\ \A i \in 1..Len(globals) : globals[i] = <<"global", i>>
    /\ scoped \in Seq(Scope) /\ \A i \in 1..Len(scoped) : scoped[i].mw = <<"scoped", i>>
    /\ chain \in Seq(Middleware) /\ entered \in Seq(Middleware)
    /\ phase \in {"register", "terminated", "idle", "down", "up"}
    /\ phase = "down" => request.path \in Paths /\ entered \o chain = Layers(globals, scoped, request.path)
    /\ phase \in {"register", "terminated", "idle"} => entered = <<>>

LEMMA LeastNumber ==
    ASSUME NEW T, T \subseteq Nat, T # {}
    PROVE  \E k \in T : \A j \in T : k <= j
  <1> DEFINE R == OpToRel(<, Nat)
  <1>1. IsWellFoundedOn(R, Nat)
    BY NatLessThanWellFounded
  <1>2. \A i, j \in Nat : j < i => <<j, i>> \in R
    BY DEF OpToRel
  <1> HIDE DEF R
  <1>3. PICK i \in T : \A j \in T : ~(<<j, i>> \in R)
    BY <1>1, WFMin
  <1>4. ASSUME NEW j \in T PROVE i <= j
    <2>1. i \in Nat /\ j \in Nat
      OBVIOUS
    <2>2. ~(j < i)
      BY <1>2, <1>3, <2>1
    <2> QED
      BY <2>1, <2>2
  <1> QED
    BY <1>4

(* Scope i covers the path; g[i] is what the first i scopes contribute. *)
Covers(i, path) == IsPrefix(scoped[i].prefix, path)
Picks(g, path, n) ==
    /\ g[0] = <<>>
    /\ \A i \in 1..n : g[i] = IF Covers(i, path) THEN Append(g[i - 1], scoped[i].mw) ELSE g[i - 1]

LEMMA PicksExist ==
    ASSUME NEW path, NEW n \in Nat
    PROVE  \E g : Picks(g, path, n)
  <1> SUFFICES ASSUME ~(\E g : Picks(g, path, n)) PROVE FALSE
    OBVIOUS
  <1> DEFINE Bad == {k \in Nat : ~(\E g : Picks(g, path, k))}
  <1>1. PICK k \in Bad : \A j \in Bad : k <= j
    <2>1. n \in Bad /\ Bad \subseteq Nat
      OBVIOUS
    <2> HIDE DEF Bad
    <2> QED
      BY <2>1, LeastNumber
  <1>2. k \in Nat /\ ~(\E g : Picks(g, path, k))
    OBVIOUS
  <1>3. k # 0
    <2>1. Picks([i \in {0} |-> <<>>], path, 0)
      BY DEF Picks
    <2> QED
      BY <1>2, <2>1
  <1>4. k - 1 \in Nat /\ ~(k <= k - 1)
    BY <1>2, <1>3
  <1>5. k - 1 \notin Bad
    BY <1>1, <1>4
  <1>6. PICK g : Picks(g, path, k - 1)
    BY <1>4, <1>5
  <1> DEFINE last == IF Covers(k, path) THEN Append(g[k - 1], scoped[k].mw) ELSE g[k - 1]
             f == [i \in 0..k |-> IF i = k THEN last ELSE g[i]]
  <1> HIDE DEF last
  <1>7. f[0] = <<>>
    BY <1>2, <1>3, <1>6 DEF Picks
  <1>8. ASSUME NEW i \in 1..k
        PROVE  f[i] = IF Covers(i, path) THEN Append(f[i - 1], scoped[i].mw) ELSE f[i - 1]
    <2>1. i \in 0..k /\ i - 1 \in 0..k /\ i - 1 # k
      BY <1>2
    <2>2. f[i - 1] = g[i - 1]
      BY <2>1
    <2>3. CASE i = k
      BY <2>1, <2>2, <2>3 DEF last
    <2>4. CASE i # k
      <3>1. i \in 1..(k - 1)
        BY <1>2, <2>4
      <3>2. f[i] = g[i]
        BY <2>1, <2>4
      <3> HIDE DEF f
      <3> QED
        BY <1>6, <2>2, <3>1, <3>2 DEF Picks
    <2> QED
      BY <2>3, <2>4
  <1> HIDE DEF f
  <1>9. Picks(f, path, k)
    BY <1>7, <1>8 DEF Picks
  <1> QED
    BY <1>2, <1>9

LEMMA MatchingIs ==
    ASSUME NEW path, Len(scoped) \in Nat
    PROVE  \E g : Picks(g, path, Len(scoped)) /\ Matching(path) = g[Len(scoped)]
  <1> DEFINE n == Len(scoped)
             step(f, i) == IF i = 0 THEN <<>>
                           ELSE IF IsPrefix(scoped[i].prefix, path)
                           THEN Append(f[i - 1], scoped[i].mw) ELSE f[i - 1]
             Rec(f) == f = [i \in 0..n |-> step(f, i)]
  <1>1. PICK g : Picks(g, path, n)
    BY PicksExist
  <1> DEFINE f == [i \in 0..n |-> g[i]]
  <1>2. ASSUME NEW i \in 0..n PROVE f[i] = step(f, i)
    <2>1. CASE i = 0
      BY <1>1, <2>1 DEF Picks
    <2>2. CASE i # 0
      <3>1. i \in 1..n /\ i - 1 \in 0..n
        BY <2>2
      <3>2. f[i - 1] = g[i - 1] /\ f[i] = g[i]
        BY <3>1
      <3> HIDE DEF f
      <3> QED
        BY <1>1, <2>2, <3>1, <3>2 DEF Picks, Covers
    <2> QED
      BY <2>1, <2>2
  <1>3. f = [i \in 0..n |-> f[i]]
    OBVIOUS
  <1> HIDE DEF f
  <1>4. Rec(f)
    BY <1>2, <1>3
  <1> DEFINE a == CHOOSE x : Rec(x)
  <1>5. Rec(a)
    BY <1>4
  <1>6. Matching(path) = a[n]
    BY DEF Matching
  <1> HIDE DEF a
  <1>7. \A i \in 0..n : a[i] = step(a, i)
    BY <1>5
  <1>8. Picks(a, path, n)
    <2>1. 0 \in 0..n /\ \A i \in 1..n : i \in 0..n /\ i # 0
      OBVIOUS
    <2> QED
      BY <1>7, <2>1 DEF Picks, Covers
  <1> QED
    BY <1>6, <1>8

(* s are the layers of the first n scopes that cover the path, in order. *)
Chosen(s, path, n) ==
    /\ s \in Seq(Middleware)
    /\ \A i \in 1..Len(s) : \E j \in 1..n : Covers(j, path) /\ s[i] = scoped[j].mw
    /\ \A j \in 1..n : Covers(j, path) => \E i \in 1..Len(s) : s[i] = scoped[j].mw
    /\ \A i, j \in 1..Len(s) : i < j => s[i][2] < s[j][2]

ScopesOK == scoped \in Seq(Scope) /\ \A i \in 1..Len(scoped) : scoped[i].mw = <<"scoped", i>>

LEMMA ChosenStep ==
    ASSUME ScopesOK, NEW path, NEW n \in 1..Len(scoped), NEW s, Chosen(s, path, n - 1), NEW t,
           t = IF Covers(n, path) THEN Append(s, scoped[n].mw) ELSE s
    PROVE  Chosen(t, path, n)
  <1> DEFINE x == scoped[n].mw
  <1>1. Len(scoped) \in Nat /\ n \in Nat /\ n - 1 \in Nat /\ n \in 1..n
        /\ \A j \in 1..n : j \in 1..(n - 1) \/ j = n
    BY DEF ScopesOK
  <1>2. x \in Middleware /\ x = <<"scoped", n>> /\ x[2] = n
    <2>1. scoped[n] \in Scope /\ scoped[n].mw = <<"scoped", n>>
      BY DEF ScopesOK
    <2>2. <<"scoped", n>>[2] = n
      OBVIOUS
    <2> QED
      BY <2>1, <2>2 DEF Scope
  <1>3. /\ s \in Seq(Middleware) /\ Len(s) \in Nat
        /\ \A i \in 1..Len(s) : \E j \in 1..(n - 1) : Covers(j, path) /\ s[i] = scoped[j].mw
        /\ \A j \in 1..(n - 1) : Covers(j, path) => \E i \in 1..Len(s) : s[i] = scoped[j].mw
        /\ \A i, j \in 1..Len(s) : i < j => s[i][2] < s[j][2]
    BY DEF Chosen
  <1>4. ASSUME NEW i \in 1..Len(s) PROVE s[i][2] < n
    <2>1. PICK j \in 1..(n - 1) : s[i] = scoped[j].mw
      BY <1>3
    <2>2. s[i] = <<"scoped", j>>
      BY <1>1, <2>1 DEF ScopesOK
    <2> QED
      BY <1>1, <2>2
  <1> HIDE DEF x
  <1>5. CASE ~Covers(n, path)
    <2>1. t = s
      BY <1>5
    <2> QED
      BY <1>1, <1>3, <1>5, <2>1 DEF Chosen
  <1>6. CASE Covers(n, path)
    <2>1. t = Append(s, x)
      BY <1>6 DEF x
    <2>2. /\ t \in Seq(Middleware) /\ Len(t) = Len(s) + 1 /\ t[Len(s) + 1] = x
          /\ \A i \in 1..Len(s) : t[i] = s[i] /\ i \in 1..Len(t)
          /\ \A i \in 1..Len(t) : i \in 1..Len(s) \/ i = Len(s) + 1
          /\ Len(s) + 1 \in 1..Len(t)
      <3>1. x \in Middleware /\ s \in Seq(Middleware)
        BY <1>2, <1>3
      <3>2. /\ t \in Seq(Middleware) /\ Len(t) = Len(s) + 1 /\ t[Len(s) + 1] = x
            /\ \A i \in 1..Len(s) : t[i] = s[i]
        BY <2>1, <3>1
      <3> QED
        BY <1>3, <3>2
    <2>3. ASSUME NEW i \in 1..Len(t) PROVE \E j \in 1..n : Covers(j, path) /\ t[i] = scoped[j].mw
      <3>1. CASE i \in 1..Len(s)
        BY <1>1, <1>3, <2>2, <3>1
      <3>2. CASE i = Len(s) + 1
        BY <1>1, <1>6, <2>2, <3>2 DEF x
      <3> QED
        BY <2>2, <3>1, <3>2
    <2>4. ASSUME NEW j \in 1..n, Covers(j, path) PROVE \E i \in 1..Len(t) : t[i] = scoped[j].mw
      <3>1. CASE j \in 1..(n - 1)
        BY <1>3, <2>2, <2>4, <3>1
      <3>2. CASE j = n
        BY <2>2, <3>2 DEF x
      <3> QED
        BY <1>1, <3>1, <3>2
    <2>5. ASSUME NEW i \in 1..Len(t), NEW j \in 1..Len(t), i < j PROVE t[i][2] < t[j][2]
      <3>1. i \in 1..Len(s)
        BY <1>3, <2>2, <2>5
      <3>2. CASE j \in 1..Len(s)
        BY <1>3, <2>2, <2>5, <3>1, <3>2
      <3>3. CASE j = Len(s) + 1
        BY <1>2, <1>4, <2>2, <3>1, <3>3
      <3> QED
        BY <2>2, <3>2, <3>3
    <2> QED
      BY <2>2, <2>3, <2>4, <2>5 DEF Chosen
  <1> QED
    BY <1>5, <1>6

LEMMA MatchingChosen ==
    ASSUME ScopesOK, NEW path
    PROVE  Chosen(Matching(path), path, Len(scoped))
  <1>0. Len(scoped) \in Nat
    BY DEF ScopesOK
  <1>1. PICK g : Picks(g, path, Len(scoped)) /\ Matching(path) = g[Len(scoped)]
    BY <1>0, MatchingIs
  <1> SUFFICES ASSUME ~Chosen(g[Len(scoped)], path, Len(scoped)) PROVE FALSE
    BY <1>1
  <1> DEFINE Bad == {k \in Nat : k <= Len(scoped) /\ ~Chosen(g[k], path, k)}
  <1>2. PICK k \in Bad : \A j \in Bad : k <= j
    <2>1. Len(scoped) \in Bad /\ Bad \subseteq Nat
      BY <1>0
    <2> HIDE DEF Bad
    <2> QED
      BY <2>1, LeastNumber
  <1>3. k \in Nat /\ k <= Len(scoped) /\ ~Chosen(g[k], path, k)
    OBVIOUS
  <1>4. k # 0
    <2>1. g[0] = <<>> /\ Len(<<>>) = 0 /\ <<>> \in Seq(Middleware)
      BY <1>1 DEF Picks
    <2>2. 1..0 = {} /\ Len(g[0]) = 0
      BY <2>1
    <2>3. Chosen(g[0], path, 0)
      BY <2>1, <2>2 DEF Chosen
    <2> QED
      BY <1>3, <2>3
  <1>5. k - 1 \in Nat /\ ~(k <= k - 1) /\ k - 1 <= Len(scoped) /\ k \in 1..Len(scoped)
    BY <1>0, <1>3, <1>4
  <1>6. Chosen(g[k - 1], path, k - 1)
    BY <1>2, <1>5
  <1>7. g[k] = IF Covers(k, path) THEN Append(g[k - 1], scoped[k].mw) ELSE g[k - 1]
    BY <1>1, <1>5 DEF Picks
  <1> QED
    BY <1>3, <1>5, <1>6, <1>7, ChosenStep

LEMMA PipelineLayers ==
    /\ \A path : Pipeline(path) = Layers(globals, scoped, path)
    /\ \A path : Pipeline(path) = globals \o Matching(path)
  BY DEF Pipeline, Matching, Layers

LEMMA PipelineType ==
    ASSUME PipelineInv, NEW path
    PROVE  Layers(globals, scoped, path) \in Seq(Middleware)
  <1>1. ScopesOK /\ globals \in Seq(Middleware)
    BY DEF PipelineInv, ScopesOK
  <1>2. Matching(path) \in Seq(Middleware)
    BY <1>1, MatchingChosen DEF Chosen
  <1>3. Layers(globals, scoped, path) = globals \o Matching(path)
    BY PipelineLayers
  <1> QED
    BY <1>1, <1>2, <1>3

LEMMA PipelineInit == RouterInit => PipelineInv
  <1> SUFFICES ASSUME RouterInit PROVE PipelineInv
    OBVIOUS
  <1>1. globals = <<>> /\ scoped = <<>> /\ chain = <<>> /\ entered = <<>> /\ phase = "register"
    BY DEF RouterInit
  <1>2. <<>> \in Seq(Middleware) /\ <<>> \in Seq(Scope) /\ Len(<<>>) = 0 /\ 1..0 = {}
    OBVIOUS
  <1> QED
    BY <1>1, <1>2 DEF PipelineInv

(* Registration happens before the first request. *)
LEMMA RegisterStep ==
    ASSUME PipelineInv, RouterTypes,
           \/ \E i \in 1..Len(routers) :
                 \/ \E r \in Routes : RegisterRoute(routers[i], r)
                 \/ \E p \in GroupPrefixes : Group(routers[i], p)
           \/ \E p \in {r.pattern : r \in Routes} \cup GroupPrefixes : TerminateOn(p)
           \/ Use \/ \E p \in Scopes : UseScoped(p)
           \/ ListenRoutes
    PROVE  PipelineInv'
  <1>1. CASE \E i \in 1..Len(routers) :
                 \/ \E r \in Routes : RegisterRoute(routers[i], r)
                 \/ \E p \in GroupPrefixes : Group(routers[i], p)
    <2>1. phase = "register" /\ UNCHANGED <<globals, scoped, phase, request, chain, entered>>
      BY <1>1 DEF RegisterRoute, Group, Registering
    <2> QED
      BY <2>1 DEF PipelineInv
  <1>2. CASE (\E p \in {r.pattern : r \in Routes} \cup GroupPrefixes : TerminateOn(p)) \/ ListenRoutes
    <2>1. /\ phase = "register" /\ phase' \in {"terminated", "idle"}
          /\ UNCHANGED <<globals, scoped, request, chain, entered>>
      BY <1>2 DEF TerminateOn, ListenRoutes, Registering, regVars
    <2> QED
      BY <2>1 DEF PipelineInv
  <1>3. CASE Use
    <2> DEFINE x == <<"global", Len(globals) + 1>>
    <2>1. /\ phase = "register" /\ UNCHANGED <<scoped, phase, request, chain, entered>>
          /\ globals' = Append(globals, x)
      BY <1>3 DEF Use, Registering
    <2>2. globals \in Seq(Middleware) /\ Len(globals) \in Nat
      BY DEF PipelineInv
    <2>3. x \in Middleware
      BY <2>2 DEF Middleware
    <2> HIDE DEF x
    <2>4. /\ globals' \in Seq(Middleware) /\ Len(globals') = Len(globals) + 1
          /\ globals'[Len(globals) + 1] = x /\ \A i \in 1..Len(globals) : globals'[i] = globals[i]
      BY <2>1, <2>2, <2>3
    <2>5. ASSUME NEW i \in 1..Len(globals') PROVE globals'[i] = <<"global", i>>
      <3>1. i \in 1..Len(globals) \/ i = Len(globals) + 1
        BY <2>2, <2>4
      <3> QED
        BY <2>4, <3>1 DEF PipelineInv, x
    <2> QED
      BY <2>1, <2>4, <2>5 DEF PipelineInv
  <1>4. CASE \E p \in Scopes : UseScoped(p)
    <2>0. PICK p \in Scopes : UseScoped(p)
      BY <1>4
    <2> DEFINE m == <<"scoped", Len(scoped) + 1>>
               x == [prefix |-> p, mw |-> m]
    <2>1. /\ phase = "register" /\ UNCHANGED <<globals, phase, request, chain, entered>>
          /\ scoped' = Append(scoped, x)
      BY <2>0 DEF UseScoped, Registering
    <2>2. scoped \in Seq(Scope) /\ Len(scoped) \in Nat
      BY DEF PipelineInv
    <2>3. m \in Middleware
      BY <2>2 DEF Middleware
    <2> HIDE DEF m
    <2>a. x \in Scope /\ x.mw = m
      BY <2>3 DEF Scope
    <2> HIDE DEF x
    <2>4. /\ scoped' \in Seq(Scope) /\ Len(scoped') = Len(scoped) + 1
          /\ scoped'[Len(scoped) + 1] = x /\ \A i \in 1..Len(scoped) : scoped'[i] = scoped[i]
      BY <2>1, <2>2, <2>a
    <2>5. ASSUME NEW i \in 1..Len(scoped') PROVE scoped'[i].mw = <<"scoped", i>>
      <3>1. i \in 1..Len(scoped) \/ i = Len(scoped) + 1
        BY <2>2, <2>4
      <3> QED
        BY <2>4, <2>a, <3>1 DEF PipelineInv, m
    <2> QED
      BY <2>1, <2>4, <2>5 DEF PipelineInv
  <1> QED
    BY <1>1, <1>2, <1>3, <1>4

LEMMA ServeStep ==
    ASSUME PipelineInv, RouterTypes,
           \/ \E p \in Paths, m \in Asked : Receive(p, m)
           \/ RunMiddleware \/ RunRouter \/ UnwindLayer \/ Respond
    PROVE  PipelineInv'
  <1>0. /\ chain \in Seq(Middleware) /\ entered \in Seq(Middleware) /\ UNCHANGED <<globals, scoped>>
    BY DEF PipelineInv, Receive, RunMiddleware, RunRouter, UnwindLayer, Respond, regVars
  <1>1. CASE \E p \in Paths, m \in Asked : Receive(p, m)
    <2>1. PICK p \in Paths : /\ phase = "idle" /\ phase' = "down" /\ request'.path = p
                             /\ chain' = Pipeline(p) /\ entered' = entered
      BY <1>1 DEF Receive
    <2>2. chain' = Layers(globals, scoped, p) /\ chain' \in Seq(Middleware)
      BY <2>1, PipelineLayers, PipelineType
    <2>3. entered = <<>> /\ <<>> \o chain' = chain'
      BY <2>1, <2>2 DEF PipelineInv
    <2>4. entered' \o chain' = Layers(globals, scoped, p)
      BY <2>1, <2>2, <2>3
    <2> QED
      BY <1>0, <2>1, <2>2, <2>3, <2>4 DEF PipelineInv
  <1>2. CASE RunMiddleware
    <2>1. phase = "down" /\ chain # <<>> /\ UNCHANGED request
      BY <1>2 DEF RunMiddleware
    <2>2. CASE /\ entered' = Append(entered, Head(chain)) /\ chain' = Tail(chain)
               /\ UNCHANGED phase
      <3>1. Head(chain) \in Middleware /\ Tail(chain) \in Seq(Middleware)
        BY <1>0, <2>1
      <3>2. entered' \in Seq(Middleware) /\ chain' \in Seq(Middleware)
        BY <1>0, <2>2, <3>1
      <3>3. Append(entered, Head(chain)) \o Tail(chain) = entered \o chain
        BY <1>0, <2>1, <3>1
      <3>4. entered' \o chain' = Layers(globals, scoped, request.path) /\ request.path \in Paths
        BY <2>1, <2>2, <3>3 DEF PipelineInv
      <3> QED
        BY <1>0, <2>1, <2>2, <3>2, <3>4 DEF PipelineInv
    <2>3. CASE phase' = "up" /\ chain' = <<>> /\ UNCHANGED entered
      BY <1>0, <2>1, <2>3 DEF PipelineInv
    <2> QED
      BY <1>2, <2>2, <2>3 DEF RunMiddleware
  <1>3. CASE RunRouter
    <2>1. phase' = "up" /\ UNCHANGED <<chain, entered>>
      BY <1>3 DEF RunRouter
    <2> QED
      BY <1>0, <2>1 DEF PipelineInv
  <1>4. CASE UnwindLayer
    <2>1. phase = "up" /\ phase' = "up" /\ entered # <<>> /\ UNCHANGED chain
          /\ entered' = SubSeq(entered, 1, Len(entered) - 1)
      BY <1>4 DEF UnwindLayer, Front
    <2>2. entered' \in Seq(Middleware)
      BY <1>0, <2>1
    <2> QED
      BY <1>0, <2>1, <2>2 DEF PipelineInv
  <1>5. CASE Respond
    <2>1. phase' = "idle" /\ entered = <<>> /\ UNCHANGED <<chain, entered>>
      BY <1>5 DEF Respond
    <2> QED
      BY <1>0, <2>1 DEF PipelineInv
  <1> QED
    BY <1>1, <1>2, <1>3, <1>4, <1>5

(* What a request has passed and what it has still to pass are, in order, the *)
(* layers of its path.                                                        *)
THEOREM PipelineInvariant == RouterSpec => []PipelineInv
  <1> USE RouterAssumption
  <1>1. RouterInit => PipelineInv
    BY PipelineInit
  <1>2. PipelineInv /\ [RouterNext]_routerVars => PipelineInv'
    <2> SUFFICES ASSUME PipelineInv, [RouterNext]_routerVars PROVE PipelineInv'
      OBVIOUS
    <2>1. CASE UNCHANGED routerVars
      BY <2>1 DEF routerVars, PipelineInv
    <2>2. CASE RouterNext
      BY <2>2, RegisterStep, ServeStep DEF RouterNext
    <2> QED
      BY <2>1, <2>2
  <1> QED
    BY <1>1, <1>2, PTL DEF RouterSpec

(* A request that reaches the router has passed exactly the global layers and  *)
(* those whose prefix covers its path, the global ones first, each kind in the *)
(* order of registration (dispatch_with_pipeline).                             *)
THEOREM LayersInOrder == RouterSpec => []PipelineOrder
  <1> USE RouterAssumption
  <1>1. PipelineInv => PipelineOrder
    <2> SUFFICES ASSUME PipelineInv, phase = "down", chain = <<>> PROVE PipelineOrder
      BY DEF PipelineOrder
    <2> DEFINE path == request.path
               M == Matching(path)
               n == Len(globals)
    <2>1. /\ ScopesOK /\ globals \in Seq(Middleware) /\ entered \in Seq(Middleware) /\ path \in Paths
          /\ \A i \in 1..n : globals[i] = <<"global", i>>
      BY DEF PipelineInv, ScopesOK
    <2>2. entered = globals \o M
      <3>1. entered \o chain = entered
        BY <2>1
      <3> QED
        BY <3>1, PipelineLayers DEF PipelineInv
    <2>3. Chosen(M, path, Len(scoped))
      BY <2>1, MatchingChosen
    <2> HIDE DEF M, path
    <2>4. M \in Seq(Middleware) /\ Len(M) \in Nat /\ n \in Nat /\ Len(scoped) \in Nat
      BY <2>1, <2>3 DEF Chosen, ScopesOK
    <2>5. /\ Len(entered) = n + Len(M)
          /\ \A i \in 1..n : entered[i] = globals[i]
          /\ \A i \in 1..Len(M) : entered[n + i] = M[i]
      BY <2>1, <2>2, <2>4
    <2>6. ASSUME NEW i \in 1..Len(entered), ~(i \in 1..n)
          PROVE  i - n \in 1..Len(M) /\ entered[i] = M[i - n]
      <3>1. i - n \in 1..Len(M) /\ n + (i - n) = i
        BY <2>4, <2>5, <2>6
      <3> QED
        BY <2>5, <3>1
    <2>7. ASSUME NEW i \in 1..Len(M)
          PROVE  \E j \in 1..Len(scoped) : Covers(j, path) /\ M[i] = <<"scoped", j>>
      BY <2>1, <2>3 DEF Chosen, ScopesOK
    <2>8. \A j \in 1..Len(scoped) :
              Covers(j, path) <=> /\ Len(scoped[j].prefix) <= Len(path)
                                  /\ scoped[j].prefix = SubSeq(path, 1, Len(scoped[j].prefix))
      <3> SUFFICES ASSUME NEW j \in 1..Len(scoped)
                   PROVE  Covers(j, path) <=> /\ Len(scoped[j].prefix) <= Len(path)
                                              /\ scoped[j].prefix = SubSeq(path, 1, Len(scoped[j].prefix))
        OBVIOUS
      <3> DEFINE q == scoped[j].prefix
      <3>1. q \in Scopes
        <4>1. scoped[j] \in Scope
          BY <2>1 DEF ScopesOK
        <4> QED
          BY <4>1 DEF Scope
      <3>2. q \in Seq(Texts)
        BY <3>1 DEF RouterTypes
      <3>3. SubSeq(q, 1, Len(q)) = q
        BY <3>2
      <3> QED
        BY <3>3 DEF Covers, IsPrefix
    <2> DEFINE covered == {k \in 1..Len(scoped) :
                             Len(scoped[k].prefix) <= Len(path)
                               /\ scoped[k].prefix = SubSeq(path, 1, Len(scoped[k].prefix))}
               S == {scoped[k].mw : k \in covered}
    <2>9. covered = {k \in 1..Len(scoped) : Covers(k, path)}
      BY <2>8
    <2> HIDE DEF covered
    <2>10. ToSet(entered) = ToSet(globals) \cup S
      <3>1. ASSUME NEW x \in ToSet(entered) PROVE x \in ToSet(globals) \cup S
        <4>1. PICK i \in 1..Len(entered) : x = entered[i]
          BY <2>1 DEF ToSet
        <4>2. CASE i \in 1..n
          BY <2>1, <2>5, <4>1, <4>2 DEF ToSet
        <4>3. CASE ~(i \in 1..n)
          <5>1. PICK j \in 1..Len(scoped) : Covers(j, path) /\ x = <<"scoped", j>>
            BY <2>6, <2>7, <4>1, <4>3
          <5>2. j \in covered /\ scoped[j].mw = x
            BY <2>1, <2>9, <5>1 DEF ScopesOK
          <5> QED
            BY <5>2
        <4> QED
          BY <4>2, <4>3
      <3>2. ASSUME NEW x \in ToSet(globals) PROVE x \in ToSet(entered)
        <4>1. PICK i \in 1..n : x = globals[i]
          BY <2>1 DEF ToSet
        <4>2. i \in 1..Len(entered) /\ entered[i] = x
          BY <2>4, <2>5, <4>1
        <4> QED
          BY <2>1, <4>2 DEF ToSet
      <3>3. ASSUME NEW x \in S PROVE x \in ToSet(entered)
        <4>1. PICK j \in covered : x = scoped[j].mw
          OBVIOUS
        <4>2. PICK i \in 1..Len(M) : M[i] = x
          BY <2>3, <2>9, <4>1 DEF Chosen
        <4>3. n + i \in 1..Len(entered) /\ entered[n + i] = x
          BY <2>4, <2>5, <4>2
        <4> QED
          BY <2>1, <4>3 DEF ToSet
      <3> QED
        BY <3>1, <3>2, <3>3
    <2>11. ASSUME NEW i \in 1..Len(entered), NEW j \in 1..Len(entered), i < j
           PROVE  \/ entered[i][1] = "global" /\ entered[j][1] = "scoped"
                  \/ entered[i][1] = entered[j][1] /\ entered[i][2] < entered[j][2]
      <3>1. \A k \in 1..Len(entered) : k \in 1..n => entered[k][1] = "global" /\ entered[k][2] = k
        BY <2>1, <2>5
      <3>2. \A k \in 1..Len(entered) : ~(k \in 1..n) => entered[k][1] = "scoped"
        <4> SUFFICES ASSUME NEW k \in 1..Len(entered), ~(k \in 1..n) PROVE entered[k][1] = "scoped"
          OBVIOUS
        <4>1. PICK l \in 1..Len(scoped) : entered[k] = <<"scoped", l>>
          BY <2>6, <2>7
        <4> QED
          BY <4>1
      <3>3. CASE i \in 1..n /\ j \in 1..n
        BY <2>11, <3>1, <3>3
      <3>4. CASE i \in 1..n /\ ~(j \in 1..n)
        BY <3>1, <3>2, <3>4
      <3>5. CASE ~(i \in 1..n) /\ ~(j \in 1..n)
        <4>1. /\ i - n \in 1..Len(M) /\ entered[i] = M[i - n]
              /\ j - n \in 1..Len(M) /\ entered[j] = M[j - n]
          BY <2>6, <3>5
        <4>2. i - n < j - n
          BY <2>4, <2>11
        <4>3. entered[i][2] < entered[j][2]
          BY <2>3, <4>1, <4>2 DEF Chosen
        <4> QED
          BY <3>2, <3>5, <4>3
      <3>6. ~(~(i \in 1..n) /\ j \in 1..n)
        BY <2>4, <2>5, <2>11
      <3> QED
        BY <3>3, <3>4, <3>5, <3>6
    <2> QED
      BY <2>10, <2>11 DEF PipelineOrder, covered, path
  <1> QED
    BY <1>1, PipelineInvariant, PTL

-----------------------------------------------------------------------------
(***************************************************************************)
(* Router::dispatch: it answers as the registrations say.                    *)
(***************************************************************************)

(* Induction over 0..n. *)
LEMMA Upward ==
    ASSUME NEW n \in Nat, NEW T, 0 \in T, \A i \in 1..n : i - 1 \in T => i \in T
    PROVE  \A i \in 0..n : i \in T
  <1> SUFFICES ASSUME NEW m \in 0..n, m \notin T PROVE FALSE
    OBVIOUS
  <1> DEFINE Bad == {k \in Nat : k \in 0..n /\ k \notin T}
  <1>1. PICK k \in Bad : \A j \in Bad : k <= j
    <2>1. m \in Bad /\ Bad \subseteq Nat
      OBVIOUS
    <2> HIDE DEF Bad
    <2> QED
      BY <2>1, LeastNumber
  <1>2. k \in Nat /\ k \in 1..n /\ k \notin T
    OBVIOUS
  <1>3. k - 1 \in Nat /\ k - 1 \in 0..n /\ ~(k <= k - 1)
    BY <1>2
  <1>4. k - 1 \in T
    BY <1>1, <1>3
  <1> QED
    BY <1>2, <1>4

(* A loop over 1..n that keeps its accumulator in S. *)
LEMMA LoopExists ==
    ASSUME NEW S, NEW a \in S, NEW n \in Nat, NEW F \in [1..n -> [S -> S]]
    PROVE  \E g \in [0..n -> S] : g[0] = a /\ \A i \in 1..n : g[i] = F[i][g[i - 1]]
  <1> DEFINE Runs(g, k) == g[0] = a /\ \A i \in 1..k : g[i] = F[i][g[i - 1]]
             T == {k \in 0..n : \E g \in [0..k -> S] : Runs(g, k)}
  <1>1. 0 \in T
    <2> DEFINE g == [i \in 0..0 |-> a]
    <2>1. g \in [0..0 -> S] /\ Runs(g, 0)
      OBVIOUS
    <2> HIDE DEF g, Runs
    <2> QED
      BY <2>1
  <1>2. ASSUME NEW k \in 1..n, k - 1 \in T PROVE k \in T
    <2>1. PICK g \in [0..(k - 1) -> S] : Runs(g, k - 1)
      BY <1>2
    <2> DEFINE x == F[k][g[k - 1]]
               f == [i \in 0..k |-> IF i = k THEN x ELSE g[i]]
    <2>2. x \in S
      BY <2>1
    <2> HIDE DEF x
    <2>3. f \in [0..k -> S]
      BY <2>1, <2>2
    <2>4. f[0] = a
      BY <2>1
    <2>5. ASSUME NEW i \in 1..k PROVE f[i] = F[i][f[i - 1]]
      <3>1. i \in 0..k /\ i - 1 \in 0..k /\ i - 1 # k
        OBVIOUS
      <3>2. f[i - 1] = g[i - 1]
        BY <3>1
      <3>3. CASE i = k
        BY <3>1, <3>2, <3>3 DEF x
      <3>4. CASE i # k
        <4>1. i \in 1..(k - 1) /\ f[i] = g[i]
          BY <3>1, <3>4
        <4> QED
          BY <2>1, <3>2, <4>1
      <3> QED
        BY <3>3, <3>4
    <2> HIDE DEF f
    <2>6. Runs(f, k)
      BY <2>4, <2>5
    <2> HIDE DEF Runs
    <2> QED
      BY <2>3, <2>6
  <1> HIDE DEF T
  <1>3. \A i \in 0..n : i \in T
    BY <1>1, <1>2, Upward
  <1>4. n \in T
    BY <1>3
  <1>5. \E g \in [0..n -> S] : Runs(g, n)
    BY <1>4 DEF T
  <1> QED
    BY <1>5

(* s lists the numbers of K up to n, in ascending order. *)
Ordered(s, n, K) ==
    /\ s \in Seq(Nat)
    /\ \A a \in 1..Len(s) : s[a] \in K /\ s[a] \in 1..n
    /\ \A a, b \in 1..Len(s) : a < b => s[a] < s[b]
    /\ \A k \in 1..n : k \in K => \E a \in 1..Len(s) : s[a] = k

NextListed(x, i, K) == IF i \in K THEN Append(x, i) ELSE x

LEMMA OrderedNext ==
    ASSUME NEW s, NEW i \in Nat, i > 0, NEW K, Ordered(s, i - 1, K)
    PROVE  Ordered(NextListed(s, i, K), i, K)
  <1>1. s \in Seq(Nat) /\ Len(s) \in Nat /\ i - 1 \in Nat
    BY DEF Ordered
  <1>2. CASE i \notin K
    <2>1. NextListed(s, i, K) = s
      BY <1>2 DEF NextListed
    <2>2. \A a \in 1..Len(s) : s[a] \in K /\ s[a] \in 1..i
      BY <1>1 DEF Ordered
    <2>3. ASSUME NEW k \in 1..i, k \in K PROVE \E a \in 1..Len(s) : s[a] = k
      <3>1. k \in 1..(i - 1)
        BY <1>1, <1>2, <2>3
      <3> QED
        BY <2>3, <3>1 DEF Ordered
    <2> QED
      BY <2>1, <2>2, <2>3 DEF Ordered
  <1>3. CASE i \in K
    <2> DEFINE t == Append(s, i)
               n == Len(s)
    <2>1. NextListed(s, i, K) = t
      BY <1>3 DEF NextListed
    <2>2. /\ t \in Seq(Nat) /\ Len(t) = n + 1 /\ t[n + 1] = i
          /\ \A a \in 1..n : t[a] = s[a]
      BY <1>1
    <2> HIDE DEF t
    <2>3. ASSUME NEW a \in 1..Len(t) PROVE (a \in 1..n /\ t[a] = s[a]) \/ (a = n + 1 /\ t[a] = i)
      BY <1>1, <2>2
    <2>4. ASSUME NEW a \in 1..Len(t) PROVE t[a] \in K /\ t[a] \in 1..i
      <3>1. CASE a = n + 1 /\ t[a] = i
        BY <1>3, <3>1
      <3>2. CASE a \in 1..n /\ t[a] = s[a]
        <4>1. s[a] \in K /\ s[a] \in 1..(i - 1)
          BY <3>2 DEF Ordered
        <4> QED
          BY <1>1, <3>2, <4>1
      <3> QED
        BY <2>3, <3>1, <3>2
    <2>5. ASSUME NEW a \in 1..Len(t), NEW b \in 1..Len(t), a < b PROVE t[a] < t[b]
      <3>1. a \in 1..n /\ t[a] = s[a]
        BY <1>1, <2>2, <2>3, <2>5
      <3>2. s[a] \in 1..(i - 1)
        BY <3>1 DEF Ordered
      <3>3. CASE b = n + 1 /\ t[b] = i
        BY <1>1, <3>1, <3>2, <3>3
      <3>4. CASE b \in 1..n /\ t[b] = s[b]
        BY <2>5, <3>1, <3>4 DEF Ordered
      <3> QED
        BY <2>3, <3>3, <3>4
    <2>6. ASSUME NEW k \in 1..i, k \in K PROVE \E a \in 1..Len(t) : t[a] = k
      <3>1. CASE k = i
        <4>1. n + 1 \in 1..Len(t)
          BY <1>1, <2>2
        <4> QED
          BY <2>2, <3>1, <4>1
      <3>2. CASE k # i
        <4>1. k \in 1..(i - 1)
          BY <1>1, <3>2
        <4>2. PICK a \in 1..n : s[a] = k
          BY <2>6, <4>1 DEF Ordered
        <4>3. a \in 1..Len(t) /\ t[a] = k
          BY <1>1, <2>2, <4>2
        <4> QED
          BY <4>3
      <3> QED
        BY <3>1, <3>2
    <2>7. Ordered(t, i, K)
      BY <2>2, <2>4, <2>5, <2>6 DEF Ordered
    <2> QED
      BY <2>1, <2>7
  <1> QED
    BY <1>2, <1>3

(* Ascending lists a set of numbers in order. *)
LEMMA AscendingOrdered ==
    ASSUME NEW n \in Nat, NEW K
    PROVE  Ordered(Ascending(n, K), n, K)
  <1> DEFINE Rec(f) == f = [i \in 0..n |-> IF i = 0 THEN <<>> ELSE NextListed(f[i - 1], i, K)]
             c == CHOOSE f : Rec(f)
             S == Seq(Nat)
             F == [i \in 1..n |-> [x \in S |-> NextListed(x, i, K)]]
  <1>1. Ascending(n, K) = c[n]
    BY DEF Ascending, NextListed
  <1>2. F \in [1..n -> [S -> S]]
    <2>1. ASSUME NEW i \in 1..n, NEW x \in S PROVE NextListed(x, i, K) \in S
      BY DEF NextListed
    <2> HIDE DEF S
    <2> QED
      BY <2>1
  <1>3. <<>> \in S
    OBVIOUS
  <1> HIDE DEF S, F
  <1>4. PICK g \in [0..n -> S] : g[0] = <<>> /\ \A i \in 1..n : g[i] = F[i][g[i - 1]]
    <2> HIDE DEF Rec, c
    <2> QED
      BY <1>2, <1>3, LoopExists
  <1>5. Rec(g)
    <2>1. ASSUME NEW i \in 0..n PROVE g[i] = IF i = 0 THEN <<>> ELSE NextListed(g[i - 1], i, K)
      <3>1. CASE i = 0
        BY <1>4, <3>1
      <3>2. CASE i # 0
        <4>1. i \in 1..n /\ i - 1 \in 0..n
          BY <3>2
        <4>2. g[i - 1] \in S /\ g[i] = F[i][g[i - 1]]
          BY <1>4, <4>1
        <4> QED
          BY <3>2, <4>1, <4>2 DEF F
      <3> QED
        BY <3>1, <3>2
    <2> QED
      BY <2>1
  <1>6. Rec(c)
    BY <1>5
  <1> HIDE DEF c
  <1>7. c[0] = <<>> /\ \A i \in 1..n : c[i] = NextListed(c[i - 1], i, K)
    <2>1. \A i \in 0..n : c[i] = IF i = 0 THEN <<>> ELSE NextListed(c[i - 1], i, K)
      BY <1>6
    <2>2. 0 \in 0..n /\ \A i \in 1..n : i \in 0..n /\ i # 0
      OBVIOUS
    <2> QED
      BY <2>1, <2>2
  <1> DEFINE T == {i \in 0..n : Ordered(c[i], i, K)}
  <1>8. 0 \in T
    <2>1. Ordered(<<>>, 0, K)
      BY DEF Ordered
    <2> QED
      BY <1>7, <2>1
  <1>9. ASSUME NEW i \in 1..n, i - 1 \in T PROVE i \in T
    <2>1. Ordered(c[i - 1], i - 1, K) /\ i \in Nat /\ i > 0 /\ i \in 0..n
      BY <1>9
    <2>2. Ordered(c[i], i, K)
      BY <1>7, <2>1, OrderedNext
    <2> QED
      BY <2>1, <2>2
  <1> HIDE DEF T
  <1>10. \A i \in 0..n : i \in T
    BY <1>8, <1>9, Upward
  <1>11. Ordered(c[n], n, K)
    BY <1>10 DEF T
  <1> QED
    BY <1>1, <1>11

-----------------------------------------------------------------------------
(* The walk through a trie t along the non-empty tokens of a path. *)

HasIn(t, pos, edge) == Append(pos, edge) \in DOMAIN t

CaptureIn(t, w, edge, value, state) ==
    [pos |-> Append(w.pos, edge), state |-> state,
     captured |-> Append(w.captured, [name |-> t[Append(w.pos, edge)].name, value |-> value])]

DescendIn(t, w, path, k) ==
    IF w.state # "walking" THEN w
    ELSE IF HasIn(t, w.pos, path[k]) THEN [w EXCEPT !.pos = Append(@, path[k])]
    ELSE IF HasIn(t, w.pos, param_child) THEN CaptureIn(t, w, param_child, <<path[k]>>, "walking")
    ELSE IF HasIn(t, w.pos, wildcard_child)
         THEN CaptureIn(t, w, wildcard_child, SubSeq(path, k, Len(path)), "wildcard")
    ELSE [w EXCEPT !.state = "lost"]

WalkStart == [pos |-> <<>>, captured |-> <<>>, state |-> "walking"]

Walks(t, path) ==
    LET w[i \in 0..Len(Segments(path))] ==
            IF i = 0 THEN WalkStart ELSE DescendIn(t, w[i - 1], path, Segments(path)[i])
    IN  w

Reached(t, path) == Walks(t, path)[Len(Segments(path))]

WalkIn(t, path) ==
    IF Reached(t, path).state = "walking" /\ HasIn(t, Reached(t, path).pos, wildcard_child)
    THEN CaptureIn(t, Reached(t, path), wildcard_child, <<>>, "wildcard")
    ELSE Reached(t, path)

LEMMA WalkIs ==
    ASSUME NEW path
    PROVE  Walk(path) = WalkIn(trie, path)
  BY DEF Walk, Descend, Capture, Has, Name, WalkIn, Reached, Walks, WalkStart,
         DescendIn, CaptureIn, HasIn

EdgeSet == Texts \cup {param_child, wildcard_child}

LEMMA EdgesDiffer ==
    /\ param_child # wildcard_child
    /\ param_child \notin Texts /\ wildcard_child \notin Texts
    /\ param_child \in EdgeSet /\ wildcard_child \in EdgeSet
    /\ \A x \in Texts : x \in EdgeSet
  <1>1. param_child # wildcard_child
    BY Zenon DEF param_child, wildcard_child
  <1> QED
    BY <1>1 DEF EdgeSet, Texts

(* What a walk may be. *)
Captures(t) == {[name |-> t[p].name, value |-> v] : p \in DOMAIN t, v \in Seq(Texts)}
WalkSet(t)  == [pos : Seq(EdgeSet), captured : Seq(Captures(t)),
                state : {"walking", "wildcard", "lost"}]

LEMMA CaptureType ==
    ASSUME NEW t, NEW w \in WalkSet(t), NEW edge \in EdgeSet, HasIn(t, w.pos, edge),
           NEW value \in Seq(Texts), NEW s \in {"walking", "wildcard", "lost"}
    PROVE  /\ CaptureIn(t, w, edge, value, s) \in WalkSet(t)
           /\ CaptureIn(t, w, edge, value, s).pos = Append(w.pos, edge)
           /\ CaptureIn(t, w, edge, value, s).state = s
  <1> DEFINE c == [name |-> t[Append(w.pos, edge)].name, value |-> value]
  <1>1. c \in Captures(t)
    BY DEF Captures, HasIn
  <1> HIDE DEF c
  <1>2. w.pos \in Seq(EdgeSet) /\ w.captured \in Seq(Captures(t))
    BY DEF WalkSet
  <1>3. Append(w.pos, edge) \in Seq(EdgeSet)
    BY <1>2
  <1>4. Append(w.captured, c) \in Seq(Captures(t))
    BY <1>1, <1>2
  <1>5. CaptureIn(t, w, edge, value, s) =
            [pos |-> Append(w.pos, edge), state |-> s, captured |-> Append(w.captured, c)]
    BY DEF CaptureIn, c
  <1> QED
    BY <1>3, <1>4, <1>5 DEF WalkSet

LEMMA DescendType ==
    ASSUME NEW t, NEW w \in WalkSet(t), NEW path \in Seq(Texts), NEW k \in 1..Len(path)
    PROVE  DescendIn(t, w, path, k) \in WalkSet(t)
  <1>1. path[k] \in Texts /\ path[k] \in EdgeSet
    <2>1. path[k] \in Texts
      OBVIOUS
    <2> QED
      BY <2>1, EdgesDiffer
  <1>2. <<path[k]>> \in Seq(Texts)
    BY <1>1
  <1>3. SubSeq(path, k, Len(path)) \in Seq(Texts)
    <2>1. Len(path) \in Nat
      OBVIOUS
    <2> QED
      BY <2>1
  <1>4. CASE w.state # "walking"
    BY <1>4 DEF DescendIn
  <1>5. CASE w.state = "walking" /\ HasIn(t, w.pos, path[k])
    <2>1. DescendIn(t, w, path, k) = [w EXCEPT !.pos = Append(@, path[k])]
      BY <1>5 DEF DescendIn
    <2>2. Append(w.pos, path[k]) \in Seq(EdgeSet)
      BY <1>1 DEF WalkSet
    <2> QED
      BY <2>1, <2>2 DEF WalkSet
  <1>6. CASE w.state = "walking" /\ ~HasIn(t, w.pos, path[k]) /\ HasIn(t, w.pos, param_child)
    <2>1. DescendIn(t, w, path, k) = CaptureIn(t, w, param_child, <<path[k]>>, "walking")
      BY <1>6 DEF DescendIn
    <2>2. param_child \in EdgeSet /\ "walking" \in {"walking", "wildcard", "lost"}
      BY EdgesDiffer
    <2> DEFINE v == <<path[k]>>
               s == "walking"
    <2>3. v \in Seq(Texts) /\ s \in {"walking", "wildcard", "lost"} /\ HasIn(t, w.pos, param_child)
      BY <1>2, <1>6
    <2> HIDE DEF v, s
    <2>4. CaptureIn(t, w, param_child, v, s) \in WalkSet(t)
      BY <2>2, <2>3, CaptureType
    <2> QED
      BY <2>1, <2>4 DEF v, s
  <1>7. CASE /\ w.state = "walking" /\ ~HasIn(t, w.pos, path[k]) /\ ~HasIn(t, w.pos, param_child)
             /\ HasIn(t, w.pos, wildcard_child)
    <2>1. DescendIn(t, w, path, k) =
              CaptureIn(t, w, wildcard_child, SubSeq(path, k, Len(path)), "wildcard")
      BY <1>7 DEF DescendIn
    <2>2. wildcard_child \in EdgeSet /\ "wildcard" \in {"walking", "wildcard", "lost"}
      BY EdgesDiffer
    <2> DEFINE v == SubSeq(path, k, Len(path))
               s == "wildcard"
    <2>3. v \in Seq(Texts) /\ s \in {"walking", "wildcard", "lost"} /\ HasIn(t, w.pos, wildcard_child)
      BY <1>3, <1>7
    <2> HIDE DEF v, s
    <2>4. CaptureIn(t, w, wildcard_child, v, s) \in WalkSet(t)
      BY <2>2, <2>3, CaptureType
    <2> QED
      BY <2>1, <2>4 DEF v, s
  <1>8. CASE /\ w.state = "walking" /\ ~HasIn(t, w.pos, path[k]) /\ ~HasIn(t, w.pos, param_child)
             /\ ~HasIn(t, w.pos, wildcard_child)
    BY <1>8 DEF DescendIn, WalkSet
  <1> QED
    BY <1>4, <1>5, <1>6, <1>7, <1>8

LEMMA SegmentsType ==
    ASSUME NEW path \in Seq(Texts)
    PROVE  /\ Segments(path) \in Seq(1..Len(path))
           /\ Len(Segments(path)) \in Nat
           /\ \A i \in 1..Len(Segments(path)) : Segments(path)[i] \in 1..Len(path)
  <1> DEFINE s == Segments(path)
             K == {i \in 1..Len(path) : path[i] # ""}
  <1>1. s = Ascending(Len(path), K)
    BY DEF Segments
  <1> HIDE DEF s, K
  <1>2. Ordered(s, Len(path), K)
    <2>1. Len(path) \in Nat
      OBVIOUS
    <2> QED
      BY <1>1, <2>1, AscendingOrdered
  <1>3. s \in Seq(Nat) /\ \A i \in 1..Len(s) : s[i] \in 1..Len(path)
    BY <1>2 DEF Ordered
  <1>4. s \in Seq(1..Len(path)) /\ Len(s) \in Nat
    <2>1. Len(s) \in Nat /\ s = [i \in 1..Len(s) |-> s[i]]
      BY <1>3
    <2> QED
      BY <1>3, <2>1
  <1> QED
    BY <1>3, <1>4 DEF s

(* The loop of Walk runs. *)
LEMMA WalksRun ==
    ASSUME NEW t, NEW path \in Seq(Texts)
    PROVE  /\ \A i \in 0..Len(Segments(path)) : Walks(t, path)[i] \in WalkSet(t)
           /\ Walks(t, path)[0] = WalkStart
           /\ \A i \in 1..Len(Segments(path)) :
                  Walks(t, path)[i] = DescendIn(t, Walks(t, path)[i - 1], path, Segments(path)[i])
  <1> DEFINE segs == Segments(path)
             n == Len(segs)
             S == WalkSet(t)
             Rec(f) == f = [i \in 0..n |-> IF i = 0 THEN WalkStart
                                           ELSE DescendIn(t, f[i - 1], path, segs[i])]
             c == CHOOSE f : Rec(f)
             F == [i \in 1..n |-> [x \in S |-> DescendIn(t, x, path, segs[i])]]
  <1>0. n \in Nat /\ \A i \in 1..n : segs[i] \in 1..Len(path)
    BY SegmentsType
  <1>1. Walks(t, path) = c
    BY DEF Walks
  <1> HIDE DEF segs
  <1>2. ASSUME NEW i \in 1..n, NEW x \in S PROVE DescendIn(t, x, path, segs[i]) \in S
    BY <1>0, DescendType
  <1>3. WalkStart \in S
    BY DEF WalkStart, WalkSet
  <1> HIDE DEF S, n
  <1>4. F \in [1..n -> [S -> S]]
    BY <1>2
  <1> HIDE DEF F
  <1>5. PICK g \in [0..n -> S] : g[0] = WalkStart /\ \A i \in 1..n : g[i] = F[i][g[i - 1]]
    <2> HIDE DEF Rec, c
    <2>1. n \in Nat
      BY <1>0
    <2> QED
      BY <1>3, <1>4, <2>1, LoopExists
  <1>6. Rec(g)
    <2>1. ASSUME NEW i \in 0..n
          PROVE  g[i] = IF i = 0 THEN WalkStart ELSE DescendIn(t, g[i - 1], path, segs[i])
      <3>1. CASE i = 0
        BY <1>5, <3>1
      <3>2. CASE i # 0
        <4>1. i \in 1..n /\ i - 1 \in 0..n
          BY <1>0, <3>2
        <4>2. g[i - 1] \in S /\ g[i] = F[i][g[i - 1]]
          BY <1>5, <4>1
        <4> QED
          BY <3>2, <4>1, <4>2 DEF F
      <3> QED
        BY <3>1, <3>2
    <2> QED
      BY <2>1
  <1>7. Rec(c)
    BY <1>6
  <1> HIDE DEF c
  <1>8. c[0] = WalkStart /\ \A i \in 1..n : c[i] = DescendIn(t, c[i - 1], path, segs[i])
    <2>1. \A i \in 0..n : c[i] = IF i = 0 THEN WalkStart ELSE DescendIn(t, c[i - 1], path, segs[i])
      BY <1>7
    <2>2. 0 \in 0..n /\ \A i \in 1..n : i \in 0..n /\ i # 0
      BY <1>0
    <2> QED
      BY <2>1, <2>2
  <1> DEFINE T == {i \in 0..n : c[i] \in S}
  <1>9. 0 \in T /\ \A i \in 1..n : i - 1 \in T => i \in T
    <2>1. 0 \in T
      BY <1>0, <1>3, <1>8
    <2>2. ASSUME NEW i \in 1..n, i - 1 \in T PROVE i \in T
      <3>1. c[i - 1] \in S /\ i \in 0..n
        BY <1>0, <2>2
      <3> QED
        BY <1>2, <1>8, <3>1
    <2> QED
      BY <2>1, <2>2
  <1> HIDE DEF T
  <1>10. \A i \in 0..n : i \in T
    BY <1>0, <1>9, Upward
  <1>11. \A i \in 0..n : c[i] \in S
    BY <1>10 DEF T
  <1> QED
    BY <1>1, <1>8, <1>11 DEF S, n, segs

(* The most specific edge below a position that accepts a token. *)
BestEdge(t, pos, tok) ==
    IF HasIn(t, pos, tok) THEN tok
    ELSE IF HasIn(t, pos, param_child) THEN param_child ELSE wildcard_child

LEMMA DescendCases ==
    ASSUME NEW t, NEW w \in WalkSet(t), w.state = "walking",
           NEW path \in Seq(Texts), NEW k \in 1..Len(path)
    PROVE  LET r == DescendIn(t, w, path, k)
               e == BestEdge(t, w.pos, path[k])
           IN  \/ /\ r.state = "walking" /\ r.pos = Append(w.pos, e)
                  /\ HasIn(t, w.pos, e) /\ e # wildcard_child
               \/ /\ r.state = "wildcard" /\ r.pos = Append(w.pos, e)
                  /\ HasIn(t, w.pos, e) /\ e = wildcard_child
               \/ /\ r.state = "lost" /\ r.pos = w.pos
                  /\ ~HasIn(t, w.pos, path[k]) /\ ~HasIn(t, w.pos, param_child)
                  /\ ~HasIn(t, w.pos, wildcard_child)
  <1> DEFINE r == DescendIn(t, w, path, k)
             e == BestEdge(t, w.pos, path[k])
  <1>0. path[k] \in Texts
    OBVIOUS
  <1>1. CASE HasIn(t, w.pos, path[k])
    <2>1. r = [w EXCEPT !.pos = Append(@, path[k])] /\ e = path[k]
      BY <1>1 DEF DescendIn, BestEdge
    <2>2. r.state = "walking" /\ r.pos = Append(w.pos, path[k])
      BY <2>1 DEF WalkSet
    <2>3. e # wildcard_child
      BY <1>0, <2>1, EdgesDiffer
    <2> HIDE DEF r, e
    <2>4. r.pos = Append(w.pos, e) /\ HasIn(t, w.pos, e)
      BY <1>1, <2>1, <2>2
    <2> QED
      BY <2>2, <2>3, <2>4 DEF r, e
  <1>2. CASE ~HasIn(t, w.pos, path[k]) /\ HasIn(t, w.pos, param_child)
    <2>1. r = CaptureIn(t, w, param_child, <<path[k]>>, "walking") /\ e = param_child
      BY <1>2 DEF DescendIn, BestEdge
    <2>2. r.state = "walking" /\ r.pos = Append(w.pos, param_child)
      BY <2>1 DEF CaptureIn
    <2> HIDE DEF r, e
    <2>3. r.pos = Append(w.pos, e) /\ HasIn(t, w.pos, e) /\ e # wildcard_child
      BY <1>2, <2>1, <2>2, EdgesDiffer
    <2> QED
      BY <2>2, <2>3 DEF r, e
  <1>3. CASE /\ ~HasIn(t, w.pos, path[k]) /\ ~HasIn(t, w.pos, param_child)
             /\ HasIn(t, w.pos, wildcard_child)
    <2>1. /\ r = CaptureIn(t, w, wildcard_child, SubSeq(path, k, Len(path)), "wildcard")
          /\ e = wildcard_child
      BY <1>3 DEF DescendIn, BestEdge
    <2>2. r.state = "wildcard" /\ r.pos = Append(w.pos, wildcard_child)
      BY <2>1 DEF CaptureIn
    <2> HIDE DEF r, e
    <2>3. r.pos = Append(w.pos, e) /\ HasIn(t, w.pos, e) /\ e = wildcard_child
      BY <1>3, <2>1, <2>2
    <2> QED
      BY <2>2, <2>3 DEF r, e
  <1>4. CASE /\ ~HasIn(t, w.pos, path[k]) /\ ~HasIn(t, w.pos, param_child)
             /\ ~HasIn(t, w.pos, wildcard_child)
    <2>1. r = [w EXCEPT !.state = "lost"]
      BY <1>4 DEF DescendIn
    <2>2. r.state = "lost" /\ r.pos = w.pos
      BY <2>1 DEF WalkSet
    <2> HIDE DEF r, e
    <2> QED
      BY <1>4, <2>2 DEF r, e
  <1> QED
    BY <1>1, <1>2, <1>3, <1>4

TokensOf(path) ==
    [i \in 1..Len(Segments(path)) |-> path[Segments(path)[i]]]

LEMMA TokensType ==
    ASSUME NEW path \in Seq(Texts)
    PROVE  /\ TokensOf(path) \in Seq(Texts)
           /\ Len(TokensOf(path)) = Len(Segments(path))
           /\ \A i \in 1..Len(Segments(path)) :
                  /\ TokensOf(path)[i] = path[Segments(path)[i]]
                  /\ TokensOf(path)[i] \in Texts
  <1> DEFINE s == Segments(path)
             q == TokensOf(path)
  <1>1. Len(s) \in Nat /\ \A i \in 1..Len(s) : s[i] \in 1..Len(path)
    BY SegmentsType
  <1>2. q = [i \in 1..Len(s) |-> path[s[i]]]
    BY DEF TokensOf
  <1> HIDE DEF s, q
  <1>3. \A i \in 1..Len(s) : path[s[i]] \in Texts
    BY <1>1
  <1>4. q \in Seq(Texts) /\ Len(q) = Len(s) /\ \A i \in 1..Len(s) : q[i] = path[s[i]]
    BY <1>1, <1>2, <1>3
  <1> QED
    BY <1>3, <1>4 DEF s, q

LEMMA AppendFacts ==
    ASSUME NEW S, NEW pos \in Seq(S), NEW e \in S
    PROVE  /\ Append(pos, e) \in Seq(S)
           /\ Len(Append(pos, e)) = Len(pos) + 1
           /\ Append(pos, e)[Len(pos) + 1] = e
           /\ \A j \in 1..Len(pos) : Append(pos, e)[j] = pos[j]
           /\ \A j \in 0..Len(pos) : SubSeq(Append(pos, e), 1, j) = SubSeq(pos, 1, j)
           /\ SubSeq(Append(pos, e), 1, Len(pos)) = pos
  <1> DEFINE q == Append(pos, e)
  <1>1. /\ q \in Seq(S) /\ Len(q) = Len(pos) + 1 /\ q[Len(pos) + 1] = e
        /\ \A j \in 1..Len(pos) : q[j] = pos[j]
    OBVIOUS
  <1>2. Len(pos) \in Nat
    OBVIOUS
  <1> HIDE DEF q
  <1>3. ASSUME NEW j \in 0..Len(pos) PROVE SubSeq(q, 1, j) = SubSeq(pos, 1, j)
    <2> DEFINE x == SubSeq(q, 1, j)
               y == SubSeq(pos, 1, j)
    <2>1. x \in Seq(S) /\ Len(x) = j /\ \A i \in 1..j : x[i] = q[i]
      BY <1>1, <1>2
    <2>2. y \in Seq(S) /\ Len(y) = j /\ \A i \in 1..j : y[i] = pos[i]
      BY <1>2
    <2> HIDE DEF x, y
    <2>3. \A i \in 1..j : x[i] = y[i]
      BY <1>1, <1>2, <2>1, <2>2
    <2>4. x = y
      BY <2>1, <2>2, <2>3, SeqEqual
    <2> QED
      BY <2>4 DEF x, y
  <1>4. SubSeq(pos, 1, Len(pos)) = pos
    OBVIOUS
  <1>5. SubSeq(q, 1, Len(pos)) = pos
    BY <1>2, <1>3, <1>4
  <1> QED
    BY <1>1, <1>3, <1>5 DEF q

(* Each edge of a position is the most specific one. *)
BestWay(t, toks, pos) ==
    \A j \in 1..Len(pos) : pos[j] = BestEdge(t, SubSeq(pos, 1, j - 1), toks[j])

NoWildcard(pos, n) == \A j \in 1..n : pos[j] # wildcard_child

(* After i tokens of the path. *)
WalkInv(t, toks, i, w) ==
    /\ w \in WalkSet(t) /\ w.pos \in DOMAIN t
    /\ BestWay(t, toks, w.pos)
    /\ w.state = "walking" => Len(w.pos) = i /\ NoWildcard(w.pos, i)
    /\ w.state = "wildcard" => /\ Len(w.pos) \in 1..i /\ NoWildcard(w.pos, Len(w.pos) - 1)
                               /\ w.pos[Len(w.pos)] = wildcard_child
    /\ w.state = "lost" => /\ Len(w.pos) < i /\ NoWildcard(w.pos, Len(w.pos))
                           /\ ~HasIn(t, w.pos, toks[Len(w.pos) + 1])
                           /\ ~HasIn(t, w.pos, param_child)
                           /\ ~HasIn(t, w.pos, wildcard_child)

LEMMA BestWayAppend ==
    ASSUME NEW t, NEW toks, NEW pos \in Seq(EdgeSet), NEW e \in EdgeSet, BestWay(t, toks, pos),
           e = BestEdge(t, pos, toks[Len(pos) + 1])
    PROVE  BestWay(t, toks, Append(pos, e))
  <1> DEFINE q == Append(pos, e)
  <1>0. Len(pos) \in Nat
    OBVIOUS
  <1>1. /\ Len(q) = Len(pos) + 1 /\ q[Len(pos) + 1] = e
        /\ \A j \in 1..Len(pos) : q[j] = pos[j]
        /\ \A j \in 0..Len(pos) : SubSeq(q, 1, j) = SubSeq(pos, 1, j)
        /\ SubSeq(q, 1, Len(pos)) = pos
    BY AppendFacts
  <1> HIDE DEF q
  <1>2. ASSUME NEW j \in 1..Len(q) PROVE q[j] = BestEdge(t, SubSeq(q, 1, j - 1), toks[j])
    <2>1. CASE j = Len(pos) + 1
      <3>1. j - 1 = Len(pos)
        BY <1>0, <2>1
      <3> QED
        BY <1>1, <2>1, <3>1
    <2>2. CASE j # Len(pos) + 1
      <3>1. j \in 1..Len(pos) /\ j - 1 \in 0..Len(pos)
        BY <1>0, <1>1, <2>2
      <3>2. q[j] = pos[j] /\ SubSeq(q, 1, j - 1) = SubSeq(pos, 1, j - 1)
        BY <1>1, <3>1
      <3>3. pos[j] = BestEdge(t, SubSeq(pos, 1, j - 1), toks[j])
        BY <3>1 DEF BestWay
      <3> QED
        BY <3>2, <3>3
    <2> QED
      BY <2>1, <2>2
  <1>3. BestWay(t, toks, q)
    BY <1>2 DEF BestWay
  <1> QED
    BY <1>3 DEF q

LEMMA BestEdgeType ==
    ASSUME NEW t, NEW pos, NEW tok \in Texts
    PROVE  BestEdge(t, pos, tok) \in EdgeSet
  BY EdgesDiffer DEF BestEdge

LEMMA WalkStep ==
    ASSUME NEW t, NEW path \in Seq(Texts), NEW i \in 1..Len(Segments(path)), NEW w,
           WalkInv(t, TokensOf(path), i - 1, w)
    PROVE  WalkInv(t, TokensOf(path), i, DescendIn(t, w, path, Segments(path)[i]))
  <1> DEFINE toks == TokensOf(path)
             k == Segments(path)[i]
             r == DescendIn(t, w, path, k)
             tok == path[k]
  <1>0. /\ k \in 1..Len(path) /\ i \in Nat /\ i - 1 \in Nat /\ i > 0
        /\ toks[i] = tok /\ tok \in Texts
    BY SegmentsType, TokensType
  <1>1. w \in WalkSet(t) /\ w.pos \in Seq(EdgeSet) /\ Len(w.pos) \in Nat
    <2>1. w \in WalkSet(t)
      BY DEF WalkInv
    <2>2. w.pos \in Seq(EdgeSet)
      BY <2>1 DEF WalkSet
    <2> QED
      BY <2>1, <2>2
  <1>2. r \in WalkSet(t)
    BY <1>0, <1>1, DescendType
  <1>3. CASE w.state # "walking"
    <2>1. r = w
      BY <1>3 DEF DescendIn
    <2> HIDE DEF r, toks
    <2>2. w.state \in {"wildcard", "lost"}
      BY <1>1, <1>3 DEF WalkSet
    <2>3. CASE w.state = "wildcard"
      <3>1. Len(w.pos) \in 1..i
        BY <1>0, <1>1, <2>3 DEF WalkInv, toks
      <3> QED
        BY <2>1, <2>3, <3>1 DEF WalkInv, toks, r
    <2>4. CASE w.state = "lost"
      <3>1. Len(w.pos) < i
        BY <1>0, <1>1, <2>4 DEF WalkInv, toks
      <3> QED
        BY <2>1, <2>4, <3>1 DEF WalkInv, toks, r
    <2> QED
      BY <2>2, <2>3, <2>4
  <1>4. CASE w.state = "walking"
    <2> DEFINE e == BestEdge(t, w.pos, tok)
               q == Append(w.pos, e)
    <2>1. Len(w.pos) = i - 1 /\ NoWildcard(w.pos, i - 1) /\ BestWay(t, toks, w.pos) /\ w.pos \in DOMAIN t
      BY <1>4 DEF WalkInv
    <2>2. e \in EdgeSet
      BY <1>0, BestEdgeType
    <2>3. \/ /\ r.state = "walking" /\ r.pos = q
             /\ HasIn(t, w.pos, e) /\ e # wildcard_child
          \/ /\ r.state = "wildcard" /\ r.pos = q
             /\ HasIn(t, w.pos, e) /\ e = wildcard_child
          \/ /\ r.state = "lost" /\ r.pos = w.pos
             /\ ~HasIn(t, w.pos, tok) /\ ~HasIn(t, w.pos, param_child)
             /\ ~HasIn(t, w.pos, wildcard_child)
      BY <1>0, <1>1, <1>4, DescendCases
    <2>4. (i - 1) + 1 = i /\ e = BestEdge(t, w.pos, toks[Len(w.pos) + 1])
      BY <1>0, <2>1
    <2>5. HasIn(t, w.pos, e) <=> q \in DOMAIN t
      BY DEF HasIn
    <2> HIDE DEF e, r, toks, tok, k
    <2>6. BestWay(t, toks, q)
      BY <1>1, <2>1, <2>2, <2>4, BestWayAppend
    <2>7. /\ Len(q) = i /\ q[i] = e /\ \A j \in 1..(i - 1) : q[j] = w.pos[j]
      <3>1. /\ Len(q) = Len(w.pos) + 1 /\ q[Len(w.pos) + 1] = e
            /\ \A j \in 1..Len(w.pos) : q[j] = w.pos[j]
        BY <1>1, <2>2, AppendFacts
      <3> HIDE DEF q
      <3> QED
        BY <1>0, <2>1, <2>4, <3>1
    <2> HIDE DEF q
    <2>8. CASE r.state = "walking" /\ r.pos = q /\ HasIn(t, w.pos, e) /\ e # wildcard_child
      <3>1. NoWildcard(q, i)
        <4>1. ASSUME NEW j \in 1..i PROVE q[j] # wildcard_child
          <5>1. CASE j = i
            BY <2>7, <2>8, <5>1
          <5>2. CASE j # i
            <6>1. j \in 1..(i - 1)
              BY <1>0, <5>2
            <6> QED
              BY <2>1, <2>7, <6>1 DEF NoWildcard
          <5> QED
            BY <5>1, <5>2
        <4> QED
          BY <4>1 DEF NoWildcard
      <3>2. WalkInv(t, toks, i, r)
        BY <1>2, <2>5, <2>6, <2>7, <2>8, <3>1 DEF WalkInv
      <3> QED
        BY <3>2 DEF r, toks, k
    <2>9. CASE r.state = "wildcard" /\ r.pos = q /\ HasIn(t, w.pos, e) /\ e = wildcard_child
      <3>1. NoWildcard(q, i - 1)
        BY <2>1, <2>7 DEF NoWildcard
      <3>2. Len(q) \in 1..i /\ q[Len(q)] = wildcard_child /\ Len(q) - 1 = i - 1
        BY <1>0, <2>7, <2>9
      <3>3. WalkInv(t, toks, i, r)
        BY <1>2, <2>5, <2>6, <2>9, <3>1, <3>2 DEF WalkInv
      <3> QED
        BY <3>3 DEF r, toks, k
    <2>10. CASE /\ r.state = "lost" /\ r.pos = w.pos
                /\ ~HasIn(t, w.pos, tok) /\ ~HasIn(t, w.pos, param_child)
                /\ ~HasIn(t, w.pos, wildcard_child)
      <3>1. Len(w.pos) < i /\ NoWildcard(w.pos, Len(w.pos)) /\ toks[Len(w.pos) + 1] = tok
        BY <1>0, <2>1, <2>4
      <3>2. WalkInv(t, toks, i, r)
        BY <1>2, <2>1, <2>10, <3>1 DEF WalkInv
      <3> QED
        BY <3>2 DEF r, toks, k
    <2> QED
      BY <2>3, <2>8, <2>9, <2>10
  <1> QED
    BY <1>3, <1>4

LEMMA WalkReaches ==
    ASSUME NEW t, <<>> \in DOMAIN t, NEW path \in Seq(Texts)
    PROVE  WalkInv(t, TokensOf(path), Len(Segments(path)), Reached(t, path))
  <1> DEFINE n == Len(Segments(path))
             toks == TokensOf(path)
             f == Walks(t, path)
             T == {i \in 0..n : WalkInv(t, toks, i, f[i])}
  <1>0. n \in Nat
    BY SegmentsType
  <1>1. /\ f[0] = WalkStart
        /\ \A i \in 1..n : f[i] = DescendIn(t, f[i - 1], path, Segments(path)[i])
    BY WalksRun
  <1>2. 0 \in T
    <2>1. WalkStart \in WalkSet(t) /\ WalkStart.pos = <<>> /\ WalkStart.state = "walking"
      BY DEF WalkStart, WalkSet
    <2>2. WalkInv(t, toks, 0, WalkStart)
      <3> HIDE DEF toks
      <3> QED
        BY <2>1 DEF WalkInv, BestWay, NoWildcard
    <2> QED
      BY <1>0, <1>1, <2>2
  <1>3. ASSUME NEW i \in 1..n, i - 1 \in T PROVE i \in T
    <2>1. WalkInv(t, toks, i - 1, f[i - 1]) /\ i \in 0..n
      BY <1>0, <1>3
    <2>2. WalkInv(t, toks, i, f[i])
      BY <1>1, <2>1, WalkStep
    <2> QED
      BY <2>1, <2>2
  <1> HIDE DEF T
  <1>4. \A i \in 0..n : i \in T
    BY <1>0, <1>2, <1>3, Upward
  <1>5. WalkInv(t, toks, n, f[n])
    BY <1>0, <1>4 DEF T
  <1> QED
    BY <1>5 DEF Reached

(* Ends of Router, over a trie. *)
Tail0(p) == p # <<>> /\ p[Len(p)] = wildcard_child
EndsIn(t, toks, p) ==
    /\ Len(p) <= Len(toks) + 1
    /\ \A i \in 1..Len(p) : p[i] = wildcard_child => i = Len(p)
    /\ \A i \in 1..Len(p) : i <= Len(toks) => p[i] = BestEdge(t, SubSeq(p, 1, i - 1), toks[i])
    /\ Len(p) = Len(toks) + 1 => Tail0(p)
    /\ Len(p) < Len(toks) => Tail0(p)
    /\ Len(p) = Len(toks) /\ ~Tail0(p) => ~HasIn(t, p, wildcard_child)

(* Every prefix of a position is one. *)
Closed(t) ==
    /\ <<>> \in DOMAIN t
    /\ \A p \in DOMAIN t : p \in Seq(EdgeSet) /\ \A k \in 0..Len(p) : SubSeq(p, 1, k) \in DOMAIN t

LEMMA WalkEnds ==
    ASSUME NEW t, Closed(t), NEW path \in Seq(Texts)
    PROVE  /\ WalkIn(t, path).pos \in DOMAIN t
           /\ WalkIn(t, path).state # "lost" => EndsIn(t, TokensOf(path), WalkIn(t, path).pos)
  <1> DEFINE w == Reached(t, path)
             r == WalkIn(t, path)
             toks == TokensOf(path)
             n == Len(toks)
  <1>0. n \in Nat /\ n = Len(Segments(path)) /\ toks \in Seq(Texts)
    BY TokensType, SegmentsType
  <1>1. WalkInv(t, toks, n, w)
    BY <1>0, WalkReaches DEF Closed
  <1>2. /\ w.state = "walking" /\ HasIn(t, w.pos, wildcard_child) =>
               r.pos = Append(w.pos, wildcard_child) /\ r.state = "wildcard"
        /\ ~(w.state = "walking" /\ HasIn(t, w.pos, wildcard_child)) => r = w
    BY DEF WalkIn, CaptureIn
  <1> HIDE DEF w, r, toks
  <1>3. w.pos \in Seq(EdgeSet) /\ Len(w.pos) \in Nat /\ w.pos \in DOMAIN t /\ BestWay(t, toks, w.pos)
    <2>1. w \in WalkSet(t) /\ w.pos \in DOMAIN t /\ BestWay(t, toks, w.pos)
      BY <1>1 DEF WalkInv
    <2>2. w.pos \in Seq(EdgeSet)
      BY <2>1 DEF WalkSet
    <2> QED
      BY <2>1, <2>2
  <1>4. CASE w.state = "walking" /\ HasIn(t, w.pos, wildcard_child)
    <2> DEFINE q == Append(w.pos, wildcard_child)
    <2>1. Len(w.pos) = n /\ NoWildcard(w.pos, n)
      BY <1>1, <1>4 DEF WalkInv
    <2>2. /\ q \in Seq(EdgeSet) /\ Len(q) = Len(w.pos) + 1 /\ q[Len(w.pos) + 1] = wildcard_child
          /\ \A j \in 1..Len(w.pos) : q[j] = w.pos[j]
          /\ \A j \in 0..Len(w.pos) : SubSeq(q, 1, j) = SubSeq(w.pos, 1, j)
      BY <1>3, AppendFacts, EdgesDiffer
    <2>3. q \in DOMAIN t /\ r.pos = q
      BY <1>2, <1>4 DEF HasIn
    <2> HIDE DEF q
    <2>4. ASSUME NEW i \in 1..Len(q), q[i] = wildcard_child PROVE i = Len(q)
      <3> SUFFICES ASSUME i # Len(q) PROVE FALSE
        OBVIOUS
      <3>1. i \in 1..n /\ q[i] = w.pos[i]
        BY <1>0, <2>1, <2>2
      <3> QED
        BY <2>1, <2>4, <3>1 DEF NoWildcard
    <2>5. ASSUME NEW i \in 1..Len(q), i <= n
          PROVE  q[i] = BestEdge(t, SubSeq(q, 1, i - 1), toks[i])
      <3>1. i \in 1..Len(w.pos) /\ i - 1 \in 0..Len(w.pos)
        BY <1>0, <2>1, <2>5
      <3>2. w.pos[i] = BestEdge(t, SubSeq(w.pos, 1, i - 1), toks[i])
        BY <1>3, <3>1 DEF BestWay
      <3> QED
        BY <2>2, <3>1, <3>2
    <2>6. Len(q) = n + 1 /\ ~(n + 1 < n) /\ n + 1 # n
      BY <1>0, <2>1, <2>2
    <2>7. Tail0(q)
      <3>1. q[Len(q)] = wildcard_child /\ q # <<>>
        BY <1>0, <2>1, <2>2
      <3> QED
        BY <3>1 DEF Tail0
    <2>8. EndsIn(t, toks, q)
      BY <1>0, <2>4, <2>5, <2>6, <2>7 DEF EndsIn
    <2> QED
      BY <2>3, <2>8 DEF r, toks
  <1>5. CASE w.state = "walking" /\ ~HasIn(t, w.pos, wildcard_child)
    <2>1. Len(w.pos) = n /\ NoWildcard(w.pos, n) /\ r = w
      BY <1>1, <1>2, <1>5 DEF WalkInv
    <2>2. ~Tail0(w.pos)
      <3> SUFFICES ASSUME w.pos # <<>> PROVE w.pos[Len(w.pos)] # wildcard_child
        BY DEF Tail0
      <3>1. Len(w.pos) \in 1..n
        BY <1>3, <2>1
      <3> QED
        BY <2>1, <3>1 DEF NoWildcard
    <2>3. EndsIn(t, toks, w.pos)
      <3>1. \A i \in 1..Len(w.pos) : w.pos[i] # wildcard_child
        BY <2>1 DEF NoWildcard
      <3> QED
        BY <1>0, <1>3, <1>5, <2>1, <2>2, <3>1 DEF EndsIn, BestWay
    <2> QED
      BY <1>3, <2>1, <2>3 DEF r, toks
  <1>6. CASE w.state = "wildcard"
    <2>1. /\ Len(w.pos) \in 1..n /\ NoWildcard(w.pos, Len(w.pos) - 1)
          /\ w.pos[Len(w.pos)] = wildcard_child /\ r = w
      BY <1>1, <1>2, <1>6 DEF WalkInv
    <2>2. Tail0(w.pos)
      <3>1. w.pos # <<>>
        BY <1>3, <2>1
      <3> QED
        BY <2>1, <3>1 DEF Tail0
    <2>3. ASSUME NEW i \in 1..Len(w.pos), w.pos[i] = wildcard_child PROVE i = Len(w.pos)
      <3> SUFFICES ASSUME i # Len(w.pos) PROVE FALSE
        OBVIOUS
      <3>1. i \in 1..(Len(w.pos) - 1)
        BY <1>3
      <3> QED
        BY <2>1, <2>3, <3>1 DEF NoWildcard
    <2>4. Len(w.pos) <= n + 1
      BY <1>0, <2>1
    <2>5. EndsIn(t, toks, w.pos)
      BY <1>3, <2>2, <2>3, <2>4 DEF EndsIn, BestWay
    <2> QED
      BY <1>3, <2>1, <2>5 DEF r, toks
  <1>7. CASE w.state = "lost"
    <2>1. r = w
      BY <1>2, <1>7
    <2> QED
      BY <1>3, <1>7, <2>1 DEF r
  <1>8. w.state \in {"walking", "wildcard", "lost"}
    BY <1>1 DEF WalkInv, WalkSet
  <1> QED
    BY <1>4, <1>5, <1>6, <1>7, <1>8

BestUpto(t, toks, p, m) == \A i \in 1..m : p[i] = BestEdge(t, SubSeq(p, 1, i - 1), toks[i])

(* Two positions whose edges are the most specific ones agree. *)
LEMMA BestAgree ==
    ASSUME NEW t, NEW toks, NEW p \in Seq(EdgeSet), NEW q \in Seq(EdgeSet), NEW m \in Nat,
           m <= Len(p), m <= Len(q),
           BestUpto(t, toks, p, m), BestUpto(t, toks, q, m)
    PROVE  SubSeq(p, 1, m) = SubSeq(q, 1, m) /\ \A i \in 1..m : p[i] = q[i]
  <1> DEFINE T == {j \in 0..m : SubSeq(p, 1, j) = SubSeq(q, 1, j)}
  <1>0. Len(p) \in Nat /\ Len(q) \in Nat
    OBVIOUS
  <1>1. 0 \in T
    <2>1. SubSeq(p, 1, 0) = <<>> /\ SubSeq(q, 1, 0) = <<>>
      OBVIOUS
    <2> QED
      BY <2>1
  <1>2. ASSUME NEW j \in 1..m, j - 1 \in T PROVE j \in T
    <2>1. SubSeq(p, 1, j - 1) = SubSeq(q, 1, j - 1)
      BY <1>2
    <2>2. p[j] = q[j]
      BY <2>1 DEF BestUpto
    <2>3. j \in 1..Len(p) /\ j \in 1..Len(q)
      BY <1>0
    <2>4. /\ SubSeq(p, 1, j) = Append(SubSeq(p, 1, j - 1), p[j])
          /\ SubSeq(q, 1, j) = Append(SubSeq(q, 1, j - 1), q[j])
      BY <1>0, <2>3
    <2> QED
      BY <2>1, <2>2, <2>4
  <1> HIDE DEF T
  <1>3. \A j \in 0..m : j \in T
    BY <1>1, <1>2, Upward
  <1>4. ASSUME NEW i \in 1..m PROVE p[i] = q[i]
    <2>1. i - 1 \in 0..m
      OBVIOUS
    <2>2. SubSeq(p, 1, i - 1) = SubSeq(q, 1, i - 1)
      BY <1>3, <2>1 DEF T
    <2> QED
      BY <2>2 DEF BestUpto
  <1> QED
    BY <1>3, <1>4 DEF T

LEMMA WalkUnique ==
    ASSUME NEW t, Closed(t), NEW path \in Seq(Texts), NEW p \in DOMAIN t,
           EndsIn(t, TokensOf(path), p)
    PROVE  WalkIn(t, path).state # "lost" /\ WalkIn(t, path).pos = p
  <1> DEFINE w == Reached(t, path)
             r == WalkIn(t, path)
             toks == TokensOf(path)
             n == Len(toks)
             l == Len(w.pos)
  <1>0. n \in Nat /\ n = Len(Segments(path)) /\ toks \in Seq(Texts)
    BY TokensType, SegmentsType
  <1>1. WalkInv(t, toks, n, w)
    BY <1>0, WalkReaches DEF Closed
  <1>2. /\ w.state = "walking" /\ HasIn(t, w.pos, wildcard_child) =>
               r.pos = Append(w.pos, wildcard_child) /\ r.state = "wildcard"
        /\ ~(w.state = "walking" /\ HasIn(t, w.pos, wildcard_child)) => r = w
    BY DEF WalkIn, CaptureIn
  <1>3. EndsIn(t, toks, p)
    OBVIOUS
  <1> HIDE DEF w, r, toks
  <1>4. w.pos \in Seq(EdgeSet) /\ l \in Nat /\ w.pos \in DOMAIN t /\ BestWay(t, toks, w.pos)
    <2>1. w \in WalkSet(t) /\ w.pos \in DOMAIN t /\ BestWay(t, toks, w.pos)
      BY <1>1 DEF WalkInv
    <2>2. w.pos \in Seq(EdgeSet)
      BY <2>1 DEF WalkSet
    <2> QED
      BY <2>1, <2>2
  <1>5. p \in Seq(EdgeSet) /\ Len(p) \in Nat
    <2>1. p \in Seq(EdgeSet)
      BY DEF Closed
    <2> QED
      BY <2>1
  <1>6. /\ Len(p) <= n + 1
        /\ \A i \in 1..Len(p) : p[i] = wildcard_child => i = Len(p)
        /\ \A i \in 1..Len(p) : i <= n => p[i] = BestEdge(t, SubSeq(p, 1, i - 1), toks[i])
        /\ Len(p) = n + 1 => Tail0(p)
        /\ Len(p) < n => Tail0(p)
        /\ Len(p) = n /\ ~Tail0(p) => ~HasIn(t, p, wildcard_child)
    BY <1>3 DEF EndsIn
  <1>7. l <= n
    BY <1>0, <1>1, <1>4 DEF WalkInv, WalkSet
  <1>8. ASSUME NEW m \in Nat, m <= Len(p), m <= l
        PROVE  SubSeq(p, 1, m) = SubSeq(w.pos, 1, m) /\ \A i \in 1..m : p[i] = w.pos[i]
    <2> DEFINE q == w.pos
    <2>0. q \in Seq(EdgeSet) /\ m <= Len(q) /\ Len(q) \in Nat /\ m <= n
      BY <1>0, <1>4, <1>7, <1>8
    <2>1. ASSUME NEW i \in 1..m PROVE p[i] = BestEdge(t, SubSeq(p, 1, i - 1), toks[i])
      <3> HIDE DEF n
      <3>1. i \in 1..Len(p) /\ i <= n
        BY <1>0, <1>5, <1>8, <2>0
      <3> QED
        BY <1>6, <3>1
    <2>2. ASSUME NEW i \in 1..m PROVE q[i] = BestEdge(t, SubSeq(q, 1, i - 1), toks[i])
      <3>1. i \in 1..Len(q)
        BY <2>0
      <3> QED
        BY <1>4, <3>1 DEF BestWay
    <2> HIDE DEF q
    <2>3. SubSeq(p, 1, m) = SubSeq(q, 1, m) /\ \A i \in 1..m : p[i] = q[i]
      <3>1. BestUpto(t, toks, p, m) /\ BestUpto(t, toks, q, m)
        BY <2>1, <2>2 DEF BestUpto
      <3> QED
        BY <1>5, <1>8, <2>0, <3>1, BestAgree
    <2> QED
      BY <2>3 DEF q
  <1>9. SubSeq(p, 1, Len(p)) = p /\ SubSeq(w.pos, 1, l) = w.pos
    BY <1>4, <1>5
  (* p does not stop before the walk does. *)
  <1>10. ASSUME Len(p) < l \/ (Len(p) = l /\ l < n /\ w.state = "lost") PROVE FALSE
    <2>1. Tail0(p) /\ Len(p) <= l
      BY <1>0, <1>4, <1>5, <1>6, <1>7, <1>10
    <2>2. Len(p) \in 1..Len(p) /\ p[Len(p)] = wildcard_child
      BY <1>5, <2>1 DEF Tail0
    <2>3. w.pos[Len(p)] = wildcard_child
      BY <1>5, <1>8, <2>1, <2>2
    <2>4. CASE w.state = "walking"
      <3>1. NoWildcard(w.pos, n) /\ Len(p) \in 1..n
        BY <1>0, <1>1, <1>5, <1>7, <1>4, <2>1, <2>2, <2>4 DEF WalkInv
      <3> QED
        BY <2>3, <3>1 DEF NoWildcard
    <2>5. CASE w.state = "wildcard"
      <3>1. NoWildcard(w.pos, l - 1) /\ Len(p) \in 1..(l - 1)
        BY <1>1, <1>4, <1>5, <1>10, <2>2, <2>5 DEF WalkInv
      <3> QED
        BY <2>3, <3>1 DEF NoWildcard
    <2>6. CASE w.state = "lost"
      <3>1. NoWildcard(w.pos, l) /\ Len(p) \in 1..l
        BY <1>1, <1>4, <1>5, <2>1, <2>2, <2>6 DEF WalkInv
      <3> QED
        BY <2>3, <3>1 DEF NoWildcard
    <2> QED
      BY <1>1, <2>4, <2>5, <2>6 DEF WalkInv, WalkSet
  <1>11. CASE w.state = "wildcard"
    <2>1. l \in 1..n /\ w.pos[l] = wildcard_child /\ r = w /\ l <= Len(p)
      BY <1>1, <1>2, <1>4, <1>5, <1>10, <1>11 DEF WalkInv
    <2>2. p[l] = wildcard_child /\ SubSeq(p, 1, l) = w.pos /\ l \in 1..Len(p)
      BY <1>4, <1>5, <1>8, <1>9, <2>1
    <2>3. l = Len(p)
      BY <1>6, <2>2
    <2>4. p = w.pos
      BY <1>9, <2>2, <2>3
    <2> QED
      BY <1>11, <2>1, <2>4 DEF r
  <1>12. CASE w.state = "walking"
    <2>1. l = n /\ NoWildcard(w.pos, n) /\ l <= Len(p)
      BY <1>1, <1>4, <1>5, <1>10, <1>12 DEF WalkInv
    <2>2. SubSeq(p, 1, l) = w.pos
      BY <1>4, <1>5, <1>8, <1>9, <2>1
    <2>3. CASE Len(p) = n
      <3>1. p = w.pos
        BY <1>9, <2>1, <2>2, <2>3
      <3>2. ~Tail0(p)
        <4> SUFFICES ASSUME p # <<>> PROVE p[Len(p)] # wildcard_child
          BY DEF Tail0
        <4>1. Len(p) \in 1..n
          BY <1>5, <2>3
        <4> QED
          BY <2>1, <3>1, <4>1 DEF NoWildcard
      <3>3. r = w
        BY <1>2, <1>6, <2>3, <3>1, <3>2
      <3> QED
        BY <1>12, <3>1, <3>3 DEF r
    <2>4. CASE Len(p) = n + 1
      <3>1. p[n + 1] = wildcard_child
        BY <1>6, <2>4 DEF Tail0
      <3>2. p = Append(w.pos, wildcard_child)
        <4>1. SubSeq(p, 1, n + 1) = Append(SubSeq(p, 1, n), p[n + 1])
          BY <1>0, <1>5, <2>4
        <4> QED
          BY <1>9, <2>1, <2>2, <2>4, <3>1, <4>1
      <3>3. HasIn(t, w.pos, wildcard_child)
        BY <3>2 DEF HasIn
      <3> QED
        BY <1>2, <1>12, <3>2, <3>3 DEF r
    <2> QED
      BY <1>0, <1>5, <1>6, <2>1, <2>3, <2>4
  <1>13. CASE w.state = "lost"
    <2>1. /\ l < n /\ ~HasIn(t, w.pos, toks[l + 1]) /\ ~HasIn(t, w.pos, param_child)
          /\ ~HasIn(t, w.pos, wildcard_child)
      BY <1>1, <1>13 DEF WalkInv
    <2>2. l < Len(p)
      BY <1>4, <1>5, <1>10, <1>13, <2>1
    <2>3. SubSeq(p, 1, l) = w.pos
      BY <1>4, <1>5, <1>8, <1>9, <2>2
    <2>4. p[l + 1] = wildcard_child
      <3>1. l + 1 \in 1..Len(p) /\ l + 1 <= n /\ (l + 1) - 1 = l
        BY <1>0, <1>4, <1>5, <2>1, <2>2
      <3>2. p[l + 1] = BestEdge(t, w.pos, toks[l + 1])
        BY <1>6, <2>3, <3>1
      <3> QED
        BY <2>1, <3>2 DEF BestEdge
    <2>5. SubSeq(p, 1, l + 1) = Append(w.pos, wildcard_child)
      <3>1. SubSeq(p, 1, l + 1) = Append(SubSeq(p, 1, l), p[l + 1])
        BY <1>4, <1>5, <2>2
      <3> QED
        BY <2>3, <2>4, <3>1
    <2>6. SubSeq(p, 1, l + 1) \in DOMAIN t
      <3>1. l + 1 \in 0..Len(p)
        BY <1>4, <1>5, <2>2
      <3> QED
        BY <3>1 DEF Closed
    <2> QED
      BY <2>1, <2>5, <2>6 DEF HasIn
  <1>14. w.state \in {"walking", "wildcard", "lost"}
    BY <1>1 DEF WalkInv, WalkSet
  <1> QED
    BY <1>11, <1>12, <1>13, <1>14

-----------------------------------------------------------------------------
(* parse_pattern. *)

SegSet == [kind : {"static", param_child, wildcard_child}, text : Texts]

LEMMA EdgeType ==
    ASSUME NEW seg \in SegSet
    PROVE  Edge(seg) \in EdgeSet
  <1>1. seg.text \in Texts /\ seg.kind \in {"static", param_child, wildcard_child}
    BY DEF SegSet
  <1>2. CASE seg.kind = "static"
    <2>1. Edge(seg) = seg.text
      BY <1>2 DEF Edge
    <2> QED
      BY <1>1, <2>1, EdgesDiffer
  <1>3. CASE seg.kind # "static"
    <2>1. Edge(seg) = seg.kind
      BY <1>3 DEF Edge
    <2> QED
      BY <1>1, <1>3, <2>1, EdgesDiffer
  <1> QED
    BY <1>2, <1>3

LEMMA EdgesType ==
    ASSUME NEW segs \in Seq(SegSet)
    PROVE  /\ Edges(segs) \in Seq(EdgeSet) /\ Len(Edges(segs)) = Len(segs)
           /\ \A i \in 1..Len(segs) : Edges(segs)[i] = Edge(segs[i])
  <1>1. Len(segs) \in Nat /\ \A i \in 1..Len(segs) : segs[i] \in SegSet
    OBVIOUS
  <1>2. \A i \in 1..Len(segs) : Edge(segs[i]) \in EdgeSet
    BY <1>1, EdgeType
  <1>3. Edges(segs) = [i \in 1..Len(segs) |-> Edge(segs[i])]
    BY DEF Edges
  <1> DEFINE q == Edges(segs)
             E(i) == Edge(segs[i])
  <1> HIDE DEF q, E
  <1>4. q = [i \in 1..Len(segs) |-> E(i)] /\ \A i \in 1..Len(segs) : E(i) \in EdgeSet
    BY <1>2, <1>3 DEF q, E
  <1>5. q \in Seq(EdgeSet) /\ Len(q) = Len(segs) /\ \A i \in 1..Len(segs) : q[i] = E(i)
    BY <1>1, <1>4
  <1> QED
    BY <1>5 DEF q, E

LEMMA PatternTokensType ==
    ASSUME NEW pattern \in Seq(Seq(Texts))
    PROVE  /\ PatternTokens(pattern) \in Seq(Seq(Texts))
           /\ \A i \in 1..Len(PatternTokens(pattern)) : PatternTokens(pattern)[i] # <<>>
  <1> DEFINE K == {i \in 2..Len(pattern) : pattern[i] # <<>>}
             n == Len(pattern)
             keep == Ascending(n, K)
             q == PatternTokens(pattern)
  <1>0. n \in Nat
    OBVIOUS
  <1>1. q = [i \in 1..Len(keep) |-> pattern[keep[i]]]
    BY DEF PatternTokens
  <1> HIDE DEF q, keep, K
  <1>2. Ordered(keep, n, K)
    BY <1>0, AscendingOrdered DEF keep
  <1>3. keep \in Seq(Nat) /\ \A i \in 1..Len(keep) : keep[i] \in K /\ keep[i] \in 1..n
    BY <1>2 DEF Ordered
  <1>4. \A i \in 1..Len(keep) : pattern[keep[i]] \in Seq(Texts) /\ pattern[keep[i]] # <<>>
    BY <1>3 DEF K
  <1>5. /\ q \in Seq(Seq(Texts)) /\ Len(q) = Len(keep)
        /\ \A i \in 1..Len(keep) : q[i] = pattern[keep[i]]
    <2> DEFINE V(i) == pattern[keep[i]]
               S == Seq(Texts)
    <2>1. q = [i \in 1..Len(keep) |-> V(i)] /\ \A i \in 1..Len(keep) : V(i) \in S
      BY <1>1, <1>4
    <2>2. Len(keep) \in Nat
      BY <1>3
    <2> HIDE DEF V, S
    <2>3. q \in Seq(S) /\ Len(q) = Len(keep) /\ \A i \in 1..Len(keep) : q[i] = V(i)
      BY <2>1, <2>2
    <2> QED
      BY <2>3 DEF V, S
  <1> QED
    BY <1>4, <1>5 DEF q

LEMMA SegmentType ==
    ASSUME NEW tok \in Seq(Texts), tok # <<>>, WellFormed(tok)
    PROVE  Segment(tok) \in SegSet
  <1>1. CASE ~Braced(tok)
    <2>1. Segment(tok) = [kind |-> "static", text |-> Head(tok)]
      BY <1>1 DEF Segment, IsWildcard
    <2>2. Head(tok) \in Texts
      OBVIOUS
    <2> QED
      BY <2>1, <2>2 DEF SegSet
  <1>2. CASE Braced(tok)
    <2>1. ParamName(tok) # ""
      BY <1>2, Zenon DEF WellFormed
    <2>2. Inner(tok) # <<>> /\ ParamName(tok) = Inner(tok)[1]
      BY <2>1, Zenon DEF ParamName
    <2>3. Inner(tok) \in Seq(Texts)
      <3>1. Len(tok) >= 2
        BY <1>2, Zenon DEF Braced
      <3>2. Len(tok) \in Nat
        OBVIOUS
      <3> QED
        BY <3>1, <3>2 DEF Inner
    <2>4. ParamName(tok) \in Texts
      BY <2>2, <2>3
    <2>5. \/ Segment(tok) = [kind |-> wildcard_child, text |-> ParamName(tok)]
          \/ Segment(tok) = [kind |-> param_child, text |-> ParamName(tok)]
      BY <1>2 DEF Segment
    <2> QED
      BY <2>4, <2>5 DEF SegSet
  <1> QED
    BY <1>1, <1>2

LEMMA ParsedType ==
    ASSUME NEW pattern \in Seq(Seq(Texts)), IsPattern(pattern)
    PROVE  parse_pattern(pattern) \in Seq(SegSet)
  <1> DEFINE toks == PatternTokens(pattern)
             q == parse_pattern(pattern)
             V(i) == Segment(toks[i])
  <1>1. toks \in Seq(Seq(Texts)) /\ \A i \in 1..Len(toks) : toks[i] # <<>>
    BY PatternTokensType
  <1>2. \A i \in 1..Len(toks) : WellFormed(toks[i])
    BY DEF IsPattern
  <1>3. q = [i \in 1..Len(toks) |-> V(i)]
    BY DEF parse_pattern
  <1> HIDE DEF toks, q
  <1>4. ASSUME NEW i \in 1..Len(toks) PROVE V(i) \in SegSet
    <2>1. toks[i] \in Seq(Texts) /\ toks[i] # <<>> /\ WellFormed(toks[i])
      BY <1>1, <1>2
    <2> QED
      BY <2>1, SegmentType
  <1>5. Len(toks) \in Nat
    BY <1>1
  <1> HIDE DEF V
  <1>6. q \in Seq(SegSet)
    BY <1>3, <1>4, <1>5
  <1> QED
    BY <1>6 DEF q

-----------------------------------------------------------------------------
(* Prefixes of sequences. *)

LEMMA PrefixOfPrefix ==
    ASSUME NEW S, NEW s \in Seq(S), NEW k \in 0..Len(s), NEW j \in 0..k
    PROVE  SubSeq(SubSeq(s, 1, k), 1, j) = SubSeq(s, 1, j)
  <1> DEFINE x == SubSeq(s, 1, k)
             y == SubSeq(x, 1, j)
             z == SubSeq(s, 1, j)
  <1>0. Len(s) \in Nat /\ k \in Nat /\ j \in Nat /\ j <= k /\ k <= Len(s)
    OBVIOUS
  <1>1. x \in Seq(S) /\ Len(x) = k /\ \A i \in 1..k : x[i] = s[i]
    BY <1>0
  <1>2. z \in Seq(S) /\ Len(z) = j /\ \A i \in 1..j : z[i] = s[i]
    BY <1>0
  <1> HIDE DEF x, z
  <1>3. y \in Seq(S) /\ Len(y) = j /\ \A i \in 1..j : y[i] = x[i]
    BY <1>0, <1>1
  <1> HIDE DEF y
  <1>4. \A i \in 1..j : y[i] = z[i]
    BY <1>0, <1>1, <1>2, <1>3
  <1>5. y = z
    BY <1>2, <1>3, <1>4, SeqEqual
  <1> QED
    BY <1>5 DEF x, y, z

LEMMA ConcatAt ==
    ASSUME NEW S, NEW a \in Seq(S), NEW b \in Seq(S)
    PROVE  /\ a \o b \in Seq(S) /\ Len(a \o b) = Len(a) + Len(b)
           /\ \A i \in 1..Len(a) : (a \o b)[i] = a[i]
           /\ \A i \in (Len(a) + 1)..(Len(a) + Len(b)) : (a \o b)[i] = b[i - Len(a)]
  OBVIOUS

LEMMA ConcatPrefix ==
    ASSUME NEW S, NEW a \in Seq(S), NEW b \in Seq(S)
    PROVE  /\ a \o b \in Seq(S) /\ Len(a \o b) = Len(a) + Len(b)
           /\ \A k \in 0..Len(a) : SubSeq(a \o b, 1, k) = SubSeq(a, 1, k)
           /\ \A k \in 0..Len(b) : SubSeq(a \o b, 1, Len(a) + k) = a \o SubSeq(b, 1, k)
  <1> DEFINE c == a \o b
  <1>0. Len(a) \in Nat /\ Len(b) \in Nat
    OBVIOUS
  <1>1. /\ c \in Seq(S) /\ Len(c) = Len(a) + Len(b)
        /\ \A i \in 1..Len(a) : c[i] = a[i]
        /\ \A i \in (Len(a) + 1)..(Len(a) + Len(b)) : c[i] = b[i - Len(a)]
    BY ConcatAt
  <1> HIDE DEF c
  <1>2. ASSUME NEW k \in 0..Len(a) PROVE SubSeq(c, 1, k) = SubSeq(a, 1, k)
    <2> DEFINE y == SubSeq(c, 1, k)
               z == SubSeq(a, 1, k)
    <2>1. y \in Seq(S) /\ Len(y) = k /\ \A i \in 1..k : y[i] = c[i]
      BY <1>0, <1>1
    <2>2. z \in Seq(S) /\ Len(z) = k /\ \A i \in 1..k : z[i] = a[i]
      BY <1>0
    <2> HIDE DEF y, z
    <2>3. ASSUME NEW i \in 1..k PROVE y[i] = z[i]
      <3>1. i \in 1..Len(a)
        BY <1>0
      <3> QED
        BY <1>1, <2>1, <2>2, <3>1
    <2>4. y = z
      BY <2>1, <2>2, <2>3, SeqEqual
    <2> QED
      BY <2>4 DEF y, z
  <1>3. ASSUME NEW k \in 0..Len(b) PROVE SubSeq(c, 1, Len(a) + k) = a \o SubSeq(b, 1, k)
    <2> DEFINE y == SubSeq(c, 1, Len(a) + k)
               x == SubSeq(b, 1, k)
               z == a \o x
    <2>0. Len(a) + k \in 0..Len(c) /\ k \in Nat
      BY <1>0, <1>1
    <2>1. y \in Seq(S) /\ Len(y) = Len(a) + k /\ \A i \in 1..(Len(a) + k) : y[i] = c[i]
      BY <1>0, <1>1, <2>0
    <2>2. x \in Seq(S) /\ Len(x) = k /\ \A i \in 1..k : x[i] = b[i]
      BY <1>0
    <2> HIDE DEF x, y
    <2>3. /\ z \in Seq(S) /\ Len(z) = Len(a) + k
          /\ \A i \in 1..Len(a) : z[i] = a[i]
          /\ \A i \in (Len(a) + 1)..(Len(a) + k) : z[i] = x[i - Len(a)]
      <3>0. x \in Seq(S)
        BY <2>2
      <3>1. /\ z \in Seq(S) /\ Len(z) = Len(a) + Len(x)
            /\ \A i \in 1..Len(a) : z[i] = a[i]
            /\ \A i \in (Len(a) + 1)..(Len(a) + Len(x)) : z[i] = x[i - Len(a)]
        BY <3>0, ConcatAt, Zenon
      <3> QED
        BY <2>2, <3>1
    <2> HIDE DEF z
    <2>4. ASSUME NEW i \in 1..(Len(a) + k) PROVE y[i] = z[i]
      <3>1. CASE i \in 1..Len(a)
        BY <1>1, <2>1, <2>3, <3>1
      <3>2. CASE i \notin 1..Len(a)
        <4>1. /\ i \in (Len(a) + 1)..(Len(a) + k) /\ i - Len(a) \in 1..k
              /\ i \in (Len(a) + 1)..(Len(a) + Len(b))
          BY <1>0, <2>0, <3>2
        <4> QED
          BY <1>1, <2>1, <2>2, <2>3, <4>1
      <3> QED
        BY <3>1, <3>2
    <2>5. y = z
      BY <2>1, <2>3, <2>4, SeqEqual
    <2> QED
      BY <2>5 DEF x, y, z
  <1> QED
    BY <1>1, <1>2, <1>3 DEF c

LEMMA EdgesPrefix ==
    ASSUME NEW segs \in Seq(SegSet), NEW k \in 0..Len(segs)
    PROVE  Edges(SubSeq(segs, 1, k)) = SubSeq(Edges(segs), 1, k)
  <1> DEFINE s == SubSeq(segs, 1, k)
             x == Edges(s)
             e == Edges(segs)
             y == SubSeq(e, 1, k)
  <1>0. Len(segs) \in Nat /\ k \in Nat /\ k <= Len(segs)
    OBVIOUS
  <1>1. s \in Seq(SegSet) /\ Len(s) = k /\ \A i \in 1..k : s[i] = segs[i]
    BY <1>0
  <1> HIDE DEF s
  <1>2. x \in Seq(EdgeSet) /\ Len(x) = k /\ \A i \in 1..k : x[i] = Edge(s[i])
    BY <1>1, EdgesType
  <1>3. e \in Seq(EdgeSet) /\ Len(e) = Len(segs) /\ \A i \in 1..Len(segs) : e[i] = Edge(segs[i])
    BY EdgesType
  <1> HIDE DEF x, e
  <1>4. y \in Seq(EdgeSet) /\ Len(y) = k /\ \A i \in 1..k : y[i] = e[i]
    BY <1>0, <1>3
  <1> HIDE DEF y
  <1>5. ASSUME NEW i \in 1..k PROVE x[i] = y[i]
    <2>1. i \in 1..Len(segs)
      BY <1>0
    <2>2. x[i] = Edge(segs[i])
      BY <1>1, <1>2
    <2> QED
      BY <1>3, <1>4, <2>1, <2>2
  <1>6. x = y
    BY <1>2, <1>4, <1>5, SeqEqual
  <1> QED
    BY <1>6 DEF s, x, y, e

-----------------------------------------------------------------------------
(* Registration: what the trie holds, in terms of what was registered. *)

Entry == [base : Seq(EdgeSet), pattern : Seq(SegSet), method : HttpMethods \cup {"none"},
          sig : Seq(STRING)]

(* p is a prefix of a position that was registered. *)
Placed(h, p) ==
    p = <<>> \/ \E i \in 1..Len(h) : \E k \in 1..Len(Full(h[i])) : p = SubSeq(Full(h[i]), 1, k)

(* The last registration of a method at p is number id. *)
Latest(h, p, m, id) ==
    /\ id \in 1..Len(h) /\ Full(h[id]) = p /\ h[id].method = m
    /\ \A i \in 1..Len(h) : Full(h[i]) = p /\ h[i].method = m => i <= id

NodeOK(h, p, node) ==
    /\ node = [name |-> node.name, handlers |-> node.handlers]
    /\ \A m \in DOMAIN node.handlers : m \in HttpMethods /\ Latest(h, p, m, node.handlers[m].id)
    /\ \A i \in 1..Len(h) :
           Full(h[i]) = p /\ h[i].method # "none" => h[i].method \in DOMAIN node.handlers

(* The trie t and the routers rs after the registrations h: the nodes are the *)
(* prefixes of what was registered, and a node has for each method the        *)
(* handler that was registered last.                                          *)
RegInv(t, rs, h) ==
    /\ h \in Seq(Entry)
    /\ \A p : p \in DOMAIN t <=> Placed(h, p)
    /\ \A p \in DOMAIN t : NodeOK(h, p, t[p])
    /\ rs \in Seq(Seq(EdgeSet)) /\ \A i \in 1..Len(rs) : rs[i] \in DOMAIN t

LEMMA MethodNames ==
    /\ kMethodNames \in Seq(HttpMethods) /\ Len(kMethodNames) = 7
    /\ \A i, j \in 1..7 : kMethodNames[i] = kMethodNames[j] => i = j
    /\ \A m \in HttpMethods : \E i \in 1..7 : kMethodNames[i] = m
    /\ "none" \notin HttpMethods
  <1>1. HttpMethods = {"GET", "POST", "PUT", "PATCH", "DELETE", "HEAD", "OPTIONS"}
    <2>1. HttpMethods = {kMethodNames[i] : i \in 1..7}
      BY DEF HttpMethods, ToSet, kMethodNames
    <2> QED
      BY <2>1 DEF kMethodNames
  <1>2. kMethodNames \in Seq(HttpMethods) /\ Len(kMethodNames) = 7
    BY <1>1 DEF kMethodNames
  <1>3. \A i, j \in 1..7 : kMethodNames[i] = kMethodNames[j] => i = j
    BY DEF kMethodNames
  <1>4. \A m \in HttpMethods : \E i \in 1..7 : kMethodNames[i] = m
    BY <1>1 DEF kMethodNames
  <1>5. "none" \notin HttpMethods
    BY <1>1
  <1> QED
    BY <1>2, <1>3, <1>4, <1>5

LEMMA FullType ==
    ASSUME NEW e \in Entry
    PROVE  /\ e.base \in Seq(EdgeSet) /\ e.pattern \in Seq(SegSet)
           /\ e.method \in HttpMethods \cup {"none"}
           /\ Full(e) = e.base \o Edges(e.pattern)
           /\ Full(e) \in Seq(EdgeSet) /\ Len(Full(e)) \in Nat
  <1>1. e.base \in Seq(EdgeSet) /\ e.pattern \in Seq(SegSet) /\ e.method \in HttpMethods \cup {"none"}
    BY DEF Entry
  <1>2. Edges(e.pattern) \in Seq(EdgeSet)
    BY <1>1, EdgesType
  <1>3. Full(e) = e.base \o Edges(e.pattern)
    BY DEF Full
  <1>4. e.base \o Edges(e.pattern) \in Seq(EdgeSet)
    BY <1>1, <1>2
  <1>5. Len(Full(e)) \in Nat
    <2> DEFINE f == Full(e)
    <2>1. f \in Seq(EdgeSet)
      BY <1>3, <1>4
    <2> HIDE DEF f
    <2>2. Len(f) \in Nat
      BY <2>1
    <2> QED
      BY <2>2 DEF f
  <1> QED
    BY <1>1, <1>3, <1>4, <1>5

LEMMA PlacedType ==
    ASSUME NEW h \in Seq(Entry), NEW p, Placed(h, p)
    PROVE  p \in Seq(EdgeSet) /\ \A k \in 0..Len(p) : Placed(h, SubSeq(p, 1, k))
  <1>1. CASE p = <<>>
    <2>1. p \in Seq(EdgeSet) /\ \A k \in 0..Len(p) : SubSeq(p, 1, k) = <<>>
      BY <1>1
    <2> QED
      BY <2>1 DEF Placed
  <1>2. CASE p # <<>>
    <2>1. PICK i \in 1..Len(h) : \E k \in 1..Len(Full(h[i])) : p = SubSeq(Full(h[i]), 1, k)
      BY <1>2 DEF Placed
    <2> DEFINE f == Full(h[i])
    <2>2. f \in Seq(EdgeSet) /\ Len(f) \in Nat
      <3>1. h[i] \in Entry
        OBVIOUS
      <3> QED
        BY <3>1, FullType
    <2>3. PICK k \in 1..Len(f) : p = SubSeq(f, 1, k)
      BY <2>1
    <2> HIDE DEF f
    <2>4. p \in Seq(EdgeSet) /\ Len(p) = k
      BY <2>2, <2>3
    <2>5. ASSUME NEW j \in 0..Len(p) PROVE Placed(h, SubSeq(p, 1, j))
      <3>1. SubSeq(p, 1, j) = SubSeq(f, 1, j)
        <4>1. k \in 0..Len(f) /\ j \in 0..k
          BY <2>2, <2>4
        <4> QED
          BY <2>2, <2>3, <4>1, PrefixOfPrefix
      <3>2. CASE j = 0
        <4>1. SubSeq(f, 1, 0) = <<>>
          BY <2>2
        <4> QED
          BY <3>1, <3>2, <4>1 DEF Placed
      <3>3. CASE j # 0
        <4>1. j \in 1..Len(f)
          BY <2>2, <2>4, <3>3
        <4> QED
          BY <3>1, <4>1 DEF Placed, f
      <3> QED
        BY <3>2, <3>3
    <2> QED
      BY <2>4, <2>5
  <1> QED
    BY <1>1, <1>2

LEMMA RegClosed ==
    ASSUME NEW t, NEW rs, NEW h, RegInv(t, rs, h)
    PROVE  Closed(t)
  <1>1. h \in Seq(Entry) /\ \A p : p \in DOMAIN t <=> Placed(h, p)
    BY DEF RegInv
  <1>2. <<>> \in DOMAIN t
    BY <1>1 DEF Placed
  <1>3. ASSUME NEW p \in DOMAIN t
        PROVE  p \in Seq(EdgeSet) /\ \A k \in 0..Len(p) : SubSeq(p, 1, k) \in DOMAIN t
    BY <1>1, PlacedType
  <1> QED
    BY <1>2, <1>3 DEF Closed

LEMMA FullPlaced ==
    ASSUME NEW h \in Seq(Entry), NEW i \in 1..Len(h)
    PROVE  Placed(h, Full(h[i]))
  <1> DEFINE f == Full(h[i])
  <1>1. f \in Seq(EdgeSet) /\ Len(f) \in Nat
    <2>1. h[i] \in Entry
      OBVIOUS
    <2> QED
      BY <2>1, FullType
  <1>2. CASE f = <<>>
    BY <1>2 DEF Placed
  <1>3. CASE f # <<>>
    <2> HIDE DEF f
    <2>1. Len(f) \in 1..Len(f) /\ f = SubSeq(f, 1, Len(f))
      BY <1>1, <1>3
    <2> QED
      BY <2>1 DEF Placed, f
  <1> QED
    BY <1>2, <1>3

GrownIn(t, base, segs) ==
    [p \in DOMAIN t \cup {base \o Edges(SubSeq(segs, 1, k)) : k \in 1..Len(segs)} |->
        IF p \in DOMAIN t THEN t[p] ELSE EmptyNode(segs[Len(p) - Len(base)].text)]

LEMMA PlacedAppend ==
    ASSUME NEW h \in Seq(Entry), NEW e \in Entry, NEW p
    PROVE  Placed(Append(h, e), p) <=>
               Placed(h, p) \/ \E k \in 1..Len(Full(e)) : p = SubSeq(Full(e), 1, k)
  <1> DEFINE g == Append(h, e)
             n == Len(h)
  <1>0. n \in Nat
    OBVIOUS
  <1>1. Len(g) = n + 1 /\ g[n + 1] = e /\ \A i \in 1..n : g[i] = h[i]
    OBVIOUS
  <1> DEFINE In(x) == \E k \in 1..Len(Full(x)) : p = SubSeq(Full(x), 1, k)
  <1> HIDE DEF g, In
  <1>2. (\E i \in 1..Len(g) : In(g[i])) <=> (\E i \in 1..n : In(h[i])) \/ In(e)
    <2>1. ASSUME NEW i \in 1..Len(g), In(g[i]) PROVE (\E j \in 1..n : In(h[j])) \/ In(e)
      <3>1. CASE i = n + 1
        BY <1>1, <2>1, <3>1
      <3>2. CASE i # n + 1
        <4>1. i \in 1..n
          BY <1>0, <1>1, <3>2
        <4>2. In(h[i])
          BY <1>1, <2>1, <4>1
        <4> QED
          BY <4>1, <4>2
      <3> QED
        BY <3>1, <3>2
    <2>2. ASSUME NEW i \in 1..n, In(h[i]) PROVE \E j \in 1..Len(g) : In(g[j])
      <3>1. i \in 1..Len(g) /\ In(g[i])
        BY <1>0, <1>1, <2>2
      <3> QED
        BY <3>1
    <2>3. ASSUME In(e) PROVE \E j \in 1..Len(g) : In(g[j])
      <3>1. n + 1 \in 1..Len(g) /\ In(g[n + 1])
        BY <1>0, <1>1, <2>3
      <3> QED
        BY <3>1
    <2> QED
      BY <2>1, <2>2, <2>3
  <1>3. Placed(g, p) <=> p = <<>> \/ \E i \in 1..Len(g) : In(g[i])
    BY DEF Placed, In
  <1>4. Placed(h, p) <=> p = <<>> \/ \E i \in 1..n : In(h[i])
    BY DEF Placed, In
  <1>5. Placed(g, p) <=> Placed(h, p) \/ In(e)
    BY <1>2, <1>3, <1>4
  <1> QED
    BY <1>5 DEF g, In

LEMMA GrownDomain ==
    ASSUME NEW t, NEW rs, NEW h, RegInv(t, rs, h), NEW e \in Entry, e.base \in DOMAIN t, NEW p
    PROVE  p \in DOMAIN GrownIn(t, e.base, e.pattern) <=> Placed(Append(h, e), p)
  <1> DEFINE base == e.base
             segs == e.pattern
             E == Edges(segs)
             f == Full(e)
             n == Len(base)
             m == Len(segs)
  <1>0. h \in Seq(Entry) /\ \A q : q \in DOMAIN t <=> Placed(h, q)
    BY DEF RegInv
  <1>1. /\ base \in Seq(EdgeSet) /\ segs \in Seq(SegSet) /\ f = base \o E
        /\ E \in Seq(EdgeSet) /\ Len(E) = m
    BY FullType, EdgesType
  <1>2. n \in Nat /\ m \in Nat
    BY <1>1
  <1>3. base \in DOMAIN t /\ Closed(t)
    BY RegClosed
  <1>4. p \in DOMAIN GrownIn(t, base, segs) <=>
            p \in DOMAIN t \/ \E k \in 1..m : p = base \o Edges(SubSeq(segs, 1, k))
    BY DEF GrownIn
  <1>5. Placed(Append(h, e), p) <=> p \in DOMAIN t \/ \E k \in 1..Len(f) : p = SubSeq(f, 1, k)
    BY <1>0, PlacedAppend
  <1>6. \A k \in 1..m : Edges(SubSeq(segs, 1, k)) = SubSeq(E, 1, k)
    <2>1. ASSUME NEW k \in 1..m PROVE Edges(SubSeq(segs, 1, k)) = SubSeq(E, 1, k)
      <3>1. k \in 0..Len(segs)
        BY <1>2
      <3> QED
        BY <1>1, <3>1, EdgesPrefix
    <2> QED
      BY <2>1
  <1> HIDE DEF base, segs, E, f
  <1>7. /\ Len(f) = n + m
        /\ \A k \in 0..n : SubSeq(f, 1, k) = SubSeq(base, 1, k)
        /\ \A k \in 0..m : SubSeq(f, 1, n + k) = base \o SubSeq(E, 1, k)
    <2>1. /\ base \o E \in Seq(EdgeSet) /\ Len(base \o E) = Len(base) + Len(E)
          /\ \A k \in 0..Len(base) : SubSeq(base \o E, 1, k) = SubSeq(base, 1, k)
          /\ \A k \in 0..Len(E) : SubSeq(base \o E, 1, Len(base) + k) = base \o SubSeq(E, 1, k)
      <3>1. base \in Seq(EdgeSet) /\ E \in Seq(EdgeSet)
        BY <1>1
      <3> QED
        BY <3>1, ConcatPrefix
    <2> QED
      BY <1>1, <2>1
  <1>8. ASSUME NEW k \in 1..m, p = base \o Edges(SubSeq(segs, 1, k))
        PROVE  \E j \in 1..Len(f) : p = SubSeq(f, 1, j)
    <2>1. n + k \in 1..Len(f) /\ k \in 0..m
      BY <1>2, <1>7
    <2>2. p = SubSeq(f, 1, n + k)
      BY <1>6, <1>7, <1>8, <2>1
    <2> QED
      BY <2>1, <2>2
  <1>9. ASSUME NEW k \in 1..Len(f), p = SubSeq(f, 1, k)
        PROVE  p \in DOMAIN t \/ \E j \in 1..m : p = base \o Edges(SubSeq(segs, 1, j))
    <2>1. CASE k <= n
      <3>1. k \in 0..n
        BY <1>2, <1>7, <2>1
      <3>2. p = SubSeq(base, 1, k)
        BY <1>7, <1>9, <3>1
      <3> QED
        BY <1>3, <3>1, <3>2 DEF Closed
    <2>2. CASE ~(k <= n)
      <3>1. k - n \in 1..m /\ k - n \in 0..m /\ n + (k - n) = k
        BY <1>2, <1>7, <2>2
      <3>2. p = base \o SubSeq(E, 1, k - n)
        BY <1>7, <1>9, <3>1
      <3>3. p = base \o Edges(SubSeq(segs, 1, k - n))
        BY <1>6, <3>1, <3>2
      <3> QED
        BY <3>1, <3>3
    <2> QED
      BY <2>1, <2>2
  <1>10. p \in DOMAIN GrownIn(t, base, segs) <=> Placed(Append(h, e), p)
    BY <1>4, <1>5, <1>8, <1>9
  <1> QED
    BY <1>10 DEF base, segs

LEMMA GrownNodes ==
    ASSUME NEW t, NEW rs, NEW h, RegInv(t, rs, h), NEW base, NEW segs,
           NEW p \in DOMAIN GrownIn(t, base, segs)
    PROVE  NodeOK(h, p, GrownIn(t, base, segs)[p])
  <1> DEFINE g == GrownIn(t, base, segs)
  <1>1. g[p] = IF p \in DOMAIN t THEN t[p] ELSE EmptyNode(segs[Len(p) - Len(base)].text)
    BY DEF GrownIn
  <1>2. CASE p \in DOMAIN t
    BY <1>1, <1>2 DEF RegInv
  <1>3. CASE p \notin DOMAIN t
    <2> DEFINE x == segs[Len(p) - Len(base)].text
               node == EmptyNode(x)
    <2>1. g[p] = node
      BY <1>1, <1>3
    <2> HIDE DEF x
    <2>2. node = [name |-> x, handlers |-> <<>>]
      BY DEF EmptyNode
    <2>3. DOMAIN node.handlers = {} /\ node = [name |-> node.name, handlers |-> node.handlers]
      BY <2>2
    <2>4. \A i \in 1..Len(h) : Full(h[i]) # p
      <3>1. h \in Seq(Entry) /\ ~Placed(h, p)
        BY <1>3 DEF RegInv
      <3> QED
        BY <3>1, FullPlaced
    <2> HIDE DEF node
    <2>5. NodeOK(h, p, node)
      BY <2>3, <2>4 DEF NodeOK
    <2> QED
      BY <2>1, <2>5
  <1> QED
    BY <1>2, <1>3

LEMMA NodeAppend ==
    ASSUME NEW h \in Seq(Entry), NEW e \in Entry, NEW p, NEW node, NodeOK(h, p, node),
           e.method = "none" \/ Full(e) # p
    PROVE  NodeOK(Append(h, e), p, node)
  <1> DEFINE g == Append(h, e)
             n == Len(h)
  <1>0. n \in Nat
    OBVIOUS
  <1>1. Len(g) = n + 1 /\ g[n + 1] = e /\ \A i \in 1..n : g[i] = h[i]
    OBVIOUS
  <1> HIDE DEF g
  <1>2. ASSUME NEW i \in 1..Len(g) PROVE (i \in 1..n /\ g[i] = h[i]) \/ (i = n + 1 /\ g[i] = e)
    BY <1>0, <1>1
  <1>3. ASSUME NEW m \in DOMAIN node.handlers
        PROVE  m \in HttpMethods /\ Latest(g, p, m, node.handlers[m].id)
    <2> DEFINE id == node.handlers[m].id
    <2>1. m \in HttpMethods /\ Latest(h, p, m, id)
      BY DEF NodeOK
    <2> HIDE DEF id
    <2>2. id \in 1..Len(g) /\ Full(g[id]) = p /\ g[id].method = m
      BY <1>0, <1>1, <2>1 DEF Latest
    <2>3. ASSUME NEW i \in 1..Len(g), Full(g[i]) = p, g[i].method = m PROVE i <= id
      <3>1. i \in 1..n /\ g[i] = h[i]
        <4>1. g[i] # e
          BY <2>1, <2>3, MethodNames
        <4> QED
          BY <1>2, <4>1
      <3> QED
        BY <2>1, <2>3, <3>1 DEF Latest
    <2>4. Latest(g, p, m, id)
      BY <2>2, <2>3 DEF Latest
    <2> QED
      BY <2>1, <2>4 DEF id
  <1>4. ASSUME NEW i \in 1..Len(g), Full(g[i]) = p, g[i].method # "none"
        PROVE  g[i].method \in DOMAIN node.handlers
    <2>1. i \in 1..n /\ g[i] = h[i]
      BY <1>2, <1>4
    <2> QED
      BY <1>4, <2>1 DEF NodeOK
  <1>5. node = [name |-> node.name, handlers |-> node.handlers]
    BY DEF NodeOK
  <1>6. NodeOK(g, p, node)
    BY <1>3, <1>4, <1>5 DEF NodeOK
  <1> QED
    BY <1>6 DEF g

(* A handler registered for a method replaces the one before. *)
LEMMA NodeInsert ==
    ASSUME NEW h \in Seq(Entry), NEW e \in Entry, NEW node, NodeOK(h, Full(e), node),
           e.method \in HttpMethods, NEW x, x.id = Len(h) + 1, NEW new,
           new = [name |-> node.name,
                  handlers |-> [m \in DOMAIN node.handlers \cup {e.method} |->
                                   IF m = e.method THEN x ELSE node.handlers[m]]]
    PROVE  NodeOK(Append(h, e), Full(e), new)
  <1> DEFINE g == Append(h, e)
             n == Len(h)
             p == Full(e)
             D == DOMAIN node.handlers
             H == [m \in D \cup {e.method} |-> IF m = e.method THEN x ELSE node.handlers[m]]
  <1>0. n \in Nat
    OBVIOUS
  <1>1. Len(g) = n + 1 /\ g[n + 1] = e /\ \A i \in 1..n : g[i] = h[i]
    OBVIOUS
  <1>2. new.handlers = H /\ new = [name |-> new.name, handlers |-> new.handlers]
    OBVIOUS
  <1>3. DOMAIN H = D \cup {e.method} /\ H[e.method] = x /\ \A m \in D : m # e.method => H[m] = node.handlers[m]
    OBVIOUS
  <1> HIDE DEF g, H, D, p
  <1>4. ASSUME NEW i \in 1..Len(g) PROVE (i \in 1..n /\ g[i] = h[i]) \/ (i = n + 1 /\ g[i] = e)
    BY <1>0, <1>1
  <1>5. Latest(g, p, e.method, n + 1)
    BY <1>0, <1>1 DEF Latest, p
  <1>6. ASSUME NEW m \in D, m # e.method PROVE m \in HttpMethods /\ Latest(g, p, m, node.handlers[m].id)
    <2> DEFINE id == node.handlers[m].id
    <2>1. m \in HttpMethods /\ Latest(h, p, m, id)
      BY DEF NodeOK, D, p
    <2> HIDE DEF id
    <2>2. id \in 1..Len(g) /\ Full(g[id]) = p /\ g[id].method = m
      BY <1>0, <1>1, <2>1 DEF Latest
    <2>3. ASSUME NEW i \in 1..Len(g), Full(g[i]) = p, g[i].method = m PROVE i <= id
      <3>1. i \in 1..n /\ g[i] = h[i]
        BY <1>4, <1>6, <2>3
      <3> QED
        BY <2>1, <2>3, <3>1 DEF Latest
    <2>4. Latest(g, p, m, id)
      BY <2>2, <2>3 DEF Latest
    <2> QED
      BY <2>1, <2>4 DEF id
  <1>7. ASSUME NEW m \in DOMAIN H PROVE m \in HttpMethods /\ Latest(g, p, m, H[m].id)
    <2>1. CASE m = e.method
      BY <1>3, <1>5, <2>1
    <2>2. CASE m # e.method
      <3>1. m \in D /\ H[m] = node.handlers[m]
        BY <1>3, <2>2
      <3> QED
        BY <1>6, <2>2, <3>1
    <2> QED
      BY <2>1, <2>2
  <1>8. ASSUME NEW i \in 1..Len(g), Full(g[i]) = p, g[i].method # "none" PROVE g[i].method \in DOMAIN H
    <2>1. CASE i \in 1..n /\ g[i] = h[i]
      <3>1. h[i].method \in D
        BY <1>8, <2>1 DEF NodeOK, D, p
      <3> QED
        BY <1>3, <2>1, <3>1
    <2>2. CASE g[i] = e
      BY <1>3, <2>2
    <2> QED
      BY <1>4, <2>1, <2>2
  <1>9. NodeOK(g, p, new)
    BY <1>2, <1>7, <1>8 DEF NodeOK
  <1> QED
    BY <1>9 DEF g, p

LEMMA GrownIs ==
    ASSUME NEW base, NEW segs
    PROVE  EnsureChildren(base, segs) = GrownIn(trie, base, segs)
  BY DEF EnsureChildren, GrownIn

LEMMA RegInit == RouterInit => RegInv(trie, routers, history)
  <1> SUFFICES ASSUME RouterInit PROVE RegInv(trie, routers, history)
    OBVIOUS
  <1> DEFINE x == ""
             node == EmptyNode(x)
  <1>1. trie = [p \in {<<>>} |-> node] /\ routers = <<<<>>>> /\ history = <<>>
    BY Zenon DEF RouterInit
  <1> HIDE DEF x
  <1>2. node = [name |-> x, handlers |-> <<>>]
    BY DEF EmptyNode
  <1>3. DOMAIN node.handlers = {} /\ node = [name |-> node.name, handlers |-> node.handlers]
    BY <1>2
  <1> HIDE DEF node
  <1>4. history \in Seq(Entry) /\ Len(history) = 0
    BY <1>1
  <1>5. \A p : Placed(history, p) <=> p = <<>>
    BY <1>4 DEF Placed
  <1>6. DOMAIN trie = {<<>>} /\ \A p \in DOMAIN trie : trie[p] = node
    BY <1>1
  <1>7. \A p : NodeOK(history, p, node)
    BY <1>3, <1>4 DEF NodeOK
  <1>8. routers \in Seq(Seq(EdgeSet)) /\ Len(routers) = 1 /\ routers[1] = <<>>
    <2>1. <<>> \in Seq(EdgeSet)
      OBVIOUS
    <2> QED
      BY <1>1, <2>1
  <1>9. \A i \in 1..Len(routers) : routers[i] \in DOMAIN trie
    BY <1>6, <1>8
  <1> QED
    BY <1>4, <1>5, <1>6, <1>7, <1>8, <1>9 DEF RegInv

(* A group prefix, or a route, is added to the trie. *)
LEMMA RegGroup ==
    ASSUME NEW t, NEW rs, NEW h, RegInv(t, rs, h), NEW e \in Entry, e.base \in DOMAIN t,
           e.method = "none"
    PROVE  RegInv(GrownIn(t, e.base, e.pattern), Append(rs, Full(e)), Append(h, e))
  <1> DEFINE u == GrownIn(t, e.base, e.pattern)
             g == Append(h, e)
             q == Append(rs, Full(e))
  <1>0. h \in Seq(Entry) /\ rs \in Seq(Seq(EdgeSet)) /\ \A i \in 1..Len(rs) : rs[i] \in DOMAIN t
    BY DEF RegInv
  <1>1. g \in Seq(Entry)
    BY <1>0
  <1>2. \A p : p \in DOMAIN u <=> Placed(g, p)
    BY GrownDomain
  <1>3. ASSUME NEW p \in DOMAIN u PROVE NodeOK(g, p, u[p])
    <2>1. NodeOK(h, p, u[p])
      BY GrownNodes
    <2> QED
      BY <1>0, <2>1, NodeAppend
  <1>4. \A p \in DOMAIN t : p \in DOMAIN u
    BY DEF GrownIn
  <1>5. Full(e) \in DOMAIN u /\ Full(e) \in Seq(EdgeSet)
    <2>1. Len(g) \in 1..Len(g) /\ g[Len(g)] = e
      BY <1>0
    <2>2. Placed(g, Full(e))
      <3> HIDE DEF g
      <3> QED
        BY <1>1, <2>1, FullPlaced
    <2> QED
      BY <1>2, <2>2, FullType
  <1> HIDE DEF u, g
  <1>6. q \in Seq(Seq(EdgeSet)) /\ \A i \in 1..Len(q) : q[i] \in DOMAIN u
    <2> DEFINE f == Full(e)
               S == Seq(EdgeSet)
    <2>1. f \in S /\ f \in DOMAIN u /\ rs \in Seq(S) /\ Len(rs) \in Nat
      BY <1>0, <1>5
    <2> HIDE DEF f, S
    <2>2. /\ Append(rs, f) \in Seq(S) /\ Len(Append(rs, f)) = Len(rs) + 1
          /\ Append(rs, f)[Len(rs) + 1] = f /\ \A i \in 1..Len(rs) : Append(rs, f)[i] = rs[i]
      BY <2>1
    <2>3. ASSUME NEW i \in 1..Len(Append(rs, f)) PROVE Append(rs, f)[i] \in DOMAIN u
      <3>1. i \in 1..Len(rs) \/ i = Len(rs) + 1
        BY <2>1, <2>2
      <3> QED
        BY <1>0, <1>4, <2>1, <2>2, <3>1
    <2> QED
      BY <2>2, <2>3 DEF f, S
  <1> HIDE DEF q
  <1>7. RegInv(u, q, g)
    BY <1>1, <1>2, <1>3, <1>6 DEF RegInv
  <1> QED
    BY <1>7 DEF u, g, q

InsertIn(t, base, segs, method, x) ==
    [GrownIn(t, base, segs) EXCEPT ![base \o Edges(segs)].handlers =
        [m \in DOMAIN @ \cup {method} |-> IF m = method THEN x ELSE @[m]]]

LEMMA RegRoute ==
    ASSUME NEW t, NEW rs, NEW h, RegInv(t, rs, h), NEW e \in Entry, e.base \in DOMAIN t,
           e.method \in HttpMethods, NEW x, x.id = Len(h) + 1
    PROVE  RegInv(InsertIn(t, e.base, e.pattern, e.method, x), rs, Append(h, e))
  <1> DEFINE u == GrownIn(t, e.base, e.pattern)
             v == InsertIn(t, e.base, e.pattern, e.method, x)
             g == Append(h, e)
             f == Full(e)
             H == [m \in DOMAIN u[f].handlers \cup {e.method} |->
                      IF m = e.method THEN x ELSE u[f].handlers[m]]
  <1>0. h \in Seq(Entry) /\ rs \in Seq(Seq(EdgeSet)) /\ \A i \in 1..Len(rs) : rs[i] \in DOMAIN t
    BY DEF RegInv
  <1>1. g \in Seq(Entry)
    BY <1>0
  <1>2. \A p : p \in DOMAIN u <=> Placed(g, p)
    BY GrownDomain
  <1>3. ASSUME NEW p \in DOMAIN u PROVE NodeOK(h, p, u[p])
    BY GrownNodes
  <1>4. \A p \in DOMAIN t : p \in DOMAIN u
    BY DEF GrownIn
  <1>5. f \in DOMAIN u
    <2>1. Len(g) \in 1..Len(g) /\ g[Len(g)] = e
      BY <1>0
    <2>2. Placed(g, f)
      <3> HIDE DEF g
      <3> QED
        BY <1>1, <2>1, FullPlaced
    <2> QED
      BY <1>2, <2>2
  <1>6. v = [u EXCEPT ![f].handlers = H]
    <2>1. f = e.base \o Edges(e.pattern)
      BY FullType
    <2> QED
      BY <2>1 DEF InsertIn
  <1>7. NodeOK(h, f, u[f])
    BY <1>3, <1>5
  <1> DEFINE new == [name |-> u[f].name, handlers |-> H]
  <1>8. NodeOK(g, f, new)
    BY <1>0, <1>7, NodeInsert
  <1>9. u[f] = [name |-> u[f].name, handlers |-> u[f].handlers] /\ u = [p \in DOMAIN u |-> u[p]]
    <2>1. u = [p \in DOMAIN u |-> u[p]]
      BY DEF GrownIn
    <2> QED
      BY <1>7, <2>1 DEF NodeOK
  <1> HIDE DEF u, v, H, g, f
  <1>10. DOMAIN v = DOMAIN u /\ v[f] = new /\ \A p \in DOMAIN u : p # f => v[p] = u[p]
    BY <1>5, <1>6, <1>9
  <1> HIDE DEF new
  <1>11. ASSUME NEW p \in DOMAIN v PROVE NodeOK(g, p, v[p])
    <2>1. CASE p = f
      BY <1>8, <1>10, <2>1
    <2>2. CASE p # f
      <3>1. p \in DOMAIN u /\ v[p] = u[p] /\ NodeOK(h, p, u[p])
        BY <1>3, <1>10, <2>2
      <3> QED
        BY <1>0, <2>2, <3>1, NodeAppend DEF f, g
    <2> QED
      BY <2>1, <2>2
  <1>12. RegInv(v, rs, g)
    BY <1>0, <1>1, <1>2, <1>4, <1>10, <1>11 DEF RegInv
  <1> QED
    BY <1>12 DEF v, g

-----------------------------------------------------------------------------
(* Router::dispatch over a trie t. *)

DispatchIn(t, path, method) ==
    LET w == WalkIn(t, path)
        handlers == t[w.pos].handlers
    IN  IF method \notin HttpMethods THEN [NoResponse EXCEPT !.status = 400]
        ELSE IF w.state = "lost" \/ DOMAIN handlers = {} THEN [NoResponse EXCEPT !.status = 404]
        ELSE IF method \in DOMAIN handlers THEN Invoke(handlers[method], w.captured)
        ELSE [NoResponse EXCEPT !.status = 405, !.allow = build_allow_header(DOMAIN handlers)]

LEMMA DispatchIs ==
    ASSUME NEW path, NEW method
    PROVE  Dispatch(path, method) = DispatchIn(trie, path, method)
  <1>1. Walk(path) = WalkIn(trie, path)
    BY WalkIs
  <1> QED
    BY <1>1, SMT DEF Dispatch, DispatchIn

LEMMA InvokeAnswers ==
    ASSUME NEW h, NEW c
    PROVE  /\ Invoke(h, c).status \in {200, 400}
           /\ Invoke(h, c).route = h.id /\ Invoke(h, c).allow = <<>>
  BY SMT DEF Invoke, NoResponse

(* Every method of the mask is listed once. *)
LEMMA AllowLists ==
    ASSUME NEW mask, mask \subseteq HttpMethods
    PROVE  /\ IsInjective(build_allow_header(mask))
           /\ ToSet(build_allow_header(mask)) = mask
  <1> DEFINE names == kMethodNames
             K == {i \in 1..Len(names) : names[i] \in mask}
             keep == Ascending(Len(names), K)
             q == build_allow_header(mask)
  <1>0. /\ Len(names) = 7 /\ \A i, j \in 1..7 : names[i] = names[j] => i = j
        /\ \A m \in HttpMethods : \E i \in 1..7 : names[i] = m
    BY MethodNames
  <1>1. q = [i \in 1..Len(keep) |-> names[keep[i]]]
    BY DEF build_allow_header
  <1>2. Ordered(keep, 7, K)
    <2> HIDE DEF K, names
    <2>1. 7 \in Nat
      OBVIOUS
    <2> QED
      BY <1>0, <2>1, AscendingOrdered
  <1>3. K = {i \in 1..7 : names[i] \in mask}
    BY <1>0
  <1> HIDE DEF names, K, keep, q
  <1>4. /\ keep \in Seq(Nat) /\ \A a \in 1..Len(keep) : keep[a] \in 1..7 /\ names[keep[a]] \in mask
        /\ \A a, b \in 1..Len(keep) : a < b => keep[a] < keep[b]
        /\ \A k \in 1..7 : names[k] \in mask => \E a \in 1..Len(keep) : keep[a] = k
    BY <1>2, <1>3 DEF Ordered
  <1>5. DOMAIN q = 1..Len(keep) /\ \A a \in 1..Len(keep) : q[a] = names[keep[a]]
    BY <1>1
  <1>6. ASSUME NEW a \in DOMAIN q, NEW b \in DOMAIN q, q[a] = q[b] PROVE a = b
    <2>0. /\ keep[a] \in 1..7 /\ keep[b] \in 1..7
          /\ q[a] = names[keep[a]] /\ q[b] = names[keep[b]]
      BY <1>4, <1>5
    <2>1. keep[a] = keep[b] /\ keep[a] \in 1..7
      <3> DEFINE i == keep[a]
                 j == keep[b]
      <3>1. i \in 1..7 /\ j \in 1..7 /\ names[i] = names[j]
        BY <1>6, <2>0
      <3> HIDE DEF i, j
      <3>2. i = j
        BY <1>0, <3>1
      <3> QED
        BY <3>1, <3>2 DEF i, j
    <2>2. a \in 1..Len(keep) /\ b \in 1..Len(keep) /\ a \in Nat /\ b \in Nat /\ ~(keep[a] < keep[b])
      BY <1>5, <2>1
    <2>3. ~(a < b) /\ ~(b < a)
      BY <1>4, <2>1, <2>2
    <2> QED
      BY <2>2, <2>3
  <1>7. IsInjective(q)
    BY <1>6 DEF IsInjective
  <1>8. ASSUME NEW m \in mask PROVE \E a \in DOMAIN q : q[a] = m
    <2>1. PICK i \in 1..7 : names[i] = m
      BY <1>0
    <2>2. PICK a \in 1..Len(keep) : keep[a] = i
      BY <1>4, <2>1
    <2> QED
      BY <1>5, <2>1, <2>2
  <1>9. ToSet(q) = mask
    <2>1. ToSet(q) = {q[a] : a \in DOMAIN q}
      BY DEF ToSet
    <2>2. \A a \in DOMAIN q : q[a] \in mask
      BY <1>4, <1>5
    <2> QED
      BY <1>8, <2>1, <2>2
  <1> QED
    BY <1>7, <1>9 DEF q

(* What RoutesBySpecificity and TypeOK ask of the answer r to a request whose *)
(* walk may end at the positions of ends.                                     *)
Answers(h, ends, method, r) ==
    LET there == {i \in 1..Len(h) : h[i].method # "none" /\ Full(h[i]) \in ends}
        mine  == {i \in there : h[i].method = method}
    IN  /\ \A p, q \in ends : p = q
        /\ IF method \notin HttpMethods
           THEN r.status = 400 /\ r.route = 0
           ELSE IF mine # {}
           THEN r.status \in {200, 400} /\ r.route = Max(mine)
           ELSE IF there # {}
           THEN /\ r.status = 405 /\ IsInjective(r.allow)
                /\ ToSet(r.allow) = {h[i].method : i \in there}
           ELSE r.status = 404

AnswerType(h, r) ==
    /\ r.status \in {200, 400, 404, 405} /\ ToSet(r.allow) \subseteq HttpMethods
    /\ r.route \in 0..Len(h)

Found(t, path) == {p \in DOMAIN t : EndsIn(t, TokensOf(path), p)}

LEMMA FoundIs ==
    ASSUME NEW t, Closed(t), NEW path \in Seq(Texts)
    PROVE  /\ WalkIn(t, path).pos \in DOMAIN t
           /\ Found(t, path) = IF WalkIn(t, path).state = "lost" THEN {} ELSE {WalkIn(t, path).pos}
  <1> DEFINE w == WalkIn(t, path)
  <1>1. w.pos \in DOMAIN t /\ (w.state # "lost" => w.pos \in Found(t, path))
    BY WalkEnds DEF Found
  <1>2. \A p \in Found(t, path) : w.state # "lost" /\ w.pos = p
    BY WalkUnique DEF Found
  <1> HIDE DEF w
  <1>3. w.pos \in DOMAIN t /\ Found(t, path) = IF w.state = "lost" THEN {} ELSE {w.pos}
    BY <1>1, <1>2
  <1> QED
    BY <1>3 DEF w

LEMMA EmptySeqSet == ToSet(<<>>) = {}
  <1> DEFINE x == <<>>
  <1>1. DOMAIN x = {}
    OBVIOUS
  <1> HIDE DEF x
  <1>2. ToSet(x) = {}
    BY <1>1 DEF ToSet
  <1> QED
    BY <1>2 DEF x

LEMMA DispatchAnswers ==
    ASSUME NEW t, NEW rs, NEW h, RegInv(t, rs, h), NEW path \in Seq(Texts), NEW method
    PROVE  /\ Answers(h, Found(t, path), method, DispatchIn(t, path, method))
           /\ AnswerType(h, DispatchIn(t, path, method))
  <1> DEFINE w == WalkIn(t, path)
             handlers == t[w.pos].handlers
             r == DispatchIn(t, path, method)
             ends == Found(t, path)
             there == {i \in 1..Len(h) : h[i].method # "none" /\ Full(h[i]) \in ends}
             mine == {i \in there : h[i].method = method}
  <1>0. h \in Seq(Entry) /\ Len(h) \in Nat
    <2>1. h \in Seq(Entry)
      BY DEF RegInv
    <2> QED
      BY <2>1
  <1>1. w.pos \in DOMAIN t /\ ends = IF w.state = "lost" THEN {} ELSE {w.pos}
    BY RegClosed, FoundIs
  <1>2. NodeOK(h, w.pos, t[w.pos])
    BY <1>1 DEF RegInv
  <1>3. /\ \A m \in DOMAIN handlers : m \in HttpMethods /\ Latest(h, w.pos, m, handlers[m].id)
        /\ \A i \in 1..Len(h) :
               Full(h[i]) = w.pos /\ h[i].method # "none" => h[i].method \in DOMAIN handlers
    BY <1>2 DEF NodeOK
  <1>4. /\ method \notin HttpMethods => r = [NoResponse EXCEPT !.status = 400]
        /\ method \in HttpMethods /\ (w.state = "lost" \/ DOMAIN handlers = {}) =>
               r = [NoResponse EXCEPT !.status = 404]
        /\ method \in HttpMethods /\ w.state # "lost" /\ method \in DOMAIN handlers =>
               r = Invoke(handlers[method], w.captured)
        /\ method \in HttpMethods /\ w.state # "lost" /\ DOMAIN handlers # {} /\ method \notin DOMAIN handlers =>
               r = [NoResponse EXCEPT !.status = 405, !.allow = build_allow_header(DOMAIN handlers)]
    BY SMT DEF DispatchIn
  <1>5. \A p, q \in ends : p = q
    BY <1>1
  <1> HIDE DEF w, handlers, r, ends
  <1>6. w.state = "lost" => there = {}
    BY <1>1
  <1>7. w.state # "lost" => there = {i \in 1..Len(h) : h[i].method # "none" /\ Full(h[i]) = w.pos}
    BY <1>1
  <1>8. w.state # "lost" => {h[i].method : i \in there} = DOMAIN handlers
    <2> SUFFICES ASSUME w.state # "lost" PROVE {h[i].method : i \in there} = DOMAIN handlers
      OBVIOUS
    <2>1. ASSUME NEW m \in DOMAIN handlers PROVE \E i \in there : h[i].method = m
      <3> DEFINE id == handlers[m].id
      <3>1. m \in HttpMethods /\ Latest(h, w.pos, m, id)
        BY <1>3
      <3> HIDE DEF id
      <3>2. m # "none"
        BY <3>1, MethodNames
      <3>3. id \in there /\ h[id].method = m
        BY <1>7, <3>1, <3>2 DEF Latest
      <3> QED
        BY <3>3
    <2>2. \A i \in there : h[i].method \in DOMAIN handlers
      BY <1>3, <1>7
    <2> QED
      BY <2>1, <2>2
  <1>9. (w.state # "lost" /\ method \in DOMAIN handlers) <=> mine # {}
    BY <1>6, <1>8
  <1>10. w.state # "lost" => (there = {} <=> DOMAIN handlers = {})
    BY <1>8
  <1>11. ASSUME w.state # "lost", method \in DOMAIN handlers
         PROVE  handlers[method].id = Max(mine) /\ handlers[method].id \in 1..Len(h)
    <2> DEFINE id == handlers[method].id
    <2>1. method \in HttpMethods /\ Latest(h, w.pos, method, id) /\ method # "none"
      BY <1>3, <1>11, MethodNames
    <2> HIDE DEF id
    <2>2. mine = {i \in 1..Len(h) : Full(h[i]) = w.pos /\ h[i].method = method}
      BY <1>7, <1>11, <2>1
    <2> HIDE DEF mine
    <2>3. id \in mine /\ id \in Nat /\ \A i \in mine : i \in Nat /\ i <= id
      BY <1>0, <2>1, <2>2 DEF Latest
    <2>4. \E x \in mine : \A y \in mine : x >= y
      BY <2>3
    <2>5. Max(mine) \in mine /\ \A y \in mine : Max(mine) >= y
      BY <2>4, Zenon DEF Max
    <2>6. Max(mine) = id
      <3> DEFINE x == Max(mine)
      <3> HIDE DEF x
      <3>1. x \in mine /\ x >= id
        BY <2>3, <2>5 DEF x
      <3>2. x = id
        BY <2>3, <3>1
      <3> QED
        BY <3>2 DEF x
    <2>7. id \in 1..Len(h)
      BY <2>1 DEF Latest
    <2> QED
      BY <2>6, <2>7 DEF id, mine
  <1> HIDE DEF there, mine
  <1> SUFFICES /\ IF method \notin HttpMethods
                  THEN r.status = 400 /\ r.route = 0
                  ELSE IF mine # {}
                  THEN r.status \in {200, 400} /\ r.route = Max(mine)
                  ELSE IF there # {}
                  THEN /\ r.status = 405 /\ IsInjective(r.allow)
                       /\ ToSet(r.allow) = {h[i].method : i \in there}
                  ELSE r.status = 404
               /\ AnswerType(h, r)
    BY <1>5, SMT DEF Answers, there, mine, ends, r
  <1>12. CASE method \notin HttpMethods
    <2>1. r.status = 400 /\ r.route = 0 /\ ToSet(r.allow) = {}
      <3>1. r = [NoResponse EXCEPT !.status = 400]
        BY <1>4, <1>12, SMT
      <3>2. r.status = 400 /\ r.route = 0 /\ r.allow = <<>>
        BY <3>1, SMT DEF NoResponse
      <3> QED
        BY <3>2, EmptySeqSet, SMT
    <2>2. AnswerType(h, r)
      BY <1>0, <2>1, SMT DEF AnswerType
    <2> QED
      BY <1>12, <2>1, <2>2, SMT
  <1>13. CASE method \in HttpMethods /\ (w.state = "lost" \/ DOMAIN handlers = {})
    <2>1. r.status = 404 /\ r.route = 0 /\ ToSet(r.allow) = {}
      <3>1. r = [NoResponse EXCEPT !.status = 404]
        BY <1>4, <1>13, SMT
      <3>2. r.status = 404 /\ r.route = 0 /\ r.allow = <<>>
        BY <3>1, SMT DEF NoResponse
      <3> QED
        BY <3>2, EmptySeqSet, SMT
    <2>2. AnswerType(h, r)
      BY <1>0, <2>1, SMT DEF AnswerType
    <2>3. mine = {} /\ there = {}
      BY <1>6, <1>9, <1>10, <1>13
    <2> QED
      BY <1>13, <2>1, <2>2, <2>3, SMT
  <1>14. CASE method \in HttpMethods /\ w.state # "lost" /\ method \in DOMAIN handlers
    <2>1. r = Invoke(handlers[method], w.captured)
      BY <1>4, <1>14, SMT
    <2>2. r.status \in {200, 400} /\ r.route = handlers[method].id /\ r.allow = <<>>
      BY <2>1, InvokeAnswers, SMT
    <2>3. r.route = Max(mine) /\ r.route \in 1..Len(h) /\ mine # {}
      BY <1>9, <1>11, <1>14, <2>2, SMT
    <2>4. ToSet(r.allow) = {}
      BY <2>2, EmptySeqSet, SMT
    <2>5. AnswerType(h, r)
      BY <1>0, <2>2, <2>3, <2>4, SMT DEF AnswerType
    <2> QED
      BY <1>14, <2>2, <2>3, <2>5, SMT
  <1>15. CASE method \in HttpMethods /\ w.state # "lost" /\ DOMAIN handlers # {} /\ method \notin DOMAIN handlers
    <2> DEFINE allow == build_allow_header(DOMAIN handlers)
    <2>1. DOMAIN handlers \subseteq HttpMethods
      BY <1>3
    <2>2. IsInjective(allow) /\ ToSet(allow) = DOMAIN handlers
      BY <2>1, AllowLists
    <2> HIDE DEF allow
    <2>3. r = [NoResponse EXCEPT !.status = 405, !.allow = allow]
      BY <1>4, <1>15, SMT DEF allow
    <2>4. r.status = 405 /\ r.route = 0 /\ r.allow = allow
      BY <2>3, SMT DEF NoResponse
    <2>5. mine = {} /\ there # {}
      BY <1>9, <1>10, <1>15
    <2>6. AnswerType(h, r)
      BY <1>0, <2>1, <2>2, <2>4, SMT DEF AnswerType
    <2> QED
      BY <1>8, <1>15, <2>2, <2>4, <2>5, <2>6, SMT
  <1> QED
    BY <1>12, <1>13, <1>14, <1>15, Zenon

-----------------------------------------------------------------------------
(* The router is what was registered; an answer on its way up was given by a *)
(* middleware or is what dispatch returns for the request.                    *)
RoutingInv ==
    /\ RegInv(trie, routers, history)
    /\ phase \in {"register", "terminated", "idle", "down", "up"}
    /\ phase \in {"down", "up"} => request.path \in Paths
    /\ phase # "up" => response = NoResponse
    /\ phase = "up" => \/ response = [NoResponse EXCEPT !.status = 401]
                       \/ response = DispatchIn(trie, request.path, request.method)

LEMMA RoutingInit == RouterInit => RoutingInv
  <1> SUFFICES ASSUME RouterInit PROVE RoutingInv
    OBVIOUS
  <1>1. RegInv(trie, routers, history)
    BY RegInit
  <1>2. phase = "register" /\ response = NoResponse
    BY Zenon DEF RouterInit
  <1> QED
    BY <1>1, <1>2, SMT DEF RoutingInv

LEMMA RoutingRegister ==
    ASSUME RouterTypes, RoutingInv, NEW i \in 1..Len(routers), NEW r \in Routes,
           RegisterRoute(routers[i], r)
    PROVE  RoutingInv'
  <1> DEFINE base == routers[i]
             segs == parse_pattern(r.pattern)
             e == [base |-> base, pattern |-> segs, method |-> r.method, sig |-> r.sig]
             x == [id |-> Len(history) + 1, sig |-> r.sig, names |-> ExtractParamNames(segs)]
  <1>1. RegInv(trie, routers, history)
    BY DEF RoutingInv
  <1>2. base \in DOMAIN trie /\ base \in Seq(EdgeSet)
    BY <1>1 DEF RegInv
  <1>3. r.method \in HttpMethods /\ r.pattern \in Seq(Seq(Texts)) /\ r.sig \in Seq(STRING)
    BY DEF RouterTypes
  <1>4. /\ phase = "register" /\ IsPattern(r.pattern)
        /\ trie' = Insert(base, segs, r.method, x)
        /\ history' = Append(history, e)
        /\ routers' = routers /\ phase' = phase /\ request' = request /\ response' = response
    BY Zenon DEF RegisterRoute, Registering
  <1>5. segs \in Seq(SegSet)
    BY <1>3, <1>4, ParsedType
  <1>6. x.id = Len(history) + 1
    OBVIOUS
  <1> HIDE DEF base, segs, x
  <1>7. e \in Entry /\ e.base = base /\ e.pattern = segs /\ e.method = r.method
    BY <1>2, <1>3, <1>5 DEF Entry
  <1>8. trie' = InsertIn(trie, base, segs, r.method, x)
    BY <1>4, GrownIs DEF Insert, InsertIn
  <1> HIDE DEF e
  <1>9. RegInv(InsertIn(trie, e.base, e.pattern, e.method, x), routers, Append(history, e))
    BY <1>1, <1>2, <1>3, <1>6, <1>7, RegRoute
  <1>10. RegInv(trie', routers', history')
    BY <1>4, <1>7, <1>8, <1>9
  <1>11. phase' = "register" /\ response' = NoResponse
    BY <1>4, Zenon DEF RoutingInv
  <1> QED
    BY <1>10, <1>11, SMT DEF RoutingInv, NoResponse

LEMMA RoutingGroup ==
    ASSUME RouterTypes, RoutingInv, NEW i \in 1..Len(routers), NEW prefix \in GroupPrefixes,
           Group(routers[i], prefix)
    PROVE  RoutingInv'
  <1> DEFINE base == routers[i]
             segs == parse_pattern(prefix)
             e == [base |-> base, pattern |-> segs, method |-> "none", sig |-> <<>>]
  <1>1. RegInv(trie, routers, history)
    BY DEF RoutingInv
  <1>2. base \in DOMAIN trie /\ base \in Seq(EdgeSet)
    BY <1>1 DEF RegInv
  <1>3. prefix \in Seq(Seq(Texts))
    BY DEF RouterTypes
  <1>4. /\ phase = "register" /\ IsPattern(prefix)
        /\ trie' = EnsureChildren(base, segs)
        /\ routers' = Append(routers, base \o Edges(segs))
        /\ history' = Append(history, e)
        /\ phase' = phase /\ request' = request /\ response' = response
    BY Zenon DEF Group, Registering
  <1>5. segs \in Seq(SegSet)
    BY <1>3, <1>4, ParsedType
  <1> HIDE DEF base, segs
  <1>6. e \in Entry /\ e.base = base /\ e.pattern = segs /\ e.method = "none"
    BY <1>2, <1>5 DEF Entry
  <1>7. trie' = GrownIn(trie, base, segs)
    BY <1>4, GrownIs
  <1> HIDE DEF e
  <1>8. Full(e) = base \o Edges(segs)
    BY <1>6 DEF Full
  <1>9. RegInv(GrownIn(trie, e.base, e.pattern), Append(routers, Full(e)), Append(history, e))
    BY <1>1, <1>2, <1>6, RegGroup
  <1>10. RegInv(trie', routers', history')
    BY <1>4, <1>6, <1>7, <1>8, <1>9
  <1>11. phase' = "register" /\ response' = NoResponse
    BY <1>4, Zenon DEF RoutingInv
  <1> QED
    BY <1>10, <1>11, SMT DEF RoutingInv, NoResponse

(* The other steps leave the routes alone. *)
LEMMA RoutingServe ==
    ASSUME RouterTypes, RoutingInv,
           \/ \E p \in {r.pattern : r \in Routes} \cup GroupPrefixes : TerminateOn(p)
           \/ Use \/ \E p \in Scopes : UseScoped(p)
           \/ ListenRoutes
           \/ \E p \in Paths, m \in Asked : Receive(p, m)
           \/ RunMiddleware \/ RunRouter \/ UnwindLayer \/ Respond
           \/ UNCHANGED routerVars
    PROVE  RoutingInv'
  <1>1. /\ RegInv(trie, routers, history)
        /\ phase \in {"register", "terminated", "idle", "down", "up"}
        /\ phase \in {"down", "up"} => request.path \in Paths
        /\ phase # "up" => response = NoResponse
    BY Zenon DEF RoutingInv
  <1>2. ASSUME trie' = trie, routers' = routers, history' = history PROVE RegInv(trie', routers', history')
    BY <1>1, <1>2
  (* Registration ends, or a middleware is registered. *)
  <1>3. ASSUME UNCHANGED <<trie, routers, history, response>>, phase # "up",
               phase' \in {"register", "terminated", "idle"}
        PROVE  RoutingInv'
    <2>1. RegInv(trie', routers', history') /\ response' = NoResponse
      BY <1>1, <1>2, <1>3, Zenon
    <2> QED
      BY <1>3, <2>1, SMT DEF RoutingInv, NoResponse
  <1>4. ASSUME NEW p, TerminateOn(p) PROVE RoutingInv'
    <2>1. /\ UNCHANGED <<trie, routers, history, response>> /\ phase = "register"
          /\ phase' = "terminated"
      BY <1>4, Zenon DEF TerminateOn, Registering, regVars
    <2> QED
      BY <1>3, <2>1
  <1>5. ASSUME Use \/ \E p \in Scopes : UseScoped(p) PROVE RoutingInv'
    <2>1. UNCHANGED <<trie, routers, history, response, phase>> /\ phase = "register"
      BY <1>5, Zenon DEF Use, UseScoped, Registering
    <2> QED
      BY <1>3, <2>1
  <1>6. ASSUME ListenRoutes PROVE RoutingInv'
    <2>1. UNCHANGED <<trie, routers, history, response>> /\ phase = "register" /\ phase' = "idle"
      BY <1>6, Zenon DEF ListenRoutes, regVars
    <2> QED
      BY <1>3, <2>1
  <1>7. ASSUME NEW p \in Paths, NEW m \in Asked, Receive(p, m) PROVE RoutingInv'
    <2>1. /\ UNCHANGED <<trie, routers, history, response>> /\ phase = "idle" /\ phase' = "down"
          /\ request' = [path |-> p, method |-> m]
      BY <1>7, Zenon DEF Receive, regVars
    <2>2. RegInv(trie', routers', history') /\ response' = NoResponse
      <3>1. response = NoResponse
        BY <1>1, <2>1
      <3> QED
        BY <1>2, <2>1, <3>1, Zenon
    <2>3. request'.path \in Paths
      BY <2>1
    <2> QED
      BY <2>1, <2>2, <2>3, SMT DEF RoutingInv, NoResponse
  <1>8. ASSUME RunMiddleware PROVE RoutingInv'
    <2> DEFINE refused == [NoResponse EXCEPT !.status = 401]
    <2>1. /\ UNCHANGED <<trie, routers, history, request>> /\ phase = "down"
          /\ \/ phase' = "down" /\ response' = response
             \/ phase' = "up" /\ response' = refused
      BY <1>8, Zenon DEF RunMiddleware, regVars
    <2>2. RegInv(trie', routers', history') /\ request'.path \in Paths /\ response = NoResponse
      <3>1. request.path \in Paths /\ response = NoResponse
        BY <1>1, <2>1
      <3> QED
        BY <1>2, <2>1, <3>1, Zenon
    <2>3. refused' = refused
      BY SMT DEF NoResponse
    <2> QED
      BY <2>1, <2>2, <2>3, SMT DEF RoutingInv, NoResponse
  <1>9. ASSUME RunRouter PROVE RoutingInv'
    <2>1. /\ UNCHANGED <<trie, routers, history, request>> /\ phase = "down" /\ phase' = "up"
          /\ response' = Dispatch(request.path, request.method)
      BY <1>9, Zenon DEF RunRouter, regVars
    <2>2. RegInv(trie', routers', history') /\ request'.path \in Paths
      <3>1. request.path \in Paths
        BY <1>1, <2>1
      <3> QED
        BY <1>2, <2>1, <3>1, Zenon
    <2>3. response' = DispatchIn(trie', request'.path, request'.method)
      <3>1. response' = DispatchIn(trie, request.path, request.method)
        BY <2>1, DispatchIs, Zenon
      <3> QED
        BY <2>1, <3>1, Zenon
    <2> QED
      BY <2>1, <2>2, <2>3, SMT DEF RoutingInv
  <1>10. ASSUME UnwindLayer PROVE RoutingInv'
    <2>1. UNCHANGED <<trie, routers, history, request, response, phase>>
      BY <1>10, Zenon DEF UnwindLayer, regVars
    <2> QED
      BY <2>1, SMT DEF RoutingInv, NoResponse
  <1>11. ASSUME Respond PROVE RoutingInv'
    <2>1. UNCHANGED <<trie, routers, history>> /\ phase' = "idle" /\ response' = NoResponse
      BY <1>11, Zenon DEF Respond, regVars
    <2>2. RegInv(trie', routers', history')
      BY <1>2, <2>1, Zenon
    <2> QED
      BY <2>1, <2>2, SMT DEF RoutingInv, NoResponse
  <1>12. ASSUME UNCHANGED routerVars PROVE RoutingInv'
    <2>1. UNCHANGED <<trie, routers, history, request, response, phase>>
      BY <1>12, Zenon DEF routerVars
    <2> QED
      BY <2>1, SMT DEF RoutingInv, NoResponse
  <1> QED
    BY <1>4, <1>5, <1>6, <1>7, <1>8, <1>9, <1>10, <1>11, <1>12, Zenon

(* The inductive invariant of routing. *)
THEOREM RoutingInvariant == RouterSpec => []RoutingInv
  <1> USE RouterAssumption
  <1>1. RouterInit => RoutingInv
    BY RoutingInit
  <1>2. RoutingInv /\ [RouterNext]_routerVars => RoutingInv'
    <2> SUFFICES ASSUME RoutingInv, [RouterNext]_routerVars PROVE RoutingInv'
      OBVIOUS
    <2>1. CASE \E i \in 1..Len(routers) : \E r \in Routes : RegisterRoute(routers[i], r)
      BY <2>1, RoutingRegister
    <2>2. CASE \E i \in 1..Len(routers) : \E p \in GroupPrefixes : Group(routers[i], p)
      BY <2>2, RoutingGroup
    <2>3. CASE \/ \E p \in {r.pattern : r \in Routes} \cup GroupPrefixes : TerminateOn(p)
               \/ Use \/ \E p \in Scopes : UseScoped(p)
               \/ ListenRoutes
               \/ \E p \in Paths, m \in Asked : Receive(p, m)
               \/ RunMiddleware \/ RunRouter \/ UnwindLayer \/ Respond
               \/ UNCHANGED routerVars
      BY <2>3, RoutingServe
    <2> QED
      BY <2>1, <2>2, <2>3, Zenon DEF RouterNext
  <1> QED
    BY <1>1, <1>2, PTL DEF RouterSpec

LEMMA PositionsAre ==
    ASSUME RegInv(trie, routers, history)
    PROVE  Positions = DOMAIN trie
  <1>1. \A p : p \in DOMAIN trie <=> Placed(history, p)
    BY DEF RegInv
  <1>2. ASSUME NEW p PROVE p \in Positions <=> Placed(history, p)
    <2>1. Positions = {<<>>} \cup UNION {{SubSeq(Full(history[i]), 1, k) :
                             k \in 1..Len(Full(history[i]))} : i \in 1..Len(history)}
      BY DEF Positions, Entries
    <2> QED
      BY <2>1 DEF Placed
  <1> QED
    BY <1>1, <1>2

LEMMA EndsAre ==
    ASSUME Positions = DOMAIN trie, NEW p
    PROVE  Ends(p) <=> EndsIn(trie, TokensOf(request.path), p)
  <1> DEFINE toks == TokensOf(request.path)
  <1>1. Tokens = toks
    BY DEF Tokens, TokensOf
  <1> DEFINE Open(i) == {e \in {toks[i], param_child, wildcard_child} :
                            Append(SubSeq(p, 1, i - 1), e) \in DOMAIN trie}
             Best(i) == IF toks[i] \in Open(i) THEN toks[i]
                        ELSE IF param_child \in Open(i) THEN param_child ELSE wildcard_child
  <1> HIDE DEF toks
  <1>2. \A i : Best(i) = BestEdge(trie, SubSeq(p, 1, i - 1), toks[i])
    <2> TAKE i
    <2>1. /\ toks[i] \in Open(i) <=> HasIn(trie, SubSeq(p, 1, i - 1), toks[i])
          /\ param_child \in Open(i) <=> HasIn(trie, SubSeq(p, 1, i - 1), param_child)
      BY DEF HasIn
    <2> HIDE DEF Open
    <2> QED
      BY <2>1 DEF BestEdge
  <1>3. Ends(p) <=>
            /\ Len(p) <= Len(toks) + 1
            /\ \A i \in 1..Len(p) : p[i] = wildcard_child => i = Len(p)
            /\ \A i \in 1..Len(p) : i <= Len(toks) => p[i] = Best(i)
            /\ Len(p) = Len(toks) + 1 => Tail0(p)
            /\ Len(p) < Len(toks) => Tail0(p)
            /\ Len(p) = Len(toks) /\ ~Tail0(p) => ~HasIn(trie, p, wildcard_child)
    BY <1>1, Zenon DEF Ends, Tail0, HasIn
  <1> HIDE DEF Best
  <1>4. (\A i \in 1..Len(p) : i <= Len(toks) => p[i] = Best(i)) <=>
        (\A i \in 1..Len(p) : i <= Len(toks) => p[i] = BestEdge(trie, SubSeq(p, 1, i - 1), toks[i]))
    BY <1>2
  <1>5. Ends(p) <=> EndsIn(trie, toks, p)
    BY <1>3, <1>4, Zenon DEF EndsIn
  <1> QED
    BY <1>5 DEF toks

(* RoutingInv implies both parts of RoutingSound. *)
LEMMA RoutingTypes ==
    ASSUME RouterTypes, RoutingInv
    PROVE  RouterTypeOK
  <1>1. RegInv(trie, routers, history)
    BY DEF RoutingInv
  <1>2. \A p \in DOMAIN trie : p = <<>> \/ Front(p) \in DOMAIN trie
    <2> SUFFICES ASSUME NEW p \in DOMAIN trie, p # <<>> PROVE Front(p) \in DOMAIN trie
      OBVIOUS
    <2>1. Closed(trie)
      BY <1>1, RegClosed
    <2>2. p \in Seq(EdgeSet)
      BY <2>1 DEF Closed
    <2>3. Len(p) - 1 \in 0..Len(p)
      BY <2>2
    <2> QED
      BY <2>1, <2>3 DEF Closed, Front
  <1>3. \A i \in 1..Len(routers) : routers[i] \in DOMAIN trie
    BY <1>1 DEF RegInv
  <1>4. ASSUME NEW p \in DOMAIN trie, NEW m \in DOMAIN trie[p].handlers
        PROVE  m \in HttpMethods /\ trie[p].handlers[m].id \in 1..Len(history)
    BY <1>1 DEF RegInv, NodeOK, Latest
  <1>5. Len(history) \in Nat
    <2>1. history \in Seq(Entry)
      BY <1>1 DEF RegInv
    <2> QED
      BY <2>1
  <1>6. phase \in {"register", "terminated", "idle", "down", "up"}
    BY Zenon DEF RoutingInv
  <1>7. \/ response = NoResponse
        \/ response = [NoResponse EXCEPT !.status = 401]
        \/ phase = "up" /\ response = DispatchIn(trie, request.path, request.method)
    BY Zenon DEF RoutingInv
  <1>8. /\ response.status \in {0, 200, 400, 401, 404, 405}
        /\ ToSet(response.allow) \subseteq HttpMethods /\ response.route \in 0..Len(history)
    <2>1. CASE response = NoResponse
      <3>1. response.status = 0 /\ response.route = 0 /\ response.allow = <<>>
        BY <2>1, SMT DEF NoResponse
      <3>2. ToSet(response.allow) = {}
        BY <3>1, EmptySeqSet
      <3> QED
        BY <1>5, <3>1, <3>2, SMT
    <2>2. CASE response = [NoResponse EXCEPT !.status = 401]
      <3>1. response.status = 401 /\ response.route = 0 /\ response.allow = <<>>
        BY <2>2, SMT DEF NoResponse
      <3>2. ToSet(response.allow) = {}
        BY <3>1, EmptySeqSet, SMT
      <3> QED
        BY <1>5, <3>1, <3>2, SMT
    <2>3. CASE phase = "up" /\ response = DispatchIn(trie, request.path, request.method)
      <3>1. request.path \in Paths
        BY <2>3, Zenon DEF RoutingInv
      <3>2. request.path \in Seq(Texts)
        BY <3>1 DEF RouterTypes
      <3>3. AnswerType(history, response)
        BY <1>1, <2>3, <3>2, DispatchAnswers
      <3> QED
        BY <3>3, SMT DEF AnswerType
    <2> QED
      BY <1>7, <2>1, <2>2, <2>3, Zenon
  <1> QED
    BY <1>2, <1>3, <1>4, <1>6, <1>8, Zenon DEF RouterTypeOK

LEMMA RoutingAnswers ==
    ASSUME RouterTypes, RoutingInv
    PROVE  RoutesBySpecificity
  <1> SUFFICES ASSUME Routed PROVE RoutesBySpecificity
    BY Zenon DEF RoutesBySpecificity
  <1>1. RegInv(trie, routers, history)
    BY DEF RoutingInv
  <1>2. phase = "up" /\ response.status # 401
    BY Zenon DEF Routed
  <1>3. response = DispatchIn(trie, request.path, request.method)
    <2> DEFINE refused == [NoResponse EXCEPT !.status = 401]
    <2>1. refused.status = 401
      BY SMT DEF NoResponse
    <2>2. response = refused \/ response = DispatchIn(trie, request.path, request.method)
      BY <1>2, Zenon DEF RoutingInv
    <2> HIDE DEF refused
    <2> QED
      BY <1>2, <2>1, <2>2, SMT
  <1>4. request.path \in Seq(Texts)
    <2>1. request.path \in Paths
      BY <1>2, Zenon DEF RoutingInv
    <2> QED
      BY <2>1 DEF RouterTypes
  <1>5. Answers(history, Found(trie, request.path), request.method, response)
    BY <1>1, <1>3, <1>4, DispatchAnswers, Zenon
  <1>6. {p \in Positions : Ends(p)} = Found(trie, request.path)
    <2>1. Positions = DOMAIN trie
      BY <1>1, PositionsAre
    <2>2. \A p : Ends(p) <=> EndsIn(trie, TokensOf(request.path), p)
      BY <2>1, EndsAre
    <2> QED
      BY <2>1, <2>2 DEF Found
  <1> DEFINE ends == {p \in Positions : Ends(p)}
  <1>7. Answers(history, ends, request.method, response)
    BY <1>5, <1>6, Zenon
  <1> HIDE DEF ends
  <1> QED
    BY <1>7, SMT DEF Answers, RoutesBySpecificity, Entries, ends

(* For any routes, groups, middleware and paths: the trie is a tree whose    *)
(* nodes are the prefixes of what was registered, and Router::dispatch        *)
(* answers as the registrations say - the handler registered last for the     *)
(* method at the most specific position, 405 with exactly the methods         *)
(* registered there, 404, or 400 for an unknown method.                       *)
THEOREM DispatchSound == RouterSpec => []RoutingSound
  <1> USE RouterAssumption
  <1>1. RouterSpec => []RoutingInv
    BY RoutingInvariant
  <1>2. RoutingInv => RoutingSound
    BY RoutingTypes, RoutingAnswers DEF RoutingSound
  <1> QED
    BY <1>1, <1>2, PTL

-----------------------------------------------------------------------------
(* What a walk captures. *)

IsOpen(edge) == edge \in {param_child, wildcard_child}

(* The part of the path that the edge k of a position stands for. *)
ValueAt(path, pos, k) ==
    IF pos[k] = param_child THEN <<path[Segments(path)[k]]>>
    ELSE IF k > Len(Segments(path)) THEN <<>>
    ELSE SubSeq(path, Segments(path)[k], Len(path))

(* c is captured at a parameter or wildcard on the way to pos. *)
CapturedOn(t, path, pos, c) ==
    \E k \in 1..Len(pos) : /\ IsOpen(pos[k])
                           /\ c = [name |-> t[SubSeq(pos, 1, k)].name, value |-> ValueAt(path, pos, k)]

Listed(s, c) == \E i \in 1..Len(s) : s[i] = c

(* A walk has captured exactly what lies on its way. *)
CaptureInv(t, path, w) == \A c : Listed(w.captured, c) <=> CapturedOn(t, path, w.pos, c)

LEMMA ListedAppend ==
    ASSUME NEW S, NEW s \in Seq(S), NEW x \in S, NEW c
    PROVE  Listed(Append(s, x), c) <=> Listed(s, c) \/ c = x
  <1> DEFINE q == Append(s, x)
             n == Len(s)
  <1>1. n \in Nat /\ Len(q) = n + 1 /\ q[n + 1] = x /\ \A i \in 1..n : q[i] = s[i]
    OBVIOUS
  <1> HIDE DEF q
  <1>2. ASSUME NEW i \in 1..Len(q), q[i] = c PROVE Listed(s, c) \/ c = x
    <2>1. CASE i = n + 1
      BY <1>1, <1>2, <2>1
    <2>2. CASE i # n + 1
      <3>1. i \in 1..n
        BY <1>1, <2>2
      <3> QED
        BY <1>1, <1>2, <3>1 DEF Listed
    <2> QED
      BY <2>1, <2>2
  <1>3. ASSUME NEW i \in 1..n, s[i] = c PROVE Listed(q, c)
    <2>1. i \in 1..Len(q) /\ q[i] = c
      BY <1>1, <1>3
    <2> QED
      BY <2>1 DEF Listed
  <1>4. ASSUME c = x PROVE Listed(q, c)
    <2>1. n + 1 \in 1..Len(q) /\ q[n + 1] = c
      BY <1>1, <1>4
    <2> QED
      BY <2>1 DEF Listed
  <1>5. Listed(q, c) <=> Listed(s, c) \/ c = x
    BY <1>2, <1>3, <1>4 DEF Listed
  <1> QED
    BY <1>5 DEF q

LEMMA CapturedAppend ==
    ASSUME NEW t, NEW path, NEW pos \in Seq(EdgeSet), NEW e \in EdgeSet, NEW c
    PROVE  LET q == Append(pos, e)
               n == Len(pos) + 1
           IN  CapturedOn(t, path, q, c) <=>
                   \/ CapturedOn(t, path, pos, c)
                   \/ IsOpen(e) /\ c = [name |-> t[q].name, value |-> ValueAt(path, q, n)]
  <1> DEFINE q == Append(pos, e)
             n == Len(pos) + 1
             At(p, k) == [name |-> t[SubSeq(p, 1, k)].name, value |-> ValueAt(path, p, k)]
             On(p, k) == IsOpen(p[k]) /\ c = At(p, k)
  <1>0. Len(pos) \in Nat /\ n \in Nat /\ n = Len(pos) + 1
    OBVIOUS
  <1>1. /\ q \in Seq(EdgeSet) /\ Len(q) = n /\ q[n] = e
        /\ \A j \in 1..Len(pos) : q[j] = pos[j]
        /\ \A j \in 0..Len(pos) : SubSeq(q, 1, j) = SubSeq(pos, 1, j)
    BY AppendFacts
  <1> HIDE DEF q, n
  <1>2. SubSeq(q, 1, n) = q
    BY <1>1
  <1>3. \A j \in 1..Len(pos) : On(q, j) <=> On(pos, j)
    <2> TAKE j \in 1..Len(pos)
    <2>1. j \in 0..Len(pos)
      BY <1>0
    <2>2. q[j] = pos[j] /\ SubSeq(q, 1, j) = SubSeq(pos, 1, j)
      BY <1>1, <2>1
    <2>3. ValueAt(path, q, j) = ValueAt(path, pos, j)
      BY <2>2, Zenon DEF ValueAt
    <2> QED
      BY <2>2, <2>3, Zenon
  <1>4. On(q, n) <=> IsOpen(e) /\ c = [name |-> t[q].name, value |-> ValueAt(path, q, n)]
    BY <1>1, <1>2, Zenon
  <1>5. (CapturedOn(t, path, q, c) <=> \E k \in 1..n : On(q, k))
        /\ (CapturedOn(t, path, pos, c) <=> \E k \in 1..Len(pos) : On(pos, k))
    BY <1>1, Zenon DEF CapturedOn
  <1> HIDE DEF On
  <1>6. (\E k \in 1..n : On(q, k)) <=> (\E k \in 1..Len(pos) : On(pos, k)) \/ On(q, n)
    <2>1. ASSUME NEW k \in 1..n, On(q, k) PROVE (\E j \in 1..Len(pos) : On(pos, j)) \/ On(q, n)
      <3>1. CASE k = n
        BY <2>1, <3>1
      <3>2. CASE k # n
        <4>1. k \in 1..Len(pos)
          BY <1>0, <3>2
        <4> QED
          BY <1>3, <2>1, <4>1
      <3> QED
        BY <3>1, <3>2
    <2>2. ASSUME NEW k \in 1..Len(pos), On(pos, k) PROVE \E j \in 1..n : On(q, j)
      <3>1. k \in 1..n
        BY <1>0
      <3> QED
        BY <1>3, <2>2, <3>1
    <2>3. n \in 1..n
      BY <1>0
    <2> QED
      BY <2>1, <2>2, <2>3
  <1>7. CapturedOn(t, path, q, c) <=>
            \/ CapturedOn(t, path, pos, c)
            \/ IsOpen(e) /\ c = [name |-> t[q].name, value |-> ValueAt(path, q, n)]
    BY <1>4, <1>5, <1>6, Zenon
  <1> QED
    BY <1>7, Zenon DEF q, n

(* Taking an edge keeps the captures right. *)
LEMMA CaptureStatic ==
    ASSUME NEW t, NEW path, NEW w \in WalkSet(t), CaptureInv(t, path, w), NEW e \in Texts
    PROVE  CaptureInv(t, path, [w EXCEPT !.pos = Append(@, e)])
  <1> DEFINE r == [w EXCEPT !.pos = Append(@, e)]
             q == Append(w.pos, e)
             n == Len(w.pos) + 1
  <1>1. r.captured = w.captured /\ r.pos = q /\ w.pos \in Seq(EdgeSet)
    BY DEF WalkSet
  <1>2. e \in EdgeSet /\ ~IsOpen(e)
    BY EdgesDiffer DEF IsOpen
  <1>3. ASSUME NEW c PROVE CapturedOn(t, path, q, c) <=> CapturedOn(t, path, w.pos, c)
    <2>1. CapturedOn(t, path, q, c) <=>
            \/ CapturedOn(t, path, w.pos, c)
            \/ IsOpen(e) /\ c = [name |-> t[q].name, value |-> ValueAt(path, q, n)]
      BY <1>1, <1>2, CapturedAppend
    <2> QED
      BY <1>2, <2>1, Zenon
  <1> HIDE DEF r, q
  <1>4. CaptureInv(t, path, r)
    BY <1>1, <1>3, Zenon DEF CaptureInv
  <1> QED
    BY <1>4 DEF r

LEMMA CaptureOpen ==
    ASSUME NEW t, NEW path, NEW w \in WalkSet(t), CaptureInv(t, path, w),
           NEW e \in {param_child, wildcard_child}, HasIn(t, w.pos, e), NEW v \in Seq(Texts),
           v = ValueAt(path, Append(w.pos, e), Len(w.pos) + 1), NEW s
    PROVE  CaptureInv(t, path, CaptureIn(t, w, e, v, s))
  <1> DEFINE q == Append(w.pos, e)
             n == Len(w.pos) + 1
             x == [name |-> t[q].name, value |-> v]
             r == CaptureIn(t, w, e, v, s)
  <1>1. r.captured = Append(w.captured, x) /\ r.pos = q
    BY DEF CaptureIn
  <1>2. w.pos \in Seq(EdgeSet) /\ w.captured \in Seq(Captures(t)) /\ x \in Captures(t)
    BY DEF WalkSet, Captures, HasIn
  <1>3. e \in EdgeSet /\ IsOpen(e)
    BY EdgesDiffer DEF IsOpen
  <1> HIDE DEF r
  <1>4. ASSUME NEW c PROVE CapturedOn(t, path, q, c) <=> CapturedOn(t, path, w.pos, c) \/ c = x
    <2>1. CapturedOn(t, path, q, c) <=>
            \/ CapturedOn(t, path, w.pos, c)
            \/ IsOpen(e) /\ c = [name |-> t[q].name, value |-> ValueAt(path, q, n)]
      BY <1>2, <1>3, CapturedAppend
    <2> QED
      BY <1>3, <2>1, Zenon
  <1> HIDE DEF q, x
  <1>5. ASSUME NEW c PROVE Listed(r.captured, c) <=> CapturedOn(t, path, r.pos, c)
    <2>1. Listed(Append(w.captured, x), c) <=> Listed(w.captured, c) \/ c = x
      BY <1>2, ListedAppend
    <2>2. Listed(w.captured, c) <=> CapturedOn(t, path, w.pos, c)
      BY DEF CaptureInv
    <2> QED
      BY <1>1, <1>4, <2>1, <2>2, Zenon
  <1>6. CaptureInv(t, path, r)
    BY <1>5 DEF CaptureInv
  <1> QED
    BY <1>6 DEF r

LEMMA CaptureStep ==
    ASSUME NEW t, NEW path \in Seq(Texts), NEW i \in 1..Len(Segments(path)), NEW w,
           WalkInv(t, TokensOf(path), i - 1, w), CaptureInv(t, path, w)
    PROVE  CaptureInv(t, path, DescendIn(t, w, path, Segments(path)[i]))
  <1> DEFINE k == Segments(path)[i]
             r == DescendIn(t, w, path, k)
             tok == path[k]
  <1>0. k \in 1..Len(path) /\ Len(path) \in Nat /\ i \in Nat /\ Len(Segments(path)) \in Nat
    BY SegmentsType
  <1>1. tok \in Texts /\ <<tok>> \in Seq(Texts) /\ SubSeq(path, k, Len(path)) \in Seq(Texts)
    <2> HIDE DEF k
    <2> QED
      BY <1>0
  <1>2. w \in WalkSet(t) /\ w.pos \in Seq(EdgeSet)
    <2>1. w \in WalkSet(t)
      BY DEF WalkInv
    <2> QED
      BY <2>1 DEF WalkSet
  <1>3. CASE w.state # "walking"
    BY <1>3 DEF DescendIn
  <1>4. CASE w.state = "walking"
    <2>1. Len(w.pos) + 1 = i
      BY <1>0, <1>4 DEF WalkInv
    <2>2. ASSUME NEW e \in {param_child, wildcard_child}
          PROVE  Append(w.pos, e)[i] = e
      <3>1. e \in EdgeSet
        BY EdgesDiffer
      <3>2. Append(w.pos, e)[Len(w.pos) + 1] = e
        BY <1>2, <3>1, AppendFacts
      <3> QED
        BY <2>1, <3>2
    <2>3. CASE HasIn(t, w.pos, tok)
      <3>1. r = [w EXCEPT !.pos = Append(@, tok)]
        BY <1>4, <2>3 DEF DescendIn
      <3> HIDE DEF r, tok, k
      <3>2. CaptureInv(t, path, r)
        BY <1>1, <1>2, <3>1, CaptureStatic
      <3> QED
        BY <3>2 DEF r, k
    <2>4. CASE ~HasIn(t, w.pos, tok) /\ HasIn(t, w.pos, param_child)
      <3> DEFINE v == <<tok>>
                 s == "walking"
      <3>1. r = CaptureIn(t, w, param_child, v, s)
        BY <1>4, <2>4 DEF DescendIn
      <3>2. ValueAt(path, Append(w.pos, param_child), i) = v
        BY <2>2, Zenon DEF ValueAt
      <3>3. v \in Seq(Texts)
        BY <1>1
      <3> HIDE DEF r, tok, k, v, s
      <3>4. v = ValueAt(path, Append(w.pos, param_child), Len(w.pos) + 1)
        BY <2>1, <3>2
      <3>5. CaptureInv(t, path, r)
        <4>1. param_child \in {param_child, wildcard_child}
          OBVIOUS
        <4> QED
          BY <1>2, <2>4, <3>1, <3>3, <3>4, <4>1, CaptureOpen
      <3> QED
        BY <3>5 DEF r, k
    <2>5. CASE /\ ~HasIn(t, w.pos, tok) /\ ~HasIn(t, w.pos, param_child)
               /\ HasIn(t, w.pos, wildcard_child)
      <3> DEFINE v == SubSeq(path, k, Len(path))
                 s == "wildcard"
      <3>1. r = CaptureIn(t, w, wildcard_child, v, s)
        BY <1>4, <2>5 DEF DescendIn
      <3>2. ValueAt(path, Append(w.pos, wildcard_child), i) = v
        <4>1. Append(w.pos, wildcard_child)[i] # param_child
          BY <2>2, EdgesDiffer
        <4>2. ~(i > Len(Segments(path)))
          BY <1>0
        <4> QED
          BY <4>1, <4>2, Zenon DEF ValueAt
      <3>3. v \in Seq(Texts)
        BY <1>1
      <3> HIDE DEF r, tok, k, v, s
      <3>4. v = ValueAt(path, Append(w.pos, wildcard_child), Len(w.pos) + 1)
        BY <2>1, <3>2
      <3>5. CaptureInv(t, path, r)
        <4>1. wildcard_child \in {param_child, wildcard_child}
          OBVIOUS
        <4> QED
          BY <1>2, <2>5, <3>1, <3>3, <3>4, <4>1, CaptureOpen
      <3> QED
        BY <3>5 DEF r, k
    <2>6. CASE /\ ~HasIn(t, w.pos, tok) /\ ~HasIn(t, w.pos, param_child)
               /\ ~HasIn(t, w.pos, wildcard_child)
      <3>1. r = [w EXCEPT !.state = "lost"]
        BY <1>4, <2>6 DEF DescendIn
      <3>2. r.pos = w.pos /\ r.captured = w.captured
        BY <1>2, <3>1 DEF WalkSet
      <3> HIDE DEF r
      <3>3. CaptureInv(t, path, r)
        BY <3>2, Zenon DEF CaptureInv
      <3> QED
        BY <3>3 DEF r
    <2> QED
      BY <2>3, <2>4, <2>5, <2>6
  <1> QED
    BY <1>3, <1>4

(* The walk that dispatch makes captures what lies on its way. *)
LEMMA WalkCaptures ==
    ASSUME NEW t, <<>> \in DOMAIN t, NEW path \in Seq(Texts)
    PROVE  WalkIn(t, path) \in WalkSet(t) /\ CaptureInv(t, path, WalkIn(t, path))
  <1> DEFINE n == Len(Segments(path))
             toks == TokensOf(path)
             f == Walks(t, path)
             T == {i \in 0..n : WalkInv(t, toks, i, f[i]) /\ CaptureInv(t, path, f[i])}
             w == Reached(t, path)
  <1>0. n \in Nat
    BY SegmentsType
  <1>1. /\ f[0] = WalkStart
        /\ \A i \in 1..n : f[i] = DescendIn(t, f[i - 1], path, Segments(path)[i])
    BY WalksRun
  <1>2. 0 \in T
    <2>1. WalkStart \in WalkSet(t) /\ WalkStart.pos = <<>> /\ WalkStart.state = "walking"
      BY DEF WalkStart, WalkSet
    <2>2. WalkInv(t, toks, 0, WalkStart)
      <3> HIDE DEF toks
      <3> QED
        BY <2>1 DEF WalkInv, BestWay, NoWildcard
    <2>3. CaptureInv(t, path, WalkStart)
      <3>1. \A c : ~Listed(<<>>, c) /\ ~CapturedOn(t, path, <<>>, c)
        BY DEF Listed, CapturedOn
      <3>2. WalkStart.captured = <<>>
        BY DEF WalkStart
      <3> QED
        BY <2>1, <3>1, <3>2, Zenon DEF CaptureInv
    <2> QED
      BY <1>0, <1>1, <2>2, <2>3
  <1>3. ASSUME NEW i \in 1..n, i - 1 \in T PROVE i \in T
    <2>1. WalkInv(t, toks, i - 1, f[i - 1]) /\ CaptureInv(t, path, f[i - 1]) /\ i \in 0..n
      BY <1>0, <1>3
    <2>2. WalkInv(t, toks, i, f[i])
      BY <1>1, <2>1, WalkStep
    <2>3. CaptureInv(t, path, f[i])
      BY <1>1, <2>1, CaptureStep
    <2> QED
      BY <2>1, <2>2, <2>3
  <1> HIDE DEF T
  <1>4. \A i \in 0..n : i \in T
    BY <1>0, <1>2, <1>3, Upward
  <1>5. WalkInv(t, toks, n, w) /\ CaptureInv(t, path, w)
    BY <1>0, <1>4 DEF T, Reached
  <1>6. w \in WalkSet(t) /\ w.pos \in Seq(EdgeSet) /\ Len(w.pos) \in Nat
    <2>1. w \in WalkSet(t)
      BY <1>5 DEF WalkInv
    <2>2. w.pos \in Seq(EdgeSet)
      BY <2>1 DEF WalkSet
    <2> QED
      BY <2>1, <2>2
  <1> HIDE DEF w
  <1>7. CASE w.state = "walking" /\ HasIn(t, w.pos, wildcard_child)
    <2> DEFINE v == <<>>
               s == "wildcard"
               r == CaptureIn(t, w, wildcard_child, v, s)
    <2>1. WalkIn(t, path) = r
      BY <1>7 DEF WalkIn, w
    <2>2. Len(w.pos) = n
      BY <1>5, <1>7 DEF WalkInv
    <2>3. v = ValueAt(path, Append(w.pos, wildcard_child), Len(w.pos) + 1)
      <3>1. wildcard_child \in EdgeSet
        BY EdgesDiffer
      <3>2. Append(w.pos, wildcard_child)[Len(w.pos) + 1] # param_child
        BY <1>6, <3>1, AppendFacts, EdgesDiffer
      <3>3. Len(w.pos) + 1 > Len(Segments(path))
        BY <1>0, <2>2
      <3> QED
        BY <3>2, <3>3, Zenon DEF ValueAt
    <2>4. v \in Seq(Texts) /\ s \in {"walking", "wildcard", "lost"}
      OBVIOUS
    <2> HIDE DEF v, s
    <2>5. wildcard_child \in EdgeSet /\ wildcard_child \in {param_child, wildcard_child}
      BY EdgesDiffer
    <2>6. CaptureInv(t, path, r)
      BY <1>5, <1>6, <1>7, <2>3, <2>4, <2>5, CaptureOpen
    <2>7. r \in WalkSet(t)
      BY <1>6, <1>7, <2>4, <2>5, CaptureType
    <2> QED
      BY <2>1, <2>6, <2>7
  <1>8. CASE ~(w.state = "walking" /\ HasIn(t, w.pos, wildcard_child))
    <2>1. WalkIn(t, path) = w
      BY <1>8, Zenon DEF WalkIn, w
    <2> QED
      BY <1>5, <1>6, <2>1
  <1> QED
    BY <1>7, <1>8

-----------------------------------------------------------------------------
(* Names: the nodes and the handlers carry the names of the registrations. *)

(* NamesAt of Router, over registrations h. *)
NamesIn(h, p) ==
    {h[i].pattern[Len(p) - Len(h[i].base)].text :
        i \in {j \in 1..Len(h) : Len(p) > Len(h[j].base) /\ IsPrefix(p, Full(h[j]))}}

(* A parameter or wildcard has a name. *)
Named(e) == \A k \in 1..Len(e.pattern) : e.pattern[k].kind # "static" => e.pattern[k].text # ""

(* The handler that entry number id made. *)
HandlerOf(h, id) == [id |-> id, sig |-> h[id].sig, names |-> ExtractParamNames(h[id].pattern)]

NamesInv(t, h) ==
    /\ \A i \in 1..Len(h) : Named(h[i])
    /\ \A p \in DOMAIN t : p # <<>> => t[p].name \in NamesIn(h, p)
    /\ \A p \in DOMAIN t : \A m \in DOMAIN t[p].handlers :
           t[p].handlers[m] = HandlerOf(h, t[p].handlers[m].id)

LEMMA SegmentNamed ==
    ASSUME NEW tok \in Seq(Texts), tok # <<>>, WellFormed(tok), Segment(tok).kind # "static"
    PROVE  Segment(tok).text # ""
  <1>1. CASE ~Braced(tok)
    <2>1. Segment(tok) = [kind |-> "static", text |-> Head(tok)]
      BY <1>1 DEF Segment, IsWildcard
    <2>2. Segment(tok).kind = "static"
      BY <2>1
    <2> QED
      BY <2>2
  <1>2. CASE Braced(tok)
    <2>1. ParamName(tok) # ""
      BY <1>2, Zenon DEF WellFormed
    <2>2. \/ Segment(tok) = [kind |-> wildcard_child, text |-> ParamName(tok)]
          \/ Segment(tok) = [kind |-> param_child, text |-> ParamName(tok)]
      BY <1>2 DEF Segment
    <2>3. Segment(tok).text = ParamName(tok)
      BY <2>2
    <2> QED
      BY <2>1, <2>3
  <1> QED
    BY <1>1, <1>2

LEMMA ParsedNamed ==
    ASSUME NEW pattern \in Seq(Seq(Texts)), IsPattern(pattern), NEW k \in 1..Len(parse_pattern(pattern)),
           parse_pattern(pattern)[k].kind # "static"
    PROVE  parse_pattern(pattern)[k].text # ""
  <1> DEFINE toks == PatternTokens(pattern)
             q == parse_pattern(pattern)
  <1>1. toks \in Seq(Seq(Texts)) /\ \A i \in 1..Len(toks) : toks[i] # <<>>
    BY PatternTokensType
  <1>2. \A i \in 1..Len(toks) : WellFormed(toks[i])
    BY DEF IsPattern
  <1>3. q = [i \in 1..Len(toks) |-> Segment(toks[i])]
    BY DEF parse_pattern
  <1> HIDE DEF toks, q
  <1>4. Len(toks) \in Nat
    BY <1>1
  <1>5. k \in 1..Len(toks)
    <2> DEFINE V(i) == Segment(toks[i])
    <2> HIDE DEF V
    <2>1. q = [i \in 1..Len(toks) |-> V(i)]
      BY <1>3 DEF V
    <2>2. Len(q) = Len(toks)
      BY <1>4, <2>1
    <2> QED
      BY <2>2 DEF q
  <1>6. q[k] = Segment(toks[k])
    BY <1>3, <1>5
  <1>7. toks[k] \in Seq(Texts) /\ toks[k] # <<>> /\ WellFormed(toks[k])
    BY <1>1, <1>2, <1>5
  <1>8. q[k].kind # "static"
    BY DEF q
  <1>9. q[k].text # ""
    BY <1>6, <1>7, <1>8, SegmentNamed
  <1> QED
    BY <1>9 DEF q

LEMMA NamesGrow ==
    ASSUME NEW h \in Seq(Entry), NEW e \in Entry, NEW p, NEW x \in NamesIn(h, p)
    PROVE  x \in NamesIn(Append(h, e), p)
  <1> DEFINE g == Append(h, e)
  <1>1. Len(h) \in Nat /\ Len(g) = Len(h) + 1 /\ \A i \in 1..Len(h) : g[i] = h[i]
    OBVIOUS
  <1> HIDE DEF g
  <1>2. PICK i \in 1..Len(h) : /\ Len(p) > Len(h[i].base) /\ IsPrefix(p, Full(h[i]))
                               /\ x = h[i].pattern[Len(p) - Len(h[i].base)].text
    BY DEF NamesIn
  <1>3. i \in 1..Len(g) /\ g[i] = h[i]
    BY <1>1
  <1>4. x \in NamesIn(g, p)
    BY <1>2, <1>3 DEF NamesIn
  <1> QED
    BY <1>4 DEF g

(* The position after k edges of an entry's own pattern, and its name. *)
LEMMA OwnPrefix ==
    ASSUME NEW e \in Entry, NEW k \in 1..Len(e.pattern)
    PROVE  LET f == Full(e)
               p == SubSeq(f, 1, Len(e.base) + k)
           IN  /\ Len(f) = Len(e.base) + Len(e.pattern)
               /\ Len(e.base) + k \in 1..Len(f) /\ Len(p) = Len(e.base) + k
               /\ Len(p) > Len(e.base) /\ Len(p) - Len(e.base) = k
               /\ IsPrefix(p, f)
               /\ f[Len(e.base) + k] = Edge(e.pattern[k])
               /\ p = e.base \o Edges(SubSeq(e.pattern, 1, k))
  <1> DEFINE f == Full(e)
             n == Len(e.base)
             E == Edges(e.pattern)
             p == SubSeq(f, 1, n + k)
             base == e.base
             segs == e.pattern
  <1>1. /\ base \in Seq(EdgeSet) /\ segs \in Seq(SegSet) /\ f = base \o E /\ f \in Seq(EdgeSet)
    BY FullType
  <1>2. n \in Nat /\ Len(segs) \in Nat /\ k \in Nat /\ k > 0 /\ k <= Len(segs)
    BY <1>1
  <1>3. E \in Seq(EdgeSet) /\ Len(E) = Len(segs) /\ E[k] = Edge(segs[k])
    BY <1>1, EdgesType
  <1>4. Edges(SubSeq(segs, 1, k)) = SubSeq(E, 1, k)
    <2>1. k \in 0..Len(segs)
      BY <1>2
    <2> QED
      BY <1>1, <2>1, EdgesPrefix
  <1> HIDE DEF base, segs, E, f
  <1>5. /\ Len(f) = n + Len(segs) /\ f[n + k] = E[k]
        /\ SubSeq(f, 1, n + k) = base \o SubSeq(E, 1, k)
    <2>1. base \in Seq(EdgeSet) /\ E \in Seq(EdgeSet) /\ Len(base) = n
      BY <1>1, <1>3 DEF base
    <2>2. Len(base \o E) = Len(base) + Len(E)
          /\ \A i \in (Len(base) + 1)..(Len(base) + Len(E)) : (base \o E)[i] = E[i - Len(base)]
      BY <2>1, ConcatAt, Zenon
    <2>3. /\ base \o E \in Seq(EdgeSet) /\ Len(base \o E) = Len(base) + Len(E)
          /\ \A j \in 0..Len(base) : SubSeq(base \o E, 1, j) = SubSeq(base, 1, j)
          /\ \A j \in 0..Len(E) : SubSeq(base \o E, 1, Len(base) + j) = base \o SubSeq(E, 1, j)
      <3>1. base \in Seq(EdgeSet) /\ E \in Seq(EdgeSet)
        BY <2>1
      <3> QED
        BY <3>1, ConcatPrefix, SMTT(60)
    <2>4. k \in 0..Len(E) /\ n + k \in (Len(base) + 1)..(Len(base) + Len(E)) /\ (n + k) - Len(base) = k
      BY <1>2, <1>3, <2>1
    <2>5. SubSeq(base \o E, 1, Len(base) + k) = base \o SubSeq(E, 1, k)
      BY <2>3, <2>4
    <2>6. (base \o E)[n + k] = E[k]
      BY <2>2, <2>4
    <2> QED
      BY <1>1, <1>3, <2>1, <2>2, <2>5, <2>6
  <1>6. n + k \in 1..Len(f) /\ n + k \in Nat
    BY <1>2, <1>5
  <1>7. p \in Seq(EdgeSet) /\ Len(p) = n + k
    BY <1>1, <1>5, <1>6
  <1>8. IsPrefix(p, f)
    <2>1. SubSeq(p, 1, Len(p)) = p /\ Len(p) <= Len(f)
      BY <1>2, <1>5, <1>6, <1>7
    <2> QED
      BY <1>7, <2>1 DEF IsPrefix
  <1>9. Len(p) > n /\ Len(p) - n = k
    BY <1>2, <1>7
  <1>10. f[n + k] = Edge(segs[k]) /\ p = base \o Edges(SubSeq(segs, 1, k)) /\ Len(f) = n + Len(segs)
    BY <1>3, <1>4, <1>5
  <1> QED
    BY <1>6, <1>7, <1>8, <1>9, <1>10 DEF f, base, segs

(* Its name in the registration is one of its names. *)
LEMMA OwnName ==
    ASSUME NEW h \in Seq(Entry), NEW i \in 1..Len(h), NEW k \in 1..Len(h[i].pattern)
    PROVE  h[i].pattern[k].text \in NamesIn(h, SubSeq(Full(h[i]), 1, Len(h[i].base) + k))
  <1> DEFINE e == h[i]
             p == SubSeq(Full(e), 1, Len(e.base) + k)
  <1>1. e \in Entry
    OBVIOUS
  <1> HIDE DEF e
  <1>2. Len(p) > Len(e.base) /\ Len(p) - Len(e.base) = k /\ IsPrefix(p, Full(e))
    <2>1. k \in 1..Len(e.pattern)
      BY DEF e
    <2> QED
      BY <1>1, <2>1, OwnPrefix
  <1> HIDE DEF p
  <1>3. e.pattern[k].text \in NamesIn(h, p)
    BY <1>2 DEF NamesIn, e
  <1> QED
    BY <1>3 DEF p, e

LEMMA NamesGrown ==
    ASSUME NEW t, NEW rs, NEW h, RegInv(t, rs, h), NamesInv(t, h), NEW e \in Entry, Named(e),
           e.base \in DOMAIN t
    PROVE  NamesInv(GrownIn(t, e.base, e.pattern), Append(h, e))
  <1> DEFINE u == GrownIn(t, e.base, e.pattern)
             g == Append(h, e)
             n == Len(h)
  <1>0. h \in Seq(Entry) /\ n \in Nat
    <2>1. h \in Seq(Entry)
      BY DEF RegInv
    <2> QED
      BY <2>1
  <1>1. g \in Seq(Entry) /\ Len(g) = n + 1 /\ g[n + 1] = e /\ \A i \in 1..n : g[i] = h[i]
    BY <1>0
  <1> HIDE DEF g
  <1>2. ASSUME NEW i \in 1..Len(g) PROVE Named(g[i])
    <2>1. CASE i = n + 1
      BY <1>1, <2>1
    <2>2. CASE i # n + 1
      <3>1. i \in 1..n /\ g[i] = h[i]
        BY <1>0, <1>1, <2>2
      <3> QED
        BY <3>1 DEF NamesInv
    <2> QED
      BY <2>1, <2>2
  <1>3. ASSUME NEW p \in DOMAIN u, p # <<>> PROVE u[p].name \in NamesIn(g, p)
    <2>1. u[p] = IF p \in DOMAIN t THEN t[p] ELSE EmptyNode(e.pattern[Len(p) - Len(e.base)].text)
      BY DEF GrownIn
    <2>2. CASE p \in DOMAIN t
      <3>1. u[p].name \in NamesIn(h, p)
        BY <1>3, <2>1, <2>2 DEF NamesInv
      <3> QED
        BY <1>0, <3>1, NamesGrow DEF g
    <2>3. CASE p \notin DOMAIN t
      <3>1. PICK k \in 1..Len(e.pattern) : p = e.base \o Edges(SubSeq(e.pattern, 1, k))
        BY <2>3 DEF GrownIn
      <3>2. p = SubSeq(Full(e), 1, Len(e.base) + k) /\ Len(p) - Len(e.base) = k
        BY <3>1, OwnPrefix
      <3>3. u[p].name = e.pattern[k].text
        <4> DEFINE x == e.pattern[k].text
        <4>1. u[p] = EmptyNode(x)
          BY <2>1, <2>3, <3>2
        <4> HIDE DEF x
        <4>2. EmptyNode(x).name = x
          BY DEF EmptyNode
        <4> QED
          BY <4>1, <4>2 DEF x
      <3>4. n + 1 \in 1..Len(g) /\ k \in 1..Len(g[n + 1].pattern)
        BY <1>0, <1>1, <3>1
      <3>5. g[n + 1].pattern[k].text \in NamesIn(g, SubSeq(Full(g[n + 1]), 1, Len(g[n + 1].base) + k))
        BY <1>1, <3>4, OwnName
      <3> QED
        BY <1>1, <3>2, <3>3, <3>5
    <2> QED
      BY <2>2, <2>3
  <1>4. ASSUME NEW p \in DOMAIN u, NEW m \in DOMAIN u[p].handlers
        PROVE  u[p].handlers[m] = HandlerOf(g, u[p].handlers[m].id)
    <2>1. u[p] = IF p \in DOMAIN t THEN t[p] ELSE EmptyNode(e.pattern[Len(p) - Len(e.base)].text)
      BY DEF GrownIn
    <2>2. CASE p \in DOMAIN t
      <3> DEFINE id == t[p].handlers[m].id
      <3>1. u[p] = t[p] /\ m \in DOMAIN t[p].handlers
        BY <1>4, <2>1, <2>2
      <3>2. id \in 1..n
        BY <2>2, <3>1 DEF RegInv, NodeOK, Latest
      <3>3. t[p].handlers[m] = HandlerOf(h, id)
        BY <2>2, <3>1 DEF NamesInv
      <3> HIDE DEF id
      <3>4. HandlerOf(g, id) = HandlerOf(h, id)
        BY <1>1, <3>2, Zenon DEF HandlerOf
      <3> QED
        BY <3>1, <3>3, <3>4 DEF id
    <2>3. CASE p \notin DOMAIN t
      <3> DEFINE x == e.pattern[Len(p) - Len(e.base)].text
      <3>1. u[p] = EmptyNode(x)
        BY <2>1, <2>3
      <3> HIDE DEF x
      <3>2. DOMAIN u[p].handlers = {}
        <4>1. EmptyNode(x).handlers = <<>>
          BY DEF EmptyNode
        <4>2. DOMAIN EmptyNode(x).handlers = {}
          BY <4>1
        <4> QED
          BY <3>1, <4>2
      <3> QED
        BY <1>4, <3>2
    <2> QED
      BY <2>2, <2>3
  <1> HIDE DEF u
  <1>5. NamesInv(u, g)
    BY <1>2, <1>3, <1>4 DEF NamesInv
  <1> QED
    BY <1>5 DEF u, g

LEMMA NamesRoute ==
    ASSUME NEW t, NEW rs, NEW h, RegInv(t, rs, h), NamesInv(t, h), NEW e \in Entry, Named(e),
           e.base \in DOMAIN t, NEW x, x = HandlerOf(Append(h, e), Len(h) + 1)
    PROVE  NamesInv(InsertIn(t, e.base, e.pattern, e.method, x), Append(h, e))
  <1> DEFINE u == GrownIn(t, e.base, e.pattern)
             v == InsertIn(t, e.base, e.pattern, e.method, x)
             g == Append(h, e)
             f == Full(e)
             H == [m \in DOMAIN u[f].handlers \cup {e.method} |->
                      IF m = e.method THEN x ELSE u[f].handlers[m]]
             new == [name |-> u[f].name, handlers |-> H]
  <1>0. h \in Seq(Entry)
    BY DEF RegInv
  <1>1. NamesInv(u, g)
    BY NamesGrown
  <1>2. f \in DOMAIN u /\ NodeOK(h, f, u[f])
    <2>1. g \in Seq(Entry) /\ Len(g) \in 1..Len(g) /\ g[Len(g)] = e
      BY <1>0
    <2>2. Placed(g, f)
      <3> HIDE DEF g
      <3> QED
        BY <2>1, FullPlaced
    <2>3. f \in DOMAIN u
      BY <2>2, GrownDomain
    <2> QED
      BY <2>3, GrownNodes
  <1>3. v = [u EXCEPT ![f].handlers = H]
    <2>1. f = e.base \o Edges(e.pattern)
      BY FullType
    <2> QED
      BY <2>1 DEF InsertIn
  <1>4. u[f] = [name |-> u[f].name, handlers |-> u[f].handlers] /\ u = [p \in DOMAIN u |-> u[p]]
    <2>1. u = [p \in DOMAIN u |-> u[p]]
      BY DEF GrownIn
    <2> QED
      BY <1>2, <2>1 DEF NodeOK
  <1>5. x.id = Len(h) + 1
    BY DEF HandlerOf
  <1>6. \A m \in DOMAIN u[f].handlers : u[f].handlers[m] = HandlerOf(g, u[f].handlers[m].id)
    BY <1>1, <1>2 DEF NamesInv
  <1>7. x = HandlerOf(g, x.id)
    BY <1>5
  <1> HIDE DEF u, v, g, f
  <1>8. \A m \in DOMAIN H : H[m] = HandlerOf(g, H[m].id)
    BY <1>6, <1>7
  <1> HIDE DEF H
  <1>9. DOMAIN v = DOMAIN u /\ v[f] = new /\ \A p \in DOMAIN u : p # f => v[p] = u[p]
    BY <1>2, <1>3, <1>4
  <1>10. new.name = u[f].name /\ new.handlers = H
    OBVIOUS
  <1> HIDE DEF new
  <1>11. ASSUME NEW p \in DOMAIN v, p # <<>> PROVE v[p].name \in NamesIn(g, p)
    <2>1. v[p].name = u[p].name /\ p \in DOMAIN u
      BY <1>9, <1>10
    <2> QED
      BY <1>1, <1>11, <2>1 DEF NamesInv
  <1>12. ASSUME NEW p \in DOMAIN v, NEW m \in DOMAIN v[p].handlers
         PROVE  v[p].handlers[m] = HandlerOf(g, v[p].handlers[m].id)
    <2>1. CASE p = f
      BY <1>8, <1>9, <1>10, <1>12, <2>1
    <2>2. CASE p # f
      <3>1. p \in DOMAIN u /\ v[p] = u[p]
        BY <1>9, <2>2
      <3> QED
        BY <1>1, <1>12, <3>1 DEF NamesInv
    <2> QED
      BY <2>1, <2>2
  <1>13. \A i \in 1..Len(g) : Named(g[i])
    BY <1>1 DEF NamesInv
  <1>14. NamesInv(v, g)
    BY <1>11, <1>12, <1>13 DEF NamesInv
  <1> QED
    BY <1>14 DEF v, g

-----------------------------------------------------------------------------
(* The parameters of an entry's own pattern, left to right. *)

LEMMA OrderedAgree ==
    ASSUME NEW s, NEW u, NEW n \in Nat, NEW K, Ordered(s, n, K), Ordered(u, n, K),
           NEW a \in 1..Len(s)
    PROVE  a \in 1..Len(u) /\ s[a] = u[a]
  <1>0. s \in Seq(Nat) /\ u \in Seq(Nat) /\ Len(s) \in Nat /\ Len(u) \in Nat
    <2>1. s \in Seq(Nat) /\ u \in Seq(Nat)
      BY DEF Ordered
    <2> QED
      BY <2>1
  <1> DEFINE Bad == {b \in 1..Len(s) : ~(b \in 1..Len(u) /\ s[b] = u[b])}
  <1> SUFFICES ASSUME a \in Bad PROVE FALSE
    OBVIOUS
  <1>1. PICK k \in Bad : \A b \in Bad : k <= b
    <2>1. Bad \subseteq Nat /\ Bad # {}
      OBVIOUS
    <2> HIDE DEF Bad
    <2> QED
      BY <2>1, LeastNumber
  <1>2. k \in 1..Len(s) /\ k \in Nat /\ ~(k \in 1..Len(u) /\ s[k] = u[k])
    BY <1>0
  <1>3. ASSUME NEW b \in 1..Len(s), b < k PROVE b \in 1..Len(u) /\ s[b] = u[b]
    <2>1. ~(k <= b)
      BY <1>2, <1>3
    <2>2. b \notin Bad
      BY <1>1, <2>1
    <2> QED
      BY <2>2
  <1> HIDE DEF Bad
  <1>4. s[k] \in K /\ s[k] \in 1..n
    BY <1>2 DEF Ordered
  <1>5. PICK b \in 1..Len(u) : u[b] = s[k]
    BY <1>4 DEF Ordered
  <1>6. ~(b < k)
    <2> SUFFICES ASSUME b < k PROVE FALSE
      OBVIOUS
    <2>1. b \in 1..Len(s)
      BY <1>0, <1>2
    <2>2. s[b] = s[k] /\ s[b] < s[k]
      BY <1>2, <1>3, <1>5, <2>1 DEF Ordered
    <2> QED
      BY <1>4, <2>2
  <1>7. k \in 1..Len(u) /\ k < b
    <2>1. k <= b /\ b <= Len(u) /\ b # k
      BY <1>0, <1>2, <1>5, <1>6
    <2> QED
      BY <1>0, <1>2, <2>1
  <1>8. u[k] < s[k] /\ u[k] \in K /\ u[k] \in 1..n
    BY <1>5, <1>7 DEF Ordered
  <1>9. PICK c \in 1..Len(s) : s[c] = u[k]
    BY <1>8 DEF Ordered
  <1>10. c < k
    <2>1. CASE c = k
      BY <1>4, <1>8, <1>9, <2>1
    <2>2. CASE k < c
      <3>1. s[k] < s[c]
        BY <1>2, <2>2 DEF Ordered
      <3> QED
        BY <1>4, <1>8, <1>9, <3>1
    <2> QED
      BY <1>0, <1>2, <2>1, <2>2
  <1>11. c \in 1..Len(u) /\ u[c] = u[k] /\ u[c] < u[k]
    BY <1>3, <1>7, <1>9, <1>10 DEF Ordered
  <1> QED
    BY <1>8, <1>11

(* A set of numbers is listed in order in one way only. *)
LEMMA OrderedUnique ==
    ASSUME NEW s, NEW u, NEW n \in Nat, NEW K, Ordered(s, n, K), Ordered(u, n, K)
    PROVE  s = u
  <1>0. s \in Seq(Nat) /\ u \in Seq(Nat) /\ Len(s) \in Nat /\ Len(u) \in Nat
    <2>1. s \in Seq(Nat) /\ u \in Seq(Nat)
      BY DEF Ordered
    <2> QED
      BY <2>1
  <1>1. \A a \in 1..Len(s) : a \in 1..Len(u) /\ s[a] = u[a]
    BY OrderedAgree
  <1>2. \A a \in 1..Len(u) : a \in 1..Len(s)
    BY OrderedAgree
  <1>3. Len(s) = Len(u)
    <2>1. Len(s) <= Len(u)
      <3>1. CASE Len(s) = 0
        BY <1>0, <3>1
      <3>2. CASE Len(s) # 0
        <4>1. Len(s) \in 1..Len(s)
          BY <1>0, <3>2
        <4>2. Len(s) \in 1..Len(u)
          BY <1>1, <4>1
        <4> QED
          BY <1>0, <4>2
      <3> QED
        BY <3>1, <3>2
    <2>2. Len(u) <= Len(s)
      <3>1. CASE Len(u) = 0
        BY <1>0, <3>1
      <3>2. CASE Len(u) # 0
        <4>1. Len(u) \in 1..Len(u)
          BY <1>0, <3>2
        <4>2. Len(u) \in 1..Len(s)
          BY <1>2, <4>1
        <4> QED
          BY <1>0, <4>2
      <3> QED
        BY <3>1, <3>2
    <2> QED
      BY <1>0, <2>1, <2>2
  <1> QED
    BY <1>0, <1>1, <1>3, SeqEqual

LEMMA OpenEdge ==
    ASSUME NEW seg \in SegSet
    PROVE  IsOpen(Edge(seg)) <=> seg.kind # "static"
  <1>1. seg.text \in Texts /\ seg.kind \in {"static", param_child, wildcard_child}
    BY DEF SegSet
  <1>2. CASE seg.kind = "static"
    <2>1. Edge(seg) = seg.text
      BY <1>2 DEF Edge
    <2>2. ~IsOpen(Edge(seg))
      BY <1>1, <2>1, EdgesDiffer DEF IsOpen
    <2> QED
      BY <1>2, <2>2
  <1>3. CASE seg.kind # "static"
    <2>1. Edge(seg) = seg.kind
      BY <1>3 DEF Edge
    <2>2. IsOpen(Edge(seg))
      BY <1>1, <1>3, <2>1 DEF IsOpen
    <2> QED
      BY <1>3, <2>2
  <1> QED
    BY <1>2, <1>3

LEMMA FullLength ==
    ASSUME NEW e \in Entry
    PROVE  Len(Full(e)) = Len(e.base) + Len(e.pattern)
  <1> DEFINE E == Edges(e.pattern)
             base == e.base
  <1>1. E \in Seq(EdgeSet) /\ Len(E) = Len(e.pattern) /\ Full(e) = base \o E /\ base \in Seq(EdgeSet)
    BY EdgesType, FullType
  <1> HIDE DEF E, base
  <1>2. Len(base \o E) = Len(base) + Len(E)
    BY <1>1, ConcatAt
  <1> QED
    BY <1>1, <1>2 DEF base

OpenOf(segs) == Ascending(Len(segs), {i \in 1..Len(segs) : segs[i].kind # "static"})
OwnOpen(e) ==
    Ascending(Len(Full(e)), {k \in (Len(e.base) + 1)..Len(Full(e)) :
                                Full(e)[k] \in {param_child, wildcard_child}})

(* The parameters of the pattern, behind the base. *)
LEMMA OwnShifted ==
    ASSUME NEW e \in Entry
    PROVE  /\ OwnOpen(e) \in Seq(Nat) /\ Len(OwnOpen(e)) \in Nat
           /\ Len(OwnOpen(e)) = Len(OpenOf(e.pattern))
           /\ \A j \in 1..Len(OwnOpen(e)) :
                  /\ OpenOf(e.pattern)[j] \in 1..Len(e.pattern)
                  /\ e.pattern[OpenOf(e.pattern)[j]].kind # "static"
                  /\ OwnOpen(e)[j] = Len(e.base) + OpenOf(e.pattern)[j]
  <1> DEFINE f == Full(e)
             n == Len(e.base)
             segs == e.pattern
             K == {k \in (n + 1)..Len(f) : f[k] \in {param_child, wildcard_child}}
             I == {i \in 1..Len(segs) : segs[i].kind # "static"}
             own == Ascending(Len(f), K)
             open == Ascending(Len(segs), I)
             q == [j \in 1..Len(open) |-> n + open[j]]
  <1>1. segs \in Seq(SegSet) /\ e.base \in Seq(EdgeSet) /\ f \in Seq(EdgeSet)
    BY FullType
  <1>2. n \in Nat /\ Len(segs) \in Nat /\ Len(f) \in Nat
    BY <1>1
  <1>3. \A k \in 1..Len(segs) : f[n + k] = Edge(segs[k]) /\ n + k \in 1..Len(f)
    BY OwnPrefix
  <1>4. Len(f) = n + Len(segs)
    BY FullLength
  <1>5. \A k \in 1..Len(segs) : n + k \in K <=> k \in I
    <2> TAKE k \in 1..Len(segs)
    <2>1. segs[k] \in SegSet
      BY <1>1
    <2>2. IsOpen(f[n + k]) <=> segs[k].kind # "static"
      BY <1>3, <2>1, OpenEdge
    <2>3. n + k \in (n + 1)..Len(f)
      <3> HIDE DEF n, f, segs
      <3> QED
        BY <1>2, <1>4
    <2> QED
      BY <2>2, <2>3 DEF IsOpen
  <1>6. Ordered(own, Len(f), K) /\ Ordered(open, Len(segs), I)
    <2> HIDE DEF f, segs, K, I
    <2> QED
      BY <1>2, AscendingOrdered
  <1>7. own = OwnOpen(e) /\ open = OpenOf(segs)
    BY DEF OwnOpen, OpenOf
  <1>7a. \A k \in K : k \in (n + 1)..Len(f)
    OBVIOUS
  <1>7b. \A i \in I : segs[i].kind # "static"
    OBVIOUS
  <1> HIDE DEF f, n, K, I, own, open, segs
  <1>8. /\ open \in Seq(Nat) /\ Len(open) \in Nat
        /\ \A j \in 1..Len(open) : open[j] \in I /\ open[j] \in 1..Len(segs)
    <2>1. open \in Seq(Nat) /\ \A j \in 1..Len(open) : open[j] \in I /\ open[j] \in 1..Len(segs)
      BY <1>6 DEF Ordered
    <2> QED
      BY <2>1
  <1>9. \A j \in 1..Len(open) : n + open[j] \in Nat
    BY <1>2, <1>8
  <1>10. q \in Seq(Nat) /\ Len(q) = Len(open) /\ \A j \in 1..Len(open) : q[j] = n + open[j]
    BY <1>8, <1>9
  <1> HIDE DEF q
  <1>11. Ordered(q, Len(f), K)
    <2>1. ASSUME NEW j \in 1..Len(q) PROVE q[j] \in K /\ q[j] \in 1..Len(f)
      <3>1. open[j] \in I /\ open[j] \in 1..Len(segs) /\ q[j] = n + open[j]
        BY <1>8, <1>10
      <3> QED
        BY <1>3, <1>5, <3>1
    <2>2. ASSUME NEW a \in 1..Len(q), NEW b \in 1..Len(q), a < b PROVE q[a] < q[b]
      <3>1. open[a] < open[b] /\ open[a] \in Nat /\ open[b] \in Nat
        BY <1>6, <1>8, <1>10, <2>2 DEF Ordered
      <3> QED
        BY <1>2, <1>10, <3>1
    <2>3. ASSUME NEW k \in 1..Len(f), k \in K PROVE \E a \in 1..Len(q) : q[a] = k
      <3>1. k - n \in 1..Len(segs) /\ n + (k - n) = k
        BY <1>2, <1>4, <1>7a, <2>3
      <3>2. k - n \in I
        BY <1>5, <2>3, <3>1
      <3>3. PICK a \in 1..Len(open) : open[a] = k - n
        BY <1>6, <3>1, <3>2 DEF Ordered
      <3>4. a \in 1..Len(q) /\ q[a] = k
        BY <1>10, <3>1, <3>3
      <3> QED
        BY <3>4
    <2> QED
      BY <1>10, <2>1, <2>2, <2>3 DEF Ordered
  <1>12. own = q
    BY <1>2, <1>6, <1>11, OrderedUnique
  <1>13. /\ own \in Seq(Nat) /\ Len(own) \in Nat /\ Len(own) = Len(open)
         /\ \A j \in 1..Len(own) : /\ open[j] \in 1..Len(segs) /\ segs[open[j]].kind # "static"
                                   /\ own[j] = n + open[j]
    BY <1>7b, <1>8, <1>10, <1>12
  <1> QED
    BY <1>7, <1>13 DEF n, segs

(* The names the handler looks up. *)
LEMMA ExtractNames ==
    ASSUME NEW e \in Entry
    PROVE  /\ Len(ExtractParamNames(e.pattern)) = Len(OwnOpen(e))
           /\ \A j \in 1..Len(OwnOpen(e)) :
                  ExtractParamNames(e.pattern)[j] = e.pattern[OpenOf(e.pattern)[j]].text
  <1> DEFINE open == OpenOf(e.pattern)
             V(j) == e.pattern[open[j]].text
             q == ExtractParamNames(e.pattern)
  <1>1. q = [j \in 1..Len(open) |-> V(j)]
    BY DEF ExtractParamNames, OpenOf
  <1>2. Len(open) = Len(OwnOpen(e)) /\ Len(open) \in Nat
    BY OwnShifted
  <1> HIDE DEF open, q, V
  <1>3. Len(q) = Len(open) /\ \A j \in 1..Len(open) : q[j] = V(j)
    BY <1>1, <1>2
  <1> QED
    BY <1>2, <1>3 DEF q, V, open

(* A parameter or wildcard has only names that are not empty. *)
LEMMA OpenNamed ==
    ASSUME NEW h \in Seq(Entry), \A i \in 1..Len(h) : Named(h[i]), NEW p \in Seq(EdgeSet),
           p # <<>>, IsOpen(p[Len(p)]), NEW x \in NamesIn(h, p)
    PROVE  x # ""
  <1>1. PICK i \in 1..Len(h) : /\ Len(p) > Len(h[i].base) /\ IsPrefix(p, Full(h[i]))
                               /\ x = h[i].pattern[Len(p) - Len(h[i].base)].text
    BY DEF NamesIn
  <1> DEFINE e == h[i]
             f == Full(e)
             n == Len(e.base)
             k == Len(p) - n
  <1>2. e \in Entry /\ Named(e)
    OBVIOUS
  <1> HIDE DEF e
  <1>3. f \in Seq(EdgeSet) /\ e.base \in Seq(EdgeSet) /\ e.pattern \in Seq(SegSet)
    BY <1>2, FullType
  <1>4. n \in Nat /\ Len(p) \in Nat /\ Len(f) \in Nat /\ Len(e.pattern) \in Nat
    BY <1>3
  <1>5. Len(f) = n + Len(e.pattern)
    BY <1>2, FullLength
  <1>6. Len(p) <= Len(f) /\ Len(p) > n /\ SubSeq(p, 1, Len(p)) = SubSeq(f, 1, Len(p))
    BY <1>1 DEF IsPrefix, e
  <1>7. k \in 1..Len(e.pattern) /\ n + k = Len(p)
    <2> HIDE DEF n, f
    <2> QED
      BY <1>4, <1>5, <1>6
  <1>8. f[Len(p)] = p[Len(p)]
    <2> HIDE DEF f
    <2>1. SubSeq(p, 1, Len(p)) = p
      OBVIOUS
    <2>2. Len(p) \in 1..Len(p) /\ SubSeq(f, 1, Len(p))[Len(p)] = f[Len(p)]
      BY <1>3, <1>4, <1>6
    <2> QED
      BY <1>6, <2>1, <2>2
  <1>9. f[n + k] = Edge(e.pattern[k])
    <2> HIDE DEF k
    <2> QED
      BY <1>2, <1>7, OwnPrefix
  <1>10. IsOpen(Edge(e.pattern[k]))
    BY <1>7, <1>8, <1>9
  <1>11. e.pattern[k].kind # "static"
    <2>1. e.pattern[k] \in SegSet
      BY <1>3, <1>7
    <2> QED
      BY <1>10, <2>1, OpenEdge
  <1>12. e.pattern[k].text # ""
    BY <1>2, <1>7, <1>11 DEF Named
  <1> QED
    BY <1>1, <1>12 DEF e

-----------------------------------------------------------------------------
(* The arguments of a handler. *)

(* NamesAgree of Router, over registrations h. *)
AgreeIn(h, full) ==
    /\ \A k \in 1..Len(full) : IsOpen(full[k]) =>
           \A x, y \in NamesIn(h, SubSeq(full, 1, k)) : x = y
    /\ \A k, l \in 1..Len(full) : IsOpen(full[k]) /\ IsOpen(full[l]) /\ k # l =>
           NamesIn(h, SubSeq(full, 1, k)) # NamesIn(h, SubSeq(full, 1, l))

(* The node of a parameter or wildcard bears a name that was given to it. *)
LEMMA NodeNamed ==
    ASSUME NEW t, NEW rs, NEW h, RegInv(t, rs, h), NamesInv(t, h), NEW f \in DOMAIN t,
           NEW k \in 1..Len(f), IsOpen(f[k])
    PROVE  /\ t[SubSeq(f, 1, k)].name \in NamesIn(h, SubSeq(f, 1, k))
           /\ t[SubSeq(f, 1, k)].name # ""
  <1> DEFINE p == SubSeq(f, 1, k)
  <1>1. f \in Seq(EdgeSet) /\ \A j \in 0..Len(f) : SubSeq(f, 1, j) \in DOMAIN t
    BY RegClosed DEF Closed
  <1>2. Len(f) \in Nat /\ k \in 0..Len(f) /\ k \in Nat
    BY <1>1
  <1>3. p \in DOMAIN t
    BY <1>1, <1>2
  <1>4. p \in Seq(EdgeSet) /\ Len(p) = k /\ p[k] = f[k] /\ p # <<>>
    BY <1>1, <1>2
  <1> HIDE DEF p
  <1>5. t[p].name \in NamesIn(h, p)
    BY <1>3, <1>4 DEF NamesInv
  <1>6. h \in Seq(Entry) /\ \A i \in 1..Len(h) : Named(h[i])
    BY DEF RegInv, NamesInv
  <1>7. IsOpen(p[Len(p)])
    BY <1>4
  <1>8. t[p].name # ""
    BY <1>4, <1>5, <1>6, <1>7, OpenNamed
  <1> QED
    BY <1>5, <1>8 DEF p

(* c is captured on the way to pos, each under the name of its node. *)
CapturesOf(t, path, c, pos) ==
    /\ \A i \in 1..Len(c) : \E k \in 1..Len(pos) :
           /\ IsOpen(pos[k]) /\ c[i].name = t[SubSeq(pos, 1, k)].name
           /\ c[i].value = ValueAt(path, pos, k)
    /\ \A k \in 1..Len(pos) : IsOpen(pos[k]) =>
           \E i \in 1..Len(c) : c[i].name = t[SubSeq(pos, 1, k)].name

LEMMA CapturedAt ==
    ASSUME NEW t, NEW rs, NEW h, RegInv(t, rs, h), NEW path \in Seq(Texts),
           NEW c, c = WalkIn(t, path).captured, NEW pos, pos = WalkIn(t, path).pos
    PROVE  c \in Seq(Captures(t)) /\ pos \in Seq(EdgeSet) /\ CapturesOf(t, path, c, pos)
  <1> DEFINE w == WalkIn(t, path)
             Nm(k) == t[SubSeq(pos, 1, k)].name
             V(k) == ValueAt(path, pos, k)
  <1>1. <<>> \in DOMAIN t
    BY RegClosed DEF Closed
  <1>2. w \in WalkSet(t) /\ CaptureInv(t, path, w)
    BY <1>1, WalkCaptures
  <1>3. c \in Seq(Captures(t)) /\ pos \in Seq(EdgeSet)
    BY <1>2 DEF WalkSet
  <1>4. \A x : (\E i \in 1..Len(c) : c[i] = x) <=>
               (\E k \in 1..Len(pos) : IsOpen(pos[k]) /\ x = [name |-> Nm(k), value |-> V(k)])
    BY <1>2, Zenon DEF CaptureInv, Listed, CapturedOn
  <1> HIDE DEF w, Nm, V
  <1>5. ASSUME NEW i \in 1..Len(c)
        PROVE  \E k \in 1..Len(pos) : IsOpen(pos[k]) /\ c[i].name = Nm(k) /\ c[i].value = V(k)
    <2>1. PICK k \in 1..Len(pos) : IsOpen(pos[k]) /\ c[i] = [name |-> Nm(k), value |-> V(k)]
      BY <1>4, Zenon
    <2>2. c[i].name = Nm(k) /\ c[i].value = V(k)
      BY <2>1
    <2> QED
      BY <2>1, <2>2
  <1>6. ASSUME NEW k \in 1..Len(pos), IsOpen(pos[k])
        PROVE  \E i \in 1..Len(c) : c[i].name = Nm(k)
    <2>1. PICK i \in 1..Len(c) : c[i] = [name |-> Nm(k), value |-> V(k)]
      BY <1>4, <1>6, Zenon
    <2>2. c[i].name = Nm(k)
      BY <2>1
    <2> QED
      BY <2>2
  <1> QED
    BY <1>3, <1>5, <1>6, Zenon DEF CapturesOf, w, Nm, V

(* A value is captured under name x, and all that are captured under it are v. *)
FoundAs(c, x, v) ==
    /\ \E i \in 1..Len(c) : c[i].name = x
    /\ \A i \in 1..Len(c) : c[i].name = x => c[i].value = v

(* Number j of the handler's names is captured, and only at parameter j. *)
LEMMA ArgumentFound ==
    ASSUME NEW t, NEW rs, NEW h, RegInv(t, rs, h), NamesInv(t, h), NEW path \in Seq(Texts),
           NEW id \in 1..Len(h), WalkIn(t, path).pos = Full(h[id]), Full(h[id]) \in DOMAIN t,
           AgreeIn(h, Full(h[id])), NEW j \in 1..Len(OwnOpen(h[id])),
           NEW c, c = WalkIn(t, path).captured
    PROVE  FoundAs(c, ExtractParamNames(h[id].pattern)[j],
                   ValueAt(path, Full(h[id]), OwnOpen(h[id])[j]))
  <1> DEFINE e == h[id]
             f == Full(e)
             x == ExtractParamNames(e.pattern)[j]
             k == OwnOpen(e)[j]
             m == OpenOf(e.pattern)[j]
             N(l) == NamesIn(h, SubSeq(f, 1, l))
             Nm(l) == t[SubSeq(f, 1, l)].name
             V(l) == ValueAt(path, f, l)
  <1>0. h \in Seq(Entry)
    BY DEF RegInv
  <1>1. e \in Entry
    BY <1>0
  <1>2. m \in 1..Len(e.pattern) /\ e.pattern[m].kind # "static" /\ k = Len(e.base) + m
    BY <1>1, OwnShifted
  <1>3. x = e.pattern[m].text
    BY <1>1, ExtractNames
  <1>4. x \in N(k)
    <2>1. e.pattern[m].text \in NamesIn(h, SubSeq(Full(e), 1, Len(e.base) + m))
      <3> HIDE DEF m
      <3> QED
        BY <1>0, <1>2, OwnName
    <2> QED
      BY <1>2, <1>3, <2>1
  <1>5. k \in 1..Len(f) /\ IsOpen(f[k])
    <2> HIDE DEF m, k
    <2>1. k \in 1..Len(f) /\ f[k] = Edge(e.pattern[m])
      BY <1>1, <1>2, OwnPrefix
    <2>2. e.pattern[m] \in SegSet
      BY <1>1, <1>2 DEF Entry
    <2> QED
      BY <1>2, <2>1, <2>2, OpenEdge
  <1>6. \A l \in 1..Len(f) : IsOpen(f[l]) => Nm(l) \in N(l)
    BY NodeNamed
  <1>7. /\ \A l \in 1..Len(f) : IsOpen(f[l]) => \A y, z \in N(l) : y = z
        /\ \A l, o \in 1..Len(f) : IsOpen(f[l]) /\ IsOpen(f[o]) /\ l # o => N(l) # N(o)
    BY Zenon DEF AgreeIn
  <1>8. /\ \A i \in 1..Len(c) : \E l \in 1..Len(f) :
               IsOpen(f[l]) /\ c[i].name = Nm(l) /\ c[i].value = V(l)
        /\ \A l \in 1..Len(f) : IsOpen(f[l]) => \E i \in 1..Len(c) : c[i].name = Nm(l)
    <2> HIDE DEF f
    <2>1. f = WalkIn(t, path).pos
      BY DEF f
    <2>2. CapturesOf(t, path, c, f)
      <3> HIDE DEF Nm, V, N, x, k, m, e
      <3> QED
        BY <2>1, CapturedAt
    <2> QED
      BY <2>2, Zenon DEF CapturesOf
  <1> HIDE DEF e, f, x, k, m, N, Nm, V
  <1>9. Nm(k) = x
    BY <1>4, <1>5, <1>6, <1>7
  <1>10. \E i \in 1..Len(c) : c[i].name = x
    BY <1>5, <1>8, <1>9
  <1>11. ASSUME NEW i \in 1..Len(c), c[i].name = x PROVE c[i].value = V(k)
    <2>1. PICK l \in 1..Len(f) : IsOpen(f[l]) /\ c[i].name = Nm(l) /\ c[i].value = V(l)
      BY <1>8
    <2>2. x \in N(l)
      BY <1>6, <1>11, <2>1
    <2>3. \A y : y \in N(l) <=> y = x
      BY <1>7, <2>1, <2>2
    <2>4. \A y : y \in N(k) <=> y = x
      BY <1>4, <1>5, <1>7
    <2>5. N(l) = N(k)
      <3> DEFINE A == N(l)
                 B == N(k)
      <3>1. \A y : y \in A <=> y \in B
        BY <2>3, <2>4
      <3> HIDE DEF A, B
      <3>2. A = B
        BY <3>1
      <3> QED
        BY <3>2 DEF A, B
    <2>6. l = k
      BY <1>5, <1>7, <2>1, <2>5
    <2> QED
      BY <2>1, <2>6
  <1> QED
    BY <1>10, <1>11, Zenon DEF FoundAs, e, f, x, k, V

Fits(path, e) ==
    /\ Len(e.sig) <= Len(OwnOpen(e))
    /\ \A j \in 1..Len(e.sig) : Convertible(e.sig[j], ValueAt(path, Full(e), OwnOpen(e)[j]))

(* A handler gets the parts of the path at the parameters of its pattern. *)
LEMMA InvokeFits ==
    ASSUME NEW t, NEW rs, NEW h, RegInv(t, rs, h), NamesInv(t, h), NEW path \in Seq(Texts),
           NEW id \in 1..Len(h), WalkIn(t, path).pos = Full(h[id]), Full(h[id]) \in DOMAIN t,
           AgreeIn(h, Full(h[id]))
    PROVE  LET r == Invoke(HandlerOf(h, id), WalkIn(t, path).captured)
           IN  /\ r.status = 200 <=> Fits(path, h[id])
               /\ Fits(path, h[id]) =>
                      r.args = [j \in 1..Len(h[id].sig) |->
                                   ValueAt(path, Full(h[id]), OwnOpen(h[id])[j])]
  <1> DEFINE e == h[id]
             c == WalkIn(t, path).captured
             own == OwnOpen(e)
             sig == e.sig
             names == ExtractParamNames(e.pattern)
             V(j) == ValueAt(path, Full(e), own[j])
             name(j) == IF j <= Len(names) THEN names[j] ELSE ""
             under(j) == {i \in 1..Len(c) : c[i].name = name(j)}
             value(j) == c[Min(under(j))].value
             found(j) == under(j) # {} /\ Convertible(sig[j], value(j))
             x == HandlerOf(h, id)
             r == Invoke(x, c)
             ok == [status |-> 200, route |-> id, allow |-> <<>>,
                    args |-> [j \in 1..Len(sig) |-> value(j)]]
  <1>0. h \in Seq(Entry)
    BY DEF RegInv
  <1>1. e \in Entry
    BY <1>0
  <1>2. sig \in Seq(STRING) /\ Len(sig) \in Nat /\ Len(own) \in Nat /\ Len(names) = Len(own)
    <2>1. sig \in Seq(STRING)
      BY <1>1 DEF Entry
    <2>2. Len(own) \in Nat /\ Len(names) = Len(own)
      BY <1>1, OwnShifted, ExtractNames
    <2> QED
      BY <2>1, <2>2
  <1>3. \A j \in 1..Len(own) :
            /\ \E i \in 1..Len(c) : c[i].name = names[j]
            /\ \A i \in 1..Len(c) : c[i].name = names[j] => c[i].value = V(j)
    <2> HIDE DEF c
    <2>1. c = WalkIn(t, path).captured
      BY DEF c
    <2>2. ASSUME NEW j \in 1..Len(own) PROVE FoundAs(c, names[j], V(j))
      BY <2>1, ArgumentFound
    <2> QED
      BY <2>2, Zenon DEF FoundAs
  <1>4. \A i \in 1..Len(c) : c[i].name # ""
    <2> TAKE i \in 1..Len(c)
    <2>1. PICK k \in 1..Len(Full(e)) :
              IsOpen(Full(e)[k]) /\ c[i].name = t[SubSeq(Full(e), 1, k)].name
      <3> DEFINE f == Full(e)
      <3> HIDE DEF c, f
      <3>1. c = WalkIn(t, path).captured /\ f = WalkIn(t, path).pos
        BY DEF c, f
      <3>2. \E k \in 1..Len(f) : IsOpen(f[k]) /\ c[i].name = t[SubSeq(f, 1, k)].name
        <4>1. CapturesOf(t, path, c, f)
          <5> HIDE DEF e, own, sig, names
          <5> QED
            BY <3>1, CapturedAt
        <4> QED
          BY <4>1, Zenon DEF CapturesOf
      <3> QED
        BY <3>2 DEF f
    <2>2. t[SubSeq(Full(e), 1, k)].name # ""
      <3> DEFINE f == Full(e)
      <3>1. f \in DOMAIN t /\ k \in 1..Len(f) /\ IsOpen(f[k])
        BY <2>1
      <3> HIDE DEF f
      <3>2. t[SubSeq(f, 1, k)].name # ""
        BY <3>1, NodeNamed
      <3> QED
        BY <3>2 DEF f
    <2> QED
      BY <2>1, <2>2
  <1>5. Len(c) \in Nat
    <2>1. c \in Seq(Captures(t))
      BY CapturedAt
    <2> QED
      BY <2>1
  <1>6. x.id = id /\ x.sig = sig /\ x.names = names
    BY DEF HandlerOf
  <1> HIDE DEF x, e, c, own, sig, names, V
  <1>7. /\ (\A j \in 1..Len(sig) : found(j)) => r = ok
        /\ ~(\A j \in 1..Len(sig) : found(j)) => r.status = 400
    <2>1. r = IF \A j \in 1..Len(sig) : found(j) THEN ok
              ELSE [NoResponse EXCEPT !.status = 400, !.route = id]
      BY <1>6 DEF Invoke
    <2>2. [NoResponse EXCEPT !.status = 400, !.route = id].status = 400
      BY SMT DEF NoResponse
    <2> QED
      <3> DEFINE all == \A j \in 1..Len(sig) : found(j)
                 bad == [NoResponse EXCEPT !.status = 400, !.route = id]
      <3> HIDE DEF all, ok, bad, r
      <3>1. r = IF all THEN ok ELSE bad
        BY <2>1 DEF all, bad
      <3>2. bad.status = 400
        BY <2>2 DEF bad
      <3>3. (all => r = ok) /\ (~all => r.status = 400)
        BY <3>1, <3>2
      <3> QED
        BY <3>3 DEF all
  <1>8. ASSUME NEW j \in 1..Len(own) PROVE under(j) # {} /\ value(j) = V(j)
    <2>1. name(j) = names[j]
      BY <1>2
    <2>2. under(j) # {} /\ under(j) \subseteq Nat
      <3>1. PICK i \in 1..Len(c) : c[i].name = names[j]
        BY <1>3
      <3>2. i \in under(j)
        BY <2>1, <3>1
      <3>3. under(j) \subseteq Nat
        <4> HIDE DEF name
        <4>1. \A a \in 1..Len(c) : a \in Nat
          BY <1>5
        <4> QED
          BY <4>1, Zenon
      <3> QED
        BY <3>2, <3>3
    <2>3. Min(under(j)) \in under(j)
      <3> HIDE DEF under
      <3>1. \E a \in under(j) : \A b \in under(j) : a <= b
        BY <2>2, LeastNumber
      <3> QED
        BY <3>1, Zenon DEF Min
    <2>4. c[Min(under(j))].value = V(j)
      <3> DEFINE a == Min(under(j))
      <3>1. a \in 1..Len(c) /\ c[a].name = names[j]
        BY <2>1, <2>3
      <3> HIDE DEF a
      <3>2. c[a].value = V(j)
        BY <1>3, <3>1
      <3> QED
        BY <3>2 DEF a
    <2> QED
      BY <2>2, <2>4
  <1>9. ASSUME NEW j \in 1..Len(sig), j > Len(own) PROVE under(j) = {}
    <2>1. ~(j <= Len(names))
      BY <1>2, <1>9
    <2>2. name(j) = ""
      BY <2>1
    <2> HIDE DEF name
    <2> QED
      BY <1>4, <2>2
  <1> HIDE DEF under, value
  <1>10. (\A j \in 1..Len(sig) : found(j)) <=>
            Len(sig) <= Len(own) /\ \A j \in 1..Len(sig) : Convertible(sig[j], V(j))
    <2>1. ASSUME \A j \in 1..Len(sig) : found(j)
          PROVE  Len(sig) <= Len(own) /\ \A j \in 1..Len(sig) : Convertible(sig[j], V(j))
      <3>1. Len(sig) <= Len(own)
        <4> SUFFICES ASSUME Len(sig) > Len(own) PROVE FALSE
          BY <1>2
        <4>1. Len(sig) \in 1..Len(sig)
          BY <1>2
        <4>2. under(Len(sig)) = {}
          BY <1>9, <4>1
        <4> QED
          BY <2>1, <4>1, <4>2
      <3>2. \A j \in 1..Len(sig) : value(j) = V(j)
        BY <1>2, <1>8, <3>1
      <3> QED
        BY <2>1, <3>1, <3>2
    <2>2. ASSUME Len(sig) <= Len(own), \A j \in 1..Len(sig) : Convertible(sig[j], V(j))
          PROVE  \A j \in 1..Len(sig) : found(j)
      <3>1. \A j \in 1..Len(sig) : under(j) # {} /\ value(j) = V(j)
        BY <1>2, <1>8, <2>2
      <3> QED
        BY <2>2, <3>1
    <2> QED
      BY <2>1, <2>2
  <1>11. Fits(path, e) <=> (\A j \in 1..Len(sig) : found(j))
    BY <1>10, Zenon DEF Fits, own, sig, V
  <1>12. Fits(path, e) => Len(sig) <= Len(own)
    BY Zenon DEF Fits, own, sig
  <1>13. ok.status = 200 /\ ok.args = [j \in 1..Len(sig) |-> value(j)]
    OBVIOUS
  <1> HIDE DEF found, ok, r
  <1>14. r.status = 200 <=> Fits(path, e)
    BY <1>7, <1>11, <1>13
  <1>15. ASSUME Fits(path, e) PROVE r.args = [j \in 1..Len(sig) |-> V(j)]
    <2>1. r = ok
      BY <1>7, <1>11, <1>15
    <2>2. \A j \in 1..Len(sig) : value(j) = V(j)
      BY <1>2, <1>8, <1>12, <1>15
    <2>3. [j \in 1..Len(sig) |-> value(j)] = [j \in 1..Len(sig) |-> V(j)]
      BY <2>2
    <2> QED
      BY <1>13, <2>1, <2>3
  <1> QED
    BY <1>14, <1>15, Zenon DEF r, x, c, e, own, sig, V

-----------------------------------------------------------------------------
(* The invariant of the arguments: routing's, and the names are those registered. *)
ArgumentInv == RoutingInv /\ NamesInv(trie, history)

LEMMA ArgumentInit == RouterInit => ArgumentInv
  <1> SUFFICES ASSUME RouterInit PROVE ArgumentInv
    OBVIOUS
  <1>1. RoutingInv
    BY RoutingInit
  <1>2. trie = [p \in {<<>>} |-> EmptyNode("")] /\ history = <<>>
    BY Zenon DEF RouterInit
  <1>3. DOMAIN trie = {<<>>} /\ \A p \in DOMAIN trie : trie[p].handlers = <<>>
    BY <1>2 DEF EmptyNode
  <1>4. \A p \in DOMAIN trie : DOMAIN trie[p].handlers = {}
    <2>1. DOMAIN <<>> = {}
      OBVIOUS
    <2> QED
      BY <1>3, <2>1
  <1>5. Len(history) = 0
    BY <1>2
  <1>6. NamesInv(trie, history)
    BY <1>3, <1>4, <1>5 DEF NamesInv
  <1> QED
    BY <1>1, <1>6 DEF ArgumentInv

LEMMA ArgumentRegister ==
    ASSUME RouterTypes, ArgumentInv, NEW i \in 1..Len(routers), NEW r \in Routes,
           RegisterRoute(routers[i], r)
    PROVE  NamesInv(trie, history)'
  <1> DEFINE base == routers[i]
             segs == parse_pattern(r.pattern)
             e == [base |-> base, pattern |-> segs, method |-> r.method, sig |-> r.sig]
             x == [id |-> Len(history) + 1, sig |-> r.sig, names |-> ExtractParamNames(segs)]
             g == Append(history, e)
  <1>1. RegInv(trie, routers, history) /\ NamesInv(trie, history)
    BY DEF ArgumentInv, RoutingInv
  <1>2. base \in DOMAIN trie /\ base \in Seq(EdgeSet) /\ history \in Seq(Entry)
    BY <1>1 DEF RegInv
  <1>3. r.method \in HttpMethods /\ r.pattern \in Seq(Seq(Texts)) /\ r.sig \in Seq(STRING)
    BY DEF RouterTypes
  <1>4. /\ IsPattern(r.pattern) /\ trie' = Insert(base, segs, r.method, x)
        /\ history' = g
    BY Zenon DEF RegisterRoute
  <1>5. segs \in Seq(SegSet)
    BY <1>3, <1>4, ParsedType
  <1>6. \A k \in 1..Len(segs) : segs[k].kind # "static" => segs[k].text # ""
    BY <1>3, <1>4, ParsedNamed
  <1> HIDE DEF base, segs
  <1>7. e \in Entry /\ e.base = base /\ e.pattern = segs /\ e.method = r.method /\ e.sig = r.sig
    BY <1>2, <1>3, <1>5 DEF Entry
  <1>8. trie' = InsertIn(trie, base, segs, r.method, x)
    <2> HIDE DEF x
    <2> QED
      BY <1>4, GrownIs DEF Insert, InsertIn
  <1> HIDE DEF e
  <1>9. Named(e)
    BY <1>6, <1>7 DEF Named
  <1>10. x = HandlerOf(g, Len(history) + 1)
    <2>1. g[Len(history) + 1] = e
      BY <1>2, <1>7
    <2> HIDE DEF g
    <2> QED
      BY <1>7, <2>1, Zenon DEF HandlerOf
  <1> HIDE DEF x
  <1>11. NamesInv(InsertIn(trie, e.base, e.pattern, e.method, x), g)
    BY <1>1, <1>2, <1>7, <1>9, <1>10, NamesRoute
  <1> QED
    BY <1>4, <1>7, <1>8, <1>11

LEMMA ArgumentGroup ==
    ASSUME RouterTypes, ArgumentInv, NEW i \in 1..Len(routers), NEW prefix \in GroupPrefixes,
           Group(routers[i], prefix)
    PROVE  NamesInv(trie, history)'
  <1> DEFINE base == routers[i]
             segs == parse_pattern(prefix)
             e == [base |-> base, pattern |-> segs, method |-> "none", sig |-> <<>>]
             g == Append(history, e)
  <1>1. RegInv(trie, routers, history) /\ NamesInv(trie, history)
    BY DEF ArgumentInv, RoutingInv
  <1>2. base \in DOMAIN trie /\ base \in Seq(EdgeSet)
    BY <1>1 DEF RegInv
  <1>3. prefix \in Seq(Seq(Texts))
    BY DEF RouterTypes
  <1>4. IsPattern(prefix) /\ trie' = EnsureChildren(base, segs) /\ history' = g
    BY Zenon DEF Group
  <1>5. segs \in Seq(SegSet)
    BY <1>3, <1>4, ParsedType
  <1>6. \A k \in 1..Len(segs) : segs[k].kind # "static" => segs[k].text # ""
    BY <1>3, <1>4, ParsedNamed
  <1> HIDE DEF base, segs
  <1>7. e \in Entry /\ e.base = base /\ e.pattern = segs
    BY <1>2, <1>5 DEF Entry
  <1>8. trie' = GrownIn(trie, base, segs)
    BY <1>4, GrownIs
  <1> HIDE DEF e
  <1>9. Named(e)
    BY <1>6, <1>7 DEF Named
  <1>10. NamesInv(GrownIn(trie, e.base, e.pattern), g)
    BY <1>1, <1>2, <1>7, <1>9, NamesGrown
  <1> QED
    BY <1>4, <1>7, <1>8, <1>10

(* The inductive invariant of the arguments. *)
THEOREM ArgumentInvariant == RouterSpec => []ArgumentInv
  <1> USE RouterAssumption
  <1>1. RouterInit => ArgumentInv
    BY ArgumentInit
  <1>2. ArgumentInv /\ RoutingInv' /\ [RouterNext]_routerVars => ArgumentInv'
    <2> SUFFICES ASSUME ArgumentInv, RoutingInv', [RouterNext]_routerVars PROVE NamesInv(trie, history)'
      BY DEF ArgumentInv
    <2>1. CASE \E i \in 1..Len(routers) : \E r \in Routes : RegisterRoute(routers[i], r)
      BY <2>1, ArgumentRegister
    <2>2. CASE \E i \in 1..Len(routers) : \E p \in GroupPrefixes : Group(routers[i], p)
      BY <2>2, ArgumentGroup
    <2>3. CASE UNCHANGED <<trie, history>>
      BY <2>3 DEF ArgumentInv
    <2>4. \/ \E i \in 1..Len(routers) : \E r \in Routes : RegisterRoute(routers[i], r)
          \/ \E i \in 1..Len(routers) : \E p \in GroupPrefixes : Group(routers[i], p)
          \/ UNCHANGED <<trie, history>>
      BY Zenon DEF RouterNext, TerminateOn, Use, UseScoped, ListenRoutes, Receive, RunMiddleware,
                   RunRouter, UnwindLayer, Respond, regVars, routerVars
    <2> QED
      BY <2>1, <2>2, <2>3, <2>4
  <1>3. RouterSpec => []RoutingInv
    BY RoutingInvariant
  <1> QED
    BY <1>1, <1>2, <1>3, PTL DEF RouterSpec

LEMMA AgreeIs ==
    ASSUME NEW full, NamesAgree(full)
    PROVE  AgreeIn(history, full)
  <1>1. \A p : NamesAt(p) = NamesIn(history, p)
    BY Zenon DEF NamesAt, NamesIn, Entries
  <1> DEFINE open == {k \in 1..Len(full) : full[k] \in {param_child, wildcard_child}}
             N(k) == NamesAt(SubSeq(full, 1, k))
  <1>2. /\ \A k \in open : \A x, y \in N(k) : x = y
        /\ \A k, l \in open : k # l => N(k) # N(l)
    BY Zenon DEF NamesAgree
  <1>3. \A k \in 1..Len(full) : IsOpen(full[k]) => k \in open
    BY DEF IsOpen
  <1>4. \A k : N(k) = NamesIn(history, SubSeq(full, 1, k))
    BY <1>1
  <1> HIDE DEF open, N
  <1> QED
    BY <1>2, <1>3, <1>4 DEF AgreeIn

(* A response of a route is what its handler returns for what was captured. *)
LEMMA RouteInvoked ==
    ASSUME NEW t, NEW rs, NEW h, RegInv(t, rs, h), NamesInv(t, h), NEW path \in Seq(Texts),
           NEW method, NEW r, r = DispatchIn(t, path, method), r.route # 0
    PROVE  /\ r.route \in 1..Len(h) /\ Full(h[r.route]) = WalkIn(t, path).pos
           /\ WalkIn(t, path).pos \in DOMAIN t
           /\ r = Invoke(HandlerOf(h, r.route), WalkIn(t, path).captured)
  <1> DEFINE w == WalkIn(t, path)
             handlers == t[w.pos].handlers
             id == handlers[method].id
  <1>1. w.pos \in DOMAIN t
    BY RegClosed, FoundIs
  <1>2. \/ r = [NoResponse EXCEPT !.status = 400]
        \/ r = [NoResponse EXCEPT !.status = 404]
        \/ r = [NoResponse EXCEPT !.status = 405, !.allow = build_allow_header(DOMAIN handlers)]
        \/ method \in DOMAIN handlers /\ r = Invoke(handlers[method], w.captured)
    BY SMT DEF DispatchIn
  <1> HIDE DEF w, handlers
  <1>3. method \in DOMAIN handlers /\ r = Invoke(handlers[method], w.captured)
    <2> DEFINE refused(c) == [NoResponse EXCEPT !.status = c]
               allow == build_allow_header(DOMAIN handlers)
    <2>1. refused(400).route = 0 /\ refused(404).route = 0
      BY SMT DEF NoResponse
    <2> HIDE DEF allow
    <2>2. [NoResponse EXCEPT !.status = 405, !.allow = allow].route = 0
      BY SMT DEF NoResponse
    <2>3. r # refused(400) /\ r # refused(404) /\ r # [NoResponse EXCEPT !.status = 405, !.allow = allow]
      BY <2>1, <2>2, Zenon
    <2> QED
      BY <1>2, <2>3, Zenon DEF allow
  <1>4. r.route = id
    BY <1>3, InvokeAnswers
  <1>5. Latest(h, w.pos, method, id)
    BY <1>1, <1>3 DEF RegInv, NodeOK, handlers
  <1>6. handlers[method] = HandlerOf(h, id)
    BY <1>1, <1>3 DEF NamesInv, handlers
  <1> HIDE DEF id
  <1>7. id \in 1..Len(h) /\ Full(h[id]) = w.pos
    BY <1>5 DEF Latest
  <1>8. r = Invoke(HandlerOf(h, id), w.captured)
    BY <1>3, <1>6
  <1> QED
    BY <1>1, <1>4, <1>7, <1>8, Zenon DEF w

(* For any routes, groups and paths: when the names along a route agree, its *)
(* handler gets the parts of the path at the parameters of its own pattern,  *)
(* left to right, and answers 400 exactly when one of them is missing from   *)
(* the pattern or does not convert.                                          *)
THEOREM ArgumentsOfPattern == RouterSpec => []ArgumentsMatchPattern
  <1> USE RouterAssumption
  <1>1. RouterSpec => []ArgumentInv
    BY ArgumentInvariant
  <1>2. ASSUME ArgumentInv PROVE ArgumentsMatchPattern
    <2> SUFFICES ASSUME Routed, response.route # 0 PROVE ArgumentsMatchPattern
      BY Zenon DEF ArgumentsMatchPattern
    <2> DEFINE id == response.route
               e == history[id]
               path == request.path
               own == OwnOpen(e)
               V(j) == ValueAt(path, Full(e), own[j])
               w == WalkIn(trie, path)
    <2>1. RoutingInv /\ RegInv(trie, routers, history) /\ NamesInv(trie, history)
      BY <1>2 DEF ArgumentInv, RoutingInv
    <2>2. phase = "up" /\ response.status # 401
      BY Zenon DEF Routed
    <2>3. response = DispatchIn(trie, path, request.method)
      <3> DEFINE refused == [NoResponse EXCEPT !.status = 401]
      <3>1. refused.status = 401
        BY SMT DEF NoResponse
      <3>2. response = refused \/ response = DispatchIn(trie, request.path, request.method)
        BY <2>1, <2>2, Zenon DEF RoutingInv
      <3> HIDE DEF refused
      <3> QED
        BY <2>2, <3>1, <3>2, SMT
    <2>4. path \in Seq(Texts)
      <3>1. path \in Paths
        BY <2>1, <2>2, Zenon DEF RoutingInv
      <3> QED
        BY <3>1 DEF RouterTypes
    <2>5. /\ id \in 1..Len(history) /\ Full(e) = w.pos /\ w.pos \in DOMAIN trie
          /\ response = Invoke(HandlerOf(history, id), w.captured)
      <3> DEFINE method == request.method
      <3>1. response = DispatchIn(trie, path, method)
        BY <2>3
      <3> HIDE DEF path, method
      <3> QED
        BY <2>1, <2>4, <3>1, RouteInvoked
    <2>6. ASSUME NamesAgree(Full(e))
          PROVE  /\ response.status = 200 <=> Fits(path, e)
                 /\ Fits(path, e) => response.args = [j \in 1..Len(e.sig) |-> V(j)]
      <3>1. AgreeIn(history, Full(e))
        BY <2>6, AgreeIs
      <3> HIDE DEF id, path
      <3> QED
        BY <2>1, <2>4, <2>5, <3>1, InvokeFits
    <2> HIDE DEF w
    <2> QED
      BY <2>6, Zenon DEF ArgumentsMatchPattern, Fits, ValueAt, OwnOpen
  <1> QED
    BY <1>1, <1>2, PTL
=============================================================================
