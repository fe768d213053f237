------------------------- MODULE AsioExecutorProofs -------------------------
(***************************************************************************)
(* TLAPS proofs about AsioExecutor, for any sets of I/O threads, ports,      *)
(* stop() callers and connections.                                           *)
(***************************************************************************)
EXTENDS AsioExecutor, FiniteSetTheorems, TLAPS

AtRest  == {"none", "exited"}
Arming  == {"post", "reset", "arm"}
Serving == {"start", "spawn", "joined", "join_drain"}
Dtor    == {"dtor", "dtor_drain", "destroyed"}
NoneRan == \A t \in IoThreads : exec[t] = "none"

(* How far run() is decides which I/O threads exist. *)
ThreadInv ==
    /\ mainPc \in {"ready", "cas"} => NoneRan
    /\ mainPc \in {"joined", "join_drain"} => \A t \in IoThreads : exec[t] = "exited"
    /\ mainPc = "spawn" => \A t \in IoThreads : exec[t] # "none"
    /\ mainPc \in Over => \A t \in IoThreads : exec[t] \in AtRest
    /\ Binding => mainPc = "ready"

(* state_ and the program point of run() agree. *)
StateInv ==
    /\ state \in {"Running", "Draining"} <=> mainPc \in Serving
    /\ mainPc = "cas" => current \in {"Idle", "Configured"} /\ state \in {current, "Stopped"}
    /\ mainPc = "returned" => state = "Stopped"
    /\ state \in {"Idle", "Configured"} => NoneRan

(* Until stop() comes the work guard keeps the io_context from running out.   *)
GuardInv ==
    /\ mainPc = "cas" /\ state = current => guard
    /\ state \in {"Idle", "Configured"} /\ mainPc \notin Dtor => ~ioStopped
    /\ state = "Running" => guard /\ ~ioStopped

(* One stop() at most gets to arm the drain; none is inside a destroyed       *)
(* executor; one that closes the acceptors itself came before run().          *)
StopInv ==
    /\ \A s \in Stoppers : stopPc[s] \in Arming =>
           state \in {"Draining", "Stopped"} /\ drain = "none"
    /\ state \in {"Idle", "Configured", "Running"} => drain = "none"
    /\ \A s, r \in Stoppers : stopPc[s] \in Arming /\ stopPc[r] \in Arming => s = r
    /\ mainPc \in Dtor => \A s \in Stoppers : stopPc[s] \in {"idle", "done"}
    /\ \A s \in Stoppers : stopPc[s] = "close" => state = "Stopped" /\ NoneRan

(* A connection that has been accepted is somewhere. *)
PlaceInv ==
    /\ \A c \in accepted : c \in done \cup ready \cup pending \cup cpu
                             \/ \E t \in IoThreads : exec[t] = c
    /\ NoneRan => accepted = {} /\ pending = {} /\ cpu = {}
    /\ cpuPool \/ cpu = {}

(* An io_context that ran out of work has finished the connections, and       *)
(* nothing wakes it again.                                                    *)
DrainedInv ==
    /\ (\E t \in IoThreads : exec[t] = "exited") => ioStopped
    /\ (ioStopped /\ ~forced) =>
           /\ pending = {}
           /\ \A t \in IoThreads : exec[t] \notin Handlers
           /\ accepted \subseteq IF cpuPool THEN done \cup cpu \cup ready ELSE done

(* What the destructor has already joined stays joined. *)
DtorInv ==
    /\ mainPc \in {"dtor_drain", "destroyed"} => cpu = {}
    /\ mainPc = "destroyed" => drain \notin {"waiting", "exited"}

(* The inductive invariant. *)
IInv ==
    /\ TypeOK
    /\ ThreadInv
    /\ StateInv
    /\ GuardInv
    /\ StopInv
    /\ PlaceInv
    /\ DrainedInv
    /\ DtorInv

USE DEF io, accepts, conns, drainer, mainVars, stopVars, States, Over

-----------------------------------------------------------------------------

(* The initial state satisfies the inductive invariant. *)
LEMMA InitInv == Init => IInv
  <1>1. Init => FlagTypeOK
    BY DEF Init, FlagTypeOK
  <1> QED
    BY ExecutorAssumption, <1>1
     DEF Init, IInv, TypeOK, WorkTypeOK, ThreadInv, StateInv, GuardInv, StopInv, PlaceInv, DrainedInv,
         DtorInv, NoneRan, AtRest, Arming, Serving, Dtor, Binding, Handlers

-----------------------------------------------------------------------------
(* One lemma for every part of the invariant, one step for every action. *)

(* The types of the flags. *)
LEMMA FlagTypeStep ==
    ASSUME IInv, [Next]_vars
    PROVE  FlagTypeOK'
  <1> USE ExecutorAssumption DEF IInv, TypeOK, FlagTypeOK
  <1>1. ASSUME NEW l \in Loops, ListenTest(l) \/ ListenBind(l)
        PROVE  FlagTypeOK'
    BY <1>1 DEF ListenTest, ListenBind, Binding
  <1>2. CASE RunLoad \/ RunCas
    BY <1>2 DEF RunLoad, RunCas
  <1>3. ASSUME NEW t \in IoThreads, StartThread(t)
        PROVE  FlagTypeOK'
    BY <1>3 DEF StartThread
  <1>4. ASSUME NEW l \in Loops, Spawn(l)
        PROVE  FlagTypeOK'
    BY <1>4 DEF Spawn, Unspawned
  <1>5. CASE RunJoin \/ RunFinish
    BY <1>5 DEF RunJoin, RunFinish
  <1>6. CASE Destroy
    BY <1>6 DEF Destroy
  <1>7. CASE DrainTimer
    BY <1>7 DEF DrainTimer
  <1>8. ASSUME NEW s \in Stoppers, StopCas1(s) \/ StopCas2(s)
        PROVE  FlagTypeOK'
    BY <1>8 DEF StopCas1, StopCas2, Usable
  <1>9. ASSUME NEW s \in Stoppers, StopClose(s) \/ StopPost(s) \/ StopReset(s) \/ StopArm(s)
        PROVE  FlagTypeOK'
    BY <1>9 DEF StopClose, StopPost, StopReset, StopArm
  <1>10. ASSUME NEW l \in Loops, AcceptCompletes(l)
        PROVE  FlagTypeOK'
    BY <1>10 DEF AcceptCompletes
  <1>11. ASSUME NEW c \in Conns, IoCompletes(c) \/ CpuCompletes(c)
        PROVE  FlagTypeOK'
    BY <1>11 DEF IoCompletes, CpuCompletes
  <1>12. ASSUME NEW t \in IoThreads, ExitThread(t) \/ CloseAcceptors(t)
        PROVE  FlagTypeOK'
    BY <1>12 DEF ExitThread, CloseAcceptors, NoWork
  <1>13. ASSUME NEW t \in IoThreads, NEW h \in Handlers, Take(t, h)
        PROVE  FlagTypeOK'
    BY <1>13 DEF Take
  <1>14. ASSUME NEW t \in IoThreads, NEW l \in Loops, AcceptLoop(t, l)
        PROVE  FlagTypeOK'
    BY <1>14 DEF AcceptLoop
  <1>15. ASSUME NEW t \in IoThreads, NEW c \in Conns, ConnSegment(t, c)
        PROVE  FlagTypeOK'
    BY <1>15 DEF ConnSegment
  <1>16. CASE UNCHANGED vars
    BY <1>16 DEF vars
  <1> QED
    BY <1>1, <1>2, <1>3, <1>4, <1>5, <1>6, <1>7, <1>8, <1>9, <1>10, <1>11, <1>12, <1>13, <1>14, <1>15, <1>16
       DEF Next, MainStep, Environment, StopStep, ThreadStep

(* The types of everything else. *)
LEMMA WorkTypeStep ==
    ASSUME IInv, [Next]_vars
    PROVE  WorkTypeOK'
  <1> USE ExecutorAssumption DEF IInv, TypeOK, WorkTypeOK
  <1>1. ASSUME NEW l \in Loops, ListenTest(l) \/ ListenBind(l)
        PROVE  WorkTypeOK'
    BY <1>1 DEF ListenTest, ListenBind, Binding, Handlers
  <1>2. CASE RunLoad \/ RunCas
    BY <1>2 DEF RunLoad, RunCas, Handlers
  <1>3. ASSUME NEW t \in IoThreads, StartThread(t)
        PROVE  WorkTypeOK'
    BY <1>3 DEF StartThread, Handlers
  <1>4. ASSUME NEW l \in Loops, Spawn(l)
        PROVE  WorkTypeOK'
    BY <1>4 DEF Spawn, Unspawned, Handlers
  <1>5. CASE RunJoin \/ RunFinish
    BY <1>5 DEF RunJoin, RunFinish, Handlers
  <1>6. CASE Destroy
    BY <1>6 DEF Destroy, Handlers
  <1>7. CASE DrainTimer
    BY <1>7 DEF DrainTimer, Handlers
  <1>8. ASSUME NEW s \in Stoppers, StopCas1(s) \/ StopCas2(s)
        PROVE  WorkTypeOK'
    BY <1>8 DEF StopCas1, StopCas2, Usable, Handlers
  <1>9. ASSUME NEW s \in Stoppers, StopClose(s) \/ StopPost(s) \/ StopReset(s) \/ StopArm(s)
        PROVE  WorkTypeOK'
    BY <1>9 DEF StopClose, StopPost, StopReset, StopArm, Handlers
  <1>10. ASSUME NEW l \in Loops, AcceptCompletes(l)
        PROVE  WorkTypeOK'
    BY <1>10 DEF AcceptCompletes, Handlers
  <1>11. ASSUME NEW c \in Conns, IoCompletes(c) \/ CpuCompletes(c)
        PROVE  WorkTypeOK'
    BY <1>11 DEF IoCompletes, CpuCompletes, Handlers
  <1>12. ASSUME NEW t \in IoThreads, ExitThread(t) \/ CloseAcceptors(t)
        PROVE  WorkTypeOK'
    BY <1>12 DEF ExitThread, CloseAcceptors, NoWork, Handlers
  <1>13. ASSUME NEW t \in IoThreads, NEW h \in Handlers, Take(t, h)
        PROVE  WorkTypeOK'
    BY <1>13 DEF Take, Handlers
  <1>14. ASSUME NEW t \in IoThreads, NEW l \in Loops, AcceptLoop(t, l)
        PROVE  WorkTypeOK'
    BY <1>14 DEF AcceptLoop, Handlers
  <1>15. ASSUME NEW t \in IoThreads, NEW c \in Conns, ConnSegment(t, c)
        PROVE  WorkTypeOK'
    BY <1>15 DEF ConnSegment, Handlers
  <1>16. CASE UNCHANGED vars
    BY <1>16 DEF vars, Handlers
  <1> QED
    BY <1>1, <1>2, <1>3, <1>4, <1>5, <1>6, <1>7, <1>8, <1>9, <1>10, <1>11, <1>12, <1>13, <1>14, <1>15, <1>16
       DEF Next, MainStep, Environment, StopStep, ThreadStep

(* The threads follow run(). *)
LEMMA ThreadStepInv ==
    ASSUME IInv, [Next]_vars
    PROVE  ThreadInv'
  <1> USE ExecutorAssumption DEF IInv, TypeOK, WorkTypeOK, ThreadInv, NoneRan, AtRest
  <1>1. ASSUME NEW l \in Loops, ListenTest(l) \/ ListenBind(l)
        PROVE  ThreadInv'
    BY <1>1 DEF ListenTest, ListenBind, Binding, StateInv, Serving, Handlers, Binding
  <1>2. CASE RunLoad \/ RunCas
    BY <1>2 DEF RunLoad, RunCas, StateInv, Serving, Handlers, Binding
  <1>3. ASSUME NEW t \in IoThreads, StartThread(t)
        PROVE  ThreadInv'
    BY <1>3 DEF StartThread, StateInv, Serving, Handlers, Binding
  <1>4. ASSUME NEW l \in Loops, Spawn(l)
        PROVE  ThreadInv'
    BY <1>4 DEF Spawn, Unspawned, StateInv, Serving, Handlers, Binding
  <1>5. CASE RunJoin \/ RunFinish
    BY <1>5 DEF RunJoin, RunFinish, StateInv, Serving, Handlers, Binding
  <1>6. CASE Destroy
    BY <1>6 DEF Destroy, StateInv, Serving, Handlers, Binding
  <1>7. CASE DrainTimer
    BY <1>7 DEF DrainTimer, StateInv, Serving, Handlers, Binding
  <1>8. ASSUME NEW s \in Stoppers, StopCas1(s) \/ StopCas2(s)
        PROVE  ThreadInv'
    BY <1>8 DEF StopCas1, StopCas2, Usable, StateInv, Serving, Handlers, Binding
  <1>9. ASSUME NEW s \in Stoppers, StopClose(s) \/ StopPost(s) \/ StopReset(s) \/ StopArm(s)
        PROVE  ThreadInv'
    BY <1>9 DEF StopClose, StopPost, StopReset, StopArm, StateInv, Serving, Handlers, Binding
  <1>10. ASSUME NEW l \in Loops, AcceptCompletes(l)
        PROVE  ThreadInv'
    BY <1>10 DEF AcceptCompletes, StateInv, Serving, Handlers, Binding
  <1>11. ASSUME NEW c \in Conns, IoCompletes(c) \/ CpuCompletes(c)
        PROVE  ThreadInv'
    BY <1>11 DEF IoCompletes, CpuCompletes, StateInv, Serving, Handlers, Binding
  <1>12. ASSUME NEW t \in IoThreads, ExitThread(t) \/ CloseAcceptors(t)
        PROVE  ThreadInv'
    BY <1>12 DEF ExitThread, CloseAcceptors, NoWork, StateInv, Serving, Handlers, Binding
  <1>13. ASSUME NEW t \in IoThreads, NEW h \in Handlers, Take(t, h)
        PROVE  ThreadInv'
    BY <1>13 DEF Take, StateInv, Serving, Handlers, Binding
  <1>14. ASSUME NEW t \in IoThreads, NEW l \in Loops, AcceptLoop(t, l)
        PROVE  ThreadInv'
    BY <1>14 DEF AcceptLoop, StateInv, Serving, Handlers, Binding
  <1>15. ASSUME NEW t \in IoThreads, NEW c \in Conns, ConnSegment(t, c)
        PROVE  ThreadInv'
    BY <1>15 DEF ConnSegment, StateInv, Serving, Handlers, Binding
  <1>16. CASE UNCHANGED vars
    BY <1>16 DEF vars, StateInv, Serving, Handlers, Binding
  <1> QED
    BY <1>1, <1>2, <1>3, <1>4, <1>5, <1>6, <1>7, <1>8, <1>9, <1>10, <1>11, <1>12, <1>13, <1>14, <1>15, <1>16
       DEF Next, MainStep, Environment, StopStep, ThreadStep

(* state_ follows run() and stop(). *)
LEMMA StateStep ==
    ASSUME IInv, [Next]_vars
    PROVE  StateInv'
  <1> USE ExecutorAssumption DEF IInv, TypeOK, WorkTypeOK, ThreadInv, StateInv, NoneRan
  <1>1. ASSUME NEW l \in Loops, ListenTest(l) \/ ListenBind(l)
        PROVE  StateInv'
    BY <1>1 DEF ListenTest, ListenBind, Binding, Serving, Handlers, Binding
  <1>2. CASE RunLoad \/ RunCas
    BY <1>2 DEF RunLoad, RunCas, Serving, Handlers, Binding
  <1>3. ASSUME NEW t \in IoThreads, StartThread(t)
        PROVE  StateInv'
    BY <1>3 DEF StartThread, Serving, Handlers, Binding
  <1>4. ASSUME NEW l \in Loops, Spawn(l)
        PROVE  StateInv'
    BY <1>4 DEF Spawn, Unspawned, Serving, Handlers, Binding
  <1>5. CASE RunJoin \/ RunFinish
    BY <1>5 DEF RunJoin, RunFinish, Serving, Handlers, Binding
  <1>6. CASE Destroy
    BY <1>6 DEF Destroy, Serving, Handlers, Binding
  <1>7. CASE DrainTimer
    BY <1>7 DEF DrainTimer, Serving, Handlers, Binding
  <1>8. ASSUME NEW s \in Stoppers, StopCas1(s) \/ StopCas2(s)
        PROVE  StateInv'
    BY <1>8 DEF StopCas1, StopCas2, Usable, Serving, Handlers, Binding
  <1>9. ASSUME NEW s \in Stoppers, StopClose(s) \/ StopPost(s) \/ StopReset(s) \/ StopArm(s)
        PROVE  StateInv'
    BY <1>9 DEF StopClose, StopPost, StopReset, StopArm, Serving, Handlers, Binding
  <1>10. ASSUME NEW l \in Loops, AcceptCompletes(l)
        PROVE  StateInv'
    BY <1>10 DEF AcceptCompletes, Serving, Handlers, Binding
  <1>11. ASSUME NEW c \in Conns, IoCompletes(c) \/ CpuCompletes(c)
        PROVE  StateInv'
    BY <1>11 DEF IoCompletes, CpuCompletes, Serving, Handlers, Binding
  <1>12. ASSUME NEW t \in IoThreads, ExitThread(t) \/ CloseAcceptors(t)
        PROVE  StateInv'
    BY <1>12 DEF ExitThread, CloseAcceptors, NoWork, Serving, Handlers, Binding
  <1>13. ASSUME NEW t \in IoThreads, NEW h \in Handlers, Take(t, h)
        PROVE  StateInv'
    BY <1>13 DEF Take, Serving, Handlers, Binding
  <1>14. ASSUME NEW t \in IoThreads, NEW l \in Loops, AcceptLoop(t, l)
        PROVE  StateInv'
    BY <1>14 DEF AcceptLoop, Serving, Handlers, Binding
  <1>15. ASSUME NEW t \in IoThreads, NEW c \in Conns, ConnSegment(t, c)
        PROVE  StateInv'
    BY <1>15 DEF ConnSegment, Serving, Handlers, Binding
  <1>16. CASE UNCHANGED vars
    BY <1>16 DEF vars, Serving, Handlers, Binding
  <1> QED
    BY <1>1, <1>2, <1>3, <1>4, <1>5, <1>6, <1>7, <1>8, <1>9, <1>10, <1>11, <1>12, <1>13, <1>14, <1>15, <1>16
       DEF Next, MainStep, Environment, StopStep, ThreadStep

(* The guard is held while the executor runs. *)
LEMMA GuardStep ==
    ASSUME IInv, [Next]_vars
    PROVE  GuardInv'
  <1> USE ExecutorAssumption DEF IInv, TypeOK, WorkTypeOK, GuardInv, StateInv
  <1>1. ASSUME NEW l \in Loops, ListenTest(l) \/ ListenBind(l)
        PROVE  GuardInv'
    BY <1>1 DEF ListenTest, ListenBind, Binding, ThreadInv, StopInv, Serving, Dtor, Arming, Handlers, AtRest, NoneRan
  <1>2. CASE RunLoad \/ RunCas
    BY <1>2 DEF RunLoad, RunCas, ThreadInv, StopInv, Serving, Dtor, Arming, Handlers, AtRest, NoneRan
  <1>3. ASSUME NEW t \in IoThreads, StartThread(t)
        PROVE  GuardInv'
    BY <1>3 DEF StartThread, ThreadInv, StopInv, Serving, Dtor, Arming, Handlers, AtRest, NoneRan
  <1>4. ASSUME NEW l \in Loops, Spawn(l)
        PROVE  GuardInv'
    BY <1>4 DEF Spawn, Unspawned, ThreadInv, StopInv, Serving, Dtor, Arming, Handlers, AtRest, NoneRan
  <1>5. CASE RunJoin \/ RunFinish
    BY <1>5 DEF RunJoin, RunFinish, ThreadInv, StopInv, Serving, Dtor, Arming, Handlers, AtRest, NoneRan
  <1>6. CASE Destroy
    BY <1>6 DEF Destroy, ThreadInv, StopInv, Serving, Dtor, Arming, Handlers, AtRest, NoneRan
  <1>7. CASE DrainTimer
    BY <1>7 DEF DrainTimer, ThreadInv, StopInv, Serving, Dtor, Arming, Handlers, AtRest, NoneRan
  <1>8. ASSUME NEW s \in Stoppers, StopCas1(s) \/ StopCas2(s)
        PROVE  GuardInv'
    BY <1>8 DEF StopCas1, StopCas2, Usable, ThreadInv, StopInv, Serving, Dtor, Arming, Handlers, AtRest, NoneRan
  <1>9. ASSUME NEW s \in Stoppers, StopClose(s) \/ StopPost(s) \/ StopReset(s) \/ StopArm(s)
        PROVE  GuardInv'
    BY <1>9 DEF StopClose, StopPost, StopReset, StopArm, ThreadInv, StopInv, Serving, Dtor, Arming, Handlers, AtRest, NoneRan
  <1>10. ASSUME NEW l \in Loops, AcceptCompletes(l)
        PROVE  GuardInv'
    BY <1>10 DEF AcceptCompletes, ThreadInv, StopInv, Serving, Dtor, Arming, Handlers, AtRest, NoneRan
  <1>11. ASSUME NEW c \in Conns, IoCompletes(c) \/ CpuCompletes(c)
        PROVE  GuardInv'
    BY <1>11 DEF IoCompletes, CpuCompletes, ThreadInv, StopInv, Serving, Dtor, Arming, Handlers, AtRest, NoneRan
  <1>12. ASSUME NEW t \in IoThreads, ExitThread(t) \/ CloseAcceptors(t)
        PROVE  GuardInv'
    BY <1>12 DEF ExitThread, CloseAcceptors, NoWork, ThreadInv, StopInv, Serving, Dtor, Arming, Handlers, AtRest, NoneRan
  <1>13. ASSUME NEW t \in IoThreads, NEW h \in Handlers, Take(t, h)
        PROVE  GuardInv'
    BY <1>13 DEF Take, ThreadInv, StopInv, Serving, Dtor, Arming, Handlers, AtRest, NoneRan
  <1>14. ASSUME NEW t \in IoThreads, NEW l \in Loops, AcceptLoop(t, l)
        PROVE  GuardInv'
    BY <1>14 DEF AcceptLoop, ThreadInv, StopInv, Serving, Dtor, Arming, Handlers, AtRest, NoneRan
  <1>15. ASSUME NEW t \in IoThreads, NEW c \in Conns, ConnSegment(t, c)
        PROVE  GuardInv'
    BY <1>15 DEF ConnSegment, ThreadInv, StopInv, Serving, Dtor, Arming, Handlers, AtRest, NoneRan
  <1>16. CASE UNCHANGED vars
    BY <1>16 DEF vars, ThreadInv, StopInv, Serving, Dtor, Arming, Handlers, AtRest, NoneRan
  <1> QED
    BY <1>1, <1>2, <1>3, <1>4, <1>5, <1>6, <1>7, <1>8, <1>9, <1>10, <1>11, <1>12, <1>13, <1>14, <1>15, <1>16
       DEF Next, MainStep, Environment, StopStep, ThreadStep

(* stop() calls exclude each other. *)
LEMMA StopStepInv ==
    ASSUME IInv, [Next]_vars
    PROVE  StopInv'
  <1> USE ExecutorAssumption DEF IInv, TypeOK, WorkTypeOK, StateInv, StopInv, NoneRan
  <1>1. ASSUME NEW l \in Loops, ListenTest(l) \/ ListenBind(l)
        PROVE  StopInv'
    BY <1>1 DEF ListenTest, ListenBind, Binding, ThreadInv, Serving, Dtor, Arming, Handlers
  <1>2. CASE RunLoad \/ RunCas
    BY <1>2 DEF RunLoad, RunCas, ThreadInv, Serving, Dtor, Arming, Handlers
  <1>3. ASSUME NEW t \in IoThreads, StartThread(t)
        PROVE  StopInv'
    BY <1>3 DEF StartThread, ThreadInv, Serving, Dtor, Arming, Handlers
  <1>4. ASSUME NEW l \in Loops, Spawn(l)
        PROVE  StopInv'
    BY <1>4 DEF Spawn, Unspawned, ThreadInv, Serving, Dtor, Arming, Handlers
  <1>5. CASE RunJoin \/ RunFinish
    BY <1>5 DEF RunJoin, RunFinish, ThreadInv, Serving, Dtor, Arming, Handlers
  <1>6. CASE Destroy
    BY <1>6 DEF Destroy, ThreadInv, Serving, Dtor, Arming, Handlers
  <1>7. CASE DrainTimer
    BY <1>7 DEF DrainTimer, ThreadInv, Serving, Dtor, Arming, Handlers
  <1>8. ASSUME NEW s \in Stoppers, StopCas1(s) \/ StopCas2(s)
        PROVE  StopInv'
    BY <1>8 DEF StopCas1, StopCas2, Usable, ThreadInv, Serving, Dtor, Arming, Handlers
  <1>9. ASSUME NEW s \in Stoppers, StopClose(s) \/ StopPost(s) \/ StopReset(s) \/ StopArm(s)
        PROVE  StopInv'
    BY <1>9 DEF StopClose, StopPost, StopReset, StopArm, ThreadInv, Serving, Dtor, Arming, Handlers
  <1>10. ASSUME NEW l \in Loops, AcceptCompletes(l)
        PROVE  StopInv'
    BY <1>10 DEF AcceptCompletes, ThreadInv, Serving, Dtor, Arming, Handlers
  <1>11. ASSUME NEW c \in Conns, IoCompletes(c) \/ CpuCompletes(c)
        PROVE  StopInv'
    BY <1>11 DEF IoCompletes, CpuCompletes, ThreadInv, Serving, Dtor, Arming, Handlers
  <1>12. ASSUME NEW t \in IoThreads, ExitThread(t) \/ CloseAcceptors(t)
        PROVE  StopInv'
    BY <1>12 DEF ExitThread, CloseAcceptors, NoWork, ThreadInv, Serving, Dtor, Arming, Handlers
  <1>13. ASSUME NEW t \in IoThreads, NEW h \in Handlers, Take(t, h)
        PROVE  StopInv'
    BY <1>13 DEF Take, ThreadInv, Serving, Dtor, Arming, Handlers
  <1>14. ASSUME NEW t \in IoThreads, NEW l \in Loops, AcceptLoop(t, l)
        PROVE  StopInv'
    BY <1>14 DEF AcceptLoop, ThreadInv, Serving, Dtor, Arming, Handlers
  <1>15. ASSUME NEW t \in IoThreads, NEW c \in Conns, ConnSegment(t, c)
        PROVE  StopInv'
    BY <1>15 DEF ConnSegment, ThreadInv, Serving, Dtor, Arming, Handlers
  <1>16. CASE UNCHANGED vars
    BY <1>16 DEF vars, ThreadInv, Serving, Dtor, Arming, Handlers
  <1> QED
    BY <1>1, <1>2, <1>3, <1>4, <1>5, <1>6, <1>7, <1>8, <1>9, <1>10, <1>11, <1>12, <1>13, <1>14, <1>15, <1>16
       DEF Next, MainStep, Environment, StopStep, ThreadStep

(* No connection is lost. *)
LEMMA PlaceStep ==
    ASSUME IInv, [Next]_vars
    PROVE  PlaceInv'
  <1> USE ExecutorAssumption DEF IInv, TypeOK, WorkTypeOK, PlaceInv, NoneRan
  <1>1. ASSUME NEW l \in Loops, ListenTest(l) \/ ListenBind(l)
        PROVE  PlaceInv'
    BY <1>1 DEF ListenTest, ListenBind, Binding, ThreadInv, Handlers
  <1>2. CASE RunLoad \/ RunCas
    BY <1>2 DEF RunLoad, RunCas, ThreadInv, Handlers
  <1>3. ASSUME NEW t \in IoThreads, StartThread(t)
        PROVE  PlaceInv'
    BY <1>3 DEF StartThread, ThreadInv, Handlers
  <1>4. ASSUME NEW l \in Loops, Spawn(l)
        PROVE  PlaceInv'
    BY <1>4 DEF Spawn, Unspawned, ThreadInv, Handlers
  <1>5. CASE RunJoin \/ RunFinish
    BY <1>5 DEF RunJoin, RunFinish, ThreadInv, Handlers
  <1>6. CASE Destroy
    BY <1>6 DEF Destroy, ThreadInv, Handlers
  <1>7. CASE DrainTimer
    BY <1>7 DEF DrainTimer, ThreadInv, Handlers
  <1>8. ASSUME NEW s \in Stoppers, StopCas1(s) \/ StopCas2(s)
        PROVE  PlaceInv'
    BY <1>8 DEF StopCas1, StopCas2, Usable, ThreadInv, Handlers
  <1>9. ASSUME NEW s \in Stoppers, StopClose(s) \/ StopPost(s) \/ StopReset(s) \/ StopArm(s)
        PROVE  PlaceInv'
    BY <1>9 DEF StopClose, StopPost, StopReset, StopArm, ThreadInv, Handlers
  <1>10. ASSUME NEW l \in Loops, AcceptCompletes(l)
        PROVE  PlaceInv'
    BY <1>10 DEF AcceptCompletes, ThreadInv, Handlers
  <1>11. ASSUME NEW c \in Conns, IoCompletes(c) \/ CpuCompletes(c)
        PROVE  PlaceInv'
    BY <1>11 DEF IoCompletes, CpuCompletes, ThreadInv, Handlers
  <1>12. ASSUME NEW t \in IoThreads, ExitThread(t) \/ CloseAcceptors(t)
        PROVE  PlaceInv'
    BY <1>12 DEF ExitThread, CloseAcceptors, NoWork, ThreadInv, Handlers
  <1>13. ASSUME NEW t \in IoThreads, NEW h \in Handlers, Take(t, h)
        PROVE  PlaceInv'
    BY <1>13 DEF Take, ThreadInv, Handlers
  <1>14. ASSUME NEW t \in IoThreads, NEW l \in Loops, AcceptLoop(t, l)
        PROVE  PlaceInv'
    BY <1>14 DEF AcceptLoop, ThreadInv, Handlers
  <1>15. ASSUME NEW t \in IoThreads, NEW c \in Conns, ConnSegment(t, c)
        PROVE  PlaceInv'
    BY <1>15 DEF ConnSegment, ThreadInv, Handlers
  <1>16. CASE UNCHANGED vars
    BY <1>16 DEF vars, ThreadInv, Handlers
  <1> QED
    BY <1>1, <1>2, <1>3, <1>4, <1>5, <1>6, <1>7, <1>8, <1>9, <1>10, <1>11, <1>12, <1>13, <1>14, <1>15, <1>16
       DEF Next, MainStep, Environment, StopStep, ThreadStep

(* A drained io_context stays drained. *)
LEMMA DrainedStep ==
    ASSUME IInv, [Next]_vars
    PROVE  DrainedInv'
  <1> USE ExecutorAssumption DEF IInv, TypeOK, WorkTypeOK, DrainedInv, PlaceInv, NoneRan
  <1>1. ASSUME NEW l \in Loops, ListenTest(l) \/ ListenBind(l)
        PROVE  DrainedInv'
    BY <1>1 DEF ListenTest, ListenBind, Binding, ThreadInv, StateInv, StopInv, Serving, AtRest, Handlers
  <1>2. CASE RunLoad \/ RunCas
    BY <1>2 DEF RunLoad, RunCas, ThreadInv, StateInv, StopInv, Serving, AtRest, Handlers
  <1>3. ASSUME NEW t \in IoThreads, StartThread(t)
        PROVE  DrainedInv'
    BY <1>3 DEF StartThread, ThreadInv, StateInv, StopInv, Serving, AtRest, Handlers
  <1>4. ASSUME NEW l \in Loops, Spawn(l)
        PROVE  DrainedInv'
    BY <1>4 DEF Spawn, Unspawned, ThreadInv, StateInv, StopInv, Serving, AtRest, Handlers
  <1>5. CASE RunJoin \/ RunFinish
    BY <1>5 DEF RunJoin, RunFinish, ThreadInv, StateInv, StopInv, Serving, AtRest, Handlers
  <1>6. CASE Destroy
    BY <1>6 DEF Destroy, ThreadInv, StateInv, StopInv, Serving, AtRest, Handlers
  <1>7. CASE DrainTimer
    BY <1>7 DEF DrainTimer, ThreadInv, StateInv, StopInv, Serving, AtRest, Handlers
  <1>8. ASSUME NEW s \in Stoppers, StopCas1(s) \/ StopCas2(s)
        PROVE  DrainedInv'
    BY <1>8 DEF StopCas1, StopCas2, Usable, ThreadInv, StateInv, StopInv, Serving, AtRest, Handlers
  <1>9. ASSUME NEW s \in Stoppers, StopClose(s) \/ StopPost(s) \/ StopReset(s) \/ StopArm(s)
        PROVE  DrainedInv'
    BY <1>9 DEF StopClose, StopPost, StopReset, StopArm, ThreadInv, StateInv, StopInv, Serving, AtRest, Handlers
  <1>10. ASSUME NEW l \in Loops, AcceptCompletes(l)
        PROVE  DrainedInv'
    BY <1>10 DEF AcceptCompletes, ThreadInv, StateInv, StopInv, Serving, AtRest, Handlers
  <1>11. ASSUME NEW c \in Conns, IoCompletes(c) \/ CpuCompletes(c)
        PROVE  DrainedInv'
    BY <1>11 DEF IoCompletes, CpuCompletes, ThreadInv, StateInv, StopInv, Serving, AtRest, Handlers
  <1>12. ASSUME NEW t \in IoThreads, ExitThread(t) \/ CloseAcceptors(t)
        PROVE  DrainedInv'
    BY <1>12 DEF ExitThread, CloseAcceptors, NoWork, ThreadInv, StateInv, StopInv, Serving, AtRest, Handlers
  <1>13. ASSUME NEW t \in IoThreads, NEW h \in Handlers, Take(t, h)
        PROVE  DrainedInv'
    BY <1>13 DEF Take, ThreadInv, StateInv, StopInv, Serving, AtRest, Handlers
  <1>14. ASSUME NEW t \in IoThreads, NEW l \in Loops, AcceptLoop(t, l)
        PROVE  DrainedInv'
    BY <1>14 DEF AcceptLoop, ThreadInv, StateInv, StopInv, Serving, AtRest, Handlers
  <1>15. ASSUME NEW t \in IoThreads, NEW c \in Conns, ConnSegment(t, c)
        PROVE  DrainedInv'
    BY <1>15 DEF ConnSegment, ThreadInv, StateInv, StopInv, Serving, AtRest, Handlers
  <1>16. CASE UNCHANGED vars
    BY <1>16 DEF vars, ThreadInv, StateInv, StopInv, Serving, AtRest, Handlers
  <1> QED
    BY <1>1, <1>2, <1>3, <1>4, <1>5, <1>6, <1>7, <1>8, <1>9, <1>10, <1>11, <1>12, <1>13, <1>14, <1>15, <1>16
       DEF Next, MainStep, Environment, StopStep, ThreadStep

(* The destructor leaves nothing. *)
LEMMA DtorStep ==
    ASSUME IInv, [Next]_vars
    PROVE  DtorInv'
  <1> USE ExecutorAssumption DEF IInv, TypeOK, WorkTypeOK, DtorInv, ThreadInv, AtRest
  <1>1. ASSUME NEW l \in Loops, ListenTest(l) \/ ListenBind(l)
        PROVE  DtorInv'
    BY <1>1 DEF ListenTest, ListenBind, Binding, StopInv, Dtor, Arming, Handlers
  <1>2. CASE RunLoad \/ RunCas
    BY <1>2 DEF RunLoad, RunCas, StopInv, Dtor, Arming, Handlers
  <1>3. ASSUME NEW t \in IoThreads, StartThread(t)
        PROVE  DtorInv'
    BY <1>3 DEF StartThread, StopInv, Dtor, Arming, Handlers
  <1>4. ASSUME NEW l \in Loops, Spawn(l)
        PROVE  DtorInv'
    BY <1>4 DEF Spawn, Unspawned, StopInv, Dtor, Arming, Handlers
  <1>5. CASE RunJoin \/ RunFinish
    BY <1>5 DEF RunJoin, RunFinish, StopInv, Dtor, Arming, Handlers
  <1>6. CASE Destroy
    BY <1>6 DEF Destroy, StopInv, Dtor, Arming, Handlers
  <1>7. CASE DrainTimer
    BY <1>7 DEF DrainTimer, StopInv, Dtor, Arming, Handlers
  <1>8. ASSUME NEW s \in Stoppers, StopCas1(s) \/ StopCas2(s)
        PROVE  DtorInv'
    BY <1>8 DEF StopCas1, StopCas2, Usable, StopInv, Dtor, Arming, Handlers
  <1>9. ASSUME NEW s \in Stoppers, StopClose(s) \/ StopPost(s) \/ StopReset(s) \/ StopArm(s)
        PROVE  DtorInv'
    BY <1>9 DEF StopClose, StopPost, StopReset, StopArm, StopInv, Dtor, Arming, Handlers
  <1>10. ASSUME NEW l \in Loops, AcceptCompletes(l)
        PROVE  DtorInv'
    BY <1>10 DEF AcceptCompletes, StopInv, Dtor, Arming, Handlers
  <1>11. ASSUME NEW c \in Conns, IoCompletes(c) \/ CpuCompletes(c)
        PROVE  DtorInv'
    BY <1>11 DEF IoCompletes, CpuCompletes, StopInv, Dtor, Arming, Handlers
  <1>12. ASSUME NEW t \in IoThreads, ExitThread(t) \/ CloseAcceptors(t)
        PROVE  DtorInv'
    BY <1>12 DEF ExitThread, CloseAcceptors, NoWork, StopInv, Dtor, Arming, Handlers
  <1>13. ASSUME NEW t \in IoThreads, NEW h \in Handlers, Take(t, h)
        PROVE  DtorInv'
    BY <1>13 DEF Take, StopInv, Dtor, Arming, Handlers
  <1>14. ASSUME NEW t \in IoThreads, NEW l \in Loops, AcceptLoop(t, l)
        PROVE  DtorInv'
    BY <1>14 DEF AcceptLoop, StopInv, Dtor, Arming, Handlers
  <1>15. ASSUME NEW t \in IoThreads, NEW c \in Conns, ConnSegment(t, c)
        PROVE  DtorInv'
    BY <1>15 DEF ConnSegment, StopInv, Dtor, Arming, Handlers
  <1>16. CASE UNCHANGED vars
    BY <1>16 DEF vars, StopInv, Dtor, Arming, Handlers
  <1> QED
    BY <1>1, <1>2, <1>3, <1>4, <1>5, <1>6, <1>7, <1>8, <1>9, <1>10, <1>11, <1>12, <1>13, <1>14, <1>15, <1>16
       DEF Next, MainStep, Environment, StopStep, ThreadStep
-----------------------------------------------------------------------------

(* The inductive invariant holds in every reachable state. *)
THEOREM Invariance == Spec => []IInv
  <1>1. IInv /\ [Next]_vars => IInv'
    BY FlagTypeStep, WorkTypeStep, ThreadStepInv, StateStep, GuardStep, StopStepInv, PlaceStep, DrainedStep, DtorStep
       DEF IInv, TypeOK
  <1> QED
    BY InitInv, <1>1, PTL DEF Spec

(* At most one stop() is about to arm the drain. *)
LEMMA OneArming == IInv => OneDrainThread
  <1> SUFFICES ASSUME IInv PROVE OneDrainThread
    OBVIOUS
  <1> DEFINE A == {s \in Stoppers : stopPc[s] \in {"post", "reset", "arm"}}
  <1>1. \A s \in Stoppers : stopPc[s] \in {"post", "reset", "arm"} => drain = "none"
    BY DEF IInv, StopInv, Arming
  <1>2. Cardinality(A) <= 1
    <2>1. CASE A = {}
      BY <2>1, FS_EmptySet
    <2>2. CASE A # {}
      <3>1. PICK s : s \in A
        BY <2>2
      <3>2. A = {s}
        BY <3>1 DEF IInv, StopInv, Arming
      <3>3. Cardinality({s}) = 1
        BY FS_Singleton
      <3> QED
        BY <3>2, <3>3
    <2> QED
      BY <2>1, <2>2
  <1> QED
    BY <1>1, <1>2 DEF OneDrainThread

(* A stop ends the executor in good order, for every number of threads, ports, *)
(* connections and stop() calls.                                               *)
THEOREM ShutdownIsOrderly == Spec => []OrderlyShutdown
  <1>1. IInv => GracefulDrain
    BY DEF IInv, GracefulDrain, ThreadInv, AtRest, PlaceInv, DrainedInv, NoneRan
  <1>2. IInv => NothingOutlives
    BY DEF IInv, NothingOutlives, ThreadInv, AtRest, DtorInv
  <1>3. IInv => StoppedIsQuiet
    BY DEF IInv, TypeOK, WorkTypeOK, StoppedIsQuiet, ThreadInv, StateInv, Serving, AtRest, NoneRan
  <1>4. IInv => OrderlyShutdown
    BY <1>1, <1>2, <1>3, OneArming DEF IInv, OrderlyShutdown
  <1> QED
    BY Invariance, <1>4, PTL

(* The life cycle only moves forward. *)
THEOREM ForwardOnly == Spec => LifecycleForward
  <1>1. IInv /\ [Next]_vars => [Rank[state'] >= Rank[state]]_vars
    <2> SUFFICES ASSUME IInv, Next PROVE Rank[state'] >= Rank[state]
      OBVIOUS
    <2> USE DEF IInv, TypeOK, WorkTypeOK, Rank
    <2>1. CASE UNCHANGED state
      BY <2>1
    <2>2. ASSUME NEW l \in Loops, ListenBind(l)
          PROVE  Rank[state'] >= Rank[state]
      BY <2>2 DEF ListenBind
    <2>3. CASE RunLoad \/ RunCas \/ RunFinish
      BY <2>3 DEF RunLoad, RunCas, RunFinish, StateInv
    <2>4. ASSUME NEW s \in Stoppers, StopCas1(s) \/ StopCas2(s)
          PROVE  Rank[state'] >= Rank[state]
      BY <2>4 DEF StopCas1, StopCas2
    <2> QED
      BY <2>1, <2>2, <2>3, <2>4
         DEF Next, MainStep, Environment, StopStep, ThreadStep, ListenTest, StartThread, Spawn,
             RunJoin, Destroy, DrainTimer, AcceptCompletes, IoCompletes, CpuCompletes, StopClose,
             StopPost, StopReset, StopArm, ExitThread, CloseAcceptors, Take, AcceptLoop,
             ConnSegment
  <1> QED
    BY Invariance, <1>1, PTL DEF Spec, LifecycleForward

(* The executor implements the life cycle its owners rely on. *)
THEOREM Refinement == Spec => ImplementsLifecycle
  <1>1. Init => Lifecycle!Init
    BY DEF Init, Lifecycle!Init, AtWork
  <1>2. IInv /\ [Next]_vars => [Lifecycle!Next]_Lifecycle!lifecycle
    <2> SUFFICES ASSUME IInv, [Next]_vars
                 PROVE  Lifecycle!Next \/ (state' = state /\ AtWork' = AtWork)
      BY DEF Lifecycle!lifecycle
    <2> USE ExecutorAssumption DEF IInv, TypeOK, WorkTypeOK, StateInv, ThreadInv, AtRest, NoneRan
    <2> DEFINE Same == state' = state /\ AtWork' = AtWork
               Goal == Lifecycle!Next \/ Same
    <2>1. CASE exec' = exec /\ state' = state
      BY <2>1 DEF AtWork
    <2>2. ASSUME NEW l \in Loops, ListenBind(l)
          PROVE  Goal
      BY <2>2 DEF ListenBind, AtWork, Lifecycle!Next, Lifecycle!Listen
    <2>3. CASE RunLoad
      BY <2>3 DEF RunLoad, AtWork, Serving
    <2>4. CASE RunCas
      BY <2>4 DEF RunCas, AtWork, Serving, Lifecycle!Next, Lifecycle!Run
    <2>5. CASE RunFinish
      <3>1. ~AtWork /\ ioStopped
        BY <2>5 DEF RunFinish, AtWork, DrainedInv
      <3> QED
        BY <2>5, <3>1 DEF RunFinish, AtWork, Serving, GuardInv, Lifecycle!Next, Lifecycle!Return
    <2>6. ASSUME NEW s \in Stoppers, StopCas1(s) \/ StopCas2(s)
          PROVE  Goal
      BY <2>6 DEF StopCas1, StopCas2, AtWork, Lifecycle!Next, Lifecycle!Stop
    <2>7. ASSUME NEW t \in IoThreads, StartThread(t)
          PROVE  Goal
      <3>1. AtWork' /\ state \in {"Running", "Draining"} /\ state' = state
        BY <2>7 DEF StartThread, AtWork, Serving
      <3> QED
        BY <3>1 DEF Lifecycle!Next, Lifecycle!Begin
    <2>8. ASSUME NEW t \in IoThreads, ExitThread(t)
          PROVE  Goal
      <3>1. AtWork /\ state' = state /\ state = "Draining"
        BY <2>8 DEF ExitThread, AtWork, NoWork, GuardInv, Serving
      <3>2. CASE AtWork'
        BY <3>1, <3>2
      <3>3. CASE ~AtWork'
        BY <3>1, <3>3 DEF AtWork, Lifecycle!Next, Lifecycle!End
      <3> QED
        BY <3>2, <3>3
    <2>9. ASSUME NEW t \in IoThreads, state' = state,
                 exec[t] \notin AtRest, exec'[t] \notin AtRest
          PROVE  Goal
      BY <2>9 DEF AtWork
    <2>10. ASSUME NEW t \in IoThreads, NEW h \in Handlers, Take(t, h)
           PROVE  Goal
      BY <2>9, <2>10 DEF Take
    <2>11. ASSUME NEW t \in IoThreads,
                  \/ CloseAcceptors(t)
                  \/ \E l \in Loops : AcceptLoop(t, l)
                  \/ \E c \in Conns : ConnSegment(t, c)
           PROVE  Goal
      BY <2>9, <2>11 DEF CloseAcceptors, AcceptLoop, ConnSegment, Handlers
    <2> QED
      BY <2>1, <2>2, <2>3, <2>4, <2>5, <2>6, <2>7, <2>8, <2>10, <2>11
         DEF vars, Next, MainStep, Environment, StopStep, ThreadStep, ListenTest, Spawn, RunJoin,
             Destroy, DrainTimer, AcceptCompletes, IoCompletes, CpuCompletes, StopClose, StopPost,
             StopReset, StopArm
  <1> QED
    BY Invariance, <1>1, <1>2, PTL DEF Spec, ImplementsLifecycle, Lifecycle!Spec
=============================================================================
