--------------------------- MODULE LogWriterProofs ---------------------------
(***************************************************************************)
(* TLAPS proofs about LogWriter, for any sets of callers and flushers, any   *)
(* capacity and any number of calls.                                         *)
(***************************************************************************)
EXTENDS LogWriter, TLAPS

(* Steps of a thread inside log::write or log::flush, where it holds a       *)
(* shared_ptr to the writer; and steps in which a thread owns mutex_.        *)
InCall  == {"try_lock", "push", "notify", "release", "lock", "test", "block", "wait",
            "flushed"}
Holding == {"push", "test", "block", "clear"}

(* The background thread exists once App::listen has created the writer. *)
StartInv == pc[Writer] = "none" <=> pc[App] = "create"

(* mutex_ is owned exactly by the thread that is inside a critical section,  *)
(* and only threads at a wait are asleep.                                    *)
MutexInv ==
    /\ \A t \in Threads : mutex = t <=> pc[t] \in Holding
    /\ \A t \in waiting : pc[t] = "wait"

(* A thread in a log call, and no other, holds a reference. *)
RefInv == \A t \in Users \cup {App} : t \in refs <=> pc[t] \in InCall

(* App::listen owns the writer until it leaves. *)
OwnerInv ==
    /\ pc[App] = "create" => owned = {} /\ refs = {}
    /\ pc[App] = "install" => "impl" \in owned /\ "slot" \notin owned
    /\ pc[App] \in InCall \cup {"serving", "reset"} => {"slot", "impl"} \subseteq owned
    /\ pc[App] = "reset_impl" => "impl" \in owned /\ "slot" \notin owned
    /\ pc[App] = "leave" => owned \subseteq {"local"}
    /\ pc[App] = "returned" => owned = {}

(* Once stop is requested the writer has no user left, for ever. *)
StopInv ==
    /\ stop => owned = {} /\ refs = {} /\ pc[App] # "create"
    /\ pc[Writer] = "done" => stop /\ queue = <<>>

(* The background thread's own state. *)
RunInv ==
    /\ writing <=> pc[Writer] \in {"write", "lock2", "clear"}
    /\ pc[Writer] = "write" => record \in Records
    /\ pc[Writer] = "block" => queue = <<>>

(* A failed stream stays failed, and a disabled writer accepts nothing. *)
StreamInv ==
    /\ output # "failed" => lost = 0
    /\ output = "null" => accepted = 0
    /\ pc[App] = "create" => output = "null"
    /\ \A c \in Callers : pc[c] \in {"try_lock", "push", "notify"} => output # "null"

(* A flush has to account for no more than was accepted. *)
MarkInv == \A f \in FlushThreads : mark[f] <= accepted

(* The inductive invariant. *)
IInv ==
    /\ TypeOK
    /\ StartInv
    /\ MutexInv
    /\ RefInv
    /\ OwnerInv
    /\ DestroyedOnlyUnused
    /\ StopInv
    /\ RunInv
    /\ StreamInv
    /\ Conservation
    /\ CapacityBound
    /\ MarkInv
    /\ FlushSuccessMeansWritten
    /\ SleepIsExcused

USE DEF Users, Threads, FlushThreads, CallerLabels, FlushLabels, DtorLabels, AppLabels,
        RunLabels, counters, history

-----------------------------------------------------------------------------

(* The initial state satisfies the inductive invariant. *)
LEMMA InitInv == Init => IInv
  <1> SUFFICES ASSUME Init PROVE IInv
    OBVIOUS
  <1> USE ConstantsAssumption DEF Init
  <1>1. PcTypeOK
    BY DEF PcTypeOK, Labels
  <1>2. SyncTypeOK
    BY DEF SyncTypeOK
  <1>9. QueueTypeOK
    BY DEF QueueTypeOK
  <1>3. CountTypeOK /\ OwnerTypeOK
    BY DEF CountTypeOK, OwnerTypeOK
  <1>4. StartInv /\ MutexInv
    BY DEF StartInv, MutexInv, Holding
  <1>5. RefInv /\ OwnerInv /\ DestroyedOnlyUnused
    BY DEF RefInv, OwnerInv, DestroyedOnlyUnused, InCall
  <1>6. StopInv /\ RunInv /\ StreamInv /\ SleepIsExcused
    BY DEF StopInv, RunInv, StreamInv, SleepIsExcused
  <1>7. Conservation /\ CapacityBound
    BY DEF Conservation, CapacityBound, InFlight, Processed, Capacity
  <1>8. MarkInv /\ FlushSuccessMeansWritten
    BY DEF MarkInv, FlushSuccessMeansWritten
  <1> QED
    BY <1>1, <1>2, <1>3, <1>4, <1>5, <1>6, <1>7, <1>8, <1>9 DEF IInv, TypeOK

-----------------------------------------------------------------------------
(* One lemma for every part of the invariant, one step for every action. *)

(* Threads stay at their program points. *)
LEMMA PcTypeStep ==
    ASSUME IInv, [Next]_vars
    PROVE  PcTypeOK'
  <1> USE ConstantsAssumption DEF IInv, TypeOK, PcTypeOK, Labels
  <1>1. CASE Create \/ Install \/ AppRelease
    BY <1>1 DEF Create, Goto, Install, AppRelease
  <1>2. CASE RunStep
    BY <1>2 DEF RunStep, RunLock, Goto, Acquire, RunLock2, RunClear, Unlock, RunNotify,
           NotifyAll, Block, Wake, RunTest, WriteRecord, IncrementDropped
  <1>3. ASSUME NEW c \in Callers, CallerStep(c)
        PROVE  PcTypeOK'
    BY <1>3 DEF CallerStep, WriteCall, Goto, IncrementDropped, TryLock, Acquire, Push,
           Unlock, Notify, NotifyOne
  <1>4. ASSUME NEW f \in FlushThreads, FlushStep(f)
        PROVE  PcTypeOK'
    BY <1>4 DEF FlushStep, FlushCall, FlushIdle, Goto, FlushTest, Drained, Unlock,
           FlushLock, Acquire, Block, Wake
  <1>5. ASSUME NEW t \in Users \cup {App}, OwnerStep(t)
        PROVE  PcTypeOK'
    BY <1>5 DEF OwnerStep, Release, Return, Goto, DtorStop, DtorNotify, NotifyAll,
           DtorJoin, DtorClose
  <1>6. CASE UNCHANGED vars
    BY <1>6 DEF vars
  <1> QED
    BY <1>1, <1>2, <1>3, <1>4, <1>5, <1>6
       DEF Next, RunStep, CallerStep, FlushStep, OwnerStep

(* The types of the synchronisation state. *)
LEMMA SyncTypeStep ==
    ASSUME IInv, [Next]_vars
    PROVE  SyncTypeOK'
  <1> USE ConstantsAssumption DEF IInv, TypeOK, SyncTypeOK
  <1>1. CASE Create \/ Install \/ AppRelease
    BY <1>1 DEF Create, Goto, Install, AppRelease
  <1>2. CASE RunStep
    BY <1>2 DEF RunStep, RunLock, Goto, Acquire, RunLock2, RunClear, Unlock, RunNotify,
           NotifyAll, Block, Wake, RunTest, WriteRecord, IncrementDropped
  <1>3. ASSUME NEW c \in Callers, CallerStep(c)
        PROVE  SyncTypeOK'
    BY <1>3 DEF CallerStep, WriteCall, Goto, IncrementDropped, TryLock, Acquire, Push,
           Unlock, Notify, NotifyOne
  <1>4. ASSUME NEW f \in FlushThreads, FlushStep(f)
        PROVE  SyncTypeOK'
    BY <1>4 DEF FlushStep, FlushCall, FlushIdle, Goto, FlushTest, Drained, Unlock,
           FlushLock, Acquire, Block, Wake
  <1>5. ASSUME NEW t \in Users \cup {App}, OwnerStep(t)
        PROVE  SyncTypeOK'
    BY <1>5 DEF OwnerStep, Release, Return, Goto, DtorStop, DtorNotify, NotifyAll,
           DtorJoin, DtorClose
  <1>6. CASE UNCHANGED vars
    BY <1>6 DEF vars
  <1> QED
    BY <1>1, <1>2, <1>3, <1>4, <1>5, <1>6
       DEF Next, RunStep, CallerStep, FlushStep, OwnerStep

(* The types of the queue, the record in flight and the output. *)
LEMMA QueueTypeStep ==
    ASSUME IInv, [Next]_vars
    PROVE  QueueTypeOK'
  <1> USE ConstantsAssumption DEF IInv, TypeOK, QueueTypeOK
  <1>1. CASE Create \/ Install \/ AppRelease
    BY <1>1 DEF Create, Goto, Install, AppRelease
  <1>2. CASE RunLock \/ RunLock2 \/ RunClear \/ RunNotify \/ Block(Writer) \/ Wake(Writer)
    BY <1>2 DEF RunLock, Goto, Acquire, RunLock2, RunClear, Unlock, RunNotify,
           NotifyAll, Block, Wake
  <1>3. CASE RunTest
    <2>1. output' = output /\ out' = out
      BY <1>3 DEF RunTest
    <2>2. CASE queue' = queue /\ record' = record
      BY <2>1, <2>2
    <2>3. CASE queue # <<>> /\ record' = Head(queue) /\ queue' = Tail(queue)
      <3>1. record' \in Records /\ queue' \in Seq(Records)
        BY <2>3
      <3> QED
        BY <2>1, <3>1
    <2> QED
      BY <1>3, <2>2, <2>3 DEF RunTest
  <1>4. CASE WriteRecord
    <2>1. record \in Records
      BY <1>4 DEF WriteRecord, RunInv
    <2>2. out' \in Seq(Records)
      BY <1>4, <2>1 DEF WriteRecord
    <2>3. queue' = queue /\ record' = NoRecord /\ output' \in {"null", "good", "failed"}
      BY <1>4 DEF WriteRecord
    <2> QED
      BY <2>2, <2>3
  <1>5. ASSUME NEW c \in Callers, WriteCall(c) \/ TryLock(c) \/ Notify(c)
        PROVE  QueueTypeOK'
    BY <1>5 DEF WriteCall, Goto, IncrementDropped, TryLock, Acquire, Notify, NotifyOne
  <1>6. ASSUME NEW c \in Callers, Push(c)
        PROVE  QueueTypeOK'
    <2>1. <<c, calls[c]>> \in Records
      BY DEF OwnerTypeOK, Records
    <2>2. queue' \in Seq(Records)
      <3>1. CASE queue' = Append(queue, <<c, calls[c]>>)
        BY <2>1, <3>1
      <3>2. CASE queue' = queue
        BY <3>2
      <3> QED
        BY <1>6, <3>1, <3>2 DEF Push
    <2>3. UNCHANGED <<record, output, out>>
      BY <1>6 DEF Push
    <2> QED
      BY <2>2, <2>3
  <1>7. ASSUME NEW f \in FlushThreads, FlushStep(f)
        PROVE  QueueTypeOK'
    BY <1>7 DEF FlushStep, FlushCall, FlushIdle, Goto, FlushTest, Drained, Unlock,
           FlushLock, Acquire, Block, Wake
  <1>8. ASSUME NEW t \in Users \cup {App}, OwnerStep(t)
        PROVE  QueueTypeOK'
    BY <1>8 DEF OwnerStep, Release, Return, Goto, DtorStop, DtorNotify, NotifyAll,
           DtorJoin, DtorClose
  <1>9. CASE UNCHANGED vars
    BY <1>9 DEF vars
  <1> QED
    BY <1>1, <1>2, <1>3, <1>4, <1>5, <1>6, <1>7, <1>8, <1>9
       DEF Next, RunStep, CallerStep, FlushStep, OwnerStep

(* The types of the counters. *)
LEMMA CountTypeStep ==
    ASSUME IInv, [Next]_vars
    PROVE  CountTypeOK'
  <1> USE ConstantsAssumption DEF IInv, TypeOK, CountTypeOK
  <1>1. CASE Create \/ Install \/ AppRelease
    BY <1>1 DEF Create, Goto, Install, AppRelease
  <1>2. CASE RunStep
    BY <1>2 DEF RunStep, RunLock, Goto, Acquire, RunLock2, RunClear, Unlock, RunNotify,
           NotifyAll, Block, Wake, RunTest, WriteRecord, IncrementDropped
  <1>3. ASSUME NEW c \in Callers, CallerStep(c)
        PROVE  CountTypeOK'
    BY <1>3 DEF CallerStep, WriteCall, Goto, IncrementDropped, TryLock, Acquire, Push,
           Unlock, Notify, NotifyOne
  <1>4. ASSUME NEW f \in FlushThreads, FlushStep(f)
        PROVE  CountTypeOK'
    BY <1>4 DEF FlushStep, FlushCall, FlushIdle, Goto, FlushTest, Drained, Unlock,
           FlushLock, Acquire, Block, Wake
  <1>5. ASSUME NEW t \in Users \cup {App}, OwnerStep(t)
        PROVE  CountTypeOK'
    BY <1>5 DEF OwnerStep, Release, Return, Goto, DtorStop, DtorNotify, NotifyAll,
           DtorJoin, DtorClose
  <1>6. CASE UNCHANGED vars
    BY <1>6 DEF vars
  <1> QED
    BY <1>1, <1>2, <1>3, <1>4, <1>5, <1>6
       DEF Next, RunStep, CallerStep, FlushStep, OwnerStep

(* The types of the ownership state. *)
LEMMA OwnerTypeStep ==
    ASSUME IInv, [Next]_vars
    PROVE  OwnerTypeOK'
  <1> USE ConstantsAssumption DEF IInv, TypeOK, OwnerTypeOK
  <1>1. CASE Create \/ Install \/ AppRelease
    BY <1>1 DEF Create, Goto, Install, AppRelease
  <1>2. CASE RunStep
    BY <1>2 DEF RunStep, RunLock, Goto, Acquire, RunLock2, RunClear, Unlock, RunNotify,
           NotifyAll, Block, Wake, RunTest, WriteRecord, IncrementDropped
  <1>3. ASSUME NEW c \in Callers, WriteCall(c)
        PROVE  OwnerTypeOK'
    BY <1>3 DEF WriteCall, Goto, IncrementDropped
  <1>4. ASSUME NEW c \in Callers, TryLock(c)
        PROVE  OwnerTypeOK'
    BY <1>4 DEF TryLock, Goto, Acquire, IncrementDropped
  <1>5. ASSUME NEW c \in Callers, Push(c)
        PROVE  OwnerTypeOK'
    BY <1>5 DEF Push, Goto, Unlock, IncrementDropped
  <1>6. ASSUME NEW c \in Callers, Notify(c)
        PROVE  OwnerTypeOK'
    BY <1>6 DEF Notify, Goto, NotifyOne
  <1>7. ASSUME NEW f \in FlushThreads, FlushCall(f)
        PROVE  OwnerTypeOK'
    BY <1>7 DEF FlushCall, FlushIdle, Goto
  <1>8. ASSUME NEW f \in FlushThreads, FlushTest(f)
        PROVE  OwnerTypeOK'
    BY <1>8 DEF FlushTest, Drained, Goto, Unlock
  <1>9. ASSUME NEW f \in FlushThreads, FlushLock(f) \/ Block(f) \/ Wake(f)
        PROVE  OwnerTypeOK'
    BY <1>9 DEF FlushLock, Goto, Acquire, Block, Unlock, Wake
  <1>10. ASSUME NEW t \in Users \cup {App}, OwnerStep(t)
         PROVE  OwnerTypeOK'
    BY <1>10 DEF OwnerStep, Release, Return, Goto, DtorStop, DtorNotify, NotifyAll,
           DtorJoin, DtorClose
  <1>11. CASE UNCHANGED vars
    BY <1>11 DEF vars
  <1> QED
    BY <1>1, <1>2, <1>3, <1>4, <1>5, <1>6, <1>7, <1>8, <1>9, <1>10, <1>11
       DEF Next, RunStep, CallerStep, FlushStep, OwnerStep

(* Create starts the background thread; neither goes back. *)
LEMMA StartStep ==
    ASSUME IInv, [Next]_vars
    PROVE  StartInv'
  <1> USE ConstantsAssumption DEF IInv, TypeOK, PcTypeOK, StartInv
  <1>1. CASE Create \/ Install \/ AppRelease
    BY <1>1 DEF Create, Goto, Install, AppRelease
  <1>2. CASE RunStep
    BY <1>2 DEF RunStep, RunLock, Goto, Acquire, RunLock2, RunClear, Unlock, RunNotify,
           NotifyAll, Block, Wake, RunTest, WriteRecord, IncrementDropped
  <1>3. ASSUME NEW c \in Callers, CallerStep(c)
        PROVE  StartInv'
    BY <1>3 DEF CallerStep, WriteCall, Goto, IncrementDropped, TryLock, Acquire, Push,
           Unlock, Notify, NotifyOne
  <1>4. ASSUME NEW f \in FlushThreads, FlushStep(f)
        PROVE  StartInv'
    BY <1>4 DEF FlushStep, FlushCall, FlushIdle, Goto, FlushTest, Drained, Unlock,
           FlushLock, Acquire, Block, Wake
  <1>5. ASSUME NEW t \in Users \cup {App}, OwnerStep(t)
        PROVE  StartInv'
    BY <1>5 DEF OwnerStep, Release, Return, Goto, DtorStop, DtorNotify, NotifyAll,
           DtorJoin, DtorClose
  <1>6. CASE UNCHANGED vars
    BY <1>6 DEF vars
  <1> QED
    BY <1>1, <1>2, <1>3, <1>4, <1>5, <1>6
       DEF Next, RunStep, CallerStep, FlushStep, OwnerStep

(* The mutex is taken and released where the code does. *)
LEMMA MutexStep ==
    ASSUME IInv, [Next]_vars
    PROVE  MutexInv'
  <1> USE ConstantsAssumption DEF IInv, TypeOK, PcTypeOK, StartInv, SyncTypeOK,
        MutexInv, Holding
  <1>1. CASE Create \/ Install \/ AppRelease
    BY <1>1 DEF Create, Goto, Install, AppRelease
  <1>2. CASE RunStep
    BY <1>2 DEF RunStep, RunLock, Goto, Acquire, RunLock2, RunClear, Unlock, RunNotify,
           NotifyAll, Block, Wake, RunTest, WriteRecord, IncrementDropped
  <1>3. ASSUME NEW c \in Callers, CallerStep(c)
        PROVE  MutexInv'
    BY <1>3 DEF CallerStep, WriteCall, Goto, IncrementDropped, TryLock, Acquire, Push,
           Unlock, Notify, NotifyOne
  <1>4. ASSUME NEW f \in FlushThreads, FlushStep(f)
        PROVE  MutexInv'
    BY <1>4 DEF FlushStep, FlushCall, FlushIdle, Goto, FlushTest, Drained, Unlock,
           FlushLock, Acquire, Block, Wake
  <1>5. ASSUME NEW t \in Users \cup {App}, OwnerStep(t)
        PROVE  MutexInv'
    BY <1>5 DEF OwnerStep, Release, Return, Goto, DtorStop, DtorNotify, NotifyAll,
           DtorJoin, DtorClose
  <1>6. CASE UNCHANGED vars
    BY <1>6 DEF vars
  <1> QED
    BY <1>1, <1>2, <1>3, <1>4, <1>5, <1>6
       DEF Next, RunStep, CallerStep, FlushStep, OwnerStep

(* A reference is taken at the start of a call and dropped at its end. *)
LEMMA RefStep ==
    ASSUME IInv, [Next]_vars
    PROVE  RefInv'
  <1> USE ConstantsAssumption DEF IInv, TypeOK, PcTypeOK, StartInv, OwnerTypeOK,
        OwnerInv, RefInv, InCall
  <1>1. CASE Create \/ Install \/ AppRelease
    BY <1>1 DEF Create, Goto, Install, AppRelease
  <1>2. CASE RunStep
    BY <1>2 DEF RunStep, RunLock, Goto, Acquire, RunLock2, RunClear, Unlock, RunNotify,
           NotifyAll, Block, Wake, RunTest, WriteRecord, IncrementDropped
  <1>3. ASSUME NEW c \in Callers, CallerStep(c)
        PROVE  RefInv'
    BY <1>3 DEF CallerStep, WriteCall, Goto, IncrementDropped, TryLock, Acquire, Push,
           Unlock, Notify, NotifyOne
  <1>4. ASSUME NEW f \in FlushThreads, FlushStep(f)
        PROVE  RefInv'
    BY <1>4 DEF FlushStep, FlushCall, FlushIdle, Goto, FlushTest, Drained, Unlock,
           FlushLock, Acquire, Block, Wake
  <1>5. ASSUME NEW t \in Users \cup {App}, OwnerStep(t)
        PROVE  RefInv'
    BY <1>5 DEF OwnerStep, Release, Return, Goto, DtorStop, DtorNotify, NotifyAll,
           DtorJoin, DtorClose
  <1>6. CASE UNCHANGED vars
    BY <1>6 DEF vars
  <1> QED
    BY <1>1, <1>2, <1>3, <1>4, <1>5, <1>6
       DEF Next, RunStep, CallerStep, FlushStep, OwnerStep

(* App::listen drops its references one after the other. *)
LEMMA AppOwnerStep ==
    ASSUME IInv, [Next]_vars
    PROVE  OwnerInv'
  <1> USE ConstantsAssumption DEF IInv, TypeOK, PcTypeOK, StartInv, OwnerTypeOK,
        OwnerInv, RefInv, DestroyedOnlyUnused, InCall
  <1>1. CASE Install
    BY <1>1 DEF Install, Goto
  <1>2. CASE Create
    BY <1>2 DEF Create, Goto
  <1>3. CASE AppRelease
    <2>1. CASE pc[App] = "reset"
      BY <1>3, <2>1 DEF AppRelease, Goto
    <2>2. CASE pc[App] = "reset_impl"
      <3>1. owned' = owned \ {"impl"} /\ pc'[App] \in {"dtor", "leave"} /\ UNCHANGED refs
        BY <1>3, <2>2 DEF AppRelease, Goto
      <3>2. owned' \subseteq {"local"}
        BY <2>2, <3>1
      <3> QED
        BY <3>1, <3>2
    <2>3. CASE pc[App] = "leave"
      BY <1>3, <2>3 DEF AppRelease, Goto
    <2> QED
      BY <1>3, <2>1, <2>2, <2>3 DEF AppRelease
  <1>4. CASE RunStep
    BY <1>4 DEF RunStep, RunLock, Goto, Acquire, RunLock2, RunClear, Unlock, RunNotify,
           NotifyAll, Block, Wake, RunTest, WriteRecord, IncrementDropped
  <1>5. ASSUME NEW c \in Callers, CallerStep(c)
        PROVE  OwnerInv'
    BY <1>5 DEF CallerStep, WriteCall, Goto, IncrementDropped, TryLock, Acquire, Push,
           Unlock, Notify, NotifyOne
  <1>6. ASSUME NEW f \in FlushThreads, FlushCall(f)
        PROVE  OwnerInv'
    BY <1>6 DEF FlushCall, FlushIdle, Goto
  <1>7. ASSUME NEW f \in FlushThreads, FlushTest(f)
        PROVE  OwnerInv'
    BY <1>7 DEF FlushTest, Drained, Goto, Unlock
  <1>8. ASSUME NEW f \in FlushThreads, FlushLock(f) \/ Block(f) \/ Wake(f)
        PROVE  OwnerInv'
    BY <1>8 DEF FlushLock, Goto, Acquire, Block, Unlock, Wake
  <1>9. ASSUME NEW t \in Users \cup {App}, Release(t)
        PROVE  OwnerInv'
    BY <1>9 DEF Release, Return, Goto
  <1>10. ASSUME NEW t \in Users \cup {App}, DtorStop(t)
         PROVE  OwnerInv'
    BY <1>10 DEF DtorStop, Goto
  <1>11. ASSUME NEW t \in Users \cup {App}, DtorNotify(t)
         PROVE  OwnerInv'
    BY <1>11 DEF DtorNotify, Goto, NotifyAll
  <1>12. ASSUME NEW t \in Users \cup {App}, DtorJoin(t)
         PROVE  OwnerInv'
    BY <1>12 DEF DtorJoin, Goto
  <1>13. ASSUME NEW t \in Users \cup {App}, DtorClose(t)
         PROVE  OwnerInv'
    BY <1>13 DEF DtorClose, Goto
  <1>14. CASE UNCHANGED vars
    BY <1>14 DEF vars
  <1> QED
    BY <1>1, <1>2, <1>3, <1>4, <1>5, <1>6, <1>7, <1>8, <1>9, <1>10, <1>11, <1>12, <1>13,
       <1>14
       DEF Next, RunStep, CallerStep, FlushStep, OwnerStep

(* Only the thread that dropped the last reference destroys the writer. *)
LEMMA DestroyStep ==
    ASSUME IInv, [Next]_vars
    PROVE  DestroyedOnlyUnused'
  <1> USE ConstantsAssumption DEF IInv, TypeOK, PcTypeOK, StartInv, OwnerTypeOK,
        OwnerInv, RefInv, DestroyedOnlyUnused, InCall
  <1>1. CASE Create \/ Install \/ AppRelease
    BY <1>1 DEF Create, Goto, Install, AppRelease
  <1>2. CASE RunLock \/ RunLock2 \/ RunClear \/ RunNotify
    <2>1. UNCHANGED <<refs, owned>> /\ \A u \in Users \cup {App} : pc'[u] = pc[u]
      BY <1>2 DEF RunLock, RunLock2, RunClear, RunNotify, Goto
    <2> QED
      BY <2>1
  <1>3. CASE Block(Writer) \/ Wake(Writer)
    <2>1. UNCHANGED <<refs, owned>> /\ \A u \in Users \cup {App} : pc'[u] = pc[u]
      BY <1>3 DEF Block, Wake, Goto
    <2> QED
      BY <2>1
  <1>4. CASE RunTest
    BY <1>4 DEF RunTest, Goto, NotifyAll, Unlock
  <1>5. CASE WriteRecord
    BY <1>5 DEF WriteRecord, Goto, IncrementDropped
  <1>6. ASSUME NEW c \in Callers, WriteCall(c)
        PROVE  DestroyedOnlyUnused'
    BY <1>6 DEF WriteCall, Goto, IncrementDropped
  <1>7. ASSUME NEW c \in Callers, TryLock(c)
        PROVE  DestroyedOnlyUnused'
    BY <1>7 DEF TryLock, Goto, Acquire, IncrementDropped
  <1>8. ASSUME NEW c \in Callers, Push(c)
        PROVE  DestroyedOnlyUnused'
    BY <1>8 DEF Push, Goto, Unlock, IncrementDropped
  <1>9. ASSUME NEW c \in Callers, Notify(c)
        PROVE  DestroyedOnlyUnused'
    BY <1>9 DEF Notify, Goto, NotifyOne
  <1>10. ASSUME NEW f \in FlushThreads, FlushCall(f)
         PROVE  DestroyedOnlyUnused'
    BY <1>10 DEF FlushCall, FlushIdle, Goto
  <1>11. ASSUME NEW f \in FlushThreads, FlushTest(f)
         PROVE  DestroyedOnlyUnused'
    BY <1>11 DEF FlushTest, Drained, Goto, Unlock
  <1>12. ASSUME NEW f \in FlushThreads, FlushLock(f) \/ Block(f) \/ Wake(f)
         PROVE  DestroyedOnlyUnused'
    BY <1>12 DEF FlushLock, Goto, Acquire, Block, Unlock, Wake
  <1>13. ASSUME NEW t \in Users \cup {App}, Release(t)
         PROVE  DestroyedOnlyUnused'
    BY <1>13 DEF Release, Return, Goto
  <1>14. ASSUME NEW t \in Users \cup {App}, DtorStop(t)
         PROVE  DestroyedOnlyUnused'
    BY <1>14 DEF DtorStop, Goto
  <1>15. ASSUME NEW t \in Users \cup {App}, DtorNotify(t)
         PROVE  DestroyedOnlyUnused'
    BY <1>15 DEF DtorNotify, Goto, NotifyAll
  <1>16. ASSUME NEW t \in Users \cup {App}, DtorJoin(t)
         PROVE  DestroyedOnlyUnused'
    BY <1>16 DEF DtorJoin, Goto
  <1>17. ASSUME NEW t \in Users \cup {App}, DtorClose(t)
         PROVE  DestroyedOnlyUnused'
    BY <1>17 DEF DtorClose, Goto
  <1>18. CASE UNCHANGED vars
    BY <1>18 DEF vars
  <1> QED
    BY <1>1, <1>2, <1>3, <1>4, <1>5, <1>6, <1>7, <1>8, <1>9, <1>10, <1>11, <1>12, <1>13,
       <1>14, <1>15, <1>16, <1>17, <1>18
       DEF Next, RunStep, CallerStep, FlushStep, OwnerStep

(* A stop request finds no user, and a finished thread an empty queue. *)
LEMMA StopStep ==
    ASSUME IInv, [Next]_vars
    PROVE  StopInv'
  <1> USE ConstantsAssumption DEF IInv, TypeOK, PcTypeOK, StartInv, OwnerInv, RefInv,
        DestroyedOnlyUnused, StopInv, InCall
  <1>1. CASE Create \/ Install \/ AppRelease
    BY <1>1 DEF Create, Goto, Install, AppRelease
  <1>2. CASE RunStep
    BY <1>2 DEF RunStep, RunLock, Goto, Acquire, RunLock2, RunClear, Unlock, RunNotify,
           NotifyAll, Block, Wake, RunTest, WriteRecord, IncrementDropped
  <1>3. ASSUME NEW c \in Callers, CallerStep(c)
        PROVE  StopInv'
    BY <1>3 DEF CallerStep, WriteCall, Goto, IncrementDropped, TryLock, Acquire, Push,
           Unlock, Notify, NotifyOne
  <1>4. ASSUME NEW f \in FlushThreads, FlushStep(f)
        PROVE  StopInv'
    BY <1>4 DEF FlushStep, FlushCall, FlushIdle, Goto, FlushTest, Drained, Unlock,
           FlushLock, Acquire, Block, Wake
  <1>5. ASSUME NEW t \in Users \cup {App}, OwnerStep(t)
        PROVE  StopInv'
    BY <1>5 DEF OwnerStep, Release, Return, Goto, DtorStop, DtorNotify, NotifyAll,
           DtorJoin, DtorClose
  <1>6. CASE UNCHANGED vars
    BY <1>6 DEF vars
  <1> QED
    BY <1>1, <1>2, <1>3, <1>4, <1>5, <1>6
       DEF Next, RunStep, CallerStep, FlushStep, OwnerStep

(* The background thread's flags follow its program counter. *)
LEMMA RunInvStep ==
    ASSUME IInv, [Next]_vars
    PROVE  RunInv'
  <1> USE ConstantsAssumption DEF IInv, TypeOK, PcTypeOK, StartInv, SyncTypeOK,
        QueueTypeOK, MutexInv, RunInv, Holding
  <1>1. CASE Create \/ Install \/ AppRelease
    BY <1>1 DEF Create, Goto, Install, AppRelease
  <1>2. CASE RunStep
    BY <1>2 DEF RunStep, RunLock, Goto, Acquire, RunLock2, RunClear, Unlock, RunNotify,
           NotifyAll, Block, Wake, RunTest, WriteRecord, IncrementDropped
  <1>3. ASSUME NEW c \in Callers, CallerStep(c)
        PROVE  RunInv'
    BY <1>3 DEF CallerStep, WriteCall, Goto, IncrementDropped, TryLock, Acquire, Push,
           Unlock, Notify, NotifyOne
  <1>4. ASSUME NEW f \in FlushThreads, FlushStep(f)
        PROVE  RunInv'
    BY <1>4 DEF FlushStep, FlushCall, FlushIdle, Goto, FlushTest, Drained, Unlock,
           FlushLock, Acquire, Block, Wake
  <1>5. ASSUME NEW t \in Users \cup {App}, OwnerStep(t)
        PROVE  RunInv'
    BY <1>5 DEF OwnerStep, Release, Return, Goto, DtorStop, DtorNotify, NotifyAll,
           DtorJoin, DtorClose
  <1>6. CASE UNCHANGED vars
    BY <1>6 DEF vars
  <1> QED
    BY <1>1, <1>2, <1>3, <1>4, <1>5, <1>6
       DEF Next, RunStep, CallerStep, FlushStep, OwnerStep

(* A failed stream stays failed; a disabled writer accepts nothing. *)
LEMMA StreamStep ==
    ASSUME IInv, [Next]_vars
    PROVE  StreamInv'
  <1> USE ConstantsAssumption DEF IInv, TypeOK, PcTypeOK, QueueTypeOK, CountTypeOK,
        StreamInv, Conservation, InFlight, Processed
  <1>1. CASE Create \/ Install \/ AppRelease
    BY <1>1 DEF Create, Goto, Install, AppRelease
  <1>2. CASE RunStep
    BY <1>2 DEF RunStep, RunLock, Goto, Acquire, RunLock2, RunClear, Unlock, RunNotify,
           NotifyAll, Block, Wake, RunTest, WriteRecord, IncrementDropped
  <1>3. ASSUME NEW c \in Callers, CallerStep(c)
        PROVE  StreamInv'
    BY <1>3 DEF CallerStep, WriteCall, Goto, IncrementDropped, TryLock, Acquire, Push,
           Unlock, Notify, NotifyOne
  <1>4. ASSUME NEW f \in FlushThreads, FlushStep(f)
        PROVE  StreamInv'
    BY <1>4 DEF FlushStep, FlushCall, FlushIdle, Goto, FlushTest, Drained, Unlock,
           FlushLock, Acquire, Block, Wake
  <1>5. ASSUME NEW t \in Users \cup {App}, OwnerStep(t)
        PROVE  StreamInv'
    BY <1>5 DEF OwnerStep, Release, Return, Goto, DtorStop, DtorNotify, NotifyAll,
           DtorJoin, DtorClose
  <1>6. CASE UNCHANGED vars
    BY <1>6 DEF vars
  <1> QED
    BY <1>1, <1>2, <1>3, <1>4, <1>5, <1>6
       DEF Next, RunStep, CallerStep, FlushStep, OwnerStep

(* No step loses or invents a record. *)
LEMMA ConservationStep ==
    ASSUME IInv, [Next]_vars
    PROVE  Conservation'
  <1> USE ConstantsAssumption DEF IInv, TypeOK, PcTypeOK, StartInv, QueueTypeOK,
        CountTypeOK, Conservation, InFlight, Processed
  <1>1. CASE Create \/ Install \/ AppRelease
    BY <1>1 DEF Create, Goto, Install, AppRelease
  <1>2. CASE RunLock \/ RunLock2 \/ RunClear \/ RunNotify \/ Block(Writer) \/ Wake(Writer)
    BY <1>2 DEF RunLock, Goto, Acquire, RunLock2, RunClear, Unlock, RunNotify,
           NotifyAll, Block, Wake
  <1>3. CASE RunTest
    <2>1. UNCHANGED <<counters, out, lost, thrown>> /\ InFlight = 0
      BY <1>3 DEF RunTest
    <2> HIDE DEF InFlight
    <2>2. CASE queue' = queue /\ InFlight' = 0
      BY <2>1, <2>2
    <2>3. CASE queue # <<>> /\ queue' = Tail(queue) /\ InFlight' = 1
      <3>1. Len(queue') = Len(queue) - 1 /\ Len(queue) \in Nat
        BY <2>3
      <3>2. written' = Len(out')
        BY <2>1
      <3>3. Processed' = Processed /\ Processed \in Nat
        BY <2>1
      <3> QED
        BY ONLY Conservation, <2>1, <2>3, <3>1, <3>2, <3>3 DEF Conservation
    <2> QED
      BY <1>3, <2>2, <2>3 DEF RunTest, Goto, InFlight
  <1>4. CASE WriteRecord
    <2>1. InFlight = 1 /\ InFlight' = 0 /\ UNCHANGED <<queue, accepted>>
      BY <1>4 DEF WriteRecord, Goto
    <2> HIDE DEF InFlight
    <2>2. CASE written' = written + 1 /\ out' = Append(out, record) /\ UNCHANGED <<lost, thrown>>
      <3>1. Len(out') = Len(out) + 1 /\ Len(out) \in Nat /\ Len(queue) \in Nat
        BY <2>2
      <3>2. written' = Len(out')
        BY <2>2, <3>1
      <3>3. Processed' = Processed + 1 /\ Processed \in Nat
        BY <2>2
      <3> QED
        BY ONLY Conservation, <2>1, <3>1, <3>2, <3>3 DEF Conservation
    <2>3. CASE lost' = lost + 1 /\ UNCHANGED <<written, out, thrown>>
      BY <2>1, <2>3
    <2>4. CASE thrown' = thrown + 1 /\ UNCHANGED <<written, out, lost>>
      BY <2>1, <2>4
    <2> QED
      BY <1>4, <2>2, <2>3, <2>4 DEF WriteRecord
  <1>5. ASSUME NEW c \in Callers, WriteCall(c) \/ TryLock(c) \/ Notify(c)
        PROVE  Conservation'
    BY <1>5 DEF WriteCall, Goto, IncrementDropped, TryLock, Acquire, Notify, NotifyOne
  <1>6. ASSUME NEW c \in Callers, Push(c)
        PROVE  Conservation'
    <2>1. InFlight' = InFlight /\ UNCHANGED <<written, out, lost, thrown>>
      BY <1>6 DEF Push, Goto
    <2>4. InFlight \in Nat
      OBVIOUS
    <2> HIDE DEF InFlight
    <2>2. CASE UNCHANGED <<queue, accepted>>
      BY <2>1, <2>2
    <2>3. CASE queue' = Append(queue, <<c, calls[c]>>) /\ accepted' = accepted + 1
      <3>1. Len(queue') = Len(queue) + 1 /\ Len(queue) \in Nat
        BY <2>3
      <3>2. written' = Len(out')
        BY <2>1
      <3>3. Processed' = Processed /\ Processed \in Nat
        BY <2>1
      <3> QED
        BY ONLY Conservation, <2>1, <2>3, <2>4, <3>1, <3>2, <3>3 DEF Conservation
    <2> QED
      BY <1>6, <2>2, <2>3 DEF Push
  <1>7. ASSUME NEW f \in FlushThreads, FlushStep(f)
        PROVE  Conservation'
    BY <1>7 DEF FlushStep, FlushCall, FlushIdle, Goto, FlushTest, Drained, Unlock,
           FlushLock, Acquire, Block, Wake
  <1>8. ASSUME NEW t \in Users \cup {App}, OwnerStep(t)
        PROVE  Conservation'
    BY <1>8 DEF OwnerStep, Release, Return, Goto, DtorStop, DtorNotify, NotifyAll,
           DtorJoin, DtorClose
  <1>9. CASE UNCHANGED vars
    BY <1>9 DEF vars
  <1> QED
    BY <1>1, <1>2, <1>3, <1>4, <1>5, <1>6, <1>7, <1>8, <1>9
       DEF Next, RunStep, CallerStep, FlushStep, OwnerStep

(* Only Push lengthens the queue, and only below the capacity. *)
LEMMA CapacityStep ==
    ASSUME IInv, [Next]_vars
    PROVE  CapacityBound'
  <1> USE ConstantsAssumption DEF IInv, TypeOK, QueueTypeOK, CapacityBound, Capacity
  <1>1. CASE Create \/ Install \/ AppRelease
    BY <1>1 DEF Create, Goto, Install, AppRelease
  <1>2. CASE RunStep
    BY <1>2 DEF RunStep, RunLock, Goto, Acquire, RunLock2, RunClear, Unlock, RunNotify,
           NotifyAll, Block, Wake, RunTest, WriteRecord, IncrementDropped
  <1>3. ASSUME NEW c \in Callers, CallerStep(c)
        PROVE  CapacityBound'
    BY <1>3 DEF CallerStep, WriteCall, Goto, IncrementDropped, TryLock, Acquire, Push,
           Unlock, Notify, NotifyOne
  <1>4. ASSUME NEW f \in FlushThreads, FlushStep(f)
        PROVE  CapacityBound'
    BY <1>4 DEF FlushStep, FlushCall, FlushIdle, Goto, FlushTest, Drained, Unlock,
           FlushLock, Acquire, Block, Wake
  <1>5. ASSUME NEW t \in Users \cup {App}, OwnerStep(t)
        PROVE  CapacityBound'
    BY <1>5 DEF OwnerStep, Release, Return, Goto, DtorStop, DtorNotify, NotifyAll,
           DtorJoin, DtorClose
  <1>6. CASE UNCHANGED vars
    BY <1>6 DEF vars
  <1> QED
    BY <1>1, <1>2, <1>3, <1>4, <1>5, <1>6
       DEF Next, RunStep, CallerStep, FlushStep, OwnerStep

(* accepted_ never decreases. *)
LEMMA MarkStep ==
    ASSUME IInv, [Next]_vars
    PROVE  MarkInv'
  <1> USE ConstantsAssumption DEF IInv, TypeOK, CountTypeOK, MarkInv
  <1>1. CASE Create \/ Install \/ AppRelease
    BY <1>1 DEF Create, Goto, Install, AppRelease
  <1>2. CASE RunStep
    BY <1>2 DEF RunStep, RunLock, Goto, Acquire, RunLock2, RunClear, Unlock, RunNotify,
           NotifyAll, Block, Wake, RunTest, WriteRecord, IncrementDropped
  <1>3. ASSUME NEW c \in Callers, CallerStep(c)
        PROVE  MarkInv'
    BY <1>3 DEF CallerStep, WriteCall, Goto, IncrementDropped, TryLock, Acquire, Push,
           Unlock, Notify, NotifyOne
  <1>4. ASSUME NEW f \in FlushThreads, FlushStep(f)
        PROVE  MarkInv'
    BY <1>4 DEF FlushStep, FlushCall, FlushIdle, Goto, FlushTest, Drained, Unlock,
           FlushLock, Acquire, Block, Wake
  <1>5. ASSUME NEW t \in Users \cup {App}, OwnerStep(t)
        PROVE  MarkInv'
    BY <1>5 DEF OwnerStep, Release, Return, Goto, DtorStop, DtorNotify, NotifyAll,
           DtorJoin, DtorClose
  <1>6. CASE UNCHANGED vars
    BY <1>6 DEF vars
  <1> QED
    BY <1>1, <1>2, <1>3, <1>4, <1>5, <1>6
       DEF Next, RunStep, CallerStep, FlushStep, OwnerStep

(* A flush succeeds on an empty queue, an idle thread and a good stream. *)
LEMMA FlushedStep ==
    ASSUME IInv, [Next]_vars
    PROVE  FlushSuccessMeansWritten'
  <1> USE ConstantsAssumption DEF IInv, TypeOK, PcTypeOK, StartInv, CountTypeOK,
        FlushSuccessMeansWritten
  <1>1. CASE Create \/ Install \/ AppRelease
    BY <1>1 DEF Create, Goto, Install, AppRelease
  <1>2. CASE RunStep
    BY <1>2 DEF RunStep, RunLock, Goto, Acquire, RunLock2, RunClear, Unlock, RunNotify,
           NotifyAll, Block, Wake, RunTest, WriteRecord, IncrementDropped
  <1>3. ASSUME NEW c \in Callers, CallerStep(c)
        PROVE  FlushSuccessMeansWritten'
    BY <1>3 DEF CallerStep, WriteCall, Goto, IncrementDropped, TryLock, Acquire, Push,
           Unlock, Notify, NotifyOne
  <1>4. ASSUME NEW f \in FlushThreads, FlushCall(f) \/ FlushLock(f) \/ Block(f) \/ Wake(f)
        PROVE  FlushSuccessMeansWritten'
    BY <1>4 DEF FlushCall, FlushIdle, Goto, FlushLock, Acquire, Block, Unlock, Wake
  <1>5. ASSUME NEW f \in FlushThreads, FlushTest(f)
        PROVE  FlushSuccessMeansWritten'
    <2>1. UNCHANGED <<written, thrown, mark>>
      BY <1>5 DEF FlushTest
    <2>2. CASE pc'[f] # "flushed"
      BY <1>5, <2>1, <2>2 DEF FlushTest, Goto
    <2>3. CASE pc'[f] = "flushed"
      <3>1. queue = <<>> /\ ~writing /\ output # "failed"
        BY <1>5, <2>3 DEF FlushTest, Drained, Goto
      <3>2. InFlight = 0 /\ Len(queue) = 0 /\ lost = 0
        BY <3>1 DEF RunInv, StreamInv, InFlight
      <3>3. written + thrown = accepted
        BY <3>2 DEF Conservation, Processed
      <3>4. written + thrown >= mark[f]
        BY <3>3 DEF MarkInv
      <3> QED
        BY <1>5, <2>1, <3>4 DEF FlushTest, Goto
    <2> QED
      BY <2>2, <2>3
  <1>6. ASSUME NEW t \in Users \cup {App}, OwnerStep(t)
        PROVE  FlushSuccessMeansWritten'
    BY <1>6 DEF OwnerStep, Release, Return, Goto, DtorStop, DtorNotify, NotifyAll,
           DtorJoin, DtorClose
  <1>7. CASE UNCHANGED vars
    BY <1>7 DEF vars
  <1> QED
    BY <1>1, <1>2, <1>3, <1>4, <1>5, <1>6, <1>7
       DEF Next, RunStep, CallerStep, FlushStep, OwnerStep

(* A push is followed by a notify; a notify that misses the writer wakes a flush. *)
LEMMA SleepStep ==
    ASSUME IInv, [Next]_vars
    PROVE  SleepIsExcused'
  <1> USE ConstantsAssumption DEF IInv, TypeOK, PcTypeOK, StartInv, SyncTypeOK,
        QueueTypeOK, MutexInv, RunInv, SleepIsExcused
  <1>1. CASE Create \/ Install \/ AppRelease
    BY <1>1 DEF Create, Goto, Install, AppRelease
  <1>2. CASE RunStep
    BY <1>2 DEF RunStep, RunLock, Goto, Acquire, RunLock2, RunClear, Unlock, RunNotify,
           NotifyAll, Block, Wake, RunTest, WriteRecord, IncrementDropped
  <1>3. ASSUME NEW c \in Callers, CallerStep(c)
        PROVE  SleepIsExcused'
    BY <1>3 DEF CallerStep, WriteCall, Goto, IncrementDropped, TryLock, Acquire, Push,
           Unlock, Notify, NotifyOne
  <1>4. ASSUME NEW f \in FlushThreads, FlushStep(f)
        PROVE  SleepIsExcused'
    BY <1>4 DEF FlushStep, FlushCall, FlushIdle, Goto, FlushTest, Drained, Unlock,
           FlushLock, Acquire, Block, Wake
  <1>5. ASSUME NEW t \in Users \cup {App}, OwnerStep(t)
        PROVE  SleepIsExcused'
    BY <1>5 DEF OwnerStep, Release, Return, Goto, DtorStop, DtorNotify, NotifyAll,
           DtorJoin, DtorClose
  <1>6. CASE UNCHANGED vars
    BY <1>6 DEF vars
  <1> QED
    BY <1>1, <1>2, <1>3, <1>4, <1>5, <1>6
       DEF Next, RunStep, CallerStep, FlushStep, OwnerStep

-----------------------------------------------------------------------------

(* IInv is an invariant of the writer. *)
THEOREM Invariance == Spec => []IInv
  <1>1. IInv /\ [Next]_vars => IInv'
    <2> SUFFICES ASSUME IInv, [Next]_vars PROVE IInv'
      OBVIOUS
    <2>1. TypeOK'
      BY PcTypeStep, SyncTypeStep, QueueTypeStep, CountTypeStep, OwnerTypeStep DEF TypeOK
    <2> QED
      BY <2>1, StartStep, MutexStep, RefStep, AppOwnerStep, DestroyStep, StopStep, RunInvStep,
         StreamStep, ConservationStep, CapacityStep, MarkStep, FlushedStep, SleepStep DEF IInv
  <1> QED
    BY InitInv, <1>1, PTL DEF Spec

(* Type correctness of the log writer. *)
THEOREM TypeCorrect == Spec => []TypeOK
  BY Invariance, PTL DEF IInv

(* accepted_ counts exactly the records that are queued, in flight, written, *)
(* refused or thrown away, and written_ exactly those on the stream.         *)
THEOREM NoRecordUnaccounted == Spec => []Conservation
  BY Invariance, PTL DEF IInv

(* queue_ never holds more than the normalised capacity. *)
THEOREM QueueBounded == Spec => []CapacityBound
  BY Invariance, PTL DEF IInv

(* A successful flush() has put every record accepted before it on the       *)
(* stream, except those whose formatting threw.                              *)
THEOREM FlushIsTruthful == Spec => []FlushSuccessMeansWritten
  BY Invariance, PTL DEF IInv

(* ~LogWriter runs once the writer has no user left. *)
THEOREM DestructionIsSafe == Spec => []DestroyedOnlyUnused
  BY Invariance, PTL DEF IInv

(* The background thread ends with an empty queue and no caller left. *)
THEOREM ShutdownLosesNothing == Spec => []ShutdownDrains
  <1>1. IInv => ShutdownDrains
    <2> SUFFICES ASSUME IInv, pc[Writer] = "done"
                 PROVE  /\ queue = <<>> /\ ~writing
                        /\ accepted = Processed
                        /\ \A c \in Callers : pc[c] \notin {"try_lock", "push", "notify"}
      BY DEF ShutdownDrains
    <2>1. queue = <<>> /\ ~writing /\ refs = {}
      BY DEF IInv, StopInv, RunInv
    <2>2. \A c \in Callers : pc[c] \notin {"try_lock", "push", "notify"}
      BY <2>1 DEF IInv, RefInv, InCall
    <2>3. accepted = 0 + 0 + Processed
      BY <2>1 DEF IInv, Conservation, InFlight
    <2>4. Processed \in Nat
      BY DEF IInv, TypeOK, CountTypeOK, Processed
    <2> QED
      BY <2>1, <2>2, <2>3, <2>4
  <1> QED
    BY Invariance, <1>1, PTL

(* The background thread sleeps on queued records only while a notify_one is *)
(* owed or a flush shares the condition variable.                            *)
THEOREM NoUnexcusedSleep == Spec => []SleepIsExcused
  BY Invariance, PTL DEF IInv

-----------------------------------------------------------------------------
(* The writer implements LogPipe. *)

(* Taking the first record apart and putting it back. *)
LEMMA SeqFacts ==
    ASSUME NEW S, NEW q \in Seq(S), NEW r \in S
    PROVE  /\ <<r>> \o q \in Seq(S)
           /\ Len(<<r>> \o q) = Len(q) + 1
           /\ Head(<<r>> \o q) = r
           /\ Tail(<<r>> \o q) = q
           /\ \A x \in S : <<r>> \o Append(q, x) = Append(<<r>> \o q, x)
           /\ q # <<>> => <<Head(q)>> \o Tail(q) = q
  <1>1. <<r>> \o q \in Seq(S) /\ Len(<<r>> \o q) = Len(q) + 1
    OBVIOUS
  <1>2. Head(<<r>> \o q) = r
    OBVIOUS
  <1>3. Tail(<<r>> \o q) = q
    OBVIOUS
  <1>4. \A x \in S : <<r>> \o Append(q, x) = Append(<<r>> \o q, x)
    OBVIOUS
  <1>5. q # <<>> => <<Head(q)>> \o Tail(q) = q
    OBVIOUS
  <1> QED
    BY <1>1, <1>2, <1>3, <1>4, <1>5

(* The step does not touch what LogPipe sees. *)
SameView == UNCHANGED <<Pending, out>>

(* What a step of the writer is to LogPipe. *)
PipeStep == Pipe!Next \/ SameView

(* Push is Accept, writing a record is Emit or GiveUp, all else is invisible. *)
LEMMA PipeStepLemma ==
    ASSUME IInv, [Next]_vars
    PROVE  PipeStep
  <1> USE ConstantsAssumption DEF IInv, TypeOK, PcTypeOK, StartInv, Pending, PipeStep,
        SameView
  <1>1. CASE Create \/ Install \/ AppRelease
    BY <1>1 DEF Create, Goto, Install, AppRelease
  <1>2. CASE RunLock \/ RunLock2 \/ RunClear \/ RunNotify \/ Block(Writer) \/ Wake(Writer)
    BY <1>2 DEF RunLock, Goto, Acquire, RunLock2, RunClear, Unlock, RunNotify,
           NotifyAll, Block, Wake
  <1>3. CASE RunTest
    <2>1. pc[Writer] = "test" /\ out' = out
      BY <1>3 DEF RunTest
    <2>2. CASE queue' = queue /\ pc'[Writer] # "write"
      BY <2>1, <2>2
    <2>3. CASE queue # <<>> /\ record' = Head(queue) /\ queue' = Tail(queue)
               /\ pc'[Writer] = "write"
      <3>1. <<Head(queue)>> \o Tail(queue) = queue
        <4>1. Head(queue) \in Records /\ queue \in Seq(Records)
          BY <2>3 DEF QueueTypeOK
        <4> QED
          BY <2>3, <4>1, SeqFacts
      <3> QED
        BY <2>1, <2>3, <3>1
    <2> QED
      BY <1>3, <2>2, <2>3 DEF RunTest, Goto
  <1>4. CASE WriteRecord
    <2>1. pc[Writer] = "write" /\ pc'[Writer] = "lock2" /\ queue' = queue
      BY <1>4 DEF WriteRecord, Goto
    <2>2. record \in Records /\ queue \in Seq(Records)
      BY <2>1 DEF RunInv, QueueTypeOK
    <2>3. /\ Head(Pending) = record /\ Tail(Pending) = queue
          /\ Pending # <<>> /\ Pending' = queue
      BY <2>1, <2>2, SeqFacts
    <2> HIDE DEF Pending
    <2>4. CASE out' = Append(out, record)
      BY <2>3, <2>4 DEF Pipe!Next, Pipe!Emit
    <2>5. CASE out' = out
      BY <2>3, <2>5 DEF Pipe!Next, Pipe!GiveUp
    <2> QED
      BY <1>4, <2>4, <2>5 DEF WriteRecord
  <1>5. ASSUME NEW c \in Callers, WriteCall(c) \/ TryLock(c) \/ Notify(c)
        PROVE  PipeStep
    BY <1>5 DEF WriteCall, Goto, IncrementDropped, TryLock, Acquire, Notify, NotifyOne
  <1>6. ASSUME NEW c \in Callers, Push(c)
        PROVE  PipeStep
    <2>1. out' = out /\ record' = record /\ pc'[Writer] = pc[Writer]
      BY <1>6 DEF Push, Goto
    <2>2. CASE queue' = queue
      BY <2>1, <2>2
    <2>3. CASE Len(queue) < Capacity /\ queue' = Append(queue, <<c, calls[c]>>)
      <3>1. <<c, calls[c]>> \in Records /\ queue \in Seq(Records) /\ Capacity \in Nat
        BY DEF OwnerTypeOK, QueueTypeOK, Records, Capacity
      <3>2. pc[Writer] = "write" => record \in Records
        BY DEF RunInv
      <3>3. Pending' = Append(Pending, <<c, calls[c]>>)
        BY <2>1, <2>3, <3>1, <3>2, SeqFacts
      <3>4. Len(Pending) < Capacity + 1
        BY <2>3, <3>1, <3>2, SeqFacts
      <3> HIDE DEF Pending
      <3>5. Pipe!Accept(<<c, calls[c]>>)
        BY <2>1, <3>3, <3>4 DEF Pipe!Accept
      <3> QED
        BY <3>1, <3>5 DEF Pipe!Next
    <2> QED
      BY <1>6, <2>2, <2>3 DEF Push
  <1>7. ASSUME NEW f \in FlushThreads, FlushStep(f)
        PROVE  PipeStep
    BY <1>7 DEF FlushStep, FlushCall, FlushIdle, Goto, FlushTest, Drained, Unlock,
           FlushLock, Acquire, Block, Wake
  <1>8. ASSUME NEW t \in Users \cup {App}, OwnerStep(t)
        PROVE  PipeStep
    BY <1>8 DEF OwnerStep, Release, Return, Goto, DtorStop, DtorNotify, NotifyAll,
           DtorJoin, DtorClose
  <1>9. CASE UNCHANGED vars
    BY <1>9 DEF vars
  <1> QED
    BY <1>1, <1>2, <1>3, <1>4, <1>5, <1>6, <1>7, <1>8, <1>9
       DEF Next, RunStep, CallerStep, FlushStep, OwnerStep

(* Every behaviour of the log writer is a behaviour of the bounded pipe. *)
THEOREM Refinement == Spec => ImplementsPipe
  <1>1. Init => Pipe!Init
    BY ConstantsAssumption DEF Init, Pipe!Init, Pending
  <1>2. IInv /\ [Next]_vars => [Pipe!Next]_(Pipe!pipe)
    BY PipeStepLemma DEF PipeStep, SameView, Pipe!pipe
  <1> QED
    BY Invariance, <1>1, <1>2, PTL DEF Spec, ImplementsPipe, Pipe!Spec
=============================================================================
