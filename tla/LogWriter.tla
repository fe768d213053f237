------------------------------ MODULE LogWriter ------------------------------
(***************************************************************************)
(* The asynchronous log writer: src/log/log_writer.cpp, the global writer   *)
(* slot and the log:: entry points of src/log/logger.cpp, and the part of   *)
(* App::listen that creates, installs, flushes and releases the writer.     *)
(*                                                                          *)
(* Threads: the Callers of log::write, the Flushers (callers of             *)
(* log::flush), the App thread inside App::listen and the background        *)
(* Writer.  pc[t] is the next step of thread t.  mutex_ and cv_ are         *)
(* modelled by the owner of the mutex and the set of threads asleep on the  *)
(* condition variable; a thread that was notified re-acquires the mutex and *)
(* tests its predicate again.  The stop token is NOT protected by mutex_,   *)
(* so the test of a predicate and going to sleep are two steps.             *)
(***************************************************************************)
EXTENDS Naturals, Sequences, FiniteSets

CONSTANTS Callers,        \* threads that call log::write
          Flushers,       \* threads that call log::flush
          App,            \* the thread in App::listen
          Writer,         \* LogWriter::thread_
          NoThread,       \* nobody holds mutex_
          NoRecord,       \* the writer holds no record
          QueueCapacity,  \* LogConfig::queue_capacity as configured
          MaxCalls        \* bound: log calls made by one thread

Users   == Callers \cup Flushers
Threads == Users \cup {App, Writer}
Records == Callers \X (0..MaxCalls)

ASSUME ConstantsAssumption ==
    /\ QueueCapacity \in Nat
    /\ MaxCalls \in Nat \ {0}
    /\ Callers \cap Flushers = {}
    /\ App # Writer
    /\ Users \cap {App, Writer} = {}
    /\ NoThread \notin Threads
    /\ NoRecord \notin Records

VARIABLES
    pc,        \* next step of every thread
    mutex,     \* the thread that owns mutex_, or NoThread
    waiting,   \* threads asleep on cv_
    queue,     \* queue_
    writing,   \* writing_
    record,    \* the local LogRecord of LogWriter::run
    output,    \* output_: "null", "good" or "failed" (failbit is sticky)
    accepted,  \* accepted_
    dropped,   \* dropped_
    written,   \* written_
    stop,      \* thread_'s stop token
    owned,     \* which of App::listen's shared_ptrs to the writer are alive
    refs,      \* threads that hold a shared_ptr returned by current_log_writer
    calls,     \* log calls each thread has made
    out,       \* history: records that reached the stream, oldest first
    lost,      \* history: records taken from the queue that the failed stream refused
    thrown,    \* history: records whose formatting threw
    mark       \* history: accepted_ when the pending flush of a thread began

vars == <<pc, mutex, waiting, queue, writing, record, output, accepted, dropped,
          written, stop, owned, refs, calls, out, lost, thrown, mark>>

counters == <<accepted, dropped, written>>
history  == <<out, lost, thrown, mark>>

-----------------------------------------------------------------------------

(* normalized_capacity: a configured capacity of 0 means 1. *)
Capacity == IF QueueCapacity = 0 THEN 1 ELSE QueueCapacity

Goto(t, label) == pc' = [pc EXCEPT ![t] = label]

Acquire(t) == mutex = NoThread /\ mutex' = t
Unlock     == mutex' = NoThread

(* cv_.notify_one and cv_.notify_all. *)
NotifyOne == IF waiting = {} THEN waiting' = {}
             ELSE \E w \in waiting : waiting' = waiting \ {w}
NotifyAll == waiting' = {}

(* Mutant: fetch_sub for fetch_add. *)
IncrementDropped_Underflows == dropped' = dropped - 1

(* increment_dropped; the saturation at 2^64-1 is out of reach of MaxCalls. *)
IncrementDropped == dropped' = dropped + 1

Init ==
    /\ pc = [t \in Threads |-> IF t = App THEN "create"
                               ELSE IF t = Writer THEN "none" ELSE "idle"]
    /\ mutex = NoThread
    /\ waiting = {}
    /\ queue = <<>>
    /\ writing = FALSE
    /\ record = NoRecord
    /\ output = "null"
    /\ accepted = 0 /\ dropped = 0 /\ written = 0
    /\ stop = FALSE
    /\ owned = {}
    /\ refs = {}
    /\ calls = [t \in Users |-> 0]
    /\ out = <<>> /\ lost = 0 /\ thrown = 0
    /\ mark = [f \in Flushers \cup {App} |-> 0]

-----------------------------------------------------------------------------
(* App::listen: create and install the writer.  A writer with destination    *)
(* Disabled has a null output_ and accepts nothing; App::listen falls back   *)
(* to one when the configured destination cannot be opened, and then keeps   *)
(* only the reference in impl_, not the one in its local result.             *)

Create ==
    /\ pc[App] = "create"
    /\ \/ output' \in {"good", "null"} /\ owned' = {"local", "impl"}
       \/ output' = "null" /\ owned' = {"impl"}
    /\ pc' = [pc EXCEPT ![App] = "install", ![Writer] = "lock"]
    /\ UNCHANGED <<mutex, waiting, queue, writing, record, counters, stop, refs,
                   calls, history>>

Install ==
    /\ pc[App] = "install"
    /\ owned' = owned \cup {"slot"}
    /\ Goto(App, "serving")
    /\ UNCHANGED <<mutex, waiting, queue, writing, record, output, counters, stop,
                   refs, calls, history>>

-----------------------------------------------------------------------------
(* log::write / write_request_log and LogWriter::enqueue. *)

(* current_log_writer(), then accepts(level): without a writer the call      *)
(* returns at once; a record that is filtered out, or that cannot be built   *)
(* (allocation), is counted by record_drop.                                  *)
WriteCall(c) ==
    /\ pc[c] = "idle"
    /\ calls[c] < MaxCalls
    /\ calls' = [calls EXCEPT ![c] = @ + 1]
    /\ \/ /\ "slot" \notin owned
          /\ UNCHANGED <<pc, refs, dropped>>
       \/ /\ "slot" \in owned
          /\ refs' = refs \cup {c}
          /\ \/ Goto(c, "release") /\ IncrementDropped
             \/ output # "null" /\ Goto(c, "try_lock") /\ UNCHANGED dropped
    /\ UNCHANGED <<mutex, waiting, queue, writing, record, output, accepted, written,
                   stop, owned, history>>

(* std::unique_lock lock{mutex_, std::try_to_lock}: contention drops the record. *)
TryLock(c) ==
    /\ pc[c] = "try_lock"
    /\ \/ Acquire(c) /\ Goto(c, "push") /\ UNCHANGED dropped
       \/ mutex # NoThread /\ Goto(c, "release") /\ IncrementDropped /\ UNCHANGED mutex
    /\ UNCHANGED <<waiting, queue, writing, record, output, accepted, written, stop,
                   owned, refs, calls, history>>

(* Mutants: `>` for `>=` in the capacity test; a full queue drops its oldest record. *)
Push_OffByOne(c) ==
    /\ pc[c] = "push"
    /\ Unlock
    /\ IF Len(queue) > Capacity
       THEN IncrementDropped /\ Goto(c, "release") /\ UNCHANGED <<queue, accepted>>
       ELSE /\ queue' = Append(queue, <<c, calls[c]>>)
            /\ accepted' = accepted + 1
            /\ Goto(c, "notify")
            /\ UNCHANGED dropped
    /\ UNCHANGED <<waiting, writing, record, output, written, stop, owned, refs, calls,
                   history>>

Push_DropsOldest(c) ==
    /\ pc[c] = "push"
    /\ Unlock
    /\ queue' = Append(IF Len(queue) >= Capacity THEN Tail(queue) ELSE queue, <<c, calls[c]>>)
    /\ accepted' = accepted + 1
    /\ Goto(c, "notify")
    /\ UNCHANGED <<waiting, writing, record, output, dropped, written, stop, owned, refs,
                   calls, history>>

(* The critical section of enqueue, up to lock.unlock(). *)
Push(c) ==
    /\ pc[c] = "push"
    /\ Unlock
    /\ \/ /\ Len(queue) >= Capacity
          /\ IncrementDropped
          /\ Goto(c, "release")
          /\ UNCHANGED <<queue, accepted>>
       \/ /\ Len(queue) < Capacity
          /\ queue' = Append(queue, <<c, calls[c]>>)
          /\ accepted' = accepted + 1
          /\ Goto(c, "notify")
          /\ UNCHANGED dropped
    /\ UNCHANGED <<waiting, writing, record, output, written, stop, owned, refs, calls,
                   history>>

(* Mutant: enqueue forgets cv_.notify_one. *)
Notify_Missing(c) ==
    /\ pc[c] = "notify"
    /\ Goto(c, "release")
    /\ UNCHANGED <<mutex, waiting, queue, writing, record, output, counters, stop, owned,
                   refs, calls, history>>

Notify(c) ==
    /\ pc[c] = "notify"
    /\ NotifyOne
    /\ Goto(c, "release")
    /\ UNCHANGED <<mutex, queue, writing, record, output, counters, stop, owned, refs,
                   calls, history>>

-----------------------------------------------------------------------------
(* log::flush and LogWriter::flush, by a Flusher or at the end of App::listen. *)

FlushIdle(f) == IF f = App THEN "serving" ELSE "idle"

FlushCall(f) ==
    /\ pc[f] = FlushIdle(f)
    /\ f # App => calls[f] < MaxCalls
    /\ calls' = IF f = App THEN calls ELSE [calls EXCEPT ![f] = @ + 1]
    /\ IF "slot" \in owned
       THEN /\ refs' = refs \cup {f}
            /\ mark' = [mark EXCEPT ![f] = accepted]
            /\ Goto(f, "lock")
       ELSE UNCHANGED <<pc, refs, mark>>
    /\ UNCHANGED <<mutex, waiting, queue, writing, record, output, counters, stop, owned,
                   out, lost, thrown>>

FlushLock(f) ==
    /\ pc[f] = "lock"
    /\ Acquire(f)
    /\ Goto(f, "test")
    /\ UNCHANGED <<waiting, queue, writing, record, output, counters, stop, owned, refs,
                   calls, history>>

(* Mutant: flush waits for the queue only, not for the record being written. *)
Drained_IgnoresWriting == queue = <<>>

(* cv_.wait's predicate; when it holds, output_->flush() and the result. *)
Drained == queue = <<>> /\ ~writing

FlushTest(f) ==
    /\ pc[f] = "test"
    /\ \/ /\ ~Drained
          /\ Goto(f, "block")
          /\ UNCHANGED <<mutex, output>>
       \/ /\ Drained
          /\ Unlock
          /\ \/ output # "failed" /\ Goto(f, "flushed") /\ UNCHANGED output
             \/ output # "null" /\ output' = "failed" /\ Goto(f, "release")
    /\ UNCHANGED <<waiting, queue, writing, record, counters, stop, owned, refs, calls,
                   history>>

-----------------------------------------------------------------------------
(* Sleeping on cv_: the mutex is released in the step in which the thread    *)
(* enters the wait set; a notified thread competes for the mutex again.      *)

Block(t) ==
    /\ pc[t] = "block"
    /\ Unlock
    /\ waiting' = waiting \cup {t}
    /\ Goto(t, "wait")
    /\ UNCHANGED <<queue, writing, record, output, counters, stop, owned, refs, calls,
                   history>>

Wake(t) ==
    /\ pc[t] = "wait"
    /\ t \notin waiting
    /\ Acquire(t)
    /\ Goto(t, "test")
    /\ UNCHANGED <<waiting, queue, writing, record, output, counters, stop, owned, refs,
                   calls, history>>

-----------------------------------------------------------------------------
(* LogWriter::run. *)

RunLock ==
    /\ pc[Writer] = "lock"
    /\ Acquire(Writer)
    /\ Goto(Writer, "test")
    /\ UNCHANGED <<waiting, queue, writing, record, output, counters, stop, owned, refs,
                   calls, history>>

(* Mutant: the thread returns as soon as stop is requested, queued records or not. *)
RunTest_QuitsOnStop ==
    /\ pc[Writer] = "test"
    /\ \/ /\ ~stop /\ queue = <<>>
          /\ Goto(Writer, "block")
          /\ UNCHANGED <<mutex, waiting, queue, writing, record>>
       \/ /\ stop
          /\ NotifyAll
          /\ Unlock
          /\ Goto(Writer, "done")
          /\ UNCHANGED <<queue, writing, record>>
       \/ /\ ~stop /\ queue # <<>>
          /\ record' = Head(queue)
          /\ queue' = Tail(queue)
          /\ writing' = TRUE
          /\ Unlock
          /\ Goto(Writer, "write")
          /\ UNCHANGED waiting
    /\ UNCHANGED <<output, counters, stop, owned, refs, calls, history>>

(* The predicate `stop_requested || !queue_.empty()` and what follows it. *)
RunTest ==
    /\ pc[Writer] = "test"
    /\ \/ /\ ~stop /\ queue = <<>>
          /\ Goto(Writer, "block")
          /\ UNCHANGED <<mutex, waiting, queue, writing, record>>
       \/ /\ stop /\ queue = <<>>
          /\ NotifyAll
          /\ Unlock
          /\ Goto(Writer, "done")
          /\ UNCHANGED <<queue, writing, record>>
       \/ /\ queue # <<>>
          /\ record' = Head(queue)
          /\ queue' = Tail(queue)
          /\ writing' = TRUE
          /\ Unlock
          /\ Goto(Writer, "write")
          /\ UNCHANGED waiting
    /\ UNCHANGED <<output, counters, stop, owned, refs, calls, history>>

(* Mutant: written_ is incremented without looking at the stream's state. *)
WriteRecord_CountsFailures ==
    /\ pc[Writer] = "write"
    /\ written' = written + 1
    /\ \/ output = "good" /\ out' = Append(out, record) /\ UNCHANGED <<output, lost>>
       \/ output # "null" /\ output' = "failed" /\ lost' = lost + 1 /\ UNCHANGED out
    /\ record' = NoRecord
    /\ Goto(Writer, "lock2")
    /\ UNCHANGED <<mutex, waiting, queue, writing, accepted, dropped, stop, owned, refs,
                   calls, thrown, mark>>

(* write_record: the stream takes the record, or is (or becomes) failed, or  *)
(* formatting throws.                                                        *)
WriteRecord ==
    /\ pc[Writer] = "write"
    /\ \/ /\ output = "good"
          /\ written' = written + 1
          /\ out' = Append(out, record)
          /\ UNCHANGED <<output, dropped, lost, thrown>>
       \/ /\ output # "null"
          /\ output' = "failed"
          /\ lost' = lost + 1
          /\ UNCHANGED <<written, dropped, out, thrown>>
       \/ /\ output # "null"
          /\ IncrementDropped
          /\ thrown' = thrown + 1
          /\ UNCHANGED <<output, written, out, lost>>
    /\ record' = NoRecord
    /\ Goto(Writer, "lock2")
    /\ UNCHANGED <<mutex, waiting, queue, writing, accepted, stop, owned, refs, calls, mark>>

RunLock2 ==
    /\ pc[Writer] = "lock2"
    /\ Acquire(Writer)
    /\ Goto(Writer, "clear")
    /\ UNCHANGED <<waiting, queue, writing, record, output, counters, stop, owned, refs,
                   calls, history>>

RunClear ==
    /\ pc[Writer] = "clear"
    /\ writing' = FALSE
    /\ Unlock
    /\ Goto(Writer, "notify")
    /\ UNCHANGED <<waiting, queue, record, output, counters, stop, owned, refs, calls,
                   history>>

RunNotify ==
    /\ pc[Writer] = "notify"
    /\ NotifyAll
    /\ Goto(Writer, "lock")
    /\ UNCHANGED <<mutex, queue, writing, record, output, counters, stop, owned, refs,
                   calls, history>>

-----------------------------------------------------------------------------
(* Releasing shared_ptrs.  Whoever releases the last one runs ~LogWriter. *)

Return(t) == IF t = App THEN "reset" ELSE "idle"

(* Mutant: a log call that ends destroys the writer although App still owns it. *)
Release_IgnoresOwners(t) ==
    /\ pc[t] \in {"release", "flushed"}
    /\ refs' = refs \ {t}
    /\ Goto(t, IF refs' = {} THEN "dtor" ELSE Return(t))
    /\ UNCHANGED <<mutex, waiting, queue, writing, record, output, counters, stop, owned,
                   calls, history>>

Release(t) ==
    /\ pc[t] \in {"release", "flushed"}
    /\ refs' = refs \ {t}
    /\ Goto(t, IF refs' = {} /\ owned = {} THEN "dtor" ELSE Return(t))
    /\ UNCHANGED <<mutex, waiting, queue, writing, record, output, counters, stop, owned,
                   calls, history>>

(* reset_log_writer(); impl_->log_writer.reset(); the local shared_ptr that  *)
(* LogWriter::create returned dies when App::listen returns.                 *)
AppRelease ==
    /\ \/ /\ pc[App] = "reset"
          /\ owned' = owned \ {"slot"}
          /\ Goto(App, "reset_impl")
       \/ /\ pc[App] = "reset_impl"
          /\ owned' = owned \ {"impl"}
          /\ Goto(App, IF owned' = {} /\ refs = {} THEN "dtor" ELSE "leave")
       \/ /\ pc[App] = "leave"
          /\ owned' = {}
          /\ Goto(App, IF "local" \in owned /\ refs = {} THEN "dtor" ELSE "returned")
    /\ UNCHANGED <<mutex, waiting, queue, writing, record, output, counters, stop, refs,
                   calls, history>>

(* ~LogWriter: request_stop and notify_all, neither under mutex_; then the   *)
(* members die in reverse order: thread_ joins, file_ is flushed and closed. *)
DtorStop(t) ==
    /\ pc[t] = "dtor"
    /\ stop' = TRUE
    /\ Goto(t, "dtor_notify")
    /\ UNCHANGED <<mutex, waiting, queue, writing, record, output, counters, owned, refs,
                   calls, history>>

DtorNotify(t) ==
    /\ pc[t] = "dtor_notify"
    /\ NotifyAll
    /\ Goto(t, "join")
    /\ UNCHANGED <<mutex, queue, writing, record, output, counters, stop, owned, refs,
                   calls, history>>

DtorJoin(t) ==
    /\ pc[t] = "join"
    /\ pc[Writer] = "done"
    /\ Goto(t, "close")
    /\ UNCHANGED <<mutex, waiting, queue, writing, record, output, counters, stop, owned,
                   refs, calls, history>>

DtorClose(t) ==
    /\ pc[t] = "close"
    /\ Goto(t, IF t = App THEN "returned" ELSE "idle")
    /\ UNCHANGED <<mutex, waiting, queue, writing, record, output, counters, stop, owned,
                   refs, calls, history>>

-----------------------------------------------------------------------------

CallerStep(c) == WriteCall(c) \/ TryLock(c) \/ Push(c) \/ Notify(c)

FlushStep(f) == FlushCall(f) \/ FlushLock(f) \/ FlushTest(f) \/ Block(f) \/ Wake(f)

RunStep == \/ RunLock \/ RunTest \/ Block(Writer) \/ Wake(Writer) \/ WriteRecord
           \/ RunLock2 \/ RunClear \/ RunNotify

OwnerStep(t) == \/ Release(t) \/ DtorStop(t) \/ DtorNotify(t) \/ DtorJoin(t) \/ DtorClose(t)

Next ==
    \/ Create \/ Install \/ AppRelease
    \/ RunStep
    \/ \E c \in Callers : CallerStep(c)
    \/ \E f \in Flushers \cup {App} : FlushStep(f)
    \/ \E t \in Users \cup {App} : OwnerStep(t)

Spec == Init /\ [][Next]_vars

(* The operating system runs every thread that can run; nobody is obliged to *)
(* start another log call or flush, and App::listen may serve forever        *)
(* (WriteCall and FlushCall).                                                *)
FlushWork(f) == FlushLock(f) \/ FlushTest(f) \/ Block(f) \/ Wake(f) \/ OwnerStep(f)

Fairness ==
    /\ WF_vars(RunStep)
    /\ WF_vars(Create \/ Install \/ AppRelease \/ FlushWork(App))
    /\ \A c \in Callers : WF_vars(TryLock(c) \/ Push(c) \/ Notify(c) \/ OwnerStep(c))
    /\ \A f \in Flushers : WF_vars(FlushWork(f))

FairSpec == Spec /\ Fairness

-----------------------------------------------------------------------------
(* Properties. *)

FlushThreads == Flushers \cup {App}
InFlight     == IF pc[Writer] = "write" THEN 1 ELSE 0
Processed    == written + lost + thrown

CallerLabels == {"idle", "try_lock", "push", "notify", "release"}
FlushLabels  == {"idle", "lock", "test", "block", "wait", "flushed", "release"}
DtorLabels   == {"dtor", "dtor_notify", "join", "close"}
AppLabels    == {"create", "install", "serving", "reset", "reset_impl", "leave", "returned"}
RunLabels    == {"none", "lock", "test", "block", "wait", "write", "lock2", "clear",
                 "notify", "done"}
Labels       == CallerLabels \cup FlushLabels \cup DtorLabels \cup AppLabels \cup RunLabels

(* Every thread stays at its own program points, and every variable has its  *)
(* type.                                                                      *)
PcTypeOK ==
    /\ pc \in [Threads -> Labels]
    /\ \A c \in Callers : pc[c] \in CallerLabels \cup DtorLabels
    /\ \A f \in Flushers : pc[f] \in FlushLabels \cup DtorLabels
    /\ pc[App] \in (AppLabels \cup FlushLabels \cup DtorLabels) \ {"idle"}
    /\ pc[Writer] \in RunLabels

SyncTypeOK ==
    /\ mutex \in Threads \cup {NoThread}
    /\ waiting \subseteq FlushThreads \cup {Writer}
    /\ writing \in BOOLEAN
    /\ stop \in BOOLEAN

QueueTypeOK ==
    /\ queue \in Seq(Records)
    /\ record \in Records \cup {NoRecord}
    /\ output \in {"null", "good", "failed"}
    /\ out \in Seq(Records)

CountTypeOK ==
    /\ accepted \in Nat /\ dropped \in Nat /\ written \in Nat
    /\ lost \in Nat /\ thrown \in Nat
    /\ mark \in [FlushThreads -> Nat]

OwnerTypeOK ==
    /\ owned \subseteq {"slot", "impl", "local"}
    /\ refs \subseteq Users \cup {App}
    /\ calls \in [Users -> 0..MaxCalls]

TypeOK == PcTypeOK /\ SyncTypeOK /\ QueueTypeOK /\ CountTypeOK /\ OwnerTypeOK

(* The counters account for every record: whatever enqueue accepted is in   *)
(* queue_, is the record being written, or was written, refused by a failed  *)
(* stream or dropped by a formatting exception; written_ counts exactly what *)
(* the stream took.                                                          *)
Conservation ==
    /\ accepted = Len(queue) + InFlight + Processed
    /\ written = Len(out)

(* queue_ never outgrows the normalised capacity, although size() is tested  *)
(* and push_back is done by many callers.                                    *)
CapacityBound == Len(queue) <= Capacity

(* When flush() reports success every record accepted before the call is on  *)
(* the stream, except those whose formatting threw: a record the stream      *)
(* refused makes flush fail (failbit is sticky).                             *)
FlushSuccessMeansWritten ==
    \A f \in FlushThreads : pc[f] = "flushed" => written + thrown >= mark[f]

(* ~LogWriter loses nothing: once the background thread has ended the queue  *)
(* is empty, nothing is being written and no caller is left that could still *)
(* enqueue.                                                                  *)
ShutdownDrains ==
    pc[Writer] = "done" =>
        /\ queue = <<>> /\ ~writing
        /\ accepted = Processed
        /\ \A c \in Callers : pc[c] \notin {"try_lock", "push", "notify"}

(* The background thread sleeps on a non-empty queue only while a caller     *)
(* still owes a notify_one or a flush has gone to sleep on the same          *)
(* condition variable (whose wake-up the flush may have taken).              *)
SleepIsExcused ==
    (Writer \in waiting /\ queue # <<>>) =>
        \/ \E c \in Callers : pc[c] = "notify"
        \/ \E f \in FlushThreads : pc[f] \in {"test", "block", "wait"}

(* The writer is not destroyed under a thread that uses it: the destructor   *)
(* runs only in the one thread that released the last shared_ptr.            *)
DestroyedOnlyUnused ==
    \A t \in Users \cup {App} : pc[t] \in DtorLabels =>
        /\ refs = {} /\ owned = {}
        /\ \A u \in (Users \cup {App}) \ {t} : pc[u] \in {"idle", "leave", "returned"}

(* What LogPipe calls pending: the record being written and the queue. *)
Pending == IF pc[Writer] = "write" THEN <<record>> \o queue ELSE queue
Pipe    == INSTANCE LogPipe WITH pending <- Pending, Bound <- Capacity + 1

(* The writer implements LogPipe: every accepted record reaches the stream   *)
(* at most once and in the order of acceptance, and no more than the capacity *)
(* plus the record being written are on their way.                            *)
ImplementsPipe == Pipe!Spec

(* LogWriter::run is woken for every accepted record: all of them leave the  *)
(* queue and are processed, unless a flush goes to sleep on cv_, where it     *)
(* competes for the wake-ups.                                                 *)
RecordsAreProcessed ==
    (accepted > Processed) ~>
        (accepted = Processed \/ \E f \in FlushThreads : pc[f] = "wait")

(* include/aevox/log.hpp: flush "Drains queued entries and flushes the       *)
(* active destination": a flush that began returns.                          *)
FlushReturns == \A f \in FlushThreads : (pc[f] = "lock") ~> (pc[f] \in {"flushed", "release"})

(* include/aevox/app.hpp on listen: "On stop, drain completes and this call  *)
(* returns."                                                                 *)
ListenReturns == (pc[App] = "reset") ~> (pc[App] = "returned")
=============================================================================
