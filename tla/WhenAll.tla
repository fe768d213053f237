------------------------------- MODULE WhenAll -------------------------------
(***************************************************************************)
(* aevox::Task (task.hpp) and the awaitables built on it (async.hpp):      *)
(* pool, sleep and when_all.                                               *)
(*                                                                         *)
(* One handler coroutine ("outer") awaits when_all over N sub-tasks.  The  *)
(* coroutines are frames; a thread of the executor either is idle, runs    *)
(* the body of one frame, or is inside WhenAllAwaitable::await_suspend,    *)
(* posting the sub-tasks one by one while the others already run.  Frames  *)
(* of one sub-task i: its driver <<"drv", i>> (when_all_subtask, a         *)
(* FireAndForget), the Task it was given <<"task", i>>, and the Task of    *)
(* the pool or sleep call the latter awaits <<"call", i>>.                 *)
(***************************************************************************)
EXTENDS Naturals, Sequences, FiniteSets

CONSTANTS IoThreads,   \* the threads that run the I/O pool
          CpuThreads,  \* the threads of the CPU pool; empty: cpu_pool_threads = 0
          N,           \* sizeof...(Ts)
          Bodies       \* what a sub-task may do: [awaits : sequence of calls, ends]

\* when_all requires at least two tasks; some thread runs the I/O pool.
ASSUME WhenAllAssumption ==
    /\ N \in Nat /\ N >= 2
    /\ IoThreads # {}
    /\ \A b \in Bodies : /\ b.ends \in {"return", "throw"}
                         /\ b.awaits \in Seq({"pool", "pool_throws", "sleep"})

VARIABLES
    body,          \* body[i]: what sub-task i does
    io, cpu,       \* the queues of posted functions of the two pools
    timers,        \* sub-tasks whose sleep timer is pending
    at,            \* at[t]: what thread t does
    frame,         \* frame[c]: the coroutine frames and their promises
    pc,            \* pc[c]: where the body of c is suspended or runs
    pool_result,   \* pool_result[i]: PoolAwaitable::result_ or exception_
    state,         \* the WhenAllState shared by the awaitable and the drivers
    got            \* what the outer coroutine got from its co_await

vars == <<body, io, cpu, timers, at, frame, pc, pool_result, state, got>>

Subs == 1..N
Outer == <<"outer", 0>>
All == <<"all", 0>>
Drv(i) == <<"drv", i>>
TaskOf(i) == <<"task", i>>
Call(i) == <<"call", i>>
Fn(i) == <<"fn", i>>     \* the function PoolAwaitable posts for sub-task i
Coroutines == {Outer, All} \cup {Drv(i) : i \in Subs}
                \cup {TaskOf(i) : i \in Subs} \cup {Call(i) : i \in Subs}
Threads == IoThreads \cup CpuThreads

\* An outcome: none yet, a value, no value (void), an exception, or the tuple.
Unset == <<>>
Void == <<"void">>
Value(i) == <<"value", i>>
Thrown(i) == <<"thrown", i>>
Threw(o) == Len(o) = 2 /\ o[1] = "thrown"
Tuple(results) == <<"tuple", results, N>>

Idle == [do |-> "idle", co |-> Outer, k |-> 0]
Run(c) == [do |-> "run", co |-> c, k |-> 0]
Running(t, c) == at[t].do = "run" /\ at[t].co = c

-----------------------------------------------------------------------------
(* The Task type *)

\* A promise before its coroutine is awaited: Task is lazy (initial_suspend),
\* nothing is stored and no continuation is set.
NewFrame == [st |-> "suspended", cont |-> <<>>, out |-> Unset]

\* Before the factory function of the coroutine was called, and after
\* ~Task (or the end of a FireAndForget) destroyed the frame.
NoFrame == [st |-> "none", cont |-> <<>>, out |-> Unset]
Destroyed == [st |-> "destroyed", cont |-> <<>>, out |-> Unset]

\* Task::await_suspend: the caller becomes the continuation of the awaited
\* Task and the thread goes on in the body of that Task.
await_suspend(t, caller, f, task) ==
    /\ frame' = [f EXCEPT ![task].cont = <<caller>>, ![task].st = "running",
                          ![caller].st = "suspended"]
    /\ at' = [at EXCEPT ![t] = Run(task)]

\* return_value, return_void or unhandled_exception stores the outcome, and
\* the FinalAwaitable transfers to the continuation, if there is one.
final_suspend(t, c, out) ==
    LET cont == frame[c].cont IN
    /\ frame' = IF cont = <<>> THEN [frame EXCEPT ![c].st = "final", ![c].out = out]
                ELSE [frame EXCEPT ![c].st = "final", ![c].out = out,
                                   ![cont[1]].st = "running"]
    /\ at' = [at EXCEPT ![t] = IF cont = <<>> THEN Idle ELSE Run(cont[1])]

\* Task::await_resume: the value of a finished Task, or the exception to rethrow.
await_resume(task) == frame[task].out

\* handle.resume() from a posted function or a timer.
Resume(t, c) ==
    /\ at' = [at EXCEPT ![t] = Run(c)]
    /\ frame' = [frame EXCEPT ![c].st = "running"]

-----------------------------------------------------------------------------
(* The thread-local bridges and the pools *)

\* tl_post_to_io: functions posted to the I/O pool run in the order posted.
PostIo(job) == io' = Append(io, job)

\* tl_post_to_cpu is bound to the I/O pool when there is no CPU pool.
tl_post_to_cpu(job) ==
    IF CpuThreads = {} THEN PostIo(job) /\ UNCHANGED cpu
    ELSE cpu' = Append(cpu, job) /\ UNCHANGED io

\* A thread of the I/O pool takes the next function: it resumes a coroutine,
\* or starts the driver of a sub-task, which runs at once (FireAndForget).
TakeIo(t) ==
    /\ t \in IoThreads /\ at[t] = Idle
    /\ io # <<>> /\ Head(io)[1] # "fn"
    /\ io' = Tail(io)
    /\ Resume(t, Head(io))
    /\ UNCHANGED <<body, cpu, timers, pc, pool_result, state, got>>

\* The function PoolAwaitable posts: it calls fn, keeps the result or the
\* exception, and posts the resumption of the caller to the I/O pool.
PoolFunction(i) ==
    /\ pool_result' = [pool_result EXCEPT ![i] =
            IF body[i].awaits[pc[TaskOf(i)]] = "pool" THEN Value(i) ELSE Thrown(i)]
    /\ UNCHANGED <<body, timers, at, frame, pc, state, got>>

TakeFunction(t) ==
    LET pool == IF CpuThreads = {} THEN io ELSE cpu IN
    /\ t \in (IF CpuThreads = {} THEN IoThreads ELSE CpuThreads)
    /\ at[t] = Idle /\ pool # <<>> /\ Head(pool)[1] = "fn"
    /\ PoolFunction(Head(pool)[2])
    /\ cpu' = IF CpuThreads = {} THEN cpu ELSE Tail(cpu)
    /\ io' = Append(IF CpuThreads = {} THEN Tail(io) ELSE io, Call(Head(pool)[2]))

\* tl_schedule_after: the timer of a sleep fires and resumes it on the I/O pool.
TimerFires(i) ==
    /\ i \in timers
    /\ timers' = timers \ {i}
    /\ PostIo(Call(i))
    /\ UNCHANGED <<body, cpu, at, frame, pc, pool_result, state, got>>

-----------------------------------------------------------------------------
(* pool() and sleep() *)

\* The coroutine of pool or sleep starts: it suspends for good and lets the
\* CPU pool, or the timer, resume it.
CallStart(t, i) ==
    /\ Running(t, Call(i)) /\ pc[Call(i)] = 0
    /\ pc' = [pc EXCEPT ![Call(i)] = 1]
    /\ frame' = [frame EXCEPT ![Call(i)].st = "suspended"]
    /\ at' = [at EXCEPT ![t] = Idle]
    /\ IF body[i].awaits[pc[TaskOf(i)]] = "sleep"
       THEN timers' = timers \cup {i} /\ UNCHANGED <<io, cpu>>
       ELSE tl_post_to_cpu(Fn(i)) /\ UNCHANGED timers
    /\ UNCHANGED <<body, pool_result, state, got>>

\* PoolAwaitable::await_resume rethrows or returns; sleep returns nothing.
pool_outcome(i) ==
    IF body[i].awaits[pc[TaskOf(i)]] = "sleep" THEN Void ELSE pool_result[i]

CallEnd(t, i) ==
    /\ Running(t, Call(i)) /\ pc[Call(i)] = 1
    /\ final_suspend(t, Call(i), pool_outcome(i))
    /\ pool_result' = [pool_result EXCEPT ![i] = Unset]
    /\ UNCHANGED <<body, io, cpu, timers, pc, state, got>>

-----------------------------------------------------------------------------
(* The body of a sub-task: application code, a few awaits and an end *)

BodyAwaits(t, i) ==
    LET c == TaskOf(i) IN
    /\ Running(t, c) /\ frame[Call(i)].st # "final"
    /\ pc[c] < Len(body[i].awaits)
    /\ pc' = [pc EXCEPT ![c] = pc[c] + 1, ![Call(i)] = 0]
    /\ await_suspend(t, c, [frame EXCEPT ![Call(i)] = NewFrame], Call(i))
    /\ UNCHANGED <<body, io, cpu, timers, pool_result, state, got>>

\* The awaited call has ended: its Task is destroyed at the end of the
\* co_await expression, and an exception leaves the body.
BodyResumes(t, i) ==
    LET c == TaskOf(i)
        destroyed == [frame EXCEPT ![Call(i)] = Destroyed]
    IN
    /\ Running(t, c) /\ frame[Call(i)].st = "final"
    /\ IF Threw(await_resume(Call(i)))
       THEN /\ frame' = [destroyed EXCEPT ![c].st = "final", ![c].out = Thrown(i),
                                          ![Drv(i)].st = "running"]
            /\ at' = [at EXCEPT ![t] = Run(Drv(i))]
       ELSE frame' = destroyed /\ UNCHANGED at
    /\ UNCHANGED <<body, io, cpu, timers, pc, pool_result, state, got>>

BodyEnds(t, i) ==
    LET c == TaskOf(i) IN
    /\ Running(t, c) /\ frame[Call(i)].st # "final"
    /\ pc[c] = Len(body[i].awaits)
    /\ final_suspend(t, c, IF body[i].ends = "return" THEN Value(i) ELSE Thrown(i))
    /\ UNCHANGED <<body, io, cpu, timers, pc, pool_result, state, got>>

-----------------------------------------------------------------------------
(* when_all *)

\* The handler awaits when_all(...).
OuterAwaits(t) ==
    /\ Running(t, Outer) /\ pc[Outer] = 0
    /\ pc' = [pc EXCEPT ![Outer] = 1]
    /\ await_suspend(t, Outer, [frame EXCEPT ![All] = NewFrame], All)
    /\ UNCHANGED <<body, io, cpu, timers, pool_result, state, got>>

WhenAllState(n) ==
    [remaining |-> n, results |-> [i \in Subs |-> Unset], first_exception |-> Unset]

\* WhenAllAwaitable::await_suspend: the state is made and the continuation
\* set; the frame counts as suspended from here on.
AwaitSuspendBegins(t) ==
    /\ Running(t, All) /\ pc[All] = 0
    /\ pc' = [pc EXCEPT ![All] = 1]
    /\ state' = WhenAllState(N)
    /\ frame' = [frame EXCEPT ![All].st = "suspended"]
    /\ at' = [at EXCEPT ![t] = [do |-> "post", co |-> All, k |-> 1]]
    /\ UNCHANGED <<body, io, cpu, timers, pool_result, got>>

\* The fold expression posts one driver after the other; it reads state_ and
\* tasks_, which live in the frame of when_all.
AwaitSuspendPosts(t) ==
    LET i == at[t].k IN
    /\ at[t].do = "post"
    /\ PostIo(Drv(i))
    /\ frame' = [frame EXCEPT ![Drv(i)] = NewFrame, ![TaskOf(i)] = NewFrame]
    /\ at' = [at EXCEPT ![t] = IF i < N THEN [@ EXCEPT !.k = i + 1] ELSE Idle]
    /\ UNCHANGED <<body, cpu, timers, pc, pool_result, state, got>>

\* when_all_subtask awaits its task.
SubtaskAwaits(t, i) ==
    /\ Running(t, Drv(i)) /\ pc[Drv(i)] = 0
    /\ pc' = [pc EXCEPT ![Drv(i)] = 1]
    /\ await_suspend(t, Drv(i), frame, TaskOf(i))
    /\ UNCHANGED <<body, io, cpu, timers, pool_result, state, got>>

store_result(i, value) == [state EXCEPT !.results[i] = value]

\* Mutant: every exception replaces the one before.
capture_exception_Last(exception) == [state EXCEPT !.first_exception = exception]

\* The first exception is kept, under exception_mutex_.
capture_exception(exception) ==
    IF state.first_exception = Unset
    THEN [state EXCEPT !.first_exception = exception] ELSE state

\* Mutant: a failed sub-task skips the count.
SubtaskStores_Skip(t, i) ==
    LET out == await_resume(TaskOf(i)) IN
    /\ Running(t, Drv(i)) /\ pc[Drv(i)] = 1
    /\ pc' = [pc EXCEPT ![Drv(i)] = IF Threw(out) THEN 3 ELSE 2]
    /\ state' = IF Threw(out) THEN capture_exception(out) ELSE store_result(i, out)
    /\ UNCHANGED <<body, io, cpu, timers, at, frame, pool_result, got>>

\* The try block: the outcome of the task goes to the shared state.
SubtaskStores(t, i) ==
    LET out == await_resume(TaskOf(i)) IN
    /\ Running(t, Drv(i)) /\ pc[Drv(i)] = 1
    /\ pc' = [pc EXCEPT ![Drv(i)] = 2]
    /\ state' = IF Threw(out) THEN capture_exception(out) ELSE store_result(i, out)
    /\ UNCHANGED <<body, io, cpu, timers, at, frame, pool_result, got>>

\* Mutant: takes the value after the decrement for the one before it.
mark_one_complete_OffByOne(remaining) == remaining = 2

\* Mutant: asks whether few are left instead of whether this was the last.
mark_one_complete_Twice(remaining) == remaining <= 2

\* fetch_sub returns the count before the decrement.
mark_one_complete(remaining) == remaining = 1

\* The driver counts itself off; the last one posts the resumption of
\* when_all.  The driver's frame ends, and with it the task it owns.
SubtaskCompletes(t, i) ==
    /\ Running(t, Drv(i)) /\ pc[Drv(i)] = 2
    /\ pc' = [pc EXCEPT ![Drv(i)] = 3]
    /\ state' = [state EXCEPT !.remaining = @ - 1]
    /\ IF mark_one_complete(state.remaining) THEN PostIo(All) ELSE UNCHANGED io
    /\ frame' = [frame EXCEPT ![Drv(i)] = Destroyed, ![TaskOf(i)] = Destroyed]
    /\ at' = [at EXCEPT ![t] = Idle]
    /\ UNCHANGED <<body, cpu, timers, pool_result, got>>

\* WhenAllAwaitable::await_resume: the first exception, or all the results.
take_results ==
    IF state.first_exception # Unset THEN state.first_exception
    ELSE Tuple(state.results)

AllEnds(t) ==
    /\ Running(t, All) /\ pc[All] = 1
    /\ final_suspend(t, All, take_results)
    /\ UNCHANGED <<body, io, cpu, timers, pc, pool_result, state, got>>

\* The handler goes on with what it got, and when_all's Task is destroyed.
OuterResumes(t) ==
    /\ Running(t, Outer) /\ pc[Outer] = 1
    /\ pc' = [pc EXCEPT ![Outer] = 2]
    /\ got' = Append(got, await_resume(All))
    /\ frame' = [frame EXCEPT ![All] = Destroyed, ![Outer].st = "final"]
    /\ at' = [at EXCEPT ![t] = Idle]
    /\ UNCHANGED <<body, io, cpu, timers, pool_result, state>>

-----------------------------------------------------------------------------
Init ==
    /\ body \in [Subs -> Bodies]
    /\ io = <<Outer>> /\ cpu = <<>> /\ timers = {}
    /\ at = [t \in Threads |-> Idle]
    /\ frame = [c \in Coroutines |-> IF c = Outer THEN NewFrame ELSE NoFrame]
    /\ pc = [c \in Coroutines |-> 0]
    /\ pool_result = [i \in Subs |-> Unset]
    /\ state = WhenAllState(0)
    /\ got = <<>>

\* Everything one thread does next: a running coroutine goes on by itself.
Step(t) ==
    \/ TakeIo(t) \/ TakeFunction(t)
    \/ OuterAwaits(t) \/ OuterResumes(t)
    \/ AwaitSuspendBegins(t) \/ AwaitSuspendPosts(t) \/ AllEnds(t)
    \/ \E i \in Subs :
        \/ SubtaskAwaits(t, i) \/ SubtaskStores(t, i) \/ SubtaskCompletes(t, i)
        \/ BodyAwaits(t, i) \/ BodyResumes(t, i) \/ BodyEnds(t, i)
        \/ CallStart(t, i) \/ CallEnd(t, i)

Next ==
    \/ \E t \in Threads : Step(t)
    \/ \E i \in Subs : TimerFires(i)

\* A thread of a pool keeps running, and a timer that was set expires.
Fairness ==
    /\ \A t \in Threads : WF_vars(Step(t))
    /\ \A i \in Subs : WF_vars(TimerFires(i))

Spec == Init /\ [][Next]_vars /\ Fairness

-----------------------------------------------------------------------------
(* Properties *)

Throwing(i) == body[i].ends = "throw" \/ "pool_throws" \in
                   {body[i].awaits[j] : j \in 1..Len(body[i].awaits)}

\* co_await when_all(...) completes once, and only when every sub-task has
\* completed: with the tuple of all the results, each at the place of its
\* task, if none threw, and otherwise with the exception of one that threw.
AllOrException ==
    /\ Len(got) <= 1
    /\ got # <<>> =>
        /\ \A i \in Subs : frame[TaskOf(i)].st = "destroyed"
        /\ IF \E i \in Subs : Throwing(i)
           THEN \E i \in Subs : Throwing(i) /\ got[1] = Thrown(i)
           ELSE got[1] = Tuple([i \in Subs |-> Value(i)])

\* The exception kept for the awaiting coroutine never changes once one is
\* captured: it is the first one, whatever the other sub-tasks do later.
FirstExceptionKept ==
    [][state.first_exception # Unset =>
        state'.first_exception = state.first_exception]_vars

\* What will resume a coroutine: posted resumptions, its pool call, its timer,
\* and the running coroutines it is the continuation of.
Resumers(c) ==
    {<<"io", j>> : j \in {k \in 1..Len(io) : io[k] = c \/ \E i \in Subs : io[k] = Fn(i) /\ c = Call(i)}}
    \cup {<<"cpu", j>> : j \in {k \in 1..Len(cpu) : \E i \in Subs : cpu[k] = Fn(i) /\ c = Call(i)}}
    \cup {<<"timer", i>> : i \in {k \in timers : c = Call(k)}}
    \cup {<<"cont", d>> : d \in {e \in Coroutines : frame[e].st = "running" /\ frame[e].cont = <<c>>}}

\* A coroutine handle is resumed only while its frame is suspended and alive,
\* by one resumer; a frame is run by one thread; and the frame of when_all is
\* alive as long as a thread is inside await_suspend reading tasks_ from it.
FramesUsedSafely ==
    /\ \A c \in Coroutines :
        /\ Resumers(c) # {} => frame[c].st = "suspended"
        /\ \A x, y \in Resumers(c) : x = y
        /\ (\E t \in Threads : Running(t, c)) <=> frame[c].st = "running"
        /\ \A t, u \in Threads : Running(t, c) /\ Running(u, c) => t = u
    /\ \A t \in Threads : at[t].do = "post" => frame[All].st = "suspended"

\* The handler that awaits when_all is resumed eventually, whatever the
\* sub-tasks await and whether or not they throw.
OuterIsResumed == <>(got # <<>>)
=============================================================================
