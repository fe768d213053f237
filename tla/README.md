# Formal model of Aevox

TLA+ specifications of Aevox (a C++23 web framework: one `App` with plugins and a TOML
configuration, an Asio executor with coroutine tasks, an HTTP/1.1 connection loop with a
router, middleware and static files, WebSocket sessions with publish/subscribe, a gRPC
plugin over HTTP/2, and an asynchronous logger), the TLC configurations that check them on
small instances, and TLAPS proofs, for every instance, of the safety properties of the
logger, the executor, the publish/subscribe bus, WebSocket sessions and connections, the
HTTP/1.1 connection loop, static files, routing and the middleware pipeline, the life cycle
of an `App`, gRPC sessions and `when_all`.

`PROJECT.json` maps every definition to the source lines it stands for and lists
runs, mutants, findings, hazards and theorems. Paths below are relative to the
repository root.

## 1. Inventory

| Component | State it keeps | Operations | Hard behaviour | What makes it correct |
|---|---|---|---|---|
| **LogWriter** `src/log/log_writer.cpp`, `logger.cpp` | bounded queue, `writing_`, one mutex and one condition variable, stop token, counters, global `shared_ptr` slot | `log::write`, `log::flush`, background `run`, creation and release in `App::listen`, destructor | `try_lock` drops, one condition variable for two kinds of waiters, stop token outside the mutex, last owner runs the destructor | every accepted record is accounted for, FIFO, flush is truthful, shutdown loses nothing, everybody wakes |
| **AsioExecutor** `src/net/asio_executor.cpp`, `include/aevox/async.hpp` | `state_`, work guard, acceptors, I/O threads, CPU pool, drain thread | `listen`, `run`, `stop`, drain timer, destructor, accept loop, `pool()`, `sleep()` | `stop()` from any thread or signal at any moment; drain timeout against late completions | life cycle moves forward, one drain thread, graceful drain, nothing outlives the object, `run()` returns |
| **WebSocketSession** `src/net/websocket_session.cpp` | `closed_`, `close_sent_`, send queue, `sending_`, strand, waiter slot | send, bus delivery, close, drain coroutine, read loop, `wait_for_close` | strand lambdas against a drain resumed off the strand; lost or double resumption of the connection coroutine | writes never overlap, one Close frame, order per sender, bounded queue, waiter wakes once |
| **TopicBus** `src/net/topic_bus.cpp` | topic → vector of weak pointers, shared mutex | subscribe, unsubscribe, publish | delivery outside the lock from a snapshot, destructors that call back into the bus | no duplicates, no delivery to the dead, dead are forgotten, living are kept, no self-deadlock |
| **HttpConnection** `src/router/app_impl.cpp` (connection handler), `src/http/http_parser.cpp` | read buffer, incremental parser, keep-alive | read, feed, callbacks, dispatch, write, reset | TCP cuts and glues requests anywhere; limits reached in pieces | the k-th response answers the k-th request; every request is answered |
| **App life cycle, plugins, configuration** `src/router/app_impl.cpp`, `src/config/toml_loader.cpp` | plugin list, executor, signal slot, log writer, configuration | `create`, `install`, `listen`, `stop`, plugin start/stop, signal handlers, destructor | partial start failure, signals, `stop` from another thread at any moment | nothing is left running however `listen` ends; the configuration is what the file says or nothing; a stop ends the server |
| **Middleware pipeline** `src/router/app_impl.cpp` | global and scoped middleware | `use`, `dispatch_with_pipeline` | order and path-boundary scopes | exactly the middleware that covers a path runs, global first, in registration order |
| **Router** `src/router/router_impl.cpp`, `handler_wrap.hpp` | trie shared with groups | register, `group`, `dispatch` | routes that overlap, share positions or overwrite one another, in any order | the answer depends on what is registered, by specificity; arguments are those of the route's own pattern |
| **Tasks and `when_all`** `include/aevox/task.hpp`, `async.hpp` | coroutine frames with continuations, shared counter, results, first exception | `co_await` of a task, `pool`, `sleep`, `when_all` | sub-tasks finish on other threads while the rest is still being posted; the last finisher resumes the parent | the parent resumes once, with everything or the first exception; no frame is used when it is not suspended and alive |
| **TcpStream** `src/net/asio_tcp_stream.cpp` | socket | read, write | completion on any thread | in the modules that use it |
| **WebSocket handshake and frame codec** `src/net/websocket_frame.cpp`, `websocket_handshake.hpp`, `base64.hpp`, `src/http/request_impl.cpp` | accumulator of the read loop, owner of the stream | upgrade, parse, emit | reads cut frames anywhere; 7/16/64-bit lengths; two writers of the first answer | frames are handled as sent, replies can be read back, one HTTP answer |
| **gRPC plugin** `src/plugins/grpc/` | method map, executor, runner thread; per session a stream table and a ready list | register, install, start, stop; nghttp2 callbacks, processing, flush | stop from two threads, join; streams interleaved, reset or starved while a handler runs | handler sees exactly the request, answers in order, every complete request answered |
| **Static files, Response** `src/http/static_files.cpp`, `response_impl.cpp`, `request_impl.hpp` | configuration, file system | validate, match prefix, decode, resolve, stat, read, answer | spelling of paths; files that change between two system calls | only files below the root; every message framed and typed; exactly its prefix handled |
| **Trace context** `src/http/traceparent.hpp` | none | parse | many requests on one connection | each answer carries its own request's context |
| **JSON backend, log formatting** | none | thin layer over a library; text layout | none a model checker reaches that a unit test does not | not modelled |

Interactions. `App::listen` creates and installs the LogWriter, starts plugins,
calls `listen` and `run` of the executor, and flushes and releases the writer at
the end. The executor spawns one connection coroutine per accepted socket; that
coroutine is the HttpConnection loop, which on an upgrade hands its stream to a
WebSocketSession and waits in `wait_for_close`. Sessions subscribe to the TopicBus,
`publish` enqueues on the strand of each subscriber, and a session's destructor
unsubscribes it. Everything posts through the executor's `io_context`; every
thread may call the logger.

## 2. Plan

Built, in this order:

1. `LogPipe` (abstract) and `LogWriter` (detailed), refinement, `LogWriterProofs`.
2. `ExecutorLifecycle` (abstract) and `AsioExecutor` (detailed), refinement,
   `AsioExecutorProofs`.
3. `WebSocketSession`, `WebSocketSessionProofs`.
4. `TopicBus`, `TopicBusProofs`.
5. `HttpConnection`, which extends `TraceContext`; `HttpConnectionProofs`.
6. `Router`: patterns, trie and middleware pipeline against reference definitions; proved in
   `AppProofs`.
7. `App`, composing `GrpcPlugin` and `Config` with the interface of the executor;
   `AppProofs`.
8. `WhenAll`: tasks, `pool`, `sleep` and `when_all` on several threads; `WhenAllProofs`.
9. `GrpcSession`, which extends `GrpcEnvelope`; `GrpcSessionProofs`.
10. `WebSocketConnection`, composing `WebSocketFrame` and `Base64`; proved in
    `WebSocketSessionProofs`.
11. `StaticFiles`, which extends `HttpMessage`; proved in `HttpConnectionProofs`.

A module `MCx` holds the instance of module `x` that TLC checks.

A proofs module extends the module it is about. Three of them extend a second one, of the
same layer of the program (App and Router, HttpConnection and StaticFiles, WebSocketSession
and WebSocketConnection); the specifications of the second ones are called `RouterSpec`,
`StaticSpec` and `ConnectionSpec`, so that both can be extended at once. No module declares a
RECURSIVE operator.

Every safety property that a passing run checks is proved; the liveness properties are left
to TLC (section 6).

## 3. Modules

Conventions. One action per atomic step of the code: a step ends where another
thread can observe or change something the rest of the function depends on (a lock,
an atomic, a post, a suspension). Definitions named `X_Something` directly before
`X` are mutants: plausible bugs in the code behind `X`, used to show that the
properties notice them. Every bound is a constant named `Max...` or a set of model
values.

### LogWriter, LogPipe

`pc[t]` is the program point of a caller of `log::write`, a caller of `log::flush`,
the thread in `App::listen` or the background thread. `mutex` is the owner of
`mutex_`; `waiting` is the wait set of `cv_`. Testing a predicate and going to sleep
are two steps (`FlushTest`/`RunTest`, then `Block`): the mutex is held across them,
but the stop token is not protected by it. `notify_one` picks any sleeper.
`owned` and `refs` are the shared pointers to the writer: the slot, `impl_`, the local
of `App::listen` and one per thread inside a call; whoever drops the last one runs
`~LogWriter`. The stream may fail at any write or flush and then stays failed;
formatting may throw; a configured capacity of 0 means 1. Levels, formats and record
contents are left out.

`out`, `lost`, `thrown` and `mark` are history variables: what reached the stream,
how many records a failed stream refused, how many formatting threw away, and what
had been accepted when a flush began.

`LogPipe` is what the logger promises: a bounded FIFO from which records come out in
order or are given up when it is their turn. `ImplementsPipe` maps its `pending` to
the record being written followed by the queue.

### AsioExecutor

The `io_context` is external and is modelled by what `run()` can tell apart: ready
handlers, pending operations, what each I/O thread executes, the work guard, the
stopped flag. Work on the CPU pool is not outstanding work of the `io_context`,
because `pool()` posts its resumption through an executor that tracks none; whether
there is a pool is chosen in the initial state. Handlers are accept loops, connection
coroutines and the posted closing of the acceptors; taking and finishing one are two
steps. `stop()` is one action per compare-exchange and per effect; `run()` and
`listen()` are split where `stop()` can interfere. `began` and `forced` are history.

`ExecutorLifecycle` is what an owner of an executor relies on: five states left in one
direction only, I/O threads at work only while it runs or drains, and a return from `run()`
only after a stop and when the last thread is done. `ImplementsLifecycle` maps its `active`
to the existence of an I/O thread that has started and not exited.

### WebSocketSession

Parts (strand, drain, read loop, connection coroutine) run on `numThreads` threads,
a number chosen in the initial state; `busy` is what executes now. A lambda on the strand is two steps, queueing
(`StrandLambda`) and looking at `sending_` (`StrandKick`). A drain is resumed off the
strand, because `WriteAwaitable` resumes through `tl_post_to_io`; its test of the queue
and its reset of `sending_` are separate steps. The peer's frames are data, ping,
something ignored, Close, a malformed frame, or end of file. Two drain slots exist so
that a second concurrent drain is representable. Frame contents and close codes are
left out.

### TopicBus

Threads hold `mutex_` exclusively or shared; sessions are owned by their connection,
by a thread acting for them, and by a thread that has locked a weak pointer. The step
that drops the last reference goes through `~WebSocketSession`, which unsubscribes.
A snapshot's references are held one by one (`live`) until its deliveries are done.
If that happens while the thread holds the mutex, the thread is at `"relock"`.

### HttpConnection, TraceContext

A request is a sequence of tokens and a read returns any non-empty prefix of what has
arrived. The parser's callbacks are one action each; llhttp is external. `feed()`
returning, dispatch, write and reset are the steps of the connection coroutine;
routing and the handler are one nondeterministic step (answer or upgrade). A
`traceparent` header is parsed from its characters when the request is made
(`MakeRequest`), and the answer carries what was parsed for its request.

### Router

A pattern is a sequence of segments, each a sequence of pieces (braces, colon, ellipsis,
names); `parse_pattern` decides on them what the code decides on characters. A malformed
pattern logs and ends the process, which is the action `TerminateOn`. A trie node is
identified by the edges from the root (a literal, `param_child` or `wildcard_child`), so `ensure_child` along a pattern adds the missing prefixes of a
position and keeps the name of a parameter node that exists. A path is the sequence of its
tokens, with an empty token for `//` and a trailing `/`: routing skips them, a wildcard
captures them, and a middleware scope compares with them. A handler is its list of
parameter types and the names it captured at registration; every arithmetic type is
`"number"`, because `normalise_handler` wraps all of them in its `int` branch. A request
goes down the pipeline layer by layer (a middleware calls `next` or answers), runs the
router in one step (dispatch does not suspend before the handler) and comes up again.
`history` is what was registered, as the application sees it; the properties use it and
never the trie. Left out: moved-from routers; `App::ws` registers a GET route whose handler
is in WebSocketConnection.

### App, GrpcPlugin, Config

`mainPc` is the main thread from `App::create` through `install` and `listen` to the
destructor; `callPc`, `stopPc` and `todo` are the threads inside `App::stop` and
`Plugin::stop`. Both executors are their `state_` (AsioExecutor has the rest): what
`listen`, `run` and `stop` do to it and when `run` returns. A plugin's executor may fail to
start, a port may be taken, a signal may arrive whenever the file-scope slot is set.
`Plugin::stop` looks at `joinable()` and calls `join()` in separate steps, since it holds no
lock; the second of two overlapping joins sets `crashed`.

`Config` is `load_toml_config` as a function from the values of a file to a configuration
or the first error, in the code's order of validation. toml++ is external: a value has the
type that `value<T>()` accepts. Sizes are counted in KiB.

### WhenAll

Coroutine frames (the handler, `when_all`, and per sub-task its driver, its `Task` and the
`Task` of the call it awaits) have a state, a continuation and an outcome. A thread is
idle, runs the body of one frame, or is inside `await_suspend` and posts sub-tasks one by
one while the others already run. The two pools are FIFO queues of posted functions; a
sleep is a timer that fires at any time. `state` is the shared `WhenAllState`.

### GrpcSession, GrpcEnvelope

One coroutine reads, feeds nghttp2, processes the ready streams one after the other and
flushes; each callback of nghttp2 that the code registers is an action, and so is each
frame the flush hands out. nghttp2 and the client are external: a client opens streams,
cuts its bytes into DATA frames anywhere, resets, withholds window, goes away. The envelope
codec works on bytes.

### WebSocketConnection, WebSocketFrame, Base64

The parser of frames works on a header and a number of bytes received; a payload byte is a
token that is recovered only with the mask byte it was masked with, so that positions
matter and contents do not. `WebSocketConnection` runs the handler that `App::ws`
registers, the handshake's header tests, the accept value (SHA-1 is an external table,
Base64 is modelled on bytes) and the read loop. The send queue is WebSocketSession's
subject; here what is queued counts as written, and the application echoes.

### StaticFiles, HttpMessage

The middleware's configuration is validated, then a request goes through prefix, decoding,
resolution and the system calls one at a time. A string is a sequence of characters and
escapes with their two hex digits, so decoding is modelled by what it does. The file system
is external: a function from paths to files, directories and links, which another process
may change between two calls. `HttpMessage` is the target split, the factories and the
header map of `Response`, and the message `serialize_response` writes: names in two
spellings are two keys of the map and one header on the wire; a body is its length. The
lines of a message are a set, each marked as generated or as the Response's own: the map is
unordered, and no property is about the order of the lines.

## 4. Runs

| Run | Module / cfg | Properties | Instance |
|---|---|---|---|
| `log_writer` | LogWriter / LogWriter.cfg | TypeOK, Conservation, FlushSuccessMeansWritten, ShutdownDrains, SleepIsExcused, ImplementsPipe, RecordsAreProcessed | 1 caller and 1 flusher with two calls each, App (which flushes too), writer; capacity 0 (477k states) |
| `executor` | AsioExecutor / AsioExecutor.cfg | OrderlyShutdown, ImplementsLifecycle, DrainTerminates | 2 I/O threads, 1 port, 2 stoppers, 2 connections with 1 suspension each, with and without CPU pool (283k) |
| `ws_session` | WebSocketSession / WebSocketSession.cfg | WireDiscipline, ResumeSafety, QueueSafety, SessionProgress | 1 and 2 threads, 1 caller with 2 calls, 1 frame from the peer, depth 1 (298k) |
| `bus_safety` | MCTopicBus / MCTopicBus.cfg | SubscriptionsSound, DeliversToLiving, LiveStays | 2 threads with 3 operations, 3 sessions, 2 topics, symmetric (492k) |
| `http_connection` | MCHttpConnection / MCHttpConnection.cfg | AnswersSound, AllAnswered | limits 2 and 1, requests up to one over each, 5 traceparents, 3 requests, client waits (218k) |
| `routing` | MCRouter / MCRouter.cfg | RoutingSound, ArgumentsMatchPattern, PipelineOrder | all sequences of 3 registrations from 13 routes, 3 group prefixes (also nested), global and 3 scoped middleware, 10 malformed patterns; 12 paths, 4 methods (1.01M) |
| `app` | MCApp / MCApp.cfg | PluginLifetimes, ConfigAsWritten, MethodsFrozen, StopEndsServer | 2 plugins, 1 stopper, signals, a valid and an invalid method name; files at and beyond each limit and with two errors (176k) |
| `app_join` | MCApp / MCAppJoin.cfg | JoinedByOne, **violated** | as `app` |
| `grpc_session` | MCGrpcSession / MCGrpcSession.cfg | HandlerSeesRequest, AnswerInOrder, Answered | 2 streams, 9 requests, 4 results, messages of 2 bytes, window of 4 (303k) |
| `static_files` | MCStaticFiles / MCStaticFiles.cfg | ServesRootOnly, MessageFramed, HandlesItsPrefix | 10 configurations, 4 methods, 3 trees with links out of the root, 1 change during the request (152k) |
| `when_all` | MCWhenAll / MCWhenAll.cfg | AllOrException, FramesUsedSafely, FirstExceptionKept, OuterIsResumed | 3 sub-tasks, 2 I/O threads, 1 CPU thread (161k) |
| `ws_connection` | MCWebSocketConnection / MCWebSocketConnection.cfg | FramesAsSent, RepliesReadable, OneHttpAnswer, EveryFrameHandled | lengths around 125, 65535 and the maximum 65536, legal and illegal frames, cut anywhere (69k) |

Where a module has several facets of one promise, the property a run checks is the
conjunction of named parts, each with its own comment in the module (`OrderlyShutdown` is
one drain thread, a graceful drain, nothing that outlives the executor and a quiet end;
`WireDiscipline` is writes that never overlap, one Close frame and order per sender, and so
on).

Deadlock checking is off: calls, operations and requests are bounded, a malformed pattern
ends the process, so every instance ends; that the parts which must go on do go on is what
the liveness properties say.

Why the bounds are enough. The interesting interleavings take two of the competing
actors: a caller and sleepers of both kinds on `cv_`, two flushes among them; two
stoppers for a doubled drain; two I/O threads for handlers that overlap; two data
frames of one sender behind a third for order; two threads and a third session for a
destructor inside somebody else's critical section; three requests so that a request
follows one that followed another; three sub-tasks so that one finishes while another is
posted and a third throws; two streams for a request that becomes ready behind another's
handler; two plugins so that the second one's failure unwinds the first. Limits are set so
that they are reached and exceeded (capacity 1, depth 1, one header and one body unit too
many, a message one byte too long, a frame one byte beyond each length form). Each property
of a passing run is broken by its mutant in the same instance, so the instance reaches
the situation the property is about. The theorems below remove the bounds for the safety
properties they state.

Fairness.

* Logger: weak fairness of every thread inside a call (the operating system schedules
  it). Nobody has to start a call, and `App::listen` may serve forever.
* Executor: weak fairness of `run()`, every started `stop()`, the drain timer (it
  expires), the I/O threads and CPU-pool callables. Peers may leave a connection's I/O
  pending forever, and nobody has to call `stop()`.
* Session: weak fairness of posted handlers (the `io_context` queue is FIFO and the
  instance posts finitely many) and of write completions (they succeed or fail).
  The peer may stay silent forever.
* Connection: weak fairness of the loop; clients need not send or close.
* App: weak fairness of the main thread, of threads inside `stop()` and of the plugins'
  runners. Nobody has to call `stop()`, and no signal has to arrive.
* Tasks: weak fairness of every pool thread and of timers that were set.
* gRPC session: weak fairness of the server's own steps (handlers return, the coroutine is
  resumed). The client need not send, read or stay.
* WebSocket connection: weak fairness of the server's steps; what the client sent arrives.

What the liveness properties say: accepted records are processed unless a flush sleeps
on the same condition variable (`RecordsAreProcessed`); a draining executor returns
from `run()` even if a connection never finishes (`DrainTerminates`); the end of the
read loop wakes the connection coroutine on any number of threads, and with one thread the
send queue empties (`SessionProgress`); a client that waits gets an answer or a closed
connection (`AllAnswered`); a `stop()` begun while the server runs makes `listen` return
(`StopEndsServer`); a handler that awaits `when_all` goes on (`OuterIsResumed`); no complete
gRPC request is forgotten behind another one (`Answered`); no frame is left in the
accumulator (`EveryFrameHandled`).

## 5. Findings

**A plugin's runner can be joined twice** (run `app_join`, quoted in `PROJECT.json`).
`App::stop` on another thread and the end of `App::listen` both call `Plugin::stop`, which
tests `joinable()` and then calls `join()` without a lock; `plugin.hpp` requires `stop()` to
be thread-safe.

Six more disagreements have a configuration of their own, which TLC ends with a
counterexample:

* **Flush can sleep forever** (LogWriterFlushReturns.cfg). `enqueue` unlocks, then
  `notify_one`s a condition variable on which both the background thread and `flush`
  sleep. The flush takes the wake-up, finds the queue non-empty and sleeps again.
* **`App::listen` can hang** (LogWriterListenReturns.cfg). `~LogWriter` requests stop and
  notifies without the mutex; both can fall between the background thread's test of
  its predicate and its sleep.
* **A `stop()` can be lost** (AsioExecutorStop.cfg). `run()` moves Configured →
  Running between the two compare-exchanges of `stop()`; both fail.
* **A queued frame can be stranded** (WebSocketSessionStranded.cfg). With two threads a
  frame is queued between the drain's last look at the queue and `sending_ = false`.
  `OneThreadStrandsNothing` shows that one thread excludes it.
* **`subscribe`/`unsubscribe` can relock** (TopicBusRelock.cfg). A weak pointer locked
  under the mutex may become the last reference; the destructor asks for the mutex.
* **Pipelined requests are lost** (MCHttpConnectionPipelined.cfg). What follows the end of
  a message in the same read is never fed to the parser.

Two more limits are visible in properties that hold. `GracefulDrain` excepts
coroutines inside `pool()`: with a CPU pool, `run()` returns without them.
`ResumesOnlySuspended` (`await_suspend` is never overtaken by the resumption it
published) is claimed for one I/O thread only, since with two the read loop can resume
the coroutine between the store of the handle and the second look at `closed_`.

Router's properties state what the code does where the guide reads differently. A wildcard
child takes the empty rest of a path, so with `/a` and `/a/{rest...}` registered a request
for `/a` goes to the wildcard route (`Ends`). Dispatch never goes back: with `/a/b` and
`/{x}/c`, `/a/c` is a 404, and a group prefix shadows a parameter route even when the
group is empty. The first registration names a parameter for all routes through its
position, and a group's parameters are not arguments of its routes' handlers:
`ArgumentsMatchPattern` therefore asks that names agree (`NamesAgree`). A `double` or
`unsigned` argument is read as an `int`. A parameter's type suffix is checked for its
spelling and otherwise unused. Routes registered below a wildcard group are never reached.
There is no way to register HEAD, so HEAD on a GET route is a 405.

Smaller observations made while modelling, which no property depends on:

* App: an `App::stop` that overlaps `Plugin::start` can reach `join` before the plugin's
  executor listens, and then waits for a runner nobody stops; a signal that finds the
  executor Idle is lost.
* Configuration: only the values of the file are validated, not those of the base.
* gRPC: entries of `streams_` are never erased while the session lives; `grpc.hpp` speaks of
  percent-encoding `grpc-message`, the code replaces line breaks by spaces.
* WebSocket: the frame parser accepts control frames longer than 125 bytes and lengths that
  are not minimal; only the first header line of a name is looked at in the handshake; what
  follows the upgrade request in the same read is lost; a middleware may replace the 101;
  data frames queued behind a Close frame are still written.
* Trace context: upper-case hex digits are accepted and turned into lower case.
* Response: two spellings of one header name give two lines on the wire.
* Executor: acceptors are closed on one I/O thread while another may start an accept.

## 6. Proofs

Every theorem holds for all values of the constants that satisfy the named assumptions of
the module it is about; TLC evaluates the same assumptions in the runs. No property is
inductive by itself: each proofs module defines an inductive invariant as a conjunction of
named parts, proves that it holds initially and that each action keeps each part, and
derives the properties from it. What a loop computes (a list in ascending order, a walk
down the trie, the bytes of a code) is a recursive function on `0..n`; lemmas about it are
proved by taking the least number at which they would fail.

| Module | Theorem | Statement |
|---|---|---|
| LogWriterProofs | `TypeCorrect` | `Spec => []TypeOK` |
| | `NoRecordUnaccounted` | `Spec => []Conservation` |
| | `QueueBounded` | `Spec => []CapacityBound` |
| | `FlushIsTruthful` | `Spec => []FlushSuccessMeansWritten` |
| | `DestructionIsSafe` | `Spec => []DestroyedOnlyUnused` |
| | `ShutdownLosesNothing` | `Spec => []ShutdownDrains` |
| | `NoUnexcusedSleep` | `Spec => []SleepIsExcused` |
| | `Refinement` | `Spec => ImplementsPipe` |
| AsioExecutorProofs | `ShutdownIsOrderly` | `Spec => []OrderlyShutdown` |
| | `ForwardOnly` | `Spec => LifecycleForward` |
| | `Refinement` | `Spec => ImplementsLifecycle` |
| TopicBusProofs | `TopicsAreSound` | `Spec => []SubscriptionsSound` |
| | `DeliveryIsSafe` | `Spec => []DeliversToLiving` |
| | `LiveSubscribersStay` | `Spec => LiveStays` |
| WebSocketSessionProofs | `WireIsOrderly` | `Spec => []WireDiscipline` |
| | `ResumesAreSafe` | `Spec => []ResumeSafety` |
| | `QueueIsSafe` | `Spec => []QueueSafety` |
| | `Base64RoundTrip` | decoding `base64_encode(d)` gives `d`, for every digest |
| | `FrameRoundTrip` | `parse_frame_detailed` reads every frame of `emit_frame` back |
| | `ConnectionInvariant` | `ConnectionSpec => []ConnInv` |
| | `FramesInOrder` | `ConnectionSpec => []FramesAsSent` |
| | `RepliesReadBack` | `ConnectionSpec => []RepliesReadable` |
| | `OneAnswer` | `ConnectionSpec => []OneHttpAnswer` |
| AppProofs | `LifetimesHold` | `Spec => []PluginLifetimes` |
| | `MethodsAreFrozen` | `Spec => MethodsFrozen` |
| | `ConfigIsAsWritten` | `Spec => []ConfigAsWritten` |
| | `PipelineInvariant` | `RouterSpec => []PipelineInv` |
| | `LayersInOrder` | `RouterSpec => []PipelineOrder` |
| | `RoutingInvariant` | `RouterSpec => []RoutingInv` |
| | `DispatchSound` | `RouterSpec => []RoutingSound` |
| | `ArgumentsOfPattern` | `RouterSpec => []ArgumentsMatchPattern` |
| WhenAllProofs | `AllOrExceptionHolds` | `Spec => []AllOrException` |
| | `FramesAreSafe` | `Spec => []FramesUsedSafely` |
| | `FirstExceptionIsKept` | `Spec => FirstExceptionKept` |
| HttpConnectionProofs | `AnswersSoundHolds` | `ASSUME ~Pipelined PROVE Spec => []AnswersSound` |
| | `TypeInvariance` | `Spec => []TypeInv` |
| | `ParseCorrect` | `parse_traceparent(v) # Invalid <=> IsTraceParent(v)`, and then `OwnTrace(v)` |
| | `StaticFilesInvariant` | `StaticSpec => []StaticInv` |
| | `OnlyBelowRoot` | `StaticSpec => []ServesRootOnly` |
| | `AnswersItsPrefix` | `StaticSpec => []HandlesItsPrefix` |
| | `MessagesFramed` | `StaticSpec => []MessageFramed` |
| GrpcSessionProofs | `EnvelopeRoundTrip` | what `encode_unary_message` accepts is decoded to itself |
| | `SessionInvariant` | `Spec => []IInv` |
| | `HandlerSees` | `Spec => []HandlerSeesRequest` |
| | `OrderedAnswers` | `Spec => []AnswerInOrder` |

`CapacityBound`, `DestroyedOnlyUnused` and `LifecycleForward` are stated by theorems only;
no run checks them.

**LogWriter** (assumption `ConstantsAssumption`: the numbers are naturals, the threads are
distinct, the null values are not threads or records). `IInv` adds what the code relies on
silently: who holds the mutex at which program point (`MutexInv`); that a thread in
a call holds a reference (`RefInv`) and which of `App::listen`'s references are alive at
which of its program points (`OwnerInv`), from which it follows that the destructor has
the writer for itself; that stop is requested only by the destructor (`StopInv`); what
`writing_` and the local record mean at each point of `run` (`RunInv`); that a record is
lost only once the stream has failed, for good (`StreamInv`), which is why a successful
flush implies that nothing was lost; and that a flush's mark is a lower bound of what
was accepted (`MarkInv`). The refinement needs `IInv` for the record in flight, plus
`SeqFacts` about taking the first record apart from the rest.

**AsioExecutor** (`ExecutorAssumption`: finite sets of threads, accept loops and
connections, at least one I/O thread, distinct names). The heart is `DrainedInv`: an
`io_context` that stopped by itself has finished its connections and nothing wakes it
again. It rests on where each connection is (`PlaceInv`), on the work guard holding until
`stop()` (`GuardInv`), and on how `state_`, the program point of `run()` and the I/O threads
belong together (`StateInv`, `ThreadInv`). `StopInv` says that one `stop()` at most arms the
drain; `DtorInv` that what the destructor joined stays joined.

**TopicBus** (`BusAssumption`: finitely many threads). `LockInv` ties `mutex_` to program
points; `RefInv` and `DeadInv` say that calls and snapshots own what they use and that a
session in its destructor has lost its last reference for good; `ScanInv`, `LookInv` and
`EraseInv` are the loop invariants of the scans in `subscribe`, `publish` and `unsubscribe`,
the last of which gives that a destroyed session is in no topic. A group of lemmas describes
what `std::erase_if` leaves of a vector by the places of the kept indices.

**WebSocketSession** (`SessionAssumption`: the numbers are positive or natural, the names of
callers differ from the parts' names). `BusyInv` says what executes; `SendInv` that
`sending_` is set exactly while a drain exists and that there is one; `OrderInv` and
`FreshInv` that along strand, queue, write and wire each sender's messages stay in order and
are older than the one about to be posted; `CloseInv` that the Close frame is in one place
only; `WaitInv` that the handle in the slot belongs to a coroutine nobody resumed;
`DrainInv`, for one thread, that nothing is queued between the last look at the queue and
the end of the drain.

**App** (`AppAssumption`, `PluginAssumption`, and `FilesAssumption`: a file is in one of four
conditions and an "int" of toml++ is an integer). `RunnerInv` relates a plugin's runner and
its executor; `ListInv` and `StartInv` say that the started plugins are a prefix of the
installed ones and exactly these have runners; `TodoInv` and `CleanInv` are the argument for
the end of `listen`: what the main thread has stopped stays stopped whatever other threads
do, since nobody starts a runner any more. `ConfigInv` reduces `ConfigAsWritten` to a lemma
about `load_toml_config`, whose parts are that the values it accepts are those that survive
the conversion to their field, and that the key it names is the least invalid one (by
well-foundedness of the naturals).

**WhenAll** (`WhenAllAssumption`: at least two sub-tasks, some I/O thread, bodies of the
three kinds of calls that end in one of two ways). `PlaceInv` lists the seven places a
sub-task can be in, by the frames of its driver, its task and the call the task awaits;
`ContInv` says which continuation each frame has there; `TokenInv` that a suspended call is
in the hands of exactly one of a posted function, a timer and a posted resumption;
`DataInv` what its outcome will be; `ChainInv` the same for the handler and `when_all`, and
that `when_all` is posted only when no driver is left; `PostInv` that the thread inside
`await_suspend` still has a driver to post, so that `when_all` cannot finish under it;
`StateInv` that `remaining` is the number of drivers left. Lemmas such as `SubStep`,
`ChainStep`, `RunMove` and `PostCo` say once what a step on one sub-task, on the chain, on a
thread and on a queue leaves alone.

**HttpConnection** (`HttpAssumption`: requests have a shape, a junk line has nothing after it,
a traceparent is one of the headers, header values are strings). A client that waits is a
hypothesis of `AnswersSoundHolds`, not of `TypeInvariance`: with pipelining the connection
drops requests (section 5) and the answers no longer match. `After` says what the parser's
fields are after the first n tokens of a request, and `Seen` computes n from what is still
in the buffer and the socket, so that the argument needs no history: `Unseen` says that
these hold the rest of the request in order, `Idle` that between requests nothing is left,
`Busy` what holds at each point of the loop in between. `AfterStep` is the lemma that one
callback of llhttp takes the parser from n to n + 1; `TokensAt` and `TokenAt` say which token
is where in a request. `ParseCorrect` is proved character by character from `FieldElements`
and `FieldTests`.

**Middleware pipeline and Router** (in AppProofs; `RouterAssumption`: tokens, patterns and
methods have their types, and no token is spelled like the two marks that stand for the
parameter and the wildcard edge). `PipelineInv` says that on the way down what was entered
and what is still to come are together the pipeline of the request's path, which gives
`PipelineOrder`. `RoutingInv` says that the positions of trie nodes are exactly the prefixes
of what was registered and that a node has, for each method, the handler registered last
(`RegInv`, kept by `ensure_child` and `insert`); and that an answer on its way up is what
dispatch returns over that trie. Dispatch is then a lemma about one trie: the walk takes at
each token the most specific edge (`WalkStep`), ends at a position that `Ends` describes
(`WalkEnds`), and no other position does (`WalkUnique`). `ArgumentInv` adds that the name
of a parameter node is one that a registration gave to its position and that a handler has
the names of its own pattern (`NamesInv`). `WalkCaptures` says that a walk captures exactly
what lies at the parameters on its way, under the names of their nodes; where the names
along the route agree, the name a handler looks up is captured at the parameter of its own
pattern and nowhere else (`ArgumentFound`).

**WebSocketConnection** (in WebSocketSessionProofs; `ConnectionAssumption`: frames have the
fields of a frame, and the digest of a key is bytes). `PositionOK` says that the bytes erased
from the accumulator are those of the frames handled so far, so that the accumulator starts
at the first frame that is not handled; it rests on `StartOf`, the sum of frame sizes, and on
lemmas about `parse_frame_detailed` for each of the three length forms. `WrittenOK` lists
what is on the wire: the HTTP answer, then one frame for each handled frame that is
answered, and a Close as the last. `PhaseOK` ties these to who owns the stream.

**Static files** (in HttpConnectionProofs; `StaticFilesAssumption`: names are texts, a link
leads to its canonical target, and links are neither made nor removed while a request is
served, so that `weakly_canonical` stays true of the path until it is read; `/` is no file;
a handler that sets Content-Length sets it in one spelling, to the length of its body, which
`serialize_response` does not check). `StaticInv`
says that from the resolution on the path is below the root and behind no link (`Below`),
whatever else of the file system changes between the calls, and that 200 is answered only
with such a path. `PrefixInv` carries the outcome of the prefix test to the answer;
`PrefixMatches` shows that comparing characters and looking for `/` or the end behind them
is comparing segments. `FrameInv` says where a response comes from: from the handler, from a
refusal without a length of its own, or from a file with a name, with the length of its body
unless only the head was asked for. What `serialize_response` makes of each is in
`GeneratedLine` and `OwnLine`; `OverrideIsExtension` shows that the extension, taken from the
last dot and in lower case, is the overridden one whenever the name ends with it.

**GrpcSession** (`SessionAssumption` and `MessageAssumption`: requests and results are fields
and bytes, and the largest message has a length below 2^32). The last is what the envelope's
length field needs; the plugin does not check it of the configured limit. `StreamOK` is the
invariant of one stream: its state holds what its headers said (`ReadOK`) and the bytes sent
so far unless they pass the limit (`BodyOK`); nothing goes out before the answer is decided
(`UnansweredOK`); the answer decided is the one the request calls for (`AnsweredOK`); and the
wire has the part of it that `on_data_read` has handed over (`WireOK`). `CurrentOK` and
`CallsOK` say that the handler awaited belongs to a stream without an answer and that a
handler is called once per stream.

Only model-checked: the liveness properties, since fairness and ENABLED are beyond the
prover. They are `RecordsAreProcessed`, `DrainTerminates`, `SessionProgress`, `AllAnswered`,
`StopEndsServer`, `Answered`, `OuterIsResumed` and `EveryFrameHandled`.

## 7. Not modelled

* Weak memory effects beyond the interleaving of atomic operations; TLS; the operating
  system's sockets beyond "completes, fails, or stays pending".
* External libraries, modelled by how the code uses them: Asio, llhttp, nghttp2, toml++,
  SHA-1, the file system. JSON is left out altogether: a thin layer over its library.
* Text: record layout, error messages, log lines, request ids, the wording of responses.
* Request's accessors, query parsing, JSON bodies and the ownership of its `Impl`: values
  that do not change over time.
* Error-code mapping of TcpStream; the read chunk limit (reads return any prefix instead).
* Static files: symbolic links stay as they are during one request. A link exchanged
  between resolution and open is outside the model.
* gRPC: trailers of the client (HEADERS after DATA); connection-level flow control.
* Router: a name is one piece, so names that themselves contain a colon or an ellipsis are
  not spelled out; moved-from routers.
* The saturation of the drop counter at 2^64-1 is out of reach of any bounded number of
  calls.
