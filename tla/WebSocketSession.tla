-------------------------- MODULE WebSocketSession --------------------------
(***************************************************************************)
(* One WebSocket session (src/net/websocket_session.cpp): callers that send  *)
(* and close, the strand, the coroutine that drains the send queue, the read *)
(* loop, and the connection coroutine parked in wait_for_close().            *)
(*                                                                           *)
(* All of it runs on the executor's I/O threads.  busy is the set of parts   *)
(* that are executing on a thread; at most numThreads are at a time.  A part *)
(* that waits for an asynchronous operation is not busy and is resumed by    *)
(* tl_post_to_io on any thread.  In particular a drain that was started on   *)
(* the strand is resumed OFF the strand: only the lambdas posted to strand_  *)
(* are serialized with one another.                                          *)
(***************************************************************************)
EXTENDS Naturals, Sequences, FiniteSets

CONSTANTS Callers,     \* tasks that call send(), close(), or publish to the session
          Threads,     \* the values of ExecutorConfig::thread_count considered
          Depth,       \* kMaxSendQueueDepth
          MaxOps,      \* bound: calls of one caller
          MaxReads     \* bound: frames the peer sends

ASSUME SessionAssumption ==
    /\ Threads \subseteq Nat \ {0} /\ Depth \in Nat \ {0}
    /\ MaxOps \in Nat /\ MaxReads \in Nat
    /\ Callers \cap {"on_message", "reader", "none"} = {}

Drains == {"drain1", "drain2"}  \* a second drain must never exist: see WritesNeverOverlap
Parts  == {"strand", "reader", "waiter"} \cup Drains
Items  == {"data", "ping", "other", "close", "bad", "eof"}  \* what a read can yield

VARIABLES
    numThreads, \* ExecutorConfig::thread_count; never changes
    closed,     \* closed_
    closeSent,  \* close_sent_
    queue,      \* send_queue_
    sending,    \* sending_
    strandQ,    \* lambdas posted to strand_ and not yet run
    kick,       \* the running lambda has queued its frame and not yet tested sending_
    drain,      \* per drain coroutine: where it is
    inFlight,   \* per drain coroutine: the frame it is writing
    wire,       \* frames written to the socket
    reader,     \* the read loop
    item,       \* the frame (or end) the read loop is working on
    reads,      \* frames received so far
    waiter,     \* the connection coroutine: App::ws handler and wait_for_close()
    slot,       \* close_waiter_addr_ is set
    resumes,    \* times the connection coroutine has left wait_for_close()
    onClose,    \* calls of on_close
    callerPc,   \* per caller
    ops,        \* calls made by each caller
    busy        \* parts executing on an I/O thread

vars == <<closed, closeSent, queue, sending, strandQ, kick, drain, inFlight, wire, reader,
          item, reads, waiter, slot, resumes, onClose, callerPc, ops, busy, numThreads>>

sendVars   == <<queue, sending, kick, drain, inFlight, wire>>
readVars   == <<reader, item, reads, onClose>>
waitVars   == <<waiter, slot, resumes>>
callerVars == <<callerPc, ops>>

Frame(kind, from, n) == [kind |-> kind, from |-> from, n |-> n]
NoFrame == Frame("none", "none", 0)

Init ==
    /\ numThreads \in Threads
    /\ closed = FALSE /\ closeSent = FALSE
    /\ queue = <<>> /\ sending = FALSE /\ strandQ = <<>> /\ kick = FALSE
    /\ drain = [d \in Drains |-> "none"] /\ inFlight = [d \in Drains |-> NoFrame]
    /\ wire = <<>>
    /\ reader = "none" /\ item = "other" /\ reads = 0
    /\ waiter = "open" /\ slot = FALSE /\ resumes = 0 /\ onClose = 0
    /\ callerPc = [c \in Callers |-> "idle"] /\ ops = [c \in Callers |-> 0]
    /\ busy = {}

Enter(p)    == p \notin busy /\ Cardinality(busy) < numThreads /\ busy' = busy \cup {p}
Leave(p)    == busy' = busy \ {p}
Post(via, f) == strandQ' = Append(strandQ, [via |-> via, frame |-> f])

-----------------------------------------------------------------------------
(* The callers: send_text and send_binary, send_from_bus, close_graceful.    *)
(* Each looks at closed_ first; the post to the strand comes later.          *)

Call(c, op) ==
    /\ callerPc[c] = "idle" /\ ops[c] < MaxOps
    /\ ops' = [ops EXCEPT ![c] = @ + 1]
    /\ callerPc' = [callerPc EXCEPT ![c] = IF closed THEN "idle" ELSE op]
    /\ UNCHANGED <<numThreads, closed, closeSent, sendVars, strandQ, readVars, waitVars,
                   busy>>

SendPost(c) ==
    /\ callerPc[c] \in {"send", "bus"}
    /\ Post(callerPc[c], Frame("data", c, ops[c]))
    /\ callerPc' = [callerPc EXCEPT ![c] = "idle"]
    /\ UNCHANGED <<numThreads, closed, closeSent, sendVars, readVars, waitVars, ops,
                   busy>>

(* Mutant: close_graceful sends its frame whoever was first. *)
CloseCas_Always(c) ==
    /\ callerPc[c] = "close"
    /\ closeSent' = TRUE
    /\ callerPc' = [callerPc EXCEPT ![c] = "post_close"]
    /\ UNCHANGED <<numThreads, closed, sendVars, strandQ, readVars, waitVars, ops, busy>>

CloseCas(c) ==
    /\ callerPc[c] = "close"
    /\ closeSent' = TRUE
    /\ callerPc' = [callerPc EXCEPT ![c] = IF closeSent THEN "idle" ELSE "post_close"]
    /\ UNCHANGED <<numThreads, closed, sendVars, strandQ, readVars, waitVars, ops, busy>>

ClosePost(c) ==
    /\ callerPc[c] = "post_close"
    /\ Post("priority", Frame("close", c, ops[c]))
    /\ callerPc' = [callerPc EXCEPT ![c] = "idle"]
    /\ UNCHANGED <<numThreads, closed, closeSent, sendVars, readVars, waitVars, ops,
                   busy>>

-----------------------------------------------------------------------------
(* The strand: one posted lambda at a time. *)

(* Mutant: the depth limit is off by one. *)
Dropped_OffByOne(job) ==
    \/ job.via = "bus" /\ closed
    \/ job.via # "priority" /\ Len(queue) > Depth

(* The lambda's early returns: a bus message for a closed session, a full    *)
(* queue; control frames bypass the limit.                                   *)
Dropped(job) ==
    \/ job.via = "bus" /\ closed
    \/ job.via # "priority" /\ Len(queue) >= Depth

Queued(job) == IF job.via = "priority" THEN <<job.frame>> \o queue
                                       ELSE Append(queue, job.frame)

StrandLambda ==
    /\ strandQ # <<>> /\ "strand" \notin busy
    /\ strandQ' = Tail(strandQ)
    /\ \/ /\ Dropped(Head(strandQ))
          /\ Cardinality(busy) < numThreads
          /\ UNCHANGED <<queue, kick, busy>>
       \/ /\ ~Dropped(Head(strandQ))
          /\ Enter("strand")
          /\ queue' = Queued(Head(strandQ))
          /\ kick' = TRUE
    /\ UNCHANGED <<numThreads, closed, closeSent, sending, drain, inFlight, wire,
                   readVars, waitVars, callerVars>>

(* Mutant: the lambda starts a drain without testing sending_. *)
StrandKick_Blind ==
    /\ kick /\ kick' = FALSE
    /\ Leave("strand")
    /\ IF queue = <<>>
       THEN UNCHANGED <<queue, sending, drain, inFlight>>
       ELSE \E d \in {e \in Drains : drain[e] = "none"} :
            /\ sending' = TRUE
            /\ drain' = [drain EXCEPT ![d] = "writing"]
            /\ inFlight' = [inFlight EXCEPT ![d] = Head(queue)]
            /\ queue' = Tail(queue)
    /\ UNCHANGED <<numThreads, closed, closeSent, wire, strandQ, readVars, waitVars,
                   callerVars>>

(* Mutant: the lambda leaves starting the drain to the next send. *)
StrandKick_Missing ==
    /\ kick /\ kick' = FALSE
    /\ Leave("strand")
    /\ UNCHANGED <<numThreads, closed, closeSent, queue, sending, drain, inFlight, wire,
                   strandQ, readVars, waitVars, callerVars>>

(* The test of sending_; the first segment of ff_drain_queue runs inside the *)
(* lambda, up to its first co_await.                                         *)
StrandKick ==
    /\ kick /\ kick' = FALSE
    /\ Leave("strand")
    /\ IF sending \/ queue = <<>>
       THEN UNCHANGED <<queue, sending, drain, inFlight>>
       ELSE \E d \in {e \in Drains : drain[e] = "none"} :
            /\ sending' = TRUE
            /\ drain' = [drain EXCEPT ![d] = "writing"]
            /\ inFlight' = [inFlight EXCEPT ![d] = Head(queue)]
            /\ queue' = Tail(queue)
    /\ UNCHANGED <<numThreads, closed, closeSent, wire, strandQ, readVars, waitVars,
                   callerVars>>

-----------------------------------------------------------------------------
(* drain_send_queue, resumed on any I/O thread when a write completes. *)

WriteCompletes(d) ==
    /\ drain[d] = "writing"
    /\ \/ /\ drain' = [drain EXCEPT ![d] = "ok"]
          /\ wire' = Append(wire, inFlight[d])
       \/ /\ drain' = [drain EXCEPT ![d] = "error"]
          /\ UNCHANGED wire
    /\ UNCHANGED <<numThreads, closed, closeSent, queue, sending, kick, inFlight, strandQ,
                   readVars, waitVars, callerVars, busy>>

DrainResume(d) ==
    /\ drain[d] \in {"ok", "error"}
    /\ Enter(d)
    /\ drain' = [drain EXCEPT ![d] = IF @ = "ok" THEN "test" ELSE "fail"]
    /\ inFlight' = [inFlight EXCEPT ![d] = NoFrame]
    /\ UNCHANGED <<numThreads, closed, closeSent, queue, sending, kick, wire, strandQ,
                   readVars, waitVars, callerVars>>

(* Mutant: sending_ is reset before the write instead of after the loop. *)
DrainTest_EarlyReset(d) ==
    /\ drain[d] = "test"
    /\ IF queue = <<>>
       THEN /\ drain' = [drain EXCEPT ![d] = "reset"]
            /\ UNCHANGED <<queue, sending, inFlight, busy>>
       ELSE /\ drain' = [drain EXCEPT ![d] = "writing"]
            /\ sending' = FALSE
            /\ inFlight' = [inFlight EXCEPT ![d] = Head(queue)]
            /\ queue' = Tail(queue)
            /\ Leave(d)
    /\ UNCHANGED <<numThreads, closed, closeSent, kick, wire, strandQ, readVars, waitVars,
                   callerVars>>

DrainTest(d) ==
    /\ drain[d] = "test"
    /\ IF queue = <<>>
       THEN /\ drain' = [drain EXCEPT ![d] = "reset"]
            /\ UNCHANGED <<queue, inFlight, busy>>
       ELSE /\ drain' = [drain EXCEPT ![d] = "writing"]
            /\ inFlight' = [inFlight EXCEPT ![d] = Head(queue)]
            /\ queue' = Tail(queue)
            /\ Leave(d)
    /\ UNCHANGED <<numThreads, closed, closeSent, sending, kick, wire, strandQ, readVars,
                   waitVars, callerVars>>

DrainFail(d) ==
    /\ drain[d] = "fail"
    /\ closed' = TRUE
    /\ queue' = <<>>
    /\ drain' = [drain EXCEPT ![d] = "reset"]
    /\ UNCHANGED <<numThreads, closeSent, sending, kick, inFlight, wire, strandQ,
                   readVars, waitVars, callerVars, busy>>

(* Mutant: the drain ends without resetting sending_. *)
DrainReset_Forgets(d) ==
    /\ drain[d] = "reset"
    /\ drain' = [drain EXCEPT ![d] = "none"]
    /\ Leave(d)
    /\ UNCHANGED <<numThreads, closed, closeSent, queue, sending, kick, inFlight, wire,
                   strandQ, readVars, waitVars, callerVars>>

DrainReset(d) ==
    /\ drain[d] = "reset"
    /\ sending' = FALSE
    /\ drain' = [drain EXCEPT ![d] = "none"]
    /\ Leave(d)
    /\ UNCHANGED <<numThreads, closed, closeSent, queue, kick, inFlight, wire, strandQ,
                   readVars, waitVars, callerVars>>

-----------------------------------------------------------------------------
(* do_read_loop.  One chunk may hold several frames, handled without a       *)
(* suspension between them, or the loop reads again after each.              *)

Receive(i) ==
    /\ reads < MaxReads \/ i = "eof"
    /\ item' = i
    /\ reads' = IF i = "eof" THEN reads ELSE reads + 1

ReadStart ==
    /\ reader = "posted"
    /\ Cardinality(busy) < numThreads
    /\ reader' = "reading"
    /\ UNCHANGED <<numThreads, closed, closeSent, sendVars, strandQ, item, reads, onClose,
                   waitVars, callerVars, busy>>

ReadCompletes(i) ==
    /\ reader = "reading"
    /\ Receive(i)
    /\ reader' = "ready"
    /\ UNCHANGED <<numThreads, closed, closeSent, sendVars, strandQ, onClose, waitVars,
                   callerVars, busy>>

ReaderResume ==
    /\ reader = "ready"
    /\ Enter("reader")
    /\ reader' = "handle"
    /\ UNCHANGED <<numThreads, closed, closeSent, sendVars, strandQ, item, reads, onClose,
                   waitVars, callerVars>>

(* Text and Binary: on_message, which may answer with send_nowait.  Ping is  *)
(* answered by a Pong; a Pong or an incomplete frame changes nothing.        *)
HandleFrame ==
    /\ reader = "handle"
    /\ item \in {"data", "ping", "other"}
    /\ \/ item = "data" /\ ~closed /\ Post("send", Frame("data", "on_message", reads))
       \/ item = "ping" /\ Post("priority", Frame("pong", "reader", reads))
       \/ item # "ping" /\ UNCHANGED strandQ
    /\ reader' = "next"
    /\ UNCHANGED <<numThreads, closed, closeSent, sendVars, item, reads, onClose,
                   waitVars, callerVars, busy>>

NextFrame ==
    /\ reader = "next"
    /\ \/ /\ \E i \in Items \ {"eof"} : Receive(i)
          /\ reader' = "handle"
          /\ UNCHANGED busy
       \/ /\ reader' = "reading"
          /\ Leave("reader")
          /\ UNCHANGED <<item, reads>>
    /\ UNCHANGED <<numThreads, closed, closeSent, sendVars, strandQ, onClose, waitVars,
                   callerVars>>

(* A Close frame or a frame that does not parse: compare-exchange of         *)
(* close_sent_; the winner sends a Close frame.                              *)
HandleEnd ==
    /\ reader = "handle"
    /\ \/ /\ item \in {"close", "bad"}
          /\ closeSent' = TRUE
          /\ reader' = IF closeSent THEN "closing" ELSE "post_close"
       \/ /\ item = "eof"
          /\ reader' = "closing"
          /\ UNCHANGED closeSent
    /\ UNCHANGED <<numThreads, closed, sendVars, strandQ, item, reads, onClose, waitVars,
                   callerVars, busy>>

ReaderPostClose ==
    /\ reader = "post_close"
    /\ Post("priority", Frame("close", "reader", reads))
    /\ reader' = "closing"
    /\ UNCHANGED <<numThreads, closed, closeSent, sendVars, item, reads, onClose,
                   waitVars, callerVars, busy>>

CloseSession ==
    /\ reader = "closing"
    /\ closed' = TRUE
    /\ reader' = IF item = "close" THEN "on_close" ELSE "finish"
    /\ UNCHANGED <<numThreads, closeSent, sendVars, strandQ, item, reads, onClose,
                   waitVars, callerVars, busy>>

OnClose ==
    /\ reader = "on_close"
    /\ onClose' = onClose + 1
    /\ reader' = "finish"
    /\ UNCHANGED <<numThreads, closed, closeSent, sendVars, strandQ, item, reads,
                   waitVars, callerVars, busy>>

(* Mutant: the end of the loop calls on_close again. *)
FinishRead_OnClose ==
    /\ reader = "finish"
    /\ slot' = FALSE
    /\ resumes' = IF slot THEN resumes + 1 ELSE resumes
    /\ reader' = "ended"
    /\ onClose' = onClose + 1
    /\ Leave("reader")
    /\ UNCHANGED <<numThreads, closed, closeSent, sendVars, strandQ, item, reads, waiter,
                   callerVars>>

(* Take the waiter's handle out of close_waiter_addr_ and resume it here.    *)
FinishRead ==
    /\ reader = "finish"
    /\ slot' = FALSE
    /\ resumes' = IF slot THEN resumes + 1 ELSE resumes
    /\ reader' = "ended"
    /\ Leave("reader")
    /\ UNCHANGED <<numThreads, closed, closeSent, sendVars, strandQ, item, reads, onClose,
                   waiter, callerVars>>

-----------------------------------------------------------------------------
(* The connection coroutine: on_open, start_read_loop, wait_for_close.       *)

WaiterOpen ==
    /\ waiter = "open"
    /\ Enter("waiter")
    /\ reader' = "posted"
    /\ waiter' = "test"
    /\ UNCHANGED <<numThreads, closed, closeSent, sendVars, strandQ, item, reads, onClose,
                   slot, resumes, callerVars>>

(* closed_ before suspending: wait_for_close returns without waiting. *)
WaiterTest ==
    /\ waiter = "test"
    /\ IF closed
       THEN waiter' = "out" /\ resumes' = resumes + 1 /\ Leave("waiter")
       ELSE waiter' = "store" /\ UNCHANGED <<resumes, busy>>
    /\ UNCHANGED <<numThreads, closed, closeSent, sendVars, strandQ, readVars, slot,
                   callerVars>>

(* Mutant: await_suspend posts its second look at closed_ to the executor. *)
WaiterStore_Posted ==
    /\ waiter = "store"
    /\ slot' = TRUE
    /\ waiter' = "check"
    /\ Leave("waiter")
    /\ UNCHANGED <<numThreads, closed, closeSent, sendVars, strandQ, readVars, resumes,
                   callerVars>>

WaiterStore ==
    /\ waiter = "store"
    /\ slot' = TRUE
    /\ waiter' = "check"
    /\ UNCHANGED <<numThreads, closed, closeSent, sendVars, strandQ, readVars, resumes,
                   callerVars, busy>>

(* Mutant: await_suspend does not look at closed_ again. *)
WaiterCheck_Once ==
    /\ waiter = "check"
    /\ waiter' = "out" /\ Leave("waiter")
    /\ UNCHANGED <<numThreads, closed, closeSent, sendVars, strandQ, readVars, slot,
                   resumes, callerVars>>

WaiterCheck ==
    /\ waiter = "check"
    /\ IF closed
       THEN waiter' = "claim" /\ UNCHANGED busy
       ELSE waiter' = "out" /\ Leave("waiter")
    /\ UNCHANGED <<numThreads, closed, closeSent, sendVars, strandQ, readVars, slot,
                   resumes, callerVars>>

(* Mutant: the waiter resumes itself without claiming its handle. *)
WaiterClaim_Blind ==
    /\ waiter = "claim"
    /\ resumes' = resumes + 1
    /\ waiter' = "out" /\ Leave("waiter")
    /\ UNCHANGED <<numThreads, closed, closeSent, sendVars, strandQ, readVars, slot,
                   callerVars>>

(* try_claim_waiter: resume here if the handle is still in the slot.         *)
WaiterClaim ==
    /\ waiter = "claim"
    /\ slot' = FALSE
    /\ resumes' = IF slot THEN resumes + 1 ELSE resumes
    /\ waiter' = "out" /\ Leave("waiter")
    /\ UNCHANGED <<numThreads, closed, closeSent, sendVars, strandQ, readVars,
                   callerVars>>

-----------------------------------------------------------------------------

CallerStep(c) == SendPost(c) \/ CloseCas(c) \/ ClosePost(c)
StrandStep    == StrandLambda \/ StrandKick
DrainStep(d)  == DrainResume(d) \/ DrainTest(d) \/ DrainFail(d) \/ DrainReset(d)
ReaderStep    == \/ ReadStart \/ ReaderResume \/ HandleFrame \/ NextFrame \/ HandleEnd
                 \/ ReaderPostClose \/ CloseSession \/ OnClose \/ FinishRead
WaiterStep    == WaiterOpen \/ WaiterTest \/ WaiterStore \/ WaiterCheck \/ WaiterClaim

Next ==
    \/ \E c \in Callers : CallerStep(c) \/ \E op \in {"send", "bus", "close"} : Call(c, op)
    \/ StrandStep
    \/ \E d \in Drains : DrainStep(d) \/ WriteCompletes(d)
    \/ ReaderStep \/ \E i \in Items : ReadCompletes(i)
    \/ WaiterStep

Spec == Init /\ [][Next]_vars

(* The executor runs every posted handler (its queue is a FIFO, and callers  *)
(* and the peer do finitely many things here); a write completes or fails.   *)
(* Nobody has to call, and the peer may stay silent forever.                 *)
Fairness ==
    /\ \A c \in Callers : WF_vars(CallerStep(c))
    /\ WF_vars(StrandStep) /\ WF_vars(ReaderStep) /\ WF_vars(WaiterStep)
    /\ \A d \in Drains : WF_vars(DrainStep(d)) /\ WF_vars(WriteCompletes(d))

FairSpec == Spec /\ Fairness

-----------------------------------------------------------------------------
(* Properties. *)

Frames == [kind : {"data", "pong", "close"}, from : Callers \cup {"on_message", "reader"},
           n : Nat]
Jobs   == [via : {"send", "bus", "priority"}, frame : Frames]

FlagTypeOK ==
    /\ closed \in BOOLEAN /\ closeSent \in BOOLEAN
    /\ sending \in BOOLEAN /\ kick \in BOOLEAN /\ slot \in BOOLEAN

SendTypeOK ==
    /\ queue \in Seq(Frames) /\ wire \in Seq(Frames) /\ strandQ \in Seq(Jobs)
    /\ drain \in [Drains -> {"none", "writing", "ok", "error", "test", "fail", "reset"}]
    /\ inFlight \in [Drains -> Frames \cup {NoFrame}]

PartTypeOK ==
    /\ reader \in {"none", "posted", "reading", "ready", "handle", "next", "post_close",
                   "closing", "on_close", "finish", "ended"}
    /\ item \in Items /\ reads \in 0..MaxReads
    /\ waiter \in {"open", "test", "store", "check", "claim", "out"}
    /\ resumes \in 0..2 /\ onClose \in 0..1
    /\ callerPc \in [Callers -> {"idle", "send", "bus", "close", "post_close"}]
    /\ ops \in [Callers -> 0..MaxOps]
    /\ numThreads \in Threads /\ busy \subseteq Parts

(* Every variable has its type; on_close is called at most once; no more     *)
(* parts execute than there are threads.                                     *)
TypeOK == FlagTypeOK /\ SendTypeOK /\ PartTypeOK /\ Cardinality(busy) <= numThreads

(* At most one drain coroutine exists, so two writes to the socket never     *)
(* overlap although drains are resumed off the strand.                       *)
WritesNeverOverlap == Cardinality({d \in Drains : drain[d] # "none"}) <= 1

(* Whatever mixture of close() calls, Close frames and protocol errors, the  *)
(* session sends one Close frame at most.                                    *)
OneCloseFrame ==
    LET IsClose(f) == f.kind = "close"
        In(s) == {k \in 1..Len(s) : IsClose(s[k])}
    IN  Cardinality(In(wire)) + Cardinality(In(queue))
          + Cardinality({k \in 1..Len(strandQ) : IsClose(strandQ[k].frame)})
          + Cardinality({d \in Drains : drain[d] = "writing" /\ IsClose(inFlight[d])}) <= 1

(* The depth limit bounds the data frames waiting, also when bus messages,   *)
(* sends and control frames mix.                                             *)
DataBounded == Cardinality({k \in 1..Len(queue) : queue[k].kind = "data"}) <= Depth

(* Data frames of one sender reach the wire in the order it sent them, with  *)
(* gaps where frames were dropped.                                           *)
SenderOrder ==
    \A j, k \in 1..Len(wire) :
        (j < k /\ wire[j].kind = "data" /\ wire[k].kind = "data" /\ wire[j].from = wire[k].from)
            => wire[j].n < wire[k].n

(* The read loop and the double check in await_suspend never both resume     *)
(* the connection coroutine.                                                 *)
ResumedOnce == resumes <= 1

(* An open session whose sending_ is FALSE has nothing left to send, unless  *)
(* a lambda on the strand is about to start the drain.                       *)
NoStrandedFrame == (~closed /\ ~sending /\ ~kick) => queue = <<>>

(* With one I/O thread the drain's last look at the queue and its reset of   *)
(* sending_ cannot be separated by a lambda: no frame is left behind.        *)
OneThreadStrandsNothing == numThreads = 1 => NoStrandedFrame

(* src/net/websocket_session.cpp on FinishRead: "if non-null, the connection *)
(* coroutine is suspended and we resume it": it is never resumed while its   *)
(* await_suspend is still running (and still using the awaitable).  Holds    *)
(* with one I/O thread.                                                      *)
ResumesOnlySuspended == numThreads = 1 /\ resumes > 0 => waiter \notin {"check", "claim"}

(* When the read loop has ended, the connection coroutine leaves             *)
(* wait_for_close().                                                         *)
WaiterWakes == (reader = "ended") ~> (resumes > 0)

(* With one I/O thread, whatever is queued is written, or thrown away by a   *)
(* write error.                                                              *)
QueueDrains == (numThreads = 1 /\ queue # <<>>) ~> (queue = <<>>)

(* What the peer sees on the wire: whole frames, one Close frame at most, and  *)
(* each sender's messages in order, whoever sends, closes or answers meanwhile. *)
WireDiscipline == TypeOK /\ WritesNeverOverlap /\ OneCloseFrame /\ SenderOrder

(* The connection coroutine is resumed once, and with one thread only when it  *)
(* is fully suspended.                                                         *)
ResumeSafety == ResumedOnce /\ ResumesOnlySuspended

(* The send queue stays within its limit for data, and with one thread what is *)
(* in it has a drain.                                                          *)
QueueSafety == DataBounded /\ OneThreadStrandsNothing

(* The session makes progress: the coroutine that waits for the close wakes    *)
(* when the read loop has ended, and with one thread the queue is drained.     *)
SessionProgress == WaiterWakes /\ QueueDrains
=============================================================================
