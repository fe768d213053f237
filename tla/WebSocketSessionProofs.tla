----------------------- MODULE WebSocketSessionProofs -----------------------
(***************************************************************************)
(* TLAPS proofs about WebSocketSession, for any set of callers, any thread   *)
(* counts and any queue depth, and about WebSocketConnection, the connection *)
(* below it, for any requests, any streams of frames and any payload limit.  *)
(***************************************************************************)
EXTENDS WebSocketSession, WebSocketConnection, FiniteSetTheorems, WellFoundedInduction, TLAPS

OnThread == {"handle", "next", "post_close", "closing", "on_close", "finish"}

(* busy is what executes: each part is in it at the program points between   *)
(* two suspensions.                                                          *)
BusyInv ==
    /\ kick <=> "strand" \in busy
    /\ \A d \in Drains : d \in busy <=> drain[d] \in {"test", "fail", "reset"}
    /\ "reader" \in busy <=> reader \in OnThread
    /\ "waiter" \in busy <=> waiter \in {"test", "store", "check", "claim"}
    /\ waiter = "open" <=> reader = "none"

(* sending_ is set exactly while a drain exists, and there is one at most.   *)
SendInv ==
    /\ sending <=> \E d \in Drains : drain[d] # "none"
    /\ \A d, e \in Drains : drain[d] # "none" /\ drain[e] # "none" => d = e

(* The handle in the slot is that of a coroutine nobody has resumed; with    *)
(* one thread nobody resumes it before it is out of await_suspend.           *)
WaitInv ==
    /\ waiter \in {"open", "test", "store"} => ~slot /\ resumes = 0
    /\ slot => resumes = 0
    /\ resumes <= 1
    /\ numThreads = 1 /\ resumes > 0 => waiter = "out"
    /\ onClose > 0 => reader \in {"finish", "ended"}

(* With one thread nothing is queued between the drain's last look at the    *)
(* queue and the end of the drain.                                           *)
DrainInv ==
    numThreads = 1 =>
        /\ (\E d \in Drains : drain[d] = "reset") => queue = <<>>
        /\ ~sending /\ ~kick => queue = <<>>

(* Control frames carry no data, and messages come from a caller or from     *)
(* on_message.                                                               *)
KindInv ==
    /\ \A k \in 1..Len(strandQ) : (strandQ[k].frame.kind = "data") <=> (strandQ[k].via # "priority")
    /\ \A d \in Drains : drain[d] = "writing" => inFlight[d] \in Frames

Before(f, g) == f.kind = "data" /\ g.kind = "data" /\ f.from = g.from => f.n < g.n
Sorted(s)    == \A j, k \in 1..Len(s) : j < k => Before(s[j], s[k])
Writing      == {d \in Drains : drain[d] = "writing"}

(* The places a frame passes, strand, queue, write, wire, hold each sender's *)
(* messages in order, and no message is behind a later one.                  *)
OrderInv ==
    /\ Sorted(wire) /\ Sorted(queue)
    /\ \A j, k \in 1..Len(strandQ) : j < k => Before(strandQ[j].frame, strandQ[k].frame)
    /\ \A j \in 1..Len(wire) : \A k \in 1..Len(queue) : Before(wire[j], queue[k])
    /\ \A j \in 1..Len(wire) : \A k \in 1..Len(strandQ) : Before(wire[j], strandQ[k].frame)
    /\ \A j \in 1..Len(queue) : \A k \in 1..Len(strandQ) : Before(queue[j], strandQ[k].frame)
    /\ \A d \in Writing :
        /\ \A j \in 1..Len(wire) : Before(wire[j], inFlight[d])
        /\ \A k \in 1..Len(queue) : Before(inFlight[d], queue[k])
        /\ \A k \in 1..Len(strandQ) : Before(inFlight[d], strandQ[k].frame)

(* Frames on their way. *)
Pipe == {wire[k] : k \in 1..Len(wire)} \cup {queue[k] : k \in 1..Len(queue)}
          \cup {strandQ[k].frame : k \in 1..Len(strandQ)} \cup {inFlight[d] : d \in Writing}

(* A message on its way is older than the one its sender is about to post.   *)
Older(f) ==
    /\ f.from \in Callers =>
           /\ f.n <= ops[f.from]
           /\ callerPc[f.from] \in {"send", "bus"} => f.n < ops[f.from]
    /\ f.from = "on_message" =>
           /\ f.n <= reads
           /\ reader \in {"ready", "handle"} /\ item # "eof" => f.n < reads
    /\ f.from \in Callers \cup {"on_message"}
FreshInv == \A f \in Pipe : f.kind = "data" => Older(f)

(* The Close frame: nobody has made it, or it is in one place and one only,  *)
(* in the hands of whoever won the compare-exchange or on its way.           *)
AtMostOne(S) == \A x, y \in S : x = y
InWire   == {k \in 1..Len(wire) : wire[k].kind = "close"}
InQueue  == {k \in 1..Len(queue) : queue[k].kind = "close"}
InStrand == {k \in 1..Len(strandQ) : strandQ[k].frame.kind = "close"}
InWrite  == {d \in Drains : drain[d] = "writing" /\ inFlight[d].kind = "close"}
InHand   == {c \in Callers : callerPc[c] = "post_close"} \cup {r \in {"reader"} : reader = "post_close"}

CloseInv ==
    /\ AtMostOne(InWire) /\ AtMostOne(InQueue) /\ AtMostOne(InStrand) /\ AtMostOne(InHand)
    /\ InWire # {} => InQueue = {} /\ InStrand = {} /\ InWrite = {} /\ InHand = {}
    /\ InQueue # {} => InStrand = {} /\ InWrite = {} /\ InHand = {}
    /\ InStrand # {} => InWrite = {} /\ InHand = {}
    /\ InWrite # {} => InHand = {}
    /\ ~closeSent => InWire = {} /\ InQueue = {} /\ InStrand = {} /\ InWrite = {} /\ InHand = {}

(* The inductive invariant. *)
IInv ==
    /\ TypeOK
    /\ BusyInv
    /\ SendInv
    /\ WaitInv
    /\ DrainInv
    /\ KindInv
    /\ OrderInv
    /\ FreshInv
    /\ CloseInv
    /\ DataBounded

USE DEF sendVars, readVars, waitVars, callerVars

-----------------------------------------------------------------------------

(* The initial state satisfies the inductive invariant. *)
LEMMA InitInv == Init => IInv
  <1> SUFFICES ASSUME Init PROVE IInv
    OBVIOUS
  <1> USE SessionAssumption DEF Init
  <1>1. FlagTypeOK
    BY DEF FlagTypeOK
  <1>2. SendTypeOK /\ PartTypeOK
    BY DEF SendTypeOK, PartTypeOK, Items
  <1>3. Cardinality(busy) <= numThreads
    BY FS_EmptySet
  <1>4. BusyInv /\ SendInv /\ WaitInv /\ DrainInv /\ KindInv
    BY DEF BusyInv, SendInv, WaitInv, DrainInv, KindInv, OnThread
  <1>5. OrderInv /\ FreshInv
    BY DEF OrderInv, FreshInv, Pipe, Writing, Sorted
  <1>6. CloseInv
    BY DEF CloseInv, AtMostOne, InWire, InQueue, InStrand, InWrite, InHand
  <1>7. DataBounded
    <2>1. {k \in 1..Len(queue) : queue[k].kind = "data"} = {}
      OBVIOUS
    <2> QED
      BY <2>1, FS_EmptySet DEF DataBounded
  <1> QED
    BY <1>1, <1>2, <1>3, <1>4, <1>5, <1>6, <1>7 DEF IInv, TypeOK

(* The parts that can execute are finitely many. *)
LEMMA PartsFinite == IsFiniteSet(Parts)
  <1>1. IsFiniteSet({"strand"})
    BY FS_Singleton
  <1>2. IsFiniteSet({"strand"} \cup {"reader"})
    BY <1>1, FS_AddElement
  <1>3. IsFiniteSet(({"strand"} \cup {"reader"}) \cup {"waiter"})
    BY <1>2, FS_AddElement
  <1>4. IsFiniteSet((({"strand"} \cup {"reader"}) \cup {"waiter"}) \cup {"drain1"})
    BY <1>3, FS_AddElement
  <1>5. IsFiniteSet(((({"strand"} \cup {"reader"}) \cup {"waiter"}) \cup {"drain1"}) \cup {"drain2"})
    BY <1>4, FS_AddElement
  <1>6. Parts = ((({"strand"} \cup {"reader"}) \cup {"waiter"}) \cup {"drain1"}) \cup {"drain2"}
    BY DEF Parts, Drains
  <1> QED
    BY <1>5, <1>6

(* What is busy can be counted. *)
LEMMA BusyCount ==
    ASSUME IInv
    PROVE  IsFiniteSet(busy) /\ Cardinality(busy) \in Nat
  BY PartsFinite, FS_Subset, FS_CardinalityType DEF IInv, TypeOK, PartTypeOK

(* With one thread, who starts to execute starts alone. *)
LEMMA NoneBusy ==
    ASSUME IInv, numThreads = 1, Cardinality(busy) < numThreads
    PROVE  busy = {}
  <1>1. Cardinality(busy) = 0
    BY BusyCount
  <1> QED
    BY <1>1, BusyCount, FS_EmptySet

(* With one thread at most one part executes. *)
LEMMA OneBusy ==
    ASSUME IInv, numThreads = 1, NEW p \in busy, NEW q \in busy
    PROVE  p = q
  <1>1. Cardinality(busy) \in {0, 1}
    BY BusyCount DEF IInv, TypeOK
  <1>2. Cardinality(busy) # 0
    BY BusyCount, FS_EmptySet
  <1>3. \E x : busy = {x}
    BY <1>1, <1>2, BusyCount, FS_Singleton
  <1> QED
    BY <1>3

(* The types of the flags. *)
LEMMA FlagTypeStep ==
    ASSUME IInv, [Next]_vars
    PROVE  FlagTypeOK'
  <1> USE DEF IInv, TypeOK, FlagTypeOK
  <1>1. ASSUME NEW c \in Callers, NEW op \in {"send", "bus", "close"}, Call(c, op)
        PROVE  FlagTypeOK'
    BY <1>1 DEF Call
  <1>2. ASSUME NEW c \in Callers, SendPost(c)
        PROVE  FlagTypeOK'
    BY <1>2 DEF SendPost, Post, Frame
  <1>3. ASSUME NEW c \in Callers, CloseCas(c)
        PROVE  FlagTypeOK'
    BY <1>3 DEF CloseCas
  <1>4. ASSUME NEW c \in Callers, ClosePost(c)
        PROVE  FlagTypeOK'
    BY <1>4 DEF ClosePost, Post, Frame
  <1>5. CASE StrandLambda
    BY <1>5 DEF StrandLambda, Enter, Queued, Dropped
  <1>6. CASE StrandKick
    BY <1>6 DEF StrandKick, Leave
  <1>7. ASSUME NEW d \in Drains, WriteCompletes(d)
        PROVE  FlagTypeOK'
    BY <1>7 DEF WriteCompletes
  <1>8. ASSUME NEW d \in Drains, DrainResume(d)
        PROVE  FlagTypeOK'
    BY <1>8 DEF DrainResume, Enter
  <1>9. ASSUME NEW d \in Drains, DrainTest(d)
        PROVE  FlagTypeOK'
    BY <1>9 DEF DrainTest, Leave
  <1>10. ASSUME NEW d \in Drains, DrainFail(d)
        PROVE  FlagTypeOK'
    BY <1>10 DEF DrainFail
  <1>11. ASSUME NEW d \in Drains, DrainReset(d)
        PROVE  FlagTypeOK'
    BY <1>11 DEF DrainReset, Leave
  <1>12. CASE ReadStart
    BY <1>12 DEF ReadStart
  <1>13. ASSUME NEW i \in Items, ReadCompletes(i)
        PROVE  FlagTypeOK'
    BY <1>13 DEF ReadCompletes, Receive
  <1>14. CASE ReaderResume
    BY <1>14 DEF ReaderResume, Enter
  <1>15. CASE HandleFrame
    BY <1>15 DEF HandleFrame, Post, Frame
  <1>16. CASE NextFrame
    BY <1>16 DEF NextFrame, Receive, Leave
  <1>17. CASE HandleEnd
    BY <1>17 DEF HandleEnd
  <1>18. CASE ReaderPostClose
    BY <1>18 DEF ReaderPostClose, Post, Frame
  <1>19. CASE CloseSession \/ OnClose
    BY <1>19 DEF CloseSession, OnClose
  <1>20. CASE FinishRead
    BY <1>20 DEF FinishRead, Leave
  <1>21. CASE WaiterOpen
    BY <1>21 DEF WaiterOpen, Enter
  <1>22. CASE WaiterTest
    BY <1>22 DEF WaiterTest, Leave
  <1>23. CASE WaiterStore
    BY <1>23 DEF WaiterStore
  <1>24. CASE WaiterCheck
    BY <1>24 DEF WaiterCheck, Leave
  <1>25. CASE WaiterClaim
    BY <1>25 DEF WaiterClaim, Leave
  <1>26. CASE UNCHANGED vars
    BY <1>26 DEF vars
  <1> QED
    BY <1>1, <1>2, <1>3, <1>4, <1>5, <1>6, <1>7, <1>8, <1>9, <1>10, <1>11, <1>12, <1>13,
       <1>14, <1>15, <1>16, <1>17, <1>18, <1>19, <1>20, <1>21, <1>22, <1>23, <1>24, <1>25, <1>26
     DEF Next, CallerStep, StrandStep, DrainStep, ReaderStep, WaiterStep

(* The types of the send path. *)
LEMMA SendTypeStep ==
    ASSUME IInv, [Next]_vars
    PROVE  SendTypeOK'
  <1> USE SessionAssumption DEF IInv, TypeOK, SendTypeOK
  <1>1. ASSUME NEW c \in Callers, NEW op \in {"send", "bus", "close"}, Call(c, op)
        PROVE  SendTypeOK'
    BY <1>1 DEF Call, Frames, Jobs, PartTypeOK, KindInv
  <1>2. ASSUME NEW c \in Callers, SendPost(c)
        PROVE  SendTypeOK'
    BY <1>2 DEF SendPost, Post, Frame, Frames, Jobs, PartTypeOK, KindInv
  <1>3. ASSUME NEW c \in Callers, CloseCas(c)
        PROVE  SendTypeOK'
    BY <1>3 DEF CloseCas, Frames, Jobs, PartTypeOK, KindInv
  <1>4. ASSUME NEW c \in Callers, ClosePost(c)
        PROVE  SendTypeOK'
    BY <1>4 DEF ClosePost, Post, Frame, Frames, Jobs, PartTypeOK, KindInv
  <1>5. CASE StrandLambda
    <2>1. Head(strandQ) \in Jobs /\ Tail(strandQ) \in Seq(Jobs)
      BY <1>5 DEF StrandLambda
    <2>2. Head(strandQ).frame \in Frames
      BY <2>1 DEF Jobs
    <2>3. Queued(Head(strandQ)) \in Seq(Frames)
      BY <2>2 DEF Queued
    <2> QED
      BY <1>5, <2>1, <2>3 DEF StrandLambda
  <1>6. CASE StrandKick
    <2>1. CASE sending \/ queue = <<>>
      BY <1>6, <2>1 DEF StrandKick
    <2>2. CASE ~(sending \/ queue = <<>>)
      <3>1. Head(queue) \in Frames /\ Tail(queue) \in Seq(Frames)
        BY <2>2
      <3> QED
        BY <1>6, <2>2, <3>1 DEF StrandKick
    <2> QED
      BY <2>1, <2>2
  <1>7. ASSUME NEW d \in Drains, WriteCompletes(d)
        PROVE  SendTypeOK'
    <2>1. inFlight[d] \in Frames
      BY <1>7 DEF WriteCompletes, KindInv
    <2>2. wire' \in Seq(Frames)
      <3>1. CASE wire' = wire
        BY <3>1
      <3>2. CASE wire' = Append(wire, inFlight[d])
        BY <2>1, <3>2
      <3> QED
        BY <1>7, <3>1, <3>2 DEF WriteCompletes
    <2> QED
      BY <1>7, <2>2 DEF WriteCompletes
  <1>8. ASSUME NEW d \in Drains, DrainResume(d)
        PROVE  SendTypeOK'
    BY <1>8 DEF DrainResume, Enter, Frames, Jobs, PartTypeOK, KindInv
  <1>9. ASSUME NEW d \in Drains, DrainTest(d)
        PROVE  SendTypeOK'
    <2>1. CASE queue = <<>>
      BY <1>9, <2>1 DEF DrainTest
    <2>2. CASE queue # <<>>
      <3>1. Head(queue) \in Frames /\ Tail(queue) \in Seq(Frames)
        BY <2>2
      <3> QED
        BY <1>9, <2>2, <3>1 DEF DrainTest
    <2> QED
      BY <2>1, <2>2
  <1>10. ASSUME NEW d \in Drains, DrainFail(d)
        PROVE  SendTypeOK'
    BY <1>10 DEF DrainFail, Frames, Jobs, PartTypeOK, KindInv
  <1>11. ASSUME NEW d \in Drains, DrainReset(d)
        PROVE  SendTypeOK'
    BY <1>11 DEF DrainReset, Leave, Frames, Jobs, PartTypeOK, KindInv
  <1>12. CASE ReadStart
    BY <1>12 DEF ReadStart, Frames, Jobs, PartTypeOK, KindInv
  <1>13. ASSUME NEW i \in Items, ReadCompletes(i)
        PROVE  SendTypeOK'
    BY <1>13 DEF ReadCompletes, Receive, Frames, Jobs, PartTypeOK, KindInv
  <1>14. CASE ReaderResume
    BY <1>14 DEF ReaderResume, Enter, Frames, Jobs, PartTypeOK, KindInv
  <1>15. CASE HandleFrame
    <2>1. ASSUME NEW via \in {"send", "priority"}, NEW kind \in {"data", "pong"},
                 NEW from \in {"on_message", "reader"}
          PROVE  [via |-> via, frame |-> Frame(kind, from, reads)] \in Jobs
      BY DEF Frame, Frames, Jobs, PartTypeOK
    <2>2. strandQ' \in Seq(Jobs)
      <3>1. CASE Post("send", Frame("data", "on_message", reads))
        BY <2>1, <3>1 DEF Post
      <3>2. CASE Post("priority", Frame("pong", "reader", reads))
        BY <2>1, <3>2 DEF Post
      <3>3. CASE UNCHANGED strandQ
        BY <3>3
      <3> QED
        BY <1>15, <3>1, <3>2, <3>3 DEF HandleFrame
    <2> QED
      BY <1>15, <2>2 DEF HandleFrame
  <1>16. CASE NextFrame
    BY <1>16 DEF NextFrame, Receive, Leave, Frames, Jobs, PartTypeOK, KindInv
  <1>17. CASE HandleEnd
    BY <1>17 DEF HandleEnd, Frames, Jobs, PartTypeOK, KindInv
  <1>18. CASE ReaderPostClose
    BY <1>18 DEF ReaderPostClose, Post, Frame, Frames, Jobs, PartTypeOK, KindInv
  <1>19. CASE CloseSession \/ OnClose
    BY <1>19 DEF CloseSession, OnClose, Frames, Jobs, PartTypeOK, KindInv
  <1>20. CASE FinishRead
    BY <1>20 DEF FinishRead, Leave, Frames, Jobs, PartTypeOK, KindInv
  <1>21. CASE WaiterOpen
    BY <1>21 DEF WaiterOpen, Enter, Frames, Jobs, PartTypeOK, KindInv
  <1>22. CASE WaiterTest
    BY <1>22 DEF WaiterTest, Leave, Frames, Jobs, PartTypeOK, KindInv
  <1>23. CASE WaiterStore
    BY <1>23 DEF WaiterStore, Frames, Jobs, PartTypeOK, KindInv
  <1>24. CASE WaiterCheck
    BY <1>24 DEF WaiterCheck, Leave, Frames, Jobs, PartTypeOK, KindInv
  <1>25. CASE WaiterClaim
    BY <1>25 DEF WaiterClaim, Leave, Frames, Jobs, PartTypeOK, KindInv
  <1>26. CASE UNCHANGED vars
    BY <1>26 DEF vars, Frames, Jobs, PartTypeOK, KindInv
  <1> QED
    BY <1>1, <1>2, <1>3, <1>4, <1>5, <1>6, <1>7, <1>8, <1>9, <1>10, <1>11, <1>12, <1>13,
       <1>14, <1>15, <1>16, <1>17, <1>18, <1>19, <1>20, <1>21, <1>22, <1>23, <1>24, <1>25, <1>26
     DEF Next, CallerStep, StrandStep, DrainStep, ReaderStep, WaiterStep

(* The types of the parts. *)
LEMMA PartTypeStep ==
    ASSUME IInv, [Next]_vars
    PROVE  PartTypeOK'
  <1> USE SessionAssumption DEF IInv, TypeOK, PartTypeOK
  <1>1. ASSUME NEW c \in Callers, NEW op \in {"send", "bus", "close"}, Call(c, op)
        PROVE  PartTypeOK'
    BY <1>1 DEF Call, WaitInv, Items, Parts
  <1>2. ASSUME NEW c \in Callers, SendPost(c)
        PROVE  PartTypeOK'
    BY <1>2 DEF SendPost, Post, Frame, WaitInv, Items, Parts
  <1>3. ASSUME NEW c \in Callers, CloseCas(c)
        PROVE  PartTypeOK'
    BY <1>3 DEF CloseCas, WaitInv, Items, Parts
  <1>4. ASSUME NEW c \in Callers, ClosePost(c)
        PROVE  PartTypeOK'
    BY <1>4 DEF ClosePost, Post, Frame, WaitInv, Items, Parts
  <1>5. CASE StrandLambda
    BY <1>5 DEF StrandLambda, Enter, Queued, Dropped, WaitInv, Items, Parts
  <1>6. CASE StrandKick
    BY <1>6 DEF StrandKick, Leave, WaitInv, Items, Parts
  <1>7. ASSUME NEW d \in Drains, WriteCompletes(d)
        PROVE  PartTypeOK'
    BY <1>7 DEF WriteCompletes, WaitInv, Items, Parts
  <1>8. ASSUME NEW d \in Drains, DrainResume(d)
        PROVE  PartTypeOK'
    BY <1>8 DEF DrainResume, Enter, WaitInv, Items, Parts
  <1>9. ASSUME NEW d \in Drains, DrainTest(d)
        PROVE  PartTypeOK'
    BY <1>9 DEF DrainTest, Leave, WaitInv, Items, Parts
  <1>10. ASSUME NEW d \in Drains, DrainFail(d)
        PROVE  PartTypeOK'
    BY <1>10 DEF DrainFail, WaitInv, Items, Parts
  <1>11. ASSUME NEW d \in Drains, DrainReset(d)
        PROVE  PartTypeOK'
    BY <1>11 DEF DrainReset, Leave, WaitInv, Items, Parts
  <1>12. CASE ReadStart
    BY <1>12 DEF ReadStart, WaitInv, Items, Parts
  <1>13. ASSUME NEW i \in Items, ReadCompletes(i)
        PROVE  PartTypeOK'
    BY <1>13 DEF ReadCompletes, Receive, WaitInv, Items, Parts
  <1>14. CASE ReaderResume
    BY <1>14 DEF ReaderResume, Enter, WaitInv, Items, Parts
  <1>15. CASE HandleFrame
    BY <1>15 DEF HandleFrame, Post, Frame, WaitInv, Items, Parts
  <1>16. CASE NextFrame
    <2>1. CASE \E i \in Items \ {"eof"} : Receive(i) /\ reader' = "handle" /\ UNCHANGED busy
      BY <1>16, <2>1 DEF NextFrame, Receive
    <2>2. CASE reader' = "reading" /\ Leave("reader") /\ UNCHANGED <<item, reads>>
      BY <1>16, <2>2 DEF NextFrame, Leave
    <2> QED
      BY <1>16, <2>1, <2>2 DEF NextFrame
  <1>17. CASE HandleEnd
    BY <1>17 DEF HandleEnd, WaitInv, Items, Parts
  <1>18. CASE ReaderPostClose
    BY <1>18 DEF ReaderPostClose, Post, Frame, WaitInv, Items, Parts
  <1>19. CASE CloseSession \/ OnClose
    <2>1. CASE CloseSession
      BY <2>1 DEF CloseSession
    <2>2. CASE OnClose
      <3>1. onClose = 0
        BY <2>2 DEF OnClose, WaitInv
      <3> QED
        BY <2>2, <3>1 DEF OnClose
    <2> QED
      BY <1>19, <2>1, <2>2
  <1>20. CASE FinishRead
    BY <1>20 DEF FinishRead, Leave, WaitInv, Items, Parts
  <1>21. CASE WaiterOpen
    BY <1>21 DEF WaiterOpen, Enter, WaitInv, Items, Parts
  <1>22. CASE WaiterTest
    <2>1. resumes = 0
      BY <1>22 DEF WaiterTest, WaitInv
    <2> QED
      BY <1>22, <2>1 DEF WaiterTest, Leave
  <1>23. CASE WaiterStore
    BY <1>23 DEF WaiterStore, WaitInv, Items, Parts
  <1>24. CASE WaiterCheck
    BY <1>24 DEF WaiterCheck, Leave, WaitInv, Items, Parts
  <1>25. CASE WaiterClaim
    BY <1>25 DEF WaiterClaim, Leave, WaitInv, Items, Parts
  <1>26. CASE UNCHANGED vars
    BY <1>26 DEF vars, WaitInv, Items, Parts
  <1> QED
    BY <1>1, <1>2, <1>3, <1>4, <1>5, <1>6, <1>7, <1>8, <1>9, <1>10, <1>11, <1>12, <1>13,
       <1>14, <1>15, <1>16, <1>17, <1>18, <1>19, <1>20, <1>21, <1>22, <1>23, <1>24, <1>25, <1>26
     DEF Next, CallerStep, StrandStep, DrainStep, ReaderStep, WaiterStep

(* What executes is busy. *)
LEMMA BusyStep ==
    ASSUME IInv, [Next]_vars
    PROVE  BusyInv'
  <1> USE DEF IInv, TypeOK, SendTypeOK, BusyInv, OnThread, Drains
  <1>1. ASSUME NEW c \in Callers, NEW op \in {"send", "bus", "close"}, Call(c, op)
        PROVE  BusyInv'
    BY <1>1 DEF Call, PartTypeOK
  <1>2. ASSUME NEW c \in Callers, SendPost(c)
        PROVE  BusyInv'
    BY <1>2 DEF SendPost, Post, Frame, PartTypeOK
  <1>3. ASSUME NEW c \in Callers, CloseCas(c)
        PROVE  BusyInv'
    BY <1>3 DEF CloseCas, PartTypeOK
  <1>4. ASSUME NEW c \in Callers, ClosePost(c)
        PROVE  BusyInv'
    BY <1>4 DEF ClosePost, Post, Frame, PartTypeOK
  <1>5. CASE StrandLambda
    BY <1>5 DEF StrandLambda, Enter, Queued, Dropped, PartTypeOK
  <1>6. CASE StrandKick
    BY <1>6 DEF StrandKick, Leave, PartTypeOK
  <1>7. ASSUME NEW d \in Drains, WriteCompletes(d)
        PROVE  BusyInv'
    BY <1>7 DEF WriteCompletes, PartTypeOK
  <1>8. ASSUME NEW d \in Drains, DrainResume(d)
        PROVE  BusyInv'
    BY <1>8 DEF DrainResume, Enter, PartTypeOK
  <1>9. ASSUME NEW d \in Drains, DrainTest(d)
        PROVE  BusyInv'
    BY <1>9 DEF DrainTest, Leave, PartTypeOK
  <1>10. ASSUME NEW d \in Drains, DrainFail(d)
        PROVE  BusyInv'
    BY <1>10 DEF DrainFail, PartTypeOK
  <1>11. ASSUME NEW d \in Drains, DrainReset(d)
        PROVE  BusyInv'
    BY <1>11 DEF DrainReset, Leave, PartTypeOK
  <1>12. CASE ReadStart
    BY <1>12 DEF ReadStart, PartTypeOK
  <1>13. ASSUME NEW i \in Items, ReadCompletes(i)
        PROVE  BusyInv'
    BY <1>13 DEF ReadCompletes, Receive, PartTypeOK
  <1>14. CASE ReaderResume
    BY <1>14 DEF ReaderResume, Enter, PartTypeOK
  <1>15. CASE HandleFrame
    BY <1>15 DEF HandleFrame, Post, Frame, PartTypeOK
  <1>16. CASE NextFrame
    BY <1>16 DEF NextFrame, Receive, Leave, PartTypeOK
  <1>17. CASE HandleEnd
    BY <1>17 DEF HandleEnd, PartTypeOK
  <1>18. CASE ReaderPostClose
    BY <1>18 DEF ReaderPostClose, Post, Frame, PartTypeOK
  <1>19. CASE CloseSession \/ OnClose
    BY <1>19 DEF CloseSession, OnClose, PartTypeOK
  <1>20. CASE FinishRead
    BY <1>20 DEF FinishRead, Leave, PartTypeOK
  <1>21. CASE WaiterOpen
    BY <1>21 DEF WaiterOpen, Enter, PartTypeOK
  <1>22. CASE WaiterTest
    BY <1>22 DEF WaiterTest, Leave, PartTypeOK
  <1>23. CASE WaiterStore
    BY <1>23 DEF WaiterStore, PartTypeOK
  <1>24. CASE WaiterCheck
    BY <1>24 DEF WaiterCheck, Leave, PartTypeOK
  <1>25. CASE WaiterClaim
    BY <1>25 DEF WaiterClaim, Leave, PartTypeOK
  <1>26. CASE UNCHANGED vars
    BY <1>26 DEF vars, PartTypeOK
  <1> QED
    BY <1>1, <1>2, <1>3, <1>4, <1>5, <1>6, <1>7, <1>8, <1>9, <1>10, <1>11, <1>12, <1>13,
       <1>14, <1>15, <1>16, <1>17, <1>18, <1>19, <1>20, <1>21, <1>22, <1>23, <1>24, <1>25, <1>26
     DEF Next, CallerStep, StrandStep, DrainStep, ReaderStep, WaiterStep

(* One drain at most. *)
LEMMA SendStep ==
    ASSUME IInv, [Next]_vars
    PROVE  SendInv'
  <1> USE DEF IInv, TypeOK, SendTypeOK, SendInv, Drains
  <1>1. ASSUME NEW c \in Callers, NEW op \in {"send", "bus", "close"}, Call(c, op)
        PROVE  SendInv'
    BY <1>1 DEF Call
  <1>2. ASSUME NEW c \in Callers, SendPost(c)
        PROVE  SendInv'
    BY <1>2 DEF SendPost, Post, Frame
  <1>3. ASSUME NEW c \in Callers, CloseCas(c)
        PROVE  SendInv'
    BY <1>3 DEF CloseCas
  <1>4. ASSUME NEW c \in Callers, ClosePost(c)
        PROVE  SendInv'
    BY <1>4 DEF ClosePost, Post, Frame
  <1>5. CASE StrandLambda
    BY <1>5 DEF StrandLambda, Enter, Queued, Dropped
  <1>6. CASE StrandKick
    BY <1>6 DEF StrandKick, Leave
  <1>7. ASSUME NEW d \in Drains, WriteCompletes(d)
        PROVE  SendInv'
    BY <1>7 DEF WriteCompletes
  <1>8. ASSUME NEW d \in Drains, DrainResume(d)
        PROVE  SendInv'
    BY <1>8 DEF DrainResume, Enter
  <1>9. ASSUME NEW d \in Drains, DrainTest(d)
        PROVE  SendInv'
    BY <1>9 DEF DrainTest, Leave
  <1>10. ASSUME NEW d \in Drains, DrainFail(d)
        PROVE  SendInv'
    BY <1>10 DEF DrainFail
  <1>11. ASSUME NEW d \in Drains, DrainReset(d)
        PROVE  SendInv'
    BY <1>11 DEF DrainReset, Leave
  <1>12. CASE ReadStart
    BY <1>12 DEF ReadStart
  <1>13. ASSUME NEW i \in Items, ReadCompletes(i)
        PROVE  SendInv'
    BY <1>13 DEF ReadCompletes, Receive
  <1>14. CASE ReaderResume
    BY <1>14 DEF ReaderResume, Enter
  <1>15. CASE HandleFrame
    BY <1>15 DEF HandleFrame, Post, Frame
  <1>16. CASE NextFrame
    BY <1>16 DEF NextFrame, Receive, Leave
  <1>17. CASE HandleEnd
    BY <1>17 DEF HandleEnd
  <1>18. CASE ReaderPostClose
    BY <1>18 DEF ReaderPostClose, Post, Frame
  <1>19. CASE CloseSession \/ OnClose
    BY <1>19 DEF CloseSession, OnClose
  <1>20. CASE FinishRead
    BY <1>20 DEF FinishRead, Leave
  <1>21. CASE WaiterOpen
    BY <1>21 DEF WaiterOpen, Enter
  <1>22. CASE WaiterTest
    BY <1>22 DEF WaiterTest, Leave
  <1>23. CASE WaiterStore
    BY <1>23 DEF WaiterStore
  <1>24. CASE WaiterCheck
    BY <1>24 DEF WaiterCheck, Leave
  <1>25. CASE WaiterClaim
    BY <1>25 DEF WaiterClaim, Leave
  <1>26. CASE UNCHANGED vars
    BY <1>26 DEF vars
  <1> QED
    BY <1>1, <1>2, <1>3, <1>4, <1>5, <1>6, <1>7, <1>8, <1>9, <1>10, <1>11, <1>12, <1>13,
       <1>14, <1>15, <1>16, <1>17, <1>18, <1>19, <1>20, <1>21, <1>22, <1>23, <1>24, <1>25, <1>26
     DEF Next, CallerStep, StrandStep, DrainStep, ReaderStep, WaiterStep

(* One resumption at most. *)
LEMMA WaitStep ==
    ASSUME IInv, [Next]_vars
    PROVE  WaitInv'
  <1> USE DEF IInv, TypeOK, PartTypeOK, WaitInv
  <1>1. ASSUME NEW c \in Callers, NEW op \in {"send", "bus", "close"}, Call(c, op)
        PROVE  WaitInv'
    BY <1>1 DEF Call, BusyInv, OnThread
  <1>2. ASSUME NEW c \in Callers, SendPost(c)
        PROVE  WaitInv'
    BY <1>2 DEF SendPost, Post, Frame, BusyInv, OnThread
  <1>3. ASSUME NEW c \in Callers, CloseCas(c)
        PROVE  WaitInv'
    BY <1>3 DEF CloseCas, BusyInv, OnThread
  <1>4. ASSUME NEW c \in Callers, ClosePost(c)
        PROVE  WaitInv'
    BY <1>4 DEF ClosePost, Post, Frame, BusyInv, OnThread
  <1>5. CASE StrandLambda
    BY <1>5 DEF StrandLambda, Enter, Queued, Dropped, BusyInv, OnThread
  <1>6. CASE StrandKick
    BY <1>6 DEF StrandKick, Leave, BusyInv, OnThread
  <1>7. ASSUME NEW d \in Drains, WriteCompletes(d)
        PROVE  WaitInv'
    BY <1>7 DEF WriteCompletes, BusyInv, OnThread
  <1>8. ASSUME NEW d \in Drains, DrainResume(d)
        PROVE  WaitInv'
    BY <1>8 DEF DrainResume, Enter, BusyInv, OnThread
  <1>9. ASSUME NEW d \in Drains, DrainTest(d)
        PROVE  WaitInv'
    BY <1>9 DEF DrainTest, Leave, BusyInv, OnThread
  <1>10. ASSUME NEW d \in Drains, DrainFail(d)
        PROVE  WaitInv'
    BY <1>10 DEF DrainFail, BusyInv, OnThread
  <1>11. ASSUME NEW d \in Drains, DrainReset(d)
        PROVE  WaitInv'
    BY <1>11 DEF DrainReset, Leave, BusyInv, OnThread
  <1>12. CASE ReadStart
    BY <1>12 DEF ReadStart, BusyInv, OnThread
  <1>13. ASSUME NEW i \in Items, ReadCompletes(i)
        PROVE  WaitInv'
    BY <1>13 DEF ReadCompletes, Receive, BusyInv, OnThread
  <1>14. CASE ReaderResume
    BY <1>14 DEF ReaderResume, Enter, BusyInv, OnThread
  <1>15. CASE HandleFrame
    BY <1>15 DEF HandleFrame, Post, Frame, BusyInv, OnThread
  <1>16. CASE NextFrame
    BY <1>16 DEF NextFrame, Receive, Leave, BusyInv, OnThread
  <1>17. CASE HandleEnd
    BY <1>17 DEF HandleEnd, BusyInv, OnThread
  <1>18. CASE ReaderPostClose
    BY <1>18 DEF ReaderPostClose, Post, Frame, BusyInv, OnThread
  <1>19. CASE CloseSession \/ OnClose
    BY <1>19 DEF CloseSession, OnClose, BusyInv, OnThread
  <1>20. CASE FinishRead
    <2>1. numThreads = 1 => waiter = "out"
      <3>1. "reader" \in busy /\ reader # "none"
        BY <1>20 DEF FinishRead, BusyInv, OnThread
      <3>2. numThreads = 1 => "waiter" \notin busy
        BY <3>1, OneBusy DEF IInv
      <3> QED
        BY <3>1, <3>2 DEF BusyInv
    <2>2. resumes' \in 0..1 /\ slot' = FALSE /\ (slot => resumes = 0)
      BY <1>20 DEF FinishRead
    <2> QED
      BY <1>20, <2>1, <2>2 DEF FinishRead
  <1>21. CASE WaiterOpen
    BY <1>21 DEF WaiterOpen, Enter, BusyInv, OnThread
  <1>22. CASE WaiterTest
    BY <1>22 DEF WaiterTest, Leave, BusyInv, OnThread
  <1>23. CASE WaiterStore
    BY <1>23 DEF WaiterStore, BusyInv, OnThread
  <1>24. CASE WaiterCheck
    BY <1>24 DEF WaiterCheck, Leave, BusyInv, OnThread
  <1>25. CASE WaiterClaim
    BY <1>25 DEF WaiterClaim, Leave, BusyInv, OnThread
  <1>26. CASE UNCHANGED vars
    BY <1>26 DEF vars, BusyInv, OnThread
  <1> QED
    BY <1>1, <1>2, <1>3, <1>4, <1>5, <1>6, <1>7, <1>8, <1>9, <1>10, <1>11, <1>12, <1>13,
       <1>14, <1>15, <1>16, <1>17, <1>18, <1>19, <1>20, <1>21, <1>22, <1>23, <1>24, <1>25, <1>26
     DEF Next, CallerStep, StrandStep, DrainStep, ReaderStep, WaiterStep

(* With one thread nothing is left behind. *)
LEMMA DrainStepInv ==
    ASSUME IInv, [Next]_vars
    PROVE  DrainInv'
  <1> USE DEF IInv, TypeOK, SendTypeOK, DrainInv
  <1>1. ASSUME NEW c \in Callers, NEW op \in {"send", "bus", "close"}, Call(c, op)
        PROVE  DrainInv'
    BY <1>1 DEF Call, BusyInv, SendInv, Drains
  <1>2. ASSUME NEW c \in Callers, SendPost(c)
        PROVE  DrainInv'
    BY <1>2 DEF SendPost, Post, Frame, BusyInv, SendInv, Drains
  <1>3. ASSUME NEW c \in Callers, CloseCas(c)
        PROVE  DrainInv'
    BY <1>3 DEF CloseCas, BusyInv, SendInv, Drains
  <1>4. ASSUME NEW c \in Callers, ClosePost(c)
        PROVE  DrainInv'
    BY <1>4 DEF ClosePost, Post, Frame, BusyInv, SendInv, Drains
  <1>5. CASE StrandLambda
    <2>1. CASE Dropped(Head(strandQ))
      BY <1>5, <2>1 DEF StrandLambda
    <2>2. CASE ~Dropped(Head(strandQ))
      <3>1. numThreads = 1 => busy = {}
        BY <1>5, <2>2, NoneBusy DEF StrandLambda, Enter
      <3>2. drain' = drain /\ kick' = TRUE /\ numThreads' = numThreads
        BY <1>5, <2>2 DEF StrandLambda
      <3>3. numThreads = 1 => \A d \in Drains : drain[d] # "reset"
        BY <3>1 DEF BusyInv
      <3> QED
        BY <3>2, <3>3
    <2> QED
      BY <2>1, <2>2
  <1>6. CASE StrandKick
    BY <1>6 DEF StrandKick, Leave, BusyInv, SendInv, Drains
  <1>7. ASSUME NEW d \in Drains, WriteCompletes(d)
        PROVE  DrainInv'
    BY <1>7 DEF WriteCompletes, BusyInv, SendInv, Drains
  <1>8. ASSUME NEW d \in Drains, DrainResume(d)
        PROVE  DrainInv'
    BY <1>8 DEF DrainResume, Enter, BusyInv, SendInv, Drains
  <1>9. ASSUME NEW d \in Drains, DrainTest(d)
        PROVE  DrainInv'
    BY <1>9 DEF DrainTest, Leave, BusyInv, SendInv, Drains
  <1>10. ASSUME NEW d \in Drains, DrainFail(d)
        PROVE  DrainInv'
    BY <1>10 DEF DrainFail, BusyInv, SendInv, Drains
  <1>11. ASSUME NEW d \in Drains, DrainReset(d)
        PROVE  DrainInv'
    BY <1>11 DEF DrainReset, Leave, BusyInv, SendInv, Drains
  <1>12. CASE ReadStart
    BY <1>12 DEF ReadStart, BusyInv, SendInv, Drains
  <1>13. ASSUME NEW i \in Items, ReadCompletes(i)
        PROVE  DrainInv'
    BY <1>13 DEF ReadCompletes, Receive, BusyInv, SendInv, Drains
  <1>14. CASE ReaderResume
    BY <1>14 DEF ReaderResume, Enter, BusyInv, SendInv, Drains
  <1>15. CASE HandleFrame
    BY <1>15 DEF HandleFrame, Post, Frame, BusyInv, SendInv, Drains
  <1>16. CASE NextFrame
    BY <1>16 DEF NextFrame, Receive, Leave, BusyInv, SendInv, Drains
  <1>17. CASE HandleEnd
    BY <1>17 DEF HandleEnd, BusyInv, SendInv, Drains
  <1>18. CASE ReaderPostClose
    BY <1>18 DEF ReaderPostClose, Post, Frame, BusyInv, SendInv, Drains
  <1>19. CASE CloseSession \/ OnClose
    BY <1>19 DEF CloseSession, OnClose, BusyInv, SendInv, Drains
  <1>20. CASE FinishRead
    BY <1>20 DEF FinishRead, Leave, BusyInv, SendInv, Drains
  <1>21. CASE WaiterOpen
    BY <1>21 DEF WaiterOpen, Enter, BusyInv, SendInv, Drains
  <1>22. CASE WaiterTest
    BY <1>22 DEF WaiterTest, Leave, BusyInv, SendInv, Drains
  <1>23. CASE WaiterStore
    BY <1>23 DEF WaiterStore, BusyInv, SendInv, Drains
  <1>24. CASE WaiterCheck
    BY <1>24 DEF WaiterCheck, Leave, BusyInv, SendInv, Drains
  <1>25. CASE WaiterClaim
    BY <1>25 DEF WaiterClaim, Leave, BusyInv, SendInv, Drains
  <1>26. CASE UNCHANGED vars
    BY <1>26 DEF vars, BusyInv, SendInv, Drains
  <1> QED
    BY <1>1, <1>2, <1>3, <1>4, <1>5, <1>6, <1>7, <1>8, <1>9, <1>10, <1>11, <1>12, <1>13,
       <1>14, <1>15, <1>16, <1>17, <1>18, <1>19, <1>20, <1>21, <1>22, <1>23, <1>24, <1>25, <1>26
     DEF Next, CallerStep, StrandStep, DrainStep, ReaderStep, WaiterStep

(* A step starts or suspends one part at most. *)
LEMMA BusyMoves ==
    ASSUME [Next]_vars
    PROVE  /\ numThreads' = numThreads
           /\ UNCHANGED busy \/ \E p : Enter(p) \/ Leave(p)
  <1>1. CASE \E c \in Callers : CallerStep(c) \/ \E op \in {"send", "bus", "close"} : Call(c, op)
    BY <1>1 DEF CallerStep, SendPost, CloseCas, ClosePost, Call
  <1>2. CASE StrandStep
    BY <1>2 DEF StrandStep, StrandLambda, StrandKick
  <1>3. CASE \E d \in Drains : DrainStep(d) \/ WriteCompletes(d)
    BY <1>3 DEF DrainStep, DrainResume, DrainTest, DrainFail, DrainReset, WriteCompletes
  <1>4. CASE ReaderStep \/ \E i \in Items : ReadCompletes(i)
    BY <1>4 DEF ReaderStep, ReadStart, ReaderResume, HandleFrame, NextFrame, HandleEnd,
                ReaderPostClose, CloseSession, OnClose, FinishRead, ReadCompletes
  <1>5. CASE WaiterStep
    BY <1>5 DEF WaiterStep, WaiterOpen, WaiterTest, WaiterStore, WaiterCheck, WaiterClaim
  <1>6. CASE UNCHANGED vars
    BY <1>6 DEF vars
  <1> QED
    BY <1>1, <1>2, <1>3, <1>4, <1>5, <1>6 DEF Next

(* No more parts execute than there are threads. *)
LEMMA BoundStep ==
    ASSUME IInv, [Next]_vars
    PROVE  Cardinality(busy') <= numThreads'
  <1>1. numThreads \in Nat /\ Cardinality(busy) <= numThreads /\ Cardinality(busy) \in Nat
    BY SessionAssumption, BusyCount DEF IInv, TypeOK, PartTypeOK
  <1>2. CASE UNCHANGED busy
    BY <1>1, <1>2, BusyMoves
  <1>3. ASSUME NEW p, Enter(p)
        PROVE  Cardinality(busy') <= numThreads
    <2>1. Cardinality(busy \cup {p}) = Cardinality(busy) + 1
      BY <1>3, BusyCount, FS_AddElement DEF Enter
    <2> QED
      BY <1>1, <1>3, <2>1 DEF Enter
  <1>4. ASSUME NEW p, Leave(p)
        PROVE  Cardinality(busy') <= numThreads
    <2>1. Cardinality(busy \ {p}) <= Cardinality(busy)
      BY <1>1, BusyCount, FS_RemoveElement
    <2>2. Cardinality(busy \ {p}) \in Nat
      BY BusyCount, FS_RemoveElement, FS_CardinalityType
    <2> QED
      BY <1>1, <1>4, <2>1, <2>2 DEF Leave
  <1> QED
    BY <1>2, <1>3, <1>4, BusyMoves

-----------------------------------------------------------------------------
(* What pop_front, push_back and push_front do to the elements of a deque.    *)

LEMMA TailElements ==
    ASSUME NEW S, NEW s \in Seq(S), s # <<>>
    PROVE  /\ 1 \in 1..Len(s) /\ Head(s) = s[1] /\ Head(s) \in S
           /\ Tail(s) \in Seq(S) /\ Len(Tail(s)) = Len(s) - 1
           /\ \A k \in 1..Len(Tail(s)) : k + 1 \in 1..Len(s) /\ Tail(s)[k] = s[k + 1]
  OBVIOUS

LEMMA AppendElements ==
    ASSUME NEW S, NEW s \in Seq(S), NEW x \in S
    PROVE  /\ Append(s, x) \in Seq(S) /\ Len(Append(s, x)) = Len(s) + 1
           /\ Append(s, x)[Len(s) + 1] = x
           /\ \A k \in 1..Len(s) : Append(s, x)[k] = s[k]
           /\ \A k \in 1..(Len(s) + 1) : k \in 1..Len(s) \/ k = Len(s) + 1
  OBVIOUS

LEMMA PrependElements ==
    ASSUME NEW S, NEW s \in Seq(S), NEW x \in S
    PROVE  /\ <<x>> \o s \in Seq(S) /\ Len(<<x>> \o s) = Len(s) + 1
           /\ (<<x>> \o s)[1] = x
           /\ \A k \in 2..(Len(s) + 1) : k - 1 \in 1..Len(s) /\ (<<x>> \o s)[k] = s[k - 1]
           /\ \A k \in 1..(Len(s) + 1) : k = 1 \/ k \in 2..(Len(s) + 1)
  OBVIOUS

-----------------------------------------------------------------------------
(* The way of a frame.  Seen from strand, queue, write and wire, a step is    *)
(* one of a few moves.                                                        *)

Drops   == strandQ # <<>> /\ strandQ' = Tail(strandQ) /\ UNCHANGED <<queue, drain, inFlight, wire>>
Queues  == /\ strandQ # <<>> /\ ~Dropped(Head(strandQ))
           /\ strandQ' = Tail(strandQ) /\ queue' = Queued(Head(strandQ))
           /\ UNCHANGED <<drain, inFlight, wire>>
Takes(d) == /\ queue # <<>> /\ Writing = {}
            /\ drain' = [drain EXCEPT ![d] = "writing"]
            /\ inFlight' = [inFlight EXCEPT ![d] = Head(queue)]
            /\ queue' = Tail(queue)
            /\ UNCHANGED <<strandQ, wire>>
Writes(d) == /\ drain[d] = "writing"
             /\ drain' = [drain EXCEPT ![d] = "ok"]
             /\ wire' = Append(wire, inFlight[d])
             /\ UNCHANGED <<strandQ, queue, inFlight>>
Loses   == /\ UNCHANGED <<strandQ, wire>>
           /\ queue' = queue \/ queue' = <<>>
           /\ Writing' \subseteq Writing
           /\ \A d \in Writing' : inFlight'[d] = inFlight[d]
Posts   == \/ \E c \in Callers : SendPost(c) \/ ClosePost(c)
           \/ HandleFrame \/ ReaderPostClose

(* Every step is one of the moves. *)
LEMMA Moves ==
    ASSUME IInv, [Next]_vars
    PROVE  Posts \/ Drops \/ Queues \/ (\E d \in Drains : Takes(d) \/ Writes(d)) \/ Loses
  <1>0. /\ drain \in [Drains -> {"none", "writing", "ok", "error", "test", "fail", "reset"}]
        /\ inFlight \in [Drains -> Frames \cup {NoFrame}]
    BY DEF IInv, TypeOK, SendTypeOK
  <1>1. UNCHANGED <<strandQ, queue, drain, inFlight, wire>> => Loses
    BY DEF Loses, Writing
  <1>2. CASE \E c \in Callers : CallerStep(c) \/ \E op \in {"send", "bus", "close"} : Call(c, op)
    BY <1>1, <1>2 DEF CallerStep, CloseCas, Call, Posts
  <1>3. CASE StrandLambda
    BY <1>3 DEF StrandLambda, Drops, Queues
  <1>4. CASE StrandKick
    <2>1. CASE sending \/ queue = <<>>
      BY <1>1, <1>4, <2>1 DEF StrandKick
    <2>2. CASE ~(sending \/ queue = <<>>)
      <3>1. Writing = {}
        BY <2>2 DEF Writing, IInv, SendInv
      <3> QED
        BY <1>4, <2>2, <3>1 DEF StrandKick, Takes
    <2> QED
      BY <2>1, <2>2
  <1>5. ASSUME NEW d \in Drains, WriteCompletes(d)
        PROVE  Writes(d) \/ Loses
    BY <1>0, <1>5 DEF WriteCompletes, Writes, Loses, Writing
  <1>6. ASSUME NEW d \in Drains, DrainResume(d)
        PROVE  Loses
    BY <1>0, <1>6 DEF DrainResume, Loses, Writing
  <1>7. ASSUME NEW d \in Drains, DrainTest(d)
        PROVE  Takes(d) \/ Loses
    <2>1. CASE queue = <<>>
      BY <1>0, <1>7, <2>1 DEF DrainTest, Loses, Writing
    <2>2. CASE queue # <<>>
      <3>1. Writing = {}
        BY <1>7 DEF DrainTest, Writing, IInv, SendInv
      <3> QED
        BY <1>7, <2>2, <3>1 DEF DrainTest, Takes
    <2> QED
      BY <2>1, <2>2
  <1>8. ASSUME NEW d \in Drains, DrainFail(d) \/ DrainReset(d)
        PROVE  Loses
    BY <1>0, <1>8 DEF DrainFail, DrainReset, Loses, Writing
  <1>9. CASE ReaderStep \/ \E i \in Items : ReadCompletes(i)
    BY <1>1, <1>9 DEF ReaderStep, ReadStart, ReaderResume, NextFrame, HandleEnd,
                CloseSession, OnClose, FinishRead, ReadCompletes, Posts
  <1>10. CASE WaiterStep
    BY <1>1, <1>10 DEF WaiterStep, WaiterOpen, WaiterTest, WaiterStore, WaiterCheck, WaiterClaim
  <1>11. CASE UNCHANGED vars
    BY <1>1, <1>11 DEF vars
  <1> QED
    BY <1>2, <1>3, <1>4, <1>5, <1>6, <1>7, <1>8, <1>9, <1>10, <1>11 DEF Next, StrandStep, DrainStep

(* Where the elements of the sequences come from after a move. *)
LEMMA MoveTypes ==
    ASSUME IInv
    PROVE  /\ queue \in Seq(Frames) /\ wire \in Seq(Frames) /\ strandQ \in Seq(Jobs)
           /\ \A k \in 1..Len(strandQ) : strandQ[k].frame \in Frames
           /\ \A d \in Writing : inFlight[d] \in Frames
           /\ drain \in [Drains -> {"none", "writing", "ok", "error", "test", "fail", "reset"}]
           /\ inFlight \in [Drains -> Frames \cup {NoFrame}]
  <1>1. \A j \in Jobs : j.frame \in Frames
    BY DEF Jobs
  <1> QED
    BY <1>1 DEF IInv, TypeOK, SendTypeOK, KindInv, Writing

(* A post: what comes to the end of the strand's queue. *)
LEMMA PostsAppend ==
    ASSUME IInv, Posts
    PROVE  /\ UNCHANGED <<queue, drain, inFlight, wire>>
           /\ \/ UNCHANGED strandQ
              \/ \E c \in Callers : \E via \in {"send", "bus"} :
                    SendPost(c) /\ strandQ' = Append(strandQ, [via |-> via, frame |-> Frame("data", c, ops[c])])
              \/ \E c \in Callers :
                    /\ ClosePost(c)
                    /\ strandQ' = Append(strandQ, [via |-> "priority", frame |-> Frame("close", c, ops[c])])
              \/ /\ reader = "handle" /\ item = "data" /\ HandleFrame
                 /\ strandQ' = Append(strandQ, [via |-> "send", frame |-> Frame("data", "on_message", reads)])
              \/ /\ HandleFrame
                 /\ strandQ' = Append(strandQ, [via |-> "priority", frame |-> Frame("pong", "reader", reads)])
              \/ /\ ReaderPostClose
                 /\ strandQ' = Append(strandQ, [via |-> "priority", frame |-> Frame("close", "reader", reads)])
  BY DEF Posts, SendPost, ClosePost, HandleFrame, ReaderPostClose, Post

(* A posted job: a message goes through the limit, a control frame does not, *)
(* and a message is younger than all messages of its sender on their way.    *)
LEMMA PostsJob ==
    ASSUME IInv, Posts, strandQ' # strandQ
    PROVE  \E job \in Jobs :
              /\ strandQ' = Append(strandQ, job)
              /\ (job.frame.kind = "data") <=> (job.via # "priority")
              /\ \A f \in Pipe : Before(f, job.frame)
  <1>0. reads \in Nat /\ \A c \in Callers : ops[c] \in Nat /\ c # "on_message" /\ c # "reader"
    BY SessionAssumption DEF IInv, TypeOK, PartTypeOK
  <1>1. \A f \in Pipe : f.kind = "data" => Older(f)
    BY DEF IInv, FreshInv
  <1>2. ASSUME NEW c \in Callers, NEW via \in {"send", "bus"}, SendPost(c),
               strandQ' = Append(strandQ, [via |-> via, frame |-> Frame("data", c, ops[c])])
        PROVE  \E job \in Jobs :
                  /\ strandQ' = Append(strandQ, job)
                  /\ (job.frame.kind = "data") <=> (job.via # "priority")
                  /\ \A f \in Pipe : Before(f, job.frame)
    <2> DEFINE job == [via |-> via, frame |-> Frame("data", c, ops[c])]
    <2>1. job \in Jobs /\ job.via = via /\ job.frame.kind = "data" /\ job.frame.from = c
            /\ job.frame.n = ops[c]
      BY <1>0 DEF Jobs, Frames, Frame
    <2>2. callerPc[c] \in {"send", "bus"}
      BY <1>2 DEF SendPost
    <2>3. \A f \in Pipe : Before(f, job.frame)
      BY <1>1, <2>1, <2>2 DEF Before, Older
    <2> QED
      BY <1>2, <2>1, <2>3
  <1>3. ASSUME reader = "handle", item = "data",
               strandQ' = Append(strandQ, [via |-> "send", frame |-> Frame("data", "on_message", reads)])
        PROVE  \E job \in Jobs :
                  /\ strandQ' = Append(strandQ, job)
                  /\ (job.frame.kind = "data") <=> (job.via # "priority")
                  /\ \A f \in Pipe : Before(f, job.frame)
    <2> DEFINE job == [via |-> "send", frame |-> Frame("data", "on_message", reads)]
    <2>1. job \in Jobs /\ job.via = "send" /\ job.frame.kind = "data" /\ job.frame.from = "on_message"
            /\ job.frame.n = reads
      BY <1>0 DEF Jobs, Frames, Frame
    <2>2. \A f \in Pipe : Before(f, job.frame)
      BY <1>1, <1>3, <2>1 DEF Before, Older
    <2> QED
      BY <1>3, <2>1, <2>2
  <1>4. ASSUME NEW kind \in {"close", "pong"}, NEW c \in Callers \cup {"reader"}, NEW n \in Nat,
               strandQ' = Append(strandQ, [via |-> "priority", frame |-> Frame(kind, c, n)])
        PROVE  \E job \in Jobs :
                  /\ strandQ' = Append(strandQ, job)
                  /\ (job.frame.kind = "data") <=> (job.via # "priority")
                  /\ \A f \in Pipe : Before(f, job.frame)
    <2> DEFINE job == [via |-> "priority", frame |-> Frame(kind, c, n)]
    <2>1. job \in Jobs /\ job.via = "priority" /\ job.frame.kind = kind
      BY DEF Jobs, Frames, Frame
    <2>2. \A f \in Pipe : Before(f, job.frame)
      BY <2>1 DEF Before
    <2> QED
      BY <1>4, <2>1, <2>2
  <1> QED
    BY <1>0, <1>2, <1>3, <1>4, PostsAppend

(* Frames keep their kind on the way. *)
LEMMA KindStep ==
    ASSUME IInv, [Next]_vars
    PROVE  KindInv'
  <1>0. /\ queue \in Seq(Frames) /\ wire \in Seq(Frames) /\ strandQ \in Seq(Jobs)
        /\ drain \in [Drains -> {"none", "writing", "ok", "error", "test", "fail", "reset"}]
        /\ inFlight \in [Drains -> Frames \cup {NoFrame}]
    BY MoveTypes
  <1>1. /\ \A k \in 1..Len(strandQ) : (strandQ[k].frame.kind = "data") <=> (strandQ[k].via # "priority")
        /\ \A d \in Drains : drain[d] = "writing" => inFlight[d] \in Frames
    BY DEF IInv, KindInv
  <1>2. CASE Posts
    <2>1. CASE strandQ' = strandQ
      BY <1>1, <1>2, <2>1, PostsAppend DEF KindInv
    <2>2. CASE strandQ' # strandQ
      <3>1. PICK job \in Jobs : /\ strandQ' = Append(strandQ, job)
                                /\ (job.frame.kind = "data") <=> (job.via # "priority")
        BY <1>2, <2>2, PostsJob
      <3>2. UNCHANGED <<drain, inFlight>>
        BY <1>2, PostsAppend
      <3> QED
        BY <1>0, <1>1, <3>1, <3>2 DEF KindInv
    <2> QED
      BY <2>1, <2>2
  <1>3. CASE Drops \/ Queues
    <2>1. strandQ # <<>> /\ strandQ' = Tail(strandQ) /\ UNCHANGED <<drain, inFlight>>
      BY <1>3 DEF Drops, Queues
    <2>2. \A k \in 1..Len(strandQ') : k + 1 \in 1..Len(strandQ) /\ strandQ'[k] = strandQ[k + 1]
      BY <1>0, <2>1, TailElements
    <2> QED
      BY <1>1, <2>1, <2>2 DEF KindInv
  <1>4. ASSUME NEW d \in Drains, Takes(d)
        PROVE  KindInv'
    <2>1. Head(queue) \in Frames
      BY <1>0, <1>4 DEF Takes
    <2> QED
      BY <1>0, <1>1, <1>4, <2>1 DEF KindInv, Takes
  <1>5. ASSUME NEW d \in Drains, Writes(d)
        PROVE  KindInv'
    BY <1>0, <1>1, <1>5 DEF KindInv, Writes
  <1>6. CASE Loses
    BY <1>1, <1>6 DEF KindInv, Loses, Writing
  <1> QED
    BY <1>2, <1>3, <1>4, <1>5, <1>6, Moves

(* What a lambda puts into the queue. *)
LEMMA QueuedElements ==
    ASSUME IInv, Queues
    PROVE  LET f == Head(strandQ).frame
           IN  /\ f \in Frames /\ 1 \in 1..Len(strandQ) /\ f = strandQ[1].frame
               /\ \/ /\ f.kind = "data" /\ Len(queue) < Depth
                     /\ queue' = Append(queue, f)
                  \/ /\ f.kind # "data" /\ queue' = <<f>> \o queue
  <1>1. strandQ \in Seq(Jobs) /\ strandQ # <<>> /\ queue \in Seq(Frames)
    BY MoveTypes DEF Queues
  <1>2. 1 \in 1..Len(strandQ) /\ Head(strandQ) = strandQ[1] /\ strandQ[1].frame \in Frames
    BY <1>1, TailElements, MoveTypes
  <1>3. (strandQ[1].frame.kind = "data") <=> (strandQ[1].via # "priority")
    BY <1>2 DEF IInv, KindInv
  <1>4. CASE strandQ[1].via = "priority"
    BY <1>2, <1>3, <1>4 DEF Queues, Queued
  <1>5. CASE strandQ[1].via # "priority"
    <2>1. ~(Len(queue) >= Depth)
      BY <1>2, <1>5 DEF Queues, Dropped
    <2>2. Len(queue) \in Nat /\ Depth \in Nat
      BY <1>1, SessionAssumption
    <2> QED
      BY <1>2, <1>3, <1>5, <2>1, <2>2 DEF Queues, Queued
  <1> QED
    BY <1>4, <1>5

(* No step brings a frame onto its way but a post. *)
LEMMA PipeGrows ==
    ASSUME IInv, [Next]_vars, NEW f \in Pipe'
    PROVE  f \in Pipe \/ (Posts /\ strandQ' # strandQ /\ f = strandQ'[Len(strandQ')].frame)
  <1>0. /\ queue \in Seq(Frames) /\ wire \in Seq(Frames) /\ strandQ \in Seq(Jobs)
        /\ drain \in [Drains -> {"none", "writing", "ok", "error", "test", "fail", "reset"}]
        /\ inFlight \in [Drains -> Frames \cup {NoFrame}]
    BY MoveTypes
  <1>1. /\ \A k \in 1..Len(wire) : wire[k] \in Pipe
        /\ \A k \in 1..Len(queue) : queue[k] \in Pipe
        /\ \A k \in 1..Len(strandQ) : strandQ[k].frame \in Pipe
        /\ \A d \in Writing : inFlight[d] \in Pipe
    BY DEF Pipe
  <1>2. \/ \E k \in 1..Len(wire') : f = wire'[k]
        \/ \E k \in 1..Len(queue') : f = queue'[k]
        \/ \E k \in 1..Len(strandQ') : f = strandQ'[k].frame
        \/ \E d \in Writing' : f = inFlight'[d]
    BY DEF Pipe
  <1>3. CASE Posts
    <2>1. CASE strandQ' = strandQ
      BY <1>1, <1>2, <1>3, <2>1, PostsAppend DEF Writing
    <2>2. CASE strandQ' # strandQ
      <3>1. PICK job \in Jobs : strandQ' = Append(strandQ, job)
        BY <1>3, <2>2, PostsJob
      <3>2. UNCHANGED <<queue, drain, inFlight, wire>>
        BY <1>3, PostsAppend
      <3>3. /\ Len(strandQ') = Len(strandQ) + 1
            /\ \A k \in 1..Len(strandQ') :
                 \/ strandQ'[k] = strandQ[k] /\ k \in 1..Len(strandQ)
                 \/ k = Len(strandQ')
        BY <1>0, <3>1, AppendElements
      <3> QED
        BY <1>1, <1>2, <1>3, <2>2, <3>2, <3>3 DEF Writing
    <2> QED
      BY <2>1, <2>2
  <1>4. ASSUME strandQ # <<>>, strandQ' = Tail(strandQ)
        PROVE  \A k \in 1..Len(strandQ') : strandQ'[k].frame \in Pipe
    BY <1>0, <1>1, <1>4, TailElements
  <1>5. CASE Drops
    BY <1>1, <1>2, <1>4, <1>5 DEF Drops, Writing
  <1>6. CASE Queues
    <2> DEFINE g == Head(strandQ).frame
    <2>1. g \in Pipe /\ g \in Frames
      BY <1>1, <1>6, QueuedElements
    <2>2. queue' = Append(queue, g) \/ queue' = <<g>> \o queue
      BY <1>6, QueuedElements
    <2> HIDE DEF g
    <2>3. \A k \in 1..Len(queue') : queue'[k] \in Pipe
      <3>1. CASE queue' = Append(queue, g)
        BY <1>0, <1>1, <2>1, <3>1, AppendElements
      <3>2. CASE queue' = <<g>> \o queue
        BY <1>0, <1>1, <2>1, <3>2, PrependElements
      <3> QED
        BY <2>2, <3>1, <3>2
    <2> QED
      BY <1>1, <1>2, <1>4, <1>6, <2>3 DEF Queues, Writing
  <1>7. ASSUME NEW d \in Drains, Takes(d)
        PROVE  f \in Pipe
    <2>1. Head(queue) \in Pipe /\ \A k \in 1..Len(queue') : queue'[k] \in Pipe
      BY <1>0, <1>1, <1>7, TailElements DEF Takes
    <2>2. \A e \in Writing' : inFlight'[e] = Head(queue)
      BY <1>0, <1>7 DEF Takes, Writing
    <2> QED
      BY <1>1, <1>2, <1>7, <2>1, <2>2 DEF Takes
  <1>8. ASSUME NEW d \in Drains, Writes(d)
        PROVE  f \in Pipe
    <2>1. d \in Writing /\ inFlight[d] \in Frames /\ inFlight[d] \in Pipe
      BY <1>1, <1>8, MoveTypes DEF Writes, Writing
    <2>2. \A k \in 1..Len(wire') : wire'[k] \in Pipe
      BY <1>0, <1>1, <1>8, <2>1, AppendElements DEF Writes
    <2>3. Writing' \subseteq Writing
      BY <1>0, <1>8 DEF Writes, Writing
    <2> QED
      BY <1>1, <1>2, <1>8, <2>2, <2>3 DEF Writes
  <1>9. CASE Loses
    BY <1>1, <1>2, <1>9 DEF Loses
  <1> QED
    BY <1>3, <1>5, <1>6, <1>7, <1>8, <1>9, Moves

(* A message on its way stays older than what its sender posts next. *)
LEMMA OlderStays ==
    ASSUME IInv, [Next]_vars, NEW f \in Frames, Older(f)
    PROVE  Older(f)'
  <1>0. f.n \in Nat
    BY DEF Frames
  <1> USE SessionAssumption DEF IInv, TypeOK, PartTypeOK, Older
  <1>1. ASSUME NEW c \in Callers, NEW op \in {"send", "bus", "close"}, Call(c, op)
        PROVE  Older(f)'
    BY <1>0, <1>1 DEF Call, Items
  <1>2. ASSUME NEW c \in Callers, SendPost(c)
        PROVE  Older(f)'
    BY <1>0, <1>2 DEF SendPost, Post, Frame, Items
  <1>3. ASSUME NEW c \in Callers, CloseCas(c)
        PROVE  Older(f)'
    BY <1>0, <1>3 DEF CloseCas, Items
  <1>4. ASSUME NEW c \in Callers, ClosePost(c)
        PROVE  Older(f)'
    BY <1>0, <1>4 DEF ClosePost, Post, Frame, Items
  <1>5. CASE StrandLambda
    BY <1>0, <1>5 DEF StrandLambda, Enter, Queued, Dropped, Items
  <1>6. CASE StrandKick
    BY <1>0, <1>6 DEF StrandKick, Leave, Items
  <1>7. ASSUME NEW d \in Drains, WriteCompletes(d)
        PROVE  Older(f)'
    BY <1>0, <1>7 DEF WriteCompletes, Items
  <1>8. ASSUME NEW d \in Drains, DrainResume(d)
        PROVE  Older(f)'
    BY <1>0, <1>8 DEF DrainResume, Enter, Items
  <1>9. ASSUME NEW d \in Drains, DrainTest(d)
        PROVE  Older(f)'
    BY <1>0, <1>9 DEF DrainTest, Leave, Items
  <1>10. ASSUME NEW d \in Drains, DrainFail(d)
        PROVE  Older(f)'
    BY <1>0, <1>10 DEF DrainFail, Items
  <1>11. ASSUME NEW d \in Drains, DrainReset(d)
        PROVE  Older(f)'
    BY <1>0, <1>11 DEF DrainReset, Leave, Items
  <1>12. CASE ReadStart
    BY <1>0, <1>12 DEF ReadStart, Items
  <1>13. ASSUME NEW i \in Items, ReadCompletes(i)
        PROVE  Older(f)'
    BY <1>0, <1>13 DEF ReadCompletes, Receive, Items
  <1>14. CASE ReaderResume
    BY <1>0, <1>14 DEF ReaderResume, Enter, Items
  <1>15. CASE HandleFrame
    BY <1>0, <1>15 DEF HandleFrame, Post, Frame, Items
  <1>16. CASE NextFrame
    BY <1>0, <1>16 DEF NextFrame, Receive, Leave, Items
  <1>17. CASE HandleEnd
    BY <1>0, <1>17 DEF HandleEnd, Items
  <1>18. CASE ReaderPostClose
    BY <1>0, <1>18 DEF ReaderPostClose, Post, Frame, Items
  <1>19. CASE CloseSession \/ OnClose
    BY <1>0, <1>19 DEF CloseSession, OnClose, Items
  <1>20. CASE FinishRead
    BY <1>0, <1>20 DEF FinishRead, Leave, Items
  <1>21. CASE WaiterOpen
    BY <1>0, <1>21 DEF WaiterOpen, Enter, Items
  <1>22. CASE WaiterTest
    BY <1>0, <1>22 DEF WaiterTest, Leave, Items
  <1>23. CASE WaiterStore
    BY <1>0, <1>23 DEF WaiterStore, Items
  <1>24. CASE WaiterCheck
    BY <1>0, <1>24 DEF WaiterCheck, Leave, Items
  <1>25. CASE WaiterClaim
    BY <1>0, <1>25 DEF WaiterClaim, Leave, Items
  <1>26. CASE UNCHANGED vars
    BY <1>0, <1>26 DEF vars, Items
  <1> QED
    BY <1>0, <1>1, <1>2, <1>3, <1>4, <1>5, <1>6, <1>7, <1>8, <1>9, <1>10, <1>11, <1>12, <1>13,
       <1>14, <1>15, <1>16, <1>17, <1>18, <1>19, <1>20, <1>21, <1>22, <1>23, <1>24, <1>25, <1>26
     DEF Next, CallerStep, StrandStep, DrainStep, ReaderStep, WaiterStep

(* Messages on their way are older than the next one. *)
LEMMA FreshStep ==
    ASSUME IInv, [Next]_vars
    PROVE  FreshInv'
  <1> SUFFICES ASSUME NEW f \in Pipe', f.kind = "data"
               PROVE  Older(f)'
    BY DEF FreshInv
  <1>1. CASE f \in Pipe
    <2>1. f \in Frames
      BY <1>1, MoveTypes DEF Pipe
    <2>2. Older(f)
      BY <1>1 DEF IInv, FreshInv
    <2> QED
      BY <2>1, <2>2, OlderStays
  <1>2. CASE f \notin Pipe
    <2>1. Posts /\ strandQ' # strandQ /\ f = strandQ'[Len(strandQ')].frame
      BY <1>2, PipeGrows
    <2>2. strandQ \in Seq(Jobs)
      BY MoveTypes
    <2>3. ASSUME NEW job, strandQ' = Append(strandQ, job)
          PROVE  f = job.frame
      BY <2>1, <2>2, <2>3
    <2>4. reads \in Nat /\ \A c \in Callers : ops[c] \in Nat /\ c # "on_message"
      BY SessionAssumption DEF IInv, TypeOK, PartTypeOK
    <2>5. ASSUME NEW c \in Callers, NEW via \in {"send", "bus"}, SendPost(c),
                 strandQ' = Append(strandQ, [via |-> via, frame |-> Frame("data", c, ops[c])])
          PROVE  Older(f)'
      <3>1. f.from = c /\ f.n = ops[c]
        BY <2>3, <2>5 DEF Frame
      <3>2. ops' = ops /\ callerPc'[c] = "idle"
        BY <2>5 DEF SendPost, IInv, TypeOK, PartTypeOK
      <3> QED
        BY <2>4, <3>1, <3>2 DEF Older
    <2>6. ASSUME HandleFrame,
                 strandQ' = Append(strandQ, [via |-> "send", frame |-> Frame("data", "on_message", reads)])
          PROVE  Older(f)'
      <3>1. f.from = "on_message" /\ f.n = reads
        BY <2>3, <2>6 DEF Frame
      <3>2. reads' = reads /\ reader' = "next"
        BY <2>6 DEF HandleFrame
      <3> QED
        BY <2>4, <3>1, <3>2 DEF Older
    <2>7. ASSUME NEW kind \in {"close", "pong"}, NEW c, NEW n,
                 strandQ' = Append(strandQ, [via |-> "priority", frame |-> Frame(kind, c, n)])
          PROVE  FALSE
      <3>1. f.kind = kind
        BY <2>3, <2>7 DEF Frame
      <3> QED
        BY <3>1
    <2> QED
      BY <2>1, <2>5, <2>6, <2>7, PostsAppend
  <1> QED
    BY <1>1, <1>2

(* Messages of one sender stay in order. *)
LEMMA OrderStep ==
    ASSUME IInv, [Next]_vars
    PROVE  OrderInv'
  <1>0. /\ queue \in Seq(Frames) /\ wire \in Seq(Frames) /\ strandQ \in Seq(Jobs)
        /\ drain \in [Drains -> {"none", "writing", "ok", "error", "test", "fail", "reset"}]
        /\ inFlight \in [Drains -> Frames \cup {NoFrame}]
    BY MoveTypes
  <1> USE DEF OrderInv, Sorted
  <1>1. OrderInv
    BY DEF IInv
  <1>2. CASE Posts
    <2>1. UNCHANGED <<queue, drain, inFlight, wire>>
      BY <1>2, PostsAppend
    <2>2. CASE strandQ' = strandQ
      BY <1>1, <2>1, <2>2 DEF Writing
    <2>3. CASE strandQ' # strandQ
      <3>1. PICK job \in Jobs : strandQ' = Append(strandQ, job) /\ \A f \in Pipe : Before(f, job.frame)
        BY <1>2, <2>3, PostsJob
      <3>2. /\ Len(strandQ') = Len(strandQ) + 1 /\ Len(strandQ) \in Nat
            /\ strandQ'[Len(strandQ) + 1] = job
            /\ \A k \in 1..Len(strandQ) : strandQ'[k] = strandQ[k]
            /\ \A k \in 1..Len(strandQ') : k \in 1..Len(strandQ) \/ k = Len(strandQ) + 1
        BY <1>0, <3>1, AppendElements
      <3>3. /\ \A k \in 1..Len(wire) : Before(wire[k], job.frame)
            /\ \A k \in 1..Len(queue) : Before(queue[k], job.frame)
            /\ \A k \in 1..Len(strandQ) : Before(strandQ[k].frame, job.frame)
            /\ \A d \in Writing : Before(inFlight[d], job.frame)
        BY <3>1 DEF Pipe
      <3>4. \A j, k \in 1..Len(strandQ') : j < k => Before(strandQ'[j].frame, strandQ'[k].frame)
        BY <1>1, <3>2, <3>3
      <3>5. Writing' = Writing
        BY <2>1 DEF Writing
      <3> QED
        BY <1>1, <2>1, <3>2, <3>3, <3>4, <3>5
    <2> QED
      BY <2>2, <2>3
  <1>3. ASSUME strandQ # <<>>, strandQ' = Tail(strandQ)
        PROVE  /\ \A k \in 1..Len(strandQ') : k \in Nat /\ k + 1 \in 1..Len(strandQ)
                                                /\ strandQ'[k] = strandQ[k + 1]
               /\ 1 \in 1..Len(strandQ) /\ Head(strandQ) = strandQ[1]
    BY <1>0, <1>3, TailElements
  <1>4. ASSUME strandQ # <<>>, strandQ' = Tail(strandQ)
        PROVE  \A j, k \in 1..Len(strandQ') : j < k => Before(strandQ'[j].frame, strandQ'[k].frame)
    BY <1>1, <1>3, <1>4
  <1>5. CASE Drops
    <2>1. Writing' = Writing
      BY <1>5 DEF Drops, Writing
    <2> QED
      BY <1>1, <1>3, <1>4, <1>5, <2>1 DEF Drops
  <1>6. CASE Queues
    <2> DEFINE f == Head(strandQ).frame
    <2>1. f \in Frames /\ 1 \in 1..Len(strandQ) /\ f = strandQ[1].frame
      BY <1>6, QueuedElements
    <2>2. \/ queue' = Append(queue, f)
          \/ f.kind # "data" /\ queue' = <<f>> \o queue
      BY <1>6, QueuedElements
    <2> HIDE DEF f
    <2>3. Writing' = Writing /\ UNCHANGED <<wire, inFlight>> /\ strandQ # <<>> /\ strandQ' = Tail(strandQ)
      BY <1>6 DEF Queues, Writing
    <2>4. \A k \in 1..Len(strandQ') : k \in Nat /\ k + 1 \in 1..Len(strandQ) /\ 1 < k + 1
                                        /\ strandQ'[k] = strandQ[k + 1]
      BY <1>3, <2>3
    <2>5. /\ \A k \in 1..Len(wire) : Before(wire[k], f)
          /\ \A k \in 1..Len(queue) : Before(queue[k], f)
          /\ \A k \in 1..Len(strandQ') : Before(f, strandQ'[k].frame)
          /\ \A d \in Writing : Before(inFlight[d], f)
      BY <1>1, <2>1, <2>4
    <2>6. /\ \A k \in 1..Len(wire) : Before(wire[k], strandQ[1].frame)
          /\ \A j \in 1..Len(wire), k \in 1..Len(strandQ') : Before(wire[j], strandQ'[k].frame)
          /\ \A j \in 1..Len(queue), k \in 1..Len(strandQ') : Before(queue[j], strandQ'[k].frame)
          /\ \A d \in Writing, k \in 1..Len(strandQ') : Before(inFlight[d], strandQ'[k].frame)
          /\ \A j, k \in 1..Len(strandQ') : j < k => Before(strandQ'[j].frame, strandQ'[k].frame)
      BY <1>1, <1>4, <2>1, <2>3, <2>4
    <2>7. CASE queue' = Append(queue, f)
      <3>1. /\ Len(queue') = Len(queue) + 1 /\ Len(queue) \in Nat
            /\ queue'[Len(queue) + 1] = f
            /\ \A k \in 1..Len(queue) : queue'[k] = queue[k]
            /\ \A k \in 1..Len(queue') : k \in 1..Len(queue) \/ k = Len(queue) + 1
        BY <1>0, <2>1, <2>7, AppendElements
      <3>2. Sorted(queue')
        BY <1>1, <2>5, <3>1
      <3> QED
        BY <1>1, <2>3, <2>5, <2>6, <3>1, <3>2
    <2>8. CASE f.kind # "data" /\ queue' = <<f>> \o queue
      <3>1. /\ Len(queue') = Len(queue) + 1 /\ Len(queue) \in Nat
            /\ queue'[1] = f
            /\ \A k \in 2..(Len(queue) + 1) : k - 1 \in 1..Len(queue) /\ queue'[k] = queue[k - 1]
            /\ \A k \in 1..Len(queue') : k = 1 \/ k \in 2..(Len(queue) + 1)
        BY <1>0, <2>1, <2>8, PrependElements
      <3>2. \A g : Before(f, g) /\ Before(g, f)
        BY <2>8 DEF Before
      <3>3. Sorted(queue')
        BY <1>1, <3>1, <3>2
      <3> QED
        BY <1>1, <2>3, <2>6, <3>1, <3>2, <3>3
    <2> QED
      BY <2>2, <2>7, <2>8
  <1>7. ASSUME NEW d \in Drains, Takes(d)
        PROVE  OrderInv'
    <2>1. UNCHANGED <<wire, strandQ>> /\ queue # <<>> /\ queue' = Tail(queue)
      BY <1>7 DEF Takes
    <2>2. /\ 1 \in 1..Len(queue) /\ Head(queue) = queue[1]
          /\ \A k \in 1..Len(queue') : k \in Nat /\ k + 1 \in 1..Len(queue) /\ 1 < k + 1
                                         /\ queue'[k] = queue[k + 1]
      BY <1>0, <2>1, TailElements
    <2>3. \A e \in Writing' : inFlight'[e] = queue[1]
      BY <1>0, <1>7, <2>2 DEF Takes, Writing
    <2>4. Sorted(queue')
      BY <1>1, <2>2
    <2> QED
      BY <1>1, <2>1, <2>2, <2>3, <2>4
  <1>8. ASSUME NEW d \in Drains, Writes(d)
        PROVE  OrderInv'
    <2>1. d \in Writing /\ inFlight[d] \in Frames /\ wire' = Append(wire, inFlight[d])
            /\ UNCHANGED <<queue, strandQ, inFlight>>
      BY <1>8, MoveTypes DEF Writes, Writing
    <2>2. Writing' = {}
      BY <1>0, <1>8 DEF Writes, Writing, IInv, SendInv
    <2>3. /\ Len(wire') = Len(wire) + 1 /\ Len(wire) \in Nat
          /\ wire'[Len(wire) + 1] = inFlight[d]
          /\ \A k \in 1..Len(wire) : wire'[k] = wire[k]
          /\ \A k \in 1..Len(wire') : k \in 1..Len(wire) \/ k = Len(wire) + 1
      BY <1>0, <2>1, AppendElements
    <2>4. Sorted(wire')
      BY <1>1, <2>1, <2>3
    <2> QED
      BY <1>1, <2>1, <2>2, <2>3, <2>4
  <1>9. CASE Loses
    BY <1>1, <1>9 DEF Loses
  <1> QED
    BY <1>2, <1>5, <1>6, <1>7, <1>8, <1>9, Moves

-----------------------------------------------------------------------------
(* The depth limit. *)

(* A set of indices that fits into another when shifted is no larger. *)
LEMMA ShiftBound ==
    ASSUME NEW S, NEW T, IsFiniteSet(T), NEW by \in Int, \A k \in S : k \in Int /\ k + by \in T
    PROVE  IsFiniteSet(S) /\ Cardinality(S) <= Cardinality(T)
  <1> DEFINE f == [k \in S |-> k + by]
  <1>1. f \in [S -> T]
    OBVIOUS
  <1>2. ASSUME NEW a \in S, NEW b \in S, a + by = b + by
        PROVE  a = b
    <2>1. a \in Int /\ b \in Int
      OBVIOUS
    <2> QED
      BY <1>2, <2>1
  <1>3. f \in Injection(S, T)
    BY <1>1, <1>2 DEF Injection, IsInjective
  <1> QED
    BY <1>3, FS_Injection

(* The messages waiting stay within the limit. *)
LEMMA DataStep ==
    ASSUME IInv, [Next]_vars
    PROVE  DataBounded'
  <1> DEFINE D(q) == {k \in 1..Len(q) : q[k].kind = "data"}
  <1>0. queue \in Seq(Frames) /\ Len(queue) \in Nat /\ Depth \in Nat
    BY MoveTypes, SessionAssumption
  <1>1. /\ IsFiniteSet(D(queue)) /\ Cardinality(D(queue)) \in Nat
        /\ Cardinality(D(queue)) <= Depth
    <2>1. IsFiniteSet(1..Len(queue))
      BY <1>0, FS_Interval
    <2> QED
      BY <2>1, FS_Subset, FS_CardinalityType DEF IInv, DataBounded
  <1>2. ASSUME Cardinality(D(queue')) <= Depth
        PROVE  DataBounded'
    BY <1>2 DEF DataBounded
  <1>3. CASE queue' = queue
    BY <1>1, <1>2, <1>3
  <1>4. \A k : k \in D(queue') <=> k \in 1..Len(queue') /\ queue'[k].kind = "data"
    OBVIOUS
  <1>5. \A k : k \in D(queue) <=> k \in 1..Len(queue) /\ queue[k].kind = "data"
    OBVIOUS
  <1> HIDE DEF D
  <1>6. ASSUME NEW by \in Int, \A k \in D(queue') : k \in Int /\ k + by \in D(queue)
        PROVE  DataBounded'
    <2>1. IsFiniteSet(D(queue')) /\ Cardinality(D(queue')) <= Cardinality(D(queue))
      BY <1>1, <1>6, ShiftBound
    <2>2. Cardinality(D(queue')) \in Nat
      BY <2>1, FS_CardinalityType
    <2> QED
      BY <1>0, <1>1, <1>2, <2>1, <2>2
  <1>7. CASE Queues
    <2> DEFINE f == Head(strandQ).frame
    <2>1. \/ f.kind = "data" /\ Len(queue) < Depth /\ queue' = Append(queue, f)
          \/ f.kind # "data" /\ queue' = <<f>> \o queue
      BY <1>7, QueuedElements
    <2>2. f \in Frames
      BY <1>7, QueuedElements
    <2> HIDE DEF f
    <2>3. CASE Len(queue) < Depth /\ queue' = Append(queue, f)
      <3>1. Len(queue') = Len(queue) + 1 /\ Len(queue') \in Nat
        BY <1>0, <2>2, <2>3, AppendElements
      <3>2. IsFiniteSet(1..Len(queue')) /\ Cardinality(1..Len(queue')) = Len(queue')
        BY <3>1, FS_Interval
      <3>3. Cardinality(D(queue')) <= Len(queue') /\ IsFiniteSet(D(queue'))
        BY <1>4, <3>2, FS_Subset
      <3>4. Cardinality(D(queue')) \in Nat
        BY <3>3, FS_CardinalityType
      <3> QED
        BY <1>0, <1>2, <2>3, <3>1, <3>3, <3>4
    <2>4. CASE f.kind # "data" /\ queue' = <<f>> \o queue
      <3>1. \A k \in D(queue') : k \in Int /\ k + (-1) \in D(queue)
        <4>1. /\ Len(queue') = Len(queue) + 1 /\ queue'[1] = f
              /\ \A k \in 2..(Len(queue) + 1) : k - 1 \in 1..Len(queue) /\ queue'[k] = queue[k - 1]
          BY <1>0, <2>2, <2>4, PrependElements
        <4> QED
          BY <1>0, <1>4, <1>5, <2>4, <4>1
      <3>2. -1 \in Int
        OBVIOUS
      <3> QED
        BY <1>6, <3>1, <3>2
    <2> QED
      BY <2>1, <2>3, <2>4
  <1>8. ASSUME NEW d \in Drains, Takes(d)
        PROVE  DataBounded'
    <2>1. \A k \in D(queue') : k \in Int /\ k + 1 \in D(queue)
      <3>1. \A k \in 1..Len(queue') : k + 1 \in 1..Len(queue) /\ queue'[k] = queue[k + 1]
        BY <1>0, <1>8, TailElements DEF Takes
      <3> QED
        BY <1>4, <1>5, <3>1
    <2> QED
      BY <1>6, <2>1
  <1>9. CASE queue' = <<>>
    <2>1. \A k \in D(queue') : k \in Int /\ k + 0 \in D(queue)
      BY <1>4, <1>9
    <2> QED
      BY <1>6, <2>1
  <1> QED
    BY <1>3, <1>7, <1>8, <1>9, Moves, PostsAppend DEF Drops, Writes, Loses

-----------------------------------------------------------------------------
(* The Close frame. *)

(* A place keeps at most what it has. *)
Keeps(S, T) == (T # {} => S # {}) /\ (AtMostOne(S) => AtMostOne(T))

(* If every place keeps at most what it has, there is still one Close frame. *)
LEMMA CloseKept ==
    ASSUME CloseInv, Keeps(InWire, InWire'), Keeps(InQueue, InQueue'), Keeps(InStrand, InStrand'),
           Keeps(InHand, InHand'), InWrite' # {} => InWrite # {}, closeSent' = closeSent \/ closeSent'
    PROVE  CloseInv'
  BY DEF CloseInv, Keeps, AtMostOne

(* A place whose elements move up by one keeps at most what it has. *)
LEMMA ShiftKeeps ==
    ASSUME NEW S, NEW T, \A k \in T : k \in Int /\ k + 1 \in S
    PROVE  Keeps(S, T)
  BY DEF Keeps, AtMostOne

(* Who holds the Close frame before it is posted. *)
LEMMA Hands ==
    ASSUME IInv, [Next]_vars
    PROVE  \/ /\ InHand' \subseteq InHand /\ closeSent' = closeSent
           \/ /\ closeSent' = TRUE /\ UNCHANGED <<strandQ, queue, drain, inFlight, wire>>
              /\ closeSent => InHand' = InHand
              /\ AtMostOne(InHand) /\ InHand = {} => AtMostOne(InHand')
  <1>0. callerPc \in [Callers -> {"idle", "send", "bus", "close", "post_close"}]
    BY DEF IInv, TypeOK, PartTypeOK
  <1> USE DEF InHand
  <1>1. ASSUME NEW c \in Callers, Call(c, "send") \/ Call(c, "bus") \/ Call(c, "close")
        PROVE  InHand' \subseteq InHand /\ closeSent' = closeSent
    BY <1>0, <1>1 DEF Call
  <1>2. ASSUME NEW c \in Callers, SendPost(c) \/ ClosePost(c)
        PROVE  InHand' \subseteq InHand /\ closeSent' = closeSent
    BY <1>0, <1>2 DEF SendPost, ClosePost
  <1>3. ASSUME NEW c \in Callers, CloseCas(c)
        PROVE  /\ closeSent' = TRUE /\ UNCHANGED <<strandQ, queue, drain, inFlight, wire>>
               /\ closeSent => InHand' = InHand
               /\ AtMostOne(InHand) /\ InHand = {} => AtMostOne(InHand')
    BY <1>0, <1>3 DEF CloseCas, AtMostOne
  <1>4. CASE StrandStep \/ \E d \in Drains : DrainStep(d) \/ WriteCompletes(d)
    BY <1>4 DEF StrandStep, StrandLambda, StrandKick, DrainStep, DrainResume, DrainTest, DrainFail,
                DrainReset, WriteCompletes
  <1>5. CASE HandleEnd
    BY <1>5 DEF HandleEnd, AtMostOne
  <1>6. CASE \/ ReadStart \/ ReaderResume \/ HandleFrame \/ NextFrame \/ ReaderPostClose
             \/ CloseSession \/ OnClose \/ FinishRead \/ \E i \in Items : ReadCompletes(i)
    BY <1>6 DEF ReadStart, ReaderResume, HandleFrame, NextFrame, ReaderPostClose, CloseSession,
                OnClose, FinishRead, ReadCompletes
  <1>7. CASE WaiterStep
    BY <1>7 DEF WaiterStep, WaiterOpen, WaiterTest, WaiterStore, WaiterCheck, WaiterClaim
  <1>8. CASE UNCHANGED vars
    BY <1>8 DEF vars
  <1> QED
    BY <1>1, <1>2, <1>3, <1>4, <1>5, <1>6, <1>7, <1>8 DEF Next, CallerStep, ReaderStep

(* A post of a Close frame comes from the one hand that holds it. *)
LEMMA PostsClose ==
    ASSUME IInv, Posts, strandQ' # strandQ
    PROVE  \E job \in Jobs :
              /\ strandQ' = Append(strandQ, job)
              /\ job.frame.kind = "close" => InHand # {} /\ InHand' = {}
  <1>0. /\ reads \in Nat /\ \A c \in Callers : ops[c] \in Nat /\ c # "reader"
        /\ callerPc \in [Callers -> {"idle", "send", "bus", "close", "post_close"}]
    BY SessionAssumption DEF IInv, TypeOK, PartTypeOK
  <1>1. AtMostOne(InHand)
    BY DEF IInv, CloseInv
  <1>2. PICK job \in Jobs : strandQ' = Append(strandQ, job)
    BY PostsJob
  <1>3. strandQ \in Seq(Jobs)
    BY MoveTypes
  <1>4. ASSUME NEW x, strandQ' = Append(strandQ, x)
        PROVE  x = job
    <2>1. strandQ \in Seq(Jobs \cup {x})
      BY <1>3
    <2>2. strandQ'[Len(strandQ) + 1] = x
      BY <1>4, <2>1, AppendElements
    <2>3. strandQ'[Len(strandQ) + 1] = job
      BY <1>2, <1>3, AppendElements
    <2> QED
      BY <2>2, <2>3
  <1>5. ASSUME NEW c \in Callers, ClosePost(c)
        PROVE  InHand # {} /\ InHand' = {}
    <2>1. c \in InHand
      BY <1>5 DEF ClosePost, InHand
    <2>2. \A x \in InHand : x = c
      BY <1>1, <2>1 DEF AtMostOne
    <2> QED
      BY <1>0, <1>5, <2>1, <2>2 DEF ClosePost, InHand
  <1>6. CASE ReaderPostClose
    <2>1. "reader" \in InHand
      BY <1>6 DEF ReaderPostClose, InHand
    <2>2. \A x \in InHand : x = "reader"
      BY <1>1, <2>1 DEF AtMostOne
    <2> QED
      BY <1>0, <1>2, <1>6, <2>1, <2>2 DEF ReaderPostClose, InHand
  <1>7. ASSUME NEW via, NEW kind \in {"data", "pong"}, NEW c, NEW n,
               strandQ' = Append(strandQ, [via |-> via, frame |-> Frame(kind, c, n)])
        PROVE  job.frame.kind # "close"
    <2>1. job = [via |-> via, frame |-> Frame(kind, c, n)]
      BY <1>4, <1>7
    <2> QED
      BY <2>1 DEF Frame
  <1> QED
    BY <1>2, <1>5, <1>6, <1>7, PostsAppend

(* There is one Close frame at most, wherever it is. *)
LEMMA CloseStep ==
    ASSUME IInv, [Next]_vars
    PROVE  CloseInv'
  <1>0. /\ queue \in Seq(Frames) /\ wire \in Seq(Frames) /\ strandQ \in Seq(Jobs)
        /\ drain \in [Drains -> {"none", "writing", "ok", "error", "test", "fail", "reset"}]
        /\ inFlight \in [Drains -> Frames \cup {NoFrame}]
        /\ Len(queue) \in Nat /\ Len(wire) \in Nat /\ Len(strandQ) \in Nat
    BY MoveTypes
  <1>1. CloseInv
    BY DEF IInv
  <1>2. CASE ~(InHand' \subseteq InHand /\ closeSent' = closeSent)
    <2>1. /\ closeSent' = TRUE /\ UNCHANGED <<strandQ, queue, drain, inFlight, wire>>
          /\ closeSent => InHand' = InHand
          /\ AtMostOne(InHand) /\ InHand = {} => AtMostOne(InHand')
      BY <1>2, Hands
    <2>2. InWire' = InWire /\ InQueue' = InQueue /\ InStrand' = InStrand /\ InWrite' = InWrite
      BY <2>1 DEF InWire, InQueue, InStrand, InWrite
    <2>3. CASE closeSent
      BY <1>1, <2>1, <2>2, <2>3 DEF CloseInv
    <2>4. CASE ~closeSent
      BY <1>1, <2>1, <2>2, <2>4 DEF CloseInv
    <2> QED
      BY <2>3, <2>4
  <1>3. ASSUME InHand' \subseteq InHand, closeSent' = closeSent
        PROVE  CloseInv'
    <2>0. Keeps(InHand, InHand')
      BY <1>3 DEF Keeps, AtMostOne
    <2>1. \A S : Keeps(S, S)
      BY DEF Keeps
    <2>2. CASE Posts
      <3>1. UNCHANGED <<queue, drain, inFlight, wire>>
        BY <2>2, PostsAppend
      <3>2. InWire' = InWire /\ InQueue' = InQueue /\ InWrite' = InWrite
        BY <3>1 DEF InWire, InQueue, InWrite
      <3>3. CASE strandQ' = strandQ
        <4>1. InStrand' = InStrand
          BY <3>3 DEF InStrand
        <4> QED
          BY <1>1, <1>3, <2>0, <2>1, <3>2, <4>1, CloseKept
      <3>4. CASE strandQ' # strandQ
        <4>1. PICK job \in Jobs :
                 /\ strandQ' = Append(strandQ, job)
                 /\ job.frame.kind = "close" => InHand # {} /\ InHand' = {}
          BY <2>2, <3>4, PostsClose
        <4>2. /\ Len(strandQ') = Len(strandQ) + 1
              /\ strandQ'[Len(strandQ) + 1] = job
              /\ \A k \in 1..Len(strandQ) : strandQ'[k] = strandQ[k]
              /\ \A k \in 1..Len(strandQ') : k \in 1..Len(strandQ) \/ k = Len(strandQ) + 1
          BY <1>0, <4>1, AppendElements
        <4>3. CASE job.frame.kind # "close"
          <5>1. InStrand' \subseteq InStrand
            BY <4>2, <4>3 DEF InStrand
          <5>2. Keeps(InStrand, InStrand')
            BY <5>1 DEF Keeps, AtMostOne
          <5> QED
            BY <1>1, <1>3, <2>0, <2>1, <3>2, <5>2, CloseKept
        <4>4. CASE job.frame.kind = "close"
          <5>1. InStrand = {}
            BY <1>1, <4>1, <4>4 DEF CloseInv
          <5>2. \A k \in InStrand' : k = Len(strandQ) + 1
            BY <4>2, <5>1 DEF InStrand
          <5> QED
            BY <1>1, <1>3, <3>2, <4>1, <4>4, <5>2 DEF CloseInv, AtMostOne
        <4> QED
          BY <4>3, <4>4
      <3> QED
        BY <3>3, <3>4
    <2>3. ASSUME strandQ # <<>>, strandQ' = Tail(strandQ)
          PROVE  /\ Keeps(InStrand, InStrand')
                 /\ 1 \in InStrand => InStrand' = {}
      <3>1. \A k \in 1..Len(strandQ') : k + 1 \in 1..Len(strandQ) /\ strandQ'[k] = strandQ[k + 1]
        BY <1>0, <2>3, TailElements
      <3>2. \A k \in InStrand' : k \in Nat /\ k # 0 /\ k + 1 \in InStrand
        BY <3>1 DEF InStrand
      <3>3. Keeps(InStrand, InStrand')
        BY <3>2, ShiftKeeps
      <3>4. AtMostOne(InStrand)
        BY <1>1 DEF CloseInv
      <3> QED
        BY <3>2, <3>3, <3>4 DEF AtMostOne
    <2>4. CASE Drops
      <3>1. InWire' = InWire /\ InQueue' = InQueue /\ InWrite' = InWrite
        BY <2>4 DEF Drops, InWire, InQueue, InWrite
      <3> QED
        BY <1>1, <1>3, <2>0, <2>1, <2>3, <2>4, <3>1, CloseKept DEF Drops
    <2>5. CASE Queues
      <3> DEFINE f == Head(strandQ).frame
      <3>1. f \in Frames /\ 1 \in 1..Len(strandQ) /\ f = strandQ[1].frame
        BY <2>5, QueuedElements
      <3>2. \/ f.kind = "data" /\ queue' = Append(queue, f)
            \/ queue' = <<f>> \o queue
        BY <2>5, QueuedElements
      <3> HIDE DEF f
      <3>3. InWire' = InWire /\ InWrite' = InWrite /\ strandQ # <<>> /\ strandQ' = Tail(strandQ)
        BY <2>5 DEF Queues, InWire, InWrite
      <3>4. CASE f.kind = "close"
        <4>1. 1 \in InStrand
          BY <3>1, <3>4 DEF InStrand
        <4>2. InStrand' = {} /\ InQueue = {}
          BY <1>1, <2>3, <3>3, <4>1 DEF CloseInv
        <4>3. queue' = <<f>> \o queue
          BY <3>2, <3>4
        <4>4. \A k \in InQueue' : k = 1
          <5>1. \A k \in 1..Len(queue) : queue[k].kind # "close"
            BY <4>2 DEF InQueue
          <5>2. /\ Len(queue') = Len(queue) + 1
                /\ \A k \in 2..(Len(queue) + 1) : k - 1 \in 1..Len(queue) /\ queue'[k] = queue[k - 1]
                /\ \A k \in 1..(Len(queue) + 1) : k = 1 \/ k \in 2..(Len(queue) + 1)
            BY <1>0, <3>1, <4>3, PrependElements
          <5> QED
            BY <5>1, <5>2 DEF InQueue
        <4> QED
          BY <1>1, <1>3, <3>3, <4>1, <4>2, <4>4 DEF CloseInv, AtMostOne
      <3>5. CASE f.kind # "close"
        <4>1. Keeps(InQueue, InQueue')
          <5>1. CASE queue' = Append(queue, f)
            <6>1. InQueue' \subseteq InQueue
              BY <1>0, <3>1, <3>5, <5>1, AppendElements DEF InQueue
            <6> QED
              BY <6>1 DEF Keeps, AtMostOne
          <5>2. CASE queue' = <<f>> \o queue
            <6>1. \A k \in InQueue' : k \in Int /\ k - 1 \in InQueue
              BY <1>0, <3>1, <3>5, <5>2, PrependElements DEF InQueue
            <6> QED
              BY <6>1 DEF Keeps, AtMostOne
          <5> QED
            BY <3>2, <5>1, <5>2
        <4> QED
          BY <1>1, <1>3, <2>0, <2>1, <2>3, <3>3, <4>1, CloseKept
      <3> QED
        BY <3>4, <3>5
    <2>6. ASSUME NEW d \in Drains, Takes(d)
          PROVE  CloseInv'
      <3>1. InWire' = InWire /\ InStrand' = InStrand /\ queue # <<>> /\ queue' = Tail(queue)
        BY <2>6 DEF Takes, InWire, InStrand
      <3>2. /\ 1 \in 1..Len(queue) /\ Head(queue) = queue[1]
            /\ \A k \in 1..Len(queue') : k + 1 \in 1..Len(queue) /\ queue'[k] = queue[k + 1]
        BY <1>0, <3>1, TailElements
      <3>3. \A k \in InQueue' : k \in Nat /\ k # 0 /\ k + 1 \in InQueue
        BY <3>2 DEF InQueue
      <3>4. InWrite' \subseteq {d} /\ (InWrite' # {} => queue[1].kind = "close")
        BY <1>0, <2>6, <3>2 DEF Takes, InWrite, Writing
      <3>5. CASE queue[1].kind = "close"
        <4>1. 1 \in InQueue
          BY <3>2, <3>5 DEF InQueue
        <4>2. InQueue' = {}
          BY <1>1, <3>3, <4>1 DEF CloseInv, AtMostOne
        <4> QED
          BY <1>1, <1>3, <3>1, <4>1, <4>2 DEF CloseInv, AtMostOne
      <3>6. CASE queue[1].kind # "close"
        <4>1. Keeps(InQueue, InQueue')
          BY <3>3, ShiftKeeps
        <4> QED
          BY <1>1, <1>3, <2>0, <2>1, <3>1, <3>4, <3>6, <4>1, CloseKept
      <3> QED
        BY <3>5, <3>6
    <2>7. ASSUME NEW d \in Drains, Writes(d)
          PROVE  CloseInv'
      <3>1. InQueue' = InQueue /\ InStrand' = InStrand
        BY <2>7 DEF Writes, InQueue, InStrand
      <3>2. d \in Writing /\ inFlight[d] \in Frames /\ wire' = Append(wire, inFlight[d])
        BY <2>7, MoveTypes DEF Writes, Writing
      <3>3. InWrite' = {}
        BY <1>0, <2>7 DEF Writes, InWrite, IInv, SendInv
      <3>4. /\ Len(wire') = Len(wire) + 1
            /\ wire'[Len(wire) + 1] = inFlight[d]
            /\ \A k \in 1..Len(wire) : wire'[k] = wire[k]
            /\ \A k \in 1..Len(wire') : k \in 1..Len(wire) \/ k = Len(wire) + 1
        BY <1>0, <3>2, AppendElements
      <3>5. CASE inFlight[d].kind = "close"
        <4>1. d \in InWrite
          BY <3>2, <3>5 DEF InWrite, Writing
        <4>2. InWire = {}
          BY <1>1, <4>1 DEF CloseInv
        <4>3. \A k \in InWire' : k = Len(wire) + 1
          BY <3>4, <4>2 DEF InWire
        <4> QED
          BY <1>1, <1>3, <3>1, <3>3, <4>1, <4>3 DEF CloseInv, AtMostOne
      <3>6. CASE inFlight[d].kind # "close"
        <4>1. InWire' \subseteq InWire
          BY <3>4, <3>6 DEF InWire
        <4>2. Keeps(InWire, InWire')
          BY <4>1 DEF Keeps, AtMostOne
        <4> QED
          BY <1>1, <1>3, <2>0, <2>1, <3>1, <3>3, <4>2, CloseKept
      <3> QED
        BY <3>5, <3>6
    <2>8. CASE Loses
      <3>1. InWire' = InWire /\ InStrand' = InStrand
        BY <2>8 DEF Loses, InWire, InStrand
      <3>2. InQueue' \subseteq InQueue /\ InWrite' \subseteq InWrite
        BY <2>8 DEF Loses, InQueue, InWrite, Writing
      <3>3. Keeps(InQueue, InQueue')
        BY <3>2 DEF Keeps, AtMostOne
      <3> QED
        BY <1>1, <1>3, <2>0, <2>1, <3>1, <3>2, <3>3, CloseKept
    <2> QED
      BY <2>2, <2>4, <2>5, <2>6, <2>7, <2>8, Moves
  <1> QED
    BY <1>2, <1>3

-----------------------------------------------------------------------------
(* The theorems. *)

(* The inductive invariant holds in every reachable state. *)
THEOREM Invariance == Spec => []IInv
  <1>1. IInv /\ [Next]_vars => IInv'
    <2> SUFFICES ASSUME IInv, [Next]_vars
                 PROVE  IInv'
      OBVIOUS
    <2>1. TypeOK'
      BY FlagTypeStep, SendTypeStep, PartTypeStep, BoundStep DEF TypeOK
    <2> QED
      BY <2>1, BusyStep, SendStep, WaitStep, DrainStepInv, KindStep, OrderStep, FreshStep, CloseStep,
         DataStep
       DEF IInv
  <1> QED
    BY <1>1, InitInv, PTL DEF Spec

(* A set of which any two elements are equal has one element or none. *)
LEMMA SmallSet ==
    ASSUME NEW S, AtMostOne(S)
    PROVE  Cardinality(S) \in {0, 1} /\ (S = {} => Cardinality(S) = 0)
  <1>1. CASE S = {}
    BY <1>1, FS_EmptySet
  <1>2. ASSUME NEW x \in S
        PROVE  Cardinality(S) = 1 /\ S # {}
    <2>1. S = {x}
      BY <1>2 DEF AtMostOne
    <2>2. Cardinality({x}) = 1
      BY FS_Singleton
    <2> QED
      BY <2>1, <2>2
  <1> QED
    BY <1>1, <1>2

(* Whoever sends, closes or answers meanwhile, and although drains are        *)
(* resumed off the strand: writes never overlap, one Close frame is sent at   *)
(* most, and each sender's messages reach the wire in order.                  *)
THEOREM WireIsOrderly == Spec => []WireDiscipline
  <1>1. IInv => WireDiscipline
    <2> SUFFICES ASSUME IInv PROVE WireDiscipline
      OBVIOUS
    <2>1. WritesNeverOverlap
      <3> DEFINE S == {d \in Drains : drain[d] # "none"}
      <3>1. AtMostOne(S)
        BY DEF AtMostOne, IInv, SendInv
      <3>2. Cardinality(S) \in {0, 1}
        BY <3>1, SmallSet
      <3> QED
        BY <3>2 DEF WritesNeverOverlap
    <2>2. OneCloseFrame
      <3>1. AtMostOne(InWrite)
        BY DEF AtMostOne, InWrite, IInv, SendInv
      <3>2. /\ AtMostOne(InWire) /\ AtMostOne(InQueue) /\ AtMostOne(InStrand)
            /\ InWire # {} => InQueue = {} /\ InStrand = {} /\ InWrite = {}
            /\ InQueue # {} => InStrand = {} /\ InWrite = {}
            /\ InStrand # {} => InWrite = {}
        BY DEF IInv, CloseInv
      <3>3. Cardinality(InWire) + Cardinality(InQueue) + Cardinality(InStrand) + Cardinality(InWrite) <= 1
        BY <3>1, <3>2, SmallSet
      <3> QED
        BY <3>3 DEF OneCloseFrame, InWire, InQueue, InStrand, InWrite
    <2>3. SenderOrder
      BY DEF IInv, OrderInv, Sorted, Before, SenderOrder
    <2> QED
      BY <2>1, <2>2, <2>3 DEF WireDiscipline, IInv
  <1> QED
    BY <1>1, Invariance, PTL

(* The connection coroutine is resumed at most once; with one I/O thread only *)
(* when it is fully suspended.                                                *)
THEOREM ResumesAreSafe == Spec => []ResumeSafety
  <1>1. IInv => ResumeSafety
    BY DEF IInv, WaitInv, ResumeSafety, ResumedOnce, ResumesOnlySuspended
  <1> QED
    BY <1>1, Invariance, PTL

(* The depth limit holds for messages, and with one I/O thread a queue that   *)
(* is not empty has a drain, or a lambda about to start one.                  *)
THEOREM QueueIsSafe == Spec => []QueueSafety
  <1>1. IInv => QueueSafety
    BY DEF IInv, DrainInv, QueueSafety, OneThreadStrandsNothing, NoStrandedFrame
  <1> QED
    BY <1>1, Invariance, PTL

-----------------------------------------------------------------------------
(***************************************************************************)
(* The connection that carries the session (WebSocketConnection): its        *)
(* handshake and its read loop over the bytes of any sequence of frames, cut  *)
(* anywhere.                                                                 *)
(***************************************************************************)
(* base64_encode loses nothing: what RFC 4648 decodes is the input. *)

Octet == 0..255

(* Four characters as a number, and its three bytes. *)
Quad(a, b, c, d) == a * 262144 + b * 4096 + c * 64 + d
High(w) == w \div 65536
Mid(w)  == (w \div 256) % 256
Low(w)  == w % 256

LEMMA FullGroup ==
    ASSUME NEW a \in Octet, NEW b \in Octet, NEW c \in Octet
    PROVE  LET q == full_group(a, b, c)
               w == Quad(q[1], q[2], q[3], q[4])
           IN  /\ \A i \in 1..4 : q[i] \in 0..63
               /\ High(w) = a /\ Mid(w) = b /\ Low(w) = c
  <1> DEFINE t == a * 65536 + b * 256 + c
             q == full_group(a, b, c)
             w == q[1] * 262144 + q[2] * 4096 + q[3] * 64 + q[4]
  <1>1. /\ q[1] = t \div 262144 /\ q[2] = (t \div 4096) % 64
        /\ q[3] = (t \div 64) % 64 /\ q[4] = t % 64
    BY DEF full_group
  <1>2. t \in Nat /\ t < 16777216
    BY SMT DEF Octet
  <1>3. \A x \in Nat : x < 16777216 =>
            /\ x \div 262144 \in 0..63 /\ (x \div 4096) % 64 \in 0..63
            /\ (x \div 64) % 64 \in 0..63 /\ x % 64 \in 0..63
            /\ (x \div 262144) * 262144 + ((x \div 4096) % 64) * 4096 + ((x \div 64) % 64) * 64
                 + (x % 64) = x
    <2> SUFFICES ASSUME NEW x \in Nat, x < 16777216
                 PROVE  /\ x \div 262144 \in 0..63 /\ (x \div 4096) % 64 \in 0..63
                        /\ (x \div 64) % 64 \in 0..63 /\ x % 64 \in 0..63
                        /\ (x \div 262144) * 262144 + ((x \div 4096) % 64) * 4096
                             + ((x \div 64) % 64) * 64 + (x % 64) = x
      OBVIOUS
    <2> DEFINE d1 == x \div 64
               d2 == x \div 4096
               d3 == x \div 262144
    <2>1. /\ d1 \in Nat /\ d2 \in Nat /\ d3 \in 0..63
          /\ x % 64 \in 0..63 /\ d1 % 64 \in 0..63 /\ d2 % 64 \in 0..63
      BY SMT
    <2>2. x % 64 = x - 64 * d1 /\ d1 % 64 = d1 - 64 * d2 /\ d2 % 64 = d2 - 64 * d3
      BY SMT
    <2> HIDE DEF d1, d2, d3
    <2>3. d3 * 262144 + (d2 % 64) * 4096 + (d1 % 64) * 64 + (x % 64) = x
      BY <2>1, <2>2, SMT
    <2> QED
      BY <2>1, <2>3 DEF d1, d2, d3
  <1>4. t \div 65536 = a /\ (t \div 256) % 256 = b /\ t % 256 = c
    BY SMT DEF Octet
  <1> HIDE DEF t, q
  <1>5. \A i \in 1..4 : q[i] \in 0..63
    <2>1. \A i \in 1..4 : i = 1 \/ i = 2 \/ i = 3 \/ i = 4
      OBVIOUS
    <2>2. q[1] \in 0..63 /\ q[2] \in 0..63 /\ q[3] \in 0..63 /\ q[4] \in 0..63
      BY <1>1, <1>2, <1>3, SMT
    <2> QED
      BY <2>1, <2>2
  <1>6. w = t
    BY <1>1, <1>2, <1>3, SMT
  <1> HIDE DEF w
  <1>7. w \div 65536 = a /\ (w \div 256) % 256 = b /\ w % 256 = c
    BY <1>4, <1>6
  <1> QED
    BY <1>5, <1>7, SMT DEF q, w, Quad, High, Mid, Low

(* The last group, of one byte and of two. *)
LEMMA OneByteGroup ==
    ASSUME NEW rest, Len(rest) = 1, rest[1] \in Octet
    PROVE  LET q == last_group(rest)
               w == Quad(q[1], q[2], 0, 0)
           IN  /\ q[1] \in 0..63 /\ q[2] \in 0..63 /\ q[3] = 64 /\ q[4] = 64
               /\ High(w) = rest[1]
  <1>1. LET q == last_group(rest)
        IN  q[1] = rest[1] \div 4 /\ q[2] = (rest[1] * 16) % 64 /\ q[3] = 64 /\ q[4] = 64
    BY DEF last_group, Pad
  <1>2. \A a \in 0..255 :
            /\ a \div 4 \in 0..63 /\ (a * 16) % 64 \in 0..63
            /\ High(Quad(a \div 4, (a * 16) % 64, 0, 0)) = a
    BY SMT DEF High, Quad
  <1> QED
    BY <1>1, <1>2, SMT DEF Octet

LEMMA TwoByteGroup ==
    ASSUME NEW rest, Len(rest) = 2, rest[1] \in Octet, rest[2] \in Octet
    PROVE  LET q == last_group(rest)
               w == Quad(q[1], q[2], q[3], 0)
           IN  /\ q[1] \in 0..63 /\ q[2] \in 0..63 /\ q[3] \in 0..63 /\ q[4] = 64
               /\ High(w) = rest[1] /\ Mid(w) = rest[2]
  <1>0. PICK a \in 0..255, b \in 0..255 : rest[1] = a /\ rest[2] = b
    BY DEF Octet
  <1> DEFINE v == a * 256 + b
  <1>1. LET q == last_group(rest)
        IN  q[1] = v \div 1024 /\ q[2] = (v \div 16) % 64 /\ q[3] = (v * 4) % 64 /\ q[4] = 64
    BY <1>0 DEF last_group, Pad
  <1>2. v \in Nat /\ v < 65536 /\ v \div 256 = a /\ v % 256 = b
    BY SMT
  <1> HIDE DEF v
  <1> DEFINE p == v \div 16
             r == v \div 1024
  <1>3. p \in Nat /\ r \in 0..63 /\ p % 64 \in 0..63 /\ (v * 4) % 64 \in 0..63
    BY <1>2, SMT
  <1>4. p % 64 = p - 64 * r /\ (v * 4) % 64 = 4 * (v - 16 * p)
    BY <1>2, SMT
  <1> HIDE DEF p, r
  <1>5. Quad(r, p % 64, (v * 4) % 64, 0) = 256 * v
    BY <1>2, <1>3, <1>4, SMT DEF Quad
  <1>6. High(256 * v) = a /\ Mid(256 * v) = b
    <2>1. (256 * v) \div 65536 = v \div 256 /\ (256 * v) \div 256 = v
      BY <1>2, SMT
    <2> QED
      BY <1>2, <2>1 DEF High, Mid
  <1> DEFINE q == last_group(rest)
             w == Quad(q[1], q[2], q[3], 0)
  <1>7. q[1] = r /\ q[2] = p % 64 /\ q[3] = (v * 4) % 64 /\ q[4] = 64
    BY <1>1 DEF p, r
  <1> HIDE DEF q
  <1>8. w = 256 * v
    BY <1>5, <1>7
  <1> HIDE DEF w
  <1>9. q[1] \in 0..63 /\ q[2] \in 0..63 /\ q[3] \in 0..63
    BY <1>3, <1>7
  <1>10. High(w) = rest[1] /\ Mid(w) = rest[2]
    BY <1>0, <1>6, <1>8
  <1> QED
    BY <1>7, <1>9, <1>10 DEF q, w

(* Where the characters of group g stand, and what they are. *)
LEMMA GroupIndex ==
    ASSUME NEW g \in Nat \ {0}
    PROVE  /\ ((4 * g - 3 - 1) \div 4) + 1 = g /\ ((4 * g - 3 - 1) % 4) + 1 = 1
           /\ ((4 * g - 2 - 1) \div 4) + 1 = g /\ ((4 * g - 2 - 1) % 4) + 1 = 2
           /\ ((4 * g - 1 - 1) \div 4) + 1 = g /\ ((4 * g - 1 - 1) % 4) + 1 = 3
           /\ ((4 * g - 1) \div 4) + 1 = g /\ ((4 * g - 1) % 4) + 1 = 4
  BY SMT

Group(d, g) ==
    IF 3 * g <= Len(d) THEN full_group(d[3 * g - 2], d[3 * g - 1], d[3 * g])
    ELSE last_group(SubSeq(d, 3 * g - 2, Len(d)))

Groups(d) == (Len(d) + 2) \div 3

LEMMA EncodedGroups ==
    ASSUME NEW d \in Seq(Octet)
    PROVE  LET e == base64_encode(d)
           IN  /\ Groups(d) \in Nat /\ Len(e) = 4 * Groups(d) /\ DOMAIN e = 1..(4 * Groups(d))
               /\ \A g \in 1..Groups(d) :
                     /\ e[4 * g - 3] = Group(d, g)[1] /\ e[4 * g - 2] = Group(d, g)[2]
                     /\ e[4 * g - 1] = Group(d, g)[3] /\ e[4 * g] = Group(d, g)[4]
  <1> DEFINE G == Groups(d)
             n == Len(d)
             e == base64_encode(d)
             N == ((n + 2) \div 3) * 4
  <1>1. n \in Nat
    OBVIOUS
  <1>2. G \in Nat /\ N = 4 * G
    BY <1>1, SMT DEF Groups
  <1>3. e = [k \in 1..N |-> Group(d, ((k - 1) \div 4) + 1)[((k - 1) % 4) + 1]]
    BY DEF base64_encode, Group
  <1> HIDE DEF e, G, N, n
  <1>4. e = [k \in 1..(4 * G) |-> Group(d, ((k - 1) \div 4) + 1)[((k - 1) % 4) + 1]]
    BY <1>2, <1>3
  <1>5. 4 * G \in Nat
    BY <1>2
  <1>6. DOMAIN e = 1..(4 * G) /\ Len(e) = 4 * G
    <2>1. DOMAIN e = 1..(4 * G)
      BY <1>4
    <2> QED
      BY <1>4, <1>5
  <1>7. ASSUME NEW g \in 1..G
        PROVE  /\ e[4 * g - 3] = Group(d, g)[1] /\ e[4 * g - 2] = Group(d, g)[2]
               /\ e[4 * g - 1] = Group(d, g)[3] /\ e[4 * g] = Group(d, g)[4]
    <2>1. /\ 4 * g - 3 \in 1..(4 * G) /\ 4 * g - 2 \in 1..(4 * G)
          /\ 4 * g - 1 \in 1..(4 * G) /\ 4 * g \in 1..(4 * G) /\ g \in Nat \ {0}
      BY <1>2
    <2>2. /\ e[4 * g - 3] = Group(d, ((4 * g - 3 - 1) \div 4) + 1)[((4 * g - 3 - 1) % 4) + 1]
          /\ e[4 * g - 2] = Group(d, ((4 * g - 2 - 1) \div 4) + 1)[((4 * g - 2 - 1) % 4) + 1]
          /\ e[4 * g - 1] = Group(d, ((4 * g - 1 - 1) \div 4) + 1)[((4 * g - 1 - 1) % 4) + 1]
          /\ e[4 * g] = Group(d, ((4 * g - 1) \div 4) + 1)[((4 * g - 1) % 4) + 1]
      BY <1>4, <2>1, Zenon
    <2> QED
      BY <2>1, <2>2, GroupIndex, Zenon
  <1> QED
    BY <1>2, <1>6, <1>7 DEF e, G

LEMMA GroupBounds ==
    ASSUME NEW n \in Nat, NEW G, G = (n + 2) \div 3
    PROVE  G \in Nat /\ 3 * G <= n + 2 /\ n <= 3 * G
  BY SMT

(* The four characters of group g give its bytes back; padding stands only    *)
(* where there is no byte.                                                    *)
LEMMA GroupDecodes ==
    ASSUME NEW d \in Seq(Octet), NEW g \in 1..Groups(d)
    PROVE  LET e == base64_encode(d)
               w == word(e, g)
               n == Len(d)
           IN  /\ e[4 * g - 3] # 64 /\ e[4 * g - 2] # 64
               /\ e[4 * g - 1] = 64 <=> 3 * g - 1 > n
               /\ e[4 * g] = 64 <=> 3 * g > n
               /\ 3 * g - 2 <= n /\ High(w) = d[3 * g - 2]
               /\ 3 * g - 1 <= n => Mid(w) = d[3 * g - 1]
               /\ 3 * g <= n => Low(w) = d[3 * g]
  <1> DEFINE e == base64_encode(d)
             w == word(e, g)
             n == Len(d)
             q == Group(d, g)
  <1>1. /\ e[4 * g - 3] = q[1] /\ e[4 * g - 2] = q[2] /\ e[4 * g - 1] = q[3] /\ e[4 * g] = q[4]
        /\ Groups(d) \in Nat
    BY EncodedGroups
  <1>2. n \in Nat /\ g \in Nat /\ g >= 1 /\ g <= Groups(d)
    BY <1>1
  <1>3. 3 * Groups(d) <= n + 2
    BY <1>2, GroupBounds DEF Groups
  <1>4. 3 * g <= n + 2
    BY <1>1, <1>2, <1>3, SMT
  <1>5. w = Quad(digit(q[1]), digit(q[2]), digit(q[3]), digit(q[4]))
    BY <1>1, SMT DEF word, Quad
  <1> HIDE DEF e, w
  <1>6. \A x \in 0..63 : x # 64 /\ digit(x) = x
    BY SMT DEF digit, Pad
  <1>7. digit(64) = 0
    BY DEF digit, Pad
  <1>8. CASE 3 * g <= n
    <2>1. 3 * g - 2 \in 1..n /\ 3 * g - 1 \in 1..n /\ 3 * g \in 1..n
      BY <1>2, <1>8
    <2>2. d[3 * g - 2] \in Octet /\ d[3 * g - 1] \in Octet /\ d[3 * g] \in Octet
      BY <2>1
    <2>3. q = full_group(d[3 * g - 2], d[3 * g - 1], d[3 * g])
      BY <1>8 DEF Group
    <2> HIDE DEF q, n
    <2> DEFINE u == Quad(q[1], q[2], q[3], q[4])
    <2>4. /\ \A i \in 1..4 : q[i] \in 0..63
          /\ High(u) = d[3 * g - 2] /\ Mid(u) = d[3 * g - 1] /\ Low(u) = d[3 * g]
      <3>1. PICK a \in Octet, b \in Octet, c \in Octet :
               a = d[3 * g - 2] /\ b = d[3 * g - 1] /\ c = d[3 * g]
        BY <2>2
      <3>2. q = full_group(a, b, c)
        BY <2>3, <3>1
      <3>3. /\ \A i \in 1..4 : q[i] \in 0..63
            /\ High(u) = a /\ Mid(u) = b /\ Low(u) = c
        BY <3>2, FullGroup
      <3> QED
        BY <3>1, <3>3
    <2>5. q[1] \in 0..63 /\ q[2] \in 0..63 /\ q[3] \in 0..63 /\ q[4] \in 0..63
      BY <2>4
    <2>6. w = u
      BY <1>5, <1>6, <2>5
    <2> HIDE DEF u
    <2>7. e[4 * g - 3] # 64 /\ e[4 * g - 2] # 64 /\ e[4 * g - 1] # 64 /\ e[4 * g] # 64
      BY <1>1, <1>6, <2>5
    <2>8. ~(3 * g - 1 > n) /\ ~(3 * g > n) /\ 3 * g - 2 <= n
      BY <1>2, <1>8
    <2>9. High(w) = d[3 * g - 2] /\ Mid(w) = d[3 * g - 1] /\ Low(w) = d[3 * g]
      BY <2>4, <2>6
    <2> QED
      BY <2>7, <2>8, <2>9 DEF e, w, n
  <1>9. CASE 3 * g = n + 1
    <2> DEFINE rest == SubSeq(d, 3 * g - 2, n)
    <2>1. Len(rest) = 2 /\ rest[1] = d[3 * g - 2] /\ rest[2] = d[3 * g - 1]
      <3>1. 3 * g - 2 = n - 1 /\ n >= 2 /\ 3 * g - 1 = n
        BY <1>2, <1>9
      <3> QED
        BY <1>2, <3>1
    <2>2. rest[1] \in Octet /\ rest[2] \in Octet
      <3>1. 3 * g - 2 \in 1..n /\ 3 * g - 1 \in 1..n
        BY <1>2, <1>9
      <3> QED
        BY <2>1, <3>1
    <2>3. q = last_group(rest)
      BY <1>2, <1>9 DEF Group
    <2> HIDE DEF q, n, rest
    <2> DEFINE u == Quad(q[1], q[2], q[3], 0)
    <2>4. /\ q[1] \in 0..63 /\ q[2] \in 0..63 /\ q[3] \in 0..63 /\ q[4] = 64
          /\ High(u) = rest[1] /\ Mid(u) = rest[2]
      BY <2>1, <2>2, <2>3, TwoByteGroup
    <2>5. w = u
      BY <1>5, <1>6, <1>7, <2>4
    <2> HIDE DEF u
    <2>6. e[4 * g - 3] # 64 /\ e[4 * g - 2] # 64 /\ e[4 * g - 1] # 64 /\ e[4 * g] = 64
      BY <1>1, <1>6, <2>4
    <2>7. ~(3 * g - 1 > n) /\ 3 * g > n /\ 3 * g - 2 <= n /\ ~(3 * g <= n)
      BY <1>2, <1>9
    <2>8. High(w) = d[3 * g - 2] /\ Mid(w) = d[3 * g - 1]
      BY <2>1, <2>4, <2>5
    <2> QED
      BY <2>6, <2>7, <2>8 DEF e, w, n
  <1>10. CASE 3 * g = n + 2
    <2> DEFINE rest == SubSeq(d, 3 * g - 2, n)
    <2>1. Len(rest) = 1 /\ rest[1] = d[3 * g - 2]
      <3>1. 3 * g - 2 = n /\ n >= 1
        BY <1>2, <1>10
      <3> QED
        BY <1>2, <3>1
    <2>2. rest[1] \in Octet
      <3>1. 3 * g - 2 \in 1..n
        BY <1>2, <1>10
      <3> QED
        BY <2>1, <3>1
    <2>3. q = last_group(rest)
      BY <1>2, <1>10 DEF Group
    <2> HIDE DEF q, n, rest
    <2> DEFINE u == Quad(q[1], q[2], 0, 0)
    <2>4. /\ q[1] \in 0..63 /\ q[2] \in 0..63 /\ q[3] = 64 /\ q[4] = 64
          /\ High(u) = rest[1]
      BY <2>1, <2>2, <2>3, OneByteGroup
    <2>5. w = u
      BY <1>5, <1>6, <1>7, <2>4
    <2> HIDE DEF u
    <2>6. e[4 * g - 3] # 64 /\ e[4 * g - 2] # 64 /\ e[4 * g - 1] = 64 /\ e[4 * g] = 64
      BY <1>1, <1>6, <2>4
    <2>7. 3 * g - 1 > n /\ 3 * g > n /\ 3 * g - 2 <= n /\ ~(3 * g <= n) /\ ~(3 * g - 1 <= n)
      BY <1>2, <1>10
    <2>8. High(w) = d[3 * g - 2]
      BY <2>1, <2>4, <2>5
    <2> QED
      BY <2>6, <2>7, <2>8 DEF e, w, n
  <1> QED
    BY <1>2, <1>4, <1>8, <1>9, <1>10

(* The instance counts as this module does. *)
LEMMA SameCardinality == \A S : Cardinality(S) = Cardinality(S)
  BY Zenon DEF Cardinality, Cardinality

(* The padding characters fill the last group. *)
LEMMA Padding ==
    ASSUME NEW d \in Seq(Octet)
    PROVE  LET e == base64_encode(d)
               P == {k \in 1..Len(e) : e[k] = 64}
           IN  Cardinality(P) = 3 * Groups(d) - Len(d)
  <1> DEFINE e == base64_encode(d)
             G == Groups(d)
             n == Len(d)
             P == {k \in 1..Len(e) : e[k] = 64}
  <1>1. G \in Nat /\ Len(e) = 4 * G
    BY EncodedGroups
  <1>2. n \in Nat /\ 3 * G <= n + 2 /\ n <= 3 * G
    BY GroupBounds DEF Groups
  <1>3. \A g \in 1..G : /\ e[4 * g - 3] # 64 /\ e[4 * g - 2] # 64
                        /\ e[4 * g - 1] = 64 <=> 3 * g - 1 > n
                        /\ e[4 * g] = 64 <=> 3 * g > n
    BY GroupDecodes
  <1> HIDE DEF e, G, n
  <1>4. ASSUME NEW k \in 1..(4 * G)
        PROVE  \E g \in 1..G : k = 4 * g - 3 \/ k = 4 * g - 2 \/ k = 4 * g - 1 \/ k = 4 * g
    <2> DEFINE g == ((k - 1) \div 4) + 1
    <2>1. k \in Nat /\ k >= 1 /\ k <= 4 * G
      BY <1>1
    <2>2. g \in 1..G /\ (k = 4 * g - 3 \/ k = 4 * g - 2 \/ k = 4 * g - 1 \/ k = 4 * g)
      BY <1>1, <2>1, SMT
    <2> HIDE DEF g
    <2> QED
      BY <2>2
  <1>5. ASSUME NEW k \in P
        PROVE  /\ k = 4 * G - 1 => 3 * G - 1 > n
               /\ k = 4 * G \/ k = 4 * G - 1
               /\ 3 * G > n
    <2>1. k \in 1..(4 * G) /\ e[k] = 64
      BY <1>1
    <2>2. PICK g \in 1..G : k = 4 * g - 3 \/ k = 4 * g - 2 \/ k = 4 * g - 1 \/ k = 4 * g
      BY <1>4, <2>1
    <2>3. (k = 4 * g - 1 /\ 3 * g - 1 > n) \/ (k = 4 * g /\ 3 * g > n)
      BY <1>3, <2>1, <2>2
    <2>4. g = G
      BY <1>1, <1>2, <2>3
    <2> QED
      BY <1>1, <1>2, <2>3, <2>4
  <1>6. CASE 3 * G = n
    <2>1. P = {}
      BY <1>1, <1>2, <1>5, <1>6
    <2> HIDE DEF P
    <2>2. Cardinality(P) = 0
      BY <2>1, FS_EmptySet
    <2>3. Cardinality(P) = 3 * G - n
      BY <1>1, <1>2, <1>6, <2>2
    <2> QED
      BY <2>3 DEF P, e, G, n
  <1>7. ASSUME 3 * G > n PROVE 4 * G \in P /\ G \in 1..G
    <2>1. G \in 1..G /\ 4 * G \in 1..(4 * G)
      BY <1>1, <1>2, <1>7
    <2> QED
      BY <1>1, <1>3, <1>7, <2>1
  <1>8. CASE 3 * G = n + 1
    <2>1. 3 * G > n /\ ~(3 * G - 1 > n)
      BY <1>1, <1>2, <1>8
    <2>2. P = {4 * G}
      BY <1>5, <1>7, <2>1
    <2>3. Cardinality(P) = 1
      BY <2>2, FS_Singleton
    <2> QED
      BY <1>1, <1>2, <1>8, <2>3 DEF e, G, n
  <1>9. CASE 3 * G = n + 2
    <2>1. 3 * G > n /\ 3 * G - 1 > n /\ G \in 1..G /\ 4 * G - 1 \in 1..(4 * G)
      BY <1>1, <1>2, <1>9
    <2>2. 4 * G - 1 \in P /\ 4 * G \in P
      BY <1>1, <1>3, <1>7, <2>1
    <2> DEFINE x == 4 * G - 1
               S == {4 * G}
    <2>3. P = S \cup {x} /\ x \notin S
      BY <1>1, <1>5, <2>2
    <2>4. IsFiniteSet(S) /\ Cardinality(S) = 1
      BY FS_Singleton
    <2> HIDE DEF P, S, x
    <2>5. Cardinality(S \cup {x}) = Cardinality(S) + 1
      BY <2>3, <2>4, FS_AddElement
    <2>6. Cardinality(P) = 3 * G - n
      BY <1>1, <1>2, <1>9, <2>3, <2>4, <2>5
    <2> QED
      BY <2>6 DEF P, e, G, n
  <1> QED
    BY <1>1, <1>2, <1>6, <1>8, <1>9

(* The accept value of a handshake carries its digest: for every sequence of  *)
(* bytes, what RFC 4648 decodes from base64_encode is that sequence.          *)
THEOREM Base64RoundTrip ==
    ASSUME NEW d \in Seq(0..255)
    PROVE  base64_decode(base64_encode(d)) = d
  <1> DEFINE e == base64_encode(d)
             G == Groups(d)
             n == Len(d)
             P == {k \in 1..Len(e) : e[k] = 64}
             size == (Len(e) \div 4) * 3 - Cardinality(P)
             Dec(k) == octet(word(e, ((k - 1) \div 3) + 1), k)
  <1>1. d \in Seq(Octet)
    BY DEF Octet
  <1>2. base64_decode(e) = [k \in 1..size |-> Dec(k)]
    BY SameCardinality DEF base64_decode, Pad
  <1>3. size = n
    <2>1. Len(e) = 4 * G /\ G \in Nat /\ Cardinality(P) = 3 * G - n
      BY <1>1, EncodedGroups, Padding
    <2>2. n \in Nat /\ (4 * G) \div 4 = G
      BY <2>1, SMT
    <2> HIDE DEF e, G, n, P
    <2> QED
      BY <2>1, <2>2, SMT
  <1>4. ASSUME NEW k \in 1..n PROVE Dec(k) = d[k]
    <2> DEFINE g == ((k - 1) \div 3) + 1
    <2>1. n \in Nat /\ G \in Nat /\ n <= 3 * G
      <3>1. n \in Nat /\ G = (n + 2) \div 3
        BY <1>1 DEF Groups
      <3> HIDE DEF n, G
      <3> QED
        BY <3>1, GroupBounds
    <2>2. /\ g \in 1..G
          /\ k % 3 = 1 => k = 3 * g - 2
          /\ k % 3 = 2 => k = 3 * g - 1
          /\ k % 3 # 1 /\ k % 3 # 2 => k = 3 * g
      <3> HIDE DEF n, G
      <3>1. k \in Nat /\ k >= 1 /\ k <= n
        BY <2>1
      <3> QED
        BY <2>1, <3>1, SMT
    <2> HIDE DEF g
    <2>3. /\ High(word(e, g)) = d[3 * g - 2]
          /\ 3 * g - 1 <= n => Mid(word(e, g)) = d[3 * g - 1]
          /\ 3 * g <= n => Low(word(e, g)) = d[3 * g]
      BY <1>1, <2>2, GroupDecodes
    <2>4. Dec(k) = IF k % 3 = 1 THEN High(word(e, g))
                   ELSE IF k % 3 = 2 THEN Mid(word(e, g)) ELSE Low(word(e, g))
      BY SMT DEF g, octet, High, Mid, Low
    <2>5. k <= n
      BY <2>1
    <2> HIDE DEF Dec, e, n
    <2> QED
      BY <2>2, <2>3, <2>4, <2>5
  <1>5. d = [k \in 1..n |-> d[k]]
    OBVIOUS
  <1> HIDE DEF Dec, size, n, e
  <1>6. [k \in 1..size |-> Dec(k)] = [k \in 1..n |-> d[k]]
    BY <1>3, <1>4
  <1> QED
    BY <1>2, <1>5, <1>6 DEF e

-----------------------------------------------------------------------------
(* The frame codec.  Sizes, and what the parser says of a frame. *)

LEMMA FrameSizes ==
    ASSUME NEW f, f.len \in Nat
    PROVE  /\ HeaderSize(f) \in Nat /\ HeaderSize(f) >= 2
           /\ WireSize(f) = HeaderSize(f) + f.len /\ WireSize(f) \in Nat
  <1>1. ext_len_bytes(f.len7) \in {0, 2, 8} /\ mask_bytes(f) \in {0, 4}
    BY DEF ext_len_bytes, mask_bytes, kMaskKeyBytes
  <1>2. HeaderSize(f) \in Nat /\ HeaderSize(f) >= 2
    BY <1>1 DEF HeaderSize, kBaseHeaderBytes
  <1> QED
    BY <1>2 DEF WireSize

(* The payload is unmasked with the key bytes it was masked with. *)
LEMMA PayloadIsPlain ==
    ASSUME NEW f, f.len \in Nat, f.masked \in BOOLEAN
    PROVE  payload_of(f, ext_len_bytes(f.len7), HeaderSize(f)) = Plain(f.len)
  <1> DEFINE key == 2 + ext_len_bytes(f.len7)
             hs == HeaderSize(f)
             piece(i) == LET byte == Byte(f, hs + i) IN
                 IF f.masked THEN Unmask(byte, Byte(f, key + (i % 4)))
                 ELSE IF Len(byte) = 3 THEN <<"plain", byte[2]>> ELSE <<"garbage">>
  <1>1. /\ key \in Nat /\ hs \in Nat
        /\ (f.masked => hs = key + 4) /\ (~f.masked => hs = key)
    <2>1. ext_len_bytes(f.len7) \in {0, 2, 8}
      BY DEF ext_len_bytes
    <2> QED
      BY <2>1 DEF HeaderSize, mask_bytes, kMaskKeyBytes, kBaseHeaderBytes
  <1>2. payload_of(f, ext_len_bytes(f.len7), hs)
          = [i \in Sample(f.len) |-> piece(i)]
    BY DEF payload_of, kBaseHeaderBytes, kMaskKeyBytes
  <1>3. \A i \in Sample(f.len) : i \in Nat
    BY DEF Sample
  <1>4. ASSUME NEW i \in Nat PROVE piece(i) = <<"plain", i>>
    <2>1. /\ hs + i >= hs /\ (hs + i) - hs = i /\ i % 4 \in 0..3
          /\ key + (i % 4) \in Nat /\ (key + (i % 4)) - key = i % 4 /\ key + (i % 4) >= key
          /\ f.masked => ~(key + (i % 4) >= hs)
      BY <1>1
    <2> HIDE DEF hs
    <2>2. Byte(f, hs + i) = <<"payload", i, IF f.masked THEN i % 4 ELSE 4>>
      BY <2>1 DEF Byte, kMaskKeyBytes, hs
    <2>3. f.masked => Byte(f, key + (i % 4)) = <<"key", i % 4>>
      BY <2>1 DEF Byte, kBaseHeaderBytes, hs
    <2> HIDE DEF key
    <2>4. CASE f.masked
      BY <2>2, <2>3, <2>4 DEF Unmask
    <2>5. CASE ~f.masked
      BY <2>2, <2>5
    <2> QED
      BY <2>4, <2>5
  <1> HIDE DEF piece, hs
  <1>5. [i \in Sample(f.len) |-> piece(i)] = [i \in Sample(f.len) |-> <<"plain", i>>]
    BY <1>3, <1>4
  <1> QED
    BY <1>2, <1>5 DEF Plain, hs

FrameFields(f) ==
    /\ f.rsv \in BOOLEAN /\ f.fin \in BOOLEAN /\ f.masked \in BOOLEAN /\ f.msb \in BOOLEAN
    /\ f.len \in Nat /\ (f.msb => f.len7 = 127)

(* parse_frame_detailed refuses what is illegal or too large, and returns the *)
(* frame once all its bytes are there.                                        *)
LEMMA ParseVerdict ==
    ASSUME NEW f, FrameFields(f), NEW size \in Nat, MaxPayload \in Nat
    PROVE  LET r == parse_frame_detailed(f, size, MaxPayload, TRUE)
           IN  /\ r.kind \in {"Incomplete", "Protocol", "TooLarge", "Frame"}
               /\ r.kind = "Protocol" => ~Legal(f)
               /\ r.kind = "TooLarge" => Legal(f) /\ f.len > MaxPayload
               /\ r.kind = "Frame" =>
                      /\ Legal(f) /\ f.len <= MaxPayload /\ WireSize(f) <= size
                      /\ r.op = f.op /\ r.consumed = WireSize(f)
                      /\ r.payload = Plain(f.len)
               /\ size = 0 => r.kind = "Incomplete"
  <1> DEFINE r == parse_frame_detailed(f, size, MaxPayload, TRUE)
             base == check_base_header(f, TRUE)
             length == check_length(f, size)
             p == payload_of(f, ext_len_bytes(f.len7), HeaderSize(f))
  <1>1. /\ base \in {"ok", "Protocol"}
        /\ base = "ok" <=> (~f.rsv /\ f.op \in Control \cup Data /\ f.fin /\ f.masked)
    BY DEF check_base_header, is_known_opcode, Control, Data, FrameFields
  <1>2. /\ length \in {"ok", "Incomplete", "Protocol"}
        /\ length = "Protocol" => f.msb
        /\ length = "ok" => ~f.msb
    BY DEF check_length, kPayload64Marker, FrameFields
  <1>3. r = IF size < 2 THEN Refused("Incomplete")
            ELSE IF base # "ok" THEN Refused(base)
            ELSE IF length # "ok" THEN Refused(length)
            ELSE IF f.len > MaxPayload THEN Refused("TooLarge")
            ELSE IF size < WireSize(f) THEN Refused("Incomplete")
            ELSE [kind |-> "Frame", op |-> f.op, consumed |-> WireSize(f), payload |-> p]
    BY DEF parse_frame_detailed, WireSize, HeaderSize, kBaseHeaderBytes
  <1>4. p = Plain(f.len)
    BY PayloadIsPlain DEF FrameFields
  <1>5. \A kind : Refused(kind).kind = kind
    BY DEF Refused
  <1>6. WireSize(f) \in Nat /\ f.len \in Nat
    BY FrameSizes DEF FrameFields
  <1>7. Legal(f) <=> (base = "ok" /\ ~f.msb)
    BY <1>1 DEF Legal
  <1> HIDE DEF r, base, length, p
  <1>8. CASE size < 2 \/ base # "ok" \/ length # "ok"
    <2>1. /\ size < 2 => r.kind = "Incomplete"
          /\ ~(size < 2) /\ base # "ok" => r.kind = "Protocol" /\ ~Legal(f)
          /\ ~(size < 2) /\ base = "ok" /\ length # "ok" => r.kind = length
      BY <1>1, <1>3, <1>5, <1>7
    <2>2. r.kind \in {"Incomplete", "Protocol"} /\ (r.kind = "Protocol" => ~Legal(f))
      BY <1>2, <1>7, <1>8, <2>1
    <2> QED
      <3>1. size = 0 => r.kind = "Incomplete"
        BY <2>1
      <3> QED
        BY <2>2, <3>1 DEF r
  <1>9. CASE ~(size < 2) /\ base = "ok" /\ length = "ok"
    <2>1. Legal(f) /\ size # 0
      BY <1>2, <1>7, <1>9
    <2>2. CASE f.len > MaxPayload
      BY <1>3, <1>5, <1>9, <2>1, <2>2 DEF r
    <2>3. CASE ~(f.len > MaxPayload) /\ size < WireSize(f)
      BY <1>3, <1>5, <1>9, <2>1, <2>3 DEF r
    <2>4. CASE ~(f.len > MaxPayload) /\ ~(size < WireSize(f))
      <3>1. r = [kind |-> "Frame", op |-> f.op, consumed |-> WireSize(f), payload |-> p]
        BY <1>3, <1>9, <2>4
      <3>2. f.len <= MaxPayload /\ WireSize(f) <= size
        BY <1>6, <2>4
      <3>3. /\ r.kind = "Frame" /\ r.op = f.op /\ r.consumed = WireSize(f)
            /\ r.payload = Plain(f.len)
        BY <1>4, <3>1
      <3>4. r.kind # "Protocol" /\ r.kind # "TooLarge" /\ r.kind # "Incomplete"
        BY <3>3
      <3> QED
        BY <2>1, <3>2, <3>3, <3>4 DEF r
    <2> QED
      BY <2>2, <2>3, <2>4
  <1> QED
    BY <1>8, <1>9

(* What the server emits, and what a client that takes up to limit bytes reads. *)
Emitted(op, n) == emit_frame(op, TRUE, n)
ReadWith(f, limit) == parse_frame_detailed(f, WireSize(f), limit, FALSE)

(* A frame the server emits, of any size, is read back whole by a client that *)
(* takes that size: emit_frame and parse_frame_detailed agree on every length *)
(* encoding.                                                                  *)
THEOREM FrameRoundTrip ==
    ASSUME NEW op \in {"Text", "Binary", "Ping", "Pong", "Close"}, NEW n \in Nat,
           NEW limit \in Nat, n <= limit
    PROVE  /\ Emitted(op, n).op = op /\ Emitted(op, n).len = n
           /\ ReadWith(Emitted(op, n), limit).kind = "Frame"
           /\ ReadWith(Emitted(op, n), limit).op = op
           /\ ReadWith(Emitted(op, n), limit).payload = Plain(n)
  <1> DEFINE f == emit_frame(op, TRUE, n)
             size == WireSize(f)
             r == parse_frame_detailed(f, size, limit, FALSE)
             p == payload_of(f, ext_len_bytes(f.len7), HeaderSize(f))
  <1>1. /\ f.rsv = FALSE /\ f.op = op /\ f.fin = TRUE /\ f.masked = FALSE /\ f.msb = FALSE
        /\ f.len7 = len7_of(n) /\ f.len = length_field(len7_of(n), n)
    BY DEF emit_frame
  <1>2. f.len = n
    <2>1. length_field(len7_of(n), n) = n
      BY SMT DEF length_field, len7_of, kPayload16Marker, kPayload64Marker,
                 kMaxUint16
    <2> QED
      BY <1>1, <2>1
  <1> HIDE DEF f
  <1>3. size \in Nat /\ ~(size < 2) /\ ~(size < 2 + ext_len_bytes(f.len7))
    <2>1. ext_len_bytes(f.len7) \in {0, 2, 8} /\ mask_bytes(f) = 0
      BY <1>1 DEF ext_len_bytes, mask_bytes
    <2> QED
      BY <1>2, <2>1 DEF WireSize, HeaderSize, kBaseHeaderBytes
  <1>4. check_base_header(f, FALSE) = "ok"
    BY <1>1 DEF check_base_header, is_known_opcode, Control, Data
  <1>5. check_length(f, size) = "ok"
    BY <1>1, <1>3 DEF check_length, kBaseHeaderBytes
  <1>6. r = IF size < 2 THEN Refused("Incomplete")
            ELSE IF check_base_header(f, FALSE) # "ok"
            THEN Refused(check_base_header(f, FALSE))
            ELSE IF check_length(f, size) # "ok" THEN Refused(check_length(f, size))
            ELSE IF f.len > limit THEN Refused("TooLarge")
            ELSE IF size < size THEN Refused("Incomplete")
            ELSE [kind |-> "Frame", op |-> f.op, consumed |-> size, payload |-> p]
    BY DEF parse_frame_detailed, WireSize, HeaderSize, kBaseHeaderBytes
  <1>7. p = Plain(n)
    BY <1>1, <1>2, PayloadIsPlain
  <1> HIDE DEF size, p, r
  <1>8. ~(f.len > limit) /\ ~(size < size)
    BY <1>2, <1>3
  <1>9. r = [kind |-> "Frame", op |-> f.op, consumed |-> size, payload |-> p]
    BY <1>3, <1>4, <1>5, <1>6, <1>8
  <1>10. r.kind = "Frame" /\ r.op = op /\ r.payload = Plain(n)
    BY <1>1, <1>7, <1>9
  <1> QED
    BY <1>1, <1>2, <1>10 DEF f, r, size, Emitted, ReadWith

-----------------------------------------------------------------------------
(* Where the frames start.  Induction is by the least counterexample. *)

LEMMA LeastNumber ==
    ASSUME NEW T, T \subseteq Nat, T # {}
    PROVE  \E k \in T : \A j \in T : k <= j
  <1> DEFINE R == OpToRel(<, Nat)
  <1>1. IsWellFoundedOn(R, Nat)
    BY NatLessThanWellFounded
  <1>2. \A i, j \in Nat : j < i => <<j, i>> \in R
    BY DEF OpToRel
  <1> HIDE DEF R
  <1>3. PICK i \in T : \A j \in T : ~(<<j, i>> \in R)
    BY <1>1, WFMin
  <1>4. ASSUME NEW j \in T PROVE i <= j
    <2>1. i \in Nat /\ j \in Nat
      OBVIOUS
    <2>2. ~(j < i)
      BY <1>2, <1>3, <2>1
    <2> QED
      BY <2>1, <2>2
  <1> QED
    BY <1>4

Size(s, i) == WireSize(s[i])

(* g[i] is the number of bytes before frame i. *)
Starts(g, s, n) == g[1] = 0 /\ \A i \in 2..n : g[i] = g[i - 1] + Size(s, i - 1)

LEMMA StartsExist ==
    ASSUME NEW s, NEW n \in Nat \ {0}
    PROVE  \E g : Starts(g, s, n)
  <1> SUFFICES ASSUME ~(\E g : Starts(g, s, n)) PROVE FALSE
    OBVIOUS
  <1> DEFINE Bad == {k \in Nat : k # 0 /\ ~(\E g : Starts(g, s, k))}
  <1>1. PICK k \in Bad : \A j \in Bad : k <= j
    <2>1. n \in Bad /\ Bad \subseteq Nat
      OBVIOUS
    <2> HIDE DEF Bad
    <2> QED
      BY <2>1, LeastNumber
  <1>2. k \in Nat /\ k # 0 /\ ~(\E g : Starts(g, s, k))
    OBVIOUS
  <1>3. k # 1
    <2>1. Starts([i \in {1} |-> 0], s, 1)
      BY DEF Starts
    <2> QED
      BY <1>2, <2>1
  <1>4. k - 1 \in Nat /\ k - 1 # 0 /\ ~(k <= k - 1)
    BY <1>2, <1>3
  <1>5. k - 1 \notin Bad
    BY <1>1, <1>4
  <1>6. PICK g : Starts(g, s, k - 1)
    BY <1>4, <1>5
  <1> DEFINE f == [i \in 1..k |-> IF i = k THEN g[k - 1] + Size(s, k - 1) ELSE g[i]]
  <1>7. f[1] = 0
    BY <1>2, <1>3, <1>6 DEF Starts
  <1>8. ASSUME NEW i \in 2..k PROVE f[i] = f[i - 1] + Size(s, i - 1)
    <2>1. i \in 1..k /\ i - 1 \in 1..k /\ i - 1 # k
      BY <1>2
    <2>2. f[i - 1] = g[i - 1]
      BY <2>1
    <2>3. CASE i = k
      BY <2>1, <2>2, <2>3
    <2>4. CASE i # k
      <3>1. i \in 2..(k - 1)
        BY <1>2, <2>4
      <3> QED
        BY <1>6, <2>1, <2>2, <2>4, <3>1 DEF Starts
    <2> QED
      BY <2>3, <2>4
  <1> HIDE DEF f
  <1>9. Starts(f, s, k)
    BY <1>7, <1>8 DEF Starts
  <1> QED
    BY <1>2, <1>9

LEMMA StartIs ==
    ASSUME NEW s, NEW n \in Nat \ {0}
    PROVE  \E g : Starts(g, s, n) /\ StartOf(s, n) = g[n]
  <1> DEFINE Rec(f) == f = [i \in 1..n |-> IF i = 1 THEN 0 ELSE f[i - 1] + WireSize(s[i - 1])]
  <1>1. PICK g : Starts(g, s, n)
    BY StartsExist
  <1> DEFINE f == [i \in 1..n |-> g[i]]
  <1>2. \A i \in 1..n : f[i] = IF i = 1 THEN 0 ELSE f[i - 1] + WireSize(s[i - 1])
    <2> SUFFICES ASSUME NEW i \in 1..n
                 PROVE  f[i] = IF i = 1 THEN 0 ELSE f[i - 1] + WireSize(s[i - 1])
      OBVIOUS
    <2>1. CASE i = 1
      BY <1>1, <2>1 DEF Starts
    <2>2. CASE i # 1
      <3>1. i \in 2..n /\ i - 1 \in 1..n
        BY <2>2
      <3>2. f[i - 1] = g[i - 1] /\ f[i] = g[i]
        BY <3>1
      <3> QED
        BY <1>1, <2>2, <3>1, <3>2 DEF Starts, Size
    <2> QED
      BY <2>1, <2>2
  <1>3. f = [i \in 1..n |-> f[i]]
    OBVIOUS
  <1> HIDE DEF f
  <1>4. Rec(f)
    BY <1>2, <1>3
  <1> DEFINE a == CHOOSE x : Rec(x)
  <1>5. Rec(a)
    BY <1>4
  <1>6. StartOf(s, n) = a[n]
    BY DEF StartOf
  <1> HIDE DEF a
  <1>7. \A i \in 1..n : a[i] = IF i = 1 THEN 0 ELSE a[i - 1] + WireSize(s[i - 1])
    BY <1>5
  <1>8. Starts(a, s, n)
    <2>1. 1 \in 1..n /\ \A i \in 2..n : i \in 1..n /\ i # 1
      OBVIOUS
    <2> QED
      BY <1>7, <2>1 DEF Starts, Size
  <1> QED
    BY <1>6, <1>8

(* Two ways to add up the same sizes agree. *)
LEMMA StartsAgree ==
    ASSUME NEW s, NEW n \in Nat \ {0}, NEW m \in Nat, n <= m, NEW g, Starts(g, s, n),
           NEW h, Starts(h, s, m)
    PROVE  g[n] = h[n]
  <1> SUFFICES ASSUME g[n] # h[n] PROVE FALSE
    OBVIOUS
  <1> DEFINE Bad == {k \in Nat : k \in 1..n /\ g[k] # h[k]}
  <1>1. PICK k \in Bad : \A j \in Bad : k <= j
    <2>1. n \in Bad /\ Bad \subseteq Nat
      OBVIOUS
    <2> HIDE DEF Bad
    <2> QED
      BY <2>1, LeastNumber
  <1>2. k \in Nat /\ k \in 1..n /\ g[k] # h[k]
    OBVIOUS
  <1>3. k # 1
    BY <1>2 DEF Starts
  <1>4. k - 1 \in Nat /\ k - 1 \in 1..n /\ ~(k <= k - 1) /\ k \in 2..n /\ k \in 2..m
    BY <1>2, <1>3
  <1>5. g[k - 1] = h[k - 1]
    BY <1>1, <1>4
  <1> QED
    BY <1>2, <1>4, <1>5 DEF Starts

LEMMA StartStep ==
    ASSUME NEW s
    PROVE  /\ StartOf(s, 1) = 0
           /\ \A k \in Nat \ {0} : StartOf(s, k + 1) = StartOf(s, k) + Size(s, k)
  <1>1. StartOf(s, 1) = 0
    <2>1. PICK g : Starts(g, s, 1) /\ StartOf(s, 1) = g[1]
      BY StartIs
    <2> QED
      BY <2>1 DEF Starts
  <1>2. ASSUME NEW k \in Nat \ {0}
        PROVE  StartOf(s, k + 1) = StartOf(s, k) + Size(s, k)
    <2>1. PICK g : Starts(g, s, k) /\ StartOf(s, k) = g[k]
      BY StartIs
    <2>2. k + 1 \in Nat \ {0} /\ k + 1 \in Nat /\ k <= k + 1 /\ k + 1 \in 2..(k + 1) /\ (k + 1) - 1 = k
      OBVIOUS
    <2>3. PICK h : Starts(h, s, k + 1) /\ StartOf(s, k + 1) = h[k + 1]
      BY <2>2, StartIs
    <2>4. g[k] = h[k]
      BY <2>1, <2>2, <2>3, StartsAgree
    <2>5. h[k + 1] = h[k] + Size(s, k)
      BY <2>2, <2>3 DEF Starts
    <2> QED
      BY <2>1, <2>3, <2>4, <2>5
  <1> QED
    BY <1>1, <1>2

(* A sequence of frames that a client can send. *)
FrameSeq(s) ==
    /\ s \in Seq(ClientFrame)
    /\ \A k \in 1..Len(s) : s[k].msb => s[k].len7 = kPayload64Marker

LEMMA FieldsOfFrame ==
    ASSUME NEW s, FrameSeq(s), NEW k \in 1..Len(s)
    PROVE  FrameFields(s[k]) /\ s[k].code \in Nat
  <1>1. s[k] \in ClientFrame
    BY DEF FrameSeq
  <1>2. /\ s[k].rsv \in BOOLEAN /\ s[k].fin \in BOOLEAN /\ s[k].masked \in BOOLEAN
        /\ s[k].msb \in BOOLEAN /\ s[k].len \in Nat /\ s[k].code \in Nat
    BY <1>1, Zenon DEF ClientFrame
  <1>3. s[k].msb => s[k].len7 = 127
    BY DEF FrameSeq, kPayload64Marker
  <1> QED
    BY <1>2, <1>3 DEF FrameFields

LEMMA SizeNat ==
    ASSUME NEW s, FrameSeq(s), NEW k \in 1..Len(s)
    PROVE  Size(s, k) \in Nat /\ Size(s, k) >= 2
  <1>1. s[k].len \in Nat
    BY FieldsOfFrame DEF FrameFields
  <1> QED
    BY <1>1, FrameSizes DEF Size

LEMMA StartNat ==
    ASSUME NEW s, FrameSeq(s), NEW n \in 1..(Len(s) + 1)
    PROVE  StartOf(s, n) \in Nat
  <1> SUFFICES ASSUME StartOf(s, n) \notin Nat PROVE FALSE
    OBVIOUS
  <1>0. Len(s) \in Nat
    BY DEF FrameSeq
  <1> DEFINE Bad == {k \in Nat : k \in 1..(Len(s) + 1) /\ StartOf(s, k) \notin Nat}
  <1>1. PICK k \in Bad : \A j \in Bad : k <= j
    <2>1. n \in Bad /\ Bad \subseteq Nat
      BY <1>0
    <2> HIDE DEF Bad
    <2> QED
      BY <2>1, LeastNumber
  <1>2. k \in Nat /\ k \in 1..(Len(s) + 1) /\ StartOf(s, k) \notin Nat
    OBVIOUS
  <1>3. k # 1
    BY <1>2, StartStep
  <1>4. k - 1 \in Nat /\ k - 1 \in 1..(Len(s) + 1) /\ ~(k <= k - 1) /\ k - 1 \in 1..Len(s)
        /\ k - 1 \in Nat \ {0} /\ (k - 1) + 1 = k
    BY <1>0, <1>2, <1>3
  <1>5. StartOf(s, k - 1) \in Nat
    BY <1>1, <1>4
  <1>6. StartOf(s, (k - 1) + 1) = StartOf(s, k - 1) + Size(s, k - 1)
    BY <1>4, StartStep
  <1>7. Size(s, k - 1) \in Nat
    BY <1>4, SizeNat
  <1> QED
    BY <1>2, <1>4, <1>5, <1>6, <1>7

(* Frames do not overlap. *)
LEMMA StartOrder ==
    ASSUME NEW s, FrameSeq(s), NEW i \in 1..Len(s), NEW n \in 1..(Len(s) + 1), i < n
    PROVE  StartOf(s, i) + Size(s, i) <= StartOf(s, n)
  <1> DEFINE from == StartOf(s, i) + Size(s, i)
  <1> SUFFICES ASSUME ~(from <= StartOf(s, n)) PROVE FALSE
    OBVIOUS
  <1>0. Len(s) \in Nat /\ i \in Nat \ {0} /\ i \in 1..(Len(s) + 1)
    BY DEF FrameSeq
  <1>a. from \in Nat
    <2>1. StartOf(s, i) \in Nat /\ Size(s, i) \in Nat
      BY <1>0, StartNat, SizeNat
    <2> QED
      BY <2>1
  <1> DEFINE Bad == {k \in Nat : k \in (i + 1)..(Len(s) + 1) /\ ~(from <= StartOf(s, k))}
  <1>1. PICK k \in Bad : \A j \in Bad : k <= j
    <2>1. n \in Bad /\ Bad \subseteq Nat
      BY <1>0
    <2> HIDE DEF Bad
    <2> QED
      BY <2>1, LeastNumber
  <1>2. k \in Nat /\ k \in (i + 1)..(Len(s) + 1) /\ ~(from <= StartOf(s, k))
    OBVIOUS
  <1>3. k # i + 1
    <2>1. StartOf(s, i + 1) = from
      BY <1>0, StartStep
    <2> HIDE DEF from
    <2> QED
      BY <1>2, <1>a, <2>1
  <1>4. k - 1 \in Nat /\ k - 1 \in (i + 1)..(Len(s) + 1) /\ ~(k <= k - 1) /\ k - 1 \in 1..Len(s)
        /\ k - 1 \in 1..(Len(s) + 1) /\ k - 1 \in Nat \ {0} /\ (k - 1) + 1 = k
    BY <1>0, <1>2, <1>3
  <1>5. from <= StartOf(s, k - 1)
    BY <1>1, <1>4
  <1>6. StartOf(s, (k - 1) + 1) = StartOf(s, k - 1) + Size(s, k - 1)
    BY <1>4, StartStep
  <1>7. Size(s, k - 1) \in Nat /\ StartOf(s, k - 1) \in Nat
    BY <1>4, SizeNat, StartNat
  <1> HIDE DEF from
  <1> QED
    BY <1>2, <1>4, <1>5, <1>6, <1>7, <1>a

(* The parser, at the start of a frame, looks at that frame. *)
LEMMA FrameAtStart ==
    ASSUME FrameSeq(stream), NEW k \in 1..Len(stream)
    PROVE  FrameAt(StartOf(stream, k)) = stream[k]
  <1> DEFINE at == {i \in 1..Len(stream) : StartOf(stream, i) = StartOf(stream, k)}
  <1>1. ASSUME NEW i \in 1..Len(stream), NEW j \in 1..Len(stream), i < j
        PROVE  StartOf(stream, i) # StartOf(stream, j)
    <2>1. i \in 1..(Len(stream) + 1) /\ j \in 1..(Len(stream) + 1)
      BY DEF FrameSeq
    <2>2. /\ StartOf(stream, i) + Size(stream, i) <= StartOf(stream, j)
          /\ StartOf(stream, i) \in Nat /\ StartOf(stream, j) \in Nat
          /\ Size(stream, i) \in Nat /\ Size(stream, i) >= 2
      BY <1>1, <2>1, StartOrder, StartNat, SizeNat
    <2> QED
      BY <2>2
  <1>2. at = {k}
    <2>1. \A i \in 1..Len(stream) : i < k \/ k < i \/ i = k
      BY DEF FrameSeq
    <2> QED
      BY <1>1, <2>1
  <1>3. FrameAt(StartOf(stream, k)) = stream[CHOOSE i \in at : TRUE]
    BY <1>2 DEF FrameAt
  <1> QED
    BY <1>2, <1>3

(* A read ends inside a frame or behind it. *)
LEMMA CutsWithin ==
    ASSUME NEW s, FrameSeq(s), NEW c \in Cuts(s)
    PROVE  c \in Nat /\ c <= StartOf(s, Len(s) + 1)
  <1>1. PICK k \in 1..Len(s) :
           c \in {StartOf(s, k) + o :
                      o \in 1..(HeaderSize(s[k]) + (IF s[k].len > 0 THEN 1 ELSE 0))}
                   \cup {StartOf(s, k) + WireSize(s[k]) - 1,
                         StartOf(s, k) + WireSize(s[k])}
    BY DEF Cuts
  <1>2. Len(s) \in Nat /\ k \in 1..(Len(s) + 1) /\ Len(s) + 1 \in 1..(Len(s) + 1) /\ k < Len(s) + 1
    BY DEF FrameSeq
  <1>3. s[k].len \in Nat
    BY FieldsOfFrame DEF FrameFields
  <1>4. /\ HeaderSize(s[k]) \in Nat /\ HeaderSize(s[k]) >= 2
        /\ WireSize(s[k]) = HeaderSize(s[k]) + s[k].len /\ Size(s, k) = WireSize(s[k])
    BY <1>3, FrameSizes DEF Size
  <1>5. /\ StartOf(s, k) \in Nat /\ StartOf(s, Len(s) + 1) \in Nat
        /\ StartOf(s, k) + Size(s, k) <= StartOf(s, Len(s) + 1)
    BY <1>2, StartNat, StartOrder
  <1>6. c \in Nat /\ c <= StartOf(s, k) + WireSize(s[k])
    <2>1. CASE \E o \in 1..(HeaderSize(s[k]) + (IF s[k].len > 0 THEN 1 ELSE 0)) :
                   c = StartOf(s, k) + o
      BY <1>3, <1>4, <1>5, <2>1
    <2>2. CASE c = StartOf(s, k) + WireSize(s[k]) - 1
                 \/ c = StartOf(s, k) + WireSize(s[k])
      BY <1>3, <1>4, <1>5, <2>2
    <2> QED
      BY <1>1, <2>1, <2>2
  <1> QED
    BY <1>3, <1>4, <1>5, <1>6

-----------------------------------------------------------------------------
(* The inductive invariant of the connection. *)

Accept(hs) ==
    Http(101, compute_accept_key(ws_find_header(hs, "sec-websocket-key")))
Refusal == Http(400, <<>>)
Written(op, n, code) == OnWire(emit_frame(op, TRUE, n), code)
Sent    == {Accept(hs) : hs \in Requests} \cup {Refusal}
             \cup {Written(op, n, code) : op \in {"Text", "Pong", "Close"}, n \in Nat, code \in Nat}

ErrorCodes == {kCloseProtocolError, kCloseMessageTooLarge}

Taken(f)   == [op |-> f.op, payload |-> Plain(f.len)]
NoClose(h) == \A k \in 1..Len(h) : h[k].op # "Close"

(* A session ends with 1002 or 1009 at a frame that deserves it. *)
Verdict(code, s, h) ==
    LET f == s[Len(h) + 1] IN
    IF code = kCloseProtocolError THEN ~Legal(f) ELSE Legal(f) /\ f.len > MaxPayload

(* How many of the first k frames are answered. *)
Count(h, k) == Cardinality({i \in 1..k : h[i].op # "Pong"})

(* The session has the stream from the 101 on, and until then nothing is written. *)
PhaseOK ==
    /\ headers \in Requests /\ stream \in Streams
    /\ rd \in {"none", "read", "parse", "ended"} /\ owner \in {"http", "session"}
    /\ pc \in {"dispatch", "upgrade", "bad_request"} => owner = "http" /\ out = <<>>
    /\ pc \in {"opened", "parked"} => owner = "session"
    /\ pc = "opened" => rd = "none"
    /\ owner = "http" => rd = "none" /\ (out = <<>> \/ out = <<Refusal>>)
    /\ owner = "session" => validate(headers) /\ out # <<>> /\ out[1] = Accept(headers)
    /\ rd = "none" => handled = <<>> /\ Len(out) <= 1

(* The accumulator starts at the first frame that is not handled. *)
PositionOK ==
    /\ handled \in Seq({Taken(f) : f \in ClientFrame}) /\ Len(handled) <= Len(stream)
    /\ consumed = StartOf(stream, Len(handled) + 1)
    /\ received \in Nat /\ consumed <= received
    /\ received <= StartOf(stream, Len(stream) + 1)
    /\ \A k \in 1..Len(handled) :
           /\ Legal(stream[k]) /\ stream[k].len <= MaxPayload
           /\ handled[k] = Taken(stream[k])

(* What stands at place j, behind the 101. *)
Item(x, j, last, r, s, h) ==
    \E op \in {"Text", "Pong", "Close"}, n \in Nat, code \in Nat :
        /\ x = Written(op, n, code) /\ n <= MaxPayload + 125
        /\ op = "Close" => j = last /\ n <= 125 /\ r = "ended"
        /\ r # "ended" => code = 0
        /\ code \in ErrorCodes /\ NoClose(h) => Verdict(code, s, h)

(* The reply to frame k. *)
Reply(k, s, h, o) ==
    h[k].op \in Data \cup {"Ping"} =>
        /\ 1 + Count(h, k) \in 2..Len(o)
        /\ \E op \in {"Text", "Pong"} : o[1 + Count(h, k)] = Written(op, s[k].len, 0)

WrittenOK ==
    /\ out \in Seq(Sent)
    /\ \A j \in 2..Len(out) : Item(out[j], j, Len(out), rd, stream, handled)
    /\ rd # "ended" => ~close_sent /\ NoClose(handled)
    /\ rd # "ended" /\ owner = "session" => Len(out) = 1 + Count(handled, Len(handled))
    /\ \A k \in 1..Len(handled) : Reply(k, stream, handled, out)

ConnInv == PhaseOK /\ PositionOK /\ WrittenOK

LEMMA CodeFacts ==
    /\ kCloseProtocolError \in Nat /\ kCloseMessageTooLarge \in Nat
    /\ kWebSocketNormalClosureCode \in Nat
    /\ kCloseProtocolError # kCloseMessageTooLarge /\ 0 \notin ErrorCodes
  BY SMT DEF kCloseProtocolError, kCloseMessageTooLarge,
             kWebSocketNormalClosureCode, ErrorCodes

LEMMA SentFields ==
    /\ \A op, n, code : /\ Written(op, n, code).what = "frame" /\ Written(op, n, code).code = code
                        /\ Written(op, n, code).frame = emit_frame(op, TRUE, n)
    /\ \A hs : /\ Accept(hs).what = "http" /\ Accept(hs).status = 101
               /\ Accept(hs).accept
                    = compute_accept_key(ws_find_header(hs, "sec-websocket-key"))
    /\ Refusal.what = "http" /\ Refusal.status = 400
  BY DEF Written, Accept, Refusal, OnWire, Http

LEMMA SentTypes ==
    /\ \A hs \in Requests : Accept(hs) \in Sent
    /\ Refusal \in Sent
    /\ \A op \in {"Text", "Pong", "Close"}, n \in Nat, code \in Nat : Written(op, n, code) \in Sent
  <1>1. \A op \in {"Text", "Pong", "Close"}, n \in Nat, code \in Nat :
            Written(op, n, code)
              \in {Written(p, m, c) : p \in {"Text", "Pong", "Close"}, m \in Nat, c \in Nat}
    OBVIOUS
  <1> QED
    BY <1>1 DEF Sent

LEMMA CountFacts ==
    ASSUME NEW h, NEW k \in Nat
    PROVE  /\ Count(h, k) \in Nat /\ Count(h, 0) = 0
           /\ Count(h, k + 1) = IF h[k + 1].op # "Pong" THEN Count(h, k) + 1 ELSE Count(h, k)
  <1> DEFINE S == {i \in 1..k : h[i].op # "Pong"}
             T == {i \in 1..(k + 1) : h[i].op # "Pong"}
             x == k + 1
  <1>1. IsFiniteSet(S)
    <2>1. IsFiniteSet(1..k) /\ S \subseteq 1..k
      BY FS_Interval
    <2> HIDE DEF S
    <2> QED
      BY <2>1, FS_Subset
  <1>2. Cardinality(S) \in Nat
    BY <1>1, FS_CardinalityType
  <1>3. Count(h, 0) = 0
    <2>1. {i \in 1..0 : h[i].op # "Pong"} = {}
      OBVIOUS
    <2> QED
      BY <2>1, FS_EmptySet DEF Count
  <1>4. CASE h[x].op # "Pong"
    <2>1. T = S \cup {x} /\ x \notin S
      BY <1>4
    <2> HIDE DEF S, T, x
    <2>2. Cardinality(T) = Cardinality(S) + 1
      BY <1>1, <2>1, FS_AddElement
    <2> QED
      BY <1>2, <1>3, <1>4, <2>2 DEF Count, S, T, x
  <1>5. CASE h[x].op = "Pong"
    <2>1. T = S
      BY <1>5
    <2> QED
      BY <1>2, <1>3, <1>5, <2>1 DEF Count
  <1> QED
    BY <1>4, <1>5

LEMMA CountOfMore ==
    ASSUME NEW h, NEW g, NEW k \in Nat, \A i \in 1..k : h[i] = g[i]
    PROVE  Count(h, k) = Count(g, k)
  <1>1. {i \in 1..k : h[i].op # "Pong"} = {i \in 1..k : g[i].op # "Pong"}
    OBVIOUS
  <1> QED
    BY <1>1 DEF Count

(* An item that was written while the loop runs is a reply, wherever it stands. *)
LEMMA ItemOld ==
    ASSUME NEW x, NEW j, NEW n, NEW r, NEW s, NEW h, Item(x, j, n, r, s, h), r # "ended",
           NEW m, NEW q, NEW u, NEW g
    PROVE  Item(x, j, m, q, u, g)
  BY CodeFacts DEF Item

LEMMA ItemKeeps ==
    ASSUME NEW x, NEW j, NEW n, NEW r, NEW s, NEW h, Item(x, j, n, r, s, h),
           NEW q, r = "ended" => q = "ended"
    PROVE  Item(x, j, n, q, s, h)
  BY DEF Item

LEMMA WrittenQuiet ==
    ASSUME WrittenOK, UNCHANGED <<stream, handled, out, owner, close_sent>>,
           rd = "ended" => rd' = "ended"
    PROVE  WrittenOK'
  <1>1. \A j \in 2..Len(out) : Item(out[j], j, Len(out), rd', stream, handled)
    BY ItemKeeps DEF WrittenOK
  <1> QED
    BY <1>1 DEF WrittenOK

LEMMA PositionQuiet ==
    ASSUME PositionOK, UNCHANGED <<stream, handled, consumed>>,
           received' \in Nat, consumed <= received',
           received' <= StartOf(stream, Len(stream) + 1)
    PROVE  PositionOK'
  BY DEF PositionOK

LEMMA TypesOfStream ==
    ASSUME ConnectionTypes, PhaseOK
    PROVE  FrameSeq(stream) /\ MaxPayload \in Nat
  BY DEF ConnectionTypes, PhaseOK, FrameSeq

LEMMA ConnInit == ConnectionTypes /\ ConnectionInit => ConnInv
  <1> SUFFICES ASSUME ConnectionTypes, ConnectionInit PROVE ConnInv
    OBVIOUS
  <1>1. /\ headers \in Requests /\ stream \in Streams /\ pc = "dispatch" /\ owner = "http"
        /\ rd = "none" /\ consumed = 0 /\ received = 0 /\ handled = <<>> /\ ~close_sent /\ out = <<>>
    BY DEF ConnectionInit
  <1>2. PhaseOK
    BY <1>1 DEF PhaseOK
  <1>3. FrameSeq(stream)
    BY <1>2, TypesOfStream
  <1>4. Len(handled) = 0 /\ Len(out) = 0 /\ Len(stream) \in Nat
    BY <1>1, <1>3 DEF FrameSeq
  <1>5. PositionOK
    <2>1. StartOf(stream, 1) = 0
      BY StartStep
    <2>2. StartOf(stream, Len(stream) + 1) \in Nat
      <3>1. Len(stream) + 1 \in 1..(Len(stream) + 1)
        BY <1>4
      <3> QED
        BY <1>3, <3>1, StartNat
    <2>3. handled \in Seq({Taken(f) : f \in ClientFrame})
      BY <1>1
    <2> QED
      BY <1>1, <1>4, <2>1, <2>2, <2>3 DEF PositionOK
  <1>6. WrittenOK
    <2>1. out \in Seq(Sent)
      BY <1>1
    <2> QED
      BY <1>1, <1>4, <2>1 DEF WrittenOK, NoClose
  <1> QED
    BY <1>2, <1>5, <1>6 DEF ConnInv

LEMMA StepHandler ==
    ASSUME ConnInv, WsHandler \/ StartReadLoop \/ SwitchingProtocols
                      \/ ClientCloses \/ ReadFails
    PROVE  ConnInv'
  <1>1. /\ UNCHANGED <<headers, stream, owner, consumed, received, handled, close_sent, out>>
        /\ rd = "ended" => rd' = "ended"
    BY DEF WsHandler, StartReadLoop, SwitchingProtocols, ClientCloses,
           ReadFails, http, readLoop, ConnInv, PhaseOK
  <1>2. PositionOK' /\ WrittenOK'
    BY <1>1, PositionQuiet, WrittenQuiet DEF ConnInv, PositionOK
  <1>3. PhaseOK'
    <2>1. PhaseOK
      BY DEF ConnInv
    <2>2. CASE WsHandler
      BY <1>1, <2>1, <2>2 DEF WsHandler, readLoop, PhaseOK
    <2>3. CASE StartReadLoop
      BY <1>1, <2>1, <2>3 DEF StartReadLoop, PhaseOK
    <2>4. CASE SwitchingProtocols
      BY <1>1, <2>1, <2>4 DEF SwitchingProtocols, readLoop, PhaseOK
    <2>5. CASE ClientCloses
      BY <1>1, <2>1, <2>5 DEF ClientCloses, http, readLoop, PhaseOK
    <2>6. CASE ReadFails
      BY <1>1, <2>1, <2>6 DEF ReadFails, http, PhaseOK
    <2> QED
      BY <2>2, <2>3, <2>4, <2>5, <2>6
  <1> QED
    BY <1>2, <1>3 DEF ConnInv

LEMMA StepUpgrade ==
    ASSUME ConnInv, UpgradeWebSocket
    PROVE  ConnInv'
  <1>1. /\ UNCHANGED <<headers, stream, rd, consumed, received, handled, close_sent>>
        /\ PhaseOK /\ PositionOK /\ WrittenOK /\ pc = "upgrade"
    BY DEF UpgradeWebSocket, readLoop, ConnInv
  <1>2. /\ owner = "http" /\ rd = "none" /\ out = <<>> /\ handled = <<>> /\ Len(handled) = 0
    BY <1>1 DEF PhaseOK
  <1>3. PositionOK'
    BY <1>1, PositionQuiet DEF PositionOK
  <1>4. CASE /\ validate(headers) /\ out' = Append(out, Accept(headers))
             /\ owner' = "session" /\ pc' = "opened"
    <2>1. out' = <<Accept(headers)>> /\ Len(out') = 1 /\ out'[1] = Accept(headers) /\ out' # <<>>
      BY <1>2, <1>4
    <2>2. PhaseOK'
      BY <1>1, <1>2, <1>4, <2>1 DEF PhaseOK
    <2>3. out' \in Seq(Sent)
      <3>1. Accept(headers) \in Sent
        BY <1>1, SentTypes DEF PhaseOK
      <3> QED
        BY <2>1, <3>1
    <2>4. Count(handled, 0) = 0
      BY CountFacts
    <2>5. WrittenOK'
      BY <1>1, <1>2, <2>1, <2>3, <2>4 DEF WrittenOK
    <2> QED
      BY <1>3, <2>2, <2>5 DEF ConnInv
  <1>5. CASE pc' = "bad_request" /\ UNCHANGED <<owner, out>>
    <2>1. PhaseOK'
      BY <1>1, <1>2, <1>5 DEF PhaseOK
    <2>2. WrittenOK'
      BY <1>1, <1>5, WrittenQuiet
    <2> QED
      BY <1>3, <2>1, <2>2 DEF ConnInv
  <1> QED
    BY <1>4, <1>5 DEF UpgradeWebSocket, Accept

LEMMA StepBadRequest ==
    ASSUME ConnInv, BadRequest
    PROVE  ConnInv'
  <1>1. /\ UNCHANGED <<headers, stream, owner, rd, consumed, received, handled, close_sent>>
        /\ PhaseOK /\ PositionOK /\ WrittenOK /\ pc = "bad_request" /\ pc' = "closed"
    BY DEF BadRequest, readLoop, ConnInv
  <1>2. /\ owner = "http" /\ rd = "none" /\ out = <<>> /\ handled = <<>> /\ Len(handled) = 0
    BY <1>1 DEF PhaseOK
  <1>3. PositionOK'
    BY <1>1, PositionQuiet DEF PositionOK
  <1>4. CASE out' = Append(out, Refusal)
    <2>1. out' = <<Refusal>> /\ Len(out') = 1
      BY <1>2, <1>4
    <2>2. PhaseOK'
      BY <1>1, <1>2, <2>1 DEF PhaseOK
    <2>3. out' \in Seq(Sent)
      BY <2>1, SentTypes
    <2>4. WrittenOK'
      BY <1>1, <1>2, <2>1, <2>3 DEF WrittenOK
    <2> QED
      BY <1>3, <2>2, <2>4 DEF ConnInv
  <1>5. CASE UNCHANGED out
    <2>1. PhaseOK'
      BY <1>1, <1>2, <1>5 DEF PhaseOK
    <2>2. WrittenOK'
      BY <1>1, <1>5, WrittenQuiet
    <2> QED
      BY <1>3, <2>1, <2>2 DEF ConnInv
  <1> QED
    BY <1>4, <1>5 DEF BadRequest, Refusal

LEMMA StepReadChunk ==
    ASSUME ConnectionTypes, ConnInv, ReadChunk
    PROVE  ConnInv'
  <1>1. /\ UNCHANGED <<headers, stream, pc, owner, consumed, handled, close_sent, out>>
        /\ PhaseOK /\ PositionOK /\ WrittenOK /\ rd = "read" /\ rd' = "parse"
    BY DEF ReadChunk, http, ConnInv
  <1>2. received' \in Cuts(stream) /\ received' > received
    BY DEF ReadChunk
  <1>3. FrameSeq(stream)
    BY <1>1, TypesOfStream
  <1>4. received' \in Nat /\ received' <= StartOf(stream, Len(stream) + 1)
    BY <1>2, <1>3, CutsWithin
  <1>5. consumed \in Nat
    <2>1. Len(handled) + 1 \in 1..(Len(stream) + 1)
      BY <1>1, <1>3 DEF PositionOK, FrameSeq
    <2> QED
      BY <1>1, <1>3, <2>1, StartNat DEF PositionOK
  <1>6. consumed <= received'
    BY <1>1, <1>2, <1>4, <1>5 DEF PositionOK
  <1>7. PositionOK' /\ WrittenOK'
    BY <1>1, <1>4, <1>6, PositionQuiet, WrittenQuiet
  <1>8. PhaseOK'
    BY <1>1 DEF PhaseOK
  <1> QED
    BY <1>7, <1>8 DEF ConnInv


(* An empty accumulator holds no frame. *)
LEMMA NothingThere ==
    ASSUME NEW f
    PROVE  parse_frame_detailed(f, 0, MaxPayload, TRUE).kind = "Incomplete"
  <1> DEFINE r == parse_frame_detailed(f, 0, MaxPayload, TRUE)
             base == check_base_header(f, TRUE)
             length == check_length(f, 0)
             p == payload_of(f, ext_len_bytes(f.len7), HeaderSize(f))
  <1>1. r = IF 0 < 2 THEN Refused("Incomplete")
            ELSE IF base # "ok" THEN Refused(base)
            ELSE IF length # "ok" THEN Refused(length)
            ELSE IF f.len > MaxPayload THEN Refused("TooLarge")
            ELSE IF 0 < WireSize(f) THEN Refused("Incomplete")
            ELSE [kind |-> "Frame", op |-> f.op, consumed |-> WireSize(f), payload |-> p]
    BY DEF parse_frame_detailed, WireSize, HeaderSize, kBaseHeaderBytes
  <1>2. \A kind : Refused(kind).kind = kind
    BY DEF Refused
  <1> HIDE DEF r, base, length, p
  <1>3. r = Refused("Incomplete")
    BY <1>1
  <1>4. r.kind = "Incomplete"
    BY <1>2, <1>3
  <1> QED
    BY <1>4 DEF r
(* What the parser finds at the front of the accumulator. *)
LEMMA ParseCase ==
    ASSUME ConnectionTypes, ConnInv,
           NEW f, f = FrameAt(consumed),
           NEW r, r = parse_frame_detailed(f, received - consumed, MaxPayload, TRUE),
           r.kind # "Incomplete"
    PROVE  LET n == Len(handled) + 1
           IN  /\ n \in 1..Len(stream) /\ f = stream[n] /\ consumed = StartOf(stream, n)
               /\ r.kind \in {"Protocol", "TooLarge", "Frame"}
               /\ r.kind = "Protocol" => ~Legal(f)
               /\ r.kind = "TooLarge" => Legal(f) /\ f.len > MaxPayload
               /\ r.kind = "Frame" =>
                      /\ Legal(f) /\ f.len <= MaxPayload
                      /\ Size(stream, n) <= received - consumed /\ r.consumed = Size(stream, n)
                      /\ [op |-> r.op, payload |-> r.payload] = Taken(f)
                      /\ r.op = f.op
  <1> DEFINE n == Len(handled) + 1
             size == received - consumed
  <1>1. FrameSeq(stream) /\ MaxPayload \in Nat
    BY TypesOfStream DEF ConnInv
  <1>2. /\ Len(stream) \in Nat /\ Len(handled) \in Nat /\ n \in 1..(Len(stream) + 1)
        /\ consumed = StartOf(stream, n) /\ received \in Nat /\ consumed <= received
        /\ received <= StartOf(stream, Len(stream) + 1)
    BY <1>1 DEF ConnInv, PositionOK, FrameSeq
  <1>3. consumed \in Nat
    BY <1>1, <1>2, StartNat
  <1>4. size \in Nat
    BY <1>2, <1>3
  <1>5. n \in 1..Len(stream)
    <2> SUFFICES ASSUME n = Len(stream) + 1 PROVE FALSE
      BY <1>2
    <2>1. size = 0
      BY <1>2, <1>3
    <2>2. r = parse_frame_detailed(f, 0, MaxPayload, TRUE)
      BY <2>1
    <2>3. r.kind = "Incomplete"
      BY <2>2, NothingThere
    <2> QED
      BY <2>3
  <1>6. f = stream[n]
    BY <1>1, <1>2, <1>5, FrameAtStart
  <1>7. FrameFields(f)
    BY <1>1, <1>5, <1>6, FieldsOfFrame
  <1> HIDE DEF n, size
  <1>8. /\ r.kind \in {"Incomplete", "Protocol", "TooLarge", "Frame"}
        /\ r.kind = "Protocol" => ~Legal(f)
        /\ r.kind = "TooLarge" => Legal(f) /\ f.len > MaxPayload
        /\ r.kind = "Frame" =>
               /\ Legal(f) /\ f.len <= MaxPayload /\ WireSize(f) <= size
               /\ r.op = f.op /\ r.consumed = WireSize(f)
               /\ r.payload = Plain(f.len)
    BY <1>1, <1>4, <1>7, ParseVerdict DEF size
  <1>9. Size(stream, n) = WireSize(f)
    BY <1>6 DEF Size
  <1> QED
    BY <1>2, <1>5, <1>6, <1>8, <1>9 DEF n, size, Taken

(* A reply that was written stays where it is when something is appended. *)
LEMMA RepliesStay ==
    ASSUME WrittenOK, NEW x, NEW o, o = Append(out, x) \/ o = out, NEW y,
           NEW h, h = Append(handled, y) \/ h = handled, handled \in Seq({Taken(f) : f \in ClientFrame}),
           NEW k \in 1..Len(handled)
    PROVE  Reply(k, stream, h, o)
  <1>1. out \in Seq(Sent) /\ Reply(k, stream, handled, out)
    BY DEF WrittenOK
  <1>2. k \in Nat /\ \A i \in 1..k : h[i] = handled[i]
    OBVIOUS
  <1>3. Count(h, k) = Count(handled, k)
    BY <1>2, CountOfMore
  <1>4. Len(out) <= Len(o) /\ Len(out) \in Nat /\ Len(o) \in Nat /\ \A i \in 1..Len(out) : o[i] = out[i]
    BY <1>1
  <1>5. h[k] = handled[k] /\ Count(handled, k) \in Nat
    BY <1>2, CountFacts
  <1>6. 1 + Count(handled, k) \in 2..Len(out) =>
            /\ 1 + Count(handled, k) \in 2..Len(o)
            /\ o[1 + Count(handled, k)] = out[1 + Count(handled, k)]
    BY <1>4, <1>5
  <1> QED
    BY <1>1, <1>3, <1>5, <1>6 DEF Reply

(* Close frames, and the one the parser causes. *)
LEMMA CloseFrame ==
    ASSUME NEW n \in 0..123, NEW code
    PROVE  OnWire(emit_close_frame(n), code) = Written("Close", 2 + n, code)
  <1>1. (IF n < 125 - 2 THEN n ELSE 125 - 2) = n
    OBVIOUS
  <1>2. emit_close_frame(n)
          = emit_frame("Close", TRUE, 2 + (IF n < 125 - 2 THEN n ELSE 125 - 2))
    BY DEF emit_close_frame, kMaxControlPayloadBytes, kCloseCodeBytes
  <1>3. emit_close_frame(n) = emit_frame("Close", TRUE, 2 + n)
    BY <1>1, <1>2
  <1> QED
    BY <1>3 DEF Written

LEMMA ErrorFrame ==
    ASSUME NEW kind \in {"Protocol", "TooLarge"}
    PROVE  \E n \in 0..125, code \in ErrorCodes :
               /\ error_frame(kind) = Written("Close", n, code)
               /\ code = kCloseProtocolError <=> kind = "Protocol"
  <1>1. 2 + 17 \in 0..125 /\ 2 + 14 \in 0..125 /\ 17 \in 0..123 /\ 14 \in 0..123
    OBVIOUS
  <1>2. /\ kCloseProtocolError \in ErrorCodes /\ kCloseMessageTooLarge \in ErrorCodes
        /\ kCloseProtocolError # kCloseMessageTooLarge
    BY CodeFacts DEF ErrorCodes
  <1>3. CASE kind = "TooLarge"
    <2>1. error_frame(kind) = OnWire(emit_close_frame(17), kCloseMessageTooLarge)
      BY <1>3 DEF error_frame
    <2>2. error_frame(kind) = Written("Close", 2 + 17, kCloseMessageTooLarge)
      BY <1>1, <2>1, CloseFrame
    <2> QED
      BY <1>1, <1>2, <1>3, <2>2
  <1>4. CASE kind = "Protocol"
    <2>1. error_frame(kind) = OnWire(emit_close_frame(14), kCloseProtocolError)
      BY <1>4 DEF error_frame
    <2>2. error_frame(kind) = Written("Close", 2 + 14, kCloseProtocolError)
      BY <1>1, <2>1, CloseFrame
    <2> QED
      BY <1>1, <1>2, <1>4, <2>2
  <1> QED
    BY <1>3, <1>4

LEMMA StepParseError ==
    ASSUME ConnectionTypes, ConnInv, rd = "parse",
           NEW f, f = FrameAt(consumed),
           NEW r, r = parse_frame_detailed(f, received - consumed, MaxPayload, TRUE),
           ParseError(r)
    PROVE  ConnInv'
  <1>1. /\ UNCHANGED <<headers, stream, pc, owner, consumed, received, handled>>
        /\ PhaseOK /\ PositionOK /\ WrittenOK /\ rd' = "ended" /\ r.kind \in {"Protocol", "TooLarge"}
    BY DEF ParseError, http, ConnInv
  <1>2. owner = "session" /\ ~close_sent /\ NoClose(handled)
    BY <1>1 DEF PhaseOK, WrittenOK
  <1>a. PICK n \in 0..125, code \in ErrorCodes :
            /\ error_frame(r.kind) = Written("Close", n, code)
            /\ code = kCloseProtocolError <=> r.kind = "Protocol"
    BY <1>1, ErrorFrame
  <1> DEFINE x == Written("Close", n, code)
  <1>3. out' = Append(out, x)
    <2>1. out' = IF close_sent THEN out ELSE Append(out, error_frame(r.kind))
      BY DEF ParseError
    <2> QED
      BY <1>2, <1>a, <2>1
  <1>b. code \in Nat /\ n \in Nat /\ "Close" \in {"Text", "Pong", "Close"}
    BY CodeFacts DEF ErrorCodes
  <1>4. x \in Sent /\ out \in Seq(Sent)
    BY <1>1, <1>b, SentTypes DEF WrittenOK
  <1>5. /\ out' \in Seq(Sent) /\ Len(out') = Len(out) + 1 /\ Len(out) \in Nat /\ out' # <<>>
        /\ out'[Len(out) + 1] = x /\ \A j \in 1..Len(out) : out'[j] = out[j]
    <2> HIDE DEF x
    <2> QED
      BY <1>3, <1>4
  <1>6. Verdict(code, stream, handled)
    <2>1. /\ f = stream[Len(handled) + 1]
          /\ r.kind = "Protocol" => ~Legal(f)
          /\ r.kind = "TooLarge" => Legal(f) /\ f.len > MaxPayload
      BY <1>1, ParseCase
    <2> QED
      BY <1>1, <1>a, <2>1 DEF Verdict
  <1>7. Item(x, Len(out) + 1, Len(out) + 1, "ended", stream, handled)
    <2>1. n <= MaxPayload + 125 /\ n <= 125
      BY <1>b DEF ConnectionTypes
    <2> DEFINE last == Len(out) + 1
    <2> HIDE DEF last
    <2> SUFFICES Item(Written("Close", n, code), last, last, "ended", stream, handled)
      BY DEF last
    <2> QED
      BY <1>6, <1>b, <2>1 DEF Item
  <1> HIDE DEF x
  <1>8. \A j \in 2..Len(out') : Item(out'[j], j, Len(out'), "ended", stream, handled)
    <2> SUFFICES ASSUME NEW j \in 2..(Len(out) + 1)
                 PROVE  Item(out'[j], j, Len(out) + 1, "ended", stream, handled)
      BY <1>5
    <2>1. CASE j = Len(out) + 1
      BY <1>5, <1>7, <2>1
    <2>2. CASE j # Len(out) + 1
      <3>1. j \in 2..Len(out) /\ j \in 1..Len(out)
        BY <1>5, <2>2
      <3>2. Item(out[j], j, Len(out), rd, stream, handled) /\ rd # "ended"
        BY <1>1, <3>1 DEF WrittenOK
      <3> QED
        BY <1>5, <3>1, <3>2, ItemOld
    <2> QED
      BY <2>1, <2>2
  <1>9. \A k \in 1..Len(handled) : Reply(k, stream, handled, out')
    BY <1>1, <1>3, RepliesStay DEF PositionOK
  <1>10. WrittenOK'
    BY <1>1, <1>5, <1>8, <1>9 DEF WrittenOK
  <1>11. PositionOK'
    BY <1>1, PositionQuiet DEF PositionOK
  <1>12. PhaseOK'
    <2>1. out'[1] = out[1]
      BY <1>1, <1>2, <1>5 DEF PhaseOK
    <2>2. pc \notin {"dispatch", "upgrade", "bad_request", "opened"}
      BY <1>1, <1>2 DEF PhaseOK
    <2> QED
      BY <1>1, <1>2, <1>5, <2>1, <2>2 DEF PhaseOK
  <1> QED
    BY <1>10, <1>11, <1>12 DEF ConnInv


LEMMA StepParseIncomplete ==
    ASSUME ConnInv, rd = "parse", NEW r, ParseIncomplete(r)
    PROVE  ConnInv'
  <1>1. /\ UNCHANGED <<headers, stream, pc, owner, consumed, received, handled, close_sent, out>>
        /\ PhaseOK /\ PositionOK /\ WrittenOK /\ rd' = "read"
    BY DEF ParseIncomplete, http, ConnInv
  <1>2. PositionOK' /\ WrittenOK'
    BY <1>1, PositionQuiet, WrittenQuiet DEF PositionOK
  <1>3. PhaseOK'
    BY <1>1 DEF PhaseOK
  <1> QED
    BY <1>2, <1>3 DEF ConnInv

(* One more frame is handled: f, the next of the stream. *)
OneMore(f) ==
    /\ Len(handled) + 1 \in 1..Len(stream) /\ f = stream[Len(handled) + 1]
    /\ handled' = Append(handled, Taken(f)) /\ UNCHANGED <<stream, owner>>
    /\ rd = "parse" /\ rd' = (IF f.op = "Close" THEN "ended" ELSE "parse")
    /\ (close_sent' <=> f.op = "Close") /\ owner = "session"

LEMMA OneMoreFacts ==
    ASSUME ConnInv, NEW f, OneMore(f)
    PROVE  LET n == Len(handled) + 1
           IN  /\ Len(handled) \in Nat /\ Len(handled') = n /\ handled'[n] = Taken(f)
               /\ handled'[n].op = f.op
               /\ \A k \in 1..Len(handled) : handled'[k] = handled[k]
               /\ Count(handled, Len(handled)) \in Nat
               /\ Count(handled', n) = Count(handled, Len(handled))
                                         + (IF f.op # "Pong" THEN 1 ELSE 0)
               /\ f.op # "Close" => NoClose(handled')
               /\ f.op = "Close" => ~NoClose(handled')
  <1> DEFINE n == Len(handled) + 1
             m == Len(handled)
  <1>1. handled \in Seq({Taken(g) : g \in ClientFrame}) /\ NoClose(handled)
    BY DEF ConnInv, PositionOK, WrittenOK, OneMore
  <1>2. /\ m \in Nat /\ Len(handled') = n /\ handled'[n] = Taken(f)
        /\ \A k \in 1..m : handled'[k] = handled[k]
    BY <1>1 DEF OneMore
  <1>3. Taken(f).op = f.op
    BY DEF Taken
  <1> HIDE DEF m
  <1>4. /\ Count(handled', m + 1)
             = IF handled'[m + 1].op # "Pong" THEN Count(handled', m) + 1 ELSE Count(handled', m)
        /\ Count(handled', m) \in Nat
    BY <1>2, CountFacts
  <1>5. Count(handled', m) = Count(handled, m)
    BY <1>2, CountOfMore
  <1>6. handled'[m + 1] = Taken(f)
    BY <1>2 DEF m
  <1>7. Count(handled', m + 1) = Count(handled, m) + (IF f.op # "Pong" THEN 1 ELSE 0)
    BY <1>3, <1>4, <1>5, <1>6
  <1>8. n = m + 1
    BY DEF m
  <1>9. f.op # "Close" => NoClose(handled')
    <2> SUFFICES ASSUME f.op # "Close", NEW k \in 1..Len(handled') PROVE handled'[k].op # "Close"
      BY DEF NoClose
    <2>1. k \in 1..m \/ k = n
      BY <1>2, <1>8
    <2> QED
      BY <1>1, <1>2, <1>3, <2>1 DEF NoClose, m
  <1>10. f.op = "Close" => ~NoClose(handled')
    <2>1. n \in 1..Len(handled')
      BY <1>2, <1>8
    <2> QED
      BY <1>2, <1>3, <2>1 DEF NoClose
  <1> QED
    BY <1>2, <1>3, <1>4, <1>5, <1>7, <1>8, <1>9, <1>10 DEF m

(* A frame that is answered: its reply is what was appended. *)
LEMMA AnsweredFrame ==
    ASSUME ConnInv, NEW f, OneMore(f), f.op # "Pong",
           NEW op \in {"Text", "Pong", "Close"}, NEW m \in Nat, NEW code \in Nat,
           out' = Append(out, Written(op, m, code)),
           f.op # "Close" => op \in {"Text", "Pong"} /\ m = f.len /\ code = 0,
           Item(Written(op, m, code), Len(out) + 1, Len(out) + 1, rd', stream, handled')
    PROVE  WrittenOK'
  <1> DEFINE x == Written(op, m, code)
             n == Len(handled) + 1
             last == Len(out) + 1
  <1>1. /\ WrittenOK /\ PositionOK /\ UNCHANGED stream /\ rd # "ended" /\ owner = "session"
        /\ Len(out) = 1 + Count(handled, Len(handled)) /\ owner' = "session"
        /\ out \in Seq(Sent) /\ f = stream[n] /\ handled' = Append(handled, Taken(f))
    BY DEF ConnInv, OneMore, WrittenOK
  <1>2. /\ Len(handled) \in Nat /\ Len(handled') = n /\ handled'[n].op = f.op
        /\ Count(handled, Len(handled)) \in Nat
        /\ Count(handled', n) = Count(handled, Len(handled)) + 1
        /\ f.op # "Close" => NoClose(handled')
    BY OneMoreFacts
  <1>3. x \in Sent
    BY SentTypes
  <1> HIDE DEF x
  <1>4. /\ out' \in Seq(Sent) /\ Len(out') = last /\ out'[last] = x /\ Len(out) \in Nat
        /\ \A j \in 1..Len(out) : out'[j] = out[j]
    BY <1>1, <1>3 DEF x
  <1>5. Len(out') = 1 + Count(handled', n) /\ 1 + Count(handled', n) \in 2..Len(out')
    BY <1>1, <1>2, <1>4
  <1>6. \A j \in 2..Len(out') : Item(out'[j], j, Len(out'), rd', stream, handled')
    <2> SUFFICES ASSUME NEW j \in 2..last
                 PROVE  Item(out'[j], j, last, rd', stream, handled')
      BY <1>4
    <2>1. CASE j = last
      BY <1>4, <2>1 DEF x
    <2>2. CASE j # last
      <3>1. j \in 2..Len(out) /\ j \in 1..Len(out)
        BY <1>4, <2>2
      <3>2. Item(out[j], j, Len(out), rd, stream, handled)
        BY <1>1, <3>1 DEF WrittenOK
      <3>3. Item(out[j], j, last, rd', stream, handled')
        BY <1>1, <3>2, ItemOld
      <3> QED
        BY <1>4, <3>1, <3>3
    <2> QED
      BY <2>1, <2>2
  <1>7. Reply(n, stream, handled', out')
    <2> SUFFICES ASSUME handled'[n].op \in Data \cup {"Ping"}
                 PROVE  /\ 1 + Count(handled', n) \in 2..Len(out')
                        /\ \E p \in {"Text", "Pong"} :
                               out'[1 + Count(handled', n)] = Written(p, stream[n].len, 0)
      BY DEF Reply
    <2>1. f.op # "Close"
      BY <1>2 DEF Data
    <2>2. out'[1 + Count(handled', n)] = x
      BY <1>4, <1>5
    <2> QED
      BY <1>1, <1>5, <2>1, <2>2 DEF x
  <1>8. \A k \in 1..Len(handled) : Reply(k, stream, handled', out')
    BY <1>1, RepliesStay DEF PositionOK
  <1>9. \A k \in 1..Len(handled') : Reply(k, stream, handled', out')
    <2>1. \A k \in 1..Len(handled') : k \in 1..Len(handled) \/ k = n
      BY <1>2
    <2> QED
      BY <1>7, <1>8, <2>1
  <1>10. rd' # "ended" => ~close_sent' /\ NoClose(handled')
    BY <1>2 DEF OneMore
  <1> QED
    BY <1>1, <1>2, <1>4, <1>5, <1>6, <1>9, <1>10 DEF WrittenOK

(* A Pong changes nothing. *)
LEMMA SilentFrame ==
    ASSUME ConnInv, NEW f, OneMore(f), f.op = "Pong", UNCHANGED out
    PROVE  WrittenOK'
  <1> DEFINE n == Len(handled) + 1
  <1>1. /\ WrittenOK /\ PositionOK /\ UNCHANGED stream /\ rd # "ended" /\ owner = "session"
        /\ Len(out) = 1 + Count(handled, Len(handled)) /\ owner' = "session"
        /\ out \in Seq(Sent) /\ handled' = Append(handled, Taken(f))
    BY DEF ConnInv, OneMore, WrittenOK
  <1>2. /\ Len(handled) \in Nat /\ Len(handled') = n /\ handled'[n].op = f.op
        /\ Count(handled, Len(handled)) \in Nat
        /\ Count(handled', n) = Count(handled, Len(handled)) + 0
        /\ f.op # "Close" => NoClose(handled')
    BY OneMoreFacts
  <1>3. \A j \in 2..Len(out) : Item(out[j], j, Len(out), rd', stream, handled')
    BY <1>1, ItemOld DEF WrittenOK
  <1>4. Reply(n, stream, handled', out)
    BY <1>2 DEF Reply, Data
  <1>5. \A k \in 1..Len(handled) : Reply(k, stream, handled', out)
    BY <1>1, RepliesStay DEF PositionOK
  <1>6. \A k \in 1..Len(handled') : Reply(k, stream, handled', out)
    <2>1. \A k \in 1..Len(handled') : k \in 1..Len(handled) \/ k = n
      BY <1>2
    <2> QED
      BY <1>4, <1>5, <2>1
  <1>7. Len(out) = 1 + Count(handled', Len(handled'))
    BY <1>1, <1>2
  <1>8. rd' # "ended" => ~close_sent' /\ NoClose(handled')
    BY <1>2 DEF OneMore
  <1> QED
    BY <1>1, <1>3, <1>6, <1>7, <1>8 DEF WrittenOK

LEMMA StepHandleFrame ==
    ASSUME ConnectionTypes, ConnInv, rd = "parse",
           NEW f, f = FrameAt(consumed),
           NEW r, r = parse_frame_detailed(f, received - consumed, MaxPayload, TRUE),
           OnFrame(f, r)
    PROVE  ConnInv'
  <1> DEFINE n == Len(handled) + 1
  <1>1. /\ UNCHANGED <<headers, stream, pc, owner, received>>
        /\ PhaseOK /\ PositionOK /\ WrittenOK /\ r.kind = "Frame"
        /\ handled' = Append(handled, [op |-> r.op, payload |-> r.payload])
        /\ out' = out \o Replies(f) /\ consumed' = consumed + r.consumed
        /\ rd' = (IF r.op = "Close" THEN "ended" ELSE "parse")
    BY DEF OnFrame, http, ConnInv
  <1>2. /\ n \in 1..Len(stream) /\ f = stream[n] /\ consumed = StartOf(stream, n)
        /\ Legal(f) /\ f.len <= MaxPayload
        /\ Size(stream, n) <= received - consumed /\ r.consumed = Size(stream, n)
        /\ [op |-> r.op, payload |-> r.payload] = Taken(f) /\ r.op = f.op
    BY <1>1, ParseCase
  <1>3. owner = "session" /\ ~close_sent /\ NoClose(handled)
    BY <1>1 DEF PhaseOK, WrittenOK
  <1>4. close_sent' <=> f.op = "Close"
    BY <1>2, <1>3 DEF OnFrame
  <1>5. OneMore(f)
    BY <1>1, <1>2, <1>3, <1>4 DEF OneMore
  <1>6. FrameSeq(stream) /\ MaxPayload \in Nat
    BY <1>1, TypesOfStream
  <1>7. f.len \in Nat /\ f.code \in Nat /\ f \in ClientFrame
    BY <1>2, <1>6, FieldsOfFrame DEF FrameFields, FrameSeq
  <1>8. PositionOK'
    <2>1. /\ Len(handled) \in Nat /\ Len(handled') = n /\ handled'[n] = Taken(f)
          /\ \A k \in 1..Len(handled) : handled'[k] = handled[k]
      BY <1>5, OneMoreFacts
    <2>2. handled' \in Seq({Taken(g) : g \in ClientFrame})
      <3>1. Taken(f) \in {Taken(g) : g \in ClientFrame}
        BY <1>7
      <3>2. handled \in Seq({Taken(g) : g \in ClientFrame}) /\ handled' = Append(handled, Taken(f))
        BY <1>1, <1>5 DEF PositionOK, OneMore
      <3> QED
        BY <3>1, <3>2
    <2>3. consumed' = StartOf(stream, n + 1)
      <3>1. n \in Nat \ {0}
        BY <2>1
      <3> QED
        BY <1>1, <1>2, <3>1, StartStep
    <2>4. consumed' <= received
      <3>1. Size(stream, n) \in Nat /\ n \in 1..(Len(stream) + 1)
        BY <1>2, <1>6, SizeNat DEF FrameSeq
      <3>2. consumed \in Nat
        BY <1>2, <1>6, <3>1, StartNat
      <3>3. received \in Nat
        BY <1>1 DEF PositionOK
      <3>4. consumed' = consumed + Size(stream, n) /\ Size(stream, n) <= received - consumed
        BY <1>1, <1>2
      <3> DEFINE size == Size(stream, n)
      <3> HIDE DEF size
      <3> SUFFICES consumed + size <= received
        BY <3>4 DEF size
      <3>5. size \in Nat /\ size <= received - consumed
        BY <3>1, <3>4 DEF size
      <3> QED
        BY <3>2, <3>3, <3>5
    <2>5. ASSUME NEW k \in 1..Len(handled')
          PROVE  /\ Legal(stream[k]) /\ stream[k].len <= MaxPayload
                 /\ handled'[k] = Taken(stream[k])
      <3>1. k \in 1..Len(handled) \/ k = n
        BY <2>1
      <3> QED
        BY <1>1, <1>2, <2>1, <3>1 DEF PositionOK
    <2>6. received' \in Nat /\ received' <= StartOf(stream, Len(stream) + 1)
      BY <1>1 DEF PositionOK
    <2>7. Len(handled') <= Len(stream) /\ consumed' = StartOf(stream, Len(handled') + 1)
      BY <1>2, <2>1, <2>3
    <2> QED
      BY <1>1, <2>2, <2>4, <2>5, <2>6, <2>7 DEF PositionOK
  <1>9. out \in Seq(Sent) /\ Len(out) \in Nat
    BY <1>1 DEF WrittenOK
  <1>10. WrittenOK' /\ (out' = out \/ \E y \in Sent : out' = Append(out, y))
    <2> DEFINE last == Len(out) + 1
    <2>1. f.op \in {"Close", "Ping", "Pong", "Text", "Binary"}
      BY <1>2 DEF Legal, Control, Data
    <2>2. \A y : out \o <<y>> = Append(out, y)
      BY <1>9
    <2>3. ASSUME NEW op \in {"Text", "Pong"}, f.op \in {"Text", "Binary", "Ping"},
                 out' = Append(out, Written(op, f.len, 0))
          PROVE  WrittenOK' /\ \E y \in Sent : out' = Append(out, y)
      <3>1. /\ op \in {"Text", "Pong", "Close"} /\ 0 \in Nat /\ op # "Close" /\ f.len <= MaxPayload + 125
            /\ f.op # "Pong" /\ f.op # "Close"
        BY <1>2, <1>6, <1>7, <2>3
      <3>2. 0 \notin ErrorCodes
        BY CodeFacts
      <3>3. Written(op, f.len, 0) \in Sent
        BY <1>7, <3>1, SentTypes
      <3> HIDE DEF last
      <3>4. Item(Written(op, f.len, 0), last, last, rd', stream, handled')
        BY <1>7, <3>1, <3>2 DEF Item
      <3>5. WrittenOK'
        BY <1>5, <1>7, <2>3, <3>1, <3>4, AnsweredFrame DEF last
      <3> QED
        BY <2>3, <3>3, <3>5
    <2>4. CASE f.op \in {"Text", "Binary"}
      <3>1. Replies(f) = <<Written("Text", f.len, 0)>>
        BY <2>4 DEF Replies, Data, Written
      <3>2. out' = Append(out, Written("Text", f.len, 0))
        BY <1>1, <2>2, <3>1
      <3> QED
        BY <2>3, <2>4, <3>2
    <2>5. CASE f.op = "Ping"
      <3>1. Replies(f) = <<Written("Pong", f.len, 0)>>
        BY <2>5 DEF Replies, Data, Written
      <3>2. out' = Append(out, Written("Pong", f.len, 0))
        BY <1>1, <2>2, <3>1
      <3> QED
        BY <2>3, <2>5, <3>2
    <2>6. CASE f.op = "Pong"
      <3>1. Replies(f) = <<>>
        BY <2>6 DEF Replies, Data
      <3>2. out' = out
        BY <1>1, <1>9, <3>1
      <3> QED
        BY <1>5, <2>6, <3>2, SilentFrame
    <2>7. CASE f.op = "Close"
      <3> DEFINE code == close_code(f)
      <3>1. code \in Nat
        BY <1>7, CodeFacts DEF close_code
      <3> HIDE DEF code
      <3>2. Replies(f) = <<OnWire(emit_close_frame(0), code)>>
        BY <1>3, <2>7 DEF Replies, Data, code
      <3>3. 0 \in 0..123 /\ 2 + 0 = 2
        OBVIOUS
      <3>4. OnWire(emit_close_frame(0), code) = Written("Close", 2, code)
        BY <3>3, CloseFrame
      <3>5. out' = Append(out, Written("Close", 2, code))
        BY <1>1, <2>2, <3>2, <3>4
      <3>6. /\ 2 \in Nat /\ "Close" \in {"Text", "Pong", "Close"} /\ 2 <= MaxPayload + 125 /\ 2 <= 125
            /\ f.op # "Pong"
        BY <1>6, <2>7
      <3>7. Written("Close", 2, code) \in Sent
        BY <3>1, <3>6, SentTypes
      <3>8. rd' = "ended" /\ ~NoClose(handled')
        BY <1>1, <1>2, <1>5, <2>7, OneMoreFacts
      <3> HIDE DEF last
      <3>9. Item(Written("Close", 2, code), last, last, rd', stream, handled')
        BY <3>1, <3>6, <3>8 DEF Item
      <3>10. WrittenOK'
        BY <1>5, <2>7, <3>1, <3>5, <3>6, <3>9, AnsweredFrame DEF last
      <3> QED
        BY <3>5, <3>7, <3>10
    <2> QED
      BY <2>1, <2>4, <2>5, <2>6, <2>7
  <1>11. PhaseOK'
    <2>1. out # <<>> /\ out[1] = Accept(headers) /\ validate(headers)
      BY <1>1, <1>3 DEF PhaseOK
    <2>2. out' # <<>> /\ out'[1] = out[1]
      BY <1>9, <1>10, <2>1
    <2>3. pc \notin {"dispatch", "upgrade", "bad_request", "opened"}
      BY <1>1, <1>3 DEF PhaseOK
    <2>4. rd' \in {"parse", "ended"}
      BY <1>1
    <2> QED
      BY <1>1, <1>3, <2>1, <2>2, <2>3, <2>4 DEF PhaseOK
  <1> QED
    BY <1>8, <1>10, <1>11 DEF ConnInv

LEMMA ConnNext == ConnectionTypes /\ ConnInv /\ [ConnectionNext]_connectionVars => ConnInv'
  <1> SUFFICES ASSUME ConnectionTypes, ConnInv, [ConnectionNext]_connectionVars PROVE ConnInv'
    OBVIOUS
  <1>1. CASE ParseFrame
    <2>1. PICK f, r :
             /\ rd = "parse" /\ f = FrameAt(consumed)
             /\ r = parse_frame_detailed(f, received - consumed, MaxPayload, TRUE)
             /\ ParseIncomplete(r) \/ ParseError(r) \/ OnFrame(f, r)
      BY <1>1 DEF ParseFrame
    <2> QED
      BY <2>1, StepParseIncomplete, StepParseError, StepHandleFrame
  <1>2. CASE UNCHANGED connectionVars
    BY <1>2 DEF connectionVars, ConnInv, PhaseOK, PositionOK, WrittenOK
  <1> QED
    BY <1>1, <1>2, StepHandler, StepUpgrade, StepBadRequest, StepReadChunk
       DEF ConnectionNext, Serve

(* However the bytes of the client are cut into reads, the accumulator starts *)
(* at the first frame that is not handled, and what is written are the 101    *)
(* and then one reply for each frame that is answered.                        *)
THEOREM ConnectionInvariant == ConnectionSpec => []ConnInv
  <1> USE ConnectionAssumption
  <1>1. ConnectionInit => ConnInv
    BY ConnInit
  <1>2. ConnInv /\ [ConnectionNext]_connectionVars => ConnInv'
    BY ConnNext
  <1> QED
    BY <1>1, <1>2, PTL DEF ConnectionSpec

(* What stands behind the first place is a frame, and the frames it may be. *)
LEMMA FrameOnWire ==
    ASSUME ConnInv, NEW j \in 1..Len(out), out[j].what = "frame"
    PROVE  j \in 2..Len(out) /\ Item(out[j], j, Len(out), rd, stream, handled)
  <1>1. PhaseOK /\ WrittenOK /\ Len(out) \in Nat
    BY DEF ConnInv, WrittenOK
  <1>2. j # 1
    <2> SUFFICES ASSUME j = 1 PROVE FALSE
      OBVIOUS
    <2>1. owner = "http" \/ owner = "session"
      BY <1>1 DEF PhaseOK
    <2>2. out[1] = Refusal \/ out[1] = Accept(headers)
      <3>1. out # <<>>
        BY <1>1
      <3> QED
        BY <1>1, <2>1, <3>1 DEF PhaseOK
    <2> QED
      BY <2>2, SentFields
  <1>3. j \in 2..Len(out)
    BY <1>1, <1>2
  <1> QED
    BY <1>1, <1>3 DEF WrittenOK

(* The frames a session handles are the first ones the client sent, in order, *)
(* each once and unmasked; it ends with 1002 or 1009 only at a frame that is   *)
(* illegal or too large (do_read_loop with parse_frame_detailed).             *)
THEOREM FramesInOrder == ConnectionSpec => []FramesAsSent
  <1> USE ConnectionAssumption
  <1>1. ConnInv => FramesAsSent
    <2> SUFFICES ASSUME ConnInv PROVE FramesAsSent
      OBVIOUS
    <2>1. /\ Len(handled) <= Len(stream)
          /\ \A k \in 1..Len(handled) :
                 /\ Legal(stream[k]) /\ stream[k].len <= MaxPayload
                 /\ handled[k] = [op |-> stream[k].op, payload |-> Plain(stream[k].len)]
      BY DEF ConnInv, PositionOK, Taken
    <2>2. ASSUME NEW j \in 1..Len(out), out[j].what = "frame", out[j].code \in ErrorCodes,
                 \A k \in 1..Len(handled) : handled[k].op # "Close"
          PROVE  Verdict(out[j].code, stream, handled)
      <3>1. Item(out[j], j, Len(out), rd, stream, handled)
        BY <2>2, FrameOnWire
      <3>2. PICK op, n, code :
               /\ out[j] = Written(op, n, code)
               /\ code \in ErrorCodes /\ NoClose(handled) => Verdict(code, stream, handled)
        BY <3>1 DEF Item
      <3>3. out[j].code = code
        BY <3>2, SentFields
      <3>4. NoClose(handled)
        BY <2>2 DEF NoClose
      <3> QED
        BY <2>2, <3>2, <3>3, <3>4
    <2> QED
      BY <2>1, <2>2 DEF FramesAsSent, Verdict, ErrorCodes
  <1> QED
    BY <1>1, ConnectionInvariant, PTL

(* Every frame the server writes can be read back by a client, a Close is the *)
(* last one, and the reply to a message or a Ping, found behind the 101 by    *)
(* counting answers, has the size that was put in (emit_frame).               *)
THEOREM RepliesReadBack == ConnectionSpec => []RepliesReadable
  <1> USE ConnectionAssumption
  <1>1. ConnInv => RepliesReadable
    <2> SUFFICES ASSUME ConnInv PROVE RepliesReadable
      OBVIOUS
    <2> DEFINE limit == MaxPayload + kMaxControlPayloadBytes
    <2>1. MaxPayload \in Nat /\ limit \in Nat /\ limit = MaxPayload + 125
      BY DEF ConnectionTypes, kMaxControlPayloadBytes
    <2> HIDE DEF limit
    <2>2. ASSUME NEW op \in {"Text", "Pong", "Close"}, NEW n \in Nat, n <= limit, NEW code
          PROVE  /\ ReadsBack(Written(op, n, code).frame).kind = "Frame"
                 /\ ReadsBack(Written(op, n, code).frame).payload = Plain(n)
                 /\ Written(op, n, code).frame.op = op /\ Written(op, n, code).frame.len = n
      <3>1. op \in {"Text", "Binary", "Ping", "Pong", "Close"}
        OBVIOUS
      <3>2. Written(op, n, code).frame = Emitted(op, n)
        BY DEF Written, OnWire, Emitted
      <3>3. \A f : ReadsBack(f) = ReadWith(f, limit)
        BY DEF ReadsBack, ReadWith, limit
      <3> QED
        BY <2>1, <2>2, <3>1, <3>2, <3>3, FrameRoundTrip
    <2>3. ASSUME NEW j \in 1..Len(out), out[j].what = "frame"
          PROVE  /\ ReadsBack(out[j].frame).kind = "Frame"
                 /\ out[j].frame.op = "Close" => j = Len(out) /\ out[j].frame.len <= 125
      <3>1. Item(out[j], j, Len(out), rd, stream, handled)
        BY <2>3, FrameOnWire
      <3>2. PICK op \in {"Text", "Pong", "Close"}, n \in Nat, code \in Nat :
               /\ out[j] = Written(op, n, code) /\ n <= MaxPayload + 125
               /\ op = "Close" => j = Len(out) /\ n <= 125
        BY <3>1 DEF Item
      <3>3. n <= limit
        BY <2>1, <3>2
      <3>4. /\ ReadsBack(Written(op, n, code).frame).kind = "Frame"
            /\ Written(op, n, code).frame.op = op /\ Written(op, n, code).frame.len = n
        BY <2>2, <3>3
      <3> QED
        BY <3>2, <3>4
    <2>4. ASSUME NEW k \in 1..Len(handled), handled[k].op \in Data \cup {"Ping"}
          PROVE  ReadsBack(out[1 + Answers(k)].frame).payload = handled[k].payload
      <3>1. Reply(k, stream, handled, out)
        BY DEF ConnInv, WrittenOK
      <3>2. PICK op \in {"Text", "Pong"} : out[1 + Count(handled, k)] = Written(op, stream[k].len, 0)
        BY <2>4, <3>1 DEF Reply
      <3>3. Answers(k) = Count(handled, k)
        BY SameCardinality DEF Answers, Count
      <3>4. handled[k] = Taken(stream[k]) /\ stream[k].len <= MaxPayload /\ stream[k].len \in Nat
        <4>1. FrameSeq(stream) /\ k \in 1..Len(stream)
          BY TypesOfStream DEF ConnInv, PositionOK, FrameSeq
        <4>2. stream[k].len \in Nat
          BY <4>1, FieldsOfFrame DEF FrameFields
        <4> QED
          BY <4>2 DEF ConnInv, PositionOK
      <3>5. handled[k].payload = Plain(stream[k].len)
        BY <3>4 DEF Taken
      <3>6. op \in {"Text", "Pong", "Close"} /\ stream[k].len <= limit
        BY <2>1, <3>4
      <3>7. ReadsBack(Written(op, stream[k].len, 0).frame).payload = Plain(stream[k].len)
        BY <2>2, <3>4, <3>6
      <3> QED
        BY <3>2, <3>3, <3>5, <3>7
    <2> QED
      BY <2>3, <2>4 DEF RepliesReadable
  <1> QED
    BY <1>1, ConnectionInvariant, PTL

(* One HTTP answer is written, first: the 101, whose accept value decodes to  *)
(* the digest of this request's key, or a 400, with which the connection ends *)
(* (App::ws, Request::upgrade_websocket, compute_accept_key).                 *)
THEOREM OneAnswer == ConnectionSpec => []OneHttpAnswer
  <1> USE ConnectionAssumption
  <1>1. ConnInv => OneHttpAnswer
    <2> SUFFICES ASSUME ConnInv, NEW j \in 1..Len(out), out[j].what = "http"
                 PROVE  /\ j = 1
                        /\ out[j].status = 101 =>
                             /\ owner = "session"
                             /\ base64_decode(out[j].accept)
                                  = DigestOf[ws_find_header(headers, "sec-websocket-key")]
                        /\ out[j].status = 400 => Len(out) = 1 /\ owner = "http"
      BY DEF OneHttpAnswer
    <2> DEFINE key == ws_find_header(headers, "sec-websocket-key")
    <2>1. PhaseOK /\ WrittenOK /\ Len(out) \in Nat /\ owner \in {"http", "session"}
      BY DEF ConnInv, WrittenOK, PhaseOK
    <2>2. j = 1
      <3> SUFFICES ASSUME j # 1 PROVE FALSE
        OBVIOUS
      <3>1. Item(out[j], j, Len(out), rd, stream, handled)
        BY <2>1 DEF WrittenOK
      <3>2. \E op, n, code : out[j] = Written(op, n, code)
        BY <3>1 DEF Item
      <3> QED
        BY <3>2, SentFields
    <2>3. out # <<>>
      BY <2>1
    <2>4. CASE owner = "http"
      <3>1. out = <<Refusal>>
        BY <2>1, <2>3, <2>4 DEF PhaseOK
      <3>2. Len(out) = 1 /\ out[1] = Refusal
        BY <3>1
      <3>3. out[j].status = 400 /\ 400 # 101
        BY <2>2, <3>2, SentFields, SMT
      <3> QED
        BY <2>2, <2>4, <3>2, <3>3, SMT
    <2>5. CASE owner = "session"
      <3>1. out[1] = Accept(headers) /\ validate(headers) /\ headers \in Requests
        BY <2>1, <2>5 DEF PhaseOK
      <3>2. out[j].status = 101 /\ 400 # 101 /\ out[j].accept = compute_accept_key(key)
        BY <2>2, <3>1, SentFields, SMT
      <3>3. DigestOf[key] \in Seq(0..255)
        BY <3>1, SMT DEF ConnectionTypes
      <3>4. base64_decode(compute_accept_key(key)) = DigestOf[key]
        BY <3>3, Base64RoundTrip DEF compute_accept_key
      <3> QED
        BY <2>2, <2>5, <3>2, <3>4, SMT
    <2> QED
      BY <2>1, <2>4, <2>5
  <1> QED
    BY <1>1, ConnectionInvariant, PTL

=============================================================================
