------------------------- MODULE CommandQueueProofs -------------------------
(***************************************************************************)
(* The command queues, proved for every value of the constants: types, the *)
(* validations of startExecution, and that no operation is lost or handed  *)
(* to the GPU twice; then, for a program that awaits its stream before it  *)
(* turns to the other channel, as long as no submission is refused and the *)
(* counter does not wrap, that operations take effect in the order of the  *)
(* calls: the buffers, the backlog, the two channels and the signals       *)
(* implement the promise of StreamOrder.                                   *)
(***************************************************************************)
EXTENDS CommandQueue, Integers, SequenceTheorems, TLAPS

\* Without a backlog only the buffer of the current type is in use.
Tidy(q) ==
    q.backlog = <<>> =>
        \A t \in QueueTypes : q.buf[t] # <<>> => q.currentQueueType = t

\* The queue is ready to take commands of type t.
Takes(q, t) ==
    /\ q \in NvCommandQueue
    /\ q.backlog = <<>> => q.currentQueueType = t /\ q.buf[Other(t)] = <<>>

-----------------------------------------------------------------------------
(* The operations on a queue.                                              *)

LEMMA OtherType ==
    \A t \in QueueTypes : Other(t) \in QueueTypes /\ Other(t) # t /\ Other(Other(t)) = t
BY DEF Other, QueueTypes

LEMMA TakesIsTidy ==
    ASSUME NEW q, NEW t \in QueueTypes, Takes(q, t)
    PROVE  q \in NvCommandQueue /\ Tidy(q)
BY DEF Takes, Tidy, Other, QueueTypes

LEMMA EnqueueTyped ==
    ASSUME NEW q \in NvCommandQueue, NEW cmd \in Command, NEW t \in QueueTypes
    PROVE  Enqueue(q, cmd, t) \in NvCommandQueue
<1> DEFINE buf == [q.buf EXCEPT ![t] = Append(q.buf[t], cmd)]
<1>1. buf \in [QueueTypes -> Seq(Command)]
  BY DEF NvCommandQueue
<1>2. Enqueue(q, cmd, t) = [q EXCEPT !.buf = buf]
  BY DEF Enqueue, NvCommandQueue
<1> HIDE DEF buf
<1> QED
  BY <1>1, <1>2 DEF NvCommandQueue

LEMMA EnqueueTakes ==
    ASSUME NEW q, NEW cmd \in Command, NEW t \in QueueTypes, Takes(q, t)
    PROVE  Takes(Enqueue(q, cmd, t), t)
<1>1. q \in NvCommandQueue
  BY DEF Takes
<1>2. Enqueue(q, cmd, t) \in NvCommandQueue
  BY <1>1, EnqueueTyped
<1>3. /\ Enqueue(q, cmd, t).backlog = q.backlog
      /\ Enqueue(q, cmd, t).currentQueueType = q.currentQueueType
      /\ Enqueue(q, cmd, t).buf[Other(t)] = q.buf[Other(t)]
  BY <1>1, OtherType DEF Enqueue, NvCommandQueue
<1> QED
  BY <1>2, <1>3 DEF Takes

\* A queue that differs only in scalar fields takes the same commands.
LEMMA ScalarFieldsTake ==
    ASSUME NEW q, NEW t \in QueueTypes, Takes(q, t)
    PROVE  /\ \A b \in BOOLEAN : Takes([q EXCEPT !.timelineNotifyPending = b], t)
           /\ \A n \in Counter : Takes([q EXCEPT !.timelineCtr = n], t)
           /\ \A n \in 0..KernArgsSlots : Takes([q EXCEPT !.kernArgsWriteIdx = n], t)
           /\ \A n \in Nat : Takes([q EXCEPT !.currentSlmPerThread = n], t)
BY DEF Takes, NvCommandQueue

LEMMA CommandTypes ==
    ASSUME NEW sig \in Signals, NEW target \in Nat
    PROVE  /\ [kind |-> "release", sig |-> sig, payload |-> target] \in Command
           /\ [kind |-> "acquire", sig |-> sig, payload |-> target] \in Command
BY DEF Command, Releases, Acquires

LEMMA TimelineIsSignal == \A s \in Streams : Timeline(s) \in Signals
BY StreamAssumption DEF Timeline, Signals

LEMMA CounterIsNat == Counter \subseteq Nat
BY CtrAssumption DEF Counter

LEMMA SignalNotifyTyped ==
    ASSUME NEW q \in NvCommandQueue, NEW sig \in Signals, NEW target \in Nat,
           NEW t \in QueueTypes
    PROVE  /\ SignalNotify(q, sig, target, t) \in NvCommandQueue
           /\ Takes(q, t) => Takes(SignalNotify(q, sig, target, t), t)
BY CommandTypes, EnqueueTyped, EnqueueTakes DEF SignalNotify

LEMMA SignalWaitGpuTakes ==
    ASSUME NEW q, NEW sig \in Signals, NEW target \in Nat, Takes(q, "COMPUTE")
    PROVE  Takes(SignalWaitGpu(q, sig, target), "COMPUTE")
BY CommandTypes, EnqueueTakes DEF SignalWaitGpu, QueueTypes

LEMMA BacklogTyped ==
    ASSUME NEW q \in NvCommandQueue, NEW t \in QueueTypes
    PROVE  LET r == BacklogCurrentCmdBuffer(q, t)
           IN  /\ r \in NvCommandQueue
               /\ r.currentQueueType = q.currentQueueType
               /\ r.buf[t] = <<>>
               /\ r.buf[Other(t)] = q.buf[Other(t)]
               /\ q.buf[t] = <<>> => r = q
               /\ q.buf[t] # <<>> => r.backlog # <<>>
               /\ Len(r.backlog) >= Len(q.backlog)
<1> DEFINE split == [buf |-> q.buf[t], type |-> t,
                     timelineCtr |-> q.timelineCtr,
                     timelineNotifyPending |-> q.timelineNotifyPending]
           backlog == Append(q.backlog, split)
           buf == [q.buf EXCEPT ![t] = <<>>]
           moved == [q EXCEPT !.backlog = backlog, !.buf = buf,
                              !.timelineNotifyPending = FALSE]
<1>1. CASE q.buf[t] = <<>>
  BY <1>1 DEF BacklogCurrentCmdBuffer, NvCommandQueue
<1>2. CASE q.buf[t] # <<>>
  <2>1. split \in Split
    BY DEF NvCommandQueue, Split
  <2>2. q.backlog \in Seq(Split)
    BY DEF NvCommandQueue
  <2>3. backlog \in Seq(Split) /\ Len(backlog) = Len(q.backlog) + 1 /\ backlog # <<>>
    <3> HIDE DEF split
    <3>1. backlog \in Seq(Split) /\ Len(backlog) = Len(q.backlog) + 1
      BY <2>1, <2>2
    <3>2. Len(q.backlog) \in Nat
      BY <2>2
    <3> QED
      BY <3>1, <3>2
  <2>4. buf \in [QueueTypes -> Seq(Command)] /\ buf[t] = <<>>
        /\ buf[Other(t)] = q.buf[Other(t)]
    BY OtherType DEF NvCommandQueue
  <2>5. BacklogCurrentCmdBuffer(q, t) =
          [q EXCEPT !.backlog = backlog, !.buf[t] = <<>>, !.timelineNotifyPending = FALSE]
    BY <1>2 DEF BacklogCurrentCmdBuffer
  <2> HIDE DEF split, backlog
  <2>8. BacklogCurrentCmdBuffer(q, t) = moved
    BY <2>3, <2>5 DEF NvCommandQueue
  <2> HIDE DEF buf
  <2>6. /\ moved \in NvCommandQueue
        /\ moved.currentQueueType = q.currentQueueType
        /\ moved.buf = buf
        /\ moved.backlog = backlog
    BY <2>3, <2>4 DEF NvCommandQueue
  <2>7. Len(q.backlog) \in Nat
    BY <2>2
  <2> HIDE DEF moved
  <2> QED
    BY <1>2, <2>3, <2>4, <2>6, <2>7, <2>8
<1> QED
  BY <1>1, <1>2

LEMMA SwitchToTakes ==
    ASSUME NEW q \in NvCommandQueue, Tidy(q), NEW t \in QueueTypes
    PROVE  /\ Takes(SwitchTo(q, t), t)
           /\ SwitchTo(q, t).currentSlmPerThread = q.currentSlmPerThread
<1> DEFINE type == IF q.buf[Other(t)] = <<>> THEN t ELSE q.currentQueueType
           r == BacklogCurrentCmdBuffer(q, Other(t))
<1>1. CASE type = Other(t)
  <2>1. q.buf[Other(t)] # <<>> /\ SwitchTo(q, t) = [r EXCEPT !.currentQueueType = t]
    BY <1>1, OtherType DEF SwitchTo
  <2>2. r \in NvCommandQueue /\ r.backlog # <<>>
    BY <2>1, BacklogTyped, OtherType
  <2>3. r.currentSlmPerThread = q.currentSlmPerThread
    BY DEF BacklogCurrentCmdBuffer, NvCommandQueue
  <2> HIDE DEF r
  <2> QED
    BY <2>1, <2>2, <2>3 DEF Takes, NvCommandQueue
<1>2. CASE type # Other(t)
  <2>1. SwitchTo(q, t) = [q EXCEPT !.currentQueueType = type]
    BY <1>2 DEF SwitchTo
  <2>2. type \in QueueTypes \cup {"OTHER"}
    BY DEF NvCommandQueue
  <2>3. q.backlog = <<>> => q.buf[Other(t)] = <<>>
    BY <1>2, OtherType DEF Tidy
  <2>4. q.backlog = <<>> => type = t
    BY <2>3
  <2> HIDE DEF type
  <2> QED
    BY <2>1, <2>2, <2>3, <2>4 DEF Takes, NvCommandQueue
<1> QED
  BY <1>1, <1>2
LEMMA AdvanceTimelineTakes ==
    ASSUME NEW q, NEW t \in QueueTypes, Takes(q, t)
    PROVE  Takes(AdvanceTimeline(q), t)
<1>1. q.timelineCtr \in Nat
  BY CtrAssumption DEF Takes, NvCommandQueue, Counter
<1>2. (q.timelineCtr + 1) % CtrModulus \in Counter
  BY <1>1, CtrAssumption DEF Counter
<1> QED
  BY <1>2, ScalarFieldsTake DEF AdvanceTimeline

LEMMA NotifyIfPendingTakes ==
    ASSUME NEW q, NEW t \in QueueTypes, Takes(q, t), NEW s \in Streams
    PROVE  Takes(NotifyIfPending(q, s, t), t)
<1>1. q \in NvCommandQueue /\ q.timelineCtr \in Nat
  BY CounterIsNat DEF Takes, NvCommandQueue
<1> QED
  BY <1>1, SignalNotifyTyped, TimelineIsSignal DEF NotifyIfPending

LEMMA WaitForPreviousTakes ==
    ASSUME NEW q, Takes(q, "COMPUTE"), NEW s \in Streams, NEW async \in BOOLEAN
    PROVE  Takes(WaitForPrevious(q, s, async), "COMPUTE")
<1> DEFINE n == [NotifyIfPending(q, s, "COMPUTE") EXCEPT !.timelineNotifyPending = FALSE]
<1>1. "COMPUTE" \in QueueTypes
  BY DEF QueueTypes
<1>2. Takes(n, "COMPUTE")
  BY <1>1, NotifyIfPendingTakes, ScalarFieldsTake
<1>3. q.timelineCtr \in Nat
  BY CounterIsNat DEF Takes, NvCommandQueue
<1> HIDE DEF n
<1>4. Takes(SignalWaitGpu(n, Timeline(s), q.timelineCtr), "COMPUTE")
  BY <1>2, <1>3, SignalWaitGpuTakes, TimelineIsSignal
<1> USE DEF n
<1> QED
  BY <1>4 DEF WaitForPrevious

LEMMA EndOpTakes ==
    ASSUME NEW q, NEW t \in QueueTypes, Takes(q, t),
           NEW s \in Streams, NEW async \in BOOLEAN
    PROVE  Takes(EndOp(q, s, async, t), t)
<1> DEFINE next == AdvanceTimeline(q)
<1>1. Takes(next, t)
  BY AdvanceTimelineTakes
<1>2. next \in NvCommandQueue /\ next.timelineCtr \in Nat
  BY <1>1, CounterIsNat DEF Takes, NvCommandQueue
<1>3. Takes(SignalNotify(next, Timeline(s), next.timelineCtr, t), t)
  BY <1>1, <1>2, SignalNotifyTyped, TimelineIsSignal
<1> QED
  BY <1>1, <1>3, ScalarFieldsTake DEF EndOp

LEMMA RoundUpIsNat == \A n \in Nat : RoundUp(n, 32) \in Nat
BY DEF RoundUp, CeilDiv

LEMMA GrownSlmTakes ==
    ASSUME NEW q, NEW f \in Funcs, NEW t \in QueueTypes, Takes(q, t)
    PROVE  Takes(GrownSlm(q, f), t)
<1>1. RoundUp(LocalMemReq[f], 32) \in Nat
  BY RoundUpIsNat, FuncAssumption
<1> QED
  BY <1>1, ScalarFieldsTake DEF GrownSlm

SlmType == [va : [Funcs -> Nat], size : Seq(Nat), freed : SUBSET Nat]

LEMMA FreedTyped ==
    ASSUME slm \in SlmType, NEW f \in Funcs
    PROVE  Freed(f) \in SUBSET Nat
BY DEF SlmType, Freed

LEMMA EnsureEnoughLocalMemTakes ==
    ASSUME NEW q, Takes(q, "COMPUTE"), NEW f \in Funcs, slm \in SlmType
    PROVE  /\ Takes(EnsureEnoughLocalMem(q, f).queue, "COMPUTE")
           /\ EnsureEnoughLocalMem(q, f).slm \in SlmType
<1> DEFINE region == Len(slm.size) + 1
           cmd == [kind |-> "localMem", region |-> region]
<1>1. "COMPUTE" \in QueueTypes
  BY DEF QueueTypes
<1>2. region \in Nat
  BY DEF SlmType
<1>3. cmd \in Command
  BY <1>2 DEF Command, LocalMemSets
<1>4. Takes(Enqueue(GrownSlm(q, f), cmd, "COMPUTE"), "COMPUTE")
  BY <1>1, <1>3, GrownSlmTakes, EnqueueTakes
<1>5. /\ [slm.va EXCEPT ![f] = region] \in [Funcs -> Nat]
      /\ Append(slm.size, RoundUp(LocalMemReq[f], 32)) \in Seq(Nat)
  BY <1>2, RoundUpIsNat, FuncAssumption DEF SlmType
<1>6. Freed(f) \in SUBSET Nat
  BY FreedTyped
<1>7. CASE NeedsLocalMem(q, f)
  BY <1>4, <1>5, <1>6, <1>7 DEF EnsureEnoughLocalMem, SlmType
<1>8. CASE ~NeedsLocalMem(q, f)
  BY <1>8 DEF EnsureEnoughLocalMem
<1> QED
  BY <1>7, <1>8

LEMMA NewQueueTakes ==
    ASSUME NEW s, NEW type \in QueueTypes \cup {"OTHER"}
    PROVE  /\ NewQueue(s, type) \in NvCommandQueue
           /\ \A t \in QueueTypes : NewQueue(s, type).buf[t] = <<>>
<1> DEFINE free == [i \in 1..(PoolSize - 1) |-> i]
<1>1. free \in Seq(0..(PoolSize - 1))
  <2>1. PoolSize - 1 \in Nat
    BY StreamAssumption
  <2>2. \A i \in 1..(PoolSize - 1) : i \in 0..(PoolSize - 1)
    BY <2>1
  <2> QED
    BY <2>1, <2>2
<1>2. [t \in QueueTypes |-> <<>>] \in [QueueTypes -> Seq(Command)]
  OBVIOUS
<1>3. 0 \in Counter /\ 0 \in 0..KernArgsSlots
  BY CtrAssumption, FuncAssumption DEF Counter
<1> HIDE DEF free
<1> QED
  BY <1>1, <1>2, <1>3 DEF NewQueue, NvCommandQueue, free
-----------------------------------------------------------------------------
(* The GPU.                                                                *)

LEMMA HeadIsCommand ==
    ASSUME GpuTypeOK, NEW c \in QueueTypes, fifo[c] # <<>>
    PROVE  Head(fifo[c]) \in Command /\ Tail(fifo[c]) \in Seq(Command)
BY DEF GpuTypeOK

LEMMA TakeTyped ==
    ASSUME GpuTypeOK, NEW c \in QueueTypes, fifo[c] # <<>>, Take(c)
    PROVE  fifo' \in [QueueTypes -> Seq(Command)]
BY HeadIsCommand DEF GpuTypeOK, Take

LEMMA BeginTyped ==
    ASSUME GpuTypeOK, NEW c \in QueueTypes, NEW kind \in {"launch", "copy"},
           NextIs(c, kind), Begin(c)
    PROVE  GpuTypeOK'
<1> DEFINE task == [cmd |-> Head(fifo[c]), region |-> localMem]
<1>1. Head(fifo[c]) \in Launches \cup Copies
  BY HeadIsCommand DEF NextIs, Command, Launches, Copies, Releases, Acquires, LocalMemSets
<1>2. task \in Task
  BY <1>1 DEF GpuTypeOK, Task
<1>3. running' = [running EXCEPT ![c] = @ \cup {task}]
  BY DEF Begin
<1>4. fifo' \in [QueueTypes -> Seq(Command)]
  BY TakeTyped DEF NextIs, Begin
<1> HIDE DEF task
<1>5. running' \in [QueueTypes -> SUBSET Task]
  BY <1>2, <1>3 DEF GpuTypeOK
<1> QED
  BY <1>4, <1>5 DEF GpuTypeOK, Begin

LEMMA FinishTyped ==
    ASSUME GpuTypeOK, NEW c \in QueueTypes, Finish(c)
    PROVE  GpuTypeOK'
<1> PICK task \in running[c] :
          /\ running' = [running EXCEPT ![c] = @ \ {task}]
          /\ done' = done \cup {task.cmd.op}
          /\ UNCHANGED <<fifo, value, stamp, clock, localMem>>
  BY DEF Finish
<1>1. task \in Task
  BY DEF GpuTypeOK
<1>2. task.cmd.op \in Ops
  BY <1>1 DEF Task, Launches, Copies
<1> QED
  BY <1>2 DEF GpuTypeOK

LEMMA ReleaseTyped ==
    ASSUME GpuTypeOK, NEW c \in QueueTypes, Release(c)
    PROVE  GpuTypeOK'
<1> DEFINE cmd == Head(fifo[c])
<1>1. cmd.sig \in Signals /\ cmd.payload \in Nat
  BY HeadIsCommand
     DEF Release, NextIs, Command, Launches, Copies, Releases, Acquires, LocalMemSets
<1>2. fifo' \in [QueueTypes -> Seq(Command)]
  BY TakeTyped DEF Release, NextIs
<1>3. value' \in [Signals -> Nat]
  BY <1>1 DEF Release, GpuTypeOK
<1> HIDE DEF cmd
<1>4. stamp' \in [Signals -> Nat] /\ clock' \in Nat
  <2>1. CASE \E s \in Streams : cmd.sig = Timeline(s)
    BY <2>1 DEF Release, GpuTypeOK, cmd
  <2>2. CASE ~ \E s \in Streams : cmd.sig = Timeline(s)
    <3>1. clock' = clock + 1 /\ stamp' = [stamp EXCEPT ![cmd.sig] = clock + 1]
      BY <2>2 DEF Release, cmd
    <3> QED
      BY <1>1, <3>1 DEF GpuTypeOK
  <2> QED
    BY <2>1, <2>2
<1> QED
  BY <1>2, <1>3, <1>4 DEF Release, GpuTypeOK

LEMMA GpuTyped == GpuTypeOK /\ GpuNext => GpuTypeOK'
<1> SUFFICES ASSUME GpuTypeOK, GpuNext PROVE GpuTypeOK'
  OBVIOUS
<1>1. "COMPUTE" \in QueueTypes /\ "DMA" \in QueueTypes
  BY DEF QueueTypes
<1>2. CASE StartKernel
  BY <1>1, <1>2, BeginTyped DEF StartKernel
<1>3. CASE StartCopy
  BY <1>1, <1>3, BeginTyped DEF StartCopy
<1>4. CASE Acquire
  BY <1>1, <1>4, TakeTyped DEF Acquire, NextIs, GpuTypeOK
<1>5. CASE SetLocalMem
  <2>1. Head(fifo["COMPUTE"]).region \in Nat
    BY <1>1, <1>5, HeadIsCommand
       DEF SetLocalMem, NextIs, Command, Launches, Copies, Releases, Acquires, LocalMemSets
  <2> QED
    BY <1>1, <1>5, <2>1, TakeTyped DEF SetLocalMem, NextIs, GpuTypeOK
<1>6. CASE \E c \in QueueTypes : Release(c)
  BY <1>6, ReleaseTyped
<1>7. CASE \E c \in QueueTypes : Finish(c)
  BY <1>7, FinishTyped
<1> QED
  BY <1>1, <1>2, <1>3, <1>4, <1>5, <1>6, <1>7 DEF GpuNext, ComputeTakes, DmaTakes
-----------------------------------------------------------------------------
(* The inductive invariant.                                                *)

QueuesTidy == \A s \in Streams : Tidy(queue[s])

\* While a backlog is played back the cursor stays inside it, and whatever a
\* call had left in the buffers has joined it.
CursorInBacklog ==
    cpu.at \in {"submit", "wait"} =>
        /\ cpu.entry <= Len(queue[cpu.stream].backlog)
        /\ \A t \in QueueTypes : queue[cpu.stream].buf[t] = <<>>

QueueInv == TypeOK /\ QueuesTidy /\ CursorInBacklog

LEMMA CpuFields ==
    ASSUME HostTypeOK
    PROVE  /\ cpu.at \in {"submit", "wait"} =>
                 cpu.stream \in Streams /\ cpu.entry \in Nat \ {0}
           /\ cpu.at \in {"await", "initCompute", "initDma"} => cpu.stream \in Streams
           /\ cpu.at = "waitEvent" => cpu.event \in Events
BY DEF HostTypeOK, CpuState, Idle

LEMMA QueueUpdate ==
    ASSUME HostTypeOK, QueuesTidy, NEW s \in Streams,
           NEW q \in NvCommandQueue, Tidy(q), queue' = [queue EXCEPT ![s] = q]
    PROVE  queue' \in [Streams -> NvCommandQueue] /\ QueuesTidy'
BY DEF HostTypeOK, QueuesTidy

\* With the application thread idle there is no cursor.
LEMMA IdleHasNoCursor == cpu' = Idle => CursorInBacklog'
BY DEF CursorInBacklog, Idle

LEMMA SubmitTyped ==
    ASSUME TypeOK, QueuesTidy, NEW s \in Streams, NEW t \in QueueTypes,
           NEW q \in NvCommandQueue, Tidy([q EXCEPT !.buf[t] = <<>>]),
           SubmitToFifo(s, q, t)
    PROVE  /\ GpuTypeOK'
           /\ queue' \in [Streams -> NvCommandQueue]
           /\ QueuesTidy'
           /\ queue' = [queue EXCEPT ![s] = [q EXCEPT !.buf[t] = <<>>]]
<1>1. q.buf[t] \in Seq(Command)
  BY DEF NvCommandQueue
<1>2. GpuTypeOK'
  BY <1>1 DEF TypeOK, GpuTypeOK, SubmitToFifo
<1>3. [q EXCEPT !.buf[t] = <<>>] \in NvCommandQueue
  <2> DEFINE buf == [q.buf EXCEPT ![t] = <<>>]
  <2>1. buf \in [QueueTypes -> Seq(Command)]
    BY DEF NvCommandQueue
  <2>2. [q EXCEPT !.buf[t] = <<>>] = [q EXCEPT !.buf = buf]
    BY DEF NvCommandQueue
  <2> HIDE DEF buf
  <2> QED
    BY <2>1, <2>2 DEF NvCommandQueue
<1>4. queue' = [queue EXCEPT ![s] = [q EXCEPT !.buf[t] = <<>>]]
  BY DEF SubmitToFifo
<1> QED
  BY <1>2, <1>3, <1>4, QueueUpdate DEF TypeOK

LEMMA SetUpChannelTyped ==
    ASSUME TypeOK, QueuesTidy, NEW s \in Streams, NEW t \in QueueTypes,
           NEW q \in NvCommandQueue, Tidy(q), SetUpChannel(s, q, t)
    PROVE  /\ GpuTypeOK'
           /\ queue' \in [Streams -> NvCommandQueue]
           /\ QueuesTidy'
<1> DEFINE next == AdvanceTimeline(q)
           r == SignalNotify(next, Timeline(s), next.timelineCtr, t)
<1>1. /\ next \in NvCommandQueue
      /\ next.buf = q.buf
      /\ next.backlog = q.backlog
      /\ next.currentQueueType = q.currentQueueType
  <2>1. (q.timelineCtr + 1) % CtrModulus \in Counter
    BY CtrAssumption DEF NvCommandQueue, Counter
  <2> QED
    BY <2>1 DEF AdvanceTimeline, NvCommandQueue
<1>2. next.timelineCtr \in Nat
  BY <1>1, CounterIsNat DEF NvCommandQueue
<1>3. r \in NvCommandQueue
  BY <1>1, <1>2, SignalNotifyTyped, TimelineIsSignal
<1> HIDE DEF next
<1>4. /\ r.buf[Other(t)] = q.buf[Other(t)]
      /\ r.backlog = q.backlog
      /\ r.currentQueueType = q.currentQueueType
  BY <1>1, OtherType DEF SignalNotify, Enqueue, NvCommandQueue
<1>5. SubmitToFifo(s, r, t)
  BY DEF SetUpChannel, next
<1> HIDE DEF r
<1>6. Tidy([r EXCEPT !.buf[t] = <<>>])
  BY <1>3, <1>4, OtherType DEF Tidy, NvCommandQueue, QueueTypes, Other
<1> QED
  BY <1>3, <1>5, <1>6, SubmitTyped
-----------------------------------------------------------------------------
(* Creating and destroying a stream.                                       *)

LEMMA StreamCreateStep ==
    ASSUME QueueInv, NEW s \in Streams, StreamCreate(s)
    PROVE  QueueInv'
<1> PICK type \in QueueTypes \cup {"OTHER"} :
          SetUpChannel(s, NewQueue(s, type), "COMPUTE")
  BY DEF StreamCreate
<1>1. "COMPUTE" \in QueueTypes
  BY DEF QueueTypes
<1>2. NewQueue(s, type) \in NvCommandQueue /\ Tidy(NewQueue(s, type))
  BY NewQueueTakes DEF Tidy
<1>3. GpuTypeOK' /\ queue' \in [Streams -> NvCommandQueue] /\ QueuesTidy'
  BY <1>1, <1>2, SetUpChannelTyped DEF QueueInv
<1>4. HostTypeOK'
  BY <1>3 DEF QueueInv, TypeOK, HostTypeOK, StreamCreate, CpuState
<1>5. CursorInBacklog'
  BY DEF StreamCreate, CursorInBacklog
<1> QED
  BY <1>3, <1>4, <1>5 DEF QueueInv, TypeOK

LEMMA InitComputeReturnsStep ==
    ASSUME QueueInv, InitComputeReturns
    PROVE  QueueInv'
<1> DEFINE s == cpu.stream
<1>1. s \in Streams
  BY CpuFields DEF QueueInv, TypeOK, InitComputeReturns
<1>2. "DMA" \in QueueTypes
  BY DEF QueueTypes
<1>3. queue[s] \in NvCommandQueue /\ Tidy(queue[s])
  BY <1>1 DEF QueueInv, TypeOK, HostTypeOK, QueuesTidy
<1>4. GpuTypeOK' /\ queue' \in [Streams -> NvCommandQueue] /\ QueuesTidy'
  BY <1>1, <1>2, <1>3, SetUpChannelTyped DEF QueueInv, InitComputeReturns
<1>5. HostTypeOK'
  BY <1>1, <1>4 DEF QueueInv, TypeOK, HostTypeOK, InitComputeReturns, CpuState
<1>6. CursorInBacklog'
  BY DEF InitComputeReturns, CursorInBacklog
<1> QED
  BY <1>4, <1>5, <1>6 DEF QueueInv, TypeOK

LEMMA IdleIsCpuState == Idle \in CpuState
BY DEF CpuState

LEMMA InitDmaReturnsStep ==
    ASSUME QueueInv, InitDmaReturns
    PROVE  QueueInv'
<1>1. cpu.stream \in Streams
  BY CpuFields DEF QueueInv, TypeOK, InitDmaReturns
<1>2. GpuTypeOK' /\ QueuesTidy'
  BY DEF QueueInv, TypeOK, GpuTypeOK, QueuesTidy, InitDmaReturns, gpuVars
<1>3. HostTypeOK'
  BY <1>1, IdleIsCpuState DEF QueueInv, TypeOK, HostTypeOK, InitDmaReturns
<1> QED
  BY <1>2, <1>3, IdleHasNoCursor DEF QueueInv, TypeOK, InitDmaReturns

LEMMA StreamCreateFailsStep ==
    ASSUME QueueInv, NEW s \in Streams, StreamCreateFails(s)
    PROVE  QueueInv'
<1>1. GpuTypeOK' /\ QueuesTidy'
  BY DEF QueueInv, TypeOK, GpuTypeOK, QueuesTidy, StreamCreateFails, gpuVars
<1>2. HostTypeOK'
  BY IdleIsCpuState DEF QueueInv, TypeOK, HostTypeOK, StreamCreateFails, Fails
<1> QED
  BY <1>1, <1>2, IdleHasNoCursor DEF QueueInv, TypeOK, StreamCreateFails

LEMMA StreamDestroyStep ==
    ASSUME QueueInv, NEW s \in Streams, StreamDestroy(s)
    PROVE  QueueInv'
<1>1. GpuTypeOK' /\ QueuesTidy' /\ CursorInBacklog'
  BY DEF QueueInv, TypeOK, GpuTypeOK, QueuesTidy, CursorInBacklog, StreamDestroy, gpuVars
<1>2. HostTypeOK'
  BY DEF QueueInv, TypeOK, HostTypeOK, StreamDestroy
<1> QED
  BY <1>1, <1>2 DEF QueueInv, TypeOK

-----------------------------------------------------------------------------
(* Enqueueing operations.                                                  *)

LEMMA SwitchedQueue ==
    ASSUME QueueInv, NEW s \in Streams, NEW t \in QueueTypes
    PROVE  Takes(SwitchTo(queue[s], t), t)
BY SwitchToTakes DEF QueueInv, TypeOK, HostTypeOK, QueuesTidy

LEMMA PreparedTakes ==
    ASSUME QueueInv, NEW s \in Streams, NEW f \in Funcs, NEW async \in BOOLEAN
    PROVE  /\ Takes(Prepared(s, f, async).queue, "COMPUTE")
           /\ Prepared(s, f, async).slm \in SlmType
<1> DEFINE mem == EnsureEnoughLocalMem(SwitchTo(queue[s], "COMPUTE"), f)
<1>1. Takes(mem.queue, "COMPUTE") /\ mem.slm \in SlmType
  BY SwitchedQueue, EnsureEnoughLocalMemTakes
     DEF QueueInv, TypeOK, HostTypeOK, SlmType, QueueTypes
<1>2. mem = [queue |-> mem.queue, slm |-> mem.slm]
  BY DEF EnsureEnoughLocalMem
<1> HIDE DEF mem
<1>3. Takes(WaitForPrevious(mem.queue, s, async), "COMPUTE")
  BY <1>1, WaitForPreviousTakes
<1>4. Prepared(s, f, async) = [mem EXCEPT !.queue = WaitForPrevious(mem.queue, s, async)]
  BY DEF Prepared, mem
<1> QED
  BY <1>1, <1>2, <1>3, <1>4

\* A call that ends with queue s ready for commands of type t, and leaves the
\* GPU and the cursor alone, keeps the invariant.
LEMMA QueueChangeStep ==
    ASSUME QueueInv, NEW s \in Streams, NEW t \in QueueTypes, NEW q,
           Takes(q, t), queue' = [queue EXCEPT ![s] = q],
           UNCHANGED <<gpuVars, cpu>>, cpu = Idle, HostTypeOK'
    PROVE  QueueInv'
<1>1. QueuesTidy'
  BY TakesIsTidy, QueueUpdate DEF QueueInv, TypeOK
<1>2. GpuTypeOK'
  BY DEF QueueInv, TypeOK, GpuTypeOK, gpuVars
<1> QED
  BY <1>1, <1>2, IdleHasNoCursor DEF QueueInv, TypeOK

LEMMA QueueTyped ==
    ASSUME HostTypeOK, NEW s \in Streams, NEW t \in QueueTypes, NEW q,
           Takes(q, t), queue' = [queue EXCEPT ![s] = q]
    PROVE  queue' \in [Streams -> NvCommandQueue]
BY DEF HostTypeOK, Takes

\* One more operation is counted, of either kind.
LEMMA IssuedTyped ==
    ASSUME HostTypeOK, NEW s \in Streams, NEW t \in QueueTypes, NEW async \in BOOLEAN,
           issued' = [issued EXCEPT ![s] = Append(@, [type |-> t, async |-> async])]
    PROVE  issued' \in [Streams -> Seq(OpKind)]
<1> DEFINE kind == [type |-> t, async |-> async]
<1>1. kind \in OpKind
  BY DEF OpKind
<1>2. issued' = [issued EXCEPT ![s] = Append(issued[s], kind)]
  OBVIOUS
<1> HIDE DEF kind
<1> QED
  BY <1>1, <1>2 DEF HostTypeOK

\* The next operation has a number, as long as the bound allows one.
LEMMA NextOpIsOp ==
    ASSUME HostTypeOK, NEW s \in Streams, Len(issued[s]) < MaxOps
    PROVE  /\ Len(issued[s]) + 1 \in Nat
           /\ <<s, Len(issued[s]) + 1>> \in Ops
<1>1. Len(issued[s]) \in Nat
  BY DEF HostTypeOK
<1>2. Len(issued[s]) + 1 \in 1..MaxOps
  BY <1>1, StreamAssumption
<1> QED
  BY <1>1, <1>2 DEF Ops

LEMMA LaunchFunctionStep ==
    ASSUME QueueInv, NEW s \in Streams, NEW f \in Funcs, NEW async \in BOOLEAN,
           LaunchFunction(s, f, async)
    PROVE  QueueInv'
<1> DEFINE prep == Prepared(s, f, async)
           slot == prep.queue.kernArgsWriteIdx
           nth == Len(issued[s]) + 1
           launch == [kind |-> "launch", op |-> <<s, nth>>, slot |-> slot,
                      need |-> LocalMemReq[f], slm |-> prep.queue.currentSlmPerThread]
           taken == [prep.queue EXCEPT !.kernArgsWriteIdx = slot + 1]
           last == EndOp(Enqueue(taken, launch, "COMPUTE"), s, async, "COMPUTE")
<1>1. "COMPUTE" \in QueueTypes
  BY DEF QueueTypes
<1>2. HostTypeOK /\ cpu = Idle /\ Len(issued[s]) < MaxOps
  BY DEF QueueInv, TypeOK, LaunchFunction, MayLaunch, Ready
<1>3. nth \in Nat /\ <<s, nth>> \in Ops
  BY <1>2, NextOpIsOp
<1>4. Takes(prep.queue, "COMPUTE") /\ prep.slm \in SlmType
  BY PreparedTakes
<1>5. slot \in Slots /\ slot + 1 \in 0..KernArgsSlots
  <2>1. slot \in 0..KernArgsSlots
    BY <1>4 DEF Takes, NvCommandQueue
  <2>2. slot < KernArgsSlots
    BY DEF LaunchFunction, KernArgsFit
  <2> QED
    BY <2>1, <2>2, FuncAssumption DEF Slots
<1>6. launch \in Command
  <2>1. prep.queue.currentSlmPerThread \in Nat /\ slot \in Nat
    BY <1>4 DEF Takes, NvCommandQueue
  <2>2. LocalMemReq[f] \in Nat
    BY FuncAssumption
  <2> HIDE DEF prep, nth
  <2> QED
    BY <1>3, <2>1, <2>2 DEF Command, Launches
<1>7. queue' = [queue EXCEPT ![s] = last]
      /\ slm' = prep.slm
      /\ kernArgs' = [kernArgs EXCEPT ![s][slot] = nth]
      /\ issued' = [issued EXCEPT ![s] = Append(@, [type |-> "COMPUTE", async |-> async])]
      /\ UNCHANGED <<gpuVars, state, events, cpu, records, failures,
                     unawaited, awaited, mark>>
  BY DEF LaunchFunction
<1> HIDE DEF prep, slot, nth, launch
<1>8. Takes(taken, "COMPUTE")
  BY <1>1, <1>4, <1>5, ScalarFieldsTake
<1> HIDE DEF taken
<1>9. Takes(last, "COMPUTE")
  BY <1>1, <1>6, <1>8, EnqueueTakes, EndOpTakes
<1> HIDE DEF last
<1>10. kernArgs' \in [Streams -> [Slots -> Nat]]
  BY <1>2, <1>3, <1>5, <1>7 DEF HostTypeOK
<1>11. HostTypeOK'
  <2>1. queue' \in [Streams -> NvCommandQueue]
    BY <1>1, <1>2, <1>7, <1>9, QueueTyped
  <2>2. issued' \in [Streams -> Seq(OpKind)]
    BY <1>1, <1>2, <1>7, IssuedTyped
  <2> QED
    BY <1>2, <1>4, <1>7, <1>10, <2>1, <2>2 DEF HostTypeOK, SlmType
<1> QED
  BY <1>1, <1>2, <1>7, <1>9, <1>11, QueueChangeStep

LEMMA LaunchFailsLocalMemStep ==
    ASSUME QueueInv, NEW s \in Streams, NEW f \in Funcs, LaunchFailsLocalMem(s, f)
    PROVE  QueueInv'
<1> DEFINE q == SwitchTo(queue[s], "COMPUTE")
<1>1. "COMPUTE" \in QueueTypes
  BY DEF QueueTypes
<1>2. HostTypeOK /\ cpu = Idle /\ slm \in SlmType
  BY DEF QueueInv, TypeOK, HostTypeOK, SlmType, LaunchFailsLocalMem, MayLaunch, Ready
<1>3. Takes(q, "COMPUTE") /\ Takes(GrownSlm(q, f), "COMPUTE")
  BY <1>1, SwitchedQueue, GrownSlmTakes
<1>4. PICK left \in {q, GrownSlm(q, f)} :
         /\ queue' = [queue EXCEPT ![s] = left]
         /\ slm' \in {slm, [slm EXCEPT !.freed = Freed(f)]}
         /\ failures' = failures + 1
         /\ UNCHANGED <<gpuVars, state, events, cpu, records,
                        issued, unawaited, awaited, kernArgs, mark>>
  BY DEF LaunchFailsLocalMem, Fails
<1> HIDE DEF q
<1>5. queue' \in [Streams -> NvCommandQueue]
  BY <1>1, <1>2, <1>3, <1>4, QueueTyped
<1>6. slm' \in SlmType
  BY <1>2, <1>4, FreedTyped DEF SlmType
<1>7. HostTypeOK'
  BY <1>2, <1>4, <1>5, <1>6 DEF HostTypeOK, SlmType
<1> QED
  BY <1>1, <1>2, <1>3, <1>4, <1>7, QueueChangeStep

LEMMA LaunchFailsLateStep ==
    ASSUME QueueInv, NEW s \in Streams, NEW f \in Funcs, NEW async \in BOOLEAN,
           LaunchFailsLate(s, f, async)
    PROVE  QueueInv'
<1> DEFINE prep == Prepared(s, f, async)
           slot == prep.queue.kernArgsWriteIdx
           taken == [prep.queue EXCEPT !.kernArgsWriteIdx = slot + 1]
<1>1. "COMPUTE" \in QueueTypes
  BY DEF QueueTypes
<1>2. HostTypeOK /\ cpu = Idle
  BY DEF QueueInv, TypeOK, LaunchFailsLate, MayLaunch, Ready
<1>3. Takes(prep.queue, "COMPUTE") /\ prep.slm \in SlmType
  BY PreparedTakes
<1>4. /\ slm' = prep.slm
      /\ failures' = failures + 1
      /\ UNCHANGED <<gpuVars, state, events, cpu, records,
                     issued, unawaited, awaited, mark>>
  BY DEF LaunchFailsLate, Fails
<1>5. PICK left : /\ Takes(left, "COMPUTE")
                  /\ queue' = [queue EXCEPT ![s] = left]
                  /\ kernArgs' \in [Streams -> [Slots -> Nat]]
  <2>1. CASE /\ queue' = [queue EXCEPT ![s] = prep.queue]
             /\ UNCHANGED kernArgs
    BY <1>2, <1>3, <2>1 DEF HostTypeOK
  <2>2. CASE /\ KernArgsFit(prep.queue)
             /\ queue' = [queue EXCEPT ![s] = taken]
             /\ kernArgs' = [kernArgs EXCEPT ![s][slot] = 0]
    <3>1. slot \in 0..KernArgsSlots
      BY <1>3 DEF Takes, NvCommandQueue
    <3>2. slot \in Slots /\ slot + 1 \in 0..KernArgsSlots
      BY <2>2, <3>1, FuncAssumption DEF KernArgsFit, Slots
    <3> HIDE DEF prep, slot
    <3>3. Takes(taken, "COMPUTE")
      BY <1>1, <1>3, <3>2, ScalarFieldsTake
    <3>4. kernArgs' \in [Streams -> [Slots -> Nat]]
      BY <1>2, <2>2, <3>2 DEF HostTypeOK
    <3> QED
      BY <2>2, <3>3, <3>4
  <2> QED
    BY <2>1, <2>2 DEF LaunchFailsLate
<1> HIDE DEF prep
<1>6. queue' \in [Streams -> NvCommandQueue]
  BY <1>1, <1>2, <1>5, QueueTyped
<1>7. HostTypeOK'
  BY <1>2, <1>3, <1>4, <1>5, <1>6 DEF HostTypeOK, SlmType
<1> QED
  BY <1>1, <1>2, <1>4, <1>5, <1>7, QueueChangeStep

LEMMA GpuMemcpyStep ==
    ASSUME QueueInv, NEW s \in Streams, NEW async \in BOOLEAN, GpuMemcpy(s, async)
    PROVE  QueueInv'
<1> DEFINE copy == [kind |-> "copy", op |-> <<s, Len(issued[s]) + 1>>]
           last == EndOp(Enqueue(SwitchTo(queue[s], "DMA"), copy, "DMA"), s, async, "DMA")
<1>1. "DMA" \in QueueTypes
  BY DEF QueueTypes
<1>2. HostTypeOK /\ cpu = Idle /\ Len(issued[s]) < MaxOps
  BY DEF QueueInv, TypeOK, GpuMemcpy, Ready
<1>3. copy \in Command
  BY <1>2, NextOpIsOp DEF Command, Copies
<1>4. queue' = [queue EXCEPT ![s] = last]
      /\ issued' = [issued EXCEPT ![s] = Append(@, [type |-> "DMA", async |-> async])]
      /\ UNCHANGED <<gpuVars, state, slm, events, cpu, records, failures,
                     unawaited, awaited, kernArgs, mark>>
  BY DEF GpuMemcpy
<1> HIDE DEF copy
<1>5. Takes(last, "DMA")
  BY <1>1, <1>3, SwitchedQueue, EnqueueTakes, EndOpTakes
<1> HIDE DEF last
<1>6. HostTypeOK'
  <2>1. queue' \in [Streams -> NvCommandQueue]
    BY <1>1, <1>2, <1>4, <1>5, QueueTyped
  <2>2. issued' \in [Streams -> Seq(OpKind)]
    BY <1>1, <1>2, <1>4, IssuedTyped
  <2> QED
    BY <1>2, <1>4, <2>1, <2>2 DEF HostTypeOK
<1> QED
  BY <1>1, <1>2, <1>4, <1>5, <1>6, QueueChangeStep

-----------------------------------------------------------------------------
(* Events.                                                                 *)

LEMMA ObtainSignalTyped ==
    ASSUME HostTypeOK, NEW e \in Events, NEW s \in Streams
    PROVE  /\ ObtainSignal(e, s).sig \in Signals \cup {NULL}
           /\ ObtainSignal(e, s).left \in Seq(0..(PoolSize - 1))
<1> DEFINE ids == 0..(PoolSize - 1)
           free == queue[s].freeSignals
           held == IF RecordType(queue[s]) = "DMA"
                     THEN events[e].dmaSignal ELSE events[e].computeSignal
<1>1. free \in Seq(ids)
  BY DEF HostTypeOK, NvCommandQueue
<1>2. held \in Signals \cup {NULL}
  BY DEF HostTypeOK, LibreCUEvent
<1>3. CASE held # NULL
  BY <1>1, <1>2, <1>3 DEF ObtainSignal
<1>4. CASE held = NULL /\ free = <<>>
  BY <1>1, <1>4 DEF ObtainSignal
<1>5. CASE held = NULL /\ free # <<>>
  <2>1. ObtainSignal(e, s) = [sig |-> <<s, Head(free)>>, left |-> Tail(free)]
    BY <1>5 DEF ObtainSignal
  <2> HIDE DEF free, ids
  <2>2. Head(free) \in ids /\ Tail(free) \in Seq(ids)
    BY <1>1, <1>5
  <2> USE DEF ids
  <2> QED
    BY <2>1, <2>2 DEF Signals
<1> QED
  BY <1>3, <1>4, <1>5

LEMMA RecordEventStep ==
    ASSUME QueueInv, NEW e \in Events, NEW s \in Streams, RecordEvent(e, s)
    PROVE  QueueInv'
<1> DEFINE t == RecordType(queue[s])
           sig == ObtainSignal(e, s).sig
           left == ObtainSignal(e, s).left
           q == [queue[s] EXCEPT !.freeSignals = left, !.currentQueueType = t]
           last == SignalNotify(q, sig, 1, t)
<1>1. t \in QueueTypes
  BY DEF RecordType, QueueTypes
<1>2. HostTypeOK /\ cpu = Idle
  BY DEF QueueInv, TypeOK, RecordEvent, Ready
<1>3. sig \in Signals /\ left \in Seq(0..(PoolSize - 1))
  BY <1>2, ObtainSignalTyped DEF RecordEvent
<1>4. /\ queue' = [queue EXCEPT ![s] = last]
      /\ events' = [events EXCEPT ![e] =
            IF t = "DMA" THEN [@ EXCEPT !.stream = s, !.dmaSignal = sig]
                         ELSE [@ EXCEPT !.stream = s, !.computeSignal = sig]]
      /\ mark' = [mark EXCEPT ![e] = [after |-> Len(issued[s]), nth |-> records + 1]]
      /\ records' = records + 1
      /\ UNCHANGED <<gpuVars, state, slm, cpu, failures,
                     issued, unawaited, awaited, kernArgs>>
  BY DEF RecordEvent
<1>5. queue[s] \in NvCommandQueue /\ Tidy(queue[s])
  BY DEF QueueInv, TypeOK, HostTypeOK, QueuesTidy
<1>6. queue[s].backlog = <<>> => queue[s].buf[Other(t)] = <<>>
  BY <1>1, <1>5 DEF Tidy, RecordType, Other, QueueTypes
<1> HIDE DEF t, sig, left
<1>7. Takes(q, t)
  BY <1>1, <1>3, <1>5, <1>6 DEF Takes, NvCommandQueue
<1> HIDE DEF q
<1>8. Takes(last, t)
  BY <1>1, <1>3, <1>7, SignalNotifyTyped DEF Takes
<1> HIDE DEF last
<1>9. events' \in [Events -> LibreCUEvent]
  <2> DEFINE event == IF t = "DMA"
                        THEN [events[e] EXCEPT !.stream = s, !.dmaSignal = sig]
                        ELSE [events[e] EXCEPT !.stream = s, !.computeSignal = sig]
  <2>1. events \in [Events -> LibreCUEvent]
    BY <1>2 DEF HostTypeOK
  <2>2. event \in LibreCUEvent
    BY <1>3, <2>1 DEF LibreCUEvent
  <2>3. events' = [events EXCEPT ![e] = event]
    BY <1>4
  <2> HIDE DEF event
  <2> QED
    BY <2>1, <2>2, <2>3
<1>10. mark' \in [Events -> [after : Nat, nth : Nat]] /\ records' \in Nat
  <2>1. Len(issued[s]) \in Nat /\ records + 1 \in Nat
    BY <1>2 DEF HostTypeOK
  <2> QED
    BY <1>2, <1>4, <2>1 DEF HostTypeOK
<1>11. queue' \in [Streams -> NvCommandQueue]
  BY <1>1, <1>2, <1>4, <1>8, QueueTyped
<1>12. HostTypeOK'
  BY <1>2, <1>4, <1>9, <1>10, <1>11 DEF HostTypeOK
<1> QED
  BY <1>1, <1>2, <1>4, <1>8, <1>12, QueueChangeStep

\* The calls that touch neither a queue nor the GPU.
LEMMA QuietStep ==
    ASSUME QueueInv, UNCHANGED <<gpuVars, queue>>, HostTypeOK',
           cpu'.at \notin {"submit", "wait"}
    PROVE  QueueInv'
BY DEF QueueInv, TypeOK, GpuTypeOK, QueuesTidy, CursorInBacklog, gpuVars

LEMMA RecordEventFailsStep ==
    ASSUME QueueInv, NEW e \in Events, NEW s \in Streams, RecordEventFails(e, s)
    PROVE  QueueInv'
<1> DEFINE event == [events[e] EXCEPT !.stream = s]
<1>1. HostTypeOK
  BY DEF QueueInv, TypeOK
<1>2. event \in LibreCUEvent
  BY <1>1 DEF HostTypeOK, LibreCUEvent
<1>3. events' = [events EXCEPT ![e] = event]
  BY DEF RecordEventFails
<1> HIDE DEF event
<1>4. events' \in [Events -> LibreCUEvent]
  BY <1>1, <1>2, <1>3 DEF HostTypeOK
<1>5. HostTypeOK'
  BY <1>1, <1>4 DEF RecordEventFails, HostTypeOK, Fails
<1>6. cpu'.at \notin {"submit", "wait"}
  BY DEF RecordEventFails, Ready, Idle
<1> QED
  BY <1>5, <1>6, QuietStep DEF RecordEventFails

LEMMA EventSynchronizeStep ==
    ASSUME QueueInv, NEW e \in Events, EventSynchronize(e)
    PROVE  QueueInv'
<1>1. HostTypeOK'
  BY DEF QueueInv, TypeOK, EventSynchronize, HostTypeOK, CpuState
<1>2. cpu'.at \notin {"submit", "wait"}
  BY DEF EventSynchronize
<1> QED
  BY <1>1, <1>2, QuietStep DEF EventSynchronize

LEMMA EventSynchronizeReturnsStep ==
    ASSUME QueueInv, EventSynchronizeReturns
    PROVE  QueueInv'
<1>1. HostTypeOK'
  BY IdleIsCpuState DEF QueueInv, TypeOK, HostTypeOK, EventSynchronizeReturns
<1>2. cpu'.at \notin {"submit", "wait"}
  BY DEF EventSynchronizeReturns, Idle
<1> QED
  BY <1>1, <1>2, QuietStep DEF EventSynchronizeReturns

LEMMA EventDestroyStep ==
    ASSUME QueueInv, NEW e \in Events, EventDestroy(e)
    PROVE  QueueInv'
<1>1. NewEvent \in LibreCUEvent
  BY DEF NewEvent, LibreCUEvent
<1>2. HostTypeOK'
  BY <1>1 DEF QueueInv, TypeOK, EventDestroy, HostTypeOK
<1>3. cpu'.at \notin {"submit", "wait"}
  BY DEF EventDestroy, Idle
<1> QED
  BY <1>2, <1>3, QuietStep DEF EventDestroy

-----------------------------------------------------------------------------
(* Commencing and awaiting.                                                *)

\* What Commence requires before it submits.
LEMMA CommencedQueue ==
    ASSUME QueueInv, NEW s \in Streams, NEW t \in QueueTypes,
           t = queue[s].currentQueueType, queue[s].buf[Other(t)] = <<>>
    PROVE  Takes(NotifyIfPending(queue[s], s, t), t)
<1>1. Takes(queue[s], t)
  BY DEF QueueInv, TypeOK, HostTypeOK, Takes
<1> QED
  BY <1>1, NotifyIfPendingTakes

LEMMA CommenceStep ==
    ASSUME QueueInv, NEW s \in Streams, Commence(s)
    PROVE  QueueInv'
<1> DEFINE t == queue[s].currentQueueType
           q == [NotifyIfPending(queue[s], s, t) EXCEPT !.timelineNotifyPending = FALSE]
<1>1. t \in QueueTypes /\ HostTypeOK /\ cpu = Idle
  BY DEF QueueInv, TypeOK, Commence, Ready
<1>2. Takes(q, t)
  BY <1>1, CommencedQueue, ScalarFieldsTake DEF Commence
<1>3. /\ SubmitToFifo(s, q, t)
      /\ unawaited' = [unawaited EXCEPT
                          ![s] = IF q.buf[t] = <<>> THEN @ ELSE @ \cup {t}]
      /\ UNCHANGED <<state, slm, events, cpu, records, failures,
                     issued, awaited, kernArgs, mark>>
  BY DEF Commence
<1> HIDE DEF q, t
<1>4. q \in NvCommandQueue /\ Tidy([q EXCEPT !.buf[t] = <<>>])
  BY <1>1, <1>2 DEF Takes, Tidy, NvCommandQueue, Other, QueueTypes
<1>5. GpuTypeOK' /\ queue' \in [Streams -> NvCommandQueue] /\ QueuesTidy'
  BY <1>1, <1>3, <1>4, SubmitTyped DEF QueueInv
<1>6. unawaited' \in [Streams -> SUBSET QueueTypes]
  BY <1>1, <1>3 DEF HostTypeOK
<1>7. HostTypeOK'
  BY <1>1, <1>3, <1>5, <1>6 DEF HostTypeOK
<1>8. CursorInBacklog'
  BY <1>1, <1>3, IdleHasNoCursor
<1> QED
  BY <1>5, <1>7, <1>8 DEF QueueInv, TypeOK

LEMMA CommenceFailsStep ==
    ASSUME QueueInv, NEW s \in Streams, CommenceFails(s)
    PROVE  QueueInv'
<1> DEFINE t == queue[s].currentQueueType
           q == NotifyIfPending(queue[s], s, t)
<1>1. t \in QueueTypes /\ HostTypeOK /\ cpu = Idle
  BY DEF QueueInv, TypeOK, CommenceFails, Ready
<1>2. Takes(q, t)
  BY <1>1, CommencedQueue DEF CommenceFails
<1>3. /\ queue' = [queue EXCEPT ![s] = q]
      /\ failures' = failures + 1
      /\ UNCHANGED <<gpuVars, state, slm, events, cpu, records,
                     issued, unawaited, awaited, kernArgs, mark>>
  BY DEF CommenceFails, Fails
<1> HIDE DEF q, t
<1>4. queue' \in [Streams -> NvCommandQueue]
  BY <1>1, <1>2, <1>3, QueueTyped
<1>5. HostTypeOK'
  BY <1>1, <1>3, <1>4 DEF HostTypeOK
<1> QED
  BY <1>1, <1>2, <1>3, <1>5, QueueChangeStep

LEMMA CommenceBacklogStep ==
    ASSUME QueueInv, NEW s \in Streams, CommenceBacklog(s)
    PROVE  QueueInv'
<1> DEFINE first == BacklogCurrentCmdBuffer(queue[s], "COMPUTE")
           both == BacklogCurrentCmdBuffer(first, "DMA")
<1>1. /\ HostTypeOK
      /\ queue[s] \in NvCommandQueue
      /\ queue[s].backlog # <<>>
  BY DEF QueueInv, TypeOK, HostTypeOK, CommenceBacklog
<1>2. /\ "COMPUTE" \in QueueTypes /\ Other("COMPUTE") = "DMA"
      /\ "DMA" \in QueueTypes /\ Other("DMA") = "COMPUTE"
  BY DEF QueueTypes, Other
<1>3. /\ first \in NvCommandQueue
      /\ first.buf["COMPUTE"] = <<>>
      /\ Len(first.backlog) >= Len(queue[s].backlog)
  BY <1>1, <1>2, BacklogTyped
<1>4. /\ both \in NvCommandQueue
      /\ both.buf["DMA"] = <<>>
      /\ both.buf["COMPUTE"] = first.buf["COMPUTE"]
      /\ Len(both.backlog) >= Len(first.backlog)
  <2> HIDE DEF first
  <2> QED
    BY <1>2, <1>3, BacklogTyped
<1>5. /\ queue' = [queue EXCEPT ![s] = both]
      /\ cpu' = [at |-> "submit", stream |-> s, entry |-> 1]
      /\ UNCHANGED <<gpuVars, state, slm, events, records, failures,
                     issued, unawaited, awaited, kernArgs, mark>>
  BY DEF CommenceBacklog
<1> HIDE DEF first, both
<1>6. Len(both.backlog) \in Nat /\ Len(both.backlog) >= 1 /\ both.backlog # <<>>
  <2>1. Len(queue[s].backlog) \in Nat \ {0}
    BY <1>1 DEF NvCommandQueue
  <2>2. Len(first.backlog) \in Nat /\ Len(both.backlog) \in Nat
    BY <1>3, <1>4 DEF NvCommandQueue
  <2> QED
    BY <1>3, <1>4, <2>1, <2>2
<1>7. Tidy(both)
  BY <1>6 DEF Tidy
<1>8. queue' \in [Streams -> NvCommandQueue] /\ QueuesTidy'
  BY <1>1, <1>4, <1>5, <1>7, QueueUpdate DEF QueueInv
<1>9. HostTypeOK'
  BY <1>1, <1>5, <1>8 DEF HostTypeOK, CpuState
<1>10. CursorInBacklog'
  <2>1. queue'[s] = both
    BY <1>1, <1>5 DEF HostTypeOK
  <2> QED
    BY <1>3, <1>4, <1>5, <1>6, <2>1 DEF CursorInBacklog, QueueTypes
<1>11. GpuTypeOK'
  BY <1>5 DEF QueueInv, TypeOK, GpuTypeOK, gpuVars
<1> QED
  BY <1>8, <1>9, <1>10, <1>11 DEF QueueInv, TypeOK

\* The piece under the cursor, loaded into its buffer: the other buffer stays
\* empty, the backlog is what it was.
LEMMA LoadedTyped ==
    ASSUME QueueInv, cpu.at = "submit"
    PROVE  LET s == cpu.stream
               entry == queue[s].backlog[cpu.entry]
               q == Loaded(s, entry)
           IN  /\ s \in Streams
               /\ entry.type \in QueueTypes
               /\ q \in NvCommandQueue
               /\ q.backlog = queue[s].backlog
               /\ q.backlog # <<>>
               /\ q.buf[Other(entry.type)] = <<>>
<1> DEFINE s == cpu.stream
           entry == queue[s].backlog[cpu.entry]
           buf == [queue[s].buf EXCEPT ![entry.type] = entry.buf]
           q == [queue[s] EXCEPT !.buf = buf]
<1>1. s \in Streams /\ cpu.entry \in Nat \ {0}
  BY CpuFields DEF QueueInv, TypeOK
<1>2. queue[s] \in NvCommandQueue
  BY <1>1 DEF QueueInv, TypeOK, HostTypeOK
<1>3. /\ cpu.entry <= Len(queue[s].backlog)
      /\ \A t \in QueueTypes : queue[s].buf[t] = <<>>
  BY DEF QueueInv, CursorInBacklog
<1>4. entry \in Split /\ queue[s].backlog # <<>>
  <2> DEFINE backlog == queue[s].backlog
  <2>1. backlog \in Seq(Split)
    BY <1>2 DEF NvCommandQueue
  <2>2. Len(backlog) \in Nat /\ cpu.entry \in 1..Len(backlog)
    BY <1>1, <1>3, <2>1
  <2> HIDE DEF backlog
  <2>3. backlog[cpu.entry] \in Split /\ backlog # <<>>
    BY <2>1, <2>2
  <2> QED
    BY <2>3 DEF backlog
<1>5. /\ entry.type \in QueueTypes
      /\ entry.buf \in Seq(Command)
      /\ entry.timelineCtr \in Nat
  BY <1>4, CounterIsNat DEF Split
<1>6. Loaded(s, entry) = IF entry.timelineNotifyPending
                           THEN SignalNotify(q, Timeline(s), entry.timelineCtr, entry.type)
                           ELSE q
  BY <1>2, <1>5 DEF Loaded, NvCommandQueue
<1> HIDE DEF entry
<1>7. buf \in [QueueTypes -> Seq(Command)] /\ buf[Other(entry.type)] = <<>>
  BY <1>2, <1>3, <1>5, OtherType DEF NvCommandQueue
<1> HIDE DEF buf
<1>8. /\ q \in NvCommandQueue
      /\ q.backlog = queue[s].backlog
      /\ q.buf[Other(entry.type)] = <<>>
  BY <1>2, <1>7 DEF NvCommandQueue
<1> HIDE DEF q
<1>9. LET n == SignalNotify(q, Timeline(s), entry.timelineCtr, entry.type)
      IN  /\ n \in NvCommandQueue
          /\ n.backlog = q.backlog
          /\ n.buf[Other(entry.type)] = q.buf[Other(entry.type)]
  <2>1. SignalNotify(q, Timeline(s), entry.timelineCtr, entry.type) \in NvCommandQueue
    BY <1>1, <1>5, <1>8, SignalNotifyTyped, TimelineIsSignal
  <2> QED
    BY <1>5, <1>8, <2>1, OtherType DEF SignalNotify, Enqueue, NvCommandQueue
<1>10. /\ Loaded(s, entry) \in NvCommandQueue
       /\ Loaded(s, entry).backlog = queue[s].backlog
       /\ Loaded(s, entry).buf[Other(entry.type)] = <<>>
  BY <1>6, <1>8, <1>9
<1> QED
  BY <1>1, <1>4, <1>5, <1>10 DEF entry

LEMMA SubmitEntryStep ==
    ASSUME QueueInv, SubmitEntry
    PROVE  QueueInv'
<1> DEFINE s == cpu.stream
           entry == queue[s].backlog[cpu.entry]
           t == entry.type
           q == Loaded(s, entry)
           emptied == [q EXCEPT !.buf[t] = <<>>]
<1>1. cpu.at = "submit" /\ HostTypeOK
  BY DEF SubmitEntry, QueueInv, TypeOK
<1>2. /\ s \in Streams
      /\ t \in QueueTypes
      /\ q \in NvCommandQueue
      /\ q.backlog = queue[s].backlog
      /\ q.backlog # <<>>
      /\ q.buf[Other(t)] = <<>>
  BY <1>1, LoadedTyped
<1>3. /\ SubmitToFifo(s, q, t)
      /\ cpu' = [cpu EXCEPT !.at = "wait"]
      /\ UNCHANGED <<state, slm, events, records, failures,
                     issued, unawaited, awaited, kernArgs, mark>>
  BY DEF SubmitEntry
<1> HIDE DEF q, t
<1>4. /\ emptied.backlog = q.backlog
      /\ \A any \in QueueTypes : emptied.buf[any] = <<>>
  BY <1>2 DEF NvCommandQueue, Other, QueueTypes
<1>5. Tidy(emptied)
  BY <1>2, <1>4 DEF Tidy
<1>6. /\ GpuTypeOK'
      /\ queue' \in [Streams -> NvCommandQueue]
      /\ QueuesTidy'
      /\ queue' = [queue EXCEPT ![s] = emptied]
  BY <1>2, <1>3, <1>5, SubmitTyped DEF QueueInv
<1>7. /\ cpu' \in CpuState
      /\ cpu'.stream = s /\ cpu'.entry = cpu.entry
  <2>1. cpu \in [at : {"submit", "wait"}, stream : Streams, entry : Nat \ {0}]
    BY <1>1 DEF HostTypeOK, CpuState, Idle
  <2> QED
    BY <1>3, <2>1 DEF CpuState
<1>8. HostTypeOK'
  BY <1>1, <1>3, <1>6, <1>7 DEF HostTypeOK
<1>9. CursorInBacklog'
  <2>1. queue'[s] = emptied
    BY <1>1, <1>2, <1>6 DEF HostTypeOK
  <2>2. cpu.entry <= Len(queue[s].backlog)
    BY <1>1 DEF QueueInv, CursorInBacklog
  <2> HIDE DEF emptied
  <2> QED
    BY <1>2, <1>4, <1>7, <2>1, <2>2 DEF CursorInBacklog
<1> QED
  BY <1>6, <1>8, <1>9 DEF QueueInv, TypeOK

LEMMA SubmitEntryFailsStep ==
    ASSUME QueueInv, SubmitEntryFails
    PROVE  QueueInv'
<1> DEFINE s == cpu.stream
           q == Loaded(s, queue[s].backlog[cpu.entry])
<1>1. cpu.at = "submit" /\ HostTypeOK
  BY DEF SubmitEntryFails, QueueInv, TypeOK
<1>2. s \in Streams /\ q \in NvCommandQueue /\ q.backlog # <<>>
  BY <1>1, LoadedTyped
<1>3. /\ queue' = [queue EXCEPT ![s] = q]
      /\ cpu' = Idle
      /\ failures' = failures + 1
      /\ UNCHANGED <<gpuVars, state, slm, events, records,
                     issued, unawaited, awaited, kernArgs, mark>>
  BY DEF SubmitEntryFails, Fails
<1> HIDE DEF q
<1>4. queue' \in [Streams -> NvCommandQueue] /\ QueuesTidy'
  BY <1>1, <1>2, <1>3, QueueUpdate DEF QueueInv, Tidy
<1>5. HostTypeOK'
  BY <1>1, <1>3, <1>4, IdleIsCpuState DEF HostTypeOK
<1>6. GpuTypeOK'
  BY <1>3 DEF QueueInv, TypeOK, GpuTypeOK, gpuVars
<1> QED
  BY <1>3, <1>4, <1>5, <1>6, IdleHasNoCursor DEF QueueInv, TypeOK

LEMMA NextEntryStep ==
    ASSUME QueueInv, NextEntry
    PROVE  QueueInv'
<1>1. cpu.at = "wait" /\ HostTypeOK
  BY DEF NextEntry, EntryReached, QueueInv, TypeOK
<1>2. cpu \in [at : {"submit", "wait"}, stream : Streams, entry : Nat \ {0}]
  BY <1>1 DEF HostTypeOK, CpuState, Idle
<1>3. /\ cpu' \in [at : {"submit", "wait"}, stream : Streams, entry : Nat \ {0}]
      /\ cpu'.stream = cpu.stream /\ cpu'.entry = cpu.entry + 1
  <2> DEFINE next == cpu.entry + 1
  <2>1. next \in Nat \ {0}
    BY <1>2
  <2>2. cpu' = [cpu EXCEPT !.at = "submit", !.entry = next]
    BY DEF NextEntry
  <2> HIDE DEF next
  <2>3. cpu' \in [at : {"submit", "wait"}, stream : Streams, entry : Nat \ {0}]
        /\ cpu'.stream = cpu.stream /\ cpu'.entry = next
    BY <1>2, <2>1, <2>2
  <2> QED
    BY <2>3 DEF next
<1>4. HostTypeOK'
  BY <1>1, <1>3 DEF NextEntry, HostTypeOK, CpuState
<1>5. CursorInBacklog'
  <2>1. Len(queue[cpu.stream].backlog) \in Nat
    BY <1>1, <1>2 DEF HostTypeOK, NvCommandQueue
  <2>2. cpu.entry + 1 <= Len(queue[cpu.stream].backlog)
    BY <1>2, <2>1 DEF NextEntry
  <2> QED
    BY <1>1, <1>3, <2>2 DEF NextEntry, QueueInv, CursorInBacklog
<1>6. GpuTypeOK' /\ QueuesTidy'
  BY DEF NextEntry, QueueInv, TypeOK, GpuTypeOK, QueuesTidy, gpuVars
<1> QED
  BY <1>4, <1>5, <1>6 DEF QueueInv, TypeOK

LEMMA CommenceReturnsStep ==
    ASSUME QueueInv, CommenceReturns
    PROVE  QueueInv'
<1> DEFINE s == cpu.stream
           q == [queue[s] EXCEPT !.backlog = <<>>]
<1>1. cpu.at = "wait" /\ HostTypeOK
  BY DEF CommenceReturns, EntryReached, QueueInv, TypeOK
<1>2. s \in Streams /\ queue[s] \in NvCommandQueue
  BY <1>1, CpuFields DEF HostTypeOK
<1>3. q \in NvCommandQueue
  <2>1. <<>> \in Seq(Split)
    OBVIOUS
  <2> QED
    BY <1>2, <2>1 DEF NvCommandQueue
<1>4. \A t \in QueueTypes : q.buf[t] = <<>>
  BY <1>1, <1>2 DEF QueueInv, CursorInBacklog, NvCommandQueue
<1>5. /\ queue' = [queue EXCEPT ![s] = q]
      /\ unawaited' = [unawaited EXCEPT ![s] = {}]
      /\ cpu' = Idle
      /\ UNCHANGED <<gpuVars, state, slm, events, records, failures,
                     issued, awaited, kernArgs, mark>>
  BY DEF CommenceReturns
<1> HIDE DEF q
<1>6. queue' \in [Streams -> NvCommandQueue] /\ QueuesTidy'
  BY <1>1, <1>2, <1>3, <1>4, <1>5, QueueUpdate DEF QueueInv, Tidy
<1>7. HostTypeOK'
  BY <1>1, <1>5, <1>6, IdleIsCpuState DEF HostTypeOK
<1>8. GpuTypeOK'
  BY <1>5 DEF QueueInv, TypeOK, GpuTypeOK, gpuVars
<1> QED
  BY <1>5, <1>6, <1>7, <1>8, IdleHasNoCursor DEF QueueInv, TypeOK

LEMMA AwaitStep ==
    ASSUME QueueInv, NEW s \in Streams, Await(s)
    PROVE  QueueInv'
<1>1. HostTypeOK'
  BY DEF QueueInv, TypeOK, HostTypeOK, Await, CpuState
<1>2. cpu'.at \notin {"submit", "wait"}
  BY DEF Await
<1> QED
  BY <1>1, <1>2, QuietStep DEF Await

LEMMA AwaitReturnsStep ==
    ASSUME QueueInv, AwaitReturns
    PROVE  QueueInv'
<1> DEFINE s == cpu.stream
           q == [queue[s] EXCEPT !.kernArgsWriteIdx = 0]
<1>1. s \in Streams /\ HostTypeOK
  BY CpuFields DEF AwaitReturns, QueueInv, TypeOK
<1>2. queue[s] \in NvCommandQueue /\ Tidy(queue[s])
  BY <1>1 DEF HostTypeOK, QueueInv, QueuesTidy
<1>3. q \in NvCommandQueue /\ Tidy(q)
  <2>1. 0 \in 0..KernArgsSlots
    BY FuncAssumption
  <2> QED
    BY <1>2, <2>1 DEF NvCommandQueue, Tidy
<1>4. /\ queue' = [queue EXCEPT ![s] = q]
      /\ unawaited' = [unawaited EXCEPT ![s] = {}]
      /\ awaited' = [awaited EXCEPT ![s] = Len(issued[s])]
      /\ cpu' = Idle
      /\ UNCHANGED <<gpuVars, state, slm, events, records, failures,
                     issued, kernArgs, mark>>
  BY DEF AwaitReturns
<1> HIDE DEF q
<1>5. queue' \in [Streams -> NvCommandQueue] /\ QueuesTidy'
  BY <1>1, <1>3, <1>4, QueueUpdate DEF QueueInv
<1>6. Len(issued[s]) \in Nat
  BY <1>1 DEF HostTypeOK
<1>7. HostTypeOK'
  BY <1>1, <1>4, <1>5, <1>6, IdleIsCpuState DEF HostTypeOK
<1>8. GpuTypeOK'
  BY <1>4 DEF QueueInv, TypeOK, GpuTypeOK, gpuVars
<1> QED
  BY <1>4, <1>5, <1>7, <1>8, IdleHasNoCursor DEF QueueInv, TypeOK

-----------------------------------------------------------------------------
(* Every step keeps the invariant.                                         *)

LEMMA GpuStepKeeps ==
    ASSUME QueueInv, GpuStep
    PROVE  QueueInv'
<1>1. GpuTypeOK'
  BY GpuTyped DEF QueueInv, TypeOK, GpuStep
<1>2. HostTypeOK' /\ QueuesTidy' /\ CursorInBacklog'
  BY DEF QueueInv, TypeOK, HostTypeOK, QueuesTidy, CursorInBacklog, GpuStep, hostVars
<1> QED
  BY <1>1, <1>2 DEF QueueInv, TypeOK

LEMMA StutterKeeps ==
    ASSUME QueueInv, UNCHANGED vars
    PROVE  QueueInv'
BY DEF QueueInv, TypeOK, GpuTypeOK, HostTypeOK, QueuesTidy, CursorInBacklog,
       vars, gpuVars, hostVars

LEMMA CallKeeps ==
    ASSUME QueueInv, NEW s \in Streams, Call(s)
    PROVE  QueueInv'
<1>1. CASE StreamCreate(s) \/ StreamCreateFails(s) \/ StreamDestroy(s)
  BY <1>1, StreamCreateStep, StreamCreateFailsStep, StreamDestroyStep
<1>2. CASE \E f \in Funcs : LaunchFailsLocalMem(s, f)
  BY <1>2, LaunchFailsLocalMemStep
<1>3. CASE \E f \in Funcs, async \in BOOLEAN :
              LaunchFunction(s, f, async) \/ LaunchFailsLate(s, f, async)
  BY <1>3, LaunchFunctionStep, LaunchFailsLateStep
<1>4. CASE \E async \in BOOLEAN : GpuMemcpy(s, async)
  BY <1>4, GpuMemcpyStep
<1>5. CASE \E e \in Events : RecordEvent(e, s) \/ RecordEventFails(e, s)
  BY <1>5, RecordEventStep, RecordEventFailsStep
<1>6. CASE Commence(s) \/ CommenceFails(s) \/ CommenceBacklog(s) \/ Await(s)
  BY <1>6, CommenceStep, CommenceFailsStep, CommenceBacklogStep, AwaitStep
<1> QED
  BY <1>1, <1>2, <1>3, <1>4, <1>5, <1>6 DEF Call

LEMMA QueueStep == QueueInv /\ [Next]_vars => QueueInv'
<1> SUFFICES ASSUME QueueInv, [Next]_vars PROVE QueueInv'
  OBVIOUS
<1>1. CASE GpuStep
  BY <1>1, GpuStepKeeps
<1>2. CASE Return
  BY <1>2, InitComputeReturnsStep, InitDmaReturnsStep, SubmitEntryStep, NextEntryStep,
     CommenceReturnsStep, AwaitReturnsStep, EventSynchronizeReturnsStep DEF Return
<1>3. CASE SubmitEntryFails
  BY <1>3, SubmitEntryFailsStep
<1>4. CASE \E s \in Streams : Call(s)
  BY <1>4, CallKeeps
<1>5. CASE \E e \in Events : EventSynchronize(e) \/ EventDestroy(e)
  BY <1>5, EventSynchronizeStep, EventDestroyStep
<1>6. CASE Exit \/ UNCHANGED vars
  BY <1>6, StutterKeeps DEF Exit
<1> QED
  BY <1>1, <1>2, <1>3, <1>4, <1>5, <1>6 DEF Next

LEMMA QueueInit == Init => QueueInv
<1> SUFFICES ASSUME Init PROVE QueueInv
  OBVIOUS
<1>1. GpuTypeOK
  BY DEF Init, GpuInit, GpuTypeOK
<1>2. queue \in [Streams -> NvCommandQueue] /\ QueuesTidy
  <2>1. \A s \in Streams : NewQueue(s, "OTHER") \in NvCommandQueue
                           /\ Tidy(NewQueue(s, "OTHER"))
    BY NewQueueTakes DEF Tidy
  <2> QED
    BY <2>1 DEF Init, QueuesTidy
<1>3. HostTypeOK
  <2>1. NewEvent \in LibreCUEvent
    BY DEF NewEvent, LibreCUEvent
  <2>2. slm \in SlmType
    BY DEF Init, SlmType
  <2>3. issued \in [Streams -> Seq(OpKind)]
    BY DEF Init
  <2> QED
    BY <1>2, <2>1, <2>2, <2>3, IdleIsCpuState DEF Init, HostTypeOK, SlmType
<1>4. CursorInBacklog
  BY DEF Init, CursorInBacklog, Idle
<1> QED
  BY <1>1, <1>2, <1>3, <1>4 DEF QueueInv, TypeOK

LEMMA QueueInvariant == Spec => []QueueInv
BY QueueInit, QueueStep, PTL DEF Spec

\* Every variable stays within its type, for any number of streams, functions,
\* events and operations, whatever the program does and whichever call fails:
\* the timeline counter within NvU32, the kernargs index within its page, only
\* well-formed commands in the buffers and channels (cmdqueue.h:51-155).
THEOREM TypeCorrect == Spec => []TypeOK
BY QueueInvariant, PTL DEF QueueInv

\* The LIBRECUDA_VALIDATEs of startExecution cannot fail: when a stream with an
\* empty backlog is commenced, only the buffer of its current type holds
\* commands, even after calls that failed half-way (cmdqueue.cpp:847-864).
THEOREM ValidationsHold == Spec => []OneBufferInUse
<1>1. QueueInv => OneBufferInUse
  BY DEF QueueInv, QueuesTidy, Tidy, OneBufferInUse
<1> QED
  BY <1>1, QueueInvariant, PTL

-----------------------------------------------------------------------------
(* Once and for all.  The buffers and the backlog of a stream, the channels *)
(* and what has started hold each operation in one place.                   *)

\* The commands of seq include the operation o.
Has(seq, o) == \E i \in DOMAIN seq : IsWork(seq[i]) /\ seq[i].op = o

\* No operation occurs twice in seq.
OnceIn(seq) ==
    \A i, j \in DOMAIN seq :
        IsWork(seq[i]) /\ IsWork(seq[j]) /\ seq[i].op = seq[j].op => i = j

\* The pieces of the backlog from the k-th on are still to be submitted: with
\* the buffers they hold the operation o.
Holds(q, k, o) ==
    \/ \E t \in QueueTypes : Has(q.buf[t], o)
    \/ \E i \in k..Len(q.backlog) : Has(q.backlog[i].buf, o)

\* They hold every operation at most once.
Single(q, k) ==
    /\ \A t \in QueueTypes : OnceIn(q.buf[t])
    /\ \A i \in k..Len(q.backlog) : OnceIn(q.backlog[i].buf)
    /\ \A o \in Ops :
          /\ \A t, u \in QueueTypes : Has(q.buf[t], o) /\ Has(q.buf[u], o) => t = u
          /\ \A i, j \in k..Len(q.backlog) :
                Has(q.backlog[i].buf, o) /\ Has(q.backlog[j].buf, o) => i = j
          /\ \A t \in QueueTypes : \A i \in k..Len(q.backlog) :
                ~(Has(q.buf[t], o) /\ Has(q.backlog[i].buf, o))

\* The first piece of the backlog of s that is still to be submitted.
Cursor(s) ==
    IF cpu.at \in {"submit", "wait"} /\ cpu.stream = s
      THEN IF cpu.at = "submit" THEN cpu.entry ELSE cpu.entry + 1
      ELSE 1

Waiting(s, o) == Holds(queue[s], Cursor(s), o)
InChannel(o) == \E c \in QueueTypes : Has(fifo[c], o)
WasIssued(o) == o[2] \in 1..Len(issued[o[1]])

\* Nothing is issued on a stream before it exists, nor beyond the bound.
IssuedInv ==
    \A s \in Streams : /\ state[s] = "none" => issued[s] = <<>>
                       /\ Len(issued[s]) <= MaxOps

EveryOpHeld ==
    \A o \in Ops : WasIssued(o) => Waiting(o[1], o) \/ InChannel(o) \/ o \in Started

QueuesSingle == \A s \in Streams : Single(queue[s], Cursor(s))

ChannelsSingle ==
    /\ \A c \in QueueTypes : OnceIn(fifo[c])
    /\ \A o \in Ops : ~(Has(fifo["COMPUTE"], o) /\ Has(fifo["DMA"], o))

\* An operation waits in its own stream, is in a channel, or has started.
OnePlace ==
    \A o \in Ops :
        /\ InChannel(o) => o \notin Started
        /\ InChannel(o) \/ o \in Started => WasIssued(o)
        /\ \A s \in Streams :
              Waiting(s, o) => /\ s = o[1] /\ WasIssued(o)
                               /\ ~InChannel(o) /\ o \notin Started

Once == QueuesSingle /\ ChannelsSingle /\ OnePlace

-----------------------------------------------------------------------------
(* Operations in a sequence of commands.                                   *)

LEMMA EmptyHasNone == (\A o : ~Has(<<>>, o)) /\ OnceIn(<<>>)
BY DEF Has, OnceIn

LEMMA HasIsOp ==
    ASSUME NEW seq \in Seq(Command), NEW o, Has(seq, o)
    PROVE  o \in Ops
<1>1. PICK i \in DOMAIN seq : IsWork(seq[i]) /\ seq[i].op = o
  BY DEF Has
<1>2. seq[i] \in Command
  BY <1>1
<1> QED
  BY <1>1, <1>2 DEF IsWork, Command, Launches, Copies, Releases, Acquires, LocalMemSets

\* The indices of a sequence with one more element.
LEMMA AppendIndices ==
    ASSUME NEW T, NEW seq \in Seq(T), NEW x \in T
    PROVE  LET r == Append(seq, x)
           IN  /\ Len(seq) \in Nat
               /\ DOMAIN seq = 1..Len(seq)
               /\ DOMAIN r = 1..(Len(seq) + 1)
               /\ \A i \in 1..Len(seq) : r[i] = seq[i]
               /\ r[Len(seq) + 1] = x
OBVIOUS

LEMMA AppendIdle ==
    ASSUME NEW seq \in Seq(Command), NEW cmd \in Command, ~IsWork(cmd)
    PROVE  /\ \A o : Has(Append(seq, cmd), o) <=> Has(seq, o)
           /\ OnceIn(seq) => OnceIn(Append(seq, cmd))
<1> DEFINE r == Append(seq, cmd)
           n == Len(seq)
<1>1. /\ n \in Nat
      /\ DOMAIN seq = 1..n
      /\ DOMAIN r = 1..(n + 1)
      /\ \A i \in 1..n : r[i] = seq[i]
      /\ r[n + 1] = cmd
  BY AppendIndices
<1> HIDE DEF r, n
<1>2. \A i \in DOMAIN r : IsWork(r[i]) => i \in DOMAIN seq
  BY <1>1
<1>3. \A i \in DOMAIN seq : i \in DOMAIN r /\ r[i] = seq[i]
  BY <1>1
<1>4. \A o : Has(r, o) <=> Has(seq, o)
  BY <1>2, <1>3, Zenon DEF Has
<1>5. OnceIn(seq) => OnceIn(r)
  BY <1>2, <1>3, Zenon DEF OnceIn
<1> QED
  BY <1>4, <1>5 DEF r

LEMMA AppendWork ==
    ASSUME NEW seq \in Seq(Command), NEW cmd \in Command, IsWork(cmd)
    PROVE  /\ \A o : Has(Append(seq, cmd), o) <=> Has(seq, o) \/ o = cmd.op
           /\ OnceIn(seq) /\ ~Has(seq, cmd.op) => OnceIn(Append(seq, cmd))
<1> DEFINE r == Append(seq, cmd)
           n == Len(seq)
<1>1. /\ n \in Nat
      /\ DOMAIN seq = 1..n
      /\ DOMAIN r = 1..(n + 1)
      /\ \A i \in 1..n : r[i] = seq[i]
      /\ r[n + 1] = cmd
  BY AppendIndices
<1> HIDE DEF r, n
<1>2. \A i \in DOMAIN r : i \in DOMAIN seq \/ i = n + 1
  BY <1>1
<1>3. /\ n + 1 \in DOMAIN r
      /\ \A i \in DOMAIN seq : i \in DOMAIN r /\ r[i] = seq[i]
  BY <1>1
<1>4. \A o : Has(r, o) <=> Has(seq, o) \/ o = cmd.op
  BY <1>1, <1>2, <1>3, Zenon DEF Has
<1>5. OnceIn(seq) /\ ~Has(seq, cmd.op) => OnceIn(r)
  BY <1>1, <1>2, <1>3, Zenon DEF OnceIn, Has
<1> QED
  BY <1>4, <1>5 DEF r

LEMMA Concatenated ==
    ASSUME NEW a \in Seq(Command), NEW b \in Seq(Command)
    PROVE  /\ \A o : Has(a \o b, o) <=> Has(a, o) \/ Has(b, o)
           /\ OnceIn(a) /\ OnceIn(b) /\ (\A o \in Ops : ~(Has(a, o) /\ Has(b, o)))
                => OnceIn(a \o b)
<1> DEFINE r == a \o b
           n == Len(a)
<1>1. /\ n \in Nat /\ Len(b) \in Nat
      /\ DOMAIN a = 1..n /\ DOMAIN b = 1..Len(b)
      /\ DOMAIN r = 1..(n + Len(b))
      /\ \A i \in 1..n : r[i] = a[i]
      /\ \A i \in 1..Len(b) : r[n + i] = b[i]
  OBVIOUS
<1> HIDE DEF r, n
<1>2. \A i \in DOMAIN r : i \in DOMAIN a \/ \E j \in DOMAIN b : i = n + j
  <2> SUFFICES ASSUME NEW i \in DOMAIN r, i \notin DOMAIN a
               PROVE  \E j \in DOMAIN b : i = n + j
    OBVIOUS
  <2>1. i - n \in DOMAIN b /\ i = n + (i - n)
    BY <1>1
  <2> QED
    BY <2>1
<1>3. /\ \A i \in DOMAIN a : i \in DOMAIN r /\ r[i] = a[i]
      /\ \A j \in DOMAIN b : n + j \in DOMAIN r /\ r[n + j] = b[j]
  BY <1>1
<1>4. \A o : Has(r, o) <=> Has(a, o) \/ Has(b, o)
  <2>1. ASSUME NEW o, Has(r, o) PROVE Has(a, o) \/ Has(b, o)
    <3>1. PICK i \in DOMAIN r : IsWork(r[i]) /\ r[i].op = o
      BY <2>1 DEF Has
    <3>2. CASE i \in DOMAIN a
      BY <1>3, <3>1, <3>2 DEF Has
    <3>3. CASE \E j \in DOMAIN b : i = n + j
      BY <1>3, <3>1, <3>3, Zenon DEF Has
    <3> QED
      BY <1>2, <3>2, <3>3
  <2>2. ASSUME NEW o, Has(a, o) PROVE Has(r, o)
    BY <1>3, <2>2, Zenon DEF Has
  <2>3. ASSUME NEW o, Has(b, o) PROVE Has(r, o)
    BY <1>3, <2>3, Zenon DEF Has
  <2> QED
    BY <2>1, <2>2, <2>3
<1>5. ASSUME OnceIn(a), OnceIn(b), \A o \in Ops : ~(Has(a, o) /\ Has(b, o))
      PROVE  OnceIn(r)
  <2> SUFFICES ASSUME NEW i \in DOMAIN r, NEW j \in DOMAIN r,
                      IsWork(r[i]), IsWork(r[j]), r[i].op = r[j].op
               PROVE  i = j
    BY DEF OnceIn
  <2>1. \A o : ~(Has(a, o) /\ Has(b, o))
    BY <1>5, HasIsOp
  <2>2. CASE i \in DOMAIN a /\ j \in DOMAIN a
    BY <1>3, <1>5, <2>2 DEF OnceIn
  <2>3. CASE i \in DOMAIN a /\ j \notin DOMAIN a
    BY <1>2, <1>3, <2>1, <2>3, Zenon DEF Has
  <2>4. CASE i \notin DOMAIN a /\ j \in DOMAIN a
    BY <1>2, <1>3, <2>1, <2>4, Zenon DEF Has
  <2>5. CASE i \notin DOMAIN a /\ j \notin DOMAIN a
    <3>1. PICK k \in DOMAIN b : i = n + k
      BY <1>2, <2>5
    <3>2. PICK l \in DOMAIN b : j = n + l
      BY <1>2, <2>5
    <3>3. k = l
      BY <1>3, <1>5, <3>1, <3>2 DEF OnceIn
    <3> QED
      BY <3>1, <3>2, <3>3
  <2> QED
    BY <2>2, <2>3, <2>4, <2>5
<1> QED
  BY <1>4, <1>5 DEF r

\* The command a channel takes leaves the others where they were.
LEMMA Taken ==
    ASSUME NEW seq \in Seq(Command), seq # <<>>
    PROVE  /\ \A o : Has(Tail(seq), o) => Has(seq, o)
           /\ \A o : Has(seq, o) =>
                 \/ Has(Tail(seq), o)
                 \/ IsWork(Head(seq)) /\ o = Head(seq).op
           /\ OnceIn(seq) => /\ OnceIn(Tail(seq))
                             /\ IsWork(Head(seq)) => ~Has(Tail(seq), Head(seq).op)
           /\ IsWork(Head(seq)) => Has(seq, Head(seq).op)
<1> DEFINE r == Tail(seq)
           n == Len(seq)
<1>1. /\ n \in Nat \ {0}
      /\ DOMAIN seq = 1..n
      /\ DOMAIN r = 1..(n - 1)
      /\ \A i \in 1..(n - 1) : r[i] = seq[i + 1]
      /\ Head(seq) = seq[1]
  OBVIOUS
<1> HIDE DEF r, n
<1>2. /\ 1 \in DOMAIN seq
      /\ \A i \in DOMAIN r : i + 1 \in DOMAIN seq /\ i + 1 # 1 /\ r[i] = seq[i + 1]
      /\ \A i, j \in DOMAIN r : i + 1 = j + 1 => i = j
  BY <1>1
<1>3. \A i \in DOMAIN seq : i = 1 \/ \E j \in DOMAIN r : i = j + 1
  <2> SUFFICES ASSUME NEW i \in DOMAIN seq, i # 1
               PROVE  \E j \in DOMAIN r : i = j + 1
    OBVIOUS
  <2>1. i - 1 \in DOMAIN r /\ i = (i - 1) + 1
    BY <1>1
  <2> QED
    BY <2>1
<1>4. \A o : Has(r, o) => Has(seq, o)
  BY <1>2, Zenon DEF Has
<1>5. \A o : Has(seq, o) =>
          \/ Has(r, o)
          \/ IsWork(Head(seq)) /\ o = Head(seq).op
  <2> SUFFICES ASSUME NEW o, Has(seq, o), ~Has(r, o)
               PROVE  IsWork(Head(seq)) /\ o = Head(seq).op
    BY Zenon
  <2>1. PICK i \in DOMAIN seq : IsWork(seq[i]) /\ seq[i].op = o
    BY DEF Has
  <2>2. i = 1
    BY <1>2, <1>3, <2>1, Zenon DEF Has
  <2> QED
    BY <1>1, <2>1, <2>2
<1>6. OnceIn(seq) => OnceIn(r)
  BY <1>2, Zenon DEF OnceIn
<1>7. OnceIn(seq) /\ IsWork(Head(seq)) => ~Has(r, Head(seq).op)
  BY <1>1, <1>2, Zenon DEF OnceIn, Has
<1>8. IsWork(Head(seq)) => Has(seq, Head(seq).op)
  BY <1>1, <1>2, Zenon DEF Has
<1> QED
  BY <1>4, <1>5, <1>6, <1>7, <1>8 DEF r

-----------------------------------------------------------------------------
(* Operations in a queue.                                                  *)

\* r holds the operations of q, no more often than q does.
Keeps(q, r, k) ==
    /\ \A o : Holds(r, k, o) <=> Holds(q, k, o)
    /\ Single(q, k) => Single(r, k)

\* r differs from q in its fields that hold no commands, or in commands that
\* are not operations.
Alike(q, r) ==
    /\ r.backlog = q.backlog
    /\ \A t \in QueueTypes :
          /\ \A o : Has(r.buf[t], o) <=> Has(q.buf[t], o)
          /\ OnceIn(q.buf[t]) => OnceIn(r.buf[t])

LEMMA AlikeKeeps ==
    ASSUME NEW q, NEW r, Alike(q, r), NEW k
    PROVE  Keeps(q, r, k)
<1>1. \A o : Holds(r, k, o) <=> Holds(q, k, o)
  BY Zenon DEF Alike, Holds
<1>2. Single(q, k) => Single(r, k)
  BY Zenon DEF Alike, Single
<1> QED
  BY <1>1, <1>2 DEF Keeps

LEMMA KeepsTransitive ==
    ASSUME NEW q, NEW r, NEW v, NEW k, Keeps(q, r, k), Keeps(r, v, k)
    PROVE  Keeps(q, v, k)
BY Zenon DEF Keeps

LEMMA SelfKeeps == \A q, k : Keeps(q, q, k)
BY DEF Keeps

LEMMA ScalarFieldsKeep ==
    ASSUME NEW q \in NvCommandQueue, NEW k
    PROVE  /\ \A b : Keeps(q, [q EXCEPT !.timelineNotifyPending = b], k)
           /\ \A n : Keeps(q, [q EXCEPT !.timelineCtr = n], k)
           /\ \A n : Keeps(q, [q EXCEPT !.kernArgsWriteIdx = n], k)
           /\ \A n : Keeps(q, [q EXCEPT !.currentSlmPerThread = n], k)
           /\ \A type : Keeps(q, [q EXCEPT !.currentQueueType = type], k)
           /\ \A left, type : Keeps(q, [q EXCEPT !.freeSignals = left,
                                                 !.currentQueueType = type], k)
<1>1. \A r : r.buf = q.buf /\ r.backlog = q.backlog => Keeps(q, r, k)
  BY AlikeKeeps DEF Alike
<1> QED
  BY <1>1 DEF NvCommandQueue

LEMMA EnqueueKeeps ==
    ASSUME NEW q \in NvCommandQueue, NEW cmd \in Command, ~IsWork(cmd),
           NEW t \in QueueTypes, NEW k
    PROVE  Keeps(q, Enqueue(q, cmd, t), k)
<1> DEFINE r == Enqueue(q, cmd, t)
<1>1. /\ r.backlog = q.backlog
      /\ r.buf[t] = Append(q.buf[t], cmd)
      /\ \A u \in QueueTypes : u # t => r.buf[u] = q.buf[u]
  BY DEF Enqueue, NvCommandQueue
<1>2. q.buf[t] \in Seq(Command)
  BY DEF NvCommandQueue
<1> HIDE DEF r
<1>3. /\ \A o : Has(r.buf[t], o) <=> Has(q.buf[t], o)
      /\ OnceIn(q.buf[t]) => OnceIn(r.buf[t])
  BY <1>1, <1>2, AppendIdle
<1>4. Alike(q, r)
  BY <1>1, <1>3, Zenon DEF Alike
<1> QED
  BY <1>4, AlikeKeeps DEF r

LEMMA EnqueueAdds ==
    ASSUME NEW q \in NvCommandQueue, NEW cmd \in Command, IsWork(cmd),
           NEW t \in QueueTypes, NEW k
    PROVE  LET r == Enqueue(q, cmd, t)
           IN  /\ \A o : Holds(r, k, o) <=> Holds(q, k, o) \/ o = cmd.op
               /\ Single(q, k) /\ ~Holds(q, k, cmd.op) => Single(r, k)
<1> DEFINE r == Enqueue(q, cmd, t)
<1>1. /\ r.backlog = q.backlog
      /\ r.buf[t] = Append(q.buf[t], cmd)
      /\ \A u \in QueueTypes : u # t => r.buf[u] = q.buf[u]
  BY DEF Enqueue, NvCommandQueue
<1>2. q.buf[t] \in Seq(Command)
  BY DEF NvCommandQueue
<1> HIDE DEF r
<1>3. /\ \A o : Has(r.buf[t], o) <=> Has(q.buf[t], o) \/ o = cmd.op
      /\ OnceIn(q.buf[t]) /\ ~Has(q.buf[t], cmd.op) => OnceIn(r.buf[t])
  BY <1>1, <1>2, AppendWork
<1>4. \A u \in QueueTypes : \A o : Has(r.buf[u], o) <=> Has(q.buf[u], o) \/ (u = t /\ o = cmd.op)
  BY <1>1, <1>3
<1>5. \A o : Holds(r, k, o) <=> Holds(q, k, o) \/ o = cmd.op
  BY <1>1, <1>4, Zenon DEF Holds
<1>6. ASSUME Single(q, k), ~Holds(q, k, cmd.op)
      PROVE  Single(r, k)
  <2>1. /\ \A u \in QueueTypes : ~Has(q.buf[u], cmd.op)
        /\ \A i \in k..Len(q.backlog) : ~Has(q.backlog[i].buf, cmd.op)
    BY <1>6, Zenon DEF Holds
  <2>2. \A u \in QueueTypes : OnceIn(r.buf[u])
    BY <1>1, <1>3, <1>6, <2>1 DEF Single
  <2>3. \A i \in k..Len(q.backlog) : OnceIn(q.backlog[i].buf)
    BY <1>6 DEF Single
  <2>4. ASSUME NEW o \in Ops
        PROVE  /\ \A u, v \in QueueTypes : Has(r.buf[u], o) /\ Has(r.buf[v], o) => u = v
               /\ \A i, j \in k..Len(q.backlog) :
                     Has(q.backlog[i].buf, o) /\ Has(q.backlog[j].buf, o) => i = j
               /\ \A u \in QueueTypes : \A i \in k..Len(q.backlog) :
                     ~(Has(r.buf[u], o) /\ Has(q.backlog[i].buf, o))
    <3>1. CASE o = cmd.op
      BY <1>4, <1>6, <2>1, <3>1, Zenon DEF Single
    <3>2. CASE o # cmd.op
      BY <1>4, <1>6, <3>2, Zenon DEF Single
    <3> QED
      BY <3>1, <3>2
  <2> QED
    BY <1>1, <2>2, <2>3, <2>4, Zenon DEF Single
<1> QED
  BY <1>5, <1>6 DEF r

\* A buffer that moves to the backlog takes its operations along.
LEMMA BacklogKeeps ==
    ASSUME NEW q \in NvCommandQueue, NEW t \in QueueTypes
    PROVE  Keeps(q, BacklogCurrentCmdBuffer(q, t), 1)
<1> DEFINE r == BacklogCurrentCmdBuffer(q, t)
           split == [buf |-> q.buf[t], type |-> t,
                     timelineCtr |-> q.timelineCtr,
                     timelineNotifyPending |-> q.timelineNotifyPending]
           n == Len(q.backlog) + 1
<1>1. CASE q.buf[t] = <<>>
  BY <1>1, SelfKeeps DEF BacklogCurrentCmdBuffer
<1>2. CASE q.buf[t] # <<>>
  <2>1. /\ r.backlog = Append(q.backlog, split)
        /\ r.buf[t] = <<>>
        /\ \A u \in QueueTypes : u # t => r.buf[u] = q.buf[u]
    BY <1>2 DEF BacklogCurrentCmdBuffer, NvCommandQueue
  <2>2. q.backlog \in Seq(Split) /\ split \in Split
    BY DEF NvCommandQueue, Split
  <2>3. split.buf = q.buf[t]
    OBVIOUS
  <2> HIDE DEF r, split, n
  <2>4. /\ \A i \in 1..Len(q.backlog) : r.backlog[i] = q.backlog[i]
        /\ r.backlog[n] = split
        /\ \A i : i \in 1..Len(r.backlog) <=> i \in 1..Len(q.backlog) \/ i = n
        /\ n \notin 1..Len(q.backlog)
    <3>1. /\ Len(q.backlog) \in Nat
          /\ DOMAIN r.backlog = 1..n
          /\ \A i \in 1..Len(q.backlog) : r.backlog[i] = q.backlog[i]
          /\ r.backlog[n] = split
      BY <2>1, <2>2, AppendIndices DEF n
    <3>2. Len(r.backlog) = n
      BY <2>1, <2>2 DEF n
    <3> QED
      BY <3>1, <3>2 DEF n
  <2>5. ~ \E o : Has(r.buf[t], o)
    BY <2>1, EmptyHasNone
  <2>6. /\ \A o : Has(r.backlog[n].buf, o) <=> Has(q.buf[t], o)
        /\ OnceIn(r.backlog[n].buf) <=> OnceIn(q.buf[t])
    BY <2>3, <2>4
  <2>7. \A o : Holds(r, 1, o) <=> Holds(q, 1, o)
    BY <2>1, <2>4, <2>5, <2>6, Zenon DEF Holds
  <2>8. ASSUME Single(q, 1) PROVE Single(r, 1)
    <3>1. \A u \in QueueTypes : OnceIn(r.buf[u])
      BY <2>1, <2>8, EmptyHasNone DEF Single
    <3>2. \A i \in 1..Len(r.backlog) : OnceIn(r.backlog[i].buf)
      BY <2>4, <2>6, <2>8, Zenon DEF Single
    <3>3. ASSUME NEW o \in Ops
          PROVE  \A u, v \in QueueTypes : Has(r.buf[u], o) /\ Has(r.buf[v], o) => u = v
      BY <2>1, <2>5, <2>8, Zenon DEF Single
    <3>4. ASSUME NEW o \in Ops
          PROVE  \A i, j \in 1..Len(r.backlog) :
                     Has(r.backlog[i].buf, o) /\ Has(r.backlog[j].buf, o) => i = j
      BY <2>4, <2>6, <2>8, Zenon DEF Single
    <3>5. ASSUME NEW o \in Ops
          PROVE  \A u \in QueueTypes : \A i \in 1..Len(r.backlog) :
                     ~(Has(r.buf[u], o) /\ Has(r.backlog[i].buf, o))
      BY <2>1, <2>4, <2>5, <2>6, <2>8, Zenon DEF Single
    <3> QED
      BY <3>1, <3>2, <3>3, <3>4, <3>5, Zenon DEF Single
  <2> QED
    BY <2>7, <2>8, Zenon DEF Keeps, r
<1> QED
  BY <1>1, <1>2

LEMMA SwitchToKeeps ==
    ASSUME NEW q \in NvCommandQueue, NEW t \in QueueTypes
    PROVE  Keeps(q, SwitchTo(q, t), 1)
<1> DEFINE type == IF q.buf[Other(t)] = <<>> THEN t ELSE q.currentQueueType
           r == BacklogCurrentCmdBuffer(q, Other(t))
<1>1. r \in NvCommandQueue /\ Keeps(q, r, 1)
  BY BacklogTyped, BacklogKeeps, OtherType
<1>2. \/ SwitchTo(q, t) = [r EXCEPT !.currentQueueType = t]
      \/ SwitchTo(q, t) = [q EXCEPT !.currentQueueType = type]
  BY DEF SwitchTo
<1> HIDE DEF r, type
<1> QED
  BY <1>1, <1>2, ScalarFieldsKeep, KeepsTransitive

LEMMA SignalNotifyKeeps ==
    ASSUME NEW q \in NvCommandQueue, NEW sig \in Signals, NEW target \in Nat,
           NEW t \in QueueTypes, NEW k
    PROVE  Keeps(q, SignalNotify(q, sig, target, t), k)
BY CommandTypes, EnqueueKeeps DEF SignalNotify, IsWork

LEMMA SignalWaitGpuKeeps ==
    ASSUME NEW q \in NvCommandQueue, NEW sig \in Signals, NEW target \in Nat, NEW k
    PROVE  Keeps(q, SignalWaitGpu(q, sig, target), k)
BY CommandTypes, EnqueueKeeps, SelfKeeps DEF SignalWaitGpu, IsWork, QueueTypes

LEMMA NotifyIfPendingKeeps ==
    ASSUME NEW q \in NvCommandQueue, NEW s \in Streams, NEW t \in QueueTypes, NEW k
    PROVE  /\ NotifyIfPending(q, s, t) \in NvCommandQueue
           /\ Keeps(q, NotifyIfPending(q, s, t), k)
<1>1. q.timelineCtr \in Nat
  BY CounterIsNat DEF NvCommandQueue
<1> QED
  BY <1>1, SignalNotifyTyped, SignalNotifyKeeps, SelfKeeps, TimelineIsSignal
     DEF NotifyIfPending

LEMMA WaitForPreviousKeeps ==
    ASSUME NEW q \in NvCommandQueue, NEW s \in Streams, NEW async \in BOOLEAN, NEW k
    PROVE  Keeps(q, WaitForPrevious(q, s, async), k)
<1> DEFINE notified == NotifyIfPending(q, s, "COMPUTE")
           n == [notified EXCEPT !.timelineNotifyPending = FALSE]
<1>1. notified \in NvCommandQueue /\ Keeps(q, notified, k)
  BY NotifyIfPendingKeeps DEF QueueTypes
<1> HIDE DEF notified
<1>2. n \in NvCommandQueue
  BY <1>1 DEF NvCommandQueue
<1>3. Keeps(q, n, k)
  BY <1>1, ScalarFieldsKeep, KeepsTransitive
<1>4. q.timelineCtr \in Nat
  BY CounterIsNat DEF NvCommandQueue
<1> HIDE DEF n
<1>5. Keeps(q, SignalWaitGpu(n, Timeline(s), q.timelineCtr), k)
  BY <1>2, <1>3, <1>4, SignalWaitGpuKeeps, TimelineIsSignal, KeepsTransitive
<1> USE DEF n, notified
<1> QED
  BY <1>5, SelfKeeps DEF WaitForPrevious

LEMMA EndOpKeeps ==
    ASSUME NEW q \in NvCommandQueue, NEW s \in Streams, NEW async \in BOOLEAN,
           NEW t \in QueueTypes, NEW k
    PROVE  Keeps(q, EndOp(q, s, async, t), k)
<1> DEFINE next == AdvanceTimeline(q)
           notified == SignalNotify(next, Timeline(s), next.timelineCtr, t)
<1>1. next \in NvCommandQueue /\ next.timelineCtr \in Nat
  <2>1. q.timelineCtr \in Nat
    BY CounterIsNat DEF NvCommandQueue
  <2>2. (q.timelineCtr + 1) % CtrModulus \in Counter
    BY <2>1, CtrAssumption DEF Counter
  <2>3. next \in NvCommandQueue
    BY <2>2 DEF AdvanceTimeline, NvCommandQueue
  <2> QED
    BY <2>3, CounterIsNat DEF NvCommandQueue
<1>2. Keeps(q, next, k)
  BY ScalarFieldsKeep DEF AdvanceTimeline
<1> HIDE DEF next
<1>3. notified \in NvCommandQueue /\ Keeps(next, notified, k)
  BY <1>1, SignalNotifyTyped, SignalNotifyKeeps, TimelineIsSignal
<1> HIDE DEF notified
<1>4. /\ Keeps(q, [next EXCEPT !.timelineNotifyPending = TRUE], k)
      /\ Keeps(q, [notified EXCEPT !.timelineNotifyPending = FALSE], k)
  BY <1>1, <1>2, <1>3, ScalarFieldsKeep, KeepsTransitive
<1> QED
  BY <1>4 DEF EndOp, next, notified

LEMMA EnsureEnoughLocalMemKeeps ==
    ASSUME HostTypeOK, NEW q \in NvCommandQueue, NEW f \in Funcs, NEW k
    PROVE  /\ Keeps(q, GrownSlm(q, f), k)
           /\ Keeps(q, EnsureEnoughLocalMem(q, f).queue, k)
<1> DEFINE grown == GrownSlm(q, f)
           cmd == [kind |-> "localMem", region |-> Len(slm.size) + 1]
<1>1. Keeps(q, grown, k)
  BY ScalarFieldsKeep DEF GrownSlm
<1>2. grown \in NvCommandQueue
  <2>1. RoundUp(LocalMemReq[f], 32) \in Nat
    BY RoundUpIsNat, FuncAssumption
  <2> QED
    BY <2>1 DEF GrownSlm, NvCommandQueue
<1>3. cmd \in Command /\ ~IsWork(cmd)
  BY DEF HostTypeOK, Command, LocalMemSets, IsWork
<1> HIDE DEF grown, cmd
<1>4. Keeps(q, Enqueue(grown, cmd, "COMPUTE"), k)
  BY <1>1, <1>2, <1>3, EnqueueKeeps, KeepsTransitive DEF QueueTypes
<1>5. \/ EnsureEnoughLocalMem(q, f).queue = q
      \/ EnsureEnoughLocalMem(q, f).queue = Enqueue(grown, cmd, "COMPUTE")
  BY DEF EnsureEnoughLocalMem, grown, cmd
<1> QED
  BY <1>1, <1>4, <1>5, SelfKeeps DEF grown

-----------------------------------------------------------------------------
(* Steps, by what they do to the operations that wait, are in a channel or *)
(* have started.                                                           *)

LEMMA LostKept ==
    ASSUME EveryOpHeld, issued' = issued, fifo' = fifo, Started' = Started,
           \A o \in Ops : WasIssued(o) /\ Waiting(o[1], o) => Waiting(o[1], o)'
    PROVE  EveryOpHeld'
BY DEF EveryOpHeld, WasIssued, InChannel, Ops

LEMMA OnceKept ==
    ASSUME Once, issued' = issued, fifo' = fifo, Started' = Started, QueuesSingle',
           \A s \in Streams, o \in Ops : Waiting(s, o)' => Waiting(s, o)
    PROVE  Once'
<1>1. ChannelsSingle'
  BY DEF Once, ChannelsSingle
<1>2. OnePlace'
  BY DEF Once, OnePlace, WasIssued, InChannel, Ops
<1> QED
  BY <1>1, <1>2 DEF Once

LEMMA GpuVarsKeep == UNCHANGED gpuVars => fifo' = fifo /\ Started' = Started
BY DEF gpuVars, Started, Executing

LEMMA CursorAtRest ==
    /\ cpu.at \notin {"submit", "wait"} => \A x \in Streams : Cursor(x) = 1
    /\ cpu'.at \notin {"submit", "wait"} => \A x \in Streams : Cursor(x)' = 1
BY DEF Cursor

\* One queue changes and keeps its operations; no backlog is under way.
LEMMA QueueKept ==
    ASSUME QueueInv, NEW s \in Streams, NEW r, Keeps(queue[s], r, 1),
           queue' = [queue EXCEPT ![s] = r],
           \A x \in Streams : Cursor(x) = 1 /\ Cursor(x)' = 1,
           UNCHANGED <<gpuVars, issued>>
    PROVE  /\ EveryOpHeld => EveryOpHeld'
           /\ Once => Once'
<1>1. \A x \in Streams : queue'[x] = IF x = s THEN r ELSE queue[x]
  BY DEF QueueInv, TypeOK, HostTypeOK
<1>2. \A x \in Streams : Cursor(x) = 1 /\ Cursor(x)' = 1
  OBVIOUS
<1>3. \A x \in Streams, o \in Ops : Waiting(x, o)' <=> Waiting(x, o)
  BY <1>1, <1>2, Zenon DEF Waiting, Keeps
<1>4. QueuesSingle => QueuesSingle'
  BY <1>1, <1>2, Zenon DEF QueuesSingle, Keeps
<1>5. \A o \in Ops : o[1] \in Streams
  BY DEF Ops
<1>6. issued' = issued /\ fifo' = fifo /\ Started' = Started
  BY GpuVarsKeep
<1> QED
  BY <1>3, <1>4, <1>5, <1>6, LostKept, OnceKept DEF Once

\* Nothing the invariants speak of changes.
LEMMA QuietKept ==
    ASSUME UNCHANGED <<gpuVars, queue, issued>>,
           \A s \in Streams : Cursor(s)' = Cursor(s)
    PROVE  /\ EveryOpHeld => EveryOpHeld'
           /\ Once => Once'
<1>1. \A x \in Streams, o \in Ops : Waiting(x, o)' <=> Waiting(x, o)
  BY DEF Waiting
<1>2. QueuesSingle => QueuesSingle'
  BY DEF QueuesSingle
<1>3. \A o \in Ops : o[1] \in Streams
  BY DEF Ops
<1>4. issued' = issued /\ fifo' = fifo /\ Started' = Started
  BY GpuVarsKeep
<1> QED
  BY <1>1, <1>2, <1>3, <1>4, LostKept, OnceKept DEF Once

\* A buffer handed to a channel takes its operations there.
LEMMA BufferEmptied ==
    ASSUME NEW q \in NvCommandQueue, NEW t \in QueueTypes, NEW k
    PROVE  LET r == [q EXCEPT !.buf[t] = <<>>]
           IN  /\ \A o : Holds(q, k, o) <=> Holds(r, k, o) \/ Has(q.buf[t], o)
               /\ Single(q, k) =>
                     /\ Single(r, k)
                     /\ OnceIn(q.buf[t])
                     /\ \A o \in Ops : ~(Holds(r, k, o) /\ Has(q.buf[t], o))
<1> DEFINE r == [q EXCEPT !.buf[t] = <<>>]
<1>1. /\ r.backlog = q.backlog
      /\ r.buf[t] = <<>>
      /\ \A u \in QueueTypes : u # t => r.buf[u] = q.buf[u]
  BY DEF NvCommandQueue
<1> HIDE DEF r
<1>2. ~ \E o : Has(r.buf[t], o)
  BY <1>1, EmptyHasNone
<1>3. \A u \in QueueTypes : \A o : Has(r.buf[u], o) <=> u # t /\ Has(q.buf[u], o)
  BY <1>1, <1>2
<1>4. \A o : Holds(q, k, o) <=> Holds(r, k, o) \/ Has(q.buf[t], o)
  BY <1>1, <1>3, Zenon DEF Holds
<1>5. ASSUME Single(q, k)
      PROVE  /\ Single(r, k)
             /\ OnceIn(q.buf[t])
             /\ \A o \in Ops : ~(Holds(r, k, o) /\ Has(q.buf[t], o))
  <2>1. \A u \in QueueTypes : OnceIn(r.buf[u])
    BY <1>1, <1>5, EmptyHasNone DEF Single
  <2>2. Single(r, k)
    BY <1>1, <1>3, <1>5, <2>1, Zenon DEF Single
  <2>3. \A o \in Ops : ~(Holds(r, k, o) /\ Has(q.buf[t], o))
    BY <1>1, <1>3, <1>5, Zenon DEF Single, Holds
  <2> QED
    BY <1>5, <2>2, <2>3 DEF Single
<1> QED
  BY <1>4, <1>5 DEF r

\* A stream gets its next operation, which waits in its queue.
LEMMA OperationIssued ==
    ASSUME QueueInv, NEW s \in Streams, Len(issued[s]) < MaxOps,
           NEW op, op = <<s, Len(issued[s]) + 1>>,
           NEW r, queue' = [queue EXCEPT ![s] = r],
           \A o : Holds(r, 1, o) <=> Holds(queue[s], 1, o) \/ o = op,
           Single(queue[s], 1) /\ ~Holds(queue[s], 1, op) => Single(r, 1),
           NEW kind \in OpKind, issued' = [issued EXCEPT ![s] = Append(issued[s], kind)],
           UNCHANGED <<gpuVars, cpu>>, cpu = Idle
    PROVE  /\ EveryOpHeld => EveryOpHeld'
           /\ Once => Once'
<1>1. HostTypeOK
  BY DEF QueueInv, TypeOK
<1>2. \A x \in Streams : queue'[x] = IF x = s THEN r ELSE queue[x]
  BY <1>1 DEF HostTypeOK
<1>3. \A x \in Streams : Cursor(x) = 1 /\ Cursor(x)' = 1
  BY DEF Cursor, Idle
<1>4. fifo' = fifo /\ Started' = Started
  BY GpuVarsKeep
<1>5. op \in Ops /\ op[1] = s
  BY <1>1, NextOpIsOp
<1>6. \A o \in Ops : /\ WasIssued(o)' <=> WasIssued(o) \/ o = op
                     /\ o = op => ~WasIssued(o)
  <2>1. \A x \in Streams : Len(issued'[x]) = IF x = s THEN Len(issued[x]) + 1
                                                      ELSE Len(issued[x])
    BY <1>1 DEF HostTypeOK
  <2>2. \A x \in Streams : Len(issued[x]) \in Nat
    BY <1>1 DEF HostTypeOK
  <2>3. \A o \in Ops : o[1] \in Streams /\ o[2] \in Nat \ {0} /\ o = <<o[1], o[2]>>
    BY StreamAssumption DEF Ops
  <2> QED
    BY <2>1, <2>2, <2>3 DEF WasIssued
<1>7. \A x \in Streams, o \in Ops :
          Waiting(x, o)' <=> Waiting(x, o) \/ (x = s /\ o = op)
  BY <1>2, <1>3, Zenon DEF Waiting
<1>8. EveryOpHeld => EveryOpHeld'
  <2> SUFFICES ASSUME EveryOpHeld, NEW o \in Ops, WasIssued(o)'
               PROVE  (Waiting(o[1], o) \/ InChannel(o) \/ o \in Started)'
    BY DEF EveryOpHeld
  <2>1. o[1] \in Streams
    BY DEF Ops
  <2>2. CASE o = op
    BY <1>5, <1>7, <2>2
  <2>3. CASE WasIssued(o)
    BY <1>4, <1>7, <2>1, <2>3 DEF EveryOpHeld, InChannel
  <2> QED
    BY <1>6, <2>2, <2>3
<1>9. ASSUME Once PROVE Once'
  <2>1. ~Waiting(s, op) /\ ~InChannel(op) /\ op \notin Started
    BY <1>5, <1>6, <1>9 DEF Once, OnePlace
  <2>2. ChannelsSingle'
    BY <1>4, <1>9 DEF Once, ChannelsSingle
  <2>3. QueuesSingle'
    <3>1. Single(r, 1)
      BY <1>3, <1>9, <2>1 DEF Once, QueuesSingle, Waiting
    <3> QED
      BY <1>2, <1>3, <1>9, <3>1 DEF Once, QueuesSingle
  <2>4. OnePlace'
    <3> SUFFICES ASSUME NEW o \in Ops
                 PROVE  /\ InChannel(o)' => o \notin Started'
                        /\ InChannel(o)' \/ o \in Started' => WasIssued(o)'
                        /\ \A x \in Streams :
                              Waiting(x, o)' => /\ x = o[1] /\ WasIssued(o)'
                                                /\ ~InChannel(o)' /\ o \notin Started'
      BY Zenon DEF OnePlace
    <3>1. InChannel(o)' <=> InChannel(o)
      BY <1>4 DEF InChannel
    <3> QED
      BY <1>4, <1>5, <1>6, <1>7, <1>9, <2>1, <3>1, Zenon DEF Once, OnePlace
  <2> QED
    BY <2>2, <2>3, <2>4 DEF Once
<1> QED
  BY <1>8, <1>9

\* A buffer of s is handed to its channel: q is the queue just before, its
\* pieces from the k-th on still to be submitted.
LEMMA OperationsSubmitted ==
    ASSUME QueueInv, NEW s \in Streams, NEW t \in QueueTypes,
           NEW q \in NvCommandQueue, NEW k, SubmitToFifo(s, q, t), issued' = issued,
           Cursor(s)' = k, \A x \in Streams \ {s} : Cursor(x)' = Cursor(x)
    PROVE  /\ EveryOpHeld
              /\ (\A o \in Ops : WasIssued(o) /\ o[1] = s /\ Waiting(s, o) => Holds(q, k, o))
                => EveryOpHeld'
           /\ Once
              /\ (\A o \in Ops : Holds(q, k, o) => Waiting(s, o))
              /\ (Single(queue[s], Cursor(s)) => Single(q, k))
                => Once'
<1> DEFINE r == [q EXCEPT !.buf[t] = <<>>]
<1>1. /\ \A o : Holds(q, k, o) <=> Holds(r, k, o) \/ Has(q.buf[t], o)
      /\ Single(q, k) => /\ Single(r, k)
                         /\ OnceIn(q.buf[t])
                         /\ \A o \in Ops : ~(Holds(r, k, o) /\ Has(q.buf[t], o))
  BY BufferEmptied
<1>2. \A x \in Streams : queue'[x] = IF x = s THEN r ELSE queue[x]
  BY DEF QueueInv, TypeOK, HostTypeOK, SubmitToFifo
<1> HIDE DEF r
<1>3. Started' = Started
  BY DEF SubmitToFifo, Started, Executing
<1>4. /\ fifo'[t] = fifo[t] \o q.buf[t]
      /\ \A c \in QueueTypes : c # t => fifo'[c] = fifo[c]
      /\ fifo[t] \in Seq(Command) /\ q.buf[t] \in Seq(Command)
  BY DEF SubmitToFifo, QueueInv, TypeOK, GpuTypeOK, NvCommandQueue
<1>5. \A x \in Streams, o \in Ops :
          Waiting(x, o)' <=> IF x = s THEN Holds(r, k, o) ELSE Waiting(x, o)
  BY <1>2, Zenon DEF Waiting
<1>6. \A c \in QueueTypes : \A o : Has(fifo'[c], o) <=> Has(fifo[c], o)
                                                   \/ (c = t /\ Has(q.buf[t], o))
  <2>1. \A o : Has(fifo'[t], o) <=> Has(fifo[t], o) \/ Has(q.buf[t], o)
    BY <1>4, Concatenated
  <2> QED
    BY <1>4, <2>1
<1>7. \A o : InChannel(o)' <=> InChannel(o) \/ Has(q.buf[t], o)
  BY <1>6, Zenon DEF InChannel
<1>8. ASSUME EveryOpHeld,
             \A o \in Ops : WasIssued(o) /\ o[1] = s /\ Waiting(s, o) => Holds(q, k, o)
      PROVE  EveryOpHeld'
  <2> SUFFICES ASSUME NEW o \in Ops, WasIssued(o)
               PROVE  Waiting(o[1], o)' \/ InChannel(o)' \/ o \in Started'
    BY DEF EveryOpHeld, WasIssued
  <2>1. o[1] \in Streams
    BY DEF Ops
  <2>2. Waiting(o[1], o) \/ InChannel(o) \/ o \in Started
    BY <1>8 DEF EveryOpHeld
  <2> QED
    BY <1>1, <1>3, <1>5, <1>7, <1>8, <2>1, <2>2
<1>9. ASSUME Once, \A o \in Ops : Holds(q, k, o) => Waiting(s, o),
             Single(queue[s], Cursor(s)) => Single(q, k)
      PROVE  Once'
  <2>1. /\ Single(r, k)
        /\ OnceIn(q.buf[t])
        /\ \A o \in Ops : ~(Holds(r, k, o) /\ Has(q.buf[t], o))
    BY <1>1, <1>9 DEF Once, QueuesSingle
  <2>2. \A o \in Ops : Holds(r, k, o) \/ Has(q.buf[t], o) => Waiting(s, o)
    BY <1>1, <1>9
  <2>3. QueuesSingle'
    BY <1>2, <1>9, <2>1 DEF Once, QueuesSingle
  <2>4. \A o \in Ops : Waiting(s, o) => /\ s = o[1] /\ WasIssued(o)
                                        /\ ~InChannel(o) /\ o \notin Started
    BY <1>9 DEF Once, OnePlace
  <2>5. ChannelsSingle'
    <3>1. OnceIn(fifo[t]) /\ \A o \in Ops : ~(Has(fifo[t], o) /\ Has(q.buf[t], o))
      BY <1>9, <2>2, <2>4 DEF Once, ChannelsSingle, InChannel
    <3>2. \A c \in QueueTypes : OnceIn(fifo'[c])
      BY <1>4, <1>9, <2>1, <3>1, Concatenated DEF Once, ChannelsSingle
    <3>3. ASSUME NEW o \in Ops PROVE ~(Has(fifo'["COMPUTE"], o) /\ Has(fifo'["DMA"], o))
      <4>1. ~(Has(fifo["COMPUTE"], o) /\ Has(fifo["DMA"], o))
        BY <1>9 DEF Once, ChannelsSingle
      <4>2. Has(q.buf[t], o) => ~Has(fifo["COMPUTE"], o) /\ ~Has(fifo["DMA"], o)
        BY <2>2, <2>4 DEF InChannel, QueueTypes
      <4> QED
        BY <1>6, <4>1, <4>2 DEF QueueTypes
    <3> QED
      BY <3>2, <3>3 DEF ChannelsSingle
  <2>6. OnePlace'
    <3> SUFFICES ASSUME NEW o \in Ops
                 PROVE  /\ InChannel(o)' => o \notin Started'
                        /\ InChannel(o)' \/ o \in Started' => WasIssued(o)
                        /\ \A x \in Streams :
                              Waiting(x, o)' => /\ x = o[1] /\ WasIssued(o)
                                                /\ ~InChannel(o)' /\ o \notin Started'
      BY Zenon DEF OnePlace, WasIssued
    <3>1. InChannel(o)' => o \notin Started'
      BY <1>3, <1>7, <1>9, <2>2, <2>4 DEF Once, OnePlace
    <3>2. InChannel(o)' \/ o \in Started' => WasIssued(o)
      BY <1>3, <1>7, <1>9, <2>2, <2>4 DEF Once, OnePlace
    <3>3. ASSUME NEW x \in Streams, Waiting(x, o)'
          PROVE  /\ x = o[1] /\ WasIssued(o)
                 /\ ~InChannel(o)' /\ o \notin Started'
      <4>1. CASE x = s
        BY <1>3, <1>5, <1>7, <2>1, <2>2, <2>4, <3>3, <4>1
      <4>2. CASE x # s
        <5>1. Waiting(x, o)
          BY <1>5, <3>3, <4>2
        <5>2. x = o[1] /\ WasIssued(o) /\ ~InChannel(o) /\ o \notin Started
          BY <1>9, <5>1 DEF Once, OnePlace
        <5>3. ~Has(q.buf[t], o)
          BY <2>2, <2>4, <4>2, <5>2
        <5> QED
          BY <1>3, <1>7, <5>2, <5>3
      <4> QED
        BY <4>1, <4>2
    <3> QED
      BY <3>1, <3>2, <3>3
  <2> QED
    BY <2>3, <2>5, <2>6 DEF Once
<1> QED
  BY <1>8, <1>9

\* A channel takes its next command; if that is an operation, it starts.
LEMMA CommandTaken ==
    ASSUME QueueInv, NEW c \in QueueTypes, fifo[c] # <<>>, Take(c), UNCHANGED hostVars,
           NEW op, op = Head(fifo[c]).op,
           \/ IsWork(Head(fifo[c])) /\ Started' = Started \cup {op}
           \/ ~IsWork(Head(fifo[c])) /\ Started' = Started
    PROVE  /\ EveryOpHeld => EveryOpHeld'
           /\ Once => Once'
<1> DEFINE first == Head(fifo[c])
<1>1. fifo[c] \in Seq(Command) /\ fifo'[c] = Tail(fifo[c])
      /\ \A d \in QueueTypes : d # c => fifo'[d] = fifo[d]
  BY DEF Take, QueueInv, TypeOK, GpuTypeOK
<1>2. /\ \A o : Has(fifo'[c], o) => Has(fifo[c], o)
      /\ \A o : Has(fifo[c], o) =>
            \/ Has(fifo'[c], o)
            \/ IsWork(first) /\ o = op
      /\ OnceIn(fifo[c]) => /\ OnceIn(fifo'[c])
                            /\ IsWork(first) => ~Has(fifo'[c], op)
      /\ IsWork(first) => Has(fifo[c], op)
  BY <1>1, Taken
<1> HIDE DEF first
<1>3. \/ IsWork(first) /\ Started' = Started \cup {op}
      \/ ~IsWork(first) /\ Started' = Started
  BY DEF first
<1>4. \A s \in Streams, o \in Ops : Waiting(s, o)' <=> Waiting(s, o)
  BY DEF Waiting, Cursor, hostVars
<1>5. \A o \in Ops : WasIssued(o)' <=> WasIssued(o)
  BY DEF WasIssued, hostVars
<1>6. \A o : /\ InChannel(o)' => InChannel(o)
             /\ InChannel(o) => InChannel(o)' \/ (IsWork(first) /\ o = op)
  BY <1>1, <1>2, Zenon DEF InChannel
<1>7. ASSUME EveryOpHeld PROVE EveryOpHeld'
  <2> SUFFICES ASSUME NEW o \in Ops, WasIssued(o)
               PROVE  Waiting(o[1], o)' \/ InChannel(o)' \/ o \in Started'
    BY <1>5 DEF EveryOpHeld
  <2>1. o[1] \in Streams
    BY DEF Ops
  <2>2. Waiting(o[1], o) \/ InChannel(o) \/ o \in Started
    BY <1>7 DEF EveryOpHeld
  <2> QED
    BY <1>3, <1>4, <1>6, <2>1, <2>2
<1>8. ASSUME Once PROVE Once'
  <2>1. QueuesSingle'
    BY <1>8 DEF Once, QueuesSingle, Cursor, hostVars
  <2>2. ChannelsSingle'
    <3>1. \A d \in QueueTypes : OnceIn(fifo'[d])
      BY <1>1, <1>2, <1>8 DEF Once, ChannelsSingle
    <3>2. \A d \in QueueTypes : \A o : Has(fifo'[d], o) => Has(fifo[d], o)
      BY <1>1, <1>2
    <3>3. \A o \in Ops : ~(Has(fifo'["COMPUTE"], o) /\ Has(fifo'["DMA"], o))
      BY <1>8, <3>2 DEF Once, ChannelsSingle, QueueTypes
    <3> QED
      BY <3>1, <3>3 DEF ChannelsSingle
  <2>3. IsWork(first) => /\ op \in Ops
                         /\ InChannel(op)
                         /\ ~InChannel(op)'
    <3> SUFFICES ASSUME IsWork(first)
                 PROVE  /\ op \in Ops
                        /\ InChannel(op)
                        /\ ~InChannel(op)'
      OBVIOUS
    <3>1. Has(fifo[c], op) /\ ~Has(fifo'[c], op)
      BY <1>2, <1>8 DEF Once, ChannelsSingle
    <3>2. op \in Ops
      BY <1>1, <3>1, HasIsOp
    <3>3. ASSUME NEW d \in QueueTypes, d # c PROVE ~Has(fifo'[d], op)
      BY <1>1, <1>8, <3>1, <3>2, <3>3 DEF Once, ChannelsSingle, QueueTypes
    <3> QED
      BY <3>1, <3>2, <3>3 DEF InChannel
  <2>4. OnePlace'
    <3> SUFFICES ASSUME NEW o \in Ops
                 PROVE  /\ InChannel(o)' => o \notin Started'
                        /\ InChannel(o)' \/ o \in Started' => WasIssued(o)
                        /\ \A x \in Streams :
                              Waiting(x, o) => /\ x = o[1] /\ WasIssued(o)
                                               /\ ~InChannel(o)' /\ o \notin Started'
      BY <1>4, <1>5, Zenon DEF OnePlace
    <3>1. /\ InChannel(o) => o \notin Started
          /\ InChannel(o) \/ o \in Started => WasIssued(o)
          /\ \A x \in Streams :
                Waiting(x, o) => /\ x = o[1] /\ WasIssued(o)
                                 /\ ~InChannel(o) /\ o \notin Started
      BY <1>8 DEF Once, OnePlace
    <3>2. o \in Started' => o \in Started \/ (IsWork(first) /\ o = op)
      BY <1>3
    <3> QED
      BY <1>6, <2>3, <3>1, <3>2, Zenon
  <2> QED
    BY <2>1, <2>2, <2>4 DEF Once
<1> QED
  BY <1>7, <1>8

LEMMA BeginStarts ==
    ASSUME QueueInv, NEW c \in QueueTypes, Begin(c)
    PROVE  Started' = Started \cup {Head(fifo[c]).op}
<1> DEFINE new == [cmd |-> Head(fifo[c]), region |-> localMem]
<1>1. running' = [running EXCEPT ![c] = @ \cup {new}] /\ done' = done
  BY DEF Begin
<1>2. new.cmd = Head(fifo[c])
  OBVIOUS
<1> HIDE DEF new
<1>3. \A d \in QueueTypes : running'[d] = IF d = c THEN running[d] \cup {new} ELSE running[d]
  BY <1>1 DEF QueueInv, TypeOK, GpuTypeOK
<1>4. \A x : x \in Executing <=> \E d \in QueueTypes : \E task \in running[d] : x = task.cmd
  BY DEF Executing
<1>5. \A x : x \in Executing' <=> \E d \in QueueTypes : \E task \in running'[d] : x = task.cmd
  BY DEF Executing
<1>6. \A x : x \in Executing' <=> x \in Executing \/ x = Head(fifo[c])
  <2>1. ASSUME NEW x, x \in Executing' PROVE x \in Executing \/ x = Head(fifo[c])
    <3>1. PICK d \in QueueTypes : \E task \in running'[d] : x = task.cmd
      BY <1>5, <2>1
    <3>2. PICK task \in running'[d] : x = task.cmd
      BY <3>1
    <3>3. task \in running[d] \/ task = new
      BY <1>3, <3>2
    <3> QED
      BY <1>2, <1>4, <3>2, <3>3
  <2>2. ASSUME NEW x, x \in Executing PROVE x \in Executing'
    BY <1>3, <1>4, <1>5, <2>2
  <2>3. new \in running'[c]
    BY <1>3
  <2> QED
    BY <1>2, <1>5, <2>1, <2>2, <2>3
<1>7. Executing' = Executing \cup {Head(fifo[c])}
  BY <1>6
<1> QED
  BY <1>1, <1>7 DEF Started

LEMMA FinishKeepsStarted ==
    ASSUME QueueInv, NEW c \in QueueTypes, Finish(c)
    PROVE  Started' = Started
<1>1. PICK task \in running[c] :
          /\ running' = [running EXCEPT ![c] = @ \ {task}]
          /\ done' = done \cup {task.cmd.op}
  BY DEF Finish
<1>2. \A d \in QueueTypes : running'[d] = IF d = c THEN running[d] \ {task} ELSE running[d]
  BY <1>1 DEF QueueInv, TypeOK, GpuTypeOK
<1>3. \A o : o \in Started <=>
                \/ o \in done
                \/ \E d \in QueueTypes : \E any \in running[d] : o = any.cmd.op
  BY DEF Started, Executing
<1>4. \A o : o \in Started' <=>
                \/ o \in done'
                \/ \E d \in QueueTypes : \E any \in running'[d] : o = any.cmd.op
  BY DEF Started, Executing
<1>5. \A o : o \in Started' <=> o \in Started
  BY <1>1, <1>2, <1>3, <1>4
<1> QED
  BY <1>5

-----------------------------------------------------------------------------
(* The actions.                                                            *)

LEMMA NewQueueIsEmpty ==
    ASSUME NEW s, NEW type
    PROVE  /\ \A o : ~Holds(NewQueue(s, type), 1, o)
           /\ Single(NewQueue(s, type), 1)
<1> DEFINE q == NewQueue(s, type)
<1>1. q.backlog = <<>> /\ \A t \in QueueTypes : q.buf[t] = <<>>
  BY DEF NewQueue
<1> HIDE DEF q
<1>2. Len(q.backlog) = 0
  BY <1>1
<1>3. ~ \E i : i \in 1..Len(q.backlog)
  BY <1>2
<1>4. \A t \in QueueTypes : OnceIn(q.buf[t]) /\ \A o : ~Has(q.buf[t], o)
  BY <1>1, EmptyHasNone
<1>5. \A o : ~Holds(q, 1, o)
  BY <1>3, <1>4, Zenon DEF Holds
<1>6. Single(q, 1)
  BY <1>3, <1>4, Zenon DEF Single
<1> QED
  BY <1>5, <1>6 DEF q

LEMMA AdvanceTimelineTyped ==
    ASSUME NEW q \in NvCommandQueue
    PROVE  AdvanceTimeline(q) \in NvCommandQueue
<1>1. q.timelineCtr \in Nat
  BY CounterIsNat DEF NvCommandQueue
<1>2. (q.timelineCtr + 1) % CtrModulus \in Counter
  BY <1>1, CtrAssumption DEF Counter
<1> QED
  BY <1>2 DEF AdvanceTimeline, NvCommandQueue

LEMMA SetUpChannelSubmits ==
    ASSUME NEW s \in Streams, NEW q \in NvCommandQueue, NEW t \in QueueTypes,
           SetUpChannel(s, q, t)
    PROVE  \E r \in NvCommandQueue : Keeps(q, r, 1) /\ SubmitToFifo(s, r, t)
<1> DEFINE next == AdvanceTimeline(q)
           r == SignalNotify(next, Timeline(s), next.timelineCtr, t)
<1>1. next \in NvCommandQueue /\ Keeps(q, next, 1)
  BY AdvanceTimelineTyped, ScalarFieldsKeep DEF AdvanceTimeline
<1>2. SubmitToFifo(s, r, t)
  BY DEF SetUpChannel
<1> HIDE DEF next
<1>3. next.timelineCtr \in Nat
  BY <1>1, CounterIsNat DEF NvCommandQueue
<1>4. r \in NvCommandQueue /\ Keeps(next, r, 1)
  BY <1>1, <1>3, SignalNotifyTyped, SignalNotifyKeeps, TimelineIsSignal
<1> HIDE DEF r
<1> QED
  BY <1>1, <1>2, <1>4, KeepsTransitive

LEMMA StreamCreateMoves ==
    ASSUME QueueInv, IssuedInv, NEW s \in Streams, StreamCreate(s)
    PROVE  /\ EveryOpHeld => EveryOpHeld'
           /\ Once => Once'
<1>1. PICK type \in QueueTypes \cup {"OTHER"} : SetUpChannel(s, NewQueue(s, type), "COMPUTE")
  BY DEF StreamCreate
<1>2. "COMPUTE" \in QueueTypes /\ NewQueue(s, type) \in NvCommandQueue
  BY NewQueueTakes DEF QueueTypes
<1>3. PICK r \in NvCommandQueue : Keeps(NewQueue(s, type), r, 1) /\ SubmitToFifo(s, r, "COMPUTE")
  BY <1>1, <1>2, SetUpChannelSubmits
<1>4. Single(r, 1) /\ \A o : ~Holds(r, 1, o)
  BY <1>3, NewQueueIsEmpty DEF Keeps
<1>5. issued[s] = <<>> /\ issued' = issued
  BY DEF StreamCreate, IssuedInv
<1>6. \A o \in Ops : ~(WasIssued(o) /\ o[1] = s)
  BY <1>5 DEF WasIssued
<1>7. \A x \in Streams : Cursor(x) = 1 /\ Cursor(x)' = 1
  BY CursorAtRest DEF StreamCreate, Idle
<1> QED
  BY <1>2, <1>3, <1>4, <1>5, <1>6, <1>7, OperationsSubmitted

LEMMA InitComputeReturnsMoves ==
    ASSUME QueueInv, InitComputeReturns
    PROVE  /\ EveryOpHeld => EveryOpHeld'
           /\ Once => Once'
<1> DEFINE s == cpu.stream
<1>1. s \in Streams
  BY CpuFields DEF InitComputeReturns, QueueInv, TypeOK
<1>2. queue[s] \in NvCommandQueue /\ "DMA" \in QueueTypes
  BY <1>1 DEF QueueInv, TypeOK, HostTypeOK, QueueTypes
<1>3. SetUpChannel(s, queue[s], "DMA") /\ issued' = issued
  BY DEF InitComputeReturns
<1>4. \A x \in Streams : Cursor(x) = 1 /\ Cursor(x)' = 1
  BY CursorAtRest DEF InitComputeReturns
<1>5. PICK stream : stream = s
  OBVIOUS
<1> HIDE DEF s
<1>6. PICK r \in NvCommandQueue : Keeps(queue[stream], r, 1) /\ SubmitToFifo(stream, r, "DMA")
  BY <1>1, <1>2, <1>3, <1>5, SetUpChannelSubmits
<1>7. /\ \A o \in Ops : Holds(r, 1, o) <=> Waiting(stream, o)
      /\ Single(queue[stream], Cursor(stream)) => Single(r, 1)
  BY <1>1, <1>4, <1>5, <1>6 DEF Keeps, Waiting
<1> QED
  BY <1>1, <1>2, <1>3, <1>4, <1>5, <1>6, <1>7, OperationsSubmitted

LEMMA CommenceMoves ==
    ASSUME QueueInv, NEW s \in Streams, Commence(s)
    PROVE  /\ EveryOpHeld => EveryOpHeld'
           /\ Once => Once'
<1> DEFINE t == queue[s].currentQueueType
           notified == NotifyIfPending(queue[s], s, t)
           q == [notified EXCEPT !.timelineNotifyPending = FALSE]
<1>1. t \in QueueTypes /\ queue[s] \in NvCommandQueue
  BY DEF Commence, QueueInv, TypeOK, HostTypeOK
<1>2. SubmitToFifo(s, q, t) /\ issued' = issued
  BY DEF Commence
<1>3. \A x \in Streams : Cursor(x) = 1 /\ Cursor(x)' = 1
  BY CursorAtRest DEF Commence, Ready, Idle
<1>4. notified \in NvCommandQueue /\ Keeps(queue[s], notified, 1)
  BY <1>1, NotifyIfPendingKeeps
<1>5. PICK type \in QueueTypes : type = t
  BY <1>1
<1> HIDE DEF notified, t
<1>6. q \in NvCommandQueue /\ Keeps(queue[s], q, 1)
  BY <1>4, ScalarFieldsKeep, KeepsTransitive DEF NvCommandQueue
<1>7. PICK r \in NvCommandQueue : r = q
  BY <1>6
<1> HIDE DEF q
<1>8. /\ \A o \in Ops : Holds(r, 1, o) <=> Waiting(s, o)
      /\ Single(queue[s], Cursor(s)) => Single(r, 1)
  BY <1>3, <1>6, <1>7 DEF Keeps, Waiting
<1>9. SubmitToFifo(s, r, type)
  BY <1>2, <1>5, <1>7
<1> QED
  BY <1>2, <1>3, <1>8, <1>9, OperationsSubmitted

\* The piece under the cursor moves from the backlog to the empty buffers.
LEMMA LoadedHolds ==
    ASSUME QueueInv, cpu.at = "submit", NEW s \in Streams, s = cpu.stream,
           NEW e, e = cpu.entry
    PROVE  LET r == Loaded(s, queue[s].backlog[e])
           IN  /\ \A o : Holds(r, e + 1, o) <=> Holds(queue[s], e, o)
               /\ \A o : Holds(queue[s], e, o) => Holds(r, 1, o)
               /\ Single(queue[s], e) => Single(r, e + 1)
<1> DEFINE q == queue[s]
           n == Len(q.backlog)
           entry == q.backlog[e]
           buf == [q.buf EXCEPT ![entry.type] = entry.buf]
           l == [q EXCEPT !.buf = buf]
<1>1. e \in Nat \ {0} /\ q \in NvCommandQueue /\ n \in Nat /\ e <= n
  BY CpuFields DEF QueueInv, TypeOK, HostTypeOK, CursorInBacklog, NvCommandQueue
<1>2. \A t \in QueueTypes : q.buf[t] = <<>>
  BY DEF QueueInv, CursorInBacklog
<1>3. entry \in Split
  <2>1. q.backlog \in Seq(Split)
    BY <1>1 DEF NvCommandQueue
  <2> HIDE DEF q
  <2> QED
    BY <1>1, <2>1
<1>4. /\ entry.type \in QueueTypes
      /\ entry.buf \in Seq(Command)
      /\ entry.timelineCtr \in Nat
  BY <1>3, CounterIsNat DEF Split
<1>5. Loaded(s, entry) = IF entry.timelineNotifyPending
                           THEN SignalNotify(l, Timeline(s), entry.timelineCtr, entry.type)
                           ELSE l
  BY <1>1, <1>4 DEF Loaded, NvCommandQueue
<1>6. PICK t \in QueueTypes : t = entry.type
  BY <1>4
<1>7. /\ l \in NvCommandQueue
      /\ l.backlog = q.backlog
      /\ l.buf[t] = q.backlog[e].buf
      /\ \A u \in QueueTypes : u # t => l.buf[u] = <<>>
  <2>1. buf \in [QueueTypes -> Seq(Command)]
    BY <1>1, <1>4 DEF NvCommandQueue
  <2>2. buf[t] = entry.buf /\ \A u \in QueueTypes : u # t => buf[u] = <<>>
    BY <1>1, <1>2, <1>6 DEF NvCommandQueue
  <2> HIDE DEF buf
  <2>3. l \in NvCommandQueue /\ l.buf = buf /\ l.backlog = q.backlog
    BY <1>1, <2>1 DEF NvCommandQueue
  <2> QED
    BY <2>2, <2>3
<1>8. \A k : Keeps(l, Loaded(s, entry), k)
  <2> HIDE DEF l, entry
  <2> QED
    BY <1>4, <1>5, <1>7, SignalNotifyKeeps, SelfKeeps, TimelineIsSignal
<1>9. PICK r : r = Loaded(s, entry)
  OBVIOUS
<1> HIDE DEF l, n
<1>10. /\ \A i : i \in e..n <=> i = e \/ i \in (e + 1)..n
       /\ e \notin (e + 1)..n
       /\ \A i : i \in e..n => i \in 1..n
  BY <1>1
<1> HIDE DEF q, entry
<1>11. /\ \A u \in QueueTypes : \A o : ~Has(q.buf[u], o)
       /\ \A u \in QueueTypes : \A o : Has(l.buf[u], o) <=> u = t /\ Has(q.backlog[e].buf, o)
  BY <1>2, <1>7, EmptyHasNone
<1>12. Len(l.backlog) = n /\ Len(q.backlog) = n
  BY <1>7 DEF n
<1>13. \A o : Holds(l, e + 1, o) <=> Holds(q, e, o)
  BY <1>7, <1>10, <1>11, <1>12, Zenon DEF Holds
<1>14. \A o : Holds(q, e, o) => Holds(l, 1, o)
  BY <1>7, <1>10, <1>11, <1>12, Zenon DEF Holds
<1>15. ASSUME Single(q, e) PROVE Single(l, e + 1)
  <2>1. \A u \in QueueTypes : OnceIn(l.buf[u])
    BY <1>7, <1>10, <1>12, <1>15, EmptyHasNone, Zenon DEF Single
  <2>2. \A i \in (e + 1)..n : OnceIn(l.backlog[i].buf)
    BY <1>7, <1>10, <1>12, <1>15, Zenon DEF Single
  <2>3. ASSUME NEW o \in Ops
        PROVE  /\ \A u, v \in QueueTypes : Has(l.buf[u], o) /\ Has(l.buf[v], o) => u = v
               /\ \A i, j \in (e + 1)..n :
                     Has(l.backlog[i].buf, o) /\ Has(l.backlog[j].buf, o) => i = j
    BY <1>7, <1>10, <1>11, <1>12, <1>15, Zenon DEF Single
  <2>4. ASSUME NEW o \in Ops
        PROVE  \A u \in QueueTypes : \A i \in (e + 1)..n :
                     ~(Has(l.buf[u], o) /\ Has(l.backlog[i].buf, o))
    BY <1>7, <1>10, <1>11, <1>12, <1>15, Zenon DEF Single
  <2> QED
    BY <1>12, <2>1, <2>2, <2>3, <2>4, Zenon DEF Single
<1>16. /\ \A o : Holds(r, e + 1, o) <=> Holds(q, e, o)
       /\ \A o : Holds(q, e, o) => Holds(r, 1, o)
       /\ Single(q, e) => Single(r, e + 1)
  BY <1>8, <1>9, <1>13, <1>14, <1>15, Zenon DEF Keeps
<1> QED
  BY <1>9, <1>16 DEF q, entry

\* Before and after a piece is handed over, the cursor stands at it and past it.
LEMMA CursorAdvances ==
    ASSUME HostTypeOK, NEW s \in Streams, s = cpu.stream, cpu.at = "submit"
    PROVE  /\ Cursor(s) = cpu.entry
           /\ \A x \in Streams \ {s} : Cursor(x) = 1
           /\ cpu' = [cpu EXCEPT !.at = "wait"] =>
                 /\ Cursor(s)' = cpu.entry + 1
                 /\ \A x \in Streams \ {s} : Cursor(x)' = 1
<1>1. cpu \in [at : {"submit", "wait"}, stream : Streams, entry : Nat \ {0}]
  BY DEF HostTypeOK, CpuState, Idle
<1>2. cpu' = [cpu EXCEPT !.at = "wait"] =>
        cpu'.at = "wait" /\ cpu'.stream = s /\ cpu'.entry = cpu.entry
  BY <1>1
<1> QED
  BY <1>2 DEF Cursor

LEMMA SubmitEntryMoves ==
    ASSUME QueueInv, SubmitEntry
    PROVE  /\ EveryOpHeld => EveryOpHeld'
           /\ Once => Once'
<1>1. PICK s \in Streams : s = cpu.stream
  BY LoadedTyped DEF SubmitEntry
<1>2. PICK e : e = cpu.entry
  OBVIOUS
<1>3. PICK entry : entry = queue[s].backlog[e]
  OBVIOUS
<1>4. PICK t \in QueueTypes : t = entry.type
  BY <1>1, <1>2, <1>3, LoadedTyped DEF SubmitEntry
<1>5. PICK q \in NvCommandQueue : q = Loaded(s, entry)
  BY <1>1, <1>2, <1>3, LoadedTyped DEF SubmitEntry
<1>6. SubmitToFifo(s, q, t) /\ issued' = issued /\ cpu' = [cpu EXCEPT !.at = "wait"]
  BY <1>1, <1>2, <1>3, <1>4, <1>5 DEF SubmitEntry
<1>7. /\ Cursor(s) = e
      /\ Cursor(s)' = e + 1
      /\ \A x \in Streams \ {s} : Cursor(x)' = Cursor(x)
  BY <1>1, <1>2, <1>6, CursorAdvances DEF SubmitEntry, QueueInv, TypeOK
<1>8. /\ \A o : Holds(q, e + 1, o) <=> Holds(queue[s], e, o)
      /\ Single(queue[s], e) => Single(q, e + 1)
  BY <1>1, <1>2, <1>3, <1>5, LoadedHolds DEF SubmitEntry
<1>9. /\ \A o \in Ops : Holds(q, e + 1, o) <=> Waiting(s, o)
      /\ Single(queue[s], Cursor(s)) => Single(q, e + 1)
  BY <1>7, <1>8 DEF Waiting
<1>10. PICK k : k = e + 1
  OBVIOUS
<1> QED
  BY <1>6, <1>7, <1>9, <1>10, OperationsSubmitted

\* A piece that is refused stays in the backlog: it is handed over later, but
\* the pieces before it a second time.
LEMMA SubmitEntryFailsMoves ==
    ASSUME QueueInv, SubmitEntryFails, EveryOpHeld
    PROVE  EveryOpHeld'
<1>1. PICK s \in Streams : s = cpu.stream
  BY LoadedTyped DEF SubmitEntryFails
<1>2. PICK e : e = cpu.entry
  OBVIOUS
<1>3. PICK q \in NvCommandQueue : q = Loaded(s, queue[s].backlog[e])
  BY <1>1, <1>2, LoadedTyped DEF SubmitEntryFails
<1>4. \A x \in Streams : queue'[x] = IF x = s THEN q ELSE queue[x]
  BY <1>1, <1>2, <1>3 DEF SubmitEntryFails, QueueInv, TypeOK, HostTypeOK
<1>5. /\ Cursor(s) = e
      /\ \A x \in Streams \ {s} : Cursor(x) = 1
      /\ \A x \in Streams : Cursor(x)' = 1
  BY <1>1, <1>2, CursorAdvances, CursorAtRest DEF SubmitEntryFails, QueueInv, TypeOK, Idle
<1>6. \A o : Holds(queue[s], e, o) => Holds(q, 1, o)
  BY <1>1, <1>2, <1>3, LoadedHolds DEF SubmitEntryFails
<1>7. \A x \in Streams, o \in Ops : Waiting(x, o) => Waiting(x, o)'
  BY <1>4, <1>5, <1>6, Zenon DEF Waiting
<1>8. issued' = issued /\ fifo' = fifo /\ Started' = Started
  BY GpuVarsKeep DEF SubmitEntryFails
<1> QED
  BY <1>7, <1>8, LostKept DEF Ops

LEMMA CommenceReturnsMoves ==
    ASSUME QueueInv, CommenceReturns
    PROVE  /\ EveryOpHeld => EveryOpHeld'
           /\ Once => Once'
<1>1. HostTypeOK /\ cpu.at = "wait"
  BY DEF QueueInv, TypeOK, CommenceReturns, EntryReached
<1>2. PICK s \in Streams : s = cpu.stream
  BY <1>1, CpuFields
<1>3. PICK q \in NvCommandQueue : q = queue[s]
  BY <1>1 DEF HostTypeOK
<1>4. PICK r : r = [q EXCEPT !.backlog = <<>>]
  OBVIOUS
<1>5. r.backlog = <<>> /\ r.buf = q.buf
  BY <1>4 DEF NvCommandQueue
<1>6. \A x \in Streams : queue'[x] = IF x = s THEN r ELSE queue[x]
  BY <1>1, <1>2, <1>3, <1>4 DEF CommenceReturns, HostTypeOK
<1>7. PICK k : k = Len(q.backlog) + 1
  OBVIOUS
<1>8. /\ Cursor(s) = k
      /\ \A x \in Streams \ {s} : Cursor(x) = 1
      /\ \A x \in Streams : Cursor(x)' = 1
  BY <1>1, <1>2, <1>3, <1>7, CursorAtRest DEF CommenceReturns, Cursor, Idle
<1>9. /\ ~ \E i : i \in k..Len(q.backlog)
      /\ ~ \E i : i \in 1..Len(r.backlog)
  <2>1. Len(q.backlog) \in Nat /\ Len(r.backlog) = 0
    BY <1>5 DEF NvCommandQueue
  <2> QED
    BY <1>7, <2>1
<1>10. \A o : Holds(r, 1, o) <=> Holds(q, k, o)
  BY <1>5, <1>9, Zenon DEF Holds
<1>11. Single(q, k) => Single(r, 1)
  BY <1>5, <1>9, Zenon DEF Single
<1>12. \A x \in Streams, o \in Ops : Waiting(x, o)' <=> Waiting(x, o)
  BY <1>3, <1>6, <1>8, <1>10, Zenon DEF Waiting
<1>13. QueuesSingle => QueuesSingle'
  BY <1>3, <1>6, <1>8, <1>11, Zenon DEF QueuesSingle
<1>14. issued' = issued /\ fifo' = fifo /\ Started' = Started
  BY GpuVarsKeep DEF CommenceReturns
<1>15. \A o \in Ops : o[1] \in Streams
  BY DEF Ops
<1> QED
  BY <1>12, <1>13, <1>14, <1>15, LostKept, OnceKept DEF Once

LEMMA CommenceBacklogMoves ==
    ASSUME QueueInv, NEW s \in Streams, CommenceBacklog(s)
    PROVE  /\ EveryOpHeld => EveryOpHeld'
           /\ Once => Once'
<1> DEFINE first == BacklogCurrentCmdBuffer(queue[s], "COMPUTE")
           both == BacklogCurrentCmdBuffer(first, "DMA")
<1>1. queue[s] \in NvCommandQueue /\ "COMPUTE" \in QueueTypes /\ "DMA" \in QueueTypes
  BY DEF QueueInv, TypeOK, HostTypeOK, QueueTypes
<1>2. first \in NvCommandQueue /\ Keeps(queue[s], first, 1)
  BY <1>1, BacklogTyped, BacklogKeeps
<1>3. queue' = [queue EXCEPT ![s] = both] /\ UNCHANGED <<gpuVars, issued>>
  BY DEF CommenceBacklog
<1>4. \A x \in Streams : Cursor(x) = 1 /\ Cursor(x)' = 1
  BY DEF CommenceBacklog, Ready, Cursor, Idle
<1> HIDE DEF first
<1>5. Keeps(queue[s], both, 1)
  BY <1>1, <1>2, BacklogKeeps, KeepsTransitive
<1> HIDE DEF both
<1> QED
  BY <1>3, <1>4, <1>5, QueueKept

LEMMA CommenceFailsMoves ==
    ASSUME QueueInv, NEW s \in Streams, CommenceFails(s)
    PROVE  /\ EveryOpHeld => EveryOpHeld'
           /\ Once => Once'
<1> DEFINE t == queue[s].currentQueueType
           r == NotifyIfPending(queue[s], s, t)
<1>1. queue[s] \in NvCommandQueue /\ t \in QueueTypes
  BY DEF QueueInv, TypeOK, HostTypeOK, CommenceFails
<1>2. queue' = [queue EXCEPT ![s] = r] /\ UNCHANGED <<gpuVars, issued>>
  BY DEF CommenceFails
<1>3. \A x \in Streams : Cursor(x) = 1 /\ Cursor(x)' = 1
  BY CursorAtRest DEF CommenceFails, Ready, Idle
<1>4. Keeps(queue[s], r, 1)
  BY <1>1, NotifyIfPendingKeeps
<1> HIDE DEF r
<1> QED
  BY <1>2, <1>3, <1>4, QueueKept

LEMMA AwaitReturnsMoves ==
    ASSUME QueueInv, AwaitReturns
    PROVE  /\ EveryOpHeld => EveryOpHeld'
           /\ Once => Once'
<1>1. PICK s \in Streams : s = cpu.stream
  BY CpuFields DEF QueueInv, TypeOK, AwaitReturns
<1> DEFINE r == [queue[s] EXCEPT !.kernArgsWriteIdx = 0]
<1>2. queue[s] \in NvCommandQueue
  BY DEF QueueInv, TypeOK, HostTypeOK
<1>3. queue' = [queue EXCEPT ![s] = r] /\ UNCHANGED <<gpuVars, issued>>
  BY <1>1 DEF AwaitReturns
<1>4. \A x \in Streams : Cursor(x) = 1 /\ Cursor(x)' = 1
  BY CursorAtRest DEF AwaitReturns, Idle
<1>5. Keeps(queue[s], r, 1)
  BY <1>2, ScalarFieldsKeep
<1> HIDE DEF r
<1> QED
  BY <1>3, <1>4, <1>5, QueueKept

LEMMA RecordEventMoves ==
    ASSUME QueueInv, NEW e \in Events, NEW s \in Streams, RecordEvent(e, s)
    PROVE  /\ EveryOpHeld => EveryOpHeld'
           /\ Once => Once'
<1> DEFINE t == RecordType(queue[s])
           sig == ObtainSignal(e, s).sig
           left == ObtainSignal(e, s).left
           q == [queue[s] EXCEPT !.freeSignals = left, !.currentQueueType = t]
           r == SignalNotify(q, sig, 1, t)
<1>1. t \in QueueTypes
  BY DEF RecordType, QueueTypes
<1>2. sig \in Signals /\ left \in Seq(0..(PoolSize - 1))
  BY ObtainSignalTyped DEF RecordEvent, QueueInv, TypeOK
<1>3. queue' = [queue EXCEPT ![s] = r] /\ UNCHANGED <<gpuVars, issued>>
  BY DEF RecordEvent
<1>4. queue[s] \in NvCommandQueue
  BY DEF QueueInv, TypeOK, HostTypeOK
<1>5. \A x \in Streams : Cursor(x) = 1 /\ Cursor(x)' = 1
  BY CursorAtRest DEF RecordEvent, Ready, Idle
<1> HIDE DEF t, sig, left
<1>6. q \in NvCommandQueue /\ Keeps(queue[s], q, 1)
  <2>1. q \in NvCommandQueue
    BY <1>1, <1>2, <1>4 DEF NvCommandQueue
  <2> QED
    BY <1>4, <2>1, ScalarFieldsKeep
<1> HIDE DEF q
<1>7. Keeps(queue[s], r, 1)
  BY <1>1, <1>2, <1>6, SignalNotifyKeeps, KeepsTransitive
<1> HIDE DEF r
<1> QED
  BY <1>3, <1>5, <1>7, QueueKept

\* What a launch prepares adds no operation.
LEMMA PreparedKeeps ==
    ASSUME QueueInv, NEW s \in Streams, NEW f \in Funcs, NEW async \in BOOLEAN
    PROVE  Keeps(queue[s], Prepared(s, f, async).queue, 1)
<1> DEFINE switched == SwitchTo(queue[s], "COMPUTE")
           mem == EnsureEnoughLocalMem(switched, f)
<1>1. /\ HostTypeOK /\ queue[s] \in NvCommandQueue /\ "COMPUTE" \in QueueTypes
      /\ slm \in SlmType
  BY DEF QueueInv, TypeOK, HostTypeOK, QueueTypes, SlmType
<1>2. Takes(switched, "COMPUTE") /\ Keeps(queue[s], switched, 1)
  BY <1>1, SwitchedQueue, SwitchToKeeps
<1>3. mem = [queue |-> mem.queue, slm |-> mem.slm]
  BY DEF EnsureEnoughLocalMem
<1> HIDE DEF switched
<1>4. mem.queue \in NvCommandQueue /\ Keeps(switched, mem.queue, 1)
  BY <1>1, <1>2, EnsureEnoughLocalMemTakes, EnsureEnoughLocalMemKeeps DEF Takes
<1>5. Prepared(s, f, async) = [mem EXCEPT !.queue = WaitForPrevious(mem.queue, s, async)]
  BY DEF Prepared, switched
<1> HIDE DEF mem
<1>6. Prepared(s, f, async).queue = WaitForPrevious(mem.queue, s, async)
  BY <1>3, <1>5
<1>7. Keeps(mem.queue, WaitForPrevious(mem.queue, s, async), 1)
  BY <1>4, WaitForPreviousKeeps
<1> QED
  BY <1>2, <1>4, <1>6, <1>7, KeepsTransitive

LEMMA LaunchFailsMoves ==
    ASSUME QueueInv, NEW s \in Streams, NEW f \in Funcs, NEW async \in BOOLEAN,
           LaunchFailsLocalMem(s, f) \/ LaunchFailsLate(s, f, async)
    PROVE  /\ EveryOpHeld => EveryOpHeld'
           /\ Once => Once'
<1> DEFINE switched == SwitchTo(queue[s], "COMPUTE")
           prep == Prepared(s, f, async).queue
<1>1. /\ HostTypeOK /\ queue[s] \in NvCommandQueue /\ "COMPUTE" \in QueueTypes
  BY DEF QueueInv, TypeOK, HostTypeOK, QueueTypes
<1>2. \A x \in Streams : Cursor(x) = 1 /\ Cursor(x)' = 1
  BY CursorAtRest DEF LaunchFailsLocalMem, LaunchFailsLate, MayLaunch, Ready, Idle
<1>3. switched \in NvCommandQueue /\ Keeps(queue[s], switched, 1)
  BY <1>1, SwitchedQueue, SwitchToKeeps DEF Takes
<1>4. prep \in NvCommandQueue /\ Keeps(queue[s], prep, 1)
  BY PreparedTakes, PreparedKeeps DEF Takes
<1>5. /\ UNCHANGED <<gpuVars, issued>>
      /\ \/ queue' = [queue EXCEPT ![s] = switched]
         \/ queue' = [queue EXCEPT ![s] = GrownSlm(switched, f)]
         \/ queue' = [queue EXCEPT ![s] = prep]
         \/ \E n : queue' = [queue EXCEPT ![s] = [prep EXCEPT !.kernArgsWriteIdx = n]]
  <2>1. CASE LaunchFailsLocalMem(s, f)
    BY <2>1 DEF LaunchFailsLocalMem
  <2>2. CASE LaunchFailsLate(s, f, async)
    BY <2>2 DEF LaunchFailsLate
  <2> QED
    BY <2>1, <2>2
<1> HIDE DEF switched, prep
<1>6. Keeps(queue[s], GrownSlm(switched, f), 1)
  BY <1>1, <1>3, EnsureEnoughLocalMemKeeps, KeepsTransitive
<1>7. \A n : Keeps(queue[s], [prep EXCEPT !.kernArgsWriteIdx = n], 1)
  BY <1>4, ScalarFieldsKeep, KeepsTransitive
<1>8. PICK r : Keeps(queue[s], r, 1) /\ queue' = [queue EXCEPT ![s] = r]
  BY <1>3, <1>4, <1>5, <1>6, <1>7
<1> QED
  BY <1>2, <1>5, <1>8, QueueKept

LEMMA LaunchFunctionMoves ==
    ASSUME QueueInv, NEW s \in Streams, NEW f \in Funcs, NEW async \in BOOLEAN,
           LaunchFunction(s, f, async)
    PROVE  /\ EveryOpHeld => EveryOpHeld'
           /\ Once => Once'
<1> DEFINE prep == Prepared(s, f, async).queue
           slot == prep.kernArgsWriteIdx
           op == <<s, Len(issued[s]) + 1>>
           launch == [kind |-> "launch", op |-> op, slot |-> slot,
                      need |-> LocalMemReq[f], slm |-> prep.currentSlmPerThread]
           taken == [prep EXCEPT !.kernArgsWriteIdx = slot + 1]
           added == Enqueue(taken, launch, "COMPUTE")
           last == EndOp(added, s, async, "COMPUTE")
           kind == [type |-> "COMPUTE", async |-> async]
<1>1. /\ HostTypeOK /\ queue[s] \in NvCommandQueue /\ "COMPUTE" \in QueueTypes
      /\ Len(issued[s]) < MaxOps /\ cpu = Idle
  BY DEF QueueInv, TypeOK, HostTypeOK, QueueTypes, LaunchFunction, MayLaunch, Ready
<1>2. op \in Ops
  BY <1>1, NextOpIsOp
<1>3. prep \in NvCommandQueue /\ Keeps(queue[s], prep, 1)
  BY PreparedTakes, PreparedKeeps DEF Takes
<1>4. slot + 1 \in 0..KernArgsSlots
  BY <1>3, FuncAssumption DEF LaunchFunction, KernArgsFit, NvCommandQueue
<1>5. /\ queue' = [queue EXCEPT ![s] = last]
      /\ issued' = [issued EXCEPT ![s] = Append(issued[s], kind)]
      /\ UNCHANGED <<gpuVars, cpu>>
  BY DEF LaunchFunction
<1>6. launch \in Command /\ IsWork(launch) /\ launch.op = op
  <2>1. prep.currentSlmPerThread \in Nat /\ slot \in Nat
    BY <1>3 DEF NvCommandQueue
  <2>2. LocalMemReq[f] \in Nat
    BY FuncAssumption
  <2> HIDE DEF prep, op
  <2> QED
    BY <1>2, <2>1, <2>2 DEF Command, Launches, IsWork
<1>7. kind \in OpKind
  BY DEF OpKind, QueueTypes
<1> HIDE DEF prep, slot, launch
<1>8. taken \in NvCommandQueue /\ Keeps(queue[s], taken, 1)
  BY <1>3, <1>4, ScalarFieldsKeep, KeepsTransitive DEF NvCommandQueue
<1> HIDE DEF taken
<1>9. /\ added \in NvCommandQueue
      /\ \A o : Holds(added, 1, o) <=> Holds(taken, 1, o) \/ o = op
      /\ Single(taken, 1) /\ ~Holds(taken, 1, op) => Single(added, 1)
  BY <1>1, <1>6, <1>8, EnqueueTyped, EnqueueAdds
<1> HIDE DEF added
<1>10. Keeps(added, last, 1)
  BY <1>1, <1>9, EndOpKeeps
<1> HIDE DEF last, op, kind
<1>11. /\ \A o : Holds(last, 1, o) <=> Holds(queue[s], 1, o) \/ o = op
       /\ Single(queue[s], 1) /\ ~Holds(queue[s], 1, op) => Single(last, 1)
  BY <1>8, <1>9, <1>10, Zenon DEF Keeps
<1>12. op = <<s, Len(issued[s]) + 1>>
  BY DEF op
<1> QED
  BY <1>1, <1>5, <1>7, <1>11, <1>12, OperationIssued

LEMMA GpuMemcpyMoves ==
    ASSUME QueueInv, NEW s \in Streams, NEW async \in BOOLEAN, GpuMemcpy(s, async)
    PROVE  /\ EveryOpHeld => EveryOpHeld'
           /\ Once => Once'
<1> DEFINE op == <<s, Len(issued[s]) + 1>>
           copy == [kind |-> "copy", op |-> op]
           switched == SwitchTo(queue[s], "DMA")
           added == Enqueue(switched, copy, "DMA")
           last == EndOp(added, s, async, "DMA")
           kind == [type |-> "DMA", async |-> async]
<1>1. /\ HostTypeOK /\ queue[s] \in NvCommandQueue /\ "DMA" \in QueueTypes
      /\ Len(issued[s]) < MaxOps /\ cpu = Idle
  BY DEF QueueInv, TypeOK, HostTypeOK, QueueTypes, GpuMemcpy, Ready
<1>2. op \in Ops
  BY <1>1, NextOpIsOp
<1>3. switched \in NvCommandQueue /\ Keeps(queue[s], switched, 1)
  BY <1>1, SwitchedQueue, SwitchToKeeps DEF Takes
<1>4. /\ queue' = [queue EXCEPT ![s] = last]
      /\ issued' = [issued EXCEPT ![s] = Append(issued[s], kind)]
      /\ UNCHANGED <<gpuVars, cpu>>
  BY DEF GpuMemcpy
<1>5. copy \in Command /\ IsWork(copy) /\ copy.op = op
  <2> HIDE DEF op
  <2> QED
    BY <1>2 DEF Command, Copies, IsWork
<1>6. kind \in OpKind
  BY DEF OpKind, QueueTypes
<1> HIDE DEF copy, switched
<1>7. /\ added \in NvCommandQueue
      /\ \A o : Holds(added, 1, o) <=> Holds(switched, 1, o) \/ o = op
      /\ Single(switched, 1) /\ ~Holds(switched, 1, op) => Single(added, 1)
  BY <1>1, <1>3, <1>5, EnqueueTyped, EnqueueAdds
<1> HIDE DEF added
<1>8. Keeps(added, last, 1)
  BY <1>1, <1>7, EndOpKeeps
<1> HIDE DEF last, op, kind
<1>9. /\ \A o : Holds(last, 1, o) <=> Holds(queue[s], 1, o) \/ o = op
      /\ Single(queue[s], 1) /\ ~Holds(queue[s], 1, op) => Single(last, 1)
  BY <1>3, <1>7, <1>8, Zenon DEF Keeps
<1>10. op = <<s, Len(issued[s]) + 1>>
  BY DEF op
<1> QED
  BY <1>1, <1>4, <1>6, <1>9, <1>10, OperationIssued

LEMMA NextEntryMoves ==
    ASSUME QueueInv, NextEntry
    PROVE  /\ EveryOpHeld => EveryOpHeld'
           /\ Once => Once'
<1>1. cpu \in [at : {"submit", "wait"}, stream : Streams, entry : Nat \ {0}]
  BY DEF QueueInv, TypeOK, HostTypeOK, CpuState, Idle, NextEntry, EntryReached
<1>2. cpu.at = "wait" /\ cpu' = [cpu EXCEPT !.at = "submit", !.entry = @ + 1]
  BY DEF NextEntry, EntryReached
<1>3. cpu'.at = "submit" /\ cpu'.stream = cpu.stream /\ cpu'.entry = cpu.entry + 1
  BY <1>1, <1>2
<1>4. \A s \in Streams : Cursor(s)' = Cursor(s)
  BY <1>2, <1>3 DEF Cursor
<1> QED
  BY <1>4, QuietKept DEF NextEntry

\* The calls and returns that move no command.
LEMMA QuietCallsMove ==
    ASSUME QueueInv,
           \/ InitDmaReturns \/ EventSynchronizeReturns
           \/ \E s \in Streams : StreamCreateFails(s) \/ StreamDestroy(s) \/ Await(s)
           \/ \E e \in Events : \/ EventSynchronize(e) \/ EventDestroy(e)
                                \/ \E s \in Streams : RecordEventFails(e, s)
    PROVE  /\ EveryOpHeld => EveryOpHeld'
           /\ Once => Once'
<1>1. cpu.at \notin {"submit", "wait"} /\ cpu'.at \notin {"submit", "wait"}
  BY DEF InitDmaReturns, EventSynchronizeReturns, StreamCreateFails, StreamDestroy, Await,
         EventSynchronize, EventDestroy, RecordEventFails, Ready, Idle
<1>2. UNCHANGED <<gpuVars, queue, issued>>
  BY DEF InitDmaReturns, EventSynchronizeReturns, StreamCreateFails, StreamDestroy, Await,
         EventSynchronize, EventDestroy, RecordEventFails
<1> QED
  BY <1>1, <1>2, CursorAtRest, QuietKept

LEMMA StutterMoves ==
    ASSUME UNCHANGED vars
    PROVE  /\ EveryOpHeld => EveryOpHeld'
           /\ Once => Once'
<1>1. UNCHANGED <<gpuVars, queue, issued>> /\ \A s \in Streams : Cursor(s)' = Cursor(s)
  BY DEF vars, hostVars, Cursor
<1> QED
  BY <1>1, QuietKept

LEMMA GpuStepMoves ==
    ASSUME QueueInv, GpuStep
    PROVE  /\ EveryOpHeld => EveryOpHeld'
           /\ Once => Once'
<1>1. "COMPUTE" \in QueueTypes /\ "DMA" \in QueueTypes /\ UNCHANGED hostVars
  BY DEF QueueTypes, GpuStep
<1>2. ASSUME NEW c \in QueueTypes, NEW kind \in {"launch", "copy"},
             NextIs(c, kind), Begin(c)
      PROVE  /\ EveryOpHeld => EveryOpHeld'
             /\ Once => Once'
  <2>1. IsWork(Head(fifo[c])) /\ fifo[c] # <<>> /\ Take(c)
    BY <1>2 DEF NextIs, IsWork, Begin
  <2>2. Started' = Started \cup {Head(fifo[c]).op}
    BY <1>2, BeginStarts
  <2> QED
    BY <1>1, <2>1, <2>2, CommandTaken
<1>3. ASSUME NEW c \in QueueTypes, NEW kind \in {"release", "acquire", "localMem"},
             NextIs(c, kind), Take(c), UNCHANGED <<running, done>>
      PROVE  /\ EveryOpHeld => EveryOpHeld'
             /\ Once => Once'
  <2>1. ~IsWork(Head(fifo[c])) /\ fifo[c] # <<>>
    BY <1>3 DEF NextIs, IsWork
  <2>2. Started' = Started
    BY <1>3 DEF Started, Executing
  <2> QED
    BY <1>1, <1>3, <2>1, <2>2, CommandTaken
<1>4. CASE StartKernel
  BY <1>1, <1>2, <1>4 DEF StartKernel
<1>5. CASE StartCopy
  BY <1>1, <1>2, <1>5 DEF StartCopy
<1>6. CASE Acquire
  BY <1>1, <1>3, <1>6 DEF Acquire
<1>7. CASE SetLocalMem
  BY <1>1, <1>3, <1>7 DEF SetLocalMem
<1>8. CASE \E c \in QueueTypes : Release(c)
  BY <1>1, <1>3, <1>8 DEF Release
<1>9. CASE \E c \in QueueTypes : Finish(c)
  <2>1. fifo' = fifo /\ Started' = Started
    BY <1>9, FinishKeepsStarted DEF Finish
  <2>2. /\ issued' = issued
        /\ \A s \in Streams, o \in Ops : Waiting(s, o)' <=> Waiting(s, o)
        /\ QueuesSingle => QueuesSingle'
    BY <1>1 DEF hostVars, Waiting, Cursor, QueuesSingle
  <2>3. \A o \in Ops : o[1] \in Streams
    BY DEF Ops
  <2> QED
    BY <2>1, <2>2, <2>3, LostKept, OnceKept DEF Once
<1> QED
  BY <1>1, <1>4, <1>5, <1>6, <1>7, <1>8, <1>9 DEF GpuStep, GpuNext, ComputeTakes, DmaTakes

-----------------------------------------------------------------------------
(* Every step keeps the invariants.                                        *)

LEMMA CallMoves ==
    ASSUME QueueInv, IssuedInv, NEW s \in Streams, Call(s)
    PROVE  /\ EveryOpHeld => EveryOpHeld'
           /\ Once => Once'
<1>1. CASE StreamCreate(s)
  BY <1>1, StreamCreateMoves
<1>2. CASE StreamCreateFails(s) \/ StreamDestroy(s) \/ Await(s)
           \/ \E e \in Events : RecordEventFails(e, s)
  BY <1>2, QuietCallsMove
<1>3. CASE \E f \in Funcs : LaunchFailsLocalMem(s, f)
  BY <1>3, LaunchFailsMoves
<1>4. CASE \E f \in Funcs, async \in BOOLEAN :
              LaunchFunction(s, f, async) \/ LaunchFailsLate(s, f, async)
  BY <1>4, LaunchFunctionMoves, LaunchFailsMoves
<1>5. CASE \E async \in BOOLEAN : GpuMemcpy(s, async)
  BY <1>5, GpuMemcpyMoves
<1>6. CASE \E e \in Events : RecordEvent(e, s)
  BY <1>6, RecordEventMoves
<1>7. CASE Commence(s) \/ CommenceFails(s) \/ CommenceBacklog(s)
  BY <1>7, CommenceMoves, CommenceFailsMoves, CommenceBacklogMoves
<1> QED
  BY <1>1, <1>2, <1>3, <1>4, <1>5, <1>6, <1>7 DEF Call

\* Only a submission that fails half-way through the backlog can repeat one.
LEMMA PlacesStep ==
    ASSUME QueueInv, IssuedInv, [Next]_vars
    PROVE  /\ EveryOpHeld => EveryOpHeld'
           /\ Once /\ "submit" \notin Faults => Once'
<1>1. CASE GpuStep
  BY <1>1, GpuStepMoves
<1>2. CASE InitComputeReturns \/ SubmitEntry \/ NextEntry \/ CommenceReturns \/ AwaitReturns
  BY <1>2, InitComputeReturnsMoves, SubmitEntryMoves, NextEntryMoves,
     CommenceReturnsMoves, AwaitReturnsMoves
<1>3. CASE InitDmaReturns \/ EventSynchronizeReturns
           \/ \E e \in Events : EventSynchronize(e) \/ EventDestroy(e)
  BY <1>3, QuietCallsMove
<1>4. CASE SubmitEntryFails
  <2>1. "submit" \in Faults
    BY <1>4 DEF SubmitEntryFails
  <2> QED
    BY <1>4, <2>1, SubmitEntryFailsMoves
<1>5. CASE \E s \in Streams : Call(s)
  BY <1>5, CallMoves
<1>6. CASE Exit \/ UNCHANGED vars
  BY <1>6, StutterMoves DEF Exit
<1> QED
  BY <1>1, <1>2, <1>3, <1>4, <1>5, <1>6 DEF Next, Return

LEMMA IssuedStep ==
    ASSUME QueueInv, IssuedInv, [Next]_vars
    PROVE  IssuedInv'
<1>1. HostTypeOK
  BY DEF QueueInv, TypeOK
<1>2. ASSUME issued' = issued,
             \A s \in Streams : state'[s] = "none" => state[s] = "none"
      PROVE  IssuedInv'
  BY <1>2 DEF IssuedInv
<1>3. CASE GpuStep \/ UNCHANGED vars
  BY <1>2, <1>3 DEF GpuStep, hostVars, vars
<1>4. CASE Return
  BY <1>1, <1>2, <1>4 DEF Return, InitComputeReturns, InitDmaReturns, SubmitEntry, NextEntry,
     CommenceReturns, AwaitReturns, EventSynchronizeReturns, HostTypeOK
<1>5. CASE SubmitEntryFails \/ Exit
  BY <1>2, <1>5 DEF SubmitEntryFails, Exit, vars, hostVars
<1>6. CASE \E e \in Events : EventSynchronize(e) \/ EventDestroy(e)
  BY <1>2, <1>6 DEF EventSynchronize, EventDestroy
<1>7. ASSUME NEW s \in Streams, Call(s) PROVE IssuedInv'
  <2>1. CASE StreamCreate(s) \/ StreamCreateFails(s) \/ StreamDestroy(s)
    BY <1>1, <1>2, <2>1 DEF StreamCreate, StreamCreateFails, StreamDestroy, HostTypeOK
  <2>2. CASE \E f \in Funcs : \/ LaunchFailsLocalMem(s, f)
                              \/ \E async \in BOOLEAN : LaunchFailsLate(s, f, async)
    BY <1>2, <2>2 DEF LaunchFailsLocalMem, LaunchFailsLate
  <2>3. CASE \E async \in BOOLEAN : \/ GpuMemcpy(s, async)
                                    \/ \E f \in Funcs : LaunchFunction(s, f, async)
    <3>1. PICK kind : issued' = [issued EXCEPT ![s] = Append(issued[s], kind)]
      BY <2>3 DEF GpuMemcpy, LaunchFunction
    <3>2. state' = state /\ state[s] = "alive" /\ Len(issued[s]) < MaxOps
      BY <2>3 DEF GpuMemcpy, LaunchFunction, MayLaunch, Ready
    <3>3. /\ \A x \in Streams : issued'[x] = IF x = s THEN Append(issued[s], kind) ELSE issued[x]
          /\ Len(issued[s]) \in Nat
      BY <1>1, <3>1 DEF HostTypeOK
    <3>4. Len(Append(issued[s], kind)) <= MaxOps
      BY <1>1, <3>2, <3>3, StreamAssumption DEF HostTypeOK
    <3> QED
      BY <3>2, <3>3, <3>4 DEF IssuedInv
  <2>4. CASE \E e \in Events : RecordEvent(e, s) \/ RecordEventFails(e, s)
    BY <1>2, <2>4 DEF RecordEvent, RecordEventFails
  <2>5. CASE Commence(s) \/ CommenceFails(s) \/ CommenceBacklog(s) \/ Await(s)
    BY <1>2, <2>5 DEF Commence, CommenceFails, CommenceBacklog, Await
  <2> QED
    BY <1>7, <2>1, <2>2, <2>3, <2>4, <2>5 DEF Call
<1> QED
  BY <1>3, <1>4, <1>5, <1>6, <1>7 DEF Next

LEMMA PlacesInit == Init => IssuedInv /\ EveryOpHeld /\ Once
<1> SUFFICES ASSUME Init PROVE IssuedInv /\ EveryOpHeld /\ Once
  OBVIOUS
<1>1. \A s \in Streams : issued[s] = <<>> /\ Cursor(s) = 1
  BY DEF Init, Cursor, Idle
<1>2. \A o \in Ops : ~WasIssued(o)
  BY <1>1 DEF WasIssued, Ops
<1>3. QueuesSingle /\ \A s \in Streams, o \in Ops : ~Waiting(s, o)
  BY <1>1, NewQueueIsEmpty DEF Init, QueuesSingle, Waiting
<1>4. /\ \A c \in QueueTypes : OnceIn(fifo[c])
      /\ \A c \in QueueTypes : \A o : ~Has(fifo[c], o)
  BY EmptyHasNone DEF Init, GpuInit
<1>5. ChannelsSingle
  BY <1>4 DEF ChannelsSingle, QueueTypes
<1>6. \A o \in Ops : ~InChannel(o) /\ o \notin Started
  BY <1>4 DEF InChannel, Init, GpuInit, Started, Executing
<1> QED
  BY <1>1, <1>2, <1>3, <1>5, <1>6, StreamAssumption DEF IssuedInv, EveryOpHeld, OnePlace, Once

LEMMA LostInvariant == Spec => [](QueueInv /\ IssuedInv /\ EveryOpHeld)
<1>1. Init => QueueInv /\ IssuedInv /\ EveryOpHeld
  BY QueueInit, PlacesInit
<1>2. QueueInv /\ IssuedInv /\ EveryOpHeld /\ [Next]_vars
        => (QueueInv /\ IssuedInv /\ EveryOpHeld)'
  BY QueueStep, IssuedStep, PlacesStep
<1> QED
  BY <1>1, <1>2, PTL DEF Spec

LEMMA HasElement ==
    ASSUME NEW seq, NEW o, Has(seq, o)
    PROVE  \E cmd \in Elements(seq) : IsWork(cmd) /\ cmd.op = o
BY DEF Has, Elements

\* Every operation a program enqueues on a stream reaches a channel: until it
\* starts it is in the buffers, the backlog or a channel, for any number of
\* streams and operations, whatever the program calls and whichever call fails
\* (startExecution, cmdqueue.cpp:821-867).
THEOREM NothingIsForgotten == Spec => []NothingForgotten
<1>1. ASSUME QueueInv, IssuedInv, EveryOpHeld PROVE NothingForgotten
  <2> SUFFICES ASSUME NEW s \in Streams, NEW i \in 1..Len(issued[s]), state[s] = "alive",
                      <<s, i>> \notin Started
               PROVE  \E cmd \in Submitted \cup Buffered(s) : IsWork(cmd) /\ cmd.op = <<s, i>>
    BY DEF NothingForgotten
  <2>1. PICK o : o = <<s, i>>
    OBVIOUS
  <2>2. o \in Ops /\ WasIssued(o) /\ o[1] = s
    <3>1. Len(issued[s]) \in Nat /\ Len(issued[s]) <= MaxOps
      BY <1>1 DEF QueueInv, TypeOK, HostTypeOK, IssuedInv
    <3>2. i \in 1..MaxOps
      BY <3>1, StreamAssumption
    <3> QED
      BY <2>1, <3>2 DEF Ops, WasIssued
  <2>3. Waiting(s, o) \/ InChannel(o)
    BY <1>1, <2>1, <2>2 DEF EveryOpHeld
  <2>4. CASE InChannel(o)
    <3>1. PICK c \in QueueTypes : Has(fifo[c], o)
      BY <2>4 DEF InChannel
    <3>2. PICK cmd \in Elements(fifo[c]) : IsWork(cmd) /\ cmd.op = o
      BY <3>1, HasElement
    <3>3. cmd \in Submitted
      BY <3>2 DEF Submitted
    <3> QED
      BY <2>1, <3>2, <3>3
  <2>5. CASE \E t \in QueueTypes : Has(queue[s].buf[t], o)
    <3>1. PICK t \in QueueTypes : Has(queue[s].buf[t], o)
      BY <2>5
    <3>2. PICK cmd \in Elements(queue[s].buf[t]) : IsWork(cmd) /\ cmd.op = o
      BY <3>1, HasElement
    <3>3. cmd \in Buffered(s)
      BY <3>2 DEF Buffered
    <3> QED
      BY <2>1, <3>2, <3>3
  <2>6. CASE \E k \in Cursor(s)..Len(queue[s].backlog) : Has(queue[s].backlog[k].buf, o)
    <3>1. PICK k \in Cursor(s)..Len(queue[s].backlog) : Has(queue[s].backlog[k].buf, o)
      BY <2>6
    <3>2. queue[s].backlog \in Seq(Split)
      BY <1>1 DEF QueueInv, TypeOK, HostTypeOK, NvCommandQueue
    <3>3. k \in DOMAIN queue[s].backlog
      <4>1. HostTypeOK
        BY <1>1 DEF QueueInv, TypeOK
      <4>2. cpu.at \in {"submit", "wait"} => cpu.entry \in Nat \ {0}
        BY <4>1, CpuFields
      <4>3. Cursor(s) \in Nat \ {0}
        BY <4>2 DEF Cursor
      <4> QED
        BY <3>1, <3>2, <4>3
    <3>4. PICK cmd \in Elements(queue[s].backlog[k].buf) : IsWork(cmd) /\ cmd.op = o
      BY <3>1, HasElement
    <3>5. queue[s].backlog[k] \in Elements(queue[s].backlog)
      BY <3>3 DEF Elements
    <3>6. cmd \in Buffered(s)
      BY <3>4, <3>5 DEF Buffered
    <3> QED
      BY <2>1, <3>4, <3>6
  <2> QED
    BY <2>3, <2>4, <2>5, <2>6 DEF Waiting, Holds
<1> QED
  BY <1>1, LostInvariant, PTL

\* Where no submission is refused, no kernel and no copy is handed to a channel
\* twice or again after it started, however often a program commences, and
\* whatever else fails: the loop of startExecution submits each piece of the
\* backlog once (cmdqueue.cpp:826-845).
THEOREM NothingRunsTwice == "submit" \notin Faults => (Spec => []NoReplay)
<1> SUFFICES ASSUME "submit" \notin Faults PROVE Spec => []NoReplay
  OBVIOUS
<1>1. Init => QueueInv /\ IssuedInv /\ Once
  BY QueueInit, PlacesInit
<1>2. QueueInv /\ IssuedInv /\ Once /\ [Next]_vars => (QueueInv /\ IssuedInv /\ Once)'
  BY QueueStep, IssuedStep, PlacesStep
<1>3. ASSUME QueueInv, Once PROVE NoReplay
  <2> SUFFICES ASSUME NEW c \in QueueTypes, NEW i \in DOMAIN fifo[c], IsWork(fifo[c][i])
               PROVE  /\ fifo[c][i].op \notin Started
                      /\ \A j \in DOMAIN fifo[c] :
                            IsWork(fifo[c][j]) /\ fifo[c][j].op = fifo[c][i].op => i = j
    BY DEF NoReplay
  <2>1. Has(fifo[c], fifo[c][i].op)
    BY DEF Has
  <2>2. fifo[c][i].op \in Ops /\ InChannel(fifo[c][i].op)
    BY <1>3, <2>1, HasIsOp DEF QueueInv, TypeOK, GpuTypeOK, InChannel
  <2>3. fifo[c][i].op \notin Started
    BY <1>3, <2>2 DEF Once, OnePlace
  <2>4. OnceIn(fifo[c])
    BY <1>3 DEF Once, ChannelsSingle
  <2> QED
    BY <2>3, <2>4 DEF OnceIn
<1> QED
  BY <1>1, <1>2, <1>3, PTL DEF Spec

-----------------------------------------------------------------------------
(* Order.  What a channel guarantees follows from the commands ahead of one *)
(* alone, so the argument is about sequences: those in the channel,         *)
(* followed by a piece of the stream that is still to be submitted.         *)

\* The relation of StreamOrder, in the history iss.
Precedes(iss, o, p) ==
    /\ o[1] = p[1]
    /\ o[2] < p[2]
    /\ \/ iss[o[1]][o[2]].type # iss[p[1]][p[2]].type
       \/ ~iss[o[1]][o[2]].async
       \/ ~iss[p[1]][p[2]].async

\* The operations of s that are complete when its timeline reaches ctr.
Upto(s, ctr) == {o \in Ops : o[1] = s /\ o[2] + 2 <= ctr}

\* In what follows seq is the line of a channel of type t, R holds the
\* operations the channel executes, D operations that are complete.

\* The i-th command of the line finds o executing or ahead of it.
Comes(seq, i, R, o) ==
    \/ o \in R
    \/ \E k \in DOMAIN seq : k < i /\ IsWork(seq[k]) /\ seq[k].op = o

\* The timeline of o's stream is awaited ahead of the i-th command, at a value
\* that vouches for o.
Awaited(seq, i, o) ==
    \E m \in DOMAIN seq :
        /\ m < i
        /\ seq[m].kind = "acquire"
        /\ seq[m].sig = Timeline(o[1])
        /\ o[2] + 2 <= seq[m].payload

\* A release between o and the i-th command waits for o.
Released(seq, i, R, o) ==
    \E m \in DOMAIN seq : m < i /\ seq[m].kind = "release" /\ Comes(seq, m, R, o)

\* When the channel executes the i-th command, o is complete.
Over(seq, i, t, D, R, o) ==
    \/ o \in D
    \/ t = "DMA" /\ Comes(seq, i, R, o)
    \/ Released(seq, i, R, o)
    \/ Awaited(seq, i, o)

\* cmd may be the i-th command: what an operation must follow is over, and a
\* release of a timeline waits for all that its value vouches for.
Fits(iss, cmd, seq, i, t, D, R) ==
    /\ IsWork(cmd) =>
          /\ cmd.op[2] <= Len(iss[cmd.op[1]])
          /\ \A p \in Ops : Precedes(iss, p, cmd.op) => Over(seq, i, t, D, R, p)
    /\ cmd.kind = "release" =>
          \A o \in Ops : cmd.sig = Timeline(o[1]) /\ o[2] + 2 <= cmd.payload
                            => o \in D \/ Comes(seq, i, R, o)

Ordered(iss, seq, t, D, R) ==
    \A i \in DOMAIN seq : Fits(iss, seq[i], seq, i, t, D, R)

\* A command added at the end of the line may rely on all that s issued before
\* its counter was ctr: o is complete, or in this line, where a synchronous o
\* is also waited for.
Present(iss, seq, t, D, R, o) ==
    \/ o \in D
    \/ /\ o[2] <= Len(iss[o[1]])
       /\ iss[o[1]][o[2]].type = t
       /\ Comes(seq, Len(seq) + 1, R, o)
       /\ ~iss[o[1]][o[2]].async => Over(seq, Len(seq) + 1, t, D, R, o)

Covered(iss, seq, t, D, R, s, ctr) ==
    \A o \in Upto(s, ctr) : Present(iss, seq, t, D, R, o)

Sound(iss, seq, t, D, R, s, ctr) ==
    Ordered(iss, seq, t, D, R) /\ Covered(iss, seq, t, D, R, s, ctr)

-----------------------------------------------------------------------------
(* Lines of commands.                                                      *)

LEMMA OpFields ==
    \A o \in Ops : /\ o[1] \in Streams
                   /\ o[2] \in Nat \ {0}
                   /\ o = <<o[1], o[2]>>
BY StreamAssumption DEF Ops

LEMMA SeqPlaces ==
    ASSUME NEW seq \in Seq(Command)
    PROVE  /\ Len(seq) \in Nat
           /\ DOMAIN seq = 1..Len(seq)
           /\ \A i \in DOMAIN seq : i \in Nat \ {0} /\ seq[i] \in Command
OBVIOUS

\* g is part of h, in the same order: places maps the commands of g to those of
\* h.  What is over in g is over in h, if h knows of no fewer operations.
LEMMA Joined ==
    ASSUME NEW a \in Seq(Command), NEW b \in Seq(Command)
    PROVE  LET r == a \o b
           IN  /\ r \in Seq(Command)
               /\ DOMAIN r = 1..(Len(a) + Len(b))
               /\ Len(r) = Len(a) + Len(b)
               /\ \A i \in 1..Len(a) : r[i] = a[i]
               /\ \A i \in 1..Len(b) : r[Len(a) + i] = b[i]
OBVIOUS

\* g is part of h, in the same order: f maps the places of g to places of h.
Embedding(f, g, h) ==
    /\ \A k \in DOMAIN g : f[k] \in DOMAIN h /\ h[f[k]] = g[k]
    /\ \A k, l \in DOMAIN g : k < l => f[k] < f[l]

\* It takes what is ahead of place i ahead of place j.
Places(f, g, i, j) == \A k \in DOMAIN g : k < i => f[k] < j

\* More is complete; what was executing executes still or is complete.
Later(D, R, D2, R2) == D \subseteq D2 /\ R \subseteq R2 \cup D2

\* What is over at place i of g is over at place j of h.
LEMMA EmbeddedOver ==
    ASSUME NEW g, NEW h, NEW f, Embedding(f, g, h),
           NEW D, NEW R, NEW D2, NEW R2, Later(D, R, D2, R2),
           NEW i, NEW j, Places(f, g, i, j),
           NEW t
    PROVE  \A o : /\ Comes(g, i, R, o) => o \in D2 \/ Comes(h, j, R2, o)
                  /\ Over(g, i, t, D, R, o) => Over(h, j, t, D2, R2, o)
<1> SUFFICES ASSUME NEW o
             PROVE  /\ Comes(g, i, R, o) => o \in D2 \/ Comes(h, j, R2, o)
                    /\ Over(g, i, t, D, R, o) => Over(h, j, t, D2, R2, o)
  OBVIOUS
<1>0. /\ o \in D => o \in D2
      /\ o \in R => o \in R2 \/ o \in D2
  BY DEF Later
<1>1. \A m, n : Places(f, g, m, n) => (Comes(g, m, R, o) => o \in D2 \/ Comes(h, n, R2, o))
  BY <1>0, Zenon DEF Embedding, Comes, Places
<1>2. Awaited(g, i, o) => Awaited(h, j, o)
  BY Zenon DEF Embedding, Awaited, Places
<1>3. Released(g, i, R, o) => o \in D2 \/ Released(h, j, R2, o)
  <2> SUFFICES ASSUME Released(g, i, R, o), o \notin D2
               PROVE  Released(h, j, R2, o)
    BY Zenon
  <2>1. PICK m \in DOMAIN g : m < i /\ g[m].kind = "release" /\ Comes(g, m, R, o)
    BY DEF Released
  <2>2. Places(f, g, m, f[m])
    BY <2>1, Zenon DEF Embedding, Places
  <2>3. Comes(h, f[m], R2, o)
    BY <1>1, <2>1, <2>2, Zenon
  <2>4. f[m] \in DOMAIN h /\ h[f[m]] = g[m] /\ f[m] < j
    BY <2>1, Zenon DEF Embedding, Places
  <2> QED
    BY <2>1, <2>3, <2>4, Zenon DEF Released
<1> QED
  BY <1>1, <1>2, <1>3, <1>0, Zenon DEF Over

LEMMA EmbeddedFits ==
    ASSUME NEW g, NEW h, NEW f, Embedding(f, g, h),
           NEW D, NEW R, NEW D2, NEW R2, Later(D, R, D2, R2),
           NEW i, NEW j, Places(f, g, i, j),
           NEW t, NEW iss, NEW cmd, Fits(iss, cmd, g, i, t, D, R)
    PROVE  Fits(iss, cmd, h, j, t, D2, R2)
<1>1. \A o : /\ Comes(g, i, R, o) => o \in D2 \/ Comes(h, j, R2, o)
             /\ Over(g, i, t, D, R, o) => Over(h, j, t, D2, R2, o)
  BY EmbeddedOver
<1>2. \A o : o \in D => o \in D2
  BY DEF Later
<1> QED
  BY <1>1, <1>2, Zenon DEF Fits

LEMMA EmbeddedCovered ==
    ASSUME NEW g, NEW h, NEW f, Embedding(f, g, h),
           NEW D, NEW R, NEW D2, NEW R2, Later(D, R, D2, R2),
           Places(f, g, Len(g) + 1, Len(h) + 1),
           NEW t, NEW iss, NEW s, NEW ctr, Covered(iss, g, t, D, R, s, ctr)
    PROVE  Covered(iss, h, t, D2, R2, s, ctr)
<1>1. \A o : /\ Comes(g, Len(g) + 1, R, o) => o \in D2 \/ Comes(h, Len(h) + 1, R2, o)
             /\ Over(g, Len(g) + 1, t, D, R, o) => Over(h, Len(h) + 1, t, D2, R2, o)
  BY EmbeddedOver
<1>2. \A o : o \in D => o \in D2
  BY DEF Later
<1> QED
  BY <1>1, <1>2, Zenon DEF Covered, Present

\* The same line, when more is complete.
LEMMA LaterSound ==
    ASSUME NEW g \in Seq(Command), NEW t, NEW iss,
           NEW D, NEW R, NEW D2, NEW R2, Later(D, R, D2, R2)
    PROVE  /\ Ordered(iss, g, t, D, R) => Ordered(iss, g, t, D2, R2)
           /\ \A s, ctr : Covered(iss, g, t, D, R, s, ctr) => Covered(iss, g, t, D2, R2, s, ctr)
<1> DEFINE f == [k \in DOMAIN g |-> k]
<1>1. /\ Embedding(f, g, g)
      /\ \A i : Places(f, g, i, i)
  BY DEF Embedding, Places
<1> HIDE DEF f
<1>2. Ordered(iss, g, t, D, R) => Ordered(iss, g, t, D2, R2)
  BY <1>1, EmbeddedFits, Zenon DEF Ordered
<1>3. ASSUME NEW s, NEW ctr, Covered(iss, g, t, D, R, s, ctr)
      PROVE  Covered(iss, g, t, D2, R2, s, ctr)
  BY <1>1, <1>3, EmbeddedCovered
<1> QED
  BY <1>2, <1>3

\* The places of the beginning of a line, and of a line into which c is inserted.
LEMMA Insertion ==
    ASSUME NEW x \in Seq(Command), NEW b \in Seq(Command), NEW c \in Seq(Command)
    PROVE  LET p == x \o c
               h == p \o b
               e == [k \in DOMAIN p |-> k]
               f == [k \in DOMAIN (x \o b) |-> IF k <= Len(x) THEN k ELSE k + Len(c)]
           IN  /\ p \in Seq(Command) /\ h \in Seq(Command)
               /\ Embedding(e, p, h) /\ \A i : Places(e, p, i, i)
               /\ Embedding(f, x \o b, h)
               /\ \A k \in DOMAIN (x \o b) : Places(f, x \o b, k, f[k])
               /\ Places(f, x \o b, Len(x \o b) + 1, Len(h) + 1)
               /\ \A i \in DOMAIN h : \/ i \in DOMAIN p /\ h[i] = p[i]
                                      \/ \E k \in DOMAIN (x \o b) : i = f[k]
<1> DEFINE p == x \o c
           g == x \o b
           h == p \o b
           n == Len(x)
           m == Len(c)
           l == Len(b)
           e == [k \in DOMAIN p |-> k]
           f == [k \in DOMAIN g |-> IF k <= n THEN k ELSE k + m]
<1>1. /\ n \in Nat /\ m \in Nat /\ l \in Nat
      /\ p \in Seq(Command) /\ g \in Seq(Command)
      /\ DOMAIN p = 1..(n + m) /\ Len(p) = n + m
      /\ DOMAIN g = 1..(n + l) /\ Len(g) = n + l
      /\ \A i \in 1..n : p[i] = x[i] /\ g[i] = x[i]
      /\ \A i \in 1..l : g[n + i] = b[i]
  OBVIOUS
<1> HIDE DEF p, g, n, m, l
<1>2. /\ h \in Seq(Command)
      /\ DOMAIN h = 1..((n + m) + l) /\ Len(h) = (n + m) + l
      /\ \A i \in 1..(n + m) : h[i] = p[i]
      /\ \A i \in 1..l : h[(n + m) + i] = b[i]
  <2>1. p \in Seq(Command) /\ Len(p) = n + m
    BY <1>1
  <2>2. /\ h \in Seq(Command)
        /\ DOMAIN h = 1..(Len(p) + Len(b)) /\ Len(h) = Len(p) + Len(b)
        /\ \A i \in 1..Len(p) : h[i] = p[i]
        /\ \A i \in 1..Len(b) : h[Len(p) + i] = b[i]
    BY <2>1, Joined
  <2> HIDE DEF h
  <2> QED
    BY <2>1, <2>2 DEF l
<1> HIDE DEF h
<1>3. Embedding(e, p, h) /\ \A i : Places(e, p, i, i)
  BY <1>1, <1>2 DEF Embedding, Places
<1>4. ASSUME NEW k \in DOMAIN g
      PROVE  f[k] \in DOMAIN h /\ h[f[k]] = g[k]
  <2>1. CASE k <= n
    BY <1>1, <1>2, <2>1
  <2>2. CASE ~(k <= n)
    <3>1. PICK i \in 1..l : k = n + i
      <4>1. k - n \in 1..l /\ k = n + (k - n)
        BY <1>1, <2>2
      <4> QED
        BY <4>1
    <3>2. f[k] = (n + m) + i
      BY <1>1, <2>2, <3>1
    <3> QED
      BY <1>1, <1>2, <3>1, <3>2
  <2> QED
    BY <2>1, <2>2
<1>5. \A k, j \in DOMAIN g : k < j => f[k] < f[j]
  BY <1>1
<1>6. Places(f, g, Len(g) + 1, Len(h) + 1)
  BY <1>1, <1>2 DEF Places
<1>7. ASSUME NEW i \in DOMAIN h, ~(i \in DOMAIN p /\ h[i] = p[i])
      PROVE  \E k \in DOMAIN g : i = f[k]
  <2>1. ~(i <= n + m) /\ i \in Nat
    BY <1>1, <1>2, <1>7
  <2>2. /\ i - m \in DOMAIN g
        /\ ~(i - m <= n)
        /\ (i - m) + m = i
    BY <1>1, <1>2, <2>1
  <2> QED
    BY <2>2
<1>8. Embedding(f, g, h)
  BY <1>4, <1>5 DEF Embedding
<1>9. \A k \in DOMAIN g : Places(f, g, k, f[k])
  BY <1>5 DEF Places
<1> HIDE DEF f, e
<1> QED
  BY <1>1, <1>2, <1>3, <1>6, <1>7, <1>8, <1>9 DEF p, g, h, n, m, f, e

\* Commands inserted into a line after its beginning x leave what follows them
\* in order.
LEMMA InsertedSound ==
    ASSUME NEW x \in Seq(Command), NEW b \in Seq(Command), NEW c \in Seq(Command),
           NEW t, NEW iss, NEW D, NEW R, NEW D2, NEW R2, Later(D, R, D2, R2),
           Ordered(iss, x \o c, t, D2, R2), Ordered(iss, x \o b, t, D, R)
    PROVE  /\ Ordered(iss, (x \o c) \o b, t, D2, R2)
           /\ \A s, ctr : Covered(iss, x \o b, t, D, R, s, ctr)
                             => Covered(iss, (x \o c) \o b, t, D2, R2, s, ctr)
<1> DEFINE p == x \o c
           g == x \o b
           h == p \o b
           e == [k \in DOMAIN p |-> k]
           f == [k \in DOMAIN (x \o b) |-> IF k <= Len(x) THEN k ELSE k + Len(c)]
<1>1. /\ Embedding(e, p, h) /\ \A i : Places(e, p, i, i)
      /\ Embedding(f, g, h)
      /\ \A k \in DOMAIN g : Places(f, g, k, f[k])
      /\ Places(f, g, Len(g) + 1, Len(h) + 1)
      /\ \A i \in DOMAIN h : \/ i \in DOMAIN p /\ h[i] = p[i]
                             \/ \E k \in DOMAIN g : i = f[k]
  BY Insertion
<1>2. \A i \in DOMAIN p : e[i] = i
  OBVIOUS
<1>3. Ordered(iss, p, t, D2, R2) /\ Ordered(iss, g, t, D, R)
  OBVIOUS
<1>4. Later(D2, R2, D2, R2)
  BY DEF Later
<1> HIDE DEF p, g, h, e, f
<1>5. ASSUME NEW i \in DOMAIN p PROVE Fits(iss, h[i], h, i, t, D2, R2)
  <2>1. Fits(iss, p[i], p, i, t, D2, R2) /\ h[i] = p[i]
    BY <1>1, <1>2, <1>3 DEF Ordered, Embedding
  <2> QED
    BY <1>1, <1>4, <2>1, EmbeddedFits
<1>6. ASSUME NEW k \in DOMAIN g PROVE Fits(iss, h[f[k]], h, f[k], t, D2, R2)
  <2>1. Fits(iss, g[k], g, k, t, D, R) /\ h[f[k]] = g[k]
    BY <1>1, <1>3 DEF Ordered, Embedding
  <2> QED
    BY <1>1, <2>1, EmbeddedFits
<1>7. Ordered(iss, h, t, D2, R2)
  BY <1>1, <1>5, <1>6, Zenon DEF Ordered
<1>8. ASSUME NEW s, NEW ctr, Covered(iss, g, t, D, R, s, ctr)
      PROVE  Covered(iss, h, t, D2, R2, s, ctr)
  BY <1>1, <1>8, EmbeddedCovered
<1> QED
  BY <1>7, <1>8 DEF h, p, g

\* A line that grows by a command that fits at its end.
LEMMA AppendedSound ==
    ASSUME NEW seq \in Seq(Command), NEW cmd \in Command,
           NEW t, NEW iss, NEW D, NEW R,
           Ordered(iss, seq, t, D, R), Fits(iss, cmd, seq, Len(seq) + 1, t, D, R)
    PROVE  LET r == Append(seq, cmd)
           IN  /\ Ordered(iss, r, t, D, R)
               /\ \A o : Present(iss, seq, t, D, R, o) => Present(iss, r, t, D, R, o)
               /\ IsWork(cmd) => Comes(r, Len(r) + 1, R, cmd.op)
               /\ \A o : Comes(seq, Len(seq) + 1, R, o) =>
                     \/ o \in D
                     \/ /\ Comes(r, Len(r) + 1, R, o)
                        /\ cmd.kind = "release" => Released(r, Len(r) + 1, R, o)
               /\ cmd.kind = "acquire" =>
                     \A o : cmd.sig = Timeline(o[1]) /\ o[2] + 2 <= cmd.payload
                               => Awaited(r, Len(r) + 1, o)
<1> DEFINE r == Append(seq, cmd)
           n == Len(seq)
           f == [k \in DOMAIN seq |-> k]
<1>1. /\ n \in Nat
      /\ DOMAIN seq = 1..n
      /\ DOMAIN r = 1..(n + 1)
      /\ \A i \in 1..n : r[i] = seq[i]
      /\ r[n + 1] = cmd
  BY AppendIndices
<1>2. Len(r) = n + 1
  OBVIOUS
<1> HIDE DEF r, n
<1>3. /\ Embedding(f, seq, r)
      /\ \A i : Places(f, seq, i, i)
      /\ Places(f, seq, n + 1, Len(r) + 1)
  BY <1>1, <1>2 DEF Embedding, Places
<1> HIDE DEF f
<1>4. Later(D, R, D, R)
  BY DEF Later
<1>5. Fits(iss, cmd, r, n + 1, t, D, R)
  BY <1>3, <1>4, EmbeddedFits DEF n
<1>6. ASSUME NEW i \in DOMAIN seq PROVE Fits(iss, r[i], r, i, t, D, R)
  <2>1. Fits(iss, seq[i], seq, i, t, D, R) /\ r[i] = seq[i]
    BY <1>1 DEF Ordered
  <2> QED
    BY <1>3, <1>4, <2>1, EmbeddedFits
<1>7. \A i \in DOMAIN r : i \in DOMAIN seq \/ i = n + 1
  BY <1>1
<1>8. Ordered(iss, r, t, D, R)
  BY <1>1, <1>5, <1>6, <1>7, Zenon DEF Ordered
<1>9. \A o : /\ Comes(seq, n + 1, R, o) => o \in D \/ Comes(r, Len(r) + 1, R, o)
             /\ Over(seq, n + 1, t, D, R, o) => Over(r, Len(r) + 1, t, D, R, o)
  BY <1>3, <1>4, EmbeddedOver
<1>10. \A o : Present(iss, seq, t, D, R, o) => Present(iss, r, t, D, R, o)
  BY <1>9, Zenon DEF Present, n
<1>11. n + 1 \in DOMAIN r /\ n + 1 < Len(r) + 1
  BY <1>1, <1>2
<1>12. IsWork(cmd) => Comes(r, Len(r) + 1, R, cmd.op)
  BY <1>1, <1>11, Zenon DEF Comes
<1>13. \A o : Comes(seq, n + 1, R, o) => o \in D \/ Comes(r, n + 1, R, o)
  BY <1>3, <1>4, EmbeddedOver
<1>14. cmd.kind = "release" =>
          \A o : Comes(seq, n + 1, R, o) => o \in D \/ Released(r, Len(r) + 1, R, o)
  BY <1>1, <1>11, <1>13, Zenon DEF Released
<1>15. cmd.kind = "acquire" =>
          \A o : cmd.sig = Timeline(o[1]) /\ o[2] + 2 <= cmd.payload
                    => Awaited(r, Len(r) + 1, o)
  BY <1>1, <1>11, Zenon DEF Awaited
<1> QED
  BY <1>8, <1>9, <1>10, <1>12, <1>14, <1>15 DEF r, n

\* What the channel may do with the first command of its line: an operation
\* starts executing; a release waits until none does; an acquire waits until
\* what its value vouches for is complete.
MayTake(cmd, D, R, R2) ==
    /\ IsWork(cmd) => cmd.op \in R2
    /\ cmd.kind = "release" => R = {}
    /\ cmd.kind = "acquire" =>
          \A o \in Ops : cmd.sig = Timeline(o[1]) /\ o[2] + 2 <= cmd.payload => o \in D

LEMMA TakenSound ==
    ASSUME NEW seq \in Seq(Command), seq # <<>>, NEW t, NEW iss,
           NEW D, NEW R, NEW R2, R \subseteq R2, MayTake(Head(seq), D, R, R2)
    PROVE  LET r == Tail(seq)
           IN  /\ Ordered(iss, seq, t, D, R) => Ordered(iss, r, t, D, R2)
               /\ \A s, ctr : Covered(iss, seq, t, D, R, s, ctr)
                                 => Covered(iss, r, t, D, R2, s, ctr)
<1> DEFINE r == Tail(seq)
           n == Len(seq)
<1>1. /\ n \in Nat \ {0}
      /\ DOMAIN seq = 1..n
      /\ DOMAIN r = 1..(n - 1)
      /\ Len(r) = n - 1
      /\ \A i \in 1..(n - 1) : r[i] = seq[i + 1]
      /\ Head(seq) = seq[1]
  OBVIOUS
<1>2. MayTake(seq[1], D, R, R2)
  BY <1>1
<1> HIDE DEF r, n
<1>3. ASSUME NEW i \in Nat, NEW o, Comes(seq, i + 1, R, o)
      PROVE  Comes(r, i, R2, o)
  <2>1. CASE o \in R
    BY <2>1 DEF Comes
  <2>2. ASSUME NEW k \in DOMAIN seq, k < i + 1, IsWork(seq[k]), seq[k].op = o
        PROVE  Comes(r, i, R2, o)
    <3>1. CASE k = 1
      BY <1>2, <2>2, <3>1 DEF MayTake, Comes
    <3>2. CASE k # 1
      <4>1. k - 1 \in DOMAIN r /\ k - 1 < i /\ r[k - 1] = seq[k]
        BY <1>1, <2>2, <3>2
      <4> QED
        BY <2>2, <4>1, Zenon DEF Comes
    <3> QED
      BY <3>1, <3>2
  <2> QED
    BY <1>3, <2>1, <2>2 DEF Comes
<1>4. ASSUME NEW o, Comes(seq, 1, R, o)
      PROVE  o \in R
  BY <1>1, <1>4 DEF Comes
<1>5. ASSUME NEW i \in Nat, NEW o, Released(seq, i + 1, R, o)
      PROVE  Released(r, i, R2, o)
  <2>1. PICK m \in DOMAIN seq : m < i + 1 /\ seq[m].kind = "release" /\ Comes(seq, m, R, o)
    BY <1>5 DEF Released
  <2>2. m # 1
    BY <1>2, <1>4, <2>1 DEF MayTake
  <2>3. m - 1 \in Nat /\ m - 1 \in DOMAIN r /\ m - 1 < i /\ r[m - 1] = seq[m] /\ (m - 1) + 1 = m
    BY <1>1, <2>1, <2>2
  <2>4. Comes(r, m - 1, R2, o)
    BY <1>3, <2>1, <2>3
  <2> QED
    BY <2>1, <2>3, <2>4, Zenon DEF Released
<1>6. ASSUME NEW i \in Nat, NEW o \in Ops, Awaited(seq, i + 1, o), o \notin D
      PROVE  Awaited(r, i, o)
  <2>1. PICK m \in DOMAIN seq : /\ m < i + 1
                                /\ seq[m].kind = "acquire"
                                /\ seq[m].sig = Timeline(o[1])
                                /\ o[2] + 2 <= seq[m].payload
    BY <1>6 DEF Awaited
  <2>2. m # 1
    BY <1>2, <1>6, <2>1 DEF MayTake
  <2>3. m - 1 \in DOMAIN r /\ m - 1 < i /\ r[m - 1] = seq[m]
    BY <1>1, <2>1, <2>2
  <2> QED
    BY <2>1, <2>3, Zenon DEF Awaited
<1>7. \A i \in Nat, o \in Ops : Over(seq, i + 1, t, D, R, o) => Over(r, i, t, D, R2, o)
  BY <1>3, <1>5, <1>6, Zenon DEF Over
<1>8. \A i \in Nat : \A cmd : Fits(iss, cmd, seq, i + 1, t, D, R) => Fits(iss, cmd, r, i, t, D, R2)
  BY <1>3, <1>7, Zenon DEF Fits
<1>9. \A i \in DOMAIN r : i \in Nat /\ i + 1 \in DOMAIN seq /\ r[i] = seq[i + 1]
  BY <1>1
<1>10. Ordered(iss, seq, t, D, R) => Ordered(iss, r, t, D, R2)
  BY <1>8, <1>9, Zenon DEF Ordered
<1>11. ASSUME NEW s, NEW ctr, Covered(iss, seq, t, D, R, s, ctr)
       PROVE  Covered(iss, r, t, D, R2, s, ctr)
  <2>1. n \in Nat /\ Len(seq) + 1 = n + 1 /\ Len(r) + 1 = n
    BY <1>1 DEF n
  <2>2. Upto(s, ctr) \subseteq Ops
    BY DEF Upto
  <2> QED
    BY <1>3, <1>7, <1>11, <2>1, <2>2, Zenon DEF Covered, Present
<1> QED
  BY <1>10, <1>11 DEF r

\* One more operation in the history changes nothing for those before it.
Remembers(iss2, iss) ==
    \A o \in Ops : o[2] <= Len(iss[o[1]]) =>
        o[2] <= Len(iss2[o[1]]) /\ iss2[o[1]][o[2]] = iss[o[1]][o[2]]

LEMMA RememberedSound ==
    ASSUME NEW iss, NEW iss2, Remembers(iss2, iss), \A s \in Streams : Len(iss[s]) \in Nat,
           NEW seq \in Seq(Command), NEW t, NEW D, NEW R
    PROVE  /\ Ordered(iss, seq, t, D, R) => Ordered(iss2, seq, t, D, R)
           /\ \A o \in Ops : Present(iss, seq, t, D, R, o) => Present(iss2, seq, t, D, R, o)
           /\ \A s, ctr : Covered(iss, seq, t, D, R, s, ctr) => Covered(iss2, seq, t, D, R, s, ctr)
<1>1. \A o \in Ops : Present(iss, seq, t, D, R, o) => Present(iss2, seq, t, D, R, o)
  BY Zenon DEF Present, Remembers
<1>2. \A s, ctr : Covered(iss, seq, t, D, R, s, ctr) => Covered(iss2, seq, t, D, R, s, ctr)
  BY <1>1 DEF Covered, Upto
<1>3. ASSUME Ordered(iss, seq, t, D, R), NEW i \in DOMAIN seq
      PROVE  Fits(iss2, seq[i], seq, i, t, D, R)
  <2> DEFINE cmd == seq[i]
  <2>1. Fits(iss, cmd, seq, i, t, D, R)
    BY <1>3 DEF Ordered
  <2>2. cmd \in Command
    BY SeqPlaces
  <2> HIDE DEF cmd
  <2>3. IsWork(cmd) => cmd.op \in Ops
    BY <2>2 DEF IsWork, Command, Launches, Copies, Releases, Acquires, LocalMemSets
  <2>4. ASSUME IsWork(cmd), NEW p \in Ops, Precedes(iss2, p, cmd.op)
        PROVE  Over(seq, i, t, D, R, p)
    <3>1. PICK o \in Ops : o = cmd.op
      BY <2>3, <2>4
    <3>2. o[2] <= Len(iss[o[1]]) /\ p[1] = o[1] /\ p[2] < o[2]
      BY <2>1, <2>4, <3>1 DEF Fits, Precedes
    <3>3. p[2] <= Len(iss[p[1]])
      BY <3>2, OpFields
    <3>4. iss2[o[1]][o[2]] = iss[o[1]][o[2]] /\ iss2[p[1]][p[2]] = iss[p[1]][p[2]]
      BY <3>2, <3>3 DEF Remembers
    <3>5. Precedes(iss, p, o)
      BY <2>4, <3>1, <3>4 DEF Precedes
    <3> QED
      BY <2>1, <2>4, <3>1, <3>5 DEF Fits
  <2>5. IsWork(cmd) => cmd.op[2] <= Len(iss2[cmd.op[1]])
    BY <2>1, <2>3 DEF Fits, Remembers
  <2>6. Fits(iss2, cmd, seq, i, t, D, R)
    BY <2>1, <2>4, <2>5, Zenon DEF Fits
  <2> QED
    BY <2>6 DEF cmd
<1> QED
  BY <1>1, <1>2, <1>3 DEF Ordered

-----------------------------------------------------------------------------
(* The pieces of a stream, each behind the line it will join.              *)

Underway(t) == {task.cmd.op : task \in running[t]}

\* The first piece still to be submitted follows what its channel holds.
InLine(iss, piece, s) ==
    Sound(iss, fifo[piece.type] \o piece.buf, piece.type, done, Underway(piece.type),
          s, piece.timelineCtr)

\* A later piece finds its channel empty: the CPU waits until the timeline has
\* reached the counter of the piece before.
Behind(iss, piece, s, base) ==
    Sound(iss, <<>> \o piece.buf, piece.type, Upto(s, base), {}, s, piece.timelineCtr)

\* The backlog of q from its k-th piece on; the CPU waits for the piece before,
\* or for none if that is 0.
BacklogSound(iss, q, s, k, waits) ==
    \A j \in k..Len(q.backlog) :
        IF j = k /\ waits = 0
          THEN InLine(iss, q.backlog[j], s)
          ELSE Behind(iss, q.backlog[j], s, q.backlog[j - 1].timelineCtr)

\* What the current buffer of q follows.
Last(q) == q.backlog[Len(q.backlog)]
Front(q) == IF q.backlog = <<>> THEN fifo[q.currentQueueType] ELSE <<>>
Sure(q, s) == IF q.backlog = <<>> THEN done ELSE Upto(s, Last(q).timelineCtr)
Busy(q) == IF q.backlog = <<>> THEN Underway(q.currentQueueType) ELSE {}

Line(q) == Front(q) \o q.buf[q.currentQueueType]

RestSound(iss, q, s) ==
    Sound(iss, Line(q), q.currentQueueType, Sure(q, s), Busy(q), s, q.timelineCtr)

\* q takes commands of type t, and keeps the order.
Good(iss, q, s, t) ==
    /\ q \in NvCommandQueue
    /\ q.currentQueueType = t
    /\ q.buf[Other(t)] = <<>>
    /\ BacklogSound(iss, q, s, 1, 0)
    /\ RestSound(iss, q, s)

\* o has been waited for when the channel executes the next command of q.
Settled(q, s, o) ==
    Over(Line(q), Len(Line(q)) + 1, q.currentQueueType, Sure(q, s), Busy(q), o)

LEMMA GoodTakes ==
    ASSUME NEW iss, NEW q, NEW s, NEW t \in QueueTypes, Good(iss, q, s, t)
    PROVE  Takes(q, t)
BY DEF Good, Takes

LEMMA LineTyped ==
    ASSUME GpuTypeOK, NEW q \in NvCommandQueue, q.currentQueueType \in QueueTypes
    PROVE  Line(q) \in Seq(Command)
<1>1. q.buf[q.currentQueueType] \in Seq(Command) /\ fifo[q.currentQueueType] \in Seq(Command)
  BY DEF GpuTypeOK, NvCommandQueue
<1>2. Front(q) \in Seq(Command)
  BY <1>1 DEF Front
<1> QED
  BY <1>1, <1>2 DEF Line

\* Fields the order does not depend on.
LEMMA SameLine ==
    ASSUME NEW iss, NEW q, NEW s, NEW t \in QueueTypes, Good(iss, q, s, t),
           NEW r \in NvCommandQueue, r.buf = q.buf, r.backlog = q.backlog,
           r.currentQueueType = q.currentQueueType, r.timelineCtr = q.timelineCtr
    PROVE  /\ Good(iss, r, s, t)
           /\ \A o : Settled(r, s, o) <=> Settled(q, s, o)
<1>1. Line(r) = Line(q) /\ Sure(r, s) = Sure(q, s) /\ Busy(r) = Busy(q)
  BY DEF Line, Front, Sure, Busy, Last
<1> QED
  BY <1>1 DEF Good, BacklogSound, RestSound, Settled

\* The next command of q, where it fits.
Fitting(iss, q, s, cmd) ==
    Fits(iss, cmd, Line(q), Len(Line(q)) + 1, q.currentQueueType, Sure(q, s), Busy(q))

LEMMA EnqueueGood ==
    ASSUME GpuTypeOK, NEW iss, NEW q, NEW s, NEW t \in QueueTypes, Good(iss, q, s, t),
           NEW cmd \in Command, Fitting(iss, q, s, cmd)
    PROVE  LET r == Enqueue(q, cmd, t)
           IN  /\ Good(iss, r, s, t)
               /\ Line(r) = Append(Line(q), cmd)
               /\ Sure(r, s) = Sure(q, s)
               /\ Busy(r) = Busy(q)
<1> DEFINE r == Enqueue(q, cmd, t)
<1>1. /\ r \in NvCommandQueue
      /\ r.backlog = q.backlog
      /\ r.currentQueueType = t
      /\ r.timelineCtr = q.timelineCtr
      /\ r.buf[t] = Append(q.buf[t], cmd)
      /\ r.buf[Other(t)] = <<>>
  BY EnqueueTyped, OtherType DEF Good, Enqueue, NvCommandQueue
<1> HIDE DEF r
<1>2. q \in NvCommandQueue /\ q.currentQueueType = t
  BY DEF Good
<1>3. Front(r) = Front(q) /\ Sure(r, s) = Sure(q, s) /\ Busy(r) = Busy(q)
  BY <1>1, <1>2 DEF Front, Sure, Busy, Last
<1>4. Line(r) = Append(Line(q), cmd)
  <2>1. q.buf[t] \in Seq(Command) /\ Front(q) \in Seq(Command)
    BY <1>2 DEF NvCommandQueue, Front, GpuTypeOK
  <2>2. \A a, b \in Seq(Command) : a \o Append(b, cmd) = Append(a \o b, cmd)
    OBVIOUS
  <2> QED
    BY <1>1, <1>2, <1>3, <2>1, <2>2 DEF Line
<1>5. Line(q) \in Seq(Command)
  BY <1>2, LineTyped
<1>6. /\ Ordered(iss, Line(r), t, Sure(q, s), Busy(q))
      /\ Covered(iss, Line(r), t, Sure(q, s), Busy(q), s, q.timelineCtr)
  BY <1>2, <1>4, <1>5, AppendedSound DEF Good, RestSound, Sound, Fitting, Covered
<1>7. RestSound(iss, r, s)
  BY <1>1, <1>3, <1>6 DEF RestSound, Sound
<1>8. BacklogSound(iss, r, s, 1, 0)
  BY <1>1 DEF Good, BacklogSound
<1> QED
  BY <1>1, <1>3, <1>4, <1>7, <1>8 DEF Good, r

\* What is present is complete or on its way.
LEMMA CoveredComes ==
    ASSUME NEW iss, NEW q, NEW s, NEW t \in QueueTypes, Good(iss, q, s, t),
           NEW o \in Upto(s, q.timelineCtr)
    PROVE  o \in Sure(q, s) \/ Comes(Line(q), Len(Line(q)) + 1, Busy(q), o)
BY DEF Good, RestSound, Sound, Covered, Present

LEMMA SignalNotifyGood ==
    ASSUME GpuTypeOK, NEW iss, NEW q, NEW s, NEW t \in QueueTypes, Good(iss, q, s, t),
           NEW sig \in Signals, NEW target \in Nat,
           \A o \in Ops : sig = Timeline(o[1]) /\ o[2] + 2 <= target
               => o \in Sure(q, s) \/ Comes(Line(q), Len(Line(q)) + 1, Busy(q), o)
    PROVE  LET r == SignalNotify(q, sig, target, t)
           IN  /\ Good(iss, r, s, t)
               /\ r.timelineCtr = q.timelineCtr
               /\ \A o : o \in Sure(q, s) \/ Comes(Line(q), Len(Line(q)) + 1, Busy(q), o)
                            => Settled(r, s, o)
<1> DEFINE r == SignalNotify(q, sig, target, t)
           cmd == [kind |-> "release", sig |-> sig, payload |-> target]
<1>1. cmd \in Command
  BY CommandTypes
<1>2. ~IsWork(cmd) /\ cmd.kind = "release" /\ cmd.sig = sig /\ cmd.payload = target
  BY DEF IsWork
<1>3. r = Enqueue(q, cmd, t)
  BY DEF SignalNotify
<1>4. q \in NvCommandQueue /\ q.currentQueueType = t
  BY DEF Good
<1>5. r.timelineCtr = q.timelineCtr
  BY <1>4 DEF SignalNotify, Enqueue, NvCommandQueue
<1> HIDE DEF r, cmd
<1>6. Fitting(iss, q, s, cmd)
  BY <1>2 DEF Fitting, Fits
<1>7. /\ Good(iss, r, s, t)
      /\ Line(r) = Append(Line(q), cmd)
      /\ Sure(r, s) = Sure(q, s)
      /\ Busy(r) = Busy(q)
  BY <1>1, <1>3, <1>6, EnqueueGood
<1>8. Line(q) \in Seq(Command)
  BY <1>4, LineTyped
<1>9. \A o : Comes(Line(q), Len(Line(q)) + 1, Busy(q), o) =>
          o \in Sure(q, s) \/ Released(Line(r), Len(Line(r)) + 1, Busy(q), o)
  BY <1>1, <1>2, <1>4, <1>6, <1>7, <1>8, AppendedSound DEF Good, RestSound, Sound, Fitting
<1>10. \A o : o \in Sure(q, s) \/ Comes(Line(q), Len(Line(q)) + 1, Busy(q), o)
                 => Settled(r, s, o)
  BY <1>7, <1>9 DEF Settled, Over
<1> QED
  BY <1>5, <1>7, <1>10 DEF r

LEMMA TimelineOfOp ==
    \A s \in Streams, o \in Ops : \A n : Timeline(s) = Timeline(o[1]) /\ o[2] + 2 <= n => o \in Upto(s, n)
BY DEF Timeline, Upto

LEMMA NotifyIfPendingGood ==
    ASSUME GpuTypeOK, NEW iss, NEW q, NEW s \in Streams, NEW t \in QueueTypes, Good(iss, q, s, t)
    PROVE  LET r == [NotifyIfPending(q, s, t) EXCEPT !.timelineNotifyPending = FALSE]
           IN  Good(iss, r, s, t) /\ r.timelineCtr = q.timelineCtr
<1> DEFINE n == NotifyIfPending(q, s, t)
           r == [n EXCEPT !.timelineNotifyPending = FALSE]
<1>1. q \in NvCommandQueue /\ q.timelineCtr \in Nat
  BY CounterIsNat DEF Good, NvCommandQueue
<1>2. Timeline(s) \in Signals
  BY TimelineIsSignal
<1>3. \A o \in Ops : Timeline(s) = Timeline(o[1]) /\ o[2] + 2 <= q.timelineCtr
          => o \in Sure(q, s) \/ Comes(Line(q), Len(Line(q)) + 1, Busy(q), o)
  BY TimelineOfOp, CoveredComes
<1>4. Good(iss, n, s, t) /\ n.timelineCtr = q.timelineCtr
  BY <1>1, <1>2, <1>3, SignalNotifyGood DEF NotifyIfPending
<1> HIDE DEF n
<1>5. n \in NvCommandQueue
  BY <1>4 DEF Good
<1>6. /\ r \in NvCommandQueue /\ r.buf = n.buf /\ r.backlog = n.backlog
      /\ r.currentQueueType = n.currentQueueType /\ r.timelineCtr = n.timelineCtr
  BY <1>5 DEF NvCommandQueue
<1> HIDE DEF r
<1>7. Good(iss, r, s, t)
  BY <1>4, <1>6, SameLine
<1> QED
  BY <1>4, <1>6, <1>7 DEF r, n

LEMMA SignalWaitGpuGood ==
    ASSUME GpuTypeOK, NEW iss, NEW q, NEW s \in Streams, Good(iss, q, s, "COMPUTE"),
           value[Timeline(s)] = q.timelineCtr => Upto(s, q.timelineCtr) \subseteq Sure(q, s)
    PROVE  LET r == SignalWaitGpu(q, Timeline(s), q.timelineCtr)
           IN  /\ Good(iss, r, s, "COMPUTE")
               /\ r.timelineCtr = q.timelineCtr
               /\ \A o \in Upto(s, q.timelineCtr) : Settled(r, s, o)
<1> DEFINE cmd == [kind |-> "acquire", sig |-> Timeline(s), payload |-> q.timelineCtr]
           r == Enqueue(q, cmd, "COMPUTE")
<1>1. /\ q \in NvCommandQueue /\ q.timelineCtr \in Nat
      /\ "COMPUTE" \in QueueTypes /\ q.currentQueueType = "COMPUTE"
  BY CounterIsNat DEF Good, NvCommandQueue, QueueTypes
<1>2. CASE value[Timeline(s)] = q.timelineCtr
  BY <1>2 DEF SignalWaitGpu, Settled, Over
<1>3. CASE value[Timeline(s)] # q.timelineCtr
  <2>1. SignalWaitGpu(q, Timeline(s), q.timelineCtr) = r
    BY <1>3 DEF SignalWaitGpu
  <2>2. cmd \in Command
    BY <1>1, CommandTypes, TimelineIsSignal
  <2>3. /\ ~IsWork(cmd) /\ cmd.kind = "acquire" /\ cmd.sig = Timeline(s)
        /\ cmd.payload = q.timelineCtr
    BY DEF IsWork
  <2>4. r.timelineCtr = q.timelineCtr
    BY <1>1 DEF Enqueue, NvCommandQueue
  <2> HIDE DEF cmd
  <2>5. Fitting(iss, q, s, cmd)
    BY <2>3 DEF Fitting, Fits
  <2>6. /\ Good(iss, r, s, "COMPUTE")
        /\ Line(r) = Append(Line(q), cmd)
    BY <1>1, <2>2, <2>5, EnqueueGood
  <2>7. Line(q) \in Seq(Command)
    BY <1>1, LineTyped
  <2> HIDE DEF r
  <2>8. \A o : cmd.sig = Timeline(o[1]) /\ o[2] + 2 <= cmd.payload
                  => Awaited(Line(r), Len(Line(r)) + 1, o)
    BY <1>1, <2>2, <2>3, <2>5, <2>6, <2>7, AppendedSound
       DEF Good, RestSound, Sound, Fitting
  <2>9. \A o \in Upto(s, q.timelineCtr) : Settled(r, s, o)
    BY <2>3, <2>8 DEF Upto, Settled, Over
  <2> QED
    BY <2>1, <2>4, <2>6, <2>9 DEF r
<1> QED
  BY <1>2, <1>3

LEMMA WaitForPreviousGood ==
    ASSUME GpuTypeOK, NEW iss, NEW q, NEW s \in Streams, Good(iss, q, s, "COMPUTE"),
           value[Timeline(s)] = q.timelineCtr => Upto(s, q.timelineCtr) \subseteq Sure(q, s),
           NEW async \in BOOLEAN
    PROVE  LET r == WaitForPrevious(q, s, async)
           IN  /\ Good(iss, r, s, "COMPUTE")
               /\ r.timelineCtr = q.timelineCtr
               /\ ~async => \A o \in Upto(s, q.timelineCtr) : Settled(r, s, o)
<1> DEFINE n == [NotifyIfPending(q, s, "COMPUTE") EXCEPT !.timelineNotifyPending = FALSE]
<1>1. "COMPUTE" \in QueueTypes
  BY DEF QueueTypes
<1>2. Good(iss, n, s, "COMPUTE") /\ n.timelineCtr = q.timelineCtr
  BY <1>1, NotifyIfPendingGood
<1>3. n.backlog = q.backlog
  BY DEF NotifyIfPending, SignalNotify, Enqueue, Good, NvCommandQueue
<1> HIDE DEF n
<1>4. Sure(n, s) = Sure(q, s)
  BY <1>3 DEF Sure, Last
<1>5. LET r == SignalWaitGpu(n, Timeline(s), q.timelineCtr)
      IN  /\ Good(iss, r, s, "COMPUTE")
          /\ r.timelineCtr = q.timelineCtr
          /\ \A o \in Upto(s, q.timelineCtr) : Settled(r, s, o)
  BY <1>2, <1>4, SignalWaitGpuGood
<1>6. CASE async
  BY <1>6 DEF WaitForPrevious
<1>7. CASE ~async
  BY <1>5, <1>7 DEF WaitForPrevious, n
<1> QED
  BY <1>6, <1>7

LEMMA EnsureEnoughLocalMemGood ==
    ASSUME GpuTypeOK, HostTypeOK, NEW iss, NEW q, NEW s, Good(iss, q, s, "COMPUTE"), NEW f \in Funcs
    PROVE  /\ Good(iss, GrownSlm(q, f), s, "COMPUTE")
           /\ LET r == EnsureEnoughLocalMem(q, f).queue
              IN  Good(iss, r, s, "COMPUTE") /\ r.timelineCtr = q.timelineCtr
<1> DEFINE grown == GrownSlm(q, f)
           cmd == [kind |-> "localMem", region |-> Len(slm.size) + 1]
<1>1. "COMPUTE" \in QueueTypes /\ q \in NvCommandQueue
  BY DEF QueueTypes, Good
<1>2. /\ grown \in NvCommandQueue /\ grown.buf = q.buf /\ grown.backlog = q.backlog
      /\ grown.currentQueueType = q.currentQueueType /\ grown.timelineCtr = q.timelineCtr
  <2>1. RoundUp(LocalMemReq[f], 32) \in Nat
    BY RoundUpIsNat, FuncAssumption
  <2> QED
    BY <1>1, <2>1 DEF GrownSlm, NvCommandQueue
<1>3. cmd \in Command /\ ~IsWork(cmd) /\ cmd.kind = "localMem"
  BY DEF HostTypeOK, Command, LocalMemSets, IsWork
<1>4. \/ EnsureEnoughLocalMem(q, f).queue = q
      \/ EnsureEnoughLocalMem(q, f).queue = Enqueue(grown, cmd, "COMPUTE")
  BY DEF EnsureEnoughLocalMem
<1> HIDE DEF grown, cmd
<1>5. Good(iss, grown, s, "COMPUTE")
  BY <1>1, <1>2, SameLine
<1>6. Fitting(iss, grown, s, cmd)
  BY <1>3 DEF Fitting, Fits
<1>7. Good(iss, Enqueue(grown, cmd, "COMPUTE"), s, "COMPUTE")
  BY <1>1, <1>3, <1>5, <1>6, EnqueueGood
<1>8. Enqueue(grown, cmd, "COMPUTE").timelineCtr = q.timelineCtr
  BY <1>2 DEF Enqueue, NvCommandQueue
<1> QED
  BY <1>4, <1>5, <1>7, <1>8 DEF grown

LEMMA NoWrap == \A m, n \in Nat : m < n => m % n = m
OBVIOUS

\* o is the operation just added to q, the next of its stream.
Newest(iss, q, s, o, kind) ==
    /\ o \in Ops /\ o[1] = s /\ o[2] + 1 = q.timelineCtr
    /\ o[2] <= Len(iss[s]) /\ iss[s][o[2]] = kind
    /\ Comes(Line(q), Len(Line(q)) + 1, Busy(q), o)

\* What is added after it releases the timeline at its counter, or leaves that
\* to Commence.
LEMMA EndOpGood ==
    ASSUME GpuTypeOK, NEW iss, NEW q, NEW s \in Streams, NEW t \in QueueTypes, Good(iss, q, s, t),
           NEW async \in BOOLEAN, NEW o, Newest(iss, q, s, o, [type |-> t, async |-> async]),
           q.timelineCtr + 1 < CtrModulus
    PROVE  LET r == EndOp(q, s, async, t)
           IN  Good(iss, r, s, t) /\ r.timelineCtr = q.timelineCtr + 1
<1> DEFINE next == AdvanceTimeline(q)
           noted == SignalNotify(next, Timeline(s), next.timelineCtr, t)
           n == q.timelineCtr + 1
<1>9. /\ o \in Ops /\ o[1] = s /\ o[2] + 1 = q.timelineCtr
      /\ o[2] <= Len(iss[s]) /\ iss[s][o[2]] = [type |-> t, async |-> async]
      /\ Comes(Line(q), Len(Line(q)) + 1, Busy(q), o)
  BY DEF Newest
<1> USE <1>9
<1>1. q \in NvCommandQueue /\ q.currentQueueType = t /\ q.timelineCtr \in Nat
  BY CounterIsNat DEF Good, NvCommandQueue
<1>2. (q.timelineCtr + 1) % CtrModulus = n /\ n \in Counter /\ n \in Nat
  BY <1>1, NoWrap, CtrAssumption DEF Counter
<1>3. /\ next \in NvCommandQueue /\ next.buf = q.buf /\ next.backlog = q.backlog
      /\ next.currentQueueType = t /\ next.timelineCtr = n
  BY <1>1, <1>2 DEF AdvanceTimeline, NvCommandQueue
<1> HIDE DEF next
<1>4. Line(next) = Line(q) /\ Sure(next, s) = Sure(q, s) /\ Busy(next) = Busy(q)
  BY <1>1, <1>3 DEF Line, Front, Sure, Busy, Last
<1>5. \A p \in Upto(s, n) : p \in Upto(s, q.timelineCtr) \/ p = o
  BY <1>1, <1>2, OpFields DEF Upto
<1>6. BacklogSound(iss, next, s, 1, 0) /\ next.buf[Other(t)] = <<>>
  BY <1>3 DEF Good, BacklogSound
<1>7. CASE async
  <2>1. Present(iss, Line(q), t, Sure(q, s), Busy(q), o)
    BY <1>7 DEF Present
  <2>2. RestSound(iss, next, s)
    BY <1>1, <1>3, <1>4, <1>5, <2>1 DEF Good, RestSound, Sound, Covered
  <2>3. Good(iss, next, s, t)
    BY <1>3, <1>6, <2>2 DEF Good
  <2> DEFINE r == [next EXCEPT !.timelineNotifyPending = TRUE]
  <2>4. /\ r \in NvCommandQueue /\ r.buf = next.buf /\ r.backlog = next.backlog
        /\ r.currentQueueType = next.currentQueueType /\ r.timelineCtr = next.timelineCtr
    BY <1>3 DEF NvCommandQueue
  <2>5. EndOp(q, s, async, t) = r
    BY <1>7 DEF EndOp, next
  <2> HIDE DEF r
  <2> QED
    BY <1>3, <2>3, <2>4, <2>5, SameLine
<1>8. CASE ~async
  <2> DEFINE cmd == [kind |-> "release", sig |-> Timeline(s), payload |-> n]
             r == [noted EXCEPT !.timelineNotifyPending = FALSE]
             seq == Line(q)
             D == Sure(q, s)
             R == Busy(q)
  <2>1. cmd \in Command
    BY <1>2, CommandTypes, TimelineIsSignal
  <2>2. ~IsWork(cmd) /\ cmd.kind = "release" /\ cmd.sig = Timeline(s) /\ cmd.payload = n
    BY DEF IsWork
  <2>3. noted = Enqueue(next, cmd, t)
    BY <1>3 DEF SignalNotify
  <2>4. EndOp(q, s, async, t) = r
    BY <1>8 DEF EndOp, next
  <2> HIDE DEF cmd, noted
  <2>5. seq \in Seq(Command)
    BY <1>1, LineTyped
  <2>6. \A p \in Upto(s, q.timelineCtr) : p \in D \/ Comes(seq, Len(seq) + 1, R, p)
    BY CoveredComes
  <2>7. Fits(iss, cmd, seq, Len(seq) + 1, t, D, R)
    BY <1>5, <2>2, <2>6, TimelineOfOp DEF Fits
  <2>8. /\ noted \in NvCommandQueue
        /\ noted.backlog = q.backlog
        /\ noted.currentQueueType = t
        /\ noted.timelineCtr = n
        /\ noted.buf[t] = Append(q.buf[t], cmd)
        /\ noted.buf[Other(t)] = <<>>
    BY <1>3, <1>6, <2>1, <2>3, EnqueueTyped, OtherType DEF Enqueue, NvCommandQueue
  <2>9. /\ Line(noted) = Append(seq, cmd) /\ Sure(noted, s) = D /\ Busy(noted) = R
    <3>1. q.buf[t] \in Seq(Command) /\ Front(q) \in Seq(Command)
      BY <1>1 DEF NvCommandQueue, Front, GpuTypeOK
    <3>2. \A a, b \in Seq(Command) : a \o Append(b, cmd) = Append(a \o b, cmd)
      BY <2>1
    <3> QED
      BY <1>1, <2>8, <3>1, <3>2 DEF Line, Front, Sure, Busy, Last
  <2> HIDE DEF seq, D, R
  <2>10. LET l == Append(seq, cmd)
         IN  /\ Ordered(iss, l, t, D, R)
             /\ \A p : Present(iss, seq, t, D, R, p) => Present(iss, l, t, D, R, p)
             /\ \A p : Comes(seq, Len(seq) + 1, R, p) =>
                   \/ p \in D
                   \/ /\ Comes(l, Len(l) + 1, R, p)
                      /\ Released(l, Len(l) + 1, R, p)
    BY <1>1, <2>1, <2>2, <2>5, <2>7, AppendedSound DEF Good, RestSound, Sound, seq, D, R
  <2>11. Present(iss, Append(seq, cmd), t, D, R, o)
    BY <2>10 DEF Present, Over, seq, R
  <2>12. \A p \in Upto(s, q.timelineCtr) : Present(iss, seq, t, D, R, p)
    BY <1>1 DEF Good, RestSound, Sound, Covered, seq, D, R
  <2>13. Covered(iss, Append(seq, cmd), t, D, R, s, n)
    BY <1>5, <2>10, <2>11, <2>12 DEF Covered
  <2>14. RestSound(iss, noted, s)
    BY <2>8, <2>9, <2>10, <2>13 DEF RestSound, Sound
  <2>15. Good(iss, noted, s, t)
    BY <1>6, <1>3, <2>8, <2>14 DEF Good, BacklogSound
  <2>16. /\ r \in NvCommandQueue /\ r.buf = noted.buf /\ r.backlog = noted.backlog
         /\ r.currentQueueType = noted.currentQueueType /\ r.timelineCtr = noted.timelineCtr
    BY <2>8 DEF NvCommandQueue
  <2> HIDE DEF r
  <2> QED
    BY <2>4, <2>8, <2>15, <2>16, SameLine
<1> QED
  BY <1>7, <1>8

-----------------------------------------------------------------------------
(* The queue of a stream.                                                  *)

OneBuffer(q) == \A t \in QueueTypes : q.buf[t] # <<>> => q.currentQueueType = t

\* q keeps the order of s, its pieces from the k-th on still to be submitted.
QueueSound(iss, q, s, k, waits) ==
    /\ OneBuffer(q)
    /\ q.currentQueueType = "OTHER" => q.backlog = <<>> /\ iss[s] = <<>>
    /\ BacklogSound(iss, q, s, k, waits)
    /\ q.currentQueueType \in QueueTypes => RestSound(iss, q, s)

LEMMA GoodSound ==
    ASSUME NEW iss, NEW q, NEW s, NEW t \in QueueTypes, Good(iss, q, s, t)
    PROVE  QueueSound(iss, q, s, 1, 0)
<1>1. OneBuffer(q)
  BY DEF Good, OneBuffer, Other, QueueTypes
<1>2. q.currentQueueType = t /\ t # "OTHER"
  BY DEF Good, QueueTypes
<1> QED
  BY <1>1, <1>2 DEF Good, QueueSound

LEMMA SoundGood ==
    ASSUME NEW iss, NEW q \in NvCommandQueue, NEW s, NEW t \in QueueTypes,
           QueueSound(iss, q, s, 1, 0), q.currentQueueType = t
    PROVE  Good(iss, q, s, t)
<1>1. q.buf[Other(t)] = <<>>
  BY OtherType DEF QueueSound, OneBuffer
<1> QED
  BY <1>1 DEF QueueSound, Good

\* An empty line.
LEMMA EmptySound ==
    /\ \A iss, t, D, R : Ordered(iss, <<>>, t, D, R)
    /\ <<>> \o <<>> = <<>>
    /\ \A seq \in Seq(Command) : <<>> \o seq = seq /\ seq \o <<>> = seq
<1>1. <<>> \in Seq(Command) /\ DOMAIN <<>> = {}
  OBVIOUS
<1>2. \A seq \in Seq(Command) : <<>> \o seq = seq /\ seq \o <<>> = seq
  BY ConcatEmptySeq
<1> QED
  BY <1>1, <1>2 DEF Ordered

\* With nothing after the last piece of the backlog, all depends on that piece.
LEMMA EmptyRestSound ==
    ASSUME NEW iss, NEW q \in NvCommandQueue, NEW s, q.backlog # <<>>,
           q.buf[q.currentQueueType] = <<>>, Last(q).timelineCtr = q.timelineCtr
    PROVE  RestSound(iss, q, s)
<1>1. Line(q) = <<>> /\ Sure(q, s) = Upto(s, q.timelineCtr)
  BY EmptySound DEF Line, Front, Sure
<1> QED
  BY <1>1, EmptySound DEF RestSound, Sound, Covered, Present

\* The buffer that moves to the backlog becomes its last piece.
LEMMA BacklogGood ==
    ASSUME NEW iss, NEW q \in NvCommandQueue, NEW s, NEW t \in QueueTypes,
           q.currentQueueType = t, q.buf[t] # <<>>,
           BacklogSound(iss, q, s, 1, 0), RestSound(iss, q, s)
    PROVE  LET r == BacklogCurrentCmdBuffer(q, t)
           IN  /\ BacklogSound(iss, r, s, 1, 0)
               /\ r \in NvCommandQueue
               /\ r.backlog # <<>>
               /\ Last(r).timelineCtr = q.timelineCtr
               /\ r.timelineCtr = q.timelineCtr
               /\ r.buf[t] = <<>>
               /\ r.buf[Other(t)] = q.buf[Other(t)]
               /\ r.currentQueueType = t
<1> DEFINE r == BacklogCurrentCmdBuffer(q, t)
           piece == [buf |-> q.buf[t], type |-> t,
                     timelineCtr |-> q.timelineCtr,
                     timelineNotifyPending |-> q.timelineNotifyPending]
           n == Len(q.backlog) + 1
<1>1. /\ r \in NvCommandQueue /\ r.currentQueueType = t
      /\ r.buf[t] = <<>> /\ r.buf[Other(t)] = q.buf[Other(t)]
      /\ r.backlog # <<>>
  BY BacklogTyped
<1>2. r.backlog = Append(q.backlog, piece) /\ r.timelineCtr = q.timelineCtr
  BY DEF BacklogCurrentCmdBuffer, NvCommandQueue
<1>3. q.backlog \in Seq(Split) /\ piece \in Split
  BY DEF NvCommandQueue, Split
<1>4. piece.buf = q.buf[t] /\ piece.type = t /\ piece.timelineCtr = q.timelineCtr
  OBVIOUS
<1> HIDE DEF r, piece
<1>5. /\ Len(q.backlog) \in Nat
      /\ \A i \in 1..Len(q.backlog) : r.backlog[i] = q.backlog[i]
      /\ r.backlog[n] = piece
      /\ Len(r.backlog) = n
  <2>1. /\ Len(q.backlog) \in Nat
        /\ \A i \in 1..Len(q.backlog) : r.backlog[i] = q.backlog[i]
        /\ r.backlog[n] = piece
    BY <1>2, <1>3, AppendIndices
  <2>2. Len(r.backlog) = n
    BY <1>2, <1>3
  <2> QED
    BY <2>1, <2>2
<1>6. Last(r).timelineCtr = q.timelineCtr
  BY <1>4, <1>5 DEF Last
<1>7. CASE q.backlog = <<>>
  <2>1. n = 1
    BY <1>7
  <2>2. InLine(iss, piece, s)
    BY <1>4, <1>7 DEF InLine, RestSound, Line, Front, Sure, Busy
  <2>3. BacklogSound(iss, r, s, 1, 0)
    BY <1>5, <2>1, <2>2 DEF BacklogSound
  <2> QED
    BY <1>1, <1>2, <1>6, <2>3 DEF r
<1>8. CASE q.backlog # <<>>
  <2>1. n # 1 /\ n - 1 = Len(q.backlog) /\ Len(q.backlog) >= 1
    BY <1>3, <1>8
  <2>2. Behind(iss, piece, s, q.backlog[Len(q.backlog)].timelineCtr)
    BY <1>4, <1>8 DEF Behind, RestSound, Line, Front, Sure, Busy, Last
  <2>3. ASSUME NEW j \in 1..Len(r.backlog)
        PROVE  IF j = 1 THEN InLine(iss, r.backlog[j], s)
                        ELSE Behind(iss, r.backlog[j], s, r.backlog[j - 1].timelineCtr)
    <3>1. CASE j = n
      <4>1. r.backlog[j - 1] = q.backlog[Len(q.backlog)]
        BY <1>5, <2>1, <3>1
      <4> QED
        BY <1>5, <2>1, <2>2, <3>1, <4>1
    <3>2. CASE j # n
      <4>1. j \in 1..Len(q.backlog) /\ (j # 1 => j - 1 \in 1..Len(q.backlog))
        BY <1>5, <3>2
      <4>2. r.backlog[j] = q.backlog[j] /\ (j # 1 => r.backlog[j - 1] = q.backlog[j - 1])
        BY <1>5, <4>1
      <4> QED
        BY <4>1, <4>2 DEF BacklogSound
    <3> QED
      BY <3>1, <3>2
  <2>4. BacklogSound(iss, r, s, 1, 0)
    BY <2>3 DEF BacklogSound
  <2> QED
    BY <1>1, <1>2, <1>6, <2>4 DEF r
<1> QED
  BY <1>7, <1>8

\* A queue that turns to the other channel leaves its work in the backlog; if
\* it has none left, everything issued on the stream is complete.
LEMMA SwitchToGood ==
    ASSUME GpuTypeOK, NEW iss, NEW q \in NvCommandQueue, NEW s, NEW t \in QueueTypes,
           QueueSound(iss, q, s, 1, 0),
           Ordered(iss, fifo[t], t, done, Underway(t)),
           q.currentQueueType # t /\ q.backlog = <<>> /\ q.buf[Other(t)] = <<>>
               => Upto(s, q.timelineCtr) \subseteq done
    PROVE  Good(iss, SwitchTo(q, t), s, t) /\ SwitchTo(q, t).timelineCtr = q.timelineCtr
<1> DEFINE u == Other(t)
<1>1. u \in QueueTypes /\ u # t /\ Other(u) = t
  BY OtherType
<1> HIDE DEF u
<1>2. CASE q.buf[u] # <<>>
  <2> DEFINE moved == BacklogCurrentCmdBuffer(q, u)
             r == [moved EXCEPT !.currentQueueType = t]
  <2>1. q.currentQueueType = u /\ q.buf[t] = <<>>
    BY <1>1, <1>2 DEF QueueSound, OneBuffer
  <2>2. SwitchTo(q, t) = r
    BY <1>2, <2>1 DEF SwitchTo, u
  <2>3. /\ BacklogSound(iss, moved, s, 1, 0)
        /\ moved \in NvCommandQueue
        /\ moved.backlog # <<>>
        /\ Last(moved).timelineCtr = q.timelineCtr
        /\ moved.timelineCtr = q.timelineCtr
        /\ moved.buf[u] = <<>>
        /\ moved.buf[t] = <<>>
    <3>1. BacklogSound(iss, q, s, 1, 0) /\ RestSound(iss, q, s)
      BY <1>1, <2>1 DEF QueueSound
    <3> QED
      BY <1>1, <1>2, <2>1, <3>1, BacklogGood
  <2> HIDE DEF moved
  <2>4. /\ r \in NvCommandQueue /\ r.buf = moved.buf /\ r.backlog = moved.backlog
        /\ r.currentQueueType = t /\ r.timelineCtr = moved.timelineCtr
    BY <2>3 DEF NvCommandQueue
  <2> HIDE DEF r
  <2>5. RestSound(iss, r, s)
    BY <2>3, <2>4, EmptyRestSound DEF Last
  <2>6. BacklogSound(iss, r, s, 1, 0)
    BY <2>3, <2>4 DEF BacklogSound
  <2> QED
    BY <2>2, <2>3, <2>4, <2>5, <2>6 DEF Good, u
<1>3. CASE q.buf[u] = <<>>
  <2> DEFINE r == [q EXCEPT !.currentQueueType = t]
  <2>1. SwitchTo(q, t) = r
    BY <1>1, <1>3 DEF SwitchTo, u
  <2>2. /\ r \in NvCommandQueue /\ r.buf = q.buf /\ r.backlog = q.backlog
        /\ r.currentQueueType = t /\ r.timelineCtr = q.timelineCtr
    BY DEF NvCommandQueue
  <2> HIDE DEF r
  <2>3. BacklogSound(iss, r, s, 1, 0)
    BY <2>2 DEF QueueSound, BacklogSound
  <2>4. RestSound(iss, r, s)
    <3>1. CASE q.currentQueueType = t
      BY <2>2, <3>1 DEF QueueSound, RestSound, Line, Front, Sure, Busy, Last
    <3>2. CASE q.currentQueueType # t /\ q.backlog = <<>>
      <4>1. q.buf[t] = <<>>
        BY <3>2 DEF QueueSound, OneBuffer
      <4>2. Line(r) = fifo[t] /\ Sure(r, s) = done /\ Busy(r) = Underway(t)
        BY <2>2, <3>2, <4>1, EmptySound DEF Line, Front, Sure, Busy, GpuTypeOK
      <4>3. Upto(s, q.timelineCtr) \subseteq done
        BY <1>3, <3>2 DEF u
      <4> QED
        BY <2>2, <4>2, <4>3 DEF RestSound, Sound, Covered, Present
    <3>3. CASE q.currentQueueType # t /\ q.backlog # <<>>
      <4>1. q.currentQueueType = u /\ q.buf[t] = <<>>
        BY <1>1, <3>3 DEF QueueSound, OneBuffer, NvCommandQueue, QueueTypes
      <4>2. Line(q) = <<>> /\ Line(r) = <<>> /\ Sure(r, s) = Sure(q, s)
            /\ Busy(q) = {} /\ Busy(r) = {}
        BY <1>3, <2>2, <3>3, <4>1, EmptySound DEF Line, Front, Sure, Busy, Last
      <4>3. \A o : ~Comes(<<>>, Len(<<>>) + 1, {}, o)
        BY DEF Comes
      <4>4. \A o \in Upto(s, q.timelineCtr) : o \in Sure(q, s)
        BY <1>1, <4>1, <4>2, <4>3 DEF QueueSound, RestSound, Sound, Covered, Present
      <4> QED
        BY <2>2, <4>2, <4>4, EmptySound DEF RestSound, Sound, Covered, Present
    <3> QED
      BY <3>1, <3>2, <3>3
  <2> QED
    BY <1>3, <2>1, <2>2, <2>3, <2>4 DEF Good, u
<1> QED
  BY <1>2, <1>3

-----------------------------------------------------------------------------
(* The inductive invariant.                                                *)

\* The piece of the backlog of s that Commence is waiting for.
Expected(s) == IF cpu.at = "wait" /\ cpu.stream = s THEN cpu.entry ELSE 0

StreamsSound ==
    \A s \in Streams : QueueSound(issued, queue[s], s, Cursor(s), Expected(s))

ChannelsSound ==
    \A t \in QueueTypes : Ordered(issued, fifo[t], t, done, Underway(t))

\* A value of a timeline vouches for the operations before it.
ValuesSound ==
    \A o \in Ops : o[2] + 2 <= value[Timeline(o[1])] => o \in done

StartedSound ==
    \A o \in Started : \A p \in Ops : Precedes(issued, p, o) => p \in done

AllDone(s) == \A o \in Ops : o[1] = s /\ o[2] <= Len(issued[s]) => o \in done

\* What the program has commenced and not awaited is of the current type;
\* without any, the stream is at rest.
AwaitsSound ==
    \A s \in Streams :
        /\ queue[s].backlog = <<>> => unawaited[s] \subseteq {queue[s].currentQueueType}
        /\ unawaited[s] = {} /\ ~Batch(s) => AllDone(s)

InUse(s) == state[s] \in {"alive", "destroyed"}

\* The counter of a stream is ahead of its operations by the two releases of
\* its creation.
CountersSound ==
    /\ \A s \in Streams :
          /\ InUse(s) => queue[s].timelineCtr = Len(issued[s]) + 2
          /\ ~InUse(s) => /\ issued[s] = <<>>
                          /\ unawaited[s] = {}
                          /\ queue[s].backlog = <<>>
                          /\ \A t \in QueueTypes : queue[s].buf[t] = <<>>
          /\ cpu.at = "initCompute" /\ cpu.stream = s => queue[s].timelineCtr = 1
          /\ cpu.at = "initDma" /\ cpu.stream = s => queue[s].timelineCtr = 2
    /\ cpu.at \in {"initCompute", "initDma"} => state[cpu.stream] = "creating"
    /\ cpu.at \in {"submit", "wait", "await"} => state[cpu.stream] = "alive"

OrderInv ==
    /\ StreamsSound
    /\ ChannelsSound
    /\ ValuesSound
    /\ StartedSound
    /\ AwaitsSound
    /\ CountersSound

\* The rules and bounds under which the order is kept: the program awaits its
\* stream before it turns to the other channel, no submission is refused, and
\* the counter stays below its wrap.
Orderly ==
    /\ "await before switch" \in ClientRules
    /\ "submit" \notin Faults
    /\ MaxOps + 2 < CtrModulus

-----------------------------------------------------------------------------
(* The GPU.                                                                *)

\* A queue is as sound as its pieces.
LEMMA QueueLater ==
    ASSUME NEW iss, NEW iss2, NEW s, iss2[s] = iss[s],
           NEW q \in NvCommandQueue, NEW k \in Nat \ {0}, NEW w,
           \A piece \in Split : InLine(iss, piece, s) => InLine(iss2, piece, s)',
           \A piece \in Split : \A base : Behind(iss, piece, s, base) => Behind(iss2, piece, s, base)
    PROVE  QueueSound(iss, q, s, k, w) => QueueSound(iss2, q, s, k, w)'
<1> SUFFICES ASSUME QueueSound(iss, q, s, k, w)
             PROVE  QueueSound(iss2, q, s, k, w)'
  OBVIOUS
<1>1. /\ OneBuffer(q)
      /\ q.currentQueueType = "OTHER" => q.backlog = <<>> /\ iss2[s] = <<>>
  BY DEF QueueSound
<1>2. BacklogSound(iss2, q, s, k, w)'
  <2> SUFFICES ASSUME NEW j \in k..Len(q.backlog)
               PROVE  IF j = k /\ w = 0
                        THEN InLine(iss2, q.backlog[j], s)'
                        ELSE Behind(iss2, q.backlog[j], s, q.backlog[j - 1].timelineCtr)
    BY DEF BacklogSound, Behind
  <2>1. q.backlog[j] \in Split
    BY DEF NvCommandQueue
  <2>2. IF j = k /\ w = 0
          THEN InLine(iss, q.backlog[j], s)
          ELSE Behind(iss, q.backlog[j], s, q.backlog[j - 1].timelineCtr)
    BY DEF QueueSound, BacklogSound
  <2> QED
    BY <2>1, <2>2
<1>3. ASSUME q.currentQueueType \in QueueTypes
      PROVE  RestSound(iss2, q, s)'
  <2> DEFINE piece == [buf |-> q.buf[q.currentQueueType], type |-> q.currentQueueType,
                       timelineCtr |-> q.timelineCtr,
                       timelineNotifyPending |-> q.timelineNotifyPending]
  <2>1. piece \in Split
    BY <1>3 DEF NvCommandQueue, Split
  <2>2. /\ piece.buf = q.buf[q.currentQueueType]
        /\ piece.type = q.currentQueueType
        /\ piece.timelineCtr = q.timelineCtr
    OBVIOUS
  <2> HIDE DEF piece
  <2>3. RestSound(iss, q, s)
    BY <1>3 DEF QueueSound
  <2>4. CASE q.backlog = <<>>
    <3>1. InLine(iss, piece, s)
      BY <2>2, <2>3, <2>4 DEF InLine, RestSound, Line, Front, Sure, Busy
    <3>2. InLine(iss2, piece, s)'
      BY <2>1, <3>1
    <3> QED
      BY <2>2, <2>4, <3>2 DEF InLine, RestSound, Line, Front, Sure, Busy
  <2>5. CASE q.backlog # <<>>
    <3>1. Behind(iss, piece, s, Last(q).timelineCtr)
      BY <2>2, <2>3, <2>5 DEF Behind, RestSound, Line, Front, Sure, Busy
    <3>2. Behind(iss2, piece, s, Last(q).timelineCtr)
      BY <2>1, <3>1
    <3> QED
      BY <2>2, <2>5, <3>2 DEF Behind, RestSound, Line, Front, Sure, Busy, Last
  <2> QED
    BY <2>4, <2>5
<1> QED
  BY <1>1, <1>2, <1>3 DEF QueueSound, OneBuffer

LEMMA SplitFields ==
    \A piece \in Split : piece.type \in QueueTypes /\ piece.buf \in Seq(Command)
BY DEF Split

LEMMA HeadOfLine ==
    ASSUME NEW a \in Seq(Command), a # <<>>, NEW b \in Seq(Command)
    PROVE  /\ a \o b \in Seq(Command)
           /\ a \o b # <<>>
           /\ Head(a \o b) = Head(a)
           /\ Tail(a \o b) = Tail(a) \o b
OBVIOUS

\* A channel takes its first command.
LEMMA TakeSound ==
    ASSUME GpuTypeOK, NEW c \in QueueTypes, fifo[c] # <<>>, Take(c), done' = done,
           \A u \in QueueTypes \ {c} : Underway(u)' = Underway(u),
           Underway(c) \subseteq Underway(c)',
           MayTake(Head(fifo[c]), done, Underway(c), Underway(c)')
    PROVE  /\ \A iss, s : \A piece \in Split : InLine(iss, piece, s) => InLine(iss, piece, s)'
           /\ issued' = issued /\ ChannelsSound => ChannelsSound'
<1>1. /\ fifo[c] \in Seq(Command) /\ fifo'[c] = Tail(fifo[c])
      /\ \A u \in QueueTypes \ {c} : fifo'[u] = fifo[u]
  BY DEF GpuTypeOK, Take
<1>2. PICK R2 : R2 = Underway(c)'
  OBVIOUS
<1>3. Underway(c) \subseteq R2 /\ MayTake(Head(fifo[c]), done, Underway(c), R2)
  BY <1>2
<1>4. ASSUME NEW iss, NEW s, NEW piece \in Split, InLine(iss, piece, s)
      PROVE  InLine(iss, piece, s)'
  <2>1. piece.type \in QueueTypes /\ piece.buf \in Seq(Command)
    BY SplitFields
  <2>2. CASE piece.type # c
    BY <1>1, <1>4, <2>1, <2>2 DEF InLine
  <2>3. CASE piece.type = c
    <3> DEFINE seq == fifo[c] \o piece.buf
    <3>1. /\ seq \in Seq(Command) /\ seq # <<>>
          /\ Head(seq) = Head(fifo[c]) /\ Tail(seq) = fifo'[c] \o piece.buf
      BY <1>1, <2>1, HeadOfLine
    <3>2. Sound(iss, seq, c, done, Underway(c), s, piece.timelineCtr)
      BY <1>4, <2>3 DEF InLine
    <3> HIDE DEF seq
    <3>3. Sound(iss, Tail(seq), c, done, R2, s, piece.timelineCtr)
      BY <1>3, <3>1, <3>2, TakenSound DEF Sound
    <3> QED
      BY <1>2, <2>3, <3>1, <3>3 DEF InLine
  <2> QED
    BY <2>2, <2>3
<1>5. ASSUME issued' = issued, ChannelsSound, NEW t \in QueueTypes
      PROVE  Ordered(issued, fifo[t], t, done, Underway(t))'
  <2>1. Ordered(issued, fifo[t], t, done, Underway(t))
    BY <1>5 DEF ChannelsSound
  <2>2. CASE t # c
    BY <1>1, <1>5, <2>1, <2>2
  <2>3. CASE t = c
    <3>1. PICK iss : iss = issued
      OBVIOUS
    <3>2. Ordered(iss, Tail(fifo[c]), c, done, R2)
      BY <1>1, <1>3, <2>1, <2>3, <3>1, TakenSound
    <3> QED
      BY <1>1, <1>2, <1>5, <2>3, <3>1, <3>2
  <2> QED
    BY <2>2, <2>3
<1> QED
  BY <1>4, <1>5 DEF ChannelsSound

\* Operations complete.
LEMMA LaterChannels ==
    ASSUME GpuTypeOK, fifo' = fifo,
           \A u \in QueueTypes : Later(done, Underway(u), done', Underway(u)')
    PROVE  /\ \A iss, s : \A piece \in Split : InLine(iss, piece, s) => InLine(iss, piece, s)'
           /\ issued' = issued /\ ChannelsSound => ChannelsSound'
<1>1. ASSUME NEW t \in QueueTypes
      PROVE  \E D2, R2 : D2 = done' /\ R2 = Underway(t)' /\ Later(done, Underway(t), D2, R2)
  OBVIOUS
<1>2. ASSUME NEW iss, NEW s, NEW piece \in Split, InLine(iss, piece, s)
      PROVE  InLine(iss, piece, s)'
  <2>1. piece.type \in QueueTypes /\ piece.buf \in Seq(Command) /\ fifo[piece.type] \in Seq(Command)
    BY SplitFields DEF GpuTypeOK
  <2>2. PICK D2, R2 : D2 = done' /\ R2 = Underway(piece.type)'
                      /\ Later(done, Underway(piece.type), D2, R2)
    BY <1>1, <2>1
  <2>3. fifo[piece.type] \o piece.buf \in Seq(Command)
    BY <2>1
  <2>4. Sound(iss, fifo[piece.type] \o piece.buf, piece.type, D2, R2, s, piece.timelineCtr)
    BY <1>2, <2>2, <2>3, LaterSound DEF InLine, Sound
  <2> QED
    BY <2>2, <2>4 DEF InLine
<1>3. ASSUME issued' = issued, ChannelsSound, NEW t \in QueueTypes
      PROVE  Ordered(issued, fifo[t], t, done, Underway(t))'
  <2>1. Ordered(issued, fifo[t], t, done, Underway(t)) /\ fifo[t] \in Seq(Command)
    BY <1>3 DEF ChannelsSound, GpuTypeOK
  <2>2. PICK D2, R2 : D2 = done' /\ R2 = Underway(t)' /\ Later(done, Underway(t), D2, R2)
    BY <1>1
  <2>3. Ordered(issued, fifo[t], t, D2, R2)
    BY <2>1, <2>2, LaterSound
  <2> QED
    BY <1>3, <2>2, <2>3
<1> QED
  BY <1>2, <1>3 DEF ChannelsSound

LEMMA CursorIsPlace ==
    ASSUME HostTypeOK, NEW s \in Streams
    PROVE  Cursor(s) \in Nat \ {0}
BY CpuFields DEF Cursor

\* What stays in line keeps every stream sound.
LEMMA StreamsLater ==
    ASSUME QueueInv, StreamsSound, UNCHANGED <<queue, issued, cpu>>,
           \A iss, s : \A piece \in Split : InLine(iss, piece, s) => InLine(iss, piece, s)'
    PROVE  StreamsSound'
<1> SUFFICES ASSUME NEW s \in Streams
             PROVE  QueueSound(issued, queue[s], s, Cursor(s), Expected(s))'
  BY DEF StreamsSound
<1>1. PICK iss, q, k, w : iss = issued /\ q = queue[s] /\ k = Cursor(s) /\ w = Expected(s)
  OBVIOUS
<1>2. q \in NvCommandQueue /\ k \in Nat \ {0}
  BY <1>1, CursorIsPlace DEF QueueInv, TypeOK, HostTypeOK
<1>3. QueueSound(iss, q, s, k, w)
  BY <1>1 DEF StreamsSound
<1>4. QueueSound(iss, q, s, k, w)'
  BY <1>2, <1>3, QueueLater
<1>5. issued' = iss /\ queue'[s] = q /\ Cursor(s)' = k /\ Expected(s)' = w
  BY <1>1 DEF Cursor, Expected
<1> QED
  BY <1>4, <1>5

\* What the GPU does completes operations and leaves the rest to the program.
LEMMA HostLater ==
    ASSUME UNCHANGED hostVars, done \subseteq done'
    PROVE  /\ AwaitsSound => AwaitsSound'
           /\ CountersSound => CountersSound'
           /\ StartedSound /\ Started' = Started => StartedSound'
<1>1. UNCHANGED <<queue, issued, cpu, state, unawaited>>
  BY DEF hostVars
<1>2. \A s \in Streams : (Batch(s)' <=> Batch(s)) /\ (AllDone(s) => AllDone(s)')
  BY <1>1 DEF Batch, AllDone
<1>3. AwaitsSound => AwaitsSound'
  BY <1>1, <1>2 DEF AwaitsSound
<1>4. CountersSound => CountersSound'
  BY <1>1 DEF CountersSound, InUse
<1>5. StartedSound /\ Started' = Started => StartedSound'
  BY <1>1 DEF StartedSound
<1> QED
  BY <1>3, <1>4, <1>5

\* Nothing is ahead of the first command of a line.
LEMMA FrontOver ==
    ASSUME NEW seq \in Seq(Command), NEW t, NEW D, NEW R, NEW o
    PROVE  /\ Comes(seq, 1, R, o) => o \in R
           /\ Over(seq, 1, t, D, R, o) => o \in D \/ (t = "DMA" /\ o \in R)
<1>1. \A k \in DOMAIN seq : ~(k < 1)
  BY SeqPlaces
<1>2. Comes(seq, 1, R, o) => o \in R
  BY <1>1, Zenon DEF Comes
<1>3. ~Released(seq, 1, R, o) /\ ~Awaited(seq, 1, o)
  BY <1>1, Zenon DEF Released, Awaited
<1> QED
  BY <1>2, <1>3, Zenon DEF Over

LEMMA HeadFits ==
    ASSUME GpuTypeOK, ChannelsSound, NEW c \in QueueTypes, fifo[c] # <<>>
    PROVE  /\ fifo[c] \in Seq(Command)
           /\ Fits(issued, Head(fifo[c]), fifo[c], 1, c, done, Underway(c))
<1>1. fifo[c] \in Seq(Command) /\ Ordered(issued, fifo[c], c, done, Underway(c))
  BY DEF GpuTypeOK, ChannelsSound
<1>2. 1 \in DOMAIN fifo[c] /\ Head(fifo[c]) = fifo[c][1]
  BY <1>1
<1> QED
  BY <1>1, <1>2 DEF Ordered

\* A kernel or a copy starts.
LEMMA BeginKeepsOrder ==
    ASSUME QueueInv, OrderInv, NEW c \in QueueTypes, fifo[c] # <<>>,
           Begin(c), UNCHANGED hostVars, IsWork(Head(fifo[c])),
           c = "DMA" => running[c] = {}
    PROVE  OrderInv'
<1> DEFINE op == Head(fifo[c]).op
<1>1. /\ GpuTypeOK /\ done' = done /\ value' = value
      /\ UNCHANGED <<queue, issued, cpu>>
  BY DEF QueueInv, TypeOK, Begin, hostVars
<1>2. /\ \A u \in QueueTypes \ {c} : running'[u] = running[u]
      /\ running'[c] = running[c] \cup {[cmd |-> Head(fifo[c]), region |-> localMem]}
  BY <1>1 DEF GpuTypeOK, Begin
<1>3. /\ \A u \in QueueTypes \ {c} : Underway(u)' = Underway(u)
      /\ Underway(c) \subseteq Underway(c)'
      /\ op \in Underway(c)'
  <2> DEFINE task == [cmd |-> Head(fifo[c]), region |-> localMem]
  <2>1. task.cmd.op = op /\ task \in running'[c] /\ running[c] \subseteq running'[c]
    BY <1>2
  <2> HIDE DEF task, op
  <2> QED
    BY <1>2, <2>1 DEF Underway
<1>4. MayTake(Head(fifo[c]), done, Underway(c), Underway(c)')
  BY <1>3 DEF MayTake, IsWork
<1>5. /\ \A iss, s : \A piece \in Split : InLine(iss, piece, s) => InLine(iss, piece, s)'
      /\ ChannelsSound'
  BY <1>1, <1>3, <1>4, TakeSound DEF Begin, OrderInv
<1>6. StreamsSound'
  BY <1>1, <1>5, StreamsLater DEF OrderInv
<1>7. ValuesSound'
  BY <1>1 DEF OrderInv, ValuesSound
<1>8. StartedSound'
  <2>1. Started' = Started \cup {op}
    BY BeginStarts
  <2>2. ASSUME NEW p \in Ops, Precedes(issued, p, op)
        PROVE  p \in done
    <3>1. Over(fifo[c], 1, c, done, Underway(c), p)
      BY <1>1, <2>2, HeadFits DEF OrderInv, Fits
    <3>2. c = "DMA" => p \notin Underway(c)
      BY DEF Underway
    <3> QED
      BY <1>1, <3>1, <3>2, FrontOver DEF GpuTypeOK
  <2> QED
    BY <1>1, <2>1, <2>2 DEF OrderInv, StartedSound
<1> QED
  BY <1>1, <1>5, <1>6, <1>7, <1>8, HostLater DEF OrderInv

\* A channel takes a command that is no operation.
LEMMA OtherTaken ==
    ASSUME QueueInv, OrderInv, NEW c \in QueueTypes, fifo[c] # <<>>, Take(c),
           ~IsWork(Head(fifo[c])), UNCHANGED <<running, done>>, UNCHANGED hostVars,
           Head(fifo[c]).kind = "release" => running[c] = {},
           Head(fifo[c]).kind = "acquire" =>
               value[Head(fifo[c]).sig] = Head(fifo[c]).payload,
           ValuesSound'
    PROVE  OrderInv'
<1>1. /\ GpuTypeOK /\ done' = done
      /\ \A u \in QueueTypes : Underway(u)' = Underway(u)
      /\ UNCHANGED <<queue, issued, cpu>> /\ Started' = Started
  BY DEF QueueInv, TypeOK, hostVars, Underway, Started, Executing
<1>2. MayTake(Head(fifo[c]), done, Underway(c), Underway(c)')
  BY <1>1 DEF MayTake, Underway, OrderInv, ValuesSound
<1>3. /\ \A iss, s : \A piece \in Split : InLine(iss, piece, s) => InLine(iss, piece, s)'
      /\ ChannelsSound'
  BY <1>1, <1>2, TakeSound DEF OrderInv
<1>4. StreamsSound'
  BY <1>1, <1>3, StreamsLater DEF OrderInv
<1> QED
  BY <1>1, <1>3, <1>4, HostLater DEF OrderInv

\* A release makes known only what is complete.
LEMMA ReleaseKeepsOrder ==
    ASSUME QueueInv, OrderInv, NEW c \in QueueTypes, Release(c), UNCHANGED hostVars
    PROVE  OrderInv'
<1> DEFINE cmd == Head(fifo[c])
<1>1. /\ GpuTypeOK /\ fifo[c] # <<>> /\ Take(c) /\ running[c] = {}
      /\ UNCHANGED <<running, done>>
      /\ cmd.kind = "release" /\ ~IsWork(cmd)
      /\ value' = [value EXCEPT ![cmd.sig] = cmd.payload]
  BY DEF QueueInv, TypeOK, Release, NextIs, ChannelIdle, IsWork
<1>2. ASSUME NEW o \in Ops, o[2] + 2 <= value'[Timeline(o[1])]
      PROVE  o \in done
  <2>1. Timeline(o[1]) \in Signals
    BY OpFields, TimelineIsSignal
  <2>2. CASE cmd.sig = Timeline(o[1])
    <3>1. value'[Timeline(o[1])] = cmd.payload
      BY <1>1, <2>1, <2>2 DEF GpuTypeOK
    <3>2. Fits(issued, cmd, fifo[c], 1, c, done, Underway(c)) /\ fifo[c] \in Seq(Command)
      BY <1>1, HeadFits DEF OrderInv
    <3>3. o \in done \/ Comes(fifo[c], 1, Underway(c), o)
      BY <1>1, <1>2, <2>2, <3>1, <3>2 DEF Fits
    <3>4. \A x : x \notin Underway(c)
      BY <1>1 DEF Underway
    <3> QED
      BY <3>2, <3>3, <3>4, FrontOver
  <2>3. CASE cmd.sig # Timeline(o[1])
    BY <1>1, <1>2, <2>1, <2>3 DEF GpuTypeOK, OrderInv, ValuesSound
  <2> QED
    BY <2>2, <2>3
<1>3. ValuesSound'
  BY <1>1, <1>2 DEF ValuesSound
<1> QED
  BY <1>1, <1>3, OtherTaken

\* A kernel or a copy ends.
LEMMA FinishKeepsOrder ==
    ASSUME QueueInv, OrderInv, NEW c \in QueueTypes, Finish(c), UNCHANGED hostVars
    PROVE  OrderInv'
<1>1. PICK task \in running[c] :
          /\ running' = [running EXCEPT ![c] = @ \ {task}]
          /\ done' = done \cup {task.cmd.op}
          /\ UNCHANGED <<fifo, value>>
  BY DEF Finish
<1>2. GpuTypeOK /\ UNCHANGED <<queue, issued, cpu>>
  BY DEF QueueInv, TypeOK, hostVars
<1>3. /\ \A u \in QueueTypes \ {c} : running'[u] = running[u]
      /\ running'[c] = running[c] \ {task}
  BY <1>1, <1>2 DEF GpuTypeOK
<1>4. \A u \in QueueTypes : Later(done, Underway(u), done', Underway(u)')
  BY <1>1, <1>3 DEF Later, Underway
<1>5. /\ \A iss, s : \A piece \in Split : InLine(iss, piece, s) => InLine(iss, piece, s)'
      /\ ChannelsSound'
  BY <1>1, <1>2, <1>4, LaterChannels DEF OrderInv
<1>6. StreamsSound'
  BY <1>2, <1>5, StreamsLater DEF OrderInv
<1>7. ValuesSound'
  BY <1>1 DEF OrderInv, ValuesSound
<1>8. Started' = Started
  BY FinishKeepsStarted
<1> QED
  BY <1>1, <1>5, <1>6, <1>7, <1>8, HostLater DEF OrderInv

LEMMA GpuStepKeepsOrder ==
    ASSUME QueueInv, OrderInv, GpuStep
    PROVE  OrderInv'
<1>1. CASE StartKernel
  BY <1>1, BeginKeepsOrder DEF StartKernel, NextIs, GpuStep, IsWork, QueueTypes
<1>2. CASE StartCopy
  BY <1>2, BeginKeepsOrder DEF StartCopy, NextIs, GpuStep, IsWork, QueueTypes
<1>3. CASE Acquire
  <2>1. ValuesSound'
    BY <1>3 DEF Acquire, OrderInv, ValuesSound
  <2> QED
    BY <1>3, <2>1, OtherTaken DEF Acquire, NextIs, GpuStep, IsWork, QueueTypes
<1>4. CASE SetLocalMem
  <2>1. ValuesSound'
    BY <1>4 DEF SetLocalMem, OrderInv, ValuesSound
  <2> QED
    BY <1>4, <2>1, OtherTaken DEF SetLocalMem, NextIs, GpuStep, IsWork, QueueTypes
<1>5. CASE \E c \in QueueTypes : Release(c)
  BY <1>5, ReleaseKeepsOrder DEF GpuStep
<1>6. CASE \E c \in QueueTypes : Finish(c)
  BY <1>6, FinishKeepsOrder DEF GpuStep
<1> QED
  BY <1>1, <1>2, <1>3, <1>4, <1>5, <1>6
     DEF GpuStep, GpuNext, ComputeTakes, DmaTakes, QueueTypes

-----------------------------------------------------------------------------
(* The program's calls.                                                    *)

\* A stream no call is about stays sound, if its pieces stay in line.
LEMMA StreamLater ==
    ASSUME QueueInv, StreamsSound, NEW iss2, NEW s \in Streams, iss2[s] = issued[s],
           queue'[s] = queue[s], Cursor(s)' = Cursor(s), Expected(s)' = Expected(s),
           \A piece \in Split : InLine(issued, piece, s) => InLine(iss2, piece, s)',
           \A piece \in Split : \A base :
               Behind(issued, piece, s, base) => Behind(iss2, piece, s, base)
    PROVE  QueueSound(iss2, queue[s], s, Cursor(s), Expected(s))'
<1>1. PICK iss, q, k, w : iss = issued /\ q = queue[s] /\ k = Cursor(s) /\ w = Expected(s)
  OBVIOUS
<1>2. q \in NvCommandQueue /\ k \in Nat \ {0}
  BY <1>1, CursorIsPlace DEF QueueInv, TypeOK, HostTypeOK
<1>3. QueueSound(iss, q, s, k, w)
  BY <1>1 DEF StreamsSound
<1>4. QueueSound(iss2, q, s, k, w)'
  BY <1>1, <1>2, <1>3, QueueLater
<1> QED
  BY <1>1, <1>4

LEMMA RememberedPieces ==
    ASSUME GpuTypeOK, NEW iss, NEW iss2, Remembers(iss2, iss),
           \A s \in Streams : Len(iss[s]) \in Nat
    PROVE  \A piece \in Split : \A s :
               /\ InLine(iss, piece, s) => InLine(iss2, piece, s)
               /\ \A base : Behind(iss, piece, s, base) => Behind(iss2, piece, s, base)
<1> SUFFICES ASSUME NEW piece \in Split, NEW s
             PROVE  /\ InLine(iss, piece, s) => InLine(iss2, piece, s)
                    /\ \A base : Behind(iss, piece, s, base) => Behind(iss2, piece, s, base)
  OBVIOUS
<1>1. /\ piece.type \in QueueTypes /\ piece.buf \in Seq(Command)
      /\ fifo[piece.type] \in Seq(Command)
  BY SplitFields DEF GpuTypeOK
<1>2. fifo[piece.type] \o piece.buf \in Seq(Command) /\ <<>> \o piece.buf \in Seq(Command)
  BY <1>1, EmptySound
<1> QED
  BY <1>2, RememberedSound DEF InLine, Behind, Sound

\* A call changes the queue of s, and no more of the stream's commands.
LEMMA QueueChanged ==
    ASSUME QueueInv, Once, OrderInv, NEW s \in Streams, NEW r,
           queue' = [queue EXCEPT ![s] = r], UNCHANGED gpuVars,
           Cursor(s)' = 1, Expected(s)' = 0,
           \A x \in Streams \ {s} : Cursor(x)' = Cursor(x) /\ Expected(x)' = Expected(x),
           NEW iss2, issued' = iss2, Remembers(iss2, issued),
           \A x \in Streams \ {s} : iss2[x] = issued[x],
           QueueSound(iss2, r, s, 1, 0)
    PROVE  StreamsSound' /\ ChannelsSound' /\ ValuesSound' /\ StartedSound'
<1>1. /\ GpuTypeOK /\ queue \in [Streams -> NvCommandQueue]
      /\ \A x \in Streams : Len(issued[x]) \in Nat
      /\ UNCHANGED <<fifo, running, done, value>>
      /\ Started' = Started
  BY GpuVarsKeep DEF QueueInv, TypeOK, HostTypeOK, gpuVars
<1>2. \A t \in QueueTypes : Underway(t)' = Underway(t)
  BY <1>1 DEF Underway
<1>3. PICK iss : iss = issued
  OBVIOUS
<1>4. \A piece \in Split : \A x :
          /\ InLine(iss, piece, x) => InLine(iss2, piece, x)
          /\ \A base : Behind(iss, piece, x, base) => Behind(iss2, piece, x, base)
  BY <1>1, <1>3, RememberedPieces
<1>5. \A piece \in Split : \A x : InLine(iss2, piece, x) => InLine(iss2, piece, x)'
  BY <1>1, <1>2, SplitFields DEF InLine
<1>6. ASSUME NEW x \in Streams \ {s}
      PROVE  QueueSound(iss2, queue[x], x, Cursor(x), Expected(x))'
  <2>1. queue'[x] = queue[x]
    BY <1>1
  <2> QED
    BY <1>3, <1>4, <1>5, <2>1, StreamLater DEF OrderInv
<1>7. QueueSound(iss2, queue[s], s, Cursor(s), Expected(s))'
  <2>1. QueueSound(iss2, r, s, 1, 0)'
    <3>1. OneBuffer(r)
      BY DEF QueueSound
    <3>2. BacklogSound(iss2, r, s, 1, 0)'
      BY <1>1 DEF QueueSound, BacklogSound, InLine, Behind, Underway
    <3>3. r.currentQueueType \in QueueTypes => RestSound(iss2, r, s)'
      BY <1>1 DEF QueueSound, RestSound, Line, Front, Sure, Busy, Underway, Last
    <3> QED
      BY <3>1, <3>2, <3>3 DEF QueueSound, OneBuffer
  <2>2. queue'[s] = r
    BY <1>1
  <2> QED
    BY <2>1, <2>2
<1>8. StreamsSound'
  BY <1>6, <1>7 DEF StreamsSound
<1>9. ChannelsSound'
  <2> SUFFICES ASSUME NEW t \in QueueTypes
               PROVE  Ordered(issued, fifo[t], t, done, Underway(t))'
    BY DEF ChannelsSound
  <2>1. Ordered(iss, fifo[t], t, done, Underway(t)) /\ fifo[t] \in Seq(Command)
    BY <1>1, <1>3 DEF OrderInv, ChannelsSound, GpuTypeOK
  <2>2. Ordered(iss2, fifo[t], t, done, Underway(t))
    BY <1>1, <1>3, <2>1, RememberedSound
  <2> QED
    BY <1>1, <1>2, <2>2
<1>10. ValuesSound'
  BY <1>1 DEF OrderInv, ValuesSound
<1>11. StartedSound'
  <2> SUFFICES ASSUME NEW o \in Started, NEW p \in Ops, Precedes(iss2, p, o)
               PROVE  p \in done
    BY <1>1 DEF StartedSound
  <2>1. o \in Ops
    BY DEF Started, Executing, QueueInv, TypeOK, GpuTypeOK, Task, Launches, Copies
  <2>2. WasIssued(o)
    BY <2>1 DEF Once, OnePlace
  <2>3. o[1] \in Streams /\ o[2] <= Len(issued[o[1]]) /\ p[1] = o[1] /\ p[2] < o[2]
    BY <2>1, <2>2, OpFields DEF WasIssued, Precedes
  <2>4. p[2] <= Len(issued[p[1]])
    BY <1>1, <2>1, <2>3, OpFields
  <2>5. Precedes(issued, p, o)
    BY <2>1, <2>3, <2>4 DEF Remembers, Precedes
  <2> QED
    BY <2>5 DEF OrderInv, StartedSound
<1> QED
  BY <1>8, <1>9, <1>10, <1>11

\* r is q with more in its buffers.
Grows(q, r) ==
    /\ r.backlog = q.backlog
    /\ \A t \in QueueTypes : r.buf[t] = <<>> => q.buf[t] = <<>>

LEMMA GrowsTransitive ==
    ASSUME NEW q, NEW r, NEW v, Grows(q, r), Grows(r, v)
    PROVE  Grows(q, v)
BY DEF Grows

LEMMA EnqueueGrows ==
    ASSUME NEW q \in NvCommandQueue, NEW cmd \in Command, NEW t \in QueueTypes
    PROVE  LET r == Enqueue(q, cmd, t)
           IN  /\ Grows(q, r)
               /\ r.buf[t] # <<>>
               /\ r.currentQueueType = q.currentQueueType
<1>1. q.buf[t] \in Seq(Command)
  BY DEF NvCommandQueue
<1>2. Append(q.buf[t], cmd) # <<>>
  BY <1>1
<1> QED
  BY <1>2 DEF Grows, Enqueue, NvCommandQueue

\* Fields that hold no commands.
LEMMA ScalarFieldsGrow ==
    ASSUME NEW q \in NvCommandQueue
    PROVE  /\ Grows(q, q)
           /\ \A b : Grows(q, [q EXCEPT !.timelineNotifyPending = b])
           /\ \A n : Grows(q, [q EXCEPT !.kernArgsWriteIdx = n])
           /\ \A f : Grows(q, GrownSlm(q, f))
           /\ Grows(q, AdvanceTimeline(q))
           /\ \A left, type : Grows(q, [q EXCEPT !.freeSignals = left,
                                                 !.currentQueueType = type])
BY DEF Grows, NvCommandQueue, GrownSlm, AdvanceTimeline

LEMMA SignalNotifyGrows ==
    ASSUME NEW q \in NvCommandQueue, NEW sig \in Signals, NEW target \in Nat,
           NEW t \in QueueTypes
    PROVE  Grows(q, SignalNotify(q, sig, target, t))
BY CommandTypes, EnqueueGrows DEF SignalNotify

LEMMA EndOpGrows ==
    ASSUME NEW q \in NvCommandQueue, NEW s \in Streams, NEW async \in BOOLEAN,
           NEW t \in QueueTypes
    PROVE  Grows(q, EndOp(q, s, async, t))
<1> DEFINE next == AdvanceTimeline(q)
           noted == SignalNotify(next, Timeline(s), next.timelineCtr, t)
<1>1. next \in NvCommandQueue /\ Grows(q, next)
  BY AdvanceTimelineTyped, ScalarFieldsGrow
<1>2. next.timelineCtr \in Nat /\ Timeline(s) \in Signals
  BY <1>1, CounterIsNat, TimelineIsSignal DEF NvCommandQueue
<1>3. EndOp(q, s, async, t) = IF async THEN [next EXCEPT !.timelineNotifyPending = TRUE]
                                       ELSE [noted EXCEPT !.timelineNotifyPending = FALSE]
  BY DEF EndOp
<1> HIDE DEF next
<1>4. noted \in NvCommandQueue /\ Grows(next, noted)
  BY <1>1, <1>2, SignalNotifyTyped, SignalNotifyGrows
<1> HIDE DEF noted
<1>5. /\ Grows(next, [next EXCEPT !.timelineNotifyPending = TRUE])
      /\ Grows(noted, [noted EXCEPT !.timelineNotifyPending = FALSE])
  BY <1>1, <1>4, ScalarFieldsGrow
<1> QED
  BY <1>1, <1>3, <1>4, <1>5, GrowsTransitive

LEMMA NotifyIfPendingGrows ==
    ASSUME NEW q \in NvCommandQueue, NEW s \in Streams, NEW t \in QueueTypes
    PROVE  LET n == NotifyIfPending(q, s, t)
               r == [n EXCEPT !.timelineNotifyPending = FALSE]
           IN  n \in NvCommandQueue /\ r \in NvCommandQueue /\ Grows(q, r)
<1> DEFINE n == NotifyIfPending(q, s, t)
<1>1. q.timelineCtr \in Nat /\ Timeline(s) \in Signals
  BY CounterIsNat, TimelineIsSignal DEF NvCommandQueue
<1>2. n \in NvCommandQueue /\ Grows(q, n)
  BY <1>1, SignalNotifyTyped, SignalNotifyGrows, ScalarFieldsGrow DEF NotifyIfPending
<1> HIDE DEF n
<1>3. [n EXCEPT !.timelineNotifyPending = FALSE] \in NvCommandQueue
  BY <1>2 DEF NvCommandQueue
<1> QED
  BY <1>2, <1>3, ScalarFieldsGrow, GrowsTransitive DEF n

LEMMA WaitForPreviousGrows ==
    ASSUME NEW q \in NvCommandQueue, NEW s \in Streams, NEW async \in BOOLEAN
    PROVE  Grows(q, WaitForPrevious(q, s, async))
<1> DEFINE n == [NotifyIfPending(q, s, "COMPUTE") EXCEPT !.timelineNotifyPending = FALSE]
           cmd == [kind |-> "acquire", sig |-> Timeline(s), payload |-> q.timelineCtr]
           r == WaitForPrevious(q, s, async)
<1>1. "COMPUTE" \in QueueTypes /\ q.timelineCtr \in Nat /\ Timeline(s) \in Signals
  BY CounterIsNat, TimelineIsSignal DEF NvCommandQueue, QueueTypes
<1>2. n \in NvCommandQueue /\ Grows(q, n)
  BY <1>1, NotifyIfPendingGrows
<1>3. \/ r = q
      \/ r = n
      \/ r = Enqueue(n, cmd, "COMPUTE")
  BY DEF WaitForPrevious, SignalWaitGpu
<1>4. cmd \in Command
  BY <1>1, CommandTypes
<1> HIDE DEF n, cmd, r
<1>5. Grows(n, Enqueue(n, cmd, "COMPUTE"))
  BY <1>1, <1>2, <1>4, EnqueueGrows
<1>6. Grows(q, q) /\ Grows(q, Enqueue(n, cmd, "COMPUTE"))
  BY <1>2, <1>5, ScalarFieldsGrow, GrowsTransitive
<1>7. Grows(q, r)
  BY <1>2, <1>3, <1>6
<1> QED
  BY <1>7 DEF r

LEMMA EnsureEnoughLocalMemGrows ==
    ASSUME HostTypeOK, NEW q \in NvCommandQueue, NEW f \in Funcs
    PROVE  Grows(q, EnsureEnoughLocalMem(q, f).queue)
<1> DEFINE grown == GrownSlm(q, f)
           cmd == [kind |-> "localMem", region |-> Len(slm.size) + 1]
<1>1. grown \in NvCommandQueue /\ Grows(q, grown)
  <2>1. RoundUp(LocalMemReq[f], 32) \in Nat
    BY RoundUpIsNat, FuncAssumption
  <2>2. grown \in NvCommandQueue
    BY <2>1 DEF GrownSlm, NvCommandQueue
  <2> QED
    BY <2>2, ScalarFieldsGrow
<1>2. cmd \in Command /\ "COMPUTE" \in QueueTypes
  BY DEF HostTypeOK, Command, LocalMemSets, QueueTypes
<1>3. \/ EnsureEnoughLocalMem(q, f).queue = q
      \/ EnsureEnoughLocalMem(q, f).queue = Enqueue(grown, cmd, "COMPUTE")
  BY DEF EnsureEnoughLocalMem
<1> HIDE DEF grown, cmd
<1>4. Grows(grown, Enqueue(grown, cmd, "COMPUTE"))
  BY <1>1, <1>2, EnqueueGrows
<1> QED
  BY <1>1, <1>3, <1>4, ScalarFieldsGrow, GrowsTransitive

\* The other buffer goes into the backlog.
LEMMA SwitchToMoves ==
    ASSUME NEW q \in NvCommandQueue, OneBuffer(q), NEW t \in QueueTypes
    PROVE  LET r == SwitchTo(q, t)
           IN  /\ r.backlog = <<>> => q.backlog = <<>> /\ q.buf[Other(t)] = <<>>
               /\ r.backlog = <<>> /\ (\A u \in QueueTypes : r.buf[u] = <<>>)
                    => \A u \in QueueTypes : q.buf[u] = <<>>
<1> DEFINE u == Other(t)
           r == SwitchTo(q, t)
<1>1. u \in QueueTypes /\ u # t /\ Other(u) = t
  BY OtherType
<1> HIDE DEF u
<1>2. CASE q.buf[u] = <<>>
  <2>1. r = [q EXCEPT !.currentQueueType = t]
    BY <1>1, <1>2 DEF SwitchTo, u
  <2>2. r.backlog = q.backlog /\ r.buf = q.buf
    BY <2>1 DEF NvCommandQueue
  <2> QED
    BY <1>2, <2>2 DEF u
<1>3. CASE q.buf[u] # <<>>
  <2> DEFINE moved == BacklogCurrentCmdBuffer(q, u)
  <2>1. q.currentQueueType = u
    BY <1>1, <1>3 DEF OneBuffer
  <2>2. r = [moved EXCEPT !.currentQueueType = t]
    BY <1>3, <2>1 DEF SwitchTo, u
  <2>3. moved \in NvCommandQueue /\ moved.backlog # <<>>
    BY <1>1, <1>3, BacklogTyped
  <2> HIDE DEF moved
  <2>4. r.backlog # <<>>
    BY <2>2, <2>3 DEF NvCommandQueue
  <2> QED
    BY <2>4
<1> QED
  BY <1>2, <1>3

\* A call finds the queue of s with all its pieces still to be submitted.
LEMMA ReadyQueue ==
    ASSUME QueueInv, OrderInv, NEW s \in Streams, Ready(s)
    PROVE  /\ QueueSound(issued, queue[s], s, 1, 0)
           /\ queue[s] \in NvCommandQueue
           /\ queue[s].timelineCtr = Len(issued[s]) + 2
           /\ \A x \in Streams : Cursor(x) = 1 /\ Expected(x) = 0
           /\ Len(issued[s]) \in Nat
           /\ GpuTypeOK /\ HostTypeOK
<1>1. /\ queue[s] \in NvCommandQueue /\ Len(issued[s]) \in Nat
      /\ GpuTypeOK /\ HostTypeOK
  BY DEF QueueInv, TypeOK, HostTypeOK
<1>2. \A x \in Streams : Cursor(x) = 1 /\ Expected(x) = 0
  BY DEF Ready, Idle, Cursor, Expected
<1>3. QueueSound(issued, queue[s], s, 1, 0)
  BY <1>2 DEF OrderInv, StreamsSound
<1>4. queue[s].timelineCtr = Len(issued[s]) + 2
  BY DEF OrderInv, CountersSound, InUse, Ready
<1> QED
  BY <1>1, <1>2, <1>3, <1>4

\* With nothing buffered and nothing to await, all that s has issued is done.
LEMMA NothingAhead ==
    ASSUME QueueInv, OrderInv, NEW s \in Streams, Ready(s), ~Batch(s), unawaited[s] = {}
    PROVE  Upto(s, queue[s].timelineCtr) \subseteq done
<1>1. AllDone(s)
  BY DEF OrderInv, AwaitsSound
<1>2. queue[s].timelineCtr = Len(issued[s]) + 2 /\ Len(issued[s]) \in Nat
  BY ReadyQueue
<1>3. \A o \in Upto(s, queue[s].timelineCtr) : o \in Ops /\ o[1] = s /\ o[2] <= Len(issued[s])
  BY <1>2, OpFields DEF Upto
<1> QED
  BY <1>1, <1>3 DEF AllDone

\* What is commenced and not awaited, when the program may enqueue on t.
LEMMA OnlyThisType ==
    ASSUME QueueInv, OrderInv, NEW s \in Streams, NEW t \in QueueTypes, Ready(s),
           "await before switch" \in ClientRules, MayEnqueue(s, t),
           queue[s].backlog = <<>>, queue[s].buf[Other(t)] = <<>>
    PROVE  /\ unawaited[s] \subseteq {t}
           /\ queue[s].currentQueueType # t => unawaited[s] = {} /\ ~Batch(s)
<1>1. QueueSound(issued, queue[s], s, 1, 0)
  BY ReadyQueue
<1>2. unawaited[s] \subseteq {queue[s].currentQueueType}
  BY DEF OrderInv, AwaitsSound
<1>3. queue[s].buf[t] # <<>> => queue[s].currentQueueType = t
  BY <1>1 DEF QueueSound, OneBuffer
<1>4. Batch(s) => queue[s].buf[t] # <<>>
  BY DEF Batch, Other, QueueTypes
<1> QED
  BY <1>2, <1>3, <1>4 DEF MayEnqueue

LEMMA SwitchedGood ==
    ASSUME QueueInv, OrderInv, NEW s \in Streams, NEW t \in QueueTypes, Ready(s),
           "await before switch" \in ClientRules, MayEnqueue(s, t)
    PROVE  LET r == SwitchTo(queue[s], t)
           IN  /\ Good(issued, r, s, t)
               /\ r.timelineCtr = queue[s].timelineCtr
               /\ r.backlog = <<>> => unawaited[s] \subseteq {t}
               /\ r.backlog = <<>> /\ (\A u \in QueueTypes : r.buf[u] = <<>>) => ~Batch(s)
<1>1. PICK iss, q : iss = issued /\ q = queue[s]
  OBVIOUS
<1>2. /\ GpuTypeOK /\ q \in NvCommandQueue /\ QueueSound(iss, q, s, 1, 0)
  BY <1>1, ReadyQueue
<1>3. Ordered(iss, fifo[t], t, done, Underway(t))
  BY <1>1 DEF OrderInv, ChannelsSound
<1>4. q.currentQueueType # t /\ q.backlog = <<>> /\ q.buf[Other(t)] = <<>>
          => Upto(s, q.timelineCtr) \subseteq done
  BY <1>1, OnlyThisType, NothingAhead
<1>5. Good(iss, SwitchTo(q, t), s, t) /\ SwitchTo(q, t).timelineCtr = q.timelineCtr
  BY <1>2, <1>3, <1>4, SwitchToGood
<1>6. /\ SwitchTo(q, t).backlog = <<>> => q.backlog = <<>> /\ q.buf[Other(t)] = <<>>
      /\ SwitchTo(q, t).backlog = <<>> /\ (\A u \in QueueTypes : SwitchTo(q, t).buf[u] = <<>>)
           => \A u \in QueueTypes : q.buf[u] = <<>>
  BY <1>2, SwitchToMoves DEF QueueSound
<1> QED
  BY <1>1, <1>5, <1>6, OnlyThisType DEF Batch

\* Where the CPU finds that the timeline has met the counter, no command of s is
\* left to wait for.
LEMMA SeenSure ==
    ASSUME QueueInv, Once, OrderInv, NEW s \in Streams, NEW t \in QueueTypes, Ready(s),
           NEW q, Good(issued, q, s, t), Keeps(queue[s], q, 1),
           value[Timeline(s)] = q.timelineCtr
    PROVE  Upto(s, q.timelineCtr) \subseteq Sure(q, s)
<1>1. \A o \in Upto(s, q.timelineCtr) : o \in Ops /\ o \in done
  BY DEF Upto, OrderInv, ValuesSound
<1>2. CASE q.backlog = <<>>
  BY <1>1, <1>2 DEF Sure
<1>3. CASE q.backlog # <<>>
  <2> SUFFICES ASSUME NEW o \in Upto(s, q.timelineCtr), o \notin Sure(q, s)
               PROVE  FALSE
    OBVIOUS
  <2>1. Comes(Line(q), Len(Line(q)) + 1, Busy(q), o)
    BY CoveredComes
  <2>2. q.buf[t] \in Seq(Command) /\ q.currentQueueType = t
    BY DEF Good, NvCommandQueue
  <2>3. Line(q) = q.buf[t] /\ Busy(q) = {}
    BY <1>3, <2>2, EmptySound DEF Line, Front, Busy
  <2>4. Has(q.buf[t], o)
    BY <2>1, <2>3 DEF Comes, Has
  <2>5. Holds(queue[s], 1, o)
    BY <2>4 DEF Holds, Keeps
  <2>6. Waiting(s, o)
    BY <2>5, ReadyQueue DEF Waiting
  <2> QED
    BY <1>1, <2>6 DEF Once, OnePlace, Started
<1> QED
  BY <1>2, <1>3

\* What a launch does first, whether it fails later or not.
LEMMA PreparedGood ==
    ASSUME QueueInv, Once, OrderInv, NEW s \in Streams, NEW f \in Funcs, NEW async \in BOOLEAN,
           MayLaunch(s), "await before switch" \in ClientRules
    PROVE  LET r == Prepared(s, f, async).queue
           IN  /\ Good(issued, r, s, "COMPUTE")
               /\ r.timelineCtr = queue[s].timelineCtr
               /\ ~async => \A o \in Upto(s, r.timelineCtr) : Settled(r, s, o)
               /\ Grows(SwitchTo(queue[s], "COMPUTE"), r)
<1> DEFINE switched == SwitchTo(queue[s], "COMPUTE")
           mem == EnsureEnoughLocalMem(switched, f)
           q == mem.queue
           r == WaitForPrevious(q, s, async)
<1>1. /\ GpuTypeOK /\ HostTypeOK /\ queue[s] \in NvCommandQueue /\ "COMPUTE" \in QueueTypes
      /\ slm \in SlmType /\ Ready(s) /\ MayEnqueue(s, "COMPUTE")
  BY DEF QueueInv, TypeOK, HostTypeOK, QueueTypes, SlmType, MayLaunch
<1>2. Prepared(s, f, async).queue = r
  <2>1. mem = [queue |-> mem.queue, slm |-> mem.slm]
    BY DEF EnsureEnoughLocalMem
  <2>2. Prepared(s, f, async) = [mem EXCEPT !.queue = r]
    BY DEF Prepared
  <2> HIDE DEF mem, r
  <2> QED
    BY <2>1, <2>2
<1>3. /\ Good(issued, switched, s, "COMPUTE")
      /\ switched.timelineCtr = queue[s].timelineCtr
      /\ Keeps(queue[s], switched, 1)
  BY <1>1, SwitchedGood, SwitchToKeeps
<1> HIDE DEF switched
<1>4. switched \in NvCommandQueue
  BY <1>3 DEF Good
<1>5. PICK iss : iss = issued
  OBVIOUS
<1>6. /\ Good(iss, q, s, "COMPUTE") /\ q.timelineCtr = switched.timelineCtr
      /\ Grows(switched, q) /\ Keeps(switched, q, 1)
  BY <1>1, <1>3, <1>4, <1>5, EnsureEnoughLocalMemGood, EnsureEnoughLocalMemGrows,
     EnsureEnoughLocalMemKeeps
<1> HIDE DEF q
<1>7. Keeps(queue[s], q, 1)
  BY <1>3, <1>6, KeepsTransitive
<1>8. value[Timeline(s)] = q.timelineCtr => Upto(s, q.timelineCtr) \subseteq Sure(q, s)
  BY <1>1, <1>5, <1>6, <1>7, SeenSure
<1>9. /\ Good(iss, r, s, "COMPUTE")
      /\ r.timelineCtr = q.timelineCtr
      /\ ~async => \A o \in Upto(s, q.timelineCtr) : Settled(r, s, o)
  BY <1>1, <1>6, <1>8, WaitForPreviousGood
<1>10. q \in NvCommandQueue
  BY <1>6 DEF Good
<1>11. Grows(q, r)
  BY <1>10, WaitForPreviousGrows
<1> HIDE DEF r
<1>12. Grows(switched, r)
  BY <1>6, <1>11, GrowsTransitive
<1> QED
  BY <1>2, <1>3, <1>5, <1>6, <1>9, <1>12 DEF switched

LEMMA RememberedGood ==
    ASSUME GpuTypeOK, NEW iss, NEW iss2, Remembers(iss2, iss),
           \A s \in Streams : Len(iss[s]) \in Nat,
           NEW q, NEW s, NEW t \in QueueTypes, Good(iss, q, s, t)
    PROVE  Good(iss2, q, s, t)
<1>1. q \in NvCommandQueue /\ q.currentQueueType = t
  BY DEF Good
<1>2. Line(q) \in Seq(Command)
  BY <1>1, LineTyped
<1>3. RestSound(iss2, q, s)
  BY <1>2, RememberedSound DEF Good, RestSound, Sound
<1>4. BacklogSound(iss2, q, s, 1, 0)
  <2> SUFFICES ASSUME NEW j \in 1..Len(q.backlog)
               PROVE  IF j = 1 THEN InLine(iss2, q.backlog[j], s)
                               ELSE Behind(iss2, q.backlog[j], s, q.backlog[j - 1].timelineCtr)
    BY DEF BacklogSound
  <2>1. q.backlog[j] \in Split
    BY <1>1 DEF NvCommandQueue
  <2>2. IF j = 1 THEN InLine(iss, q.backlog[j], s)
                 ELSE Behind(iss, q.backlog[j], s, q.backlog[j - 1].timelineCtr)
    BY DEF Good, BacklogSound
  <2> QED
    BY <2>1, <2>2, RememberedPieces
<1> QED
  BY <1>3, <1>4 DEF Good

\* The history of s gains an operation.
History(s, kind) == [issued EXCEPT ![s] = Append(issued[s], kind)]

LEMMA IssuedRemembers ==
    ASSUME HostTypeOK, NEW s \in Streams, NEW kind \in OpKind
    PROVE  LET iss2 == History(s, kind)
           IN  /\ Remembers(iss2, issued)
               /\ \A x \in Streams \ {s} : iss2[x] = issued[x]
               /\ Len(iss2[s]) = Len(issued[s]) + 1
               /\ iss2[s][Len(issued[s]) + 1] = kind
               /\ \A x \in Streams : Len(issued[x]) \in Nat
<1> DEFINE iss2 == History(s, kind)
<1>1. issued \in [Streams -> Seq(OpKind)]
  BY DEF HostTypeOK
<1>2. iss2[s] = Append(issued[s], kind) /\ issued[s] \in Seq(OpKind)
  BY <1>1 DEF History
<1>6. \A x \in Streams \ {s} : iss2[x] = issued[x]
  BY <1>1 DEF History
<1> HIDE DEF iss2
<1>3. /\ \A x \in Streams : Len(issued[x]) \in Nat
      /\ \A x \in Streams \ {s} : iss2[x] = issued[x]
  BY <1>1, <1>6
<1>4. /\ Len(iss2[s]) = Len(issued[s]) + 1
      /\ iss2[s][Len(issued[s]) + 1] = kind
      /\ \A i \in 1..Len(issued[s]) : iss2[s][i] = issued[s][i]
  BY <1>2, AppendIndices
<1>5. Remembers(iss2, issued)
  BY <1>3, <1>4, OpFields DEF Remembers
<1> QED
  BY <1>3, <1>4, <1>5 DEF iss2

\* What EndOp does to the counter.
LEMMA EndOpCounts ==
    ASSUME NEW q \in NvCommandQueue, NEW s \in Streams, NEW async \in BOOLEAN,
           NEW t \in QueueTypes, q.timelineCtr + 1 < CtrModulus
    PROVE  EndOp(q, s, async, t).timelineCtr = q.timelineCtr + 1
<1> DEFINE next == AdvanceTimeline(q)
           noted == SignalNotify(next, Timeline(s), next.timelineCtr, t)
<1>1. q.timelineCtr \in Nat /\ CtrModulus \in Nat
  BY CounterIsNat, CtrAssumption DEF NvCommandQueue
<1>2. (q.timelineCtr + 1) % CtrModulus = q.timelineCtr + 1
  BY <1>1, NoWrap
<1>3. next \in NvCommandQueue /\ next.timelineCtr = q.timelineCtr + 1
  BY <1>2, AdvanceTimelineTyped DEF AdvanceTimeline, NvCommandQueue
<1> HIDE DEF next
<1>4. next.timelineCtr \in Nat /\ Timeline(s) \in Signals
  BY <1>3, CounterIsNat, TimelineIsSignal DEF NvCommandQueue
<1>5. noted \in NvCommandQueue /\ noted.timelineCtr = next.timelineCtr
  BY <1>3, <1>4, SignalNotifyTyped DEF SignalNotify, Enqueue, NvCommandQueue
<1> HIDE DEF noted
<1>6. /\ [next EXCEPT !.timelineNotifyPending = TRUE].timelineCtr = next.timelineCtr
      /\ [noted EXCEPT !.timelineNotifyPending = FALSE].timelineCtr = noted.timelineCtr
  BY <1>3, <1>5 DEF NvCommandQueue
<1> QED
  BY <1>3, <1>5, <1>6 DEF EndOp, next, noted

\* An operation of type t at the end of the line, followed by the timeline
\* release that EndOp adds.
LEMMA OperationAdded ==
    ASSUME QueueInv, MaxOps + 2 < CtrModulus,
           NEW s \in Streams, NEW kind \in OpKind, NEW t \in QueueTypes, t = kind.type,
           Len(issued[s]) < MaxOps,
           NEW q, Good(issued, q, s, t), q.timelineCtr = Len(issued[s]) + 2,
           NEW cmd \in Command, IsWork(cmd), cmd.op = <<s, Len(issued[s]) + 1>>,
           ~kind.async /\ t = "COMPUTE" => \A o \in Upto(s, q.timelineCtr) : Settled(q, s, o),
           NEW iss2, iss2 = History(s, kind),
           NEW r, r = EndOp(Enqueue(q, cmd, t), s, kind.async, t)
    PROVE  /\ Good(iss2, r, s, t)
           /\ r.timelineCtr = Len(iss2[s]) + 2
           /\ Grows(q, r)
           /\ r.buf[t] # <<>>
<1> DEFINE added == Enqueue(q, cmd, t)
           n == Len(issued[s]) + 1
<1>1. GpuTypeOK /\ HostTypeOK
  BY DEF QueueInv, TypeOK
<1>2. kind.async \in BOOLEAN /\ kind = [type |-> t, async |-> kind.async]
  BY DEF OpKind
<1>3. /\ Remembers(iss2, issued)
      /\ Len(iss2[s]) = n
      /\ iss2[s][n] = kind
      /\ \A x \in Streams : Len(issued[x]) \in Nat
  BY <1>1, IssuedRemembers
<1>4. PICK o \in Ops : o = <<s, n>>
  BY <1>1, NextOpIsOp
<1>5. o[1] = s /\ o[2] = n /\ n \in Nat /\ cmd.op = o
  BY <1>1, <1>3, <1>4
<1>6. Good(iss2, q, s, t)
  <2>1. PICK iss : iss = issued
    OBVIOUS
  <2> QED
    BY <1>1, <1>3, <2>1, RememberedGood
<1>7. q \in NvCommandQueue /\ q.currentQueueType = t
  BY <1>6 DEF Good
<1>8. Line(q) \in Seq(Command)
  BY <1>1, <1>7, LineTyped
<1>9. Fitting(iss2, q, s, cmd)
  <2> DEFINE seq == Line(q)
             D == Sure(q, s)
             R == Busy(q)
  <2>1. ASSUME NEW p \in Ops, Precedes(iss2, p, o)
        PROVE  Over(seq, Len(seq) + 1, t, D, R, p)
    <3>1. p[1] = s /\ p[2] < n /\ p[2] \in Nat
      BY <1>5, <2>1, OpFields DEF Precedes
    <3>2. p \in Upto(s, q.timelineCtr)
      BY <1>3, <1>5, <3>1 DEF Upto
    <3>3. Present(iss2, seq, t, D, R, p)
      BY <1>6, <1>7, <3>2 DEF Good, RestSound, Sound, Covered
    <3>4. \/ iss2[p[1]][p[2]].type # t
          \/ ~iss2[p[1]][p[2]].async
          \/ ~kind.async
      BY <1>3, <1>5, <2>1 DEF Precedes
    <3>5. CASE t = "DMA"
      BY <3>3, <3>5, Zenon DEF Present, Over
    <3>6. CASE ~kind.async /\ t = "COMPUTE"
      BY <1>7, <3>2, <3>6 DEF Settled
    <3>7. CASE kind.async
      BY <3>3, <3>4, <3>7, Zenon DEF Present, Over
    <3> QED
      BY <3>5, <3>6, <3>7 DEF QueueTypes
  <2>2. cmd.kind # "release"
    BY DEF IsWork
  <2> HIDE DEF seq, D, R
  <2>3. cmd.op[2] <= Len(iss2[cmd.op[1]])
    BY <1>3, <1>5
  <2>4. Fits(iss2, cmd, seq, Len(seq) + 1, t, D, R)
    BY <1>5, <2>1, <2>2, <2>3, Zenon DEF Fits
  <2> QED
    BY <1>7, <2>4 DEF Fitting, seq, D, R
<1>10. /\ Good(iss2, added, s, t)
       /\ Line(added) = Append(Line(q), cmd)
       /\ Busy(added) = Busy(q)
  BY <1>1, <1>6, <1>9, EnqueueGood
<1>11. Comes(Line(added), Len(Line(added)) + 1, Busy(added), o)
  BY <1>5, <1>6, <1>7, <1>8, <1>9, <1>10, AppendedSound DEF Good, RestSound, Sound, Fitting
<1>12. added.timelineCtr = q.timelineCtr
  BY <1>7 DEF Enqueue, NvCommandQueue
<1>13. Grows(q, added) /\ added.buf[t] # <<>> /\ added \in NvCommandQueue
  BY <1>7, EnqueueGrows, EnqueueTyped
<1>19. PICK async \in BOOLEAN : async = kind.async
  BY <1>2
<1>22. r = EndOp(added, s, async, t)
  BY <1>19
<1> HIDE DEF added
<1>14. o[2] + 1 = added.timelineCtr /\ added.timelineCtr + 1 < CtrModulus
  BY <1>3, <1>5, <1>12, StreamAssumption, CtrAssumption
<1>20. o[2] <= Len(iss2[s]) /\ iss2[s][o[2]] = [type |-> t, async |-> async]
  BY <1>2, <1>3, <1>5, <1>19
<1>21. Newest(iss2, added, s, o, [type |-> t, async |-> async])
  BY <1>4, <1>5, <1>11, <1>14, <1>20 DEF Newest
<1>15. Good(iss2, r, s, t) /\ r.timelineCtr = added.timelineCtr + 1
  <2>1. PICK v : v = added
    OBVIOUS
  <2>2. Good(iss2, v, s, t) /\ Newest(iss2, v, s, o, [type |-> t, async |-> async])
    BY <1>10, <1>21, <2>1
  <2>3. v.timelineCtr + 1 < CtrModulus
    BY <1>14, <2>1
  <2>4. r = EndOp(v, s, async, t)
    BY <1>22, <2>1
  <2>5. Good(iss2, r, s, t)
    BY <1>1, <1>19, <2>2, <2>3, <2>4, EndOpGood
  <2>6. r.timelineCtr = v.timelineCtr + 1
    BY <1>13, <1>19, <2>1, <2>3, <2>4, EndOpCounts
  <2> QED
    BY <2>1, <2>5, <2>6
<1>16. Grows(added, r)
  BY <1>13, <1>22, <1>19, EndOpGrows
<1>17. Grows(q, r) /\ r.buf[t] # <<>>
  BY <1>13, <1>16, GrowsTransitive DEF Grows
<1>18. r.timelineCtr = Len(iss2[s]) + 2
  BY <1>3, <1>5, <1>14, <1>15
<1> QED
  BY <1>15, <1>17, <1>18

\* A call on s that leaves r in place of its queue and iss2 as the history.
LEMMA QueueReplaced ==
    ASSUME QueueInv, Once, OrderInv, NEW s \in Streams, Ready(s), NEW r,
           queue' = [queue EXCEPT ![s] = r],
           UNCHANGED <<gpuVars, cpu, state, unawaited>>,
           NEW iss2, issued' = iss2, Remembers(iss2, issued),
           \A x \in Streams \ {s} : iss2[x] = issued[x],
           QueueSound(iss2, r, s, 1, 0),
           r.timelineCtr = Len(iss2[s]) + 2,
           r.backlog = <<>> => unawaited[s] \subseteq {r.currentQueueType},
           r.backlog = <<>> /\ (\A t \in QueueTypes : r.buf[t] = <<>>)
               => ~Batch(s) /\ iss2[s] = issued[s]
    PROVE  OrderInv'
<1>1. /\ UNCHANGED <<gpuVars, done, cpu, state, unawaited>>
      /\ queue \in [Streams -> NvCommandQueue]
      /\ state[s] = "alive" /\ cpu = Idle
  BY DEF gpuVars, QueueInv, TypeOK, HostTypeOK, Ready
<1>2. \A x \in Streams : Cursor(x) = 1 /\ Expected(x) = 0
  BY ReadyQueue
<1>3. \A x \in Streams : Cursor(x)' = 1 /\ Expected(x)' = 0
  BY <1>1, <1>2 DEF Cursor, Expected
<1>4. StreamsSound' /\ ChannelsSound' /\ ValuesSound' /\ StartedSound'
  BY <1>1, <1>2, <1>3, QueueChanged
<1>5. /\ queue'[s] = r
      /\ \A x \in Streams \ {s} : queue'[x] = queue[x] /\ issued'[x] = issued[x]
  BY <1>1
<1>6. ASSUME NEW x \in Streams \ {s}
      PROVE  /\ Batch(x)' <=> Batch(x)
             /\ AllDone(x)' <=> AllDone(x)
  BY <1>1, <1>5 DEF Batch, AllDone
<1>7. ~Batch(s)' => ~Batch(s) /\ issued'[s] = issued[s]
  BY <1>5 DEF Batch
<1>8. issued'[s] = issued[s] /\ AllDone(s) => AllDone(s)'
  BY <1>1 DEF AllDone
<1>9. AwaitsSound'
  <2> SUFFICES ASSUME NEW x \in Streams
               PROVE  /\ queue'[x].backlog = <<>> => unawaited[x] \subseteq {queue'[x].currentQueueType}
                      /\ unawaited[x] = {} /\ ~Batch(x)' => AllDone(x)'
    BY <1>1 DEF AwaitsSound
  <2>1. CASE x = s
    BY <1>5, <1>7, <1>8, <2>1 DEF OrderInv, AwaitsSound
  <2>2. CASE x # s
    BY <1>5, <1>6, <2>2 DEF OrderInv, AwaitsSound
  <2> QED
    BY <2>1, <2>2
<1>10. CountersSound'
  <2>1. InUse(s) /\ \A x \in Streams : InUse(x)' <=> InUse(x)
    BY <1>1 DEF InUse
  <2>2. cpu'.at = "idle" /\ cpu.at = "idle"
    BY <1>1 DEF Idle
  <2> QED
    BY <1>5, <2>1, <2>2 DEF OrderInv, CountersSound
<1> QED
  BY <1>4, <1>9, <1>10 DEF OrderInv

LEMMA GpuMemcpyKeepsOrder ==
    ASSUME QueueInv, IssuedInv, Once, OrderInv, Orderly,
           NEW s \in Streams, NEW async \in BOOLEAN, GpuMemcpy(s, async)
    PROVE  OrderInv'
<1> DEFINE copy == [kind |-> "copy", op |-> <<s, Len(issued[s]) + 1>>]
           q == SwitchTo(queue[s], "DMA")
<1>1. /\ Ready(s) /\ MayEnqueue(s, "DMA") /\ Len(issued[s]) < MaxOps
      /\ "DMA" \in QueueTypes /\ GpuTypeOK /\ HostTypeOK
      /\ UNCHANGED <<gpuVars, cpu, state, unawaited>>
  BY DEF GpuMemcpy, QueueTypes, QueueInv, TypeOK
<1>2. PICK kind \in OpKind : kind = [type |-> "DMA", async |-> async]
  BY <1>1 DEF OpKind
<1>3. kind \in OpKind /\ kind.type = "DMA"
  BY <1>2
<1>23. kind.async = async
  BY <1>2
<1>4. PICK iss2 : iss2 = History(s, kind)
  OBVIOUS
<1>5. issued' = iss2
  BY <1>2, <1>4 DEF GpuMemcpy, History
<1>6. PICK r : r = EndOp(Enqueue(q, copy, "DMA"), s, kind.async, "DMA")
  OBVIOUS
<1>7. queue' = [queue EXCEPT ![s] = r]
  BY <1>23, <1>6 DEF GpuMemcpy
<1>8. copy \in Command /\ IsWork(copy) /\ copy.op = <<s, Len(issued[s]) + 1>>
  BY <1>1, NextOpIsOp DEF Command, Copies, IsWork
<1>9. /\ Good(issued, q, s, "DMA")
      /\ q.timelineCtr = queue[s].timelineCtr
      /\ q.backlog = <<>> => unawaited[s] \subseteq {"DMA"}
  BY <1>1, SwitchedGood DEF Orderly
<1>10. q.timelineCtr = Len(issued[s]) + 2
  BY <1>1, <1>9, ReadyQueue
<1>15. "DMA" # "COMPUTE" /\ MaxOps + 2 < CtrModulus
  BY DEF Orderly
<1> HIDE DEF q, copy
<1>11. /\ Good(iss2, r, s, "DMA")
       /\ r.timelineCtr = Len(iss2[s]) + 2
       /\ Grows(q, r)
       /\ r.buf["DMA"] # <<>>
  BY <1>1, <1>3, <1>4, <1>6, <1>8, <1>9, <1>10, <1>15, OperationAdded
<1>12. QueueSound(iss2, r, s, 1, 0) /\ r.currentQueueType = "DMA"
  BY <1>1, <1>11, GoodSound DEF Good
<1>13. Remembers(iss2, issued) /\ \A x \in Streams \ {s} : iss2[x] = issued[x]
  BY <1>1, <1>3, <1>4, IssuedRemembers
<1>14. r.backlog = <<>> => unawaited[s] \subseteq {r.currentQueueType}
  BY <1>9, <1>11, <1>12 DEF Grows
<1> QED
  BY <1>1, <1>5, <1>7, <1>11, <1>12, <1>13, <1>14, QueueReplaced

LEMMA LaunchFunctionKeepsOrder ==
    ASSUME QueueInv, IssuedInv, Once, OrderInv, Orderly,
           NEW s \in Streams, NEW f \in Funcs, NEW async \in BOOLEAN,
           LaunchFunction(s, f, async)
    PROVE  OrderInv'
<1> DEFINE p == Prepared(s, f, async).queue
           q == [p EXCEPT !.kernArgsWriteIdx = @ + 1]
           launch == [kind |-> "launch", op |-> <<s, Len(issued[s]) + 1>>,
                      slot |-> p.kernArgsWriteIdx, need |-> LocalMemReq[f],
                      slm |-> p.currentSlmPerThread]
<1>1. /\ Ready(s) /\ MayEnqueue(s, "COMPUTE") /\ Len(issued[s]) < MaxOps
      /\ MayLaunch(s) /\ KernArgsFit(p)
      /\ "COMPUTE" \in QueueTypes /\ GpuTypeOK /\ HostTypeOK
      /\ UNCHANGED <<gpuVars, cpu, state, unawaited>>
  BY DEF LaunchFunction, MayLaunch, QueueTypes, QueueInv, TypeOK
<1>2. PICK kind \in OpKind : kind = [type |-> "COMPUTE", async |-> async]
  BY <1>1 DEF OpKind
<1>3. kind \in OpKind /\ kind.type = "COMPUTE"
  BY <1>2
<1>23. kind.async = async
  BY <1>2
<1>4. PICK iss2 : iss2 = History(s, kind)
  OBVIOUS
<1>5. issued' = iss2
  BY <1>2, <1>4 DEF LaunchFunction, History
<1>6. PICK r : r = EndOp(Enqueue(q, launch, "COMPUTE"), s, kind.async, "COMPUTE")
  OBVIOUS
<1>7. queue' = [queue EXCEPT ![s] = r]
  BY <1>23, <1>6 DEF LaunchFunction
<1>8. /\ Good(issued, p, s, "COMPUTE")
      /\ p.timelineCtr = queue[s].timelineCtr
      /\ ~async => \A o \in Upto(s, p.timelineCtr) : Settled(p, s, o)
      /\ Grows(SwitchTo(queue[s], "COMPUTE"), p)
  BY <1>1, PreparedGood DEF Orderly
<1>9. p \in NvCommandQueue
  BY <1>8 DEF Good
<1>10. launch \in Command /\ IsWork(launch) /\ launch.op = <<s, Len(issued[s]) + 1>>
  <2>1. /\ p.kernArgsWriteIdx \in Nat /\ p.currentSlmPerThread \in Nat
        /\ LocalMemReq[f] \in Nat
    BY <1>9, FuncAssumption DEF NvCommandQueue
  <2> QED
    BY <1>1, <2>1, NextOpIsOp DEF Command, Launches, IsWork
<1>11. /\ q \in NvCommandQueue /\ q.buf = p.buf /\ q.backlog = p.backlog
       /\ q.currentQueueType = p.currentQueueType /\ q.timelineCtr = p.timelineCtr
  <2>1. p.kernArgsWriteIdx + 1 \in 0..KernArgsSlots
    BY <1>1, <1>9, FuncAssumption DEF KernArgsFit, NvCommandQueue
  <2> HIDE DEF p
  <2> QED
    BY <1>9, <2>1 DEF NvCommandQueue
<1>12. SwitchTo(queue[s], "COMPUTE").backlog = <<>> => unawaited[s] \subseteq {"COMPUTE"}
  BY <1>1, SwitchedGood DEF Orderly
<1>13. q.backlog = <<>> => unawaited[s] \subseteq {"COMPUTE"}
  BY <1>8, <1>11, <1>12 DEF Grows
<1> HIDE DEF p, q, launch
<1>14. PICK iss : iss = issued
  OBVIOUS
<1>15. /\ Good(iss, q, s, "COMPUTE")
       /\ \A o : Settled(q, s, o) <=> Settled(p, s, o)
  BY <1>1, <1>8, <1>11, <1>14, SameLine
<1>22. Good(issued, q, s, "COMPUTE") /\ MaxOps + 2 < CtrModulus
  BY <1>14, <1>15 DEF Orderly
<1>16. q.timelineCtr = Len(issued[s]) + 2
  BY <1>1, <1>8, <1>11, ReadyQueue
<1>17. ~kind.async => \A o \in Upto(s, q.timelineCtr) : Settled(q, s, o)
  BY <1>23, <1>8, <1>11, <1>15
<1>18. /\ Good(iss2, r, s, "COMPUTE")
       /\ r.timelineCtr = Len(iss2[s]) + 2
       /\ Grows(q, r)
       /\ r.buf["COMPUTE"] # <<>>
  BY <1>1, <1>3, <1>4, <1>6, <1>10, <1>22, <1>16, <1>17, OperationAdded
<1>19. QueueSound(iss2, r, s, 1, 0) /\ r.currentQueueType = "COMPUTE"
  BY <1>1, <1>18, GoodSound DEF Good
<1>20. Remembers(iss2, issued) /\ \A x \in Streams \ {s} : iss2[x] = issued[x]
  BY <1>1, <1>3, <1>4, IssuedRemembers
<1>21. r.backlog = <<>> => unawaited[s] \subseteq {r.currentQueueType}
  BY <1>13, <1>18, <1>19 DEF Grows
<1> QED
  BY <1>1, <1>5, <1>7, <1>18, <1>19, <1>20, <1>21, QueueReplaced

\* A call that fails has prepared the queue of s, and issues nothing.
LEMMA FailureKeepsOrder ==
    ASSUME QueueInv, Once, OrderInv, Orderly,
           NEW s \in Streams, Ready(s), MayEnqueue(s, "COMPUTE"),
           NEW r, Good(issued, r, s, "COMPUTE"), r.timelineCtr = queue[s].timelineCtr,
           Grows(SwitchTo(queue[s], "COMPUTE"), r),
           queue' = [queue EXCEPT ![s] = r],
           UNCHANGED <<gpuVars, cpu, state, unawaited, issued>>
    PROVE  OrderInv'
<1> DEFINE q == SwitchTo(queue[s], "COMPUTE")
<1>1. "COMPUTE" \in QueueTypes
  BY DEF QueueTypes
<1>2. /\ q.backlog = <<>> => unawaited[s] \subseteq {"COMPUTE"}
      /\ q.backlog = <<>> /\ (\A t \in QueueTypes : q.buf[t] = <<>>) => ~Batch(s)
  BY <1>1, SwitchedGood DEF Orderly
<1>3. PICK iss2 : iss2 = issued
  OBVIOUS
<1>4. QueueSound(iss2, r, s, 1, 0) /\ r.currentQueueType = "COMPUTE"
  BY <1>1, <1>3, GoodSound DEF Good
<1>5. Remembers(iss2, issued) /\ \A x \in Streams \ {s} : iss2[x] = issued[x]
  BY <1>3 DEF Remembers
<1>6. r.timelineCtr = Len(iss2[s]) + 2
  BY <1>3, ReadyQueue
<1> HIDE DEF q
<1>7. /\ r.backlog = <<>> => unawaited[s] \subseteq {r.currentQueueType}
      /\ r.backlog = <<>> /\ (\A t \in QueueTypes : r.buf[t] = <<>>)
           => ~Batch(s) /\ iss2[s] = issued[s]
  BY <1>2, <1>3, <1>4 DEF Grows, q
<1> QED
  BY <1>3, <1>4, <1>5, <1>6, <1>7, QueueReplaced

LEMMA LaunchFailsLocalMemKeepsOrder ==
    ASSUME QueueInv, Once, OrderInv, Orderly,
           NEW s \in Streams, NEW f \in Funcs, LaunchFailsLocalMem(s, f)
    PROVE  OrderInv'
<1> DEFINE q == SwitchTo(queue[s], "COMPUTE")
<1>1. /\ Ready(s) /\ MayEnqueue(s, "COMPUTE") /\ "COMPUTE" \in QueueTypes
      /\ GpuTypeOK /\ HostTypeOK
      /\ UNCHANGED <<gpuVars, cpu, state, unawaited, issued>>
  BY DEF LaunchFailsLocalMem, MayLaunch, QueueTypes, QueueInv, TypeOK
<1>2. \/ queue' = [queue EXCEPT ![s] = q]
      \/ queue' = [queue EXCEPT ![s] = GrownSlm(q, f)]
  BY DEF LaunchFailsLocalMem
<1>3. Good(issued, q, s, "COMPUTE") /\ q.timelineCtr = queue[s].timelineCtr
  BY <1>1, SwitchedGood DEF Orderly
<1>4. q \in NvCommandQueue
  BY <1>3 DEF Good
<1>5. Grows(q, q) /\ Grows(q, GrownSlm(q, f))
  BY <1>4, ScalarFieldsGrow
<1>6. GrownSlm(q, f).timelineCtr = q.timelineCtr
  BY <1>4 DEF GrownSlm, NvCommandQueue
<1>7. PICK iss : iss = issued
  OBVIOUS
<1> HIDE DEF q
<1>8. Good(iss, GrownSlm(q, f), s, "COMPUTE")
  BY <1>1, <1>3, <1>7, EnsureEnoughLocalMemGood
<1>9. CASE queue' = [queue EXCEPT ![s] = q]
  BY <1>1, <1>3, <1>5, <1>9, FailureKeepsOrder DEF q
<1>10. CASE queue' = [queue EXCEPT ![s] = GrownSlm(q, f)]
  <2>1. PICK r : r = GrownSlm(q, f)
    OBVIOUS
  <2>2. /\ Good(issued, r, s, "COMPUTE") /\ r.timelineCtr = queue[s].timelineCtr
        /\ Grows(SwitchTo(queue[s], "COMPUTE"), r)
        /\ queue' = [queue EXCEPT ![s] = r]
    BY <1>3, <1>5, <1>6, <1>7, <1>8, <1>10, <2>1 DEF q
  <2> QED
    BY <1>1, <2>2, FailureKeepsOrder
<1> QED
  BY <1>2, <1>9, <1>10

LEMMA LaunchFailsLateKeepsOrder ==
    ASSUME QueueInv, Once, OrderInv, Orderly,
           NEW s \in Streams, NEW f \in Funcs, NEW async \in BOOLEAN,
           LaunchFailsLate(s, f, async)
    PROVE  OrderInv'
<1> DEFINE p == Prepared(s, f, async).queue
           q == [p EXCEPT !.kernArgsWriteIdx = @ + 1]
<1>1. /\ Ready(s) /\ MayEnqueue(s, "COMPUTE") /\ "COMPUTE" \in QueueTypes
      /\ MayLaunch(s) /\ GpuTypeOK
      /\ UNCHANGED <<gpuVars, cpu, state, unawaited, issued>>
  BY DEF LaunchFailsLate, MayLaunch, QueueTypes, QueueInv, TypeOK
<1>2. \/ queue' = [queue EXCEPT ![s] = p]
      \/ KernArgsFit(p) /\ queue' = [queue EXCEPT ![s] = q]
  BY DEF LaunchFailsLate
<1>3. /\ Good(issued, p, s, "COMPUTE")
      /\ p.timelineCtr = queue[s].timelineCtr
      /\ Grows(SwitchTo(queue[s], "COMPUTE"), p)
  BY <1>1, PreparedGood DEF Orderly
<1>4. p \in NvCommandQueue
  BY <1>3 DEF Good
<1>5. CASE queue' = [queue EXCEPT ![s] = p]
  BY <1>1, <1>3, <1>5, FailureKeepsOrder
<1>6. CASE KernArgsFit(p) /\ queue' = [queue EXCEPT ![s] = q]
  <2>1. p.kernArgsWriteIdx + 1 \in 0..KernArgsSlots
    BY <1>4, <1>6, FuncAssumption DEF KernArgsFit, NvCommandQueue
  <2> HIDE DEF p
  <2>2. /\ q \in NvCommandQueue /\ q.buf = p.buf /\ q.backlog = p.backlog
        /\ q.currentQueueType = p.currentQueueType /\ q.timelineCtr = p.timelineCtr
    BY <1>4, <2>1 DEF NvCommandQueue
  <2> HIDE DEF q
  <2>3. PICK iss : iss = issued
    OBVIOUS
  <2>4. Good(iss, q, s, "COMPUTE")
    BY <1>1, <1>3, <2>2, <2>3, SameLine
  <2>5. Good(issued, q, s, "COMPUTE") /\ Grows(SwitchTo(queue[s], "COMPUTE"), q)
    BY <1>3, <2>2, <2>3, <2>4 DEF Grows
  <2> QED
    BY <1>1, <1>3, <1>6, <2>2, <2>5, FailureKeepsOrder
<1> QED
  BY <1>2, <1>5, <1>6

\* What EventRecord makes of the queue before it adds the release: a stream that
\* has done nothing yet is taken for a compute stream.
Retyped(q, left, t) == [q EXCEPT !.freeSignals = left, !.currentQueueType = t]

LEMMA RecordTypeGood ==
    ASSUME QueueInv, OrderInv, NEW s \in Streams, Ready(s),
           NEW t, t = RecordType(queue[s]),
           NEW left \in Seq(0..(PoolSize - 1)), NEW q,
           q = Retyped(queue[s], left, t)
    PROVE  /\ t \in QueueTypes
           /\ Good(issued, q, s, t)
           /\ q.timelineCtr = queue[s].timelineCtr
           /\ q.buf = queue[s].buf
           /\ q.backlog = queue[s].backlog
           /\ queue[s].backlog = <<>> => unawaited[s] \subseteq {t}
<1>1. PICK iss, p : iss = issued /\ p = queue[s]
  OBVIOUS
<1>2. /\ QueueSound(iss, p, s, 1, 0) /\ p \in NvCommandQueue
      /\ p.timelineCtr = Len(iss[s]) + 2 /\ GpuTypeOK /\ HostTypeOK
  BY <1>1, ReadyQueue
<1>3. t \in QueueTypes /\ t # "OTHER"
  BY DEF RecordType, QueueTypes
<1>4. /\ p.currentQueueType \in QueueTypes => p.currentQueueType = t
      /\ p.currentQueueType \in QueueTypes \/ p.currentQueueType = "OTHER"
  BY <1>1, <1>2 DEF RecordType, QueueTypes, NvCommandQueue
<1>5. /\ q \in NvCommandQueue /\ q.buf = p.buf /\ q.backlog = p.backlog
      /\ q.currentQueueType = t /\ q.timelineCtr = p.timelineCtr
  BY <1>1, <1>2, <1>3 DEF Retyped, NvCommandQueue
<1>6. /\ p.backlog = <<>> => unawaited[s] \subseteq {p.currentQueueType}
      /\ unawaited[s] \subseteq QueueTypes
  BY <1>1, <1>2 DEF OrderInv, AwaitsSound, HostTypeOK
<1>7. CASE p.currentQueueType \in QueueTypes
  <2>1. Good(iss, p, s, t)
    BY <1>2, <1>3, <1>4, <1>7, SoundGood
  <2>2. Good(iss, q, s, t)
    BY <1>3, <1>4, <1>5, <1>7, <2>1, SameLine
  <2> QED
    BY <1>1, <1>3, <1>4, <1>5, <1>6, <1>7, <2>2
<1>8. CASE p.currentQueueType = "OTHER"
  <2>1. p.backlog = <<>> /\ iss[s] = <<>> /\ p.timelineCtr = 2
    BY <1>2, <1>8 DEF QueueSound
  <2>2. \A u \in QueueTypes : p.buf[u] = <<>>
    BY <1>2, <1>8 DEF QueueSound, OneBuffer, QueueTypes
  <2>3. Upto(s, 2) = {}
    BY OpFields DEF Upto
  <2>4. fifo[t] \in Seq(Command) /\ Ordered(iss, fifo[t], t, done, Underway(t))
    BY <1>1, <1>2, <1>3 DEF GpuTypeOK, OrderInv, ChannelsSound
  <2>5. Line(q) = fifo[t] /\ Sure(q, s) = done /\ Busy(q) = Underway(t)
    BY <1>3, <1>5, <2>1, <2>2, <2>4, EmptySound DEF Line, Front, Sure, Busy
  <2>6. RestSound(iss, q, s)
    BY <1>5, <2>1, <2>3, <2>4, <2>5 DEF RestSound, Sound, Covered
  <2>7. BacklogSound(iss, q, s, 1, 0)
    BY <1>5, <2>1 DEF BacklogSound
  <2>8. Good(iss, q, s, t)
    BY <1>3, <1>5, <2>2, <2>6, <2>7, OtherType DEF Good
  <2> QED
    BY <1>1, <1>3, <1>5, <1>6, <1>8, <2>1, <2>8 DEF QueueTypes
<1> QED
  BY <1>4, <1>7, <1>8

LEMMA RecordEventKeepsOrder ==
    ASSUME QueueInv, Once, OrderInv, NEW e \in Events, NEW s \in Streams, RecordEvent(e, s)
    PROVE  OrderInv'
<1> DEFINE sig == ObtainSignal(e, s).sig
           left == ObtainSignal(e, s).left
<1>1. PICK t : t = RecordType(queue[s])
  OBVIOUS
<1>2. PICK q : q = Retyped(queue[s], left, t)
  OBVIOUS
<1>3. PICK r : r = SignalNotify(q, sig, 1, t)
  OBVIOUS
<1>4. /\ Ready(s) /\ GpuTypeOK
      /\ UNCHANGED <<gpuVars, cpu, state, unawaited, issued>>
      /\ queue' = [queue EXCEPT ![s] = r]
  BY <1>1, <1>2, <1>3 DEF RecordEvent, Retyped, QueueInv, TypeOK
<1>5. sig \in Signals /\ left \in Seq(0..(PoolSize - 1))
  BY ObtainSignalTyped DEF RecordEvent, QueueInv, TypeOK
<1> HIDE DEF sig, left
<1>6. /\ t \in QueueTypes
      /\ Good(issued, q, s, t)
      /\ q.timelineCtr = queue[s].timelineCtr
      /\ q.buf = queue[s].buf
      /\ q.backlog = queue[s].backlog
      /\ queue[s].backlog = <<>> => unawaited[s] \subseteq {t}
  BY <1>1, <1>2, <1>4, <1>5, RecordTypeGood
<1>7. PICK iss2 : iss2 = issued
  OBVIOUS
<1>8. Good(iss2, q, s, t) /\ q \in NvCommandQueue
  BY <1>6, <1>7 DEF Good
<1>9. \A o \in Ops : ~(o[2] + 2 <= 1)
  BY OpFields
<1>10. Good(iss2, r, s, t) /\ r.timelineCtr = q.timelineCtr
  BY <1>3, <1>4, <1>5, <1>6, <1>8, <1>9, SignalNotifyGood
<1>11. Grows(q, r)
  BY <1>3, <1>5, <1>6, <1>8, SignalNotifyGrows
<1>12. QueueSound(iss2, r, s, 1, 0) /\ r.currentQueueType = t
  BY <1>6, <1>10, GoodSound DEF Good
<1>13. Remembers(iss2, issued) /\ \A x \in Streams \ {s} : iss2[x] = issued[x]
  BY <1>7 DEF Remembers
<1>14. r.timelineCtr = Len(iss2[s]) + 2
  BY <1>4, <1>6, <1>7, <1>10, ReadyQueue
<1>15. /\ r.backlog = <<>> => unawaited[s] \subseteq {r.currentQueueType}
       /\ r.backlog = <<>> /\ (\A u \in QueueTypes : r.buf[u] = <<>>)
            => ~Batch(s) /\ iss2[s] = issued[s]
  BY <1>6, <1>7, <1>11, <1>12 DEF Grows, Batch
<1> QED
  BY <1>4, <1>7, <1>12, <1>13, <1>14, <1>15, QueueReplaced

-----------------------------------------------------------------------------
(* What reaches a channel.                                                 *)

\* A line to which b is added at the end of what the channel holds.
LEMMA ChannelGrows ==
    ASSUME GpuTypeOK, NEW u \in QueueTypes, NEW b \in Seq(Command),
           fifo' = [fifo EXCEPT ![u] = fifo[u] \o b], UNCHANGED <<running, done, issued>>,
           ChannelsSound, NEW iss, iss = issued,
           Ordered(iss, fifo[u] \o b, u, done, Underway(u))
    PROVE  /\ \A x : \A piece \in Split : InLine(iss, piece, x) => InLine(iss, piece, x)'
           /\ ChannelsSound'
<1>1. /\ fifo'[u] = fifo[u] \o b
      /\ \A t \in QueueTypes \ {u} : fifo'[t] = fifo[t]
      /\ \A t \in QueueTypes : fifo[t] \in Seq(Command)
      /\ \A t : Underway(t)' = Underway(t)
  BY DEF GpuTypeOK, Underway
<1>2. Later(done, Underway(u), done, Underway(u))
  BY DEF Later
<1>3. ASSUME NEW x, NEW piece \in Split, InLine(iss, piece, x)
      PROVE  InLine(iss, piece, x)'
  <2>1. piece.type \in QueueTypes /\ piece.buf \in Seq(Command)
    BY SplitFields
  <2>2. CASE piece.type # u
    BY <1>1, <1>3, <2>1, <2>2 DEF InLine
  <2>3. CASE piece.type = u
    <3>1. Sound(iss, fifo[u] \o piece.buf, u, done, Underway(u), x, piece.timelineCtr)
      BY <1>3, <2>3 DEF InLine
    <3>2. Sound(iss, (fifo[u] \o b) \o piece.buf, u, done, Underway(u), x, piece.timelineCtr)
      BY <1>1, <1>2, <2>1, <3>1, InsertedSound DEF Sound
    <3> QED
      BY <1>1, <2>3, <3>2 DEF InLine
  <2> QED
    BY <2>2, <2>3
<1>4. ASSUME NEW t \in QueueTypes
      PROVE  Ordered(issued, fifo[t], t, done, Underway(t))'
  <2>1. CASE t # u
    BY <1>1, <2>1 DEF ChannelsSound
  <2>2. CASE t = u
    BY <1>1, <2>2
  <2> QED
    BY <2>1, <2>2
<1> QED
  BY <1>3, <1>4 DEF ChannelsSound

\* A piece whose turn has come joins its channel, whatever the other streams
\* have put there.
LEMMA BehindJoins ==
    ASSUME GpuTypeOK, ChannelsSound, NEW iss, iss = issued, NEW piece \in Split, NEW s,
           NEW base, Behind(iss, piece, s, base), Upto(s, base) \subseteq done
    PROVE  InLine(iss, piece, s)
<1> DEFINE t == piece.type
           b == piece.buf
<1>1. t \in QueueTypes /\ b \in Seq(Command) /\ fifo[t] \in Seq(Command)
  BY SplitFields DEF GpuTypeOK
<1>2. Later(Upto(s, base), {}, done, Underway(t))
  BY DEF Later
<1>3. <<>> \o fifo[t] = fifo[t] /\ <<>> \in Seq(Command)
  BY <1>1, EmptySound
<1>4. Ordered(iss, <<>> \o fifo[t], t, done, Underway(t))
  BY <1>1, <1>3 DEF ChannelsSound
<1>5. Sound(iss, <<>> \o b, t, Upto(s, base), {}, s, piece.timelineCtr)
  BY DEF Behind
<1>6. Sound(iss, (<<>> \o fifo[t]) \o b, t, done, Underway(t), s, piece.timelineCtr)
  BY <1>1, <1>2, <1>3, <1>4, <1>5, InsertedSound DEF Sound
<1> QED
  BY <1>3, <1>6 DEF InLine

\* A piece of s is handed over; r is what is left of its queue.
LEMMA PieceSubmitted ==
    ASSUME QueueInv, OrderInv, NEW s \in Streams, NEW r, NEW u \in QueueTypes,
           NEW b \in Seq(Command), fifo' = [fifo EXCEPT ![u] = fifo[u] \o b],
           UNCHANGED <<running, done, value, issued>>,
           queue' = [queue EXCEPT ![s] = r],
           \A x \in Streams \ {s} : Cursor(x)' = Cursor(x) /\ Expected(x)' = Expected(x),
           NEW k, NEW w, Cursor(s)' = k, Expected(s)' = w,
           Ordered(issued, fifo[u] \o b, u, done, Underway(u)),
           QueueSound(issued, r, s, k, w)'
    PROVE  StreamsSound' /\ ChannelsSound' /\ ValuesSound' /\ StartedSound'
<1>1. GpuTypeOK /\ queue \in [Streams -> NvCommandQueue]
  BY DEF QueueInv, TypeOK, HostTypeOK
<1>2. PICK iss : iss = issued
  OBVIOUS
<1>3. /\ \A x : \A piece \in Split : InLine(iss, piece, x) => InLine(iss, piece, x)'
      /\ ChannelsSound'
  BY <1>1, <1>2, ChannelGrows DEF OrderInv
<1>4. /\ \A x \in Streams \ {s} : queue'[x] = queue[x]
      /\ queue'[s] = r /\ issued' = iss
  BY <1>1, <1>2
<1>5. ASSUME NEW x \in Streams \ {s}
      PROVE  QueueSound(iss, queue[x], x, Cursor(x), Expected(x))'
  BY <1>2, <1>3, <1>4, StreamLater DEF OrderInv
<1>6. StreamsSound'
  BY <1>4, <1>5 DEF StreamsSound
<1>7. ValuesSound'
  BY DEF OrderInv, ValuesSound
<1>8. Started' = Started
  BY DEF Started, Executing
<1>9. StartedSound'
  BY <1>8 DEF OrderInv, StartedSound
<1> QED
  BY <1>3, <1>6, <1>7, <1>9

\* A queue with nothing left in it, after a call.
LEMMA EmptiedSound ==
    ASSUME ChannelsSound', GpuTypeOK', NEW iss, issued' = iss, NEW s, NEW r \in NvCommandQueue,
           r.backlog = <<>>, \A t \in QueueTypes : r.buf[t] = <<>>,
           r.currentQueueType = "OTHER" => iss[s] = <<>>,
           r.currentQueueType \in QueueTypes =>
               Covered(iss, fifo[r.currentQueueType], r.currentQueueType, done,
                       Underway(r.currentQueueType), s, r.timelineCtr)'
    PROVE  QueueSound(iss, r, s, 1, 0)'
<1>1. OneBuffer(r)
  BY DEF OneBuffer
<1>2. BacklogSound(iss, r, s, 1, 0)'
  BY DEF BacklogSound
<1>3. ASSUME r.currentQueueType \in QueueTypes PROVE RestSound(iss, r, s)'
  <2>1. PICK t \in QueueTypes : t = r.currentQueueType
    BY <1>3
  <2>2. fifo'[t] \in Seq(Command)
    BY DEF GpuTypeOK
  <2>3. fifo'[t] \o <<>> = fifo'[t]
    BY <2>2, EmptySound
  <2>4. Ordered(iss, fifo'[t], t, done', Underway(t)')
    BY DEF ChannelsSound
  <2> QED
    BY <1>3, <2>1, <2>3, <2>4 DEF RestSound, Sound, Line, Front, Sure, Busy
<1> QED
  BY <1>1, <1>2, <1>3 DEF QueueSound, OneBuffer

\* The release at the end of the creation of a channel vouches for no operation.
LEMMA SetUpSound ==
    ASSUME QueueInv, QueueInv', OrderInv, NEW s \in Streams, NEW q \in NvCommandQueue,
           q.backlog = <<>>, \A t \in QueueTypes : q.buf[t] = <<>>,
           q.timelineCtr \in {0, 1}, issued[s] = <<>>,
           NEW u \in QueueTypes, SetUpChannel(s, q, u), issued' = issued,
           Cursor(s)' = 1, Expected(s)' = 0,
           \A x \in Streams \ {s} : Cursor(x)' = Cursor(x) /\ Expected(x)' = Expected(x)
    PROVE  /\ StreamsSound' /\ ChannelsSound' /\ ValuesSound' /\ StartedSound'
           /\ UNCHANGED <<done>>
           /\ queue'[s].timelineCtr = q.timelineCtr + 1
           /\ queue'[s].backlog = <<>>
           /\ \A t \in QueueTypes : queue'[s].buf[t] = <<>>
           /\ \A x \in Streams \ {s} : queue'[x] = queue[x]
<1> DEFINE n == q.timelineCtr + 1
           cmd == [kind |-> "release", sig |-> Timeline(s), payload |-> n]
<1>1. PICK next : next = AdvanceTimeline(q)
  OBVIOUS
<1>2. PICK p : p = SignalNotify(next, Timeline(s), next.timelineCtr, u)
  OBVIOUS
<1>3. PICK r : r = [p EXCEPT !.buf[u] = <<>>]
  OBVIOUS
<1>4. /\ fifo' = [fifo EXCEPT ![u] = fifo[u] \o p.buf[u]]
      /\ queue' = [queue EXCEPT ![s] = r]
      /\ UNCHANGED <<running, done, value, issued>>
  BY <1>1, <1>2, <1>3 DEF SetUpChannel, SubmitToFifo
<1>5. /\ GpuTypeOK /\ GpuTypeOK' /\ queue \in [Streams -> NvCommandQueue]
      /\ r \in NvCommandQueue
  BY <1>4 DEF QueueInv, TypeOK, HostTypeOK
<1>6. (q.timelineCtr + 1) % CtrModulus = n /\ n \in Counter /\ n \in Nat /\ n <= 2
  BY NoWrap, CtrAssumption DEF Counter
<1>7. /\ next \in NvCommandQueue /\ next.timelineCtr = n /\ next.buf = q.buf
      /\ next.backlog = <<>>
  BY <1>1, <1>6 DEF AdvanceTimeline, NvCommandQueue
<1>8. cmd \in Command /\ ~IsWork(cmd) /\ cmd.kind = "release" /\ cmd.payload = n
  BY <1>6, CommandTypes, TimelineIsSignal DEF IsWork
<1>9. p = Enqueue(next, cmd, u)
  BY <1>2, <1>7 DEF SignalNotify
<1> HIDE DEF cmd
<1>10. /\ p \in NvCommandQueue /\ p.timelineCtr = n /\ p.backlog = <<>>
       /\ p.buf[u] = Append(q.buf[u], cmd)
       /\ \A t \in QueueTypes \ {u} : p.buf[t] = <<>>
  <2>1. p \in NvCommandQueue
    BY <1>7, <1>8, <1>9, EnqueueTyped
  <2>2. p.timelineCtr = n /\ p.backlog = <<>>
    BY <1>7, <1>9 DEF Enqueue, NvCommandQueue
  <2>3. next.buf \in [QueueTypes -> Seq(Command)]
    BY <1>7 DEF NvCommandQueue
  <2>4. p.buf = [next.buf EXCEPT ![u] = Append(next.buf[u], cmd)]
    BY <1>7, <1>9 DEF Enqueue, NvCommandQueue
  <2> QED
    BY <1>7, <2>1, <2>2, <2>3, <2>4
<1>11. p.buf[u] = <<cmd>> /\ <<cmd>> \in Seq(Command)
  <2>1. \A a \in Command : Append(<<>>, a) = <<a>> /\ <<a>> \in Seq(Command)
    OBVIOUS
  <2>2. q.buf[u] = <<>>
    OBVIOUS
  <2> QED
    BY <1>8, <1>10, <2>1, <2>2
<1>12. /\ r.backlog = <<>> /\ r.timelineCtr = n
       /\ \A t \in QueueTypes : r.buf[t] = <<>>
  BY <1>3, <1>10 DEF NvCommandQueue
<1>13. PICK iss : iss = issued
  OBVIOUS
<1>14. Ordered(iss, fifo[u] \o <<cmd>>, u, done, Underway(u))
  <2>1. fifo[u] \in Seq(Command) /\ Ordered(iss, fifo[u], u, done, Underway(u))
    BY <1>5, <1>13 DEF GpuTypeOK, OrderInv, ChannelsSound
  <2>2. \A o \in Ops : ~(o[2] + 2 <= n)
    BY <1>6, OpFields
  <2>3. Fits(iss, cmd, fifo[u], Len(fifo[u]) + 1, u, done, Underway(u))
    BY <1>8, <2>2 DEF Fits
  <2>4. Append(fifo[u], cmd) = fifo[u] \o <<cmd>>
    BY <1>8, <2>1
  <2> QED
    BY <1>8, <2>1, <2>3, <2>4, AppendedSound
<1>15. ChannelsSound'
  BY <1>4, <1>5, <1>11, <1>13, <1>14, ChannelGrows DEF OrderInv
<1>16. Upto(s, r.timelineCtr) = {}
  BY <1>6, <1>12, OpFields DEF Upto
<1>17. QueueSound(iss, r, s, 1, 0)'
  BY <1>4, <1>5, <1>12, <1>13, <1>15, <1>16, EmptiedSound DEF Covered
<1>18. StreamsSound' /\ ValuesSound' /\ StartedSound'
  <2>1. Ordered(issued, fifo[u] \o p.buf[u], u, done, Underway(u))
    BY <1>11, <1>13, <1>14
  <2>2. QueueSound(issued, r, s, 1, 0)'
    BY <1>4, <1>13, <1>17
  <2>3. p.buf[u] \in Seq(Command)
    BY <1>11
  <2> QED
    BY <1>4, <1>13, <1>17, <2>1, <2>3, PieceSubmitted
<1> QED
  BY <1>4, <1>5, <1>12, <1>15, <1>18

\* What AwaitsSound and CountersSound say of a stream a call is not about.
LEMMA OthersRest ==
    ASSUME OrderInv, NEW x, x \in Streams, done' = done,
           queue'[x] = queue[x], issued'[x] = issued[x], unawaited'[x] = unawaited[x]
    PROVE  /\ (queue[x].backlog = <<>> => unawaited[x] \subseteq {queue[x].currentQueueType})'
           /\ (unawaited[x] = {} /\ ~Batch(x) => AllDone(x))'
<1>1. (Batch(x)' <=> Batch(x)) /\ (AllDone(x)' <=> AllDone(x))
  BY DEF Batch, AllDone
<1> QED
  BY <1>1 DEF OrderInv, AwaitsSound

LEMMA StreamCreateKeepsOrder ==
    ASSUME QueueInv, QueueInv', IssuedInv, OrderInv, NEW s \in Streams, StreamCreate(s)
    PROVE  OrderInv'
<1>1. PICK type \in QueueTypes \cup {"OTHER"} : SetUpChannel(s, NewQueue(s, type), "COMPUTE")
  BY DEF StreamCreate
<1>2. PICK q : q = NewQueue(s, type)
  OBVIOUS
<1>3. /\ q \in NvCommandQueue /\ "COMPUTE" \in QueueTypes
      /\ \A t \in QueueTypes : q.buf[t] = <<>>
  BY <1>1, <1>2, NewQueueTakes DEF QueueTypes
<1>4. q.backlog = <<>> /\ q.timelineCtr = 0
  BY <1>2 DEF NewQueue
<1>5. /\ UNCHANGED <<issued, unawaited>> /\ state[s] = "none" /\ issued[s] = <<>>
      /\ state' = [state EXCEPT ![s] = "creating"]
      /\ cpu = Idle /\ cpu' = [at |-> "initCompute", stream |-> s]
      /\ state \in [Streams -> {"none", "creating", "failed", "alive", "destroyed"}]
  BY DEF StreamCreate, IssuedInv, QueueInv, TypeOK, HostTypeOK
<1>6. \A x \in Streams : /\ Cursor(x) = 1 /\ Cursor(x)' = 1
                         /\ Expected(x) = 0 /\ Expected(x)' = 0
  BY <1>5, CursorAtRest DEF Idle, Expected
<1>7. SetUpChannel(s, q, "COMPUTE")
  BY <1>1, <1>2
<1>8. /\ StreamsSound' /\ ChannelsSound' /\ ValuesSound' /\ StartedSound'
      /\ done' = done
      /\ queue'[s].timelineCtr = 1
      /\ queue'[s].backlog = <<>>
      /\ \A t \in QueueTypes : queue'[s].buf[t] = <<>>
      /\ \A x \in Streams \ {s} : queue'[x] = queue[x]
  BY <1>3, <1>4, <1>5, <1>6, <1>7, SetUpSound
<1>9. /\ unawaited[s] = {}
      /\ ~InUse(s) /\ ~InUse(s)'
      /\ \A x \in Streams \ {s} : InUse(x)' <=> InUse(x)
  BY <1>5 DEF OrderInv, CountersSound, InUse
<1>10. AllDone(s)'
  BY <1>5, OpFields DEF AllDone
<1>11. AwaitsSound'
  BY <1>5, <1>8, <1>9, <1>10, OthersRest DEF AwaitsSound
<1>12. CountersSound'
  <2>1. cpu'.at = "initCompute" /\ cpu'.stream = s /\ state'[s] = "creating"
    BY <1>5
  <2> QED
    BY <1>5, <1>8, <1>9, <2>1 DEF OrderInv, CountersSound
<1> QED
  BY <1>8, <1>11, <1>12 DEF OrderInv

LEMMA InitComputeReturnsKeepsOrder ==
    ASSUME QueueInv, QueueInv', OrderInv, InitComputeReturns
    PROVE  OrderInv'
<1>1. PICK s : s = cpu.stream
  OBVIOUS
<1>2. s \in Streams
  BY <1>1, CpuFields DEF InitComputeReturns, QueueInv, TypeOK
<1>3. PICK q : q = queue[s]
  OBVIOUS
<1>4. /\ UNCHANGED <<issued, unawaited, state>> /\ cpu.at = "initCompute"
      /\ SetUpChannel(s, q, "DMA") /\ "DMA" \in QueueTypes
      /\ cpu' = [at |-> "initDma", stream |-> s]
      /\ q \in NvCommandQueue
  BY <1>1, <1>2, <1>3 DEF InitComputeReturns, QueueTypes, QueueInv, TypeOK, HostTypeOK
<1>5. /\ state[s] = "creating" /\ ~InUse(s) /\ q.timelineCtr = 1
      /\ issued[s] = <<>> /\ q.backlog = <<>>
      /\ unawaited[s] = {}
      /\ \A t \in QueueTypes : q.buf[t] = <<>>
  BY <1>1, <1>2, <1>3, <1>4 DEF OrderInv, CountersSound, InUse
<1>6. \A x \in Streams : /\ Cursor(x) = 1 /\ Cursor(x)' = 1
                         /\ Expected(x) = 0 /\ Expected(x)' = 0
  BY <1>4, CursorAtRest DEF Expected
<1>7. /\ StreamsSound' /\ ChannelsSound' /\ ValuesSound' /\ StartedSound'
      /\ done' = done
      /\ queue'[s].timelineCtr = 2
      /\ queue'[s].backlog = <<>>
      /\ \A t \in QueueTypes : queue'[s].buf[t] = <<>>
      /\ \A x \in Streams \ {s} : queue'[x] = queue[x]
  BY <1>2, <1>4, <1>5, <1>6, SetUpSound
<1>8. \A x : InUse(x)' <=> InUse(x)
  BY <1>4 DEF InUse
<1>9. AllDone(s)'
  BY <1>4, <1>5, OpFields DEF AllDone
<1>10. AwaitsSound'
  BY <1>4, <1>5, <1>7, <1>9, OthersRest DEF AwaitsSound
<1>11. CountersSound'
  <2>1. cpu'.at = "initDma" /\ cpu'.stream = s /\ state'[s] = "creating"
    BY <1>4, <1>5
  <2> QED
    BY <1>4, <1>5, <1>7, <1>8, <2>1 DEF OrderInv, CountersSound
<1> QED
  BY <1>7, <1>10, <1>11 DEF OrderInv

\* Calls and returns that leave the queues, the GPU and the history alone.
LEMMA QuietKeepsOrder ==
    ASSUME OrderInv, UNCHANGED <<gpuVars, queue, issued, unawaited>>,
           \A x \in Streams : Cursor(x)' = Cursor(x) /\ Expected(x)' = Expected(x),
           CountersSound'
    PROVE  OrderInv'
<1>1. UNCHANGED <<fifo, running, done, value>>
  BY DEF gpuVars
<1>2. \A t : Underway(t)' = Underway(t)
  BY <1>1 DEF Underway
<1>3. Started' = Started
  BY <1>1 DEF Started, Executing
<1>4. \A x : (Batch(x)' <=> Batch(x)) /\ (AllDone(x)' <=> AllDone(x))
  BY <1>1 DEF Batch, AllDone
<1>5. ASSUME NEW x \in Streams
      PROVE  QueueSound(issued, queue[x], x, Cursor(x), Expected(x))'
  <2>1. PICK iss, q, k, w : iss = issued /\ q = queue[x] /\ k = Cursor(x) /\ w = Expected(x)
    OBVIOUS
  <2>2. QueueSound(iss, q, x, k, w)
    BY <2>1 DEF OrderInv, StreamsSound
  <2>3. \A piece : InLine(iss, piece, x)' <=> InLine(iss, piece, x)
    BY <1>1, <1>2 DEF InLine
  <2>4. \A piece, base : Behind(iss, piece, x, base)' <=> Behind(iss, piece, x, base)
    BY DEF Behind
  <2>5. BacklogSound(iss, q, x, k, w)' <=> BacklogSound(iss, q, x, k, w)
    BY <2>3, <2>4 DEF BacklogSound
  <2>6. RestSound(iss, q, x)' <=> RestSound(iss, q, x)
    BY <1>1, <1>2 DEF RestSound, Line, Front, Sure, Busy, Last
  <2>7. QueueSound(iss, q, x, k, w)'
    BY <2>2, <2>5, <2>6 DEF QueueSound, OneBuffer
  <2>8. issued' = iss /\ queue'[x] = q /\ Cursor(x)' = k /\ Expected(x)' = w
    BY <2>1
  <2> QED
    BY <2>7, <2>8
<1>6. StreamsSound'
  BY <1>5 DEF StreamsSound
<1>7. ChannelsSound' /\ ValuesSound' /\ StartedSound'
  BY <1>1, <1>2, <1>3 DEF OrderInv, ChannelsSound, ValuesSound, StartedSound
<1>8. AwaitsSound'
  BY <1>4 DEF OrderInv, AwaitsSound
<1> QED
  BY <1>6, <1>7, <1>8 DEF OrderInv

LEMMA QuietCallsKeepOrder ==
    ASSUME QueueInv, OrderInv,
           \/ InitDmaReturns \/ EventSynchronizeReturns
           \/ \E s \in Streams :
                 \/ StreamCreateFails(s) \/ StreamDestroy(s) \/ Await(s)
                 \/ \E e \in Events : RecordEventFails(e, s)
           \/ \E e \in Events : EventSynchronize(e) \/ EventDestroy(e)
    PROVE  OrderInv'
<1>1. /\ UNCHANGED <<gpuVars, queue, issued, unawaited>>
      /\ cpu.at \notin {"submit", "wait"} /\ cpu'.at \notin {"submit", "wait"}
  BY DEF InitDmaReturns, EventSynchronizeReturns, StreamCreateFails, StreamDestroy, Await,
         RecordEventFails, EventSynchronize, EventDestroy, Ready, Idle
<1>2. \A x \in Streams : Cursor(x)' = Cursor(x) /\ Expected(x)' = Expected(x)
  BY <1>1, CursorAtRest DEF Expected
<1>3. state \in [Streams -> {"none", "creating", "failed", "alive", "destroyed"}]
  BY DEF QueueInv, TypeOK, HostTypeOK
<1>4. CASE InitDmaReturns
  <2>1. PICK s : s = cpu.stream
    OBVIOUS
  <2>2. /\ s \in Streams /\ cpu.at = "initDma" /\ cpu'.at = "idle"
        /\ state' = [state EXCEPT ![s] = "alive"]
    BY <1>4, <2>1, CpuFields DEF InitDmaReturns, QueueInv, TypeOK, Idle
  <2>3. /\ state[s] = "creating" /\ ~InUse(s) /\ InUse(s)'
        /\ queue[s].timelineCtr = 2 /\ issued[s] = <<>>
        /\ \A x \in Streams \ {s} : InUse(x)' <=> InUse(x)
    BY <1>3, <2>1, <2>2 DEF OrderInv, CountersSound, InUse
  <2>4. CountersSound'
    BY <1>1, <2>2, <2>3 DEF OrderInv, CountersSound
  <2> QED
    BY <1>1, <1>2, <2>4, QuietKeepsOrder
<1>5. CASE \E s \in Streams : StreamCreateFails(s)
  <2>1. PICK s \in Streams : StreamCreateFails(s)
    BY <1>5
  <2>2. /\ state[s] = "none" \/ (cpu.at = "initDma" /\ cpu.stream = s)
        /\ cpu'.at = "idle" /\ state' = [state EXCEPT ![s] = "failed"]
    BY <2>1 DEF StreamCreateFails, Idle
  <2>3. /\ ~InUse(s) /\ ~InUse(s)'
        /\ \A x \in Streams \ {s} : InUse(x)' <=> InUse(x)
    BY <1>3, <2>2 DEF OrderInv, CountersSound, InUse
  <2>4. CountersSound'
    BY <1>1, <2>2, <2>3 DEF OrderInv, CountersSound
  <2> QED
    BY <1>1, <1>2, <2>4, QuietKeepsOrder
<1>6. CASE \E s \in Streams : StreamDestroy(s)
  <2>1. PICK s \in Streams : StreamDestroy(s)
    BY <1>6
  <2>2. /\ state[s] = "alive" /\ cpu.at = "idle" /\ cpu' = cpu
        /\ state' = [state EXCEPT ![s] = "destroyed"]
    BY <2>1 DEF StreamDestroy, Ready, Idle
  <2>3. \A x \in Streams : InUse(x)' <=> InUse(x)
    BY <1>3, <2>2 DEF InUse
  <2>4. CountersSound'
    BY <1>1, <2>2, <2>3 DEF OrderInv, CountersSound
  <2> QED
    BY <1>1, <1>2, <2>4, QuietKeepsOrder
<1>7. ASSUME state' = state, cpu'.at \notin {"initCompute", "initDma"},
             cpu'.at = "await" => state[cpu'.stream] = "alive"
      PROVE  OrderInv'
  <2>1. \A x : InUse(x)' <=> InUse(x)
    BY <1>7 DEF InUse
  <2>2. CountersSound'
    BY <1>1, <1>7, <2>1 DEF OrderInv, CountersSound
  <2> QED
    BY <1>1, <1>2, <2>2, QuietKeepsOrder
<1>8. CASE \E s \in Streams : Await(s)
  BY <1>7, <1>8 DEF Await, Ready
<1>9. CASE \/ EventSynchronizeReturns
           \/ \E s \in Streams, e \in Events : RecordEventFails(e, s)
           \/ \E e \in Events : EventSynchronize(e) \/ EventDestroy(e)
  BY <1>7, <1>9 DEF EventSynchronizeReturns, RecordEventFails, EventSynchronize,
                    EventDestroy, Ready, Idle
<1> QED
  BY <1>4, <1>5, <1>6, <1>8, <1>9

LEMMA StutterKeepsOrder ==
    ASSUME OrderInv, UNCHANGED vars
    PROVE  OrderInv'
<1>1. UNCHANGED <<gpuVars, queue, issued, unawaited, cpu, state>>
  BY DEF vars, hostVars
<1>2. \A x : /\ Cursor(x)' = Cursor(x) /\ Expected(x)' = Expected(x)
             /\ InUse(x)' <=> InUse(x)
  BY <1>1 DEF Cursor, Expected, InUse
<1>3. CountersSound'
  BY <1>1, <1>2 DEF OrderInv, CountersSound
<1> QED
  BY <1>1, <1>2, <1>3, QuietKeepsOrder

\* The current buffer joins its channel, and nothing is left.
LEMMA CommenceKeepsOrder ==
    ASSUME QueueInv, QueueInv', OrderInv, NEW s \in Streams, Commence(s)
    PROVE  OrderInv'
<1>1. PICK t : t = queue[s].currentQueueType
  OBVIOUS
<1>2. PICK q : q = [NotifyIfPending(queue[s], s, t) EXCEPT !.timelineNotifyPending = FALSE]
  OBVIOUS
<1>3. PICK r : r = [q EXCEPT !.buf[t] = <<>>]
  OBVIOUS
<1>4. PICK iss, p : iss = issued /\ p = queue[s]
  OBVIOUS
<1>5. /\ Ready(s) /\ t \in QueueTypes /\ queue[s].backlog = <<>>
      /\ queue[s].buf[Other(t)] = <<>>
      /\ fifo' = [fifo EXCEPT ![t] = fifo[t] \o q.buf[t]]
      /\ queue' = [queue EXCEPT ![s] = r]
      /\ unawaited' = [unawaited EXCEPT ![s] = IF q.buf[t] = <<>> THEN @ ELSE @ \cup {t}]
      /\ UNCHANGED <<running, done, value, issued, state, cpu>>
  BY <1>1, <1>2, <1>3 DEF Commence, SubmitToFifo
<1>6. /\ QueueSound(iss, p, s, 1, 0) /\ p \in NvCommandQueue
      /\ queue[s].timelineCtr = Len(issued[s]) + 2
      /\ \A x \in Streams : Cursor(x) = 1 /\ Expected(x) = 0
      /\ GpuTypeOK /\ GpuTypeOK' /\ r \in NvCommandQueue
      /\ queue \in [Streams -> NvCommandQueue]
      /\ unawaited \in [Streams -> SUBSET QueueTypes]
  BY <1>4, <1>5, ReadyQueue DEF QueueInv, TypeOK, HostTypeOK
<1>7. \A x \in Streams : Cursor(x)' = 1 /\ Expected(x)' = 0
  BY <1>5, <1>6 DEF Cursor, Expected
<1>8. Good(iss, p, s, t)
  BY <1>1, <1>4, <1>5, <1>6, SoundGood
<1>9. /\ Good(iss, q, s, t)
      /\ q.timelineCtr = p.timelineCtr
  <2>1. q = [NotifyIfPending(p, s, t) EXCEPT !.timelineNotifyPending = FALSE]
    BY <1>2, <1>4
  <2>2. t \in QueueTypes /\ GpuTypeOK
    BY <1>5, <1>6
  <2> QED
    BY ONLY <1>8, <2>1, <2>2, s \in Streams, NotifyIfPendingGood
<1>10. Grows(p, q)
  BY <1>2, <1>4, <1>5, <1>6, NotifyIfPendingGrows
<1>11. /\ q \in NvCommandQueue /\ q.backlog = <<>> /\ q.currentQueueType = t
       /\ q.buf[Other(t)] = <<>> /\ q.buf[t] \in Seq(Command)
  BY <1>4, <1>5, <1>9, <1>10 DEF Good, Grows, NvCommandQueue
<1>12. /\ r.backlog = <<>> /\ r.currentQueueType = t /\ r.timelineCtr = q.timelineCtr
       /\ \A u \in QueueTypes : r.buf[u] = <<>>
  BY <1>3, <1>5, <1>11 DEF NvCommandQueue, Other, QueueTypes
<1>13. Line(q) = fifo[t] \o q.buf[t] /\ Sure(q, s) = done /\ Busy(q) = Underway(t)
  BY <1>11 DEF Line, Front, Sure, Busy
<1>14. /\ Ordered(iss, fifo[t] \o q.buf[t], t, done, Underway(t))
       /\ Covered(iss, fifo[t] \o q.buf[t], t, done, Underway(t), s, q.timelineCtr)
  BY <1>9, <1>11, <1>13 DEF Good, RestSound, Sound
<1>15. ChannelsSound'
  BY <1>4, <1>5, <1>6, <1>11, <1>14, ChannelGrows DEF OrderInv
<1>16. Covered(iss, fifo[t], t, done, Underway(t), s, r.timelineCtr)'
  <2>1. fifo'[t] = fifo[t] \o q.buf[t] /\ Underway(t)' = Underway(t)
    BY <1>5, <1>6 DEF GpuTypeOK, Underway
  <2> QED
    BY <1>5, <1>12, <1>14, <2>1
<1>17. r.currentQueueType # "OTHER"
  BY <1>5, <1>12 DEF QueueTypes
<1>18. QueueSound(iss, r, s, 1, 0)'
  BY <1>4, <1>5, <1>6, <1>12, <1>15, <1>16, <1>17, EmptiedSound
<1>19. StreamsSound' /\ ValuesSound' /\ StartedSound'
  <2>1. QueueSound(issued, r, s, 1, 0)'
    BY <1>4, <1>5, <1>18
  <2>2. Ordered(issued, fifo[t] \o q.buf[t], t, done, Underway(t))
    BY <1>4, <1>14
  <2> QED
    BY <1>5, <1>6, <1>7, <1>11, <2>1, <2>2, PieceSubmitted
<1>20. \A x \in Streams \ {s} : queue'[x] = queue[x] /\ unawaited'[x] = unawaited[x]
  BY <1>5, <1>6
<1>21. queue'[s] = r /\ unawaited'[s] \subseteq {t}
       /\ (unawaited'[s] = {} => q.buf[t] = <<>> /\ unawaited[s] = {})
  <2>1. unawaited[s] \subseteq {t}
    BY <1>1, <1>5 DEF OrderInv, AwaitsSound
  <2> QED
    BY <1>5, <1>6, <2>1
<1>22. unawaited'[s] = {} => AllDone(s)'
  <2> SUFFICES ASSUME unawaited'[s] = {} PROVE AllDone(s)
    BY <1>5 DEF AllDone
  <2>1. \A u \in QueueTypes : q.buf[u] = <<>>
    <3>1. q.buf[t] = <<>>
      BY <1>21
    <3> QED
      BY <1>5, <1>11, <3>1 DEF Other, QueueTypes
  <2>2. ~Batch(s)
    BY <1>4, <1>5, <1>10, <2>1 DEF Batch, Grows
  <2> QED
    BY <1>21, <2>2 DEF OrderInv, AwaitsSound
<1>23. AwaitsSound'
  <2>1. ASSUME NEW x \in Streams
        PROVE  /\ (queue[x].backlog = <<>> => unawaited[x] \subseteq {queue[x].currentQueueType})'
               /\ (unawaited[x] = {} /\ ~Batch(x) => AllDone(x))'
    <3>1. CASE x = s
      BY <1>12, <1>21, <1>22, <3>1
    <3>2. CASE x # s
      <4>1. done' = done /\ queue'[x] = queue[x] /\ issued'[x] = issued[x]
            /\ unawaited'[x] = unawaited[x]
        BY <1>5, <1>20, <3>2
      <4> QED
        BY <4>1, OthersRest
    <3> QED
      BY <3>1, <3>2
  <2> QED
    BY <2>1 DEF AwaitsSound
<1>24. CountersSound'
  <2>1. /\ InUse(s) /\ cpu'.at = "idle"
        /\ \A x : InUse(x)' <=> InUse(x)
    BY <1>5 DEF InUse, Ready, Idle
  <2>2. queue'[s].timelineCtr = Len(issued[s]) + 2
    BY <1>4, <1>6, <1>9, <1>12, <1>21
  <2> QED
    BY <1>5, <1>20, <2>1, <2>2 DEF OrderInv, CountersSound
<1> QED
  BY <1>15, <1>19, <1>23, <1>24 DEF OrderInv

-----------------------------------------------------------------------------
(* Playing back the backlog.                                               *)

LEMMA SoundType ==
    ASSUME NEW iss, NEW q \in NvCommandQueue, NEW s, NEW k, NEW w,
           QueueSound(iss, q, s, k, w), q.backlog # <<>>
    PROVE  q.currentQueueType \in QueueTypes
BY DEF QueueSound, NvCommandQueue

\* What Commence finds in the buffers joins the backlog.
LEMMA BothBacklogged ==
    ASSUME NEW iss, NEW q \in NvCommandQueue, NEW s, QueueSound(iss, q, s, 1, 0),
           q.backlog # <<>>
    PROVE  LET r == BacklogCurrentCmdBuffer(BacklogCurrentCmdBuffer(q, "COMPUTE"), "DMA")
           IN  /\ QueueSound(iss, r, s, 1, 0)
               /\ r.timelineCtr = q.timelineCtr
               /\ r.backlog # <<>>
<1>1. PICK t \in QueueTypes : t = q.currentQueueType
  BY SoundType
<1>2. q.buf[Other(t)] = <<>> /\ Other(t) \in QueueTypes
  BY <1>1, OtherType DEF QueueSound, OneBuffer
<1>3. \A p, u : p.buf[u] = <<>> => BacklogCurrentCmdBuffer(p, u) = p
  BY DEF BacklogCurrentCmdBuffer
<1>4. CASE q.buf[t] = <<>>
  <2>1. q.buf["COMPUTE"] = <<>> /\ q.buf["DMA"] = <<>>
    BY <1>2, <1>4 DEF Other, QueueTypes
  <2>2. BacklogCurrentCmdBuffer(BacklogCurrentCmdBuffer(q, "COMPUTE"), "DMA") = q
    BY <1>3, <2>1
  <2> QED
    BY <2>2
<1>5. CASE q.buf[t] # <<>>
  <2>1. PICK r : r = BacklogCurrentCmdBuffer(q, t)
    OBVIOUS
  <2>2. BacklogSound(iss, q, s, 1, 0) /\ RestSound(iss, q, s)
    BY <1>1 DEF QueueSound
  <2>3. /\ BacklogSound(iss, r, s, 1, 0)
        /\ r \in NvCommandQueue
        /\ r.backlog # <<>>
        /\ Last(r).timelineCtr = q.timelineCtr
        /\ r.timelineCtr = q.timelineCtr
        /\ r.buf[t] = <<>>
        /\ r.buf[Other(t)] = <<>>
        /\ r.currentQueueType = t
    BY <1>1, <1>2, <1>5, <2>1, <2>2, BacklogGood
  <2>4. BacklogCurrentCmdBuffer(BacklogCurrentCmdBuffer(q, "COMPUTE"), "DMA") = r
    <3>1. CASE t = "COMPUTE"
      <4>1. r.buf["DMA"] = <<>>
        BY <2>3, <3>1 DEF Other
      <4> QED
        BY <1>3, <2>1, <3>1, <4>1
    <3>2. CASE t = "DMA"
      <4>1. q.buf["COMPUTE"] = <<>>
        BY <1>2, <3>2 DEF Other
      <4> QED
        BY <1>3, <2>1, <3>2, <4>1
    <3> QED
      BY <1>1, <3>1, <3>2 DEF QueueTypes
  <2>5. RestSound(iss, r, s)
    BY <2>3, EmptyRestSound
  <2>6. QueueSound(iss, r, s, 1, 0)
    <3>1. OneBuffer(r) /\ r.currentQueueType # "OTHER"
      BY <1>1, <2>3 DEF OneBuffer, QueueTypes, Other
    <3> QED
      BY <2>3, <2>5, <3>1 DEF QueueSound
  <2> QED
    BY <2>3, <2>4, <2>6
<1> QED
  BY <1>4, <1>5

LEMMA CommenceBacklogKeepsOrder ==
    ASSUME QueueInv, Once, OrderInv, NEW s \in Streams, CommenceBacklog(s)
    PROVE  OrderInv'
<1>1. PICK iss, q : iss = issued /\ q = queue[s]
  OBVIOUS
<1>2. PICK r : r = BacklogCurrentCmdBuffer(BacklogCurrentCmdBuffer(q, "COMPUTE"), "DMA")
  OBVIOUS
<1>3. /\ Ready(s) /\ q.backlog # <<>>
      /\ queue' = [queue EXCEPT ![s] = r]
      /\ cpu' = [at |-> "submit", stream |-> s, entry |-> 1]
      /\ UNCHANGED <<gpuVars, state, issued, unawaited>>
  BY <1>1, <1>2 DEF CommenceBacklog
<1>4. /\ q \in NvCommandQueue /\ QueueSound(iss, q, s, 1, 0)
      /\ q.timelineCtr = Len(issued[s]) + 2
      /\ \A x \in Streams : Cursor(x) = 1 /\ Expected(x) = 0
      /\ queue \in [Streams -> NvCommandQueue]
  BY <1>1, <1>3, ReadyQueue DEF QueueInv, TypeOK, HostTypeOK
<1>5. QueueSound(iss, r, s, 1, 0) /\ r.timelineCtr = q.timelineCtr /\ r.backlog # <<>>
  BY <1>2, <1>3, <1>4, BothBacklogged
<1>6. \A x \in Streams : Cursor(x)' = 1 /\ Expected(x)' = 0
  BY <1>3 DEF Cursor, Expected
<1>7. Remembers(iss, issued)
  BY <1>1 DEF Remembers
<1>8. StreamsSound' /\ ChannelsSound' /\ ValuesSound' /\ StartedSound'
  BY <1>1, <1>3, <1>4, <1>5, <1>6, <1>7, QueueChanged
<1>9. /\ queue'[s] = r /\ done' = done
      /\ \A x \in Streams \ {s} : queue'[x] = queue[x]
      /\ \A x : issued'[x] = issued[x] /\ unawaited'[x] = unawaited[x]
  BY <1>3, <1>4 DEF gpuVars
<1>10. AwaitsSound'
  <2>1. ASSUME NEW x \in Streams
        PROVE  /\ (queue[x].backlog = <<>> => unawaited[x] \subseteq {queue[x].currentQueueType})'
               /\ (unawaited[x] = {} /\ ~Batch(x) => AllDone(x))'
    <3>1. CASE x = s
      BY <1>5, <1>9, <3>1 DEF Batch
    <3>2. CASE x # s
      BY <1>9, <3>2, OthersRest
    <3> QED
      BY <3>1, <3>2
  <2> QED
    BY <2>1 DEF AwaitsSound
<1>11. CountersSound'
  <2>1. /\ InUse(s) /\ cpu'.at = "submit" /\ cpu'.stream = s /\ state'[s] = "alive"
        /\ \A x : InUse(x)' <=> InUse(x)
    BY <1>3 DEF InUse, Ready
  <2>2. queue'[s].timelineCtr = Len(issued[s]) + 2
    BY <1>4, <1>5, <1>9
  <2> QED
    BY <1>3, <1>9, <2>1, <2>2 DEF OrderInv, CountersSound
<1> QED
  BY <1>8, <1>10, <1>11 DEF OrderInv

\* What Commence hands over of a piece: its commands, and the release of the
\* timeline it still lacks.
Handed(piece, s) ==
    IF piece.timelineNotifyPending
      THEN Append(piece.buf, [kind |-> "release", sig |-> Timeline(s),
                              payload |-> piece.timelineCtr])
      ELSE piece.buf

LEMMA HandedSound ==
    ASSUME GpuTypeOK, NEW iss, NEW s \in Streams, NEW piece \in Split, NEW t,
           t = piece.type, InLine(iss, piece, s)
    PROVE  /\ Handed(piece, s) \in Seq(Command)
           /\ Ordered(iss, fifo[t] \o Handed(piece, s), t, done, Underway(t))
<1> DEFINE cmd == [kind |-> "release", sig |-> Timeline(s), payload |-> piece.timelineCtr]
           seq == fifo[t] \o piece.buf
<1>1. /\ t \in QueueTypes /\ piece.buf \in Seq(Command) /\ fifo[t] \in Seq(Command)
      /\ piece.timelineCtr \in Nat
  BY SplitFields, CounterIsNat DEF GpuTypeOK, Split
<1>2. /\ cmd \in Command /\ ~IsWork(cmd) /\ cmd.kind = "release"
      /\ cmd.sig = Timeline(s) /\ cmd.payload = piece.timelineCtr
  BY <1>1, CommandTypes, TimelineIsSignal DEF IsWork
<1>3. Handed(piece, s) = Append(piece.buf, cmd) \/ Handed(piece, s) = piece.buf
  BY DEF Handed
<1> HIDE DEF cmd
<1>4. /\ Append(piece.buf, cmd) \in Seq(Command)
      /\ fifo[t] \o Append(piece.buf, cmd) = Append(seq, cmd)
      /\ seq \in Seq(Command)
  <2>1. \A a, b \in Seq(Command) : /\ a \o Append(b, cmd) = Append(a \o b, cmd)
                                  /\ Append(b, cmd) \in Seq(Command)
                                  /\ a \o b \in Seq(Command)
    BY <1>2
  <2> QED
    BY <1>1, <2>1
<1>5. /\ Ordered(iss, seq, t, done, Underway(t))
      /\ Covered(iss, seq, t, done, Underway(t), s, piece.timelineCtr)
  BY DEF InLine, Sound
<1> HIDE DEF seq
<1>6. \A o \in Upto(s, piece.timelineCtr) :
          o \in done \/ Comes(seq, Len(seq) + 1, Underway(t), o)
  BY <1>5 DEF Covered, Present
<1>7. Fits(iss, cmd, seq, Len(seq) + 1, t, done, Underway(t))
  BY <1>2, <1>6, TimelineOfOp DEF Fits
<1>8. Ordered(iss, Append(seq, cmd), t, done, Underway(t))
  BY <1>1, <1>2, <1>4, <1>5, <1>7, AppendedSound
<1> QED
  BY <1>1, <1>3, <1>4, <1>5, <1>8 DEF seq

\* The piece under the cursor, in its buffer, which is then emptied.
LEMMA LoadedFields ==
    ASSUME QueueInv, cpu.at = "submit", NEW s \in Streams, s = cpu.stream,
           NEW piece \in Split, piece = queue[s].backlog[cpu.entry],
           NEW t \in QueueTypes, t = piece.type
    PROVE  LET q == Loaded(s, piece)
           IN  /\ q \in NvCommandQueue
               /\ q.buf[t] = Handed(piece, s)
               /\ q.buf[Other(t)] = <<>>
               /\ q.backlog = queue[s].backlog
               /\ q.timelineCtr = queue[s].timelineCtr
               /\ q.currentQueueType = queue[s].currentQueueType
<1> DEFINE l == [queue[s] EXCEPT !.buf[t] = piece.buf]
<1>1. queue[s] \in NvCommandQueue
  BY DEF QueueInv, TypeOK, HostTypeOK
<1>2. /\ Loaded(s, piece) \in NvCommandQueue
      /\ Loaded(s, piece).backlog = queue[s].backlog
      /\ Loaded(s, piece).buf[Other(t)] = <<>>
  BY LoadedTyped
<1>3. Loaded(s, piece) = IF piece.timelineNotifyPending
                           THEN SignalNotify(l, Timeline(s), piece.timelineCtr, t)
                           ELSE l
  BY DEF Loaded
<1>4. /\ l.buf[t] = piece.buf /\ t \in DOMAIN l.buf
      /\ l.timelineCtr = queue[s].timelineCtr
      /\ l.currentQueueType = queue[s].currentQueueType
  BY <1>1 DEF NvCommandQueue
<1>5. DOMAIN l = DOMAIN queue[s] /\ {"buf", "timelineCtr", "currentQueueType"} \subseteq DOMAIN l
  BY <1>1 DEF NvCommandQueue
<1> HIDE DEF l
<1>6. LET n == SignalNotify(l, Timeline(s), piece.timelineCtr, t)
      IN  /\ n.buf[t] = Append(piece.buf, [kind |-> "release", sig |-> Timeline(s),
                                           payload |-> piece.timelineCtr])
          /\ n.timelineCtr = queue[s].timelineCtr
          /\ n.currentQueueType = queue[s].currentQueueType
  BY <1>4, <1>5 DEF SignalNotify, Enqueue
<1> QED
  BY <1>2, <1>3, <1>4, <1>6 DEF Handed

\* The CPU is at the e-th piece of the backlog of q, the queue of s.
Playing(iss, q, s, e) ==
    /\ s \in Streams /\ q \in NvCommandQueue
    /\ e \in 1..Len(q.backlog) /\ e \in Nat \ {0} /\ Len(q.backlog) \in Nat
    /\ \A i \in 1..Len(q.backlog) : q.backlog[i] \in Split
    /\ q.backlog # <<>>
    /\ \A t \in QueueTypes : q.buf[t] = <<>>
    /\ q.currentQueueType \in QueueTypes
    /\ RestSound(iss, q, s)
    /\ state[s] = "alive" /\ q.timelineCtr = Len(iss[s]) + 2
    /\ \A x \in Streams \ {s} : Cursor(x) = 1 /\ Expected(x) = 0
    /\ \A j \in (e + 1)..Len(q.backlog) :
          Behind(iss, q.backlog[j], s, q.backlog[j - 1].timelineCtr)
    /\ cpu.at = "submit" => InLine(iss, q.backlog[e], s)

LEMMA PlayedQueue ==
    ASSUME QueueInv, OrderInv, cpu.at \in {"submit", "wait"},
           NEW s, s = cpu.stream, NEW e, e = cpu.entry, NEW iss, iss = issued,
           NEW q, q = queue[s]
    PROVE  Playing(iss, q, s, e)
<1>1. s \in Streams /\ e \in Nat \ {0} /\ GpuTypeOK
  BY CpuFields DEF QueueInv, TypeOK
<1>2. q \in NvCommandQueue
  BY <1>1 DEF QueueInv, TypeOK, HostTypeOK
<1>3. e <= Len(q.backlog) /\ \A t \in QueueTypes : q.buf[t] = <<>>
  BY DEF QueueInv, CursorInBacklog
<1>4. q.backlog \in Seq(Split)
  BY <1>2 DEF NvCommandQueue
<1>5. /\ Len(q.backlog) \in Nat
      /\ \A i \in 1..Len(q.backlog) : q.backlog[i] \in Split
      /\ q.backlog = <<>> => Len(q.backlog) = 0
  <2> DEFINE b == q.backlog
  <2> HIDE DEF b
  <2>1. b \in Seq(Split) => /\ Len(b) \in Nat
                            /\ \A i \in 1..Len(b) : b[i] \in Split
                            /\ b = <<>> => Len(b) = 0
    OBVIOUS
  <2> QED
    BY <1>4, <2>1 DEF b
<1>6. e \in 1..Len(q.backlog) /\ q.backlog # <<>>
  BY <1>1, <1>3, <1>5
<1>7. /\ QueueSound(iss, q, s, Cursor(s), Expected(s))
      /\ \A x \in Streams \ {s} : Cursor(x) = 1 /\ Expected(x) = 0
  BY <1>1 DEF OrderInv, StreamsSound, Cursor, Expected
<1>8. q.currentQueueType \in QueueTypes /\ RestSound(iss, q, s)
  <2>1. q.currentQueueType \in QueueTypes
    BY <1>2, <1>6, <1>7, SoundType
  <2> QED
    BY <1>7, <2>1 DEF QueueSound
<1>9. state[s] = "alive" /\ q.timelineCtr = Len(iss[s]) + 2
  BY <1>1 DEF OrderInv, CountersSound, InUse
<1>10. CASE cpu.at = "submit"
  <2>1. Cursor(s) = e /\ Expected(s) = 0
    BY <1>10 DEF Cursor, Expected
  <2>2. BacklogSound(iss, q, s, e, 0)
    BY <1>7, <2>1 DEF QueueSound
  <2>3. InLine(iss, q.backlog[e], s)
    <3>1. e \in e..Len(q.backlog)
      BY <1>1, <1>3, <1>5
    <3> QED
      BY <2>2, <3>1 DEF BacklogSound
  <2>4. ASSUME NEW j \in (e + 1)..Len(q.backlog)
        PROVE  Behind(iss, q.backlog[j], s, q.backlog[j - 1].timelineCtr)
    <3>1. j \in e..Len(q.backlog) /\ j # e
      BY <1>1, <1>5
    <3> QED
      BY <2>2, <3>1 DEF BacklogSound
  <2> QED
    BY <1>1, <1>2, <1>3, <1>5, <1>6, <1>7, <1>8, <1>9, <2>3, <2>4 DEF Playing
<1>11. CASE cpu.at = "wait"
  <2>1. Cursor(s) = e + 1 /\ Expected(s) = e
    BY <1>11 DEF Cursor, Expected
  <2>2. BacklogSound(iss, q, s, e + 1, e)
    BY <1>7, <2>1 DEF QueueSound
  <2>3. \A j \in (e + 1)..Len(q.backlog) :
            Behind(iss, q.backlog[j], s, q.backlog[j - 1].timelineCtr)
    BY <1>1, <2>2 DEF BacklogSound
  <2>4. cpu.at # "submit"
    BY <1>11
  <2> QED
    BY <1>1, <1>2, <1>3, <1>5, <1>6, <1>7, <1>8, <1>9, <2>3, <2>4 DEF Playing
<1> QED
  BY <1>10, <1>11

\* A timeline that has reached a counter vouches for the operations before it.
LEMMA ReachedDone ==
    ASSUME QueueInv, ValuesSound, NEW s \in Streams, NEW n \in Nat, value[Timeline(s)] >= n
    PROVE  Upto(s, n) \subseteq done
<1>1. value[Timeline(s)] \in Nat
  BY TimelineIsSignal DEF QueueInv, TypeOK, GpuTypeOK
<1>2. ASSUME NEW o \in Upto(s, n) PROVE o \in done
  <2>1. o \in Ops /\ o[1] = s /\ o[2] + 2 <= n /\ o[2] \in Nat
    BY OpFields DEF Upto
  <2>2. o[2] + 2 <= value[Timeline(o[1])]
    BY <1>1, <2>1
  <2> QED
    BY <2>1, <2>2 DEF ValuesSound
<1> QED
  BY <1>2

LEMMA SubmitEntryKeepsOrder ==
    ASSUME QueueInv, QueueInv', OrderInv, SubmitEntry
    PROVE  OrderInv'
<1>1. PICK s, e : s = cpu.stream /\ e = cpu.entry
  OBVIOUS
<1>2. PICK iss, p : iss = issued /\ p = queue[s]
  OBVIOUS
<1>3. cpu.at = "submit"
  BY DEF SubmitEntry
<1>22. Playing(iss, p, s, e)
  BY <1>1, <1>2, <1>3, PlayedQueue
<1>4. /\ s \in Streams /\ p \in NvCommandQueue /\ GpuTypeOK
      /\ e \in 1..Len(p.backlog) /\ e \in Nat \ {0} /\ Len(p.backlog) \in Nat
      /\ \A i \in 1..Len(p.backlog) : p.backlog[i] \in Split
      /\ p.backlog # <<>>
      /\ p.currentQueueType \in QueueTypes
      /\ RestSound(iss, p, s)
      /\ state[s] = "alive" /\ p.timelineCtr = Len(iss[s]) + 2
      /\ \A x \in Streams \ {s} : Cursor(x) = 1 /\ Expected(x) = 0
      /\ \A j \in (e + 1)..Len(p.backlog) :
            Behind(iss, p.backlog[j], s, p.backlog[j - 1].timelineCtr)
      /\ InLine(iss, p.backlog[e], s)
      /\ \A u \in QueueTypes : p.buf[u] = <<>>
  BY <1>3, <1>22 DEF Playing, QueueInv, TypeOK
<1>5. PICK piece \in Split : piece = p.backlog[e]
  BY <1>4
<1>6. PICK t \in QueueTypes : t = piece.type
  BY <1>5, SplitFields
<1>7. PICK q : q = Loaded(s, piece)
  OBVIOUS
<1>8. PICK r : r = [q EXCEPT !.buf[t] = <<>>]
  OBVIOUS
<1>9. PICK b : b = Handed(piece, s)
  OBVIOUS
<1>10. /\ q \in NvCommandQueue /\ q.buf[t] = b /\ q.buf[Other(t)] = <<>>
       /\ q.backlog = p.backlog /\ q.timelineCtr = p.timelineCtr
       /\ q.currentQueueType = p.currentQueueType
  BY <1>1, <1>2, <1>3, <1>4, <1>5, <1>6, <1>7, <1>9, LoadedFields
<1>11. /\ fifo' = [fifo EXCEPT ![t] = fifo[t] \o b]
       /\ queue' = [queue EXCEPT ![s] = r]
       /\ cpu' = [cpu EXCEPT !.at = "wait"]
       /\ UNCHANGED <<running, done, value, issued, state, unawaited>>
  BY <1>1, <1>2, <1>5, <1>6, <1>7, <1>8, <1>10 DEF SubmitEntry, SubmitToFifo
<1>12. cpu'.at = "wait" /\ cpu'.stream = s /\ cpu'.entry = e
  BY <1>1, <1>3, <1>11 DEF QueueInv, TypeOK, HostTypeOK, CpuState, Idle
<1>13. /\ Cursor(s)' = e + 1 /\ Expected(s)' = e
       /\ \A x \in Streams \ {s} : Cursor(x)' = Cursor(x) /\ Expected(x)' = Expected(x)
  BY <1>4, <1>12 DEF Cursor, Expected
<1>14. /\ r.backlog = p.backlog /\ r.timelineCtr = p.timelineCtr
       /\ r.currentQueueType = p.currentQueueType
       /\ \A u \in QueueTypes : r.buf[u] = <<>>
  BY <1>8, <1>10 DEF NvCommandQueue, Other, QueueTypes
<1>15. b \in Seq(Command) /\ Ordered(iss, fifo[t] \o b, t, done, Underway(t))
  BY <1>4, <1>5, <1>6, <1>9, HandedSound
<1>16. PICK k, w : k = e + 1 /\ w = e
  OBVIOUS
<1>17. QueueSound(iss, r, s, k, w)'
  <2>1. OneBuffer(r) /\ r.currentQueueType # "OTHER"
    BY <1>4, <1>14 DEF OneBuffer, QueueTypes
  <2>2. BacklogSound(iss, r, s, k, w)'
    <3>1. ~(w = 0)
      BY <1>4, <1>16
    <3>2. \A j \in k..Len(r.backlog) :
              Behind(iss, r.backlog[j], s, r.backlog[j - 1].timelineCtr)
      BY <1>4, <1>14, <1>16
    <3> QED
      BY <3>1, <3>2 DEF BacklogSound, Behind
  <2>3. RestSound(iss, r, s)'
    <3>1. p.buf[p.currentQueueType] = <<>> /\ r.buf[r.currentQueueType] = <<>>
      BY <1>4, <1>14
    <3> QED
      BY <1>4, <1>14, <3>1 DEF RestSound, Line, Front, Sure, Busy, Last
  <2> QED
    BY <2>1, <2>2, <2>3 DEF QueueSound, OneBuffer
<1>18. StreamsSound' /\ ChannelsSound' /\ ValuesSound' /\ StartedSound'
  <2>1. QueueSound(issued, r, s, k, w)'
    BY <1>2, <1>11, <1>17
  <2>2. Ordered(issued, fifo[t] \o b, t, done, Underway(t))
    BY <1>2, <1>15
  <2> QED
    BY <1>4, <1>11, <1>13, <1>15, <1>16, <2>1, <2>2, PieceSubmitted
<1>19. /\ queue'[s] = r
       /\ \A x \in Streams \ {s} : queue'[x] = queue[x]
       /\ \A x : issued'[x] = issued[x] /\ unawaited'[x] = unawaited[x]
  BY <1>4, <1>11 DEF QueueInv, TypeOK, HostTypeOK
<1>20. AwaitsSound'
  <2>1. ASSUME NEW x \in Streams
        PROVE  /\ (queue[x].backlog = <<>> => unawaited[x] \subseteq {queue[x].currentQueueType})'
               /\ (unawaited[x] = {} /\ ~Batch(x) => AllDone(x))'
    <3>1. CASE x = s
      BY <1>4, <1>14, <1>19, <3>1 DEF Batch
    <3>2. CASE x # s
      BY <1>11, <1>19, <3>2, OthersRest
    <3> QED
      BY <3>1, <3>2
  <2> QED
    BY <2>1 DEF AwaitsSound
<1>21. CountersSound'
  <2>1. InUse(s) /\ state'[s] = "alive" /\ \A x : InUse(x)' <=> InUse(x)
    BY <1>4, <1>11 DEF InUse
  <2>2. queue'[s].timelineCtr = Len(issued[s]) + 2
    BY <1>2, <1>4, <1>14, <1>19
  <2> QED
    BY <1>11, <1>12, <1>19, <2>1, <2>2 DEF OrderInv, CountersSound
<1> QED
  BY <1>18, <1>20, <1>21 DEF OrderInv

\* A step of the CPU alone, to which the queue r of s is sound.
LEMMA QueueMoves ==
    ASSUME QueueInv, OrderInv, NEW s \in Streams, NEW r,
           queue' = [queue EXCEPT ![s] = r], UNCHANGED <<gpuVars, issued>>,
           \A x \in Streams \ {s} : Cursor(x)' = Cursor(x) /\ Expected(x)' = Expected(x),
           NEW k, NEW w, Cursor(s)' = k, Expected(s)' = w,
           NEW iss, iss = issued, QueueSound(iss, r, s, k, w)
    PROVE  StreamsSound' /\ ChannelsSound' /\ ValuesSound' /\ StartedSound'
<1>1. PICK u \in QueueTypes : TRUE
  BY DEF QueueTypes
<1>2. UNCHANGED <<fifo, running, done, value>> /\ fifo[u] \in Seq(Command) /\ GpuTypeOK
  BY <1>1 DEF gpuVars, QueueInv, TypeOK, GpuTypeOK
<1>3. fifo[u] \o <<>> = fifo[u] /\ <<>> \in Seq(Command)
  BY <1>2, EmptySound
<1>4. fifo' = [fifo EXCEPT ![u] = fifo[u] \o <<>>]
  BY <1>2, <1>3 DEF GpuTypeOK
<1>5. Ordered(issued, fifo[u] \o <<>>, u, done, Underway(u))
  BY <1>1, <1>3 DEF OrderInv, ChannelsSound
<1>6. QueueSound(iss, r, s, k, w)'
  <2>1. \A t : Underway(t)' = Underway(t)
    BY <1>2 DEF Underway
  <2>2. \A piece : InLine(iss, piece, s)' <=> InLine(iss, piece, s)
    BY <1>2, <2>1 DEF InLine
  <2>3. \A piece, base : Behind(iss, piece, s, base)' <=> Behind(iss, piece, s, base)
    BY DEF Behind
  <2>4. BacklogSound(iss, r, s, k, w)' <=> BacklogSound(iss, r, s, k, w)
    BY <2>2, <2>3 DEF BacklogSound
  <2>5. RestSound(iss, r, s)' <=> RestSound(iss, r, s)
    BY <1>2, <2>1 DEF RestSound, Line, Front, Sure, Busy, Last
  <2> QED
    BY <2>4, <2>5 DEF QueueSound, OneBuffer
<1>7. QueueSound(issued, r, s, k, w)'
  BY <1>6
<1> QED
  BY <1>1, <1>2, <1>3, <1>4, <1>5, <1>7, PieceSubmitted

\* The CPU, whose piece is complete, turns to the next one, which joins its channel.
LEMMA NextEntryKeepsOrder ==
    ASSUME QueueInv, OrderInv, NextEntry
    PROVE  OrderInv'
<1>1. PICK s, e, iss, p : s = cpu.stream /\ e = cpu.entry /\ iss = issued /\ p = queue[s]
  OBVIOUS
<1>2. /\ cpu.at = "wait" /\ value[Timeline(s)] >= p.backlog[e].timelineCtr
      /\ e < Len(p.backlog)
      /\ cpu' = [cpu EXCEPT !.at = "submit", !.entry = e + 1]
      /\ UNCHANGED <<gpuVars, queue, issued, state, unawaited>>
  BY <1>1 DEF NextEntry, EntryReached
<1>3. Playing(iss, p, s, e)
  BY <1>1, <1>2, PlayedQueue
<1>4. /\ s \in Streams /\ p \in NvCommandQueue /\ GpuTypeOK
      /\ e \in 1..Len(p.backlog) /\ e \in Nat \ {0} /\ Len(p.backlog) \in Nat
      /\ \A i \in 1..Len(p.backlog) : p.backlog[i] \in Split
      /\ p.currentQueueType \in QueueTypes
      /\ RestSound(iss, p, s)
      /\ state[s] = "alive"
      /\ \A x \in Streams \ {s} : Cursor(x) = 1 /\ Expected(x) = 0
      /\ \A j \in (e + 1)..Len(p.backlog) :
            Behind(iss, p.backlog[j], s, p.backlog[j - 1].timelineCtr)
      /\ \A u \in QueueTypes : p.buf[u] = <<>>
  BY <1>3 DEF Playing, QueueInv, TypeOK
<1>5. cpu'.at = "submit" /\ cpu'.stream = s /\ cpu'.entry = e + 1
  BY <1>1, <1>2 DEF QueueInv, TypeOK, HostTypeOK, CpuState, Idle
<1>6. PICK k : k = e + 1
  OBVIOUS
<1>7. /\ Cursor(s)' = k /\ Expected(s)' = 0
      /\ \A x \in Streams \ {s} : Cursor(x)' = Cursor(x) /\ Expected(x)' = Expected(x)
  BY <1>4, <1>5, <1>6 DEF Cursor, Expected
<1>8. PICK piece \in Split : piece = p.backlog[k]
  <2>1. k \in 1..Len(p.backlog)
    BY <1>2, <1>4, <1>6
  <2> QED
    BY <1>4, <2>1
<1>9. InLine(iss, piece, s)
  <2>1. PICK base : base = p.backlog[e].timelineCtr
    OBVIOUS
  <2>2. base \in Nat
    BY <1>4, <2>1, CounterIsNat DEF Split
  <2>3. Upto(s, base) \subseteq done
    BY <1>2, <1>4, <2>1, <2>2, ReachedDone DEF OrderInv
  <2>4. k \in (e + 1)..Len(p.backlog) /\ k - 1 = e
    BY <1>2, <1>4, <1>6
  <2>5. Behind(iss, p.backlog[k], s, p.backlog[k - 1].timelineCtr)
    BY <1>4, <2>4
  <2>6. Behind(iss, piece, s, base)
    BY <1>8, <2>1, <2>4, <2>5
  <2> QED
    BY <1>1, <1>4, <1>8, <2>3, <2>6, BehindJoins DEF OrderInv
<1>10. BacklogSound(iss, p, s, k, 0)
  BY <1>4, <1>6, <1>8, <1>9 DEF BacklogSound
<1>11. QueueSound(iss, p, s, k, 0)
  BY <1>4, <1>10 DEF QueueSound, OneBuffer, QueueTypes
<1>12. queue' = [queue EXCEPT ![s] = p]
  BY <1>1, <1>2, <1>4 DEF QueueInv, TypeOK, HostTypeOK
<1>13. StreamsSound' /\ ChannelsSound' /\ ValuesSound' /\ StartedSound'
  BY <1>1, <1>2, <1>4, <1>7, <1>11, <1>12, QueueMoves
<1>14. done' = done
  BY <1>2 DEF gpuVars
<1>15. AwaitsSound'
  BY <1>2, <1>14, OthersRest DEF AwaitsSound
<1>16. CountersSound'
  <2>1. state'[s] = "alive" /\ \A x : InUse(x)' <=> InUse(x)
    BY <1>2, <1>4 DEF InUse
  <2> QED
    BY <1>2, <1>5, <2>1 DEF OrderInv, CountersSound
<1> QED
  BY <1>13, <1>15, <1>16 DEF OrderInv

\* All that a stream has issued, when its timeline has reached its counter.
LEMMA ReachedAllDone ==
    ASSUME QueueInv, ValuesSound, NEW s \in Streams, value[Timeline(s)] >= Len(issued[s]) + 2
    PROVE  AllDone(s)
<1>1. Len(issued[s]) \in Nat
  BY DEF QueueInv, TypeOK, HostTypeOK
<1>2. Upto(s, Len(issued[s]) + 2) \subseteq done
  <2>1. PICK n \in Nat : n = Len(issued[s]) + 2
    BY <1>1
  <2> QED
    BY <2>1, ReachedDone
<1>3. \A o \in Ops : o[1] = s /\ o[2] <= Len(issued[s]) => o \in Upto(s, Len(issued[s]) + 2)
  BY <1>1, OpFields DEF Upto
<1> QED
  BY <1>2, <1>3 DEF AllDone

\* What AwaitsSound and CountersSound say when all of s is awaited.
LEMMA AwaitedRests ==
    ASSUME OrderInv, NEW s \in Streams, AllDone(s), UNCHANGED <<done, issued, state>>,
           cpu' = Idle, state[s] = "alive",
           unawaited \in [Streams -> SUBSET QueueTypes],
           unawaited' = [unawaited EXCEPT ![s] = {}],
           queue \in [Streams -> NvCommandQueue],
           NEW r, queue' = [queue EXCEPT ![s] = r],
           r.timelineCtr = queue[s].timelineCtr
    PROVE  AwaitsSound' /\ CountersSound'
<1>1. /\ queue'[s] = r /\ unawaited'[s] = {}
      /\ \A x \in Streams \ {s} : queue'[x] = queue[x] /\ unawaited'[x] = unawaited[x]
  OBVIOUS
<1>2. AllDone(s)'
  BY DEF AllDone
<1>3. AwaitsSound'
  <2>1. ASSUME NEW x \in Streams
        PROVE  /\ (queue[x].backlog = <<>> => unawaited[x] \subseteq {queue[x].currentQueueType})'
               /\ (unawaited[x] = {} /\ ~Batch(x) => AllDone(x))'
    <3>1. CASE x = s
      BY <1>1, <1>2, <3>1
    <3>2. CASE x # s
      BY <1>1, <3>2, OthersRest
    <3> QED
      BY <3>1, <3>2
  <2> QED
    BY <2>1 DEF AwaitsSound
<1>4. CountersSound'
  <2>1. cpu'.at = "idle" /\ InUse(s) /\ \A x : InUse(x)' <=> InUse(x)
    BY DEF InUse, Idle
  <2> QED
    BY <1>1, <2>1 DEF OrderInv, CountersSound
<1> QED
  BY <1>3, <1>4

\* After the last piece nothing of the stream is left.
LEMMA CommenceReturnsKeepsOrder ==
    ASSUME QueueInv, OrderInv, CommenceReturns
    PROVE  OrderInv'
<1>1. PICK s, e, iss, p : s = cpu.stream /\ e = cpu.entry /\ iss = issued /\ p = queue[s]
  OBVIOUS
<1>2. PICK r : r = [p EXCEPT !.backlog = <<>>]
  OBVIOUS
<1>3. /\ cpu.at = "wait" /\ value[Timeline(s)] >= p.backlog[e].timelineCtr
      /\ e = Len(p.backlog)
      /\ queue' = [queue EXCEPT ![s] = r]
      /\ unawaited' = [unawaited EXCEPT ![s] = {}]
      /\ cpu' = Idle
      /\ UNCHANGED <<gpuVars, issued, state>>
  BY <1>1, <1>2 DEF CommenceReturns, EntryReached
<1>4. Playing(iss, p, s, e)
  BY <1>1, <1>3, PlayedQueue
<1>5. /\ s \in Streams /\ p \in NvCommandQueue /\ GpuTypeOK
      /\ e \in 1..Len(p.backlog)
      /\ \A i \in 1..Len(p.backlog) : p.backlog[i] \in Split
      /\ p.backlog # <<>>
      /\ p.currentQueueType \in QueueTypes
      /\ RestSound(iss, p, s)
      /\ state[s] = "alive" /\ p.timelineCtr = Len(iss[s]) + 2
      /\ \A x \in Streams \ {s} : Cursor(x) = 1 /\ Expected(x) = 0
      /\ \A u \in QueueTypes : p.buf[u] = <<>>
  BY <1>4 DEF Playing, QueueInv, TypeOK
<1>6. PICK t \in QueueTypes : t = p.currentQueueType
  BY <1>5
<1>7. /\ r.backlog = <<>> /\ r.currentQueueType = t /\ r.timelineCtr = p.timelineCtr
      /\ \A u \in QueueTypes : r.buf[u] = <<>>
  BY <1>2, <1>5, <1>6 DEF NvCommandQueue
<1>8. \A x \in Streams : Cursor(x)' = 1 /\ Expected(x)' = 0
  BY <1>3 DEF Cursor, Expected, Idle
<1>9. Upto(s, p.timelineCtr) \subseteq done
  <2>1. PICK n : n = Last(p).timelineCtr
    OBVIOUS
  <2>2. n \in Nat /\ value[Timeline(s)] >= n
    BY <1>3, <1>5, <2>1, CounterIsNat DEF Last, Split
  <2>3. Upto(s, n) \subseteq done
    BY <1>5, <2>2, ReachedDone DEF OrderInv
  <2>4. Line(p) = <<>> /\ Sure(p, s) = Upto(s, n) /\ Busy(p) = {}
    BY <1>5, <2>1, EmptySound DEF Line, Front, Sure, Busy
  <2>5. \A o : ~Comes(<<>>, Len(<<>>) + 1, {}, o)
    BY DEF Comes
  <2>6. \A o \in Upto(s, p.timelineCtr) : o \in Upto(s, n)
    BY <1>5, <2>4, <2>5 DEF RestSound, Sound, Covered, Present
  <2> QED
    BY <2>3, <2>6
<1>10. AllDone(s)
  <2>1. Len(issued[s]) \in Nat /\ p.timelineCtr = Len(issued[s]) + 2
    BY <1>1, <1>5 DEF QueueInv, TypeOK, HostTypeOK
  <2>2. \A o \in Ops : o[1] = s /\ o[2] <= Len(issued[s]) => o \in Upto(s, p.timelineCtr)
    BY <2>1, OpFields DEF Upto
  <2> QED
    BY <1>9, <2>2 DEF AllDone
<1>11. QueueSound(iss, r, s, 1, 0)
  <2>1. fifo[t] \in Seq(Command) /\ Ordered(iss, fifo[t], t, done, Underway(t))
    BY <1>1, <1>5 DEF GpuTypeOK, OrderInv, ChannelsSound
  <2>2. Line(r) = fifo[t] /\ Sure(r, s) = done /\ Busy(r) = Underway(t)
    BY <1>7, <2>1, EmptySound DEF Line, Front, Sure, Busy
  <2>3. RestSound(iss, r, s)
    BY <1>7, <1>9, <2>1, <2>2 DEF RestSound, Sound, Covered, Present
  <2>4. BacklogSound(iss, r, s, 1, 0)
    BY <1>7 DEF BacklogSound
  <2> QED
    BY <1>6, <1>7, <2>3, <2>4 DEF QueueSound, OneBuffer, QueueTypes
<1>12. StreamsSound' /\ ChannelsSound' /\ ValuesSound' /\ StartedSound'
  BY <1>1, <1>3, <1>5, <1>8, <1>11, QueueMoves
<1>13. AwaitsSound' /\ CountersSound'
  <2>1. /\ UNCHANGED <<done, issued, state>>
        /\ unawaited \in [Streams -> SUBSET QueueTypes]
        /\ queue \in [Streams -> NvCommandQueue]
        /\ r.timelineCtr = queue[s].timelineCtr
    BY <1>1, <1>3, <1>7 DEF gpuVars, QueueInv, TypeOK, HostTypeOK
  <2> QED
    BY <1>3, <1>5, <1>10, <2>1, AwaitedRests
<1> QED
  BY <1>12, <1>13 DEF OrderInv

LEMMA AwaitReturnsKeepsOrder ==
    ASSUME QueueInv, OrderInv, AwaitReturns
    PROVE  OrderInv'
<1>1. PICK s, iss, p : s = cpu.stream /\ iss = issued /\ p = queue[s]
  OBVIOUS
<1>2. PICK r : r = [p EXCEPT !.kernArgsWriteIdx = 0]
  OBVIOUS
<1>3. /\ cpu.at = "await" /\ value[Timeline(s)] >= p.timelineCtr
      /\ queue' = [queue EXCEPT ![s] = r]
      /\ unawaited' = [unawaited EXCEPT ![s] = {}]
      /\ cpu' = Idle
      /\ UNCHANGED <<gpuVars, issued, state>>
  BY <1>1, <1>2 DEF AwaitReturns, SignalReached
<1>4. /\ s \in Streams /\ state[s] = "alive" /\ p.timelineCtr = Len(issued[s]) + 2
      /\ p \in NvCommandQueue
      /\ queue \in [Streams -> NvCommandQueue]
      /\ unawaited \in [Streams -> SUBSET QueueTypes]
  BY <1>1, <1>3, CpuFields DEF QueueInv, TypeOK, HostTypeOK, OrderInv, CountersSound, InUse
<1>5. \A x \in Streams : /\ Cursor(x) = 1 /\ Cursor(x)' = 1
                         /\ Expected(x) = 0 /\ Expected(x)' = 0
  BY <1>3 DEF Cursor, Expected, Idle
<1>6. QueueSound(iss, p, s, 1, 0)
  BY <1>1, <1>4, <1>5 DEF OrderInv, StreamsSound
<1>7. /\ r.buf = p.buf /\ r.backlog = p.backlog /\ r.timelineCtr = p.timelineCtr
      /\ r.currentQueueType = p.currentQueueType
  BY <1>2, <1>4 DEF NvCommandQueue
<1>8. QueueSound(iss, r, s, 1, 0)
  BY <1>6, <1>7 DEF QueueSound, OneBuffer, BacklogSound, RestSound, Line, Front, Sure, Busy, Last
<1>9. StreamsSound' /\ ChannelsSound' /\ ValuesSound' /\ StartedSound'
  BY <1>1, <1>3, <1>4, <1>5, <1>8, QueueMoves
<1>10. AllDone(s)
  BY <1>3, <1>4, ReachedAllDone DEF OrderInv
<1>11. UNCHANGED <<done, issued, state>> /\ r.timelineCtr = queue[s].timelineCtr
  BY <1>1, <1>3, <1>7 DEF gpuVars
<1>12. AwaitsSound' /\ CountersSound'
  BY <1>3, <1>4, <1>10, <1>11, AwaitedRests
<1> QED
  BY <1>9, <1>12 DEF OrderInv

-----------------------------------------------------------------------------
(* Every step keeps the order.                                             *)

LEMMA OrderInit == Init => OrderInv
<1> SUFFICES ASSUME Init PROVE OrderInv
  OBVIOUS
<1>1. \A s \in Streams : /\ Cursor(s) = 1 /\ Expected(s) = 0 /\ ~InUse(s)
                         /\ issued[s] = <<>> /\ unawaited[s] = {}
                         /\ queue[s] = NewQueue(s, "OTHER")
  BY DEF Init, Cursor, Expected, InUse, Idle
<1>2. \A s : /\ NewQueue(s, "OTHER").backlog = <<>>
             /\ NewQueue(s, "OTHER").currentQueueType = "OTHER"
             /\ \A t \in QueueTypes : NewQueue(s, "OTHER").buf[t] = <<>>
  BY DEF NewQueue
<1>3. StreamsSound
  <2> SUFFICES ASSUME NEW s \in Streams
               PROVE  QueueSound(issued, queue[s], s, 1, 0)
    BY <1>1 DEF StreamsSound
  <2>1. PICK q : q = queue[s]
    OBVIOUS
  <2>2. /\ q.backlog = <<>> /\ q.currentQueueType = "OTHER" /\ issued[s] = <<>>
        /\ \A t \in QueueTypes : q.buf[t] = <<>>
    BY <1>1, <1>2, <2>1
  <2>3. OneBuffer(q) /\ BacklogSound(issued, q, s, 1, 0)
    BY <2>2 DEF OneBuffer, BacklogSound
  <2> QED
    BY <2>1, <2>2, <2>3 DEF QueueSound, QueueTypes
<1>4. ChannelsSound
  BY EmptySound DEF Init, GpuInit, ChannelsSound
<1>5. ValuesSound
  BY OpFields, TimelineIsSignal DEF Init, GpuInit, ValuesSound
<1>6. StartedSound
  BY DEF Init, GpuInit, StartedSound, Started, Executing
<1>7. AwaitsSound
  <2>1. ASSUME NEW s \in Streams PROVE AllDone(s)
    <3>1. Len(issued[s]) = 0
      BY <1>1
    <3>2. \A o \in Ops : ~(o[2] <= 0)
      BY OpFields
    <3> QED
      BY <3>1, <3>2 DEF AllDone
  <2>2. \A s \in Streams : unawaited[s] = {}
    BY <1>1
  <2> QED
    BY <2>1, <2>2 DEF AwaitsSound
<1>8. CountersSound
  BY <1>1, <1>2 DEF CountersSound, Init, Idle
<1> QED
  BY <1>3, <1>4, <1>5, <1>6, <1>7, <1>8 DEF OrderInv

LEMMA CallKeepsOrder ==
    ASSUME Orderly, QueueInv, QueueInv', IssuedInv, Once, OrderInv, NEW s \in Streams, Call(s)
    PROVE  OrderInv'
<1>1. CASE StreamCreate(s)
  BY <1>1, StreamCreateKeepsOrder
<1>2. CASE StreamCreateFails(s) \/ StreamDestroy(s) \/ Await(s)
           \/ \E e \in Events : RecordEventFails(e, s)
  BY <1>2, QuietCallsKeepOrder
<1>3. CASE \E f \in Funcs : LaunchFailsLocalMem(s, f)
  BY <1>3, LaunchFailsLocalMemKeepsOrder
<1>4. CASE \E f \in Funcs, async \in BOOLEAN : LaunchFunction(s, f, async)
  BY <1>4, LaunchFunctionKeepsOrder
<1>5. CASE \E f \in Funcs, async \in BOOLEAN : LaunchFailsLate(s, f, async)
  BY <1>5, LaunchFailsLateKeepsOrder
<1>6. CASE \E async \in BOOLEAN : GpuMemcpy(s, async)
  BY <1>6, GpuMemcpyKeepsOrder
<1>7. CASE \E e \in Events : RecordEvent(e, s)
  BY <1>7, RecordEventKeepsOrder
<1>8. CASE Commence(s)
  BY <1>8, CommenceKeepsOrder
<1>9. CASE CommenceFails(s)
  BY <1>9 DEF CommenceFails, Orderly
<1>10. CASE CommenceBacklog(s)
  BY <1>10, CommenceBacklogKeepsOrder
<1> QED
  BY <1>1, <1>2, <1>3, <1>4, <1>5, <1>6, <1>7, <1>8, <1>9, <1>10 DEF Call

LEMMA OrderStep ==
    ASSUME Orderly, QueueInv, IssuedInv, Once, OrderInv, [Next]_vars
    PROVE  OrderInv'
<1>1. QueueInv'
  BY QueueStep
<1>2. CASE GpuStep
  BY <1>2, GpuStepKeepsOrder
<1>3. CASE InitComputeReturns \/ SubmitEntry
  BY <1>1, <1>3, InitComputeReturnsKeepsOrder, SubmitEntryKeepsOrder
<1>4. CASE NextEntry \/ CommenceReturns \/ AwaitReturns
  BY <1>4, NextEntryKeepsOrder, CommenceReturnsKeepsOrder, AwaitReturnsKeepsOrder
<1>5. CASE InitDmaReturns \/ EventSynchronizeReturns
           \/ \E e \in Events : EventSynchronize(e) \/ EventDestroy(e)
  BY <1>5, QuietCallsKeepOrder
<1>6. CASE SubmitEntryFails
  BY <1>6 DEF SubmitEntryFails, Orderly
<1>7. CASE \E s \in Streams : Call(s)
  BY <1>1, <1>7, CallKeepsOrder
<1>8. CASE Exit \/ UNCHANGED vars
  BY <1>8, StutterKeepsOrder DEF Exit
<1> QED
  BY <1>2, <1>3, <1>4, <1>5, <1>6, <1>7, <1>8 DEF Next, Return

\* The invariants of the queues, the places of the operations and their order.
StreamInv == QueueInv /\ IssuedInv /\ Once /\ OrderInv

LEMMA StreamInvInit == Init => StreamInv
BY QueueInit, PlacesInit, OrderInit DEF StreamInv

LEMMA StreamInvStep ==
    ASSUME Orderly
    PROVE  StreamInv /\ [Next]_vars => StreamInv'
BY QueueStep, IssuedStep, PlacesStep, OrderStep DEF StreamInv, Orderly

-----------------------------------------------------------------------------
(* What the streams promise.                                               *)

LEMMA InvInOrder == StreamInv => InOrder
<1> SUFFICES ASSUME StreamInv, NEW o \in Started
             PROVE  Order!Issued(o) /\ \A p \in Ops : Order!Precedes(p, o) => p \in done
  BY DEF InOrder, Order!InOrder, Ops, Order!Ops
<1>1. o \in Ops
  BY DEF StreamInv, Started, Executing, QueueInv, TypeOK, GpuTypeOK, Task, Launches, Copies
<1>2. WasIssued(o)
  BY <1>1 DEF StreamInv, Once, OnePlace
<1>3. Len(issued[o[1]]) \in Nat
  BY <1>1, OpFields DEF StreamInv, QueueInv, TypeOK, HostTypeOK
<1>4. Order!Issued(o)
  BY <1>2, <1>3 DEF WasIssued, Order!Issued
<1>5. \A p : Order!Precedes(p, o) => Precedes(issued, p, o)
  BY DEF Order!Precedes, Precedes
<1> QED
  BY <1>4, <1>5 DEF StreamInv, OrderInv, StartedSound

\* No kernel or copy starts before the operations it must follow are complete,
\* through buffers, backlog and channels (cmdqueue.cpp:459-867): for every
\* program that awaits before it switches, when no submission is refused and
\* the counter does not wrap.
THEOREM OperationsInOrder == Orderly => (Spec => []InOrder)
<1> SUFFICES ASSUME Orderly PROVE Spec => []InOrder
  OBVIOUS
<1>1. StreamInv /\ [Next]_vars => StreamInv'
  BY StreamInvStep
<1> QED
  BY <1>1, StreamInvInit, InvInOrder, PTL DEF Spec

LEMMA InvIdleWhenEqual == StreamInv => IdleWhenEqual
<1> SUFFICES ASSUME StreamInv, NEW s \in Streams, NEW i \in 1..Len(issued[s]),
                    state[s] = "alive", value[Timeline(s)] = queue[s].timelineCtr
             PROVE  <<s, i>> \in done
  BY DEF IdleWhenEqual
<1>1. Len(issued[s]) \in Nat /\ Len(issued[s]) <= MaxOps
  BY DEF StreamInv, QueueInv, TypeOK, HostTypeOK, IssuedInv
<1>2. <<s, i>> \in Ops
  BY <1>1, StreamAssumption DEF Ops
<1>3. value[Timeline(s)] = Len(issued[s]) + 2
  BY DEF StreamInv, OrderInv, CountersSound, InUse
<1>4. AllDone(s)
  BY <1>1, <1>3, ReachedAllDone DEF StreamInv, OrderInv
<1> QED
  BY <1>1, <1>2, <1>4 DEF AllDone

\* What the CPU relies on when it finds that a timeline has met its counter and
\* lets a synchronous launch go without an acquire (signalWaitGpu,
\* cmdqueue.cpp:870-876): nothing of the stream is pending.
THEOREM NothingPendingWhenEqual == Orderly => (Spec => []IdleWhenEqual)
<1> SUFFICES ASSUME Orderly PROVE Spec => []IdleWhenEqual
  OBVIOUS
<1>1. StreamInv /\ [Next]_vars => StreamInv'
  BY StreamInvStep
<1> QED
  BY <1>1, StreamInvInit, InvIdleWhenEqual, PTL DEF Spec

-----------------------------------------------------------------------------
(* The streams implement StreamOrder.                                      *)

LEMMA StartedKept == UNCHANGED <<running, done>> => Started' = Started
BY DEF Started, Executing

LEMMA OrderSpecInit == Init => Order!Init
BY DEF Init, GpuInit, Order!Init, Started, Executing

\* The GPU starts the operation at the head of a channel.
LEMMA BeginIsStart ==
    ASSUME StreamInv, StreamInv', UNCHANGED hostVars, NEW c \in QueueTypes,
           NEW kind \in {"launch", "copy"}, NextIs(c, kind), Begin(c)
    PROVE  \E o \in Ops : Order!Start(o)
<1>1. PICK o : o = Head(fifo[c]).op
  OBVIOUS
<1>2. IsWork(Head(fifo[c])) /\ fifo[c] # <<>> /\ fifo[c] \in Seq(Command)
  BY DEF NextIs, IsWork, StreamInv, QueueInv, TypeOK, GpuTypeOK
<1>3. Has(fifo[c], o) /\ o \in Ops
  <2>1. 1 \in DOMAIN fifo[c] /\ Head(fifo[c]) = fifo[c][1]
    BY <1>2
  <2>2. Has(fifo[c], o)
    BY <1>1, <1>2, <2>1 DEF Has
  <2> QED
    BY <1>2, <2>2, HasIsOp
<1>4. WasIssued(o) /\ o \notin Started
  BY <1>3 DEF StreamInv, Once, OnePlace, InChannel
<1>5. Started' = Started \cup {o} /\ UNCHANGED <<issued, done, awaited>>
  BY <1>1, BeginStarts DEF StreamInv, Begin, hostVars
<1>6. Len(issued[o[1]]) \in Nat
  BY <1>3, OpFields DEF StreamInv, QueueInv, TypeOK, HostTypeOK
<1>7. Order!Issued(o)
  BY <1>4, <1>6 DEF WasIssued, Order!Issued
<1>8. \A p \in Ops : Order!Precedes(p, o) => p \in done
  <2>1. \A p \in Ops : Precedes(issued', p, o) => p \in done'
    BY <1>5 DEF StreamInv, OrderInv, StartedSound
  <2> QED
    BY <1>5, <2>1 DEF Order!Precedes, Precedes
<1>9. Order!Start(o)
  BY <1>4, <1>5, <1>7, <1>8 DEF Order!Start, Ops, Order!Ops
<1> QED
  BY <1>3, <1>9

\* An operation ends, if it has not already.
LEMMA FinishIsComplete ==
    ASSUME StreamInv, UNCHANGED hostVars, NEW c \in QueueTypes, Finish(c)
    PROVE  (\E o \in Ops : Order!Complete(o)) \/ UNCHANGED Order!vars
<1>1. PICK task \in running[c] : done' = done \cup {task.cmd.op}
  BY DEF Finish
<1>2. PICK o : o = task.cmd.op
  OBVIOUS
<1>3. o \in Started /\ o \in Ops
  BY <1>1, <1>2 DEF Started, Executing, StreamInv, QueueInv, TypeOK, GpuTypeOK, Task,
                    Launches, Copies
<1>4. Started' = Started /\ done' = done \cup {o} /\ UNCHANGED <<issued, awaited>>
  BY <1>1, <1>2, FinishKeepsStarted DEF StreamInv, hostVars
<1>5. CASE o \in done
  <2>1. done' = done
    BY <1>4, <1>5
  <2> QED
    BY <1>4, <2>1 DEF Order!vars
<1>6. CASE o \notin done
  BY <1>3, <1>4, <1>6 DEF Order!Complete
<1> QED
  BY <1>5, <1>6

LEMMA GpuStepFollows ==
    ASSUME StreamInv, StreamInv', GpuStep
    PROVE  (\E o \in Ops : Order!Start(o) \/ Order!Complete(o)) \/ UNCHANGED Order!vars
<1>1. UNCHANGED hostVars /\ "COMPUTE" \in QueueTypes /\ "DMA" \in QueueTypes
  BY DEF GpuStep, QueueTypes
<1>2. CASE StartKernel \/ StartCopy
  BY <1>1, <1>2, BeginIsStart DEF StartKernel, StartCopy
<1>3. CASE Acquire \/ SetLocalMem \/ \E c \in QueueTypes : Release(c)
  <2>1. UNCHANGED <<running, done>>
    BY <1>3 DEF Acquire, SetLocalMem, Release
  <2> QED
    BY <1>1, <2>1, StartedKept DEF Order!vars, hostVars
<1>4. CASE \E c \in QueueTypes : Finish(c)
  BY <1>1, <1>4, FinishIsComplete
<1> QED
  BY <1>1, <1>2, <1>3, <1>4 DEF GpuStep, GpuNext, ComputeTakes, DmaTakes

\* An operation enters the history.
LEMMA OperationIsIssue ==
    ASSUME StreamInv, NEW s \in Streams, NEW async \in BOOLEAN,
           GpuMemcpy(s, async) \/ \E f \in Funcs : LaunchFunction(s, f, async)
    PROVE  \E kind \in Order!OpKind : Order!Issue(s, kind)
<1>1. PICK kind \in Order!OpKind : issued' = [issued EXCEPT ![s] = Append(issued[s], kind)]
  BY DEF GpuMemcpy, LaunchFunction, Order!OpKind
<1>2. Len(issued[s]) < MaxOps /\ UNCHANGED <<gpuVars, awaited>>
  BY DEF GpuMemcpy, LaunchFunction, MayLaunch
<1>3. Started' = Started /\ done' = done
  BY <1>2, GpuVarsKeep DEF gpuVars
<1> QED
  BY <1>1, <1>2, <1>3 DEF Order!Issue

\* Await returns when the timeline has reached the counter.
LEMMA AwaitIsAwait ==
    ASSUME StreamInv, AwaitReturns
    PROVE  \E s \in Streams : Order!AwaitReturns(s)
<1>1. PICK s : s = cpu.stream
  OBVIOUS
<1>2. /\ cpu.at = "await" /\ value[Timeline(s)] >= queue[s].timelineCtr
      /\ awaited' = [awaited EXCEPT ![s] = Len(issued[s])]
      /\ UNCHANGED <<gpuVars, issued>>
  BY <1>1 DEF AwaitReturns, SignalReached
<1>3. s \in Streams /\ queue[s].timelineCtr = Len(issued[s]) + 2
  BY <1>1, <1>2, CpuFields DEF StreamInv, QueueInv, TypeOK, OrderInv, CountersSound, InUse
<1>4. AllDone(s)
  BY <1>2, <1>3, ReachedAllDone DEF StreamInv, OrderInv
<1>5. Started' = Started /\ done' = done
  BY <1>2, GpuVarsKeep DEF gpuVars
<1>6. \A o \in Ops : o[1] = s /\ Order!Issued(o) => o \in done
  BY <1>4 DEF AllDone, Order!Issued
<1>7. Order!AwaitReturns(s)
  BY <1>2, <1>5, <1>6 DEF Order!AwaitReturns, Ops, Order!Ops
<1> QED
  BY <1>3, <1>7

LEMMA StepFollows ==
    ASSUME StreamInv, StreamInv', [Next]_vars
    PROVE  [Order!Next]_(Order!vars)
<1>1. ASSUME UNCHANGED <<running, done, issued, awaited>>
      PROVE  UNCHANGED Order!vars
  BY <1>1, StartedKept DEF Order!vars
<1>2. CASE GpuStep
  BY <1>2, GpuStepFollows DEF Order!Next, Ops, Order!Ops
<1>3. CASE AwaitReturns
  BY <1>3, AwaitIsAwait DEF Order!Next
<1>4. CASE \E s \in Streams, async \in BOOLEAN :
              GpuMemcpy(s, async) \/ \E f \in Funcs : LaunchFunction(s, f, async)
  BY <1>4, OperationIsIssue DEF Order!Next
<1>5. CASE InitComputeReturns \/ InitDmaReturns \/ SubmitEntry \/ NextEntry
           \/ CommenceReturns \/ EventSynchronizeReturns \/ SubmitEntryFails
  BY <1>1, <1>5 DEF InitComputeReturns, InitDmaReturns, SubmitEntry, NextEntry, CommenceReturns,
                    EventSynchronizeReturns, SubmitEntryFails, SetUpChannel, SubmitToFifo, gpuVars
<1>6. ASSUME NEW s \in Streams,
             \/ StreamCreate(s) \/ StreamCreateFails(s) \/ StreamDestroy(s)
             \/ \E f \in Funcs : \/ LaunchFailsLocalMem(s, f)
                                 \/ \E async \in BOOLEAN : LaunchFailsLate(s, f, async)
             \/ \E e \in Events : RecordEvent(e, s) \/ RecordEventFails(e, s)
             \/ Commence(s) \/ CommenceFails(s) \/ CommenceBacklog(s) \/ Await(s)
      PROVE  UNCHANGED Order!vars
  BY <1>1, <1>6 DEF StreamCreate, StreamCreateFails, StreamDestroy, LaunchFailsLocalMem,
     LaunchFailsLate, RecordEvent, RecordEventFails, Commence, CommenceFails, CommenceBacklog,
     Await, SetUpChannel, SubmitToFifo, gpuVars
<1>7. CASE Exit \/ UNCHANGED vars \/ \E e \in Events : EventSynchronize(e) \/ EventDestroy(e)
  BY <1>1, <1>7 DEF Exit, vars, hostVars, gpuVars, EventSynchronize, EventDestroy
<1> QED
  BY <1>2, <1>3, <1>4, <1>5, <1>6, <1>7 DEF Next, Return, Call

\* The queues, channels and signals implement the abstract stream: every step
\* issues, starts or completes an operation, or lets an Await return, when
\* StreamOrder allows it, or is none of its business (cmdqueue.cpp:188-277,
\* 459-894; librecuda.h:104-105).
THEOREM StreamsImplementOrder == Orderly => (Spec => ImplementsStreamOrder)
<1> SUFFICES ASSUME Orderly PROVE Spec => ImplementsStreamOrder
  OBVIOUS
<1>1. StreamInv /\ [Next]_vars => StreamInv'
  BY StreamInvStep
<1>2. StreamInv /\ StreamInv' /\ [Next]_vars => [Order!Next]_(Order!vars)
  BY StepFollows
<1> QED
  BY <1>1, <1>2, StreamInvInit, OrderSpecInit, PTL DEF Spec, ImplementsStreamOrder, Order!Spec
=============================================================================
