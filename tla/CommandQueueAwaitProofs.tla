----------------------- MODULE CommandQueueAwaitProofs -----------------------
(***************************************************************************)
(* What an await may rely on, proved for every value of the constants and  *)
(* under the same rules as the order of the operations: the arguments of a *)
(* kernel stay in their page until it has ended, the timeline of a stream  *)
(* only moves forward, and a stream that has been awaited leaves the GPU   *)
(* nothing, so that it may be destroyed.  For programs that record each    *)
(* event once, also what an event tells: it is hit, waited for and stamped *)
(* after all that its stream was given before the record.  Last, for       *)
(* programs with one stream, the local memory that a kernel needs.         *)
(***************************************************************************)
EXTENDS CommandQueueProofs

-----------------------------------------------------------------------------
(* Arguments of launches.  The slots below kernArgsWriteIdx belong to the   *)
(* launches that have still to run; an await, which resets that index,      *)
(* finds none left.                                                         *)

\* cmd is in the buffers or the backlog of q.
Within(q, cmd) ==
    \/ \E t \in QueueTypes : cmd \in Elements(q.buf[t])
    \/ \E j \in DOMAIN q.backlog : cmd \in Elements(q.backlog[j].buf)

IsLaunch(cmd) == cmd.kind = "launch"

\* cmd is a launch that has still to run or to end.
Unfinished(cmd) ==
    /\ IsLaunch(cmd)
    /\ \/ cmd \in Submitted
       \/ cmd \in Executing
       \/ \E s \in Streams : Within(queue[s], cmd)

SlotHolds(cmd) ==
    /\ cmd.slot < queue[cmd.op[1]].kernArgsWriteIdx
    /\ kernArgs[cmd.op[1]][cmd.slot] = cmd.op[2]

ArgsKept == \A cmd \in Launches : Unfinished(cmd) => SlotHolds(cmd)

\* What executes is not complete, and executes once.
RunsOnce ==
    \A c, d \in QueueTypes : \A task \in running[c], other \in running[d] :
        /\ task.cmd.op \notin done
        /\ task.cmd.op = other.cmd.op => c = d /\ task = other

ArgsInv == ArgsKept /\ RunsOnce

\* r holds no launch that q does not hold, and as many slots are taken.
Carries(q, r) ==
    /\ r.kernArgsWriteIdx = q.kernArgsWriteIdx
    /\ \A cmd : IsLaunch(cmd) /\ Within(r, cmd) => Within(q, cmd)

LEMMA CarriesTransitive ==
    ASSUME NEW q, NEW r, NEW v, Carries(q, r), Carries(r, v)
    PROVE  Carries(q, v)
BY DEF Carries

LEMMA AppendElements ==
    ASSUME NEW T, NEW seq \in Seq(T), NEW x \in T
    PROVE  \A y : y \in Elements(Append(seq, x)) <=> y \in Elements(seq) \/ y = x
<1> DEFINE r == Append(seq, x)
           n == Len(seq)
<1>1. /\ n \in Nat
      /\ DOMAIN seq = 1..n
      /\ DOMAIN r = 1..(n + 1)
      /\ \A i \in 1..n : r[i] = seq[i]
      /\ r[n + 1] = x
  BY AppendIndices
<1> HIDE DEF r, n
<1>2. \A i \in DOMAIN r : i \in DOMAIN seq \/ i = n + 1
  BY <1>1
<1>3. /\ n + 1 \in DOMAIN r
      /\ \A i \in DOMAIN seq : i \in DOMAIN r /\ r[i] = seq[i]
  BY <1>1
<1>4. \A y : y \in Elements(r) <=> y \in Elements(seq) \/ y = x
  BY <1>1, <1>2, <1>3 DEF Elements
<1> QED
  BY <1>4 DEF r

LEMMA EnqueueWithin ==
    ASSUME NEW q \in NvCommandQueue, NEW cmd \in Command, NEW t \in QueueTypes
    PROVE  /\ Enqueue(q, cmd, t).kernArgsWriteIdx = q.kernArgsWriteIdx
           /\ \A c : Within(Enqueue(q, cmd, t), c) => Within(q, c) \/ c = cmd
<1> DEFINE r == Enqueue(q, cmd, t)
<1>1. /\ r.backlog = q.backlog
      /\ r.kernArgsWriteIdx = q.kernArgsWriteIdx
      /\ r.buf[t] = Append(q.buf[t], cmd)
      /\ \A u \in QueueTypes : u # t => r.buf[u] = q.buf[u]
  BY DEF Enqueue, NvCommandQueue
<1>2. q.buf[t] \in Seq(Command)
  BY DEF NvCommandQueue
<1> HIDE DEF r
<1>3. \A c : c \in Elements(r.buf[t]) => c \in Elements(q.buf[t]) \/ c = cmd
  BY <1>1, <1>2, AppendElements
<1>4. \A c : Within(r, c) => Within(q, c) \/ c = cmd
  BY <1>1, <1>3 DEF Within
<1> QED
  BY <1>1, <1>4 DEF r

LEMMA EnqueueCarries ==
    ASSUME NEW q \in NvCommandQueue, NEW cmd \in Command, ~IsLaunch(cmd), NEW t \in QueueTypes
    PROVE  Carries(q, Enqueue(q, cmd, t))
BY EnqueueWithin DEF Carries

LEMMA ScalarFieldsCarry ==
    ASSUME NEW q \in NvCommandQueue
    PROVE  /\ Carries(q, q)
           /\ \A b : Carries(q, [q EXCEPT !.timelineNotifyPending = b])
           /\ \A t : Carries(q, [q EXCEPT !.currentQueueType = t])
           /\ \A f : Carries(q, GrownSlm(q, f))
           /\ Carries(q, AdvanceTimeline(q))
           /\ \A left, type : Carries(q, Retyped(q, left, type))
<1>1. \A r : r.buf = q.buf /\ r.backlog = q.backlog /\ r.kernArgsWriteIdx = q.kernArgsWriteIdx
             => Carries(q, r)
  BY DEF Carries, Within
<1>2. ASSUME NEW b
      PROVE  /\ Carries(q, [q EXCEPT !.timelineNotifyPending = b])
             /\ Carries(q, [q EXCEPT !.currentQueueType = b])
  BY <1>1 DEF NvCommandQueue
<1>3. \A f : Carries(q, GrownSlm(q, f))
  BY <1>1 DEF NvCommandQueue, GrownSlm
<1>4. Carries(q, AdvanceTimeline(q))
  BY <1>1 DEF NvCommandQueue, AdvanceTimeline
<1>5. ASSUME NEW left, NEW type
      PROVE  Carries(q, Retyped(q, left, type))
  <2>1. /\ Retyped(q, left, type).buf = q.buf
        /\ Retyped(q, left, type).backlog = q.backlog
        /\ Retyped(q, left, type).kernArgsWriteIdx = q.kernArgsWriteIdx
    BY DEF NvCommandQueue, Retyped
  <2> QED
    BY <1>1, <2>1
<1> QED
  BY <1>1, <1>2, <1>3, <1>4, <1>5

LEMMA SignalNotifyCarries ==
    ASSUME NEW q \in NvCommandQueue, NEW sig \in Signals, NEW target \in Nat,
           NEW t \in QueueTypes
    PROVE  Carries(q, SignalNotify(q, sig, target, t))
BY CommandTypes, EnqueueCarries DEF SignalNotify, IsLaunch

LEMMA NotifyIfPendingCarries ==
    ASSUME NEW q \in NvCommandQueue, NEW s \in Streams, NEW t \in QueueTypes
    PROVE  LET n == NotifyIfPending(q, s, t)
               r == [n EXCEPT !.timelineNotifyPending = FALSE]
           IN  r \in NvCommandQueue /\ Carries(q, r)
<1> DEFINE n == NotifyIfPending(q, s, t)
<1>1. q.timelineCtr \in Nat /\ Timeline(s) \in Signals
  BY CounterIsNat, TimelineIsSignal DEF NvCommandQueue
<1>2. n \in NvCommandQueue /\ Carries(q, n)
  BY <1>1, SignalNotifyTyped, SignalNotifyCarries, ScalarFieldsCarry DEF NotifyIfPending
<1> HIDE DEF n
<1>3. [n EXCEPT !.timelineNotifyPending = FALSE] \in NvCommandQueue
  BY <1>2 DEF NvCommandQueue
<1> QED
  BY <1>2, <1>3, ScalarFieldsCarry, CarriesTransitive DEF n

LEMMA EndOpCarries ==
    ASSUME NEW q \in NvCommandQueue, NEW s \in Streams, NEW async \in BOOLEAN,
           NEW t \in QueueTypes
    PROVE  Carries(q, EndOp(q, s, async, t))
<1> DEFINE next == AdvanceTimeline(q)
           noted == SignalNotify(next, Timeline(s), next.timelineCtr, t)
<1>1. next \in NvCommandQueue /\ Carries(q, next)
  BY AdvanceTimelineTyped, ScalarFieldsCarry
<1>2. next.timelineCtr \in Nat /\ Timeline(s) \in Signals
  BY <1>1, CounterIsNat, TimelineIsSignal DEF NvCommandQueue
<1>3. EndOp(q, s, async, t) = IF async THEN [next EXCEPT !.timelineNotifyPending = TRUE]
                                       ELSE [noted EXCEPT !.timelineNotifyPending = FALSE]
  BY DEF EndOp
<1> HIDE DEF next
<1>4. noted \in NvCommandQueue /\ Carries(next, noted)
  BY <1>1, <1>2, SignalNotifyTyped, SignalNotifyCarries
<1> HIDE DEF noted
<1>5. /\ Carries(next, [next EXCEPT !.timelineNotifyPending = TRUE])
      /\ Carries(noted, [noted EXCEPT !.timelineNotifyPending = FALSE])
  BY <1>1, <1>4, ScalarFieldsCarry
<1> QED
  BY <1>1, <1>3, <1>4, <1>5, CarriesTransitive

LEMMA WaitForPreviousCarries ==
    ASSUME NEW q \in NvCommandQueue, NEW s \in Streams, NEW async \in BOOLEAN
    PROVE  Carries(q, WaitForPrevious(q, s, async))
<1> DEFINE n == [NotifyIfPending(q, s, "COMPUTE") EXCEPT !.timelineNotifyPending = FALSE]
           cmd == [kind |-> "acquire", sig |-> Timeline(s), payload |-> q.timelineCtr]
           r == WaitForPrevious(q, s, async)
<1>1. "COMPUTE" \in QueueTypes /\ q.timelineCtr \in Nat /\ Timeline(s) \in Signals
  BY CounterIsNat, TimelineIsSignal DEF NvCommandQueue, QueueTypes
<1>2. n \in NvCommandQueue /\ Carries(q, n)
  BY <1>1, NotifyIfPendingCarries
<1>3. \/ r = q
      \/ r = n
      \/ r = Enqueue(n, cmd, "COMPUTE")
  BY DEF WaitForPrevious, SignalWaitGpu
<1>4. cmd \in Command /\ ~IsLaunch(cmd)
  BY <1>1, CommandTypes DEF IsLaunch
<1> HIDE DEF n, cmd, r
<1>5. Carries(n, Enqueue(n, cmd, "COMPUTE"))
  BY <1>1, <1>2, <1>4, EnqueueCarries
<1>6. Carries(q, q) /\ Carries(q, Enqueue(n, cmd, "COMPUTE"))
  BY <1>2, <1>5, ScalarFieldsCarry, CarriesTransitive
<1>7. Carries(q, r)
  BY <1>2, <1>3, <1>6
<1> QED
  BY <1>7 DEF r

LEMMA EnsureEnoughLocalMemCarries ==
    ASSUME HostTypeOK, NEW q \in NvCommandQueue, NEW f \in Funcs
    PROVE  Carries(q, EnsureEnoughLocalMem(q, f).queue)
<1> DEFINE grown == GrownSlm(q, f)
           cmd == [kind |-> "localMem", region |-> Len(slm.size) + 1]
<1>1. grown \in NvCommandQueue /\ Carries(q, grown)
  <2>1. RoundUp(LocalMemReq[f], 32) \in Nat
    BY RoundUpIsNat, FuncAssumption
  <2>2. grown \in NvCommandQueue
    BY <2>1 DEF GrownSlm, NvCommandQueue
  <2> QED
    BY <2>2, ScalarFieldsCarry
<1>2. cmd \in Command /\ "COMPUTE" \in QueueTypes /\ ~IsLaunch(cmd)
  BY DEF HostTypeOK, Command, LocalMemSets, QueueTypes, IsLaunch
<1>3. \/ EnsureEnoughLocalMem(q, f).queue = q
      \/ EnsureEnoughLocalMem(q, f).queue = Enqueue(grown, cmd, "COMPUTE")
  BY DEF EnsureEnoughLocalMem
<1> HIDE DEF grown, cmd
<1>4. Carries(grown, Enqueue(grown, cmd, "COMPUTE"))
  BY <1>1, <1>2, EnqueueCarries
<1> QED
  BY <1>1, <1>3, <1>4, ScalarFieldsCarry, CarriesTransitive

\* A buffer takes its launches to the backlog.
LEMMA BacklogCarries ==
    ASSUME NEW q \in NvCommandQueue, NEW t \in QueueTypes
    PROVE  Carries(q, BacklogCurrentCmdBuffer(q, t))
<1> DEFINE r == BacklogCurrentCmdBuffer(q, t)
           split == [buf |-> q.buf[t], type |-> t,
                     timelineCtr |-> q.timelineCtr,
                     timelineNotifyPending |-> q.timelineNotifyPending]
           n == Len(q.backlog) + 1
<1>1. CASE q.buf[t] = <<>>
  BY <1>1, ScalarFieldsCarry DEF BacklogCurrentCmdBuffer
<1>2. CASE q.buf[t] # <<>>
  <2>1. /\ r.backlog = Append(q.backlog, split)
        /\ r.kernArgsWriteIdx = q.kernArgsWriteIdx
        /\ r.buf[t] = <<>>
        /\ \A u \in QueueTypes : u # t => r.buf[u] = q.buf[u]
    BY <1>2 DEF BacklogCurrentCmdBuffer, NvCommandQueue
  <2>2. q.backlog \in Seq(Split) /\ split \in Split
    BY DEF NvCommandQueue, Split
  <2>3. split.buf = q.buf[t]
    OBVIOUS
  <2> HIDE DEF r, split, n
  <2>4. /\ DOMAIN q.backlog = 1..Len(q.backlog)
        /\ DOMAIN r.backlog = 1..n
        /\ \A i \in 1..Len(q.backlog) : r.backlog[i] = q.backlog[i]
        /\ r.backlog[n] = split
        /\ Len(q.backlog) \in Nat
    BY <2>1, <2>2, AppendIndices DEF n
  <2>5. \A i \in DOMAIN r.backlog : i \in DOMAIN q.backlog \/ i = n
    BY <2>4 DEF n
  <2>6. \A cmd : Within(r, cmd) => Within(q, cmd)
    <3> SUFFICES ASSUME NEW cmd, Within(r, cmd) PROVE Within(q, cmd)
      OBVIOUS
    <3>1. CASE \E u \in QueueTypes : cmd \in Elements(r.buf[u])
      BY <2>1, <3>1 DEF Within, Elements
    <3>2. CASE \E i \in DOMAIN r.backlog : cmd \in Elements(r.backlog[i].buf)
      BY <2>3, <2>4, <2>5, <3>2 DEF Within
    <3> QED
      BY <3>1, <3>2 DEF Within
  <2> QED
    BY <2>1, <2>6 DEF Carries, r
<1> QED
  BY <1>1, <1>2

LEMMA SwitchToCarries ==
    ASSUME NEW q \in NvCommandQueue, NEW t \in QueueTypes
    PROVE  Carries(q, SwitchTo(q, t))
<1> DEFINE type == IF q.buf[Other(t)] = <<>> THEN t ELSE q.currentQueueType
           r == BacklogCurrentCmdBuffer(q, Other(t))
<1>1. r \in NvCommandQueue /\ Carries(q, r)
  BY BacklogTyped, BacklogCarries, OtherType
<1>2. \/ SwitchTo(q, t) = [r EXCEPT !.currentQueueType = t]
      \/ SwitchTo(q, t) = [q EXCEPT !.currentQueueType = type]
  BY DEF SwitchTo
<1> HIDE DEF r, type
<1> QED
  BY <1>1, <1>2, ScalarFieldsCarry, CarriesTransitive

LEMMA PreparedCarries ==
    ASSUME QueueInv, NEW s \in Streams, NEW f \in Funcs, NEW async \in BOOLEAN
    PROVE  Carries(queue[s], Prepared(s, f, async).queue)
<1> DEFINE switched == SwitchTo(queue[s], "COMPUTE")
           mem == EnsureEnoughLocalMem(switched, f)
<1>1. /\ HostTypeOK /\ queue[s] \in NvCommandQueue /\ "COMPUTE" \in QueueTypes
      /\ slm \in SlmType
  BY DEF QueueInv, TypeOK, HostTypeOK, QueueTypes, SlmType
<1>2. Takes(switched, "COMPUTE") /\ Carries(queue[s], switched)
  BY <1>1, SwitchedQueue, SwitchToCarries
<1>3. mem = [queue |-> mem.queue, slm |-> mem.slm]
  BY DEF EnsureEnoughLocalMem
<1> HIDE DEF switched
<1>4. mem.queue \in NvCommandQueue /\ Carries(switched, mem.queue)
  BY <1>1, <1>2, EnsureEnoughLocalMemTakes, EnsureEnoughLocalMemCarries DEF Takes
<1>5. Prepared(s, f, async) = [mem EXCEPT !.queue = WaitForPrevious(mem.queue, s, async)]
  BY DEF Prepared, switched
<1> HIDE DEF mem
<1>6. Prepared(s, f, async).queue = WaitForPrevious(mem.queue, s, async)
  BY <1>3, <1>5
<1>7. Carries(mem.queue, WaitForPrevious(mem.queue, s, async))
  BY <1>4, WaitForPreviousCarries
<1> QED
  BY <1>2, <1>4, <1>6, <1>7, CarriesTransitive

LEMMA LaunchFields ==
    \A cmd \in Launches : /\ cmd \in Command /\ IsWork(cmd) /\ IsLaunch(cmd)
                          /\ cmd.op \in Ops /\ cmd.op[1] \in Streams /\ cmd.slot \in Nat
BY DEF Launches, Command, IsWork, IsLaunch, Ops

\* Nothing to run is added, and no slot is written.
LEMMA ArgsLater ==
    ASSUME ArgsKept, kernArgs' = kernArgs,
           \A s \in Streams : queue'[s].kernArgsWriteIdx = queue[s].kernArgsWriteIdx,
           \A cmd \in Launches : Unfinished(cmd)' => Unfinished(cmd)
    PROVE  ArgsKept'
<1> SUFFICES ASSUME NEW cmd \in Launches, Unfinished(cmd)' PROVE SlotHolds(cmd)'
  BY DEF ArgsKept
<1>1. SlotHolds(cmd) /\ cmd.op[1] \in Streams
  BY LaunchFields DEF ArgsKept
<1> QED
  BY <1>1 DEF SlotHolds

LEMMA GpuKeepsArgs ==
    ASSUME UNCHANGED gpuVars
    PROVE  /\ Submitted' = Submitted /\ Executing' = Executing
           /\ RunsOnce => RunsOnce'
BY DEF gpuVars, Submitted, Executing, RunsOnce

\* A call that leaves the launches of a queue as they are.
LEMMA CarriedArgs ==
    ASSUME QueueInv, ArgsInv, NEW s \in Streams, NEW r, Carries(queue[s], r),
           queue' = [queue EXCEPT ![s] = r], UNCHANGED <<gpuVars, kernArgs>>
    PROVE  ArgsInv'
<1>1. \A x \in Streams : queue'[x] = IF x = s THEN r ELSE queue[x]
  BY DEF QueueInv, TypeOK, HostTypeOK
<1>2. \A x \in Streams : queue'[x].kernArgsWriteIdx = queue[x].kernArgsWriteIdx
  BY <1>1 DEF Carries
<1>3. \A cmd, x : IsLaunch(cmd) /\ x \in Streams /\ Within(queue'[x], cmd) => Within(queue[x], cmd)
  BY <1>1 DEF Carries
<1>4. \A cmd \in Launches : Unfinished(cmd)' => Unfinished(cmd)
  BY <1>3, GpuKeepsArgs DEF Unfinished, Within, IsLaunch
<1> QED
  BY <1>2, <1>4, ArgsLater, GpuKeepsArgs DEF ArgsInv

LEMMA QuietArgs ==
    ASSUME ArgsInv, UNCHANGED <<gpuVars, queue, kernArgs>>
    PROVE  ArgsInv'
<1>1. \A cmd \in Launches : Unfinished(cmd)' => Unfinished(cmd)
  BY GpuKeepsArgs DEF Unfinished, Within
<1> QED
  BY <1>1, ArgsLater, GpuKeepsArgs DEF ArgsInv

\* A call that takes the next slot, and may add the launch it is for.
LEMMA SlotTaken ==
    ASSUME QueueInv, ArgsInv, NEW s \in Streams, NEW r, NEW slot \in Slots, NEW n,
           slot = queue[s].kernArgsWriteIdx, r.kernArgsWriteIdx = slot + 1,
           queue' = [queue EXCEPT ![s] = r], UNCHANGED gpuVars,
           kernArgs' = [kernArgs EXCEPT ![s][slot] = n],
           \A cmd : IsLaunch(cmd) /\ Within(r, cmd) =>
                       Within(queue[s], cmd) \/ (cmd.op = <<s, n>> /\ cmd.slot = slot)
    PROVE  ArgsInv'
<1>1. \A x \in Streams : queue'[x] = IF x = s THEN r ELSE queue[x]
  BY DEF QueueInv, TypeOK, HostTypeOK
<1>2. \A x \in Streams, i \in Slots :
          kernArgs'[x][i] = IF x = s /\ i = slot THEN n ELSE kernArgs[x][i]
  BY DEF QueueInv, TypeOK, HostTypeOK
<1>3. slot \in Nat /\ slot < KernArgsSlots /\ KernArgsSlots \in Nat
  BY FuncAssumption DEF Slots
<1>4. ASSUME NEW cmd \in Launches, Unfinished(cmd)' PROVE SlotHolds(cmd)'
  <2>1. IsLaunch(cmd) /\ cmd.op[1] \in Streams /\ cmd.slot \in Nat
    BY LaunchFields
  <2>2. Unfinished(cmd) \/ (cmd.op = <<s, n>> /\ cmd.slot = slot)
    <3>1. \/ Unfinished(cmd)
          \/ \E x \in Streams : Within(queue'[x], cmd)
      BY <1>4, GpuKeepsArgs DEF Unfinished, Within
    <3>2. ASSUME NEW x \in Streams, Within(queue'[x], cmd)
          PROVE  Within(queue[x], cmd) \/ (cmd.op = <<s, n>> /\ cmd.slot = slot)
      BY <1>1, <2>1, <3>2
    <3> QED
      BY <2>1, <3>1, <3>2 DEF Unfinished
  <2>3. CASE cmd.op = <<s, n>> /\ cmd.slot = slot
    BY <1>1, <1>2, <1>3, <2>3 DEF SlotHolds
  <2>4. CASE Unfinished(cmd)
    <3>1. SlotHolds(cmd)
      BY <2>4 DEF ArgsInv, ArgsKept
    <3>2. queue[cmd.op[1]].kernArgsWriteIdx \in 0..KernArgsSlots
      BY <2>1 DEF QueueInv, TypeOK, HostTypeOK, NvCommandQueue
    <3>3. cmd.slot \in Slots /\ (cmd.op[1] = s => cmd.slot < slot)
      BY <1>3, <2>1, <3>1, <3>2 DEF SlotHolds, Slots
    <3>4. kernArgs'[cmd.op[1]][cmd.slot] = kernArgs[cmd.op[1]][cmd.slot]
      BY <1>2, <1>3, <2>1, <3>3
    <3>5. cmd.slot < queue'[cmd.op[1]].kernArgsWriteIdx
      BY <1>1, <1>3, <2>1, <3>1, <3>3 DEF SlotHolds
    <3> QED
      BY <3>1, <3>4, <3>5 DEF SlotHolds
  <2> QED
    BY <2>2, <2>3, <2>4
<1> QED
  BY <1>4, GpuKeepsArgs DEF ArgsInv, ArgsKept

LEMMA JoinedElements ==
    ASSUME NEW a \in Seq(Command), NEW b \in Seq(Command)
    PROVE  \A y : y \in Elements(a \o b) => y \in Elements(a) \/ y \in Elements(b)
<1> DEFINE r == a \o b
           n == Len(a)
<1>1. /\ n \in Nat /\ Len(b) \in Nat
      /\ DOMAIN a = 1..n /\ DOMAIN b = 1..Len(b)
      /\ DOMAIN r = 1..(n + Len(b))
      /\ \A i \in 1..n : r[i] = a[i]
      /\ \A i \in 1..Len(b) : r[n + i] = b[i]
  OBVIOUS
<1> HIDE DEF r, n
<1>2. ASSUME NEW i \in DOMAIN r, i \notin DOMAIN a
      PROVE  i - n \in DOMAIN b /\ r[i] = b[i - n]
  <2>1. i - n \in 1..Len(b) /\ n + (i - n) = i
    BY <1>1, <1>2
  <2> QED
    BY <1>1, <2>1
<1>3. \A y : y \in Elements(r) => y \in Elements(a) \/ y \in Elements(b)
  BY <1>1, <1>2 DEF Elements
<1> QED
  BY <1>3 DEF r

\* A buffer goes to its channel.
LEMMA SubmittedArgs ==
    ASSUME QueueInv, ArgsInv, NEW s \in Streams, NEW t \in QueueTypes,
           NEW q \in NvCommandQueue, Carries(queue[s], q),
           SubmitToFifo(s, q, t), kernArgs' = kernArgs
    PROVE  ArgsInv'
<1> DEFINE r == [q EXCEPT !.buf[t] = <<>>]
<1>1. /\ fifo' = [fifo EXCEPT ![t] = fifo[t] \o q.buf[t]]
      /\ queue' = [queue EXCEPT ![s] = r]
      /\ running' = running /\ done' = done
  BY DEF SubmitToFifo
<1>2. \A c \in QueueTypes : fifo'[c] = IF c = t THEN fifo[t] \o q.buf[t] ELSE fifo[c]
  BY <1>1 DEF QueueInv, TypeOK, GpuTypeOK
<1>3. \A x \in Streams : queue'[x] = IF x = s THEN r ELSE queue[x]
  BY <1>1 DEF QueueInv, TypeOK, HostTypeOK
<1>4. fifo[t] \in Seq(Command) /\ q.buf[t] \in Seq(Command)
  BY DEF QueueInv, TypeOK, GpuTypeOK, NvCommandQueue
<1>5. /\ r.kernArgsWriteIdx = q.kernArgsWriteIdx
      /\ r.backlog = q.backlog
      /\ \A u \in QueueTypes : r.buf[u] = IF u = t THEN <<>> ELSE q.buf[u]
  BY DEF NvCommandQueue
<1> HIDE DEF r
<1>6. \A cmd : Within(r, cmd) => Within(q, cmd)
  BY <1>5 DEF Within, Elements
<1>7. \A cmd : cmd \in Submitted' => cmd \in Submitted \/ Within(q, cmd)
  <2> SUFFICES ASSUME NEW cmd, cmd \in Submitted'
               PROVE  cmd \in Submitted \/ Within(q, cmd)
    OBVIOUS
  <2>1. PICK c \in QueueTypes : cmd \in Elements(fifo'[c])
    BY DEF Submitted, Elements
  <2>2. cmd \in Elements(fifo[c]) \/ (c = t /\ cmd \in Elements(q.buf[t]))
    BY <1>2, <1>4, <2>1, JoinedElements
  <2> QED
    BY <2>2 DEF Submitted, Within
<1>8. Executing' = Executing /\ (RunsOnce => RunsOnce')
  BY <1>1 DEF Executing, RunsOnce
<1>9. ASSUME NEW cmd \in Launches, Unfinished(cmd)' PROVE Unfinished(cmd)
  <2>1. IsLaunch(cmd)
    BY LaunchFields
  <2>2. \/ cmd \in Submitted'
        \/ cmd \in Executing'
        \/ \E x \in Streams : Within(queue'[x], cmd)
    BY <1>9 DEF Unfinished, Within
  <2>3. ASSUME Within(q, cmd) PROVE Unfinished(cmd)
    BY <2>1, <2>3 DEF Carries, Unfinished
  <2>4. ASSUME NEW x \in Streams, Within(queue'[x], cmd) PROVE Unfinished(cmd)
    BY <1>3, <1>6, <2>1, <2>3, <2>4 DEF Unfinished
  <2> QED
    BY <1>7, <1>8, <2>1, <2>2, <2>3, <2>4 DEF Unfinished
<1>10. \A x \in Streams : queue'[x].kernArgsWriteIdx = queue[x].kernArgsWriteIdx
  BY <1>3, <1>5 DEF Carries
<1> QED
  BY <1>8, <1>9, <1>10, ArgsLater DEF ArgsInv

-----------------------------------------------------------------------------
(* A stream that does not exist yet has an empty queue.                    *)

Unborn == \A s \in Streams : state[s] = "none" => queue[s] = NewQueue(s, "OTHER")

\* A step that changes the queue of a stream that exists.
LEMMA UnbornKept ==
    ASSUME QueueInv, Unborn, NEW s, NEW r,
           s \in Streams => state[s] # "none",
           state' = state \/ \E st \in {"alive", "destroyed", "failed"} :
                                 state' = [state EXCEPT ![s] = st],
           queue' = queue \/ queue' = [queue EXCEPT ![s] = r]
    PROVE  Unborn'
<1>1. \A x \in Streams : state'[x] = "none" => state[x] = "none"
  BY DEF QueueInv, TypeOK, HostTypeOK
<1>2. \A x \in Streams : state[x] = "none" => queue'[x] = queue[x]
  BY DEF QueueInv, TypeOK, HostTypeOK
<1> QED
  BY <1>1, <1>2 DEF Unborn, NewQueue

LEMMA UnbornStep ==
    ASSUME QueueInv, CountersSound, Unborn, [Next]_vars
    PROVE  Unborn'
<1>1. /\ cpu.at \in {"initCompute", "initDma"} => state[cpu.stream] = "creating"
      /\ cpu.at \in {"submit", "wait", "await"} => state[cpu.stream] = "alive"
  BY DEF CountersSound
<1>2. ASSUME queue' = queue, state' = state PROVE Unborn'
  BY <1>2 DEF Unborn, NewQueue
<1>3. CASE \/ GpuStep \/ UNCHANGED vars \/ Exit \/ NextEntry \/ EventSynchronizeReturns
           \/ \E e \in Events : EventSynchronize(e) \/ EventDestroy(e)
  BY <1>2, <1>3 DEF GpuStep, hostVars, vars, Exit, NextEntry, EventSynchronizeReturns,
                    EventSynchronize, EventDestroy
<1>4. CASE InitComputeReturns
  <2>1. PICK r : queue' = [queue EXCEPT ![cpu.stream] = r] /\ state' = state
    BY <1>4 DEF InitComputeReturns, SetUpChannel, SubmitToFifo
  <2>2. state[cpu.stream] # "none"
    BY <1>1, <1>4 DEF InitComputeReturns
  <2> QED
    BY <2>1, <2>2, UnbornKept
<1>5. CASE InitDmaReturns
  <2>1. queue' = queue /\ state' = [state EXCEPT ![cpu.stream] = "alive"]
        /\ state[cpu.stream] # "none"
    BY <1>1, <1>5 DEF InitDmaReturns
  <2> QED
    BY <2>1, UnbornKept
<1>6. CASE SubmitEntry
  <2>1. PICK r : queue' = [queue EXCEPT ![cpu.stream] = r] /\ state' = state
    BY <1>6 DEF SubmitEntry, SubmitToFifo
  <2>2. state[cpu.stream] # "none"
    BY <1>1, <1>6 DEF SubmitEntry
  <2> QED
    BY <2>1, <2>2, UnbornKept
<1>7. CASE SubmitEntryFails
  <2>1. PICK r : queue' = [queue EXCEPT ![cpu.stream] = r] /\ state' = state
    BY <1>7 DEF SubmitEntryFails
  <2>2. state[cpu.stream] # "none"
    BY <1>1, <1>7 DEF SubmitEntryFails
  <2> QED
    BY <2>1, <2>2, UnbornKept
<1>8. CASE CommenceReturns \/ AwaitReturns
  <2>1. \E r : queue' = [queue EXCEPT ![cpu.stream] = r]
    <3>1. CASE CommenceReturns
      BY <3>1 DEF CommenceReturns
    <3>2. CASE AwaitReturns
      BY <3>2 DEF AwaitReturns
    <3> QED
      BY <1>8, <3>1, <3>2
  <2>2. state' = state /\ state[cpu.stream] # "none"
    BY <1>1, <1>8 DEF CommenceReturns, AwaitReturns, EntryReached
  <2> QED
    BY <2>1, <2>2, UnbornKept
<1>9. ASSUME NEW s \in Streams, StreamCreate(s) PROVE Unborn'
  <2>1. state' = [state EXCEPT ![s] = "creating"]
    BY <1>9 DEF StreamCreate
  <2>2. PICK r : queue' = [queue EXCEPT ![s] = r]
    BY <1>9 DEF StreamCreate, SetUpChannel, SubmitToFifo
  <2>3. \A x \in Streams : state'[x] = "none" => x # s /\ state[x] = "none"
    BY <2>1 DEF QueueInv, TypeOK, HostTypeOK
  <2>4. \A x \in Streams : x # s => queue'[x] = queue[x]
    BY <2>2 DEF QueueInv, TypeOK, HostTypeOK
  <2> QED
    BY <2>3, <2>4 DEF Unborn, NewQueue
<1>10. ASSUME NEW s \in Streams, StreamCreateFails(s) PROVE Unborn'
  <2>1. state' = [state EXCEPT ![s] = "failed"] /\ queue' = queue
    BY <1>10 DEF StreamCreateFails
  <2>2. \A x \in Streams : state'[x] = "none" => state[x] = "none"
    BY <2>1 DEF QueueInv, TypeOK, HostTypeOK
  <2> QED
    BY <2>1, <2>2 DEF Unborn, NewQueue
<1>11. ASSUME NEW s \in Streams, StreamDestroy(s) PROVE Unborn'
  <2>1. state' = [state EXCEPT ![s] = "destroyed"] /\ queue' = queue /\ state[s] # "none"
    BY <1>11 DEF StreamDestroy, Ready
  <2> QED
    BY <2>1, UnbornKept
<1>12. ASSUME NEW s \in Streams, Ready(s), state' = state, NEW r,
              queue' = queue \/ queue' = [queue EXCEPT ![s] = r]
       PROVE  Unborn'
  BY <1>12, UnbornKept DEF Ready
<1>13. ASSUME NEW s \in Streams, NEW f \in Funcs, LaunchFailsLocalMem(s, f) PROVE Unborn'
  <2>1. /\ Ready(s) /\ state' = state
        /\ \E r : queue' = [queue EXCEPT ![s] = r]
    BY <1>13 DEF LaunchFailsLocalMem, MayLaunch
  <2> QED
    BY <1>12, <2>1
<1>14. ASSUME NEW s \in Streams, NEW f \in Funcs, NEW async \in BOOLEAN,
              LaunchFunction(s, f, async) \/ LaunchFailsLate(s, f, async)
       PROVE  Unborn'
  <2>1. CASE LaunchFunction(s, f, async)
    <3>1. /\ Ready(s) /\ state' = state
          /\ \E r : queue' = [queue EXCEPT ![s] = r]
      BY <2>1 DEF LaunchFunction, MayLaunch
    <3> QED
      BY <1>12, <3>1
  <2>2. CASE LaunchFailsLate(s, f, async)
    <3>1. /\ Ready(s) /\ state' = state
          /\ \E r : queue' = [queue EXCEPT ![s] = r]
      BY <2>2 DEF LaunchFailsLate, MayLaunch
    <3> QED
      BY <1>12, <3>1
  <2> QED
    BY <1>14, <2>1, <2>2
<1>15. ASSUME NEW s \in Streams,
              \/ \E async \in BOOLEAN : GpuMemcpy(s, async)
              \/ Commence(s) \/ CommenceFails(s) \/ CommenceBacklog(s) \/ Await(s)
       PROVE  Unborn'
  <2>1. Ready(s) /\ state' = state
    BY <1>15 DEF GpuMemcpy, Commence, CommenceFails, CommenceBacklog, Await
  <2>2. queue' = queue \/ \E r : queue' = [queue EXCEPT ![s] = r]
    BY <1>15 DEF GpuMemcpy, Commence, CommenceFails, CommenceBacklog, Await, SubmitToFifo
  <2> QED
    BY <1>12, <2>1, <2>2
<1>16. ASSUME NEW s \in Streams, NEW e \in Events, RecordEvent(e, s) \/ RecordEventFails(e, s)
       PROVE  Unborn'
  <2>1. Ready(s) /\ state' = state
    BY <1>16 DEF RecordEvent, RecordEventFails
  <2>2. queue' = queue \/ \E r : queue' = [queue EXCEPT ![s] = r]
    BY <1>16 DEF RecordEvent, RecordEventFails
  <2> QED
    BY <1>12, <2>1, <2>2
<1>17. ASSUME NEW s \in Streams, Call(s) PROVE Unborn'
  BY <1>9, <1>10, <1>11, <1>13, <1>14, <1>15, <1>16, <1>17 DEF Call
<1> QED
  BY <1>3, <1>4, <1>5, <1>6, <1>7, <1>8, <1>17 DEF Next, Return

-----------------------------------------------------------------------------
(* The actions and the arguments.                                          *)

\* With no backlog on its way, what has to run has been issued, and is not
\* complete.
LEMMA UnfinishedIssued ==
    ASSUME QueueInv, Once, RunsOnce, \A s \in Streams : Cursor(s) = 1,
           NEW cmd \in Launches, Unfinished(cmd)
    PROVE  WasIssued(cmd.op) /\ cmd.op \notin done
<1>1. IsWork(cmd) /\ cmd.op \in Ops
  BY LaunchFields
<1>2. done \subseteq Started
  BY DEF Started
<1>3. CASE cmd \in Submitted
  <2>1. PICK c \in QueueTypes : cmd \in Elements(fifo[c])
    BY <1>3 DEF Submitted
  <2>2. InChannel(cmd.op)
    BY <1>1, <2>1 DEF Elements, InChannel, Has
  <2> QED
    BY <1>1, <1>2, <2>2 DEF Once, OnePlace
<1>4. CASE cmd \in Executing
  <2>1. PICK c \in QueueTypes : \E task \in running[c] : task.cmd = cmd
    BY <1>4 DEF Executing
  <2>2. cmd.op \notin done
    BY <2>1 DEF RunsOnce
  <2>3. cmd.op \in Started
    BY <1>4 DEF Started
  <2> QED
    BY <1>1, <2>2, <2>3 DEF Once, OnePlace
<1>5. ASSUME NEW s \in Streams, Within(queue[s], cmd)
      PROVE  WasIssued(cmd.op) /\ cmd.op \notin done
  <2>1. queue[s].backlog \in Seq(Split)
    BY DEF QueueInv, TypeOK, HostTypeOK, NvCommandQueue
  <2>2. DOMAIN queue[s].backlog = 1..Len(queue[s].backlog)
    BY <2>1
  <2>3. Holds(queue[s], 1, cmd.op)
    BY <1>1, <1>5, <2>2 DEF Within, Elements, Holds, Has
  <2>4. Waiting(s, cmd.op)
    BY <2>3 DEF Waiting
  <2> QED
    BY <1>1, <1>2, <2>4 DEF Once, OnePlace
<1> QED
  BY <1>3, <1>4, <1>5 DEF Unfinished

\* A channel takes a command.
LEMMA TakenArgs ==
    ASSUME QueueInv, NEW c \in QueueTypes, fifo[c] # <<>>, Take(c)
    PROVE  /\ Submitted' \subseteq Submitted
           /\ Head(fifo[c]) \in Elements(fifo[c])
<1>1. fifo[c] \in Seq(Command)
  BY DEF QueueInv, TypeOK, GpuTypeOK
<1>2. \A d \in QueueTypes : fifo'[d] = IF d = c THEN Tail(fifo[c]) ELSE fifo[d]
  BY DEF QueueInv, TypeOK, GpuTypeOK, Take
<1>3. PICK seq \in Seq(Command) : seq = fifo[c] /\ seq # <<>>
  BY <1>1
<1>4. /\ \A i \in DOMAIN Tail(seq) : Tail(seq)[i] = seq[i + 1] /\ i + 1 \in DOMAIN seq
      /\ Head(seq) = seq[1] /\ 1 \in DOMAIN seq
  BY <1>3
<1>5. Elements(Tail(seq)) \subseteq Elements(seq) /\ Head(seq) \in Elements(seq)
  BY <1>4 DEF Elements
<1>6. \A d \in QueueTypes : Elements(fifo'[d]) \subseteq Elements(fifo[d])
  BY <1>2, <1>3, <1>5
<1>7. Submitted' \subseteq Submitted
  BY <1>6 DEF Submitted, Elements
<1> QED
  BY <1>3, <1>5, <1>7

LEMMA ExecutingTasks ==
    /\ \A x : x \in Executing <=> \E c \in QueueTypes : \E task \in running[c] : x = task.cmd
    /\ \A x : x \in Executing' <=> \E c \in QueueTypes : \E task \in running'[c] : x = task.cmd
<1>1. \A x : x \in Executing <=> \E c \in QueueTypes : \E task \in running[c] : x = task.cmd
  BY DEF Executing
<1>2. \A x : x \in Executing' <=> \E c \in QueueTypes : \E task \in running'[c] : x = task.cmd
  BY DEF Executing
<1> QED
  BY <1>1, <1>2

LEMMA BeginArgs ==
    ASSUME QueueInv, Once, ArgsInv, NEW c \in QueueTypes, fifo[c] # <<>>,
           IsWork(Head(fifo[c])), Begin(c), UNCHANGED hostVars
    PROVE  ArgsInv'
<1> DEFINE first == Head(fifo[c])
           new == [cmd |-> first, region |-> localMem]
<1>1. running' = [running EXCEPT ![c] = @ \cup {new}] /\ done' = done /\ Take(c)
  BY DEF Begin
<1>2. new.cmd = first
  OBVIOUS
<1>3. Submitted' \subseteq Submitted /\ first \in Elements(fifo[c])
  BY <1>1, TakenArgs
<1>4. InChannel(first.op) /\ first \in Command
  <2>1. fifo[c] \in Seq(Command)
    BY DEF QueueInv, TypeOK, GpuTypeOK
  <2> QED
    BY <1>3, <2>1 DEF Elements, InChannel, Has
<1>5. first.op \in Ops
  BY <1>4 DEF Command, Launches, Copies, Releases, Acquires, LocalMemSets, IsWork
<1>6. first.op \notin Started
  BY <1>4, <1>5 DEF Once, OnePlace
<1> HIDE DEF new
<1>7. \A d \in QueueTypes : running'[d] = IF d = c THEN running[d] \cup {new} ELSE running[d]
  BY <1>1 DEF QueueInv, TypeOK, GpuTypeOK
<1>8. /\ first.op \notin done
      /\ \A d \in QueueTypes : \A task \in running[d] : task.cmd.op # first.op
  BY <1>6 DEF Started, Executing
<1>9. RunsOnce'
  <2> SUFFICES ASSUME NEW d \in QueueTypes, NEW e \in QueueTypes,
                      NEW task \in running'[d], NEW other \in running'[e]
               PROVE  /\ task.cmd.op \notin done'
                      /\ task.cmd.op = other.cmd.op => d = e /\ task = other
    BY DEF RunsOnce
  <2>1. /\ task \in running[d] \/ (task = new /\ d = c)
        /\ other \in running[e] \/ (other = new /\ e = c)
    BY <1>7
  <2> QED
    BY <1>1, <1>2, <1>8, <2>1 DEF ArgsInv, RunsOnce
<1>10. \A cmd : cmd \in Executing' => cmd \in Executing \/ cmd = first
  <2> SUFFICES ASSUME NEW cmd, cmd \in Executing', cmd # first
               PROVE  cmd \in Executing
    OBVIOUS
  <2>1. PICK d \in QueueTypes : \E task \in running'[d] : cmd = task.cmd
    BY ExecutingTasks
  <2>2. PICK task \in running'[d] : cmd = task.cmd
    BY <2>1
  <2>3. task \in running[d]
    BY <1>2, <1>7, <2>2
  <2> QED
    BY <2>2, <2>3, ExecutingTasks
<1>11. first \in Submitted
  BY <1>3 DEF Submitted, Elements
<1>12. \A cmd \in Launches : Unfinished(cmd)' => Unfinished(cmd)
  BY <1>3, <1>10, <1>11 DEF Unfinished, Within, hostVars
<1>13. kernArgs' = kernArgs /\ queue' = queue
  BY DEF hostVars
<1> QED
  BY <1>9, <1>12, <1>13, ArgsLater DEF ArgsInv

LEMMA GpuStepKeepsArgs ==
    ASSUME QueueInv, Once, ArgsInv, GpuStep
    PROVE  ArgsInv'
<1>1. "COMPUTE" \in QueueTypes /\ "DMA" \in QueueTypes /\ UNCHANGED hostVars
  BY DEF QueueTypes, GpuStep
<1>2. kernArgs' = kernArgs /\ queue' = queue
  BY <1>1 DEF hostVars
<1>3. ASSUME NEW c \in QueueTypes, fifo[c] # <<>>, Take(c), UNCHANGED <<running, done>>
      PROVE  ArgsInv'
  <2>1. Submitted' \subseteq Submitted
    BY <1>3, TakenArgs
  <2>2. Executing' = Executing /\ RunsOnce'
    BY <1>3 DEF Executing, RunsOnce, ArgsInv
  <2>3. \A cmd \in Launches : Unfinished(cmd)' => Unfinished(cmd)
    BY <1>2, <2>1, <2>2 DEF Unfinished, Within
  <2> QED
    BY <1>2, <2>2, <2>3, ArgsLater DEF ArgsInv
<1>4. CASE StartKernel
  BY <1>1, <1>4, BeginArgs DEF StartKernel, NextIs, IsWork
<1>5. CASE StartCopy
  BY <1>1, <1>5, BeginArgs DEF StartCopy, NextIs, IsWork
<1>6. CASE Acquire
  BY <1>1, <1>3, <1>6 DEF Acquire, NextIs
<1>7. CASE SetLocalMem
  BY <1>1, <1>3, <1>7 DEF SetLocalMem, NextIs
<1>8. CASE \E c \in QueueTypes : Release(c)
  BY <1>3, <1>8 DEF Release, NextIs
<1>9. ASSUME NEW c \in QueueTypes, Finish(c) PROVE ArgsInv'
  <2>1. PICK task \in running[c] :
            /\ running' = [running EXCEPT ![c] = @ \ {task}]
            /\ done' = done \cup {task.cmd.op}
            /\ fifo' = fifo
    BY <1>9 DEF Finish
  <2>2. \A d \in QueueTypes : running'[d] = IF d = c THEN running[d] \ {task} ELSE running[d]
    BY <2>1 DEF QueueInv, TypeOK, GpuTypeOK
  <2>3. RunsOnce'
    <3> SUFFICES ASSUME NEW d \in QueueTypes, NEW e \in QueueTypes,
                        NEW any \in running'[d], NEW other \in running'[e]
                 PROVE  /\ any.cmd.op \notin done'
                        /\ any.cmd.op = other.cmd.op => d = e /\ any = other
      BY DEF RunsOnce
    <3>1. any \in running[d] /\ other \in running[e] /\ (d = c => any # task)
      BY <2>2
    <3>2. /\ any.cmd.op \notin done
          /\ any.cmd.op = other.cmd.op => d = e /\ any = other
          /\ any.cmd.op = task.cmd.op => d = c /\ any = task
      BY <2>1, <3>1 DEF ArgsInv, RunsOnce
    <3> QED
      BY <2>1, <3>1, <3>2
  <2>4. \A cmd : cmd \in Executing' => cmd \in Executing
    BY <2>2, ExecutingTasks
  <2>5. \A cmd \in Launches : Unfinished(cmd)' => Unfinished(cmd)
    BY <1>2, <2>1, <2>4 DEF Unfinished, Submitted, Within
  <2> QED
    BY <1>2, <2>3, <2>5, ArgsLater DEF ArgsInv
<1> QED
  BY <1>1, <1>4, <1>5, <1>6, <1>7, <1>8, <1>9 DEF GpuStep, GpuNext, ComputeTakes, DmaTakes

LEMMA SetUpCarries ==
    ASSUME NEW s \in Streams, NEW q \in NvCommandQueue, NEW t \in QueueTypes,
           SetUpChannel(s, q, t)
    PROVE  \E r \in NvCommandQueue : Carries(q, r) /\ SubmitToFifo(s, r, t)
<1> DEFINE next == AdvanceTimeline(q)
           r == SignalNotify(next, Timeline(s), next.timelineCtr, t)
<1>1. next \in NvCommandQueue /\ Carries(q, next)
  BY AdvanceTimelineTyped, ScalarFieldsCarry
<1>2. SubmitToFifo(s, r, t)
  BY DEF SetUpChannel
<1> HIDE DEF next
<1>3. next.timelineCtr \in Nat
  BY <1>1, CounterIsNat DEF NvCommandQueue
<1>4. r \in NvCommandQueue /\ Carries(next, r)
  BY <1>1, <1>3, SignalNotifyTyped, SignalNotifyCarries, TimelineIsSignal
<1> HIDE DEF r
<1> QED
  BY <1>1, <1>2, <1>4, CarriesTransitive

LEMMA StreamCreateKeepsArgs ==
    ASSUME QueueInv, ArgsInv, Unborn, NEW s \in Streams, StreamCreate(s)
    PROVE  ArgsInv'
<1>1. PICK type \in QueueTypes \cup {"OTHER"} : SetUpChannel(s, NewQueue(s, type), "COMPUTE")
  BY DEF StreamCreate
<1>2. "COMPUTE" \in QueueTypes /\ NewQueue(s, type) \in NvCommandQueue
  BY NewQueueTakes DEF QueueTypes
<1>3. queue[s] = NewQueue(s, "OTHER") /\ kernArgs' = kernArgs
  BY DEF StreamCreate, Unborn
<1>4. Carries(queue[s], NewQueue(s, type))
  BY <1>3 DEF Carries, NewQueue, Within
<1>5. PICK r \in NvCommandQueue :
          Carries(NewQueue(s, type), r) /\ SubmitToFifo(s, r, "COMPUTE")
  BY <1>1, <1>2, SetUpCarries
<1>6. Carries(queue[s], r)
  BY <1>4, <1>5, CarriesTransitive
<1> QED
  BY <1>2, <1>3, <1>5, <1>6, SubmittedArgs

LEMMA InitComputeReturnsKeepsArgs ==
    ASSUME QueueInv, ArgsInv, InitComputeReturns
    PROVE  ArgsInv'
<1>1. PICK s \in Streams : s = cpu.stream
  BY CpuFields DEF InitComputeReturns, QueueInv, TypeOK
<1>2. queue[s] \in NvCommandQueue /\ "DMA" \in QueueTypes
  BY DEF QueueInv, TypeOK, HostTypeOK, QueueTypes
<1>3. SetUpChannel(s, queue[s], "DMA") /\ kernArgs' = kernArgs
  BY <1>1 DEF InitComputeReturns
<1>4. PICK r \in NvCommandQueue : Carries(queue[s], r) /\ SubmitToFifo(s, r, "DMA")
  BY <1>2, <1>3, SetUpCarries
<1> QED
  BY <1>2, <1>3, <1>4, SubmittedArgs

LEMMA LaunchKeepsArgs ==
    ASSUME QueueInv, ArgsInv, NEW s \in Streams, NEW f \in Funcs, NEW async \in BOOLEAN,
           LaunchFunction(s, f, async)
    PROVE  ArgsInv'
<1> DEFINE prep == Prepared(s, f, async).queue
           slot == prep.kernArgsWriteIdx
           nth == Len(issued[s]) + 1
           launch == [kind |-> "launch", op |-> <<s, nth>>, slot |-> slot,
                      need |-> LocalMemReq[f], slm |-> prep.currentSlmPerThread]
           taken == [prep EXCEPT !.kernArgsWriteIdx = slot + 1]
           added == Enqueue(taken, launch, "COMPUTE")
           last == EndOp(added, s, async, "COMPUTE")
<1>1. /\ HostTypeOK /\ "COMPUTE" \in QueueTypes /\ Len(issued[s]) < MaxOps
  BY DEF QueueInv, TypeOK, QueueTypes, LaunchFunction, MayLaunch
<1>2. <<s, nth>> \in Ops
  BY <1>1, NextOpIsOp
<1>3. prep \in NvCommandQueue /\ Carries(queue[s], prep)
  BY PreparedTakes, PreparedCarries DEF Takes
<1>4. slot + 1 \in 0..KernArgsSlots /\ slot \in Slots
  BY <1>3, FuncAssumption DEF LaunchFunction, KernArgsFit, NvCommandQueue, Slots
<1>5. /\ queue' = [queue EXCEPT ![s] = last]
      /\ kernArgs' = [kernArgs EXCEPT ![s][slot] = nth]
      /\ UNCHANGED gpuVars
  BY DEF LaunchFunction
<1>6. launch \in Command /\ launch.op = <<s, nth>> /\ launch.slot = slot
  <2>1. prep.currentSlmPerThread \in Nat /\ slot \in Nat
    BY <1>3 DEF NvCommandQueue
  <2>2. LocalMemReq[f] \in Nat
    BY FuncAssumption
  <2> HIDE DEF prep, nth
  <2> QED
    BY <1>2, <2>1, <2>2 DEF Command, Launches
<1> HIDE DEF prep, slot, launch, nth
<1>7. /\ taken \in NvCommandQueue /\ taken.kernArgsWriteIdx = slot + 1
      /\ taken.buf = prep.buf /\ taken.backlog = prep.backlog
  BY <1>3, <1>4 DEF NvCommandQueue
<1> HIDE DEF taken
<1>8. /\ added \in NvCommandQueue
      /\ added.kernArgsWriteIdx = slot + 1
      /\ \A c : Within(added, c) => Within(taken, c) \/ c = launch
  BY <1>1, <1>6, <1>7, EnqueueTyped, EnqueueWithin
<1> HIDE DEF added
<1>9. Carries(added, last)
  BY <1>1, <1>8, EndOpCarries
<1> HIDE DEF last
<1>10. slot = queue[s].kernArgsWriteIdx /\ last.kernArgsWriteIdx = slot + 1
  BY <1>3, <1>8, <1>9 DEF Carries, slot
<1>11. \A c : IsLaunch(c) /\ Within(last, c) =>
                 Within(queue[s], c) \/ (c.op = <<s, nth>> /\ c.slot = slot)
  BY <1>3, <1>6, <1>7, <1>8, <1>9 DEF Carries, Within
<1> QED
  BY <1>4, <1>5, <1>10, <1>11, SlotTaken

LEMMA LaunchFailsKeepsArgs ==
    ASSUME QueueInv, ArgsInv, NEW s \in Streams, NEW f \in Funcs, NEW async \in BOOLEAN,
           LaunchFailsLocalMem(s, f) \/ LaunchFailsLate(s, f, async)
    PROVE  ArgsInv'
<1> DEFINE switched == SwitchTo(queue[s], "COMPUTE")
           prep == Prepared(s, f, async).queue
           slot == prep.kernArgsWriteIdx
<1>1. /\ HostTypeOK /\ queue[s] \in NvCommandQueue /\ "COMPUTE" \in QueueTypes
  BY DEF QueueInv, TypeOK, HostTypeOK, QueueTypes
<1>2. switched \in NvCommandQueue /\ Carries(queue[s], switched)
  BY <1>1, SwitchedQueue, SwitchToCarries DEF Takes
<1>3. prep \in NvCommandQueue /\ Carries(queue[s], prep)
  BY PreparedTakes, PreparedCarries DEF Takes
<1>4. Carries(queue[s], GrownSlm(switched, f))
  BY <1>2, ScalarFieldsCarry, CarriesTransitive
<1>5. UNCHANGED gpuVars
  BY DEF LaunchFailsLocalMem, LaunchFailsLate
<1>6. \/ /\ kernArgs' = kernArgs
         /\ \/ queue' = [queue EXCEPT ![s] = switched]
            \/ queue' = [queue EXCEPT ![s] = GrownSlm(switched, f)]
            \/ queue' = [queue EXCEPT ![s] = prep]
      \/ /\ KernArgsFit(prep)
         /\ queue' = [queue EXCEPT ![s] = [prep EXCEPT !.kernArgsWriteIdx = slot + 1]]
         /\ kernArgs' = [kernArgs EXCEPT ![s][slot] = 0]
  <2>1. CASE LaunchFailsLocalMem(s, f)
    BY <2>1 DEF LaunchFailsLocalMem
  <2>2. CASE LaunchFailsLate(s, f, async)
    BY <2>2 DEF LaunchFailsLate
  <2> QED
    BY <2>1, <2>2
<1> HIDE DEF switched, prep
<1>7. ASSUME NEW r, Carries(queue[s], r), queue' = [queue EXCEPT ![s] = r], kernArgs' = kernArgs
      PROVE  ArgsInv'
  BY <1>5, <1>7, CarriedArgs
<1>8. CASE /\ KernArgsFit(prep)
           /\ queue' = [queue EXCEPT ![s] = [prep EXCEPT !.kernArgsWriteIdx = slot + 1]]
           /\ kernArgs' = [kernArgs EXCEPT ![s][slot] = 0]
  <2> DEFINE r == [prep EXCEPT !.kernArgsWriteIdx = slot + 1]
  <2>1. slot \in Slots /\ slot = queue[s].kernArgsWriteIdx
    BY <1>3, <1>8, FuncAssumption DEF KernArgsFit, NvCommandQueue, Slots, Carries
  <2>2. r.kernArgsWriteIdx = slot + 1 /\ r.buf = prep.buf /\ r.backlog = prep.backlog
    BY <1>3 DEF NvCommandQueue
  <2>3. queue' = [queue EXCEPT ![s] = r]
    BY <1>8
  <2> HIDE DEF r, slot
  <2>4. \A c : IsLaunch(c) /\ Within(r, c) => Within(queue[s], c)
    BY <1>3, <2>2 DEF Carries, Within
  <2> QED
    BY <1>5, <1>8, <2>1, <2>2, <2>3, <2>4, SlotTaken
<1> QED
  BY <1>2, <1>3, <1>4, <1>6, <1>7, <1>8

LEMMA GpuMemcpyKeepsArgs ==
    ASSUME QueueInv, ArgsInv, NEW s \in Streams, NEW async \in BOOLEAN, GpuMemcpy(s, async)
    PROVE  ArgsInv'
<1> DEFINE op == <<s, Len(issued[s]) + 1>>
           copy == [kind |-> "copy", op |-> op]
           switched == SwitchTo(queue[s], "DMA")
           added == Enqueue(switched, copy, "DMA")
           last == EndOp(added, s, async, "DMA")
<1>1. /\ HostTypeOK /\ queue[s] \in NvCommandQueue /\ "DMA" \in QueueTypes
      /\ Len(issued[s]) < MaxOps
  BY DEF QueueInv, TypeOK, HostTypeOK, QueueTypes, GpuMemcpy
<1>2. op \in Ops
  BY <1>1, NextOpIsOp
<1>3. switched \in NvCommandQueue /\ Carries(queue[s], switched)
  BY <1>1, SwitchedQueue, SwitchToCarries DEF Takes
<1>4. queue' = [queue EXCEPT ![s] = last] /\ UNCHANGED <<gpuVars, kernArgs>>
  BY DEF GpuMemcpy
<1>5. copy \in Command /\ ~IsLaunch(copy)
  <2> HIDE DEF op
  <2> QED
    BY <1>2 DEF Command, Copies, IsLaunch
<1> HIDE DEF copy, switched
<1>6. added \in NvCommandQueue /\ Carries(switched, added)
  BY <1>1, <1>3, <1>5, EnqueueTyped, EnqueueCarries
<1> HIDE DEF added
<1>7. Carries(added, last)
  BY <1>1, <1>6, EndOpCarries
<1> HIDE DEF last
<1>8. Carries(queue[s], last)
  BY <1>3, <1>6, <1>7, CarriesTransitive
<1> QED
  BY <1>4, <1>8, CarriedArgs

LEMMA RecordEventKeepsArgs ==
    ASSUME QueueInv, ArgsInv, NEW e \in Events, NEW s \in Streams, RecordEvent(e, s)
    PROVE  ArgsInv'
<1> DEFINE t == RecordType(queue[s])
           sig == ObtainSignal(e, s).sig
           left == ObtainSignal(e, s).left
           q == Retyped(queue[s], left, t)
           r == SignalNotify(q, sig, 1, t)
<1>1. t \in QueueTypes
  BY DEF RecordType, QueueTypes
<1>2. sig \in Signals /\ left \in Seq(0..(PoolSize - 1))
  BY ObtainSignalTyped DEF RecordEvent, QueueInv, TypeOK
<1>3. queue' = [queue EXCEPT ![s] = r] /\ UNCHANGED <<gpuVars, kernArgs>>
  BY DEF RecordEvent, Retyped
<1>4. queue[s] \in NvCommandQueue
  BY DEF QueueInv, TypeOK, HostTypeOK
<1> HIDE DEF t, sig, left
<1>5. q \in NvCommandQueue /\ Carries(queue[s], q)
  <2>1. q \in NvCommandQueue
    BY <1>1, <1>2, <1>4 DEF NvCommandQueue, Retyped
  <2> QED
    BY <1>4, <2>1, ScalarFieldsCarry
<1> HIDE DEF q
<1>6. Carries(queue[s], r)
  BY <1>1, <1>2, <1>5, SignalNotifyCarries, CarriesTransitive
<1> HIDE DEF r
<1> QED
  BY <1>3, <1>6, CarriedArgs

LEMMA CommenceKeepsArgs ==
    ASSUME QueueInv, ArgsInv, NEW s \in Streams, Commence(s) \/ CommenceBacklog(s)
    PROVE  ArgsInv'
<1>1. queue[s] \in NvCommandQueue /\ "COMPUTE" \in QueueTypes /\ "DMA" \in QueueTypes
  BY DEF QueueInv, TypeOK, HostTypeOK, QueueTypes
<1>2. CASE Commence(s)
  <2>1. PICK t \in QueueTypes : t = queue[s].currentQueueType
    BY <1>2 DEF Commence
  <2>2. PICK q : q = [NotifyIfPending(queue[s], s, t) EXCEPT !.timelineNotifyPending = FALSE]
    OBVIOUS
  <2>3. SubmitToFifo(s, q, t) /\ kernArgs' = kernArgs
    BY <1>2, <2>1, <2>2 DEF Commence
  <2>4. q \in NvCommandQueue /\ Carries(queue[s], q)
    BY <1>1, <2>2, NotifyIfPendingCarries
  <2> QED
    BY <2>3, <2>4, SubmittedArgs
<1>3. CASE CommenceBacklog(s)
  <2>1. PICK first : first = BacklogCurrentCmdBuffer(queue[s], "COMPUTE")
    OBVIOUS
  <2>2. PICK both : both = BacklogCurrentCmdBuffer(first, "DMA")
    OBVIOUS
  <2>3. first \in NvCommandQueue /\ Carries(queue[s], first)
    BY <1>1, <2>1, BacklogTyped, BacklogCarries
  <2>4. Carries(queue[s], both)
    BY <1>1, <2>2, <2>3, BacklogCarries, CarriesTransitive
  <2>5. queue' = [queue EXCEPT ![s] = both] /\ UNCHANGED <<gpuVars, kernArgs>>
    BY <1>3, <2>1, <2>2 DEF CommenceBacklog
  <2> QED
    BY <2>4, <2>5, CarriedArgs
<1> QED
  BY <1>2, <1>3

LEMMA SubmitEntryKeepsArgs ==
    ASSUME QueueInv, ArgsInv, SubmitEntry
    PROVE  ArgsInv'
<1>1. PICK s \in Streams : s = cpu.stream
  BY LoadedTyped DEF SubmitEntry
<1>2. PICK piece : piece = queue[s].backlog[cpu.entry]
  OBVIOUS
<1>3. PICK t \in QueueTypes : t = piece.type
  BY <1>1, <1>2, LoadedTyped DEF SubmitEntry
<1>4. PICK q \in NvCommandQueue : q = Loaded(s, piece)
  BY <1>1, <1>2, LoadedTyped DEF SubmitEntry
<1>5. SubmitToFifo(s, q, t) /\ kernArgs' = kernArgs
  BY <1>1, <1>2, <1>3, <1>4 DEF SubmitEntry
<1>6. /\ queue[s] \in NvCommandQueue /\ queue[s].backlog \in Seq(Split)
      /\ cpu.entry \in DOMAIN queue[s].backlog
  <2>1. queue[s] \in NvCommandQueue /\ queue[s].backlog \in Seq(Split)
    BY DEF QueueInv, TypeOK, HostTypeOK, NvCommandQueue
  <2>2. cpu.entry \in Nat \ {0} /\ cpu.entry <= Len(queue[s].backlog)
    BY <1>1, CpuFields DEF SubmitEntry, QueueInv, TypeOK, CursorInBacklog
  <2> QED
    BY <2>1, <2>2
<1>7. piece \in Split
  BY <1>2, <1>6
<1>8. PICK l : l = [queue[s] EXCEPT !.buf[t] = piece.buf]
  OBVIOUS
<1>9. /\ l \in NvCommandQueue
      /\ l.kernArgsWriteIdx = queue[s].kernArgsWriteIdx
      /\ l.backlog = queue[s].backlog
      /\ \A u \in QueueTypes : l.buf[u] = IF u = t THEN piece.buf ELSE queue[s].buf[u]
  <2>1. PICK buf : buf = [queue[s].buf EXCEPT ![t] = piece.buf]
    OBVIOUS
  <2>2. buf \in [QueueTypes -> Seq(Command)]
    BY <1>6, <1>7, <2>1 DEF NvCommandQueue, Split
  <2>3. l = [queue[s] EXCEPT !.buf = buf]
    BY <1>6, <1>8, <2>1 DEF NvCommandQueue
  <2>4. /\ l \in NvCommandQueue
        /\ l.kernArgsWriteIdx = queue[s].kernArgsWriteIdx
        /\ l.backlog = queue[s].backlog
        /\ l.buf = buf
    BY <1>6, <2>2, <2>3 DEF NvCommandQueue
  <2>5. \A u \in QueueTypes : buf[u] = IF u = t THEN piece.buf ELSE queue[s].buf[u]
    BY <1>6, <2>1 DEF NvCommandQueue
  <2> QED
    BY <2>4, <2>5
<1>10. Carries(queue[s], l)
  BY <1>2, <1>6, <1>9 DEF Carries, Within
<1>11. q = IF piece.timelineNotifyPending
             THEN SignalNotify(l, Timeline(s), piece.timelineCtr, t)
             ELSE l
  BY <1>3, <1>4, <1>8 DEF Loaded
<1>12. piece.timelineCtr \in Nat
  BY <1>7, CounterIsNat DEF Split
<1>13. Carries(l, q)
  BY <1>9, <1>11, <1>12, SignalNotifyCarries, ScalarFieldsCarry, TimelineIsSignal
<1>14. Carries(queue[s], q)
  BY <1>10, <1>13, CarriesTransitive
<1> QED
  BY <1>5, <1>14, SubmittedArgs

LEMMA CommenceReturnsKeepsArgs ==
    ASSUME QueueInv, ArgsInv, CommenceReturns
    PROVE  ArgsInv'
<1>1. PICK s \in Streams : s = cpu.stream
  BY CpuFields DEF CommenceReturns, EntryReached, QueueInv, TypeOK
<1>2. PICK r : r = [queue[s] EXCEPT !.backlog = <<>>]
  OBVIOUS
<1>3. queue' = [queue EXCEPT ![s] = r] /\ UNCHANGED <<gpuVars, kernArgs>>
  BY <1>1, <1>2 DEF CommenceReturns
<1>4. queue[s] \in NvCommandQueue
  BY DEF QueueInv, TypeOK, HostTypeOK
<1>5. r.buf = queue[s].buf /\ r.backlog = <<>> /\ r.kernArgsWriteIdx = queue[s].kernArgsWriteIdx
  BY <1>2, <1>4 DEF NvCommandQueue
<1>6. Carries(queue[s], r)
  BY <1>5 DEF Carries, Within
<1> QED
  BY <1>3, <1>6, CarriedArgs

\* The kernargs page starts again: all that the stream launched is complete.
LEMMA AwaitReturnsKeepsArgs ==
    ASSUME QueueInv, Once, OrderInv, ArgsInv, AwaitReturns
    PROVE  ArgsInv'
<1>1. PICK s : s = cpu.stream
  OBVIOUS
<1>2. PICK r : r = [queue[s] EXCEPT !.kernArgsWriteIdx = 0]
  OBVIOUS
<1>3. /\ cpu.at = "await" /\ value[Timeline(s)] >= queue[s].timelineCtr
      /\ queue' = [queue EXCEPT ![s] = r] /\ UNCHANGED <<gpuVars, kernArgs>>
  BY <1>1, <1>2 DEF AwaitReturns, SignalReached
<1>4. s \in Streams /\ queue[s].timelineCtr = Len(issued[s]) + 2 /\ queue[s] \in NvCommandQueue
  BY <1>1, <1>3, CpuFields DEF QueueInv, TypeOK, HostTypeOK, OrderInv, CountersSound, InUse
<1>5. AllDone(s)
  BY <1>3, <1>4, ReachedAllDone DEF OrderInv
<1>6. \A x \in Streams : Cursor(x) = 1
  BY <1>3 DEF Cursor
<1>7. ASSUME NEW cmd \in Launches, Unfinished(cmd) PROVE cmd.op[1] # s
  BY <1>5, <1>6, <1>7, UnfinishedIssued, LaunchFields DEF ArgsInv, AllDone, WasIssued
<1>8. r.buf = queue[s].buf /\ r.backlog = queue[s].backlog
  BY <1>2, <1>4 DEF NvCommandQueue
<1>9. \A x \in Streams : queue'[x] = IF x = s THEN r ELSE queue[x]
  BY <1>3 DEF QueueInv, TypeOK, HostTypeOK
<1>10. \A x \in Streams : \A cmd : Within(queue'[x], cmd) <=> Within(queue[x], cmd)
  BY <1>8, <1>9 DEF Within
<1>11. \A cmd \in Launches : Unfinished(cmd)' => Unfinished(cmd)
  BY <1>3, <1>10, GpuKeepsArgs DEF Unfinished, Within
<1>12. ASSUME NEW cmd \in Launches, Unfinished(cmd)' PROVE SlotHolds(cmd)'
  <2>1. Unfinished(cmd) /\ cmd.op[1] # s /\ cmd.op[1] \in Streams
    BY <1>7, <1>11, <1>12, LaunchFields
  <2>2. queue'[cmd.op[1]] = queue[cmd.op[1]] /\ kernArgs' = kernArgs
    BY <1>3, <1>9, <2>1
  <2> QED
    BY <2>1, <2>2 DEF ArgsInv, ArgsKept, SlotHolds
<1> QED
  BY <1>3, <1>12, GpuKeepsArgs DEF ArgsInv, ArgsKept

LEMMA ArgsInit == Init => ArgsInv /\ Unborn
<1> SUFFICES ASSUME Init PROVE ArgsInv /\ Unborn
  OBVIOUS
<1>1. \A s \in Streams : queue[s] = NewQueue(s, "OTHER")
  BY DEF Init
<1>2. /\ \A c \in QueueTypes : fifo[c] = <<>> /\ running[c] = {}
  BY DEF Init, GpuInit
<1>3. Submitted = {} /\ Executing = {}
  BY <1>2 DEF Submitted, Executing, Elements
<1>4. \A s \in Streams : \A cmd : ~Within(queue[s], cmd)
  <2> SUFFICES ASSUME NEW s \in Streams, NEW cmd PROVE ~Within(queue[s], cmd)
    OBVIOUS
  <2>1. PICK q : q = queue[s]
    OBVIOUS
  <2>2. q.backlog = <<>> /\ \A t \in QueueTypes : q.buf[t] = <<>>
    <3>1. /\ NewQueue(s, "OTHER").backlog = <<>>
          /\ \A t \in QueueTypes : NewQueue(s, "OTHER").buf[t] = <<>>
      BY DEF NewQueue
    <3> QED
      BY <1>1, <2>1, <3>1
  <2>3. ~Within(q, cmd)
    BY <2>2 DEF Within, Elements
  <2> QED
    BY <2>1, <2>3
<1>5. \A cmd \in Launches : ~Unfinished(cmd)
  BY <1>3, <1>4 DEF Unfinished
<1>6. RunsOnce
  BY <1>2 DEF RunsOnce
<1> QED
  BY <1>1, <1>5, <1>6 DEF ArgsInv, ArgsKept, Unborn

LEMMA CallKeepsArgs ==
    ASSUME Orderly, QueueInv, Unborn, ArgsInv, NEW s \in Streams, Call(s)
    PROVE  ArgsInv'
<1>1. CASE StreamCreate(s)
  BY <1>1, StreamCreateKeepsArgs
<1>2. CASE StreamCreateFails(s) \/ StreamDestroy(s) \/ Await(s)
           \/ \E e \in Events : RecordEventFails(e, s)
  BY <1>2, QuietArgs DEF StreamCreateFails, StreamDestroy, Await, RecordEventFails
<1>3. CASE \E f \in Funcs, async \in BOOLEAN : LaunchFunction(s, f, async)
  BY <1>3, LaunchKeepsArgs
<1>4. ASSUME NEW f \in Funcs, LaunchFailsLocalMem(s, f) PROVE ArgsInv'
  <2>1. TRUE \in BOOLEAN
    OBVIOUS
  <2> QED
    BY <1>4, <2>1, LaunchFailsKeepsArgs
<1>5. CASE \E f \in Funcs, async \in BOOLEAN : LaunchFailsLate(s, f, async)
  BY <1>5, LaunchFailsKeepsArgs
<1>6. CASE \E async \in BOOLEAN : GpuMemcpy(s, async)
  BY <1>6, GpuMemcpyKeepsArgs
<1>7. CASE \E e \in Events : RecordEvent(e, s)
  BY <1>7, RecordEventKeepsArgs
<1>8. CASE Commence(s) \/ CommenceBacklog(s)
  BY <1>8, CommenceKeepsArgs
<1>9. CASE CommenceFails(s)
  BY <1>9 DEF CommenceFails, Orderly
<1> QED
  BY <1>1, <1>2, <1>3, <1>4, <1>5, <1>6, <1>7, <1>8, <1>9 DEF Call

LEMMA ArgsStep ==
    ASSUME Orderly, StreamInv, Unborn, ArgsInv, [Next]_vars
    PROVE  ArgsInv'
<1>1. QueueInv /\ Once /\ OrderInv
  BY DEF StreamInv
<1>2. CASE GpuStep
  BY <1>1, <1>2, GpuStepKeepsArgs
<1>3. CASE InitComputeReturns \/ SubmitEntry
  BY <1>1, <1>3, InitComputeReturnsKeepsArgs, SubmitEntryKeepsArgs
<1>4. CASE CommenceReturns \/ AwaitReturns
  BY <1>1, <1>4, CommenceReturnsKeepsArgs, AwaitReturnsKeepsArgs
<1>5. CASE InitDmaReturns \/ NextEntry \/ EventSynchronizeReturns
           \/ \E e \in Events : EventSynchronize(e) \/ EventDestroy(e)
  BY <1>5, QuietArgs DEF InitDmaReturns, NextEntry, EventSynchronizeReturns,
                         EventSynchronize, EventDestroy
<1>6. CASE SubmitEntryFails
  BY <1>6 DEF SubmitEntryFails, Orderly
<1>7. CASE \E s \in Streams : Call(s)
  BY <1>1, <1>7, CallKeepsArgs
<1>8. CASE Exit \/ UNCHANGED vars
  <2>1. UNCHANGED vars
    BY <1>8 DEF Exit
  <2>2. UNCHANGED <<gpuVars, queue, kernArgs>>
    BY <2>1 DEF vars, hostVars
  <2> QED
    BY <2>2, QuietArgs
<1> QED
  BY <1>2, <1>3, <1>4, <1>5, <1>6, <1>7, <1>8 DEF Next, Return

LEMMA ArgsInvStep ==
    ASSUME Orderly
    PROVE  StreamInv /\ Unborn /\ ArgsInv /\ [Next]_vars
              => StreamInv' /\ Unborn' /\ ArgsInv'
<1>1. ASSUME StreamInv, Unborn, ArgsInv, [Next]_vars
      PROVE  StreamInv' /\ Unborn' /\ ArgsInv'
  <2>1. QueueInv /\ CountersSound
    BY <1>1 DEF StreamInv, OrderInv
  <2>2. Unborn'
    BY <1>1, <2>1, UnbornStep
  <2> QED
    BY <1>1, <2>2, StreamInvStep, ArgsStep
<1> QED
  BY <1>1

LEMMA InvKernArgsIntact == QueueInv /\ ArgsInv => KernArgsIntact
<1> SUFFICES ASSUME QueueInv, ArgsInv, NEW cmd,
                    cmd \in Submitted \cup Executing \cup UNION {Buffered(s) : s \in Streams},
                    cmd.kind = "launch"
             PROVE  kernArgs[cmd.op[1]][cmd.slot] = cmd.op[2]
  BY DEF KernArgsIntact
<1>1. ASSUME NEW seq \in Seq(Command), cmd \in Elements(seq) PROVE cmd \in Command
  BY <1>1 DEF Elements
<1>2. CASE cmd \in Submitted
  <2>1. PICK c \in QueueTypes : cmd \in Elements(fifo[c])
    BY <1>2 DEF Submitted
  <2>2. fifo[c] \in Seq(Command)
    BY DEF QueueInv, TypeOK, GpuTypeOK
  <2>3. cmd \in Command
    BY <1>1, <2>1, <2>2
  <2> QED
    BY <1>2, <2>3 DEF Command, Launches, Copies, Releases, Acquires, LocalMemSets,
                      ArgsInv, ArgsKept, Unfinished, IsLaunch, SlotHolds
<1>3. CASE cmd \in Executing
  <2>1. PICK c \in QueueTypes : \E task \in running[c] : cmd = task.cmd
    BY <1>3, ExecutingTasks
  <2>2. running[c] \subseteq Task
    BY DEF QueueInv, TypeOK, GpuTypeOK
  <2>3. cmd \in Launches \cup Copies
    BY <2>1, <2>2 DEF Task
  <2> QED
    BY <1>3, <2>3 DEF Launches, Copies, ArgsInv, ArgsKept, Unfinished, IsLaunch, SlotHolds
<1>4. ASSUME NEW s \in Streams, cmd \in Buffered(s)
      PROVE  kernArgs[cmd.op[1]][cmd.slot] = cmd.op[2]
  <2>1. PICK q \in NvCommandQueue : q = queue[s]
    BY DEF QueueInv, TypeOK, HostTypeOK
  <2>2. /\ q.backlog \in Seq(Split)
        /\ \A t \in QueueTypes : q.buf[t] \in Seq(Command)
    BY DEF NvCommandQueue
  <2>3. \A j \in DOMAIN q.backlog : q.backlog[j].buf \in Seq(Command)
    <3>1. \A j \in DOMAIN q.backlog : q.backlog[j] \in Split
      BY <2>2
    <3> QED
      BY <3>1 DEF Split
  <2>4. Within(q, cmd)
    <3>1. \/ \E t \in QueueTypes : cmd \in Elements(q.buf[t])
          \/ \E split \in Elements(q.backlog) : cmd \in Elements(split.buf)
      BY <1>4, <2>1 DEF Buffered
    <3> QED
      BY <3>1 DEF Within, Elements
  <2>5. cmd \in Command
    BY <1>1, <2>2, <2>3, <2>4 DEF Within
  <2>6. Within(queue[s], cmd)
    BY <2>1, <2>4
  <2> QED
    BY <2>5, <2>6 DEF Command, Launches, Copies, Releases, Acquires, LocalMemSets,
                      ArgsInv, ArgsKept, Unfinished, IsLaunch, SlotHolds
<1> QED
  BY <1>2, <1>3, <1>4

\* The kernargs page keeps the arguments of every kernel that is buffered,
\* submitted or running, however launches, failed launches, copies and awaits
\* follow each other: awaitExecution, which starts the page again, finds all of
\* the stream complete (allocKernArgs and awaitExecution, cmdqueue.cpp:188-198,
\* 275).
THEOREM ArgumentsIntact == Orderly => (Spec => []KernArgsIntact)
<1> SUFFICES ASSUME Orderly PROVE Spec => []KernArgsIntact
  OBVIOUS
<1>1. StreamInv /\ Unborn /\ ArgsInv /\ [Next]_vars => StreamInv' /\ Unborn' /\ ArgsInv'
  BY ArgsInvStep
<1>2. Init => StreamInv /\ Unborn /\ ArgsInv
  BY StreamInvInit, ArgsInit
<1>3. StreamInv /\ ArgsInv => KernArgsIntact
  BY InvKernArgsIntact DEF StreamInv
<1> QED
  BY <1>1, <1>2, <1>3, PTL DEF Spec

-----------------------------------------------------------------------------
(* The timeline.  The releases of a stream's timeline rise: through the    *)
(* channel that holds them, the pieces still to be submitted, and the      *)
(* buffers.  Each stretch has its bounds, and no stretch reaches below the *)
(* end of the one before.                                                  *)

Rel(cmd, s) == cmd.kind = "release" /\ cmd.sig = Timeline(s)

\* The releases of s in seq rise, above lo and up to hi.
Rises(seq, s, lo, hi) ==
    /\ lo <= hi
    /\ \A i \in DOMAIN seq : Rel(seq[i], s) => seq[i].payload \in (lo + 1)..hi
    /\ \A i, j \in DOMAIN seq :
          i < j /\ Rel(seq[i], s) /\ Rel(seq[j], s) => seq[i].payload < seq[j].payload

\* A queue releases its own timeline only, and the signals of events.
Own(seq, s) == \A i \in DOMAIN seq, r \in Streams : Rel(seq[i], r) => r = s

Stretch(seq, s, lo, hi) == Rises(seq, s, lo, hi) /\ Own(seq, s)

\* The last value released in the buffers of p, a queue or a piece of one.
Top(p) == IF p.timelineNotifyPending THEN p.timelineCtr - 1 ELSE p.timelineCtr

\* What the j-th piece rises above, when the k-th is the next to be submitted;
\* the buffers come after the last piece.
Floor(q, k, lo, j) == IF j = k THEN lo ELSE q.backlog[j - 1].timelineCtr
Rest(q) == Len(q.backlog) + 1

QueueRises(q, s, k, lo) ==
    /\ lo <= q.timelineCtr
    /\ \A j \in k..Len(q.backlog) :
          Stretch(q.backlog[j].buf, s, Floor(q, k, lo, j), Top(q.backlog[j]))
    /\ \A j \in DOMAIN q.backlog : q.backlog[j].timelineCtr <= q.timelineCtr
    /\ \A t \in QueueTypes : Stretch(q.buf[t], s, Floor(q, k, lo, Rest(q)), Top(q))

LEMMA HigherRises ==
    ASSUME NEW seq, NEW s, NEW lo \in Int, NEW hi \in Int, NEW top \in Int, hi <= top,
           Stretch(seq, s, lo, hi)
    PROVE  Stretch(seq, s, lo, top)
BY DEF Stretch, Rises

LEMMA EmptyRises ==
    \A s : \A lo, hi \in Int : lo <= hi => Stretch(<<>>, s, lo, hi)
BY DEF Stretch, Rises, Own

\* A command that is no release of a timeline.
LEMMA QuietAppended ==
    ASSUME NEW seq \in Seq(Command), NEW cmd \in Command, NEW s, NEW lo, NEW hi,
           \A r \in Streams : ~Rel(cmd, r), s \in Streams,
           Stretch(seq, s, lo, hi)
    PROVE  Stretch(Append(seq, cmd), s, lo, hi)
<1> DEFINE r == Append(seq, cmd)
           n == Len(seq)
<1>1. /\ n \in Nat /\ DOMAIN seq = 1..n /\ DOMAIN r = 1..(n + 1)
      /\ \A i \in 1..n : r[i] = seq[i]
      /\ r[n + 1] = cmd
  BY AppendIndices
<1> HIDE DEF r, n
<1>2. \A i \in DOMAIN r : \A x \in Streams :
          Rel(r[i], x) => i \in DOMAIN seq /\ r[i] = seq[i]
  BY <1>1
<1>3. Own(r, s)
  BY <1>2 DEF Own, Stretch
<1>4. Rises(r, s, lo, hi)
  BY <1>2 DEF Rises, Stretch
<1> QED
  BY <1>3, <1>4 DEF Stretch, r

\* A release above all releases so far.
LEMMA ReleaseAppended ==
    ASSUME NEW seq \in Seq(Command), NEW cmd \in Command, NEW s \in Streams,
           NEW lo \in Int, NEW hi \in Int, NEW n \in Nat, hi < n,
           cmd.kind = "release", cmd.sig = Timeline(s), cmd.payload = n,
           Stretch(seq, s, lo, hi)
    PROVE  Stretch(Append(seq, cmd), s, lo, n)
<1> DEFINE r == Append(seq, cmd)
           m == Len(seq)
<1>1. /\ m \in Nat /\ DOMAIN seq = 1..m /\ DOMAIN r = 1..(m + 1)
      /\ \A i \in 1..m : r[i] = seq[i]
      /\ r[m + 1] = cmd
  BY AppendIndices
<1> HIDE DEF r, m
<1>2. \A i \in DOMAIN r : (i \in DOMAIN seq /\ r[i] = seq[i]) \/ (i = m + 1 /\ r[i] = cmd)
  BY <1>1
<1>3. \A x \in Streams : Rel(cmd, x) => x = s
  BY DEF Rel, Timeline
<1>4. Own(r, s)
  BY <1>2, <1>3 DEF Own, Stretch
<1>5. \A i \in DOMAIN r : Rel(r[i], s) => r[i].payload \in (lo + 1)..n
  BY <1>2 DEF Stretch, Rises
<1>6. \A i, j \in DOMAIN r : i < j /\ Rel(r[i], s) /\ Rel(r[j], s) => r[i].payload < r[j].payload
  <2> SUFFICES ASSUME NEW i \in DOMAIN r, NEW j \in DOMAIN r, i < j, Rel(r[i], s), Rel(r[j], s)
               PROVE  r[i].payload < r[j].payload
    OBVIOUS
  <2>1. i \in DOMAIN seq /\ r[i] = seq[i]
    BY <1>1, <1>2
  <2>2. CASE j \in DOMAIN seq /\ r[j] = seq[j]
    BY <2>1, <2>2 DEF Stretch, Rises
  <2>3. CASE j = m + 1 /\ r[j] = cmd
    BY <2>1, <2>3 DEF Stretch, Rises
  <2> QED
    BY <1>2, <2>2, <2>3
<1>7. lo <= n
  BY DEF Stretch, Rises
<1> QED
  BY <1>4, <1>5, <1>6, <1>7 DEF Stretch, Rises, r

\* One stretch after the other.
LEMMA JoinedRises ==
    ASSUME NEW a \in Seq(Command), NEW b \in Seq(Command), NEW s,
           NEW v \in Int, NEW lo \in Int, NEW hi \in Int,
           Rises(a, s, v, lo), Rises(b, s, lo, hi)
    PROVE  Rises(a \o b, s, v, hi)
<1> DEFINE r == a \o b
           n == Len(a)
<1>1. /\ n \in Nat /\ Len(b) \in Nat
      /\ DOMAIN a = 1..n /\ DOMAIN b = 1..Len(b)
      /\ DOMAIN r = 1..(n + Len(b))
      /\ \A i \in 1..n : r[i] = a[i]
      /\ \A i \in 1..Len(b) : r[n + i] = b[i]
  OBVIOUS
<1> HIDE DEF r, n
<1>2. \A i \in DOMAIN r : \/ i \in DOMAIN a /\ r[i] = a[i]
                          \/ i > n /\ i - n \in DOMAIN b /\ r[i] = b[i - n]
  <2> SUFFICES ASSUME NEW i \in DOMAIN r, i \notin DOMAIN a
               PROVE  i > n /\ i - n \in DOMAIN b /\ r[i] = b[i - n]
    BY <1>1
  <2>1. i > n /\ i - n \in 1..Len(b) /\ n + (i - n) = i
    BY <1>1
  <2> QED
    BY <1>1, <2>1
<1>3. \A i \in DOMAIN r : Rel(r[i], s) => r[i].payload \in (v + 1)..hi
  BY <1>2 DEF Rises
<1>4. \A i, j \in DOMAIN r : i < j /\ Rel(r[i], s) /\ Rel(r[j], s) => r[i].payload < r[j].payload
  <2> SUFFICES ASSUME NEW i \in DOMAIN r, NEW j \in DOMAIN r, i < j, Rel(r[i], s), Rel(r[j], s)
               PROVE  r[i].payload < r[j].payload
    OBVIOUS
  <2>1. i \in Int /\ j \in Int
    BY <1>1
  <2>2. CASE i \in DOMAIN a /\ r[i] = a[i] /\ j \in DOMAIN a /\ r[j] = a[j]
    BY <2>2 DEF Rises
  <2>3. CASE i \in DOMAIN a /\ r[i] = a[i] /\ j > n /\ j - n \in DOMAIN b /\ r[j] = b[j - n]
    <3>1. r[i].payload \in (v + 1)..lo /\ r[j].payload \in (lo + 1)..hi
      BY <2>3 DEF Rises
    <3> QED
      BY <3>1
  <2>4. CASE i > n /\ i - n \in DOMAIN b /\ r[i] = b[i - n] /\ j > n /\ j - n \in DOMAIN b /\ r[j] = b[j - n]
    <3>1. i - n < j - n
      BY <1>1, <2>1
    <3> QED
      BY <2>4, <3>1 DEF Rises
  <2>5. CASE i > n /\ j \in DOMAIN a
    BY <1>1, <2>1, <2>5
  <2> QED
    BY <1>2, <2>2, <2>3, <2>4, <2>5
<1> QED
  BY <1>3, <1>4 DEF Rises, r

\* A channel takes its next command.
LEMMA TakenRises ==
    ASSUME NEW seq \in Seq(Command), seq # <<>>, NEW s, NEW v \in Int, NEW lo \in Int,
           Rises(seq, s, v, lo)
    PROVE  /\ Rises(Tail(seq), s, v, lo)
           /\ Rel(Head(seq), s) => /\ Head(seq).payload \in (v + 1)..lo
                                   /\ Rises(Tail(seq), s, Head(seq).payload, lo)
<1> DEFINE r == Tail(seq)
<1>1. /\ \A i \in DOMAIN r : i \in Nat \ {0} /\ r[i] = seq[i + 1] /\ i + 1 \in DOMAIN seq
      /\ Head(seq) = seq[1] /\ 1 \in DOMAIN seq
  OBVIOUS
<1> HIDE DEF r
<1>2. Rises(r, s, v, lo)
  BY <1>1 DEF Rises
<1>3. ASSUME Rel(seq[1], s)
      PROVE  seq[1].payload \in (v + 1)..lo /\ Rises(r, s, seq[1].payload, lo)
  <2>1. seq[1].payload \in (v + 1)..lo
    BY <1>1, <1>3 DEF Rises
  <2>2. \A i \in DOMAIN r : Rel(r[i], s) => r[i].payload \in (seq[1].payload + 1)..lo
    <3> SUFFICES ASSUME NEW i \in DOMAIN r, Rel(r[i], s)
                 PROVE  r[i].payload \in (seq[1].payload + 1)..lo
      OBVIOUS
    <3>1. i + 1 \in DOMAIN seq /\ 1 < i + 1 /\ Rel(seq[i + 1], s) /\ r[i] = seq[i + 1]
      BY <1>1
    <3>2. seq[1].payload < seq[i + 1].payload /\ seq[i + 1].payload \in (v + 1)..lo
      BY <1>1, <1>3, <3>1 DEF Rises
    <3> QED
      BY <2>1, <3>1, <3>2
  <2> QED
    BY <1>2, <2>1, <2>2 DEF Rises
<1> QED
  BY <1>1, <1>2, <1>3 DEF r

\* r is q after a call that leaves its backlog alone: what rose, rises.
Continues(q, r, s) ==
    /\ r \in NvCommandQueue
    /\ r.backlog = q.backlog
    /\ r.freeSignals = q.freeSignals
    /\ q.timelineCtr <= r.timelineCtr
    /\ \A t \in QueueTypes : \A lo \in Int :
          Stretch(q.buf[t], s, lo, Top(q)) => Stretch(r.buf[t], s, lo, Top(r))

LEMMA QueueFields ==
    ASSUME NEW q \in NvCommandQueue
    PROVE  /\ q.timelineCtr \in Nat /\ Top(q) \in Int /\ Top(q) <= q.timelineCtr
           /\ q.backlog \in Seq(Split) /\ Len(q.backlog) \in Nat
           /\ DOMAIN q.backlog = 1..Len(q.backlog)
           /\ \A j \in DOMAIN q.backlog :
                 /\ q.backlog[j] \in Split
                 /\ q.backlog[j].timelineCtr \in Nat
                 /\ Top(q.backlog[j]) \in Int
                 /\ Top(q.backlog[j]) <= q.backlog[j].timelineCtr
           /\ \A t \in QueueTypes : q.buf[t] \in Seq(Command)
<1>1. q.timelineCtr \in Nat
  BY CounterIsNat DEF NvCommandQueue
<1>2. q.backlog \in Seq(Split)
  BY DEF NvCommandQueue
<1>3. ASSUME NEW j \in DOMAIN q.backlog
      PROVE  /\ q.backlog[j] \in Split
             /\ q.backlog[j].timelineCtr \in Nat
             /\ Top(q.backlog[j]) \in Int
             /\ Top(q.backlog[j]) <= q.backlog[j].timelineCtr
  <2>1. q.backlog[j] \in Split
    BY <1>2
  <2>2. q.backlog[j].timelineCtr \in Nat
    BY <2>1, CounterIsNat DEF Split
  <2> QED
    BY <2>1, <2>2 DEF Top
<1> QED
  BY <1>1, <1>2, <1>3 DEF Top, NvCommandQueue

LEMMA ContinuesTransitive ==
    ASSUME NEW q \in NvCommandQueue, NEW r, NEW v, NEW s, Continues(q, r, s), Continues(r, v, s)
    PROVE  Continues(q, v, s)
<1>1. q.timelineCtr \in Nat /\ r.timelineCtr \in Nat /\ v.timelineCtr \in Nat
  BY QueueFields DEF Continues
<1> QED
  BY <1>1 DEF Continues

LEMMA FloorIsInt ==
    ASSUME NEW q \in NvCommandQueue, NEW k \in 1..Rest(q), NEW lo \in Nat
    PROVE  Floor(q, k, lo, Rest(q)) \in Int
<1>1. CASE Rest(q) = k
  BY <1>1 DEF Floor
<1>2. CASE Rest(q) # k
  <2>1. Rest(q) - 1 = Len(q.backlog) /\ Len(q.backlog) \in DOMAIN q.backlog
    BY <1>2, QueueFields DEF Rest
  <2> QED
    BY <1>2, <2>1, QueueFields DEF Floor
<1> QED
  BY <1>1, <1>2

LEMMA ContinuesRises ==
    ASSUME NEW q \in NvCommandQueue, NEW r, NEW s, Continues(q, r, s),
           NEW k \in 1..Rest(q), NEW lo \in Nat, QueueRises(q, s, k, lo)
    PROVE  QueueRises(r, s, k, lo)
<1>1. r.backlog = q.backlog /\ q.timelineCtr <= r.timelineCtr
  BY DEF Continues
<1>2. q.timelineCtr \in Nat /\ r.timelineCtr \in Nat
  BY QueueFields DEF Continues
<1>3. /\ Rest(r) = Rest(q)
      /\ \A j : Floor(r, k, lo, j) = Floor(q, k, lo, j)
  BY <1>1 DEF Rest, Floor
<1>4. Floor(q, k, lo, Rest(q)) \in Int
  BY FloorIsInt
<1>5. lo <= r.timelineCtr
  BY <1>1, <1>2 DEF QueueRises
<1>6. \A j \in DOMAIN r.backlog : r.backlog[j].timelineCtr <= r.timelineCtr
  BY <1>1, <1>2, QueueFields DEF QueueRises
<1>7. \A t \in QueueTypes : Stretch(r.buf[t], s, Floor(q, k, lo, Rest(q)), Top(r))
  BY <1>4 DEF QueueRises, Continues
<1> QED
  BY <1>1, <1>3, <1>5, <1>6, <1>7 DEF QueueRises

LEMMA SelfContinues == \A q \in NvCommandQueue : \A s : Continues(q, q, s)
BY QueueFields DEF Continues

\* The buffers stay; the counter may rise.
LEMMA SameBuffersContinue ==
    ASSUME NEW q \in NvCommandQueue, NEW r \in NvCommandQueue, NEW s,
           r.buf = q.buf, r.backlog = q.backlog, r.freeSignals = q.freeSignals,
           q.timelineCtr <= r.timelineCtr, Top(q) <= Top(r)
    PROVE  Continues(q, r, s)
BY QueueFields, HigherRises DEF Continues

LEMMA EnqueueFields ==
    ASSUME NEW q \in NvCommandQueue, NEW cmd \in Command, NEW t \in QueueTypes
    PROVE  LET r == Enqueue(q, cmd, t)
           IN  /\ r \in NvCommandQueue
               /\ r.buf[t] = Append(q.buf[t], cmd)
               /\ \A u \in QueueTypes : u # t => r.buf[u] = q.buf[u]
               /\ r.backlog = q.backlog
               /\ r.freeSignals = q.freeSignals
               /\ r.timelineCtr = q.timelineCtr
               /\ r.timelineNotifyPending = q.timelineNotifyPending
               /\ r.currentQueueType = q.currentQueueType
<1> DEFINE r == Enqueue(q, cmd, t)
<1>1. r \in NvCommandQueue
  BY EnqueueTyped
<1>2. /\ r.buf[t] = Append(q.buf[t], cmd)
      /\ \A u \in QueueTypes : u # t => r.buf[u] = q.buf[u]
  BY DEF Enqueue, NvCommandQueue
<1>3. /\ r.backlog = q.backlog
      /\ r.freeSignals = q.freeSignals
      /\ r.timelineCtr = q.timelineCtr
      /\ r.timelineNotifyPending = q.timelineNotifyPending
      /\ r.currentQueueType = q.currentQueueType
  BY DEF Enqueue, NvCommandQueue
<1> QED
  BY <1>1, <1>2, <1>3

LEMMA QuietContinues ==
    ASSUME NEW q \in NvCommandQueue, NEW cmd \in Command, NEW t \in QueueTypes,
           NEW s \in Streams, \A x \in Streams : ~Rel(cmd, x)
    PROVE  Continues(q, Enqueue(q, cmd, t), s)
<1> DEFINE r == Enqueue(q, cmd, t)
<1>1. /\ r \in NvCommandQueue
      /\ r.buf[t] = Append(q.buf[t], cmd)
      /\ \A u \in QueueTypes : u # t => r.buf[u] = q.buf[u]
      /\ r.backlog = q.backlog
      /\ r.freeSignals = q.freeSignals
      /\ r.timelineCtr = q.timelineCtr
      /\ r.timelineNotifyPending = q.timelineNotifyPending
  BY EnqueueFields
<1> HIDE DEF r
<1>2. Top(r) = Top(q)
  BY <1>1 DEF Top
<1>3. q.buf[t] \in Seq(Command) /\ q.timelineCtr \in Nat
  BY QueueFields
<1>4. \A lo : Stretch(q.buf[t], s, lo, Top(q)) => Stretch(r.buf[t], s, lo, Top(r))
  BY <1>1, <1>2, <1>3, QuietAppended
<1>5. \A u \in QueueTypes : \A lo \in Int :
          Stretch(q.buf[u], s, lo, Top(q)) => Stretch(r.buf[u], s, lo, Top(r))
  <2> SUFFICES ASSUME NEW u \in QueueTypes, NEW lo \in Int, Stretch(q.buf[u], s, lo, Top(q))
               PROVE  Stretch(r.buf[u], s, lo, Top(r))
    OBVIOUS
  <2>1. CASE u = t
    BY <1>4, <2>1
  <2>2. CASE u # t
    BY <1>1, <1>2, <2>2
  <2> QED
    BY <2>1, <2>2
<1>6. Continues(q, r, s)
  BY <1>1, <1>3, <1>5 DEF Continues
<1> QED
  BY <1>6 DEF r

\* A release of n, above what was released, which leaves nothing to be notified.
LEMMA ReleaseContinues ==
    ASSUME NEW q \in NvCommandQueue, NEW s \in Streams, NEW t \in QueueTypes,
           NEW n \in Nat, n = q.timelineCtr, Top(q) < n
    PROVE  LET r == [SignalNotify(q, Timeline(s), n, t) EXCEPT !.timelineNotifyPending = FALSE]
           IN  Continues(q, r, s) /\ r.timelineCtr = n /\ ~r.timelineNotifyPending
<1> DEFINE cmd == [kind |-> "release", sig |-> Timeline(s), payload |-> n]
           e == Enqueue(q, cmd, t)
           r == [e EXCEPT !.timelineNotifyPending = FALSE]
<1>1. cmd \in Command
  BY CommandTypes, TimelineIsSignal
<1>2. cmd.kind = "release" /\ cmd.sig = Timeline(s) /\ cmd.payload = n
  OBVIOUS
<1>3. SignalNotify(q, Timeline(s), n, t) = e
  BY DEF SignalNotify
<1> HIDE DEF cmd
<1>4. /\ e \in NvCommandQueue
      /\ e.buf[t] = Append(q.buf[t], cmd)
      /\ \A u \in QueueTypes : u # t => e.buf[u] = q.buf[u]
      /\ e.backlog = q.backlog /\ e.freeSignals = q.freeSignals
      /\ e.timelineCtr = q.timelineCtr
  BY <1>1, EnqueueFields
<1> HIDE DEF e
<1>5. /\ r \in NvCommandQueue /\ r.buf = e.buf /\ r.backlog = e.backlog
      /\ r.freeSignals = e.freeSignals
      /\ r.timelineCtr = e.timelineCtr /\ r.timelineNotifyPending = FALSE
  BY <1>4 DEF NvCommandQueue
<1> HIDE DEF r
<1>6. Top(r) = n
  BY <1>4, <1>5 DEF Top
<1>7. Top(q) \in Int /\ q.buf[t] \in Seq(Command)
  BY QueueFields
<1>8. \A lo \in Int : Stretch(q.buf[t], s, lo, Top(q)) => Stretch(r.buf[t], s, lo, Top(r))
  BY <1>1, <1>2, <1>4, <1>5, <1>6, <1>7, ReleaseAppended
<1>9. \A u \in QueueTypes : u # t => r.buf[u] = q.buf[u]
  BY <1>4, <1>5
<1>10. \A u \in QueueTypes : \A lo \in Int :
          u # t /\ Stretch(q.buf[u], s, lo, Top(q)) => Stretch(r.buf[u], s, lo, Top(r))
  BY <1>6, <1>7, <1>9, HigherRises
<1>11. Continues(q, r, s)
  BY <1>4, <1>5, <1>8, <1>10 DEF Continues
<1> QED
  BY <1>3, <1>4, <1>5, <1>11 DEF r

LEMMA NotifyContinues ==
    ASSUME NEW q \in NvCommandQueue, NEW s \in Streams, NEW t \in QueueTypes
    PROVE  LET r == [NotifyIfPending(q, s, t) EXCEPT !.timelineNotifyPending = FALSE]
           IN  /\ Continues(q, r, s)
               /\ r.timelineCtr = q.timelineCtr
               /\ ~r.timelineNotifyPending
<1>1. q.timelineCtr \in Nat
  BY QueueFields
<1>2. CASE q.timelineNotifyPending
  <2>1. Top(q) < q.timelineCtr
    BY <1>1, <1>2 DEF Top
  <2>2. PICK n \in Nat : n = q.timelineCtr
    BY <1>1
  <2> QED
    BY <1>2, <2>1, <2>2, ReleaseContinues DEF NotifyIfPending
<1>3. CASE ~q.timelineNotifyPending
  <2> DEFINE r == [q EXCEPT !.timelineNotifyPending = FALSE]
  <2>1. /\ r \in NvCommandQueue /\ r.buf = q.buf /\ r.backlog = q.backlog
        /\ r.freeSignals = q.freeSignals
        /\ r.timelineCtr = q.timelineCtr /\ r.timelineNotifyPending = FALSE
    BY DEF NvCommandQueue
  <2>2. [NotifyIfPending(q, s, t) EXCEPT !.timelineNotifyPending = FALSE] = r
    BY <1>3 DEF NotifyIfPending
  <2> HIDE DEF r
  <2>3. Top(r) = Top(q)
    BY <1>3, <2>1 DEF Top
  <2>4. Continues(q, r, s)
    BY <1>1, <2>1, <2>3, QueueFields, SameBuffersContinue
  <2> QED
    BY <2>1, <2>2, <2>4
<1> QED
  BY <1>2, <1>3

LEMMA EndOpContinues ==
    ASSUME NEW q \in NvCommandQueue, NEW s \in Streams, NEW t \in QueueTypes,
           NEW async \in BOOLEAN, q.timelineCtr + 1 < CtrModulus
    PROVE  LET r == EndOp(q, s, async, t)
           IN  Continues(q, r, s) /\ r.timelineCtr = q.timelineCtr + 1
<1> DEFINE next == AdvanceTimeline(q)
           n == q.timelineCtr + 1
           noted == [SignalNotify(next, Timeline(s), next.timelineCtr, t)
                        EXCEPT !.timelineNotifyPending = FALSE]
           later == [next EXCEPT !.timelineNotifyPending = TRUE]
<1>1. q.timelineCtr \in Nat
  BY QueueFields
<1>2. (q.timelineCtr + 1) % CtrModulus = n /\ n \in Counter /\ n \in Nat
  BY <1>1, NoWrap, CtrAssumption DEF Counter
<1>3. /\ next \in NvCommandQueue /\ next.buf = q.buf /\ next.backlog = q.backlog
      /\ next.freeSignals = q.freeSignals
      /\ next.timelineCtr = n /\ next.timelineNotifyPending = q.timelineNotifyPending
  BY <1>1, <1>2 DEF AdvanceTimeline, NvCommandQueue
<1>4. EndOp(q, s, async, t) = IF async THEN later ELSE noted
  BY DEF EndOp
<1> HIDE DEF next
<1>5. /\ later \in NvCommandQueue /\ later.buf = q.buf /\ later.backlog = q.backlog
      /\ later.freeSignals = q.freeSignals
      /\ later.timelineCtr = n /\ later.timelineNotifyPending = TRUE
  BY <1>3 DEF NvCommandQueue
<1> HIDE DEF later
<1>6. Top(later) = q.timelineCtr
  BY <1>1, <1>5 DEF Top
<1>7. Continues(q, later, s)
  BY <1>1, <1>5, <1>6, QueueFields, SameBuffersContinue
<1>8. CASE async
  BY <1>4, <1>5, <1>7, <1>8
<1>9. CASE ~async
  <2>1. PICK mid : mid = [next EXCEPT !.timelineNotifyPending = TRUE]
    OBVIOUS
  <2>2. /\ mid \in NvCommandQueue /\ mid.timelineCtr = n /\ mid = later
        /\ Top(mid) < n
    BY <1>1, <1>5, <1>6, <2>1 DEF later
  <2>3. PICK m \in Nat : m = n
    BY <1>2
  <2>4. PICK r : r = [SignalNotify(mid, Timeline(s), m, t) EXCEPT !.timelineNotifyPending = FALSE]
    OBVIOUS
  <2>5. Continues(mid, r, s) /\ r.timelineCtr = m
    BY <2>2, <2>3, <2>4, ReleaseContinues
  <2>6. r = noted
    BY <1>3, <2>1, <2>3, <2>4 DEF SignalNotify, Enqueue, NvCommandQueue
  <2>7. Continues(q, r, s)
    BY <1>7, <2>2, <2>5, ContinuesTransitive
  <2> QED
    BY <1>4, <1>9, <2>3, <2>5, <2>6, <2>7
<1> QED
  BY <1>8, <1>9

LEMMA WaitForPreviousContinues ==
    ASSUME NEW q \in NvCommandQueue, NEW s \in Streams, NEW async \in BOOLEAN
    PROVE  LET r == WaitForPrevious(q, s, async)
           IN  Continues(q, r, s) /\ r.timelineCtr = q.timelineCtr
<1> DEFINE n == [NotifyIfPending(q, s, "COMPUTE") EXCEPT !.timelineNotifyPending = FALSE]
           cmd == [kind |-> "acquire", sig |-> Timeline(s), payload |-> q.timelineCtr]
           r == WaitForPrevious(q, s, async)
<1>1. "COMPUTE" \in QueueTypes /\ q.timelineCtr \in Nat
  BY QueueFields DEF QueueTypes
<1>2. Continues(q, n, s) /\ n.timelineCtr = q.timelineCtr
  BY <1>1, NotifyContinues
<1>3. \/ r = q
      \/ r = n
      \/ r = Enqueue(n, cmd, "COMPUTE")
  BY DEF WaitForPrevious, SignalWaitGpu
<1>4. cmd \in Command /\ \A x \in Streams : ~Rel(cmd, x)
  BY <1>1, CommandTypes, TimelineIsSignal DEF Rel
<1> HIDE DEF n, cmd, r
<1>5. n \in NvCommandQueue
  BY <1>2 DEF Continues
<1>6. PICK e : e = Enqueue(n, cmd, "COMPUTE")
  OBVIOUS
<1>7. Continues(n, e, s) /\ e.timelineCtr = n.timelineCtr
  BY <1>1, <1>4, <1>5, <1>6, QuietContinues, EnqueueFields
<1>8. Continues(q, e, s) /\ Continues(q, q, s)
  BY <1>2, <1>7, ContinuesTransitive, SelfContinues
<1>9. Continues(q, r, s) /\ r.timelineCtr = q.timelineCtr
  BY <1>2, <1>3, <1>6, <1>7, <1>8
<1> QED
  BY <1>9 DEF r

LEMMA LocalMemContinues ==
    ASSUME HostTypeOK, NEW q \in NvCommandQueue, NEW s \in Streams, NEW f \in Funcs
    PROVE  /\ Continues(q, GrownSlm(q, f), s)
           /\ GrownSlm(q, f).timelineCtr = q.timelineCtr
           /\ LET r == EnsureEnoughLocalMem(q, f).queue
              IN  Continues(q, r, s) /\ r.timelineCtr = q.timelineCtr
<1> DEFINE grown == GrownSlm(q, f)
           cmd == [kind |-> "localMem", region |-> Len(slm.size) + 1]
<1>1. /\ grown \in NvCommandQueue /\ grown.buf = q.buf /\ grown.backlog = q.backlog
      /\ grown.freeSignals = q.freeSignals
      /\ grown.timelineCtr = q.timelineCtr
      /\ grown.timelineNotifyPending = q.timelineNotifyPending
  <2>1. RoundUp(LocalMemReq[f], 32) \in Nat
    BY RoundUpIsNat, FuncAssumption
  <2> QED
    BY <2>1 DEF GrownSlm, NvCommandQueue
<1>2. cmd \in Command /\ "COMPUTE" \in QueueTypes /\ \A x \in Streams : ~Rel(cmd, x)
  BY DEF HostTypeOK, Command, LocalMemSets, QueueTypes, Rel
<1>3. \/ EnsureEnoughLocalMem(q, f).queue = q
      \/ EnsureEnoughLocalMem(q, f).queue = Enqueue(grown, cmd, "COMPUTE")
  BY DEF EnsureEnoughLocalMem
<1> HIDE DEF grown, cmd
<1>4. Top(grown) = Top(q)
  BY <1>1 DEF Top
<1>5. Continues(q, grown, s)
  BY <1>1, <1>4, QueueFields, SameBuffersContinue
<1>6. PICK e : e = Enqueue(grown, cmd, "COMPUTE")
  OBVIOUS
<1>7. Continues(grown, e, s) /\ e.timelineCtr = grown.timelineCtr
  BY <1>1, <1>2, <1>6, QuietContinues, EnqueueFields
<1>8. Continues(q, e, s) /\ Continues(q, q, s)
  BY <1>5, <1>7, ContinuesTransitive, SelfContinues
<1> QED
  BY <1>1, <1>3, <1>5, <1>6, <1>7, <1>8 DEF grown

\* r is the queue q of s after a call that hands nothing to the GPU.
Onwards(q, r, s) ==
    /\ r \in NvCommandQueue
    /\ \A lo \in Nat : QueueRises(q, s, 1, lo) => QueueRises(r, s, 1, lo)
    /\ r.backlog # <<>> =>
          r.backlog[1].type = IF q.backlog = <<>> THEN q.currentQueueType
                                                  ELSE q.backlog[1].type

Proceeds(q, r, s) == Onwards(q, r, s) /\ r.freeSignals = q.freeSignals

LEMMA ContinuesOnwards ==
    ASSUME NEW q \in NvCommandQueue, NEW p, NEW r, NEW s,
           Onwards(q, p, s), Continues(p, r, s)
    PROVE  Onwards(q, r, s)
<1>1. p \in NvCommandQueue /\ r \in NvCommandQueue /\ r.backlog = p.backlog
  BY DEF Onwards, Continues
<1>2. 1 \in 1..Rest(p)
  BY <1>1, QueueFields DEF Rest
<1>3. \A lo \in Nat : QueueRises(q, s, 1, lo) => QueueRises(r, s, 1, lo)
  BY <1>1, <1>2, ContinuesRises DEF Onwards
<1> QED
  BY <1>1, <1>3 DEF Onwards

LEMMA ContinuesProceeds ==
    ASSUME NEW q \in NvCommandQueue, NEW p, NEW r, NEW s,
           Proceeds(q, p, s), Continues(p, r, s)
    PROVE  Proceeds(q, r, s)
BY ContinuesOnwards DEF Proceeds, Continues

LEMMA SelfProceeds == \A q \in NvCommandQueue : \A s : Proceeds(q, q, s)
BY DEF Proceeds, Onwards

\* The current buffer becomes the last piece of the backlog.
LEMMA PieceProceeds ==
    ASSUME NEW q \in NvCommandQueue, NEW s, NEW t \in QueueTypes,
           q.currentQueueType = t, q.buf[t] # <<>>, q.buf[Other(t)] = <<>>
    PROVE  LET r == BacklogCurrentCmdBuffer(q, t)
           IN  Proceeds(q, r, s) /\ r.timelineCtr = q.timelineCtr
<1> DEFINE r == BacklogCurrentCmdBuffer(q, t)
           piece == [buf |-> q.buf[t], type |-> t,
                     timelineCtr |-> q.timelineCtr,
                     timelineNotifyPending |-> q.timelineNotifyPending]
           n == Len(q.backlog) + 1
<1>1. /\ r \in NvCommandQueue
      /\ r.buf[t] = <<>> /\ r.buf[Other(t)] = <<>>
  BY BacklogTyped
<1>2. /\ r.backlog = Append(q.backlog, piece) /\ r.timelineCtr = q.timelineCtr
      /\ r.timelineNotifyPending = FALSE /\ r.freeSignals = q.freeSignals
  BY DEF BacklogCurrentCmdBuffer, NvCommandQueue
<1>3. q.backlog \in Seq(Split) /\ piece \in Split
  BY DEF NvCommandQueue, Split
<1>4. /\ piece.buf = q.buf[t] /\ piece.type = t /\ piece.timelineCtr = q.timelineCtr
      /\ piece.timelineNotifyPending = q.timelineNotifyPending
  OBVIOUS
<1>5. Top(piece) = Top(q)
  BY <1>4 DEF Top
<1> HIDE DEF r, piece
<1>6. /\ Len(q.backlog) \in Nat
      /\ DOMAIN q.backlog = 1..Len(q.backlog)
      /\ DOMAIN r.backlog = 1..n
      /\ \A i \in 1..Len(q.backlog) : r.backlog[i] = q.backlog[i]
      /\ r.backlog[n] = piece
      /\ r.backlog # <<>>
  BY <1>2, <1>3, AppendIndices
<1>7. Len(r.backlog) = n
  BY <1>2, <1>3
<1>8. q.timelineCtr \in Nat /\ Top(r) = q.timelineCtr
  BY <1>2, QueueFields DEF Top
<1>9. \A u \in QueueTypes : r.buf[u] = <<>>
  BY <1>1 DEF Other, QueueTypes
<1>10. ASSUME NEW lo \in Nat, QueueRises(q, s, 1, lo)
       PROVE  QueueRises(r, s, 1, lo)
  <2>1. \A j \in 1..n : Floor(r, 1, lo, j) = Floor(q, 1, lo, j)
    <3> SUFFICES ASSUME NEW j \in 1..n, j # 1
                 PROVE  r.backlog[j - 1] = q.backlog[j - 1]
      BY DEF Floor
    <3>1. j - 1 \in 1..Len(q.backlog)
      BY <1>6
    <3> QED
      BY <1>6, <3>1
  <2>2. ASSUME NEW j \in 1..n
        PROVE  /\ Stretch(r.backlog[j].buf, s, Floor(r, 1, lo, j), Top(r.backlog[j]))
               /\ r.backlog[j].timelineCtr <= r.timelineCtr
    <3>1. CASE j = n
      <4>1. Stretch(q.buf[t], s, Floor(q, 1, lo, n), Top(q))
        BY <1>10 DEF QueueRises, Rest
      <4> QED
        BY <1>2, <1>4, <1>5, <1>6, <1>8, <2>1, <3>1, <4>1
    <3>2. CASE j # n
      <4>1. j \in 1..Len(q.backlog)
        BY <1>6, <3>2
      <4> QED
        BY <1>2, <1>6, <1>10, <2>1, <4>1 DEF QueueRises
    <3> QED
      BY <3>1, <3>2
  <2>3. Floor(r, 1, lo, Rest(r)) = q.timelineCtr
    <3>1. Rest(r) = n + 1 /\ n + 1 # 1 /\ (n + 1) - 1 = n
      BY <1>6, <1>7 DEF Rest
    <3> QED
      BY <1>4, <1>6, <3>1 DEF Floor
  <2>4. \A u \in QueueTypes : Stretch(r.buf[u], s, Floor(r, 1, lo, Rest(r)), Top(r))
    BY <1>8, <1>9, <2>3, EmptyRises
  <2>5. lo <= r.timelineCtr
    BY <1>2, <1>10 DEF QueueRises
  <2> QED
    BY <1>6, <1>7, <2>2, <2>4, <2>5 DEF QueueRises
<1>11. r.backlog[1].type = IF q.backlog = <<>> THEN q.currentQueueType ELSE q.backlog[1].type
  <2>1. CASE q.backlog = <<>>
    <3>1. n = 1
      BY <2>1
    <3> QED
      BY <1>4, <1>6, <2>1, <3>1
  <2>2. CASE q.backlog # <<>>
    <3>1. 1 \in 1..Len(q.backlog)
      BY <1>3, <2>2
    <3> QED
      BY <1>6, <2>2, <3>1
  <2> QED
    BY <2>1, <2>2
<1>12. Proceeds(q, r, s)
  BY <1>1, <1>2, <1>10, <1>11 DEF Proceeds, Onwards
<1> QED
  BY <1>2, <1>12 DEF r

LEMMA SwitchToProceeds ==
    ASSUME NEW q \in NvCommandQueue, OneBuffer(q), NEW t \in QueueTypes, NEW s
    PROVE  LET r == SwitchTo(q, t)
           IN  Proceeds(q, r, s) /\ r.timelineCtr = q.timelineCtr
<1> DEFINE u == Other(t)
           r == SwitchTo(q, t)
<1>1. u \in QueueTypes /\ u # t /\ Other(u) = t
  BY OtherType
<1> HIDE DEF u
<1>2. CASE q.buf[u] = <<>>
  <2>1. r = [q EXCEPT !.currentQueueType = t]
    BY <1>1, <1>2 DEF SwitchTo, u
  <2> HIDE DEF r
  <2>2. /\ r \in NvCommandQueue /\ r.backlog = q.backlog /\ r.buf = q.buf
        /\ r.timelineCtr = q.timelineCtr /\ r.freeSignals = q.freeSignals
        /\ r.timelineNotifyPending = q.timelineNotifyPending
    BY <2>1 DEF NvCommandQueue
  <2>3. Continues(q, r, s)
    BY <2>2, QueueFields, SameBuffersContinue DEF Top
  <2>4. Proceeds(q, r, s)
    BY <2>3, SelfProceeds, ContinuesProceeds
  <2> QED
    BY <2>2, <2>4 DEF r
<1>3. CASE q.buf[u] # <<>>
  <2> DEFINE moved == BacklogCurrentCmdBuffer(q, u)
  <2>1. q.currentQueueType = u /\ q.buf[t] = <<>>
    BY <1>1, <1>3 DEF OneBuffer
  <2>2. r = [moved EXCEPT !.currentQueueType = t]
    BY <1>3, <2>1 DEF SwitchTo, u
  <2>3. Proceeds(q, moved, s) /\ moved.timelineCtr = q.timelineCtr
    BY <1>1, <1>3, <2>1, PieceProceeds
  <2> HIDE DEF moved, r
  <2>4. moved \in NvCommandQueue
    BY <2>3 DEF Proceeds, Onwards
  <2>5. /\ r \in NvCommandQueue /\ r.backlog = moved.backlog /\ r.buf = moved.buf
        /\ r.timelineCtr = moved.timelineCtr /\ r.freeSignals = moved.freeSignals
        /\ r.timelineNotifyPending = moved.timelineNotifyPending
    BY <2>2, <2>4 DEF NvCommandQueue
  <2>6. Continues(moved, r, s)
    BY <2>4, <2>5, QueueFields, SameBuffersContinue DEF Top
  <2>7. Proceeds(q, r, s)
    BY <2>3, <2>6, ContinuesProceeds
  <2> QED
    BY <2>3, <2>5, <2>7 DEF r
<1> QED
  BY <1>2, <1>3

\* What Commence finds in the buffers joins the backlog.
LEMMA BothProceed ==
    ASSUME NEW q \in NvCommandQueue, OneBuffer(q), q.currentQueueType \in QueueTypes, NEW s
    PROVE  LET r == BacklogCurrentCmdBuffer(BacklogCurrentCmdBuffer(q, "COMPUTE"), "DMA")
           IN  Proceeds(q, r, s) /\ r.timelineCtr = q.timelineCtr
<1>1. PICK t \in QueueTypes : t = q.currentQueueType
  OBVIOUS
<1>2. q.buf[Other(t)] = <<>> /\ Other(t) \in QueueTypes
  BY <1>1, OtherType DEF OneBuffer
<1>3. \A p, u : p.buf[u] = <<>> => BacklogCurrentCmdBuffer(p, u) = p
  BY DEF BacklogCurrentCmdBuffer
<1>4. CASE q.buf[t] = <<>>
  <2>1. q.buf["COMPUTE"] = <<>> /\ q.buf["DMA"] = <<>>
    BY <1>2, <1>4 DEF Other, QueueTypes
  <2>2. BacklogCurrentCmdBuffer(BacklogCurrentCmdBuffer(q, "COMPUTE"), "DMA") = q
    BY <1>3, <2>1
  <2> QED
    BY <2>2, SelfProceeds
<1>5. CASE q.buf[t] # <<>>
  <2>1. PICK r : r = BacklogCurrentCmdBuffer(q, t)
    OBVIOUS
  <2>2. Proceeds(q, r, s) /\ r.timelineCtr = q.timelineCtr
    BY <1>1, <1>2, <1>5, <2>1, PieceProceeds
  <2>3. r.buf[t] = <<>> /\ r.buf[Other(t)] = <<>>
    BY <1>2, <2>1, BacklogTyped
  <2>4. BacklogCurrentCmdBuffer(BacklogCurrentCmdBuffer(q, "COMPUTE"), "DMA") = r
    <3>1. CASE t = "COMPUTE"
      <4>1. r.buf["DMA"] = <<>>
        BY <2>3, <3>1 DEF Other
      <4> QED
        BY <1>3, <2>1, <3>1, <4>1
    <3>2. CASE t = "DMA"
      <4>1. q.buf["COMPUTE"] = <<>>
        BY <1>2, <3>2 DEF Other
      <4> QED
        BY <1>3, <2>1, <3>2, <4>1
    <3> QED
      BY <3>1, <3>2 DEF QueueTypes
  <2> QED
    BY <2>2, <2>4
<1> QED
  BY <1>4, <1>5

LEMMA PreparedProceeds ==
    ASSUME QueueInv, OrderInv, NEW s \in Streams, Ready(s),
           NEW f \in Funcs, NEW async \in BOOLEAN
    PROVE  LET r == Prepared(s, f, async).queue
           IN  Proceeds(queue[s], r, s) /\ r.timelineCtr = queue[s].timelineCtr
<1>1. PICK q \in NvCommandQueue : q = queue[s]
  BY DEF QueueInv, TypeOK, HostTypeOK
<1>2. HostTypeOK /\ "COMPUTE" \in QueueTypes /\ OneBuffer(q)
  BY <1>1, ReadyQueue DEF QueueSound, QueueTypes
<1>3. PICK w : w = SwitchTo(q, "COMPUTE")
  OBVIOUS
<1>4. Proceeds(q, w, s) /\ w.timelineCtr = q.timelineCtr /\ w \in NvCommandQueue
  BY <1>2, <1>3, SwitchToProceeds DEF Proceeds, Onwards
<1>5. PICK m : m = EnsureEnoughLocalMem(w, f)
  OBVIOUS
<1>6. PICK p : p = m.queue
  OBVIOUS
<1>7. Continues(w, p, s) /\ p.timelineCtr = w.timelineCtr
  BY <1>2, <1>4, <1>5, <1>6, LocalMemContinues
<1>8. p \in NvCommandQueue
  BY <1>7 DEF Continues
<1>9. PICK r : r = WaitForPrevious(p, s, async)
  OBVIOUS
<1>10. Continues(p, r, s) /\ r.timelineCtr = p.timelineCtr
  BY <1>8, <1>9, WaitForPreviousContinues
<1>11. m = [queue |-> m.queue, slm |-> m.slm]
  BY <1>5 DEF EnsureEnoughLocalMem
<1>12. Prepared(s, f, async) = [m EXCEPT !.queue = WaitForPrevious(m.queue, s, async)]
  BY <1>1, <1>3, <1>5 DEF Prepared
<1>13. Prepared(s, f, async).queue = r
  BY <1>6, <1>9, <1>11, <1>12
<1>14. Proceeds(q, r, s)
  BY <1>4, <1>7, <1>8, <1>10, ContinuesProceeds
<1> QED
  BY <1>1, <1>4, <1>7, <1>10, <1>13, <1>14

-----------------------------------------------------------------------------
(* The invariant of the timelines.                                         *)

\* lo parts what the channels hold of the timeline of s from what is still to
\* be submitted.
Flows(s, lo) ==
    /\ \A c \in QueueTypes : Rises(fifo[c], s, value[Timeline(s)], lo)
    /\ QueueRises(queue[s], s, Cursor(s), lo)
    /\ Expected(s) # 0 => lo = queue[s].backlog[Expected(s)].timelineCtr

TimelinesRise == \A s \in Streams : \E lo \in Nat : Flows(s, lo)

Notes(seq, s) == \E cmd \in Elements(seq) : Rel(cmd, s)

\* The channels that may hold releases of s: never more than one.
Lines(s) ==
    IF cpu.at \in {"initCompute", "initDma", "submit", "wait"} /\ cpu.stream = s
      THEN CASE cpu.at = "initCompute" -> {"COMPUTE"}
             [] cpu.at = "initDma" -> {"DMA"}
             [] cpu.at = "submit" -> IF cpu.entry = 1 THEN unawaited[s] ELSE {}
             [] cpu.at = "wait" -> {queue[s].backlog[cpu.entry].type}
      ELSE unawaited[s]

InLines == \A s \in Streams : \A c \in QueueTypes : Notes(fifo[c], s) => c \in Lines(s)

\* A backlog begins on the channel that holds what is not yet awaited.
BeginsInLine ==
    \A s \in Streams :
        queue[s].backlog # <<>> => unawaited[s] \subseteq {queue[s].backlog[1].type}

\* Events have signals of their own.
EventsApart ==
    /\ \A s \in Streams : \A i \in DOMAIN queue[s].freeSignals : queue[s].freeSignals[i] # 0
    /\ \A e \in Events, s \in Streams :
          events[e].computeSignal # Timeline(s) /\ events[e].dmaSignal # Timeline(s)

SettingUp == cpu.at = "initCompute" => ~queue[cpu.stream].timelineNotifyPending

TimelineInv == TimelinesRise /\ InLines /\ BeginsInLine /\ EventsApart /\ SettingUp

LEMMA OneLine ==
    ASSUME QueueInv, AwaitsSound, BeginsInLine, NEW s \in Streams,
           NEW c \in Lines(s), NEW d \in Lines(s)
    PROVE  c = d
<1>1. unawaited[s] \subseteq {queue[s].currentQueueType} \/ unawaited[s] \subseteq {queue[s].backlog[1].type}
  BY DEF AwaitsSound, BeginsInLine
<1> QED
  BY <1>1 DEF Lines

LEMMA TimelineApart == \A r, s : Timeline(r) = Timeline(s) => r = s
BY DEF Timeline

\* Nothing of s is in the channels once its timeline has reached lo.
LEMMA ReachedEmpty ==
    ASSUME QueueInv, NEW s \in Streams, NEW lo \in Nat, Flows(s, lo),
           value[Timeline(s)] >= lo
    PROVE  \A c \in QueueTypes : ~Notes(fifo[c], s)
<1>1. value[Timeline(s)] \in Nat
  BY TimelineIsSignal DEF QueueInv, TypeOK, GpuTypeOK
<1>2. (value[Timeline(s)] + 1)..lo = {}
  BY <1>1
<1> QED
  BY <1>2 DEF Flows, Rises, Notes, Elements

\* The CPU is where no piece is on its way.
LEMMA CursorIdle ==
    ASSUME cpu.at \notin {"submit", "wait"}
    PROVE  \A x : Cursor(x) = 1 /\ Expected(x) = 0
BY DEF Cursor, Expected

\* A call of s that hands nothing to the GPU.
LEMMA CallFlows ==
    ASSUME QueueInv, AwaitsSound, TimelineInv, NEW s \in Streams, Ready(s),
           NEW r, Onwards(queue[s], r, s), queue' = [queue EXCEPT ![s] = r],
           UNCHANGED <<gpuVars, unawaited>>,
           cpu' = cpu \/ cpu' = [at |-> "submit", stream |-> s, entry |-> 1]
    PROVE  TimelinesRise' /\ InLines' /\ BeginsInLine' /\ SettingUp'
<1>1. /\ \A x : Cursor(x) = 1 /\ Expected(x) = 0
      /\ \A x : Lines(x) = unawaited[x]
      /\ cpu.at = "idle"
  BY CursorIdle DEF Ready, Idle, Lines
<1>2. \A x : Lines(x)' = unawaited[x] /\ Cursor(x)' = 1 /\ Expected(x)' = 0
  <2>1. CASE cpu' = cpu
    BY <1>1, <2>1 DEF Lines, Cursor, Expected
  <2>2. CASE cpu' = [at |-> "submit", stream |-> s, entry |-> 1]
    BY <2>2 DEF Lines, Cursor, Expected
  <2> QED
    BY <2>1, <2>2
<1>3. \A x \in Streams : queue'[x] = IF x = s THEN r ELSE queue[x]
  BY DEF QueueInv, TypeOK, HostTypeOK
<1>4. UNCHANGED <<fifo, value>>
  BY DEF gpuVars
<1>5. TimelinesRise'
  <2> SUFFICES ASSUME NEW x \in Streams PROVE \E lo \in Nat : Flows(x, lo)'
    BY DEF TimelinesRise
  <2>1. PICK lo \in Nat : Flows(x, lo)
    BY DEF TimelineInv, TimelinesRise
  <2>2. PICK p, n : p = queue'[x] /\ n = lo
    OBVIOUS
  <2>3. QueueRises(p, x, 1, n)
    <3>1. QueueRises(queue[x], x, 1, n)
      BY <1>1, <2>1, <2>2 DEF Flows
    <3> QED
      BY <1>3, <2>2, <3>1 DEF Onwards
  <2>4. Flows(x, n)'
    <3>1. QueueRises(queue'[x], x, Cursor(x)', n)
      BY <1>2, <2>2, <2>3
    <3> QED
      BY <1>2, <1>4, <2>1, <2>2, <3>1 DEF Flows
  <2> QED
    BY <2>2, <2>4
<1>6. InLines'
  BY <1>1, <1>2, <1>4 DEF TimelineInv, InLines
<1>7. BeginsInLine'
  <2> SUFFICES ASSUME NEW x \in Streams, queue'[x].backlog # <<>>
               PROVE  unawaited[x] \subseteq {queue'[x].backlog[1].type}
    BY DEF BeginsInLine
  <2>1. CASE x = s
    BY <1>3, <2>1 DEF Onwards, TimelineInv, BeginsInLine, AwaitsSound
  <2>2. CASE x # s
    BY <1>3, <2>2 DEF TimelineInv, BeginsInLine
  <2> QED
    BY <2>1, <2>2
<1>8. SettingUp'
  BY <1>1 DEF SettingUp
<1> QED
  BY <1>5, <1>6, <1>7, <1>8

\* The events and the free signals of the pools stay.
LEMMA EventsKept ==
    ASSUME QueueInv, EventsApart, events' = events, NEW s, NEW r,
           queue' = queue \/ (queue' = [queue EXCEPT ![s] = r]
                                /\ (s \in Streams => r.freeSignals = queue[s].freeSignals))
    PROVE  EventsApart'
<1>1. \A x \in Streams : queue'[x].freeSignals = queue[x].freeSignals
  BY DEF QueueInv, TypeOK, HostTypeOK
<1> QED
  BY <1>1 DEF EventsApart

\* A call of s that hands nothing to the GPU and records no event.
LEMMA CallKeepsTimeline ==
    ASSUME QueueInv, AwaitsSound, TimelineInv, NEW s \in Streams, Ready(s),
           NEW r, Proceeds(queue[s], r, s), queue' = [queue EXCEPT ![s] = r],
           UNCHANGED <<gpuVars, unawaited, events>>,
           cpu' = cpu \/ cpu' = [at |-> "submit", stream |-> s, entry |-> 1]
    PROVE  TimelineInv'
<1>1. TimelinesRise' /\ InLines' /\ BeginsInLine' /\ SettingUp'
  BY CallFlows DEF Proceeds
<1>2. EventsApart'
  BY EventsKept DEF Proceeds, TimelineInv
<1> QED
  BY <1>1, <1>2 DEF TimelineInv

\* The counter of a stream stays below its wrap.
LEMMA CounterBelow ==
    ASSUME QueueInv, OrderInv, MaxOps + 2 < CtrModulus, NEW s \in Streams, Ready(s),
           Len(issued[s]) < MaxOps
    PROVE  queue[s].timelineCtr + 1 < CtrModulus
<1>1. queue[s].timelineCtr = Len(issued[s]) + 2 /\ Len(issued[s]) \in Nat
  BY ReadyQueue
<1> QED
  BY <1>1, StreamAssumption, CtrAssumption

\* An operation joins the buffer and counts.
LEMMA OperationProceeds ==
    ASSUME NEW q \in NvCommandQueue, NEW p \in NvCommandQueue, NEW s \in Streams,
           Proceeds(q, p, s), p.timelineCtr + 1 < CtrModulus,
           NEW cmd \in Command, IsWork(cmd), NEW t \in QueueTypes, NEW async \in BOOLEAN
    PROVE  Proceeds(q, EndOp(Enqueue(p, cmd, t), s, async, t), s)
<1>1. \A x \in Streams : ~Rel(cmd, x)
  BY DEF Rel, IsWork
<1>2. PICK e : e = Enqueue(p, cmd, t)
  OBVIOUS
<1>3. Continues(p, e, s) /\ e.timelineCtr = p.timelineCtr
  BY <1>1, <1>2, QuietContinues, EnqueueFields
<1>4. PICK r : r = EndOp(e, s, async, t)
  OBVIOUS
<1>5. e \in NvCommandQueue
  BY <1>3 DEF Continues
<1>6. Continues(e, r, s)
  BY <1>3, <1>4, <1>5, EndOpContinues
<1>7. Proceeds(q, e, s)
  BY <1>3, ContinuesProceeds
<1>8. Proceeds(q, r, s)
  BY <1>5, <1>6, <1>7, ContinuesProceeds
<1> QED
  BY <1>2, <1>4, <1>8

LEMMA GpuMemcpyKeepsTimeline ==
    ASSUME Orderly, QueueInv, OrderInv, TimelineInv, NEW s \in Streams,
           NEW async \in BOOLEAN, GpuMemcpy(s, async)
    PROVE  TimelineInv'
<1>1. /\ Ready(s) /\ Len(issued[s]) < MaxOps /\ "DMA" \in QueueTypes
      /\ UNCHANGED <<gpuVars, cpu, unawaited, events>>
  BY DEF GpuMemcpy, QueueTypes
<1>2. PICK q \in NvCommandQueue : q = queue[s]
  BY DEF QueueInv, TypeOK, HostTypeOK
<1>3. OneBuffer(q)
  BY <1>1, <1>2, ReadyQueue DEF QueueSound
<1>4. PICK p : p = SwitchTo(q, "DMA")
  OBVIOUS
<1>5. Proceeds(q, p, s) /\ p.timelineCtr = q.timelineCtr /\ p \in NvCommandQueue
  BY <1>1, <1>3, <1>4, SwitchToProceeds DEF Proceeds, Onwards
<1>6. p.timelineCtr + 1 < CtrModulus
  BY <1>1, <1>2, <1>5, CounterBelow DEF Orderly
<1>7. PICK copy : copy = [kind |-> "copy", op |-> <<s, Len(issued[s]) + 1>>]
  OBVIOUS
<1>8. copy \in Command /\ IsWork(copy)
  <2>1. HostTypeOK /\ <<s, Len(issued[s]) + 1>> \in Ops
    BY <1>1, NextOpIsOp DEF QueueInv, TypeOK
  <2> QED
    BY <1>7, <2>1 DEF Command, Copies, IsWork
<1>9. PICK r : r = EndOp(Enqueue(p, copy, "DMA"), s, async, "DMA")
  OBVIOUS
<1>10. Proceeds(q, r, s)
  BY <1>1, <1>5, <1>6, <1>8, <1>9, OperationProceeds
<1>11. queue' = [queue EXCEPT ![s] = r]
  BY <1>2, <1>4, <1>7, <1>9 DEF GpuMemcpy
<1> QED
  BY <1>1, <1>2, <1>10, <1>11, CallKeepsTimeline DEF OrderInv

LEMMA LaunchKeepsTimeline ==
    ASSUME Orderly, QueueInv, OrderInv, TimelineInv, NEW s \in Streams,
           NEW f \in Funcs, NEW async \in BOOLEAN, LaunchFunction(s, f, async)
    PROVE  TimelineInv'
<1>1. /\ Ready(s) /\ Len(issued[s]) < MaxOps /\ "COMPUTE" \in QueueTypes
      /\ UNCHANGED <<gpuVars, cpu, unawaited, events>>
  BY DEF LaunchFunction, MayLaunch, QueueTypes
<1>2. PICK q \in NvCommandQueue : q = queue[s]
  BY DEF QueueInv, TypeOK, HostTypeOK
<1>3. PICK p : p = Prepared(s, f, async).queue
  OBVIOUS
<1>4. Proceeds(q, p, s) /\ p.timelineCtr = q.timelineCtr /\ p \in NvCommandQueue
  BY <1>1, <1>2, <1>3, PreparedProceeds DEF Proceeds, Onwards
<1>5. KernArgsFit(p)
  BY <1>3 DEF LaunchFunction
<1>6. PICK slot \in 0..KernArgsSlots : slot = p.kernArgsWriteIdx /\ slot + 1 \in 0..KernArgsSlots
  BY <1>4, <1>5, FuncAssumption DEF KernArgsFit, NvCommandQueue
<1>7. PICK taken : taken = [p EXCEPT !.kernArgsWriteIdx = slot + 1]
  OBVIOUS
<1>8. /\ taken \in NvCommandQueue /\ taken.buf = p.buf /\ taken.backlog = p.backlog
      /\ taken.freeSignals = p.freeSignals /\ taken.timelineCtr = p.timelineCtr
      /\ taken.timelineNotifyPending = p.timelineNotifyPending
  BY <1>4, <1>6, <1>7 DEF NvCommandQueue
<1>9. Proceeds(q, taken, s)
  <2>1. Continues(p, taken, s)
    BY <1>4, <1>8, QueueFields, SameBuffersContinue DEF Top
  <2> QED
    BY <1>4, <2>1, ContinuesProceeds
<1>10. taken.timelineCtr + 1 < CtrModulus
  BY <1>1, <1>2, <1>4, <1>8, CounterBelow DEF Orderly
<1>11. PICK launch : launch = [kind |-> "launch", op |-> <<s, Len(issued[s]) + 1>>, slot |-> slot,
                               need |-> LocalMemReq[f], slm |-> p.currentSlmPerThread]
  OBVIOUS
<1>12. launch \in Command /\ IsWork(launch)
  <2>1. HostTypeOK /\ <<s, Len(issued[s]) + 1>> \in Ops
    BY <1>1, NextOpIsOp DEF QueueInv, TypeOK
  <2>2. p.currentSlmPerThread \in Nat /\ slot \in Nat /\ LocalMemReq[f] \in Nat
    BY <1>4, FuncAssumption DEF NvCommandQueue
  <2> QED
    BY <1>11, <2>1, <2>2 DEF Command, Launches, IsWork
<1>13. PICK r : r = EndOp(Enqueue(taken, launch, "COMPUTE"), s, async, "COMPUTE")
  OBVIOUS
<1>14. Proceeds(q, r, s)
  BY <1>1, <1>8, <1>9, <1>10, <1>12, <1>13, OperationProceeds
<1>15. queue' = [queue EXCEPT ![s] = r]
  BY <1>3, <1>6, <1>7, <1>11, <1>13 DEF LaunchFunction
<1> QED
  BY <1>1, <1>2, <1>14, <1>15, CallKeepsTimeline DEF OrderInv

\* A launch that fails leaves its preparations.
LEMMA LaunchFailsKeepsTimeline ==
    ASSUME QueueInv, OrderInv, TimelineInv, NEW s \in Streams,
           NEW f \in Funcs, NEW async \in BOOLEAN,
           LaunchFailsLocalMem(s, f) \/ LaunchFailsLate(s, f, async)
    PROVE  TimelineInv'
<1>1. /\ Ready(s) /\ "COMPUTE" \in QueueTypes /\ HostTypeOK
      /\ UNCHANGED <<gpuVars, cpu, unawaited, events>>
  BY DEF LaunchFailsLocalMem, LaunchFailsLate, MayLaunch, QueueTypes, QueueInv, TypeOK
<1>2. PICK q \in NvCommandQueue : q = queue[s]
  BY DEF QueueInv, TypeOK, HostTypeOK
<1>3. OneBuffer(q)
  BY <1>1, <1>2, ReadyQueue DEF QueueSound
<1>4. ASSUME NEW r, Proceeds(q, r, s), queue' = [queue EXCEPT ![s] = r]
      PROVE  TimelineInv'
  BY <1>1, <1>2, <1>4, CallKeepsTimeline DEF OrderInv
<1>5. CASE LaunchFailsLocalMem(s, f)
  <2>1. PICK p : p = SwitchTo(q, "COMPUTE")
    OBVIOUS
  <2>2. Proceeds(q, p, s) /\ p \in NvCommandQueue
    BY <1>1, <1>3, <2>1, SwitchToProceeds DEF Proceeds, Onwards
  <2>3. PICK g : g = GrownSlm(p, f)
    OBVIOUS
  <2>4. Proceeds(q, g, s)
    BY <1>1, <2>2, <2>3, LocalMemContinues, ContinuesProceeds
  <2>5. queue' = [queue EXCEPT ![s] = p] \/ queue' = [queue EXCEPT ![s] = g]
    BY <1>2, <1>5, <2>1, <2>3 DEF LaunchFailsLocalMem
  <2> QED
    BY <1>4, <2>2, <2>4, <2>5
<1>6. CASE LaunchFailsLate(s, f, async)
  <2>1. PICK p : p = Prepared(s, f, async).queue
    OBVIOUS
  <2>2. Proceeds(q, p, s) /\ p \in NvCommandQueue
    BY <1>1, <1>2, <2>1, PreparedProceeds DEF Proceeds, Onwards
  <2>3. CASE queue' = [queue EXCEPT ![s] = p]
    BY <1>4, <2>2, <2>3
  <2>4. CASE KernArgsFit(p) /\ queue' = [queue EXCEPT ![s] = [p EXCEPT !.kernArgsWriteIdx = @ + 1]]
    <3>1. PICK n \in 0..KernArgsSlots : n = p.kernArgsWriteIdx + 1
      BY <2>2, <2>4, FuncAssumption DEF KernArgsFit, NvCommandQueue
    <3>2. PICK taken : taken = [p EXCEPT !.kernArgsWriteIdx = n]
      OBVIOUS
    <3>3. /\ taken \in NvCommandQueue /\ taken.buf = p.buf /\ taken.backlog = p.backlog
          /\ taken.freeSignals = p.freeSignals /\ taken.timelineCtr = p.timelineCtr
          /\ taken.timelineNotifyPending = p.timelineNotifyPending
      BY <2>2, <3>1, <3>2 DEF NvCommandQueue
    <3>4. Continues(p, taken, s)
      BY <2>2, <3>3, QueueFields, SameBuffersContinue DEF Top
    <3>5. Proceeds(q, taken, s)
      BY <2>2, <3>4, ContinuesProceeds
    <3>6. queue' = [queue EXCEPT ![s] = taken]
      BY <2>4, <3>1, <3>2
    <3> QED
      BY <1>4, <3>5, <3>6
  <2> QED
    BY <1>6, <2>1, <2>3, <2>4 DEF LaunchFailsLate
<1> QED
  BY <1>5, <1>6

LEMMA CommenceBacklogKeepsTimeline ==
    ASSUME QueueInv, OrderInv, TimelineInv, NEW s \in Streams, CommenceBacklog(s)
    PROVE  TimelineInv'
<1>1. PICK q \in NvCommandQueue : q = queue[s]
  BY DEF QueueInv, TypeOK, HostTypeOK
<1>2. PICK r : r = BacklogCurrentCmdBuffer(BacklogCurrentCmdBuffer(q, "COMPUTE"), "DMA")
  OBVIOUS
<1>3. /\ Ready(s) /\ q.backlog # <<>>
      /\ queue' = [queue EXCEPT ![s] = r]
      /\ cpu' = [at |-> "submit", stream |-> s, entry |-> 1]
      /\ UNCHANGED <<gpuVars, unawaited, events>>
  BY <1>1, <1>2 DEF CommenceBacklog
<1>4. OneBuffer(q) /\ q.currentQueueType \in QueueTypes
  <2>1. QueueSound(issued, q, s, 1, 0)
    BY <1>1, <1>3, ReadyQueue
  <2> QED
    BY <1>3, <2>1, SoundType DEF QueueSound
<1>5. Proceeds(q, r, s)
  BY <1>2, <1>4, BothProceed
<1> QED
  BY <1>1, <1>3, <1>5, CallKeepsTimeline DEF OrderInv

\* The signal a record uses is none of a timeline.
LEMMA ObtainedApart ==
    ASSUME QueueInv, EventsApart, NEW e \in Events, NEW s \in Streams,
           ObtainSignal(e, s).sig # NULL
    PROVE  LET o == ObtainSignal(e, s)
           IN  /\ \A x \in Streams : o.sig # Timeline(x)
               /\ \A i \in DOMAIN o.left : o.left[i] # 0
<1> DEFINE free == queue[s].freeSignals
           held == IF RecordType(queue[s]) = "DMA"
                     THEN events[e].dmaSignal ELSE events[e].computeSignal
<1>1. free \in Seq(0..(PoolSize - 1))
  BY DEF QueueInv, TypeOK, HostTypeOK, NvCommandQueue
<1>2. \A i \in DOMAIN free : free[i] # 0
  BY DEF EventsApart
<1>3. \A x \in Streams : held # Timeline(x)
  BY DEF EventsApart
<1>4. ObtainSignal(e, s) = IF held # NULL THEN [sig |-> held, left |-> free]
                           ELSE IF free = <<>> THEN [sig |-> NULL, left |-> free]
                           ELSE [sig |-> <<s, Head(free)>>, left |-> Tail(free)]
  BY DEF ObtainSignal
<1> HIDE DEF free, held
<1>5. CASE held # NULL
  BY <1>2, <1>3, <1>4, <1>5
<1>6. CASE held = NULL
  <2>1. free # <<>> /\ ObtainSignal(e, s) = [sig |-> <<s, Head(free)>>, left |-> Tail(free)]
    BY <1>4, <1>6
  <2>2. Head(free) # 0 /\ \A i \in DOMAIN Tail(free) : Tail(free)[i] # 0
    <3>1. 1 \in DOMAIN free /\ Head(free) = free[1]
      BY <1>1, <2>1
    <3>2. \A i \in DOMAIN Tail(free) : i + 1 \in DOMAIN free /\ Tail(free)[i] = free[i + 1]
      BY <1>1, <2>1
    <3> QED
      BY <1>2, <3>1, <3>2
  <2> QED
    BY <2>1, <2>2 DEF Timeline
<1> QED
  BY <1>5, <1>6

LEMMA RecordEventKeepsTimeline ==
    ASSUME QueueInv, OrderInv, TimelineInv, NEW e \in Events, NEW s \in Streams,
           RecordEvent(e, s)
    PROVE  TimelineInv'
<1>1. PICK q \in NvCommandQueue : q = queue[s]
  BY DEF QueueInv, TypeOK, HostTypeOK
<1>2. PICK t \in QueueTypes : t = RecordType(queue[s])
  BY DEF RecordType, QueueTypes
<1>3. PICK sig, left : sig = ObtainSignal(e, s).sig /\ left = ObtainSignal(e, s).left
  OBVIOUS
<1>4. /\ sig \in Signals /\ left \in Seq(0..(PoolSize - 1))
      /\ \A x \in Streams : sig # Timeline(x)
      /\ \A i \in DOMAIN left : left[i] # 0
  BY <1>3, ObtainSignalTyped, ObtainedApart DEF RecordEvent, QueueInv, TypeOK, TimelineInv
<1>5. PICK p : p = Retyped(q, left, t)
  OBVIOUS
<1>6. /\ p \in NvCommandQueue /\ p.buf = q.buf /\ p.backlog = q.backlog
      /\ p.timelineCtr = q.timelineCtr
      /\ p.timelineNotifyPending = q.timelineNotifyPending
      /\ p.freeSignals = left
  BY <1>2, <1>4, <1>5 DEF Retyped, NvCommandQueue
<1>7. PICK cmd : cmd = [kind |-> "release", sig |-> sig, payload |-> 1]
  OBVIOUS
<1>8. cmd \in Command /\ \A x \in Streams : ~Rel(cmd, x)
  BY <1>4, <1>7, CommandTypes DEF Rel
<1>9. PICK r : r = Enqueue(p, cmd, t)
  OBVIOUS
<1>10. Continues(p, r, s)
  BY <1>6, <1>8, <1>9, QuietContinues
<1>11. Onwards(q, p, s)
  <2>1. \A lo \in Nat : QueueRises(q, s, 1, lo) => QueueRises(p, s, 1, lo)
    BY <1>6 DEF QueueRises, Floor, Rest, Top
  <2> QED
    BY <1>6, <2>1 DEF Onwards
<1>12. Onwards(q, r, s)
  BY <1>6, <1>10, <1>11, ContinuesOnwards
<1>13. /\ Ready(s) /\ queue' = [queue EXCEPT ![s] = r]
       /\ UNCHANGED <<gpuVars, cpu, unawaited>>
       /\ \E new : /\ events' = [events EXCEPT ![e] = new]
                   /\ new \in {[events[e] EXCEPT !.stream = s, !.dmaSignal = sig],
                               [events[e] EXCEPT !.stream = s, !.computeSignal = sig]}
  BY <1>1, <1>2, <1>3, <1>5, <1>7, <1>9 DEF RecordEvent, Retyped, SignalNotify
<1>14. TimelinesRise' /\ InLines' /\ BeginsInLine' /\ SettingUp'
  BY <1>1, <1>12, <1>13, CallFlows DEF OrderInv
<1>15. EventsApart'
  <2>1. \A x \in Streams : queue'[x].freeSignals = IF x = s THEN left ELSE queue[x].freeSignals
    BY <1>6, <1>10, <1>13 DEF Continues, QueueInv, TypeOK, HostTypeOK
  <2>2. PICK new : /\ events' = [events EXCEPT ![e] = new]
                   /\ new \in {[events[e] EXCEPT !.stream = s, !.dmaSignal = sig],
                               [events[e] EXCEPT !.stream = s, !.computeSignal = sig]}
    BY <1>13
  <2>3. /\ new.computeSignal \in {sig, events[e].computeSignal}
        /\ new.dmaSignal \in {sig, events[e].dmaSignal}
    BY <2>2 DEF QueueInv, TypeOK, HostTypeOK, LibreCUEvent
  <2>4. \A d \in Events : events'[d] = IF d = e THEN new ELSE events[d]
    BY <2>2 DEF QueueInv, TypeOK, HostTypeOK
  <2> QED
    BY <1>4, <2>1, <2>3, <2>4 DEF EventsApart, TimelineInv
<1> QED
  BY <1>14, <1>15 DEF TimelineInv

TimelinesKept == \A s \in Streams : value'[Timeline(s)] >= value[Timeline(s)]

LEMMA SameValuesKept ==
    ASSUME QueueInv, value' = value
    PROVE  TimelinesKept
BY TimelineIsSignal DEF TimelinesKept, QueueInv, TypeOK, GpuTypeOK

\* A channel takes its next command: a release of s lands above its timeline,
\* and the other channel has none.
LEMMA TakenKeepsTimeline ==
    ASSUME QueueInv, AwaitsSound, TimelineInv, NEW c \in QueueTypes, fifo[c] # <<>>,
           Take(c), UNCHANGED hostVars,
           \A s \in Streams :
              value'[Timeline(s)] = IF Rel(Head(fifo[c]), s) THEN Head(fifo[c]).payload
                                                             ELSE value[Timeline(s)]
    PROVE  TimelineInv' /\ TimelinesKept
<1>1. /\ UNCHANGED <<queue, cpu, unawaited, events>>
      /\ \A s : /\ Cursor(s)' = Cursor(s) /\ Expected(s)' = Expected(s)
                /\ Lines(s)' = Lines(s)
  BY DEF hostVars, Cursor, Expected, Lines
<1>2. PICK h, a : h = Head(fifo[c]) /\ a = fifo[c]
  OBVIOUS
<1>3. /\ a \in Seq(Command) /\ a # <<>> /\ h \in Elements(a)
      /\ \A d \in QueueTypes : fifo'[d] = IF d = c THEN Tail(a) ELSE fifo[d]
      /\ Elements(Tail(a)) \subseteq Elements(a)
  <2>1. a \in Seq(Command) /\ a # <<>>
    BY <1>2 DEF QueueInv, TypeOK, GpuTypeOK
  <2>2. h = a[1] /\ 1 \in DOMAIN a
    BY <1>2, <2>1
  <2>3. \A i \in DOMAIN Tail(a) : Tail(a)[i] = a[i + 1] /\ i + 1 \in DOMAIN a
    BY <2>1
  <2>4. \A d \in QueueTypes : fifo'[d] = IF d = c THEN Tail(a) ELSE fifo[d]
    BY <1>2 DEF Take, QueueInv, TypeOK, GpuTypeOK
  <2> QED
    BY <2>1, <2>2, <2>3, <2>4 DEF Elements
<1>4. ASSUME NEW s \in Streams
      PROVE  /\ \E lo \in Nat : Flows(s, lo)'
             /\ value'[Timeline(s)] >= value[Timeline(s)]
  <2>1. PICK lo \in Nat : Flows(s, lo)
    BY DEF TimelineInv, TimelinesRise
  <2>2. PICK v, w, n : v = value[Timeline(s)] /\ w = value'[Timeline(s)] /\ n = lo
    OBVIOUS
  <2>3. v \in Nat /\ n \in Nat /\ w = IF Rel(h, s) THEN h.payload ELSE v
    <3>1. value[Timeline(s)] \in Nat
      BY TimelineIsSignal DEF QueueInv, TypeOK, GpuTypeOK
    <3> QED
      BY <1>2, <2>2, <3>1
  <2>4. \A d \in QueueTypes : Rises(fifo[d], s, v, n)
    BY <2>1, <2>2 DEF Flows
  <2>5. /\ Rises(Tail(a), s, v, n)
        /\ Rel(h, s) => h.payload \in (v + 1)..n /\ Rises(Tail(a), s, h.payload, n)
    <3>1. Rises(a, s, v, n)
      BY <1>2, <2>4
    <3> QED
      BY <1>2, <1>3, <2>3, <3>1, TakenRises
  <2>6. ASSUME NEW d \in QueueTypes, d # c, Rel(h, s)
        PROVE  Rises(fifo[d], s, h.payload, n)
    <3>1. c \in Lines(s)
      BY <1>2, <1>3, <2>6 DEF TimelineInv, InLines, Notes
    <3>2. ~Notes(fifo[d], s)
      BY <2>6, <3>1, OneLine DEF TimelineInv, InLines
    <3>3. \A i \in DOMAIN fifo[d] : ~Rel(fifo[d][i], s)
      BY <3>2 DEF Notes, Elements
    <3>4. h.payload <= n
      BY <2>3, <2>5, <2>6
    <3> QED
      BY <3>3, <3>4 DEF Rises
  <2>7. \A d \in QueueTypes : Rises(fifo'[d], s, w, n)
    BY <1>3, <2>3, <2>4, <2>5, <2>6
  <2>8. Flows(s, n)'
    BY <1>1, <2>1, <2>2, <2>7 DEF Flows
  <2>9. w >= v
    BY <2>3, <2>5
  <2> QED
    BY <2>2, <2>3, <2>8, <2>9
<1>5. TimelinesRise' /\ TimelinesKept
  BY <1>4 DEF TimelinesRise, TimelinesKept
<1>6. InLines'
  BY <1>1, <1>2, <1>3 DEF TimelineInv, InLines, Notes
<1>7. BeginsInLine' /\ EventsApart' /\ SettingUp'
  BY <1>1 DEF TimelineInv, BeginsInLine, EventsApart, SettingUp
<1> QED
  BY <1>5, <1>6, <1>7 DEF TimelineInv

LEMMA GpuStepKeepsTimeline ==
    ASSUME QueueInv, OrderInv, TimelineInv, GpuStep
    PROVE  TimelineInv' /\ TimelinesKept
<1>1. "COMPUTE" \in QueueTypes /\ "DMA" \in QueueTypes /\ UNCHANGED hostVars /\ AwaitsSound
  BY DEF QueueTypes, GpuStep, OrderInv
<1>2. ASSUME NEW c \in QueueTypes, fifo[c] # <<>>, Take(c), value' = value,
             Head(fifo[c]).kind # "release"
      PROVE  TimelineInv' /\ TimelinesKept
  BY <1>1, <1>2, TakenKeepsTimeline DEF Rel
<1>3. CASE StartKernel \/ Acquire \/ SetLocalMem
  BY <1>1, <1>2, <1>3 DEF StartKernel, Acquire, SetLocalMem, Begin, NextIs
<1>4. CASE StartCopy
  BY <1>1, <1>2, <1>4 DEF StartCopy, Begin, NextIs
<1>5. ASSUME NEW c \in QueueTypes, Release(c)
      PROVE  TimelineInv' /\ TimelinesKept
  <2>1. PICK h : h = Head(fifo[c])
    OBVIOUS
  <2>2. /\ fifo[c] # <<>> /\ h.kind = "release" /\ Take(c)
        /\ value' = [value EXCEPT ![h.sig] = h.payload]
    BY <1>5, <2>1 DEF Release, NextIs
  <2>3. \A s \in Streams : value'[Timeline(s)] = IF Rel(h, s) THEN h.payload
                                                              ELSE value[Timeline(s)]
    BY <2>2, TimelineIsSignal DEF Rel, QueueInv, TypeOK, GpuTypeOK
  <2> QED
    BY <1>1, <2>1, <2>2, <2>3, TakenKeepsTimeline
<1>6. ASSUME NEW c \in QueueTypes, Finish(c)
      PROVE  TimelineInv' /\ TimelinesKept
  <2>1. UNCHANGED <<fifo, value, queue, cpu, unawaited, events>>
    BY <1>1, <1>6 DEF Finish, hostVars
  <2>2. \A s : /\ Cursor(s)' = Cursor(s) /\ Expected(s)' = Expected(s)
               /\ Lines(s)' = Lines(s)
    BY <2>1 DEF Cursor, Expected, Lines
  <2>3. TimelinesRise'
    BY <2>1, <2>2 DEF TimelineInv, TimelinesRise, Flows
  <2>4. InLines' /\ BeginsInLine' /\ EventsApart' /\ SettingUp'
    BY <2>1, <2>2 DEF TimelineInv, InLines, BeginsInLine, EventsApart, SettingUp
  <2> QED
    BY <2>1, <2>3, <2>4, SameValuesKept DEF TimelineInv
<1> QED
  BY <1>1, <1>3, <1>4, <1>5, <1>6 DEF GpuStep, GpuNext, ComputeTakes, DmaTakes

\* b joins channel t behind what the channels hold of s, which ends at lo; what
\* is still to be submitted of s, in the queue r, comes after it.
LEMMA SubmittedFlows ==
    ASSUME QueueInv, TimelinesRise, NEW s \in Streams, NEW t \in QueueTypes,
           NEW b \in Seq(Command), NEW r, NEW lo \in Nat, NEW hi \in Nat,
           fifo' = [fifo EXCEPT ![t] = fifo[t] \o b],
           queue' = [queue EXCEPT ![s] = r], value' = value,
           Flows(s, lo), Stretch(b, s, lo, hi),
           QueueRises(r, s, Cursor(s)', hi),
           Expected(s)' # 0 => hi = r.backlog[Expected(s)'].timelineCtr,
           \A x \in Streams \ {s} : Cursor(x)' = Cursor(x) /\ Expected(x)' = Expected(x)
    PROVE  TimelinesRise'
<1>1. PICK a : a = fifo[t]
  OBVIOUS
<1>2. /\ a \in Seq(Command)
      /\ \A d \in QueueTypes : fifo'[d] = IF d = t THEN a \o b ELSE fifo[d]
      /\ \A x \in Streams : queue'[x] = IF x = s THEN r ELSE queue[x]
      /\ \A x \in Streams : value[Timeline(x)] \in Nat
  BY <1>1, TimelineIsSignal DEF QueueInv, TypeOK, GpuTypeOK, HostTypeOK
<1>3. lo <= hi
  BY DEF Stretch, Rises
<1>4. \E n \in Nat : Flows(s, n)'
  <2>1. PICK v : v = value[Timeline(s)]
    OBVIOUS
  <2>2. v \in Nat /\ \A d \in QueueTypes : Rises(fifo[d], s, v, lo)
    BY <1>2, <2>1 DEF Flows
  <2>3. Rises(a \o b, s, v, hi)
    <3>1. Rises(a, s, v, lo) /\ Rises(b, s, lo, hi)
      BY <1>1, <2>2 DEF Stretch
    <3> QED
      BY <1>2, <2>2, <3>1, JoinedRises
  <2>4. \A d \in QueueTypes : Rises(fifo[d], s, v, hi)
    BY <1>3, <2>2 DEF Rises
  <2>5. \A d \in QueueTypes : Rises(fifo'[d], s, v, hi)
    BY <1>2, <2>3, <2>4
  <2>6. Flows(s, hi)'
    BY <1>2, <2>1, <2>5 DEF Flows
  <2> QED
    BY <2>6
<1>5. ASSUME NEW x \in Streams, x # s
      PROVE  \E n \in Nat : Flows(x, n)'
  <2>1. PICK lx \in Nat : Flows(x, lx)
    BY DEF TimelinesRise
  <2>2. PICK v, n : v = value[Timeline(x)] /\ n = lx
    OBVIOUS
  <2>3. v \in Nat /\ n \in Nat /\ \A d \in QueueTypes : Rises(fifo[d], x, v, n)
    BY <1>2, <2>1, <2>2 DEF Flows
  <2>4. Rises(b, x, n, n)
    <3>1. \A i \in DOMAIN b : ~Rel(b[i], x)
      BY <1>5 DEF Stretch, Own
    <3> QED
      BY <2>3, <3>1 DEF Rises
  <2>5. Rises(a \o b, x, v, n)
    BY <1>1, <1>2, <2>3, <2>4, JoinedRises
  <2>6. \A d \in QueueTypes : Rises(fifo'[d], x, v, n)
    BY <1>2, <2>3, <2>5
  <2>7. queue'[x] = queue[x] /\ Cursor(x)' = Cursor(x) /\ Expected(x)' = Expected(x)
    BY <1>2, <1>5
  <2>8. Flows(x, n)'
    BY <2>1, <2>2, <2>6, <2>7 DEF Flows
  <2> QED
    BY <2>3, <2>8
<1> QED
  BY <1>4, <1>5 DEF TimelinesRise

\* The line of s goes through t now.
LEMMA SubmittedLines ==
    ASSUME QueueInv, InLines, NEW s \in Streams, NEW t \in QueueTypes,
           NEW b \in Seq(Command), NEW lo \in Int, NEW hi \in Int,
           fifo' = [fifo EXCEPT ![t] = fifo[t] \o b],
           Stretch(b, s, lo, hi),
           \A c \in QueueTypes : Notes(fifo[c], s) => c \in Lines(s)',
           b # <<>> => t \in Lines(s)',
           \A x \in Streams \ {s} : Lines(x)' = Lines(x)
    PROVE  InLines'
<1>1. PICK a : a = fifo[t]
  OBVIOUS
<1>2. /\ a \in Seq(Command)
      /\ \A d \in QueueTypes : fifo'[d] = IF d = t THEN a \o b ELSE fifo[d]
  BY <1>1 DEF QueueInv, TypeOK, GpuTypeOK
<1>3. \A x \in Streams : Notes(b, x) => x = s /\ b # <<>>
  BY DEF Stretch, Own, Notes, Elements
<1>4. \A x \in Streams : Notes(a \o b, x) => Notes(a, x) \/ Notes(b, x)
  BY <1>2, JoinedElements DEF Notes
<1>5. \A x \in Streams, d \in QueueTypes :
          Notes(fifo'[d], x) => Notes(fifo[d], x) \/ (x = s /\ d = t /\ b # <<>>)
  BY <1>1, <1>2, <1>3, <1>4
<1>6. \A x \in Streams, d \in QueueTypes : Notes(fifo'[d], x) => d \in Lines(x)'
  <2> SUFFICES ASSUME NEW x \in Streams, NEW d \in QueueTypes, Notes(fifo'[d], x)
               PROVE  d \in Lines(x)'
    OBVIOUS
  <2>1. CASE x = s
    BY <1>5, <2>1
  <2>2. CASE x # s
    BY <1>5, <2>2 DEF InLines
  <2> QED
    BY <2>1, <2>2
<1> QED
  BY <1>6 DEF InLines, Notes

\* What has been handed over ends at the counter; nothing is left.
LEMMA EmptiedRises ==
    ASSUME NEW r \in NvCommandQueue, NEW s, r.backlog = <<>>, ~r.timelineNotifyPending,
           \A t \in QueueTypes : r.buf[t] = <<>>
    PROVE  r.timelineCtr \in Nat /\ QueueRises(r, s, 1, r.timelineCtr)
<1>1. r.timelineCtr \in Nat /\ Top(r) = r.timelineCtr /\ Rest(r) = 1
  BY QueueFields DEF Top, Rest
<1>2. Stretch(<<>>, s, r.timelineCtr, r.timelineCtr)
  BY <1>1, EmptyRises
<1> QED
  BY <1>1, <1>2 DEF QueueRises, Floor

LEMMA CommenceKeepsTimeline ==
    ASSUME QueueInv, TimelineInv, NEW s \in Streams, Commence(s)
    PROVE  TimelineInv'
<1>1. PICK q \in NvCommandQueue : q = queue[s]
  BY DEF QueueInv, TypeOK, HostTypeOK
<1>2. PICK t \in QueueTypes : t = q.currentQueueType
  BY <1>1 DEF Commence
<1>3. PICK n : n = [NotifyIfPending(q, s, t) EXCEPT !.timelineNotifyPending = FALSE]
  OBVIOUS
<1>4. PICK r : r = [n EXCEPT !.buf[t] = <<>>]
  OBVIOUS
<1>5. PICK b : b = n.buf[t]
  OBVIOUS
<1>6. /\ cpu = Idle /\ q.backlog = <<>> /\ q.buf[Other(t)] = <<>>
      /\ fifo' = [fifo EXCEPT ![t] = fifo[t] \o b]
      /\ queue' = [queue EXCEPT ![s] = r]
      /\ unawaited' = [unawaited EXCEPT ![s] = IF b = <<>> THEN unawaited[s]
                                                           ELSE unawaited[s] \cup {t}]
      /\ UNCHANGED <<value, cpu, events>>
  BY <1>1, <1>2, <1>3, <1>4, <1>5 DEF Commence, Ready, SubmitToFifo
<1>7. /\ Continues(q, n, s) /\ n \in NvCommandQueue /\ n.timelineCtr = q.timelineCtr
      /\ ~n.timelineNotifyPending /\ n.freeSignals = q.freeSignals /\ n.backlog = <<>>
  BY <1>3, <1>6, NotifyContinues DEF Continues
<1>8. n.buf[Other(t)] = <<>>
  <2>1. Takes(NotifyIfPending(q, s, t), t)
    BY <1>1, <1>2, <1>6, CommencedQueue
  <2>2. FALSE \in BOOLEAN
    OBVIOUS
  <2>3. Takes(n, t)
    BY <1>3, <2>1, <2>2, ScalarFieldsTake
  <2> QED
    BY <1>7, <2>3 DEF Takes
<1>9. b \in Seq(Command)
  BY <1>5, <1>7, QueueFields
<1>10. /\ r \in NvCommandQueue /\ r.backlog = <<>> /\ ~r.timelineNotifyPending
       /\ r.timelineCtr = q.timelineCtr /\ r.freeSignals = q.freeSignals
       /\ \A u \in QueueTypes : r.buf[u] = <<>>
  <2>1. PICK buf : buf = [n.buf EXCEPT ![t] = <<>>]
    OBVIOUS
  <2>2. buf \in [QueueTypes -> Seq(Command)] /\ \A u \in QueueTypes : buf[u] = <<>>
    BY <1>7, <1>8, <2>1, EmptySound DEF NvCommandQueue, Other, QueueTypes
  <2>3. r = [n EXCEPT !.buf = buf]
    BY <1>4, <1>7, <2>1 DEF NvCommandQueue
  <2> QED
    BY <1>7, <2>2, <2>3 DEF NvCommandQueue
<1>11. /\ \A x : Cursor(x) = 1 /\ Expected(x) = 0 /\ Cursor(x)' = 1 /\ Expected(x)' = 0
       /\ \A x : Lines(x) = unawaited[x] /\ Lines(x)' = unawaited'[x]
  BY <1>6 DEF Idle, Cursor, Expected, Lines
<1>12. PICK lo \in Nat : Flows(s, lo)
  BY DEF TimelineInv, TimelinesRise
<1>13. PICK hi : hi = q.timelineCtr
  OBVIOUS
<1>14. hi \in Nat /\ QueueRises(r, s, 1, hi)
  BY <1>10, <1>13, EmptiedRises
<1>15. Stretch(b, s, lo, hi)
  <2>1. QueueRises(q, s, 1, lo)
    BY <1>1, <1>11, <1>12 DEF Flows
  <2>2. Stretch(q.buf[t], s, lo, Top(q))
    BY <1>6, <2>1 DEF QueueRises, Floor, Rest
  <2>3. Top(n) = hi
    BY <1>7, <1>13 DEF Top
  <2> QED
    BY <1>5, <1>7, <2>2, <2>3 DEF Continues
<1>16. TimelinesRise'
  <2>1. QueueRises(r, s, Cursor(s)', hi)
    BY <1>11, <1>14
  <2> QED
    BY <1>6, <1>9, <1>11, <1>12, <1>14, <1>15, <2>1, SubmittedFlows DEF TimelineInv
<1>17. /\ \A x \in Streams \ {s} : unawaited'[x] = unawaited[x] /\ queue'[x] = queue[x]
       /\ unawaited'[s] = IF b = <<>> THEN unawaited[s] ELSE unawaited[s] \cup {t}
       /\ queue'[s] = r
  BY <1>6 DEF QueueInv, TypeOK, HostTypeOK
<1>18. InLines'
  <2>1. \A c \in QueueTypes : Notes(fifo[c], s) => c \in Lines(s)'
    BY <1>11, <1>17 DEF TimelineInv, InLines
  <2>2. b # <<>> => t \in Lines(s)'
    BY <1>11, <1>17
  <2>3. \A x \in Streams \ {s} : Lines(x)' = Lines(x)
    BY <1>11, <1>17
  <2>4. InLines /\ lo \in Int /\ hi \in Int /\ fifo' = [fifo EXCEPT ![t] = fifo[t] \o b]
    BY <1>6, <1>14 DEF TimelineInv
  <2> QED
    BY <1>9, <1>15, <2>1, <2>2, <2>3, <2>4, SubmittedLines
<1>19. BeginsInLine' /\ SettingUp'
  BY <1>6, <1>10, <1>17 DEF TimelineInv, BeginsInLine, SettingUp, Idle
<1>20. EventsApart'
  BY <1>1, <1>6, <1>10, EventsKept DEF TimelineInv
<1> QED
  BY <1>16, <1>18, <1>19, <1>20 DEF TimelineInv

\* initializeQueue sets up channel u, where nothing of s is left.
LEMMA SetUpFlows ==
    ASSUME QueueInv, TimelineInv, NEW s \in Streams, NEW q \in NvCommandQueue,
           NEW u \in QueueTypes, SetUpChannel(s, q, u),
           q.backlog = <<>>, q.timelineCtr \in {0, 1}, ~q.timelineNotifyPending,
           \A t \in QueueTypes : q.buf[t] = <<>>,
           NEW lo \in Nat, Flows(s, lo), lo <= q.timelineCtr,
           \A c \in QueueTypes : ~Notes(fifo[c], s),
           cpu.at \notin {"submit", "wait"}, cpu'.at \notin {"submit", "wait"},
           u \in Lines(s)', \A x \in Streams \ {s} : Lines(x)' = Lines(x)
    PROVE  /\ TimelinesRise' /\ InLines'
           /\ \E r : /\ queue' = [queue EXCEPT ![s] = r]
                     /\ r.backlog = <<>> /\ ~r.timelineNotifyPending
                     /\ r.freeSignals = q.freeSignals
           /\ value' = value
<1>1. PICK n \in Nat : n = q.timelineCtr + 1
  OBVIOUS
<1>2. PICK next : next = AdvanceTimeline(q)
  OBVIOUS
<1>3. (q.timelineCtr + 1) % CtrModulus = n /\ n \in Counter
  BY <1>1, NoWrap, CtrAssumption DEF Counter
<1>4. /\ next \in NvCommandQueue /\ next.timelineCtr = n /\ next.buf = q.buf
      /\ next.backlog = <<>> /\ ~next.timelineNotifyPending
      /\ next.freeSignals = q.freeSignals
  BY <1>2, <1>3 DEF AdvanceTimeline, NvCommandQueue
<1>5. PICK cmd : cmd = [kind |-> "release", sig |-> Timeline(s), payload |-> n]
  OBVIOUS
<1>6. /\ cmd \in Command /\ cmd.kind = "release" /\ cmd.sig = Timeline(s)
      /\ cmd.payload = n
  BY <1>5, CommandTypes, TimelineIsSignal
<1>7. PICK p : p = Enqueue(next, cmd, u)
  OBVIOUS
<1>8. PICK r : r = [p EXCEPT !.buf[u] = <<>>]
  OBVIOUS
<1>9. PICK b : b = p.buf[u]
  OBVIOUS
<1>10. /\ fifo' = [fifo EXCEPT ![u] = fifo[u] \o b]
       /\ queue' = [queue EXCEPT ![s] = r] /\ value' = value
  BY <1>2, <1>4, <1>5, <1>7, <1>8, <1>9 DEF SetUpChannel, SignalNotify, SubmitToFifo
<1>11. /\ p \in NvCommandQueue /\ b = Append(<<>>, cmd)
       /\ \A t \in QueueTypes : t # u => p.buf[t] = <<>>
       /\ p.backlog = <<>> /\ p.timelineCtr = n /\ ~p.timelineNotifyPending
       /\ p.freeSignals = q.freeSignals
  <2>1. /\ p \in NvCommandQueue /\ p.buf[u] = Append(next.buf[u], cmd)
        /\ \A t \in QueueTypes : t # u => p.buf[t] = next.buf[t]
        /\ p.backlog = next.backlog /\ p.timelineCtr = next.timelineCtr
        /\ p.timelineNotifyPending = next.timelineNotifyPending
        /\ p.freeSignals = next.freeSignals
    BY <1>4, <1>6, <1>7, EnqueueFields
  <2>2. \A t \in QueueTypes : next.buf[t] = <<>>
    BY <1>4
  <2>3. p.buf[u] = Append(<<>>, cmd)
    BY <2>1, <2>2
  <2> QED
    BY <1>4, <1>9, <2>1, <2>2, <2>3
<1>12. b \in Seq(Command) /\ <<>> \in Seq(Command)
  BY <1>9, <1>11, QueueFields, EmptySound
<1>13. /\ r \in NvCommandQueue /\ r.backlog = <<>> /\ ~r.timelineNotifyPending
       /\ r.timelineCtr = n /\ r.freeSignals = q.freeSignals
       /\ \A t \in QueueTypes : r.buf[t] = <<>>
  <2>1. PICK buf : buf = [p.buf EXCEPT ![u] = <<>>]
    OBVIOUS
  <2>2. buf \in [QueueTypes -> Seq(Command)] /\ \A t \in QueueTypes : buf[t] = <<>>
    BY <1>11, <1>12, <2>1 DEF NvCommandQueue
  <2>3. r = [p EXCEPT !.buf = buf]
    BY <1>8, <1>11, <2>1 DEF NvCommandQueue
  <2> QED
    BY <1>11, <2>2, <2>3 DEF NvCommandQueue
<1>14. Stretch(b, s, lo, n)
  <2>1. PICK c \in Int : c = q.timelineCtr
    OBVIOUS
  <2>2. Stretch(<<>>, s, lo, c) /\ c < n
    BY <1>1, <2>1, EmptyRises
  <2>3. PICK e \in Seq(Command) : e = <<>>
    BY <1>12
  <2>4. Stretch(e, s, lo, c) /\ lo \in Int /\ c < n
    BY <2>2, <2>3
  <2>5. Stretch(Append(e, cmd), s, lo, n)
    BY <1>6, <2>4, ReleaseAppended
  <2> QED
    BY <1>11, <2>3, <2>5
<1>15. QueueRises(r, s, 1, n)
  BY <1>13, EmptiedRises
<1>16. \A x : Cursor(x) = 1 /\ Expected(x) = 0 /\ Cursor(x)' = 1 /\ Expected(x)' = 0
  BY DEF Cursor, Expected
<1>17. TimelinesRise'
  <2>1. QueueRises(r, s, Cursor(s)', n)
    BY <1>15, <1>16
  <2> QED
    BY <1>10, <1>12, <1>14, <1>16, <2>1, SubmittedFlows DEF TimelineInv
<1>18. InLines'
  <2>1. InLines /\ lo \in Int /\ n \in Int /\ fifo' = [fifo EXCEPT ![u] = fifo[u] \o b]
    BY <1>10 DEF TimelineInv
  <2> QED
    BY <1>12, <1>14, <2>1, SubmittedLines
<1> QED
  BY <1>10, <1>13, <1>17, <1>18

LEMMA StreamCreateKeepsTimeline ==
    ASSUME QueueInv, OrderInv, Unborn, TimelineInv, NEW s \in Streams, StreamCreate(s)
    PROVE  TimelineInv' /\ value' = value
<1>1. PICK type \in QueueTypes \cup {"OTHER"} : SetUpChannel(s, NewQueue(s, type), "COMPUTE")
  BY DEF StreamCreate
<1>2. PICK q : q = NewQueue(s, type)
  OBVIOUS
<1>3. /\ q \in NvCommandQueue /\ "COMPUTE" \in QueueTypes
      /\ \A t \in QueueTypes : q.buf[t] = <<>>
  BY <1>1, <1>2, NewQueueTakes DEF QueueTypes
<1>4. /\ q.backlog = <<>> /\ q.timelineCtr = 0 /\ ~q.timelineNotifyPending
      /\ \A i \in DOMAIN q.freeSignals : q.freeSignals[i] # 0
  <2>1. q.freeSignals = [i \in 1..(PoolSize - 1) |-> i]
    BY <1>2 DEF NewQueue
  <2> QED
    BY <1>2, <2>1, StreamAssumption DEF NewQueue
<1>5. /\ SetUpChannel(s, q, "COMPUTE") /\ state[s] = "none"
      /\ UNCHANGED <<unawaited, events>>
      /\ cpu = Idle /\ cpu' = [at |-> "initCompute", stream |-> s]
  BY <1>1, <1>2 DEF StreamCreate
<1>6. queue[s].timelineCtr = 0 /\ unawaited[s] = {}
  <2>1. queue[s] = NewQueue(s, "OTHER") /\ ~InUse(s)
    BY <1>5 DEF Unborn, InUse
  <2> QED
    BY <2>1 DEF NewQueue, OrderInv, CountersSound
<1>7. PICK lo \in Nat : Flows(s, lo)
  BY DEF TimelineInv, TimelinesRise
<1>8. lo <= 0
  BY <1>6, <1>7 DEF Flows, QueueRises
<1>9. /\ \A x : Lines(x) = unawaited[x]
      /\ Lines(s)' = {"COMPUTE"}
      /\ \A x \in Streams \ {s} : Lines(x)' = Lines(x)
  BY <1>5 DEF Idle, Lines
<1>10. \A c \in QueueTypes : ~Notes(fifo[c], s)
  BY <1>6, <1>9 DEF TimelineInv, InLines
<1>11. cpu.at \notin {"submit", "wait"} /\ cpu'.at \notin {"submit", "wait"}
  BY <1>5 DEF Idle
<1>12. /\ TimelinesRise' /\ InLines' /\ value' = value
       /\ \E r : /\ queue' = [queue EXCEPT ![s] = r]
                 /\ r.backlog = <<>> /\ ~r.timelineNotifyPending
                 /\ r.freeSignals = q.freeSignals
  <2>1. "COMPUTE" \in Lines(s)' /\ lo <= q.timelineCtr /\ q.timelineCtr \in {0, 1}
    BY <1>4, <1>8, <1>9
  <2> QED
    BY <1>3, <1>4, <1>5, <1>7, <1>9, <1>10, <1>11, <2>1, SetUpFlows
<1>13. PICK r : /\ queue' = [queue EXCEPT ![s] = r]
                /\ r.backlog = <<>> /\ ~r.timelineNotifyPending
                /\ r.freeSignals = q.freeSignals
  BY <1>12
<1>14. \A x \in Streams : queue'[x] = IF x = s THEN r ELSE queue[x]
  BY <1>13 DEF QueueInv, TypeOK, HostTypeOK
<1>15. BeginsInLine' /\ SettingUp'
  BY <1>5, <1>13, <1>14 DEF TimelineInv, BeginsInLine, SettingUp
<1>16. EventsApart'
  BY <1>4, <1>5, <1>13, <1>14 DEF TimelineInv, EventsApart
<1> QED
  BY <1>12, <1>15, <1>16 DEF TimelineInv

LEMMA InitComputeReturnsKeepsTimeline ==
    ASSUME QueueInv, OrderInv, TimelineInv, InitComputeReturns
    PROVE  TimelineInv' /\ value' = value
<1>1. PICK s : s = cpu.stream
  OBVIOUS
<1>2. s \in Streams /\ "DMA" \in QueueTypes
  BY <1>1, CpuFields DEF InitComputeReturns, QueueInv, TypeOK, QueueTypes
<1>3. PICK q \in NvCommandQueue : q = queue[s]
  BY <1>2 DEF QueueInv, TypeOK, HostTypeOK
<1>4. /\ SetUpChannel(s, q, "DMA") /\ cpu.at = "initCompute"
      /\ value[Timeline(s)] >= q.timelineCtr
      /\ UNCHANGED <<unawaited, events>>
      /\ cpu' = [at |-> "initDma", stream |-> s]
  BY <1>1, <1>3 DEF InitComputeReturns, SignalReached
<1>5. /\ state[s] = "creating" /\ ~InUse(s) /\ q.timelineCtr = 1 /\ q.backlog = <<>>
      /\ \A t \in QueueTypes : q.buf[t] = <<>>
  BY <1>1, <1>2, <1>3, <1>4 DEF OrderInv, CountersSound, InUse
<1>6. ~q.timelineNotifyPending
  BY <1>1, <1>3, <1>4 DEF TimelineInv, SettingUp
<1>7. PICK lo \in Nat : Flows(s, lo)
  BY <1>2 DEF TimelineInv, TimelinesRise
<1>8. lo <= q.timelineCtr
  BY <1>3, <1>7 DEF Flows, QueueRises
<1>9. /\ Lines(s)' = {"DMA"}
      /\ \A x \in Streams \ {s} : Lines(x)' = Lines(x)
  BY <1>1, <1>4 DEF Lines
<1>10. \A c \in QueueTypes : ~Notes(fifo[c], s)
  <2>1. value[Timeline(s)] \in Nat
    BY <1>2, TimelineIsSignal DEF QueueInv, TypeOK, GpuTypeOK
  <2>2. value[Timeline(s)] >= lo
    BY <1>4, <1>5, <1>8, <2>1
  <2> QED
    BY <1>2, <1>7, <2>2, ReachedEmpty
<1>11. cpu.at \notin {"submit", "wait"} /\ cpu'.at \notin {"submit", "wait"}
  BY <1>4
<1>12. /\ TimelinesRise' /\ InLines' /\ value' = value
       /\ \E r : /\ queue' = [queue EXCEPT ![s] = r]
                 /\ r.backlog = <<>> /\ ~r.timelineNotifyPending
                 /\ r.freeSignals = q.freeSignals
  <2>1. "DMA" \in Lines(s)' /\ q.timelineCtr \in {0, 1}
    BY <1>5, <1>9
  <2> QED
    BY <1>2, <1>4, <1>5, <1>6, <1>7, <1>8, <1>9, <1>10, <1>11, <2>1, SetUpFlows
<1>13. PICK r : /\ queue' = [queue EXCEPT ![s] = r]
                /\ r.backlog = <<>> /\ ~r.timelineNotifyPending
                /\ r.freeSignals = q.freeSignals
  BY <1>12
<1>14. \A x \in Streams : queue'[x] = IF x = s THEN r ELSE queue[x]
  BY <1>13 DEF QueueInv, TypeOK, HostTypeOK
<1>15. BeginsInLine' /\ SettingUp'
  BY <1>4, <1>13, <1>14 DEF TimelineInv, BeginsInLine, SettingUp
<1>16. EventsApart'
  BY <1>3, <1>4, <1>13, EventsKept DEF TimelineInv
<1> QED
  BY <1>12, <1>15, <1>16 DEF TimelineInv

\* A piece, with the release it may still lack.
LEMMA HandedRises ==
    ASSUME NEW piece \in Split, NEW s \in Streams, NEW lo \in Nat,
           Stretch(piece.buf, s, lo, Top(piece))
    PROVE  /\ Handed(piece, s) \in Seq(Command)
           /\ Stretch(Handed(piece, s), s, lo, piece.timelineCtr)
<1>1. PICK n \in Nat : n = piece.timelineCtr
  BY CounterIsNat DEF Split
<1>2. PICK a \in Seq(Command) : a = piece.buf
  BY DEF Split
<1>3. CASE ~piece.timelineNotifyPending
  BY <1>1, <1>2, <1>3 DEF Handed, Top
<1>4. CASE piece.timelineNotifyPending
  <2>1. PICK cmd : cmd = [kind |-> "release", sig |-> Timeline(s), payload |-> n]
    OBVIOUS
  <2>2. /\ cmd \in Command /\ cmd.kind = "release" /\ cmd.sig = Timeline(s)
        /\ cmd.payload = n
    BY <2>1, CommandTypes, TimelineIsSignal
  <2>3. Handed(piece, s) = Append(a, cmd)
    BY <1>1, <1>2, <1>4, <2>1 DEF Handed
  <2>4. PICK top \in Int : top = Top(piece) /\ top < n
    BY <1>1, <1>4 DEF Top
  <2>5. Stretch(a, s, lo, top) /\ lo \in Int
    BY <1>2, <2>4
  <2>6. Stretch(Append(a, cmd), s, lo, n)
    BY <2>2, <2>4, <2>5, ReleaseAppended
  <2>7. Append(a, cmd) \in Seq(Command)
    BY <2>2
  <2> QED
    BY <1>1, <2>3, <2>6, <2>7
<1> QED
  BY <1>3, <1>4

LEMMA LoadedKeepsRest ==
    ASSUME NEW s \in Streams, queue[s] \in NvCommandQueue, NEW piece \in Split
    PROVE  /\ Loaded(s, piece).timelineNotifyPending = queue[s].timelineNotifyPending
           /\ Loaded(s, piece).freeSignals = queue[s].freeSignals
<1>1. PICK l : l = [queue[s] EXCEPT !.buf[piece.type] = piece.buf]
  OBVIOUS
<1>2. /\ l.timelineNotifyPending = queue[s].timelineNotifyPending
      /\ l.freeSignals = queue[s].freeSignals
      /\ {"buf", "timelineNotifyPending", "freeSignals"} \subseteq DOMAIN l
  BY <1>1 DEF NvCommandQueue
<1>3. Loaded(s, piece) = l \/ \E sig, n, t : Loaded(s, piece) = SignalNotify(l, sig, n, t)
  BY <1>1 DEF Loaded
<1>4. \A sig, n, t : /\ SignalNotify(l, sig, n, t).timelineNotifyPending = l.timelineNotifyPending
                     /\ SignalNotify(l, sig, n, t).freeSignals = l.freeSignals
  BY <1>2 DEF SignalNotify, Enqueue
<1> QED
  BY <1>2, <1>3, <1>4

\* The e-th piece of q has been handed over, up to its counter.
LEMMA PlayedRises ==
    ASSUME NEW q \in NvCommandQueue, NEW r \in NvCommandQueue, NEW s,
           NEW e \in DOMAIN q.backlog, NEW lo \in Nat, QueueRises(q, s, e, lo),
           r.backlog = q.backlog, r.buf = q.buf, r.timelineCtr = q.timelineCtr,
           r.timelineNotifyPending = q.timelineNotifyPending
    PROVE  QueueRises(r, s, e + 1, q.backlog[e].timelineCtr)
<1>1. PICK k, hi : k = e + 1 /\ hi = q.backlog[e].timelineCtr
  OBVIOUS
<1>2. /\ e \in Nat /\ Len(q.backlog) \in Nat /\ e <= Len(q.backlog)
      /\ DOMAIN q.backlog = 1..Len(q.backlog)
  BY QueueFields
<1>3. \A j \in k..Rest(q) : Floor(r, k, hi, j) = Floor(q, e, lo, j)
  BY <1>1, <1>2 DEF Floor, Rest
<1>4. Top(r) = Top(q) /\ Rest(r) = Rest(q) /\ Rest(q) \in k..Rest(q)
  BY <1>1, <1>2 DEF Top, Rest
<1>5. \A j \in k..Len(r.backlog) : j \in k..Rest(q) /\ j \in e..Len(q.backlog)
  BY <1>1, <1>2 DEF Rest
<1>6. \A j \in k..Len(r.backlog) :
          Stretch(r.backlog[j].buf, s, Floor(r, k, hi, j), Top(r.backlog[j]))
  BY <1>3, <1>5 DEF QueueRises
<1>7. \A t \in QueueTypes : Stretch(r.buf[t], s, Floor(r, k, hi, Rest(r)), Top(r))
  BY <1>3, <1>4 DEF QueueRises
<1>8. hi <= r.timelineCtr /\ \A j \in DOMAIN r.backlog : r.backlog[j].timelineCtr <= r.timelineCtr
  BY <1>1 DEF QueueRises
<1>9. QueueRises(r, s, k, hi)
  BY <1>6, <1>7, <1>8 DEF QueueRises
<1> QED
  BY <1>1, <1>9

LEMMA SubmitEntryKeepsTimeline ==
    ASSUME QueueInv, OrderInv, TimelineInv, SubmitEntry
    PROVE  TimelineInv' /\ value' = value
<1>1. PICK s, e : s = cpu.stream /\ e = cpu.entry
  OBVIOUS
<1>2. PICK p : p = queue[s]
  OBVIOUS
<1>3. cpu.at = "submit"
  BY DEF SubmitEntry
<1>4. /\ s \in Streams /\ p \in NvCommandQueue
      /\ e \in 1..Len(p.backlog) /\ e \in Nat \ {0} /\ e \in DOMAIN p.backlog
      /\ \A i \in 1..Len(p.backlog) : p.backlog[i] \in Split
      /\ \A x \in Streams \ {s} : Cursor(x) = 1 /\ Expected(x) = 0
      /\ \A u \in QueueTypes : p.buf[u] = <<>>
  <2>1. Playing(issued, p, s, e)
    BY <1>1, <1>2, <1>3, PlayedQueue
  <2> QED
    BY <2>1, QueueFields DEF Playing
<1>5. PICK piece \in Split : piece = p.backlog[e]
  BY <1>4
<1>6. PICK t \in QueueTypes : t = piece.type
  BY <1>5, SplitFields
<1>7. PICK q : q = Loaded(s, piece)
  OBVIOUS
<1>8. PICK r : r = [q EXCEPT !.buf[t] = <<>>]
  OBVIOUS
<1>9. PICK b : b = Handed(piece, s)
  OBVIOUS
<1>10. /\ q \in NvCommandQueue /\ q.buf[t] = b /\ q.buf[Other(t)] = <<>>
       /\ q.backlog = p.backlog /\ q.timelineCtr = p.timelineCtr
  BY <1>1, <1>2, <1>3, <1>4, <1>5, <1>6, <1>7, <1>9, LoadedFields
<1>11. /\ q.timelineNotifyPending = p.timelineNotifyPending
       /\ q.freeSignals = p.freeSignals
  BY <1>2, <1>4, <1>5, <1>7, LoadedKeepsRest
<1>12. /\ fifo' = [fifo EXCEPT ![t] = fifo[t] \o b]
       /\ queue' = [queue EXCEPT ![s] = r]
       /\ cpu' = [cpu EXCEPT !.at = "wait"]
       /\ UNCHANGED <<value, unawaited, events>>
  BY <1>1, <1>2, <1>5, <1>6, <1>7, <1>8, <1>10 DEF SubmitEntry, SubmitToFifo
<1>13. cpu'.at = "wait" /\ cpu'.stream = s /\ cpu'.entry = e
  BY <1>1, <1>3, <1>12 DEF QueueInv, TypeOK, HostTypeOK, CpuState, Idle
<1>14. /\ Cursor(s) = e /\ Cursor(s)' = e + 1 /\ Expected(s)' = e
       /\ \A x \in Streams \ {s} : Cursor(x)' = Cursor(x) /\ Expected(x)' = Expected(x)
  BY <1>1, <1>3, <1>4, <1>13 DEF Cursor, Expected
<1>15. /\ r \in NvCommandQueue /\ r.backlog = p.backlog /\ r.timelineCtr = p.timelineCtr
       /\ r.timelineNotifyPending = p.timelineNotifyPending
       /\ r.freeSignals = p.freeSignals /\ r.buf = p.buf
  <2>1. PICK buf : buf = [q.buf EXCEPT ![t] = <<>>]
    OBVIOUS
  <2>2. buf \in [QueueTypes -> Seq(Command)] /\ \A u \in QueueTypes : buf[u] = <<>>
    BY <1>10, <2>1, EmptySound DEF NvCommandQueue, Other, QueueTypes
  <2>3. r = [q EXCEPT !.buf = buf]
    BY <1>8, <1>10, <2>1 DEF NvCommandQueue
  <2>4. buf = p.buf
    BY <1>4, <2>2 DEF NvCommandQueue
  <2> QED
    BY <1>10, <1>11, <2>2, <2>3, <2>4 DEF NvCommandQueue
<1>16. PICK lo \in Nat : Flows(s, lo)
  BY <1>4 DEF TimelineInv, TimelinesRise
<1>17. PICK hi \in Nat : hi = piece.timelineCtr
  BY <1>5, CounterIsNat DEF Split
<1>18. QueueRises(p, s, e, lo)
  BY <1>2, <1>14, <1>16 DEF Flows
<1>19. b \in Seq(Command) /\ Stretch(b, s, lo, hi)
  <2>1. Stretch(piece.buf, s, lo, Top(piece))
    BY <1>4, <1>5, <1>18 DEF QueueRises, Floor
  <2> QED
    BY <1>4, <1>5, <1>9, <1>17, <2>1, HandedRises
<1>20. TimelinesRise'
  <2>1. QueueRises(r, s, e + 1, hi)
    BY <1>4, <1>5, <1>15, <1>17, <1>18, PlayedRises
  <2>2. QueueRises(r, s, Cursor(s)', hi)
    BY <1>14, <2>1
  <2>3. Expected(s)' # 0 => hi = r.backlog[Expected(s)'].timelineCtr
    BY <1>5, <1>14, <1>15, <1>17
  <2>4. /\ fifo' = [fifo EXCEPT ![t] = fifo[t] \o b]
        /\ queue' = [queue EXCEPT ![s] = r] /\ value' = value /\ TimelinesRise
    BY <1>12 DEF TimelineInv
  <2> QED
    BY <1>4, <1>14, <1>16, <1>19, <2>2, <2>3, <2>4, SubmittedFlows
<1>21. \A x \in Streams : queue'[x] = IF x = s THEN r ELSE queue[x]
  BY <1>12 DEF QueueInv, TypeOK, HostTypeOK
<1>22. InLines'
  <2>1. Lines(s)' = {t} /\ \A x \in Streams \ {s} : Lines(x)' = Lines(x)
    <3>1. queue'[s].backlog[cpu'.entry].type = t
      BY <1>4, <1>5, <1>6, <1>13, <1>15, <1>21
    <3> QED
      BY <1>1, <1>3, <1>12, <1>13, <3>1 DEF Lines
  <2>2. Lines(s) \subseteq {t}
    <3>1. CASE e = 1
      BY <1>1, <1>2, <1>3, <1>4, <1>5, <1>6, <3>1 DEF Lines, TimelineInv, BeginsInLine
    <3>2. CASE e # 1
      BY <1>1, <1>3, <3>2 DEF Lines
    <3> QED
      BY <3>1, <3>2
  <2>3. \A c \in QueueTypes : Notes(fifo[c], s) => c \in Lines(s)'
    BY <1>4, <2>1, <2>2 DEF TimelineInv, InLines
  <2>4. InLines /\ lo \in Int /\ hi \in Int /\ fifo' = [fifo EXCEPT ![t] = fifo[t] \o b]
    BY <1>12 DEF TimelineInv
  <2> QED
    BY <1>4, <1>19, <2>1, <2>3, <2>4, SubmittedLines
<1>23. BeginsInLine' /\ SettingUp'
  BY <1>2, <1>12, <1>13, <1>15, <1>21 DEF TimelineInv, BeginsInLine, SettingUp
<1>24. EventsApart'
  BY <1>2, <1>4, <1>12, <1>15, EventsKept DEF TimelineInv
<1> QED
  BY <1>12, <1>20, <1>22, <1>23, <1>24 DEF TimelineInv

\* The CPU has seen the timeline of s reach lo: the channels have nothing of s.
LEMMA SeenKeepsTimeline ==
    ASSUME QueueInv, TimelineInv, NEW s \in Streams, NEW r, NEW lo \in Nat,
           Flows(s, lo), value[Timeline(s)] >= lo,
           queue' = [queue EXCEPT ![s] = r], UNCHANGED <<gpuVars, events>>,
           QueueRises(r, s, Cursor(s)', lo), Expected(s)' = 0,
           r.freeSignals = queue[s].freeSignals,
           r.backlog # <<>> => unawaited'[s] \subseteq {r.backlog[1].type},
           cpu'.at # "initCompute",
           \A x \in Streams \ {s} :
              /\ Cursor(x)' = Cursor(x) /\ Expected(x)' = Expected(x)
              /\ Lines(x)' = Lines(x) /\ unawaited'[x] = unawaited[x]
    PROVE  TimelineInv'
<1>1. /\ \A x \in Streams : queue'[x] = IF x = s THEN r ELSE queue[x]
      /\ UNCHANGED <<fifo, value>>
  BY DEF QueueInv, TypeOK, HostTypeOK, gpuVars
<1>2. ASSUME NEW x \in Streams PROVE \E n \in Nat : Flows(x, n)'
  <2>1. CASE x = s
    <3>1. PICK n : n = lo
      OBVIOUS
    <3>2. QueueRises(queue'[s], s, Cursor(s)', n)
      BY <1>1, <3>1
    <3>3. Flows(s, n)'
      BY <1>1, <3>1, <3>2 DEF Flows
    <3> QED
      BY <2>1, <3>1, <3>3
  <2>2. CASE x # s
    <3>1. PICK n \in Nat : Flows(x, n)
      BY DEF TimelineInv, TimelinesRise
    <3>2. Flows(x, n)'
      BY <1>1, <2>2, <3>1 DEF Flows
    <3> QED
      BY <3>2
  <2> QED
    BY <2>1, <2>2
<1>3. TimelinesRise'
  BY <1>2 DEF TimelinesRise
<1>4. \A c \in QueueTypes : ~Notes(fifo[c], s)
  BY ReachedEmpty
<1>5. InLines'
  BY <1>1, <1>4 DEF TimelineInv, InLines, Notes
<1>6. BeginsInLine' /\ SettingUp'
  BY <1>1 DEF TimelineInv, BeginsInLine, SettingUp
<1>7. EventsApart'
  BY EventsKept DEF TimelineInv
<1> QED
  BY <1>3, <1>5, <1>6, <1>7 DEF TimelineInv

LEMMA InitDmaEndsTimeline ==
    ASSUME QueueInv, OrderInv, TimelineInv, cpu.at = "initDma", SignalReached(cpu.stream),
           UNCHANGED <<gpuVars, queue, unawaited, events>>, cpu' = Idle
    PROVE  TimelineInv'
<1>1. PICK s \in Streams : s = cpu.stream
  BY CpuFields DEF QueueInv, TypeOK
<1>2. PICK q : q = queue[s]
  OBVIOUS
<1>3. q \in NvCommandQueue /\ q.timelineCtr \in Nat /\ value[Timeline(s)] \in Nat
      /\ queue' = [queue EXCEPT ![s] = q]
  BY <1>2, QueueFields, TimelineIsSignal DEF QueueInv, TypeOK, HostTypeOK, GpuTypeOK
<1>4. PICK lo \in Nat : Flows(s, lo)
  BY DEF TimelineInv, TimelinesRise
<1>5. /\ \A x : Cursor(x) = 1 /\ Expected(x) = 0 /\ Cursor(x)' = 1 /\ Expected(x)' = 0
      /\ \A x \in Streams \ {s} : Lines(x)' = Lines(x)
  BY <1>1 DEF Cursor, Expected, Lines, Idle
<1>6. QueueRises(q, s, Cursor(s)', lo) /\ lo <= q.timelineCtr
  BY <1>2, <1>4, <1>5 DEF Flows, QueueRises
<1>7. value[Timeline(s)] >= lo
  BY <1>1, <1>2, <1>3, <1>6 DEF SignalReached
<1>8. q.backlog = <<>>
  BY <1>1, <1>2 DEF OrderInv, CountersSound, InUse
<1>9. cpu'.at # "initCompute"
  BY DEF Idle
<1> QED
  BY <1>2, <1>3, <1>4, <1>5, <1>6, <1>7, <1>8, <1>9, SeenKeepsTimeline

LEMMA AwaitReturnsKeepsTimeline ==
    ASSUME QueueInv, TimelineInv, AwaitReturns
    PROVE  TimelineInv'
<1>1. PICK s \in Streams : s = cpu.stream
  BY CpuFields DEF QueueInv, TypeOK, AwaitReturns
<1>2. PICK q : q = queue[s]
  OBVIOUS
<1>3. PICK r : r = [q EXCEPT !.kernArgsWriteIdx = 0]
  OBVIOUS
<1>4. /\ cpu.at = "await" /\ value[Timeline(s)] >= q.timelineCtr
      /\ queue' = [queue EXCEPT ![s] = r]
      /\ unawaited' = [unawaited EXCEPT ![s] = {}]
      /\ cpu' = Idle /\ UNCHANGED <<gpuVars, events>>
  BY <1>1, <1>2, <1>3 DEF AwaitReturns, SignalReached
<1>5. q \in NvCommandQueue /\ q.timelineCtr \in Nat /\ value[Timeline(s)] \in Nat
  BY <1>2, QueueFields, TimelineIsSignal DEF QueueInv, TypeOK, HostTypeOK, GpuTypeOK
<1>6. /\ r.buf = q.buf /\ r.backlog = q.backlog /\ r.timelineCtr = q.timelineCtr
      /\ r.timelineNotifyPending = q.timelineNotifyPending
      /\ r.freeSignals = q.freeSignals
  BY <1>3, <1>5 DEF NvCommandQueue
<1>7. PICK lo \in Nat : Flows(s, lo)
  BY DEF TimelineInv, TimelinesRise
<1>8. /\ \A x \in Streams : unawaited'[x] = IF x = s THEN {} ELSE unawaited[x]
  BY <1>4 DEF QueueInv, TypeOK, HostTypeOK
<1>9. /\ \A x : Cursor(x) = 1 /\ Expected(x) = 0 /\ Cursor(x)' = 1 /\ Expected(x)' = 0
      /\ \A x \in Streams \ {s} : Lines(x)' = Lines(x)
      /\ cpu'.at # "initCompute"
  BY <1>4, <1>8 DEF Cursor, Expected, Lines, Idle
<1>10. QueueRises(q, s, 1, lo) /\ lo <= q.timelineCtr
  BY <1>2, <1>7, <1>9 DEF Flows, QueueRises
<1>11. QueueRises(r, s, 1, lo)
  BY <1>6, <1>10 DEF QueueRises, Floor, Rest, Top
<1>12. QueueRises(r, s, Cursor(s)', lo)
  BY <1>9, <1>11
<1>13. value[Timeline(s)] >= lo
  BY <1>4, <1>5, <1>10
<1>14. r.backlog # <<>> => unawaited'[s] \subseteq {r.backlog[1].type}
  BY <1>8
<1> QED
  BY <1>2, <1>4, <1>6, <1>7, <1>8, <1>9, <1>12, <1>13, <1>14, SeenKeepsTimeline

\* The CPU has seen a piece complete, and goes on.
LEMMA NextEntryKeepsTimeline ==
    ASSUME QueueInv, OrderInv, TimelineInv, NextEntry \/ CommenceReturns
    PROVE  TimelineInv'
<1>1. PICK s, e : s = cpu.stream /\ e = cpu.entry
  OBVIOUS
<1>2. PICK q : q = queue[s]
  OBVIOUS
<1>3. /\ cpu.at = "wait" /\ value[Timeline(s)] >= q.backlog[e].timelineCtr
      /\ UNCHANGED <<gpuVars, events>>
  BY <1>1, <1>2 DEF NextEntry, CommenceReturns, EntryReached
<1>4. /\ s \in Streams /\ q \in NvCommandQueue /\ e \in Nat \ {0}
      /\ e \in DOMAIN q.backlog /\ e <= Len(q.backlog) /\ Len(q.backlog) \in Nat
      /\ \A x \in Streams \ {s} : Cursor(x) = 1 /\ Expected(x) = 0
  <2>1. Playing(issued, q, s, e)
    BY <1>1, <1>2, <1>3, PlayedQueue
  <2> QED
    BY <2>1, QueueFields DEF Playing
<1>5. PICK lo \in Nat : Flows(s, lo)
  BY <1>4 DEF TimelineInv, TimelinesRise
<1>6. Cursor(s) = e + 1 /\ Expected(s) = e
  BY <1>1, <1>3 DEF Cursor, Expected
<1>7. /\ QueueRises(q, s, e + 1, lo) /\ lo = q.backlog[e].timelineCtr
      /\ value[Timeline(s)] >= lo
  BY <1>2, <1>3, <1>4, <1>5, <1>6 DEF Flows
<1>8. CASE NextEntry
  <2>1. /\ cpu' = [cpu EXCEPT !.at = "submit", !.entry = e + 1]
        /\ UNCHANGED <<queue, unawaited>> /\ queue' = [queue EXCEPT ![s] = q]
    BY <1>1, <1>2, <1>4, <1>8 DEF NextEntry, QueueInv, TypeOK, HostTypeOK
  <2>2. cpu'.at = "submit" /\ cpu'.stream = s /\ cpu'.entry = e + 1
    BY <1>1, <1>3, <2>1 DEF QueueInv, TypeOK, HostTypeOK, CpuState, Idle
  <2>3. /\ Cursor(s)' = e + 1 /\ Expected(s)' = 0
        /\ \A x \in Streams \ {s} : /\ Cursor(x)' = Cursor(x) /\ Expected(x)' = Expected(x)
                                    /\ Lines(x)' = Lines(x)
    BY <1>1, <1>3, <1>4, <2>1, <2>2 DEF Cursor, Expected, Lines
  <2>4. QueueRises(q, s, Cursor(s)', lo)
    BY <1>7, <2>3
  <2>5. q.backlog # <<>> => unawaited'[s] \subseteq {q.backlog[1].type}
    BY <1>2, <1>4, <2>1 DEF TimelineInv, BeginsInLine
  <2>6. /\ cpu'.at # "initCompute" /\ q.freeSignals = queue[s].freeSignals
        /\ \A x \in Streams \ {s} : unawaited'[x] = unawaited[x]
        /\ queue' = [queue EXCEPT ![s] = q]
    BY <1>2, <2>1, <2>2
  <2> QED
    BY <1>3, <1>4, <1>5, <1>7, <2>3, <2>4, <2>5, <2>6, SeenKeepsTimeline
<1>9. CASE CommenceReturns
  <2>1. PICK r : r = [q EXCEPT !.backlog = <<>>]
    OBVIOUS
  <2>2. /\ e = Len(q.backlog) /\ queue' = [queue EXCEPT ![s] = r]
        /\ unawaited' = [unawaited EXCEPT ![s] = {}] /\ cpu' = Idle
    BY <1>1, <1>2, <1>9, <2>1 DEF CommenceReturns
  <2>3. /\ r.buf = q.buf /\ r.backlog = <<>> /\ r.timelineCtr = q.timelineCtr
        /\ r.timelineNotifyPending = q.timelineNotifyPending
        /\ r.freeSignals = q.freeSignals
    BY <1>4, <2>1 DEF NvCommandQueue
  <2>4. \A x \in Streams : unawaited'[x] = IF x = s THEN {} ELSE unawaited[x]
    BY <2>2 DEF QueueInv, TypeOK, HostTypeOK
  <2>5. /\ Cursor(s)' = 1 /\ Expected(s)' = 0 /\ cpu'.at # "initCompute"
        /\ \A x \in Streams \ {s} : /\ Cursor(x)' = Cursor(x) /\ Expected(x)' = Expected(x)
                                    /\ Lines(x)' = Lines(x)
    BY <1>1, <1>3, <1>4, <2>2, <2>4 DEF Cursor, Expected, Lines, Idle
  <2>6. QueueRises(r, s, 1, lo)
    <3>1. Rest(q) = e + 1 /\ Rest(r) = 1 /\ Top(r) = Top(q)
      BY <2>2, <2>3 DEF Rest, Top
    <3>2. \A t \in QueueTypes : Stretch(q.buf[t], s, lo, Top(q))
      BY <1>7, <3>1 DEF QueueRises, Floor
    <3> QED
      BY <1>7, <2>3, <3>1, <3>2 DEF QueueRises, Floor
  <2>7. QueueRises(r, s, Cursor(s)', lo)
    BY <2>5, <2>6
  <2> QED
    BY <1>2, <1>3, <1>4, <1>5, <1>7, <2>2, <2>3, <2>4, <2>5, <2>7, SeenKeepsTimeline
<1> QED
  BY <1>8, <1>9

\* Steps of the CPU that are about none of the queues.
LEMMA QuietKeepsTimeline ==
    ASSUME QueueInv, TimelineInv, UNCHANGED <<gpuVars, queue, unawaited>>,
           cpu.at \notin {"initCompute", "initDma", "submit", "wait"},
           cpu'.at \notin {"initCompute", "initDma", "submit", "wait"},
           \A e \in Events : /\ events'[e].computeSignal \in {NULL, events[e].computeSignal}
                             /\ events'[e].dmaSignal \in {NULL, events[e].dmaSignal}
    PROVE  TimelineInv'
<1>1. /\ \A x : Cursor(x)' = Cursor(x) /\ Expected(x)' = Expected(x)
      /\ \A x : Lines(x)' = Lines(x)
      /\ UNCHANGED <<fifo, value>>
  BY DEF Cursor, Expected, Lines, gpuVars
<1>2. TimelinesRise'
  BY <1>1 DEF TimelineInv, TimelinesRise, Flows
<1>3. InLines' /\ BeginsInLine' /\ SettingUp'
  BY <1>1 DEF TimelineInv, InLines, BeginsInLine, SettingUp
<1>4. EventsApart'
  <2>1. \A s \in Streams : Timeline(s) # NULL
    BY TimelineIsSignal, StreamAssumption
  <2> QED
    BY <2>1 DEF TimelineInv, EventsApart
<1> QED
  BY <1>2, <1>3, <1>4 DEF TimelineInv

LEMMA StutterKeepsTimeline ==
    ASSUME TimelineInv, UNCHANGED vars
    PROVE  TimelineInv'
<1>1. UNCHANGED <<fifo, value, queue, unawaited, cpu, events>>
  BY DEF vars, gpuVars, hostVars
<1>2. \A x : Cursor(x)' = Cursor(x) /\ Expected(x)' = Expected(x) /\ Lines(x)' = Lines(x)
  BY <1>1 DEF Cursor, Expected, Lines
<1>3. TimelinesRise'
  BY <1>1, <1>2 DEF TimelineInv, TimelinesRise, Flows
<1> QED
  BY <1>1, <1>2, <1>3 DEF TimelineInv, InLines, BeginsInLine, SettingUp, EventsApart

LEMMA CallKeepsTimelines ==
    ASSUME Orderly, QueueInv, OrderInv, Unborn, TimelineInv, NEW s \in Streams, Call(s)
    PROVE  TimelineInv' /\ value' = value
<1>1. CASE StreamCreate(s)
  BY <1>1, StreamCreateKeepsTimeline
<1>2. CASE StreamCreateFails(s)
  <2>1. UNCHANGED <<gpuVars, queue, unawaited, events>> /\ cpu' = Idle /\ value' = value
    BY <1>2 DEF StreamCreateFails, gpuVars
  <2>2. CASE cpu = Idle
    BY <2>1, <2>2, QuietKeepsTimeline DEF Idle
  <2>3. CASE cpu = [at |-> "initDma", stream |-> s] /\ SignalReached(s)
    <3>1. cpu.at = "initDma" /\ SignalReached(cpu.stream)
      BY <2>3
    <3> QED
      BY <2>1, <3>1, InitDmaEndsTimeline
  <2> QED
    BY <1>2, <2>1, <2>2, <2>3 DEF StreamCreateFails
<1>3. CASE StreamDestroy(s) \/ Await(s)
  BY <1>3, QuietKeepsTimeline DEF StreamDestroy, Await, Ready, Idle, gpuVars
<1>4. ASSUME NEW e \in Events, RecordEventFails(e, s) PROVE TimelineInv' /\ value' = value
  <2>1. /\ cpu.at = "idle" /\ UNCHANGED <<gpuVars, queue, unawaited, cpu, value>>
        /\ events' = [events EXCEPT ![e] = [events[e] EXCEPT !.stream = s]]
    BY <1>4 DEF RecordEventFails, Ready, Idle, gpuVars
  <2>2. \A d \in Events : /\ events'[d].computeSignal = events[d].computeSignal
                          /\ events'[d].dmaSignal = events[d].dmaSignal
    BY <2>1 DEF QueueInv, TypeOK, HostTypeOK, LibreCUEvent
  <2> QED
    BY <2>1, <2>2, QuietKeepsTimeline
<1>5. CASE \E e \in Events : RecordEvent(e, s)
  BY <1>5, RecordEventKeepsTimeline DEF RecordEvent, gpuVars
<1>6. ASSUME NEW f \in Funcs, NEW async \in BOOLEAN, LaunchFunction(s, f, async)
      PROVE  TimelineInv' /\ value' = value
  <2>1. value' = value
    BY <1>6 DEF LaunchFunction, gpuVars
  <2> QED
    BY <1>6, <2>1, LaunchKeepsTimeline
<1>7. ASSUME NEW f \in Funcs, NEW async \in BOOLEAN,
             LaunchFailsLocalMem(s, f) \/ LaunchFailsLate(s, f, async)
      PROVE  TimelineInv' /\ value' = value
  <2>1. value' = value
    BY <1>7 DEF LaunchFailsLocalMem, LaunchFailsLate, gpuVars
  <2> QED
    BY <1>7, <2>1, LaunchFailsKeepsTimeline
<1>8. ASSUME NEW async \in BOOLEAN, GpuMemcpy(s, async)
      PROVE  TimelineInv' /\ value' = value
  <2>1. value' = value
    BY <1>8 DEF GpuMemcpy, gpuVars
  <2> QED
    BY <1>8, <2>1, GpuMemcpyKeepsTimeline
<1>9. CASE Commence(s)
  BY <1>9, CommenceKeepsTimeline DEF Commence, SubmitToFifo
<1>10. CASE CommenceBacklog(s)
  BY <1>10, CommenceBacklogKeepsTimeline DEF CommenceBacklog, gpuVars
<1>11. CASE CommenceFails(s)
  BY <1>11 DEF CommenceFails, Orderly
<1>12. TRUE \in BOOLEAN
  OBVIOUS
<1> QED
  BY <1>1, <1>2, <1>3, <1>4, <1>5, <1>6, <1>7, <1>8, <1>9, <1>10, <1>11, <1>12 DEF Call

LEMMA TimelineStep ==
    ASSUME Orderly, StreamInv, Unborn, TimelineInv, [Next]_vars
    PROVE  TimelineInv' /\ TimelinesKept
<1>1. QueueInv /\ OrderInv
  BY DEF StreamInv
<1>2. CASE GpuStep
  BY <1>1, <1>2, GpuStepKeepsTimeline
<1>3. ASSUME TimelineInv', value' = value PROVE TimelineInv' /\ TimelinesKept
  BY <1>1, <1>3, SameValuesKept
<1>4. CASE InitComputeReturns \/ SubmitEntry
  BY <1>1, <1>3, <1>4, InitComputeReturnsKeepsTimeline, SubmitEntryKeepsTimeline
<1>5. CASE InitDmaReturns
  BY <1>1, <1>3, <1>5, InitDmaEndsTimeline DEF InitDmaReturns, gpuVars
<1>6. CASE NextEntry \/ CommenceReturns
  BY <1>1, <1>3, <1>6, NextEntryKeepsTimeline DEF NextEntry, CommenceReturns, gpuVars
<1>7. CASE AwaitReturns
  BY <1>1, <1>3, <1>7, AwaitReturnsKeepsTimeline DEF AwaitReturns, gpuVars
<1>8. CASE EventSynchronizeReturns
  <2>1. /\ cpu.at = "waitEvent" /\ cpu' = Idle
        /\ UNCHANGED <<gpuVars, queue, unawaited, events, value>>
    BY <1>8 DEF EventSynchronizeReturns, gpuVars
  <2> QED
    BY <1>1, <1>3, <2>1, QuietKeepsTimeline DEF Idle
<1>9. ASSUME NEW e \in Events, EventSynchronize(e) PROVE TimelineInv' /\ TimelinesKept
  <2>1. /\ cpu = Idle /\ cpu' = [at |-> "waitEvent", event |-> e]
        /\ UNCHANGED <<gpuVars, queue, unawaited, events, value>>
    BY <1>9 DEF EventSynchronize, gpuVars
  <2> QED
    BY <1>1, <1>3, <2>1, QuietKeepsTimeline DEF Idle
<1>10. ASSUME NEW e \in Events, EventDestroy(e) PROVE TimelineInv' /\ TimelinesKept
  <2>1. /\ cpu = Idle /\ events' = [events EXCEPT ![e] = NewEvent]
        /\ UNCHANGED <<gpuVars, queue, unawaited, cpu, value>>
    BY <1>10 DEF EventDestroy, gpuVars
  <2>2. \A d \in Events : /\ events'[d].computeSignal \in {NULL, events[d].computeSignal}
                          /\ events'[d].dmaSignal \in {NULL, events[d].dmaSignal}
    BY <1>1, <2>1 DEF NewEvent, QueueInv, TypeOK, HostTypeOK
  <2> QED
    BY <1>1, <1>3, <2>1, <2>2, QuietKeepsTimeline DEF Idle
<1>11. CASE SubmitEntryFails
  BY <1>11 DEF SubmitEntryFails, Orderly
<1>12. CASE \E s \in Streams : Call(s)
  BY <1>1, <1>3, <1>12, CallKeepsTimelines
<1>13. CASE Exit \/ UNCHANGED vars
  <2>1. UNCHANGED vars
    BY <1>13 DEF Exit
  <2> QED
    BY <1>3, <2>1, StutterKeepsTimeline DEF vars, gpuVars
<1> QED
  BY <1>2, <1>4, <1>5, <1>6, <1>7, <1>8, <1>9, <1>10, <1>11, <1>12, <1>13 DEF Next, Return

LEMMA TimelineInit == Init => TimelineInv
<1> SUFFICES ASSUME Init PROVE TimelineInv
  OBVIOUS
<1>1. cpu.at = "idle" /\ \A x : Cursor(x) = 1 /\ Expected(x) = 0
  BY DEF Init, Idle, Cursor, Expected
<1>2. ASSUME NEW s \in Streams
      PROVE  /\ Flows(s, 0) /\ queue[s].backlog = <<>>
             /\ \A i \in DOMAIN queue[s].freeSignals : queue[s].freeSignals[i] # 0
  <2>1. PICK q : q = queue[s]
    OBVIOUS
  <2>2. q = NewQueue(s, "OTHER") /\ q \in NvCommandQueue /\ \A t \in QueueTypes : q.buf[t] = <<>>
    BY <2>1, NewQueueTakes DEF Init
  <2>3. /\ q.backlog = <<>> /\ q.timelineCtr = 0 /\ ~q.timelineNotifyPending
        /\ q.freeSignals = [i \in 1..(PoolSize - 1) |-> i]
    BY <2>2 DEF NewQueue
  <2>4. QueueRises(q, s, 1, 0)
    BY <2>2, <2>3, EmptiedRises
  <2>5. value[Timeline(s)] = 0 /\ \A c \in QueueTypes : fifo[c] = <<>>
    BY TimelineIsSignal DEF Init, GpuInit
  <2>6. \A c \in QueueTypes : Rises(fifo[c], s, value[Timeline(s)], 0)
    BY <2>5 DEF Rises
  <2>7. Flows(s, 0)
    <3>1. PICK n : n = 0
      OBVIOUS
    <3>2. QueueRises(queue[s], s, Cursor(s), n)
      BY <1>1, <2>1, <2>4, <3>1
    <3> QED
      BY <1>1, <2>6, <3>1, <3>2 DEF Flows
  <2> QED
    BY <2>1, <2>3, <2>7, StreamAssumption
<1>3. TimelinesRise
  BY <1>2 DEF TimelinesRise
<1>4. InLines
  BY DEF InLines, Notes, Elements, Init, GpuInit
<1>5. BeginsInLine /\ SettingUp
  BY <1>1, <1>2 DEF BeginsInLine, SettingUp
<1>6. EventsApart
  <2>1. \A s \in Streams : Timeline(s) # NULL
    BY TimelineIsSignal, StreamAssumption
  <2> QED
    BY <1>2, <2>1 DEF EventsApart, Init, NewEvent
<1> QED
  BY <1>3, <1>4, <1>5, <1>6 DEF TimelineInv

-----------------------------------------------------------------------------
(* What the timelines promise.                                             *)

LEMMA TimelineInvariant ==
    Orderly => (Spec => [](StreamInv /\ Unborn /\ TimelineInv))
<1> SUFFICES ASSUME Orderly PROVE Spec => [](StreamInv /\ Unborn /\ TimelineInv)
  OBVIOUS
<1>1. Init => StreamInv /\ Unborn /\ TimelineInv
  BY StreamInvInit, ArgsInit, TimelineInit
<1>2. StreamInv /\ Unborn /\ TimelineInv /\ [Next]_vars
         => StreamInv' /\ Unborn' /\ TimelineInv'
  <2> SUFFICES ASSUME StreamInv, Unborn, TimelineInv, [Next]_vars
               PROVE  StreamInv' /\ Unborn' /\ TimelineInv'
    OBVIOUS
  <2>1. QueueInv /\ CountersSound
    BY DEF StreamInv, OrderInv
  <2> QED
    BY <2>1, StreamInvStep, UnbornStep, TimelineStep
<1> QED
  BY <1>1, <1>2, PTL DEF Spec

\* In an orderly program the timeline signal of a stream only moves forward:
\* whichever channel a release comes from, it lands above the last one, so that
\* a wait for a counter the signal has reached is never undone
\* (TimelineAdvances; signalNotify and startExecution, cmdqueue.cpp:788-868).
THEOREM TimelineNeverGoesBack == Orderly => (Spec => TimelineAdvances)
<1> SUFFICES ASSUME Orderly PROVE Spec => TimelineAdvances
  OBVIOUS
<1>1. StreamInv /\ Unborn /\ TimelineInv /\ [Next]_vars
         => [\A s \in Streams : value'[Timeline(s)] >= value[Timeline(s)]]_vars
  BY TimelineStep DEF TimelinesKept
<1>2. Spec => [](StreamInv /\ Unborn /\ TimelineInv)
  BY TimelineInvariant
<1> QED
  BY <1>1, <1>2, PTL DEF Spec, TimelineAdvances

-----------------------------------------------------------------------------
(* Destroyed streams.  A program that destroys a stream only when all of it *)
(* has been commenced and awaited leaves the GPU nothing of it.             *)

Gone == \A s \in Streams : state[s] = "destroyed" => unawaited[s] = {} /\ ~Batch(s)

\* A step that changes the queue of a stream that is in use.
LEMMA GoneKept ==
    ASSUME QueueInv, Gone, NEW s, NEW r, NEW u,
           s \in Streams => state[s] # "destroyed",
           \A x \in Streams : state'[x] = "destroyed" => state[x] = "destroyed",
           queue' = queue \/ queue' = [queue EXCEPT ![s] = r],
           unawaited' = unawaited \/ unawaited' = [unawaited EXCEPT ![s] = u]
    PROVE  Gone'
<1>1. \A x \in Streams : state'[x] = "destroyed" =>
          queue'[x] = queue[x] /\ unawaited'[x] = unawaited[x] /\ state[x] = "destroyed"
  BY DEF QueueInv, TypeOK, HostTypeOK
<1> QED
  BY <1>1 DEF Gone, Batch

LEMMA GoneStep ==
    ASSUME "await before destroy" \in ClientRules,
           QueueInv, CountersSound, Gone, [Next]_vars
    PROVE  Gone'
<1>1. /\ cpu.at \in {"initCompute", "initDma"} => state[cpu.stream] # "destroyed"
      /\ cpu.at \in {"submit", "wait", "await"} => state[cpu.stream] # "destroyed"
  BY DEF CountersSound
<1>2. ASSUME UNCHANGED <<queue, state, unawaited>> PROVE Gone'
  BY <1>2 DEF Gone, Batch
<1>3. CASE \/ GpuStep \/ UNCHANGED vars \/ Exit \/ NextEntry \/ EventSynchronizeReturns
           \/ \E e \in Events : EventSynchronize(e) \/ EventDestroy(e)
  BY <1>2, <1>3 DEF GpuStep, hostVars, vars, Exit, NextEntry, EventSynchronizeReturns,
                    EventSynchronize, EventDestroy
<1>4. CASE InitComputeReturns \/ SubmitEntry \/ SubmitEntryFails
  <2>1. \E r : queue' = [queue EXCEPT ![cpu.stream] = r]
    <3>1. CASE InitComputeReturns
      BY <3>1 DEF InitComputeReturns, SetUpChannel, SubmitToFifo
    <3>2. CASE SubmitEntry
      BY <3>2 DEF SubmitEntry, SubmitToFifo
    <3>3. CASE SubmitEntryFails
      BY <3>3 DEF SubmitEntryFails
    <3> QED
      BY <1>4, <3>1, <3>2, <3>3
  <2>2. state' = state /\ unawaited' = unawaited /\ state[cpu.stream] # "destroyed"
    BY <1>1, <1>4 DEF InitComputeReturns, SubmitEntry, SubmitEntryFails
  <2> QED
    BY <2>1, <2>2, GoneKept
<1>5. CASE InitDmaReturns
  <2>1. UNCHANGED <<queue, unawaited>> /\ state' = [state EXCEPT ![cpu.stream] = "alive"]
    BY <1>5 DEF InitDmaReturns
  <2>2. \A x \in Streams : state'[x] = "destroyed" => state[x] = "destroyed"
    BY <2>1 DEF QueueInv, TypeOK, HostTypeOK
  <2> QED
    BY <2>1, <2>2 DEF Gone, Batch
<1>6. CASE CommenceReturns \/ AwaitReturns
  <2>1. \E r : queue' = [queue EXCEPT ![cpu.stream] = r]
    <3>1. CASE CommenceReturns
      BY <3>1 DEF CommenceReturns
    <3>2. CASE AwaitReturns
      BY <3>2 DEF AwaitReturns
    <3> QED
      BY <1>6, <3>1, <3>2
  <2>2. state' = state /\ state[cpu.stream] # "destroyed"
        /\ unawaited' = [unawaited EXCEPT ![cpu.stream] = {}]
    BY <1>1, <1>6 DEF CommenceReturns, AwaitReturns, EntryReached
  <2> QED
    BY <2>1, <2>2, GoneKept
<1>7. ASSUME NEW s \in Streams, StreamCreate(s) PROVE Gone'
  <2>1. /\ state[s] = "none" /\ state' = [state EXCEPT ![s] = "creating"]
        /\ unawaited' = unawaited
    BY <1>7 DEF StreamCreate
  <2>2. \E r : queue' = [queue EXCEPT ![s] = r]
    BY <1>7 DEF StreamCreate, SetUpChannel, SubmitToFifo
  <2>3. \A x \in Streams : state'[x] = "destroyed" => state[x] = "destroyed"
    BY <2>1 DEF QueueInv, TypeOK, HostTypeOK
  <2> QED
    BY <2>1, <2>2, <2>3, GoneKept
<1>8. ASSUME NEW s \in Streams, StreamCreateFails(s) PROVE Gone'
  <2>1. state' = [state EXCEPT ![s] = "failed"] /\ UNCHANGED <<queue, unawaited>>
    BY <1>8 DEF StreamCreateFails
  <2>2. \A x \in Streams : state'[x] = "destroyed" => state[x] = "destroyed"
    BY <2>1 DEF QueueInv, TypeOK, HostTypeOK
  <2> QED
    BY <2>1, <2>2 DEF Gone, Batch
<1>9. ASSUME NEW s \in Streams, StreamDestroy(s) PROVE Gone'
  <2>1. /\ state' = [state EXCEPT ![s] = "destroyed"] /\ UNCHANGED <<queue, unawaited>>
        /\ ~Batch(s) /\ unawaited[s] = {}
    BY <1>9 DEF StreamDestroy, MayDestroy
  <2>2. \A x \in Streams : state'[x] = "destroyed" => x = s \/ state[x] = "destroyed"
    BY <2>1 DEF QueueInv, TypeOK, HostTypeOK
  <2>3. \A x : Batch(x)' <=> Batch(x)
    BY <2>1 DEF Batch
  <2> QED
    BY <2>1, <2>2, <2>3 DEF Gone
<1>10. ASSUME NEW s \in Streams, Ready(s), state' = state, NEW r, NEW u,
              queue' = queue \/ queue' = [queue EXCEPT ![s] = r],
              unawaited' = unawaited \/ unawaited' = [unawaited EXCEPT ![s] = u]
       PROVE  Gone'
  BY <1>10, GoneKept DEF Ready
<1>11. ASSUME NEW s \in Streams, NEW f \in Funcs, NEW async \in BOOLEAN,
              \/ LaunchFunction(s, f, async)
              \/ LaunchFailsLocalMem(s, f)
              \/ LaunchFailsLate(s, f, async)
       PROVE  Gone'
  <2>1. Ready(s) /\ state' = state /\ unawaited' = unawaited
    BY <1>11 DEF LaunchFunction, LaunchFailsLocalMem, LaunchFailsLate, MayLaunch
  <2>2. \E r : queue' = [queue EXCEPT ![s] = r]
    <3>1. CASE LaunchFunction(s, f, async)
      BY <3>1 DEF LaunchFunction
    <3>2. CASE LaunchFailsLocalMem(s, f)
      BY <3>2 DEF LaunchFailsLocalMem
    <3>3. CASE LaunchFailsLate(s, f, async)
      BY <3>3 DEF LaunchFailsLate
    <3> QED
      BY <1>11, <3>1, <3>2, <3>3
  <2> QED
    BY <1>10, <2>1, <2>2
<1>12. ASSUME NEW s \in Streams,
              \/ \E async \in BOOLEAN : GpuMemcpy(s, async)
              \/ \E e \in Events : RecordEvent(e, s) \/ RecordEventFails(e, s)
              \/ CommenceFails(s) \/ CommenceBacklog(s) \/ Await(s)
       PROVE  Gone'
  <2>1. Ready(s) /\ state' = state /\ unawaited' = unawaited
    BY <1>12 DEF GpuMemcpy, RecordEvent, RecordEventFails, CommenceFails, CommenceBacklog, Await
  <2>2. queue' = queue \/ \E r : queue' = [queue EXCEPT ![s] = r]
    BY <1>12 DEF GpuMemcpy, RecordEvent, RecordEventFails, CommenceFails, CommenceBacklog, Await
  <2> QED
    BY <1>10, <2>1, <2>2
<1>13. ASSUME NEW s \in Streams, Commence(s) PROVE Gone'
  <2>1. /\ Ready(s) /\ state' = state
        /\ \E r : queue' = [queue EXCEPT ![s] = r]
        /\ \E u : unawaited' = [unawaited EXCEPT ![s] = u]
    BY <1>13 DEF Commence, SubmitToFifo
  <2> QED
    BY <1>10, <2>1
<1>14. TRUE \in BOOLEAN
  OBVIOUS
<1>15. ASSUME NEW s \in Streams, Call(s) PROVE Gone'
  BY <1>7, <1>8, <1>9, <1>11, <1>12, <1>13, <1>14, <1>15 DEF Call
<1> QED
  BY <1>3, <1>4, <1>5, <1>6, <1>15 DEF Next, Return

LEMMA InvNoWorkAfterDestroy ==
    ASSUME StreamInv, RunsOnce, TimelineInv, Gone
    PROVE  NoWorkAfterDestroy
<1>1. QueueInv /\ OnePlace /\ AwaitsSound /\ CountersSound
  BY DEF StreamInv, Once, OrderInv
<1> SUFFICES ASSUME NEW s \in Streams, state[s] = "destroyed",
                    NEW cmd, cmd \in Submitted \cup Executing
             PROVE  /\ IsWork(cmd) => cmd.op[1] # s
                    /\ cmd.kind = "release" => cmd.sig # Timeline(s)
  BY DEF NoWorkAfterDestroy
<1>2. unawaited[s] = {} /\ AllDone(s)
  BY <1>1 DEF Gone, AwaitsSound
<1>3. \A o \in Ops : o[1] = s /\ WasIssued(o) => o \in done
  BY <1>2 DEF AllDone, WasIssued
<1>4. CASE cmd \in Submitted
  <2>1. PICK c \in QueueTypes : cmd \in Elements(fifo[c])
    BY <1>4 DEF Submitted
  <2>2. cmd \in Command
    <3>1. fifo[c] \in Seq(Command)
      BY <1>1 DEF QueueInv, TypeOK, GpuTypeOK
    <3> QED
      BY <2>1, <3>1 DEF Elements
  <2>3. ASSUME IsWork(cmd) PROVE cmd.op[1] # s
    <3>1. InChannel(cmd.op)
      BY <2>1, <2>3 DEF Elements, InChannel, Has
    <3>2. cmd.op \in Ops
      BY <2>2, <2>3 DEF Command, Launches, Copies, Releases, Acquires, LocalMemSets, IsWork
    <3>3. WasIssued(cmd.op) /\ cmd.op \notin done
      BY <1>1, <3>1, <3>2 DEF OnePlace, Started
    <3> QED
      BY <1>3, <3>2, <3>3
  <2>4. ASSUME Rel(cmd, s) PROVE FALSE
    <3>1. c \in Lines(s)
      BY <2>1, <2>4 DEF TimelineInv, InLines, Notes
    <3>2. Lines(s) = unawaited[s]
      BY <1>1 DEF Lines, CountersSound
    <3> QED
      BY <1>2, <3>1, <3>2
  <2> QED
    BY <2>3, <2>4 DEF Rel
<1>5. CASE cmd \in Executing
  <2>1. PICK c \in QueueTypes : \E task \in running[c] : cmd = task.cmd
    BY <1>5 DEF Executing
  <2>2. cmd \in Launches \cup Copies
    BY <1>1, <2>1 DEF QueueInv, TypeOK, GpuTypeOK, Task
  <2>3. cmd.op \in Ops /\ cmd.kind # "release"
    BY <2>2 DEF Launches, Copies
  <2>4. cmd.op \notin done
    BY <2>1 DEF RunsOnce
  <2>5. cmd.op \in Started
    BY <1>5 DEF Started
  <2>6. WasIssued(cmd.op)
    BY <1>1, <2>3, <2>5 DEF OnePlace
  <2> QED
    BY <1>3, <2>3, <2>4, <2>6
<1> QED
  BY <1>4, <1>5

\* A stream that a program destroys once it has commenced and awaited all of it
\* leaves the GPU nothing: no kernel, copy or timeline release of it is in a
\* channel or running when its command, kernargs and signal pages are freed
\* (NoWorkAfterDestroy; ~NvCommandQueue, cmdqueue.cpp:257-270).
THEOREM NothingRunsAfterDestroy ==
    Orderly /\ "await before destroy" \in ClientRules => (Spec => []NoWorkAfterDestroy)
<1> SUFFICES ASSUME Orderly, "await before destroy" \in ClientRules
             PROVE  Spec => []NoWorkAfterDestroy
  OBVIOUS
<1>1. Init => Gone
  BY DEF Init, Gone
<1>2. StreamInv /\ Gone /\ [Next]_vars => Gone'
  BY GoneStep DEF StreamInv, OrderInv
<1>3. Spec => [](StreamInv /\ Unborn /\ TimelineInv)
  BY TimelineInvariant
<1>4. Init => StreamInv /\ Unborn /\ ArgsInv
  BY StreamInvInit, ArgsInit
<1>5. StreamInv /\ Unborn /\ ArgsInv /\ [Next]_vars => StreamInv' /\ Unborn' /\ ArgsInv'
  BY ArgsInvStep
<1>6. StreamInv /\ ArgsInv /\ TimelineInv /\ Gone => NoWorkAfterDestroy
  BY InvNoWorkAfterDestroy DEF ArgsInv
<1> QED
  BY <1>1, <1>2, <1>3, <1>4, <1>5, <1>6, PTL DEF Spec

-----------------------------------------------------------------------------
(* Before and after.  X and Y are sets of commands; what is shown is that   *)
(* no command of Y comes behind one of X, wherever they are.                *)

Meets(seq, X) == \E i \in DOMAIN seq : seq[i] \in X

\* A command of Y behind one of X.
OutOfOrder(seq, X, Y) == \E i, j \in DOMAIN seq : i < j /\ seq[i] \in X /\ seq[j] \in Y

\* q holds a command of X for channel t, in its buffer or in a piece from the
\* k-th on.
LaneHas(q, k, t, X) ==
    \/ Meets(q.buf[t], X)
    \/ \E i \in k..Len(q.backlog) : q.backlog[i].type = t /\ Meets(q.backlog[i].buf, X)

QueueInOrder(q, k, X, Y) ==
    /\ \A t \in QueueTypes : ~OutOfOrder(q.buf[t], X, Y)
    /\ \A i \in k..Len(q.backlog) :
          /\ ~OutOfOrder(q.backlog[i].buf, X, Y)
          /\ Meets(q.backlog[i].buf, X) => \A t \in QueueTypes : ~LaneHas(q, i + 1, t, Y)

LEMMA AppendedOrder ==
    ASSUME NEW seq \in Seq(Command), NEW cmd \in Command
    PROVE  LET r == Append(seq, cmd)
           IN  /\ \A X : Meets(r, X) => Meets(seq, X) \/ cmd \in X
               /\ \A X, Y : OutOfOrder(r, X, Y) => OutOfOrder(seq, X, Y) \/ cmd \in Y
<1> DEFINE r == Append(seq, cmd)
           n == Len(seq)
<1>1. /\ n \in Nat /\ DOMAIN seq = 1..n /\ DOMAIN r = 1..(n + 1)
      /\ \A i \in 1..n : r[i] = seq[i]
      /\ r[n + 1] = cmd
  BY AppendIndices
<1> HIDE DEF r, n
<1>2. \A i \in DOMAIN r : r[i] = cmd \/ (i \in DOMAIN seq /\ r[i] = seq[i])
  BY <1>1
<1>3. \A i, j \in DOMAIN r : i < j => i \in DOMAIN seq /\ r[i] = seq[i]
  BY <1>1
<1>4. \A X : Meets(r, X) => Meets(seq, X) \/ cmd \in X
  BY <1>2, Zenon DEF Meets
<1>5. \A X, Y : OutOfOrder(r, X, Y) => OutOfOrder(seq, X, Y) \/ cmd \in Y
  BY <1>2, <1>3, Zenon DEF OutOfOrder
<1> QED
  BY <1>4, <1>5 DEF r

LEMMA JoinedOrder ==
    ASSUME NEW a \in Seq(Command), NEW b \in Seq(Command)
    PROVE  LET r == a \o b
           IN  /\ \A X : Meets(r, X) => Meets(a, X) \/ Meets(b, X)
               /\ \A X, Y : OutOfOrder(r, X, Y) => \/ OutOfOrder(a, X, Y)
                                                   \/ OutOfOrder(b, X, Y)
                                                   \/ Meets(a, X) /\ Meets(b, Y)
<1> DEFINE r == a \o b
           m == Len(a)
           n == Len(b)
<1>1. /\ m \in Nat /\ n \in Nat /\ DOMAIN a = 1..m /\ DOMAIN b = 1..n
      /\ DOMAIN r = 1..(m + n)
      /\ \A i \in 1..m : r[i] = a[i]
      /\ \A i \in 1..n : r[m + i] = b[i]
  BY Joined
<1> HIDE DEF r, m, n
<1>2. \A i \in DOMAIN r : \/ i \in DOMAIN a /\ r[i] = a[i]
                          \/ i - m \in DOMAIN b /\ r[i] = b[i - m] /\ i \notin DOMAIN a
  <2> SUFFICES ASSUME NEW i \in DOMAIN r, i \notin DOMAIN a
               PROVE  i - m \in DOMAIN b /\ r[i] = b[i - m]
    BY <1>1
  <2>1. i - m \in 1..n /\ m + (i - m) = i
    BY <1>1
  <2> QED
    BY <1>1, <2>1
<1>3. \A X : Meets(r, X) => Meets(a, X) \/ Meets(b, X)
  BY <1>2, Zenon DEF Meets
<1>4. ASSUME NEW X, NEW Y, OutOfOrder(r, X, Y)
      PROVE  OutOfOrder(a, X, Y) \/ OutOfOrder(b, X, Y) \/ (Meets(a, X) /\ Meets(b, Y))
  <2>1. PICK i, j \in DOMAIN r : i < j /\ r[i] \in X /\ r[j] \in Y
    BY <1>4 DEF OutOfOrder
  <2>2. CASE j \in DOMAIN a
    <3>1. i \in DOMAIN a
      BY <1>1, <2>1, <2>2
    <3> QED
      BY <1>1, <2>1, <2>2, <3>1 DEF OutOfOrder
  <2>3. CASE j \notin DOMAIN a /\ i \in DOMAIN a
    BY <1>1, <1>2, <2>1, <2>3 DEF Meets
  <2>4. CASE j \notin DOMAIN a /\ i \notin DOMAIN a
    <3>1. PICK k, l \in DOMAIN b : k = i - m /\ l = j - m
      BY <1>2, <2>1, <2>4
    <3>2. k < l /\ b[k] \in X /\ b[l] \in Y
      BY <1>1, <1>2, <2>1, <2>4, <3>1
    <3> QED
      BY <3>2 DEF OutOfOrder
  <2> QED
    BY <2>2, <2>3, <2>4
<1> QED
  BY <1>3, <1>4 DEF r

LEMMA TailOrder ==
    ASSUME NEW a \in Seq(Command), a # <<>>
    PROVE  /\ \A X : Meets(Tail(a), X) => Meets(a, X)
           /\ \A X, Y : OutOfOrder(Tail(a), X, Y) => OutOfOrder(a, X, Y)
           /\ \A X, Y : Head(a) \in X /\ Meets(Tail(a), Y) => OutOfOrder(a, X, Y)
           /\ \A X : Head(a) \in X => Meets(a, X)
<1>1. PICK r, n : r = Tail(a) /\ n = Len(a)
  OBVIOUS
<1>2. /\ n \in Nat \ {0} /\ DOMAIN a = 1..n /\ DOMAIN r = 1..(n - 1)
      /\ \A i \in 1..(n - 1) : r[i] = a[i + 1]
      /\ Head(a) = a[1]
  BY <1>1
<1>3. \A i \in DOMAIN r : i + 1 \in DOMAIN a /\ r[i] = a[i + 1] /\ 1 \in DOMAIN a /\ 1 < i + 1
  BY <1>2
<1>4. \A i, j \in DOMAIN r : i < j => i + 1 < j + 1
  BY <1>2
<1>5. 1 \in DOMAIN a
  BY <1>2
<1>6. \A X : Meets(r, X) => Meets(a, X)
  BY <1>3, Zenon DEF Meets
<1>7. \A X, Y : OutOfOrder(r, X, Y) => OutOfOrder(a, X, Y)
  BY <1>3, <1>4, Zenon DEF OutOfOrder
<1>8. \A X, Y : a[1] \in X /\ Meets(r, Y) => OutOfOrder(a, X, Y)
  BY <1>3, Zenon DEF Meets, OutOfOrder
<1>9. \A X : a[1] \in X => Meets(a, X)
  BY <1>5, Zenon DEF Meets
<1> QED
  BY <1>1, <1>2, <1>6, <1>7, <1>8, <1>9

LEMMA EmptyInOrder ==
    \A X, Y : ~Meets(<<>>, X) /\ ~OutOfOrder(<<>>, X, Y)
BY DEF Meets, OutOfOrder

-----------------------------------------------------------------------------
(* Calls on a queue.                                                        *)

\* r is p with commands of N at the end of its buffers.
Appends(p, r, N) ==
    /\ r \in NvCommandQueue
    /\ r.backlog = p.backlog
    /\ \A t \in QueueTypes : \A Y : Y \cap N = {} =>
          /\ Meets(r.buf[t], Y) => Meets(p.buf[t], Y)
          /\ \A X : OutOfOrder(r.buf[t], X, Y) => OutOfOrder(p.buf[t], X, Y)

\* Commands that are neither operations nor releases of events.
Plain ==
    {cmd \in Command : cmd.kind \in {"acquire", "localMem"} \/ \E s \in Streams : Rel(cmd, s)}

LEMMA AppendsTransitive ==
    ASSUME NEW p, NEW q, NEW r, NEW N, Appends(p, q, N), Appends(q, r, N)
    PROVE  Appends(p, r, N)
BY Zenon DEF Appends

\* Fields that hold no commands.
LEMMA SameBuffersAppend ==
    ASSUME NEW p, NEW r \in NvCommandQueue, r.buf = p.buf, r.backlog = p.backlog, NEW N
    PROVE  Appends(p, r, N)
BY DEF Appends

LEMMA EnqueueAppends ==
    ASSUME NEW p \in NvCommandQueue, NEW cmd \in Command, NEW t \in QueueTypes,
           NEW N, cmd \in N
    PROVE  Appends(p, Enqueue(p, cmd, t), N)
<1>1. PICK r : r = Enqueue(p, cmd, t)
  OBVIOUS
<1>2. /\ r \in NvCommandQueue /\ r.backlog = p.backlog
      /\ r.buf[t] = Append(p.buf[t], cmd)
      /\ \A u \in QueueTypes : u # t => r.buf[u] = p.buf[u]
  BY <1>1, EnqueueFields
<1>3. p.buf[t] \in Seq(Command)
  BY QueueFields
<1>4. ASSUME NEW u \in QueueTypes, NEW Y, Y \cap N = {}
      PROVE  /\ Meets(r.buf[u], Y) => Meets(p.buf[u], Y)
             /\ \A X : OutOfOrder(r.buf[u], X, Y) => OutOfOrder(p.buf[u], X, Y)
  <2>1. cmd \notin Y
    BY <1>4
  <2>2. CASE u = t
    <3>1. PICK a, b : a = p.buf[t] /\ b = Append(a, cmd)
      OBVIOUS
    <3>2. /\ \A X : Meets(b, X) => Meets(a, X) \/ cmd \in X
          /\ \A X, Z : OutOfOrder(b, X, Z) => OutOfOrder(a, X, Z) \/ cmd \in Z
      BY <1>3, <3>1, AppendedOrder
    <3>3. r.buf[u] = b /\ p.buf[u] = a
      BY <1>2, <2>2, <3>1
    <3> QED
      BY <2>1, <3>2, <3>3, Zenon
  <2>3. CASE u # t
    BY <1>2, <2>3
  <2> QED
    BY <2>2, <2>3
<1> QED
  BY <1>1, <1>2, <1>4 DEF Appends

LEMMA NotifyIfPendingAppends ==
    ASSUME NEW q \in NvCommandQueue, NEW s \in Streams, NEW t \in QueueTypes,
           NEW N, Plain \subseteq N
    PROVE  Appends(q, [NotifyIfPending(q, s, t) EXCEPT !.timelineNotifyPending = FALSE], N)
<1>1. PICK n : n = NotifyIfPending(q, s, t)
  OBVIOUS
<1>2. PICK cmd : cmd = [kind |-> "release", sig |-> Timeline(s), payload |-> q.timelineCtr]
  OBVIOUS
<1>3. cmd \in Command /\ cmd \in N
  <2>1. cmd \in Command
    BY <1>2, CommandTypes, TimelineIsSignal, QueueFields
  <2> QED
    BY <1>2, <2>1 DEF Plain, Rel
<1>4. n = q \/ n = Enqueue(q, cmd, t)
  BY <1>1, <1>2 DEF NotifyIfPending, SignalNotify
<1>5. Appends(q, n, N)
  BY <1>3, <1>4, EnqueueAppends, SameBuffersAppend
<1>6. n \in NvCommandQueue
  BY <1>5 DEF Appends
<1>7. PICK r : r = [n EXCEPT !.timelineNotifyPending = FALSE]
  OBVIOUS
<1>8. r \in NvCommandQueue /\ r.buf = n.buf /\ r.backlog = n.backlog
  BY <1>6, <1>7 DEF NvCommandQueue
<1> QED
  BY <1>1, <1>5, <1>7, <1>8, SameBuffersAppend, AppendsTransitive

LEMMA EndOpAppends ==
    ASSUME NEW q \in NvCommandQueue, NEW s \in Streams, NEW t \in QueueTypes,
           NEW async \in BOOLEAN, NEW N, Plain \subseteq N
    PROVE  Appends(q, EndOp(q, s, async, t), N)
<1>1. PICK next : next = AdvanceTimeline(q)
  OBVIOUS
<1>2. next \in NvCommandQueue /\ next.buf = q.buf /\ next.backlog = q.backlog
  BY <1>1, AdvanceTimelineTyped DEF AdvanceTimeline, NvCommandQueue
<1>3. Appends(q, next, N)
  BY <1>2, SameBuffersAppend
<1>4. PICK cmd : cmd = [kind |-> "release", sig |-> Timeline(s), payload |-> next.timelineCtr]
  OBVIOUS
<1>5. cmd \in Command /\ cmd \in N
  <2>1. cmd \in Command
    BY <1>2, <1>4, CommandTypes, TimelineIsSignal, QueueFields
  <2> QED
    BY <1>4, <2>1 DEF Plain, Rel
<1>6. PICK e : e = Enqueue(next, cmd, t)
  OBVIOUS
<1>7. Appends(next, e, N) /\ e \in NvCommandQueue
  BY <1>2, <1>5, <1>6, EnqueueAppends DEF Appends
<1>8. Appends(q, e, N)
  BY <1>3, <1>7, AppendsTransitive
<1>9. PICK p, r : /\ p = [next EXCEPT !.timelineNotifyPending = TRUE]
                  /\ r = [e EXCEPT !.timelineNotifyPending = FALSE]
  OBVIOUS
<1>10. /\ p \in NvCommandQueue /\ p.buf = next.buf /\ p.backlog = next.backlog
       /\ r \in NvCommandQueue /\ r.buf = e.buf /\ r.backlog = e.backlog
  BY <1>2, <1>7, <1>9 DEF NvCommandQueue
<1>11. Appends(q, p, N) /\ Appends(q, r, N)
  BY <1>3, <1>8, <1>10, SameBuffersAppend, AppendsTransitive
<1>12. EndOp(q, s, async, t) = IF async THEN p ELSE r
  BY <1>1, <1>4, <1>6, <1>9 DEF EndOp, SignalNotify
<1> QED
  BY <1>11, <1>12

LEMMA WaitForPreviousAppends ==
    ASSUME NEW q \in NvCommandQueue, NEW s \in Streams, NEW async \in BOOLEAN,
           NEW N, Plain \subseteq N
    PROVE  Appends(q, WaitForPrevious(q, s, async), N)
<1>1. PICK n, cmd, r :
          /\ n = [NotifyIfPending(q, s, "COMPUTE") EXCEPT !.timelineNotifyPending = FALSE]
          /\ cmd = [kind |-> "acquire", sig |-> Timeline(s), payload |-> q.timelineCtr]
          /\ r = WaitForPrevious(q, s, async)
  OBVIOUS
<1>2. "COMPUTE" \in QueueTypes /\ cmd \in Command /\ cmd \in N
  <2>1. cmd \in Command
    BY <1>1, CommandTypes, TimelineIsSignal, QueueFields
  <2> QED
    BY <1>1, <2>1 DEF Plain, QueueTypes
<1>3. Appends(q, n, N) /\ n \in NvCommandQueue
  BY <1>1, <1>2, NotifyIfPendingAppends DEF Appends
<1>4. r = q \/ r = n \/ r = Enqueue(n, cmd, "COMPUTE")
  BY <1>1 DEF WaitForPrevious, SignalWaitGpu
<1>5. PICK e : e = Enqueue(n, cmd, "COMPUTE")
  OBVIOUS
<1>6. Appends(n, e, N)
  BY <1>2, <1>3, <1>5, EnqueueAppends
<1>7. Appends(q, e, N) /\ Appends(q, q, N)
  BY <1>3, <1>6, AppendsTransitive, SameBuffersAppend
<1> QED
  BY <1>1, <1>3, <1>4, <1>5, <1>7

LEMMA LocalMemAppends ==
    ASSUME HostTypeOK, NEW q \in NvCommandQueue, NEW f \in Funcs,
           NEW N, Plain \subseteq N
    PROVE  /\ Appends(q, GrownSlm(q, f), N)
           /\ Appends(q, EnsureEnoughLocalMem(q, f).queue, N)
<1>1. PICK grown, cmd : /\ grown = GrownSlm(q, f)
                        /\ cmd = [kind |-> "localMem", region |-> Len(slm.size) + 1]
  OBVIOUS
<1>2. grown \in NvCommandQueue /\ grown.buf = q.buf /\ grown.backlog = q.backlog
  <2>1. RoundUp(LocalMemReq[f], 32) \in Nat
    BY RoundUpIsNat, FuncAssumption
  <2> QED
    BY <1>1, <2>1 DEF GrownSlm, NvCommandQueue
<1>3. "COMPUTE" \in QueueTypes /\ cmd \in Command /\ cmd \in N
  <2>1. cmd \in Command
    BY <1>1 DEF HostTypeOK, Command, LocalMemSets
  <2> QED
    BY <1>1, <2>1 DEF Plain, QueueTypes
<1>4. \/ EnsureEnoughLocalMem(q, f).queue = q
      \/ EnsureEnoughLocalMem(q, f).queue = Enqueue(grown, cmd, "COMPUTE")
  BY <1>1 DEF EnsureEnoughLocalMem
<1>5. PICK e : e = Enqueue(grown, cmd, "COMPUTE")
  OBVIOUS
<1>6. Appends(q, grown, N) /\ Appends(grown, e, N) /\ Appends(q, q, N)
  BY <1>2, <1>3, <1>5, EnqueueAppends, SameBuffersAppend
<1>7. Appends(q, e, N)
  BY <1>6, AppendsTransitive
<1> QED
  BY <1>1, <1>4, <1>5, <1>6, <1>7

\* r is the queue q after a call that hands nothing to the GPU: the commands it
\* adds are of N and come last, and a new piece has all that q had issued.
Follows(q, r, N) ==
    /\ r \in NvCommandQueue
    /\ \A t \in QueueTypes : \A Y : Y \cap N = {} => (LaneHas(r, 1, t, Y) => LaneHas(q, 1, t, Y))
    /\ \A X, Y : Y \cap N = {} => (QueueInOrder(q, 1, X, Y) => QueueInOrder(r, 1, X, Y))
    /\ \A j \in DOMAIN r.backlog : \/ j \in DOMAIN q.backlog /\ r.backlog[j] = q.backlog[j]
                                   \/ r.backlog[j].timelineCtr = q.timelineCtr

LEMMA AppendsLanes ==
    ASSUME NEW p, NEW r, NEW N, Appends(p, r, N)
    PROVE  /\ \A k : \A t \in QueueTypes : \A Y :
                 Y \cap N = {} => (LaneHas(r, k, t, Y) => LaneHas(p, k, t, Y))
           /\ \A k, X, Y : Y \cap N = {} => (QueueInOrder(p, k, X, Y) => QueueInOrder(r, k, X, Y))
<1>1. /\ r.backlog = p.backlog
      /\ \A t \in QueueTypes : \A Y : Y \cap N = {} =>
            /\ Meets(r.buf[t], Y) => Meets(p.buf[t], Y)
            /\ \A X : OutOfOrder(r.buf[t], X, Y) => OutOfOrder(p.buf[t], X, Y)
  BY DEF Appends
<1>2. ASSUME NEW k, NEW t \in QueueTypes, NEW Y, Y \cap N = {}, LaneHas(r, k, t, Y)
      PROVE  LaneHas(p, k, t, Y)
  BY <1>1, <1>2, Zenon DEF LaneHas
<1>3. ASSUME NEW k, NEW X, NEW Y, Y \cap N = {}, QueueInOrder(p, k, X, Y)
      PROVE  QueueInOrder(r, k, X, Y)
  <2>1. \A t \in QueueTypes : ~OutOfOrder(r.buf[t], X, Y)
    BY <1>1, <1>3, Zenon DEF QueueInOrder
  <2>2. \A i \in k..Len(r.backlog) :
          /\ ~OutOfOrder(r.backlog[i].buf, X, Y)
          /\ Meets(r.backlog[i].buf, X) => \A t \in QueueTypes : ~LaneHas(r, i + 1, t, Y)
    BY <1>1, <1>2, <1>3, Zenon DEF QueueInOrder
  <2> QED
    BY <2>1, <2>2, Zenon DEF QueueInOrder
<1> QED
  BY <1>2, <1>3, Zenon

LEMMA FollowsAppends ==
    ASSUME NEW q, NEW p, NEW r, NEW N, Follows(q, p, N), Appends(p, r, N)
    PROVE  Follows(q, r, N)
<1>1. r \in NvCommandQueue /\ r.backlog = p.backlog
  BY DEF Appends
<1>2. /\ \A k : \A t \in QueueTypes : \A Y :
                 Y \cap N = {} => (LaneHas(r, k, t, Y) => LaneHas(p, k, t, Y))
      /\ \A k, X, Y : Y \cap N = {} => (QueueInOrder(p, k, X, Y) => QueueInOrder(r, k, X, Y))
  BY AppendsLanes
<1>3. /\ \A t \in QueueTypes : \A Y : Y \cap N = {} => (LaneHas(p, 1, t, Y) => LaneHas(q, 1, t, Y))
      /\ \A X, Y : Y \cap N = {} => (QueueInOrder(q, 1, X, Y) => QueueInOrder(p, 1, X, Y))
  BY DEF Follows
<1>4. \A j \in DOMAIN r.backlog :
        \/ j \in DOMAIN q.backlog /\ r.backlog[j] = q.backlog[j]
        \/ r.backlog[j].timelineCtr = q.timelineCtr
  BY <1>1 DEF Follows
<1>5. \A t \in QueueTypes : \A Y : Y \cap N = {} => (LaneHas(r, 1, t, Y) => LaneHas(q, 1, t, Y))
  BY <1>2, <1>3, Zenon
<1>6. \A X, Y : Y \cap N = {} => (QueueInOrder(q, 1, X, Y) => QueueInOrder(r, 1, X, Y))
  BY <1>2, <1>3, Zenon
<1> QED
  BY <1>1, <1>4, <1>5, <1>6 DEF Follows

LEMMA SelfFollows == \A q \in NvCommandQueue : \A N : Follows(q, q, N)
BY DEF Follows

\* The current buffer becomes the last piece of the backlog.
LEMMA PieceFollows ==
    ASSUME NEW q \in NvCommandQueue, NEW t \in QueueTypes, NEW N,
           q.currentQueueType = t, q.buf[t] # <<>>, q.buf[Other(t)] = <<>>
    PROVE  Follows(q, BacklogCurrentCmdBuffer(q, t), N)
<1> DEFINE r == BacklogCurrentCmdBuffer(q, t)
           piece == [buf |-> q.buf[t], type |-> t,
                     timelineCtr |-> q.timelineCtr,
                     timelineNotifyPending |-> q.timelineNotifyPending]
           n == Len(q.backlog) + 1
<1>1. /\ r \in NvCommandQueue
      /\ r.buf[t] = <<>> /\ r.buf[Other(t)] = <<>>
  BY BacklogTyped
<1>2. r.backlog = Append(q.backlog, piece)
  BY DEF BacklogCurrentCmdBuffer, NvCommandQueue
<1>3. q.backlog \in Seq(Split) /\ piece \in Split
  BY DEF NvCommandQueue, Split
<1>4. piece.buf = q.buf[t] /\ piece.type = t /\ piece.timelineCtr = q.timelineCtr
  OBVIOUS
<1> HIDE DEF r, piece
<1>5. /\ Len(q.backlog) \in Nat
      /\ DOMAIN q.backlog = 1..Len(q.backlog)
      /\ DOMAIN r.backlog = 1..n
      /\ \A i \in 1..Len(q.backlog) : r.backlog[i] = q.backlog[i]
      /\ r.backlog[n] = piece
  BY <1>2, <1>3, AppendIndices
<1>6. Len(r.backlog) = n
  BY <1>2, <1>3
<1>7. \A u \in QueueTypes : \A X, Y : ~Meets(r.buf[u], Y) /\ ~OutOfOrder(r.buf[u], X, Y)
  <2>1. \A u \in QueueTypes : r.buf[u] = <<>>
    BY <1>1 DEF Other, QueueTypes
  <2> QED
    BY <2>1, EmptyInOrder
<1>8. ASSUME NEW k \in 1..n, NEW u \in QueueTypes, NEW Y, LaneHas(r, k, u, Y)
      PROVE  LaneHas(q, k, u, Y)
  <2>1. PICK i \in k..n : r.backlog[i].type = u /\ Meets(r.backlog[i].buf, Y)
    BY <1>6, <1>7, <1>8 DEF LaneHas
  <2>2. CASE i = n
    <3>1. u = t /\ Meets(q.buf[t], Y)
      BY <1>4, <1>5, <2>1, <2>2
    <3> QED
      BY <3>1 DEF LaneHas
  <2>3. CASE i # n
    <3>1. i \in k..Len(q.backlog) /\ r.backlog[i] = q.backlog[i]
      BY <1>5, <2>3
    <3> QED
      BY <2>1, <3>1 DEF LaneHas
  <2> QED
    BY <2>2, <2>3
<1>9. \A u \in QueueTypes : \A Y : ~LaneHas(r, n + 1, u, Y)
  <2>1. (n + 1)..n = {}
    BY <1>5
  <2> QED
    BY <1>6, <1>7, <2>1 DEF LaneHas
<1>10. ASSUME NEW X, NEW Y, QueueInOrder(q, 1, X, Y)
       PROVE  QueueInOrder(r, 1, X, Y)
  <2> SUFFICES ASSUME NEW i \in 1..n
               PROVE  /\ ~OutOfOrder(r.backlog[i].buf, X, Y)
                      /\ Meets(r.backlog[i].buf, X) =>
                            \A u \in QueueTypes : ~LaneHas(r, i + 1, u, Y)
    BY <1>6, <1>7 DEF QueueInOrder
  <2>1. CASE i = n
    <3>1. ~OutOfOrder(q.buf[t], X, Y)
      BY <1>10 DEF QueueInOrder
    <3> QED
      BY <1>4, <1>5, <1>9, <2>1, <3>1
  <2>2. CASE i # n
    <3>1. i \in 1..Len(q.backlog) /\ r.backlog[i] = q.backlog[i] /\ i + 1 \in 1..n
      BY <1>5, <2>2
    <3>2. /\ ~OutOfOrder(q.backlog[i].buf, X, Y)
          /\ Meets(q.backlog[i].buf, X) => \A u \in QueueTypes : ~LaneHas(q, i + 1, u, Y)
      BY <1>10, <3>1 DEF QueueInOrder
    <3> QED
      BY <1>8, <3>1, <3>2
  <2> QED
    BY <2>1, <2>2
<1>11. \A j \in DOMAIN r.backlog :
          \/ j \in DOMAIN q.backlog /\ r.backlog[j] = q.backlog[j]
          \/ r.backlog[j].timelineCtr = q.timelineCtr
  BY <1>4, <1>5
<1>12. 1 \in 1..n
  BY <1>5
<1> QED
  BY <1>1, <1>8, <1>10, <1>11, <1>12 DEF Follows, r

LEMMA SwitchToFollows ==
    ASSUME NEW q \in NvCommandQueue, OneBuffer(q), NEW t \in QueueTypes, NEW N
    PROVE  Follows(q, SwitchTo(q, t), N)
<1>1. PICK u, r : u = Other(t) /\ r = SwitchTo(q, t)
  OBVIOUS
<1>2. u \in QueueTypes /\ u # t /\ Other(u) = t
  BY <1>1, OtherType
<1>3. CASE q.buf[u] = <<>>
  <2>1. r = [q EXCEPT !.currentQueueType = t]
    BY <1>1, <1>2, <1>3 DEF SwitchTo
  <2>2. r \in NvCommandQueue /\ r.backlog = q.backlog /\ r.buf = q.buf
    BY <2>1 DEF NvCommandQueue
  <2> QED
    BY <1>1, <2>2, SelfFollows, SameBuffersAppend, FollowsAppends
<1>4. CASE q.buf[u] # <<>>
  <2>1. PICK moved : moved = BacklogCurrentCmdBuffer(q, u)
    OBVIOUS
  <2>2. q.currentQueueType = u /\ q.buf[t] = <<>>
    BY <1>2, <1>4 DEF OneBuffer
  <2>3. r = [moved EXCEPT !.currentQueueType = t]
    BY <1>1, <1>2, <1>4, <2>1, <2>2 DEF SwitchTo
  <2>4. Follows(q, moved, N)
    BY <1>2, <1>4, <2>1, <2>2, PieceFollows
  <2>5. moved \in NvCommandQueue
    BY <2>4 DEF Follows
  <2>6. r \in NvCommandQueue /\ r.backlog = moved.backlog /\ r.buf = moved.buf
    BY <2>3, <2>5 DEF NvCommandQueue
  <2> QED
    BY <1>1, <2>4, <2>6, SameBuffersAppend, FollowsAppends
<1> QED
  BY <1>3, <1>4

\* What Commence finds in the buffers joins the backlog.
LEMMA BothFollow ==
    ASSUME NEW q \in NvCommandQueue, OneBuffer(q), q.currentQueueType \in QueueTypes, NEW N
    PROVE  Follows(q, BacklogCurrentCmdBuffer(BacklogCurrentCmdBuffer(q, "COMPUTE"), "DMA"), N)
<1>1. PICK t \in QueueTypes : t = q.currentQueueType
  OBVIOUS
<1>2. q.buf[Other(t)] = <<>> /\ Other(t) \in QueueTypes
  BY <1>1, OtherType DEF OneBuffer
<1>3. \A p, u : p.buf[u] = <<>> => BacklogCurrentCmdBuffer(p, u) = p
  BY DEF BacklogCurrentCmdBuffer
<1>4. CASE q.buf[t] = <<>>
  <2>1. q.buf["COMPUTE"] = <<>> /\ q.buf["DMA"] = <<>>
    BY <1>2, <1>4 DEF Other, QueueTypes
  <2>2. BacklogCurrentCmdBuffer(BacklogCurrentCmdBuffer(q, "COMPUTE"), "DMA") = q
    BY <1>3, <2>1
  <2> QED
    BY <2>2, SelfFollows
<1>5. CASE q.buf[t] # <<>>
  <2>1. PICK r : r = BacklogCurrentCmdBuffer(q, t)
    OBVIOUS
  <2>2. Follows(q, r, N)
    BY <1>1, <1>2, <1>5, <2>1, PieceFollows
  <2>3. r.buf[t] = <<>> /\ r.buf[Other(t)] = <<>>
    BY <1>2, <2>1, BacklogTyped
  <2>4. BacklogCurrentCmdBuffer(BacklogCurrentCmdBuffer(q, "COMPUTE"), "DMA") = r
    <3>1. CASE t = "COMPUTE"
      <4>1. r.buf["DMA"] = <<>>
        BY <2>3, <3>1 DEF Other
      <4> QED
        BY <1>3, <2>1, <3>1, <4>1
    <3>2. CASE t = "DMA"
      <4>1. q.buf["COMPUTE"] = <<>>
        BY <1>2, <3>2 DEF Other
      <4> QED
        BY <1>3, <2>1, <3>2, <4>1
    <3> QED
      BY <3>1, <3>2 DEF QueueTypes
  <2> QED
    BY <2>2, <2>4
<1> QED
  BY <1>4, <1>5

LEMMA PreparedFollows ==
    ASSUME QueueInv, OrderInv, NEW s \in Streams, Ready(s), NEW f \in Funcs,
           NEW async \in BOOLEAN, NEW N, Plain \subseteq N
    PROVE  Follows(queue[s], Prepared(s, f, async).queue, N)
<1>1. PICK q \in NvCommandQueue : q = queue[s]
  BY DEF QueueInv, TypeOK, HostTypeOK
<1>2. HostTypeOK /\ "COMPUTE" \in QueueTypes /\ OneBuffer(q)
  BY <1>1, ReadyQueue DEF QueueSound, QueueTypes
<1>3. PICK w : w = SwitchTo(q, "COMPUTE")
  OBVIOUS
<1>4. Follows(q, w, N) /\ w \in NvCommandQueue
  BY <1>2, <1>3, SwitchToFollows DEF Follows
<1>5. PICK m, p : m = EnsureEnoughLocalMem(w, f) /\ p = m.queue
  OBVIOUS
<1>6. Appends(w, p, N) /\ p \in NvCommandQueue
  BY <1>2, <1>4, <1>5, LocalMemAppends DEF Appends
<1>7. PICK r : r = WaitForPrevious(p, s, async)
  OBVIOUS
<1>8. Appends(p, r, N)
  BY <1>6, <1>7, WaitForPreviousAppends
<1>9. m = [queue |-> m.queue, slm |-> m.slm]
  BY <1>5 DEF EnsureEnoughLocalMem
<1>10. Prepared(s, f, async) = [m EXCEPT !.queue = WaitForPrevious(m.queue, s, async)]
  BY <1>1, <1>3, <1>5 DEF Prepared
<1>11. Prepared(s, f, async).queue = r
  BY <1>5, <1>7, <1>9, <1>10
<1> QED
  BY <1>1, <1>4, <1>6, <1>8, <1>11, FollowsAppends

-----------------------------------------------------------------------------
(* Before and after, across the stream and the channels.                    *)

\* No command of X is on its way to channel t.
Absent(t, X) ==
    ~Meets(fifo[t], X) /\ \A r \in Streams : ~LaneHas(queue[r], Cursor(r), t, X)

\* Commands of X and Y are on their way on s alone, none of Y behind one of X.
Sorted(s, X, Y) ==
    /\ QueueInOrder(queue[s], Cursor(s), X, Y)
    /\ \A c \in QueueTypes :
          /\ ~OutOfOrder(fifo[c], X, Y)
          /\ Meets(fifo[c], X) => \A t \in QueueTypes : ~LaneHas(queue[s], Cursor(s), t, Y)
    /\ \A r \in Streams \ {s} : \A t \in QueueTypes :
          ~LaneHas(queue[r], Cursor(r), t, X) /\ ~LaneHas(queue[r], Cursor(r), t, Y)

\* A step adds commands of N on s, and no others; those of M it may hand over.
Undisturbed(s, N, M) ==
    /\ \A t \in QueueTypes : \A X : X \cap N = {} /\ Absent(t, X) => Absent(t, X)'
    /\ \A v \in Streams : \A X, Y :
          /\ Y \cap N = {} /\ X \cap M = {} /\ (X \cap N = {} \/ v = s)
          /\ Sorted(v, X, Y)
          => Sorted(v, X, Y)'

\* q, from its k-th piece on, hands b to channel t, adds commands of N, and is r.
Hands(q, k, t, b, r, k2, N, M) ==
    /\ b \in Seq(Command)
    /\ \A u \in QueueTypes : \A Y :
          Y \cap N = {} => (LaneHas(r, k2, u, Y) => LaneHas(q, k, u, Y))
    /\ \A Y : Y \cap N = {} => (Meets(b, Y) => LaneHas(q, k, t, Y))
    /\ \A X, Y : Y \cap N = {} /\ X \cap M = {} /\ QueueInOrder(q, k, X, Y) =>
          /\ QueueInOrder(r, k2, X, Y)
          /\ ~OutOfOrder(b, X, Y)
          /\ Meets(b, X) => \A u \in QueueTypes : ~LaneHas(r, k2, u, Y)

LEMMA HandedUndisturbed ==
    ASSUME QueueInv, NEW s \in Streams, NEW t \in QueueTypes, NEW b, NEW r, NEW N, NEW M,
           Hands(queue[s], Cursor(s), t, b, r, Cursor(s)', N, M),
           fifo' = [fifo EXCEPT ![t] = fifo[t] \o b],
           queue' = [queue EXCEPT ![s] = r],
           \A x \in Streams \ {s} : Cursor(x)' = Cursor(x)
    PROVE  Undisturbed(s, N, M)
<1>1. PICK q, k, k2, a : /\ q = queue[s] /\ k = Cursor(s) /\ k2 = Cursor(s)'
                         /\ a = fifo[t]
  OBVIOUS
<1>2. /\ a \in Seq(Command) /\ b \in Seq(Command)
      /\ \A d \in QueueTypes : d # t => fifo'[d] = fifo[d]
      /\ fifo'[t] = a \o b
      /\ queue'[s] = r
      /\ \A x \in Streams \ {s} : queue'[x] = queue[x] /\ Cursor(x)' = Cursor(x)
  BY <1>1 DEF QueueInv, TypeOK, GpuTypeOK, HostTypeOK, Hands
<1>3. PICK ab : ab = a \o b
  OBVIOUS
<1>4. /\ \A X : Meets(ab, X) => Meets(a, X) \/ Meets(b, X)
      /\ \A X, Y : OutOfOrder(ab, X, Y) => \/ OutOfOrder(a, X, Y)
                                           \/ OutOfOrder(b, X, Y)
                                           \/ Meets(a, X) /\ Meets(b, Y)
  BY <1>2, <1>3, JoinedOrder
<1>5. /\ \A u \in QueueTypes : \A Y :
            Y \cap N = {} => (LaneHas(r, k2, u, Y) => LaneHas(q, k, u, Y))
      /\ \A Y : Y \cap N = {} => (Meets(b, Y) => LaneHas(q, k, t, Y))
      /\ \A X, Y : Y \cap N = {} /\ X \cap M = {} /\ QueueInOrder(q, k, X, Y) =>
            /\ QueueInOrder(r, k2, X, Y)
            /\ ~OutOfOrder(b, X, Y)
            /\ Meets(b, X) => \A u \in QueueTypes : ~LaneHas(r, k2, u, Y)
  BY <1>1 DEF Hands
<1>6. ASSUME NEW u \in QueueTypes, NEW X, X \cap N = {}, Absent(u, X)
      PROVE  Absent(u, X)'
  <2>1. ~Meets(fifo[u], X) /\ \A x \in Streams : ~LaneHas(queue[x], Cursor(x), u, X)
    BY <1>6 DEF Absent
  <2>2. ~Meets(fifo'[u], X)
    <3>1. CASE u = t
      <4>1. ~LaneHas(q, k, t, X) /\ ~Meets(a, X)
        BY <1>1, <2>1, <3>1
      <4>2. ~Meets(ab, X)
        BY <1>4, <1>5, <1>6, <4>1, Zenon
      <4> QED
        BY <1>2, <1>3, <3>1, <4>2
    <3>2. CASE u # t
      BY <1>2, <2>1, <3>2
    <3> QED
      BY <3>1, <3>2
  <2>3. ASSUME NEW x \in Streams PROVE ~LaneHas(queue'[x], Cursor(x)', u, X)
    <3>1. CASE x = s
      <4>1. ~LaneHas(r, k2, u, X)
        BY <1>1, <1>5, <1>6, <2>1
      <4> QED
        BY <1>1, <1>2, <3>1, <4>1
    <3>2. CASE x # s
      <4>1. queue'[x] = queue[x] /\ Cursor(x)' = Cursor(x)
        BY <1>2, <3>2
      <4> QED
        BY <2>1, <4>1
    <3> QED
      BY <3>1, <3>2
  <2> QED
    BY <2>2, <2>3 DEF Absent
<1>7. ASSUME NEW v \in Streams, NEW X, NEW Y, Y \cap N = {}, X \cap M = {},
             X \cap N = {} \/ v = s,
             Sorted(v, X, Y)
      PROVE  Sorted(v, X, Y)'
  <2>1. PICK p, n : p = queue[v] /\ n = Cursor(v)
    OBVIOUS
  <2>2. PICK p2, n2 : p2 = queue'[v] /\ n2 = Cursor(v)'
    OBVIOUS
  <2>3. /\ QueueInOrder(p, n, X, Y)
        /\ \A c \in QueueTypes :
              /\ ~OutOfOrder(fifo[c], X, Y)
              /\ Meets(fifo[c], X) => \A u \in QueueTypes : ~LaneHas(p, n, u, Y)
        /\ \A x \in Streams \ {v} : \A u \in QueueTypes :
              ~LaneHas(queue[x], Cursor(x), u, X) /\ ~LaneHas(queue[x], Cursor(x), u, Y)
    BY <1>7, <2>1 DEF Sorted
  <2>4. /\ QueueInOrder(p2, n2, X, Y)
        /\ ~OutOfOrder(b, X, Y)
        /\ Meets(b, X) => \A u \in QueueTypes : ~LaneHas(p2, n2, u, Y)
        /\ Meets(a, X) => ~Meets(b, Y)
        /\ \A u \in QueueTypes : LaneHas(p2, n2, u, Y) => LaneHas(p, n, u, Y)
    <3>1. CASE v = s
      <4>1. p = q /\ n = k /\ p2 = r /\ n2 = k2
        BY <1>1, <1>2, <2>1, <2>2, <3>1
      <4>2. Meets(a, X) => ~Meets(b, Y)
        BY <1>1, <1>5, <1>7, <2>3, <4>1
      <4> QED
        BY <1>5, <1>7, <2>3, <4>1, <4>2
    <3>2. CASE v # s
      <4>1. p2 = p /\ n2 = n
        BY <1>2, <2>1, <2>2, <3>2
      <4>2. ~LaneHas(q, k, t, X) /\ ~LaneHas(q, k, t, Y)
        BY <1>1, <2>3, <3>2
      <4>3. ~Meets(b, X) /\ ~Meets(b, Y)
        BY <1>5, <1>7, <3>2, <4>2
      <4>4. ~OutOfOrder(b, X, Y)
        BY <4>3, Zenon DEF OutOfOrder, Meets
      <4> QED
        BY <2>3, <4>1, <4>3, <4>4
    <3> QED
      BY <3>1, <3>2
  <2>5. ASSUME NEW c \in QueueTypes
        PROVE  /\ ~OutOfOrder(fifo'[c], X, Y)
               /\ Meets(fifo'[c], X) => \A u \in QueueTypes : ~LaneHas(p2, n2, u, Y)
    <3>1. CASE c = t
      <4>1. /\ ~OutOfOrder(a, X, Y)
            /\ Meets(a, X) => \A u \in QueueTypes : ~LaneHas(p, n, u, Y)
        BY <1>1, <2>3, <3>1
      <4>2. ~OutOfOrder(ab, X, Y)
        BY <1>4, <2>4, <4>1, Zenon
      <4>3. Meets(ab, X) => \A u \in QueueTypes : ~LaneHas(p2, n2, u, Y)
        BY <1>4, <2>4, <4>1, Zenon
      <4> QED
        BY <1>2, <1>3, <3>1, <4>2, <4>3
    <3>2. CASE c # t
      BY <1>2, <2>3, <2>4, <3>2
    <3> QED
      BY <3>1, <3>2
  <2>6. ASSUME NEW x \in Streams \ {v}, NEW u \in QueueTypes
        PROVE  ~LaneHas(queue'[x], Cursor(x)', u, X) /\ ~LaneHas(queue'[x], Cursor(x)', u, Y)
    <3>1. CASE x = s
      <4>1. ~LaneHas(q, k, u, X) /\ ~LaneHas(q, k, u, Y)
        BY <1>1, <2>3, <2>6, <3>1
      <4>2. ~LaneHas(r, k2, u, X) /\ ~LaneHas(r, k2, u, Y)
        BY <1>5, <1>7, <2>6, <3>1, <4>1
      <4> QED
        BY <1>1, <1>2, <3>1, <4>2
    <3>2. CASE x # s
      <4>1. queue'[x] = queue[x] /\ Cursor(x)' = Cursor(x)
        BY <1>2, <3>2
      <4> QED
        BY <2>3, <2>6, <4>1
    <3> QED
      BY <3>1, <3>2
  <2>7. QueueInOrder(queue'[v], Cursor(v)', X, Y)
    BY <2>2, <2>4
  <2>8. \A c \in QueueTypes :
           /\ ~OutOfOrder(fifo'[c], X, Y)
           /\ Meets(fifo'[c], X) => \A u \in QueueTypes : ~LaneHas(queue'[v], Cursor(v)', u, Y)
    BY <2>2, <2>5
  <2> QED
    BY <2>6, <2>7, <2>8 DEF Sorted
<1> QED
  BY <1>6, <1>7, Zenon DEF Undisturbed

\* A call that hands nothing to the GPU.
LEMMA CalledUndisturbed ==
    ASSUME QueueInv, NEW s \in Streams, NEW r, NEW N, Follows(queue[s], r, N),
           fifo' = fifo, queue' = [queue EXCEPT ![s] = r],
           Cursor(s) = 1, \A x \in Streams : Cursor(x)' = Cursor(x)
    PROVE  Undisturbed(s, N, {})
<1>1. PICK q, b : q = queue[s] /\ b = <<>>
  OBVIOUS
<1>2. "DMA" \in QueueTypes /\ fifo["DMA"] \in Seq(Command) /\ b \in Seq(Command)
  BY <1>1 DEF QueueInv, TypeOK, GpuTypeOK, QueueTypes
<1>3. /\ \A u \in QueueTypes : \A Y :
            Y \cap N = {} => (LaneHas(r, 1, u, Y) => LaneHas(q, 1, u, Y))
      /\ \A X, Y : Y \cap N = {} => (QueueInOrder(q, 1, X, Y) => QueueInOrder(r, 1, X, Y))
  BY <1>1 DEF Follows
<1>4. \A X, Y : ~Meets(b, Y) /\ ~OutOfOrder(b, X, Y)
  BY <1>1, EmptyInOrder
<1>5. Hands(q, 1, "DMA", b, r, 1, N, {})
  BY <1>2, <1>3, <1>4, Zenon DEF Hands
<1>6. Cursor(s)' = 1 /\ \A x \in Streams \ {s} : Cursor(x)' = Cursor(x)
  OBVIOUS
<1>7. fifo' = [fifo EXCEPT !["DMA"] = fifo["DMA"] \o b]
  BY <1>1, <1>2, ConcatEmptySeq DEF QueueInv, TypeOK, GpuTypeOK
<1> QED
  <2>1. Hands(queue[s], Cursor(s), "DMA", b, r, Cursor(s)', N, {})
    BY <1>1, <1>5, <1>6
  <2>2. "DMA" \in QueueTypes
    BY <1>2
  <2> QED
    BY <1>6, <1>7, <2>1, <2>2, HandedUndisturbed

\* Nothing is left in the buffers.
LEMMA EmptyLanes ==
    ASSUME NEW r, r.backlog = <<>>, \A t \in QueueTypes : r.buf[t] = <<>>
    PROVE  /\ \A u \in QueueTypes : \A Y : ~LaneHas(r, 1, u, Y)
           /\ \A X, Y : QueueInOrder(r, 1, X, Y)
<1>1. \A i : i \notin 1..Len(r.backlog)
  OBVIOUS
<1>2. \A t \in QueueTypes : \A X, Y : ~Meets(r.buf[t], Y) /\ ~OutOfOrder(r.buf[t], X, Y)
  BY EmptyInOrder
<1>3. \A u \in QueueTypes : \A Y : ~LaneHas(r, 1, u, Y)
  BY <1>1, <1>2, Zenon DEF LaneHas
<1>4. \A X, Y : QueueInOrder(r, 1, X, Y)
  BY <1>1, <1>2, Zenon DEF QueueInOrder
<1> QED
  BY <1>3, <1>4

\* Without a backlog the buffer is handed over whole.
LEMMA EmptiedHands ==
    ASSUME NEW q, NEW n, NEW N, NEW M, Appends(q, n, N), NEW t \in QueueTypes,
           NEW r, r.backlog = <<>>, \A u \in QueueTypes : r.buf[u] = <<>>
    PROVE  Hands(q, 1, t, n.buf[t], r, 1, N, M)
<1>1. PICK b : b = n.buf[t]
  OBVIOUS
<1>2. b \in Seq(Command)
  BY <1>1, QueueFields DEF Appends
<1>3. /\ \A u \in QueueTypes : \A Y : ~LaneHas(r, 1, u, Y)
      /\ \A X, Y : QueueInOrder(r, 1, X, Y)
  BY EmptyLanes
<1>4. \A Y : Y \cap N = {} =>
          /\ Meets(b, Y) => Meets(q.buf[t], Y)
          /\ \A X : OutOfOrder(b, X, Y) => OutOfOrder(q.buf[t], X, Y)
  BY <1>1 DEF Appends
<1>5. \A Y : Y \cap N = {} => (Meets(b, Y) => LaneHas(q, 1, t, Y))
  BY <1>4, Zenon DEF LaneHas
<1>6. \A X, Y : Y \cap N = {} /\ QueueInOrder(q, 1, X, Y) => ~OutOfOrder(b, X, Y)
  BY <1>4, Zenon DEF QueueInOrder
<1>7. Hands(q, 1, t, b, r, 1, N, M)
  BY <1>2, <1>3, <1>5, <1>6, Zenon DEF Hands
<1> QED
  BY <1>1, <1>7

\* A piece, and the timeline release it may still lack.
LEMMA PieceHands ==
    ASSUME NEW q \in NvCommandQueue, NEW r, NEW s \in Streams, NEW e \in DOMAIN q.backlog,
           r.backlog = q.backlog, \A u \in QueueTypes : r.buf[u] = <<>>,
           NEW N, Plain \subseteq N
    PROVE  Hands(q, e, q.backlog[e].type, Handed(q.backlog[e], s), r, e + 1, N, N)
<1>1. PICK piece, a, b, t, k : /\ piece = q.backlog[e] /\ a = piece.buf
                               /\ b = Handed(piece, s) /\ t = piece.type /\ k = e + 1
  OBVIOUS
<1>2. /\ e \in Nat \ {0} /\ Len(q.backlog) \in Nat /\ e \in e..Len(q.backlog)
      /\ piece \in Split /\ piece.timelineCtr \in Nat
      /\ DOMAIN q.backlog = 1..Len(q.backlog)
  BY <1>1, QueueFields
<1>3. a \in Seq(Command) /\ t \in QueueTypes
  BY <1>1, <1>2 DEF Split
<1>4. /\ b \in Seq(Command)
      /\ \A Y : Y \cap N = {} =>
            /\ Meets(b, Y) => Meets(a, Y)
            /\ \A X : OutOfOrder(b, X, Y) => OutOfOrder(a, X, Y)
  <2>1. CASE ~piece.timelineNotifyPending
    BY <1>1, <1>3, <2>1 DEF Handed
  <2>2. CASE piece.timelineNotifyPending
    <3>1. PICK cmd : cmd = [kind |-> "release", sig |-> Timeline(s), payload |-> piece.timelineCtr]
      OBVIOUS
    <3>2. cmd \in Command
      BY <1>2, <3>1, CommandTypes, TimelineIsSignal
    <3>3. cmd \in N
      BY <3>1, <3>2 DEF Plain, Rel
    <3>4. b = Append(a, cmd)
      BY <1>1, <2>2, <3>1 DEF Handed
    <3>5. PICK c : c = Append(a, cmd)
      OBVIOUS
    <3>6. /\ \A X : Meets(c, X) => Meets(a, X) \/ cmd \in X
          /\ \A X, Y : OutOfOrder(c, X, Y) => OutOfOrder(a, X, Y) \/ cmd \in Y
      BY <1>3, <3>2, <3>5, AppendedOrder
    <3>7. \A Y : Y \cap N = {} => cmd \notin Y
      BY <3>3
    <3>8. \A Y : Y \cap N = {} =>
            /\ Meets(c, Y) => Meets(a, Y)
            /\ \A X : OutOfOrder(c, X, Y) => OutOfOrder(a, X, Y)
      BY <3>6, <3>7, Zenon
    <3>9. c \in Seq(Command)
      BY <1>3, <3>2, <3>5
    <3> QED
      BY <3>4, <3>5, <3>8, <3>9
  <2> QED
    BY <2>1, <2>2
<1>5. \A u \in QueueTypes : \A Y : LaneHas(r, k, u, Y) => LaneHas(q, e, u, Y)
  <2> SUFFICES ASSUME NEW u \in QueueTypes, NEW Y, LaneHas(r, k, u, Y)
               PROVE  LaneHas(q, e, u, Y)
    OBVIOUS
  <2>1. PICK i \in k..Len(q.backlog) : q.backlog[i].type = u /\ Meets(q.backlog[i].buf, Y)
    BY EmptyInOrder DEF LaneHas
  <2>2. i \in e..Len(q.backlog)
    BY <1>1, <1>2
  <2> QED
    BY <2>1, <2>2 DEF LaneHas
<1>6. \A Y : Y \cap N = {} => (Meets(b, Y) => LaneHas(q, e, t, Y))
  <2>1. \A Y : Meets(a, Y) => LaneHas(q, e, t, Y)
    BY <1>1, <1>2, Zenon DEF LaneHas
  <2> QED
    BY <1>4, <2>1, Zenon
<1>7. ASSUME NEW X, NEW Y, Y \cap N = {}, X \cap N = {}, QueueInOrder(q, e, X, Y)
      PROVE  /\ QueueInOrder(r, k, X, Y)
             /\ ~OutOfOrder(b, X, Y)
             /\ Meets(b, X) => \A u \in QueueTypes : ~LaneHas(r, k, u, Y)
  <2>1. \A i \in e..Len(q.backlog) :
          /\ ~OutOfOrder(q.backlog[i].buf, X, Y)
          /\ Meets(q.backlog[i].buf, X) => \A u \in QueueTypes : ~LaneHas(q, i + 1, u, Y)
    BY <1>7 DEF QueueInOrder
  <2>2. \A i \in k..Len(q.backlog) : i \in e..Len(q.backlog)
    BY <1>1, <1>2
  <2>3. \A m : \A u \in QueueTypes : LaneHas(r, m, u, Y) => LaneHas(q, m, u, Y)
    BY EmptyInOrder DEF LaneHas
  <2>4. \A u \in QueueTypes : ~OutOfOrder(r.buf[u], X, Y)
    BY EmptyInOrder
  <2>5. \A i \in k..Len(r.backlog) :
          /\ ~OutOfOrder(r.backlog[i].buf, X, Y)
          /\ Meets(r.backlog[i].buf, X) => \A u \in QueueTypes : ~LaneHas(r, i + 1, u, Y)
    BY <2>1, <2>2, <2>3
  <2>6. QueueInOrder(r, k, X, Y)
    BY <2>4, <2>5 DEF QueueInOrder
  <2>7. ~OutOfOrder(a, X, Y) /\ (Meets(a, X) => \A u \in QueueTypes : ~LaneHas(q, k, u, Y))
    BY <1>1, <1>2, <2>1
  <2> QED
    BY <1>4, <1>7, <2>3, <2>6, <2>7
<1>8. Hands(q, e, t, b, r, k, N, N)
  BY <1>4, <1>5, <1>6, <1>7, Zenon DEF Hands
<1> QED
  BY <1>1, <1>8

\* The backlog has been played back.
LEMMA PlayedHands ==
    ASSUME NEW q, NEW r, \A u \in QueueTypes : r.buf[u] = <<>>, r.backlog = <<>>,
           NEW k, NEW t, NEW N
    PROVE  Hands(q, k, t, <<>>, r, 1, N, {})
<1>1. /\ \A u \in QueueTypes : \A Y : ~LaneHas(r, 1, u, Y)
      /\ \A X, Y : QueueInOrder(r, 1, X, Y)
  BY EmptyLanes
<1>2. PICK b : b = <<>>
  OBVIOUS
<1>3. b \in Seq(Command) /\ \A X, Y : ~Meets(b, Y) /\ ~OutOfOrder(b, X, Y)
  BY <1>2, EmptyInOrder
<1>4. Hands(q, k, t, b, r, 1, N, {})
  BY <1>1, <1>3, Zenon DEF Hands
<1> QED
  BY <1>2, <1>4

\* A channel takes its next command.
LEMMA TakenUndisturbed ==
    ASSUME QueueInv, NEW c \in QueueTypes, fifo[c] # <<>>, Take(c), UNCHANGED <<queue, cpu>>,
           NEW s, NEW N, NEW M
    PROVE  Undisturbed(s, N, M)
<1>1. PICK a, b : a = fifo[c] /\ b = Tail(a)
  OBVIOUS
<1>2. /\ a \in Seq(Command) /\ a # <<>>
      /\ \A d \in QueueTypes : fifo'[d] = IF d = c THEN b ELSE fifo[d]
      /\ \A x \in Streams : queue'[x] = queue[x] /\ Cursor(x)' = Cursor(x)
  BY <1>1 DEF QueueInv, TypeOK, GpuTypeOK, Take, Cursor
<1>3. /\ \A X : Meets(b, X) => Meets(a, X)
      /\ \A X, Y : OutOfOrder(b, X, Y) => OutOfOrder(a, X, Y)
  BY <1>1, <1>2, TailOrder
<1>4. \A d \in QueueTypes :
          /\ \A X : Meets(fifo'[d], X) => Meets(fifo[d], X)
          /\ \A X, Y : OutOfOrder(fifo'[d], X, Y) => OutOfOrder(fifo[d], X, Y)
  BY <1>1, <1>2, <1>3
<1>5. ASSUME NEW t \in QueueTypes, NEW X, Absent(t, X)
      PROVE  Absent(t, X)'
  BY <1>2, <1>4, <1>5 DEF Absent
<1>6. ASSUME NEW v \in Streams, NEW X, NEW Y, Sorted(v, X, Y)
      PROVE  Sorted(v, X, Y)'
  BY <1>2, <1>4, <1>6 DEF Sorted
<1> QED
  BY <1>5, <1>6, Zenon DEF Undisturbed

\* A step without commands.
LEMMA StillUndisturbed ==
    ASSUME UNCHANGED <<fifo, queue>>, \A x \in Streams : Cursor(x)' = Cursor(x),
           NEW s, NEW N, NEW M
    PROVE  Undisturbed(s, N, M)
<1>1. ASSUME NEW t \in QueueTypes, NEW X, Absent(t, X)
      PROVE  Absent(t, X)'
  BY <1>1 DEF Absent
<1>2. ASSUME NEW v \in Streams, NEW X, NEW Y, Sorted(v, X, Y)
      PROVE  Sorted(v, X, Y)'
  BY <1>2 DEF Sorted
<1> QED
  BY <1>1, <1>2, Zenon DEF Undisturbed

LEMMA UndisturbedMore ==
    ASSUME NEW s, NEW N, NEW M, Undisturbed(s, N, M),
           NEW N2, N \subseteq N2, NEW M2, M \subseteq M2, N2 \subseteq M2
    PROVE  Undisturbed(s, N2, M2)
<1>1. \A X : (X \cap N2 = {} => X \cap N = {}) /\ (X \cap M2 = {} => X \cap M = {} /\ X \cap N = {})
  OBVIOUS
<1>2. \A t \in QueueTypes : \A X : X \cap N2 = {} /\ Absent(t, X) => Absent(t, X)'
  BY <1>1, Zenon DEF Undisturbed
<1>3. \A v \in Streams : \A X, Y :
          /\ Y \cap N2 = {} /\ X \cap M2 = {} /\ (X \cap N2 = {} \/ v = s)
          /\ Sorted(v, X, Y)
          => Sorted(v, X, Y)'
  BY <1>1, Zenon DEF Undisturbed
<1> QED
  BY <1>2, <1>3, Zenon DEF Undisturbed

-----------------------------------------------------------------------------
(* Events.  A program that records an event once gives it a signal that is  *)
(* fresh; its release then comes behind all that its stream had issued, in  *)
(* the channel the stream is at, and the other channel is done.             *)

Recorded(e) == mark[e].nth # 0
LaneOf(e) == IF events[e].computeSignal # NULL THEN "COMPUTE" ELSE "DMA"

ReleasesOf(g) == {cmd \in Releases : cmd.sig = g}
Noted(e) == ReleasesOf(EventSignal(e))

\* The first n operations of s.
WorkUpto(s, n) == {cmd \in Launches \cup Copies : cmd.op[1] = s /\ cmd.op[2] <= n}

\* The next operation of s.
NextWork(s) == {cmd \in Launches \cup Copies : cmd.op[1] = s /\ cmd.op[2] = Len(issued[s]) + 1}

Before(e, f) ==
    Recorded(e) /\ Recorded(f) /\ RecordedBefore(e, f) /\ LaneOf(e) = LaneOf(f)

\* g has never been released, and no event holds it.
Fresh(g) ==
    /\ value[g] = 0
    /\ \A t \in QueueTypes : Absent(t, ReleasesOf(g))
    /\ \A e \in Events : Recorded(e) => EventSignal(e) # g

\* So it is with the signals of the pools.
FreshSignals ==
    \A s \in Streams :
        /\ \A i \in DOMAIN queue[s].freeSignals : Fresh(<<s, queue[s].freeSignals[i]>>)
        /\ \A i, j \in DOMAIN queue[s].freeSignals :
              queue[s].freeSignals[i] = queue[s].freeSignals[j] => i = j

\* e has been recorded on s, and g is its signal and of no other event.
Marked(e, s, g) ==
    /\ s \in Streams /\ InUse(s)
    /\ g \in Signals
    /\ NULL \in {events[e].computeSignal, events[e].dmaSignal}
    /\ mark[e].after <= Len(issued[s])
    /\ mark[e].nth <= records
    /\ \A f \in Events : Recorded(f) /\ EventSignal(f) = g => f = e

EventsMarked ==
    \A e \in Events :
        /\ ~Recorded(e) => events[e].computeSignal = NULL /\ events[e].dmaSignal = NULL
        /\ Recorded(e) => Marked(e, events[e].stream, EventSignal(e))

\* The release of an event goes through one channel,
LanesKept == \A e \in Events : Recorded(e) => Absent(Other(LaneOf(e)), Noted(e))

\* behind the operations before the record,
WorkBefore ==
    \A e \in Events : Recorded(e) =>
        Sorted(events[e].stream, Noted(e), WorkUpto(events[e].stream, mark[e].after))

\* and when it is in its channel, none of them is in the other.
NoneAcross ==
    \A e \in Events : Recorded(e) /\ Meets(fifo[LaneOf(e)], Noted(e)) =>
        \A o \in Ops : o[1] = events[e].stream /\ o[2] <= mark[e].after =>
            ~Has(fifo[Other(LaneOf(e))], o) /\ o \notin Underway(Other(LaneOf(e)))

\* A piece of the backlog with the release vouches for them.
Vouches(q, X, n) ==
    \A j \in DOMAIN q.backlog :
        Meets(q.backlog[j].buf, X) => n + 2 <= q.backlog[j].timelineCtr

PiecesMarked ==
    \A e \in Events :
        Recorded(e) => Vouches(queue[events[e].stream], Noted(e), mark[e].after)

\* So they are complete once the signal is set.
HitSound ==
    \A e \in Events : Recorded(e) /\ value[EventSignal(e)] # 0 =>
        \A o \in Ops : o[1] = events[e].stream /\ o[2] <= mark[e].after => o \in done

\* Events recorded after one another in a channel are released in that order,
EventsBefore ==
    \A e, f \in Events : Before(e, f) => Sorted(events[f].stream, Noted(f), Noted(e))

\* and stamped in it.
Stamped ==
    /\ \A g \in Signals : stamp[g] <= clock
    /\ \A e, f \in Events : Before(e, f) /\ value[EventSignal(f)] # 0 =>
          /\ \A t \in QueueTypes : Absent(t, Noted(e))
          /\ value[EventSignal(e)] # 0 => stamp[EventSignal(e)] <= stamp[EventSignal(f)]

\* The program waits for an event that it has recorded.
Awaiting == cpu.at = "waitEvent" => Recorded(cpu.event)

EventInv ==
    /\ FreshSignals /\ EventsMarked /\ LanesKept /\ WorkBefore /\ NoneAcross
    /\ PiecesMarked /\ HitSound /\ EventsBefore /\ Stamped /\ Awaiting

\* Events are recorded once, and what the timelines need.
EventRules == Orderly /\ "record once" \in ClientRules

Grounds == StreamInv /\ Unborn /\ TimelineInv /\ RunsOnce /\ EveryOpHeld

LEMMA PlainApart ==
    /\ \A g : (\A x \in Streams : g # Timeline(x)) => ReleasesOf(g) \cap Plain = {}
    /\ \A s, n : WorkUpto(s, n) \cap Plain = {}
<1>1. \A cmd \in Releases : cmd.kind = "release"
  BY DEF Releases
<1>2. \A cmd \in Launches \cup Copies : cmd.kind \in {"launch", "copy"}
  BY DEF Launches, Copies
<1>3. \A cmd \in Plain : cmd.kind \in {"acquire", "localMem", "release"}
  BY DEF Plain, Rel
<1>4. ASSUME NEW g, \A x \in Streams : g # Timeline(x), NEW cmd, cmd \in ReleasesOf(g),
             cmd \in Plain
      PROVE  FALSE
  BY <1>1, <1>4 DEF Plain, Rel, ReleasesOf
<1>5. ASSUME NEW s, NEW n, NEW cmd, cmd \in WorkUpto(s, n), cmd \in Plain
      PROVE  FALSE
  BY <1>2, <1>3, <1>5 DEF WorkUpto
<1> QED
  BY <1>4, <1>5

LEMMA WorkApart ==
    /\ \A g, s, n : ReleasesOf(g) \cap WorkUpto(s, n) = {}
    /\ \A g, s : ReleasesOf(g) \cap NextWork(s) = {}
    /\ \A g, h : g # h => ReleasesOf(g) \cap ReleasesOf(h) = {}
<1>1. \A g : \A cmd \in ReleasesOf(g) : cmd.kind = "release" /\ cmd.sig = g
  BY DEF ReleasesOf, Releases
<1>2. \A cmd \in Launches \cup Copies : cmd.kind # "release"
  BY DEF Launches, Copies
<1>3. \A s, n : \A cmd \in WorkUpto(s, n) \cup NextWork(s) : cmd.kind # "release"
  BY <1>2 DEF WorkUpto, NextWork
<1> QED
  BY <1>1, <1>3

LEMMA NextWorkApart ==
    ASSUME NEW s \in Streams, Len(issued[s]) \in Nat, NEW v, NEW n \in Nat,
           v = s => n <= Len(issued[s])
    PROVE  WorkUpto(v, n) \cap NextWork(s) = {}
BY DEF WorkUpto, NextWork

\* An event's signal is none of a timeline.
LEMMA EventSignalApart ==
    ASSUME EventsApart, NEW e \in Events, NEW s \in Streams
    PROVE  EventSignal(e) # Timeline(s)
BY DEF EventsApart, EventSignal

\* What a step that neither releases the signal of an event nor records one adds
\* is nothing the events speak of.
LEMMA MarkedApart ==
    ASSUME QueueInv, EventsApart, EventsMarked, NEW s \in Streams,
           NEW N, N \subseteq Plain \cup NextWork(s), NEW e \in Events, Recorded(e)
    PROVE  /\ Noted(e) \cap N = {}
           /\ WorkUpto(events[e].stream, mark[e].after) \cap N = {}
<1>1. PICK g : g = EventSignal(e)
  OBVIOUS
<1>2. ReleasesOf(g) \cap Plain = {} /\ ReleasesOf(g) \cap NextWork(s) = {}
  BY <1>1, EventSignalApart, PlainApart, WorkApart
<1>3. PICK v, n : v = events[e].stream /\ n = mark[e].after
  OBVIOUS
<1>4. n \in Nat /\ Len(issued[s]) \in Nat /\ (v = s => n <= Len(issued[s]))
  BY <1>3 DEF EventsMarked, Marked, QueueInv, TypeOK, HostTypeOK
<1>5. WorkUpto(v, n) \cap Plain = {} /\ WorkUpto(v, n) \cap NextWork(s) = {}
  BY <1>4, PlainApart, NextWorkApart
<1> QED
  BY <1>1, <1>2, <1>3, <1>5 DEF Noted

\* What the places of the commands say.
Arranged == EventsMarked /\ LanesKept /\ WorkBefore /\ EventsBefore

LEMMA QuietArranged ==
    ASSUME QueueInv, EventsApart, EventInv, NEW s, NEW N, s \in Streams \/ N = {},
           N \subseteq Plain \cup NextWork(s), Undisturbed(s, N, N),
           UNCHANGED <<events, mark, records>>,
           \A x \in Streams : /\ InUse(x) => InUse(x)'
                              /\ Len(issued[x]) <= Len(issued'[x])
                              /\ Len(issued'[x]) \in Nat
    PROVE  Arranged'
<1>1. \A e : /\ Recorded(e)' = Recorded(e) /\ LaneOf(e)' = LaneOf(e)
             /\ EventSignal(e)' = EventSignal(e) /\ Noted(e)' = Noted(e)
  BY DEF Recorded, LaneOf, EventSignal, Noted
<1>2. \A e, f : Before(e, f)' = Before(e, f)
  BY <1>1 DEF Before, RecordedBefore
<1>3. EventsMarked
  BY DEF EventInv
<1>4. \A e \in Events : Recorded(e) =>
          Noted(e) \cap N = {} /\ WorkUpto(events[e].stream, mark[e].after) \cap N = {}
  <2>1. CASE s \in Streams
    BY <1>3, <2>1, MarkedApart
  <2>2. CASE N = {}
    BY <2>2
  <2> QED
    BY <2>1, <2>2
<1>5. /\ \A t \in QueueTypes : \A X : X \cap N = {} /\ Absent(t, X) => Absent(t, X)'
      /\ \A v \in Streams : \A X, Y :
            X \cap N = {} /\ Y \cap N = {} /\ Sorted(v, X, Y) => Sorted(v, X, Y)'
  BY Zenon DEF Undisturbed
<1>6. EventsMarked'
  <2> SUFFICES ASSUME NEW e \in Events
               PROVE  (/\ ~Recorded(e) => events[e].computeSignal = NULL /\ events[e].dmaSignal = NULL
                       /\ Recorded(e) => Marked(e, events[e].stream, EventSignal(e)))'
    BY DEF EventsMarked
  <2>1. CASE ~Recorded(e)
    BY <1>1, <1>3, <2>1 DEF EventsMarked
  <2>2. CASE Recorded(e)
    <3>1. PICK v, g : v = events[e].stream /\ g = EventSignal(e)
      OBVIOUS
    <3>2. Marked(e, v, g)
      BY <1>3, <2>2, <3>1 DEF EventsMarked
    <3>3. InUse(v)' /\ mark[e].after \in Nat /\ Len(issued[v]) \in Nat
      BY <3>2 DEF QueueInv, TypeOK, HostTypeOK, Marked
    <3>4. mark[e].after <= Len(issued'[v])
      BY <3>2, <3>3 DEF Marked
    <3>5. Marked(e, v, g)'
      BY <1>1, <3>2, <3>3, <3>4 DEF Marked
    <3>6. events'[e].stream = v /\ EventSignal(e)' = g
      BY <1>1, <3>1
    <3> QED
      BY <1>1, <2>2, <3>5, <3>6 DEF Marked
  <2> QED
    BY <2>1, <2>2
<1>8. \A e : Recorded(e) /\ e \in Events => LaneOf(e) \in QueueTypes /\ Other(LaneOf(e)) \in QueueTypes
  BY OtherType DEF LaneOf, QueueTypes
<1>9. LanesKept'
  BY <1>1, <1>4, <1>5, <1>8 DEF LanesKept, EventInv
<1>10. WorkBefore'
  <2> SUFFICES ASSUME NEW e \in Events, Recorded(e)
               PROVE  Sorted(events[e].stream, Noted(e), WorkUpto(events[e].stream, mark[e].after))'
    BY <1>1 DEF WorkBefore
  <2>1. PICK v, X, Y : v = events[e].stream /\ X = Noted(e) /\ Y = WorkUpto(v, mark[e].after)
    OBVIOUS
  <2>2. v \in Streams /\ Sorted(v, X, Y) /\ X \cap N = {} /\ Y \cap N = {}
    BY <1>3, <1>4, <2>1 DEF EventInv, WorkBefore, EventsMarked, Marked
  <2>3. Sorted(v, X, Y)'
    BY <1>5, <2>2
  <2>4. events'[e].stream = v /\ Noted(e)' = X /\ WorkUpto(events'[e].stream, mark'[e].after) = Y
    BY <1>1, <2>1
  <2> QED
    BY <2>3, <2>4
<1>11. EventsBefore'
  <2> SUFFICES ASSUME NEW e \in Events, NEW f \in Events, Before(e, f)
               PROVE  Sorted(events[f].stream, Noted(f), Noted(e))'
    BY <1>2 DEF EventsBefore
  <2>1. PICK v, X, Y : v = events[f].stream /\ X = Noted(f) /\ Y = Noted(e)
    OBVIOUS
  <2>2. v \in Streams /\ Sorted(v, X, Y) /\ X \cap N = {} /\ Y \cap N = {}
    BY <1>3, <1>4, <2>1 DEF EventInv, EventsBefore, EventsMarked, Marked, Before
  <2>3. Sorted(v, X, Y)'
    BY <1>5, <2>2
  <2>4. events'[f].stream = v /\ Noted(f)' = X /\ Noted(e)' = Y
    BY <1>1, <2>1
  <2> QED
    BY <2>3, <2>4
<1> QED
  BY <1>6, <1>9, <1>10, <1>11 DEF Arranged

LEMMA QuietEvents ==
    ASSUME QueueInv, EventsApart, EventInv, NEW s, NEW N, s \in Streams \/ N = {},
           N \subseteq Plain \cup NextWork(s), Undisturbed(s, N, N),
           UNCHANGED <<events, mark, records, stamp, clock>>,
           \A g : value'[g] = value[g] \/ \E y \in Streams : g = Timeline(y),
           done \subseteq done',
           \A x \in Streams : /\ queue'[x].freeSignals = queue[x].freeSignals
                              /\ InUse(x) => InUse(x)'
                              /\ Len(issued[x]) <= Len(issued'[x])
                              /\ Len(issued'[x]) \in Nat,
           NoneAcross', PiecesMarked', Awaiting'
    PROVE  EventInv'
<1>1. \A e : /\ Recorded(e)' = Recorded(e) /\ LaneOf(e)' = LaneOf(e)
             /\ EventSignal(e)' = EventSignal(e) /\ Noted(e)' = Noted(e)
  BY DEF Recorded, LaneOf, EventSignal, Noted
<1>2. \A e, f : Before(e, f)' = Before(e, f)
  BY <1>1 DEF Before, RecordedBefore
<1>3. EventsMarked
  BY DEF EventInv
<1>4. \A e \in Events : Recorded(e) =>
          Noted(e) \cap N = {} /\ WorkUpto(events[e].stream, mark[e].after) \cap N = {}
  <2>1. CASE s \in Streams
    BY <1>3, <2>1, MarkedApart
  <2>2. CASE N = {}
    BY <2>2
  <2> QED
    BY <2>1, <2>2
<1>5. /\ \A t \in QueueTypes : \A X : X \cap N = {} /\ Absent(t, X) => Absent(t, X)'
      /\ \A v \in Streams : \A X, Y :
            X \cap N = {} /\ Y \cap N = {} /\ Sorted(v, X, Y) => Sorted(v, X, Y)'
  BY Zenon DEF Undisturbed
<1>6. FreshSignals'
  <2>1. ASSUME NEW g, \A y \in Streams : g # Timeline(y), Fresh(g)
        PROVE  Fresh(g)'
    <3>1. ReleasesOf(g) \cap N = {}
      BY <2>1, PlainApart, WorkApart
    <3>2. \A t \in QueueTypes : Absent(t, ReleasesOf(g))'
      BY <1>5, <2>1, <3>1 DEF Fresh
    <3> QED
      BY <1>1, <2>1, <3>2 DEF Fresh
  <2>2. ASSUME NEW x \in Streams, NEW free, free = queue[x].freeSignals
        PROVE  /\ \A i \in DOMAIN free : Fresh(<<x, free[i]>>)'
               /\ \A i, j \in DOMAIN free : free[i] = free[j] => i = j
    <3>1. ASSUME NEW i \in DOMAIN free
          PROVE  Fresh(<<x, free[i]>>)'
      <4>1. PICK g : g = <<x, free[i]>>
        OBVIOUS
      <4>2. Fresh(g)
        BY <2>2, <3>1, <4>1 DEF EventInv, FreshSignals
      <4>3. \A y \in Streams : g # Timeline(y)
        BY <2>2, <3>1, <4>1 DEF EventsApart, Timeline
      <4>4. Fresh(g)'
        BY <2>1, <4>2, <4>3
      <4> QED
        BY <4>1, <4>4
    <3>2. \A i, j \in DOMAIN free : free[i] = free[j] => i = j
      BY <2>2 DEF EventInv, FreshSignals
    <3> QED
      BY <3>1, <3>2
  <2>3. \A x \in Streams : queue'[x].freeSignals = queue[x].freeSignals
    OBVIOUS
  <2>4. \A x \in Streams :
          /\ \A i \in DOMAIN queue[x].freeSignals : Fresh(<<x, queue[x].freeSignals[i]>>)'
          /\ \A i, j \in DOMAIN queue[x].freeSignals :
                queue[x].freeSignals[i] = queue[x].freeSignals[j] => i = j
    BY <2>2
  <2> QED
    BY <2>3, <2>4 DEF FreshSignals
<1>7. Arranged'
  BY QuietArranged
<1>8. \A e \in Events : value'[EventSignal(e)] = value[EventSignal(e)]
  BY EventSignalApart
<1>12. HitSound'
  BY <1>1, <1>8 DEF HitSound, EventInv
<1>13. Stamped'
  <2>1. \A g \in Signals : stamp'[g] <= clock'
    BY DEF Stamped, EventInv
  <2> SUFFICES ASSUME NEW e \in Events, NEW f \in Events, Before(e, f), value[EventSignal(f)] # 0
               PROVE  /\ \A t \in QueueTypes : Absent(t, Noted(e))'
                      /\ value[EventSignal(e)] # 0 => stamp[EventSignal(e)] <= stamp[EventSignal(f)]
    BY <1>1, <1>2, <1>8, <2>1 DEF Stamped
  <2>2. PICK Y : Y = Noted(e)
    OBVIOUS
  <2>3. Y \cap N = {} /\ \A t \in QueueTypes : Absent(t, Y)
    BY <1>4, <2>2 DEF Before, EventInv, Stamped
  <2>4. \A t \in QueueTypes : Absent(t, Y)'
    BY <1>5, <2>3
  <2>5. Noted(e)' = Y
    BY <1>1, <2>2
  <2> QED
    BY <2>4, <2>5 DEF EventInv, Stamped
<1> QED
  BY <1>6, <1>7, <1>12, <1>13 DEF EventInv, Arranged

-----------------------------------------------------------------------------
(* Events and the calls of the program.                                     *)

LEMMA FollowsVouches ==
    ASSUME NEW q, NEW r, NEW N, Follows(q, r, N), NEW X, NEW n, Vouches(q, X, n),
           n + 2 <= q.timelineCtr
    PROVE  Vouches(r, X, n)
<1>1. \A j \in DOMAIN r.backlog : \/ j \in DOMAIN q.backlog /\ r.backlog[j] = q.backlog[j]
                                  \/ r.backlog[j].timelineCtr = q.timelineCtr
  BY DEF Follows
<1> QED
  BY <1>1 DEF Vouches

\* A call of s that hands nothing to the GPU and records no event.
LEMMA CalledEvents ==
    ASSUME Grounds, EventInv, NEW s \in Streams, Ready(s),
           NEW r, NEW N, N \subseteq Plain \cup NextWork(s), Follows(queue[s], r, N),
           r.freeSignals = queue[s].freeSignals, queue' = [queue EXCEPT ![s] = r],
           UNCHANGED <<gpuVars, state, events, mark, records>>,
           \A x \in Streams : Len(issued[x]) <= Len(issued'[x]) /\ Len(issued'[x]) \in Nat,
           cpu' = cpu \/ cpu' = [at |-> "submit", stream |-> s, entry |-> 1]
    PROVE  EventInv'
<1>1. /\ QueueInv /\ OrderInv /\ EventsApart
      /\ UNCHANGED <<fifo, running, done, value, stamp, clock>>
  BY DEF Grounds, StreamInv, TimelineInv, gpuVars
<1>2. /\ \A x : Cursor(x) = 1
      /\ \A x : Cursor(x)' = 1
      /\ cpu'.at # "waitEvent"
  <2>1. cpu.at = "idle"
    BY DEF Ready, Idle
  <2>2. CASE cpu' = cpu
    BY <2>1, <2>2 DEF Cursor
  <2>3. CASE cpu' = [at |-> "submit", stream |-> s, entry |-> 1]
    BY <2>1, <2>3 DEF Cursor
  <2> QED
    BY <2>2, <2>3
<1>3. Undisturbed(s, N, N)
  <2>1. Undisturbed(s, N, {})
    BY <1>1, <1>2, CalledUndisturbed
  <2>2. N \subseteq N /\ {} \subseteq N
    OBVIOUS
  <2> QED
    BY <2>1, <2>2, UndisturbedMore
<1>4. \A x \in Streams : queue'[x] = IF x = s THEN r ELSE queue[x]
  BY <1>1 DEF QueueInv, TypeOK, HostTypeOK
<1>5. \A e : /\ Recorded(e)' = Recorded(e) /\ LaneOf(e)' = LaneOf(e) /\ Noted(e)' = Noted(e)
  BY DEF Recorded, LaneOf, Noted, EventSignal
<1>6. NoneAcross'
  <2>1. \A t : Underway(t)' = Underway(t)
    BY <1>1 DEF Underway
  <2> QED
    BY <1>1, <1>5, <2>1 DEF NoneAcross, EventInv
<1>7. PiecesMarked'
  <2> SUFFICES ASSUME NEW e \in Events, Recorded(e)
               PROVE  Vouches(queue[events[e].stream], Noted(e), mark[e].after)'
    BY <1>5 DEF PiecesMarked
  <2>1. PICK v, X, n : v = events[e].stream /\ X = Noted(e) /\ n = mark[e].after
    OBVIOUS
  <2>2. v \in Streams /\ InUse(v) /\ Vouches(queue[v], X, n) /\ n <= Len(issued[v])
    BY <2>1 DEF EventInv, PiecesMarked, EventsMarked, Marked
  <2>3. n + 2 <= queue[v].timelineCtr
    <3>1. n \in Nat /\ Len(issued[v]) \in Nat
      BY <1>1, <2>1, <2>2 DEF QueueInv, TypeOK, HostTypeOK
    <3> QED
      BY <1>1, <2>2, <3>1 DEF OrderInv, CountersSound
  <2>4. Vouches(queue'[v], X, n)
    <3>1. CASE v = s
      BY <1>4, <2>2, <2>3, <3>1, FollowsVouches
    <3>2. CASE v # s
      BY <1>4, <2>2, <3>2
    <3> QED
      BY <3>1, <3>2
  <2>5. events'[e].stream = v /\ Noted(e)' = X /\ mark'[e].after = n
    BY <1>5, <2>1
  <2> QED
    BY <2>4, <2>5 DEF Vouches
<1>8. Awaiting'
  BY <1>2 DEF Awaiting
<1>9. \A x \in Streams : /\ queue'[x].freeSignals = queue[x].freeSignals
                         /\ InUse(x) => InUse(x)'
  BY <1>4 DEF InUse
<1> QED
  BY <1>1, <1>3, <1>6, <1>7, <1>8, <1>9, QuietEvents

\* An operation joins the buffer.
LEMMA OperationFollows ==
    ASSUME NEW q, NEW p \in NvCommandQueue, NEW s \in Streams, NEW N, Plain \subseteq N,
           Follows(q, p, N), NEW cmd \in Command, cmd \in N,
           NEW t \in QueueTypes, NEW async \in BOOLEAN
    PROVE  Follows(q, EndOp(Enqueue(p, cmd, t), s, async, t), N)
<1>1. PICK e : e = Enqueue(p, cmd, t)
  OBVIOUS
<1>2. Appends(p, e, N) /\ e \in NvCommandQueue
  BY <1>1, EnqueueAppends DEF Appends
<1>3. PICK r : r = EndOp(e, s, async, t)
  OBVIOUS
<1>4. Appends(e, r, N)
  BY <1>2, <1>3, EndOpAppends
<1>5. Follows(q, r, N)
  BY <1>2, <1>4, FollowsAppends
<1> QED
  BY <1>1, <1>3, <1>5

LEMMA IssuedGrows ==
    ASSUME QueueInv, NEW s \in Streams, NEW kind,
           issued' = [issued EXCEPT ![s] = Append(issued[s], kind)]
    PROVE  \A x \in Streams : Len(issued[x]) <= Len(issued'[x]) /\ Len(issued'[x]) \in Nat
<1> SUFFICES ASSUME NEW x \in Streams
             PROVE  Len(issued[x]) <= Len(issued'[x]) /\ Len(issued'[x]) \in Nat
  OBVIOUS
<1>1. PICK a, b : a = issued[x] /\ b = issued'[x]
  OBVIOUS
<1>2. a \in Seq(OpKind) /\ (b = a \/ b = Append(a, kind))
  BY <1>1 DEF QueueInv, TypeOK, HostTypeOK
<1>3. Len(a) \in Nat /\ Len(Append(a, kind)) = Len(a) + 1
  BY <1>2
<1>4. Len(b) = Len(a) \/ Len(b) = Len(a) + 1
  BY <1>2, <1>3
<1> QED
  BY <1>1, <1>3, <1>4

LEMMA GpuMemcpyKeepsEvents ==
    ASSUME Orderly, Grounds, EventInv, NEW s \in Streams, NEW async \in BOOLEAN,
           GpuMemcpy(s, async)
    PROVE  EventInv'
<1>1. /\ Ready(s) /\ Len(issued[s]) < MaxOps /\ "DMA" \in QueueTypes
      /\ QueueInv /\ OrderInv
      /\ UNCHANGED <<gpuVars, cpu, state, events, mark, records>>
      /\ issued' = [issued EXCEPT ![s] = Append(issued[s], [type |-> "DMA", async |-> async])]
  BY DEF GpuMemcpy, QueueTypes, Grounds, StreamInv
<1>2. PICK q \in NvCommandQueue : q = queue[s]
  BY <1>1 DEF QueueInv, TypeOK, HostTypeOK
<1>3. OneBuffer(q)
  BY <1>1, <1>2, ReadyQueue DEF QueueSound
<1>4. PICK p : p = SwitchTo(q, "DMA")
  OBVIOUS
<1>5. Proceeds(q, p, s) /\ p.timelineCtr = q.timelineCtr /\ p \in NvCommandQueue
  BY <1>1, <1>3, <1>4, SwitchToProceeds DEF Proceeds, Onwards
<1>6. p.timelineCtr + 1 < CtrModulus
  BY <1>1, <1>2, <1>5, CounterBelow DEF Orderly
<1>7. PICK copy : copy = [kind |-> "copy", op |-> <<s, Len(issued[s]) + 1>>]
  OBVIOUS
<1>8. copy \in Command /\ IsWork(copy) /\ copy \in NextWork(s)
  <2>1. HostTypeOK /\ <<s, Len(issued[s]) + 1>> \in Ops
    BY <1>1, NextOpIsOp DEF QueueInv, TypeOK
  <2> QED
    BY <1>7, <2>1 DEF Command, Copies, IsWork, NextWork
<1>9. PICK N : N = Plain \cup NextWork(s)
  OBVIOUS
<1>10. Follows(q, p, N) /\ Plain \subseteq N /\ copy \in N
  BY <1>1, <1>3, <1>4, <1>8, <1>9, SwitchToFollows
<1>11. PICK r : r = EndOp(Enqueue(p, copy, "DMA"), s, async, "DMA")
  OBVIOUS
<1>12. Proceeds(q, r, s) /\ Follows(q, r, N)
  BY <1>1, <1>5, <1>6, <1>8, <1>10, <1>11, OperationProceeds, OperationFollows
<1>13. queue' = [queue EXCEPT ![s] = r] /\ r.freeSignals = q.freeSignals
  BY <1>2, <1>4, <1>7, <1>11, <1>12 DEF GpuMemcpy, Proceeds
<1>14. \A x \in Streams : Len(issued[x]) <= Len(issued'[x]) /\ Len(issued'[x]) \in Nat
  BY <1>1, IssuedGrows
<1>15. N \subseteq Plain \cup NextWork(s)
  BY <1>9
<1> QED
  BY <1>1, <1>2, <1>12, <1>13, <1>14, <1>15, CalledEvents

LEMMA LaunchKeepsEvents ==
    ASSUME Orderly, Grounds, EventInv, NEW s \in Streams, NEW f \in Funcs,
           NEW async \in BOOLEAN, LaunchFunction(s, f, async)
    PROVE  EventInv'
<1>1. /\ Ready(s) /\ Len(issued[s]) < MaxOps /\ "COMPUTE" \in QueueTypes
      /\ QueueInv /\ OrderInv
      /\ UNCHANGED <<gpuVars, cpu, state, events, mark, records>>
      /\ issued' = [issued EXCEPT ![s] = Append(issued[s], [type |-> "COMPUTE", async |-> async])]
  BY DEF LaunchFunction, MayLaunch, QueueTypes, Grounds, StreamInv
<1>2. PICK q \in NvCommandQueue : q = queue[s]
  BY <1>1 DEF QueueInv, TypeOK, HostTypeOK
<1>3. PICK N : N = Plain \cup NextWork(s)
  OBVIOUS
<1>4. PICK p : p = Prepared(s, f, async).queue
  OBVIOUS
<1>5. Proceeds(q, p, s) /\ p.timelineCtr = q.timelineCtr /\ p \in NvCommandQueue
  BY <1>1, <1>2, <1>4, PreparedProceeds DEF Proceeds, Onwards
<1>6. Follows(q, p, N) /\ Plain \subseteq N
  BY <1>1, <1>2, <1>3, <1>4, PreparedFollows
<1>7. KernArgsFit(p)
  BY <1>4 DEF LaunchFunction
<1>8. PICK slot \in 0..KernArgsSlots : slot = p.kernArgsWriteIdx /\ slot + 1 \in 0..KernArgsSlots
  BY <1>5, <1>7, FuncAssumption DEF KernArgsFit, NvCommandQueue
<1>9. PICK taken : taken = [p EXCEPT !.kernArgsWriteIdx = slot + 1]
  OBVIOUS
<1>10. /\ taken \in NvCommandQueue /\ taken.buf = p.buf /\ taken.backlog = p.backlog
       /\ taken.freeSignals = p.freeSignals /\ taken.timelineCtr = p.timelineCtr
       /\ taken.timelineNotifyPending = p.timelineNotifyPending
  BY <1>5, <1>8, <1>9 DEF NvCommandQueue
<1>11. Proceeds(q, taken, s) /\ Follows(q, taken, N)
  <2>1. Continues(p, taken, s) /\ Appends(p, taken, N)
    BY <1>5, <1>10, QueueFields, SameBuffersContinue, SameBuffersAppend DEF Top
  <2> QED
    BY <1>5, <1>6, <2>1, ContinuesProceeds, FollowsAppends
<1>12. taken.timelineCtr + 1 < CtrModulus
  BY <1>1, <1>2, <1>5, <1>10, CounterBelow DEF Orderly
<1>13. PICK launch : launch = [kind |-> "launch", op |-> <<s, Len(issued[s]) + 1>>, slot |-> slot,
                               need |-> LocalMemReq[f], slm |-> p.currentSlmPerThread]
  OBVIOUS
<1>14. launch \in Command /\ IsWork(launch) /\ launch \in NextWork(s)
  <2>1. HostTypeOK /\ <<s, Len(issued[s]) + 1>> \in Ops
    BY <1>1, NextOpIsOp DEF QueueInv, TypeOK
  <2>2. p.currentSlmPerThread \in Nat /\ slot \in Nat /\ LocalMemReq[f] \in Nat
    BY <1>5, FuncAssumption DEF NvCommandQueue
  <2> QED
    BY <1>13, <2>1, <2>2 DEF Command, Launches, IsWork, NextWork
<1>15. PICK r : r = EndOp(Enqueue(taken, launch, "COMPUTE"), s, async, "COMPUTE")
  OBVIOUS
<1>16. launch \in N
  BY <1>3, <1>14
<1>17. Proceeds(q, r, s) /\ Follows(q, r, N)
  BY <1>1, <1>6, <1>10, <1>11, <1>12, <1>14, <1>15, <1>16, OperationProceeds, OperationFollows
<1>18. queue' = [queue EXCEPT ![s] = r] /\ r.freeSignals = q.freeSignals
  BY <1>4, <1>8, <1>9, <1>13, <1>15, <1>17 DEF LaunchFunction, Proceeds
<1>19. \A x \in Streams : Len(issued[x]) <= Len(issued'[x]) /\ Len(issued'[x]) \in Nat
  BY <1>1, IssuedGrows
<1>20. N \subseteq Plain \cup NextWork(s)
  BY <1>3
<1> QED
  BY <1>1, <1>2, <1>17, <1>18, <1>19, <1>20, CalledEvents

LEMMA LaunchFailsKeepsEvents ==
    ASSUME Grounds, EventInv, NEW s \in Streams, NEW f \in Funcs, NEW async \in BOOLEAN,
           LaunchFailsLocalMem(s, f) \/ LaunchFailsLate(s, f, async)
    PROVE  EventInv'
<1>1. /\ Ready(s) /\ "COMPUTE" \in QueueTypes /\ QueueInv /\ OrderInv /\ HostTypeOK
      /\ UNCHANGED <<gpuVars, cpu, state, events, mark, records, issued>>
  BY DEF LaunchFailsLocalMem, LaunchFailsLate, MayLaunch, QueueTypes, Grounds, StreamInv,
         QueueInv, TypeOK
<1>2. PICK q \in NvCommandQueue : q = queue[s]
  BY <1>1 DEF QueueInv, TypeOK, HostTypeOK
<1>3. OneBuffer(q)
  BY <1>1, <1>2, ReadyQueue DEF QueueSound
<1>4. \A x \in Streams : Len(issued[x]) <= Len(issued'[x]) /\ Len(issued'[x]) \in Nat
  BY <1>1 DEF HostTypeOK
<1>5. Plain \subseteq Plain /\ Plain \subseteq Plain \cup NextWork(s)
  OBVIOUS
<1>6. ASSUME NEW r, Proceeds(q, r, s), Follows(q, r, Plain), queue' = [queue EXCEPT ![s] = r]
      PROVE  EventInv'
  BY <1>1, <1>2, <1>4, <1>5, <1>6, CalledEvents DEF Proceeds
<1>7. CASE LaunchFailsLocalMem(s, f)
  <2>1. PICK p : p = SwitchTo(q, "COMPUTE")
    OBVIOUS
  <2>2. Proceeds(q, p, s) /\ p \in NvCommandQueue /\ Follows(q, p, Plain)
    BY <1>1, <1>3, <2>1, SwitchToProceeds, SwitchToFollows DEF Proceeds, Onwards
  <2>3. PICK g : g = GrownSlm(p, f)
    OBVIOUS
  <2>4. Proceeds(q, g, s) /\ Follows(q, g, Plain)
    <3>1. Continues(p, g, s) /\ Appends(p, g, Plain)
      BY <1>1, <1>5, <2>2, <2>3, LocalMemContinues, LocalMemAppends
    <3> QED
      BY <2>2, <3>1, ContinuesProceeds, FollowsAppends
  <2>5. queue' = [queue EXCEPT ![s] = p] \/ queue' = [queue EXCEPT ![s] = g]
    BY <1>2, <1>7, <2>1, <2>3 DEF LaunchFailsLocalMem
  <2> QED
    BY <1>6, <2>2, <2>4, <2>5
<1>8. CASE LaunchFailsLate(s, f, async)
  <2>1. PICK p : p = Prepared(s, f, async).queue
    OBVIOUS
  <2>2. Proceeds(q, p, s) /\ p \in NvCommandQueue /\ Follows(q, p, Plain)
    BY <1>1, <1>2, <1>5, <2>1, PreparedProceeds, PreparedFollows DEF Proceeds, Onwards
  <2>3. CASE queue' = [queue EXCEPT ![s] = p]
    BY <1>6, <2>2, <2>3
  <2>4. CASE KernArgsFit(p) /\ queue' = [queue EXCEPT ![s] = [p EXCEPT !.kernArgsWriteIdx = @ + 1]]
    <3>1. PICK n \in 0..KernArgsSlots : n = p.kernArgsWriteIdx + 1
      BY <2>2, <2>4, FuncAssumption DEF KernArgsFit, NvCommandQueue
    <3>2. PICK taken : taken = [p EXCEPT !.kernArgsWriteIdx = n]
      OBVIOUS
    <3>3. /\ taken \in NvCommandQueue /\ taken.buf = p.buf /\ taken.backlog = p.backlog
          /\ taken.freeSignals = p.freeSignals /\ taken.timelineCtr = p.timelineCtr
          /\ taken.timelineNotifyPending = p.timelineNotifyPending
      BY <2>2, <3>1, <3>2 DEF NvCommandQueue
    <3>4. Continues(p, taken, s) /\ Appends(p, taken, Plain)
      BY <2>2, <3>3, QueueFields, SameBuffersContinue, SameBuffersAppend DEF Top
    <3>5. Proceeds(q, taken, s) /\ Follows(q, taken, Plain)
      BY <2>2, <3>4, ContinuesProceeds, FollowsAppends
    <3>6. queue' = [queue EXCEPT ![s] = taken]
      BY <2>4, <3>1, <3>2
    <3> QED
      BY <1>6, <3>5, <3>6
  <2> QED
    BY <1>8, <2>1, <2>3, <2>4 DEF LaunchFailsLate
<1> QED
  BY <1>7, <1>8

LEMMA CommenceBacklogKeepsEvents ==
    ASSUME Grounds, EventInv, NEW s \in Streams, CommenceBacklog(s)
    PROVE  EventInv'
<1>1. QueueInv /\ OrderInv
  BY DEF Grounds, StreamInv
<1>2. PICK q \in NvCommandQueue : q = queue[s]
  BY <1>1 DEF QueueInv, TypeOK, HostTypeOK
<1>3. PICK r : r = BacklogCurrentCmdBuffer(BacklogCurrentCmdBuffer(q, "COMPUTE"), "DMA")
  OBVIOUS
<1>4. /\ Ready(s) /\ q.backlog # <<>>
      /\ queue' = [queue EXCEPT ![s] = r]
      /\ cpu' = [at |-> "submit", stream |-> s, entry |-> 1]
      /\ UNCHANGED <<gpuVars, state, events, mark, records, issued>>
  BY <1>2, <1>3 DEF CommenceBacklog
<1>5. OneBuffer(q) /\ q.currentQueueType \in QueueTypes
  <2>1. QueueSound(issued, q, s, 1, 0)
    BY <1>1, <1>2, <1>4, ReadyQueue
  <2> QED
    BY <1>4, <2>1, SoundType DEF QueueSound
<1>6. Proceeds(q, r, s) /\ Follows(q, r, {})
  BY <1>3, <1>5, BothProceed, BothFollow
<1>7. \A x \in Streams : Len(issued[x]) <= Len(issued'[x]) /\ Len(issued'[x]) \in Nat
  BY <1>1, <1>4 DEF QueueInv, TypeOK, HostTypeOK
<1>8. {} \subseteq Plain \cup NextWork(s)
  OBVIOUS
<1> QED
  BY <1>2, <1>4, <1>6, <1>7, <1>8, CalledEvents DEF Proceeds

-----------------------------------------------------------------------------
(* Events and submissions.                                                  *)

\* An operation of s among its first n is one of these commands.
LEMMA WorkMeets ==
    ASSUME NEW b \in Seq(Command), NEW o \in Ops, Has(b, o), NEW v, NEW n,
           o[1] = v, o[2] <= n
    PROVE  Meets(b, WorkUpto(v, n))
<1>1. PICK i \in DOMAIN b : IsWork(b[i]) /\ b[i].op = o
  BY DEF Has
<1>2. b[i] \in Command
  BY <1>1
<1>3. b[i] \in Launches \cup Copies
  BY <1>1, <1>2 DEF Command, Launches, Copies, Releases, Acquires, LocalMemSets, IsWork
<1> QED
  BY <1>1, <1>3 DEF Meets, WorkUpto

LEMMA JoinedHas ==
    ASSUME NEW a \in Seq(Command), NEW b \in Seq(Command), NEW o, Has(a \o b, o)
    PROVE  Has(a, o) \/ Has(b, o)
<1>1. PICK cmd \in Elements(a \o b) : IsWork(cmd) /\ cmd.op = o
  BY HasElement
<1>2. cmd \in Elements(a) \/ cmd \in Elements(b)
  BY <1>1, JoinedElements
<1> QED
  BY <1>1, <1>2 DEF Elements, Has

\* What the line of channel t vouches for is not in the other channel.
LEMMA NotAcross ==
    ASSUME QueueInv, Once, RunsOnce, NEW s \in Streams, NEW t \in QueueTypes,
           NEW b \in Seq(Command), NEW ctr,
           Covered(issued, fifo[t] \o b, t, done, Underway(t), s, ctr),
           NEW o \in Ops, o[1] = s, o[2] + 2 <= ctr,
           Has(b, o) => Waiting(s, o)
    PROVE  ~Has(fifo[Other(t)], o) /\ o \notin Underway(Other(t))
<1>1. PICK a, u : a = fifo[t] /\ u = Other(t)
  OBVIOUS
<1>2. a \in Seq(Command) /\ u \in QueueTypes /\ u # t /\ a \o b \in Seq(Command)
  BY <1>1, OtherType DEF QueueInv, TypeOK, GpuTypeOK, Other, QueueTypes
<1>3. Present(issued, a \o b, t, done, Underway(t), o)
  BY <1>1 DEF Covered, Upto
<1>4. o \in done \/ o \in Underway(t) \/ Has(a \o b, o)
  BY <1>3 DEF Present, Comes, Has
<1>5. o \in Started => ~Has(fifo[u], o)
  BY <1>2 DEF Once, OnePlace, InChannel
<1>6. \A c \in QueueTypes : Underway(c) \subseteq Started
  BY DEF Underway, Started, Executing
<1>7. CASE o \in done
  BY <1>1, <1>2, <1>5, <1>7 DEF RunsOnce, Underway, Started
<1>8. CASE o \in Underway(t)
  BY <1>1, <1>2, <1>5, <1>6, <1>8 DEF RunsOnce, Underway
<1>9. CASE Has(a, o)
  <2>1. o \notin Started
    BY <1>1, <1>9 DEF Once, OnePlace, InChannel
  <2>2. ~Has(fifo[u], o)
    BY <1>1, <1>2, <1>9 DEF Once, ChannelsSingle, QueueTypes
  <2> QED
    BY <1>1, <1>2, <1>6, <2>1, <2>2
<1>10. CASE Has(b, o)
  <2>1. o \notin Started /\ ~InChannel(o)
    BY <1>10 DEF Once, OnePlace
  <2> QED
    BY <1>1, <1>2, <1>6, <2>1 DEF InChannel
<1> QED
  BY <1>2, <1>4, <1>7, <1>8, <1>9, <1>10, JoinedHas

\* s hands b to channel t.
LEMMA SubmittedEvents ==
    ASSUME Grounds, EventInv, NEW s \in Streams, NEW t \in QueueTypes, NEW b, NEW r,
           Hands(queue[s], Cursor(s), t, b, r, Cursor(s)', Plain, Plain),
           fifo' = [fifo EXCEPT ![t] = fifo[t] \o b],
           queue' = [queue EXCEPT ![s] = r],
           \A x \in Streams \ {s} : Cursor(x)' = Cursor(x),
           r.backlog = queue[s].backlog, r.freeSignals = queue[s].freeSignals,
           UNCHANGED <<running, done, value, stamp, clock, events, mark, records, issued>>,
           \A x \in Streams : InUse(x) => InUse(x)',
           cpu'.at # "waitEvent",
           \A e \in Events : \A o \in Ops :
              /\ Recorded(e) /\ events[e].stream = s /\ Meets(b, Noted(e))
              /\ o[1] = s /\ o[2] <= mark[e].after
              => ~Has(fifo[Other(t)], o) /\ o \notin Underway(Other(t))
    PROVE  EventInv'
<1>1. QueueInv /\ EventsApart /\ EventsMarked
  BY DEF Grounds, StreamInv, TimelineInv, EventInv
<1>2. Undisturbed(s, Plain, Plain)
  BY <1>1, HandedUndisturbed
<1>3. /\ \A x \in Streams : queue'[x] = IF x = s THEN r ELSE queue[x]
      /\ \A c \in QueueTypes : fifo'[c] = IF c = t THEN fifo[t] \o b ELSE fifo[c]
      /\ \A c \in QueueTypes : fifo[c] \in Seq(Command)
  BY <1>1 DEF QueueInv, TypeOK, HostTypeOK, GpuTypeOK
<1>4. \A e : /\ Recorded(e)' = Recorded(e) /\ LaneOf(e)' = LaneOf(e) /\ Noted(e)' = Noted(e)
  BY DEF Recorded, LaneOf, Noted, EventSignal
<1>5. b \in Seq(Command) /\ \A Y : Y \cap Plain = {} => (Meets(b, Y) => LaneHas(queue[s], Cursor(s), t, Y))
  BY Zenon DEF Hands
<1>6. NoneAcross'
  <2> SUFFICES ASSUME NEW e \in Events, Recorded(e), NEW o \in Ops,
                      o[1] = events[e].stream, o[2] <= mark[e].after,
                      NEW l, l = LaneOf(e), Meets(fifo'[l], Noted(e))
               PROVE  ~Has(fifo'[Other(l)], o) /\ o \notin Underway(Other(l))'
    BY <1>4 DEF NoneAcross, Underway
  <2>1. PICK X, v, n, Y : /\ l = LaneOf(e) /\ X = Noted(e) /\ v = events[e].stream
                          /\ n = mark[e].after /\ Y = WorkUpto(v, n)
    OBVIOUS
  <2>2. l \in QueueTypes /\ Other(l) \in QueueTypes /\ Other(l) # l
    BY <2>1, OtherType DEF LaneOf, Other, QueueTypes
  <2>3. v \in Streams /\ X \cap Plain = {} /\ Y \cap Plain = {}
    <3>1. Plain \subseteq Plain \cup NextWork(s)
      OBVIOUS
    <3> QED
      BY <1>1, <2>1, <3>1, MarkedApart DEF EventsMarked, Marked
  <2>4. Sorted(v, X, Y) /\ Absent(Other(l), X)
    BY <2>1 DEF EventInv, WorkBefore, LanesKept
  <2>5. Underway(Other(l))' = Underway(Other(l))
    BY DEF Underway
  <2>6. Meets(fifo[l], X) \/ (l = t /\ Meets(b, X))
    BY <1>3, <1>5, <2>1, <2>2, JoinedOrder
  <2>7. CASE Meets(fifo[l], X)
    <3>1. ~Has(fifo[Other(l)], o) /\ o \notin Underway(Other(l))
      BY <2>1, <2>7 DEF EventInv, NoneAcross
    <3>2. ~LaneHas(queue[s], Cursor(s), t, Y)
      BY <2>2, <2>4, <2>7, Zenon DEF Sorted
    <3>3. ~Meets(b, Y)
      BY <1>5, <2>3, <3>2, Zenon
    <3>4. ~Has(b, o)
      BY <1>5, <2>1, <3>3, WorkMeets
    <3>5. ~Has(fifo'[Other(l)], o)
      BY <1>3, <1>5, <2>2, <3>1, <3>4, JoinedHas
    <3> QED
      BY <2>1, <2>5, <3>1, <3>5
  <2>8. CASE l = t /\ Meets(b, X)
    <3>1. LaneHas(queue[s], Cursor(s), t, X)
      BY <1>5, <2>3, <2>8, Zenon
    <3>2. v = s
      BY <2>4, <3>1, Zenon DEF Sorted
    <3>3. ~Has(fifo[Other(l)], o) /\ o \notin Underway(Other(l))
      BY <2>1, <2>8, <3>2
    <3>4. fifo'[Other(l)] = fifo[Other(l)]
      BY <1>3, <2>2, <2>8
    <3> QED
      BY <2>1, <2>5, <3>3, <3>4
  <2> QED
    BY <2>6, <2>7, <2>8
<1>7. PiecesMarked'
  <2> SUFFICES ASSUME NEW e \in Events, Recorded(e)
               PROVE  Vouches(queue[events[e].stream], Noted(e), mark[e].after)'
    BY <1>4 DEF PiecesMarked
  <2>1. PICK v, X, n : v = events[e].stream /\ X = Noted(e) /\ n = mark[e].after
    OBVIOUS
  <2>2. v \in Streams /\ Vouches(queue[v], X, n)
    BY <2>1 DEF EventInv, PiecesMarked, EventsMarked, Marked
  <2>3. queue'[v].backlog = queue[v].backlog
    BY <1>3, <2>2
  <2>4. Vouches(queue'[v], X, n)
    BY <2>2, <2>3 DEF Vouches
  <2>5. events'[e].stream = v /\ Noted(e)' = X /\ mark'[e].after = n
    BY <1>4, <2>1
  <2> QED
    BY <2>4, <2>5 DEF Vouches
<1>8. Awaiting'
  BY DEF Awaiting
<1>9. \A x \in Streams : /\ queue'[x].freeSignals = queue[x].freeSignals
                         /\ InUse(x) => InUse(x)'
                         /\ Len(issued[x]) <= Len(issued'[x])
                         /\ Len(issued'[x]) \in Nat
  BY <1>1, <1>3 DEF QueueInv, TypeOK, HostTypeOK
<1>10. Plain \subseteq Plain \cup NextWork(s) /\ done \subseteq done'
  OBVIOUS
<1> QED
  BY <1>1, <1>2, <1>6, <1>7, <1>8, <1>9, <1>10, QuietEvents

\* initializeQueue sets up channel u; no event has been recorded on s.
LEMMA SetUpEvents ==
    ASSUME Grounds, EventInv, NEW s \in Streams, NEW q \in NvCommandQueue,
           NEW u \in QueueTypes, SetUpChannel(s, q, u), ~InUse(s),
           q.backlog = <<>>, \A t \in QueueTypes : q.buf[t] = <<>>,
           queue[s].backlog = <<>>, queue[s].buf = q.buf,
           queue[s].freeSignals = q.freeSignals,
           cpu.at \notin {"submit", "wait"}, cpu'.at \notin {"submit", "wait", "waitEvent"},
           UNCHANGED <<events, mark, records, issued>>,
           \A x \in Streams : InUse(x) => InUse(x)'
    PROVE  EventInv'
<1>1. PICK next : next = AdvanceTimeline(q)
  OBVIOUS
<1>2. next \in NvCommandQueue
  BY <1>1, AdvanceTimelineTyped
<1>3. next.buf = q.buf /\ next.backlog = q.backlog /\ next.freeSignals = q.freeSignals
  BY <1>1 DEF AdvanceTimeline, NvCommandQueue
<1>4. PICK cmd : cmd = [kind |-> "release", sig |-> Timeline(s), payload |-> next.timelineCtr]
  OBVIOUS
<1>5. cmd \in Command /\ cmd \in Plain
  <2>1. next.timelineCtr \in Nat
    BY <1>2, CounterIsNat DEF NvCommandQueue
  <2> QED
    BY <1>4, <2>1, CommandTypes, TimelineIsSignal DEF Plain, Rel
<1>6. PICK n : n = Enqueue(next, cmd, u)
  OBVIOUS
<1>7. Appends(next, n, Plain) /\ n \in NvCommandQueue
  BY <1>2, <1>5, <1>6, EnqueueAppends DEF Appends
<1>8. Appends(queue[s], n, Plain)
  BY <1>3, <1>7 DEF Appends
<1>9. PICK r : r = [n EXCEPT !.buf[u] = <<>>]
  OBVIOUS
<1>10. PICK b : b = n.buf[u]
  OBVIOUS
<1>11. /\ fifo' = [fifo EXCEPT ![u] = fifo[u] \o b]
       /\ queue' = [queue EXCEPT ![s] = r]
       /\ UNCHANGED <<running, done, value, stamp, clock>>
  BY <1>1, <1>4, <1>6, <1>9, <1>10 DEF SetUpChannel, SignalNotify, SubmitToFifo
<1>12. n.backlog = <<>> /\ n.freeSignals = q.freeSignals
  BY <1>2, <1>3, <1>6 DEF Enqueue, NvCommandQueue
<1>13. r.backlog = <<>> /\ r.freeSignals = q.freeSignals /\ \A t \in QueueTypes : r.buf[t] = <<>>
  <2>1. \A t \in QueueTypes : t # u => n.buf[t] = next.buf[t]
    BY <1>2, <1>6 DEF Enqueue, NvCommandQueue
  <2>2. r = [n EXCEPT !.buf = [n.buf EXCEPT ![u] = <<>>]]
    BY <1>7, <1>9 DEF NvCommandQueue
  <2>3. r.buf = [n.buf EXCEPT ![u] = <<>>] /\ r.backlog = n.backlog /\ r.freeSignals = n.freeSignals
    BY <1>7, <2>2 DEF NvCommandQueue
  <2>4. \A t \in QueueTypes : r.buf[t] = IF t = u THEN <<>> ELSE n.buf[t]
    BY <1>7, <2>3 DEF NvCommandQueue
  <2> QED
    BY <1>3, <1>12, <2>1, <2>3, <2>4
<1>14. Hands(queue[s], 1, u, b, r, 1, Plain, Plain)
  BY <1>8, <1>10, <1>13, EmptiedHands
<1>15. Cursor(s) = 1 /\ Cursor(s)' = 1 /\ \A x \in Streams \ {s} : Cursor(x)' = Cursor(x)
  BY DEF Cursor
<1>16. Hands(queue[s], Cursor(s), u, b, r, Cursor(s)', Plain, Plain)
  BY <1>14, <1>15
<1>17. \A e \in Events : Recorded(e) => events[e].stream # s
  BY DEF EventInv, EventsMarked, Marked
<1> QED
  BY <1>11, <1>13, <1>15, <1>16, <1>17, SubmittedEvents

LEMMA StreamCreateKeepsEvents ==
    ASSUME Grounds, EventInv, NEW s \in Streams, StreamCreate(s)
    PROVE  EventInv'
<1>1. PICK type \in QueueTypes \cup {"OTHER"} : SetUpChannel(s, NewQueue(s, type), "COMPUTE")
  BY DEF StreamCreate
<1>2. PICK q : q = NewQueue(s, type)
  OBVIOUS
<1>3. /\ q \in NvCommandQueue /\ "COMPUTE" \in QueueTypes
      /\ \A t \in QueueTypes : q.buf[t] = <<>>
  BY <1>1, <1>2, NewQueueTakes DEF QueueTypes
<1>4. queue[s] = NewQueue(s, "OTHER") /\ ~InUse(s)
  BY DEF StreamCreate, Grounds, Unborn, InUse
<1>5. /\ q.backlog = <<>> /\ queue[s].backlog = <<>> /\ queue[s].buf = q.buf
      /\ queue[s].freeSignals = q.freeSignals
  BY <1>2, <1>4 DEF NewQueue
<1>6. /\ SetUpChannel(s, q, "COMPUTE")
      /\ UNCHANGED <<events, mark, records, issued>>
      /\ cpu = Idle /\ cpu' = [at |-> "initCompute", stream |-> s]
      /\ state' = [state EXCEPT ![s] = "creating"]
  BY <1>1, <1>2 DEF StreamCreate
<1>7. \A x \in Streams : InUse(x) => InUse(x)'
  BY <1>4, <1>6 DEF InUse, Grounds, StreamInv, QueueInv, TypeOK, HostTypeOK
<1>8. cpu.at \notin {"submit", "wait"} /\ cpu'.at \notin {"submit", "wait", "waitEvent"}
  BY <1>6 DEF Idle
<1> QED
  BY <1>3, <1>4, <1>5, <1>6, <1>7, <1>8, SetUpEvents

LEMMA InitComputeReturnsKeepsEvents ==
    ASSUME Grounds, EventInv, InitComputeReturns
    PROVE  EventInv'
<1>1. PICK s : s = cpu.stream
  OBVIOUS
<1>2. s \in Streams /\ "DMA" \in QueueTypes /\ QueueInv /\ OrderInv
  BY <1>1, CpuFields DEF InitComputeReturns, Grounds, StreamInv, QueueInv, TypeOK, QueueTypes
<1>3. PICK q \in NvCommandQueue : q = queue[s]
  BY <1>2 DEF QueueInv, TypeOK, HostTypeOK
<1>4. /\ SetUpChannel(s, q, "DMA") /\ cpu.at = "initCompute"
      /\ UNCHANGED <<state, events, mark, records, issued>>
      /\ cpu' = [at |-> "initDma", stream |-> s]
  BY <1>1, <1>3 DEF InitComputeReturns
<1>5. /\ ~InUse(s) /\ q.backlog = <<>> /\ \A t \in QueueTypes : q.buf[t] = <<>>
  BY <1>1, <1>2, <1>3, <1>4 DEF OrderInv, CountersSound, InUse
<1>6. \A x \in Streams : InUse(x) => InUse(x)'
  BY <1>4 DEF InUse
<1>7. cpu.at \notin {"submit", "wait"} /\ cpu'.at \notin {"submit", "wait", "waitEvent"}
  BY <1>4
<1> QED
  BY <1>2, <1>3, <1>4, <1>5, <1>6, <1>7, SetUpEvents

LEMMA CommenceKeepsEvents ==
    ASSUME Grounds, EventInv, NEW s \in Streams, Commence(s)
    PROVE  EventInv'
<1>1. QueueInv /\ OrderInv /\ Once /\ RunsOnce
  BY DEF Grounds, StreamInv
<1>2. PICK q \in NvCommandQueue : q = queue[s]
  BY <1>1 DEF QueueInv, TypeOK, HostTypeOK
<1>3. PICK t \in QueueTypes : t = q.currentQueueType
  BY <1>2 DEF Commence
<1>4. PICK n : n = [NotifyIfPending(q, s, t) EXCEPT !.timelineNotifyPending = FALSE]
  OBVIOUS
<1>5. PICK r : r = [n EXCEPT !.buf[t] = <<>>]
  OBVIOUS
<1>6. PICK b : b = n.buf[t]
  OBVIOUS
<1>7. /\ Ready(s) /\ q.backlog = <<>> /\ q.buf[Other(t)] = <<>>
      /\ fifo' = [fifo EXCEPT ![t] = fifo[t] \o b]
      /\ queue' = [queue EXCEPT ![s] = r]
      /\ UNCHANGED <<running, done, value, stamp, clock, state, cpu, events, mark, records, issued>>
  BY <1>2, <1>3, <1>4, <1>5, <1>6 DEF Commence, SubmitToFifo
<1>8. n \in NvCommandQueue /\ n.freeSignals = q.freeSignals /\ n.backlog = <<>>
  BY <1>4, <1>7, NotifyContinues DEF Continues
<1>9. n.buf[Other(t)] = <<>>
  <2>1. Takes(NotifyIfPending(q, s, t), t)
    BY <1>1, <1>2, <1>3, <1>7, CommencedQueue
  <2>2. FALSE \in BOOLEAN
    OBVIOUS
  <2>3. Takes(n, t)
    BY <1>4, <2>1, <2>2, ScalarFieldsTake
  <2> QED
    BY <1>8, <2>3 DEF Takes
<1>10. r.backlog = q.backlog /\ r.freeSignals = q.freeSignals /\ \A u \in QueueTypes : r.buf[u] = <<>>
  <2>1. PICK buf : buf = [n.buf EXCEPT ![t] = <<>>]
    OBVIOUS
  <2>2. buf \in [QueueTypes -> Seq(Command)] /\ \A u \in QueueTypes : buf[u] = <<>>
    BY <1>8, <1>9, <2>1, EmptySound DEF NvCommandQueue, Other, QueueTypes
  <2>3. r = [n EXCEPT !.buf = buf]
    BY <1>5, <1>8, <2>1 DEF NvCommandQueue
  <2> QED
    BY <1>7, <1>8, <2>2, <2>3 DEF NvCommandQueue
<1>11. Appends(q, n, Plain)
  <2>1. Plain \subseteq Plain
    OBVIOUS
  <2> QED
    BY <1>4, <2>1, NotifyIfPendingAppends
<1>12. Hands(q, 1, t, b, r, 1, Plain, Plain)
  BY <1>6, <1>7, <1>10, <1>11, EmptiedHands
<1>13. \A x : Cursor(x) = 1 /\ Cursor(x)' = 1
  BY <1>7 DEF Ready, Idle, Cursor
<1>14. Hands(queue[s], Cursor(s), t, b, r, Cursor(s)', Plain, Plain)
  BY <1>2, <1>12, <1>13
<1>15. ASSUME NEW e \in Events, NEW o \in Ops, Recorded(e), events[e].stream = s,
              o[1] = s, o[2] <= mark[e].after
       PROVE  ~Has(fifo[Other(t)], o) /\ o \notin Underway(Other(t))
  <2>1. PICK a, ctr : a = q.buf[t] /\ ctr = q.timelineCtr
    OBVIOUS
  <2>2. a \in Seq(Command)
    BY <2>1, QueueFields
  <2>3. Covered(issued, fifo[t] \o a, t, done, Underway(t), s, ctr)
    <3>1. RestSound(issued, q, s)
      BY <1>1, <1>2, <1>3, <1>7, ReadyQueue DEF QueueSound
    <3> QED
      BY <1>3, <1>7, <2>1, <3>1 DEF RestSound, Sound, Line, Front, Sure, Busy
  <2>4. o[2] + 2 <= ctr
    <3>1. ctr = Len(issued[s]) + 2 /\ mark[e].after <= Len(issued[s]) /\ Len(issued[s]) \in Nat
      BY <1>1, <1>2, <1>7, <1>15, <2>1, ReadyQueue DEF EventInv, EventsMarked, Marked
    <3>2. mark[e].after \in Nat /\ o[2] \in Nat
      BY <1>1, OpFields DEF QueueInv, TypeOK, HostTypeOK
    <3> QED
      BY <1>15, <3>1, <3>2
  <2>5. Has(a, o) => Waiting(s, o)
    BY <1>2, <2>1 DEF Waiting, Holds
  <2> QED
    BY <1>1, <1>15, <2>2, <2>3, <2>4, <2>5, NotAcross
<1>16. cpu'.at # "waitEvent" /\ \A x \in Streams : InUse(x) => InUse(x)'
  BY <1>7 DEF Ready, Idle, InUse
<1> QED
  BY <1>2, <1>7, <1>10, <1>13, <1>14, <1>15, <1>16, SubmittedEvents

LEMMA HandedMeets ==
    ASSUME NEW piece, piece.buf \in Seq(Command), NEW ctr \in Nat, ctr = piece.timelineCtr,
           NEW s \in Streams, NEW X, X \cap Plain = {}, Meets(Handed(piece, s), X)
    PROVE  Meets(piece.buf, X)
<1>1. PICK a, cmd : /\ a = piece.buf
                    /\ cmd = [kind |-> "release", sig |-> Timeline(s), payload |-> ctr]
  OBVIOUS
<1>2. cmd \in Command /\ cmd \in Plain /\ a \in Seq(Command)
  BY <1>1, CommandTypes, TimelineIsSignal DEF Plain, Rel
<1>3. Handed(piece, s) \in {a, Append(a, cmd)}
  BY <1>1 DEF Handed
<1>4. PICK c : c = Append(a, cmd)
  OBVIOUS
<1>5. \A Y : Meets(c, Y) => Meets(a, Y) \/ cmd \in Y
  BY <1>2, <1>4, AppendedOrder
<1>6. cmd \notin X
  BY <1>2
<1> QED
  BY <1>1, <1>3, <1>4, <1>5, <1>6

LEMMA SubmitEntryKeepsEvents ==
    ASSUME Grounds, EventInv, SubmitEntry
    PROVE  EventInv'
<1>1. QueueInv /\ OrderInv /\ Once /\ RunsOnce
  BY DEF Grounds, StreamInv
<1>2. PICK s, e, p : s = cpu.stream /\ e = cpu.entry /\ p = queue[s]
  OBVIOUS
<1>3. cpu.at = "submit"
  BY DEF SubmitEntry
<1>4. /\ s \in Streams /\ p \in NvCommandQueue
      /\ e \in 1..Len(p.backlog) /\ e \in Nat \ {0} /\ e \in DOMAIN p.backlog
      /\ p.backlog[e] \in Split /\ InLine(issued, p.backlog[e], s)
      /\ \A x \in Streams \ {s} : Cursor(x) = 1
      /\ \A u \in QueueTypes : p.buf[u] = <<>>
  <2>1. Playing(issued, p, s, e)
    BY <1>1, <1>2, <1>3, PlayedQueue
  <2> QED
    BY <1>3, <2>1, QueueFields DEF Playing
<1>5. PICK piece \in Split : piece = p.backlog[e]
  BY <1>4
<1>6. PICK t \in QueueTypes : t = piece.type
  BY <1>5, SplitFields
<1>7. PICK q : q = Loaded(s, piece)
  OBVIOUS
<1>8. PICK r : r = [q EXCEPT !.buf[t] = <<>>]
  OBVIOUS
<1>9. PICK b : b = Handed(piece, s)
  OBVIOUS
<1>10. /\ q \in NvCommandQueue /\ q.buf[t] = b /\ q.buf[Other(t)] = <<>>
       /\ q.backlog = p.backlog
  BY <1>1, <1>2, <1>3, <1>4, <1>5, <1>6, <1>7, <1>9, LoadedFields
<1>11. q.freeSignals = p.freeSignals
  BY <1>2, <1>4, <1>5, <1>7, LoadedKeepsRest
<1>12. /\ fifo' = [fifo EXCEPT ![t] = fifo[t] \o b]
       /\ queue' = [queue EXCEPT ![s] = r]
       /\ cpu' = [cpu EXCEPT !.at = "wait"]
       /\ UNCHANGED <<running, done, value, stamp, clock, state, events, mark, records, issued>>
  BY <1>2, <1>5, <1>6, <1>7, <1>8, <1>10 DEF SubmitEntry, SubmitToFifo
<1>13. cpu'.at = "wait" /\ cpu'.stream = s /\ cpu'.entry = e
  BY <1>1, <1>2, <1>3, <1>12 DEF QueueInv, TypeOK, HostTypeOK, CpuState, Idle
<1>14. /\ Cursor(s) = e /\ Cursor(s)' = e + 1
       /\ \A x \in Streams \ {s} : Cursor(x)' = Cursor(x)
  BY <1>2, <1>3, <1>4, <1>13 DEF Cursor
<1>15. r.backlog = p.backlog /\ r.freeSignals = p.freeSignals /\ \A u \in QueueTypes : r.buf[u] = <<>>
  <2>1. PICK buf : buf = [q.buf EXCEPT ![t] = <<>>]
    OBVIOUS
  <2>2. buf \in [QueueTypes -> Seq(Command)] /\ \A u \in QueueTypes : buf[u] = <<>>
    BY <1>10, <2>1, EmptySound DEF NvCommandQueue, Other, QueueTypes
  <2>3. r = [q EXCEPT !.buf = buf]
    BY <1>8, <1>10, <2>1 DEF NvCommandQueue
  <2> QED
    BY <1>10, <1>11, <2>2, <2>3 DEF NvCommandQueue
<1>16. Hands(p, e, t, b, r, e + 1, Plain, Plain)
  <2>1. Plain \subseteq Plain
    OBVIOUS
  <2> QED
    BY <1>4, <1>5, <1>6, <1>9, <1>15, <2>1, PieceHands
<1>17. Hands(queue[s], Cursor(s), t, b, r, Cursor(s)', Plain, Plain)
  BY <1>2, <1>14, <1>16
<1>18. ASSUME NEW d \in Events, NEW o \in Ops, Recorded(d), events[d].stream = s,
              Meets(b, Noted(d)), o[1] = s, o[2] <= mark[d].after
       PROVE  ~Has(fifo[Other(t)], o) /\ o \notin Underway(Other(t))
  <2>1. PICK a, ctr : a = piece.buf /\ ctr = piece.timelineCtr
    OBVIOUS
  <2>2. a \in Seq(Command) /\ ctr \in Nat
    BY <2>1, CounterIsNat DEF Split
  <2>3. Covered(issued, fifo[t] \o a, t, done, Underway(t), s, ctr)
    BY <1>4, <1>5, <1>6, <2>1 DEF InLine, Sound
  <2>4. o[2] + 2 <= ctr
    <3>1. Noted(d) \cap Plain = {}
      <4>1. Plain \subseteq Plain \cup NextWork(s) /\ EventsApart /\ EventsMarked
        BY DEF Grounds, TimelineInv, EventInv
      <4> QED
        BY <1>1, <1>4, <1>18, <4>1, MarkedApart
    <3>2. Meets(a, Noted(d))
      BY <1>4, <1>9, <1>18, <2>1, <2>2, <3>1, HandedMeets
    <3>3. Vouches(p, Noted(d), mark[d].after)
      BY <1>2, <1>18 DEF EventInv, PiecesMarked
    <3>4. mark[d].after + 2 <= ctr
      BY <1>4, <1>5, <2>1, <3>2, <3>3 DEF Vouches
    <3>5. mark[d].after \in Nat /\ o[2] \in Nat
      BY <1>1, OpFields DEF QueueInv, TypeOK, HostTypeOK
    <3> QED
      BY <1>18, <2>2, <3>4, <3>5
  <2>5. Has(a, o) => Waiting(s, o)
    <3>1. e \in e..Len(p.backlog)
      BY <1>4
    <3> QED
      BY <1>2, <1>5, <1>14, <2>1, <3>1 DEF Waiting, Holds
  <2> QED
    BY <1>1, <1>4, <1>18, <2>2, <2>3, <2>4, <2>5, NotAcross
<1>19. cpu'.at # "waitEvent" /\ \A x \in Streams : InUse(x) => InUse(x)'
  BY <1>12, <1>13 DEF InUse
<1> QED
  BY <1>2, <1>4, <1>12, <1>14, <1>15, <1>17, <1>18, <1>19, SubmittedEvents

-----------------------------------------------------------------------------
(* Events and the steps that add no command.                                *)

\* Pieces may be given up, when they have been played back.
LEMMA StillEvents ==
    ASSUME Grounds, EventInv, NEW s, Undisturbed(s, {}, {}),
           UNCHANGED <<gpuVars, events, mark, records, issued>>,
           \A x \in Streams : /\ queue'[x].freeSignals = queue[x].freeSignals
                              /\ queue'[x].backlog \in {queue[x].backlog, <<>>}
                              /\ InUse(x) => InUse(x)',
           Awaiting'
    PROVE  EventInv'
<1>1. /\ QueueInv /\ EventsApart
      /\ UNCHANGED <<fifo, running, done, value, stamp, clock>>
  BY DEF Grounds, StreamInv, TimelineInv, gpuVars
<1>2. \A e : /\ Recorded(e)' = Recorded(e) /\ LaneOf(e)' = LaneOf(e) /\ Noted(e)' = Noted(e)
  BY DEF Recorded, LaneOf, Noted, EventSignal
<1>3. NoneAcross'
  <2>1. \A t : Underway(t)' = Underway(t)
    BY <1>1 DEF Underway
  <2> QED
    BY <1>1, <1>2, <2>1 DEF NoneAcross, EventInv
<1>4. PiecesMarked'
  <2> SUFFICES ASSUME NEW e \in Events, Recorded(e)
               PROVE  Vouches(queue[events[e].stream], Noted(e), mark[e].after)'
    BY <1>2 DEF PiecesMarked
  <2>1. PICK v, X, n : v = events[e].stream /\ X = Noted(e) /\ n = mark[e].after
    OBVIOUS
  <2>2. v \in Streams /\ Vouches(queue[v], X, n)
    BY <2>1 DEF EventInv, PiecesMarked, EventsMarked, Marked
  <2>3. queue'[v].backlog \in {queue[v].backlog, <<>>}
    BY <2>2
  <2>4. Vouches(queue'[v], X, n)
    BY <2>2, <2>3 DEF Vouches
  <2>5. events'[e].stream = v /\ Noted(e)' = X /\ mark'[e].after = n
    BY <1>2, <2>1
  <2> QED
    BY <2>4, <2>5 DEF Vouches
<1>5. \A x \in Streams : /\ queue'[x].freeSignals = queue[x].freeSignals
                         /\ InUse(x) => InUse(x)'
                         /\ Len(issued[x]) <= Len(issued'[x])
                         /\ Len(issued'[x]) \in Nat
  BY <1>1 DEF QueueInv, TypeOK, HostTypeOK
<1>6. PICK N : N = {}
  OBVIOUS
<1>7. N \subseteq Plain \cup NextWork(s) /\ done \subseteq done' /\ (s \in Streams \/ N = {})
      /\ Undisturbed(s, N, N)
  BY <1>1, <1>6
<1> QED
  BY <1>1, <1>3, <1>4, <1>5, <1>7, QuietEvents

\* The CPU goes on, or waits; a stream comes alive or to its end.
LEMMA HostMovesKeepEvents ==
    ASSUME Grounds, EventInv, UNCHANGED <<gpuVars, queue, events, mark, records, issued>>,
           \A x \in Streams : Cursor(x)' = Cursor(x) /\ (InUse(x) => InUse(x)'),
           Awaiting'
    PROVE  EventInv'
<1>1. Undisturbed(NULL, {}, {})
  BY StillUndisturbed DEF gpuVars
<1> QED
  BY <1>1, StillEvents

LEMMA NextEntryKeepsEvents ==
    ASSUME Grounds, EventInv, NextEntry
    PROVE  EventInv'
<1>1. QueueInv /\ cpu.at = "wait" /\ cpu' = [cpu EXCEPT !.at = "submit", !.entry = cpu.entry + 1]
      /\ UNCHANGED <<gpuVars, queue, state, events, mark, records, issued>>
  BY DEF NextEntry, EntryReached, Grounds, StreamInv
<1>2. cpu'.at = "submit" /\ cpu'.stream = cpu.stream /\ cpu'.entry = cpu.entry + 1
  BY <1>1 DEF QueueInv, TypeOK, HostTypeOK, CpuState, Idle
<1>3. \A x \in Streams : Cursor(x)' = Cursor(x) /\ (InUse(x) => InUse(x)')
  BY <1>1, <1>2 DEF Cursor, InUse
<1> QED
  BY <1>1, <1>2, <1>3, HostMovesKeepEvents DEF Awaiting

LEMMA CommenceReturnsKeepsEvents ==
    ASSUME Grounds, EventInv, CommenceReturns
    PROVE  EventInv'
<1>1. QueueInv /\ OrderInv /\ GpuTypeOK
  BY DEF Grounds, StreamInv, QueueInv, TypeOK
<1>2. PICK s, e, q : s = cpu.stream /\ e = cpu.entry /\ q = queue[s]
  OBVIOUS
<1>3. PICK r : r = [q EXCEPT !.backlog = <<>>]
  OBVIOUS
<1>4. /\ cpu.at = "wait" /\ cpu' = Idle
      /\ queue' = [queue EXCEPT ![s] = r]
      /\ UNCHANGED <<gpuVars, state, events, mark, records, issued>>
  BY <1>2, <1>3 DEF CommenceReturns, EntryReached
<1>5. /\ s \in Streams /\ q \in NvCommandQueue /\ \A u \in QueueTypes : q.buf[u] = <<>>
      /\ \A x \in Streams \ {s} : Cursor(x) = 1
  <2>1. Playing(issued, q, s, e)
    BY <1>1, <1>2, <1>4, PlayedQueue
  <2> QED
    BY <2>1 DEF Playing
<1>6. r.buf = q.buf /\ r.backlog = <<>> /\ r.freeSignals = q.freeSignals
  BY <1>3, <1>5 DEF NvCommandQueue
<1>7. \A x : Cursor(x)' = 1
  BY <1>4 DEF Cursor, Idle
<1>8. PICK b, k : b = <<>> /\ k = Cursor(s)
  OBVIOUS
<1>9. Hands(queue[s], Cursor(s), "DMA", b, r, Cursor(s)', {}, {})
  <2>1. Hands(q, k, "DMA", <<>>, r, 1, {}, {})
    BY <1>5, <1>6, PlayedHands
  <2> QED
    BY <1>2, <1>7, <1>8, <2>1
<1>10. "DMA" \in QueueTypes /\ fifo' = [fifo EXCEPT !["DMA"] = fifo["DMA"] \o b]
  <2>1. "DMA" \in QueueTypes /\ fifo["DMA"] \in Seq(Command) /\ fifo' = fifo
    BY <1>1, <1>4 DEF GpuTypeOK, QueueTypes, gpuVars
  <2> QED
    BY <1>1, <1>8, <2>1, ConcatEmptySeq DEF GpuTypeOK
<1>11. Undisturbed(s, {}, {})
  <2>1. \A x \in Streams \ {s} : Cursor(x)' = Cursor(x)
    BY <1>5, <1>7
  <2> QED
    BY <1>1, <1>4, <1>5, <1>9, <1>10, <2>1, HandedUndisturbed
<1>12. \A x \in Streams : /\ queue'[x].freeSignals = queue[x].freeSignals
                          /\ queue'[x].backlog \in {queue[x].backlog, <<>>}
                          /\ InUse(x) => InUse(x)'
  BY <1>1, <1>2, <1>4, <1>6 DEF QueueInv, TypeOK, HostTypeOK, InUse
<1>13. Awaiting'
  BY <1>4 DEF Awaiting, Idle
<1> QED
  BY <1>4, <1>11, <1>12, <1>13, StillEvents

LEMMA AwaitReturnsKeepsEvents ==
    ASSUME Grounds, EventInv, AwaitReturns
    PROVE  EventInv'
<1>1. PICK s \in Streams : s = cpu.stream
  BY CpuFields DEF Grounds, StreamInv, QueueInv, TypeOK, AwaitReturns
<1>2. PICK q, r : q = queue[s] /\ r = [q EXCEPT !.kernArgsWriteIdx = 0]
  OBVIOUS
<1>3. /\ cpu.at = "await" /\ cpu' = Idle
      /\ queue' = [queue EXCEPT ![s] = r]
      /\ UNCHANGED <<gpuVars, state, events, mark, records, issued>>
  BY <1>1, <1>2 DEF AwaitReturns
<1>4. QueueInv /\ q \in NvCommandQueue
  BY <1>2 DEF Grounds, StreamInv, QueueInv, TypeOK, HostTypeOK
<1>5. r.buf = q.buf /\ r.backlog = q.backlog /\ r.freeSignals = q.freeSignals /\ r \in NvCommandQueue
  <2>1. 0 \in 0..KernArgsSlots
    BY FuncAssumption
  <2>2. r \in NvCommandQueue
    BY <1>2, <1>4, <2>1 DEF NvCommandQueue
  <2> QED
    BY <1>2, <1>4, <2>2 DEF NvCommandQueue
<1>6. Follows(q, r, {})
  BY <1>4, <1>5, SelfFollows, SameBuffersAppend, FollowsAppends
<1>7. \A x : Cursor(x) = 1 /\ Cursor(x)' = 1
  BY <1>3 DEF Cursor, Idle
<1>8. Undisturbed(s, {}, {})
  BY <1>2, <1>3, <1>4, <1>6, <1>7, CalledUndisturbed DEF gpuVars
<1>9. \A x \in Streams : /\ queue'[x].freeSignals = queue[x].freeSignals
                         /\ queue'[x].backlog \in {queue[x].backlog, <<>>}
                         /\ InUse(x) => InUse(x)'
  BY <1>2, <1>3, <1>4, <1>5 DEF QueueInv, TypeOK, HostTypeOK, InUse
<1>10. Awaiting'
  BY <1>3 DEF Awaiting, Idle
<1> QED
  BY <1>3, <1>8, <1>9, <1>10, StillEvents

\* The other steps of the program that leave the queues and the events alone.
LEMMA HostStepsKeepEvents ==
    ASSUME Grounds, EventInv,
           \/ InitDmaReturns \/ EventSynchronizeReturns
           \/ \E s \in Streams : StreamCreateFails(s) \/ StreamDestroy(s) \/ Await(s)
           \/ \E e \in Events : EventSynchronize(e)
           \/ UNCHANGED vars
    PROVE  EventInv'
<1>1. /\ UNCHANGED <<gpuVars, queue, events, mark, records, issued>>
      /\ cpu.at \notin {"submit", "wait"} \/ cpu' = cpu
      /\ cpu'.at \notin {"submit", "wait"} \/ cpu' = cpu
  BY DEF InitDmaReturns, EventSynchronizeReturns, StreamCreateFails, StreamDestroy, Await,
         EventSynchronize, Ready, Idle, vars, hostVars
<1>2. \A x \in Streams : Cursor(x)' = Cursor(x)
  BY <1>1 DEF Cursor
<1>3. \A x \in Streams : InUse(x) => InUse(x)'
  <2>1. state \in [Streams -> {"none", "creating", "failed", "alive", "destroyed"}] /\ OrderInv
    BY DEF Grounds, StreamInv, QueueInv, TypeOK, HostTypeOK
  <2>2. CASE state' = state
    BY <2>2 DEF InUse
  <2>3. CASE InitDmaReturns
    BY <2>1, <2>3 DEF InitDmaReturns, InUse
  <2>4. ASSUME NEW s \in Streams, StreamDestroy(s)
        PROVE  \A x \in Streams : InUse(x) => InUse(x)'
    BY <2>1, <2>4 DEF StreamDestroy, InUse
  <2>5. ASSUME NEW s \in Streams, StreamCreateFails(s)
        PROVE  \A x \in Streams : InUse(x) => InUse(x)'
    <3>1. ~InUse(s) /\ state' = [state EXCEPT ![s] = "failed"]
      BY <2>1, <2>5 DEF StreamCreateFails, InUse, OrderInv, CountersSound
    <3> QED
      BY <2>1, <3>1 DEF InUse
  <2>6. \/ state' = state \/ InitDmaReturns
        \/ \E s \in Streams : StreamDestroy(s) \/ StreamCreateFails(s)
    BY DEF EventSynchronizeReturns, Await, EventSynchronize, vars, hostVars
  <2> QED
    BY <2>2, <2>3, <2>4, <2>5, <2>6
<1>4. Awaiting'
  <2>1. CASE cpu' = cpu
    BY <1>1, <2>1 DEF Awaiting, EventInv, Recorded
  <2>2. CASE cpu'.at # "waitEvent"
    BY <2>2 DEF Awaiting
  <2>3. ASSUME NEW e \in Events, EventSynchronize(e)
        PROVE  Awaiting'
    <3>1. Recorded(e)
      BY <2>3 DEF EventSynchronize, EventSignal, EventInv, EventsMarked
    <3> QED
      BY <1>1, <2>3, <3>1 DEF EventSynchronize, Awaiting, Recorded
  <2>4. cpu' = cpu \/ cpu'.at # "waitEvent" \/ \E e \in Events : EventSynchronize(e)
    BY DEF InitDmaReturns, EventSynchronizeReturns, StreamCreateFails, StreamDestroy, Await,
           Idle, vars, hostVars
  <2> QED
    BY <2>1, <2>2, <2>3, <2>4
<1> QED
  BY <1>1, <1>2, <1>3, <1>4, HostMovesKeepEvents

-----------------------------------------------------------------------------
(* Events and the GPU.                                                      *)

\* A channel takes its next command.
LEMMA TakenArranged ==
    ASSUME Grounds, EventInv, NEW c \in QueueTypes, fifo[c] # <<>>, Take(c),
           UNCHANGED <<done, hostVars>>,
           NEW h, h = Head(fifo[c]),
           \A d \in QueueTypes : Underway(d)' \subseteq
              Underway(d) \cup (IF d = c /\ IsWork(h) THEN {h.op} ELSE {})
    PROVE  Arranged' /\ NoneAcross' /\ PiecesMarked' /\ Awaiting'
<1>1. /\ QueueInv /\ EventsApart
      /\ UNCHANGED <<queue, cpu, events, mark, records, issued, state>>
  BY DEF Grounds, StreamInv, TimelineInv, hostVars
<1>2. Undisturbed(NULL, {}, {})
  BY <1>1, TakenUndisturbed
<1>3. \A e : /\ Recorded(e)' = Recorded(e) /\ LaneOf(e)' = LaneOf(e) /\ Noted(e)' = Noted(e)
  BY <1>1 DEF Recorded, LaneOf, Noted, EventSignal
<1>4. PICK a, b : a = fifo[c] /\ b = Tail(a)
  OBVIOUS
<1>5. /\ a \in Seq(Command) /\ a # <<>>
      /\ \A d \in QueueTypes : fifo'[d] = IF d = c THEN b ELSE fifo[d]
  BY <1>1, <1>4 DEF QueueInv, TypeOK, GpuTypeOK, Take
<1>6. \A X : Meets(b, X) => Meets(a, X)
  BY <1>4, <1>5, TailOrder
<1>7. \A o : Has(b, o) => Has(a, o)
  <2>1. \A i \in DOMAIN b : i + 1 \in DOMAIN a /\ b[i] = a[i + 1]
    BY <1>4, <1>5
  <2> QED
    BY <2>1 DEF Has
<1>8. IsWork(h) => Has(a, h.op)
  <2>1. 1 \in DOMAIN a /\ h = a[1]
    BY <1>4, <1>5
  <2> QED
    BY <2>1 DEF Has
<1>9. NoneAcross'
  <2> SUFFICES ASSUME NEW e \in Events, Recorded(e), NEW o \in Ops,
                      o[1] = events[e].stream, o[2] <= mark[e].after,
                      NEW l, l = LaneOf(e), Meets(fifo'[l], Noted(e))
               PROVE  ~Has(fifo'[Other(l)], o) /\ o \notin Underway(Other(l))'
    BY <1>1, <1>3 DEF NoneAcross, Underway
  <2>1. l \in QueueTypes /\ Other(l) \in QueueTypes
    BY OtherType DEF LaneOf, QueueTypes
  <2>2. Meets(fifo[l], Noted(e))
    BY <1>4, <1>5, <1>6, <2>1
  <2>3. ~Has(fifo[Other(l)], o) /\ o \notin Underway(Other(l))
    BY <2>2 DEF EventInv, NoneAcross
  <2>4. ~Has(fifo'[Other(l)], o)
    BY <1>4, <1>5, <1>7, <2>1, <2>3
  <2>5. o \notin Underway(Other(l))'
    BY <1>4, <1>8, <2>1, <2>3
  <2> QED
    BY <2>4, <2>5
<1>10. PiecesMarked'
  BY <1>1, <1>3 DEF PiecesMarked, EventInv
<1>11. Awaiting'
  BY <1>1 DEF Awaiting, EventInv, Recorded
<1>12. \A x \in Streams : /\ queue'[x].freeSignals = queue[x].freeSignals
                          /\ InUse(x) => InUse(x)'
                          /\ Len(issued[x]) <= Len(issued'[x])
                          /\ Len(issued'[x]) \in Nat
  BY <1>1 DEF QueueInv, TypeOK, HostTypeOK, InUse
<1>13. PICK N : N = {}
  OBVIOUS
<1>14. N \subseteq Plain \cup NextWork(NULL) /\ (NULL \in Streams \/ N = {})
       /\ Undisturbed(NULL, N, N)
  BY <1>2, <1>13
<1> QED
  BY <1>1, <1>9, <1>10, <1>11, <1>12, <1>14, QuietArranged

\* It is no release, or one of a timeline.
LEMMA TakenKeepsEvents ==
    ASSUME Grounds, EventInv, NEW c \in QueueTypes, fifo[c] # <<>>, Take(c),
           UNCHANGED <<done, stamp, clock, hostVars>>,
           \A g : value'[g] = value[g] \/ \E y \in Streams : g = Timeline(y),
           NEW h, h = Head(fifo[c]),
           \A d \in QueueTypes : Underway(d)' \subseteq
              Underway(d) \cup (IF d = c /\ IsWork(h) THEN {h.op} ELSE {})
    PROVE  EventInv'
<1>1. /\ QueueInv /\ EventsApart
      /\ UNCHANGED <<queue, cpu, events, mark, records, issued, state>>
  BY DEF Grounds, StreamInv, TimelineInv, hostVars
<1>2. Undisturbed(NULL, {}, {})
  BY <1>1, TakenUndisturbed
<1>3. Arranged' /\ NoneAcross' /\ PiecesMarked' /\ Awaiting'
  BY TakenArranged
<1>4. \A x \in Streams : /\ queue'[x].freeSignals = queue[x].freeSignals
                         /\ InUse(x) => InUse(x)'
                         /\ Len(issued[x]) <= Len(issued'[x])
                         /\ Len(issued'[x]) \in Nat
  BY <1>1 DEF QueueInv, TypeOK, HostTypeOK, InUse
<1>5. PICK N : N = {}
  OBVIOUS
<1>6. N \subseteq Plain \cup NextWork(NULL) /\ done \subseteq done'
      /\ (NULL \in Streams \/ N = {}) /\ Undisturbed(NULL, N, N)
  BY <1>2, <1>5
<1> QED
  BY <1>1, <1>3, <1>4, <1>6, QuietEvents

LEMMA FinishKeepsEvents ==
    ASSUME Grounds, EventInv, NEW c \in QueueTypes, Finish(c), UNCHANGED hostVars
    PROVE  EventInv'
<1>1. /\ QueueInv /\ EventsApart
      /\ UNCHANGED <<fifo, value, stamp, clock, queue, cpu, events, mark, records, issued, state>>
      /\ done \subseteq done'
  BY DEF Grounds, StreamInv, TimelineInv, hostVars, Finish
<1>2. \A d \in QueueTypes : running'[d] \subseteq running[d]
  BY <1>1 DEF Finish, QueueInv, TypeOK, GpuTypeOK
<1>3. \A e : /\ Recorded(e)' = Recorded(e) /\ LaneOf(e)' = LaneOf(e) /\ Noted(e)' = Noted(e)
  BY <1>1 DEF Recorded, LaneOf, Noted, EventSignal
<1>4. NoneAcross'
  <2>1. \A d \in QueueTypes : Underway(d)' \subseteq Underway(d)
    BY <1>2 DEF Underway
  <2>2. \A e \in Events : Other(LaneOf(e)) \in QueueTypes
    BY OtherType DEF LaneOf, QueueTypes
  <2> QED
    BY <1>1, <1>3, <2>1, <2>2 DEF NoneAcross, EventInv
<1>5. PiecesMarked' /\ Awaiting'
  BY <1>1, <1>3 DEF PiecesMarked, Awaiting, EventInv
<1>6. Undisturbed(NULL, {}, {})
  <2>1. \A x \in Streams : Cursor(x)' = Cursor(x)
    BY <1>1 DEF Cursor
  <2> QED
    BY <1>1, <2>1, StillUndisturbed
<1>7. \A x \in Streams : /\ queue'[x].freeSignals = queue[x].freeSignals
                         /\ InUse(x) => InUse(x)'
                         /\ Len(issued[x]) <= Len(issued'[x])
                         /\ Len(issued'[x]) \in Nat
  BY <1>1 DEF QueueInv, TypeOK, HostTypeOK, InUse
<1>8. PICK N : N = {}
  OBVIOUS
<1>9. N \subseteq Plain \cup NextWork(NULL) /\ (NULL \in Streams \/ N = {}) /\ Undisturbed(NULL, N, N)
  BY <1>6, <1>8
<1> QED
  BY <1>1, <1>4, <1>5, <1>7, <1>9, QuietEvents

-----------------------------------------------------------------------------
(* Events and the channels.                                                 *)

\* Work that waits in a queue is there among the work of its stream.
LEMMA WaitingMeets ==
    ASSUME QueueInv, NEW s \in Streams, NEW o \in Ops, Waiting(s, o), NEW v, NEW n,
           o[1] = v, o[2] <= n
    PROVE  \E t \in QueueTypes : LaneHas(queue[s], Cursor(s), t, WorkUpto(v, n))
<1>1. PICK q, k, X : q = queue[s] /\ k = Cursor(s) /\ X = WorkUpto(v, n)
  OBVIOUS
<1>2. q \in NvCommandQueue /\ k \in Nat \ {0}
  BY <1>1, CursorIsPlace DEF QueueInv, TypeOK, HostTypeOK
<1>3. /\ \A t \in QueueTypes : q.buf[t] \in Seq(Command)
      /\ \A i \in DOMAIN q.backlog : /\ q.backlog[i].buf \in Seq(Command)
                                     /\ q.backlog[i].type \in QueueTypes
  <2>1. q.buf \in [QueueTypes -> Seq(Command)] /\ q.backlog \in Seq(Split)
    BY <1>2 DEF NvCommandQueue
  <2>2. \A i \in DOMAIN q.backlog : q.backlog[i] \in Split
    BY <2>1
  <2>3. \A t \in QueueTypes : q.buf[t] \in Seq(Command)
    BY <2>1
  <2>4. \A i \in DOMAIN q.backlog : /\ q.backlog[i].buf \in Seq(Command)
                                   /\ q.backlog[i].type \in QueueTypes
    BY <2>2, SplitFields, Zenon
  <2> QED
    BY <2>3, <2>4
<1>4. \A i \in k..Len(q.backlog) : i \in DOMAIN q.backlog
  BY <1>2 DEF NvCommandQueue
<1>5. \/ \E t \in QueueTypes : Has(q.buf[t], o)
      \/ \E i \in k..Len(q.backlog) : Has(q.backlog[i].buf, o)
  BY <1>1 DEF Waiting, Holds
<1>6. \A b \in Seq(Command) : Has(b, o) => Meets(b, X)
  BY <1>1, WorkMeets
<1> QED
  BY <1>1, <1>3, <1>4, <1>5, <1>6 DEF LaneHas

\* When the release of an event is next in its channel, which is idle, what
\* the event stands for is done.
LEMMA NextReleaseSound ==
    ASSUME Grounds, EventInv, NEW c \in QueueTypes, fifo[c] # <<>>, running[c] = {},
           NEW e \in Events, Recorded(e), Head(fifo[c]) \in Noted(e),
           NEW o \in Ops, o[1] = events[e].stream, o[2] <= mark[e].after
    PROVE  o \in done
<1>1. QueueInv /\ EveryOpHeld
  BY DEF Grounds, StreamInv
<1>2. PICK a, b, s, n, X, W : /\ a = fifo[c] /\ b = Tail(a) /\ s = events[e].stream
                              /\ n = mark[e].after /\ X = Noted(e) /\ W = WorkUpto(s, n)
  OBVIOUS
<1>3. /\ a \in Seq(Command) /\ a # <<>> /\ s \in Streams /\ Marked(e, s, EventSignal(e))
      /\ \A t \in QueueTypes : fifo[t] \in Seq(Command)
      /\ Head(a) \in X
  BY <1>1, <1>2 DEF QueueInv, TypeOK, GpuTypeOK, EventInv, EventsMarked, Marked
<1>4. Meets(a, X) /\ (Meets(b, W) => OutOfOrder(a, X, W))
  BY <1>2, <1>3, TailOrder
<1>5. c = LaneOf(e)
  <2>1. ~Absent(c, X)
    BY <1>2, <1>4 DEF Absent
  <2>2. Absent(Other(LaneOf(e)), X)
    BY <1>2 DEF EventInv, LanesKept
  <2> QED
    BY <2>1, <2>2 DEF LaneOf, Other, QueueTypes
<1>6. Sorted(s, X, W)
  BY <1>2 DEF EventInv, WorkBefore
<1>7. ~Waiting(s, o)
  <2>1. \A t \in QueueTypes : ~LaneHas(queue[s], Cursor(s), t, W)
    BY <1>2, <1>4, <1>6 DEF Sorted
  <2> QED
    BY <1>1, <1>2, <1>3, <2>1, WaitingMeets
<1>8. ~Has(a, o)
  <2> SUFFICES ASSUME Has(a, o) PROVE FALSE
    OBVIOUS
  <2>1. PICK i \in DOMAIN a : IsWork(a[i]) /\ a[i].op = o
    BY DEF Has
  <2>2. a[1].kind = "release" /\ Head(a) = a[1]
    BY <1>2, <1>3 DEF Noted, ReleasesOf, Releases
  <2>3. i # 1
    BY <2>1, <2>2 DEF IsWork
  <2>4. i - 1 \in DOMAIN b /\ b[i - 1] = a[i]
    BY <1>2, <1>3, <2>1, <2>3
  <2>5. Has(b, o) /\ b \in Seq(Command)
    BY <1>2, <1>3, <2>1, <2>4 DEF Has
  <2>6. Meets(b, W)
    BY <1>2, <2>5, WorkMeets
  <2> QED
    BY <1>2, <1>4, <1>6, <2>6 DEF Sorted
<1>9. ~Has(fifo[Other(c)], o) /\ o \notin Underway(Other(c))
  BY <1>2, <1>4, <1>5 DEF EventInv, NoneAcross
<1>10. ~InChannel(o)
  BY <1>2, <1>8, <1>9 DEF InChannel, Other, QueueTypes
<1>11. WasIssued(o)
  <2>1. n <= Len(issued[s]) /\ n \in Nat /\ Len(issued[s]) \in Nat /\ o[2] \in Nat \ {0}
    BY <1>1, <1>2, <1>3 DEF Marked, QueueInv, TypeOK, HostTypeOK, Ops
  <2> QED
    BY <1>2, <2>1 DEF WasIssued
<1>12. o \in Started
  BY <1>1, <1>2, <1>7, <1>10, <1>11 DEF EveryOpHeld
<1>13. \A d \in QueueTypes : o \notin Underway(d)
  BY <1>9 DEF Underway, Other, QueueTypes
<1> QED
  BY <1>12, <1>13 DEF Started, Executing, Underway

LEMMA EventReleaseKeepsEvents ==
    ASSUME Grounds, EventInv, NEW c \in QueueTypes, Release(c), UNCHANGED hostVars,
           NEW g, g = Head(fifo[c]).sig, \A s \in Streams : g # Timeline(s)
    PROVE  EventInv'
<1>1. /\ QueueInv /\ EventsApart
      /\ UNCHANGED <<queue, cpu, events, mark, records, issued, state, running, done>>
      /\ fifo[c] # <<>> /\ Take(c) /\ running[c] = {}
  BY DEF Grounds, StreamInv, TimelineInv, hostVars, Release, NextIs, ChannelIdle
<1>2. PICK a, h : a = fifo[c] /\ h = Head(a)
  OBVIOUS
<1>3. a \in Seq(Command) /\ a # <<>> /\ h \in Command /\ h.kind = "release" /\ h.sig = g
  BY <1>1, <1>2, HeadIsCommand DEF QueueInv, TypeOK, GpuTypeOK, Release, NextIs
<1>4. h \in Releases /\ g \in Signals
  BY <1>3 DEF Command, Launches, Copies, Releases, Acquires, LocalMemSets
<1>5. h \in ReleasesOf(g)
  BY <1>3, <1>4 DEF ReleasesOf
<1>6. /\ clock' = clock + 1 /\ clock \in Nat
      /\ \A x \in Signals : /\ x # g => value'[x] = value[x] /\ stamp'[x] = stamp[x]
                            /\ stamp'[g] = clock'
                            /\ stamp[x] \in Nat
  BY <1>1, <1>4 DEF QueueInv, TypeOK, GpuTypeOK, Release
<1>7. Arranged' /\ NoneAcross' /\ PiecesMarked' /\ Awaiting'
  <2>1. UNCHANGED <<done, hostVars>> /\ \A d \in QueueTypes : Underway(d)' \subseteq
           Underway(d) \cup (IF d = c /\ IsWork(h) THEN {h.op} ELSE {})
    BY <1>1 DEF Underway
  <2>2. h = Head(fifo[c])
    BY <1>2
  <2> QED
    BY <1>1, <2>1, <2>2, TakenArranged
<1>8. \A t \in QueueTypes : \A X : Absent(t, X) => Absent(t, X)'
  <2>1. Undisturbed(NULL, {}, {})
    BY <1>1, TakenUndisturbed
  <2> QED
    BY <2>1 DEF Undisturbed
<1>9. Meets(a, ReleasesOf(g)) /\ ~Absent(c, ReleasesOf(g))
  BY <1>2, <1>3, <1>5, TailOrder DEF Absent
<1>10. \A e : /\ Recorded(e)' = Recorded(e) /\ LaneOf(e)' = LaneOf(e)
              /\ EventSignal(e)' = EventSignal(e) /\ Noted(e)' = Noted(e)
  BY <1>1 DEF Recorded, LaneOf, EventSignal, Noted
<1>11. \A e, f : Before(e, f)' = Before(e, f)
  BY <1>1, <1>10 DEF Before, RecordedBefore
<1>12. \A e \in Events : Recorded(e) => EventSignal(e) \in Signals
  BY DEF EventInv, EventsMarked, Marked
<1>13. FreshSignals'
  <2>1. ASSUME NEW x \in Signals, Fresh(x) PROVE Fresh(x)'
    <3>1. x # g
      BY <1>9, <2>1 DEF Fresh
    <3> QED
      BY <1>6, <1>8, <1>10, <2>1, <3>1 DEF Fresh
  <2>2. ASSUME NEW s \in Streams, NEW free, free = queue[s].freeSignals
        PROVE  /\ \A i \in DOMAIN free : Fresh(<<s, free[i]>>)'
               /\ \A i, j \in DOMAIN free : free[i] = free[j] => i = j
    <3>1. free \in Seq(0..(PoolSize - 1))
      <4>1. queue[s] \in NvCommandQueue
        BY <1>1 DEF QueueInv, TypeOK, HostTypeOK
      <4> QED
        BY <2>2, <4>1 DEF NvCommandQueue
    <3>2. \A i \in DOMAIN free : <<s, free[i]>> \in Signals
      <4>1. \A i \in DOMAIN free : free[i] \in 0..(PoolSize - 1)
        <5>1. PICK S : S = 0..(PoolSize - 1)
          OBVIOUS
        <5>2. free \in Seq(S)
          BY <3>1, <5>1
        <5>3. \A i \in DOMAIN free : free[i] \in S
          BY <5>2
        <5> QED
          BY <5>1, <5>3
      <4> QED
        BY <4>1 DEF Signals
    <3>3. \A i \in DOMAIN free : Fresh(<<s, free[i]>>)'
      <4>1. ASSUME NEW i \in DOMAIN free, NEW x, x = <<s, free[i]>>
            PROVE  Fresh(x)'
        BY <2>1, <2>2, <3>2, <4>1 DEF EventInv, FreshSignals
      <4>2. ASSUME NEW i \in DOMAIN free PROVE Fresh(<<s, free[i]>>)'
        <5>1. PICK x : x = <<s, free[i]>>
          OBVIOUS
        <5>2. Fresh(x)'
          BY <4>1, <5>1
        <5> QED
          BY <5>1, <5>2
      <4> QED
        BY <4>2
    <3> QED
      BY <2>2, <3>3 DEF EventInv, FreshSignals
  <2>3. \A s \in Streams :
          /\ \A i \in DOMAIN queue[s].freeSignals : Fresh(<<s, queue[s].freeSignals[i]>>)'
          /\ \A i, j \in DOMAIN queue[s].freeSignals :
                queue[s].freeSignals[i] = queue[s].freeSignals[j] => i = j
    BY <1>1, <2>2
  <2> QED
    BY <1>1, <2>3 DEF FreshSignals
<1>14. HitSound'
  <2> SUFFICES ASSUME NEW e \in Events, Recorded(e), value'[EventSignal(e)] # 0,
                      NEW o \in Ops, o[1] = events[e].stream, o[2] <= mark[e].after
               PROVE  o \in done
    BY <1>1, <1>10 DEF HitSound
  <2>1. CASE EventSignal(e) = g
    <3>1. Head(fifo[c]) \in Noted(e)
      BY <1>2, <1>5, <2>1 DEF Noted
    <3> QED
      BY <1>1, <3>1, NextReleaseSound
  <2>2. CASE EventSignal(e) # g
    BY <1>6, <1>12, <2>2 DEF EventInv, HitSound
  <2> QED
    BY <2>1, <2>2
<1>15. \A x \in Signals : stamp'[x] <= clock'
  BY <1>6 DEF EventInv, Stamped
<1>16. ASSUME NEW e \in Events, NEW f \in Events, Before(e, f), value'[EventSignal(f)] # 0
       PROVE  /\ \A t \in QueueTypes : Absent(t, Noted(e))'
              /\ value'[EventSignal(e)] # 0 => stamp'[EventSignal(e)] <= stamp'[EventSignal(f)]
  <2>1. Recorded(e) /\ Recorded(f) /\ EventSignal(e) \in Signals /\ EventSignal(f) \in Signals
    BY <1>12, <1>16 DEF Before
  <2>2. PICK X, Y : X = Noted(f) /\ Y = Noted(e)
    OBVIOUS
  <2>3. CASE EventSignal(f) = g
    <3>1. stamp'[EventSignal(e)] <= stamp'[EventSignal(f)]
      BY <1>6, <1>15, <2>1, <2>3
    <3>2. PICK s : s = events[f].stream
      OBVIOUS
    <3>3. Sorted(s, X, Y) /\ h \in X
      BY <1>5, <1>16, <2>2, <2>3, <3>2 DEF EventInv, EventsBefore, Noted
    <3>4. Absent(Other(LaneOf(f)), X) /\ Absent(Other(LaneOf(f)), Y)
      BY <1>16, <2>1, <2>2 DEF EventInv, LanesKept, Before
    <3>5. Meets(a, X)
      BY <1>2, <1>3, <3>3, TailOrder
    <3>6. c = LaneOf(f)
      <4>1. ~Absent(c, X)
        BY <1>2, <3>5 DEF Absent
      <4> QED
        BY <3>4, <4>1 DEF LaneOf, Other, QueueTypes
    <3>7. ~Meets(Tail(a), Y)
      <4>1. ~OutOfOrder(a, X, Y)
        BY <1>2, <3>3 DEF Sorted
      <4> QED
        BY <1>2, <1>3, <3>3, <4>1, TailOrder
    <3>8. \A r \in Streams : ~LaneHas(queue[r], Cursor(r), c, Y)
      BY <1>2, <3>3, <3>5 DEF Sorted
    <3>9. Absent(c, Y)'
      <4>1. fifo'[c] = Tail(a)
        BY <1>1, <1>2 DEF Take, QueueInv, TypeOK, GpuTypeOK
      <4>2. \A r \in Streams : Cursor(r)' = Cursor(r) /\ queue'[r] = queue[r]
        BY <1>1 DEF Cursor
      <4> QED
        BY <3>7, <3>8, <4>1, <4>2 DEF Absent
    <3>10. Other(c) \in QueueTypes /\ Absent(Other(c), Y)'
      BY <1>8, <3>4, <3>6, OtherType
    <3>11. \A t \in QueueTypes : Absent(t, Y)'
      BY <3>9, <3>10 DEF Other, QueueTypes
    <3> QED
      BY <1>10, <2>2, <3>1, <3>11
  <2>4. CASE EventSignal(f) # g
    <3>1. /\ \A t \in QueueTypes : Absent(t, Y)
          /\ value[EventSignal(e)] # 0 => stamp[EventSignal(e)] <= stamp[EventSignal(f)]
      BY <1>6, <1>16, <2>1, <2>2, <2>4 DEF EventInv, Stamped
    <3>2. EventSignal(e) # g
      BY <1>9, <2>2, <3>1 DEF Noted
    <3>3. \A t \in QueueTypes : Absent(t, Y)'
      BY <1>8, <3>1
    <3> QED
      BY <1>6, <1>10, <2>1, <2>2, <2>4, <3>1, <3>2, <3>3
  <2> QED
    BY <2>3, <2>4
<1>17. Stamped'
  BY <1>10, <1>11, <1>15, <1>16 DEF Stamped
<1> QED
  BY <1>7, <1>13, <1>14, <1>17 DEF EventInv, Arranged

LEMMA BeginKeepsEvents ==
    ASSUME Grounds, EventInv, NEW c \in QueueTypes, fifo[c] # <<>>,
           Head(fifo[c]).kind \in {"launch", "copy"}, Begin(c), UNCHANGED hostVars
    PROVE  EventInv'
<1>1. PICK h : h = Head(fifo[c])
  OBVIOUS
<1>2. IsWork(h) /\ UNCHANGED <<done, stamp, clock, value>> /\ Take(c)
  BY <1>1 DEF IsWork, Begin
<1>3. running \in [QueueTypes -> SUBSET Task]
  BY DEF Grounds, StreamInv, QueueInv, TypeOK, GpuTypeOK
<1>4. PICK task : task = [cmd |-> h, region |-> localMem]
  OBVIOUS
<1>5. \A d \in QueueTypes : running'[d] = IF d = c THEN running[d] \cup {task} ELSE running[d]
  BY <1>1, <1>3, <1>4 DEF Begin
<1>6. \A d \in QueueTypes : Underway(d)' \subseteq
         Underway(d) \cup (IF d = c /\ IsWork(h) THEN {h.op} ELSE {})
  <2> SUFFICES ASSUME NEW d \in QueueTypes, NEW o, o \in Underway(d)'
               PROVE  o \in Underway(d) \/ (d = c /\ o = h.op)
    BY <1>2
  <2>1. PICK k \in running'[d] : o = k.cmd.op
    BY DEF Underway
  <2>2. k \in running[d] \/ (d = c /\ k = task)
    BY <1>5, <2>1
  <2> QED
    BY <1>4, <2>1, <2>2 DEF Underway
<1> QED
  BY <1>1, <1>2, <1>6, TakenKeepsEvents

LEMMA GpuStepKeepsEvents ==
    ASSUME Grounds, EventInv, GpuStep
    PROVE  EventInv'
<1>1. UNCHANGED hostVars /\ "COMPUTE" \in QueueTypes /\ "DMA" \in QueueTypes
  BY DEF GpuStep, QueueTypes
<1>2. CASE StartKernel \/ StartCopy
  <2>1. \E c \in QueueTypes : /\ fifo[c] # <<>> /\ Begin(c)
                              /\ Head(fifo[c]).kind \in {"launch", "copy"}
    BY <1>1, <1>2 DEF StartKernel, StartCopy, NextIs
  <2> QED
    BY <1>1, <2>1, BeginKeepsEvents
<1>3. ASSUME NEW c \in QueueTypes, fifo[c] # <<>>, Take(c),
             UNCHANGED <<running, done, stamp, clock>>,
             \A g : value'[g] = value[g] \/ \E y \in Streams : g = Timeline(y)
      PROVE  EventInv'
  <2>1. PICK h : h = Head(fifo[c])
    OBVIOUS
  <2>2. \A d \in QueueTypes : Underway(d)' \subseteq
           Underway(d) \cup (IF d = c /\ IsWork(h) THEN {h.op} ELSE {})
    BY <1>3 DEF Underway
  <2> QED
    BY <1>1, <1>3, <2>1, <2>2, TakenKeepsEvents
<1>4. CASE Acquire \/ SetLocalMem
  <2>1. fifo["COMPUTE"] # <<>> /\ Take("COMPUTE") /\ UNCHANGED <<running, done, stamp, clock, value>>
    BY <1>4 DEF Acquire, SetLocalMem, NextIs
  <2> QED
    BY <1>1, <1>3, <2>1
<1>5. ASSUME NEW c \in QueueTypes, Release(c) PROVE EventInv'
  <2>1. PICK g : g = Head(fifo[c]).sig
    OBVIOUS
  <2>2. CASE \A s \in Streams : g # Timeline(s)
    BY <1>1, <1>5, <2>1, <2>2, EventReleaseKeepsEvents
  <2>3. CASE \E s \in Streams : g = Timeline(s)
    <3>1. /\ fifo[c] # <<>> /\ Take(c) /\ UNCHANGED <<running, done, stamp, clock>>
          /\ value' = [value EXCEPT ![g] = Head(fifo[c]).payload]
      BY <1>5, <2>1, <2>3 DEF Release, NextIs
    <3>2. \A x : value'[x] = value[x] \/ \E y \in Streams : x = Timeline(y)
      <4>1. \A x : x # g => value'[x] = value[x]
        BY <3>1
      <4> QED
        BY <2>3, <4>1
    <3> QED
      BY <1>3, <3>1, <3>2
  <2> QED
    BY <2>2, <2>3
<1> QED
  BY <1>1, <1>2, <1>4, <1>5, FinishKeepsEvents DEF GpuStep, GpuNext, ComputeTakes, DmaTakes

-----------------------------------------------------------------------------
(* Recording an event.                                                      *)

LEMMA WorkAtHome ==
    ASSUME QueueInv, Once, NEW s \in Streams, NEW n, NEW r \in Streams \ {s},
           NEW t \in QueueTypes
    PROVE  ~LaneHas(queue[r], Cursor(r), t, WorkUpto(s, n))
<1>1. PICK q, k, X : q = queue[r] /\ k = Cursor(r) /\ X = WorkUpto(s, n)
  OBVIOUS
<1>2. ASSUME NEW b, Meets(b, X) PROVE \E o \in Ops : Has(b, o) /\ o[1] = s
  <2>1. PICK i \in DOMAIN b : b[i] \in X
    BY <1>2 DEF Meets
  <2>2. b[i].op \in Ops /\ IsWork(b[i]) /\ b[i].op[1] = s
    BY <1>1, <2>1 DEF WorkUpto, Launches, Copies, IsWork
  <2> QED
    BY <2>2 DEF Has
<1>3. \A o \in Ops : Holds(q, k, o) => r = o[1]
  BY <1>1 DEF Once, OnePlace, Waiting
<1>4. ~Meets(q.buf[t], X)
  BY <1>2, <1>3 DEF Holds
<1>5. \A i \in k..Len(q.backlog) : ~Meets(q.backlog[i].buf, X)
  BY <1>2, <1>3 DEF Holds
<1> QED
  BY <1>1, <1>4, <1>5 DEF LaneHas

\* What is nowhere comes before all else.
LEMMA AbsentSorted ==
    ASSUME QueueInv, NEW s \in Streams, NEW X, NEW Y,
           \A t \in QueueTypes : Absent(t, X),
           \A r \in Streams \ {s} : \A t \in QueueTypes : ~LaneHas(queue[r], Cursor(r), t, Y)
    PROVE  Sorted(s, X, Y)
<1>1. PICK q, k : q = queue[s] /\ k = Cursor(s)
  OBVIOUS
<1>2. q \in NvCommandQueue /\ k \in Nat \ {0}
  BY <1>1, CursorIsPlace DEF QueueInv, TypeOK, HostTypeOK
<1>3. /\ \A c \in QueueTypes : ~Meets(fifo[c], X)
      /\ \A r \in Streams : \A t \in QueueTypes : ~LaneHas(queue[r], Cursor(r), t, X)
  BY DEF Absent
<1>4. \A b : ~Meets(b, X) => ~OutOfOrder(b, X, Y)
  BY DEF Meets, OutOfOrder
<1>5. \A t \in QueueTypes : ~Meets(q.buf[t], X)
  BY <1>1, <1>3 DEF LaneHas
<1>6. \A i \in k..Len(q.backlog) : ~Meets(q.backlog[i].buf, X)
  <2>1. \A i \in k..Len(q.backlog) : q.backlog[i].type \in QueueTypes
    <3>1. q.backlog \in Seq(Split)
      BY <1>2 DEF NvCommandQueue
    <3>2. \A i \in k..Len(q.backlog) : q.backlog[i] \in Split
      BY <1>2, <3>1
    <3> QED
      BY <3>2, SplitFields, Zenon
  <2> QED
    BY <1>1, <1>3, <2>1 DEF LaneHas
<1>7. QueueInOrder(q, k, X, Y)
  BY <1>4, <1>5, <1>6 DEF QueueInOrder
<1> QED
  BY <1>1, <1>3, <1>4, <1>7 DEF Sorted

\* e is recorded for the first time: g, the first of the free signals of s, is to
\* be released by cmd in channel t, and r is the queue of s after that.
FirstRecord(e, s, t, free, g, cmd, r) ==
    /\ Ready(s) /\ ~Recorded(e)
    /\ t \in QueueTypes /\ free = queue[s].freeSignals /\ free # <<>>
    /\ g \in Signals /\ g = <<s, Head(free)>> /\ cmd \in ReleasesOf(g)
    /\ Follows(queue[s], r, {cmd}) /\ r.freeSignals = Tail(free)
    /\ r.backlog = queue[s].backlog
    /\ \A u \in QueueTypes : u # t => r.buf[u] = queue[s].buf[u]
    /\ queue' = [queue EXCEPT ![s] = r] /\ UNCHANGED <<gpuVars, state, cpu, issued>>
    /\ \A f \in Events : f # e => events'[f] = events[f] /\ mark'[f] = mark[f]
    /\ events'[e].stream = s /\ EventSignal(e)' = g /\ LaneOf(e)' = t
    /\ NULL \in {events'[e].computeSignal, events'[e].dmaSignal}
    /\ mark'[e] = [after |-> Len(issued[s]), nth |-> records + 1]
    /\ records' = records + 1

LEMMA FreshRecordKeepsEvents ==
    ASSUME Grounds, EventInv, NEW e \in Events, NEW s \in Streams,
           NEW t, NEW free, NEW g, NEW cmd, NEW r, FirstRecord(e, s, t, free, g, cmd, r)
    PROVE  EventInv'
<1> USE DEF FirstRecord
<1>1. /\ QueueInv /\ EventsApart /\ Once
      /\ UNCHANGED <<fifo, running, done, value, stamp, clock>>
      /\ \A x : Cursor(x) = 1 /\ Cursor(x)' = 1
      /\ cpu'.at = "idle"
  BY DEF Grounds, StreamInv, TimelineInv, gpuVars, Cursor, Ready, Idle
<1>2. PICK q : q = queue[s]
  OBVIOUS
<1>3. \A x \in Streams : queue'[x] = IF x = s THEN r ELSE queue[x]
  BY <1>1 DEF QueueInv, TypeOK, HostTypeOK
<1>4. PICK N : N = {cmd}
  OBVIOUS
<1>5. Undisturbed(s, N, {})
  BY <1>1, <1>4, CalledUndisturbed
<1>6. /\ \A u \in QueueTypes : \A X : X \cap N = {} /\ Absent(u, X) => Absent(u, X)'
      /\ \A v \in Streams : \A X, Y : Y \cap N = {} /\ (X \cap N = {} \/ v = s) /\ Sorted(v, X, Y)
            => Sorted(v, X, Y)'
  BY <1>5, Zenon DEF Undisturbed
<1>7. PICK free2 : free2 = queue[s].freeSignals
  OBVIOUS
<1>8. /\ free \in Seq(0..(PoolSize - 1))
      /\ Head(free) = free[1] /\ 1 \in DOMAIN free
      /\ \A i \in DOMAIN Tail(free) : i + 1 \in DOMAIN free /\ Tail(free)[i] = free[i + 1] /\ i + 1 # 1
  <2>1. queue[s] \in NvCommandQueue
    BY <1>1 DEF QueueInv, TypeOK, HostTypeOK
  <2>2. PICK S : S = 0..(PoolSize - 1)
    OBVIOUS
  <2>3. free \in Seq(S)
    BY <2>1, <2>2 DEF NvCommandQueue
  <2>4. /\ Head(free) = free[1] /\ 1 \in DOMAIN free
        /\ \A i \in DOMAIN Tail(free) : i + 1 \in DOMAIN free /\ Tail(free)[i] = free[i + 1] /\ i + 1 # 1
    BY <2>3
  <2> QED
    BY <2>2, <2>3, <2>4
<1>9. Fresh(g)
  <2>1. \A i \in DOMAIN free : Fresh(<<s, free[i]>>)
    BY DEF EventInv, FreshSignals
  <2>2. g = <<s, free[1]>>
    BY <1>8
  <2> QED
    BY <1>8, <2>1, <2>2
<1>10. value[g] = 0 /\ \A u \in QueueTypes : Absent(u, ReleasesOf(g))
  BY <1>9 DEF Fresh
<1>11. \A f \in Events : Recorded(f) => EventSignal(f) # g
  BY <1>9 DEF Fresh
<1>12. /\ \A h : h # g => ReleasesOf(h) \cap N = {}
       /\ \A v, n : WorkUpto(v, n) \cap N = {}
  BY <1>4, WorkApart, Zenon
<1>13. /\ \A f \in Events : f # e =>
             /\ Recorded(f)' = Recorded(f) /\ LaneOf(f)' = LaneOf(f)
             /\ EventSignal(f)' = EventSignal(f) /\ Noted(f)' = Noted(f)
       /\ Recorded(e)' /\ Noted(e)' = ReleasesOf(g)
  <2>1. records \in Nat
    BY <1>1 DEF QueueInv, TypeOK, HostTypeOK
  <2> QED
    BY <2>1 DEF Recorded, LaneOf, EventSignal, Noted, ReleasesOf
<1>14. \A f \in Events : Recorded(f) =>
          /\ f # e /\ Noted(f) \cap N = {} /\ events[f].stream \in Streams
          /\ mark[f].nth <= records /\ mark[f].nth \in Nat /\ records \in Nat
  BY <1>1, <1>11, <1>12 DEF Noted, EventInv, EventsMarked, Marked, QueueInv, TypeOK, HostTypeOK
<1>15. FreshSignals'
  <2>1. ASSUME NEW h, h # g, Fresh(h) PROVE Fresh(h)'
    <3>1. ReleasesOf(h) \cap N = {}
      BY <1>12, <2>1
    <3>2. \A u \in QueueTypes : Absent(u, ReleasesOf(h))'
      BY <1>6, <2>1, <3>1 DEF Fresh
    <3>3. \A f \in Events : Recorded(f)' => EventSignal(f)' # h
      BY <1>13, <2>1 DEF Fresh
    <3> QED
      BY <1>1, <2>1, <3>2, <3>3 DEF Fresh
  <2>2. ASSUME NEW x \in Streams, NEW old, old = queue[x].freeSignals,
               NEW new, new = queue'[x].freeSignals
        PROVE  /\ \A i \in DOMAIN new : Fresh(<<x, new[i]>>)'
               /\ \A i, j \in DOMAIN new : new[i] = new[j] => i = j
    <3>1. /\ \A i \in DOMAIN old : Fresh(<<x, old[i]>>)
          /\ \A i, j \in DOMAIN old : old[i] = old[j] => i = j
      BY <2>2 DEF EventInv, FreshSignals
    <3>2. CASE x # s
      <4>1. new = old /\ \A i \in DOMAIN old : <<x, old[i]>> # g
        BY <1>3, <2>2, <3>2
      <4>2. ASSUME NEW i \in DOMAIN new PROVE Fresh(<<x, new[i]>>)'
        <5>1. PICK h : h = <<x, new[i]>>
          OBVIOUS
        <5>2. Fresh(h)'
          BY <2>1, <3>1, <4>1, <5>1
        <5> QED
          BY <5>1, <5>2
      <4> QED
        BY <3>1, <4>1, <4>2
    <3>3. CASE x = s
      <4>1. new = Tail(free) /\ old = free
        BY <1>3, <2>2, <3>3
      <4>2. \A i \in DOMAIN new : i + 1 \in DOMAIN old /\ new[i] = old[i + 1] /\ i + 1 # 1
        BY <1>8, <4>1
      <4>3. ASSUME NEW i \in DOMAIN new PROVE Fresh(<<x, new[i]>>)'
        <5>1. PICK h : h = <<x, new[i]>>
          OBVIOUS
        <5>2. new[i] # Head(free)
          BY <1>8, <3>1, <4>1, <4>2
        <5>3. h # g /\ Fresh(h)
          BY <3>1, <3>3, <4>2, <5>1, <5>2
        <5>4. Fresh(h)'
          BY <2>1, <5>3
        <5> QED
          BY <5>1, <5>4
      <4>4. ASSUME NEW i \in DOMAIN new, NEW j \in DOMAIN new, new[i] = new[j] PROVE i = j
        <5>1. i \in Int /\ j \in Int
          BY <1>8, <4>1
        <5>2. i + 1 = j + 1
          BY <3>1, <4>2, <4>4
        <5> QED
          BY <5>1, <5>2
      <4> QED
        BY <4>3, <4>4
    <3> QED
      BY <3>2, <3>3
  <2> QED
    BY <2>2, Zenon DEF FreshSignals
<1>16. EventsMarked'
  <2> SUFFICES ASSUME NEW f \in Events
               PROVE  (/\ ~Recorded(f) => events[f].computeSignal = NULL /\ events[f].dmaSignal = NULL
                       /\ Recorded(f) => Marked(f, events[f].stream, EventSignal(f)))'
    BY DEF EventsMarked
  <2>1. \A x \in Streams : InUse(x)' = InUse(x)
    BY DEF InUse
  <2>2. CASE f = e
    <3>1. Marked(e, s, g)'
      <4>1. InUse(s)' /\ Len(issued[s]) \in Nat /\ records + 1 \in Nat
        BY <1>1, <2>1 DEF InUse, Ready, QueueInv, TypeOK, HostTypeOK
      <4>2. \A d \in Events : Recorded(d)' /\ EventSignal(d)' = g => d = e
        BY <1>11, <1>13
      <4>3. mark'[e].after <= Len(issued'[s]) /\ mark'[e].nth <= records'
        BY <4>1
      <4> QED
        BY <4>1, <4>2, <4>3 DEF Marked
    <3>2. Recorded(f)' /\ events'[f].stream = s /\ EventSignal(f)' = g
      BY <1>13, <2>2
    <3> QED
      BY <2>2, <3>1, <3>2 DEF Marked
  <2>3. CASE f # e /\ ~Recorded(f)
    BY <1>13, <2>3 DEF EventInv, EventsMarked
  <2>4. CASE f # e /\ Recorded(f)
    <3>1. PICK v, h : v = events[f].stream /\ h = EventSignal(f)
      OBVIOUS
    <3>2. Marked(f, v, h) /\ h # g
      BY <1>11, <2>4, <3>1 DEF EventInv, EventsMarked
    <3>3. \A d \in Events : Recorded(d)' /\ EventSignal(d)' = h => d = f
      BY <1>13, <3>2 DEF Marked
    <3>4. mark[f].nth <= records + 1
      BY <1>14, <2>4
    <3>5. Marked(f, v, h)'
      BY <2>1, <2>4, <3>2, <3>3, <3>4 DEF Marked
    <3>6. events'[f].stream = v /\ EventSignal(f)' = h /\ Recorded(f)'
      BY <1>13, <2>4, <3>1
    <3> QED
      BY <3>5, <3>6 DEF Marked
  <2> QED
    BY <2>2, <2>3, <2>4
<1>17. \A u \in QueueTypes : u # t => Absent(u, ReleasesOf(g))'
  <2> SUFFICES ASSUME NEW u \in QueueTypes, u # t, NEW X, X = ReleasesOf(g), Absent(u, X)
               PROVE  Absent(u, X)'
    BY <1>10
  <2>1. LaneHas(r, 1, u, X) => LaneHas(q, 1, u, X)
    BY <1>2 DEF LaneHas
  <2>2. \A x \in Streams : LaneHas(queue'[x], 1, u, X) => LaneHas(queue[x], 1, u, X)
    BY <1>2, <1>3, <2>1
  <2> QED
    BY <1>1, <2>2 DEF Absent
<1>18. LanesKept'
  <2> SUFFICES ASSUME NEW f \in Events, Recorded(f)', NEW l, l = LaneOf(f)', NEW X, X = Noted(f)'
               PROVE  Absent(Other(l), X)'
    BY DEF LanesKept
  <2>1. l \in QueueTypes /\ Other(l) \in QueueTypes /\ Other(l) # l
    BY OtherType DEF LaneOf, QueueTypes, Other
  <2>2. CASE f = e
    BY <1>13, <1>17, <2>1, <2>2
  <2>3. CASE f # e
    BY <1>6, <1>13, <1>14, <2>1, <2>3 DEF EventInv, LanesKept
  <2> QED
    BY <2>2, <2>3
<1>19. WorkBefore'
  <2> SUFFICES ASSUME NEW f \in Events, Recorded(f)',
                      NEW v, v = events'[f].stream, NEW X, X = Noted(f)',
                      NEW Y, Y = WorkUpto(v, mark'[f].after)
               PROVE  Sorted(v, X, Y)'
    BY DEF WorkBefore, WorkUpto
  <2>1. CASE f = e
    <3>1. \A x \in Streams \ {s} : \A u \in QueueTypes : ~LaneHas(queue[x], Cursor(x), u, Y)
      BY <1>1, <2>1, WorkAtHome
    <3>2. Sorted(s, X, Y)
      BY <1>1, <1>10, <1>13, <2>1, <3>1, AbsentSorted
    <3> QED
      BY <1>6, <1>12, <2>1, <3>2
  <2>2. CASE f # e
    <3>1. Sorted(v, X, Y) /\ v \in Streams /\ X \cap N = {} /\ Y \cap N = {}
      BY <1>12, <1>13, <1>14, <2>2 DEF EventInv, WorkBefore
    <3> QED
      BY <1>6, <3>1
  <2> QED
    BY <2>1, <2>2
<1>20. NoneAcross'
  <2>1. \A u : Underway(u)' = Underway(u)
    BY <1>1 DEF Underway
  <2>2. ~Meets(fifo[t], ReleasesOf(g))
    BY <1>10 DEF Absent
  <2> SUFFICES ASSUME NEW f \in Events, Recorded(f)', NEW l, l = LaneOf(f)', Meets(fifo'[l], Noted(f)'),
                      NEW o \in Ops, o[1] = events'[f].stream, o[2] <= mark'[f].after
               PROVE  ~Has(fifo'[Other(l)], o) /\ o \notin Underway(Other(l))'
    BY DEF NoneAcross, Underway
  <2>3. f # e
    BY <1>1, <1>13, <2>2
  <2> QED
    BY <1>1, <1>13, <2>1, <2>3 DEF EventInv, NoneAcross
<1>21. PiecesMarked'
  <2> SUFFICES ASSUME NEW f \in Events, Recorded(f)',
                      NEW v, v = events'[f].stream, NEW X, X = Noted(f)'
               PROVE  Vouches(queue'[v], X, mark'[f].after)
    BY DEF PiecesMarked, Vouches
  <2>1. CASE f = e
    <3>1. \A j \in DOMAIN q.backlog : ~Meets(q.backlog[j].buf, X)
      <4>1. q \in NvCommandQueue
        BY <1>1, <1>2 DEF QueueInv, TypeOK, HostTypeOK
      <4>2. q.backlog \in Seq(Split)
        BY <4>1 DEF NvCommandQueue
      <4>3. \A j \in DOMAIN q.backlog : q.backlog[j].type \in QueueTypes /\ j \in 1..Len(q.backlog)
        <5>1. \A j \in DOMAIN q.backlog : q.backlog[j] \in Split /\ j \in 1..Len(q.backlog)
          BY <4>2
        <5> QED
          BY <5>1, SplitFields, Zenon
      <4>4. \A u \in QueueTypes : ~LaneHas(q, 1, u, X)
        BY <1>1, <1>2, <1>10, <1>13, <2>1 DEF Absent
      <4> QED
        BY <4>3, <4>4 DEF LaneHas
    <3> QED
      BY <1>2, <1>3, <2>1, <3>1 DEF Vouches
  <2>2. CASE f # e
    <3>1. Vouches(queue[v], X, mark[f].after) /\ v \in Streams
      BY <1>13, <1>14, <2>2 DEF EventInv, PiecesMarked
    <3>2. queue'[v].backlog = queue[v].backlog /\ mark'[f] = mark[f]
      BY <1>3, <2>2, <3>1
    <3> QED
      BY <3>1, <3>2 DEF Vouches
  <2> QED
    BY <2>1, <2>2
<1>22. HitSound'
  <2> SUFFICES ASSUME NEW f \in Events, Recorded(f)', value'[EventSignal(f)'] # 0,
                      NEW o \in Ops, o[1] = events'[f].stream, o[2] <= mark'[f].after
               PROVE  o \in done'
    BY DEF HitSound
  <2>1. f # e
    BY <1>1, <1>10
  <2> QED
    BY <1>1, <1>13, <2>1 DEF EventInv, HitSound
<1>23. ASSUME NEW d \in Events, NEW f \in Events, Before(d, f)'
       PROVE  /\ d # e /\ Recorded(d)
              /\ f # e => Before(d, f)
              /\ events[d].stream = events'[f].stream
  <2>1. Recorded(d)' /\ Recorded(f)' /\ mark'[d].nth < mark'[f].nth
    BY <1>23 DEF Before, RecordedBefore
  <2>2. d # e
    <3> SUFFICES ASSUME d = e PROVE FALSE
      OBVIOUS
    <3>1. f # e => Recorded(f)
      BY <1>13, <2>1
    <3>2. records \in Nat
      BY <1>1 DEF QueueInv, TypeOK, HostTypeOK
    <3> QED
      BY <1>14, <2>1, <3>1, <3>2
  <2>3. f # e => Before(d, f)
    BY <1>13, <1>23, <2>2 DEF Before, RecordedBefore
  <2> QED
    BY <1>13, <1>23, <2>1, <2>2, <2>3 DEF Before, RecordedBefore
<1>24. EventsBefore'
  <2> SUFFICES ASSUME NEW d \in Events, NEW f \in Events, Before(d, f)',
                      NEW v, v = events'[f].stream, NEW X, X = Noted(f)', NEW Y, Y = Noted(d)'
               PROVE  Sorted(v, X, Y)'
    BY DEF EventsBefore
  <2>1. d # e /\ Recorded(d) /\ Y = Noted(d) /\ v = events[d].stream /\ v \in Streams
        /\ Y \cap N = {}
    BY <1>13, <1>14, <1>23
  <2>2. CASE f = e
    <3>1. PICK W : W = WorkUpto(v, mark[d].after)
      OBVIOUS
    <3>2. Sorted(v, Y, W)
      BY <2>1, <3>1 DEF EventInv, WorkBefore
    <3>3. \A x \in Streams \ {v} : \A u \in QueueTypes : ~LaneHas(queue[x], Cursor(x), u, Y)
      BY <3>2 DEF Sorted
    <3>4. Sorted(v, X, Y)
      BY <1>1, <1>10, <1>13, <2>1, <2>2, <3>3, AbsentSorted
    <3> QED
      BY <1>6, <2>1, <2>2, <3>4
  <2>3. CASE f # e
    <3>1. Before(d, f) /\ X = Noted(f) /\ v = events[f].stream /\ X \cap N = {}
      BY <1>13, <1>14, <1>23, <2>3 DEF Before
    <3>2. Sorted(v, X, Y)
      BY <2>1, <3>1 DEF EventInv, EventsBefore
    <3> QED
      BY <1>6, <2>1, <3>1, <3>2
  <2> QED
    BY <2>2, <2>3
<1>25. Stamped'
  <2>1. \A h \in Signals : stamp'[h] <= clock'
    BY <1>1 DEF EventInv, Stamped
  <2> SUFFICES ASSUME NEW d \in Events, NEW f \in Events, Before(d, f)', value'[EventSignal(f)'] # 0,
                      NEW Y, Y = Noted(d)'
               PROVE  /\ \A u \in QueueTypes : Absent(u, Y)'
                      /\ value'[EventSignal(d)'] # 0
                            => stamp'[EventSignal(d)'] <= stamp'[EventSignal(f)']
    BY <2>1 DEF Stamped
  <2>2. f # e
    BY <1>1, <1>10
  <2>3. /\ d # e /\ Before(d, f) /\ Recorded(d) /\ Y = Noted(d) /\ Y \cap N = {}
        /\ EventSignal(d)' = EventSignal(d) /\ EventSignal(f)' = EventSignal(f)
    BY <1>13, <1>14, <1>23, <2>2
  <2>4. /\ \A u \in QueueTypes : Absent(u, Y)
        /\ value[EventSignal(d)] # 0 => stamp[EventSignal(d)] <= stamp[EventSignal(f)]
    BY <1>1, <2>3 DEF EventInv, Stamped
  <2> QED
    BY <1>1, <1>6, <2>3, <2>4
<1>26. Awaiting'
  BY <1>1 DEF Awaiting
<1> QED
  BY <1>15, <1>16, <1>18, <1>19, <1>20, <1>21, <1>22, <1>24, <1>25, <1>26 DEF EventInv

\* The event is recorded for the first time, and given a signal of the pool.
LEMMA RecordEventKeepsEvents ==
    ASSUME EventRules, Grounds, EventInv, NEW e \in Events, NEW s \in Streams,
           RecordEvent(e, s)
    PROVE  EventInv'
<1>1. /\ QueueInv /\ EventsApart /\ HostTypeOK /\ Ready(s)
      /\ UNCHANGED <<gpuVars, state, cpu, issued>>
      /\ records' = records + 1 /\ records \in Nat
      /\ mark' = [mark EXCEPT ![e] = [after |-> Len(issued[s]), nth |-> records + 1]]
  BY DEF Grounds, StreamInv, TimelineInv, QueueInv, TypeOK, HostTypeOK, RecordEvent
<1>2. PICK q \in NvCommandQueue : q = queue[s]
  BY <1>1 DEF HostTypeOK
<1>3. PICK t \in QueueTypes : t = RecordType(queue[s])
  BY DEF RecordType, QueueTypes
<1>4. ~Recorded(e) /\ events[e].computeSignal = NULL /\ events[e].dmaSignal = NULL
  BY DEF EventRules, RecordEvent, MayRecord, Recorded, EventInv, EventsMarked
<1>5. PICK free, g, left : /\ free = queue[s].freeSignals /\ g = ObtainSignal(e, s).sig
                           /\ left = ObtainSignal(e, s).left
  OBVIOUS
<1>6. free # <<>> /\ g = <<s, Head(free)>> /\ left = Tail(free)
  <2>1. g # NULL
    BY <1>5 DEF RecordEvent
  <2> QED
    BY <1>4, <1>5, <2>1 DEF ObtainSignal
<1>7. g \in Signals /\ left \in Seq(0..(PoolSize - 1)) /\ g # NULL
  BY <1>1, <1>5, ObtainSignalTyped DEF RecordEvent
<1>8. PICK p : p = Retyped(q, left, t)
  OBVIOUS
<1>9. /\ p \in NvCommandQueue /\ p.buf = q.buf /\ p.backlog = q.backlog /\ p.freeSignals = left
  BY <1>3, <1>7, <1>8 DEF Retyped, NvCommandQueue
<1>10. PICK cmd : cmd = [kind |-> "release", sig |-> g, payload |-> 1]
  OBVIOUS
<1>11. cmd \in Command /\ cmd \in ReleasesOf(g)
  BY <1>7, <1>10, CommandTypes DEF ReleasesOf, Releases
<1>12. PICK r : r = Enqueue(p, cmd, t)
  OBVIOUS
<1>13. /\ r \in NvCommandQueue /\ r.backlog = p.backlog /\ r.freeSignals = p.freeSignals
       /\ \A u \in QueueTypes : u # t => r.buf[u] = p.buf[u]
  <2>1. r.freeSignals = p.freeSignals
    BY <1>9, <1>12 DEF Enqueue, NvCommandQueue
  <2> QED
    BY <1>9, <1>11, <1>12, <2>1, EnqueueFields
<1>14. PICK N : N = {cmd}
  OBVIOUS
<1>15. Follows(q, r, N)
  <2>1. Appends(q, p, N)
    BY <1>9, SameBuffersAppend
  <2>2. Appends(p, r, N)
    BY <1>9, <1>11, <1>12, <1>14, EnqueueAppends
  <2>3. Follows(q, q, N)
    BY SelfFollows
  <2>4. Follows(q, p, N)
    BY <2>1, <2>3, FollowsAppends
  <2> QED
    BY <2>2, <2>4, FollowsAppends
<1>16. queue' = [queue EXCEPT ![s] = r]
  BY <1>2, <1>3, <1>5, <1>8, <1>10, <1>12 DEF RecordEvent, Retyped, SignalNotify
<1>17. PICK new : new = IF t = "DMA" THEN [events[e] EXCEPT !.stream = s, !.dmaSignal = g]
                                     ELSE [events[e] EXCEPT !.stream = s, !.computeSignal = g]
  OBVIOUS
<1>18. \A f \in Events : events'[f] = IF f = e THEN new ELSE events[f]
  <2>1. events' = [events EXCEPT ![e] = new]
    BY <1>3, <1>5, <1>17 DEF RecordEvent
  <2> QED
    BY <1>1, <2>1 DEF HostTypeOK
<1>19. /\ new.stream = s
       /\ t = "DMA" => new.dmaSignal = g /\ new.computeSignal = NULL
       /\ t # "DMA" => new.dmaSignal = NULL /\ new.computeSignal = g
  BY <1>1, <1>4, <1>17 DEF HostTypeOK, LibreCUEvent
<1>20. /\ events'[e].stream = s /\ EventSignal(e)' = g /\ LaneOf(e)' = t
       /\ NULL \in {events'[e].computeSignal, events'[e].dmaSignal}
  BY <1>3, <1>7, <1>18, <1>19 DEF EventSignal, LaneOf, QueueTypes
<1>21. /\ \A f \in Events : f # e => events'[f] = events[f] /\ mark'[f] = mark[f]
       /\ mark'[e] = [after |-> Len(issued[s]), nth |-> records + 1]
  BY <1>1, <1>18 DEF HostTypeOK
<1>22. Follows(queue[s], r, {cmd})
  BY <1>2, <1>14, <1>15
<1>23. /\ r.freeSignals = Tail(free) /\ r.backlog = queue[s].backlog
       /\ \A u \in QueueTypes : u # t => r.buf[u] = queue[s].buf[u]
  BY <1>2, <1>6, <1>9, <1>13
<1> QED
  <2>1. FirstRecord(e, s, t, free, g, cmd, r)
    BY <1>1, <1>3, <1>4, <1>5, <1>6, <1>7, <1>11, <1>16, <1>20, <1>21, <1>22, <1>23
       DEF FirstRecord
  <2> QED
    BY <2>1, FreshRecordKeepsEvents

-----------------------------------------------------------------------------
(* An event that is forgotten.                                              *)

LEMMA ForgottenEvents ==
    ASSUME Grounds, EventInv, cpu.at = "idle",
           UNCHANGED <<gpuVars, state, queue, cpu, records, issued>>,
           \A f \in Events : \/ events'[f] = events[f] /\ mark'[f] = mark[f]
                             \/ /\ ~Recorded(f)'
                                /\ events'[f].computeSignal = NULL
                                /\ events'[f].dmaSignal = NULL
    PROVE  EventInv'
<1>1. /\ UNCHANGED <<fifo, running, done, value, stamp, clock, queue>>
      /\ \A x : Cursor(x)' = Cursor(x)
      /\ \A t : Underway(t)' = Underway(t)
      /\ \A x : InUse(x)' = InUse(x)
  BY DEF gpuVars, Cursor, Underway, InUse
<1>2. \A f \in Events : Recorded(f)' =>
          /\ Recorded(f) /\ events'[f] = events[f] /\ mark'[f] = mark[f]
          /\ LaneOf(f)' = LaneOf(f) /\ EventSignal(f)' = EventSignal(f)
          /\ Noted(f)' = Noted(f)
  BY DEF Recorded, LaneOf, EventSignal, Noted
<1>3. \A f \in Events : ~Recorded(f)' =>
          events'[f].computeSignal = NULL /\ events'[f].dmaSignal = NULL
  BY DEF EventInv, EventsMarked, Recorded
<1>4. \A d, f \in Events : Before(d, f)' => Before(d, f)
  BY <1>2 DEF Before, RecordedBefore
<1>5. /\ \A t, X : Absent(t, X) => Absent(t, X)'
      /\ \A v, X, Y : Sorted(v, X, Y) => Sorted(v, X, Y)'
  BY <1>1 DEF Absent, Sorted
<1>6. FreshSignals'
  <2>1. ASSUME NEW h, Fresh(h) PROVE Fresh(h)'
    <3>1. \A t \in QueueTypes : Absent(t, ReleasesOf(h))'
      BY <1>5, <2>1 DEF Fresh
    <3>2. \A f \in Events : Recorded(f)' => EventSignal(f)' # h
      BY <1>2, <2>1 DEF Fresh
    <3> QED
      BY <1>1, <2>1, <3>1, <3>2 DEF Fresh
  <2>2. ASSUME NEW x \in Streams, NEW free, free = queue[x].freeSignals
        PROVE  /\ \A i \in DOMAIN free : Fresh(<<x, free[i]>>)'
               /\ \A i, j \in DOMAIN free : free[i] = free[j] => i = j
    <3>1. ASSUME NEW i \in DOMAIN free PROVE Fresh(<<x, free[i]>>)'
      <4>1. PICK h : h = <<x, free[i]>>
        OBVIOUS
      <4>2. Fresh(h)
        BY <2>2, <3>1, <4>1 DEF EventInv, FreshSignals
      <4>3. Fresh(h)'
        BY <2>1, <4>2
      <4> QED
        BY <4>1, <4>3
    <3> QED
      BY <2>2, <3>1 DEF EventInv, FreshSignals
  <2> QED
    BY <1>1, <2>2 DEF FreshSignals
<1>7. EventsMarked'
  <2> SUFFICES ASSUME NEW f \in Events, Recorded(f)', NEW v, v = events'[f].stream,
                      NEW h, h = EventSignal(f)'
               PROVE  Marked(f, v, h)'
    BY <1>3 DEF EventsMarked, Marked
  <2>1. Marked(f, v, h) /\ mark'[f] = mark[f] /\ events'[f] = events[f]
    BY <1>2 DEF EventInv, EventsMarked
  <2>2. \A d \in Events : Recorded(d)' /\ EventSignal(d)' = h => d = f
    BY <1>2, <2>1 DEF Marked
  <2> QED
    BY <1>1, <2>1, <2>2 DEF Marked
<1>8. LanesKept'
  <2> SUFFICES ASSUME NEW f \in Events, Recorded(f)', NEW l, l = LaneOf(f)', NEW X, X = Noted(f)'
               PROVE  Absent(Other(l), X)'
    BY DEF LanesKept
  <2>1. Absent(Other(l), X)
    BY <1>2 DEF EventInv, LanesKept
  <2> QED
    BY <1>5, <2>1
<1>9. WorkBefore'
  <2> SUFFICES ASSUME NEW f \in Events, Recorded(f)',
                      NEW v, v = events'[f].stream, NEW X, X = Noted(f)',
                      NEW Y, Y = WorkUpto(v, mark'[f].after)
               PROVE  Sorted(v, X, Y)'
    BY DEF WorkBefore, WorkUpto
  <2>1. Sorted(v, X, Y)
    BY <1>2 DEF EventInv, WorkBefore
  <2> QED
    BY <1>5, <2>1
<1>10. NoneAcross'
  BY <1>1, <1>2 DEF EventInv, NoneAcross
<1>11. PiecesMarked'
  BY <1>1, <1>2 DEF EventInv, PiecesMarked
<1>12. HitSound'
  BY <1>1, <1>2 DEF EventInv, HitSound
<1>13. EventsBefore'
  <2> SUFFICES ASSUME NEW d \in Events, NEW f \in Events, Before(d, f)',
                      NEW v, v = events'[f].stream, NEW X, X = Noted(f)', NEW Y, Y = Noted(d)'
               PROVE  Sorted(v, X, Y)'
    BY DEF EventsBefore
  <2>1. Before(d, f) /\ v = events[f].stream /\ X = Noted(f) /\ Y = Noted(d)
    BY <1>2, <1>4 DEF Before
  <2>2. Sorted(v, X, Y)
    BY <2>1 DEF EventInv, EventsBefore
  <2> QED
    BY <1>5, <2>2
<1>14. Stamped'
  <2>1. \A h \in Signals : stamp'[h] <= clock'
    BY <1>1 DEF EventInv, Stamped
  <2> SUFFICES ASSUME NEW d \in Events, NEW f \in Events, Before(d, f)', value'[EventSignal(f)'] # 0,
                      NEW Y, Y = Noted(d)'
               PROVE  /\ \A u \in QueueTypes : Absent(u, Y)'
                      /\ value'[EventSignal(d)'] # 0
                            => stamp'[EventSignal(d)'] <= stamp'[EventSignal(f)']
    BY <2>1 DEF Stamped
  <2>2. /\ Before(d, f) /\ Y = Noted(d)
        /\ EventSignal(d)' = EventSignal(d) /\ EventSignal(f)' = EventSignal(f)
    BY <1>2, <1>4 DEF Before
  <2>3. /\ \A u \in QueueTypes : Absent(u, Y)
        /\ value[EventSignal(d)] # 0 => stamp[EventSignal(d)] <= stamp[EventSignal(f)]
    BY <1>1, <2>2 DEF EventInv, Stamped
  <2> QED
    BY <1>1, <1>5, <2>2, <2>3
<1>15. Awaiting'
  BY DEF Awaiting
<1> QED
  BY <1>6, <1>7, <1>8, <1>9, <1>10, <1>11, <1>12, <1>13, <1>14, <1>15 DEF EventInv

LEMMA ForgettingKeepsEvents ==
    ASSUME EventRules, Grounds, EventInv, NEW e \in Events, NEW s,
           RecordEventFails(e, s) \/ EventDestroy(e)
    PROVE  EventInv'
<1>1. /\ HostTypeOK /\ cpu.at = "idle"
      /\ UNCHANGED <<gpuVars, state, queue, cpu, records, issued>>
  BY DEF Grounds, StreamInv, QueueInv, TypeOK, RecordEventFails, EventDestroy, Ready, Idle
<1>2. \A f \in Events : f # e => events'[f] = events[f] /\ mark'[f] = mark[f]
  BY <1>1 DEF HostTypeOK, RecordEventFails, EventDestroy
<1>3. ~Recorded(e)' /\ events'[e].computeSignal = NULL /\ events'[e].dmaSignal = NULL
  <2>1. CASE RecordEventFails(e, s)
    <3>1. mark' = mark /\ events' = [events EXCEPT ![e] = [events[e] EXCEPT !.stream = s]]
      BY <2>1 DEF RecordEventFails
    <3>2. events[e] \in LibreCUEvent /\ events'[e] = [events[e] EXCEPT !.stream = s]
      BY <1>1, <3>1 DEF HostTypeOK
    <3>3. /\ events'[e].computeSignal = events[e].computeSignal
          /\ events'[e].dmaSignal = events[e].dmaSignal
      BY <3>2 DEF LibreCUEvent
    <3>4. mark[e].nth = 0
      BY <2>1 DEF RecordEventFails, MayRecord, EventRules
    <3> QED
      BY <3>1, <3>3, <3>4 DEF Recorded, EventInv, EventsMarked
  <2>2. CASE EventDestroy(e)
    <3>1. events'[e] = NewEvent /\ mark'[e] = [after |-> 0, nth |-> 0]
      BY <1>1, <2>2 DEF EventDestroy, HostTypeOK
    <3> QED
      BY <3>1 DEF NewEvent, Recorded
  <2> QED
    BY <2>1, <2>2
<1> QED
  BY <1>1, <1>2, <1>3, ForgottenEvents

-----------------------------------------------------------------------------
(* What the events promise.                                                 *)

LEMMA EventInit == Init => EventInv
<1> SUFFICES ASSUME Init PROVE EventInv
  OBVIOUS
<1>1. /\ \A c \in QueueTypes : fifo[c] = <<>>
      /\ \A g \in Signals : value[g] = 0 /\ stamp[g] = 0
      /\ clock = 0 /\ cpu.at = "idle"
      /\ \A x : Cursor(x) = 1
  BY DEF Init, GpuInit, Idle, Cursor
<1>2. \A e \in Events : ~Recorded(e) /\ events[e].computeSignal = NULL /\ events[e].dmaSignal = NULL
  BY DEF Init, Recorded, NewEvent
<1>3. \A s \in Streams : /\ queue[s].backlog = <<>>
                         /\ \A t \in QueueTypes : queue[s].buf[t] = <<>>
                         /\ queue[s].freeSignals = [i \in 1..(PoolSize - 1) |-> i]
  BY NewQueueTakes DEF Init, NewQueue
<1>4. \A t \in QueueTypes : \A X : Absent(t, X)
  <2>1. \A X : ~Meets(<<>>, X)
    BY EmptyInOrder
  <2>2. \A s \in Streams : \A t \in QueueTypes : \A X : ~LaneHas(queue[s], 1, t, X)
    <3>1. 1..Len(<<>>) = {}
      OBVIOUS
    <3>2. \A s \in Streams : 1..Len(queue[s].backlog) = {}
      BY <1>3, <3>1, Zenon
    <3> QED
      BY <1>3, <2>1, <3>2 DEF LaneHas
  <2> QED
    BY <1>1, <2>1, <2>2 DEF Absent
<1>5. FreshSignals
  <2>1. \A s \in Streams, i \in 1..(PoolSize - 1) : <<s, i>> \in Signals
    BY StreamAssumption DEF Signals
  <2> QED
    BY <1>1, <1>2, <1>3, <1>4, <2>1 DEF FreshSignals, Fresh
<1>6. EventsMarked /\ LanesKept /\ WorkBefore /\ NoneAcross /\ PiecesMarked /\ HitSound
  BY <1>2 DEF EventsMarked, LanesKept, WorkBefore, NoneAcross, PiecesMarked, HitSound
<1>7. EventsBefore /\ Stamped /\ Awaiting
  BY <1>1, <1>2 DEF EventsBefore, Stamped, Awaiting, Before
<1> QED
  BY <1>5, <1>6, <1>7 DEF EventInv

LEMMA CallKeepsEvents ==
    ASSUME EventRules, Grounds, EventInv, NEW s \in Streams, Call(s)
    PROVE  EventInv'
<1>1. Orderly /\ TRUE \in BOOLEAN
  BY DEF EventRules
<1>2. CASE StreamCreate(s)
  BY <1>2, StreamCreateKeepsEvents
<1>3. CASE StreamCreateFails(s) \/ StreamDestroy(s) \/ Await(s)
  BY <1>3, HostStepsKeepEvents
<1>4. ASSUME NEW f \in Funcs, NEW async \in BOOLEAN,
             LaunchFailsLocalMem(s, f) \/ LaunchFailsLate(s, f, async)
      PROVE  EventInv'
  BY <1>4, LaunchFailsKeepsEvents
<1>5. ASSUME NEW f \in Funcs, NEW async \in BOOLEAN, LaunchFunction(s, f, async)
      PROVE  EventInv'
  BY <1>1, <1>5, LaunchKeepsEvents
<1>6. ASSUME NEW async \in BOOLEAN, GpuMemcpy(s, async) PROVE EventInv'
  BY <1>1, <1>6, GpuMemcpyKeepsEvents
<1>7. ASSUME NEW e \in Events, RecordEvent(e, s) PROVE EventInv'
  BY <1>7, RecordEventKeepsEvents
<1>8. ASSUME NEW e \in Events, RecordEventFails(e, s) PROVE EventInv'
  BY <1>8, ForgettingKeepsEvents
<1>9. CASE Commence(s)
  BY <1>9, CommenceKeepsEvents
<1>10. CASE CommenceBacklog(s)
  BY <1>10, CommenceBacklogKeepsEvents
<1>11. CASE CommenceFails(s)
  BY <1>1, <1>11 DEF CommenceFails, Orderly
<1> QED
  BY <1>1, <1>2, <1>3, <1>4, <1>5, <1>6, <1>7, <1>8, <1>9, <1>10, <1>11 DEF Call

LEMMA EventStep ==
    ASSUME EventRules, Grounds, EventInv, [Next]_vars
    PROVE  EventInv'
<1>1. CASE GpuStep
  BY <1>1, GpuStepKeepsEvents
<1>2. CASE InitDmaReturns \/ EventSynchronizeReturns \/ Exit \/ UNCHANGED vars
  BY <1>2, HostStepsKeepEvents DEF Exit
<1>3. CASE InitComputeReturns \/ SubmitEntry
  BY <1>3, InitComputeReturnsKeepsEvents, SubmitEntryKeepsEvents
<1>4. CASE NextEntry \/ CommenceReturns \/ AwaitReturns
  BY <1>4, NextEntryKeepsEvents, CommenceReturnsKeepsEvents, AwaitReturnsKeepsEvents
<1>5. CASE SubmitEntryFails
  BY <1>5 DEF SubmitEntryFails, EventRules, Orderly
<1>6. CASE \E s \in Streams : Call(s)
  BY <1>6, CallKeepsEvents
<1>7. ASSUME NEW e \in Events, EventSynchronize(e) PROVE EventInv'
  BY <1>7, HostStepsKeepEvents
<1>8. ASSUME NEW e \in Events, EventDestroy(e) PROVE EventInv'
  BY <1>8, ForgettingKeepsEvents
<1> QED
  BY <1>1, <1>2, <1>3, <1>4, <1>5, <1>6, <1>7, <1>8 DEF Next, Return

LEMMA EventInvariant ==
    EventRules => (Spec => [](Grounds /\ EventInv))
<1> SUFFICES ASSUME EventRules PROVE Spec => [](Grounds /\ EventInv)
  OBVIOUS
<1>1. Spec => [](StreamInv /\ Unborn /\ TimelineInv)
  BY TimelineInvariant DEF EventRules
<1>2. Spec => [](QueueInv /\ IssuedInv /\ EveryOpHeld)
  BY LostInvariant
<1>3. Init => StreamInv /\ Unborn /\ ArgsInv
  BY StreamInvInit, ArgsInit
<1>4. StreamInv /\ Unborn /\ ArgsInv /\ [Next]_vars => StreamInv' /\ Unborn' /\ ArgsInv'
  BY ArgsInvStep DEF EventRules
<1>5. StreamInv /\ Unborn /\ TimelineInv /\ ArgsInv /\ EveryOpHeld => Grounds
  BY DEF Grounds, ArgsInv
<1>6. Init => EventInv
  BY EventInit
<1>7. Grounds /\ EventInv /\ [Next]_vars => EventInv'
  BY EventStep
<1> QED
  BY <1>1, <1>2, <1>3, <1>4, <1>5, <1>6, <1>7, PTL DEF Spec

\* What precedes an event on its stream, as operations.
LEMMA PrecedingOps ==
    ASSUME Grounds, EventInv, NEW e \in Events, Recorded(e), NEW i \in 1..mark[e].after
    PROVE  /\ <<events[e].stream, i>> \in Ops
           /\ i <= mark[e].after
<1>1. PICK s, n, m : s = events[e].stream /\ n = mark[e].after /\ m = Len(issued[s])
  OBVIOUS
<1>2. s \in Streams /\ n <= m
  BY <1>1 DEF EventInv, EventsMarked, Marked
<1>3. n \in Nat /\ m \in Nat /\ m <= MaxOps /\ MaxOps \in Nat
  BY <1>1, <1>2, StreamAssumption DEF Grounds, StreamInv, IssuedInv, QueueInv, TypeOK, HostTypeOK
<1>4. i \in 1..MaxOps /\ i <= n
  BY <1>1, <1>2, <1>3
<1> QED
  BY <1>1, <1>2, <1>4 DEF Ops

LEMMA InvHitMeansReached ==
    ASSUME Grounds, EventInv
    PROVE  HitMeansReached
<1> SUFFICES ASSUME NEW e \in Events, Hit(e), NEW i \in 1..mark[e].after
             PROVE  <<events[e].stream, i>> \in done
  BY DEF HitMeansReached
<1>1. Recorded(e)
  BY DEF Hit, EventSignal, EventInv, EventsMarked
<1>2. PICK o : o = <<events[e].stream, i>>
  OBVIOUS
<1>3. o \in Ops /\ o[1] = events[e].stream /\ o[2] <= mark[e].after
  BY <1>1, <1>2, PrecedingOps
<1>4. value[EventSignal(e)] # 0
  BY DEF Hit
<1>5. o \in done
  BY <1>1, <1>3, <1>4 DEF EventInv, HitSound
<1> QED
  BY <1>2, <1>5

LEMMA InvSameModeElapsedTime ==
    ASSUME Grounds, EventInv
    PROVE  SameModeElapsedTime
<1> SUFFICES ASSUME NEW e \in Events, NEW f \in Events,
                    RecordedBefore(e, f), Hit(e), Hit(f),
                    (events[e].computeSignal = NULL) <=> (events[f].computeSignal = NULL)
             PROVE  stamp[EventSignal(e)] <= stamp[EventSignal(f)]
  BY DEF SameModeElapsedTime
<1>1. Recorded(e) /\ Recorded(f)
  BY DEF Hit, EventSignal, EventInv, EventsMarked
<1>2. Before(e, f)
  BY <1>1 DEF Before, LaneOf
<1> QED
  BY <1>2 DEF EventInv, Stamped, Hit

LEMMA StepEventSyncSound ==
    ASSUME Grounds, EventInv, [Next]_vars, cpu.at = "waitEvent", cpu' = Idle,
           NEW i \in 1..mark[cpu.event].after
    PROVE  <<events[cpu.event].stream, i>> \in done
<1>1. PICK e : e = cpu.event
  OBVIOUS
<1>2. e \in Events
  BY <1>1 DEF Grounds, StreamInv, QueueInv, TypeOK, HostTypeOK, CpuState, Idle
<1>3. Recorded(e)
  BY <1>1 DEF EventInv, Awaiting
<1>4. EventSynchronizeReturns
  <2>1. cpu # Idle /\ cpu' # cpu /\ cpu'.at = "idle"
    BY DEF Idle
  <2>2. ~\E s \in Streams : Call(s)
    <3>1. \A s \in Streams : ~Ready(s)
      BY <2>1 DEF Ready
    <3>2. \A s \in Streams : ~StreamCreate(s) /\ ~StreamCreateFails(s) /\ ~StreamDestroy(s)
      BY <2>1, <3>1 DEF StreamCreate, StreamCreateFails, StreamDestroy
    <3>3. \A s \in Streams : \A f \in Funcs :
              ~LaunchFailsLocalMem(s, f) /\ \A async \in BOOLEAN :
                  ~LaunchFunction(s, f, async) /\ ~LaunchFailsLate(s, f, async)
      BY <3>1 DEF LaunchFailsLocalMem, LaunchFunction, LaunchFailsLate, MayLaunch
    <3>4. \A s \in Streams :
              /\ \A async \in BOOLEAN : ~GpuMemcpy(s, async)
              /\ \A d \in Events : ~RecordEvent(d, s) /\ ~RecordEventFails(d, s)
      BY <3>1 DEF GpuMemcpy, RecordEvent, RecordEventFails
    <3>5. \A s \in Streams : ~Commence(s) /\ ~CommenceFails(s) /\ ~CommenceBacklog(s) /\ ~Await(s)
      BY <3>1 DEF Commence, CommenceFails, CommenceBacklog, Await
    <3> QED
      BY <3>2, <3>3, <3>4, <3>5 DEF Call
  <2>3. ~(InitComputeReturns \/ InitDmaReturns \/ SubmitEntry \/ NextEntry \/ CommenceReturns
          \/ AwaitReturns \/ SubmitEntryFails)
    BY DEF InitComputeReturns, InitDmaReturns, SubmitEntry, NextEntry, CommenceReturns,
           AwaitReturns, SubmitEntryFails, EntryReached
  <2>4. ~GpuStep /\ ~Exit /\ ~(UNCHANGED vars)
    BY <2>1 DEF GpuStep, hostVars, Exit, vars
  <2>5. \A d \in Events : ~EventSynchronize(d) /\ ~EventDestroy(d)
    BY <2>1 DEF EventSynchronize, EventDestroy
  <2> QED
    BY <2>2, <2>3, <2>4, <2>5 DEF Next, Return
<1>5. value[EventSignal(e)] # 0
  BY <1>1, <1>4 DEF EventSynchronizeReturns, EventReached
<1>6. PICK o : o = <<events[e].stream, i>>
  OBVIOUS
<1>7. o \in Ops /\ o[1] = events[e].stream /\ o[2] <= mark[e].after
  BY <1>1, <1>2, <1>3, <1>6, PrecedingOps
<1>8. o \in done
  BY <1>2, <1>3, <1>5, <1>7 DEF EventInv, HitSound
<1> QED
  BY <1>1, <1>6, <1>8

\* In an orderly program that records each event once, getEventTimestamp has an
\* answer for an event only when all that its stream was given before the record
\* is done (HitMeansReached; waitForEvent and getEventTimestamp,
\* cmdqueue.cpp:928-953).
THEOREM HitEventsAreReached == EventRules => (Spec => []HitMeansReached)
<1> SUFFICES ASSUME EventRules PROVE Spec => []HitMeansReached
  OBVIOUS
<1>1. Spec => [](Grounds /\ EventInv)
  BY EventInvariant
<1>2. Grounds /\ EventInv => HitMeansReached
  BY InvHitMeansReached
<1> QED
  BY <1>1, <1>2, PTL

\* In such a program libreCuEventElapsedTime is not negative for two events that
\* were recorded one after the other on one stream in the same queue mode
\* (SameModeElapsedTime; librecuda.cpp:1638-1649).
THEOREM ElapsedTimeIsForward == EventRules => (Spec => []SameModeElapsedTime)
<1> SUFFICES ASSUME EventRules PROVE Spec => []SameModeElapsedTime
  OBVIOUS
<1>1. Spec => [](Grounds /\ EventInv)
  BY EventInvariant
<1>2. Grounds /\ EventInv => SameModeElapsedTime
  BY InvSameModeElapsedTime
<1> QED
  BY <1>1, <1>2, PTL

\* In such a program libreCuEventSynchronize returns only when all that was
\* enqueued before the record of the event is done (EventSyncSound; waitForEvent,
\* cmdqueue.cpp:928-940).
THEOREM SynchronizeWaitsForAll == EventRules => (Spec => EventSyncSound)
<1> SUFFICES ASSUME EventRules PROVE Spec => EventSyncSound
  OBVIOUS
<1>1. Spec => [](Grounds /\ EventInv)
  BY EventInvariant
<1>2. Grounds /\ EventInv /\ [Next]_vars =>
         [cpu.at = "waitEvent" /\ cpu' = Idle =>
             \A i \in 1..mark[cpu.event].after :
                 <<events[cpu.event].stream, i>> \in done]_vars
  BY StepEventSyncSound
<1> QED
  BY <1>1, <1>2, PTL DEF Spec, EventSyncSound
-----------------------------------------------------------------------------
(* Local memory.  With one stream, and no allocation or submission that     *)
(* fails, the compute channel configures the regions in the order of the    *)
(* calls: what it runs, has been handed and will be handed finds the region *)
(* that was the last one when it was enqueued.                              *)

\* The regions r[k - 1], r[k], ... lead from a to b along seq, from place k on,
\* each step <<element, region before, region after>> being one of S.
Walk(seq, k, a, b, S) ==
    \E r \in [0..Len(seq) -> Nat] :
        /\ r[k - 1] = a
        /\ r[Len(seq)] = b
        /\ \A i \in k..Len(seq) : <<seq[i], r[i - 1], r[i]>> \in S

\* A kernel that needs local memory finds enough of it in region n of size z[n].
Enough(cmd, n, z) ==
    cmd.kind = "launch" /\ cmd.need > 0 =>
        n \in DOMAIN z /\ cmd.need <= cmd.slm /\ cmd.slm <= z[n]

\* What a command makes of the region that is configured.
CommandSteps(z) ==
    {x \in Command \X Nat \X Nat :
        /\ Enough(x[1], x[2], z)
        /\ x[3] = IF x[1].kind = "localMem" THEN x[1].region ELSE x[2]}

\* What a piece of the backlog makes of it.
PieceSteps(z) ==
    {x \in Split \X Nat \X Nat :
        IF x[1].type = "COMPUTE" THEN Walk(x[1].buf, 1, x[2], x[3], CommandSteps(z))
                                 ELSE x[3] = x[2]}

\* What is left of q's backlog from the k-th piece on, and its buffer, lead the
\* region configured from a to b.
Leads(q, k, a, b, z) ==
    \E m \in Nat : /\ Walk(q.backlog, k, a, m, PieceSteps(z))
                   /\ Walk(q.buf["COMPUTE"], 1, m, b, CommandSteps(z))

LastSize(z) == IF z = <<>> THEN 0 ELSE z[Len(z)]

\* What is yet to come in the channel and in the queue leads to the last region.
RegionsInOrder ==
    \E m \in Nat :
        /\ Walk(fifo["COMPUTE"], 1, localMem, m, CommandSteps(slm.size))
        /\ \A s \in Streams : Leads(queue[s], Cursor(s), m, Len(slm.size), slm.size)

KernelsServed ==
    \A task \in running["COMPUTE"] :
        task.cmd.kind = "launch" /\ Enough(task.cmd, task.region, slm.size)

\* No function that holds a region needs more than the last one has, and none is
\* freed.
RegionsKept(m) ==
    /\ \A f \in Funcs : m.va[f] # 0 => LocalMemReq[f] <= LastSize(m.size)
    /\ m.freed = {}

\* The queue grants as much as the last region has.  Before there is a stream there
\* is no region, nor a call on a stream.
SizesKnown ==
    /\ \A s \in Streams :
          /\ queue[s].currentSlmPerThread = LastSize(slm.size)
          /\ state[s] = "none" => /\ slm.size = <<>> /\ queue[s].backlog = <<>>
                                  /\ queue[s].buf["COMPUTE"] = <<>>
                                  /\ cpu.at \in {"idle", "waitEvent"}
    /\ RegionsKept(slm)

LocalMemInv == RegionsInOrder /\ KernelsServed /\ SizesKnown

-----------------------------------------------------------------------------
(* Walks.                                                                   *)

LEMMA WalkFromStart ==
    ASSUME NEW seq, NEW a, NEW b, NEW S, Walk(seq, 1, a, b, S)
    PROVE  \E r \in [0..Len(seq) -> Nat] :
               /\ r[0] = a
               /\ r[Len(seq)] = b
               /\ \A i \in 1..Len(seq) : <<seq[i], r[i - 1], r[i]>> \in S
<1>1. 1 - 1 = 0
  OBVIOUS
<1> QED
  BY <1>1, Zenon DEF Walk

LEMMA EmptyWalk ==
    ASSUME NEW a \in Nat, NEW b, NEW S
    PROVE  Walk(<<>>, 1, a, b, S) <=> a = b
<1>1. Len(<<>>) = 0 /\ \A i : i \notin 1..0
  OBVIOUS
<1>2. ASSUME Walk(<<>>, 1, a, b, S) PROVE a = b
  BY <1>1, <1>2 DEF Walk
<1>3. ASSUME a = b PROVE Walk(<<>>, 1, a, b, S)
  <2> DEFINE r == [i \in 0..0 |-> a]
  <2>1. r \in [0..0 -> Nat] /\ r[0] = a
    OBVIOUS
  <2> HIDE DEF r
  <2> QED
    BY <1>1, <1>3, <2>1 DEF Walk
<1> QED
  BY <1>2, <1>3

\* From past the end there is nowhere to go.
LEMMA WalkPastEnd ==
    ASSUME NEW seq, Len(seq) \in Nat, NEW a, NEW b, NEW S, Walk(seq, Len(seq) + 1, a, b, S)
    PROVE  a = b
BY DEF Walk

LEMMA WalkEnds ==
    ASSUME NEW seq, Len(seq) \in Nat, NEW k \in 1..(Len(seq) + 1), NEW a, NEW b, NEW S,
           Walk(seq, k, a, b, S)
    PROVE  a \in Nat /\ b \in Nat
BY DEF Walk

LEMMA WiderWalk ==
    ASSUME NEW seq, NEW k, NEW a, NEW b, NEW S, NEW W, S \subseteq W, Walk(seq, k, a, b, S)
    PROVE  Walk(seq, k, a, b, W)
BY Zenon DEF Walk

LEMMA AppendedWalk ==
    ASSUME NEW T, NEW seq \in Seq(T), NEW x \in T, NEW k \in 1..(Len(seq) + 1),
           NEW a, NEW b, NEW c \in Nat, NEW S,
           Walk(seq, k, a, b, S), <<x, b, c>> \in S
    PROVE  Walk(Append(seq, x), k, a, c, S)
<1> DEFINE n == Len(seq)
           long == Append(seq, x)
<1>1. n \in Nat /\ Len(long) = n + 1 /\ long[n + 1] = x /\ \A i \in 1..n : long[i] = seq[i]
  OBVIOUS
<1> HIDE DEF n, long
<1>2. PICK r \in [0..n -> Nat] :
          r[k - 1] = a /\ r[n] = b /\ \A i \in k..n : <<seq[i], r[i - 1], r[i]>> \in S
  BY DEF Walk, n
<1> DEFINE w == [i \in 0..(n + 1) |-> IF i = n + 1 THEN c ELSE r[i]]
<1>3. k \in 1..(n + 1)
  BY DEF n
<1>4. w \in [0..(n + 1) -> Nat] /\ w[n + 1] = c /\ \A i \in 0..n : w[i] = r[i]
  BY <1>1
<1> HIDE DEF w
<1>5. w[k - 1] = a
  BY <1>1, <1>2, <1>3, <1>4
<1>6. ASSUME NEW i \in k..(n + 1) PROVE <<long[i], w[i - 1], w[i]>> \in S
  <2>1. CASE i = n + 1
    <3>1. w[i - 1] = b
      <4>1. n \in 0..n /\ (n + 1) - 1 = n
        BY <1>1
      <4> QED
        BY <1>2, <1>4, <2>1, <4>1
    <3>2. w[i] = c /\ long[i] = x
      BY <1>1, <1>4, <2>1
    <3> QED
      BY <3>1, <3>2
  <2>2. CASE i # n + 1
    <3>1. i \in k..n /\ i \in 1..n /\ i \in 0..n /\ i - 1 \in 0..n
      BY <1>1, <1>3, <2>2
    <3> QED
      BY <1>1, <1>2, <1>4, <3>1
  <2> QED
    BY <2>1, <2>2
<1>7. Walk(long, k, a, c, S)
  BY <1>1, <1>4, <1>5, <1>6 DEF Walk
<1> QED
  BY <1>7 DEF long

\* The first step of a walk, and the rest of it.
LEMMA FirstStep ==
    ASSUME NEW seq, Len(seq) \in Nat, NEW k \in 1..Len(seq), NEW a, NEW b, NEW S,
           Walk(seq, k, a, b, S)
    PROVE  \E n \in Nat : <<seq[k], a, n>> \in S /\ Walk(seq, k + 1, n, b, S)
<1>1. PICK r \in [0..Len(seq) -> Nat] :
          /\ r[k - 1] = a /\ r[Len(seq)] = b
          /\ \A i \in k..Len(seq) : <<seq[i], r[i - 1], r[i]>> \in S
  BY DEF Walk
<1>2. k \in k..Len(seq) /\ k \in 0..Len(seq) /\ (k + 1) - 1 = k
      /\ \A i \in (k + 1)..Len(seq) : i \in k..Len(seq)
  OBVIOUS
<1>3. Walk(seq, k + 1, r[k], b, S)
  BY <1>1, <1>2 DEF Walk
<1> QED
  BY <1>1, <1>2, <1>3

LEMMA TailWalk ==
    ASSUME NEW T, NEW seq \in Seq(T), seq # <<>>, NEW a, NEW b, NEW S, Walk(seq, 1, a, b, S)
    PROVE  \E n \in Nat : <<Head(seq), a, n>> \in S /\ Walk(Tail(seq), 1, n, b, S)
<1> DEFINE l == Len(seq)
           rest == Tail(seq)
<1>1. /\ l \in Nat \ {0} /\ Head(seq) = seq[1]
      /\ Len(rest) = l - 1 /\ \A i \in 1..(l - 1) : rest[i] = seq[i + 1]
  OBVIOUS
<1>2. PICK r \in [0..l -> Nat] :
          r[0] = a /\ r[l] = b /\ \A i \in 1..l : <<seq[i], r[i - 1], r[i]>> \in S
  BY WalkFromStart
<1> HIDE DEF l, rest
<1> DEFINE w == [i \in 0..(l - 1) |-> r[i + 1]]
<1>3. w \in [0..(l - 1) -> Nat] /\ \A i \in 0..(l - 1) : w[i] = r[i + 1]
  BY <1>1
<1> HIDE DEF w
<1>4. w[1 - 1] = r[1] /\ w[l - 1] = b
  BY <1>1, <1>2, <1>3
<1>5. ASSUME NEW i \in 1..(l - 1) PROVE <<rest[i], w[i - 1], w[i]>> \in S
  <2>1. i + 1 \in 1..l /\ (i + 1) - 1 = i /\ i \in 0..(l - 1) /\ i - 1 \in 0..(l - 1)
        /\ (i - 1) + 1 = i
    BY <1>1
  <2> QED
    BY <1>1, <1>2, <1>3, <2>1, ZenonT(30)
<1>6. Walk(rest, 1, r[1], b, S)
  BY <1>1, <1>3, <1>4, <1>5 DEF Walk
<1>7. <<seq[1], a, r[1]>> \in S /\ r[1] \in Nat
  <2>1. 1 \in 1..l /\ 1 \in 0..l /\ 1 - 1 = 0
    BY <1>1
  <2> QED
    BY <1>2, <2>1
<1> QED
  BY <1>1, <1>6, <1>7 DEF rest

LEMMA JoinedWalk ==
    ASSUME NEW p \in Seq(Command), NEW q \in Seq(Command), NEW a, NEW b, NEW c, NEW S,
           Walk(p, 1, a, b, S), Walk(q, 1, b, c, S)
    PROVE  Walk(p \o q, 1, a, c, S)
<1> DEFINE m == Len(p)
           n == Len(q)
           both == p \o q
<1>1. /\ m \in Nat /\ n \in Nat /\ Len(both) = m + n
      /\ \A i \in 1..m : both[i] = p[i]
      /\ \A i \in 1..n : both[m + i] = q[i]
  BY Joined
<1>2. PICK u \in [0..m -> Nat] :
          u[0] = a /\ u[m] = b /\ \A i \in 1..m : <<p[i], u[i - 1], u[i]>> \in S
  BY WalkFromStart
<1>3. PICK v \in [0..n -> Nat] :
          v[0] = b /\ v[n] = c /\ \A i \in 1..n : <<q[i], v[i - 1], v[i]>> \in S
  BY WalkFromStart
<1> HIDE DEF m, n, both
<1> DEFINE w == [i \in 0..(m + n) |-> IF i <= m THEN u[i] ELSE v[i - m]]
<1>4. w \in [0..(m + n) -> Nat]
  <2>1. \A i \in 0..(m + n) : i <= m => u[i] \in Nat
    BY <1>1
  <2>2. \A i \in 0..(m + n) : ~(i <= m) => i - m \in 0..n
    BY <1>1
  <2> QED
    BY <2>1, <2>2
<1>5. \A i \in 0..m : w[i] = u[i]
  BY <1>1
<1>6. \A i \in 0..n : w[m + i] = v[i]
  <2> SUFFICES ASSUME NEW i \in 0..n PROVE w[m + i] = v[i]
    OBVIOUS
  <2>1. m + i \in 0..(m + n) /\ (m + i) - m = i /\ (m + i <= m => i = 0)
    BY <1>1
  <2>2. CASE i = 0
    BY <1>1, <1>2, <1>3, <1>5, <2>2
  <2>3. CASE i # 0
    BY <2>1, <2>3
  <2> QED
    BY <2>2, <2>3
<1> HIDE DEF w
<1>7. w[1 - 1] = a /\ w[m + n] = c
  BY <1>1, <1>2, <1>3, <1>5, <1>6
<1>8. ASSUME NEW i \in 1..(m + n) PROVE <<both[i], w[i - 1], w[i]>> \in S
  <2>1. CASE i <= m
    <3>1. i \in 1..m /\ i \in 0..m /\ i - 1 \in 0..m
      BY <1>1, <2>1
    <3> QED
      BY <1>1, <1>2, <1>5, <3>1
  <2>2. CASE ~(i <= m)
    <3>1. PICK j \in 1..n : i = m + j
      <4>1. i - m \in 1..n /\ i = m + (i - m)
        BY <1>1, <2>2
      <4> QED
        BY <4>1
    <3>2. j \in 0..n /\ j - 1 \in 0..n /\ i - 1 = m + (j - 1)
      BY <1>1, <3>1
    <3> QED
      BY <1>1, <1>3, <1>6, <3>1, <3>2
  <2> QED
    BY <2>1, <2>2
<1>9. Walk(both, 1, a, c, S)
  BY <1>1, <1>4, <1>7, <1>8 DEF Walk
<1> QED
  BY <1>9 DEF both

-----------------------------------------------------------------------------
(* The regions along a queue.                                               *)

\* Only launches and SET_SHADER_LOCAL_MEMORY have to do with local memory.
Calm(cmd) == cmd.kind \notin {"launch", "localMem"}

LEMMA CalmStep ==
    ASSUME NEW z, NEW cmd \in Command, Calm(cmd), NEW b \in Nat
    PROVE  <<cmd, b, b>> \in CommandSteps(z)
BY DEF CommandSteps, Enough, Calm

LEMMA CalmCommands ==
    ASSUME NEW sig \in Signals, NEW target \in Nat
    PROVE  /\ Calm([kind |-> "release", sig |-> sig, payload |-> target])
           /\ Calm([kind |-> "acquire", sig |-> sig, payload |-> target])
BY DEF Calm

\* A region more takes nothing from those there are.
LEMMA WiderSteps ==
    ASSUME NEW z \in Seq(Nat), NEW x \in Nat
    PROVE  /\ \A cmd, n : Enough(cmd, n, z) => Enough(cmd, n, Append(z, x))
           /\ CommandSteps(z) \subseteq CommandSteps(Append(z, x))
           /\ PieceSteps(z) \subseteq PieceSteps(Append(z, x))
<1> DEFINE long == Append(z, x)
<1>1. \A n \in DOMAIN z : n \in DOMAIN long /\ long[n] = z[n]
  OBVIOUS
<1> HIDE DEF long
<1>2. \A cmd, n : Enough(cmd, n, z) => Enough(cmd, n, long)
  BY <1>1 DEF Enough
<1>3. CommandSteps(z) \subseteq CommandSteps(long)
  BY <1>2, Zenon DEF CommandSteps
<1>4. \A seq, a, b : Walk(seq, 1, a, b, CommandSteps(z)) => Walk(seq, 1, a, b, CommandSteps(long))
  BY <1>3, WiderWalk
<1>5. PieceSteps(z) \subseteq PieceSteps(long)
  BY <1>4, Zenon DEF PieceSteps
<1> QED
  BY <1>2, <1>3, <1>5 DEF long

LEMMA WiderLeads ==
    ASSUME NEW z \in Seq(Nat), NEW x \in Nat, NEW q, NEW k, NEW a, NEW b, Leads(q, k, a, b, z)
    PROVE  Leads(q, k, a, b, Append(z, x))
<1>1. PICK m \in Nat : /\ Walk(q.backlog, k, a, m, PieceSteps(z))
                       /\ Walk(q.buf["COMPUTE"], 1, m, b, CommandSteps(z))
  BY DEF Leads
<1>2. /\ Walk(q.backlog, k, a, m, PieceSteps(Append(z, x)))
      /\ Walk(q.buf["COMPUTE"], 1, m, b, CommandSteps(Append(z, x)))
  BY <1>1, WiderSteps, WiderWalk
<1> QED
  BY <1>2 DEF Leads

\* r is the queue q after a step that leaves local memory as it is.
Steady(q, r) ==
    /\ r \in NvCommandQueue
    /\ r.currentSlmPerThread = q.currentSlmPerThread
    /\ \A a, b, z : Leads(q, 1, a, b, z) => Leads(r, 1, a, b, z)

LEMMA SteadyTransitive ==
    ASSUME NEW p, NEW q, NEW r, Steady(p, q), Steady(q, r)
    PROVE  Steady(p, r)
BY DEF Steady

LEMMA SameLaneSteady ==
    ASSUME NEW q, NEW r \in NvCommandQueue, r.buf["COMPUTE"] = q.buf["COMPUTE"],
           r.backlog = q.backlog, r.currentSlmPerThread = q.currentSlmPerThread
    PROVE  Steady(q, r)
BY DEF Steady, Leads

\* A command at the end of the compute buffer takes its step.
LEMMA EnqueueLeads ==
    ASSUME NEW q \in NvCommandQueue, NEW cmd \in Command, NEW k, NEW a, NEW b, NEW c \in Nat,
           NEW z, Leads(q, k, a, b, z), <<cmd, b, c>> \in CommandSteps(z)
    PROVE  Leads(Enqueue(q, cmd, "COMPUTE"), k, a, c, z)
<1>1. "COMPUTE" \in QueueTypes
  BY DEF QueueTypes
<1>2. PICK r : r = Enqueue(q, cmd, "COMPUTE")
  OBVIOUS
<1>3. PICK buf : buf = q.buf["COMPUTE"]
  OBVIOUS
<1>4. r.buf["COMPUTE"] = Append(buf, cmd) /\ r.backlog = q.backlog /\ buf \in Seq(Command)
  BY <1>1, <1>2, <1>3, EnqueueFields, QueueFields
<1>5. PICK m \in Nat : /\ Walk(q.backlog, k, a, m, PieceSteps(z))
                       /\ Walk(buf, 1, m, b, CommandSteps(z))
  BY <1>3 DEF Leads
<1>6. 1 \in 1..(Len(buf) + 1)
  BY <1>4
<1>7. Walk(Append(buf, cmd), 1, m, c, CommandSteps(z))
  BY <1>4, <1>5, <1>6, AppendedWalk
<1> QED
  BY <1>2, <1>4, <1>5, <1>7 DEF Leads

LEMMA LeadsToNat ==
    ASSUME NEW q \in NvCommandQueue, NEW k, NEW a, NEW b, NEW z, Leads(q, k, a, b, z)
    PROVE  b \in Nat
<1>1. PICK m \in Nat : Walk(q.buf["COMPUTE"], 1, m, b, CommandSteps(z))
  BY DEF Leads
<1>2. PICK buf : buf = q.buf["COMPUTE"]
  OBVIOUS
<1>3. buf \in Seq(Command)
  BY <1>2, QueueFields DEF QueueTypes
<1>4. Len(buf) \in Nat /\ 1 \in 1..(Len(buf) + 1)
  BY <1>3
<1> QED
  BY <1>1, <1>2, <1>4, WalkEnds

LEMMA CalmLeads ==
    ASSUME NEW q \in NvCommandQueue, NEW cmd \in Command, Calm(cmd), NEW t \in QueueTypes,
           NEW k, NEW a, NEW b, NEW z, Leads(q, k, a, b, z)
    PROVE  Leads(Enqueue(q, cmd, t), k, a, b, z)
<1>1. CASE t = "COMPUTE"
  BY <1>1, LeadsToNat, CalmStep, EnqueueLeads
<1>2. CASE t # "COMPUTE"
  <2>1. PICK r : r = Enqueue(q, cmd, t)
    OBVIOUS
  <2>2. r.buf["COMPUTE"] = q.buf["COMPUTE"] /\ r.backlog = q.backlog
    BY <1>2, <2>1, EnqueueFields DEF QueueTypes
  <2> QED
    BY <2>1, <2>2 DEF Leads
<1> QED
  BY <1>1, <1>2

LEMMA CalmSteady ==
    ASSUME NEW q \in NvCommandQueue, NEW cmd \in Command, Calm(cmd), NEW t \in QueueTypes
    PROVE  Steady(q, Enqueue(q, cmd, t))
<1>1. PICK r : r = Enqueue(q, cmd, t)
  OBVIOUS
<1>2. r \in NvCommandQueue
  BY <1>1, EnqueueTyped
<1>3. r.currentSlmPerThread = q.currentSlmPerThread
  BY <1>1 DEF Enqueue, NvCommandQueue
<1>4. \A a, b, z : Leads(q, 1, a, b, z) => Leads(r, 1, a, b, z)
  BY <1>1, CalmLeads
<1> QED
  BY <1>1, <1>2, <1>3, <1>4 DEF Steady

\* A buffer that becomes a piece of the backlog keeps its place.
LEMMA BacklogSteady ==
    ASSUME NEW q \in NvCommandQueue, NEW t \in QueueTypes
    PROVE  Steady(q, BacklogCurrentCmdBuffer(q, t))
<1>1. PICK r : r = BacklogCurrentCmdBuffer(q, t)
  OBVIOUS
<1>2. r \in NvCommandQueue /\ r.buf[t] = <<>> /\ r.buf[Other(t)] = q.buf[Other(t)]
  BY <1>1, BacklogTyped
<1>3. CASE q.buf[t] = <<>>
  <2>1. r = q
    BY <1>1, <1>3, BacklogTyped
  <2> QED
    BY <1>1, <2>1, SameLaneSteady
<1>4. CASE q.buf[t] # <<>>
  <2>1. PICK piece : piece = [buf |-> q.buf[t], type |-> t, timelineCtr |-> q.timelineCtr,
                              timelineNotifyPending |-> q.timelineNotifyPending]
    OBVIOUS
  <2>2. piece \in Split
    BY <2>1 DEF NvCommandQueue, Split
  <2>3. r.backlog = Append(q.backlog, piece) /\ r.currentSlmPerThread = q.currentSlmPerThread
    BY <1>1, <1>4, <2>1 DEF BacklogCurrentCmdBuffer, NvCommandQueue
  <2>4. PICK old : old = q.backlog
    OBVIOUS
  <2>5. old \in Seq(Split) /\ 1 \in 1..(Len(old) + 1)
    BY <2>4, QueueFields
  <2>6. ASSUME NEW a, NEW b, NEW z, Leads(q, 1, a, b, z) PROVE Leads(r, 1, a, b, z)
    <3>1. PICK m \in Nat : /\ Walk(old, 1, a, m, PieceSteps(z))
                           /\ Walk(q.buf["COMPUTE"], 1, m, b, CommandSteps(z))
      BY <2>4, <2>6 DEF Leads
    <3>2. b \in Nat
      BY <2>6, LeadsToNat
    <3>3. CASE t = "COMPUTE"
      <4>1. piece.type = "COMPUTE" /\ piece.buf = q.buf["COMPUTE"]
        BY <2>1, <3>3
      <4>2. <<piece, m, b>> \in PieceSteps(z)
        BY <2>2, <3>1, <3>2, <4>1 DEF PieceSteps
      <4>3. Walk(r.backlog, 1, a, b, PieceSteps(z))
        BY <2>2, <2>3, <2>4, <2>5, <3>1, <3>2, <4>2, AppendedWalk
      <4>4. Walk(r.buf["COMPUTE"], 1, b, b, CommandSteps(z))
        BY <1>2, <3>2, <3>3, EmptyWalk
      <4> QED
        BY <3>2, <4>3, <4>4 DEF Leads
    <3>4. CASE t # "COMPUTE"
      <4>1. piece.type # "COMPUTE" /\ r.buf["COMPUTE"] = q.buf["COMPUTE"]
        BY <1>2, <2>1, <3>4 DEF QueueTypes, Other
      <4>2. <<piece, m, m>> \in PieceSteps(z)
        BY <2>2, <4>1 DEF PieceSteps
      <4>3. Walk(r.backlog, 1, a, m, PieceSteps(z))
        BY <2>2, <2>3, <2>4, <2>5, <3>1, <4>2, AppendedWalk
      <4> QED
        BY <3>1, <4>1, <4>3 DEF Leads
    <3> QED
      BY <3>3, <3>4
  <2> QED
    BY <1>1, <1>2, <2>3, <2>6 DEF Steady
<1> QED
  BY <1>3, <1>4

LEMMA SwitchToSteady ==
    ASSUME NEW q \in NvCommandQueue, NEW t \in QueueTypes
    PROVE  Steady(q, SwitchTo(q, t))
<1>1. PICK r, type : /\ r = SwitchTo(q, t)
                     /\ type = IF q.buf[Other(t)] = <<>> THEN t ELSE q.currentQueueType
  OBVIOUS
<1>2. CASE type = Other(t)
  <2>1. PICK moved : moved = BacklogCurrentCmdBuffer(q, Other(t))
    OBVIOUS
  <2>2. Steady(q, moved)
    BY <2>1, OtherType, BacklogSteady
  <2>3. moved \in NvCommandQueue
    BY <2>2 DEF Steady
  <2>4. r = [moved EXCEPT !.currentQueueType = t]
    BY <1>1, <1>2, <2>1 DEF SwitchTo
  <2>5. /\ r \in NvCommandQueue /\ r.buf = moved.buf /\ r.backlog = moved.backlog
        /\ r.currentSlmPerThread = moved.currentSlmPerThread
    BY <2>3, <2>4 DEF NvCommandQueue
  <2> QED
    BY <1>1, <2>2, <2>5, SameLaneSteady, SteadyTransitive
<1>3. CASE type # Other(t)
  <2>1. r = [q EXCEPT !.currentQueueType = type] /\ type \in QueueTypes \cup {"OTHER"}
    BY <1>1, <1>3 DEF SwitchTo, NvCommandQueue
  <2>2. /\ r \in NvCommandQueue /\ r.buf = q.buf /\ r.backlog = q.backlog
        /\ r.currentSlmPerThread = q.currentSlmPerThread
    BY <2>1 DEF NvCommandQueue
  <2> QED
    BY <1>1, <2>2, SameLaneSteady
<1> QED
  BY <1>2, <1>3

LEMMA NotifySteady ==
    ASSUME NEW q \in NvCommandQueue, NEW sig \in Signals, NEW target \in Nat, NEW t \in QueueTypes
    PROVE  Steady(q, SignalNotify(q, sig, target, t))
<1>1. PICK cmd : cmd = [kind |-> "release", sig |-> sig, payload |-> target]
  OBVIOUS
<1>2. cmd \in Command /\ Calm(cmd)
  BY <1>1, CommandTypes, CalmCommands
<1> QED
  BY <1>1, <1>2, CalmSteady DEF SignalNotify

LEMMA ScalarsSteady ==
    ASSUME NEW q \in NvCommandQueue
    PROVE  /\ \A b \in BOOLEAN : Steady(q, [q EXCEPT !.timelineNotifyPending = b])
           /\ \A n \in 0..KernArgsSlots : Steady(q, [q EXCEPT !.kernArgsWriteIdx = n])
           /\ Steady(q, AdvanceTimeline(q))
<1>1. ASSUME NEW r \in NvCommandQueue, r.buf = q.buf, r.backlog = q.backlog,
             r.currentSlmPerThread = q.currentSlmPerThread
      PROVE  Steady(q, r)
  BY <1>1, SameLaneSteady
<1>2. AdvanceTimeline(q) \in NvCommandQueue
  BY AdvanceTimelineTyped
<1>3. Steady(q, AdvanceTimeline(q))
  BY <1>1, <1>2 DEF AdvanceTimeline, NvCommandQueue
<1>4. ASSUME NEW b \in BOOLEAN PROVE Steady(q, [q EXCEPT !.timelineNotifyPending = b])
  <2>1. PICK r : r = [q EXCEPT !.timelineNotifyPending = b]
    OBVIOUS
  <2>2. /\ r \in NvCommandQueue /\ r.buf = q.buf /\ r.backlog = q.backlog
        /\ r.currentSlmPerThread = q.currentSlmPerThread
    BY <2>1 DEF NvCommandQueue
  <2> QED
    BY <1>1, <2>1, <2>2
<1>5. ASSUME NEW n \in 0..KernArgsSlots PROVE Steady(q, [q EXCEPT !.kernArgsWriteIdx = n])
  <2>1. PICK r : r = [q EXCEPT !.kernArgsWriteIdx = n]
    OBVIOUS
  <2>2. /\ r \in NvCommandQueue /\ r.buf = q.buf /\ r.backlog = q.backlog
        /\ r.currentSlmPerThread = q.currentSlmPerThread
    BY <2>1 DEF NvCommandQueue
  <2> QED
    BY <1>1, <2>1, <2>2
<1> QED
  BY <1>3, <1>4, <1>5

LEMMA NotifyIfPendingSteady ==
    ASSUME NEW q \in NvCommandQueue, NEW s \in Streams, NEW t \in QueueTypes
    PROVE  Steady(q, [NotifyIfPending(q, s, t) EXCEPT !.timelineNotifyPending = FALSE])
<1>1. PICK n : n = NotifyIfPending(q, s, t)
  OBVIOUS
<1>2. Steady(q, n)
  BY <1>1, NotifySteady, SameLaneSteady, TimelineIsSignal, QueueFields DEF NotifyIfPending
<1>3. n \in NvCommandQueue
  BY <1>2 DEF Steady
<1> QED
  BY <1>1, <1>2, <1>3, ScalarsSteady, SteadyTransitive

LEMMA EndOpSteady ==
    ASSUME NEW q \in NvCommandQueue, NEW s \in Streams, NEW async \in BOOLEAN,
           NEW t \in QueueTypes
    PROVE  Steady(q, EndOp(q, s, async, t))
<1>1. PICK next : next = AdvanceTimeline(q)
  OBVIOUS
<1>2. Steady(q, next) /\ next \in NvCommandQueue
  BY <1>1, ScalarsSteady DEF Steady
<1>3. PICK n : n = SignalNotify(next, Timeline(s), next.timelineCtr, t)
  OBVIOUS
<1>4. Steady(next, n) /\ n \in NvCommandQueue
  BY <1>2, <1>3, NotifySteady, TimelineIsSignal, QueueFields DEF Steady
<1>5. EndOp(q, s, async, t) = IF async THEN [next EXCEPT !.timelineNotifyPending = TRUE]
                                       ELSE [n EXCEPT !.timelineNotifyPending = FALSE]
  BY <1>1, <1>3 DEF EndOp
<1>6. /\ Steady(next, [next EXCEPT !.timelineNotifyPending = TRUE])
      /\ Steady(n, [n EXCEPT !.timelineNotifyPending = FALSE])
  BY <1>2, <1>4, ScalarsSteady
<1> QED
  BY <1>2, <1>4, <1>5, <1>6, SteadyTransitive

LEMMA WaitForPreviousSteady ==
    ASSUME NEW q \in NvCommandQueue, NEW s \in Streams, NEW async \in BOOLEAN
    PROVE  Steady(q, WaitForPrevious(q, s, async))
<1>1. PICK n, cmd :
          /\ n = [NotifyIfPending(q, s, "COMPUTE") EXCEPT !.timelineNotifyPending = FALSE]
          /\ cmd = [kind |-> "acquire", sig |-> Timeline(s), payload |-> q.timelineCtr]
  OBVIOUS
<1>2. "COMPUTE" \in QueueTypes /\ cmd \in Command /\ Calm(cmd)
  BY <1>1, CommandTypes, CalmCommands, TimelineIsSignal, QueueFields DEF QueueTypes
<1>3. Steady(q, n) /\ n \in NvCommandQueue
  BY <1>1, <1>2, NotifyIfPendingSteady DEF Steady
<1>4. Steady(n, Enqueue(n, cmd, "COMPUTE"))
  BY <1>2, <1>3, CalmSteady
<1>5. \/ WaitForPrevious(q, s, async) = q
      \/ WaitForPrevious(q, s, async) = n
      \/ WaitForPrevious(q, s, async) = Enqueue(n, cmd, "COMPUTE")
  BY <1>1 DEF WaitForPrevious, SignalWaitGpu
<1> QED
  BY <1>3, <1>4, <1>5, SteadyTransitive, SameLaneSteady

-----------------------------------------------------------------------------
(* A new region.                                                            *)

\* The queue q, with the regions of m, leads every way that p led with those of
\* l to the last region of m, and grants what that one has.
Prepares(p, l, q, m) ==
    /\ q \in NvCommandQueue
    /\ q.currentSlmPerThread = LastSize(m.size)
    /\ RegionsKept(m)
    /\ m.size = l.size \/ \E x \in Nat : m.size = Append(l.size, x)
    /\ \A a : Leads(p, 1, a, Len(l.size), l.size) => Leads(q, 1, a, Len(m.size), m.size)

LEMMA SteadyPrepares ==
    ASSUME NEW p, NEW l, NEW q, NEW m, Prepares(p, l, q, m)
    PROVE  /\ \A r : Steady(q, r) => Prepares(p, l, r, m)
           /\ \A k : Steady(k, p) => Prepares(k, l, q, m)
BY DEF Prepares, Steady

LEMMA RoundUpCovers == \A n \in Nat : n <= RoundUp(n, 32)
BY DEF RoundUp, CeilDiv

LEMMA LastOfAppended ==
    ASSUME NEW z \in Seq(Nat), NEW x \in Nat
    PROVE  LastSize(Append(z, x)) = x /\ Len(Append(z, x)) = Len(z) + 1
<1>1. PICK y : y = Append(z, x)
  OBVIOUS
<1>2. y # <<>> /\ Len(y) = Len(z) + 1 /\ y[Len(z) + 1] = x
  BY <1>1
<1> QED
  BY <1>1, <1>2 DEF LastSize

\* ensureEnoughLocalMem: a region is allocated only for a function that needs
\* more than the last one has, and so never held one that could be freed.
LEMMA LocalMemPrepares ==
    ASSUME HostTypeOK, RegionsKept(slm), NEW q \in NvCommandQueue, NEW f \in Funcs,
           q.currentSlmPerThread = LastSize(slm.size)
    PROVE  LET m == EnsureEnoughLocalMem(q, f)
           IN  Prepares(q, slm, m.queue, m.slm) /\ LocalMemReq[f] <= LastSize(m.slm.size)
<1> DEFINE z == slm.size
           x == RoundUp(LocalMemReq[f], 32)
           y == Append(z, x)
           grown == GrownSlm(q, f)
           cmd == [kind |-> "localMem", region |-> Len(z) + 1]
           m == EnsureEnoughLocalMem(q, f)
<1>1. /\ z \in Seq(Nat) /\ Len(z) \in Nat /\ LastSize(z) \in Nat
      /\ x \in Nat /\ LocalMemReq[f] \in Nat /\ LocalMemReq[f] <= x
  <2>1. z \in Seq(Nat) /\ Len(z) \in Nat
    BY DEF HostTypeOK
  <2>2. LastSize(z) \in Nat
    BY DEF NvCommandQueue
  <2> QED
    BY <2>1, <2>2, RoundUpIsNat, RoundUpCovers, FuncAssumption
<1>2. CASE ~NeedsLocalMem(q, f)
  <2>1. m = [queue |-> q, slm |-> slm]
    BY <1>2 DEF EnsureEnoughLocalMem
  <2>2. LocalMemReq[f] <= LastSize(z)
    BY <1>1, <1>2 DEF NeedsLocalMem
  <2>3. Prepares(q, slm, q, slm)
    BY DEF Prepares
  <2> QED
    BY <2>1, <2>2, <2>3
<1>3. CASE NeedsLocalMem(q, f)
  <2>1. LastSize(z) < LocalMemReq[f] /\ slm.va[f] = 0
    BY <1>1, <1>3 DEF NeedsLocalMem, RegionsKept, HostTypeOK
  <2>2. Freed(f) = {}
    BY <2>1 DEF Freed, RegionsKept
  <2>3. /\ m.queue = Enqueue(grown, cmd, "COMPUTE")
        /\ m.slm = [va |-> [slm.va EXCEPT ![f] = Len(z) + 1], size |-> y, freed |-> {}]
    BY <1>3, <2>2 DEF EnsureEnoughLocalMem
  <2>4. LastSize(y) = x /\ Len(y) = Len(z) + 1
    BY <1>1, LastOfAppended
  <2> HIDE DEF x, y, m
  <2>5. /\ grown \in NvCommandQueue /\ grown.buf = q.buf /\ grown.backlog = q.backlog
        /\ grown.currentSlmPerThread = x
    BY <1>1 DEF GrownSlm, NvCommandQueue, x
  <2>6. cmd \in Command
    BY <1>1 DEF Command, LocalMemSets
  <2> HIDE DEF grown
  <2>7. m.queue \in NvCommandQueue /\ m.queue.currentSlmPerThread = x
    <3>1. m.queue \in NvCommandQueue
      BY <2>3, <2>5, <2>6, EnqueueTyped DEF QueueTypes
    <3>2. m.queue.currentSlmPerThread = grown.currentSlmPerThread
      BY <2>3, <2>5 DEF Enqueue, NvCommandQueue
    <3> QED
      BY <2>5, <3>1, <3>2
  <2>8. RegionsKept(m.slm)
    <3>1. \A g \in Funcs : m.slm.va[g] # 0 => LocalMemReq[g] <= x
      <4> SUFFICES ASSUME NEW g \in Funcs, m.slm.va[g] # 0 PROVE LocalMemReq[g] <= x
        OBVIOUS
      <4>1. CASE g = f
        BY <1>1, <4>1
      <4>2. CASE g # f
        <5>1. m.slm.va[g] = slm.va[g]
          BY <2>3, <4>2 DEF HostTypeOK
        <5>2. LocalMemReq[g] <= LastSize(z) /\ LocalMemReq[g] \in Nat
          BY <5>1, FuncAssumption DEF RegionsKept
        <5> QED
          BY <1>1, <2>1, <5>2
      <4> QED
        BY <4>1, <4>2
    <3> QED
      BY <2>3, <2>4, <3>1 DEF RegionsKept
  <2>9. ASSUME NEW a, Leads(q, 1, a, Len(z), z) PROVE Leads(m.queue, 1, a, Len(y), y)
    <3>1. Leads(q, 1, a, Len(z), y)
      BY <1>1, <2>9, WiderLeads DEF y
    <3>2. Leads(grown, 1, a, Len(z), y)
      BY <2>5, <3>1 DEF Leads
    <3>3. <<cmd, Len(z), Len(y)>> \in CommandSteps(y)
      BY <1>1, <2>4, <2>6 DEF CommandSteps, Enough
    <3>4. Len(y) \in Nat
      BY <1>1, <2>4
    <3> QED
      BY <2>3, <2>5, <2>6, <3>2, <3>3, <3>4, EnqueueLeads
  <2>10. m.slm.size = y /\ \E v \in Nat : y = Append(z, v)
    BY <1>1, <2>3 DEF y
  <2>11. Prepares(q, slm, m.queue, m.slm)
    BY <2>4, <2>7, <2>8, <2>9, <2>10 DEF Prepares
  <2> QED
    BY <1>1, <2>4, <2>10, <2>11 DEF m
<1> QED
  BY <1>2, <1>3

LEMMA PreparedPrepares ==
    ASSUME HostTypeOK, RegionsKept(slm), NEW s \in Streams, NEW f \in Funcs,
           NEW async \in BOOLEAN, queue[s].currentSlmPerThread = LastSize(slm.size)
    PROVE  LET p == Prepared(s, f, async)
           IN  Prepares(queue[s], slm, p.queue, p.slm) /\ LocalMemReq[f] <= LastSize(p.slm.size)
<1>1. PICK q \in NvCommandQueue : q = queue[s]
  BY DEF HostTypeOK
<1>2. PICK w : w = SwitchTo(q, "COMPUTE")
  OBVIOUS
<1>3. Steady(q, w) /\ w \in NvCommandQueue /\ w.currentSlmPerThread = LastSize(slm.size)
  BY <1>1, <1>2, SwitchToSteady DEF Steady, QueueTypes
<1>4. PICK m : m = EnsureEnoughLocalMem(w, f)
  OBVIOUS
<1>5. Prepares(w, slm, m.queue, m.slm) /\ LocalMemReq[f] <= LastSize(m.slm.size)
  BY <1>3, <1>4, LocalMemPrepares
<1>6. PICK r : r = WaitForPrevious(m.queue, s, async)
  OBVIOUS
<1>7. Steady(m.queue, r)
  BY <1>5, <1>6, WaitForPreviousSteady DEF Prepares
<1>8. m = [queue |-> m.queue, slm |-> m.slm]
  BY <1>4 DEF EnsureEnoughLocalMem
<1>9. Prepared(s, f, async) = [m EXCEPT !.queue = r]
  BY <1>1, <1>2, <1>4, <1>6, <1>8 DEF Prepared
<1>10. Prepared(s, f, async).queue = r /\ Prepared(s, f, async).slm = m.slm
  BY <1>8, <1>9
<1>11. Prepares(w, slm, r, m.slm)
  BY <1>3, <1>5, <1>7, SteadyPrepares
<1>12. Prepares(q, slm, r, m.slm)
  BY <1>3, <1>5, <1>7, <1>11, SteadyPrepares
<1> QED
  BY <1>1, <1>5, <1>10, <1>12

\* The launch finds the last region, and with it all that its QMD announces.
LEMMA LaunchPrepares ==
    ASSUME NEW p, NEW l, NEW q, NEW m, Prepares(p, l, q, m), m.size \in Seq(Nat),
           NEW cmd \in Launches, cmd.slm = q.currentSlmPerThread,
           cmd.need <= LastSize(m.size)
    PROVE  Prepares(p, l, Enqueue(q, cmd, "COMPUTE"), m)
<1>1. PICK r, z : r = Enqueue(q, cmd, "COMPUTE") /\ z = m.size
  OBVIOUS
<1>2. /\ q \in NvCommandQueue /\ cmd \in Command /\ "COMPUTE" \in QueueTypes
      /\ q.currentSlmPerThread = LastSize(z) /\ z \in Seq(Nat) /\ Len(z) \in Nat
  BY <1>1 DEF Prepares, Command, QueueTypes
<1>3. r \in NvCommandQueue
  BY <1>1, <1>2, EnqueueTyped
<1>4. r.currentSlmPerThread = LastSize(z)
  BY <1>1, <1>2 DEF Enqueue, NvCommandQueue
<1>5. Enough(cmd, Len(z), z)
  <2>1. cmd.need \in Nat /\ cmd.slm = LastSize(z) /\ cmd.need <= LastSize(z)
    BY <1>1, <1>2 DEF Launches
  <2>2. ASSUME cmd.need > 0
        PROVE  Len(z) \in DOMAIN z /\ cmd.need <= cmd.slm /\ cmd.slm <= z[Len(z)]
    <3>1. z # <<>>
      BY <2>1, <2>2 DEF LastSize
    <3>2. Len(z) \in DOMAIN z /\ z[Len(z)] \in Nat
      BY <1>2, <3>1
    <3>3. LastSize(z) = z[Len(z)]
      BY <3>1 DEF LastSize
    <3> QED
      BY <2>1, <3>2, <3>3
  <2> QED
    BY <2>2 DEF Enough
<1>6. <<cmd, Len(z), Len(z)>> \in CommandSteps(z)
  <2>1. cmd.kind # "localMem"
    BY DEF Launches
  <2> QED
    BY <1>2, <1>5, <2>1 DEF CommandSteps
<1>7. ASSUME NEW a, Leads(p, 1, a, Len(l.size), l.size) PROVE Leads(r, 1, a, Len(z), z)
  <2>1. Leads(q, 1, a, Len(z), z)
    BY <1>1, <1>7 DEF Prepares
  <2> QED
    BY <1>1, <1>2, <1>6, <2>1, EnqueueLeads
<1> QED
  BY <1>1, <1>3, <1>4, <1>7 DEF Prepares

\* What t's channel gets of a queue's buffer takes the region from a to n.
HandsOver(q, t, a, n, z) ==
    IF t = "COMPUTE" THEN Walk(q.buf["COMPUTE"], 1, a, n, CommandSteps(z)) ELSE n = a

Emptied(q, t) == [q EXCEPT !.buf[t] = <<>>]

LEMMA EmptiedFields ==
    ASSUME NEW q \in NvCommandQueue, NEW t \in QueueTypes
    PROVE  LET r == Emptied(q, t)
           IN  /\ r.buf[t] = <<>> /\ \A u \in QueueTypes : u # t => r.buf[u] = q.buf[u]
               /\ r.backlog = q.backlog /\ r.currentSlmPerThread = q.currentSlmPerThread
BY DEF Emptied, NvCommandQueue

LEMMA EmptiedOf ==
    ASSUME NEW q \in NvCommandQueue, NEW t \in QueueTypes, NEW r, r = Emptied(q, t)
    PROVE  r.buf[t] = <<>> /\ r.buf[Other(t)] = q.buf[Other(t)] /\ r.backlog = q.backlog
BY EmptiedFields, OtherType

\* With no backlog before it, the buffer is next.
LEMMA BufferHandedOver ==
    ASSUME NEW q \in NvCommandQueue, NEW t \in QueueTypes, q.backlog = <<>>,
           NEW a \in Nat, NEW b, NEW z, Leads(q, 1, a, b, z)
    PROVE  \E n \in Nat : HandsOver(q, t, a, n, z) /\ Leads(Emptied(q, t), 1, n, b, z)
<1>1. PICK r : r = Emptied(q, t)
  OBVIOUS
<1>2. /\ r.buf[t] = <<>> /\ \A u \in QueueTypes : u # t => r.buf[u] = q.buf[u]
      /\ r.backlog = <<>>
  BY <1>1, EmptiedFields
<1>3. PICK m \in Nat : /\ Walk(q.backlog, 1, a, m, PieceSteps(z))
                       /\ Walk(q.buf["COMPUTE"], 1, m, b, CommandSteps(z))
  BY DEF Leads
<1>4. m = a /\ b \in Nat
  BY <1>3, EmptyWalk, LeadsToNat
<1>5. CASE t = "COMPUTE"
  <2>1. Walk(r.backlog, 1, b, b, PieceSteps(z)) /\ Walk(r.buf["COMPUTE"], 1, b, b, CommandSteps(z))
    BY <1>2, <1>4, <1>5, EmptyWalk
  <2>2. Leads(r, 1, b, b, z)
    BY <1>4, <2>1 DEF Leads
  <2> QED
    BY <1>1, <1>3, <1>4, <1>5, <2>2 DEF HandsOver
<1>6. CASE t # "COMPUTE"
  <2>1. r.buf["COMPUTE"] = q.buf["COMPUTE"]
    BY <1>2, <1>6 DEF QueueTypes
  <2>2. Leads(r, 1, a, b, z)
    BY <1>2, <2>1, SMTT(30) DEF Leads
  <2> QED
    BY <1>1, <1>6, <2>2 DEF HandsOver
<1> QED
  BY <1>5, <1>6

\* The piece under the cursor is handed over; the rest leads on from it.
LEMMA PieceHandedOver ==
    ASSUME QueueInv, cpu.at = "submit", NEW s \in Streams, s = cpu.stream,
           NEW piece \in Split, piece = queue[s].backlog[cpu.entry],
           NEW t \in QueueTypes, t = piece.type,
           NEW a \in Nat, NEW b, NEW z, Leads(queue[s], cpu.entry, a, b, z)
    PROVE  \E n \in Nat : /\ HandsOver(Loaded(s, piece), t, a, n, z)
                          /\ Leads(Emptied(Loaded(s, piece), t), cpu.entry + 1, n, b, z)
<1>1. PICK q, e, r, w : /\ q = queue[s] /\ e = cpu.entry
                        /\ r = Loaded(s, piece) /\ w = Emptied(r, t)
  OBVIOUS
<1>2. /\ q \in NvCommandQueue /\ \A u \in QueueTypes : q.buf[u] = <<>>
      /\ e \in 1..Len(q.backlog) /\ Len(q.backlog) \in Nat
  <2>1. q \in NvCommandQueue
    BY <1>1 DEF QueueInv, TypeOK, HostTypeOK
  <2>2. e \in Nat \ {0} /\ e <= Len(q.backlog) /\ \A u \in QueueTypes : q.buf[u] = <<>>
    BY <1>1, CpuFields, SMTT(30) DEF QueueInv, TypeOK, CursorInBacklog
  <2> QED
    BY <2>1, <2>2, QueueFields
<1>3. /\ r \in NvCommandQueue /\ r.buf[t] = Handed(piece, s) /\ r.buf[Other(t)] = <<>>
      /\ r.backlog = q.backlog
  BY <1>1, LoadedFields
<1>4. /\ w.buf[t] = <<>> /\ w.buf[Other(t)] = <<>> /\ w.backlog = q.backlog
  <2>1. w = Emptied(r, t) /\ r \in NvCommandQueue
    BY <1>1, <1>3, SMTT(30)
  <2>2. w.buf[t] = <<>> /\ w.buf[Other(t)] = r.buf[Other(t)] /\ w.backlog = r.backlog
    BY <2>1, EmptiedOf, SMTT(30)
  <2>3. r.buf[Other(t)] = <<>> /\ r.backlog = q.backlog
    BY <1>3
  <2> QED
    BY <2>2, <2>3, ZenonT(30)
<1>5. w.buf["COMPUTE"] = <<>> /\ q.buf["COMPUTE"] = <<>>
  BY <1>2, <1>4 DEF Other, QueueTypes
<1>6. PICK m \in Nat : /\ Walk(q.backlog, e, a, m, PieceSteps(z))
                       /\ Walk(q.buf["COMPUTE"], 1, m, b, CommandSteps(z))
  BY <1>1 DEF Leads
<1>7. PICK n \in Nat : <<q.backlog[e], a, n>> \in PieceSteps(z)
                       /\ Walk(q.backlog, e + 1, n, m, PieceSteps(z))
  BY <1>2, <1>6, FirstStep
<1>8. Leads(w, e + 1, n, b, z)
  BY <1>4, <1>5, <1>6, <1>7 DEF Leads
<1>9. HandsOver(r, t, a, n, z)
  <2>1. CASE t = "COMPUTE"
    <3>1. Walk(piece.buf, 1, a, n, CommandSteps(z))
      BY <1>1, <1>7, <2>1 DEF PieceSteps
    <3>2. PICK cmd, buf : /\ cmd = [kind |-> "release", sig |-> Timeline(s),
                                    payload |-> piece.timelineCtr]
                          /\ buf = piece.buf
      OBVIOUS
    <3>3. cmd \in Command /\ Calm(cmd) /\ buf \in Seq(Command) /\ 1 \in 1..(Len(buf) + 1)
      <4>1. piece.timelineCtr \in Nat /\ buf \in Seq(Command)
        BY <3>2, CounterIsNat DEF Split
      <4>2. 1 \in 1..(Len(buf) + 1)
        BY <4>1
      <4>3. cmd \in Command /\ Calm(cmd)
        BY <3>2, <4>1, CommandTypes, CalmCommands, TimelineIsSignal
      <4> QED
        BY <4>1, <4>2, <4>3
    <3>4. Walk(Append(buf, cmd), 1, a, n, CommandSteps(z))
      BY <3>1, <3>2, <3>3, CalmStep, AppendedWalk
    <3>5. r.buf["COMPUTE"] = buf \/ r.buf["COMPUTE"] = Append(buf, cmd)
      BY <1>3, <2>1, <3>2 DEF Handed
    <3> QED
      BY <2>1, <3>1, <3>2, <3>4, <3>5, ZenonT(30) DEF HandsOver
  <2>2. CASE t # "COMPUTE"
    <3>1. n = a
      BY <1>1, <1>7, <2>2 DEF PieceSteps
    <3> QED
      BY <2>2, <3>1 DEF HandsOver
  <2> QED
    BY <2>1, <2>2, SMTT(30)
<1> QED
  BY <1>1, <1>8, <1>9

-----------------------------------------------------------------------------
(* The invariant.                                                           *)

\* The program uses one stream.
OneStream == \A s, t \in Streams : s = t

\* Neither gpuAlloc nor submitToFifo reports an error.
NothingRefused == "alloc" \notin Faults /\ "submit" \notin Faults

\* A call that hands nothing to the GPU: its queue leads on to the last region.
LEMMA PreparedKept ==
    ASSUME HostTypeOK, LocalMemInv, OneStream, NEW s \in Streams, state[s] # "none",
           NEW q, NEW m, Prepares(queue[s], slm, q, m), slm' = m,
           queue' = [queue EXCEPT ![s] = q], UNCHANGED <<gpuVars, state>>,
           Cursor(s) = 1, Cursor(s)' = 1
    PROVE  LocalMemInv'
<1>1. /\ queue'[s] = q /\ \A x \in Streams : x = s
      /\ slm.size \in Seq(Nat) /\ q.currentSlmPerThread = LastSize(slm'.size)
      /\ RegionsKept(slm')
  BY DEF HostTypeOK, OneStream, Prepares
<1>2. /\ fifo' = fifo /\ localMem' = localMem /\ running' = running
  BY DEF gpuVars
<1>3. PICK z, y : z = slm.size /\ y = slm'.size
  OBVIOUS
<1>4. CommandSteps(z) \subseteq CommandSteps(y)
      /\ \A cmd, n : Enough(cmd, n, z) => Enough(cmd, n, y)
  BY <1>1, <1>3, WiderSteps DEF Prepares
<1>5. RegionsInOrder'
  <2>1. PICK n \in Nat : /\ Walk(fifo["COMPUTE"], 1, localMem, n, CommandSteps(z))
                         /\ Leads(queue[s], 1, n, Len(z), z)
    BY <1>3 DEF LocalMemInv, RegionsInOrder
  <2>2. Walk(fifo["COMPUTE"], 1, localMem, n, CommandSteps(y))
    BY <1>4, <2>1, WiderWalk
  <2>3. Leads(q, 1, n, Len(y), y)
    BY <1>3, <2>1 DEF Prepares
  <2>4. \A x \in Streams : Leads(queue'[x], Cursor(x)', n, Len(y), y)
    BY <1>1, <2>3
  <2> QED
    BY <1>2, <1>3, <2>1, <2>2, <2>4 DEF RegionsInOrder
<1>6. KernelsServed'
  BY <1>2, <1>3, <1>4 DEF LocalMemInv, KernelsServed
<1>7. SizesKnown'
  BY <1>1 DEF SizesKnown
<1> QED
  BY <1>5, <1>6, <1>7 DEF LocalMemInv

\* The same, where local memory stays as it is.
LEMMA SteadyKept ==
    ASSUME HostTypeOK, LocalMemInv, OneStream, NEW s \in Streams, state[s] # "none",
           NEW q, Steady(queue[s], q),
           queue' = [queue EXCEPT ![s] = q], UNCHANGED <<gpuVars, state, slm>>,
           Cursor(s) = 1, Cursor(s)' = 1
    PROVE  LocalMemInv'
<1>1. Prepares(queue[s], slm, q, slm)
  BY DEF LocalMemInv, SizesKnown, Steady, Prepares
<1>2. slm' = slm /\ UNCHANGED <<gpuVars, state>>
  OBVIOUS
<1> QED
  BY <1>1, <1>2, PreparedKept

\* Calls and returns that touch neither a queue nor the GPU.
LEMMA QuietLocalMem ==
    ASSUME LocalMemInv, UNCHANGED <<gpuVars, queue, slm>>,
           \A s \in Streams :
               /\ Cursor(s)' = Cursor(s)
               /\ state'[s] = "none" => state[s] = "none" /\ cpu'.at \in {"idle", "waitEvent"}
    PROVE  LocalMemInv'
<1>1. fifo' = fifo /\ localMem' = localMem /\ running' = running
  BY DEF gpuVars
<1>2. RegionsInOrder'
  BY <1>1 DEF LocalMemInv, RegionsInOrder
<1>3. KernelsServed' /\ SizesKnown'
  BY <1>1 DEF LocalMemInv, KernelsServed, SizesKnown
<1> QED
  BY <1>2, <1>3 DEF LocalMemInv

\* A buffer goes to its channel, and what is left leads on.
LEMMA SubmittedKept ==
    ASSUME TypeOK, LocalMemInv, OneStream, NEW s \in Streams, state'[s] # "none",
           NEW t \in QueueTypes, NEW q \in NvCommandQueue, SubmitToFifo(s, q, t), slm' = slm,
           q.currentSlmPerThread = queue[s].currentSlmPerThread,
           \A a \in Nat : Leads(queue[s], Cursor(s), a, Len(slm.size), slm.size) =>
               \E n \in Nat : /\ HandsOver(q, t, a, n, slm.size)
                              /\ Leads(Emptied(q, t), Cursor(s)', n, Len(slm.size), slm.size)
    PROVE  LocalMemInv'
<1>1. PICK r, z : r = Emptied(q, t) /\ z = slm.size
  OBVIOUS
<1>2. /\ queue'[s] = r /\ \A x \in Streams : x = s
      /\ localMem' = localMem /\ running' = running
      /\ fifo' = [fifo EXCEPT ![t] = fifo[t] \o q.buf[t]]
  BY <1>1 DEF TypeOK, HostTypeOK, OneStream, SubmitToFifo, Emptied
<1>3. r.currentSlmPerThread = LastSize(z)
  BY <1>1, EmptiedFields DEF LocalMemInv, SizesKnown
<1>4. PICK a \in Nat : /\ Walk(fifo["COMPUTE"], 1, localMem, a, CommandSteps(z))
                       /\ Leads(queue[s], Cursor(s), a, Len(z), z)
  BY <1>1 DEF LocalMemInv, RegionsInOrder
<1>5. PICK n \in Nat : HandsOver(q, t, a, n, z) /\ Leads(r, Cursor(s)', n, Len(z), z)
  BY <1>1, <1>4
<1>6. Walk(fifo'["COMPUTE"], 1, localMem, n, CommandSteps(z))
  <2>1. CASE t = "COMPUTE"
    <3>1. PICK f, b : f = fifo["COMPUTE"] /\ b = q.buf["COMPUTE"]
      OBVIOUS
    <3>2. f \in Seq(Command) /\ b \in Seq(Command) /\ fifo'["COMPUTE"] = f \o b
      BY <1>2, <2>1, <3>1, QueueFields DEF TypeOK, GpuTypeOK, QueueTypes
    <3>3. Walk(b, 1, a, n, CommandSteps(z))
      BY <1>5, <2>1, <3>1 DEF HandsOver
    <3> QED
      BY <1>4, <3>1, <3>2, <3>3, JoinedWalk
  <2>2. CASE t # "COMPUTE"
    <3>1. fifo'["COMPUTE"] = fifo["COMPUTE"] /\ n = a
      BY <1>2, <1>5, <2>2 DEF HandsOver, TypeOK, GpuTypeOK, QueueTypes
    <3> QED
      BY <1>4, <3>1
  <2> QED
    BY <2>1, <2>2
<1>7. RegionsInOrder'
  <2>1. \A x \in Streams : Leads(queue'[x], Cursor(x)', n, Len(z), z)
    BY <1>2, <1>5
  <2> QED
    BY <1>1, <1>2, <1>6, <2>1 DEF RegionsInOrder
<1>8. KernelsServed' /\ SizesKnown'
  BY <1>1, <1>2, <1>3 DEF LocalMemInv, KernelsServed, SizesKnown, RegionsKept
<1> QED
  BY <1>7, <1>8 DEF LocalMemInv

-----------------------------------------------------------------------------
(* The calls.                                                               *)

\* What a call on a stream may rely on.
LEMMA ReadyStream ==
    ASSUME QueueInv, NEW s \in Streams, Ready(s)
    PROVE  /\ TypeOK /\ HostTypeOK /\ queue[s] \in NvCommandQueue
           /\ state[s] # "none" /\ Cursor(s) = 1 /\ (cpu' = cpu => Cursor(s)' = 1)
BY DEF QueueInv, TypeOK, HostTypeOK, Ready, Cursor, Idle

LEMMA LaunchFunctionLocalMem ==
    ASSUME QueueInv, LocalMemInv, OneStream, NEW s \in Streams, NEW f \in Funcs,
           NEW async \in BOOLEAN, LaunchFunction(s, f, async)
    PROVE  LocalMemInv'
<1>1. PICK prep : prep = Prepared(s, f, async)
  OBVIOUS
<1>2. PICK q, m, slot : q = prep.queue /\ m = prep.slm /\ slot = prep.queue.kernArgsWriteIdx
  OBVIOUS
<1>3. PICK launch : launch = [kind |-> "launch", op |-> <<s, Len(issued[s]) + 1>>,
                              slot |-> slot, need |-> LocalMemReq[f],
                              slm |-> q.currentSlmPerThread]
  OBVIOUS
<1>4. PICK taken, added, last : /\ taken = [q EXCEPT !.kernArgsWriteIdx = slot + 1]
                                /\ added = Enqueue(taken, launch, "COMPUTE")
                                /\ last = EndOp(added, s, async, "COMPUTE")
  OBVIOUS
<1>5. /\ Ready(s) /\ Len(issued[s]) < MaxOps
      /\ queue' = [queue EXCEPT ![s] = last] /\ slm' = m
      /\ UNCHANGED <<gpuVars, state, cpu>> /\ KernArgsFit(q)
  BY <1>1, <1>2, <1>3, <1>4 DEF LaunchFunction, MayLaunch
<1>6. /\ HostTypeOK /\ state[s] # "none" /\ Cursor(s) = 1 /\ Cursor(s)' = 1
  BY <1>5, ReadyStream
<1>7. Prepares(queue[s], slm, q, m) /\ LocalMemReq[f] <= LastSize(m.size)
  BY <1>1, <1>2, <1>6, PreparedPrepares DEF LocalMemInv, SizesKnown
<1>8. q \in NvCommandQueue
  BY <1>7 DEF Prepares
<1>9. slot \in 0..KernArgsSlots /\ slot + 1 \in 0..KernArgsSlots
  BY <1>2, <1>5, <1>8, FuncAssumption DEF KernArgsFit, NvCommandQueue
<1>10. Prepares(queue[s], slm, taken, m)
  BY <1>4, <1>7, <1>8, <1>9, ScalarsSteady, SteadyPrepares
<1>11. taken.currentSlmPerThread = q.currentSlmPerThread
  BY <1>7, <1>10 DEF Prepares
<1>12. launch \in Launches
  <2>1. <<s, Len(issued[s]) + 1>> \in Ops
    BY <1>5, <1>6, NextOpIsOp
  <2>2. LocalMemReq[f] \in Nat /\ q.currentSlmPerThread \in Nat /\ slot \in Nat
    BY <1>8, <1>9, FuncAssumption DEF NvCommandQueue
  <2> QED
    BY <1>3, <2>1, <2>2 DEF Launches
<1>13. m.size \in Seq(Nat)
  <2>1. slm.size \in Seq(Nat)
    BY <1>6 DEF HostTypeOK
  <2>2. m.size = slm.size \/ \E x \in Nat : m.size = Append(slm.size, x)
    BY <1>7 DEF Prepares
  <2>3. \A z \in Seq(Nat), x \in Nat : Append(z, x) \in Seq(Nat)
    OBVIOUS
  <2> QED
    BY <2>1, <2>2, <2>3
<1>14. Prepares(queue[s], slm, added, m)
  BY <1>3, <1>4, <1>7, <1>10, <1>11, <1>12, <1>13, LaunchPrepares
<1>15. Prepares(queue[s], slm, last, m)
  <2>1. added \in NvCommandQueue
    BY <1>14 DEF Prepares
  <2>2. Steady(added, last)
    BY <1>4, <2>1, EndOpSteady DEF QueueTypes
  <2> QED
    BY <1>14, <2>2, SteadyPrepares
<1> QED
  BY <1>5, <1>6, <1>15, PreparedKept

LEMMA LaunchFailsLateLocalMem ==
    ASSUME QueueInv, LocalMemInv, OneStream, NEW s \in Streams, NEW f \in Funcs,
           NEW async \in BOOLEAN, LaunchFailsLate(s, f, async)
    PROVE  LocalMemInv'
<1>1. PICK prep : prep = Prepared(s, f, async)
  OBVIOUS
<1>2. PICK q, m : q = prep.queue /\ m = prep.slm
  OBVIOUS
<1>3. PICK taken : taken = [q EXCEPT !.kernArgsWriteIdx = q.kernArgsWriteIdx + 1]
  OBVIOUS
<1>4. /\ Ready(s) /\ slm' = m /\ UNCHANGED <<gpuVars, state, cpu>>
      /\ \/ queue' = [queue EXCEPT ![s] = q]
         \/ KernArgsFit(q) /\ queue' = [queue EXCEPT ![s] = taken]
  BY <1>1, <1>2, <1>3 DEF LaunchFailsLate, MayLaunch
<1>5. /\ HostTypeOK /\ state[s] # "none" /\ Cursor(s) = 1 /\ Cursor(s)' = 1
  BY <1>4, ReadyStream
<1>6. Prepares(queue[s], slm, q, m)
  BY <1>1, <1>2, <1>5, PreparedPrepares DEF LocalMemInv, SizesKnown
<1>7. ASSUME KernArgsFit(q) PROVE Prepares(queue[s], slm, taken, m)
  <2>1. q \in NvCommandQueue
    BY <1>6 DEF Prepares
  <2>2. q.kernArgsWriteIdx + 1 \in 0..KernArgsSlots
    BY <1>7, <2>1, FuncAssumption DEF KernArgsFit, NvCommandQueue
  <2>3. Steady(q, taken)
    BY <1>3, <2>1, <2>2, ScalarsSteady
  <2> QED
    BY <1>6, <2>3, SteadyPrepares
<1> QED
  BY <1>4, <1>5, <1>6, <1>7, PreparedKept

\* gpuFree has nothing to refuse, and gpuAlloc refuses nothing.
LEMMA NoLocalMemFailure ==
    ASSUME LocalMemInv, NothingRefused, NEW s \in Streams, NEW f \in Funcs
    PROVE  ~LaunchFailsLocalMem(s, f)
BY DEF LaunchFailsLocalMem, LocalMemInv, SizesKnown, RegionsKept, FreeFails, NothingRefused

LEMMA GpuMemcpyLocalMem ==
    ASSUME QueueInv, LocalMemInv, OneStream, NEW s \in Streams, NEW async \in BOOLEAN,
           GpuMemcpy(s, async)
    PROVE  LocalMemInv'
<1>1. PICK copy : copy = [kind |-> "copy", op |-> <<s, Len(issued[s]) + 1>>]
  OBVIOUS
<1>2. PICK w, added, last : /\ w = SwitchTo(queue[s], "DMA")
                            /\ added = Enqueue(w, copy, "DMA")
                            /\ last = EndOp(added, s, async, "DMA")
  OBVIOUS
<1>3. /\ Ready(s) /\ Len(issued[s]) < MaxOps
      /\ queue' = [queue EXCEPT ![s] = last] /\ UNCHANGED <<gpuVars, state, slm, cpu>>
  BY <1>1, <1>2 DEF GpuMemcpy
<1>4. /\ HostTypeOK /\ queue[s] \in NvCommandQueue /\ "DMA" \in QueueTypes
      /\ state[s] # "none" /\ Cursor(s) = 1 /\ Cursor(s)' = 1
  BY <1>3, ReadyStream DEF QueueTypes
<1>5. copy \in Command /\ Calm(copy)
  BY <1>1, <1>3, <1>4, NextOpIsOp DEF Command, Copies, Calm
<1>6. Steady(queue[s], w) /\ w \in NvCommandQueue
  BY <1>2, <1>4, SwitchToSteady DEF Steady
<1>7. Steady(w, added) /\ added \in NvCommandQueue
  BY <1>2, <1>4, <1>5, <1>6, CalmSteady DEF Steady
<1>8. Steady(added, last)
  BY <1>2, <1>4, <1>7, EndOpSteady
<1>9. Steady(queue[s], last)
  BY <1>6, <1>7, <1>8, SteadyTransitive
<1> QED
  BY <1>3, <1>4, <1>9, SteadyKept

LEMMA RecordEventLocalMem ==
    ASSUME QueueInv, LocalMemInv, OneStream, NEW e \in Events, NEW s \in Streams,
           RecordEvent(e, s)
    PROVE  LocalMemInv'
<1>1. PICK t, obtained : t = RecordType(queue[s]) /\ obtained = ObtainSignal(e, s)
  OBVIOUS
<1>2. PICK q, last : /\ q = [queue[s] EXCEPT !.freeSignals = obtained.left,
                                             !.currentQueueType = t]
                     /\ last = SignalNotify(q, obtained.sig, 1, t)
  OBVIOUS
<1>3. /\ Ready(s) /\ obtained.sig # NULL
      /\ queue' = [queue EXCEPT ![s] = last] /\ UNCHANGED <<gpuVars, state, slm, cpu>>
  BY <1>1, <1>2 DEF RecordEvent
<1>4. /\ HostTypeOK /\ queue[s] \in NvCommandQueue
      /\ state[s] # "none" /\ Cursor(s) = 1 /\ Cursor(s)' = 1
  BY <1>3, ReadyStream
<1>5. /\ t \in QueueTypes /\ obtained.sig \in Signals
      /\ obtained.left \in Seq(0..(PoolSize - 1))
  BY <1>1, <1>3, <1>4, ObtainSignalTyped DEF RecordType, QueueTypes
<1>6. /\ q \in NvCommandQueue /\ q.buf = queue[s].buf /\ q.backlog = queue[s].backlog
      /\ q.currentSlmPerThread = queue[s].currentSlmPerThread
  BY <1>2, <1>4, <1>5 DEF NvCommandQueue
<1>7. Steady(queue[s], q)
  BY <1>6, SameLaneSteady
<1>8. Steady(q, last)
  BY <1>2, <1>5, <1>6, NotifySteady
<1>9. Steady(queue[s], last)
  BY <1>7, <1>8, SteadyTransitive
<1> QED
  BY <1>3, <1>4, <1>9, SteadyKept

LEMMA CommenceLocalMem ==
    ASSUME QueueInv, LocalMemInv, OneStream, NEW s \in Streams, Commence(s)
    PROVE  LocalMemInv'
<1>1. PICK t \in QueueTypes : t = queue[s].currentQueueType
  BY DEF Commence
<1>2. PICK q : q = [NotifyIfPending(queue[s], s, t) EXCEPT !.timelineNotifyPending = FALSE]
  OBVIOUS
<1>3. /\ Ready(s) /\ queue[s].backlog = <<>> /\ SubmitToFifo(s, q, t)
      /\ UNCHANGED <<state, slm, cpu>>
  BY <1>1, <1>2 DEF Commence
<1>4. /\ TypeOK /\ queue[s] \in NvCommandQueue
      /\ state'[s] # "none" /\ Cursor(s) = 1 /\ Cursor(s)' = 1
  BY <1>3, ReadyStream
<1>5. Steady(queue[s], q)
  BY <1>2, <1>4, NotifyIfPendingSteady
<1>6. q \in NvCommandQueue /\ q.backlog = <<>>
      /\ q.currentSlmPerThread = queue[s].currentSlmPerThread
  <2>1. q.backlog = queue[s].backlog
    BY <1>2, <1>4 DEF NotifyIfPending, SignalNotify, Enqueue, NvCommandQueue
  <2> QED
    BY <1>3, <1>5, <2>1 DEF Steady
<1>7. ASSUME NEW a \in Nat, Leads(queue[s], 1, a, Len(slm.size), slm.size)
      PROVE  \E n \in Nat : /\ HandsOver(q, t, a, n, slm.size)
                            /\ Leads(Emptied(q, t), 1, n, Len(slm.size), slm.size)
  BY <1>5, <1>6, <1>7, BufferHandedOver DEF Steady
<1>8. slm' = slm
  BY <1>3
<1> QED
  BY <1>3, <1>4, <1>6, <1>7, <1>8, SubmittedKept

LEMMA CommenceBacklogLocalMem ==
    ASSUME QueueInv, LocalMemInv, OneStream, NEW s \in Streams, CommenceBacklog(s)
    PROVE  LocalMemInv'
<1>1. PICK first, both : /\ first = BacklogCurrentCmdBuffer(queue[s], "COMPUTE")
                         /\ both = BacklogCurrentCmdBuffer(first, "DMA")
  OBVIOUS
<1>2. /\ Ready(s) /\ queue' = [queue EXCEPT ![s] = both] /\ UNCHANGED <<gpuVars, state, slm>>
      /\ cpu' = [at |-> "submit", stream |-> s, entry |-> 1]
  BY <1>1 DEF CommenceBacklog
<1>3. /\ HostTypeOK /\ queue[s] \in NvCommandQueue /\ state[s] # "none" /\ Cursor(s) = 1
  BY <1>2, ReadyStream
<1>4. Cursor(s)' = 1
  BY <1>2 DEF Cursor
<1>5. Steady(queue[s], first) /\ first \in NvCommandQueue
  BY <1>1, <1>3, BacklogSteady DEF Steady, QueueTypes
<1>6. Steady(first, both)
  BY <1>1, <1>5, BacklogSteady DEF QueueTypes
<1>7. Steady(queue[s], both)
  BY <1>5, <1>6, SteadyTransitive
<1> QED
  BY <1>2, <1>3, <1>4, <1>7, SteadyKept

\* initializeQueue submits what it has just put in the buffer.
LEMMA SetUpChannelSteady ==
    ASSUME NEW s \in Streams, NEW q \in NvCommandQueue, NEW t \in QueueTypes,
           SetUpChannel(s, q, t)
    PROVE  \E r : Steady(q, r) /\ r.backlog = q.backlog /\ SubmitToFifo(s, r, t)
<1>1. PICK next : next = AdvanceTimeline(q)
  OBVIOUS
<1>2. Steady(q, next) /\ next \in NvCommandQueue
  BY <1>1, ScalarsSteady DEF Steady
<1>3. PICK r : r = SignalNotify(next, Timeline(s), next.timelineCtr, t)
  OBVIOUS
<1>4. Steady(next, r)
  BY <1>2, <1>3, NotifySteady, TimelineIsSignal, QueueFields
<1>5. r.backlog = next.backlog /\ next.backlog = q.backlog
  BY <1>1, <1>2, <1>3 DEF SignalNotify, Enqueue, AdvanceTimeline, NvCommandQueue
<1>6. SubmitToFifo(s, r, t)
  BY <1>1, <1>3 DEF SetUpChannel
<1> QED
  BY <1>2, <1>4, <1>5, <1>6, SteadyTransitive

LEMMA StreamCreateLocalMem ==
    ASSUME QueueInv, LocalMemInv, OneStream, NEW s \in Streams, StreamCreate(s)
    PROVE  LocalMemInv'
<1>1. PICK type \in QueueTypes \cup {"OTHER"} : SetUpChannel(s, NewQueue(s, type), "COMPUTE")
  BY DEF StreamCreate
<1>2. PICK new : new = NewQueue(s, type)
  OBVIOUS
<1>3. /\ new \in NvCommandQueue /\ new.backlog = <<>> /\ new.buf["COMPUTE"] = <<>>
      /\ new.currentSlmPerThread = 0 /\ "COMPUTE" \in QueueTypes
  BY <1>2, NewQueueTakes DEF NewQueue, QueueTypes
<1>4. PICK q : Steady(new, q) /\ q.backlog = <<>> /\ SubmitToFifo(s, q, "COMPUTE")
  BY <1>1, <1>2, <1>3, SetUpChannelSteady
<1>5. /\ TypeOK /\ slm' = slm /\ state' = [state EXCEPT ![s] = "creating"]
      /\ state[s] = "none" /\ cpu = Idle /\ cpu' = [at |-> "initCompute", stream |-> s]
  BY DEF QueueInv, StreamCreate
<1>6. state'[s] # "none" /\ Cursor(s) = 1 /\ Cursor(s)' = 1
  BY <1>5 DEF TypeOK, HostTypeOK, Cursor, Idle
<1>7. /\ slm.size = <<>> /\ queue[s].backlog = <<>> /\ queue[s].buf["COMPUTE"] = <<>>
      /\ queue[s].currentSlmPerThread = 0
  BY <1>5 DEF LocalMemInv, SizesKnown, LastSize
<1>8. q \in NvCommandQueue /\ q.currentSlmPerThread = queue[s].currentSlmPerThread
  BY <1>3, <1>4, <1>7 DEF Steady
<1>9. ASSUME NEW a \in Nat, Leads(queue[s], 1, a, Len(slm.size), slm.size)
      PROVE  \E n \in Nat : /\ HandsOver(q, "COMPUTE", a, n, slm.size)
                            /\ Leads(Emptied(q, "COMPUTE"), 1, n, Len(slm.size), slm.size)
  <2>1. Leads(new, 1, a, Len(slm.size), slm.size)
    BY <1>3, <1>7, <1>9 DEF Leads
  <2>2. Leads(q, 1, a, Len(slm.size), slm.size)
    BY <1>4, <2>1 DEF Steady
  <2> QED
    BY <1>3, <1>4, <1>8, <2>2, BufferHandedOver
<1> QED
  BY <1>3, <1>4, <1>5, <1>6, <1>8, <1>9, SubmittedKept

LEMMA InitComputeReturnsLocalMem ==
    ASSUME QueueInv, LocalMemInv, OneStream, InitComputeReturns
    PROVE  LocalMemInv'
<1>1. PICK s \in Streams : s = cpu.stream
  BY CpuFields DEF QueueInv, TypeOK, InitComputeReturns
<1>2. /\ TypeOK /\ queue[s] \in NvCommandQueue /\ "DMA" \in QueueTypes
  BY DEF QueueInv, TypeOK, HostTypeOK, QueueTypes
<1>3. /\ SetUpChannel(s, queue[s], "DMA") /\ slm' = slm /\ state' = state
      /\ cpu.at = "initCompute" /\ cpu'.at = "initDma"
  BY <1>1 DEF InitComputeReturns
<1>4. PICK q : Steady(queue[s], q) /\ SubmitToFifo(s, q, "DMA")
  BY <1>2, <1>3, SetUpChannelSteady
<1>5. q \in NvCommandQueue /\ q.currentSlmPerThread = queue[s].currentSlmPerThread
  BY <1>4 DEF Steady
<1>6. Cursor(s) = 1 /\ Cursor(s)' = 1
  BY <1>3 DEF Cursor
<1>7. ASSUME NEW a \in Nat, Leads(queue[s], 1, a, Len(slm.size), slm.size)
      PROVE  \E n \in Nat : /\ HandsOver(q, "DMA", a, n, slm.size)
                            /\ Leads(Emptied(q, "DMA"), 1, n, Len(slm.size), slm.size)
  <2>1. Leads(q, 1, a, Len(slm.size), slm.size)
    BY <1>4, <1>7 DEF Steady
  <2>2. Leads(Emptied(q, "DMA"), 1, a, Len(slm.size), slm.size)
    BY <1>2, <1>5, <2>1, EmptiedFields DEF Leads, QueueTypes
  <2> QED
    BY <2>2 DEF HandsOver
<1>8. state'[s] # "none"
  BY <1>3 DEF LocalMemInv, SizesKnown
<1> QED
  BY <1>2, <1>3, <1>4, <1>5, <1>6, <1>7, <1>8, SubmittedKept

LEMMA SubmitEntryLocalMem ==
    ASSUME QueueInv, LocalMemInv, OneStream, SubmitEntry
    PROVE  LocalMemInv'
<1>1. PICK s \in Streams : s = cpu.stream
  BY LoadedTyped DEF SubmitEntry
<1>2. PICK e : e = cpu.entry
  OBVIOUS
<1>3. PICK piece : piece = queue[s].backlog[e]
  OBVIOUS
<1>4. piece \in Split
  <2>1. queue[s] \in NvCommandQueue
    BY DEF QueueInv, TypeOK, HostTypeOK
  <2>2. e \in Nat \ {0} /\ e <= Len(queue[s].backlog)
    BY <1>1, <1>2, CpuFields DEF QueueInv, TypeOK, CursorInBacklog, SubmitEntry
  <2>3. e \in DOMAIN queue[s].backlog
    BY <2>1, <2>2, QueueFields
  <2> QED
    BY <1>3, <2>1, <2>3, QueueFields
<1>5. PICK t \in QueueTypes : t = piece.type
  BY <1>4 DEF Split
<1>6. PICK q : q = Loaded(s, piece)
  OBVIOUS
<1>7. /\ SubmitToFifo(s, q, t) /\ slm' = slm /\ state' = state
      /\ cpu.at = "submit" /\ cpu' = [cpu EXCEPT !.at = "wait"]
  BY <1>1, <1>2, <1>3, <1>5, <1>6 DEF SubmitEntry
<1>8. TypeOK /\ HostTypeOK /\ queue[s] \in NvCommandQueue
  BY DEF QueueInv, TypeOK, HostTypeOK
<1>9. q \in NvCommandQueue
  BY <1>1, <1>2, <1>3, <1>4, <1>5, <1>6, <1>7, LoadedFields
<1>10. q.currentSlmPerThread = queue[s].currentSlmPerThread
  BY <1>6, <1>8 DEF Loaded, SignalNotify, Enqueue, NvCommandQueue
<1>11. Cursor(s) = e /\ Cursor(s)' = e + 1
  BY <1>1, <1>2, <1>7, <1>8, CursorAdvances
<1>12. ASSUME NEW a \in Nat, Leads(queue[s], e, a, Len(slm.size), slm.size)
       PROVE  \E n \in Nat : /\ HandsOver(q, t, a, n, slm.size)
                             /\ Leads(Emptied(q, t), e + 1, n, Len(slm.size), slm.size)
  BY <1>1, <1>2, <1>3, <1>4, <1>5, <1>6, <1>7, <1>12, PieceHandedOver
<1>13. state'[s] # "none"
  BY <1>7 DEF LocalMemInv, SizesKnown
<1> QED
  BY <1>7, <1>8, <1>9, <1>10, <1>11, <1>12, <1>13, SubmittedKept

\* After the last piece nothing of the backlog is left to lead anywhere.
LEMMA CommenceReturnsLocalMem ==
    ASSUME QueueInv, LocalMemInv, OneStream, CommenceReturns
    PROVE  LocalMemInv'
<1>1. /\ cpu.at = "wait" /\ cpu' = Idle /\ UNCHANGED <<gpuVars, state, slm>>
  BY DEF CommenceReturns, EntryReached
<1>2. PICK s \in Streams : s = cpu.stream
  BY <1>1, CpuFields DEF QueueInv, TypeOK
<1>3. PICK q, r : q = queue[s] /\ r = [queue[s] EXCEPT !.backlog = <<>>]
  OBVIOUS
<1>4. queue' = [queue EXCEPT ![s] = r] /\ cpu.entry = Len(q.backlog)
  BY <1>2, <1>3 DEF CommenceReturns
<1>5. HostTypeOK /\ q \in NvCommandQueue /\ Len(q.backlog) \in Nat
  BY <1>3, QueueFields DEF QueueInv, TypeOK, HostTypeOK
<1>6. /\ r.backlog = <<>> /\ r.buf = q.buf
      /\ r.currentSlmPerThread = q.currentSlmPerThread
  BY <1>3, <1>5 DEF NvCommandQueue
<1>7. Cursor(s) = Len(q.backlog) + 1 /\ Cursor(s)' = 1
  BY <1>1, <1>2, <1>4 DEF Cursor, Idle
<1>8. queue'[s] = r /\ \A x \in Streams : x = s
  BY <1>4, <1>5 DEF HostTypeOK, OneStream
<1>9. PICK z : z = slm.size
  OBVIOUS
<1>10. PICK n \in Nat : /\ Walk(fifo["COMPUTE"], 1, localMem, n, CommandSteps(z))
                        /\ Leads(q, Len(q.backlog) + 1, n, Len(z), z)
  BY <1>3, <1>7, <1>9 DEF LocalMemInv, RegionsInOrder
<1>11. Leads(r, 1, n, Len(z), z)
  <2>1. PICK m \in Nat : /\ Walk(q.backlog, Len(q.backlog) + 1, n, m, PieceSteps(z))
                         /\ Walk(q.buf["COMPUTE"], 1, m, Len(z), CommandSteps(z))
    BY <1>10 DEF Leads
  <2>2. n = m
    BY <1>5, <2>1, WalkPastEnd
  <2>3. Walk(r.backlog, 1, n, n, PieceSteps(z))
    BY <1>6, EmptyWalk
  <2> QED
    BY <1>6, <2>1, <2>2, <2>3 DEF Leads
<1>12. slm' = slm /\ fifo' = fifo /\ localMem' = localMem /\ running' = running
  BY <1>1 DEF gpuVars
<1>13. RegionsInOrder'
  <2>1. \A x \in Streams : Leads(queue'[x], Cursor(x)', n, Len(z), z)
    BY <1>7, <1>8, <1>11
  <2> QED
    BY <1>9, <1>10, <1>12, <2>1 DEF RegionsInOrder
<1>14. state[s] # "none" /\ state' = state
  BY <1>1 DEF LocalMemInv, SizesKnown
<1>15. KernelsServed' /\ SizesKnown'
  BY <1>3, <1>6, <1>8, <1>12, <1>14 DEF LocalMemInv, KernelsServed, SizesKnown, RegionsKept
<1> QED
  BY <1>13, <1>15 DEF LocalMemInv

LEMMA NextEntryLocalMem ==
    ASSUME QueueInv, LocalMemInv, OneStream, NextEntry
    PROVE  LocalMemInv'
<1>1. /\ cpu.at = "wait" /\ UNCHANGED <<gpuVars, state, slm, queue>>
      /\ cpu' = [cpu EXCEPT !.at = "submit", !.entry = cpu.entry + 1]
  BY DEF NextEntry, EntryReached
<1>2. cpu \in [at : {"submit", "wait"}, stream : Streams, entry : Nat \ {0}]
  BY <1>1 DEF QueueInv, TypeOK, HostTypeOK, CpuState, Idle
<1>3. cpu'.at = "submit" /\ cpu'.stream = cpu.stream /\ cpu'.entry = cpu.entry + 1
  BY <1>1, <1>2
<1>4. \A s \in Streams : Cursor(s)' = Cursor(s)
  BY <1>1, <1>3 DEF Cursor
<1>5. \A s \in Streams : state'[s] # "none"
  BY <1>1 DEF LocalMemInv, SizesKnown
<1> QED
  BY <1>1, <1>4, <1>5, QuietLocalMem

LEMMA AwaitReturnsLocalMem ==
    ASSUME QueueInv, LocalMemInv, OneStream, AwaitReturns
    PROVE  LocalMemInv'
<1>1. /\ cpu.at = "await" /\ cpu' = Idle /\ UNCHANGED <<gpuVars, state, slm>>
  BY DEF AwaitReturns
<1>2. PICK s \in Streams : s = cpu.stream
  BY <1>1, CpuFields DEF QueueInv, TypeOK
<1>3. HostTypeOK /\ queue[s] \in NvCommandQueue /\ 0 \in 0..KernArgsSlots
  BY FuncAssumption DEF QueueInv, TypeOK, HostTypeOK
<1>4. PICK r : r = [queue[s] EXCEPT !.kernArgsWriteIdx = 0]
  OBVIOUS
<1>5. queue' = [queue EXCEPT ![s] = r]
  BY <1>2, <1>4 DEF AwaitReturns
<1>6. Steady(queue[s], r)
  BY <1>3, <1>4, ScalarsSteady
<1>7. Cursor(s) = 1 /\ Cursor(s)' = 1 /\ state[s] # "none"
  BY <1>1 DEF Cursor, Idle, LocalMemInv, SizesKnown
<1> QED
  BY <1>1, <1>3, <1>5, <1>6, <1>7, SteadyKept

\* The other calls and returns.
LEMMA QuietCallsLocalMem ==
    ASSUME QueueInv, LocalMemInv, OneStream,
           \/ \E s \in Streams : StreamDestroy(s) \/ Await(s)
           \/ \E s \in Streams, e \in Events : RecordEventFails(e, s)
           \/ \E e \in Events : EventSynchronize(e) \/ EventDestroy(e)
           \/ InitDmaReturns \/ EventSynchronizeReturns
    PROVE  LocalMemInv'
<1>1. UNCHANGED <<gpuVars, queue, slm>>
  BY DEF StreamDestroy, Await, RecordEventFails, EventSynchronize, EventDestroy,
         InitDmaReturns, EventSynchronizeReturns
<1>2. cpu.at \notin {"submit", "wait"} /\ cpu'.at \notin {"submit", "wait"}
  BY DEF StreamDestroy, Await, RecordEventFails, EventSynchronize, EventDestroy,
         InitDmaReturns, EventSynchronizeReturns, Ready, Idle
<1>3. \A x \in Streams : Cursor(x)' = Cursor(x)
  BY <1>2, CursorAtRest
<1>4. ASSUME NEW x \in Streams, state'[x] = "none"
      PROVE  state[x] = "none" /\ cpu'.at \in {"idle", "waitEvent"}
  <2>1. CASE \E s \in Streams : StreamDestroy(s)
    BY <1>4, <2>1 DEF QueueInv, TypeOK, HostTypeOK, StreamDestroy, OneStream
  <2>2. CASE \E s \in Streams : Await(s)
    BY <1>4, <2>2 DEF Await, Ready, OneStream
  <2>3. CASE \E s \in Streams, e \in Events : RecordEventFails(e, s)
    BY <1>4, <2>3 DEF RecordEventFails, Ready, Idle
  <2>4. CASE \E e \in Events : EventSynchronize(e) \/ EventDestroy(e)
    BY <1>4, <2>4 DEF EventSynchronize, EventDestroy, Idle
  <2>5. CASE InitDmaReturns
    <3>1. cpu.stream \in Streams
      BY <2>5, CpuFields DEF QueueInv, TypeOK, InitDmaReturns
    <3> QED
      BY <1>4, <2>5, <3>1 DEF InitDmaReturns, QueueInv, TypeOK, HostTypeOK, OneStream
  <2>6. CASE EventSynchronizeReturns
    BY <1>4, <2>6 DEF EventSynchronizeReturns, Idle
  <2> QED
    BY <2>1, <2>2, <2>3, <2>4, <2>5, <2>6
<1> QED
  BY <1>1, <1>3, <1>4, QuietLocalMem

-----------------------------------------------------------------------------
(* The compute channel.                                                     *)

\* Its next command takes its step; a kernel finds the region it needs.
LEMMA ComputeCommandTaken ==
    ASSUME TypeOK, LocalMemInv, fifo["COMPUTE"] # <<>>, Take("COMPUTE"),
           UNCHANGED <<queue, cpu, slm>>,
           localMem' = IF Head(fifo["COMPUTE"]).kind = "localMem"
                         THEN Head(fifo["COMPUTE"]).region ELSE localMem
    PROVE  RegionsInOrder' /\ Enough(Head(fifo["COMPUTE"]), localMem, slm.size)
<1>1. PICK f, z : f = fifo["COMPUTE"] /\ z = slm.size
  OBVIOUS
<1>2. f \in Seq(Command) /\ f # <<>> /\ fifo'["COMPUTE"] = Tail(f)
  BY <1>1 DEF TypeOK, GpuTypeOK, Take, QueueTypes
<1>3. PICK m \in Nat : /\ Walk(f, 1, localMem, m, CommandSteps(z))
                       /\ \A s \in Streams : Leads(queue[s], Cursor(s), m, Len(z), z)
  BY <1>1 DEF LocalMemInv, RegionsInOrder
<1>4. PICK n \in Nat : /\ <<Head(f), localMem, n>> \in CommandSteps(z)
                       /\ Walk(Tail(f), 1, n, m, CommandSteps(z))
  BY <1>2, <1>3, TailWalk
<1>5. /\ Enough(Head(f), localMem, z)
      /\ n = IF Head(f).kind = "localMem" THEN Head(f).region ELSE localMem
  BY <1>4 DEF CommandSteps
<1>6. localMem' = n
  BY <1>1, <1>5
<1>7. \A s \in Streams : Cursor(s)' = Cursor(s)
  BY DEF Cursor
<1>8. RegionsInOrder'
  BY <1>1, <1>2, <1>3, <1>4, <1>6, <1>7 DEF RegionsInOrder
<1> QED
  BY <1>1, <1>5, <1>8

LEMMA GpuStepLocalMem ==
    ASSUME QueueInv, LocalMemInv, GpuStep
    PROVE  LocalMemInv'
<1>1. TypeOK /\ "COMPUTE" \in QueueTypes /\ "DMA" \in QueueTypes
  BY DEF QueueInv, QueueTypes
<1>2. UNCHANGED <<queue, cpu, slm, state>>
  BY DEF GpuStep, hostVars
<1>3. SizesKnown'
  BY <1>2 DEF LocalMemInv, SizesKnown, RegionsKept
<1>4. ASSUME fifo'["COMPUTE"] = fifo["COMPUTE"], localMem' = localMem
      PROVE  RegionsInOrder'
  <2>1. \A s \in Streams : Cursor(s)' = Cursor(s)
    BY <1>2 DEF Cursor
  <2> QED
    BY <1>2, <1>4, <2>1 DEF LocalMemInv, RegionsInOrder
<1>5. ASSUME \A task \in running'["COMPUTE"] :
                 \/ task \in running["COMPUTE"]
                 \/ task.cmd.kind = "launch" /\ Enough(task.cmd, task.region, slm.size)
      PROVE  KernelsServed'
  BY <1>2, <1>5 DEF LocalMemInv, KernelsServed
<1>6. CASE StartKernel
  <2>1. PICK task : task = [cmd |-> Head(fifo["COMPUTE"]), region |-> localMem]
    OBVIOUS
  <2>2. /\ fifo["COMPUTE"] # <<>> /\ Head(fifo["COMPUTE"]).kind = "launch" /\ Take("COMPUTE")
        /\ localMem' = localMem
        /\ running' = [running EXCEPT !["COMPUTE"] = running["COMPUTE"] \cup {task}]
    BY <1>6, <2>1 DEF StartKernel, NextIs, Begin
  <2>3. RegionsInOrder' /\ Enough(Head(fifo["COMPUTE"]), localMem, slm.size)
    BY <1>1, <1>2, <2>2, ComputeCommandTaken
  <2>4. running'["COMPUTE"] = running["COMPUTE"] \cup {task}
    BY <1>1, <2>2 DEF TypeOK, GpuTypeOK
  <2>5. task.cmd.kind = "launch" /\ Enough(task.cmd, task.region, slm.size)
    BY <2>1, <2>2, <2>3
  <2> QED
    BY <1>3, <1>5, <2>3, <2>4, <2>5 DEF LocalMemInv
<1>7. CASE Acquire \/ SetLocalMem \/ Release("COMPUTE")
  <2>1. /\ fifo["COMPUTE"] # <<>> /\ Take("COMPUTE") /\ running' = running
        /\ localMem' = IF Head(fifo["COMPUTE"]).kind = "localMem"
                         THEN Head(fifo["COMPUTE"]).region ELSE localMem
    BY <1>7 DEF Acquire, SetLocalMem, Release, NextIs
  <2>2. RegionsInOrder'
    BY <1>1, <1>2, <2>1, ComputeCommandTaken
  <2> QED
    BY <1>3, <1>5, <2>1, <2>2 DEF LocalMemInv
<1>8. CASE StartCopy \/ Release("DMA")
  <2>1. /\ Take("DMA") /\ localMem' = localMem
        /\ \/ running' = running
           \/ \E task : running' = [running EXCEPT !["DMA"] = running["DMA"] \cup {task}]
    BY <1>8 DEF StartCopy, Release, Begin
  <2>2. fifo'["COMPUTE"] = fifo["COMPUTE"]
    BY <1>1, <2>1 DEF TypeOK, GpuTypeOK, Take
  <2>3. running'["COMPUTE"] = running["COMPUTE"]
    BY <1>1, <2>1 DEF TypeOK, GpuTypeOK
  <2> QED
    BY <1>3, <1>4, <1>5, <2>1, <2>2, <2>3 DEF LocalMemInv
<1>9. CASE \E c \in QueueTypes : Finish(c)
  <2>1. PICK c \in QueueTypes : Finish(c)
    BY <1>9
  <2>2. PICK task : running' = [running EXCEPT ![c] = running[c] \ {task}]
    BY <2>1 DEF Finish
  <2>3. fifo' = fifo /\ localMem' = localMem
    BY <2>1 DEF Finish
  <2>4. running'["COMPUTE"] \subseteq running["COMPUTE"]
    BY <1>1, <2>2 DEF TypeOK, GpuTypeOK
  <2> QED
    BY <1>3, <1>4, <1>5, <2>3, <2>4 DEF LocalMemInv
<1> QED
  BY <1>6, <1>7, <1>8, <1>9 DEF GpuStep, GpuNext, ComputeTakes, DmaTakes

LEMMA LocalMemStep ==
    ASSUME OneStream, NothingRefused, QueueInv, LocalMemInv, [Next]_vars
    PROVE  LocalMemInv'
<1>1. CASE GpuStep
  BY <1>1, GpuStepLocalMem
<1>2. CASE Return
  BY <1>2, InitComputeReturnsLocalMem, SubmitEntryLocalMem, NextEntryLocalMem,
     CommenceReturnsLocalMem, AwaitReturnsLocalMem, QuietCallsLocalMem DEF Return
<1>3. CASE SubmitEntryFails
  BY <1>3 DEF SubmitEntryFails, NothingRefused
<1>4. ASSUME NEW s \in Streams, Call(s) PROVE LocalMemInv'
  <2>1. CASE StreamCreate(s) \/ StreamCreateFails(s) \/ StreamDestroy(s)
    BY <2>1, StreamCreateLocalMem, QuietCallsLocalMem DEF StreamCreateFails, NothingRefused
  <2>2. ASSUME NEW f \in Funcs, LaunchFailsLocalMem(s, f) PROVE LocalMemInv'
    BY <2>2, NoLocalMemFailure
  <2>3. ASSUME NEW f \in Funcs, NEW async \in BOOLEAN,
               LaunchFunction(s, f, async) \/ LaunchFailsLate(s, f, async)
        PROVE  LocalMemInv'
    BY <2>3, LaunchFunctionLocalMem, LaunchFailsLateLocalMem
  <2>4. ASSUME NEW async \in BOOLEAN, GpuMemcpy(s, async) PROVE LocalMemInv'
    BY <2>4, GpuMemcpyLocalMem
  <2>5. ASSUME NEW e \in Events, RecordEvent(e, s) \/ RecordEventFails(e, s)
        PROVE  LocalMemInv'
    BY <2>5, RecordEventLocalMem, QuietCallsLocalMem
  <2>6. CASE Commence(s) \/ CommenceBacklog(s)
    BY <2>6, CommenceLocalMem, CommenceBacklogLocalMem
  <2>7. CASE CommenceFails(s)
    BY <2>7 DEF CommenceFails, NothingRefused
  <2>8. CASE Await(s)
    BY <2>8, QuietCallsLocalMem
  <2> QED
    BY <1>4, <2>1, <2>2, <2>3, <2>4, <2>5, <2>6, <2>7, <2>8 DEF Call
<1>5. CASE \E e \in Events : EventSynchronize(e) \/ EventDestroy(e)
  BY <1>5, QuietCallsLocalMem
<1>6. CASE UNCHANGED vars
  <2>1. UNCHANGED <<gpuVars, queue, slm, cpu, state>>
    BY <1>6 DEF vars, hostVars
  <2>2. ASSUME NEW s \in Streams
        PROVE  /\ Cursor(s)' = Cursor(s)
               /\ state'[s] = "none" => state[s] = "none" /\ cpu'.at \in {"idle", "waitEvent"}
    BY <2>1 DEF Cursor, LocalMemInv, SizesKnown
  <2> QED
    BY <2>1, <2>2, QuietLocalMem
<1> QED
  BY <1>1, <1>2, <1>3, <1>4, <1>5, <1>6 DEF Next, Exit

LEMMA LocalMemInit == Init => LocalMemInv
<1> SUFFICES ASSUME Init PROVE LocalMemInv
  OBVIOUS
<1>1. /\ fifo["COMPUTE"] = <<>> /\ running["COMPUTE"] = {} /\ localMem = 0
      /\ slm.size = <<>> /\ slm.freed = {} /\ \A f \in Funcs : slm.va[f] = 0
  BY DEF Init, GpuInit, QueueTypes
<1>2. \A s \in Streams : /\ queue[s].backlog = <<>> /\ queue[s].buf["COMPUTE"] = <<>>
                         /\ queue[s].currentSlmPerThread = 0
  BY DEF Init, NewQueue, QueueTypes
<1>3. cpu.at = "idle" /\ \A s \in Streams : Cursor(s) = 1
  BY DEF Init, Idle, Cursor
<1>4. LastSize(<<>>) = 0 /\ Len(<<>>) = 0
  BY DEF LastSize
<1>5. RegionsInOrder
  <2>1. Walk(fifo["COMPUTE"], 1, localMem, 0, CommandSteps(slm.size))
    BY <1>1, EmptyWalk
  <2>2. ASSUME NEW s \in Streams PROVE Leads(queue[s], Cursor(s), 0, Len(slm.size), slm.size)
    <3>1. /\ Walk(<<>>, 1, 0, 0, PieceSteps(slm.size))
          /\ Walk(<<>>, 1, 0, 0, CommandSteps(slm.size))
      BY EmptyWalk
    <3> QED
      BY <1>1, <1>2, <1>3, <1>4, <3>1 DEF Leads
  <2> QED
    BY <2>1, <2>2 DEF RegionsInOrder
<1>6. KernelsServed
  BY <1>1 DEF KernelsServed
<1>7. SizesKnown
  BY <1>1, <1>2, <1>3, <1>4 DEF SizesKnown, RegionsKept
<1> QED
  BY <1>5, <1>6, <1>7 DEF LocalMemInv

LEMMA InvLocalMemAdequate == QueueInv /\ LocalMemInv => LocalMemAdequate
<1> SUFFICES ASSUME QueueInv, LocalMemInv, NEW task \in running["COMPUTE"], task.cmd.need > 0
             PROVE  /\ task.region \in DOMAIN slm.size
                    /\ task.region \notin slm.freed
                    /\ task.cmd.need <= task.cmd.slm
                    /\ task.cmd.slm <= slm.size[task.region]
  BY DEF LocalMemAdequate
<1>1. task.cmd.kind = "launch" /\ Enough(task.cmd, task.region, slm.size) /\ slm.freed = {}
  BY DEF LocalMemInv, KernelsServed, SizesKnown, RegionsKept
<1> QED
  BY <1>1 DEF Enough

\* In a program with one stream, as long as gpuAlloc and submitToFifo succeed,
\* a kernel that needs local memory runs with a region configured that is large
\* enough for what its QMD announces and that is not freed, whichever kernels and
\* copies are issued in between and however the calls are batched
\* (LocalMemAdequate; ensureEnoughLocalMem, cmdqueue.cpp:403-454).
THEOREM LocalMemorySuffices ==
    OneStream /\ NothingRefused => (Spec => []LocalMemAdequate)
<1> SUFFICES ASSUME OneStream, NothingRefused PROVE Spec => []LocalMemAdequate
  OBVIOUS
<1>1. Init => QueueInv /\ LocalMemInv
  BY QueueInit, LocalMemInit
<1>2. QueueInv /\ LocalMemInv /\ [Next]_vars => (QueueInv /\ LocalMemInv)'
  BY QueueStep, LocalMemStep
<1> QED
  BY <1>1, <1>2, InvLocalMemAdequate, PTL DEF Spec
=============================================================================
