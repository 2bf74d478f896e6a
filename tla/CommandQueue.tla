---------------------------- MODULE CommandQueue ----------------------------
(***************************************************************************)
(* LibreCUDA's streams: driverapi/src/cmdqueue.cpp, the class              *)
(* NvCommandQueue behind every LibreCUstream, driven by one application    *)
(* thread through the libreCuStream / libreCuEvent / libreCuLaunchKernel   *)
(* calls of driverapi/src/librecuda.cpp.                                   *)
(*                                                                         *)
(* A queue has one command buffer per channel.  Operations append to them; *)
(* Commence hands them to the GPU.  A buffer of one type that is followed  *)
(* by an operation of the other type moves to a backlog, and Commence      *)
(* plays the backlog back, waiting on the CPU after each piece.            *)
(***************************************************************************)
EXTENDS Gpu

CONSTANTS
    NULL,           \* nullptr
    Funcs,          \* kernels of the program's modules
    LocalMemReq,    \* [Funcs -> Nat]: LibreCUFunction_.local_mem_req, in bytes
    Events,         \* the LibreCUEvents of the program
    KernArgsSlots,  \* launches that fit in the kernargs page
    CtrModulus,     \* the timeline counter wraps here (2^32 in the code)
    ClientRules,    \* what the program promises, see below
    Faults,         \* the errors that may occur, see below
    MaxRecords,     \* bound: libreCuEventRecord calls
    MaxFailures     \* bound: calls that report an error

(***************************************************************************)
(* Rules a program may follow; the tests under tests/ follow all of them.  *)
(***************************************************************************)
Rules == {"await before switch",    \* never commences work of one type and
                                    \* enqueues the other type un-awaited
          "commence before await",  \* never waits for work not yet commenced
          "await before destroy",   \* never destroys a stream with work left
          "record once"}            \* never records an event twice

\* Errors: "submit" of submitToFifo, "alloc" of gpuAlloc, "launch" for a launch
\* whose image has no constant bank 0 or whose dimensions are out of range.

ASSUME StreamAssumption == MaxOps \in Nat /\ PoolSize \in Nat \ {0} /\ NULL \notin Signals \cup Streams
ASSUME FuncAssumption == LocalMemReq \in [Funcs -> Nat] /\ KernArgsSlots \in Nat
ASSUME CtrAssumption == CtrModulus \in Nat \ {0, 1, 2}
ASSUME RulesAssumption == ClientRules \subseteq Rules
ASSUME FaultAssumption == Faults \subseteq {"submit", "alloc", "launch"}
ASSUME BoundAssumption == {MaxRecords, MaxFailures} \subseteq Nat

VARIABLES
    state,      \* [Streams -> {"none", "creating", "failed", "alive", "destroyed"}]
    queue,      \* [Streams -> NvCommandQueue]
    slm,        \* local memory: the VA each function holds, sizes, freed VAs
    events,     \* [Events -> LibreCUEvent_]
    cpu,        \* where the application thread is inside a blocking call
    records,    \* libreCuEventRecord calls made
    failures,   \* calls that reported an error
    \* History of the run, read by the properties and the program's rules.
    issued,     \* [Streams -> Seq(OpKind)]: operations enqueued
    unawaited,  \* [Streams -> SUBSET QueueTypes]: commenced, not yet awaited
    awaited,    \* [Streams -> Nat]: operations the last StreamAwait covered
    kernArgs,   \* [Streams -> [slot -> operation]]: whose arguments it holds
    mark        \* [Events -> [after, nth]]: what its last record followed

hostVars == <<state, queue, slm, events, cpu, records, failures,
              issued, unawaited, awaited, kernArgs, mark>>
vars == <<gpuVars, hostVars>>

OpKind == [type : QueueTypes, async : BOOLEAN]
Slots == 0..(KernArgsSlots - 1)
Counter == 0..(CtrModulus - 1)

Split == [buf : Seq(Command), type : QueueTypes, timelineCtr : Counter,
          timelineNotifyPending : BOOLEAN]

\* currentQueueType is never initialised: at creation it may be anything.
NvCommandQueue ==
    [buf : [QueueTypes -> Seq(Command)],
     backlog : Seq(Split),
     timelineCtr : Counter,
     timelineNotifyPending : BOOLEAN,
     currentQueueType : QueueTypes \cup {"OTHER"},
     freeSignals : Seq(0..(PoolSize - 1)),
     kernArgsWriteIdx : 0..KernArgsSlots,
     currentSlmPerThread : Nat]

LibreCUEvent ==
    [stream : Streams \cup {NULL},
     computeSignal : Signals \cup {NULL},
     dmaSignal : Signals \cup {NULL}]

Idle == [at |-> "idle"]
CpuState ==
    {Idle}
    \cup [at : {"submit", "wait"}, stream : Streams, entry : Nat \ {0}]
    \cup [at : {"await", "initCompute", "initDma"}, stream : Streams]
    \cup [at : {"waitEvent"}, event : Events]

HostTypeOK ==
    /\ state \in [Streams -> {"none", "creating", "failed", "alive", "destroyed"}]
    /\ queue \in [Streams -> NvCommandQueue]
    /\ slm \in [va : [Funcs -> Nat], size : Seq(Nat), freed : SUBSET Nat]
    /\ events \in [Events -> LibreCUEvent]
    /\ cpu \in CpuState
    /\ records \in Nat
    /\ failures \in Nat
    /\ issued \in [Streams -> Seq(OpKind)]
    /\ unawaited \in [Streams -> SUBSET QueueTypes]
    /\ awaited \in [Streams -> Nat]
    /\ kernArgs \in [Streams -> [Slots -> Nat]]
    /\ mark \in [Events -> [after : Nat, nth : Nat]]

\* Every variable holds what the code's declarations allow: the counter stays
\* inside NvU32, the kernargs index inside its page, only known commands are
\* buffered or submitted (cmdqueue.h:51-155).
TypeOK == GpuTypeOK /\ HostTypeOK

-----------------------------------------------------------------------------
(* Operations on one queue's buffers: each maps a queue to a queue.        *)

Other(t) == IF t = "COMPUTE" THEN "DMA" ELSE "COMPUTE"

EnqueueFirst(q, cmd, t) == [q EXCEPT !.buf[t] = <<cmd>> \o @]  \* mutant
Enqueue(q, cmd, t) == [q EXCEPT !.buf[t] = Append(@, cmd)]

SignalNotify(q, sig, target, t) ==
    Enqueue(q, [kind |-> "release", sig |-> sig, payload |-> target], t)

WaitsTooFar(q, sig, target) ==                                 \* mutant
    Enqueue(q, [kind |-> "acquire", sig |-> sig, payload |-> target + 1], "COMPUTE")

\* The CPU looks at the signal once; only if it differs must the GPU wait.
SignalWaitGpu(q, sig, target) ==
    IF value[sig] = target
      THEN q
      ELSE Enqueue(q, [kind |-> "acquire", sig |-> sig, payload |-> target], "COMPUTE")

ClearsBuffer(q, t) == [q EXCEPT !.buf[t] = <<>>]               \* mutant
BacklogCurrentCmdBuffer(q, t) ==
    IF q.buf[t] = <<>>
      THEN q
      ELSE [q EXCEPT
              !.backlog = Append(@, [buf |-> q.buf[t], type |-> t,
                                     timelineCtr |-> q.timelineCtr,
                                     timelineNotifyPending |-> q.timelineNotifyPending]),
              !.buf[t] = <<>>,
              !.timelineNotifyPending = FALSE]

SwitchesAtOnce(q, t) == [q EXCEPT !.currentQueueType = t]      \* mutant

\* The head of launchFunction and of gpuMemcpy.
SwitchTo(q, t) ==
    LET type == IF q.buf[Other(t)] = <<>> THEN t ELSE q.currentQueueType
    IN  IF type = Other(t)
          THEN [BacklogCurrentCmdBuffer(q, Other(t)) EXCEPT !.currentQueueType = t]
          ELSE [q EXCEPT !.currentQueueType = type]

FrozenTimeline(q) == q                                         \* mutant
AdvanceTimeline(q) == [q EXCEPT !.timelineCtr = (@ + 1) % CtrModulus]

\* The tail of launchFunction and of gpuMemcpy: a synchronous operation
\* releases the timeline itself, an asynchronous one leaves it to Commence.
EndOp(q, s, async, t) ==
    LET next == AdvanceTimeline(q)
    IN  IF async
          THEN [next EXCEPT !.timelineNotifyPending = TRUE]
          ELSE [SignalNotify(next, Timeline(s), next.timelineCtr, t)
                  EXCEPT !.timelineNotifyPending = FALSE]

NotifiesNever(q, s, t) == q                                    \* mutant
NotifyIfPending(q, s, t) ==
    IF q.timelineNotifyPending
      THEN SignalNotify(q, Timeline(s), q.timelineCtr, t)
      ELSE q

WaitsForNothing(q, s, async) == q                              \* mutant

\* A synchronous launch first waits for what is before it in its stream.
WaitForPrevious(q, s, async) ==
    IF async
      THEN q
      ELSE SignalWaitGpu([NotifyIfPending(q, s, "COMPUTE")
                            EXCEPT !.timelineNotifyPending = FALSE],
                         Timeline(s), q.timelineCtr)

-----------------------------------------------------------------------------
(* Shader local memory: a region belongs to the function it was allocated  *)
(* for, while currentSlmPerThread belongs to the queue.                    *)

CeilDiv(a, b) == (a + b - 1) \div b
RoundUp(a, b) == CeilDiv(a, b) * b

FirstTimeOnly(q, f) == LocalMemReq[f] > 0 /\ q.currentSlmPerThread = 0\* mutant
NeedsLocalMem(q, f) == LocalMemReq[f] > q.currentSlmPerThread

\* gpuFree knows only addresses that are allocated.
FreeFails(f) == slm.va[f] \in slm.freed

Freed(f) == slm.freed \cup ({slm.va[f]} \ {0})

GrownSlm(q, f) == [q EXCEPT !.currentSlmPerThread = RoundUp(LocalMemReq[f], 32)]

\* ensureEnoughLocalMem, when nothing in it fails.
EnsureEnoughLocalMem(q, f) ==
    IF NeedsLocalMem(q, f)
      THEN [queue |-> Enqueue(GrownSlm(q, f),
                              [kind |-> "localMem", region |-> Len(slm.size) + 1],
                              "COMPUTE"),
            slm |-> [va |-> [slm.va EXCEPT ![f] = Len(slm.size) + 1],
                     size |-> Append(slm.size, RoundUp(LocalMemReq[f], 32)),
                     freed |-> Freed(f)]]
      ELSE [queue |-> q, slm |-> slm]

-----------------------------------------------------------------------------
(* What the program promises: guards on its calls.                         *)

Batch(s) == queue[s].backlog # <<>> \/ \E t \in QueueTypes : queue[s].buf[t] # <<>>

Ready(s) == state[s] = "alive" /\ cpu = Idle

MayEnqueue(s, t) ==
    "await before switch" \in ClientRules => Batch(s) \/ unawaited[s] \subseteq {t}

MayWait(s) == "commence before await" \in ClientRules => ~Batch(s)

MayDestroy(s) ==
    "await before destroy" \in ClientRules => ~Batch(s) /\ unawaited[s] = {}

MayRecord(e) == "record once" \in ClientRules => mark[e].nth = 0

MayFail == failures < MaxFailures
Fails == failures' = failures + 1

-----------------------------------------------------------------------------
(* Creating and destroying a stream.                                       *)

NewQueue(s, type) ==
    [buf |-> [t \in QueueTypes |-> <<>>],
     backlog |-> <<>>,
     timelineCtr |-> 0,
     timelineNotifyPending |-> FALSE,
     currentQueueType |-> type,
     freeSignals |-> [i \in 1..(PoolSize - 1) |-> i],
     kernArgsWriteIdx |-> 0,
     currentSlmPerThread |-> 0]

SubmitsAndKeeps(s, q, t) ==                                    \* mutant
    /\ fifo' = [fifo EXCEPT ![t] = @ \o q.buf[t]]
    /\ queue' = [queue EXCEPT ![s] = q]
    /\ UNCHANGED <<running, done, value, stamp, clock, localMem>>

\* startExecution(QueueType), when submitToFifo succeeds.
SubmitToFifo(s, q, t) ==
    /\ fifo' = [fifo EXCEPT ![t] = @ \o q.buf[t]]
    /\ queue' = [queue EXCEPT ![s] = [q EXCEPT !.buf[t] = <<>>]]
    /\ UNCHANGED <<running, done, value, stamp, clock, localMem>>

\* initializeQueue sets up one channel: SET_OBJECT, then a timeline release.
SetUpChannel(s, q, t) ==
    LET next == AdvanceTimeline(q)
    IN  SubmitToFifo(s, SignalNotify(next, Timeline(s), next.timelineCtr, t), t)

\* libreCuStreamCreate up to the first wait in initializeQueue.
StreamCreate(s) ==
    /\ state[s] = "none" /\ cpu = Idle
    /\ \E type \in QueueTypes \cup {"OTHER"} :
          SetUpChannel(s, NewQueue(s, type), "COMPUTE")
    /\ state' = [state EXCEPT ![s] = "creating"]
    /\ cpu' = [at |-> "initCompute", stream |-> s]
    /\ UNCHANGED <<slm, events, records, failures,
                   issued, unawaited, awaited, kernArgs, mark>>

AlmostReached(s) == value[Timeline(s)] + 1 >= queue[s].timelineCtr\* mutant
SignalReached(s) == value[Timeline(s)] >= queue[s].timelineCtr

InitComputeReturns ==
    /\ cpu.at = "initCompute"
    /\ SignalReached(cpu.stream)
    /\ SetUpChannel(cpu.stream, queue[cpu.stream], "DMA")
    /\ cpu' = [at |-> "initDma", stream |-> cpu.stream]
    /\ UNCHANGED <<state, slm, events, records, failures,
                   issued, unawaited, awaited, kernArgs, mark>>

\* The last step of initializeQueue allocates the kernargs page.
InitDmaReturns ==
    /\ cpu.at = "initDma"
    /\ SignalReached(cpu.stream)
    /\ state' = [state EXCEPT ![cpu.stream] = "alive"]
    /\ cpu' = Idle
    /\ UNCHANGED <<gpuVars, queue, slm, events, records, failures,
                   issued, unawaited, awaited, kernArgs, mark>>

\* The queue, its pages and its signals are never used again, and never freed.
StreamCreateFails(s) ==
    /\ "alloc" \in Faults /\ MayFail
    /\ \/ state[s] = "none" /\ cpu = Idle
       \/ cpu = [at |-> "initDma", stream |-> s] /\ SignalReached(s)
    /\ state' = [state EXCEPT ![s] = "failed"]
    /\ cpu' = Idle
    /\ Fails
    /\ UNCHANGED <<gpuVars, queue, slm, events, records,
                   issued, unawaited, awaited, kernArgs, mark>>

\* libreCuStreamDestroy: the destructor frees the command and kernargs pages.
StreamDestroy(s) ==
    /\ Ready(s)
    /\ MayDestroy(s)
    /\ state' = [state EXCEPT ![s] = "destroyed"]
    /\ UNCHANGED <<gpuVars, queue, slm, events, cpu, records, failures,
                   issued, unawaited, awaited, kernArgs, mark>>

-----------------------------------------------------------------------------
(* Enqueueing operations.                                                  *)

\* Everything launchFunction does before it looks at the image and arguments.
Prepared(s, f, async) ==
    LET mem == EnsureEnoughLocalMem(SwitchTo(queue[s], "COMPUTE"), f)
    IN  [mem EXCEPT !.queue = WaitForPrevious(@, s, async)]

\* allocKernArgs has room left in the page.
KernArgsOneTooMany(q) == q.kernArgsWriteIdx <= KernArgsSlots   \* mutant
KernArgsFit(q) == q.kernArgsWriteIdx < KernArgsSlots

MayLaunch(s) == Ready(s) /\ MayEnqueue(s, "COMPUTE") /\ Len(issued[s]) < MaxOps

\* Its arguments go into the kernargs page at once, the launch into the buffer.
LaunchFunction(s, f, async) ==
    LET prep == Prepared(s, f, async)
        slot == prep.queue.kernArgsWriteIdx
        nth == Len(issued[s]) + 1
        launch == [kind |-> "launch", op |-> <<s, nth>>, slot |-> slot,
                   need |-> LocalMemReq[f],
                   slm |-> prep.queue.currentSlmPerThread]
        launched == Enqueue([prep.queue EXCEPT !.kernArgsWriteIdx = @ + 1],
                            launch, "COMPUTE")
    IN  /\ MayLaunch(s)
        /\ NeedsLocalMem(queue[s], f) => ~FreeFails(f)
        /\ KernArgsFit(prep.queue)
        /\ queue' = [queue EXCEPT ![s] = EndOp(launched, s, async, "COMPUTE")]
        /\ slm' = prep.slm
        /\ kernArgs' = [kernArgs EXCEPT ![s][slot] = nth]
        /\ issued' = [issued EXCEPT
                         ![s] = Append(@, [type |-> "COMPUTE", async |-> async])]
        /\ UNCHANGED <<gpuVars, state, events, cpu, records, failures,
                       unawaited, awaited, mark>>

\* ensureEnoughLocalMem reports an error: of gpuFree, before it changed
\* anything, or of gpuAlloc, after it raised currentSlmPerThread.
LaunchFailsLocalMem(s, f) ==
    LET q == SwitchTo(queue[s], "COMPUTE")
    IN  /\ MayLaunch(s) /\ MayFail
        /\ NeedsLocalMem(q, f)
        /\ \/ /\ FreeFails(f)
              /\ queue' = [queue EXCEPT ![s] = q]
              /\ UNCHANGED slm
           \/ /\ ~FreeFails(f)
              /\ "alloc" \in Faults
              /\ queue' = [queue EXCEPT ![s] = GrownSlm(q, f)]
              /\ slm' = [slm EXCEPT !.freed = Freed(f)]
        /\ Fails
        /\ UNCHANGED <<gpuVars, state, events, cpu, records,
                       issued, unawaited, awaited, kernArgs, mark>>

\* A launch that fails later leaves its preparations in the buffer: the image
\* has no constant bank 0, the kernargs page is full, or, with a slot already
\* taken and written, an argument size or a dimension is out of range.
LaunchFailsLate(s, f, async) ==
    LET prep == Prepared(s, f, async)
        slot == prep.queue.kernArgsWriteIdx
    IN  /\ MayLaunch(s) /\ MayFail
        /\ NeedsLocalMem(queue[s], f) => ~FreeFails(f)
        /\ slm' = prep.slm
        /\ \/ /\ "launch" \in Faults \/ ~KernArgsFit(prep.queue)
              /\ queue' = [queue EXCEPT ![s] = prep.queue]
              /\ UNCHANGED kernArgs
           \/ /\ "launch" \in Faults /\ KernArgsFit(prep.queue)
              /\ queue' = [queue EXCEPT
                              ![s] = [prep.queue EXCEPT !.kernArgsWriteIdx = @ + 1]]
              /\ kernArgs' = [kernArgs EXCEPT ![s][slot] = 0]
        /\ Fails
        /\ UNCHANGED <<gpuVars, state, events, cpu, records,
                       issued, unawaited, awaited, mark>>

GpuMemcpy(s, async) ==
    LET copy == [kind |-> "copy", op |-> <<s, Len(issued[s]) + 1>>]
    IN  /\ Ready(s)
        /\ MayEnqueue(s, "DMA")
        /\ Len(issued[s]) < MaxOps
        /\ queue' = [queue EXCEPT
              ![s] = EndOp(Enqueue(SwitchTo(@, "DMA"), copy, "DMA"), s, async, "DMA")]
        /\ issued' = [issued EXCEPT
                         ![s] = Append(@, [type |-> "DMA", async |-> async])]
        /\ UNCHANGED <<gpuVars, state, slm, events, cpu, records, failures,
                       unawaited, awaited, kernArgs, mark>>

-----------------------------------------------------------------------------
(* Events.  One that is recorded in both modes holds a signal for each.    *)

NewEvent == [stream |-> NULL, computeSignal |-> NULL, dmaSignal |-> NULL]

RecordType(q) == IF q.currentQueueType = "DMA" THEN "DMA" ELSE "COMPUTE"

\* The signal a record of e on s uses: the one e holds, or a free one of s.
ObtainSignal(e, s) ==
    LET held == IF RecordType(queue[s]) = "DMA"
                  THEN events[e].dmaSignal ELSE events[e].computeSignal
        free == queue[s].freeSignals
    IN  IF held # NULL THEN [sig |-> held, left |-> free]
        ELSE IF free = <<>> THEN [sig |-> NULL, left |-> free]
        ELSE [sig |-> <<s, Head(free)>>, left |-> Tail(free)]

RecordEvent(e, s) ==
    LET t == RecordType(queue[s])
        obtained == ObtainSignal(e, s)
        q == [queue[s] EXCEPT !.freeSignals = obtained.left,
                              !.currentQueueType = t]
    IN  /\ Ready(s) /\ MayRecord(e)
        /\ records < MaxRecords
        /\ obtained.sig # NULL
        /\ queue' = [queue EXCEPT ![s] = SignalNotify(q, obtained.sig, 1, t)]
        /\ events' = [events EXCEPT ![e] =
              IF t = "DMA" THEN [@ EXCEPT !.stream = s, !.dmaSignal = obtained.sig]
                           ELSE [@ EXCEPT !.stream = s, !.computeSignal = obtained.sig]]
        /\ mark' = [mark EXCEPT ![e] = [after |-> Len(issued[s]), nth |-> records + 1]]
        /\ records' = records + 1
        /\ UNCHANGED <<gpuVars, state, slm, cpu, failures,
                       issued, unawaited, awaited, kernArgs>>

\* The pool is empty; the event has already been given its stream.
RecordEventFails(e, s) ==
    /\ Ready(s) /\ MayRecord(e) /\ MayFail
    /\ ObtainSignal(e, s).sig = NULL
    /\ events' = [events EXCEPT ![e].stream = s]
    /\ Fails
    /\ UNCHANGED <<gpuVars, state, queue, slm, cpu, records,
                   issued, unawaited, awaited, kernArgs, mark>>

\* waitForEvent and getEventTimestamp prefer the compute signal.
EventSignal(e) ==
    IF events[e].computeSignal # NULL THEN events[e].computeSignal
                                      ELSE events[e].dmaSignal

EventIgnored(e) == value[EventSignal(e)] >= 0                  \* mutant
EventReached(e) == value[EventSignal(e)] >= 1

\* libreCuEventSynchronize, up to its wait.
EventSynchronize(e) ==
    /\ cpu = Idle
    /\ events[e].stream # NULL
    /\ state[events[e].stream] = "alive"
    /\ EventSignal(e) # NULL
    /\ MayWait(events[e].stream)
    /\ cpu' = [at |-> "waitEvent", event |-> e]
    /\ UNCHANGED <<gpuVars, state, queue, slm, events, records, failures,
                   issued, unawaited, awaited, kernArgs, mark>>

EventSynchronizeReturns ==
    /\ cpu.at = "waitEvent"
    /\ EventReached(cpu.event)
    /\ cpu' = Idle
    /\ UNCHANGED <<gpuVars, state, queue, slm, events, records, failures,
                   issued, unawaited, awaited, kernArgs, mark>>

\* libreCuEventDestroy deletes the event; its signals stay claimed.
EventDestroy(e) ==
    /\ cpu = Idle
    /\ events[e] # NewEvent
    /\ events' = [events EXCEPT ![e] = NewEvent]
    /\ mark' = [mark EXCEPT ![e] = [after |-> 0, nth |-> 0]]
    /\ UNCHANGED <<gpuVars, state, queue, slm, cpu, records, failures,
                   issued, unawaited, awaited, kernArgs>>

-----------------------------------------------------------------------------
(* Commencing and awaiting.                                                *)

\* startExecution() with no backlog: the other buffer is validated empty, the
\* current one is submitted.
Commence(s) ==
    LET t == queue[s].currentQueueType
        q == [NotifyIfPending(queue[s], s, t) EXCEPT !.timelineNotifyPending = FALSE]
    IN  /\ Ready(s)
        /\ queue[s].backlog = <<>>
        /\ t \in QueueTypes
        /\ queue[s].buf[Other(t)] = <<>>
        /\ SubmitToFifo(s, q, t)
        /\ unawaited' = [unawaited EXCEPT
                            ![s] = IF q.buf[t] = <<>> THEN @ ELSE @ \cup {t}]
        /\ UNCHANGED <<state, slm, events, cpu, records, failures,
                       issued, awaited, kernArgs, mark>>

\* submitToFifo reports an error: the buffer keeps the release just added.
CommenceFails(s) ==
    LET t == queue[s].currentQueueType
    IN  /\ Ready(s) /\ MayFail /\ "submit" \in Faults
        /\ queue[s].backlog = <<>>
        /\ t \in QueueTypes
        /\ queue[s].buf[Other(t)] = <<>>
        /\ queue[s].buf[t] # <<>>
        /\ queue' = [queue EXCEPT ![s] = NotifyIfPending(@, s, t)]
        /\ Fails
        /\ UNCHANGED <<gpuVars, state, slm, events, cpu, records,
                       issued, unawaited, awaited, kernArgs, mark>>

\* startExecution() with a backlog: what is in the buffers joins it, then each
\* piece is submitted and waited for.
CommenceBacklog(s) ==
    /\ Ready(s)
    /\ queue[s].backlog # <<>>
    /\ queue' = [queue EXCEPT
          ![s] = BacklogCurrentCmdBuffer(BacklogCurrentCmdBuffer(@, "COMPUTE"), "DMA")]
    /\ cpu' = [at |-> "submit", stream |-> s, entry |-> 1]
    /\ UNCHANGED <<gpuVars, state, slm, events, records, failures,
                   issued, unawaited, awaited, kernArgs, mark>>

\* The entry becomes the command buffer of its type, with the timeline release
\* it still lacks.
Loaded(s, entry) ==
    LET q == [queue[s] EXCEPT !.buf[entry.type] = entry.buf]
    IN  IF entry.timelineNotifyPending
          THEN SignalNotify(q, Timeline(s), entry.timelineCtr, entry.type)
          ELSE q

SubmitEntry ==
    /\ cpu.at = "submit"
    /\ LET s == cpu.stream
           entry == queue[s].backlog[cpu.entry]
       IN  SubmitToFifo(s, Loaded(s, entry), entry.type)
    /\ cpu' = [cpu EXCEPT !.at = "wait"]
    /\ UNCHANGED <<state, slm, events, records, failures,
                   issued, unawaited, awaited, kernArgs, mark>>

\* startExecution returns at once: the backlog and the loaded buffer remain.
SubmitEntryFails ==
    /\ cpu.at = "submit" /\ MayFail /\ "submit" \in Faults
    /\ LET s == cpu.stream
       IN  queue' = [queue EXCEPT ![s] = Loaded(s, queue[s].backlog[cpu.entry])]
    /\ cpu' = Idle
    /\ Fails
    /\ UNCHANGED <<gpuVars, state, slm, events, records,
                   issued, unawaited, awaited, kernArgs, mark>>

EntryNotAwaited == cpu.at = "wait"                             \* mutant
EntryReached ==
    cpu.at = "wait" /\ LET s == cpu.stream
                       IN value[Timeline(s)] >= queue[s].backlog[cpu.entry].timelineCtr

NextEntry ==
    /\ EntryReached
    /\ cpu.entry < Len(queue[cpu.stream].backlog)
    /\ cpu' = [cpu EXCEPT !.at = "submit", !.entry = @ + 1]
    /\ UNCHANGED <<gpuVars, state, queue, slm, events, records, failures,
                   issued, unawaited, awaited, kernArgs, mark>>

\* After the last piece the backlog is cleared; nothing is left to await.
CommenceReturns ==
    /\ EntryReached
    /\ cpu.entry = Len(queue[cpu.stream].backlog)
    /\ queue' = [queue EXCEPT ![cpu.stream].backlog = <<>>]
    /\ unawaited' = [unawaited EXCEPT ![cpu.stream] = {}]
    /\ cpu' = Idle
    /\ UNCHANGED <<gpuVars, state, slm, events, records, failures,
                   issued, awaited, kernArgs, mark>>

\* libreCuStreamAwait, up to its wait.
Await(s) ==
    /\ Ready(s)
    /\ MayWait(s)
    /\ cpu' = [at |-> "await", stream |-> s]
    /\ UNCHANGED <<gpuVars, state, queue, slm, events, records, failures,
                   issued, unawaited, awaited, kernArgs, mark>>

AwaitReturns ==
    /\ cpu.at = "await"
    /\ SignalReached(cpu.stream)
    /\ queue' = [queue EXCEPT ![cpu.stream].kernArgsWriteIdx = 0]
    /\ unawaited' = [unawaited EXCEPT ![cpu.stream] = {}]
    /\ awaited' = [awaited EXCEPT ![cpu.stream] = Len(issued[cpu.stream])]
    /\ cpu' = Idle
    /\ UNCHANGED <<gpuVars, state, slm, events, records, failures,
                   issued, kernArgs, mark>>

-----------------------------------------------------------------------------

Init ==
    /\ GpuInit
    /\ state = [s \in Streams |-> "none"]
    /\ queue = [s \in Streams |-> NewQueue(s, "OTHER")]
    /\ slm = [va |-> [f \in Funcs |-> 0], size |-> <<>>, freed |-> {}]
    /\ events = [e \in Events |-> NewEvent]
    /\ cpu = Idle
    /\ records = 0
    /\ failures = 0
    /\ issued = [s \in Streams |-> <<>>]
    /\ unawaited = [s \in Streams |-> {}]
    /\ awaited = [s \in Streams |-> 0]
    /\ kernArgs = [s \in Streams |-> [i \in Slots |-> 0]]
    /\ mark = [e \in Events |-> [after |-> 0, nth |-> 0]]

\* The GPU at work while the application thread is anywhere.
GpuStep == GpuNext /\ UNCHANGED hostVars

\* A program that has destroyed its streams may stop.
Exit ==
    /\ cpu = Idle
    /\ \A s \in Streams : state[s] \in {"failed", "destroyed"}
    /\ UNCHANGED vars

Call(s) ==
    \/ StreamCreate(s) \/ StreamCreateFails(s) \/ StreamDestroy(s)
    \/ \E f \in Funcs :
          \/ LaunchFailsLocalMem(s, f)
          \/ \E async \in BOOLEAN :
                LaunchFunction(s, f, async) \/ LaunchFailsLate(s, f, async)
    \/ \E async \in BOOLEAN : GpuMemcpy(s, async)
    \/ \E e \in Events : RecordEvent(e, s) \/ RecordEventFails(e, s)
    \/ Commence(s) \/ CommenceFails(s) \/ CommenceBacklog(s) \/ Await(s)

Return ==
    \/ InitComputeReturns \/ InitDmaReturns
    \/ SubmitEntry \/ NextEntry \/ CommenceReturns
    \/ AwaitReturns \/ EventSynchronizeReturns

Next ==
    \/ GpuStep
    \/ Return
    \/ SubmitEntryFails
    \/ \E s \in Streams : Call(s)
    \/ \E e \in Events : EventSynchronize(e) \/ EventDestroy(e)
    \/ Exit

Spec == Init /\ [][Next]_vars

\* The channels keep taking commands, every kernel and copy ends, and a call
\* that can continue does, because the CPU spins.
FairSpec ==
    /\ Spec
    /\ WF_vars(ComputeTakes /\ UNCHANGED hostVars)
    /\ WF_vars(DmaTakes /\ UNCHANGED hostVars)
    /\ \A c \in QueueTypes : WF_vars(Finish(c) /\ UNCHANGED hostVars)
    /\ WF_vars(Return)

-----------------------------------------------------------------------------
(* Correctness.                                                            *)

Elements(seq) == {seq[i] : i \in DOMAIN seq}
IsWork(cmd) == cmd.kind \in {"launch", "copy"}

Executing == UNION {{task.cmd : task \in running[c]} : c \in QueueTypes}
Started == done \cup {cmd.op : cmd \in Executing}
Submitted == UNION {Elements(fifo[c]) : c \in QueueTypes}
Buffered(s) ==
    UNION ({Elements(queue[s].buf[t]) : t \in QueueTypes}
           \cup {Elements(split.buf) : split \in Elements(queue[s].backlog)})

Order == INSTANCE StreamOrder WITH started <- Started

\* The queues, buffers, channels and signals together implement the abstract
\* stream: operations take effect in the order of the calls, whichever channel
\* they use, and StreamAwait returns only after all of them (librecuda.h:104-105).
ImplementsStreamOrder == Order!Spec

\* No kernel or copy starts before the operations it must follow are complete:
\* splitting the buffers keeps the order of the calls (cmdqueue.h:47-50).
InOrder == Order!InOrder

\* A stream whose timeline signal has met its counter has nothing pending
\* (cmdqueue.h:114-115, relied upon by signalWaitGpu, cmdqueue.cpp:870-876).
IdleWhenEqual ==
    \A s \in Streams :
        state[s] = "alive" /\ value[Timeline(s)] = queue[s].timelineCtr
            => \A i \in 1..Len(issued[s]) : <<s, i>> \in done

\* The timeline signal only moves forward: no release of an older target lands
\* after a newer one, from whichever channel (cmdqueue.h:108-117).
TimelineAdvances ==
    [][\A s \in Streams : value'[Timeline(s)] >= value[Timeline(s)]]_vars

\* The validations of startExecution never fail: with no backlog, the buffer
\* of the other type is empty (cmdqueue.cpp:847-864).
OneBufferInUse ==
    \A s \in Streams :
        Ready(s) /\ queue[s].backlog = <<>> =>
            \A t \in QueueTypes :
                queue[s].buf[t] # <<>> => queue[s].currentQueueType = t

\* Every operation is handed to a channel at most once, and not again once it
\* has started (the loop of startExecution, cmdqueue.cpp:826-845).
NoReplay ==
    \A c \in QueueTypes : \A i \in DOMAIN fifo[c] :
        IsWork(fifo[c][i]) =>
            /\ fifo[c][i].op \notin Started
            /\ \A j \in DOMAIN fifo[c] :
                  IsWork(fifo[c][j]) /\ fifo[c][j].op = fifo[c][i].op => i = j

\* No operation of a live stream is dropped on its way: until it starts it is in
\* a buffer, in the backlog or in a channel, also after a Commence that reported
\* an error half-way (startExecution, cmdqueue.cpp:788-867).
NothingForgotten ==
    \A s \in Streams : \A i \in 1..Len(issued[s]) :
        state[s] = "alive" =>
            \/ <<s, i>> \in Started
            \/ \E cmd \in Submitted \cup Buffered(s) : IsWork(cmd) /\ cmd.op = <<s, i>>

\* As long as a kernel is buffered, submitted or running, the kernargs page
\* holds its arguments: awaitExecution resets the page no earlier
\* (cmdqueue.cpp:188-198, 275).
KernArgsIntact ==
    \A cmd \in Submitted \cup Executing \cup UNION {Buffered(s) : s \in Streams} :
        cmd.kind = "launch" => kernArgs[cmd.op[1]][cmd.slot] = cmd.op[2]

\* A kernel that needs local memory starts with a region configured that is
\* large enough for what its QMD announces, and that stays allocated while the
\* kernel runs (ensureEnoughLocalMem, cmdqueue.cpp:403-454).
LocalMemAdequate ==
    \A task \in running["COMPUTE"] :
        task.cmd.need > 0 =>
            /\ task.region \in DOMAIN slm.size
            /\ task.region \notin slm.freed
            /\ task.cmd.need <= task.cmd.slm
            /\ task.cmd.slm <= slm.size[task.region]

\* Once a stream is destroyed, and its command and kernargs pages are freed, the
\* GPU has none of its kernels, copies or timeline releases left
\* (~NvCommandQueue, cmdqueue.cpp:257-270).
NoWorkAfterDestroy ==
    \A s \in Streams : state[s] = "destroyed" =>
        \A cmd \in Submitted \cup Executing :
            /\ IsWork(cmd) => cmd.op[1] # s
            /\ cmd.kind = "release" => cmd.sig # Timeline(s)

\* EventSynchronize returns only after everything that was enqueued before the
\* event was last recorded (waitForEvent, cmdqueue.cpp:928-940).
EventSyncSound ==
    [][cpu.at = "waitEvent" /\ cpu' = Idle =>
          \A i \in 1..mark[cpu.event].after :
              <<events[cpu.event].stream, i>> \in done]_vars

\* getEventTimestamp has an answer for e.
Hit(e) == EventSignal(e) # NULL /\ value[EventSignal(e)] = 1

\* An event counts as hit only when what preceded its record is complete: until
\* then getEventTimestamp answers NOT_READY, "event was not hit yet"
\* (cmdqueue.cpp:942-953).
HitMeansReached ==
    \A e \in Events :
        Hit(e) => \A i \in 1..mark[e].after : <<events[e].stream, i>> \in done

RecordedBefore(e, f) ==
    /\ events[e].stream # NULL
    /\ events[e].stream = events[f].stream
    /\ mark[e].nth < mark[f].nth

\* libreCuEventElapsedTime(e, f) is not negative when e was recorded before f
\* on the same stream and in the same queue mode (librecuda.cpp:1638-1649).
SameModeElapsedTime ==
    \A e, f \in Events :
        (/\ RecordedBefore(e, f) /\ Hit(e) /\ Hit(f)
         /\ (events[e].computeSignal = NULL) <=> (events[f].computeSignal = NULL))
            => stamp[EventSignal(e)] <= stamp[EventSignal(f)]

\* Every blocking call returns: StreamCreate, StreamCommence, StreamAwait and
\* EventSynchronize spin on signals the GPU does reach (cmdqueue.cpp:334-357).
BlockingCallsReturn == []<>(cpu = Idle)

\* What has been submitted completes, even if the program never waits for it:
\* no channel stays blocked on an acquire (signalWaitGpu, cmdqueue.cpp:870-894).
SubmittedCompletes ==
    \A o \in Ops : (\E cmd \in Submitted : IsWork(cmd) /\ cmd.op = o) ~> o \in done
=============================================================================
