-------------------------------- MODULE Gpu --------------------------------
(***************************************************************************)
(* The GPU as the command queues of LibreCUDA see it (external: its        *)
(* behaviour is taken from the methods that driverapi/src/cmdqueue.cpp     *)
(* sends and from what that code relies on).                               *)
(*                                                                         *)
(* A context owns one compute and one DMA channel, shared by every stream. *)
(* A channel takes its commands strictly in order:                         *)
(*   - a launch (SEND_PCAS) starts a kernel and does not wait for it, so   *)
(*     kernels of the compute channel overlap;                             *)
(*   - a copy (NON_PIPELINED) waits for the copy before it;                *)
(*   - a release waits until the channel is idle (WFI), then writes the    *)
(*     signal's value and its time stamp;                                  *)
(*   - an acquire blocks the channel until the value EQUALS the payload;   *)
(*   - SET_SHADER_LOCAL_MEMORY replaces the region later kernels use.      *)
(* The two channels run concurrently.                                      *)
(***************************************************************************)
EXTENDS Naturals, Sequences

CONSTANTS
    Streams,    \* the streams a program may create
    MaxOps,     \* bound: operations enqueued on one stream
    PoolSize    \* NvSignals in the pool of one stream

VARIABLES
    fifo,       \* [QueueTypes -> Seq(Command)]: submitted, not yet taken
    running,    \* [QueueTypes -> SUBSET Task]: kernels and copies executing
    done,       \* operations that have completed
    value,      \* [Signals -> Nat]: NvSignal.value
    stamp,      \* [Signals -> Nat]: NvSignal.time_stamp
    clock,      \* the time the GPU stamps with
    localMem    \* the shader local memory region configured, 0 if none

gpuVars == <<fifo, running, done, value, stamp, clock, localMem>>

QueueTypes == {"COMPUTE", "DMA"}

\* An operation is the i-th kernel or copy enqueued on a stream.
Ops == Streams \X (1..MaxOps)

\* Each stream owns a pool of signals; obtainSignal hands out 0 first.
Signals == Streams \X (0..(PoolSize - 1))
SharedTimeline(s) == <<CHOOSE any \in Streams : TRUE, 0>>     \* mutant
Timeline(s) == <<s, 0>>

Launches == [kind : {"launch"}, op : Ops, slot : Nat, need : Nat, slm : Nat]
Copies == [kind : {"copy"}, op : Ops]
Releases == [kind : {"release"}, sig : Signals, payload : Nat]
Acquires == [kind : {"acquire"}, sig : Signals, payload : Nat]
LocalMemSets == [kind : {"localMem"}, region : Nat]
Command == Launches \cup Copies \cup Releases \cup Acquires \cup LocalMemSets

\* Work the GPU executes, with the local memory region it started with.
Task == [cmd : Launches \cup Copies, region : Nat]

GpuTypeOK ==
    /\ fifo \in [QueueTypes -> Seq(Command)]
    /\ running \in [QueueTypes -> SUBSET Task]
    /\ done \in SUBSET Ops
    /\ value \in [Signals -> Nat]
    /\ stamp \in [Signals -> Nat]
    /\ clock \in Nat
    /\ localMem \in Nat

GpuInit ==
    /\ fifo = [c \in QueueTypes |-> <<>>]
    /\ running = [c \in QueueTypes |-> {}]
    /\ done = {}
    /\ value = [g \in Signals |-> 0]
    /\ stamp = [g \in Signals |-> 0]
    /\ clock = 0
    /\ localMem = 0

-----------------------------------------------------------------------------

\* The channel's next command is of this kind.
NextIs(c, kind) == fifo[c] # <<>> /\ Head(fifo[c]).kind = kind

Take(c) == fifo' = [fifo EXCEPT ![c] = Tail(@)]

Begin(c) ==
    /\ Take(c)
    /\ running' = [running EXCEPT
                      ![c] = @ \cup {[cmd |-> Head(fifo[c]), region |-> localMem]}]
    /\ UNCHANGED <<done, value, stamp, clock, localMem>>

StartKernel == NextIs("COMPUTE", "launch") /\ Begin("COMPUTE")

StartCopy == NextIs("DMA", "copy") /\ running["DMA"] = {} /\ Begin("DMA")

Finish(c) ==
    \E task \in running[c] :
        /\ running' = [running EXCEPT ![c] = @ \ {task}]
        /\ done' = done \cup {task.cmd.op}
        /\ UNCHANGED <<fifo, value, stamp, clock, localMem>>

\* RELEASE_WFI: a release waits for the work before it.
WithoutWfi(c) == TRUE                                          \* mutant
ChannelIdle(c) == running[c] = {}

\* Only the stamps of event signals are ever read; the clock ticks for those.
Release(c) ==
    /\ NextIs(c, "release")
    /\ ChannelIdle(c)
    /\ LET g == Head(fifo[c]).sig
       IN /\ value' = [value EXCEPT ![g] = Head(fifo[c]).payload]
          /\ IF \E s \in Streams : g = Timeline(s)
               THEN UNCHANGED <<stamp, clock>>
               ELSE /\ clock' = clock + 1
                    /\ stamp' = [stamp EXCEPT ![g] = clock + 1]
    /\ Take(c)
    /\ UNCHANGED <<running, done, localMem>>

Acquire ==
    /\ NextIs("COMPUTE", "acquire")
    /\ value[Head(fifo["COMPUTE"]).sig] = Head(fifo["COMPUTE"]).payload
    /\ Take("COMPUTE")
    /\ UNCHANGED <<running, done, value, stamp, clock, localMem>>

SetLocalMem ==
    /\ NextIs("COMPUTE", "localMem")
    /\ localMem' = Head(fifo["COMPUTE"]).region
    /\ Take("COMPUTE")
    /\ UNCHANGED <<running, done, value, stamp, clock>>

\* What each channel's front end does with its next command.
ComputeTakes == StartKernel \/ Acquire \/ SetLocalMem \/ Release("COMPUTE")
DmaTakes == StartCopy \/ Release("DMA")

GpuNext == ComputeTakes \/ DmaTakes \/ \E c \in QueueTypes : Finish(c)
=============================================================================
