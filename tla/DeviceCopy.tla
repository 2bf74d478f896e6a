----------------------------- MODULE DeviceCopy -----------------------------
(***************************************************************************)
(* libreCuMemCpy of driverapi/src/librecuda.cpp and memcpyD2D of           *)
(* driverapi/src/memcopy.cpp, on top of a stream: a copy between buffers   *)
(* of the device is cut into up to three kernels of                        *)
(* kernels/memcpy/memcpy.cu, any other copy is one DMA operation.  The     *)
(* stream is what StreamOrder promises, which CommandQueue implements;     *)
(* the blocks of a kernel that has started run in any order, between those *)
(* of the kernels that run beside it.                                      *)
(***************************************************************************)
EXTENDS Naturals, FiniteSets, Sequences

CONSTANTS
    DeviceBuffers, HostBuffers,     \* what programs copy between
    BufferSize,     \* bytes of each that the model looks at
    Word,           \* sizeof(uint32_t), MEMCPY_FINISH_BYTE_GRANULARITY
    Block,          \* MEMCPY_BLOCK_SIZE: threads of a block
    Granule,        \* MEMCPY_HIGHBW_BYTE_GRANULARITY: bytes of a HighBW block
    HighFrom,       \* larger copies start with the HighBW kernel (1 MiB)
    MaxGridX,       \* MAX_GRID_SIZE_X
    MaxLine,        \* UINT32_MAX: gpuMemcpy refuses copies from here on
    Sizes,          \* sizes programs copy
    Rules,          \* what programs keep to
    MaxOps,         \* bound: operations of the stream
    MaxCopies,      \* bound: calls
    MaxFailures     \* bound: launches that fail

Positive == Nat \ {0}
Buffers == DeviceBuffers \cup HostBuffers
AllRules == {"within limits",           \* below 256 MiB, 4 GiB with DMA
             "await before async"}      \* before an asynchronous copy that
                                        \* depends on a synchronous one

ASSUME BufferAssumption == BufferSize \in Nat /\ DeviceBuffers \cap HostBuffers = {}
ASSUME KernelAssumption == {Word, Block, Granule, MaxGridX, MaxLine} \subseteq Positive
ASSUME CopyAssumption ==
    /\ HighFrom \in Nat
    /\ Sizes \subseteq Nat
    /\ Rules \subseteq AllRules
    /\ {MaxOps, MaxCopies, MaxFailures} \subseteq Nat

VARIABLES
    issued, started, done, awaited,     \* the stream: see StreamOrder
    work,       \* Seq: what each operation of the stream copies
    blocks,     \* Seq: the blocks of each that have not run
    call,       \* the operations the call in progress has yet to launch
    mem,        \* [Buffers -> [Offsets -> Buffers]]: whose first contents
                \* a byte is, at the same offset
    copies, failures,
    \* History, read by the properties and the program's rules.
    recent,     \* the copies called since the last await
    expected,   \* mem, had every copy taken effect when it was called
    reach       \* [Buffers -> Nat]: the longest copy to each

streamVars == <<issued, started, done, awaited>>
history == <<recent, expected, reach>>
vars == <<streamVars, work, blocks, call, mem, copies, failures, history>>

Stream == INSTANCE StreamOrder WITH Streams <- {"stream"}

Offsets == 0..(BufferSize - 1)
Piece == [fn : {"HighBW", "LowLatency", "Trailing", "Dma"}, at : Nat, n : Nat, x : Nat, y : Nat]
Job == [piece : Piece, dst : Buffers, src : Buffers, async : BOOLEAN]
Copied == [dst : Buffers, src : Buffers, type : {"COMPUTE", "DMA"}, async : BOOLEAN]

\* Every variable holds what its declaration says (memcopy.cpp:77-158).
TypeOK ==
    /\ Stream!TypeOK
    /\ work \in Seq(Job)
    /\ blocks \in Seq(SUBSET (Nat \X Nat)) /\ Len(blocks) = Len(work)
    /\ Len(issued["stream"]) = Len(work)
    /\ call \in Seq(Job)
    /\ mem \in [Buffers -> [Offsets -> Buffers]]
    /\ copies \in Nat /\ failures \in Nat
    /\ recent \in Seq(Copied)
    /\ expected \in [Buffers -> [Offsets -> Buffers]]
    /\ reach \in [Buffers -> Nat]

Fresh == [b \in Buffers |-> [i \in Offsets |-> b]]

Init ==
    /\ Stream!Init
    /\ work = <<>> /\ blocks = <<>> /\ call = <<>>
    /\ mem = Fresh /\ expected = Fresh
    /\ reach = [b \in Buffers |-> 0]
    /\ copies = 0 /\ failures = 0 /\ recent = <<>>

-----------------------------------------------------------------------------
(* How a copy is cut.                                                      *)

CeilDiv(a, b) == (a + b - 1) \div b
WholeUp(size) == CeilDiv(size, Granule) * Granule              \* mutant
Whole(size) == (size \div Granule) * Granule
HighBW(size) == size > HighFrom

KernelRoundedUp(size) ==                                       \* mutant
    [fn |-> "HighBW", at |-> 0, n |-> 0, x |-> CeilDiv(size, Granule), y |-> 1]
KernelHighBW(size) ==
    LET x == size \div Granule
    IN  [fn |-> "HighBW", at |-> 0, n |-> 0, x |-> x, y |-> CeilDiv(x, MaxGridX)]

\* From where the HighBW kernel stops, in whole words.
KernelLowLatency(size) ==
    LET from  == IF HighBW(size) THEN Whole(size) ELSE 0
        words == (size - from) \div Word
    IN  [fn |-> "LowLatency", at |-> from, n |-> words, x |-> CeilDiv(words, Block), y |-> 1]

\* From the last whole granule, byte by byte.
KernelTrailing(size) ==
    LET from == Whole(size)
    IN  [fn |-> "Trailing", at |-> from, n |-> size - from,
         x |-> CeilDiv(size - from, Block), y |-> 1]

Pieces(size) ==
    (IF HighBW(size) THEN <<KernelHighBW(size)>> ELSE <<>>)
    \o (IF ~HighBW(size) \/ size % Granule # 0 THEN <<KernelLowLatency(size)>> ELSE <<>>)
    \o (IF size % Word # 0 THEN <<KernelTrailing(size)>> ELSE <<>>)

\* gpuMemcpy: one line, or none when it refuses the size.
DmaLines(size) ==
    IF size < MaxLine
    THEN <<[fn |-> "Dma", at |-> 0, n |-> size, x |-> 1, y |-> 1]>>
    ELSE <<>>

Grid(piece) == (0..(piece.x - 1)) \X (0..(piece.y - 1))

\* The bytes block b of a piece copies.  The HighBW kernel has no bound; the
\* others leave out the threads from n on.
Bytes(piece, b) ==
    LET first == b[1] + b[2] * piece.x
        From(unit) == (piece.at + first * unit)..(piece.at + first * unit + unit - 1)
    IN  CASE piece.fn = "HighBW" -> From(Granule)
          [] piece.fn = "LowLatency" -> From(Block * Word) \cap (0..(piece.at + piece.n * Word - 1))
          [] piece.fn = "Trailing" -> From(Block) \cap (0..(piece.at + piece.n - 1))
          [] piece.fn = "Dma" -> 0..(piece.n - 1)

-----------------------------------------------------------------------------
(* The calls.                                                              *)

Type(dst, src) == IF {dst, src} \subseteq DeviceBuffers THEN "COMPUTE" ELSE "DMA"

FirstIsAsync(i, async) == async \/ i = 1                       \* mutant
\* Only the first launch of a synchronous copy is synchronous.
LaunchIsAsync(i, async) == async \/ i > 1

Jobs(dst, src, size, async) ==
    LET pieces == IF Type(dst, src) = "COMPUTE" THEN Pieces(size) ELSE DmaLines(size)
    IN  [i \in DOMAIN pieces |->
            [piece |-> pieces[i], dst |-> dst, src |-> src, async |-> LaunchIsAsync(i, async)]]

\* The earlier copies an asynchronous one of its type runs beside: those since
\* the last synchronous one, or, when that has kernels that are not, since
\* before it.
Beside(type) ==
    {i \in DOMAIN recent :
        /\ recent[i].type = type
        /\ \A j \in i..Len(recent) :
              \/ recent[j].async /\ recent[j].type = type
              \/ "await before async" \in Rules /\ j = i}

Conflict(c, dst, src) == c.dst \in {dst, src} \/ c.src = dst

Within(type, size) ==
    IF type = "COMPUTE" THEN size \div Granule <= MaxGridX ELSE size < MaxLine

MayCopy(dst, src, size, async) ==
    /\ dst # src
    /\ "within limits" \in Rules => Within(Type(dst, src), size)
    /\ async => \A i \in Beside(Type(dst, src)) : ~Conflict(recent[i], dst, src)

\* libreCuMemCpy: the call, up to its first launch.
MemCpy(dst, src, size, async) ==
    /\ call = <<>> /\ copies < MaxCopies
    /\ MayCopy(dst, src, size, async)
    /\ call' = Jobs(dst, src, size, async)
    /\ copies' = copies + 1
    /\ recent' = Append(recent,
          [dst |-> dst, src |-> src, type |-> Type(dst, src), async |-> async])
    /\ expected' = [expected EXCEPT ![dst] =
          [i \in Offsets |-> IF i < size THEN expected[src][i] ELSE @[i]]]
    /\ reach' = [reach EXCEPT ![dst] = IF @ < size THEN size ELSE @]
    /\ UNCHANGED <<streamVars, work, blocks, mem, failures>>

\* One libreCuLaunchKernel or gpuMemcpy.
Launch ==
    /\ call # <<>>
    /\ LET job == Head(call)
       IN  /\ Stream!Issue("stream", [type |-> Type(job.dst, job.src), async |-> job.async])
           /\ work' = Append(work, job)
           /\ blocks' = Append(blocks, Grid(job.piece))
    /\ call' = Tail(call)
    /\ UNCHANGED <<mem, copies, failures, history>>

\* It fails: the rest is not launched.  libreCuMemCpy drops the status and
\* reports success.
LaunchFails ==
    /\ call # <<>> /\ failures < MaxFailures
    /\ failures' = failures + 1
    /\ call' = <<>>
    /\ UNCHANGED <<streamVars, work, blocks, mem, copies, history>>

\* libreCuStreamCommence and libreCuStreamAwait.
StreamAwait ==
    /\ call = <<>>
    /\ Stream!AwaitReturns("stream")
    /\ recent' = <<>>
    /\ UNCHANGED <<work, blocks, call, mem, copies, failures, expected, reach>>

-----------------------------------------------------------------------------
(* The GPU.                                                                *)

StartOp ==
    /\ \E o \in Stream!Ops : Stream!Start(o)
    /\ UNCHANGED <<work, blocks, call, mem, copies, failures, history>>

RunBlock ==
    /\ \E i \in DOMAIN work : \E b \in blocks[i] :
          /\ <<"stream", i>> \in started
          /\ blocks' = [blocks EXCEPT ![i] = @ \ {b}]
          /\ mem' = [mem EXCEPT ![work[i].dst] =
                [j \in Offsets |->
                   IF j \in Bytes(work[i].piece, b) THEN mem[work[i].src][j] ELSE @[j]]]
    /\ UNCHANGED <<streamVars, work, call, copies, failures, history>>

CompleteOp ==
    /\ \E o \in started \ done : blocks[o[2]] = {} /\ Stream!Complete(o)
    /\ UNCHANGED <<work, blocks, call, mem, copies, failures, history>>

Next ==
    \/ \E dst, src \in Buffers, size \in Sizes, async \in BOOLEAN : MemCpy(dst, src, size, async)
    \/ Launch \/ LaunchFails \/ StreamAwait
    \/ StartOp \/ RunBlock \/ CompleteOp

Spec == Init /\ [][Next]_vars

-----------------------------------------------------------------------------
(* Properties.                                                             *)

\* Once everything was awaited and no launch failed, memory is what the copies
\* one after the other would have made of it: nothing is missed, nothing is
\* copied too early or too late, and nothing beyond the size is touched
\* (memcopy.cpp:77-158, librecuda.cpp:873-885).
CopiesTakeEffect ==
    call = <<>> /\ failures = 0 /\ awaited["stream"] = Len(work) => mem = expected

\* At all times and whatever fails, a byte that has changed lies within a copy
\* to its buffer: no block reaches beyond (memcpy.cu:5-28).
NothingBeyond ==
    \A b \in Buffers, i \in Offsets : mem[b][i] # b => i < reach[b]
=============================================================================
