# LibreCUDA: TLA+ models of its streams, memory, copies, loader and set-up

LibreCUDA replaces the user-space part of NVIDIA's driver: it talks to the
kernel driver by ioctl, maps GPU memory, builds command buffers and rings the
GPU's doorbell. This directory specifies, model-checks and proves properties of
the parts that carry its own logic: the streams of `driverapi/src/cmdqueue.cpp`
with what is above and below them, and the memory, the loader and the set-up of
`driverapi/src/librecuda.cpp`.

Paths below are relative to the repository root; `cmdqueue.cpp` and so on stand
for the files under `driverapi/`.

## 1. Inventory of the system

| Component | Source | State | Operations | What is hard, what makes it correct |
|---|---|---|---|---|
| Command queue (one per stream) | `cmdqueue.cpp`, `cmdqueue.h` | two command buffers, backlog of splits, timeline counter and signal, "notify pending" flag, current mode, signal pool, command and kernargs pages, local memory size | `initializeQueue`, `launchFunction`, `gpuMemcpy`, `startExecution`, `awaitExecution`, `recordEvent`, `waitForEvent`, `getEventTimestamp`, `submitToFifo`, destructor | The GPU runs concurrently and through two channels; order is kept by a counter the GPU releases, by GPU acquires, and by waits on the CPU between pieces. Operations take effect in call order; await means complete; memory the GPU reads is not reused early; every wait ends |
| Stream and event API | `librecuda.cpp:1419-1497, 1617-1655` | events (a stream and up to two signals) | `libreCuLaunchKernel`, `libreCuStream*`, `libreCuEvent*` | which call sequences are safe |
| GPU channels | hardware | per context one compute and one DMA channel, their rings, signals | take entries and commands in order, run kernels and copies, release, acquire | kernels overlap, channels are concurrent |
| GPU memory | `librecuda.cpp:256-391, 393-647, 649-871` | bump pointer, map of allocations, list of mapped ranges | `gpuAlloc`, `gpuFree`, `gpuSystemAlloc`, `libreCuMemAlloc/Free`, `isDevicePtr`, and every call that allocates | chains of ioctls with failures in between; regions never overlap, owners keep their memory, nothing is lost |
| Driver and context set-up | `librecuda.cpp:48-230, 393-418, 614-647` | files, client, tables of devices and handles, contexts | `libreCuInit`, `libreCuCtxCreate_v2`, `libreCuCtxDestroy`, `libreCuCtxSetCurrent` | partial failure and repeated calls; a handle stands for the right card |
| Module loader | `librecuda.cpp:944-1379`, `cmdqueue.cpp:513-580` | image, relocations, what is known of functions, argument layout | `libreCuModuleLoadData`, the arguments of `launchFunction` | sections come in any order; addresses resolved, arguments where the kernel reads them |
| Device-to-device copies | `librecuda.cpp:873-885`, `memcopy.cpp`, `memcpy.cu` | operations of a stream and their blocks | `libreCuMemCpy`, `memcpyD2D` | a copy is several kernels: each byte copied, none beyond, in order with other copies |
| Attributes, error names | `librecuda.cpp:1499-1609`, `librecuda_status.cpp` | none | queries | no behaviour |

How they interact: the application thread calls the API; a stream's queue
allocates its pages and its kernels' local memory through the GPU memory
functions, appends commands to a buffer in host memory, copies a buffer into its
command page and puts an entry into the ring of one of the context's two
channels. The only communication back is by the 64-bit values of `NvSignal` and
the get index of a ring, which the GPU writes and the CPU reads. Nothing is
persisted; there is one application thread, and the GPU is the other process.

```
 DriverInit     which card a context is opened on
     |
 GpuMemory  ->  RegionStore         who owns which addresses
     |
 ModuleLoader                       where code, constants and arguments lie
     |
 DeviceCopy                         a copy as operations of a stream
     |  on
 StreamOrder                        what a stream promises
     ^  implemented by
 CommandQueue  over  Gpu            buffers, splits, timeline, events
                      ^ whose channels are
                BatchFifo           whole batches, in order
                      ^ implemented by
                CommandFifo         pages that wrap, a ring that goes round
```

`PROJECT.json` lists the components and, line by line, the hazards with the
properties that watch them.

## 2. The modules

### Streams: `Gpu`, `CommandQueue`, `StreamOrder`

**`Gpu`** (external). The two channels with their submitted commands, the running
kernels and copies, the signals with value and stamp, the configured local
memory. Kernels of the compute channel overlap (`SEND_PCAS` does not wait); a
copy waits for the one before it (`NON_PIPELINED`); a release waits for its
channel to be idle: bit 20 is set, which in `SEM_EXECUTE` is `RELEASE_WFI_EN`,
although the code names it by a constant of the older method,
`SEMAPHORED_RELEASE_WFI_DIS`. An acquire blocks the compute channel until the
value *equals* its payload; the DMA channel has no acquire (`cmdqueue.h:126-127`).

**`CommandQueue`** (extends `Gpu`). Every stream's `NvCommandQueue`, the events,
local memory, and the application thread. A command is a record of the kinds
`launch`, `copy`, `release`, `acquire`, `localMem`, instead of the words of its
methods.

| Code | Model |
|---|---|
| `computeCommandBuffer`, `dmaCommandBuffer` | `queue[s].buf` |
| `commandBufBacklog`, `CommandBufSplit` | `queue[s].backlog`, `Split` |
| `timelineCtr`, `timelineNotifyPending`, `currentQueueType`, `freeSignals`, `currentSlmPerThread` | fields of the same name |
| `kernArgsWriteIdx`, the page | an index over `KernArgsSlots` equal slots; `kernArgs` says whose arguments a slot holds |
| `shader_local_memory_va`, its allocations | `slm.va` (the n-th allocation is region n), `slm.size`, `slm.freed` |
| `NvSignal.value`, `.time_stamp` | `value`, `stamp` |
| a call that spins in `signalWaitCpu` | `cpu`, which records where the thread is; the part before the wait and the part after it are two actions |
| `submitToFifo` | `SubmitToFifo`: the buffer is appended to the channel and cleared, at once; `CommandFifo` shows when that is right |
| an early error return | an action of its own (`...Fails...`) that keeps what was changed before it |

Everything between two waits of the application thread is one action: no other
thread of the program runs, and the GPU sees a stream's commands only from
`submitToFifo` on. The one value a call reads that the GPU may be changing, the
signal in `signalWaitGpu`, is read once, so the atomic action has the same
outcomes as the code. `currentQueueType` is never initialised (`cmdqueue.h:137`);
the model starts it at either mode or at neither.

**`StreamOrder`**. What a stream promises, without buffers or channels:
operations are issued, start, complete; one starts only when those it must follow
are complete (older on its stream, and of the other kind or one of the two
synchronous); an await returns only when all is complete. `CommandQueue`
implements it under the mapping `started <- Started` (completed or executing);
`issued`, `done` and `awaited` are history variables of the same name.

The code relies on how it is called. The model makes that explicit: `ClientRules`
are guards on calls, each can be dropped.

* *await before switch*: once work of one kind is commenced, the stream is awaited
  before work of the other kind is enqueued. All tests do.
* *commence before await*: nothing is awaited that is still buffered. The counter
  counts operations as they are enqueued, so awaiting uncommenced work spins for ever.
* *await before destroy*: the destructor waits for nothing.
* *record once*: an event is recorded once between create and destroy. A second
  record leaves the signal at the 1 of the first: the event counts as hit at once.

Calls on a destroyed stream, or on a stream whose creation failed, are use of a
dead object and not part of the model.

### A channel's page and ring: `CommandFifo`, `BatchFifo`

**`CommandFifo`** is `submitToFifo` word by word for one channel: the command page
of each stream with its write index, the wrap check of `cmdqueue.cpp:71-76`, which
compares the batch with the oldest entry of the ring, the ring, `put_value`,
`GPPut` and `GPGet`. Copying the words, writing the entry and publishing the index
are three actions, the GPU's fetch of an entry and its read of the words two.
**`BatchFifo`** is what `Gpu` takes a channel to be: whole batches, once, in the
order of submission. `CommandFifo` implements it for programs that keep two rules
the code does not check: *page*, no batch overwrites words that are unread (the
wrap check looks at one entry, and only when the page wraps), and *ring*, the ring
is never filled up (the put index does not look at the get index). A batch longer
than the page is outside the model, as the code would copy it past the page's end.

### Memory: `GpuMemory`, `RegionStore`

**`GpuMemory`** executes a call of the API as a list of addresses to free
(`frees`) and of requests to allocate (`todo`); each request is the chain of
ioctls of `gpuAlloc` or `gpuSystemAlloc`, and a failing one stops the call with
what the chain had done so far: a reserved region, memory the driver made, an
entry in `hostMappedPtrs`, an address in `va_to_mem_handle`. The owners are a
context with its channels, the kernels for copies, streams, modules with their
function's growing local memory, and buffers; destructors free what their fields
hold, right or wrong. **`RegionStore`** is the abstract allocator: each range it
gives out is apart from all ever given out. What the model shows besides:

* The signal pool of a stream is never freed. It comes from `gpuSystemAlloc`, which
  `gpuFree` does not know; the comment at `cmdqueue.cpp:261-263` says that freeing
  "shouldn't fail". `NothingLost` and `RefusedWithReason` except it.
* A module whose local memory could not grow keeps the address of the region that
  was freed first, and a raised size: later launches run in freed memory.
* `libreCuModuleUnload` frees the image first; when a later step fails, every
  further unload is refused.
* One context per process: the ranges of the first are never given back and the
  second starts at `UVM_HEAP_START` again, where the driver refuses.

### Copies: `DeviceCopy`

`libreCuMemCpy` on top of an instance of `StreamOrder`: a copy between buffers of
the device becomes up to three kernels (whole 4 KiB granules, words, trailing
bytes), any other copy one DMA line. A started kernel is a set of blocks that run
in any order; a byte of memory is whose first contents it holds, so overlapping
kernels and chains of copies show. Two rules of programs are explicit:

* *within limits*: below 256 MiB between device buffers, where the grid has one
  row (above, `memcopy.cpp:94-96` starts a second row as long as the first and the
  kernel copies past both buffers), and below 4 GiB with DMA (`gpuMemcpy` refuses
  more, but `libreCuMemCpy` drops the status, `librecuda.cpp:878-883`, and reports
  success; so it does when a later kernel of a copy cannot be launched);
* *await before async*: see the run `copy_overtakes`.

A copy of 1 to 3 bytes, or with 1 to 3 bytes beyond a granule, launches the word
kernel with no block at all; the model has it so, whether the hardware accepts
that grid is outside. `isDevicePtr` without a context answers with a status code, which
reads as true; copies without a context are left out.

### The loader: `ModuleLoader`

`libreCuModuleLoadData` as its four loops: sections with an address of their own
get room, the others are placed behind them with their alignment (in `size_t`,
which wraps), a scan learns code, constants, stack sizes and parameters of
functions and collects the relocations, functions are finished, relocations are
applied and the image is uploaded; and the argument words that `launchFunction`
writes. A section name is represented by what the code reads from it. Seen while
modelling, and kept as the code does it:

* the shared memory of a function is set to `e_shentsize`, the size of an entry of
  the file's section table and hence 64, instead of its section's size
  (`librecuda.cpp:1116`);
* parameters smaller than a word are widened to one, so that two that share a word
  of the kernel's layout are written a word apart (`cmdqueue.cpp:534-559`);
* symbols in sections without data resolve to no address, as only sections with
  data are placed;
* constants that belong to no function reach only functions that have some of
  their own (`librecuda.cpp:1316-1331`);
* `*pModule` is set before a relocation may be refused (`:1348`, `:1355`), and a
  refused image keeps its memory.

### Set-up: `DriverInit`

`libreCuInit` step by step, where every open and ioctl may fail and the program
calls again, the table of handles, and contexts. `UVM_IOCTL` looks at the status
the driver writes and not at what `ioctl` returns, so a UVM call that never
reached the driver passes; the model has that outcome. What holds in spite of
failures is in `SetUpIsFresh`, `HiddenStayHidden` and `FilesKept`. What does not:

* The vectors are not cleared when a call fails. A failure between two instances
  leaves the first in front of those of the next call, and handles then name the
  wrong card; `HandlesMatch` excepts that history (`partial`).
* A handle is made for every card although `CUDA_VISIBLE_DEVICES` may have left
  fewer instances: the loop reads past the vector, or, with no visible card, from a
  null pointer (`at = "crashed"`).
* An item of the list with something behind its number swallows the rest of the list.
* A number `stoi` refuses throws out of `libreCuInit`; such lists are not modelled.
* When the kernels for copies cannot be loaded, `libreCuCtxCreate_v2` reports an
  error and leaves its context current.

The `MC` modules hold the instances for TLC, the `Proofs` modules the proofs
(`StreamOrder` carries its own).

## 3. The runs

| Run | Instance | Question |
|---|---|---|
| `single_stream` | 1 stream, 4 operations, functions of 20 and 40 bytes of local memory, 3 kernargs slots | Does a stream implement `StreamOrder`, is local memory adequate, does the timeline only advance, in every interleaving with the GPU? |
| `two_streams` | 2 streams of 2 operations, 1 slot, one failure of `gpuAlloc`, `gpuFree` or of a launch half-way | Do streams that share the channels leave each other alone, kernel arguments included, also with the rests of a failed launch in a buffer? |
| `events` | 2 operations, 2 events, each recorded once between create and destroy, a fair GPU | Is an event hit, waited for and stamped after what precedes it; does every blocking call return and all submitted work complete? |
| `failing_submits` | 3 operations, 2 failures of `submitToFifo` | What still holds after a failed commence: the validations, the order, and is every operation still somewhere on its way? |
| `command_fifo` | 2 streams, 5 batches of 1 to 3 words, pages of 4 words, a ring of 3 | Do whole batches arrive, once and in order; is a batch refused without a reason; is all read in the end? |
| `gpu_memory` | context, kernels, stream, module, buffer of 1 or 5 units, pages of 2 and 4, 12 memory objects, 2 failures | Do regions stay apart, owners keep their memory, pointers classify, is nothing lost or freed twice? |
| `device_copy` | 3 device buffers and 1 of the host, 2 copies of 3 or 19 bytes, words of 2, blocks of 2, granules of 8, 1 failing launch | Is memory what the copies one after the other make of it, and nothing beyond touched? |
| `driver_init` | 2 cards that the driver numbers the other way round, 6 lists of visible cards, 3 failures, 2 contexts | Do handles, files and contexts survive failed calls? |
| `module_loader` | 5 cubins of 3 to 6 sections in every order, 2 load addresses | Does the order of the sections matter to placement, relocations, functions or arguments? |

Runs that end in a counterexample, one per disagreement between the code and what
its documentation says (`findings` in `PROJECT.json` quotes the lines):

| Run | Rule dropped | What happens |
|---|---|---|
| `switch_without_await` | *await before switch* | copy, commence, launch, commence: the buffers are empty when the mode is switched, no split is made, and the launch overtakes the copy |
| `local_memory_shared` | none; two streams, one function | a second stream frees the function's region under the first stream's kernel |
| `copy_overtakes` | *await before async* | only the first kernel of a synchronous copy is synchronous; an asynchronous copy that follows reads bytes its last kernel has yet to write |

Not kept as runs, but seen in the model while bounds and faults were varied:

* a launch that fails after its wait was enqueued leaves an acquire in the buffer.
  The acquire compares for equality with a counter that other operations move: once
  a release has passed its target, the compute channel never moves again
  (`cmdqueue.cpp:486`, against `cmdqueue.h:110-111`). This is why `two_streams` and
  `failing_submits` do not check for deadlock and liveness is checked without faults;
* a failed submission keeps the backlog whole: the retry runs again what had run,
  and its releases turn the timeline back, so `NoReplay` and `TimelineAdvances` are
  checked without that fault. On one stream it also breaks `LocalMemAdequate`: what runs
  again configures an earlier, smaller region;
* an allocation of local memory that fails breaks `LocalMemAdequate`, with one stream
  and one function: `currentSlmPerThread` was raised before the allocation
  (`cmdqueue.cpp:413`) and is not set back, so the next launch takes the memory as
  "enough" (`cmdqueue.cpp:406`) and its kernel runs with no region configured;
* failing launches together with failing submissions break `InOrder` and
  `KernArgsIntact`; each alone does not;
* with a counter modulo 4 the wait `value < target` is satisfied after the wrap by
  the value from before it, in the code after 2^32 operations.

### Bounds, and why they are enough

* `MaxOps`: the longest pattern in the code is a backlog of two pieces followed by
  a current buffer, which needs three operations; four adds overlap of
  asynchronous ones within a piece, and an await followed by a second batch.
* `KernArgsSlots`: fewer slots than operations, so that the page fills up, is
  reset by an await and is reused. The real slots have different sizes; only
  order and exhaustion matter to the properties.
* `PoolSize`: the timeline's signal and one per event that can be recorded.
* `CtrModulus`: 2^32 in the code. 16 is more than a run can count: set-up takes
  two, each operation one. Wrapping is therefore outside the runs (see above).
* `MaxRecords`, `MaxFailures`: two where a failure can follow a failure; three in
  `driver_init`, where a call fails, fails again later, and a context fails; one in
  `two_streams` and `device_copy`, whose faults leave something behind at once.
* Two streams are the smallest number that shares a channel, two cards the
  smallest whose order can be wrong.
* `PageWords` 4, `Entries` 3 with 5 batches: pages wrap more than once, the ring
  goes round, and batches of 1 to 3 words leave gaps of every length at the end.
* `MaxMade` 12: everything created once, the local memory grown, and most objects
  made again behind what was freed.
* Copies of 3 bytes are one word and a rest, of 19 two granules, a word and a rest:
  all three kernels, each boundary between them. `EveryByteCopied` covers the other
  sizes. Two copies are the least that can be in the wrong order.
* The cubins combine a section with an address of its own, two functions, constants
  of a function and of none, relocations of each kind, parameters described backwards
  or sharing a word, and two refusals. One of the load addresses crosses a word of
  `Half`.

Deadlock is checked where the program cannot hang: `single_stream`, `events` and
`command_fifo`, in which a program that is through may stop (`Exit`). The other
runs either have a fault that makes programs hang, or simply come to an end.

### Fairness

`FairSpec` of `CommandQueue` assumes that a channel takes a command it can take,
that each kernel and copy ends, and that a call whose wait is over returns (the CPU
spins). `FairSpec` of `CommandFifo` assumes that the GPU goes on taking entries and
reading them. All are weak fairness. Nothing is assumed of the program: it may
never call again.

## 4. What is proved

For every value of the constants: any number of streams, functions, events, cards,
objects and operations, all sizes, any faults, any client rules unless one is named.
*In order* stands for `Orderly`: the program keeps *await before switch*, no submission
is refused (`"submit"` is not among the `Faults`; launches and allocations may fail), and
the counter does not wrap (`MaxOps + 2 < CtrModulus`). Each of the three is needed: the
runs that drop the first two end in counterexamples or lose properties, and section 3
names what a wrap breaks.

| Theorem | Says |
|---|---|
| `CommandQueueProofs!TypeCorrect`, `ValidationsHold` | types; `OneBufferInUse`: the `LIBRECUDA_VALIDATE`s of `startExecution` cannot fail, whatever failed before |
| `CommandQueueProofs!NothingIsForgotten`, `NothingRunsTwice` | every operation of a live stream is on its way until it starts (`NothingForgotten`), whatever fails; none is submitted twice (`NoReplay`) where no submission is refused |
| `CommandQueueProofs!OperationsInOrder` | *in order*: nothing starts before what it must follow is complete (`InOrder`) |
| `CommandQueueProofs!NothingPendingWhenEqual` | *in order*: when the timeline equals the counter nothing of the stream is pending (`IdleWhenEqual`), which `signalWaitGpu` relies on |
| `CommandQueueProofs!StreamsImplementOrder` | *in order*: `CommandQueue` implements `StreamOrder` (`ImplementsStreamOrder`) |
| `CommandQueueAwaitProofs!ArgumentsIntact` | *in order*: the kernargs page holds the arguments of every kernel that has still to end (`KernArgsIntact`) |
| `CommandQueueAwaitProofs!TimelineNeverGoesBack` | *in order*: no step turns back a stream's timeline signal (`TimelineAdvances`) |
| `CommandQueueAwaitProofs!NothingRunsAfterDestroy` | *in order*, with the rule *await before destroy*: the GPU has nothing left of a destroyed stream (`NoWorkAfterDestroy`) |
| `CommandQueueAwaitProofs!HitEventsAreReached`, `SynchronizeWaitsForAll`, `ElapsedTimeIsForward` | *in order*, with the rule *record once*: an event is hit (`HitMeansReached`) and waited for (`EventSyncSound`) only after all that its stream was given before the record; events of one stream and mode are stamped in the order of their records (`SameModeElapsedTime`) |
| `CommandQueueAwaitProofs!LocalMemorySuffices` | with one stream (`OneStream`), and no allocation or submission that fails (`NothingRefused`; launches may): every kernel runs with a region that is configured, not freed and large enough (`LocalMemAdequate`) |
| `StreamOrder!StreamsRunInOrder`, `AwaitIsSound` | what the abstract stream promises, which `StreamsImplementOrder` carries over to `CommandQueue` |
| `CommandFifoProofs!TypeCorrect`, `ChannelIsFifo`, `RefusalsHaveAReason` | types; under *page* and *ring* the channel implements `BatchFifo`; only another stream's entry makes a batch refused |
| `GpuMemoryProofs!TypeCorrect`, `RegionsNeverOverlap`, `PointersClassified` | types; the allocator implements `RegionStore`; `isHostMappedPtr` is right |
| `GpuMemoryProofs!LiveObjectsKeepTheirMemory`, `FreesAreRefusedWithReason`, `NoMemoryIsLost` | a live object's addresses are its own and refer to the memory made for it (`OwnersHoldTheirMemory`); `gpuFree` is refused only for a signal pool, or for a module after a failure (`RefusedWithReason`); without failures all memory has an owner between calls (`NothingLost`) |
| `DriverInitProofs!TypeCorrect`, `HiddenCardsStayHidden`, `SetUpAlwaysFresh` | types; no context on a hidden card; one fresh set of files |
| `DriverInitProofs!HandlesAlwaysMatch`, `FilesStayOpen` | unless a call failed between two cards, each handle opens the card of its rank (`HandlesMatch`); what is in use stays open, and a failed call leaves two files at most (`FilesKept`) |
| `DeviceCopyProofs!TypeCorrect`, `EveryByteCopied`, `NothingBeyondIsTouched` | types; the kernels of a copy cover its bytes and no others; within the limits nothing beyond a copy changes |
| `DeviceCopyProofs!CopiesTakeEffectInOrder` | for programs with both rules, and granules of whole words: once all was awaited and no launch failed, memory is what the copies one after the other make of it (`CopiesTakeEffect`) |
| `ModuleLoaderProofs!TypeCorrect`, `FunctionsAreDescribed` | types; every function of every cubin has its code, constants and local memory (`FunctionsDescribed`) |
| `ModuleLoaderProofs!SectionsStayApart`, `RelocationsResolve` | *cubin apart*: sections share no byte (`SectionsApart`), and relocations hold the addresses of their symbols (`RelocsResolved`) |
| `ModuleLoaderProofs!ArgumentsWhereKernelsRead` | *parameters as compiled*: each word of an argument lies where the kernel reads it (`ArgsWhereKernelReads`) |

How the arguments go:

* **`CommandQueue`**: the inductive invariant `QueueInv` adds to the types
  `QueuesTidy` (without a backlog only the buffer of the current mode is used;
  `OneBufferInUse` says so only while the thread is idle, which is not inductive,
  since a backlog is cleared at the end of a blocking call) and `CursorInBacklog`
  (while the backlog is played, the cursor is inside it and the buffers are empty,
  which makes clearing it safe). One lemma per operation on a queue (`...Takes`),
  one per action, and `QueueStep` puts them together.
* **Once and for all** (`CommandQueueProofs`): the pieces of a backlog stay in
  it until the last has been waited for, so `NoReplay` is not inductive. `Cursor`
  says which pieces are still to come; `Once` gives each operation one place among
  them, the buffers, the channels and what has started, and `EveryOpHeld` at
  least one. Every helper on a queue `Keeps` the operations or adds one, and every
  action is one of five kinds: nothing moves, an operation is issued, a buffer is
  submitted, a channel takes a command, a piece is refused. Only the last can
  repeat a piece, which is why `NothingRunsTwice` excludes it.
* **Order** (`CommandQueueProofs`): when a channel gets to a command is decided by
  the commands ahead of it alone, so the invariant speaks of lines: what a channel
  holds, followed by a piece of a stream that will join it. `Sound` says of such a line
  that every command `Fits` behind those ahead (an operation finds each operation it
  must follow complete, or ahead on the same DMA channel, or covered by a release or
  an acquire; a release comes behind the operations its value vouches for) and what
  may be relied on at its end (`Covered`). The first piece of a stream is `InLine`
  with its channel; a later piece is `Behind` the counter of the piece before, which
  the CPU will have waited for, and finds its channel empty of the stream. `OrderInv`
  adds that a value on the timeline vouches for the operations before it
  (`ValuesSound`), that started operations had their predecessors done
  (`StartedSound`), that commenced work not yet awaited is of the current type, and
  all is done where there is none (`AwaitsSound`, where *await before switch* is used),
  and that the counter is two ahead of the operations (`CountersSound`, where the bound
  on the counter is used). Lemmas on sequences say that commands of other streams in
  between, and commands the channel has taken, change nothing (`Embedding`). There is
  one lemma per action (`...KeepsOrder`); the refinement then goes step by step:
  taking a command is `Start`, finishing it `Complete`, a launch or a copy `Issue`,
  the return of an await `AwaitReturns`, everything else a stutter.
* **Arguments** (`CommandQueueAwaitProofs`): `KernArgsIntact` is not inductive, because
  nothing in it says that the next slot is free. `ArgsInv` says that a launch that is
  `Unfinished`, in a buffer, a piece, a channel or executing, has a slot below
  `kernArgsWriteIdx` that holds its arguments, so a launch, or one that fails after
  it took its slot, writes no slot in use. Every other operation on a queue `Carries`
  its launches and that index along. The await that starts the page again returns when
  all of the stream is complete; what is `Unfinished` is not, since it has one place
  (`Once`) and executes once, not after it is complete (`RunsOnce`). A stream not
  created yet has an empty queue (`Unborn`).
* **Timeline** (`CommandQueueAwaitProofs`): a release sets the signal to its value
  whatever it was before, so releases must arrive in increasing order.
  `TimelinesRise` says that those in a channel increase, from above the signal's value
  up to a bound `lo`, and those in the pieces and the buffer increase from there to
  the counter. With releases of one stream in both channels that would not be enough;
  `InLines` says they never are, and `BeginsInLine` that the first piece of a
  backlog joins the channel that has them: a switch of type comes after an await, and
  a later piece after the wait for the piece before. `EventsApart` keeps an event's
  releases, which are of 1 each time, off the timelines.
* **Destruction** (`CommandQueueAwaitProofs`): `Gone` says that a destroyed stream had
  been commenced and awaited. Then all of it is complete and nothing of it is
  `Unfinished`, and by `InLines` no channel holds one of its releases.
* **Events** (`CommandQueueAwaitProofs`): that a hit event's work is done (`HitSound`)
  needs to know where the event's release may be. Its signal is fresh from the pool:
  no other event and no timeline has it, and it reads 0 until the release
  (`FreshSignals`, `EventsMarked`). The release goes through one channel
  (`LanesKept`), in the buffer, the pieces and the channel always behind what remains
  there of the stream's work before the record (`WorkBefore`) and of earlier events'
  releases (`EventsBefore`). When it is in its channel the other channel has none of
  that work (`NoneAcross`), because a piece that carries it carries a counter that
  vouches for the work (`PiecesMarked`) and goes out only after the CPU has waited for
  the piece before. So when the release arrives the work is done, and the release of
  an earlier event is no longer to come (`Stamped`). Most steps leave the order
  `Undisturbed`: they add only commands of their own, at the end. A second record
  would find the signal at 1 from the first, so that the event counts as hit at once;
  that is why *record once* is needed.
* **Local memory** (`CommandQueueAwaitProofs`): the region configured is a register of the
  compute channel that each `localMem` command sets and each launch reads when it starts,
  and the queue grants a launch no more than the size it asked for last. `RegionsInOrder`
  follows that register into the future (`Walk`): through what is in the channel, then the
  pieces of the backlog from the one that commence has reached, then the buffer. Every
  launch on the way finds enough in the region it meets (`Enough`), and the way ends at
  the region allocated last, of size `currentSlmPerThread` (`SizesKnown`). A new region
  goes to the end of the way; a launch joins it there; handing a buffer over moves a
  stretch of the way from the queue to the channel, and taking a command moves its
  beginning. No function with a region ever needs more than the last one, so `gpuFree` of
  a region is never reached (`RegionsKept`). No client rule is needed. One stream is:
  `local_memory_shared`. So are the two conditions on failures (section 3): after a failed
  allocation no way leads to the size that is granted, and after a refused submission the
  retry sends again pieces whose place on the way is behind.
* **`CommandFifo`**: the entries between get and put, with the one the GPU holds,
  are the batches submitted and not received, and their words are in the page. A
  batch is copied only over words that no such batch occupies, which is what the
  rule *page* says, and an entry written only into a slot that is not among them,
  which is what *ring* says and arithmetic modulo the ring turns into slots.
* **`GpuMemory`**: regions lie below the bump pointer and apart (`RegionInv`), and
  every known address is the base of a reserved region; `HostInv` keeps the list of
  mapped ranges in the order of addresses, which is why a search that stops at the
  first smaller entry is right. Types need `StreamFieldsOK` besides: a live stream
  holds the four addresses its destructor reads.
* **Owners of memory** (`GpuMemoryProofs`): every step stores a new address, wastes
  one, frees one, gives up, skips, returns or begins (`OwnerSteps`), and each part of
  the invariant is shown once for each kind. `HandlesInv`: an address in the map is
  the base of the region whose memory the map gives for it, and no two regions share
  a handle. `HoldersInv`: what an object's fields and local memory hold are bases of
  regions made for that object; since an address is never given out again, no two
  objects hold one. `KnownInv`: these addresses are in the map, except what the
  object's own call has freed already; a module is excused once something failed,
  because both ways to lose its region begin with a failure. `LostInv`, without
  failures: a region whose memory is allocated belongs to the context, to a stream's
  pool, or to an object that is live or being made, and if that object is being
  destroyed its address is among those still to be freed.
* **`DriverInit`**: the two vectors only ever hold visible cards (`VectorsShown`),
  whichever failed calls filled them; a context needs an instance found in the vector.
  `Progress` says what each passed step has established, and nothing goes back.
  `FilesKept` is a count: a retry overwrites the number of a file that is still open,
  so `FilesInv` counts as unneeded also the file whose number a failed call left in
  `fd_ctl` or `fd_uvm`, and pays for each with its failure. `TablesInv` says how far
  the two vectors are filled at each step: an entry's place is the number of visible
  cards below it. A failure in the loop over the instances sets `partial`.
* **`DeviceCopy`**: arithmetic on quotients shows that each kernel's blocks stay
  within the copy and reach to where the next kernel begins, for granules that are
  a number of words; the invariant then says of every job launched or to be launched that
  it stays within the longest copy to its destination (`FitJobs`).
* **The contents copies leave** (`DeviceCopy`): memory in the middle of a run is not what
  any prefix of the copies makes of it, so the invariant (`EffectInv`) explains an
  execution byte by byte. It says that there are a list of the calls so far, the call each
  operation belongs to, and the memory after each call, such that the operations are the
  parts of the calls in their order (`Accounted`); between an asynchronous call and an
  older one it clashes with stands one the stream does not let pass, or the older is done
  (`Separated`, what the rule *await before async* and its guard give); and a byte that
  the calls up to the c-th have reached, of those that write it, and no later one, is what
  it is after call c (`Consistent`). A block that runs moves one byte from one such c to
  the next: of the older calls that clash with its own every byte is written (`ClashDone`),
  of the newer ones none. The list is quantified in the invariant, so no variable of the
  model records it, and TLC cannot evaluate it; it checks `CopiesTakeEffect` alone.
* **`ModuleLoader`**: a largest, a first or an n-th element exists by induction on the
  size of a finite set (`SetInduction`), which makes the types (`LoaderInv`) inductive.
  Placing keeps what is placed below `size` (`PlacesInv`):
  a section that starts at `size` and its padding cannot meet an earlier one, because
  padding in `size_t` is padding in the numbers when the alignment divides 2^64.
  `RelocInv` says that the list has the relocations of the sections read so far, no two of
  them on the same words, and that the applied ones still have theirs. `DescribedInv`
  describes functions by the sections read so far, and `ArgsInv` their parameters. For the arguments, the parameters sorted by
  index are the parameters by rank (`RankIs`), so that sizes are the differences of
  offsets (`SizedIs`), and words written one behind the other land on the
  offsets (`FirstWordIs`, `MarshalledIs`).

The assumptions are the named `ASSUME`s of the modules: types of the constants, a
pool with room for the timeline signal, a counter modulus above 2, pages of
different streams apart, instances of different cards different.
`EveryByteCopied` assumes in addition that the granule is a multiple of the word
(4096 and 4) and that the HighBW grid needs one row.

`ModuleLoader` is proved for any cubin of the shape the loader reads (`Shaped`: a role has
the items the code takes from such a section). What else a theorem needs of it, a compiler
provides, and all of it holds of each cubin of the run:

* *cubin apart* (`WellPlaced`, `RelocsApart`): sections with an address of their own do not
  overlap; alignments are powers of two; sections with data have different names; a
  relocation lies in its section and apart from the others. Of all this the loader checks
  only that a relocation lies in the image (`librecuda.cpp:1355`).
* *parameters as compiled* (`ParametersAsCompiled`, `WholeWords`): one `.nv.info` section
  for each kernel, its parameters numbered from 0 without gaps, offsets rising with the
  numbers from 0, a total above the last of them and below 2^64, and a bank 0 with room
  for them behind the driver's own words, which are whole words (`0x160`).

Induction over numbers and finite sets is done from the least element of a set
(`LeastNat`, by `WFMin` of the library), where what is shown is stated as a set; the
library's induction theorems, which take an operator, cannot be used.

Every invariant and action property that the runs check is thus the statement of a theorem,
some under the conditions named above. Only model-checked is liveness, which is out of
the prover's reach.

## 5. Not modelled

* `CU_CTX_SCHED_BLOCKING_SYNC`, which throws, and concurrent application threads,
  which the code does not support.
* Attributes, properties, error names, `libreCuFuncSetAttribute`: queries and
  tables without behaviour.
* The vendored NVIDIA headers, the generated cubins, the build: constants and data.
  They are most of the repository's lines. Tests and examples: the client rules are
  read off them.
* The conversion of names and numbers in a cubin, and the words of methods: the
  models take what the code reads from them.
* `loadMemcpyKernelsIfNeeded` keeps its kernels per device ordinal for the life of
  the process (`memcopy.cpp:24`); with one context per process they are never stale,
  so the model loads them with the context.
