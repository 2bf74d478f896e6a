----------------------------- MODULE GpuMemory -----------------------------
(***************************************************************************)
(* The GPU memory of a process: gpuAlloc, gpuSystemAlloc, gpuFree and      *)
(* bump_alloc_virtual_addr of driverapi/src/librecuda.cpp, under the calls *)
(* that allocate with them: context, streams, modules with the local       *)
(* memory of their functions, and buffers.                                 *)
(*                                                                         *)
(* A call of the API works off a list of addresses to free and of requests *)
(* to allocate; each of these is a chain of ioctls, any of which can fail  *)
(* and leaves behind what those before it did.  One thread makes the       *)
(* calls.  Nothing of the context's memory is ever given back, so a        *)
(* process can make one context; the model has one.                        *)
(***************************************************************************)
EXTENDS Naturals, Sequences

CONSTANTS
    Objects,        \* what owns memory
    Kind,           \* [Objects -> Kinds]
    SmallPage, HugePage,    \* 4 KiB and 2 MiB
    HeapStart,      \* UVM_HEAP_START
    Size,           \* sizes of the requests the library makes itself
    BufferSizes,    \* sizes libreCuMemAlloc may be called with
    HugeFrom,       \* buffers larger than this use huge pages (16 MiB)
    MaxMade,        \* bound: memory objects made before the last growth
    MaxFailures     \* bound: ioctls, opens and mmaps that fail

Kinds == {"context", "kernels", "stream", "module", "buffer"}
Positive == Nat \ {0}

ASSUME KindAssumption == Kind \in [Objects -> Kinds]
ASSUME PageAssumption == SmallPage \in Positive /\ HugePage \in Positive
ASSUME SizeAssumption ==
    /\ HeapStart \in Positive
    /\ Size \in [area : Positive, notifier : Positive, window : Positive, page : Positive,
                 pool : Positive, kernArgs : Positive, image : Positive, local : Positive]
    /\ BufferSizes \subseteq Positive
    /\ HugeFrom \in Nat
    /\ MaxMade \in Nat /\ MaxFailures \in Nat

Request == [via : {"gpu", "system", "window"}, size : Positive, huge : BOOLEAN, map : BOOLEAN]
Gpu(size, huge, map) == [via |-> "gpu", size |-> size, huge |-> huge, map |-> map]
System(size) == [via |-> "system", size |-> size, huge |-> FALSE, map |-> TRUE]
Window == [via |-> "window", size |-> Size.window, huge |-> FALSE, map |-> FALSE]

\* What creating an object allocates, in the order of the code.
ContextNeeds == <<Gpu(Size.area, TRUE, TRUE), System(Size.notifier), Window,
                  System(Size.notifier), Window>>
StreamNeeds == <<Gpu(Size.page, FALSE, TRUE), Gpu(Size.page, FALSE, TRUE),
                 System(Size.pool), Gpu(Size.kernArgs, TRUE, TRUE)>>
ModuleNeeds == <<Gpu(Size.image, FALSE, TRUE)>>
BufferNeeds(size, map) == <<Gpu(size, size > HugeFrom, map)>>
LocalNeeds == <<Gpu(Size.local, TRUE, FALSE)>>

VARIABLES
    uvm_vaddr,          \* where the next region goes
    va_to_mem_handle,   \* the memory gpuFree knows: address -> handle
    hostMappedPtrs,     \* Seq([from, to])
    made,               \* memory objects made by the driver; handles are 1..made
    allocated,          \* the handles of those not freed (external)
    status,             \* [Objects -> {"none", "live", "lost", "gone"}]
    fields,             \* [Objects -> Seq(Nat)]: the addresses its fields hold
    local,              \* [Objects -> Nat]: shader_local_memory_va of a module's function
    call,               \* the call in progress
    frees, todo,        \* what it has yet to free, and then to allocate
    failures,
    \* History, read by the properties.
    reserved            \* what every reserved region was for

memory == <<uvm_vaddr, va_to_mem_handle, hostMappedPtrs, made, allocated, reserved>>
owners == <<status, fields, local>>
progress == <<call, frees, todo>>
vars == <<memory, owners, progress, failures>>

Reservation == [base : Nat, size : Positive, of : Objects, via : {"gpu", "system", "window"},
                map : BOOLEAN, handle : Nat]
Idle == [op |-> "idle"]
Call == [op : {"create", "grow", "destroy"}, of : Objects]

\* Every variable holds what the code's declarations allow; the handles in the
\* map are handles the driver made (librecuda.cpp:649-650, cmdqueue.h,
\* librecuda_internal.h:44-100).
TypeOK ==
    /\ uvm_vaddr \in Nat
    /\ DOMAIN va_to_mem_handle \subseteq Nat
    /\ va_to_mem_handle \in [DOMAIN va_to_mem_handle -> 1..made]
    /\ hostMappedPtrs \in Seq([from : Nat, to : Nat])
    /\ made \in Nat
    /\ allocated \subseteq 1..made
    /\ status \in [Objects -> {"none", "live", "lost", "gone"}]
    /\ fields \in [Objects -> Seq(Nat)]
    /\ local \in [Objects -> Nat]
    /\ call \in {Idle} \cup Call
    /\ frees \in Seq(Nat) /\ todo \in Seq(Request)
    /\ failures \in Nat
    /\ reserved \subseteq Reservation

Init ==
    /\ uvm_vaddr = HeapStart
    /\ va_to_mem_handle = [va \in {} |-> 0]
    /\ hostMappedPtrs = <<>>
    /\ made = 0
    /\ allocated = {}
    /\ status = [o \in Objects |-> "none"]
    /\ fields = [o \in Objects |-> <<>>]
    /\ local = [o \in Objects |-> 0]
    /\ call = Idle /\ frees = <<>> /\ todo = <<>>
    /\ failures = 0
    /\ reserved = {}

-----------------------------------------------------------------------------
(* The pointer predicates, asked while the context is current: without one  *)
(* the macro's error code comes back as TRUE.                               *)

isDevicePtr(va) == HeapStart <= va /\ va < uvm_vaddr

ContainsEnd(range, va) == range.from <= va /\ va <= range.to   \* mutant
Contains(range, va) == range.from <= va /\ va < range.to

\* The list is searched from its end; an entry that begins below va and does
\* not contain it ends the search.
isHostMappedPtr(va) ==
    /\ isDevicePtr(va)
    /\ \E i \in DOMAIN hostMappedPtrs :
          /\ Contains(hostMappedPtrs[i], va)
          /\ \A j \in DOMAIN hostMappedPtrs : j > i => va <= hostMappedPtrs[j].from

-----------------------------------------------------------------------------
(* Allocation.  done is how many of its fallible steps an allocation gets   *)
(* through.                                                                *)

RoundDown(size, align) == (size \div align) * align            \* mutant
RoundUp(size, align) == ((size + align - 1) \div align) * align

BumpDown(align) == uvm_vaddr - (uvm_vaddr % align)             \* mutant

\* bump_alloc_virtual_addr: the first aligned address that is free.
Bump(align) == LET slack == uvm_vaddr % align
               IN  IF slack = 0 THEN uvm_vaddr ELSE uvm_vaddr + (align - slack)

\* The requests are worked off after the frees.
Working == call.op \in {"create", "grow"} /\ frees = <<>> /\ todo # <<>>

\* The region of size at the bump pointer is used up, whatever comes after.
Reserve(req, size, align, handle) ==
    /\ uvm_vaddr' = Bump(align) + size
    /\ reserved' = reserved \cup
          {[base |-> Bump(align), size |-> size, of |-> call.of, via |-> req.via,
            map |-> req.map, handle |-> handle]}

\* An error is propagated to the caller: what is half-made is lost.
Abort ==
    /\ call' = Idle /\ frees' = <<>> /\ todo' = <<>>
    /\ status' = IF call.op = "create" THEN [status EXCEPT ![call.of] = "lost"] ELSE status

\* The address goes where the caller asked for it, and the call goes on.
Store(base) ==
    /\ todo' = Tail(todo) /\ UNCHANGED <<call, frees>>
    /\ IF call.op = "grow"
          THEN local' = [local EXCEPT ![call.of] = base] /\ UNCHANGED fields
          ELSE fields' = [fields EXCEPT ![call.of] = Append(@, base)] /\ UNCHANGED local
    /\ UNCHANGED status

Fault == failures < MaxFailures /\ failures' = failures + 1

\* The first step fails, RM_ALLOC for memory; or another ioctl or check of the
\* call does, between two allocations or after the last.
CallFails ==
    /\ \/ Working
       \/ call.op = "create" /\ Kind[call.of] \notin {"stream", "buffer"}
    /\ Fault /\ Abort
    /\ UNCHANGED <<memory, fields, local>>

MakeUncounted == made' = made /\ allocated' = allocated \cup {made + 1}  \* mutant
MakeObject ==
    /\ made' = made + 1
    /\ allocated' = allocated \cup {made + 1}

\* gpuAlloc: memory object and address, range, mapping, and if asked for the
\* mapping into the process; noted as mapped before it is, known to gpuFree
\* only when all is done.
GpuAlloc(done) ==
    /\ Working /\ Head(todo).via = "gpu"
    /\ LET req   == Head(todo)
           align == IF req.huge THEN HugePage ELSE SmallPage
           size  == RoundUp(req.size, align)
           base  == Bump(align)
           steps == IF req.map THEN 4 ELSE 3
       IN  /\ done <= steps
           /\ Reserve(req, size, align, made + 1)
           /\ MakeObject
           /\ hostMappedPtrs' = IF req.map /\ done >= 3
                 THEN Append(hostMappedPtrs, [from |-> base, to |-> base + size])
                 ELSE hostMappedPtrs
           /\ IF done = steps
                 THEN /\ va_to_mem_handle' =
                            [va \in DOMAIN va_to_mem_handle \cup {base} |->
                               IF va = base THEN made + 1 ELSE va_to_mem_handle[va]]
                      /\ Store(base) /\ UNCHANGED failures
                 ELSE /\ Fault /\ Abort
                      /\ UNCHANGED <<va_to_mem_handle, fields, local>>

\* gpuSystemAlloc: the process's mapping comes first, and neither map learns
\* of the memory.
GpuSystemAlloc(done) ==
    /\ Working /\ Head(todo).via = "system"
    /\ Reserve(Head(todo), Head(todo).size, SmallPage, made + 1)
    /\ MakeObject
    /\ IF done = 4
          THEN Store(Bump(SmallPage)) /\ UNCHANGED failures
          ELSE Fault /\ Abort /\ UNCHANGED <<fields, local>>
    /\ UNCHANGED <<va_to_mem_handle, hostMappedPtrs>>

\* makeGpuFifo: addresses for the channel, which is then registered with UVM.
OpenWindow(done) ==
    /\ Working /\ Head(todo).via = "window"
    /\ Reserve(Head(todo), Head(todo).size, SmallPage, 0)
    /\ IF done = 4
          THEN Store(Bump(SmallPage)) /\ UNCHANGED failures
          ELSE Fault /\ Abort /\ UNCHANGED <<fields, local>>
    /\ UNCHANGED <<va_to_mem_handle, hostMappedPtrs, made, allocated>>

-----------------------------------------------------------------------------
(* Freeing.                                                                *)

Freeing == call.op \in {"grow", "destroy"} /\ frees # <<>>

NextFree == frees' = Tail(frees) /\ UNCHANGED <<call, todo>>

\* The last entry that contains the address is erased.
Unmapped(va) ==
    {i \in DOMAIN hostMappedPtrs :
        /\ Contains(hostMappedPtrs[i], va)
        /\ \A j \in DOMAIN hostMappedPtrs : Contains(hostMappedPtrs[j], va) => j <= i}

Erase(s, i) == SubSeq(s, 1, i - 1) \o SubSeq(s, i + 1, Len(s))

GpuFree ==
    /\ Freeing
    /\ LET va == Head(frees)
       IN  /\ va \in DOMAIN va_to_mem_handle
           /\ allocated' = allocated \ {va_to_mem_handle[va]}
           /\ va_to_mem_handle' =
                 [a \in DOMAIN va_to_mem_handle \ {va} |-> va_to_mem_handle[a]]
           /\ IF Unmapped(va) = {}
                 THEN UNCHANGED hostMappedPtrs
                 ELSE \E i \in Unmapped(va) : hostMappedPtrs' = Erase(hostMappedPtrs, i)
    /\ NextFree
    /\ UNCHANGED <<uvm_vaddr, made, reserved, owners, failures>>

\* A destructor goes on after an error, every other caller returns it.
FreeError ==
    /\ IF Kind[call.of] = "stream" THEN NextFree ELSE Abort
    /\ UNCHANGED <<memory, owners>>

\* The address is not in the map: INVALID_VALUE.
FreeUnknown ==
    /\ Freeing /\ Head(frees) \notin DOMAIN va_to_mem_handle
    /\ FreeError /\ UNCHANGED failures

\* The ioctl fails: nothing is freed.
FreeFails ==
    /\ Freeing /\ Head(frees) \in DOMAIN va_to_mem_handle
    /\ Fault /\ FreeError

-----------------------------------------------------------------------------
(* The calls.                                                              *)

Begin(op, o, addresses, requests) ==
    /\ call = Idle
    /\ call' = [op |-> op, of |-> o]
    /\ frees' = addresses /\ todo' = requests
    /\ UNCHANGED <<memory, owners, failures>>

HasContext == \E c \in Objects : Kind[c] = "context" /\ status[c] = "live"

\* libreCuCtxCreate_v2, once.
CtxCreate(o) ==
    /\ Kind[o] = "context"
    /\ \A c \in Objects : Kind[c] = "context" => status[c] = "none"
    /\ Begin("create", o, <<>>, ContextNeeds)

StreamCreate(o) ==
    /\ Kind[o] = "stream" /\ status[o] = "none" /\ HasContext
    /\ Begin("create", o, <<>>, StreamNeeds)

ModuleLoadData(o) ==
    /\ Kind[o] = "module" /\ status[o] = "none" /\ HasContext
    /\ Begin("create", o, <<>>, ModuleNeeds)

MemAlloc(o, size, map) ==
    /\ Kind[o] = "buffer" /\ status[o] = "none" /\ HasContext
    /\ Begin("create", o, <<>>, BufferNeeds(size, map))

StreamFreesTwice(o) == <<fields[o][3], fields[o][1], fields[o][1], fields[o][4]>>  \* mutant
\* The fields NvCommandQueue's destructor frees: pool, pages, kernargs page.
StreamFrees(o) == <<fields[o][3], fields[o][1], fields[o][2], fields[o][4]>>

StreamDestroy(o) ==
    /\ Kind[o] = "stream" /\ status[o] = "live" /\ HasContext
    /\ Begin("destroy", o, StreamFrees(o), <<>>)

LocalKept(o) == <<>>                                           \* mutant
LocalFree(o) == IF local[o] = 0 THEN <<>> ELSE <<local[o]>>

ModuleUnload(o) ==
    /\ Kind[o] = "module" /\ status[o] = "live" /\ HasContext
    /\ Begin("destroy", o, fields[o] \o LocalFree(o), <<>>)

MemFree(o) ==
    /\ Kind[o] = "buffer" /\ status[o] = "live" /\ HasContext
    /\ Begin("destroy", o, fields[o], <<>>)

\* ensureEnoughLocalMem, when a launch needs more than its stream has.
EnsureEnoughLocalMem(o) ==
    /\ Kind[o] = "module" /\ status[o] = "live" /\ HasContext
    /\ \E s \in Objects : Kind[s] = "stream" /\ status[s] = "live"
    /\ made < MaxMade
    /\ Begin("grow", o, LocalFree(o), LocalNeeds)

\* libreCuCtxDestroy gives no memory back.  A stream keeps a pointer to its
\* context: programs destroy their streams first.
CtxDestroy(o) ==
    /\ call = Idle
    /\ Kind[o] = "context" /\ status[o] = "live"
    /\ \A s \in Objects : Kind[s] = "stream" => status[s] # "live"
    /\ status' = [status EXCEPT ![o] = "gone"]
    /\ UNCHANGED <<memory, fields, local, progress, failures>>

\* All is done.  libreCuCtxCreate_v2 makes the context current and then loads
\* the copy kernels.
Return ==
    /\ call # Idle /\ frees = <<>> /\ todo = <<>>
    /\ status' = [status EXCEPT ![call.of] = IF call.op = "destroy" THEN "gone" ELSE "live"]
    /\ IF Kind[call.of] = "context"
          THEN \E k \in Objects :
                  Kind[k] = "kernels" /\ call' = [op |-> "create", of |-> k] /\ todo' = ModuleNeeds
          ELSE call' = Idle /\ UNCHANGED todo
    /\ UNCHANGED <<memory, fields, local, frees, failures>>

CallStep ==
    \/ CallFails \/ GpuFree \/ FreeUnknown \/ FreeFails \/ Return
    \/ \E done \in 1..4 : GpuAlloc(done) \/ GpuSystemAlloc(done) \/ OpenWindow(done)

Next ==
    \/ call # Idle /\ CallStep
    \/ \E o \in Objects :
          \/ CtxCreate(o) \/ CtxDestroy(o) \/ StreamCreate(o) \/ StreamDestroy(o)
          \/ ModuleLoadData(o) \/ EnsureEnoughLocalMem(o) \/ ModuleUnload(o) \/ MemFree(o)
          \/ \E size \in BufferSizes, map \in BOOLEAN : MemAlloc(o, size, map)

Spec == Init /\ [][Next]_vars

-----------------------------------------------------------------------------
(* Properties.                                                             *)

Region(r) == [base |-> r.base, size |-> r.size]
Given == {Region(r) : r \in reserved}
Kept == {Region(r) : r \in {t \in reserved : t.base \in DOMAIN va_to_mem_handle}}

Regions == INSTANCE RegionStore WITH given <- Given, kept <- Kept

\* Addresses are given out once and regions never overlap, whatever sizes and
\* pages are asked for and wherever an allocation stops
\* (bump_alloc_virtual_addr, gpuAlloc, gpuFree).
ImplementsRegionStore == Regions!Spec

\* The addresses an object's fields hold that gpuAlloc returned: all but the
\* notifiers and windows of a context and the pool of a stream.
SystemFields == [context |-> 2..5, kernels |-> {}, stream |-> {3}, module |-> {}, buffer |-> {}]
Addresses(o) ==
    {fields[o][i] : i \in DOMAIN fields[o] \ SystemFields[Kind[o]]} \cup ({local[o]} \ {0})

Quiet(o) == call = Idle \/ call.of # o
Live(o) == status[o] = "live"

\* A live object's addresses are its own and refer to the memory that was made
\* for it: stream, buffer and kernels always, a module unless a growth of its
\* local memory or an unload failed half-way (ensureEnoughLocalMem frees the
\* old region first, libreCuModuleUnload the image).
OwnersHoldTheirMemory ==
    \A o \in Objects : Live(o) /\ Quiet(o) =>
        \/ Kind[o] = "module" /\ failures > 0
        \/ \A va \in Addresses(o) :
              /\ va \in DOMAIN va_to_mem_handle
              /\ va_to_mem_handle[va] \in allocated
              /\ \E r \in reserved :
                    r.base = va /\ r.of = o /\ r.handle = va_to_mem_handle[va]

\* isHostMappedPtr answers right for every address of memory in use, although
\* its search stops early and failed allocations leave entries behind
\* (librecuda.cpp:714, 766-771, 838-864).
HostMappedExact ==
    \A r \in reserved :
        r.via = "gpu" /\ r.base \in DOMAIN va_to_mem_handle =>
            \A va \in r.base..(r.base + r.size - 1) : isHostMappedPtr(va) <=> r.map

\* Between calls and without failures, all memory the driver made belongs to a
\* live object, the context, or is the signal pool of a destroyed stream.
NothingLost ==
    call = Idle /\ failures = 0 =>
        \A r \in reserved : r.handle \in allocated =>
            \/ Kind[r.of] \in {"context", "kernels"}
            \/ Kind[r.of] = "stream" /\ r.via = "system"
            \/ Live(r.of) /\ r.base \in Addresses(r.of)

\* gpuFree is refused only for a signal pool, which it never knew (the comment
\* at cmdqueue.cpp:261-263 says that it "shouldn't fail"), or for a module after
\* a failure: no call frees twice or frees another's address.
RefusedWithReason ==
    [][FreeUnknown =>
          \/ Kind[call.of] = "stream" /\ Head(frees) = fields[call.of][3]
          \/ Kind[call.of] = "module" /\ failures > 0]_vars
=============================================================================
