----------------------------- MODULE DriverInit -----------------------------
(***************************************************************************)
(* libreCuInit, the device handles and the contexts made from them         *)
(* (driverapi/src/librecuda.cpp): one thread, in which every open and      *)
(* ioctl may fail, and which may call again after an error.  What the      *)
(* kernel driver and CUDA_VISIBLE_DEVICES hold is outside.                 *)
(***************************************************************************)
EXTENDS Naturals, FiniteSets, Sequences

CONSTANTS
    Gpus,           \* num_gpus: cards NV_ESC_CARD_INFO reports as valid
    Instance,       \* [Ordinals -> Nat]: the instance the driver gives each
    Lists,          \* Seq(Item): CUDA_VISIBLE_DEVICES, <<>> when it is not set
    Garbage,        \* what may lie behind the elements of a vector
    Contexts,       \* calls of libreCuCtxCreate_v2 that reach the device
    NONE,           \* nullptr
    MaxFailures     \* bound: calls that fail

Ordinals == 0..(Gpus - 1)
Item == [n : Nat, clean : BOOLEAN]  \* clean: nothing follows the number

ASSUME GpuAssumption ==
    /\ Gpus \in Nat
    /\ Instance \in [Ordinals -> Nat]
    /\ \A g, h \in Ordinals : Instance[g] = Instance[h] => g = h
ASSUME OutsideAssumption ==
    /\ Lists \subseteq Seq(Item)
    /\ Garbage \subseteq Nat
    /\ NONE \notin Contexts
    /\ MaxFailures \in Nat

VARIABLES
    list,       \* the environment variable
    at,         \* the step of libreCuInit that comes next, "idle" outside
    next,       \* the index of its loop
    opened, fds,            \* files opened so far, and those still open
    fd_ctl, fd_uvm,         \* the number of the file, 0 for none
    root,                   \* the file the client was allocated with
    uvm,                    \* files UVM_INITIALIZE has set up
    devices, num_devices, device_instances, public_device_handles,
    librecudaInitialized,
    ctxs, current_ctx,
    reserved,   \* a context has taken the address ranges from UVM_HEAP_START
    failures,
    \* History, read by the properties only.
    partial,    \* a call failed between two instances
    unnoticed   \* files whose UVM_INITIALIZE failed without a status

files == <<opened, fds, fd_ctl, fd_uvm, root, uvm>>
tables == <<devices, num_devices, device_instances, public_device_handles,
            librecudaInitialized>>
contexts == <<ctxs, current_ctx, reserved>>
history == <<partial, unnoticed>>
vars == <<list, at, next, files, tables, contexts, failures, history>>

Steps == {"ctl", "uvm", "client", "initialize", "mm", "cards", "devices", "instances", "handles"}
Handle == [ordinal : Ordinals, instance : Nat]
Context == [state : {"none", "live", "gone", "lost"}, instance : Nat, fd : Nat]

Live == {c \in Contexts : ctxs[c].state = "live"}

\* Every variable holds what its declaration says (librecuda.cpp:48-61).
TypeOK ==
    /\ list \in Lists
    /\ at \in Steps \cup {"idle", "crashed"}
    /\ next \in Nat
    /\ opened \in Nat
    /\ fds \in SUBSET (1..opened)
    /\ fd_ctl \in 0..opened /\ fd_uvm \in 0..opened /\ root \in 0..opened
    /\ uvm \in SUBSET (1..opened) /\ unnoticed \in SUBSET (1..opened)
    /\ devices \in Seq(Ordinals)
    /\ num_devices \in Nat
    /\ device_instances \in Seq(Nat)
    /\ public_device_handles \in Seq(Handle)
    /\ librecudaInitialized \in BOOLEAN
    /\ ctxs \in [Contexts -> Context]
    /\ current_ctx \in Contexts \cup {NONE}
    /\ reserved \in BOOLEAN /\ partial \in BOOLEAN
    /\ failures \in Nat

Init ==
    /\ list \in Lists
    /\ at = "idle" /\ next = 0
    /\ opened = 0 /\ fds = {} /\ fd_ctl = 0 /\ fd_uvm = 0
    /\ root = 0 /\ uvm = {}
    /\ devices = <<>> /\ num_devices = 0
    /\ device_instances = <<>> /\ public_device_handles = <<>>
    /\ librecudaInitialized = FALSE
    /\ ctxs = [c \in Contexts |-> [state |-> "none", instance |-> 0, fd |-> 0]]
    /\ current_ctx = NONE
    /\ reserved = FALSE /\ partial = FALSE
    /\ failures = 0 /\ unnoticed = {}

-----------------------------------------------------------------------------
(* libreCuInit.                                                            *)

\* The ordinals the list is read as.  An item with something behind its number
\* is not inserted at its comma, and the next one begins where it began: the
\* rest of the list is one item, of which the number at its front counts.
Visible(l) ==
    IF l = <<>>
    THEN Ordinals
    ELSE {l[i].n : i \in {j \in DOMAIN l : \A k \in 1..(j - 1) : l[k].clean}}

MayFail == failures < MaxFailures /\ failures' = failures + 1

\* The call; once initialized it returns at once.
LibreCuInit ==
    /\ at = "idle" /\ ~librecudaInitialized
    /\ at' = "ctl"
    /\ UNCHANGED <<list, next, files, tables, contexts, failures, history>>

OpenFile ==
    /\ opened' = opened + 1
    /\ fds' = fds \cup {opened + 1}

OpenCtl ==
    /\ at = "ctl" /\ at' = "uvm"
    /\ OpenFile
    /\ fd_ctl' = opened + 1
    /\ UNCHANGED <<list, next, fd_uvm, root, uvm, tables, contexts, failures, history>>

OpenUvm ==
    /\ at = "uvm" /\ at' = "client"
    /\ OpenFile
    /\ fd_uvm' = opened + 1
    /\ UNCHANGED <<list, next, fd_ctl, root, uvm, tables, contexts, failures, history>>

ClientOnce == IF root # 0 THEN root ELSE fd_ctl                \* mutant
Client == fd_ctl

AllocClient ==
    /\ at = "client" /\ at' = "initialize"
    /\ root' = Client
    /\ UNCHANGED <<list, next, opened, fds, fd_ctl, fd_uvm, uvm, tables, contexts,
                   failures, history>>

\* UVM_IOCTL looks at the status the driver writes, and not at what ioctl
\* returns: a call that never reached the driver passes.
UvmInitialize ==
    /\ at = "initialize" /\ at' = "mm"
    /\ \/ uvm' = uvm \cup {fd_uvm} /\ UNCHANGED <<unnoticed, failures>>
       \/ MayFail /\ unnoticed' = unnoticed \cup {fd_uvm} /\ uvm' = uvm
    /\ UNCHANGED <<list, next, opened, fds, fd_ctl, fd_uvm, root, tables, contexts, partial>>

\* A second file, closed again on every path.
MmInitialize ==
    /\ at = "mm" /\ at' = "cards"
    /\ opened' = opened + 1
    /\ UNCHANGED <<list, next, fds, fd_ctl, fd_uvm, root, uvm, tables, contexts,
                   failures, history>>

CardInfo ==
    /\ at = "cards" /\ at' = "devices"
    /\ next' = 0
    /\ num_devices' = Gpus
    /\ UNCHANGED <<list, files, devices, device_instances, public_device_handles,
                   librecudaInitialized, contexts, failures, history>>

WithAny(g) == Append(devices, g)                               \* mutant
WithVisible(g) == IF g \in Visible(list) THEN Append(devices, g) ELSE devices

\* One card of the loop over the cards, or its end.
PushDevice ==
    /\ at = "devices"
    /\ IF next < Gpus
       THEN at' = at /\ next' = next + 1 /\ devices' = WithVisible(next)
       ELSE at' = "instances" /\ next' = 0 /\ devices' = devices
    /\ UNCHANGED <<list, files, num_devices, device_instances, public_device_handles,
                   librecudaInitialized, contexts, failures, history>>

\* One device of the loop over devices, which keeps those of failed calls.
PushInstance ==
    /\ at = "instances"
    /\ IF next < Len(devices)
       THEN /\ at' = at /\ next' = next + 1
            /\ device_instances' = Append(device_instances, Instance[devices[next + 1]])
       ELSE at' = "handles" /\ UNCHANGED <<next, device_instances>>
    /\ UNCHANGED <<list, files, devices, num_devices, public_device_handles,
                   librecudaInitialized, contexts, failures, history>>

OneMoreHandle == 0..num_devices                                \* mutant
HandleOrdinals == 0..(num_devices - 1)

\* A handle for every card, visible or not: behind the last instance lies
\* whatever the vector's memory holds, and nothing when there was no instance.
CreateHandles ==
    /\ at = "handles"
    /\ IF num_devices > 0 /\ device_instances = <<>>
       THEN /\ at' = "crashed"
            /\ UNCHANGED <<public_device_handles, librecudaInitialized>>
       ELSE \E junk \in [HandleOrdinals -> Garbage] :
            /\ public_device_handles' = public_device_handles
                  \o [i \in 1..Cardinality(HandleOrdinals) |->
                        [ordinal |-> i - 1,
                         instance |-> IF i <= Len(device_instances)
                                      THEN device_instances[i] ELSE junk[i - 1]]]
            /\ librecudaInitialized' = TRUE
            /\ at' = "idle"
    /\ UNCHANGED <<list, next, files, devices, num_devices, device_instances, contexts,
                   failures, history>>

\* open or an ioctl reports an error: libreCuInit returns it and keeps what it
\* has.
InitFails ==
    /\ at \in Steps \ {"devices", "handles"}
    /\ at = "instances" => next < Len(devices)
    /\ MayFail
    /\ at' = "idle"
    /\ fd_ctl' = IF at = "ctl" THEN 0 ELSE fd_ctl
    /\ fd_uvm' = IF at = "uvm" THEN 0 ELSE fd_uvm
    /\ partial' = (partial \/ (at = "instances" /\ next > 0))
    /\ UNCHANGED <<list, next, opened, fds, root, uvm, tables, contexts, unnoticed>>

-----------------------------------------------------------------------------
(* Contexts.                                                               *)

AnyInstance(h) == TRUE                                         \* mutant
KnownInstance(h) == \E i \in DOMAIN device_instances : device_instances[i] = h.instance

\* libreCuCtxCreate_v2 with the handle of an ordinal, up to its first open.
MayCreate(c, h) ==
    /\ at = "idle" /\ librecudaInitialized
    /\ ctxs[c].state = "none"
    /\ h.ordinal < num_devices
    /\ KnownInstance(h)

\* The context is made.  When the kernels for copies cannot be loaded the call
\* fails, with the context in place and at most one file lost.
CtxCreate(c, h) ==
    /\ MayCreate(c, h) /\ ~reserved
    /\ \/ opened' = opened + 1 /\ fds' = fds \cup {opened + 1} /\ failures' = failures
       \/ MayFail /\ \E lost \in {0, 1} :
             opened' = opened + 1 + lost /\ fds' = fds \cup (opened + 1)..(opened + 1 + lost)
    /\ ctxs' = [ctxs EXCEPT ![c] = [state |-> "live", instance |-> h.instance, fd |-> opened + 1]]
    /\ current_ctx' = c
    /\ reserved' = TRUE
    /\ UNCHANGED <<list, at, next, fd_ctl, fd_uvm, root, uvm, tables, history>>

\* It fails before: the context, its file and one that memMapToCpu opened are
\* lost.  A second context always does, at its first range.
CtxCreateFails(c, h) ==
    /\ MayCreate(c, h)
    /\ MayFail
    /\ \E lost \in 0..2 :
          opened' = opened + lost /\ fds' = fds \cup (opened + 1)..(opened + lost)
    /\ ctxs' = [ctxs EXCEPT ![c].state = "lost"]
    /\ reserved' \in {reserved, TRUE}
    /\ UNCHANGED <<list, at, next, fd_ctl, fd_uvm, root, uvm, tables, current_ctx, history>>

KeepFd(c) == fds                                               \* mutant
CloseFd(c) == fds \ {ctxs[c].fd}

CtxDestroy(c) ==
    /\ at = "idle" /\ c \in Live
    /\ current_ctx' = IF current_ctx = c THEN NONE ELSE current_ctx
    /\ fds' = CloseFd(c)
    /\ ctxs' = [ctxs EXCEPT ![c].state = "gone"]
    /\ UNCHANGED <<list, at, next, opened, fd_ctl, fd_uvm, root, uvm, tables, reserved,
                   failures, history>>

CtxSetCurrent(c) ==
    /\ at = "idle" /\ c \in Live
    /\ current_ctx' = c
    /\ UNCHANGED <<list, at, next, files, tables, ctxs, reserved, failures, history>>

Next ==
    \/ LibreCuInit \/ OpenCtl \/ OpenUvm \/ AllocClient \/ UvmInitialize \/ MmInitialize
    \/ CardInfo \/ PushDevice \/ PushInstance \/ CreateHandles \/ InitFails
    \/ \E c \in Contexts :
          \/ \E i \in DOMAIN public_device_handles :
                \/ CtxCreate(c, public_device_handles[i])
                \/ CtxCreateFails(c, public_device_handles[i])
          \/ CtxDestroy(c) \/ CtxSetCurrent(c)

Spec == Init /\ [][Next]_vars

-----------------------------------------------------------------------------
(* Properties.                                                             *)

Shown == Visible(list) \cap Ordinals

\* Each of the first handles stands for the visible card of its rank, however
\* many calls failed before, unless one failed between two instances: that
\* call's instances then come first (librecuda.cpp:186-206).
HandlesMatch ==
    librecudaInitialized /\ ~partial =>
        /\ Len(public_device_handles) = Gpus
        /\ \A g \in Shown :
              LET rank == Cardinality({v \in Shown : v < g})
              IN  public_device_handles[rank + 1] = [ordinal |-> rank, instance |-> Instance[g]]

\* A context is only ever opened on a card that the list names, although there
\* are handles for hidden cards and their instances were read from behind the
\* vector (librecuda.cpp:148-184, 398-401).
HiddenStayHidden ==
    \A c \in Live : \E g \in Shown : ctxs[c].instance = Instance[g]

\* After failed calls as after none, the library works with one set of files:
\* the client belongs to the control file in use, and UVM was set up on the one
\* in use, unless that failed unnoticed (librecuda.cpp:85-99).
SetUpIsFresh ==
    librecudaInitialized =>
        /\ fd_ctl # 0 /\ root = fd_ctl
        /\ fd_uvm \in uvm \cup unnoticed

\* What is in use stays open, the current context's file included, and a
\* failed call leaves at most two files open that nobody refers to
\* (librecuda.cpp:86-131, 410-418, 627-641).
FilesKept ==
    LET used == ({fd_ctl, fd_uvm} \ {0}) \cup {ctxs[c].fd : c \in Live}
    IN  /\ used \subseteq fds
        /\ current_ctx # NONE => current_ctx \in Live
        /\ Cardinality(fds \ used) <= 2 * failures
=============================================================================
