-------------------------- MODULE DriverInitProofs --------------------------
(***************************************************************************)
(* For every number of cards, every content of CUDA_VISIBLE_DEVICES and    *)
(* every pattern of failures: the library's variables keep their types, it *)
(* works with one set of files and leaks none without a failure, a context *)
(* is only opened on a card that is visible, and without a failure between *)
(* two cards a handle opens the card it stands for.                        *)
(***************************************************************************)
EXTENDS DriverInit, SequenceTheorems, FiniteSetTheorems, TLAPS

-----------------------------------------------------------------------------
(* The invariant.                                                          *)

ShownInstances == {Instance[g] : g \in Shown}

\* The vectors hold visible cards only, whatever calls they are left from.
VectorsShown ==
    /\ devices \in Seq(Shown)
    /\ device_instances \in Seq(ShownInstances)

\* What the steps of libreCuInit already passed have established.
Progress ==
    /\ at \notin {"idle", "ctl"} => fd_ctl # 0
    /\ at \notin {"idle", "ctl", "uvm"} => fd_uvm # 0
    /\ at \notin {"idle", "ctl", "uvm", "client"} => root = fd_ctl
    /\ at \notin {"idle", "ctl", "uvm", "client", "initialize"} => fd_uvm \in uvm \cup unnoticed
    /\ at \in {"devices", "instances", "handles"} => num_devices = Gpus
    /\ librecudaInitialized => at = "idle"

IInv == TypeOK /\ VectorsShown /\ Progress /\ HiddenStayHidden /\ SetUpIsFresh

-----------------------------------------------------------------------------
(* Helpers.                                                                *)

\* What can be read from the list are ordinals of cards.
LEMMA ShownFacts ==
    /\ Shown \subseteq Ordinals
    /\ ShownInstances \subseteq Nat
BY GpuAssumption DEF Shown, ShownInstances

\* A sequence over a set is one over every larger set.
LEMMA SubsetSeq ==
    ASSUME NEW S, NEW T, S \subseteq T, NEW q \in Seq(S)
    PROVE  q \in Seq(T)
<1>1. q = [i \in 1..Len(q) |-> q[i]] /\ Len(q) \in Nat /\ \A i \in 1..Len(q) : q[i] \in T
  OBVIOUS
<1> QED
  BY <1>1, SeqDef

\* As many ordinals get a handle as the driver reported cards.
LEMMA HandleCount ==
    ASSUME num_devices \in Nat
    PROVE  Cardinality(HandleOrdinals) = num_devices
<1>1. /\ 0 \in Int /\ num_devices - 1 \in Int
      /\ 0 > num_devices - 1 => num_devices = 0
      /\ (num_devices - 1) - 0 + 1 = num_devices
  OBVIOUS
<1>2. Cardinality(0..(num_devices - 1))
        = IF 0 > num_devices - 1 THEN 0 ELSE (num_devices - 1) - 0 + 1
  BY <1>1, FS_Interval
<1> QED
  BY <1>1, <1>2 DEF HandleOrdinals

\* The handles that one call makes.
LEMMA NewHandles ==
    ASSUME num_devices = Gpus, device_instances \in Seq(Nat),
           NEW junk \in [HandleOrdinals -> Garbage]
    PROVE  [i \in 1..Cardinality(HandleOrdinals) |->
              [ordinal |-> i - 1,
               instance |-> IF i <= Len(device_instances)
                            THEN device_instances[i] ELSE junk[i - 1]]] \in Seq(Handle)
<1>1. Gpus \in Nat /\ Cardinality(HandleOrdinals) = Gpus /\ HandleOrdinals = Ordinals
  BY GpuAssumption, HandleCount DEF HandleOrdinals, Ordinals
<1>2. ASSUME NEW i \in 1..Gpus
      PROVE  [ordinal |-> i - 1,
              instance |-> IF i <= Len(device_instances)
                           THEN device_instances[i] ELSE junk[i - 1]] \in Handle
  <2>1. i - 1 \in Ordinals
    BY <1>1, <1>2 DEF Ordinals
  <2>2. junk[i - 1] \in Nat
    BY <1>1, <2>1, OutsideAssumption
  <2>3. i <= Len(device_instances) => device_instances[i] \in Nat
    <3> SUFFICES ASSUME i <= Len(device_instances)
                 PROVE  device_instances[i] \in Nat
      OBVIOUS
    <3>1. i \in 1..Len(device_instances)
      BY <1>1, <1>2
    <3> QED
      BY <3>1
  <2> QED
    BY <2>1, <2>2, <2>3 DEF Handle
<1> QED
  BY <1>1, <1>2, SeqDef

-----------------------------------------------------------------------------
(* Init and the steps.                                                     *)

\* The invariant holds before the first call.
LEMMA InitEstablishes == Init => IInv
<1> SUFFICES ASSUME Init PROVE IInv
  OBVIOUS
<1>1. TypeOK
  <2>1. ctxs \in [Contexts -> Context]
    BY DEF Init, Context
  <2>2. /\ opened \in Nat /\ fds \in SUBSET (1..opened)
        /\ fd_ctl \in 0..opened /\ fd_uvm \in 0..opened /\ root \in 0..opened
        /\ uvm \in SUBSET (1..opened) /\ unnoticed \in SUBSET (1..opened)
    BY DEF Init
  <2>3. /\ devices \in Seq(Ordinals) /\ device_instances \in Seq(Nat)
        /\ public_device_handles \in Seq(Handle)
    BY EmptySeq DEF Init
  <2> QED
    BY <2>1, <2>2, <2>3 DEF Init, TypeOK
<1>2. VectorsShown /\ Progress /\ SetUpIsFresh
  BY DEF Init, VectorsShown, Progress, SetUpIsFresh
<1>3. HiddenStayHidden
  BY DEF Init, HiddenStayHidden, Live
<1> QED
  BY <1>1, <1>2, <1>3 DEF IInv

\* A step that changes neither the list nor a context keeps contexts hidden.
LEMMA ContextsKept ==
    ASSUME HiddenStayHidden, UNCHANGED <<list, ctxs>>
    PROVE  HiddenStayHidden'
BY DEF HiddenStayHidden, Live, Shown, Visible

\* A step that changes neither vector nor the list keeps them.
LEMMA VectorsKept ==
    ASSUME VectorsShown, UNCHANGED <<list, devices, device_instances>>
    PROVE  VectorsShown'
BY DEF VectorsShown, ShownInstances, Shown, Visible

\* The steps that open files and set the client and UVM up.
LEMMA FileSteps ==
    ASSUME IInv,
           LibreCuInit \/ OpenCtl \/ OpenUvm \/ AllocClient \/ UvmInitialize \/ MmInitialize
    PROVE  IInv'
<1> USE DEF IInv
<1>1. /\ UNCHANGED <<list, devices, device_instances, ctxs, num_devices, next,
                     public_device_handles, librecudaInitialized, current_ctx, reserved, partial>>
      /\ ~librecudaInitialized
  BY DEF LibreCuInit, OpenCtl, OpenUvm, AllocClient, UvmInitialize, MmInitialize, Progress,
         files, tables, contexts, history
<1>2. VectorsShown' /\ HiddenStayHidden'
  BY <1>1, ContextsKept, VectorsKept
<1>3. SetUpIsFresh'
  BY <1>1 DEF SetUpIsFresh
<1>4. /\ opened' \in Nat /\ opened' >= opened
      /\ fds' \subseteq 1..opened'
      /\ fd_ctl' \in 0..opened' /\ fd_uvm' \in 0..opened' /\ root' \in 0..opened'
      /\ uvm' \subseteq 1..opened' /\ unnoticed' \subseteq 1..opened'
      /\ at' \in Steps
      /\ failures' \in Nat
  <2>1. CASE LibreCuInit
    BY <2>1 DEF LibreCuInit, TypeOK, files, tables, contexts, history, Steps
  <2>2. CASE OpenCtl
    BY <2>2 DEF OpenCtl, OpenFile, TypeOK, files, tables, contexts, history, Steps
  <2>3. CASE OpenUvm
    BY <2>3 DEF OpenUvm, OpenFile, TypeOK, files, tables, contexts, history, Steps
  <2>4. CASE AllocClient
    BY <2>4 DEF AllocClient, Client, TypeOK, files, tables, contexts, history, Steps
  <2>5. CASE UvmInitialize
    <3>1. fd_uvm # 0
      BY <2>5 DEF UvmInitialize, Progress
    <3>2. fd_uvm \in 1..opened
      BY <3>1 DEF TypeOK
    <3>3. /\ UNCHANGED <<opened, fds, fd_ctl, fd_uvm, root>>
          /\ at' \in Steps
          /\ uvm' \subseteq uvm \cup {fd_uvm} /\ unnoticed' \subseteq unnoticed \cup {fd_uvm}
          /\ failures' = failures \/ failures' = failures + 1
      BY <2>5 DEF UvmInitialize, MayFail, Steps
    <3> QED
      BY <3>2, <3>3 DEF TypeOK
  <2>6. CASE MmInitialize
    BY <2>6 DEF MmInitialize, TypeOK, files, tables, contexts, history, Steps
  <2> QED
    BY <2>1, <2>2, <2>3, <2>4, <2>5, <2>6
<1>5. TypeOK'
  BY <1>1, <1>4 DEF TypeOK
<1>6. Progress'
  BY <1>1 DEF Progress, TypeOK, LibreCuInit, OpenCtl, OpenUvm, AllocClient, UvmInitialize,
         MmInitialize, OpenFile, Client, files, tables, contexts, history, MayFail
<1> QED
  BY <1>2, <1>3, <1>5, <1>6

\* The steps that fill the tables of devices and handles.
LEMMA TableSteps ==
    ASSUME IInv, CardInfo \/ PushDevice \/ PushInstance \/ CreateHandles
    PROVE  IInv'
<1> USE DEF IInv
<1>1. /\ UNCHANGED <<list, opened, fds, fd_ctl, fd_uvm, root, uvm, ctxs, current_ctx, reserved,
                     failures, partial, unnoticed>>
      /\ ~librecudaInitialized
      /\ at \notin {"idle", "ctl", "uvm", "client", "initialize"}
      /\ at' \in Steps \cup {"idle", "crashed"}
  BY DEF CardInfo, PushDevice, PushInstance, CreateHandles, Progress, files, contexts,
         history, Steps
<1>2. HiddenStayHidden'
  BY <1>1, ContextsKept
<1>3. SetUpIsFresh'
  BY <1>1 DEF SetUpIsFresh, Progress
<1>4. Shown' = Shown /\ ShownInstances' = ShownInstances
  BY <1>1 DEF Shown, ShownInstances, Visible
<1>5. VectorsShown'
  <2>1. CASE CardInfo \/ CreateHandles
    BY <2>1, <1>1, VectorsKept DEF CardInfo, CreateHandles
  <2>2. CASE PushDevice
    <3>1. next < Gpus => WithVisible(next) \in Seq(Shown)
      <4> SUFFICES ASSUME next < Gpus, next \in Visible(list)
                   PROVE  Append(devices, next) \in Seq(Shown)
        BY DEF WithVisible, VectorsShown
      <4>1. next \in Ordinals
        BY GpuAssumption DEF TypeOK, Ordinals
      <4>2. next \in Shown
        BY <4>1 DEF Shown
      <4> QED
        BY <4>2, AppendProperties DEF VectorsShown
    <3>2. devices' \in Seq(Shown) /\ device_instances' = device_instances
      BY <2>2, <3>1 DEF PushDevice, VectorsShown
    <3> QED
      BY <3>2, <1>4 DEF VectorsShown
  <2>3. CASE PushInstance
    <3>1. next < Len(devices) =>
             Append(device_instances, Instance[devices[next + 1]]) \in Seq(ShownInstances)
      <4> SUFFICES ASSUME next < Len(devices)
                   PROVE  Append(device_instances, Instance[devices[next + 1]])
                            \in Seq(ShownInstances)
        OBVIOUS
      <4>1. next + 1 \in 1..Len(devices)
        BY DEF TypeOK
      <4>2. devices[next + 1] \in Shown
        BY <4>1 DEF VectorsShown
      <4>3. Instance[devices[next + 1]] \in ShownInstances
        BY <4>2 DEF ShownInstances
      <4> QED
        BY <4>3, AppendProperties DEF VectorsShown
    <3>2. device_instances' \in Seq(ShownInstances) /\ devices' = devices
      BY <2>3, <3>1 DEF PushInstance, VectorsShown
    <3> QED
      BY <3>2, <1>4 DEF VectorsShown
  <2> QED
    BY <2>1, <2>2, <2>3
<1>6. Progress'
  BY <1>1, GpuAssumption DEF Progress, CardInfo, PushDevice, PushInstance, CreateHandles, Steps
<1>7. public_device_handles' \in Seq(Handle)
  <2>1. CASE CardInfo \/ PushDevice \/ PushInstance
    BY <2>1 DEF CardInfo, PushDevice, PushInstance, TypeOK
  <2>2. CASE CreateHandles
    <3>1. num_devices = Gpus
      BY <2>2 DEF CreateHandles, Progress
    <3>2. device_instances \in Seq(Nat)
      BY DEF TypeOK
    <3>3. CASE num_devices > 0 /\ device_instances = <<>>
      BY <2>2, <3>3 DEF CreateHandles, TypeOK
    <3>4. CASE ~(num_devices > 0 /\ device_instances = <<>>)
      <4>1. PICK junk \in [HandleOrdinals -> Garbage] :
               public_device_handles' = public_device_handles
                  \o [i \in 1..Cardinality(HandleOrdinals) |->
                        [ordinal |-> i - 1,
                         instance |-> IF i <= Len(device_instances)
                                      THEN device_instances[i] ELSE junk[i - 1]]]
        BY <2>2, <3>4 DEF CreateHandles
      <4>2. public_device_handles \in Seq(Handle)
        BY DEF TypeOK
      <4> QED
        BY <4>1, <4>2, <3>1, <3>2, NewHandles, ConcatProperties
    <3> QED
      BY <3>3, <3>4
  <2> QED
    BY <2>1, <2>2
<1>8. /\ next' \in Nat /\ num_devices' \in Nat /\ librecudaInitialized' \in BOOLEAN
  <2>1. next' \in {0, next, next + 1}
    BY DEF CardInfo, PushDevice, PushInstance, CreateHandles
  <2>2. num_devices' \in {num_devices, Gpus}
    BY DEF CardInfo, PushDevice, PushInstance, CreateHandles
  <2>3. librecudaInitialized' \in {librecudaInitialized, TRUE}
    BY DEF CardInfo, PushDevice, PushInstance, CreateHandles
  <2>4. next' \in Nat /\ num_devices' \in Nat
    BY <2>1, <2>2, GpuAssumption DEF TypeOK
  <2>5. librecudaInitialized' \in BOOLEAN
    BY <2>3 DEF TypeOK
  <2> QED
    BY <2>4, <2>5
<1>9. devices' \in Seq(Ordinals) /\ device_instances' \in Seq(Nat)
  <2>1. devices' \in Seq(Shown) /\ device_instances' \in Seq(ShownInstances)
    BY <1>4, <1>5 DEF VectorsShown
  <2> QED
    BY <2>1, ShownFacts, SubsetSeq
<1>10. TypeOK'
  BY <1>1, <1>7, <1>8, <1>9 DEF TypeOK
<1> QED
  BY <1>2, <1>3, <1>5, <1>6, <1>10

\* A failed call.
LEMMA FailSteps ==
    ASSUME IInv, InitFails
    PROVE  IInv'
<1> USE DEF IInv
<1>1. /\ UNCHANGED <<list, devices, device_instances, ctxs, num_devices, next, opened, fds, root,
                     uvm, unnoticed, public_device_handles, librecudaInitialized, current_ctx,
                     reserved>>
      /\ at # "idle" /\ at' = "idle"
      /\ failures' = failures + 1
      /\ fd_ctl' \in {0, fd_ctl} /\ fd_uvm' \in {0, fd_uvm}
  BY DEF InitFails, MayFail, tables, contexts, Steps
<1>2. ~librecudaInitialized
  BY <1>1 DEF Progress
<1>3. partial' \in BOOLEAN
  BY DEF InitFails
<1>4. VectorsShown' /\ HiddenStayHidden'
  BY <1>1, ContextsKept, VectorsKept
<1>5. SetUpIsFresh' /\ Progress'
  BY <1>1, <1>2 DEF SetUpIsFresh, Progress
<1>6. TypeOK'
  BY <1>1, <1>3 DEF TypeOK
<1> QED
  BY <1>4, <1>5, <1>6

-----------------------------------------------------------------------------
(* Contexts.                                                               *)

\* What the steps on contexts leave alone.
LEMMA ContextFrame ==
    ASSUME IInv,
           UNCHANGED <<list, at, next, fd_ctl, fd_uvm, root, uvm, tables, history>>,
           opened' \in Nat, opened' >= opened, fds' \subseteq 1..opened',
           ctxs' \in [Contexts -> Context], current_ctx' \in Contexts \cup {NONE},
           reserved' \in BOOLEAN, failures' \in Nat
    PROVE  TypeOK' /\ VectorsShown' /\ Progress' /\ SetUpIsFresh'
<1>1. UNCHANGED <<devices, device_instances, num_devices, public_device_handles,
                  librecudaInitialized, partial, unnoticed>>
  BY DEF tables, history
<1>2. TypeOK'
  BY <1>1 DEF IInv, TypeOK
<1>3. VectorsShown'
  BY <1>1, VectorsKept DEF IInv
<1>4. Progress' /\ SetUpIsFresh'
  BY <1>1 DEF IInv, Progress, SetUpIsFresh
<1> QED
  BY <1>2, <1>3, <1>4

\* libreCuCtxCreate_v2, whether it succeeds or not.
LEMMA CreateSteps ==
    ASSUME IInv, NEW c \in Contexts, NEW h \in Handle, CtxCreate(c, h) \/ CtxCreateFails(c, h)
    PROVE  IInv'
<1>1. KnownInstance(h) => h.instance \in ShownInstances
  <2> SUFFICES ASSUME NEW i \in DOMAIN device_instances, device_instances[i] = h.instance
               PROVE  h.instance \in ShownInstances
    BY DEF KnownInstance
  <2> QED
    BY DEF IInv, VectorsShown
<1>2. \E n \in 0..2 : opened' = opened + n /\ fds' = fds \cup ((opened + 1)..(opened + n))
  <2>0. opened \in Nat
    BY DEF IInv, TypeOK
  <2>1. CASE CtxCreate(c, h)
    <3>1. CASE opened' = opened + 1 /\ fds' = fds \cup {opened + 1}
      BY <2>0, <3>1
    <3>2. CASE \E lost \in {0, 1} : /\ opened' = opened + 1 + lost
                                    /\ fds' = fds \cup ((opened + 1)..(opened + 1 + lost))
      BY <2>0, <3>2
    <3> QED
      BY <2>1, <3>1, <3>2 DEF CtxCreate
  <2>2. CASE CtxCreateFails(c, h)
    BY <2>2 DEF CtxCreateFails
  <2> QED
    BY <2>1, <2>2
<1>3. opened' \in Nat /\ opened' >= opened /\ fds' \subseteq 1..opened'
  BY <1>2 DEF IInv, TypeOK
<1>4. /\ UNCHANGED <<list, at, next, fd_ctl, fd_uvm, root, uvm, tables, history>>
      /\ failures' \in Nat
  <2>1. UNCHANGED <<list, at, next, fd_ctl, fd_uvm, root, uvm, tables, history>>
    BY DEF CtxCreate, CtxCreateFails
  <2>2. failures' = failures \/ failures' = failures + 1
    BY DEF CtxCreate, CtxCreateFails, MayFail
  <2> QED
    BY <2>1, <2>2 DEF IInv, TypeOK
<1>5. current_ctx' \in Contexts \cup {NONE} /\ reserved' \in BOOLEAN
  BY DEF CtxCreate, CtxCreateFails, IInv, TypeOK
<1>6. Shown' = Shown
  BY <1>4 DEF Shown, Visible
<1>7. CASE CtxCreate(c, h)
  <2>1. ctxs' = [ctxs EXCEPT ![c] =
                   [state |-> "live", instance |-> h.instance, fd |-> opened + 1]]
    BY <1>7 DEF CtxCreate
  <2>2. ctxs \in [Contexts -> Context] /\ h.instance \in Nat /\ opened + 1 \in Nat
    BY DEF IInv, TypeOK, Handle
  <2>3. ctxs' \in [Contexts -> Context]
    BY <2>1, <2>2 DEF Context
  <2>4. h.instance \in ShownInstances
    BY <1>1, <1>7 DEF CtxCreate, MayCreate
  <2>5. HiddenStayHidden'
    BY <2>1, <2>2, <2>4, <1>6 DEF IInv, HiddenStayHidden, Live, ShownInstances
  <2> QED
    BY <1>3, <1>4, <1>5, <2>3, <2>5, ContextFrame DEF IInv
<1>8. CASE CtxCreateFails(c, h)
  <2>1. ctxs' = [ctxs EXCEPT ![c].state = "lost"]
    BY <1>8 DEF CtxCreateFails
  <2>2. ctxs \in [Contexts -> Context]
    BY DEF IInv, TypeOK
  <2>3. ctxs' \in [Contexts -> Context]
    BY <2>1, <2>2 DEF Context
  <2>4. Live' \subseteq Live /\ \A d \in Live' : ctxs'[d].instance = ctxs[d].instance
    BY <2>1, <2>2 DEF Live, Context
  <2>5. HiddenStayHidden'
    BY <2>4, <1>6 DEF IInv, HiddenStayHidden
  <2> QED
    BY <1>3, <1>4, <1>5, <2>3, <2>5, ContextFrame DEF IInv
<1> QED
  BY <1>7, <1>8

\* libreCuCtxDestroy and libreCuCtxSetCurrent.
LEMMA OtherContextSteps ==
    ASSUME IInv, NEW c \in Contexts, CtxDestroy(c) \/ CtxSetCurrent(c)
    PROVE  IInv'
<1>1. /\ UNCHANGED <<list, at, next, opened, fd_ctl, fd_uvm, root, uvm, tables, reserved,
                     failures, history>>
      /\ fds' \subseteq fds
      /\ current_ctx' \in {current_ctx, NONE, c}
  BY DEF CtxDestroy, CtxSetCurrent, CloseFd, files
<1>2. ctxs \in [Contexts -> Context]
  BY DEF IInv, TypeOK
<1>3. ctxs' = ctxs \/ ctxs' = [ctxs EXCEPT ![c].state = "gone"]
  BY DEF CtxDestroy, CtxSetCurrent
<1>4. ctxs' \in [Contexts -> Context]
  BY <1>2, <1>3 DEF Context
<1>5. Shown' = Shown
  BY <1>1 DEF Shown, Visible
<1>6. HiddenStayHidden'
  <2>1. Live' \subseteq Live /\ \A d \in Live' : ctxs'[d].instance = ctxs[d].instance
    BY <1>2, <1>3 DEF Live, Context
  <2> QED
    BY <2>1, <1>5 DEF IInv, HiddenStayHidden
<1>7. /\ opened' \in Nat /\ opened' >= opened /\ fds' \subseteq 1..opened'
      /\ current_ctx' \in Contexts \cup {NONE} /\ reserved' \in BOOLEAN /\ failures' \in Nat
  BY <1>1 DEF IInv, TypeOK
<1> QED
  BY <1>1, <1>4, <1>6, <1>7, ContextFrame DEF IInv

\* A step that changes nothing.
LEMMA StutterKeeps == IInv /\ UNCHANGED vars => IInv'
<1> SUFFICES ASSUME IInv, UNCHANGED vars
             PROVE  IInv'
  OBVIOUS
<1>1. /\ UNCHANGED <<list, at, next, fd_ctl, fd_uvm, root, uvm, tables, history>>
      /\ UNCHANGED <<opened, fds, ctxs, current_ctx, reserved, failures>>
  BY DEF vars, files, contexts
<1>2. /\ opened' \in Nat /\ opened' >= opened /\ fds' \subseteq 1..opened'
      /\ ctxs' \in [Contexts -> Context]
      /\ current_ctx' \in Contexts \cup {NONE} /\ reserved' \in BOOLEAN /\ failures' \in Nat
  BY <1>1 DEF IInv, TypeOK
<1> QED
  BY <1>1, <1>2, ContextFrame, ContextsKept DEF IInv

\* Every step keeps the invariant.
LEMMA StepKeeps == IInv /\ [Next]_vars => IInv'
<1> SUFFICES ASSUME IInv, [Next]_vars
             PROVE  IInv'
  OBVIOUS
<1>1. CASE LibreCuInit \/ OpenCtl \/ OpenUvm \/ AllocClient \/ UvmInitialize \/ MmInitialize
  BY <1>1, FileSteps
<1>2. CASE CardInfo \/ PushDevice \/ PushInstance \/ CreateHandles
  BY <1>2, TableSteps
<1>3. CASE InitFails
  BY <1>3, FailSteps
<1>4. ASSUME NEW c \in Contexts, NEW i \in DOMAIN public_device_handles,
             \/ CtxCreate(c, public_device_handles[i])
             \/ CtxCreateFails(c, public_device_handles[i])
      PROVE  IInv'
  <2>1. public_device_handles[i] \in Handle
    BY <1>4 DEF IInv, TypeOK
  <2> QED
    BY <1>4, <2>1, CreateSteps
<1>5. ASSUME NEW c \in Contexts, CtxDestroy(c) \/ CtxSetCurrent(c)
      PROVE  IInv'
  BY <1>5, OtherContextSteps
<1>6. CASE UNCHANGED vars
  BY <1>6, StutterKeeps
<1> QED
  BY <1>1, <1>2, <1>3, <1>4, <1>5, <1>6 DEF Next

\* The invariant holds throughout.
LEMMA Invariance == Spec => []IInv
<1> QED
  BY InitEstablishes, StepKeeps, PTL DEF Spec

-----------------------------------------------------------------------------
(* Files: what each failed call costs.                                     *)

\* Numbers of files left from a failed call, which the next call overwrites.
Stale ==
    IF librecudaInitialized
    THEN {}
    ELSE (IF at \in {"idle", "ctl"} THEN {fd_ctl} ELSE {})
            \cup (IF at \in {"idle", "ctl", "uvm"} THEN {fd_uvm} ELSE {})

ContextFiles == {ctxs[c].fd : c \in Live}
Needed == ({fd_ctl, fd_uvm} \ ({0} \cup Stale)) \cup ContextFiles

\* The files of the library and of its one live context are open and apart,
\* and all other open files are paid for by failures, two for each.
FilesInv ==
    /\ {fd_ctl, fd_uvm} \ {0} \subseteq fds
    /\ fd_ctl = fd_uvm => fd_ctl = 0
    /\ Live # {} => reserved /\ librecudaInitialized
    /\ \A c, d \in Live : c = d
    /\ \A c \in Live : ctxs[c].fd \in fds \ {fd_ctl, fd_uvm}
    /\ current_ctx # NONE => current_ctx \in Live
    /\ Cardinality(fds \ Needed) <= 2 * failures

\* The open files are finitely many.
LEMMA FilesFinite ==
    ASSUME TypeOK
    PROVE  IsFiniteSet(fds) /\ \A S : IsFiniteSet(fds \ S)
<1>1. IsFiniteSet(1..opened)
  BY FS_Interval DEF TypeOK
<1>2. IsFiniteSet(fds)
  BY <1>1, FS_Subset DEF TypeOK
<1>3. ASSUME NEW S PROVE IsFiniteSet(fds \ S)
  BY <1>2, FS_Subset
<1> QED
  BY <1>2, <1>3

\* A step that leaves no more files to no one keeps the account.
LEMMA NoneLost ==
    ASSUME TypeOK, FilesInv, failures' \in Nat, failures' >= failures,
           fds' \ Needed' \subseteq fds \ Needed
    PROVE  Cardinality(fds' \ Needed') <= 2 * failures'
<1>1. IsFiniteSet(fds \ Needed)
  BY FilesFinite
<1>2. /\ Cardinality(fds' \ Needed') <= Cardinality(fds \ Needed)
      /\ IsFiniteSet(fds' \ Needed')
  BY <1>1, FS_Subset
<1>3. Cardinality(fds' \ Needed') \in Nat /\ Cardinality(fds \ Needed) \in Nat
  BY <1>1, <1>2, FS_CardinalityType
<1>4. failures \in Nat /\ Cardinality(fds \ Needed) <= 2 * failures
  BY DEF TypeOK, FilesInv
<1> QED
  BY <1>2, <1>3, <1>4

\* A finite set with one element more.
LEMMA OneMore ==
    ASSUME NEW S, IsFiniteSet(S), NEW x
    PROVE  /\ IsFiniteSet(S \cup {x})
           /\ Cardinality(S) \in Nat /\ Cardinality(S \cup {x}) \in Nat
           /\ Cardinality(S \cup {x}) <= Cardinality(S) + 1
<1>1. Cardinality(S) \in Nat
  BY FS_CardinalityType
<1>2. /\ IsFiniteSet(S \cup {x})
      /\ Cardinality(S \cup {x}) = IF x \in S THEN Cardinality(S) ELSE Cardinality(S) + 1
  BY FS_AddElement
<1> QED
  BY <1>1, <1>2

\* A failing step may leave two.
LEMMA TwoLost ==
    ASSUME TypeOK, FilesInv, failures' = failures + 1, NEW a, NEW b,
           fds' \ Needed' \subseteq (fds \ Needed) \cup {a, b}
    PROVE  Cardinality(fds' \ Needed') <= 2 * failures'
<1> DEFINE S == fds \ Needed
<1>1. IsFiniteSet(S)
  BY FilesFinite
<1> HIDE DEF S
<1>2. /\ IsFiniteSet(S \cup {a})
      /\ Cardinality(S) \in Nat /\ Cardinality(S \cup {a}) \in Nat
      /\ Cardinality(S \cup {a}) <= Cardinality(S) + 1
  BY <1>1, OneMore
<1>3. /\ IsFiniteSet((S \cup {a}) \cup {b})
      /\ Cardinality((S \cup {a}) \cup {b}) \in Nat
      /\ Cardinality((S \cup {a}) \cup {b}) <= Cardinality(S \cup {a}) + 1
  BY <1>2, OneMore
<1>4. fds' \ Needed' \subseteq (S \cup {a}) \cup {b}
  BY DEF S
<1>5. /\ Cardinality(fds' \ Needed') <= Cardinality((S \cup {a}) \cup {b})
      /\ IsFiniteSet(fds' \ Needed')
  BY <1>3, <1>4, FS_Subset
<1>6. Cardinality(fds' \ Needed') \in Nat
  BY <1>5, FS_CardinalityType
<1>7. failures \in Nat /\ Cardinality(S) <= 2 * failures
  BY DEF TypeOK, FilesInv, S
<1> QED
  BY <1>2, <1>3, <1>5, <1>6, <1>7

\* The steps of libreCuInit, in which no context lives.
LEMMA FilesInSetUp ==
    ASSUME IInv, FilesInv,
           \/ LibreCuInit \/ OpenCtl \/ OpenUvm \/ AllocClient \/ UvmInitialize \/ MmInitialize
           \/ CardInfo \/ PushDevice \/ PushInstance \/ CreateHandles \/ InitFails
    PROVE  FilesInv'
<1> USE DEF IInv
<1>1. ~librecudaInitialized /\ Live = {} /\ UNCHANGED <<ctxs, current_ctx, reserved>>
  <2>1. ~librecudaInitialized
    BY DEF LibreCuInit, OpenCtl, OpenUvm, AllocClient, UvmInitialize, MmInitialize, CardInfo,
           PushDevice, PushInstance, CreateHandles, InitFails, Progress, Steps
  <2>2. UNCHANGED contexts
    BY DEF LibreCuInit, OpenCtl, OpenUvm, AllocClient, UvmInitialize, MmInitialize, CardInfo,
           PushDevice, PushInstance, CreateHandles, InitFails
  <2> QED
    BY <2>1, <2>2 DEF contexts, FilesInv
<1>2. Live' = {} /\ ContextFiles = {} /\ ContextFiles' = {}
  BY <1>1 DEF Live, ContextFiles
<1>3. failures \in Nat /\ opened \in Nat /\ fds \subseteq 1..opened
      /\ fd_ctl \in 0..opened /\ fd_uvm \in 0..opened
  BY DEF TypeOK
<1>4. CASE OpenCtl
  <2>1. /\ fds' = fds \cup {fd_ctl'} /\ fd_ctl' = opened + 1 /\ fd_uvm' = fd_uvm
        /\ at = "ctl" /\ at' = "uvm" /\ UNCHANGED <<librecudaInitialized, failures>>
    BY <1>4 DEF OpenCtl, OpenFile, tables
  <2>2. Needed = {} /\ Needed' = {fd_ctl'}
    BY <1>1, <1>2, <1>3, <2>1 DEF Needed, Stale
  <2>3. fds' \ Needed' \subseteq fds \ Needed
    BY <2>1, <2>2
  <2>4. Cardinality(fds' \ Needed') <= 2 * failures'
    BY <1>3, <2>1, <2>3, NoneLost
  <2> QED
    BY <1>1, <1>2, <1>3, <2>1, <2>4 DEF FilesInv
<1>5. CASE OpenUvm
  <2>1. /\ fds' = fds \cup {fd_uvm'} /\ fd_uvm' = opened + 1 /\ fd_ctl' = fd_ctl
        /\ at = "uvm" /\ at' = "client" /\ UNCHANGED <<librecudaInitialized, failures>>
    BY <1>5 DEF OpenUvm, OpenFile, tables
  <2>2. fd_ctl # 0 /\ fd_ctl # fd_uvm
    BY <2>1 DEF Progress, FilesInv
  <2>3. Needed = {fd_ctl} /\ Needed' = {fd_ctl, fd_uvm'}
    BY <1>1, <1>2, <1>3, <2>1, <2>2 DEF Needed, Stale
  <2>4. fds' \ Needed' \subseteq fds \ Needed
    BY <2>1, <2>3
  <2>5. Cardinality(fds' \ Needed') <= 2 * failures'
    BY <1>3, <2>1, <2>4, NoneLost
  <2> QED
    BY <1>1, <1>2, <1>3, <2>1, <2>2, <2>5 DEF FilesInv
<1>6. CASE InitFails
  <2>1. /\ UNCHANGED <<fds, librecudaInitialized>> /\ at' = "idle" /\ failures' = failures + 1
        /\ fd_ctl' \in {0, fd_ctl} /\ fd_uvm' \in {0, fd_uvm}
    BY <1>6 DEF InitFails, MayFail, tables
  <2>2. Needed' = {} /\ Needed \subseteq {fd_ctl, fd_uvm}
    BY <1>1, <1>2, <2>1 DEF Needed, Stale
  <2>3. fds' \ Needed' \subseteq (fds \ Needed) \cup {fd_ctl, fd_uvm}
    BY <2>1, <2>2
  <2>4. Cardinality(fds' \ Needed') <= 2 * failures'
    BY <2>1, <2>3, TwoLost
  <2> QED
    BY <1>1, <1>2, <2>1, <2>4 DEF FilesInv
<1>7. CASE \/ LibreCuInit \/ AllocClient \/ UvmInitialize \/ MmInitialize
           \/ CardInfo \/ PushDevice \/ PushInstance \/ CreateHandles
  <2>1. /\ UNCHANGED <<fds, fd_ctl, fd_uvm>>
        /\ \/ at = "idle" /\ at' = "ctl" /\ ~librecudaInitialized'
           \/ at \notin {"idle", "ctl", "uvm"}
              /\ (at' \notin {"idle", "ctl", "uvm"} \/ librecudaInitialized')
        /\ failures' \in {failures, failures + 1}
    BY <1>1, <1>7
       DEF LibreCuInit, AllocClient, UvmInitialize, MmInitialize, CardInfo, PushDevice,
           PushInstance, CreateHandles, files, tables, Steps, MayFail
  <2>2. Needed' = Needed
    BY <1>1, <1>2, <2>1 DEF Needed, Stale
  <2>3. Cardinality(fds' \ Needed') <= 2 * failures'
    BY <1>3, <2>1, <2>2, NoneLost
  <2> QED
    BY <1>1, <1>2, <2>1, <2>3 DEF FilesInv
<1> QED
  BY <1>4, <1>5, <1>6, <1>7

\* The steps on contexts.
LEMMA FilesInContextSteps ==
    ASSUME IInv, FilesInv, NEW c \in Contexts,
           \/ \E i \in DOMAIN public_device_handles :
                 \/ CtxCreate(c, public_device_handles[i])
                 \/ CtxCreateFails(c, public_device_handles[i])
           \/ CtxDestroy(c) \/ CtxSetCurrent(c)
    PROVE  FilesInv'
<1>1. /\ failures \in Nat /\ opened \in Nat /\ fds \subseteq 1..opened
      /\ fd_ctl \in 0..opened /\ fd_uvm \in 0..opened /\ ctxs \in [Contexts -> Context]
      /\ TypeOK
  BY DEF IInv, TypeOK
<1>2. /\ UNCHANGED <<fd_ctl, fd_uvm, librecudaInitialized, at>>
      /\ at = "idle"
  BY DEF CtxCreate, CtxCreateFails, CtxDestroy, CtxSetCurrent, MayCreate, files, tables
<1>3. Stale' = Stale
  BY <1>2 DEF Stale
<1>4. ASSUME NEW h, CtxCreate(c, h) PROVE FilesInv'
  <2>1. /\ librecudaInitialized /\ ~reserved /\ reserved' /\ current_ctx' = c
        /\ ctxs' = [ctxs EXCEPT ![c] = [state |-> "live", instance |-> h.instance,
                                         fd |-> opened + 1]]
    BY <1>4 DEF CtxCreate, MayCreate
  <2>2. Live = {} /\ Live' = {c} /\ ctxs'[c].fd = opened + 1
    BY <1>1, <2>1 DEF Live, FilesInv
  <2>3. ContextFiles = {} /\ ContextFiles' = {opened + 1}
    BY <2>2 DEF ContextFiles
  <2>4. Needed' = Needed \cup {opened + 1}
    BY <1>2, <1>3, <2>3 DEF Needed
  <2>5. fds \subseteq fds' /\ opened + 1 \in fds'
    BY <1>1, <1>4 DEF CtxCreate
  <2>6. Cardinality(fds' \ Needed') <= 2 * failures'
    <3>1. CASE fds' = fds \cup {opened + 1} /\ failures' = failures
      <4>1. fds' \ Needed' \subseteq fds \ Needed
        BY <2>4, <3>1
      <4> QED
        BY <1>1, <3>1, <4>1, NoneLost
    <3>2. ASSUME NEW lost \in {0, 1}, MayFail, fds' = fds \cup ((opened + 1)..(opened + 1 + lost))
          PROVE  Cardinality(fds' \ Needed') <= 2 * failures'
      <4>1. fds' \subseteq fds \cup {opened + 1, opened + 2}
        BY <1>1, <3>2
      <4>2. fds' \ Needed' \subseteq (fds \ Needed) \cup {opened + 1, opened + 2}
        BY <2>4, <4>1
      <4> QED
        BY <1>1, <3>2, <4>2, TwoLost DEF MayFail
    <3> QED
      BY <1>4, <3>1, <3>2 DEF CtxCreate
  <2> QED
    BY <1>1, <1>2, <2>1, <2>2, <2>5, <2>6 DEF FilesInv
<1>5. ASSUME NEW h, CtxCreateFails(c, h) PROVE FilesInv'
  <2>1. /\ current_ctx' = current_ctx /\ ctxs[c].state = "none"
        /\ ctxs' = [ctxs EXCEPT ![c].state = "lost"]
        /\ failures' = failures + 1
    BY <1>5 DEF CtxCreateFails, MayCreate, MayFail
  <2>9. reserved => reserved'
    BY <1>5, Zenon DEF CtxCreateFails
  <2>2. Live' = Live /\ \A d \in Live : ctxs'[d] = ctxs[d]
    BY <1>1, <2>1 DEF Live
  <2>3. ContextFiles' = ContextFiles
    BY <2>2 DEF ContextFiles
  <2>4. Needed' = Needed
    BY <1>2, <1>3, <2>3 DEF Needed
  <2>5. PICK lost \in 0..2 : fds' = fds \cup ((opened + 1)..(opened + lost))
    BY <1>5 DEF CtxCreateFails
  <2>6. fds' \subseteq fds \cup {opened + 1, opened + 2}
    BY <1>1, <2>5
  <2>7. fds' \ Needed' \subseteq (fds \ Needed) \cup {opened + 1, opened + 2}
    BY <2>4, <2>6
  <2>8. Cardinality(fds' \ Needed') <= 2 * failures'
    BY <1>1, <2>1, <2>7, TwoLost
  <2> QED
    BY <1>2, <2>1, <2>2, <2>5, <2>8, <2>9 DEF FilesInv
<1>6. CASE CtxDestroy(c)
  <2>1. /\ current_ctx' = IF current_ctx = c THEN NONE ELSE current_ctx
        /\ fds' = fds \ {ctxs[c].fd} /\ c \in Live
        /\ ctxs' = [ctxs EXCEPT ![c].state = "gone"]
        /\ UNCHANGED <<reserved, failures>>
    BY <1>6 DEF CtxDestroy, CloseFd
  <2>2. Live = {c} /\ Live' = {}
    BY <1>1, <2>1 DEF Live, Context, FilesInv
  <2>3. ContextFiles = {ctxs[c].fd} /\ ContextFiles' = {}
    BY <2>2 DEF ContextFiles
  <2>4. fds' \ Needed' \subseteq fds \ Needed
    BY <1>2, <1>3, <2>1, <2>3 DEF Needed
  <2>5. Cardinality(fds' \ Needed') <= 2 * failures'
    BY <1>1, <2>1, <2>4, NoneLost
  <2> QED
    BY <1>2, <2>1, <2>2, <2>5 DEF FilesInv
<1>7. CASE CtxSetCurrent(c)
  <2>1. UNCHANGED <<fds, ctxs, reserved, failures>> /\ current_ctx' = c /\ c \in Live
    BY <1>7 DEF CtxSetCurrent, files
  <2>2. Live' = Live /\ ContextFiles' = ContextFiles
    BY <2>1 DEF Live, ContextFiles
  <2>3. Needed' = Needed
    BY <1>2, <1>3, <2>2 DEF Needed
  <2> QED
    BY <1>2, <2>1, <2>2, <2>3 DEF FilesInv
<1> QED
  BY <1>4, <1>5, <1>6, <1>7

\* Every step keeps the account.
LEMMA FilesStep == IInv /\ FilesInv /\ [Next]_vars => FilesInv'
<1> SUFFICES ASSUME IInv, FilesInv, [Next]_vars
             PROVE  FilesInv'
  OBVIOUS
<1>1. CASE \/ LibreCuInit \/ OpenCtl \/ OpenUvm \/ AllocClient \/ UvmInitialize \/ MmInitialize
           \/ CardInfo \/ PushDevice \/ PushInstance \/ CreateHandles \/ InitFails
  BY <1>1, FilesInSetUp
<1>2. ASSUME NEW c \in Contexts,
             \/ \E i \in DOMAIN public_device_handles :
                   \/ CtxCreate(c, public_device_handles[i])
                   \/ CtxCreateFails(c, public_device_handles[i])
             \/ CtxDestroy(c) \/ CtxSetCurrent(c)
      PROVE  FilesInv'
  BY <1>2, FilesInContextSteps
<1>3. CASE UNCHANGED vars
  <2>1. UNCHANGED <<fds, fd_ctl, fd_uvm, at, librecudaInitialized, ctxs, current_ctx, reserved,
                    failures>>
    BY <1>3 DEF vars, files, tables, contexts
  <2>2. Live' = Live /\ Needed' = Needed
    BY <2>1 DEF Live, Needed, Stale, ContextFiles
  <2> QED
    BY <2>1, <2>2 DEF FilesInv
<1> QED
  BY <1>1, <1>2, <1>3 DEF Next

\* Before the first call no file is open.
LEMMA FilesInit == Init => FilesInv
<1> SUFFICES ASSUME Init PROVE FilesInv
  OBVIOUS
<1>1. Live = {}
  BY DEF Init, Live
<1>2. Cardinality(fds \ Needed) = 0
  BY FS_EmptySet DEF Init
<1> QED
  BY <1>1, <1>2 DEF Init, FilesInv

-----------------------------------------------------------------------------
(* Handles: what the loops over cards and devices have got to.             *)

\* How many visible cards come before an ordinal.
Rank(n) == Cardinality({v \in Shown : v < n})
Whole == Len(devices) >= Cardinality(Shown)

\* The visible cards come first in the vector, in the order of their ordinals;
\* behind them may be those of later calls.
DevicesRanked == \A g \in Shown : Rank(g) < Len(devices) => devices[Rank(g) + 1] = g
InstancesMatch ==
    /\ Len(device_instances) <= Len(devices)
    /\ \A i \in 1..Len(device_instances) : device_instances[i] = Instance[devices[i]]

\* Only the loop itself leaves a vector incomplete.
VectorsInStep ==
    /\ at = "devices" => next <= Gpus /\ (Len(devices) = Rank(next) \/ Whole)
    /\ at = "instances" => Whole /\ Len(device_instances) = next
    /\ at = "handles" => Whole /\ Len(device_instances) = Len(devices)
    /\ at \notin {"devices", "instances", "handles"} => devices = <<>> \/ Whole
    /\ at \notin {"instances", "handles"} => device_instances = <<>>

TablesInv ==
    /\ ~librecudaInitialized => public_device_handles = <<>>
    /\ ~librecudaInitialized /\ ~partial /\ at # "crashed" =>
          DevicesRanked /\ InstancesMatch /\ VectorsInStep
    /\ HandlesMatch

\* The visible cards below an ordinal are finitely many.
LEMMA BelowFinite ==
    /\ IsFiniteSet(Shown) /\ Cardinality(Shown) \in Nat
    /\ \A n \in Nat : IsFiniteSet({v \in Shown : v < n}) /\ Rank(n) \in Nat
<1>1. Gpus - 1 \in Int
  BY GpuAssumption
<1>2. IsFiniteSet(Ordinals)
  BY <1>1, FS_Interval DEF Ordinals
<1>3. IsFiniteSet(Shown)
  BY <1>2, FS_Subset DEF Shown
<1>4. ASSUME NEW n \in Nat
      PROVE  IsFiniteSet({v \in Shown : v < n}) /\ Rank(n) \in Nat
  <2>1. IsFiniteSet({v \in Shown : v < n})
    BY <1>3, FS_Subset
  <2> QED
    BY <2>1, FS_CardinalityType DEF Rank
<1> QED
  BY <1>3, <1>4, FS_CardinalityType

\* Visible cards are numbers below the number of cards.
LEMMA ShownNumbers == Gpus \in Nat /\ \A v \in Shown : v \in Nat /\ v < Gpus
<1>1. Gpus \in Nat /\ \A v \in 0..(Gpus - 1) : v \in Nat /\ v < Gpus
  BY GpuAssumption
<1> QED
  BY <1>1, ShownFacts DEF Ordinals

\* Ranks begin at 0, go up by one at each visible card, and end at their number.
LEMMA RankFacts ==
    /\ Rank(0) = 0
    /\ Rank(Gpus) = Cardinality(Shown)
    /\ \A n \in Nat : Rank(n + 1) = IF n \in Shown THEN Rank(n) + 1 ELSE Rank(n)
<1>1. Gpus \in Nat /\ \A v \in Shown : v \in Nat /\ v < Gpus
  BY ShownNumbers
<1>2. Rank(0) = 0
  <2>1. {v \in Shown : v < 0} = {}
    BY <1>1
  <2> QED
    BY <2>1, FS_EmptySet DEF Rank
<1>3. Rank(Gpus) = Cardinality(Shown)
  <2>1. {v \in Shown : v < Gpus} = Shown
    BY <1>1
  <2> QED
    BY <2>1 DEF Rank
<1>4. ASSUME NEW n \in Nat
      PROVE  Rank(n + 1) = IF n \in Shown THEN Rank(n) + 1 ELSE Rank(n)
  <2> DEFINE Below == {v \in Shown : v < n}
  <2>1. IsFiniteSet(Below) /\ n \notin Below
    BY BelowFinite
  <2>2. CASE n \in Shown
    <3>0. \A v \in Shown : v < n + 1 <=> v < n \/ v = n
      BY <1>1
    <3>1. {v \in Shown : v < n + 1} = Below \cup {n}
      BY <2>2, <3>0
    <3> HIDE DEF Below
    <3>2. Cardinality(Below \cup {n}) = Cardinality(Below) + 1
      BY <2>1, FS_AddElement
    <3> QED
      BY <2>2, <3>1, <3>2 DEF Rank, Below
  <2>3. CASE n \notin Shown
    <3>0. \A v \in Shown : v < n + 1 <=> v < n
      BY <1>1, <2>3
    <3>1. {v \in Shown : v < n + 1} = Below
      BY <3>0
    <3> QED
      BY <2>3, <3>1 DEF Rank
  <2> QED
    BY <2>2, <2>3
<1> QED
  BY <1>2, <1>3, <1>4

\* A visible card's rank is below that of every later one, and below the number
\* of visible cards.
LEMMA RankGrows ==
    ASSUME NEW g \in Shown, NEW n \in Nat, g < n
    PROVE  Rank(g) < Rank(n) /\ Rank(g) < Cardinality(Shown)
<1>1. g \in Nat /\ \A v \in Shown : v \in Nat
  BY ShownNumbers
<1>2. Rank(g + 1) = Rank(g) + 1
  BY <1>1, RankFacts
<1>6. g + 1 \in Nat
  BY <1>1
<1>3. /\ Rank(g) \in Nat /\ Rank(n) \in Nat /\ Cardinality(Shown) \in Nat
      /\ Rank(g + 1) \in Nat
  BY <1>1, <1>6, BelowFinite, Zenon
<1>4. Rank(g + 1) <= Rank(n)
  <2>0. \A v \in Shown : v < g + 1 => v < n
    BY <1>1
  <2>1. {v \in Shown : v < g + 1} \subseteq {v \in Shown : v < n}
    BY <2>0
  <2>2. IsFiniteSet({v \in Shown : v < n})
    BY BelowFinite
  <2> QED
    BY <2>1, <2>2, FS_Subset DEF Rank
<1>5. Rank(g + 1) <= Cardinality(Shown)
  <2>1. {v \in Shown : v < g + 1} \subseteq Shown
    OBVIOUS
  <2> QED
    BY <2>1, BelowFinite, FS_Subset DEF Rank
<1> QED
  BY <1>2, <1>3, <1>4, <1>5

\* One card of the loop over the cards keeps the order.
LEMMA PushKeepsRanks ==
    ASSUME TypeOK, DevicesRanked, next < Gpus, Len(devices) = Rank(next) \/ Whole,
           devices' = WithVisible(next), UNCHANGED list
    PROVE  /\ DevicesRanked'
           /\ Len(devices') = Rank(next + 1) \/ Whole'
           /\ Len(devices) <= Len(devices')
           /\ \A i \in 1..Len(devices) : devices'[i] = devices[i]
<1>1. next \in Nat /\ next \in Ordinals /\ devices \in Seq(Ordinals)
  BY GpuAssumption DEF TypeOK, Ordinals
<1>2. Shown' = Shown
  BY DEF Shown, Visible
<1>3. \A n : Rank(n)' = Rank(n)
  BY <1>2 DEF Rank
<1>4. next \in Shown <=> next \in Visible(list)
  BY <1>1 DEF Shown
<1>5. /\ Rank(next) \in Nat /\ Cardinality(Shown) \in Nat /\ Len(devices) \in Nat
      /\ \A g \in Shown : g \in Nat /\ Rank(g) \in Nat
  <2>1. Rank(next) \in Nat /\ Cardinality(Shown) \in Nat
    BY <1>1, BelowFinite
  <2>2. \A g \in Shown : g \in Nat /\ Rank(g) \in Nat
    BY BelowFinite, ShownNumbers, Zenon
  <2> QED
    BY <1>1, <2>1, <2>2
<1>6. CASE next \notin Shown
  <2>1. devices' = devices /\ Rank(next + 1) = Rank(next)
    BY <1>1, <1>4, <1>6, RankFacts DEF WithVisible
  <2> QED
    BY <1>2, <1>3, <1>5, <2>1 DEF DevicesRanked, Whole
<1>7. CASE next \in Shown
  <2>1. devices' = Append(devices, next) /\ Rank(next + 1) = Rank(next) + 1
    BY <1>1, <1>4, <1>7, RankFacts DEF WithVisible
  <2>2. /\ Len(devices') = Len(devices) + 1 /\ devices'[Len(devices) + 1] = next
        /\ \A i \in 1..Len(devices) : devices'[i] = devices[i]
    BY <1>1, <2>1
  <2>3. ASSUME NEW g \in Shown, Rank(g) < Len(devices')
        PROVE  devices'[Rank(g) + 1] = g
    <3>1. CASE Rank(g) < Len(devices)
      <4>1. devices[Rank(g) + 1] = g
        BY <3>1 DEF DevicesRanked
      <4>2. Rank(g) + 1 \in 1..Len(devices)
        BY <1>5, <3>1
      <4> QED
        BY <2>2, <4>1, <4>2
    <3>2. CASE ~(Rank(g) < Len(devices))
      <4>1. Rank(g) = Len(devices)
        BY <1>5, <2>2, <2>3, <3>2
      <4>2. Rank(g) < Cardinality(Shown)
        <5>1. g < g + 1 /\ g + 1 \in Nat
          BY <1>5
        <5> QED
          BY <5>1, RankGrows
      <4>3. Rank(g) = Rank(next)
        BY <1>5, <4>1, <4>2 DEF Whole
      <4>4. ~(g < next) /\ ~(next < g)
        <5>1. g < next => Rank(g) < Rank(next)
          BY <1>1, RankGrows
        <5>2. next < g => Rank(next) < Rank(g)
          BY <1>5, <1>7, RankGrows
        <5> QED
          BY <1>5, <4>3, <5>1, <5>2
      <4>5. g = next
        BY <1>1, <1>5, <4>4
      <4> QED
        BY <2>2, <4>1, <4>5
    <3> QED
      BY <3>1, <3>2
  <2>4. DevicesRanked'
    BY <1>2, <1>3, <2>3 DEF DevicesRanked
  <2>5. Len(devices') = Rank(next + 1) \/ Whole'
    BY <1>2, <1>5, <2>1, <2>2 DEF Whole
  <2> QED
    BY <1>5, <2>2, <2>4, <2>5
<1> QED
  BY <1>6, <1>7

\* A step that leaves the tables alone, and takes the call from a step outside
\* the loops to another.
LEMMA TablesKept ==
    ASSUME TablesInv, UNCHANGED <<list, tables, partial>>,
           \/ UNCHANGED <<at, next>>
           \/ /\ at \notin {"devices", "instances", "handles", "crashed"}
              /\ at' \notin {"devices", "instances", "handles"}
    PROVE  TablesInv'
<1>1. UNCHANGED <<devices, device_instances, public_device_handles, librecudaInitialized>>
  BY DEF tables
<1>2. Shown' = Shown
  BY DEF Shown, Visible
<1>3. \A n : Rank(n)' = Rank(n)
  BY <1>2 DEF Rank
<1>4. HandlesMatch'
  BY <1>1, <1>2 DEF TablesInv, HandlesMatch
<1>5. DevicesRanked' = DevicesRanked /\ InstancesMatch' = InstancesMatch /\ Whole' = Whole
  BY <1>1, <1>2, <1>3 DEF DevicesRanked, InstancesMatch, Whole
<1>6. ASSUME at # "crashed", VectorsInStep PROVE VectorsInStep'
  <2>1. Rank(next)' = Rank(next) \/ at' # "devices"
    BY <1>3, <1>2 DEF Rank
  <2> QED
    BY <1>1, <1>5, <1>6, <2>1 DEF VectorsInStep
<1> QED
  BY <1>1, <1>4, <1>5, <1>6 DEF TablesInv

\* The handles that a call makes when none has failed between two instances.
LEMMA HandlesMade ==
    ASSUME IInv, TablesInv, CreateHandles, ~partial, librecudaInitialized'
    PROVE  HandlesMatch'
<1> USE DEF IInv
<1>1. /\ at = "handles" /\ ~librecudaInitialized /\ num_devices = Gpus
      /\ UNCHANGED <<list, device_instances, partial>>
  BY DEF CreateHandles, Progress, history
<1>2. DevicesRanked /\ InstancesMatch /\ Whole /\ Len(device_instances) = Len(devices)
      /\ public_device_handles = <<>>
  BY <1>1 DEF TablesInv, VectorsInStep
<1>3. PICK junk \in [HandleOrdinals -> Garbage] :
         public_device_handles' = public_device_handles
            \o [i \in 1..Cardinality(HandleOrdinals) |->
                  [ordinal |-> i - 1,
                   instance |-> IF i <= Len(device_instances)
                                THEN device_instances[i] ELSE junk[i - 1]]]
  BY <1>1 DEF CreateHandles
<1>4. Cardinality(HandleOrdinals) = Gpus /\ Gpus \in Nat
  BY <1>1, HandleCount, GpuAssumption
<1> DEFINE new == [i \in 1..Gpus |->
                     [ordinal |-> i - 1,
                      instance |-> IF i <= Len(device_instances)
                                   THEN device_instances[i] ELSE junk[i - 1]]]
<1>5. new \in Seq(Handle)
  BY <1>1, <1>4, NewHandles DEF TypeOK
<1>6. Len(new) = Gpus
  BY <1>4, <1>5
<1>7. public_device_handles' = new
  <2>1. public_device_handles' = <<>> \o new
    BY <1>2, <1>3, <1>4
  <2> HIDE DEF new
  <2> QED
    BY <1>5, <2>1
<1>8. Shown' = Shown
  BY <1>1 DEF Shown, Visible
<1>9. ASSUME NEW g \in Shown
      PROVE  public_device_handles'[Rank(g) + 1] = [ordinal |-> Rank(g), instance |-> Instance[g]]
  <2>1. g \in Nat /\ g < g + 1 /\ g + 1 \in Nat
    BY ShownNumbers
  <2>2. Rank(g) < Cardinality(Shown)
    BY <2>1, RankGrows
  <2>3. Cardinality(Shown) <= Gpus
    <3>1. IsFiniteSet(Ordinals) /\ Cardinality(Ordinals) = Gpus
      <4>1. Gpus - 1 \in Int /\ 0 \in Int /\ (0 > Gpus - 1 => Gpus = 0) /\ (Gpus - 1) - 0 + 1 = Gpus
        BY <1>4
      <4> QED
        BY <4>1, FS_Interval DEF Ordinals
    <3> QED
      BY <3>1, ShownFacts, FS_Subset
  <2>4. Rank(g) \in Nat /\ Cardinality(Shown) \in Nat
    BY <2>1, BelowFinite
  <2>5. Len(devices) \in Nat /\ Cardinality(Shown) <= Len(devices)
    BY <1>2 DEF TypeOK, Whole
  <2>6. devices[Rank(g) + 1] = g
    BY <1>2, <2>2, <2>4, <2>5 DEF DevicesRanked
  <2>7. Rank(g) + 1 \in 1..Len(device_instances) /\ Rank(g) + 1 \in 1..Gpus
    BY <1>2, <1>4, <2>2, <2>3, <2>4, <2>5
  <2>8. device_instances[Rank(g) + 1] = Instance[g]
    BY <1>2, <2>6, <2>7 DEF InstancesMatch
  <2>9. new[Rank(g) + 1] = [ordinal |-> Rank(g), instance |-> Instance[g]]
    BY <2>4, <2>7, <2>8
  <2> QED
    BY <1>7, <2>9
<1>10. Len(public_device_handles') = Gpus
  BY <1>6, <1>7
<1> QED
  BY <1>8, <1>9, <1>10 DEF HandlesMatch, Rank

\* The steps on the tables.
LEMMA TablesInLoops ==
    ASSUME IInv, TablesInv, CardInfo \/ PushDevice \/ PushInstance
    PROVE  TablesInv'
<1> USE DEF IInv
<1>1. /\ UNCHANGED <<list, partial, public_device_handles, librecudaInitialized>>
      /\ at \notin {"idle", "crashed"} /\ at' # "crashed"
  BY DEF CardInfo, PushDevice, PushInstance, history
<1>2. Shown' = Shown
  BY <1>1 DEF Shown, Visible
<1>3. \A n : Rank(n)' = Rank(n)
  BY <1>2 DEF Rank
<1>4. HandlesMatch'
  BY <1>1, <1>2 DEF TablesInv, HandlesMatch
<1>5. SUFFICES ASSUME ~librecudaInitialized, ~partial
               PROVE  (DevicesRanked /\ InstancesMatch /\ VectorsInStep)'
  BY <1>1, <1>4 DEF TablesInv
<1>6. DevicesRanked /\ InstancesMatch /\ VectorsInStep
  BY <1>1, <1>5 DEF TablesInv
<1>7. /\ next \in Nat /\ Gpus \in Nat /\ Len(devices) \in Nat /\ Len(device_instances) \in Nat
      /\ devices \in Seq(Ordinals) /\ device_instances \in Seq(Nat)
  BY GpuAssumption DEF TypeOK
<1>8. CASE CardInfo
  <2>1. /\ at = "cards" /\ at' = "devices" /\ next' = 0
        /\ UNCHANGED <<devices, device_instances>>
    BY <1>8 DEF CardInfo
  <2>2. Rank(next)' = 0
    BY <1>2, <2>1, RankFacts DEF Rank
  <2>3. Len(devices) = 0 \/ Whole
    BY <1>6, <2>1 DEF VectorsInStep
  <2>4. DevicesRanked' /\ InstancesMatch' /\ Whole' = Whole
    BY <1>2, <1>3, <1>6, <2>1 DEF DevicesRanked, InstancesMatch, Whole
  <2>5. device_instances = <<>>
    BY <1>6, <2>1 DEF VectorsInStep
  <2> QED
    BY <1>7, <2>1, <2>2, <2>3, <2>4, <2>5 DEF VectorsInStep
<1>9. CASE PushDevice
  <2>1. /\ at = "devices" /\ device_instances' = device_instances /\ device_instances = <<>>
        /\ next <= Gpus /\ (Len(devices) = Rank(next) \/ Whole)
    BY <1>6, <1>9 DEF PushDevice, VectorsInStep
  <2>2. CASE next < Gpus
    <3>1. at' = "devices" /\ next' = next + 1 /\ devices' = WithVisible(next)
      BY <1>9, <2>1, <2>2 DEF PushDevice
    <3>2. /\ DevicesRanked'
          /\ Len(devices') = Rank(next + 1) \/ Whole'
          /\ Len(devices) <= Len(devices')
      BY <1>1, <1>6, <2>1, <2>2, <3>1, PushKeepsRanks
    <3>3. Rank(next)' = Rank(next + 1)
      BY <1>2, <3>1 DEF Rank
    <3>4. InstancesMatch'
      BY <1>7, <2>1, <3>2 DEF InstancesMatch
    <3>5. next' <= Gpus
      BY <1>7, <2>2, <3>1
    <3> QED
      BY <2>1, <3>1, <3>2, <3>3, <3>4, <3>5 DEF VectorsInStep
  <2>3. CASE ~(next < Gpus)
    <3>1. at' = "instances" /\ next' = 0 /\ devices' = devices
      BY <1>9, <2>3 DEF PushDevice
    <3>2. next = Gpus
      BY <1>7, <2>1, <2>3
    <3>3. Whole
      BY <2>1, <3>2, BelowFinite, RankFacts DEF Whole
    <3>4. DevicesRanked' /\ InstancesMatch' /\ Whole' = Whole
      BY <1>2, <1>3, <1>6, <2>1, <3>1 DEF DevicesRanked, InstancesMatch, Whole
    <3> QED
      BY <2>1, <3>1, <3>3, <3>4 DEF VectorsInStep
  <2> QED
    BY <2>2, <2>3
<1>10. CASE PushInstance
  <2>1. /\ at = "instances" /\ Whole /\ Len(device_instances) = next /\ devices' = devices
    BY <1>6, <1>10 DEF PushInstance, VectorsInStep
  <2>2. DevicesRanked' /\ Whole'
    BY <1>2, <1>3, <1>6, <2>1 DEF DevicesRanked, Whole
  <2>3. CASE next < Len(devices)
    <3>1. /\ at' = "instances" /\ next' = next + 1
          /\ device_instances' = Append(device_instances, Instance[devices[next + 1]])
      BY <1>10, <2>1, <2>3 DEF PushInstance
    <3>2. /\ Len(device_instances') = next + 1
          /\ device_instances'[next + 1] = Instance[devices[next + 1]]
          /\ \A i \in 1..next : device_instances'[i] = device_instances[i]
      BY <1>7, <2>1, <3>1
    <3>3. ASSUME NEW i \in 1..Len(device_instances')
          PROVE  device_instances'[i] = Instance[devices[i]]
      <4>1. i \in 1..next \/ i = next + 1
        BY <1>7, <3>2
      <4>2. i \in 1..next => device_instances[i] = Instance[devices[i]]
        BY <1>6, <2>1 DEF InstancesMatch
      <4> QED
        BY <3>2, <4>1, <4>2
    <3>4. InstancesMatch'
      BY <1>7, <2>1, <2>3, <3>2, <3>3 DEF InstancesMatch
    <3> QED
      BY <2>2, <3>1, <3>2, <3>4 DEF VectorsInStep
  <2>4. CASE ~(next < Len(devices))
    <3>1. at' = "handles" /\ UNCHANGED <<next, device_instances>>
      BY <1>10, <2>4 DEF PushInstance
    <3>2. Len(device_instances) = Len(devices)
      BY <1>6, <1>7, <2>1, <2>4 DEF InstancesMatch
    <3>3. InstancesMatch'
      BY <1>6, <2>1, <3>1 DEF InstancesMatch
    <3> QED
      BY <2>1, <2>2, <3>1, <3>2, <3>3 DEF VectorsInStep
  <2> QED
    BY <2>3, <2>4
<1> QED
  BY <1>8, <1>9, <1>10

\* The end of the call, with handles or with an error.
LEMMA TablesAtEnd ==
    ASSUME IInv, TablesInv, CreateHandles \/ InitFails
    PROVE  TablesInv'
<1> USE DEF IInv
<1>1. CASE CreateHandles
  <2>1. ~librecudaInitialized /\ UNCHANGED <<list, partial>>
    BY <1>1 DEF CreateHandles, Progress, history
  <2>2. CASE num_devices > 0 /\ device_instances = <<>>
    <3>1. at' = "crashed" /\ UNCHANGED <<public_device_handles, librecudaInitialized>>
      BY <1>1, <2>2 DEF CreateHandles
    <3> QED
      BY <2>1, <3>1 DEF TablesInv, HandlesMatch
  <2>3. CASE ~(num_devices > 0 /\ device_instances = <<>>)
    <3>1. librecudaInitialized'
      BY <1>1, <2>3 DEF CreateHandles
    <3>2. ~partial => HandlesMatch'
      BY <1>1, <3>1, HandlesMade
    <3>3. partial => HandlesMatch'
      BY <2>1 DEF HandlesMatch
    <3> QED
      BY <3>1, <3>2, <3>3 DEF TablesInv
  <2> QED
    BY <2>2, <2>3
<1>2. CASE InitFails
  <2>1. /\ UNCHANGED <<list, tables>> /\ ~librecudaInitialized /\ at' = "idle"
        /\ at \in Steps \ {"devices", "handles"}
        /\ partial' = (partial \/ (at = "instances" /\ next > 0))
    BY <1>2 DEF InitFails, Progress, Steps
  <2>2. UNCHANGED <<devices, device_instances, public_device_handles, librecudaInitialized>>
    BY <2>1 DEF tables
  <2>3. Shown' = Shown
    BY <2>1 DEF Shown, Visible
  <2>4. HandlesMatch'
    BY <2>1, <2>2 DEF HandlesMatch
  <2>5. ASSUME ~partial'
        PROVE  (DevicesRanked /\ InstancesMatch /\ VectorsInStep)'
    <3>1. ~partial /\ ~(at = "instances" /\ next > 0)
      BY <2>1, <2>5
    <3>2. at # "crashed"
      BY <2>1 DEF Steps
    <3>3. DevicesRanked /\ InstancesMatch /\ VectorsInStep
      BY <2>1, <3>1, <3>2 DEF TablesInv
    <3>4. DevicesRanked' /\ InstancesMatch' /\ Whole' = Whole
      BY <2>2, <2>3, <3>3 DEF DevicesRanked, InstancesMatch, Whole, Rank
    <3>5. device_instances = <<>>
      <4>1. CASE at = "instances"
        <5>1. next = 0 /\ Len(device_instances) = 0 /\ device_instances \in Seq(Nat)
          BY <3>1, <3>3, <4>1 DEF VectorsInStep, TypeOK
        <5> QED
          BY <5>1, EmptySeq
      <4>2. CASE at # "instances"
        BY <2>1, <3>3, <4>2 DEF VectorsInStep
      <4> QED
        BY <4>1, <4>2
    <3>6. devices = <<>> \/ Whole
      BY <2>1, <3>3 DEF VectorsInStep
    <3> QED
      BY <2>1, <2>2, <3>4, <3>5, <3>6 DEF VectorsInStep
  <2> QED
    BY <2>1, <2>2, <2>4, <2>5 DEF TablesInv
<1> QED
  BY <1>1, <1>2

\* Every step keeps the tables right.
LEMMA TablesStep == IInv /\ TablesInv /\ [Next]_vars => TablesInv'
<1> SUFFICES ASSUME IInv, TablesInv, [Next]_vars
             PROVE  TablesInv'
  OBVIOUS
<1>1. CASE LibreCuInit \/ OpenCtl \/ OpenUvm \/ AllocClient \/ UvmInitialize \/ MmInitialize
  <2>1. /\ UNCHANGED <<list, tables, partial>>
        /\ at \notin {"devices", "instances", "handles", "crashed"}
        /\ at' \notin {"devices", "instances", "handles"}
    BY <1>1 DEF LibreCuInit, OpenCtl, OpenUvm, AllocClient, UvmInitialize, MmInitialize, history
  <2> QED
    BY <2>1, TablesKept
<1>2. CASE CardInfo \/ PushDevice \/ PushInstance
  BY <1>2, TablesInLoops
<1>3. CASE CreateHandles \/ InitFails
  BY <1>3, TablesAtEnd
<1>4. ASSUME NEW c \in Contexts,
             \/ \E i \in DOMAIN public_device_handles :
                   \/ CtxCreate(c, public_device_handles[i])
                   \/ CtxCreateFails(c, public_device_handles[i])
             \/ CtxDestroy(c) \/ CtxSetCurrent(c)
      PROVE  TablesInv'
  <2>1. UNCHANGED <<list, at, next, tables, partial>>
    BY <1>4 DEF CtxCreate, CtxCreateFails, CtxDestroy, CtxSetCurrent, history
  <2> QED
    BY <2>1, TablesKept
<1>5. CASE UNCHANGED vars
  <2>1. UNCHANGED <<list, at, next, tables, partial>>
    BY <1>5 DEF vars, history
  <2> QED
    BY <2>1, TablesKept
<1> QED
  BY <1>1, <1>2, <1>3, <1>4, <1>5 DEF Next

\* Before the first call the tables are empty.
LEMMA TablesInit == Init => TablesInv
<1> SUFFICES ASSUME Init PROVE TablesInv
  OBVIOUS
<1>1. Len(devices) = 0 /\ Len(device_instances) = 0
  BY DEF Init
<1>2. \A g \in Shown : Rank(g) \in Nat
  BY BelowFinite, ShownNumbers, Zenon
<1> QED
  BY <1>1, <1>2 DEF Init, TablesInv, DevicesRanked, InstancesMatch, VectorsInStep, HandlesMatch

-----------------------------------------------------------------------------
(* The theorems.                                                           *)

\* The variables of the library keep their types through every call, failed
\* or not (librecuda.cpp:48-61).
THEOREM TypeCorrect == Spec => []TypeOK
<1>1. IInv => TypeOK
  BY DEF IInv
<1> QED
  BY <1>1, Invariance, PTL

\* No list, no failure and nothing that lies behind the vector lets a context
\* be opened on a card that is not visible: libreCuCtxCreate_v2 looks the
\* instance up in the vector (librecuda.cpp:398-401).
THEOREM HiddenCardsStayHidden == Spec => []HiddenStayHidden
<1>1. IInv => HiddenStayHidden
  BY DEF IInv
<1> QED
  BY <1>1, Invariance, PTL

\* Whatever failed before, an initialized library has one control file with
\* its client and a UVM file that was set up (librecuda.cpp:85-99).
THEOREM SetUpAlwaysFresh == Spec => []SetUpIsFresh
<1>1. IInv => SetUpIsFresh
  BY DEF IInv
<1> QED
  BY <1>1, Invariance, PTL

\* Whatever failed before, the first handles of an initialized library stand
\* for the visible cards in the order of their ordinals, unless a call failed
\* between two instances (librecuda.cpp:148-206).
THEOREM HandlesAlwaysMatch == Spec => []HandlesMatch
<1>1. Init => IInv /\ TablesInv
  BY InitEstablishes, TablesInit
<1>2. IInv /\ TablesInv /\ [Next]_vars => (IInv /\ TablesInv)'
  BY StepKeeps, TablesStep
<1>3. TablesInv => HandlesMatch
  BY DEF TablesInv
<1> QED
  BY <1>1, <1>2, <1>3, PTL DEF Spec

\* The files in use stay open, the current context lives, and no failed call
\* leaves more than two files open behind it (librecuda.cpp:86-131, 410-418,
\* 627-641).
THEOREM FilesStayOpen == Spec => []FilesKept
<1>1. Init => IInv /\ FilesInv
  BY InitEstablishes, FilesInit
<1>2. IInv /\ FilesInv /\ [Next]_vars => (IInv /\ FilesInv)'
  BY StepKeeps, FilesStep
<1>3. IInv /\ FilesInv => FilesKept
  <2> SUFFICES ASSUME IInv, FilesInv PROVE FilesKept
    OBVIOUS
  <2> DEFINE used == ({fd_ctl, fd_uvm} \ {0}) \cup ContextFiles
  <2>1. used \subseteq fds
    BY DEF FilesInv, ContextFiles
  <2>2. fds \ used \subseteq fds \ Needed
    BY DEF Needed
  <2> HIDE DEF used
  <2>3. IsFiniteSet(fds \ Needed)
    BY FilesFinite DEF IInv
  <2>4. /\ Cardinality(fds \ used) <= Cardinality(fds \ Needed)
        /\ Cardinality(fds \ used) \in Nat /\ Cardinality(fds \ Needed) \in Nat
    BY <2>2, <2>3, FS_Subset, FS_CardinalityType
  <2>5. Cardinality(fds \ used) <= 2 * failures
    BY <2>4 DEF FilesInv, IInv, TypeOK
  <2> QED
    BY <2>1, <2>5 DEF FilesKept, FilesInv, used, ContextFiles
<1> QED
  BY <1>1, <1>2, <1>3, PTL DEF Spec
=============================================================================
