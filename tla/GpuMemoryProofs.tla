-------------------------- MODULE GpuMemoryProofs --------------------------
(***************************************************************************)
(* The bump allocator and the maps over it, proved for every heap, page    *)
(* and object size and every failure: addresses are given out once,        *)
(* isHostMappedPtr is right about memory in use, a live object holds the   *)
(* memory it was given until its own call frees it, a free is refused only *)
(* for a reason, and without failures nothing is lost.                     *)
(***************************************************************************)
EXTENDS GpuMemory, Integers, SequenceTheorems, TLAPS

-----------------------------------------------------------------------------
(* Arithmetic of alignment.                                                *)

LEMMA RoundUpBounds ==
    ASSUME NEW size \in Positive, NEW align \in Positive
    PROVE  RoundUp(size, align) \in Positive
<1> DEFINE a == size + align - 1
           q == a \div align
           r == a % align
<1>1. a \in Nat /\ align \in Nat \ {0}
  BY DEF Positive
<1>2. a = (align * q) + r /\ q \in Nat /\ r \in 0..(align - 1)
  BY <1>1, SMT
<1> HIDE DEF q, r
<1>3. q * align = align * q /\ align * q \in Nat
  BY <1>1, <1>2, SMT
<1>4. q * align \in Nat /\ q * align >= size
  BY <1>1, <1>2, <1>3, SMT DEF Positive
<1>5. RoundUp(size, align) = q * align
  BY DEF RoundUp, q
<1>6. QED
  BY <1>4, <1>5 DEF Positive

LEMMA BumpBounds ==
    ASSUME uvm_vaddr \in Nat, NEW align \in Positive
    PROVE  Bump(align) \in Nat /\ Bump(align) >= uvm_vaddr
<1>1. uvm_vaddr % align \in 0..(align - 1)
  BY SMT DEF Positive
<1>2. QED
  BY <1>1, SMT DEF Bump, Positive

-----------------------------------------------------------------------------
(* Types.  The destructor of a stream reads four fields, which a live one   *)
(* has: creating it stores one address per request.                        *)

StreamFieldsOK ==
    \A o \in Objects : Kind[o] = "stream" =>
        /\ Live(o) => Len(fields[o]) = 4
        /\ status[o] = "none" /\ (call = Idle \/ call.of # o) => fields[o] = <<>>
        /\ call # Idle /\ call.of = o /\ call.op = "create" =>
              status[o] = "none" /\ Len(fields[o]) + Len(todo) = 4
        /\ call # Idle /\ call.of = o =>
              call.op = "create" \/ (call.op = "destroy" /\ Live(o))

TypeInv == TypeOK /\ StreamFieldsOK

LEMMA SizesPositive ==
    /\ Size.area \in Positive /\ Size.notifier \in Positive /\ Size.window \in Positive
    /\ Size.page \in Positive /\ Size.pool \in Positive /\ Size.kernArgs \in Positive
    /\ Size.image \in Positive /\ Size.local \in Positive
BY SizeAssumption

LEMMA RequestType ==
    ASSUME NEW size \in Positive, NEW huge \in BOOLEAN, NEW map \in BOOLEAN
    PROVE  Gpu(size, huge, map) \in Request /\ System(size) \in Request /\ Window \in Request
BY SizesPositive DEF Gpu, System, Window, Request

LEMMA RequestTuples ==
    \A a, b, c, d, e \in Request :
        /\ <<a>> \in Seq(Request)
        /\ <<a, b, c, d>> \in Seq(Request) /\ Len(<<a, b, c, d>>) = 4
        /\ <<a, b, c, d, e>> \in Seq(Request)
BY SMT

LEMMA NeedsTypes ==
    /\ ContextNeeds \in Seq(Request)
    /\ StreamNeeds \in Seq(Request) /\ Len(StreamNeeds) = 4
    /\ ModuleNeeds \in Seq(Request)
    /\ LocalNeeds \in Seq(Request)
    /\ \A size \in BufferSizes, map \in BOOLEAN : BufferNeeds(size, map) \in Seq(Request)
<1>1. /\ Gpu(Size.area, TRUE, TRUE) \in Request
      /\ System(Size.notifier) \in Request
      /\ Window \in Request
      /\ Gpu(Size.page, FALSE, TRUE) \in Request
      /\ System(Size.pool) \in Request
      /\ Gpu(Size.kernArgs, TRUE, TRUE) \in Request
      /\ Gpu(Size.image, FALSE, TRUE) \in Request
      /\ Gpu(Size.local, TRUE, FALSE) \in Request
  BY RequestType, SizesPositive
<1>2. \A size \in BufferSizes, map \in BOOLEAN : Gpu(size, size > HugeFrom, map) \in Request
  <2> TAKE size \in BufferSizes, map \in BOOLEAN
  <2>1. size \in Positive /\ (size > HugeFrom) \in BOOLEAN
    BY SizeAssumption
  <2>2. QED
    BY <2>1, RequestType
<1>3. ContextNeeds \in Seq(Request)
  BY <1>1, RequestTuples, Zenon DEF ContextNeeds
<1>4. StreamNeeds \in Seq(Request) /\ Len(StreamNeeds) = 4
  BY <1>1, RequestTuples, Zenon DEF StreamNeeds
<1>5. ModuleNeeds \in Seq(Request) /\ LocalNeeds \in Seq(Request)
  BY <1>1, RequestTuples, Zenon DEF ModuleNeeds, LocalNeeds
<1>6. \A size \in BufferSizes, map \in BOOLEAN : BufferNeeds(size, map) \in Seq(Request)
  BY <1>2, RequestTuples, Zenon DEF BufferNeeds
<1>7. QED
  BY <1>3, <1>4, <1>5, <1>6

LEMMA InitTypes == Init => TypeInv
<1> SUFFICES ASSUME Init PROVE TypeInv
  OBVIOUS
<1>1. TypeOK
  BY SizeAssumption DEF Init, TypeOK, Positive
<1>2. StreamFieldsOK
  BY DEF Init, StreamFieldsOK, Live
<1>3. QED
  BY <1>1, <1>2 DEF TypeInv

\* The head of the requests, and what is left of the list.
LEMMA HeadRequest ==
    ASSUME TypeOK, Working
    PROVE  /\ Head(todo) \in Request /\ Tail(todo) \in Seq(Request)
           /\ Len(todo) = Len(Tail(todo)) + 1
           /\ call \in Call /\ call # Idle /\ call.of \in Objects
           /\ call.op \in {"create", "grow"}
<1>1. todo \in Seq(Request) /\ todo # <<>>
  BY DEF TypeOK, Working
<1>2. call \in Call /\ call # Idle
  BY DEF TypeOK, Working, Idle
<1>3. call.of \in Objects
  BY <1>2 DEF Call
<1>4. QED
  BY <1>1, <1>2, <1>3, HeadTailProperties DEF Working

\* Storing an address, or aborting, keeps the types of owners and progress.
LEMMA StoreTypes ==
    ASSUME TypeInv, Working, NEW base \in Nat, Store(base)
    PROVE  /\ status' = status
           /\ fields' \in [Objects -> Seq(Nat)] /\ local' \in [Objects -> Nat]
           /\ call' = call /\ frees' = frees /\ todo' \in Seq(Request)
           /\ StreamFieldsOK'
<1> DEFINE c == call.of
<1>1. /\ fields \in [Objects -> Seq(Nat)] /\ local \in [Objects -> Nat]
      /\ StreamFieldsOK
  BY DEF TypeInv, TypeOK
<1>2. /\ todo' = Tail(todo) /\ Tail(todo) \in Seq(Request) /\ Len(todo) = Len(Tail(todo)) + 1
      /\ call' = call /\ frees' = frees /\ status' = status
      /\ call # Idle /\ c \in Objects
  BY HeadRequest DEF TypeInv, Store
<1>3. CASE call.op = "grow"
  <2>1. local' = [local EXCEPT ![c] = base] /\ fields' = fields
    BY <1>3 DEF Store
  <2>2. StreamFieldsOK'
    BY <1>1, <1>2, <1>3, <2>1 DEF StreamFieldsOK, Live
  <2>3. QED
    BY <1>1, <1>2, <2>1, <2>2
<1>4. CASE call.op = "create"
  <2>1. local' = local /\ fields' = [fields EXCEPT ![c] = Append(fields[c], base)]
    BY <1>4 DEF Store
  <2>2. /\ Append(fields[c], base) \in Seq(Nat)
        /\ Len(Append(fields[c], base)) = Len(fields[c]) + 1
        /\ Len(fields[c]) \in Nat /\ Len(Tail(todo)) \in Nat
    BY <1>1, <1>2, AppendProperties, LenProperties
  <2>3. fields' \in [Objects -> Seq(Nat)]
    BY <1>1, <1>2, <2>1, <2>2
  <2>4. StreamFieldsOK'
    <3> SUFFICES ASSUME NEW o \in Objects, Kind[o] = "stream"
                 PROVE  /\ Live(o)' => Len(fields'[o]) = 4
                        /\ status'[o] = "none" /\ (call' = Idle \/ call'.of # o)
                              => fields'[o] = <<>>
                        /\ call' # Idle /\ call'.of = o /\ call'.op = "create" =>
                              status'[o] = "none" /\ Len(fields'[o]) + Len(todo') = 4
                        /\ call' # Idle /\ call'.of = o => 
                              call'.op = "create" \/ (call'.op = "destroy" /\ Live(o)')
      BY DEF StreamFieldsOK
    <3>1. CASE o = c
      <4>1. status[o] = "none" /\ Len(fields[o]) + Len(todo) = 4
        BY <1>1, <1>2, <1>4, <3>1 DEF StreamFieldsOK
      <4>2. Len(fields'[o]) = Len(fields[o]) + 1
        BY <1>1, <1>2, <2>1, <2>2, <3>1
      <4>3. QED
        BY <1>2, <1>4, <2>2, <3>1, <4>1, <4>2 DEF Live
    <3>2. CASE o # c
      <4>1. fields'[o] = fields[o]
        BY <1>1, <2>1, <3>2
      <4>2. QED
        BY <1>1, <1>2, <3>2, <4>1 DEF StreamFieldsOK, Live
    <3>3. QED
      BY <3>1, <3>2
  <2>5. QED
    BY <1>1, <1>2, <2>1, <2>3, <2>4
<1>5. QED
  BY <1>3, <1>4 DEF Working

LEMMA AbortTypes ==
    ASSUME TypeInv, call \in Call, Abort, UNCHANGED <<fields, local>>
    PROVE  /\ status' \in [Objects -> {"none", "live", "lost", "gone"}]
           /\ call' = Idle /\ frees' = <<>> /\ todo' = <<>>
           /\ StreamFieldsOK'
<1>1. /\ status \in [Objects -> {"none", "live", "lost", "gone"}]
      /\ StreamFieldsOK /\ fields' = fields /\ call # Idle
  BY DEF TypeInv, TypeOK, Idle, Call
<1>2. call' = Idle /\ frees' = <<>> /\ todo' = <<>> /\ call.of \in Objects
  BY DEF Abort, Call
<1>3. CASE call.op = "create"
  <2>1. status' = [status EXCEPT ![call.of] = "lost"]
    BY <1>3 DEF Abort
  <2>2. QED
    BY <1>1, <1>2, <2>1 DEF StreamFieldsOK, Live
<1>4. CASE call.op # "create"
  <2>1. status' = status
    BY <1>4 DEF Abort
  <2>2. \A o \in Objects : Kind[o] = "stream" /\ call.of = o => Live(o)
    BY <1>1, <1>4 DEF StreamFieldsOK
  <2>3. QED
    BY <1>1, <1>2, <2>1, <2>2 DEF StreamFieldsOK, Live
<1>5. QED
  BY <1>3, <1>4

-----------------------------------------------------------------------------
(* What the steps that touch memory do, as the new reservation they make.  *)

Mapping(r) == [from |-> r.base, to |-> r.base + r.size]

\* The region new is the next in the address space.
Reserves(new) ==
    /\ new \in Reservation /\ new.base >= uvm_vaddr
    /\ uvm_vaddr' = new.base + new.size
    /\ reserved' = reserved \cup {new}

LEMMA ReserveIs ==
    ASSUME TypeOK, Working, NEW req \in Request, NEW size \in Positive, NEW align \in Positive,
           NEW handle \in Nat, Reserve(req, size, align, handle)
    PROVE  \E new \in Reservation :
              /\ Reserves(new)
              /\ new.base = Bump(align) /\ new.size = size /\ new.via = req.via
              /\ new.map = req.map /\ new.handle = handle /\ new.of = call.of
<1> DEFINE new == [base |-> Bump(align), size |-> size, of |-> call.of, via |-> req.via,
                   map |-> req.map, handle |-> handle]
<1>1. Bump(align) \in Nat /\ Bump(align) >= uvm_vaddr
  BY BumpBounds DEF TypeOK
<1>2. call.of \in Objects
  BY HeadRequest
<1>3. req.via \in {"gpu", "system", "window"} /\ req.map \in BOOLEAN
  BY DEF Request
<1>4. new \in Reservation
  BY <1>1, <1>2, <1>3 DEF Reservation
<1>5. uvm_vaddr' = Bump(align) + size /\ reserved' = reserved \cup {new}
  BY DEF Reserve
<1>6. Reserves(new)
  BY <1>1, <1>4, <1>5 DEF Reserves
<1>7. QED
  BY <1>4, <1>6

LEMMA GpuAllocIs ==
    ASSUME TypeOK, NEW done \in 1..4, GpuAlloc(done)
    PROVE  \E new \in Reservation :
              /\ Reserves(new) /\ new.via = "gpu" /\ new.handle = made + 1
              /\ MakeObject
              /\ \/ hostMappedPtrs' = hostMappedPtrs
                 \/ new.map /\ hostMappedPtrs' = Append(hostMappedPtrs, Mapping(new))
              /\ \/ /\ va_to_mem_handle' =
                           [va \in DOMAIN va_to_mem_handle \cup {new.base} |->
                              IF va = new.base THEN made + 1 ELSE va_to_mem_handle[va]]
                    /\ new.map => hostMappedPtrs' = Append(hostMappedPtrs, Mapping(new))
                    /\ Store(new.base) /\ UNCHANGED failures
                 \/ Fault /\ Abort /\ UNCHANGED <<va_to_mem_handle, fields, local>>
<1> DEFINE req   == Head(todo)
           align == IF req.huge THEN HugePage ELSE SmallPage
           size  == RoundUp(req.size, align)
           steps == IF req.map THEN 4 ELSE 3
<1>1. Working /\ req.via = "gpu"
  BY DEF GpuAlloc
<1>2. req \in Request
  BY <1>1, HeadRequest
<1>3. align \in Positive /\ req.size \in Positive /\ req.map \in BOOLEAN
  BY <1>2, PageAssumption DEF Request
<1>4. size \in Positive
  BY <1>3, RoundUpBounds
<1>5. /\ Reserve(req, size, align, made + 1) /\ MakeObject /\ done <= steps
      /\ hostMappedPtrs' = IF req.map /\ done >= 3
            THEN Append(hostMappedPtrs, [from |-> Bump(align), to |-> Bump(align) + size])
            ELSE hostMappedPtrs
      /\ IF done = steps
            THEN /\ va_to_mem_handle' =
                       [va \in DOMAIN va_to_mem_handle \cup {Bump(align)} |->
                          IF va = Bump(align) THEN made + 1 ELSE va_to_mem_handle[va]]
                 /\ Store(Bump(align)) /\ UNCHANGED failures
            ELSE Fault /\ Abort /\ UNCHANGED <<va_to_mem_handle, fields, local>>
  BY DEF GpuAlloc
<1> HIDE DEF req, align, size
<1>6. made + 1 \in Nat
  BY DEF TypeOK
<1>7. PICK new \in Reservation :
              /\ Reserves(new)
              /\ new.base = Bump(align) /\ new.size = size /\ new.via = req.via
              /\ new.map = req.map /\ new.handle = made + 1 /\ new.of = call.of
  BY <1>1, <1>2, <1>3, <1>4, <1>5, <1>6, ReserveIs
<1>8. Mapping(new) = [from |-> Bump(align), to |-> Bump(align) + size]
  BY <1>7 DEF Mapping
<1>9. new.map /\ done = steps =>
          hostMappedPtrs' = Append(hostMappedPtrs, Mapping(new))
  BY <1>5, <1>7, <1>8
<1>10. \/ hostMappedPtrs' = hostMappedPtrs
       \/ new.map /\ hostMappedPtrs' = Append(hostMappedPtrs, Mapping(new))
  BY <1>5, <1>7, <1>8
<1>11. QED
  BY <1>1, <1>5, <1>7, <1>9, <1>10

\* The other two ways to reserve addresses leave both maps alone.
LEMMA SystemOrWindowIs ==
    ASSUME TypeOK, NEW done \in 1..4, GpuSystemAlloc(done) \/ OpenWindow(done)
    PROVE  \E new \in Reservation :
              /\ Reserves(new) /\ new.via # "gpu"
              /\ MakeObject \/ UNCHANGED <<made, allocated>>
              /\ UNCHANGED <<va_to_mem_handle, hostMappedPtrs>>
              /\ \/ Store(new.base) /\ UNCHANGED failures
                 \/ Fault /\ Abort /\ UNCHANGED <<fields, local>>
<1> DEFINE req == Head(todo)
<1>1. Working /\ req.via \in {"system", "window"}
  BY DEF GpuSystemAlloc, OpenWindow
<1>2. req \in Request
  BY <1>1, HeadRequest
<1>3. SmallPage \in Positive /\ req.size \in Positive /\ made + 1 \in Nat
  BY <1>2, PageAssumption DEF Request, TypeOK
<1>4. PICK handle \in Nat : Reserve(req, req.size, SmallPage, handle)
  BY <1>3 DEF GpuSystemAlloc, OpenWindow
<1>5. PICK new \in Reservation :
              /\ Reserves(new)
              /\ new.base = Bump(SmallPage) /\ new.size = req.size /\ new.via = req.via
              /\ new.map = req.map /\ new.handle = handle /\ new.of = call.of
  BY <1>1, <1>2, <1>3, <1>4, ReserveIs
<1>6. /\ MakeObject \/ UNCHANGED <<made, allocated>>
      /\ UNCHANGED <<va_to_mem_handle, hostMappedPtrs>>
      /\ \/ Store(Bump(SmallPage)) /\ UNCHANGED failures
         \/ Fault /\ Abort /\ UNCHANGED <<fields, local>>
  BY DEF GpuSystemAlloc, OpenWindow
<1>7. QED
  BY <1>1, <1>5, <1>6

-----------------------------------------------------------------------------
(* Every step keeps the types.                                             *)

LEMMA AbortOrStoreTypes ==
    ASSUME TypeInv, Working,
           \/ \E base \in Nat : Store(base) /\ UNCHANGED failures
           \/ Fault /\ Abort /\ UNCHANGED <<fields, local>>
    PROVE  /\ status' \in [Objects -> {"none", "live", "lost", "gone"}]
           /\ fields' \in [Objects -> Seq(Nat)] /\ local' \in [Objects -> Nat]
           /\ call' \in {Idle} \cup Call /\ frees' \in Seq(Nat) /\ todo' \in Seq(Request)
           /\ failures' \in Nat /\ StreamFieldsOK'
<1>1. TypeOK /\ call \in Call /\ failures \in Nat /\ frees \in Seq(Nat)
      /\ status \in [Objects -> {"none", "live", "lost", "gone"}]
      /\ fields \in [Objects -> Seq(Nat)] /\ local \in [Objects -> Nat]
  BY HeadRequest DEF TypeInv, TypeOK
<1>2. CASE \E base \in Nat : Store(base) /\ UNCHANGED failures
  <2>1. PICK base \in Nat : Store(base) /\ UNCHANGED failures
    BY <1>2
  <2>2. QED
    BY <1>1, <2>1, StoreTypes
<1>3. CASE Fault /\ Abort /\ UNCHANGED <<fields, local>>
  <2>1. failures' \in Nat
    BY <1>1, <1>3 DEF Fault
  <2>2. QED
    BY <1>1, <1>3, <2>1, AbortTypes
<1>4. QED
  BY <1>2, <1>3

LEMMA GpuAllocTypes ==
    ASSUME TypeInv, NEW done \in 1..4, GpuAlloc(done)
    PROVE  TypeInv'
<1>1. TypeOK /\ Working
  BY DEF TypeInv, GpuAlloc
<1>2. PICK new \in Reservation :
              /\ Reserves(new) /\ new.via = "gpu" /\ new.handle = made + 1
              /\ MakeObject
              /\ \/ hostMappedPtrs' = hostMappedPtrs
                 \/ new.map /\ hostMappedPtrs' = Append(hostMappedPtrs, Mapping(new))
              /\ \/ /\ va_to_mem_handle' =
                           [va \in DOMAIN va_to_mem_handle \cup {new.base} |->
                              IF va = new.base THEN made + 1 ELSE va_to_mem_handle[va]]
                    /\ new.map => hostMappedPtrs' = Append(hostMappedPtrs, Mapping(new))
                    /\ Store(new.base) /\ UNCHANGED failures
                 \/ Fault /\ Abort /\ UNCHANGED <<va_to_mem_handle, fields, local>>
  BY <1>1, GpuAllocIs
<1>3. new.base \in Nat /\ new.size \in Positive
  BY DEF Reservation
<1>4. /\ status' \in [Objects -> {"none", "live", "lost", "gone"}]
      /\ fields' \in [Objects -> Seq(Nat)] /\ local' \in [Objects -> Nat]
      /\ call' \in {Idle} \cup Call /\ frees' \in Seq(Nat) /\ todo' \in Seq(Request)
      /\ failures' \in Nat /\ StreamFieldsOK'
  BY <1>1, <1>2, <1>3, AbortOrStoreTypes
<1>5. made' = made + 1 /\ made \in Nat /\ allocated' \subseteq 1..made'
  BY <1>1, <1>2 DEF MakeObject, TypeOK
<1>6. uvm_vaddr' \in Nat /\ reserved' \subseteq Reservation
  BY <1>1, <1>2, <1>3 DEF Reserves, TypeOK, Positive
<1>7. Mapping(new) \in [from : Nat, to : Nat]
  BY <1>3 DEF Mapping, Positive
<1>8. hostMappedPtrs' \in Seq([from : Nat, to : Nat])
  <2>1. hostMappedPtrs \in Seq([from : Nat, to : Nat])
    BY <1>1 DEF TypeOK
  <2>2. Append(hostMappedPtrs, Mapping(new)) \in Seq([from : Nat, to : Nat])
    BY <1>7, <2>1, AppendProperties
  <2>3. QED
    BY <1>2, <2>1, <2>2
<1>9. DOMAIN va_to_mem_handle' \subseteq Nat
      /\ va_to_mem_handle' \in [DOMAIN va_to_mem_handle' -> 1..made']
  <2>1. /\ DOMAIN va_to_mem_handle \subseteq Nat
        /\ va_to_mem_handle \in [DOMAIN va_to_mem_handle -> 1..made]
    BY <1>1 DEF TypeOK
  <2>2. CASE va_to_mem_handle' = va_to_mem_handle
    BY <1>5, <2>1, <2>2
  <2>3. CASE va_to_mem_handle' =
                [va \in DOMAIN va_to_mem_handle \cup {new.base} |->
                   IF va = new.base THEN made + 1 ELSE va_to_mem_handle[va]]
    BY <1>3, <1>5, <2>1, <2>3
  <2>4. QED
    BY <1>2, <2>2, <2>3
<1>10. made' \in Nat
  BY <1>5
<1>11. TypeOK'
  BY <1>4, <1>5, <1>6, <1>8, <1>9, <1>10, Zenon DEF TypeOK
<1>12. QED
  BY <1>4, <1>11 DEF TypeInv

LEMMA SystemOrWindowTypes ==
    ASSUME TypeInv, NEW done \in 1..4, GpuSystemAlloc(done) \/ OpenWindow(done)
    PROVE  TypeInv'
<1>1. TypeOK /\ Working
  BY DEF TypeInv, GpuSystemAlloc, OpenWindow
<1>2. PICK new \in Reservation :
              /\ Reserves(new) /\ new.via # "gpu"
              /\ MakeObject \/ UNCHANGED <<made, allocated>>
              /\ UNCHANGED <<va_to_mem_handle, hostMappedPtrs>>
              /\ \/ Store(new.base) /\ UNCHANGED failures
                 \/ Fault /\ Abort /\ UNCHANGED <<fields, local>>
  BY <1>1, SystemOrWindowIs
<1>3. new.base \in Nat /\ new.size \in Positive
  BY DEF Reservation
<1>4. /\ status' \in [Objects -> {"none", "live", "lost", "gone"}]
      /\ fields' \in [Objects -> Seq(Nat)] /\ local' \in [Objects -> Nat]
      /\ call' \in {Idle} \cup Call /\ frees' \in Seq(Nat) /\ todo' \in Seq(Request)
      /\ failures' \in Nat /\ StreamFieldsOK'
  BY <1>1, <1>2, <1>3, AbortOrStoreTypes
<1>5. made' \in {made, made + 1} /\ made \in Nat /\ allocated' \subseteq 1..made'
  BY <1>1, <1>2 DEF MakeObject, TypeOK
<1>6. uvm_vaddr' \in Nat /\ reserved' \subseteq Reservation
  BY <1>1, <1>2, <1>3 DEF Reserves, TypeOK, Positive
<1>7. /\ DOMAIN va_to_mem_handle' \subseteq Nat
      /\ va_to_mem_handle' \in [DOMAIN va_to_mem_handle' -> 1..made']
      /\ hostMappedPtrs' \in Seq([from : Nat, to : Nat])
  BY <1>1, <1>2, <1>5 DEF TypeOK
<1>8. made' \in Nat
  BY <1>5
<1>9. TypeOK'
  BY <1>4, <1>5, <1>6, <1>7, <1>8, Zenon DEF TypeOK
<1>10. QED
  BY <1>4, <1>9 DEF TypeInv

LEMMA CallFailsTypes ==
    ASSUME TypeInv, CallFails
    PROVE  TypeInv'
<1>1. TypeOK /\ call \in Call
  <2>1. TypeOK /\ call \in {Idle} \cup Call
    BY DEF TypeInv, TypeOK
  <2>2. call.op \in {"create", "grow"}
    BY DEF CallFails, Working
  <2>3. call # Idle
    BY <2>2 DEF Idle
  <2>4. QED
    BY <2>1, <2>3
<1>2. Fault /\ Abort /\ UNCHANGED <<memory, fields, local>>
  BY DEF CallFails
<1>3. /\ status' \in [Objects -> {"none", "live", "lost", "gone"}]
      /\ call' = Idle /\ frees' = <<>> /\ todo' = <<>>
      /\ StreamFieldsOK'
  BY <1>1, <1>2, AbortTypes
<1>4. failures' \in Nat
  BY <1>1, <1>2 DEF Fault, TypeOK
<1>5. QED
  BY <1>1, <1>2, <1>3, <1>4 DEF TypeInv, TypeOK, memory

\* Erasing an element.
LEMMA EraseProperties ==
    ASSUME NEW S, NEW s \in Seq(S), NEW i \in DOMAIN s
    PROVE  /\ Erase(s, i) \in Seq(S)
           /\ Len(Erase(s, i)) = Len(s) - 1
           /\ \A k \in DOMAIN Erase(s, i) :
                 /\ k < i => k \in DOMAIN s /\ Erase(s, i)[k] = s[k]
                 /\ k >= i => k + 1 \in DOMAIN s /\ Erase(s, i)[k] = s[k + 1]
           /\ \A k \in DOMAIN s :
                 /\ k < i => k \in DOMAIN Erase(s, i)
                 /\ k > i => k - 1 \in DOMAIN Erase(s, i)
<1> DEFINE a == SubSeq(s, 1, i - 1)
           b == SubSeq(s, i + 1, Len(s))
<1>1. i \in 1..Len(s) /\ Len(s) \in Nat /\ DOMAIN s = 1..Len(s)
  BY LenProperties
<1>2. /\ a \in Seq(S) /\ Len(a) = i - 1
      /\ \A k \in 1..(i - 1) : a[k] = s[k]
  BY <1>1, SMT
<1>3. /\ b \in Seq(S) /\ Len(b) = Len(s) - i
      /\ \A k \in 1..(Len(s) - i) : b[k] = s[i + k]
  BY <1>1, SMT
<1>4. Erase(s, i) = a \o b
  BY DEF Erase
<1> DEFINE e == Erase(s, i)
<1> HIDE DEF a, b, e
<1>5. e = a \o b
  BY <1>4 DEF e
<1>6. /\ e \in Seq(S) /\ Len(e) = Len(a) + Len(b)
      /\ \A k \in 1..(Len(a) + Len(b)) :
            e[k] = IF k <= Len(a) THEN a[k] ELSE b[k - Len(a)]
  BY <1>2, <1>3, <1>5, ConcatProperties, Zenon
<1>7. Len(e) = Len(s) - 1 /\ DOMAIN e = 1..(Len(s) - 1)
  BY <1>1, <1>2, <1>3, <1>6, LenProperties
<1>8. ASSUME NEW k \in 1..(Len(s) - 1)
      PROVE  /\ k < i => k \in DOMAIN s /\ e[k] = s[k]
             /\ k >= i => k + 1 \in DOMAIN s /\ e[k] = s[k + 1]
  <2>1. k \in 1..(Len(a) + Len(b)) /\ k \in Nat /\ i \in Nat /\ Len(s) \in Nat
    BY <1>1, <1>2, <1>3
  <2>2. e[k] = IF k <= Len(a) THEN a[k] ELSE b[k - Len(a)]
    BY <1>6, <2>1
  <2>3. ASSUME k < i PROVE e[k] = s[k] /\ k \in DOMAIN s
    <3>1. k <= Len(a) /\ k \in 1..(i - 1) /\ k \in 1..Len(s)
      BY <1>1, <1>2, <2>1, <2>3
    <3>2. QED
      BY <1>1, <1>2, <2>2, <3>1
  <2>4. ASSUME k >= i PROVE e[k] = s[k + 1] /\ k + 1 \in DOMAIN s
    <3>1. /\ ~(k <= Len(a)) /\ k - Len(a) \in 1..(Len(s) - i)
          /\ i + (k - Len(a)) = k + 1 /\ k + 1 \in 1..Len(s)
      BY <1>1, <1>2, <2>1, <2>4
    <3>2. e[k] = b[k - Len(a)] /\ b[k - Len(a)] = s[i + (k - Len(a))]
      BY <1>3, <2>2, <3>1
    <3>3. QED
      BY <1>1, <3>1, <3>2
  <2>5. QED
    BY <2>3, <2>4
<1>9. \A k \in DOMAIN s : /\ k < i => k \in DOMAIN e
                          /\ k > i => k - 1 \in DOMAIN e
  BY <1>1, <1>7
<1>10. QED
  BY <1>6, <1>7, <1>8, <1>9 DEF e

\* Freeing takes one entry out of the list of mapped ranges, or none.
LEMMA UnmapIs ==
    ASSUME TypeOK, GpuFree
    PROVE  \/ Unmapped(Head(frees)) = {} /\ hostMappedPtrs' = hostMappedPtrs
           \/ \E i \in Unmapped(Head(frees)) :
                 i \in DOMAIN hostMappedPtrs /\ hostMappedPtrs' = Erase(hostMappedPtrs, i)
BY DEF GpuFree, Unmapped

\* What is left to free, once its head is taken off.
LEMMA RestOfFrees ==
    ASSUME TypeOK, Freeing
    PROVE  /\ Head(frees) \in Nat /\ Tail(frees) \in Seq(Nat)
           /\ call \in Call /\ call # Idle /\ call.of \in Objects
<1>1. frees \in Seq(Nat) /\ frees # <<>>
  BY DEF TypeOK, Freeing
<1>2. call \in Call /\ call # Idle
  BY DEF TypeOK, Freeing, Idle
<1>3. call.of \in Objects
  BY <1>2 DEF Call
<1>4. QED
  BY <1>1, <1>2, <1>3, HeadTailProperties

LEMMA GpuFreeTypes ==
    ASSUME TypeInv, GpuFree
    PROVE  TypeInv'
<1>1. TypeOK /\ StreamFieldsOK /\ Freeing
  BY DEF TypeInv, GpuFree
<1>2. frees' \in Seq(Nat) /\ UNCHANGED <<call, todo, uvm_vaddr, made, reserved, owners, failures>>
  BY <1>1, RestOfFrees DEF GpuFree, NextFree
<1>3. allocated' \subseteq 1..made'
  BY <1>1, <1>2 DEF GpuFree, TypeOK
<1>4. /\ DOMAIN va_to_mem_handle' \subseteq Nat
      /\ va_to_mem_handle' \in [DOMAIN va_to_mem_handle' -> 1..made']
  BY <1>1, <1>2 DEF GpuFree, TypeOK
<1>5. hostMappedPtrs' \in Seq([from : Nat, to : Nat])
  <2>1. hostMappedPtrs \in Seq([from : Nat, to : Nat])
    BY <1>1 DEF TypeOK
  <2>2. ASSUME NEW i \in DOMAIN hostMappedPtrs
        PROVE  Erase(hostMappedPtrs, i) \in Seq([from : Nat, to : Nat])
    BY <2>1, EraseProperties
  <2>3. QED
    BY <1>1, <2>1, <2>2, UnmapIs
<1>6. StreamFieldsOK'
  BY <1>1, <1>2 DEF StreamFieldsOK, Live, owners
<1>7. QED
  BY <1>1, <1>2, <1>3, <1>4, <1>5, <1>6 DEF TypeInv, TypeOK, owners

LEMMA FreeErrorTypes ==
    ASSUME TypeInv, Freeing, FreeError, failures' \in Nat
    PROVE  TypeInv'
<1>1. TypeOK /\ StreamFieldsOK /\ call \in Call
  BY RestOfFrees DEF TypeInv
<1>2. UNCHANGED <<memory, owners>>
  BY DEF FreeError
<1>3. CASE NextFree
  <2>1. frees' \in Seq(Nat) /\ UNCHANGED <<call, todo>>
    BY <1>1, <1>3, RestOfFrees DEF NextFree
  <2>2. StreamFieldsOK'
    BY <1>1, <1>2, <2>1 DEF StreamFieldsOK, Live, owners
  <2>3. QED
    BY <1>1, <1>2, <2>1, <2>2 DEF TypeInv, TypeOK, memory, owners
<1>4. CASE Abort
  <2>1. /\ call' = Idle /\ frees' = <<>> /\ todo' = <<>> /\ StreamFieldsOK'
    BY <1>1, <1>2, <1>4, AbortTypes DEF owners
  <2>2. QED
    BY <1>1, <1>2, <2>1 DEF TypeInv, TypeOK, memory, owners
<1>5. QED
  BY <1>3, <1>4 DEF FreeError

LEMMA BeginTypes ==
    ASSUME TypeInv, NEW op \in {"create", "grow", "destroy"}, NEW o \in Objects,
           NEW addresses \in Seq(Nat), NEW requests \in Seq(Request),
           Begin(op, o, addresses, requests),
           Kind[o] = "stream" =>
              \/ op = "create" /\ status[o] = "none" /\ Len(requests) = 4
              \/ op = "destroy" /\ Live(o)
    PROVE  TypeInv'
<1>1. TypeOK /\ StreamFieldsOK
  BY DEF TypeInv
<1>2. /\ call = Idle /\ call' = [op |-> op, of |-> o]
      /\ frees' = addresses /\ todo' = requests
      /\ UNCHANGED <<memory, owners, failures>>
  BY DEF Begin
<1>3. call' \in Call /\ call'.of = o /\ call'.op = op
  BY <1>2 DEF Call
<1>4. StreamFieldsOK'
  <2> SUFFICES ASSUME NEW s \in Objects, Kind[s] = "stream"
               PROVE  /\ Live(s)' => Len(fields'[s]) = 4
                      /\ status'[s] = "none" /\ (call' = Idle \/ call'.of # s)
                            => fields'[s] = <<>>
                      /\ call' # Idle /\ call'.of = s /\ call'.op = "create" =>
                            status'[s] = "none" /\ Len(fields'[s]) + Len(todo') = 4
                      /\ call' # Idle /\ call'.of = s =>
                            call'.op = "create" \/ (call'.op = "destroy" /\ Live(s)')
    BY DEF StreamFieldsOK
  <2>1. /\ status' = status /\ fields' = fields /\ Live(s)' = Live(s)
    BY <1>2 DEF owners, Live
  <2>2. /\ Live(s) => Len(fields[s]) = 4
        /\ status[s] = "none" => fields[s] = <<>>
    BY <1>1, <1>2 DEF StreamFieldsOK
  <2>3. status[s] = "none" => Len(fields[s]) = 0
    BY <2>2
  <2>4. QED
    <3>1. CASE s = o
      <4>1. /\ op = "create" => status[s] = "none" /\ Len(requests) = 4
            /\ op = "create" \/ (op = "destroy" /\ Live(s))
        BY <3>1 DEF Live
      <4>2. ASSUME op = "create" PROVE Len(fields[s]) + Len(requests) = 4
        <5>1. Len(fields[s]) = 0 /\ Len(requests) = 4
          BY <2>3, <4>1, <4>2
        <5>2. QED
          BY <5>1
      <4>3. call'.of = s /\ call'.op = op /\ todo' = requests
        BY <1>2, <1>3, <3>1
      <4>4. QED
        BY <2>1, <2>2, <4>1, <4>2, <4>3
    <3>2. CASE s # o
      BY <1>3, <2>1, <2>2, <3>2
    <3>3. QED
      BY <3>1, <3>2
<1>5. QED
  BY <1>1, <1>2, <1>3, <1>4 DEF TypeInv, TypeOK, memory, owners

LEMMA ReturnTypes ==
    ASSUME TypeInv, Return, call # Idle
    PROVE  TypeInv'
<1>1. /\ TypeOK /\ StreamFieldsOK
      /\ call \in Call /\ call.of \in Objects
      /\ call.op \in {"create", "grow", "destroy"}
  BY DEF TypeInv, TypeOK, Call
<1>2. /\ todo = <<>> /\ UNCHANGED <<memory, fields, local, frees, failures>>
      /\ status' = [status EXCEPT ![call.of] = IF call.op = "destroy" THEN "gone" ELSE "live"]
      /\ \/ call' = Idle /\ todo' = todo
         \/ /\ Kind[call.of] = "context"
            /\ \E k \in Objects : /\ Kind[k] = "kernels" /\ call' = [op |-> "create", of |-> k]
                                  /\ todo' = ModuleNeeds
  BY DEF Return
<1>3. status' \in [Objects -> {"none", "live", "lost", "gone"}]
  BY <1>1, <1>2 DEF TypeOK
<1>4. call' \in {Idle} \cup Call /\ todo' \in Seq(Request)
  <2>1. ASSUME NEW k \in Objects PROVE [op |-> "create", of |-> k] \in Call
    BY DEF Call
  <2>2. call' \in {Idle} \cup Call
    BY <1>2, <2>1
  <2>3. todo' \in Seq(Request)
    BY <1>1, <1>2, NeedsTypes DEF TypeOK
  <2>4. QED
    BY <2>2, <2>3
<1>5. call' = Idle \/ (call'.of \in Objects /\ Kind[call'.of] = "kernels")
  BY <1>2
<1>6. StreamFieldsOK'
  <2> SUFFICES ASSUME NEW s \in Objects, Kind[s] = "stream"
               PROVE  /\ status'[s] = "live" => Len(fields[s]) = 4
                      /\ status'[s] = "none" => fields[s] = <<>>
    BY <1>2, <1>5 DEF StreamFieldsOK, Live
  <2>1. CASE call.of = s
    <3>1. status'[s] \in {"live", "gone"}
      BY <1>1, <1>2, <2>1 DEF TypeOK
    <3>2. CASE call.op = "create"
      <4>1. Len(fields[s]) + Len(todo) = 4 /\ Len(todo) = 0 /\ Len(fields[s]) \in Nat
        BY <1>1, <1>2, <2>1, <3>2, LenProperties DEF StreamFieldsOK, TypeOK
      <4>2. QED
        BY <3>1, <4>1
    <3>3. CASE call.op # "create"
      <4>1. call.op = "destroy"
        BY <1>1, <2>1, <3>3 DEF StreamFieldsOK
      <4>2. status'[s] = "gone"
        BY <1>1, <1>2, <2>1, <4>1 DEF TypeOK
      <4>3. QED
        BY <4>2
    <3>4. QED
      BY <3>2, <3>3
  <2>2. CASE call.of # s
    <3>1. status'[s] = status[s]
      BY <1>1, <1>2, <2>2 DEF TypeOK
    <3>2. QED
      BY <1>1, <2>2, <3>1 DEF StreamFieldsOK, Live
  <2>3. QED
    BY <2>1, <2>2
<1>7. QED
  BY <1>1, <1>2, <1>3, <1>4, <1>6 DEF TypeInv, TypeOK, memory

LEMMA NatTuples ==
    \A a, b, c, d \in Nat : /\ <<a>> \in Seq(Nat) /\ <<a, b, c, d>> \in Seq(Nat)
                            /\ <<>> \in Seq(Nat) /\ <<>> \in Seq(Request)
BY SMT

\* The addresses a call frees.
LEMMA FreesTypes ==
    ASSUME TypeInv, NEW o \in Objects
    PROVE  /\ fields[o] \in Seq(Nat) /\ LocalFree(o) \in Seq(Nat)
           /\ fields[o] \o LocalFree(o) \in Seq(Nat)
           /\ Kind[o] = "stream" /\ Live(o) /\ call = Idle => StreamFrees(o) \in Seq(Nat)
<1>1. fields[o] \in Seq(Nat) /\ local[o] \in Nat
  BY DEF TypeInv, TypeOK
<1>2. LocalFree(o) \in Seq(Nat)
  BY <1>1, NatTuples DEF LocalFree
<1>3. fields[o] \o LocalFree(o) \in Seq(Nat)
  BY <1>1, <1>2, ConcatProperties
<1>4. ASSUME Kind[o] = "stream", Live(o)
      PROVE  StreamFrees(o) \in Seq(Nat)
  <2>1. Len(fields[o]) = 4
    BY <1>4 DEF TypeInv, StreamFieldsOK
  <2>2. /\ fields[o][1] \in Nat /\ fields[o][2] \in Nat
        /\ fields[o][3] \in Nat /\ fields[o][4] \in Nat
    BY <1>1, <2>1
  <2>3. QED
    BY <2>2, NatTuples, Zenon DEF StreamFrees
<1>5. QED
  BY <1>1, <1>2, <1>3, <1>4

LEMMA CallsTypes ==
    ASSUME TypeInv, NEW o \in Objects,
           \/ CtxCreate(o) \/ CtxDestroy(o) \/ StreamCreate(o) \/ StreamDestroy(o)
           \/ ModuleLoadData(o) \/ EnsureEnoughLocalMem(o) \/ ModuleUnload(o) \/ MemFree(o)
           \/ \E size \in BufferSizes, map \in BOOLEAN : MemAlloc(o, size, map)
    PROVE  TypeInv'
<1>1. <<>> \in Seq(Nat) /\ <<>> \in Seq(Request)
  BY SMT
<1>2. CASE CtxCreate(o)
  <2>1. Kind[o] # "stream" /\ Begin("create", o, <<>>, ContextNeeds)
    BY <1>2 DEF CtxCreate
  <2>2. QED
    BY <1>1, <2>1, NeedsTypes, BeginTypes
<1>3. CASE StreamCreate(o)
  <2>1. status[o] = "none" /\ Begin("create", o, <<>>, StreamNeeds)
    BY <1>3 DEF StreamCreate
  <2>2. QED
    BY <1>1, <2>1, NeedsTypes, BeginTypes
<1>4. CASE ModuleLoadData(o)
  <2>1. Kind[o] # "stream" /\ Begin("create", o, <<>>, ModuleNeeds)
    BY <1>4 DEF ModuleLoadData
  <2>2. QED
    BY <1>1, <2>1, NeedsTypes, BeginTypes
<1>5. CASE \E size \in BufferSizes, map \in BOOLEAN : MemAlloc(o, size, map)
  <2>1. PICK size \in BufferSizes, map \in BOOLEAN : MemAlloc(o, size, map)
    BY <1>5
  <2>2. Kind[o] # "stream" /\ Begin("create", o, <<>>, BufferNeeds(size, map))
    BY <2>1 DEF MemAlloc
  <2>3. BufferNeeds(size, map) \in Seq(Request)
    BY NeedsTypes
  <2>4. QED
    BY <1>1, <2>2, <2>3, BeginTypes
<1>6. CASE StreamDestroy(o)
  <2>1. /\ Kind[o] = "stream" /\ Live(o) /\ call = Idle
        /\ Begin("destroy", o, StreamFrees(o), <<>>)
    BY <1>6 DEF StreamDestroy, Live, Begin
  <2>2. StreamFrees(o) \in Seq(Nat)
    BY <2>1, FreesTypes
  <2>3. QED
    BY <1>1, <2>1, <2>2, BeginTypes
<1>7. CASE ModuleUnload(o)
  <2>1. Kind[o] # "stream" /\ Begin("destroy", o, fields[o] \o LocalFree(o), <<>>)
    BY <1>7 DEF ModuleUnload
  <2>2. fields[o] \o LocalFree(o) \in Seq(Nat)
    BY FreesTypes
  <2>3. QED
    BY <1>1, <2>1, <2>2, BeginTypes
<1>8. CASE MemFree(o)
  <2>1. Kind[o] # "stream" /\ Begin("destroy", o, fields[o], <<>>)
    BY <1>8 DEF MemFree
  <2>2. fields[o] \in Seq(Nat)
    BY FreesTypes
  <2>3. QED
    BY <1>1, <2>1, <2>2, BeginTypes
<1>9. CASE EnsureEnoughLocalMem(o)
  <2>1. Kind[o] # "stream" /\ Begin("grow", o, LocalFree(o), LocalNeeds)
    BY <1>9 DEF EnsureEnoughLocalMem
  <2>2. LocalFree(o) \in Seq(Nat) /\ LocalNeeds \in Seq(Request)
    BY FreesTypes, NeedsTypes
  <2>3. QED
    BY <2>1, <2>2, BeginTypes
<1>10. CASE CtxDestroy(o)
  <2>1. /\ TypeOK /\ StreamFieldsOK /\ Kind[o] # "stream"
        /\ status' = [status EXCEPT ![o] = "gone"]
        /\ UNCHANGED <<memory, fields, local, call, frees, todo, failures>>
    BY <1>10 DEF CtxDestroy, TypeInv, progress
  <2>2. status' \in [Objects -> {"none", "live", "lost", "gone"}]
    BY <2>1 DEF TypeOK
  <2>3. \A s \in Objects : Kind[s] = "stream" => status'[s] = status[s]
    BY <2>1 DEF TypeOK
  <2>4. StreamFieldsOK'
    BY <2>1, <2>3 DEF StreamFieldsOK, Live
  <2>5. QED
    BY <2>1, <2>2, <2>4 DEF TypeInv, TypeOK, memory
<1>11. QED
  BY <1>2, <1>3, <1>4, <1>5, <1>6, <1>7, <1>8, <1>9, <1>10

LEMMA TypesStep == TypeInv /\ [Next]_vars => TypeInv'
<1> SUFFICES ASSUME TypeInv, [Next]_vars PROVE TypeInv'
  OBVIOUS
<1>1. CASE CallFails
  BY <1>1, CallFailsTypes
<1>2. CASE GpuFree
  BY <1>2, GpuFreeTypes
<1>3. CASE FreeUnknown \/ FreeFails
  <2>1. Freeing /\ FreeError /\ failures' \in Nat
    BY <1>3 DEF FreeUnknown, FreeFails, Fault, TypeInv, TypeOK
  <2>2. QED
    BY <2>1, FreeErrorTypes
<1>4. CASE call # Idle /\ Return
  BY <1>4, ReturnTypes
<1>5. CASE \E done \in 1..4 : GpuAlloc(done) \/ GpuSystemAlloc(done) \/ OpenWindow(done)
  BY <1>5, GpuAllocTypes, SystemOrWindowTypes
<1>6. ASSUME NEW o \in Objects,
             \/ CtxCreate(o) \/ CtxDestroy(o) \/ StreamCreate(o) \/ StreamDestroy(o)
             \/ ModuleLoadData(o) \/ EnsureEnoughLocalMem(o) \/ ModuleUnload(o) \/ MemFree(o)
             \/ \E size \in BufferSizes, map \in BOOLEAN : MemAlloc(o, size, map)
      PROVE  TypeInv'
  BY <1>6, CallsTypes
<1>7. CASE UNCHANGED vars
  BY <1>7 DEF TypeInv, TypeOK, StreamFieldsOK, Live, vars, memory, owners, progress
<1>8. QED
  BY <1>1, <1>2, <1>3, <1>4, <1>5, <1>6, <1>7 DEF Next, CallStep

LEMMA AlwaysTypeInv == Spec => []TypeInv
BY InitTypes, TypesStep, PTL DEF Spec

\* The state keeps its types whatever is allocated, freed and refused; in
\* particular every handle in the map is one the driver made.
THEOREM TypeCorrect == Spec => []TypeOK
<1>1. TypeInv => TypeOK
  BY DEF TypeInv
<1>2. QED
  BY <1>1, AlwaysTypeInv, PTL

-----------------------------------------------------------------------------
(* Regions.  A new region begins at or after the bump pointer, every old    *)
(* one ends at or before it; so regions stay apart, and an address that is  *)
(* in the map is the start of exactly one of them.                          *)

Ends(r) == r.base + r.size
DisjointRanges(r, t) == Ends(r) <= t.base \/ Ends(t) <= r.base

RegionInv ==
    /\ HeapStart <= uvm_vaddr
    /\ \A r \in reserved : HeapStart <= r.base /\ Ends(r) <= uvm_vaddr
    /\ \A r, t \in reserved : r # t => DisjointRanges(r, t)
    /\ \A va \in DOMAIN va_to_mem_handle : \E r \in reserved : r.base = va

\* What a step does to memory: a new reservation, a free, or nothing.
NewMemory ==
    \E new \in Reservation :
        /\ Reserves(new)
        /\ \/ hostMappedPtrs' = hostMappedPtrs
           \/ /\ new.map /\ new.via = "gpu"
              /\ hostMappedPtrs' = Append(hostMappedPtrs, Mapping(new))
        /\ \/ va_to_mem_handle' = va_to_mem_handle
           \/ /\ new.via = "gpu"
              /\ DOMAIN va_to_mem_handle' = DOMAIN va_to_mem_handle \cup {new.base}
              /\ new.map => hostMappedPtrs' = Append(hostMappedPtrs, Mapping(new))

LEMMA StepEffects ==
    ASSUME TypeOK, [Next]_vars
    PROVE  NewMemory \/ GpuFree \/ UNCHANGED memory
<1>1. ASSUME NEW done \in 1..4, GpuAlloc(done)
      PROVE  NewMemory
  <2>1. PICK new \in Reservation :
              /\ Reserves(new) /\ new.via = "gpu" /\ new.handle = made + 1
              /\ MakeObject
              /\ \/ hostMappedPtrs' = hostMappedPtrs
                 \/ new.map /\ hostMappedPtrs' = Append(hostMappedPtrs, Mapping(new))
              /\ \/ /\ va_to_mem_handle' =
                           [va \in DOMAIN va_to_mem_handle \cup {new.base} |->
                              IF va = new.base THEN made + 1 ELSE va_to_mem_handle[va]]
                    /\ new.map => hostMappedPtrs' = Append(hostMappedPtrs, Mapping(new))
                    /\ Store(new.base) /\ UNCHANGED failures
                 \/ Fault /\ Abort /\ UNCHANGED <<va_to_mem_handle, fields, local>>
    BY <1>1, GpuAllocIs
  <2>2. \/ va_to_mem_handle' = va_to_mem_handle
        \/ /\ new.via = "gpu"
           /\ DOMAIN va_to_mem_handle' = DOMAIN va_to_mem_handle \cup {new.base}
           /\ new.map => hostMappedPtrs' = Append(hostMappedPtrs, Mapping(new))
    BY <2>1
  <2>3. QED
    BY <2>1, <2>2, Zenon DEF NewMemory
<1>2. ASSUME NEW done \in 1..4, GpuSystemAlloc(done) \/ OpenWindow(done)
      PROVE  NewMemory
  BY <1>2, SystemOrWindowIs DEF NewMemory
<1>3. CASE UNCHANGED vars
  BY <1>3 DEF vars
<1>4. ASSUME NEW o \in Objects,
             \/ CtxCreate(o) \/ CtxDestroy(o) \/ StreamCreate(o) \/ StreamDestroy(o)
             \/ ModuleLoadData(o) \/ EnsureEnoughLocalMem(o) \/ ModuleUnload(o) \/ MemFree(o)
             \/ \E size \in BufferSizes, map \in BOOLEAN : MemAlloc(o, size, map)
      PROVE  UNCHANGED memory
  BY <1>4 DEF CtxCreate, CtxDestroy, StreamCreate, StreamDestroy, ModuleLoadData,
              EnsureEnoughLocalMem, ModuleUnload, MemFree, MemAlloc, Begin
<1>5. CASE CallFails \/ FreeUnknown \/ FreeFails \/ Return
  BY <1>5 DEF CallFails, FreeUnknown, FreeFails, FreeError, Return
<1>6. CallStep => NewMemory \/ GpuFree \/ UNCHANGED memory
  BY <1>1, <1>2, <1>5 DEF CallStep
<1>7. CASE Next
  <2>1. CASE call # Idle /\ CallStep
    BY <1>6, <2>1
  <2>2. ASSUME NEW o \in Objects,
               \/ CtxCreate(o) \/ CtxDestroy(o) \/ StreamCreate(o) \/ StreamDestroy(o)
               \/ ModuleLoadData(o) \/ EnsureEnoughLocalMem(o) \/ ModuleUnload(o) \/ MemFree(o)
               \/ \E size \in BufferSizes, map \in BOOLEAN : MemAlloc(o, size, map)
        PROVE  UNCHANGED memory
    BY <1>4, <2>2
  <2>3. QED
    BY <1>7, <2>1, <2>2, Zenon DEF Next
<1>8. QED
  BY <1>3, <1>7

\* A reservation lies beyond all earlier ones.
LEMMA NewIsBeyond ==
    ASSUME TypeOK, RegionInv, NEW new \in Reservation, Reserves(new)
    PROVE  /\ HeapStart <= new.base /\ uvm_vaddr' = Ends(new) /\ uvm_vaddr < Ends(new)
           /\ \A r \in reserved : Ends(r) <= new.base /\ r.base < new.base /\ r # new
           /\ new.base \notin DOMAIN va_to_mem_handle
<1>1. /\ new.base \in Nat /\ new.size \in Nat /\ new.size > 0
      /\ new.base >= uvm_vaddr /\ uvm_vaddr \in Nat /\ HeapStart \in Nat
      /\ uvm_vaddr' = new.base + new.size
  <2>1. HeapStart \in Nat
    BY SizeAssumption DEF Positive
  <2>2. new.base \in Nat /\ new.size \in Nat /\ new.size > 0
    BY DEF Reservation, Positive
  <2>3. uvm_vaddr \in Nat
    BY DEF TypeOK
  <2>4. QED
    BY <2>1, <2>2, <2>3 DEF Reserves
<1>2. ASSUME NEW r \in reserved
      PROVE  Ends(r) <= new.base /\ r.base < new.base /\ r # new
  <2>1. r.base \in Nat /\ r.size \in Nat /\ r.size > 0
    BY DEF TypeOK, Reservation, Positive
  <2>2. Ends(r) <= uvm_vaddr
    BY DEF RegionInv
  <2>3. r.base + r.size <= uvm_vaddr
    BY <2>2 DEF Ends
  <2>4. r.base + r.size <= new.base /\ r.base < new.base
    BY <1>1, <2>1, <2>3
  <2>5. QED
    BY <1>1, <2>1, <2>4 DEF Ends
<1>3. new.base \notin DOMAIN va_to_mem_handle
  <2>1. \A va \in DOMAIN va_to_mem_handle : \E r \in reserved : r.base = va
    BY DEF RegionInv
  <2>2. \A r \in reserved : r.base # new.base
    <3> TAKE r \in reserved
    <3>1. r.base < new.base /\ r.base \in Nat
      BY <1>2 DEF TypeOK, Reservation
    <3>2. QED
      BY <1>1, <3>1
  <2>3. QED
    BY <2>1, <2>2
<1>4. HeapStart <= new.base /\ uvm_vaddr < new.base + new.size
  <2>1. HeapStart <= uvm_vaddr
    BY DEF RegionInv
  <2>2. QED
    BY <1>1, <2>1
<1>5. QED
  BY <1>1, <1>2, <1>3, <1>4 DEF Ends

LEMMA RegionInvInit == Init => RegionInv
<1> SUFFICES ASSUME Init PROVE RegionInv
  OBVIOUS
<1>1. uvm_vaddr = HeapStart /\ HeapStart \in Nat /\ reserved = {} /\ DOMAIN va_to_mem_handle = {}
  BY SizeAssumption DEF Init, Positive
<1>2. QED
  BY <1>1 DEF RegionInv

LEMMA RegionInvStep == TypeOK /\ RegionInv /\ [Next]_vars => RegionInv'
<1> SUFFICES ASSUME TypeOK, RegionInv, [Next]_vars PROVE RegionInv'
  OBVIOUS
<1>1. CASE NewMemory
  <2>1. PICK new \in Reservation :
              /\ Reserves(new)
              /\ DOMAIN va_to_mem_handle' \subseteq DOMAIN va_to_mem_handle \cup {new.base}
    BY <1>1 DEF NewMemory
  <2>2. /\ HeapStart <= new.base /\ uvm_vaddr' = Ends(new) /\ uvm_vaddr < Ends(new)
        /\ \A r \in reserved : Ends(r) <= new.base /\ r.base < new.base /\ r # new
    BY <2>1, NewIsBeyond
  <2>3. reserved' = reserved \cup {new}
    BY <2>1 DEF Reserves
  <2>4. /\ HeapStart \in Nat /\ uvm_vaddr \in Nat /\ Ends(new) \in Nat
        /\ HeapStart <= uvm_vaddr
        /\ \A r \in reserved : Ends(r) \in Nat /\ HeapStart <= r.base /\ Ends(r) <= uvm_vaddr
    <3>1. HeapStart \in Nat /\ uvm_vaddr \in Nat
      BY SizeAssumption DEF TypeOK, Positive
    <3>2. \A r \in Reservation : Ends(r) \in Nat
      BY DEF Ends, Reservation, Positive
    <3>3. reserved \subseteq Reservation
      BY DEF TypeOK
    <3>4. QED
      BY <3>1, <3>2, <3>3 DEF RegionInv
  <2>5. HeapStart <= uvm_vaddr'
    BY <2>2, <2>4
  <2>6. \A r \in reserved' : HeapStart <= r.base /\ Ends(r) <= uvm_vaddr'
    BY <2>2, <2>3, <2>4
  <2>7. \A r, t \in reserved' : r # t => DisjointRanges(r, t)
    BY <2>2, <2>3 DEF DisjointRanges, RegionInv
  <2>8. \A va \in DOMAIN va_to_mem_handle' : \E r \in reserved' : r.base = va
    BY <2>1, <2>3 DEF RegionInv
  <2>9. QED
    BY <2>5, <2>6, <2>7, <2>8 DEF RegionInv, Ends, DisjointRanges
<1>2. CASE GpuFree
  <2>1. UNCHANGED <<uvm_vaddr, reserved>>
        /\ DOMAIN va_to_mem_handle' \subseteq DOMAIN va_to_mem_handle
    BY <1>2 DEF GpuFree
  <2>2. QED
    BY <2>1 DEF RegionInv, DisjointRanges, Ends
<1>3. CASE UNCHANGED memory
  BY <1>3 DEF memory, RegionInv, DisjointRanges, Ends
<1>4. QED
  BY <1>1, <1>2, <1>3, StepEffects

LEMMA AlwaysRegionInv == Spec => [](TypeOK /\ RegionInv)
<1>1. Init => TypeOK
  BY InitTypes DEF TypeInv
<1>2. QED
  BY <1>1, RegionInvInit, RegionInvStep, TypeCorrect, PTL DEF Spec

\* Two known regions that begin at the same address are one.
LEMMA OneRegionPerAddress ==
    ASSUME TypeOK, RegionInv, NEW r \in reserved, NEW t \in reserved, r.base = t.base
    PROVE  r = t
<1>1. /\ r.base \in Nat /\ r.size \in Nat /\ r.size > 0
      /\ t.base \in Nat /\ t.size \in Nat /\ t.size > 0
  BY DEF TypeOK, Reservation, Positive
<1>2. ~(r.base + r.size <= t.base) /\ ~(t.base + t.size <= r.base)
  BY <1>1
<1>3. QED
  BY <1>2 DEF RegionInv, DisjointRanges, Ends

LEMMA RegionsInit == Init => Regions!Init
BY DEF Init, Regions!Init, Given, Kept

LEMMA RegionsStep == TypeOK /\ RegionInv /\ [Next]_vars => [Regions!Next]_(Regions!vars)
<1> SUFFICES ASSUME TypeOK, RegionInv, [Next]_vars PROVE [Regions!Next]_(Regions!vars)
  OBVIOUS
<1>1. CASE NewMemory
  <2>1. PICK new \in Reservation :
              /\ Reserves(new)
              /\ \/ DOMAIN va_to_mem_handle' = DOMAIN va_to_mem_handle
                 \/ DOMAIN va_to_mem_handle' = DOMAIN va_to_mem_handle \cup {new.base}
    BY <1>1 DEF NewMemory
  <2>2. /\ \A r \in reserved : Ends(r) <= new.base /\ r.base < new.base
        /\ new.base \notin DOMAIN va_to_mem_handle
    BY <2>1, NewIsBeyond
  <2>3. reserved' = reserved \cup {new}
    BY <2>1 DEF Reserves
  <2>4. Region(new) \in Regions!Region
    BY DEF Region, Regions!Region, Reservation, Positive
  <2>5. Given' = Given \cup {Region(new)} /\ Region(new) \in Given'
    BY <2>3 DEF Given
  <2>6. \A g \in Given : Regions!Apart(g, Region(new))
    BY <2>2 DEF Given, Region, Regions!Apart, Ends
  <2>7. \A r \in reserved : r.base # new.base
    <3> TAKE r \in reserved
    <3>1. r.base \in Nat /\ new.base \in Nat /\ r.base < new.base
      BY <2>2 DEF TypeOK, Reservation
    <3>2. QED
      BY <3>1
  <2>8. Kept' \in {Kept, Kept \cup {Region(new)}}
    <3>1. CASE DOMAIN va_to_mem_handle' = DOMAIN va_to_mem_handle
      <4>1. {t \in reserved' : t.base \in DOMAIN va_to_mem_handle'} =
                {t \in reserved : t.base \in DOMAIN va_to_mem_handle}
        BY <2>2, <2>3, <3>1
      <4>2. Kept' = Kept
        BY <4>1, Zenon DEF Kept
      <4>3. QED
        BY <4>2
    <3>2. CASE DOMAIN va_to_mem_handle' = DOMAIN va_to_mem_handle \cup {new.base}
      <4>1. {t \in reserved' : t.base \in DOMAIN va_to_mem_handle'} =
                {t \in reserved : t.base \in DOMAIN va_to_mem_handle} \cup {new}
        BY <2>3, <2>7, <3>2
      <4>2. Kept' = Kept \cup {Region(new)}
        BY <4>1 DEF Kept
      <4>3. QED
        BY <4>2
    <3>3. QED
      BY <2>1, <3>1, <3>2
  <2>9. Regions!Give(Region(new))
    BY <2>4, <2>5, <2>6, <2>8 DEF Regions!Give
  <2>10. QED
    BY <2>5, <2>9 DEF Regions!Next
<1>2. CASE GpuFree
  <2>1. PICK va \in DOMAIN va_to_mem_handle :
              DOMAIN va_to_mem_handle' = DOMAIN va_to_mem_handle \ {va}
    BY <1>2 DEF GpuFree
  <2>2. reserved' = reserved
    BY <1>2 DEF GpuFree
  <2>3. PICK r \in reserved : r.base = va
    BY DEF RegionInv
  <2>4. {t \in reserved' : t.base \in DOMAIN va_to_mem_handle'} =
            {t \in reserved : t.base \in DOMAIN va_to_mem_handle} \ {r}
    BY <2>1, <2>2, <2>3, OneRegionPerAddress
  <2>5. \A t \in reserved : Region(t) = Region(r) => t = r
    <3> SUFFICES ASSUME NEW t \in reserved, Region(t) = Region(r) PROVE t = r
      OBVIOUS
    <3>1. t.base = r.base
      BY DEF Region
    <3>2. QED
      BY <3>1, OneRegionPerAddress
  <2>6. Kept' = Kept \ {Region(r)}
    BY <2>4, <2>5 DEF Kept
  <2>7. Region(r) \in Kept
    BY <2>3 DEF Kept
  <2>8. Given' = Given
    BY <2>2 DEF Given
  <2>9. Regions!TakeBack(Region(r))
    BY <2>6, <2>8 DEF Regions!TakeBack
  <2>10. QED
    BY <2>7, <2>9 DEF Regions!Next
<1>3. CASE UNCHANGED memory
  BY <1>3 DEF memory, Given, Kept, Regions!vars
<1>4. QED
  BY <1>1, <1>2, <1>3, StepEffects

\* The allocator implements the store of regions: no address is ever in two
\* regions, for every page size, request size and failure.
THEOREM RegionsNeverOverlap == Spec => ImplementsRegionStore
BY RegionsInit, RegionsStep, AlwaysRegionInv, PTL DEF Spec, ImplementsRegionStore, Regions!Spec

-----------------------------------------------------------------------------
(* The list of mapped ranges: in the order of addresses, every entry is a   *)
(* mapped region (perhaps one whose allocation failed), and every mapped    *)
(* region in use has an entry.                                              *)

Entry(r) == r.via = "gpu" /\ r.map

HostSorted ==
    \A i, j \in DOMAIN hostMappedPtrs : i < j => hostMappedPtrs[i].to <= hostMappedPtrs[j].from
HostEntries ==
    \A i \in DOMAIN hostMappedPtrs : \E r \in reserved :
        Entry(r) /\ hostMappedPtrs[i] = Mapping(r)
HostComplete ==
    \A r \in reserved : Entry(r) /\ r.base \in DOMAIN va_to_mem_handle =>
        \E i \in DOMAIN hostMappedPtrs : hostMappedPtrs[i] = Mapping(r)

HostInv == HostSorted /\ HostEntries /\ HostComplete

LEMMA HostInvInit == Init => HostInv
BY DEF Init, HostInv, HostSorted, HostEntries, HostComplete

\* A new range is appended behind all others.
LEMMA HostInvNew ==
    ASSUME TypeOK, RegionInv, HostInv, NewMemory
    PROVE  HostInv'
<1> DEFINE h == hostMappedPtrs
<1>1. PICK new \in Reservation :
        /\ Reserves(new)
        /\ \/ hostMappedPtrs' = hostMappedPtrs
           \/ /\ new.map /\ new.via = "gpu"
              /\ hostMappedPtrs' = Append(hostMappedPtrs, Mapping(new))
        /\ \/ va_to_mem_handle' = va_to_mem_handle
           \/ /\ new.via = "gpu"
              /\ DOMAIN va_to_mem_handle' = DOMAIN va_to_mem_handle \cup {new.base}
              /\ new.map => hostMappedPtrs' = Append(hostMappedPtrs, Mapping(new))
  BY DEF NewMemory
<1>2. /\ \A r \in reserved : Ends(r) <= new.base /\ r.base < new.base /\ r # new
      /\ new.base \notin DOMAIN va_to_mem_handle
  BY <1>1, NewIsBeyond
<1>3. reserved' = reserved \cup {new}
  BY <1>1 DEF Reserves
<1>4. h \in Seq([from : Nat, to : Nat]) /\ HostSorted /\ HostEntries /\ HostComplete
  BY DEF TypeOK, HostInv
<1>5. \A r \in reserved : r.base # new.base
  <2> TAKE r \in reserved
  <2>1. r.base \in Nat /\ new.base \in Nat /\ r.base < new.base
    BY <1>2 DEF TypeOK, Reservation
  <2>2. QED
    BY <2>1
<1>6. \A r \in reserved :
          r.base \in DOMAIN va_to_mem_handle' => r.base \in DOMAIN va_to_mem_handle
  BY <1>1, <1>5
<1>7. CASE h' = h
  <2>1. HostSorted'
    BY <1>4, <1>7 DEF HostSorted
  <2>2. HostEntries'
    BY <1>3, <1>4, <1>7 DEF HostEntries
  <2>3. CASE h = Append(h, Mapping(new))
    <3>1. Len(Append(h, Mapping(new))) = Len(h) + 1 /\ Len(h) \in Nat
      BY <1>4, LenProperties, AppendProperties
    <3>2. QED
      BY <2>3, <3>1
  <2>4. CASE h # Append(h, Mapping(new))
    <3>1. Entry(new) => new.base \notin DOMAIN va_to_mem_handle'
      BY <1>1, <1>2, <1>7, <2>4 DEF Entry
    <3>2. HostComplete'
      BY <1>3, <1>4, <1>6, <1>7, <3>1 DEF HostComplete
    <3>3. QED
      BY <2>1, <2>2, <3>2 DEF HostInv
  <2>5. QED
    BY <2>3, <2>4
<1>8. CASE Entry(new) /\ h' = Append(h, Mapping(new))
  <2>1. /\ Mapping(new) \in [from : Nat, to : Nat]
        /\ Mapping(new).from = new.base /\ Mapping(new).to = Ends(new)
    BY DEF Mapping, Ends, Reservation, Positive
  <2>2. /\ DOMAIN h = 1..Len(h) /\ Len(h) \in Nat
        /\ DOMAIN h' = 1..(Len(h) + 1) /\ h'[Len(h) + 1] = Mapping(new)
        /\ \A i \in 1..Len(h) : h'[i] = h[i]
    <3> DEFINE a == Append(h, Mapping(new))
    <3>1. /\ a \in Seq([from : Nat, to : Nat]) /\ Len(a) = Len(h) + 1
          /\ \A i \in 1..Len(h) : a[i] = h[i]
          /\ a[Len(h) + 1] = Mapping(new)
      BY <1>4, <2>1, AppendProperties
    <3>2. DOMAIN h = 1..Len(h) /\ Len(h) \in Nat
      BY <1>4, LenProperties
    <3>3. DOMAIN a = 1..Len(a)
      BY <3>1, LenProperties
    <3> HIDE DEF a
    <3>4. QED
      BY <1>8, <3>1, <3>2, <3>3 DEF a
  <2>3. \A i \in DOMAIN h : h[i].to <= new.base
    BY <1>2, <1>4 DEF HostEntries, Mapping, Ends
  <2>4. HostSorted'
    <3> SUFFICES ASSUME NEW i \in DOMAIN h', NEW j \in DOMAIN h', i < j
                 PROVE  h'[i].to <= h'[j].from
      BY DEF HostSorted
    <3>1. i \in 1..Len(h)
      BY <2>2
    <3>2. CASE j \in 1..Len(h)
      BY <1>4, <2>2, <3>1, <3>2 DEF HostSorted
    <3>3. CASE j = Len(h) + 1
      BY <2>1, <2>2, <2>3, <3>1, <3>3
    <3>4. QED
      BY <2>2, <3>2, <3>3
  <2>5. HostEntries'
    <3> SUFFICES ASSUME NEW i \in DOMAIN h'
                 PROVE  \E r \in reserved' : Entry(r) /\ h'[i] = Mapping(r)
      BY DEF HostEntries, Entry, Mapping
    <3>1. CASE i \in 1..Len(h)
      BY <1>3, <1>4, <2>2, <3>1 DEF HostEntries
    <3>2. CASE i = Len(h) + 1
      BY <1>3, <1>8, <2>2, <3>2
    <3>3. QED
      BY <2>2, <3>1, <3>2
  <2>6. HostComplete'
    <3> SUFFICES ASSUME NEW r \in reserved', Entry(r), r.base \in DOMAIN va_to_mem_handle'
                 PROVE  \E i \in DOMAIN h' : h'[i] = Mapping(r)
      BY DEF HostComplete, Entry, Mapping
    <3>1. CASE r \in reserved
      <4>1. PICK i \in DOMAIN h : h[i] = Mapping(r)
        BY <1>4, <1>6, <3>1 DEF HostComplete
      <4>2. i \in DOMAIN h' /\ h'[i] = Mapping(r)
        BY <2>2, <4>1
      <4>3. QED
        BY <4>2
    <3>2. CASE r = new
      <4>1. Len(h) + 1 \in DOMAIN h'
        BY <2>2
      <4>2. QED
        BY <2>2, <3>2, <4>1
    <3>3. QED
      BY <1>3, <3>1, <3>2
  <2>7. QED
    BY <2>4, <2>5, <2>6 DEF HostInv
<1>9. QED
  BY <1>1, <1>7, <1>8 DEF Entry

\* Erasing the entry that holds a freed address keeps those of all other
\* regions in use: their ranges do not contain it.
LEMMA HostInvFree ==
    ASSUME TypeOK, RegionInv, HostInv, GpuFree
    PROVE  HostInv'
<1> DEFINE h == hostMappedPtrs
           va == Head(frees)
<1>1. /\ h \in Seq([from : Nat, to : Nat]) /\ HostSorted /\ HostEntries /\ HostComplete
      /\ reserved \subseteq Reservation
  BY DEF TypeOK, HostInv
<1>2. /\ reserved' = reserved /\ va \in DOMAIN va_to_mem_handle
      /\ DOMAIN va_to_mem_handle' = DOMAIN va_to_mem_handle \ {va}
  BY DEF GpuFree
<1>3. CASE h' = h
  BY <1>1, <1>2, <1>3 DEF HostInv, HostSorted, HostEntries, HostComplete
<1>4. ASSUME NEW i \in DOMAIN h, i \in Unmapped(va), h' = Erase(h, i)
      PROVE  HostInv'
  <2>1. /\ \A k \in DOMAIN h' :
              /\ k < i => k \in DOMAIN h /\ h'[k] = h[k]
              /\ k >= i => k + 1 \in DOMAIN h /\ h'[k] = h[k + 1]
        /\ \A k \in DOMAIN h :
              /\ k < i => k \in DOMAIN h'
              /\ k > i => k - 1 \in DOMAIN h'
        /\ h' \in Seq([from : Nat, to : Nat])
    <3> DEFINE e == Erase(h, i)
    <3>1. /\ \A k \in DOMAIN e :
                /\ k < i => k \in DOMAIN h /\ e[k] = h[k]
                /\ k >= i => k + 1 \in DOMAIN h /\ e[k] = h[k + 1]
          /\ \A k \in DOMAIN h :
                /\ k < i => k \in DOMAIN e
                /\ k > i => k - 1 \in DOMAIN e
          /\ e \in Seq([from : Nat, to : Nat])
      BY <1>1, EraseProperties
    <3> HIDE DEF e
    <3>2. h' = e
      BY <1>4 DEF e
    <3>3. QED
      BY <3>1, <3>2
  <2>2. DOMAIN h \subseteq Nat /\ DOMAIN h' \subseteq Nat /\ i \in Nat
    <3>1. \A s \in Seq([from : Nat, to : Nat]) : DOMAIN s \subseteq Nat
      <4> TAKE s \in Seq([from : Nat, to : Nat])
      <4>1. DOMAIN s = 1..Len(s) /\ Len(s) \in Nat
        BY LenProperties
      <4>2. QED
        BY <4>1
    <3>2. QED
      BY <1>1, <1>4, <2>1, <3>1
  <2>3. Contains(h[i], va)
    BY <1>4 DEF Unmapped
  <2>4. HostSorted'
    <3> SUFFICES ASSUME NEW j \in DOMAIN h', NEW k \in DOMAIN h', j < k
                 PROVE  h'[j].to <= h'[k].from
      BY DEF HostSorted
    <3>1. CASE k < i
      <4>1. j < i
        BY <2>2, <3>1
      <4>2. QED
        BY <1>1, <2>1, <3>1, <4>1 DEF HostSorted
    <3>2. CASE k >= i /\ j < i
      <4>1. j < k + 1
        BY <2>2
      <4>2. QED
        BY <1>1, <2>1, <3>2, <4>1 DEF HostSorted
    <3>3. CASE k >= i /\ j >= i
      <4>1. j + 1 < k + 1
        BY <2>2
      <4>2. QED
        BY <1>1, <2>1, <3>3, <4>1 DEF HostSorted
    <3>4. QED
      BY <2>2, <3>1, <3>2, <3>3
  <2>5. HostEntries'
    <3> SUFFICES ASSUME NEW k \in DOMAIN h'
                 PROVE  \E r \in reserved : Entry(r) /\ h'[k] = Mapping(r)
      BY <1>2 DEF HostEntries, Entry, Mapping
    <3>1. k < i \/ k >= i
      BY <2>2
    <3>2. QED
      BY <1>1, <2>1, <3>1 DEF HostEntries
  <2>6. HostComplete'
    <3> SUFFICES ASSUME NEW r \in reserved, Entry(r), r.base \in DOMAIN va_to_mem_handle \ {va}
                 PROVE  \E k \in DOMAIN h' : h'[k] = Mapping(r)
      BY <1>2 DEF HostComplete, Entry, Mapping
    <3>1. PICK j \in DOMAIN h : h[j] = Mapping(r)
      BY <1>1 DEF HostComplete
    <3>2. j # i
      <4> SUFFICES ASSUME h[i] = Mapping(r) PROVE FALSE
        BY <3>1
      <4>1. PICK t \in reserved : t.base = va
        BY <1>2 DEF RegionInv
      <4>2. r.base <= va /\ va < r.base + r.size
        BY <2>3 DEF Contains, Mapping
      <4>3. /\ r.base \in Nat /\ r.size \in Nat
            /\ t.base \in Nat /\ t.size \in Nat /\ t.size > 0
        BY <1>1 DEF Reservation, Positive
      <4>4. r # t
        BY <4>1
      <4>5. r.base + r.size <= t.base \/ t.base + t.size <= r.base
        BY <4>4 DEF RegionInv, DisjointRanges, Ends
      <4>6. QED
        BY <4>1, <4>2, <4>3, <4>5
    <3>3. CASE j < i
      <4>1. j \in DOMAIN h' /\ h'[j] = h[j]
        BY <2>1, <3>3
      <4>2. QED
        BY <3>1, <4>1
    <3>4. CASE j > i
      <4>1. j - 1 \in DOMAIN h' /\ j - 1 >= i /\ (j - 1) + 1 = j
        BY <2>1, <2>2, <3>4
      <4>2. h'[j - 1] = h[j]
        BY <2>1, <4>1
      <4>3. QED
        BY <3>1, <4>1, <4>2
    <3>5. QED
      BY <2>2, <3>2, <3>3, <3>4
  <2>7. QED
    BY <2>4, <2>5, <2>6 DEF HostInv
<1>5. QED
  BY <1>3, <1>4, UnmapIs

LEMMA HostInvStep == TypeOK /\ RegionInv /\ HostInv /\ [Next]_vars => HostInv'
<1> SUFFICES ASSUME TypeOK, RegionInv, HostInv, [Next]_vars PROVE HostInv'
  OBVIOUS
<1>1. CASE UNCHANGED memory
  BY <1>1 DEF memory, HostInv, HostSorted, HostEntries, HostComplete
<1>2. QED
  BY <1>1, HostInvNew, HostInvFree, StepEffects

LEMMA HostInvSuffices == TypeOK /\ RegionInv /\ HostInv => HostMappedExact
<1> SUFFICES ASSUME TypeOK, RegionInv, HostInv,
                    NEW r \in reserved, r.via = "gpu", r.base \in DOMAIN va_to_mem_handle,
                    NEW va \in r.base..(r.base + r.size - 1)
             PROVE  isHostMappedPtr(va) <=> r.map
  BY DEF HostMappedExact
<1>1. /\ r.base \in Nat /\ r.size \in Nat /\ r.map \in BOOLEAN
      /\ uvm_vaddr \in Nat /\ HeapStart \in Nat
  BY SizeAssumption DEF TypeOK, Reservation, Positive
<1>2. va \in Nat /\ r.base <= va /\ va < r.base + r.size
  BY <1>1
<1>3. ASSUME r.map PROVE isHostMappedPtr(va)
  <2>1. PICK i \in DOMAIN hostMappedPtrs : hostMappedPtrs[i] = Mapping(r)
    BY <1>3 DEF HostInv, HostComplete, Entry
  <2>2. Contains(hostMappedPtrs[i], va) /\ hostMappedPtrs[i].to = r.base + r.size
    BY <1>2, <2>1 DEF Contains, Mapping
  <2>3. \A j \in DOMAIN hostMappedPtrs : j > i => va <= hostMappedPtrs[j].from
    <3> SUFFICES ASSUME NEW j \in DOMAIN hostMappedPtrs, j > i
                 PROVE  va <= hostMappedPtrs[j].from
      OBVIOUS
    <3>1. hostMappedPtrs \in Seq([from : Nat, to : Nat])
      BY DEF TypeOK
    <3>2. DOMAIN hostMappedPtrs = 1..Len(hostMappedPtrs) /\ Len(hostMappedPtrs) \in Nat
      BY <3>1, LenProperties
    <3>3. hostMappedPtrs[j] \in [from : Nat, to : Nat]
      BY <3>1, ElementOfSeq, <3>2
    <3>4. hostMappedPtrs[j].from \in Nat
      BY <3>3
    <3>5. i < j
      BY <3>2
    <3>6. r.base + r.size <= hostMappedPtrs[j].from
      BY <2>2, <3>5 DEF HostInv, HostSorted
    <3>7. QED
      BY <1>1, <1>2, <3>4, <3>6
  <2>4. isDevicePtr(va)
    <3>1. HeapStart <= r.base /\ r.base + r.size <= uvm_vaddr
      BY DEF RegionInv, Ends
    <3>2. QED
      BY <1>1, <1>2, <3>1 DEF isDevicePtr
  <2>5. QED
    BY <2>2, <2>3, <2>4 DEF isHostMappedPtr
<1>4. ASSUME isHostMappedPtr(va) PROVE r.map
  <2>1. PICK i \in DOMAIN hostMappedPtrs : Contains(hostMappedPtrs[i], va)
    BY <1>4 DEF isHostMappedPtr
  <2>2. PICK t \in reserved : Entry(t) /\ hostMappedPtrs[i] = Mapping(t)
    BY DEF HostInv, HostEntries
  <2>3. t.base <= va /\ va < t.base + t.size
    BY <2>1, <2>2 DEF Contains, Mapping
  <2>4. t.base \in Nat /\ t.size \in Nat
    BY DEF TypeOK, Reservation, Positive
  <2>5. ~(r.base + r.size <= t.base) /\ ~(t.base + t.size <= r.base)
    BY <1>1, <1>2, <2>3, <2>4
  <2>6. t = r
    BY <2>5 DEF RegionInv, DisjointRanges, Ends
  <2>7. QED
    BY <2>2, <2>6 DEF Entry
<1>5. QED
  BY <1>1, <1>3, <1>4

\* isHostMappedPtr is right about every address of memory in use, in every
\* order of allocations, frees and failures; it decides whether a copy may
\* touch the address from the processor.
THEOREM PointersClassified == Spec => []HostMappedExact
<1>1. Init => HostInv
  BY HostInvInit
<1>2. Spec => []HostInv
  BY <1>1, HostInvStep, AlwaysRegionInv, PTL DEF Spec
<1>3. QED
  BY <1>2, HostInvSuffices, AlwaysRegionInv, PTL

-----------------------------------------------------------------------------
(* What a step does to the memory and to its owners, in seven ways: an      *)
(* address is given out and stored, or given out and wasted; an address is  *)
(* freed; the call gives up, or a destructor goes on to its next address; a *)
(* call returns, or begins.                                                 *)

Of(o) == call # Idle /\ call.of = o
Known == DOMAIN va_to_mem_handle

Makes(new) ==
    /\ Reserves(new) /\ Working
    /\ new.of = call.of /\ new.via = Head(todo).via
    /\ \/ new.handle = made + 1 /\ MakeObject
       \/ new.handle = 0 /\ new.via # "gpu" /\ UNCHANGED <<made, allocated>>

Stored(new) ==
    /\ Makes(new) /\ Store(new.base) /\ UNCHANGED failures
    /\ new.handle # 0 => new.via \in {"gpu", "system"}
    /\ va_to_mem_handle' =
          IF new.via = "gpu"
          THEN [va \in Known \cup {new.base} |->
                  IF va = new.base THEN new.handle ELSE va_to_mem_handle[va]]
          ELSE va_to_mem_handle

Wasted(new) ==
    /\ Makes(new) /\ Fault /\ Abort
    /\ UNCHANGED <<va_to_mem_handle, fields, local>>

GaveUp ==
    /\ Abort /\ UNCHANGED <<memory, fields, local>>
    /\ \/ call.op \in {"create", "grow"} /\ Fault
       \/ /\ Freeing /\ Kind[call.of] # "stream"
          /\ Fault \/ (Head(frees) \notin Known /\ UNCHANGED failures)

Skipped ==
    /\ Freeing /\ Kind[call.of] = "stream" /\ NextFree
    /\ UNCHANGED <<memory, owners>>
    /\ Fault \/ (Head(frees) \notin Known /\ UNCHANGED failures)

Called(o) ==
    \/ CtxCreate(o) \/ CtxDestroy(o) \/ StreamCreate(o) \/ StreamDestroy(o)
    \/ ModuleLoadData(o) \/ EnsureEnoughLocalMem(o) \/ ModuleUnload(o) \/ MemFree(o)
    \/ \E size \in BufferSizes, map \in BOOLEAN : MemAlloc(o, size, map)

LEMMA GpuAllocEffect ==
    ASSUME TypeOK, NEW done \in 1..4, GpuAlloc(done)
    PROVE  \E new \in Reservation : Stored(new) \/ Wasted(new)
<1> DEFINE req   == Head(todo)
           align == IF req.huge THEN HugePage ELSE SmallPage
           size  == RoundUp(req.size, align)
           steps == IF req.map THEN 4 ELSE 3
<1>1. Working /\ req.via = "gpu"
  BY DEF GpuAlloc
<1>2. req \in Request
  BY <1>1, HeadRequest
<1>3. align \in Positive /\ req.size \in Positive
  BY <1>2, PageAssumption DEF Request
<1>4. size \in Positive /\ made + 1 \in Nat
  BY <1>3, RoundUpBounds DEF TypeOK
<1>5. /\ Reserve(req, size, align, made + 1) /\ MakeObject
      /\ IF done = steps
            THEN /\ va_to_mem_handle' =
                       [va \in DOMAIN va_to_mem_handle \cup {Bump(align)} |->
                          IF va = Bump(align) THEN made + 1 ELSE va_to_mem_handle[va]]
                 /\ Store(Bump(align)) /\ UNCHANGED failures
            ELSE Fault /\ Abort /\ UNCHANGED <<va_to_mem_handle, fields, local>>
  BY DEF GpuAlloc
<1> HIDE DEF req, align, size, steps
<1>6. PICK new \in Reservation :
              /\ Reserves(new)
              /\ new.base = Bump(align) /\ new.size = size /\ new.via = req.via
              /\ new.map = req.map /\ new.handle = made + 1 /\ new.of = call.of
  BY <1>1, <1>2, <1>3, <1>4, <1>5, ReserveIs
<1>7. Makes(new) /\ new.via = "gpu"
  BY <1>1, <1>5, <1>6 DEF Makes, req
<1>8. CASE done = steps
  <2>1. /\ va_to_mem_handle' =
              [va \in Known \cup {new.base} |->
                  IF va = new.base THEN new.handle ELSE va_to_mem_handle[va]]
        /\ Store(new.base) /\ UNCHANGED failures
    BY <1>5, <1>6, <1>8 DEF Known
  <2>2. Stored(new)
    BY <1>7, <2>1 DEF Stored
  <2>3. QED
    BY <2>2
<1>9. CASE done # steps
  BY <1>5, <1>7, <1>9 DEF Wasted
<1>10. QED
  BY <1>8, <1>9

LEMMA SystemOrWindowEffect ==
    ASSUME TypeOK, NEW done \in 1..4, GpuSystemAlloc(done) \/ OpenWindow(done)
    PROVE  \E new \in Reservation : Stored(new) \/ Wasted(new)
<1> DEFINE req == Head(todo)
<1>1. Working /\ req.via \in {"system", "window"}
  BY DEF GpuSystemAlloc, OpenWindow
<1>2. req \in Request
  BY <1>1, HeadRequest
<1>3. SmallPage \in Positive /\ req.size \in Positive /\ made + 1 \in Nat /\ made + 1 # 0
  BY <1>2, PageAssumption DEF Request, TypeOK
<1>4. PICK handle \in Nat :
          /\ Reserve(req, req.size, SmallPage, handle)
          /\ \/ handle = made + 1 /\ MakeObject /\ req.via = "system"
             \/ handle = 0 /\ UNCHANGED <<made, allocated>>
  BY <1>3 DEF GpuSystemAlloc, OpenWindow
<1>5. PICK new \in Reservation :
              /\ Reserves(new)
              /\ new.base = Bump(SmallPage) /\ new.size = req.size /\ new.via = req.via
              /\ new.map = req.map /\ new.handle = handle /\ new.of = call.of
  BY <1>1, <1>2, <1>3, <1>4, ReserveIs
<1>6. /\ UNCHANGED va_to_mem_handle
      /\ \/ Store(Bump(SmallPage)) /\ UNCHANGED failures
         \/ Fault /\ Abort /\ UNCHANGED <<fields, local>>
  BY DEF GpuSystemAlloc, OpenWindow
<1>7. Makes(new) /\ new.via # "gpu" /\ (new.handle # 0 => new.via = "system")
  BY <1>1, <1>4, <1>5 DEF Makes
<1>8. QED
  BY <1>5, <1>6, <1>7 DEF Stored, Wasted

LEMMA OwnerSteps ==
    ASSUME TypeOK, [Next]_vars
    PROVE  \/ \E new \in Reservation : Stored(new) \/ Wasted(new)
           \/ GpuFree
           \/ GaveUp
           \/ Skipped
           \/ call # Idle /\ Return
           \/ \E o \in Objects : Called(o)
           \/ UNCHANGED vars
<1>1. CallFails => GaveUp
  BY DEF CallFails, GaveUp, Working
<1>2. FreeUnknown \/ FreeFails => GaveUp \/ Skipped
  BY DEF FreeUnknown, FreeFails, FreeError, GaveUp, Skipped, owners, Known
<1>3. ASSUME NEW done \in 1..4, GpuAlloc(done) \/ GpuSystemAlloc(done) \/ OpenWindow(done)
      PROVE  \E new \in Reservation : Stored(new) \/ Wasted(new)
  BY <1>3, GpuAllocEffect, SystemOrWindowEffect
<1>4. call # Idle /\ CallStep =>
          \/ \E new \in Reservation : Stored(new) \/ Wasted(new)
          \/ GpuFree \/ GaveUp \/ Skipped \/ (call # Idle /\ Return)
  BY <1>1, <1>2, <1>3 DEF CallStep
<1>5. Next => (call # Idle /\ CallStep) \/ \E o \in Objects : Called(o)
  BY Zenon DEF Next, Called
<1>6. QED
  BY <1>4, <1>5

-----------------------------------------------------------------------------
(* Handles.  A region's memory has a handle of its own, and the map gives   *)
(* for the start of a region the handle of that region's memory.            *)

HandlesInv ==
    /\ \A r \in reserved : r.handle <= made
    /\ \A r, t \in reserved : r.handle = t.handle /\ r.handle # 0 => r = t
    /\ \A va \in Known :
          /\ va_to_mem_handle[va] \in allocated
          /\ \E r \in reserved : r.base = va /\ r.handle = va_to_mem_handle[va]

LEMMA HandlesInit == Init => HandlesInv
BY DEF Init, HandlesInv, Known

LEMMA HandlesStored ==
    ASSUME TypeOK, RegionInv, HandlesInv, NEW new \in Reservation, Stored(new) \/ Wasted(new)
    PROVE  HandlesInv'
<1>1. /\ reserved' = reserved \cup {new} /\ made \in Nat
      /\ reserved \subseteq Reservation /\ new.handle \in Nat
      /\ new.base \notin Known
  BY NewIsBeyond DEF Stored, Wasted, Makes, Reserves, TypeOK, Reservation, Known
<1>2. \/ new.handle = made + 1 /\ made' = made + 1 /\ allocated' = allocated \cup {made + 1}
      \/ new.handle = 0 /\ new.via # "gpu" /\ made' = made /\ allocated' = allocated
  BY DEF Stored, Wasted, Makes, MakeObject
<1>3. \/ va_to_mem_handle' = va_to_mem_handle
      \/ /\ new.via = "gpu"
         /\ va_to_mem_handle' =
               [va \in Known \cup {new.base} |->
                  IF va = new.base THEN new.handle ELSE va_to_mem_handle[va]]
  BY DEF Stored, Wasted
<1>4. \A r \in reserved : r.handle \in Nat /\ r.handle <= made
  BY <1>1 DEF Reservation, HandlesInv
<1>5. \A r \in reserved' : r.handle <= made'
  BY <1>1, <1>2, <1>4
<1>6. \A r, t \in reserved' : r.handle = t.handle /\ r.handle # 0 => r = t
  BY <1>1, <1>2, <1>4 DEF HandlesInv
<1>7. ASSUME NEW va \in Known'
      PROVE  /\ va_to_mem_handle'[va] \in allocated'
             /\ \E r \in reserved' : r.base = va /\ r.handle = va_to_mem_handle'[va]
  <2>1. CASE va \in Known /\ va_to_mem_handle'[va] = va_to_mem_handle[va]
    BY <1>1, <1>2, <2>1 DEF HandlesInv
  <2>2. CASE va = new.base /\ new.via = "gpu" /\ va_to_mem_handle'[va] = new.handle
    BY <1>1, <1>2, <2>2
  <2>3. QED
    BY <1>1, <1>3, <1>7, <2>1, <2>2 DEF Known
<1>8. QED
  BY <1>5, <1>6, <1>7 DEF HandlesInv

LEMMA HandlesStep == TypeOK /\ RegionInv /\ HandlesInv /\ [Next]_vars => HandlesInv'
<1> SUFFICES ASSUME TypeOK, RegionInv, HandlesInv, [Next]_vars PROVE HandlesInv'
  OBVIOUS
<1>1. CASE GpuFree
  <2> DEFINE va == Head(frees)
  <2>1. /\ va \in Known /\ allocated' = allocated \ {va_to_mem_handle[va]}
        /\ va_to_mem_handle' = [a \in Known \ {va} |-> va_to_mem_handle[a]]
        /\ UNCHANGED <<made, reserved>>
    BY <1>1 DEF GpuFree, Known
  <2>2. ASSUME NEW a \in Known \ {va}
        PROVE  va_to_mem_handle[a] # va_to_mem_handle[va]
    <3>1. PICK r \in reserved : r.base = a /\ r.handle = va_to_mem_handle[a]
      BY DEF HandlesInv
    <3>2. PICK t \in reserved : t.base = va /\ t.handle = va_to_mem_handle[va]
      BY <2>1 DEF HandlesInv
    <3>3. r # t /\ r.handle # 0
      BY <3>1, <3>2 DEF TypeOK, Known
    <3>4. QED
      BY <3>1, <3>2, <3>3 DEF HandlesInv
  <2>3. Known' = Known \ {va} /\ \A a \in Known \ {va} : va_to_mem_handle'[a] = va_to_mem_handle[a]
    BY <2>1 DEF Known
  <2>4. QED
    BY <2>1, <2>2, <2>3 DEF HandlesInv
<1>2. CASE UNCHANGED memory
  BY <1>2 DEF HandlesInv, Known, memory
<1>3. ASSUME NEW o \in Objects, Called(o) PROVE UNCHANGED memory
  BY <1>3 DEF Called, CtxCreate, CtxDestroy, StreamCreate, StreamDestroy, ModuleLoadData,
              EnsureEnoughLocalMem, ModuleUnload, MemFree, MemAlloc, Begin
<1>4. GaveUp \/ Skipped \/ Return \/ UNCHANGED vars => UNCHANGED memory
  BY DEF GaveUp, Skipped, Return, vars
<1>5. QED
  BY <1>1, <1>2, <1>3, <1>4, OwnerSteps, HandlesStored

-----------------------------------------------------------------------------
(* Who holds which region.  An object's fields hold the starts of regions   *)
(* reserved for it, each once; what a call still has to allocate goes to    *)
(* the fields its kind has for it, and what it still has to free is held.   *)

SystemField(o, i) == i \in SystemFields[Kind[o]]

\* The fields of an object lead to its own regions.
FieldsHold(o) ==
    \A i \in DOMAIN fields[o] : \E r \in reserved :
        r.base = fields[o][i] /\ r.of = o /\ (r.via = "gpu" <=> ~SystemField(o, i))
LocalHold(o) ==
    local[o] # 0 =>
        /\ Kind[o] = "module"
        /\ \A i \in DOMAIN fields[o] : fields[o][i] # local[o]
        /\ \E r \in reserved : r.base = local[o] /\ r.of = o /\ r.via = "gpu"
FieldsOnce(o) == \A i, j \in DOMAIN fields[o] : fields[o][i] = fields[o][j] => i = j
FieldsFit(o) ==
    /\ Kind[o] = "buffer" => Len(fields[o]) <= 1
    /\ status[o] = "none" => local[o] = 0 /\ (~Of(o) => fields[o] = <<>>)

Holds(o) == FieldsHold(o) /\ LocalHold(o) /\ FieldsOnce(o) /\ FieldsFit(o)

Waiting == {frees[i] : i \in DOMAIN frees}
Taken(o) == {fields[o][i] : i \in DOMAIN fields[o]} \cup ({local[o]} \ {0})

Creating ==
    /\ status[call.of] = "none" /\ frees = <<>>
    /\ \A i \in DOMAIN todo :
          todo[i].via = "gpu" <=> ~SystemField(call.of, Len(fields[call.of]) + i)
    /\ Kind[call.of] = "buffer" => Len(fields[call.of]) + Len(todo) <= 1
Growing ==
    /\ Kind[call.of] = "module" /\ Live(call.of)
    /\ Len(todo) <= 1 /\ \A i \in DOMAIN todo : todo[i].via = "gpu"
    /\ frees # <<>> => todo # <<>> /\ frees = <<local[call.of]>> /\ local[call.of] # 0
Destroying ==
    /\ Kind[call.of] \in {"stream", "module", "buffer"} /\ Live(call.of)
    /\ todo = <<>> /\ Waiting \subseteq Taken(call.of)
    /\ \A i, j \in DOMAIN frees : frees[i] = frees[j] => i = j
    /\ Kind[call.of] = "buffer" => Len(frees) <= 1

CallInv ==
    call # Idle =>
        /\ call.op = "create" => Creating
        /\ call.op = "grow" => Growing
        /\ call.op = "destroy" => Destroying

\* There is one context, and its kernels are loaded after it is made.
Began == \E c \in Objects : Kind[c] = "context" /\ status[c] # "none"
OnceInv ==
    /\ \A k \in Objects : Kind[k] = "kernels" /\ (status[k] # "none" \/ Of(k)) => Began
    /\ call # Idle /\ Kind[call.of] = "context" => call.op = "create" /\ ~Began
    /\ call # Idle /\ Kind[call.of] = "kernels" => call.op = "create"

HoldersInv == (\A o \in Objects : Holds(o)) /\ CallInv /\ OnceInv

LEMMA HoldersInit == Init => HoldersInv
<1> SUFFICES ASSUME Init PROVE HoldersInv
  OBVIOUS
<1>1. call = Idle /\ status = [o \in Objects |-> "none"] /\ local = [o \in Objects |-> 0]
      /\ fields = [o \in Objects |-> <<>>]
  BY DEF Init
<1>2. ASSUME NEW o \in Objects PROVE Holds(o)
  <2>1. fields[o] = <<>> /\ local[o] = 0 /\ DOMAIN fields[o] = {} /\ Len(fields[o]) = 0
    BY <1>1
  <2>2. QED
    BY <2>1 DEF Holds, FieldsHold, LocalHold, FieldsOnce, FieldsFit
<1>3. CallInv /\ OnceInv
  BY <1>1 DEF CallInv, OnceInv, Of
<1>4. QED
  BY <1>2, <1>3 DEF HoldersInv

\* What a call asks for suits the fields of its kind.
LEMMA NeedsSuit ==
    /\ \A i \in DOMAIN ContextNeeds : ContextNeeds[i].via = "gpu" <=> i \notin 2..5
    /\ \A i \in DOMAIN StreamNeeds : StreamNeeds[i].via = "gpu" <=> i \notin {3}
    /\ \A i \in DOMAIN ModuleNeeds : ModuleNeeds[i].via = "gpu"
    /\ Len(LocalNeeds) = 1 /\ \A i \in DOMAIN LocalNeeds : LocalNeeds[i].via = "gpu"
    /\ \A size, map : /\ Len(BufferNeeds(size, map)) = 1
                      /\ \A i \in DOMAIN BufferNeeds(size, map) :
                            BufferNeeds(size, map)[i].via = "gpu"
<1> DEFINE area == Gpu(Size.area, TRUE, TRUE)
           notifier == System(Size.notifier)
           page == Gpu(Size.page, FALSE, TRUE)
           pool == System(Size.pool)
           kernArgs == Gpu(Size.kernArgs, TRUE, TRUE)
           image == Gpu(Size.image, FALSE, TRUE)
           scratch == Gpu(Size.local, TRUE, FALSE)
<1>1. /\ area.via = "gpu" /\ page.via = "gpu" /\ kernArgs.via = "gpu"
      /\ image.via = "gpu" /\ scratch.via = "gpu"
  BY DEF Gpu
<1>2. notifier.via = "system" /\ pool.via = "system" /\ Window.via = "window"
  BY DEF System, Window
<1>3. /\ ContextNeeds = <<area, notifier, Window, notifier, Window>>
      /\ StreamNeeds = <<page, page, pool, kernArgs>>
      /\ ModuleNeeds = <<image>> /\ LocalNeeds = <<scratch>>
  BY DEF ContextNeeds, StreamNeeds, ModuleNeeds, LocalNeeds
<1> HIDE DEF area, notifier, page, pool, kernArgs, image, scratch
<1>4. ASSUME NEW i \in DOMAIN ContextNeeds
      PROVE  ContextNeeds[i].via = "gpu" <=> i \notin 2..5
  <2>1. \/ i = 1 /\ ContextNeeds[i].via = "gpu"
        \/ i = 2 /\ ContextNeeds[i].via = "system"
        \/ i = 3 /\ ContextNeeds[i].via = "window"
        \/ i = 4 /\ ContextNeeds[i].via = "system"
        \/ i = 5 /\ ContextNeeds[i].via = "window"
    BY <1>1, <1>2, <1>3
  <2>2. QED
    BY <2>1
<1>5. ASSUME NEW i \in DOMAIN StreamNeeds
      PROVE  StreamNeeds[i].via = "gpu" <=> i \notin {3}
  <2>1. \/ i = 1 /\ StreamNeeds[i].via = "gpu"
        \/ i = 2 /\ StreamNeeds[i].via = "gpu"
        \/ i = 3 /\ StreamNeeds[i].via = "system"
        \/ i = 4 /\ StreamNeeds[i].via = "gpu"
    BY <1>1, <1>2, <1>3
  <2>2. QED
    BY <2>1
<1>6. \A i \in DOMAIN ModuleNeeds : ModuleNeeds[i].via = "gpu"
  BY <1>1, <1>3
<1>7. Len(LocalNeeds) = 1 /\ \A i \in DOMAIN LocalNeeds : LocalNeeds[i].via = "gpu"
  BY <1>1, <1>3
<1>8. ASSUME NEW size, NEW map
      PROVE  /\ Len(BufferNeeds(size, map)) = 1
             /\ \A i \in DOMAIN BufferNeeds(size, map) : BufferNeeds(size, map)[i].via = "gpu"
  <2> DEFINE g == Gpu(size, size > HugeFrom, map)
  <2>1. g.via = "gpu"
    BY DEF Gpu
  <2>2. BufferNeeds(size, map) = <<g>>
    BY DEF BufferNeeds
  <2> HIDE DEF g
  <2>3. QED
    BY <2>1, <2>2
<1>9. QED
  BY <1>4, <1>5, <1>6, <1>7, <1>8

LEMMA SystemFieldsAre ==
    ASSUME NEW o \in Objects
    PROVE  /\ Kind[o] \in Kinds
           /\ Kind[o] = "context" => \A i : SystemField(o, i) <=> i \in 2..5
           /\ Kind[o] = "stream" => \A i : SystemField(o, i) <=> i \in {3}
           /\ Kind[o] \in {"kernels", "module", "buffer"} => \A i : ~SystemField(o, i)
BY KindAssumption DEF SystemField, SystemFields, Kinds

\* The first request and those behind it.
LEMMA TodoIs ==
    ASSUME TypeOK, Working
    PROVE  /\ Len(todo) \in Nat /\ Len(todo) >= 1 /\ DOMAIN todo = 1..Len(todo)
           /\ todo[1] = Head(todo)
           /\ Len(Tail(todo)) = Len(todo) - 1 /\ DOMAIN Tail(todo) = 1..(Len(todo) - 1)
           /\ \A i \in DOMAIN Tail(todo) : i + 1 \in DOMAIN todo /\ Tail(todo)[i] = todo[i + 1]
<1>1. todo \in Seq(Request) /\ todo # <<>>
  BY DEF TypeOK, Working
<1>2. /\ Len(todo) \in Nat /\ Len(todo) >= 1 /\ DOMAIN todo = 1..Len(todo)
      /\ todo[1] = Head(todo)
  BY <1>1
<1>3. /\ Tail(todo) \in Seq(Request) /\ Len(Tail(todo)) = Len(todo) - 1
      /\ \A i \in 1..Len(Tail(todo)) : Tail(todo)[i] = todo[i + 1]
  BY <1>1, HeadTailProperties
<1>4. DOMAIN Tail(todo) = 1..(Len(todo) - 1)
  BY <1>3, LenProperties
<1>5. QED
  BY <1>2, <1>3, <1>4

\* An address appended to the fields of an object.
LEMMA FieldsAppend ==
    ASSUME NEW f \in Seq(Nat), NEW base \in Nat
    PROVE  /\ Len(f) \in Nat /\ DOMAIN f = 1..Len(f) /\ \A i \in DOMAIN f : f[i] \in Nat
           /\ Len(Append(f, base)) = Len(f) + 1
           /\ DOMAIN Append(f, base) = DOMAIN f \cup {Len(f) + 1}
           /\ \A i \in DOMAIN f : Append(f, base)[i] = f[i]
           /\ Append(f, base)[Len(f) + 1] = base
<1> DEFINE a == Append(f, base)
<1>1. /\ a \in Seq(Nat) /\ Len(a) = Len(f) + 1
      /\ \A i \in 1..Len(f) : a[i] = f[i]
      /\ a[Len(f) + 1] = base
  BY AppendProperties
<1>2. DOMAIN f = 1..Len(f) /\ Len(f) \in Nat /\ \A i \in DOMAIN f : f[i] \in Nat
  BY LenProperties, ElementOfSeq
<1>3. DOMAIN a = 1..Len(a)
  BY <1>1, LenProperties
<1> HIDE DEF a
<1>4. DOMAIN a = DOMAIN f \cup {Len(f) + 1}
  BY <1>1, <1>2, <1>3
<1>5. QED
  BY <1>1, <1>2, <1>4 DEF a

\* An object whose fields a step leaves alone.
LEMMA HoldsKept ==
    ASSUME NEW o \in Objects, Holds(o), reserved \subseteq reserved',
           fields'[o] = fields[o], local'[o] = local[o],
           status'[o] = "none" => status[o] = "none" /\ (Of(o) => Of(o)')
    PROVE  Holds(o)'
<1>1. FieldsHold(o)' /\ FieldsOnce(o)'
  BY DEF Holds, FieldsHold, FieldsOnce, SystemField
<1>2. LocalHold(o)'
  BY DEF Holds, LocalHold
<1>3. FieldsFit(o)'
  BY DEF Holds, FieldsFit
<1>4. QED
  BY <1>1, <1>2, <1>3 DEF Holds

\* Storing changes the fields of the call's object only.
LEMMA HoldersStored ==
    ASSUME TypeOK, RegionInv, HoldersInv, NEW new \in Reservation, Stored(new)
    PROVE  HoldersInv'
<1>0. PICK c \in Objects : c = call.of
  BY HeadRequest DEF Stored, Makes
<1>1. /\ call # Idle /\ Working /\ frees = <<>>
      /\ fields \in [Objects -> Seq(Nat)] /\ local \in [Objects -> Nat]
      /\ reserved \subseteq Reservation /\ new.base \in Nat
  BY HeadRequest DEF Stored, Makes, TypeOK, Reservation, Working
<1>2. /\ call' = call /\ frees' = frees /\ status' = status /\ todo' = Tail(todo)
      /\ reserved' = reserved \cup {new} /\ new.of = c /\ new.via = Head(todo).via
  BY <1>0 DEF Stored, Store, Makes, Reserves
<1>3. \A r \in reserved : r.base < new.base
  BY NewIsBeyond DEF Stored, Makes
<1>4. OnceInv'
  BY <1>0, <1>2 DEF HoldersInv, OnceInv, Began, Of
<1>5. ASSUME NEW o \in Objects, o # c,
             fields'[o] = fields[o], local'[o] = local[o]
      PROVE  Holds(o)'
  <2>1. Holds(o) /\ reserved \subseteq reserved' /\ status'[o] = status[o] /\ (Of(o) => Of(o)')
    BY <1>0, <1>2 DEF HoldersInv, Of
  <2>2. QED
    BY <1>5, <2>1, HoldsKept
<1>6. Holds(c)
  BY <1>1 DEF HoldersInv
<1>7. CASE call.op = "create"
  <2> DEFINE f == fields[c]
  <2>1. local' = local /\ fields' = [fields EXCEPT ![c] = Append(f, new.base)]
    BY <1>0, <1>7 DEF Stored, Store
  <2>2. f \in Seq(Nat) /\ fields'[c] = Append(f, new.base)
    BY <1>0, <1>1, <2>1
  <2>3. /\ Len(f) \in Nat /\ DOMAIN f = 1..Len(f) /\ \A i \in DOMAIN f : f[i] \in Nat
        /\ Len(fields'[c]) = Len(f) + 1
        /\ DOMAIN fields'[c] = DOMAIN f \cup {Len(f) + 1}
        /\ \A i \in DOMAIN f : fields'[c][i] = f[i]
        /\ fields'[c][Len(f) + 1] = new.base
    BY <1>0, <1>1, <2>2, FieldsAppend
  <2>len. Len(f) \in Nat /\ Len(fields'[c]) = Len(f) + 1
    BY <2>3
  <2>4. Creating
    BY <1>0, <1>1, <1>7 DEF HoldersInv, CallInv
  <2>5. local[c] = 0 /\ status[c] = "none"
    BY <1>0, <1>6, <2>4 DEF Creating, Holds, FieldsFit
  <2>6. /\ Len(todo) \in Nat /\ Len(todo) >= 1 /\ DOMAIN todo = 1..Len(todo)
        /\ todo[1] = Head(todo)
        /\ Len(Tail(todo)) = Len(todo) - 1
        /\ \A i \in DOMAIN Tail(todo) : i \in Nat /\ i + 1 \in DOMAIN todo /\ Tail(todo)[i] = todo[i + 1]
    BY <1>0, <1>1, TodoIs
  <2>7. new.via = "gpu" <=> ~SystemField(c, Len(f) + 1)
    <3>1. 1 \in DOMAIN todo /\ todo[1] = Head(todo)
      BY <2>6
    <3>2. todo[1].via = "gpu" <=> ~SystemField(c, Len(f) + 1)
      BY <1>0, <2>4, <3>1 DEF Creating
    <3>3. QED
      BY <1>2, <3>1, <3>2
  <2>8. FieldsHold(c)'
    <3> SUFFICES ASSUME NEW i \in DOMAIN fields'[c]
                 PROVE  \E r \in reserved' : /\ r.base = fields'[c][i] /\ r.of = c
                                             /\ r.via = "gpu" <=> ~SystemField(c, i)
      BY <1>0, <1>2 DEF FieldsHold, SystemField
    <3>1. CASE i \in DOMAIN f
      BY <1>0, <1>2, <1>6, <2>3, <3>1 DEF Holds, FieldsHold
    <3>2. CASE i = Len(f) + 1
      BY <1>0, <1>2, <2>3, <2>7, <3>2
    <3>3. QED
      BY <2>3, <3>1, <3>2
  <2>9. \A i \in DOMAIN f : f[i] # new.base
    <3> TAKE i \in DOMAIN f
    <3>1. PICK r \in reserved : r.base = f[i]
      BY <1>6 DEF Holds, FieldsHold
    <3>2. r.base < new.base /\ r.base \in Nat
      BY <1>0, <1>1, <1>3 DEF Reservation
    <3>3. QED
      BY <1>0, <1>1, <3>1, <3>2
  <2>10. FieldsOnce(c)'
    BY <1>0, <1>2, <1>6, <2>3, <2>9 DEF Holds, FieldsOnce
  <2>11. LocalHold(c)'
    BY <1>0, <1>2, <2>1, <2>5 DEF LocalHold
  <2>12. Kind[c] = "buffer" => Len(f) + Len(todo) <= 1
    BY <1>0, <2>4 DEF Creating
  <2>13. FieldsFit(c)'
    BY <1>0, <1>1, <1>2, <2>1, <2>3, <2>5, <2>6, <2>12 DEF FieldsFit, Of
  <2>14. Creating'
    <3>1. \A i \in DOMAIN todo' :
              todo'[i].via = "gpu" <=> ~SystemField(c, Len(fields'[c]) + i)
      <4> TAKE i \in DOMAIN todo'
      <4>1. i \in Nat /\ i + 1 \in DOMAIN todo /\ todo'[i] = todo[i + 1]
        BY <1>0, <1>2, <2>6
      <4>2. Len(fields'[c]) + i = Len(f) + (i + 1)
        BY <2>len, <4>1
      <4>3. todo[i + 1].via = "gpu" <=> ~SystemField(c, Len(f) + (i + 1))
        BY <1>0, <2>4, <4>1 DEF Creating
      <4>4. QED
        BY <4>1, <4>2, <4>3
    <3>2. Kind[c] = "buffer" => Len(fields'[c]) + Len(todo') <= 1
      <4>1. Len(todo') = Len(todo) - 1 /\ Len(todo) \in Nat
        BY <1>2, <2>6
      <4>2. QED
        BY <2>len, <2>12, <4>1
    <3>3. call'.of = c /\ status'[c] = "none" /\ frees' = <<>>
      BY <1>0, <1>1, <1>2, <2>5
    <3>4. QED
      BY <3>1, <3>2, <3>3, Zenon DEF Creating, SystemField
  <2>15. CallInv'
    <3>1. call'.op = "create"
      BY <1>0, <1>2, <1>7
    <3>2. QED
      BY <2>14, <3>1 DEF CallInv
  <2>16. \A o \in Objects : Holds(o)'
    BY <1>0, <1>1, <1>5, <2>1, <2>8, <2>10, <2>11, <2>13 DEF Holds
  <2>17. QED
    BY <1>4, <2>15, <2>16 DEF HoldersInv
<1>8. CASE call.op = "grow"
  <2>1. fields' = fields /\ local' = [local EXCEPT ![c] = new.base]
    BY <1>0, <1>8 DEF Stored, Store
  <2>2. Growing
    BY <1>0, <1>1, <1>8 DEF HoldersInv, CallInv
  <2>3. /\ Len(todo) = 1 /\ todo[1] = Head(todo) /\ todo[1].via = "gpu"
        /\ todo' \in Seq(Request) /\ Len(todo') = 0 /\ DOMAIN todo' = {}
    <3>1. Len(todo) <= 1 /\ Len(todo) \in Nat /\ Len(todo) >= 1 /\ DOMAIN todo = 1..Len(todo)
          /\ todo[1] = Head(todo) /\ Len(Tail(todo)) = Len(todo) - 1
          /\ DOMAIN Tail(todo) = 1..(Len(todo) - 1) /\ Tail(todo) \in Seq(Request)
      BY <1>0, <1>1, <2>2, TodoIs, HeadRequest DEF Growing
    <3>2. QED
      BY <1>0, <1>2, <2>2, <3>1 DEF Growing
  <2>4. FieldsHold(c)' /\ FieldsOnce(c)'
    BY <1>0, <1>2, <1>6, <2>1 DEF Holds, FieldsHold, FieldsOnce, SystemField
  <2>5. local'[c] = new.base /\ Kind[c] = "module" /\ status[c] = "live"
    BY <1>0, <1>1, <2>1, <2>2 DEF Growing, Live
  <2>6. \A i \in DOMAIN fields[c] : fields[c][i] # new.base
    <3> TAKE i \in DOMAIN fields[c]
    <3>1. PICK r \in reserved : r.base = fields[c][i]
      BY <1>6 DEF Holds, FieldsHold
    <3>2. r.base < new.base /\ r.base \in Nat
      BY <1>0, <1>1, <1>3 DEF Reservation
    <3>3. QED
      BY <1>0, <1>1, <3>1, <3>2
  <2>7. LocalHold(c)'
    BY <1>0, <1>2, <2>1, <2>3, <2>5, <2>6 DEF LocalHold
  <2>8. FieldsFit(c)'
    BY <1>0, <1>2, <2>5 DEF FieldsFit
  <2>9. Growing'
    BY <1>0, <1>1, <1>2, <2>3, <2>5 DEF Growing, Live
  <2>10. CallInv'
    <3>1. call'.op = "grow"
      BY <1>0, <1>2, <1>8
    <3>2. QED
      BY <2>9, <3>1 DEF CallInv
  <2>11. \A o \in Objects : Holds(o)'
    BY <1>0, <1>1, <1>5, <2>1, <2>4, <2>7, <2>8 DEF Holds
  <2>12. QED
    BY <1>4, <2>10, <2>11 DEF HoldersInv
<1>9. QED
  BY <1>0, <1>1, <1>7, <1>8 DEF Working

\* Taking the first address off those to free.
LEMMA FreesIs ==
    ASSUME TypeOK, Freeing
    PROVE  /\ Len(frees) \in Nat /\ DOMAIN frees = 1..Len(frees)
           /\ 1 \in DOMAIN frees /\ frees[1] = Head(frees)
           /\ Len(Tail(frees)) = Len(frees) - 1
           /\ \A i \in DOMAIN Tail(frees) :
                 i \in Nat /\ i # 0 /\ i + 1 \in DOMAIN frees /\ Tail(frees)[i] = frees[i + 1]
<1>1. frees \in Seq(Nat) /\ frees # <<>>
  BY DEF TypeOK, Freeing
<1>2. /\ Len(frees) \in Nat /\ Len(frees) >= 1 /\ DOMAIN frees = 1..Len(frees)
      /\ frees[1] = Head(frees)
  BY <1>1
<1>3. /\ Tail(frees) \in Seq(Nat) /\ Len(Tail(frees)) = Len(frees) - 1
      /\ \A i \in 1..Len(Tail(frees)) : Tail(frees)[i] = frees[i + 1]
  BY <1>1, HeadTailProperties
<1>4. DOMAIN Tail(frees) = 1..(Len(frees) - 1)
  BY <1>3, LenProperties
<1>5. QED
  BY <1>2, <1>3, <1>4

LEMMA HoldersNextFree ==
    ASSUME TypeOK, HoldersInv, Freeing, NextFree, UNCHANGED <<owners, reserved>>
    PROVE  HoldersInv'
<1>0. PICK c \in Objects : c = call.of
  BY RestOfFrees
<1>1. /\ call' = call /\ todo' = todo /\ frees' = Tail(frees)
      /\ status' = status /\ fields' = fields /\ local' = local /\ reserved' = reserved
      /\ call.op \in {"grow", "destroy"} /\ call # Idle /\ frees # <<>>
  BY RestOfFrees DEF NextFree, owners, Freeing
<1>2. /\ Len(frees) \in Nat /\ DOMAIN frees = 1..Len(frees)
      /\ Len(Tail(frees)) = Len(frees) - 1
      /\ \A i \in DOMAIN Tail(frees) :
            i \in Nat /\ i # 0 /\ i + 1 \in DOMAIN frees /\ Tail(frees)[i] = frees[i + 1]
  BY FreesIs
<1>3. \A o \in Objects : Holds(o)'
  <2> TAKE o \in Objects
  <2>1. Holds(o) /\ (Of(o) => Of(o)')
    BY <1>1 DEF HoldersInv, Of
  <2>2. QED
    BY <1>1, <2>1, HoldsKept
<1>4. OnceInv'
  BY <1>1 DEF HoldersInv, OnceInv, Began, Of
<1>5. CASE call.op = "grow"
  <2>1. Growing
    BY <1>0, <1>1, <1>5 DEF HoldersInv, CallInv
  <2>2. Len(frees) = 1 /\ todo # <<>>
    BY <1>1, <2>1 DEF Growing
  <2>3. frees' = <<>>
    BY <1>1, <1>2, <2>2, RestOfFrees, EmptySeq
  <2>4. Growing'
    BY <1>1, <2>1, <2>3 DEF Growing, Live
  <2>5. CallInv'
    BY <1>1, <1>5, <2>4 DEF CallInv
  <2>6. QED
    BY <1>3, <1>4, <2>5 DEF HoldersInv
<1>6. CASE call.op = "destroy"
  <2>1. Destroying
    BY <1>0, <1>1, <1>6 DEF HoldersInv, CallInv
  <2>2. Waiting' \subseteq Waiting /\ Taken(c)' = Taken(c)
    BY <1>1, <1>2 DEF Waiting, Taken
  <2>3. \A i, j \in DOMAIN frees' : frees'[i] = frees'[j] => i = j
    <3> SUFFICES ASSUME NEW i \in DOMAIN frees', NEW j \in DOMAIN frees', frees'[i] = frees'[j]
                 PROVE  i = j
      OBVIOUS
    <3>1. /\ i \in Nat /\ i + 1 \in DOMAIN frees /\ frees'[i] = frees[i + 1]
          /\ j \in Nat /\ j + 1 \in DOMAIN frees /\ frees'[j] = frees[j + 1]
      BY <1>1, <1>2
    <3>2. i + 1 = j + 1
      BY <2>1, <3>1 DEF Destroying
    <3>3. QED
      BY <3>1, <3>2
  <2>4. Kind[c] = "buffer" => Len(frees') <= 1
    <3>1. Kind[c] = "buffer" => Len(frees) <= 1
      BY <1>0, <2>1 DEF Destroying
    <3>2. Len(frees') = Len(frees) - 1
      BY <1>1, <1>2
    <3>3. QED
      BY <1>2, <3>1, <3>2
  <2>5. /\ Kind[c] \in {"stream", "module", "buffer"} /\ status[c] = "live"
        /\ todo = <<>> /\ Waiting \subseteq Taken(c)
    BY <1>0, <2>1 DEF Destroying, Live
  <2>6. call'.of = c /\ Live(c)' /\ todo' = <<>> /\ Waiting' \subseteq Taken(c)'
    BY <1>0, <1>1, <2>2, <2>5 DEF Live
  <2>7. Destroying'
    BY <2>3, <2>4, <2>5, <2>6, Zenon DEF Destroying, Live, Taken
  <2>8. CallInv'
    BY <1>1, <1>6, <2>7 DEF CallInv
  <2>9. QED
    BY <1>3, <1>4, <2>8 DEF HoldersInv
<1>7. QED
  BY <1>1, <1>5, <1>6

\* A call that gives up leaves its object lost, or as it was.
LEMMA HoldersAborted ==
    ASSUME TypeOK, HoldersInv, call # Idle, Abort, UNCHANGED <<fields, local>>,
           reserved \subseteq reserved'
    PROVE  HoldersInv'
<1>0. PICK c \in Objects : c = call.of
  BY DEF TypeOK, Call
<1>1. /\ call' = Idle /\ frees' = <<>> /\ todo' = <<>>
      /\ status' = IF call.op = "create" THEN [status EXCEPT ![c] = "lost"] ELSE status
      /\ status \in [Objects -> {"none", "live", "lost", "gone"}]
      /\ call.op \in {"create", "grow", "destroy"}
  BY <1>0 DEF Abort, TypeOK, Call
<1>2. call.op # "create" => status[c] = "live"
  BY <1>0, <1>1 DEF HoldersInv, CallInv, Growing, Destroying, Live
<1>3. \A o \in Objects : status'[o] = "none" => status[o] = "none" /\ o # c
  BY <1>1, <1>2
<1>4. \A o \in Objects : Holds(o)'
  <2> TAKE o \in Objects
  <2>1. Holds(o) /\ (status'[o] = "none" => status[o] = "none" /\ (Of(o) => Of(o)'))
    BY <1>0, <1>3 DEF HoldersInv, Of
  <2>2. QED
    BY <1>1, <2>1, HoldsKept
<1>5. Began => Began'
  BY <1>3 DEF Began
<1>6. \A k \in Objects : status'[k] # "none" => status[k] # "none" \/ Of(k)
  BY <1>0, <1>1 DEF Of
<1>7. OnceInv'
  BY <1>1, <1>5, <1>6 DEF HoldersInv, OnceInv, Of
<1>8. CallInv'
  BY <1>1 DEF CallInv
<1>9. QED
  BY <1>4, <1>7, <1>8 DEF HoldersInv

\* A call that returns, and the kernels that a new context loads.
LEMMA HoldersReturn ==
    ASSUME TypeOK, HoldersInv, call # Idle, Return
    PROVE  HoldersInv'
<1>0. PICK c \in Objects : c = call.of
  BY DEF TypeOK, Call
<1>1. /\ frees' = <<>> /\ UNCHANGED <<fields, local, reserved>>
      /\ status' = [status EXCEPT ![c] = IF call.op = "destroy" THEN "gone" ELSE "live"]
      /\ \/ call' = Idle
         \/ /\ Kind[c] = "context"
            /\ \E k \in Objects : Kind[k] = "kernels" /\ call' = [op |-> "create", of |-> k]
                                  /\ todo' = ModuleNeeds
      /\ status \in [Objects -> {"none", "live", "lost", "gone"}]
  BY <1>0 DEF Return, memory, TypeOK
<1>2. \A o \in Objects : status'[o] = "none" => status[o] = "none" /\ o # c
  BY <1>1
<1>3. \A o \in Objects : Holds(o)'
  <2> TAKE o \in Objects
  <2>1. Holds(o) /\ (status'[o] = "none" => status[o] = "none" /\ (Of(o) => Of(o)'))
    BY <1>0, <1>2 DEF HoldersInv, Of
  <2>2. QED
    BY <1>1, <2>1, HoldsKept
<1>4. Began => Began'
  BY <1>2 DEF Began
<1>5. \A k \in Objects : status'[k] # "none" => status[k] # "none" \/ Of(k)
  BY <1>0, <1>1 DEF Of
<1>6. CASE call' = Idle
  <2>1. OnceInv' /\ CallInv'
    BY <1>4, <1>5, <1>6 DEF HoldersInv, OnceInv, Of, CallInv
  <2>2. QED
    BY <1>3, <2>1 DEF HoldersInv
<1>7. ASSUME NEW k \in Objects, Kind[c] = "context", Kind[k] = "kernels",
             call' = [op |-> "create", of |-> k], todo' = ModuleNeeds
      PROVE  HoldersInv'
  <2>1. k # c /\ ~Began
    BY <1>0, <1>7 DEF HoldersInv, OnceInv
  <2>2. status[k] = "none" /\ ~Of(k)
    BY <1>7, <2>1 DEF HoldersInv, OnceInv
  <2>3. fields[k] = <<>>
    BY <2>2 DEF HoldersInv, Holds, FieldsFit
  <2>4. call'.op = "create" /\ call'.of = k /\ status'[k] = "none" /\ fields'[k] = <<>>
    BY <1>1, <1>7, <2>1, <2>2, <2>3
  <2>5. status'[c] # "none"
    BY <1>2
  <2>6. Began'
    BY <1>7, <2>5 DEF Began
  <2>7. OnceInv'
    BY <1>7, <2>4, <2>6 DEF OnceInv
  <2>8. \A i \in DOMAIN todo' : todo'[i].via = "gpu" /\ ~SystemField(k, i)
    BY <1>7, NeedsSuit, SystemFieldsAre
  <2>9. \A i \in DOMAIN todo' : Len(fields'[k]) + i = i
    BY <1>7, <2>4 DEF ModuleNeeds
  <2>10. \A i \in DOMAIN todo' :
            todo'[i].via = "gpu" <=> ~SystemField(k, Len(fields'[k]) + i)
    BY <2>8, <2>9
  <2>11. Kind[k] # "buffer"
    BY <1>7
  <2>12. Creating'
    BY <1>1, <2>4, <2>10, <2>11, Zenon DEF Creating, SystemField
  <2>13. CallInv'
    BY <2>4, <2>12 DEF CallInv
  <2>14. QED
    BY <1>3, <2>7, <2>13 DEF HoldersInv
<1>8. QED
  BY <1>1, <1>6, <1>7

\* What a call that frees an object's memory starts with.
LEMMA StreamFreesAre ==
    ASSUME TypeInv, NEW o \in Objects, Kind[o] = "stream", Live(o)
    PROVE  /\ fields[o] \in Seq(Nat) /\ DOMAIN fields[o] = 1..4
           /\ DOMAIN StreamFrees(o) = 1..4
           /\ StreamFrees(o)[1] = fields[o][3] /\ StreamFrees(o)[2] = fields[o][1]
           /\ StreamFrees(o)[3] = fields[o][2] /\ StreamFrees(o)[4] = fields[o][4]
<1>1. fields[o] \in Seq(Nat) /\ Len(fields[o]) = 4
  BY DEF TypeInv, TypeOK, StreamFieldsOK
<1>2. DOMAIN fields[o] = 1..4
  BY <1>1, LenProperties
<1>3. StreamFrees(o) = <<fields[o][3], fields[o][1], fields[o][2], fields[o][4]>>
  BY DEF StreamFrees
<1>4. QED
  BY <1>1, <1>2, <1>3

LEMMA ModuleFreesAre ==
    ASSUME TypeOK, NEW o \in Objects
    PROVE  LET m == fields[o] \o LocalFree(o)
               n == Len(fields[o])
           IN  /\ n \in Nat /\ DOMAIN fields[o] = 1..n
               /\ \A i \in 1..n : i \in DOMAIN m /\ m[i] = fields[o][i]
               /\ local[o] = 0 => DOMAIN m = 1..n
               /\ local[o] # 0 => DOMAIN m = 1..(n + 1) /\ m[n + 1] = local[o]
<1> DEFINE m == fields[o] \o LocalFree(o)
           n == Len(fields[o])
<1>1. fields[o] \in Seq(Nat) /\ local[o] \in Nat /\ n \in Nat /\ DOMAIN fields[o] = 1..n
  BY LenProperties DEF TypeOK
<1>2. LocalFree(o) \in Seq(Nat)
  BY <1>1, NatTuples DEF LocalFree
<1>3. /\ m \in Seq(Nat) /\ Len(m) = n + Len(LocalFree(o))
      /\ \A i \in 1..(n + Len(LocalFree(o))) :
            m[i] = IF i <= n THEN fields[o][i] ELSE LocalFree(o)[i - n]
  BY <1>1, <1>2, ConcatProperties
<1>4. DOMAIN m = 1..Len(m)
  BY <1>3, LenProperties
<1>5. CASE local[o] = 0
  <2>1. Len(LocalFree(o)) = 0
    BY <1>5 DEF LocalFree
  <2> HIDE DEF m, n
  <2>2. Len(m) = n
    BY <1>1, <1>3, <2>1
  <2>3. \A i \in 1..n : i \in DOMAIN m /\ m[i] = fields[o][i]
    BY <1>1, <1>3, <1>4, <2>1, <2>2
  <2>4. QED
    BY <1>1, <1>4, <1>5, <2>2, <2>3 DEF m, n
<1>6. CASE local[o] # 0
  <2>1. Len(LocalFree(o)) = 1 /\ LocalFree(o)[1] = local[o]
    BY <1>6 DEF LocalFree
  <2> HIDE DEF m, n
  <2>2. Len(m) = n + 1
    BY <1>1, <1>3, <2>1
  <2>3. \A i \in 1..n : i \in DOMAIN m /\ m[i] = fields[o][i]
    BY <1>1, <1>3, <1>4, <2>1, <2>2
  <2>4. m[n + 1] = LocalFree(o)[(n + 1) - n]
    BY <1>1, <1>3, <2>1
  <2>5. (n + 1) - n = 1
    BY <1>1
  <2>6. QED
    BY <1>1, <1>4, <1>6, <2>1, <2>2, <2>3, <2>4, <2>5 DEF m, n
<1>7. QED
  BY <1>5, <1>6

\* A call that begins changes no owner.
LEMMA HoldersBegin ==
    ASSUME HoldersInv, NEW o \in Objects, NEW op, NEW addresses, NEW requests,
           Begin(op, o, addresses, requests), Kind[o] # "kernels",
           Kind[o] = "context" => op = "create" /\ ~Began
    PROVE  /\ \A p \in Objects : Holds(p)' /\ OnceInv'
           /\ call'.op = op /\ call'.of = o /\ frees' = addresses /\ todo' = requests
           /\ UNCHANGED <<status, fields, local, reserved, va_to_mem_handle, allocated, failures>>
           /\ call = Idle
<1>1. /\ call = Idle /\ call' = [op |-> op, of |-> o]
      /\ frees' = addresses /\ todo' = requests
      /\ UNCHANGED <<status, fields, local, reserved, va_to_mem_handle, allocated, failures>>
  BY DEF Begin, memory, owners
<1>2. ASSUME NEW p \in Objects PROVE Holds(p)'
  <2>1. Holds(p) /\ ~Of(p)
    BY <1>1 DEF HoldersInv, Of
  <2>2. QED
    BY <1>1, <2>1, HoldsKept
<1>3. OnceInv'
  BY <1>1 DEF HoldersInv, OnceInv, Began, Of
<1>4. QED
  BY <1>1, <1>2, <1>3

\* A new object has no fields yet.
LEMMA HoldersCreate ==
    ASSUME HoldersInv, NEW o \in Objects, NEW requests,
           Begin("create", o, <<>>, requests), Kind[o] # "kernels", status[o] = "none",
           Kind[o] = "context" => ~Began,
           \A i \in DOMAIN requests : i \in Nat /\ (requests[i].via = "gpu" <=> ~SystemField(o, i)),
           Kind[o] = "buffer" => Len(requests) = 1
    PROVE  HoldersInv'
<1>1. /\ \A p \in Objects : Holds(p)' /\ OnceInv'
      /\ call'.op = "create" /\ call'.of = o /\ frees' = <<>> /\ todo' = requests
      /\ UNCHANGED <<status, fields>> /\ call = Idle
  BY HoldersBegin
<1>2. fields'[o] = <<>> /\ status'[o] = "none"
  BY <1>1 DEF HoldersInv, Holds, FieldsFit, Of
<1>3. Len(fields'[o]) = 0
  BY <1>2
<1>4. \A i \in DOMAIN todo' :
          todo'[i].via = "gpu" <=> ~SystemField(o, Len(fields'[o]) + i)
  <2> TAKE i \in DOMAIN todo'
  <2>1. Len(fields'[o]) + i = i /\ todo'[i] = requests[i] /\ i \in DOMAIN requests
    BY <1>1, <1>3
  <2>2. requests[i].via = "gpu" <=> ~SystemField(o, i)
    BY <2>1
  <2>3. QED
    BY <2>1, <2>2
<1>5. Kind[o] = "buffer" => Len(fields'[o]) + Len(todo') <= 1
  BY <1>1, <1>3
<1>6. Creating'
  BY <1>1, <1>2, <1>4, <1>5, Zenon DEF Creating, SystemField
<1>7. CallInv'
  BY <1>1, <1>6 DEF CallInv
<1>8. QED
  BY <1>1, <1>7 DEF HoldersInv

\* A live object is freed by its own addresses, each once.
LEMMA HoldersDestroy ==
    ASSUME HoldersInv, NEW o \in Objects, NEW addresses,
           Begin("destroy", o, addresses, <<>>),
           Kind[o] \in {"stream", "module", "buffer"}, Live(o),
           \A i \in DOMAIN addresses : addresses[i] \in Taken(o),
           \A i, j \in DOMAIN addresses : addresses[i] = addresses[j] => i = j,
           Kind[o] = "buffer" => Len(addresses) <= 1
    PROVE  HoldersInv'
<1>1. /\ \A p \in Objects : Holds(p)' /\ OnceInv'
      /\ call'.op = "destroy" /\ call'.of = o /\ frees' = addresses /\ todo' = <<>>
      /\ UNCHANGED <<status, fields, local>> /\ call = Idle
  BY HoldersBegin
<1>2. Waiting' \subseteq Taken(o)'
  BY <1>1 DEF Waiting, Taken
<1>3. status'[o] = "live"
  BY <1>1 DEF Live
<1>4. Destroying'
  <2>1. Kind[o] = "buffer" => Len(frees') <= 1
    BY <1>1
  <2>2. \A i, j \in DOMAIN frees' : frees'[i] = frees'[j] => i = j
    BY <1>1
  <2>3. call'.of = o /\ todo' = <<>>
    BY <1>1
  <2>4. Kind[o] \in {"stream", "module", "buffer"}
    OBVIOUS
  <2>5. QED
    BY <1>2, <1>3, <2>1, <2>2, <2>3, <2>4, Zenon DEF Destroying, Live, Taken
<1>5. CallInv'
  BY <1>1, <1>4 DEF CallInv
<1>6. QED
  BY <1>1, <1>5 DEF HoldersInv

LEMMA HoldersCalled ==
    ASSUME TypeInv, HoldersInv, NEW o \in Objects, Called(o)
    PROVE  HoldersInv'
<1>1. TypeOK /\ Holds(o)
  BY DEF TypeInv, HoldersInv
<1>2. \A n \in Nat : \A i \in 1..n : i \in Nat
  OBVIOUS
<1>3. CASE CtxCreate(o)
  <2>1. /\ Kind[o] = "context" /\ status[o] = "none" /\ ~Began
        /\ Begin("create", o, <<>>, ContextNeeds)
    BY <1>3 DEF CtxCreate, Began
  <2>2. DOMAIN ContextNeeds \subseteq Nat
    BY DEF ContextNeeds
  <2>3. \A i \in DOMAIN ContextNeeds :
            i \in Nat /\ (ContextNeeds[i].via = "gpu" <=> ~SystemField(o, i))
    BY <2>1, <2>2, NeedsSuit, SystemFieldsAre
  <2>4. QED
    BY <2>1, <2>3, HoldersCreate
<1>4. CASE StreamCreate(o)
  <2>1. /\ Kind[o] = "stream" /\ status[o] = "none"
        /\ Begin("create", o, <<>>, StreamNeeds)
    BY <1>4 DEF StreamCreate
  <2>2. DOMAIN StreamNeeds \subseteq Nat
    BY DEF StreamNeeds
  <2>3. \A i \in DOMAIN StreamNeeds :
            i \in Nat /\ (StreamNeeds[i].via = "gpu" <=> ~SystemField(o, i))
    BY <2>1, <2>2, NeedsSuit, SystemFieldsAre
  <2>4. QED
    BY <2>1, <2>3, HoldersCreate
<1>5. CASE ModuleLoadData(o)
  <2>1. /\ Kind[o] = "module" /\ status[o] = "none"
        /\ Begin("create", o, <<>>, ModuleNeeds)
    BY <1>5 DEF ModuleLoadData
  <2>2. DOMAIN ModuleNeeds \subseteq Nat
    BY DEF ModuleNeeds
  <2>3. \A i \in DOMAIN ModuleNeeds :
            i \in Nat /\ (ModuleNeeds[i].via = "gpu" <=> ~SystemField(o, i))
    BY <2>1, <2>2, NeedsSuit, SystemFieldsAre
  <2>4. QED
    BY <2>1, <2>3, HoldersCreate
<1>6. ASSUME NEW size \in BufferSizes, NEW map \in BOOLEAN, MemAlloc(o, size, map)
      PROVE  HoldersInv'
  <2> DEFINE needs == BufferNeeds(size, map)
  <2>1. /\ Kind[o] = "buffer" /\ status[o] = "none"
        /\ Begin("create", o, <<>>, needs)
    BY <1>6 DEF MemAlloc
  <2>2. needs \in Seq(Request) /\ Len(needs) = 1
        /\ \A i \in DOMAIN needs : needs[i].via = "gpu"
    BY NeedsTypes, NeedsSuit
  <2>3. DOMAIN needs = 1..1
    BY <2>2, LenProperties
  <2> HIDE DEF needs
  <2>4. \A i \in DOMAIN needs : i \in Nat /\ (needs[i].via = "gpu" <=> ~SystemField(o, i))
    BY <2>1, <2>2, <2>3, SystemFieldsAre
  <2>5. QED
    BY <2>1, <2>2, <2>4, HoldersCreate
<1>7. CASE StreamDestroy(o)
  <2>1. Kind[o] = "stream" /\ Live(o) /\ Begin("destroy", o, StreamFrees(o), <<>>)
    BY <1>7 DEF StreamDestroy, Live
  <2>2. /\ DOMAIN fields[o] = 1..4 /\ DOMAIN StreamFrees(o) = 1..4
        /\ StreamFrees(o)[1] = fields[o][3] /\ StreamFrees(o)[2] = fields[o][1]
        /\ StreamFrees(o)[3] = fields[o][2] /\ StreamFrees(o)[4] = fields[o][4]
    BY <2>1, StreamFreesAre
  <2>3. \A i \in DOMAIN StreamFrees(o) : StreamFrees(o)[i] \in Taken(o)
    BY <2>2 DEF Taken
  <2>4. /\ fields[o][1] # fields[o][2] /\ fields[o][1] # fields[o][3] /\ fields[o][1] # fields[o][4]
        /\ fields[o][2] # fields[o][3] /\ fields[o][2] # fields[o][4]
        /\ fields[o][3] # fields[o][4]
    <3>1. 1 \in 1..4 /\ 2 \in 1..4 /\ 3 \in 1..4 /\ 4 \in 1..4
      OBVIOUS
    <3>2. QED
      BY <1>1, <2>2, <3>1 DEF Holds, FieldsOnce
  <2>5. \A i, j \in DOMAIN StreamFrees(o) : StreamFrees(o)[i] = StreamFrees(o)[j] => i = j
    <3>1. \A i \in 1..4 : i = 1 \/ i = 2 \/ i = 3 \/ i = 4
      OBVIOUS
    <3>2. QED
      BY <2>2, <2>4, <3>1
  <2>6. QED
    BY <2>1, <2>3, <2>5, HoldersDestroy
<1>8. CASE ModuleUnload(o)
  <2> DEFINE m == fields[o] \o LocalFree(o)
             n == Len(fields[o])
  <2>1. Kind[o] = "module" /\ Live(o) /\ Begin("destroy", o, m, <<>>)
    BY <1>8 DEF ModuleUnload, Live
  <2>2. /\ n \in Nat /\ DOMAIN fields[o] = 1..n
        /\ \A i \in 1..n : i \in DOMAIN m /\ m[i] = fields[o][i]
        /\ local[o] = 0 => DOMAIN m = 1..n
        /\ local[o] # 0 => DOMAIN m = 1..(n + 1) /\ m[n + 1] = local[o]
    BY <1>1, ModuleFreesAre, Zenon
  <2> HIDE DEF m, n
  <2>3. \A i \in DOMAIN m : i \in 1..n \/ (i = n + 1 /\ local[o] # 0)
    BY <2>2
  <2>4. ASSUME NEW i \in DOMAIN m PROVE m[i] \in Taken(o)
    <3>1. CASE i \in 1..n
      BY <2>2, <3>1 DEF Taken
    <3>2. CASE i = n + 1 /\ local[o] # 0
      BY <2>2, <3>2 DEF Taken
    <3>3. QED
      BY <2>3, <3>1, <3>2
  <2>5. ASSUME NEW i \in DOMAIN m, NEW j \in DOMAIN m, m[i] = m[j] PROVE i = j
    <3>1. CASE i \in 1..n /\ j \in 1..n
      BY <1>1, <2>2, <2>5, <3>1 DEF Holds, FieldsOnce
    <3>2. \A k \in 1..n : local[o] # 0 => m[k] # m[n + 1]
      BY <1>1, <2>2 DEF Holds, LocalHold
    <3>3. QED
      BY <2>3, <2>5, <3>1, <3>2
  <2>6. QED
    BY <2>1, <2>4, <2>5, HoldersDestroy
<1>9. CASE MemFree(o)
  <2>1. Kind[o] = "buffer" /\ Live(o) /\ Begin("destroy", o, fields[o], <<>>)
    BY <1>9 DEF MemFree, Live
  <2>2. \A i \in DOMAIN fields[o] : fields[o][i] \in Taken(o)
    BY DEF Taken
  <2>3. /\ \A i, j \in DOMAIN fields[o] : fields[o][i] = fields[o][j] => i = j
        /\ Len(fields[o]) <= 1
    BY <1>1, <2>1 DEF Holds, FieldsOnce, FieldsFit
  <2>4. QED
    BY <2>1, <2>2, <2>3, HoldersDestroy
<1>10. CASE EnsureEnoughLocalMem(o)
  <2>1. Kind[o] = "module" /\ Live(o) /\ Begin("grow", o, LocalFree(o), LocalNeeds)
    BY <1>10 DEF EnsureEnoughLocalMem, Live
  <2>2. /\ \A p \in Objects : Holds(p)' /\ OnceInv'
        /\ call'.op = "grow" /\ call'.of = o /\ frees' = LocalFree(o) /\ todo' = LocalNeeds
        /\ UNCHANGED <<status, fields, local>>
    BY <2>1, HoldersBegin
  <2>3. LocalFree(o) # <<>> => LocalFree(o) = <<local[o]>> /\ local[o] # 0
    BY DEF LocalFree
  <2>4. LocalNeeds # <<>> /\ Len(LocalNeeds) = 1 /\ \A i \in DOMAIN LocalNeeds : LocalNeeds[i].via = "gpu"
    <3>1. LocalNeeds # <<>>
      BY DEF LocalNeeds
    <3>2. QED
      BY <3>1, NeedsSuit
  <2>5. /\ call'.of = o /\ status'[o] = "live" /\ Kind[o] = "module"
        /\ Len(todo') <= 1 /\ \A i \in DOMAIN todo' : todo'[i].via = "gpu"
        /\ frees' # <<>> => todo' # <<>> /\ frees' = <<local'[o]>> /\ local'[o] # 0
    BY <2>1, <2>2, <2>3, <2>4 DEF Live
  <2>6. Growing'
    BY <2>5, Zenon DEF Growing, Live
  <2>7. CallInv'
    BY <2>2, <2>6 DEF CallInv
  <2>8. QED
    BY <2>2, <2>7 DEF HoldersInv
<1>11. CASE CtxDestroy(o)
  <2>1. /\ call = Idle /\ call' = Idle /\ status[o] = "live"
        /\ status' = [status EXCEPT ![o] = "gone"]
        /\ UNCHANGED <<fields, local, reserved>>
        /\ status \in [Objects -> {"none", "live", "lost", "gone"}]
    BY <1>1, <1>11 DEF CtxDestroy, progress, memory, TypeOK
  <2>2. \A p \in Objects : status'[p] = "none" <=> status[p] = "none"
    BY <2>1
  <2>3. ASSUME NEW p \in Objects PROVE Holds(p)'
    <3>1. Holds(p) /\ ~Of(p)
      BY <2>1 DEF HoldersInv, Of
    <3>2. QED
      BY <2>1, <2>2, <3>1, HoldsKept
  <2>4. CallInv' /\ OnceInv'
    BY <2>1, <2>2 DEF HoldersInv, CallInv, OnceInv, Began, Of
  <2>5. QED
    BY <2>3, <2>4 DEF HoldersInv
<1>12. QED
  BY <1>3, <1>4, <1>5, <1>6, <1>7, <1>8, <1>9, <1>10, <1>11 DEF Called

LEMMA HoldersStep == TypeInv /\ RegionInv /\ HoldersInv /\ [Next]_vars => HoldersInv'
<1> SUFFICES ASSUME TypeInv, RegionInv, HoldersInv, [Next]_vars PROVE HoldersInv'
  OBVIOUS
<1>1. TypeOK
  BY DEF TypeInv
<1>2. ASSUME NEW new \in Reservation, Wasted(new) PROVE HoldersInv'
  <2>1. call # Idle
    BY <1>1, <1>2, HeadRequest DEF Wasted, Makes
  <2>2. Abort /\ UNCHANGED <<fields, local>> /\ reserved \subseteq reserved'
    BY <1>2 DEF Wasted, Makes, Reserves
  <2>3. QED
    BY <1>1, <2>1, <2>2, HoldersAborted
<1>3. CASE GaveUp
  <2>1. call # Idle
    BY <1>3 DEF GaveUp, Idle, Freeing
  <2>2. Abort /\ UNCHANGED <<fields, local>> /\ reserved \subseteq reserved'
    BY <1>3 DEF GaveUp, memory
  <2>3. QED
    BY <1>1, <2>1, <2>2, HoldersAborted
<1>4. CASE GpuFree \/ Skipped
  <2>1. Freeing /\ NextFree /\ UNCHANGED <<owners, reserved>>
    BY <1>4 DEF GpuFree, Skipped, memory
  <2>2. QED
    BY <1>1, <2>1, HoldersNextFree
<1>5. CASE UNCHANGED vars
  <2>1. UNCHANGED <<status, fields, local, call, frees, todo, reserved>>
    BY <1>5 DEF vars, memory, owners, progress
  <2>2. \A o \in Objects : Holds(o)'
    <3> TAKE o \in Objects
    <3>1. Holds(o) /\ (Of(o) => Of(o)')
      BY <2>1 DEF HoldersInv, Of
    <3>2. QED
      BY <2>1, <3>1, HoldsKept
  <2>3. CallInv'
    BY <2>1 DEF HoldersInv, CallInv, Creating, Growing, Destroying, Live, Waiting, Taken, SystemField
  <2>4. OnceInv'
    BY <2>1 DEF HoldersInv, OnceInv, Began, Of
  <2>5. QED
    BY <2>2, <2>3, <2>4 DEF HoldersInv
<1>6. QED
  BY <1>1, <1>2, <1>3, <1>4, <1>5, OwnerSteps, HoldersStored, HoldersReturn, HoldersCalled

-----------------------------------------------------------------------------
(* Who is known to gpuFree.  The addresses of a live object are in the map, *)
(* but for those its own call has freed; of a module only as long as no     *)
(* growth or unload of one may have failed.                                 *)

Excused(o) == Kind[o] = "module" /\ failures > 0

Keeps(o) ==
    /\ Live(o) /\ ~Of(o) => Addresses(o) \subseteq Known
    /\ Of(o) /\ call.op = "create" => Addresses(o) \subseteq Known
    /\ Of(o) /\ call.op = "grow" =>
          \A va \in Addresses(o) :
              \/ va \in Known
              \/ local[o] # 0 /\ va = local[o] /\ frees = <<>> /\ todo # <<>>
    /\ Of(o) /\ call.op = "destroy" =>
          /\ Waiting \cap Addresses(o) \subseteq Known
          /\ Kind[o] = "buffer" /\ frees # <<>> => Addresses(o) \subseteq Known

KnownInv == \A o \in Objects : ~Excused(o) => Keeps(o)

OwnersInv == TypeInv /\ RegionInv /\ HandlesInv /\ HoldersInv

\* What the fields of an object lead to.
LEMMA TakenIs ==
    ASSUME HoldersInv, NEW o \in Objects
    PROVE  /\ Addresses(o) \subseteq Taken(o)
           /\ \A va \in Taken(o) : \E r \in reserved : r.base = va /\ r.of = o
           /\ \A va \in Addresses(o) : \E r \in reserved : r.base = va /\ r.of = o /\ r.via = "gpu"
           /\ Kind[o] \in {"kernels", "module", "buffer"} => Addresses(o) = Taken(o)
<1>1. FieldsHold(o) /\ LocalHold(o)
  BY DEF HoldersInv, Holds
<1>2. Addresses(o) \subseteq Taken(o)
  BY DEF Addresses, Taken
<1>3. ASSUME NEW va \in Taken(o) PROVE \E r \in reserved : r.base = va /\ r.of = o
  BY <1>1 DEF Taken, FieldsHold, LocalHold
<1>4. ASSUME NEW va \in Addresses(o)
      PROVE  \E r \in reserved : r.base = va /\ r.of = o /\ r.via = "gpu"
  <2>1. CASE va = local[o] /\ local[o] # 0
    BY <1>1, <2>1 DEF LocalHold
  <2>2. ASSUME NEW i \in DOMAIN fields[o], ~SystemField(o, i), va = fields[o][i]
        PROVE  \E r \in reserved : r.base = va /\ r.of = o /\ r.via = "gpu"
    BY <1>1, <2>2 DEF FieldsHold
  <2>3. QED
    BY <2>1, <2>2 DEF Addresses, SystemField
<1>5. ASSUME Kind[o] \in {"kernels", "module", "buffer"} PROVE Taken(o) \subseteq Addresses(o)
  <2>1. \A i : i \notin SystemFields[Kind[o]]
    BY <1>5, SystemFieldsAre DEF SystemField
  <2>2. QED
    BY <2>1 DEF Taken, Addresses
<1>6. QED
  BY <1>2, <1>3, <1>4, <1>5

AddressesLead ==
    \A o \in Objects : \A va \in Addresses(o) :
        \E r \in reserved : r.base = va /\ r.of = o /\ r.via = "gpu"
LEMMA AddressesFound == HoldersInv => AddressesLead
BY TakenIs DEF AddressesLead

\* No two objects hold the same address.
LEMMA OneHolder ==
    ASSUME TypeOK, RegionInv, HoldersInv, NEW o \in Objects, NEW p \in Objects,
           NEW va, va \in Taken(o), va \in Taken(p)
    PROVE  o = p
<1>1. PICK r \in reserved : r.base = va /\ r.of = o
  BY TakenIs
<1>2. PICK t \in reserved : t.base = va /\ t.of = p
  BY TakenIs
<1>3. r = t
  BY <1>1, <1>2, OneRegionPerAddress
<1>4. QED
  BY <1>1, <1>2, <1>3

LEMMA NoAddresses ==
    ASSUME HoldersInv, NEW o \in Objects, status[o] = "none", ~Of(o)
    PROVE  Addresses(o) = {}
<1>1. fields[o] = <<>> /\ local[o] = 0
  BY DEF HoldersInv, Holds, FieldsFit
<1>2. DOMAIN fields[o] = {}
  BY <1>1
<1>3. QED
  BY <1>1, <1>2 DEF Addresses

\* A refusal shows a fault: of what gpuFree is called with, only the pool of a
\* stream is unknown, unless a module lost its memory to a failure.
LEMMA RefusedIs ==
    ASSUME OwnersInv, KnownInv, Freeing, Head(frees) \notin Known
    PROVE  \/ Kind[call.of] = "stream" /\ Head(frees) = fields[call.of][3]
           \/ Excused(call.of)
<1>0. PICK c \in Objects : c = call.of
  BY RestOfFrees DEF OwnersInv, TypeInv
<1>1. TypeOK /\ HoldersInv /\ call # Idle /\ call.op \in {"grow", "destroy"} /\ frees # <<>>
  BY RestOfFrees DEF OwnersInv, TypeInv, Freeing
<1>2. 1 \in DOMAIN frees /\ frees[1] = Head(frees)
  BY <1>1, FreesIs
<1> SUFFICES ASSUME ~Excused(c)
             PROVE  Kind[c] = "stream" /\ Head(frees) = fields[c][3]
  BY <1>0
<1>3. Keeps(c) /\ Of(c)
  BY <1>0, <1>1 DEF KnownInv, Of
<1>4. CASE call.op = "grow"
  <2>1. frees = <<local[c]>> /\ local[c] # 0
    BY <1>0, <1>1, <1>4 DEF HoldersInv, CallInv, Growing
  <2>2. Head(frees) \in Addresses(c)
    BY <2>1 DEF Addresses
  <2>3. Head(frees) \in Known
    BY <1>1, <1>3, <1>4, <2>2 DEF Keeps
  <2>4. QED
    BY <2>3
<1>5. CASE call.op = "destroy"
  <2>1. Destroying
    BY <1>1, <1>5 DEF HoldersInv, CallInv
  <2>2. Head(frees) \in Waiting /\ Head(frees) \in Taken(c)
    BY <1>0, <1>2, <2>1 DEF Destroying, Waiting
  <2>3. Head(frees) \notin Addresses(c)
    BY <1>3, <1>5, <2>2 DEF Keeps
  <2>4. Kind[c] = "stream"
    BY <1>0, <1>1, <2>1, <2>2, <2>3, TakenIs DEF Destroying
  <2>5. PICK i \in DOMAIN fields[c] : Head(frees) = fields[c][i] /\ i \in SystemFields["stream"]
    <3>1. Head(frees) = local[c] /\ local[c] # 0 => Head(frees) \in Addresses(c)
      BY DEF Addresses
    <3>2. \A i \in DOMAIN fields[c] : i \notin SystemFields["stream"] => fields[c][i] \in Addresses(c)
      BY <2>4 DEF Addresses
    <3>3. QED
      BY <2>2, <2>3, <3>1, <3>2 DEF Taken
  <2>6. i = 3
    BY <2>5 DEF SystemFields
  <2>7. QED
    BY <2>4, <2>5, <2>6
<1>6. QED
  BY <1>1, <1>4, <1>5

\* An object that the step's call is not about keeps its memory.
LEMMA KeepsKept ==
    ASSUME NEW o \in Objects, Keeps(o), ~Of(o), ~Of(o)' \/ Addresses(o) = {},
           fields'[o] = fields[o], local'[o] = local[o], Live(o)' => Live(o),
           Addresses(o) \cap Known \subseteq Known'
    PROVE  Keeps(o)'
<1>1. Addresses(o)' = Addresses(o)
  BY DEF Addresses
<1>2. CASE ~Of(o)'
  BY <1>1, <1>2 DEF Keeps
<1>3. CASE Addresses(o) = {}
  BY <1>1, <1>3 DEF Keeps
<1>4. QED
  BY <1>2, <1>3

\* The address stored is known if gpuAlloc gave it out.
LEMMA KnownStored ==
    ASSUME OwnersInv, HoldersInv', KnownInv, NEW new \in Reservation, Stored(new)
    PROVE  KnownInv'
<1>0. PICK c \in Objects : c = call.of
  BY HeadRequest DEF Stored, Makes, OwnersInv, TypeInv
<1>1. /\ TypeOK /\ RegionInv /\ HoldersInv /\ call # Idle
      /\ call.op \in {"create", "grow"} /\ Working /\ frees = <<>> /\ todo # <<>>
      /\ fields \in [Objects -> Seq(Nat)] /\ local \in [Objects -> Nat]
      /\ reserved \subseteq Reservation /\ new.base \in Nat
  BY HeadRequest DEF OwnersInv, TypeInv, Stored, Makes, TypeOK, Reservation, Working
<1>2. /\ call' = call /\ frees' = frees /\ status' = status /\ failures' = failures
      /\ reserved' = reserved \cup {new}
  BY DEF Stored, Store, Makes, Reserves
<1>3. \A r \in reserved : r.base # new.base
  <2> TAKE r \in reserved
  <2>1. r.base < new.base /\ r.base \in Nat
    BY <1>1, NewIsBeyond DEF Stored, Makes, Reservation
  <2>2. QED
    BY <1>1, <2>1
<1>4. Known \subseteq Known' /\ (new.via = "gpu" => new.base \in Known')
  BY DEF Stored, Known
<1>5. ASSUME NEW o \in Objects, ~Excused(o)', o # c
      PROVE  Keeps(o)'
  <2>1. fields'[o] = fields[o] /\ local'[o] = local[o]
    BY <1>0, <1>1, <1>5 DEF Stored, Store
  <2>2. Keeps(o) /\ ~Of(o) /\ ~Of(o)' /\ (Live(o)' => Live(o))
    BY <1>0, <1>2, <1>5 DEF KnownInv, Excused, Of, Live
  <2>3. Addresses(o) \cap Known \subseteq Known'
    BY <1>4
  <2>4. QED
    BY <2>1, <2>2, <2>3, KeepsKept
<1>6. ASSUME ~Excused(c)' PROVE Keeps(c)'
  <2>1. Keeps(c) /\ Of(c) /\ Of(c)'
    BY <1>0, <1>1, <1>2, <1>6 DEF KnownInv, Excused, Of
  <2>2. \A va \in Addresses(c)' : \E r \in reserved' : r.base = va /\ r.via = "gpu"
    <3>1. (HoldersInv => AddressesLead)'
      BY AddressesFound, PTL
    <3>2. QED
      BY <3>1 DEF AddressesLead
  <2>3. new.base \in Addresses(c)' => new.base \in Known'
    BY <1>2, <1>3, <1>4, <2>2
  <2>4. CASE call.op = "create"
    <3>1. local' = local /\ fields' = [fields EXCEPT ![c] = Append(fields[c], new.base)]
      BY <1>0, <2>4 DEF Stored, Store
    <3>2. /\ DOMAIN fields'[c] = DOMAIN fields[c] \cup {Len(fields[c]) + 1}
          /\ \A i \in DOMAIN fields[c] : fields'[c][i] = fields[c][i]
          /\ fields'[c][Len(fields[c]) + 1] = new.base
      <4>1. fields[c] \in Seq(Nat) /\ fields'[c] = Append(fields[c], new.base)
        BY <1>1, <3>1
      <4>2. QED
        BY <1>1, <4>1, FieldsAppend
    <3>3. Addresses(c)' \subseteq Addresses(c) \cup {new.base}
      BY <3>1, <3>2 DEF Addresses
    <3>4. Addresses(c) \subseteq Known
      BY <2>1, <2>4 DEF Keeps
    <3>5. Addresses(c)' \subseteq Known'
      BY <1>4, <2>3, <3>3, <3>4
    <3>6. call'.op = "create"
      BY <1>2, <2>4
    <3>7. QED
      BY <2>1, <3>5, <3>6 DEF Keeps
  <2>5. CASE call.op = "grow"
    <3>1. fields' = fields /\ local' = [local EXCEPT ![c] = new.base]
      BY <1>0, <2>5 DEF Stored, Store
    <3>2. \A va \in Addresses(c)' : va = new.base \/ (va \in Addresses(c) /\ (local[c] # 0 => va # local[c]))
      BY <1>1, <3>1 DEF Addresses, HoldersInv, Holds, LocalHold
    <3>3. \A va \in Addresses(c) : va \in Known \/ (local[c] # 0 /\ va = local[c])
      BY <2>1, <2>5 DEF Keeps
    <3>4. Addresses(c)' \subseteq Known'
      BY <1>4, <2>3, <3>2, <3>3
    <3>5. call'.op = "grow"
      BY <1>2, <2>5
    <3>6. QED
      BY <2>1, <3>4, <3>5 DEF Keeps
  <2>6. QED
    BY <1>1, <2>4, <2>5
<1>7. QED
  BY <1>5, <1>6 DEF KnownInv

\* What is freed is the call's own, and is not freed again.
LEMMA KnownFree ==
    ASSUME OwnersInv, KnownInv, GpuFree
    PROVE  KnownInv'
<1>0. PICK c \in Objects : c = call.of
  BY RestOfFrees DEF GpuFree, OwnersInv, TypeInv
<1> DEFINE va == Head(frees)
<1>1. /\ TypeOK /\ RegionInv /\ HoldersInv /\ call # Idle
      /\ call.op \in {"grow", "destroy"} /\ frees # <<>> /\ Freeing
  BY RestOfFrees DEF OwnersInv, TypeInv, GpuFree, Freeing
<1>2. /\ call' = call /\ frees' = Tail(frees) /\ todo' = todo
      /\ status' = status /\ fields' = fields /\ local' = local /\ failures' = failures
      /\ Known' = Known \ {va}
  BY DEF GpuFree, NextFree, owners, Known
<1>3. /\ 1 \in DOMAIN frees /\ frees[1] = va
      /\ Len(frees) \in Nat /\ Len(Tail(frees)) = Len(frees) - 1
      /\ \A i \in DOMAIN Tail(frees) :
            i \in Nat /\ i # 0 /\ i + 1 \in DOMAIN frees /\ Tail(frees)[i] = frees[i + 1]
  BY <1>1, FreesIs
<1>4. CallInv
  BY <1>1 DEF HoldersInv
<1>5. va \in Taken(c)
  <2>1. CASE call.op = "grow"
    BY <1>0, <1>1, <1>4, <2>1 DEF CallInv, Growing, Taken
  <2>2. CASE call.op = "destroy"
    BY <1>0, <1>1, <1>3, <1>4, <2>2 DEF CallInv, Destroying, Waiting
  <2>3. QED
    BY <1>1, <2>1, <2>2
<1>6. ASSUME NEW o \in Objects, ~Excused(o)', o # c
      PROVE  Keeps(o)'
  <2>1. Keeps(o) /\ ~Of(o) /\ ~Of(o)' /\ (Live(o)' => Live(o))
    BY <1>0, <1>2, <1>6 DEF KnownInv, Excused, Of, Live
  <2>2. va \notin Addresses(o)
    BY <1>1, <1>5, <1>6, OneHolder, TakenIs
  <2>3. QED
    BY <1>2, <2>1, <2>2, KeepsKept
<1>7. ASSUME ~Excused(c)' PROVE Keeps(c)'
  <2>1. Keeps(c) /\ Of(c) /\ Of(c)' /\ Addresses(c)' = Addresses(c)
    BY <1>0, <1>1, <1>2, <1>7 DEF KnownInv, Excused, Of, Addresses
  <2>2. CASE call.op = "grow"
    <3>1. frees = <<local[c]>> /\ local[c] # 0 /\ todo # <<>>
      BY <1>0, <1>1, <1>4, <2>2 DEF CallInv, Growing
    <3>2. frees' = <<>> /\ va = local[c]
      BY <1>2, <3>1
    <3>3. Addresses(c) \subseteq Known
      BY <1>1, <2>1, <2>2 DEF Keeps
    <3>4. \A a \in Addresses(c) : a \in Known' \/ a = local'[c]
      BY <1>2, <3>2, <3>3
    <3>5. call'.op = "grow" /\ local'[c] # 0 /\ todo' # <<>>
      BY <1>2, <2>2, <3>1
    <3>6. QED
      BY <2>1, <3>2, <3>4, <3>5 DEF Keeps
  <2>3. CASE call.op = "destroy"
    <3>1. Destroying /\ Kind[c] = "buffer" => Len(frees) <= 1
      BY <1>0, <1>1, <1>4, <2>3 DEF CallInv, Destroying
    <3>2. Waiting' \subseteq Waiting \ {va}
      <4> SUFFICES ASSUME NEW i \in DOMAIN frees' PROVE frees'[i] \in Waiting \ {va}
        BY DEF Waiting
      <4>1. i \in Nat /\ i # 0 /\ i + 1 \in DOMAIN frees /\ frees'[i] = frees[i + 1]
        BY <1>2, <1>3
      <4>2. i + 1 # 1
        BY <4>1
      <4>3. frees[i + 1] # frees[1]
        BY <1>1, <1>3, <1>4, <2>3, <4>1, <4>2 DEF CallInv, Destroying
      <4>4. QED
        BY <1>3, <4>1, <4>3 DEF Waiting
    <3>3. Waiting \cap Addresses(c) \subseteq Known
      BY <2>1, <2>3 DEF Keeps
    <3>4. Waiting' \cap Addresses(c)' \subseteq Known'
      BY <1>2, <2>1, <3>2, <3>3
    <3>5. Kind[c] = "buffer" => frees' = <<>>
      <4> SUFFICES ASSUME Kind[c] = "buffer" PROVE frees' = <<>>
        OBVIOUS
      <4>1. Len(frees) <= 1
        BY <1>0, <1>1, <1>4, <2>3 DEF CallInv, Destroying
      <4>2. Tail(frees) \in Seq(Nat) /\ Len(Tail(frees)) \in Nat /\ Len(Tail(frees)) <= 0
        BY <1>1, <1>3, <4>1, RestOfFrees
      <4>3. QED
        BY <1>2, <4>2, EmptySeq
    <3>6. call'.op = "destroy"
      BY <1>2, <2>3
    <3>7. QED
      BY <2>1, <3>4, <3>5, <3>6 DEF Keeps
  <2>4. QED
    BY <1>1, <2>2, <2>3
<1>8. QED
  BY <1>6, <1>7 DEF KnownInv

\* A call that gives up on a live object has lost it no memory, except that of
\* a module to a fault.
LEMMA KnownGaveUp ==
    ASSUME OwnersInv, KnownInv,
           GaveUp \/ \E new \in Reservation : Wasted(new)
    PROVE  KnownInv'
<1>1. /\ TypeOK /\ HoldersInv /\ call # Idle /\ failures \in Nat
  BY HeadRequest DEF OwnersInv, TypeInv, TypeOK, GaveUp, Wasted, Makes, Freeing, Idle
<1>0. PICK c \in Objects : c = call.of
  BY <1>1 DEF TypeOK, Call
<1>2. /\ Abort /\ UNCHANGED <<va_to_mem_handle, fields, local>>
      /\ \/ call.op \in {"create", "grow"} /\ Fault
         \/ /\ Freeing /\ Kind[c] # "stream"
            /\ Fault \/ (Head(frees) \notin Known /\ UNCHANGED failures)
  BY <1>0, <1>1, HeadRequest DEF GaveUp, Wasted, Makes, memory
<1>3. /\ call' = Idle /\ Known' = Known
      /\ status' = IF call.op = "create" THEN [status EXCEPT ![c] = "lost"] ELSE status
      /\ status \in [Objects -> {"none", "live", "lost", "gone"}]
  BY <1>0, <1>1, <1>2 DEF Abort, Known, TypeOK
<1>4. \A o \in Objects : ~Of(o)' /\ (Live(o)' => Live(o))
  BY <1>3 DEF Of, Live
<1>5. Fault => failures' > 0
  BY <1>1 DEF Fault
<1>6. failures > 0 => failures' > 0
  BY <1>1, <1>2 DEF Fault
<1>7. ASSUME NEW o \in Objects, ~Excused(o)', o # c
      PROVE  Keeps(o)'
  <2>1. Keeps(o) /\ ~Of(o)
    BY <1>0, <1>6, <1>7 DEF KnownInv, Excused, Of
  <2>2. QED
    BY <1>2, <1>3, <1>4, <2>1, KeepsKept
<1>8. ASSUME ~Excused(c)', Live(c)' PROVE Addresses(c)' \subseteq Known'
  <2>1. ~Excused(c) /\ Keeps(c) /\ Of(c)
    BY <1>0, <1>1, <1>6, <1>8 DEF KnownInv, Excused, Of
  <2>2. call.op # "create"
    BY <1>3, <1>8 DEF Live
  <2>3. /\ call.op = "grow" => Kind[c] = "module"
        /\ call.op = "destroy" => Kind[c] \in {"stream", "module", "buffer"}
    BY <1>0, <1>1 DEF HoldersInv, CallInv, Growing, Destroying
  <2>4. Kind[c] = "module" => ~Fault
    BY <1>5, <1>8 DEF Excused
  <2>5. call.op \in {"grow", "destroy"} /\ frees # <<>> /\ Kind[c] # "stream"
    BY <1>2, <2>2, <2>3, <2>4 DEF Freeing
  <2>6. Kind[c] # "module"
    <3> SUFFICES ASSUME Kind[c] = "module" PROVE FALSE
      OBVIOUS
    <3>1. Freeing /\ Head(frees) \notin Known
      BY <1>2, <2>2, <2>4
    <3>2. QED
      BY <1>0, <2>1, <2>5, <3>1, RefusedIs
  <2>7. call.op = "destroy" /\ Kind[c] = "buffer"
    BY <2>3, <2>5, <2>6
  <2>8. Addresses(c) \subseteq Known
    BY <2>1, <2>5, <2>7 DEF Keeps
  <2>9. QED
    BY <1>2, <1>3, <2>8 DEF Addresses
<1>9. QED
  BY <1>4, <1>7, <1>8 DEF KnownInv, Keeps

\* A destructor goes on to the stream's next address.
LEMMA KnownSkipped ==
    ASSUME OwnersInv, KnownInv, Skipped
    PROVE  KnownInv'
<1>0. PICK c \in Objects : c = call.of
  BY RestOfFrees DEF Skipped, OwnersInv, TypeInv
<1>1. /\ TypeOK /\ HoldersInv /\ call # Idle /\ failures \in Nat
      /\ call.op \in {"grow", "destroy"} /\ Freeing /\ Kind[c] = "stream"
  BY <1>0, RestOfFrees DEF OwnersInv, TypeInv, TypeOK, Skipped, Freeing
<1>2. /\ call' = call /\ frees' = Tail(frees) /\ todo' = todo
      /\ status' = status /\ fields' = fields /\ local' = local /\ Known' = Known
  BY DEF Skipped, NextFree, owners, memory, Known
<1>3. call.op = "destroy"
  BY <1>0, <1>1 DEF HoldersInv, CallInv, Growing
<1>4. Waiting' \subseteq Waiting
  BY <1>1, <1>2, FreesIs DEF Waiting
<1>5. failures > 0 => failures' > 0
  BY <1>1 DEF Skipped, Fault
<1>6. ASSUME NEW o \in Objects, ~Excused(o)' PROVE Keeps(o)'
  <2>1. Keeps(o) /\ (Of(o)' <=> Of(o)) /\ (Live(o)' <=> Live(o)) /\ Addresses(o)' = Addresses(o)
    BY <1>2, <1>5, <1>6 DEF KnownInv, Excused, Of, Live, Addresses
  <2>2. Of(o) => Kind[o] # "buffer"
    BY <1>0, <1>1 DEF Of
  <2>3. QED
    BY <1>2, <1>3, <1>4, <2>1, <2>2 DEF Keeps
<1>7. QED
  BY <1>6 DEF KnownInv

LEMMA KnownReturn ==
    ASSUME OwnersInv, KnownInv, call # Idle, Return
    PROVE  KnownInv'
<1>1. TypeOK /\ HoldersInv
  BY DEF OwnersInv, TypeInv
<1>0. PICK c \in Objects : c = call.of
  BY <1>1 DEF TypeOK, Call
<1>2. /\ frees = <<>> /\ todo = <<>>
      /\ fields' = fields /\ local' = local /\ Known' = Known /\ failures' = failures
      /\ status' = [status EXCEPT ![c] = IF call.op = "destroy" THEN "gone" ELSE "live"]
      /\ \/ call' = Idle
         \/ Kind[c] = "context" /\ \E k \in Objects :
               Kind[k] = "kernels" /\ call' = [op |-> "create", of |-> k]
      /\ status \in [Objects -> {"none", "live", "lost", "gone"}]
      /\ call.op \in {"create", "grow", "destroy"}
  BY <1>0, <1>1 DEF Return, memory, Known, TypeOK, Call
<1>3. ASSUME NEW o \in Objects, ~Excused(o)', o # c
      PROVE  Keeps(o)'
  <2>1. Keeps(o) /\ ~Of(o) /\ (Live(o)' => Live(o))
    BY <1>0, <1>2, <1>3 DEF KnownInv, Excused, Of, Live
  <2>2. ASSUME Of(o)' PROVE Addresses(o) = {}
    <3>1. Kind[c] = "context" /\ Kind[o] = "kernels"
      BY <1>2, <2>2 DEF Of
    <3>2. status[o] = "none"
      BY <1>0, <1>1, <3>1 DEF HoldersInv, OnceInv
    <3>3. QED
      BY <1>1, <2>1, <3>2, NoAddresses
  <2>3. QED
    BY <1>2, <2>1, <2>2, KeepsKept
<1>4. ASSUME ~Excused(c)' PROVE Keeps(c)'
  <2>1. Keeps(c) /\ Of(c)
    BY <1>0, <1>2, <1>4 DEF KnownInv, Excused, Of
  <2>2. ~Of(c)'
    <3> SUFFICES ASSUME Of(c)' PROVE FALSE
      OBVIOUS
    <3>1. Kind[c] = "context" /\ Kind[c] = "kernels"
      BY <1>2 DEF Of
    <3>2. QED
      BY <3>1
  <2>3. Live(c)' => call.op # "destroy"
    BY <1>2 DEF Live
  <2>4. call.op # "destroy" => Addresses(c) \subseteq Known
    BY <1>2, <2>1 DEF Keeps
  <2>5. Addresses(c)' = Addresses(c)
    BY <1>2 DEF Addresses
  <2>6. QED
    BY <1>2, <2>2, <2>3, <2>4, <2>5 DEF Keeps
<1>5. QED
  BY <1>3, <1>4 DEF KnownInv

\* What any call begins with: the object is new, or live and between calls.
LEMMA CalledIs ==
    ASSUME NEW o \in Objects, Called(o)
    PROVE  /\ call = Idle /\ UNCHANGED <<memory, fields, local, failures>>
           /\ \/ /\ Kind[o] = "context" /\ call' = Idle
                 /\ status' = [status EXCEPT ![o] = "gone"]
              \/ /\ status' = status /\ call'.of = o
                 /\ \/ call'.op = "create" /\ status[o] = "none"
                    \/ call'.op = "grow" /\ Live(o) /\ frees' = LocalFree(o) /\ todo' = LocalNeeds
                    \/ /\ call'.op = "destroy" /\ Live(o)
                       /\ \/ Kind[o] = "stream" /\ frees' = StreamFrees(o)
                          \/ Kind[o] = "module" /\ frees' = fields[o] \o LocalFree(o)
                          \/ Kind[o] = "buffer" /\ frees' = fields[o]
<1>1. CASE CtxCreate(o)
  BY <1>1 DEF CtxCreate, Begin, owners
<1>2. CASE CtxDestroy(o)
  BY <1>2 DEF CtxDestroy, progress
<1>3. CASE StreamCreate(o)
  BY <1>3 DEF StreamCreate, Begin, owners
<1>4. CASE StreamDestroy(o)
  BY <1>4 DEF StreamDestroy, Begin, owners, Live
<1>5. CASE ModuleLoadData(o)
  BY <1>5 DEF ModuleLoadData, Begin, owners
<1>6. CASE EnsureEnoughLocalMem(o)
  BY <1>6 DEF EnsureEnoughLocalMem, Begin, owners, Live
<1>7. CASE ModuleUnload(o)
  BY <1>7 DEF ModuleUnload, Begin, owners, Live
<1>8. CASE MemFree(o)
  BY <1>8 DEF MemFree, Begin, owners, Live
<1>9. CASE \E size \in BufferSizes, map \in BOOLEAN : MemAlloc(o, size, map)
  BY <1>9 DEF MemAlloc, Begin, owners
<1>10. QED
  BY <1>1, <1>2, <1>3, <1>4, <1>5, <1>6, <1>7, <1>8, <1>9 DEF Called

LEMMA KnownCalled ==
    ASSUME OwnersInv, KnownInv, NEW o \in Objects, Called(o)
    PROVE  KnownInv'
<1>1. /\ TypeOK /\ HoldersInv /\ call = Idle
      /\ fields' = fields /\ local' = local /\ failures' = failures /\ Known' = Known
      /\ status \in [Objects -> {"none", "live", "lost", "gone"}]
  BY CalledIs DEF OwnersInv, TypeInv, memory, Known, TypeOK
<1>2. ASSUME NEW p \in Objects, ~Excused(p)' PROVE Keeps(p)'
  <2>1. /\ Keeps(p) /\ ~Of(p) /\ Addresses(p)' = Addresses(p)
    BY <1>1, <1>2 DEF KnownInv, Excused, Of, Addresses
  <2>2. Live(p)' => Live(p)
    BY <1>1, CalledIs DEF Live
  <2>3. CASE ~Of(p)'
    BY <1>1, <2>1, <2>2, <2>3, KeepsKept
  <2>4. CASE Of(p)' /\ Live(p)
    <3>1. Addresses(p)' \subseteq Known'
      BY <1>1, <2>1, <2>4 DEF Keeps
    <3>2. QED
      BY <2>4, <3>1 DEF Keeps
  <2>5. CASE Of(p)' /\ ~Live(p)
    <3>1. p = o /\ status[o] = "none"
      BY <2>5, CalledIs DEF Of
    <3>2. Addresses(p) = {}
      BY <1>1, <2>1, <3>1, NoAddresses
    <3>3. QED
      BY <1>1, <2>1, <2>2, <3>2, KeepsKept
  <2>6. QED
    BY <2>3, <2>4, <2>5
<1>3. QED
  BY <1>2 DEF KnownInv

LEMMA KnownInit == Init => KnownInv
BY DEF Init, KnownInv, Keeps, Of, Live

LEMMA KnownStep == OwnersInv /\ HoldersInv' /\ KnownInv /\ [Next]_vars => KnownInv'
<1> SUFFICES ASSUME OwnersInv, HoldersInv', KnownInv, [Next]_vars PROVE KnownInv'
  OBVIOUS
<1>1. CASE UNCHANGED vars
  BY <1>1 DEF vars, memory, owners, progress, KnownInv, Excused, Keeps, Live, Of, Known,
              Addresses, Waiting
<1>2. TypeOK
  BY DEF OwnersInv, TypeInv
<1>3. QED
  BY <1>1, <1>2, OwnerSteps, KnownStored, KnownFree, KnownGaveUp, KnownSkipped, KnownReturn,
     KnownCalled

LEMMA OwnersStep == OwnersInv /\ [Next]_vars => OwnersInv'
<1> SUFFICES ASSUME OwnersInv, [Next]_vars PROVE OwnersInv'
  OBVIOUS
<1>1. TypeInv /\ TypeOK /\ RegionInv /\ HandlesInv /\ HoldersInv
  BY DEF OwnersInv, TypeInv
<1>2. QED
  BY <1>1, TypesStep, RegionInvStep, HandlesStep, HoldersStep DEF OwnersInv

LEMMA AlwaysKnown == Spec => [](OwnersInv /\ KnownInv)
<1>1. Init => OwnersInv /\ KnownInv
  BY InitTypes, RegionInvInit, HandlesInit, HoldersInit, KnownInit DEF OwnersInv
<1>2. OwnersInv /\ KnownInv /\ [Next]_vars => OwnersInv' /\ KnownInv'
  <2> SUFFICES ASSUME OwnersInv, KnownInv, [Next]_vars PROVE OwnersInv' /\ KnownInv'
    OBVIOUS
  <2>1. OwnersInv'
    BY OwnersStep
  <2>2. HoldersInv'
    BY <2>1 DEF OwnersInv
  <2>3. QED
    BY <2>1, <2>2, KnownStep
<1>3. QED
  BY <1>1, <1>2, PTL DEF Spec

LEMMA KnownSuffices == OwnersInv /\ KnownInv => OwnersHoldTheirMemory
<1> SUFFICES ASSUME OwnersInv, KnownInv, NEW o \in Objects, Live(o), Quiet(o), ~Excused(o),
                    NEW va \in Addresses(o)
             PROVE  /\ va \in DOMAIN va_to_mem_handle
                    /\ va_to_mem_handle[va] \in allocated
                    /\ \E r \in reserved :
                          r.base = va /\ r.of = o /\ r.handle = va_to_mem_handle[va]
  BY DEF OwnersHoldTheirMemory, Excused
<1>1. TypeOK /\ RegionInv /\ HandlesInv /\ HoldersInv
  BY DEF OwnersInv, TypeInv
<1>2. va \in Known
  BY DEF KnownInv, Keeps, Quiet, Of
<1>3. PICK r \in reserved : r.base = va /\ r.of = o
  BY <1>1, TakenIs
<1>4. PICK t \in reserved : t.base = va /\ t.handle = va_to_mem_handle[va]
  BY <1>1, <1>2 DEF HandlesInv
<1>5. r = t
  BY <1>1, <1>3, <1>4, OneRegionPerAddress
<1>6. QED
  BY <1>1, <1>2, <1>3, <1>4, <1>5 DEF HandlesInv, Known

\* Between calls on it, a live object's fields lead to memory that was made for
\* it and is still there, whatever was freed, refused or failed since; only a
\* module can have lost its own to a failure (libreCuMemAlloc to libreCuMemFree,
\* ensureEnoughLocalMem).
THEOREM LiveObjectsKeepTheirMemory == Spec => []OwnersHoldTheirMemory
BY AlwaysKnown, KnownSuffices, PTL

\* gpuFree is refused for a signal pool or after a failure of a module, and for
\* nothing else: no sequence of calls frees an address twice or one that is
\* another object's.
THEOREM FreesAreRefusedWithReason == Spec => RefusedWithReason
<1>1. OwnersInv /\ KnownInv /\ [Next]_vars =>
          [FreeUnknown => \/ Kind[call.of] = "stream" /\ Head(frees) = fields[call.of][3]
                          \/ Kind[call.of] = "module" /\ failures > 0]_vars
  BY RefusedIs DEF FreeUnknown, Known, Excused
<1>2. QED
  BY <1>1, AlwaysKnown, PTL DEF Spec, RefusedWithReason

-----------------------------------------------------------------------------
(* Without failures, what is allocated belongs to someone: to the context   *)
(* for good, to a stream's pool for good, or to an object that is live or   *)
(* being made, which a call that frees it has yet to get to.                *)

Belongs(r) ==
    \/ Kind[r.of] \in {"context", "kernels"}
    \/ Kind[r.of] = "stream" /\ r.via = "system"
    \/ /\ r.base \in Addresses(r.of)
       /\ Live(r.of) \/ (Of(r.of) /\ call.op = "create")
       /\ Of(r.of) /\ call.op = "destroy" => r.base \in Waiting
       /\ Of(r.of) /\ call.op = "grow" /\ todo # <<>> /\ local[r.of] # 0 /\ r.base = local[r.of]
             => r.base \in Waiting

LostInv == failures = 0 => \A r \in reserved : r.handle \in allocated => Belongs(r)

LEMMA LostStored ==
    ASSUME OwnersInv, HoldersInv', LostInv, NEW new \in Reservation, Stored(new)
    PROVE  LostInv'
<1>0. PICK c \in Objects : c = call.of
  BY HeadRequest DEF Stored, Makes, OwnersInv, TypeInv
<1>1. /\ TypeOK /\ RegionInv /\ HoldersInv /\ HandlesInv /\ call # Idle
      /\ call.op \in {"create", "grow"} /\ Working /\ frees = <<>> /\ todo # <<>>
      /\ fields \in [Objects -> Seq(Nat)] /\ local \in [Objects -> Nat]
      /\ reserved \subseteq Reservation /\ new.base \in Nat /\ made \in Nat
      /\ allocated \subseteq 1..made
  BY HeadRequest DEF OwnersInv, TypeInv, Stored, Makes, TypeOK, Reservation, Working
<1>2. /\ call' = call /\ frees' = frees /\ status' = status /\ failures' = failures
      /\ todo' = Tail(todo)
      /\ reserved' = reserved \cup {new} /\ new.of = c
      /\ new.handle # 0 => new.via \in {"gpu", "system"}
      /\ \/ new.handle = made + 1 /\ allocated' = allocated \cup {made + 1}
         \/ new.handle = 0 /\ allocated' = allocated
  BY <1>0 DEF Stored, Store, Makes, Reserves, MakeObject
<1>3. /\ call.op = "create" => local' = local /\ fields' = [fields EXCEPT ![c] = Append(fields[c], new.base)]
      /\ call.op = "grow" => fields' = fields /\ local' = [local EXCEPT ![c] = new.base]
  BY <1>0, <1>1 DEF Stored, Store
<1>4. call.op = "create" =>
          /\ DOMAIN fields'[c] = DOMAIN fields[c] \cup {Len(fields[c]) + 1}
          /\ \A i \in DOMAIN fields[c] : fields'[c][i] = fields[c][i]
          /\ fields'[c][Len(fields[c]) + 1] = new.base
  <2> SUFFICES ASSUME call.op = "create"
               PROVE  /\ DOMAIN fields'[c] = DOMAIN fields[c] \cup {Len(fields[c]) + 1}
                      /\ \A i \in DOMAIN fields[c] : fields'[c][i] = fields[c][i]
                      /\ fields'[c][Len(fields[c]) + 1] = new.base
    OBVIOUS
  <2>1. fields[c] \in Seq(Nat) /\ new.base \in Nat
    BY <1>1
  <2>2. fields'[c] = Append(fields[c], new.base)
    BY <1>1, <1>3
  <2>3. QED
    BY <2>1, <2>2, FieldsAppend
<1>5. call.op = "grow" => Live(c) /\ Kind[c] = "module" /\ todo' = <<>>
  <2> SUFFICES ASSUME call.op = "grow" PROVE Live(c) /\ Kind[c] = "module" /\ todo' = <<>>
    OBVIOUS
  <2>1. Live(c) /\ Kind[c] = "module" /\ Len(todo) <= 1
    BY <1>0, <1>1 DEF HoldersInv, CallInv, Growing
  <2>2. Tail(todo) \in Seq(Request) /\ Len(Tail(todo)) = Len(todo) - 1 /\ Len(todo) \in Nat
        /\ Len(todo) >= 1
    BY <1>1, TodoIs, HeadRequest
  <2>3. Len(Tail(todo)) = 0
    BY <2>1, <2>2
  <2>4. QED
    BY <1>2, <2>1, <2>2, <2>3, EmptySeq
<1>6. ASSUME failures' = 0, NEW r \in reserved, r.handle \in allocated'
      PROVE  Belongs(r)'
  <2>1. r.handle \in allocated
    <3>1. r.handle <= made /\ r.handle \in Nat
      BY <1>1 DEF HandlesInv, Reservation
    <3>2. QED
      BY <1>1, <1>2, <1>6, <3>1
  <2>2. Belongs(r)
    BY <1>2, <1>6, <2>1 DEF LostInv
  <2>3. CASE r.of # c
    <3>1. fields'[r.of] = fields[r.of] /\ local'[r.of] = local[r.of] /\ ~Of(r.of)' /\ ~Of(r.of)
      <4>1. r.of \in Objects
        BY <1>1 DEF Reservation
      <4>2. ~Of(r.of)' /\ ~Of(r.of)
        BY <1>0, <1>2, <2>3 DEF Of
      <4>3. fields'[r.of] = fields[r.of] /\ local'[r.of] = local[r.of]
        BY <1>1, <1>3, <2>3, <4>1
      <4>4. QED
        BY <4>2, <4>3
    <3>2. Addresses(r.of)' = Addresses(r.of) /\ (Live(r.of)' <=> Live(r.of))
      BY <1>2, <3>1 DEF Addresses, Live
    <3>3. QED
      BY <2>2, <3>1, <3>2 DEF Belongs
  <2>4. CASE r.of = c /\ call.op = "create"
    <3>1. Addresses(c) \subseteq Addresses(c)'
      BY <1>3, <1>4, <2>4 DEF Addresses
    <3>2. call'.op = "create" /\ Of(c)'
      BY <1>0, <1>1, <1>2, <2>4 DEF Of
    <3>3. QED
      BY <2>2, <2>4, <3>1, <3>2 DEF Belongs
  <2>5. CASE r.of = c /\ call.op = "grow"
    <3>1. Kind[c] = "module" /\ Of(c) /\ Live(c) /\ Live(c)'
      BY <1>0, <1>1, <1>2, <1>5, <2>5 DEF Of, Live
    <3>2. r.base \in Addresses(c) /\ (local[c] # 0 => r.base # local[c])
      BY <1>1, <2>2, <2>5, <3>1 DEF Belongs, Waiting
    <3>3. r.base \in Addresses(c)'
      BY <1>3, <2>5, <3>2 DEF Addresses
    <3>4. call'.op = "grow" /\ todo' = <<>>
      BY <1>2, <1>5, <2>5
    <3>5. QED
      BY <2>5, <3>1, <3>3, <3>4 DEF Belongs
  <2>6. QED
    BY <1>1, <2>3, <2>4, <2>5
<1>7. ASSUME new.handle \in allocated' PROVE Belongs(new)'
  <2>1. new.via \in {"gpu", "system"}
    BY <1>1, <1>2, <1>7
  <2>2. CASE call.op = "grow"
    <3>1. new.base \in Addresses(c)'
      <4>1. HeapStart <= new.base /\ HeapStart \in Nat /\ HeapStart # 0
        BY <1>1, NewIsBeyond, SizeAssumption DEF Stored, Makes, Positive
      <4>2. local'[c] = new.base /\ new.base # 0
        BY <1>1, <1>3, <2>2, <4>1
      <4>3. QED
        BY <4>2 DEF Addresses
    <3>2. Live(c)' /\ call'.op = "grow" /\ todo' = <<>>
      BY <1>2, <1>5, <2>2 DEF Live
    <3>3. QED
      BY <1>2, <3>1, <3>2 DEF Belongs
  <2>3. CASE call.op = "create"
    <3> DEFINE n == Len(fields[c]) + 1
    <3>1. \E r \in reserved' : r.base = new.base /\ (r.via = "gpu" <=> ~SystemField(c, n))
      <4>1. n \in DOMAIN fields'[c] /\ fields'[c][n] = new.base
        BY <1>4, <2>3
      <4>2. QED
        BY <4>1 DEF HoldersInv, Holds, FieldsHold, SystemField
    <3>2. \A r \in reserved : r.base # new.base
      <4> TAKE r \in reserved
      <4>1. r.base < new.base /\ r.base \in Nat
        BY <1>1, NewIsBeyond DEF Stored, Makes, Reservation
      <4>2. QED
        BY <1>1, <4>1
    <3>3. new.via = "gpu" <=> ~SystemField(c, n)
      BY <1>2, <3>1, <3>2
    <3>4. call'.op = "create" /\ Of(c)'
      BY <1>0, <1>1, <1>2, <2>3 DEF Of
    <3>5. CASE new.via = "gpu"
      <4>1. new.base \in Addresses(c)'
        BY <1>4, <2>3, <3>3, <3>5 DEF Addresses, SystemField
      <4>2. QED
        BY <1>2, <3>4, <4>1 DEF Belongs
    <3>6. CASE new.via = "system"
      <4>1. Kind[c] \in {"context", "stream"}
        BY <3>3, <3>6, SystemFieldsAre DEF Kinds
      <4>2. QED
        BY <1>2, <3>6, <4>1 DEF Belongs
    <3>7. QED
      BY <2>1, <3>5, <3>6
  <2>4. QED
    BY <1>1, <2>2, <2>3
<1>8. QED
  BY <1>2, <1>6, <1>7 DEF LostInv

\* All but the first address are still to be freed.
LEMMA WaitingRest ==
    ASSUME TypeOK, Freeing, frees' = Tail(frees)
    PROVE  \A a \in Waiting : a # Head(frees) => a \in Waiting'
<1> SUFFICES ASSUME NEW i \in DOMAIN frees, frees[i] # Head(frees)
             PROVE  frees[i] \in Waiting'
  BY DEF Waiting
<1>1. frees \in Seq(Nat) /\ frees # <<>> /\ DOMAIN frees = 1..Len(frees) /\ frees[1] = Head(frees)
      /\ Len(frees) \in Nat
  BY FreesIs DEF TypeOK, Freeing
<1>2. i \in 1..Len(frees) /\ i # 1
  BY <1>1
<1>3. /\ Tail(frees) \in Seq(Nat) /\ Len(Tail(frees)) = Len(frees) - 1
      /\ \A k \in 1..Len(Tail(frees)) : Tail(frees)[k] = frees[k + 1]
  BY <1>1, HeadTailProperties
<1>4. DOMAIN Tail(frees) = 1..(Len(frees) - 1)
  BY <1>3, LenProperties
<1>5. i - 1 \in 1..(Len(frees) - 1) /\ (i - 1) + 1 = i
  BY <1>1, <1>2
<1>6. i - 1 \in DOMAIN Tail(frees) /\ Tail(frees)[i - 1] = frees[i]
  BY <1>3, <1>4, <1>5
<1>7. QED
  BY <1>6 DEF Waiting

LEMMA LostFree ==
    ASSUME OwnersInv, LostInv, GpuFree
    PROVE  LostInv'
<1>0. PICK c \in Objects : c = call.of
  BY RestOfFrees DEF GpuFree, OwnersInv, TypeInv
<1> DEFINE va == Head(frees)
<1>1. /\ TypeOK /\ RegionInv /\ HoldersInv /\ HandlesInv /\ call # Idle /\ Freeing
  BY RestOfFrees DEF OwnersInv, TypeInv, GpuFree
<1>2. /\ call' = call /\ frees' = Tail(frees) /\ todo' = todo
      /\ status' = status /\ fields' = fields /\ local' = local /\ failures' = failures
      /\ reserved' = reserved /\ va \in Known
      /\ allocated' = allocated \ {va_to_mem_handle[va]}
  BY DEF GpuFree, NextFree, owners, Known
<1>3. \A a \in Waiting : a # va => a \in Waiting'
  BY <1>1, <1>2, WaitingRest
<1>4. ASSUME failures' = 0, NEW r \in reserved, r.handle \in allocated'
      PROVE  Belongs(r)'
  <2>1. r.handle \in allocated /\ r.handle # va_to_mem_handle[va]
    BY <1>2, <1>4
  <2>2. Belongs(r)
    BY <1>2, <1>4, <2>1 DEF LostInv
  <2>3. r.base # va
    <3>1. PICK t \in reserved : t.base = va /\ t.handle = va_to_mem_handle[va]
      BY <1>1, <1>2 DEF HandlesInv
    <3>2. QED
      BY <1>1, <2>1, <3>1, OneRegionPerAddress
  <2>4. r.base \in Waiting => r.base \in Waiting'
    BY <1>3, <2>3
  <2>5. Addresses(r.of)' = Addresses(r.of) /\ (Live(r.of)' <=> Live(r.of)) /\ (Of(r.of)' <=> Of(r.of))
    BY <1>2 DEF Addresses, Live, Of
  <2>6. call'.op = call.op /\ todo' = todo /\ local' = local
    BY <1>2
  <2>7. QED
    BY <2>2, <2>4, <2>5, <2>6, Zenon DEF Belongs
<1>5. QED
  BY <1>2, <1>4 DEF LostInv

\* Without a failure nothing but a stream's destructor is refused anything.
LEMMA LostGaveUp ==
    ASSUME OwnersInv, KnownInv, GaveUp \/ \E new \in Reservation : Wasted(new)
    PROVE  LostInv'
<1> SUFFICES ASSUME failures' = 0 PROVE FALSE
  BY DEF LostInv
<1>1. failures \in Nat
  BY DEF OwnersInv, TypeInv, TypeOK
<1>2. ~Fault
  BY <1>1 DEF Fault
<1>3. /\ Freeing /\ Kind[call.of] # "stream"
      /\ Head(frees) \notin Known /\ failures = 0
  BY <1>2 DEF GaveUp, Wasted
<1>4. QED
  BY <1>1, <1>3, RefusedIs DEF Excused

LEMMA LostSkipped ==
    ASSUME OwnersInv, KnownInv, LostInv, Skipped
    PROVE  LostInv'
<1>0. PICK c \in Objects : c = call.of
  BY RestOfFrees DEF Skipped, OwnersInv, TypeInv
<1> DEFINE va == Head(frees)
<1>1. /\ TypeOK /\ StreamFieldsOK /\ RegionInv /\ HoldersInv /\ call # Idle /\ Freeing
      /\ failures \in Nat /\ call.op \in {"grow", "destroy"} /\ Kind[c] = "stream"
      /\ fields \in [Objects -> Seq(Nat)]
  BY <1>0, RestOfFrees DEF OwnersInv, TypeInv, TypeOK, Skipped, Freeing
<1>2. /\ call' = call /\ frees' = Tail(frees) /\ todo' = todo
      /\ status' = status /\ fields' = fields /\ local' = local
      /\ reserved' = reserved /\ allocated' = allocated
  BY DEF Skipped, NextFree, owners, memory
<1>3. \A a \in Waiting : a # va => a \in Waiting'
  BY <1>1, <1>2, WaitingRest
<1>4. ASSUME failures' = 0, NEW r \in reserved, r.handle \in allocated
      PROVE  Belongs(r)'
  <2>1. ~Fault
    BY <1>1, <1>4 DEF Fault
  <2>2. va \notin Known /\ failures = 0
    BY <1>4, <2>1 DEF Skipped
  <2>3. va = fields[c][3]
    BY <1>0, <1>1, <2>2, RefusedIs DEF Excused
  <2>4. Belongs(r)
    BY <1>4, <2>2 DEF LostInv
  <2>5. r.of = c /\ r.base = va => r.via # "gpu"
    <3> SUFFICES ASSUME r.base = va PROVE r.via # "gpu"
      OBVIOUS
    <3>1. Live(c)
      BY <1>0, <1>1 DEF HoldersInv, CallInv, Growing, Destroying
    <3>2. fields[c] \in Seq(Nat) /\ Len(fields[c]) = 4
      BY <1>1, <3>1 DEF StreamFieldsOK
    <3>3. 3 \in DOMAIN fields[c]
      BY <3>2
    <3>4. SystemField(c, 3)
      BY <1>1, SystemFieldsAre
    <3>5. PICK t \in reserved : t.base = fields[c][3] /\ t.via # "gpu"
      <4>1. FieldsHold(c)
        BY <1>1 DEF HoldersInv, Holds
      <4>2. QED
        BY <3>3, <3>4, <4>1 DEF FieldsHold
    <3>6. t = r
      BY <1>1, <2>3, <3>5, OneRegionPerAddress
    <3>7. QED
      BY <3>5, <3>6
  <2>6. r.base \in Addresses(r.of) => \E t \in reserved : t.base = r.base /\ t.via = "gpu"
    BY <1>1, TakenIs DEF TypeOK, Reservation
  <2>7. r.of = c /\ r.base \in Addresses(c) => r.base # va
    BY <1>1, <2>5, <2>6, OneRegionPerAddress
  <2>8. Addresses(r.of)' = Addresses(r.of) /\ (Live(r.of)' <=> Live(r.of)) /\ (Of(r.of)' <=> Of(r.of))
    BY <1>2 DEF Addresses, Live, Of
  <2>9. call'.op = call.op /\ todo' = todo /\ local' = local /\ (Of(r.of) => r.of = c)
    BY <1>0, <1>2 DEF Of
  <2>10. /\ r.base \in Addresses(r.of) /\ Of(r.of) /\ r.base \in Waiting => r.base \in Waiting'
    BY <1>3, <2>7, <2>9
  <2>11. QED
    BY <2>4, <2>8, <2>9, <2>10, Zenon DEF Belongs
<1>5. QED
  BY <1>2, <1>4 DEF LostInv

LEMMA LostReturn ==
    ASSUME OwnersInv, LostInv, call # Idle, Return
    PROVE  LostInv'
<1>1. TypeOK
  BY DEF OwnersInv, TypeInv
<1>0. PICK c \in Objects : c = call.of
  BY <1>1 DEF TypeOK, Call
<1>2. /\ frees = <<>> /\ todo = <<>>
      /\ fields' = fields /\ local' = local /\ failures' = failures
      /\ reserved' = reserved /\ allocated' = allocated
      /\ status' = [status EXCEPT ![c] = IF call.op = "destroy" THEN "gone" ELSE "live"]
      /\ \/ call' = Idle
         \/ \E k \in Objects :
               Kind[k] = "kernels" /\ call' = [op |-> "create", of |-> k]
      /\ status \in [Objects -> {"none", "live", "lost", "gone"}]
      /\ call.op \in {"create", "grow", "destroy"} /\ Waiting = {}
  BY <1>0, <1>1 DEF Return, memory, TypeOK, Call, Waiting
<1>3. ASSUME failures' = 0, NEW r \in reserved, r.handle \in allocated
      PROVE  Belongs(r)'
  <2>1. Belongs(r)
    BY <1>2, <1>3 DEF LostInv
  <2>2. CASE Kind[r.of] \in {"context", "kernels"} \/ (Kind[r.of] = "stream" /\ r.via = "system")
    BY <2>2 DEF Belongs
  <2>3. CASE ~(Kind[r.of] \in {"context", "kernels"} \/ (Kind[r.of] = "stream" /\ r.via = "system"))
    <3>1. /\ r.base \in Addresses(r.of)
          /\ Live(r.of) \/ Of(r.of)
          /\ ~(Of(r.of) /\ call.op = "destroy")
      BY <1>2, <2>1, <2>3 DEF Belongs
    <3>2. ~Of(r.of)'
      BY <1>2, <2>3 DEF Of
    <3>3. Live(r.of)'
      <4>1. CASE r.of = c
        BY <1>0, <1>2, <3>1, <4>1 DEF Live, Of
      <4>2. CASE r.of # c
        BY <1>0, <1>2, <3>1, <4>2 DEF Live, Of
      <4>3. QED
        BY <4>1, <4>2
    <3>4. r.base \in Addresses(r.of)'
      BY <1>2, <3>1 DEF Addresses
    <3>5. QED
      BY <3>2, <3>3, <3>4 DEF Belongs
  <2>4. QED
    BY <2>2, <2>3
<1>4. QED
  BY <1>2, <1>3 DEF LostInv

\* A call that frees an object frees all of its memory that gpuAlloc made.
LEMMA LostCalled ==
    ASSUME OwnersInv, LostInv, NEW o \in Objects, Called(o)
    PROVE  LostInv'
<1>1. /\ TypeInv /\ TypeOK /\ call = Idle
      /\ fields' = fields /\ local' = local /\ failures' = failures
      /\ reserved' = reserved /\ allocated' = allocated
      /\ status \in [Objects -> {"none", "live", "lost", "gone"}]
  BY CalledIs DEF OwnersInv, TypeInv, memory, TypeOK
<1>2. ASSUME failures' = 0, NEW r \in reserved, r.handle \in allocated
      PROVE  Belongs(r)'
  <2>1. Belongs(r)
    BY <1>1, <1>2 DEF LostInv
  <2>2. CASE Kind[r.of] \in {"context", "kernels"} \/ (Kind[r.of] = "stream" /\ r.via = "system")
    BY <2>2 DEF Belongs
  <2>3. CASE ~(Kind[r.of] \in {"context", "kernels"} \/ (Kind[r.of] = "stream" /\ r.via = "system"))
    <3>1. r.base \in Addresses(r.of) /\ Live(r.of)
      BY <1>1, <2>1, <2>3 DEF Belongs, Of
    <3>2. r.base \in Addresses(r.of)' /\ r.of \in Objects
      BY <1>1, <3>1 DEF Addresses, TypeOK, Reservation
    <3>3. CASE r.of # o
      <4>1. ~Of(r.of)'
        BY <1>1, <3>3, CalledIs DEF Of
      <4>2. Live(r.of)'
        BY <1>1, <3>1, <3>2, <3>3, CalledIs DEF Live
      <4>3. QED
        BY <3>2, <4>1, <4>2 DEF Belongs
    <3>4. CASE r.of = o
      <4>1. /\ status' = status /\ Kind[o] \notin {"context", "kernels"}
            /\ \/ call'.op = "grow" /\ frees' = LocalFree(o)
               \/ /\ call'.op = "destroy"
                  /\ \/ Kind[o] = "stream" /\ frees' = StreamFrees(o)
                     \/ Kind[o] = "module" /\ frees' = fields[o] \o LocalFree(o)
                     \/ Kind[o] = "buffer" /\ frees' = fields[o]
        BY <2>3, <3>1, <3>4, CalledIs DEF Live
      <4>2. Live(o)'
        BY <3>1, <3>4, <4>1 DEF Live
      <4>3. CASE call'.op = "grow"
        <5>1. local[o] # 0 => local[o] \in Waiting'
          <6> SUFFICES ASSUME local[o] # 0 PROVE local[o] \in Waiting'
            OBVIOUS
          <6>1. frees' = <<local[o]>>
            BY <4>1, <4>3 DEF LocalFree
          <6>2. 1 \in DOMAIN frees' /\ frees'[1] = local[o]
            BY <6>1
          <6>3. QED
            BY <6>2 DEF Waiting
        <5>2. QED
          BY <1>1, <3>2, <3>4, <4>2, <4>3, <5>1 DEF Belongs
      <4>4. CASE call'.op = "destroy"
        <5>1. Addresses(o) \subseteq Waiting'
          <6>1. CASE Kind[o] = "stream" /\ frees' = StreamFrees(o)
            <7>1. /\ DOMAIN fields[o] = 1..4 /\ DOMAIN StreamFrees(o) = 1..4
                  /\ StreamFrees(o)[1] = fields[o][3] /\ StreamFrees(o)[2] = fields[o][1]
                  /\ StreamFrees(o)[3] = fields[o][2] /\ StreamFrees(o)[4] = fields[o][4]
              BY <1>1, <3>1, <3>4, <6>1, StreamFreesAre
            <7>2. local[o] = 0
              BY <6>1 DEF OwnersInv, HoldersInv, Holds, LocalHold
            <7>3. \A i \in 1..4 : fields[o][i] \in Waiting'
              <8>1. \A i \in 1..4 : i = 1 \/ i = 2 \/ i = 3 \/ i = 4
                OBVIOUS
              <8>2. 1 \in 1..4 /\ 2 \in 1..4 /\ 3 \in 1..4 /\ 4 \in 1..4
                OBVIOUS
              <8>3. \A i \in 1..4 : StreamFrees(o)[i] \in Waiting'
                BY <6>1, <7>1 DEF Waiting
              <8>4. QED
                BY <7>1, <8>1, <8>2, <8>3
            <7>4. QED
              BY <7>1, <7>2, <7>3 DEF Addresses
          <6>2. CASE Kind[o] = "module" /\ frees' = fields[o] \o LocalFree(o)
            <7> DEFINE m == fields[o] \o LocalFree(o)
                       n == Len(fields[o])
            <7>1. /\ n \in Nat /\ DOMAIN fields[o] = 1..n
                  /\ \A i \in 1..n : i \in DOMAIN m /\ m[i] = fields[o][i]
                  /\ local[o] # 0 => DOMAIN m = 1..(n + 1) /\ m[n + 1] = local[o]
              BY <1>1, ModuleFreesAre, Zenon
            <7>2. frees' = m
              BY <6>2
            <7> HIDE DEF m, n
            <7>3. n + 1 \in 1..(n + 1)
              BY <7>1
            <7>4. \A i \in 1..n : fields[o][i] \in Waiting'
              BY <7>1, <7>2 DEF Waiting
            <7>5. local[o] # 0 => local[o] \in Waiting'
              BY <7>1, <7>2, <7>3 DEF Waiting
            <7>6. QED
              BY <7>1, <7>4, <7>5 DEF Addresses
          <6>3. CASE Kind[o] = "buffer" /\ frees' = fields[o]
            <7>1. local[o] = 0
              BY <6>3 DEF OwnersInv, HoldersInv, Holds, LocalHold
            <7>2. QED
              BY <6>3, <7>1 DEF Addresses, Waiting
          <6>4. QED
            BY <4>1, <4>4, <6>1, <6>2, <6>3
        <5>2. QED
          BY <3>1, <3>2, <3>4, <4>2, <4>4, <5>1 DEF Belongs
      <4>5. QED
        BY <4>1, <4>3, <4>4
    <3>5. QED
      BY <3>3, <3>4
  <2>4. QED
    BY <2>2, <2>3
<1>3. QED
  BY <1>1, <1>2 DEF LostInv

LEMMA LostInit == Init => LostInv
BY DEF Init, LostInv

LEMMA LostStep == OwnersInv /\ KnownInv /\ LostInv /\ [Next]_vars /\ HoldersInv' => LostInv'
<1> SUFFICES ASSUME OwnersInv, KnownInv, LostInv, [Next]_vars, HoldersInv' PROVE LostInv'
  OBVIOUS
<1>1. CASE UNCHANGED vars
  BY <1>1 DEF vars, memory, owners, progress, LostInv, Belongs, Live, Of, Addresses, Waiting
<1>2. TypeOK
  BY DEF OwnersInv, TypeInv
<1>3. QED
  BY <1>1, <1>2, OwnerSteps, LostStored, LostFree, LostGaveUp, LostSkipped, LostReturn, LostCalled

LEMMA LostSuffices == LostInv => NothingLost
<1> SUFFICES ASSUME LostInv, call = Idle, failures = 0, NEW r \in reserved, r.handle \in allocated
             PROVE  \/ Kind[r.of] \in {"context", "kernels"}
                    \/ Kind[r.of] = "stream" /\ r.via = "system"
                    \/ Live(r.of) /\ r.base \in Addresses(r.of)
  BY DEF NothingLost
<1>1. QED
  BY DEF LostInv, Belongs, Of

\* As long as no ioctl fails, a process that destroys what it created keeps no
\* memory but its context's and the signal pools of its streams, in whatever
\* order it creates, launches with growing local memory, and destroys.
THEOREM NoMemoryIsLost == Spec => []NothingLost
<1>1. OwnersInv /\ KnownInv /\ LostInv /\ [Next]_vars => LostInv'
  <2>1. OwnersInv /\ [Next]_vars => HoldersInv'
    BY OwnersStep DEF OwnersInv
  <2>2. QED
    BY <2>1, LostStep
<1>2. Spec => []LostInv
  BY <1>1, LostInit, AlwaysKnown, PTL DEF Spec
<1>3. QED
  BY <1>2, LostSuffices, PTL
=============================================================================
