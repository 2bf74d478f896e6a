---------------------------- MODULE ModuleLoader ----------------------------
(***************************************************************************)
(* libreCuModuleLoadData of driverapi/src/librecuda.cpp and the kernel     *)
(* arguments launchFunction makes from what it found: the sections of a    *)
(* cubin are placed in an image, read one by one for what launches need,   *)
(* and the relocations are applied to the image before it is uploaded.     *)
(* Names are what the code reads from them: a section's role and function. *)
(***************************************************************************)
EXTENDS Naturals, FiniteSets, Sequences

CONSTANTS
    Functions,      \* names of kernels
    NoFunction,     \* the name "" of constants that belong to none
    Images,         \* Seq(Section): cubins programs load
    Bases,          \* addresses gpuAlloc may return
    Align,          \* force_section_align
    Page,           \* 0x1000
    Half,           \* 2^32
    Modulus,        \* 2^64: size_t
    EntrySize,      \* e_shentsize of an ELF file
    LocalBase,      \* 0x240: local memory beyond a function's stack
    ParamBase,      \* sizeof(constbuf0_data)
    ArgAlign        \* 1 << 8: what the argument page is rounded to

Attribute == [attr : {"param", "total", "skip", "exit", "end", "unknown"}, index : Nat, value : Nat]
Stack == [fn : Functions, value : Nat]
Relocation == [at : Nat, symbol : STRING, value : Nat, kind : {"64", "lo", "hi", "other"}]
Section == [name : STRING,
            type : {"PROGBITS", "NOBITS", "REL", "OTHER"},
            role : {"text", "constant", "shared", "stack", "info", "none"},
            fn : Functions \cup {NoFunction}, nr : Nat, target : STRING,
            addr : Nat, size : Nat, align : Nat, items : Seq(Attribute) \cup Seq(Relocation) \cup Seq(Stack)]

\* What a section holds follows from its type and name.
Shaped(s) ==
    /\ s.type = "REL" => s.items \in Seq(Relocation)
    /\ s.role = "info" => s.items \in Seq(Attribute)
    /\ s.role = "stack" => s.items \in Seq(Stack)
    /\ s.role = "text" => s.fn \in Functions

ASSUME ImageAssumption ==
    \A cubin \in Images : cubin \in Seq(Section) /\ \A k \in DOMAIN cubin : Shaped(cubin[k])
ASSUME NumberAssumption ==
    /\ Bases \subseteq Nat
    /\ {Align, Page, Half, ArgAlign} \subseteq Nat \ {0}
    /\ Modulus = Half * Half
    /\ {EntrySize, LocalBase, ParamBase} \subseteq Nat

VARIABLES
    at,         \* the step of the call
    image,      \* elf_reader.sections
    i,          \* the section, or relocation, of the loop
    address,    \* get_address of each section
    size,       \* image_data.size()
    va, room,   \* module_gpu_va, allocated_size
    relocs,     \* Seq: relocations of the image
    facts,      \* the maps from function names
    functions,  \* [names -> what a launch needs], <<>> before
    cells,      \* [offset -> 32 bits]: what relocations wrote
    gpu,        \* cells, as uploaded
    args        \* the function last launched, and its page: [offset -> word]

vars == <<at, image, i, address, size, va, room, relocs, facts, functions, cells, gpu, args>>

Names == Functions \cup {NoFunction}
Constant == [nr : Nat, address : Nat, size : Nat]
Param == [index : Nat, offset : Nat]

CeilDiv(a, b) == (a + b - 1) \div b
LargestOf(S) == CHOOSE n \in S : \A m \in S : m <= n
Overwrite(f, g) == [x \in DOMAIN f \cup DOMAIN g |-> IF x \in DOMAIN g THEN g[x] ELSE f[x]]

\* Every variable holds what its declaration says (librecuda.cpp:953-1033).
TypeOK ==
    /\ at \in {"idle", "place", "alloc", "scan", "finish", "relocate", "loaded", "failed"}
    /\ i \in Nat /\ size \in Nat /\ va \in Nat /\ room \in Nat
    /\ address \in Seq(Nat) /\ Len(address) = Len(image)
    /\ relocs \in Seq([at : Nat, to : Nat, kind : {"64", "lo", "hi", "other"}])
    /\ facts.names \subseteq Functions
    /\ facts.shared \in [Names -> Nat] /\ facts.local \in [Names -> Nat]
    /\ facts.constants \in [Names -> Seq(Constant)]
    /\ facts.params \in [Names -> Seq(Param)] /\ facts.total \in [Names -> Nat]
    /\ DOMAIN cells \subseteq Nat /\ \A x \in DOMAIN cells : cells[x] \in 0..(Half - 1)
    /\ DOMAIN gpu \subseteq DOMAIN cells
    /\ args.fn \in Names

NoFacts == [names |-> {}, text |-> [f \in Names |-> [address |-> 0, size |-> 0]],
            shared |-> [f \in Names |-> 0], local |-> [f \in Names |-> 0],
            constants |-> [f \in Names |-> <<>>], params |-> [f \in Names |-> <<>>],
            total |-> [f \in Names |-> 0]]

Init ==
    /\ at = "idle" /\ image = <<>> /\ i = 1 /\ address = <<>> /\ size = 0
    /\ va = 0 /\ room = 0 /\ relocs = <<>> /\ facts = NoFacts
    /\ functions = <<>> /\ cells = <<>> /\ gpu = <<>>
    /\ args = [fn |-> NoFunction, page |-> <<>>]

-----------------------------------------------------------------------------
(* The image.                                                              *)

Fixed(s) == s.type = "PROGBITS" /\ s.addr # 0

\* The call: room for the sections with an address of their own.
LoadData(img) ==
    /\ at = "idle" /\ at' = "place"
    /\ image' = img /\ i' = 1
    /\ address' = [k \in DOMAIN img |-> img[k].addr]
    /\ size' = LargestOf({0} \cup
          {img[k].addr + img[k].size : k \in {j \in DOMAIN img : Fixed(img[j])}})
    /\ UNCHANGED <<va, room, relocs, facts, functions, cells, gpu, args>>

PaddingSign(align, n) == n % align                             \* mutant
\* In size_t, which wraps.
Padding(align, n) == ((Modulus + align - n) % Modulus) % align

PlaceSection ==
    /\ at = "place" /\ i <= Len(image)
    /\ LET s == image[i]
           start == size + Padding(LargestOf({s.align, Align}), size)
       IN  IF s.type = "PROGBITS" /\ ~Fixed(s)
           THEN address' = [address EXCEPT ![i] = start] /\ size' = start + s.size
           ELSE UNCHANGED <<address, size>>
    /\ i' = i + 1
    /\ UNCHANGED <<at, image, va, room, relocs, facts, functions, cells, gpu, args>>

Room(n) == CeilDiv(n, Page) * Page + Page

Alloc ==
    /\ at = "place" /\ i > Len(image)
    /\ i' = 1
    /\ \/ at' = "scan" /\ va' \in Bases /\ room' = Room(size)
       \/ at' = "failed" /\ UNCHANGED <<va, room>>
    /\ UNCHANGED <<image, address, size, relocs, facts, functions, cells, gpu, args>>

-----------------------------------------------------------------------------
(* The scan of the sections.                                               *)

Named(name) == {k \in DOMAIN image : image[k].name = name}

FileAddress(name) ==                                           \* mutant
    IF Named(name) = {} THEN 0 ELSE image[CHOOSE k \in Named(name) : TRUE].addr
\* The first section of that name.
First(S) == CHOOSE k \in S : \A j \in S : k <= j
AddressOf(name) == IF Named(name) = {} THEN 0 ELSE address[First(Named(name))]

Relocs(s) ==
    [k \in DOMAIN s.items |->
        [at   |-> AddressOf(s.target) + s.items[k].at,
         to   |-> AddressOf(s.items[k].symbol) + s.items[k].value,
         kind |-> s.items[k].kind]]

ConstantLast(list, c) == Append(list, c)                       \* mutant
\* Bank 0 goes to the front.
AddConstant(list, c) == IF c.nr = 0 THEN <<c>> \o list ELSE Append(list, c)

\* The attributes up to the one that ends them.
Before(items) ==
    LET stop == {k \in DOMAIN items : items[k].attr \in {"exit", "end"}}
    IN  IF stop = {} THEN items
        ELSE SubSeq(items, 1, First(stop) - 1)
Unknown(s) == s.role = "info" /\ \E k \in DOMAIN Before(s.items) : Before(s.items)[k].attr = "unknown"

Where(s, attr) == {k \in DOMAIN Before(s.items) : Before(s.items)[k].attr = attr}
Nth(S, n) == CHOOSE k \in S : Cardinality({j \in S : j < k}) = n - 1

Params(s) ==
    [n \in 1..Cardinality(Where(s, "param")) |->
        LET item == s.items[Nth(Where(s, "param"), n)]
        IN  [index |-> item.index, offset |-> item.value]]
Total(s, old) ==
    IF Where(s, "total") = {} THEN old ELSE s.items[LargestOf(Where(s, "total"))].value

Entries(s, g) == {s.items[k] : k \in {j \in DOMAIN s.items : s.items[j].fn = g}}

\* What one section says of its function.  The shared memory is not the
\* section's size but that of an entry of the file's section table.
Learn(s) ==
    LET f == s.fn
        here == va + address[i]
    IN  CASE s.role = "text" ->
                [facts EXCEPT !.names = @ \cup {f},
                              !.text[f] = [address |-> here, size |-> s.size]]
          [] s.role = "constant" ->
                [facts EXCEPT !.constants[f] =
                    AddConstant(@, [nr |-> s.nr, address |-> here, size |-> s.size])]
          [] s.role = "shared" -> [facts EXCEPT !.shared[f] = EntrySize]
          [] s.role = "stack" -> [facts EXCEPT !.local = [g \in Names |->
                LargestOf({@[g]} \cup {e.value + LocalBase : e \in Entries(s, g)})]]
          [] s.role = "info" ->
                [facts EXCEPT !.params[f] = @ \o Params(s), !.total[f] = Total(s, @)]
          [] OTHER -> facts

Scan ==
    /\ at = "scan" /\ i <= Len(image)
    /\ LET s == image[i]
       IN  /\ relocs' = IF s.type = "REL" THEN relocs \o Relocs(s) ELSE relocs
           /\ IF Unknown(s)
              THEN at' = "failed" /\ facts' = facts
              ELSE at' = at /\ facts' = Learn(s)
    /\ i' = i + 1
    /\ UNCHANGED <<image, address, size, va, room, functions, cells, gpu, args>>

-----------------------------------------------------------------------------
(* What launches need.                                                     *)

AsFound(params) == params                                      \* mutant
InOrderOfIndex(params) ==
    [k \in DOMAIN params |->
        params[CHOOSE p \in DOMAIN params :
            Cardinality({q \in DOMAIN params : params[q].index < params[p].index}) = k - 1]]

\* A parameter reaches to the next one, the last to the end.
Sized(params, total) ==
    [k \in DOMAIN params |->
        [offset |-> params[k].offset,
         size   |-> ((IF k < Len(params) THEN params[k + 1].offset ELSE total)
                       + Modulus - params[k].offset) % Modulus]]

\* The constants of no function go to every function that has some.
AllConstants(f) ==
    IF facts.constants[f] = <<>> THEN <<>> ELSE facts.constants[f] \o facts.constants[NoFunction]

Finish ==
    /\ at = "scan" /\ i > Len(image)
    /\ at' = "relocate" /\ i' = 1
    /\ functions' = [f \in facts.names |->
          [text |-> facts.text[f], shared |-> facts.shared[f], local |-> facts.local[f],
           constants |-> AllConstants(f),
           params |-> Sized(InOrderOfIndex(facts.params[f]), facts.total[f])]]
    /\ UNCHANGED <<image, address, size, va, room, relocs, facts, cells, gpu, args>>

-----------------------------------------------------------------------------
(* The relocations and the upload.                                         *)

LowUncut(v) == v                                               \* mutant
Low(v) == v % Half

Written(r) ==
    LET low == Low(va + r.to)
        high == ((va + r.to) % Modulus) \div Half
    IN  CASE r.kind = "64" -> [x \in {r.at, r.at + 4} |-> IF x = r.at THEN low ELSE high]
          [] r.kind = "lo" -> [x \in {r.at + 4} |-> low]
          [] r.kind = "hi" -> [x \in {r.at + 4} |-> high]
          [] OTHER -> <<>>

\* pModule has been set when a relocation is refused.
Relocate ==
    /\ at = "relocate" /\ i <= Len(relocs)
    /\ IF relocs[i].at < size
       THEN at' = at /\ cells' = Overwrite(cells, Written(relocs[i]))
       ELSE at' = "failed" /\ cells' = cells
    /\ i' = i + 1
    /\ UNCHANGED <<image, address, size, va, room, relocs, facts, functions, gpu, args>>

Upload ==
    /\ at = "relocate" /\ i > Len(relocs)
    /\ at' = "loaded" /\ gpu' = cells
    /\ UNCHANGED <<image, i, address, size, va, room, relocs, facts, functions, cells, args>>

-----------------------------------------------------------------------------
(* The arguments of a launch.                                              *)

\* 32-bit words a parameter takes: smaller ones are widened.
Words(p) == IF p.size \in {1, 2} THEN 1 ELSE p.size \div 4
Encodable(p) == p.size \in {1, 2} \/ p.size % 4 = 0

\* The words are written one after the other, whatever the offsets.
FirstWord(params) ==
    LET first[k \in 1..(Len(params) + 1)] ==
            IF k = 1 THEN 0 ELSE first[k - 1] + Words(params[k - 1])
    IN  first

Marshalled(params) ==
    LET first == FirstWord(params)
    IN  [x \in {4 * w : w \in 0..(first[Len(params) + 1] - 1)} |->
            LET p == CHOOSE k \in DOMAIN params : 4 * first[k] <= x /\ x < 4 * first[k + 1]
            IN  <<p, x \div 4 - first[p]>>]

\* Where the launch descriptor follows the arguments.
Descriptor(f) == CeilDiv(functions[f].constants[1].size, ArgAlign) * ArgAlign

\* launchFunction of a loaded function with all its arguments.
Launch(f) ==
    /\ at = "loaded"
    /\ functions[f].constants # <<>>
    /\ ParamBase + 8 * Len(functions[f].params) < Descriptor(f) + 8 * ArgAlign
    /\ \A k \in DOMAIN functions[f].params : Encodable(functions[f].params[k])
    /\ args' = [fn |-> f, page |-> Marshalled(functions[f].params)]
    /\ UNCHANGED <<at, image, i, address, size, va, room, relocs, facts, functions, cells, gpu>>

Next ==
    \/ \E img \in Images : LoadData(img)
    \/ PlaceSection \/ Alloc \/ Scan \/ Finish \/ Relocate \/ Upload
    \/ \E f \in DOMAIN functions : Launch(f)

Spec == Init /\ [][Next]_vars

-----------------------------------------------------------------------------
(* Properties.                                                             *)

Placed == {k \in DOMAIN image :
              image[k].type = "PROGBITS" /\ (Fixed(image[k]) \/ at # "place" \/ k < i)}
Bytes(k) == address[k]..(address[k] + image[k].size - 1)

\* In whatever order a cubin lists them, sections with and without an address
\* of their own share no byte of the image, lie within it and are aligned, and
\* a page follows the image in its memory (librecuda.cpp:958-1011).
SectionsApart ==
    /\ \A k \in Placed :
          /\ Bytes(k) \subseteq 0..(size - 1)
          /\ \A l \in Placed \ {k} : Bytes(k) \cap Bytes(l) = {}
          /\ ~Fixed(image[k]) => address[k] % LargestOf({image[k].align, Align}) = 0
    /\ room # 0 => size + Page <= room

Holds(x, word) == x \in DOMAIN gpu /\ gpu[x] = word

\* The uploaded image points to where things are: each relocation put the
\* address of its symbol, whole or its half, at its place in the section it is
\* for, wherever the three sections come in the file (librecuda.cpp:1047-1113,
\* 1353-1376).  Symbols in sections without data are excepted: they have no
\* address.
RelocsResolved ==
    at = "loaded" =>
        \A k, t, s \in DOMAIN image : \A r \in DOMAIN image[k].items :
            LET item == image[k].items[r]
                to == (va + address[s] + item.value) % Modulus
                from == address[t] + item.at
            IN  /\ image[k].type = "REL" /\ {t, s} \subseteq Placed
                /\ image[t].name = image[k].target /\ image[s].name = item.symbol
                => /\ item.kind = "64" => Holds(from, to % Half) /\ Holds(from + 4, to \div Half)
                   /\ item.kind = "lo" => Holds(from + 4, to % Half)
                   /\ item.kind = "hi" => Holds(from + 4, to \div Half)

\* A function starts where its code lies; its constants are its own, bank 0
\* first, and, when it has any, those of no function, each where its section
\* lies; it gets the local memory of its largest entry (librecuda.cpp:1117-1191,
\* 1316-1347).
FunctionsDescribed ==
    LET Of(role, f) == {k \in DOMAIN image : image[k].role = role /\ image[k].fn = f}
        Banks(ks) == {[nr |-> image[k].nr, address |-> va + address[k], size |-> image[k].size] : k \in ks}
    IN  \A f \in DOMAIN functions :
            LET list == functions[f].constants
                own == Banks(Of("constant", f))
            IN  /\ \E k \in Of("text", f) : functions[f].text.address = va + address[k]
                /\ {list[k] : k \in DOMAIN list} =
                        IF own = {} THEN {} ELSE own \cup Banks(Of("constant", NoFunction))
                /\ (\E c \in own : c.nr = 0) => list[1].nr = 0
                /\ \A k \in DOMAIN image : image[k].role = "stack" =>
                      \A e \in Entries(image[k], f) : functions[f].local >= e.value + LocalBase

\* A kernel whose parameters lie on words finds each word of each argument at
\* its offset, in whatever order the file describes them, and none beneath the
\* launch descriptor (librecuda.cpp:1227-1237, 1291-1315, cmdqueue.cpp:516-580).
ArgsWhereKernelReads ==
    LET f == args.fn
        Offsets == {k \in DOMAIN image : image[k].role = "info" /\ image[k].fn = f}
    IN  f # NoFunction =>
        \A k \in Offsets : LET found == Params(image[k]) IN
            (\A p \in DOMAIN found : found[p].offset % 4 = 0) =>
                /\ \A p \in DOMAIN found : found[p].offset \in DOMAIN args.page
                     /\ args.page[found[p].offset] = <<found[p].index + 1, 0>>
                /\ \A x \in DOMAIN args.page :
                     /\ ParamBase + x + 4 <= Descriptor(f)
                     /\ args.page[x][2] > 0 => args.page[x - 4] = <<args.page[x][1], args.page[x][2] - 1>>
=============================================================================
