--------------------------- MODULE MCModuleLoader ---------------------------
(* Instances of ModuleLoader for TLC: one cubin, its sections in any order. *)
EXTENDS ModuleLoader, TLC

Blank == [name |-> "", type |-> "OTHER", role |-> "none", fn |-> NoFunction, nr |-> 0,
          target |-> "", addr |-> 0, size |-> 0, align |-> 4, items |-> <<>>]
Data(name, role, fn, nr, bytes) ==
    [Blank EXCEPT !.name = name, !.type = "PROGBITS", !.role = role, !.fn = fn, !.nr = nr,
                  !.size = bytes]
Parameter(index, offset) == [attr |-> "param", index |-> index, value |-> offset]
Other(attr) == [attr |-> attr, index |-> 0, value |-> 0]
Info(f, items) == [Blank EXCEPT !.name = ".nv.info." \o f, !.role = "info", !.fn = f, !.items = items]

TextF == Data(".text.f", "text", "f", 0, 20)
TextG == [Data(".text.g", "text", "g", 0, 12) EXCEPT !.align = 16]
Const0F == Data(".nv.constant0.f", "constant", "f", 0, 8 + 20)
Const2F == Data(".nv.constant2.f", "constant", "f", 2, 4)
Const3 == Data(".nv.constant3", "constant", NoFunction, 3, 9)
AtFixed == [Data(".nv.fixed", "none", NoFunction, 0, 6) EXCEPT !.addr = 8]
Shared == [Blank EXCEPT !.name = ".nv.shared.f", !.type = "NOBITS", !.role = "shared", !.fn = "f", !.size = 48]
Stacks == [Blank EXCEPT !.name = ".nv.info", !.role = "stack",
    !.items = <<[fn |-> "f", value |-> 3], [fn |-> "g", value |-> 5], [fn |-> "f", value |-> 1]>>]
RelF == [Blank EXCEPT !.name = ".rel.text.f", !.type = "REL", !.target = ".text.f",
    !.items = <<[at |-> 0, symbol |-> ".nv.constant3", value |-> 4, kind |-> "64"],
                [at |-> 4, symbol |-> ".text.g", value |-> 0, kind |-> "lo"],
                [at |-> 12, symbol |-> ".text.g", value |-> 0, kind |-> "hi"]>>]
RelFar == [RelF EXCEPT !.items = Append(@,
    [at |-> 900, symbol |-> ".text.g", value |-> 0, kind |-> "other"])]

\* A pointer, an int and a struct of two, described from the last to the first.
InfoF == Info("f", <<Other("skip"), [attr |-> "total", index |-> 0, value |-> 20],
                     Parameter(2, 12), Parameter(1, 8), Parameter(0, 0), Other("exit"), Other("unknown")>>)
\* Two shorts and an int: the shorts share a word.
InfoShorts == Info("f", <<Parameter(0, 0), Parameter(1, 2), Parameter(2, 4),
                         [attr |-> "total", index |-> 0, value |-> 8], Other("end")>>)
InfoUnknown == Info("f", <<Parameter(0, 0), Other("unknown")>>)

Orders(sections) ==
    {[k \in DOMAIN sections |-> sections[p[k]]] : p \in Permutations(DOMAIN sections)}

SomeImages ==
    Orders(<<TextF, TextG, Const0F, Const3, AtFixed, RelF>>)
    \cup Orders(<<TextF, Const0F, Const2F, Const3, InfoF, Stacks>>)
    \cup Orders(<<TextF, TextG, Const0F, InfoShorts, Shared>>)
    \cup Orders(<<TextF, TextG, InfoUnknown>>)
    \cup Orders(<<TextF, TextG, RelFar>>)
=============================================================================
