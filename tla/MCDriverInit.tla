---------------------------- MODULE MCDriverInit ----------------------------
(* Instances of DriverInit for TLC.                                        *)
EXTENDS DriverInit, TLC

CONSTANTS c1, c2

Symmetry == Permutations(Contexts)

\* The driver does not number the cards as it lists them.
Swapped == (0 :> 1) @@ (1 :> 0)

Is(n) == [n |-> n, clean |-> TRUE]
Junk(n) == [n |-> n, clean |-> FALSE]

\* Not set, "1", "0", "0x,1", "1,0", "7".
SomeLists == {<<>>, <<Is(1)>>, <<Is(0)>>, <<Junk(0), Is(1)>>, <<Is(1), Is(0)>>, <<Is(7)>>}
=============================================================================
