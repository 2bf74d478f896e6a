--------------------------- MODULE MCCommandQueue ---------------------------
(* Instances of CommandQueue for TLC.                                      *)
EXTENDS CommandQueue

CONSTANTS s1, s2, e1, e2, f1, f2

AllRules == {"await before switch", "commence before await",
             "await before destroy", "record once"}

NoAwaitBeforeSwitch == AllRules \ {"await before switch"}

\* f1 fits in one granule of 32 bytes per thread, f2 needs two.
NoLocalMem == [k \in Funcs |-> 0]
TwoSizes == [k \in Funcs |-> IF k = f1 THEN 20 ELSE 40]
=============================================================================
