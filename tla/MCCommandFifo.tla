--------------------------- MODULE MCCommandFifo ---------------------------
(* Instances of CommandFifo for TLC.                                       *)
EXTENDS CommandFifo

CONSTANTS s1, s2

\* s1's page lies below s2's, with the distance of two adjacent allocations.
Adjacent == [s \in Streams |-> IF s = s1 THEN 100 ELSE 100 + PageWords]
=============================================================================
