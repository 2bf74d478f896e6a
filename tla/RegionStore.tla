---------------------------- MODULE RegionStore ----------------------------
(***************************************************************************)
(* What the allocator of virtual addresses promises, without alignment,    *)
(* bump pointer or maps: every address range it gives out is clear of all  *)
(* ranges ever given out, also of those taken back, and what can be taken  *)
(* back is what was given and kept.                                        *)
(***************************************************************************)
EXTENDS Naturals

VARIABLES
    given,      \* the regions ever given out
    kept        \* those in use that can be taken back

vars == <<given, kept>>

Region == [base : Nat, size : Nat \ {0}]

Apart(r, t) == r.base + r.size <= t.base \/ t.base + t.size <= r.base

Init == given = {} /\ kept = {}

\* A new region is given out; a failed allocation, and memory that is never
\* given back, use up their region without keeping it.
Give(region) ==
    /\ region \in Region
    /\ \A r \in given : Apart(r, region)
    /\ given' = given \cup {region}
    /\ kept' \in {kept, kept \cup {region}}

TakeBack(region) ==
    /\ kept' = kept \ {region}
    /\ UNCHANGED given

Next ==
    \/ \E region \in given' : Give(region)
    \/ \E region \in kept : TakeBack(region)

Spec == Init /\ [][Next]_vars
=============================================================================
