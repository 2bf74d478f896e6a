----------------------------- MODULE BatchFifo -----------------------------
(***************************************************************************)
(* What a channel promises the queues that submit to it, without pages,    *)
(* rings or indices: batches of commands are handed over one by one and    *)
(* the GPU reads each of them once, whole and in that order.  This is the  *)
(* channel that module Gpu assumes.                                        *)
(***************************************************************************)
EXTENDS Naturals, Sequences

CONSTANT Batches        \* a batch: whose it is, and its words

VARIABLES
    sent,       \* Seq(Batches): handed over, in order
    received    \* Seq(Batches): what the GPU read, in order

vars == <<sent, received>>

Init == sent = <<>> /\ received = <<>>

Send(batch) ==
    /\ sent' = Append(sent, batch)
    /\ UNCHANGED received

Receive ==
    /\ Len(received) < Len(sent)
    /\ received' = Append(received, sent[Len(received) + 1])
    /\ UNCHANGED sent

Next == Receive \/ \E batch \in Batches : Send(batch)

Spec == Init /\ [][Next]_vars
=============================================================================
