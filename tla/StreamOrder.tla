---------------------------- MODULE StreamOrder ----------------------------
(***************************************************************************)
(* What a LibreCUDA stream promises the program that uses it, without      *)
(* command buffers, channels or signals: operations take effect in the     *)
(* order they were enqueued, except that asynchronous operations of one    *)
(* kind may overlap, each runs once, and StreamAwait returns only when     *)
(* everything enqueued so far has completed.                               *)
(***************************************************************************)
EXTENDS Naturals, Sequences, TLAPS

CONSTANTS Streams, MaxOps

VARIABLES
    issued,     \* [Streams -> Seq(OpKind)]: what was enqueued, in order
    started,    \* operations that run or have run
    done,       \* operations that have completed
    awaited     \* [Streams -> Nat]: operations StreamAwait has vouched for

vars == <<issued, started, done, awaited>>

OpKind == [type : {"COMPUTE", "DMA"}, async : BOOLEAN]
Ops == Streams \X (1..MaxOps)

\* o must have completed before p may start: o is older, on the same stream,
\* and they are of different kinds or one of them is synchronous.
Precedes(o, p) ==
    /\ o[1] = p[1]
    /\ o[2] < p[2]
    /\ \/ issued[o[1]][o[2]].type # issued[p[1]][p[2]].type
       \/ ~issued[o[1]][o[2]].async
       \/ ~issued[p[1]][p[2]].async

Issued(o) == o[2] <= Len(issued[o[1]])

\* Every variable has its type.
TypeOK ==
    /\ issued \in [Streams -> Seq(OpKind)]
    /\ started \in SUBSET Ops
    /\ done \in SUBSET Ops
    /\ awaited \in [Streams -> Nat]

Init ==
    /\ issued = [s \in Streams |-> <<>>]
    /\ started = {}
    /\ done = {}
    /\ awaited = [s \in Streams |-> 0]

Issue(s, kind) ==
    /\ Len(issued[s]) < MaxOps
    /\ issued' = [issued EXCEPT ![s] = Append(@, kind)]
    /\ UNCHANGED <<started, done, awaited>>

Start(o) ==
    /\ Issued(o)
    /\ o \notin started
    /\ \A p \in Ops : Precedes(p, o) => p \in done
    /\ started' = started \cup {o}
    /\ UNCHANGED <<issued, done, awaited>>

Complete(o) ==
    /\ o \in started \ done
    /\ done' = done \cup {o}
    /\ UNCHANGED <<issued, started, awaited>>

AwaitReturns(s) ==
    /\ \A o \in Ops : o[1] = s /\ Issued(o) => o \in done
    /\ awaited' = [awaited EXCEPT ![s] = Len(issued[s])]
    /\ UNCHANGED <<issued, started, done>>

Next ==
    \/ \E s \in Streams : AwaitReturns(s) \/ \E kind \in OpKind : Issue(s, kind)
    \/ \E o \in Ops : Start(o) \/ Complete(o)

Spec == Init /\ [][Next]_vars
-----------------------------------------------------------------------------
(* What follows from the promise, for any program.                         *)

\* Whatever has started found all it depends on completed, and only what was
\* enqueued ever starts (launchFunction and gpuMemcpy, cmdqueue.cpp:459-786).
InOrder ==
    \A o \in started :
        /\ Issued(o)
        /\ \A p \in Ops : Precedes(p, o) => p \in done

\* What StreamAwait vouched for has completed (awaitExecution,
\* cmdqueue.cpp:272-277) and only started work completes.
AwaitedIsDone ==
    /\ done \subseteq started
    /\ \A o \in Ops : o[2] <= awaited[o[1]] => o \in done

-----------------------------------------------------------------------------
(* The promise proved to follow, for every set of streams and every bound. *)

OrderInv == TypeOK /\ InOrder /\ AwaitedIsDone

\* A call appends to the history of its stream; what Precedes and Issued say of
\* operations issued before it does not change.
LEMMA IssuePreserves ==
    ASSUME TypeOK, NEW s \in Streams, NEW kind \in OpKind, Issue(s, kind),
           NEW o \in Ops, Issued(o)
    PROVE  /\ Issued(o)'
           /\ \A p \in Ops : Precedes(p, o)' => Precedes(p, o)
<1>1. \A r \in Streams : /\ issued[r] \in Seq(OpKind)
                         /\ issued'[r] \in Seq(OpKind)
                         /\ Len(issued[r]) <= Len(issued'[r])
                         /\ \A i \in 1..Len(issued[r]) : issued'[r][i] = issued[r][i]
  BY DEF TypeOK, Issue
<1>2. o[1] \in Streams /\ o[2] \in 1..Len(issued[o[1]])
  BY <1>1 DEF Ops, Issued
<1>3. Issued(o)'
  BY <1>1, <1>2 DEF Issued
<1>4. ASSUME NEW p \in Ops, Precedes(p, o)'
      PROVE  Precedes(p, o)
  <2>1. p[1] = o[1] /\ p[2] < o[2] /\ p[2] \in 1..Len(issued[o[1]])
    BY <1>1, <1>2, <1>4 DEF Precedes, Ops
  <2> QED
    BY <1>1, <1>2, <1>4, <2>1 DEF Precedes
<1> QED
  BY <1>3, <1>4

\* The invariant holds initially.
LEMMA OrderInit == Init => OrderInv
<1> SUFFICES ASSUME Init PROVE OrderInv
  OBVIOUS
<1>1. TypeOK
  BY DEF Init, TypeOK
<1>2. InOrder
  BY DEF Init, InOrder
<1>3. AwaitedIsDone
  BY DEF Init, AwaitedIsDone, Ops
<1> QED
  BY <1>1, <1>2, <1>3 DEF OrderInv

\* Every step keeps it.
LEMMA OrderStep == OrderInv /\ [Next]_vars => OrderInv'
<1> SUFFICES ASSUME OrderInv, [Next]_vars PROVE OrderInv'
  OBVIOUS
<1>1. ASSUME NEW s \in Streams, NEW kind \in OpKind, Issue(s, kind)
      PROVE  OrderInv'
  <2>1. TypeOK'
    BY <1>1 DEF OrderInv, TypeOK, Issue
  <2>2. InOrder'
    <3>1. \A o \in started : o \in Ops /\ Issued(o)
      BY DEF OrderInv, TypeOK, InOrder
    <3>2. started' = started /\ done' = done
      BY <1>1 DEF Issue
    <3> QED
      BY <1>1, <3>1, <3>2, IssuePreserves DEF OrderInv, InOrder
  <2>3. AwaitedIsDone'
    BY <1>1 DEF OrderInv, AwaitedIsDone, Issue
  <2> QED
    BY <2>1, <2>2, <2>3 DEF OrderInv
<1>2. ASSUME NEW o \in Ops, Start(o)
      PROVE  OrderInv'
  <2>1. TypeOK'
    BY <1>2 DEF OrderInv, TypeOK, Start
  <2>2. InOrder'
    BY <1>2 DEF OrderInv, InOrder, Start, Issued, Precedes
  <2>3. AwaitedIsDone'
    BY <1>2 DEF OrderInv, AwaitedIsDone, Start
  <2> QED
    BY <2>1, <2>2, <2>3 DEF OrderInv
<1>3. ASSUME NEW o \in Ops, Complete(o)
      PROVE  OrderInv'
  <2>1. TypeOK'
    BY <1>3 DEF OrderInv, TypeOK, Complete
  <2>2. InOrder'
    BY <1>3 DEF OrderInv, InOrder, Complete, Issued, Precedes
  <2>3. AwaitedIsDone'
    BY <1>3 DEF OrderInv, AwaitedIsDone, Complete
  <2> QED
    BY <2>1, <2>2, <2>3 DEF OrderInv
<1>4. ASSUME NEW s \in Streams, AwaitReturns(s)
      PROVE  OrderInv'
  <2>1. TypeOK'
    <3>1. Len(issued[s]) \in Nat
      BY DEF OrderInv, TypeOK
    <3> QED
      BY <1>4, <3>1 DEF OrderInv, TypeOK, AwaitReturns
  <2>2. InOrder'
    BY <1>4 DEF OrderInv, InOrder, AwaitReturns, Issued, Precedes
  <2>3. AwaitedIsDone'
    <3>1. \A o \in Ops : o[1] \in Streams
      BY DEF Ops
    <3> QED
      BY <1>4, <3>1 DEF OrderInv, TypeOK, AwaitedIsDone, AwaitReturns, Issued
  <2> QED
    BY <2>1, <2>2, <2>3 DEF OrderInv
<1>5. ASSUME UNCHANGED vars
      PROVE  OrderInv'
  BY <1>5 DEF OrderInv, TypeOK, InOrder, AwaitedIsDone, Issued, Precedes, vars
<1> QED
  BY <1>1, <1>2, <1>3, <1>4, <1>5 DEF Next

\* In every behaviour of the abstract stream an operation that has started found
\* all it must follow completed: the order of launchFunction and gpuMemcpy calls
\* is the order of their effects (cmdqueue.cpp:459-786).
THEOREM StreamsRunInOrder == Spec => []InOrder
<1>1. OrderInv => InOrder
  BY DEF OrderInv
<1> QED
  BY OrderInit, OrderStep, <1>1, PTL DEF Spec

\* What StreamAwait has vouched for is complete (cmdqueue.cpp:272-277).
THEOREM AwaitIsSound == Spec => []AwaitedIsDone
<1>1. OrderInv => AwaitedIsDone
  BY DEF OrderInv
<1> QED
  BY OrderInit, OrderStep, <1>1, PTL DEF Spec
=============================================================================
