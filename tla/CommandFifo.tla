---------------------------- MODULE CommandFifo ----------------------------
(***************************************************************************)
(* How a batch of commands gets from a queue to the GPU: submitToFifo of   *)
(* driverapi/src/cmdqueue.cpp, for one channel.  Each stream has a page of *)
(* its own for the words of its batches; the channel's ring of entries,    *)
(* each the address and the length of a batch, is shared by all streams of *)
(* the context.  The GPU runs concurrently: it takes the entry at GPGet    *)
(* while that is not GPPut, and reads the words the entry points at later. *)
(*                                                                         *)
(* A page is filled front to back; a batch that does not fit starts over   *)
(* at the beginning (a new lap).  Nothing tells the CPU which batches have *)
(* been read: the code compares the oldest entry of the ring with the      *)
(* batch, and only when it wraps.                                          *)
(***************************************************************************)
EXTENDS Naturals, Sequences

CONSTANTS
    Streams,        \* the streams that submit to the channel
    PageWords,      \* MAX_CMD_QUEUE_PAGE_SIZE
    PageBase,       \* [Streams -> Nat]: where each stream's page was allocated
    Entries,        \* GPFifo.entries_count
    BatchSizes,     \* lengths a command buffer may have
    ClientRules,    \* what the program promises, see below
    MaxBatches,     \* bound: batches submitted
    NULL            \* no entry

(***************************************************************************)
(* The code keeps no account of what the GPU has read, so a program has to *)
(* await often enough:                                                     *)
(*   "page": no batch overwrites words of its stream that are unread,      *)
(*   "ring": the ring is never filled up.                                  *)
(***************************************************************************)
Rules == {"page", "ring"}

ASSUME SizeAssumption ==
    /\ PageWords \in Nat \ {0}
    /\ Entries \in Nat \ {0}
    /\ BatchSizes \subseteq 1..PageWords
    /\ MaxBatches \in Nat
ASSUME PageAssumption ==
    /\ PageBase \in [Streams -> Nat]
    /\ \A s, t \in Streams :
          s # t => PageBase[s] + PageWords <= PageBase[t]
                     \/ PageBase[t] + PageWords <= PageBase[s]
ASSUME RulesAssumption == ClientRules \subseteq Rules

Cells == 0..(PageWords - 1)
Entry == [stream : Streams, at : Cells, len : BatchSizes]
ASSUME NullAssumption == NULL \notin Entry

VARIABLES
    page,               \* [Streams -> [Cells -> Nat]]: whose word a cell holds
    commandWriteIdx,    \* [Streams -> 0..PageWords]
    ring,               \* [0..Entries-1 -> Entry]
    put_value,          \* entries ever written
    GPPut, GPGet,       \* the indices the CPU and the GPU publish
    cpu,                \* where submitToFifo is, and with which batch
    status,             \* what the last submitToFifo returned
    reading,            \* the entry the GPU has taken but not read, or NULL
    \* History of the run, read by the properties and the program's rules.
    lap,                \* [Streams -> Nat]: how often a page has wrapped
    batches,            \* Seq(Batch): the batches submitted
    received            \* what the GPU has read

hostVars == <<page, commandWriteIdx, ring, put_value, GPPut, cpu, status, lap, batches>>
vars == <<hostVars, GPGet, reading, received>>

Batch == [stream : Streams, lap : Nat, at : Cells, len : BatchSizes]

Idle == [pc |-> "idle"]
CpuState == {Idle} \cup [pc : {"copied", "entered"}, batch : Batch]

\* Every variable holds what the code's declarations allow; indices stay
\* inside their page and ring (librecuda_internal.h:24-30, cmdqueue.h:33-46).
TypeOK ==
    /\ page \in [Streams -> [Cells -> Nat]]
    /\ commandWriteIdx \in [Streams -> 0..PageWords]
    /\ ring \in [0..(Entries - 1) -> Entry \cup {NULL}]
    /\ put_value \in Nat
    /\ GPPut \in 0..(Entries - 1)
    /\ GPGet \in 0..(Entries - 1)
    /\ cpu \in CpuState
    /\ status \in {"SUCCESS", "ERROR_UNKNOWN"}
    /\ reading \in Entry \cup {NULL}
    /\ lap \in [Streams -> Nat]
    /\ batches \in Seq(Batch)
    /\ received \in Seq([stream : Streams, words : Seq(Nat)])

\* Fresh pages and a fresh ring (makeGpuFifo, initializeQueue).
Init ==
    /\ page = [s \in Streams |-> [i \in Cells |-> 0]]
    /\ commandWriteIdx = [s \in Streams |-> 0]
    /\ ring = [i \in 0..(Entries - 1) |-> NULL]
    /\ put_value = 0
    /\ GPPut = 0
    /\ GPGet = 0
    /\ cpu = Idle
    /\ status = "SUCCESS"
    /\ reading = NULL
    /\ lap = [s \in Streams |-> 0]
    /\ batches = <<>>
    /\ received = <<>>

-----------------------------------------------------------------------------
(* submitToFifo, on a command buffer of n words.                           *)

\* The number of entries the GPU has taken, and the batches it has yet to read.
Fetched == Len(received) + (IF reading = NULL THEN 0 ELSE 1)
Unread == (Len(received) + 1)..Len(batches)

WrapsLate(s, n) == commandWriteIdx[s] > PageWords              \* mutant
Wraps(s, n) == commandWriteIdx[s] + n > PageWords

\* A slot never written holds zeros.
Address(entry) == IF entry = NULL THEN 0 ELSE PageBase[entry.stream] + entry.at

ComparesOnly(s, n) == Address(ring[GPGet]) >= PageBase[s] + n  \* mutant
WrapCheck(s, n) == GPGet # GPPut => Address(ring[GPGet]) >= PageBase[s] + n

\* Where the batch goes.
Placed(s, n) ==
    [stream |-> s, len |-> n,
     lap |-> IF Wraps(s, n) THEN lap[s] + 1 ELSE lap[s],
     at |-> IF Wraps(s, n) THEN 0 ELSE commandWriteIdx[s]]

\* The batch does not reach a word of an unread one.
Clear(batch) ==
    \A k \in Unread :
        batches[k].stream = batch.stream =>
            \/ batches[k].lap = batch.lap
            \/ /\ batches[k].lap + 1 = batch.lap
               /\ batch.at + batch.len <= batches[k].at

FollowsRules(s, n) ==
    /\ "page" \in ClientRules => Clear(Placed(s, n))
    /\ "ring" \in ClientRules => put_value - Fetched + 1 < Entries

MayCopy(s, n) == Wraps(s, n) => WrapCheck(s, n)

\* The wrap, its check and the memcpy.  The word of batch k is the number k.
CopyWords(s, n) ==
    /\ cpu = Idle
    /\ put_value < MaxBatches
    /\ FollowsRules(s, n)
    /\ MayCopy(s, n)
    /\ LET batch == Placed(s, n)
       IN /\ page' = [page EXCEPT
                        ![s] = [i \in Cells |->
                                  IF i \in batch.at..(batch.at + n - 1)
                                    THEN put_value + 1 ELSE @[i]]]
          /\ commandWriteIdx' = [commandWriteIdx EXCEPT ![s] = batch.at]
          /\ lap' = [lap EXCEPT ![s] = batch.lap]
          /\ cpu' = [pc |-> "copied", batch |-> batch]
    /\ UNCHANGED <<ring, put_value, GPPut, status, batches, GPGet, reading, received>>

\* The check failed: the command buffer stays as it is.
Refuse(s, n) ==
    /\ cpu = Idle
    /\ put_value < MaxBatches
    /\ FollowsRules(s, n)
    /\ ~MayCopy(s, n)
    /\ status' = "ERROR_UNKNOWN"
    /\ UNCHANGED <<page, commandWriteIdx, ring, put_value, GPPut, cpu, lap, batches,
                   GPGet, reading, received>>

EntryBehind(s, n) ==                                           \* mutant
    [stream |-> s, at |-> (commandWriteIdx[s] + n) % PageWords, len |-> n]
EntryFor(s, n) == [stream |-> s, at |-> commandWriteIdx[s], len |-> n]

WriteEntry ==
    /\ cpu.pc = "copied"
    /\ LET s == cpu.batch.stream
           n == cpu.batch.len
       IN /\ ring' = [ring EXCEPT ![put_value % Entries] = EntryFor(s, n)]
          /\ commandWriteIdx' = [commandWriteIdx EXCEPT ![s] = @ + n]
    /\ cpu' = [cpu EXCEPT !.pc = "entered"]
    /\ UNCHANGED <<page, put_value, GPPut, status, lap, batches, GPGet, reading, received>>

PutUnchanged == put_value % Entries                            \* mutant
NextPut == (put_value + 1) % Entries

\* GPPut moves and the doorbell rings; the command buffer is cleared.
Publish ==
    /\ cpu.pc = "entered"
    /\ GPPut' = NextPut
    /\ put_value' = put_value + 1
    /\ batches' = Append(batches, cpu.batch)
    /\ cpu' = Idle
    /\ status' = "SUCCESS"
    /\ UNCHANGED <<page, commandWriteIdx, ring, lap, GPGet, reading, received>>

-----------------------------------------------------------------------------
(* The GPU's side (external).                                              *)

Fetch ==
    /\ reading = NULL
    /\ GPGet # GPPut
    /\ reading' = ring[GPGet]
    /\ GPGet' = (GPGet + 1) % Entries
    /\ UNCHANGED <<hostVars, received>>

WordsAt(entry) == [i \in 1..entry.len |-> page[entry.stream][entry.at + i - 1]]

Read ==
    /\ reading # NULL
    /\ received' = Append(received, [stream |-> reading.stream, words |-> WordsAt(reading)])
    /\ reading' = NULL
    /\ UNCHANGED <<hostVars, GPGet>>

\* Everything was submitted and read.
Exit ==
    /\ put_value = MaxBatches
    /\ Len(received) = MaxBatches
    /\ UNCHANGED vars

Next ==
    \/ \E s \in Streams, n \in BatchSizes : CopyWords(s, n) \/ Refuse(s, n)
    \/ WriteEntry \/ Publish
    \/ Fetch \/ Read
    \/ Exit

Spec == Init /\ [][Next]_vars

\* The GPU goes on taking entries and reading them.
FairSpec == Spec /\ WF_vars(Fetch) /\ WF_vars(Read)

-----------------------------------------------------------------------------
(* Properties.                                                             *)

\* The k-th batch, of n words, as the GPU ought to see it.
Intact(s, n, k) == [stream |-> s, words |-> [i \in 1..n |-> k]]

Sent == [k \in 1..Len(batches) |-> Intact(batches[k].stream, batches[k].len, k)]

Channel == INSTANCE BatchFifo WITH
    Batches <- {Intact(s, n, k) : s \in Streams, n \in BatchSizes, k \in 1..MaxBatches},
    sent <- Sent

\* The GPU reads every batch once, whole and in the order of submission, as
\* module Gpu assumes of a channel (submitToFifo, cmdqueue.cpp:61-91).
ImplementsBatchFifo == Channel!Init /\ [][Channel!Next]_Channel!vars

\* A batch that would overwrite nothing unread is refused only when the oldest
\* entry of the ring is another stream's: for a stream alone on its channel
\* the validation of cmdqueue.cpp:72-74 never fails without a reason.
OnlyOthersRefuse ==
    \A s \in Streams, n \in BatchSizes :
        cpu = Idle /\ Clear(Placed(s, n)) /\ ~MayCopy(s, n) =>
            ring[GPGet] # NULL /\ ring[GPGet].stream # s

\* Whatever was published is read in the end: the ring is never taken for
\* empty while it holds entries (cmdqueue.cpp:84-86).
PublishedIsRead == \A k \in 1..MaxBatches : put_value >= k ~> Len(received) >= k
=============================================================================
