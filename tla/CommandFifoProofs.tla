------------------------- MODULE CommandFifoProofs -------------------------
(***************************************************************************)
(* A channel's ring and its pages, proved for every size of both: indices  *)
(* stay in range whatever the program does, and under the client rules the *)
(* ring and the pages together are a FIFO of batches.                      *)
(***************************************************************************)
EXTENDS CommandFifo, Integers, SequenceTheorems, TLAPS

-----------------------------------------------------------------------------
(* Arithmetic modulo the length of the ring.                               *)

LEMMA DivMod ==
    ASSUME NEW a \in Nat, NEW N \in Nat \ {0}
    PROVE  /\ a \div N \in Nat
           /\ a % N \in 0..(N - 1)
           /\ a = (N * (a \div N)) + (a % N)
BY SMT

LEMMA MultiplesApart ==
    ASSUME NEW N \in Nat \ {0}, NEW p \in Nat, NEW q \in Nat, p < q
    PROVE  /\ N * p \in Nat
           /\ N * q \in Nat
           /\ (N * p) + N <= N * q
BY SMT

\* Two counts less than N apart fall on different slots.
LEMMA SlotsDiffer ==
    ASSUME NEW N \in Nat \ {0}, NEW a \in Nat, NEW b \in Nat,
           a <= b, b < a + N, a % N = b % N
    PROVE  a = b
<1> DEFINE p == a \div N
           q == b \div N
           r == a % N
<1>1. a = (N * p) + r /\ p \in Nat /\ r \in 0..(N - 1)
  BY DivMod
<1>2. b = (N * q) + r /\ q \in Nat
  BY DivMod
<1> HIDE DEF p, q, r
<1>3. N * p \in Nat /\ N * q \in Nat
  BY <1>1, <1>2, SMT
<1>4. CASE p < q
  BY <1>1, <1>2, <1>4, MultiplesApart, SMT
<1>5. CASE q < p
  BY <1>1, <1>2, <1>5, MultiplesApart, SMT
<1>6. QED
  BY <1>1, <1>2, <1>4, <1>5

LEMMA RemainderUnique ==
    ASSUME NEW N \in Nat \ {0}, NEW p \in Nat, NEW r \in 0..(N - 1), NEW a \in Nat,
           a = (N * p) + r
    PROVE  a % N = r
<1> DEFINE q == a \div N
           t == a % N
<1>1. a = (N * q) + t /\ q \in Nat /\ t \in 0..(N - 1)
  BY DivMod
<1> HIDE DEF q, t
<1>2. N * p \in Nat /\ N * q \in Nat
  BY <1>1, SMT
<1>3. ~(p < q)
  BY <1>1, <1>2, MultiplesApart, SMT
<1>4. ~(q < p)
  BY <1>1, <1>2, MultiplesApart, SMT
<1>5. p = q => t = r
  BY <1>1, <1>2
<1>6. t = r
  BY <1>1, <1>3, <1>4, <1>5, SMT
<1>7. QED
  BY <1>6 DEF t

\* Stepping the index is stepping the count.
LEMMA NextSlot ==
    ASSUME NEW N \in Nat \ {0}, NEW a \in Nat
    PROVE  ((a % N) + 1) % N = (a + 1) % N
<1> DEFINE q == a \div N
           t == a % N
<1>1. a = (N * q) + t /\ q \in Nat /\ t \in 0..(N - 1)
  BY DivMod
<1> HIDE DEF q, t
<1>2. N * q \in Nat /\ N * (q + 1) = (N * q) + N
  BY <1>1, SMT
<1>3. CASE t + 1 < N
  <2>1. t + 1 \in 0..(N - 1) /\ a + 1 = (N * q) + (t + 1)
    BY <1>1, <1>2, <1>3
  <2>2. (a + 1) % N = t + 1
    BY <2>1, <1>1, RemainderUnique
  <2>3. t + 1 = (N * 0) + (t + 1)
    BY <1>1
  <2>4. (t + 1) % N = t + 1
    BY <2>1, <2>3, <1>1, RemainderUnique
  <2> QED
    BY <2>2, <2>4 DEF t
<1>4. CASE t + 1 = N
  <2>1. a + 1 = (N * (q + 1)) + 0
    BY <1>1, <1>2, <1>4
  <2>2. (a + 1) % N = 0
    BY <2>1, <1>1, RemainderUnique
  <2>3. N = (N * 1) + 0
    OBVIOUS
  <2>4. (t + 1) % N = 0
    BY <2>3, <1>4, RemainderUnique
  <2> QED
    BY <2>2, <2>4 DEF t
<1>5. QED
  BY <1>1, <1>3, <1>4

-----------------------------------------------------------------------------
(* Type correctness, whatever the program does.                            *)

\* The batch an entry points at ends inside its page.
Fits(entry) == entry = NULL \/ entry.at + entry.len <= PageWords

TypeInv ==
    /\ TypeOK
    /\ \A i \in 0..(Entries - 1) : Fits(ring[i])
    /\ Fits(reading)
    /\ cpu.pc = "copied" =>
          /\ cpu.batch.at = commandWriteIdx[cpu.batch.stream]
          /\ cpu.batch.at + cpu.batch.len <= PageWords

LEMMA SizeFacts ==
    /\ PageWords \in Nat \ {0}
    /\ Entries \in Nat \ {0}
    /\ BatchSizes \subseteq Nat \ {0}
    /\ \A n \in BatchSizes : n <= PageWords
BY SizeAssumption

LEMMA PlacedTyped ==
    ASSUME TypeOK, NEW s \in Streams, NEW n \in BatchSizes
    PROVE  /\ Placed(s, n) \in Batch
           /\ Placed(s, n).stream = s
           /\ Placed(s, n).len = n
           /\ Placed(s, n).at + n <= PageWords
           /\ Wraps(s, n) => Placed(s, n).at = 0 /\ Placed(s, n).lap = lap[s] + 1
           /\ ~Wraps(s, n) => Placed(s, n).at = commandWriteIdx[s] /\ Placed(s, n).lap = lap[s]
<1>1. commandWriteIdx[s] \in 0..PageWords /\ lap[s] \in Nat
  BY DEF TypeOK
<1>2. n \in Nat \ {0} /\ n <= PageWords
  BY SizeFacts
<1>3. CASE Wraps(s, n)
  BY <1>1, <1>2, <1>3, SizeFacts DEF Placed, Batch, Cells
<1>4. CASE ~Wraps(s, n)
  BY <1>1, <1>2, <1>4, SizeFacts DEF Placed, Batch, Cells, Wraps
<1> QED
  BY <1>3, <1>4

LEMMA WordsTyped ==
    ASSUME TypeOK, NEW entry \in Entry, Fits(entry)
    PROVE  WordsAt(entry) \in Seq(Nat)
<1>1. entry.stream \in Streams /\ entry.at \in Nat /\ entry.len \in Nat
  <2>1. entry.stream \in Streams /\ entry.at \in Cells /\ entry.len \in BatchSizes
    BY DEF Entry
  <2>2. Cells \subseteq Nat /\ BatchSizes \subseteq Nat
    BY SizeFacts DEF Cells
  <2> QED
    BY <2>1, <2>2, Zenon
<1>2. entry.at + entry.len <= PageWords
  BY NullAssumption DEF Fits
<1>3. \A i \in 1..entry.len : page[entry.stream][entry.at + i - 1] \in Nat
  <2> SUFFICES ASSUME NEW i \in 1..entry.len
               PROVE  page[entry.stream][entry.at + i - 1] \in Nat
    OBVIOUS
  <2>1. entry.at + i - 1 \in Cells
    BY <1>1, <1>2, SizeFacts DEF Cells
  <2> QED
    BY <1>1, <2>1 DEF TypeOK
<1>4. WordsAt(entry) \in [1..entry.len -> Nat]
  BY <1>3 DEF WordsAt
<1> QED
  BY <1>1, <1>4, SeqDef

LEMMA TypeInvInit == Init => TypeInv
<1> SUFFICES ASSUME Init PROVE TypeInv
  OBVIOUS
<1>1. TypeOK
  BY SizeFacts DEF Init, TypeOK, Cells, CpuState, Idle
<1> QED
  BY <1>1 DEF Init, TypeInv, Fits, Idle

LEMMA TypeInvStep == TypeInv /\ [Next]_vars => TypeInv'
<1> SUFFICES ASSUME TypeInv, [Next]_vars PROVE TypeInv'
  OBVIOUS
<1> USE SizeFacts
<1>1. ASSUME NEW s \in Streams, NEW n \in BatchSizes, CopyWords(s, n) PROVE TypeInv'
  <2> DEFINE batch == Placed(s, n)
  <2>1. /\ batch \in Batch /\ batch.stream = s /\ batch.len = n
        /\ batch.at + n <= PageWords
    BY <1>1, PlacedTyped DEF TypeInv
  <2>2. batch.at \in Cells /\ batch.at \in 0..PageWords /\ batch.lap \in Nat
    BY <2>1 DEF Batch, Cells
  <2> HIDE DEF batch
  <2>3. /\ cpu' = [pc |-> "copied", batch |-> batch]
        /\ commandWriteIdx' = [commandWriteIdx EXCEPT ![s] = batch.at]
        /\ lap' = [lap EXCEPT ![s] = batch.lap]
        /\ page' = [page EXCEPT
                      ![s] = [i \in Cells |->
                                IF i \in batch.at..(batch.at + n - 1)
                                  THEN put_value + 1 ELSE page[s][i]]]
    BY <1>1 DEF CopyWords, batch, TypeInv, TypeOK
  <2>4. page' \in [Streams -> [Cells -> Nat]]
    BY <2>3 DEF TypeInv, TypeOK
  <2>5. TypeOK'
    <3>1. UNCHANGED <<ring, put_value, GPPut, status, batches, GPGet, reading, received>>
      BY <1>1 DEF CopyWords
    <3>2. cpu' \in CpuState
      BY <2>1, <2>3 DEF CpuState
    <3>3. /\ commandWriteIdx' \in [Streams -> 0..PageWords]
          /\ lap' \in [Streams -> Nat]
      BY <2>2, <2>3 DEF TypeInv, TypeOK
    <3> QED
      BY <2>4, <3>1, <3>2, <3>3 DEF TypeInv, TypeOK
  <2>6. cpu'.batch.at = commandWriteIdx'[cpu'.batch.stream]
    BY <2>1, <2>3 DEF TypeInv, TypeOK
  <2>7. cpu'.batch.at + cpu'.batch.len <= PageWords
    BY <2>1, <2>3
  <2>8. UNCHANGED <<ring, reading>>
    BY <1>1 DEF CopyWords
  <2>9. /\ \A i \in 0..(Entries - 1) : Fits(ring'[i])
        /\ Fits(reading')
    BY <2>8 DEF TypeInv
  <2> QED
    BY <2>5, <2>6, <2>7, <2>9 DEF TypeInv, Fits
<1>2. ASSUME NEW s \in Streams, NEW n \in BatchSizes, Refuse(s, n) PROVE TypeInv'
  BY <1>2 DEF Refuse, TypeInv, TypeOK, Fits
<1>3. CASE WriteEntry
  <2> DEFINE s == cpu.batch.stream
             n == cpu.batch.len
             entry == EntryFor(s, n)
  <2>1. cpu.batch \in Batch /\ cpu.pc = "copied" /\ cpu = [pc |-> "copied", batch |-> cpu.batch]
    BY <1>3 DEF WriteEntry, TypeInv, TypeOK, CpuState, Idle
  <2>2. /\ s \in Streams /\ n \in BatchSizes /\ n \in Nat
        /\ commandWriteIdx[s] = cpu.batch.at /\ cpu.batch.at \in Cells
        /\ cpu.batch.at + n <= PageWords
    BY <2>1 DEF TypeInv, Batch
  <2>3. entry \in Entry /\ Fits(entry)
    BY <2>2 DEF EntryFor, Entry, Fits
  <2>4. commandWriteIdx[s] + n \in 0..PageWords
    BY <2>2 DEF Cells
  <2>5. put_value % Entries \in 0..(Entries - 1)
    BY DivMod DEF TypeInv, TypeOK
  <2>6. /\ ring' = [ring EXCEPT ![put_value % Entries] = entry]
        /\ commandWriteIdx' = [commandWriteIdx EXCEPT ![s] = commandWriteIdx[s] + n]
        /\ cpu' = [cpu EXCEPT !.pc = "entered"]
    BY <1>3 DEF WriteEntry
  <2> HIDE DEF s, n, entry
  <2>7. cpu' = [pc |-> "entered", batch |-> cpu.batch]
    BY <2>1, <2>6
  <2>8. TypeOK'
    <3>1. ring' \in [0..(Entries - 1) -> Entry \cup {NULL}]
      BY <2>3, <2>6 DEF TypeInv, TypeOK
    <3>2. commandWriteIdx' \in [Streams -> 0..PageWords]
      BY <2>4, <2>6 DEF TypeInv, TypeOK
    <3>3. cpu' \in CpuState
      BY <2>1, <2>7 DEF CpuState
    <3> QED
      BY <1>3, <3>1, <3>2, <3>3 DEF WriteEntry, TypeInv, TypeOK
  <2>9. \A i \in 0..(Entries - 1) : Fits(ring'[i])
    BY <2>3, <2>6 DEF TypeInv, TypeOK
  <2>10. Fits(reading)' /\ cpu'.pc # "copied"
    BY <1>3, <2>7 DEF WriteEntry, TypeInv, Fits
  <2> QED
    BY <2>8, <2>9, <2>10 DEF TypeInv, Fits
<1>4. CASE Publish
  <2>1. NextPut \in 0..(Entries - 1)
    BY DivMod DEF NextPut, TypeInv, TypeOK
  <2>2. cpu.batch \in Batch
    BY <1>4 DEF Publish, TypeInv, TypeOK, CpuState, Idle
  <2>3. batches' \in Seq(Batch)
    BY <1>4, <2>2 DEF Publish, TypeInv, TypeOK
  <2> QED
    BY <1>4, <2>1, <2>3 DEF Publish, TypeInv, TypeOK, CpuState, Idle, Fits
<1>5. CASE Fetch
  <2>1. (GPGet + 1) % Entries \in 0..(Entries - 1)
    BY DivMod DEF TypeInv, TypeOK
  <2> QED
    BY <1>5, <2>1 DEF Fetch, hostVars, TypeInv, TypeOK, Fits
<1>6. CASE Read
  <2>1. reading \in Entry /\ Fits(reading)
    BY <1>6 DEF Read, TypeInv, TypeOK
  <2>2. WordsAt(reading) \in Seq(Nat) /\ reading.stream \in Streams
    BY <2>1, WordsTyped DEF TypeInv, Entry
  <2>3. received' \in Seq([stream : Streams, words : Seq(Nat)])
    BY <1>6, <2>2 DEF Read, TypeInv, TypeOK
  <2> QED
    BY <1>6, <2>3 DEF Read, hostVars, TypeInv, TypeOK, Fits
<1>7. CASE UNCHANGED vars
  BY <1>7 DEF vars, hostVars, TypeInv, TypeOK, Fits
<1> QED
  BY <1>1, <1>2, <1>3, <1>4, <1>5, <1>6, <1>7 DEF Next, Exit

LEMMA TypeInvAlways == Spec => []TypeInv
BY TypeInvInit, TypeInvStep, PTL DEF Spec

\* Indices, ring and pages keep their types and no batch leaves its page,
\* whatever the program does: in particular without any of the client rules
\* (submitToFifo, cmdqueue.cpp:61-91).
THEOREM TypeCorrect == Spec => []TypeOK
<1>1. TypeInv => TypeOK
  BY DEF TypeInv
<1> QED
  BY <1>1, TypeInvAlways, PTL

-----------------------------------------------------------------------------
(* The ring, for programs that never fill it.                              *)

EntryOf(batch) == [stream |-> batch.stream, at |-> batch.at, len |-> batch.len]

RingInv ==
    /\ put_value = Len(batches)
    /\ Fetched <= put_value
    /\ put_value < Fetched + Entries
    /\ cpu # Idle => put_value + 1 < Fetched + Entries /\ put_value < MaxBatches
    /\ GPPut = put_value % Entries
    /\ GPGet = Fetched % Entries
    /\ \A k \in (Fetched + 1)..put_value : ring[(k - 1) % Entries] = EntryOf(batches[k])
    /\ reading # NULL => reading = EntryOf(batches[Fetched])
    /\ cpu.pc = "entered" => ring[put_value % Entries] = EntryOf(cpu.batch)

LEMMA CountsTyped ==
    ASSUME TypeOK
    PROVE  /\ Len(received) \in Nat
           /\ Len(batches) \in Nat
           /\ put_value \in Nat
           /\ Fetched \in Nat
           /\ reading = NULL => Fetched = Len(received)
           /\ reading # NULL => Fetched = Len(received) + 1
<1>1. Len(received) \in Nat /\ Len(batches) \in Nat /\ put_value \in Nat
  BY DEF TypeOK
<1> QED
  BY <1>1 DEF Fetched

LEMMA EntryOfTyped ==
    ASSUME NEW batch \in Batch
    PROVE  EntryOf(batch) \in Entry /\ EntryOf(batch) # NULL
<1>1. EntryOf(batch) \in Entry
  BY DEF EntryOf, Entry, Batch
<1> QED
  BY <1>1, NullAssumption, Zenon

LEMMA RingInvInit == Init => RingInv
<1> SUFFICES ASSUME Init PROVE RingInv
  OBVIOUS
<1>1. Len(batches) = 0 /\ Fetched = 0 /\ put_value = 0
  BY DEF Init, Fetched
<1>2. 0 = (Entries * 0) + 0 /\ 0 \in 0..(Entries - 1)
  BY SizeFacts
<1>3. 0 % Entries = 0
  BY <1>2, SizeFacts, RemainderUnique
<1> QED
  BY <1>1, <1>3, SizeFacts DEF Init, RingInv, Idle

\* The steps that leave the GPU's index and the entry it has taken alone.
LEMMA HostSteps ==
    ASSUME UNCHANGED <<reading, received>>
    PROVE  Fetched' = Fetched
BY DEF Fetched

LEMMA RingInvStep ==
    ASSUME "ring" \in ClientRules, TypeInv, RingInv, [Next]_vars
    PROVE  RingInv'
<1> USE SizeFacts
<1>t. TypeOK
  BY DEF TypeInv
<1>c. /\ Len(received) \in Nat /\ Len(batches) \in Nat /\ put_value \in Nat /\ Fetched \in Nat
  BY <1>t, CountsTyped
<1>1. ASSUME NEW s \in Streams, NEW n \in BatchSizes, CopyWords(s, n) PROVE RingInv'
  <2>1. /\ UNCHANGED <<ring, put_value, GPPut, batches, GPGet, reading, received>>
        /\ cpu'.pc = "copied"
        /\ put_value < MaxBatches
    BY <1>1 DEF CopyWords
  <2>2. Fetched' = Fetched
    BY <2>1, HostSteps
  <2>3. put_value + 1 < Fetched + Entries
    BY <1>1, <1>c DEF CopyWords, FollowsRules
  <2> QED
    BY <2>1, <2>2, <2>3 DEF RingInv
<1>2. ASSUME NEW s \in Streams, NEW n \in BatchSizes, Refuse(s, n) PROVE RingInv'
  <2>1. UNCHANGED <<ring, put_value, GPPut, cpu, batches, GPGet, reading, received>>
    BY <1>2 DEF Refuse
  <2>2. Fetched' = Fetched
    BY <2>1, HostSteps
  <2> QED
    BY <2>1, <2>2 DEF RingInv
<1>3. CASE WriteEntry
  <2> DEFINE s == cpu.batch.stream
             n == cpu.batch.len
  <2>1. /\ UNCHANGED <<put_value, GPPut, batches, GPGet, reading, received>>
        /\ ring' = [ring EXCEPT ![put_value % Entries] = EntryFor(s, n)]
        /\ cpu' = [cpu EXCEPT !.pc = "entered"]
        /\ cpu.pc = "copied"
    BY <1>3 DEF WriteEntry
  <2>2. Fetched' = Fetched
    BY <2>1, HostSteps
  <2>3. cpu = [pc |-> "copied", batch |-> cpu.batch] /\ cpu # Idle
    BY <1>t, <2>1 DEF TypeOK, CpuState, Idle
  <2>4. cpu' = [pc |-> "entered", batch |-> cpu.batch]
    BY <2>1, <2>3
  <2>5. EntryFor(s, n) = EntryOf(cpu.batch)
    BY <2>1 DEF TypeInv, EntryFor, EntryOf
  <2>6. put_value % Entries \in 0..(Entries - 1)
    BY <1>c, DivMod
  <2>7. ring'[put_value % Entries] = EntryOf(cpu.batch)
    BY <1>t, <2>1, <2>5, <2>6 DEF TypeOK
  <2>8. ASSUME NEW k \in (Fetched + 1)..put_value
        PROVE  ring'[(k - 1) % Entries] = EntryOf(batches[k])
    <3>0. k \in Nat /\ Fetched + 1 <= k /\ k <= put_value
      BY <1>c
    <3>1. k - 1 \in Nat /\ k - 1 < put_value /\ put_value < (k - 1) + Entries
      <4>1. put_value + 1 < Fetched + Entries
        BY <2>3 DEF RingInv
      <4> QED
        BY <1>c, <3>0, <4>1
    <3>2. (k - 1) % Entries # put_value % Entries
      <4>1. ASSUME NEW j \in Nat, j < put_value, put_value < j + Entries
            PROVE  j % Entries # put_value % Entries
        <5> SUFFICES ASSUME j % Entries = put_value % Entries PROVE FALSE
          OBVIOUS
        <5>1. j <= put_value
          BY <1>c, <4>1
        <5>2. j = put_value
          BY <1>c, <4>1, <5>1, SlotsDiffer, Zenon
        <5> QED
          BY <1>c, <4>1, <5>2
      <4> QED
        BY <3>1, <4>1
    <3>3. ring'[(k - 1) % Entries] = ring[(k - 1) % Entries]
      <4>1. (k - 1) % Entries \in 0..(Entries - 1)
        BY <3>1, DivMod
      <4> QED
        BY <1>t, <2>1, <3>2, <4>1 DEF TypeOK
    <3> QED
      BY <3>3 DEF RingInv
  <2> HIDE DEF s, n
  <2>9. cpu' # Idle /\ cpu'.pc = "entered" /\ cpu'.batch = cpu.batch
    BY <2>4 DEF Idle
  <2> QED
    BY <2>1, <2>2, <2>3, <2>7, <2>8, <2>9 DEF RingInv
<1>4. CASE Publish
  <2>1. /\ UNCHANGED <<ring, GPGet, reading, received>>
        /\ GPPut' = (put_value + 1) % Entries
        /\ put_value' = put_value + 1
        /\ batches' = Append(batches, cpu.batch)
        /\ cpu' = Idle
        /\ cpu.pc = "entered"
    BY <1>4 DEF Publish, NextPut
  <2>2. Fetched' = Fetched
    BY <2>1, HostSteps
  <2>3. cpu # Idle /\ cpu.batch \in Batch
    BY <1>t, <2>1 DEF TypeOK, CpuState, Idle
  <2>4. /\ Len(batches') = put_value + 1
        /\ batches'[put_value + 1] = cpu.batch
        /\ \A k \in 1..put_value : batches'[k] = batches[k]
    BY <1>t, <2>1, <2>3 DEF TypeOK, RingInv
  <2>5. ASSUME NEW k \in (Fetched + 1)..(put_value + 1)
        PROVE  ring[(k - 1) % Entries] = EntryOf(batches'[k])
    <3>1. CASE k = put_value + 1
      <4>1. k - 1 = put_value
        BY <1>c, <3>1
      <4> QED
        BY <2>1, <2>4, <3>1, <4>1 DEF RingInv
    <3>2. CASE k # put_value + 1
      <4>1. k \in (Fetched + 1)..put_value /\ k \in 1..put_value
        BY <1>c, <3>2
      <4> QED
        BY <2>4, <4>1 DEF RingInv
    <3> QED
      BY <3>1, <3>2
  <2>6. reading # NULL => EntryOf(batches'[Fetched]) = EntryOf(batches[Fetched])
    <3> SUFFICES ASSUME reading # NULL PROVE Fetched \in 1..put_value
      BY <2>4
    <3> QED
      BY <1>t, <1>c, CountsTyped DEF RingInv
  <2>7. Fetched <= put_value + 1 /\ put_value + 1 < Fetched + Entries
    BY <1>c, <2>3 DEF RingInv
  <2>8. cpu'.pc = "idle"
    BY <2>1 DEF Idle
  <2> QED
    BY <2>1, <2>2, <2>4, <2>5, <2>6, <2>7, <2>8 DEF RingInv
<1>5. CASE Fetch
  <2>1. /\ UNCHANGED <<ring, put_value, GPPut, cpu, batches, received>>
        /\ reading = NULL /\ reading' = ring[GPGet]
        /\ GPGet # GPPut /\ GPGet' = (GPGet + 1) % Entries
    BY <1>5 DEF Fetch, hostVars
  <2>2. Fetched + 1 \in (Fetched + 1)..put_value
    BY <1>c, <2>1 DEF RingInv
  <2>3. reading' = EntryOf(batches[Fetched + 1])
    <3>1. (Fetched + 1) - 1 = Fetched
      BY <1>c
    <3> QED
      BY <2>1, <2>2, <3>1 DEF RingInv
  <2>4. batches[Fetched + 1] \in Batch
    BY <1>t, <1>c, <2>2 DEF TypeOK, RingInv
  <2>5. reading' # NULL
    BY <2>3, <2>4, EntryOfTyped
  <2>6. Fetched' = Fetched + 1
    BY <1>c, <2>1, <2>5 DEF Fetched
  <2>7. GPGet' = (Fetched + 1) % Entries
    BY <1>c, <2>1, NextSlot DEF RingInv
  <2>8. (Fetched' + 1)..put_value \subseteq (Fetched + 1)..put_value
    BY <1>c, <2>6
  <2>9. Fetched' <= put_value /\ put_value < Fetched' + Entries
        /\ (cpu # Idle => put_value + 1 < Fetched' + Entries)
    BY <1>c, <2>2, <2>6 DEF RingInv
  <2> QED
    BY <2>1, <2>3, <2>6, <2>7, <2>8, <2>9 DEF RingInv
<1>6. CASE Read
  <2>1. /\ UNCHANGED <<ring, put_value, GPPut, cpu, batches, GPGet>>
        /\ reading # NULL /\ reading' = NULL
        /\ Len(received') = Len(received) + 1
    BY <1>6, <1>t DEF Read, hostVars, TypeOK
  <2>2. Fetched' = Fetched
    BY <1>c, <2>1 DEF Fetched
  <2> QED
    BY <2>1, <2>2 DEF RingInv
<1>7. CASE UNCHANGED vars
  <2>1. Fetched' = Fetched
    BY <1>7, HostSteps DEF vars
  <2> QED
    BY <1>7, <2>1 DEF vars, hostVars, RingInv
<1> QED
  BY <1>1, <1>2, <1>3, <1>4, <1>5, <1>6, <1>7 DEF Next, Exit

-----------------------------------------------------------------------------
(* The pages, for programs that never overwrite what is unread.            *)

\* The words of the k-th batch are still in its page.
Holds(b, k) == \A i \in b.at..(b.at + b.len - 1) : page[b.stream][i] = k

\* An unread batch belongs to no later lap than the page, and lies in front
\* of where the page is written next.
Behind(b) ==
    /\ b.at + b.len <= PageWords
    /\ b.lap <= lap[b.stream]
    /\ b.lap = lap[b.stream] => b.at + b.len <= commandWriteIdx[b.stream]

PageInv ==
    /\ \A k \in Unread : Behind(batches[k]) /\ Holds(batches[k], k)
    /\ cpu # Idle =>
          /\ cpu.batch.at + cpu.batch.len <= PageWords
          /\ cpu.batch.lap = lap[cpu.batch.stream]
          /\ Holds(cpu.batch, put_value + 1)
    /\ cpu.pc = "entered" =>
          cpu.batch.at + cpu.batch.len <= commandWriteIdx[cpu.batch.stream]

FifoInv == TypeInv /\ RingInv /\ PageInv

LEMMA BatchFields ==
    ASSUME NEW b \in Batch
    PROVE  /\ b.stream \in Streams
           /\ b.lap \in Nat /\ b.at \in Nat /\ b.len \in Nat \ {0}
<1>1. b.stream \in Streams /\ b.lap \in Nat /\ b.at \in Cells /\ b.len \in BatchSizes
  BY DEF Batch
<1>2. Cells \subseteq Nat /\ BatchSizes \subseteq Nat \ {0}
  BY SizeFacts DEF Cells
<1> QED
  BY <1>1, <1>2, Zenon

LEMMA PageInvInit == Init => PageInv
BY DEF Init, PageInv, Unread, Idle

LEMMA PageInvStep ==
    ASSUME ClientRules = Rules, FifoInv, [Next]_vars
    PROVE  PageInv'
<1> USE SizeFacts
<1>t. TypeOK /\ TypeInv /\ RingInv /\ PageInv
  BY DEF FifoInv, TypeInv
<1>c. /\ Len(received) \in Nat /\ Len(batches) \in Nat /\ put_value \in Nat
      /\ put_value = Len(batches)
  BY <1>t, CountsTyped DEF RingInv
<1>u. \A k \in Unread : k \in 1..Len(batches) /\ batches[k] \in Batch
  <2> SUFFICES ASSUME NEW k \in Unread PROVE k \in 1..Len(batches) /\ batches[k] \in Batch
    OBVIOUS
  <2>1. k \in 1..Len(batches)
    BY <1>c DEF Unread
  <2> QED
    BY <1>t, <2>1 DEF TypeOK
<1>1. ASSUME NEW s \in Streams, NEW n \in BatchSizes, CopyWords(s, n) PROVE PageInv'
  <2>0. PICK batch \in Batch : batch = Placed(s, n)
    BY <1>t, PlacedTyped
  <2> DEFINE reach == batch.at..(batch.at + n - 1)
  <2>1. /\ UNCHANGED <<put_value, batches, received>>
        /\ cpu' = [pc |-> "copied", batch |-> batch]
        /\ commandWriteIdx' = [commandWriteIdx EXCEPT ![s] = batch.at]
        /\ lap' = [lap EXCEPT ![s] = batch.lap]
        /\ page' = [page EXCEPT
                      ![s] = [i \in Cells |->
                                IF i \in reach THEN put_value + 1 ELSE page[s][i]]]
    BY <1>1, <1>t, <2>0 DEF CopyWords, TypeOK
  <2>2. Clear(batch)
    BY <1>1, <2>0 DEF CopyWords, FollowsRules, Rules
  <2>3. /\ batch \in Batch /\ batch.stream = s /\ batch.len = n
        /\ batch.at + n <= PageWords
        /\ Wraps(s, n) => batch.at = 0 /\ batch.lap = lap[s] + 1
        /\ ~Wraps(s, n) => batch.at = commandWriteIdx[s] /\ batch.lap = lap[s]
    BY <1>t, <2>0, PlacedTyped
  <2>4. batch.lap \in Nat /\ batch.at \in Nat /\ n \in Nat \ {0}
    BY <2>3, BatchFields
  <2>5. lap[s] \in Nat /\ commandWriteIdx[s] \in Nat
    BY <1>t DEF TypeOK
  <2>6. Unread' = Unread
    BY <2>1 DEF Unread
  <2>7. ASSUME NEW k \in Unread PROVE Behind(batches[k])' /\ Holds(batches[k], k)'
    <3> DEFINE b == batches[k]
    <3>1. b \in Batch /\ Behind(b) /\ Holds(b, k)
      BY <1>t, <1>u DEF PageInv
    <3>2. /\ b.stream \in Streams /\ b.lap \in Nat /\ b.at \in Nat /\ b.len \in Nat \ {0}
      BY <3>1, BatchFields
    <3>3. batches'[k] = b
      BY <2>1
    <3>4. b.stream = s => \/ b.lap = batch.lap
                          \/ b.lap + 1 = batch.lap /\ batch.at + n <= b.at
      BY <2>2, <2>3 DEF Clear
    <3> HIDE DEF b
    <3>5. CASE b.stream # s
      <4>1. /\ lap'[b.stream] = lap[b.stream]
            /\ commandWriteIdx'[b.stream] = commandWriteIdx[b.stream]
            /\ page'[b.stream] = page[b.stream]
        BY <1>t, <2>1, <3>2, <3>5 DEF TypeOK
      <4> QED
        BY <3>1, <3>3, <4>1 DEF Behind, Holds
    <3>6. CASE b.stream = s
      <4>1. /\ lap'[s] = batch.lap /\ commandWriteIdx'[s] = batch.at
            /\ page'[s] = [i \in Cells |->
                             IF i \in reach THEN put_value + 1 ELSE page[s][i]]
        BY <1>t, <2>1 DEF TypeOK
      <4>2. b.at + b.len <= PageWords /\ b.lap <= lap[s]
            /\ (b.lap = lap[s] => b.at + b.len <= commandWriteIdx[s])
        BY <3>1, <3>6 DEF Behind
      <4>3. b.lap <= batch.lap
        BY <2>3, <2>4, <2>5, <3>2, <4>2
      <4>4. b.lap = batch.lap => b.at + b.len <= batch.at
        BY <2>3, <2>4, <2>5, <3>2, <4>2
      <4>5. b.at + b.len <= batch.at \/ batch.at + n <= b.at
        BY <3>4, <3>6, <4>4
      <4>6. \A i \in b.at..(b.at + b.len - 1) : i \in Cells /\ i \notin reach
        BY <2>4, <3>2, <4>2, <4>5 DEF Cells
      <4>7. \A i \in b.at..(b.at + b.len - 1) : page'[s][i] = page[s][i]
        BY <4>1, <4>6
      <4>8. Holds(b, k)'
        BY <3>1, <3>3, <3>6, <4>7 DEF Holds, b
      <4>9. Behind(b)'
        BY <3>3, <3>6, <4>1, <4>2, <4>3, <4>4 DEF Behind, b
      <4> QED
        BY <4>8, <4>9 DEF b
    <3> QED
      BY <3>5, <3>6
  <2>8. cpu'.batch = batch /\ cpu'.pc = "copied" /\ lap'[s] = batch.lap
    BY <1>t, <2>1 DEF TypeOK
  <2>9. Holds(batch, put_value + 1)'
    <3>1. \A i \in reach : i \in Cells
      BY <2>3, <2>4 DEF Cells
    <3>2. \A i \in reach : page'[s][i] = put_value + 1
      BY <1>t, <2>1, <3>1 DEF TypeOK
    <3> QED
      BY <2>1, <2>3, <3>2 DEF Holds
  <2> QED
    BY <2>1, <2>3, <2>6, <2>7, <2>8, <2>9 DEF PageInv
<1>2. ASSUME NEW s \in Streams, NEW n \in BatchSizes, Refuse(s, n) PROVE PageInv'
  BY <1>2, <1>t DEF Refuse, PageInv, Unread, Behind, Holds
<1>3. CASE WriteEntry
  <2> DEFINE c == cpu.batch
             s == c.stream
             n == c.len
  <2>1. /\ UNCHANGED <<page, put_value, lap, batches, received>>
        /\ cpu' = [cpu EXCEPT !.pc = "entered"]
        /\ commandWriteIdx' = [commandWriteIdx EXCEPT ![s] = commandWriteIdx[s] + n]
        /\ cpu.pc = "copied"
    BY <1>3 DEF WriteEntry
  <2>2. cpu = [pc |-> "copied", batch |-> c] /\ cpu # Idle /\ c \in Batch
    BY <1>t, <2>1 DEF TypeOK, CpuState, Idle
  <2>3. cpu'.pc = "entered" /\ cpu'.batch = c /\ cpu' # Idle
    BY <2>1, <2>2 DEF Idle
  <2>4. s \in Streams /\ n \in Nat \ {0} /\ c.at \in Nat
    BY <2>2, BatchFields
  <2>5. commandWriteIdx[s] = c.at
    BY <1>t, <2>1 DEF TypeInv
  <2> HIDE DEF c, s, n
  <2>6. \A t \in Streams : commandWriteIdx[t] \in Nat /\ commandWriteIdx'[t] \in Nat
                           /\ commandWriteIdx[t] <= commandWriteIdx'[t]
    BY <1>t, <2>1, <2>4 DEF TypeOK
  <2>7. commandWriteIdx'[s] = c.at + n
    BY <1>t, <2>1, <2>4, <2>5 DEF TypeOK
  <2>8. ASSUME NEW k \in Unread PROVE Behind(batches[k])'
    <3> DEFINE b == batches[k]
    <3>1. b \in Batch /\ Behind(b)
      BY <1>t, <1>u DEF PageInv
    <3>2. b.stream \in Streams /\ b.lap \in Nat /\ b.at + b.len \in Nat
      BY <3>1, BatchFields
    <3>3. b.lap = lap[b.stream] => b.at + b.len <= commandWriteIdx'[b.stream]
      BY <2>6, <3>1, <3>2 DEF Behind
    <3> QED
      BY <2>1, <3>1, <3>3 DEF Behind
  <2>9. \A k \in Unread : Holds(batches[k], k)'
    BY <1>t, <2>1 DEF PageInv, Holds
  <2>10. Holds(c, put_value + 1)' /\ c.at + n <= PageWords /\ c.lap = lap[s]
    BY <1>t, <2>1, <2>2 DEF PageInv, Holds, c, s, n
  <2>11. cpu'.batch.at + cpu'.batch.len <= commandWriteIdx'[cpu'.batch.stream]
    BY <2>3, <2>4, <2>7 DEF s, n
  <2>12. Holds(cpu.batch, put_value + 1)'
    BY <2>3, <2>10 DEF c, Holds
  <2> QED
    BY <2>1, <2>3, <2>8, <2>9, <2>10, <2>11, <2>12 DEF PageInv, Unread, s, n
<1>4. CASE Publish
  <2>1. /\ UNCHANGED <<page, commandWriteIdx, lap, received>>
        /\ put_value' = put_value + 1
        /\ batches' = Append(batches, cpu.batch)
        /\ cpu' = Idle
        /\ cpu.pc = "entered"
    BY <1>4 DEF Publish
  <2>2. cpu # Idle /\ cpu.batch \in Batch
    BY <1>t, <2>1 DEF TypeOK, CpuState, Idle
  <2>3. /\ Len(batches') = put_value + 1
        /\ batches'[put_value + 1] = cpu.batch
        /\ \A k \in 1..put_value : batches'[k] = batches[k]
    BY <1>t, <1>c, <2>1, <2>2 DEF TypeOK
  <2>4. ASSUME NEW k \in Unread' PROVE Behind(batches[k])' /\ Holds(batches[k], k)'
    <3>1. CASE k = put_value + 1
      <4>1. batches'[k] = cpu.batch
        BY <2>3, <3>1
      <4>2. Behind(cpu.batch)
        BY <1>t, <2>1, <2>2, BatchFields DEF PageInv, Behind
      <4>3. Holds(cpu.batch, k)
        BY <1>t, <2>2, <3>1 DEF PageInv
      <4> QED
        BY <2>1, <4>1, <4>2, <4>3 DEF Behind, Holds
    <3>2. CASE k # put_value + 1
      <4>1. k \in Unread /\ k \in 1..put_value
        BY <1>c, <2>1, <2>3, <3>2 DEF Unread
      <4>2. batches'[k] = batches[k]
        BY <2>3, <4>1
      <4> QED
        BY <1>t, <2>1, <4>1, <4>2 DEF PageInv, Behind, Holds
    <3> QED
      BY <3>1, <3>2
  <2>5. cpu'.pc = "idle"
    BY <2>1 DEF Idle
  <2> QED
    BY <2>1, <2>4, <2>5 DEF PageInv
<1>5. CASE Fetch
  BY <1>5, <1>t DEF Fetch, hostVars, PageInv, Unread, Behind, Holds
<1>6. CASE Read
  <2>1. /\ UNCHANGED hostVars
        /\ Len(received') = Len(received) + 1
    BY <1>6, <1>t DEF Read, TypeOK
  <2>2. Unread' \subseteq Unread
    BY <1>c, <2>1 DEF hostVars, Unread
  <2> QED
    BY <1>t, <2>1, <2>2 DEF hostVars, PageInv, Behind, Holds
<1>7. CASE UNCHANGED vars
  BY <1>7, <1>t DEF vars, hostVars, PageInv, Unread, Behind, Holds
<1> QED
  BY <1>1, <1>2, <1>3, <1>4, <1>5, <1>6, <1>7 DEF Next, Exit

LEMMA FifoInvAlways ==
    ASSUME ClientRules = Rules
    PROVE  Spec => []FifoInv
<1>1. Init => FifoInv
  BY TypeInvInit, RingInvInit, PageInvInit DEF FifoInv
<1>2. FifoInv /\ [Next]_vars => FifoInv'
  <2> SUFFICES ASSUME FifoInv, [Next]_vars PROVE FifoInv'
    OBVIOUS
  <2>1. TypeInv'
    BY TypeInvStep DEF FifoInv
  <2>2. RingInv'
    BY RingInvStep DEF FifoInv, Rules
  <2>3. PageInv'
    BY PageInvStep
  <2> QED
    BY <2>1, <2>2, <2>3 DEF FifoInv
<1> QED
  BY <1>1, <1>2, PTL DEF Spec

-----------------------------------------------------------------------------
(* What follows from the invariant.                                        *)

\* The validation of cmdqueue.cpp:72-74 refuses a batch for which the page has
\* room only when another stream's entry is the oldest of the ring.
THEOREM RefusalsHaveAReason ==
    ASSUME ClientRules = Rules
    PROVE  Spec => []OnlyOthersRefuse
<1>1. FifoInv => OnlyOthersRefuse
  <2> SUFFICES ASSUME FifoInv, NEW s \in Streams, NEW n \in BatchSizes,
                      Clear(Placed(s, n)), ~MayCopy(s, n)
               PROVE  ring[GPGet] # NULL /\ ring[GPGet].stream # s
    BY DEF OnlyOthersRefuse
  <2> DEFINE k == Fetched + 1
             b == batches[k]
  <2>t. TypeOK /\ RingInv /\ PageInv
    BY DEF FifoInv, TypeInv
  <2>c. /\ Len(received) \in Nat /\ put_value \in Nat /\ put_value = Len(batches)
        /\ Fetched \in Nat /\ Len(received) <= Fetched
    BY <2>t, CountsTyped DEF RingInv
  <2>1. Wraps(s, n) /\ GPGet # GPPut /\ ~(Address(ring[GPGet]) >= PageBase[s] + n)
    BY DEF MayCopy, WrapCheck
  <2>2. k \in (Fetched + 1)..put_value /\ k - 1 = Fetched
    BY <2>t, <2>c, <2>1 DEF RingInv
  <2>3. k \in Unread /\ k \in 1..Len(batches)
    BY <2>c, <2>2 DEF Unread
  <2>4. b \in Batch /\ Behind(b)
    BY <2>t, <2>3 DEF TypeOK, PageInv
  <2>5. ring[GPGet] = EntryOf(b)
    BY <2>t, <2>2 DEF RingInv
  <2> HIDE DEF k
  <2>6. ring[GPGet] # NULL /\ ring[GPGet].stream = b.stream /\ ring[GPGet].at = b.at
    BY <2>4, <2>5, EntryOfTyped DEF EntryOf
  <2>7. ASSUME b.stream = s PROVE FALSE
    <3>1. b.lap \in Nat /\ b.at \in Nat /\ lap[s] \in Nat /\ PageBase[s] \in Nat /\ n \in Nat
      BY <2>t, <2>4, BatchFields, PageAssumption, SizeFacts DEF TypeOK
    <3>2. /\ Placed(s, n).stream = s /\ Placed(s, n).len = n
          /\ Placed(s, n).at = 0 /\ Placed(s, n).lap = lap[s] + 1
      BY <2>t, <2>1, PlacedTyped
    <3>3. \/ b.lap = lap[s] + 1
          \/ b.lap + 1 = lap[s] + 1 /\ 0 + n <= b.at
      BY <2>3, <2>7, <3>2 DEF Clear
    <3>4. b.lap <= lap[s]
      BY <2>4, <2>7 DEF Behind
    <3>5. n <= b.at
      BY <3>1, <3>3, <3>4
    <3>6. Address(ring[GPGet]) = PageBase[s] + b.at
      BY <2>6, <2>7 DEF Address
    <3> QED
      BY <2>1, <3>1, <3>5, <3>6
  <2> QED
    BY <2>6, <2>7
<1> QED
  BY <1>1, FifoInvAlways, PTL

\* What was sent, as a sequence: one intact batch for each one submitted.
SentOK ==
    /\ Sent \in Seq([stream : Streams, words : UNION {[1..n -> Nat] : n \in Nat}])
    /\ Len(Sent) = Len(batches)
    /\ \A k \in 1..Len(batches) :
          Sent[k] = Intact(batches[k].stream, batches[k].len, k)

LEMMA SentTyped == TypeOK => SentOK
<1> SUFFICES ASSUME TypeOK PROVE SentOK
  OBVIOUS
<1> DEFINE S == [stream : Streams, words : UNION {[1..n -> Nat] : n \in Nat}]
<1>1. Len(batches) \in Nat
  BY DEF TypeOK
<1>2. ASSUME NEW k \in 1..Len(batches)
      PROVE  Intact(batches[k].stream, batches[k].len, k) \in S
  <2>1. batches[k] \in Batch
    BY <1>2 DEF TypeOK
  <2>2. batches[k].stream \in Streams /\ batches[k].len \in Nat
    BY <2>1, BatchFields
  <2>3. [i \in 1..batches[k].len |-> k] \in [1..batches[k].len -> Nat]
    BY <1>1
  <2> QED
    BY <2>2, <2>3 DEF Intact
<1> HIDE DEF S
<1>3. Sent \in [1..Len(batches) -> S]
  BY <1>2 DEF Sent
<1>4. Sent \in Seq(S)
  BY <1>1, <1>3, SeqDef
<1>5. DOMAIN Sent = 1..Len(batches) /\ DOMAIN Sent = 1..Len(Sent) /\ Len(Sent) \in Nat
  BY <1>3, <1>4, LenProperties
<1>6. Len(Sent) = Len(batches)
  BY <1>1, <1>5
<1> QED
  BY <1>4, <1>6 DEF S, Sent, SentOK

LEMMA FifoStep ==
    ASSUME ClientRules = Rules, FifoInv, FifoInv', [Next]_vars
    PROVE  [Channel!Next]_<<Sent, received>>
<1> USE SizeFacts
<1>t. TypeOK /\ TypeOK' /\ RingInv /\ RingInv' /\ PageInv
  BY DEF FifoInv, TypeInv
<1>c. /\ Len(received) \in Nat /\ put_value \in Nat /\ put_value = Len(batches)
      /\ Fetched \in Nat
  BY <1>t, CountsTyped DEF RingInv
<1>1. ASSUME UNCHANGED <<batches, received>> PROVE UNCHANGED <<Sent, received>>
  BY <1>1 DEF Sent
<1>2. CASE Publish
  <2> DEFINE c == cpu.batch
             b == Intact(c.stream, c.len, put_value + 1)
  <2>1. batches' = Append(batches, c) /\ UNCHANGED received /\ cpu.pc = "entered"
        /\ put_value' = put_value + 1
    BY <1>2 DEF Publish
  <2>2. cpu # Idle /\ c \in Batch
    BY <1>t, <2>1 DEF TypeOK, CpuState, Idle
  <2>3. put_value + 1 \in 1..MaxBatches
    BY <1>t, <1>c, <2>2, SizeAssumption DEF RingInv
  <2>4. c.stream \in Streams /\ c.len \in BatchSizes
    BY <2>2 DEF Batch
  <2>5. b \in {Intact(s, n, k) : s \in Streams, n \in BatchSizes, k \in 1..MaxBatches}
    BY <2>3, <2>4
  <2>6. /\ Len(batches') = put_value + 1
        /\ batches'[put_value + 1] = c
        /\ \A k \in 1..put_value : batches'[k] = batches[k]
    BY <1>t, <1>c, <2>1, <2>2 DEF TypeOK
  <2> HIDE DEF c, b
  <2>7. Sent' = Append(Sent, b)
    <3> DEFINE S == [stream : Streams, words : UNION {[1..n -> Nat] : n \in Nat}]
    <3>1. Sent \in Seq(S) /\ Len(Sent) = put_value
          /\ \A k \in 1..put_value : Sent[k] = Intact(batches[k].stream, batches[k].len, k)
      BY <1>t, <1>c, SentTyped DEF SentOK
    <3>2. Sent' \in Seq(S) /\ Len(Sent') = put_value + 1
          /\ \A k \in 1..(put_value + 1) :
                Sent'[k] = Intact(batches'[k].stream, batches'[k].len, k)
      <4>1. SentOK'
        BY <1>t, SentTyped, PTL
      <4> QED
        BY <2>6, <4>1 DEF SentOK
    <3> HIDE DEF S
    <3>3. Sent'[put_value + 1] = b /\ \A k \in 1..put_value : Sent'[k] = Sent[k]
      BY <1>c, <2>6, <3>1, <3>2 DEF b
    <3>4. b \in S
      BY <1>c, <3>2, <3>3, ElementOfSeq
    <3>5. Append(Sent, b) \in Seq(S) /\ Len(Append(Sent, b)) = put_value + 1
          /\ \A k \in 1..put_value : Append(Sent, b)[k] = Sent[k]
          /\ Append(Sent, b)[put_value + 1] = b
      BY <1>c, <3>1, <3>4
    <3>6. \A k \in 1..(put_value + 1) : Sent'[k] = Append(Sent, b)[k]
      BY <1>c, <3>3, <3>5
    <3> QED
      BY <3>2, <3>5, <3>6, SeqEqual
  <2> QED
    BY <2>1, <2>5, <2>7 DEF Channel!Next, Channel!Send
<1>3. CASE Read
  <2> DEFINE k == Len(received) + 1
             b == batches[k]
  <2>1. /\ UNCHANGED batches /\ reading # NULL
        /\ received' = Append(received, [stream |-> reading.stream, words |-> WordsAt(reading)])
    BY <1>3 DEF Read, hostVars
  <2>2. Fetched = k
    BY <1>t, <2>1, CountsTyped
  <2>3. k \in Unread /\ k \in 1..Len(batches)
    BY <1>t, <1>c, <2>2 DEF Unread, RingInv
  <2>4. b \in Batch /\ Holds(b, k)
    BY <1>t, <2>3 DEF TypeOK, PageInv
  <2>5. reading = EntryOf(b)
    BY <1>t, <2>1, <2>2 DEF RingInv
  <2>6. b.at \in Nat /\ b.len \in Nat
    BY <2>4, BatchFields
  <2>7. reading.stream = b.stream /\ reading.at = b.at /\ reading.len = b.len
    BY <2>5 DEF EntryOf
  <2> HIDE DEF k, b
  <2>8. \A i \in 1..b.len : page[b.stream][b.at + i - 1] = k
    <3> SUFFICES ASSUME NEW i \in 1..b.len PROVE page[b.stream][b.at + i - 1] = k
      OBVIOUS
    <3>1. b.at + i - 1 \in b.at..(b.at + b.len - 1)
      BY <2>6
    <3> QED
      BY <2>4, <3>1 DEF Holds
  <2>9. WordsAt(reading) = [i \in 1..b.len |-> k]
    BY <2>7, <2>8 DEF WordsAt
  <2>10. [stream |-> reading.stream, words |-> WordsAt(reading)] = Sent[k]
    <3>1. Sent[k] = Intact(b.stream, b.len, k)
      BY <2>3 DEF Sent, b
    <3> QED
      BY <2>7, <2>9, <3>1 DEF Intact
  <2>11. Sent' = Sent
    BY <2>1 DEF Sent
  <2>12. Len(received) < Len(Sent)
    BY <1>t, <1>c, <2>3, SentTyped DEF k, SentOK
  <2> QED
    BY <2>1, <2>10, <2>11, <2>12 DEF Channel!Next, Channel!Receive, k
<1>4. ASSUME NEW s \in Streams, NEW n \in BatchSizes, CopyWords(s, n) \/ Refuse(s, n)
      PROVE  UNCHANGED <<batches, received>>
  BY <1>4 DEF CopyWords, Refuse
<1>5. WriteEntry \/ Fetch \/ Exit \/ UNCHANGED vars => UNCHANGED <<batches, received>>
  BY DEF WriteEntry, Fetch, Exit, vars, hostVars
<1> QED
  BY <1>1, <1>2, <1>3, <1>4, <1>5 DEF Next

\* Pages and ring implement a FIFO of batches, the channel that module Gpu
\* takes for granted: whatever the sizes, every batch is read once, whole and
\* in order (submitToFifo, cmdqueue.cpp:61-91).
THEOREM ChannelIsFifo ==
    ASSUME ClientRules = Rules
    PROVE  Spec => ImplementsBatchFifo
<1>1. Init => Channel!Init
  <2> SUFFICES ASSUME Init PROVE Channel!Init
    OBVIOUS
  <2>1. TypeOK /\ batches = <<>> /\ received = <<>>
    BY TypeInvInit DEF Init, TypeInv
  <2>2. Len(batches) = 0
    BY <2>1
  <2>3. Sent \in Seq([stream : Streams, words : UNION {[1..n -> Nat] : n \in Nat}])
        /\ Len(Sent) = 0
    BY <2>1, <2>2, SentTyped DEF SentOK
  <2>4. Sent = <<>>
    BY <2>3, EmptySeq, SMT
  <2> QED
    BY <2>1, <2>4 DEF Channel!Init
<1>2. FifoInv /\ FifoInv' /\ [Next]_vars => [Channel!Next]_Channel!vars
  BY FifoStep DEF Channel!vars
<1> QED
  BY <1>1, <1>2, FifoInvAlways, PTL DEF Spec, ImplementsBatchFifo
=============================================================================
