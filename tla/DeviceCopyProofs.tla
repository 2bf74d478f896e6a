-------------------------- MODULE DeviceCopyProofs --------------------------
(***************************************************************************)
(* For every size of granule, block and word: the blocks of a copy cover   *)
(* the bytes of the copy, each of them and no other, as long as the HighBW *)
(* kernel needs one row of blocks; and so no byte ever changes beyond the  *)
(* copies of the program, and once all was awaited memory is what the      *)
(* copies one after the other make of it.                                  *)
(***************************************************************************)
EXTENDS DeviceCopy, SequenceTheorems, TLAPS

-----------------------------------------------------------------------------
(* Division.                                                               *)

\* Division with a rest, for any divisor.
LEMMA Quotient ==
    ASSUME NEW a \in Nat, NEW b \in Positive
    PROVE  /\ a \div b \in Nat /\ a % b \in 0..(b - 1)
           /\ (a \div b) * b \in Nat
           /\ (a \div b) * b <= a /\ a < (a \div b) * b + b
           /\ a = (a \div b) * b + (a % b)
<1>1. b \in Nat /\ b > 0
  BY DEF Positive
<1>2. a \div b \in Int /\ a % b \in 0..(b - 1)
  BY <1>1
<1>3. a = b * (a \div b) + (a % b)
  BY <1>1
<1>4. b * (a \div b) = (a \div b) * b /\ b * (a \div b) \in Int
  BY <1>1, <1>2
<1>5. a \div b >= 0
  <2>1. a \div b <= 0 - 1 => (a \div b) * b <= (0 - 1) * b
    BY <1>1, <1>2
  <2>2. (0 - 1) * b = 0 - b
    BY <1>1
  <2> QED
    BY <1>1, <1>2, <1>3, <1>4, <2>1, <2>2
<1> QED
  BY <1>1, <1>2, <1>3, <1>4, <1>5

\* Products grow with their factors.
LEMMA Product ==
    ASSUME NEW a \in Nat, NEW b \in Nat, NEW c \in Nat
    PROVE  /\ a * c \in Nat
           /\ (a + 1) * c = a * c + c
           /\ a <= b => a * c <= b * c
           /\ a < b => a * c + c <= b * c
OBVIOUS

\* Below b * c, the quotient by c is below b.
LEMMA QuotientBelow ==
    ASSUME NEW a \in Nat, NEW b \in Nat, NEW c \in Positive, a < b * c
    PROVE  a \div c < b
<1>1. /\ a \div c \in Nat /\ (a \div c) * c <= a /\ c \in Nat
  BY Quotient DEF Positive
<1>2. b <= a \div c => b * c <= (a \div c) * c
  BY <1>1, Product
<1>3. b * c \in Nat /\ (a \div c) * c \in Nat
  BY <1>1, Product
<1> QED
  BY <1>1, <1>2, <1>3

\* Rounding up covers, and by no more than it must.
LEMMA Ceiling ==
    ASSUME NEW a \in Nat, NEW b \in Positive
    PROVE  /\ CeilDiv(a, b) \in Nat
           /\ a <= CeilDiv(a, b) * b
           /\ a > 0 => CeilDiv(a, b) > 0
           /\ a <= b => CeilDiv(a, b) <= 1
<1>1. a + b - 1 \in Nat /\ b \in Nat
  BY DEF Positive
<1> DEFINE q == (a + b - 1) \div b
<1>2. q \in Nat /\ q * b \in Nat /\ q * b <= a + b - 1 /\ a + b - 1 < q * b + b
  BY <1>1, Quotient
<1>3. a > 0 => q > 0
  <2>1. q = 0 => q * b = 0
    BY <1>1
  <2> QED
    BY <1>2, <2>1 DEF Positive
<1>4. a <= b => q <= 1
  <2>1. q >= 2 => 2 * b <= q * b
    BY <1>1, <1>2, Product
  <2> QED
    BY <1>1, <1>2, <2>1 DEF Positive
<1> QED
  BY <1>1, <1>2, <1>3, <1>4 DEF CeilDiv

-----------------------------------------------------------------------------
(* One copy.                                                               *)

\* The sizes of the kernels are numbers above zero.
LEMMA Constants ==
    /\ Word \in Positive /\ Block \in Positive /\ Granule \in Positive /\ MaxGridX \in Positive
    /\ Word \in Nat /\ Block \in Nat /\ Granule \in Nat
    /\ Block * Word \in Positive
    /\ HighFrom \in Nat
<1>1. /\ Word \in Positive /\ Block \in Positive /\ Granule \in Positive /\ MaxGridX \in Positive
  BY KernelAssumption
<1>2. HighFrom \in Nat
  BY CopyAssumption
<1> QED
  BY <1>1, <1>2 DEF Positive

\* Where the kernels of a copy begin and how much is left for them.
LowFrom(size) == IF HighBW(size) THEN Whole(size) ELSE 0
Words(size) == (size - LowFrom(size)) \div Word

\* The low-latency kernel starts at or before the last whole granule and
\* stops less than a word before the end.
LEMMA CutFacts ==
    ASSUME NEW size \in Nat
    PROVE  /\ Whole(size) \in 0..size /\ LowFrom(size) \in 0..Whole(size)
           /\ Words(size) \in Nat /\ Words(size) * Word \in Nat
           /\ LowFrom(size) + Words(size) * Word <= size
           /\ size - LowFrom(size) < Words(size) * Word + Word
<1>1. Whole(size) \in Nat /\ Whole(size) <= size
  BY Constants, Quotient DEF Whole
<1>2. LowFrom(size) \in Nat /\ LowFrom(size) <= Whole(size) /\ size - LowFrom(size) \in Nat
  BY <1>1 DEF LowFrom
<1>3. /\ Words(size) \in Nat /\ Words(size) * Word \in Nat
      /\ Words(size) * Word <= size - LowFrom(size)
      /\ size - LowFrom(size) < Words(size) * Word + Word
  BY <1>2, Constants, Quotient DEF Words
<1> QED
  BY <1>1, <1>2, <1>3

\* The kernels of a copy, by name.
LEMMA PieceKinds ==
    ASSUME NEW size \in Nat
    PROVE  Pieces(size) \in Seq({KernelHighBW(size), KernelLowLatency(size), KernelTrailing(size)})
<1> DEFINE H == KernelHighBW(size)
           L == KernelLowLatency(size)
           T == KernelTrailing(size)
           kinds == {H, L, T}
<1> HIDE DEF H, L, T
<1>1. <<H>> \in Seq(kinds) /\ <<L>> \in Seq(kinds) /\ <<T>> \in Seq(kinds) /\ <<>> \in Seq(kinds)
  OBVIOUS
<1> HIDE DEF kinds
<1> DEFINE high == IF HighBW(size) THEN <<H>> ELSE <<>>
           low == IF ~HighBW(size) \/ size % Granule # 0 THEN <<L>> ELSE <<>>
           rest == IF size % Word # 0 THEN <<T>> ELSE <<>>
<1>2. Pieces(size) = high \o low \o rest
  BY DEF Pieces, H, L, T
<1>3. high \in Seq(kinds) /\ low \in Seq(kinds) /\ rest \in Seq(kinds)
  BY <1>1, Zenon
<1> HIDE DEF high, low, rest
<1>4. Pieces(size) \in Seq(kinds)
  BY <1>2, <1>3, ConcatProperties
<1> QED
  BY <1>4 DEF kinds, H, L, T

\* Which kernels a copy has.
LEMMA PiecePresence ==
    ASSUME NEW size \in Nat
    PROVE  /\ HighBW(size) =>
                 \E i \in DOMAIN Pieces(size) : Pieces(size)[i] = KernelHighBW(size)
           /\ ~HighBW(size) \/ size % Granule # 0 =>
                 \E i \in DOMAIN Pieces(size) : Pieces(size)[i] = KernelLowLatency(size)
           /\ size % Word # 0 =>
                 \E i \in DOMAIN Pieces(size) : Pieces(size)[i] = KernelTrailing(size)
<1> DEFINE H == KernelHighBW(size)
           L == KernelLowLatency(size)
           T == KernelTrailing(size)
           kinds == {H, L, T}
<1> HIDE DEF H, L, T
<1>0. /\ <<H>> \in Seq(kinds) /\ <<L>> \in Seq(kinds) /\ <<T>> \in Seq(kinds)
      /\ <<>> \in Seq(kinds)
      /\ Len(<<H>>) = 1 /\ Len(<<L>>) = 1 /\ Len(<<T>>) = 1
      /\ <<H>>[1] = H /\ <<L>>[1] = L /\ <<T>>[1] = T
  OBVIOUS
<1> HIDE DEF kinds
<1> DEFINE high == IF HighBW(size) THEN <<H>> ELSE <<>>
           low == IF ~HighBW(size) \/ size % Granule # 0 THEN <<L>> ELSE <<>>
           rest == IF size % Word # 0 THEN <<T>> ELSE <<>>
<1>1. high \in Seq(kinds) /\ low \in Seq(kinds) /\ rest \in Seq(kinds)
  BY <1>0, Zenon
<1>2. Pieces(size) = high \o low \o rest
  BY DEF Pieces, H, L, T
<1>3. /\ HighBW(size) => high = <<H>>
      /\ ~HighBW(size) \/ size % Granule # 0 => low = <<L>>
      /\ size % Word # 0 => rest = <<T>>
  BY Zenon
<1> HIDE DEF high, low, rest
<1>4. /\ high \o low \in Seq(kinds) /\ high \o low \o rest \in Seq(kinds)
      /\ DOMAIN (high \o low \o rest) = 1..(Len(high) + Len(low) + Len(rest))
      /\ \A i \in 1..Len(high) : (high \o low \o rest)[i] = high[i]
      /\ \A i \in 1..Len(low) : (high \o low \o rest)[Len(high) + i] = low[i]
      /\ \A i \in 1..Len(rest) : (high \o low \o rest)[Len(high) + Len(low) + i] = rest[i]
  BY <1>1
<1>5. Len(high) \in Nat /\ Len(low) \in Nat /\ Len(rest) \in Nat
  BY <1>1
<1>6. ASSUME HighBW(size)
      PROVE  \E i \in DOMAIN Pieces(size) : Pieces(size)[i] = H
  <2>0. Len(high) = 1 /\ high[1] = H
    BY <1>0, <1>3, <1>6
  <2>1. 1 \in DOMAIN Pieces(size) /\ Pieces(size)[1] = H
    BY <1>2, <1>4, <1>5, <2>0
  <2> QED
    BY <2>1
<1>7. ASSUME ~HighBW(size) \/ size % Granule # 0
      PROVE  \E i \in DOMAIN Pieces(size) : Pieces(size)[i] = L
  <2>0. Len(low) = 1 /\ low[1] = L
    BY <1>0, <1>3, <1>7
  <2>1. Len(high) + 1 \in DOMAIN Pieces(size) /\ Pieces(size)[Len(high) + 1] = L
    BY <1>2, <1>4, <1>5, <2>0
  <2> QED
    BY <2>1
<1>8. ASSUME size % Word # 0
      PROVE  \E i \in DOMAIN Pieces(size) : Pieces(size)[i] = T
  <2>0. Len(rest) = 1 /\ rest[1] = T
    BY <1>0, <1>3, <1>8
  <2>1. /\ Len(high) + Len(low) + 1 \in DOMAIN Pieces(size)
        /\ Pieces(size)[Len(high) + Len(low) + 1] = T
    BY <1>2, <1>4, <1>5, <2>0
  <2> QED
    BY <2>1
<1> QED
  BY <1>6, <1>7, <1>8 DEF H, L, T

\* What is left for each kernel is a number.
LEMMA CutTypes ==
    ASSUME NEW size \in Nat
    PROVE  size - Whole(size) \in Nat /\ Words(size) \in Nat /\ size \div Granule \in Nat
<1>1. size - Whole(size) \in Nat /\ Words(size) \in Nat
  BY CutFacts
<1>2. size \div Granule \in Nat
  BY Constants, Quotient
<1> QED
  BY <1>1, <1>2

\* What block <<k, 0>> of each kernel copies.
LEMMA BlockBytes ==
    ASSUME NEW size \in Nat, NEW k \in Nat
    PROVE  /\ Bytes(KernelHighBW(size), <<k, 0>>) = (k * Granule)..(k * Granule + Granule - 1)
           /\ Bytes(KernelLowLatency(size), <<k, 0>>) =
                 (LowFrom(size) + k * (Block * Word))..
                    (LowFrom(size) + k * (Block * Word) + Block * Word - 1)
                 \cap (0..(LowFrom(size) + Words(size) * Word - 1))
           /\ Bytes(KernelTrailing(size), <<k, 0>>) =
                 (Whole(size) + k * Block)..(Whole(size) + k * Block + Block - 1)
                 \cap (0..(size - 1))
<1> DEFINE H == KernelHighBW(size)
           L == KernelLowLatency(size)
           T == KernelTrailing(size)
<1>1. /\ H.fn = "HighBW" /\ H.at = 0 /\ H.x = size \div Granule
      /\ L.fn = "LowLatency" /\ L.at = LowFrom(size) /\ L.n = Words(size)
      /\ L.x = CeilDiv(Words(size), Block)
      /\ T.fn = "Trailing" /\ T.at = Whole(size) /\ T.n = size - Whole(size)
      /\ T.x = CeilDiv(size - Whole(size), Block)
  BY DEF KernelHighBW, KernelLowLatency, KernelTrailing, LowFrom, Words
<1>2. H.x \in Nat /\ L.x \in Nat /\ T.x \in Nat
  <2>1. size - Whole(size) \in Nat /\ Words(size) \in Nat
    BY CutFacts
  <2> QED
    BY <1>1, <2>1, Constants, Quotient, Ceiling
<1> HIDE DEF H, L, T
<1>3. /\ k + 0 * H.x = k /\ k + 0 * L.x = k /\ k + 0 * T.x = k
      /\ <<k, 0>>[1] = k /\ <<k, 0>>[2] = 0
  BY <1>2
<1>4. k * Granule \in Nat /\ 0 + k * Granule = k * Granule
  BY Constants, Product
<1>5. T.at + T.n - 1 = size - 1
  <2>1. Whole(size) \in Int
    BY CutFacts
  <2> QED
    BY <1>1, <2>1
<1>6. Bytes(H, <<k, 0>>) = (k * Granule)..(k * Granule + Granule - 1)
  BY <1>1, <1>3, <1>4 DEF Bytes
<1>7. Bytes(L, <<k, 0>>) =
         (LowFrom(size) + k * (Block * Word))..
            (LowFrom(size) + k * (Block * Word) + Block * Word - 1)
         \cap (0..(LowFrom(size) + Words(size) * Word - 1))
  BY <1>1, <1>3 DEF Bytes
<1>8. Bytes(T, <<k, 0>>) =
         (Whole(size) + k * Block)..(Whole(size) + k * Block + Block - 1) \cap (0..(size - 1))
  <2>1. Bytes(T, <<k, 0>>) =
           (T.at + k * Block)..(T.at + k * Block + Block - 1) \cap (0..(T.at + T.n - 1))
    BY <1>1, <1>3 DEF Bytes
  <2> QED
    BY <1>1, <1>5, <2>1
<1> QED
  BY <1>6, <1>7, <1>8 DEF H, L, T

\* The grids have one row when the copy is within the limit.
LEMMA BlockIndex ==
    ASSUME NEW size \in Nat, size \div Granule <= MaxGridX,
           NEW p \in {KernelHighBW(size), KernelLowLatency(size), KernelTrailing(size)},
           NEW b \in Grid(p)
    PROVE  \E k \in Nat : b = <<k, 0>> /\ k < p.x
<1>1. p.x \in Nat /\ p.y \in Nat /\ p.y <= 1
  <2>1. size - Whole(size) \in Nat /\ Words(size) \in Nat /\ size \div Granule \in Nat
    BY CutTypes
  <2>2. CASE p = KernelHighBW(size)
    BY <2>1, <2>2, Constants, Ceiling DEF KernelHighBW
  <2>3. CASE p = KernelLowLatency(size)
    <3>1. p.x = CeilDiv(Words(size), Block) /\ p.y = 1
      BY <2>3 DEF KernelLowLatency, Words, LowFrom
    <3> QED
      BY <2>1, <3>1, Constants, Ceiling
  <2>4. CASE p = KernelTrailing(size)
    BY <2>1, <2>4, Constants, Ceiling DEF KernelTrailing
  <2> QED
    BY <2>2, <2>3, <2>4
<1>2. b \in (0..(p.x - 1)) \X (0..(p.y - 1))
  BY DEF Grid
<1>3. b = <<b[1], b[2]>> /\ b[1] \in 0..(p.x - 1) /\ b[2] \in 0..(p.y - 1)
  BY <1>2
<1>4. b[1] \in Nat /\ b[1] < p.x /\ b[2] = 0
  BY <1>1, <1>3
<1> QED
  BY <1>3, <1>4

\* No block of a copy reaches beyond it (memcpy.cu:5-28).
LEMMA BlocksWithin ==
    ASSUME NEW size \in Nat, size \div Granule <= MaxGridX,
           NEW i \in DOMAIN Pieces(size), NEW b \in Grid(Pieces(size)[i])
    PROVE  Bytes(Pieces(size)[i], b) \subseteq 0..(size - 1)
<1> DEFINE p == Pieces(size)[i]
<1>1. p \in {KernelHighBW(size), KernelLowLatency(size), KernelTrailing(size)}
  <2> DEFINE kinds == {KernelHighBW(size), KernelLowLatency(size), KernelTrailing(size)}
  <2>1. Pieces(size) \in Seq(kinds)
    BY PieceKinds
  <2> HIDE DEF kinds
  <2>2. p \in kinds
    BY <2>1
  <2> QED
    BY <2>2 DEF kinds
<1> HIDE DEF p
<1>2. PICK k \in Nat : b = <<k, 0>> /\ k < p.x
  BY <1>1, BlockIndex DEF p
<1>3. CASE p = KernelHighBW(size)
  <2>1. k < size \div Granule
    BY <1>2, <1>3 DEF KernelHighBW
  <2>2. /\ size \div Granule \in Nat /\ (size \div Granule) * Granule \in Nat
        /\ (size \div Granule) * Granule <= size
    BY Constants, Quotient
  <2>3. k * Granule \in Nat /\ k * Granule + Granule <= (size \div Granule) * Granule
    BY <2>1, <2>2, Constants, Product
  <2>4. Bytes(p, b) = (k * Granule)..(k * Granule + Granule - 1)
    BY <1>2, <1>3, BlockBytes
  <2> QED
    BY <2>2, <2>3, <2>4, Constants DEF p
<1>4. CASE p = KernelLowLatency(size)
  <2>1. Bytes(p, b) \subseteq 0..(LowFrom(size) + Words(size) * Word - 1)
    BY <1>2, <1>4, BlockBytes
  <2> QED
    BY <2>1, CutFacts DEF p
<1>5. CASE p = KernelTrailing(size)
  BY <1>2, <1>5, BlockBytes DEF p
<1> QED
  BY <1>1, <1>3, <1>4, <1>5

\* A byte at distance d from where blocks of n bytes begin is in block d \div n.
LEMMA InBlock ==
    ASSUME NEW from \in Nat, NEW j \in Nat, from <= j, NEW n \in Positive
    PROVE  LET k == (j - from) \div n
           IN  k \in Nat /\ j \in (from + k * n)..(from + k * n + n - 1)
<1> DEFINE d == j - from
           k == d \div n
<1>1. d \in Nat /\ j = from + d /\ n \in Nat
  BY DEF Positive
<1> HIDE DEF d
<1>2. k \in Nat /\ k * n \in Nat /\ k * n <= d /\ d < k * n + n
  BY <1>1, Quotient
<1> HIDE DEF k
<1>3. j \in (from + k * n)..(from + k * n + n - 1)
  BY <1>1, <1>2
<1> QED
  BY <1>2, <1>3 DEF d, k

\* A multiple is divided without a rest.
LEMMA Exact ==
    ASSUME NEW m \in Nat, NEW c \in Positive
    PROVE  m * c \in Nat /\ (m * c) \div c = m
<1> DEFINE a == m * c
           k == a \div c
<1>1. c \in Nat /\ a \in Nat
  BY Product DEF Positive
<1>2. k \in Nat /\ k * c \in Nat /\ k * c <= a /\ a < k * c + c
  BY <1>1, Quotient
<1>3. (k < m => k * c + c <= a) /\ (m < k => a + c <= k * c)
  BY <1>1, <1>2, Product
<1>4. c > 0
  BY DEF Positive
<1> HIDE DEF a, k
<1>5. k = m
  <2>1. ~(k < m) /\ ~(m < k)
    BY <1>1, <1>2, <1>3, <1>4
  <2> QED
    BY <1>2, <2>1
<1> QED
  BY <1>1, <1>5 DEF a, k

\* Granules and the copies' low-latency parts begin at whole words.
LEMMA WholeWords ==
    ASSUME NEW size \in Nat, Granule % Word = 0
    PROVE  \E l, w \in Nat :
              /\ LowFrom(size) = l * Word /\ Whole(size) = w * Word
              /\ HighBW(size) => l = w
              /\ ~HighBW(size) => l = 0
<1> DEFINE q == size \div Granule
           g == Granule \div Word
<1>1. q \in Nat
  BY Constants, Quotient
<1>2. g \in Nat /\ Granule = g * Word + (Granule % Word) /\ g * Word \in Nat
  BY Constants, Quotient
<1>3. Word \in Nat /\ Granule = g * Word
  BY <1>2, Constants
<1>4. Whole(size) = q * Granule
  BY DEF Whole
<1> HIDE DEF q, g
<1>5. q * g \in Nat
  BY <1>1, <1>2, Product
<1>6. Whole(size) = (q * g) * Word
  BY <1>1, <1>2, <1>3, <1>4
<1>7. 0 = 0 * Word
  BY <1>3
<1>8. CASE HighBW(size)
  BY <1>5, <1>6, <1>8 DEF LowFrom
<1>9. CASE ~HighBW(size)
  <2>1. LowFrom(size) = 0 * Word
    BY <1>7, <1>9 DEF LowFrom
  <2> QED
    BY <1>5, <1>6, <1>9, <2>1
<1> QED
  BY <1>8, <1>9

\* The same, with the numbers of words up to both beginnings.
LEMMA LowReachesFrom ==
    ASSUME NEW size \in Nat, NEW l \in Nat, NEW w \in Nat,
           LowFrom(size) = l * Word, Whole(size) = w * Word
    PROVE  /\ Whole(size) <= LowFrom(size) + Words(size) * Word
           /\ size % Word = 0 => LowFrom(size) + Words(size) * Word = size
<1>1. LowFrom(size) = l * Word /\ Whole(size) = w * Word
  OBVIOUS
<1> DEFINE s == size \div Word
<1>2. s \in Nat /\ s * Word \in Nat /\ size < s * Word + Word /\ Word \in Nat /\ Word > 0
      /\ size = s * Word + (size % Word)
  <2>1. Word \in Nat /\ Word > 0
    BY Constants DEF Positive
  <2>2. s \in Nat /\ s * Word \in Nat /\ size < s * Word + Word
        /\ size = s * Word + (size % Word)
    BY Constants, Quotient
  <2> QED
    BY <2>1, <2>2
<1>3. /\ Whole(size) \in Nat /\ Whole(size) <= size
      /\ LowFrom(size) \in Nat /\ LowFrom(size) <= Whole(size)
      /\ Words(size) * Word \in Nat
  BY CutFacts
<1> HIDE DEF s
<1>4. w <= s /\ l <= s
  <2>1. s < w => s * Word + Word <= w * Word
    BY <1>2, Product
  <2>2. w <= s
    BY <1>1, <1>2, <1>3, <2>1
  <2>3. l <= w
    <3>1. w < l => w * Word + Word <= l * Word
      BY <1>2, Product
    <3> QED
      BY <1>1, <1>2, <1>3, <3>1
  <2> QED
    BY <1>2, <2>2, <2>3
<1>5. Whole(size) <= LowFrom(size) + Words(size) * Word
  <2>1. CASE HighBW(size)
    BY <1>3, <2>1 DEF LowFrom
  <2>2. CASE ~HighBW(size)
    <3>1. Words(size) = s /\ LowFrom(size) = 0
      BY <2>2 DEF LowFrom, Words, s
    <3>2. w * Word <= s * Word
      BY <1>2, <1>4, Product
    <3> QED
      BY <1>1, <1>2, <3>1, <3>2
  <2> QED
    BY <2>1, <2>2
<1>6. ASSUME size % Word = 0
      PROVE  LowFrom(size) + Words(size) * Word = size
  <2>1. size = s * Word
    BY <1>2, <1>6
  <2>2. s - l \in Nat
    BY <1>2, <1>4
  <2>3. (s - l) * Word = s * Word - l * Word
    BY <1>2
  <2>4. size - LowFrom(size) = (s - l) * Word
    BY <1>1, <2>1, <2>3
  <2>5. Words(size) = s - l
    BY <2>2, <2>4, Exact, Constants DEF Words
  <2>6. Words(size) * Word = size - LowFrom(size)
    BY <2>4, <2>5
  <2> QED
    BY <1>3, <2>6
<1> QED
  BY <1>5, <1>6

\* The low-latency kernel reaches at least to where the trailing one begins,
\* and to the end when the size is a multiple of words.
LEMMA LowReaches ==
    ASSUME NEW size \in Nat, Granule % Word = 0
    PROVE  /\ Whole(size) <= LowFrom(size) + Words(size) * Word
           /\ size % Word = 0 => LowFrom(size) + Words(size) * Word = size
BY WholeWords, LowReachesFrom

\* The first row of a grid.
LEMMA FirstRow ==
    ASSUME NEW p, p.x \in Nat, p.y \in Nat, p.y > 0, NEW k \in Nat, k < p.x
    PROVE  <<k, 0>> \in Grid(p)
<1>1. k \in 0..(p.x - 1) /\ 0 \in 0..(p.y - 1)
  OBVIOUS
<1> QED
  BY <1>1 DEF Grid

\* The grid of every kernel has as many blocks as its bytes need.
LEMMA ByteInBlock ==
    ASSUME NEW size \in Nat, NEW j \in Nat
    PROVE  /\ j < Whole(size) =>
                 \E b \in Grid(KernelHighBW(size)) : j \in Bytes(KernelHighBW(size), b)
           /\ LowFrom(size) <= j /\ j < LowFrom(size) + Words(size) * Word =>
                 \E b \in Grid(KernelLowLatency(size)) : j \in Bytes(KernelLowLatency(size), b)
           /\ Whole(size) <= j /\ j < size =>
                 \E b \in Grid(KernelTrailing(size)) : j \in Bytes(KernelTrailing(size), b)
<1>1. ASSUME j < Whole(size)
      PROVE  \E b \in Grid(KernelHighBW(size)) : j \in Bytes(KernelHighBW(size), b)
  <2> DEFINE x == size \div Granule
             k == j \div Granule
             p == KernelHighBW(size)
  <2>1. x \in Nat /\ k \in Nat
    BY Constants, Quotient
  <2>2. k < x
    BY <1>1, <2>1, QuotientBelow, Constants DEF Whole
  <2>3. p.x = x /\ p.y = CeilDiv(x, MaxGridX) /\ p.y \in Nat /\ p.y > 0
    <3>1. x > 0
      BY <2>1, <2>2
    <3>2. CeilDiv(x, MaxGridX) \in Nat /\ CeilDiv(x, MaxGridX) > 0
      BY <2>1, <3>1, Ceiling, Constants
    <3> QED
      BY <3>2 DEF KernelHighBW
  <2>4. <<k, 0>> \in Grid(p)
    BY <2>1, <2>2, <2>3, FirstRow
  <2>5. k * Granule \in Nat /\ k * Granule <= j /\ j < k * Granule + Granule /\ Granule \in Nat
    BY Constants, Quotient
  <2>6. j \in (k * Granule)..(k * Granule + Granule - 1)
    BY <2>5
  <2>7. j \in Bytes(p, <<k, 0>>)
    BY <2>1, <2>6, BlockBytes
  <2> QED
    BY <2>4, <2>7
<1>2. ASSUME LowFrom(size) <= j, j < LowFrom(size) + Words(size) * Word
      PROVE  \E b \in Grid(KernelLowLatency(size)) : j \in Bytes(KernelLowLatency(size), b)
  <2> DEFINE n == Block * Word
             k == (j - LowFrom(size)) \div n
             p == KernelLowLatency(size)
             c == CeilDiv(Words(size), Block)
  <2>1. LowFrom(size) \in Nat /\ Words(size) \in Nat /\ Words(size) * Word \in Nat
    BY CutFacts
  <2>2. k \in Nat /\ j \in (LowFrom(size) + k * n)..(LowFrom(size) + k * n + n - 1)
    BY <1>2, <2>1, InBlock, Constants
  <2>3. c \in Nat /\ Words(size) <= c * Block
    BY <2>1, Ceiling, Constants
  <2>4. c * Block \in Nat /\ Words(size) * Word <= (c * Block) * Word
    BY <2>1, <2>3, Product, Constants
  <2>5. (c * Block) * Word = c * n /\ c * n \in Nat
    BY <2>3, Constants
  <2>6. j - LowFrom(size) \in Nat /\ j - LowFrom(size) < c * n
    BY <1>2, <2>1, <2>4, <2>5
  <2>7. k < c
    BY <2>3, <2>6, QuotientBelow, Constants
  <2>8. p.x = c /\ p.y = 1
    BY DEF KernelLowLatency, Words, LowFrom
  <2>9. <<k, 0>> \in Grid(p)
    BY <2>2, <2>3, <2>7, <2>8, FirstRow
  <2>10. j \in 0..(LowFrom(size) + Words(size) * Word - 1)
    BY <1>2, <2>1
  <2>11. j \in Bytes(p, <<k, 0>>)
    BY <2>2, <2>10, BlockBytes
  <2> QED
    BY <2>9, <2>11
<1>3. ASSUME Whole(size) <= j, j < size
      PROVE  \E b \in Grid(KernelTrailing(size)) : j \in Bytes(KernelTrailing(size), b)
  <2> DEFINE k == (j - Whole(size)) \div Block
             p == KernelTrailing(size)
             c == CeilDiv(size - Whole(size), Block)
  <2>1. Whole(size) \in Nat /\ size - Whole(size) \in Nat
    BY CutFacts
  <2>2. k \in Nat /\ j \in (Whole(size) + k * Block)..(Whole(size) + k * Block + Block - 1)
    BY <1>3, <2>1, InBlock, Constants
  <2>3. c \in Nat /\ size - Whole(size) <= c * Block /\ c * Block \in Nat
    BY <2>1, Ceiling, Product, Constants
  <2>4. j - Whole(size) \in Nat /\ j - Whole(size) < c * Block
    BY <1>3, <2>1, <2>3
  <2>5. k < c
    BY <2>3, <2>4, QuotientBelow, Constants
  <2>6. p.x = c /\ p.y = 1
    BY DEF KernelTrailing
  <2>7. <<k, 0>> \in Grid(p)
    BY <2>2, <2>3, <2>5, <2>6, FirstRow
  <2>8. j \in 0..(size - 1)
    BY <1>3
  <2>9. j \in Bytes(p, <<k, 0>>)
    BY <2>2, <2>8, BlockBytes
  <2> QED
    BY <2>7, <2>9
<1> QED
  BY <1>1, <1>2, <1>3

\* The copy of any size is whole: a byte is copied by some block of one of the
\* kernels exactly when it is below the size, provided that a granule is a
\* number of words and that the HighBW kernel needs one row of blocks, which
\* holds below 256 MiB (memcopy.cpp:77-158, memcpy.cu:5-28).
THEOREM EveryByteCopied ==
    ASSUME NEW size \in Nat, size \div Granule <= MaxGridX, Granule % Word = 0
    PROVE  \A j \in Nat :
              j < size <=> \E i \in DOMAIN Pieces(size) : \E b \in Grid(Pieces(size)[i]) :
                              j \in Bytes(Pieces(size)[i], b)
<1>1. ASSUME NEW j \in Nat, NEW i \in DOMAIN Pieces(size), NEW b \in Grid(Pieces(size)[i]),
             j \in Bytes(Pieces(size)[i], b)
      PROVE  j < size
  <2>1. j \in 0..(size - 1)
    BY <1>1, BlocksWithin
  <2> QED
    BY <2>1
<1>2. ASSUME NEW j \in Nat, j < size
      PROVE  \E i \in DOMAIN Pieces(size) : \E b \in Grid(Pieces(size)[i]) :
                j \in Bytes(Pieces(size)[i], b)
  <2>1. CASE HighBW(size) /\ j < Whole(size)
    BY <2>1, PiecePresence, ByteInBlock
  <2>2. ASSUME ~(HighBW(size) /\ j < Whole(size)), j < LowFrom(size) + Words(size) * Word
        PROVE  \E i \in DOMAIN Pieces(size) : \E b \in Grid(Pieces(size)[i]) :
                  j \in Bytes(Pieces(size)[i], b)
    <3>1. LowFrom(size) <= j
      <4>1. CASE HighBW(size)
        <5>1. LowFrom(size) = Whole(size) /\ ~(j < Whole(size)) /\ Whole(size) \in Nat
          BY <2>2, <4>1, CutFacts DEF LowFrom
        <5> QED
          BY <5>1
      <4>2. CASE ~HighBW(size)
        BY <4>2 DEF LowFrom
      <4> QED
        BY <4>1, <4>2
    <3>2. ~HighBW(size) \/ size % Granule # 0
      <4> SUFFICES ASSUME HighBW(size), size % Granule = 0
                   PROVE  FALSE
        OBVIOUS
      <4>1. Whole(size) = size
        <5>1. size = Whole(size) + (size % Granule) /\ Whole(size) \in Nat
          BY Constants, Quotient DEF Whole
        <5> QED
          BY <5>1
      <4> QED
        BY <1>2, <2>2, <4>1
    <3> QED
      BY <2>2, <3>1, <3>2, PiecePresence, ByteInBlock
  <2>3. ASSUME ~(j < LowFrom(size) + Words(size) * Word)
        PROVE  \E i \in DOMAIN Pieces(size) : \E b \in Grid(Pieces(size)[i]) :
                  j \in Bytes(Pieces(size)[i], b)
    <3>1. LowFrom(size) + Words(size) * Word \in Nat /\ Whole(size) \in Nat
      <4>1. LowFrom(size) \in Nat /\ Words(size) * Word \in Nat /\ Whole(size) \in Nat
        BY CutFacts
      <4> QED
        BY <4>1
    <3>2. /\ Whole(size) <= LowFrom(size) + Words(size) * Word
          /\ size % Word = 0 => LowFrom(size) + Words(size) * Word = size
      BY LowReaches
    <3>3. Whole(size) <= j
      BY <2>3, <3>1, <3>2
    <3>4. size % Word # 0
      BY <1>2, <2>3, <3>2
    <3> QED
      BY <1>2, <3>3, <3>4, PiecePresence, ByteInBlock
  <2> QED
    BY <2>1, <2>2, <2>3
<1> QED
  BY <1>1, <1>2

-----------------------------------------------------------------------------
(* The behaviours.                                                         *)

\* The jobs whose blocks stay below what programs have copied to their
\* destination.
FitJobs ==
    {job \in Job : \A b \in Grid(job.piece) :
                      Bytes(job.piece, b) \subseteq 0..(reach[job.dst] - 1)}

\* The part of the state that copies are made of.
CopyState ==
    /\ work \in Seq(Job) /\ call \in Seq(Job)
    /\ blocks \in Seq(SUBSET (Nat \X Nat)) /\ Len(blocks) = Len(work)
    /\ mem \in [Buffers -> [Offsets -> Buffers]]
    /\ reach \in [Buffers -> Nat]

\* Nothing that is yet to run reaches beyond.
NothingWillReachBeyond ==
    /\ work \in Seq(FitJobs) /\ call \in Seq(FitJobs)
    /\ \A i \in 1..Len(work) : blocks[i] \subseteq Grid(work[i].piece)

ReachInv == CopyState /\ NothingWillReachBeyond /\ NothingBeyond

\* Longer copies leave more room.
LEMMA FitsMonotone ==
    ASSUME reach \in [Buffers -> Nat], reach' \in [Buffers -> Nat],
           \A b \in Buffers : reach[b] <= reach'[b]
    PROVE  FitJobs \subseteq FitJobs'
<1> SUFFICES ASSUME NEW job \in FitJobs
             PROVE  job \in FitJobs'
  OBVIOUS
<1>1. job \in Job /\ job.dst \in Buffers
  BY DEF FitJobs, Job
<1>2. 0..(reach[job.dst] - 1) \subseteq 0..(reach'[job.dst] - 1)
  BY <1>1
<1> QED
  BY <1>1, <1>2 DEF FitJobs

\* The kernels and the DMA line of a call are what their types say.
LEMMA PieceTypes ==
    ASSUME NEW size \in Nat
    PROVE  /\ KernelHighBW(size) \in Piece /\ KernelLowLatency(size) \in Piece
           /\ KernelTrailing(size) \in Piece
           /\ [fn |-> "Dma", at |-> 0, n |-> size, x |-> 1, y |-> 1] \in Piece
<1>1. /\ size - Whole(size) \in Nat /\ Words(size) \in Nat /\ size \div Granule \in Nat
  BY CutTypes
<1>2. Whole(size) \in Nat /\ LowFrom(size) \in Nat
  BY CutFacts
<1>3. KernelHighBW(size) \in Piece
  <2>1. CeilDiv(size \div Granule, MaxGridX) \in Nat
    BY <1>1, Ceiling, Constants
  <2> QED
    BY <1>1, <2>1 DEF KernelHighBW, Piece
<1>4. KernelLowLatency(size) \in Piece
  <2>1. CeilDiv(Words(size), Block) \in Nat
    BY <1>1, Ceiling, Constants
  <2>2. KernelLowLatency(size) = [fn |-> "LowLatency", at |-> LowFrom(size), n |-> Words(size),
                                  x |-> CeilDiv(Words(size), Block), y |-> 1]
    BY DEF KernelLowLatency, LowFrom, Words
  <2> QED
    BY <1>1, <1>2, <2>1, <2>2 DEF Piece
<1>5. KernelTrailing(size) \in Piece
  <2>1. CeilDiv(size - Whole(size), Block) \in Nat
    BY <1>1, Ceiling, Constants
  <2> QED
    BY <1>1, <1>2, <2>1 DEF KernelTrailing, Piece
<1>6. [fn |-> "Dma", at |-> 0, n |-> size, x |-> 1, y |-> 1] \in Piece
  BY DEF Piece
<1> QED
  BY <1>3, <1>4, <1>5, <1>6

\* A sequence over a set is one over every larger set.
LEMMA SubsetSeq ==
    ASSUME NEW S, NEW T, S \subseteq T, NEW q \in Seq(S)
    PROVE  q \in Seq(T)
<1>1. q = [i \in 1..Len(q) |-> q[i]] /\ Len(q) \in Nat /\ \A i \in 1..Len(q) : q[i] \in T
  OBVIOUS
<1> QED
  BY <1>1, SeqDef

\* The parts of a call, before they become jobs.
Parts(dst, src, size) ==
    IF Type(dst, src) = "COMPUTE" THEN Pieces(size) ELSE DmaLines(size)

\* The DMA line, if there is one, copies what it was asked for.
LEMMA DmaParts ==
    ASSUME NEW size \in Nat
    PROVE  /\ DmaLines(size) \in Seq(Piece)
           /\ \A i \in DOMAIN DmaLines(size) : \A b \in Grid(DmaLines(size)[i]) :
                 Bytes(DmaLines(size)[i], b) \subseteq 0..(size - 1)
<1> DEFINE Dma == [fn |-> "Dma", at |-> 0, n |-> size, x |-> 1, y |-> 1]
<1>1. DmaLines(size) = <<>> \/ DmaLines(size) = <<Dma>>
  BY DEF DmaLines
<1>2. <<Dma>> \in Seq(Piece) /\ <<>> \in Seq(Piece)
  BY PieceTypes
<1>3. \A b \in Grid(Dma) : Bytes(Dma, b) \subseteq 0..(size - 1)
  BY DEF Bytes
<1>4. DOMAIN <<Dma>> = {1} /\ <<Dma>>[1] = Dma /\ DOMAIN <<>> = {}
  OBVIOUS
<1> HIDE DEF Dma
<1> QED
  BY <1>1, <1>2, <1>3, <1>4

\* What a call launches are jobs, one for each part.
LEMMA JobTypes ==
    ASSUME NEW dst \in Buffers, NEW src \in Buffers, NEW size \in Nat, NEW async \in BOOLEAN
    PROVE  /\ Jobs(dst, src, size, async) \in Seq(Job)
           /\ DOMAIN Jobs(dst, src, size, async) = DOMAIN Parts(dst, src, size)
           /\ \A i \in DOMAIN Jobs(dst, src, size, async) :
                 /\ Jobs(dst, src, size, async)[i].dst = dst
                 /\ Jobs(dst, src, size, async)[i].piece = Parts(dst, src, size)[i]
<1> DEFINE pieces == Parts(dst, src, size)
           jobs == Jobs(dst, src, size, async)
<1>1. jobs = [i \in DOMAIN pieces |->
                [piece |-> pieces[i], dst |-> dst, src |-> src, async |-> LaunchIsAsync(i, async)]]
  BY DEF Jobs, Parts
<1>2. pieces \in Seq(Piece)
  <2>1. Pieces(size) \in Seq(Piece)
    <3> DEFINE kinds == {KernelHighBW(size), KernelLowLatency(size), KernelTrailing(size)}
    <3>1. Pieces(size) \in Seq(kinds) /\ kinds \subseteq Piece
      BY PieceKinds, PieceTypes
    <3> HIDE DEF kinds
    <3> QED
      BY <3>1, SubsetSeq
  <2> QED
    BY <2>1, DmaParts DEF Parts
<1> HIDE DEF pieces, jobs
<1>3. ASSUME NEW i \in DOMAIN pieces
      PROVE  jobs[i] \in Job /\ jobs[i].dst = dst /\ jobs[i].piece = pieces[i]
  <2>1. LaunchIsAsync(i, async) \in BOOLEAN
    BY DEF LaunchIsAsync
  <2>2. pieces[i] \in Piece
    BY <1>2
  <2>3. jobs[i] = [piece |-> pieces[i], dst |-> dst, src |-> src,
                   async |-> LaunchIsAsync(i, async)]
    BY <1>1
  <2> QED
    BY <2>1, <2>2, <2>3 DEF Job
<1>4. DOMAIN jobs = DOMAIN pieces /\ DOMAIN pieces = 1..Len(pieces) /\ Len(pieces) \in Nat
  BY <1>1, <1>2
<1>5. jobs = [i \in 1..Len(pieces) |-> jobs[i]]
  BY <1>1, <1>4
<1>6. jobs \in Seq(Job)
  BY <1>3, <1>4, <1>5, SeqDef
<1> QED
  BY <1>3, <1>4, <1>6 DEF jobs, pieces

\* What a call launches stays within its size.
LEMMA JobsFit ==
    ASSUME NEW dst \in Buffers, NEW src \in Buffers, NEW size \in Nat, NEW async \in BOOLEAN,
           Within(Type(dst, src), size), NEW i \in DOMAIN Jobs(dst, src, size, async),
           NEW b \in Grid(Jobs(dst, src, size, async)[i].piece)
    PROVE  Bytes(Jobs(dst, src, size, async)[i].piece, b) \subseteq 0..(size - 1)
<1>1. i \in DOMAIN Parts(dst, src, size) /\ b \in Grid(Parts(dst, src, size)[i])
  BY JobTypes
<1>2. Bytes(Parts(dst, src, size)[i], b) \subseteq 0..(size - 1)
  <2>1. CASE Type(dst, src) = "COMPUTE"
    <3>1. size \div Granule <= MaxGridX
      BY <2>1 DEF Within
    <3> QED
      BY <1>1, <2>1, <3>1, BlocksWithin DEF Parts
  <2>2. CASE Type(dst, src) # "COMPUTE"
    BY <1>1, <2>2, DmaParts DEF Parts
  <2> QED
    BY <2>1, <2>2
<1> QED
  BY <1>2, JobTypes

\* The blocks of a job.
LEMMA GridType ==
    ASSUME NEW job \in Job
    PROVE  Grid(job.piece) \in SUBSET (Nat \X Nat)
<1>1. job.piece.x \in Nat /\ job.piece.y \in Nat
  BY DEF Job, Piece
<1>2. 0..(job.piece.x - 1) \subseteq Nat /\ 0..(job.piece.y - 1) \subseteq Nat
  BY <1>1
<1> QED
  BY <1>2 DEF Grid

\* Nothing has been copied before the first call.
LEMMA ReachInit == Init => ReachInv
<1> SUFFICES ASSUME Init PROVE ReachInv
  OBVIOUS
<1>1. work = <<>> /\ blocks = <<>> /\ call = <<>> /\ mem = Fresh
      /\ reach = [b \in Buffers |-> 0]
  BY DEF Init
<1>2. Fresh \in [Buffers -> [Offsets -> Buffers]]
  BY DEF Fresh
<1>3. CopyState
  BY <1>1, <1>2 DEF CopyState
<1>4. NothingWillReachBeyond
  BY <1>1 DEF NothingWillReachBeyond
<1>5. NothingBeyond
  BY <1>1 DEF NothingBeyond, Fresh
<1> QED
  BY <1>3, <1>4, <1>5 DEF ReachInv

\* The state of the copies keeps its types, within the limits or not.
LEMMA CopyStateStep == CopyState /\ [Next]_vars => CopyState'
<1> SUFFICES ASSUME CopyState, [Next]_vars
             PROVE  CopyState'
  OBVIOUS
<1> USE DEF CopyState
<1>1. ASSUME NEW dst \in Buffers, NEW src \in Buffers, NEW size \in Sizes, NEW async \in BOOLEAN,
             MemCpy(dst, src, size, async)
      PROVE  CopyState'
  <2>1. size \in Nat
    BY CopyAssumption
  <2>2. call' \in Seq(Job)
    BY <1>1, <2>1, JobTypes DEF MemCpy
  <2>3. reach' \in [Buffers -> Nat]
    BY <1>1, <2>1 DEF MemCpy
  <2> QED
    BY <1>1, <2>2, <2>3 DEF MemCpy
<1>2. CASE Launch
  <2>1. Head(call) \in Job /\ Tail(call) \in Seq(Job)
    BY <1>2 DEF Launch
  <2>2. Grid(Head(call).piece) \in SUBSET (Nat \X Nat)
    BY <2>1, GridType
  <2>3. work' = Append(work, Head(call)) /\ blocks' = Append(blocks, Grid(Head(call).piece))
        /\ call' = Tail(call) /\ UNCHANGED <<mem, reach>>
    BY <1>2 DEF Launch, history
  <2>4. work' \in Seq(Job) /\ Len(work') = Len(work) + 1
    BY <2>1, <2>3
  <2>5. blocks' \in Seq(SUBSET (Nat \X Nat)) /\ Len(blocks') = Len(blocks) + 1
    BY <2>2, <2>3, AppendProperties
  <2> QED
    BY <2>1, <2>3, <2>4, <2>5
<1>3. CASE LaunchFails
  BY <1>3 DEF LaunchFails, history
<1>4. CASE StreamAwait \/ StartOp \/ CompleteOp \/ UNCHANGED vars
  BY <1>4 DEF StreamAwait, StartOp, CompleteOp, vars, history
<1>5. CASE RunBlock
  <2>0. PICK i \in DOMAIN work : \E b \in blocks[i] :
           /\ blocks' = [blocks EXCEPT ![i] = @ \ {b}]
           /\ mem' = [mem EXCEPT ![work[i].dst] =
                 [j \in Offsets |->
                    IF j \in Bytes(work[i].piece, b) THEN mem[work[i].src][j] ELSE @[j]]]
    BY <1>5 DEF RunBlock
  <2>1. PICK b \in blocks[i] :
           /\ blocks' = [blocks EXCEPT ![i] = @ \ {b}]
           /\ mem' = [mem EXCEPT ![work[i].dst] =
                 [j \in Offsets |->
                    IF j \in Bytes(work[i].piece, b) THEN mem[work[i].src][j] ELSE @[j]]]
    BY <2>0
  <2>2. work[i].dst \in Buffers /\ work[i].src \in Buffers
    <3>1. work[i] \in Job
      OBVIOUS
    <3> QED
      BY <3>1 DEF Job
  <2>3. mem' \in [Buffers -> [Offsets -> Buffers]]
    <3> DEFINE m == [j \in Offsets |->
                       IF j \in Bytes(work[i].piece, b) THEN mem[work[i].src][j]
                                                       ELSE mem[work[i].dst][j]]
    <3>1. m \in [Offsets -> Buffers]
      BY <2>2
    <3>2. mem' = [mem EXCEPT ![work[i].dst] = m]
      BY <2>1
    <3> HIDE DEF m
    <3> QED
      BY <2>2, <3>1, <3>2
  <2>4. blocks' \in Seq(SUBSET (Nat \X Nat)) /\ Len(blocks') = Len(blocks)
    <3>1. i \in 1..Len(blocks) /\ blocks[i] \ {b} \in SUBSET (Nat \X Nat)
      BY <2>1
    <3> QED
      BY <2>1, <3>1, ExceptSeq
  <2> QED
    BY <1>5, <2>3, <2>4 DEF RunBlock, history
<1> QED
  BY <1>1, <1>2, <1>3, <1>4, <1>5 DEF Next

\* The call makes room for its jobs.
LEMMA CallKeeps ==
    ASSUME CopyState, reach' \in [Buffers -> Nat],
           NEW dst \in Buffers, NEW src \in Buffers, NEW size \in Nat, NEW async \in BOOLEAN,
           Within(Type(dst, src), size),
           reach' = [reach EXCEPT ![dst] = IF @ < size THEN size ELSE @]
    PROVE  /\ \A b \in Buffers : reach[b] <= reach'[b]
           /\ Jobs(dst, src, size, async) \in Seq(FitJobs')
<1> DEFINE jobs == Jobs(dst, src, size, async)
<1>1. /\ \A b \in Buffers : reach[b] <= reach'[b]
      /\ size <= reach'[dst] /\ reach'[dst] \in Nat
  BY DEF CopyState
<1>2. 0..(size - 1) \subseteq 0..(reach'[dst] - 1)
  BY <1>1
<1>3. /\ jobs \in Seq(Job)
      /\ \A i \in DOMAIN jobs : jobs[i].dst = dst
  <2>1. jobs \in Seq(Job)
    BY JobTypes
  <2>2. ASSUME NEW i \in DOMAIN jobs
        PROVE  jobs[i].dst = dst
    BY JobTypes
  <2> QED
    BY <2>1, <2>2
<1>4. \A i \in DOMAIN jobs : \A b \in Grid(jobs[i].piece) :
         Bytes(jobs[i].piece, b) \subseteq 0..(size - 1)
  BY JobsFit
<1> HIDE DEF jobs
<1>5. ASSUME NEW i \in DOMAIN jobs
      PROVE  jobs[i] \in FitJobs'
  <2>1. jobs[i] \in Job
    BY <1>3, LenProperties, ElementOfSeq
  <2>2. \A b \in Grid(jobs[i].piece) :
           Bytes(jobs[i].piece, b) \subseteq 0..(reach'[jobs[i].dst] - 1)
    BY <1>2, <1>3, <1>4, Zenon
  <2> QED
    BY <2>1, <2>2 DEF FitJobs
<1>6. jobs = [i \in 1..Len(jobs) |-> jobs[i]] /\ Len(jobs) \in Nat /\ DOMAIN jobs = 1..Len(jobs)
  BY <1>3
<1>7. jobs \in Seq(FitJobs')
  BY <1>5, <1>6, SeqDef
<1> QED
  BY <1>1, <1>7 DEF jobs

\* More room changes nothing for what is beyond.
LEMMA BeyondMonotone ==
    ASSUME NothingBeyond, mem' = mem,
           reach \in [Buffers -> Nat], reach' \in [Buffers -> Nat],
           \A b \in Buffers : reach[b] <= reach'[b]
    PROVE  NothingBeyond'
<1> SUFFICES ASSUME NEW b \in Buffers, NEW i \in Offsets, mem'[b][i] # b
             PROVE  i < reach'[b]
  BY DEF NothingBeyond
<1>1. i < reach[b] /\ reach[b] <= reach'[b]
  BY DEF NothingBeyond
<1>2. i \in Int /\ reach[b] \in Int /\ reach'[b] \in Int
  BY BufferAssumption DEF Offsets
<1> QED
  BY <1>1, <1>2

\* A block changes bytes of its own only.
LEMMA BlockKeeps ==
    ASSUME NothingBeyond, mem \in [Buffers -> [Offsets -> Buffers]], reach \in [Buffers -> Nat],
           NEW dst \in Buffers, NEW src \in Buffers, NEW bytes \in SUBSET (0..(reach[dst] - 1)),
           mem' = [mem EXCEPT ![dst] =
                     [j \in Offsets |-> IF j \in bytes THEN mem[src][j] ELSE @[j]]],
           reach' = reach
    PROVE  NothingBeyond'
<1> SUFFICES ASSUME NEW b \in Buffers, NEW i \in Offsets, mem'[b][i] # b
             PROVE  i < reach[b]
  BY DEF NothingBeyond
<1>1. CASE b = dst /\ i \in bytes
  <2>1. i \in 0..(reach[b] - 1) /\ reach[b] \in Nat
    BY <1>1
  <2> QED
    BY <2>1
<1>2. CASE ~(b = dst /\ i \in bytes)
  <2>1. mem'[b][i] = mem[b][i]
    BY <1>2
  <2> QED
    BY <2>1 DEF NothingBeyond
<1> QED
  BY <1>1, <1>2

\* A launch moves one job.
LEMMA LaunchKeeps ==
    ASSUME CopyState, NothingWillReachBeyond, call # <<>>,
           work' = Append(work, Head(call)),
           blocks' = Append(blocks, Grid(Head(call).piece)),
           call' = Tail(call), reach' = reach
    PROVE  NothingWillReachBeyond'
<1>1. FitJobs' = FitJobs
  BY DEF FitJobs
<1>2. work \in Seq(FitJobs) /\ call \in Seq(FitJobs)
  BY DEF NothingWillReachBeyond
<1>3. Head(call) \in FitJobs /\ Tail(call) \in Seq(FitJobs)
  BY <1>2, HeadTailProperties
<1>4. /\ Append(work, Head(call)) \in Seq(FitJobs)
      /\ Len(Append(work, Head(call))) = Len(work) + 1
      /\ \A i \in 1..Len(work) : Append(work, Head(call))[i] = work[i]
      /\ Append(work, Head(call))[Len(work) + 1] = Head(call)
  BY <1>2, <1>3, AppendProperties
<1>5. ASSUME NEW i \in 1..Len(work')
      PROVE  blocks'[i] \subseteq Grid(work'[i].piece)
  <2>1. /\ blocks \in Seq(SUBSET (Nat \X Nat)) /\ Len(blocks) = Len(work) /\ Len(work) \in Nat
    BY <1>2 DEF CopyState
  <2>2. CASE i \in 1..Len(work)
    <3>1. work'[i] = work[i]
      BY <1>4, <2>2
    <3>2. blocks'[i] = blocks[i]
      BY <2>1, <2>2
    <3> QED
      BY <2>2, <3>1, <3>2 DEF NothingWillReachBeyond
  <2>3. CASE i \notin 1..Len(work)
    <3>1. i = Len(work) + 1
      BY <1>4, <2>1, <2>3
    <3>2. work'[i] = Head(call)
      BY <1>4, <3>1
    <3>3. blocks'[i] = Grid(Head(call).piece)
      BY <2>1, <3>1
    <3> QED
      BY <3>2, <3>3
  <2> QED
    BY <2>2, <2>3
<1> QED
  BY <1>1, <1>3, <1>4, <1>5 DEF NothingWillReachBeyond

\* Within the limits, no step brings anything beyond into reach.
LEMMA ReachStep ==
    ASSUME "within limits" \in Rules
    PROVE  ReachInv /\ [Next]_vars => ReachInv'
<1> SUFFICES ASSUME ReachInv, [Next]_vars
             PROVE  ReachInv'
  OBVIOUS
<1>0. CopyState /\ CopyState' /\ NothingWillReachBeyond /\ NothingBeyond
  BY CopyStateStep DEF ReachInv
<1>1. reach \in [Buffers -> Nat] /\ reach' \in [Buffers -> Nat]
      /\ mem \in [Buffers -> [Offsets -> Buffers]]
  BY <1>0 DEF CopyState
<1>2. ASSUME NEW dst \in Buffers, NEW src \in Buffers, NEW size \in Sizes, NEW async \in BOOLEAN,
             MemCpy(dst, src, size, async)
      PROVE  ReachInv'
  <2>1. size \in Nat
    BY CopyAssumption
  <2>2. Within(Type(dst, src), size)
    BY <1>2 DEF MemCpy, MayCopy
  <2>3. /\ call' = Jobs(dst, src, size, async)
        /\ reach' = [reach EXCEPT ![dst] = IF @ < size THEN size ELSE @]
        /\ work' = work /\ blocks' = blocks /\ mem' = mem
    BY <1>2 DEF MemCpy
  <2>4. /\ \A b \in Buffers : reach[b] <= reach'[b]
        /\ call' \in Seq(FitJobs')
    BY <1>0, <1>1, <2>1, <2>2, <2>3, CallKeeps
  <2>5. work' \in Seq(FitJobs')
    BY <1>0, <1>1, <2>3, <2>4, FitsMonotone, SubsetSeq DEF NothingWillReachBeyond
  <2>6. NothingWillReachBeyond'
    BY <1>0, <2>3, <2>4, <2>5 DEF NothingWillReachBeyond
  <2>7. NothingBeyond'
    BY <1>0, <1>1, <2>3, <2>4, BeyondMonotone
  <2> QED
    BY <1>0, <2>6, <2>7 DEF ReachInv
<1>3. CASE Launch
  <2>1. /\ work' = Append(work, Head(call)) /\ blocks' = Append(blocks, Grid(Head(call).piece))
        /\ call' = Tail(call) /\ call # <<>>
        /\ mem' = mem /\ reach' = reach
    BY <1>3 DEF Launch, history
  <2>2. NothingWillReachBeyond'
    BY <1>0, <2>1, LaunchKeeps
  <2>3. NothingBeyond'
    BY <1>0, <2>1 DEF NothingBeyond
  <2> QED
    BY <1>0, <2>2, <2>3 DEF ReachInv
<1>4. CASE LaunchFails \/ StreamAwait \/ StartOp \/ CompleteOp \/ UNCHANGED vars
  <2>1. /\ call' = call \/ call' = <<>>
        /\ work' = work /\ blocks' = blocks /\ mem' = mem /\ reach' = reach
    BY <1>4 DEF LaunchFails, StreamAwait, StartOp, CompleteOp, vars, history
  <2>2. FitJobs' = FitJobs
    BY <2>1 DEF FitJobs
  <2>3. call' \in Seq(FitJobs)
    BY <1>0, <2>1, EmptySeq DEF NothingWillReachBeyond
  <2>4. NothingWillReachBeyond'
    BY <1>0, <2>1, <2>2, <2>3 DEF NothingWillReachBeyond
  <2>5. NothingBeyond'
    BY <1>0, <2>1 DEF NothingBeyond
  <2> QED
    BY <1>0, <2>4, <2>5 DEF ReachInv
<1>5. CASE RunBlock
  <2>1. PICK i \in DOMAIN work : \E b \in blocks[i] :
           /\ blocks' = [blocks EXCEPT ![i] = @ \ {b}]
           /\ mem' = [mem EXCEPT ![work[i].dst] =
                 [j \in Offsets |->
                    IF j \in Bytes(work[i].piece, b) THEN mem[work[i].src][j] ELSE @[j]]]
    BY <1>5 DEF RunBlock
  <2>2. PICK b \in blocks[i] :
           /\ blocks' = [blocks EXCEPT ![i] = @ \ {b}]
           /\ mem' = [mem EXCEPT ![work[i].dst] =
                 [j \in Offsets |->
                    IF j \in Bytes(work[i].piece, b) THEN mem[work[i].src][j] ELSE @[j]]]
    BY <2>1
  <2>3. work' = work /\ call' = call /\ reach' = reach
    BY <1>5 DEF RunBlock, history
  <2>4. i \in 1..Len(work) /\ work[i] \in FitJobs
    BY <1>0, LenProperties, ElementOfSeq DEF NothingWillReachBeyond
  <2>5. b \in Grid(work[i].piece)
    BY <1>0, <2>4 DEF NothingWillReachBeyond
  <2>6. /\ work[i].dst \in Buffers /\ work[i].src \in Buffers
        /\ Bytes(work[i].piece, b) \in SUBSET (0..(reach[work[i].dst] - 1))
    BY <2>4, <2>5 DEF FitJobs, Job
  <2>7. NothingBeyond'
    BY <1>0, <1>1, <2>2, <2>3, <2>6, BlockKeeps
  <2>8. \A k \in 1..Len(work) : blocks'[k] \subseteq blocks[k]
    <3>1. blocks \in Seq(SUBSET (Nat \X Nat)) /\ Len(blocks) = Len(work)
      BY <1>0 DEF CopyState
    <3>2. DOMAIN blocks = 1..Len(work)
      BY <3>1, LenProperties
    <3> QED
      BY <2>2, <3>2
  <2>9. FitJobs' = FitJobs
    BY <2>3 DEF FitJobs
  <2>10. NothingWillReachBeyond'
    BY <1>0, <2>3, <2>8, <2>9 DEF NothingWillReachBeyond
  <2> QED
    BY <1>0, <2>7, <2>10 DEF ReachInv
<1> QED
  BY <1>2, <1>3, <1>4, <1>5 DEF Next

-----------------------------------------------------------------------------
(* The theorem of the behaviours.                                          *)

\* Programs that keep to the limits never see a byte beyond their copies
\* change, for every size, every number of copies and every failure
\* (memcpy.cu:5-28, memcopy.cpp:77-158).
THEOREM NothingBeyondIsTouched ==
    ASSUME "within limits" \in Rules
    PROVE  Spec => []NothingBeyond
<1>1. ReachInv => NothingBeyond
  BY DEF ReachInv
<1>2. ReachInv /\ [Next]_vars => ReachInv'
  BY ReachStep
<1> QED
  BY <1>1, <1>2, ReachInit, PTL DEF Spec

-----------------------------------------------------------------------------
(* Types.                                                                  *)

\* The stream keeps its types, and its history grows with work.
StreamState ==
    /\ issued \in [{"stream"} -> Seq(Stream!OpKind)]
    /\ started \in SUBSET Stream!Ops /\ done \in SUBSET Stream!Ops
    /\ awaited \in [{"stream"} -> Nat]

\* The four steps of the stream keep its types; only Issue adds an operation.
LEMMA StreamStep ==
    /\ \A type \in {"COMPUTE", "DMA"}, async \in BOOLEAN :
          StreamState /\ Stream!Issue("stream", [type |-> type, async |-> async]) =>
             StreamState' /\ Len(issued'["stream"]) = Len(issued["stream"]) + 1
    /\ StreamState /\ Stream!AwaitReturns("stream") =>
          StreamState' /\ issued' = issued
    /\ \A o \in Stream!Ops : StreamState /\ Stream!Start(o) => StreamState' /\ issued' = issued
    /\ \A o : StreamState /\ Stream!Complete(o) => StreamState' /\ issued' = issued
<1>1. ASSUME NEW type \in {"COMPUTE", "DMA"}, NEW async \in BOOLEAN,
             StreamState, Stream!Issue("stream", [type |-> type, async |-> async])
      PROVE  StreamState' /\ Len(issued'["stream"]) = Len(issued["stream"]) + 1
  <2> DEFINE kind == [type |-> type, async |-> async]
  <2>1. kind \in Stream!OpKind
    BY DEF Stream!OpKind
  <2>2. /\ issued' = [issued EXCEPT !["stream"] = Append(@, kind)]
        /\ UNCHANGED <<started, done, awaited>>
    BY <1>1 DEF Stream!Issue
  <2>3. issued \in [{"stream"} -> Seq(Stream!OpKind)]
    BY <1>1 DEF StreamState
  <2> HIDE DEF kind
  <2>4. /\ Append(issued["stream"], kind) \in Seq(Stream!OpKind)
        /\ Len(Append(issued["stream"], kind)) = Len(issued["stream"]) + 1
    BY <2>1, <2>3, AppendProperties
  <2>5. /\ issued' \in [{"stream"} -> Seq(Stream!OpKind)]
        /\ issued'["stream"] = Append(issued["stream"], kind)
    BY <2>2, <2>3, <2>4
  <2> QED
    BY <1>1, <2>2, <2>4, <2>5 DEF StreamState
<1>2. ASSUME StreamState, Stream!AwaitReturns("stream")
      PROVE  StreamState' /\ issued' = issued
  <2>1. /\ awaited' = [awaited EXCEPT !["stream"] = Len(issued["stream"])]
        /\ UNCHANGED <<issued, started, done>>
    BY <1>2 DEF Stream!AwaitReturns
  <2>2. Len(issued["stream"]) \in Nat
    BY <1>2, LenProperties DEF StreamState
  <2> QED
    BY <1>2, <2>1, <2>2 DEF StreamState
<1>3. ASSUME NEW o \in Stream!Ops, StreamState, Stream!Start(o)
      PROVE  StreamState' /\ issued' = issued
  BY <1>3 DEF StreamState, Stream!Start
<1>4. ASSUME NEW o, StreamState, Stream!Complete(o)
      PROVE  StreamState' /\ issued' = issued
  BY <1>4 DEF StreamState, Stream!Complete
<1> QED
  BY <1>1, <1>2, <1>3, <1>4

HistoryState ==
    /\ copies \in Nat /\ failures \in Nat
    /\ recent \in Seq(Copied)
    /\ expected \in [Buffers -> [Offsets -> Buffers]]

TypeParts ==
    CopyState /\ StreamState /\ Len(issued["stream"]) = Len(work) /\ HistoryState

\* The types hold before the first call.
LEMMA TypeInit == Init => TypeParts
<1> SUFFICES ASSUME Init PROVE TypeParts
  OBVIOUS
<1>1. CopyState
  BY ReachInit DEF ReachInv
<1>2. StreamState /\ Len(issued["stream"]) = 0
  <2>1. /\ issued = [s \in {"stream"} |-> <<>>] /\ started = {} /\ done = {}
        /\ awaited = [s \in {"stream"} |-> 0]
    BY DEF Init, Stream!Init
  <2> QED
    BY <2>1 DEF StreamState
<1>3. HistoryState
  <2>1. Fresh \in [Buffers -> [Offsets -> Buffers]]
    BY DEF Fresh
  <2> QED
    BY <2>1 DEF Init, HistoryState
<1> QED
  BY <1>1, <1>2, <1>3 DEF TypeParts, Init

\* The history of a call.
LEMMA CallHistory ==
    ASSUME HistoryState, NEW dst \in Buffers, NEW src \in Buffers, NEW size \in Nat,
           NEW async \in BOOLEAN, MemCpy(dst, src, size, async)
    PROVE  HistoryState'
<1>1. [dst |-> dst, src |-> src, type |-> Type(dst, src), async |-> async] \in Copied
  BY DEF Copied, Type
<1>2. recent' \in Seq(Copied)
  BY <1>1, AppendProperties DEF HistoryState, MemCpy
<1>3. expected' \in [Buffers -> [Offsets -> Buffers]]
  <2> DEFINE e == [i \in Offsets |-> IF i < size THEN expected[src][i] ELSE expected[dst][i]]
  <2>1. e \in [Offsets -> Buffers]
    BY DEF HistoryState
  <2>2. expected' = [expected EXCEPT ![dst] = e]
    BY DEF MemCpy
  <2> HIDE DEF e
  <2> QED
    BY <2>1, <2>2 DEF HistoryState
<1>4. copies' = copies + 1 /\ failures' = failures
  BY DEF MemCpy
<1>5. copies' \in Nat /\ failures' \in Nat
  BY <1>4 DEF HistoryState
<1> QED
  BY <1>2, <1>3, <1>5 DEF HistoryState

\* Every step keeps the types.
LEMMA TypeStep == TypeParts /\ [Next]_vars => TypeParts'
<1> SUFFICES ASSUME TypeParts, [Next]_vars
             PROVE  TypeParts'
  OBVIOUS
<1>0. /\ CopyState /\ CopyState' /\ StreamState /\ HistoryState
      /\ Len(issued["stream"]) = Len(work)
  BY CopyStateStep DEF TypeParts
<1>1. ASSUME NEW dst \in Buffers, NEW src \in Buffers, NEW size \in Sizes, NEW async \in BOOLEAN,
             MemCpy(dst, src, size, async)
      PROVE  TypeParts'
  <2>1. size \in Nat
    BY CopyAssumption
  <2>2. HistoryState'
    BY <1>0, <1>1, <2>1, CallHistory
  <2>3. issued' = issued /\ started' = started /\ done' = done /\ awaited' = awaited /\ work' = work
    BY <1>1 DEF MemCpy, streamVars
  <2>4. StreamState'
    BY <1>0, <2>3 DEF StreamState
  <2> QED
    BY <1>0, <2>2, <2>3, <2>4 DEF TypeParts
<1>2. CASE Launch
  <2>1. Head(call) \in Job
    BY <1>0, <1>2, HeadTailProperties DEF Launch, CopyState
  <2> DEFINE type == Type(Head(call).dst, Head(call).src)
             async == Head(call).async
  <2>2. type \in {"COMPUTE", "DMA"} /\ async \in BOOLEAN
    BY <2>1 DEF Type, Job
  <2>3. /\ Stream!Issue("stream", [type |-> type, async |-> async])
        /\ work' = Append(work, Head(call))
        /\ HistoryState' = HistoryState
    BY <1>2 DEF Launch, history, HistoryState
  <2> HIDE DEF type, async
  <2>4. StreamState' /\ Len(issued'["stream"]) = Len(issued["stream"]) + 1
    BY <1>0, <2>2, <2>3, StreamStep
  <2>5. Len(work') = Len(work) + 1
    BY <1>0, <2>1, <2>3, AppendProperties DEF CopyState
  <2> QED
    BY <1>0, <2>3, <2>4, <2>5 DEF TypeParts
<1>3. CASE LaunchFails
  <2>1. /\ issued' = issued /\ started' = started /\ done' = done /\ awaited' = awaited
        /\ work' = work /\ failures' = failures + 1 /\ copies' = copies
        /\ recent' = recent /\ expected' = expected
    BY <1>3 DEF LaunchFails, streamVars, history
  <2>2. StreamState'
    BY <1>0, <2>1 DEF StreamState
  <2>3. HistoryState'
    BY <1>0, <2>1 DEF HistoryState
  <2> QED
    BY <1>0, <2>1, <2>2, <2>3 DEF TypeParts
<1>4. CASE StreamAwait
  <2>1. /\ Stream!AwaitReturns("stream") /\ work' = work
        /\ recent' = <<>> /\ expected' = expected /\ copies' = copies /\ failures' = failures
    BY <1>4 DEF StreamAwait
  <2>2. StreamState' /\ issued' = issued
    BY <1>0, <2>1, StreamStep
  <2>3. HistoryState'
    BY <1>0, <2>1, EmptySeq DEF HistoryState
  <2> QED
    BY <1>0, <2>1, <2>2, <2>3 DEF TypeParts
<1>5. CASE StartOp \/ CompleteOp
  <2>1. /\ work' = work
        /\ recent' = recent /\ expected' = expected /\ copies' = copies /\ failures' = failures
    BY <1>5 DEF StartOp, CompleteOp, history
  <2>2. StreamState' /\ issued' = issued
    BY <1>0, <1>5, StreamStep DEF StartOp, CompleteOp
  <2>3. HistoryState'
    BY <1>0, <2>1 DEF HistoryState
  <2> QED
    BY <1>0, <2>1, <2>2, <2>3 DEF TypeParts
<1>6. CASE RunBlock \/ UNCHANGED vars
  <2>1. /\ issued' = issued /\ started' = started /\ done' = done /\ awaited' = awaited
        /\ work' = work /\ recent' = recent /\ expected' = expected
        /\ copies' = copies /\ failures' = failures
    BY <1>6 DEF RunBlock, vars, streamVars, history
  <2>2. StreamState'
    BY <1>0, <2>1 DEF StreamState
  <2>3. HistoryState'
    BY <1>0, <2>1 DEF HistoryState
  <2> QED
    BY <1>0, <2>1, <2>2, <2>3 DEF TypeParts
<1> QED
  BY <1>1, <1>2, <1>3, <1>4, <1>5, <1>6 DEF Next

\* Whatever programs do and whatever fails, every launch of a copy is an
\* operation of the stream and every variable keeps its type
\* (memcopy.cpp:77-158).
THEOREM TypeCorrect == Spec => []TypeOK
<1>1. TypeParts => TypeOK
  BY DEF TypeParts, TypeOK, CopyState, StreamState, HistoryState, Stream!TypeOK
<1> QED
  BY <1>1, TypeInit, TypeStep, PTL DEF Spec

-----------------------------------------------------------------------------
(* That copies take effect.  An execution of the stream is explained by    *)
(* the calls so far, the call each operation belongs to, and the memory    *)
(* after each call; no variable of the model records them.                 *)

Request == [dst : Buffers, src : Buffers, size : Nat, async : BOOLEAN]
Memory == [Buffers -> [Offsets -> Buffers]]

JobsOf(c) == Jobs(c.dst, c.src, c.size, c.async)
TypeOf(c) == Type(c.dst, c.src)
Clash(c, d) == Conflict(c, d.dst, d.src)
Writes(c, b, j) == c.dst = b /\ j < c.size
After(m, c) ==
    [m EXCEPT ![c.dst] = [i \in Offsets |-> IF i < c.size THEN m[c.src][i] ELSE m[c.dst][i]]]

\* A block of one of the jobs copies byte j.
Covered(jobs, j) ==
    \E i \in DOMAIN jobs : \E b \in Grid(jobs[i].piece) : j \in Bytes(jobs[i].piece, b)

\* What the calls so far launch, with what the call in progress has yet to.
Launched == work \o call
Op(k) == <<"stream", k>>

\* The operations are the parts of the calls, call by call, and a synchronous
\* call begins with a synchronous operation.
PartOf(c, job) == \E i \in DOMAIN JobsOf(c) : job = JobsOf(c)[i]
Led(own, launched, k) == \E l \in 1..k : own[l] = own[k] /\ ~launched[l].async

AccountsFor(log, own, launched) ==
    /\ \A c \in 1..Len(log) :
          Within(TypeOf(log[c]), log[c].size) /\ log[c].dst # log[c].src
    /\ \A k \in 1..Len(launched) :
          /\ own[k] \in 1..Len(log)
          /\ PartOf(log[own[k]], launched[k])
          /\ ~log[own[k]].async => Led(own, launched, k)
    /\ \A k, l \in 1..Len(launched) : k <= l => own[k] <= own[l]
    /\ \A c \in 1..Len(log) : \A i \in DOMAIN JobsOf(log[c]) :
          \E k \in 1..Len(launched) : own[k] = c /\ launched[k] = JobsOf(log[c])[i]

Accounted(log, own) == AccountsFor(log, own, Launched)

Finished(own, c) == \A k \in 1..Len(Launched) : own[k] = c => Op(k) \in done

\* Between an asynchronous call and a call of its type that it clashes with,
\* there is one the stream does not let pass, or the older is done.
Separated(log, own) ==
    \A c, d \in 1..Len(log) :
        /\ c < d /\ log[d].async
        /\ TypeOf(log[c]) = TypeOf(log[d]) /\ Clash(log[c], log[d])
        => \/ \E m \in (c + 1)..(d - 1) : ~log[m].async \/ TypeOf(log[m]) # TypeOf(log[d])
           \/ Finished(own, c)

\* recent holds the newest calls, and those before were awaited.
Remembered(log, own) ==
    /\ Len(recent) <= Len(log)
    /\ \A i \in 1..Len(recent) :
          LET c == log[Len(log) - Len(recent) + i]
          IN  recent[i] = [dst |-> c.dst, src |-> c.src, type |-> TypeOf(c), async |-> c.async]
    /\ \A c \in 1..(Len(log) - Len(recent)) : Finished(own, c)

\* E holds the memory after each call, the last of which is expected; a byte
\* no call writes stays what it is.
Foreseen(log, E) ==
    /\ E[Len(log)] = expected
    /\ \A c \in 1..Len(log) : E[c] = After(E[c - 1], log[c])
    /\ \A c, d \in 0..Len(log), b \in Buffers, j \in Offsets :
          c <= d /\ (\A m \in (c + 1)..d : ~Writes(log[m], b, j)) => E[c][b][j] = E[d][b][j]

\* A block of the call that copies byte j has run.
Ran(k, j) == \E b \in Grid(work[k].piece) \ blocks[k] : j \in Bytes(work[k].piece, b)
Reached(own, c, j) == \E k \in 1..Len(work) : own[k] = c /\ Ran(k, j)

\* Of the calls that write byte j of b, those up to c have, and no other.
Current(log, own, c, b, j) ==
    \A m \in 1..Len(log) : Writes(log[m], b, j) => (m <= c <=> Reached(own, m, j))

\* A byte is what it was after the last call that has reached it.
Consistent(log, own, E) ==
    \A c \in 0..Len(log), b \in Buffers, j \in Offsets :
        Current(log, own, c, b, j) => mem[b][j] = E[c][b][j]

Explained ==
    \E log \in Seq(Request), own \in [Nat -> Nat], E \in [Nat -> Memory] :
        /\ Accounted(log, own) /\ Separated(log, own) /\ Remembered(log, own)
        /\ Foreseen(log, E) /\ Consistent(log, own, E)

\* The operations of the stream are those launched, and blocks run while the
\* operation does.
Matched ==
    /\ Stream!OrderInv
    /\ Len(work) <= MaxOps
    /\ \A k \in 1..Len(work) :
          /\ issued["stream"][k] =
                [type |-> Type(work[k].dst, work[k].src), async |-> work[k].async]
          /\ blocks[k] \subseteq Grid(work[k].piece)
          /\ Op(k) \notin started => blocks[k] = Grid(work[k].piece)
          /\ Op(k) \in done => blocks[k] = {}

EffectInv == TypeParts /\ Matched /\ (failures = 0 => Explained)

\* What programs keep to, and a granule is a number of words.
Kept == Rules = AllRules /\ Granule % Word = 0

-----------------------------------------------------------------------------
\* Every call within the limits launches something, its first operation
\* synchronous if it is, and its blocks copy the bytes of the call.
LEMMA CallParts ==
    ASSUME Kept, NEW dst \in Buffers, NEW src \in Buffers, NEW size \in Nat, NEW async \in BOOLEAN,
           NEW jobs, jobs = Jobs(dst, src, size, async), Within(Type(dst, src), size)
    PROVE  /\ jobs \in Seq(Job) /\ jobs # <<>>
           /\ ~async => ~jobs[1].async
           /\ \A i \in DOMAIN jobs : jobs[i].dst = dst /\ jobs[i].src = src
           /\ \A j \in Nat : j < size <=> Covered(jobs, j)
<1> DEFINE parts == Parts(dst, src, size)
<1>1. jobs = [i \in DOMAIN parts |->
                [piece |-> parts[i], dst |-> dst, src |-> src, async |-> LaunchIsAsync(i, async)]]
  BY DEF Jobs, Parts
<1>2. jobs \in Seq(Job)
  BY JobTypes
<1>3. /\ DOMAIN jobs = DOMAIN parts
      /\ \A i \in DOMAIN jobs : /\ jobs[i].dst = dst /\ jobs[i].src = src
                                /\ jobs[i].piece = parts[i]
                                /\ jobs[i].async = LaunchIsAsync(i, async)
  <2> HIDE DEF parts
  <2> QED
    BY <1>1
<1>4. /\ parts # <<>> /\ 1 \in DOMAIN parts
      /\ \A j \in Nat : j < size <=> \E i \in DOMAIN parts : \E b \in Grid(parts[i]) :
                                          j \in Bytes(parts[i], b)
  <2>1. CASE Type(dst, src) = "COMPUTE"
    <3>1. size \div Granule <= MaxGridX /\ Granule % Word = 0
      BY <2>1 DEF Within, Kept
    <3>2. parts = Pieces(size)
      BY <2>1 DEF Parts
    <3>3. \E i \in DOMAIN Pieces(size) : TRUE
      BY PiecePresence
    <3>4. Pieces(size) \in Seq(Piece)
      <4> DEFINE kinds == {KernelHighBW(size), KernelLowLatency(size), KernelTrailing(size)}
      <4>1. Pieces(size) \in Seq(kinds) /\ kinds \subseteq Piece
        BY PieceKinds, PieceTypes
      <4> HIDE DEF kinds
      <4> QED
        BY <4>1, SeqMonotonic
    <3>5. DOMAIN Pieces(size) = 1..Len(Pieces(size)) /\ Len(Pieces(size)) \in Nat
      BY <3>4, LenProperties
    <3>6. 1 \in DOMAIN Pieces(size) /\ Pieces(size) # <<>>
      BY <3>3, <3>5
    <3> HIDE DEF parts
    <3> QED
      BY <3>1, <3>2, <3>6, EveryByteCopied
  <2>2. CASE Type(dst, src) # "COMPUTE"
    <3> DEFINE Dma == [fn |-> "Dma", at |-> 0, n |-> size, x |-> 1, y |-> 1]
    <3>1. parts = <<Dma>>
      BY <2>2 DEF Parts, Within, DmaLines
    <3>2. \A b \in Grid(Dma) : Bytes(Dma, b) = 0..(size - 1)
      BY DEF Bytes
    <3>3. <<0, 0>> \in Grid(Dma)
      BY DEF Grid
    <3>4. \A j \in Nat : j < size <=> j \in 0..(size - 1)
      OBVIOUS
    <3>5. DOMAIN <<Dma>> = {1} /\ <<Dma>>[1] = Dma /\ <<Dma>> # <<>>
      OBVIOUS
    <3> HIDE DEF Dma, parts
    <3> QED
      BY <3>1, <3>2, <3>3, <3>4, <3>5
  <2> QED
    BY <2>1, <2>2
<1> HIDE DEF parts
<1>5. jobs # <<>> /\ 1 \in DOMAIN jobs
  <2>1. DOMAIN jobs # {} /\ DOMAIN <<>> = {}
    BY <1>3, <1>4
  <2> QED
    BY <1>3, <1>4, <2>1
<1>6. ~async => ~jobs[1].async
  BY <1>3, <1>5 DEF LaunchIsAsync
<1>7. \A j \in Nat : j < size <=> Covered(jobs, j)
  BY <1>3, <1>4, Zenon DEF Covered
<1> QED
  BY <1>2, <1>3, <1>5, <1>6, <1>7

\* The same for a call as it is remembered.
LEMMA RequestParts ==
    ASSUME Kept, NEW c \in Request, Within(TypeOf(c), c.size)
    PROVE  /\ JobsOf(c) \in Seq(Job) /\ JobsOf(c) # <<>>
           /\ ~c.async => ~JobsOf(c)[1].async
           /\ \A i \in DOMAIN JobsOf(c) : JobsOf(c)[i].dst = c.dst /\ JobsOf(c)[i].src = c.src
           /\ \A j \in Nat : j < c.size <=> Covered(JobsOf(c), j)
<1> PICK dst \in Buffers, src \in Buffers, size \in Nat, async \in BOOLEAN :
       c.dst = dst /\ c.src = src /\ c.size = size /\ c.async = async
  BY DEF Request
<1> DEFINE jobs == JobsOf(c)
<1>1. jobs = Jobs(dst, src, size, async) /\ Within(Type(dst, src), size)
  BY DEF JobsOf, TypeOf
<1> HIDE DEF jobs
<1>2. /\ jobs \in Seq(Job) /\ jobs # <<>>
      /\ ~async => ~jobs[1].async
      /\ \A i \in DOMAIN jobs : jobs[i].dst = dst /\ jobs[i].src = src
      /\ \A j \in Nat : j < size <=> Covered(jobs, j)
  BY <1>1, CallParts
<1> QED
  BY <1>2 DEF jobs

\* What an operation that has started had to wait for.
LEMMA Waited ==
    ASSUME Stream!OrderInv, Len(work) <= MaxOps, Len(work) \in Nat,
           NEW k \in 1..Len(work), NEW l \in 1..Len(work), k < l, Op(l) \in started,
           \/ issued["stream"][k].type # issued["stream"][l].type
           \/ ~issued["stream"][k].async \/ ~issued["stream"][l].async
    PROVE  Op(k) \in done /\ Op(k) \in started
<1>1. MaxOps \in Nat
  BY CopyAssumption
<1>2. Op(k) \in Stream!Ops /\ Op(l) \in Stream!Ops
  BY <1>1 DEF Op, Stream!Ops
<1>3. Stream!Precedes(Op(k), Op(l))
  BY DEF Op, Stream!Precedes
<1> QED
  BY <1>2, <1>3 DEF Stream!OrderInv, Stream!InOrder, Stream!AwaitedIsDone

\* What is launched, and what is yet to be.
LEMMA LaunchedIs ==
    ASSUME CopyState
    PROVE  /\ Launched \in Seq(Job) /\ Len(Launched) \in Nat /\ Len(work) \in Nat
           /\ Len(Launched) = Len(work) + Len(call) /\ Len(work) <= Len(Launched)
           /\ \A k \in 1..Len(work) : k \in 1..Len(Launched) /\ Launched[k] = work[k]
           /\ call = <<>> => Launched = work
<1>1. work \in Seq(Job) /\ call \in Seq(Job)
  BY DEF CopyState
<1>2. Len(work) \in Nat /\ Len(call) \in Nat
  BY <1>1, LenProperties
<1>3. /\ Launched \in Seq(Job) /\ Len(Launched) = Len(work) + Len(call)
      /\ \A k \in 1..(Len(work) + Len(call)) :
            Launched[k] = IF k <= Len(work) THEN work[k] ELSE call[k - Len(work)]
  BY <1>1, ConcatProperties DEF Launched
<1>4. call = <<>> => Launched = work
  BY <1>1, ConcatEmptySeq DEF Launched
<1> QED
  BY <1>2, <1>3, <1>4

\* An operation has the buffers and the type of its call.
LEMMA OfItsCall ==
    ASSUME Kept, CopyState, NEW log \in Seq(Request), NEW own \in [Nat -> Nat], Accounted(log, own),
           NEW k \in 1..Len(Launched)
    PROVE  /\ own[k] \in 1..Len(log) /\ log[own[k]] \in Request
           /\ Launched[k].dst = log[own[k]].dst /\ Launched[k].src = log[own[k]].src
           /\ Type(Launched[k].dst, Launched[k].src) = TypeOf(log[own[k]])
<1> DEFINE c == log[own[k]]
<1>1. /\ own[k] \in 1..Len(log)
      /\ PartOf(c, Launched[k])
      /\ Within(TypeOf(c), c.size)
  BY DEF Accounted, AccountsFor
<1>2. c \in Request
  BY <1>1, ElementOfSeq
<1> HIDE DEF c
<1>3. \A i \in DOMAIN JobsOf(c) : JobsOf(c)[i].dst = c.dst /\ JobsOf(c)[i].src = c.src
  BY <1>1, <1>2, RequestParts
<1>4. Launched[k].dst = c.dst /\ Launched[k].src = c.src
  BY <1>1, <1>3 DEF PartOf
<1> QED
  BY <1>1, <1>2, <1>4 DEF c, TypeOf

\* Operations of calls of different types, or of which one is synchronous, wait
\* for each other.
LEMMA CallsWait ==
    ASSUME Kept, TypeParts, Matched,
           NEW log \in Seq(Request), NEW own \in [Nat -> Nat], Accounted(log, own),
           NEW k \in 1..Len(Launched), NEW l \in 1..Len(work), k < l, Op(l) \in started,
           \/ TypeOf(log[own[k]]) # TypeOf(log[own[l]])
           \/ ~Launched[k].async \/ ~Launched[l].async
    PROVE  k \in 1..Len(work) /\ Op(k) \in done /\ Op(k) \in started
<1>1. CopyState
  BY DEF TypeParts
<1>2. k \in 1..Len(work) /\ Len(work) \in Nat /\ Launched[k] = work[k] /\ Launched[l] = work[l]
      /\ l \in 1..Len(Launched)
  <2>1. /\ Len(work) \in Nat /\ Len(Launched) \in Nat /\ Len(work) <= Len(Launched)
        /\ \A n \in 1..Len(work) : n \in 1..Len(Launched) /\ Launched[n] = work[n]
    BY <1>1, LaunchedIs
  <2>2. k \in 1..Len(work)
    BY <2>1
  <2> QED
    BY <2>1, <2>2
<1>3. /\ Type(work[k].dst, work[k].src) = TypeOf(log[own[k]])
      /\ Type(work[l].dst, work[l].src) = TypeOf(log[own[l]])
  BY <1>1, <1>2, OfItsCall
<1>4. /\ issued["stream"][k] = [type |-> Type(work[k].dst, work[k].src), async |-> work[k].async]
      /\ issued["stream"][l] = [type |-> Type(work[l].dst, work[l].src), async |-> work[l].async]
      /\ Stream!OrderInv /\ Len(work) <= MaxOps
  BY <1>2 DEF Matched
<1>5. \/ issued["stream"][k].type # issued["stream"][l].type
      \/ ~issued["stream"][k].async \/ ~issued["stream"][l].async
  BY <1>2, <1>3, <1>4
<1> QED
  BY <1>2, <1>4, <1>5, Waited

\* What is at or below a number below another.
LEMMA Below ==
    ASSUME NEW n \in Nat, NEW l \in 1..n, NEW g \in 1..n, NEW f \in 1..g
    PROVE  f \in 1..n /\ (g < l => f <= l)
OBVIOUS

\* An operation waits for every older call its own clashes with: either the
\* stream does not let it pass, or another call between them is not let pass.
LEMMA ClashDone ==
    ASSUME Kept, TypeParts, Matched,
           NEW log \in Seq(Request), NEW own \in [Nat -> Nat],
           Accounted(log, own), Separated(log, own),
           NEW k \in 1..Len(Launched), NEW l \in 1..Len(work), own[k] < own[l],
           Clash(log[own[k]], log[own[l]]), Op(l) \in started
    PROVE  k \in 1..Len(work) /\ Op(k) \in done
<1> DEFINE c == own[k]
           d == own[l]
<1>1. CopyState
  BY DEF TypeParts
<1>2. /\ l \in 1..Len(Launched) /\ Len(work) \in Nat /\ Len(Launched) \in Nat
      /\ c \in 1..Len(log) /\ d \in 1..Len(log) /\ Len(log) \in Nat
  BY <1>1, LaunchedIs, OfItsCall, LenProperties
<1>3. \A m, n \in 1..Len(Launched) : own[m] < own[n] => m < n
  <2> SUFFICES ASSUME NEW m \in 1..Len(Launched), NEW n \in 1..Len(Launched), own[m] < own[n]
               PROVE  m < n
    OBVIOUS
  <2>1. n <= m => own[n] <= own[m]
    BY DEF Accounted, AccountsFor
  <2>2. m \in Nat /\ n \in Nat /\ own[m] \in Nat /\ own[n] \in Nat
    OBVIOUS
  <2> QED
    BY <2>1, <2>2
<1>4. k < l
  BY <1>2, <1>3
<1>5. CASE TypeOf(log[c]) # TypeOf(log[d])
  BY <1>4, <1>5, CallsWait

\* Through an operation f in between that neither passes.
<1>6. ASSUME NEW f \in 1..Len(Launched), own[k] < own[f], f <= l,
             f # l => \/ TypeOf(log[own[f]]) # TypeOf(log[d])
                      \/ ~Launched[f].async,
             \/ TypeOf(log[c]) # TypeOf(log[own[f]])
             \/ ~Launched[f].async
      PROVE  k \in 1..Len(work) /\ Op(k) \in done
  <2>1. k < f
    BY <1>3, <1>6
  <2>2. f \in 1..Len(work) /\ Op(f) \in started
    <3>1. CASE f = l
      BY <3>1
    <3>2. CASE f # l
      <4>1. f < l
        BY <1>2, <1>6, <3>2
      <4> QED
        BY <1>6, <3>2, <4>1, CallsWait
    <3> QED
      BY <3>1, <3>2
  <2> QED
    BY <1>6, <2>1, <2>2, CallsWait
<1>7. CASE ~log[d].async
  <2>1. PICK f \in 1..l : own[f] = own[l] /\ ~Launched[f].async
    BY <1>2, <1>7 DEF Accounted, AccountsFor, Led
  <2>2. f \in 1..Len(Launched) /\ f <= l
    BY <1>2, <2>1
  <2> QED
    BY <1>6, <2>1, <2>2
<1>8. ASSUME TypeOf(log[c]) = TypeOf(log[d]), log[d].async,
             NEW m \in (c + 1)..(d - 1), ~log[m].async \/ TypeOf(log[m]) # TypeOf(log[d])
      PROVE  k \in 1..Len(work) /\ Op(k) \in done
  <2>1. m \in 1..Len(log) /\ c < m /\ m < d
    <3> HIDE DEF c, d
    <3> QED
      BY <1>2
  <2>2. PICK g \in 1..Len(Launched) : own[g] = m
    <3>1. log[m] \in Request /\ Within(TypeOf(log[m]), log[m].size)
      BY <2>1, ElementOfSeq DEF Accounted, AccountsFor
    <3>2. JobsOf(log[m]) \in Seq(Job) /\ JobsOf(log[m]) # <<>>
      BY <3>1, RequestParts
    <3>3. 1 \in DOMAIN JobsOf(log[m])
      BY <3>2, LenProperties, EmptySeq
    <3> QED
      BY <2>1, <3>3 DEF Accounted, AccountsFor
  <2>3. g < l
    BY <1>2, <1>3, <2>1, <2>2
  <2>4. CASE TypeOf(log[m]) # TypeOf(log[d])
    <3>1. /\ own[k] < own[g] /\ g <= l
          /\ TypeOf(log[own[g]]) # TypeOf(log[d]) /\ TypeOf(log[c]) # TypeOf(log[own[g]])
      <4>1. own[g] = m /\ c < m /\ g <= l
        BY <1>2, <2>1, <2>2, <2>3
      <4> QED
        BY <1>8, <2>4, <4>1
    <3> QED
      BY <1>6, <3>1
  <2>5. CASE ~log[m].async
    <3>1. PICK f \in 1..g : own[f] = own[g] /\ ~Launched[f].async
      BY <2>2, <2>5 DEF Accounted, AccountsFor, Led
    <3>2. f \in 1..Len(Launched) /\ f <= l
      BY <1>2, <2>3, Below
    <3>3. own[k] < own[f]
      BY <2>1, <2>2, <3>1
    <3> QED
      BY <1>6, <3>1, <3>2, <3>3
  <2> QED
    BY <1>8, <2>4, <2>5
<1>9. CASE TypeOf(log[c]) = TypeOf(log[d]) /\ log[d].async
  <2>1. \/ \E m \in (c + 1)..(d - 1) : ~log[m].async \/ TypeOf(log[m]) # TypeOf(log[d])
        \/ Finished(own, c)
    BY <1>2, <1>9 DEF Separated
  <2>2. CASE Finished(own, c)
    <3>1. Op(k) \in done
      BY <2>2 DEF Finished
    <3>2. k \in 1..Len(work)
      BY <1>2, <1>4
    <3> QED
      BY <3>1, <3>2
  <2> QED
    BY <1>8, <1>9, <2>1, <2>2
<1> QED
  BY <1>5, <1>7, <1>9

\* A call all of whose operations are done has reached its bytes.
LEMMA FinishedReaches ==
    ASSUME Kept, TypeParts, Matched,
           NEW log \in Seq(Request), NEW own \in [Nat -> Nat], Accounted(log, own),
           NEW c \in 1..Len(log),
           \A k \in 1..Len(Launched) : own[k] = c => k \in 1..Len(work) /\ Op(k) \in done,
           NEW j \in Nat, j < log[c].size
    PROVE  Reached(own, c, j)
<1>1. log[c] \in Request /\ Within(TypeOf(log[c]), log[c].size)
  BY ElementOfSeq DEF Accounted, AccountsFor
<1>2. Covered(JobsOf(log[c]), j)
  BY <1>1, RequestParts
<1>3. PICK i \in DOMAIN JobsOf(log[c]) :
         \E b \in Grid(JobsOf(log[c])[i].piece) : j \in Bytes(JobsOf(log[c])[i].piece, b)
  BY <1>2 DEF Covered
<1>4. PICK k \in 1..Len(Launched) : own[k] = c /\ Launched[k] = JobsOf(log[c])[i]
  <2>1. \A n \in 1..Len(log) : \A m \in DOMAIN JobsOf(log[n]) :
           \E k \in 1..Len(Launched) : own[k] = n /\ Launched[k] = JobsOf(log[n])[m]
    BY Zenon DEF Accounted, AccountsFor
  <2> QED
    BY <2>1
<1>5. k \in 1..Len(work) /\ Op(k) \in done
  BY <1>4
<1>6. Launched[k] = work[k]
  BY <1>5, LaunchedIs DEF TypeParts
<1>7. blocks[k] = {}
  BY <1>5 DEF Matched
<1> QED
  BY <1>3, <1>4, <1>5, <1>6, <1>7 DEF Reached, Ran

\* A call has reached a byte only if one of its operations has started.
LEMMA ReachedStarted ==
    ASSUME Matched, NEW own, NEW c, NEW j, Reached(own, c, j)
    PROVE  \E k \in 1..Len(work) : own[k] = c /\ Op(k) \in started
BY DEF Reached, Ran, Matched

\* Around an operation that runs: the older calls that clash with its own have
\* reached their bytes, the newer ones none.
LEMMA AroundRunning ==
    ASSUME Kept, TypeParts, Matched,
           NEW log \in Seq(Request), NEW own \in [Nat -> Nat],
           Accounted(log, own), Separated(log, own),
           NEW k \in 1..Len(work), Op(k) \in started, Op(k) \notin done,
           NEW m \in 1..Len(log), Clash(log[m], log[own[k]]), NEW j \in Nat
    PROVE  /\ m < own[k] /\ j < log[m].size => Reached(own, m, j)
           /\ own[k] < m => ~Reached(own, m, j)
<1>0. k \in 1..Len(Launched)
  BY LaunchedIs DEF TypeParts
<1>1. ASSUME m < own[k], j < log[m].size
      PROVE  Reached(own, m, j)
  <2>1. ASSUME NEW n \in 1..Len(Launched), own[n] = m
        PROVE  n \in 1..Len(work) /\ Op(n) \in done
    BY <1>1, <2>1, ClashDone
  <2> QED
    BY <1>1, <2>1, FinishedReaches
<1>2. ASSUME own[k] < m, Reached(own, m, j)
      PROVE  FALSE
  <2>1. PICK n \in 1..Len(work) : own[n] = m /\ Op(n) \in started
    BY <1>2, ReachedStarted
  <2>2. Clash(log[own[k]], log[own[n]])
    BY <2>1 DEF Clash, Conflict
  <2>3. Op(k) \in done
    BY <1>0, <1>2, <2>1, <2>2, ClashDone
  <2> QED
    BY <2>3
<1> QED
  BY <1>1, <1>2

\* What a block adds to the bytes that were reached.
LEMMA BlockReaches ==
    ASSUME TypeParts, Matched, NEW own \in [Nat -> Nat],
           NEW k \in 1..Len(work), NEW bl \in blocks[k],
           work' = work, blocks' = [blocks EXCEPT ![k] = @ \ {bl}],
           NEW c, NEW j
    PROVE  Reached(own, c, j)' <=>
              Reached(own, c, j) \/ (c = own[k] /\ j \in Bytes(work[k].piece, bl))
<1>1. /\ DOMAIN blocks = 1..Len(work)
      /\ blocks[k] \subseteq Grid(work[k].piece)
  BY LenProperties DEF TypeParts, CopyState, Matched
<1>2. \A n \in 1..Len(work) : n # k => blocks'[n] = blocks[n]
  BY <1>1
<1>3. blocks'[k] = blocks[k] \ {bl}
  BY <1>1
<1>4. \A n \in 1..Len(work) : n # k => (Ran(n, j)' <=> Ran(n, j))
  BY <1>2 DEF Ran
<1>5. Ran(k, j)' <=> Ran(k, j) \/ j \in Bytes(work[k].piece, bl)
  BY <1>1, <1>3 DEF Ran
<1>6. Reached(own, c, j)' <=> \E n \in 1..Len(work) : own[n] = c /\ Ran(n, j)'
  BY DEF Reached
<1> QED
  BY <1>4, <1>5, <1>6 DEF Reached

\* The memory after a call, where it writes.
LEMMA AfterWrites ==
    ASSUME NEW m \in Memory, NEW c \in Request, NEW j \in Offsets, j < c.size
    PROVE  After(m, c)[c.dst][j] = m[c.src][j]
<1>1. c.dst \in Buffers
  BY DEF Request
<1> QED
  BY <1>1 DEF After, Memory

\* Where calls lie around one of them.
LEMMA Between ==
    ASSUME NEW n \in Nat, NEW c \in 1..n
    PROVE  /\ c \in Nat /\ c - 1 \in 0..n /\ c \in 0..n
           /\ \A d \in 0..n : \A m \in (c + 1)..d : m \in 1..n /\ c < m /\ m <= d /\ m # c
           /\ \A m \in 1..n : /\ m < c \/ m = c \/ c < m
                              /\ m < c => m <= c - 1
                              /\ c < m => ~(m <= c - 1)
OBVIOUS

\* A block finds and leaves what the calls, one after the other, would.
LEMMA BlockConsistent ==
    ASSUME Kept, TypeParts, Matched,
           NEW log \in Seq(Request), NEW own \in [Nat -> Nat], NEW E \in [Nat -> Memory],
           Accounted(log, own), Separated(log, own), Foreseen(log, E), Consistent(log, own, E),
           NEW k \in 1..Len(work), NEW bl \in blocks[k], Op(k) \in started,
           work' = work, blocks' = [blocks EXCEPT ![k] = @ \ {bl}],
           mem' = [mem EXCEPT ![work[k].dst] =
                     [j \in Offsets |->
                        IF j \in Bytes(work[k].piece, bl) THEN mem[work[k].src][j] ELSE @[j]]]
    PROVE  Consistent(log, own, E)'
<1> DEFINE c == own[k]
           r == log[c]
           bytes == Bytes(work[k].piece, bl)
<1>1. CopyState /\ k \in 1..Len(Launched) /\ Launched[k] = work[k]
  BY LaunchedIs DEF TypeParts
<1>2. /\ c \in 1..Len(log) /\ r \in Request /\ Len(log) \in Nat
      /\ work[k].dst = r.dst /\ work[k].src = r.src
      /\ r.dst \in Buffers /\ r.src \in Buffers
  BY <1>1, OfItsCall, LenProperties DEF Request
<1>3. Within(TypeOf(r), r.size) /\ r.dst # r.src
  BY <1>2 DEF Accounted, AccountsFor
<1>4. Op(k) \notin done /\ bl \in Grid(work[k].piece)
  BY DEF Matched
<1>5. \A j \in Nat : j \in bytes => j < r.size
  <2> SUFFICES ASSUME NEW j \in Nat, j \in bytes
               PROVE  j < r.size
    OBVIOUS
  <2>1. PICK i \in DOMAIN JobsOf(r) : work[k] = JobsOf(r)[i]
    BY <1>1 DEF Accounted, AccountsFor, PartOf
  <2>2. Covered(JobsOf(r), j)
    BY <1>4, <2>1 DEF Covered
  <2> QED
    BY <1>2, <1>3, <2>2, RequestParts
<1>6. \A j \in Offsets : j \in Nat
  BY DEF Offsets
<1>7. \A m \in 1..Len(log), j \in Offsets : Clash(log[m], r) =>
         /\ m < c /\ j < log[m].size => Reached(own, m, j)
         /\ c < m => ~Reached(own, m, j)
  BY <1>4, <1>6, AroundRunning
<1>8. \A m, j : Reached(own, m, j)' <=> Reached(own, m, j) \/ (m = c /\ j \in bytes)
  BY BlockReaches
<1> HIDE DEF bytes
<1>9. \A b \in Buffers, j \in Offsets :
         mem'[b][j] = IF b = r.dst /\ j \in bytes THEN mem[r.src][j] ELSE mem[b][j]
  BY <1>1, <1>2 DEF CopyState, bytes
<1> HIDE DEF r, c
<1>10. ASSUME NEW j \in Offsets, j \in bytes
       PROVE  mem[r.src][j] = E[c][r.dst][j]
  <2>0. j < r.size
    BY <1>5, <1>6, <1>10
  <2>1. /\ c \in Nat /\ c - 1 \in 0..Len(log)
        /\ \A m \in 1..Len(log) : /\ m < c \/ m = c \/ c < m
                                  /\ m < c => m <= c - 1
                                  /\ c < m => ~(m <= c - 1)
    BY <1>2, Between
  <2>2. Current(log, own, c - 1, r.src, j)
    <3> SUFFICES ASSUME NEW m \in 1..Len(log), Writes(log[m], r.src, j)
                 PROVE  m <= c - 1 <=> Reached(own, m, j)
      BY DEF Current
    <3>1. Clash(log[m], r) /\ j < log[m].size /\ log[m].dst = r.src
      BY DEF Clash, Conflict, Writes
    <3>2. m # c
      BY <1>3, <3>1 DEF r
    <3>3. CASE m < c
      <4>1. m <= c - 1
        BY <2>1, <3>3
      <4>2. Reached(own, m, j)
        BY <1>7, <3>1, <3>3
      <4> QED
        BY <4>1, <4>2
    <3>4. CASE c < m
      BY <1>7, <2>1, <3>1, <3>4
    <3> QED
      BY <2>1, <3>2, <3>3, <3>4
  <2>3. mem[r.src][j] = E[c - 1][r.src][j]
    BY <1>2, <2>1, <2>2 DEF Consistent
  <2>4. E[c - 1] \in Memory /\ E[c] = After(E[c - 1], r)
    BY <1>2, <2>1 DEF Foreseen, r
  <2>5. E[c][r.dst][j] = E[c - 1][r.src][j]
    BY <1>2, <2>0, <2>4, AfterWrites
  <2> QED
    BY <2>3, <2>5
<1>11. ASSUME NEW d \in 0..Len(log), NEW b \in Buffers, NEW j \in Offsets,
              Current(log, own, d, b, j)'
       PROVE  mem'[b][j] = E[d][b][j]
  <2>1. \A m \in 1..Len(log) : Writes(log[m], b, j) => (m <= d <=> Reached(own, m, j)')
    BY <1>11 DEF Current
  <2>2. CASE b = r.dst /\ j \in bytes
    <3>1. Writes(log[c], b, j) /\ Reached(own, c, j)'
      BY <1>5, <1>6, <1>8, <2>2 DEF Writes, r
    <3>2. c <= d
      BY <1>2, <2>1, <3>1
    <3>3. ASSUME NEW m \in (c + 1)..d, Writes(log[m], b, j)
          PROVE  FALSE
      <4>1. m \in 1..Len(log) /\ c < m /\ m <= d /\ m # c
        BY <1>2, Between
      <4>2. Reached(own, m, j)
        BY <1>8, <2>1, <3>3, <4>1
      <4>3. Clash(log[m], r)
        BY <2>2, <3>3 DEF Clash, Conflict, Writes
      <4> QED
        BY <1>7, <4>1, <4>2, <4>3
    <3>4. E[c][b][j] = E[d][b][j]
      <4>1. c \in 0..Len(log)
        BY <1>2, Between
      <4>2. \A x, y \in 0..Len(log), z \in Buffers, n \in Offsets :
               x <= y /\ (\A m \in (x + 1)..y : ~Writes(log[m], z, n)) => E[x][z][n] = E[y][z][n]
        BY DEF Foreseen
      <4> QED
        BY <3>2, <3>3, <4>1, <4>2
    <3> QED
      BY <1>9, <1>10, <2>2, <3>4
  <2>3. CASE ~(b = r.dst /\ j \in bytes)
    <3>1. ASSUME NEW m \in 1..Len(log), Writes(log[m], b, j)
          PROVE  Reached(own, m, j)' <=> Reached(own, m, j)
      <4>1. ~(m = c /\ j \in bytes)
        BY <2>3, <3>1 DEF Writes, r
      <4> QED
        BY <1>8, <4>1
    <3>2. Current(log, own, d, b, j)
      BY <2>1, <3>1 DEF Current
    <3> QED
      BY <1>9, <2>3, <3>2 DEF Consistent
  <2> QED
    BY <2>2, <2>3
<1> QED
  BY <1>11 DEF Consistent

\* Every step is one of the stream, or leaves it alone.
LEMMA OrderKept ==
    ASSUME TypeParts, Stream!OrderInv, [Next]_vars
    PROVE  Stream!OrderInv'
<1>1. ASSUME UNCHANGED <<issued, started, done, awaited>>
      PROVE  Stream!OrderInv'
  BY <1>1, Stream!OrderStep DEF Stream!vars
<1>2. CASE Launch
  <2>1. Head(call) \in Job
    BY <1>2, HeadTailProperties DEF Launch, TypeParts, CopyState
  <2>2. \E kind \in Stream!OpKind : Stream!Issue("stream", kind)
    <3> DEFINE kind == [type |-> Type(Head(call).dst, Head(call).src), async |-> Head(call).async]
    <3>1. kind \in Stream!OpKind
      BY <2>1 DEF Job, Type, Stream!OpKind
    <3>2. Stream!Issue("stream", kind)
      BY <1>2 DEF Launch
    <3> QED
      BY <3>1, <3>2
  <2> QED
    BY <2>2, Stream!OrderStep DEF Stream!Next
<1>3. CASE StreamAwait
  BY <1>3, Stream!OrderStep DEF StreamAwait, Stream!Next
<1>4. CASE StartOp
  BY <1>4, Stream!OrderStep DEF StartOp, Stream!Next
<1>5. CASE CompleteOp
  <2>1. started \in SUBSET Stream!Ops
    BY DEF TypeParts, StreamState
  <2> QED
    BY <1>5, <2>1, Stream!OrderStep DEF CompleteOp, Stream!Next
<1>6. CASE UNCHANGED vars \/ RunBlock \/ LaunchFails
  BY <1>1, <1>6 DEF vars, streamVars, RunBlock, LaunchFails
<1>7. ASSUME NEW dst \in Buffers, NEW src \in Buffers, NEW size \in Sizes, NEW async \in BOOLEAN,
             MemCpy(dst, src, size, async)
      PROVE  Stream!OrderInv'
  BY <1>1, <1>7 DEF MemCpy, streamVars
<1> QED
  BY <1>2, <1>3, <1>4, <1>5, <1>6, <1>7 DEF Next

\* A launch issues the operation it adds to the work.
LEMMA LaunchMatched ==
    ASSUME TypeParts, Matched, Launch
    PROVE  Len(work') <= MaxOps /\
           \A k \in 1..Len(work') :
              /\ issued'["stream"][k] =
                    [type |-> Type(work'[k].dst, work'[k].src), async |-> work'[k].async]
              /\ blocks'[k] \subseteq Grid(work'[k].piece)
              /\ Op(k) \notin started' => blocks'[k] = Grid(work'[k].piece)
              /\ Op(k) \in done' => blocks'[k] = {}
<1> DEFINE job == Head(call)
           kind == [type |-> Type(job.dst, job.src), async |-> job.async]
           n == Len(work)
<1>1. /\ issued["stream"] \in Seq(Stream!OpKind) /\ Len(issued["stream"]) = n
      /\ work \in Seq(Job) /\ blocks \in Seq(SUBSET (Nat \X Nat)) /\ Len(blocks) = n
      /\ issued \in [{"stream"} -> Seq(Stream!OpKind)]
      /\ n \in Nat
  BY LenProperties DEF TypeParts, StreamState, CopyState
<1>2. /\ n < MaxOps /\ issued' = [issued EXCEPT !["stream"] = Append(@, kind)]
      /\ started' = started /\ done' = done
      /\ work' = Append(work, job) /\ blocks' = Append(blocks, Grid(job.piece))
  BY <1>1 DEF Launch, Stream!Issue
<1>3. job \in Job
  BY HeadTailProperties DEF Launch, TypeParts, CopyState
<1>4. kind \in Stream!OpKind /\ Grid(job.piece) \in SUBSET (Nat \X Nat)
  BY <1>3, GridType DEF Job, Type, Stream!OpKind
<1> HIDE DEF job, kind, n
<1>5. /\ Len(work') = n + 1 /\ work'[n + 1] = job
      /\ \A k \in 1..n : work'[k] = work[k]
  BY <1>1, <1>2, <1>3, AppendProperties DEF n
<1>6. /\ blocks'[n + 1] = Grid(job.piece)
      /\ \A k \in 1..n : blocks'[k] = blocks[k]
  BY <1>1, <1>2, <1>4, AppendProperties
<1>7. /\ issued'["stream"] = Append(issued["stream"], kind)
      /\ issued'["stream"][n + 1] = kind
      /\ \A k \in 1..n : issued'["stream"][k] = issued["stream"][k]
  <2>1. issued'["stream"] = Append(issued["stream"], kind)
    BY <1>1, <1>2
  <2> QED
    BY <1>1, <1>4, <2>1, AppendProperties
<1>8. Op(n + 1) \notin done
  <2>1. done \subseteq started /\ \A o \in started : o[2] <= Len(issued[o[1]])
    BY DEF Matched, Stream!OrderInv, Stream!InOrder, Stream!AwaitedIsDone, Stream!Issued
  <2>2. Op(n + 1)[1] = "stream" /\ Op(n + 1)[2] = n + 1
    BY DEF Op
  <2> QED
    BY <1>1, <2>1, <2>2
<1>9. ASSUME NEW k \in 1..Len(work')
      PROVE  /\ issued'["stream"][k] =
                    [type |-> Type(work'[k].dst, work'[k].src), async |-> work'[k].async]
             /\ blocks'[k] \subseteq Grid(work'[k].piece)
             /\ Op(k) \notin started' => blocks'[k] = Grid(work'[k].piece)
             /\ Op(k) \in done' => blocks'[k] = {}
  <2>1. CASE k \in 1..n
    <3>1. issued'["stream"][k] = issued["stream"][k] /\ work'[k] = work[k] /\ blocks'[k] = blocks[k]
      BY <1>5, <1>6, <1>7, <2>1
    <3> QED
      BY <1>2, <2>1, <3>1 DEF Matched, n
  <2>2. CASE k = n + 1
    BY <1>2, <1>5, <1>6, <1>7, <1>8, <2>2 DEF kind
  <2> QED
    BY <1>1, <1>5, <2>1, <2>2
<1>10. Len(work') <= MaxOps
  BY <1>1, <1>2, <1>5, CopyAssumption
<1> QED
  BY <1>9, <1>10

\* The operations stay those launched.
LEMMA MatchedStep == TypeParts /\ Matched /\ [Next]_vars => Matched'
<1> SUFFICES ASSUME TypeParts, Matched, [Next]_vars
             PROVE  Matched'
  OBVIOUS
<1>0. Stream!OrderInv'
  BY OrderKept DEF Matched
<1>1. CASE Launch
  BY <1>0, <1>1, LaunchMatched DEF Matched
<1>2. ASSUME issued' = issued, work' = work, started \subseteq started',
             \A k \in 1..Len(work) :
                /\ blocks'[k] \subseteq blocks[k]
                /\ Op(k) \notin started' => blocks'[k] = blocks[k]
                /\ Op(k) \in done' => Op(k) \in done \/ blocks'[k] = {}
      PROVE  Matched'
  BY <1>0, <1>2 DEF Matched
<1>3. CASE StreamAwait \/ UNCHANGED vars \/ LaunchFails
  BY <1>2, <1>3 DEF StreamAwait, Stream!AwaitReturns, vars, streamVars, LaunchFails
<1>4. ASSUME NEW dst \in Buffers, NEW src \in Buffers, NEW size \in Sizes, NEW async \in BOOLEAN,
             MemCpy(dst, src, size, async)
      PROVE  Matched'
  BY <1>2, <1>4 DEF MemCpy, streamVars
<1>5. CASE StartOp
  BY <1>2, <1>5 DEF StartOp, Stream!Start
<1>6. CASE CompleteOp
  <2>1. PICK o \in started \ done : blocks[o[2]] = {} /\ Stream!Complete(o)
    BY <1>6 DEF CompleteOp
  <2>2. \A k : Op(k) = o => k = o[2]
    BY DEF Op
  <2>3. /\ issued' = issued /\ work' = work /\ started' = started /\ blocks' = blocks
        /\ done' = done \cup {o}
    BY <1>6, <2>1 DEF CompleteOp, Stream!Complete
  <2> QED
    BY <1>2, <2>1, <2>2, <2>3
<1>7. CASE RunBlock
  <2>1. PICK i \in DOMAIN work : \E b \in blocks[i] :
           <<"stream", i>> \in started /\ blocks' = [blocks EXCEPT ![i] = @ \ {b}]
    BY <1>7 DEF RunBlock
  <2>2. PICK b \in blocks[i] : blocks' = [blocks EXCEPT ![i] = @ \ {b}]
    BY <2>1
  <2>3. DOMAIN blocks = 1..Len(work)
    BY LenProperties DEF TypeParts, CopyState
  <2>4. issued' = issued /\ work' = work /\ started' = started /\ done' = done
    BY <1>7 DEF RunBlock, streamVars
  <2>5. \A k \in 1..Len(work) : blocks'[k] = IF k = i THEN blocks[k] \ {b} ELSE blocks[k]
    BY <2>2, <2>3
  <2> QED
    BY <1>2, <2>1, <2>4, <2>5 DEF Op
<1> QED
  BY <1>1, <1>3, <1>4, <1>5, <1>6, <1>7 DEF Next

\* Steps that launch and remember the same keep what is said of the calls.
LEMMA SameCalls ==
    ASSUME Launched' = Launched, done \subseteq done',
           NEW log, NEW own, Accounted(log, own), Separated(log, own)
    PROVE  Accounted(log, own)' /\ Separated(log, own)'
<1>1. \A c : Finished(own, c) => Finished(own, c)'
  BY DEF Finished
<1>2. Accounted(log, own)'
  <2>1. AccountsFor(log, own, Launched')
    BY DEF Accounted
  <2> QED
    BY <2>1, Zenon DEF Accounted, AccountsFor
<1>3. Separated(log, own)'
  <2> SUFFICES ASSUME NEW c \in 1..Len(log), NEW d \in 1..Len(log),
                      c < d, log[d].async, TypeOf(log[c]) = TypeOf(log[d]), Clash(log[c], log[d])
               PROVE  \/ \E m \in (c + 1)..(d - 1) : ~log[m].async \/ TypeOf(log[m]) # TypeOf(log[d])
                      \/ Finished(own, c)'
    BY DEF Separated
  <2>1. \/ \E m \in (c + 1)..(d - 1) : ~log[m].async \/ TypeOf(log[m]) # TypeOf(log[d])
        \/ Finished(own, c)
    BY DEF Separated
  <2> QED
    BY <1>1, <2>1
<1> QED
  BY <1>2, <1>3

LEMMA SameMemory ==
    ASSUME Launched' = Launched, done \subseteq done', recent' = recent,
           NEW log, NEW own, Remembered(log, own)
    PROVE  Remembered(log, own)'
<1>1. \A c : Finished(own, c) => Finished(own, c)'
  BY DEF Finished
<1> QED
  BY <1>1 DEF Remembered

\* A launch takes the next operation of the call.
LEMMA LaunchKeepsLaunched ==
    ASSUME CopyState, Launch
    PROVE  Launched' = Launched
<1>1. work \in Seq(Job) /\ call \in Seq(Job) /\ call # <<>>
  BY DEF CopyState, Launch
<1>2. Head(call) \in Job /\ Tail(call) \in Seq(Job) /\ call = <<Head(call)>> \o Tail(call)
  BY <1>1, HeadTailProperties
<1>3. work' = work \o <<Head(call)>> /\ call' = Tail(call)
  BY <1>1, <1>2 DEF Launch
<1>4. <<Head(call)>> \in Seq(Job)
  BY <1>2
<1>5. (work \o <<Head(call)>>) \o Tail(call) = work \o (<<Head(call)>> \o Tail(call))
  BY <1>1, <1>2, <1>4, ConcatAssociative
<1> QED
  BY <1>2, <1>3, <1>5 DEF Launched

\* The operation launched has not reached anything.
LEMMA LaunchReaches ==
    ASSUME TypeParts, Launch, NEW own, NEW c, NEW j
    PROVE  Reached(own, c, j)' <=> Reached(own, c, j)
<1> DEFINE job == Head(call)
<1>0. Len(work) \in Nat
  BY LenProperties DEF TypeParts, CopyState
<1> PICK n \in Nat : n = Len(work)
  BY <1>0
<1>1. /\ work \in Seq(Job) /\ blocks \in Seq(SUBSET (Nat \X Nat)) /\ Len(blocks) = n
      /\ work' = Append(work, job) /\ blocks' = Append(blocks, Grid(job.piece))
  BY LenProperties DEF TypeParts, CopyState, Launch
<1>2. job \in Job
  BY HeadTailProperties DEF Launch, TypeParts, CopyState
<1>3. Grid(job.piece) \in SUBSET (Nat \X Nat)
  BY <1>2, GridType
<1> HIDE DEF job
<1>4. /\ Len(work') = n + 1 /\ work'[n + 1] = job
      /\ \A k \in 1..n : work'[k] = work[k]
  BY <1>1, <1>2, AppendProperties
<1>5. /\ blocks'[n + 1] = Grid(job.piece)
      /\ \A k \in 1..n : blocks'[k] = blocks[k]
  BY <1>1, <1>3, AppendProperties
<1>6. \A k \in 1..n : Ran(k, j)' <=> Ran(k, j)
  <2> SUFFICES ASSUME NEW k \in 1..n
               PROVE  Ran(k, j)' <=> Ran(k, j)
    OBVIOUS
  <2>1. work'[k] = work[k] /\ blocks'[k] = blocks[k]
    BY <1>4, <1>5
  <2> QED
    BY <2>1 DEF Ran
<1>10. ~Ran(n + 1, j)'
  <2>1. Grid(work'[n + 1].piece) \ blocks'[n + 1] = {}
    BY <1>4, <1>5
  <2> QED
    BY <2>1 DEF Ran
<1>7. \A k : k \in 1..(n + 1) <=> k \in 1..n \/ k = n + 1
  BY <1>1
<1>8. Reached(own, c, j)' <=> \E k \in 1..(n + 1) : own[k] = c /\ Ran(k, j)'
  BY <1>4 DEF Reached
<1>9. Reached(own, c, j) <=> \E k \in 1..n : own[k] = c /\ Ran(k, j)
  BY DEF Reached
<1> QED
  BY <1>6, <1>7, <1>8, <1>9, <1>10

\* What has been reached is what says where memory comes from.
LEMMA SameReached ==
    ASSUME mem' = mem, NEW log, NEW own, NEW E, Consistent(log, own, E),
           \A c, j : Reached(own, c, j)' <=> Reached(own, c, j)
    PROVE  Consistent(log, own, E)'
<1>1. \A c, b, j : Current(log, own, c, b, j)' <=> Current(log, own, c, b, j)
  BY DEF Current
<1> QED
  BY <1>1 DEF Consistent

\* Every step but a call keeps the explanation.
LEMMA ExplainedStep ==
    ASSUME Kept, TypeParts, Matched, Explained,
           Launch \/ StreamAwait \/ StartOp \/ CompleteOp \/ RunBlock \/ UNCHANGED vars
    PROVE  Explained'
<1> PICK log \in Seq(Request), own \in [Nat -> Nat], E \in [Nat -> Memory] :
       /\ Accounted(log, own) /\ Separated(log, own) /\ Remembered(log, own)
       /\ Foreseen(log, E) /\ Consistent(log, own, E)
  BY DEF Explained
<1>0. CopyState
  BY DEF TypeParts
<1>1. Launched' = Launched
  <2>1. CASE Launch
    BY <1>0, <2>1, LaunchKeepsLaunched
  <2>2. CASE ~Launch
    BY <2>2 DEF Launched, StreamAwait, StartOp, CompleteOp, RunBlock, vars
  <2> QED
    BY <2>1, <2>2
<1>2. done \subseteq done' /\ expected' = expected
  BY DEF Launch, Stream!Issue, StreamAwait, Stream!AwaitReturns, StartOp, Stream!Start,
         CompleteOp, Stream!Complete, RunBlock, vars, streamVars, history
<1>3. Accounted(log, own)' /\ Separated(log, own)'
  BY <1>1, <1>2, SameCalls
<1>4. Foreseen(log, E)'
  BY <1>2 DEF Foreseen
<1>5. Remembered(log, own)'
  <2>1. CASE StreamAwait
    <3>1. recent' = <<>> /\ Launched = work
      BY <1>0, <2>1, LaunchedIs DEF StreamAwait
    <3>2. \A k \in 1..Len(work) : Op(k) \in done'
      <4> SUFFICES ASSUME NEW k \in 1..Len(work)
                   PROVE  Op(k) \in done'
        OBVIOUS
      <4>1. /\ Len(work) <= MaxOps /\ Len(issued["stream"]) = Len(work) /\ Len(work) \in Nat
            /\ MaxOps \in Nat
        BY <1>0, LaunchedIs, CopyAssumption DEF Matched, TypeParts
      <4>2. Op(k) \in Stream!Ops /\ Op(k)[1] = "stream" /\ Stream!Issued(Op(k))
        <5>1. k \in 1..MaxOps /\ k <= Len(issued["stream"])
          BY <4>1
        <5> QED
          BY <5>1 DEF Op, Stream!Ops, Stream!Issued
      <4>3. Op(k) \in done
        BY <2>1, <4>2 DEF StreamAwait, Stream!AwaitReturns
      <4> QED
        BY <1>2, <4>3
    <3>3. \A c : Finished(own, c)'
      BY <1>1, <3>1, <3>2 DEF Finished
    <3>4. Len(recent') = 0 /\ Len(log) \in Nat
      BY <3>1, LenProperties
    <3> QED
      BY <3>3, <3>4 DEF Remembered
  <2>2. CASE ~StreamAwait
    <3>1. recent' = recent
      BY <2>2 DEF Launch, StartOp, CompleteOp, RunBlock, vars, history
    <3> QED
      BY <1>1, <1>2, <3>1, SameMemory
  <2> QED
    BY <2>1, <2>2
<1>6. Consistent(log, own, E)'
  <2>1. CASE Launch
    <3>1. mem' = mem
      BY <2>1 DEF Launch
    <3>2. \A c, j : Reached(own, c, j)' <=> Reached(own, c, j)
      BY <2>1, LaunchReaches
    <3> QED
      BY <3>1, <3>2, SameReached
  <2>2. CASE RunBlock
    <3>1. PICK i \in DOMAIN work : \E b \in blocks[i] :
             /\ <<"stream", i>> \in started
             /\ blocks' = [blocks EXCEPT ![i] = @ \ {b}]
             /\ mem' = [mem EXCEPT ![work[i].dst] =
                   [j \in Offsets |->
                      IF j \in Bytes(work[i].piece, b) THEN mem[work[i].src][j] ELSE @[j]]]
      BY <2>2 DEF RunBlock
    <3>2. PICK b \in blocks[i] :
             /\ blocks' = [blocks EXCEPT ![i] = @ \ {b}]
             /\ mem' = [mem EXCEPT ![work[i].dst] =
                   [j \in Offsets |->
                      IF j \in Bytes(work[i].piece, b) THEN mem[work[i].src][j] ELSE @[j]]]
      BY <3>1
    <3>3. i \in 1..Len(work) /\ Op(i) \in started /\ work' = work
      BY <1>0, <2>2, <3>1, LenProperties DEF CopyState, Op, RunBlock
    <3> QED
      BY <3>2, <3>3, BlockConsistent
  <2>3. CASE StreamAwait \/ StartOp \/ CompleteOp \/ UNCHANGED vars
    <3>1. mem' = mem /\ work' = work /\ blocks' = blocks
      BY <2>3 DEF StreamAwait, StartOp, CompleteOp, vars
    <3>2. \A c, j : Reached(own, c, j)' <=> Reached(own, c, j)
      BY <3>1 DEF Reached, Ran
    <3> QED
      BY <3>1, <3>2, SameReached
  <2> QED
    BY <2>1, <2>2, <2>3
<1> QED
  BY <1>3, <1>4, <1>5, <1>6 DEF Explained

\* The explanation once call c is made.
Extends(c, log, own, E, log2, own2, E2) ==
    /\ log2 = Append(log, c)
    /\ \A k \in 1..Len(work) : own2[k] = own[k]
    /\ \A k \in Nat \ (1..Len(work)) : own2[k] = Len(log) + 1
    /\ \A x \in 0..Len(log) : E2[x] = E[x]
    /\ E2[Len(log) + 1] = After(E[Len(log)], c)

Calls(c) == MemCpy(c.dst, c.src, c.size, c.async)

\* What a call launches comes after all that was launched.
LEMMA CallLaunches ==
    ASSUME Kept, CopyState, NEW c \in Request, Calls(c)
    PROVE  /\ Len(work) \in Nat /\ Len(JobsOf(c)) \in Nat
           /\ Launched = work /\ work' = work
           /\ Within(TypeOf(c), c.size) /\ c.dst # c.src
           /\ JobsOf(c) \in Seq(Job)
           /\ Len(Launched') = Len(work) + Len(JobsOf(c))
           /\ \A k \in 1..Len(work) : Launched'[k] = work[k]
           /\ \A k \in 1..Len(JobsOf(c)) : Launched'[Len(work) + k] = JobsOf(c)[k]
           /\ \A k \in 1..Len(Launched') : k \notin 1..Len(work) =>
                 \E i \in 1..Len(JobsOf(c)) : k = Len(work) + i
<1>1. /\ call = <<>> /\ call' = JobsOf(c) /\ work' = work
      /\ Within(TypeOf(c), c.size) /\ c.dst # c.src
  BY DEF Calls, MemCpy, MayCopy, JobsOf, TypeOf, Kept, AllRules
<1>2. /\ JobsOf(c) \in Seq(Job) /\ Launched = work /\ work \in Seq(Job)
  BY <1>1, RequestParts, LaunchedIs DEF CopyState
<1> DEFINE jobs == JobsOf(c)
<1> HIDE DEF jobs
<1>3. /\ jobs \in Seq(Job) /\ Launched' = work \o jobs
  BY <1>1, <1>2 DEF jobs, Launched
<1>4. Len(work) \in Nat /\ Len(jobs) \in Nat
  BY <1>2, <1>3, LenProperties
<1>5. /\ Len(Launched') = Len(work) + Len(jobs)
      /\ \A k \in 1..(Len(work) + Len(jobs)) :
            Launched'[k] = IF k <= Len(work) THEN work[k] ELSE jobs[k - Len(work)]
  BY <1>2, <1>3, ConcatProperties
<1>6. /\ \A k \in 1..Len(work) : Launched'[k] = work[k]
      /\ \A k \in 1..Len(jobs) : Launched'[Len(work) + k] = jobs[k]
  BY <1>4, <1>5
<1>7. ASSUME NEW k \in 1..Len(Launched'), k \notin 1..Len(work)
      PROVE  \E i \in 1..Len(jobs) : k = Len(work) + i
  <2>1. k - Len(work) \in 1..Len(jobs) /\ k = Len(work) + (k - Len(work))
    BY <1>4, <1>5, <1>7
  <2> QED
    BY <2>1
<1> QED
  BY <1>1, <1>2, <1>4, <1>5, <1>6, <1>7 DEF jobs

\* The calls with one more.
LEMMA OneMore ==
    ASSUME NEW c \in Request, NEW log \in Seq(Request), NEW log2, log2 = Append(log, c)
    PROVE  /\ log2 \in Seq(Request) /\ Len(log) \in Nat /\ Len(log2) = Len(log) + 1
           /\ log2[Len(log) + 1] = c
           /\ \A m \in 1..Len(log) : log2[m] = log[m]
           /\ \A m : m \in 1..Len(log2) <=> m \in 1..Len(log) \/ m = Len(log) + 1
<1>1. Len(log) \in Nat
  BY LenProperties
<1>2. Len(log2) = Len(log) + 1
  BY AppendProperties
<1>3. \A m : m \in 1..(Len(log) + 1) <=> m \in 1..Len(log) \/ m = Len(log) + 1
  BY <1>1
<1> QED
  BY <1>1, <1>2, <1>3, AppendProperties

\* Numbers up to a sum.
LEMMA UpToSum ==
    ASSUME NEW w \in Nat, NEW x \in Nat
    PROVE  /\ \A k \in 1..(w + x) : k \notin 1..w => k - w \in 1..x /\ k = w + (k - w) /\ w + 1 \in 1..k
           /\ \A k \in 1..x : w + k \in 1..(w + x) /\ w + k \notin 1..w /\ w + k \in Nat
           /\ \A k \in 1..w : k \in 1..(w + x) /\ \A l \in 1..k : l \in 1..w
           /\ \A k : k \in 1..(w + 1) <=> k \in 1..w \/ k = w + 1
           /\ w + 1 \notin 1..w /\ w + 1 \in Nat
OBVIOUS

\* L adds the x operations jobs of call c to the w operations W of n calls.
Adds(c, jobs, w, n, x, log, log2, own, own2, W, L) ==
    /\ Len(log) = n /\ Len(log2) = n + 1
    /\ log2[n + 1] = c /\ \A m \in 1..n : log2[m] = log[m]
    /\ Len(W) = w /\ \A k \in 1..w : own2[k] = own[k] /\ L[k] = W[k]
    /\ \A k \in Nat : k \notin 1..w => own2[k] = n + 1
    /\ jobs = JobsOf(c) /\ DOMAIN jobs = 1..x /\ 1 \in 1..x
    /\ Len(L) = w + x /\ \A k \in 1..x : L[w + k] = jobs[k]
    /\ Within(TypeOf(c), c.size) /\ c.dst # c.src
    /\ ~c.async => ~jobs[1].async
    /\ AccountsFor(log, own, W)

\* With one more call, its parts come last.
LEMMA MoreAccounted ==
    ASSUME NEW w \in Nat, NEW n \in Nat, NEW x \in Nat, NEW log, NEW log2, NEW own, NEW own2,
           NEW W, NEW L, NEW jobs, NEW c,
           Adds(c, jobs, w, n, x, log, log2, own, own2, W, L)
    PROVE  AccountsFor(log2, own2, L)
<1> USE DEF Adds
<1>1. \A m : m \in 1..Len(log2) <=> m \in 1..n \/ m = n + 1
  BY UpToSum
<1>2. \A m \in 1..Len(log2) : Within(TypeOf(log2[m]), log2[m].size) /\ log2[m].dst # log2[m].src
  <2>1. \A m \in 1..n : Within(TypeOf(log[m]), log[m].size) /\ log[m].dst # log[m].src
    BY DEF AccountsFor
  <2> QED
    BY <1>1, <2>1
<1>3. \A k \in 1..w : own[k] \in 1..n
  BY DEF AccountsFor
<1>7. \A k \in 1..w : PartOf(log[own[k]], W[k])
  BY DEF AccountsFor
<1>8. \A k \in 1..w : ~log[own[k]].async => Led(own, W, k)
  BY DEF AccountsFor
<1>4. ASSUME NEW k \in 1..Len(L)
      PROVE  /\ own2[k] \in 1..Len(log2)
             /\ PartOf(log2[own2[k]], L[k])
             /\ ~log2[own2[k]].async => Led(own2, L, k)
  <2>1. CASE k \in 1..w
    <3>0. own[k] \in 1..n
      BY <1>3, <2>1
    <3>7. PartOf(log[own[k]], W[k])
      BY <1>7, <2>1
    <3>8. ~log[own[k]].async => Led(own, W, k)
      BY <1>8, <2>1
    <3>5. own2[k] = own[k] /\ L[k] = W[k]
      BY <2>1
    <3>6. log2[own2[k]] = log[own[k]]
      BY <3>0, <3>5
    <3>1. own2[k] = own[k] /\ own[k] \in 1..n /\ log2[own2[k]] = log[own[k]] /\ L[k] = W[k]
      BY <3>0, <3>5, <3>6
    <3>2. \A l \in 1..k : own2[l] = own[l] /\ L[l] = W[l]
      BY <2>1, UpToSum
    <3>3. own2[k] \in 1..Len(log2)
      BY <1>1, <3>1
    <3> QED
      <4>1. Led(own, W, k) => Led(own2, L, k)
        BY <2>1, <3>1, <3>2 DEF Led
      <4>2. PartOf(log2[own2[k]], L[k])
        BY <3>1, <3>7, Zenon
      <4>3. ~log2[own2[k]].async => Led(own2, L, k)
        BY <3>1, <3>8, <4>1, Zenon
      <4> QED
        BY <3>3, <4>2, <4>3
  <2>2. CASE k \notin 1..w
    <3>1. /\ k - w \in 1..x /\ k = w + (k - w) /\ w + 1 \in 1..k
          /\ w + 1 \notin 1..w /\ w + 1 \in Nat /\ k \in Nat
      BY <2>2, UpToSum
    <3>2. own2[k] = n + 1 /\ log2[own2[k]] = c /\ L[k] = jobs[k - w]
      BY <2>2, <3>1
    <3>3. own2[w + 1] = n + 1 /\ L[w + 1] = jobs[1]
      BY <3>1
    <3>4. own2[k] \in 1..Len(log2)
      BY <1>1, <3>2
    <3>5. PartOf(c, jobs[k - w])
      BY <3>1 DEF PartOf
    <3>6. ~c.async => Led(own2, L, k)
      BY <3>1, <3>2, <3>3 DEF Led
    <3> QED
      BY <3>2, <3>4, <3>5, <3>6
  <2> QED
    BY <2>1, <2>2
<1>5. ASSUME NEW k \in 1..Len(L), NEW l \in 1..Len(L), k <= l
      PROVE  own2[k] <= own2[l]
  <2>1. k \in Nat /\ l \in Nat
    OBVIOUS
  <2>2. CASE l \in 1..w
    <3>1. k \in 1..w
      BY <1>5, <2>1, <2>2
    <3>2. own[k] <= own[l]
      BY <1>5, <2>2, <3>1 DEF AccountsFor
    <3> QED
      BY <2>2, <3>1, <3>2
  <2>3. CASE l \notin 1..w
    <3>1. own2[l] = n + 1
      BY <2>1, <2>3
    <3>2. CASE k \in 1..w
      <4>1. own2[k] = own[k] /\ own[k] \in 1..n
        BY <1>3, <3>2
      <4> QED
        BY <3>1, <4>1
    <3>3. CASE k \notin 1..w
      <4>1. own2[k] = n + 1
        BY <2>1, <3>3
      <4> QED
        BY <3>1, <4>1
    <3> QED
      BY <3>2, <3>3
  <2> QED
    BY <2>2, <2>3
<1>6. ASSUME NEW m \in 1..Len(log2), NEW i \in DOMAIN JobsOf(log2[m])
      PROVE  \E k \in 1..Len(L) : own2[k] = m /\ L[k] = JobsOf(log2[m])[i]
  <2>1. CASE m \in 1..n
    <3>1. \A y \in 1..Len(log) : \A z \in DOMAIN JobsOf(log[y]) :
             \E k \in 1..Len(W) : own[k] = y /\ W[k] = JobsOf(log[y])[z]
      BY Zenon DEF AccountsFor
    <3>2. log2[m] = log[m]
      BY <2>1
    <3>3. PICK k \in 1..w : own[k] = m /\ W[k] = JobsOf(log2[m])[i]
      BY <1>6, <2>1, <3>1, <3>2
    <3>4. k \in 1..Len(L)
      BY UpToSum
    <3> QED
      BY <3>3, <3>4
  <2>2. CASE m = n + 1
    <3>1. i \in 1..x /\ JobsOf(log2[m]) = jobs
      BY <1>6, <2>2
    <3>2. w + i \in 1..Len(L) /\ w + i \notin 1..w /\ w + i \in Nat
      BY <3>1, UpToSum
    <3> QED
      BY <2>2, <3>1, <3>2
  <2> QED
    BY <1>1, <2>1, <2>2
<1> QED
  BY <1>2, <1>4, <1>5, <1>6 DEF AccountsFor

\* The operations of the call are its parts.
LEMMA CallAccounted ==
    ASSUME Kept, CopyState, NEW c \in Request, Calls(c),
           NEW log \in Seq(Request), NEW own \in [Nat -> Nat], NEW E, Accounted(log, own),
           NEW log2, NEW own2, NEW E2, Extends(c, log, own, E, log2, own2, E2)
    PROVE  Accounted(log2, own2)'
<1> PICK jobs : jobs = JobsOf(c)
  OBVIOUS
<1>1. /\ Len(work) \in Nat /\ Len(jobs) \in Nat
      /\ Launched = work /\ jobs \in Seq(Job)
      /\ Within(TypeOf(c), c.size) /\ c.dst # c.src
      /\ Len(Launched') = Len(work) + Len(jobs)
      /\ \A k \in 1..Len(work) : Launched'[k] = work[k]
      /\ \A k \in 1..Len(jobs) : Launched'[Len(work) + k] = jobs[k]
  BY CallLaunches
<1>2. /\ Len(log) \in Nat /\ Len(log2) = Len(log) + 1
      /\ log2[Len(log) + 1] = c /\ \A m \in 1..Len(log) : log2[m] = log[m]
  <2>1. log2 = Append(log, c)
    BY DEF Extends
  <2> QED
    BY <2>1, OneMore
<1>3. /\ \A k \in 1..Len(work) : own2[k] = own[k]
      /\ \A k \in Nat : k \notin 1..Len(work) => own2[k] = Len(log) + 1
  BY DEF Extends
<1>4. jobs # <<>> /\ (~c.async => ~jobs[1].async)
  BY <1>1, RequestParts
<1>5. DOMAIN jobs = 1..Len(jobs) /\ 1 \in 1..Len(jobs)
  BY <1>1, <1>4, LenProperties, EmptySeq
<1>6. AccountsFor(log, own, work)
  BY <1>1 DEF Accounted
<1> PICK w \in Nat : w = Len(work)
  BY <1>1
<1> PICK n \in Nat : n = Len(log)
  BY <1>2
<1> PICK x \in Nat : x = Len(jobs)
  BY <1>1
<1> PICK W : W = work
  OBVIOUS
<1> PICK L : L = Launched'
  OBVIOUS
<1>8. /\ Len(log) = n /\ Len(log2) = n + 1 /\ log2[n + 1] = c
      /\ \A m \in 1..n : log2[m] = log[m]
  BY <1>2
<1>9. /\ Len(W) = w /\ \A k \in 1..w : own2[k] = own[k] /\ L[k] = W[k]
      /\ \A k \in Nat : k \notin 1..w => own2[k] = n + 1
  BY <1>1, <1>3
<1>10. /\ jobs = JobsOf(c) /\ DOMAIN jobs = 1..x /\ 1 \in 1..x
       /\ Len(L) = w + x /\ \A k \in 1..x : L[w + k] = jobs[k]
  BY <1>1, <1>5
<1>11. Within(TypeOf(c), c.size) /\ c.dst # c.src /\ (~c.async => ~jobs[1].async)
  BY <1>1, <1>4
<1>12. AccountsFor(log, own, W)
  BY <1>6
<1>14. Adds(c, jobs, w, n, x, log, log2, own, own2, W, L)
  BY <1>8, <1>9, <1>10, <1>11, <1>12, Zenon DEF Adds
<1>13. AccountsFor(log2, own2, L)
  BY <1>14, MoreAccounted
<1>7. AccountsFor(log2, own2, Launched')
  BY <1>13
<1> QED
  BY <1>7, Zenon DEF Accounted, AccountsFor

\* A call that was done is done when another is made.
LEMMA CallKeepsFinished ==
    ASSUME Kept, CopyState, NEW c \in Request, Calls(c),
           NEW log \in Seq(Request), NEW own \in [Nat -> Nat], NEW E,
           NEW log2, NEW own2, NEW E2, Extends(c, log, own, E, log2, own2, E2),
           NEW m \in 1..Len(log), Finished(own, m)
    PROVE  Finished(own2, m)'
<1>1. done' = done
  BY DEF Calls, MemCpy, streamVars
<1>2. /\ Len(work) \in Nat /\ Len(Launched') \in Nat /\ Launched = work
  <2>1. /\ Len(work) \in Nat /\ Len(JobsOf(c)) \in Nat /\ Launched = work
        /\ Len(Launched') = Len(work) + Len(JobsOf(c))
    BY CallLaunches
  <2> QED
    BY <2>1
<1>3. Len(log) \in Nat
  BY LenProperties
<1> SUFFICES ASSUME NEW k \in 1..Len(Launched'), own2[k] = m
             PROVE  Op(k) \in done'
  BY Zenon DEF Finished
<1>4. k \in Nat
  BY <1>2
<1>5. k \in 1..Len(work)
  <2>1. k \notin 1..Len(work) => own2[k] = Len(log) + 1
    BY <1>4 DEF Extends
  <2> QED
    BY <1>3, <2>1
<1>6. own[k] = m
  BY <1>5 DEF Extends
<1>7. Op(k) \in done
  BY <1>2, <1>5, <1>6 DEF Finished
<1> QED
  BY <1>1, <1>7

\* Of the r newest calls of n, those from the i-th on.
Upward(n, r, i) ==
    \A j \in i..r : /\ j \in 1..r /\ n - r + j \in 1..n
                    /\ j # i => n - r + j \in (n - r + i + 1)..n

\* Where a call is among the r newest of n.
LEMMA Newest ==
    ASSUME NEW n \in Nat, NEW r \in Nat, r <= n, NEW a \in 1..n
    PROVE  \/ a \in 1..(n - r)
           \/ \E i \in 1..r : a = n - r + i /\ Upward(n, r, i)
<1>1. CASE a <= n - r
  BY <1>1
<1>2. CASE a > n - r
  <2> DEFINE i == a - (n - r)
  <2>1. i \in 1..r /\ a = n - r + i
    BY <1>2
  <2>2. Upward(n, r, i)
    BY <2>1 DEF Upward
  <2> HIDE DEF i
  <2> QED
    BY <2>1, <2>2
<1> QED
  BY <1>1, <1>2

\* recent is a sequence.
LEMMA RecentIs ==
    ASSUME TypeParts
    PROVE  recent \in Seq(Copied) /\ Len(recent) \in Nat /\ DOMAIN recent = 1..Len(recent)
<1>1. recent \in Seq(Copied)
  BY DEF TypeParts, HistoryState
<1> QED
  BY <1>1, LenProperties

\* What programs keep to when they make a call.
LEMMA CallSeparated ==
    ASSUME Kept, TypeParts, NEW c \in Request, Calls(c),
           NEW log \in Seq(Request), NEW own \in [Nat -> Nat], NEW E,
           Separated(log, own), Remembered(log, own),
           NEW log2, NEW own2, NEW E2, Extends(c, log, own, E, log2, own2, E2)
    PROVE  Separated(log2, own2)'
<1> PICK n \in Nat : n = Len(log)
  BY LenProperties
<1>14. CopyState
  BY DEF TypeParts
<1>0. Len(recent) \in Nat
  BY RecentIs
<1> PICK r \in Nat : r = Len(recent)
  BY <1>0
<1>1. /\ Len(log2) = n + 1 /\ log2[n + 1] = c /\ \A m \in 1..n : log2[m] = log[m]
  <2>1. log2 = Append(log, c)
    BY DEF Extends
  <2> QED
    BY <2>1, OneMore
<1>7. \A m : m \in 1..Len(log2) <=> m \in 1..n \/ m = n + 1
  BY <1>1, UpToSum
<1>2. \A m \in 1..n : Finished(own, m) => Finished(own2, m)'
  BY <1>14, CallKeepsFinished
<1> DEFINE Apart(a, b, m) == ~log2[m].async \/ TypeOf(log2[m]) # TypeOf(log2[b])
<1> SUFFICES ASSUME NEW a \in 1..Len(log2), NEW b \in 1..Len(log2), a < b, log2[b].async,
                    TypeOf(log2[a]) = TypeOf(log2[b]), Clash(log2[a], log2[b])
             PROVE  (\E m \in (a + 1)..(b - 1) : Apart(a, b, m)) \/ Finished(own2, a)'
  BY Zenon DEF Separated
<1>3. a \in 1..n
  BY <1>1, <1>7
<1>4. log2[a] = log[a]
  BY <1>1, <1>3
<1>5. CASE b \in 1..n
  <2>1. log2[b] = log[b]
    BY <1>1, <1>5
  <2>2. \/ \E m \in (a + 1)..(b - 1) : ~log[m].async \/ TypeOf(log[m]) # TypeOf(log[b])
        \/ Finished(own, a)
    BY <1>3, <1>4, <1>5, <2>1 DEF Separated
  <2>3. ASSUME NEW m \in (a + 1)..(b - 1), ~log[m].async \/ TypeOf(log[m]) # TypeOf(log[b])
        PROVE  Apart(a, b, m)
    <3>1. m \in 1..n
      BY <1>3, <1>5
    <3>2. log2[m] = log[m]
      BY <1>1, <3>1
    <3> QED
      BY <2>1, <2>3, <3>2
  <2> HIDE DEF Apart
  <2> QED
    BY <1>2, <1>3, <2>2, <2>3
<1>6. CASE b = n + 1
  <2>1. log2[b] = c
    BY <1>1, <1>6
  <2>2. r <= n
    BY DEF Remembered
  <2>3. CASE a \in 1..(n - r)
    <3>1. Finished(own, a)
      BY <2>3 DEF Remembered
    <3> QED
      BY <1>2, <1>3, <3>1
  <2>4. ASSUME NEW i \in 1..r, a = n - r + i, Upward(n, r, i)
        PROVE  \E m \in (a + 1)..(b - 1) : Apart(a, b, m)
    <3>1. \A j \in 1..r : recent[j] = [dst |-> log[n - r + j].dst, src |-> log[n - r + j].src,
                                       type |-> TypeOf(log[n - r + j]), async |-> log[n - r + j].async]
      BY DEF Remembered
    <3>2. recent[i] = [dst |-> log[a].dst, src |-> log[a].src,
                       type |-> TypeOf(log[a]), async |-> log[a].async]
      BY <2>4, <3>1
    <3>3. recent[i].type = TypeOf(c) /\ Conflict(recent[i], c.dst, c.src)
      <4>1. recent[i].type = TypeOf(log[a]) /\ recent[i].dst = log[a].dst /\ recent[i].src = log[a].src
        BY <3>2
      <4>2. TypeOf(log[a]) = TypeOf(c) /\ Conflict(log[a], c.dst, c.src)
        BY <1>4, <2>1 DEF Clash
      <4> QED
        BY <4>1, <4>2 DEF Conflict
    <3>4. i \notin Beside(TypeOf(c))
      BY <2>1, <3>3 DEF Calls, MemCpy, MayCopy, TypeOf
    <3>5. DOMAIN recent = 1..r
      BY RecentIs
    <3>6. PICK j \in i..r : j # i /\ ~(recent[j].async /\ recent[j].type = TypeOf(c))
      BY <3>3, <3>4, <3>5 DEF Beside, Kept, AllRules
    <3> PICK m : m = n - r + j
      OBVIOUS
    <3>7. m \in (a + 1)..n /\ m \in 1..n /\ j \in 1..r
      <4>1. \A y \in i..r : y \in 1..r /\ n - r + y \in 1..n
        BY <2>4 DEF Upward
      <4>2. \A y \in i..r : y # i => n - r + y \in (n - r + i + 1)..n
        BY <2>4 DEF Upward
      <4>3. j \in 1..r /\ m \in 1..n
        BY <4>1
      <4>4. m \in (n - r + i + 1)..n
        BY <3>6, <4>2
      <4> QED
        BY <2>4, <4>3, <4>4
    <3>8. recent[j].async = log[m].async /\ recent[j].type = TypeOf(log[m]) /\ log2[m] = log[m]
      <4>1. recent[j] = [dst |-> log[m].dst, src |-> log[m].src,
                         type |-> TypeOf(log[m]), async |-> log[m].async]
        BY <3>1, <3>7
      <4>2. recent[j].async = log[m].async /\ recent[j].type = TypeOf(log[m])
        BY <4>1
      <4>3. log2[m] = log[m]
        BY <1>1, <3>7
      <4> QED
        BY <4>2, <4>3
    <3>9. Apart(a, b, m)
      BY <2>1, <3>6, <3>8
    <3>10. m \in (a + 1)..(b - 1)
      BY <1>6, <3>7
    <3> HIDE DEF Apart
    <3> QED
      BY <3>9, <3>10
  <2> HIDE DEF Apart
  <2>5. CASE a \notin 1..(n - r)
    <3>1. PICK i \in 1..r : a = n - r + i /\ Upward(n, r, i)
      BY <1>3, <2>2, <2>5, Newest
    <3> QED
      BY <2>4, <3>1
  <2> QED
    BY <2>3, <2>5
<1> QED
  BY <1>5, <1>6, <1>7

\* recent has the call too.
LEMMA CallRemembered ==
    ASSUME Kept, TypeParts, NEW c \in Request, Calls(c),
           NEW log \in Seq(Request), NEW own \in [Nat -> Nat], NEW E, Remembered(log, own),
           NEW log2, NEW own2, NEW E2, Extends(c, log, own, E, log2, own2, E2)
    PROVE  Remembered(log2, own2)'
<1> DEFINE Entry(d) == [dst |-> d.dst, src |-> d.src, type |-> TypeOf(d), async |-> d.async]
<1> PICK n \in Nat : n = Len(log)
  BY LenProperties
<1>14. CopyState
  BY DEF TypeParts
<1>0. Len(recent) \in Nat
  BY RecentIs
<1> PICK r \in Nat : r = Len(recent)
  BY <1>0
<1> PICK new : new = recent'
  OBVIOUS
<1>1. /\ Len(log2) = n + 1 /\ log2[n + 1] = c /\ \A m \in 1..n : log2[m] = log[m]
  <2>1. log2 = Append(log, c)
    BY DEF Extends
  <2> QED
    BY <2>1, OneMore
<1>11. new = Append(recent, Entry(c))
  BY DEF Calls, MemCpy, TypeOf
<1>12. Entry(c) \in Copied
  BY DEF TypeOf, Type, Request, Copied
<1>2. /\ new = Append(recent, Entry(c)) /\ Entry(c) \in Copied /\ recent \in Seq(Copied)
  BY <1>11, <1>12, RecentIs
<1> HIDE DEF Entry
<1>3. /\ Len(new) = r + 1 /\ new[r + 1] = Entry(c) /\ \A i \in 1..r : new[i] = recent[i]
  BY <1>2, AppendProperties
<1>4. r <= n /\ (n + 1) - (r + 1) = n - r
  BY DEF Remembered
<1>5. \A i \in 1..r : recent[i] = Entry(log[n - r + i])
  BY DEF Remembered, Entry
<1>6. ASSUME NEW i \in 1..(r + 1)
      PROVE  new[i] = Entry(log2[n - r + i])
  <2>1. CASE i \in 1..r
    <3>1. n - r + i \in 1..n
      BY <1>4, <2>1
    <3>2. log2[n - r + i] = log[n - r + i]
      BY <1>1, <3>1
    <3>3. new[i] = recent[i] /\ recent[i] = Entry(log[n - r + i])
      BY <1>3, <1>5, <2>1
    <3> QED
      BY <3>2, <3>3
  <2>2. CASE i = r + 1
    <3>1. n - r + i = n + 1
      BY <2>2
    <3>2. new[i] = Entry(c)
      BY <1>3, <2>2
    <3>3. log2[n - r + i] = c
      BY <1>1, <3>1
    <3> QED
      BY <3>2, <3>3
  <2>3. i \in 1..r \/ i = r + 1
    BY UpToSum
  <2> QED
    BY <2>1, <2>2, <2>3
<1>7. ASSUME NEW a \in 1..(n - r)
      PROVE  Finished(own2, a)'
  <2>1. Finished(own, a)
    BY <1>7 DEF Remembered
  <2>2. a \in 1..n
    BY <1>4
  <2> QED
    BY <2>1, <2>2, <1>14, CallKeepsFinished
<1>8. /\ Len(recent') <= Len(log2)
      /\ Len(log2) - Len(recent') = n - r
  BY <1>1, <1>3, <1>4
<1>9. ASSUME NEW i \in 1..Len(recent')
      PROVE  recent'[i] = Entry(log2[Len(log2) - Len(recent') + i])
  BY <1>3, <1>6, <1>8
<1>10. \A a \in 1..(Len(log2) - Len(recent')) : Finished(own2, a)'
  BY <1>7, <1>8
<1> QED
  BY <1>8, <1>9, <1>10 DEF Remembered, Entry

\* What a call leaves of memory.
LEMMA AfterElse ==
    ASSUME NEW m \in Memory, NEW c \in Request
    PROVE  /\ After(m, c) \in Memory
           /\ \A b \in Buffers, j \in Offsets : ~Writes(c, b, j) => After(m, c)[b][j] = m[b][j]
<1>1. c.dst \in Buffers /\ c.src \in Buffers
  BY DEF Request
<1>2. After(m, c) \in Memory
  BY <1>1 DEF After, Memory
<1>3. ASSUME NEW b \in Buffers, NEW j \in Offsets, ~Writes(c, b, j)
      PROVE  After(m, c)[b][j] = m[b][j]
  <2>1. CASE b = c.dst
    <3>1. ~(j < c.size)
      BY <1>3, <2>1 DEF Writes
    <3> QED
      BY <1>1, <2>1, <3>1 DEF After, Memory
  <2>2. CASE b # c.dst
    BY <1>1, <2>2 DEF After, Memory
  <2> QED
    BY <2>1, <2>2
<1> QED
  BY <1>2, <1>3

\* Numbers up to the next.
LEMMA UpToNext ==
    ASSUME NEW n \in Nat
    PROVE  /\ \A d \in 0..(n + 1) : d \in 0..n \/ d = n + 1
           /\ \A d \in 1..(n + 1) : d \in 1..n \/ d = n + 1
           /\ \A d \in 1..n : d - 1 \in 0..n /\ d \in 0..n /\ d \in 1..(n + 1) /\ d <= n /\ d <= n + 1
           /\ \A c \in 0..n : \A d \in 0..n : \A m \in (c + 1)..d : m \in 1..n
           /\ \A c \in 0..n : \A m \in (c + 1)..n : m \in (c + 1)..(n + 1) /\ m \in 1..n
           /\ \A c \in 0..n : n + 1 \in (c + 1)..(n + 1) /\ c <= n
           /\ \A d \in 0..n : ~(n + 1 <= d) /\ d # n + 1
           /\ n \in 0..n /\ n + 1 \in 1..(n + 1) /\ n + 1 \in 0..(n + 1) /\ (n + 1) - 1 = n
OBVIOUS

\* The memory after the call is the one expected.
LEMMA CallForeseen ==
    ASSUME TypeParts, NEW c \in Request, Calls(c),
           NEW log \in Seq(Request), NEW own, NEW E \in [Nat -> Memory], Foreseen(log, E),
           NEW log2, NEW own2, NEW E2, Extends(c, log, own, E, log2, own2, E2)
    PROVE  Foreseen(log2, E2)'
<1>0. Len(log) \in Nat
  BY LenProperties
<1> PICK n \in Nat : n = Len(log)
  BY <1>0
<1>1. /\ Len(log2) = n + 1 /\ log2[n + 1] = c /\ \A m \in 1..n : log2[m] = log[m]
  <2>1. log2 = Append(log, c)
    BY DEF Extends
  <2> QED
    BY <2>1, OneMore
<1>2. \A x \in 0..n : E2[x] = E[x]
  BY DEF Extends
<1>3. E2[n + 1] = After(E[n], c)
  BY DEF Extends
<1>4. E[n] = expected
  BY DEF Foreseen
<1>5. expected' = After(expected, c)
  BY DEF Calls, MemCpy, After
<1>6. E2[Len(log2)] = expected'
  BY <1>1, <1>3, <1>4, <1>5
<1>7. ASSUME NEW m \in 1..(n + 1)
      PROVE  E2[m] = After(E2[m - 1], log2[m])
  <2>1. CASE m \in 1..n
    <3>1. E[m] = After(E[m - 1], log[m])
      BY <2>1 DEF Foreseen
    <3>2. m \in 0..n /\ m - 1 \in 0..n
      BY <2>1, UpToNext
    <3>3. E2[m] = E[m] /\ E2[m - 1] = E[m - 1] /\ log2[m] = log[m]
      BY <1>1, <1>2, <2>1, <3>2
    <3> QED
      BY <3>1, <3>3
  <2>2. CASE m = n + 1
    <3>1. m - 1 = n /\ n \in 0..n
      BY <2>2
    <3>2. E2[m - 1] = E[n]
      BY <1>2, <3>1
    <3>3. log2[m] = c /\ E2[m] = After(E[n], c)
      BY <1>1, <1>3, <2>2
    <3> QED
      BY <3>2, <3>3
  <2> QED
    BY <2>1, <2>2, UpToNext
<1> DEFINE Untouched(l, from, to, b, j) == \A m \in (from + 1)..to : ~Writes(l[m], b, j)
<1>8. \A e, d \in 0..n, b \in Buffers, j \in Offsets :
         e <= d /\ Untouched(log, e, d, b, j) => E[e][b][j] = E[d][b][j]
  BY DEF Foreseen
<1>9. ASSUME NEW e \in 0..(n + 1), NEW d \in 0..(n + 1), NEW b \in Buffers, NEW j \in Offsets,
             e <= d, Untouched(log2, e, d, b, j)
      PROVE  E2[e][b][j] = E2[d][b][j]
  <2>1. ASSUME NEW f \in 0..n, e \in 0..n, e <= f, f <= d
        PROVE  E2[e][b][j] = E[f][b][j]
    <3>1. ASSUME NEW m \in (e + 1)..f
          PROVE  ~Writes(log[m], b, j)
      <4>1. m \in (e + 1)..d /\ m \in 1..n
        BY <2>1
      <4>2. ~Writes(log2[m], b, j)
        BY <1>9, <4>1
      <4> QED
        BY <1>1, <4>1, <4>2
    <3>2. Untouched(log, e, f, b, j)
      BY <3>1
    <3> HIDE DEF Untouched
    <3>3. E[e][b][j] = E[f][b][j]
      BY <1>8, <2>1, <3>2
    <3> QED
      BY <1>2, <2>1, <3>3
  <2>2. CASE d \in 0..n
    <3>1. e \in 0..n /\ d <= d
      BY <1>9, <2>2
    <3>2. E2[e][b][j] = E[d][b][j]
      BY <1>9, <2>1, <2>2, <3>1
    <3> QED
      BY <1>2, <2>2, <3>2
  <2>3. CASE d = n + 1 /\ e \in 0..n
    <3>1. n \in 0..n /\ e <= n /\ n <= d /\ n + 1 \in (e + 1)..d
      BY <2>3
    <3>2. E2[e][b][j] = E[n][b][j]
      BY <2>1, <2>3, <3>1
    <3>3. ~Writes(c, b, j)
      BY <1>1, <1>9, <3>1
    <3>4. E[n] \in Memory
      OBVIOUS
    <3>5. After(E[n], c)[b][j] = E[n][b][j]
      BY <3>3, <3>4, AfterElse
    <3>6. E2[d] = After(E[n], c)
      BY <1>3, <2>3
    <3> QED
      BY <3>2, <3>5, <3>6
  <2>4. CASE d = n + 1 /\ e = n + 1
    BY <2>4
  <2> QED
    BY <2>2, <2>3, <2>4, UpToNext
<1>10. \A m \in 1..Len(log2) : E2[m] = After(E2[m - 1], log2[m])
  BY <1>1, <1>7
<1>11. \A e, d \in 0..(n + 1), b \in Buffers, j \in Offsets :
          e <= d /\ (\A m \in (e + 1)..d : ~Writes(log2[m], b, j)) => E2[e][b][j] = E2[d][b][j]
  BY <1>9
<1>12. \A e, d \in 0..Len(log2), b \in Buffers, j \in Offsets :
          e <= d /\ (\A m \in (e + 1)..d : ~Writes(log2[m], b, j)) => E2[e][b][j] = E2[d][b][j]
  BY <1>1, <1>11
<1> QED
  BY <1>6, <1>10, <1>12, Zenon DEF Foreseen

\* The call has not reached anything.
LEMMA CallConsistent ==
    ASSUME Kept, TypeParts, NEW c \in Request, Calls(c),
           NEW log \in Seq(Request), NEW own \in [Nat -> Nat], NEW E \in [Nat -> Memory],
           Accounted(log, own), Consistent(log, own, E),
           NEW log2, NEW own2, NEW E2, Extends(c, log, own, E, log2, own2, E2)
    PROVE  Consistent(log2, own2, E2)'
<1>0. Len(log) \in Nat
  BY LenProperties
<1> PICK n \in Nat : n = Len(log)
  BY <1>0
<1>1. /\ Len(log2) = n + 1 /\ log2[n + 1] = c /\ \A m \in 1..n : log2[m] = log[m]
  <2>1. log2 = Append(log, c)
    BY DEF Extends
  <2> QED
    BY <2>1, OneMore
<1>2. work' = work /\ blocks' = blocks /\ mem' = mem
  BY DEF Calls, MemCpy
<1>3. \A m, j : Reached(own2, m, j)' <=> Reached(own, m, j)
  <2>1. \A k \in 1..Len(work) : own2[k] = own[k]
    BY DEF Extends
  <2> SUFFICES ASSUME NEW m, NEW j
               PROVE  Reached(own2, m, j)' <=> Reached(own, m, j)
    OBVIOUS
  <2>2. \A k : Ran(k, j)' <=> Ran(k, j)
    BY <1>2 DEF Ran
  <2> QED
    BY <1>2, <2>1, <2>2 DEF Reached
<1>4. \A j : ~Reached(own, n + 1, j)
  <2>1. ASSUME NEW k \in 1..Len(work)
        PROVE  own[k] # n + 1
    <3>1. CopyState
      BY DEF TypeParts
    <3>2. k \in 1..Len(Launched)
      BY <3>1, LaunchedIs
    <3>3. own[k] \in 1..n
      BY <3>2 DEF Accounted, AccountsFor
    <3> QED
      BY <3>3
  <2> QED
    BY <2>1 DEF Reached
<1>5. ASSUME NEW e \in 0..(n + 1), NEW b \in Buffers, NEW j \in Offsets,
             Current(log2, own2, e, b, j)'
      PROVE  mem'[b][j] = E2[e][b][j]
  <2>1. \A m \in 1..(n + 1) : Writes(log2[m], b, j) => (m <= e <=> Reached(own, m, j))
    BY <1>1, <1>3, <1>5, Zenon DEF Current
  <2>2. ASSUME NEW m \in 1..n, Writes(log[m], b, j)
        PROVE  m <= e <=> Reached(own, m, j)
    <3>1. m \in 1..(n + 1) /\ log2[m] = log[m]
      BY <1>1, UpToNext
    <3> QED
      BY <2>1, <2>2, <3>1
  <2>3. CASE e \in 0..n
    <3>1. Current(log, own, e, b, j)
      BY <2>2 DEF Current
    <3>2. mem[b][j] = E[e][b][j]
      BY <2>3, <3>1 DEF Consistent
    <3>3. E2[e] = E[e]
      BY <2>3 DEF Extends
    <3> QED
      BY <1>2, <3>2, <3>3
  <2>4. CASE e = n + 1
    <3>1. ~Writes(c, b, j)
      <4>1. n + 1 \in 1..(n + 1) /\ n + 1 <= e
        BY <2>4
      <4> QED
        BY <1>1, <1>4, <2>1, <4>1
    <3>2. ASSUME NEW m \in 1..n, Writes(log[m], b, j)
          PROVE  m <= n <=> Reached(own, m, j)
      <4>1. m <= n /\ m <= e
        BY <2>4
      <4> QED
        BY <2>2, <3>2, <4>1
    <3>3. Current(log, own, n, b, j)
      BY <3>2 DEF Current
    <3>4. n \in 0..n /\ E[n] \in Memory
      OBVIOUS
    <3>5. mem[b][j] = E[n][b][j]
      BY <3>3, <3>4 DEF Consistent
    <3>6. After(E[n], c)[b][j] = E[n][b][j]
      BY <3>1, <3>4, AfterElse
    <3>7. E2[e] = After(E[n], c)
      BY <2>4 DEF Extends
    <3> QED
      BY <1>2, <3>5, <3>6, <3>7
  <2> QED
    BY <2>3, <2>4, UpToNext
<1>6. 0..Len(log2) = 0..(n + 1)
  BY <1>1
<1>7. \A e \in 0..Len(log2), b \in Buffers, j \in Offsets :
         Current(log2, own2, e, b, j)' => mem'[b][j] = E2[e][b][j]
  BY <1>5, <1>6, Zenon
<1> QED
  BY <1>7, Zenon DEF Consistent

\* A call keeps the explanation, which it extends.
LEMMA CallExplained ==
    ASSUME Kept, TypeParts, Explained, NEW c \in Request, Calls(c)
    PROVE  Explained'
<1> PICK log \in Seq(Request), own \in [Nat -> Nat], E \in [Nat -> Memory] :
       /\ Accounted(log, own) /\ Separated(log, own) /\ Remembered(log, own)
       /\ Foreseen(log, E) /\ Consistent(log, own, E)
  BY DEF Explained
<1>0. CopyState
  BY DEF TypeParts
<1>1. Len(log) \in Nat /\ Len(work) \in Nat
  BY <1>0, LenProperties, LaunchedIs
<1> PICK n \in Nat : n = Len(log)
  BY <1>1
<1> PICK w \in Nat : w = Len(work)
  BY <1>1
<1> PICK log2 : log2 = Append(log, c)
  OBVIOUS
<1>11. n + 1 \in Nat
  OBVIOUS
<1>12. \A k \in Nat : own[k] \in Nat
  BY Zenon
<1> PICK own2 : own2 = [k \in Nat |-> IF k \in 1..w THEN own[k] ELSE n + 1]
  OBVIOUS
<1> PICK E2 : E2 = [x \in Nat |-> IF x \in 0..n THEN E[x] ELSE After(E[n], c)]
  OBVIOUS
<1>2. log2 \in Seq(Request)
  BY OneMore
<1>3. own2 \in [Nat -> Nat]
  <2>1. ASSUME NEW k \in Nat
        PROVE  (IF k \in 1..w THEN own[k] ELSE n + 1) \in Nat
    BY <1>11, <1>12, Zenon
  <2> QED
    BY <2>1
<1>4. E2 \in [Nat -> Memory]
  <2>1. E[n] \in Memory
    OBVIOUS
  <2>2. After(E[n], c) \in Memory
    BY <2>1, AfterElse
  <2>3. \A x \in 0..n : E[x] \in Memory
    OBVIOUS
  <2> HIDE DEF Memory
  <2> QED
    BY <2>2, <2>3
<1>5. Extends(c, log, own, E, log2, own2, E2)
  <2>1. \A k \in 1..w : own2[k] = own[k]
    OBVIOUS
  <2>2. \A k \in Nat \ (1..w) : own2[k] = n + 1
    OBVIOUS
  <2>3. \A x \in 0..n : E2[x] = E[x]
    OBVIOUS
  <2>4. E2[n + 1] = After(E[n], c)
    OBVIOUS
  <2> QED
    BY <2>1, <2>2, <2>3, <2>4 DEF Extends
<1>6. Accounted(log2, own2)'
  BY <1>0, <1>5, CallAccounted
<1>7. Separated(log2, own2)'
  BY <1>5, CallSeparated
<1>8. Remembered(log2, own2)'
  BY <1>5, CallRemembered
<1>9. Foreseen(log2, E2)'
  BY <1>5, CallForeseen
<1>10. Consistent(log2, own2, E2)'
  BY <1>5, CallConsistent
<1> QED
  BY <1>2, <1>3, <1>4, <1>6, <1>7, <1>8, <1>9, <1>10, Zenon DEF Explained

\* Before the first call there is nothing to explain.
LEMMA EffectInit == Kept /\ Init => EffectInv
<1> SUFFICES ASSUME Kept, Init PROVE EffectInv
  OBVIOUS
<1>1. TypeParts
  BY TypeInit
<1>2. work = <<>> /\ call = <<>> /\ mem = Fresh /\ expected = Fresh /\ recent = <<>>
  BY DEF Init
<1>3. Matched
  <2>1. Stream!OrderInv
    BY Stream!OrderInit DEF Init
  <2>2. Len(work) = 0 /\ Len(work) <= MaxOps /\ \A k \in 1..Len(work) : FALSE
    BY <1>2, CopyAssumption
  <2> QED
    BY <2>1, <2>2 DEF Matched
<1>4. Explained
  <2> PICK log : log = <<>>
    OBVIOUS
  <2> PICK own : own = [k \in Nat |-> 0]
    OBVIOUS
  <2> PICK E : E = [x \in Nat |-> Fresh]
    OBVIOUS
  <2>1. log \in Seq(Request) /\ Len(log) = 0 /\ own \in [Nat -> Nat]
    OBVIOUS
  <2>2. E \in [Nat -> Memory] /\ E[0] = Fresh
    <3>1. Fresh \in Memory
      BY DEF Fresh, Memory
    <3> QED
      BY <3>1
  <2>3. Launched = <<>> /\ Len(Launched) = 0
    BY <1>2 DEF Launched
  <2>4. (\A k \in 1..Len(log) : FALSE) /\ (\A k \in 1..Len(Launched) : FALSE)
    BY <2>1, <2>3
  <2>5. Accounted(log, own)
    BY <2>4 DEF Accounted, AccountsFor
  <2>6. Separated(log, own)
    BY <2>4 DEF Separated
  <2>7. Remembered(log, own)
    BY <1>2, <2>1 DEF Remembered
  <2>8. \A e \in 0..Len(log) : e = 0
    BY <2>1
  <2>9. Foreseen(log, E)
    BY <1>2, <2>1, <2>2, <2>4, <2>8 DEF Foreseen
  <2>10. Consistent(log, own, E)
    BY <1>2, <2>2, <2>8 DEF Consistent
  <2> QED
    BY <2>1, <2>2, <2>5, <2>6, <2>7, <2>9, <2>10, Zenon DEF Explained
<1> QED
  BY <1>1, <1>3, <1>4 DEF EffectInv

\* Every step keeps what is explained so, unless a launch fails.
LEMMA EffectStep == Kept /\ EffectInv /\ [Next]_vars => EffectInv'
<1> SUFFICES ASSUME Kept, EffectInv, [Next]_vars
             PROVE  EffectInv'
  BY DEF Kept
<1>1. TypeParts /\ Matched
  BY DEF EffectInv
<1>2. TypeParts' /\ Matched'
  BY <1>1, TypeStep, MatchedStep
<1>3. ASSUME failures' = 0
      PROVE  Explained'
  <2>0. failures \in Nat
    BY <1>1 DEF TypeParts, HistoryState
  <2>1. CASE LaunchFails
    <3>1. failures' # 0
      BY <2>0, <2>1 DEF LaunchFails
    <3> QED
      BY <1>3, <3>1
  <2>2. CASE Launch \/ StreamAwait \/ StartOp \/ CompleteOp \/ RunBlock \/ UNCHANGED vars
    <3>1. failures' = failures
      BY <2>2 DEF Launch, StreamAwait, StartOp, CompleteOp, RunBlock, vars
    <3>2. Explained
      BY <1>3, <3>1 DEF EffectInv
    <3> QED
      BY <1>1, <2>2, <3>2, ExplainedStep
  <2>3. ASSUME NEW dst \in Buffers, NEW src \in Buffers, NEW size \in Sizes, NEW async \in BOOLEAN,
               MemCpy(dst, src, size, async)
        PROVE  Explained'
    <3> PICK c : c = [dst |-> dst, src |-> src, size |-> size, async |-> async]
      OBVIOUS
    <3>1. size \in Nat
      BY CopyAssumption
    <3>2. c \in Request /\ Calls(c)
      BY <2>3, <3>1 DEF Request, Calls
    <3>3. failures' = failures
      BY <2>3 DEF MemCpy
    <3>4. Explained
      BY <1>3, <3>3 DEF EffectInv
    <3> QED
      BY <1>1, <3>2, <3>4, CallExplained
  <2> QED
    BY <2>1, <2>2, <2>3 DEF Next
<1> QED
  BY <1>2, <1>3 DEF EffectInv

\* Once all is awaited, every call has reached all it writes.
LEMMA EffectIsMeant == Kept /\ EffectInv => CopiesTakeEffect
<1> SUFFICES ASSUME Kept, EffectInv, call = <<>>, failures = 0, awaited["stream"] = Len(work)
             PROVE  mem = expected
  BY DEF CopiesTakeEffect
<1>1. TypeParts /\ Matched /\ CopyState
  BY DEF EffectInv, TypeParts
<1> PICK log \in Seq(Request), own \in [Nat -> Nat], E \in [Nat -> Memory] :
       /\ Accounted(log, own) /\ Separated(log, own) /\ Remembered(log, own)
       /\ Foreseen(log, E) /\ Consistent(log, own, E)
  BY DEF EffectInv, Explained
<1>2. Launched = work /\ Len(work) \in Nat /\ Len(log) \in Nat
  BY <1>1, LaunchedIs, LenProperties
<1>3. \A k \in 1..Len(work) : Op(k) \in done
  <2> SUFFICES ASSUME NEW k \in 1..Len(work)
               PROVE  Op(k) \in done
    OBVIOUS
  <2>1. Len(work) <= MaxOps /\ MaxOps \in Nat
    BY <1>1, CopyAssumption DEF Matched
  <2>2. k \in 1..MaxOps /\ k <= awaited["stream"]
    BY <1>2, <2>1
  <2>3. Op(k) \in Stream!Ops /\ Op(k)[1] = "stream" /\ Op(k)[2] = k
    BY <2>2 DEF Op, Stream!Ops
  <2>4. \A o \in Stream!Ops : o[2] <= awaited[o[1]] => o \in done
    BY <1>1 DEF Matched, Stream!OrderInv, Stream!AwaitedIsDone
  <2> QED
    BY <2>2, <2>3, <2>4
<1>4. ASSUME NEW m \in 1..Len(log), NEW j \in Nat, j < log[m].size
      PROVE  Reached(own, m, j)
  <2>1. \A k \in 1..Len(Launched) : own[k] = m => k \in 1..Len(work) /\ Op(k) \in done
    BY <1>2, <1>3
  <2> QED
    BY <1>1, <1>4, <2>1, FinishedReaches
<1>5. ASSUME NEW b \in Buffers, NEW j \in Offsets
      PROVE  mem[b][j] = expected[b][j]
  <2>1. j \in Nat
    BY BufferAssumption DEF Offsets
  <2>2. ASSUME NEW m \in 1..Len(log), Writes(log[m], b, j)
        PROVE  m <= Len(log) <=> Reached(own, m, j)
    <3>1. m <= Len(log)
      BY <1>2
    <3>2. j < log[m].size
      BY <2>2 DEF Writes
    <3>3. Reached(own, m, j)
      BY <1>4, <2>1, <3>2
    <3> QED
      BY <3>1, <3>3
  <2>3. Current(log, own, Len(log), b, j)
    BY <2>2 DEF Current
  <2>4. Len(log) \in 0..Len(log)
    BY <1>2
  <2>5. mem[b][j] = E[Len(log)][b][j]
    BY <2>3, <2>4 DEF Consistent
  <2>6. E[Len(log)] = expected
    BY DEF Foreseen
  <2> QED
    BY <2>5, <2>6
<1>6. mem \in [Buffers -> [Offsets -> Buffers]] /\ expected \in [Buffers -> [Offsets -> Buffers]]
  BY <1>1 DEF TypeParts, CopyState, HistoryState
<1>7. ASSUME NEW b \in Buffers
      PROVE  mem[b] = expected[b]
  <2>1. mem[b] \in [Offsets -> Buffers] /\ expected[b] \in [Offsets -> Buffers]
    BY <1>6
  <2> QED
    BY <1>5, <2>1
<1> QED
  BY <1>6, <1>7

\* Of programs that keep the rules, once everything was awaited and no launch
\* failed, memory is what the copies one after the other would have made of it,
\* for every set of buffers, every size and every number of copies, as long as
\* a granule of the HighBW kernel is a number of words (memcopy.cpp:77-158,
\* librecuda.cpp:873-885).
THEOREM CopiesTakeEffectInOrder ==
    ASSUME Rules = AllRules, Granule % Word = 0
    PROVE  Spec => []CopiesTakeEffect
<1>1. Kept
  BY DEF Kept
<1>2. Init => EffectInv
  BY <1>1, EffectInit
<1>3. EffectInv /\ [Next]_vars => EffectInv'
  BY <1>1, EffectStep
<1>4. EffectInv => CopiesTakeEffect
  BY <1>1, EffectIsMeant
<1> QED
  BY <1>2, <1>3, <1>4, PTL DEF Spec
=============================================================================
