------------------------- MODULE ModuleLoaderProofs -------------------------
(***************************************************************************)
(* Loading a module and launching its functions, proved for every cubin,   *)
(* order of sections, address and failure: sections are apart in the image *)
(* and relocations hold the addresses of their symbols, where the cubin    *)
(* does not overlap them itself; every function is described by its own    *)
(* sections; and a kernel finds its arguments where it was compiled to     *)
(* read them.                                                              *)
(***************************************************************************)
EXTENDS ModuleLoader, Integers, FiniteSetTheorems, WellFoundedInduction, TLAPS

-----------------------------------------------------------------------------
(* Induction, from the least element of a set of numbers.                   *)

LessOnNat == {ss \in Nat \X Nat : ss[1] < ss[2]}

LEMMA LeastNat ==
    ASSUME NEW T, T \subseteq Nat, T # {}
    PROVE  \E n \in T : \A m \in T : n <= m
<1>1. IsWellFoundedOn(LessOnNat, Nat)
  BY NatLessThanWellFounded DEF LessOnNat, OpToRel
<1>2. PICK n \in T : \A m \in T : ~ (<<m, n>> \in LessOnNat)
  BY <1>1, WFMin
<1>3. \A m \in T : ~(m < n)
  BY <1>2 DEF LessOnNat
<1>4. n \in Nat
  OBVIOUS
<1> QED
  BY <1>3, <1>4

LEMMA SetInduction ==
    ASSUME NEW S, 0 \in S, \A n \in Nat : n \in S => n + 1 \in S
    PROVE  Nat \subseteq S
<1> DEFINE T == Nat \ S
<1> SUFFICES ASSUME T # {} PROVE FALSE
  OBVIOUS
<1>1. PICK n \in T : \A m \in T : n <= m
  <2>1. T \subseteq Nat
    OBVIOUS
  <2> HIDE DEF T
  <2> QED
    BY <2>1, LeastNat
<1>2. n - 1 \in Nat /\ n - 1 \notin T
  BY <1>1
<1> QED
  BY <1>1, <1>2

-----------------------------------------------------------------------------
(* Maxima, minima and ranks of finite sets of numbers.                      *)

LEMMA FiniteIsBounded ==
    ASSUME NEW T, T \subseteq Nat, IsFiniteSet(T)
    PROVE  \E b \in Nat : \A m \in T : m <= b
<1>1. PICK n \in Nat : ExistsBijection(1..n, T)
  BY FS_NatBijection
<1>2. PICK f \in Bijection(1..n, T) : TRUE
  BY <1>1 DEF ExistsBijection
<1>3. f \in [1..n -> Nat] /\ \A m \in T : \E k \in 1..n : f[k] = m
  BY <1>2 DEF Bijection, Surjection, Injection
<1> DEFINE S == {k \in Nat : k <= n => \E b \in Nat : \A j \in 1..k : f[j] <= b}
<1>4. 0 \in S
  OBVIOUS
<1>5. ASSUME NEW k \in Nat, k \in S PROVE k + 1 \in S
  <2> SUFFICES ASSUME k + 1 <= n PROVE \E b \in Nat : \A j \in 1..(k + 1) : f[j] <= b
    OBVIOUS
  <2>1. PICK b \in Nat : \A j \in 1..k : f[j] <= b
    BY <1>5
  <2>2. f[k + 1] \in Nat
    BY <1>3
  <2>3. \A j \in 1..(k + 1) : j \in 1..k \/ j = k + 1
    OBVIOUS
  <2>4. \A j \in 1..k : f[j] \in Nat
    BY <1>3
  <2>5. \A j \in 1..(k + 1) : f[j] <= b + f[k + 1]
    BY <2>1, <2>2, <2>3, <2>4
  <2>6. b + f[k + 1] \in Nat
    BY <2>2
  <2> QED
    BY <2>5, <2>6
<1>6. n \in S
  <2> HIDE DEF S
  <2> QED
    BY <1>4, <1>5, SetInduction
<1>7. PICK b \in Nat : \A j \in 1..n : f[j] <= b
  BY <1>6
<1> QED
  BY <1>3, <1>7

LEMMA LargestIs ==
    ASSUME NEW T, T \subseteq Nat, IsFiniteSet(T), T # {}
    PROVE  LargestOf(T) \in T /\ \A m \in T : m <= LargestOf(T)
<1> DEFINE B == {b \in Nat : \A m \in T : m <= b}
<1>1. B # {}
  BY FiniteIsBounded
<1>2. PICK b \in B : \A c \in B : b <= c
  <2>1. B \subseteq Nat
    OBVIOUS
  <2> HIDE DEF B
  <2> QED
    BY <1>1, <2>1, LeastNat
<1>3. b \in T
  <2> SUFFICES ASSUME b \notin T PROVE FALSE
    OBVIOUS
  <2>1. \A m \in T : m < b
    BY <1>2
  <2>2. b \in Nat /\ \A m \in T : m \in Nat
    BY <1>2
  <2> PICK n \in T : TRUE
    OBVIOUS
  <2>3. b # 0
    BY <2>1, <2>2
  <2>4. b - 1 \in Nat /\ \A m \in T : m <= b - 1
    BY <2>1, <2>2, <2>3
  <2>5. b - 1 \in B
    BY <2>4
  <2>6. b <= b - 1
    BY <1>2, <2>5
  <2> QED
    BY <2>2, <2>6
<1>4. \E n \in T : \A m \in T : m <= n
  BY <1>2, <1>3
<1> QED
  BY <1>4 DEF LargestOf

LEMMA FirstIs ==
    ASSUME NEW T, T \subseteq Nat, T # {}
    PROVE  First(T) \in T /\ \A m \in T : First(T) <= m
BY LeastNat DEF First

LEMMA PairLargest ==
    ASSUME NEW a \in Nat, NEW b \in Nat
    PROVE  /\ LargestOf({a, b}) \in Nat /\ LargestOf({a, b}) >= a /\ LargestOf({a, b}) >= b
           /\ LargestOf({a, b}) \in {a, b}
<1>1. IsFiniteSet({a}) /\ {a, b} = {a} \cup {b}
  BY FS_Singleton
<1>2. IsFiniteSet({a, b})
  BY <1>1, FS_AddElement
<1> QED
  BY <1>2, LargestIs

\* The elements of a sequence that are chosen, or mapped to numbers, are finite.
LEMMA FiniteImage ==
    ASSUME NEW n \in Nat, NEW D \in SUBSET (1..n), NEW f
    PROVE  IsFiniteSet({f[k] : k \in D})
<1> DEFINE T == {f[k] : k \in D}
           g == [k \in D |-> f[k]]
<1>1. IsFiniteSet(1..n)
  BY FS_Interval
<1>2. IsFiniteSet(D)
  BY <1>1, FS_Subset
<1>3. g \in Surjection(D, T)
  BY DEF Surjection
<1> QED
  BY <1>2, <1>3, FS_Surjection

\* A finite set of numbers has an element of every rank.
LEMMA NthIs ==
    ASSUME NEW T, T \subseteq Nat, IsFiniteSet(T), NEW n \in 1..Cardinality(T)
    PROVE  Nth(T, n) \in T /\ Cardinality({j \in T : j < Nth(T, n)}) = n - 1
<1> DEFINE Below(k) == {j \in T : j < k}
           S == {k \in Nat : Cardinality(Below(k)) < n}
<1>0. Cardinality(T) \in Nat
  BY FS_CardinalityType
<1>1. \A k \in Nat : IsFiniteSet(Below(k)) /\ Cardinality(Below(k)) \in Nat
  BY FS_Subset, FS_CardinalityType
<1>2. PICK b \in Nat : \A m \in T : m <= b
  BY FiniteIsBounded
<1>3. b + 1 \notin S
  <2>1. \A m \in T : m \in Nat /\ m < b + 1
    BY <1>2
  <2>2. Below(b + 1) = T
    BY <2>1
  <2> QED
    BY <1>0, <2>2
<1>4. 0 \in S
  <2>1. \A m \in T : ~(m < 0)
    OBVIOUS
  <2>3. Below(0) = {}
    BY <2>1
  <2>2. Cardinality(Below(0)) = 0
    BY <2>3, FS_EmptySet
  <2> QED
    BY <2>2
<1>5. PICK k \in Nat : k \in S /\ k + 1 \notin S
  <2> HIDE DEF S
  <2> QED
    BY <1>3, <1>4, SetInduction
<1>6. Below(k + 1) = IF k \in T THEN Below(k) \cup {k} ELSE Below(k)
  <2>1. \A m \in T : m < k + 1 <=> m < k \/ m = k
    BY <1>5
  <2> QED
    BY <2>1
<1>7. Cardinality(Below(k)) < n /\ ~(Cardinality(Below(k + 1)) < n)
  BY <1>5
<1>8. k \in T /\ Cardinality(Below(k + 1)) <= Cardinality(Below(k)) + 1
  <2> HIDE DEF S
  <2>1. k \in T
    BY <1>6, <1>7
  <2>2. Below(k + 1) = Below(k) \cup {k}
    BY <1>6, <2>1
  <2>3. IsFiniteSet(Below(k)) /\ Cardinality(Below(k)) \in Nat
    BY <1>1
  <2> HIDE DEF Below
  <2>4. Cardinality(Below(k) \cup {k}) = IF k \in Below(k) THEN Cardinality(Below(k)) ELSE Cardinality(Below(k)) + 1
    BY <2>3, FS_AddElement
  <2> QED
    BY <2>1, <2>2, <2>3, <2>4
<1>9. Cardinality(Below(k)) = n - 1
  <2>1. Cardinality(Below(k)) \in Nat /\ Cardinality(Below(k + 1)) \in Nat
    BY <1>1
  <2> HIDE DEF Below
  <2> QED
    BY <1>7, <1>8, <2>1
<1>10. \E m \in T : Cardinality({j \in T : j < m}) = n - 1
  BY <1>8, <1>9
<1> QED
  BY <1>10 DEF Nth

-----------------------------------------------------------------------------
(* Types.  The facts are a record; a call works on one of the images.       *)

FactsOK ==
    facts \in [names : SUBSET Functions,
               text : [Names -> [address : Nat, size : Nat]],
               shared : [Names -> Nat], local : [Names -> Nat],
               constants : [Names -> Seq(Constant)], params : [Names -> Seq(Param)],
               total : [Names -> Nat]]

ImageOK ==
    /\ image \in Seq(Section)
    /\ \A k \in DOMAIN image : Shaped(image[k])
    /\ at # "idle" => image \in Images
    /\ at = "idle" => image = <<>>

LoaderInv ==
    /\ TypeOK /\ FactsOK /\ ImageOK
    /\ i # 0
    /\ DOMAIN functions \subseteq Functions
    /\ gpu = IF at = "loaded" THEN cells ELSE <<>>

\* The numbers of an allocation.
LEMMA Numbers ==
    /\ Align \in Nat /\ Align > 0 /\ Page \in Nat /\ Page > 0
    /\ Half \in Nat /\ Half > 0 /\ ArgAlign \in Nat /\ ArgAlign > 0
    /\ Modulus \in Nat /\ Modulus > 0
    /\ EntrySize \in Nat /\ LocalBase \in Nat /\ ParamBase \in Nat
    /\ \A b \in Bases : b \in Nat
<1>1. Half \in Nat /\ Half > 0 /\ Modulus = Half * Half
  BY NumberAssumption
<1>2. Modulus \in Nat /\ Modulus > 0
  BY <1>1
<1> QED
  BY <1>2, NumberAssumption

LEMMA DivMod ==
    ASSUME NEW a \in Int, NEW b \in Nat, b > 0
    PROVE  /\ a \div b \in Int /\ (a \div b) * b \in Int
           /\ a % b \in 0..(b - 1)
           /\ a = (a \div b) * b + (a % b)
<1>1. a \div b \in Int /\ a % b \in 0..(b - 1)
  OBVIOUS
<1>2. a = b * (a \div b) + (a % b)
  OBVIOUS
<1>3. b * (a \div b) = (a \div b) * b /\ b * (a \div b) \in Int
  BY <1>1
<1> QED
  BY <1>1, <1>2, <1>3

LEMMA QuotientIs ==
    ASSUME NEW a \in Nat, NEW b \in Nat, b > 0
    PROVE  a \div b \in Nat
<1> DEFINE q == a \div b
<1>1. q \in Int /\ q * b \in Int /\ a % b \in 0..(b - 1) /\ a = q * b + (a % b)
  BY DivMod
<1> HIDE DEF q
<1>2. q <= 0 - 1 => q * b <= (0 - 1) * b
  BY <1>1
<1>3. (0 - 1) * b = 0 - b
  OBVIOUS
<1>4. q \in Nat
  BY <1>1, <1>2, <1>3
<1> QED
  BY <1>4 DEF q

\* The quotient of a rounded sum.
LEMMA CeilDivIs ==
    ASSUME NEW a \in Nat, NEW b \in Nat, b > 0
    PROVE  CeilDiv(a, b) \in Nat /\ CeilDiv(a, b) * b \in Nat /\ a <= CeilDiv(a, b) * b
<1> DEFINE n == a + b - 1
           q == n \div b
<1>1. n \in Nat
  OBVIOUS
<1>2. q \in Nat /\ q * b \in Int /\ n % b \in 0..(b - 1) /\ n = q * b + (n % b)
  <2> HIDE DEF n
  <2> QED
    BY <1>1, DivMod, QuotientIs
<1>3. a <= q * b
  <2>1. q * b = a + b - 1 - (n % b)
    <3> HIDE DEF q
    <3> QED
      BY <1>2
  <2> QED
    BY <1>2, <2>1
<1>4. q * b \in Nat
  BY <1>2, <1>3
<1> QED
  BY <1>2, <1>3, <1>4 DEF CeilDiv

LEMMA PaddingIs ==
    ASSUME NEW a \in Nat, a > 0, NEW n \in Nat
    PROVE  Padding(a, n) \in Nat
<1> DEFINE m == (Modulus + a - n) % Modulus
<1>1. Modulus + a - n \in Int
  BY Numbers
<1>2. m \in Nat
  BY <1>1, Numbers, DivMod
<1>3. m % a \in Nat
  <2> HIDE DEF m
  <2> QED
    BY <1>2, DivMod
<1> QED
  BY <1>3 DEF Padding

\* A relocation writes words of 32 bits.
LEMMA WordsWritten ==
    ASSUME NEW r \in [at : Nat, to : Nat, kind : {"64", "lo", "hi", "other"}], va \in Nat
    PROVE  /\ DOMAIN Written(r) \subseteq Nat
           /\ \A x \in DOMAIN Written(r) : Written(r)[x] \in 0..(Half - 1)
<1> DEFINE v == va + r.to
           w == v % Modulus
<1>1. v \in Nat
  OBVIOUS
<1>2. Low(v) \in 0..(Half - 1)
  BY <1>1, Numbers, DivMod DEF Low
<1>3. w \in 0..(Modulus - 1)
  BY <1>1, Numbers, DivMod
<1>4. w \div Half \in 0..(Half - 1)
  <2> DEFINE q == w \div Half
  <2>1. Half \in Nat /\ Half > 0 /\ w \in Nat /\ w < Half * Half
    BY <1>3, Numbers, NumberAssumption
  <2>2. q \in Nat /\ q * Half \in Int /\ q * Half <= w
    <3> HIDE DEF w
    <3>1. q \in Nat /\ q * Half \in Int /\ w = q * Half + (w % Half) /\ w % Half \in 0..(Half - 1)
      BY <2>1, DivMod, QuotientIs
    <3> HIDE DEF q
    <3> QED
      BY <2>1, <3>1
  <2> HIDE DEF q, w
  <2>3. q >= Half => q * Half >= Half * Half
    BY <2>1, <2>2
  <2>4. q < Half
    BY <2>1, <2>2, <2>3
  <2> QED
    BY <2>1, <2>2, <2>4 DEF q
<1>5. r.at \in Nat /\ r.at + 4 \in Nat
  OBVIOUS
<1> HIDE DEF v, w
<1>6. Low(v) \in 0..(Half - 1) /\ w \div Half \in 0..(Half - 1)
  BY <1>2, <1>4
<1>7. Written(r) =
        CASE r.kind = "64" -> [x \in {r.at, r.at + 4} |-> IF x = r.at THEN Low(v) ELSE w \div Half]
          [] r.kind = "lo" -> [x \in {r.at + 4} |-> Low(v)]
          [] r.kind = "hi" -> [x \in {r.at + 4} |-> w \div Half]
          [] OTHER -> <<>>
  BY DEF Written, v, w
<1>8. DOMAIN <<>> = {}
  OBVIOUS
<1>9. r.kind \in {"64", "lo", "hi", "other"}
  OBVIOUS
<1>10. CASE r.kind = "64"
  BY <1>5, <1>6, <1>7, <1>10
<1>11. CASE r.kind = "lo"
  BY <1>5, <1>6, <1>7, <1>11
<1>12. CASE r.kind = "hi"
  BY <1>5, <1>6, <1>7, <1>12
<1>13. CASE r.kind = "other"
  BY <1>7, <1>8, <1>13
<1> QED
  BY <1>9, <1>10, <1>11, <1>12, <1>13

-----------------------------------------------------------------------------
(* What the sections of a cubin hold.                                       *)

\* What a loop over the attributes reads begins what the section holds.
LEMMA BeforeBegins ==
    ASSUME NEW items \in Seq(Attribute)
    PROVE  \E n \in 0..Len(items) :
              /\ DOMAIN Before(items) = 1..n
              /\ \A k \in 1..n : Before(items)[k] = items[k]
<1> DEFINE stop == {k \in DOMAIN items : items[k].attr \in {"exit", "end"}}
<1>1. CASE stop = {}
  <2>1. Before(items) = items
    BY <1>1 DEF Before
  <2> QED
    BY <2>1
<1>2. CASE stop # {}
  <2>1. First(stop) \in stop
    <3>1. stop \subseteq Nat
      OBVIOUS
    <3> HIDE DEF stop
    <3> QED
      BY <1>2, <3>1, FirstIs
  <2>2. First(stop) \in 1..Len(items)
    BY <2>1
  <2> DEFINE n == First(stop) - 1
  <2>3. Before(items) = SubSeq(items, 1, n)
    BY <1>2 DEF Before
  <2>4. n \in 0..Len(items)
    BY <2>2
  <2> HIDE DEF n
  <2>5. DOMAIN SubSeq(items, 1, n) = 1..n /\ \A k \in 1..n : SubSeq(items, 1, n)[k] = items[k]
    BY <2>4
  <2> QED
    BY <2>3, <2>4, <2>5
<1> QED
  BY <1>1, <1>2

LEMMA WhereIs ==
    ASSUME NEW s \in Section, s.items \in Seq(Attribute), NEW attr
    PROVE  /\ Where(s, attr) \subseteq 1..Len(s.items)
           /\ Where(s, attr) \subseteq Nat
           /\ IsFiniteSet(Where(s, attr))
           /\ Cardinality(Where(s, attr)) \in Nat
           /\ \A k \in Where(s, attr) : s.items[k] \in Attribute /\ s.items[k].attr = attr
<1>1. PICK n \in 0..Len(s.items) :
         DOMAIN Before(s.items) = 1..n /\ \A k \in 1..n : Before(s.items)[k] = s.items[k]
  BY BeforeBegins
<1>2. Where(s, attr) \subseteq 1..Len(s.items)
  BY <1>1 DEF Where
<1>3. \A k \in Where(s, attr) : s.items[k] \in Attribute /\ s.items[k].attr = attr
  BY <1>1 DEF Where
<1>4. IsFiniteSet(1..Len(s.items))
  BY FS_Interval
<1>5. IsFiniteSet(Where(s, attr)) /\ Cardinality(Where(s, attr)) \in Nat
  BY <1>2, <1>4, FS_Subset, FS_CardinalityType
<1> QED
  BY <1>2, <1>3, <1>5

LEMMA ParamsType ==
    ASSUME NEW s \in Section, s.items \in Seq(Attribute)
    PROVE  /\ Params(s) \in Seq(Param)
           /\ Len(Params(s)) = Cardinality(Where(s, "param"))
<1> DEFINE T == Where(s, "param")
<1>1. /\ T \subseteq Nat /\ IsFiniteSet(T) /\ Cardinality(T) \in Nat
      /\ \A k \in T : s.items[k] \in Attribute
  BY WhereIs
<1> HIDE DEF T
<1>2. \A n \in 1..Cardinality(T) : Nth(T, n) \in T
  BY <1>1, NthIs
<1>3. \A n \in 1..Cardinality(T) :
         [index |-> s.items[Nth(T, n)].index, offset |-> s.items[Nth(T, n)].value] \in Param
  BY <1>1, <1>2 DEF Attribute, Param
<1>4. Params(s) = [n \in 1..Cardinality(T) |->
         [index |-> s.items[Nth(T, n)].index, offset |-> s.items[Nth(T, n)].value]]
  BY DEF Params, T
<1> QED
  BY <1>1, <1>3, <1>4 DEF T

LEMMA TotalType ==
    ASSUME NEW s \in Section, s.items \in Seq(Attribute), NEW old \in Nat
    PROVE  Total(s, old) \in Nat
<1>1. CASE Where(s, "total") = {}
  BY <1>1 DEF Total
<1>2. CASE Where(s, "total") # {}
  <2>1. LargestOf(Where(s, "total")) \in Where(s, "total")
    BY <1>2, WhereIs, LargestIs
  <2>2. s.items[LargestOf(Where(s, "total"))] \in Attribute
    BY <2>1, WhereIs
  <2> QED
    BY <1>2, <2>2 DEF Total, Attribute
<1> QED
  BY <1>1, <1>2

LEMMA AddConstantIs ==
    ASSUME NEW list \in Seq(Constant), NEW c \in Constant
    PROVE  /\ AddConstant(list, c) \in Seq(Constant)
           /\ {AddConstant(list, c)[k] : k \in DOMAIN AddConstant(list, c)}
                = {list[k] : k \in DOMAIN list} \cup {c}
           /\ AddConstant(list, c) # <<>>
           /\ AddConstant(list, c)[1] = IF c.nr = 0 \/ list = <<>> THEN c ELSE list[1]
<1>1. CASE c.nr = 0
  <2> DEFINE new == <<c>> \o list
  <2>1. AddConstant(list, c) = new
    BY <1>1 DEF AddConstant
  <2>2. /\ new \in Seq(Constant) /\ Len(new) = Len(list) + 1 /\ new[1] = c
        /\ \A k \in 1..Len(list) : new[k + 1] = list[k]
    OBVIOUS
  <2> HIDE DEF new
  <2>3. \A k \in DOMAIN new : k = 1 \/ (k - 1 \in DOMAIN list /\ new[k] = list[k - 1])
    BY <2>2
  <2>4. \A k \in DOMAIN list : k + 1 \in DOMAIN new /\ new[k + 1] = list[k]
    BY <2>2
  <2>5. 1 \in DOMAIN new
    BY <2>2
  <2>6. {new[k] : k \in DOMAIN new} = {list[k] : k \in DOMAIN list} \cup {c}
    BY <2>2, <2>3, <2>4, <2>5
  <2>7. new # <<>>
    BY <2>2
  <2> QED
    BY <1>1, <2>1, <2>2, <2>6, <2>7
<1>2. CASE c.nr # 0
  <2> DEFINE new == Append(list, c)
  <2>1. AddConstant(list, c) = new
    BY <1>2 DEF AddConstant
  <2>2. /\ new \in Seq(Constant) /\ Len(new) = Len(list) + 1 /\ new[Len(list) + 1] = c
        /\ \A k \in 1..Len(list) : new[k] = list[k]
    OBVIOUS
  <2> HIDE DEF new
  <2>3. \A k \in DOMAIN new : k = Len(list) + 1 \/ (k \in DOMAIN list /\ new[k] = list[k])
    BY <2>2
  <2>4. \A k \in DOMAIN list : k \in DOMAIN new /\ new[k] = list[k]
    BY <2>2
  <2>5. Len(list) + 1 \in DOMAIN new
    BY <2>2
  <2>6. {new[k] : k \in DOMAIN new} = {list[k] : k \in DOMAIN list} \cup {c}
    BY <2>2, <2>3, <2>4, <2>5
  <2>7. new[1] = IF list = <<>> THEN c ELSE list[1]
    <3>1. CASE list = <<>>
      BY <2>2, <3>1
    <3>2. CASE list # <<>>
      <4>1. 1 \in 1..Len(list)
        BY <3>2
      <4> QED
        BY <2>2, <3>2, <4>1
    <3> QED
      BY <3>1, <3>2
  <2>8. new # <<>>
    BY <2>2
  <2> QED
    BY <1>2, <2>1, <2>2, <2>6, <2>7, <2>8
<1> QED
  BY <1>1, <1>2

LEMMA AddressOfType ==
    ASSUME ImageOK, address \in Seq(Nat), Len(address) = Len(image), NEW name
    PROVE  AddressOf(name) \in Nat
<1>1. Named(name) \subseteq 1..Len(image) /\ Named(name) \subseteq Nat
  BY DEF Named, ImageOK
<1>2. CASE Named(name) # {}
  <2>1. First(Named(name)) \in 1..Len(image)
    BY <1>1, <1>2, FirstIs
  <2>2. address[First(Named(name))] \in Nat
    BY <2>1
  <2> QED
    BY <1>2, <2>2 DEF AddressOf
<1> QED
  BY <1>2 DEF AddressOf

LEMMA RelocsType ==
    ASSUME ImageOK, address \in Seq(Nat), Len(address) = Len(image),
           NEW s \in Section, s.items \in Seq(Relocation)
    PROVE  Relocs(s) \in Seq([at : Nat, to : Nat, kind : {"64", "lo", "hi", "other"}])
<1> DEFINE R == [at : Nat, to : Nat, kind : {"64", "lo", "hi", "other"}]
           A(k) == AddressOf(s.target) + s.items[k].at
           B(k) == AddressOf(s.items[k].symbol) + s.items[k].value
<1>1. \A k \in 1..Len(s.items) : A(k) \in Nat /\ B(k) \in Nat /\ s.items[k].kind \in {"64", "lo", "hi", "other"}
  <2> SUFFICES ASSUME NEW k \in 1..Len(s.items)
               PROVE  A(k) \in Nat /\ B(k) \in Nat /\ s.items[k].kind \in {"64", "lo", "hi", "other"}
    OBVIOUS
  <2>1. s.items[k] \in Relocation
    OBVIOUS
  <2>2. AddressOf(s.target) \in Nat /\ AddressOf(s.items[k].symbol) \in Nat
    BY AddressOfType
  <2>3. /\ s.items[k].at \in Nat /\ s.items[k].value \in Nat
        /\ s.items[k].kind \in {"64", "lo", "hi", "other"}
    BY <2>1 DEF Relocation
  <2> QED
    BY <2>2, <2>3
<1>2. Relocs(s) = [k \in 1..Len(s.items) |-> [at |-> A(k), to |-> B(k), kind |-> s.items[k].kind]]
  BY DEF Relocs
<1> HIDE DEF A, B
<1>3. \A k \in 1..Len(s.items) : [at |-> A(k), to |-> B(k), kind |-> s.items[k].kind] \in R
  BY <1>1
<1>4. Len(s.items) \in Nat
  OBVIOUS
<1> HIDE DEF R
<1>5. Relocs(s) \in Seq(R)
  BY <1>2, <1>3, <1>4
<1> QED
  BY <1>5 DEF R

\* The local memory a section of entries leaves to a function.
LEMMA LocalIs ==
    ASSUME NEW s \in Section, s.items \in Seq(Stack), NEW g, NEW old \in Nat
    PROVE  LET T == {old} \cup {e.value + LocalBase : e \in Entries(s, g)}
           IN  LargestOf(T) \in Nat /\ \A m \in T : m <= LargestOf(T)
<1> DEFINE D == {j \in 1..Len(s.items) : s.items[j].fn = g}
           f == [k \in D |-> s.items[k].value + LocalBase]
           E == {e.value + LocalBase : e \in Entries(s, g)}
           T == {old} \cup E
<1>1. Entries(s, g) = {s.items[k] : k \in D}
  BY DEF Entries
<1>2. E = {f[k] : k \in D}
  BY <1>1
<1>3. \A k \in D : f[k] \in Nat
  <2> SUFFICES ASSUME NEW k \in D PROVE f[k] \in Nat
    OBVIOUS
  <2>1. s.items[k] \in Stack
    OBVIOUS
  <2>2. s.items[k].value \in Nat
    BY <2>1 DEF Stack
  <2> QED
    BY <2>2, Numbers
<1>4. IsFiniteSet(E)
  <2>1. Len(s.items) \in Nat /\ D \in SUBSET (1..Len(s.items))
    OBVIOUS
  <2> HIDE DEF D, f
  <2> QED
    BY <1>2, <2>1, FiniteImage
<1>5. E \subseteq Nat
  BY <1>2, <1>3
<1> HIDE DEF E
<1>6. T = E \cup {old} /\ T \subseteq Nat /\ T # {}
  BY <1>5
<1>7. IsFiniteSet(T)
  BY <1>4, <1>6, FS_AddElement
<1> HIDE DEF T
<1>8. LargestOf(T) \in T /\ \A m \in T : m <= LargestOf(T)
  BY <1>6, <1>7, LargestIs
<1>9. LargestOf(T) \in Nat
  BY <1>6, <1>8
<1> QED
  BY <1>8, <1>9 DEF T, E

-----------------------------------------------------------------------------
(* Type correctness.                                                        *)

LEMMA Pieces ==
    ASSUME LoaderInv
    PROVE  /\ i \in Nat /\ size \in Nat /\ va \in Nat /\ room \in Nat
           /\ address \in Seq(Nat) /\ Len(address) = Len(image)
           /\ relocs \in Seq([at : Nat, to : Nat, kind : {"64", "lo", "hi", "other"}])
           /\ DOMAIN cells \subseteq Nat /\ \A x \in DOMAIN cells : cells[x] \in 0..(Half - 1)
BY DEF LoaderInv, TypeOK

LEMMA Here ==
    ASSUME LoaderInv, i <= Len(image)
    PROVE  /\ i \in 1..Len(image) /\ image[i] \in Section /\ Shaped(image[i])
           /\ address[i] \in Nat
<1>1. i \in 1..Len(image) /\ image \in Seq(Section) /\ address \in Seq(Nat) /\ Len(address) = Len(image)
  BY DEF LoaderInv, TypeOK, ImageOK
<1>2. \A k \in DOMAIN image : Shaped(image[k])
  BY DEF LoaderInv, ImageOK
<1> QED
  BY <1>1, <1>2

LEMMA LearnType ==
    ASSUME LoaderInv, at = "scan", i <= Len(image)
    PROVE  Learn(image[i]) \in [names : SUBSET Functions,
               text : [Names -> [address : Nat, size : Nat]],
               shared : [Names -> Nat], local : [Names -> Nat],
               constants : [Names -> Seq(Constant)], params : [Names -> Seq(Param)],
               total : [Names -> Nat]]
<1> DEFINE s == image[i]
           f == s.fn
           here == va + address[i]
           R == [names : SUBSET Functions,
               text : [Names -> [address : Nat, size : Nat]],
               shared : [Names -> Nat], local : [Names -> Nat],
               constants : [Names -> Seq(Constant)], params : [Names -> Seq(Param)],
               total : [Names -> Nat]]
<1>1. s \in Section /\ Shaped(s) /\ address[i] \in Nat
  BY Here
<1>2. here \in Nat
  BY <1>1 DEF LoaderInv, TypeOK
<1>3. f \in Names /\ s.nr \in Nat /\ s.size \in Nat
  BY <1>1 DEF Section, Names
<1>4. facts \in R
  BY DEF LoaderInv, FactsOK
<1> HIDE DEF s, here
<1>5. CASE s.role = "text"
  <2>1. Learn(s) = [facts EXCEPT !.names = @ \cup {f}, !.text[f] = [address |-> here, size |-> s.size]]
    BY <1>5 DEF Learn, here
  <2>2. f \in Functions
    BY <1>1, <1>5 DEF Shaped
  <2> DEFINE where == [address |-> here, size |-> s.size]
             names == facts.names \cup {f}
             text == [facts.text EXCEPT ![f] = where]
  <2>3. where \in [address : Nat, size : Nat]
    BY <1>2, <1>3
  <2>4. names \in SUBSET Functions
    BY <1>4, <2>2
  <2>5. text \in [Names -> [address : Nat, size : Nat]]
    <3> HIDE DEF where
    <3> QED
      BY <1>4, <2>3
  <2>6. Learn(s) = [facts EXCEPT !.names = names, !.text = text]
    BY <1>4, <2>1
  <2> HIDE DEF names, text
  <2> QED
    BY <1>4, <2>4, <2>5, <2>6 DEF s
<1>6. CASE s.role = "constant"
  <2> DEFINE c == [nr |-> s.nr, address |-> here, size |-> s.size]
             new == AddConstant(facts.constants[f], c)
  <2>1. Learn(s) = [facts EXCEPT !.constants[f] = new]
    BY <1>6 DEF Learn, here
  <2>2. c \in Constant
    BY <1>2, <1>3 DEF Constant
  <2>3. facts.constants[f] \in Seq(Constant)
    BY <1>3, <1>4
  <2> HIDE DEF c
  <2>4. new \in Seq(Constant)
    BY <2>2, <2>3, AddConstantIs
  <2> HIDE DEF new
  <2> QED
    BY <1>3, <1>4, <2>1, <2>4 DEF s
<1>7. CASE s.role = "shared"
  <2>1. Learn(s) = [facts EXCEPT !.shared[f] = EntrySize]
    BY <1>7 DEF Learn
  <2> DEFINE new == [facts.shared EXCEPT ![f] = EntrySize]
  <2>2. new \in [Names -> Nat]
    BY <1>4, Numbers
  <2>3. Learn(s) = [facts EXCEPT !.shared = new]
    BY <1>4, <2>1
  <2> HIDE DEF new
  <2> QED
    BY <1>4, <2>2, <2>3 DEF s
<1>8. CASE s.role = "stack"
  <2> DEFINE new == [g \in Names |-> LargestOf({facts.local[g]} \cup {e.value + LocalBase : e \in Entries(s, g)})]
  <2>1. Learn(s) = [facts EXCEPT !.local = new]
    BY <1>8 DEF Learn
  <2>2. new \in [Names -> Nat]
    <3> SUFFICES ASSUME NEW g \in Names
                 PROVE  LargestOf({facts.local[g]} \cup {e.value + LocalBase : e \in Entries(s, g)}) \in Nat
      OBVIOUS
    <3>1. s.items \in Seq(Stack) /\ facts.local[g] \in Nat
      BY <1>1, <1>4, <1>8 DEF Shaped
    <3> QED
      BY <1>1, <3>1, LocalIs
  <2> HIDE DEF new
  <2> QED
    BY <1>4, <2>1, <2>2 DEF s
<1>9. CASE s.role = "info"
  <2> DEFINE p == facts.params[f] \o Params(s)
             t == Total(s, facts.total[f])
  <2>1. Learn(s) = [facts EXCEPT !.params[f] = p, !.total[f] = t]
    BY <1>9 DEF Learn
  <2>2. s.items \in Seq(Attribute)
    BY <1>1, <1>9 DEF Shaped
  <2>3. facts.params[f] \in Seq(Param) /\ facts.total[f] \in Nat
    BY <1>3, <1>4
  <2>4. Params(s) \in Seq(Param) /\ t \in Nat
    BY <1>1, <2>2, <2>3, ParamsType, TotalType
  <2>5. p \in Seq(Param)
    BY <2>3, <2>4
  <2> DEFINE params == [facts.params EXCEPT ![f] = p]
             total == [facts.total EXCEPT ![f] = t]
  <2> HIDE DEF p, t
  <2>6. params \in [Names -> Seq(Param)] /\ total \in [Names -> Nat]
    BY <1>4, <2>4, <2>5
  <2>7. Learn(s) = [facts EXCEPT !.params = params, !.total = total]
    BY <1>4, <2>1
  <2> HIDE DEF params, total
  <2> QED
    BY <1>4, <2>6, <2>7 DEF s
<1>10. CASE s.role = "none"
  BY <1>4, <1>10 DEF Learn, s
<1>11. s.role \in {"text", "constant", "shared", "stack", "info", "none"}
  BY <1>1 DEF Section
<1>12. Learn(s) \in R
  BY <1>5, <1>6, <1>7, <1>8, <1>9, <1>10, <1>11 DEF s
<1> QED
  BY <1>12 DEF s

\* The largest end of the sections of an image that have an address.
LEMMA FixedEnds ==
    ASSUME NEW img \in Seq(Section)
    PROVE  LET ends == {0} \cup {img[k].addr + img[k].size : k \in {j \in DOMAIN img : Fixed(img[j])}}
           IN  LargestOf(ends) \in Nat /\ \A n \in ends : n <= LargestOf(ends)
<1> DEFINE D == {j \in 1..Len(img) : Fixed(img[j])}
           f == [k \in D |-> img[k].addr + img[k].size]
           E == {img[k].addr + img[k].size : k \in {j \in DOMAIN img : Fixed(img[j])}}
           T == {0} \cup E
<1>1. E = {f[k] : k \in D}
  OBVIOUS
<1>2. \A k \in D : f[k] \in Nat
  <2>1. \A x \in Section : x.addr \in Nat /\ x.size \in Nat
    BY DEF Section
  <2>2. \A k \in 1..Len(img) : img[k] \in Section
    OBVIOUS
  <2> QED
    BY <2>1, <2>2
<1>3. IsFiniteSet(E)
  <2>1. Len(img) \in Nat /\ D \in SUBSET (1..Len(img))
    OBVIOUS
  <2> HIDE DEF D, f
  <2> QED
    BY <1>1, <2>1, FiniteImage
<1>4. E \subseteq Nat
  BY <1>1, <1>2
<1> HIDE DEF E
<1>5. T = E \cup {0} /\ T \subseteq Nat /\ T # {}
  BY <1>4
<1>6. IsFiniteSet(T)
  BY <1>3, <1>5, FS_AddElement
<1> HIDE DEF T
<1>7. LargestOf(T) \in T /\ \A m \in T : m <= LargestOf(T)
  BY <1>5, <1>6, LargestIs
<1>8. LargestOf(T) \in Nat
  BY <1>5, <1>7
<1> QED
  BY <1>7, <1>8 DEF T, E

LEMMA InitInv == Init => LoaderInv
<1> SUFFICES ASSUME Init PROVE LoaderInv
  OBVIOUS
<1> USE DEF Init
<1>1. FactsOK
  BY DEF FactsOK, NoFacts
<1>2. ImageOK
  BY DEF ImageOK
<1>3. TypeOK
  <2>1. facts.names = {} /\ args.fn \in Names
    BY DEF NoFacts, Names
  <2>2. /\ facts.shared \in [Names -> Nat] /\ facts.local \in [Names -> Nat]
        /\ facts.constants \in [Names -> Seq(Constant)]
        /\ facts.params \in [Names -> Seq(Param)] /\ facts.total \in [Names -> Nat]
    BY <1>1 DEF FactsOK
  <2> QED
    BY <2>1, <2>2 DEF TypeOK
<1> QED
  BY <1>1, <1>2, <1>3 DEF LoaderInv

LEMMA LoadDataInv ==
    ASSUME LoaderInv, NEW img \in Images, LoadData(img)
    PROVE  LoaderInv'
<1> USE DEF LoaderInv
<1>1. img \in Seq(Section) /\ \A k \in DOMAIN img : Shaped(img[k])
  BY ImageAssumption
<1>2. ImageOK'
  BY <1>1 DEF ImageOK, LoadData
<1>3. FactsOK'
  BY DEF FactsOK, LoadData
<1>4. size' \in Nat
  BY <1>1, FixedEnds DEF LoadData
<1>5. address' \in Seq(Nat) /\ Len(address') = Len(image')
  <2>1. \A x \in Section : x.addr \in Nat
    BY DEF Section
  <2>2. \A k \in 1..Len(img) : img[k].addr \in Nat
    BY <1>1, <2>1
  <2>3. address' = [k \in 1..Len(img) |-> img[k].addr] /\ image' = img
    BY <1>1 DEF LoadData
  <2>4. Len(img) \in Nat
    BY <1>1
  <2> QED
    BY <2>2, <2>3, <2>4
<1>6. TypeOK'
  BY <1>4, <1>5 DEF TypeOK, LoadData
<1> QED
  BY <1>2, <1>3, <1>6 DEF LoadData

LEMMA PlaceSectionInv ==
    ASSUME LoaderInv, PlaceSection
    PROVE  LoaderInv'
<1> USE DEF LoaderInv
<1> DEFINE s == image[i]
           start == size + Padding(LargestOf({s.align, Align}), size)
<1>1. s \in Section /\ i \in 1..Len(image)
  BY Here DEF PlaceSection
<1>2. s.size \in Nat /\ s.align \in Nat
  BY <1>1 DEF Section
<1>3. LargestOf({s.align, Align}) \in Nat /\ LargestOf({s.align, Align}) > 0
  BY <1>2, PairLargest, Numbers
<1>4. start \in Nat
  <2>1. size \in Nat
    BY Pieces
  <2>2. Padding(LargestOf({s.align, Align}), size) \in Nat
    BY <1>3, <2>1, PaddingIs
  <2> QED
    BY <2>1, <2>2
<1>5. /\ size' \in {start + s.size, size}
      /\ address' \in {[address EXCEPT ![i] = start], address}
  BY DEF PlaceSection
<1> HIDE DEF start, s
<1>6. size' \in Nat /\ address' \in Seq(Nat) /\ Len(address') = Len(image')
  <2>1. size \in Nat /\ address \in Seq(Nat) /\ Len(address) = Len(image) /\ image' = image
    BY Pieces DEF PlaceSection
  <2> QED
    BY <1>1, <1>2, <1>4, <1>5, <2>1
<1>7. TypeOK'
  <2>1. i' = i + 1 /\ UNCHANGED <<at, image, va, room, relocs, facts, functions, cells, gpu, args>>
    BY DEF PlaceSection
  <2> QED
    BY <1>6, <2>1 DEF TypeOK
<1>8. FactsOK'
  BY DEF FactsOK, PlaceSection
<1>9. ImageOK'
  BY DEF ImageOK, PlaceSection
<1> QED
  BY <1>1, <1>7, <1>8, <1>9 DEF PlaceSection

LEMMA AllocInv ==
    ASSUME LoaderInv, Alloc
    PROVE  LoaderInv'
<1> USE DEF LoaderInv
<1>1. Room(size) \in Nat
  <2>1. size \in Nat
    BY Pieces
  <2>2. CeilDiv(size, Page) * Page \in Nat
    BY <2>1, CeilDivIs, Numbers
  <2> QED
    BY <2>2, Numbers DEF Room
<1>2. va' \in Nat /\ room' \in Nat
  BY <1>1, Numbers DEF Alloc, TypeOK
<1>3. TypeOK'
  BY <1>2 DEF TypeOK, Alloc
<1>4. FactsOK'
  BY DEF FactsOK, Alloc
<1>5. ImageOK'
  BY DEF ImageOK, Alloc
<1> QED
  BY <1>3, <1>4, <1>5 DEF Alloc

LEMMA ScanInv ==
    ASSUME LoaderInv, Scan
    PROVE  LoaderInv'
<1> USE DEF LoaderInv
<1> DEFINE R == [at : Nat, to : Nat, kind : {"64", "lo", "hi", "other"}]
<1>1. at = "scan" /\ i <= Len(image)
  BY DEF Scan
<1>2. relocs' \in Seq(R)
  <2>1. CASE image[i].type = "REL"
    <3>1. image[i] \in Section /\ image[i].items \in Seq(Relocation)
      BY <1>1, <2>1, Here DEF Shaped
    <3>2. Relocs(image[i]) \in Seq(R)
      BY <3>1, RelocsType DEF TypeOK
    <3>3. relocs' = relocs \o Relocs(image[i])
      BY <2>1 DEF Scan
    <3> QED
      BY <3>2, <3>3 DEF TypeOK
  <2>2. CASE image[i].type # "REL"
    BY <2>2 DEF Scan, TypeOK
  <2> QED
    BY <2>1, <2>2
<1> HIDE DEF R
<1>3. FactsOK'
  <2>1. facts' \in {facts, Learn(image[i])}
    BY DEF Scan
  <2> QED
    BY <1>1, <2>1, LearnType DEF FactsOK
<1>4. TypeOK'
  <2>1. /\ facts.names' \subseteq Functions
        /\ facts.shared' \in [Names -> Nat] /\ facts.local' \in [Names -> Nat]
        /\ facts.constants' \in [Names -> Seq(Constant)]
        /\ facts.params' \in [Names -> Seq(Param)] /\ facts.total' \in [Names -> Nat]
    BY <1>3 DEF FactsOK
  <2>2. at' \in {"scan", "failed"}
    BY DEF Scan
  <2> QED
    BY <1>2, <2>1, <2>2 DEF TypeOK, Scan, R
<1>5. ImageOK'
  BY DEF ImageOK, Scan
<1> QED
  BY <1>3, <1>4, <1>5 DEF Scan, TypeOK

LEMMA FinishInv ==
    ASSUME LoaderInv, Finish
    PROVE  LoaderInv'
<1> USE DEF LoaderInv
<1>1. TypeOK'
  BY DEF TypeOK, Finish
<1>2. FactsOK'
  BY DEF FactsOK, Finish
<1>3. ImageOK'
  BY DEF ImageOK, Finish
<1>4. DOMAIN functions' \subseteq Functions
  BY DEF Finish, TypeOK
<1> QED
  BY <1>1, <1>2, <1>3, <1>4 DEF Finish

LEMMA RelocateInv ==
    ASSUME LoaderInv, Relocate
    PROVE  LoaderInv'
<1> DEFINE R == [at : Nat, to : Nat, kind : {"64", "lo", "hi", "other"}]
<1>0. relocs \in Seq(R) /\ i \in Nat /\ va \in Nat /\ i # 0
  BY Pieces DEF LoaderInv
<1> HIDE DEF R
<1>1. i \in 1..Len(relocs) /\ va \in Nat
  BY <1>0 DEF Relocate
<1>2. relocs[i] \in R
  BY <1>0, <1>1
<1> DEFINE w == Written(relocs[i])
<1>3. DOMAIN w \subseteq Nat /\ \A x \in DOMAIN w : w[x] \in 0..(Half - 1)
  BY <1>1, <1>2, WordsWritten DEF R
<1> USE DEF LoaderInv
<1>4. cells' \in {Overwrite(cells, w), cells}
  BY DEF Relocate
<1> HIDE DEF w
<1>5. DOMAIN cells' \subseteq Nat /\ \A x \in DOMAIN cells' : cells'[x] \in 0..(Half - 1)
  BY <1>3, <1>4 DEF Overwrite, TypeOK
<1>6. gpu = <<>> /\ gpu' = <<>> /\ at' \in {"relocate", "failed"}
  BY DEF Relocate
<1>7. TypeOK'
  BY <1>5, <1>6 DEF TypeOK, Relocate
<1>8. FactsOK'
  BY DEF FactsOK, Relocate
<1>9. ImageOK'
  BY DEF ImageOK, Relocate
<1>10. i' # 0 /\ DOMAIN functions' \subseteq Functions
  BY <1>1 DEF Relocate
<1> QED
  BY <1>6, <1>7, <1>8, <1>9, <1>10 DEF Relocate

LEMMA UploadInv ==
    ASSUME LoaderInv, Upload
    PROVE  LoaderInv'
BY DEF LoaderInv, TypeOK, FactsOK, ImageOK, Upload

LEMMA LaunchInv ==
    ASSUME LoaderInv, NEW f \in DOMAIN functions, Launch(f)
    PROVE  LoaderInv'
<1>1. args'.fn \in Names
  BY DEF LoaderInv, Launch, Names
<1> QED
  BY <1>1 DEF LoaderInv, TypeOK, FactsOK, ImageOK, Launch

LEMMA LoaderStep == LoaderInv /\ [Next]_vars => LoaderInv'
<1> SUFFICES ASSUME LoaderInv, [Next]_vars PROVE LoaderInv'
  OBVIOUS
<1>1. CASE UNCHANGED vars
  BY <1>1 DEF LoaderInv, TypeOK, FactsOK, ImageOK, vars
<1> QED
  BY <1>1, LoadDataInv, PlaceSectionInv, AllocInv, ScanInv, FinishInv, RelocateInv,
     UploadInv, LaunchInv DEF Next

\* Every variable of a load and of the launches after it holds what its
\* declaration says (librecuda.cpp:953-1033).
THEOREM TypeCorrect == Spec => []TypeOK
<1>1. LoaderInv => TypeOK
  BY DEF LoaderInv
<1> QED
  BY <1>1, InitInv, LoaderStep, PTL DEF Spec

-----------------------------------------------------------------------------
(* Where sections are placed.                                               *)

\* The sections a cubin gives an address share no byte, and alignments divide
\* the range of size_t: they are powers of two.
WellPlaced(img) ==
    /\ \A k, l \in DOMAIN img :
          Fixed(img[k]) /\ Fixed(img[l]) /\ k # l =>
             (img[k].addr..(img[k].addr + img[k].size - 1))
                \cap (img[l].addr..(img[l].addr + img[l].size - 1)) = {}
    /\ \A k \in DOMAIN img : Modulus % LargestOf({img[k].align, Align}) = 0

PlacesInv ==
    /\ SectionsApart
    /\ at \in {"idle", "place"} => room = 0

\* A number between 0 and b that is a multiple of b is 0.
LEMMA SmallMultiple ==
    ASSUME NEW d \in Int, NEW b \in Nat, b > 0, d * b < b, d * b > 0 - b
    PROVE  d * b = 0
<1>1. d >= 1 => d * b >= 1 * b
  OBVIOUS
<1>2. d <= 0 - 1 => d * b <= (0 - 1) * b
  OBVIOUS
<1>3. 1 * b = b /\ (0 - 1) * b = 0 - b /\ 0 * b = 0
  OBVIOUS
<1>4. d * b \in Int
  OBVIOUS
<1>5. d = 0
  BY <1>1, <1>2, <1>3, <1>4
<1> QED
  BY <1>3, <1>5

LEMMA MultipleMod ==
    ASSUME NEW t \in Int, NEW b \in Nat, b > 0
    PROVE  (t * b) % b = 0
<1> DEFINE m == t * b
           q == m \div b
           d == t - q
<1>1. m \in Int
  OBVIOUS
<1>2. q \in Int /\ q * b \in Int /\ m % b \in 0..(b - 1) /\ m = q * b + (m % b)
  <2> HIDE DEF m
  <2> QED
    BY <1>1, DivMod
<1>3. d \in Int /\ d * b = t * b - q * b
  <2> HIDE DEF q
  <2> QED
    BY <1>2
<1>4. d * b = m % b
  <2> HIDE DEF q, d
  <2> QED
    BY <1>2, <1>3
<1>5. d * b < b /\ d * b > 0 - b
  BY <1>2, <1>4
<1> HIDE DEF d, m
<1>6. d * b = 0
  BY <1>3, <1>5, SmallMultiple
<1> QED
  BY <1>4, <1>6 DEF m

\* What follows the padding is aligned, even if the subtraction wraps.
LEMMA PaddingAligns ==
    ASSUME NEW a \in Nat, a > 0, NEW n \in Nat, Modulus % a = 0
    PROVE  (n + Padding(a, n)) % a = 0
<1> DEFINE x == Modulus + a - n
           y == x % Modulus
           q == x \div Modulus
           p == y \div a
           c == Modulus \div a
<1>1. Modulus \in Nat /\ Modulus > 0 /\ x \in Int
  BY Numbers
<1>2. q \in Int /\ q * Modulus \in Int /\ y \in Nat /\ x = q * Modulus + y
  <2> HIDE DEF x
  <2> QED
    BY <1>1, DivMod
<1>3. p \in Int /\ p * a \in Int /\ y % a \in Int /\ y = p * a + (y % a)
  <2> HIDE DEF y
  <2> QED
    BY <1>2, DivMod
<1>4. c \in Int /\ Modulus = c * a
  <2>1. c \in Int /\ c * a \in Int /\ Modulus = c * a + (Modulus % a)
    BY <1>1, DivMod
  <2> HIDE DEF c
  <2> QED
    BY <2>1
<1>5. Padding(a, n) = y % a
  BY DEF Padding
<1> HIDE DEF p, q, c, y
<1>6. n + (y % a) = Modulus + a - q * Modulus - p * a
  BY <1>1, <1>2, <1>3
<1>7. q * Modulus = (q * c) * a
  BY <1>2, <1>4
<1>8. (c + 1 - q * c - p) * a = c * a + a - (q * c) * a - p * a
  BY <1>2, <1>3, <1>4
<1>9. n + (y % a) = (c + 1 - q * c - p) * a
  BY <1>4, <1>6, <1>7, <1>8
<1>10. c + 1 - q * c - p \in Int
  BY <1>2, <1>3, <1>4
<1> QED
  BY <1>5, <1>9, <1>10, MultipleMod

LEMMA LoadPlaces ==
    ASSUME LoaderInv, PlacesInv, NEW img \in Images, WellPlaced(img), LoadData(img)
    PROVE  PlacesInv'
<1>1. img \in Seq(Section)
  BY ImageAssumption
<1>2. \A k \in 1..Len(img) : img[k].addr \in Nat /\ img[k].size \in Nat
  <2>1. \A x \in Section : x.addr \in Nat /\ x.size \in Nat
    BY DEF Section
  <2> QED
    BY <1>1, <2>1
<1>3. at = "idle" /\ image' = img /\ at' = "place" /\ i' = 1 /\ room' = room
  BY DEF LoadData
<1>4. Placed' = {k \in 1..Len(img) : Fixed(img[k])}
  <2>1. \A k \in DOMAIN img : ~(k < 1)
    BY <1>1
  <2> QED
    BY <1>1, <1>3, <2>1 DEF Placed, Fixed
<1>5. \A k \in 1..Len(img) : address'[k] = img[k].addr
  BY <1>1 DEF LoadData
<1>6. size' \in Nat /\ \A k \in 1..Len(img) : Fixed(img[k]) => img[k].addr + img[k].size <= size'
  <2>1. size' = LargestOf({0} \cup {img[k].addr + img[k].size : k \in {j \in DOMAIN img : Fixed(img[j])}})
    BY DEF LoadData
  <2>2. DOMAIN img = 1..Len(img)
    BY <1>1
  <2> QED
    BY <1>1, <2>1, <2>2, FixedEnds
<1>7. ASSUME NEW k \in Placed' PROVE Bytes(k)' \subseteq 0..(size' - 1)
  <2>1. Bytes(k)' = img[k].addr..(img[k].addr + img[k].size - 1)
    BY <1>3, <1>4, <1>5 DEF Bytes
  <2> QED
    BY <1>2, <1>4, <1>6, <2>1
<1>8. ASSUME NEW k \in Placed', NEW l \in Placed' \ {k} PROVE Bytes(k)' \cap Bytes(l)' = {}
  <2>1. /\ Bytes(k)' = img[k].addr..(img[k].addr + img[k].size - 1)
        /\ Bytes(l)' = img[l].addr..(img[l].addr + img[l].size - 1)
    BY <1>3, <1>4, <1>5 DEF Bytes
  <2>2. k \in DOMAIN img /\ l \in DOMAIN img /\ Fixed(img[k]) /\ Fixed(img[l]) /\ k # l
    BY <1>1, <1>4
  <2> QED
    BY <2>1, <2>2 DEF WellPlaced
<1>9. room' = 0
  BY <1>3 DEF PlacesInv
<1> QED
  BY <1>3, <1>4, <1>7, <1>8, <1>9 DEF PlacesInv, SectionsApart

LEMMA PlacePlaces ==
    ASSUME LoaderInv, PlacesInv, WellPlaced(image), PlaceSection
    PROVE  PlacesInv'
<1> DEFINE s == image[i]
           a == LargestOf({s.align, Align})
           start == size + Padding(a, size)
<1>1. i \in 1..Len(image) /\ s \in Section /\ image \in Seq(Section)
  BY Here DEF PlaceSection, LoaderInv, ImageOK
<1>2. \A k \in 1..Len(image) : image[k].size \in Nat
  <2>1. \A x \in Section : x.size \in Nat
    BY DEF Section
  <2> QED
    BY <1>1, <2>1
<1>3. size \in Nat /\ address \in Seq(Nat) /\ Len(address) = Len(image)
  BY Pieces
<1>4. at = "place" /\ at' = at /\ image' = image /\ i' = i + 1 /\ room' = 0 /\ room = 0
  BY DEF PlaceSection, PlacesInv
<1>5. CASE s.type = "PROGBITS" /\ ~Fixed(s)
  <2>1. s.align \in Nat
    BY <1>1 DEF Section
  <2>2. a \in Nat /\ a > 0
    BY <2>1, PairLargest, Numbers
  <2>3. Modulus % a = 0
    BY <1>1 DEF WellPlaced
  <2> HIDE DEF a
  <2>4. Padding(a, size) \in Nat /\ start % a = 0
    BY <1>3, <2>2, <2>3, PaddingIs, PaddingAligns
  <2>5. start \in Nat /\ start >= size
    BY <1>3, <2>4
  <2>6. address' = [address EXCEPT ![i] = start] /\ size' = start + s.size
    BY <1>5 DEF PlaceSection, a
  <2> HIDE DEF start
  <2>7. Placed' = Placed \cup {i} /\ i \notin Placed
    <3>1. \A k \in DOMAIN image : k < i + 1 <=> k < i \/ k = i
      BY <1>1
    <3> QED
      BY <1>1, <1>4, <1>5, <3>1 DEF Placed
  <2>8. Placed \subseteq 1..Len(image)
    BY <1>1 DEF Placed
  <2>9. \A k \in Placed : address'[k] = address[k] /\ Bytes(k)' = Bytes(k)
    BY <1>1, <1>3, <1>4, <2>6, <2>7, <2>8 DEF Bytes
  <2>10. \A n : n = i => address'[n] = start /\ Bytes(n)' = start..(start + s.size - 1)
    <3>1. address'[i] = start
      BY <1>1, <1>3, <2>6
    <3> QED
      BY <1>4, <3>1 DEF Bytes
  <2>11. \A k \in Placed : Bytes(k) \subseteq 0..(size - 1)
    BY DEF PlacesInv, SectionsApart
  <2>12. s.size \in Nat
    BY <1>1, <1>2
  <2>13. \A k \in Placed' : Bytes(k)' \subseteq 0..(size' - 1)
    <3>1. size' \in Nat /\ size' >= size /\ size' = start + s.size
      BY <1>3, <2>5, <2>6, <2>12
    <3>2. \A k \in Placed : Bytes(k)' \subseteq 0..(size' - 1)
      BY <1>3, <2>9, <2>11, <3>1
    <3>3. \A n : n = i => Bytes(n)' \subseteq 0..(size' - 1)
      BY <2>5, <2>10, <2>12, <3>1
    <3> QED
      BY <2>7, <3>2, <3>3
  <2>14. \A k \in Placed : Bytes(k) \cap (start..(start + s.size - 1)) = {}
    BY <1>3, <2>5, <2>11, <2>12
  <2>15. ASSUME NEW k \in Placed', NEW l \in Placed' \ {k} PROVE Bytes(k)' \cap Bytes(l)' = {}
    <3>1. k \in Placed /\ l \in Placed => Bytes(k) \cap Bytes(l) = {}
      BY DEF PlacesInv, SectionsApart
    <3> QED
      BY <2>7, <2>9, <2>10, <2>14, <3>1
  <2>16. \A k \in Placed' : ~Fixed(image[k]) => address'[k] % LargestOf({image[k].align, Align}) = 0
    <3>1. \A k \in Placed : ~Fixed(image[k]) => address[k] % LargestOf({image[k].align, Align}) = 0
      BY DEF PlacesInv, SectionsApart
    <3> QED
      BY <2>4, <2>7, <2>9, <2>10, <3>1 DEF a
  <2> QED
    BY <1>4, <2>13, <2>15, <2>16 DEF PlacesInv, SectionsApart
<1>6. CASE ~(s.type = "PROGBITS" /\ ~Fixed(s))
  <2>1. address' = address /\ size' = size
    BY <1>6 DEF PlaceSection
  <2>2. Placed' = Placed
    <3>1. \A k \in DOMAIN image : k < i + 1 <=> k < i \/ k = i
      BY <1>1
    <3> QED
      BY <1>1, <1>4, <1>6, <3>1 DEF Placed
  <2>3. \A k : Bytes(k)' = Bytes(k)
    BY <1>4, <2>1 DEF Bytes
  <2> QED
    BY <1>4, <2>1, <2>2, <2>3 DEF PlacesInv, SectionsApart
<1> QED
  BY <1>5, <1>6

LEMMA AllocPlaces ==
    ASSUME LoaderInv, PlacesInv, Alloc
    PROVE  PlacesInv'
<1>1. size \in Nat /\ i \in Nat /\ address' = address /\ image' = image /\ size' = size
  BY Pieces DEF Alloc
<1>2. at = "place" /\ i > Len(image) /\ at' \in {"scan", "failed"} /\ room = 0
  BY DEF Alloc, PlacesInv
<1>3. room' = 0 \/ size + Page <= room'
  <2>1. CeilDiv(size, Page) * Page \in Nat /\ size <= CeilDiv(size, Page) * Page
    BY <1>1, CeilDivIs, Numbers
  <2>2. size + Page <= Room(size)
    BY <1>1, <2>1, Numbers DEF Room
  <2> QED
    BY <1>2, <2>2 DEF Alloc
<1>4. Placed' = Placed
  <2>1. image \in Seq(Section)
    BY DEF LoaderInv, ImageOK
  <2>2. \A k \in DOMAIN image : k < i
    BY <1>1, <1>2, <2>1
  <2> QED
    BY <1>1, <1>2, <2>2 DEF Placed
<1>5. \A k : Bytes(k)' = Bytes(k)
  BY <1>1 DEF Bytes
<1> QED
  BY <1>1, <1>2, <1>3, <1>4, <1>5 DEF PlacesInv, SectionsApart

LEMMA OtherPlaces ==
    ASSUME PlacesInv, UNCHANGED <<image, address, size, room>>,
           \/ at \notin {"idle", "place"} /\ at' \notin {"idle", "place"}
           \/ at' = at /\ i' = i
    PROVE  PlacesInv'
<1>1. Placed' = Placed
  BY DEF Placed
<1>2. \A k : Bytes(k)' = Bytes(k)
  BY DEF Bytes
<1> QED
  BY <1>1, <1>2 DEF PlacesInv, SectionsApart

LEMMA PlacesStep ==
    ASSUME \A img \in Images : WellPlaced(img), LoaderInv, PlacesInv, [Next]_vars
    PROVE  PlacesInv'
<1>1. at # "idle" => WellPlaced(image)
  BY DEF LoaderInv, ImageOK
<1>2. ASSUME NEW img \in Images, LoadData(img) PROVE PlacesInv'
  BY <1>2, LoadPlaces
<1>3. CASE PlaceSection
  BY <1>1, <1>3, PlacePlaces DEF PlaceSection
<1>4. CASE Alloc
  BY <1>4, AllocPlaces
<1>5. CASE Scan
  BY <1>5, OtherPlaces DEF Scan
<1>6. CASE Finish
  BY <1>6, OtherPlaces DEF Finish
<1>7. CASE Relocate
  BY <1>7, OtherPlaces DEF Relocate
<1>8. CASE Upload
  BY <1>8, OtherPlaces DEF Upload
<1>9. ASSUME NEW f \in DOMAIN functions, Launch(f) PROVE PlacesInv'
  BY <1>9, OtherPlaces DEF Launch
<1>10. CASE UNCHANGED vars
  BY <1>10, OtherPlaces DEF vars
<1> QED
  BY <1>2, <1>3, <1>4, <1>5, <1>6, <1>7, <1>8, <1>9, <1>10 DEF Next

\* In whatever order a cubin lists its sections, those with and without an
\* address of their own share no byte of the image, lie within it and are
\* aligned, and a page follows the image in its memory, for every cubin whose
\* own addresses are apart (librecuda.cpp:958-1011).
THEOREM SectionsStayApart ==
    (\A img \in Images : WellPlaced(img)) => (Spec => []SectionsApart)
<1> SUFFICES ASSUME \A img \in Images : WellPlaced(img) PROVE Spec => []SectionsApart
  OBVIOUS
<1>1. Init => PlacesInv
  BY DEF Init, PlacesInv, SectionsApart, Placed
<1>2. LoaderInv /\ PlacesInv /\ [Next]_vars => LoaderInv' /\ PlacesInv'
  BY LoaderStep, PlacesStep
<1>3. PlacesInv => SectionsApart
  BY DEF PlacesInv
<1> QED
  BY <1>1, <1>2, <1>3, InitInv, PTL DEF Spec

-----------------------------------------------------------------------------
(* What the relocations write.                                              *)

\* Where a relocation writes.
CellsOf(r) ==
    CASE r.kind = "64" -> {r.at, r.at + 4}
      [] r.kind \in {"lo", "hi"} -> {r.at + 4}
      [] OTHER -> {}

\* No other section has the name of a section with data; relocations write
\* within the section they are for, and no two of them the same bytes.
RelocsApart(img) ==
    /\ \A k, l \in DOMAIN img : img[k].type = "PROGBITS" /\ img[l].name = img[k].name => l = k
    /\ \A k \in DOMAIN img : \A r \in DOMAIN img[k].items :
          img[k].type = "REL" => \A x \in CellsOf(img[k].items[r]) :
             /\ \E t \in DOMAIN img : /\ img[t].type = "PROGBITS" /\ img[t].name = img[k].target
                                      /\ x + 4 <= img[t].size
             /\ \A l \in DOMAIN img : \A q \in DOMAIN img[l].items :
                   img[l].type = "REL" /\ img[l].target = img[k].target /\ <<l, q>> # <<k, r>> =>
                      \A y \in CellsOf(img[l].items[q]) : x + 4 <= y \/ y + 4 <= x

Entry(k, r) == Relocs(image[k])[r]
CellsAt(j) == CellsOf(relocs[j])
Words32(j) == Written(relocs[j])

\* The relocations of the sections that were read, each once; and the words of
\* those that were applied.
RelocInv ==
    /\ at = "idle" \/ at = "place" => relocs = <<>>
    /\ at = "scan" =>
          /\ \A k \in DOMAIN image : \A r \in DOMAIN image[k].items :
                k < i /\ image[k].type = "REL" =>
                   \E j \in DOMAIN relocs : relocs[j] = Entry(k, r)
          /\ \A j \in DOMAIN relocs : \E k \in DOMAIN image : \E r \in DOMAIN image[k].items :
                k < i /\ image[k].type = "REL" /\ relocs[j] = Entry(k, r)
    /\ at \in {"relocate", "loaded"} =>
          \A k \in DOMAIN image : \A r \in DOMAIN image[k].items :
             image[k].type = "REL" => \E j \in DOMAIN relocs : relocs[j] = Entry(k, r)
    /\ at \in {"scan", "relocate", "loaded"} =>
          \A j, m \in DOMAIN relocs : j # m => CellsAt(j) \cap CellsAt(m) = {}
    /\ at \in {"relocate", "loaded"} =>
          \A j \in DOMAIN relocs : j < i => \A x \in DOMAIN Words32(j) :
             x \in DOMAIN cells /\ cells[x] = Words32(j)[x]
    /\ at = "loaded" => i > Len(relocs)

LEMMA CellsWritten ==
    ASSUME NEW r \in [at : Nat, to : Nat, kind : {"64", "lo", "hi", "other"}]
    PROVE  DOMAIN Written(r) = CellsOf(r)
<1>1. r.kind \in {"64", "lo", "hi", "other"}
  OBVIOUS
<1>2. DOMAIN <<>> = {}
  OBVIOUS
<1>3. CASE r.kind = "64"
  BY <1>3 DEF Written, CellsOf
<1>4. CASE r.kind = "lo"
  BY <1>4 DEF Written, CellsOf
<1>5. CASE r.kind = "hi"
  BY <1>5 DEF Written, CellsOf
<1>6. CASE r.kind = "other"
  <2>1. Written(r) = <<>>
    BY <1>6 DEF Written
  <2>2. CellsOf(r) = {}
    BY <1>6 DEF CellsOf
  <2> QED
    BY <1>2, <2>1, <2>2
<1> QED
  BY <1>1, <1>3, <1>4, <1>5, <1>6

\* A name of a section with data finds that section.
LEMMA NameFinds ==
    ASSUME ImageOK, RelocsApart(image), NEW t \in DOMAIN image, image[t].type = "PROGBITS"
    PROVE  AddressOf(image[t].name) = address[t]
<1>1. Named(image[t].name) = {t}
  BY DEF Named, RelocsApart
<1>2. t \in Nat
  BY DEF ImageOK
<1>3. First({t}) = t
  <2>1. First({t}) \in {t}
    BY <1>2, FirstIs
  <2> QED
    BY <2>1
<1> QED
  BY <1>1, <1>3 DEF AddressOf

LEMMA CellsShifted ==
    ASSUME ImageOK, address \in Seq(Nat), Len(address) = Len(image),
           NEW s \in Section, s.items \in Seq(Relocation), NEW r \in DOMAIN s.items
    PROVE  /\ CellsOf(Relocs(s)[r]) = {AddressOf(s.target) + y : y \in CellsOf(s.items[r])}
           /\ CellsOf(s.items[r]) \subseteq Nat
           /\ AddressOf(s.target) \in Nat
<1> DEFINE a == AddressOf(s.target)
           e == s.items[r]
<1>1. a \in Nat
  BY AddressOfType
<1>2. e \in Relocation
  OBVIOUS
<1>3. Relocs(s)[r].at = a + e.at /\ Relocs(s)[r].kind = e.kind
  BY DEF Relocs
<1> HIDE DEF a, e
<1>4. e.at \in Nat /\ e.kind \in {"64", "lo", "hi", "other"}
  BY <1>2 DEF Relocation
<1>5. a + e.at + 4 = a + (e.at + 4)
  BY <1>1, <1>4
<1>6. CellsOf(e) \subseteq Nat
  BY <1>4 DEF CellsOf
<1>7. CellsOf(Relocs(s)[r]) = {a + y : y \in CellsOf(e)}
  <2>1. CASE e.kind = "64"
    BY <1>3, <1>5, <2>1 DEF CellsOf
  <2>2. CASE e.kind \in {"lo", "hi"}
    BY <1>3, <1>5, <2>2 DEF CellsOf
  <2>3. CASE e.kind = "other"
    BY <1>3, <2>3 DEF CellsOf
  <2> QED
    BY <1>4, <2>1, <2>2, <2>3
<1> QED
  BY <1>1, <1>6, <1>7 DEF a, e

LEMMA EntriesApart ==
    ASSUME LoaderInv, PlacesInv, RelocsApart(image), at \notin {"idle", "place"},
           NEW k \in DOMAIN image, NEW r \in DOMAIN image[k].items, image[k].type = "REL",
           NEW l \in DOMAIN image, NEW q \in DOMAIN image[l].items, image[l].type = "REL",
           <<k, r>> # <<l, q>>
    PROVE  CellsOf(Relocs(image[k])[r]) \cap CellsOf(Relocs(image[l])[q]) = {}
<1> SUFFICES ASSUME NEW x, x \in CellsOf(Relocs(image[k])[r]), x \in CellsOf(Relocs(image[l])[q])
             PROVE  FALSE
  OBVIOUS
<1>0. /\ ImageOK /\ address \in Seq(Nat) /\ Len(address) = Len(image)
      /\ image \in Seq(Section) /\ \A n \in DOMAIN image : Shaped(image[n])
  BY Pieces DEF LoaderInv, ImageOK
<1>1. /\ image[k] \in Section /\ image[k].items \in Seq(Relocation)
      /\ image[l] \in Section /\ image[l].items \in Seq(Relocation)
  BY <1>0 DEF Shaped
<1>2. PICK y \in CellsOf(image[k].items[r]) : x = AddressOf(image[k].target) + y /\ y \in Nat
  <2> DEFINE s == image[k]
  <2>1. s \in Section /\ s.items \in Seq(Relocation) /\ r \in DOMAIN s.items
    BY <1>1
  <2> HIDE DEF s
  <2>2. /\ CellsOf(Relocs(s)[r]) = {AddressOf(s.target) + c : c \in CellsOf(s.items[r])}
        /\ CellsOf(s.items[r]) \subseteq Nat
    BY <1>0, <2>1, CellsShifted
  <2> QED
    BY <2>2 DEF s
<1>3. PICK z \in CellsOf(image[l].items[q]) : x = AddressOf(image[l].target) + z /\ z \in Nat
  <2> DEFINE s == image[l]
  <2>1. s \in Section /\ s.items \in Seq(Relocation) /\ q \in DOMAIN s.items
    BY <1>1
  <2> HIDE DEF s
  <2>2. /\ CellsOf(Relocs(s)[q]) = {AddressOf(s.target) + c : c \in CellsOf(s.items[q])}
        /\ CellsOf(s.items[q]) \subseteq Nat
    BY <1>0, <2>1, CellsShifted
  <2> QED
    BY <2>2 DEF s
<1>4. PICK t \in DOMAIN image :
         image[t].type = "PROGBITS" /\ image[t].name = image[k].target /\ y + 4 <= image[t].size
  BY <1>2 DEF RelocsApart
<1>5. PICK u \in DOMAIN image :
         image[u].type = "PROGBITS" /\ image[u].name = image[l].target /\ z + 4 <= image[u].size
  BY <1>3 DEF RelocsApart
<1>6. x = address[t] + y /\ x = address[u] + z
  BY <1>0, <1>2, <1>3, <1>4, <1>5, NameFinds
<1>7. /\ address[t] \in Nat /\ address[u] \in Nat
      /\ image[t].size \in Nat /\ image[u].size \in Nat
  <2>1. \A n \in Section : n.size \in Nat
    BY DEF Section
  <2>2. image[t] \in Section /\ image[u] \in Section
    BY <1>0
  <2>3. t \in 1..Len(address) /\ u \in 1..Len(address)
    BY <1>0
  <2> QED
    BY <1>0, <2>1, <2>2, <2>3
<1>8. CASE t = u
  <2>1. image[l].target = image[k].target /\ y = z
    BY <1>2, <1>3, <1>4, <1>5, <1>6, <1>7, <1>8
  <2>2. y + 4 <= z \/ z + 4 <= y
    BY <1>2, <1>3, <2>1 DEF RelocsApart
  <2> QED
    BY <1>2, <2>1, <2>2
<1>9. CASE t # u
  <2>1. x \in Bytes(t) /\ x \in Bytes(u)
    BY <1>2, <1>3, <1>4, <1>5, <1>6, <1>7 DEF Bytes
  <2>2. t \in Placed /\ u \in Placed
    BY <1>4, <1>5 DEF Placed
  <2> QED
    BY <1>9, <2>1, <2>2 DEF PlacesInv, SectionsApart
<1> QED
  BY <1>8, <1>9

LEMMA SameRelocs ==
    ASSUME image' = image, address' = address
    PROVE  \A k, r : Entry(k, r)' = Entry(k, r)
BY DEF Entry, Relocs, AddressOf, Named

\* A loop step past a section: its relocations join those read before.
LEMMA ScanRelocs ==
    ASSUME LoaderInv, PlacesInv, RelocInv, RelocsApart(image), Scan
    PROVE  RelocInv'
<1> DEFINE R == [at : Nat, to : Nat, kind : {"64", "lo", "hi", "other"}]
<1>1. /\ at = "scan" /\ at' \in {"scan", "failed"} /\ image' = image /\ address' = address
      /\ i' = i + 1 /\ i \in 1..Len(image) /\ image \in Seq(Section)
  BY Here DEF Scan, LoaderInv, ImageOK
<1>2. \A k, r : Entry(k, r)' = Entry(k, r)
  BY <1>1, SameRelocs
<1>3. relocs \in Seq(R)
  BY Pieces
<1>4. ImageOK /\ address \in Seq(Nat) /\ Len(address) = Len(image)
  BY Pieces DEF LoaderInv
<1> HIDE DEF R
<1>5. \A k \in DOMAIN image : k < i + 1 <=> k < i \/ k = i
  BY <1>1
<1>6. CASE image[i].type = "REL"
  <2> DEFINE new == Relocs(image[i])
  <2>1. image[i] \in Section /\ image[i].items \in Seq(Relocation)
    BY <1>1, <1>6, Here DEF Shaped
  <2>2. new \in Seq(R) /\ Len(new) = Len(image[i].items)
    <3>1. new \in Seq(R)
      BY <1>4, <2>1, RelocsType DEF R
    <3>2. DOMAIN new = DOMAIN image[i].items
      BY DEF Relocs
    <3> HIDE DEF new
    <3> QED
      BY <2>1, <3>1, <3>2
  <2>3. DOMAIN image[i].items = 1..Len(new)
    BY <2>1, <2>2
  <2>4. relocs' = relocs \o new
    BY <1>6 DEF Scan
  <2> HIDE DEF new
  <2>5. /\ DOMAIN relocs' = 1..(Len(relocs) + Len(new))
        /\ \A j \in DOMAIN relocs : j \in DOMAIN relocs' /\ relocs'[j] = relocs[j]
        /\ \A r \in 1..Len(new) : Len(relocs) + r \in DOMAIN relocs' /\ relocs'[Len(relocs) + r] = new[r]
    <3> DEFINE joined == relocs \o new
    <3>1. /\ joined \in Seq(R) /\ Len(joined) = Len(relocs) + Len(new)
          /\ \A j \in 1..Len(relocs) : joined[j] = relocs[j]
          /\ \A r \in 1..Len(new) : joined[Len(relocs) + r] = new[r]
      BY <1>3, <2>2
    <3>2. DOMAIN joined = 1..(Len(relocs) + Len(new)) /\ relocs' = joined
      BY <2>4, <3>1
    <3> HIDE DEF joined
    <3>3. Len(relocs) \in Nat /\ Len(new) \in Nat /\ DOMAIN relocs = 1..Len(relocs)
      BY <1>3, <2>2
    <3> QED
      BY <3>1, <3>2, <3>3
  <2>cells. \A j : CellsAt(j)' = CellsOf(relocs'[j])
    BY DEF CellsAt, CellsOf
  <2>6. \A j \in DOMAIN relocs' : \/ j \in DOMAIN relocs
                                  \/ j - Len(relocs) \in 1..Len(new) /\ relocs'[j] = new[j - Len(relocs)]
    <3>1. \A j \in DOMAIN relocs' : j \notin DOMAIN relocs =>
             j - Len(relocs) \in 1..Len(new) /\ j = Len(relocs) + (j - Len(relocs))
      BY <1>3, <2>2, <2>5
    <3> QED
      BY <2>5, <3>1
  <2>7. ASSUME NEW k \in DOMAIN image, NEW r \in DOMAIN image[k].items,
               k < i + 1, image[k].type = "REL"
        PROVE  \E j \in DOMAIN relocs' : relocs'[j] = Entry(k, r)
    <3>1. CASE k < i
      <4>1. \E j \in DOMAIN relocs : relocs[j] = Entry(k, r)
        BY <1>1, <2>7, <3>1 DEF RelocInv
      <4> QED
        BY <2>5, <4>1
    <3>2. CASE k = i
      BY <2>3, <2>5, <3>2 DEF new, Entry
    <3> QED
      BY <1>5, <2>7, <3>1, <3>2
  <2>8. ASSUME NEW j \in DOMAIN relocs'
        PROVE  \E k \in DOMAIN image : \E r \in DOMAIN image[k].items :
                  k < i + 1 /\ image[k].type = "REL" /\ relocs'[j] = Entry(k, r)
    <3>1. CASE j \in DOMAIN relocs
      <4>1. \E k \in DOMAIN image : \E r \in DOMAIN image[k].items :
               k < i /\ image[k].type = "REL" /\ relocs[j] = Entry(k, r)
        BY <1>1, <3>1 DEF RelocInv
      <4> QED
        BY <1>5, <2>5, <3>1, <4>1
    <3>2. CASE j \notin DOMAIN relocs
      <4>1. j - Len(relocs) \in DOMAIN image[i].items /\ relocs'[j] = Entry(i, j - Len(relocs))
        BY <2>3, <2>6, <3>2 DEF new, Entry
      <4>2. i \in DOMAIN image /\ i < i + 1
        BY <1>1
      <4> QED
        BY <1>6, <4>1, <4>2
    <3> QED
      BY <3>1, <3>2
  <2>9. ASSUME NEW j \in DOMAIN relocs', NEW m \in DOMAIN relocs', j # m
        PROVE  CellsAt(j)' \cap CellsAt(m)' = {}
    <3>1. \A n \in DOMAIN relocs : \E k \in DOMAIN image : \E r \in DOMAIN image[k].items :
             k < i /\ image[k].type = "REL" /\ relocs[n] = Entry(k, r)
      BY <1>1 DEF RelocInv
    <3>2. \A n \in DOMAIN relocs, r \in 1..Len(new) : CellsOf(relocs[n]) \cap CellsOf(new[r]) = {}
      <4> SUFFICES ASSUME NEW n \in DOMAIN relocs, NEW r \in 1..Len(new)
                   PROVE  CellsOf(relocs[n]) \cap CellsOf(new[r]) = {}
        OBVIOUS
      <4>1. PICK k \in DOMAIN image : \E q \in DOMAIN image[k].items :
               k < i /\ image[k].type = "REL" /\ relocs[n] = Entry(k, q)
        BY <3>1
      <4>2. PICK q \in DOMAIN image[k].items :
               k < i /\ image[k].type = "REL" /\ relocs[n] = Entry(k, q)
        BY <4>1
      <4>3. <<k, q>> # <<i, r>> /\ i \in DOMAIN image /\ r \in DOMAIN image[i].items
        BY <1>1, <2>3, <4>2
      <4>4. at \notin {"idle", "place"}
        BY <1>1
      <4>5. CellsOf(Relocs(image[k])[q]) \cap CellsOf(Relocs(image[i])[r]) = {}
        BY <1>6, <4>2, <4>3, <4>4, EntriesApart
      <4> QED
        BY <4>2, <4>5 DEF new, Entry
    <3>3. \A q, r \in 1..Len(new) : q # r => CellsOf(new[q]) \cap CellsOf(new[r]) = {}
      <4> SUFFICES ASSUME NEW q \in 1..Len(new), NEW r \in 1..Len(new), q # r
                   PROVE  CellsOf(new[q]) \cap CellsOf(new[r]) = {}
        OBVIOUS
      <4>1. /\ <<i, q>> # <<i, r>> /\ i \in DOMAIN image
            /\ q \in DOMAIN image[i].items /\ r \in DOMAIN image[i].items
        BY <1>1, <2>3
      <4>2. at \notin {"idle", "place"}
        BY <1>1
      <4>3. CellsOf(Relocs(image[i])[q]) \cap CellsOf(Relocs(image[i])[r]) = {}
        BY <1>6, <4>1, <4>2, EntriesApart
      <4> QED
        BY <4>3 DEF new
    <3>4. j \in DOMAIN relocs /\ m \in DOMAIN relocs => CellsOf(relocs[j]) \cap CellsOf(relocs[m]) = {}
      BY <1>1, <2>9 DEF RelocInv, CellsAt
    <3>5. j - Len(relocs) # m - Len(relocs)
      BY <1>3, <2>2, <2>5, <2>9
    <3>6. CASE j \in DOMAIN relocs /\ m \in DOMAIN relocs
      BY <2>cells, <2>5, <3>4, <3>6
    <3>7. CASE j \in DOMAIN relocs /\ m \notin DOMAIN relocs
      BY <2>cells, <2>5, <2>6, <3>2, <3>7
    <3>8. CASE j \notin DOMAIN relocs /\ m \in DOMAIN relocs
      BY <2>cells, <2>5, <2>6, <3>2, <3>8
    <3>9. CASE j \notin DOMAIN relocs /\ m \notin DOMAIN relocs
      BY <2>cells, <2>6, <3>3, <3>5, <3>9
    <3> QED
      BY <3>6, <3>7, <3>8, <3>9
  <2>10. \A k \in DOMAIN image : \A r \in DOMAIN image[k].items :
            k < i + 1 /\ image[k].type = "REL" =>
               \E j \in DOMAIN relocs' : relocs'[j] = Entry(k, r)
    BY <2>7
  <2>11. \A j \in DOMAIN relocs' : \E k \in DOMAIN image : \E r \in DOMAIN image[k].items :
            k < i + 1 /\ image[k].type = "REL" /\ relocs'[j] = Entry(k, r)
    BY <2>8
  <2>12. \A j, m \in DOMAIN relocs' : j # m => CellsAt(j)' \cap CellsAt(m)' = {}
    BY <2>9
  <2> QED
    BY <1>1, <1>2, <2>10, <2>11, <2>12 DEF RelocInv
<1>7. CASE image[i].type # "REL"
  <2>1. relocs' = relocs
    BY <1>7 DEF Scan
  <2>2. \A k \in DOMAIN image : \A r \in DOMAIN image[k].items :
            k < i + 1 /\ image[k].type = "REL" =>
               \E j \in DOMAIN relocs : relocs[j] = Entry(k, r)
    BY <1>1, <1>5, <1>7 DEF RelocInv
  <2>3. \A j \in DOMAIN relocs : \E k \in DOMAIN image : \E r \in DOMAIN image[k].items :
            k < i + 1 /\ image[k].type = "REL" /\ relocs[j] = Entry(k, r)
    BY <1>1, <1>5 DEF RelocInv
  <2>4. \A j, m \in DOMAIN relocs : j # m => CellsAt(j) \cap CellsAt(m) = {}
    BY <1>1 DEF RelocInv
  <2>5. \A j : CellsAt(j)' = CellsAt(j)
    BY <2>1 DEF CellsAt, CellsOf
  <2> QED
    BY <1>1, <1>2, <2>1, <2>2, <2>3, <2>4, <2>5 DEF RelocInv
<1> QED
  BY <1>6, <1>7

LEMMA FinishRelocs ==
    ASSUME LoaderInv, RelocInv, Finish
    PROVE  RelocInv'
<1>1. /\ at = "scan" /\ at' = "relocate" /\ image' = image /\ address' = address
      /\ i > Len(image) /\ i' = 1 /\ relocs' = relocs /\ cells' = cells
      /\ image \in Seq(Section) /\ i \in Nat
  BY Pieces DEF Finish, LoaderInv, ImageOK
<1>2. \A k, r : Entry(k, r)' = Entry(k, r)
  BY <1>1, SameRelocs
<1>3. \A k \in DOMAIN image : k < i
  BY <1>1
<1>4. relocs \in Seq([at : Nat, to : Nat, kind : {"64", "lo", "hi", "other"}])
  BY Pieces
<1>5. \A j \in DOMAIN relocs : ~(j < 1)
  BY <1>4
<1>6. \A k \in DOMAIN image : \A r \in DOMAIN image[k].items :
         image[k].type = "REL" => \E j \in DOMAIN relocs : relocs[j] = Entry(k, r)
  BY <1>1, <1>3 DEF RelocInv
<1>7. \A j, m \in DOMAIN relocs : j # m => CellsAt(j) \cap CellsAt(m) = {}
  BY <1>1 DEF RelocInv
<1>8. \A j : CellsAt(j)' = CellsAt(j)
  BY <1>1 DEF CellsAt, CellsOf
<1> QED
  BY <1>1, <1>2, <1>5, <1>6, <1>7, <1>8 DEF RelocInv

\* A relocation that is applied leaves the words of the others.
LEMMA RelocateRelocs ==
    ASSUME LoaderInv, RelocInv, Relocate
    PROVE  RelocInv'
<1> DEFINE R == [at : Nat, to : Nat, kind : {"64", "lo", "hi", "other"}]
<1>1. /\ at = "relocate" /\ image' = image /\ address' = address /\ at' \in {"relocate", "failed"}
      /\ i' = i + 1 /\ relocs' = relocs /\ va' = va
  BY DEF Relocate
<1>2. relocs \in Seq(R) /\ i \in 1..Len(relocs)
  BY Pieces DEF Relocate, LoaderInv
<1>3. \A k, r : Entry(k, r)' = Entry(k, r)
  BY <1>1, SameRelocs
<1>4. \A n : Words32(n)' = Words32(n) /\ CellsAt(n)' = CellsAt(n)
  BY <1>1 DEF Words32, Written, CellsAt, CellsOf
<1>5. \A j \in DOMAIN relocs : DOMAIN Words32(j) = CellsAt(j)
  <2>1. \A j \in DOMAIN relocs : relocs[j] \in R
    <3> HIDE DEF R
    <3> QED
      BY <1>2
  <2> QED
    BY <2>1, CellsWritten DEF R, CellsAt, Words32
<1>6. \A j, m \in DOMAIN relocs : j # m => CellsAt(j) \cap CellsAt(m) = {}
  BY <1>1 DEF RelocInv
<1>7. ASSUME at' = "relocate", NEW j \in DOMAIN relocs, j < i + 1, NEW x \in DOMAIN Words32(j)
      PROVE  x \in DOMAIN cells' /\ cells'[x] = Words32(j)[x]
  <2> DEFINE w == Written(relocs[i])
  <2>1. cells' = Overwrite(cells, w)
    BY <1>7 DEF Relocate
  <2>2. CASE j = i
    BY <1>7, <2>1, <2>2 DEF Overwrite, Words32
  <2>3. CASE j # i
    <3>1. j < i /\ i \in DOMAIN relocs
      BY <1>2, <1>7, <2>3
    <3>2. x \in DOMAIN cells /\ cells[x] = Words32(j)[x]
      BY <1>1, <1>7, <3>1 DEF RelocInv
    <3>3. x \notin DOMAIN w
      BY <1>5, <1>6, <1>7, <2>3, <3>1 DEF Words32
    <3> HIDE DEF w
    <3> QED
      BY <2>1, <3>2, <3>3 DEF Overwrite
  <2> QED
    BY <2>2, <2>3
<1>8. \A k \in DOMAIN image : \A r \in DOMAIN image[k].items :
         image[k].type = "REL" => \E j \in DOMAIN relocs : relocs[j] = Entry(k, r)
  BY <1>1 DEF RelocInv
<1>9. at' = "relocate" => \A j \in DOMAIN relocs' : j < i' => \A x \in DOMAIN Words32(j)' :
         x \in DOMAIN cells' /\ cells'[x] = Words32(j)[x]'
  BY <1>1, <1>4, <1>7
<1>10. \A j, m \in DOMAIN relocs' : j # m => CellsAt(j)' \cap CellsAt(m)' = {}
  BY <1>1, <1>4, <1>6
<1> QED
  BY <1>1, <1>3, <1>8, <1>9, <1>10 DEF RelocInv

LEMMA OtherRelocs ==
    ASSUME RelocInv, UNCHANGED <<image, address, va, relocs, cells, i>>,
           at' = at \/ (at = "relocate" /\ at' = "loaded" /\ i > Len(relocs))
    PROVE  RelocInv'
<1>1. \A k, r : Entry(k, r)' = Entry(k, r)
  BY SameRelocs
<1>2. \A n : Words32(n)' = Words32(n) /\ CellsAt(n)' = CellsAt(n)
  BY DEF Words32, Written, CellsAt, CellsOf
<1> QED
  BY <1>1, <1>2 DEF RelocInv

LEMMA EarlyRelocs ==
    ASSUME RelocInv, at \in {"idle", "place"}, UNCHANGED relocs,
           at' = "place" \/ (at' \in {"scan", "failed"} /\ i' = 1), image' \in Seq(Section)
    PROVE  RelocInv'
<1>1. relocs = <<>> /\ relocs' = <<>> /\ DOMAIN <<>> = {}
  BY DEF RelocInv
<1>2. \A k \in DOMAIN image' : ~(k < 1)
  OBVIOUS
<1> QED
  BY <1>1, <1>2 DEF RelocInv

LEMMA RelocStep ==
    ASSUME \A img \in Images : RelocsApart(img), LoaderInv, PlacesInv, RelocInv, [Next]_vars
    PROVE  RelocInv'
<1>1. at # "idle" => RelocsApart(image)
  BY DEF LoaderInv, ImageOK
<1>2. image \in Seq(Section)
  BY DEF LoaderInv, ImageOK
<1>3. ASSUME NEW img \in Images, LoadData(img) PROVE RelocInv'
  <2>1. img \in Seq(Section)
    BY ImageAssumption
  <2> QED
    BY <1>3, <2>1, EarlyRelocs DEF LoadData
<1>4. CASE PlaceSection
  BY <1>2, <1>4, EarlyRelocs DEF PlaceSection
<1>5. CASE Alloc
  BY <1>2, <1>5, EarlyRelocs DEF Alloc
<1>6. CASE Scan
  BY <1>1, <1>6, ScanRelocs DEF Scan
<1>7. CASE Finish
  BY <1>7, FinishRelocs
<1>8. CASE Relocate
  BY <1>8, RelocateRelocs
<1>9. CASE Upload
  BY <1>9, OtherRelocs DEF Upload
<1>10. ASSUME NEW f \in DOMAIN functions, Launch(f) PROVE RelocInv'
  BY <1>10, OtherRelocs DEF Launch
<1>11. CASE UNCHANGED vars
  BY <1>11, OtherRelocs DEF vars
<1> QED
  BY <1>3, <1>4, <1>5, <1>6, <1>7, <1>8, <1>9, <1>10, <1>11 DEF Next

LEMMA ModUnique ==
    ASSUME NEW d \in Int, NEW b \in Nat, b > 0, NEW z \in 0..(b - 1)
    PROVE  (d * b + z) % b = z
<1> DEFINE m == d * b + z
           q == m \div b
           e == d - q
<1>1. m \in Int
  OBVIOUS
<1>2. q \in Int /\ q * b \in Int /\ m % b \in 0..(b - 1) /\ m = q * b + (m % b)
  <2> HIDE DEF m
  <2> QED
    BY <1>1, DivMod
<1>3. e \in Int /\ e * b = d * b - q * b
  <2> HIDE DEF q
  <2> QED
    BY <1>2
<1>4. e * b = (m % b) - z
  <2> HIDE DEF q, e
  <2> QED
    BY <1>2, <1>3
<1>5. e * b < b /\ e * b > 0 - b
  BY <1>2, <1>4
<1> HIDE DEF e, m
<1>6. e * b = 0
  BY <1>3, <1>5, SmallMultiple
<1>7. m % b = z
  BY <1>2, <1>4, <1>6
<1> QED
  BY <1>7 DEF m

\* A number has the low word of what is left of it in 64 bits.
LEMMA LowWord ==
    ASSUME NEW v \in Nat
    PROVE  v % Modulus \in Nat /\ (v % Modulus) % Half = Low(v)
<1> DEFINE w == v % Modulus
           q == v \div Modulus
           p == w \div Half
           z == w % Half
<1>1. Half \in Nat /\ Half > 0 /\ Modulus \in Nat /\ Modulus > 0 /\ Modulus = Half * Half
  BY Numbers, NumberAssumption
<1>2. q \in Int /\ q * Modulus \in Int /\ w \in Nat /\ v = q * Modulus + w
  BY <1>1, DivMod
<1>3. p \in Int /\ p * Half \in Int /\ z \in 0..(Half - 1) /\ w = p * Half + z
  <2> HIDE DEF w
  <2> QED
    BY <1>1, <1>2, DivMod
<1> HIDE DEF q, p, z
<1>4. q * Modulus = (q * Half) * Half
  BY <1>1, <1>2
<1>5. (q * Half + p) * Half = (q * Half) * Half + p * Half
  BY <1>1, <1>2, <1>3
<1>6. v = (q * Half + p) * Half + z /\ q * Half + p \in Int
  <2> HIDE DEF w
  <2> QED
    BY <1>1, <1>2, <1>3, <1>4, <1>5
<1>7. v % Half = z
  BY <1>1, <1>3, <1>6, ModUnique
<1> QED
  BY <1>2, <1>7 DEF z, Low

\* A relocation that was applied is in the memory of the GPU.
LEMMA AppliedWords ==
    ASSUME RelocInv, at = "loaded", gpu = cells, NEW j \in DOMAIN relocs, j < i
    PROVE  \A x \in DOMAIN Written(relocs[j]) : Holds(x, Written(relocs[j])[x])
<1>1. \A x \in DOMAIN Words32(j) : x \in DOMAIN cells /\ cells[x] = Words32(j)[x]
  BY DEF RelocInv
<1> QED
  BY <1>1 DEF Words32, Holds

\* The words of each relocation, once all are applied.
LEMMA ResolvedAtEnd ==
    ASSUME LoaderInv, RelocInv, RelocsApart(image), at = "loaded"
    PROVE  RelocsResolved
<1> SUFFICES ASSUME NEW k \in DOMAIN image, NEW t \in DOMAIN image, NEW s \in DOMAIN image,
                    NEW r \in DOMAIN image[k].items,
                    image[k].type = "REL", t \in Placed, s \in Placed,
                    image[t].name = image[k].target, image[s].name = image[k].items[r].symbol
             PROVE  LET item == image[k].items[r]
                        to == (va + address[s] + item.value) % Modulus
                        from == address[t] + item.at
                    IN  /\ item.kind = "64" => Holds(from, to % Half) /\ Holds(from + 4, to \div Half)
                        /\ item.kind = "lo" => Holds(from + 4, to % Half)
                        /\ item.kind = "hi" => Holds(from + 4, to \div Half)
  BY DEF RelocsResolved
<1> DEFINE item == image[k].items[r]
           from == address[t] + item.at
           goal == address[s] + item.value
           e == [at |-> from, to |-> goal, kind |-> item.kind]
<1>1. /\ ImageOK /\ address \in Seq(Nat) /\ Len(address) = Len(image) /\ va \in Nat
      /\ image \in Seq(Section) /\ \A n \in DOMAIN image : Shaped(image[n])
      /\ i \in Nat /\ gpu = cells
      /\ relocs \in Seq([at : Nat, to : Nat, kind : {"64", "lo", "hi", "other"}])
  BY Pieces DEF LoaderInv, ImageOK
<1>2. image[k].items \in Seq(Relocation)
  BY <1>1 DEF Shaped
<1>3. item \in Relocation
  BY <1>2
<1>4. address[t] \in Nat /\ address[s] \in Nat
  <2>1. t \in 1..Len(address) /\ s \in 1..Len(address)
    BY <1>1
  <2> QED
    BY <1>1, <2>1
<1>5. AddressOf(image[k].target) = address[t] /\ AddressOf(item.symbol) = address[s]
  BY <1>1, NameFinds DEF Placed
<1>6. Entry(k, r) = e
  BY <1>5 DEF Entry, Relocs
<1>7. PICK j \in DOMAIN relocs : relocs[j] = e
  BY <1>6 DEF RelocInv
<1>8. item.at \in Nat /\ item.value \in Nat /\ item.kind \in {"64", "lo", "hi", "other"}
  BY <1>3 DEF Relocation
<1> HIDE DEF item
<1>9. from \in Nat /\ goal \in Nat
  BY <1>4, <1>8
<1> HIDE DEF e, from, goal
<1>10. j < i
  BY <1>1 DEF RelocInv
<1>11. \A x \in DOMAIN Written(e) : Holds(x, Written(e)[x])
  BY <1>1, <1>7, <1>10, AppliedWords
<1>12. ((va + goal) % Modulus) % Half = Low(va + goal)
  <2>1. \A v \in Nat : (v % Modulus) % Half = Low(v)
    BY LowWord
  <2>2. va + goal \in Nat
    <3>1. va \in Nat
      BY <1>1
    <3>2. \A a, b \in Nat : a + b \in Nat
      OBVIOUS
    <3> QED
      BY <1>9, <3>1, <3>2
  <2> DEFINE v == va + goal
  <2> HIDE DEF v
  <2>3. v \in Nat
    BY <2>2 DEF v
  <2>4. (v % Modulus) % Half = Low(v)
    BY <2>1, <2>3
  <2> QED
    BY <2>4 DEF v
<1>13. va + goal = va + address[s] + item.value
  <2>1. \A a, b, c \in Nat : a + (b + c) = a + b + c
    OBVIOUS
  <2>2. va \in Nat /\ address[s] \in Nat /\ item.value \in Nat
    BY <1>1, <1>4, <1>8
  <2> QED
    BY <2>1, <2>2 DEF goal
<1> DEFINE low == Low(va + goal)
           high == ((va + goal) % Modulus) \div Half
<1>14. Written(e) = CASE item.kind = "64" -> [x \in {from, from + 4} |-> IF x = from THEN low ELSE high]
                      [] item.kind = "lo" -> [x \in {from + 4} |-> low]
                      [] item.kind = "hi" -> [x \in {from + 4} |-> high]
                      [] OTHER -> <<>>
  BY DEF Written, e
<1>15. from # from + 4
  BY <1>9
<1>16. ((va + address[s] + item.value) % Modulus) % Half = low
       /\ ((va + address[s] + item.value) % Modulus) \div Half = high
  BY <1>12, <1>13
<1> HIDE DEF low, high
<1>17. /\ item.kind = "64" => Holds(from, low) /\ Holds(from + 4, high)
       /\ item.kind = "lo" => Holds(from + 4, low)
       /\ item.kind = "hi" => Holds(from + 4, high)
  BY <1>11, <1>14, <1>15
<1> QED
  BY <1>16, <1>17 DEF item, from

\* Each relocation of a loaded module put the address of its symbol at its
\* place, for every cubin whose relocations do not write over each other, in
\* whatever order the cubin lists its sections and whatever was allocated
\* (librecuda.cpp:1047-1113, 1353-1376).
THEOREM RelocationsResolve ==
    (\A img \in Images : WellPlaced(img) /\ RelocsApart(img)) => (Spec => []RelocsResolved)
<1> SUFFICES ASSUME \A img \in Images : WellPlaced(img) /\ RelocsApart(img)
             PROVE  Spec => []RelocsResolved
  OBVIOUS
<1>1. Init => PlacesInv /\ RelocInv
  BY DEF Init, PlacesInv, SectionsApart, Placed, RelocInv
<1>2. LoaderInv /\ PlacesInv /\ RelocInv /\ [Next]_vars => LoaderInv' /\ PlacesInv' /\ RelocInv'
  BY LoaderStep, PlacesStep, RelocStep
<1>3. LoaderInv /\ RelocInv => RelocsResolved
  <2>1. LoaderInv /\ at = "loaded" => RelocsApart(image)
    BY DEF LoaderInv, ImageOK
  <2> QED
    BY <2>1, ResolvedAtEnd DEF RelocsResolved
<1> QED
  BY <1>1, <1>2, <1>3, InitInv, PTL DEF Spec

-----------------------------------------------------------------------------
(* What the scan learns of functions.                                       *)

Bank(k) == [nr |-> image[k].nr, address |-> va + address[k], size |-> image[k].size]
ConstantsOf(f, n) ==
    {k \in DOMAIN image : k < n /\ image[k].role = "constant" /\ image[k].fn = f}

\* What is known of functions when the sections before n have been read.
Described(n, known) ==
    /\ \A f \in known.names : \E k \in DOMAIN image :
          k < n /\ image[k].role = "text" /\ image[k].fn = f /\ known.text[f].address = va + address[k]
    /\ \A f \in Names : LET list == known.constants[f] IN
          /\ {list[k] : k \in DOMAIN list} = {Bank(k) : k \in ConstantsOf(f, n)}
          /\ (\E k \in DOMAIN list : list[k].nr = 0) => list[1].nr = 0
    /\ \A k \in DOMAIN image : k < n /\ image[k].role = "stack" =>
          \A g \in Names : \A e \in Entries(image[k], g) : known.local[g] >= e.value + LocalBase

DescribedInv ==
    /\ at \in {"idle", "place"} => facts = NoFacts
    /\ at \in {"idle", "place", "scan"} => functions = <<>>
    /\ at = "scan" => \A n, known : n = i /\ known = facts => Described(n, known)
    /\ FunctionsDescribed

LEMMA SameDescribed ==
    ASSUME UNCHANGED <<image, address, va>>
    PROVE  \A n, known : Described(n, known) => Described(n, known)'
<1>1. \A k : Bank(k)' = Bank(k)
  BY DEF Bank
<1>2. \A f, n : ConstantsOf(f, n)' = ConstantsOf(f, n)
  BY DEF ConstantsOf
<1> QED
  BY <1>1, <1>2 DEF Described

LEMMA LearnDescribes ==
    ASSUME LoaderInv, at = "scan", i <= Len(image), Described(i, facts)
    PROVE  Described(i + 1, Learn(image[i]))
<1> DEFINE s == image[i]
           f == s.fn
           here == va + address[i]
           new == Learn(s)
<1>1. /\ s \in Section /\ Shaped(s) /\ i \in 1..Len(image) /\ image \in Seq(Section)
      /\ facts \in [names : SUBSET Functions,
               text : [Names -> [address : Nat, size : Nat]],
               shared : [Names -> Nat], local : [Names -> Nat],
               constants : [Names -> Seq(Constant)], params : [Names -> Seq(Param)],
               total : [Names -> Nat]]
  BY Here DEF LoaderInv, ImageOK, FactsOK
<1>2. here \in Nat
  BY Here, Pieces
<1>3. f \in Names /\ s.nr \in Nat /\ s.size \in Nat
      /\ s.role \in {"text", "constant", "shared", "stack", "info", "none"}
  BY <1>1 DEF Section, Names
<1>4. \A k \in DOMAIN image : k < i + 1 <=> k < i \/ k = i
  BY <1>1
<1>5. i \in DOMAIN image
  BY <1>1
<1>6. \A g : ConstantsOf(g, i + 1) =
         IF s.role = "constant" /\ g = f THEN ConstantsOf(g, i) \cup {i} ELSE ConstantsOf(g, i)
  BY <1>4, <1>5 DEF ConstantsOf
<1>7. /\ s.role # "text" => new.names = facts.names /\ new.text = facts.text
      /\ s.role # "constant" => new.constants = facts.constants
      /\ s.role # "stack" => new.local = facts.local
  <2> HIDE DEF s
  <2>1. CASE s.role = "text"
    BY <1>1, <2>1 DEF Learn, s
  <2>2. CASE s.role = "constant"
    BY <1>1, <2>2 DEF Learn, s
  <2>3. CASE s.role = "shared"
    BY <1>1, <2>3 DEF Learn, s
  <2>4. CASE s.role = "stack"
    BY <1>1, <2>4 DEF Learn, s
  <2>5. CASE s.role = "info"
    BY <1>1, <2>5 DEF Learn, s
  <2>6. CASE s.role = "none"
    BY <2>6 DEF Learn
  <2> QED
    BY <1>3, <2>1, <2>2, <2>3, <2>4, <2>5, <2>6
<1>8. \A g \in new.names : \E k \in DOMAIN image :
         k < i + 1 /\ image[k].role = "text" /\ image[k].fn = g /\ new.text[g].address = va + address[k]
  <2>1. \A g \in facts.names : \E k \in DOMAIN image :
           k < i /\ image[k].role = "text" /\ image[k].fn = g /\ facts.text[g].address = va + address[k]
    BY DEF Described
  <2>2. CASE s.role = "text"
    <3>1. /\ new.names = facts.names \cup {f}
          /\ new.text = [facts.text EXCEPT ![f] = [address |-> here, size |-> s.size]]
      BY <1>1, <2>2 DEF Learn
    <3>2. new.text[f].address = here
      BY <1>1, <1>3, <3>1
    <3>3. \A g \in facts.names : g # f => new.text[g] = facts.text[g]
      BY <1>1, <3>1 DEF Names
    <3> HIDE DEF new
    <3>4. ASSUME NEW g \in new.names, g # f
          PROVE  \E k \in DOMAIN image :
                   k < i + 1 /\ image[k].role = "text" /\ image[k].fn = g /\ new.text[g].address = va + address[k]
      BY <1>4, <2>1, <3>1, <3>3, <3>4
    <3>5. i < i + 1 /\ image[i].role = "text" /\ image[i].fn = f /\ new.text[f].address = va + address[i]
      BY <1>1, <2>2, <3>2
    <3> QED
      BY <1>5, <3>4, <3>5
  <2>3. CASE s.role # "text"
    <3> HIDE DEF new
    <3> QED
      BY <1>4, <1>7, <2>1, <2>3
  <2> QED
    BY <2>2, <2>3
<1>9. \A g \in Names : LET list == new.constants[g] IN
         /\ {list[k] : k \in DOMAIN list} = {Bank(k) : k \in ConstantsOf(g, i + 1)}
         /\ (\E k \in DOMAIN list : list[k].nr = 0) => list[1].nr = 0
  <2>1. \A g \in Names : LET list == facts.constants[g] IN
           /\ {list[k] : k \in DOMAIN list} = {Bank(k) : k \in ConstantsOf(g, i)}
           /\ (\E k \in DOMAIN list : list[k].nr = 0) => list[1].nr = 0
    BY DEF Described
  <2>2. CASE s.role = "constant"
    <3> DEFINE c == [nr |-> s.nr, address |-> here, size |-> s.size]
               old == facts.constants[f]
               list == AddConstant(old, c)
    <3>1. new.constants = [facts.constants EXCEPT ![f] = list]
      BY <1>1, <2>2 DEF Learn
    <3>2. c \in Constant /\ old \in Seq(Constant)
      BY <1>1, <1>2, <1>3 DEF Constant
    <3>3. /\ list \in Seq(Constant) /\ list # <<>>
          /\ {list[k] : k \in DOMAIN list} = {old[k] : k \in DOMAIN old} \cup {c}
          /\ list[1] = IF c.nr = 0 \/ old = <<>> THEN c ELSE old[1]
      <4> HIDE DEF c, old
      <4> QED
        BY <3>2, AddConstantIs
    <3>4. c = Bank(i)
      BY DEF Bank
    <3>5. new.constants[f] = list /\ \A g \in Names : g # f => new.constants[g] = facts.constants[g]
      BY <1>1, <1>3, <3>1
    <3> HIDE DEF c, list, new
    <3>6. {list[k] : k \in DOMAIN list} = {Bank(k) : k \in ConstantsOf(f, i + 1)}
      <4>1. {Bank(k) : k \in ConstantsOf(f, i) \cup {i}} = {Bank(k) : k \in ConstantsOf(f, i)} \cup {Bank(i)}
        OBVIOUS
      <4>2. {old[k] : k \in DOMAIN old} = {Bank(k) : k \in ConstantsOf(f, i)}
        BY <1>3, <2>1
      <4>3. ConstantsOf(f, i + 1) = ConstantsOf(f, i) \cup {i}
        BY <1>6, <2>2
      <4> QED
        BY <3>3, <3>4, <4>1, <4>2, <4>3
    <3>7. (\E k \in DOMAIN list : list[k].nr = 0) => list[1].nr = 0
      <4> SUFFICES ASSUME NEW k \in DOMAIN list, list[k].nr = 0 PROVE list[1].nr = 0
        OBVIOUS
      <4>1. list[k] \in {old[n] : n \in DOMAIN old} \cup {c}
        BY <3>3
      <4>2. CASE list[k] = c \/ old = <<>>
        <5>1. old = <<>> => DOMAIN old = {}
          BY <3>2
        <5> QED
          BY <3>3, <4>1, <4>2, <5>1
      <4>3. CASE list[k] # c /\ old # <<>>
        <5>1. PICK n \in DOMAIN old : list[k] = old[n]
          BY <4>1, <4>3
        <5>2. old[1].nr = 0
          BY <1>3, <2>1, <5>1
        <5> QED
          BY <3>3, <5>2
      <4> QED
        BY <4>2, <4>3
    <3>8. ASSUME NEW g \in Names, g # f
          PROVE  /\ {new.constants[g][k] : k \in DOMAIN new.constants[g]} = {Bank(k) : k \in ConstantsOf(g, i + 1)}
                 /\ (\E k \in DOMAIN new.constants[g] : new.constants[g][k].nr = 0) =>
                       new.constants[g][1].nr = 0
      <4>1. ConstantsOf(g, i + 1) = ConstantsOf(g, i) /\ new.constants[g] = facts.constants[g]
        BY <1>6, <3>5, <3>8
      <4> QED
        BY <2>1, <4>1
    <3> HIDE DEF f
    <3> QED
      BY <3>5, <3>6, <3>7, <3>8
  <2>3. CASE s.role # "constant"
    <3> HIDE DEF new
    <3> QED
      BY <1>6, <1>7, <2>1, <2>3
  <2> QED
    BY <2>2, <2>3
<1>10. \A k \in DOMAIN image : k < i + 1 /\ image[k].role = "stack" =>
          \A g \in Names : \A e \in Entries(image[k], g) : new.local[g] >= e.value + LocalBase
  <2>1. \A k \in DOMAIN image : k < i /\ image[k].role = "stack" =>
          \A g \in Names : \A e \in Entries(image[k], g) : facts.local[g] >= e.value + LocalBase
    BY DEF Described
  <2>2. CASE s.role = "stack"
    <3> DEFINE T(g) == {facts.local[g]} \cup {e.value + LocalBase : e \in Entries(s, g)}
    <3>1. new.local = [g \in Names |-> LargestOf(T(g))]
      BY <1>1, <2>2 DEF Learn
    <3>2. \A g \in Names : LargestOf(T(g)) \in Nat /\ \A m \in T(g) : m <= LargestOf(T(g))
      <4> SUFFICES ASSUME NEW g \in Names
                   PROVE  LargestOf(T(g)) \in Nat /\ \A m \in T(g) : m <= LargestOf(T(g))
        OBVIOUS
      <4>1. s.items \in Seq(Stack) /\ facts.local[g] \in Nat
        BY <1>1, <2>2 DEF Shaped
      <4> HIDE DEF s
      <4> QED
        BY <1>1, <4>1, LocalIs
    <3>3. \A g \in Names : \A m \in T(g) : new.local[g] >= m /\ new.local[g] \in Nat
      <4> HIDE DEF T, new
      <4>1. \A g \in Names : new.local[g] = LargestOf(T(g))
        BY <3>1
      <4> SUFFICES ASSUME NEW g \in Names, NEW m \in T(g)
                   PROVE  new.local[g] >= m /\ new.local[g] \in Nat
        OBVIOUS
      <4>2. m <= LargestOf(T(g)) /\ LargestOf(T(g)) \in Nat
        BY <3>2
      <4> QED
        BY <4>1, <4>2
    <3>4. \A g \in Names : new.local[g] >= facts.local[g] /\ new.local[g] \in Nat /\ facts.local[g] \in Nat
      BY <1>1, <3>3
    <3>5. ASSUME NEW k \in DOMAIN image, k < i, image[k].role = "stack",
                 NEW g \in Names, NEW e \in Entries(image[k], g)
          PROVE  new.local[g] >= e.value + LocalBase
      <4>1. facts.local[g] >= e.value + LocalBase
        BY <2>1, <3>5
      <4>2. image[k] \in Section /\ image[k].items \in Seq(Stack)
        BY <1>1, <3>5 DEF LoaderInv, ImageOK, Shaped
      <4>3. e \in Stack
        BY <4>2 DEF Entries
      <4>4. e.value \in Nat /\ LocalBase \in Nat
        BY <4>3, Numbers DEF Stack
      <4>5. new.local[g] >= facts.local[g] /\ new.local[g] \in Nat /\ facts.local[g] \in Nat
        BY <3>4
      <4> HIDE DEF new
      <4> QED
        BY <4>1, <4>4, <4>5
    <3>6. ASSUME NEW g \in Names, NEW e \in Entries(image[i], g)
          PROVE  new.local[g] >= e.value + LocalBase
      <4>1. e.value + LocalBase \in T(g)
        OBVIOUS
      <4> HIDE DEF T, new
      <4> QED
        BY <3>3, <4>1
    <3> HIDE DEF new
    <3> QED
      BY <1>4, <3>5, <3>6
  <2>3. CASE s.role # "stack"
    <3> HIDE DEF new
    <3> QED
      BY <1>4, <1>7, <2>1, <2>3
  <2> QED
    BY <2>2, <2>3
<1> HIDE DEF new
<1>11. Described(i + 1, new)
  BY <1>8, <1>9, <1>10 DEF Described
<1> QED
  BY <1>11 DEF new

LEMMA ScanDescribed ==
    ASSUME LoaderInv, DescribedInv, Scan
    PROVE  DescribedInv'
<1>1. /\ at = "scan" /\ at' \in {"scan", "failed"} /\ i' = i + 1 /\ i <= Len(image)
      /\ UNCHANGED <<image, address, va, functions>> /\ functions = <<>>
  BY DEF Scan, DescribedInv
<1>2. ASSUME at' = "scan", NEW n, NEW known, n = i', known = facts' PROVE Described(n, known)'
  <2>1. known = Learn(image[i]) /\ n = i + 1
    BY <1>1, <1>2 DEF Scan
  <2>2. Described(i, facts)
    BY <1>1 DEF DescribedInv
  <2>3. Described(n, known)
    BY <1>1, <2>1, <2>2, LearnDescribes
  <2> QED
    BY <1>1, <2>3, SameDescribed
<1>3. at' = "scan" => \A n, known : n = i' /\ known = facts' => Described(n, known)'
  BY <1>2
<1>4. FunctionsDescribed'
  BY <1>1 DEF FunctionsDescribed
<1> QED
  BY <1>1, <1>3, <1>4 DEF DescribedInv

\* The constants of a function and of none, one list after the other.
LEMMA AllConstantsIs ==
    ASSUME LoaderInv, NEW f \in Names
    PROVE  LET own == facts.constants[f]
               all == AllConstants(f)
           IN  /\ {all[k] : k \in DOMAIN all} =
                     IF own = <<>> THEN {}
                     ELSE {own[k] : k \in DOMAIN own}
                             \cup {facts.constants[NoFunction][k] : k \in DOMAIN facts.constants[NoFunction]}
               /\ own # <<>> => all[1] = own[1]
               /\ own \in Seq(Constant) /\ all \in Seq(Constant)
<1> DEFINE own == facts.constants[f]
           none == facts.constants[NoFunction]
<1>1. own \in Seq(Constant) /\ none \in Seq(Constant)
  BY DEF LoaderInv, FactsOK, Names
<1>2. AllConstants(f) = IF own = <<>> THEN <<>> ELSE own \o none
  BY DEF AllConstants
<1> DEFINE all == own \o none
<1> HIDE DEF own, none
<1>3. CASE own # <<>>
  <2>1. /\ all \in Seq(Constant) /\ Len(all) = Len(own) + Len(none)
        /\ \A k \in 1..Len(own) : all[k] = own[k]
        /\ \A k \in 1..Len(none) : all[Len(own) + k] = none[k]
    BY <1>1
  <2>2. 1 \in 1..Len(own)
    BY <1>1, <1>3
  <2>3. Len(own) \in Nat /\ Len(none) \in Nat
    BY <1>1
  <2> HIDE DEF all
  <2>dom. DOMAIN own = 1..Len(own) /\ DOMAIN none = 1..Len(none) /\ DOMAIN all = 1..(Len(own) + Len(none))
    BY <1>1, <2>1
  <2>4. /\ \A k \in DOMAIN own : k \in DOMAIN all /\ all[k] = own[k]
        /\ \A k \in DOMAIN none : Len(own) + k \in DOMAIN all /\ all[Len(own) + k] = none[k]
    BY <2>1, <2>3, <2>dom
  <2>5. \A k \in DOMAIN all : \/ k \in DOMAIN own
                              \/ k - Len(own) \in DOMAIN none /\ k = Len(own) + (k - Len(own))
    BY <1>1, <2>1, <2>3
  <2>6. {all[k] : k \in DOMAIN all} = {own[k] : k \in DOMAIN own} \cup {none[k] : k \in DOMAIN none}
    BY <2>4, <2>5
  <2>7. AllConstants(f) = all
    BY <1>2, <1>3 DEF all
  <2> QED
    BY <1>1, <1>3, <2>1, <2>2, <2>6, <2>7 DEF own, none
<1>4. CASE own = <<>>
  <2>1. AllConstants(f) = <<>> /\ DOMAIN <<>> = {} /\ <<>> \in Seq(Constant)
    BY <1>2, <1>4
  <2> QED
    BY <1>1, <1>4, <2>1 DEF own, none
<1> QED
  BY <1>3, <1>4

LEMMA FinishDescribed ==
    ASSUME LoaderInv, DescribedInv, Finish
    PROVE  DescribedInv'
<1>1. /\ at = "scan" /\ at' = "relocate" /\ i > Len(image) /\ i \in Nat
      /\ UNCHANGED <<image, address, va, facts>> /\ image \in Seq(Section)
      /\ facts.names \subseteq Functions
  BY Pieces DEF Finish, LoaderInv, ImageOK, TypeOK
<1>2. \A k \in DOMAIN image : k < i
  BY <1>1
<1>3. Described(i, facts)
  BY <1>1 DEF DescribedInv
<1>4. /\ DOMAIN functions' = facts.names
      /\ \A f \in facts.names :
            /\ functions'[f].text = facts.text[f] /\ functions'[f].local = facts.local[f]
            /\ functions'[f].constants = AllConstants(f)
  BY DEF Finish
<1>5. \A k : Bank(k)' = Bank(k)
  BY <1>1 DEF Bank
<1> DEFINE Of(role, f) == {k \in DOMAIN image : image[k].role = role /\ image[k].fn = f}
           Banks(ks) == {[nr |-> image[k].nr, address |-> va + address[k], size |-> image[k].size] : k \in ks}
<1>6. \A f : ConstantsOf(f, i) = Of("constant", f)
  BY <1>2 DEF ConstantsOf
<1>7. \A f \in Names : LET list == facts.constants[f] IN
         /\ {list[k] : k \in DOMAIN list} = Banks(Of("constant", f))
         /\ (\E k \in DOMAIN list : list[k].nr = 0) => list[1].nr = 0
  <2> SUFFICES ASSUME NEW f \in Names
               PROVE  LET list == facts.constants[f] IN
                        /\ {list[k] : k \in DOMAIN list} = Banks(Of("constant", f))
                        /\ (\E k \in DOMAIN list : list[k].nr = 0) => list[1].nr = 0
    OBVIOUS
  <2>1. {Bank(k) : k \in ConstantsOf(f, i)} = Banks(Of("constant", f))
    BY <1>6 DEF Bank
  <2> HIDE DEF Banks, Of
  <2> QED
    BY <1>3, <2>1 DEF Described
<1>8. ASSUME NEW f \in DOMAIN functions'
      PROVE  /\ \E k \in Of("text", f) : functions'[f].text.address = va + address[k]
             /\ LET list == functions'[f].constants
                    own == Banks(Of("constant", f))
                IN  /\ {list[k] : k \in DOMAIN list} =
                           IF own = {} THEN {} ELSE own \cup Banks(Of("constant", NoFunction))
                    /\ (\E c \in own : c.nr = 0) => list[1].nr = 0
             /\ \A k \in DOMAIN image : image[k].role = "stack" =>
                   \A e \in Entries(image[k], f) : functions'[f].local >= e.value + LocalBase
  <2>1. f \in facts.names /\ f \in Names /\ NoFunction \in Names
    BY <1>1, <1>4, <1>8 DEF Names
  <2>2. \E k \in Of("text", f) : functions'[f].text.address = va + address[k]
    BY <1>2, <1>3, <1>4, <2>1 DEF Described
  <2>3. \A k \in DOMAIN image : image[k].role = "stack" =>
           \A e \in Entries(image[k], f) : functions'[f].local >= e.value + LocalBase
    BY <1>2, <1>3, <1>4, <2>1 DEF Described
  <2> DEFINE list == functions'[f].constants
             mine == facts.constants[f]
             none == facts.constants[NoFunction]
             own == Banks(Of("constant", f))
             others == Banks(Of("constant", NoFunction))
  <2>4. {mine[k] : k \in DOMAIN mine} = own /\ {none[k] : k \in DOMAIN none} = others
    BY <1>7, <2>1
  <2>5. (\E k \in DOMAIN mine : mine[k].nr = 0) => mine[1].nr = 0
    BY <1>7, <2>1
  <2>6. list = AllConstants(f)
    BY <1>4, <2>1
  <2>7. /\ {list[k] : k \in DOMAIN list} =
              IF mine = <<>> THEN {} ELSE {mine[k] : k \in DOMAIN mine} \cup {none[k] : k \in DOMAIN none}
        /\ mine # <<>> => list[1] = mine[1]
        /\ mine \in Seq(Constant)
    <3>1. /\ {AllConstants(f)[k] : k \in DOMAIN AllConstants(f)} =
                IF mine = <<>> THEN {} ELSE {mine[k] : k \in DOMAIN mine} \cup {none[k] : k \in DOMAIN none}
          /\ mine # <<>> => AllConstants(f)[1] = mine[1]
          /\ mine \in Seq(Constant)
      BY <2>1, AllConstantsIs
    <3> HIDE DEF list, mine, none
    <3> QED
      BY <2>6, <3>1
  <2> HIDE DEF list, mine, none, own, others
  <2>8. mine = <<>> <=> own = {}
    <3>1. mine = <<>> => DOMAIN mine = {}
      BY <2>7
    <3>2. mine # <<>> => 1 \in DOMAIN mine
      BY <2>7
    <3> QED
      BY <2>4, <3>1, <3>2
  <2>9. {list[k] : k \in DOMAIN list} = IF own = {} THEN {} ELSE own \cup others
    BY <2>4, <2>7, <2>8
  <2>10. (\E c \in own : c.nr = 0) => list[1].nr = 0
    BY <2>4, <2>5, <2>7, <2>8
  <2> QED
    BY <2>2, <2>3, <2>9, <2>10 DEF list, own, others
<1>9. FunctionsDescribed'
  <2> HIDE DEF Banks, Of
  <2>1. \A f \in DOMAIN functions' :
             /\ \E k \in Of("text", f) : functions'[f].text.address = va + address[k]
             /\ LET list == functions'[f].constants
                    own == Banks(Of("constant", f))
                IN  /\ {list[k] : k \in DOMAIN list} =
                           IF own = {} THEN {} ELSE own \cup Banks(Of("constant", NoFunction))
                    /\ (\E c \in own : c.nr = 0) => list[1].nr = 0
             /\ \A k \in DOMAIN image : image[k].role = "stack" =>
                   \A e \in Entries(image[k], f) : functions'[f].local >= e.value + LocalBase
    BY <1>8
  <2> QED
    BY <1>1, <2>1, SMTT(60) DEF FunctionsDescribed, Banks, Of, Entries
<1> QED
  BY <1>1, <1>9 DEF DescribedInv

LEMMA DescribedStep ==
    ASSUME LoaderInv, DescribedInv, [Next]_vars
    PROVE  DescribedInv'
<1>1. ASSUME UNCHANGED <<image, address, va, functions, facts>>,
             \/ at' = at /\ i' = i
             \/ at \notin {"idle", "place", "scan"} /\ at' \notin {"idle", "place", "scan"}
      PROVE  DescribedInv'
  <2>1. FunctionsDescribed'
    <3>1. FunctionsDescribed
      BY DEF DescribedInv
    <3>2. UNCHANGED <<image, address, va, functions>>
      BY <1>1
    <3> QED
      BY <3>1, <3>2 DEF FunctionsDescribed
  <2>2. at' = "scan" => \A n, known : n = i' /\ known = facts' => Described(n, known)'
    <3> SUFFICES ASSUME at' = "scan", NEW n, NEW known, n = i', known = facts' PROVE Described(n, known)'
      OBVIOUS
    <3>1. at = "scan" /\ i' = i /\ facts' = facts /\ UNCHANGED <<image, address, va>>
      BY <1>1
    <3>2. Described(n, known)
      BY <3>1 DEF DescribedInv
    <3> QED
      BY <3>1, <3>2, SameDescribed
  <2> QED
    BY <1>1, <2>1, <2>2 DEF DescribedInv
<1>2. ASSUME at \in {"idle", "place"}, functions' = functions, facts' = facts,
             at' \in {"place", "failed"} \/ (at' = "scan" /\ i' = 1 /\ image' \in Seq(Section))
      PROVE  DescribedInv'
  <2>1. functions' = <<>> /\ DOMAIN <<>> = {} /\ facts' = NoFacts
    BY <1>2 DEF DescribedInv
  <2>2. FunctionsDescribed'
    BY <2>1 DEF FunctionsDescribed
  <2>3. at' = "scan" => \A n, known : n = i' /\ known = facts' => Described(n, known)'
    <3> SUFFICES ASSUME at' = "scan", NEW n, NEW known, n = i', known = facts' PROVE Described(n, known)'
      OBVIOUS
    <3>1. \A k \in DOMAIN image' : ~(k < n)
      BY <1>2
    <3>2. known.names = {} /\ \A f \in Names : known.constants[f] = <<>>
      BY <2>1 DEF NoFacts
    <3>3. \A f : ConstantsOf(f, n)' = {}
      BY <3>1 DEF ConstantsOf
    <3> QED
      BY <2>1, <3>1, <3>2, <3>3 DEF Described
  <2> QED
    BY <1>2, <2>1, <2>2, <2>3 DEF DescribedInv
<1>3. image \in Seq(Section)
  BY DEF LoaderInv, ImageOK
<1>4. ASSUME NEW img \in Images, LoadData(img) PROVE DescribedInv'
  BY <1>2, <1>4 DEF LoadData
<1>5. CASE PlaceSection
  BY <1>2, <1>5 DEF PlaceSection
<1>6. CASE Alloc
  BY <1>2, <1>3, <1>6 DEF Alloc
<1>7. CASE Scan
  BY <1>7, ScanDescribed
<1>8. CASE Finish
  BY <1>8, FinishDescribed
<1>9. CASE Relocate
  BY <1>1, <1>9 DEF Relocate
<1>10. CASE Upload
  BY <1>1, <1>10 DEF Upload
<1>11. ASSUME NEW f \in DOMAIN functions, Launch(f) PROVE DescribedInv'
  BY <1>1, <1>11 DEF Launch
<1>12. CASE UNCHANGED vars
  BY <1>1, <1>12 DEF vars
<1> QED
  BY <1>4, <1>5, <1>6, <1>7, <1>8, <1>9, <1>10, <1>11, <1>12 DEF Next

\* Every function of every cubin starts where its code lies, has its constants
\* and those of no function, bank 0 first, and the local memory of its largest
\* entry, in whatever order the sections come (librecuda.cpp:1117-1191,
\* 1316-1347).
THEOREM FunctionsAreDescribed == Spec => []FunctionsDescribed
<1>1. Init => DescribedInv
  BY DEF Init, DescribedInv, FunctionsDescribed
<1>2. LoaderInv /\ DescribedInv /\ [Next]_vars => LoaderInv' /\ DescribedInv'
  BY LoaderStep, DescribedStep
<1>3. DescribedInv => FunctionsDescribed
  BY DEF DescribedInv
<1> QED
  BY <1>1, <1>2, <1>3, InitInv, PTL DEF Spec

-----------------------------------------------------------------------------
(* Where arguments are written.                                             *)

\* Parameters as a compiler describes them, in any order: numbered from 0, from
\* offset 0, at increasing offsets within their total size.
Numbered(found, total) ==
    /\ total < Modulus
    /\ \A p \in DOMAIN found :
          /\ found[p].index < Len(found) /\ found[p].offset < total
          /\ found[p].index = 0 => found[p].offset = 0
    /\ \A n \in 0..(Len(found) - 1) : \E p \in DOMAIN found : found[p].index = n
    /\ \A p, q \in DOMAIN found :
          /\ p # q => found[p].index # found[q].index
          /\ found[p].index < found[q].index => found[p].offset < found[q].offset

LEMMA RankIs ==
    ASSUME NEW n \in Nat, NEW idx \in [1..n -> Nat],
           \A p, q \in 1..n : p # q => idx[p] # idx[q],
           \A v \in 0..(n - 1) : \E p \in 1..n : idx[p] = v,
           NEW v \in 0..n
    PROVE  Cardinality({q \in 1..n : idx[q] < v}) = v
<1> DEFINE B(m) == {q \in 1..n : idx[q] < m}
           S == {m \in Nat : m <= n => Cardinality(B(m)) = m}
<1>1. 0 \in S
  <2>1. \A q \in 1..n : ~(idx[q] < 0)
    OBVIOUS
  <2>2. B(0) = {}
    BY <2>1
  <2> QED
    BY <2>2, FS_EmptySet
<1>2. ASSUME NEW m \in Nat, m \in S PROVE m + 1 \in S
  <2> HIDE DEF B
  <2> SUFFICES ASSUME m + 1 <= n PROVE Cardinality(B(m + 1)) = m + 1
    OBVIOUS
  <2> USE DEF B
  <2>1. PICK p \in 1..n : idx[p] = m
    OBVIOUS
  <2>2. \A q \in 1..n : idx[q] < m + 1 <=> idx[q] < m \/ q = p
    <3> SUFFICES ASSUME NEW q \in 1..n PROVE idx[q] < m + 1 <=> idx[q] < m \/ q = p
      OBVIOUS
    <3>1. idx[q] \in Nat /\ (q # p => idx[q] # m)
      BY <2>1
    <3> QED
      BY <2>1, <3>1
  <2>3. B(m + 1) = B(m) \cup {p} /\ p \notin B(m)
    BY <2>1, <2>2
  <2>4. IsFiniteSet(1..n) /\ B(m) \subseteq 1..n
    BY FS_Interval
  <2>5. IsFiniteSet(B(m)) /\ Cardinality(B(m)) = m
    BY <1>2, <2>4, FS_Subset
  <2> HIDE DEF B, S
  <2> QED
    BY <2>3, <2>5, FS_AddElement
<1>3. v \in S
  <2>1. v \in Nat
    OBVIOUS
  <2> HIDE DEF S
  <2>2. Nat \subseteq S
    BY <1>1, <1>2, SetInduction
  <2> QED
    BY <2>1, <2>2
<1> QED
  BY <1>3

\* The parameter of index k - 1 comes k-th.
LEMMA OrderIs ==
    ASSUME NEW found \in Seq(Param), NEW total \in Nat, Numbered(found, total)
    PROVE  /\ DOMAIN InOrderOfIndex(found) = 1..Len(found)
           /\ \A p \in 1..Len(found) :
                 found[p].index + 1 \in 1..Len(found) /\ InOrderOfIndex(found)[found[p].index + 1] = found[p]
           /\ \A k \in 1..Len(found) : \E p \in 1..Len(found) :
                 found[p].index = k - 1 /\ InOrderOfIndex(found)[k] = found[p]
<1> DEFINE n == Len(found)
           idx == [p \in 1..n |-> found[p].index]
           T(p) == {q \in DOMAIN found : found[q].index < found[p].index}
<1>1. n \in Nat /\ DOMAIN found = 1..n
  OBVIOUS
<1>2. \A p \in 1..n : found[p].index \in Nat /\ found[p].offset \in Nat
  <2>1. \A x \in Param : x.index \in Nat /\ x.offset \in Nat
    BY DEF Param
  <2>2. \A p \in 1..n : found[p] \in Param
    OBVIOUS
  <2> QED
    BY <2>1, <2>2
<1>3. idx \in [1..n -> Nat]
  BY <1>2
<1>4. \A p, q \in 1..n : p # q => idx[p] # idx[q]
  BY <1>1 DEF Numbered
<1>5. \A v \in 0..(n - 1) : \E p \in 1..n : idx[p] = v
  BY <1>1 DEF Numbered
<1>6. \A p \in 1..n : found[p].index \in 0..(n - 1)
  BY <1>1, <1>2 DEF Numbered
<1>7. \A p \in 1..n : Cardinality(T(p)) = found[p].index
  <2> SUFFICES ASSUME NEW p \in 1..n PROVE Cardinality(T(p)) = found[p].index
    OBVIOUS
  <2>1. found[p].index \in 0..n
    BY <1>1, <1>6
  <2>2. T(p) = {q \in 1..n : idx[q] < found[p].index}
    BY <1>1
  <2> HIDE DEF T, idx, n
  <2> QED
    BY <1>1, <1>3, <1>4, <1>5, <2>1, <2>2, RankIs
<1>8. InOrderOfIndex(found) = [k \in 1..n |-> found[CHOOSE p \in 1..n : Cardinality(T(p)) = k - 1]]
  BY <1>1 DEF InOrderOfIndex
<1> HIDE DEF T
<1>9. \A k \in 1..n : \E p \in 1..n : found[p].index = k - 1 /\ InOrderOfIndex(found)[k] = found[p]
  <2> SUFFICES ASSUME NEW k \in 1..n
               PROVE  \E p \in 1..n : found[p].index = k - 1 /\ InOrderOfIndex(found)[k] = found[p]
    OBVIOUS
  <2>1. k - 1 \in 0..(n - 1)
    BY <1>1
  <2>2. \E p \in 1..n : Cardinality(T(p)) = k - 1
    BY <1>5, <1>7, <2>1
  <2> DEFINE c == CHOOSE p \in 1..n : Cardinality(T(p)) = k - 1
  <2>3. c \in 1..n /\ Cardinality(T(c)) = k - 1
    BY <2>2
  <2>4. InOrderOfIndex(found)[k] = found[c]
    BY <1>8
  <2> HIDE DEF c
  <2> QED
    BY <1>7, <2>3, <2>4
<1>10. ASSUME NEW p \in 1..n
       PROVE  found[p].index + 1 \in 1..n /\ InOrderOfIndex(found)[found[p].index + 1] = found[p]
  <2>1. found[p].index + 1 \in 1..n
    BY <1>1, <1>6
  <2> DEFINE k == found[p].index + 1
  <2>2. PICK q \in 1..n : found[q].index = k - 1 /\ InOrderOfIndex(found)[k] = found[q]
    <3> HIDE DEF k
    <3> QED
      BY <1>9, <2>1 DEF k
  <2>3. found[q].index = found[p].index
    BY <1>2, <2>2
  <2>4. q = p
    BY <1>1, <2>3 DEF Numbered
  <2> QED
    BY <2>1, <2>2, <2>4
<1>11. DOMAIN InOrderOfIndex(found) = 1..n
  BY <1>8
<1> QED
  BY <1>9, <1>10, <1>11

\* Parameters in their order, each reaching to the next one.
LEMMA SizedIs ==
    ASSUME NEW found \in Seq(Param), NEW total \in Nat, Numbered(found, total)
    PROVE  LET n == Len(found)
               s == Sized(InOrderOfIndex(found), total)
           IN  /\ s \in Seq([offset : Nat, size : Nat]) /\ Len(s) = n
               /\ \A p \in 1..n : found[p].index + 1 \in 1..n /\ s[found[p].index + 1].offset = found[p].offset
               /\ \A k \in 1..n : \E p \in 1..n : s[k].offset = found[p].offset
               /\ n > 0 => s[1].offset = 0 /\ s[n].size = total - s[n].offset /\ s[n].size > 0
               /\ \A k \in 1..(n - 1) : s[k].size = s[k + 1].offset - s[k].offset /\ s[k].size > 0
<1> DEFINE n == Len(found)
           o == InOrderOfIndex(found)
           s == Sized(o, total)
           end(k) == IF k < n THEN o[k + 1].offset ELSE total
<1>1. n \in Nat /\ DOMAIN found = 1..n /\ \A p \in 1..n : found[p] \in Param
  OBVIOUS
<1>2. /\ DOMAIN o = 1..n
      /\ \A p \in 1..n : found[p].index + 1 \in 1..n /\ o[found[p].index + 1] = found[p]
      /\ \A k \in 1..n : \E p \in 1..n : found[p].index = k - 1 /\ o[k] = found[p]
  BY OrderIs
<1> HIDE DEF o
<1>3. \A p \in 1..n : found[p].offset \in Nat /\ found[p].index \in Nat /\ found[p].offset < total
  BY <1>1 DEF Param, Numbered
<1>4. \A k \in 1..n : o[k] \in Param /\ o[k].offset \in Nat /\ o[k].offset < total
  BY <1>1, <1>2, <1>3
<1>5. \A k \in 1..(n - 1) : o[k].offset < o[k + 1].offset
  <2> SUFFICES ASSUME NEW k \in 1..(n - 1) PROVE o[k].offset < o[k + 1].offset
    OBVIOUS
  <2>1. k \in 1..n /\ k + 1 \in 1..n
    BY <1>1
  <2>2. PICK p \in 1..n : found[p].index = k - 1 /\ o[k] = found[p]
    BY <1>2, <2>1
  <2> DEFINE m == k + 1
  <2>3. PICK q \in 1..n : found[q].index = m - 1 /\ o[m] = found[q]
    <3>1. m \in 1..n
      BY <2>1
    <3> HIDE DEF m
    <3> QED
      BY <1>2, <3>1
  <2>4. found[p].index < found[q].index
    BY <2>1, <2>2, <2>3
  <2> QED
    BY <1>1, <2>2, <2>3, <2>4 DEF Numbered
<1>6. Len(o) = n
  <2>1. o = [k \in 1..n |-> o[k]]
    BY <1>2 DEF o, InOrderOfIndex
  <2>2. o \in Seq(Param)
    BY <1>1, <1>4, <2>1
  <2> QED
    BY <1>1, <1>2, <2>2
<1>7. s = [k \in 1..n |-> [offset |-> o[k].offset, size |-> (end(k) + Modulus - o[k].offset) % Modulus]]
  BY <1>2, <1>6 DEF Sized
<1>8. \A k \in 1..n : /\ end(k) \in Nat /\ end(k) <= total /\ end(k) > o[k].offset
                      /\ (end(k) + Modulus - o[k].offset) % Modulus = end(k) - o[k].offset
  <2> SUFFICES ASSUME NEW k \in 1..n
               PROVE  /\ end(k) \in Nat /\ end(k) <= total /\ end(k) > o[k].offset
                      /\ (end(k) + Modulus - o[k].offset) % Modulus = end(k) - o[k].offset
    OBVIOUS
  <2>1. end(k) \in Nat /\ end(k) <= total /\ end(k) > o[k].offset
    <3>1. CASE k < n
      <4>1. k \in 1..(n - 1) /\ k + 1 \in 1..n
        BY <1>1, <3>1
      <4> QED
        BY <1>4, <1>5, <3>1, <4>1
    <3>2. CASE ~(k < n)
      BY <1>4, <3>2
    <3> QED
      BY <3>1, <3>2
  <2> DEFINE z == end(k) - o[k].offset
  <2>2. z \in 0..(Modulus - 1) /\ o[k].offset \in Nat /\ Modulus \in Nat /\ Modulus > 0
    BY <1>4, <2>1, Numbers DEF Numbered
  <2>3. end(k) + Modulus - o[k].offset = 1 * Modulus + z
    BY <2>1, <2>2
  <2> HIDE DEF z, end
  <2>4. (1 * Modulus + z) % Modulus = z
    BY <2>2, ModUnique
  <2> QED
    BY <2>1, <2>3, <2>4 DEF z
<1>9. \A k \in 1..n : s[k].offset = o[k].offset /\ s[k].size = end(k) - o[k].offset /\ s[k].size > 0
                      /\ s[k] \in [offset : Nat, size : Nat]
  <2> SUFFICES ASSUME NEW k \in 1..n
               PROVE  s[k].offset = o[k].offset /\ s[k].size = end(k) - o[k].offset /\ s[k].size > 0
                      /\ s[k] \in [offset : Nat, size : Nat]
    OBVIOUS
  <2>1. s[k] = [offset |-> o[k].offset, size |-> end(k) - o[k].offset]
    BY <1>7, <1>8
  <2>2. o[k].offset \in Nat /\ end(k) - o[k].offset \in Nat /\ end(k) - o[k].offset > 0
    BY <1>4, <1>8
  <2> HIDE DEF end, s
  <2> QED
    BY <2>1, <2>2
<1>10. s \in Seq([offset : Nat, size : Nat]) /\ Len(s) = n
  <2>1. s = [k \in 1..n |-> s[k]]
    BY <1>7
  <2> HIDE DEF s
  <2> QED
    BY <1>1, <1>9, <2>1
<1>11. n > 0 => s[1].offset = 0 /\ s[n].size = total - s[n].offset /\ s[n].size > 0
  <2> SUFFICES ASSUME n > 0 PROVE s[1].offset = 0 /\ s[n].size = total - s[n].offset /\ s[n].size > 0
    OBVIOUS
  <2>1. 1 \in 1..n /\ n \in 1..n /\ ~(n < n)
    BY <1>1
  <2>2. PICK p \in 1..n : found[p].index = 1 - 1 /\ o[1] = found[p]
    BY <1>2, <2>1
  <2>3. o[1].offset = 0
    BY <1>1, <2>2 DEF Numbered
  <2> HIDE DEF s
  <2> QED
    BY <1>9, <2>1, <2>3
<1>12. \A k \in 1..(n - 1) : s[k].size = s[k + 1].offset - s[k].offset /\ s[k].size > 0
  <2> SUFFICES ASSUME NEW k \in 1..(n - 1)
               PROVE  s[k].size = s[k + 1].offset - s[k].offset /\ s[k].size > 0
    OBVIOUS
  <2>1. k \in 1..n /\ k + 1 \in 1..n /\ k < n
    BY <1>1
  <2> HIDE DEF s
  <2> QED
    BY <1>9, <2>1
<1>13. /\ \A p \in 1..n : found[p].index + 1 \in 1..n /\ s[found[p].index + 1].offset = found[p].offset
       /\ \A k \in 1..n : \E p \in 1..n : s[k].offset = found[p].offset
  <2> HIDE DEF s, n, end
  <2>1. \A k \in 1..n : s[k].offset = o[k].offset
    BY <1>9
  <2>2. \A p \in 1..n : found[p].index + 1 \in 1..n /\ o[found[p].index + 1] = found[p]
    BY <1>2
  <2>3. \A k \in 1..n : \E p \in 1..n : o[k] = found[p]
    BY <1>2
  <2>4. \A k \in 1..n : \E p \in 1..n : s[k].offset = found[p].offset
    BY <2>1, <2>3
  <2> QED
    BY <2>1, <2>2, <2>4
<1> HIDE DEF s
<1>14. /\ s \in Seq([offset : Nat, size : Nat]) /\ Len(s) = n
       /\ \A p \in 1..n : found[p].index + 1 \in 1..n /\ s[found[p].index + 1].offset = found[p].offset
       /\ \A k \in 1..n : \E p \in 1..n : s[k].offset = found[p].offset
       /\ n > 0 => s[1].offset = 0 /\ s[n].size = total - s[n].offset /\ s[n].size > 0
       /\ \A k \in 1..(n - 1) : s[k].size = s[k + 1].offset - s[k].offset /\ s[k].size > 0
  BY <1>10, <1>11, <1>12, <1>13
<1> QED
  BY <1>14 DEF s, o

\* Parameters that follow each other on words, and that can be written.
Laid(s) ==
    /\ s \in Seq([offset : Nat, size : Nat])
    /\ Len(s) > 0 => s[1].offset = 0
    /\ \A k \in 1..Len(s) : s[k].offset % 4 = 0 /\ s[k].size > 0 /\ Encodable(s[k])
    /\ \A k \in 1..(Len(s) - 1) : s[k].size = s[k + 1].offset - s[k].offset

LEMMA WordsAre ==
    ASSUME NEW s, Laid(s), NEW k \in 1..Len(s)
    PROVE  /\ s[k].offset \in Nat /\ s[k].offset % 4 = 0 /\ s[k].offset \div 4 \in Nat
           /\ 4 * (s[k].offset \div 4) = s[k].offset
           /\ s[k].size \in Nat /\ Words(s[k]) \in Nat /\ Words(s[k]) > 0
           /\ k < Len(s) => /\ s[k].size = s[k + 1].offset - s[k].offset
                            /\ s[k + 1].offset \in Nat /\ s[k + 1].offset % 4 = 0
                            /\ 4 * Words(s[k]) = s[k].size
           /\ s[k].size \notin {1, 2} => 4 * Words(s[k]) = s[k].size
<1>1. \A m \in 1..Len(s) : s[m].offset \in Nat /\ s[m].size \in Nat
  <2> DEFINE R == [offset : Nat, size : Nat]
  <2>1. s \in Seq(R)
    BY DEF Laid
  <2>2. \A x \in R : x.offset \in Nat /\ x.size \in Nat
    OBVIOUS
  <2> HIDE DEF R
  <2>3. \A m \in 1..Len(s) : s[m] \in R
    BY <2>1
  <2> QED
    BY <2>2, <2>3
<1>2. s[k].offset % 4 = 0 /\ s[k].size > 0 /\ (s[k].size \in {1, 2} \/ s[k].size % 4 = 0)
  BY DEF Laid, Encodable
<1>3. k < Len(s) => /\ s[k].size = s[k + 1].offset - s[k].offset
                    /\ s[k + 1].offset \in Nat /\ s[k + 1].offset % 4 = 0
  <2> SUFFICES ASSUME k < Len(s)
               PROVE  /\ s[k].size = s[k + 1].offset - s[k].offset
                      /\ s[k + 1].offset \in Nat /\ s[k + 1].offset % 4 = 0
    OBVIOUS
  <2>1. k \in 1..(Len(s) - 1) /\ k + 1 \in 1..Len(s)
    BY DEF Laid
  <2> QED
    BY <1>1, <2>1 DEF Laid
<1> DEFINE a == s[k].offset
           b == s[k].size
           c == s[k + 1].offset
<1>4. a \in Nat /\ b \in Nat
  BY <1>1
<1>5. Words(s[k]) = IF b \in {1, 2} THEN 1 ELSE b \div 4
  BY DEF Words
<1> HIDE DEF a, b, c
<1>6. a % 4 = 0 /\ b > 0 /\ (b \in {1, 2} \/ b % 4 = 0)
  BY <1>2 DEF a, b
<1>7. k < Len(s) => b = c - a /\ c \in Nat /\ c % 4 = 0
  BY <1>3 DEF a, b, c
<1>8. a \div 4 \in Nat /\ 4 * (a \div 4) = a
  BY <1>4, <1>6
<1>9. b \notin {1, 2} => b \div 4 \in Nat /\ b \div 4 > 0 /\ 4 * (b \div 4) = b
  BY <1>4, <1>6
<1>10. k < Len(s) => b \notin {1, 2}
  BY <1>4, <1>6, <1>7
<1> QED
  BY <1>1, <1>2, <1>3, <1>5, <1>8, <1>9, <1>10 DEF a, b

LEMMA FirstWordIs ==
    ASSUME NEW s, Laid(s)
    PROVE  LET F == FirstWord(s)
               n == Len(s)
           IN  /\ n \in Nat /\ F[1] = 0 /\ \A k \in 1..(n + 1) : F[k] \in Nat
               /\ \A k \in 1..n : 4 * F[k] = s[k].offset /\ F[k + 1] = F[k] + Words(s[k])
<1> DEFINE n == Len(s)
           Unrolled(g) == [k \in 1..(n + 1) |-> IF k = 1 THEN 0 ELSE g[k - 1] + Words(s[k - 1])]
           G == [k \in 1..(n + 1) |-> IF k <= n THEN s[k].offset \div 4
                                      ELSE IF n = 0 THEN 0 ELSE (s[n].offset \div 4) + Words(s[n])]
           F == FirstWord(s)
<1>1. n \in Nat
  BY DEF Laid
<1>2. \A k \in 1..(n + 1) : k = 1 => G[k] = 0
  <2>1. n > 0 => s[1].offset = 0
    BY DEF Laid
  <2> QED
    BY <1>1, <2>1
<1>3. ASSUME NEW k \in 1..(n + 1), k # 1 PROVE G[k] = G[k - 1] + Words(s[k - 1])
  <2> DEFINE m == k - 1
  <2>1. m \in 1..n /\ k = m + 1
    BY <1>1, <1>3
  <2>2. /\ s[m].offset \in Nat /\ s[m].offset \div 4 \in Nat /\ 4 * (s[m].offset \div 4) = s[m].offset
        /\ Words(s[m]) \in Nat
        /\ m < n => /\ s[m].size = s[m + 1].offset - s[m].offset
                    /\ s[m + 1].offset \in Nat /\ 4 * Words(s[m]) = s[m].size
    BY <2>1, WordsAre
  <2>3. m < n => s[m + 1].offset \div 4 = (s[m].offset \div 4) + Words(s[m])
    <3> SUFFICES ASSUME m < n PROVE s[m + 1].offset \div 4 = (s[m].offset \div 4) + Words(s[m])
      OBVIOUS
    <3> DEFINE x == s[m].offset \div 4
               w == Words(s[m])
               y == s[m + 1].offset
    <3>1. x \in Nat /\ w \in Nat /\ y \in Nat /\ y = 4 * x + 4 * w
      BY <2>2
    <3> HIDE DEF x, w, y
    <3>2. y \div 4 = x + w
      BY <3>1
    <3> QED
      BY <3>2 DEF x, w, y
  <2>4. G[m] = s[m].offset \div 4
    BY <1>1, <2>1
  <2>5. G[k] = (s[m].offset \div 4) + Words(s[m])
    <3>1. CASE m < n
      BY <1>1, <2>1, <2>3, <3>1
    <3>2. CASE m = n
      BY <1>1, <2>1, <3>2
    <3> QED
      BY <1>1, <2>1, <3>1, <3>2
  <2> QED
    BY <2>4, <2>5
<1>4. G = Unrolled(G)
  <2>1. \A k \in 1..(n + 1) : G[k] = Unrolled(G)[k]
    BY <1>2, <1>3
  <2>2. G = [k \in 1..(n + 1) |-> G[k]] /\ Unrolled(G) = [k \in 1..(n + 1) |-> Unrolled(G)[k]]
    OBVIOUS
  <2> HIDE DEF G, Unrolled
  <2> QED
    BY <2>1, <2>2
<1>5. F = CHOOSE g : g = Unrolled(g)
  BY DEF FirstWord
<1>6. F = Unrolled(F)
  <2> HIDE DEF G, F, Unrolled
  <2> QED
    BY <1>4, <1>5
<1> HIDE DEF F, G
<1>7. F[1] = 0 /\ \A k \in 1..n : F[k + 1] = F[k] + Words(s[k])
  <2>1. \A k \in 1..(n + 1) : F[k] = IF k = 1 THEN 0 ELSE F[k - 1] + Words(s[k - 1])
    BY <1>6
  <2> HIDE DEF Unrolled
  <2>2. 1 \in 1..(n + 1)
    BY <1>1
  <2>3. ASSUME NEW k \in 1..n PROVE F[k + 1] = F[k] + Words(s[k])
    <3> DEFINE m == k + 1
    <3>1. m \in 1..(n + 1) /\ m # 1 /\ m - 1 = k
      BY <1>1
    <3> HIDE DEF m
    <3>2. F[m] = F[k] + Words(s[k])
      BY <2>1, <3>1
    <3> QED
      BY <3>2 DEF m
  <2> QED
    BY <2>1, <2>2, <2>3
<1> HIDE DEF Unrolled
<1> DEFINE T == {k \in Nat : k + 1 <= n => F[k + 1] \in Nat /\ 4 * F[k + 1] = s[k + 1].offset}
<1>8. 0 \in T
  <2>1. n > 0 => s[1].offset = 0
    BY DEF Laid
  <2> QED
    BY <1>7, <2>1
<1>9. ASSUME NEW k \in Nat, k \in T PROVE k + 1 \in T
  <2> SUFFICES ASSUME k + 1 + 1 <= n
               PROVE  F[k + 1 + 1] \in Nat /\ 4 * F[k + 1 + 1] = s[k + 1 + 1].offset
    OBVIOUS
  <2> DEFINE m == k + 1
  <2>1. m \in 1..n /\ m < n
    BY <1>1
  <2>2. F[m] \in Nat /\ 4 * F[m] = s[m].offset
    BY <1>9, <2>1
  <2> HIDE DEF m
  <2>3. /\ Words(s[m]) \in Nat /\ s[m].offset \in Nat /\ s[m + 1].offset \in Nat
        /\ s[m].size = s[m + 1].offset - s[m].offset /\ 4 * Words(s[m]) = s[m].size
    BY <2>1, WordsAre
  <2>4. F[m + 1] = F[m] + Words(s[m])
    BY <1>7, <2>1
  <2>5. F[m + 1] \in Nat /\ 4 * F[m + 1] = s[m + 1].offset
    BY <2>2, <2>3, <2>4
  <2> QED
    BY <2>5 DEF m
<1>10. Nat \subseteq T
  <2> HIDE DEF T
  <2> QED
    BY <1>8, <1>9, SetInduction
<1>11. ASSUME NEW k \in 1..n PROVE F[k] \in Nat /\ 4 * F[k] = s[k].offset
  <2> DEFINE m == k - 1
  <2>1. m \in Nat /\ m + 1 = k /\ m + 1 <= n
    BY <1>1
  <2>2. m \in T
    <3> HIDE DEF T, m
    <3> QED
      BY <1>10, <2>1
  <2> QED
    BY <2>1, <2>2
<1>12. F[n + 1] \in Nat
  <2>1. CASE n = 0
    BY <1>7, <2>1
  <2>2. CASE n # 0
    <3>1. n \in 1..n
      BY <1>1, <2>2
    <3>2. Words(s[n]) \in Nat
      BY <3>1, WordsAre
    <3> QED
      BY <1>7, <1>11, <3>1, <3>2
  <2> QED
    BY <2>1, <2>2
<1>13. \A k \in 1..(n + 1) : F[k] \in Nat
  <2>1. \A k \in 1..(n + 1) : k \in 1..n \/ k = n + 1
    BY <1>1
  <2> QED
    BY <1>11, <1>12, <2>1
<1> HIDE DEF T
<1> QED
  BY <1>1, <1>7, <1>11, <1>13 DEF F

\* Every word of the page belongs to one parameter.
LEMMA MarshalledIs ==
    ASSUME NEW s, Laid(s)
    PROVE  LET F == FirstWord(s)
               n == Len(s)
               page == Marshalled(s)
           IN  /\ DOMAIN page = {4 * w : w \in 0..(F[n + 1] - 1)}
               /\ \A k \in 1..n : \A w \in F[k]..(F[k + 1] - 1) :
                     w \in 0..(F[n + 1] - 1) /\ 4 * w \in DOMAIN page /\ page[4 * w] = <<k, w - F[k]>>
               /\ \A w \in 0..(F[n + 1] - 1) : \E k \in 1..n : w \in F[k]..(F[k + 1] - 1)
<1> DEFINE n == Len(s)
           F == FirstWord(s)
           page == Marshalled(s)
<1>1. /\ n \in Nat /\ F[1] = 0 /\ \A k \in 1..(n + 1) : F[k] \in Nat
      /\ \A k \in 1..n : F[k + 1] = F[k] + Words(s[k])
  BY FirstWordIs
<1>2. \A k \in 1..n : F[k] < F[k + 1]
  <2> SUFFICES ASSUME NEW k \in 1..n PROVE F[k] < F[k + 1]
    OBVIOUS
  <2>1. Words(s[k]) \in Nat /\ Words(s[k]) > 0
    BY WordsAre
  <2>2. k \in 1..(n + 1) /\ F[k] \in Nat
    BY <1>1
  <2> HIDE DEF F
  <2> QED
    BY <1>1, <2>1, <2>2
<1>3. DOMAIN s = 1..n
  BY DEF Laid
<1>4. page = [x \in {4 * w : w \in 0..(F[n + 1] - 1)} |->
                 LET p == CHOOSE k \in DOMAIN s : 4 * F[k] <= x /\ x < 4 * F[k + 1]
                 IN  <<p, x \div 4 - F[p]>>]
  BY DEF Marshalled
<1> HIDE DEF F, page
<1> DEFINE T == {m \in Nat : m <= n => \A k \in 1..m : F[k] < F[m + 1]}
<1>5. Nat \subseteq T
  <2>1. 0 \in T
    OBVIOUS
  <2>2. ASSUME NEW m \in Nat, m \in T PROVE m + 1 \in T
    <3> SUFFICES ASSUME m + 1 <= n, NEW k \in 1..(m + 1) PROVE F[k] < F[m + 1 + 1]
      OBVIOUS
    <3>1. m + 1 \in 1..n /\ k \in 1..(n + 1) /\ m + 1 \in 1..(n + 1) /\ m + 1 + 1 \in 1..(n + 1)
      BY <1>1
    <3>2. F[m + 1] < F[m + 1 + 1]
      BY <1>2, <3>1
    <3>3. k = m + 1 \/ F[k] < F[m + 1]
      BY <1>1, <2>2
    <3>4. F[k] \in Nat /\ F[m + 1] \in Nat /\ F[m + 1 + 1] \in Nat
      BY <1>1, <3>1
    <3> QED
      BY <3>2, <3>3, <3>4
  <2> HIDE DEF T
  <2> QED
    BY <2>1, <2>2, SetInduction
<1>6. \A k, m \in 1..(n + 1) : k < m => F[k] < F[m]
  <2> SUFFICES ASSUME NEW k \in 1..(n + 1), NEW m \in 1..(n + 1), k < m PROVE F[k] < F[m]
    OBVIOUS
  <2> DEFINE l == m - 1
  <2>1. l \in Nat /\ l <= n /\ k \in 1..l /\ m = l + 1
    BY <1>1
  <2>2. l \in T
    <3> HIDE DEF T, l
    <3> QED
      BY <1>5, <2>1
  <2> HIDE DEF l
  <2> QED
    BY <2>1, <2>2
<1> HIDE DEF T
<1>7. \A k \in 1..n : k \in 1..(n + 1) /\ k + 1 \in 1..(n + 1) /\ F[k] \in Nat /\ F[k + 1] \in Nat
  BY <1>1
<1>8. F[n + 1] \in Nat /\ n + 1 \in 1..(n + 1)
  BY <1>1
<1>9. \A k \in 1..n : F[k + 1] <= F[n + 1]
  <2> SUFFICES ASSUME NEW k \in 1..n PROVE F[k + 1] <= F[n + 1]
    OBVIOUS
  <2>1. k + 1 = n + 1 \/ k + 1 < n + 1
    BY <1>1
  <2> QED
    BY <1>6, <1>7, <1>8, <2>1
<1>10. ASSUME NEW k \in 1..n, NEW w \in F[k]..(F[k + 1] - 1)
       PROVE  w \in 0..(F[n + 1] - 1) /\ 4 * w \in DOMAIN page /\ page[4 * w] = <<k, w - F[k]>>
  <2>1. F[k] \in Nat /\ F[k + 1] \in Nat /\ F[k + 1] <= F[n + 1]
    BY <1>7, <1>9
  <2>2. w \in 0..(F[n + 1] - 1) /\ w \in Nat
    BY <1>8, <2>1
  <2>3. 4 * w \in DOMAIN page
    BY <1>4, <2>2
  <2> DEFINE fits(m) == 4 * F[m] <= 4 * w /\ 4 * w < 4 * F[m + 1]
             p == CHOOSE m \in DOMAIN s : fits(m)
  <2>4. k \in DOMAIN s /\ fits(k)
    BY <1>3, <2>1, <2>2
  <2>5. p \in DOMAIN s /\ fits(p)
    <3> HIDE DEF fits
    <3> QED
      BY <2>4
  <2>6. page[4 * w] = <<p, (4 * w) \div 4 - F[p]>>
    BY <1>4, <2>2
  <2>7. (4 * w) \div 4 = w
    BY <2>2
  <2> HIDE DEF p
  <2>8. p \in 1..n /\ F[p] \in Nat /\ F[p + 1] \in Nat /\ F[p] <= w /\ w < F[p + 1]
    BY <1>3, <1>7, <2>2, <2>5
  <2>9. p = k
    <3>1. p + 1 <= k => F[p + 1] <= F[k]
      <4>1. p + 1 = k \/ ~(p + 1 <= k) \/ p + 1 < k
        BY <1>1, <2>8
      <4> QED
        BY <1>6, <1>7, <2>1, <2>8, <4>1
    <3>2. k + 1 <= p => F[k + 1] <= F[p]
      <4>1. k + 1 = p \/ ~(k + 1 <= p) \/ k + 1 < p
        BY <1>1, <2>8
      <4> QED
        BY <1>6, <1>7, <2>1, <2>8, <4>1
    <3>3. p + 1 <= k \/ k + 1 <= p \/ p = k
      BY <1>1, <2>8
    <3>4. F[k] <= w /\ w < F[k + 1]
      BY <2>1
    <3> QED
      BY <2>1, <2>2, <2>8, <3>1, <3>2, <3>3, <3>4
  <2> QED
    BY <2>2, <2>3, <2>6, <2>7, <2>9
<1>11. ASSUME NEW w \in 0..(F[n + 1] - 1) PROVE \E k \in 1..n : w \in F[k]..(F[k + 1] - 1)
  <2> DEFINE B == {m \in 1..(n + 1) : w < F[m]}
  <2>1. n + 1 \in B
    BY <1>8
  <2>2. PICK m \in B : \A l \in B : m <= l
    <3>1. B \subseteq Nat /\ B # {}
      BY <1>1, <2>1
    <3> HIDE DEF B
    <3> QED
      BY <3>1, LeastNat
  <2>3. m \in 1..(n + 1) /\ w < F[m] /\ F[m] \in Nat
    BY <1>1, <2>2
  <2>4. m # 1
    BY <1>1, <2>3
  <2> DEFINE k == m - 1
  <2>5. k \in 1..n /\ k + 1 = m /\ k \in 1..(n + 1) /\ ~(m <= k)
    BY <1>1, <2>3, <2>4
  <2>6. k \notin B
    <3> HIDE DEF B, k
    <3> QED
      BY <2>2, <2>5
  <2> HIDE DEF k
  <2>7. ~(w < F[k]) /\ F[k] \in Nat
    BY <1>7, <2>5, <2>6
  <2> QED
    BY <1>8, <2>3, <2>5, <2>7
<1>12. DOMAIN page = {4 * w : w \in 0..(F[n + 1] - 1)}
  BY <1>4
<1> QED
  BY <1>10, <1>11, <1>12 DEF F, page

\* What a cubin says of the parameters of its functions: once for each, with a
\* bank 0 that holds them behind what the driver writes itself.
ParametersAsCompiled(img) ==
    \A k \in DOMAIN img : img[k].role = "info" =>
        /\ \A l \in DOMAIN img : img[l].role = "info" /\ img[l].fn = img[k].fn => l = k
        /\ ~Unknown(img[k]) =>
              LET total == Total(img[k], 0)
                  bank0 == {c \in DOMAIN img : img[c].role = "constant" /\ img[c].nr = 0 /\ img[c].fn = img[k].fn}
              IN  /\ Numbered(Params(img[k]), total)
                  /\ Params(img[k]) # <<>> => bank0 # {}
                  /\ \A c \in bank0 : ParamBase + total <= img[c].size

\* What is known of parameters when the sections before n have been read.
ParamsKnown(n, known) ==
    /\ \A k \in DOMAIN image : k < n /\ image[k].role = "info" =>
          /\ ~Unknown(image[k])
          /\ known.params[image[k].fn] = Params(image[k]) /\ known.total[image[k].fn] = Total(image[k], 0)
    /\ \A f \in Names : (\A k \in DOMAIN image : ~(k < n /\ image[k].role = "info" /\ image[k].fn = f)) =>
          known.params[f] = <<>> /\ known.total[f] = 0

ArgsInv ==
    /\ at = "scan" => \A n, known : n = i /\ known = facts => ParamsKnown(n, known)
    /\ at \in {"relocate", "loaded"} => \A f \in DOMAIN functions, k \in DOMAIN image :
          image[k].fn = f =>
             /\ image[k].role = "info" =>
                   /\ ~Unknown(image[k])
                   /\ functions[f].params = Sized(InOrderOfIndex(Params(image[k])), Total(image[k], 0))
             /\ image[k].role = "constant" /\ image[k].nr = 0 =>
                   \E c \in DOMAIN image : /\ image[c].role = "constant" /\ image[c].nr = 0 /\ image[c].fn = f
                                           /\ functions[f].constants[1].size = image[c].size
    /\ args.fn # NoFunction =>
          /\ at = "loaded" /\ args.fn \in DOMAIN functions
          /\ \A k \in DOMAIN functions[args.fn].params : Encodable(functions[args.fn].params[k])
          /\ args.page = Marshalled(functions[args.fn].params)

LEMMA LearnParams ==
    ASSUME LoaderInv, ParametersAsCompiled(image), at = "scan", i <= Len(image), ~Unknown(image[i]),
           ParamsKnown(i, facts)
    PROVE  ParamsKnown(i + 1, Learn(image[i]))
<1> DEFINE s == image[i]
           f == s.fn
           new == Learn(s)
<1>1. /\ s \in Section /\ Shaped(s) /\ i \in 1..Len(image) /\ image \in Seq(Section)
      /\ facts \in [names : SUBSET Functions,
               text : [Names -> [address : Nat, size : Nat]],
               shared : [Names -> Nat], local : [Names -> Nat],
               constants : [Names -> Seq(Constant)], params : [Names -> Seq(Param)],
               total : [Names -> Nat]]
  BY Here DEF LoaderInv, ImageOK, FactsOK
<1>2. f \in Names /\ s.role \in {"text", "constant", "shared", "stack", "info", "none"}
  BY <1>1 DEF Section, Names
<1>3. \A k \in DOMAIN image : k < i + 1 <=> k < i \/ k = i
  BY <1>1
<1>4. i \in DOMAIN image
  BY <1>1
<1>5. CASE s.role # "info"
  <2>1. new.params = facts.params /\ new.total = facts.total
    <3> HIDE DEF s
    <3>1. CASE s.role = "text"
      BY <1>1, <3>1 DEF Learn, s
    <3>2. CASE s.role = "constant"
      BY <1>1, <3>2 DEF Learn, s
    <3>3. CASE s.role = "shared"
      BY <1>1, <3>3 DEF Learn, s
    <3>4. CASE s.role = "stack"
      BY <1>1, <3>4 DEF Learn, s
    <3>5. CASE s.role = "none"
      BY <3>5 DEF Learn
    <3> QED
      BY <1>2, <1>5, <3>1, <3>2, <3>3, <3>4, <3>5
  <2> HIDE DEF new
  <2>2. ParamsKnown(i + 1, new)
    BY <1>3, <1>4, <1>5, <2>1 DEF ParamsKnown
  <2> QED
    BY <2>2 DEF new
<1>6. CASE s.role = "info"
  <2> DEFINE P == Params(s)
             t == Total(s, 0)
  <2>1. \A k \in DOMAIN image : k < i /\ image[k].role = "info" => image[k].fn # f
    <3>1. \A k \in DOMAIN image : image[k].role = "info" /\ image[k].fn = f => k = i
      BY <1>4, <1>6 DEF ParametersAsCompiled
    <3> QED
      BY <1>1, <3>1
  <2>2. facts.params[f] = <<>> /\ facts.total[f] = 0
    BY <1>2, <2>1 DEF ParamsKnown
  <2>3. s.items \in Seq(Attribute)
    BY <1>1, <1>6 DEF Shaped
  <2>4. P \in Seq(Param)
    BY <1>1, <2>3, ParamsType
  <2>5. <<>> \o P = P
    <3> HIDE DEF P
    <3> QED
      BY <2>4
  <2>6. new = [facts EXCEPT !.params[f] = facts.params[f] \o P, !.total[f] = Total(s, facts.total[f])]
    BY <1>6 DEF Learn
  <2>7. new = [facts EXCEPT !.params[f] = P, !.total[f] = t]
    BY <2>2, <2>5, <2>6
  <2> HIDE DEF P, t, new
  <2>8. /\ new.params = [facts.params EXCEPT ![f] = P] /\ new.total = [facts.total EXCEPT ![f] = t]
    BY <1>1, <2>7
  <2>9. /\ new.params[f] = P /\ new.total[f] = t
        /\ \A g \in Names : g # f => new.params[g] = facts.params[g] /\ new.total[g] = facts.total[g]
    BY <1>1, <1>2, <2>8
  <2>10. \A k \in DOMAIN image : image[k].fn \in Names
    <3>1. \A x \in Section : x.fn \in Names
      BY DEF Section, Names
    <3> QED
      BY <1>1, <3>1
  <2>11. ASSUME NEW k \in DOMAIN image, k < i, image[k].role = "info"
         PROVE  /\ ~Unknown(image[k])
                /\ new.params[image[k].fn] = Params(image[k]) /\ new.total[image[k].fn] = Total(image[k], 0)
    BY <2>1, <2>9, <2>10, <2>11 DEF ParamsKnown
  <2>12. /\ ~Unknown(image[i])
         /\ new.params[image[i].fn] = Params(image[i]) /\ new.total[image[i].fn] = Total(image[i], 0)
    BY <2>9 DEF P, t
  <2>13. \A g \in Names : (\A k \in DOMAIN image : ~(k < i + 1 /\ image[k].role = "info" /\ image[k].fn = g)) =>
           new.params[g] = <<>> /\ new.total[g] = 0
    <3> SUFFICES ASSUME NEW g \in Names,
                        \A k \in DOMAIN image : ~(k < i + 1 /\ image[k].role = "info" /\ image[k].fn = g)
                 PROVE  new.params[g] = <<>> /\ new.total[g] = 0
      OBVIOUS
    <3>1. g # f
      BY <1>3, <1>4, <1>6
    <3>2. facts.params[g] = <<>> /\ facts.total[g] = 0
      BY <1>3 DEF ParamsKnown
    <3> QED
      BY <2>9, <3>1, <3>2
  <2>14. \A k \in DOMAIN image : k < i + 1 /\ image[k].role = "info" =>
           /\ ~Unknown(image[k])
           /\ new.params[image[k].fn] = Params(image[k]) /\ new.total[image[k].fn] = Total(image[k], 0)
    <3> HIDE DEF s
    <3> QED
      BY <1>3, <2>11, <2>12
  <2>15. ParamsKnown(i + 1, new)
    BY <2>13, <2>14 DEF ParamsKnown
  <2> QED
    BY <2>15 DEF new
<1> QED
  BY <1>5, <1>6

LEMMA SameParams ==
    ASSUME UNCHANGED image
    PROVE  \A n, known : ParamsKnown(n, known) => ParamsKnown(n, known)'
BY DEF ParamsKnown

LEMMA FinishArgs ==
    ASSUME LoaderInv, DescribedInv, ArgsInv, Finish
    PROVE  ArgsInv'
<1>1. /\ at = "scan" /\ at' = "relocate" /\ i > Len(image) /\ i \in Nat
      /\ UNCHANGED <<image, facts, args>> /\ image \in Seq(Section)
      /\ facts.names \subseteq Functions /\ args.fn = NoFunction
  BY Pieces DEF Finish, LoaderInv, ImageOK, TypeOK, ArgsInv
<1>2. \A k \in DOMAIN image : k < i
  BY <1>1
<1>3. /\ DOMAIN functions' = facts.names
      /\ \A f \in facts.names :
            /\ functions'[f].constants = AllConstants(f)
            /\ functions'[f].params = Sized(InOrderOfIndex(facts.params[f]), facts.total[f])
  BY DEF Finish
<1>4. Described(i, facts) /\ ParamsKnown(i, facts)
  BY <1>1 DEF DescribedInv, ArgsInv
<1>5. ASSUME NEW f \in DOMAIN functions', NEW k \in DOMAIN image, image[k].fn = f, image[k].role = "info"
      PROVE  /\ ~Unknown(image[k])
             /\ functions'[f].params = Sized(InOrderOfIndex(Params(image[k])), Total(image[k], 0))
  BY <1>2, <1>3, <1>4, <1>5 DEF ParamsKnown
<1>6. ASSUME NEW f \in DOMAIN functions', NEW k \in DOMAIN image, image[k].fn = f,
             image[k].role = "constant", image[k].nr = 0
      PROVE  \E c \in DOMAIN image : /\ image[c].role = "constant" /\ image[c].nr = 0 /\ image[c].fn = f
                                     /\ functions'[f].constants[1].size = image[c].size
  <2> DEFINE list == facts.constants[f]
  <2>1. f \in Names
    BY <1>1, <1>3 DEF Names
  <2>2. /\ {list[n] : n \in DOMAIN list} = {Bank(n) : n \in ConstantsOf(f, i)}
        /\ (\E n \in DOMAIN list : list[n].nr = 0) => list[1].nr = 0
    BY <1>4, <2>1 DEF Described
  <2>3. /\ list # <<>> => AllConstants(f)[1] = list[1]
        /\ list \in Seq(Constant)
    BY <2>1, AllConstantsIs
  <2>4. k \in ConstantsOf(f, i) /\ Bank(k).nr = 0
    BY <1>2, <1>6 DEF ConstantsOf, Bank
  <2> HIDE DEF list
  <2>5. \E n \in DOMAIN list : list[n].nr = 0
    BY <2>2, <2>4
  <2>6. list # <<>> /\ 1 \in DOMAIN list
    BY <2>3, <2>5
  <2>7. PICK c \in ConstantsOf(f, i) : list[1] = Bank(c)
    BY <2>2, <2>6
  <2>8. Bank(c).nr = 0 /\ Bank(c).nr = image[c].nr /\ Bank(c).size = image[c].size
    BY <2>2, <2>5, <2>7 DEF Bank
  <2>9. functions'[f].constants[1].size = image[c].size
    BY <1>3, <2>3, <2>6, <2>7, <2>8
  <2> QED
    BY <2>8, <2>9 DEF ConstantsOf
<1>7. \A f \in DOMAIN functions', k \in DOMAIN image' :
          image'[k].fn = f =>
             /\ image'[k].role = "info" =>
                   /\ ~Unknown(image'[k])
                   /\ functions'[f].params = Sized(InOrderOfIndex(Params(image'[k])), Total(image'[k], 0))
             /\ image'[k].role = "constant" /\ image'[k].nr = 0 =>
                   \E c \in DOMAIN image' : /\ image'[c].role = "constant" /\ image'[c].nr = 0 /\ image'[c].fn = f
                                            /\ functions'[f].constants[1].size = image'[c].size
  BY <1>1, <1>5, <1>6
<1> QED
  BY <1>1, <1>7 DEF ArgsInv

LEMMA ArgsStep ==
    ASSUME \A img \in Images : ParametersAsCompiled(img), LoaderInv, DescribedInv, ArgsInv, [Next]_vars
    PROVE  ArgsInv'
<1>1. ASSUME UNCHANGED <<image, facts, functions, args>>,
             \/ at' = at /\ i' = i
             \/ at = "relocate" /\ at' \in {"relocate", "loaded", "failed"}
      PROVE  ArgsInv'
  <2>1. at' = "scan" => \A n, known : n = i' /\ known = facts' => ParamsKnown(n, known)'
    <3> SUFFICES ASSUME at' = "scan", NEW n, NEW known, n = i', known = facts' PROVE ParamsKnown(n, known)'
      OBVIOUS
    <3>1. ParamsKnown(n, known) /\ image' = image
      BY <1>1 DEF ArgsInv
    <3> QED
      BY <3>1, SameParams
  <2>2. at' \in {"relocate", "loaded"} => at \in {"relocate", "loaded"}
    BY <1>1
  <2>3. args.fn # NoFunction => at' = "loaded"
    BY <1>1 DEF ArgsInv
  <2> QED
    BY <1>1, <2>1, <2>2, <2>3 DEF ArgsInv
<1>2. ASSUME at \in {"idle", "place"}, args' = args,
             at' \in {"place", "failed"} \/ (at' = "scan" /\ i' = 1 /\ image' \in Seq(Section) /\ facts' = facts)
      PROVE  ArgsInv'
  <2>1. args.fn = NoFunction
    BY <1>2 DEF ArgsInv
  <2>2. at' = "scan" => \A n, known : n = i' /\ known = facts' => ParamsKnown(n, known)'
    <3> SUFFICES ASSUME at' = "scan", NEW n, NEW known, n = i', known = facts' PROVE ParamsKnown(n, known)'
      OBVIOUS
    <3>1. \A k \in DOMAIN image' : ~(k < n)
      BY <1>2
    <3>2. known = NoFacts
      BY <1>2 DEF DescribedInv
    <3>3. \A f \in Names : known.params[f] = <<>> /\ known.total[f] = 0
      BY <3>2 DEF NoFacts
    <3> QED
      BY <3>1, <3>3 DEF ParamsKnown
  <2> QED
    BY <1>2, <2>1, <2>2 DEF ArgsInv
<1>3. image \in Seq(Section)
  BY DEF LoaderInv, ImageOK
<1>4. ASSUME NEW img \in Images, LoadData(img) PROVE ArgsInv'
  BY <1>2, <1>4 DEF LoadData
<1>5. CASE PlaceSection
  BY <1>2, <1>5 DEF PlaceSection
<1>6. CASE Alloc
  BY <1>2, <1>3, <1>6 DEF Alloc
<1>7. CASE Scan
  <2>1. at = "scan" /\ i <= Len(image) /\ image' = image /\ args' = args /\ args.fn = NoFunction
        /\ i' = i + 1 /\ at' \in {"scan", "failed"}
    BY <1>7 DEF Scan, ArgsInv
  <2>2. at' = "scan" => \A n, known : n = i' /\ known = facts' => ParamsKnown(n, known)'
    <3> SUFFICES ASSUME at' = "scan", NEW n, NEW known, n = i', known = facts' PROVE ParamsKnown(n, known)'
      OBVIOUS
    <3>1. ~Unknown(image[i]) /\ facts' = Learn(image[i])
      BY <1>7 DEF Scan
    <3>2. ParametersAsCompiled(image)
      BY <2>1 DEF LoaderInv, ImageOK
    <3>3. ParamsKnown(i, facts)
      BY <2>1 DEF ArgsInv
    <3>4. ParamsKnown(i + 1, Learn(image[i]))
      BY <2>1, <3>1, <3>2, <3>3, LearnParams
    <3>5. ParamsKnown(n, known)
      BY <2>1, <3>1, <3>4
    <3> QED
      BY <2>1, <3>5, SameParams
  <2> QED
    BY <2>1, <2>2 DEF ArgsInv
<1>8. CASE Finish
  BY <1>8, FinishArgs
<1>9. CASE Relocate
  BY <1>1, <1>9 DEF Relocate
<1>10. CASE Upload
  BY <1>1, <1>10 DEF Upload
<1>11. ASSUME NEW f \in DOMAIN functions, Launch(f) PROVE ArgsInv'
  <2>1. /\ at = "loaded" /\ UNCHANGED <<at, image, functions>>
        /\ args' = [fn |-> f, page |-> Marshalled(functions[f].params)]
        /\ \A k \in DOMAIN functions[f].params : Encodable(functions[f].params[k])
    BY <1>11 DEF Launch
  <2>2. args'.fn = f /\ args'.page = Marshalled(functions[f].params)
    BY <2>1
  <2> QED
    BY <2>1, <2>2 DEF ArgsInv
<1>12. CASE UNCHANGED vars
  BY <1>1, <1>12 DEF vars
<1> QED
  BY <1>4, <1>5, <1>6, <1>7, <1>8, <1>9, <1>10, <1>11, <1>12 DEF Next

\* The constants the driver writes and the rounding of the page are whole words.
WholeWords == ParamBase % 4 = 0 /\ ArgAlign % 4 = 0

\* What the launch descriptor lies behind, when bank 0 holds the parameters.
LEMMA DescriptorBehind ==
    ASSUME WholeWords, NEW f \in DOMAIN functions, NEW bytes \in Nat,
           functions[f].constants[1].size = bytes,
           NEW offset \in Nat, NEW last \in Nat, offset % 4 = 0, last > 0,
           ParamBase + offset + last <= bytes
    PROVE  /\ ParamBase + offset + last <= Descriptor(f)
           /\ ParamBase + offset + 4 <= Descriptor(f)
<1> DEFINE c == CeilDiv(bytes, ArgAlign)
           d == Descriptor(f)
           b == ArgAlign \div 4
<1>1. ArgAlign \in Nat /\ ArgAlign > 0 /\ ParamBase \in Nat
  BY Numbers
<1>2. c \in Nat /\ d = c * ArgAlign /\ d \in Nat /\ bytes <= d
  BY <1>1, CeilDivIs DEF Descriptor
<1>3. b \in Nat /\ ArgAlign = b * 4
  BY <1>1 DEF WholeWords
<1> HIDE DEF c, d, b
<1>4. d = (c * b) * 4 /\ c * b \in Int
  BY <1>2, <1>3
<1>5. d % 4 = 0
  BY <1>4, MultipleMod
<1>6. ParamBase + offset + last <= d
  BY <1>1, <1>2
<1>7. ParamBase % 4 = 0
  BY DEF WholeWords
<1>8. ParamBase + offset + 4 <= d
  BY <1>1, <1>2, <1>5, <1>6, <1>7
<1> QED
  BY <1>6, <1>8 DEF d

\* The page of numbered parameters that lie on words: each argument's first word
\* at the parameter's offset, its other words behind it, and the last of them
\* within the word that holds the last parameter's end.
LEMMA PageOf ==
    ASSUME NEW found \in Seq(Param), NEW total \in Nat, Numbered(found, total),
           NEW s, s = Sized(InOrderOfIndex(found), total),
           \A p \in DOMAIN found : found[p].offset % 4 = 0,
           \A m \in DOMAIN s : Encodable(s[m]),
           NEW page, page = Marshalled(s)
    PROVE  /\ \A p \in DOMAIN found :
                 found[p].offset \in DOMAIN page /\ page[found[p].offset] = <<found[p].index + 1, 0>>
           /\ \A x \in DOMAIN page :
                 /\ page[x][2] > 0 => page[x - 4] = <<page[x][1], page[x][2] - 1>>
                 /\ found # <<>> /\ x \in Nat
                 /\ \E o, l \in Nat : /\ o % 4 = 0 /\ l > 0 /\ o + l = total
                                      /\ x + 4 <= o + l \/ x + 4 <= o + 4
<1> DEFINE n == Len(found)
           F == FirstWord(s)
<1>1. n \in Nat /\ DOMAIN found = 1..n
  OBVIOUS
<1>2. /\ s \in Seq([offset : Nat, size : Nat]) /\ Len(s) = n
      /\ \A p \in 1..n : found[p].index + 1 \in 1..n /\ s[found[p].index + 1].offset = found[p].offset
      /\ \A m \in 1..n : \E p \in 1..n : s[m].offset = found[p].offset
      /\ n > 0 => s[1].offset = 0 /\ s[n].size = total - s[n].offset /\ s[n].size > 0
      /\ \A m \in 1..(n - 1) : s[m].size = s[m + 1].offset - s[m].offset /\ s[m].size > 0
  BY SizedIs
<1>3. DOMAIN s = 1..n
  BY <1>2
<1>4. \A p \in 1..n : found[p].offset % 4 = 0
  BY <1>1
<1>5. \A m \in 1..n : s[m].offset % 4 = 0
  <2> SUFFICES ASSUME NEW m \in 1..n PROVE s[m].offset % 4 = 0
    OBVIOUS
  <2>1. PICK p \in 1..n : s[m].offset = found[p].offset
    BY <1>2
  <2> QED
    BY <1>4, <2>1
<1>6. \A m \in 1..n : s[m].size > 0
  <2> SUFFICES ASSUME NEW m \in 1..n PROVE s[m].size > 0
    OBVIOUS
  <2>1. m = n \/ m \in 1..(n - 1)
    <3>1. n \in Nat /\ m \in 1..n
      BY <1>1
    <3> HIDE DEF n
    <3> QED
      BY <3>1
  <2>2. n > 0
    BY <1>1
  <2>3. n > 0 => s[n].size > 0
    BY <1>2
  <2>4. \A q \in 1..(n - 1) : s[q].size > 0
    BY <1>2
  <2>5. CASE m = n
    BY <2>2, <2>3, <2>5
  <2>6. CASE m \in 1..(n - 1)
    BY <2>4, <2>6
  <2> QED
    BY <2>1, <2>5, <2>6
<1>7. Laid(s)
  <2>1. s \in Seq([offset : Nat, size : Nat]) /\ Len(s) = n
    BY <1>2
  <2>2. n > 0 => s[1].offset = 0
    BY <1>2
  <2>3. \A m \in 1..n : Encodable(s[m])
    BY <1>3
  <2>4. \A m \in 1..n : s[m].offset % 4 = 0 /\ s[m].size > 0 /\ Encodable(s[m])
    BY <1>5, <1>6, <2>3
  <2>5. \A m \in 1..(n - 1) : s[m].size = s[m + 1].offset - s[m].offset
    BY <1>2
  <2> HIDE DEF n
  <2> DEFINE P == s \in Seq([offset : Nat, size : Nat])
  <2>6. P
    BY <2>1
  <2>7. Laid(s) <=> /\ P
                    /\ Len(s) > 0 => s[1].offset = 0
                    /\ \A m \in 1..Len(s) : s[m].offset % 4 = 0 /\ s[m].size > 0 /\ Encodable(s[m])
                    /\ \A m \in 1..(Len(s) - 1) : s[m].size = s[m + 1].offset - s[m].offset
    BY DEF Laid
  <2> HIDE DEF P
  <2>8. Len(s) = n
    BY <2>1
  <2> QED
    BY <2>2, <2>4, <2>5, <2>6, <2>7, <2>8
<1> HIDE DEF n
<1>8. /\ F[1] = 0 /\ \A m \in 1..(n + 1) : F[m] \in Nat
      /\ \A m \in 1..n : 4 * F[m] = s[m].offset /\ F[m + 1] = F[m] + Words(s[m])
  <2>1. LET FF == FirstWord(s)
            nn == Len(s)
        IN  /\ nn \in Nat /\ FF[1] = 0 /\ \A m \in 1..(nn + 1) : FF[m] \in Nat
            /\ \A m \in 1..nn : 4 * FF[m] = s[m].offset /\ FF[m + 1] = FF[m] + Words(s[m])
    BY <1>7, FirstWordIs
  <2>2. Len(s) = n
    BY <1>2
  <2> QED
    BY <2>1, <2>2
<1>9. /\ DOMAIN page = {4 * w : w \in 0..(F[n + 1] - 1)}
      /\ \A m \in 1..n : \A w \in F[m]..(F[m + 1] - 1) :
            w \in 0..(F[n + 1] - 1) /\ 4 * w \in DOMAIN page /\ page[4 * w] = <<m, w - F[m]>>
      /\ \A w \in 0..(F[n + 1] - 1) : \E m \in 1..n : w \in F[m]..(F[m + 1] - 1)
  <2>1. Len(s) = n
    BY <1>2
  <2> HIDE DEF F
  <2> QED
    BY <1>7, <2>1, MarshalledIs DEF F
<1> HIDE DEF F
<1>10. \A m \in 1..n : /\ F[m] \in Nat /\ F[m + 1] \in Nat /\ F[m] < F[m + 1]
                       /\ Words(s[m]) \in Nat /\ Words(s[m]) > 0
  <2> SUFFICES ASSUME NEW m \in 1..n
               PROVE  /\ F[m] \in Nat /\ F[m + 1] \in Nat /\ F[m] < F[m + 1]
                      /\ Words(s[m]) \in Nat /\ Words(s[m]) > 0
    OBVIOUS
  <2>1. Words(s[m]) \in Nat /\ Words(s[m]) > 0
    <3>1. m \in 1..Len(s)
      BY <1>2
    <3> QED
      BY <1>7, <3>1, WordsAre
  <2>2. m \in 1..(n + 1) /\ F[m] \in Nat /\ F[m + 1] = F[m] + Words(s[m])
    BY <1>1, <1>8
  <2> QED
    BY <2>1, <2>2
<1>11. ASSUME NEW p \in DOMAIN found
       PROVE  found[p].offset \in DOMAIN page /\ page[found[p].offset] = <<found[p].index + 1, 0>>
  <2> DEFINE m == found[p].index + 1
  <2>1. m \in 1..n /\ s[m].offset = found[p].offset
    BY <1>1, <1>2
  <2> HIDE DEF m
  <2>2. F[m] \in F[m]..(F[m + 1] - 1) /\ F[m] - F[m] = 0
    BY <1>10, <2>1
  <2>3. 4 * F[m] \in DOMAIN page /\ page[4 * F[m]] = <<m, 0>>
    BY <1>9, <2>1, <2>2
  <2>4. 4 * F[m] = found[p].offset
    BY <1>8, <2>1
  <2> QED
    BY <2>3, <2>4 DEF m
<1>12. ASSUME NEW x \in DOMAIN page
       PROVE  /\ page[x][2] > 0 => page[x - 4] = <<page[x][1], page[x][2] - 1>>
              /\ found # <<>> /\ x \in Nat
              /\ \E o, l \in Nat : /\ o % 4 = 0 /\ l > 0 /\ o + l = total
                                   /\ x + 4 <= o + l \/ x + 4 <= o + 4
  <2>1. PICK w \in 0..(F[n + 1] - 1) : x = 4 * w
    BY <1>9
  <2>2. PICK m \in 1..n : w \in F[m]..(F[m + 1] - 1)
    BY <1>9
  <2>3. page[x] = <<m, w - F[m]>>
    BY <1>9, <2>1, <2>2
  <2>4. F[m] \in Nat /\ F[m + 1] \in Nat /\ w \in Nat
    BY <1>10, <2>2
  <2>5. page[x][2] > 0 => page[x - 4] = <<page[x][1], page[x][2] - 1>>
    <3> SUFFICES ASSUME w - F[m] > 0 PROVE page[x - 4] = <<m, w - F[m] - 1>>
      BY <2>3
    <3> DEFINE v == w - 1
    <3>1. v \in F[m]..(F[m + 1] - 1) /\ x - 4 = 4 * v /\ v - F[m] = w - F[m] - 1
      BY <2>1, <2>2, <2>4
    <3> HIDE DEF v
    <3>2. page[4 * v] = <<m, v - F[m]>>
      BY <1>9, <3>1
    <3> QED
      BY <3>1, <3>2
  <2>6. n \in 1..n /\ n > 0 /\ found # <<>>
    BY <1>1, <2>2 DEF n
  <2> DEFINE o == s[n].offset
             l == s[n].size
  <2>7. /\ o \in Nat /\ o % 4 = 0 /\ l \in Nat
        /\ l \notin {1, 2} => 4 * Words(s[n]) = l
    <3>1. n \in 1..Len(s)
      BY <1>2, <2>6
    <3> QED
      BY <1>7, <3>1, WordsAre
  <2>8. l = total - o /\ l > 0
    BY <1>2, <2>6 DEF n
  <2>9. l \in {1, 2} => Words(s[n]) = 1
    BY DEF Words
  <2>10. 4 * F[n + 1] = o + 4 * Words(s[n]) /\ F[n + 1] \in Nat /\ Words(s[n]) \in Nat
    <3>1. 4 * F[n] = s[n].offset /\ F[n + 1] = F[n] + Words(s[n])
      BY <1>8, <2>6
    <3>2. F[n] \in Nat /\ Words(s[n]) \in Nat /\ F[n + 1] \in Nat
      BY <1>10, <2>6
    <3> QED
      BY <3>1, <3>2
  <2> HIDE DEF o, l
  <2> DEFINE fn1 == F[n + 1]
             ws == Words(s[n])
  <2>11. x + 4 <= 4 * fn1 /\ x \in Nat
    BY <2>1, <2>4, <2>10
  <2>12. 4 * fn1 = o + 4 * ws /\ fn1 \in Nat /\ ws \in Nat
    BY <2>10
  <2>13. (l \in {1, 2} => ws = 1) /\ (l \notin {1, 2} => 4 * ws = l)
    BY <2>7, <2>9
  <2> HIDE DEF fn1, ws
  <2>14. x + 4 <= o + l \/ x + 4 <= o + 4
    <3>1. CASE l \in {1, 2}
      BY <3>1, <2>7, <2>11, <2>12, <2>13
    <3>2. CASE l \notin {1, 2}
      BY <3>2, <2>7, <2>11, <2>12, <2>13
    <3> QED
      BY <3>1, <3>2
  <2>15. o + l = total
    BY <2>7, <2>8
  <2> QED
    BY <2>5, <2>6, <2>7, <2>8, <2>11, <2>14, <2>15
<1> QED
  BY <1>11, <1>12

LEMMA ArgsAtTheirOffsets ==
    ASSUME WholeWords, \A img \in Images : ParametersAsCompiled(img), LoaderInv, ArgsInv
    PROVE  ArgsWhereKernelReads
<1> DEFINE f == args.fn
<1> SUFFICES ASSUME f # NoFunction,
                    NEW k \in DOMAIN image, image[k].role = "info", image[k].fn = f,
                    \A p \in DOMAIN Params(image[k]) : Params(image[k])[p].offset % 4 = 0
             PROVE  LET found == Params(image[k]) IN
                    /\ \A p \in DOMAIN found : found[p].offset \in DOMAIN args.page
                         /\ args.page[found[p].offset] = <<found[p].index + 1, 0>>
                    /\ \A x \in DOMAIN args.page :
                         /\ ParamBase + x + 4 <= Descriptor(f)
                         /\ args.page[x][2] > 0 => args.page[x - 4] = <<args.page[x][1], args.page[x][2] - 1>>
  BY DEF ArgsWhereKernelReads
<1> DEFINE found == Params(image[k])
           total == Total(image[k], 0)
           s == Sized(InOrderOfIndex(found), total)
           page == Marshalled(s)
           bank0 == {c \in DOMAIN image : image[c].role = "constant" /\ image[c].nr = 0 /\ image[c].fn = f}
<1>1. at = "loaded" /\ f \in DOMAIN functions /\ args.page = Marshalled(functions[f].params)
      /\ \A m \in DOMAIN functions[f].params : Encodable(functions[f].params[m])
  BY DEF ArgsInv
<1>2. ~Unknown(image[k]) /\ functions[f].params = s
  BY <1>1 DEF ArgsInv
<1>3. image[k] \in Section /\ image[k].items \in Seq(Attribute) /\ ParametersAsCompiled(image)
  BY <1>1 DEF LoaderInv, ImageOK, Shaped
<1>4. /\ Numbered(found, total)
      /\ found # <<>> => bank0 # {}
      /\ \A c \in bank0 : ParamBase + total <= image[c].size
  BY <1>2, <1>3 DEF ParametersAsCompiled
<1>5. found \in Seq(Param) /\ total \in Nat
  BY <1>3, ParamsType, TotalType
<1>6. \A c \in bank0 : \E b \in bank0 : functions[f].constants[1].size = image[b].size
  BY <1>1 DEF ArgsInv
<1>7. args.page = page /\ \A m \in DOMAIN s : Encodable(s[m])
  BY <1>1, <1>2
<1>8. \A p \in DOMAIN found : found[p].offset % 4 = 0
  OBVIOUS
<1>9. /\ \A p \in DOMAIN found :
            found[p].offset \in DOMAIN page /\ page[found[p].offset] = <<found[p].index + 1, 0>>
      /\ \A x \in DOMAIN page :
            /\ page[x][2] > 0 => page[x - 4] = <<page[x][1], page[x][2] - 1>>
            /\ found # <<>> /\ x \in Nat
            /\ \E o, l \in Nat : /\ o % 4 = 0 /\ l > 0 /\ o + l = total
                                 /\ x + 4 <= o + l \/ x + 4 <= o + 4
  <2> HIDE DEF found, total
  <2>1. s = Sized(InOrderOfIndex(found), total) /\ page = Marshalled(s)
    OBVIOUS
  <2> HIDE DEF s, page
  <2> QED
    BY <1>4, <1>5, <1>7, <1>8, <2>1, PageOf
<1> HIDE DEF found, total, s, page
<1>10. ASSUME NEW x \in DOMAIN page
       PROVE  ParamBase + x + 4 <= Descriptor(f)
  <2>1. found # <<>> /\ x \in Nat
    BY <1>9
  <2>2. PICK o, l \in Nat : /\ o % 4 = 0 /\ l > 0 /\ o + l = total
                            /\ x + 4 <= o + l \/ x + 4 <= o + 4
    BY <1>9
  <2>3. PICK b \in bank0 : functions[f].constants[1].size = image[b].size /\ ParamBase + total <= image[b].size
    BY <1>4, <1>6, <2>1
  <2> DEFINE bytes == image[b].size
             d == Descriptor(f)
  <2>4. bytes \in Nat
    <3>1. image[b] \in Section
      BY <1>1, <2>3 DEF LoaderInv, ImageOK
    <3> QED
      BY <3>1 DEF Section
  <2>5. d = CeilDiv(bytes, ArgAlign) * ArgAlign
    BY <2>3 DEF Descriptor
  <2>6. CeilDiv(bytes, ArgAlign) * ArgAlign \in Nat
    BY <2>4, CeilDivIs, Numbers
  <2>7. functions[f].constants[1].size = bytes /\ ParamBase + total <= bytes
    BY <2>3
  <2> HIDE DEF bytes
  <2>8. ParamBase \in Nat
    BY Numbers
  <2>9. ParamBase + o + l <= bytes
    BY <2>2, <2>4, <2>7, <2>8
  <2>10. ParamBase + o + l <= d /\ ParamBase + o + 4 <= d
    BY <1>1, <2>2, <2>4, <2>7, <2>9, DescriptorBehind
  <2>11. d \in Nat
    BY <2>5, <2>6
  <2> HIDE DEF d
  <2>12. ParamBase + x + 4 <= d
    BY <2>1, <2>2, <2>8, <2>10, <2>11
  <2> QED
    BY <2>12 DEF d
<1> QED
  BY <1>7, <1>9, <1>10 DEF found

\* A kernel whose parameters lie on words finds each word of each argument at
\* its offset and none beneath the launch descriptor, for every cubin that
\* describes its parameters once, in whatever order, and whose bank 0 has room
\* for them (librecuda.cpp:1227-1237, 1291-1315, cmdqueue.cpp:516-580).
THEOREM ArgumentsWhereKernelsRead ==
    WholeWords /\ (\A img \in Images : ParametersAsCompiled(img)) => (Spec => []ArgsWhereKernelReads)
<1> SUFFICES ASSUME WholeWords, \A img \in Images : ParametersAsCompiled(img)
             PROVE  Spec => []ArgsWhereKernelReads
  OBVIOUS
<1>1. Init => DescribedInv /\ ArgsInv
  BY DEF Init, DescribedInv, FunctionsDescribed, ArgsInv
<1>2. LoaderInv /\ DescribedInv /\ ArgsInv /\ [Next]_vars => LoaderInv' /\ DescribedInv' /\ ArgsInv'
  BY LoaderStep, DescribedStep, ArgsStep
<1>3. LoaderInv /\ ArgsInv => ArgsWhereKernelReads
  BY ArgsAtTheirOffsets
<1> QED
  BY <1>1, <1>2, <1>3, InitInv, PTL DEF Spec
=============================================================================
