----------------------------- MODULE HistProofs -----------------------------
(***************************************************************************)
(* Theorems about Hist, for every number of buckets, every word size, any  *)
(* latencies and any number of samples.                                    *)
(*                                                                         *)
(* The counts of the buckets are related to the samples through the sums   *)
(* pct() forms: after bucket i it has counted the samples up to the last   *)
(* word of bucket i, no more and no fewer (SumsAgree).                     *)
(***************************************************************************)
EXTENDS Hist, TLAPS, WellFoundedInduction

\* A set of natural numbers that is not empty has a smallest element.
LEMMA SmallestNumber ==
  ASSUME NEW S, S \subseteq Nat, S # {}
  PROVE  \E s \in S : \A t \in S : s <= t
<1> DEFINE R == OpToRel(<, Nat)
<1>1. \E s \in S : \A t \in S : ~ (<<t, s>> \in R)
  <2>1. IsWellFoundedOn(R, Nat)
    BY NatLessThanWellFounded
  <2> HIDE DEF R
  <2> QED
    BY <2>1, WFMin
<1>2. PICK s \in S : \A t \in S : ~ (<<t, s>> \in R)
  BY <1>1
<1>3. ASSUME NEW t \in S PROVE s <= t
  <2>1. s \in Nat /\ t \in Nat
    OBVIOUS
  <2>2. <<t, s>> \in Nat \X Nat
    BY <2>1
  <2>3. ~ (t < s)
    BY <1>2, <2>2 DEF OpToRel
  <2> QED
    BY <2>1, <2>3
<1> QED
  BY <1>3
-----------------------------------------------------------------------------
(***************************************************************************)
(* Powers of two.                                                          *)
(***************************************************************************)
IsPow2(f) == f = [n \in 0 .. Bits |-> IF n = 0 THEN 1 ELSE 2 * f[n - 1]]

\* The equation 1ULL << n stands for has a solution.
LEMMA Pow2Exists == \E f : IsPow2(f)
<1> DEFINE Upto(n, f) == f = [k \in 0 .. n |-> IF k = 0 THEN 1 ELSE 2 * f[k - 1]]
           Bad == {n \in Nat : ~ \E f : Upto(n, f)}
<1>1. Bits \in Nat
  BY BitsAssumption
<1>2. 0 \notin Bad
  <2>1. Upto(0, [k \in 0 .. 0 |-> 1])
    OBVIOUS
  <2> QED
    BY <2>1
<1>3. ASSUME NEW n \in Nat, n + 1 \in Bad PROVE n \in Bad
  <2> SUFFICES ASSUME NEW f, Upto(n, f) PROVE FALSE
    OBVIOUS
  <2> DEFINE g == [k \in 0 .. n + 1 |-> IF k = 0 THEN 1 ELSE 2 * f[k - 1]]
  <2>1. \A k \in 0 .. n : g[k] = f[k]
    OBVIOUS
  <2>2. Upto(n + 1, g)
    BY <2>1
  <2> QED
    BY <1>3, <2>2
<1>4. Bad = {}
  <2> SUFFICES ASSUME Bad # {} PROVE FALSE
    OBVIOUS
  <2>1. PICK n \in Bad : \A m \in Bad : n <= m
    BY SmallestNumber
  <2>2. n \in Nat /\ n # 0
    BY <1>2
  <2>3. n - 1 \in Bad
    BY <1>3, <2>2
  <2> HIDE DEF Bad
  <2> QED
    BY <2>1, <2>2, <2>3
<1> QED
  BY <1>1, <1>4 DEF IsPow2

LEMMA Pow2Is ==
  /\ DOMAIN Pow2 = 0 .. Bits
  /\ \A n \in 0 .. Bits : Pow2[n] = IF n = 0 THEN 1 ELSE 2 * Pow2[n - 1]
<1>1. Pow2 = CHOOSE f : IsPow2(f)
  BY DEF Pow2, IsPow2
<1>2. IsPow2(Pow2)
  BY <1>1, Pow2Exists
<1> QED
  BY <1>2 DEF IsPow2

\* They are positive numbers.
LEMMA Pow2Positive ==
  ASSUME NEW n \in 0 .. Bits
  PROVE  Pow2[n] \in Nat \ {0}
<1> DEFINE Bad == {k \in 0 .. Bits : Pow2[k] \notin Nat \ {0}}
<1> SUFFICES ASSUME Bad # {} PROVE FALSE
  OBVIOUS
<1>1. Bits \in Nat
  BY BitsAssumption
<1>2. Bad \subseteq Nat
  BY <1>1
<1>3. PICK k \in Bad : \A m \in Bad : k <= m
  <2> HIDE DEF Bad
  <2> QED
    BY <1>2, SmallestNumber
<1>4. k # 0
  BY <1>1, Pow2Is
<1>5. k - 1 \in 0 .. Bits /\ k - 1 \notin Bad
  BY <1>1, <1>3, <1>4
<1>6. Pow2[k] = 2 * Pow2[k - 1]
  BY <1>4, Pow2Is
<1> QED
  BY <1>3, <1>5, <1>6

\* Each is twice the one before.
LEMMA Pow2Doubles ==
  ASSUME NEW n \in 0 .. Bits - 1
  PROVE  Pow2[n + 1] = 2 * Pow2[n]
<1>1. Bits \in Nat
  BY BitsAssumption
<1>2. n + 1 \in 0 .. Bits /\ n + 1 # 0 /\ (n + 1) - 1 = n
  BY <1>1
<1> QED
  BY <1>2, Pow2Is

\* They ascend.
LEMMA Pow2Ascends ==
  ASSUME NEW m \in 0 .. Bits, NEW n \in 0 .. Bits, m <= n
  PROVE  Pow2[m] <= Pow2[n]
<1> DEFINE Bad == {k \in m .. Bits : Pow2[m] > Pow2[k]}
<1> SUFFICES ASSUME Bad # {} PROVE FALSE
  BY Pow2Positive
<1>1. Bits \in Nat
  BY BitsAssumption
<1>2. Bad \subseteq Nat
  BY <1>1
<1>3. PICK k \in Bad : \A j \in Bad : k <= j
  <2> HIDE DEF Bad
  <2> QED
    BY <1>2, SmallestNumber
<1>4. k # m
  BY Pow2Positive
<1>5. k - 1 \in m .. Bits /\ k - 1 \notin Bad /\ k - 1 \in 0 .. Bits - 1
  BY <1>1, <1>3, <1>4
<1>6. Pow2[k] = 2 * Pow2[k - 1]
  BY <1>5, Pow2Doubles
<1>7. Pow2[m] \in Nat /\ Pow2[k - 1] \in Nat \ {0}
  BY <1>5, Pow2Positive
<1> QED
  BY <1>3, <1>5, <1>6, <1>7
-----------------------------------------------------------------------------
(***************************************************************************)
(* Running sums.                                                           *)
(***************************************************************************)
IsSums(s, f, top) == s = [k \in 0 .. top |-> IF k = 0 THEN f[0] ELSE s[k - 1] + f[k]]

\* The loop that forms the sums is defined.
LEMMA SumsExist ==
  ASSUME NEW f, NEW top \in Nat
  PROVE  \E s : IsSums(s, f, top)
<1> DEFINE Bad == {n \in Nat : ~ \E s : IsSums(s, f, n)}
<1>1. Bad \subseteq Nat
  OBVIOUS
<1>2. 0 \notin Bad
  <2>1. IsSums([k \in 0 .. 0 |-> f[0]], f, 0)
    BY DEF IsSums
  <2> QED
    BY <2>1
<1>3. ASSUME NEW n \in Nat, n + 1 \in Bad PROVE n \in Bad
  <2> SUFFICES ASSUME NEW s, IsSums(s, f, n) PROVE FALSE
    OBVIOUS
  <2> DEFINE g == [k \in 0 .. n + 1 |-> IF k = 0 THEN f[0] ELSE s[k - 1] + f[k]]
  <2>1. \A k \in 0 .. n : g[k] = s[k]
    BY DEF IsSums
  <2>2. IsSums(g, f, n + 1)
    BY <2>1 DEF IsSums
  <2> QED
    BY <1>3, <2>2
<1>4. Bad = {}
  <2> SUFFICES ASSUME Bad # {} PROVE FALSE
    OBVIOUS
  <2>1. PICK n \in Bad : \A m \in Bad : n <= m
    <3> HIDE DEF Bad
    <3> QED
      BY <1>1, SmallestNumber
  <2>2. n \in Nat /\ n # 0
    BY <1>2
  <2>3. n - 1 \in Bad
    BY <1>3, <2>2
  <2> HIDE DEF Bad
  <2> QED
    BY <2>1, <2>2, <2>3
<1> QED
  BY <1>4

LEMMA SumsIs ==
  ASSUME NEW f, NEW top \in Nat, NEW k \in 0 .. top
  PROVE  Sums(f, top)[k] = IF k = 0 THEN f[0] ELSE Sums(f, top)[k - 1] + f[k]
<1>1. Sums(f, top) = CHOOSE s : IsSums(s, f, top)
  BY DEF Sums, IsSums
<1>2. IsSums(Sums(f, top), f, top)
  BY <1>1, SumsExist
<1> HIDE DEF Sums
<1> QED
  BY <1>2 DEF IsSums

\* The sums of counts are numbers.
LEMMA SumsNat ==
  ASSUME NEW top \in Nat, NEW f \in [0 .. top -> Nat], NEW k \in 0 .. top
  PROVE  Sums(f, top)[k] \in Nat
<1> DEFINE Bad == {n \in 0 .. top : Sums(f, top)[n] \notin Nat}
<1> SUFFICES ASSUME Bad # {} PROVE FALSE
  OBVIOUS
<1>1. PICK n \in Bad : \A m \in Bad : n <= m
  <2>1. Bad \subseteq Nat
    OBVIOUS
  <2> HIDE DEF Bad
  <2> QED
    BY <2>1, SmallestNumber
<1>2. Sums(f, top)[n] = IF n = 0 THEN f[0] ELSE Sums(f, top)[n - 1] + f[n]
  BY SumsIs
<1>3. n # 0
  BY <1>2
<1>4. n - 1 \in 0 .. top /\ n - 1 \notin Bad
  BY <1>1, <1>3
<1>5. Sums(f, top)[n - 1] \in Nat /\ f[n] \in Nat
  BY <1>4
<1> QED
  BY <1>2, <1>3, <1>5

\* They ascend.
LEMMA SumsAscend ==
  ASSUME NEW top \in Nat, NEW f \in [0 .. top -> Nat],
         NEW j \in 0 .. top, NEW k \in 0 .. top, j <= k
  PROVE  Sums(f, top)[j] <= Sums(f, top)[k]
<1> DEFINE Bad == {n \in j .. top : Sums(f, top)[j] > Sums(f, top)[n]}
<1> SUFFICES ASSUME Bad # {} PROVE FALSE
  BY SumsNat
<1>1. PICK n \in Bad : \A m \in Bad : n <= m
  <2>1. Bad \subseteq Nat
    OBVIOUS
  <2> HIDE DEF Bad
  <2> QED
    BY <2>1, SmallestNumber
<1>2. n # j
  BY SumsNat
<1>3. n - 1 \in j .. top /\ n - 1 \notin Bad /\ n - 1 \in 0 .. top /\ n \in 0 .. top /\ n # 0
  BY <1>1, <1>2
<1>4. Sums(f, top)[n] = Sums(f, top)[n - 1] + f[n]
  BY <1>3, SumsIs
<1>5. /\ Sums(f, top)[n - 1] \in Nat
      /\ Sums(f, top)[n] \in Nat
      /\ Sums(f, top)[j] \in Nat
      /\ f[n] \in Nat
  BY <1>3, SumsNat
<1>6. Sums(f, top)[j] <= Sums(f, top)[n - 1]
  BY <1>3, <1>5
<1> QED
  BY <1>4, <1>5, <1>6

\* No summand exceeds the whole.
LEMMA SummandBelow ==
  ASSUME NEW top \in Nat, NEW f \in [0 .. top -> Nat], NEW k \in 0 .. top
  PROVE  f[k] <= Sums(f, top)[top]
<1>1. top \in 0 .. top /\ k <= top
  OBVIOUS
<1>2. /\ Sums(f, top)[k] \in Nat /\ Sums(f, top)[top] \in Nat /\ f[k] \in Nat
      /\ Sums(f, top)[k] <= Sums(f, top)[top]
  BY <1>1, SumsNat, SumsAscend
<1>3. f[k] <= Sums(f, top)[k]
  <2>1. CASE k = 0
    BY <1>2, <2>1, SumsIs
  <2>2. CASE k # 0
    <3>1. k - 1 \in 0 .. top
      BY <2>2
    <3>2. Sums(f, top)[k - 1] \in Nat /\ Sums(f, top)[k] = Sums(f, top)[k - 1] + f[k]
      BY <2>2, <3>1, SumsNat, SumsIs
    <3> QED
      BY <1>2, <3>2
  <2> QED
    BY <2>1, <2>2
<1> QED
  BY <1>2, <1>3

\* Nothing counted, nothing summed up.
LEMMA SumsOfZeros ==
  ASSUME NEW top \in Nat, NEW k \in 0 .. top
  PROVE  Sums([n \in 0 .. top |-> 0], top)[k] = 0
<1> DEFINE f == [n \in 0 .. top |-> 0]
           Bad == {n \in 0 .. top : Sums(f, top)[n] # 0}
<1> SUFFICES ASSUME Bad # {} PROVE FALSE
  OBVIOUS
<1>1. PICK n \in Bad : \A m \in Bad : n <= m
  <2>1. Bad \subseteq Nat
    OBVIOUS
  <2> HIDE DEF Bad
  <2> QED
    BY <2>1, SmallestNumber
<1>2. \A m \in 0 .. top : f[m] = 0
  OBVIOUS
<1> HIDE DEF f
<1>3. Sums(f, top)[n] = IF n = 0 THEN f[0] ELSE Sums(f, top)[n - 1] + f[n]
  BY SumsIs
<1>4. n # 0
  BY <1>2, <1>3
<1>5. n - 1 \in 0 .. top /\ n - 1 \notin Bad
  BY <1>1, <1>4
<1>6. Sums(f, top)[n - 1] = 0 /\ f[n] = 0
  BY <1>2, <1>5
<1> QED
  BY <1>3, <1>4, <1>6

\* g is f with one more at x.
OneMoreAt(f, g, top, x) ==
  \A k \in 0 .. top : g[k] = IF k = x THEN f[k] + 1 ELSE f[k]

\* One more at x is one more in every sum from x on.
LEMMA SumsOneMore ==
  ASSUME NEW top \in Nat, NEW f \in [0 .. top -> Nat], NEW g,
         NEW x \in 0 .. top, OneMoreAt(f, g, top, x), NEW k \in 0 .. top
  PROVE  Sums(g, top)[k] = IF x <= k THEN Sums(f, top)[k] + 1 ELSE Sums(f, top)[k]
<1> DEFINE Bad == {n \in 0 .. top :
             Sums(g, top)[n] # IF x <= n THEN Sums(f, top)[n] + 1 ELSE Sums(f, top)[n]}
<1> SUFFICES ASSUME Bad # {} PROVE FALSE
  OBVIOUS
<1>1. PICK n \in Bad : \A m \in Bad : n <= m
  <2>1. Bad \subseteq Nat
    OBVIOUS
  <2> HIDE DEF Bad
  <2> QED
    BY <2>1, SmallestNumber
<1>2. Sums(f, top)[n] = IF n = 0 THEN f[0] ELSE Sums(f, top)[n - 1] + f[n]
  BY SumsIs
<1>3. Sums(g, top)[n] = IF n = 0 THEN g[0] ELSE Sums(g, top)[n - 1] + g[n]
  BY SumsIs
<1>4. g[n] = IF n = x THEN f[n] + 1 ELSE f[n]
  BY DEF OneMoreAt
<1>5. f[n] \in Nat /\ Sums(f, top)[n] \in Nat
  BY SumsNat
<1>6. n # 0
  BY <1>2, <1>3, <1>4
<1>7. n - 1 \in 0 .. top /\ n - 1 \notin Bad
  BY <1>1, <1>6
<1>8. Sums(f, top)[n - 1] \in Nat
  BY <1>7, SumsNat
<1>9. Sums(g, top)[n - 1]
        = IF x <= n - 1 THEN Sums(f, top)[n - 1] + 1 ELSE Sums(f, top)[n - 1]
  BY <1>7
<1>10. Sums(g, top)[n] = IF x <= n THEN Sums(f, top)[n] + 1 ELSE Sums(f, top)[n]
  <2>1. n \in Nat /\ x \in Nat
    OBVIOUS
  <2> HIDE DEF Bad
  <2>2. CASE x <= n - 1
    <3>1. n # x /\ x <= n
      BY <2>1, <2>2
    <3> QED
      BY <3>1, <2>2, <1>2, <1>3, <1>4, <1>5, <1>6, <1>8, <1>9
  <2>3. CASE x = n
    <3>1. ~ (x <= n - 1) /\ x <= n
      BY <2>1, <2>3
    <3> QED
      BY <3>1, <2>3, <1>2, <1>3, <1>4, <1>5, <1>6, <1>8, <1>9
  <2>4. CASE x > n
    <3>1. ~ (x <= n - 1) /\ ~ (x <= n) /\ n # x
      BY <2>1, <2>4
    <3> QED
      BY <3>1, <1>2, <1>3, <1>4, <1>5, <1>6, <1>8, <1>9
  <2> QED
    BY <2>1, <2>2, <2>3, <2>4
<1> QED
  BY <1>10
-----------------------------------------------------------------------------
(***************************************************************************)
(* Buckets.                                                                *)
(***************************************************************************)
LastB == HIST_BUCKETS - 1
MaxWord == Pow2[Bits] - 1

\* The largest word of bucket i.
Top(i) == IF i = LastB THEN MaxWord ELSE Pow2[i + 1] - 1

LEMMA Ranges ==
  /\ Bits \in Nat \ {0}
  /\ LastB \in 0 .. Bits - 1
  /\ LastB \in Nat
  /\ LastB + 1 = HIST_BUCKETS
  /\ Buckets = 0 .. LastB
  /\ MaxWord \in Nat
  /\ Words = 0 .. MaxWord
  /\ MaxWord + 1 = 2 * Pow2[Bits - 1]
<1>1. Bits \in Nat \ {0} /\ HIST_BUCKETS \in 1 .. Bits
  BY BitsAssumption, BucketsAssumption
<1>2. Bits \in 0 .. Bits /\ Bits - 1 \in 0 .. Bits - 1 /\ (Bits - 1) + 1 = Bits
  BY <1>1
<1>3. Pow2[Bits] \in Nat \ {0} /\ Pow2[Bits] = 2 * Pow2[Bits - 1]
  BY <1>2, Pow2Positive, Pow2Doubles
<1>4. MaxWord \in Nat /\ MaxWord + 1 = Pow2[Bits]
  BY <1>3 DEF MaxWord
<1> QED
  BY <1>1, <1>3, <1>4 DEF LastB, MaxWord, Buckets, Words

LEMMA TopType ==
  ASSUME NEW i \in Buckets
  PROVE  Top(i) \in Words
<1>1. CASE i = LastB
  BY <1>1, Ranges DEF Top
<1>2. CASE i # LastB
  <2>1. i \in Nat /\ i + 1 \in 0 .. Bits /\ Bits \in 0 .. Bits /\ i + 1 <= Bits
    BY Ranges
  <2>2. Pow2[i + 1] \in Nat \ {0} /\ Pow2[Bits] \in Nat /\ Pow2[i + 1] <= Pow2[Bits]
    BY <2>1, Pow2Positive, Pow2Ascends
  <2>3. Top(i) = Pow2[i + 1] - 1 /\ MaxWord = Pow2[Bits] - 1
    BY <1>2 DEF Top, MaxWord
  <2>4. Words = 0 .. MaxWord
    BY Ranges
  <2> QED
    BY <2>2, <2>3, <2>4
<1> QED
  BY <1>1, <1>2

\* 63 - clz(val_ns | 1), before it is cut off.
Highest(odd, i) == i \in 0 .. Bits - 1 /\ Pow2[i] <= odd /\ odd < Pow2[i + 1]

LEMMA HighestExists ==
  ASSUME NEW odd \in 1 .. MaxWord
  PROVE  \E i \in 0 .. Bits - 1 : Highest(odd, i)
<1> DEFINE Above == {i \in 0 .. Bits - 1 : odd < Pow2[i + 1]}
<1>1. Bits - 1 \in Above
  <2>1. Bits - 1 \in 0 .. Bits - 1 /\ (Bits - 1) + 1 = Bits
    BY Ranges
  <2>2. odd < Pow2[Bits]
    <3>1. Pow2[Bits] \in Nat
      BY Ranges, Pow2Positive
    <3> QED
      BY <3>1 DEF MaxWord
  <2> QED
    BY <2>1, <2>2
<1>2. PICK i \in Above : \A j \in Above : i <= j
  <2>1. Above \subseteq Nat
    BY Ranges
  <2> HIDE DEF Above
  <2> QED
    BY <1>1, <2>1, SmallestNumber
<1>3. i \in 0 .. Bits - 1 /\ odd < Pow2[i + 1]
  OBVIOUS
<1>4. Pow2[i] <= odd
  <2>1. CASE i = 0
    BY <2>1, Ranges, Pow2Is
  <2>2. CASE i # 0
    <3>1. Bits \in Nat
      BY Ranges
    <3>2. i - 1 \in 0 .. Bits - 1 /\ (i - 1) + 1 = i /\ i \in 0 .. Bits /\ ~ (i <= i - 1)
      BY <1>3, <2>2, <3>1
    <3>3. i - 1 \notin Above
      <4> HIDE DEF Above
      <4> QED
        BY <1>2, <3>2
    <3>4. Pow2[i] \in Nat /\ ~ (odd < Pow2[i])
      BY <3>2, <3>3, Pow2Positive
    <3> QED
      BY <3>4, Ranges
  <2> QED
    BY <2>1, <2>2
<1> QED
  BY <1>3, <1>4 DEF Highest

\* val_ns | 1
Odd(w) == IF w % 2 = 0 THEN w + 1 ELSE w

LEMMA OddType ==
  ASSUME NEW w \in Words
  PROVE  /\ Odd(w) \in 1 .. MaxWord
         /\ w <= Odd(w) /\ Odd(w) <= w + 1
         /\ Odd(w) % 2 = 1
<1>1. Bits - 1 \in 0 .. Bits
  BY Ranges
<1>2. PICK h : h = Pow2[Bits - 1]
  OBVIOUS
<1>3. h \in Nat \ {0} /\ MaxWord + 1 = 2 * h /\ MaxWord \in Nat /\ w \in 0 .. MaxWord
  BY <1>1, <1>2, Ranges, Pow2Positive
<1>4. PICK o : o = Odd(w)
  OBVIOUS
<1>5. o = IF w % 2 = 0 THEN w + 1 ELSE w
  BY <1>4 DEF Odd
<1>6. o % 2 = 1 /\ w <= o /\ o <= w + 1 /\ o >= 1
  BY <1>3, <1>5
<1>7. o <= MaxWord /\ o \in Nat
  BY <1>3, <1>5, <1>6
<1> QED
  BY <1>3, <1>4, <1>6, <1>7

LEMMA BucketIs ==
  ASSUME NEW w \in Words
  PROVE  \E i \in 0 .. Bits - 1 :
           Highest(Odd(w), i) /\ Bucket(w) = IF i >= HIST_BUCKETS THEN LastB ELSE i
<1> DEFINE idx == CHOOSE i \in 0 .. Bits - 1 : Pow2[i] <= Odd(w) /\ Odd(w) < Pow2[i + 1]
<1>1. \E i \in 0 .. Bits - 1 : Highest(Odd(w), i)
  BY OddType, HighestExists
<1>2. \E i \in 0 .. Bits - 1 : Pow2[i] <= Odd(w) /\ Odd(w) < Pow2[i + 1]
  BY <1>1 DEF Highest
<1>3. idx \in 0 .. Bits - 1 /\ Pow2[idx] <= Odd(w) /\ Odd(w) < Pow2[idx + 1]
  BY <1>2
<1>4. Bucket(w) = IF idx >= HIST_BUCKETS THEN HIST_BUCKETS - 1 ELSE idx
  BY DEF Bucket, Odd
<1> HIDE DEF idx
<1> QED
  BY <1>3, <1>4 DEF Highest, LastB

\* The buckets up to i hold the samples up to the last word of bucket i, the
\* upper end of the range printed for it (lensx.cpp:80-81, 99).
LEMMA BucketUpto ==
  ASSUME NEW w \in Words, NEW i \in Buckets
  PROVE  Bucket(w) \in Buckets /\ (Bucket(w) <= i <=> w <= Top(i))
<1>1. PICK n \in 0 .. Bits - 1 :
        Highest(Odd(w), n) /\ Bucket(w) = IF n >= HIST_BUCKETS THEN LastB ELSE n
  BY BucketIs
<1>2. Bucket(w) \in 0 .. LastB
  BY <1>1, Ranges
<1>3. CASE i = LastB
  BY <1>2, <1>3, Ranges DEF Top
<1>4. CASE i # LastB
  <2>1. i \in Nat /\ n \in Nat /\ i < LastB /\ LastB \in Nat /\ HIST_BUCKETS = LastB + 1
    BY <1>4, Ranges
  <2>2. Bucket(w) <= i <=> n <= i
    BY <1>1, <2>1
  <2>3. /\ n \in 0 .. Bits - 1 /\ n \in 0 .. Bits /\ n + 1 \in 0 .. Bits
        /\ i + 1 \in 0 .. Bits /\ i \in 0 .. Bits - 1 /\ i \in 0 .. Bits
    BY <2>1, Ranges
  <2>4. PICK o, lo, hi, top, half :
          o = Odd(w) /\ lo = Pow2[n] /\ hi = Pow2[n + 1] /\ top = Pow2[i + 1] /\ half = Pow2[i]
    OBVIOUS
  <2>5. /\ o \in Nat /\ w \in Nat /\ w <= o /\ o <= w + 1 /\ o % 2 = 1
        /\ lo <= o /\ o < hi
    BY <1>1, <2>4, OddType, Ranges DEF Highest
  <2>6. lo \in Nat /\ hi \in Nat /\ top \in Nat /\ half \in Nat /\ top = 2 * half
    BY <2>3, <2>4, Pow2Positive, Pow2Doubles
  <2>7. ASSUME n <= i PROVE w <= top - 1
    <3>1. n + 1 <= i + 1
      BY <2>1, <2>7
    <3>2. hi <= top
      BY <2>3, <2>4, <3>1, Pow2Ascends
    <3> QED
      BY <2>5, <2>6, <3>2
  <2>8. ASSUME ~ (n <= i) PROVE ~ (w <= top - 1)
    <3>1. i + 1 <= n
      BY <2>1, <2>8
    <3>2. top <= lo
      BY <2>3, <2>4, <3>1, Pow2Ascends
    <3>3. o # top
      BY <2>5, <2>6
    <3> QED
      BY <2>5, <2>6, <3>2, <3>3
  <2>9. Top(i) = top - 1
    BY <1>4, <2>4 DEF Top
  <2> QED
    BY <1>2, <2>2, <2>7, <2>8, <2>9, Ranges
<1> QED
  BY <1>2, <1>3, <1>4, Ranges
-----------------------------------------------------------------------------
(***************************************************************************)
(* The inductive invariant.                                                *)
(***************************************************************************)
Cum(i) == Sums(buckets, LastB)[i]

HistTypes ==
  /\ buckets \in [Buckets -> Nat]
  /\ count \in 0 .. MaxSamples
  /\ recorded \in [Words -> Nat]

\* What pct() has counted after bucket i is the number of samples up to the
\* last word of bucket i.
SumsAgree == \A i \in Buckets : Cum(i) = AtMost(Top(i))

\* All samples are in the buckets.
AllCounted == Cum(LastB) = count

HistInv == HistTypes /\ SumsAgree /\ AllCounted

LEMMA InitHistInv == Init => HistInv
<1> SUFFICES ASSUME Init PROVE HistInv
  OBVIOUS
<1>1. buckets = [i \in 0 .. LastB |-> 0] /\ recorded = [v \in 0 .. MaxWord |-> 0] /\ count = 0
  BY Ranges DEF Init
<1>2. HistTypes
  BY <1>1, Ranges, SamplesAssumption DEF HistTypes
<1>3. \A i \in Buckets : Cum(i) = 0
  BY <1>1, Ranges, SumsOfZeros DEF Cum
<1>4. \A v \in Words : AtMost(v) = 0
  BY <1>1, Ranges, SumsOfZeros DEF AtMost, MaxWord
<1> QED
  BY <1>1, <1>2, <1>3, <1>4, TopType, Ranges DEF HistInv, SumsAgree, AllCounted

\* A sample adds one to the sums from its bucket on.
LEMMA RecordCum ==
  ASSUME HistTypes, NEW x \in Words, Record(x), NEW i \in Buckets
  PROVE  Cum(i)' = IF x <= Top(i) THEN Cum(i) + 1 ELSE Cum(i)
<1>1. PICK b : b = Bucket(x)
  OBVIOUS
<1>2. b \in Buckets /\ (b <= i <=> x <= Top(i))
  BY <1>1, BucketUpto
<1>3. PICK f, g : f = buckets /\ g = buckets'
  OBVIOUS
<1>4. f \in [0 .. LastB -> Nat] /\ OneMoreAt(f, g, LastB, b)
  BY <1>1, <1>2, <1>3, Ranges DEF HistTypes, Record, OneMoreAt
<1>5. Sums(g, LastB)[i] = IF b <= i THEN Sums(f, LastB)[i] + 1 ELSE Sums(f, LastB)[i]
  BY <1>2, <1>4, Ranges, SumsOneMore
<1> QED
  BY <1>2, <1>3, <1>5 DEF Cum

\* and to the number of samples up to every word from its own on.
LEMMA RecordAtMost ==
  ASSUME HistTypes, NEW x \in Words, Record(x), NEW v \in Words
  PROVE  AtMost(v)' = IF x <= v THEN AtMost(v) + 1 ELSE AtMost(v)
<1>1. PICK f, g : f = recorded /\ g = recorded'
  OBVIOUS
<1>2. f \in [0 .. MaxWord -> Nat] /\ OneMoreAt(f, g, MaxWord, x)
  BY <1>1, Ranges DEF HistTypes, Record, OneMoreAt
<1>3. Sums(g, MaxWord)[v] = IF x <= v THEN Sums(f, MaxWord)[v] + 1 ELSE Sums(f, MaxWord)[v]
  BY <1>2, Ranges, SumsOneMore
<1> QED
  BY <1>1, <1>3 DEF AtMost, MaxWord

LEMMA RecordHistInv ==
  ASSUME HistInv, NEW x \in Values, Record(x)
  PROVE  HistInv'
<1> USE DEF HistInv
<1>1. x \in Words
  BY ValuesAssumption
<1>2. HistTypes'
  BY <1>1, SamplesAssumption DEF HistTypes, Record
<1>3. SumsAgree'
  <2> SUFFICES ASSUME NEW i \in Buckets PROVE Cum(i)' = AtMost(Top(i))'
    BY DEF SumsAgree
  <2>1. Top(i) \in Words
    BY TopType
  <2>2. PICK t : t = Top(i)
    OBVIOUS
  <2>3. AtMost(t)' = IF x <= t THEN AtMost(t) + 1 ELSE AtMost(t)
    BY <1>1, <2>1, <2>2, RecordAtMost
  <2>4. Cum(i)' = IF x <= t THEN Cum(i) + 1 ELSE Cum(i)
    BY <1>1, <2>2, RecordCum
  <2>5. Cum(i) = AtMost(t)
    BY <2>2 DEF SumsAgree
  <2>6. AtMost(t)' = AtMost(Top(i))'
    BY <2>2
  <2> QED
    BY <2>3, <2>4, <2>5, <2>6
<1>4. AllCounted'
  <2>1. LastB \in Buckets /\ x <= Top(LastB)
    BY <1>1, Ranges DEF Top
  <2>2. Cum(LastB)' = Cum(LastB) + 1
    BY <1>1, <2>1, RecordCum
  <2> QED
    BY <2>2 DEF AllCounted, Record
<1> QED
  BY <1>2, <1>3, <1>4

LEMMA HistInvariant == Spec => []HistInv
<1>1. HistInv /\ [Next]_vars => HistInv'
  <2> SUFFICES ASSUME HistInv, [Next]_vars PROVE HistInv'
    OBVIOUS
  <2>1. CASE Next
    BY <2>1, RecordHistInv DEF Next
  <2>2. CASE UNCHANGED vars
    BY <2>2 DEF vars, HistInv, HistTypes, SumsAgree, AllCounted, Cum, AtMost
  <2> QED
    BY <2>1, <2>2
<1> QED
  BY <1>1, InitHistInv, PTL DEF Spec
-----------------------------------------------------------------------------
(***************************************************************************)
(* Theorems.                                                               *)
(***************************************************************************)
\* Every sample is in exactly one bucket: the buckets add up to count and the
\* printed shares to 100% (lensx.cpp:77-82, 100).
THEOREM HistTypeCorrect == Spec => []TypeOK
<1>1. HistInv => TypeOK
  <2> SUFFICES ASSUME HistInv PROVE TypeOK
    OBVIOUS
  <2>1. HistTypes /\ Cum(LastB) = count /\ count \in 0 .. MaxSamples /\ MaxSamples \in Nat
    BY SamplesAssumption DEF HistInv, HistTypes, AllCounted
  <2>2. PICK f, g : f = buckets /\ g = recorded
    OBVIOUS
  <2>3. f \in [0 .. LastB -> Nat] /\ g \in [0 .. MaxWord -> Nat]
    BY <2>1, <2>2, Ranges DEF HistTypes
  <2>4. Sums(f, LastB)[LastB] = count /\ Sums(g, MaxWord)[MaxWord] = count
    <3>1. Sums(f, LastB)[LastB] = count
      BY <2>1, <2>2 DEF Cum
    <3>2. Cum(LastB) = AtMost(Top(LastB)) /\ Top(LastB) = MaxWord
      BY Ranges DEF HistInv, SumsAgree, Top
    <3> QED
      BY <2>1, <2>2, <3>1, <3>2 DEF AtMost, MaxWord
  <2>5. \A k \in 0 .. LastB : f[k] \in 0 .. MaxSamples
    <3> SUFFICES ASSUME NEW k \in 0 .. LastB PROVE f[k] \in 0 .. MaxSamples
      OBVIOUS
    <3>1. f[k] <= count /\ f[k] \in Nat
      BY <2>3, <2>4, SummandBelow, Ranges
    <3> QED
      BY <2>1, <3>1
  <2>6. \A k \in 0 .. MaxWord : g[k] \in 0 .. MaxSamples
    <3> SUFFICES ASSUME NEW k \in 0 .. MaxWord PROVE g[k] \in 0 .. MaxSamples
      OBVIOUS
    <3>1. g[k] <= count /\ g[k] \in Nat
      BY <2>3, <2>4, SummandBelow, Ranges
    <3> QED
      BY <2>1, <3>1
  <2>7. f \in [0 .. LastB -> 0 .. MaxSamples] /\ g \in [0 .. MaxWord -> 0 .. MaxSamples]
    BY <2>3, <2>5, <2>6
  <2> QED
    BY <2>1, <2>2, <2>4, <2>7, Ranges DEF TypeOK, LastB
<1> QED
  BY <1>1, HistInvariant, PTL

\* target is a number that does not exceed count, and grows with p.
LEMMA TargetType ==
  ASSUME HistInv, NEW p \in Percentiles
  PROVE  Target(p) \in Nat /\ Target(p) <= count
<1>1. PICK n : n = count
  OBVIOUS
<1>2. n \in Nat
  BY <1>1, SamplesAssumption DEF HistInv, HistTypes
<1>3. (n * 500) \div 1000 \in Nat /\ (n * 500) \div 1000 <= n
  BY <1>2
<1>4. (n * 900) \div 1000 \in Nat /\ (n * 900) \div 1000 <= n
  BY <1>2
<1>5. (n * 990) \div 1000 \in Nat /\ (n * 990) \div 1000 <= n
  BY <1>2
<1>6. (n * 999) \div 1000 \in Nat /\ (n * 999) \div 1000 <= n
  BY <1>2
<1> QED
  BY <1>1, <1>3, <1>4, <1>5, <1>6 DEF Percentiles, Target

LEMMA TargetAscends ==
  ASSUME HistInv, NEW p \in Percentiles, NEW q \in Percentiles, p <= q
  PROVE  Target(p) <= Target(q)
<1>1. PICK n : n = count
  OBVIOUS
<1>2. n \in Nat
  BY <1>1, SamplesAssumption DEF HistInv, HistTypes
<1>3. /\ (n * 500) \div 1000 <= (n * 900) \div 1000
      /\ (n * 900) \div 1000 <= (n * 990) \div 1000
      /\ (n * 990) \div 1000 <= (n * 999) \div 1000
  BY <1>2
<1>4. /\ (n * 500) \div 1000 \in Int /\ (n * 900) \div 1000 \in Int
      /\ (n * 990) \div 1000 \in Int /\ (n * 999) \div 1000 \in Int
  BY <1>2
<1> QED
  BY <1>1, <1>3, <1>4 DEF Percentiles, Target

\* The loop of pct() stops, in the first bucket after which target is reached:
\* the "return 0" after it is never taken (lensx.cpp:116-120).
LEMMA PctBucketIs ==
  ASSUME HistInv, NEW p \in Percentiles
  PROVE  /\ PctBucket(p) \in Buckets
         /\ Cum(PctBucket(p)) >= Target(p)
         /\ \A j \in Buckets : Cum(j) >= Target(p) => PctBucket(p) <= j
<1>1. PICK T : T = Target(p)
  OBVIOUS
<1>2. T \in Nat /\ Cum(LastB) >= T
  BY <1>1, TargetType, SamplesAssumption DEF HistInv, AllCounted, HistTypes
<1> DEFINE Enough == {i \in Buckets : Cum(i) >= T}
<1>3. PICK m \in Enough : \A j \in Enough : m <= j
  <2>1. LastB \in Enough /\ Enough \subseteq Nat
    BY <1>2, Ranges
  <2> HIDE DEF Enough
  <2> QED
    BY <2>1, SmallestNumber
<1>4. m \in Buckets /\ Cum(m) >= T /\ m \in Nat
  BY Ranges
<1>5. \A i : Reaches(i, Target(p)) <=> Cum(i) >= T
  BY <1>1 DEF Reaches, Cum, LastB
<1> DEFINE First(i) == Reaches(i, Target(p)) /\ \A j \in 0 .. i - 1 : ~ Reaches(j, Target(p))
<1>6. First(m)
  <2>1. ASSUME NEW j \in 0 .. m - 1 PROVE ~ Reaches(j, Target(p))
    <3>1. j \in Buckets /\ ~ (m <= j)
      BY <1>4, Ranges
    <3>2. j \notin Enough
      BY <1>3, <3>1
    <3> QED
      BY <1>5, <3>1, <3>2
  <2> QED
    BY <1>4, <1>5, <2>1
<1>7. PctBucket(p) = CHOOSE i \in Buckets : First(i)
  BY DEF PctBucket
<1>8. PICK b : b = PctBucket(p)
  OBVIOUS
<1>9. b \in Buckets /\ First(b)
  BY <1>4, <1>6, <1>7, <1>8
<1>10. Cum(b) >= T
  BY <1>5, <1>9
<1>11. ASSUME NEW j \in Buckets, Cum(j) >= T PROVE b <= j
  <2>1. j \notin 0 .. b - 1
    BY <1>5, <1>9, <1>11
  <2>2. j \in Nat /\ b \in Nat
    BY <1>9, Ranges
  <2> QED
    BY <2>1, <2>2
<1> QED
  BY <1>1, <1>8, <1>9, <1>10, <1>11

\* The sample a percentile is about exists.
LEMMA ExactIs ==
  ASSUME HistInv, NEW p \in Percentiles
  PROVE  /\ Exact(p) \in Words
         /\ AtMost(Exact(p)) >= Target(p)
         /\ \A w \in Words : w < Exact(p) => AtMost(w) < Target(p)
<1>1. PICK T : T = Target(p)
  OBVIOUS
<1>2. T \in Nat /\ AtMost(MaxWord) >= T
  <2>1. Cum(LastB) = AtMost(Top(LastB)) /\ Top(LastB) = MaxWord
    BY Ranges DEF HistInv, SumsAgree, Top
  <2> QED
    BY <1>1, <2>1, TargetType, SamplesAssumption DEF HistInv, AllCounted, HistTypes
<1>3. PICK g : g = recorded
  OBVIOUS
<1>4. \A v \in Words : AtMost(v) \in Nat
  <2>1. g \in [0 .. MaxWord -> Nat]
    BY <1>3, Ranges DEF HistInv, HistTypes
  <2> QED
    BY <1>3, <2>1, SumsNat, Ranges DEF AtMost, MaxWord
<1> DEFINE Enough == {v \in Words : AtMost(v) >= T}
<1>5. PICK m \in Enough : \A w \in Enough : m <= w
  <2>1. MaxWord \in Enough /\ Enough \subseteq Nat
    BY <1>2, Ranges
  <2> HIDE DEF Enough
  <2> QED
    BY <2>1, SmallestNumber
<1>6. m \in Words /\ AtMost(m) >= T /\ m \in Nat
  BY Ranges
<1> DEFINE First(v) == AtMost(v) >= Target(p) /\ \A w \in 0 .. v - 1 : AtMost(w) < Target(p)
<1>7. First(m)
  <2>1. ASSUME NEW w \in 0 .. m - 1 PROVE AtMost(w) < Target(p)
    <3>1. w \in Words /\ ~ (m <= w)
      BY <1>6, Ranges
    <3>2. w \notin Enough
      BY <1>5, <3>1
    <3> QED
      BY <1>1, <1>2, <1>4, <3>1, <3>2
  <2> QED
    BY <1>1, <1>6, <2>1
<1>8. Exact(p) = CHOOSE v \in Words : First(v)
  BY DEF Exact
<1>9. PICK e : e = Exact(p)
  OBVIOUS
<1>10. e \in Words /\ First(e)
  BY <1>6, <1>7, <1>8, <1>9
<1>11. ASSUME NEW w \in Words, w < e PROVE AtMost(w) < T
  <2>1. w \in 0 .. e - 1
    BY <1>10, <1>11, Ranges
  <2> QED
    BY <1>1, <1>10, <2>1
<1> QED
  BY <1>1, <1>9, <1>10, <1>11

\* A percentile is the middle of the bucket that holds the sample it is about
\* (lensx.cpp:79-82, 99, 114-121).
THEOREM HistPctIsOfTheSample == Spec => []PctIsOfTheSample
<1>1. HistInv => PctIsOfTheSample
  <2> SUFFICES ASSUME HistInv, NEW p \in Percentiles, Target(p) >= 1
               PROVE  /\ Pow2[PctBucket(p)] <= Exact(p) \/ (PctBucket(p) = 0 /\ Exact(p) = 0)
                      /\ Exact(p) < Pow2[PctBucket(p) + 1] \/ PctBucket(p) = HIST_BUCKETS - 1
    BY DEF PctIsOfTheSample
  <2>1. PICK i, v, T : i = PctBucket(p) /\ v = Exact(p) /\ T = Target(p)
    OBVIOUS
  <2>2. /\ i \in Buckets /\ Cum(i) >= T
        /\ \A j \in Buckets : Cum(j) >= T => i <= j
    BY <2>1, PctBucketIs
  <2>3. /\ v \in Words /\ AtMost(v) >= T
        /\ \A w \in Words : w < v => AtMost(w) < T
    BY <2>1, ExactIs
  <2>4. i \in Nat /\ v \in Nat /\ T \in Nat
    BY <2>1, <2>2, <2>3, TargetType, Ranges
  <2>5. PICK g : g = recorded
    OBVIOUS
  <2>6. g \in [0 .. MaxWord -> Nat]
    BY <2>5, Ranges DEF HistInv, HistTypes
  <2>7. \A w \in Words : AtMost(w) \in Nat
    BY <2>5, <2>6, SumsNat, Ranges DEF AtMost, MaxWord
  <2>8. \A w, x \in Words : w <= x => AtMost(w) <= AtMost(x)
    BY <2>5, <2>6, SumsAscend, Ranges DEF AtMost, MaxWord
  <2>9. v <= Top(i)
    <3>1. Top(i) \in Words /\ Top(i) \in Nat
      BY <2>2, TopType, Ranges
    <3>2. AtMost(Top(i)) >= T /\ AtMost(Top(i)) \in Nat
      BY <2>2, <2>7, <3>1 DEF HistInv, SumsAgree
    <3>3. ~ (Top(i) < v)
      BY <2>3, <2>4, <3>1, <3>2
    <3> QED
      BY <2>4, <3>1, <3>3
  <2>10. v < Pow2[i + 1] \/ i = LastB
    <3> SUFFICES ASSUME i # LastB PROVE v < Pow2[i + 1]
      OBVIOUS
    <3>1. i + 1 \in 0 .. Bits
      BY <2>2, Ranges
    <3>2. Pow2[i + 1] \in Nat /\ Top(i) = Pow2[i + 1] - 1
      BY <3>1, Pow2Positive DEF Top
    <3> QED
      BY <2>4, <2>9, <3>2
  <2>11. Pow2[i] <= v \/ (i = 0 /\ v = 0)
    <3>1. CASE i = 0
      <4>1. Pow2[0] = 1
        BY Ranges, Pow2Is
      <4> QED
        BY <2>4, <3>1, <4>1
    <3>2. CASE i # 0
      <4>1. i - 1 \in Buckets /\ i - 1 # LastB /\ (i - 1) + 1 = i /\ i \in 0 .. Bits
        BY <2>2, <2>4, <3>2, Ranges
      <4>2. Top(i - 1) = Pow2[i] - 1 /\ Pow2[i] \in Nat /\ Top(i - 1) \in Words
        BY <4>1, Pow2Positive, TopType DEF Top
      <4>3. AtMost(Top(i - 1)) = Cum(i - 1) /\ AtMost(Top(i - 1)) \in Nat
        BY <2>7, <4>1, <4>2 DEF HistInv, SumsAgree
      <4>4. ~ (Cum(i - 1) >= T)
        BY <2>2, <2>4, <4>1
      <4>5. ~ (v <= Top(i - 1))
        BY <2>3, <2>4, <2>7, <2>8, <4>2, <4>3, <4>4
      <4> QED
        BY <2>4, <4>2, <4>5
    <3> QED
      BY <3>1, <3>2
  <2> QED
    BY <2>1, <2>10, <2>11 DEF LastB
<1> QED
  BY <1>1, HistInvariant, PTL

\* The percentiles ascend (lensx.cpp:128-130).
THEOREM HistPctAscending == Spec => []PctAscending
<1>1. HistInv => PctAscending
  <2> SUFFICES ASSUME HistInv, NEW p \in Percentiles, NEW q \in Percentiles, p <= q
               PROVE  Pct(p) <= Pct(q)
    BY DEF PctAscending
  <2>1. PICK a, b, S, T : a = PctBucket(p) /\ b = PctBucket(q) /\ S = Target(p) /\ T = Target(q)
    OBVIOUS
  <2>2. S \in Nat /\ T \in Nat /\ S <= T
    BY <2>1, TargetType, TargetAscends
  <2>3. a \in Buckets /\ b \in Buckets /\ Cum(b) >= T
    BY <2>1, PctBucketIs
  <2>4. Cum(b) \in Nat
    <3>1. PICK f : f = buckets
      OBVIOUS
    <3>2. f \in [0 .. LastB -> Nat]
      BY <3>1, Ranges DEF HistInv, HistTypes
    <3> QED
      BY <2>3, <3>1, <3>2, SumsNat, Ranges DEF Cum
  <2>5. Cum(b) >= S
    BY <2>2, <2>3, <2>4
  <2>6. a <= b
    BY <2>1, <2>3, <2>5, PctBucketIs
  <2>7. /\ a \in 0 .. Bits - 1 /\ b \in 0 .. Bits - 1 /\ a \in 0 .. Bits /\ b \in 0 .. Bits
    BY <2>3, Ranges
  <2>8. PICK x, y : x = Pow2[a] /\ y = Pow2[b]
    OBVIOUS
  <2>9. x \in Nat /\ y \in Nat /\ x <= y /\ Pow2[a + 1] = 2 * x /\ Pow2[b + 1] = 2 * y
    BY <2>6, <2>7, <2>8, Pow2Positive, Pow2Ascends, Pow2Doubles
  <2>10. (x + 2 * x) \div 2 <= (y + 2 * y) \div 2
    BY <2>9
  <2> QED
    BY <2>1, <2>8, <2>9, <2>10 DEF Pct
<1> QED
  BY <1>1, HistInvariant, PTL
=============================================================================
