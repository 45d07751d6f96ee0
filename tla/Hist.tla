-------------------------------- MODULE Hist --------------------------------
(***************************************************************************)
(* struct Hist (src/lensx.cpp): the latencies of one report, counted in    *)
(* buckets of powers of two, and the percentiles print() reads off them.   *)
(*                                                                         *)
(* Percentiles are in tenths (999 is P999); target is computed in reals,   *)
(* which is what the doubles of the code give for the counts that occur.   *)
(* The bars and the units of the output are left out.                      *)
(***************************************************************************)
EXTENDS Integers

CONSTANTS
  HIST_BUCKETS,   \* 48 in the code
  Bits,           \* 64: the width of uint64_t
  Values,         \* the latencies recorded, in ns
  MaxSamples      \* bound: the number of samples

\* 1ULL << n
Pow2[n \in 0 .. Bits] == IF n = 0 THEN 1 ELSE 2 * Pow2[n - 1]

\* The numbers of a uint64_t.
Words == 0 .. Pow2[Bits] - 1

ASSUME BitsAssumption    == Bits \in Nat \ {0}
ASSUME BucketsAssumption == HIST_BUCKETS \in 1 .. Bits
ASSUME ValuesAssumption  == Values \subseteq Words
ASSUME SamplesAssumption == MaxSamples \in Nat

VARIABLES
  buckets,        \* number of samples by bucket
  count,          \* number of samples
  recorded        \* history: word -> how often it was recorded

vars == <<buckets, count, recorded>>

Buckets == 0 .. HIST_BUCKETS - 1

\* Mutant: the last bucket is one too far.
BucketLate(val_ns) ==
  LET odd == IF val_ns % 2 = 0 THEN val_ns + 1 ELSE val_ns
      idx == CHOOSE i \in 0 .. Bits - 1 : Pow2[i] <= odd /\ odd < Pow2[i + 1]
  IN  IF idx > HIST_BUCKETS THEN HIST_BUCKETS - 1 ELSE idx

\* Mutant: powers of two fall into the bucket below.
BucketLow(val_ns) ==
  LET idx == CHOOSE i \in 0 .. Bits - 1 :
               (val_ns <= 1 /\ i = 0) \/ (Pow2[i] < val_ns /\ val_ns <= Pow2[i + 1])
  IN  IF idx >= HIST_BUCKETS THEN HIST_BUCKETS - 1 ELSE idx

\* 63 - clz(val_ns | 1), cut off at the last bucket
Bucket(val_ns) ==
  LET odd == IF val_ns % 2 = 0 THEN val_ns + 1 ELSE val_ns
      idx == CHOOSE i \in 0 .. Bits - 1 : Pow2[i] <= odd /\ odd < Pow2[i + 1]
  IN  IF idx >= HIST_BUCKETS THEN HIST_BUCKETS - 1 ELSE idx

Init ==
  /\ buckets = [i \in Buckets |-> 0]
  /\ count = 0
  /\ recorded = [v \in Words |-> 0]

Record(val_ns) ==
  /\ count < MaxSamples
  /\ count' = count + 1
  /\ buckets' = [i \in Buckets |->
       IF i = Bucket(val_ns) THEN buckets[i] + 1 ELSE buckets[i]]
  /\ recorded' = [recorded EXCEPT ![val_ns] = @ + 1]

Next == \E v \in Values : Record(v)

Spec == Init /\ [][Next]_vars
-----------------------------------------------------------------------------
(***************************************************************************)
(* print(): the percentiles.                                               *)
(***************************************************************************)
Target(p) == (count * p) \div 1000

\* cum after f[k] has been added, for every k
Sums(f, top) ==
  LET s[k \in 0 .. top] == IF k = 0 THEN f[0] ELSE s[k - 1] + f[k]
  IN  s

\* cum >= target after bucket i.
Reaches(i, target) == Sums(buckets, HIST_BUCKETS - 1)[i] >= target

\* The bucket in which pct(p) stops.
PctBucket(p) ==
  CHOOSE i \in Buckets :
    Reaches(i, Target(p)) /\ \A j \in 0 .. i - 1 : ~ Reaches(j, Target(p))

\* Mutant: cum = buckets[i] instead of cum += buckets[i].
PctNoCum(p) ==
  LET enough == {i \in Buckets : buckets[i] >= Target(p)}
      first  == CHOOSE i \in enough : \A j \in enough : i <= j
  IN  IF enough = {} THEN 0 ELSE (Pow2[first] + Pow2[first + 1]) \div 2

\* What pct(p) returns: the middle of the bucket.
Pct(p) == (Pow2[PctBucket(p)] + Pow2[PctBucket(p) + 1]) \div 2

Percentiles == {500, 900, 990, 999}
-----------------------------------------------------------------------------
(***************************************************************************)
(* Invariants.                                                             *)
(***************************************************************************)
AtMost(v) == Sums(recorded, Pow2[Bits] - 1)[v]

\* The sample a percentile is about: the Target(p)-th smallest.
Exact(p) ==
  CHOOSE v \in Words :
    AtMost(v) >= Target(p) /\ \A w \in 0 .. v - 1 : AtMost(w) < Target(p)

\* Every variable has its type, and every sample is in one bucket: the shares
\* print() shows add up to 100% (lensx.cpp:77-82, 100).
TypeOK ==
  /\ buckets \in [Buckets -> 0 .. MaxSamples]
  /\ count \in 0 .. MaxSamples
  /\ recorded \in [Words -> 0 .. MaxSamples]
  /\ Sums(buckets, HIST_BUCKETS - 1)[HIST_BUCKETS - 1] = count

\* A percentile that is about a sample is the middle of a bucket in whose
\* printed range, [2^i, 2^(i+1) - 1], the sample lies; a latency of 0 counts as
\* 1 ns and one beyond the last bucket as in the last (lensx.cpp:79-82, 99,
\* 114-121).
PctIsOfTheSample ==
  \A p \in Percentiles : Target(p) >= 1 =>
    LET i == PctBucket(p)
        v == Exact(p)
    IN  /\ Pow2[i] <= v \/ (i = 0 /\ v = 0)
        /\ v < Pow2[i + 1] \/ i = HIST_BUCKETS - 1

\* The percentiles are printed in ascending order (lensx.cpp:128-130).
PctAscending ==
  \A p, q \in Percentiles : p <= q => Pct(p) <= Pct(q)

\* "P50=%s  P90=%s  P99=%s  P999=%s" (lensx.cpp:128): whatever was printed lies
\* in a bucket in which there are samples.
PctHasSamples ==
  count > 0 => \A p \in Percentiles : buckets[PctBucket(p)] > 0
=============================================================================
